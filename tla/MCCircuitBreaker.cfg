\* Three callers against two trials: one more than may be on trial. Threshold
\* above HalfOpenMaxTry, so that the failures that trip would spoil an episode.
CONSTANTS
  Threshold = 3
  HalfOpenMaxTry = 2
  CountCap = 4
  Callers = {c1, c2, c3}
  MaxManual = 2
SPECIFICATION CBFairSpec
INVARIANTS
  ClosedBelowThreshold
PROPERTIES
  NoShortcut
  RecoversOnceHealthy
