\* One Start, as the container would make it; two callers of Stop, which may both see an
\* open stopChan; a caller of ApplyParameters. Three writes: one that is being
\* loaded, one that overtakes the handler, and one within the cooldown.
CONSTANTS
  Watchers = {w1}
  Stoppers = {s1, s2}
  Apis = {a1}
  NoOne = NoOne
  MaxWrites = 3
SPECIFICATION FairSpec
INVARIANTS
  StaleOnlyIfMissed
  StoppedIsQuiet
PROPERTIES
  CallsReturn
CHECK_DEADLOCK FALSE
