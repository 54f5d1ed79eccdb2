\* A window of three ticks, a minute of two, and a tracker that keeps three fills: fills
\* leave the minute, leave the window, and are pushed out by later ones. Limits below,
\* at and above what the tracker keeps.
CONSTANTS
  MaxHistory = 3
  Window = 3
  Check = 2
  RateLimits = {0, 1, 3}
  CountLimits = {0, 1, 3, 4}
  DefaultRate = 2
  DefaultCount = 2
  MaxTime = 6
  MaxFills = 6
SPECIFICATION FTSpec
INVARIANTS
  FTTypeOK
  SuppressesWhenFilledOften
