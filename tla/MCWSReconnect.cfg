\* One Start and two callers of Stop. Two sockets and two heartbeats: the heartbeat of
\* the connection before outlives a reconnect and pings the next connection. With and
\* without a limit of retries, with and without heartbeats.
CONSTANTS
  Loops = {l1}
  Sockets = {c1, c2}
  NoConn = NoConn
  Hearts = {h1, h2}
  Stoppers = {s1, s2}
  RetryLimits = {0, 1}
  MaxDelay = 1
SPECIFICATION FairSpec
INVARIANTS
  TypeOK
  NoSocketLeaked
  StopLeavesNothing
  LiveConnectionBeats
PROPERTIES
  Reconnects
  StopEnds
CHECK_DEADLOCK FALSE
