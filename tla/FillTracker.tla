---------------------------- MODULE FillTracker ----------------------------
(***************************************************************************)
(* order.FillTracker and the Runner's cancel suppression, which rests on    *)
(* it: fills are recorded as they come, old ones are cut off, and a rate is *)
(* computed with each of them.  Time is counted in ticks, the rate in fills *)
(* per window.  `history` remembers every fill: a history variable.         *)
(***************************************************************************)
EXTENDS Naturals, Sequences, FiniteSets

CONSTANTS
  MaxHistory, Window,         \* NewFillTracker(100, 5 min)
  Check,                      \* checkDuration: 1 min
  RateLimits, CountLimits,    \* arguments of EnableCancelSuppression, 0 for the default
  DefaultRate, DefaultCount,
  MaxTime, MaxFills           \* bounds

ASSUME WindowAssumption == {Window, Check} \subseteq Nat \ {0} /\ Check <= Window
ASSUME HistoryAssumption == MaxHistory \in Nat \ {0}
ASSUME LimitsAssumption ==
  {DefaultRate, DefaultCount} \subseteq Nat \ {0} /\ RateLimits \union CountLimits \subseteq Nat

VARIABLES
  now,
  enabled,                  \* cancelSuppressionEnabled; the tracker then exists
  rateLimit, countLimit,    \* fillRateThreshold, recentFillsThreshold
  recentFills,              \* the times of the fills kept
  recentFillRate,
  totalFills,
  history

limits == <<enabled, rateLimit, countLimit>>
tracker == <<recentFills, recentFillRate, totalFills, history>>
ftVars == <<now, limits, tracker>>

\* t.After(now.Add(-d)), without negative times.
Within(t, d, at) == t + d > at
CountWithin(fills, d, at) == Cardinality({i \in DOMAIN fills : Within(fills[i], d, at)})
Last(fills, n) == IF Len(fills) > n THEN SubSeq(fills, Len(fills) - n + 1, Len(fills)) ELSE fills

-----------------------------------------------------------------------------
(* The tracker *)

\* validStart is the first fill within the window; with none, nothing is cut off.
valid(fills) == {i \in DOMAIN fills : Within(fills[i], Window, now)}
validStart(fills) == CHOOSE i \in valid(fills) : \A j \in valid(fills) : i <= j
validFills(fills) ==
  IF valid(fills) = {} THEN fills ELSE SubSeq(fills, validStart(fills), Len(fills))

\* Fault: keeps the oldest fills instead of the latest.
cleanOldFills_Oldest(fills) ==
  IF Len(validFills(fills)) > MaxHistory
  THEN SubSeq(validFills(fills), 1, MaxHistory) ELSE validFills(fills)

\* Fault: no limit on the number of fills kept.
cleanOldFills_Unlimited(fills) == validFills(fills)

\* From the first fill within the window on, and no more than MaxHistory of them.
cleanOldFills(fills) == Last(validFills(fills), MaxHistory)

RecordFill ==
  /\ recentFills' = cleanOldFills(Append(recentFills, now))
  /\ recentFillRate' = CountWithin(recentFills', Window, now)
  /\ totalFills' = totalFills + 1
  /\ history' = Append(history, now)

Reset ==
  /\ enabled
  /\ recentFills' = <<>> /\ totalFills' = 0 /\ recentFillRate' = 0 /\ history' = <<>>
  /\ UNCHANGED <<now, limits>>

\* The rate is the one of the last fill: it is not computed again here.
ShouldSuppressCancel(rateOver, countFrom) ==
  \/ recentFillRate > rateOver
  \/ CountWithin(recentFills, Check, now) >= countFrom

-----------------------------------------------------------------------------
(* The Runner *)

EnableCancelSuppression ==
  /\ enabled' = TRUE
  /\ rateLimit' \in RateLimits
  /\ countLimit' \in CountLimits
  /\ UNCHANGED <<now, tracker>>

\* Without a tracker a fill is not recorded.
OnFill ==
  /\ Len(history) < MaxFills
  /\ IF enabled THEN RecordFill ELSE UNCHANGED tracker
  /\ UNCHANGED <<now, limits>>

OrDefault(n, default) == IF n = 0 THEN default ELSE n

shouldSuppressCancel ==
  /\ enabled
  /\ ShouldSuppressCancel(OrDefault(rateLimit, DefaultRate), OrDefault(countLimit, DefaultCount))

Tick ==
  /\ now < MaxTime
  /\ now' = now + 1
  /\ UNCHANGED <<limits, tracker>>

-----------------------------------------------------------------------------
FTInit ==
  /\ now = 0
  /\ enabled = FALSE /\ rateLimit = 0 /\ countLimit = 0
  /\ recentFills = <<>> /\ recentFillRate = 0 /\ totalFills = 0 /\ history = <<>>

FTNext == EnableCancelSuppression \/ OnFill \/ Reset \/ Tick

FTSpec == FTInit /\ [][FTNext]_ftVars

-----------------------------------------------------------------------------
\* Every variable has its type, the tracker keeps at most MaxHistory fills, and those in
\* the order they came in.
FTTypeOK ==
  /\ now \in Nat /\ enabled \in BOOLEAN
  /\ rateLimit \in Nat /\ countLimit \in Nat
  /\ recentFills \in Seq(0..now) /\ history \in Seq(0..now)
  /\ Len(recentFills) <= MaxHistory
  /\ \A i, j \in DOMAIN recentFills : i < j => recentFills[i] <= recentFills[j]
  /\ recentFillRate \in 0..MaxHistory /\ totalFills = Len(history)

\* Of everything that ever filled: as many as the limit within the last minute, or more
\* than the rate allows within the window that ended with the last fill (no more are
\* counted than the tracker keeps).
FilledOften ==
  \/ CountWithin(history, Check, now) >= OrDefault(countLimit, DefaultCount)
  \/ /\ history # <<>>
     /\ MaxHistory > OrDefault(rateLimit, DefaultRate)
     /\ CountWithin(history, Window, history[Len(history)]) > OrDefault(rateLimit, DefaultRate)

\* Cancels are suppressed exactly when there were many fills: what the tracker has cut
\* off or capped never makes a difference, as long as it keeps as many fills as the
\* limit asks for.
SuppressesWhenFilledOften ==
  OrDefault(countLimit, DefaultCount) <= MaxHistory =>
    (shouldSuppressCancel <=> enabled /\ FilledOften)

\* "在高频成交时抑制" (docs/TODO.md:39): cancels are suppressed only while there are fills
\* within the window. The rate of the last fill stands until the next one.
SuppressionEnds == shouldSuppressCancel => CountWithin(history, Window, now) > 0
=============================================================================
