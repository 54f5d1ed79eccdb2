----------------------------- MODULE HotReload -----------------------------
(***************************************************************************)
(* config.HotReloader: the watch() goroutine every Start makes, the callers *)
(* of Stop, the callers of ApplyParameters, and the configuration file with *)
(* its fsnotify watcher.                                                    *)
(*                                                                         *)
(* h.mu is held over the whole of the reload handler.  A change of the file *)
(* is only ever noticed through an event: `missed` is a history variable    *)
(* that remembers a change whose event was used up without a reload.        *)
(***************************************************************************)
EXTENDS Naturals

CONSTANTS
  Watchers,   \* calls of Start: each starts a goroutine watch()
  Stoppers,   \* goroutines that call Stop
  Apis,       \* goroutines that call ApplyParameters
  NoOne,      \* h.mu is not held for writing
  MaxWrites   \* bound: versions of the file

ASSUME NoOneAssumption == NoOne \notin Watchers
ASSUME WritesAssumption == MaxWrites \in Nat

VARIABLES
  enabled, handler, \* config.Enabled; a reloadHandler is registered
  watch, got,   \* the watch() goroutines; the version the handler of each has read
  mu,           \* the goroutine that holds h.mu for writing
  cooled,       \* time.Since(lastReload) >= CooldownTime
  loaded,       \* the version of the file last loaded
  file, watched, events,  \* its version; it is in the watcher; events not yet received
  missed,
  stopClosed, doneClosed, watcherOpen,
  cancelled,    \* the context is done
  stops, api,   \* the callers of Stop and of ApplyParameters
  panicked      \* close of a closed channel

settings == <<enabled, handler>>
reload == <<watch, got, mu, cooled, loaded>>
disk == <<file, watched, events, missed>>
ends == <<stopClosed, doneClosed, watcherOpen, cancelled>>
hrVars == <<settings, reload, disk, ends, stops, api, panicked>>

Running == {w \in Watchers : watch[w] \notin {"off", "ended"}}
Started == {w \in Watchers : watch[w] # "off"}
Handling == {w \in Watchers : watch[w] \in {"lock", "reload", "handling", "stuck"}}
Stuck == {w \in Watchers : watch[w] = "stuck"}
Goto(w, pc) == watch' = [watch EXCEPT ![w] = pc]

-----------------------------------------------------------------------------
(* SetReloadHandler, Start and watch *)

SetReloadHandler ==
  /\ ~handler /\ mu = NoOne
  /\ handler' = TRUE
  /\ UNCHANGED <<enabled, reload, disk, ends, stops, api, panicked>>

\* Adding the file to a closed watcher fails.
Start(w) ==
  /\ watch[w] = "off"
  /\ enabled /\ watcherOpen
  /\ Goto(w, "select")
  /\ watched' = TRUE
  /\ UNCHANGED <<settings, got, mu, cooled, loaded, file, events, missed, ends, stops, api, panicked>>

\* A write event. Events of any other kind, and watcher errors, change nothing.
TakesEvent(w) ==
  /\ watch[w] = "select"
  /\ events > 0
  /\ Goto(w, "lock")
  /\ events' = events - 1
  /\ UNCHANGED <<settings, got, mu, cooled, loaded, file, watched, missed, ends, stops, api, panicked>>

\* ctx.Done, stopChan, or the channel of events closed; defer close(h.doneChan).
LoopEnds(w) ==
  /\ watch[w] = "select"
  /\ cancelled \/ stopClosed \/ ~watcherOpen
  /\ Goto(w, "ended")
  /\ doneClosed' = TRUE
  /\ panicked' = doneClosed
  /\ UNCHANGED <<settings, got, mu, cooled, loaded, disk, stopClosed, watcherOpen, cancelled, stops, api>>

-----------------------------------------------------------------------------
(* handleConfigChange *)

\* Within the cooldown the event is dropped, with the change it stood for.
Cooling(w) ==
  /\ watch[w] = "lock" /\ mu = NoOne
  /\ ~cooled
  /\ Goto(w, "select")
  /\ missed' = TRUE
  /\ UNCHANGED <<settings, got, mu, cooled, loaded, file, watched, events, ends, stops, api, panicked>>

\* Nothing is registered that could reload: the event is used up all the same, and the
\* cooldown begins.
NothingReloads(w) ==
  /\ watch[w] = "lock" /\ mu = NoOne
  /\ cooled /\ ~handler
  /\ Goto(w, "select")
  /\ cooled' = FALSE
  /\ missed' = TRUE
  /\ UNCHANGED <<settings, got, mu, loaded, file, watched, events, ends, stops, api, panicked>>

Locks(w) ==
  /\ watch[w] = "lock" /\ mu = NoOne
  /\ cooled /\ handler
  /\ Goto(w, "reload")
  /\ mu' = w
  /\ UNCHANGED <<settings, got, cooled, loaded, disk, ends, stops, api, panicked>>

\* The reload handler reads the file. What was missed before is made good with it.
HandlerReads(w) ==
  /\ watch[w] = "reload"
  /\ Goto(w, "handling")
  /\ got' = [got EXCEPT ![w] = file]
  /\ missed' = FALSE
  /\ UNCHANGED <<settings, mu, cooled, loaded, file, watched, events, ends, stops, api, panicked>>

\* A file that cannot be parsed, say one written half; lastReload stays.
HandlerFails(w) ==
  /\ watch[w] = "handling"
  /\ Goto(w, "select")
  /\ mu' = NoOne
  /\ missed' = TRUE
  /\ UNCHANGED <<settings, got, cooled, loaded, file, watched, events, ends, stops, api, panicked>>

\* A handler that applies what it read through the reloader itself asks for h.mu again.
HandlerReenters(w) ==
  /\ watch[w] = "handling"
  /\ Goto(w, "stuck")
  /\ UNCHANGED <<settings, got, mu, cooled, loaded, disk, ends, stops, api, panicked>>

\* Fault: drains the events that came during the reload.
HandlerApplies_Drains(w) ==
  /\ watch[w] = "handling"
  /\ Goto(w, "select")
  /\ mu' = NoOne
  /\ loaded' = got[w] /\ cooled' = FALSE
  /\ events' = 0
  /\ UNCHANGED <<settings, got, file, watched, missed, ends, stops, api, panicked>>

HandlerApplies(w) ==
  /\ watch[w] = "handling"
  /\ Goto(w, "select")
  /\ mu' = NoOne
  /\ loaded' = got[w] /\ cooled' = FALSE
  /\ UNCHANGED <<settings, got, disk, ends, stops, api, panicked>>

Cool ==
  /\ ~cooled
  /\ cooled' = TRUE
  /\ UNCHANGED <<settings, watch, got, mu, loaded, disk, ends, stops, api, panicked>>

-----------------------------------------------------------------------------
(* Stop *)

\* The check of stopChan and its close are two steps, with no lock held.
StopLooks(s) ==
  /\ stops[s] = "idle" /\ enabled
  /\ stops' = [stops EXCEPT ![s] = IF stopClosed THEN "wait" ELSE "close"]
  /\ UNCHANGED <<settings, reload, disk, ends, api, panicked>>

StopCloses(s) ==
  /\ stops[s] = "close"
  /\ stops' = [stops EXCEPT ![s] = "wait"]
  /\ stopClosed' = TRUE
  /\ panicked' = stopClosed
  /\ UNCHANGED <<settings, reload, disk, doneClosed, watcherOpen, cancelled, api>>

\* The watcher is closed, and the events it still holds go with it.
ClosesWatcher ==
  /\ watcherOpen' = FALSE /\ watched' = FALSE /\ events' = 0
  /\ missed' = (missed \/ events > 0)
  /\ UNCHANGED <<file, stopClosed, doneClosed, cancelled>>

\* Fault: does not wait for the goroutine.
StopSeesDone_AtOnce(s) ==
  /\ stops[s] = "wait"
  /\ stops' = [stops EXCEPT ![s] = "stopped"]
  /\ ClosesWatcher
  /\ UNCHANGED <<settings, reload, api, panicked>>

StopSeesDone(s) ==
  /\ stops[s] = "wait"
  /\ doneClosed
  /\ stops' = [stops EXCEPT ![s] = "stopped"]
  /\ ClosesWatcher
  /\ UNCHANGED <<settings, reload, api, panicked>>

\* Fault: waits for the goroutine without a limit of time.
StopTimesOut_Never(s) ==
  /\ stops[s] = "wait"
  /\ doneClosed
  /\ stops' = [stops EXCEPT ![s] = "timedout"]
  /\ ClosesWatcher
  /\ UNCHANGED <<settings, reload, api, panicked>>

\* A second without an answer: watch() is in the handler, or was never started.
StopTimesOut(s) ==
  /\ stops[s] = "wait"
  /\ stops' = [stops EXCEPT ![s] = "timedout"]
  /\ ClosesWatcher
  /\ UNCHANGED <<settings, reload, api, panicked>>

StopDisabled(s) ==
  /\ stops[s] = "idle" /\ ~enabled
  /\ stops' = [stops EXCEPT ![s] = "stopped"]
  /\ ClosesWatcher
  /\ UNCHANGED <<settings, reload, api, panicked>>

Cancel ==
  /\ ~cancelled
  /\ cancelled' = TRUE
  /\ UNCHANGED <<settings, reload, disk, stopClosed, doneClosed, watcherOpen, stops, api, panicked>>

-----------------------------------------------------------------------------
(* ApplyParameters: h.mu is taken for reading twice, let go in between. The       *)
(* registered validator and applier decide, or are missing.                      *)

Calls(a) ==
  /\ api[a] = "idle"
  /\ api' = [api EXCEPT ![a] = "validate"]
  /\ UNCHANGED <<settings, reload, disk, ends, stops, panicked>>

ValidateParameters(a) ==
  /\ api[a] = "validate" /\ mu = NoOne
  /\ \E pc \in {"apply", "refused"} : api' = [api EXCEPT ![a] = pc]
  /\ UNCHANGED <<settings, reload, disk, ends, stops, panicked>>

ApplyParameters(a) ==
  /\ api[a] = "apply" /\ mu = NoOne
  /\ \E pc \in {"applied", "refused"} : api' = [api EXCEPT ![a] = pc]
  /\ UNCHANGED <<settings, reload, disk, ends, stops, panicked>>

-----------------------------------------------------------------------------
(* The file *)

\* A write event, or none of its own: one that follows an equal event still in the
\* queue is merged with it. One event is held by the watcher, one is in the queue.
Write ==
  /\ file < MaxWrites
  /\ file' = file + 1
  /\ IF watched
       THEN /\ events' \in {events, events + 1} \cap 1..2
            /\ UNCHANGED missed
       ELSE /\ missed' = TRUE
            /\ UNCHANGED events
  /\ UNCHANGED <<settings, reload, watched, ends, stops, api, panicked>>

\* The file is replaced by another of its name: the watch was on the one before.
Replace ==
  /\ file < MaxWrites
  /\ file' = file + 1
  /\ watched' = FALSE
  /\ missed' = TRUE
  /\ UNCHANGED <<settings, reload, events, ends, stops, api, panicked>>

-----------------------------------------------------------------------------
HRInit ==
  /\ enabled \in BOOLEAN /\ handler = FALSE
  /\ watch = [w \in Watchers |-> "off"]
  /\ got = [w \in Watchers |-> 0]
  /\ mu = NoOne
  /\ cooled = TRUE /\ loaded = 0
  /\ file = 0 /\ watched = FALSE /\ events = 0 /\ missed = FALSE
  /\ stopClosed = FALSE /\ doneClosed = FALSE /\ watcherOpen = TRUE /\ cancelled = FALSE
  /\ stops = [s \in Stoppers |-> "idle"]
  /\ api = [a \in Apis |-> "idle"]
  /\ panicked = FALSE

Handles(w) ==
  \/ Cooling(w) \/ NothingReloads(w) \/ Locks(w) \/ HandlerReads(w)
  \/ HandlerFails(w) \/ HandlerReenters(w) \/ HandlerApplies(w)
WatchStep(w) == TakesEvent(w) \/ Handles(w)
StopStep(s) == StopCloses(s) \/ StopSeesDone(s) \/ StopTimesOut(s)
ApiStep(a) == ValidateParameters(a) \/ ApplyParameters(a)
DiskStep == Write \/ Replace

HRNext ==
  /\ ~panicked
  /\ \/ \E w \in Watchers : Start(w) \/ WatchStep(w) \/ LoopEnds(w)
     \/ \E s \in Stoppers : StopLooks(s) \/ StopStep(s) \/ StopDisabled(s)
     \/ \E a \in Apis : Calls(a) \/ ApiStep(a)
     \/ SetReloadHandler \/ Cool \/ Cancel
     \/ DiskStep

\* A goroutine that can run does. A select picks among its ready cases at random and a
\* lock that is free again and again is got in the end: strong fairness there.
Fairness ==
  /\ \A w \in Watchers :
       WF_hrVars(~panicked /\ TakesEvent(w)) /\ SF_hrVars(~panicked /\ Handles(w))
         /\ SF_hrVars(~panicked /\ LoopEnds(w))
  /\ \A s \in Stoppers : WF_hrVars(~panicked /\ StopStep(s))
  /\ \A a \in Apis : SF_hrVars(~panicked /\ ApiStep(a))

HRSpec == HRInit /\ [][HRNext]_hrVars
FairSpec == HRInit /\ [][HRNext]_hrVars /\ Fairness

-----------------------------------------------------------------------------
HRTypeOK ==
  /\ enabled \in BOOLEAN /\ handler \in BOOLEAN
  /\ cooled \in BOOLEAN /\ watched \in BOOLEAN /\ missed \in BOOLEAN
  /\ stopClosed \in BOOLEAN /\ doneClosed \in BOOLEAN /\ panicked \in BOOLEAN
  /\ watcherOpen \in BOOLEAN /\ cancelled \in BOOLEAN
  /\ watch \in [Watchers -> {"off", "select", "lock", "reload", "handling", "stuck", "ended"}]
  /\ got \in [Watchers -> 0..MaxWrites]
  /\ mu \in Watchers \union {NoOne}
  /\ file \in 0..MaxWrites /\ loaded \in 0..file /\ events \in 0..2
  /\ stops \in [Stoppers -> {"idle", "close", "wait", "stopped", "timedout"}]
  /\ api \in [Apis -> {"idle", "validate", "apply", "applied", "refused"}]

\* As the reloader is meant to be used: one Start, and one Stop at most.
OneStart == \A a, b \in Started : a = b
OneStop == \A a, b \in {s \in Stoppers : stops[s] # "idle"} : a = b

\* With no event waiting and no reload under way, the parameters loaded are those of
\* the file, unless a change was dropped: within the cooldown, with a reload that
\* failed or that nothing was registered for, or while the file was not watched. A write
\* that overtakes the handler after it has read the file always leaves an event of its own.
StaleOnlyIfMissed == events = 0 /\ Handling = {} /\ file # loaded => missed

\* A Stop that has returned in time leaves no goroutine that could still reload, and
\* closing the channels once more never happens with one Start and one Stop, however
\* the context, the watcher and stopChan end the goroutine. h.mu is then free.
StoppedIsQuiet ==
  OneStart =>
    /\ (\E s \in Stoppers : stops[s] = "stopped") => Running = {} /\ mu = NoOne
    /\ OneStop => ~panicked

\* Every Stop returns, be the handler stuck; and every ApplyParameters returns unless
\* a handler hangs on to h.mu for ever (one that called ApplyParameters itself).
CallsReturn ==
  []~panicked =>
    /\ \A s \in Stoppers : stops[s] = "wait" ~> stops[s] \in {"stopped", "timedout"}
    /\ []<>(Stuck = {}) =>
         \A a \in Apis : api[a] = "validate" ~> api[a] \in {"applied", "refused"}
=============================================================================
