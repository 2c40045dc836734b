----------------------------- MODULE Scheduler -----------------------------
(***************************************************************************)
(* The interval scheduler of game-core and what drives it: the organizer's *)
(* requests, the handlers that pause and stop the match, and the match     *)
(* window monitor with its access reconciliation (scheduler.go,            *)
(* match_monitor.go, server.go), beside the match lifecycle of MatchState. *)
(*                                                                         *)
(* Every operation of the scheduler runs under its mutex and is one step;  *)
(* startLocked reads the match state inside it, and nothing it changes is  *)
(* seen by anyone until the mutex is free.  What advanceTick does is       *)
(* TickEngine's subject; here a loop is inside it for a while.             *)
(***************************************************************************)
EXTENDS MatchState

CONSTANTS AutoStart,   \* GAME_CORE_SCHEDULER_ENABLED
          Handlers     \* the requests that run beside the scheduler

ASSUME SchedulerAssumption ==
    AutoStart \in BOOLEAN /\ Handlers \subseteq Requests

VARIABLES sched,       \* status.State, and whether cancel is set
          saved,       \* what game_scheduler_state may hold
          live,        \* the run goroutines whose context is not cancelled
          poll,        \* where the monitor is in its poll
          access,      \* pendingAccessState and reconciledAccessState
          follow,      \* handlers that have the scheduler left to stop
          broken       \* a restore has left the state running without a loop

schedVars == <<sched, saved, live, poll, access, follow, broken>>
gameVars == <<matchVars, schedVars>>

NoPoll == [pc |-> "idle", state |-> "none"]
NoAccess == [pending |-> "none", reconciled |-> "none"]

-----------------------------------------------------------------------------
(* Status, mutex held.                                                     *)

\* persistLocked ignores the error, so that what was saved before may still be there.
Persist(state) == saved' = saved \union {state}

CancelledNot == live                            \* mutant: the context is never cancelled

\* if s.cancel != nil { s.cancel() }: the loops that go on.  A cancelled loop
\* writes nothing any more and returns (run tests ctx.Err() under the mutex).
Cancelled == IF sched.cancel THEN live - 1 ELSE live

\* go s.run(ctx), beside n loops.
Spawn(n) ==
    /\ live' = n + 1
    /\ sched' = [state |-> "running", cancel |-> TRUE]
    /\ broken' = FALSE

Started == sched.state = "running" /\ sched.cancel

\* startLocked where it goes on; otherwise it returns, with an error or without.
StartLocked ==
    /\ ~Started /\ EffectiveState = "running"
    /\ Spawn(live)
    /\ Persist("running")

StopLocked ==
    /\ live' = Cancelled
    /\ sched' = [state |-> "stopped", cancel |-> FALSE]
    /\ broken' = FALSE
    /\ Persist("stopped")

-----------------------------------------------------------------------------
(* The organizer's requests.                                               *)

StartScheduler == StartLocked /\ UNCHANGED <<matchVars, poll, access, follow>>
StopScheduler == StopLocked /\ UNCHANGED <<matchVars, poll, access, follow>>

\* Update: a running scheduler gets a new loop, also one that had none.
UpdateScheduler ==
    /\ IF sched.state = "running" THEN Spawn(Cancelled) ELSE UNCHANGED <<sched, live, broken>>
    /\ Persist(sched.state)
    /\ UNCHANGED <<matchVars, poll, access, follow>>

-----------------------------------------------------------------------------
(* run.                                                                    *)

\* After advance a loop that was not cancelled books the run and goes on, or
\* returns when it finds the state not running.
LoopBooks ==
    /\ live > 0
    /\ IF sched.state = "running" THEN Persist("running") /\ UNCHANGED live
                                  ELSE live' = live - 1 /\ UNCHANGED saved
    /\ UNCHANGED <<matchVars, sched, poll, access, follow, broken>>

-----------------------------------------------------------------------------
(* Handlers that pause or stop the match, and the scheduler after it.      *)

\* PauseMatch and StopMatch succeed, also where there is nothing to write.
GoesOnToScheduler(p, wrote) ==
    \/ req[p].op \in {"pause", "stop"} /\ wrote
    \/ req[p].op = "pause" /\ match.state = "paused"
    \/ req[p].op = "stop" /\ match.state = "finished"

HandlerStep(p) ==
    /\ p \in Handlers \ follow
    /\ \/ (\E op \in AdminOps : HandlerCheck(p, op)) /\ UNCHANGED follow
       \/ StoreReads(p) /\ UNCHANGED follow
       \/ RequestFails(p) /\ UNCHANGED follow
       \/ \E wrote \in BOOLEAN :
            /\ IF wrote THEN StoreWrites(p) ELSE StoreReturns(p)
            /\ follow' = IF GoesOnToScheduler(p, wrote) THEN follow \union {p} ELSE follow
       \/ /\ req[p] = Idle /\ EffectiveState \in {"paused", "finished"}
          /\ follow' = follow \union {p} /\ UNCHANGED matchVars
    /\ UNCHANGED <<sched, saved, live, poll, access, broken>>

\* It looks at the state first; Stop on a stopped scheduler changes nothing else.
HandlerStopsScheduler(p) ==
    /\ p \in follow
    /\ follow' = follow \ {p}
    /\ \/ sched.state = "running" /\ StopLocked
       \/ sched.state # "running" /\ UNCHANGED <<sched, saved, live, broken>>
    /\ UNCHANGED <<matchVars, poll, access>>

-----------------------------------------------------------------------------
(* The monitor's poll.                                                     *)

PollFrame == UNCHANGED <<sched, saved, live, follow, broken>>

\* reconcilePendingAccess is called for this state; it calls the controller
\* only when the state is the pending one.
ToAccess(pending, state) ==
    /\ access' = [access EXCEPT !.pending = pending]
    /\ poll' = IF pending = state THEN [pc |-> "access", state |-> state]
                                  ELSE [pc |-> "status", state |-> "none"]

\* matchWindowConfigured: a window that has neither boundary behind it may be none.
Configured == CASE window \in {"open", "closed"} -> {TRUE}
                [] Scheduled /\ window = "before" -> BOOLEAN
                [] OTHER -> {FALSE}

\* The stored state is the effective one.
PollSeesNoChange ==
    /\ poll = NoPoll /\ req[Monitor] = Idle /\ match.state = EffectiveState
    /\ \E configured \in Configured :
         ToAccess(IF configured /\ match.state \in {"running", "finished"}
                                /\ access.reconciled # match.state
                  THEN match.state ELSE access.pending, match.state)
    /\ PollFrame /\ UNCHANGED matchVars

\* The stored state has to move; the backfilled start goes on to the stop.
PollMovesMatch ==
    /\ poll = NoPoll
    /\ \/ (\E op \in MonitorOps : HandlerCheck(Monitor, op)) /\ UNCHANGED <<poll, access>>
       \/ StoreReads(Monitor) /\ UNCHANGED <<poll, access>>
       \/ RequestFails(Monitor) /\ UNCHANGED <<poll, access>>
       \/ /\ StoreReturns(Monitor) \/ StoreWrites(Monitor)
          /\ CASE req[Monitor].op = "monStart" -> ToAccess("running", "running")
               [] req[Monitor].op = "monStop"  -> ToAccess("finished", "finished")
               [] OTHER                        -> UNCHANGED <<poll, access>>
    /\ PollFrame

AccessReconciled ==
    /\ poll.pc = "access"
    /\ access' = [pending |-> "none", reconciled |-> poll.state]
    /\ poll' = [pc |-> "status", state |-> "none"]
    /\ PollFrame /\ UNCHANGED matchVars

\* The error ends the poll, and what is pending stays pending.
AccessFails ==
    /\ poll.pc = "access" /\ poll' = NoPoll
    /\ PollFrame /\ UNCHANGED <<matchVars, access>>

DecisionAtTheEnd(state, configured) ==          \* mutant: only a finished match stops it
    CASE state = "finished"               -> "stop"
      [] state = "running" /\ configured  -> "start"
      [] OTHER                            -> "idle"

\* server.matchStatus: what the poll will ask of the scheduler.  A match that
\* runs without a window is left alone; on an error the poll ends.
Decision(state, configured) ==
    CASE state # "running"                -> "stop"
      [] state = "running" /\ configured  -> "start"
      [] state = "running" /\ ~configured -> "idle"

PollReadsStatus ==
    /\ poll.pc = "status"
    /\ \/ \E configured \in Configured :
            poll' = [NoPoll EXCEPT !.pc = Decision(EffectiveState, configured)]
       \/ Backend = "postgres" /\ poll' = NoPoll
    /\ PollFrame /\ UNCHANGED <<matchVars, access>>

\* StartWithSource and StopWithSource.  StartLocked reads the match again, and may
\* fail to; StopLocked does not.
PollStarts ==
    /\ poll.pc = "start" /\ poll' = NoPoll
    /\ \/ sched.state # "running" /\ StartLocked
       \/ UNCHANGED <<sched, saved, live, broken>>
    /\ UNCHANGED <<matchVars, access, follow>>

PollStops ==
    /\ poll.pc = "stop" /\ poll' = NoPoll
    /\ \/ sched.state = "running" /\ StopLocked
       \/ sched.state # "running" /\ UNCHANGED <<sched, saved, live, broken>>
    /\ UNCHANGED <<matchVars, access, follow>>

-----------------------------------------------------------------------------
(* Restarts and the world outside.                                         *)

\* newIntervalGameScheduler: a saved "running" is restored, unless the match
\* does not run or cannot be read: then the state stays, without a loop.
Restart ==
    /\ MatchCrash
    /\ poll' = NoPoll /\ follow' = {} /\ access' = NoAccess
    /\ \E loaded \in saved, reads \in BOOLEAN :
         LET starts == (loaded = "running" \/ AutoStart) /\ EffectiveState = "running" /\ reads
         IN /\ sched' = [state |-> IF starts THEN "running" ELSE loaded, cancel |-> starts]
            /\ live' = IF starts THEN 1 ELSE 0
            /\ broken' = (loaded = "running" /\ ~starts)
            /\ saved' = IF starts THEN saved \union {"running"} ELSE saved

WorldMoves == (UpdateMatchSchedule \/ ClockPasses) /\ UNCHANGED schedVars

SchedStart(on) ==
    /\ sched = [state |-> "stopped", cancel |-> FALSE] /\ saved = {"stopped"}
    /\ live = 0 /\ follow = {} /\ broken = FALSE
    /\ poll = [NoPoll EXCEPT !.pc = IF on THEN "idle" ELSE "away"]
    /\ access = NoAccess

MonitorStep ==
    PollSeesNoChange \/ PollMovesMatch \/ AccessReconciled \/ AccessFails
        \/ PollReadsStatus \/ PollStarts \/ PollStops

SchedNext ==
    /\ poll.pc # "away"
    /\ \/ StartScheduler \/ StopScheduler \/ UpdateScheduler
       \/ LoopBooks
       \/ \E p \in Handlers : HandlerStep(p) \/ HandlerStopsScheduler(p)
       \/ MonitorStep
       \/ WorldMoves \/ Restart

\* The poll gets through where it stands, instead of failing there.
PollGoesOn(pc) ==
    CASE pc \in {"store", "write"} ->
            /\ req[Monitor].pc = pc /\ PollMovesMatch
            /\ poll' # NoPoll \/ req'[Monitor] # Idle
      [] pc = "access" -> AccessReconciled
      [] pc = "status" -> PollReadsStatus /\ poll'.pc # "idle"
      [] pc = "start"  -> PollStarts /\ sched' # sched
      [] pc = "stop"   -> PollStops

-----------------------------------------------------------------------------
(* Properties.                                                             *)

\* Type invariant of the scheduler.
SchedTypeOK ==
    /\ sched \in [state : {"stopped", "running"}, cancel : BOOLEAN]
    /\ saved \subseteq {"stopped", "running"} /\ saved # {}
    /\ live \in Nat /\ follow \subseteq Handlers
    /\ poll \in [pc : {"away", "idle", "access", "status", "start", "stop"},
                 state : {"none", "running", "finished"}]
    /\ access \in [pending : {"none", "running", "finished"},
                   reconciled : {"none", "running", "finished"}]
    /\ broken \in BOOLEAN

\* At most one loop can advance ticks, the one Stop and Update would cancel, and
\* it has not returned; it belongs to a scheduler that says it runs; and one that
\* says so has a loop, unless a restore failed (startLocked, stopLocked, Update, run).
OneLoop ==
    /\ live = IF sched.cancel THEN 1 ELSE 0
    /\ sched.cancel => sched.state = "running"
    /\ (sched.state = "running" /\ ~sched.cancel) => broken

\* The scheduler is where the match is: no state running, and so no loop, when
\* the match is not; and a loop in an open window, unless a restore failed.
InStep ==
    /\ EffectiveState # "running" => sched.state = "stopped"
    /\ (window = "open" /\ EffectiveState = "running") => (live > 0 \/ broken)

\* Access was reconciled for a match whose window is over.
AccessInStep == (window = "closed" /\ match.state = "finished") => access.reconciled = "finished"

\* The monitor catches up with the match again and again, whatever the organizer,
\* the clock, restarts and failing polls do in between (newMatchWindowMonitor).
SchedulerFollowsMatch ==
    /\ []<>(InStep \/ poll.pc = "away")
    /\ []<>(AccessInStep \/ poll.pc = "away")
=============================================================================
