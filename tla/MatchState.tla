----------------------------- MODULE MatchState -----------------------------
(***************************************************************************)
(* The match lifecycle of game-core: the row of game_match_state, the      *)
(* configured match window, and the admin requests and window monitor that *)
(* move it (services/game-core/server.go, store.go, match_monitor.go).     *)
(*                                                                         *)
(* A request reads the effective state, then enters the store.  The        *)
(* Postgres store reads the row and writes it with a second, unconditional *)
(* statement; the memory store does both under one mutex.  Time is         *)
(* abstracted to the part of the window the clock is in.                   *)
(***************************************************************************)
EXTENDS Integers

CONSTANTS Backend,    \* "postgres" or "memory": the gameStore in use
          Requests,   \* concurrent organizer requests
          Monitor,    \* the match window monitor goroutine
          Scheduled,  \* the organizer uses a match window
          AutoTick,   \* GAME_CORE_AUTO_TICK_ON_MATCH_START
          MaxStarts   \* bound on the organizer's starts

ASSUME MatchAssumption ==
    /\ Backend \in {"postgres", "memory"}
    /\ Monitor \notin Requests
    /\ Scheduled \in BOOLEAN
    /\ AutoTick \in BOOLEAN
    /\ MaxStarts \in Nat

VARIABLES match,      \* the row: state, started_at (0 is NULL, else its n-th value), ended_at set
          window,     \* where the clock stands in the configured window
          req,        \* what each request is doing
          autoTicks   \* advanceTick calls owed by a match start

matchVars == <<match, window, req, autoTicks>>

MatchStates == {"not_started", "running", "paused", "finished"}

\* "before": neither boundary reached (or none is set); "open": start reached; "closed": end reached
Windows == IF Scheduled THEN {"before", "open", "closed"} ELSE {"before"}

AdminOps == {"start", "pause", "resume", "stop"}
MonitorOps == {"monStart", "backfill", "monStop"}

Procs == Requests \union {Monitor}

Idle == [pc |-> "idle", op |-> "stop"]

-----------------------------------------------------------------------------
(* applyMatchWindow: the state every handler acts on.                      *)

Effective(state, w) ==
    IF state \in {"finished", "paused"} THEN state
    ELSE IF w = "closed" THEN "finished"
    ELSE IF state = "running" \/ w = "open" THEN "running"
    ELSE "not_started"

EffectiveState == Effective(match.state, window)

\* What the handler's own read of the effective state lets through.
HandlerAdmits(op, eff) ==
    CASE op = "start"  -> eff \in {"not_started", "paused"}
      [] op = "pause"  -> eff \notin {"finished", "paused"}
      [] op = "resume" -> eff = "paused"
      [] op = "stop"   -> eff # "finished"

\* The monitor acts only where the stored and the effective state differ;
\* a window that opened and closed unseen is first started, then stopped.
MonitorAdmits(op, state, eff) ==
    /\ state # eff
    /\ CASE op = "monStart" -> eff = "running"
         [] op = "backfill" -> eff = "finished" /\ state = "not_started"
         [] op = "monStop"  -> eff = "finished"

\* What the store's own read of the row lets through to its write.
StartAdmits(state) == state \notin {"running", "finished"}

PauseAdmitsUnstarted(state) == state \notin {"finished", "paused"} \* mutant: no errContestNotStarted
PauseAdmits(state) == state = "running"

StopAdmitsRunning(state) == state = "running"           \* mutant: only a running match is stopped
StopAdmits(state) == state # "finished"

StartOps == {"start", "monStart", "backfill"}

StoreAdmits(op, state) ==
    CASE op \in StartOps            -> StartAdmits(state)
      [] op = "pause"               -> PauseAdmits(state)
      [] op = "resume"              -> state = "paused"
      [] op \in {"stop", "monStop"} -> StopAdmits(state)

\* The row after the INSERT ... ON CONFLICT DO UPDATE of each operation.
StartRow(m) == [state |-> "running", started |-> m.started + 1, ended |-> FALSE]

PauseRowFrozen(m) == [m EXCEPT !.state = "frozen"]      \* mutant: a state nobody knows
PauseRow(m) == [m EXCEPT !.state = "paused"]

ResumeRow(m) == [m EXCEPT !.state = "running"]

StopRow(m) == [m EXCEPT !.state = "finished", !.ended = TRUE]

Write(op, m) ==
    CASE op \in StartOps            -> StartRow(m)
      [] op = "pause"               -> PauseRow(m)
      [] op = "resume"              -> ResumeRow(m)
      [] op \in {"stop", "monStop"} -> StopRow(m)

\* Bound: an organizer starts the match only so many times (the monitor
\* starts it only while it is not_started, which never comes back).
WithinStarts(op) ==
    op = "start" => match.started < MaxStarts /\ autoTicks < MaxStarts

-----------------------------------------------------------------------------
MatchInit ==
    /\ match = [state |-> "not_started", started |-> 0, ended |-> FALSE]
    /\ window \in Windows
    /\ req = [p \in Procs |-> Idle]
    /\ autoTicks = 0

\* The handler (or the monitor's poll) reads the effective state and goes on.
HandlerCheck(p, op) ==
    /\ req[p] = Idle
    /\ WithinStarts(op)
    /\ \/ p \in Requests /\ op \in AdminOps /\ HandlerAdmits(op, EffectiveState)
       \/ p = Monitor /\ op \in MonitorOps
          /\ MonitorAdmits(op, match.state, EffectiveState)
    /\ req' = [req EXCEPT ![p] = [pc |-> "store", op |-> op]]
    /\ UNCHANGED <<match, window, autoTicks>>

\* Where a request stands once its store operation is over: the monitor's
\* backfill goes on to StopMatch, whatever the row held.
AfterStore(p) ==
    req' = [req EXCEPT ![p] = IF @.op = "backfill" THEN [pc |-> "store", op |-> "monStop"]
                                                   ELSE Idle]

\* A successful StartMatch is followed by advanceTick on a detached context,
\* also when the row was running already; the monitor does so even on errContestOver.
OweAutoTick(op, state) ==
    autoTicks' = IF /\ AutoTick
                    /\ \/ op = "start" /\ state # "finished"
                       \/ op = "monStart"
                 THEN autoTicks + 1 ELSE autoTicks

\* The store's read finds nothing to write (already there, or refused).
StoreReturns(p) ==
    /\ req[p].pc = "store"
    /\ ~StoreAdmits(req[p].op, match.state)
    /\ AfterStore(p)
    /\ OweAutoTick(req[p].op, match.state)
    /\ UNCHANGED <<match, window>>

\* Postgres: MatchStatus(ctx) inside the store operation, a statement of its own.
StoreReads(p) ==
    /\ Backend = "postgres"
    /\ req[p].pc = "store"
    /\ StoreAdmits(req[p].op, match.state)
    /\ req' = [req EXCEPT ![p].pc = "write"]
    /\ UNCHANGED <<match, window, autoTicks>>

\* The write: Postgres applies it to whatever the row holds by now, the
\* memory store still holds the mutex under which it tested the state.
StoreWrites(p) ==
    /\ \/ Backend = "postgres" /\ req[p].pc = "write"
       \/ Backend = "memory" /\ req[p].pc = "store" /\ StoreAdmits(req[p].op, match.state)
    /\ match' = Write(req[p].op, match)
    /\ AfterStore(p)
    /\ OweAutoTick(req[p].op, "not_started")
    /\ UNCHANGED window

\* A failed warmup, a database error or a client that went away ends a request
\* early; the memory store has no errors of its own and ignores the context.
RequestFails(p) ==
    /\ req[p] # Idle
    /\ Backend = "postgres" \/ req[p] = [pc |-> "store", op |-> "start"]
    /\ req' = [req EXCEPT ![p] = Idle]
    /\ UNCHANGED <<match, window, autoTicks>>

\* PUT /match/schedule: one statement that touches only the window columns.
UpdateMatchSchedule ==
    /\ \E w \in Windows \ {window} : window' = w
    /\ UNCHANGED <<match, req, autoTicks>>

\* The clock passes a configured boundary.
ClockPasses ==
    /\ Scheduled
    /\ \/ window = "before" /\ window' \in {"open", "closed"}
       \/ window = "open" /\ window' = "closed"
    /\ UNCHANGED <<match, req, autoTicks>>

RequestStep(p) ==
    \/ \E op \in AdminOps \union MonitorOps : HandlerCheck(p, op)
    \/ StoreReturns(p)
    \/ StoreReads(p)
    \/ StoreWrites(p)

MatchStep ==
    \/ \E p \in Procs : RequestStep(p) \/ RequestFails(p)
    \/ UpdateMatchSchedule
    \/ ClockPasses

\* game-core dies and restarts: requests are gone, the Postgres row stays.
MatchCrash ==
    /\ Backend = "postgres"
    /\ req' = [p \in Procs |-> Idle]
    /\ autoTicks' = 0
    /\ UNCHANGED <<match, window>>

MatchNext == MatchStep \/ MatchCrash

\* The monitor's ticker fires every second; a database that fails or a process
\* that dies now and then is up again often enough for its statements to get through.
MatchFairness ==
    /\ WF_matchVars(RequestStep(Monitor))
    /\ SF_matchVars(StoreReads(Monitor))
    /\ SF_matchVars(StoreWrites(Monitor))

MatchSpec == MatchInit /\ [][MatchNext]_matchVars /\ MatchFairness

-----------------------------------------------------------------------------
(* Properties.                                                             *)

\* Type invariant of the lifecycle variables.
MatchTypeOK ==
    /\ match \in [state : MatchStates, started : Nat, ended : BOOLEAN]
    /\ window \in Windows
    /\ req \in [Procs -> [pc : {"idle", "store", "write"}, op : AdminOps \union MonitorOps]]
    /\ autoTicks \in Nat

\* A match that is running or paused has a started_at: no interleaving of
\* pause and resume requests, window changes and restarts gets a match going
\* that StartMatch never started (PauseMatch refuses a match not started,
\* ResumeMatch one not paused).
LiveMatchWasStarted == match.state \in {"running", "paused"} => match.started > 0

\* A finished match stays finished (StartMatch, PauseMatch and ResumeMatch
\* answer errContestOver).  It holds for the memory store, whose test and
\* write share a mutex.
FinishedIsFinal == [][match.state = "finished" => match'.state = "finished"]_matchVars

\* Once the window is over, the monitor stores "finished" for a match that
\* runs (or never ran), unless the organizer pauses it or moves the window.
WindowEndIsStored ==
    (window = "closed" /\ match.state \in {"running", "not_started"})
        ~> (match.state \in {"finished", "paused"} \/ window # "closed")

Lifecycle == INSTANCE MatchLifecycle
    WITH state <- match.state, starts <- match.started, ended <- match.ended

\* Whatever requests and monitor do, the row moves only along the lifecycle:
\* started from not_started or a pause, paused only while it runs, resumed only
\* from a pause, and finished, with an ended_at, for good.
ImplementsLifecycle == Lifecycle!LifeSpec
=============================================================================
