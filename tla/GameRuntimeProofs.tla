------------------------- MODULE GameRuntimeProofs -------------------------
(***************************************************************************)
(* Theorems about the scheduler and the stored scoreboard of game-core, for *)
(* every number of requests, recomputes and captures.  Fairness is not     *)
(* used.                                                                   *)
(***************************************************************************)
EXTENDS GameRuntime, MatchStateProofs

-----------------------------------------------------------------------------
(* The scheduler.                                                          *)

SchedTypes ==
    /\ sched \in [state : {"stopped", "running"}, cancel : BOOLEAN]
    /\ saved \subseteq {"stopped", "running"}
    /\ broken \in BOOLEAN

LoopInv == SchedTypes /\ OneLoop

\* Every step of the scheduler, the handlers and the monitor keeps the loop the
\* one that can be cancelled.
LEMMA LoopStep == LoopInv /\ SchedNext => LoopInv'
<1> SUFFICES ASSUME LoopInv, SchedNext PROVE LoopInv'
  OBVIOUS
<1>t. saved \subseteq {"stopped", "running"}
  BY DEF LoopInv, SchedTypes
<1>1. ASSUME UNCHANGED <<sched, live, broken>>, saved' \subseteq {"stopped", "running"}
      PROVE LoopInv'
  BY <1>1 DEF LoopInv, SchedTypes, OneLoop
<1>a. ASSUME live' = 1, sched' = [state |-> "running", cancel |-> TRUE], broken' = FALSE,
             saved' \subseteq {"stopped", "running"}
      PROVE LoopInv'
  BY <1>a DEF LoopInv, SchedTypes, OneLoop
<1>b. ASSUME live' = 0, sched' = [state |-> "stopped", cancel |-> FALSE], broken' = FALSE,
             saved' \subseteq {"stopped", "running"}
      PROVE LoopInv'
  BY <1>b DEF LoopInv, SchedTypes, OneLoop
<1>c. Cancelled = 0
  BY DEF Cancelled, LoopInv, SchedTypes, OneLoop
<1>2. ASSUME StartLocked PROVE LoopInv'
  <2>1. live = 0
    BY <1>2 DEF StartLocked, Started, LoopInv, SchedTypes, OneLoop
  <2> QED
    <3>1. live' = live + 1 /\ sched' = [state |-> "running", cancel |-> TRUE] /\ broken' = FALSE
      BY <1>2 DEF StartLocked, Spawn
    <3>2. live' = 1
      BY <2>1, <3>1
    <3>3. saved' \subseteq {"stopped", "running"}
      BY <1>t, <1>2 DEF StartLocked, Persist
    <3> QED
      BY <1>a, <3>1, <3>2, <3>3
<1>3. ASSUME StopLocked PROVE LoopInv'
  BY <1>b, <1>c, <1>t, <1>3 DEF StopLocked, Persist
<1>4. CASE StartScheduler \/ StopScheduler
  BY <1>2, <1>3, <1>4 DEF StartScheduler, StopScheduler
<1>5. CASE UpdateScheduler
  <2>1. CASE sched.state = "running"
    <3>1. /\ live' = Cancelled + 1 /\ broken' = FALSE
          /\ sched' = [state |-> "running", cancel |-> TRUE]
      BY <1>5, <2>1 DEF UpdateScheduler, Spawn
    <3>2. live' = 1
      BY <1>c, <3>1
    <3>3. saved' \subseteq {"stopped", "running"}
      BY <1>t, <1>5, <2>1 DEF UpdateScheduler, Persist
    <3> QED
      BY <1>a, <3>1, <3>2, <3>3
  <2>2. CASE sched.state # "running"
    <3>1. UNCHANGED <<sched, live, broken>>
      BY <1>5, <2>2 DEF UpdateScheduler
    <3>2. saved' \subseteq {"stopped", "running"}
      BY <1>t, <1>5 DEF UpdateScheduler, Persist, LoopInv, SchedTypes
    <3> QED
      BY <1>1, <3>1, <3>2
  <2> QED
    BY <2>1, <2>2
<1>6. CASE LoopBooks
  <2>1. sched.state = "running"
    BY <1>6 DEF LoopBooks, LoopInv, SchedTypes, OneLoop
  <2> QED
    BY <1>1, <1>t, <1>6, <2>1 DEF LoopBooks, Persist
<1>7. ASSUME NEW p \in Handlers, HandlerStep(p) \/ HandlerStopsScheduler(p) PROVE LoopInv'
  BY <1>1, <1>3, <1>t, <1>7 DEF HandlerStep, HandlerStopsScheduler
<1>8. CASE MonitorStep
  BY <1>1, <1>2, <1>3, <1>t, <1>8
  DEF MonitorStep, PollSeesNoChange, PollMovesMatch, AccessReconciled, AccessFails,
      PollReadsStatus, PollStarts, PollStops, PollFrame
<1>9. CASE WorldMoves
  BY <1>1, <1>t, <1>9 DEF WorldMoves, schedVars
<1>10. CASE Restart
  <2>1. PICK loaded \in saved, reads \in BOOLEAN :
          LET starts == (loaded = "running" \/ AutoStart) /\ EffectiveState = "running" /\ reads
          IN /\ sched' = [state |-> IF starts THEN "running" ELSE loaded, cancel |-> starts]
             /\ live' = IF starts THEN 1 ELSE 0
             /\ broken' = (loaded = "running" /\ ~starts)
             /\ saved' = IF starts THEN saved \union {"running"} ELSE saved
    BY <1>10 DEF Restart
  <2> DEFINE starts == (loaded = "running" \/ AutoStart) /\ EffectiveState = "running" /\ reads
  <2>2. CASE starts
    <3>1. sched' = [state |-> "running", cancel |-> TRUE] /\ live' = 1 /\ broken' = FALSE
      BY <2>1, <2>2
    <3>2. saved' \subseteq {"stopped", "running"}
      BY <1>t, <2>1, <2>2
    <3> QED
      BY <1>a, <3>1, <3>2
  <2>3. CASE ~starts
    <3>1. sched' = [state |-> loaded, cancel |-> FALSE] /\ live' = 0 /\ saved' = saved
      BY <2>1, <2>3
    <3>2. broken' = (loaded = "running")
      BY <2>1, <2>3
    <3> QED
      BY <1>t, <3>1, <3>2 DEF LoopInv, SchedTypes, OneLoop
  <2> QED
    BY <2>2, <2>3
<1> QED
  BY <1>4, <1>5, <1>6, <1>7, <1>8, <1>9, <1>10 DEF SchedNext

\* At most one loop advances ticks, it is the one Stop and Update cancel, and a
\* scheduler that says it runs has it, unless a restore failed: for every number
\* of requests beside the scheduler and every interleaving with the monitor.
THEOREM SchedulerHasOneLoop == RuntimeSpec => []OneLoop
<1>1. RuntimeInit => LoopInv
  <2> SUFFICES ASSUME RuntimeInit PROVE LoopInv
    OBVIOUS
  <2>1. /\ sched = [state |-> "stopped", cancel |-> FALSE] /\ saved = {"stopped"}
        /\ live = 0 /\ broken = FALSE
    BY DEF RuntimeInit, SchedStart
  <2> QED
    BY <2>1 DEF LoopInv, SchedTypes, OneLoop
<1>2. LoopInv /\ [RuntimeNext]_runtimeVars => LoopInv'
  BY LoopStep DEF RuntimeNext, runtimeVars, gameVars, schedVars, LoopInv, SchedTypes, OneLoop
<1>3. LoopInv => OneLoop
  BY DEF LoopInv
<1> QED
  BY <1>1, <1>2, <1>3, PTL DEF RuntimeSpec

-----------------------------------------------------------------------------
(* The scoreboard.                                                         *)

Jobs == [pc : {"none", "begun", "attack", "defense", "stored"},
         attack : Nat, defense : Nat, overtaken : BOOLEAN]

BoardTypes ==
    /\ captures \in Nat /\ owed \in Nat /\ owed <= captures
    /\ board \in [attack : Nat, defense : Nat, late : BOOLEAN]
    /\ scoring \in [pending : BOOLEAN, inflight : BOOLEAN, timer : BOOLEAN, due : Nat]
    /\ jobs \in [Recomputes -> Jobs]

\* What a recompute has read so far has every capture that is owed.
SeesOwed(p) ==
    /\ jobs[p].pc \in {"attack", "defense"} => jobs[p].attack >= owed
    /\ jobs[p].pc = "defense" => jobs[p].defense >= owed

\* Nobody asked for a recompute since the last debounced one stored its board.
Settled == ~scoring.pending /\ jobs[Debounced].pc \in {"none", "stored"}

\* NoRecomputeIsLost made inductive: a debounced recompute that nobody asked to
\* run again has read what is owed; once it has stored its board, so has every
\* direct one still at work, or it has been overtaken.
BoardInv ==
    /\ BoardTypes
    /\ scoring.inflight <=> jobs[Debounced].pc # "none"
    /\ (scoring.pending /\ ~scoring.inflight) => (scoring.timer \/ scoring.due > 0)
    /\ Settled => (Covers(board, owed) \/ board.late)
    /\ ~scoring.pending => SeesOwed(Debounced)
    /\ Settled => \A p \in Direct : SeesOwed(p) \/ jobs[p].overtaken

\* The two critical sections of the debounced recompute, the one that asks for
\* it, and the statements of every recompute keep it so.
LEMMA BoardStep == BoardInv /\ BoardNext => BoardInv'
<1> SUFFICES ASSUME BoardInv, BoardNext PROVE BoardInv'
  OBVIOUS
<1> USE BoardAssumption DEF BoardInv, BoardTypes, Jobs, SeesOwed, Settled, Covers, Recomputes, NoJob
<1>1. CASE SubmitAccepts
  BY <1>1 DEF SubmitAccepts
<1>2. CASE SubmitReturns
  <2>1. scoring' \in [pending : BOOLEAN, inflight : BOOLEAN, timer : BOOLEAN, due : Nat]
    BY <1>2 DEF SubmitReturns, Schedule
  <2>2. /\ scoring'.pending /\ scoring'.inflight = scoring.inflight
        /\ ~scoring.inflight => scoring'.timer
    BY <1>2 DEF SubmitReturns, Schedule
  <2>3. owed' = captures /\ UNCHANGED <<captures, board, jobs>>
    BY <1>2 DEF SubmitReturns
  <2> QED
    BY <2>1, <2>2, <2>3
<1>3. CASE SubmitFails
  BY <1>3 DEF SubmitFails
<1>4. CASE TimerFires
  <2>0. scoring' = [scoring EXCEPT !.timer = FALSE, !.due = scoring.due + 1]
    BY <1>4 DEF TimerFires
  <2>d. scoring.due + 1 \in Nat /\ scoring.due + 1 > 0
    OBVIOUS
  <2>1. scoring' \in [pending : BOOLEAN, inflight : BOOLEAN, timer : BOOLEAN, due : Nat]
    BY <2>0, <2>d
  <2>2. scoring'.pending = scoring.pending /\ scoring'.inflight = scoring.inflight
    BY <2>0
  <2>4. scoring'.due > 0
    BY <2>0, <2>d
  <2>3. UNCHANGED <<captures, owed, board, jobs>>
    BY <1>4 DEF TimerFires
  <2> QED
    BY <2>1, <2>2, <2>3, <2>4
<1>5. CASE CallbackRuns
  <2>0. scoring.due > 0 /\ UNCHANGED <<captures, owed, board>>
    BY <1>5 DEF CallbackRuns
  <2>1. CASE scoring.inflight
    <3>0. scoring' = [scoring EXCEPT !.pending = TRUE, !.due = scoring.due - 1]
      BY <1>5, <2>1 DEF CallbackRuns
    <3>d. scoring.due - 1 \in Nat
      BY <2>0
    <3>1. /\ scoring' \in [pending : BOOLEAN, inflight : BOOLEAN, timer : BOOLEAN, due : Nat]
          /\ scoring'.pending /\ scoring'.inflight
      BY <2>1, <3>0, <3>d
    <3>2. UNCHANGED jobs
      BY <1>5, <2>1 DEF CallbackRuns
    <3> QED
      BY <2>0, <2>1, <3>1, <3>2
  <2>2. CASE ~scoring.inflight
    <3>1. scoring' = [pending |-> FALSE, inflight |-> TRUE, timer |-> FALSE,
                      due |-> IF scoring.timer THEN scoring.due ELSE scoring.due - 1]
      BY <1>5, <2>2 DEF CallbackRuns
    <3>2. scoring' \in [pending : BOOLEAN, inflight : BOOLEAN, timer : BOOLEAN, due : Nat]
      BY <2>0, <3>1
    <3>3. jobs' = [jobs EXCEPT ![Debounced] = [NoJob EXCEPT !.pc = "begun"]]
      BY <1>5, <2>2 DEF CallbackRuns
    <3>4. scoring'.inflight /\ jobs'[Debounced].pc = "begun"
      BY <3>1, <3>3
    <3>5. jobs' \in [Recomputes -> Jobs]
      BY <3>3
    <3> QED
      BY <2>0, <3>2, <3>4, <3>5
  <2> QED
    BY <2>1, <2>2
<1>6. CASE DebouncedFinishes
  BY <1>6 DEF DebouncedFinishes, Finish
<1>7. ASSUME NEW p \in Recomputes, DirectBegins(p) PROVE BoardInv'
  BY <1>7 DEF DirectBegins
<1>8. ASSUME NEW p \in Recomputes, SumsAttack(p) PROVE BoardInv'
  BY <1>8 DEF SumsAttack
<1>9. ASSUME NEW p \in Recomputes, SumsDefense(p) PROVE BoardInv'
  BY <1>9 DEF SumsDefense
<1>10. ASSUME NEW p \in Recomputes, StoresBoard(p) PROVE BoardInv'
  <2>1. UNCHANGED <<captures, owed, scoring>> /\ jobs[p].pc = "defense"
    BY <1>10 DEF StoresBoard
  <2>2. board' = [attack |-> jobs[p].attack, defense |-> jobs[p].defense,
                  late |-> jobs[p].overtaken]
    BY <1>10 DEF StoresBoard
  <2>3. jobs' \in [Recomputes -> Jobs]
    BY <1>10 DEF StoresBoard
  <2>4. \A q \in Recomputes \ {p} :
          /\ jobs'[q].pc = jobs[q].pc
          /\ jobs'[q].attack = jobs[q].attack /\ jobs'[q].defense = jobs[q].defense
          /\ jobs[q].pc \in {"begun", "attack", "defense"} => jobs'[q].overtaken
    BY <1>10 DEF StoresBoard
  <2>5. jobs'[p].pc = IF p = Debounced THEN "stored" ELSE "none"
    BY <1>10 DEF StoresBoard
  <2>6. BoardTypes'
    BY <2>1, <2>2, <2>3
  <2>7. CASE p = Debounced
    <3>1. \A q \in Direct : SeesOwed(q)' \/ jobs'[q].overtaken
      BY <2>1, <2>3, <2>4, <2>7
    <3>2. ~scoring.pending => Covers(board, owed)'
      BY <2>1, <2>2, <2>7
    <3> QED
      BY <2>1, <2>5, <2>6, <2>7, <3>1, <3>2
  <2>8. CASE p \in Direct
    <3>1. \A q \in Direct : SeesOwed(q)' \/ jobs'[q].overtaken
      BY <2>1, <2>3, <2>4, <2>5, <2>8
    <3>2. Settled => Covers(board, owed)' \/ board'.late
      BY <2>1, <2>2, <2>8
    <3>3. jobs'[Debounced].pc = jobs[Debounced].pc
      BY <2>4, <2>8
    <3>4. ~scoring.pending => SeesOwed(Debounced)'
      BY <2>1, <2>4, <2>8
    <3> QED
      BY <2>1, <2>6, <2>8, <3>1, <3>2, <3>3, <3>4
  <2> QED
    BY <1>10, <2>7, <2>8
<1>11. ASSUME NEW p \in Recomputes, JobFails(p) PROVE BoardInv'
  BY <1>11 DEF JobFails, Finish
<1>12. CASE BoardRestart
  BY <1>12 DEF BoardRestart, AtRest
<1> QED
  BY <1>1, <1>2, <1>3, <1>4, <1>5, <1>6, <1>7, <1>8, <1>9, <1>10, <1>11, <1>12 DEF BoardNext

\* No wakeup of the debounced recompute is lost, and at rest the stored board has
\* every capture a recompute was asked for, or comes from an overtaken one: for
\* every number of captures and of direct recomputes beside it.
THEOREM RecomputesAreKept == RuntimeSpec => []NoRecomputeIsLost
<1>1. RuntimeInit => BoardInv
  <2> SUFFICES ASSUME RuntimeInit PROVE BoardInv
    OBVIOUS
  <2>1. /\ captures = 0 /\ owed = 0
        /\ scoring = [pending |-> FALSE, inflight |-> FALSE, timer |-> FALSE, due |-> 0]
        /\ board = [attack |-> 0, defense |-> 0, late |-> FALSE]
        /\ jobs = [p \in Recomputes |-> NoJob]
    BY DEF RuntimeInit, BoardStart, AtRest
  <2>2. BoardTypes
    BY <2>1 DEF BoardTypes, Jobs, NoJob
  <2>3. \A p \in Recomputes : jobs[p].pc = "none"
    BY <2>1 DEF NoJob
  <2> QED
    BY <2>1, <2>2, <2>3 DEF BoardInv, SeesOwed, Settled, Covers, Recomputes
<1>2. BoardInv /\ [RuntimeNext]_runtimeVars => BoardInv'
  <2>1. BoardInv /\ UNCHANGED boardVars => BoardInv'
    BY DEF boardVars, BoardInv, BoardTypes, SeesOwed, Settled, Covers
  <2> QED
    BY <2>1, BoardStep DEF RuntimeNext, runtimeVars
<1>3. BoardInv => NoRecomputeIsLost
  BY BoardAssumption DEF BoardInv, NoRecomputeIsLost, Settled, BoardTypes, Jobs, Recomputes
<1> QED
  BY <1>1, <1>2, <1>3, PTL DEF RuntimeSpec
-----------------------------------------------------------------------------
(* The match row beside the scheduler and the scoreboard.                  *)

\* What a handler beside the scheduler does to the match is a step of its request.
LEMMA HandlerIsMatchStep ==
  ASSUME NEW p \in Handlers, HandlerStep(p) PROVE MatchNext \/ UNCHANGED matchVars
<1>1. p \in Procs
  BY SchedulerAssumption DEF Procs
<1>2. \/ \E op \in AdminOps : HandlerCheck(p, op)
      \/ StoreReads(p) \/ RequestFails(p) \/ StoreWrites(p) \/ StoreReturns(p)
      \/ UNCHANGED matchVars
  BY DEF HandlerStep
<1> QED
  BY <1>1, <1>2 DEF MatchNext, MatchStep, RequestStep

\* So is what the monitor's poll does.
LEMMA MonitorIsMatchStep ==
  ASSUME MonitorStep PROVE MatchNext \/ UNCHANGED matchVars
<1>1. \/ \E op \in MonitorOps : HandlerCheck(Monitor, op)
      \/ StoreReads(Monitor) \/ RequestFails(Monitor)
      \/ StoreWrites(Monitor) \/ StoreReturns(Monitor)
      \/ UNCHANGED matchVars
  BY DEF MonitorStep, PollSeesNoChange, PollMovesMatch, AccessReconciled, AccessFails,
         PollReadsStatus, PollStarts, PollStops
<1>2. Monitor \in Procs
  BY DEF Procs
<1> QED
  BY <1>1, <1>2 DEF MatchNext, MatchStep, RequestStep

\* Every behaviour of the runtime is, on the match row, one of the match lifecycle.
LEMMA MatchInside == RuntimeSpec => MatchSafety
<1>1. RuntimeInit => MatchInit
  BY DEF RuntimeInit
<1>2. [RuntimeNext]_runtimeVars => [MatchNext]_matchVars
  <2> SUFFICES ASSUME [RuntimeNext]_runtimeVars PROVE MatchNext \/ UNCHANGED matchVars
    OBVIOUS
  <2>1. ASSUME SchedNext PROVE MatchNext \/ UNCHANGED matchVars
    <3>1. CASE StartScheduler \/ StopScheduler \/ UpdateScheduler \/ LoopBooks
      BY <3>1 DEF StartScheduler, StopScheduler, UpdateScheduler, LoopBooks
    <3>2. CASE \E p \in Handlers : HandlerStep(p) \/ HandlerStopsScheduler(p)
      BY <3>2, HandlerIsMatchStep DEF HandlerStopsScheduler
    <3>3. CASE MonitorStep
      BY <3>3, MonitorIsMatchStep
    <3>4. CASE WorldMoves \/ Restart
      BY <3>4 DEF WorldMoves, Restart, MatchNext, MatchStep
    <3> QED BY <2>1, <3>1, <3>2, <3>3, <3>4 DEF SchedNext
  <2> QED
    BY <2>1 DEF RuntimeNext, runtimeVars, gameVars
<1> QED
  BY <1>1, <1>2, PTL DEF RuntimeSpec, MatchSafety

\* A match that is live beside the scheduler, its monitor and their restarts was
\* started, for every number of requests.
THEOREM LiveMatchInRuntime == RuntimeSpec => []LiveMatchWasStarted
  BY MatchInside, LiveMatchStarted, PTL

-----------------------------------------------------------------------------
(* Types.                                                                  *)

AccessStates == {"none", "running", "finished"}
Polls == [pc : {"away", "idle", "access", "status", "start", "stop"}, state : AccessStates]
Accesses == [pending : AccessStates, reconciled : AccessStates]

\* The part of the scheduler's types that OneLoop does not speak of.
PollTypes ==
    /\ saved # {} /\ follow \subseteq Handlers
    /\ poll \in Polls /\ access \in Accesses

\* A reconciliation is called for a state that can be pending only.
LEMMA ToAccessType ==
  ASSUME access \in Accesses, NEW pending \in AccessStates, NEW state, ToAccess(pending, state)
  PROVE  poll' \in Polls /\ access' \in Accesses
<1>1. access' = [access EXCEPT !.pending = pending]
  BY DEF ToAccess
<1>2. access' \in Accesses
  BY <1>1 DEF Accesses
<1>3. CASE pending = state
  <2>1. poll' = [pc |-> "access", state |-> pending]
    BY <1>3 DEF ToAccess
  <2> QED BY <1>2, <2>1 DEF Polls
<1>4. CASE pending # state
  <2>1. poll' = [pc |-> "status", state |-> "none"]
    BY <1>4 DEF ToAccess
  <2> QED BY <1>2, <2>1 DEF Polls, AccessStates
<1> QED BY <1>3, <1>4

\* The poll of the monitor keeps its types.
LEMMA PollStep == MatchTypeOK /\ SchedTypes /\ PollTypes /\ SchedNext => PollTypes'
<1> SUFFICES ASSUME MatchTypeOK, SchedTypes, PollTypes, SchedNext PROVE PollTypes'
  OBVIOUS
<1>0. NoPoll \in Polls /\ NoAccess \in Accesses
  BY DEF NoPoll, NoAccess, Polls, Accesses, AccessStates
<1>1. saved' # {}
  <2>1. ASSUME saved \subseteq saved' PROVE saved' # {}
    BY <2>1 DEF PollTypes
  <2>2. StartLocked \/ StopLocked => saved \subseteq saved'
    BY DEF StartLocked, StopLocked, Persist
  <2>3. CASE Restart
    BY <2>1, <2>3 DEF Restart
  <2>4. CASE MonitorStep
    BY <2>1, <2>2, <2>4
    DEF MonitorStep, PollSeesNoChange, PollMovesMatch, AccessReconciled, AccessFails,
        PollReadsStatus, PollStarts, PollStops, PollFrame
  <2>5. CASE StartScheduler \/ StopScheduler \/ UpdateScheduler \/ LoopBooks \/ WorldMoves
    BY <2>1, <2>2, <2>5
    DEF StartScheduler, StopScheduler, UpdateScheduler, LoopBooks, WorldMoves, schedVars, Persist
  <2>6. CASE \E p \in Handlers : HandlerStep(p) \/ HandlerStopsScheduler(p)
    BY <2>1, <2>2, <2>6 DEF HandlerStep, HandlerStopsScheduler
  <2> QED BY <2>3, <2>4, <2>5, <2>6 DEF SchedNext
<1>2. ASSUME UNCHANGED <<poll, access>>, follow' \subseteq Handlers PROVE PollTypes'
  BY <1>1, <1>2 DEF PollTypes
<1>3. CASE StartScheduler \/ StopScheduler \/ UpdateScheduler \/ LoopBooks \/ WorldMoves
  BY <1>2, <1>3
  DEF StartScheduler, StopScheduler, UpdateScheduler, LoopBooks, WorldMoves, schedVars, PollTypes
<1>4. ASSUME NEW p \in Handlers, HandlerStep(p) PROVE PollTypes'
  <2>1. follow' \in {follow, follow \union {p}} /\ UNCHANGED <<poll, access>>
    BY <1>4 DEF HandlerStep
  <2> QED BY <1>2, <2>1 DEF PollTypes
<1>5. ASSUME NEW p \in Handlers, HandlerStopsScheduler(p) PROVE PollTypes'
  BY <1>2, <1>5 DEF HandlerStopsScheduler, PollTypes
<1>6. ASSUME follow' = follow, poll' \in Polls, access' \in Accesses PROVE PollTypes'
  BY <1>1, <1>6 DEF PollTypes
<1>7. CASE PollSeesNoChange
  <2>1. PICK configured \in Configured :
          ToAccess(IF configured /\ match.state \in {"running", "finished"}
                                 /\ access.reconciled # match.state
                   THEN match.state ELSE access.pending, match.state)
    BY <1>7 DEF PollSeesNoChange
  <2>2. access.pending \in AccessStates
    BY DEF PollTypes, Accesses
  <2>3. (IF configured /\ match.state \in {"running", "finished"} /\ access.reconciled # match.state
         THEN match.state ELSE access.pending) \in AccessStates
    BY <2>2 DEF AccessStates
  <2> QED
    BY <1>6, <1>7, <2>1, <2>3, ToAccessType DEF PollTypes, PollSeesNoChange, PollFrame
<1>8. CASE PollMovesMatch
  <2>1. {"running", "finished"} \subseteq AccessStates
    BY DEF AccessStates
  <2>2. \/ UNCHANGED <<poll, access>>
        \/ ToAccess("running", "running") \/ ToAccess("finished", "finished")
    BY <1>8 DEF PollMovesMatch
  <2> QED
    BY <1>6, <1>8, <2>1, <2>2, ToAccessType DEF PollTypes, PollMovesMatch, PollFrame
<1>9. CASE AccessReconciled
  BY <1>6, <1>9 DEF AccessReconciled, PollFrame, PollTypes, Polls, Accesses, AccessStates
<1>10. CASE AccessFails \/ PollStarts \/ PollStops
  BY <1>0, <1>6, <1>10 DEF AccessFails, PollStarts, PollStops, PollFrame, PollTypes
<1>11. CASE PollReadsStatus
  <2>1. \A state, configured : Decision(state, configured) \in {"stop", "start", "idle"}
                               \/ configured \notin BOOLEAN
    BY DEF Decision
  <2>2. Configured \subseteq BOOLEAN
    BY DEF Configured
  <2>3. poll' \in Polls
    BY <1>0, <1>11, <2>1, <2>2 DEF PollReadsStatus, Polls, NoPoll
  <2> QED
    BY <1>6, <1>11, <2>3 DEF PollReadsStatus, PollFrame, PollTypes
<1>12. CASE Restart
  BY <1>0, <1>1, <1>12 DEF Restart, PollTypes
<1> QED
  BY <1>3, <1>4, <1>5, <1>7, <1>8, <1>9, <1>10, <1>11, <1>12 DEF SchedNext, MonitorStep

\* A sum sees the captures there are, so no recompute and no board has more than
\* can be made.
LEMMA BoardTypeStep == BoardTypeOK /\ BoardNext => BoardTypeOK'
<1> SUFFICES ASSUME BoardTypeOK, BoardNext PROVE BoardTypeOK'
  OBVIOUS
<1> DEFINE Count == 0..MaxCaptures
           Job == [pc : {"none", "begun", "attack", "defense", "stored"},
                   attack : Count, defense : Count, overtaken : BOOLEAN]
           Scoring == [pending : BOOLEAN, inflight : BOOLEAN, timer : BOOLEAN, due : Nat]
<1>0. 0 \in Count /\ captures \in Count /\ \A n \in Count : 0..n \subseteq Count
  BY BoardAssumption DEF BoardTypeOK
<1>1. NoJob \in Job /\ AtRest \in Scoring
  BY <1>0 DEF NoJob, AtRest
<1>2. jobs \in [Recomputes -> Job] /\ scoring \in Scoring
  BY DEF BoardTypeOK
<1>3. ASSUME UNCHANGED <<captures, owed, board>>, submit' \in {"closed", "none", "accepted"},
             scoring' \in Scoring, jobs' \in [Recomputes -> Job]
      PROVE BoardTypeOK'
  BY <1>3 DEF BoardTypeOK
<1>4. CASE SubmitAccepts
  BY <1>0, <1>4, BoardAssumption DEF SubmitAccepts, BoardTypeOK
<1>5. CASE SubmitReturns
  <2>1. Schedule(scoring) \in Scoring
    BY <1>2 DEF Schedule
  <2> QED
    BY <1>0, <1>5, <2>1, BoardAssumption DEF SubmitReturns, BoardTypeOK
<1>6. CASE SubmitFails
  BY <1>2, <1>3, <1>6 DEF SubmitFails
<1>7. CASE TimerFires
  <2>1. scoring.due + 1 \in Nat
    BY <1>2
  <2>2. scoring' = [scoring EXCEPT !.timer = FALSE, !.due = scoring.due + 1]
    BY <1>7 DEF TimerFires
  <2>3. scoring' \in Scoring
    BY <1>2, <2>1, <2>2
  <2> QED
    BY <1>2, <1>3, <1>7, <2>3 DEF TimerFires, BoardTypeOK
<1>8. CASE CallbackRuns
  <2>1. scoring' \in Scoring
    <3>1. scoring.due - 1 \in Nat
      BY <1>2, <1>8 DEF CallbackRuns
    <3>2. \/ scoring' = [scoring EXCEPT !.pending = TRUE, !.due = scoring.due - 1]
          \/ \E n \in {scoring.due, scoring.due - 1} :
               scoring' = [pending |-> FALSE, inflight |-> TRUE, timer |-> FALSE, due |-> n]
      BY <1>8 DEF CallbackRuns
    <3>3. CASE scoring' = [scoring EXCEPT !.pending = TRUE, !.due = scoring.due - 1]
      BY <1>2, <3>1, <3>3
    <3>4. scoring.due \in Nat
      BY <1>2
    <3>5. \A n \in Nat :
            [pending |-> FALSE, inflight |-> TRUE, timer |-> FALSE, due |-> n] \in Scoring
      OBVIOUS
    <3> QED BY <3>1, <3>2, <3>3, <3>4, <3>5
  <2>2. [NoJob EXCEPT !.pc = "begun"] \in Job
    BY <1>1
  <2>3. jobs' \in [Recomputes -> Job]
    BY <1>2, <1>8, <2>2 DEF CallbackRuns
  <2> QED BY <1>3, <1>8, <2>1, <2>3 DEF CallbackRuns, BoardTypeOK
<1>9. \A failed \in BOOLEAN : Finish(scoring, failed) \in Scoring
  BY <1>2 DEF Finish
<1>10. CASE DebouncedFinishes
  BY <1>1, <1>2, <1>3, <1>9, <1>10 DEF DebouncedFinishes, BoardTypeOK
<1>11. ASSUME NEW p \in Recomputes, JobFails(p) PROVE BoardTypeOK'
  BY <1>1, <1>2, <1>3, <1>9, <1>11 DEF JobFails, BoardTypeOK
<1>12. ASSUME NEW p \in Recomputes, DirectBegins(p) \/ SumsAttack(p) \/ SumsDefense(p)
       PROVE BoardTypeOK'
  <2>1. jobs' \in [Recomputes -> Job]
    BY <1>0, <1>2, <1>12 DEF DirectBegins, SumsAttack, SumsDefense
  <2> QED
    BY <1>2, <1>3, <1>12, <2>1 DEF DirectBegins, SumsAttack, SumsDefense, BoardTypeOK
<1>13. ASSUME NEW p \in Recomputes, StoresBoard(p) PROVE BoardTypeOK'
  <2>1. \A q \in Recomputes : jobs'[q] \in Job
    <3> SUFFICES ASSUME NEW q \in Recomputes PROVE jobs'[q] \in Job
      OBVIOUS
    <3>1. \A s \in {"stored", "none"} : [NoJob EXCEPT !.pc = s] \in Job
      BY <1>1
    <3>2. jobs[q] \in Job /\ [jobs[q] EXCEPT !.overtaken = TRUE] \in Job
      BY <1>2
    <3> QED BY <1>13, <3>1, <3>2 DEF StoresBoard
  <2>2. jobs' \in [Recomputes -> Job]
    BY <1>13, <2>1 DEF StoresBoard
  <2>3. board' \in [attack : Count, defense : Count, late : BOOLEAN]
    BY <1>2, <1>13 DEF StoresBoard
  <2> QED
    BY <1>13, <2>2, <2>3 DEF StoresBoard, BoardTypeOK
<1>14. CASE BoardRestart
  <2>1. jobs' \in [Recomputes -> Job]
    BY <1>1, <1>14 DEF BoardRestart
  <2>2. board' \in [attack : Count, defense : Count, late : BOOLEAN]
    BY <1>0, <1>14 DEF BoardRestart
  <2> QED
    BY <1>1, <1>14, <2>1, <2>2 DEF BoardRestart, BoardTypeOK
<1> QED
  BY <1>4, <1>5, <1>6, <1>7, <1>8, <1>10, <1>11, <1>12, <1>13, <1>14 DEF BoardNext

\* The match row, the scheduler with its monitor, and the scoreboard with its
\* recomputes keep their types, whichever of them a behaviour is of.
THEOREM RuntimeTypeCorrect == RuntimeSpec => []RuntimeTypeOK
<1> DEFINE TypeInv == LoopInv /\ PollTypes /\ BoardTypeOK
<1>1. RuntimeInit => TypeInv
  <2> SUFFICES ASSUME RuntimeInit PROVE TypeInv
    OBVIOUS
  <2>0. \E on \in BOOLEAN : SchedStart(on)
    BY DEF RuntimeInit
  <2>1. LoopInv
    <3>1. /\ sched = [state |-> "stopped", cancel |-> FALSE] /\ saved = {"stopped"}
          /\ live = 0 /\ broken = FALSE
      BY <2>0 DEF SchedStart
    <3> QED BY <3>1 DEF LoopInv, SchedTypes, OneLoop
  <2>2. PollTypes
    BY <2>0 DEF SchedStart, PollTypes, Polls, Accesses, AccessStates, NoPoll, NoAccess
  <2>3. \E on \in BOOLEAN : BoardStart(on)
    BY DEF RuntimeInit
  <2>4. BoardTypeOK
    BY <2>3, BoardAssumption DEF BoardStart, BoardTypeOK, AtRest, NoJob
  <2> QED BY <2>1, <2>2, <2>4
<1>2. MatchTypeOK /\ TypeInv /\ [RuntimeNext]_runtimeVars => TypeInv'
  <2> SUFFICES ASSUME MatchTypeOK, TypeInv, [RuntimeNext]_runtimeVars PROVE TypeInv'
    OBVIOUS
  <2>1. UNCHANGED schedVars => LoopInv' /\ PollTypes'
    BY DEF schedVars, LoopInv, SchedTypes, OneLoop, PollTypes
  <2>2. UNCHANGED boardVars => BoardTypeOK'
    BY DEF boardVars, BoardTypeOK
  <2>3. SchedNext => LoopInv' /\ PollTypes'
    BY LoopStep, PollStep DEF LoopInv
  <2>4. BoardNext => BoardTypeOK'
    BY BoardTypeStep
  <2> QED BY <2>1, <2>2, <2>3, <2>4 DEF RuntimeNext, runtimeVars, gameVars
<1>3. MatchTypeOK /\ TypeInv => RuntimeTypeOK
  <2>1. LoopInv => live \in Nat
    BY DEF LoopInv, SchedTypes, OneLoop
  <2> QED
    BY <2>1 DEF RuntimeTypeOK, SchedTypeOK, LoopInv, SchedTypes, PollTypes, Polls, Accesses,
                AccessStates
<1> QED
  BY <1>1, <1>2, <1>3, MatchInside, MatchTypeCorrect, PTL DEF RuntimeSpec

=============================================================================
