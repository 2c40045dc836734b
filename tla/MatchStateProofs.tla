-------------------------- MODULE MatchStateProofs --------------------------
(***************************************************************************)
(* Theorems about the match lifecycle, for every number of requests.       *)
(***************************************************************************)
EXTENDS MatchState, TLAPS

\* The specification without its fairness, which no theorem here needs.
MatchSafety == MatchInit /\ [][MatchNext]_matchVars

Rows == [state : MatchStates, started : Nat, ended : BOOLEAN]

Ops == AdminOps \union MonitorOps

\* What each operation writes to game_match_state is a row, and the row it
\* writes has the state the operation is named after.
LEMMA WriteRow ==
  ASSUME NEW m \in Rows, NEW op \in Ops
  PROVE  /\ Write(op, m) \in Rows
         /\ op \in StartOps => Write(op, m) = StartRow(m)
         /\ op = "pause" => Write(op, m) = PauseRow(m)
         /\ op = "resume" => Write(op, m) = ResumeRow(m)
         /\ op \in {"stop", "monStop"} => Write(op, m) = StopRow(m)
<1> USE DEF Rows, Ops, Write, StartOps, MatchStates, AdminOps, MonitorOps
<1>1. CASE op \in StartOps
  BY <1>1 DEF StartRow
<1>2. CASE op = "pause"
  BY <1>2 DEF PauseRow
<1>3. CASE op = "resume"
  BY <1>3 DEF ResumeRow
<1>4. CASE op \in {"stop", "monStop"}
  BY <1>4 DEF StopRow
<1> QED
  BY <1>1, <1>2, <1>3, <1>4

\* The lifecycle variables keep their types through every operation of
\* game-core and through restarts.
THEOREM MatchTypeCorrect == MatchSafety => []MatchTypeOK
<1>1. MatchInit => MatchTypeOK
  BY DEF MatchInit, MatchTypeOK, MatchStates, Idle, AdminOps, MonitorOps
<1>2. MatchTypeOK /\ [MatchNext]_matchVars => MatchTypeOK'
  <2> SUFFICES ASSUME MatchTypeOK, [MatchNext]_matchVars PROVE MatchTypeOK'
    OBVIOUS
  <2> USE DEF MatchTypeOK
  <2>1. ASSUME NEW p \in Procs, NEW op \in AdminOps \union MonitorOps, HandlerCheck(p, op)
        PROVE MatchTypeOK'
    BY <2>1 DEF HandlerCheck
  <2>2. ASSUME NEW p \in Procs, StoreReturns(p) PROVE MatchTypeOK'
    BY <2>2 DEF StoreReturns, AfterStore, OweAutoTick, Idle, AdminOps, MonitorOps
  <2>3. ASSUME NEW p \in Procs, StoreReads(p) PROVE MatchTypeOK'
    BY <2>3 DEF StoreReads
  <2>4. ASSUME NEW p \in Procs, StoreWrites(p) PROVE MatchTypeOK'
    <3>1. Write(req[p].op, match) \in [state : MatchStates, started : Nat, ended : BOOLEAN]
      BY <2>4, WriteRow DEF Rows, Ops
    <3>2. autoTicks' \in Nat
      BY <2>4 DEF StoreWrites, OweAutoTick
    <3>3. req' \in [Procs -> [pc : {"idle", "store", "write"}, op : AdminOps \union MonitorOps]]
      BY <2>4 DEF StoreWrites, AfterStore, Idle, AdminOps, MonitorOps
    <3> QED BY <2>4, <3>1, <3>2, <3>3 DEF StoreWrites
  <2>5. ASSUME NEW p \in Procs, RequestFails(p) PROVE MatchTypeOK'
    BY <2>5 DEF RequestFails, Idle, AdminOps, MonitorOps
  <2>6. CASE UpdateMatchSchedule
    BY <2>6 DEF UpdateMatchSchedule
  <2>7. CASE ClockPasses
    BY <2>7 DEF ClockPasses, Windows
  <2>8. CASE MatchCrash
    BY <2>8 DEF MatchCrash, Idle, AdminOps, MonitorOps
  <2>9. CASE UNCHANGED matchVars
    BY <2>9 DEF matchVars
  <2> QED
    BY <2>1, <2>2, <2>3, <2>4, <2>5, <2>6, <2>7, <2>8, <2>9
       DEF MatchNext, MatchStep, RequestStep
<1> QED
  BY <1>1, <1>2, PTL DEF MatchSafety

-----------------------------------------------------------------------------
\* The strengthening that makes LiveMatchWasStarted inductive: a pause or
\* resume between the store's read and its write has seen a started match,
\* and started_at is never taken back, so its late write is still right.
LateWritesSawStart ==
    \A p \in Procs : (req[p].pc = "write" /\ req[p].op \in {"pause", "resume"})
                        => match.started > 0

\* What the store's own read lets through to a pause or a resume is a match
\* that is running or paused.
LEMMA PauseSeesLiveMatch ==
  ASSUME NEW op \in {"pause", "resume"}, NEW state, StoreAdmits(op, state)
  PROVE  state \in {"running", "paused"}
  BY DEF StoreAdmits, StartOps, PauseAdmits

\* No interleaving of start, pause, resume and stop requests, monitor polls,
\* window changes and restarts gets a match running or paused that was never
\* started, in either store.
THEOREM LiveMatchStarted == MatchSafety => []LiveMatchWasStarted
<1>1. MatchInit => LiveMatchWasStarted /\ LateWritesSawStart
  BY DEF MatchInit, LiveMatchWasStarted, LateWritesSawStart, Idle
<1>2. /\ MatchTypeOK /\ MatchTypeOK'
      /\ LiveMatchWasStarted /\ LateWritesSawStart
      /\ [MatchNext]_matchVars
      => (LiveMatchWasStarted /\ LateWritesSawStart)'
  <2> SUFFICES ASSUME MatchTypeOK, MatchTypeOK', LiveMatchWasStarted, LateWritesSawStart,
                      [MatchNext]_matchVars
               PROVE  (LiveMatchWasStarted /\ LateWritesSawStart)'
    OBVIOUS
  <2> USE DEF MatchTypeOK, LiveMatchWasStarted, LateWritesSawStart
  <2>1. ASSUME NEW p \in Procs, NEW op \in AdminOps \union MonitorOps, HandlerCheck(p, op)
        PROVE (LiveMatchWasStarted /\ LateWritesSawStart)'
    BY <2>1 DEF HandlerCheck
  <2>2. ASSUME NEW p \in Procs, StoreReturns(p)
        PROVE (LiveMatchWasStarted /\ LateWritesSawStart)'
    BY <2>2 DEF StoreReturns, AfterStore, Idle
  <2>3. ASSUME NEW p \in Procs, StoreReads(p)
        PROVE (LiveMatchWasStarted /\ LateWritesSawStart)'
    <3>1. LiveMatchWasStarted'
      BY <2>3 DEF StoreReads
    <3>2. ASSUME NEW q \in Procs, req'[q].pc = "write", req'[q].op \in {"pause", "resume"}
          PROVE match'.started > 0
      <4>1. CASE q = p
        <5>1. req[p].op \in {"pause", "resume"} /\ StoreAdmits(req[p].op, match.state)
          BY <2>3, <3>2, <4>1 DEF StoreReads
        <5>2. match.state \in {"running", "paused"}
          BY <5>1, PauseSeesLiveMatch
        <5> QED BY <2>3, <5>2 DEF StoreReads
      <4>2. CASE q # p
        BY <2>3, <3>2, <4>2 DEF StoreReads
      <4> QED BY <4>1, <4>2
    <3> QED BY <3>1, <3>2
  <2>4. ASSUME NEW p \in Procs, StoreWrites(p)
        PROVE (LiveMatchWasStarted /\ LateWritesSawStart)'
    <3> DEFINE op == req[p].op
    <3>0. op \in Ops /\ match \in Rows
      BY <2>4 DEF Ops, Rows
    <3>1. op \in {"pause", "resume"} => match.started > 0
      <4>1. CASE Backend = "postgres" /\ req[p].pc = "write"
        BY <4>1
      <4>2. CASE StoreAdmits(op, match.state)
        BY <4>2, PauseSeesLiveMatch
      <4> QED BY <2>4, <4>1, <4>2 DEF StoreWrites
    <3>2. match' = Write(op, match)
      BY <2>4 DEF StoreWrites
    <3>3. /\ match'.started \in {match.started, match.started + 1}
          /\ LiveMatchWasStarted'
      <4>1. CASE op \in StartOps
        BY <3>0, <3>2, <4>1, WriteRow DEF StartRow, Rows
      <4>2. CASE op = "pause"
        BY <3>0, <3>1, <3>2, <4>2, WriteRow DEF PauseRow, Rows
      <4>3. CASE op = "resume"
        BY <3>0, <3>1, <3>2, <4>3, WriteRow DEF ResumeRow, Rows
      <4>4. CASE op \in {"stop", "monStop"}
        <5>1. match' = [match EXCEPT !.state = "finished", !.ended = TRUE]
          BY <3>0, <3>2, <4>4, WriteRow DEF StopRow
        <5> QED BY <3>0, <5>1 DEF Rows
      <4> QED
        BY <3>0, <4>1, <4>2, <4>3, <4>4 DEF Ops, AdminOps, MonitorOps, StartOps
    <3>5. LateWritesSawStart'
      BY <2>4, <3>0, <3>3 DEF StoreWrites, AfterStore, Idle, Rows
    <3> QED BY <3>3, <3>5
  <2>5. ASSUME NEW p \in Procs, RequestFails(p)
        PROVE (LiveMatchWasStarted /\ LateWritesSawStart)'
    BY <2>5 DEF RequestFails, Idle
  <2>6. CASE UpdateMatchSchedule \/ ClockPasses \/ UNCHANGED matchVars
    BY <2>6 DEF UpdateMatchSchedule, ClockPasses, matchVars
  <2>7. CASE MatchCrash
    BY <2>7 DEF MatchCrash, Idle
  <2> QED
    BY <2>1, <2>2, <2>3, <2>4, <2>5, <2>6, <2>7 DEF MatchNext, MatchStep, RequestStep
<1> QED
  BY <1>1, <1>2, MatchTypeCorrect, PTL DEF MatchSafety

-----------------------------------------------------------------------------
\* With the memory store, whose test and write share a mutex, a finished
\* match stays finished.  (For Postgres the run match_reopened refutes this.)
THEOREM FinishedStaysFinished ==
  ASSUME Backend = "memory" PROVE MatchSafety => FinishedIsFinal
<1>1. MatchTypeOK /\ [MatchNext]_matchVars
      => [match.state = "finished" => match'.state = "finished"]_matchVars
  <2> SUFFICES ASSUME MatchTypeOK, MatchNext, match.state = "finished"
               PROVE  match'.state = "finished"
    BY DEF matchVars
  <2>1. ASSUME NEW p \in Procs, StoreWrites(p) PROVE FALSE
    <3>1. StoreAdmits(req[p].op, "finished")
      BY <2>1 DEF StoreWrites
    <3>2. req[p].op \in Ops
      BY <2>1 DEF MatchTypeOK, Ops
    <3> QED
      BY <3>1, <3>2 DEF StoreAdmits, StartOps, StartAdmits, PauseAdmits, StopAdmits, Ops,
                       AdminOps, MonitorOps
  <2> QED
    BY <2>1 DEF MatchNext, MatchStep, RequestStep, HandlerCheck, StoreReturns, StoreReads,
                RequestFails, UpdateMatchSchedule, ClockPasses, MatchCrash
<1> QED
  BY <1>1, MatchTypeCorrect, PTL DEF MatchSafety, FinishedIsFinal

-----------------------------------------------------------------------------
(* The lifecycle.                                                          *)

\* No two operations are between their read of the row and their write.
OneWriter == \A p, q \in Procs : (req[p].pc = "write" /\ req[q].pc = "write") => p = q

\* What an operation has read of the row still holds when it writes.
ReadsHold == \A p \in Procs : req[p].pc = "write" => StoreAdmits(req[p].op, match.state)

\* Only a finished match has an ended_at.
EndedIsFinished == match.ended <=> match.state = "finished"

\* The memory store tests and writes in one step.
NoneBetween == Backend = "memory" => \A p \in Procs : req[p].pc # "write"

LifeInv == ReadsHold /\ EndedIsFinished /\ NoneBetween

\* A write whose own read still holds is a step of the lifecycle, and leaves an
\* ended_at only in a finished row.
LEMMA WriteIsLifecycle ==
  ASSUME MatchTypeOK, EndedIsFinished, NEW op \in Ops, StoreAdmits(op, match.state),
         match' = Write(op, match)
  PROVE  EndedIsFinished' /\ Lifecycle!LifeNext
<1>0. match \in Rows
  BY DEF MatchTypeOK, Rows
<1> USE <1>0 DEF EndedIsFinished, StoreAdmits, Rows, StartOps,
        Lifecycle!LifeNext, Lifecycle!Start, Lifecycle!Pause, Lifecycle!Resume, Lifecycle!Stop
<1>1. CASE op \in StartOps
  <2>1. match.state \in {"not_started", "paused"}
    BY <1>1 DEF StartAdmits, MatchStates
  <2>2. match'.state = "running" /\ match'.started = match.started + 1 /\ match'.ended = FALSE
    BY <1>1, WriteRow DEF StartRow
  <2>3. match.ended = FALSE
    BY <2>1
  <2> QED BY <2>1, <2>2, <2>3
<1>2. CASE op = "pause"
  <2>1. match.state = "running"
    BY <1>2 DEF PauseAdmits
  <2>2. match'.state = "paused" /\ match'.started = match.started /\ match'.ended = match.ended
    BY <1>2, WriteRow DEF PauseRow
  <2> QED BY <2>1, <2>2
<1>3. CASE op = "resume"
  <2>1. match.state = "paused"
    BY <1>3
  <2>2. match'.state = "running" /\ match'.started = match.started /\ match'.ended = match.ended
    BY <1>3, WriteRow DEF ResumeRow
  <2> QED BY <2>1, <2>2
<1>4. CASE op \in {"stop", "monStop"}
  <2>1. match.state # "finished"
    BY <1>4 DEF StopAdmits
  <2>2. match'.state = "finished" /\ match'.started = match.started /\ match'.ended = TRUE
    <3> DEFINE r == [match EXCEPT !.state = "finished"]
    <3>1. r.state = "finished" /\ r.started = match.started /\ r \in Rows
      BY DEF MatchStates
    <3>2. match' = [r EXCEPT !.ended = TRUE]
      BY <1>4, WriteRow DEF StopRow
    <3> HIDE DEF r
    <3> QED BY <3>1, <3>2
  <2> QED BY <2>1, <2>2
<1> QED
  BY <1>1, <1>2, <1>3, <1>4 DEF Ops, AdminOps, MonitorOps

\* The row moves only along the lifecycle of MatchLifecycle: always with the
\* memory store, whose test and write share a mutex, and with Postgres as long as
\* no two operations are between their read and their write.  (Two of them reopen
\* a finished match in match_reopened.)
THEOREM LifecycleImplemented ==
  MatchSafety /\ [](Backend = "memory" \/ OneWriter) => ImplementsLifecycle
<1> DEFINE Alone == Backend = "memory" \/ OneWriter
<1>1. MatchInit => LifeInv /\ Lifecycle!LifeInit
  BY DEF MatchInit, LifeInv, ReadsHold, EndedIsFinished, NoneBetween, Idle, Lifecycle!LifeInit
<1>2. MatchTypeOK /\ LifeInv /\ Alone /\ [MatchNext]_matchVars
      => LifeInv' /\ [Lifecycle!LifeNext]_(Lifecycle!lifeVars)
  <2> DEFINE Goal == LifeInv' /\ [Lifecycle!LifeNext]_(Lifecycle!lifeVars)
  <2> SUFFICES ASSUME MatchTypeOK, LifeInv, Alone, [MatchNext]_matchVars PROVE Goal
    OBVIOUS
  <2>0. req \in [Procs -> [pc : {"idle", "store", "write"}, op : Ops]]
    BY DEF MatchTypeOK, Ops
  <2>1. ASSUME match' = match,
               \A p \in Procs : req'[p].pc = "write" =>
                   \/ req'[p] = req[p]
                   \/ Backend = "postgres" /\ StoreAdmits(req'[p].op, match.state)
        PROVE Goal
    BY <2>1 DEF LifeInv, ReadsHold, NoneBetween, EndedIsFinished, Lifecycle!lifeVars
  <2>2. ASSUME NEW p \in Procs, NEW op \in AdminOps \union MonitorOps, HandlerCheck(p, op)
        PROVE Goal
    BY <2>0, <2>1, <2>2 DEF HandlerCheck
  <2>3. ASSUME NEW p \in Procs, StoreReturns(p) PROVE Goal
    BY <2>0, <2>1, <2>3 DEF StoreReturns, AfterStore, Idle
  <2>4. ASSUME NEW p \in Procs, StoreReads(p) PROVE Goal
    BY <2>0, <2>1, <2>4 DEF StoreReads
  <2>5. ASSUME NEW p \in Procs, StoreWrites(p) PROVE Goal
    <3>1. StoreAdmits(req[p].op, match.state) /\ req[p].op \in Ops
      BY <2>0, <2>5 DEF StoreWrites, LifeInv, ReadsHold
    <3>2. match' = Write(req[p].op, match)
      BY <2>5 DEF StoreWrites
    <3>3. EndedIsFinished' /\ Lifecycle!LifeNext
      BY <3>1, <3>2, WriteIsLifecycle DEF LifeInv
    <3>4. ASSUME NEW q \in Procs, req'[q].pc = "write" PROVE FALSE
      <4>1. q # p /\ req[q].pc = "write"
        BY <2>0, <2>5, <3>4 DEF StoreWrites, AfterStore, Idle
      <4>2. Backend = "memory"
        BY <2>5, <4>1 DEF StoreWrites, OneWriter
      <4> QED BY <4>1, <4>2 DEF LifeInv, NoneBetween
    <3> QED BY <3>3, <3>4 DEF LifeInv, ReadsHold, NoneBetween
  <2>6. ASSUME NEW p \in Procs, RequestFails(p) PROVE Goal
    BY <2>0, <2>1, <2>6 DEF RequestFails, Idle
  <2>7. CASE UpdateMatchSchedule \/ ClockPasses \/ UNCHANGED matchVars
    BY <2>1, <2>7 DEF UpdateMatchSchedule, ClockPasses, matchVars
  <2>8. CASE MatchCrash
    BY <2>1, <2>8 DEF MatchCrash, Idle
  <2> QED
    BY <2>2, <2>3, <2>4, <2>5, <2>6, <2>7, <2>8 DEF MatchNext, MatchStep, RequestStep
<1> QED
  BY <1>1, <1>2, MatchTypeCorrect, PTL
     DEF MatchSafety, ImplementsLifecycle, Lifecycle!LifeSpec
=============================================================================
