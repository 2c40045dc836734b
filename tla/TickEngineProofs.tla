-------------------------- MODULE TickEngineProofs --------------------------
(***************************************************************************)
(* Theorems about the tick engine, for every number of teams, challenges,  *)
(* concurrent advanceTick calls and ticks, in both stores.  They need no   *)
(* fairness, so they are stated for EngineSafety, which EngineSpec implies.*)
(***************************************************************************)
EXTENDS TickEngine, TLAPS

Status == {"running", "completed", "failed"}

Work == [st : {"out", "todo", "busy", "put", "rest"}, pfx : Prefixes]

Call == [pc : {"idle", "start", "list", "run", "complete"}, tick : Nat,
         ctx : {"live", "expired", "cancelled"}, err : BOOLEAN, work : [Targets -> Work]]

\* A call at rest is a call.
LEMMA IdleCallType == IdleCall \in Call /\ [IdleCall EXCEPT !.pc = "start"] \in Call
  BY TickAssumption DEF IdleCall, Call, NoWork, Work

\* A call stays a call when one of its fields gets a value of its type.
LEMMA CallUpdates ==
  ASSUME NEW c \in Call
  PROVE  /\ \A pc \in {"idle", "start", "list", "run", "complete"} : [c EXCEPT !.pc = pc] \in Call
         /\ \A n \in Nat : [c EXCEPT !.tick = n] \in Call
         /\ \A x \in {"live", "expired", "cancelled"} : [c EXCEPT !.ctx = x] \in Call
         /\ \A e \in BOOLEAN : [c EXCEPT !.err = e] \in Call
         /\ \A w \in [Targets -> Work] : [c EXCEPT !.work = w] \in Call
  BY DEF Call

\* The work of a call stays well typed when one of its targets moves on.
LEMMA WorkUpdates ==
  ASSUME NEW w \in [Targets -> Work], NEW t \in Targets
  PROVE  /\ \A x \in Work : [w EXCEPT ![t] = x] \in [Targets -> Work]
         /\ \A st \in {"out", "todo", "busy", "put", "rest"} :
              [w EXCEPT ![t].st = st] \in [Targets -> Work]
  BY DEF Work

\* game_ticks stays a sequence, of the same length, when statuses are rewritten.
LEMMA TicksRewritten ==
  ASSUME NEW s \in Seq(Status), NEW f \in [1 .. Len(s) -> Status]
  PROVE  f \in Seq(Status) /\ Len(f) = Len(s) /\ DOMAIN f = 1 .. Len(s)
  OBVIOUS

\* Rewriting one tick keeps the sequence of statuses and its length.
LEMMA TickRewritten ==
  ASSUME NEW s \in Seq(Status), NEW i, NEW v \in Status
  PROVE  [s EXCEPT ![i] = v] \in Seq(Status) /\ Len([s EXCEPT ![i] = v]) = Len(s)
<1>1. [s EXCEPT ![i] = v] \in [1 .. Len(s) -> Status]
  <2> DEFINE D == 1 .. Len(s)
  <2>1. s \in [D -> Status]
    OBVIOUS
  <2> HIDE DEF D
  <2>2. [s EXCEPT ![i] = v] \in [D -> Status]
    BY <2>1
  <2> QED BY <2>2 DEF D
<1> QED BY <1>1, TicksRewritten

\* The tick variables keep their types through every step of every call, the
\* organizer's changes and restarts.
THEOREM TickTypeCorrect == EngineSafety => []TickTypeOK
<1>1. EngineInit => TickTypeOK
  BY IdleCallType, TickAssumption
     DEF EngineInit, TickInit, TickTypeOK, Call, Work, NoRead
<1>2. TickTypeOK /\ [EngineNext]_engineVars => TickTypeOK'
  <2> SUFFICES ASSUME TickTypeOK, [EngineNext]_engineVars PROVE TickTypeOK'
    OBVIOUS
  <2>0. ticks \in Seq(Status) /\ adv \in [Advancers -> Call]
    BY DEF TickTypeOK, Status, Call, Work
  <2>1. ASSUME NEW p \in Advancers, AdvanceBegins(p) \/ AutoTickBegins(p) PROVE TickTypeOK'
    <3>1. adv' \in [Advancers -> Call]
      BY <2>0, <2>1, IdleCallType DEF AdvanceBegins, AutoTickBegins
    <3> QED
      BY <2>1, <3>1 DEF AdvanceBegins, AutoTickBegins, TickTypeOK, Call, Work
  <2>2. ASSUME NEW p \in Advancers, TickStarts(p) PROVE TickTypeOK'
    <3>1. ticks' \in Seq(Status)
      BY <2>0, <2>2 DEF TickStarts, Status
    <3>2. CurrentTick + 1 \in Nat
      BY <2>0 DEF CurrentTick
    <3>3. [[adv[p] EXCEPT !.pc = "list"] EXCEPT !.tick = CurrentTick + 1] \in Call
      BY <2>0, <2>2, <3>2, CallUpdates
    <3>4. adv' = [adv EXCEPT ![p] = [[adv[p] EXCEPT !.pc = "list"] EXCEPT !.tick = CurrentTick + 1]]
      BY <2>0, <2>2 DEF TickStarts
    <3>5. adv' \in [Advancers -> Call]
      BY <2>0, <2>2, <3>3, <3>4
    <3> QED
      BY <2>2, <3>1, <3>5 DEF TickStarts, TickTypeOK, Call, Work, Status
  <2>3. ASSUME NEW p \in Advancers, TickRefused(p) \/ CompletionFails(p) PROVE TickTypeOK'
    <3>1. adv' \in [Advancers -> Call]
      BY <2>0, <2>3, IdleCallType DEF TickRefused, CompletionFails
    <3> QED
      BY <2>3, <3>1 DEF TickRefused, CompletionFails, TickTypeOK, Call, Work
  <2>4. ASSUME NEW p \in Advancers, TargetsListed(p) PROVE TickTypeOK'
    <3>1. PICK ready \in SUBSET Targets :
            adv' = [adv EXCEPT ![p].pc = "run",
                      ![p].work = [t \in Targets |->
                          [@[t] EXCEPT !.st = IF t \in ready /\ ~Blocked(t[2], CurrentTick)
                                              THEN "todo" ELSE "out"]]]
      BY <2>4 DEF TargetsListed
    <3> DEFINE w == [t \in Targets |->
                       [adv[p].work[t] EXCEPT !.st = IF t \in ready /\ ~Blocked(t[2], CurrentTick)
                                                     THEN "todo" ELSE "out"]]
               c == [[adv[p] EXCEPT !.pc = "run"] EXCEPT !.work = w]
    <3>2. w \in [Targets -> Work]
      BY <2>0, <2>4 DEF Call, Work
    <3>3. c \in Call
      <4> HIDE DEF w
      <4> QED BY <2>0, <2>4, <3>2, CallUpdates
    <3>4. adv' = [adv EXCEPT ![p] = c]
      BY <2>0, <2>4, <3>1 DEF Call
    <3>5. adv' \in [Advancers -> Call]
      <4> HIDE DEF c
      <4> QED BY <2>0, <3>3, <3>4
    <3> QED
      BY <2>4, <3>5 DEF TargetsListed, TickTypeOK, Call, Work
  <2>5. ASSUME NEW p \in Advancers,
               ListingFails(p) \/ WorkersDone(p) \/ ContextCancelled(p) \/ DeadlineExceeded(p)
        PROVE TickTypeOK'
    <3>1. \E c \in Call : adv' = [adv EXCEPT ![p] = c]
      <4> DEFINE done == [adv[p] EXCEPT !.pc = "complete"]
      <4>1. /\ done \in Call /\ [done EXCEPT !.err = TRUE] \in Call
            /\ [adv[p] EXCEPT !.ctx = "cancelled"] \in Call
            /\ [adv[p] EXCEPT !.ctx = "expired"] \in Call
        BY <2>0, CallUpdates
      <4>2. CASE ListingFails(p)
        <5>1. adv' = [adv EXCEPT ![p] = [done EXCEPT !.err = TRUE]]
          BY <2>0, <4>2 DEF ListingFails
        <5> QED BY <4>1, <5>1
      <4>3. CASE WorkersDone(p)
        BY <2>0, <4>1, <4>3 DEF WorkersDone
      <4>4. CASE ContextCancelled(p)
        BY <2>0, <4>1, <4>4 DEF ContextCancelled
      <4>5. CASE DeadlineExceeded(p)
        BY <2>0, <4>1, <4>5 DEF DeadlineExceeded
      <4> QED BY <2>5, <4>2, <4>3, <4>4, <4>5
    <3>2. adv' \in [Advancers -> Call]
      BY <2>0, <3>1
    <3> QED
      BY <2>5, <3>2 DEF ListingFails, WorkersDone, ContextCancelled, DeadlineExceeded,
                        TickTypeOK, Call, Work
  <2>6. ASSUME NEW p \in Advancers, NEW t \in Targets,
               \/ Plant(p, t) \/ PutRecorded(p, t) \/ PutFailed(p, t)
               \/ FlagIssued(p, t) \/ RestRecorded(p, t) \/ TargetFails(p, t)
        PROVE TickTypeOK'
    <3>1. adv' \in [Advancers -> Call]
      <4> DEFINE move(x) == [adv[p].work EXCEPT ![t] = x]
                 step(x) == [adv[p] EXCEPT !.work = move(x)]
      <4>0. adv[p] \in Call /\ adv[p].work \in [Targets -> Work] /\ adv[p].work[t] \in Work
        BY <2>0 DEF Call
      <4>1. \A x \in Work : step(x) \in Call
        BY <4>0, CallUpdates, WorkUpdates
      <4>2. /\ \A st \in {"put", "rest"} : [adv[p].work[t] EXCEPT !.st = st] \in Work
            /\ NoWork[t] \in Work
        BY <4>0, TickAssumption DEF Work, NoWork
      <4>3. CASE Plant(p, t)
        <5>1. [st |-> "busy", pfx |-> prefix] \in Work
          BY DEF Work, TickTypeOK
        <5>2. adv' = [adv EXCEPT ![p] = step([st |-> "busy", pfx |-> prefix])]
          BY <2>0, <4>3 DEF Plant, Call
        <5> QED BY <2>0, <4>1, <5>1, <5>2
      <4>4. CASE PutRecorded(p, t)
        <5>1. adv' = [adv EXCEPT ![p] = step([adv[p].work[t] EXCEPT !.st = "put"])]
          BY <2>0, <4>4 DEF PutRecorded, Call
        <5> QED BY <2>0, <4>1, <4>2, <5>1
      <4>5. CASE FlagIssued(p, t)
        <5>1. adv' = [adv EXCEPT ![p] = step([adv[p].work[t] EXCEPT !.st = "rest"])]
          BY <2>0, <4>5 DEF FlagIssued, Call
        <5> QED BY <2>0, <4>1, <4>2, <5>1
      <4>6. CASE PutFailed(p, t) \/ RestRecorded(p, t)
        <5>1. adv' = [adv EXCEPT ![p] = step(NoWork[t])]
          BY <2>0, <4>6 DEF PutFailed, RestRecorded, Call
        <5> QED BY <2>0, <4>1, <4>2, <5>1
      <4>7. CASE TargetFails(p, t)
        <5> DEFINE d == step(NoWork[t])
        <5>1. d \in Call
          BY <4>1, <4>2
        <5>2. adv' = [adv EXCEPT ![p] = [d EXCEPT !.err = TRUE]]
          BY <2>0, <4>7 DEF TargetFails, TargetError, Call
        <5>3. [d EXCEPT !.err = TRUE] \in Call
          <6> HIDE DEF d
          <6> QED BY <5>1, CallUpdates
        <5> QED BY <2>0, <5>2, <5>3
      <4> QED BY <2>6, <4>3, <4>4, <4>5, <4>6, <4>7
    <3>2. t[1] \in Teams /\ t[2] \in Challenges
      BY TickAssumption DEF Targets
    <3>3. puts' \subseteq [owner : Teams, chal : Challenges, tick : Nat]
      BY <2>0, <2>6, <3>2 DEF Plant, PutRecorded, PutFailed, FlagIssued, RestRecorded,
                              TargetFails, PutRun, Call, TickTypeOK
    <3>4. issued' \subseteq Flags
      BY <2>0, <2>6, <3>2 DEF Plant, PutRecorded, PutFailed, FlagIssued, RestRecorded,
                              TargetFails, FlagOf, Flags, Call, Work, TickTypeOK
    <3> QED
      BY <2>6, <3>1, <3>3, <3>4 DEF Plant, PutRecorded, PutFailed, FlagIssued, RestRecorded,
                                    TargetFails, TickTypeOK, Call, Work
  <2>7. ASSUME NEW p \in Advancers, TickCompletes(p) PROVE TickTypeOK'
    <3>1. ticks' \in Seq(Status)
      <4>1. Outcome(p) \in Status
        BY DEF Outcome, Status
      <4> QED BY <2>0, <2>7, <4>1, TickRewritten DEF TickCompletes
    <3>2. adv' \in [Advancers -> Call]
      BY <2>0, <2>7, IdleCallType DEF TickCompletes
    <3> QED
      BY <2>7, <3>1, <3>2 DEF TickCompletes, TickTypeOK, Call, Work, Status
  <2>8. ASSUME NEW c \in Maintained, MaintenanceBegins(c) \/ ResumeReads(c) \/ ResumeWrites(c)
        PROVE TickTypeOK'
    <3> DEFINE Play == [maint : BOOLEAN, from : Nat, resume : Nat \union {NoRead}]
    <3>0. c \in Challenges /\ chal[c] \in Play /\ CurrentTick \in Nat
      BY <2>0, TickAssumption DEF CurrentTick, TickTypeOK
    <3>1. CASE MaintenanceBegins(c)
      <4>1. chal' = [chal EXCEPT ![c] = [chal[c] EXCEPT !.maint = TRUE, !.from = 0]]
        BY <3>0, <3>1 DEF MaintenanceBegins, TickTypeOK
      <4>2. [chal[c] EXCEPT !.maint = TRUE, !.from = 0] \in Play
        BY <3>0
      <4>3. chal' \in [Challenges -> Play]
        BY <3>0, <4>1, <4>2 DEF TickTypeOK
      <4> QED BY <3>1, <4>3 DEF MaintenanceBegins, TickTypeOK
    <3>2. CASE ResumeReads(c)
      <4>1. [chal[c] EXCEPT !.resume = CurrentTick] \in Play
        BY <3>0
      <4> QED BY <3>0, <3>2, <4>1 DEF ResumeReads, TickTypeOK
    <3>3. CASE ResumeWrites(c)
      <4>1. [maint |-> FALSE, resume |-> NoRead,
             from |-> IF chal[c].resume > 0 THEN chal[c].resume + 1 ELSE 0] \in Play
        BY <3>0 DEF NoRead
      <4> QED BY <3>0, <3>3, <4>1 DEF ResumeWrites, TickTypeOK
    <3> QED BY <2>8, <3>1, <3>2, <3>3
  <2>9. CASE PrefixReloaded
    BY <2>9 DEF PrefixReloaded, TickTypeOK
  <2>10. CASE Crash
    <3>1. ticks' \in Seq(Status)
      BY <2>0, <2>10 DEF Crash, Reap, Status
    <3>2. adv' \in [Advancers -> Call]
      BY <2>10, IdleCallType DEF Crash, CallsAfterRestart
    <3> QED
      BY <2>10, <3>1, <3>2, TickAssumption DEF Crash, TickTypeOK, Call, Work, Status
  <2>11. CASE UNCHANGED tickVars
    BY <2>11 DEF tickVars, TickTypeOK
  <2> QED
    BY <2>1, <2>2, <2>3, <2>4, <2>5, <2>6, <2>7, <2>8, <2>9, <2>10, <2>11
       DEF EngineNext, TickStep, AdvanceStep, engineVars
<1> QED
  BY <1>1, <1>2, PTL DEF EngineSafety

-----------------------------------------------------------------------------
(* One tick at a time.                                                     *)

OwnsIn(c) == c.pc \in {"list", "run", "complete"}

\* The steps that neither start, complete nor reap a tick leave game_ticks
\* alone and give no call a tick it did not have.
Quiet ==
    /\ ticks' = ticks
    /\ \A q \in Advancers : OwnsIn(adv'[q]) => OwnsIn(adv[q]) /\ adv'[q].tick = adv[q].tick

\* Only starting, completing and a restart change the ticks.
LEMMA QuietSteps ==
  ASSUME TickTypeOK, [EngineNext]_engineVars,
         \A p \in Advancers : ~TickStarts(p) /\ ~TickCompletes(p),
         ~Crash
  PROVE  Quiet
<1> USE DEF Quiet, OwnsIn
<1>0. adv \in [Advancers -> Call]
  BY DEF TickTypeOK, Call, Work
<1>1. ASSUME NEW p \in Advancers, AdvanceBegins(p) \/ AutoTickBegins(p) PROVE Quiet
  BY <1>0, <1>1 DEF AdvanceBegins, AutoTickBegins, IdleCall
<1>2. ASSUME NEW p \in Advancers, TickRefused(p) \/ CompletionFails(p) PROVE Quiet
  BY <1>0, <1>2 DEF TickRefused, CompletionFails, IdleCall
<1>3. ASSUME NEW p \in Advancers, TargetsListed(p) PROVE Quiet
  BY <1>0, <1>3 DEF TargetsListed, Call
<1>4. ASSUME NEW p \in Advancers, ListingFails(p) PROVE Quiet
  BY <1>0, <1>4 DEF ListingFails, Call
<1>5. ASSUME NEW p \in Advancers,
             WorkersDone(p) \/ ContextCancelled(p) \/ DeadlineExceeded(p)
      PROVE Quiet
  BY <1>0, <1>5 DEF WorkersDone, ContextCancelled, DeadlineExceeded, Call
<1>6. ASSUME NEW p \in Advancers, NEW t \in Targets,
             \/ Plant(p, t) \/ PutRecorded(p, t) \/ PutFailed(p, t)
             \/ FlagIssued(p, t) \/ RestRecorded(p, t)
      PROVE Quiet
  BY <1>0, <1>6 DEF Plant, PutRecorded, PutFailed, FlagIssued, RestRecorded, Call
<1>7. ASSUME NEW p \in Advancers, NEW t \in Targets, TargetFails(p, t) PROVE Quiet
  BY <1>0, <1>7 DEF TargetFails, Call
<1>8. ASSUME NEW c \in Maintained, MaintenanceBegins(c) \/ ResumeReads(c) \/ ResumeWrites(c)
      PROVE Quiet
  BY <1>8 DEF MaintenanceBegins, ResumeReads, ResumeWrites
<1>9. CASE PrefixReloaded \/ UNCHANGED tickVars
  BY <1>9 DEF PrefixReloaded, tickVars
<1> QED
  BY <1>1, <1>2, <1>3, <1>4, <1>5, <1>6, <1>7, <1>8, <1>9
     DEF EngineNext, TickStep, AdvanceStep, engineVars

\* However schedulers, organizers, automatic ticks, cancellations and restarts
\* interleave, only the last tick runs and at most one call is inside it.
THEOREM OneTick == EngineSafety => []OneTickAtATime
<1>1. EngineInit => OneTickAtATime
  BY DEF EngineInit, TickInit, OneTickAtATime, Owns, IdleCall, CurrentTick
<1>2. TickTypeOK /\ OneTickAtATime /\ [EngineNext]_engineVars => OneTickAtATime'
  <2> SUFFICES ASSUME TickTypeOK, OneTickAtATime, [EngineNext]_engineVars
               PROVE  OneTickAtATime'
    OBVIOUS
  <2>0. ticks \in Seq(Status) /\ adv \in [Advancers -> Call] /\ CurrentTick \in Nat
    BY DEF TickTypeOK, Status, Call, Work, CurrentTick
  <2>1. CASE Quiet
    BY <2>1 DEF Quiet, OwnsIn, OneTickAtATime, Owns, CurrentTick, TickRunning
  <2>2. ASSUME NEW p \in Advancers, TickStarts(p) PROVE OneTickAtATime'
    <3>1. \A q \in Advancers : ~OwnsIn(adv[q])
      BY <2>2 DEF TickStarts, TickMayStart, OneTickAtATime, Owns, OwnsIn
    <3>2. \A i \in 1 .. CurrentTick : ticks[i] # "running"
      BY <2>0, <2>2 DEF TickStarts, TickMayStart, OneTickAtATime, TickRunning
    <3>3. /\ CurrentTick' = CurrentTick + 1
          /\ ticks'[CurrentTick + 1] = "running"
          /\ \A i \in 1 .. CurrentTick : ticks'[i] = ticks[i]
      BY <2>0, <2>2 DEF TickStarts, CurrentTick
    <3>4. /\ adv'[p].pc = "list" /\ adv'[p].tick = CurrentTick + 1
          /\ \A q \in Advancers \ {p} : adv'[q] = adv[q]
      BY <2>0, <2>2 DEF TickStarts, Call
    <3> QED
      BY <2>0, <3>1, <3>2, <3>3, <3>4 DEF OneTickAtATime, Owns, OwnsIn, TickRunning
  <2>3. ASSUME NEW p \in Advancers, TickCompletes(p) PROVE OneTickAtATime'
    <3>1. /\ adv[p].tick = CurrentTick /\ TickRunning
          /\ \A q \in Advancers \ {p} : ~OwnsIn(adv[q])
      BY <2>3 DEF TickCompletes, OneTickAtATime, Owns, OwnsIn
    <3>2. \A q \in Advancers : ~OwnsIn(adv'[q])
      BY <2>0, <2>3, <3>1 DEF TickCompletes, IdleCall, OwnsIn
    <3>3. Outcome(p) \in Status /\ Outcome(p) # "running"
      BY DEF Outcome, Status
    <3>4. CurrentTick' = CurrentTick
      BY <2>0, <2>3, <3>3, TickRewritten DEF TickCompletes, CurrentTick
    <3>5. \A i \in 1 .. CurrentTick : ticks'[i] # "running"
      BY <2>0, <2>3, <3>1, <3>3 DEF TickCompletes, OneTickAtATime, CurrentTick
    <3> QED
      BY <3>2, <3>4, <3>5 DEF OneTickAtATime, Owns, OwnsIn
  <2>4. CASE Crash
    <3>1. \A q \in Advancers : ~OwnsIn(adv'[q])
      BY <2>4 DEF Crash, CallsAfterRestart, IdleCall, OwnsIn
    <3>2. ticks' \in [1 .. CurrentTick -> Status \ {"running"}]
      BY <2>0, <2>4 DEF Crash, Reap, CurrentTick, Status
    <3>3. CurrentTick' = CurrentTick
      BY <2>0, <3>2, TicksRewritten DEF CurrentTick
    <3> QED
      BY <3>1, <3>2, <3>3 DEF OneTickAtATime, Owns, OwnsIn
  <2> QED
    BY <2>1, <2>2, <2>3, <2>4, QuietSteps
<1> QED
  BY <1>1, <1>2, TickTypeCorrect, PTL DEF EngineSafety

-----------------------------------------------------------------------------
(* Outcomes and flags.                                                     *)

\* A tick's outcome is final: neither a late CompleteTick nor a restart
\* rewrites a tick that is not running.
THEOREM OutcomeFinal == EngineSafety => TickOutcomeFinal
<1> DEFINE Kept == \A i \in 1 .. CurrentTick :
                     ticks[i] # "running" => (i \in DOMAIN ticks' /\ ticks'[i] = ticks[i])
<1>1. TickTypeOK /\ OneTickAtATime /\ [EngineNext]_engineVars => [Kept]_engineVars
  <2> SUFFICES ASSUME TickTypeOK, OneTickAtATime, [EngineNext]_engineVars PROVE Kept
    OBVIOUS
  <2>0. ticks \in Seq(Status) /\ DOMAIN ticks = 1 .. CurrentTick
    BY DEF TickTypeOK, Status, CurrentTick
  <2>1. CASE Quiet
    BY <2>0, <2>1 DEF Quiet
  <2>2. ASSUME NEW p \in Advancers, TickStarts(p) PROVE Kept
    BY <2>0, <2>2 DEF TickStarts, CurrentTick
  <2>3. ASSUME NEW p \in Advancers, TickCompletes(p) PROVE Kept
    BY <2>0, <2>3 DEF TickCompletes, OneTickAtATime, Owns, TickRunning
  <2>4. CASE Crash
    BY <2>0, <2>4 DEF Crash, Reap
  <2> QED BY <2>1, <2>2, <2>3, <2>4, QuietSteps
<1> QED
  BY <1>1, TickTypeCorrect, OneTick, PTL DEF EngineSafety, TickOutcomeFinal

\* Workers run only inside a tick that their call owns.
WorkInRun ==
    \A p \in Advancers, t \in Targets :
        adv[p].work[t].st \in {"busy", "put", "rest"} => adv[p].pc = "run"

\* A worker's step on one target changes that target's work and, at most, the
\* call's error; whose tick it is stays the same.
TargetStep(p, t, st) ==
    /\ ticks' = ticks
    /\ adv[p].work[t].st \in {"todo", "busy", "put", "rest"}
    /\ adv[p].work[t].st = "todo" => adv[p].pc = "run"
    /\ adv'[p].work[t].st = st
    /\ adv[p].err => adv'[p].err
    /\ adv'[p].pc = adv[p].pc /\ adv'[p].tick = adv[p].tick
    /\ \A u \in Targets \ {t} : adv'[p].work[u] = adv[p].work[u]
    /\ \A q \in Advancers \ {p} : adv'[q] = adv[q]

\* What each statement of a worker does to its target.
LEMMA TargetSteps ==
  ASSUME TickTypeOK, NEW p \in Advancers, NEW t \in Targets
  PROVE  /\ Plant(p, t) => TargetStep(p, t, "busy")
         /\ PutRecorded(p, t) => TargetStep(p, t, "put")
         /\ FlagIssued(p, t) => TargetStep(p, t, "rest")
         /\ PutFailed(p, t) => TargetStep(p, t, "out")
         /\ RestRecorded(p, t) => TargetStep(p, t, "out")
         /\ TargetFails(p, t) => TargetStep(p, t, "out") /\ adv'[p].err
<1> USE DEF TargetStep
<1>0. adv \in [Advancers -> Call] /\ NoWork[t].st = "out"
  BY DEF TickTypeOK, Call, Work, NoWork
<1>1. Plant(p, t) => TargetStep(p, t, "busy")
  BY <1>0 DEF Plant, Call, Work
<1>2. PutRecorded(p, t) => TargetStep(p, t, "put")
  BY <1>0 DEF PutRecorded, Call, Work
<1>3. FlagIssued(p, t) => TargetStep(p, t, "rest")
  BY <1>0 DEF FlagIssued, Call, Work
<1>4. PutFailed(p, t) => TargetStep(p, t, "out")
  BY <1>0 DEF PutFailed, Call, Work
<1>6. RestRecorded(p, t) => TargetStep(p, t, "out")
  BY <1>0 DEF RestRecorded, Call, Work
<1>5. TargetFails(p, t) => TargetStep(p, t, "out") /\ adv'[p].err
  BY <1>0 DEF TargetFails, TargetError, InFlight, Call, Work
<1> QED BY <1>1, <1>2, <1>3, <1>4, <1>5, <1>6

\* What the steps other than the workers' and TargetsListed do to the calls:
\* each call keeps its work and its place in it, or is at rest (or owns a
\* new tick) with no work at all.
Settled(q) ==
    \/ /\ adv'[q].work = adv[q].work
       /\ adv[q].err => adv'[q].err
       /\ \/ adv'[q].pc = adv[q].pc /\ adv'[q].tick = adv[q].tick
          \/ /\ adv[q].pc \in {"list", "run"} /\ adv'[q].pc = "complete"
             /\ adv'[q].tick = adv[q].tick
             /\ InFlight(q) = {} \/ adv[q].pc = "list"
          \/ adv[q].pc = "start" /\ adv'[q].pc = "list" /\ adv'[q].tick = CurrentTick + 1
    \/ adv'[q].work = NoWork /\ adv'[q].pc \in {"idle", "start"}

\* Every other step leaves flags, puts and workers as they are.
LEMMA SettledSteps ==
  ASSUME TickTypeOK, [EngineNext]_engineVars,
         \A p \in Advancers : ~TargetsListed(p),
         \A p \in Advancers, t \in Targets :
             ~ \/ Plant(p, t) \/ PutRecorded(p, t) \/ PutFailed(p, t)
               \/ FlagIssued(p, t) \/ RestRecorded(p, t) \/ TargetFails(p, t)
  PROVE  issued' = issued /\ puts' = puts /\ \A q \in Advancers : Settled(q)
<1> USE DEF Settled
<1> DEFINE Goal == issued' = issued /\ puts' = puts /\ \A q \in Advancers : Settled(q)
<1>0. adv \in [Advancers -> Call]
  BY DEF TickTypeOK, Call, Work
<1>1. ASSUME NEW p \in Advancers, AdvanceBegins(p) \/ AutoTickBegins(p) PROVE Goal
  BY <1>0, <1>1 DEF AdvanceBegins, AutoTickBegins, IdleCall
<1>2. ASSUME NEW p \in Advancers, TickRefused(p) \/ CompletionFails(p) \/ TickCompletes(p)
      PROVE Goal
  BY <1>0, <1>2 DEF TickRefused, CompletionFails, TickCompletes, IdleCall
<1>3. ASSUME NEW p \in Advancers, TickStarts(p) PROVE Goal
  BY <1>0, <1>3 DEF TickStarts, Call
<1>4. ASSUME NEW p \in Advancers, ListingFails(p) PROVE Goal
  <2>1. /\ adv[p].pc = "list" /\ adv'[p].pc = "complete" /\ adv'[p].err
        /\ adv'[p].work = adv[p].work /\ adv'[p].tick = adv[p].tick
        /\ \A q \in Advancers \ {p} : adv'[q] = adv[q]
    BY <1>0, <1>4 DEF ListingFails, Call
  <2> QED BY <1>4, <2>1 DEF ListingFails
<1>5. ASSUME NEW p \in Advancers, WorkersDone(p) PROVE Goal
  BY <1>0, <1>5 DEF WorkersDone, Call
<1>6. ASSUME NEW p \in Advancers, ContextCancelled(p) \/ DeadlineExceeded(p) PROVE Goal
  <2>1. /\ adv'[p].pc = adv[p].pc /\ adv'[p].err = adv[p].err
        /\ adv'[p].work = adv[p].work /\ adv'[p].tick = adv[p].tick
        /\ \A q \in Advancers \ {p} : adv'[q] = adv[q]
    <3>1. CASE ContextCancelled(p)
      BY <1>0, <3>1 DEF ContextCancelled, Call
    <3>2. CASE DeadlineExceeded(p)
      BY <1>0, <3>2 DEF DeadlineExceeded, Call
    <3> QED BY <1>6, <3>1, <3>2
  <2> QED BY <1>6, <2>1 DEF ContextCancelled, DeadlineExceeded
<1>7. ASSUME NEW c \in Maintained, MaintenanceBegins(c) \/ ResumeReads(c) \/ ResumeWrites(c)
      PROVE Goal
  BY <1>7 DEF MaintenanceBegins, ResumeReads, ResumeWrites
<1>8. CASE PrefixReloaded \/ UNCHANGED tickVars
  BY <1>8 DEF PrefixReloaded, tickVars
<1>9. CASE Crash
  BY <1>9 DEF Crash, CallsAfterRestart, IdleCall
<1> QED
  BY <1>1, <1>2, <1>3, <1>4, <1>5, <1>6, <1>7, <1>8, <1>9
     DEF EngineNext, TickStep, AdvanceStep, engineVars

\* TargetsListed moves its call from listing to running, with fresh work.
LEMMA ListingStep ==
  ASSUME TickTypeOK, NEW p \in Advancers, TargetsListed(p)
  PROVE  /\ adv[p].pc = "list" /\ adv'[p].pc = "run"
         /\ adv'[p].tick = adv[p].tick /\ adv'[p].err = adv[p].err
         /\ \A t \in Targets : adv'[p].work[t].st \in {"todo", "out"}
         /\ \A q \in Advancers \ {p} : adv'[q] = adv[q]
         /\ ticks' = ticks /\ issued' = issued /\ puts' = puts
<1>0. adv \in [Advancers -> Call]
  BY DEF TickTypeOK, Call, Work
<1> QED
  BY <1>0 DEF TargetsListed, Call, Work

\* Workers are at work only while their call runs its targets.
THEOREM WorkersInsideRun == EngineSafety => []WorkInRun
<1>1. EngineInit => WorkInRun
  BY DEF EngineInit, TickInit, WorkInRun, IdleCall, NoWork
<1>2. TickTypeOK /\ WorkInRun /\ [EngineNext]_engineVars => WorkInRun'
  <2> SUFFICES ASSUME TickTypeOK, WorkInRun, [EngineNext]_engineVars,
                      NEW q \in Advancers, NEW u \in Targets,
                      adv'[q].work[u].st \in {"busy", "put", "rest"}
               PROVE  adv'[q].pc = "run"
    BY DEF WorkInRun
  <2>1. ASSUME NEW p \in Advancers, TargetsListed(p) PROVE adv'[q].pc = "run"
    BY <2>1, ListingStep DEF WorkInRun
  <2>2. ASSUME NEW p \in Advancers, NEW t \in Targets, NEW st, TargetStep(p, t, st)
        PROVE adv'[q].pc = "run"
    BY <2>2 DEF TargetStep, WorkInRun
  <2>3. CASE Settled(q)
    BY <2>3 DEF Settled, WorkInRun, NoWork, InFlight
  <2> QED
    BY <2>1, <2>2, <2>3, TargetSteps, SettledSteps
<1> QED
  BY <1>1, <1>2, TickTypeCorrect, PTL DEF EngineSafety

\* Flags appear only while their own tick runs: no late worker of a
\* cancelled, timed-out or reaped tick adds one.
THEOREM FlagsInTheirTick == EngineSafety => FlagsOnlyInTheirTick
<1> DEFINE Timely == \A f \in issued' \ issued : f.tick = CurrentTick /\ TickRunning
<1>1. TickTypeOK /\ OneTickAtATime /\ WorkInRun /\ [EngineNext]_engineVars => [Timely]_engineVars
  <2> SUFFICES ASSUME TickTypeOK, OneTickAtATime, WorkInRun, [EngineNext]_engineVars
               PROVE Timely
    OBVIOUS
  <2>1. ASSUME NEW p \in Advancers, NEW t \in Targets, FlagIssued(p, t) PROVE Timely
    <3>1. adv[p].tick = CurrentTick /\ TickRunning
      BY <2>1 DEF FlagIssued, WorkInRun, OneTickAtATime, Owns
    <3> QED BY <2>1, <3>1 DEF FlagIssued, FlagOf
  <2>2. ASSUME NEW p \in Advancers, NEW t \in Targets,
               \/ Plant(p, t) \/ PutRecorded(p, t) \/ PutFailed(p, t)
               \/ RestRecorded(p, t) \/ TargetFails(p, t)
        PROVE Timely
    BY <2>2 DEF Plant, PutRecorded, PutFailed, RestRecorded, TargetFails
  <2>3. ASSUME NEW p \in Advancers, TargetsListed(p) PROVE Timely
    BY <2>3 DEF TargetsListed
  <2> QED
    BY <2>1, <2>2, <2>3, SettledSteps
<1> QED
  BY <1>1, TickTypeCorrect, OneTick, WorkersInsideRun, PTL DEF EngineSafety, FlagsOnlyInTheirTick

-----------------------------------------------------------------------------
(* One flag per target and tick.                                           *)

IsFlagOf(f, t, n) == f.owner = t[1] /\ f.chal = t[2] /\ f.tick = n

\* No flag is of a tick to come.
FlagsOfPastTicks == \A f \in issued : f.tick <= CurrentTick

\* A target that its tick's call has yet to deal with has no flag of that tick.
NotYetIssued ==
    \A p \in Advancers, t \in Targets :
        (Owns(p) /\ (adv[p].pc = "list" \/ adv[p].work[t].st \in {"todo", "busy", "put"}))
            => \A f \in issued : ~IsFlagOf(f, t, adv[p].tick)

FlagInv == FlagsOfPastTicks /\ NotYetIssued /\ OneFlagPerTargetTick

\* The number of ticks never shrinks, and grows only when StartNextTick adds one.
LEMMA TicksGrow ==
  ASSUME TickTypeOK, [EngineNext]_engineVars
  PROVE  /\ CurrentTick \in Nat /\ CurrentTick' \in Nat
         /\ CurrentTick <= CurrentTick'
         /\ CurrentTick' # CurrentTick => \E p \in Advancers : TickStarts(p)
<1>0. ticks \in Seq(Status) /\ CurrentTick \in Nat
  BY DEF TickTypeOK, Status, CurrentTick
<1>1. CASE Quiet
  BY <1>0, <1>1 DEF Quiet, CurrentTick
<1>2. ASSUME NEW p \in Advancers, TickStarts(p) PROVE CurrentTick' = CurrentTick + 1
  BY <1>0, <1>2 DEF TickStarts, CurrentTick
<1>3. ASSUME NEW p \in Advancers, TickCompletes(p) PROVE CurrentTick' = CurrentTick
  <2>1. Outcome(p) \in Status
    BY DEF Outcome, Status
  <2> QED BY <1>0, <1>3, <2>1, TickRewritten DEF TickCompletes, CurrentTick
<1>4. CASE Crash
  <2>1. ticks' \in [1 .. Len(ticks) -> Status]
    BY <1>0, <1>4 DEF Crash, Reap, CurrentTick, Status
  <2> QED BY <1>0, <2>1, TicksRewritten DEF CurrentTick
<1> QED
  BY <1>0, <1>1, <1>2, <1>3, <1>4, QuietSteps

\* The strengthening of OneFlagPerTargetTick holds throughout.
THEOREM FlagInvariant == EngineSafety => []FlagInv
<1>1. EngineInit => FlagInv
  BY DEF EngineInit, TickInit, FlagInv, FlagsOfPastTicks, NotYetIssued, OneFlagPerTargetTick
<1>2. /\ TickTypeOK /\ OneTickAtATime /\ OneTickAtATime' /\ WorkInRun /\ FlagInv
      /\ [EngineNext]_engineVars
      => FlagInv'
  <2> SUFFICES ASSUME TickTypeOK, OneTickAtATime, OneTickAtATime', WorkInRun, FlagInv,
                      [EngineNext]_engineVars
               PROVE  FlagInv'
    OBVIOUS
  <2>0. /\ CurrentTick \in Nat /\ CurrentTick' \in Nat /\ CurrentTick <= CurrentTick'
        /\ \A f \in issued : f.tick \in Nat
    BY TicksGrow DEF TickTypeOK, Flags
  <2>1. ASSUME NEW p \in Advancers, NEW t \in Targets, FlagIssued(p, t) PROVE FlagInv'
    <3> DEFINE g == FlagOf(t, adv[p].tick, adv[p].work[t].pfx)
    <3>1. issued' = issued \union {g} /\ adv[p].work[t].st = "put"
      BY <2>1 DEF FlagIssued
    <3>2. Owns(p) /\ adv[p].tick = CurrentTick
      BY <3>1 DEF WorkInRun, OneTickAtATime, Owns
    <3>3. \A f \in issued : ~IsFlagOf(f, t, adv[p].tick)
      BY <3>1, <3>2 DEF FlagInv, NotYetIssued
    <3>4. g.owner = t[1] /\ g.chal = t[2] /\ g.tick = CurrentTick
      BY <3>2 DEF FlagOf
    <3>5. TargetStep(p, t, "rest")
      BY <2>1, TargetSteps
    <3> HIDE DEF g
    <3>6. FlagsOfPastTicks'
      BY <2>0, <3>1, <3>4, <3>5 DEF FlagInv, FlagsOfPastTicks, TargetStep, CurrentTick
    <3>7. OneFlagPerTargetTick'
      BY <3>1, <3>2, <3>3, <3>4 DEF FlagInv, OneFlagPerTargetTick, IsFlagOf
    <3>8. NotYetIssued'
      <4> SUFFICES ASSUME NEW q \in Advancers, NEW u \in Targets, Owns(q)',
                          adv'[q].pc = "list" \/ adv'[q].work[u].st \in {"todo", "busy", "put"},
                          NEW f \in issued'
                   PROVE  ~IsFlagOf(f, u, adv'[q].tick)
        BY DEF NotYetIssued
      <4>1. q = p
        BY <3>2, <3>5 DEF TargetStep, Owns, OneTickAtATime
      <4>2. u # t
        BY <3>1, <3>5, <4>1 DEF TargetStep, WorkInRun
      <4>3. CASE f = g
        BY <3>4, <4>2, <4>3 DEF IsFlagOf, Targets
      <4>4. CASE f \in issued
        BY <3>5, <4>1, <4>2, <4>4 DEF FlagInv, NotYetIssued, TargetStep, Owns
      <4> QED BY <3>1, <4>3, <4>4
    <3> QED BY <3>6, <3>7, <3>8 DEF FlagInv
  <2>2. ASSUME issued' = issued, NotYetIssued' PROVE FlagInv'
    BY <2>0, <2>2 DEF FlagInv, FlagsOfPastTicks, OneFlagPerTargetTick
  <2>3. ASSUME NEW p \in Advancers, NEW t \in Targets,
               \/ Plant(p, t) \/ PutRecorded(p, t) \/ PutFailed(p, t)
               \/ RestRecorded(p, t) \/ TargetFails(p, t)
        PROVE FlagInv'
    <3>1. issued' = issued
      BY <2>3 DEF Plant, PutRecorded, PutFailed, RestRecorded, TargetFails
    <3>2. PICK st \in {"busy", "put", "out"} :
            /\ TargetStep(p, t, st)
            /\ st \in {"busy", "put"} => adv[p].work[t].st \in {"todo", "busy"}
      BY <2>3, TargetSteps DEF Plant, PutRecorded
    <3>3. NotYetIssued'
      BY <3>1, <3>2 DEF FlagInv, NotYetIssued, TargetStep, Owns
    <3> QED BY <2>2, <3>1, <3>3
  <2>4. ASSUME NEW p \in Advancers, TargetsListed(p) PROVE FlagInv'
    <3>1. NotYetIssued'
      BY <2>4, ListingStep DEF FlagInv, NotYetIssued, Owns
    <3> QED BY <2>2, <2>4, <3>1, ListingStep
  <2>5. ASSUME issued' = issued, \A q \in Advancers : Settled(q) PROVE FlagInv'
    <3> SUFFICES ASSUME NEW q \in Advancers, NEW u \in Targets, Owns(q)',
                        adv'[q].pc = "list" \/ adv'[q].work[u].st \in {"todo", "busy", "put"},
                        NEW f \in issued
                 PROVE  ~IsFlagOf(f, u, adv'[q].tick)
      BY <2>2, <2>5 DEF NotYetIssued
    <3>1. CASE adv'[q].tick = CurrentTick + 1
      BY <2>0, <3>1 DEF FlagInv, FlagsOfPastTicks, IsFlagOf
    <3>2. CASE adv'[q].pc \in {"idle", "start"}
      BY <3>2 DEF Owns
    <3>3. CASE /\ adv'[q].work = adv[q].work /\ adv'[q].tick = adv[q].tick /\ Owns(q)
               /\ adv'[q].pc = "list" => adv[q].pc = "list"
      BY <3>3 DEF FlagInv, NotYetIssued
    <3> QED
      BY <2>5, <3>1, <3>2, <3>3 DEF Settled, Owns
  <2> QED
    BY <2>1, <2>3, <2>4, <2>5, SettledSteps
<1> QED
  BY <1>1, <1>2, TickTypeCorrect, OneTick, WorkersInsideRun, PTL DEF EngineSafety

\* A target gets at most one flag per tick, across prefix reloads, failed
\* ticks, cancelled calls and restarts.
THEOREM OneFlag == EngineSafety => []OneFlagPerTargetTick
<1>1. FlagInv => OneFlagPerTargetTick
  BY DEF FlagInv
<1> QED
  BY <1>1, FlagInvariant, PTL

-----------------------------------------------------------------------------
(* A completed tick has issued every flag that was put.                    *)

HasFlag(r) == \E f \in issued : f.owner = r.owner /\ f.chal = r.chal /\ f.tick = r.tick

\* The put of r still waits for its flag: its tick runs, and the call inside
\* it, if there is one, is between the two statements or has seen an error.
Pending(r) ==
    /\ r.tick = CurrentTick /\ TickRunning
    /\ \A p \in Advancers : Owns(p) =>
         \/ adv[p].err
         \/ \E t \in Targets : t[1] = r.owner /\ t[2] = r.chal /\ adv[p].work[t].st = "put"

PutInv ==
    \A r \in puts : /\ r.tick \in 1 .. CurrentTick
                    /\ HasFlag(r) \/ ticks[r.tick] = "failed" \/ Pending(r)

\* In a completed tick every put that is on record has its flag on record.
THEOREM CompletedTickIssued == EngineSafety => []CompletedTickIssuedAll
<1>1. EngineInit => PutInv
  BY DEF EngineInit, TickInit, PutInv
<1>2. /\ TickTypeOK /\ OneTickAtATime /\ OneTickAtATime' /\ WorkInRun /\ PutInv
      /\ [EngineNext]_engineVars
      => PutInv'
  <2> SUFFICES ASSUME TickTypeOK, OneTickAtATime, OneTickAtATime', WorkInRun, PutInv,
                      [EngineNext]_engineVars,
                      NEW r \in puts'
               PROVE  (r.tick \in 1 .. CurrentTick
                        /\ (HasFlag(r) \/ ticks[r.tick] = "failed" \/ Pending(r)))'
    BY DEF PutInv
  <2> DEFINE Goal == (r.tick \in 1 .. CurrentTick
                        /\ (HasFlag(r) \/ ticks[r.tick] = "failed" \/ Pending(r)))'
  <2>0. /\ CurrentTick \in Nat /\ CurrentTick' \in Nat /\ CurrentTick <= CurrentTick'
        /\ ticks \in Seq(Status) /\ adv \in [Advancers -> Call]
    BY TicksGrow DEF TickTypeOK, Status, Call, Work
  <2>1. ASSUME NEW p \in Advancers, NEW t \in Targets, PutRecorded(p, t) PROVE Goal
    <3>1. TargetStep(p, t, "put")
      BY <2>1, TargetSteps
    <3>2. Owns(p) /\ adv[p].tick = CurrentTick /\ TickRunning /\ \A q \in Advancers \ {p} : ~Owns(q)
      BY <2>1 DEF PutRecorded, WorkInRun, OneTickAtATime, Owns
    <3>3. /\ ticks' = ticks /\ CurrentTick' = CurrentTick /\ TickRunning' = TickRunning
          /\ issued' = issued /\ adv[p].work[t].st = "busy"
      BY <2>1, <3>1 DEF PutRecorded, TargetStep, CurrentTick, TickRunning
    <3>4. CASE r \in puts
      BY <3>1, <3>2, <3>3, <3>4 DEF PutInv, HasFlag, Pending, Owns, TargetStep
    <3>5. CASE r = PutRun(t, adv[p].tick)
      <4>1. r.tick = CurrentTick /\ r.owner = t[1] /\ r.chal = t[2]
        BY <3>2, <3>5 DEF PutRun
      <4>2. Pending(r)'
        BY <3>1, <3>2, <3>3, <4>1 DEF Pending, Owns, TargetStep
      <4> QED BY <2>0, <3>2, <3>3, <4>1, <4>2 DEF TickRunning
    <3> QED BY <2>1, <3>4, <3>5 DEF PutRecorded
  <2>2. ASSUME NEW p \in Advancers, NEW t \in Targets, FlagIssued(p, t) PROVE Goal
    <3> DEFINE g == FlagOf(t, adv[p].tick, adv[p].work[t].pfx)
    <3>1. TargetStep(p, t, "rest") /\ issued' = issued \union {g} /\ puts' = puts
      BY <2>2, TargetSteps DEF FlagIssued
    <3>2. Owns(p) /\ adv[p].tick = CurrentTick /\ \A q \in Advancers \ {p} : ~Owns(q)
      BY <2>2 DEF FlagIssued, WorkInRun, OneTickAtATime, Owns
    <3>3. ticks' = ticks /\ CurrentTick' = CurrentTick /\ TickRunning' = TickRunning
      BY <3>1 DEF TargetStep, CurrentTick, TickRunning
    <3>4. g.owner = t[1] /\ g.chal = t[2] /\ g.tick = CurrentTick
      BY <3>2 DEF FlagOf
    <3> HIDE DEF g
    <3>5. CASE HasFlag(r) \/ ticks[r.tick] = "failed"
      BY <3>1, <3>3, <3>5 DEF PutInv, HasFlag
    <3>6. CASE Pending(r) /\ r.owner = t[1] /\ r.chal = t[2]
      BY <3>1, <3>3, <3>4, <3>6 DEF PutInv, Pending, HasFlag
    <3>7. CASE Pending(r) /\ ~(r.owner = t[1] /\ r.chal = t[2])
      BY <3>1, <3>2, <3>3, <3>7 DEF PutInv, Pending, Owns, TargetStep
    <3> QED BY <3>1, <3>5, <3>6, <3>7 DEF PutInv
  <2>3. ASSUME NEW p \in Advancers, NEW t \in Targets,
               Plant(p, t) \/ PutFailed(p, t) \/ RestRecorded(p, t) \/ TargetFails(p, t)
        PROVE Goal
    <3>1. issued' = issued /\ puts' = puts /\ ticks' = ticks
      BY <2>3 DEF Plant, PutFailed, RestRecorded, TargetFails
    <3>2. CurrentTick' = CurrentTick /\ TickRunning' = TickRunning
      BY <3>1 DEF CurrentTick, TickRunning
    <3>3. /\ \E st : TargetStep(p, t, st)
          /\ adv[p].work[t].st = "put" => adv'[p].err
      BY <2>3, TargetSteps DEF Plant, PutFailed, RestRecorded
    <3>4. Pending(r) => Pending(r)'
      BY <3>2, <3>3 DEF Pending, Owns, TargetStep
    <3> QED BY <3>1, <3>2, <3>4 DEF PutInv, HasFlag
  <2>4. ASSUME NEW p \in Advancers, TargetsListed(p) PROVE Goal
    <3>1. issued' = issued /\ puts' = puts /\ ticks' = ticks
      BY <2>4, ListingStep
    <3>2. CurrentTick' = CurrentTick /\ TickRunning' = TickRunning
      BY <3>1 DEF CurrentTick, TickRunning
    <3>3. Pending(r) => Pending(r)'
      <4>1. adv[p].pc = "list"
        BY <2>4, ListingStep
      <4>2. \A t \in Targets : adv[p].work[t].st # "put"
        BY <4>1 DEF WorkInRun
      <4> QED BY <2>4, <3>2, <4>1, <4>2, ListingStep DEF Pending, Owns
    <3> QED BY <3>1, <3>2, <3>3 DEF PutInv, HasFlag
  <2>5. ASSUME issued' = issued, puts' = puts, \A q \in Advancers : Settled(q) PROVE Goal
    <3>1. CASE Quiet
      <4>1. CurrentTick' = CurrentTick /\ TickRunning' = TickRunning /\ ticks' = ticks
        BY <3>1 DEF Quiet, CurrentTick, TickRunning
      <4>2. \A q \in Advancers : Owns(q)' => /\ Owns(q)
                                             /\ adv'[q].work = adv[q].work
                                             /\ adv[q].err => adv'[q].err
        BY <2>5, <3>1 DEF Quiet, OwnsIn, Owns, Settled
      <4>3. Pending(r) => Pending(r)'
        BY <4>1, <4>2 DEF Pending
      <4> QED BY <2>5, <4>1, <4>3 DEF PutInv, HasFlag
    <3>2. ASSUME NEW p \in Advancers, TickStarts(p) PROVE Goal
      <4>1. ~Pending(r) /\ r \in puts
        BY <2>5, <3>2 DEF TickStarts, TickMayStart, Pending
      <4>2. \A i \in 1 .. CurrentTick : ticks'[i] = ticks[i]
        BY <2>0, <3>2 DEF TickStarts, CurrentTick
      <4> QED BY <2>0, <2>5, <4>1, <4>2 DEF PutInv, HasFlag
    <3>3. ASSUME NEW p \in Advancers, TickCompletes(p) PROVE Goal
      <4>1. Owns(p) /\ adv[p].tick = CurrentTick /\ TickRunning
        BY <3>3 DEF TickCompletes, Owns, OneTickAtATime
      <4>2. \A t \in Targets : adv[p].work[t].st # "put"
        BY <3>3 DEF TickCompletes, WorkInRun
      <4>3. ticks' = [ticks EXCEPT ![CurrentTick] = Outcome(p)] /\ Outcome(p) \in Status
        BY <3>3, <4>1 DEF TickCompletes, Outcome, Status
      <4>4. CurrentTick' = CurrentTick
        BY <2>0, <4>3, TickRewritten DEF CurrentTick
      <4>5. CASE Pending(r)
        <5>1. Outcome(p) = "failed" /\ r.tick = CurrentTick
          BY <4>1, <4>2, <4>5 DEF Pending, Outcome
        <5>2. ticks'[r.tick] = "failed"
          BY <2>0, <2>5, <4>3, <5>1 DEF PutInv, CurrentTick
        <5> QED BY <2>5, <4>4, <5>2 DEF PutInv
      <4>6. CASE ticks[r.tick] = "failed"
        <5>1. r.tick # CurrentTick
          BY <4>1, <4>6 DEF TickRunning
        <5>2. ticks'[r.tick] = "failed"
          BY <2>0, <2>5, <4>3, <4>6, <5>1 DEF PutInv, CurrentTick
        <5> QED BY <2>5, <4>4, <5>2 DEF PutInv
      <4> QED BY <2>5, <4>4, <4>5, <4>6 DEF PutInv, HasFlag
    <3>4. CASE Crash
      <4>1. /\ ticks' \in [1 .. Len(ticks) -> Status]
            /\ \A i \in 1 .. CurrentTick :
                 ticks[i] \in {"running", "failed"} => ticks'[i] = "failed"
        BY <2>0, <3>4 DEF Crash, Reap, CurrentTick, Status
      <4>2. CurrentTick' = CurrentTick
        BY <2>0, <4>1, TicksRewritten DEF CurrentTick
      <4> QED BY <2>5, <4>1, <4>2 DEF PutInv, HasFlag, Pending, TickRunning
    <3> QED BY <3>1, <3>2, <3>3, <3>4, QuietSteps
  <2> QED
    BY <2>1, <2>2, <2>3, <2>4, <2>5, SettledSteps
<1>3. PutInv => CompletedTickIssuedAll
  BY DEF PutInv, CompletedTickIssuedAll, HasFlag, Pending, TickRunning
<1> QED
  BY <1>1, <1>2, <1>3, TickTypeCorrect, OneTick, WorkersInsideRun, PTL DEF EngineSafety

-----------------------------------------------------------------------------
(* Pauses, maintenance and interrupted ticks.                              *)

\* The calls that have seen a running match and are about to start a tick.
Admitted == {p \in Advancers : adv[p].pc = "start"}

\* While the match is paused no call is admitted, and each tick that still
\* starts uses up a call that was admitted before.
PauseDrains ==
    match.state = "paused" =>
        /\ Admitted' \subseteq Admitted
        /\ CurrentTick' > CurrentTick => \E p \in Admitted : p \notin Admitted'

\* Pausing lets only the advanceTick calls through that had read the match state
\* before: after it no call is admitted, so the late ticks (tick_pause shows one)
\* are at most as many as there were calls under way.
THEOREM PauseDrainsCalls == EngineSafety => [][PauseDrains]_engineVars
<1>1. TickTypeOK /\ [EngineNext]_engineVars => [PauseDrains]_engineVars
  <2> SUFFICES ASSUME TickTypeOK, [EngineNext]_engineVars, match.state = "paused"
               PROVE  /\ Admitted' \subseteq Admitted
                      /\ CurrentTick' > CurrentTick => \E p \in Admitted : p \notin Admitted'
    BY DEF PauseDrains
  <2>0. ticks \in Seq(Status) /\ adv \in [Advancers -> Call] /\ CurrentTick \in Nat
    BY DEF TickTypeOK, Status, Call, Work, CurrentTick
  <2>1. EffectiveState = "paused"
    BY DEF EffectiveState, Effective
  <2>2. ASSUME NEW p \in Advancers, TickStarts(p)
        PROVE  Admitted' \subseteq Admitted /\ p \in Admitted /\ p \notin Admitted'
    BY <2>0, <2>2 DEF TickStarts, Admitted, Call
  <2>3. ASSUME \A p \in Advancers : ~TickStarts(p)
        PROVE  Admitted' \subseteq Admitted
    <3>1. ASSUME NEW p \in Advancers, TargetsListed(p) PROVE Admitted' \subseteq Admitted
      BY <3>1, ListingStep DEF Admitted
    <3>2. ASSUME NEW p \in Advancers, NEW t \in Targets, NEW st, TargetStep(p, t, st)
          PROVE Admitted' \subseteq Admitted
      BY <3>2 DEF TargetStep, Admitted
    <3>3. ASSUME NEW p \in Advancers, AdvanceBegins(p) \/ AutoTickBegins(p)
          PROVE Admitted' \subseteq Admitted
      BY <2>1, <3>3 DEF AdvanceBegins, AutoTickBegins, Admitted
    <3>4. ASSUME NEW p \in Advancers,
                 \/ TickRefused(p) \/ TickCompletes(p) \/ CompletionFails(p) \/ ListingFails(p)
                 \/ WorkersDone(p) \/ ContextCancelled(p) \/ DeadlineExceeded(p)
          PROVE Admitted' \subseteq Admitted
      <4>1. CASE TickRefused(p) \/ TickCompletes(p) \/ CompletionFails(p)
        BY <2>0, <4>1 DEF TickRefused, TickCompletes, CompletionFails, IdleCall, Admitted
      <4>2. CASE ListingFails(p)
        BY <2>0, <4>2 DEF ListingFails, Admitted, Call
      <4>3. CASE WorkersDone(p) \/ ContextCancelled(p) \/ DeadlineExceeded(p)
        BY <2>0, <4>3 DEF WorkersDone, ContextCancelled, DeadlineExceeded, Admitted, Call
      <4> QED BY <3>4, <4>1, <4>2, <4>3
    <3>5. ASSUME NEW c \in Maintained, MaintenanceBegins(c) \/ ResumeReads(c) \/ ResumeWrites(c)
          PROVE Admitted' \subseteq Admitted
      BY <3>5 DEF MaintenanceBegins, ResumeReads, ResumeWrites, Admitted
    <3>6. CASE PrefixReloaded \/ UNCHANGED tickVars
      BY <3>6 DEF PrefixReloaded, tickVars, Admitted
    <3>7. CASE Crash
      BY <3>7 DEF Crash, CallsAfterRestart, IdleCall, Admitted
    <3> QED
      BY <2>3, <3>1, <3>2, <3>3, <3>4, <3>5, <3>6, <3>7, TargetSteps
         DEF EngineNext, TickStep, AdvanceStep, engineVars
  <2>4. CurrentTick' > CurrentTick => \E p \in Advancers : TickStarts(p)
    BY TicksGrow
  <2> QED
    BY <2>2, <2>3, <2>4
<1> QED
  BY <1>1, TickTypeCorrect, PTL DEF EngineSafety

\* A challenge that is not under maintenance is in play at the latest with the
\* next tick, and a resume under way has not read a tick to come.
BackWithTheNextTick ==
    \A c \in Challenges :
        /\ chal[c].resume <= CurrentTick
        /\ chal[c].maint \/ ~Blocked(c, CurrentTick + 1)

\* SetChallengeMaintenance(false) never keeps a challenge out longer than to the
\* next tick, however many ticks start, fail or are reaped between its read of
\* the current tick and its write.
THEOREM ResumedByTheNextTick == EngineSafety => []BackWithTheNextTick
<1>1. EngineInit => BackWithTheNextTick
  BY DEF EngineInit, TickInit, BackWithTheNextTick, Blocked, NoRead, CurrentTick
<1>2. TickTypeOK /\ BackWithTheNextTick /\ [EngineNext]_engineVars => BackWithTheNextTick'
  <2> SUFFICES ASSUME TickTypeOK, BackWithTheNextTick, [EngineNext]_engineVars
               PROVE  BackWithTheNextTick'
    OBVIOUS
  <2> USE DEF BackWithTheNextTick, Blocked
  <2>0. /\ chal \in [Challenges -> [maint : BOOLEAN, from : Nat, resume : Nat \union {NoRead}]]
        /\ NoRead = -1
        /\ CurrentTick \in Nat /\ CurrentTick' \in Nat /\ CurrentTick <= CurrentTick'
    BY TicksGrow DEF TickTypeOK, NoRead
  <2>1. CASE chal' = chal
    BY <2>0, <2>1
  <2>2. ASSUME NEW c \in Challenges, MaintenanceBegins(c) PROVE BackWithTheNextTick'
    BY <2>0, <2>2 DEF MaintenanceBegins
  <2>3. ASSUME NEW c \in Challenges, ResumeReads(c) PROVE BackWithTheNextTick'
    BY <2>0, <2>3 DEF ResumeReads
  <2>4. ASSUME NEW c \in Challenges, ResumeWrites(c) PROVE BackWithTheNextTick'
    BY <2>0, <2>4 DEF ResumeWrites
  <2>5. \/ chal' = chal
        \/ \E c \in Maintained : MaintenanceBegins(c) \/ ResumeReads(c) \/ ResumeWrites(c)
    <3>1. ASSUME NEW p \in Advancers, NEW t \in Targets,
                 \/ Plant(p, t) \/ PutRecorded(p, t) \/ PutFailed(p, t)
                 \/ FlagIssued(p, t) \/ RestRecorded(p, t) \/ TargetFails(p, t)
          PROVE chal' = chal
      BY <3>1 DEF Plant, PutRecorded, PutFailed, FlagIssued, RestRecorded, TargetFails
    <3>2. ASSUME NEW p \in Advancers,
                 \/ TickStarts(p) \/ TickRefused(p) \/ ListingFails(p) \/ WorkersDone(p)
                 \/ TickCompletes(p) \/ CompletionFails(p)
          PROVE chal' = chal
      BY <3>2 DEF TickStarts, TickRefused, ListingFails, WorkersDone, TickCompletes,
                  CompletionFails
    <3>3. ASSUME NEW p \in Advancers,
                 \/ AdvanceBegins(p) \/ AutoTickBegins(p) \/ TargetsListed(p)
                 \/ ContextCancelled(p) \/ DeadlineExceeded(p)
          PROVE chal' = chal
      BY <3>3 DEF AdvanceBegins, AutoTickBegins, TargetsListed, ContextCancelled,
                  DeadlineExceeded
    <3>4. CASE PrefixReloaded \/ Crash \/ UNCHANGED tickVars
      BY <3>4 DEF PrefixReloaded, Crash, tickVars
    <3> QED
      BY <3>1, <3>2, <3>3, <3>4 DEF EngineNext, TickStep, AdvanceStep, engineVars
  <2> QED
    BY <2>1, <2>2, <2>3, <2>4, <2>5, TickAssumption
<1> QED
  BY <1>1, <1>2, TickTypeCorrect, PTL DEF EngineSafety

\* A call whose tick has been interrupted: a persistence error is noted, or its
\* workers' context died while one of them was still at a target.
Interrupted(p) ==
    /\ Owns(p)
    /\ adv[p].err \/ (WorkerDead(p) /\ InFlight(p) # {})

InterruptionSticks ==
    \A p \in Advancers : Interrupted(p) =>
        \/ Interrupted(p)'
        \/ adv'[p].pc = "idle" /\ ticks'[adv[p].tick] # "completed"

\* A step that leaves a call alone leaves it interrupted.
LEMMA CallKept ==
  ASSUME NEW p \in Advancers, Interrupted(p), adv'[p] = adv[p]
  PROVE  Interrupted(p)'
  BY DEF Interrupted, Owns, WorkerDead, InFlight

\* With Postgres, a tick whose deadline or cancellation catches a worker at a
\* target, or in which a statement fails, is never stored as completed: it stays
\* interrupted until its call stores "failed", gives up, or a restart reaps it.
\* (tick_timeout shows a timed-out tick completed; no worker was at a target.)
THEOREM InterruptedTicksFail ==
  ASSUME Backend = "postgres" PROVE EngineSafety => [][InterruptionSticks]_engineVars
<1>1. /\ TickTypeOK /\ OneTickAtATime /\ WorkInRun
      /\ [EngineNext]_engineVars
      => [InterruptionSticks]_engineVars
  <2> SUFFICES ASSUME TickTypeOK, OneTickAtATime, WorkInRun, [EngineNext]_engineVars,
                      NEW p \in Advancers, Interrupted(p)
               PROVE  \/ Interrupted(p)'
                      \/ adv'[p].pc = "idle" /\ ticks'[adv[p].tick] # "completed"
    BY DEF InterruptionSticks
  <2> DEFINE Ends == adv'[p].pc = "idle" /\ ticks'[adv[p].tick] # "completed"
  <2>0. ticks \in Seq(Status) /\ adv \in [Advancers -> Call] /\ CurrentTick \in Nat
    BY DEF TickTypeOK, Status, Call, Work, CurrentTick
  <2>1. /\ OwnsIn(adv[p]) /\ WorkerDead(p)
        /\ adv[p].tick = CurrentTick /\ TickRunning
        /\ adv[p].err \/ InFlight(p) # {}
        /\ InFlight(p) # {} => adv[p].pc = "run"
    BY DEF Interrupted, Owns, OwnsIn, WorkerDead, OneTickAtATime, WorkInRun, InFlight
  <2>2. ~StoreAnswers(WorkerDead(p))
    BY <2>1 DEF StoreAnswers
  <2>3. ASSUME OwnsIn(adv'[p]), adv'[p].err PROVE Interrupted(p)'
    BY <2>3 DEF Interrupted, Owns, OwnsIn
  <2>4. ASSUME NEW q \in Advancers, TargetsListed(q) PROVE Interrupted(p)'
    <3>1. CASE q # p
      BY <2>4, <3>1, ListingStep, CallKept
    <3>2. CASE q = p
      <4>1. adv[p].pc = "list" /\ adv'[p].pc = "run" /\ adv'[p].err = adv[p].err
        BY <2>4, <3>2, ListingStep
      <4> QED BY <2>1, <2>3, <4>1 DEF OwnsIn
    <3> QED BY <3>1, <3>2
  <2>5. ASSUME NEW q \in Advancers, NEW t \in Targets,
               \/ Plant(q, t) \/ PutRecorded(q, t) \/ PutFailed(q, t)
               \/ FlagIssued(q, t) \/ RestRecorded(q, t) \/ TargetFails(q, t)
        PROVE  Interrupted(p)'
    <3>1. CASE q # p
      <4>1. adv'[p] = adv[p]
        BY <2>5, <3>1, TargetSteps DEF TargetStep
      <4> QED BY <4>1, CallKept
    <3>2. CASE q = p
      <4>1. TargetFails(p, t)
        BY <2>1, <2>2, <2>5, <3>2 DEF Plant, PutRecorded, PutFailed, FlagIssued, RestRecorded
      <4>2. adv'[p].pc = adv[p].pc /\ adv'[p].err
        BY <4>1, TargetSteps DEF TargetStep
      <4> QED BY <2>1, <2>3, <4>2 DEF OwnsIn
    <3> QED BY <3>1, <3>2
  <2>6. ASSUME NEW q \in Advancers, TickCompletes(q) PROVE Interrupted(p)' \/ Ends
    <3>1. CASE q # p
      BY <2>0, <2>6, <3>1, CallKept DEF TickCompletes
    <3>2. CASE q = p
      <4>1. adv[p].pc = "complete" /\ adv[p].err
        BY <2>1, <2>6, <3>2 DEF TickCompletes
      <4>2. ticks' = [ticks EXCEPT ![adv[p].tick] = "failed"] /\ adv'[p] = IdleCall
        BY <2>0, <2>6, <3>2, <4>1 DEF TickCompletes, Outcome
      <4>3. adv[p].tick \in DOMAIN ticks
        BY <2>0, <2>1 DEF TickRunning, CurrentTick
      <4> QED BY <4>2, <4>3 DEF IdleCall
    <3> QED BY <3>1, <3>2
  <2>7. ASSUME NEW q \in Advancers, TickRefused(q) \/ CompletionFails(q)
        PROVE  Interrupted(p)' \/ Ends
    <3>1. CASE q # p
      BY <2>0, <2>7, <3>1, CallKept DEF TickRefused, CompletionFails
    <3>2. CASE q = p
      BY <2>0, <2>1, <2>7, <3>2 DEF TickRefused, CompletionFails, IdleCall, TickRunning
    <3> QED BY <3>1, <3>2
  <2>8. ASSUME NEW q \in Advancers, AdvanceBegins(q) \/ AutoTickBegins(q) \/ TickStarts(q)
        PROVE  Interrupted(p)'
    <3>1. q # p \/ adv' = adv
      BY <2>1, <2>8 DEF AdvanceBegins, AutoTickBegins, TickStarts, OwnsIn
    <3>2. adv'[p] = adv[p]
      BY <2>0, <2>8, <3>1 DEF AdvanceBegins, AutoTickBegins, TickStarts
    <3> QED BY <3>2, CallKept
  <2>9. ASSUME NEW q \in Advancers, ListingFails(q) \/ WorkersDone(q) PROVE Interrupted(p)'
    <3>1. CASE q # p
      BY <2>0, <2>9, <3>1, CallKept DEF ListingFails, WorkersDone
    <3>2. CASE q = p /\ ListingFails(p)
      <4>1. adv'[p].pc = "complete" /\ adv'[p].err
        BY <2>0, <3>2 DEF ListingFails, Call
      <4> QED BY <2>3, <4>1 DEF OwnsIn
    <3>3. CASE q = p /\ WorkersDone(p)
      <4>1. adv'[p].pc = "complete" /\ adv'[p].err = adv[p].err /\ adv[p].err
        BY <2>0, <2>1, <3>3 DEF WorkersDone, Call
      <4> QED BY <2>3, <4>1 DEF OwnsIn
    <3> QED BY <2>9, <3>1, <3>2, <3>3
  <2>10. ASSUME NEW q \in Advancers, ContextCancelled(q) \/ DeadlineExceeded(q)
         PROVE  Interrupted(p)'
    <3>1. CASE q # p
      BY <2>0, <2>10, <3>1, CallKept DEF ContextCancelled, DeadlineExceeded
    <3>2. CASE q = p
      <4>1. /\ adv'[p].pc = adv[p].pc /\ adv'[p].err = adv[p].err
            /\ adv'[p].work = adv[p].work /\ adv'[p].ctx # "live"
        <5>1. CASE ContextCancelled(p)
          BY <2>0, <5>1 DEF ContextCancelled, Call
        <5>2. CASE DeadlineExceeded(p)
          BY <2>0, <5>2 DEF DeadlineExceeded, Call
        <5> QED BY <2>10, <3>2, <5>1, <5>2
      <4> QED BY <2>1, <4>1 DEF Interrupted, Owns, OwnsIn, WorkerDead, InFlight
    <3> QED BY <3>1, <3>2
  <2>11. ASSUME adv' = adv PROVE Interrupted(p)'
    BY <2>11, CallKept
  <2>12. ASSUME NEW c \in Maintained, MaintenanceBegins(c) \/ ResumeReads(c) \/ ResumeWrites(c)
         PROVE  adv' = adv
    BY <2>12 DEF MaintenanceBegins, ResumeReads, ResumeWrites
  <2>13. CASE PrefixReloaded \/ UNCHANGED tickVars
    BY <2>11, <2>13 DEF PrefixReloaded, tickVars
  <2>14. CASE Crash
    <3>1. adv'[p].pc = "idle"
      BY <2>14 DEF Crash, CallsAfterRestart, IdleCall
    <3>2. ticks'[adv[p].tick] = "failed"
      BY <2>0, <2>1, <2>14 DEF Crash, Reap, TickRunning, CurrentTick
    <3> QED BY <3>1, <3>2
  <2> QED
    BY <2>4, <2>5, <2>6, <2>7, <2>8, <2>9, <2>10, <2>11, <2>12, <2>13, <2>14
       DEF EngineNext, TickStep, AdvanceStep, engineVars
<1> QED
  BY <1>1, TickTypeCorrect, OneTick, WorkersInsideRun, PTL DEF EngineSafety
=============================================================================
