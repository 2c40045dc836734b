------------------------ MODULE FlagSubmissionProofs ------------------------
(***************************************************************************)
(* The submission system implements FlagGame: for every number of teams,   *)
(* challenges, ticks, advanceTick calls and submission requests, each step *)
(* of game-core and the organizer is a step of the abstract game or leaves *)
(* it alone.                                                               *)
(***************************************************************************)
EXTENDS FlagSubmission, TickEngineProofs

\* What a request has established about the flag it is judging: Parses saw
\* that it is another team's, LookupIssuedFlag that it is on record.
SubInv ==
    \A s \in Submitters :
        /\ sub[s].pc \in {"lookup", "maint", "accept"} => sub[s].flag.owner # sub[s].team
        /\ sub[s].pc \in {"maint", "accept"} => sub[s].flag \in issued

Answers == [flag : Flags, verdict : Verdicts]

Request == [pc : {"idle", "tick", "loop", "lookup", "maint", "accept"}, team : Teams, cur : Nat,
            flag : Flags, answers : SUBSET Answers, n : Nat]

\* A step of the whole system is a step of the tick engine or leaves it alone.
LEMMA EngineStep == [AllNext]_allVars => [EngineNext]_engineVars
  BY DEF AllNext, allVars, EngineNext, SubStep, SubBegins, SubReadsTick, SubJudges, SubLooksUp,
         SubLookupErrs, SubReadsMaintenance, SubRefused, SubDuplicate, SubAccepts, SubEnds, SubLost, GameCoreCrash

\* So the whole system's behaviours are behaviours of the tick engine, and its
\* invariants carry over.
THEOREM EngineInside == AllSpec => EngineSafety
<1>1. AllInit => EngineInit
  BY DEF AllInit
<1> QED
  BY <1>1, EngineStep, PTL DEF AllSpec, EngineSafety

\* The flag of an idle request, and the candidates, are flags.
LEMMA FlagTypes == NoFlag \in Flags /\ Candidates \subseteq Flags
  BY SubmissionAssumption, TickAssumption DEF NoFlag, Flags, Candidates

\* A free submitter is one of the requests.
LEMMA IdleSubType == IdleSub \in Request
  BY FlagTypes DEF IdleSub, Request, Flags

\* Judging a flag adds an answer and goes back to the loop.
LEMMA JudgedType ==
  ASSUME sub \in [Submitters -> Request], NEW s \in Submitters, NEW f \in Flags,
         NEW v \in Verdicts, Judged(s, f, v)
  PROVE  /\ sub' \in [Submitters -> Request]
         /\ sub'[s].pc = "loop"
         /\ \A q \in Submitters \ {s} : sub'[q] = sub[q]
<1> DEFINE r == [sub[s] EXCEPT !.pc = "loop", !.flag = NoFlag, !.n = @ + 1,
                               !.answers = @ \union {Answer(f, v)}]
<1>1. Answer(f, v) \in Answers
  BY DEF Answer, Answers
<1>2. r \in Request
  <2>1. sub[s] \in Request /\ sub[s].n + 1 \in Nat
    BY DEF Request
  <2>2. sub[s].answers \union {Answer(f, v)} \in SUBSET Answers
    BY <1>1 DEF Request
  <2>3. r = [sub[s] EXCEPT !.pc = "loop", !.flag = NoFlag, !.n = sub[s].n + 1,
                           !.answers = sub[s].answers \union {Answer(f, v)}]
    BY <2>1 DEF Request
  <2> QED
    BY <2>1, <2>2, <2>3, FlagTypes DEF Request
<1>3. sub' = [sub EXCEPT ![s] = r]
  BY DEF Judged, Request
<1>4. r.pc = "loop"
  BY DEF Request
<1> HIDE DEF r
<1> QED
  BY <1>2, <1>3, <1>4

\* The submission variables keep their types.
THEOREM SubTypeCorrect == AllSpec => []SubTypeOK
<1>1. AllInit => SubTypeOK
  BY IdleSubType DEF AllInit, SubInit, SubTypeOK, Request, Answers
<1>2. TickTypeOK /\ SubTypeOK /\ [AllNext]_allVars => SubTypeOK'
  <2> SUFFICES ASSUME TickTypeOK, SubTypeOK, [AllNext]_allVars PROVE SubTypeOK'
    OBVIOUS
  <2>0. /\ sub \in [Submitters -> Request] /\ CurrentTick \in Nat
        /\ {"invalid", "duplicate", "accepted"} \subseteq Verdicts
    BY DEF SubTypeOK, Request, Answers, CurrentTick, TickTypeOK, Verdicts
  <2>1. ASSUME sub' \in [Submitters -> Request],
               accepted' = accepted, events' = events, served' \in Nat
        PROVE SubTypeOK'
    BY <2>1 DEF SubTypeOK, Request, Answers
  <2>2. ASSUME NEW s \in Submitters, SubBegins(s) PROVE SubTypeOK'
    <3>1. PICK t \in Teams : sub' = [sub EXCEPT ![s].pc = "tick", ![s].team = t]
      BY <2>2 DEF SubBegins
    <3>2. [sub[s] EXCEPT !.pc = "tick", !.team = t] \in Request
      BY <2>0 DEF Request
    <3>3. sub' \in [Submitters -> Request]
      BY <2>0, <3>1, <3>2
    <3> QED BY <2>1, <2>2, <3>3 DEF SubBegins, SubTypeOK
  <2>3. ASSUME NEW s \in Submitters, SubReadsTick(s) PROVE SubTypeOK'
    <3>1. [sub[s] EXCEPT !.pc = "loop", !.cur = CurrentTick] \in Request
      BY <2>0 DEF Request
    <3>2. sub' \in [Submitters -> Request]
      BY <2>0, <2>3, <3>1 DEF SubReadsTick
    <3> QED BY <2>1, <2>3, <3>2 DEF SubReadsTick, SubTypeOK
  <2>4. ASSUME NEW s \in Submitters, NEW f \in Candidates, SubJudges(s, f) PROVE SubTypeOK'
    <3>0. f \in Flags
      BY FlagTypes
    <3>1. CASE Judged(s, f, "duplicate") \/ Judged(s, f, "invalid")
      BY <2>0, <2>1, <2>4, <3>0, <3>1, JudgedType DEF SubJudges, SubTypeOK
    <3>2. CASE sub' = [sub EXCEPT ![s].pc = "lookup", ![s].flag = f]
      <4>1. [sub[s] EXCEPT !.pc = "lookup", !.flag = f] \in Request
        BY <2>0, <3>0 DEF Request
      <4>2. sub' \in [Submitters -> Request]
        BY <2>0, <3>2, <4>1
      <4> QED BY <2>1, <2>4, <4>2 DEF SubJudges, SubTypeOK
    <3> QED BY <2>4, <3>1, <3>2 DEF SubJudges
  <2>5. ASSUME NEW s \in Submitters,
               SubLooksUp(s) \/ SubLookupErrs(s) \/ SubReadsMaintenance(s)
        PROVE  SubTypeOK'
    <3>1. CASE Judged(s, sub[s].flag, "invalid")
      <4>1. sub[s].flag \in Flags
        BY <2>0 DEF Request
      <4>2. sub' \in [Submitters -> Request]
        BY <2>0, <3>1, <4>1, JudgedType
      <4> QED BY <2>1, <2>5, <4>2 DEF SubLooksUp, SubLookupErrs, SubReadsMaintenance, SubTypeOK
    <3>2. ASSUME NEW pc \in {"maint", "accept"}, sub' = [sub EXCEPT ![s].pc = pc]
          PROVE  SubTypeOK'
      <4>1. [sub[s] EXCEPT !.pc = pc] \in Request
        BY <2>0 DEF Request
      <4>2. sub' \in [Submitters -> Request]
        BY <2>0, <3>2, <4>1
      <4> QED BY <2>1, <2>5, <4>2 DEF SubLooksUp, SubLookupErrs, SubReadsMaintenance, SubTypeOK
    <3> QED BY <2>5, <3>1, <3>2 DEF SubLooksUp, SubLookupErrs, SubReadsMaintenance
  <2>6. ASSUME NEW s \in Submitters, SubRefused(s) \/ SubDuplicate(s) PROVE SubTypeOK'
    <3>1. sub[s].flag \in Flags
      BY <2>0 DEF Request
    <3>2. sub' \in [Submitters -> Request]
      BY <2>0, <2>6, <3>1, JudgedType DEF SubRefused, SubDuplicate, RefusalVerdict
    <3> QED BY <2>1, <2>6, <3>2 DEF SubRefused, SubDuplicate, SubTypeOK
  <2>7. ASSUME NEW s \in Submitters, SubAccepts(s) PROVE SubTypeOK'
    <3>1. sub[s].flag \in Flags /\ sub[s].team \in Teams
      BY <2>0 DEF Request
    <3>2. sub' \in [Submitters -> Request]
      BY <2>0, <2>7, <3>1, JudgedType DEF SubAccepts
    <3>3. accepted' \subseteq [flag : Flags, team : Teams]
      BY <2>7, <3>1 DEF SubAccepts, Pair, SubTypeOK
    <3>4. [flag |-> sub[s].flag, team |-> sub[s].team, tick |-> CurrentTick]
            \in [flag : Flags, team : Teams, tick : Nat]
      BY <2>0, <3>1
    <3>5. events' \in Seq([flag : Flags, team : Teams, tick : Nat])
      BY <2>7, <3>4 DEF SubAccepts, SubTypeOK
    <3> QED BY <2>7, <3>2, <3>3, <3>5 DEF SubAccepts, SubTypeOK, Request, Answers
  <2>8. ASSUME NEW s \in Submitters, SubEnds(s) \/ SubLost(s) PROVE SubTypeOK'
    <3>1. sub' \in [Submitters -> Request]
      BY <2>0, <2>8, IdleSubType DEF SubEnds, SubLost
    <3>2. served' \in Nat
      BY <2>8 DEF SubEnds, SubLost, SubTypeOK
    <3> QED BY <2>1, <2>8, <3>1, <3>2 DEF SubEnds, SubLost
  <2>9. CASE GameCoreCrash
    <3>1. sub' \in [Submitters -> Request]
      BY <2>9, IdleSubType DEF GameCoreCrash
    <3> QED BY <2>1, <2>9, <3>1 DEF GameCoreCrash, SubTypeOK
  <2>10. CASE UNCHANGED subVars
    BY <2>10 DEF subVars, SubTypeOK
  <2> QED
    BY <2>2, <2>3, <2>4, <2>5, <2>6, <2>7, <2>8, <2>9, <2>10 DEF AllNext, SubStep, allVars
<1> QED
  BY <1>1, <1>2, EngineInside, TickTypeCorrect, PTL DEF AllSpec

-----------------------------------------------------------------------------
\* Flags are never taken off the record.
LEMMA IssuedGrows == [EngineNext]_engineVars /\ TickTypeOK => issued \subseteq issued'
<1> SUFFICES ASSUME [EngineNext]_engineVars, TickTypeOK PROVE issued \subseteq issued'
  OBVIOUS
<1>1. ASSUME NEW p \in Advancers, TargetsListed(p) PROVE issued' = issued
  BY <1>1 DEF TargetsListed
<1>2. ASSUME NEW p \in Advancers, NEW t \in Targets,
             \/ Plant(p, t) \/ PutRecorded(p, t) \/ PutFailed(p, t)
             \/ FlagIssued(p, t) \/ RestRecorded(p, t) \/ TargetFails(p, t)
      PROVE issued \subseteq issued'
  BY <1>2 DEF Plant, PutRecorded, PutFailed, FlagIssued, RestRecorded, TargetFails
<1> QED BY <1>1, <1>2, SettledSteps

\* What a request established about its flag still holds when it accepts it.
THEOREM JudgedFlags == AllSpec => []SubInv
<1>1. AllInit => SubInv
  BY DEF AllInit, SubInit, SubInv, IdleSub
<1>2. TickTypeOK /\ SubTypeOK /\ SubInv /\ [AllNext]_allVars => SubInv'
  <2> SUFFICES ASSUME TickTypeOK, SubTypeOK, SubInv, [AllNext]_allVars PROVE SubInv'
    OBVIOUS
  <2>0. sub \in [Submitters -> Request] /\ issued \subseteq issued'
    BY EngineStep, IssuedGrows DEF SubTypeOK, Request, Answers
  <2>1. ASSUME NEW s \in Submitters,
               sub'[s].pc \notin {"lookup", "maint", "accept"},
               \A q \in Submitters \ {s} : sub'[q] = sub[q]
        PROVE SubInv'
    BY <2>0, <2>1 DEF SubInv
  <2>2. ASSUME NEW s \in Submitters, SubBegins(s) \/ SubReadsTick(s) PROVE SubInv'
    <3>1. CASE SubBegins(s)
      BY <2>0, <2>1, <3>1 DEF SubBegins, Request
    <3>2. CASE SubReadsTick(s)
      BY <2>0, <2>1, <3>2 DEF SubReadsTick, Request
    <3> QED BY <2>2, <3>1, <3>2
  <2>3. ASSUME NEW s \in Submitters, NEW f \in Flags, NEW v \in Verdicts, Judged(s, f, v)
        PROVE SubInv'
    BY <2>0, <2>1, <2>3, JudgedType
  <2>4. ASSUME NEW s \in Submitters, NEW f \in Candidates, SubJudges(s, f) PROVE SubInv'
    <3>1. CASE Judged(s, f, "duplicate") \/ Judged(s, f, "invalid")
      BY <2>3, <3>1, FlagTypes DEF Verdicts
    <3>2. CASE /\ Parses(f, sub[s].cur, sub[s].team)
               /\ sub' = [sub EXCEPT ![s].pc = "lookup", ![s].flag = f]
      <4>1. /\ sub'[s].pc = "lookup" /\ sub'[s].flag = f /\ sub'[s].team = sub[s].team
            /\ \A q \in Submitters \ {s} : sub'[q] = sub[q]
        BY <2>0, <3>2 DEF Request
      <4> QED BY <2>0, <3>2, <4>1 DEF SubInv, Parses
    <3> QED BY <2>4, <3>1, <3>2 DEF SubJudges
  <2>5. ASSUME NEW s \in Submitters,
               SubLooksUp(s) \/ SubLookupErrs(s) \/ SubReadsMaintenance(s)
        PROVE  SubInv'
    <3>0. sub[s].flag \in Flags
      BY <2>0 DEF Request
    <3>1. CASE Judged(s, sub[s].flag, "invalid")
      BY <2>3, <3>0, <3>1 DEF Verdicts
    <3>2. ASSUME NEW pc \in {"maint", "accept"}, sub' = [sub EXCEPT ![s].pc = pc],
                 sub[s].flag \in issued, sub[s].pc \in {"lookup", "maint"}
          PROVE  SubInv'
      <4>1. /\ sub'[s].flag = sub[s].flag /\ sub'[s].team = sub[s].team
            /\ \A q \in Submitters \ {s} : sub'[q] = sub[q]
        BY <2>0, <3>2 DEF Request
      <4> QED BY <2>0, <3>2, <4>1 DEF SubInv
    <3>3. sub[s].pc = "maint" => sub[s].flag \in issued
      BY DEF SubInv
    <3> QED BY <2>5, <3>1, <3>2, <3>3 DEF SubLooksUp, SubLookupErrs, SubReadsMaintenance
  <2>6. ASSUME NEW s \in Submitters, SubRefused(s) \/ SubDuplicate(s) \/ SubAccepts(s)
        PROVE SubInv'
    <3>1. sub[s].flag \in Flags
      BY <2>0 DEF Request
    <3>2. \E v \in Verdicts : Judged(s, sub[s].flag, v)
      BY <2>6 DEF SubRefused, SubDuplicate, SubAccepts, RefusalVerdict, Verdicts
    <3> QED BY <2>3, <3>1, <3>2
  <2>7. ASSUME NEW s \in Submitters, SubEnds(s) \/ SubLost(s) PROVE SubInv'
    BY <2>0, <2>1, <2>7 DEF SubEnds, SubLost, IdleSub
  <2>8. CASE GameCoreCrash
    BY <2>8 DEF GameCoreCrash, IdleSub, SubInv
  <2>9. CASE UNCHANGED subVars
    BY <2>0, <2>9 DEF subVars, SubInv
  <2> QED
    BY <2>2, <2>4, <2>5, <2>6, <2>7, <2>8, <2>9 DEF AllNext, SubStep, allVars
<1> QED
  BY <1>1, <1>2, EngineInside, TickTypeCorrect, SubTypeCorrect, PTL DEF AllSpec

-----------------------------------------------------------------------------
(* The attack events.                                                      *)

\* Only an accepted submission touches the record of captures.
LEMMA RecordSteps ==
  ASSUME [AllNext]_allVars
  PROVE  UNCHANGED <<accepted, events>> \/ \E s \in Submitters : SubAccepts(s)
  BY DEF AllNext, allVars, subVars, SubStep, SubBegins, SubReadsTick, SubJudges, SubLooksUp,
         SubLookupErrs, SubReadsMaintenance, SubRefused, SubDuplicate, SubEnds, SubLost, GameCoreCrash

\* A pair of flag and team is booked once, however often it is sent: accepted
\* is the primary key's view of the same events.
THEOREM OneEvent == AllSpec => []OneEventPerCapture
<1>1. AllInit => OneEventPerCapture
  BY DEF AllInit, SubInit, OneEventPerCapture
<1>2. SubTypeOK /\ OneEventPerCapture /\ [AllNext]_allVars => OneEventPerCapture'
  <2> SUFFICES ASSUME SubTypeOK, OneEventPerCapture, [AllNext]_allVars
               PROVE  OneEventPerCapture'
    OBVIOUS
  <2>1. CASE UNCHANGED <<accepted, events>>
    BY <2>1 DEF OneEventPerCapture
  <2>2. ASSUME NEW s \in Submitters, SubAccepts(s) PROVE OneEventPerCapture'
    <3> DEFINE e == [flag |-> sub[s].flag, team |-> sub[s].team, tick |-> CurrentTick]
               k == Len(events) + 1
    <3>1. /\ events' = Append(events, e)
          /\ Pair(e.flag, e.team) \notin accepted
          /\ accepted' = accepted \union {Pair(e.flag, e.team)}
      BY <2>2 DEF SubAccepts, AlreadyAccepted
    <3>2. /\ events \in Seq([flag : Flags, team : Teams, tick : Nat]) /\ Len(events) \in Nat
          /\ Len(events') = k /\ events'[k] = e
          /\ \A i \in 1 .. Len(events) : events'[i] = events[i]
      BY <3>1 DEF SubTypeOK
    <3>3. \A i \in 1 .. Len(events) : ~(events[i].flag = e.flag /\ events[i].team = e.team)
      BY <3>1 DEF OneEventPerCapture
    <3> HIDE DEF e
    <3>4. \A i, j \in 1 .. k :
            (events'[i].flag = events'[j].flag /\ events'[i].team = events'[j].team) => i = j
      BY <3>2, <3>3 DEF OneEventPerCapture
    <3>5. accepted' = {Pair(events'[i].flag, events'[i].team) : i \in 1 .. k}
      BY <3>1, <3>2 DEF OneEventPerCapture
    <3> QED BY <3>2, <3>4, <3>5 DEF OneEventPerCapture
  <2> QED
    BY <2>1, <2>2, RecordSteps
<1> QED
  BY <1>1, <1>2, SubTypeCorrect, PTL DEF AllSpec

\* A capture is booked in the tick of its flag: AcceptFlagSubmission re-reads
\* the current tick, and no flag on record is of a later one.
THEOREM CapturedInTick == AllSpec => []CapturedInItsTick
<1>1. AllInit => CapturedInItsTick
  BY DEF AllInit, SubInit, CapturedInItsTick
<1>2. TickTypeOK /\ FlagInv /\ SubTypeOK /\ SubInv /\ CapturedInItsTick /\ [AllNext]_allVars
      => CapturedInItsTick'
  <2> SUFFICES ASSUME TickTypeOK, FlagInv, SubTypeOK, SubInv, CapturedInItsTick, [AllNext]_allVars
               PROVE  CapturedInItsTick'
    OBVIOUS
  <2>1. CASE UNCHANGED <<accepted, events>>
    BY <2>1 DEF CapturedInItsTick
  <2>2. ASSUME NEW s \in Submitters, SubAccepts(s) PROVE CapturedInItsTick'
    <3> DEFINE e == [flag |-> sub[s].flag, team |-> sub[s].team, tick |-> CurrentTick]
    <3>1. events' = Append(events, e) /\ StillValid(e.flag) /\ e.flag \in issued
      BY <2>2 DEF SubAccepts, SubInv
    <3>2. CurrentTick \in Nat /\ e.flag.tick \in Nat
      BY <3>1 DEF CurrentTick, TickTypeOK, Flags
    <3>3. e.tick = e.flag.tick
      BY <3>1, <3>2 DEF StillValid, ExpiresTick, FlagInv, FlagsOfPastTicks
    <3>4. events \in Seq([flag : Flags, team : Teams, tick : Nat])
      BY DEF SubTypeOK
    <3> HIDE DEF e
    <3> QED BY <3>1, <3>3, <3>4 DEF CapturedInItsTick
  <2> QED
    BY <2>1, <2>2, RecordSteps
<1> QED
  BY <1>1, <1>2, EngineInside, TickTypeCorrect, FlagInvariant, SubTypeCorrect, JudgedFlags, PTL
     DEF AllSpec

-----------------------------------------------------------------------------
(* What the teams are told.                                                *)

\* What a judgement leaves of the request: the answer is added, the team and the
\* tick it read stay.
LEMMA JudgedAnswers ==
  ASSUME sub \in [Submitters -> Request], NEW s \in Submitters, NEW f, NEW v, Judged(s, f, v)
  PROVE  /\ sub'[s].answers = sub[s].answers \union {Answer(f, v)}
         /\ sub'[s].team = sub[s].team /\ sub'[s].cur = sub[s].cur /\ sub'[s].pc = "loop"
         /\ \A q \in Submitters \ {s} : sub'[q] = sub[q]
  BY DEF Judged, Request

\* The answers a request has given agree with the record.
Told(answers, team, record) ==
    \A a \in answers :
        \/ a.verdict = "invalid"
        \/ Pair(a.flag, team) \in record
        \/ a.verdict = "duplicate" /\ Answer(a.flag, "invalid") \in answers

\* A request has answered nothing before its loop, has read a tick that is not to
\* come, and what it answered agrees with the record.
AnswerInv ==
    \A s \in Submitters :
        /\ sub[s].pc \in {"idle", "tick"} => sub[s].answers = {}
        /\ sub[s].cur <= CurrentTick
        /\ Told(sub[s].answers, sub[s].team, accepted)

\* A step of the system begins, continues, judges within or ends one request,
\* ends all of them, or touches none.
LEMMA RequestSteps ==
  ASSUME SubTypeOK, [AllNext]_allVars
  PROVE  \/ \E s \in Submitters :
              /\ \A q \in Submitters \ {s} : sub'[q] = sub[q]
              /\ \/ /\ sub[s].pc \in {"idle", "tick"} /\ sub'[s].answers = sub[s].answers
                    /\ sub[s].pc = "idle" => sub'[s].cur = sub[s].cur
                    /\ sub[s].pc = "tick" => sub'[s].team = sub[s].team /\ sub'[s].cur = CurrentTick
                 \/ /\ sub[s].pc \in {"loop", "lookup", "maint"}
                    /\ sub'[s].pc \in {"lookup", "maint", "accept"}
                    /\ UNCHANGED <<sub[s].answers, sub[s].team, sub[s].cur>>
                 \/ sub'[s] = IdleSub
         \/ \E s \in Submitters, f \in Flags :
              \/ /\ sub[s].pc = "loop" /\ f \in Seen(s) /\ Judged(s, f, "duplicate")
              \/ /\ sub[s].pc = "loop" /\ ~Parses(f, sub[s].cur, sub[s].team)
                 /\ Judged(s, f, "invalid")
              \/ /\ sub[s].pc = "lookup" /\ f = sub[s].flag
                 /\ f \notin issued \/ Backend = "postgres"
                 /\ Judged(s, f, "invalid")
              \/ /\ sub[s].pc = "maint" /\ f = sub[s].flag
                 /\ Blocked(f.chal, CurrentTick)
                 /\ Judged(s, f, "invalid")
              \/ /\ sub[s].pc = "accept" /\ f = sub[s].flag
                 /\ \/ ~StillValid(f) /\ Judged(s, f, "invalid")
                    \/ AlreadyAccepted(f, sub[s].team) /\ Judged(s, f, "duplicate")
                    \/ Pair(f, sub[s].team) \in accepted' /\ Judged(s, f, "accepted")
         \/ sub' = [s \in Submitters |-> IdleSub]
         \/ sub' = sub
<1> DEFINE Other(s) == \A q \in Submitters \ {s} : sub'[q] = sub[q]
<1>0. sub \in [Submitters -> Request]
  BY DEF SubTypeOK, Request, Answers
<1>1. ASSUME NEW s \in Submitters, SubBegins(s)
      PROVE  /\ Other(s) /\ sub[s].pc = "idle"
             /\ sub'[s].answers = sub[s].answers /\ sub'[s].cur = sub[s].cur
  BY <1>0, <1>1 DEF SubBegins, Request
<1>2. ASSUME NEW s \in Submitters, SubReadsTick(s)
      PROVE  /\ Other(s) /\ sub[s].pc = "tick" /\ sub'[s].cur = CurrentTick
             /\ sub'[s].answers = sub[s].answers /\ sub'[s].team = sub[s].team
  BY <1>0, <1>2 DEF SubReadsTick, Request
<1>3. ASSUME NEW s \in Submitters, NEW f \in Candidates,
             sub' = [sub EXCEPT ![s].pc = "lookup", ![s].flag = f]
      PROVE  Other(s) /\ sub'[s].pc = "lookup"
             /\ UNCHANGED <<sub[s].answers, sub[s].team, sub[s].cur>>
  BY <1>0, <1>3 DEF Request
<1>4. ASSUME NEW s \in Submitters, NEW pc \in {"maint", "accept"}, sub' = [sub EXCEPT ![s].pc = pc]
      PROVE  Other(s) /\ sub'[s].pc = pc
             /\ UNCHANGED <<sub[s].answers, sub[s].team, sub[s].cur>>
  BY <1>0, <1>4 DEF Request
<1>5. ASSUME NEW s \in Submitters, SubEnds(s) \/ SubLost(s) PROVE Other(s) /\ sub'[s] = IdleSub
  BY <1>0, <1>5 DEF SubEnds, SubLost
<1>6. \A s \in Submitters : sub[s].flag \in Flags
  BY <1>0 DEF Request
<1>7. ASSUME NEW s \in Submitters, SubAccepts(s) PROVE Pair(sub[s].flag, sub[s].team) \in accepted'
  BY <1>7 DEF SubAccepts
<1> HIDE DEF Other
<1>8. ASSUME NEW s \in Submitters, NEW f \in Candidates, SubJudges(s, f)
      PROVE  \/ sub[s].pc = "loop" /\ f \in Seen(s) /\ Judged(s, f, "duplicate")
             \/ /\ sub[s].pc = "loop" /\ ~Parses(f, sub[s].cur, sub[s].team)
                /\ Judged(s, f, "invalid")
             \/ /\ sub[s].pc = "loop" /\ Other(s) /\ sub'[s].pc = "lookup"
                /\ UNCHANGED <<sub[s].answers, sub[s].team, sub[s].cur>>
  BY <1>3, <1>8 DEF SubJudges
<1>9. ASSUME NEW s \in Submitters, SubLooksUp(s) \/ SubLookupErrs(s) \/ SubReadsMaintenance(s)
      PROVE  \/ /\ sub[s].pc = "lookup"
                /\ sub[s].flag \notin issued \/ Backend = "postgres"
                /\ Judged(s, sub[s].flag, "invalid")
             \/ /\ sub[s].pc = "maint" /\ Blocked(sub[s].flag.chal, CurrentTick)
                /\ Judged(s, sub[s].flag, "invalid")
             \/ /\ sub[s].pc \in {"lookup", "maint"} /\ Other(s)
                /\ sub'[s].pc \in {"maint", "accept"}
                /\ UNCHANGED <<sub[s].answers, sub[s].team, sub[s].cur>>
  BY <1>4, <1>9 DEF SubLooksUp, SubLookupErrs, SubReadsMaintenance
<1>10. ASSUME NEW s \in Submitters, SubRefused(s) \/ SubDuplicate(s) \/ SubAccepts(s)
       PROVE  /\ sub[s].pc = "accept"
              /\ \/ ~StillValid(sub[s].flag) /\ Judged(s, sub[s].flag, "invalid")
                 \/ AlreadyAccepted(sub[s].flag, sub[s].team) /\ Judged(s, sub[s].flag, "duplicate")
                 \/ /\ Pair(sub[s].flag, sub[s].team) \in accepted'
                    /\ Judged(s, sub[s].flag, "accepted")
  BY <1>7, <1>10 DEF SubRefused, SubDuplicate, SubAccepts, RefusalVerdict
<1>11. Candidates \subseteq Flags
  BY FlagTypes
<1>12. CASE GameCoreCrash
  BY <1>12 DEF GameCoreCrash
<1>13. CASE UNCHANGED subVars
  BY <1>13 DEF subVars
<1>14. ASSUME NEW s \in Submitters, SubStep(s)
       PROVE  \/ SubBegins(s) \/ SubReadsTick(s)
              \/ \E f \in Candidates : SubJudges(s, f)
              \/ SubLooksUp(s) \/ SubLookupErrs(s) \/ SubReadsMaintenance(s)
              \/ SubRefused(s) \/ SubDuplicate(s) \/ SubAccepts(s)
              \/ SubEnds(s) \/ SubLost(s)
  BY <1>14 DEF SubStep
<1>15. ASSUME NEW s \in Submitters, SubStep(s)
       PROVE \/ /\ Other(s)
                /\ \/ /\ sub[s].pc \in {"idle", "tick"} /\ sub'[s].answers = sub[s].answers
                      /\ sub[s].pc = "idle" => sub'[s].cur = sub[s].cur
                      /\ sub[s].pc = "tick" => sub'[s].team = sub[s].team /\ sub'[s].cur = CurrentTick
                   \/ /\ sub[s].pc \in {"loop", "lookup", "maint"}
                      /\ sub'[s].pc \in {"lookup", "maint", "accept"}
                      /\ UNCHANGED <<sub[s].answers, sub[s].team, sub[s].cur>>
                   \/ sub'[s] = IdleSub
             \/ \E f \in Flags :
                  \/ /\ sub[s].pc = "loop" /\ f \in Seen(s) /\ Judged(s, f, "duplicate")
                  \/ /\ sub[s].pc = "loop" /\ ~Parses(f, sub[s].cur, sub[s].team)
                     /\ Judged(s, f, "invalid")
                  \/ /\ sub[s].pc = "lookup" /\ f = sub[s].flag
                     /\ f \notin issued \/ Backend = "postgres"
                     /\ Judged(s, f, "invalid")
                  \/ /\ sub[s].pc = "maint" /\ f = sub[s].flag
                     /\ Blocked(f.chal, CurrentTick)
                     /\ Judged(s, f, "invalid")
                  \/ /\ sub[s].pc = "accept" /\ f = sub[s].flag
                     /\ \/ ~StillValid(f) /\ Judged(s, f, "invalid")
                        \/ AlreadyAccepted(f, sub[s].team) /\ Judged(s, f, "duplicate")
                        \/ Pair(f, sub[s].team) \in accepted' /\ Judged(s, f, "accepted")
  <2>1. CASE \E f \in Candidates : SubJudges(s, f)
    BY <1>8, <1>11, <2>1
  <2>2. CASE SubLooksUp(s) \/ SubLookupErrs(s) \/ SubReadsMaintenance(s)
    BY <1>6, <1>9, <2>2
  <2>3. CASE SubRefused(s) \/ SubDuplicate(s) \/ SubAccepts(s)
    BY <1>6, <1>10, <2>3
  <2>4. CASE SubBegins(s) \/ SubReadsTick(s) \/ SubEnds(s) \/ SubLost(s)
    BY <1>1, <1>2, <1>5, <2>4
  <2> QED BY <1>14, <1>15, <2>1, <2>2, <2>3, <2>4
<1> QED
  BY <1>12, <1>13, <1>15 DEF AllNext, allVars, Other

\* The strengthening of AnswersMatchRecord holds throughout.
THEOREM AnswersAreTrue == AllSpec => []AnswerInv
<1>1. AllInit => AnswerInv
  BY DEF AllInit, EngineInit, TickInit, SubInit, AnswerInv, Told, IdleSub, CurrentTick
<1>2. TickTypeOK /\ SubTypeOK /\ AnswerInv /\ [AllNext]_allVars => AnswerInv'
  <2> SUFFICES ASSUME TickTypeOK, SubTypeOK, AnswerInv, [AllNext]_allVars PROVE AnswerInv'
    OBVIOUS
  <2>0. /\ sub \in [Submitters -> Request]
        /\ CurrentTick \in Nat /\ CurrentTick' \in Nat /\ CurrentTick <= CurrentTick'
        /\ \A s \in Submitters : sub[s].cur \in Nat
    BY EngineStep, TicksGrow DEF SubTypeOK, Request, Answers
  <2>1. accepted \subseteq accepted'
    BY RecordSteps DEF SubAccepts
  <2> DEFINE Fine(s) == /\ sub'[s].pc \in {"idle", "tick"} => sub'[s].answers = {}
                        /\ sub'[s].cur <= CurrentTick'
                        /\ Told(sub'[s].answers, sub'[s].team, accepted')
  <2>2. ASSUME NEW s \in Submitters, sub'[s] = sub[s] PROVE Fine(s)
    BY <2>0, <2>1, <2>2 DEF AnswerInv, Told
  <2>3. ASSUME NEW s \in Submitters, sub'[s] = IdleSub PROVE Fine(s)
    BY <2>0, <2>3 DEF IdleSub, Told
  <2>4. ASSUME NEW s \in Submitters,
               /\ sub[s].pc \in {"idle", "tick"} /\ sub'[s].answers = sub[s].answers
               /\ sub[s].pc = "idle" => sub'[s].cur = sub[s].cur
               /\ sub[s].pc = "tick" => sub'[s].team = sub[s].team /\ sub'[s].cur = CurrentTick
        PROVE  Fine(s)
    BY <2>0, <2>4 DEF AnswerInv, Told
  <2>5. ASSUME NEW s \in Submitters,
               /\ sub[s].pc \in {"loop", "lookup", "maint"}
               /\ sub'[s].pc \in {"lookup", "maint", "accept"}
               /\ UNCHANGED <<sub[s].answers, sub[s].team, sub[s].cur>>
        PROVE  Fine(s)
    BY <2>0, <2>1, <2>5 DEF AnswerInv, Told
  <2>6. ASSUME NEW s \in Submitters, NEW f, NEW v, Judged(s, f, v),
               \/ v = "invalid"
               \/ Pair(f, sub[s].team) \in accepted'
               \/ v = "duplicate" /\ f \in Seen(s)
        PROVE  Fine(s)
    <3>1. /\ sub'[s].answers = sub[s].answers \union {Answer(f, v)}
          /\ sub'[s].team = sub[s].team /\ sub'[s].cur = sub[s].cur /\ sub'[s].pc = "loop"
      BY <2>0, <2>6, JudgedAnswers
    <3>2. Told(sub[s].answers, sub[s].team, accepted)
      BY DEF AnswerInv
    <3>3. ASSUME v = "duplicate", f \in Seen(s), Pair(f, sub[s].team) \notin accepted'
          PROVE  Answer(f, "invalid") \in sub'[s].answers
      <4>1. PICK a \in sub[s].answers : a.flag = f
        BY <3>3 DEF Seen
      <4>2. a \in Answers
        BY <2>0 DEF Request
      <4>3. a.verdict = "invalid" => a = Answer(f, "invalid")
        BY <4>1, <4>2 DEF Answers, Answer
      <4> QED BY <2>1, <3>1, <3>2, <3>3, <4>1, <4>3 DEF Told
    <3>4. Answer(f, v).flag = f /\ Answer(f, v).verdict = v
      BY DEF Answer
    <3>5. Told(sub'[s].answers, sub'[s].team, accepted')
      BY <2>1, <2>6, <3>1, <3>2, <3>3, <3>4 DEF Told
    <3> QED BY <2>0, <3>1, <3>5 DEF AnswerInv
  <2>7. ASSUME NEW s \in Submitters, Fine(s), \A q \in Submitters \ {s} : sub'[q] = sub[q]
        PROVE  AnswerInv'
    BY <2>2, <2>7 DEF AnswerInv
  <2>8. ASSUME NEW s \in Submitters, NEW f, NEW v, Judged(s, f, v),
               \/ v = "invalid"
               \/ Pair(f, sub[s].team) \in accepted'
               \/ v = "duplicate" /\ f \in Seen(s)
        PROVE  AnswerInv'
    BY <2>0, <2>6, <2>7, <2>8, JudgedAnswers
  <2>9. CASE sub' = sub \/ sub' = [s \in Submitters |-> IdleSub]
    BY <2>2, <2>3, <2>9 DEF AnswerInv
  <2> HIDE DEF Fine
  <2> QED
    BY <2>1, <2>3, <2>4, <2>5, <2>7, <2>8, <2>9, RequestSteps DEF AlreadyAccepted
<1> QED
  BY <1>1, <1>2, EngineInside, TickTypeCorrect, SubTypeCorrect, PTL DEF AllSpec

\* What a team is told agrees with the record, for every number of concurrent
\* requests and whatever the batch repeats.
THEOREM AnswersMatch == AllSpec => []AnswersMatchRecord
<1>1. AnswerInv => AnswersMatchRecord
  BY DEF AnswerInv, Told, AnswersMatchRecord
<1> QED
  BY <1>1, AnswersAreTrue, PTL

\* A flag that is on record, current, in play and another team's is not refused
\* by any step but a lookup that errs, although ticks start, prefixes change and
\* requests interleave: a request has not read a later tick than the current one,
\* and AcceptFlagSubmission looks at the same things again.
THEOREM ValidFlagsAreTaken == AllSpec => ValidFlagNotRefused
<1>1. TickTypeOK /\ SubTypeOK /\ AnswerInv /\ [AllNext]_allVars
      => [\A s \in Submitters : \A a \in sub'[s].answers \ sub[s].answers :
            a.verdict = "invalid" =>
              ~ /\ ~(Backend = "postgres" /\ sub[s].pc = "lookup")
                /\ a.flag \in issued /\ a.flag.prefix = prefix
                /\ a.flag.tick = CurrentTick /\ sub[s].cur # 0
                /\ a.flag.owner # sub[s].team
                /\ match.state = "running"
                /\ ~Blocked(a.flag.chal, CurrentTick)]_allVars
  <2> SUFFICES ASSUME TickTypeOK, SubTypeOK, AnswerInv, [AllNext]_allVars,
                      NEW s \in Submitters, NEW a \in sub'[s].answers \ sub[s].answers,
                      a.verdict = "invalid",
                      ~(Backend = "postgres" /\ sub[s].pc = "lookup"),
                      a.flag \in issued, a.flag.prefix = prefix,
                      a.flag.tick = CurrentTick, sub[s].cur # 0, a.flag.owner # sub[s].team,
                      match.state = "running", ~Blocked(a.flag.chal, CurrentTick)
               PROVE  FALSE
    OBVIOUS
  <2>0. /\ sub \in [Submitters -> Request] /\ CurrentTick \in Nat
        /\ sub[s].cur \in Nat /\ sub[s].cur <= CurrentTick
    BY DEF SubTypeOK, Request, Answers, CurrentTick, TickTypeOK, AnswerInv
  <2>1. ASSUME NEW q \in Submitters, NEW f, NEW v, Judged(q, f, v)
        PROVE  q = s /\ f = a.flag /\ v = "invalid"
    <3>1. q = s /\ a = Answer(f, v)
      BY <2>0, <2>1, JudgedAnswers
    <3> QED BY <3>1 DEF Answer
  <2>2. Parses(a.flag, sub[s].cur, sub[s].team) /\ StillValid(a.flag)
    BY <2>0 DEF Parses, StillValid, ExpiresTick
  <2>3. PICK q \in Submitters, f \in Flags :
          \/ Judged(q, f, "duplicate")
          \/ Judged(q, f, "accepted")
          \/ /\ Judged(q, f, "invalid")
             /\ \/ ~Parses(f, sub[q].cur, sub[q].team)
                \/ f \notin issued \/ Blocked(f.chal, CurrentTick)
                \/ Backend = "postgres" /\ sub[q].pc = "lookup"
                \/ ~StillValid(f)
    BY RequestSteps DEF IdleSub
  <2>4. ~Judged(q, f, "duplicate") /\ ~Judged(q, f, "accepted")
    BY <2>1
  <2>5. q = s /\ f = a.flag
    BY <2>1, <2>3
  <2> QED
    BY <2>2, <2>3, <2>4, <2>5
<1> QED
  BY <1>1, EngineInside, TickTypeCorrect, SubTypeCorrect, AnswersAreTrue, PTL
     DEF AllSpec, ValidFlagNotRefused

\* No capture is booked for a challenge that is out of play when it is booked.
THEOREM NoneInMaintenance == AllSpec => NoCaptureInMaintenance
<1>1. [AllNext]_allVars
      => [\A a \in accepted' \ accepted : ~Blocked(a.flag.chal, CurrentTick)]_allVars
  <2> SUFFICES ASSUME NEW s \in Submitters, SubAccepts(s), NEW a \in accepted' \ accepted
               PROVE  ~Blocked(a.flag.chal, CurrentTick)
    BY RecordSteps
  <2>1. a = Pair(sub[s].flag, sub[s].team)
    BY DEF SubAccepts
  <2> QED BY <2>1 DEF SubAccepts, StillValid, Pair
<1> QED
  BY <1>1, PTL DEF AllSpec, NoCaptureInMaintenance

-----------------------------------------------------------------------------
(* The refinement.                                                         *)

\* The variables of the abstract game, as the code holds them.
GameView == <<CurrentTick, TickRunning, match.state = "running", issued, accepted>>

\* The system implements the abstract game: every behaviour of ticks, flags
\* and captures is one that FlagGame allows.
THEOREM Implements == AllSpec => ImplementsFlagGame
<1>1. AllInit => Game!GameInit
  BY DEF AllInit, EngineInit, MatchInit, TickInit, SubInit, Game!GameInit, CurrentTick, TickRunning
<1>2. /\ TickTypeOK /\ OneTickAtATime /\ WorkInRun /\ FlagInv /\ SubTypeOK /\ SubInv
      /\ [AllNext]_allVars
      => [Game!GameNext]_(Game!gameVars)
  <2> SUFFICES ASSUME TickTypeOK, OneTickAtATime, WorkInRun, FlagInv, SubTypeOK, SubInv,
                      [AllNext]_allVars
               PROVE  Game!GameNext \/ UNCHANGED GameView
    BY DEF GameView, Game!gameVars
  <2> DEFINE Goal == Game!GameNext \/ UNCHANGED GameView
  <2>0. /\ ticks \in Seq(Status) /\ adv \in [Advancers -> Call] /\ CurrentTick \in Nat
        /\ sub \in [Submitters -> Request]
    BY DEF TickTypeOK, Status, Call, Work, CurrentTick, SubTypeOK, Request, Answers
  <2>1. CASE MatchStep /\ UNCHANGED <<tickVars, subVars>>
    <3>1. UNCHANGED <<CurrentTick, TickRunning, issued, accepted>>
      BY <2>1 DEF tickVars, subVars, CurrentTick, TickRunning
    <3>2. Game!MatchMoves
      BY <3>1 DEF Game!MatchMoves
    <3> QED BY <3>2 DEF Game!GameNext
  <2>2. ASSUME NEW p \in Advancers, TickStarts(p), UNCHANGED subVars PROVE Goal
    <3>1. /\ ~TickRunning /\ CurrentTick' = CurrentTick + 1 /\ TickRunning'
          /\ UNCHANGED <<match, issued, accepted>>
      BY <2>0, <2>2 DEF TickStarts, TickMayStart, CurrentTick, TickRunning, subVars, matchVars
    <3>2. Game!TickBegins
      BY <3>1 DEF Game!TickBegins
    <3> QED BY <3>2 DEF Game!GameNext
  <2>3. ASSUME NEW p \in Advancers, TickCompletes(p), UNCHANGED subVars PROVE Goal
    <3>1. TickRunning /\ adv[p].tick = CurrentTick
      BY <2>3 DEF TickCompletes, OneTickAtATime, Owns
    <3>2. Outcome(p) \in Status /\ Outcome(p) # "running"
      BY DEF Outcome, Status
    <3>3. CurrentTick' = CurrentTick /\ UNCHANGED <<match, issued, accepted>>
      BY <2>0, <2>3, <3>2, TickRewritten DEF TickCompletes, CurrentTick, subVars, matchVars
    <3>4. ~TickRunning'
      BY <2>0, <2>3, <3>1, <3>2, <3>3 DEF TickCompletes, TickRunning, CurrentTick
    <3>5. Game!TickEnds
      BY <3>1, <3>3, <3>4 DEF Game!TickEnds
    <3> QED BY <3>5 DEF Game!GameNext
  <2>4. ASSUME NEW p \in Advancers, NEW t \in Targets, FlagIssued(p, t), UNCHANGED subVars
        PROVE Goal
    <3> DEFINE f == FlagOf(t, adv[p].tick, adv[p].work[t].pfx)
    <3>1. Owns(p) /\ adv[p].tick = CurrentTick /\ TickRunning /\ adv[p].work[t].st = "put"
      BY <2>4 DEF FlagIssued, WorkInRun, OneTickAtATime, Owns
    <3>2. \A g \in issued : ~IsFlagOf(g, t, adv[p].tick)
      BY <3>1 DEF FlagInv, NotYetIssued
    <3>3. /\ f = [owner |-> t[1], chal |-> t[2], tick |-> CurrentTick, prefix |-> adv[p].work[t].pfx]
          /\ t[1] \in Teams /\ t[2] \in Challenges /\ adv[p].work[t].pfx \in Prefixes
      BY <2>0, <3>1, TickAssumption DEF FlagOf, Targets, Call, Work
    <3>4. \A g \in issued : Game!Service(g) # Game!Service(f)
      BY <3>1, <3>2, <3>3 DEF Game!Service, IsFlagOf
    <3>5. /\ UNCHANGED <<CurrentTick, TickRunning, match, accepted>>
          /\ issued' = issued \union {f}
      BY <2>4 DEF FlagIssued, CurrentTick, TickRunning, subVars, matchVars
    <3>6. Game!Publish(f)
      BY <3>1, <3>3, <3>4, <3>5 DEF Game!Publish
    <3> QED BY <3>3, <3>6 DEF Game!GameNext
  <2>5. ASSUME NEW p \in Advancers, AdvanceBegins(p) \/ AutoTickBegins(p), UNCHANGED subVars
        PROVE Goal
    BY <2>5 DEF AdvanceBegins, AutoTickBegins, GameView, CurrentTick, TickRunning, matchVars, subVars
  <2>6. ASSUME NEW p \in Advancers, UNCHANGED subVars,
               \/ TickRefused(p) \/ TargetsListed(p) \/ ListingFails(p) \/ WorkersDone(p)
               \/ CompletionFails(p) \/ ContextCancelled(p) \/ DeadlineExceeded(p)
        PROVE Goal
    BY <2>6 DEF TickRefused, TargetsListed, ListingFails, WorkersDone, CompletionFails,
                ContextCancelled, DeadlineExceeded, GameView, CurrentTick, TickRunning,
                matchVars, subVars
  <2>7. ASSUME NEW p \in Advancers, NEW t \in Targets, UNCHANGED subVars,
               \/ Plant(p, t) \/ PutRecorded(p, t) \/ PutFailed(p, t)
               \/ RestRecorded(p, t) \/ TargetFails(p, t)
        PROVE Goal
    BY <2>7 DEF Plant, PutRecorded, PutFailed, RestRecorded, TargetFails, GameView,
                CurrentTick, TickRunning, matchVars, subVars
  <2>8. ASSUME NEW c \in Maintained, UNCHANGED subVars,
               MaintenanceBegins(c) \/ ResumeReads(c) \/ ResumeWrites(c)
        PROVE Goal
    BY <2>8 DEF MaintenanceBegins, ResumeReads, ResumeWrites, GameView, CurrentTick,
                TickRunning, matchVars, subVars
  <2>9. CASE PrefixReloaded /\ UNCHANGED subVars
    BY <2>9 DEF PrefixReloaded, GameView, CurrentTick, TickRunning, matchVars, subVars
  <2>10. ASSUME NEW s \in Submitters, SubAccepts(s) PROVE Goal
    <3> DEFINE f == sub[s].flag
    <3>1. f \in issued /\ f.owner # sub[s].team /\ sub[s].team \in Teams /\ f.tick \in Nat
      BY <2>0, <2>10 DEF SubAccepts, SubInv, Request, Flags
    <3>2. f.tick = CurrentTick
      BY <2>0, <2>10, <3>1 DEF SubAccepts, StillValid, ExpiresTick, FlagInv, FlagsOfPastTicks
    <3>3. /\ match.state = "running" /\ Pair(f, sub[s].team) \notin accepted
          /\ accepted' = accepted \union {Pair(f, sub[s].team)}
          /\ UNCHANGED <<CurrentTick, TickRunning, match, issued>>
      BY <2>10 DEF SubAccepts, StillValid, AlreadyAccepted, engineVars, matchVars, tickVars,
                   CurrentTick, TickRunning
    <3>4. Game!Capture(sub[s].team, f)
      BY <3>1, <3>2, <3>3 DEF Game!Capture, Pair
    <3> QED BY <3>1, <3>4 DEF Game!GameNext
  <2>11. ASSUME NEW s \in Submitters,
                \/ SubBegins(s) \/ SubReadsTick(s) \/ SubLooksUp(s) \/ SubLookupErrs(s)
                \/ SubReadsMaintenance(s) \/ SubRefused(s)
                \/ SubDuplicate(s) \/ SubEnds(s) \/ SubLost(s) \/ \E f \in Candidates : SubJudges(s, f)
         PROVE Goal
    BY <2>11 DEF SubBegins, SubReadsTick, SubLooksUp, SubLookupErrs, SubReadsMaintenance, SubRefused,
                 SubDuplicate, SubEnds, SubLost, SubJudges,
                 GameView, CurrentTick, TickRunning, engineVars, matchVars, tickVars
  <2>12. CASE GameCoreCrash
    <3>1. UNCHANGED <<match, issued, accepted>>
      BY <2>12 DEF GameCoreCrash, Crash, MatchCrash
    <3>2. ticks' \in [1 .. Len(ticks) -> Status \ {"running"}]
      BY <2>0, <2>12 DEF GameCoreCrash, Crash, Reap, Status
    <3>3. CurrentTick' = CurrentTick
      BY <2>0, <3>2, TicksRewritten DEF CurrentTick
    <3>4. ~TickRunning'
      BY <2>0, <3>2, <3>3 DEF TickRunning, CurrentTick
    <3>5. CASE TickRunning
      <4>1. Game!TickEnds
        BY <3>1, <3>3, <3>4, <3>5 DEF Game!TickEnds
      <4> QED BY <4>1 DEF Game!GameNext
    <3>6. CASE ~TickRunning
      <4>1. TickRunning' = TickRunning
        BY <3>4, <3>6 DEF TickRunning
      <4> QED BY <3>1, <3>3, <4>1 DEF GameView
    <3> QED BY <3>5, <3>6
  <2>13. CASE UNCHANGED allVars
    BY <2>13 DEF allVars, engineVars, matchVars, tickVars, subVars, GameView, CurrentTick, TickRunning
  <2> QED
    BY <2>1, <2>2, <2>3, <2>4, <2>5, <2>6, <2>7, <2>8, <2>9, <2>10, <2>11, <2>12, <2>13
       DEF AllNext, SubStep, TickStep, AdvanceStep
<1> QED
  BY <1>1, <1>2, EngineInside, TickTypeCorrect, OneTick, WorkersInsideRun, FlagInvariant,
     SubTypeCorrect, JudgedFlags, PTL DEF AllSpec, ImplementsFlagGame, Game!GameSpec
=============================================================================
