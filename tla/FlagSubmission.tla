--------------------------- MODULE FlagSubmission ---------------------------
(***************************************************************************)
(* Flag submission: submitFlags of game-core runs beside the tick engine,  *)
(* the match lifecycle and the organizer's maintenance (server.go,         *)
(* store.go, flags.go in services/game-core).                              *)
(*                                                                         *)
(* A request reads the match, then the current tick, then judges its flags *)
(* one by one; the flags of a batch are chosen as the loop gets to them.   *)
(* AcceptFlagSubmission holds the tick-table lock and the match row (the   *)
(* mutex in the memory store), so it is one step; its read of the          *)
(* challenge is not locked, and maintenance that begins between that read  *)
(* and the commit counts as beginning after the submission.                *)
(***************************************************************************)
EXTENDS TickEngine

CONSTANTS Submitters,   \* concurrent submission requests
          MaxBatch,     \* bound on the flags of a request
          MaxRequests   \* bound on the answered requests, after which no new one begins

ASSUME SubmissionAssumption ==
    /\ MaxBatch \in Nat /\ MaxRequests \in Nat
    /\ Teams # {} /\ Challenges # {}

VARIABLES sub,        \* the submitFlags calls
          accepted,   \* submitted_flags: the pairs of flag and team
          events,     \* attack_events, oldest first
          served      \* requests answered so far (bound)

subVars == <<sub, accepted, events, served>>
allVars == <<engineVars, subVars>>

\* Candidate flags: the ones a checker may plant, and those of the warmup (tick 0).
Candidates == [owner : Owners, chal : Challenges, tick : 0 .. MaxTick, prefix : Prefixes]

Verdicts == {"accepted", "duplicate", "invalid"}

NoFlag == [owner |-> CHOOSE t \in Teams : TRUE, chal |-> CHOOSE c \in Challenges : TRUE,
           tick |-> 0, prefix |-> EnvPrefix]

IdleSub == [pc |-> "idle", team |-> NoFlag.owner, cur |-> 0, flag |-> NoFlag,
            answers |-> {}, n |-> 0]

\* The answers of a request so far, as pairs of flag and verdict.
Answer(f, v) == [flag |-> f, verdict |-> v]
Seen(s) == {a.flag : a \in sub[s].answers}

Pair(f, team) == [flag |-> f, team |-> team]

-----------------------------------------------------------------------------
\* A flag is issued for one tick: issueFlag(team, challenge, tick, tick).
ExpiresTick(f) == f.tick

\* The flag's claims pass: signed under the current prefix, not expired by the
\* tick read at the beginning, and not the submitter's own.
\* mutant: a flag is refused in its last tick already
ParsesUntilExpiry(f, cur, team) ==
    f.prefix = prefix /\ cur # 0 /\ cur < ExpiresTick(f) /\ f.owner # team
Parses(f, cur, team) ==
    /\ f.prefix = prefix
    /\ cur # 0 /\ cur <= ExpiresTick(f)
    /\ f.owner # team

\* AcceptFlagSubmission's own conditions, under its locks.
StillValidAnyTick(f) == match.state = "running" /\ ~Blocked(f.chal, CurrentTick) \* mutant: tick not re-read
StillValidAnyState(f) ==                             \* mutant: match not re-read
    CurrentTick # 0 /\ CurrentTick <= ExpiresTick(f) /\ ~Blocked(f.chal, CurrentTick)
StillValidMaintained(f) ==                           \* mutant: maintenance not re-read
    match.state = "running" /\ CurrentTick # 0 /\ CurrentTick <= ExpiresTick(f)
StillValid(f) ==
    /\ match.state = "running"
    /\ CurrentTick # 0 /\ CurrentTick <= ExpiresTick(f)
    /\ ~Blocked(f.chal, CurrentTick)

-----------------------------------------------------------------------------
SubInit ==
    /\ sub = [s \in Submitters |-> IdleSub]
    /\ accepted = {}
    /\ events = <<>>
    /\ served = 0

\* submitFlags refuses the whole batch unless the match effectively runs.
SubBegins(s) ==
    /\ sub[s].pc = "idle"
    /\ served < MaxRequests
    /\ EffectiveState = "running"
    /\ \E t \in Teams : sub' = [sub EXCEPT ![s].pc = "tick", ![s].team = t]
    /\ UNCHANGED <<engineVars, accepted, events, served>>

\* GameStatus: the current tick as this request will see it from now on.
SubReadsTick(s) ==
    /\ sub[s].pc = "tick"
    /\ sub' = [sub EXCEPT ![s].pc = "loop", ![s].cur = CurrentTick]
    /\ UNCHANGED <<engineVars, accepted, events, served>>

Judged(s, f, v) ==
    sub' = [sub EXCEPT ![s].pc = "loop", ![s].flag = NoFlag, ![s].n = @ + 1,
                       ![s].answers = @ \union {Answer(f, v)}]

\* The next flag of the batch: a repetition, a flag that does not pass, or one to look up.
SubJudges(s, f) ==
    /\ sub[s].pc = "loop"
    /\ sub[s].n < MaxBatch
    /\ \/ f \in Seen(s) /\ Judged(s, f, "duplicate")
       \/ f \notin Seen(s) /\ ~Parses(f, sub[s].cur, sub[s].team) /\ Judged(s, f, "invalid")
       \/ f \notin Seen(s) /\ Parses(f, sub[s].cur, sub[s].team)
          /\ sub' = [sub EXCEPT ![s].pc = "lookup", ![s].flag = f]
    /\ UNCHANGED <<engineVars, accepted, events, served>>

\* LookupIssuedFlag: only a flag on record is judged further ...
SubLooksUp(s) ==
    /\ sub[s].pc = "lookup"
    /\ IF sub[s].flag \in issued
       THEN sub' = [sub EXCEPT ![s].pc = "maint"]
       ELSE Judged(s, sub[s].flag, "invalid")
    /\ UNCHANGED <<engineVars, accepted, events, served>>

\* ... and a lookup that errs is answered as if there were no such flag: the
\* batch goes on with the next one.
SubLookupErrs(s) ==
    /\ Backend = "postgres" /\ sub[s].pc = "lookup"
    /\ Judged(s, sub[s].flag, "invalid")
    /\ UNCHANGED <<engineVars, accepted, events, served>>

\* IsChallengeInMaintenance, read on its own (its errors end the request, SubLost).
SubReadsMaintenance(s) ==
    /\ sub[s].pc = "maint"
    /\ IF Blocked(sub[s].flag.chal, CurrentTick)
       THEN Judged(s, sub[s].flag, "invalid")
       ELSE sub' = [sub EXCEPT ![s].pc = "accept"]
    /\ UNCHANGED <<engineVars, accepted, events, served>>

RefusalVerdictSwapped == "accepted"                  \* mutant: errFlagNoLongerValid taken for success
RefusalVerdict == "invalid"

\* AcceptFlagSubmission refuses: the world changed since the checks above.
SubRefused(s) ==
    /\ sub[s].pc = "accept"
    /\ ~StillValid(sub[s].flag)
    /\ Judged(s, sub[s].flag, RefusalVerdict)
    /\ UNCHANGED <<engineVars, accepted, events, served>>

\* ... finds the pair recorded already (ON CONFLICT DO NOTHING) ...
AlreadyAcceptedNever(f, team) == FALSE               \* mutant: no conflict target
AlreadyAccepted(f, team) == Pair(f, team) \in accepted

SubDuplicate(s) ==
    /\ sub[s].pc = "accept"
    /\ StillValid(sub[s].flag)
    /\ AlreadyAccepted(sub[s].flag, sub[s].team)
    /\ Judged(s, sub[s].flag, "duplicate")
    /\ UNCHANGED <<engineVars, accepted, events, served>>

\* ... or records the pair and its attack event, in one transaction.
SubAccepts(s) ==
    /\ sub[s].pc = "accept"
    /\ LET f == sub[s].flag IN
         /\ StillValid(f)
         /\ ~AlreadyAccepted(f, sub[s].team)
         /\ accepted' = accepted \union {Pair(f, sub[s].team)}
         /\ events' = Append(events, [flag |-> f, team |-> sub[s].team, tick |-> CurrentTick])
         /\ Judged(s, f, "accepted")
    /\ UNCHANGED <<engineVars, served>>

\* The batch is answered.
SubEnds(s) ==
    /\ sub[s].pc = "loop"
    /\ sub' = [sub EXCEPT ![s] = IdleSub]
    /\ served' = served + 1
    /\ UNCHANGED <<engineVars, accepted, events>>

\* A store error or a client that went away ends it early; what was recorded stays.
SubLost(s) ==
    /\ Backend = "postgres" /\ sub[s].pc # "idle"
    /\ sub' = [sub EXCEPT ![s] = IdleSub]
    /\ UNCHANGED <<engineVars, accepted, events, served>>

\* game-core dies: its requests are gone (the client may send the batch again).
GameCoreCrash ==
    /\ Crash
    /\ sub' = [s \in Submitters |-> IdleSub]
    /\ UNCHANGED <<accepted, events, served>>

-----------------------------------------------------------------------------
SubStep(s) ==
    \/ SubBegins(s) \/ SubReadsTick(s)
    \/ \E f \in Candidates : SubJudges(s, f)
    \/ SubLooksUp(s) \/ SubLookupErrs(s) \/ SubReadsMaintenance(s)
    \/ SubRefused(s) \/ SubDuplicate(s) \/ SubAccepts(s)
    \/ SubEnds(s) \/ SubLost(s)

AllInit == EngineInit /\ SubInit

AllNext ==
    \/ MatchStep /\ UNCHANGED <<tickVars, subVars>>
    \/ TickStep /\ UNCHANGED subVars
    \/ \E s \in Submitters : SubStep(s)
    \/ GameCoreCrash

AllSpec == AllInit /\ [][AllNext]_allVars

-----------------------------------------------------------------------------
(* Properties.                                                             *)

\* Type invariant of the submission variables.
SubTypeOK ==
    /\ sub \in [Submitters -> [pc : {"idle", "tick", "loop", "lookup", "maint", "accept"},
                               team : Teams, cur : Nat, flag : Flags,
                               answers : SUBSET [flag : Flags, verdict : Verdicts], n : Nat]]
    /\ accepted \subseteq [flag : Flags, team : Teams]
    /\ events \in Seq([flag : Flags, team : Teams, tick : Nat])
    /\ served \in Nat

\* The attack events and the accepted pairs are the same captures, each once:
\* a batch sent again, or the same flag in two concurrent requests, scores once.
OneEventPerCapture ==
    /\ \A i, j \in 1 .. Len(events) :
         (events[i].flag = events[j].flag /\ events[i].team = events[j].team) => i = j
    /\ accepted = {Pair(events[i].flag, events[i].team) : i \in 1 .. Len(events)}

\* A capture is booked in the flag's own tick, although the request read the
\* current tick before it judged the flag and ticks may have started since.
CapturedInItsTick == \A i \in 1 .. Len(events) : events[i].tick = events[i].flag.tick

\* What a team is told agrees with the record: "accepted" only for a pair on
\* record, and "duplicate" only for one on record or for the repetition of a
\* flag that the same batch was told is invalid.
AnswersMatchRecord ==
    \A s \in Submitters : \A a \in sub[s].answers :
        \/ a.verdict = "invalid"
        \/ Pair(a.flag, sub[s].team) \in accepted
        \/ a.verdict = "duplicate" /\ Answer(a.flag, "invalid") \in sub[s].answers

\* The flag and its rules as FlagGame states them: captures are of issued
\* flags, by another team, in the flag's tick, while the stored match runs.
Game == INSTANCE FlagGame WITH
    tick <- CurrentTick,
    live <- TickRunning,
    open <- match.state = "running",
    flags <- issued,
    captures <- accepted

ImplementsFlagGame == Game!GameSpec

\* No submission is accepted for a challenge under maintenance or not yet
\* back in play.
NoCaptureInMaintenance ==
    [][\A a \in accepted' \ accepted : ~Blocked(a.flag.chal, CurrentTick)]_allVars

\* A flag is valid through the end of its tick: nobody is told "invalid" for
\* another team's flag that is on record under the present prefix, current and
\* in play, while the match runs. Excepted are a request that began before the
\* first tick, and, with Postgres only, the answer of the lookup itself, which
\* an error of the store makes "invalid"; no later step refuses such a flag.
ValidFlagNotRefused ==
    [][\A s \in Submitters : \A a \in sub'[s].answers \ sub[s].answers :
          a.verdict = "invalid" =>
            ~ /\ ~(Backend = "postgres" /\ sub[s].pc = "lookup")
              /\ a.flag \in issued /\ a.flag.prefix = prefix
              /\ a.flag.tick = CurrentTick /\ sub[s].cur # 0
              /\ a.flag.owner # sub[s].team
              /\ match.state = "running"
              /\ ~Blocked(a.flag.chal, CurrentTick)]_allVars
=============================================================================
