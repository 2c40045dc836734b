----------------------------- MODULE TickEngine -----------------------------
(***************************************************************************)
(* Ticks and flags of game-core: every caller of advanceTick (the interval *)
(* scheduler, POST /ticks/advance, the automatic tick of a match start)    *)
(* with the contexts it runs under, the checker workers of a tick, the     *)
(* game_ticks and issued_flags tables, and the maintenance state of the    *)
(* challenges that api-gateway writes (services/game-core/server.go,       *)
(* store.go, main.go; internal/services/apigateway/store_postgres.go).     *)
(* It is composed with the match lifecycle of MatchState.                  *)
(*                                                                         *)
(* A Postgres statement fails under a context that is cancelled or past    *)
(* its deadline; the memory store ignores contexts.  A target's checker    *)
(* phases are abstracted to its put, which decides about the flag, and the *)
(* rest of the batch.                                                      *)
(***************************************************************************)
EXTENDS MatchState, Sequences

CONSTANTS Teams, Challenges,
          Owners,        \* the teams whose services are deployed (team_service_states)
          Maintained,    \* the challenges that the organizer takes into maintenance and back
          Advancers,     \* concurrent callers of advanceTick
          Cancellable,   \* the ones whose context somebody can cancel (not the automatic tick)
          Prefixes,      \* flag format prefixes the organizer switches between
          EnvPrefix,     \* GAME_CORE_FLAG_FORMAT_PREFIX, the prefix of a fresh process
          StoreMayFail,  \* Postgres statements may fail under a live context too
          MaxTick        \* bound on the number of ticks

ASSUME TickAssumption ==
    /\ Owners \subseteq Teams
    /\ Maintained \subseteq Challenges
    /\ Maintained # {} => Backend = "postgres"   \* api-gateway and game-core share only the database
    /\ Cancellable \subseteq Advancers
    /\ StoreMayFail \in BOOLEAN
    /\ MaxTick \in Nat
    /\ EnvPrefix \in Prefixes

VARIABLES ticks,    \* game_ticks: the status of tick i
          adv,      \* the advanceTick calls
          chal,     \* maintenance, play_from_tick and the tick a resume has read
          puts,     \* checker_runs: the successful put runs, by tick and target
          issued,   \* issued_flags
          prefix    \* the codec's current prefix

tickVars == <<ticks, adv, chal, puts, issued, prefix>>
engineVars == <<matchVars, tickVars>>

Targets == Owners \X Challenges

Flags == [owner : Teams, chal : Challenges, tick : Nat, prefix : Prefixes]

\* A successful put run, as a row of checker_runs.
PutRun(t, tick) == [owner |-> t[1], chal |-> t[2], tick |-> tick]

\* The flag of a target: issueFlag(team, challenge, tick, tick).
FlagOf(t, tick, p) == [owner |-> t[1], chal |-> t[2], tick |-> tick, prefix |-> p]

NoRead == -1

\* No worker has the target: it was not handed out, or is finished.
NoWork == [t \in Targets |-> [st |-> "out", pfx |-> EnvPrefix]]

IdleCall == [pc |-> "idle", tick |-> 0, ctx |-> "live", err |-> FALSE,
             work |-> NoWork]

-----------------------------------------------------------------------------
(* Helpers.                                                                *)

CurrentTick == Len(ticks)

TickRunning == CurrentTick > 0 /\ ticks[CurrentTick] = "running"

\* A challenge out of play: under maintenance, or resumed for a later tick.
Blocked(c, tick) == chal[c].maint \/ chal[c].from > tick

\* The worker context dies with its parent, at the tick deadline and at the
\* first persistence error; CompleteTick uses the parent context.
WorkerDead(p) == adv[p].ctx # "live" \/ adv[p].err
ParentDead(p) == adv[p].ctx = "cancelled"

StoreAnswers(dead) == Backend = "memory" \/ ~dead
StoreErrs(dead) == Backend = "postgres" /\ (dead \/ StoreMayFail)

InFlight(p) == {t \in Targets : adv[p].work[t].st \in {"busy", "put", "rest"}}
Todo(p) == {t \in Targets : adv[p].work[t].st = "todo"}

-----------------------------------------------------------------------------
TickInit ==
    /\ ticks = <<>>
    /\ adv = [p \in Advancers |-> IdleCall]
    /\ chal = [c \in Challenges |-> [maint |-> FALSE, from |-> 0, resume |-> NoRead]]
    /\ puts = {}
    /\ issued = {}
    /\ prefix = EnvPrefix

(* advanceTick *)

\* The scheduler's timer or an organizer calls advanceTick; it reads the
\* effective match state and goes on only if the match runs.
AdvanceBegins(p) ==
    /\ p \in Cancellable
    /\ adv[p].pc = "idle"
    /\ EffectiveState = "running"
    /\ adv' = [adv EXCEPT ![p] = [IdleCall EXCEPT !.pc = "start"]]
    /\ UNCHANGED <<matchVars, ticks, chal, puts, issued, prefix>>

\* The same for the tick owed by a match start, on a detached context.
AutoTickBegins(p) ==
    /\ p \in Advancers \ Cancellable
    /\ autoTicks > 0
    /\ autoTicks' = autoTicks - 1
    /\ adv[p].pc = "idle"
    /\ adv' = IF EffectiveState = "running"
              THEN [adv EXCEPT ![p] = [IdleCall EXCEPT !.pc = "start"]]
              ELSE adv
    /\ UNCHANGED <<match, window, req, ticks, chal, puts, issued, prefix>>

\* mutant: StartNextTick does not look at the last tick
TickMayStartAlways == TRUE
TickMayStart == ~TickRunning

\* StartNextTick appends a running tick under the table lock.
TickStarts(p) ==
    /\ adv[p].pc = "start"
    /\ StoreAnswers(ParentDead(p))
    /\ TickMayStart
    /\ CurrentTick < MaxTick
    /\ ticks' = Append(ticks, "running")
    /\ adv' = [adv EXCEPT ![p].pc = "list", ![p].tick = CurrentTick + 1]
    /\ UNCHANGED <<matchVars, chal, puts, issued, prefix>>

\* ... or answers errTickInProgress or a database error, and the call is over.
TickRefused(p) ==
    /\ adv[p].pc = "start"
    /\ ~TickMayStart \/ StoreErrs(ParentDead(p))
    /\ adv' = [adv EXCEPT ![p] = IdleCall]
    /\ UNCHANGED <<matchVars, ticks, chal, puts, issued, prefix>>

\* ListCheckerTargets: any of the targets may be inactive, unpublished or
\* without a ready instance; those of a blocked challenge are left out.
TargetsListed(p) ==
    /\ adv[p].pc = "list"
    /\ StoreAnswers(ParentDead(p))
    /\ \E ready \in SUBSET Targets :
         adv' = [adv EXCEPT ![p].pc = "run",
                   ![p].work = [t \in Targets |->
                       [@[t] EXCEPT !.st = IF t \in ready /\ ~Blocked(t[2], CurrentTick)
                                           THEN "todo" ELSE "out"]]]
    /\ UNCHANGED <<matchVars, ticks, chal, puts, issued, prefix>>

ListingFails(p) ==
    /\ adv[p].pc = "list"
    /\ StoreErrs(ParentDead(p))
    /\ adv' = [adv EXCEPT ![p].pc = "complete", ![p].err = TRUE]
    /\ UNCHANGED <<matchVars, ticks, chal, puts, issued, prefix>>

(* runCheckerTarget, by one of the workers *)

\* The flag is signed under the current prefix and handed to the checker.
Plant(p, t) ==
    /\ adv[p].pc = "run"
    /\ adv[p].work[t].st = "todo"
    /\ ~WorkerDead(p)
    /\ adv' = [adv EXCEPT ![p].work[t] = [st |-> "busy", pfx |-> prefix]]
    /\ UNCHANGED <<matchVars, ticks, chal, puts, issued, prefix>>

\* The put succeeded and its run is persisted.
PutRecorded(p, t) ==
    /\ adv[p].work[t].st = "busy"
    /\ StoreAnswers(WorkerDead(p))
    /\ puts' = puts \union {PutRun(t, adv[p].tick)}
    /\ adv' = [adv EXCEPT ![p].work[t].st = "put"]
    /\ UNCHANGED <<matchVars, ticks, chal, issued, prefix>>

\* The put failed (or the batch did): a failed run, the other phases skipped.
PutFailed(p, t) ==
    /\ adv[p].work[t].st = "busy"
    /\ StoreAnswers(WorkerDead(p))
    /\ adv' = [adv EXCEPT ![p].work[t] = NoWork[t]]
    /\ UNCHANGED <<matchVars, ticks, chal, puts, issued, prefix>>

\* IssueFlag: only now can the flag be submitted.
FlagIssued(p, t) ==
    /\ adv[p].work[t].st = "put"
    /\ StoreAnswers(WorkerDead(p))
    /\ issued' = issued \union {FlagOf(t, adv[p].tick, adv[p].work[t].pfx)}
    /\ adv' = [adv EXCEPT ![p].work[t].st = "rest"]
    /\ UNCHANGED <<matchVars, ticks, chal, puts, prefix>>

\* The runs of the remaining phases are persisted.
RestRecorded(p, t) ==
    /\ adv[p].work[t].st = "rest"
    /\ StoreAnswers(WorkerDead(p))
    /\ adv' = [adv EXCEPT ![p].work[t] = NoWork[t]]
    /\ UNCHANGED <<matchVars, ticks, chal, puts, issued, prefix>>

\* mutant: a persistence error of one target is dropped
TargetErrorDropped(e) == e
\* A persistence error becomes the error of the whole tick.
TargetError(e) == TRUE

TargetFails(p, t) ==
    /\ t \in InFlight(p)
    /\ StoreErrs(WorkerDead(p))
    /\ adv' = [adv EXCEPT ![p].work[t] = NoWork[t], ![p].err = TargetError(@)]
    /\ UNCHANGED <<matchVars, ticks, chal, puts, issued, prefix>>

\* runCheckerTargets returns: every worker is done and no target is left, or
\* the producer stopped handing them out.
WorkersDone(p) ==
    /\ adv[p].pc = "run"
    /\ InFlight(p) = {}
    /\ Todo(p) = {} \/ WorkerDead(p)
    /\ adv' = [adv EXCEPT ![p].pc = "complete"]
    /\ UNCHANGED <<matchVars, ticks, chal, puts, issued, prefix>>

OutcomeOpen(p) == IF adv[p].err THEN "failed" ELSE "running"         \* mutant: status left alone on success
Outcome(p) == IF adv[p].err THEN "failed" ELSE "completed"

\* CompleteTick stores the outcome.
TickCompletes(p) ==
    /\ adv[p].pc = "complete"
    /\ StoreAnswers(ParentDead(p))
    /\ ticks' = [ticks EXCEPT ![adv[p].tick] = Outcome(p)]
    /\ adv' = [adv EXCEPT ![p] = IdleCall]
    /\ UNCHANGED <<matchVars, chal, puts, issued, prefix>>

\* CompleteTick fails; advanceTick returns and nobody tries again.
CompletionFails(p) ==
    /\ adv[p].pc = "complete"
    /\ StoreErrs(ParentDead(p))
    /\ adv' = [adv EXCEPT ![p] = IdleCall]
    /\ UNCHANGED <<matchVars, ticks, chal, puts, issued, prefix>>

(* The contexts *)

\* scheduler.Stop, .Update or .Close, or the client of POST /ticks/advance is gone.
ContextCancelled(p) ==
    /\ p \in Cancellable
    /\ adv[p].pc # "idle" /\ adv[p].ctx # "cancelled"
    /\ adv' = [adv EXCEPT ![p].ctx = "cancelled"]
    /\ UNCHANGED <<matchVars, ticks, chal, puts, issued, prefix>>

\* GAME_CORE_TICK_TIMEOUT.
DeadlineExceeded(p) ==
    /\ adv[p].pc = "run" /\ adv[p].ctx = "live"
    /\ adv' = [adv EXCEPT ![p].ctx = "expired"]
    /\ UNCHANGED <<matchVars, ticks, chal, puts, issued, prefix>>

(* The organizer, through api-gateway *)

\* SetChallengeMaintenance(true).
MaintenanceBegins(c) ==
    /\ ~chal[c].maint
    /\ chal' = [chal EXCEPT ![c].maint = TRUE, ![c].from = 0]
    /\ UNCHANGED <<matchVars, ticks, adv, puts, issued, prefix>>

\* SetChallengeMaintenance(false) reads the current tick ...
ResumeReads(c) ==
    /\ chal[c].resume = NoRead
    /\ chal' = [chal EXCEPT ![c].resume = CurrentTick]
    /\ UNCHANGED <<matchVars, ticks, adv, puts, issued, prefix>>

\* ... and then puts the challenge back from the tick after it.
ResumeWrites(c) ==
    /\ chal[c].resume # NoRead
    /\ chal' = [chal EXCEPT ![c] = [maint |-> FALSE, resume |-> NoRead,
                    from |-> IF @.resume > 0 THEN @.resume + 1 ELSE 0]]
    /\ UNCHANGED <<matchVars, ticks, adv, puts, issued, prefix>>

\* reloadFlagFormat: flags of the old prefix stop parsing.
PrefixReloaded ==
    /\ \E q \in Prefixes \ {prefix} : prefix' = q
    /\ UNCHANGED <<matchVars, ticks, adv, chal, puts, issued>>

(* Restart *)

\* mutant: the interrupted tick is deleted instead of failed
ReapDeletes(s) == IF TickRunning THEN SubSeq(s, 1, Len(s) - 1) ELSE s
\* ReapRunningTicks, before anything else runs.
Reap(s) == [i \in DOMAIN s |-> IF s[i] = "running" THEN "failed" ELSE s[i]]

\* mutant: the old process still runs when the new one reaps
CallsSurvive == adv
CallsAfterRestart == [p \in Advancers |-> IdleCall]

Crash ==
    /\ MatchCrash
    /\ ticks' = Reap(ticks)
    /\ adv' = CallsAfterRestart
    /\ prefix' = EnvPrefix
    /\ UNCHANGED <<chal, puts, issued>>

-----------------------------------------------------------------------------
\* What an advanceTick call does by itself once it began.
AdvanceStep(p) ==
    \/ TickStarts(p) \/ TickRefused(p)
    \/ TargetsListed(p) \/ ListingFails(p)
    \/ \E t \in Targets : \/ Plant(p, t) \/ PutRecorded(p, t) \/ PutFailed(p, t)
                          \/ FlagIssued(p, t) \/ RestRecorded(p, t) \/ TargetFails(p, t)
    \/ WorkersDone(p)
    \/ TickCompletes(p) \/ CompletionFails(p)

TickStep ==
    \/ \E p \in Advancers :
         \/ AdvanceBegins(p) \/ AutoTickBegins(p) \/ AdvanceStep(p)
         \/ ContextCancelled(p) \/ DeadlineExceeded(p)
    \/ \E c \in Maintained : MaintenanceBegins(c) \/ ResumeReads(c) \/ ResumeWrites(c)
    \/ PrefixReloaded

EngineInit == MatchInit /\ TickInit

EngineNext ==
    \/ MatchStep /\ UNCHANGED tickVars
    \/ TickStep
    \/ Crash

\* Every advanceTick call keeps going: checker calls have a timeout and
\* database statements return.
TickFairness == \A p \in Advancers : WF_engineVars(AdvanceStep(p))

EngineSafety == EngineInit /\ [][EngineNext]_engineVars

EngineSpec == EngineSafety /\ TickFairness
-----------------------------------------------------------------------------
(* Properties.                                                             *)

\* The calls that own a tick: between StartNextTick and CompleteTick.
Owns(p) == adv[p].pc \in {"list", "run", "complete"}

\* Type invariant of the tick variables.
TickTypeOK ==
    /\ ticks \in Seq({"running", "completed", "failed"})
    /\ adv \in [Advancers -> [pc : {"idle", "start", "list", "run", "complete"},
                              tick : Nat, ctx : {"live", "expired", "cancelled"},
                              err : BOOLEAN,
                              work : [Targets -> [st : {"out", "todo", "busy", "put", "rest"},
                                                  pfx : Prefixes]]]]
    /\ chal \in [Challenges -> [maint : BOOLEAN, from : Nat, resume : Nat \union {NoRead}]]
    /\ puts \subseteq [owner : Teams, chal : Challenges, tick : Nat]
    /\ issued \subseteq Flags
    /\ prefix \in Prefixes

\* Only the last tick can be running, and a call that is inside a tick is
\* inside that one and alone there: StartNextTick refuses while a tick runs,
\* however schedulers, organizers, automatic ticks and restarts interleave.
OneTickAtATime ==
    /\ \A i \in 1 .. CurrentTick : ticks[i] = "running" => i = CurrentTick
    /\ \A p \in Advancers : Owns(p) =>
         /\ adv[p].tick = CurrentTick /\ TickRunning
         /\ \A q \in Advancers \ {p} : ~Owns(q)

\* A target gets at most one scoreable flag per tick, across prefix reloads,
\* failed ticks and restarts (defense points are counted per flag).
OneFlagPerTargetTick ==
    \A f, g \in issued :
        (f.owner = g.owner /\ f.chal = g.chal /\ f.tick = g.tick) => f = g

\* In a completed tick every put the checker reported successful has its flag
\* on record: a run persisted without its flag makes the tick fail.
CompletedTickIssuedAll ==
    \A r \in puts : ticks[r.tick] = "completed" =>
        \E f \in issued : f.owner = r.owner /\ f.chal = r.chal /\ f.tick = r.tick

\* Flags appear only while their own tick runs: no late worker of an earlier
\* tick, cancelled or reaped, adds a flag afterwards.
FlagsOnlyInTheirTick ==
    [][\A f \in issued' \ issued : f.tick = CurrentTick /\ TickRunning]_engineVars

\* The outcome of a tick is final: no call completes a tick a second time or
\* one that a restart has reaped.
TickOutcomeFinal ==
    [][\A i \in 1 .. CurrentTick :
          ticks[i] # "running" => (i \in DOMAIN ticks' /\ ticks'[i] = ticks[i])]_engineVars

\* Every tick that starts is finalized: its status leaves "running".
TickFinalized ==
    \A i \in 1 .. MaxTick :
        (i <= CurrentTick /\ ticks[i] = "running") ~> (i <= CurrentTick /\ ticks[i] # "running")

\* Pausing freezes tick advances: no tick starts while the match row is paused.
PauseFreezesTicks ==
    [][CurrentTick' > CurrentTick => match.state # "paused"]_engineVars

\* A resumed challenge comes back with the next tick, whatever tick is
\* current when SetChallengeMaintenance(false) takes effect.
ResumeJoinsNextTick ==
    [][\A c \in Challenges :
          (chal[c].maint /\ ~chal'[c].maint /\ CurrentTick > 0)
              => chal'[c].from = CurrentTick + 1]_engineVars

\* A tick whose checker run exceeds the tick timeout is marked failed.
TimedOutTickFails ==
    [][\A p \in Advancers :
          (adv[p].pc = "complete" /\ adv[p].ctx = "expired" /\ ticks' # ticks)
              => ticks'[adv[p].tick] = "failed"]_engineVars
=============================================================================
