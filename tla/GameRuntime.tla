---------------------------- MODULE GameRuntime ----------------------------
(***************************************************************************)
(* game-core on Postgres outside its ticks: the match row under several    *)
(* organizers, the scheduler and the monitor beside one organizer, and the *)
(* stored scoreboard.  The scoreboard reads nothing of the match and the   *)
(* match nothing of it, so a behaviour is one of the three and not their   *)
(* product.                                                                *)
(***************************************************************************)
EXTENDS Scheduler, ScoreBoard

runtimeVars == <<gameVars, boardVars>>

RuntimeInit ==
    /\ MatchInit
    /\ \/ SchedStart(FALSE) /\ BoardStart(FALSE)
       \/ SchedStart(TRUE) /\ BoardStart(FALSE)
       \/ SchedStart(FALSE) /\ BoardStart(TRUE) /\ window = "before"

\* The match row on its own, every request of Requests at work.
MatchAlone == poll.pc = "away" /\ submit = "closed"

RuntimeNext ==
    \/ MatchAlone /\ MatchNext /\ UNCHANGED <<schedVars, boardVars>>
    \/ SchedNext /\ UNCHANGED boardVars
    \/ BoardNext /\ UNCHANGED gameVars

\* A step of the one part that is there.
OfMatch(A) == MatchAlone /\ A /\ UNCHANGED <<schedVars, boardVars>>
OfScheduler(A) == A /\ UNCHANGED boardVars
OfBoard(A) == A /\ UNCHANGED gameVars

\* The monitor polls every second, timers fire and goroutines run.  What fails is
\* tried again, and often enough the database and the controller answer and the
\* process lives on, so that each statement of a poll and of a recompute gets
\* through in the end.  (A behaviour is one of the three: fairness to a disjunction
\* is fairness to the disjunct that is there.)
RuntimeFairness ==
    /\ WF_runtimeVars(\/ OfMatch(RequestStep(Monitor))
                      \/ OfScheduler(MonitorStep)
                      \/ OfBoard(TimerFires))
    /\ WF_runtimeVars(OfBoard(CallbackRuns))
    /\ WF_runtimeVars(OfBoard(DebouncedFinishes))
    /\ SF_runtimeVars(\/ OfMatch(StoreReads(Monitor))
                      \/ OfScheduler(PollGoesOn("store"))
                      \/ OfBoard(SumsAttack(Debounced)))
    /\ SF_runtimeVars(\/ OfMatch(StoreWrites(Monitor))
                      \/ OfScheduler(PollGoesOn("write"))
                      \/ OfBoard(SumsDefense(Debounced)))
    /\ SF_runtimeVars(\/ OfScheduler(PollGoesOn("access"))
                      \/ OfBoard(StoresBoard(Debounced)))
    /\ \A pc \in {"status", "start", "stop"} : SF_runtimeVars(OfScheduler(PollGoesOn(pc)))

RuntimeSpec == RuntimeInit /\ [][RuntimeNext]_runtimeVars /\ RuntimeFairness

\* Type invariant of the three parts.
RuntimeTypeOK == MatchTypeOK /\ SchedTypeOK /\ BoardTypeOK
=============================================================================
