----------------------------- MODULE ScoreBoard -----------------------------
(***************************************************************************)
(* The stored scoreboard of the Postgres game store and the recomputes     *)
(* that replace it: the debounced one that accepted flags ask for, with    *)
(* its timer, flags and retries, and the direct ones of advanceTick, of    *)
(* the organizer and of a starting process (server.go, store.go, main.go). *)
(*                                                                         *)
(* A board is how many captures each of its two sums over submitted_flags  *)
(* has seen.  The sums are statements of their own, one after the other,   *)
(* and the rows are stored in one transaction.                             *)
(***************************************************************************)
EXTENDS Integers

CONSTANTS Direct,       \* recomputes that do not go through the timer
          Debounced,    \* the recompute that does
          MaxCaptures   \* bound on the captures

ASSUME BoardAssumption ==
    Debounced \notin Direct /\ MaxCaptures \in Nat \ {0}

VARIABLES captures,     \* rows of submitted_flags
          submit,       \* where a batch of submitted flags stands
          owed,         \* captures committed when a recompute was last asked for
          board,        \* scoreboard_entries; late: stored by an overtaken recompute
          scoring,      \* scoringStatus, scoringTimer and the timers nobody can stop
          jobs          \* the recomputes under way

boardVars == <<captures, submit, owed, board, scoring, jobs>>

Recomputes == Direct \union {Debounced}

NoJob == [pc |-> "none", attack |-> 0, defense |-> 0, overtaken |-> FALSE]

\* timer: scoringTimer is set and has not fired.  due: callbacks that will run
\* whatever happens, fired already or no longer reachable from scoringTimer.
AtRest == [pending |-> FALSE, inflight |-> FALSE, timer |-> FALSE, due |-> 0]

Covers(b, n) == b.attack >= n /\ b.defense >= n

-----------------------------------------------------------------------------
(* Submissions.                                                            *)

\* AcceptFlagSubmission commits a capture, one of the batch.
SubmitAccepts ==
    /\ submit # "closed" /\ captures < MaxCaptures
    /\ captures' = captures + 1 /\ submit' = "accepted"
    /\ UNCHANGED <<owed, board, scoring, jobs>>

ScheduledDropped(s) ==                          \* mutant: the recompute in flight is trusted
    IF s.inflight THEN s ELSE [s EXCEPT !.pending = TRUE, !.timer = TRUE]

\* scheduleScoreboardRecompute: the timer before this one is stopped, if it can be.
Schedule(s) == [s EXCEPT !.pending = TRUE, !.timer = s.timer \/ ~s.inflight]

SubmitReturns ==
    /\ submit = "accepted" /\ submit' = "none"
    /\ scoring' = Schedule(scoring) /\ owed' = captures
    /\ UNCHANGED <<captures, board, jobs>>

\* A store error at a later flag of the batch: nothing is scheduled.
SubmitFails ==
    /\ submit = "accepted" /\ submit' = "none"
    /\ UNCHANGED <<captures, owed, board, scoring, jobs>>

-----------------------------------------------------------------------------
(* The timer.                                                              *)

TimerFires ==
    /\ scoring.timer
    /\ scoring' = [scoring EXCEPT !.timer = FALSE, !.due = @ + 1]
    /\ UNCHANGED <<captures, submit, owed, board, jobs>>

\* runScheduledScoreboardRecompute up to its unlock.  It forgets scoringTimer
\* without stopping it: one that was set meanwhile fires all the same.
CallbackRuns ==
    /\ scoring.due > 0
    /\ IF scoring.inflight
       THEN /\ scoring' = [scoring EXCEPT !.pending = TRUE, !.due = @ - 1]
            /\ UNCHANGED jobs
       ELSE /\ scoring' = [pending |-> FALSE, inflight |-> TRUE, timer |-> FALSE,
                           due |-> IF scoring.timer THEN scoring.due ELSE scoring.due - 1]
            /\ jobs' = [jobs EXCEPT ![Debounced] = [NoJob EXCEPT !.pc = "begun"]]
    /\ UNCHANGED <<captures, submit, owed, board>>

FinishGivesUp(s, failed) ==                     \* mutant: an error is not tried again
    [s EXCEPT !.inflight = FALSE, !.timer = s.timer \/ (s.pending /\ ~failed)]

\* Its second critical section: it starts over after an error, and when it was asked to.
Finish(s, failed) ==
    LET again == failed \/ s.pending
    IN [s EXCEPT !.inflight = FALSE, !.pending = again, !.timer = s.timer \/ again]

-----------------------------------------------------------------------------
(* buildScoreboard.                                                        *)

\* advanceTick after CompleteTick, and POST /scoring/recompute, start at any time.
DirectBegins(p) ==
    /\ p \in Direct /\ jobs[p] = NoJob
    /\ jobs' = [jobs EXCEPT ![p].pc = "begun"]
    /\ UNCHANGED <<captures, submit, owed, board, scoring>>

SumsAttack(p) ==
    /\ jobs[p].pc = "begun"
    /\ jobs' = [jobs EXCEPT ![p].pc = "attack", ![p].attack = captures]
    /\ UNCHANGED <<captures, submit, owed, board, scoring>>

SumsDefense(p) ==
    /\ jobs[p].pc = "attack"
    /\ jobs' = [jobs EXCEPT ![p].pc = "defense", ![p].defense = captures]
    /\ UNCHANGED <<captures, submit, owed, board, scoring>>

\* The transaction.  Whoever is still building a board has been overtaken.
StoresBoard(p) ==
    /\ jobs[p].pc = "defense"
    /\ board' = [attack |-> jobs[p].attack, defense |-> jobs[p].defense,
                 late |-> jobs[p].overtaken]
    /\ jobs' = [q \in Recomputes |->
                  IF q = p THEN [NoJob EXCEPT !.pc = IF p = Debounced THEN "stored" ELSE "none"]
                  ELSE IF jobs[q].pc \in {"begun", "attack", "defense"}
                       THEN [jobs[q] EXCEPT !.overtaken = TRUE] ELSE jobs[q]]
    /\ UNCHANGED <<captures, submit, owed, scoring>>

\* A database error, a timeout (also one that the commit has outrun), or a
\* caller that went away.
JobFails(p) ==
    /\ jobs[p].pc # "none"
    /\ jobs' = [jobs EXCEPT ![p] = NoJob]
    /\ scoring' = IF p = Debounced THEN Finish(scoring, TRUE) ELSE scoring
    /\ UNCHANGED <<captures, submit, owed, board>>

DebouncedFinishes ==
    /\ jobs[Debounced].pc = "stored"
    /\ jobs' = [jobs EXCEPT ![Debounced] = NoJob]
    /\ scoring' = Finish(scoring, FALSE)
    /\ UNCHANGED <<captures, submit, owed, board>>

-----------------------------------------------------------------------------
\* game-core dies and starts again: recomputeScoreboardOnStartup has stored a
\* board before anything else runs (it does not come up otherwise).
BoardRestart ==
    /\ submit # "closed"
    /\ board' = [attack |-> captures, defense |-> captures, late |-> FALSE]
    /\ submit' = "none" /\ scoring' = AtRest
    /\ jobs' = [p \in Recomputes |-> NoJob]
    /\ UNCHANGED <<captures, owed>>

\* The platform is up, with a board of nothing; or this part is left out.
BoardStart(on) ==
    /\ captures = 0 /\ owed = 0 /\ scoring = AtRest
    /\ submit = IF on THEN "none" ELSE "closed"
    /\ board = [attack |-> 0, defense |-> 0, late |-> FALSE]
    /\ jobs = [p \in Recomputes |-> NoJob]

BoardNext ==
    /\ submit # "closed"
    /\ \/ SubmitAccepts \/ SubmitReturns \/ SubmitFails
       \/ TimerFires \/ CallbackRuns \/ DebouncedFinishes
       \/ \E p \in Recomputes : DirectBegins(p) \/ SumsAttack(p) \/ SumsDefense(p)
                                  \/ StoresBoard(p) \/ JobFails(p)
       \/ BoardRestart

-----------------------------------------------------------------------------
(* Properties.                                                             *)

\* Type invariant of the scoreboard and its recomputes.
BoardTypeOK ==
    /\ captures \in 0..MaxCaptures /\ owed \in 0..captures
    /\ submit \in {"closed", "none", "accepted"}
    /\ board \in [attack : 0..MaxCaptures, defense : 0..MaxCaptures, late : BOOLEAN]
    /\ scoring \in [pending : BOOLEAN, inflight : BOOLEAN, timer : BOOLEAN, due : Nat]
    /\ jobs \in [Recomputes -> [pc : {"none", "begun", "attack", "defense", "stored"},
                                attack : 0..MaxCaptures, defense : 0..MaxCaptures,
                                overtaken : BOOLEAN]]

\* No wakeup is lost and no board is left behind: what is pending with nothing
\* in flight has a timer that will see to it; and with nothing pending or in
\* flight, the stored board has every capture a recompute was asked for, unless
\* the recompute that stored it was overtaken by another (which nothing repairs
\* before the next one).
NoRecomputeIsLost ==
    /\ (scoring.pending /\ ~scoring.inflight) => (scoring.timer \/ scoring.due > 0)
    /\ scoring.inflight <=> jobs[Debounced].pc # "none"
    /\ (~scoring.pending /\ ~scoring.inflight) => (Covers(board, owed) \/ board.late)

\* The stored board gets to every capture of the batches that were answered,
\* whatever the recompute fails at and whatever comes in while it runs (there
\* are finitely many), unless scoring has come to rest on the board of a
\* recompute that was overtaken.
BoardCatchesUp ==
    []<>(\/ Covers(board, owed)
         \/ board.late /\ ~scoring.pending /\ ~scoring.inflight)
=============================================================================
