--------------------------- MODULE MatchLifecycle ---------------------------
(***************************************************************************)
(* What the organizer is promised about a match, abstractly: it is started *)
(* (again after a pause), paused only while it runs, resumed only from a   *)
(* pause, and stopped once and for all, which is when it has an end.       *)
(***************************************************************************)
EXTENDS Integers

VARIABLES state,    \* "not_started", "running", "paused" or "finished"
          starts,   \* how often it was started
          ended     \* it has an end

lifeVars == <<state, starts, ended>>

LifeInit == state = "not_started" /\ starts = 0 /\ ended = FALSE

Start ==
    /\ state \in {"not_started", "paused"}
    /\ state' = "running"
    /\ starts' = starts + 1
    /\ UNCHANGED ended

Pause ==
    /\ state = "running"
    /\ state' = "paused"
    /\ UNCHANGED <<starts, ended>>

Resume ==
    /\ state = "paused"
    /\ state' = "running"
    /\ UNCHANGED <<starts, ended>>

Stop ==
    /\ state # "finished"
    /\ state' = "finished"
    /\ ended' = TRUE
    /\ UNCHANGED starts

LifeNext == Start \/ Pause \/ Resume \/ Stop

LifeSpec == LifeInit /\ [][LifeNext]_lifeVars
=============================================================================
