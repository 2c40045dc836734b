-------------------------- MODULE ParticipantPages --------------------------
(***************************************************************************)
(* A participant's browser: the services page, the flag entry on it, the   *)
(* forms of the session, and a live feed (which an organizer's page has    *)
(* too).  They share no state: a lost session is one of the refusals the   *)
(* others meet (Refuse of ServiceDesk, Judge of FlagPanel, a failed        *)
(* request of PagedFeeds).  A behaviour follows one of the four.           *)
(***************************************************************************)
EXTENDS ServiceDesk, PlayerSession, FlagPanel, PagedFeeds

Init ==
    \E part \in {"desk", "session", "flags", "feed"} :
        /\ DeskStart(part = "desk")
        /\ SessionStart(part = "session")
        /\ PanelStart(part = "flags")
        /\ FeedStart(part = "feed")

Next ==
    \/ DeskNext /\ UNCHANGED <<sessionVars, panelVars, feedVars>>
    \/ SessionNext /\ UNCHANGED <<deskVars, panelVars, feedVars>>
    \/ PanelNext /\ UNCHANGED <<deskVars, sessionVars, feedVars>>
    \/ FeedNext /\ UNCHANGED <<deskVars, sessionVars, panelVars>>

vars == <<deskVars, sessionVars, panelVars, feedVars>>

Spec == Init /\ [][Next]_vars /\ DeskFairness

\* The variables of the parts hold values of their kinds.
ParticipantTypeOK == DeskTypeOK /\ SessionTypeOK /\ FeedTypeOK
=============================================================================
