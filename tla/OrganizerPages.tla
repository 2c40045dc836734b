--------------------------- MODULE OrganizerPages ---------------------------
(***************************************************************************)
(* What an organizer's browser shows beside the game: a page with runtime  *)
(* controls, a registry, or one of the self-contained cards                *)
(* (renderOrganizerPanel of organizer-dashboard).  A page is loaded fresh  *)
(* whenever it is opened, and the parts of one share no state.             *)
(***************************************************************************)
EXTENDS RuntimeConsole, AdminCards, Registry

Init ==
    \E part \in {"console", "card", "registry"} :
        /\ ConsoleStart(part = "console")
        /\ CardStart(part = "card")
        /\ RegistryStart(part = "registry")

Next ==
    \/ ConsoleNext /\ UNCHANGED <<cardVars, registryVars>>
    \/ CardNext /\ UNCHANGED <<consoleVars, registryVars>>
    \/ RegistryNext /\ UNCHANGED <<consoleVars, cardVars>>

Spec == Init /\ [][Next]_<<consoleVars, cardVars, registryVars>>

\* The variables of the three parts hold values of their kinds.
OrganizerTypeOK == ConsoleTypeOK /\ CardTypeOK /\ RegistryTypeOK
=============================================================================
