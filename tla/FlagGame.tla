------------------------------ MODULE FlagGame ------------------------------
(***************************************************************************)
(* What the platform promises about flags, abstractly: one tick at a time, *)
(* one flag for each service and tick, published while its tick runs, and  *)
(* captured at most once by a team other than its owner, during the flag's *)
(* own tick and while the match is open.                                   *)
(***************************************************************************)
EXTENDS Integers

CONSTANTS Teams, Challenges, Prefixes

VARIABLES tick,       \* the current tick
          live,       \* the checker is still at work on it
          open,       \* the match accepts submissions
          flags,      \* the flags published so far
          captures    \* who captured which flag

gameVars == <<tick, live, open, flags, captures>>

Service(f) == <<f.owner, f.chal, f.tick>>

GameInit ==
    /\ tick = 0
    /\ live = FALSE
    /\ open = FALSE
    /\ flags = {}
    /\ captures = {}

TickBegins ==
    /\ ~live
    /\ tick' = tick + 1
    /\ live' = TRUE
    /\ UNCHANGED <<open, flags, captures>>

TickEnds ==
    /\ live
    /\ live' = FALSE
    /\ UNCHANGED <<tick, open, flags, captures>>

MatchMoves ==
    /\ open' \in BOOLEAN
    /\ UNCHANGED <<tick, live, flags, captures>>

Publish(f) ==
    /\ live
    /\ f.tick = tick
    /\ \A g \in flags : Service(g) # Service(f)
    /\ flags' = flags \union {f}
    /\ UNCHANGED <<tick, live, open, captures>>

Capture(team, f) ==
    /\ open
    /\ f \in flags
    /\ f.tick = tick
    /\ f.owner # team
    /\ [flag |-> f, team |-> team] \notin captures
    /\ captures' = captures \union {[flag |-> f, team |-> team]}
    /\ UNCHANGED <<tick, live, open, flags>>

GameNext ==
    \/ TickBegins \/ TickEnds \/ MatchMoves
    \/ \E o \in Teams, c \in Challenges, p \in Prefixes :
         Publish([owner |-> o, chal |-> c, tick |-> tick, prefix |-> p])
    \/ \E team \in Teams, f \in flags : Capture(team, f)

GameSpec == GameInit /\ [][GameNext]_gameVars
=============================================================================
