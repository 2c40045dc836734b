----------------------- MODULE ParticipantPagesProofs -----------------------
(***************************************************************************)
(* Theorems about the other parts of a participant's browser: the flag     *)
(* entry, the player's account with the session cookie, and the live feed. *)
(* They are stated for the specification of ParticipantPages, whose steps  *)
(* are steps of one part and leave the others alone, and need no fairness. *)
(***************************************************************************)
EXTENDS ServiceDeskProofs, FiniteSetTheorems, WellFoundedInduction, SequenceTheorems

-----------------------------------------------------------------------------
(* The flag entry.                                                         *)

PanelSafety == (\E open \in BOOLEAN : PanelStart(open)) /\ [][PanelNext]_panelVars

\* The composed pages behave, on the panel's variables, as the panel does.
LEMMA PanelInside == Spec => PanelSafety
<1>1. Init => \E open \in BOOLEAN : PanelStart(open)
  BY DEF Init
<1>2. [Next]_vars => [PanelNext]_panelVars
  BY DEF Next, vars
<1> QED
  BY <1>1, <1>2, PTL DEF Spec, PanelSafety

\* NoFlagVanishes made inductive: while a batch is away the box still holds its
\* flags, and a batch that was judged has a verdict for each of them, accepted
\* only for what the server has on record.
PanelInv ==
    /\ batch = [step |-> batch.step, flags |-> batch.flags, results |-> batch.results]
    /\ batch.step \in {"idle", "sent", "judged", "failed"}
    /\ Pending => box = batch.flags
    /\ batch.step = "judged" =>
         /\ DOMAIN batch.results = batch.flags
         /\ \A f \in batch.flags : batch.results[f] = "accepted" => f \in recorded
    /\ NoFlagVanishes

\* Every step of the panel keeps it so.
LEMMA PanelStep == PanelInv /\ [PanelNext]_panelVars => PanelInv'
<1> SUFFICES ASSUME PanelInv, [PanelNext]_panelVars PROVE PanelInv'
  OBVIOUS
<1> USE DEF PanelInv, Pending
<1>1. CASE TypeFlags
  BY <1>1 DEF TypeFlags, NoFlagVanishes
<1>2. CASE SubmitEmpty
  BY <1>2 DEF SubmitEmpty, NoFlagVanishes
<1>3. CASE OnSubmit
  BY <1>3 DEF OnSubmit, NoFlagVanishes, NoBatch
<1>4. CASE Judge
  <2>1. recorded \subseteq recorded'
    BY <1>4 DEF Judge
  <2>2. UNCHANGED <<box, verdicts, wiped>>
    BY <1>4 DEF Judge
  <2>3. NoFlagVanishes'
    BY <2>1, <2>2 DEF NoFlagVanishes
  <2>4. CASE batch' = [batch EXCEPT !.step = "failed"]
    BY <1>4, <2>2, <2>3, <2>4 DEF Judge
  <2>5. CASE /\ recorded' = recorded \union (batch.flags \intersect GoodFlags)
             /\ \E step \in {"judged", "failed"} :
                  batch' = [batch EXCEPT !.step = step,
                                         !.results = [f \in batch.flags |-> VerdictOf(f)]]
    <3>1. PICK step \in {"judged", "failed"} :
            batch' = [step |-> step, flags |-> batch.flags,
                      results |-> [f \in batch.flags |-> VerdictOf(f)]]
      BY <2>5
    <3>2. \A f \in batch.flags : VerdictOf(f) = "accepted" => f \in recorded'
      BY <2>5 DEF VerdictOf
    <3>3. box = batch.flags
      BY <1>4 DEF Judge
    <3> QED BY <2>2, <2>3, <3>1, <3>2, <3>3
  <2> QED BY <1>4, <2>4, <2>5 DEF Judge
<1>5. CASE ClosedChanges
  BY <1>5 DEF ClosedChanges, NoFlagVanishes
<1>6. CASE AnswerBatch
  <2>1. batch' = NoBatch /\ recorded' = recorded
    BY <1>6 DEF AnswerBatch
  <2>2. CASE batch.step = "judged"
    <3>1. verdicts' = batch.results /\ box' = BoxAfter(batch.results) /\ wiped' = box \ box'
      BY <1>6, <2>2 DEF AnswerBatch
    <3>2. box = batch.flags /\ DOMAIN batch.results = box
      BY <2>2
    <3>3. CASE \E f \in box : batch.results[f] = "accepted"
      <4>1. wiped' = box
        BY <3>1, <3>2, <3>3 DEF BoxAfter
      <4> QED BY <2>1, <2>2, <3>1, <3>2, <3>3, <4>1 DEF NoFlagVanishes, NoBatch
    <3>4. CASE ~\E f \in box : batch.results[f] = "accepted"
      <4>1. wiped' = {}
        BY <3>1, <3>2, <3>4 DEF BoxAfter
      <4> QED BY <2>1, <4>1 DEF NoFlagVanishes, NoBatch
    <3> QED BY <3>3, <3>4
  <2>3. CASE batch.step # "judged"
    <3>1. wiped' = {}
      BY <1>6, <2>3 DEF AnswerBatch
    <3> QED BY <2>1, <3>1 DEF NoFlagVanishes, NoBatch
  <2> QED BY <2>2, <2>3
<1>7. CASE UNCHANGED panelVars
  BY <1>7 DEF panelVars, NoFlagVanishes
<1> QED
  BY <1>1, <1>2, <1>3, <1>4, <1>5, <1>6, <1>7 DEF PanelNext

\* What the panel takes out of the box has its verdict on the screen, one of
\* them of a flag that was recorded, for every set of flags and any number of
\* batches, whatever answers are lost and however the submissions open and close.
THEOREM FlagsAreKept == Spec => []NoFlagVanishes
<1>1. (\E open \in BOOLEAN : PanelStart(open)) => PanelInv
  BY DEF PanelStart, PanelInv, NoFlagVanishes, NoBatch, NoVerdicts, Pending
<1>2. PanelInv => NoFlagVanishes
  BY DEF PanelInv
<1> QED
  BY <1>1, <1>2, PanelStep, PanelInside, PTL DEF PanelSafety

-----------------------------------------------------------------------------
(* The player's account and session.                                       *)

SessionSafety == (\E open \in BOOLEAN : SessionStart(open)) /\ [][SessionNext]_sessionVars

Account == [role : Roles, team : BOOLEAN, active : BOOLEAN, version : Nat]
PlayerRequest ==
    [kind : {"none", "register", "login", "join", "profile", "password", "transfer", "logout"},
     step : {"idle", "sent", "authorized", "ok", "failed"}, sent : Token, seen : Token,
     fields : BOOLEAN, change : BOOLEAN, to : Players, crossed : BOOLEAN]

SessionTypes ==
    /\ player \in [Players -> Account]
    /\ cookie \in Token /\ cookie.version <= player[Me].version
    /\ view \in [Tabs -> [signed : BOOLEAN, role : Roles, team : BOOLEAN]]
    /\ req \in [Forms -> PlayerRequest]
    /\ \A f \in Forms : /\ req[f].seen.version <= player[Me].version
                        /\ req[f].kind = "none" <=> req[f].step = "idle"
    /\ sessLeft \in [moves : Int, calls : Int]
    /\ sessHist \in [outdated : BOOLEAN, edited : BOOLEAN, deactivated : BOOLEAN]

\* SingleCaptain made inductive: only the player has no account yet, and then no
\* team; an account is inactive once somebody was deactivated; a captain has a
\* team; and a request that needs a session has passed when there was an account.
CaptainsSound(acc, edited, deactivated) ==
    /\ \A p \in Players : acc[p].version = 0 =>
         p = Me /\ ~acc[p].team /\ acc[p].role = "member"
    /\ \A p \in Players : acc[p].active \/ acc[p].version = 0 \/ deactivated
    /\ ~edited =>
         /\ \A p \in Players : acc[p].role = "captain" => acc[p].team
         /\ \A p, q \in ActiveCaptains(acc) : p = q
         /\ ((\E p \in Players : acc[p].team) /\ ~deactivated) => ActiveCaptains(acc) # {}

CaptainInv ==
    /\ CaptainsSound(player, sessHist.edited, sessHist.deactivated)
    /\ \A f \in Forms : req[f].step = "authorized" /\ req[f].kind \in {"join", "password"}
                          => player[Me].version > 0

\* CookieIsCurrent made inductive: what was read or issued for a request that no
\* change of the account has crossed is current, and a cookie that is not waits
\* for an answer that is under way.
CookieInv ==
    /\ \A f \in Forms : ~req[f].crossed =>
         /\ req[f].step = "authorized" => req[f].seen = TokenOf(player[Me])
         /\ req[f].step = "ok" => req[f].seen \in {NoToken, TokenOf(player[Me])}
    /\ (cookie # NoToken /\ ~sessHist.outdated) =>
         cookie = TokenOf(player[Me]) \/ \E f \in Forms : req[f].step = "ok"

\* The composed pages behave, on the session's variables, as the session does.
LEMMA SessionInside == Spec => SessionSafety
<1>1. Init => \E open \in BOOLEAN : SessionStart(open)
  BY DEF Init
<1>2. [Next]_vars => [SessionNext]_sessionVars
  BY DEF Next, vars
<1> QED
  BY <1>1, <1>2, PTL DEF Spec, SessionSafety

\* Accounts that are of their type and no older than the ones there are.
Grows(acc) == acc \in [Players -> Account] /\ acc[Me].version >= player[Me].version

\* Whatever the api-gateway does to the accounts, they are accounts, and the
\* player's version does not go back.
LEMMA AccountsGrow ==
  ASSUME SessionTypes
  PROVE  /\ \A p \in Players : /\ Grows(JoinTeam(player, p))
                               /\ Grows(Reactivate(player, p))
                               /\ Grows([player EXCEPT ![p].active = FALSE])
                               /\ \A r \in Roles : Grows([player EXCEPT ![p].role = r])
         /\ \A p, q \in Players : p # q => Grows(TransferTeamCaptain(player, p, q))
         /\ \A r \in PlayerRequest : Accepts(r) => Grows(Stored(r))
<1> USE SessionAssumption
<1>0. player \in [Players -> Account] /\ Me \in Players
  BY DEF SessionTypes
<1>v. \A p \in Players : player[p].version \in Nat /\ player[p].version + 1 \in Nat
  BY <1>0 DEF Account
<1>1. ASSUME NEW p \in Players, NEW a \in Account, a.version >= player[p].version
      PROVE  Grows([player EXCEPT ![p] = a])
  BY <1>0, <1>1, <1>v DEF Grows
<1>2. ASSUME NEW p \in Players PROVE Grows(JoinTeam(player, p))
  <2>1. \A r \in Roles : [player[p] EXCEPT !.team = TRUE, !.role = r] \in Account
    BY <1>0 DEF Account
  <2>2. player[p].role \in Roles /\ "captain" \in Roles
    BY <1>0 DEF Account, Roles
  <2>3. PICK r \in Roles :
          JoinTeam(player, p) = [player EXCEPT ![p] = [player[p] EXCEPT !.team = TRUE, !.role = r]]
    BY <1>0, <2>2 DEF JoinTeam, Account
  <2> DEFINE a == [player[p] EXCEPT !.team = TRUE, !.role = r]
  <2>4. a \in Account /\ a.version = player[p].version
    BY <1>0, <2>1 DEF Account
  <2>5. JoinTeam(player, p) = [player EXCEPT ![p] = a]
    BY <2>3
  <2> HIDE DEF a
  <2>6. a.version >= player[p].version
    BY <1>v, <2>4
  <2> QED BY <1>1, <2>4, <2>5, <2>6
<1>3. ASSUME NEW p \in Players PROVE Grows(Reactivate(player, p))
  <2> DEFINE a == [player[p] EXCEPT !.active = TRUE]
             b == [player[p] EXCEPT !.active = TRUE, !.role = "member",
                                    !.version = player[p].version + 1]
  <2>1. /\ a \in Account /\ a.version = player[p].version
        /\ b \in Account /\ b.version = player[p].version + 1
    BY <1>0, <1>v DEF Account, Roles
  <2>2. Reactivate(player, p) \in {[player EXCEPT ![p] = a], [player EXCEPT ![p] = b]}
    BY <1>0 DEF Reactivate, Account
  <2> HIDE DEF a, b
  <2> QED BY <1>1, <1>v, <2>1, <2>2
<1>4. ASSUME NEW p \in Players PROVE Grows([player EXCEPT ![p].active = FALSE])
  <2> DEFINE a == [player[p] EXCEPT !.active = FALSE]
  <2>1. a \in Account /\ a.version = player[p].version
    BY <1>0 DEF Account
  <2>2. [player EXCEPT ![p].active = FALSE] = [player EXCEPT ![p] = a]
    OBVIOUS
  <2> HIDE DEF a
  <2> QED BY <1>1, <1>v, <2>1, <2>2
<1>5. ASSUME NEW p \in Players, NEW r \in Roles PROVE Grows([player EXCEPT ![p].role = r])
  <2> DEFINE a == [player[p] EXCEPT !.role = r]
  <2>1. a \in Account /\ a.version = player[p].version
    BY <1>0 DEF Account
  <2>2. [player EXCEPT ![p].role = r] = [player EXCEPT ![p] = a]
    OBVIOUS
  <2> HIDE DEF a
  <2> QED BY <1>1, <1>v, <2>1, <2>2
<1>6. ASSUME NEW p \in Players, NEW q \in Players, p # q
      PROVE  Grows(TransferTeamCaptain(player, p, q))
  <2> DEFINE a == [player[p] EXCEPT !.role = "member", !.version = player[p].version + 1]
             b == [player[q] EXCEPT !.role = "captain", !.version = player[q].version + 1]
  <2>1. /\ a \in Account /\ a.version = player[p].version + 1
        /\ b \in Account /\ b.version = player[q].version + 1
    BY <1>0, <1>v DEF Account, Roles
  <2>2. TransferTeamCaptain(player, p, q) = [player EXCEPT ![p] = a, ![q] = b]
    BY <1>0, <1>6 DEF TransferTeamCaptain, Account
  <2> HIDE DEF a, b
  <2> QED BY <1>0, <1>v, <1>6, <2>1, <2>2 DEF Grows
<1>7. ASSUME NEW r \in PlayerRequest, Accepts(r) PROVE Grows(Stored(r))
  <2>1. CASE r.kind = "register"
    <3> DEFINE a == [player[Me] EXCEPT !.version = 1, !.active = TRUE]
    <3>1. Stored(r) = [player EXCEPT ![Me] = a]
      BY <1>0, <2>1 DEF Stored, Account
    <3>2. player[Me].version = 0
      BY <1>7, <2>1 DEF Accepts
    <3>3. a \in Account /\ a.version = 1
      BY <1>0 DEF Account
    <3> HIDE DEF a
    <3>4. a.version >= player[Me].version
      BY <3>2, <3>3
    <3> QED BY <1>0, <1>1, <3>1, <3>3, <3>4
  <2>2. CASE r.kind = "join"
    BY <1>0, <1>2, <2>2 DEF Stored
  <2>3. CASE r.kind = "password"
    <3> DEFINE a == [player[Me] EXCEPT !.version = player[Me].version + 1]
    <3>1. Stored(r) = [player EXCEPT ![Me] = a]
      BY <1>0, <2>3 DEF Stored, Account
    <3>2. a \in Account /\ a.version = player[Me].version + 1
      BY <1>0, <1>v DEF Account
    <3> HIDE DEF a
    <3>3. a.version >= player[Me].version
      BY <1>0, <1>v, <3>2
    <3> QED BY <1>0, <1>1, <3>1, <3>2, <3>3
  <2>4. CASE r.kind = "transfer"
    <3>1. r.to \in Players /\ Me # r.to
      BY <1>7, <2>4 DEF Accepts, MayTransfer, PlayerRequest
    <3> QED BY <1>0, <1>6, <2>4, <3>1 DEF Stored
  <2>5. CASE r.kind \notin {"register", "join", "password", "transfer"}
    BY <1>0, <1>v, <2>5 DEF Stored, Grows
  <2> QED BY <2>1, <2>2, <2>3, <2>4, <2>5
<1> QED BY <1>2, <1>3, <1>4, <1>5, <1>6, <1>7

SessionHistory == [outdated : BOOLEAN, edited : BOOLEAN, deactivated : BOOLEAN]

\* The values the session is put together from are of their kinds.
LEMMA SessionParts ==
  /\ NoToken \in Token /\ NoToken.version = 0
  /\ \A a \in Account : TokenOf(a) \in Token /\ TokenOf(a).version = a.version
  /\ NoRequest \in PlayerRequest /\ NoRequest.seen = NoToken
  /\ NoRequest.kind = "none" /\ NoRequest.step = "idle"
<1>1. NoToken \in Token /\ NoToken.version = 0
  BY DEF NoToken, Token, Roles
<1>2. \A a \in Account : TokenOf(a) \in Token /\ TokenOf(a).version = a.version
  BY DEF TokenOf, Token, Account
<1>3. NoRequest \in PlayerRequest
  BY <1>1, SessionAssumption DEF NoRequest, PlayerRequest
<1> QED BY <1>1, <1>2, <1>3 DEF NoRequest

\* A request that is crossed is the same request otherwise.
LEMMA CrossedRequests ==
  ASSUME SessionTypes, NEW f
  PROVE  /\ Crossed(f) \in [Forms -> PlayerRequest]
         /\ \A g \in Forms :
              /\ Crossed(f)[g].kind = req[g].kind /\ Crossed(f)[g].step = req[g].step
              /\ Crossed(f)[g].seen = req[g].seen
              /\ g # f /\ req[g].kind # "none" => Crossed(f)[g].crossed
              /\ g = f => Crossed(f)[g] = req[g]
<1>1. ASSUME NEW g \in Forms
      PROVE  /\ Crossed(f)[g] \in PlayerRequest
             /\ Crossed(f)[g].kind = req[g].kind /\ Crossed(f)[g].step = req[g].step
             /\ Crossed(f)[g].seen = req[g].seen
             /\ g # f /\ req[g].kind # "none" => Crossed(f)[g].crossed
             /\ g = f => Crossed(f)[g] = req[g]
  <2>1. req[g] \in PlayerRequest
    BY DEF SessionTypes
  <2>2. CASE g # f /\ req[g].kind # "none"
    <3>1. Crossed(f)[g] = [req[g] EXCEPT !.crossed = TRUE]
      BY <2>2 DEF Crossed
    <3> QED BY <2>1, <2>2, <3>1 DEF PlayerRequest
  <2>3. CASE ~(g # f /\ req[g].kind # "none")
    <3>1. Crossed(f)[g] = req[g]
      BY <2>3 DEF Crossed
    <3> QED BY <2>1, <2>3, <3>1
  <2> QED BY <2>2, <2>3
<1>2. Crossed(f) = [g \in Forms |-> Crossed(f)[g]]
  BY DEF Crossed
<1> QED BY <1>1, <1>2

\* The page starts with values of their kinds.
LEMMA SessionTypeStart == (\E open \in BOOLEAN : SessionStart(open)) => SessionTypes
<1> SUFFICES ASSUME NEW open \in BOOLEAN, SessionStart(open) PROVE SessionTypes
  OBVIOUS
<1> USE SessionAssumption
<1>1. PICK registered \in BOOLEAN, team \in {"new", "led", "orphaned"} :
        /\ open \/ (registered /\ team = "led")
        /\ player = [p \in Players |->
              IF p = Me THEN [role |-> "member", team |-> FALSE, active |-> registered,
                              version |-> IF registered THEN 1 ELSE 0]
              ELSE LET leads == team # "new" /\ p = CHOOSE q \in Players \ {Me} : TRUE
                   IN [role |-> IF leads THEN "captain" ELSE "member", team |-> team # "new",
                       active |-> ~(leads /\ team = "orphaned"), version |-> 1]]
        /\ sessHist = [outdated |-> FALSE, edited |-> FALSE, deactivated |-> team = "orphaned"]
  BY Zenon DEF SessionStart
<1>2. player \in [Players -> Account]
  <2>1. \A p \in Players : player[p] \in Account
    BY <1>1 DEF Account, Roles
  <2> QED BY <1>1, <2>1
<1>3. sessHist \in SessionHistory
  BY <1>1 DEF SessionHistory
<1>4. cookie \in Token /\ cookie.version <= player[Me].version
  <2>1. player[Me] \in Account /\ player[Me].version \in Nat
    BY <1>2 DEF Account
  <2> QED BY <2>1, SessionParts DEF SessionStart
<1>5. view \in [Tabs -> [signed : BOOLEAN, role : Roles, team : BOOLEAN]]
  <2>1. SignedOut \in [signed : BOOLEAN, role : Roles, team : BOOLEAN]
    BY DEF SignedOut, Roles
  <2> QED BY <2>1 DEF SessionStart
<1>6. req = [f \in Forms |-> NoRequest]
  BY DEF SessionStart
<1>7. player[Me].version \in Nat
  BY <1>2 DEF Account
<1>8. sessLeft \in [moves : Int, calls : Int]
  BY DEF SessionStart
<1> QED
  BY <1>2, <1>3, <1>4, <1>5, <1>6, <1>7, <1>8, SessionParts DEF SessionTypes, SessionHistory

\* What the player may click on a tab.
FormAction(t) ==
    \/ SignIn(t) \/ JoinOwnTeam(t) \/ Logout(t)
    \/ \E change \in BOOLEAN : SaveAccount(t, change)
    \/ \E q \in Players : TransferCaptain(t, q)

\* Each click sends a request of a form that has none, and does nothing else.
LEMMA FormSends ==
  ASSUME SessionTypes, NEW t \in Tabs, FormAction(t)
  PROVE  \E f \in Forms, s \in PlayerRequest :
           /\ s.kind # "none" /\ s.step = "sent" /\ s.seen = NoToken
           /\ Free(f) /\ req' = [req EXCEPT ![f] = s]
           /\ UNCHANGED <<player, cookie, view, sessHist>>
           /\ sessLeft' \in [moves : Int, calls : Int]
<1> DEFINE Goal == \E f \in Forms, s \in PlayerRequest :
           /\ s.kind # "none" /\ s.step = "sent" /\ s.seen = NoToken
           /\ Free(f) /\ req' = [req EXCEPT ![f] = s]
           /\ UNCHANGED <<player, cookie, view, sessHist>>
           /\ sessLeft' \in [moves : Int, calls : Int]
<1>1. ASSUME NEW f \in Forms, NEW r \in PlayerRequest, r.kind # "none", r.seen = NoToken, Send(f, r)
      PROVE  Goal
  <2> DEFINE s == [r EXCEPT !.step = "sent", !.sent = cookie]
  <2>1. s \in PlayerRequest /\ s.kind = r.kind /\ s.step = "sent" /\ s.seen = NoToken
    BY <1>1 DEF PlayerRequest, SessionTypes
  <2>2. /\ Free(f) /\ req' = [req EXCEPT ![f] = s]
        /\ UNCHANGED <<player, cookie, view, sessHist>>
    BY <1>1 DEF Send
  <2>3. sessLeft' \in [moves : Int, calls : Int]
    BY <1>1 DEF Send, SessionTypes
  <2> HIDE DEF s
  <2> QED BY <1>1, <2>1, <2>2, <2>3
<1> HIDE DEF Goal
<1>2. <<t, "entry">> \in Forms /\ <<t, "account">> \in Forms /\ <<t, "logout">> \in Forms
  BY DEF Forms
<1>3. ASSUME NEW k \in {"register", "login", "join", "logout"}
      PROVE  /\ [NoRequest EXCEPT !.kind = k] \in PlayerRequest
             /\ [NoRequest EXCEPT !.kind = k].kind = k
             /\ [NoRequest EXCEPT !.kind = k].seen = NoToken
  BY SessionParts DEF PlayerRequest
<1>4. ASSUME SignIn(t) \/ JoinOwnTeam(t) \/ Logout(t) PROVE Goal
  BY <1>1, <1>2, <1>3, <1>4 DEF SignIn, JoinOwnTeam, Logout
<1>5. ASSUME NEW change \in BOOLEAN, SaveAccount(t, change) PROVE Goal
  <2> DEFINE r == [NoRequest EXCEPT !.kind = "profile", !.change = change,
                     !.fields = view[t].role = "captain" /\ view[t].team]
  <2>1. (view[t].role = "captain" /\ view[t].team) \in BOOLEAN
    BY DEF SessionTypes
  <2>2. r \in PlayerRequest /\ r.kind = "profile" /\ r.seen = NoToken
    BY <2>1, SessionParts DEF PlayerRequest
  <2>3. Send(<<t, "account">>, r)
    BY <1>5 DEF SaveAccount
  <2> HIDE DEF r
  <2> QED BY <1>1, <1>2, <2>2, <2>3
<1>6. ASSUME NEW q \in Players, TransferCaptain(t, q) PROVE Goal
  <2> DEFINE r == [NoRequest EXCEPT !.kind = "transfer", !.to = q]
  <2>1. r \in PlayerRequest /\ r.kind = "transfer" /\ r.seen = NoToken
    BY SessionParts DEF PlayerRequest
  <2>2. Send(<<t, "account">>, r)
    BY <1>6 DEF TransferCaptain
  <2> HIDE DEF r
  <2> QED BY <1>1, <1>2, <2>1, <2>2
<1>7. Goal
  BY <1>4, <1>5, <1>6 DEF FormAction
<1> QED BY <1>7 DEF Goal

\* Every step of the session keeps the values of their kinds.
LEMMA SessionTypeStep == SessionTypes /\ [SessionNext]_sessionVars => SessionTypes'
<1> SUFFICES ASSUME SessionTypes, [SessionNext]_sessionVars PROVE SessionTypes'
  OBVIOUS
<1> USE SessionAssumption
<1>0. /\ player \in [Players -> Account] /\ player[Me].version \in Nat
      /\ req \in [Forms -> PlayerRequest] /\ cookie \in Token /\ cookie.version \in Nat
      /\ \A f \in Forms : req[f].seen.version \in Nat
  BY DEF SessionTypes, Account, PlayerRequest, Token
<1>h. sessHist \in SessionHistory /\ sessLeft \in [moves : Int, calls : Int]
  BY DEF SessionTypes, SessionHistory
<1>1. ASSUME NEW acc, NEW past \in SessionHistory, Grows(acc), OthersChange(acc, past)
      PROVE  SessionTypes'
  <2>1. player' = acc /\ UNCHANGED <<cookie, view>> /\ req' \in {req, Crossed(<<>>)}
    BY <1>1 DEF OthersChange
  <2>2. sessLeft' \in [moves : Int, calls : Int]
    BY <1>1, <1>h DEF OthersChange
  <2>3. sessHist' \in SessionHistory
    BY <1>1 DEF OthersChange, SessionHistory
  <2>4. /\ req' \in [Forms -> PlayerRequest]
        /\ \A f \in Forms : /\ req'[f].seen = req[f].seen
                            /\ req'[f].kind = req[f].kind /\ req'[f].step = req[f].step
    BY <1>0, <2>1, CrossedRequests
  <2>5. player' \in [Players -> Account] /\ player'[Me].version >= player[Me].version
        /\ player'[Me].version \in Nat
    BY <1>1, <2>1 DEF Grows, Account
  <2> QED
    BY <1>0, <2>1, <2>2, <2>3, <2>4, <2>5 DEF SessionTypes, SessionHistory
<1>2. ASSUME NEW p \in Players, OtherJoins(p) PROVE SessionTypes'
  BY <1>1, <1>2, <1>h, AccountsGrow DEF OtherJoins
<1>3. ASSUME NEW p \in Players, SetPlayerActive(p) PROVE SessionTypes'
  <2>1. [sessHist EXCEPT !.deactivated = TRUE] \in SessionHistory
    BY <1>h DEF SessionHistory
  <2> QED BY <1>1, <1>3, <1>h, <2>1, AccountsGrow DEF SetPlayerActive
<1>4. ASSUME NEW p \in Players, UpdateAdminPlayer(p) PROVE SessionTypes'
  <2>1. [sessHist EXCEPT !.edited = TRUE] \in SessionHistory
    BY <1>h DEF SessionHistory
  <2> QED BY <1>1, <1>4, <2>1, AccountsGrow DEF UpdateAdminPlayer
<1>5. ASSUME NEW p \in Players, NEW q \in Players, OtherTransfers(p, q) PROVE SessionTypes'
  BY <1>1, <1>5, <1>h, AccountsGrow DEF OtherTransfers, MayTransfer
<1>6. CASE CookieExpires
  BY <1>0, <1>6, <1>h, SessionParts DEF CookieExpires, SessionTypes
<1>7. ASSUME NEW t \in Tabs, LoadPage(t) PROVE SessionTypes'
  <2>1. SignedOut \in [signed : BOOLEAN, role : Roles, team : BOOLEAN]
    BY DEF SignedOut, Roles
  <2>2. [signed |-> TRUE, role |-> cookie.role, team |-> cookie.team]
          \in [signed : BOOLEAN, role : Roles, team : BOOLEAN]
    BY <1>0 DEF Token
  <2>3. view' \in [Tabs -> [signed : BOOLEAN, role : Roles, team : BOOLEAN]]
    BY <1>7, <2>1, <2>2 DEF LoadPage, SessionTypes
  <2> QED BY <1>7, <2>3 DEF LoadPage, SessionTypes
<1>8. ASSUME NEW t \in Tabs, FormAction(t) PROVE SessionTypes'
  <2>1. PICK f \in Forms, s \in PlayerRequest :
          /\ s.kind # "none" /\ s.step = "sent" /\ s.seen = NoToken
          /\ req' = [req EXCEPT ![f] = s]
          /\ UNCHANGED <<player, cookie, view, sessHist>>
          /\ sessLeft' \in [moves : Int, calls : Int]
    BY <1>8, FormSends
  <2> QED BY <1>0, <2>1, SessionParts DEF SessionTypes
<1>10. ASSUME NEW f \in Forms, NEW s \in PlayerRequest, req' = [req EXCEPT ![f] = s],
              s.kind = "none" <=> s.step = "idle", s.seen.version <= player[Me].version,
              UNCHANGED <<player, cookie, view, sessLeft, sessHist>>
       PROVE  SessionTypes'
  BY <1>0, <1>10 DEF SessionTypes
<1>11. ASSUME NEW f \in Forms, Authorize(f) PROVE SessionTypes'
  <2>1. /\ TokenOf(player[Me]) \in Token
        /\ TokenOf(player[Me]).version <= player[Me].version
    BY <1>0, SessionParts
  <2>2. req[f] \in PlayerRequest /\ req[f].kind # "none"
    BY <1>0, <1>11 DEF Authorize, SessionTypes
  <2> DEFINE s == [req[f] EXCEPT !.step = "authorized", !.seen = TokenOf(player[Me])]
             d == [req[f] EXCEPT !.step = "failed"]
  <2>3. s \in PlayerRequest /\ s.kind # "none" /\ s.step # "idle" /\ s.seen = TokenOf(player[Me])
    BY <2>1, <2>2 DEF PlayerRequest
  <2>4. d \in PlayerRequest /\ d.kind # "none" /\ d.step # "idle" /\ d.seen = req[f].seen
    BY <2>2 DEF PlayerRequest
  <2>5. req' \in {[req EXCEPT ![f] = s], [req EXCEPT ![f] = d]}
    BY <1>0, <1>11 DEF Authorize, Step
  <2>6. req[f].seen.version <= player[Me].version
    BY DEF SessionTypes
  <2> HIDE DEF s, d
  <2> QED BY <1>10, <1>11, <2>1, <2>3, <2>4, <2>5, <2>6 DEF Authorize
<1>12. ASSUME NEW f \in Forms, Reject(f) PROVE SessionTypes'
  <2>2. req[f] \in PlayerRequest /\ req[f].kind # "none"
    BY <1>0, <1>12 DEF Reject, SessionTypes
  <2> DEFINE d == [req[f] EXCEPT !.step = "failed"]
  <2>4. d \in PlayerRequest /\ d.kind # "none" /\ d.step # "idle" /\ d.seen = req[f].seen
    BY <2>2 DEF PlayerRequest
  <2>5. req' = [req EXCEPT ![f] = d]
    BY <1>0, <1>12 DEF Reject, Step
  <2>6. req[f].seen.version <= player[Me].version
    BY DEF SessionTypes
  <2> HIDE DEF d
  <2> QED BY <1>10, <1>12, <2>4, <2>5, <2>6 DEF Reject
<1>13. ASSUME NEW f \in Forms, Execute(f) PROVE SessionTypes'
  <2>1. req[f] \in PlayerRequest /\ req[f].kind # "none" /\ Accepts(req[f])
    BY <1>0, <1>13 DEF Execute, SessionTypes
  <2>2. player' = Stored(req[f]) /\ Grows(player')
    BY <1>13, <2>1, AccountsGrow DEF Execute
  <2>3. player'[Me] \in Account /\ player'[Me].version \in Nat
    BY <2>2 DEF Grows, Account
  <2>4. Issued(req[f]) \in Token /\ Issued(req[f]).version <= player'[Me].version
    <3>1. CASE req[f].kind = "logout"
      BY <2>3, <3>1, SessionParts DEF Issued
    <3>2. CASE req[f].kind = "password"
      <4>1. Issued(req[f]) = [req[f].seen EXCEPT !.version = player[Me].version + 1]
        BY <3>2 DEF Issued
      <4>2. player[Me].version + 1 \in Nat /\ req[f].seen \in Token
        BY <1>0, <2>1 DEF PlayerRequest
      <4>3. Issued(req[f]) \in Token /\ Issued(req[f]).version = player[Me].version + 1
        BY <4>1, <4>2 DEF Token
      <4>4. player'[Me].version = player[Me].version + 1
        BY <1>0, <2>2, <3>2 DEF Stored, Account
      <4> QED BY <2>3, <4>3, <4>4
    <3>3. CASE req[f].kind \notin {"logout", "password"}
      <4>1. Issued(req[f]) = TokenOf(player'[Me])
        BY <2>2, <3>3 DEF Issued
      <4> QED BY <2>3, <4>1, SessionParts
    <3> QED BY <3>1, <3>2, <3>3
  <2>5. PICK base \in {req, Crossed(f)}, step \in {"ok", "failed"} :
          req' = [base EXCEPT ![f].step = step, ![f].seen = Issued(req[f])]
    BY <1>13 DEF Execute
  <2>6. /\ base \in [Forms -> PlayerRequest] /\ base[f] = req[f]
        /\ \A g \in Forms : /\ base[g].seen = req[g].seen
                            /\ base[g].kind = req[g].kind /\ base[g].step = req[g].step
    BY <1>0, CrossedRequests
  <2> DEFINE s == [req[f] EXCEPT !.step = step, !.seen = Issued(req[f])]
  <2>7. s \in PlayerRequest /\ s.kind # "none" /\ s.step # "idle" /\ s.seen = Issued(req[f])
    BY <2>1, <2>4 DEF PlayerRequest
  <2>8. req' = [base EXCEPT ![f] = s]
    BY <2>5, <2>6 DEF PlayerRequest
  <2>9. sessHist' \in SessionHistory
    BY <1>13, <1>h DEF Execute, SessionHistory
  <2>10. UNCHANGED <<cookie, view, sessLeft>>
    BY <1>13 DEF Execute
  <2> HIDE DEF s
  <2> QED
    BY <1>0, <2>2, <2>3, <2>4, <2>6, <2>7, <2>8, <2>9, <2>10 DEF SessionTypes, SessionHistory, Grows
<1>14. ASSUME NEW f \in Forms, Answered(f) PROVE SessionTypes'
  <2>1. req[f] \in PlayerRequest /\ req[f].seen \in Token
    BY <1>0 DEF PlayerRequest
  <2> DEFINE s == [NoRequest EXCEPT !.kind = "password", !.step = "sent", !.sent = req[f].seen]
  <2>2. s \in PlayerRequest /\ s.kind # "none" /\ s.step # "idle" /\ s.seen = NoToken
    BY <2>1, SessionParts DEF PlayerRequest
  <2>3. req' \in {[req EXCEPT ![f] = s], [req EXCEPT ![f] = NoRequest]}
    BY <1>14 DEF Answered
  <2>4. cookie' \in {cookie, req[f].seen} /\ UNCHANGED <<player, view, sessLeft>>
    BY <1>14 DEF Answered
  <2>5. sessHist' \in SessionHistory
    BY <1>14, <1>h, <2>1 DEF Answered, SessionHistory, PlayerRequest
  <2>6. cookie' \in Token /\ cookie'.version <= player'[Me].version
    BY <2>1, <2>4 DEF SessionTypes
  <2> HIDE DEF s
  <2> QED
    BY <1>0, <2>2, <2>3, <2>4, <2>5, <2>6, SessionParts DEF SessionTypes, SessionHistory
<1>15. CASE UNCHANGED sessionVars
  BY <1>15 DEF sessionVars, SessionTypes
<1> QED
  BY <1>2, <1>3, <1>4, <1>5, <1>6, <1>7, <1>8, <1>11, <1>12, <1>13, <1>14, <1>15
  DEF SessionNext, FormAction

-----------------------------------------------------------------------------
(* The captain.                                                            *)

\* A team without an active captain gets one with whoever joins, and one with a
\* captain gets none.
LEMMA JoinKeepsCaptain ==
  ASSUME SessionTypes, NEW e \in BOOLEAN, NEW d \in BOOLEAN, CaptainsSound(player, e, d),
         NEW p \in Players, ~player[p].team, player[p].version > 0
  PROVE  CaptainsSound(JoinTeam(player, p), e, d)
<1> DEFINE acc == JoinTeam(player, p)
           none == ActiveCaptains(player) = {}
<1>0. player \in [Players -> Account]
  BY DEF SessionTypes
<1>1. /\ acc[p].team /\ acc[p].active = player[p].active /\ acc[p].version = player[p].version
      /\ acc[p].role = IF none THEN "captain" ELSE player[p].role
      /\ \A x \in Players \ {p} : acc[x] = player[x]
  BY <1>0 DEF JoinTeam, Account
<1>2. \A x \in Players : acc[x].version = 0 => x = Me /\ ~acc[x].team /\ acc[x].role = "member"
  BY <1>1 DEF CaptainsSound
<1>3. \A x \in Players : acc[x].active \/ acc[x].version = 0 \/ d
  BY <1>1 DEF CaptainsSound
<1>4. ASSUME ~e
      PROVE  /\ \A x \in Players : acc[x].role = "captain" => acc[x].team
             /\ \A x, y \in ActiveCaptains(acc) : x = y
             /\ ~d => ActiveCaptains(acc) # {}
  <2>1. player[p].role = "member"
    BY <1>0, <1>4 DEF CaptainsSound, Account, Roles
  <2>2. CASE none
    <3>1. \A x \in ActiveCaptains(acc) : x = p
      BY <1>1, <2>2 DEF ActiveCaptains
    <3>2. ~d => p \in ActiveCaptains(acc)
      <4>1. ~d => player[p].active
        BY DEF CaptainsSound
      <4> QED BY <1>1, <2>2, <4>1 DEF ActiveCaptains
    <3> HIDE DEF acc
    <3> QED BY <1>1, <1>4, <3>1, <3>2 DEF CaptainsSound
  <2>3. CASE ~none
    <3>1. ActiveCaptains(acc) = ActiveCaptains(player)
      BY <1>1, <2>1, <2>3 DEF ActiveCaptains
    <3> HIDE DEF acc
    <3> QED BY <1>1, <1>4, <2>3, <3>1 DEF CaptainsSound
  <2> QED BY <2>2, <2>3
<1> HIDE DEF acc
<1>5. CaptainsSound(acc, e, d)
  BY <1>2, <1>3, <1>4 DEF CaptainsSound
<1> QED BY <1>5 DEF acc

\* The captain hands over to one of the team.
LEMMA TransferKeepsCaptain ==
  ASSUME SessionTypes, NEW e \in BOOLEAN, NEW d \in BOOLEAN, CaptainsSound(player, e, d),
         NEW p \in Players, NEW q \in Players, MayTransfer(player, p, q)
  PROVE  CaptainsSound(TransferTeamCaptain(player, p, q), e, d)
<1> DEFINE acc == TransferTeamCaptain(player, p, q)
<1>0. player \in [Players -> Account] /\ p # q
  BY DEF SessionTypes, MayTransfer
<1>1. /\ acc[p].role = "member" /\ acc[q].role = "captain"
      /\ acc[p].version = player[p].version + 1 /\ acc[q].version = player[q].version + 1
      /\ \A x \in {p, q} : acc[x].team = player[x].team /\ acc[x].active = player[x].active
      /\ \A x \in Players \ {p, q} : acc[x] = player[x]
  BY <1>0 DEF TransferTeamCaptain, Account
<1>2. acc[p].version > 0 /\ acc[q].version > 0
  BY <1>0, <1>1 DEF Account
<1>3. /\ player[p].active /\ player[p].team /\ player[p].role = "captain"
      /\ player[q].active /\ player[q].team
  BY DEF MayTransfer
<1>4. \A x \in Players : acc[x].version = 0 => x = Me /\ ~acc[x].team /\ acc[x].role = "member"
  BY <1>1, <1>2 DEF CaptainsSound
<1>5. \A x \in Players : acc[x].active \/ acc[x].version = 0 \/ d
  BY <1>1, <1>3 DEF CaptainsSound
<1>6. ASSUME ~e
      PROVE  /\ \A x \in Players : acc[x].role = "captain" => acc[x].team
             /\ ActiveCaptains(acc) = {q}
  <2>1. ActiveCaptains(player) = {p}
    BY <1>3, <1>6 DEF CaptainsSound, ActiveCaptains
  <2>2. q \in ActiveCaptains(acc)
    BY <1>1, <1>3 DEF ActiveCaptains
  <2>3. \A x \in ActiveCaptains(acc) : x = q
    BY <1>1, <2>1 DEF ActiveCaptains
  <2>4. \A x \in Players : acc[x].role = "captain" => acc[x].team
    BY <1>1, <1>3, <1>6 DEF CaptainsSound
  <2> HIDE DEF acc
  <2> QED BY <2>2, <2>3, <2>4
<1> HIDE DEF acc
<1>7. CaptainsSound(acc, e, d)
  BY <1>4, <1>5, <1>6 DEF CaptainsSound
<1> QED BY <1>7 DEF acc

\* A captain who comes back leads only a team that nobody leads.
LEMMA ReactivateKeepsCaptain ==
  ASSUME SessionTypes, NEW e \in BOOLEAN, NEW d \in BOOLEAN, CaptainsSound(player, e, d),
         NEW p \in Players, player[p].version > 0, ~player[p].active
  PROVE  CaptainsSound(Reactivate(player, p), e, d)
<1> DEFINE acc == Reactivate(player, p)
           demoted == player[p].role = "captain" /\ player[p].team
                        /\ ActiveCaptains(player) \ {p} # {}
<1>0. player \in [Players -> Account]
  BY DEF SessionTypes
<1>1. /\ acc[p].active /\ acc[p].team = player[p].team
      /\ acc[p].role = IF demoted THEN "member" ELSE player[p].role
      /\ acc[p].version = IF demoted THEN player[p].version + 1 ELSE player[p].version
      /\ \A x \in Players \ {p} : acc[x] = player[x]
  <2>1. CASE demoted
    <3>1. acc = [player EXCEPT ![p] = [player[p] EXCEPT !.active = TRUE, !.role = "member",
                                         !.version = player[p].version + 1]]
      BY <1>0, <2>1 DEF Reactivate, Account
    <3>2. /\ acc[p] = [player[p] EXCEPT !.active = TRUE, !.role = "member",
                                          !.version = player[p].version + 1]
          /\ \A x \in Players \ {p} : acc[x] = player[x]
      BY <1>0, <3>1
    <3> HIDE DEF acc
    <3> QED BY <1>0, <2>1, <3>2 DEF Account
  <2>2. CASE ~demoted
    <3>1. acc = [player EXCEPT ![p] = [player[p] EXCEPT !.active = TRUE]]
      BY <1>0, <2>2 DEF Reactivate, Account
    <3> QED BY <1>0, <2>2, <3>1 DEF Account
  <2> QED BY <2>1, <2>2
<1>d. d
  BY <1>0 DEF CaptainsSound, Account
<1>2. acc[p].version > 0
  BY <1>0, <1>1 DEF Account
<1>3. \A x \in Players : acc[x].version = 0 => x = Me /\ ~acc[x].team /\ acc[x].role = "member"
  BY <1>1, <1>2 DEF CaptainsSound
<1>4. ASSUME ~e
      PROVE  /\ \A x \in Players : acc[x].role = "captain" => acc[x].team
             /\ \A x, y \in ActiveCaptains(acc) : x = y
  <2>1. \A x \in Players : acc[x].role = "captain" => acc[x].team
    BY <1>1, <1>4 DEF CaptainsSound
  <2>2. p \notin ActiveCaptains(player)
    BY DEF ActiveCaptains
  <2>3. \A x \in ActiveCaptains(acc) : x = p \/ x \in ActiveCaptains(player)
    BY <1>1 DEF ActiveCaptains
  <2>4. p \in ActiveCaptains(acc) => ActiveCaptains(player) = {}
    BY <1>0, <1>1, <2>2 DEF ActiveCaptains, Account
  <2>5. \A x, y \in ActiveCaptains(player) : x = y
    BY <1>4 DEF CaptainsSound
  <2> HIDE DEF acc
  <2> QED BY <2>1, <2>3, <2>4, <2>5
<1> HIDE DEF acc
<1>5. CaptainsSound(acc, e, d)
  BY <1>d, <1>3, <1>4 DEF CaptainsSound
<1> QED BY <1>5 DEF acc

\* A team that comes with the page has its captain, unless that one was deactivated.
LEMMA CaptainStart == (\E open \in BOOLEAN : SessionStart(open)) => CaptainInv
<1> SUFFICES ASSUME NEW open \in BOOLEAN, SessionStart(open) PROVE CaptainInv
  OBVIOUS
<1> DEFINE first == CHOOSE q \in Players \ {Me} : TRUE
<1>1. PICK registered \in BOOLEAN, team \in {"new", "led", "orphaned"} :
        /\ open \/ (registered /\ team = "led")
        /\ player = [p \in Players |->
              IF p = Me THEN [role |-> "member", team |-> FALSE, active |-> registered,
                              version |-> IF registered THEN 1 ELSE 0]
              ELSE LET leads == team # "new" /\ p = CHOOSE q \in Players \ {Me} : TRUE
                   IN [role |-> IF leads THEN "captain" ELSE "member", team |-> team # "new",
                       active |-> ~(leads /\ team = "orphaned"), version |-> 1]]
        /\ sessHist = [outdated |-> FALSE, edited |-> FALSE, deactivated |-> team = "orphaned"]
  BY Zenon DEF SessionStart
<1>2. /\ player[Me].role = "member" /\ ~player[Me].team /\ player[Me].active = registered
      /\ player[Me].version = IF registered THEN 1 ELSE 0
  BY <1>1, SessionAssumption
<1>3. \A p \in Players \ {Me} :
        /\ player[p].role = IF team # "new" /\ p = first THEN "captain" ELSE "member"
        /\ player[p].team = (team # "new")
        /\ player[p].active = ~(team # "new" /\ p = first /\ team = "orphaned")
        /\ player[p].version = 1
  BY <1>1
<1>4. (\E p \in Players : p # Me) => first \in Players \ {Me}
  OBVIOUS
<1>5. ~sessHist.edited /\ sessHist.deactivated = (team = "orphaned")
  BY <1>1
<1> HIDE DEF first
<1>6. \A p \in ActiveCaptains(player) : p = first
  BY <1>2, <1>3 DEF ActiveCaptains
<1>7. (\E p \in Players : player[p].team) /\ team # "orphaned" => first \in ActiveCaptains(player)
  BY <1>2, <1>3, <1>4 DEF ActiveCaptains
<1>8. CaptainsSound(player, sessHist.edited, sessHist.deactivated)
  <2>1. \A p \in Players : player[p].version = 0 =>
          p = Me /\ ~player[p].team /\ player[p].role = "member"
    BY <1>2, <1>3
  <2>2. \A p \in Players : player[p].active \/ player[p].version = 0 \/ sessHist.deactivated
    BY <1>2, <1>3, <1>5
  <2>3. \A p \in Players : player[p].role = "captain" => player[p].team
    BY <1>2, <1>3
  <2> QED BY <1>5, <1>6, <1>7, <2>1, <2>2, <2>3 DEF CaptainsSound
<1>9. \A f \in Forms : req[f].step = "idle"
  BY SessionParts DEF SessionStart
<1> QED BY <1>8, <1>9 DEF CaptainInv

\* Every step of the session keeps the captains sound.
LEMMA CaptainStep == SessionTypes /\ CaptainInv /\ [SessionNext]_sessionVars => CaptainInv'
<1> SUFFICES ASSUME SessionTypes, CaptainInv, [SessionNext]_sessionVars PROVE CaptainInv'
  OBVIOUS
<1> USE SessionAssumption
<1>0. /\ player \in [Players -> Account] /\ player[Me].version \in Nat
      /\ req \in [Forms -> PlayerRequest]
  BY DEF SessionTypes, Account
<1>h. /\ sessHist \in SessionHistory
      /\ sessHist.edited \in BOOLEAN /\ sessHist.deactivated \in BOOLEAN
  BY DEF SessionTypes, SessionHistory
<1>s. CaptainsSound(player, sessHist.edited, sessHist.deactivated)
  BY DEF CaptainInv
<1>v. ASSUME NEW p \in Players PROVE player[p].version \in Nat /\ player[p].active \in BOOLEAN
  BY <1>0 DEF Account
<1>1. ASSUME NEW acc, NEW past \in SessionHistory, Grows(acc), OthersChange(acc, past),
             CaptainsSound(acc, past.edited, past.deactivated)
      PROVE  CaptainInv'
  <2>1. player' = acc /\ req' \in {req, Crossed(<<>>)}
    BY <1>1 DEF OthersChange
  <2>2. sessHist'.edited = past.edited /\ sessHist'.deactivated = past.deactivated
    BY <1>1 DEF OthersChange, SessionHistory
  <2>3. \A f \in Forms : req'[f].kind = req[f].kind /\ req'[f].step = req[f].step
    BY <2>1, CrossedRequests
  <2>4. player[Me].version > 0 => player'[Me].version > 0
    BY <1>0, <1>1, <2>1 DEF Grows, Account
  <2>5. CaptainsSound(player, sessHist.edited, sessHist.deactivated)'
    BY <1>1, <2>1, <2>2 DEF CaptainsSound, ActiveCaptains
  <2> QED BY <2>3, <2>4, <2>5 DEF CaptainInv
<1>2. ASSUME NEW p \in Players, OtherJoins(p) PROVE CaptainInv'
  <2>1. p # Me /\ ~player[p].team /\ OthersChange(JoinTeam(player, p), sessHist)
    BY <1>2 DEF OtherJoins
  <2>2. player[p].version > 0
    BY <1>s, <1>v, <2>1 DEF CaptainsSound
  <2> QED BY <1>1, <1>h, <1>s, <2>1, <2>2, AccountsGrow, JoinKeepsCaptain
<1>3. ASSUME NEW p \in Players, SetPlayerActive(p) PROVE CaptainInv'
  <2>0. player[p].version > 0
    BY <1>3 DEF SetPlayerActive
  <2>1. CASE player[p].active
    <3> DEFINE acc == [player EXCEPT ![p].active = FALSE]
               past == [sessHist EXCEPT !.deactivated = TRUE]
    <3>1. past \in SessionHistory /\ past.edited = sessHist.edited /\ past.deactivated
      BY <1>h DEF SessionHistory
    <3>2. OthersChange(acc, past) /\ Grows(acc)
      BY <1>3, <2>1, AccountsGrow DEF SetPlayerActive
    <3>3. /\ ~acc[p].active /\ acc[p].team = player[p].team /\ acc[p].role = player[p].role
          /\ acc[p].version = player[p].version
          /\ \A x \in Players \ {p} : acc[x] = player[x]
      BY <1>0 DEF Account
    <3> HIDE DEF acc, past
    <3>4. \A x \in ActiveCaptains(acc) : x \in ActiveCaptains(player)
      BY <3>3 DEF ActiveCaptains
    <3>5. CaptainsSound(acc, past.edited, past.deactivated)
      BY <1>s, <2>0, <3>1, <3>3, <3>4 DEF CaptainsSound
    <3> QED BY <1>1, <3>1, <3>2, <3>5
  <2>2. CASE ~player[p].active
    <3>1. OthersChange(Reactivate(player, p), sessHist)
      BY <1>3, <2>2 DEF SetPlayerActive
    <3> QED BY <1>1, <1>h, <1>s, <2>0, <2>2, <3>1, AccountsGrow, ReactivateKeepsCaptain
  <2> QED BY <2>1, <2>2
<1>4. ASSUME NEW p \in Players, UpdateAdminPlayer(p) PROVE CaptainInv'
  <2> DEFINE past == [sessHist EXCEPT !.edited = TRUE]
  <2>1. past \in SessionHistory /\ past.edited /\ past.deactivated = sessHist.deactivated
    BY <1>h DEF SessionHistory
  <2>2. PICK r \in Roles : OthersChange([player EXCEPT ![p].role = r], past)
    BY <1>4 DEF UpdateAdminPlayer
  <2> DEFINE acc == [player EXCEPT ![p].role = r]
  <2>3. Grows(acc)
    BY AccountsGrow
  <2>4. /\ acc[p].active = player[p].active /\ acc[p].version = player[p].version
        /\ \A x \in Players \ {p} : acc[x] = player[x]
    BY <1>0 DEF Account
  <2>5. OthersChange(acc, past)
    BY <2>2
  <2>6. player[p].version > 0
    BY <1>4 DEF UpdateAdminPlayer
  <2> HIDE DEF acc, past
  <2>7. CaptainsSound(acc, past.edited, past.deactivated)
    BY <1>s, <2>1, <2>4, <2>6 DEF CaptainsSound
  <2> QED BY <1>1, <2>1, <2>3, <2>5, <2>7
<1>5. ASSUME NEW p \in Players, NEW q \in Players, OtherTransfers(p, q) PROVE CaptainInv'
  <2>1. MayTransfer(player, p, q) /\ OthersChange(TransferTeamCaptain(player, p, q), sessHist)
    BY <1>5 DEF OtherTransfers
  <2>2. p # q
    BY <2>1 DEF MayTransfer
  <2> QED BY <1>1, <1>h, <1>s, <2>1, <2>2, AccountsGrow, TransferKeepsCaptain
<1>6. ASSUME UNCHANGED player, sessHist'.edited = sessHist.edited,
             sessHist'.deactivated = sessHist.deactivated,
             \A f \in Forms : req'[f].step = "authorized" /\ req'[f].kind \in {"join", "password"}
                                => req'[f] = req[f] \/ player[Me].version > 0
      PROVE  CaptainInv'
  BY <1>6 DEF CaptainInv, CaptainsSound, ActiveCaptains
<1>7. CASE CookieExpires \/ (\E t \in Tabs : LoadPage(t)) \/ UNCHANGED sessionVars
  BY <1>6, <1>7 DEF CookieExpires, LoadPage, sessionVars
<1>8. ASSUME NEW t \in Tabs, FormAction(t) PROVE CaptainInv'
  <2>1. PICK f \in Forms, s \in PlayerRequest :
          s.step = "sent" /\ req' = [req EXCEPT ![f] = s] /\ UNCHANGED <<player, sessHist>>
    BY <1>8, FormSends
  <2> QED BY <1>0, <1>6, <2>1
<1>9. ASSUME NEW f \in Forms, Authorize(f) PROVE CaptainInv'
  <2>1. UNCHANGED <<player, sessHist>> /\ \A g \in Forms \ {f} : req'[g] = req[g]
    BY <1>0, <1>9 DEF Authorize, Step
  <2>2. CASE Valid(req[f].sent)
    <3>1. player[Me].version > 0
      BY <2>2 DEF Valid, TokenOf
    <3> QED BY <1>6, <2>1, <3>1
  <2>3. CASE ~Valid(req[f].sent)
    <3>1. req'[f].kind = req[f].kind
      BY <1>0, <1>9 DEF Authorize, Step, PlayerRequest
    <3>2. req'[f].step = "authorized" => req[f].kind \in {"login", "register", "logout"}
      BY <1>0, <1>9, <2>3 DEF Authorize, Step, PlayerRequest
    <3> QED BY <1>6, <2>1, <3>1, <3>2
  <2> QED BY <2>2, <2>3
<1>10. ASSUME NEW f \in Forms, Reject(f) PROVE CaptainInv'
  <2>1. UNCHANGED <<player, sessHist>> /\ \A g \in Forms \ {f} : req'[g] = req[g]
    BY <1>0, <1>10 DEF Reject, Step
  <2>2. req'[f].step = "failed"
    BY <1>0, <1>10 DEF Reject, Step, PlayerRequest
  <2> QED BY <1>6, <2>1, <2>2
<1>11. ASSUME NEW f \in Forms, Answered(f) PROVE CaptainInv'
  <2>1. UNCHANGED player /\ \A g \in Forms \ {f} : req'[g] = req[g]
    BY <1>0, <1>11 DEF Answered
  <2>2. req'[f].step \in {"idle", "sent"}
    BY <1>0, <1>11 DEF Answered, NoRequest
  <2>3. sessHist'.edited = sessHist.edited /\ sessHist'.deactivated = sessHist.deactivated
    BY <1>11, <1>h DEF Answered, SessionHistory
  <2> QED BY <1>6, <2>1, <2>2, <2>3
<1>12. ASSUME NEW f \in Forms, Execute(f) PROVE CaptainInv'
  <2> DEFINE r == req[f]
  <2>1. r \in PlayerRequest /\ r.step = "authorized" /\ Accepts(r) /\ player' = Stored(r)
    BY <1>0, <1>12 DEF Execute
  <2>2. sessHist'.edited = sessHist.edited /\ sessHist'.deactivated = sessHist.deactivated
    BY <1>12, <1>h DEF Execute, SessionHistory
  <2>3. PICK base \in {req, Crossed(f)}, step \in {"ok", "failed"} :
          req' = [base EXCEPT ![f].step = step, ![f].seen = Issued(req[f])]
    BY <1>12 DEF Execute
  <2>4. /\ base \in [Forms -> PlayerRequest]
        /\ \A g \in Forms : base[g].kind = req[g].kind /\ base[g].step = req[g].step
    BY <1>0, CrossedRequests
  <2>5. req'[f].step = step /\ \A g \in Forms \ {f} : req'[g] = base[g]
    BY <2>3, <2>4 DEF PlayerRequest
  <2>6. player[Me].version > 0 => player'[Me].version > 0
    BY <1>0, <2>1, AccountsGrow DEF Grows, Account
  <2>7. CaptainsSound(Stored(r), sessHist.edited, sessHist.deactivated)
    <3>1. CASE r.kind = "register"
      <4> DEFINE acc == Stored(r)
      <4>1. /\ acc[Me].version = 1 /\ acc[Me].active
            /\ acc[Me].role = player[Me].role /\ acc[Me].team = player[Me].team
            /\ \A x \in Players \ {Me} : acc[x] = player[x]
        BY <1>0, <3>1 DEF Stored, Account
      <4>2. player[Me].role = "member" /\ ~player[Me].team
        BY <1>s, <2>1, <3>1 DEF Accepts, CaptainsSound
      <4> HIDE DEF acc
      <4>3. ActiveCaptains(acc) = ActiveCaptains(player)
        BY <4>1, <4>2 DEF ActiveCaptains
      <4>4. CaptainsSound(acc, sessHist.edited, sessHist.deactivated)
        BY <1>s, <4>1, <4>2, <4>3 DEF CaptainsSound
      <4> QED BY <4>4 DEF acc
    <3>2. CASE r.kind = "join"
      <4>1. ~player[Me].team /\ player[Me].version > 0
        BY <2>1, <3>2 DEF Accepts, CaptainInv
      <4>2. Stored(r) = JoinTeam(player, Me)
        BY <3>2 DEF Stored
      <4> QED BY <1>h, <1>s, <4>1, <4>2, JoinKeepsCaptain
    <3>3. CASE r.kind = "password"
      <4> DEFINE acc == Stored(r)
      <4>0. player[Me].version > 0
        BY <2>1, <3>3 DEF CaptainInv
      <4>1. /\ acc[Me].version = player[Me].version + 1 /\ acc[Me].active = player[Me].active
            /\ acc[Me].role = player[Me].role /\ acc[Me].team = player[Me].team
            /\ \A x \in Players \ {Me} : acc[x] = player[x]
        BY <1>0, <3>3 DEF Stored, Account
      <4>2. acc[Me].version # 0 /\ player[Me].version # 0
        BY <1>0, <4>0, <4>1
      <4> HIDE DEF acc
      <4>3. ActiveCaptains(acc) = ActiveCaptains(player)
        BY <4>1 DEF ActiveCaptains
      <4>4. CaptainsSound(acc, sessHist.edited, sessHist.deactivated)
        BY <1>s, <4>1, <4>2, <4>3 DEF CaptainsSound
      <4> QED BY <4>4 DEF acc
    <3>4. CASE r.kind = "transfer"
      <4>1. MayTransfer(player, Me, r.to) /\ r.to \in Players
        BY <2>1, <3>4 DEF Accepts, PlayerRequest
      <4>2. Stored(r) = TransferTeamCaptain(player, Me, r.to)
        BY <3>4 DEF Stored
      <4> QED BY <1>h, <1>s, <4>1, <4>2, TransferKeepsCaptain
    <3>5. CASE r.kind \notin {"register", "join", "password", "transfer"}
      <4>1. Stored(r) = player
        BY <3>5 DEF Stored
      <4> QED BY <1>s, <4>1
    <3> QED BY <3>1, <3>2, <3>3, <3>4, <3>5
  <2>8. CaptainsSound(player, sessHist.edited, sessHist.deactivated)'
    BY <2>1, <2>2, <2>7 DEF CaptainsSound, ActiveCaptains
  <2> QED BY <2>4, <2>5, <2>6, <2>8 DEF CaptainInv
<1> QED
  BY <1>2, <1>3, <1>4, <1>5, <1>7, <1>8, <1>9, <1>10, <1>11, <1>12 DEF SessionNext, FormAction

-----------------------------------------------------------------------------
(* The cookie.                                                             *)

\* Every step of the session keeps what was read and issued current, or crossed.
LEMMA CookieStep == SessionTypes /\ CookieInv /\ [SessionNext]_sessionVars => CookieInv'
<1> SUFFICES ASSUME SessionTypes, CookieInv, [SessionNext]_sessionVars PROVE CookieInv'
  OBVIOUS
<1> USE SessionAssumption
<1>0. /\ player \in [Players -> Account] /\ req \in [Forms -> PlayerRequest]
      /\ \A f \in Forms : req[f].kind = "none" <=> req[f].step = "idle"
  BY DEF SessionTypes
<1>h. sessHist \in SessionHistory
  BY DEF SessionTypes, SessionHistory
<1>1. ASSUME NEW acc, NEW past \in SessionHistory, OthersChange(acc, past),
             past.outdated = sessHist.outdated
      PROVE  CookieInv'
  <2>1. /\ player' = acc /\ cookie' = cookie
        /\ req' = IF TokenOf(acc[Me]) # TokenOf(player[Me]) THEN Crossed(<<>>) ELSE req
    BY <1>1 DEF OthersChange
  <2>2. sessHist'.outdated = (sessHist.outdated \/ TokenOf(acc[Me]) # TokenOf(player[Me]))
    BY <1>1 DEF OthersChange, SessionHistory
  <2>3. CASE TokenOf(acc[Me]) # TokenOf(player[Me])
    <3>1. \A g \in Forms : g # <<>>
      BY DEF Forms
    <3>2. \A g \in Forms : req'[g].step = req[g].step /\ (req[g].step # "idle" => req'[g].crossed)
      BY <1>0, <2>1, <2>3, <3>1, CrossedRequests
    <3> QED BY <2>2, <2>3, <3>2 DEF CookieInv
  <2>4. CASE TokenOf(acc[Me]) = TokenOf(player[Me])
    <3>1. TokenOf(player'[Me]) = TokenOf(player[Me]) /\ UNCHANGED <<cookie, req>>
      BY <2>1, <2>4
    <3>2. sessHist'.outdated = sessHist.outdated
      BY <1>h, <2>2, <2>4 DEF SessionHistory
    <3> QED BY <3>1, <3>2 DEF CookieInv
  <2> QED BY <2>3, <2>4
<1>2. ASSUME \/ \E p \in Players : OtherJoins(p) \/ SetPlayerActive(p) \/ UpdateAdminPlayer(p)
             \/ \E p, q \in Players : OtherTransfers(p, q)
      PROVE  CookieInv'
  <2>1. /\ [sessHist EXCEPT !.deactivated = TRUE] \in SessionHistory
        /\ [sessHist EXCEPT !.deactivated = TRUE].outdated = sessHist.outdated
        /\ [sessHist EXCEPT !.edited = TRUE] \in SessionHistory
        /\ [sessHist EXCEPT !.edited = TRUE].outdated = sessHist.outdated
    BY <1>h DEF SessionHistory
  <2> QED
    BY <1>1, <1>2, <1>h, <2>1 DEF OtherJoins, SetPlayerActive, UpdateAdminPlayer, OtherTransfers
<1>3. CASE CookieExpires
  BY <1>3 DEF CookieExpires, CookieInv
<1>4. CASE (\E t \in Tabs : LoadPage(t)) \/ UNCHANGED sessionVars
  BY <1>4 DEF LoadPage, sessionVars, CookieInv
<1>5. ASSUME NEW t \in Tabs, FormAction(t) PROVE CookieInv'
  <2>1. PICK f \in Forms, s \in PlayerRequest :
          /\ s.step = "sent" /\ Free(f) /\ req' = [req EXCEPT ![f] = s]
          /\ UNCHANGED <<player, cookie, sessHist>>
    BY <1>5, FormSends
  <2>2. req[f].step = "idle"
    BY <1>0, <2>1 DEF Free
  <2> QED BY <1>0, <2>1, <2>2 DEF CookieInv
<1>6. ASSUME NEW f \in Forms, Authorize(f) PROVE CookieInv'
  <2>1. /\ UNCHANGED <<player, cookie, sessHist>> /\ req[f].step = "sent"
        /\ \A g \in Forms \ {f} : req'[g] = req[g]
    BY <1>0, <1>6 DEF Authorize, Step
  <2>2. \/ req'[f].step = "failed"
        \/ req'[f].step = "authorized" /\ req'[f].seen = TokenOf(player[Me])
    BY <1>0, <1>6 DEF Authorize, Step, PlayerRequest
  <2> QED BY <2>1, <2>2 DEF CookieInv
<1>7. ASSUME NEW f \in Forms, Reject(f) PROVE CookieInv'
  <2>1. /\ UNCHANGED <<player, cookie, sessHist>> /\ req[f].step = "authorized"
        /\ \A g \in Forms \ {f} : req'[g] = req[g]
    BY <1>0, <1>7 DEF Reject, Step
  <2>2. req'[f].step = "failed"
    BY <1>0, <1>7 DEF Reject, Step, PlayerRequest
  <2> QED BY <2>1, <2>2 DEF CookieInv
<1>8. ASSUME NEW f \in Forms, Answered(f) PROVE CookieInv'
  <2>1. player' = player /\ \A g \in Forms \ {f} : req'[g] = req[g]
    BY <1>0, <1>8 DEF Answered
  <2>2. req'[f].step \in {"idle", "sent"}
    BY <1>0, <1>8 DEF Answered, NoRequest
  <2>3. CASE req[f].step = "ok"
    <3>1. cookie' = req[f].seen /\ sessHist'.outdated = req[f].crossed
      BY <1>8, <1>h, <2>3 DEF Answered, SessionHistory
    <3> QED BY <2>1, <2>2, <2>3, <3>1 DEF CookieInv
  <2>4. CASE req[f].step # "ok"
    <3>1. cookie' = cookie /\ sessHist'.outdated = sessHist.outdated
      BY <1>8, <1>h, <2>4 DEF Answered, SessionHistory
    <3> QED BY <2>1, <2>2, <2>4, <3>1 DEF CookieInv
  <2> QED BY <2>3, <2>4
<1>9. ASSUME NEW f \in Forms, Execute(f) PROVE CookieInv'
  <2>1. /\ req[f] \in PlayerRequest /\ req[f].step = "authorized" /\ Accepts(req[f])
        /\ player' = Stored(req[f]) /\ cookie' = cookie
    BY <1>0, <1>9 DEF Execute
  <2> DEFINE base == IF TokenOf(player'[Me]) # TokenOf(player[Me]) THEN Crossed(f) ELSE req
  <2>2. PICK step \in {"ok", "failed"} :
          /\ req' = [base EXCEPT ![f].step = step, ![f].seen = Issued(req[f])]
          /\ step = "failed" => sessHist'.outdated
          /\ step = "ok" => sessHist' = sessHist
    <3> DEFINE own == [base EXCEPT ![f].step = "ok", ![f].seen = Issued(req[f])]
    <3>1. \/ req' = own /\ UNCHANGED sessHist
          \/ /\ req' = [own EXCEPT ![f].step = "failed"]
             /\ sessHist' = [sessHist EXCEPT !.outdated = TRUE]
      BY <1>9, Zenon DEF Execute
    <3>2. CASE req' = own /\ UNCHANGED sessHist
      BY <3>2
    <3>3. CASE /\ req' = [own EXCEPT ![f].step = "failed"]
               /\ sessHist' = [sessHist EXCEPT !.outdated = TRUE]
      <4>1. sessHist'.outdated
        BY <1>h, <3>3 DEF SessionHistory
      <4>2. req' = [base EXCEPT ![f].step = "failed", ![f].seen = Issued(req[f])]
        BY <3>3
      <4> QED BY <4>1, <4>2
    <3> QED BY <3>1, <3>2, <3>3
  <2>3. /\ base \in [Forms -> PlayerRequest] /\ base[f] = req[f]
        /\ \A g \in Forms : base[g].step = req[g].step /\ base[g].seen = req[g].seen
    BY <1>0, CrossedRequests
  <2>4. \A g \in Forms \ {f} :
          \/ base[g] = req[g] /\ TokenOf(player'[Me]) = TokenOf(player[Me])
          \/ base[g].step = "idle" \/ base[g].crossed
    BY <1>0, CrossedRequests
  <2> HIDE DEF base
  <2>5. /\ req'[f].step = step /\ req'[f].seen = Issued(req[f])
        /\ req'[f].crossed = req[f].crossed
        /\ \A g \in Forms \ {f} : req'[g] = base[g]
    BY <2>2, <2>3 DEF PlayerRequest
  <2>6. ~req[f].crossed => Issued(req[f]) \in {NoToken, TokenOf(player'[Me])}
    <3>1. CASE req[f].kind = "logout"
      BY <3>1 DEF Issued
    <3>2. ASSUME req[f].kind = "password", ~req[f].crossed
          PROVE  Issued(req[f]) = TokenOf(player'[Me])
      <4>1. req[f].seen = TokenOf(player[Me])
        BY <2>1, <3>2 DEF CookieInv
      <4>2. Issued(req[f]) = [TokenOf(player[Me]) EXCEPT !.version = player[Me].version + 1]
        BY <3>2, <4>1 DEF Issued
      <4>3. player'[Me] = [player[Me] EXCEPT !.version = player[Me].version + 1]
        BY <1>0, <2>1, <3>2 DEF Stored
      <4>4. player[Me] \in Account
        BY <1>0
      <4> QED BY <4>2, <4>3, <4>4 DEF TokenOf, Account
    <3>3. CASE req[f].kind \notin {"logout", "password"}
      BY <2>1, <3>3 DEF Issued
    <3> QED BY <3>1, <3>2, <3>3
  <2>7. \A g \in Forms : ~req'[g].crossed =>
          /\ req'[g].step = "authorized" => req'[g].seen = TokenOf(player'[Me])
          /\ req'[g].step = "ok" => req'[g].seen \in {NoToken, TokenOf(player'[Me])}
    BY <2>4, <2>5, <2>6 DEF CookieInv
  <2>8. sessHist'.outdated \/ \E g \in Forms : req'[g].step = "ok"
    BY <2>2, <2>5
  <2> QED BY <2>7, <2>8 DEF CookieInv
<1> QED
  BY <1>2, <1>3, <1>4, <1>5, <1>6, <1>7, <1>8, <1>9 DEF SessionNext, FormAction

\* The accounts, the cookie, the pages and the requests keep their types, and no
\* token is ever newer than its account, for every number of players and tabs.
THEOREM SessionTypeCorrect == Spec => []SessionTypeOK
<1>1. SessionTypes => SessionTypeOK
  BY DEF SessionTypes, SessionTypeOK, Account, PlayerRequest
<1> QED
  BY <1>1, SessionInside, SessionTypeStart, SessionTypeStep, PTL DEF SessionSafety

\* A team has at most one active captain, and one as long as nobody was
\* deactivated; and at rest the browser's token is the account's own, unless
\* others changed it or an answer was lost or crossed: for every number of
\* players, tabs and requests, however joins, transfers, deactivations and the
\* requests of the forms interleave.
THEOREM AccountsAreSound == Spec => []AccountIsSound
<1>1. SessionTypes /\ (\E open \in BOOLEAN : SessionStart(open)) => CookieInv
  <2> SUFFICES ASSUME SessionTypes, NEW open \in BOOLEAN, SessionStart(open) PROVE CookieInv
    OBVIOUS
  <2>1. cookie = TokenOf(player[Me]) /\ \A f \in Forms : req[f].step = "idle"
    BY SessionParts DEF SessionStart
  <2> QED BY <2>1 DEF CookieInv
<1>2. CaptainInv => SingleCaptain
  <2> SUFFICES ASSUME CaptainInv, ~sessHist.edited
               PROVE  /\ Cardinality(ActiveCaptains(player)) <= 1
                      /\ {p \in Players : player[p].team} # {} /\ ~sessHist.deactivated
                           => ActiveCaptains(player) # {}
    BY DEF SingleCaptain
  <2>1. \A p, q \in ActiveCaptains(player) : p = q
    BY DEF CaptainInv, CaptainsSound
  <2>2. Cardinality(ActiveCaptains(player)) <= 1
    <3>1. CASE ActiveCaptains(player) = {}
      BY <3>1, FS_EmptySet
    <3>2. ASSUME NEW p \in ActiveCaptains(player)
          PROVE  Cardinality(ActiveCaptains(player)) <= 1
      <4>1. ActiveCaptains(player) = {p}
        BY <2>1
      <4> QED BY <4>1, FS_Singleton
    <3> QED BY <3>1, <3>2
  <2> QED BY <2>2 DEF CaptainInv, CaptainsSound
<1>3. SessionTypes /\ CookieInv => CookieIsCurrent
  BY DEF SessionTypes, CookieInv, CookieIsCurrent, Free
<1>4. SessionTypes /\ CaptainInv /\ CookieInv => AccountIsSound
  BY <1>2, <1>3 DEF AccountIsSound
<1> QED
  BY <1>1, <1>4, SessionInside, SessionTypeStart, SessionTypeStep, CaptainStart, CaptainStep,
     CookieStep, PTL DEF SessionSafety

-----------------------------------------------------------------------------
(* The live feed.                                                          *)

FeedSafety == (\E open \in BOOLEAN : FeedStart(open)) /\ [][FeedNext]_feedVars

AnyFilter == [team : Teams, offset : Nat]
FetchRecord == [kind : {"none", "own", "silent"}, filter : AnyFilter, asOf : Int, edited : BOOLEAN]

\* The frames under way are in the order they were sent, the last one is the
\* gateway's last, and nothing tells of more rows than there are.
FeedTypes ==
    /\ feed \in Feeds
    /\ entries \in Nat /\ published \in 0..entries
    /\ queue \in Seq(Nat) /\ \A i \in 1..Len(queue) : queue[i] \in 0..entries
    /\ queue # <<>> => queue[Len(queue)] = published
    /\ form \in AnyFilter /\ page.filter \in AnyFilter /\ page.asOf \in 0..entries
    /\ reqs \in [Slots -> FetchRecord] /\ \A s \in Slots : reqs[s].asOf \in -1..entries
    /\ pending \in BOOLEAN
    /\ left \in [requests : Nat, edits : Nat, rows : Nat] /\ entries + left.rows <= MaxRows
    /\ hist \in [dirty : BOOLEAN, disturbed : BOOLEAN, missed : BOOLEAN, mixed : BOOLEAN]

\* PageFollowsForm made inductive: as long as requests did not overlap there is
\* one, and pendingAction says so; it asks for what is in the form, unless the
\* form was touched since.
FollowInv ==
    ~hist.disturbed =>
      /\ \A s, t \in InFlight : s = t
      /\ \A s \in InFlight :
           /\ pending
           /\ reqs[s].kind = "own" => hist.dirty /\ (reqs[s].edited \/ reqs[s].filter = form)
           /\ reqs[s].kind = "silent" => hist.dirty \/ reqs[s].filter = form
      /\ hist.dirty \/ page.filter = form

\* A request for the live page that has been answered with all that was published.
Fresh(s) == reqs[s].kind # "none" /\ reqs[s].filter = DefaultFilters /\ reqs[s].asOf >= published

\* LivePageIsCurrent made inductive: with no frame under way, the live page has
\* what was published or a fresh answer is still to come; and an answer that is
\* not fresh will be seen to be older than the page.
CurrentInv ==
    (queue = <<>> /\ ~hist.missed /\ (LiveMode \/ feed.viewer = "organizer")) =>
      \/ \E s \in Slots : Fresh(s)
      \/ /\ page.filter = DefaultFilters => page.asOf >= published
         /\ \A s \in Slots :
              (reqs[s].kind # "none" /\ reqs[s].filter = DefaultFilters /\ reqs[s].asOf >= 0)
                => page.asOf > reqs[s].asOf

\* The composed pages behave, on the feed's variables, as the feed does.
LEMMA FeedInside == Spec => FeedSafety
<1>1. Init => \E open \in BOOLEAN : FeedStart(open)
  BY DEF Init
<1>2. [Next]_vars => [FeedNext]_feedVars
  BY DEF Next, vars
<1> QED
  BY <1>1, <1>2, PTL DEF Spec, FeedSafety

FeedHistory == [dirty : BOOLEAN, disturbed : BOOLEAN, missed : BOOLEAN, mixed : BOOLEAN]
FeedLeft == [requests : Nat, edits : Nat, rows : Nat]

\* Every feed has a page size, and the values a feed starts from are of their kinds.
LEMMA FeedParts ==
  /\ \A f \in Feeds : f.limit \in Nat \ {0}
  /\ DefaultFilters \in AnyFilter /\ DefaultFilters.offset = 0
  /\ NoFetch \in FetchRecord /\ NoFetch.kind = "none" /\ NoFetch.asOf = -1
  /\ NoFetch.filter = DefaultFilters /\ ~NoFetch.edited
<1>1. \A f \in Feeds : f.limit \in Nat \ {0}
  BY FeedAssumption DEF Feeds
<1>2. DefaultFilters \in AnyFilter /\ DefaultFilters.offset = 0
  BY DEF DefaultFilters, AnyFilter, Teams
<1>3. NoFetch \in FetchRecord
  BY <1>2 DEF NoFetch, FetchRecord
<1> QED BY <1>1, <1>2, <1>3 DEF NoFetch

\* The page of a frame or of an answer has its filter and its age, whatever rows
\* it is put together from.
LEMMA PageFields ==
  ASSUME NEW f, NEW n, NEW current
  PROVE  /\ Query(f, n).filter = f /\ Query(f, n).asOf = n
         /\ Frame(n).filter = DefaultFilters /\ Frame(n).asOf = n
         /\ Merge(current, Frame(n)).filter = DefaultFilters
         /\ Merge(current, Frame(n)).asOf = n
<1>1. Query(f, n).filter = f /\ Query(f, n).asOf = n
  BY DEF Query
<1>2. Frame(n).filter = DefaultFilters /\ Frame(n).asOf = n
  BY DEF Frame
<1>3. ASSUME NEW items
      PROVE  /\ [Frame(n) EXCEPT !.items = items].filter = DefaultFilters
             /\ [Frame(n) EXCEPT !.items = items].asOf = n
  BY DEF Frame
<1>4. \/ Merge(current, Frame(n)) = Frame(n)
      \/ \E items : Merge(current, Frame(n)) = [Frame(n) EXCEPT !.items = items]
  BY DEF Merge
<1> QED BY <1>1, <1>2, <1>3, <1>4

\* The buttons of a feed.
Button(s) == ApplyFilters(s) \/ ResetFilters(s) \/ PageFeed(s) \/ RefreshFeed(s) \/ ResetEmptyView(s)

\* Each asks for what it puts in the form, which is at most one page further on.
LEMMA ButtonFetches ==
  ASSUME FeedTypes, NEW s \in Slots, Button(s)
  PROVE  \E f \in AnyFilter :
           /\ FetchForm(s, f)
           /\ \/ f.offset \in {0, form.offset} \/ f.offset = form.offset + feed.limit
              \/ f.offset = form.offset - feed.limit
<1>0. form \in AnyFilter /\ feed.limit \in Nat \ {0}
  BY FeedParts DEF FeedTypes
<1>1. CASE ApplyFilters(s)
  <2>1. [form EXCEPT !.offset = 0] \in AnyFilter /\ [form EXCEPT !.offset = 0].offset = 0
    BY <1>0 DEF AnyFilter
  <2> QED BY <1>1, <2>1 DEF ApplyFilters
<1>2. CASE ResetFilters(s) \/ ResetEmptyView(s)
  BY <1>2, FeedParts DEF ResetFilters, ResetEmptyView
<1>3. CASE RefreshFeed(s)
  BY <1>0, <1>3 DEF RefreshFeed
<1>4. CASE PageFeed(s)
  <2>1. PICK direction \in {"prev", "next"} : FetchForm(s, PageOffset(form, direction))
    BY <1>4 DEF PageFeed
  <2> DEFINE f == PageOffset(form, direction)
  <2>2. PICK n \in Nat : /\ f = [form EXCEPT !.offset = n]
                         /\ \/ n = 0 \/ n = form.offset + feed.limit
                            \/ n = form.offset - feed.limit
    <3>1. form.offset \in Nat
      BY <1>0 DEF AnyFilter
    <3> QED BY <1>0, <3>1 DEF PageOffset
  <2>3. f \in AnyFilter /\ f.offset = n
    BY <1>0, <2>2 DEF AnyFilter
  <2> QED BY <2>1, <2>2, <2>3
<1> QED BY <1>1, <1>2, <1>3, <1>4 DEF Button

\* What a button or a game action does to the requests.
LEMMA FetchSends ==
  ASSUME FeedTypes, NEW s \in Slots, NEW kind \in {"own", "silent"}, NEW f \in AnyFilter,
         Fetch(s, kind, f)
  PROVE  \E r \in FetchRecord :
           /\ r.kind = kind /\ r.filter = f /\ r.asOf = -1 /\ ~r.edited
           /\ reqs' = [reqs EXCEPT ![s] = r] /\ reqs[s].kind = "none"
           /\ left.requests > 0 /\ left' \in FeedLeft /\ left'.requests = left.requests - 1
           /\ left'.rows = left.rows /\ pending'
           /\ UNCHANGED <<feed, entries, published, page>>
<1> DEFINE r == [NoFetch EXCEPT !.kind = kind, !.filter = f]
<1>1. r \in FetchRecord /\ r.kind = kind /\ r.filter = f /\ r.asOf = -1 /\ ~r.edited
  BY FeedParts DEF FetchRecord
<1>2. left \in FeedLeft /\ left.requests > 0 /\ left.requests - 1 \in Nat
  BY DEF Fetch, FeedTypes, FeedLeft
<1>3. left' = [left EXCEPT !.requests = left.requests - 1]
  BY DEF Fetch
<1>4. left' \in FeedLeft /\ left'.requests = left.requests - 1 /\ left'.rows = left.rows
  BY <1>2, <1>3 DEF FeedLeft
<1>5. /\ reqs' = [reqs EXCEPT ![s] = r] /\ reqs[s].kind = "none" /\ pending'
      /\ UNCHANGED <<feed, entries, published, page>>
  BY DEF Fetch, InFlight
<1> HIDE DEF r
<1> QED BY <1>1, <1>2, <1>4, <1>5

\* The feed starts with values of their kinds.
LEMMA FeedTypeStart == (\E open \in BOOLEAN : FeedStart(open)) => FeedTypes
<1> SUFFICES ASSUME NEW open \in BOOLEAN, FeedStart(open) PROVE FeedTypes
  OBVIOUS
<1>1. feed \in Feeds
  <2>1. PICK n \in Limits : TRUE
    BY FeedAssumption
  <2>2. [viewer |-> "organizer", name |-> "attacks", limit |-> n] \in Feeds
    BY DEF Feeds
  <2> QED BY <2>2 DEF FeedStart
<1>2. entries \in 0..1 /\ published = entries /\ queue = <<>> /\ form = DefaultFilters
  BY DEF FeedStart
<1>3. page.filter = DefaultFilters /\ page.asOf = entries
  BY PageFields DEF FeedStart
<1>4. reqs = [s \in Slots |-> NoFetch] /\ pending = FALSE
  BY DEF FeedStart
<1>5. left \in FeedLeft /\ entries + left.rows <= MaxRows
  <2>1. CASE open
    BY <1>2, <2>1, FeedAssumption DEF FeedStart, FeedLeft
  <2>2. CASE ~open
    BY <2>2, FeedAssumption DEF FeedStart, FeedLeft
  <2> QED BY <2>1, <2>2
<1>6. hist \in FeedHistory
  BY DEF FeedStart, FeedHistory
<1>7. queue \in Seq(Nat) /\ Len(queue) = 0
  BY <1>2
<1>8. reqs \in [Slots -> FetchRecord] /\ \A s \in Slots : reqs[s].asOf = -1
  BY <1>4, FeedParts
<1>9. entries \in Nat /\ published \in 0..entries /\ page.asOf \in 0..entries /\ -1 \in -1..entries
  BY <1>2, <1>3
<1>10. form \in AnyFilter /\ page.filter \in AnyFilter /\ pending \in BOOLEAN
  BY <1>2, <1>3, <1>4, FeedParts
<1> QED
  BY <1>1, <1>2, <1>5, <1>6, <1>7, <1>8, <1>9, <1>10 DEF FeedTypes, FeedLeft, FeedHistory

\* Every step of the feed keeps the values of their kinds.
LEMMA FeedTypeStep == FeedTypes /\ [FeedNext]_feedVars => FeedTypes'
<1> SUFFICES ASSUME FeedTypes, [FeedNext]_feedVars PROVE FeedTypes'
  OBVIOUS
<1>0. /\ entries \in Nat /\ published \in 0..entries /\ queue \in Seq(Nat)
      /\ reqs \in [Slots -> FetchRecord] /\ left \in FeedLeft /\ hist \in FeedHistory
      /\ form \in AnyFilter
  BY DEF FeedTypes, FeedLeft, FeedHistory
<1>q. ASSUME queue' \in {queue, <<published>>} /\ UNCHANGED <<entries, published>>
      PROVE  /\ queue' \in Seq(Nat) /\ \A i \in 1..Len(queue') : queue'[i] \in 0..entries
             /\ queue' # <<>> => queue'[Len(queue')] = published
  <2>1. CASE queue' = queue
    BY <2>1 DEF FeedTypes
  <2>2. CASE queue' = <<published>>
    <3>1. queue' \in Seq(Nat) /\ Len(queue') = 1 /\ queue'[1] = published
      BY <1>0, <2>2
    <3> QED BY <1>0, <3>1
  <2> QED BY <1>q, <2>1, <2>2
<1>1. CASE EditForm
  <2>1. form' \in AnyFilter
    BY <1>0, <1>1 DEF EditForm, AnyFilter
  <2>2. \A s \in Slots : [reqs[s] EXCEPT !.edited = TRUE] \in FetchRecord
                         /\ [reqs[s] EXCEPT !.edited = TRUE].asOf = reqs[s].asOf
    BY <1>0 DEF FetchRecord
  <2>3. reqs' = [s \in Slots |-> [reqs[s] EXCEPT !.edited = TRUE]]
    BY <1>1 DEF EditForm
  <2>4. reqs' \in [Slots -> FetchRecord] /\ \A s \in Slots : reqs'[s].asOf = reqs[s].asOf
    BY <2>2, <2>3
  <2>5. left' \in FeedLeft /\ left'.rows = left.rows
    <3>1. left.edits - 1 \in Nat /\ left' = [left EXCEPT !.edits = left.edits - 1]
      BY <1>0, <1>1 DEF EditForm, FeedLeft
    <3> QED BY <1>0, <3>1 DEF FeedLeft
  <2>6. hist' \in FeedHistory
    BY <1>0, <1>1 DEF EditForm, FeedHistory
  <2>7. queue' \in {queue, <<published>>} /\ UNCHANGED <<feed, entries, published, page, pending>>
    BY <1>1 DEF EditForm, Restream
  <2> QED BY <1>q, <2>1, <2>4, <2>5, <2>6, <2>7 DEF FeedTypes, FeedLeft, FeedHistory
<1>2. ASSUME NEW s \in Slots, NEW kind \in {"own", "silent"}, NEW f \in AnyFilter,
             Fetch(s, kind, f), form' = f, hist' \in FeedHistory, queue' \in {queue, <<published>>}
      PROVE  FeedTypes'
  <2>1. PICK r \in FetchRecord :
           /\ r.asOf = -1 /\ reqs' = [reqs EXCEPT ![s] = r]
           /\ left' \in FeedLeft /\ left'.rows = left.rows /\ pending' \in BOOLEAN
           /\ UNCHANGED <<feed, entries, published, page>>
    <3>1. pending' = TRUE
      BY <1>2 DEF Fetch
    <3> QED BY <1>2, <3>1, FetchSends
  <2>2. reqs' \in [Slots -> FetchRecord] /\ \A t \in Slots : reqs'[t].asOf \in {-1, reqs[t].asOf}
    BY <1>0, <2>1
  <2> QED BY <1>0, <1>2, <1>q, <2>1, <2>2 DEF FeedTypes, FeedLeft, FeedHistory
<1>3. ASSUME NEW s \in Slots, Button(s) PROVE FeedTypes'
  <2>1. PICK f \in AnyFilter : FetchForm(s, f)
    BY <1>3, ButtonFetches
  <2>2. hist' \in FeedHistory
    <3>1. (hist.disturbed \/ InFlight # {}) \in BOOLEAN
      BY <1>0 DEF FeedHistory
    <3> QED BY <1>0, <2>1, <3>1 DEF FetchForm, FeedHistory
  <2> QED BY <1>2, <2>1, <2>2 DEF FetchForm, Restream
<1>4. ASSUME NEW s \in Slots, StartGameAction(s) PROVE FeedTypes'
  BY <1>0, <1>2, <1>4 DEF StartGameAction
<1>5. ASSUME UNCHANGED <<feed, entries, published, queue, form, page, left>>,
             reqs' \in [Slots -> FetchRecord], \A s \in Slots : reqs'[s].asOf \in -1..entries,
             pending' \in BOOLEAN, hist' \in FeedHistory
      PROVE  FeedTypes'
  BY <1>5 DEF FeedTypes, FeedHistory
<1>6. CASE OverlappedActionEnds
  <2>1. hist' \in FeedHistory
    BY <1>0, <1>6 DEF OverlappedActionEnds, FeedHistory
  <2> QED BY <1>0, <1>5, <1>6, <2>1 DEF OverlappedActionEnds, FeedTypes
<1>7. ASSUME NEW s \in Slots, Serve(s) PROVE FeedTypes'
  <2>1. reqs' \in [Slots -> FetchRecord] /\ \A t \in Slots : reqs'[t].asOf \in {entries, reqs[t].asOf}
    <3>1. [reqs[s] EXCEPT !.asOf = entries] \in FetchRecord
          /\ [reqs[s] EXCEPT !.asOf = entries].asOf = entries
      BY <1>0 DEF FetchRecord
    <3>2. reqs' = [reqs EXCEPT ![s] = [reqs[s] EXCEPT !.asOf = entries]]
      BY <1>0, <1>7 DEF Serve
    <3> QED BY <1>0, <3>1, <3>2
  <2>2. hist' \in FeedHistory
    <3>1. (hist.missed /\ ~(reqs[s].filter = DefaultFilters /\ queue = <<>>)) \in BOOLEAN
      BY <1>0 DEF FeedHistory
    <3> QED BY <1>0, <1>7, <3>1 DEF Serve, FeedHistory
  <2> QED BY <1>0, <1>5, <1>7, <2>1, <2>2 DEF Serve, FeedTypes
<1>8. ASSUME NEW s \in Slots, FetchAnswers(s) PROVE FeedTypes'
  <2>1. reqs' \in [Slots -> FetchRecord] /\ \A t \in Slots : reqs'[t].asOf \in {-1, reqs[t].asOf}
    BY <1>0, <1>8, FeedParts DEF FetchAnswers
  <2>2. hist' \in FeedHistory
    <3>1. CASE reqs[s].asOf >= 0 /\ hist' = [hist EXCEPT !.missed = @ \/ reqs[s].asOf < page.asOf,
                !.mixed = FALSE, !.dirty = IF reqs[s].kind = "own" THEN reqs[s].edited ELSE @]
      <4>1. /\ (hist.missed \/ reqs[s].asOf < page.asOf) \in BOOLEAN
            /\ (IF reqs[s].kind = "own" THEN reqs[s].edited ELSE hist.dirty) \in BOOLEAN
        BY <1>0 DEF FeedHistory, FetchRecord
      <4> QED BY <1>0, <3>1, <4>1 DEF FeedHistory
    <3>2. CASE hist' = [hist EXCEPT !.missed = TRUE]
      BY <1>0, <3>2 DEF FeedHistory
    <3> QED BY <1>8, <3>1, <3>2 DEF FetchAnswers
  <2>3. page'.filter \in AnyFilter /\ page'.asOf \in 0..entries
    <3>1. CASE reqs[s].asOf >= 0 /\ page' = Query(reqs[s].filter, reqs[s].asOf)
      <4>1. page'.filter = reqs[s].filter /\ page'.asOf = reqs[s].asOf
        BY <3>1, PageFields
      <4>2. reqs[s].filter \in AnyFilter
        BY <1>0 DEF FetchRecord
      <4>3. reqs[s].asOf \in 0..entries
        BY <1>0, <3>1 DEF FeedTypes
      <4> QED BY <4>1, <4>2, <4>3
    <3>2. CASE page' = page
      BY <3>2 DEF FeedTypes
    <3> QED BY <1>8, <3>1, <3>2 DEF FetchAnswers
  <2>4. UNCHANGED <<feed, entries, published, queue, form, left>> /\ pending' = FALSE
    BY <1>8 DEF FetchAnswers
  <2>5. \A t \in Slots : reqs'[t].asOf \in -1..entries
    <3>1. -1 \in -1..entries
      BY <1>0
    <3> QED BY <2>1, <3>1 DEF FeedTypes
  <2> QED BY <2>1, <2>2, <2>3, <2>4, <2>5 DEF FeedTypes, FeedHistory
<1>9. CASE Record
  <2>1. left' \in FeedLeft /\ left'.rows = left.rows - 1
    <3>1. left.rows - 1 \in Nat /\ left' = [left EXCEPT !.rows = left.rows - 1]
      BY <1>0, <1>9 DEF Record, FeedLeft
    <3> QED BY <1>0, <3>1 DEF FeedLeft
  <2>2. /\ entries' = entries + 1 /\ entries' \in Nat /\ 0..entries \subseteq 0..entries'
        /\ -1..entries \subseteq -1..entries'
    BY <1>0, <1>9 DEF Record
  <2>4. entries' + left'.rows <= MaxRows
    <3>1. left.rows \in Nat
      BY <1>0 DEF FeedLeft
    <3> QED BY <1>0, <2>1, <2>2, <3>1 DEF FeedTypes
  <2>3. UNCHANGED <<feed, published, queue, form, page, reqs, pending, hist>>
    BY <1>9 DEF Record
  <2> QED BY <2>1, <2>2, <2>3, <2>4 DEF FeedTypes, FeedLeft
<1>10. CASE GatewayPublishes
  <2>1. queue' = Append(queue, entries) /\ published' = entries
        /\ UNCHANGED <<feed, entries, form, page, reqs, pending, left, hist>>
    BY <1>10 DEF GatewayPublishes
  <2>2. /\ queue' \in Seq(Nat) /\ Len(queue') = Len(queue) + 1 /\ queue'[Len(queue')] = entries
        /\ \A i \in 1..Len(queue) : queue'[i] = queue[i]
    BY <1>0, <2>1
  <2>3. \A i \in 1..Len(queue') : queue'[i] \in 0..entries
    <3> SUFFICES ASSUME NEW i \in 1..Len(queue') PROVE queue'[i] \in 0..entries
      OBVIOUS
    <3>1. i = Len(queue') \/ i \in 1..Len(queue)
      BY <1>0, <2>2
    <3>2. entries \in 0..entries
      BY <1>0
    <3>3. CASE i \in 1..Len(queue)
      BY <2>2, <3>3 DEF FeedTypes
    <3> QED BY <2>2, <3>1, <3>2, <3>3
  <2> QED BY <1>0, <2>1, <2>2, <2>3 DEF FeedTypes
<1>11. CASE FrameArrives
  <2>1. queue # <<>> /\ queue' = Tail(queue)
        /\ UNCHANGED <<feed, entries, published, form, reqs, pending, left>>
    BY <1>11 DEF FrameArrives
  <2>2. /\ queue' \in Seq(Nat) /\ Head(queue) = queue[1] /\ Len(queue') = Len(queue) - 1
        /\ \A i \in 1..Len(queue') : queue'[i] = queue[i + 1] /\ i + 1 \in 1..Len(queue)
        /\ 1 \in 1..Len(queue)
    BY <1>0, <2>1
  <2>3. /\ \A i \in 1..Len(queue') : queue'[i] \in 0..entries
        /\ queue' # <<>> => queue'[Len(queue')] = published
        /\ Head(queue) \in 0..entries
    BY <1>0, <2>1, <2>2 DEF FeedTypes
  <2>4. /\ page' = page \/ page' = Frame(Head(queue)) \/ page' = Merge(page, Frame(Head(queue)))
    BY <1>11 DEF FrameArrives
  <2>5. page'.filter \in AnyFilter /\ page'.asOf \in 0..entries
    <3>1. CASE page' = page
      BY <3>1 DEF FeedTypes
    <3>2. CASE page' # page
      <4>1. page'.filter = DefaultFilters /\ page'.asOf = Head(queue)
        BY <2>4, <3>2, PageFields
      <4> QED BY <2>3, <4>1, FeedParts
    <3> QED BY <3>1, <3>2
  <2>6. hist' \in FeedHistory
    <3>1. /\ (hist.missed \/ Frame(Head(queue)).asOf < page.asOf) \in BOOLEAN
          /\ (hist.mixed \/ Frame(Head(queue)).asOf < page.asOf) \in BOOLEAN
          /\ (hist.missed \/ (feed.viewer = "organizer" /\ ~LiveMode)) \in BOOLEAN
      BY <1>0 DEF FeedHistory
    <3>2. \/ hist' = [hist EXCEPT !.missed = hist.missed \/ Frame(Head(queue)).asOf < page.asOf,
                                  !.mixed = hist.mixed \/ Frame(Head(queue)).asOf < page.asOf]
          \/ hist' = [hist EXCEPT !.missed = hist.missed \/ (feed.viewer = "organizer" /\ ~LiveMode)]
      BY <1>11 DEF FrameArrives
    <3> QED BY <1>0, <3>1, <3>2 DEF FeedHistory
  <2> QED BY <2>1, <2>2, <2>3, <2>5, <2>6 DEF FeedTypes, FeedHistory
<1>12. CASE HighlightsEnd \/ UNCHANGED feedVars
  BY <1>12 DEF HighlightsEnd, feedVars, FeedTypes
<1> QED
  BY <1>1, <1>3, <1>4, <1>6, <1>7, <1>8, <1>9, <1>10, <1>11, <1>12 DEF FeedNext, Button

\* A button's request is the only one, or overlaps another.
LEMMA FollowStep == FeedTypes /\ FollowInv /\ [FeedNext]_feedVars => FollowInv'
<1> SUFFICES ASSUME FeedTypes, FollowInv, [FeedNext]_feedVars, ~hist'.disturbed PROVE FollowInv'
  BY DEF FollowInv
<1>0. reqs \in [Slots -> FetchRecord] /\ hist \in FeedHistory /\ form \in AnyFilter
  BY DEF FeedTypes, FeedHistory
<1> USE DEF FollowInv, InFlight
<1>1. CASE EditForm
  <2>1. \A s \in Slots : /\ reqs'[s].kind = reqs[s].kind /\ reqs'[s].filter = reqs[s].filter
                         /\ reqs'[s].edited
    BY <1>0, <1>1 DEF EditForm, FetchRecord
  <2>2. hist'.dirty /\ hist'.disturbed = hist.disturbed /\ pending' = pending
    BY <1>0, <1>1 DEF EditForm, FeedHistory
  <2> QED BY <2>1, <2>2
<1>2. ASSUME NEW s \in Slots, Button(s) PROVE FollowInv'
  <2>1. PICK f \in AnyFilter : FetchForm(s, f)
    BY <1>2, ButtonFetches
  <2>2. PICK r \in FetchRecord :
           /\ r.kind = "own" /\ r.filter = f /\ reqs' = [reqs EXCEPT ![s] = r] /\ pending'
    BY <2>1, FetchSends DEF FetchForm
  <2>3. hist'.dirty /\ hist'.disturbed = (hist.disturbed \/ InFlight # {}) /\ form' = f
    BY <1>0, <2>1 DEF FetchForm, FeedHistory
  <2>4. \A t \in Slots : reqs[t].kind = "none"
    BY <2>3
  <2>5. \A t \in Slots : reqs'[t].kind # "none" => t = s /\ reqs'[t] = r
    BY <1>0, <2>2, <2>4
  <2> QED BY <2>2, <2>3, <2>5
<1>3. ASSUME NEW s \in Slots, StartGameAction(s) PROVE FollowInv'
  <2>1. PICK r \in FetchRecord :
           /\ r.kind = "silent" /\ r.filter = form /\ reqs' = [reqs EXCEPT ![s] = r]
           /\ pending' /\ page' = page
    BY <1>0, <1>3, FetchSends DEF StartGameAction
  <2>2. UNCHANGED <<form, hist>> /\ ~pending
    BY <1>3 DEF StartGameAction
  <2>3. \A t \in Slots : reqs[t].kind = "none"
    BY <2>2
  <2>4. \A t \in Slots : reqs'[t].kind # "none" => t = s /\ reqs'[t] = r
    BY <1>0, <2>1, <2>3
  <2> QED BY <2>1, <2>2, <2>4
<1>4. CASE OverlappedActionEnds
  <2>1. hist'.disturbed
    BY <1>0, <1>4 DEF OverlappedActionEnds, FeedHistory
  <2> QED BY <2>1
<1>5. ASSUME NEW s \in Slots, Serve(s) PROVE FollowInv'
  <2>1. \A t \in Slots : /\ reqs'[t].kind = reqs[t].kind /\ reqs'[t].filter = reqs[t].filter
                         /\ reqs'[t].edited = reqs[t].edited
    BY <1>0, <1>5 DEF Serve, FetchRecord
  <2>2. hist'.dirty = hist.dirty /\ hist'.disturbed = hist.disturbed
    BY <1>0, <1>5 DEF Serve, FeedHistory
  <2>3. UNCHANGED <<form, page, pending>>
    BY <1>5 DEF Serve
  <2> QED BY <2>1, <2>2, <2>3
<1>6. ASSUME NEW s \in Slots, FetchAnswers(s) PROVE FollowInv'
  <2>1. reqs' = [reqs EXCEPT ![s] = NoFetch] /\ reqs[s].kind # "none" /\ form' = form
    BY <1>6 DEF FetchAnswers
  <2>2. hist'.disturbed = hist.disturbed
    BY <1>0, <1>6 DEF FetchAnswers, FeedHistory
  <2>3. \A t \in Slots : reqs'[t].kind = "none"
    BY <1>0, <2>1, <2>2, FeedParts
  <2>4. hist'.dirty \/ page'.filter = form
    <3>1. CASE page' = page /\ hist' = [hist EXCEPT !.missed = TRUE]
      BY <1>0, <2>2, <3>1 DEF FeedHistory
    <3>2. CASE page' = Query(reqs[s].filter, reqs[s].asOf)
               /\ hist'.dirty = IF reqs[s].kind = "own" THEN reqs[s].edited ELSE hist.dirty
      <4>1. page'.filter = reqs[s].filter
        BY <3>2, PageFields
      <4>2. reqs[s].kind \in {"own", "silent"}
        BY <1>0, <2>1 DEF FetchRecord
      <4> QED BY <2>1, <2>2, <3>2, <4>1, <4>2
    <3>3. CASE page' # page \/ hist' # [hist EXCEPT !.missed = TRUE]
      BY <1>0, <1>6, <3>2, <3>3 DEF FetchAnswers, FeedHistory
    <3> QED BY <3>1, <3>3
  <2> QED BY <2>1, <2>3, <2>4
<1>7. CASE FrameArrives
  <2>1. UNCHANGED <<form, reqs, pending>>
    BY <1>7 DEF FrameArrives
  <2>2. hist'.dirty = hist.dirty /\ hist'.disturbed = hist.disturbed
    BY <1>0, <1>7 DEF FrameArrives, FeedHistory
  <2>3. page' = page \/ page'.filter = form
    <3>1. \/ page' = page
          \/ LiveMode /\ page' \in {Frame(Head(queue)), Merge(page, Frame(Head(queue)))}
      BY <1>7 DEF FrameArrives, TakesFrame
    <3> QED BY <3>1, PageFields DEF LiveMode
  <2> QED BY <2>1, <2>2, <2>3
<1>8. CASE Record \/ GatewayPublishes \/ HighlightsEnd \/ UNCHANGED feedVars
  BY <1>8 DEF Record, GatewayPublishes, HighlightsEnd, feedVars
<1> QED
  BY <1>1, <1>2, <1>3, <1>4, <1>5, <1>6, <1>7, <1>8 DEF FeedNext, Button

\* A frame that was taken is one less.
LEMMA TailLength ==
  ASSUME NEW q \in Seq(Nat), q # <<>> PROVE Len(Tail(q)) = Len(q) - 1 /\ Len(q) \in Nat
  OBVIOUS

\* A participant's stream starts over when its page becomes live again, and every
\* other way for a frame to be lost on the live page is seen.
LEMMA CurrentStep == FeedTypes /\ CurrentInv /\ [FeedNext]_feedVars => CurrentInv'
<1> SUFFICES ASSUME FeedTypes, CurrentInv, [FeedNext]_feedVars,
                    queue' = <<>>, ~hist'.missed, LiveMode' \/ feed'.viewer = "organizer"
             PROVE  CurrentInv'
  BY DEF CurrentInv
<1>0. /\ reqs \in [Slots -> FetchRecord] /\ hist \in FeedHistory /\ form \in AnyFilter
      /\ entries \in Nat /\ published \in Nat /\ published <= entries
      /\ page.asOf \in Nat /\ \A s \in Slots : reqs[s].asOf \in Int
  BY DEF FeedTypes, FeedHistory, FetchRecord
<1> DEFINE Waiting(s) == reqs[s].kind # "none" /\ reqs[s].filter = DefaultFilters
                           /\ reqs[s].asOf >= 0
<1>l. ASSUME queue = <<>>, ~hist.missed, LiveMode \/ feed.viewer = "organizer"
      PROVE  \/ \E s \in Slots : Fresh(s)
             \/ /\ page.filter = DefaultFilters => page.asOf >= published
                /\ \A s \in Slots : Waiting(s) => page.asOf > reqs[s].asOf
  BY <1>l DEF CurrentInv
<1>r. ASSUME Restream, UNCHANGED <<feed, published>>
      PROVE  queue = <<>> /\ (LiveMode \/ feed.viewer = "organizer")
  <2>1. <<published>> # <<>>
    OBVIOUS
  <2>2. ~(feed.viewer = "participant" /\ LiveMode' # LiveMode) /\ queue' = queue
    BY <1>r, <2>1 DEF Restream
  <2>3. feed.viewer \in {"participant", "organizer"}
    BY DEF FeedTypes, Feeds
  <2> QED BY <1>r, <2>2, <2>3
<1>1. ASSUME UNCHANGED <<published, page>>, queue = <<>>, ~hist.missed,
             LiveMode \/ feed.viewer = "organizer",
             \A s \in Slots : \/ reqs'[s].asOf = -1 /\ reqs[s].kind = "none"
                              \/ /\ reqs'[s].kind = reqs[s].kind /\ reqs'[s].asOf = reqs[s].asOf
                                 /\ reqs'[s].filter = reqs[s].filter
      PROVE  CurrentInv'
  BY <1>0, <1>1, <1>l DEF CurrentInv, Fresh
<1>2. CASE EditForm
  <2>1. \A s \in Slots : /\ reqs'[s].kind = reqs[s].kind /\ reqs'[s].filter = reqs[s].filter
                         /\ reqs'[s].asOf = reqs[s].asOf
    BY <1>0, <1>2 DEF EditForm, FetchRecord
  <2>2. hist'.missed = hist.missed /\ Restream /\ UNCHANGED <<feed, published, page>>
    BY <1>0, <1>2 DEF EditForm, FeedHistory
  <2> QED BY <1>1, <1>r, <2>1, <2>2
<1>3. ASSUME NEW s \in Slots, Button(s) PROVE CurrentInv'
  <2>1. PICK f \in AnyFilter : FetchForm(s, f)
    BY <1>3, ButtonFetches
  <2>2. PICK r \in FetchRecord :
           /\ r.asOf = -1 /\ reqs' = [reqs EXCEPT ![s] = r] /\ reqs[s].kind = "none"
           /\ UNCHANGED <<feed, published, page>>
    BY <2>1, FetchSends DEF FetchForm
  <2>3. hist'.missed = hist.missed /\ Restream
    BY <1>0, <2>1 DEF FetchForm, FeedHistory
  <2> QED BY <1>0, <1>1, <1>r, <2>2, <2>3
<1>4. ASSUME NEW s \in Slots, StartGameAction(s) PROVE CurrentInv'
  <2>1. PICK r \in FetchRecord :
           /\ r.asOf = -1 /\ reqs' = [reqs EXCEPT ![s] = r] /\ reqs[s].kind = "none"
           /\ UNCHANGED <<feed, published, page>>
    BY <1>0, <1>4, FetchSends DEF StartGameAction
  <2>2. UNCHANGED <<form, hist, queue>>
    BY <1>4 DEF StartGameAction
  <2> QED BY <1>0, <1>1, <2>1, <2>2 DEF LiveMode
<1>5. CASE OverlappedActionEnds
  <2>1. hist'.missed = hist.missed
    BY <1>0, <1>5 DEF OverlappedActionEnds, FeedHistory
  <2> QED BY <1>1, <1>5, <2>1 DEF OverlappedActionEnds, LiveMode
<1>6. ASSUME NEW s \in Slots, Serve(s) PROVE CurrentInv'
  <2>1. /\ UNCHANGED <<feed, published, queue, form, page>>
        /\ hist'.missed = (hist.missed /\ ~(reqs[s].filter = DefaultFilters /\ queue = <<>>))
    BY <1>0, <1>6 DEF Serve, FeedHistory
  <2>2. /\ reqs'[s].kind = reqs[s].kind /\ reqs'[s].filter = reqs[s].filter
        /\ reqs'[s].asOf = entries /\ reqs[s].kind # "none" /\ reqs[s].asOf = -1
        /\ \A t \in Slots \ {s} : reqs'[t] = reqs[t]
    BY <1>0, <1>6 DEF Serve, FetchRecord
  <2>3. CASE reqs[s].filter = DefaultFilters
    <3>1. Fresh(s)'
      BY <1>0, <2>1, <2>2, <2>3 DEF Fresh
    <3> QED BY <3>1 DEF CurrentInv
  <2>4. CASE reqs[s].filter # DefaultFilters
    <3>1. ~hist.missed /\ queue = <<>> /\ (LiveMode \/ feed.viewer = "organizer")
      BY <2>1, <2>4 DEF LiveMode
    <3>2. \A t \in Slots : /\ Fresh(t)' <=> Fresh(t)
                           /\ (Waiting(t) <=> Waiting(t)') /\ (Waiting(t) => reqs'[t] = reqs[t])
      BY <2>1, <2>2, <2>4 DEF Fresh
    <3> QED BY <1>l, <2>1, <3>1, <3>2 DEF CurrentInv
  <2> QED BY <2>3, <2>4
<1>7. ASSUME NEW s \in Slots, FetchAnswers(s) PROVE CurrentInv'
  <2>1. /\ reqs' = [reqs EXCEPT ![s] = NoFetch] /\ reqs[s].kind # "none"
        /\ UNCHANGED <<feed, published, queue, form>>
    BY <1>7 DEF FetchAnswers
  <2>2. /\ reqs[s].asOf >= 0 /\ page' = Query(reqs[s].filter, reqs[s].asOf)
        /\ ~hist.missed /\ ~(reqs[s].asOf < page.asOf)
    BY <1>0, <1>7 DEF FetchAnswers, FeedHistory
  <2>3. page'.filter = reqs[s].filter /\ page'.asOf = reqs[s].asOf /\ page'.asOf >= page.asOf
    BY <1>0, <2>2, PageFields
  <2>4. queue = <<>> /\ (LiveMode \/ feed.viewer = "organizer")
    BY <2>1 DEF LiveMode
  <2>5. /\ reqs'[s].kind = "none" /\ \A t \in Slots \ {s} : reqs'[t] = reqs[t]
    BY <1>0, <2>1, FeedParts
  <2>6. CASE \E t \in Slots \ {s} : Fresh(t)
    <3>1. \E t \in Slots : Fresh(t)'
      BY <2>1, <2>5, <2>6 DEF Fresh
    <3> QED BY <3>1 DEF CurrentInv
  <2>7. CASE Fresh(s) /\ ~\E t \in Slots \ {s} : Fresh(t)
    <3>1. page'.asOf >= published
      BY <2>3, <2>7 DEF Fresh
    <3>2. \A t \in Slots : Waiting(t)' => page'.asOf > reqs'[t].asOf
      BY <1>0, <2>3, <2>5, <2>7, <3>1 DEF Fresh
    <3> QED BY <2>1, <3>1, <3>2 DEF CurrentInv
  <2>8. CASE ~\E t \in Slots : Fresh(t)
    <3>1. /\ page.filter = DefaultFilters => page.asOf >= published
          /\ \A t \in Slots : Waiting(t) => page.asOf > reqs[t].asOf
      BY <1>l, <2>2, <2>4, <2>8
    <3>2. ~Waiting(s)
      BY <1>0, <2>2, <3>1
    <3>3. page'.filter # DefaultFilters
      BY <2>1, <2>2, <2>3, <3>2
    <3>4. \A t \in Slots : Waiting(t)' => page'.asOf > reqs'[t].asOf
      BY <1>0, <2>3, <2>5, <3>1
    <3> QED BY <3>3, <3>4 DEF CurrentInv
  <2> QED BY <2>6, <2>7, <2>8
<1>8. CASE GatewayPublishes
  <2>1. queue' = Append(queue, entries) /\ queue \in Seq(Nat)
    BY <1>8 DEF GatewayPublishes, FeedTypes
  <2>2. Len(queue') = Len(queue) + 1 /\ Len(queue) \in Nat
    BY <1>0, <2>1
  <2>3. Len(<<>>) = 0
    OBVIOUS
  <2>4. Len(queue') = 0
    BY <2>3
  <2> QED BY <2>2, <2>4
<1>9. CASE FrameArrives
  <2>1. queue # <<>> /\ queue' = Tail(queue) /\ UNCHANGED <<feed, published, form, reqs>>
    BY <1>9 DEF FrameArrives
  <2>2. Head(queue) = published
    <3>1. queue \in Seq(Nat) /\ queue[Len(queue)] = published
      BY <2>1 DEF FeedTypes
    <3>2. Len(queue) = 1
      <4>1. Len(queue') = Len(queue) - 1 /\ Len(queue) \in Nat
        BY <2>1, <3>1, TailLength, Zenon
      <4>2. Len(<<>>) = 0
        OBVIOUS
      <4>3. Len(queue') = 0
        BY <4>2
      <4> QED BY <4>1, <4>3
    <3> QED BY <2>1, <3>1, <3>2
  <2>3. LiveMode
    <3>1. ASSUME ~LiveMode, feed.viewer = "organizer" PROVE hist'.missed
      BY <1>0, <1>9, <3>1 DEF FrameArrives, TakesFrame, FeedHistory
    <3> QED BY <2>1, <3>1 DEF LiveMode
  <2>4. page' \in {Frame(published), Merge(page, Frame(published))}
    BY <1>9, <2>2, <2>3 DEF FrameArrives, TakesFrame
  <2>5. page'.asOf = published
    BY <2>4, PageFields
  <2> QED BY <1>0, <2>1, <2>5 DEF CurrentInv, Fresh
<1>10. CASE Record \/ HighlightsEnd \/ UNCHANGED feedVars
  BY <1>1, <1>10 DEF Record, HighlightsEnd, feedVars, LiveMode
<1> QED
  BY <1>2, <1>3, <1>4, <1>5, <1>6, <1>7, <1>8, <1>9, <1>10 DEF FeedNext, Button

\* The page on the screen is the one the form asks for, as long as requests do
\* not overlap, and a live page at rest has the newest row unless a frame or an
\* answer was lost on it: for every page size, and any number of rows, requests
\* and edits.
THEOREM PagesAreCurrent == Spec => []PageIsCurrent
<1>1. FeedTypes /\ (\E open \in BOOLEAN : FeedStart(open)) => FollowInv /\ CurrentInv
  <2> SUFFICES ASSUME FeedTypes, NEW open \in BOOLEAN, FeedStart(open) PROVE FollowInv /\ CurrentInv
    OBVIOUS
  <2>1. \A s \in Slots : reqs[s].kind = "none"
    BY FeedParts DEF FeedStart
  <2>2. form = DefaultFilters /\ published = entries /\ entries \in Nat
    BY DEF FeedStart, FeedTypes
  <2>3. page.filter = DefaultFilters /\ page.asOf = entries
    BY PageFields DEF FeedStart
  <2> QED BY <2>1, <2>2, <2>3 DEF FollowInv, CurrentInv, InFlight
<1>2. FeedTypes /\ FollowInv /\ CurrentInv => PageIsCurrent
  <2> SUFFICES ASSUME FeedTypes, FollowInv, CurrentInv PROVE PageFollowsForm /\ LivePageIsCurrent
    BY DEF PageIsCurrent
  <2>1. PageFollowsForm
    BY DEF FollowInv, PageFollowsForm
  <2>2. LivePageIsCurrent
    <3> SUFFICES ASSUME LiveMode, page.filter = form, InFlight = {}, queue = <<>>,
                        published = entries, ~hist.missed
                 PROVE  page.asOf = entries
      BY DEF LivePageIsCurrent
    <3>1. page.asOf >= published
      BY DEF CurrentInv, Fresh, InFlight, LiveMode
    <3> QED BY <3>1 DEF FeedTypes
  <2> QED BY <2>1, <2>2
<1> QED
  BY <1>1, <1>2, FeedInside, FeedTypeStart, FeedTypeStep, FollowStep, CurrentStep, PTL
  DEF FeedSafety

-----------------------------------------------------------------------------
(* Types of all parts.                                                     *)

\* The offsets that so many requests can have paged to.
Offsets(k) == {n * feed.limit : n \in 0..k}

\* Every filter is a whole number of pages away from the first, and no more than
\* requests were sent.
FilterInv ==
    LET k == MaxFetches - left.requests
    IN /\ k \in Nat
       /\ form.offset \in Offsets(k) /\ page.filter.offset \in Offsets(k)
       /\ \A s \in Slots : reqs[s].filter.offset \in Offsets(k)

\* A page on or back is a page, and what could be reached before still can.
LEMMA OffsetSteps ==
  ASSUME NEW k \in Nat, feed.limit \in Nat \ {0}
  PROVE  /\ 0 \in Offsets(k) /\ Offsets(k) \subseteq Offsets(k + 1)
         /\ \A o \in Offsets(k) : o + feed.limit \in Offsets(k + 1)
         /\ \A o \in Offsets(k) : o - feed.limit >= 0 => o - feed.limit \in Offsets(k + 1)
<1> DEFINE L == feed.limit
<1>0. L \in Nat /\ L > 0 /\ Offsets(k) = {n * L : n \in 0..k} /\ Offsets(k + 1) = {n * L : n \in 0..(k + 1)}
  BY DEF Offsets
<1> HIDE DEF L
<1>1. 0 * L = 0 /\ 0 \in 0..k /\ 0..k \subseteq 0..(k + 1)
  BY <1>0
<1>2. \A n \in 0..k : n * L + L = (n + 1) * L /\ n + 1 \in 0..(k + 1)
  BY <1>0
<1>3. \A n \in 0..k : n * L - L >= 0 => n * L - L = (n - 1) * L /\ n - 1 \in 0..(k + 1)
  <2> SUFFICES ASSUME NEW n \in 0..k, n * L - L >= 0
               PROVE  n * L - L = (n - 1) * L /\ n - 1 \in 0..(k + 1)
    OBVIOUS
  <2>1. n # 0
    BY <1>0, <1>1
  <2>2. n - 1 \in 0..(k + 1)
    BY <2>1
  <2>3. n * L - L = (n - 1) * L
    BY <1>0
  <2> QED BY <2>2, <2>3
<1>4. 0 \in Offsets(k) /\ Offsets(k) \subseteq Offsets(k + 1)
  BY <1>0, <1>1
<1>5. \A o \in Offsets(k) : o + L \in Offsets(k + 1)
  <2> SUFFICES ASSUME NEW o \in Offsets(k) PROVE o + L \in Offsets(k + 1)
    OBVIOUS
  <2>1. PICK n \in 0..k : o = n * L
    BY <1>0
  <2>2. o + L = (n + 1) * L /\ n + 1 \in 0..(k + 1)
    BY <1>2, <2>1
  <2>3. (n + 1) * L \in {m * L : m \in 0..(k + 1)}
    BY <2>2, Zenon
  <2> QED BY <1>0, <2>2, <2>3, Zenon
<1>6. \A o \in Offsets(k) : o - L >= 0 => o - L \in Offsets(k + 1)
  <2> SUFFICES ASSUME NEW o \in Offsets(k), o - L >= 0 PROVE o - L \in Offsets(k + 1)
    OBVIOUS
  <2>1. PICK n \in 0..k : o = n * L
    BY <1>0
  <2>2. o - L = (n - 1) * L /\ n - 1 \in 0..(k + 1)
    BY <1>3, <2>1
  <2>3. (n - 1) * L \in {m * L : m \in 0..(k + 1)}
    BY <2>2, Zenon
  <2> QED BY <1>0, <2>2, <2>3, Zenon
<1> QED BY <1>4, <1>5, <1>6 DEF L

\* Every step of the feed keeps its filters so.
LEMMA FilterStep == FeedTypes /\ FilterInv /\ [FeedNext]_feedVars => FilterInv'
<1> SUFFICES ASSUME FeedTypes, FilterInv, [FeedNext]_feedVars PROVE FilterInv'
  OBVIOUS
<1> DEFINE k == MaxFetches - left.requests
<1>0. /\ reqs \in [Slots -> FetchRecord] /\ form \in AnyFilter /\ feed.limit \in Nat \ {0}
      /\ left.requests \in Nat /\ MaxFetches \in Nat
  BY FeedParts, FeedAssumption DEF FeedTypes
<1>k. /\ k \in Nat /\ form.offset \in Offsets(k) /\ page.filter.offset \in Offsets(k)
      /\ \A s \in Slots : reqs[s].filter.offset \in Offsets(k)
  BY DEF FilterInv
<1>1. ASSUME left'.requests = left.requests, feed' = feed, form'.offset \in Offsets(k),
             page'.filter.offset \in Offsets(k), \A s \in Slots : reqs'[s].filter.offset \in Offsets(k)
      PROVE  FilterInv'
  BY <1>1, <1>k DEF FilterInv, Offsets
<1>2. ASSUME NEW s \in Slots, NEW kind \in {"own", "silent"}, NEW f \in AnyFilter,
             Fetch(s, kind, f), form' = f, f.offset \in Offsets(k + 1)
      PROVE  FilterInv'
  <2>1. PICK r \in FetchRecord :
          /\ r.filter = f /\ reqs' = [reqs EXCEPT ![s] = r] /\ left'.requests = left.requests - 1
          /\ UNCHANGED <<feed, page>>
    BY <1>2, FetchSends
  <2>2. MaxFetches - left'.requests = k + 1 /\ k + 1 \in Nat
    BY <1>0, <1>k, <2>1
  <2>3. Offsets(k) \subseteq Offsets(k + 1)
    BY <1>0, <1>k, OffsetSteps
  <2>4. \A t \in Slots : reqs'[t].filter.offset \in Offsets(k + 1)
    BY <1>0, <1>2, <1>k, <2>1, <2>3
  <2>5. form'.offset \in Offsets(k + 1) /\ page'.filter.offset \in Offsets(k + 1)
    BY <1>2, <1>k, <2>1, <2>3
  <2> HIDE DEF k
  <2> QED BY <2>1, <2>2, <2>4, <2>5 DEF FilterInv, Offsets
<1>3. CASE EditForm
  <2>1. form'.offset = form.offset /\ UNCHANGED <<feed, page>>
    BY <1>0, <1>3 DEF EditForm, AnyFilter
  <2>2. \A s \in Slots : reqs'[s].filter = reqs[s].filter
    BY <1>0, <1>3 DEF EditForm, FetchRecord
  <2>3. left'.requests = left.requests
    BY <1>3 DEF EditForm, FeedTypes
  <2> QED BY <1>1, <1>k, <2>1, <2>2, <2>3
<1>4. ASSUME NEW s \in Slots, Button(s) PROVE FilterInv'
  <2>1. PICK f \in AnyFilter :
          /\ FetchForm(s, f)
          /\ \/ f.offset \in {0, form.offset} \/ f.offset = form.offset + feed.limit
             \/ f.offset = form.offset - feed.limit
    BY <1>4, ButtonFetches
  <2>2. f.offset \in Offsets(k + 1)
    <3>1. f.offset \in Nat
      BY DEF AnyFilter
    <3> HIDE DEF k
    <3> QED BY <1>0, <1>k, <2>1, <3>1, OffsetSteps
  <2> QED BY <1>2, <2>1, <2>2 DEF FetchForm
<1>5. ASSUME NEW s \in Slots, StartGameAction(s) PROVE FilterInv'
  <2>1. form.offset \in Offsets(k + 1)
    BY <1>0, <1>k, OffsetSteps
  <2> QED BY <1>0, <1>2, <1>5, <2>1 DEF StartGameAction
<1>6. ASSUME NEW s \in Slots, Serve(s) PROVE FilterInv'
  <2>1. \A t \in Slots : reqs'[t].filter = reqs[t].filter
    BY <1>0, <1>6 DEF Serve, FetchRecord
  <2> QED BY <1>1, <1>6, <1>k, <2>1 DEF Serve
<1>7. ASSUME NEW s \in Slots, FetchAnswers(s) PROVE FilterInv'
  <2>1. \A t \in Slots : reqs'[t].filter \in {reqs[t].filter, DefaultFilters}
    BY <1>0, <1>7, FeedParts DEF FetchAnswers
  <2>2. page'.filter \in {page.filter, reqs[s].filter}
    BY <1>7, PageFields DEF FetchAnswers
  <2>3. DefaultFilters.offset \in Offsets(k)
    BY <1>0, <1>k, FeedParts, OffsetSteps
  <2>4. UNCHANGED <<feed, form, left>>
    BY <1>7 DEF FetchAnswers
  <2> QED BY <1>1, <1>k, <2>1, <2>2, <2>3, <2>4
<1>8. CASE FrameArrives
  <2>1. page' = page \/ page' \in {Frame(Head(queue)), Merge(page, Frame(Head(queue)))}
    BY <1>8 DEF FrameArrives
  <2>2. page'.filter \in {page.filter, DefaultFilters}
    BY <2>1, PageFields
  <2>3. DefaultFilters.offset \in Offsets(k)
    BY <1>0, <1>k, FeedParts, OffsetSteps
  <2> QED BY <1>1, <1>8, <1>k, <2>2, <2>3 DEF FrameArrives
<1>9. CASE Record
  <2>1. left'.requests = left.requests
    BY <1>9 DEF Record, FeedTypes
  <2> QED BY <1>1, <1>9, <1>k, <2>1 DEF Record
<1>10. CASE OverlappedActionEnds \/ GatewayPublishes \/ HighlightsEnd \/ UNCHANGED feedVars
  BY <1>1, <1>10, <1>k DEF OverlappedActionEnds, GatewayPublishes, HighlightsEnd, feedVars
<1> QED
  BY <1>3, <1>4, <1>5, <1>6, <1>7, <1>8, <1>9, <1>10 DEF FeedNext, Button

\* The services page, the session, and the feed with its frames, filters and
\* requests keep their types, for every value of the constants.
THEOREM ParticipantTypeCorrect == Spec => []ParticipantTypeOK
<1>1. FeedTypes /\ (\E open \in BOOLEAN : FeedStart(open)) => FilterInv
  <2> SUFFICES ASSUME FeedTypes, NEW open \in BOOLEAN, FeedStart(open) PROVE FilterInv
    OBVIOUS
  <2>1. \A s \in Slots : reqs[s].filter = DefaultFilters
    BY FeedParts DEF FeedStart
  <2>2. form = DefaultFilters /\ page.filter = DefaultFilters
    BY PageFields DEF FeedStart
  <2>3. MaxFetches - left.requests \in Nat
    BY FeedAssumption DEF FeedStart
  <2>4. feed.limit \in Nat \ {0}
    BY FeedParts DEF FeedTypes
  <2> QED BY <2>1, <2>2, <2>3, <2>4, FeedParts, OffsetSteps DEF FilterInv
<1>2. FeedTypes /\ FilterInv => FeedTypeOK
  <2> SUFFICES ASSUME FeedTypes, FilterInv PROVE FeedTypeOK
    OBVIOUS
  <2>1. entries \in 0..MaxRows
    <3>1. entries \in Nat /\ left.rows \in Nat /\ entries + left.rows <= MaxRows /\ MaxRows \in Nat
      BY FeedAssumption DEF FeedTypes
    <3> QED BY <3>1
  <2>2. \A o \in Offsets(MaxFetches - left.requests) : o \in Offsets(MaxFetches)
    <3>1. 0..(MaxFetches - left.requests) \subseteq 0..MaxFetches
      <4>1. left.requests \in Nat /\ MaxFetches \in Nat
        BY FeedAssumption DEF FeedTypes
      <4> QED BY <4>1
    <3> QED BY <3>1 DEF Offsets
  <2>3. \A f \in AnyFilter : f.offset \in Offsets(MaxFetches) => f \in Filters
    BY DEF AnyFilter, Filters, Offsets
  <2>4. form \in Filters /\ page.filter \in Filters
    BY <2>2, <2>3 DEF FeedTypes, FilterInv
  <2>5. \A s \in Slots : reqs[s].kind \in {"none", "own", "silent"}
    BY DEF FeedTypes, FetchRecord
  <2> QED BY <2>1, <2>4, <2>5 DEF FeedTypes, FeedTypeOK
<1>3. DeskTypeOK /\ SessionTypeOK /\ FeedTypeOK => ParticipantTypeOK
  BY DEF ParticipantTypeOK
<1> QED
  BY <1>1, <1>2, <1>3, DeskWellTyped, SessionTypeCorrect, FeedInside, FeedTypeStart, FeedTypeStep,
     FilterStep, PTL DEF FeedSafety

-----------------------------------------------------------------------------
(* The rows on a page of the feed.  What a filter leaves of a sequence is    *)
(* known from its positions: the k-th of them exists because a set of       *)
(* natural numbers has a least element.                                    *)

\* Every set of natural numbers that is not empty has a least element.
LEMMA LeastNatural ==
  ASSUME NEW T, T \subseteq Nat, T # {}
  PROVE  \E m \in T : \A k \in T : m <= k
<1>1. PICK m \in T : \A k \in T : <<k, m>> \notin OpToRel(<, Nat)
  BY WFMin, NatLessThanWellFounded, Zenon
<1>2. ASSUME NEW k \in T PROVE m <= k
  <2>0. k \in Nat /\ m \in Nat
    OBVIOUS
  <2>1. <<k, m>> \notin {ss \in Nat \X Nat : ss[1] < ss[2]}
    BY <1>1 DEF OpToRel
  <2> QED BY <2>0, <2>1
<1> QED BY <1>2

UpTo(P, m) == {q \in P : q <= m}

\* The part of a set of positions up to a place is finite and grows with it.
LEMMA PositionsUpTo ==
  ASSUME NEW n \in Nat, NEW P, P \subseteq 1..n
  PROVE  /\ IsFiniteSet(P) /\ Cardinality(P) \in Nat /\ Cardinality(P) <= n
         /\ \A m \in Nat : /\ IsFiniteSet(UpTo(P, m))
                           /\ Cardinality(UpTo(P, m)) \in Nat
                           /\ Cardinality(UpTo(P, m)) <= Cardinality(P)
<1>1. IsFiniteSet(1..n) /\ Cardinality(1..n) = n
  BY FS_Interval
<1>2. IsFiniteSet(P) /\ Cardinality(P) <= n
  BY <1>1, FS_Subset
<1>3. Cardinality(P) \in Nat
  BY <1>2, FS_CardinalityType
<1>4. ASSUME NEW m \in Nat
      PROVE  /\ IsFiniteSet(UpTo(P, m))
             /\ Cardinality(UpTo(P, m)) \in Nat
             /\ Cardinality(UpTo(P, m)) <= Cardinality(P)
  <2> DEFINE Q == UpTo(P, m)
  <2>1. Q \in SUBSET P
    BY DEF UpTo
  <2> HIDE DEF Q
  <2>2. IsFiniteSet(Q) /\ Cardinality(Q) <= Cardinality(P)
    BY <1>2, <2>1, FS_Subset
  <2>3. Cardinality(Q) \in Nat
    BY <2>2, FS_CardinalityType
  <2> QED BY <2>2, <2>3 DEF Q
<1> QED BY <1>2, <1>3, <1>4

\* Further on, there are more positions behind, by one where one position is passed.
LEMMA PositionsGrow ==
  ASSUME NEW n \in Nat, NEW P, P \subseteq 1..n
  PROVE  /\ Cardinality(UpTo(P, 0)) = 0 /\ UpTo(P, n) = P
         /\ \A m \in Nat \ {0} :
              Cardinality(UpTo(P, m)) =
                 IF m \in P THEN Cardinality(UpTo(P, m - 1)) + 1 ELSE Cardinality(UpTo(P, m - 1))
         /\ \A p \in P, m \in Nat : m < p => Cardinality(UpTo(P, m)) < Cardinality(UpTo(P, p))
<1>0. \A q \in P : q \in Nat /\ 1 <= q /\ q <= n
  OBVIOUS
<1>u. \A q, m : q \in UpTo(P, m) <=> q \in P /\ q <= m
  BY DEF UpTo
<1>1. UpTo(P, 0) = {} /\ UpTo(P, n) = P
  <2>1. \A q : q \notin UpTo(P, 0)
    <3>1. \A q \in P : ~(q <= 0)
      BY <1>0
    <3> QED BY <1>u, <3>1
  <2>2. \A q : q \in UpTo(P, n) <=> q \in P
    BY <1>0, <1>u
  <2> QED BY <2>1, <2>2
<1>2. ASSUME NEW m \in Nat \ {0}
      PROVE  Cardinality(UpTo(P, m)) =
                 IF m \in P THEN Cardinality(UpTo(P, m - 1)) + 1 ELSE Cardinality(UpTo(P, m - 1))
  <2>1. IsFiniteSet(UpTo(P, m - 1))
    BY PositionsUpTo, m - 1 \in Nat
  <2>2. CASE m \in P
    <3>1. UpTo(P, m) = UpTo(P, m - 1) \cup {m} /\ m \notin UpTo(P, m - 1)
      <4>1. \A q \in P : q <= m <=> q <= m - 1 \/ q = m
        BY <1>0
      <4>2. \A q : q \in UpTo(P, m) <=> q \in UpTo(P, m - 1) \cup {m}
        BY <1>u, <2>2, <4>1
      <4>3. ~(m <= m - 1)
        OBVIOUS
      <4> QED BY <1>u, <4>2, <4>3
    <3> QED BY <2>1, <2>2, <3>1, FS_AddElement
  <2>3. CASE m \notin P
    <3>1. UpTo(P, m) = UpTo(P, m - 1)
      <4>1. \A q \in P : q <= m <=> q <= m - 1
        BY <1>0, <2>3
      <4>2. \A q : q \in UpTo(P, m) <=> q \in UpTo(P, m - 1)
        BY <1>u, <4>1
      <4> QED BY <4>2
    <3> QED BY <2>3, <3>1
  <2> QED BY <2>2, <2>3
<1>3. ASSUME NEW p \in P, NEW m \in Nat, m < p
      PROVE  Cardinality(UpTo(P, m)) < Cardinality(UpTo(P, p))
  <2>0. p \in Nat
    OBVIOUS
  <2>1. /\ IsFiniteSet(UpTo(P, p)) /\ Cardinality(UpTo(P, p)) \in Nat
        /\ Cardinality(UpTo(P, m)) \in Nat
    BY <2>0, PositionsUpTo
  <2>2. UpTo(P, m) \in SUBSET UpTo(P, p) /\ p \in UpTo(P, p) /\ p \notin UpTo(P, m)
    <3>1. p <= p /\ ~(p <= m) /\ \A q \in P : q <= m => q <= p
      BY <1>0, <1>3, <2>0
    <3> QED BY <1>u, <3>1
  <2>3. /\ Cardinality(UpTo(P, m)) <= Cardinality(UpTo(P, p))
        /\ Cardinality(UpTo(P, m)) # Cardinality(UpTo(P, p))
    BY <2>1, <2>2, FS_Subset
  <2> QED BY <2>1, <2>3
<1> QED BY <1>1, <1>2, <1>3, FS_EmptySet

\* There is a position for every number up to their count, the positions are in the
\* order of their numbers, and every position has its number.
LEMMA NthPosition ==
  ASSUME NEW n \in Nat, NEW P, P \subseteq 1..n
  PROVE  /\ \A k \in 1..Cardinality(P) : Nth(P, k) \in P
         /\ \A j, k \in 1..Cardinality(P) : j < k => Nth(P, j) < Nth(P, k)
         /\ \A p \in P : \E k \in 1..Cardinality(P) : Nth(P, k) = p
<1> DEFINE c(m) == Cardinality(UpTo(P, m))
<1>0. /\ Cardinality(P) \in Nat
      /\ \A m \in Nat : c(m) \in Nat /\ c(m) <= Cardinality(P)
  BY PositionsUpTo
<1>1. c(0) = 0 /\ c(n) = Cardinality(P)
  BY PositionsGrow
<1>2. \A m \in Nat \ {0} : c(m) = IF m \in P THEN c(m - 1) + 1 ELSE c(m - 1)
  BY PositionsGrow
<1>3. \A p \in P, m \in Nat : m < p => c(m) < c(p)
  BY PositionsGrow
<1>4. \A k : Nth(P, k) = CHOOSE p \in P : c(p) = k
  BY DEF Nth, UpTo
<1> HIDE DEF c
<1>5. ASSUME NEW k \in 1..Cardinality(P) PROVE \E p \in P : c(p) = k
  <2> DEFINE T == {m \in 0..n : c(m) >= k}
  <2>1. n \in T
    BY <1>0, <1>1
  <2>2. PICK m \in T : \A j \in T : m <= j
    <3>1. T \subseteq Nat
      OBVIOUS
    <3> HIDE DEF T
    <3> QED BY <2>1, <3>1, LeastNatural
  <2>3. m \in Nat \ {0} /\ m \in 1..n /\ c(m) >= k
    BY <1>0, <1>1, <2>2
  <2>4. m - 1 \notin T
    BY <2>2, <2>3
  <2>5. m - 1 \in 0..n /\ ~(c(m - 1) >= k)
    BY <2>3, <2>4
  <2>6. m \in P /\ c(m) = k
    BY <1>0, <1>2, <2>3, <2>5
  <2> QED BY <2>6
<1>6. \A k \in 1..Cardinality(P) : Nth(P, k) \in P /\ c(Nth(P, k)) = k
  BY <1>4, <1>5
<1>7. ASSUME NEW p \in P, NEW q \in P, c(p) <= c(q) PROVE p <= q
  <2>1. p \in Nat /\ q \in Nat
    OBVIOUS
  <2>2. q < p => c(q) < c(p)
    BY <1>3, <2>1
  <2> QED BY <1>0, <1>7, <2>1, <2>2
<1>8. ASSUME NEW j \in 1..Cardinality(P), NEW k \in 1..Cardinality(P), j < k
      PROVE  Nth(P, j) < Nth(P, k)
  <2> DEFINE a == Nth(P, j)  b == Nth(P, k)
  <2>1. a \in P /\ b \in P /\ c(a) = j /\ c(b) = k
    BY <1>6
  <2> HIDE DEF a, b
  <2>2. a <= b /\ a # b /\ a \in Nat /\ b \in Nat
    BY <1>0, <1>7, <1>8, <2>1
  <2>3. a < b
    BY <2>2
  <2> QED BY <2>3 DEF a, b
<1>9. ASSUME NEW p \in P PROVE \E k \in 1..Cardinality(P) : Nth(P, k) = p
  <2> DEFINE k == c(p)
  <2>1. p \in Nat \ {0} /\ k \in Nat /\ k <= Cardinality(P)
    BY <1>0
  <2>2. c(p - 1) \in Nat /\ k = c(p - 1) + 1
    BY <1>0, <1>2, <2>1
  <2>3. k \in 1..Cardinality(P)
    BY <1>0, <2>1, <2>2
  <2>4. Nth(P, k) \in P /\ c(Nth(P, k)) = k
    BY <1>6, <2>3
  <2> DEFINE q == Nth(P, k)
  <2> HIDE DEF q
  <2>5. q \in P /\ q \in Nat /\ c(q) <= c(p) /\ c(p) <= c(q)
    <3>1. q \in P /\ c(q) = c(p)
      BY <2>4 DEF q
    <3>2. q \in Nat
      BY <3>1
    <3> QED BY <2>1, <3>1, <3>2
  <2>6. p <= q /\ q <= p
    BY <1>7, <2>5
  <2>7. q = p
    BY <2>1, <2>5, <2>6
  <2> QED BY <2>3, <2>7 DEF q
<1> QED BY <1>6, <1>8, <1>9

Distinct(s) == \A i, j \in 1..Len(s) : i < j => s[i] # s[j]
Descending(s) == \A i, j \in 1..Len(s) : i < j => s[i] > s[j]

\* The rows that are left after the seen ones are taken out: all the others and
\* only them, in the order they had.
LEMMA WithoutRows ==
  ASSUME NEW seq \in Seq(Nat), NEW seen
  PROVE  /\ Without(seq, seen) \in Seq(Nat)
         /\ \A k \in 1..Len(Without(seq, seen)) :
              \E i \in 1..Len(seq) : Without(seq, seen)[k] = seq[i] /\ seq[i] \notin seen
         /\ \A j, k \in 1..Len(Without(seq, seen)) : j < k =>
              \E a, b \in 1..Len(seq) : a < b /\ Without(seq, seen)[j] = seq[a]
                                              /\ Without(seq, seen)[k] = seq[b]
         /\ Ids(Without(seq, seen)) = Ids(seq) \ seen
<1> DEFINE P == Unseen(seq, seen)
           c == Cardinality(P)
           w == Without(seq, seen)
<1>0. P \subseteq 1..Len(seq) /\ \A i \in 1..Len(seq) : i \in P <=> seq[i] \notin seen
  BY DEF Unseen
<1>1. Len(seq) \in Nat /\ \A i \in 1..Len(seq) : seq[i] \in Nat
  OBVIOUS
<1>2. w = [k \in 1..c |-> seq[Nth(P, k)]]
  BY DEF Without
<1> HIDE DEF P, w
<1>3. /\ \A k \in 1..c : Nth(P, k) \in P
      /\ \A j, k \in 1..c : j < k => Nth(P, j) < Nth(P, k)
      /\ \A p \in P : \E k \in 1..c : Nth(P, k) = p
  BY <1>0, <1>1, NthPosition
<1>4. c \in Nat
  BY <1>0, <1>1, PositionsUpTo
<1> HIDE DEF c
<1>5. \A k \in 1..c : Nth(P, k) \in 1..Len(seq) /\ seq[Nth(P, k)] \in Nat
  BY <1>0, <1>1, <1>3
<1>6. w \in Seq(Nat) /\ Len(w) = c /\ \A k \in 1..c : w[k] = seq[Nth(P, k)]
  BY <1>2, <1>4, <1>5
<1>7. \A k \in 1..Len(w) : \E i \in 1..Len(seq) : w[k] = seq[i] /\ seq[i] \notin seen
  BY <1>0, <1>3, <1>5, <1>6
<1>8. \A j, k \in 1..Len(w) : j < k =>
        \E a, b \in 1..Len(seq) : a < b /\ w[j] = seq[a] /\ w[k] = seq[b]
  BY <1>3, <1>5, <1>6
<1>9. Ids(w) = Ids(seq) \ seen
  <2>1. ASSUME NEW x \in Ids(w) PROVE x \in Ids(seq) \ seen
    BY <1>7 DEF Ids
  <2>2. ASSUME NEW x \in Ids(seq) \ seen PROVE x \in Ids(w)
    <3>1. PICK i \in 1..Len(seq) : x = seq[i]
      BY DEF Ids
    <3>2. i \in P
      BY <1>0, <3>1
    <3>3. PICK k \in 1..c : Nth(P, k) = i
      BY <1>3, <3>2
    <3> QED BY <1>6, <3>1, <3>3 DEF Ids
  <2> QED BY <2>1, <2>2
<1> QED BY <1>6, <1>7, <1>8, <1>9 DEF w

\* A slice of a sequence.
LEMMA SliceRows ==
  ASSUME NEW s \in Seq(Nat), NEW a \in Nat \ {0}, NEW b \in Nat, b <= Len(s)
  PROVE  /\ SubSeq(s, a, b) \in Seq(Nat)
         /\ Len(SubSeq(s, a, b)) = IF a <= b THEN b - a + 1 ELSE 0
         /\ \A i \in 1..Len(SubSeq(s, a, b)) :
              a + i - 1 \in 1..Len(s) /\ SubSeq(s, a, b)[i] = s[a + i - 1]
<1>1. a \in Int /\ b \in Int /\ \A i \in a..b : s[i] \in Nat
  OBVIOUS
<1>2. /\ SubSeq(s, a, b) \in Seq(Nat)
      /\ Len(SubSeq(s, a, b)) = IF a <= b THEN b - a + 1 ELSE 0
      /\ \A i \in 1..(b - a + 1) : SubSeq(s, a, b)[i] = s[a + i - 1]
  BY <1>1, SubSeqProperties
<1> QED BY <1>2

\* The first n rows of a sequence.
LEMMA FirstRows ==
  ASSUME NEW s \in Seq(Nat), NEW n \in Nat
  PROVE  /\ First(s, n) \in Seq(Nat) /\ Len(First(s, n)) <= n /\ Len(First(s, n)) <= Len(s)
         /\ Len(First(s, n)) = n \/ Len(First(s, n)) = Len(s)
         /\ \A i \in 1..Len(First(s, n)) : i \in 1..Len(s) /\ First(s, n)[i] = s[i]
<1> DEFINE h == First(s, n)
<1> DEFINE m == Least(n, Len(s))
<1>1. m \in Nat /\ m <= n /\ m <= Len(s) /\ (m = n \/ m = Len(s))
  BY DEF Least
<1> HIDE DEF m
<1>2. h = SubSeq(s, 1, m)
  BY DEF m, First
<1> HIDE DEF h
<1>3. h \in Seq(Nat) /\ Len(h) = m /\ \A i \in 1..m : h[i] = s[i]
  <2> DEFINE a == 1
  <2>1. a \in Nat \ {0} /\ a = 1
    OBVIOUS
  <2>h. h = SubSeq(s, a, m)
    BY <1>2, Zenon
  <2>m. m \in Nat /\ m <= Len(s) /\ a \in Nat \ {0}
    BY <1>1, <2>1
  <2> HIDE DEF a
  <2>2. /\ h \in Seq(Nat) /\ Len(h) = IF a <= m THEN m - a + 1 ELSE 0
        /\ \A i \in 1..Len(h) : h[i] = s[a + i - 1]
    <3>1. /\ SubSeq(s, a, m) \in Seq(Nat)
          /\ Len(SubSeq(s, a, m)) = IF a <= m THEN m - a + 1 ELSE 0
          /\ \A i \in 1..Len(SubSeq(s, a, m)) : SubSeq(s, a, m)[i] = s[a + i - 1]
      BY <2>m, SliceRows
    <3> QED BY <2>h, <3>1
  <2>3. Len(h) = m
    BY <1>1, <2>1, <2>2
  <2> QED BY <1>1, <2>1, <2>2, <2>3
<1>4. /\ h \in Seq(Nat) /\ Len(h) <= n /\ Len(h) <= Len(s) /\ (Len(h) = n \/ Len(h) = Len(s))
      /\ \A i \in 1..Len(h) : i \in 1..Len(s) /\ h[i] = s[i]
  BY <1>1, <1>3
<1> QED BY <1>4 DEF h

\* A sequence has at most as many different rows as it is long.
LEMMA IdsCount ==
  ASSUME NEW s \in Seq(Nat)
  PROVE  /\ IsFiniteSet(Ids(s)) /\ Cardinality(Ids(s)) \in Nat /\ Cardinality(Ids(s)) <= Len(s)
         /\ Distinct(s) => Cardinality(Ids(s)) = Len(s)
<1> DEFINE f == [i \in 1..Len(s) |-> s[i]]
<1>1. f \in Surjection(1..Len(s), Ids(s))
  BY DEF Surjection, Ids
<1>2. Distinct(s) => f \in Injection(1..Len(s), Ids(s))
  <2> SUFFICES ASSUME Distinct(s) PROVE f \in Injection(1..Len(s), Ids(s))
    OBVIOUS
  <2>1. f \in [1..Len(s) -> Ids(s)]
    BY DEF Ids
  <2>2. ASSUME NEW a \in 1..Len(s), NEW b \in 1..Len(s), f[a] = f[b] PROVE a = b
    <3>1. s[a] = s[b] /\ a \in Int /\ b \in Int
      BY <2>2
    <3>2. ~(a < b) /\ ~(b < a)
      BY <3>1 DEF Distinct
    <3> QED BY <3>1, <3>2
  <2> QED BY <2>1, <2>2 DEF Injection, IsInjective
<1> HIDE DEF f
<1>3. Len(s) \in Nat /\ IsFiniteSet(1..Len(s)) /\ Cardinality(1..Len(s)) = Len(s)
  <2> DEFINE n == Len(s)
  <2>1. n \in Nat /\ n \in Int /\ 1 \in Int
    OBVIOUS
  <2> HIDE DEF n
  <2>2. IsFiniteSet(1..n) /\ Cardinality(1..n) = IF 1 > n THEN 0 ELSE n - 1 + 1
    BY <2>1, FS_Interval
  <2>3. Cardinality(1..n) = n
    BY <2>1, <2>2
  <2> QED BY <2>1, <2>2, <2>3 DEF n
<1>4. /\ IsFiniteSet(Ids(s)) /\ Cardinality(Ids(s)) <= Cardinality(1..Len(s))
      /\ Cardinality(Ids(s)) = Cardinality(1..Len(s)) <=> f \in Injection(1..Len(s), Ids(s))
  BY <1>1, <1>3, FS_Surjection
<1>5. Cardinality(Ids(s)) \in Nat
  BY <1>4, FS_CardinalityType
<1> QED BY <1>2, <1>3, <1>4, <1>5

\* Rows on a page that are all among others of at most as many are the same rows.
LEMMA SameRows ==
  ASSUME NEW s \in Seq(Nat), NEW t \in Seq(Nat), Distinct(s), Len(t) <= Len(s), Ids(s) \subseteq Ids(t)
  PROVE  Ids(t) = Ids(s)
<1>1. /\ IsFiniteSet(Ids(t)) /\ Cardinality(Ids(t)) \in Nat /\ Cardinality(Ids(t)) <= Len(t)
      /\ Cardinality(Ids(s)) = Len(s) /\ Len(s) \in Nat /\ Len(t) \in Nat
  BY IdsCount
<1>2. Cardinality(Ids(s)) <= Cardinality(Ids(t))
  BY <1>1, FS_Subset
<1>3. Cardinality(Ids(t)) = Cardinality(Ids(s))
  BY <1>1, <1>2
<1> QED BY <1>1, <1>3, FS_Subset

\* A sequence whose rows descend has none twice.
LEMMA DescendingDistinct ==
  ASSUME NEW s \in Seq(Nat), Descending(s)
  PROVE  Distinct(s)
<1> SUFFICES ASSUME NEW i \in 1..Len(s), NEW j \in 1..Len(s), i < j PROVE s[i] # s[j]
  BY DEF Distinct
<1>1. s[i] > s[j] /\ s[i] \in Nat /\ s[j] \in Nat
  BY DEF Descending
<1> QED BY <1>1

\* The rows kept behind the streamed ones: no row is there twice; where the kept
\* rows are older they are in order.  As long as there is room for them no streamed
\* row is lost, and nothing at all when the streamed rows were on the page before.
LEMMA MergedRows ==
  ASSUME NEW cur \in Seq(Nat), NEW str \in Seq(Nat), NEW n \in Nat,
         Distinct(cur), Distinct(str), NEW h, h = MergedItems(cur, str, n)
  PROVE  /\ h \in Seq(Nat) /\ Len(h) <= n /\ Distinct(h)
         /\ \A i \in 1..Len(h) : h[i] \in Ids(str) \/ h[i] \in Ids(cur)
         /\ (/\ Descending(cur) /\ Descending(str)
             /\ \A x \in Ids(cur) \ Ids(str), y \in Ids(str) : x < y) => Descending(h)
         /\ Len(str) <= n => Ids(str) \subseteq Ids(h)
         /\ (Ids(str) \subseteq Ids(cur) /\ Len(cur) <= n) => Ids(cur) \subseteq Ids(h)
<1> DEFINE kept == Without(cur, Ids(str))
           all == str \o kept
<1>0. kept \in Seq(Nat) /\ Ids(kept) = Ids(cur) \ Ids(str)
  BY WithoutRows
<1>2. \A j, k \in 1..Len(kept) : j < k =>
        \E a, b \in 1..Len(cur) : a < b /\ kept[j] = cur[a] /\ kept[k] = cur[b]
  BY WithoutRows
<1>3. Distinct(kept) /\ (Descending(cur) => Descending(kept))
  BY <1>2 DEF Distinct, Descending
<1>5. h = First(all, n)
  BY DEF MergedItems
<1> HIDE DEF kept
<1>1. /\ kept \in Seq(Nat) /\ Ids(kept) = Ids(cur) \ Ids(str)
      /\ \A k \in 1..Len(kept) : kept[k] \in Ids(cur) \ Ids(str)
  <2>1. \A k \in 1..Len(kept) : kept[k] \in Ids(kept)
    BY DEF Ids
  <2> QED BY <1>0, <2>1
<1>4. /\ all \in Seq(Nat) /\ Len(all) = Len(str) + Len(kept)
      /\ \A i \in 1..Len(all) : \/ i \in 1..Len(str) /\ all[i] = str[i]
                                \/ /\ i - Len(str) \in 1..Len(kept) /\ i > Len(str)
                                   /\ all[i] = kept[i - Len(str)]
      /\ \A i \in 1..Len(str) : i \in 1..Len(all) /\ all[i] = str[i]
      /\ \A i \in 1..Len(kept) : i + Len(str) \in 1..Len(all) /\ all[i + Len(str)] = kept[i]
  BY <1>1
<1> HIDE DEF all
<1>6. /\ h \in Seq(Nat) /\ Len(h) <= n /\ Len(h) <= Len(all)
      /\ Len(h) = n \/ Len(h) = Len(all)
      /\ \A i \in 1..Len(h) : i \in 1..Len(all) /\ h[i] = all[i]
  <2>1. all \in Seq(Nat)
    BY <1>4
  <2>2. /\ First(all, n) \in Seq(Nat) /\ Len(First(all, n)) <= n /\ Len(First(all, n)) <= Len(all)
        /\ Len(First(all, n)) = n \/ Len(First(all, n)) = Len(all)
        /\ \A i \in 1..Len(First(all, n)) : i \in 1..Len(all) /\ First(all, n)[i] = all[i]
    BY <2>1, FirstRows
  <2> QED BY <1>5, <2>2
<1>7. \A i \in 1..Len(h) : i \in 1..Len(all) /\ h[i] = all[i]
  BY <1>6
<1>8. \A i \in 1..Len(str) : str[i] \in Ids(str) /\ str[i] \in Nat
  BY DEF Ids
<1>9. \A i \in 1..Len(all) : all[i] \in Ids(str) \/ all[i] \in Ids(cur)
  BY <1>1, <1>4, <1>8
<1>10. Distinct(all)
  <2> SUFFICES ASSUME NEW i \in 1..Len(all), NEW j \in 1..Len(all), i < j PROVE all[i] # all[j]
    BY DEF Distinct
  <2>1. CASE i \in 1..Len(str) /\ all[i] = str[i] /\ j \in 1..Len(str) /\ all[j] = str[j]
    BY <2>1 DEF Distinct
  <2>2. CASE i \in 1..Len(str) /\ all[i] = str[i]
             /\ j - Len(str) \in 1..Len(kept) /\ all[j] = kept[j - Len(str)]
    BY <1>1, <1>8, <2>2
  <2>3. CASE /\ i - Len(str) \in 1..Len(kept) /\ all[i] = kept[i - Len(str)] /\ i > Len(str)
             /\ j - Len(str) \in 1..Len(kept) /\ all[j] = kept[j - Len(str)] 
    <3>1. i - Len(str) < j - Len(str)
      OBVIOUS
    <3> QED BY <1>3, <2>3, <3>1 DEF Distinct
  <2>4. ~(j \in 1..Len(str) /\ i > Len(str))
    OBVIOUS
  <2> QED BY <1>4, <2>1, <2>2, <2>3, <2>4
<1>11. ASSUME Descending(cur), Descending(str), \A x \in Ids(cur) \ Ids(str), y \in Ids(str) : x < y
       PROVE  Descending(all)
  <2> SUFFICES ASSUME NEW i \in 1..Len(all), NEW j \in 1..Len(all), i < j PROVE all[i] > all[j]
    BY DEF Descending
  <2>1. CASE i \in 1..Len(str) /\ all[i] = str[i] /\ j \in 1..Len(str) /\ all[j] = str[j]
    BY <1>11, <2>1 DEF Descending
  <2>2. CASE i \in 1..Len(str) /\ all[i] = str[i]
             /\ j - Len(str) \in 1..Len(kept) /\ all[j] = kept[j - Len(str)]
    <3>1. all[i] \in Ids(str) /\ all[j] \in Ids(cur) \ Ids(str) /\ all[i] \in Nat /\ all[j] \in Nat
      <4>1. all[i] \in Nat /\ all[j] \in Nat
        BY <1>4
      <4>2. all[i] \in Ids(str)
        BY <1>8, <2>2
      <4>3. all[j] \in Ids(cur) \ Ids(str)
        BY <1>1, <2>2
      <4> QED BY <4>1, <4>2, <4>3
    <3>2. all[j] < all[i]
      BY <1>11, <3>1
    <3> QED BY <3>1, <3>2
  <2>3. CASE /\ i - Len(str) \in 1..Len(kept) /\ all[i] = kept[i - Len(str)] /\ i > Len(str)
             /\ j - Len(str) \in 1..Len(kept) /\ all[j] = kept[j - Len(str)] 
    <3>1. i - Len(str) < j - Len(str)
      OBVIOUS
    <3>2. Descending(kept)
      BY <1>3, <1>11
    <3> QED BY <2>3, <3>1, <3>2 DEF Descending
  <2>4. ~(j \in 1..Len(str) /\ i > Len(str))
    OBVIOUS
  <2> QED BY <1>4, <2>1, <2>2, <2>3, <2>4
<1>12. ASSUME Ids(str) \subseteq Ids(cur), Len(cur) <= n PROVE Ids(cur) \subseteq Ids(h)
  <2>1. /\ Cardinality(Ids(kept)) = Len(kept) /\ Cardinality(Ids(str)) = Len(str)
        /\ Cardinality(Ids(cur)) = Len(cur) /\ IsFiniteSet(Ids(cur))
        /\ Len(kept) \in Nat /\ Len(str) \in Nat /\ Len(cur) \in Nat
    BY <1>1, <1>3, IdsCount
  <2>2. Ids(cur) \cap Ids(str) = Ids(str)
    BY <1>12
  <2>3. Len(kept) = Len(cur) - Len(str)
    <3>1. Cardinality(Ids(cur) \ Ids(str)) = Cardinality(Ids(cur)) - Cardinality(Ids(cur) \cap Ids(str))
      BY <2>1, FS_Difference
    <3> QED BY <1>1, <2>1, <2>2, <3>1
  <2>4. Len(all) <= n
    BY <1>4, <1>12, <2>1, <2>3
  <2>5. Len(h) = Len(all)
    BY <1>4, <1>6, <2>4
  <2>6. ASSUME NEW x \in Ids(cur) PROVE x \in Ids(h)
    <3>1. \E i \in 1..Len(all) : all[i] = x
      <4>1. CASE x \in Ids(str)
        <5>1. PICK k \in 1..Len(str) : str[k] = x
          BY <4>1 DEF Ids
        <5> QED BY <1>4, <5>1
      <4>2. CASE x \notin Ids(str)
        <5>1. PICK k \in 1..Len(kept) : kept[k] = x
          BY <1>1, <4>2 DEF Ids
        <5> QED BY <1>4, <5>1
      <4> QED BY <4>1, <4>2
    <3> QED BY <1>7, <2>5, <3>1 DEF Ids
  <2> QED BY <2>6
<1>13. Distinct(h) /\ (Descending(all) => Descending(h))
  BY <1>7, <1>10 DEF Distinct, Descending
<1>14. ASSUME Len(str) <= n, NEW x \in Ids(str) PROVE x \in Ids(h)
  <2>1. PICK i \in 1..Len(str) : str[i] = x
    BY DEF Ids
  <2>2. Len(str) <= Len(h)
    BY <1>1, <1>4, <1>6, <1>14
  <2>3. i \in 1..Len(h) /\ h[i] = x
    <3>1. Len(h) \in Nat /\ Len(str) \in Nat
      BY <1>6
    <3>2. i \in 1..Len(h)
      BY <2>2, <3>1
    <3>3. all[i] = x
      BY <1>4, <2>1
    <3> QED BY <1>7, <3>2, <3>3
  <2> QED BY <2>3 DEF Ids
<1> QED BY <1>6, <1>7, <1>9, <1>11, <1>12, <1>13, <1>14

\* The rows a filter selects descend, and were recorded.
LEMMA SelectedRows ==
  ASSUME NEW f, NEW n \in Nat
  PROVE  /\ Selected(f, n) \in Seq(Nat) /\ Descending(Selected(f, n))
         /\ \A i \in 1..Len(Selected(f, n)) : Selected(f, n)[i] \in 1..n
         /\ Selected(DefaultFilters, n) = [i \in 1..n |-> n + 1 - i]
<1> DEFINE odd == (n + 1) \div 2
           every == [i \in 1..n |-> n + 1 - i]
           some == [i \in 1..odd |-> 2 * (odd - i) + 1]
<1>1. Selected(f, n) = every \/ Selected(f, n) = some
  BY Zenon DEF Selected
<1>2. Selected(DefaultFilters, n) = every
  BY Zenon DEF Selected, DefaultFilters
<1>3. odd \in Nat /\ 2 * odd <= n + 1
  OBVIOUS
<1>4. /\ every \in Seq(Nat) /\ Descending(every)
      /\ \A i \in 1..Len(every) : every[i] \in 1..n
  BY DEF Descending
<1> HIDE DEF odd
<1>5. /\ some \in Seq(Nat) /\ Len(some) = odd
      /\ \A i \in 1..odd : some[i] = 2 * (odd - i) + 1 /\ some[i] \in Nat
  BY <1>3
<1> HIDE DEF some
<1>6. Descending(some) /\ \A i \in 1..Len(some) : some[i] \in 1..n
  BY <1>3, <1>5 DEF Descending
<1> HIDE DEF every
<1> QED BY <1>1, <1>2, <1>4, <1>5, <1>6 DEF every

\* An answer is a slice of what its filter selects: its rows descend, there are no
\* more than a page has, and none is newer than the answer.
LEMMA QueryRows ==
  ASSUME NEW f \in AnyFilter, NEW n \in Nat, feed.limit \in Nat, NEW items, items = Query(f, n).items
  PROVE  /\ items \in Seq(Nat) /\ Len(items) <= feed.limit /\ Descending(items)
         /\ \A i \in 1..Len(items) : items[i] \in 1..n
<1> DEFINE all == Selected(f, n)
           a == f.offset + 1
           b == Least(f.offset + feed.limit, Len(all))
<1>1. /\ all \in Seq(Nat) /\ Descending(all) /\ Len(all) \in Nat
      /\ \A i \in 1..Len(all) : all[i] \in 1..n
  BY SelectedRows
<1>2. items = SubSeq(all, a, b)
  BY DEF Query
<1> HIDE DEF all
<1>3. f.offset \in Nat
  BY DEF AnyFilter
<1>4. /\ a \in Nat \ {0} /\ b \in Nat /\ b <= Len(all) /\ b - a + 1 <= feed.limit
  BY <1>1, <1>3 DEF Least
<1> HIDE DEF a, b
<1>5. /\ SubSeq(all, a, b) \in Seq(Nat)
      /\ Len(SubSeq(all, a, b)) = IF a <= b THEN b - a + 1 ELSE 0
      /\ \A i \in 1..Len(SubSeq(all, a, b)) :
           a + i - 1 \in 1..Len(all) /\ SubSeq(all, a, b)[i] = all[a + i - 1]
  BY <1>1, <1>4, SliceRows
<1>6. /\ items \in Seq(Nat) /\ Len(items) = IF a <= b THEN b - a + 1 ELSE 0
      /\ \A i \in 1..Len(items) : a + i - 1 \in 1..Len(all) /\ items[i] = all[a + i - 1]
  BY <1>2, <1>5
<1>7. Len(items) <= feed.limit
  BY <1>4, <1>6
<1>8. \A i \in 1..Len(items) : items[i] \in 1..n
  BY <1>1, <1>6
<1>9. Descending(items)
  <2> SUFFICES ASSUME NEW i \in 1..Len(items), NEW j \in 1..Len(items), i < j
               PROVE  items[i] > items[j]
    BY DEF Descending
  <2>1. /\ a + i - 1 \in 1..Len(all) /\ a + j - 1 \in 1..Len(all) /\ a + i - 1 < a + j - 1
        /\ items[i] = all[a + i - 1] /\ items[j] = all[a + j - 1]
    BY <1>4, <1>6
  <2> QED BY <1>1, <2>1 DEF Descending
<1> QED BY <1>6, <1>7, <1>8, <1>9

\* A frame has the newest rows, one for every number down to its last, or all.
LEMMA FrameRows ==
  ASSUME NEW n \in Nat, NEW items, items = Frame(n).items
  PROVE  /\ items \in Seq(Nat) /\ Len(items) <= StreamLimit /\ Descending(items)
         /\ Len(items) = StreamLimit \/ Len(items) = n
         /\ Ids(items) = (n - Len(items) + 1)..n /\ Len(items) <= n
<1> DEFINE all == Selected(DefaultFilters, n)
<1>1. all = [i \in 1..n |-> n + 1 - i]
  BY SelectedRows
<1>2. items = First(all, StreamLimit) /\ StreamLimit \in Nat
  BY FeedAssumption DEF Frame
<1> HIDE DEF all
<1>3. all \in Seq(Nat) /\ Len(all) = n /\ \A i \in 1..n : all[i] = n + 1 - i
  BY <1>1
<1>4. /\ First(all, StreamLimit) \in Seq(Nat) /\ Len(First(all, StreamLimit)) <= StreamLimit
      /\ Len(First(all, StreamLimit)) <= Len(all)
      /\ Len(First(all, StreamLimit)) = StreamLimit \/ Len(First(all, StreamLimit)) = Len(all)
      /\ \A i \in 1..Len(First(all, StreamLimit)) :
           i \in 1..Len(all) /\ First(all, StreamLimit)[i] = all[i]
  BY <1>2, <1>3, FirstRows
<1>5. /\ items \in Seq(Nat) /\ Len(items) \in Nat /\ Len(items) <= StreamLimit /\ Len(items) <= n
      /\ Len(items) = StreamLimit \/ Len(items) = n
      /\ \A i \in 1..Len(items) : items[i] = n + 1 - i
  BY <1>2, <1>3, <1>4
<1>6. Descending(items)
  BY <1>5 DEF Descending
<1>7. Ids(items) = (n - Len(items) + 1)..n
  <2>1. ASSUME NEW x \in Ids(items) PROVE x \in (n - Len(items) + 1)..n
    <3>1. PICK i \in 1..Len(items) : x = items[i]
      BY DEF Ids
    <3> DEFINE l == Len(items)
    <3>2. x = n + 1 - i /\ i \in 1..l /\ l \in Nat
      BY <1>5, <3>1
    <3> HIDE DEF l
    <3>3. x \in (n - l + 1)..n
      BY <3>2
    <3> QED BY <3>3 DEF l
  <2>2. ASSUME NEW x \in (n - Len(items) + 1)..n PROVE x \in Ids(items)
    <3> DEFINE k == n + 1 - x
    <3>1. k \in 1..Len(items) /\ n + 1 - k = x
      BY <1>5
    <3> HIDE DEF k
    <3>2. items[k] = x
      BY <1>5, <3>1
    <3> QED BY <3>1, <3>2 DEF Ids
  <2> QED BY <2>1, <2>2
<1> QED BY <1>5, <1>6, <1>7

\* The rows marked as new are on the page; when there are none, though some may be
\* marked, every row of the page was there before.
LEMMA NewRows ==
  ASSUME NEW current, NEW next, next.items \in Seq(Nat)
  PROVE  /\ NewAttackIDs(current, next) \subseteq Ids(next.items)
         /\ NewAttackIDs(current, next) # {} => MaxHighlights > 0
         /\ NewAttackIDs(current, next) = {} /\ MaxHighlights > 0
              => Ids(next.items) \subseteq Ids(current.items)
<1> DEFINE seen == Ids(current.items)
           items == next.items
           w == Without(items, seen)
           new == First(w, MaxHighlights)
<1>0. MaxHighlights \in Nat
  BY FeedAssumption
<1>1. w \in Seq(Nat) /\ Ids(w) = Ids(items) \ seen
  BY WithoutRows
<1>2. NewAttackIDs(current, next) = Ids(new)
  BY DEF NewAttackIDs
<1> HIDE DEF seen, items, w
<1>3. /\ new \in Seq(Nat) /\ Len(new) <= MaxHighlights /\ (Len(new) = MaxHighlights \/ Len(new) = Len(w))
      /\ \A i \in 1..Len(new) : i \in 1..Len(w) /\ new[i] = w[i]
  BY <1>0, <1>1, FirstRows
<1> HIDE DEF new
<1>4. Ids(new) \subseteq Ids(w)
  BY <1>3 DEF Ids
<1>5. Ids(new) # {} => MaxHighlights > 0
  BY <1>0, <1>3 DEF Ids
<1>6. ASSUME Ids(new) = {}, MaxHighlights > 0 PROVE Ids(w) = {}
  <2>1. Len(new) = 0
    <3>1. 1 \in 1..Len(new) => new[1] \in Ids(new)
      BY DEF Ids
    <3>2. ~(1 \in 1..Len(new))
      BY <1>6, <3>1
    <3> QED BY <1>3, <3>2
  <2>2. Len(w) = 0
    BY <1>0, <1>1, <1>3, <1>6, <2>1
  <2> QED BY <1>1, <2>2 DEF Ids
<1> QED BY <1>1, <1>2, <1>4, <1>5, <1>6 DEF items, seen

\* The rows of a page, which MergedPageIsSound is about, are numbers, and none is
\* newer than the page unless an older snapshot overtook a newer one.
RowsInv ==
    /\ page.items \in Seq(Nat)
    /\ MergedPageIsSound
    /\ ~hist.mixed => \A i \in 1..Len(page.items) : page.items[i] <= page.asOf

\* HighlightsAreShown made inductive: the frames under way are in order, and rows
\* are only marked on a page of attacks that no later answer replaced: what is still
\* to come is not older than it.
MarksInv ==
    /\ \A i, j \in 1..Len(queue) : i < j => queue[i] <= queue[j]
    /\ HighlightsAreShown
    /\ marked # {} =>
         /\ feed.name = "attacks" /\ MaxHighlights > 0
         /\ page.asOf <= published /\ \A i \in 1..Len(queue) : page.asOf <= queue[i]
         /\ feed.limit <= StreamLimit => \A i \in 1..Len(page.items) : page.items[i] <= page.asOf

\* What a page may show, in the words of the lemmas about rows.
GoodRows(items, limit, known) ==
    /\ items \in Seq(Nat) /\ Len(items) <= limit /\ Distinct(items)
    /\ \A i \in 1..Len(items) : items[i] \in 1..known

\* The two ways to say it.
LEMMA RowsInvParts ==
  /\ RowsInv <=> /\ GoodRows(page.items, feed.limit, entries)
                 /\ ~hist.mixed => /\ Descending(page.items)
                                   /\ \A i \in 1..Len(page.items) : page.items[i] <= page.asOf
<1>1. Ids(page.items) \subseteq 1..entries <=> \A i \in 1..Len(page.items) : page.items[i] \in 1..entries
  BY DEF Ids
<1> QED BY <1>1 DEF RowsInv, MergedPageIsSound, GoodRows, Distinct, Descending

\* The page after a frame: sound, in order unless the frame is older than the page,
\* and when none of its rows is new, with all the rows the page had.
LEMMA FramePage ==
  ASSUME FeedTypes, RowsInv, NEW n \in 0..entries, NEW items,
         \/ items = Frame(n).items
         \/ items = Merge(page, Frame(n)).items
  PROVE  /\ GoodRows(items, feed.limit, entries)
         /\ ~hist.mixed /\ page.asOf <= n => Descending(items) /\ \A i \in 1..Len(items) : items[i] <= n
         /\ feed.limit <= StreamLimit => \A i \in 1..Len(items) : items[i] <= n
         /\ (/\ items = Merge(page, Frame(n)).items /\ Ids(items) \subseteq Ids(page.items)
             /\ feed.limit <= StreamLimit => \A i \in 1..Len(page.items) : page.items[i] <= n)
            => Ids(page.items) \subseteq Ids(items)
<1> DEFINE cur == page.items
           str == Frame(n).items
           limit == feed.limit
<1>0. n \in Nat /\ entries \in Nat /\ n <= entries
  BY DEF FeedTypes
<1>1. limit \in Nat /\ limit >= StreamLimit /\ StreamLimit \in Nat
  BY FeedAssumption DEF FeedTypes, Feeds
<1>2. /\ GoodRows(cur, limit, entries)
      /\ ~hist.mixed => Descending(cur) /\ \A i \in 1..Len(cur) : cur[i] <= page.asOf
  BY RowsInvParts
<1>3. /\ str \in Seq(Nat) /\ Len(str) <= StreamLimit /\ Descending(str)
      /\ Len(str) = StreamLimit \/ Len(str) = n
      /\ Ids(str) = (n - Len(str) + 1)..n /\ Len(str) <= n
  BY <1>0, FrameRows
<1>4. /\ limit <= StreamLimit => Merge(page, Frame(n)).items = str
      /\ ~(limit <= StreamLimit) => Merge(page, Frame(n)).items = MergedItems(cur, str, limit)
  BY DEF Merge, Frame
<1>5. page.asOf \in Nat
  BY DEF FeedTypes
<1> HIDE DEF cur, str, limit
<1>6. Distinct(str)
  BY <1>3, DescendingDistinct
<1>7. \A i \in 1..Len(str) : str[i] \in 1..n /\ str[i] \in 1..entries /\ str[i] <= n
  <2> SUFFICES ASSUME NEW i \in 1..Len(str)
               PROVE  str[i] \in 1..n /\ str[i] \in 1..entries /\ str[i] <= n
    OBVIOUS
  <2>1. str[i] \in (n - Len(str) + 1)..n
    <3>1. str[i] \in Ids(str)
      BY DEF Ids
    <3> QED BY <1>3, <3>1
  <2>2. Len(str) \in Nat
    BY <1>3
  <2> QED BY <1>0, <1>3, <2>1, <2>2
<1>8. Len(str) <= limit
  BY <1>1, <1>3
<1>9. CASE items = str
  <2>1. GoodRows(items, limit, entries)
    BY <1>3, <1>6, <1>7, <1>8, <1>9 DEF GoodRows
  <2>2. Descending(items) /\ \A i \in 1..Len(items) : items[i] <= n
    BY <1>3, <1>7, <1>9
  <2>3. ASSUME items = Merge(page, Frame(n)).items, Ids(str) \subseteq Ids(cur),
               limit <= StreamLimit => \A i \in 1..Len(cur) : cur[i] <= n
        PROVE  Ids(cur) \subseteq Ids(str)
    <3>1. CASE limit <= StreamLimit /\ Len(str) = StreamLimit
      <4>1. Len(cur) <= Len(str) /\ cur \in Seq(Nat)
        BY <1>1, <1>2, <3>1 DEF GoodRows
      <4> QED BY <1>3, <1>6, <2>3, <4>1, SameRows
    <3>2. CASE limit <= StreamLimit /\ Len(str) = n
      <4>1. Ids(str) = 1..n
        BY <1>0, <1>3, <3>2
      <4>2. \A i \in 1..Len(cur) : cur[i] \in 1..n
        BY <1>0, <1>2, <2>3, <3>2 DEF GoodRows
      <4> QED BY <4>1, <4>2 DEF Ids
    <3>3. CASE ~(limit <= StreamLimit)
      <4>1. str = MergedItems(cur, str, limit)
        BY <1>4, <1>9, <2>3, <3>3
      <4>2. cur \in Seq(Nat) /\ Distinct(cur) /\ Len(cur) <= limit
        BY <1>2 DEF GoodRows
      <4> QED BY <1>1, <1>3, <1>6, <2>3, <4>1, <4>2, MergedRows
    <3> QED BY <1>3, <3>1, <3>2, <3>3
  <2> QED BY <1>9, <2>1, <2>2, <2>3 DEF limit, cur
<1>10. CASE items # str
  <2>1. items = MergedItems(cur, str, limit) /\ ~(limit <= StreamLimit)
    BY <1>4, <1>10 DEF str
  <2>2. cur \in Seq(Nat) /\ Distinct(cur) /\ Len(cur) <= limit
        /\ \A i \in 1..Len(cur) : cur[i] \in 1..entries
    BY <1>2 DEF GoodRows
  <2>3. /\ items \in Seq(Nat) /\ Len(items) <= limit /\ Distinct(items)
        /\ \A i \in 1..Len(items) : items[i] \in Ids(str) \/ items[i] \in Ids(cur)
        /\ (/\ Descending(cur) /\ Descending(str)
            /\ \A x \in Ids(cur) \ Ids(str), y \in Ids(str) : x < y) => Descending(items)
        /\ Len(str) <= limit => Ids(str) \subseteq Ids(items)
        /\ (Ids(str) \subseteq Ids(cur) /\ Len(cur) <= limit) => Ids(cur) \subseteq Ids(items)
    BY <1>1, <1>3, <1>6, <2>1, <2>2, MergedRows
  <2>4. /\ \A x \in Ids(str) : x \in 1..entries /\ x <= n
        /\ \A x \in Ids(cur) : x \in 1..entries
    BY <1>7, <2>2 DEF Ids
  <2>5. GoodRows(items, limit, entries)
    BY <2>3, <2>4 DEF GoodRows
  <2>6. ASSUME ~hist.mixed, page.asOf <= n
        PROVE  Descending(items) /\ \A i \in 1..Len(items) : items[i] <= n
    <3>1. \A x \in Ids(cur) : x \in Nat /\ x <= n
      <4>1. \A i \in 1..Len(cur) : cur[i] \in Nat /\ cur[i] <= page.asOf
        BY <1>2, <2>2, <2>6
      <4>2. \A i \in 1..Len(cur) : cur[i] \in Nat /\ cur[i] <= n
        BY <1>0, <1>5, <2>6, <4>1
      <4> QED BY <4>2 DEF Ids
    <3>2. ASSUME NEW x \in Ids(cur) \ Ids(str), NEW y \in Ids(str) PROVE x < y
      <4> DEFINE l == Len(str)
      <4>1. l \in Nat /\ Ids(str) = (n - l + 1)..n
        BY <1>3
      <4> HIDE DEF l
      <4>2. x \in Nat /\ x <= n /\ x \notin (n - l + 1)..n /\ y \in (n - l + 1)..n
        BY <3>1, <3>2, <4>1
      <4> QED BY <1>0, <4>1, <4>2
    <3>3. Descending(items)
      BY <1>2, <1>3, <2>3, <2>6, <3>2
    <3>4. \A i \in 1..Len(items) : items[i] <= n
      BY <2>3, <2>4, <3>1
    <3> QED BY <3>3, <3>4
  <2>7. ASSUME Ids(items) \subseteq Ids(cur) PROVE Ids(cur) \subseteq Ids(items)
    <3>1. Ids(str) \subseteq Ids(items)
      BY <1>8, <2>3
    <3> QED BY <2>2, <2>3, <2>7, <3>1
  <2> QED BY <2>1, <2>5, <2>6, <2>7 DEF limit, cur
<1> QED BY <1>9, <1>10

\* What the arrival of a frame does to the page: nothing, or the frame's page.
LEMMA FrameTaken ==
  ASSUME FeedTypes, FrameArrives
  PROVE  /\ queue # <<>> /\ queue' = Tail(queue) /\ UNCHANGED <<feed, entries, published>>
         /\ Head(queue) = queue[1] /\ Head(queue) \in 0..entries
         /\ \/ UNCHANGED <<page, marked>> /\ hist'.mixed = hist.mixed
            \/ /\ page'.asOf = Head(queue)
               /\ hist'.mixed = (hist.mixed \/ Head(queue) < page.asOf)
               /\ \/ /\ feed.name = "attacks" /\ page' = Merge(page, Frame(Head(queue)))
                     /\ marked' = IF NewAttackIDs(page, page') # {} THEN NewAttackIDs(page, page')
                                  ELSE marked
                  \/ /\ feed.name # "attacks" /\ page' = Frame(Head(queue))
                     /\ marked' = marked
<1> DEFINE n == Head(queue)
<1>1. queue # <<>> /\ queue' = Tail(queue) /\ UNCHANGED <<feed, entries, published>>
  BY DEF FrameArrives
<1>2. queue \in Seq(Nat) /\ Len(queue) \in Nat /\ 1 \in 1..Len(queue) /\ n = queue[1]
  BY <1>1 DEF FeedTypes
<1>3. n \in 0..entries
  BY <1>2 DEF FeedTypes
<1>4. hist \in FeedHistory
  BY DEF FeedTypes, FeedHistory
<1> HIDE DEF n
<1>5. CASE ~TakesFrame
  <2>1. UNCHANGED <<page, marked>>
    BY <1>5 DEF FrameArrives
  <2>2. hist' = [hist EXCEPT !.missed = hist.missed \/ (feed.viewer = "organizer" /\ ~LiveMode)]
    BY <1>5 DEF FrameArrives
  <2>3. hist'.mixed = hist.mixed
    BY <1>4, <2>2 DEF FeedHistory
  <2> QED BY <1>1, <1>2, <1>3, <2>1, <2>3 DEF n
<1>6. CASE TakesFrame
  <2> DEFINE streamed == Frame(n)
             merged == IF feed.name = "attacks" THEN Merge(page, streamed) ELSE streamed
             new == IF feed.name = "attacks" THEN NewAttackIDs(page, merged) ELSE {}
  <2>1. /\ page' = merged /\ marked' = IF new # {} THEN new ELSE marked
        /\ hist' = [hist EXCEPT !.missed = hist.missed \/ streamed.asOf < page.asOf,
                                !.mixed = hist.mixed \/ streamed.asOf < page.asOf]
    BY <1>6 DEF FrameArrives, n
  <2>2. streamed.asOf = n /\ Merge(page, streamed).asOf = n
    BY PageFields
  <2>3. hist'.mixed = (hist.mixed \/ n < page.asOf)
    BY <1>4, <2>1, <2>2 DEF FeedHistory
  <2>4. page'.asOf = n
    BY <2>1, <2>2
  <2>5. CASE feed.name = "attacks"
    BY <1>1, <1>2, <1>3, <2>1, <2>3, <2>4, <2>5 DEF n
  <2>6. CASE feed.name # "attacks"
    BY <1>1, <1>2, <1>3, <2>1, <2>3, <2>4, <2>6 DEF n
  <2> QED BY <2>5, <2>6
<1> QED BY <1>5, <1>6

\* Every step keeps the rows of the page sound.
LEMMA RowsStep == FeedTypes /\ RowsInv /\ [FeedNext]_feedVars => RowsInv'
<1> SUFFICES ASSUME FeedTypes, RowsInv, [FeedNext]_feedVars PROVE RowsInv'
  OBVIOUS
<1>0. /\ entries \in Nat /\ hist \in FeedHistory /\ feed.limit \in Nat /\ page.asOf \in Nat
  BY FeedParts DEF FeedTypes, FeedHistory
<1>1. /\ GoodRows(page.items, feed.limit, entries)
      /\ ~hist.mixed => Descending(page.items)
                        /\ \A i \in 1..Len(page.items) : page.items[i] <= page.asOf
  BY RowsInvParts
<1>2. ASSUME UNCHANGED <<feed, entries, page>>, hist'.mixed = hist.mixed PROVE RowsInv'
  BY <1>2 DEF RowsInv, MergedPageIsSound
<1>3. ASSUME UNCHANGED <<feed, entries>>,
             GoodRows(page'.items, feed.limit, entries),
             ~hist'.mixed => Descending(page'.items)
                             /\ \A i \in 1..Len(page'.items) : page'.items[i] <= page'.asOf
      PROVE  RowsInv'
  <2>1. Ids(page'.items) \subseteq 1..entries
    BY <1>3 DEF GoodRows, Ids
  <2> QED BY <1>3, <2>1 DEF RowsInv, MergedPageIsSound, GoodRows, Distinct, Descending
<1>4. ASSUME NEW s \in Slots, Button(s) \/ StartGameAction(s) PROVE RowsInv'
  <2>1. /\ UNCHANGED <<feed, entries, page>>
    BY <1>4 DEF Button, ApplyFilters, ResetFilters, PageFeed, RefreshFeed, ResetEmptyView,
               StartGameAction, FetchForm, Fetch
  <2>2. \/ hist' = hist
        \/ hist' = [hist EXCEPT !.dirty = TRUE, !.disturbed = hist.disturbed \/ InFlight # {}]
    BY <1>4 DEF Button, ApplyFilters, ResetFilters, PageFeed, RefreshFeed, ResetEmptyView,
               StartGameAction, FetchForm
  <2>3. hist'.mixed = hist.mixed
    BY <1>0, <2>2 DEF FeedHistory
  <2> QED BY <1>2, <2>1, <2>3
<1>5. CASE EditForm
  <2>1. UNCHANGED <<feed, entries, page>> /\ hist' = [hist EXCEPT !.dirty = TRUE]
    BY <1>5 DEF EditForm
  <2>2. hist'.mixed = hist.mixed
    BY <1>0, <2>1 DEF FeedHistory
  <2> QED BY <1>2, <2>1, <2>2
<1>6. CASE OverlappedActionEnds
  <2>1. UNCHANGED <<feed, entries, page>> /\ hist' = [hist EXCEPT !.disturbed = TRUE]
    BY <1>6 DEF OverlappedActionEnds
  <2>2. hist'.mixed = hist.mixed
    BY <1>0, <2>1 DEF FeedHistory
  <2> QED BY <1>2, <2>1, <2>2
<1>7. ASSUME NEW s \in Slots, Serve(s) PROVE RowsInv'
  <2>1. /\ UNCHANGED <<feed, entries, page>>
        /\ hist' = [hist EXCEPT !.missed = @ /\ ~(reqs[s].filter = DefaultFilters /\ queue = <<>>)]
    BY <1>7 DEF Serve
  <2>2. hist'.mixed = hist.mixed
    BY <1>0, <2>1 DEF FeedHistory
  <2> QED BY <1>2, <2>1, <2>2
<1>8. ASSUME NEW s \in Slots, FetchAnswers(s) PROVE RowsInv'
  <2>0. UNCHANGED <<feed, entries>>
    BY <1>8 DEF FetchAnswers
  <2>1. CASE page' = page /\ hist' = [hist EXCEPT !.missed = TRUE]
    <3>1. hist'.mixed = hist.mixed
      BY <1>0, <2>1 DEF FeedHistory
    <3> QED BY <1>2, <2>0, <2>1, <3>1
  <2>2. CASE reqs[s].asOf >= 0 /\ page' = Query(reqs[s].filter, reqs[s].asOf)
    <3> DEFINE f == reqs[s].filter
               n == reqs[s].asOf
    <3>1. f \in AnyFilter /\ n \in 0..entries
      BY <2>2 DEF FeedTypes, FetchRecord
    <3>2. page'.items = Query(f, n).items /\ page'.asOf = n
      BY <2>2, PageFields
    <3> HIDE DEF f, n
    <3> DEFINE items == page'.items
    <3>3. n \in Nat /\ n <= entries
      BY <1>0, <3>1
    <3>4. items = Query(f, n).items
      BY <3>2
    <3> HIDE DEF items
    <3>5. /\ items \in Seq(Nat) /\ Len(items) <= feed.limit /\ Descending(items)
          /\ \A i \in 1..Len(items) : items[i] \in 1..n
      BY <1>0, <3>1, <3>3, <3>4, QueryRows
    <3>6. GoodRows(items, feed.limit, entries)
      <4>1. \A i \in 1..Len(items) : items[i] \in 1..entries
        BY <1>0, <3>3, <3>5
      <4> QED BY <3>5, <4>1, DescendingDistinct DEF GoodRows
    <3>7. \A i \in 1..Len(items) : items[i] <= n
      BY <3>3, <3>5
    <3> QED BY <1>3, <2>0, <3>2, <3>5, <3>6, <3>7 DEF items
  <2> QED BY <1>8, <2>1, <2>2 DEF FetchAnswers
<1>9. CASE Record
  <2>1. entries' = entries + 1 /\ UNCHANGED <<feed, page, hist>>
    BY <1>9 DEF Record
  <2>2. 1..entries \subseteq 1..entries'
    BY <1>0, <2>1
  <2> QED BY <2>1, <2>2 DEF RowsInv, MergedPageIsSound
<1>10. CASE GatewayPublishes \/ HighlightsEnd \/ UNCHANGED feedVars
  <2>1. UNCHANGED <<feed, entries, page, hist>>
    BY <1>10 DEF GatewayPublishes, HighlightsEnd, feedVars
  <2> QED BY <1>2, <2>1
<1>11. CASE FrameArrives
  <2> DEFINE n == Head(queue)
             items == page'.items
  <2>1. UNCHANGED <<feed, entries>> /\ n \in 0..entries
    BY <1>11, FrameTaken
  <2>2. CASE UNCHANGED page /\ hist'.mixed = hist.mixed
    BY <1>2, <2>1, <2>2
  <2>3. CASE /\ page'.asOf = n /\ hist'.mixed = (hist.mixed \/ n < page.asOf)
             /\ (page' = Merge(page, Frame(n)) \/ page' = Frame(n))
    <3>1. n \in Nat
      BY <1>0, <2>1
    <3>2. items = Frame(n).items \/ items = Merge(page, Frame(n)).items
      BY <2>3
    <3> HIDE DEF n, items
    <3>3. /\ GoodRows(items, feed.limit, entries)
          /\ ~hist.mixed /\ page.asOf <= n
               => Descending(items) /\ \A i \in 1..Len(items) : items[i] <= n
      BY <2>1, <3>2, FramePage
    <3>4. ~hist'.mixed => ~hist.mixed /\ page.asOf <= n
      <4>1. ~(n < page.asOf) => page.asOf <= n
        BY <1>0, <3>1
      <4>2. hist'.mixed = (hist.mixed \/ n < page.asOf)
        BY <2>3
      <4> QED BY <4>1, <4>2, Zenon
    <3> QED BY <1>3, <2>1, <2>3, <3>3, <3>4 DEF items
  <2> QED BY <1>11, <2>2, <2>3, FrameTaken
<1> QED
  BY <1>4, <1>5, <1>6, <1>7, <1>8, <1>9, <1>10, <1>11 DEF FeedNext, Button

\* Every step keeps the highlights on the page.
LEMMA MarksStep == FeedTypes /\ RowsInv /\ MarksInv /\ [FeedNext]_feedVars => MarksInv'
<1> SUFFICES ASSUME FeedTypes, RowsInv, MarksInv, [FeedNext]_feedVars PROVE MarksInv'
  OBVIOUS
<1>0. /\ entries \in Nat /\ published \in Nat /\ published <= entries /\ page.asOf \in Nat
      /\ page.asOf <= entries /\ queue \in Seq(Nat) /\ Len(queue) \in Nat
      /\ \A i \in 1..Len(queue) : queue[i] \in Nat /\ queue[i] <= entries
  BY DEF FeedTypes
<1>q. \A i, j \in 1..Len(queue) : i < j => queue[i] <= queue[j]
  BY DEF MarksInv
<1>1. ASSUME UNCHANGED <<feed, published, page, queue, marked>> PROVE MarksInv'
  BY <1>1 DEF MarksInv, HighlightsAreShown
<1>2. ASSUME UNCHANGED <<feed, published, page, marked>>, queue' = <<published>> PROVE MarksInv'
  <2>1. Len(queue') = 1 /\ queue'[1] = published
    BY <1>2
  <2>2. \A i \in 1..Len(queue') : i = 1 /\ queue'[i] = published
    BY <2>1
  <2>3. \A i, j \in 1..Len(queue') : i < j => queue'[i] <= queue'[j]
    BY <1>0, <2>2
  <2>4. marked # {} => \A i \in 1..Len(queue') : page.asOf <= queue'[i]
    BY <2>2 DEF MarksInv
  <2>5. UNCHANGED <<feed, published, page, marked>>
    BY <1>2
  <2> QED BY <2>3, <2>4, <2>5 DEF MarksInv, HighlightsAreShown
<1>3. CASE EditForm \/ \E s \in Slots : Button(s)
  <2>1. UNCHANGED <<feed, published, page, marked>> /\ Restream
    BY <1>3 DEF Button, EditForm, ApplyFilters, ResetFilters, PageFeed, RefreshFeed,
               ResetEmptyView, FetchForm, Fetch
  <2>2. queue' = queue \/ queue' = <<published>>
    BY <2>1 DEF Restream
  <2> QED BY <1>1, <1>2, <2>1, <2>2
<1>4. CASE OverlappedActionEnds \/ Record \/ UNCHANGED feedVars
           \/ \E s \in Slots : StartGameAction(s) \/ Serve(s)
  <2>1. UNCHANGED <<feed, published, page, queue, marked>>
    BY <1>4 DEF OverlappedActionEnds, Record, feedVars, StartGameAction, Serve, Fetch
  <2> QED BY <1>1, <2>1
<1>5. CASE HighlightsEnd
  <2>1. marked' = {} /\ UNCHANGED queue
    BY <1>5 DEF HighlightsEnd
  <2> QED BY <2>1 DEF MarksInv, HighlightsAreShown
<1>6. CASE GatewayPublishes
  <2>1. queue' = Append(queue, entries) /\ published' = entries /\ UNCHANGED <<feed, page, marked>>
    BY <1>6 DEF GatewayPublishes
  <2>2. /\ Len(queue') = Len(queue) + 1
        /\ \A i \in 1..Len(queue') : \/ i \in 1..Len(queue) /\ queue'[i] = queue[i]
                                     \/ i = Len(queue') /\ queue'[i] = entries
    BY <1>0, <2>1
  <2>3. ASSUME NEW i \in 1..Len(queue'), NEW j \in 1..Len(queue'), i < j
        PROVE  queue'[i] <= queue'[j]
    <3>1. i \in 1..Len(queue) /\ queue'[i] = queue[i]
      BY <1>0, <2>2, <2>3
    <3>2. CASE j \in 1..Len(queue) /\ queue'[j] = queue[j]
      BY <1>q, <2>3, <3>1, <3>2
    <3>3. CASE queue'[j] = entries
      BY <1>0, <3>1, <3>3
    <3> QED BY <2>2, <3>2, <3>3
  <2>4. marked # {} => \A i \in 1..Len(queue') : page.asOf <= queue'[i]
    BY <1>0, <2>2 DEF MarksInv
  <2>5. page.asOf <= published'
    BY <1>0, <2>1
  <2>6. UNCHANGED <<feed, page, marked>>
    BY <2>1
  <2> QED BY <2>3, <2>4, <2>5, <2>6 DEF MarksInv, HighlightsAreShown
<1>7. ASSUME NEW s \in Slots, FetchAnswers(s) PROVE MarksInv'
  <2>1. UNCHANGED <<feed, published, queue>>
    BY <1>7 DEF FetchAnswers
  <2>2. CASE UNCHANGED <<page, marked>>
    BY <1>1, <2>1, <2>2
  <2>3. CASE marked' = IF feed.name = "attacks" THEN MarkedAfterRefresh ELSE marked
    <3>1. marked' = {}
      BY <2>3 DEF MarkedAfterRefresh, MarksInv
    <3> QED BY <2>1, <3>1 DEF MarksInv, HighlightsAreShown
  <2> QED BY <1>7, <2>2, <2>3 DEF FetchAnswers
<1>8. CASE FrameArrives
  <2> DEFINE n == Head(queue)
             items == page'.items
  <2>1. /\ queue # <<>> /\ queue' = Tail(queue) /\ UNCHANGED <<feed, entries, published>>
        /\ n = queue[1] /\ n \in 0..entries
    BY <1>8, FrameTaken
  <2>2. /\ Len(queue') = Len(queue) - 1 /\ 1 \in 1..Len(queue)
        /\ \A i \in 1..Len(queue') : queue'[i] = queue[i + 1] /\ i + 1 \in 1..Len(queue)
    BY <1>0, <2>1
  <2>3. \A i, j \in 1..Len(queue') : i < j => queue'[i] <= queue'[j]
    BY <1>q, <2>2
  <2>4. \A i \in 1..Len(queue') : n <= queue'[i]
    BY <1>q, <2>1, <2>2
  <2>5. n <= published /\ n \in Nat
    <3>1. queue[Len(queue)] = published /\ Len(queue) \in 1..Len(queue)
      BY <1>0, <2>1, <2>2 DEF FeedTypes
    <3> QED BY <1>0, <1>q, <2>1, <2>2, <3>1
  <2>u. UNCHANGED <<feed, published>>
    BY <2>1
  <2>6. CASE UNCHANGED <<page, marked>>
    <3>1. marked # {} => \A i \in 1..Len(queue') : page.asOf <= queue'[i]
      BY <2>2 DEF MarksInv
    <3> QED BY <2>3, <2>u, <2>6, <3>1 DEF MarksInv, HighlightsAreShown
  <2>7. CASE /\ feed.name = "attacks" /\ page' = Merge(page, Frame(n)) /\ page'.asOf = n
             /\ marked' = IF NewAttackIDs(page, page') # {} THEN NewAttackIDs(page, page') ELSE marked
    <3> DEFINE new == NewAttackIDs(page, page')
    <3>1. items = Merge(page, Frame(n)).items
      BY <2>7
    <3> HIDE DEF items, n
    <3>2. /\ GoodRows(items, feed.limit, entries)
          /\ feed.limit <= StreamLimit => \A i \in 1..Len(items) : items[i] <= n
          /\ (/\ Ids(items) \subseteq Ids(page.items)
              /\ feed.limit <= StreamLimit => \A i \in 1..Len(page.items) : page.items[i] <= n)
             => Ids(page.items) \subseteq Ids(items)
      BY <2>1, <3>1, FramePage
    <3>3. /\ new \subseteq Ids(items) /\ (new # {} => MaxHighlights > 0)
          /\ new = {} /\ MaxHighlights > 0 => Ids(items) \subseteq Ids(page.items)
      <4>1. page'.items \in Seq(Nat)
        BY <3>2 DEF GoodRows, items
      <4> QED BY <4>1, NewRows DEF items
    <3> HIDE DEF new
    <3>4. marked' # {} => MaxHighlights > 0
      BY <2>7, <3>3 DEF MarksInv, new
    <3>5. marked' \subseteq Ids(items)
      <4>1. CASE new # {}
        BY <2>7, <3>3, <4>1 DEF new
      <4>2. CASE new = {} /\ marked = {}
        BY <2>7, <4>2 DEF new
      <4>3. CASE new = {} /\ marked # {}
        <5>1. MaxHighlights > 0 /\ page.asOf <= n
          BY <2>1, <2>2, <4>3 DEF MarksInv
        <5>2. feed.limit <= StreamLimit => \A i \in 1..Len(page.items) : page.items[i] <= n
          <6>1. \A i \in 1..Len(page.items) : page.items[i] \in Nat
            BY DEF RowsInv
          <6>2. feed.limit <= StreamLimit => \A i \in 1..Len(page.items) : page.items[i] <= page.asOf
            BY <4>3 DEF MarksInv
          <6> QED BY <1>0, <2>5, <5>1, <6>1, <6>2
        <5>3. Ids(page.items) \subseteq Ids(items)
          BY <3>2, <3>3, <4>3, <5>1, <5>2
        <5>4. marked' = marked /\ marked \subseteq Ids(page.items)
          BY <2>7, <4>3 DEF MarksInv, HighlightsAreShown, new
        <5> QED BY <5>3, <5>4
      <4> QED BY <4>1, <4>2, <4>3
    <3>6. HighlightsAreShown'
      BY <3>5 DEF HighlightsAreShown, items
    <3>7. page'.asOf = n /\ feed.name = "attacks"
      BY <2>7
    <3>8. feed.limit <= StreamLimit => \A i \in 1..Len(page'.items) : page'.items[i] <= page'.asOf
      BY <3>2, <3>7 DEF items
    <3> QED BY <2>3, <2>4, <2>5, <2>u, <3>4, <3>6, <3>7, <3>8 DEF MarksInv
  <2>8. CASE feed.name # "attacks" /\ marked' = marked
    <3>1. marked' = {}
      BY <2>8 DEF MarksInv
    <3> QED BY <2>3, <3>1 DEF MarksInv, HighlightsAreShown
  <2> QED BY <1>8, <2>6, <2>7, <2>8, FrameTaken
<1> QED
  BY <1>3, <1>4, <1>5, <1>6, <1>7, <1>8 DEF FeedNext, Button

\* A page of the feed only has rows that were recorded, none of them twice and no
\* more than its size, in order unless an older snapshot overtook a newer one, and
\* what is highlighted is on it, for every size of frames and pages, however
\* frames and answers cross and whatever the filters were.
THEOREM PagesAreSound == Spec => []PageIsSound
<1>1. FeedTypes /\ (\E open \in BOOLEAN : FeedStart(open)) => RowsInv /\ MarksInv
  <2> SUFFICES ASSUME FeedTypes, NEW open \in BOOLEAN, FeedStart(open) PROVE RowsInv /\ MarksInv
    OBVIOUS
  <2> DEFINE items == page.items
  <2>1. /\ queue = <<>> /\ marked = {} /\ page = Query(DefaultFilters, entries)
    BY DEF FeedStart
  <2>2. entries \in Nat /\ feed.limit \in Nat /\ DefaultFilters \in AnyFilter
    BY FeedParts DEF FeedTypes
  <2>3. items = Query(DefaultFilters, entries).items /\ page.asOf = entries
    BY <2>1, PageFields
  <2> HIDE DEF items
  <2>4. /\ items \in Seq(Nat) /\ Len(items) <= feed.limit /\ Descending(items)
        /\ \A i \in 1..Len(items) : items[i] \in 1..entries
    BY <2>2, <2>3, QueryRows
  <2>5. GoodRows(items, feed.limit, entries)
    BY <2>4, DescendingDistinct DEF GoodRows
  <2>6. \A i \in 1..Len(items) : items[i] <= page.asOf
    BY <2>2, <2>3, <2>4
  <2>7. RowsInv
    BY <2>4, <2>5, <2>6, RowsInvParts DEF items
  <2>8. MarksInv
    BY <2>1 DEF MarksInv, HighlightsAreShown
  <2> QED BY <2>7, <2>8
<1>2. RowsInv /\ MarksInv => PageIsSound
  BY DEF RowsInv, MarksInv, PageIsSound
<1> QED
  BY <1>1, <1>2, FeedInside, FeedTypeStart, FeedTypeStep, RowsStep, MarksStep, PTL DEF FeedSafety

=============================================================================
