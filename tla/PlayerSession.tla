---------------------------- MODULE PlayerSession ----------------------------
(***************************************************************************)
(* A player's account and session: the accounts the api-gateway keeps, the *)
(* session cookie of the player's browser, and the forms that replace it   *)
(* (participant-login-form, participant-join-team-form,                    *)
(* participant-account-settings, participant-session-button, the session   *)
(* routes, session-validation, and the api-gateway's handlers and store).  *)
(*                                                                         *)
(* A token carries the player's role, team and session version; a change   *)
(* of any of them makes the older tokens invalid.  Every answer brings the *)
(* cookie that replaces the browser's, whatever it is by then: tabs share  *)
(* one cookie, and requests of two forms may cross.                        *)
(***************************************************************************)
EXTENDS Integers, FiniteSets

CONSTANTS Players,   \* the accounts
          Me,        \* the player whose browser is modelled
          Tabs,      \* its tabs
          MaxMoves,  \* bound on what others do
          MaxCalls   \* bound on what the player starts

ASSUME SessionAssumption ==
    /\ Me \in Players
    /\ MaxMoves \in Nat /\ MaxCalls \in Nat

VARIABLES player,    \* the accounts: role, team or not, active, session version
          cookie,    \* the session cookie
          view,      \* what each tab's page knows of the session
          req,       \* the request of each form
          sessLeft,  \* what is left of the bounds
          sessHist   \* what the properties remember

sessionVars == <<player, cookie, view, req, sessLeft, sessHist>>

-----------------------------------------------------------------------------
Forms == Tabs \X {"entry", "account", "logout"}
Roles == {"member", "captain"}

\* Version 0 is no account, and no token.
Token == [role : Roles, team : BOOLEAN, version : Nat]
NoToken == [role |-> "member", team |-> FALSE, version |-> 0]
TokenOf(acc) == [role |-> acc.role, team |-> acc.team, version |-> acc.version]

\* ValidatePlayerSession.
Valid(tok) == tok.version > 0 /\ player[Me].active /\ tok = TokenOf(player[Me])

NoRequest == [kind |-> "none", step |-> "idle", sent |-> NoToken, seen |-> NoToken,
              fields |-> FALSE, change |-> FALSE, to |-> Me, crossed |-> FALSE]
Free(f) == req[f].kind = "none"

-----------------------------------------------------------------------------
(* The accounts.                                                           *)

ActiveCaptains(acc) == {p \in Players : acc[p].team /\ acc[p].active /\ acc[p].role = "captain"}

\* JoinExistingPlayerTeam: whoever joins a team without an active captain leads it.
JoinTeam(acc, p) == [acc EXCEPT ![p].team = TRUE,
    ![p].role = IF ActiveCaptains(acc) = {} THEN "captain" ELSE @]

MayTransfer(acc, p, q) ==
    /\ p # q /\ acc[p].active /\ acc[p].team /\ acc[p].role = "captain"
    /\ acc[q].active /\ acc[q].team

TransferTeamCaptain(acc, p, q) ==
    [acc EXCEPT ![p].role = "member",  ![p].version = @ + 1,
                ![q].role = "captain", ![q].version = @ + 1]

\* A captain who comes back to a team that has one is a member from then on.
ReactivatePlain(acc, p) == [acc EXCEPT ![p].active = TRUE]         \* mutant: without the demotion
Reactivate(acc, p) ==
    IF acc[p].role = "captain" /\ acc[p].team /\ ActiveCaptains(acc) \ {p} # {}
    THEN [acc EXCEPT ![p].active = TRUE, ![p].role = "member", ![p].version = @ + 1]
    ELSE [acc EXCEPT ![p].active = TRUE]

\* A change of the player's account may outdate the other requests in flight.
Crossed(f) == [g \in Forms |->
    IF g # f /\ req[g].kind # "none" THEN [req[g] EXCEPT !.crossed = TRUE] ELSE req[g]]

\* A step of somebody else.
OthersChange(acc, hist) ==
    LET mine == TokenOf(acc[Me]) # TokenOf(player[Me]) IN
    /\ sessLeft.moves > 0
    /\ sessLeft' = [sessLeft EXCEPT !.moves = @ - 1]
    /\ player' = acc
    /\ req' = IF mine THEN Crossed(<<>>) ELSE req
    /\ sessHist' = [hist EXCEPT !.outdated = @ \/ mine]
    /\ UNCHANGED <<cookie, view>>

OtherJoins(p) ==
    /\ p # Me /\ ~player[p].team
    /\ OthersChange(JoinTeam(player, p), sessHist)
OtherTransfers(p, q) ==
    /\ p # Me /\ MayTransfer(player, p, q)
    /\ OthersChange(TransferTeamCaptain(player, p, q), sessHist)
SetPlayerActive(p) ==
    /\ player[p].version > 0
    /\ IF player[p].active
       THEN OthersChange([player EXCEPT ![p].active = FALSE], [sessHist EXCEPT !.deactivated = TRUE])
       ELSE OthersChange(Reactivate(player, p), sessHist)
\* The organizer's edit sets the role alone, without a look at the team.
UpdateAdminPlayer(p) ==
    /\ player[p].version > 0
    /\ \E r \in Roles \ {player[p].role} :
         OthersChange([player EXCEPT ![p].role = r], [sessHist EXCEPT !.edited = TRUE])

\* The cookie's day is over.
CookieExpires ==
    /\ cookie # NoToken /\ sessLeft.moves > 0
    /\ sessLeft' = [sessLeft EXCEPT !.moves = @ - 1]
    /\ cookie' = NoToken
    /\ UNCHANGED <<player, view, req, sessHist>>

-----------------------------------------------------------------------------
(* The forms.                                                              *)

SignedOut == [signed |-> FALSE, role |-> "member", team |-> FALSE]

\* getParticipantSession, with every load of a page.
LoadPage(t) ==
    /\ view' = [view EXCEPT ![t] =
         IF Valid(cookie) THEN [signed |-> TRUE, role |-> cookie.role, team |-> cookie.team] ELSE SignedOut]
    /\ view'[t] # view[t]
    /\ UNCHANGED <<player, cookie, req, sessLeft, sessHist>>

\* The browser attaches the cookie it has when the request is sent.
Send(f, r) ==
    /\ Free(f) /\ sessLeft.calls > 0
    /\ req' = [req EXCEPT ![f] = [r EXCEPT !.step = "sent", !.sent = cookie]]
    /\ sessLeft' = [sessLeft EXCEPT !.calls = @ - 1]
    /\ UNCHANGED <<player, cookie, view, sessHist>>

SignIn(t) ==
    /\ ~view[t].signed
    /\ Send(<<t, "entry">>, [NoRequest EXCEPT !.kind = IF player[Me].version = 0 THEN "register" ELSE "login"])
JoinOwnTeam(t) ==
    /\ view[t].signed /\ ~view[t].team
    /\ Send(<<t, "entry">>, [NoRequest EXCEPT !.kind = "join"])
\* The team's fields are sent by whom the page takes for the captain.
SaveAccount(t, change) ==
    /\ view[t].signed
    /\ Send(<<t, "account">>, [NoRequest EXCEPT !.kind = "profile", !.change = change,
              !.fields = view[t].role = "captain" /\ view[t].team])
TransferCaptain(t, q) ==
    /\ view[t].signed /\ view[t].team /\ view[t].role = "captain" /\ q # Me
    /\ Send(<<t, "account">>, [NoRequest EXCEPT !.kind = "transfer", !.to = q])
Logout(t) ==
    /\ view[t].signed
    /\ Send(<<t, "logout">>, [NoRequest EXCEPT !.kind = "logout"])

-----------------------------------------------------------------------------
(* The api-gateway.                                                        *)

Step(f, step) == req' = [req EXCEPT ![f].step = step]

\* requirePlayerAuth; signing in and out need no session.
Authorize(f) ==
    /\ req[f].step = "sent"
    /\ IF req[f].kind \in {"login", "register", "logout"} \/ Valid(req[f].sent)
       THEN req' = [req EXCEPT ![f].step = "authorized", ![f].seen = TokenOf(player[Me])]
       ELSE Step(f, "failed")
    /\ UNCHANGED <<player, cookie, view, sessLeft, sessHist>>

\* The accounts after the request, if the store takes it.
Accepts(r) ==
    CASE r.kind = "login"    -> player[Me].version > 0 /\ player[Me].active
      [] r.kind = "register" -> player[Me].version = 0
      [] r.kind = "join"     -> ~player[Me].team
      [] r.kind = "profile"  -> player[Me].role = "captain" /\ player[Me].team => r.fields
      [] r.kind = "transfer" -> MayTransfer(player, Me, r.to)
      [] OTHER               -> TRUE
Stored(r) ==
    CASE r.kind = "register" -> [player EXCEPT ![Me].version = 1, ![Me].active = TRUE]
      [] r.kind = "join"     -> JoinTeam(player, Me)
      [] r.kind = "password" -> [player EXCEPT ![Me].version = @ + 1]
      [] r.kind = "transfer" -> TransferTeamCaptain(player, Me, r.to)
      [] OTHER               -> player

\* The token of the answer.  A new password's is made from what was read when
\* the request was authorized.
IssuedAhead(r) ==                                  \* mutant: the version is counted up twice
    IF r.kind = "logout" THEN NoToken
    ELSE [TokenOf(Stored(r)[Me]) EXCEPT !.version = player[Me].version + 1]
Issued(r) ==
    CASE r.kind = "logout"   -> NoToken
      [] r.kind = "password" -> [r.seen EXCEPT !.version = player[Me].version + 1]
      [] OTHER               -> TokenOf(Stored(r)[Me])

Execute(f) ==
    /\ req[f].step = "authorized"
    /\ Accepts(req[f])
    /\ player' = Stored(req[f])
    /\ LET own  == [(IF TokenOf(player'[Me]) # TokenOf(player[Me]) THEN Crossed(f) ELSE req)
                      EXCEPT ![f].step = "ok", ![f].seen = Issued(req[f])]
           lost == [own EXCEPT ![f].step = "failed"]
       IN \/ req' = own /\ UNCHANGED sessHist
          \/ /\ req' = lost
             /\ sessHist' = [sessHist EXCEPT !.outdated = TRUE]
    /\ UNCHANGED <<cookie, view, sessLeft>>

\* A limit, a wrong password, a name that is taken, a store that fails.
Reject(f) ==
    /\ req[f].step = "authorized"
    /\ Step(f, "failed")
    /\ UNCHANGED <<player, cookie, view, sessLeft, sessHist>>

\* The answer's cookie replaces the browser's.  The account form goes on with
\* the password; a failure there leaves the profile saved.
Answered(f) ==
    /\ req[f].step \in {"ok", "failed"}
    /\ LET r == req[f]  ok == r.step = "ok" IN
       /\ cookie' = IF ok THEN r.seen ELSE cookie
       /\ req' = [req EXCEPT ![f] =
            IF ok /\ r.kind = "profile" /\ r.change
            THEN [NoRequest EXCEPT !.kind = "password", !.step = "sent", !.sent = r.seen]
            ELSE NoRequest]
       /\ sessHist' = [sessHist EXCEPT !.outdated = IF ok THEN r.crossed ELSE @]
    /\ UNCHANGED <<player, view, sessLeft>>

-----------------------------------------------------------------------------
\* The player is new, or signed in; the team is new, or has a captain, who may
\* have been deactivated.
SessionStart(open) ==
    /\ \E registered \in BOOLEAN, team \in {"new", "led", "orphaned"} :
         /\ open \/ (registered /\ team = "led")
         /\ player = [p \in Players |->
              IF p = Me THEN [role |-> "member", team |-> FALSE, active |-> registered,
                              version |-> IF registered THEN 1 ELSE 0]
              ELSE LET leads == team # "new" /\ p = CHOOSE q \in Players \ {Me} : TRUE
                   IN [role |-> IF leads THEN "captain" ELSE "member", team |-> team # "new",
                       active |-> ~(leads /\ team = "orphaned"), version |-> 1]]
         /\ sessHist = [outdated |-> FALSE, edited |-> FALSE, deactivated |-> team = "orphaned"]
    /\ cookie = TokenOf(player[Me])
    /\ view = [t \in Tabs |-> IF Valid(cookie) THEN [SignedOut EXCEPT !.signed = TRUE] ELSE SignedOut]
    /\ req = [f \in Forms |-> NoRequest]
    /\ sessLeft = IF open THEN [moves |-> MaxMoves, calls |-> MaxCalls] ELSE [moves |-> 0, calls |-> 0]

SessionNext ==
    \/ \E p \in Players : OtherJoins(p) \/ SetPlayerActive(p) \/ UpdateAdminPlayer(p)
    \/ \E p, q \in Players : OtherTransfers(p, q)
    \/ CookieExpires
    \/ \E t \in Tabs :
         \/ LoadPage(t) \/ SignIn(t) \/ JoinOwnTeam(t) \/ Logout(t)
         \/ \E change \in BOOLEAN : SaveAccount(t, change)
         \/ \E q \in Players : TransferCaptain(t, q)
    \/ \E f \in Forms : Authorize(f) \/ Execute(f) \/ Reject(f) \/ Answered(f)

-----------------------------------------------------------------------------
(* Properties.                                                             *)

\* The variables hold values of their kinds, and no token is newer than its account.
SessionTypeOK ==
    /\ player \in [Players -> [role : Roles, team : BOOLEAN, active : BOOLEAN, version : Nat]]
    /\ cookie \in Token /\ cookie.version <= player[Me].version
    /\ \A t \in Tabs : view[t] \in [signed : BOOLEAN, role : Roles, team : BOOLEAN]
    /\ \A f \in Forms :
         /\ req[f].step \in {"idle", "sent", "authorized", "ok", "failed"}
         /\ req[f].seen.version <= player[Me].version

\* A team has at most one active captain, and a team with members exactly one
\* as long as nobody was deactivated, whatever joins, transfers, deactivations
\* and reactivations interleave.  The organizer's edit of a role is not covered:
\* it sets the role without looking at the team.
SingleCaptain ==
    LET members == {p \in Players : player[p].team}
        captains == ActiveCaptains(player)
    IN ~sessHist.edited =>
         /\ Cardinality(captains) <= 1
         /\ (members # {} /\ ~sessHist.deactivated) => captains # {}

\* At rest the browser's token is the account's current one: the forms that
\* change the account bring the new token, so the player is not signed out by
\* their own change.  It may be outdated after a change by others, a lost
\* answer, or answers that crossed.
CookieIsCurrent ==
    (cookie # NoToken /\ (\A f \in Forms : Free(f)) /\ ~sessHist.outdated) =>
        cookie = TokenOf(player[Me])

\* The accounts are sound: their captains, and the token the browser holds of one.
AccountIsSound == SingleCaptain /\ CookieIsCurrent
=============================================================================
