--------------------------- MODULE RuntimeConsole ---------------------------
(***************************************************************************)
(* The organizer's view of the runtime: the health card of the game page,  *)
(* the gateway, access and peer controls of the players page and the       *)
(* trusted state panel of the deployments page (use-organizer-dashboard,   *)
(* organizer-dashboard-sections, trusted-state-panel, runtime-health       *)
(* report route).                                                          *)
(*                                                                         *)
(* A report about the host is read by fetches that answer in any order:    *)
(* silent ones of the mount, the 30 second timer and the window's focus,   *)
(* and the ones an action waits for.  An action that overlaps another one  *)
(* (creating a player, Enter in the interval field) clears its             *)
(* pendingAction when it ends.                                             *)
(***************************************************************************)
EXTENDS Integers

CONSTANTS ChangeSets,   \* the sets of reports that may change while the page is open
          MaxChanges,   \* bound on the host's own changes
          MaxActions    \* bound on the actions, timer ticks and focus events

ASSUME ConsoleAssumption ==
    /\ ChangeSets \subseteq SUBSET {"deployments", "gateway", "access", "operations", "metrics"}
    /\ MaxChanges \in Nat /\ MaxActions \in Nat

VARIABLES page,      \* which page is open
          changing,  \* the reports that change; the others stay good and loaded
          host,      \* what each report would say now: state and version
          panel,     \* what the page shows of it
          fetches,   \* status reads in flight
          ops,       \* the actions in flight
          pending,   \* pendingAction
          peers,     \* the WireGuard peer of each player
          rows,      \* the players' rows
          dialog,    \* the WireGuard dialog and selectedWireGuardPeer
          evidence,  \* the last report that was downloaded or copied
          left,      \* what is left of the bounds
          hist       \* what the properties remember

consoleVars == <<page, changing, host, panel, fetches, ops, pending, peers, rows,
                 dialog, evidence, left, hist>>

-----------------------------------------------------------------------------
(* Reports.                                                                *)

Reports == {"deployments", "gateway", "access", "operations", "metrics"}

\* good: jobs done, policy applied, no alert; degraded: jobs pending, another
\* state, warnings; bad: failed jobs, state error, critical alerts.
States(r) == IF r = "metrics" THEN {"good", "degraded"} ELSE {"good", "degraded", "bad"}
Snapshots(r) == [state : States(r) \union {"unloaded"}, ver : Int]

Unloaded == [state |-> "unloaded", ver |-> -1]
\* The page's loader replaces a list of jobs or alerts it could not read by an empty one.
LoadedEmpty(r) == IF r = "metrics" THEN Unloaded ELSE [state |-> "good", ver |-> -1]

ShownOn(p) ==
    CASE p = "game"        -> Reports
      [] p = "players"     -> {"gateway", "access"}
      [] p = "deployments" -> {"deployments", "gateway", "access"}
      [] OTHER             -> {}

\* buildRuntimeHealthSnapshot: a report of alerts that is not loaded has no alerts.
SeverityLenient(reports) ==                 \* mutant: failed deployment jobs are not critical
    IF \E r \in {"gateway", "access", "operations"} : reports[r].state = "bad" THEN "critical"
    ELSE IF \E r \in Reports : reports[r].state # "good" THEN "warning"
    ELSE "healthy"
Severity(reports) ==
    IF \E r \in Reports : reports[r].state = "bad" THEN "critical"
    ELSE IF \E r \in Reports : reports[r].state # "good" THEN "warning"
    ELSE "healthy"

\* TrustedStatePanel: an unknown number of pending jobs counts as none, and so
\* does a failed job.
TrustedOverall(reports) ==
    IF /\ reports["access"].state = "good" /\ reports["gateway"].state = "good"
       /\ reports["deployments"].state # "degraded"
    THEN "healthy" ELSE "incomplete"

Verdict(reports) ==
    CASE page = "game"        -> Severity(reports)
      [] page = "deployments" -> TrustedOverall(reports)
      [] OTHER                -> "none"

-----------------------------------------------------------------------------
(* Fetches and actions.                                                    *)

Players == {1, 2}
Slots == {1, 2}
Nothing == [res |-> "none", state |-> "unloaded", ver |-> -1]
IdleOp == [kind |-> "none", arg |-> 0, step |-> "none", got |-> Nothing]
InFlight == {s \in Slots : ops[s].kind # "none"}

StatusKinds == {"gateway", "access", "operations", "metrics", "deployments"}
PeerKinds == {"inspect", "rotate", "revoke"}
TrustKinds == {"trustRefresh", "trustReconcile"}
Kinds == StatusKinds \union PeerKinds \union TrustKinds
         \union {"health", "reconcile", "teardown", "evidence"}

\* A fetch of r; s is the action that waits for it, 0 when it is silent.
Fetch(r, s) == [rep |-> r, op |-> s, got |-> Nothing]
Fetching(R, s) == {Fetch(r, s) : r \in R \intersect changing}
Awaited(s) == {f \in fetches : f.op = s}

\* The answer to a fetch: nothing is cached on the way (cache: "no-store").
ReadReport(r) == host[r]

\* An answer that was read before the host's last change is still to come.
StaleUnderWay == \E f \in fetches : f.got.res = "ok" /\ f.got.ver < host[f.rep].ver

FreeSlot(s) == s \notin InFlight /\ \A t \in Slots : t < s => t \in InFlight

\* Bookkeeping of a complete refresh that begins.
Remember == [hist EXCEPT !.refreshed = FALSE, !.spoiled = StaleUnderWay]

Begin(s, kind, arg, step) ==
    /\ left.actions > 0
    /\ FreeSlot(s)
    /\ ops' = [ops EXCEPT ![s] = [IdleOp EXCEPT !.kind = kind, !.arg = arg, !.step = step]]
    /\ left' = [left EXCEPT !.actions = @ - 1]
    /\ UNCHANGED <<page, changing, host, panel, peers, rows, dialog>>

\* RuntimeActionButton: every button is disabled while an action is pending.
Click(s, kind, arg, step) ==
    /\ pending = "none" /\ ~dialog.open
    /\ Begin(s, kind, arg, step)
    /\ pending' = kind

-----------------------------------------------------------------------------
(* Reading reports.                                                        *)

\* setInterval and the focus listener of the hook: two silent reads.
PollOperations ==
    /\ page = "game" /\ left.actions > 0
    /\ fetches' = fetches \union Fetching({"operations", "metrics"}, 0)
    /\ left' = [left EXCEPT !.actions = @ - 1]
    /\ hist' = hist
    /\ UNCHANGED <<page, changing, host, panel, ops, pending, peers, rows, dialog, evidence>>

RefreshOne(s, r, p) ==
    /\ page = p /\ r \in changing
    /\ Click(s, r, 0, "waiting")
    /\ fetches' = fetches \union Fetching({r}, s)
    /\ hist' = hist
    /\ UNCHANGED evidence

RefreshWireGuardGatewayStatus(s) == RefreshOne(s, "gateway", "players")
RefreshAccessStatus(s) == RefreshOne(s, "access", "players")
RefreshOperationsStatus(s) == RefreshOne(s, "operations", "game")
RefreshServiceMetrics(s) == RefreshOne(s, "metrics", "game")
RefreshDeploymentRows(s) == RefreshOne(s, "deployments", "game")

\* refreshRuntimeHealth waits for all five silent reads.
RefreshRuntimeHealth(s) ==
    /\ page = "game"
    /\ Click(s, "health", 0, "waiting")
    /\ fetches' = fetches \union Fetching(Reports, s)
    /\ hist' = Remember
    /\ UNCHANGED evidence

Answered(snap) == [res |-> "ok", state |-> snap.state, ver |-> snap.ver]
Taken(got) == [state |-> got.state, ver |-> got.ver]

\* A fetch reaches the service: answered with the state of that moment, or refused.
ServeFetch ==
    \E f \in fetches :
       /\ f.got.res = "none"
       /\ \/ /\ fetches' = (fetches \ {f}) \union {[f EXCEPT !.got = Answered(ReadReport(f.rep))]}
             /\ UNCHANGED hist
          \/ /\ fetches' = (fetches \ {f}) \union {[f EXCEPT !.got.res = "failed"]}
             /\ hist' = [hist EXCEPT !.spoiled = TRUE]
       /\ UNCHANGED <<page, changing, host, panel, ops, pending, peers, rows, dialog, evidence, left>>

\* A silent fetch puts its report on the page; a failed one is not mentioned.
FetchAnswers ==
    \E f \in fetches :
       /\ f.got.res # "none"
       /\ f.op # 0 => ops[f.op].kind \notin TrustKinds
       /\ fetches' = fetches \ {f}
       /\ panel' = IF f.got.res = "ok" THEN [panel EXCEPT ![f.rep] = Taken(f.got)] ELSE panel
       /\ UNCHANGED <<page, changing, host, ops, pending, peers, rows, dialog, evidence, left, hist>>

\* Promise.all: the action ends with the last of its reads.
AllRead(s) == Awaited(s) = {}

Finish(s) ==
    /\ ops' = [ops EXCEPT ![s] = IdleOp]
    /\ pending' = "none"

\* The notes "Refreshed ..." and "... torn down" are shown whatever became of the reads.
WaitEnds(s) ==
    /\ ops[s].step = "waiting" /\ ops[s].kind \notin TrustKinds \union {"evidence"}
    /\ AllRead(s)
    /\ Finish(s)
    /\ hist' = [hist EXCEPT !.refreshed = @ \/ (/\ ops[s].kind = "health"
                                               /\ \A t \in InFlight : t = s \/ ops[t].kind # "health")]
    /\ UNCHANGED <<page, changing, host, panel, fetches, peers, rows, dialog, evidence, left>>

-----------------------------------------------------------------------------
(* Reconcile and teardown of the gateway and the access policy.            *)

ReconcileWireGuardGateway(s) == Click(s, "reconcile", "gateway", "asked")
ReconcileAccess(s) == Click(s, "reconcile", "access", "asked")
TeardownWireGuardGateway(s) == Click(s, "teardown", "gateway", "asked")
TeardownAccess(s) == Click(s, "teardown", "access", "asked")

ClickRuntime(s) ==
    /\ page = "players"
    /\ \/ "gateway" \in changing /\ (ReconcileWireGuardGateway(s) \/ TeardownWireGuardGateway(s))
       \/ "access" \in changing /\ (ReconcileAccess(s) \/ TeardownAccess(s))
    /\ hist' = hist
    /\ UNCHANGED <<fetches, evidence>>

\* A reconcile applies the policy or records its error; a teardown removes it.
ServeRuntime(s) ==
    /\ ops[s].kind \in {"reconcile", "teardown"} /\ ops[s].step = "asked" /\ ops[s].got.res = "none"
    /\ LET r == ops[s].arg
       IN \/ \E state \in IF ops[s].kind = "teardown" THEN {"degraded"} ELSE {"good", "bad"} :
               /\ host' = [host EXCEPT ![r] = [state |-> state, ver |-> @.ver + 1]]
               /\ \E res \in {"ok", "failed"} :
                    ops' = [ops EXCEPT ![s].got = [res |-> res, state |-> state, ver |-> host[r].ver + 1]]
          \/ /\ ops' = [ops EXCEPT ![s].got.res = "failed"]
             /\ UNCHANGED host
    /\ UNCHANGED <<page, changing, panel, fetches, pending, peers, rows, dialog, evidence, left, hist>>

\* The answer of a reconcile is the new status; after a teardown it is read again.
RuntimeAnswers(s) ==
    /\ ops[s].kind \in {"reconcile", "teardown"} /\ ops[s].step = "asked" /\ ops[s].got.res # "none"
    /\ IF ops[s].got.res = "ok" /\ ops[s].kind = "teardown"
       THEN /\ ops' = [ops EXCEPT ![s].step = "waiting"]
            /\ fetches' = fetches \union Fetching({ops[s].arg}, s)
            /\ hist' = hist
            /\ UNCHANGED <<panel, pending>>
       ELSE /\ Finish(s)
            /\ panel' = IF ops[s].got.res = "ok"
                        THEN [panel EXCEPT ![ops[s].arg] = Taken(ops[s].got)] ELSE panel
            /\ UNCHANGED <<fetches, hist>>
    /\ UNCHANGED <<page, changing, host, peers, rows, dialog, evidence, left>>

-----------------------------------------------------------------------------
(* The players' WireGuard peers.                                           *)

InspectWireGuard(s, p) == Click(s, "inspect", p, "asked")
RotateWireGuard(s, p) == Click(s, "rotate", p, "asked")
RevokeWireGuard(s, p) == rows[p].status # "revoked" /\ Click(s, "revoke", p, "asked")

ClickPeer(s) ==
    /\ page = "players"
    /\ \E p \in Players : InspectWireGuard(s, p) \/ RotateWireGuard(s, p) \/ RevokeWireGuard(s, p)
    /\ UNCHANGED <<fetches, evidence, hist>>

PeerAfter(kind, peer) ==
    CASE kind = "rotate" -> [ver |-> peer.ver + 1, status |-> "active"]
      [] kind = "revoke" -> [peer EXCEPT !.status = "revoked"]
      [] OTHER           -> peer

ServePeer(s) ==
    /\ ops[s].kind \in PeerKinds /\ ops[s].got.res = "none"
    /\ LET p   == ops[s].arg
           new == PeerAfter(ops[s].kind, peers[p])
       IN \/ /\ peers' = [peers EXCEPT ![p] = new]
             /\ \E res \in {"ok", "failed"} :
                  /\ ops' = [ops EXCEPT ![s].got = [res |-> res, state |-> new.status, ver |-> new.ver]]
                  /\ hist' = [hist EXCEPT !.lost = @ \/ (res = "failed" /\ new # peers[p])]
          \/ ops' = [ops EXCEPT ![s].got.res = "failed"] /\ UNCHANGED <<peers, hist>>
    /\ UNCHANGED <<page, changing, host, panel, fetches, pending, rows, dialog, evidence, left>>

\* applyWireGuardUpdate: the player's row, and the dialog when it is the player's.
AppliedToRows(p, peer) == [rows EXCEPT ![p] = peer]

\* setSelectedWireGuardPeer; inspect and rotate open the dialog, revoke does not.
SelectedKept(kind, p, peer) ==                \* mutant: another player's selection is kept
    IF dialog.player \in {0, p}
    THEN [open |-> dialog.open \/ kind # "revoke", player |-> p, ver |-> peer.ver, status |-> peer.status]
    ELSE [dialog EXCEPT !.open = @ \/ kind # "revoke"]
Selected(kind, p, peer) ==
    [open |-> dialog.open \/ kind # "revoke", player |-> p, ver |-> peer.ver, status |-> peer.status]

PeerAnswers(s) ==
    /\ ops[s].kind \in PeerKinds /\ ops[s].got.res # "none"
    /\ LET p    == ops[s].arg
           peer == [ver |-> ops[s].got.ver, status |-> ops[s].got.state]
           ok   == ops[s].got.res = "ok"
       IN /\ rows' = IF ok THEN AppliedToRows(p, peer) ELSE rows
          /\ dialog' = IF ok THEN Selected(ops[s].kind, p, peer) ELSE dialog
          /\ hist' = IF ok /\ ops[s].kind # "revoke" THEN [hist EXCEPT !.asked = p] ELSE hist
    /\ Finish(s)
    /\ UNCHANGED <<page, changing, host, panel, fetches, peers, evidence, left>>

CloseWireGuardDialog ==
    /\ dialog.open
    /\ dialog' = [dialog EXCEPT !.open = FALSE]
    /\ UNCHANGED <<page, changing, host, panel, fetches, ops, pending, peers, rows, evidence, left, hist>>

\* An action of another card that was started beside this one ends first.
OverlappedActionEnds ==
    /\ page \in {"game", "players"} /\ pending # "none"
    /\ pending' = "none"
    /\ hist' = [hist EXCEPT !.disturbed = TRUE]
    /\ UNCHANGED <<page, changing, host, panel, fetches, ops, peers, rows, dialog, evidence, left>>

-----------------------------------------------------------------------------
(* The evidence report: the route reads every section by itself.           *)

NoEvidence == [floor |-> [r \in Reports |-> -1], read |-> {}, missing |-> {},
               ver |-> [r \in Reports |-> -1]]

StartEvidence(s) ==
    /\ page = "game"
    /\ Click(s, "evidence", 0, "waiting")
    /\ evidence' = [evidence EXCEPT ![s] = [NoEvidence EXCEPT !.floor = [r \in Reports |-> panel[r].ver]]]
    /\ UNCHANGED <<fetches, hist>>

DownloadRuntimeHealthReport(s) == StartEvidence(s)
CopyRuntimeHealthSummary(s) == StartEvidence(s)

ReadSection(r) == host[r].ver

Unsettled(s) == changing \ (evidence[s].read \union evidence[s].missing)

\* Promise.allSettled: a section that cannot be read is reported as missing.
SectionRead(s) ==
    /\ ops[s].kind = "evidence"
    /\ \E r \in Unsettled(s) :
         \/ evidence' = [evidence EXCEPT ![s].read = @ \union {r}, ![s].ver[r] = ReadSection(r)]
         \/ evidence' = [evidence EXCEPT ![s].missing = @ \union {r}]
    /\ UNCHANGED <<page, changing, host, panel, fetches, ops, pending, peers, rows, dialog, left, hist>>

\* The report arrives, or the request fails and there is none.
EvidenceEnds(s) ==
    /\ ops[s].kind = "evidence"
    /\ \/ Unsettled(s) = {} /\ UNCHANGED evidence
       \/ evidence' = [evidence EXCEPT ![s] = NoEvidence]
    /\ Finish(s)
    /\ UNCHANGED <<page, changing, host, panel, fetches, peers, rows, dialog, left, hist>>

-----------------------------------------------------------------------------
(* TrustedStatePanel: three reads at a time, taken over together.          *)

\* useEffect and setInterval: neither looks at the panel's pending flag.
TrustedTimer(s) ==
    /\ page = "deployments" /\ left.actions > 0
    /\ FreeSlot(s)
    /\ ops' = [ops EXCEPT ![s] = [IdleOp EXCEPT !.kind = "trustRefresh", !.step = "waiting"]]
    /\ fetches' = fetches \union Fetching(ShownOn(page), s)
    /\ left' = [left EXCEPT !.actions = @ - 1]
    /\ hist' = Remember
    /\ UNCHANGED <<page, changing, host, panel, pending, peers, rows, dialog, evidence>>

TrustedRefresh(s) ==
    /\ page = "deployments" /\ pending = "none"
    /\ Begin(s, "trustRefresh", 0, "waiting")
    /\ fetches' = fetches \union Fetching(ShownOn(page), s)
    /\ hist' = Remember
    /\ UNCHANGED <<pending, evidence>>

RunTrustedReconcile(s) ==
    /\ page = "deployments"
    /\ Click(s, "trustReconcile", 0, "asked")
    /\ UNCHANGED <<fetches, evidence, hist>>

\* The gateway advances jobs, access and peers; each of them ends applied or failed.
ServeTrusted(s) ==
    /\ ops[s].kind = "trustReconcile" /\ ops[s].step = "asked" /\ ops[s].got.res = "none"
    /\ \/ \E reached \in [changing -> {"good", "bad"}], res \in {"ok", "failed"} :
            /\ host' = [r \in Reports |-> IF r \in changing
                          THEN [state |-> reached[r], ver |-> host[r].ver + 1] ELSE host[r]]
            /\ ops' = [ops EXCEPT ![s].got.res = res]
            /\ hist' = [hist EXCEPT !.spoiled = TRUE]
       \/ ops' = [ops EXCEPT ![s].got.res = "failed"] /\ UNCHANGED <<host, hist>>
    /\ UNCHANGED <<page, changing, panel, fetches, pending, peers, rows, dialog, evidence, left>>

TrustedAnswers(s) ==
    /\ ops[s].kind = "trustReconcile" /\ ops[s].step = "asked" /\ ops[s].got.res # "none"
    /\ IF ops[s].got.res = "ok"
       THEN /\ ops' = [ops EXCEPT ![s].step = "waiting"]
            /\ fetches' = fetches \union Fetching(ShownOn(page), s)
            /\ hist' = Remember
            /\ UNCHANGED pending
       ELSE Finish(s) /\ UNCHANGED <<fetches, hist>>
    /\ UNCHANGED <<page, changing, host, panel, peers, rows, dialog, evidence, left>>

\* refresh: every answer that is ok is taken over; a network error takes none.
TrustedBatchEnds(s) ==
    /\ ops[s].kind \in TrustKinds /\ ops[s].step = "waiting"
    /\ \A f \in Awaited(s) : f.got.res # "none"
    /\ \/ /\ panel' = [r \in Reports |->
                         IF \E f \in Awaited(s) : f.rep = r /\ f.got.res = "ok"
                         THEN Taken((CHOOSE f \in Awaited(s) : f.rep = r).got) ELSE panel[r]]
          /\ hist' = [hist EXCEPT !.refreshed = \A t \in InFlight : t = s \/ ops[t].step = "asked"]
       \/ /\ hist' = [hist EXCEPT !.spoiled = TRUE]
          /\ UNCHANGED panel
    /\ fetches' = fetches \ Awaited(s)
    /\ ops' = [ops EXCEPT ![s] = IdleOp]
    /\ pending' = IF ops[s].kind = "trustReconcile" THEN "none" ELSE pending
    /\ UNCHANGED <<page, changing, host, peers, rows, dialog, evidence, left>>

-----------------------------------------------------------------------------
\* The host changes by itself.
HostMoves ==
    /\ left.changes > 0
    /\ \E r \in changing : \E state \in States(r) \ {host[r].state} :
         host' = [host EXCEPT ![r] = [state |-> state, ver |-> @.ver + 1]]
    /\ left' = [left EXCEPT !.changes = @ - 1]
    /\ hist' = [hist EXCEPT !.spoiled = TRUE]
    /\ UNCHANGED <<page, changing, panel, fetches, ops, pending, peers, rows, dialog, evidence>>

\* A page is opened: its loader has read jobs, alerts and metrics, or could not,
\* and the mount's reads are under way.
ConsoleStart(open) ==
    /\ page \in IF open THEN {"game", "players", "deployments"} ELSE {"none"}
    /\ changing \in {{}} \union {C \in ChangeSets : C \subseteq ShownOn(page)}
    /\ host \in [Reports -> {[state |-> s, ver |-> 0] : s \in {"good", "bad"}}]
    /\ \A r \in Reports : r \notin changing \/ r = "metrics" => host[r].state = "good"
    /\ \E read \in SUBSET (changing \intersect {"deployments", "operations", "metrics"}) :
         panel = [r \in Reports |->
            IF r \notin changing \/ (page = "game" /\ r \in read) THEN host[r]
            ELSE IF page = "game" /\ r \in {"deployments", "operations", "metrics"} THEN LoadedEmpty(r)
            ELSE Unloaded]
    /\ fetches = IF page = "deployments" THEN Fetching(ShownOn(page), 1)
                 ELSE Fetching(ShownOn(page) \ {"deployments"}, 0)
    /\ ops = [s \in Slots |-> IF s = 1 /\ page = "deployments"
                THEN [IdleOp EXCEPT !.kind = "trustRefresh", !.step = "waiting"] ELSE IdleOp]
    /\ pending = "none"
    /\ peers = [p \in Players |-> [ver |-> 1, status |-> "active"]]
    /\ rows = peers
    /\ dialog = [open |-> FALSE, player |-> 0, ver |-> 0, status |-> "none"]
    /\ evidence = [s \in Slots |-> NoEvidence]
    /\ left = [changes |-> MaxChanges, actions |-> MaxActions]
    /\ hist = [refreshed |-> FALSE, spoiled |-> FALSE, lost |-> FALSE,
               disturbed |-> FALSE, asked |-> 0]

ConsoleNext ==
    \/ PollOperations \/ ServeFetch \/ FetchAnswers \/ HostMoves
    \/ CloseWireGuardDialog \/ OverlappedActionEnds
    \/ \E s \in Slots :
         \/ RefreshWireGuardGatewayStatus(s) \/ RefreshAccessStatus(s)
         \/ RefreshOperationsStatus(s) \/ RefreshServiceMetrics(s) \/ RefreshDeploymentRows(s)
         \/ RefreshRuntimeHealth(s) \/ WaitEnds(s)
         \/ ClickRuntime(s) \/ ServeRuntime(s) \/ RuntimeAnswers(s)
         \/ ClickPeer(s) \/ ServePeer(s) \/ PeerAnswers(s)
         \/ DownloadRuntimeHealthReport(s) \/ CopyRuntimeHealthSummary(s)
         \/ SectionRead(s) \/ EvidenceEnds(s)
         \/ TrustedTimer(s) \/ TrustedRefresh(s) \/ RunTrustedReconcile(s)
         \/ ServeTrusted(s) \/ TrustedAnswers(s) \/ TrustedBatchEnds(s)

-----------------------------------------------------------------------------
(* Properties.                                                             *)

\* The variables hold values of their kinds, no report is newer than the host,
\* and a read that is waited for belongs to an action in flight (the hook's
\* state, Promise.all).
ConsoleTypeOK ==
    /\ changing \subseteq ShownOn(page)
    /\ \A r \in Reports : host[r] \in Snapshots(r) /\ panel[r] \in Snapshots(r)
                          /\ panel[r].ver <= host[r].ver
    /\ \A f \in fetches : f.rep \in changing /\ (f.op # 0 => f.op \in InFlight)
    /\ pending \in Kinds \union {"none"}
    /\ \A s \in Slots : ops[s].kind \in Kinds \union {"none"}
    /\ dialog.open => dialog.player \in Players

\* What an organizer would conclude from the host itself.
HostTruth ==
    LET states == {host[r].state : r \in ShownOn(page)}
    IN CASE page = "game" /\ "bad" \in states  -> "critical"
         [] page = "game" /\ "bad" \notin states /\ states # {"good"} -> "warning"
         [] page = "deployments" /\ (\/ host["access"].state # "good" \/ host["gateway"].state # "good"
                                     \/ host["deployments"].state = "degraded") -> "incomplete"
         [] OTHER -> "healthy"

\* Once a complete refresh has ended, the verdict on the page is the host's: the
\* severity of the health card, the banner of the trusted panel.  Spoilers are a
\* read that failed (silently), the host moving on, or a stale answer that was
\* still under way when the refresh began.
VerdictIsTrue == (hist.refreshed /\ ~hist.spoiled) => Verdict(panel) = HostTruth

\* A section of the evidence report is never older than what the page showed
\* when the organizer asked for the report.
EvidenceIsFresh ==
    \A s \in Slots : \A r \in evidence[s].read : evidence[s].ver[r] >= evidence[s].floor[r]

\* The configuration in the open dialog is the present one of the player that was
\* asked for last, as long as actions do not overlap.
ConfigShownIsCurrent ==
    (dialog.open /\ InFlight = {} /\ ~hist.disturbed) =>
        /\ dialog.player = hist.asked
        /\ peers[dialog.player] = [ver |-> dialog.ver, status |-> dialog.status]

\* At rest the players' rows show their peers, unless the answer of a rotation or
\* a revocation was lost or actions overlapped.
RowsShowPeers ==
    (InFlight = {} /\ ~hist.lost /\ ~hist.disturbed) => rows = peers

\* What the console reports is true: the verdict of a refreshed page, and every
\* section of an evidence report (buildRuntimeHealthSnapshot, the report route).
ReportsAreTrue == VerdictIsTrue /\ EvidenceIsFresh

\* The players' rows and the dialog's configuration are those of the peers
\* (applyWireGuardUpdate, wireGuardAction).
PeersAreShown == ConfigShownIsCurrent /\ RowsShowPeers
=============================================================================
