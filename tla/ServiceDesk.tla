----------------------------- MODULE ServiceDesk -----------------------------
(***************************************************************************)
(* The participant's services page: unlock, SSH access, restart and        *)
(* factory reset of the team's own services (use-control-center,           *)
(* control-center-sections, dashboard-data, and the api-gateway's handlers *)
(* and store behind them).                                                 *)
(*                                                                         *)
(* An action is a POST followed by a read of all the team's services.      *)
(* Between its steps the page may be reloaded (router.refresh, every 20    *)
(* seconds or while a tick is overdue), dialogs may be closed, and the     *)
(* organizers and the checker change the services.                         *)
(***************************************************************************)
EXTENDS Integers

CONSTANTS Services,     \* the team's services, by challenge
          NoService,    \* none of them
          MaxEvents,    \* bound on the organizers' and the checker's moves and on
                        \* the page loads that miss a list, together
          MaxRequests   \* bound on the actions the participant starts

ASSUME DeskAssumption ==
    /\ NoService \notin Services
    /\ MaxEvents \in Nat /\ MaxRequests \in Nat

VARIABLES service,   \* what the api-gateway keeps of each service
          paused,    \* the match is paused
          epoch,     \* the unlock proofs' epoch
          rows,      \* the page's rows
          desk,      \* the action in flight, pendingAction
          dialog,    \* the open dialog and its target
          issued,    \* the service of issuedSession
          triggered, \* hasTriggered of the SSH dialog
          load,      \* the page load in flight
          deskLeft,  \* what is left of the bounds
          deskHist   \* what the properties remember

deskVars == <<service, paused, epoch, rows, desk, dialog, issued, triggered,
              load, deskLeft, deskHist>>

-----------------------------------------------------------------------------
Statuses == {"stable", "warming", "degraded", "resetting"}
Row == [unlocked : BOOLEAN, status : Statuses \union {"absent"}, blocked : BOOLEAN, live : BOOLEAN]
NoRow == [unlocked |-> FALSE, status |-> "absent", blocked |-> TRUE, live |-> FALSE]

\* ListTeamServices: a paused match shows every service locked and not unlocked.
Listed(c) == [unlocked |-> service[c].unlocked /\ ~paused, status |-> service[c].status,
              blocked |-> service[c].closed \/ paused, live |-> TRUE]

\* fallbackServiceRows: endpoints without states.  Their row ids differ from
\* the others', and maintenance is known only if the challenges were read.
Fallback(known) == [c \in Services |->
    [unlocked |-> FALSE, status |-> "warming",
     blocked |-> known /\ service[c].closed, live |-> FALSE]]

\* serviceStateToRow, or what remains when lists could not be read.
LoadedRows(read) ==
    CASE read = "states"    -> [c \in Services |-> Listed(c)]
      [] read = "endpoints" -> Fallback(TRUE)
      [] read = "bare"      -> Fallback(FALSE)
      [] read = "nothing"   -> [c \in Services |-> NoRow]

\* mergeServiceState keeps the row's id.
MergeServiceState(row, state) ==
    IF row = NoRow THEN row ELSE [state EXCEPT !.live = row.live]

NoAction == [kind |-> "none", svc |-> NoService, step |-> "idle", live |-> TRUE,
             proof |-> 0, state |-> NoRow]
NoDialog == [kind |-> "none", svc |-> NoService, live |-> TRUE]
Idle == desk.kind = "none"

-----------------------------------------------------------------------------
(* Organizers, checker and match.                                          *)

OrganizerMoves ==
    /\ deskLeft.events > 0
    /\ deskLeft' = [deskLeft EXCEPT !.events = @ - 1]
    /\ UNCHANGED <<rows, desk, dialog, issued, triggered, load>>

\* Both rotate the proofs and lock the service again; a proof that was verified
\* just before may still unlock it.
RelocksNot(c) == service[c]                     \* mutant: the rotation leaves the service unlocked
Relocked(c) == [service[c] EXCEPT !.unlocked = FALSE]

Raced(c) == deskHist' =
    [deskHist EXCEPT !.raced = IF desk.svc = c /\ desk.step = "verified" THEN @ \union {c} ELSE @]

SetChallengeMaintenance(c) ==
    /\ OrganizerMoves /\ ~service[c].closed
    /\ service' = [service EXCEPT ![c] = [Relocked(c) EXCEPT !.closed = TRUE, !.status = "degraded"]]
    /\ epoch' = [epoch EXCEPT ![c] = @ + 1]
    /\ Raced(c)
    /\ UNCHANGED paused

RotateChallengeUnlockProof(c) ==
    /\ OrganizerMoves
    /\ service' = [service EXCEPT ![c] = Relocked(c)]
    /\ epoch' = [epoch EXCEPT ![c] = @ + 1]
    /\ Raced(c)
    /\ UNCHANGED paused

\* Leaving maintenance redeploys the service, which is locked afterwards.
RequeueChallengeServices(c) ==
    /\ OrganizerMoves /\ service[c].closed
    /\ service' = [service EXCEPT ![c] = [unlocked |-> FALSE, status |-> "warming", closed |-> FALSE]]
    /\ UNCHANGED <<paused, epoch, deskHist>>

\* external: the checker's verdict, written by game-core.
CheckerVerdict(c) ==
    /\ OrganizerMoves /\ ~service[c].closed /\ ~paused
    /\ \E s \in {"stable", "degraded"} :
         s # service[c].status /\ service' = [service EXCEPT ![c].status = s]
    /\ UNCHANGED <<paused, epoch, deskHist>>

PauseOrResume ==
    /\ OrganizerMoves
    /\ paused' = ~paused
    /\ UNCHANGED <<service, epoch, deskHist>>

-----------------------------------------------------------------------------
(* Dialogs.  They are modal: the cards behind them take no clicks.         *)

\* ServiceActionBar: no button works while an action is pending or the row is locked.
Offered(c) == Idle /\ dialog.kind = "none" /\ ~rows[c].blocked

Open(kind, c) ==
    /\ Offered(c)
    /\ dialog' = [kind |-> kind, svc |-> c, live |-> rows[c].live]
    /\ UNCHANGED <<service, paused, epoch, rows, desk, issued, triggered, load, deskLeft, deskHist>>

SelectPrimaryAction(c) == Open(IF rows[c].unlocked THEN "ssh" ELSE "unlock", c)
SelectResetTarget(c) == Open("reset", c)

\* Cancel and Close are never disabled.  Closing the SSH dialog forgets the
\* credential, but not the request for it that may be in flight.
IssuedKept(kind) == issued                      \* mutant: the credential outlives its dialog
IssuedAfterClose(kind) == IF kind = "ssh" THEN NoService ELSE issued

CloseDialog ==
    /\ dialog.kind # "none"
    /\ dialog' = NoDialog
    /\ issued' = IssuedAfterClose(dialog.kind)
    /\ triggered' = FALSE
    /\ deskHist' = [deskHist EXCEPT !.late = IF dialog.kind = "ssh" THEN desk.kind = "ssh" ELSE @,
                                    !.auto = 0]
    /\ UNCHANGED <<service, paused, epoch, rows, desk, load, deskLeft>>

-----------------------------------------------------------------------------
(* Actions.                                                                *)

Request(kind, c, live) ==
    /\ Idle /\ deskLeft.requests > 0
    /\ desk' = [NoAction EXCEPT !.kind = kind, !.svc = c, !.step = "sent", !.live = live]
    /\ deskLeft' = [deskLeft EXCEPT !.requests = @ - 1]
    /\ UNCHANGED <<service, paused, epoch, rows, dialog, issued, load>>

RequestUnlock ==
    /\ dialog.kind = "unlock" /\ Request("unlock", dialog.svc, dialog.live)
    /\ UNCHANGED <<triggered, deskHist>>
RequestFactoryReset ==
    /\ dialog.kind = "reset" /\ Request("reset", dialog.svc, dialog.live)
    /\ UNCHANGED <<triggered, deskHist>>
RequestRestart(c) ==
    /\ Offered(c) /\ Request("restart", c, rows[c].live)
    /\ UNCHANGED <<triggered, deskHist>>

\* The SSH dialog asks for the credential itself, once; Reapply is offered
\* once there is one.
MayTrigger == issued = NoService /\ ~triggered

TriggerSSHSession ==
    /\ dialog.kind = "ssh" /\ MayTrigger
    /\ Request("ssh", dialog.svc, dialog.live)
    /\ triggered' = TRUE
    /\ deskHist' = [deskHist EXCEPT !.auto = @ + 1]
ReapplyCredential ==
    /\ dialog.kind = "ssh" /\ issued # NoService
    /\ Request("ssh", dialog.svc, dialog.live)
    /\ UNCHANGED <<triggered, deskHist>>

-----------------------------------------------------------------------------
(* The api-gateway.                                                        *)

\* ValidateServiceAction.
Admitted(c) == ~paused /\ ~service[c].closed

Answer(step) == desk' = [desk EXCEPT !.step = step]

ServerFrame == UNCHANGED <<paused, epoch, rows, dialog, issued, triggered, load, deskLeft>>

\* Rate limits, a lost session, a wrong proof, a failing runtime.
Refuse ==
    /\ desk.step \in {"sent", "verified"}
    /\ Answer("failed") /\ ServerFrame /\ UNCHANGED <<service, deskHist>>

\* handleUnlock verifies the proof against the epoch and then stores the unlock.
VerifyProof ==
    /\ desk.kind = "unlock" /\ desk.step = "sent" /\ Admitted(desk.svc)
    /\ desk' = [desk EXCEPT !.step = "verified", !.proof = epoch[desk.svc]]
    /\ ServerFrame /\ UNCHANGED <<service, deskHist>>

\* The unlock stays when the access rules or the credential cannot be applied.
UnlockService ==
    /\ desk.step = "verified" /\ Admitted(desk.svc)
    /\ service' = [service EXCEPT ![desk.svc].unlocked = TRUE,
                     ![desk.svc].status = IF @ = "degraded" THEN "warming" ELSE @]
    /\ \E step \in {"ok", "failed"} : Answer(step)
    /\ deskHist' = [deskHist EXCEPT !.granted = @ \union {desk.svc},
                                    !.proof[desk.svc] = desk.proof]
    /\ ServerFrame

CreateSSHSession ==
    /\ desk.kind = "ssh" /\ desk.step = "sent" /\ Admitted(desk.svc)
    /\ service[desk.svc].unlocked
    /\ \E step \in {"ok", "failed"} : Answer(step)
    /\ ServerFrame /\ UNCHANGED <<service, deskHist>>

RestartService ==
    /\ desk.kind = "restart" /\ desk.step = "sent" /\ Admitted(desk.svc)
    /\ service' = [service EXCEPT ![desk.svc].status = "warming"]
    /\ \E step \in {"ok", "failed"} : Answer(step)
    /\ ServerFrame /\ UNCHANGED deskHist

PrepareFactoryReset ==
    /\ desk.kind = "reset" /\ desk.step = "sent" /\ Admitted(desk.svc)
    /\ service' = [service EXCEPT ![desk.svc].status = "resetting"]
    /\ Answer("resetting")
    /\ ServerFrame /\ UNCHANGED deskHist

\* Nothing is checked again when the runtime is done.
CompleteFactoryReset ==
    /\ desk.step = "resetting"
    /\ \E ok \in BOOLEAN :
         /\ service' = [service EXCEPT ![desk.svc].status = IF ok THEN "warming" ELSE "degraded"]
         /\ desk' = [desk EXCEPT !.step = IF ok THEN "ok" ELSE "failed",
                                 !.state.unlocked = service[desk.svc].unlocked]
    /\ ServerFrame /\ UNCHANGED deskHist

-----------------------------------------------------------------------------
(* The answers.                                                            *)

\* The row an action updates before it reads the services: the one with the
\* target's id.  A reset's answer says whether the unlock was preserved.
Optimistic(row) ==
    CASE desk.kind = "unlock"  -> [row EXCEPT !.unlocked = TRUE,
                                     !.status = IF @ = "degraded" THEN "warming" ELSE @]
      [] desk.kind = "ssh"     -> [row EXCEPT !.unlocked = TRUE]
      [] desk.kind = "restart" -> [row EXCEPT !.status = "warming"]
      [] desk.kind = "reset"   -> [row EXCEPT !.status = "warming",
                                     !.unlocked = desk.state.unlocked /\ @]

DeskAfterAnswer == IF desk.step = "ok" THEN [desk EXCEPT !.step = "reading"] ELSE NoAction

RowAfterAnswer(row) ==
    IF desk.step = "ok" /\ row # NoRow /\ row.live = desk.live THEN Optimistic(row) ELSE row

ActionAnswers ==
    /\ desk.step \in {"ok", "failed"}
    /\ rows' = [rows EXCEPT ![desk.svc] = RowAfterAnswer(@)]
    /\ desk' = DeskAfterAnswer
    /\ UNCHANGED <<service, paused, epoch, dialog, issued, triggered, load, deskLeft, deskHist>>

RefreshServed ==
    /\ desk.step = "reading"
    /\ \/ desk' = [desk EXCEPT !.step = "read", !.state = Listed(desk.svc)]
       \/ desk' = NoAction
    /\ UNCHANGED <<service, paused, epoch, rows, dialog, issued, triggered, load, deskLeft, deskHist>>

\* refreshServiceRow, and what the action does after it.
RefreshServiceRow ==
    /\ desk.step = "read"
    /\ rows' = [rows EXCEPT ![desk.svc] = MergeServiceState(@, desk.state)]
    /\ dialog' = IF desk.kind \in {"unlock", "reset"} /\ dialog.kind = desk.kind THEN NoDialog ELSE dialog
    /\ issued' = CASE desk.kind = "ssh"   -> desk.svc
                   [] desk.kind = "reset" -> NoService
                   [] OTHER               -> issued
    /\ desk' = NoAction
    /\ UNCHANGED <<service, paused, epoch, triggered, load, deskLeft, deskHist>>

-----------------------------------------------------------------------------
(* Page loads.  The router runs one refresh at a time.                     *)

LoadServed(read) ==
    /\ load.step = "idle"
    /\ read = "states" \/ deskLeft.events > 0
    /\ load' = [step |-> "read", rows |-> LoadedRows(read)]
    /\ deskLeft' = IF read = "states" THEN deskLeft ELSE [deskLeft EXCEPT !.events = @ - 1]
    /\ UNCHANGED <<service, paused, epoch, rows, desk, dialog, issued, triggered, deskHist>>

LoadDropped(snapshot) == rows                   \* mutant: rows keep their first value
RowsAfterLoad(snapshot) == snapshot

LoadArrives ==
    /\ load.step = "read"
    /\ rows' = RowsAfterLoad(load.rows)
    /\ load' = [step |-> "idle", rows |-> [c \in Services |-> NoRow]]
    /\ UNCHANGED <<service, paused, epoch, desk, dialog, issued, triggered, deskLeft, deskHist>>

-----------------------------------------------------------------------------
\* A page that has been loaded, in a match that has been running for a while.
DeskStart(open) ==
    /\ paused = FALSE
    /\ epoch = [c \in Services |-> 1]
    /\ \E all \in IF open THEN {"locked", "unlocked", "closed"} ELSE {"locked"} :
         service = [c \in Services |->
              [unlocked |-> all = "unlocked", closed |-> all = "closed",
               status |-> IF all = "closed" THEN "degraded" ELSE "stable"]]
    /\ deskHist = [granted |-> {c \in Services : service[c].unlocked}, proof |-> epoch,
                   raced |-> {}, late |-> FALSE, auto |-> 0]
    /\ rows = [c \in Services |-> Listed(c)]
    /\ desk = NoAction /\ dialog = NoDialog /\ issued = NoService /\ triggered = FALSE
    /\ load = [step |-> IF open THEN "idle" ELSE "away", rows |-> [c \in Services |-> NoRow]]
    /\ deskLeft = IF open THEN [events |-> MaxEvents, requests |-> MaxRequests]
                          ELSE [events |-> 0, requests |-> 0]

ServerStep ==
    \/ Refuse \/ VerifyProof \/ UnlockService \/ CreateSSHSession
    \/ RestartService \/ PrepareFactoryReset \/ CompleteFactoryReset

DeskNext ==
    \/ \E c \in Services :
         \/ SetChallengeMaintenance(c) \/ RotateChallengeUnlockProof(c)
         \/ RequeueChallengeServices(c) \/ CheckerVerdict(c)
         \/ load.step # "away" /\ (SelectPrimaryAction(c) \/ SelectResetTarget(c) \/ RequestRestart(c))
    \/ PauseOrResume \/ CloseDialog
    \/ RequestUnlock \/ RequestFactoryReset \/ TriggerSSHSession \/ ReapplyCredential
    \/ ServerStep
    \/ ActionAnswers \/ RefreshServed \/ RefreshServiceRow
    \/ LoadArrives
    \/ \E read \in {"states", "endpoints", "bare", "nothing"} : LoadServed(read)

\* Requests are answered and the page is reloaded again and again.
DeskFairness ==
    /\ WF_deskVars(ServerStep) /\ WF_deskVars(ActionAnswers)
    /\ WF_deskVars(RefreshServed) /\ WF_deskVars(RefreshServiceRow)
    /\ WF_deskVars(LoadArrives)
    /\ WF_deskVars(\E read \in {"states", "endpoints", "bare", "nothing"} : LoadServed(read))

-----------------------------------------------------------------------------
(* Properties.                                                             *)

\* The variables hold values of their kinds, and an action has a service.
DeskTypeOK ==
    /\ service \in [Services -> [unlocked : BOOLEAN, status : Statuses, closed : BOOLEAN]]
    /\ rows \in [Services -> Row]
    /\ desk.kind \in {"none", "unlock", "ssh", "reset", "restart"}
    /\ desk.step \in {"idle", "sent", "verified", "resetting", "ok", "failed", "reading", "read"}
    /\ Idle = (desk.svc = NoService) /\ Idle = (desk.step = "idle")
    /\ dialog.svc \in Services \union {NoService}
    /\ issued \in Services \union {NoService}
    /\ load.step \in {"away", "idle", "read"} /\ load.rows \in [Services -> Row]

\* The credential in the SSH dialog is the one of the service the dialog was
\* opened for, unless an earlier SSH dialog was closed before its answer came:
\* that answer's credential is kept and shown for whichever service is next.
CredentialFitsDialog ==
    (dialog.kind = "ssh" /\ issued # NoService) => (issued = dialog.svc \/ deskHist.late)

\* While an action runs, the only dialog that can be open is the one it was
\* started from, so the dialog it closes at its end is its own.
ActionFitsDialog ==
    (~Idle /\ dialog.kind # "none") => (dialog.kind = desk.kind /\ dialog.svc = desk.svc)

\* A row says unlocked only for a service the api-gateway has unlocked.
UnlockShownWasGranted == \A c \in Services : rows[c].unlocked => c \in deskHist.granted

\* An unlocked service was unlocked by a proof of the current epoch, unless the
\* rotation came between the check of the proof and the unlock.
UnlockedByCurrentProof ==
    \A c \in Services : service[c].unlocked =>
        (deskHist.proof[c] = epoch[c] \/ c \in deskHist.raced)

\* An SSH dialog sends at most one request nobody clicked for, also when it fails.
OneAutomaticRequest == deskHist.auto <= 1

\* The rows agree with the services again and again: the reload repairs what
\* optimistic updates, crossing answers and failed reads leave behind.
RowsCatchUp ==
    (load.step # "away") => []<>(\A c \in Services : rows[c] = Listed(c))

\* Dialogs and actions belong together: no action runs behind another's dialog,
\* no credential is shown in another's, and an SSH dialog asks by itself only once.
DialogsFit == ActionFitsDialog /\ CredentialFitsDialog /\ OneAutomaticRequest

\* Unlocks are earned: a service is unlocked by a proof of the current epoch, and
\* a row says so only for a service that was unlocked (handleUnlock, requestUnlock).
UnlocksAreEarned == UnlockShownWasGranted /\ UnlockedByCurrentProof
=============================================================================
