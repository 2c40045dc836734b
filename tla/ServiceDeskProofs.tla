------------------------- MODULE ServiceDeskProofs -------------------------
(***************************************************************************)
(* Theorems about the participant's services page, for every number of     *)
(* services, actions and moves of the organizers.  They are stated for the *)
(* specification of ParticipantPages, whose steps are steps of the         *)
(* services page or leave it alone, and need no fairness.                  *)
(***************************************************************************)
EXTENDS ParticipantPages, TLAPS

Kinds == {"none", "unlock", "ssh", "reset", "restart"}
Steps == {"idle", "sent", "verified", "resetting", "ok", "failed", "reading", "read"}

Action == [kind : Kinds, svc : Services \union {NoService}, step : Steps,
           live : BOOLEAN, proof : Nat, state : Row]
Dialog == [kind : {"none", "unlock", "ssh", "reset"}, svc : Services \union {NoService},
           live : BOOLEAN]
State == [unlocked : BOOLEAN, status : Statuses, closed : BOOLEAN]
History == [granted : SUBSET Services, proof : [Services -> Nat], raced : SUBSET Services,
            late : BOOLEAN, auto : Nat]

DeskTypes ==
    /\ service \in [Services -> State]
    /\ paused \in BOOLEAN
    /\ epoch \in [Services -> Nat]
    /\ rows \in [Services -> Row]
    /\ desk \in Action
    /\ dialog \in Dialog
    /\ issued \in Services \union {NoService}
    /\ triggered \in BOOLEAN
    /\ load \in [step : {"away", "idle", "read"}, rows : [Services -> Row]]
    /\ deskLeft \in [events : Int, requests : Int]
    /\ deskHist \in History

\* An action has a service and a step, an open dialog has a service, and only an
\* unlock has its proof verified, only a reset waits for the runtime.
DeskShape ==
    /\ desk.kind = "none" <=> desk.svc = NoService
    /\ desk.kind = "none" <=> desk.step = "idle"
    /\ dialog.kind = "none" <=> dialog.svc = NoService
    /\ desk.step = "verified" => desk.kind = "unlock"
    /\ desk.step = "resetting" => desk.kind = "reset"

TypeInv == DeskTypes /\ DeskShape

-----------------------------------------------------------------------------
(* The specification's steps, as far as the services page sees them.       *)

DeskSafety == (\E open \in BOOLEAN : DeskStart(open)) /\ [][DeskNext]_deskVars

\* The composed pages behave, on the desk's variables, as the services page does.
LEMMA DeskInside == Spec => DeskSafety
<1>1. Init => \E open \in BOOLEAN : DeskStart(open)
  BY DEF Init
<1>2. [Next]_vars => [DeskNext]_deskVars
  BY DEF Next, vars
<1>3. QED
  BY <1>1, <1>2, PTL DEF Spec, DeskSafety

-----------------------------------------------------------------------------
(* Types.                                                                  *)

\* The values the page is put together from are of their kinds.
LEMMA Parts ==
  /\ NoRow \in Row
  /\ NoAction \in Action
  /\ NoDialog \in Dialog
  /\ \A a \in Action, s \in Steps : [a EXCEPT !.step = s] \in Action
  BY DeskAssumption DEF NoRow, Row, Statuses, NoAction, Action, NoDialog, Dialog, Kinds, Steps

\* A listed service is a row.
LEMMA ListedRow == DeskTypes => \A c \in Services : Listed(c) \in Row
  BY DEF DeskTypes, Listed, Row, State, Statuses

\* What a page load brings is a list of rows.
LEMMA LoadedType ==
  ASSUME DeskTypes, NEW read \in {"states", "endpoints", "bare", "nothing"}
  PROVE  LoadedRows(read) \in [Services -> Row]
<1>1. \A known \in BOOLEAN : Fallback(known) \in [Services -> Row]
  BY DEF DeskTypes, Fallback, Row, State, Statuses
<1>2. [c \in Services |-> Listed(c)] \in [Services -> Row]
  BY ListedRow
<1>3. [c \in Services |-> NoRow] \in [Services -> Row]
  BY Parts
<1>4. QED
  BY <1>1, <1>2, <1>3 DEF LoadedRows

\* An answer leaves a row a row.
LEMMA AnsweredRow ==
  ASSUME DeskTypes, DeskShape, NEW row \in Row, desk.step \in {"ok", "failed"}
  PROVE  RowAfterAnswer(row) \in Row
<1>1. desk.kind \in {"unlock", "ssh", "restart", "reset"}
  BY DEF DeskTypes, DeskShape, Action, Kinds
<1>2. desk.state \in Row
  BY DEF DeskTypes, Action
<1>3. CASE desk.kind = "unlock"
  BY <1>3 DEF RowAfterAnswer, Optimistic, Row, Statuses
<1>4. CASE desk.kind = "ssh"
  BY <1>4 DEF RowAfterAnswer, Optimistic, Row
<1>5. CASE desk.kind = "restart"
  BY <1>5 DEF RowAfterAnswer, Optimistic, Row, Statuses
<1>6. CASE desk.kind = "reset"
  BY <1>2, <1>6 DEF RowAfterAnswer, Optimistic, Row, Statuses
<1>7. QED
  BY <1>1, <1>3, <1>4, <1>5, <1>6

\* The page starts well typed.
LEMMA TypeStart == ASSUME NEW open \in BOOLEAN, DeskStart(open) PROVE TypeInv
<1>1. service \in [Services -> State]
  BY DEF DeskStart, State, Statuses
<1>2. rows \in [Services -> Row]
  BY <1>1 DEF DeskStart, Listed, Row, State, Statuses
<1>3. desk \in Action /\ dialog \in Dialog /\ DeskShape
  BY Parts, DeskAssumption DEF DeskStart, DeskShape, NoAction, NoDialog
<1>4. load \in [step : {"away", "idle", "read"}, rows : [Services -> Row]]
  BY Parts DEF DeskStart
<1>5. deskHist \in History
  BY DEF DeskStart, History
<1>6. deskLeft \in [events : Int, requests : Int]
  BY DeskAssumption DEF DeskStart
<1>7. QED
  BY <1>1, <1>2, <1>3, <1>4, <1>5, <1>6 DEF TypeInv, DeskTypes, DeskStart

\* Every step of the services page keeps it well typed.
LEMMA TypeStep == TypeInv /\ [DeskNext]_deskVars => TypeInv'
<1> SUFFICES ASSUME TypeInv, [DeskNext]_deskVars PROVE TypeInv'
  OBVIOUS
<1> USE DeskAssumption
<1>1. ASSUME NEW c \in Services, SetChallengeMaintenance(c) PROVE TypeInv'
  <2>1. [Relocked(c) EXCEPT !.closed = TRUE, !.status = "degraded"] \in State
    BY DEF Relocked, TypeInv, DeskTypes, State, Statuses
  <2>2. service' \in [Services -> State]
    BY <1>1, <2>1 DEF SetChallengeMaintenance, TypeInv, DeskTypes
  <2>3. epoch' \in [Services -> Nat]
    BY <1>1 DEF SetChallengeMaintenance, TypeInv, DeskTypes
  <2>4. deskHist' \in History
    BY <1>1 DEF SetChallengeMaintenance, Raced, TypeInv, DeskTypes, History
  <2>5. QED
    BY <1>1, <2>2, <2>3, <2>4 DEF SetChallengeMaintenance, OrganizerMoves, TypeInv, DeskTypes, DeskShape
<1>2. ASSUME NEW c \in Services, RotateChallengeUnlockProof(c) PROVE TypeInv'
  <2>1. Relocked(c) \in State
    BY DEF Relocked, TypeInv, DeskTypes, State
  <2>2. service' \in [Services -> State]
    BY <1>2, <2>1 DEF RotateChallengeUnlockProof, TypeInv, DeskTypes
  <2>3. epoch' \in [Services -> Nat]
    BY <1>2 DEF RotateChallengeUnlockProof, TypeInv, DeskTypes
  <2>4. deskHist' \in History
    BY <1>2 DEF RotateChallengeUnlockProof, Raced, TypeInv, DeskTypes, History
  <2>5. QED
    BY <1>2, <2>2, <2>3, <2>4 DEF RotateChallengeUnlockProof, OrganizerMoves, TypeInv, DeskTypes, DeskShape
<1>3. ASSUME NEW c \in Services, RequeueChallengeServices(c) PROVE TypeInv'
  BY <1>3 DEF RequeueChallengeServices, OrganizerMoves, TypeInv, DeskTypes, DeskShape, State, Statuses
<1>4. ASSUME NEW c \in Services, CheckerVerdict(c) PROVE TypeInv'
  BY <1>4 DEF CheckerVerdict, OrganizerMoves, TypeInv, DeskTypes, DeskShape, State, Statuses
<1>5. ASSUME PauseOrResume PROVE TypeInv'
  BY <1>5 DEF PauseOrResume, OrganizerMoves, TypeInv, DeskTypes, DeskShape
<1>6. ASSUME NEW c \in Services, NEW kind \in {"unlock", "ssh", "reset"}, Open(kind, c) PROVE TypeInv'
  BY <1>6 DEF Open, TypeInv, DeskTypes, DeskShape, Dialog, Row
<1>7. ASSUME CloseDialog PROVE TypeInv'
  BY <1>7, Parts DEF CloseDialog, IssuedAfterClose, NoDialog, TypeInv, DeskTypes, DeskShape, History
<1>8. ASSUME NEW kind \in {"unlock", "ssh", "reset", "restart"}, NEW c \in Services, NEW live \in BOOLEAN,
             Request(kind, c, live), triggered' \in BOOLEAN, deskHist' \in History
      PROVE  TypeInv'
  <2>1. desk' \in Action
    <3>1. desk' = [kind |-> kind, svc |-> c, step |-> "sent", live |-> live, proof |-> 0, state |-> NoRow]
      BY <1>8 DEF Request, NoAction
    <3>2. QED
      BY <3>1, Parts DEF Action, Kinds, Steps
  <2>2. desk'.kind = kind /\ desk'.svc = c /\ desk'.step = "sent"
    BY <1>8 DEF Request, NoAction
  <2>3. QED
    BY <1>8, <2>1, <2>2 DEF Request, TypeInv, DeskTypes, DeskShape
<1>9. ASSUME ServerStep PROVE TypeInv'
  <2> DEFINE Moves(step) == desk' \in Action /\ desk'.kind = desk.kind /\ desk'.svc = desk.svc
                            /\ desk'.step = step
  <2>0. \A step \in Steps : Answer(step) => Moves(step)
    BY Parts DEF Answer, TypeInv, DeskTypes, Action
  <2> HIDE DEF Moves
  <2>1. CASE Refuse
    <3>1. Moves("failed")
      BY <2>0, <2>1 DEF Refuse, Steps
    <3>2. QED
      BY <2>1, <3>1 DEF Moves, Refuse, ServerFrame, TypeInv, DeskTypes, DeskShape
  <2>2. CASE VerifyProof
    BY <2>2 DEF VerifyProof, ServerFrame, TypeInv, DeskTypes, DeskShape, Action, Steps, Kinds
  <2>3. CASE UnlockService
    <3>1. Moves("ok") \/ Moves("failed")
      BY <2>0, <2>3 DEF UnlockService, Steps
    <3>2. desk.svc \in Services /\ desk.proof \in Nat
      BY <2>3 DEF UnlockService, TypeInv, DeskTypes, DeskShape, Action
    <3>3. service' \in [Services -> State]
      <4> DEFINE open == [service EXCEPT ![desk.svc].unlocked = TRUE]
      <4>1. open \in [Services -> State]
        BY <3>2 DEF TypeInv, DeskTypes, State
      <4>2. service' = [open EXCEPT ![desk.svc].status = IF @ = "degraded" THEN "warming" ELSE @]
        BY <2>3 DEF UnlockService
      <4> HIDE DEF open
      <4>3. QED
        BY <3>2, <4>1, <4>2 DEF State, Statuses
    <3>4. deskHist' \in History
      BY <2>3, <3>2 DEF UnlockService, TypeInv, DeskTypes, History
    <3>5. QED
      BY <2>3, <3>1, <3>3, <3>4 DEF Moves, UnlockService, ServerFrame, TypeInv, DeskTypes, DeskShape
  <2>4. CASE CreateSSHSession
    BY <2>4 DEF CreateSSHSession, Answer, ServerFrame, TypeInv, DeskTypes, DeskShape, Action, Steps
  <2>5. CASE RestartService
    BY <2>5 DEF RestartService, Answer, ServerFrame, TypeInv, DeskTypes, DeskShape, Action, Steps, State, Statuses
  <2>6. CASE PrepareFactoryReset
    BY <2>6 DEF PrepareFactoryReset, Answer, ServerFrame, TypeInv, DeskTypes, DeskShape, Action, Steps, State, Statuses
  <2>7. CASE CompleteFactoryReset
    <3>0. desk.svc \in Services /\ desk.kind = "reset"
      BY <2>7 DEF CompleteFactoryReset, TypeInv, DeskTypes, DeskShape, Action
    <3>1. service' \in [Services -> State]
      <4>1. \A s \in Statuses : [service[desk.svc] EXCEPT !.status = s] \in State
        BY <3>0 DEF TypeInv, DeskTypes, State
      <4>2. PICK s \in Statuses : service' = [service EXCEPT ![desk.svc].status = s]
        BY <2>7 DEF CompleteFactoryReset, Statuses
      <4>3. QED
        BY <3>0, <4>1, <4>2 DEF TypeInv, DeskTypes
    <3>2. PICK ok \in BOOLEAN :
            desk' = [desk EXCEPT !.step = IF ok THEN "ok" ELSE "failed",
                                 !.state.unlocked = service[desk.svc].unlocked]
      BY <2>7 DEF CompleteFactoryReset
    <3>3. [desk.state EXCEPT !.unlocked = service[desk.svc].unlocked] \in Row
      BY <3>0 DEF TypeInv, DeskTypes, Action, State, Row
    <3>4. desk' = [desk EXCEPT !.step = IF ok THEN "ok" ELSE "failed",
                      !.state = [desk.state EXCEPT !.unlocked = service[desk.svc].unlocked]]
      BY <3>2 DEF TypeInv, DeskTypes, Action
    <3>5. Moves("ok") \/ Moves("failed")
      BY <3>3, <3>4 DEF Moves, TypeInv, DeskTypes, Action, Steps
    <3>6. QED
      BY <2>7, <3>0, <3>1, <3>5 DEF Moves, CompleteFactoryReset, ServerFrame, TypeInv, DeskTypes, DeskShape
  <2>8. QED
    BY <1>9, <2>1, <2>2, <2>3, <2>4, <2>5, <2>6, <2>7 DEF ServerStep
<1>10. ASSUME ActionAnswers PROVE TypeInv'
  <2>1. rows' \in [Services -> Row]
    BY <1>10, AnsweredRow DEF ActionAnswers, TypeInv, DeskTypes
  <2>2. desk' \in Action
    BY <1>10, Parts DEF ActionAnswers, DeskAfterAnswer, TypeInv, DeskTypes, Steps
  <2>3. \/ desk' = NoAction
        \/ desk'.kind = desk.kind /\ desk'.svc = desk.svc /\ desk'.step = "reading"
    BY <1>10 DEF ActionAnswers, DeskAfterAnswer, TypeInv, DeskTypes, Action
  <2>4. QED
    BY <1>10, <2>1, <2>2, <2>3 DEF ActionAnswers, NoAction, TypeInv, DeskTypes, DeskShape
<1>11. ASSUME RefreshServed PROVE TypeInv'
  <2>1. desk.svc \in Services
    BY <1>11 DEF RefreshServed, TypeInv, DeskTypes, DeskShape, Action
  <2>2. Listed(desk.svc) \in Row
    BY <2>1, ListedRow DEF TypeInv
  <2>3. CASE desk' = NoAction
    BY <1>11, <2>3, Parts DEF RefreshServed, NoAction, TypeInv, DeskTypes, DeskShape
  <2>4. CASE desk' = [desk EXCEPT !.step = "read", !.state = Listed(desk.svc)]
    <3>1. desk' \in Action /\ desk'.kind = desk.kind /\ desk'.svc = desk.svc /\ desk'.step = "read"
      BY <2>2, <2>4 DEF TypeInv, DeskTypes, Action, Steps
    <3>2. QED
      BY <1>11, <3>1 DEF RefreshServed, TypeInv, DeskTypes, DeskShape
  <2>5. QED
    BY <1>11, <2>3, <2>4 DEF RefreshServed
<1>12. ASSUME RefreshServiceRow PROVE TypeInv'
  <2>1. \A row \in Row : MergeServiceState(row, desk.state) \in Row
    BY DEF MergeServiceState, TypeInv, DeskTypes, Action, Row
  <2>2. desk.svc \in Services
    BY <1>12 DEF RefreshServiceRow, TypeInv, DeskTypes, DeskShape, Action
  <2>3. issued' \in Services \union {NoService}
    BY <1>12, <2>2 DEF RefreshServiceRow, TypeInv, DeskTypes
  <2>4. QED
    BY <1>12, <2>1, <2>2, <2>3, Parts DEF RefreshServiceRow, NoAction, NoDialog, TypeInv, DeskTypes, DeskShape
<1>13. ASSUME NEW read \in {"states", "endpoints", "bare", "nothing"}, LoadServed(read) PROVE TypeInv'
  BY <1>13, LoadedType DEF LoadServed, TypeInv, DeskTypes, DeskShape
<1>14. ASSUME LoadArrives PROVE TypeInv'
  BY <1>14, Parts DEF LoadArrives, RowsAfterLoad, TypeInv, DeskTypes, DeskShape
<1>15. CASE UNCHANGED deskVars
  BY <1>15 DEF deskVars, TypeInv, DeskTypes, DeskShape
<1>16. QED
  <2>1. ASSUME NEW c \in Services, SelectPrimaryAction(c) \/ SelectResetTarget(c) PROVE TypeInv'
    BY <1>6, <2>1 DEF SelectPrimaryAction, SelectResetTarget
  <2>2. ASSUME NEW c \in Services, RequestRestart(c) PROVE TypeInv'
    <3>1. rows[c].live \in BOOLEAN /\ triggered' \in BOOLEAN /\ deskHist' \in History
      BY <2>2 DEF RequestRestart, TypeInv, DeskTypes, Row
    <3>2. QED
      BY <1>8, <2>2, <3>1 DEF RequestRestart
  <2>3. ASSUME RequestUnlock \/ RequestFactoryReset \/ TriggerSSHSession \/ ReapplyCredential PROVE TypeInv'
    <3>1. dialog.svc \in Services /\ dialog.live \in BOOLEAN
      BY <2>3 DEF RequestUnlock, RequestFactoryReset, TriggerSSHSession, ReapplyCredential, TypeInv, DeskTypes, DeskShape, Dialog
    <3>2. triggered' \in BOOLEAN /\ (deskHist' = deskHist \/ deskHist' = [deskHist EXCEPT !.auto = @ + 1])
      BY <2>3 DEF RequestUnlock, RequestFactoryReset, TriggerSSHSession, ReapplyCredential, TypeInv, DeskTypes
    <3>3. deskHist' \in History
      BY <3>2 DEF TypeInv, DeskTypes, History
    <3>4. QED
      BY <1>8, <2>3, <3>1, <3>2, <3>3 DEF RequestUnlock, RequestFactoryReset, TriggerSSHSession, ReapplyCredential
  <2>4. QED
    BY <1>1, <1>2, <1>3, <1>4, <1>5, <1>7, <1>9, <1>10, <1>11, <1>12, <1>13, <1>14, <1>15, <2>1, <2>2, <2>3 DEF DeskNext

\* The services page's variables hold values of their kinds in every behaviour of
\* the participant's pages.
THEOREM DeskWellTyped == Spec => []DeskTypeOK
<1>1. (\E open \in BOOLEAN : DeskStart(open)) => TypeInv
  BY TypeStart
<1>2. TypeInv => DeskTypeOK
  BY DEF TypeInv, DeskTypes, DeskShape, DeskTypeOK, Action, Dialog, State, Kinds, Steps, Idle
<1>3. QED
  BY <1>1, <1>2, TypeStep, DeskInside, PTL DEF DeskSafety

-----------------------------------------------------------------------------
(* Dialogs.  DialogsFit is not inductive: a credential or a request for    *)
(* one outside an SSH dialog must be known to be a late one, and a dialog  *)
(* that has not triggered its request must be known to have sent none.     *)

DialogInv ==
    /\ ActionFitsDialog
    /\ CredentialFitsDialog
    /\ issued # NoService => (dialog.kind = "ssh" \/ deskHist.late)
    /\ desk.kind = "ssh" => (dialog.kind = "ssh" \/ deskHist.late)
    /\ deskHist.auto <= 1
    /\ ~triggered => deskHist.auto = 0

\* A step that opens and closes no dialog and starts no action keeps it.
LEMMA DialogFrame ==
  ASSUME TypeInv, DialogInv, UNCHANGED <<dialog, issued, triggered>>,
         deskHist'.late = deskHist.late, deskHist'.auto = deskHist.auto,
         desk'.kind = "none" \/ (desk'.kind = desk.kind /\ desk'.svc = desk.svc)
  PROVE  DialogInv'
  BY DEF DialogInv, ActionFitsDialog, CredentialFitsDialog, Idle

\* So does one that starts an action from its own dialog, or with none open.
LEMMA DialogRequest ==
  ASSUME TypeInv, DialogInv, NEW kind, NEW c, NEW live, Request(kind, c, live),
         dialog.kind = "none" \/ (dialog.kind = kind /\ dialog.svc = c),
         kind = "ssh" => dialog.kind = "ssh",
         deskHist'.late = deskHist.late, deskHist'.auto <= 1, ~triggered' => deskHist'.auto = 0
  PROVE  DialogInv'
<1>1. desk'.kind = kind /\ desk'.svc = c
  BY DEF Request, NoAction
<1>2. QED
  BY <1>1 DEF Request, DialogInv, ActionFitsDialog, CredentialFitsDialog, Idle

\* Every step of the services page keeps dialogs and actions together.
LEMMA DialogStep == TypeInv /\ DialogInv /\ [DeskNext]_deskVars => DialogInv'
<1> SUFFICES ASSUME TypeInv, DialogInv, [DeskNext]_deskVars PROVE DialogInv'
  OBVIOUS
<1>0. deskHist \in History /\ desk \in Action
  BY DEF TypeInv, DeskTypes
<1>1. ASSUME NEW c \in Services,
             \/ SetChallengeMaintenance(c) \/ RotateChallengeUnlockProof(c)
             \/ RequeueChallengeServices(c) \/ CheckerVerdict(c)
      PROVE  DialogInv'
  <2>1. deskHist'.late = deskHist.late /\ deskHist'.auto = deskHist.auto
    BY <1>0, <1>1 DEF SetChallengeMaintenance, RotateChallengeUnlockProof, RequeueChallengeServices,
                      CheckerVerdict, Raced, History
  <2>2. UNCHANGED <<dialog, issued, triggered, desk>>
    BY <1>1 DEF SetChallengeMaintenance, RotateChallengeUnlockProof, RequeueChallengeServices,
                CheckerVerdict, OrganizerMoves
  <2>3. QED
    BY <2>1, <2>2, DialogFrame
<1>2. ASSUME PauseOrResume PROVE DialogInv'
  <2>1. UNCHANGED <<dialog, issued, triggered, desk, deskHist>>
    BY <1>2 DEF PauseOrResume, OrganizerMoves
  <2>2. QED
    BY <2>1, DialogFrame
<1>3. ASSUME NEW c \in Services, SelectPrimaryAction(c) \/ SelectResetTarget(c) PROVE DialogInv'
  <2>1. PICK kind \in {"unlock", "ssh", "reset"} : Open(kind, c)
    BY <1>3 DEF SelectPrimaryAction, SelectResetTarget
  <2>2. QED
    BY <2>1 DEF Open, Offered, Idle, DialogInv, ActionFitsDialog, CredentialFitsDialog
<1>4. ASSUME CloseDialog PROVE DialogInv'
  <2>1. dialog'.kind = "none" /\ deskHist'.auto = 0 /\ desk' = desk
    BY <1>0, <1>4 DEF CloseDialog, NoDialog, History
  <2>2. issued' # NoService => deskHist'.late
    <3>1. CASE dialog.kind = "ssh"
      BY <1>4, <3>1 DEF CloseDialog, IssuedAfterClose
    <3>2. CASE dialog.kind # "ssh"
      BY <1>0, <1>4, <3>2 DEF CloseDialog, IssuedAfterClose, DialogInv, History
    <3>3. QED
      BY <3>1, <3>2
  <2>3. desk.kind = "ssh" => deskHist'.late
    BY <1>0, <1>4 DEF CloseDialog, DialogInv, History
  <2>4. QED
    BY <2>1, <2>2, <2>3 DEF DialogInv, ActionFitsDialog, CredentialFitsDialog
<1>5. ASSUME NEW c \in Services, RequestRestart(c) PROVE DialogInv'
  <2>1. deskHist'.auto <= 1 /\ (~triggered' => deskHist'.auto = 0)
    BY <1>5 DEF RequestRestart, DialogInv
  <2>2. QED
    BY <1>5, <2>1, DialogRequest DEF RequestRestart, Offered
<1>6. ASSUME RequestUnlock \/ RequestFactoryReset \/ ReapplyCredential PROVE DialogInv'
  <2>1. deskHist'.auto <= 1 /\ (~triggered' => deskHist'.auto = 0)
    BY <1>6 DEF RequestUnlock, RequestFactoryReset, ReapplyCredential, DialogInv
  <2>2. QED
    BY <1>6, <2>1, DialogRequest DEF RequestUnlock, RequestFactoryReset, ReapplyCredential
<1>7. ASSUME TriggerSSHSession PROVE DialogInv'
  <2>1. deskHist'.late = deskHist.late /\ deskHist'.auto = 1 /\ triggered' = TRUE
    BY <1>0, <1>7 DEF TriggerSSHSession, MayTrigger, DialogInv, History
  <2>2. QED
    BY <1>7, <2>1, DialogRequest DEF TriggerSSHSession
<1>8. ASSUME ServerStep PROVE DialogInv'
  <2>1. UNCHANGED <<dialog, issued, triggered>>
    BY <1>8 DEF ServerStep, Refuse, VerifyProof, UnlockService, CreateSSHSession, RestartService,
                PrepareFactoryReset, CompleteFactoryReset, ServerFrame
  <2>2. deskHist'.late = deskHist.late /\ deskHist'.auto = deskHist.auto
    BY <1>0, <1>8 DEF ServerStep, Refuse, VerifyProof, UnlockService, CreateSSHSession, RestartService,
                      PrepareFactoryReset, CompleteFactoryReset, History
  <2>3. desk'.kind = desk.kind /\ desk'.svc = desk.svc
    <3>1. CASE CompleteFactoryReset
      BY <1>0, <3>1 DEF CompleteFactoryReset, Action
    <3>2. CASE VerifyProof
      BY <1>0, <3>2 DEF VerifyProof, Action
    <3>3. ASSUME NEW step, Answer(step) PROVE desk'.kind = desk.kind /\ desk'.svc = desk.svc
      BY <1>0, <3>3 DEF Answer, Action
    <3>4. QED
      BY <1>8, <3>1, <3>2, <3>3 DEF ServerStep, Refuse, UnlockService, CreateSSHSession, RestartService,
                                    PrepareFactoryReset
  <2>4. QED
    BY <2>1, <2>2, <2>3, DialogFrame
<1>9. ASSUME ActionAnswers \/ RefreshServed PROVE DialogInv'
  <2>1. desk'.kind = "none" \/ (desk'.kind = desk.kind /\ desk'.svc = desk.svc)
    <3>1. \/ desk' = NoAction
          \/ desk' = [desk EXCEPT !.step = "reading"]
          \/ desk' = [desk EXCEPT !.step = "read", !.state = Listed(desk.svc)]
      BY <1>9 DEF ActionAnswers, DeskAfterAnswer, RefreshServed
    <3>2. QED
      <4>1. CASE desk' = NoAction
        BY <4>1 DEF NoAction
      <4>2. CASE desk' = [desk EXCEPT !.step = "reading"]
        BY <1>0, <4>2 DEF Action
      <4>3. CASE desk' = [desk EXCEPT !.step = "read", !.state = Listed(desk.svc)]
        BY <1>0, <4>3 DEF Action
      <4>4. QED
        BY <3>1, <4>1, <4>2, <4>3
  <2>2. UNCHANGED <<dialog, issued, triggered, deskHist>>
    BY <1>9 DEF ActionAnswers, RefreshServed
  <2>3. QED
    BY <2>1, <2>2, DialogFrame
<1>10. ASSUME RefreshServiceRow PROVE DialogInv'
  <2>1. desk'.kind = "none" /\ ~Idle
    BY <1>10 DEF RefreshServiceRow, NoAction, Idle, TypeInv, DeskShape
  <2>2. CASE desk.kind = "ssh"
    <3>1. issued' = desk.svc /\ dialog' = dialog /\ UNCHANGED <<triggered, deskHist>>
      BY <1>10, <2>2 DEF RefreshServiceRow
    <3>2. QED
      BY <2>1, <2>2, <3>1 DEF Idle, DialogInv, ActionFitsDialog, CredentialFitsDialog
  <2>3. CASE desk.kind # "ssh"
    <3>1. issued' \in {issued, NoService} /\ UNCHANGED <<triggered, deskHist>>
      BY <1>10, <2>3 DEF RefreshServiceRow
    <3>2. dialog' = dialog \/ (dialog.kind = desk.kind /\ dialog' = NoDialog)
      BY <1>10 DEF RefreshServiceRow
    <3>3. QED
      BY <2>1, <2>3, <3>1, <3>2 DEF Idle, NoDialog, DialogInv, ActionFitsDialog, CredentialFitsDialog
  <2>4. QED
    BY <2>2, <2>3
<1>11. ASSUME LoadArrives \/ \E read \in {"states", "endpoints", "bare", "nothing"} : LoadServed(read)
       PROVE  DialogInv'
  <2>1. UNCHANGED <<desk, dialog, issued, triggered, deskHist>>
    BY <1>11 DEF LoadArrives, LoadServed
  <2>2. QED
    BY <2>1, DialogFrame
<1>12. CASE UNCHANGED deskVars
  BY <1>12, DialogFrame DEF deskVars
<1>13. QED
  BY <1>1, <1>2, <1>3, <1>4, <1>5, <1>6, <1>7, <1>8, <1>9, <1>10, <1>11, <1>12 DEF DeskNext

\* Dialogs and actions belong together, for every number of services and actions.
THEOREM DialogsAlwaysFit == Spec => []DialogsFit
<1>1. (\E open \in BOOLEAN : DeskStart(open)) => TypeInv /\ DialogInv
  <2>1. ASSUME NEW open \in BOOLEAN, DeskStart(open) PROVE DialogInv
    <3>1. desk.kind = "none" /\ dialog.kind = "none" /\ issued = NoService /\ deskHist.auto = 0
      BY <2>1 DEF DeskStart, NoAction, NoDialog
    <3>2. QED
      BY <3>1 DEF DialogInv, ActionFitsDialog, CredentialFitsDialog, Idle
  <2>2. QED
    BY <2>1, TypeStart
<1>2. TypeInv /\ DialogInv => DialogsFit
  BY DEF DialogInv, DialogsFit, OneAutomaticRequest
<1>3. QED
  BY <1>1, <1>2, TypeStep, DialogStep, DeskInside, PTL DEF DeskSafety

-----------------------------------------------------------------------------
(* Unlocks.  UnlocksAreEarned is not inductive: what is on its way to the  *)
(* rows (a page load, an answer, the read after it) must be covered too,   *)
(* and a proof that was verified must still be good when it is stored.     *)

Granted(c) == c \in deskHist.granted

UnlockInv ==
    /\ UnlockShownWasGranted
    /\ UnlockedByCurrentProof
    /\ \A c \in Services : service[c].unlocked => Granted(c)
    /\ \A c \in Services : load.rows[c].unlocked => Granted(c)
    /\ (desk.step = "ok" /\ desk.kind \in {"unlock", "ssh"}) => Granted(desk.svc)
    /\ (desk.step = "read" /\ desk.state.unlocked) => Granted(desk.svc)
    /\ desk.step = "verified" => (desk.proof = epoch[desk.svc] \/ desk.svc \in deskHist.raced)

\* A step that unlocks nothing, shows nothing new and rotates no proof keeps it:
\* the action in flight may move to a step that promises nothing.
LEMMA UnlockFrame ==
  ASSUME TypeInv, UnlockInv, UNCHANGED <<epoch, rows, load, deskHist>>,
         \A c \in Services : service'[c].unlocked => service[c].unlocked,
         desk' = desk \/ desk'.step \in {"idle", "sent", "resetting", "failed", "reading"}
  PROVE  UnlockInv'
  BY DEF UnlockInv, Granted, UnlockShownWasGranted, UnlockedByCurrentProof

\* A rotation locks the service it rotates, and marks the unlock it overtakes.
LEMMA UnlockRotation ==
  ASSUME TypeInv, UnlockInv, NEW c \in Services, UNCHANGED <<rows, load, desk>>,
         epoch' = [epoch EXCEPT ![c] = @ + 1], Raced(c),
         ~service'[c].unlocked, \A d \in Services \ {c} : service'[d] = service[d]
  PROVE  UnlockInv'
<1>1. /\ deskHist'.granted = deskHist.granted /\ deskHist'.proof = deskHist.proof
      /\ deskHist.raced \subseteq deskHist'.raced
      /\ (desk.svc = c /\ desk.step = "verified") => c \in deskHist'.raced
  BY DEF Raced, TypeInv, DeskTypes, History
<1>2. \A d \in Services : d # c => epoch'[d] = epoch[d]
  BY DEF TypeInv, DeskTypes
<1>3. desk.step = "verified" => desk.svc \in Services
  BY DEF TypeInv, DeskTypes, DeskShape, Action
<1>4. QED
  BY <1>1, <1>2, <1>3 DEF UnlockInv, Granted, UnlockShownWasGranted, UnlockedByCurrentProof

\* Every step of the services page keeps the unlocks earned.
LEMMA UnlockStep == TypeInv /\ UnlockInv /\ [DeskNext]_deskVars => UnlockInv'
<1> SUFFICES ASSUME TypeInv, UnlockInv, [DeskNext]_deskVars PROVE UnlockInv'
  OBVIOUS
<1>0. /\ deskHist \in History /\ desk \in Action /\ service \in [Services -> State]
      /\ rows \in [Services -> Row]
      /\ desk.step # "idle" => desk.svc \in Services
  BY DEF TypeInv, DeskTypes, DeskShape, Action
<1>1. ASSUME NEW c \in Services, SetChallengeMaintenance(c) PROVE UnlockInv'
  <2>1. ~service'[c].unlocked /\ \A d \in Services \ {c} : service'[d] = service[d]
    BY <1>0, <1>1 DEF SetChallengeMaintenance, Relocked, State
  <2>2. QED
    BY <1>1, <2>1, UnlockRotation DEF SetChallengeMaintenance, OrganizerMoves
<1>2. ASSUME NEW c \in Services, RotateChallengeUnlockProof(c) PROVE UnlockInv'
  <2>1. ~service'[c].unlocked /\ \A d \in Services \ {c} : service'[d] = service[d]
    BY <1>0, <1>2 DEF RotateChallengeUnlockProof, Relocked, State
  <2>2. QED
    BY <1>2, <2>1, UnlockRotation DEF RotateChallengeUnlockProof, OrganizerMoves
<1>3. ASSUME NEW c \in Services, RequeueChallengeServices(c) \/ CheckerVerdict(c) PROVE UnlockInv'
  <2>1. \A d \in Services : service'[d].unlocked => service[d].unlocked
    BY <1>0, <1>3 DEF RequeueChallengeServices, CheckerVerdict, State
  <2>2. QED
    BY <1>3, <2>1, UnlockFrame DEF RequeueChallengeServices, CheckerVerdict, OrganizerMoves
<1>4. ASSUME PauseOrResume PROVE UnlockInv'
  BY <1>4, UnlockFrame DEF PauseOrResume, OrganizerMoves
<1>5. ASSUME NEW c \in Services, SelectPrimaryAction(c) \/ SelectResetTarget(c) PROVE UnlockInv'
  BY <1>5, UnlockFrame DEF SelectPrimaryAction, SelectResetTarget, Open
<1>6. ASSUME CloseDialog PROVE UnlockInv'
  <2>1. /\ deskHist'.granted = deskHist.granted /\ deskHist'.proof = deskHist.proof
        /\ deskHist'.raced = deskHist.raced
    BY <1>0, <1>6 DEF CloseDialog, History
  <2>2. QED
    BY <1>6, <2>1 DEF CloseDialog, UnlockInv, Granted, UnlockShownWasGranted, UnlockedByCurrentProof
<1>7. ASSUME NEW kind, NEW c, NEW live, Request(kind, c, live),
             deskHist' = deskHist \/ deskHist' = [deskHist EXCEPT !.auto = @ + 1]
      PROVE  UnlockInv'
  <2>1. desk'.step = "sent"
    BY <1>7 DEF Request, NoAction
  <2>2. /\ deskHist'.granted = deskHist.granted /\ deskHist'.proof = deskHist.proof
        /\ deskHist'.raced = deskHist.raced
    BY <1>0, <1>7 DEF History
  <2>3. QED
    BY <1>7, <2>1, <2>2 DEF Request, UnlockInv, Granted, UnlockShownWasGranted, UnlockedByCurrentProof
<1>8. ASSUME ServerStep PROVE UnlockInv'
  <2>1. CASE Refuse
    <3>1. desk'.step = "failed"
      BY <1>0, <2>1 DEF Refuse, Answer, Action
    <3>2. QED
      BY <2>1, <3>1, UnlockFrame DEF Refuse, ServerFrame
  <2>2. CASE VerifyProof
    <3>1. desk'.step = "verified" /\ desk'.proof = epoch[desk.svc] /\ desk'.svc = desk.svc
      BY <1>0, <2>2 DEF VerifyProof, Action
    <3>2. QED
      BY <2>2, <3>1 DEF VerifyProof, ServerFrame, UnlockInv, Granted, UnlockShownWasGranted, UnlockedByCurrentProof
  <2>3. CASE UnlockService
    <3>1. /\ deskHist'.granted = deskHist.granted \union {desk.svc}
          /\ deskHist'.raced = deskHist.raced
          /\ deskHist'.proof = [deskHist.proof EXCEPT ![desk.svc] = desk.proof]
      BY <1>0, <2>3 DEF UnlockService, History
    <3>2. desk'.step \in {"ok", "failed"} /\ desk'.svc = desk.svc
      BY <1>0, <2>3 DEF UnlockService, Answer, Action
    <3>3. \A d \in Services \ {desk.svc} : service'[d] = service[d]
      BY <1>0, <2>3 DEF UnlockService
    <3>4. desk.svc \in Services /\ desk.step = "verified"
      BY <1>0, <2>3 DEF UnlockService
    <3>5. /\ deskHist'.proof[desk.svc] = desk.proof
          /\ \A d \in Services \ {desk.svc} : deskHist'.proof[d] = deskHist.proof[d]
      BY <1>0, <3>1, <3>4 DEF History
    <3>6. QED
      BY <2>3, <3>1, <3>2, <3>3, <3>4, <3>5
      DEF UnlockService, ServerFrame, UnlockInv, Granted, UnlockShownWasGranted, UnlockedByCurrentProof
  <2>4. CASE CreateSSHSession
    <3>1. desk'.step \in {"ok", "failed"} /\ desk'.svc = desk.svc
      BY <1>0, <2>4 DEF CreateSSHSession, Answer, Action
    <3>2. Granted(desk.svc)
      BY <1>0, <2>4 DEF CreateSSHSession, UnlockInv
    <3>3. QED
      BY <2>4, <3>1, <3>2
      DEF CreateSSHSession, ServerFrame, UnlockInv, Granted, UnlockShownWasGranted, UnlockedByCurrentProof
  <2>5. CASE RestartService \/ CompleteFactoryReset
    <3>1. \A d \in Services : service'[d].unlocked = service[d].unlocked
      <4>1. PICK s : service' = [service EXCEPT ![desk.svc].status = s]
        BY <2>5 DEF RestartService, CompleteFactoryReset
      <4>2. QED
        BY <1>0, <4>1 DEF State
    <3>2. desk.kind \in {"restart", "reset"}
      BY <2>5 DEF RestartService, CompleteFactoryReset, TypeInv, DeskShape
    <3>3. desk'.step \in {"ok", "failed"} /\ desk'.kind = desk.kind
      <4>1. CASE RestartService
        BY <1>0, <4>1 DEF RestartService, Answer, Action
      <4>2. CASE CompleteFactoryReset
        BY <1>0, <4>2 DEF CompleteFactoryReset, Action
      <4>3. QED
        BY <2>5, <4>1, <4>2
    <3>4. UNCHANGED <<rows, epoch, load, deskHist>>
      BY <2>5 DEF RestartService, CompleteFactoryReset, ServerFrame
    <3>5. QED
      BY <3>1, <3>2, <3>3, <3>4 DEF UnlockInv, Granted, UnlockShownWasGranted, UnlockedByCurrentProof
  <2>6. CASE PrepareFactoryReset
    <3>1. \A d \in Services : service'[d].unlocked => service[d].unlocked
      BY <1>0, <2>6 DEF PrepareFactoryReset, State
    <3>2. desk'.step = "resetting"
      BY <1>0, <2>6 DEF PrepareFactoryReset, Answer, Action
    <3>3. QED
      BY <2>6, <3>1, <3>2, UnlockFrame DEF PrepareFactoryReset, ServerFrame
  <2>7. QED
    BY <1>8, <2>1, <2>2, <2>3, <2>4, <2>5, <2>6 DEF ServerStep
<1>9. ASSUME ActionAnswers PROVE UnlockInv'
  <2>1. desk.svc \in Services
    BY <1>0, <1>9 DEF ActionAnswers
  <2>2. ASSUME rows'[desk.svc].unlocked PROVE Granted(desk.svc)
    <3> DEFINE row == rows[desk.svc]
    <3>1. rows'[desk.svc] = RowAfterAnswer(row) /\ row \in Row
      BY <1>0, <1>9, <2>1 DEF ActionAnswers
    <3>2. row.unlocked => Granted(desk.svc)
      BY <2>1 DEF UnlockInv, UnlockShownWasGranted, Granted
    <3> HIDE DEF row
    <3>3. CASE RowAfterAnswer(row) = row
      BY <2>2, <3>1, <3>2, <3>3
    <3>4. CASE desk.step = "ok" /\ RowAfterAnswer(row) = Optimistic(row)
      <4>1. CASE desk.kind \in {"unlock", "ssh"}
        BY <3>4, <4>1 DEF UnlockInv
      <4>2. CASE desk.kind = "restart"
        BY <2>2, <3>1, <3>2, <3>4, <4>2 DEF Optimistic, Row
      <4>3. CASE desk.kind = "reset"
        BY <2>2, <3>1, <3>2, <3>4, <4>3 DEF Optimistic, Row
      <4>4. QED
        BY <1>0, <3>4, <4>1, <4>2, <4>3 DEF Action, Kinds, TypeInv, DeskShape
    <3>5. QED
      BY <3>3, <3>4 DEF RowAfterAnswer
  <2>3. \A d \in Services \ {desk.svc} : rows'[d] = rows[d]
    BY <1>0, <1>9 DEF ActionAnswers
  <2>4. desk'.step \in {"idle", "reading"}
    BY <1>0, <1>9 DEF ActionAnswers, DeskAfterAnswer, NoAction, Action
  <2>5. QED
    BY <1>9, <2>1, <2>2, <2>3, <2>4
    DEF ActionAnswers, UnlockInv, Granted, UnlockShownWasGranted, UnlockedByCurrentProof
<1>10. ASSUME RefreshServed PROVE UnlockInv'
  <2>1. CASE desk' = NoAction
    BY <1>10, <2>1, UnlockFrame DEF RefreshServed, NoAction
  <2>2. CASE desk' = [desk EXCEPT !.step = "read", !.state = Listed(desk.svc)]
    <3>1. desk'.step = "read" /\ desk'.svc = desk.svc /\ desk'.state = Listed(desk.svc)
      BY <1>0, <2>2 DEF Action
    <3>2. Listed(desk.svc).unlocked => Granted(desk.svc)
      BY <1>0, <1>10 DEF RefreshServed, Listed, UnlockInv
    <3>3. QED
      BY <1>10, <3>1, <3>2
      DEF RefreshServed, UnlockInv, Granted, UnlockShownWasGranted, UnlockedByCurrentProof
  <2>3. QED
    BY <1>10, <2>1, <2>2 DEF RefreshServed
<1>11. ASSUME RefreshServiceRow PROVE UnlockInv'
  <2>1. desk.svc \in Services /\ desk.step = "read" /\ desk'.step = "idle" /\ desk.state \in Row
    BY <1>0, <1>11 DEF RefreshServiceRow, NoAction, Action
  <2>2. /\ rows'[desk.svc] = MergeServiceState(rows[desk.svc], desk.state)
        /\ \A d \in Services \ {desk.svc} : rows'[d] = rows[d]
    BY <1>0, <1>11, <2>1 DEF RefreshServiceRow
  <2>3. rows'[desk.svc].unlocked => (rows[desk.svc].unlocked \/ desk.state.unlocked)
    BY <2>1, <2>2 DEF MergeServiceState, Row
  <2>4. QED
    BY <1>11, <2>1, <2>2, <2>3
    DEF RefreshServiceRow, UnlockInv, Granted, UnlockShownWasGranted, UnlockedByCurrentProof
<1>12. ASSUME NEW read \in {"states", "endpoints", "bare", "nothing"}, LoadServed(read) PROVE UnlockInv'
  <2>1. \A c \in Services : LoadedRows(read)[c].unlocked => service[c].unlocked
    BY DEF LoadedRows, Listed, Fallback, NoRow
  <2>2. load'.rows = LoadedRows(read)
    BY <1>12 DEF LoadServed
  <2>3. QED
    BY <1>12, <2>1, <2>2
    DEF LoadServed, UnlockInv, Granted, UnlockShownWasGranted, UnlockedByCurrentProof
<1>13. ASSUME LoadArrives PROVE UnlockInv'
  <2>1. rows' = load.rows /\ \A c \in Services : ~load'.rows[c].unlocked
    BY <1>13 DEF LoadArrives, RowsAfterLoad, NoRow
  <2>2. QED
    BY <1>13, <2>1
    DEF LoadArrives, UnlockInv, Granted, UnlockShownWasGranted, UnlockedByCurrentProof
<1>14. CASE UNCHANGED deskVars
  BY <1>14, UnlockFrame DEF deskVars
<1>15. QED
  <2>1. ASSUME NEW c \in Services, RequestRestart(c) PROVE UnlockInv'
    BY <1>7, <2>1 DEF RequestRestart
  <2>2. ASSUME RequestUnlock \/ RequestFactoryReset \/ TriggerSSHSession \/ ReapplyCredential
        PROVE  UnlockInv'
    BY <1>7, <2>2 DEF RequestUnlock, RequestFactoryReset, TriggerSSHSession, ReapplyCredential
  <2>3. QED
    BY <1>1, <1>2, <1>3, <1>4, <1>5, <1>6, <1>8, <1>9, <1>10, <1>11, <1>12, <1>13, <1>14, <2>1, <2>2
    DEF DeskNext

\* Unlocks are earned, for every number of services, actions and rotations.
THEOREM UnlocksAlwaysEarned == Spec => []UnlocksAreEarned
<1>1. (\E open \in BOOLEAN : DeskStart(open)) => TypeInv /\ UnlockInv
  <2>1. ASSUME NEW open \in BOOLEAN, DeskStart(open) PROVE UnlockInv
    <3>1. /\ desk.step = "idle" /\ deskHist.proof = epoch
          /\ \A c \in Services : service[c].unlocked => Granted(c)
      BY <2>1 DEF DeskStart, NoAction, Granted
    <3>2. \A c \in Services : (rows[c].unlocked => service[c].unlocked) /\ ~load.rows[c].unlocked
      BY <2>1 DEF DeskStart, Listed, NoRow
    <3>3. QED
      BY <3>1, <3>2 DEF UnlockInv, Granted, UnlockShownWasGranted, UnlockedByCurrentProof
  <2>2. QED
    BY <2>1, TypeStart
<1>2. UnlockInv => UnlocksAreEarned
  BY DEF UnlockInv, UnlocksAreEarned
<1>3. QED
  BY <1>1, <1>2, TypeStep, UnlockStep, DeskInside, PTL DEF DeskSafety
=============================================================================
