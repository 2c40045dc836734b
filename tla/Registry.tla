------------------------------ MODULE Registry ------------------------------
(***************************************************************************)
(* The organizer's registry pages: teams, players, challenges and          *)
(* deployment jobs (use-organizer-dashboard.ts, the registry cards and     *)
(* dialogs of organizer-dashboard-sections.tsx, bulk-import-panel,         *)
(* trusted-state-panel, lib/admin-api.ts).                                 *)
(*                                                                         *)
(* A page is loaded with the rows of the store and then maintains its copy *)
(* from the answers to its own requests.  The buttons of the rows are      *)
(* disabled while an action is pending, the Create button of the card is   *)
(* not, a dialog can be left while its request is under way, and the first *)
(* action that ends clears pendingAction for the others.                   *)
(***************************************************************************)
EXTENDS Integers, FiniteSets, Sequences

CONSTANTS MaxEdits   \* bound on the actions the organizer starts

ASSUME RegistryAssumption == MaxEdits \in Nat

VARIABLES tab,      \* which of the pages this is
          store,    \* what the api-gateway keeps: rows, the ids of those it has deactivated,
                    \* jobs, the next ids, whether teams exist
          table,     \* the page's copy: rows, the ids of those shown inactive, jobs, validations
          form,     \* the entity dialog: its mode and the row it edits
          target,   \* deleteTarget, 0 for none
          regPending,  \* pendingAction: the verb and row, or nothing
          regOps,      \* the actions in flight
          regLeft,     \* actions left to start
          regHist      \* what the properties remember

registryVars == <<tab, store, table, form, target, regPending, regOps, regLeft, regHist>>

-----------------------------------------------------------------------------
(* Rows, jobs and actions.                                                 *)

Tabs == {"teams", "players", "challenges", "deployments"}
Verbs == {"create", "update", "delete", "active", "validate", "deploy", "import", "reconcile"}

\* A row: its content's version, published, octet.  Which rows are inactive (or under
\* maintenance) is kept beside them, as in the store's deactivated maps and column.
Rows == [ver : Nat, published : BOOLEAN, octet : Nat]
Jobs == [challenge : Nat, status : {"queued", "completed", "superseded"}]

NoForm == [mode |-> "closed", id |-> 0, complete |-> FALSE]
Idle == [verb |-> "none", id |-> 0]
NoAnswer == [res |-> "none", id |-> 0, row |-> [ver |-> 0, published |-> FALSE, octet |-> 0],
             inactive |-> FALSE, valid |-> FALSE, jobs |-> <<>>]
OpSlots == {1, 2}
NoOp == [verb |-> "none", id |-> 0, arg |-> 0, step |-> 0, checked |-> 0, ans |-> NoAnswer]

OpsInFlight == {s \in OpSlots : regOps[s].verb # "none"}

\* The requests an action sends, one after the other.
ScriptOf(verb) ==
    CASE verb = "create" /\ tab = "teams" -> <<"create", "scoreboard">>
      [] verb = "deploy"    -> <<"validate", "deploy">>
      [] verb = "reconcile" -> <<"reconcile", "list">>
      [] verb = "import"    -> <<"create">>
      [] OTHER -> <<verb>>

RequestOf(s) == ScriptOf(regOps[s].verb)[regOps[s].step]

\* pendingAction is not set by the panels that keep a flag of their own.
OwnFlag == {"import", "reconcile"}
IsSubmitting == regPending.verb \in {"create", "update"}

\* AppDialog lays an overlay over the page.
DialogOpenForForm == form # NoForm               \* mutant: the delete dialog is not modal
DialogOpen == form # NoForm \/ target # 0

Put(f, k, v) == [x \in DOMAIN f \union {k} |-> IF x = k THEN v ELSE f[x]]
Without(f, k) == [x \in DOMAIN f \ {k} |-> f[x]]
Marked(S, id, inactive) == IF inactive THEN S \union {id} ELSE S \ {id}
Largest(S) == CHOOSE n \in S \union {0} : \A m \in S : m <= n

-----------------------------------------------------------------------------
(* What is typed into the challenge form, as far as it is checked.         *)

\* nextChallengeID: one more than the largest id on the page.
NextChallengeID == Largest(DOMAIN table.rows) + 1

\* An octet left blank (0) stands for the one the form announces.
EffectiveOctet(octet) == IF octet = 0 THEN NextChallengeID ELSE octet

ChallengeDraftValid(octet) ==
    \A r \in DOMAIN table.rows : table.rows[r].octet # EffectiveOctet(octet)

-----------------------------------------------------------------------------
(* Dialogs.                                                                *)

\* The card's Create button looks at no pending action; a dialog is modal.
OpenCreateDialog ==
    /\ tab \in Tabs \ {"deployments"} /\ ~DialogOpen
    /\ form' = [mode |-> "create", id |-> 0, complete |-> FALSE]
    /\ UNCHANGED <<tab, store, table, target, regPending, regOps, regLeft, regHist>>

OpenEditDialog ==
    /\ tab \in Tabs \ {"deployments"} /\ ~DialogOpen /\ regPending = Idle
    /\ \E r \in DOMAIN table.rows : form' = [mode |-> "edit", id |-> r, complete |-> TRUE]
    /\ UNCHANGED <<tab, store, table, target, regPending, regOps, regLeft, regHist>>

\* A new draft is blank and an edited row's is complete; the required fields
\* are typed in, also while another submission is under way.
TypeDraft ==
    /\ form # NoForm /\ ~form.complete
    /\ form' = [form EXCEPT !.complete = TRUE]
    /\ UNCHANGED <<tab, store, table, target, regPending, regOps, regLeft, regHist>>

TypeTeamDraft == tab = "teams" /\ TypeDraft
TypePlayerDraft == tab = "players" /\ TypeDraft
TypeChallengeDraft == tab = "challenges" /\ TypeDraft

\* Escape works while the submission is under way.
CloseFormDialog ==
    /\ form # NoForm
    /\ form' = NoForm
    /\ UNCHANGED <<tab, store, table, target, regPending, regOps, regLeft, regHist>>

\* The deployments page lists jobs, the others their rows.
Deletable == IF tab = "deployments" THEN DOMAIN table.jobs ELSE DOMAIN table.rows

SelectDeleteTarget ==
    /\ tab \in Tabs /\ ~DialogOpen /\ regPending = Idle
    /\ target' \in Deletable
    /\ UNCHANGED <<tab, store, table, form, regPending, regOps, regLeft, regHist>>

CloseDeleteDialog ==
    /\ target # 0
    /\ target' = 0
    /\ UNCHANGED <<tab, store, table, form, regPending, regOps, regLeft, regHist>>

-----------------------------------------------------------------------------
(* Actions.                                                                *)

\* Two requests about one row, or a list read around a deletion, can cross.
Crosses(verb, id) ==
    \E t \in OpsInFlight :
       \/ id # 0 /\ regOps[t].id = id
       \/ {verb, regOps[t].verb} = {"delete", "reconcile"}
       \/ {verb, regOps[t].verb} = {"create"}

BeginOp(s, verb, id, arg) ==
    /\ regLeft > 0
    /\ s \notin OpsInFlight /\ \A t \in OpSlots : t < s => t \in OpsInFlight
    /\ regOps' = [regOps EXCEPT ![s] = [NoOp EXCEPT !.verb = verb, !.id = id, !.arg = arg, !.step = 1]]
    /\ regPending' = IF verb \in OwnFlag THEN regPending ELSE [verb |-> verb, id |-> id]
    /\ regLeft' = regLeft - 1
    /\ regHist' = [regHist EXCEPT !.crossed = @ \/ Crosses(verb, id),
                            !.preview = IF verb = "create" /\ arg = 0 THEN NextChallengeID ELSE @]
    /\ UNCHANGED <<tab, store, table>>

\* validateTeamDraft, validatePlayerDraft: a player needs a team to be put in.
TeamDraftValid == form.complete
PlayerDraftValid == form.complete /\ (form.mode = "create" => store.teams > 0)

\* submitForm calls one of these; the dialog stays open until the answer.
CreateTeam(s) == tab = "teams" /\ TeamDraftValid /\ BeginOp(s, "create", 0, 0)
CreatePlayer(s) == tab = "players" /\ PlayerDraftValid /\ BeginOp(s, "create", 0, 0)
CreateChallenge(s) ==
    /\ tab = "challenges" /\ form.complete
    /\ \E octet \in 0..store.next : ChallengeDraftValid(octet) /\ BeginOp(s, "create", 0, octet)
UpdateTeam(s) == tab = "teams" /\ TeamDraftValid /\ BeginOp(s, "update", form.id, 0)
UpdatePlayer(s) == tab = "players" /\ PlayerDraftValid /\ BeginOp(s, "update", form.id, 0)
UpdateChallenge(s) == tab = "challenges" /\ form.complete /\ BeginOp(s, "update", form.id, 0)

SubmitForm(s) ==
    /\ form # NoForm /\ ~IsSubmitting
    /\ IF form.mode = "create"
       THEN CreateTeam(s) \/ CreatePlayer(s) \/ CreateChallenge(s)
       ELSE UpdateTeam(s) \/ UpdatePlayer(s) \/ UpdateChallenge(s)
    /\ UNCHANGED <<form, target>>

DeleteTeam(s) == tab = "teams" /\ target \in DOMAIN table.rows /\ BeginOp(s, "delete", target, 0)
DeletePlayer(s) == tab = "players" /\ target \in DOMAIN table.rows /\ BeginOp(s, "delete", target, 0)
DeleteChallenge(s) ==
    tab = "challenges" /\ target \in DOMAIN table.rows /\ BeginOp(s, "delete", target, 0)
DeleteDeployment(s) ==
    tab = "deployments" /\ target \in DOMAIN table.jobs /\ BeginOp(s, "delete", target, 0)

\* The dialog closes at once; a row that is gone from the page is not asked for.
ConfirmDelete(s) ==
    /\ target # 0
    /\ regPending # [verb |-> "delete", id |-> target]
    /\ target' = 0
    /\ \/ DeleteTeam(s) \/ DeletePlayer(s) \/ DeleteChallenge(s) \/ DeleteDeployment(s)
       \/ /\ target \notin Deletable
          /\ UNCHANGED <<tab, store, table, regPending, regOps, regLeft, regHist>>
    /\ UNCHANGED form

SetTeamActiveState(s, r) == BeginOp(s, "active", r, r \in table.inactive)
SetPlayerActiveState(s, r) == BeginOp(s, "active", r, r \in table.inactive)
SetChallengeMaintenanceState(s, r) == BeginOp(s, "active", r, r \in table.inactive)
ValidateChallenge(s, r) == BeginOp(s, "validate", r, 0)
DeployChallenge(s, r) == BeginOp(s, "deploy", r, 0)

\* The buttons of a row, by page.  Maintenance is offered for a published challenge.
TeamRow(s, r) == tab = "teams" /\ SetTeamActiveState(s, r)
PlayerRow(s, r) == tab = "players" /\ SetPlayerActiveState(s, r)
ChallengeRow(s, r) ==
    /\ tab = "challenges"
    /\ \/ ValidateChallenge(s, r) \/ DeployChallenge(s, r)
       \/ table.rows[r].published /\ SetChallengeMaintenanceState(s, r)

ClickRow(s) ==
    /\ ~DialogOpen /\ regPending = Idle
    /\ \E r \in DOMAIN table.rows : TeamRow(s, r) \/ PlayerRow(s, r) \/ ChallengeRow(s, r)
    /\ UNCHANGED <<form, target>>

\* BulkImportPanel and TrustedStatePanel disable their own button only.
ImportTeams(s) ==
    /\ tab = "teams" /\ ~DialogOpen
    /\ \A t \in OpsInFlight : regOps[t].verb # "import"
    /\ BeginOp(s, "import", 0, 0)
    /\ UNCHANGED <<form, target>>

ReconcileJobs(s) ==
    /\ tab = "deployments" /\ ~DialogOpen
    /\ \A t \in OpsInFlight : ~(regOps[t].verb = "reconcile" /\ regOps[t].step = 1)
    /\ BeginOp(s, "reconcile", 0, 0)
    /\ UNCHANGED <<form, target>>

-----------------------------------------------------------------------------
(* The api-gateway.                                                        *)

\* An answer arrives, or is lost on its way back.
Reply(s, new, ans) ==
    /\ store' = new
    /\ \E res \in {"ok", "failed"} :
         /\ regOps' = [regOps EXCEPT ![s].ans = [ans EXCEPT !.res = res]]
         /\ regHist' = [regHist EXCEPT !.lost = @ \/ (res = "failed" /\ new # store)]
    /\ UNCHANGED <<tab, table, form, target, regPending, regLeft>>

Asks(s, req) ==
    regOps[s].verb # "none" /\ regOps[s].ans.res = "none" /\ RequestOf(s) = req

\* The answers whose active flag is not the one of the lists: the stores build the
\* record of a new player without it; an updated team's is never read back on Postgres
\* and on the memory store what a (de)activation last left in the record, as with a
\* player's on the memory store.  What is missing reads false, that is, inactive.
FlagUntold(req) == <<tab, req>> \in {<<"teams", "update">>, <<"players", "create">>, <<"players", "update">>}
InactiveTold(req, inactive) ==
    IF ~FlagUntold(req) THEN {inactive} ELSE IF req = "create" THEN {TRUE} ELSE {TRUE, inactive}

\* CreateAdminTeam, CreateAdminPlayer, CreateAdminChallenge.
EffectiveStoreOctet(s) == IF regOps[s].arg = 0 THEN store.next ELSE regOps[s].arg
OctetTaken(octet) == tab = "challenges" /\ \E r \in DOMAIN store.rows : store.rows[r].octet = octet

StoreCreate(s) ==
    /\ Asks(s, "create") /\ ~OctetTaken(EffectiveStoreOctet(s))
    /\ LET row == [ver |-> 1, published |-> FALSE, octet |-> EffectiveStoreOctet(s)]
       IN \E inactive \in InactiveTold("create", FALSE) :
            Reply(s, [store EXCEPT !.rows = Put(@, store.next, row), !.next = @ + 1],
                  [NoAnswer EXCEPT !.id = store.next, !.row = row, !.inactive = inactive])

\* A taken octet is refused after the id was drawn.
StoreCreateTaken(s) ==
    /\ Asks(s, "create") /\ OctetTaken(EffectiveStoreOctet(s))
    /\ store' = [store EXCEPT !.next = @ + 1]
    /\ regOps' = [regOps EXCEPT ![s].ans = [NoAnswer EXCEPT !.res = "failed"]]
    /\ regHist' = [regHist EXCEPT !.gap = TRUE]
    /\ UNCHANGED <<tab, table, form, target, regPending, regLeft>>

StoreUpdate(s) ==
    /\ Asks(s, "update") /\ regOps[s].id \in DOMAIN store.rows
    /\ LET id  == regOps[s].id
           row == [store.rows[id] EXCEPT !.ver = @ + 1]
       IN \E inactive \in InactiveTold("update", id \in store.inactive) :
            Reply(s, [store EXCEPT !.rows[id] = row],
                  [NoAnswer EXCEPT !.id = id, !.row = row, !.inactive = inactive])

\* A job whose instances are queued is not deleted.
StoreDelete(s) ==
    /\ Asks(s, "delete")
    /\ IF tab = "deployments"
       THEN /\ regOps[s].id \in DOMAIN store.jobs /\ store.jobs[regOps[s].id].status # "queued"
            /\ Reply(s, [store EXCEPT !.jobs = Without(@, regOps[s].id)], [NoAnswer EXCEPT !.id = regOps[s].id])
       ELSE /\ regOps[s].id \in DOMAIN store.rows
            /\ Reply(s, [store EXCEPT !.rows = Without(@, regOps[s].id)], [NoAnswer EXCEPT !.id = regOps[s].id])

StoreSetActive(s) ==
    /\ Asks(s, "active") /\ regOps[s].id \in DOMAIN store.rows
    /\ LET id == regOps[s].id
       IN Reply(s, [store EXCEPT !.inactive = Marked(@, id, ~regOps[s].arg)],
                [NoAnswer EXCEPT !.id = id, !.row = store.rows[id], !.inactive = ~regOps[s].arg])

\* The controller inspects the images of the challenge as it is now.
StoreValidate(s) ==
    /\ Asks(s, "validate") /\ regOps[s].id \in DOMAIN store.rows
    /\ \E ok \in BOOLEAN :
         Reply(s, store, [NoAnswer EXCEPT !.id = regOps[s].id, !.row = store.rows[regOps[s].id], !.valid = ok])

\* DeployAdminChallenge: a new job for the teams there are; older ones are superseded.
Superseded(jobs, challenge) ==
    [j \in DOMAIN jobs |->
       IF jobs[j].challenge = challenge /\ jobs[j].status = "queued"
       THEN [jobs[j] EXCEPT !.status = "superseded"] ELSE jobs[j]]

StoreDeploy(s) ==
    /\ Asks(s, "deploy") /\ regOps[s].id \in DOMAIN store.rows
    /\ LET id   == regOps[s].id
           row  == [store.rows[id] EXCEPT !.published = TRUE]
           old  == Superseded(store.jobs, id)
           jobs == IF store.teams = 0 THEN old
                   ELSE Put(old, store.nextJob, [challenge |-> id, status |-> "queued"])
           new  == [store EXCEPT !.rows[id] = row, !.jobs = jobs, !.nextJob = @ + store.teams]
       IN /\ store' = new
          /\ \E res \in {"ok", "failed"} :
               /\ regOps' = [regOps EXCEPT ![s].ans = [NoAnswer EXCEPT !.res = res, !.id = id,
                                         !.jobs = IF store.teams = 0 THEN <<>> ELSE <<store.nextJob>>]]
               /\ regHist' = [regHist EXCEPT !.lost = @ \/ res = "failed",
                                       !.unvalidated = @ \/ regOps[s].checked # row.ver]
    /\ UNCHANGED <<tab, table, form, target, regPending, regLeft>>

\* ReconcileAdminDeployments completes what is queued.
Completed(jobs) ==
    [j \in DOMAIN jobs |->
       IF jobs[j].status = "queued" THEN [jobs[j] EXCEPT !.status = "completed"] ELSE jobs[j]]

StoreReconcile(s) ==
    /\ Asks(s, "reconcile")
    /\ Reply(s, [store EXCEPT !.jobs = Completed(@)], NoAnswer)

StoreList(s) ==
    /\ Asks(s, "list")
    /\ Reply(s, store, [NoAnswer EXCEPT !.jobs = store.jobs])

StoreScoreboard(s) == Asks(s, "scoreboard") /\ Reply(s, store, NoAnswer)

\* Refused, or lost before it was handled.
StoreRefuses(s) ==
    /\ regOps[s].verb # "none" /\ regOps[s].ans.res = "none"
    /\ regOps' = [regOps EXCEPT ![s].ans = [NoAnswer EXCEPT !.res = "failed"]]
    /\ regHist' = [regHist EXCEPT !.lost = @ \/ RequestOf(s) = "list"]
    /\ UNCHANGED <<tab, store, table, form, target, regPending, regLeft>>

-----------------------------------------------------------------------------
(* What an answer makes of the page.                                       *)

\* setRows(current.map(...)): a row that is not there is not brought back.
ReplaceRowUpserts(rows, id, row) == Put(rows, id, row)     \* mutant: a late answer adds the row
ReplaceRowKept(rows, id, row) == rows             \* mutant: the answer's row is not taken over
ReplaceRow(rows, id, row) == [r \in DOMAIN rows |-> IF r = id THEN row ELSE rows[r]]

\* deployChallenge: the challenge is published, its older jobs are superseded
\* and the new one is put in front.
Published(rows, id) ==
    [r \in DOMAIN rows |-> IF r = id THEN [rows[r] EXCEPT !.published = TRUE] ELSE rows[r]]

AfterDeploy(id, job) ==
    [table EXCEPT !.rows = Published(@, id),
                 !.jobs = IF job = <<>> THEN Superseded(@, id)
                          ELSE Put(Superseded(@, id), job[1], [challenge |-> id, status |-> "queued"])]

\* An update drops the record of the validation, applyChallengeValidation makes one.
Dropped(id) == Without(table.checks, id)
Recorded(id, ans) == Put(table.checks, id, [ver |-> ans.row.ver, valid |-> ans.valid])

AfterAnswer(op, req) ==
    CASE req = "create" /\ op.verb = "create" ->
           [table EXCEPT !.rows = Put(@, op.ans.id, op.ans.row), !.checks = Without(@, op.ans.id),
                        !.inactive = Marked(@, op.ans.id, op.ans.inactive)]
      [] req = "update" ->
           [table EXCEPT !.rows = ReplaceRow(@, op.id, op.ans.row), !.checks = Dropped(op.id),
                        !.inactive = Marked(@, op.id, op.ans.inactive)]
      [] req = "delete" -> IF tab = "deployments" THEN [table EXCEPT !.jobs = Without(@, op.id)]
                           ELSE [table EXCEPT !.rows = Without(@, op.id)]
      [] req = "active" ->
           [table EXCEPT !.rows = ReplaceRow(@, op.id, op.ans.row),
                        !.inactive = Marked(@, op.id, op.ans.inactive)]
      [] req = "validate" -> [table EXCEPT !.checks = Recorded(op.id, op.ans)]
      [] req = "deploy"   -> AfterDeploy(op.id, op.ans.jobs)
      [] req = "list"     -> [table EXCEPT !.jobs = op.ans.jobs]
      [] OTHER            -> table

\* deployChallenge stops at a package that failed its validation; a team is
\* created even when the scoreboard cannot be read again.
GoesOnUnchecked(op, req) ==                     \* mutant: the validation's verdict is not looked at
    op.step < Len(ScriptOf(op.verb)) /\ op.ans.res = "ok"
GoesOn(op, req) ==
    /\ op.step < Len(ScriptOf(op.verb))
    /\ op.ans.res = "ok"
    /\ req = "validate" => op.ans.valid

\* The rows whose shown flag comes from an answer that does not tell it.
UntoldAfter(op, req) ==
    CASE req \in {"create", "update"} ->
           Marked(regHist.untold, IF req = "create" THEN op.ans.id ELSE op.id, FlagUntold(req))
      [] req = "active" -> Marked(regHist.untold, op.id, FALSE)
      [] OTHER -> regHist.untold

Answer(s) ==
    /\ regOps[s].verb # "none" /\ regOps[s].ans.res # "none"
    /\ LET op  == regOps[s]
           req == RequestOf(s)
           ok  == op.ans.res = "ok"
       IN /\ table' = IF ok THEN AfterAnswer(op, req) ELSE table
          /\ IF GoesOn(op, req)
             THEN /\ regOps' = [regOps EXCEPT ![s].step = @ + 1, ![s].ans = NoAnswer,
                                        ![s].checked = IF op.ans.valid THEN op.ans.row.ver ELSE 0]
                  /\ UNCHANGED <<regPending, form>>
             ELSE /\ regOps' = [regOps EXCEPT ![s] = NoOp]
                  /\ regPending' = IF op.verb \in OwnFlag THEN regPending ELSE Idle
                  /\ form' = IF op.verb \in {"create", "update"} /\ (ok \/ req = "scoreboard")
                             THEN NoForm ELSE form
          /\ regHist' = [regHist EXCEPT
                !.deleted = IF ok /\ req = "delete" THEN @ \union {op.id} ELSE @,
                !.gap = @ \/ (ok /\ req = "delete"),
                !.untold = IF ok THEN UntoldAfter(op, req) ELSE @,
                !.lost = @ \/ op.verb = "import" \/ (req = "list" /\ ~ok),
                !.surprised = @ \/ (/\ tab = "challenges" /\ ok /\ req = "create"
                                     /\ op.arg = 0 /\ op.ans.row.octet # regHist.preview)]
    /\ UNCHANGED <<tab, store, target, regLeft>>

-----------------------------------------------------------------------------
\* A page loaded with two rows; the first challenge is published and has a job.
\* A team's deactivation may be under way whose pendingAction a creation that
\* overlapped it and failed has cleared.
RegistryStart(open) ==
    /\ tab \in IF open THEN Tabs ELSE {"none"}
    /\ \E teams \in IF tab \in {"players", "challenges"} THEN {0, 1} ELSE {1} :
         store = [rows |-> [r \in {1, 2} |-> [ver |-> 1, published |-> r = 1, octet |-> r]],
                  inactive |-> {},
                  jobs |-> IF teams = 0 THEN <<>> ELSE <<[challenge |-> 1, status |-> "queued"]>>,
                  next |-> 3, nextJob |-> 2, teams |-> teams]
    /\ table = [rows |-> store.rows, inactive |-> {}, jobs |-> store.jobs, checks |-> <<>>]
    /\ form = NoForm
    /\ target = 0
    /\ regPending = Idle
    /\ \E under \in IF tab = "teams" THEN {0, 1} ELSE {0} :
         regOps = [s \in OpSlots |-> IF s = under
                     THEN [NoOp EXCEPT !.verb = "active", !.id = 1, !.arg = FALSE, !.step = 1] ELSE NoOp]
    /\ regLeft = IF open THEN MaxEdits ELSE 0
    /\ regHist = [lost |-> FALSE, crossed |-> FALSE, gap |-> FALSE, deleted |-> {}, untold |-> {},
               unvalidated |-> FALSE, preview |-> 0, surprised |-> FALSE]

RegistryNext ==
    \/ OpenCreateDialog \/ OpenEditDialog \/ CloseFormDialog
    \/ TypeTeamDraft \/ TypePlayerDraft \/ TypeChallengeDraft
    \/ SelectDeleteTarget \/ CloseDeleteDialog
    \/ \E s \in OpSlots :
         \/ SubmitForm(s) \/ ConfirmDelete(s) \/ ClickRow(s)
         \/ ImportTeams(s) \/ ReconcileJobs(s)
         \/ StoreCreate(s) \/ StoreCreateTaken(s) \/ StoreUpdate(s) \/ StoreDelete(s) \/ StoreSetActive(s)
         \/ StoreValidate(s) \/ StoreDeploy(s) \/ StoreReconcile(s) \/ StoreList(s)
         \/ StoreScoreboard(s) \/ StoreRefuses(s)
         \/ Answer(s)

-----------------------------------------------------------------------------
(* Properties.                                                             *)

\* The variables hold values of their kinds; a dialog is for a row or for a
\* deletion, never both (useState of the hook, the modal dialogs).
RegistryTypeOK ==
    /\ tab \in Tabs \union {"none"}
    /\ \A r \in DOMAIN table.rows : table.rows[r] \in Rows /\ r < store.next
    /\ \A j \in DOMAIN table.jobs : table.jobs[j] \in Jobs /\ j < store.nextJob
    /\ form.mode \in {"closed", "create", "edit"}
    /\ target \in Nat /\ (target # 0 => form = NoForm)
    /\ regPending.verb \in Verbs \union {"none"}
    /\ \A s \in OpSlots : regOps[s].verb # "none" => regOps[s].step \in 1..Len(ScriptOf(regOps[s].verb))

\* A row or job whose deletion was acknowledged does not come back, whatever
\* answers arrive late; a list of jobs read around the deletion is the exception.
DeletedStaysDeleted ==
    /\ tab # "deployments" => regHist.deleted \intersect DOMAIN table.rows = {}
    /\ (tab = "deployments" /\ ~regHist.crossed) => regHist.deleted \intersect DOMAIN table.jobs = {}

\* A row is shown inactive when it is; when it is not, then too, until it is next
\* (de)activated, where the last answer about it does not tell its flag.
FlagFits(r) ==
    /\ r \in store.inactive => r \in table.inactive
    /\ r \in table.inactive => r \in store.inactive \union regHist.untold

\* At rest the page shows what the store holds, unless an answer was lost, teams
\* were imported beside it, or two requests about the same row crossed.
PageMatchesStore ==
    (OpsInFlight = {} /\ ~regHist.lost /\ ~regHist.crossed) =>
        /\ table.rows = store.rows
        /\ table.jobs = store.jobs
        /\ \A r \in DOMAIN table.rows : FlagFits(r)

\* The page never lists two jobs of a challenge as queued, and nor does the
\* store, in whatever order the answers of two deployments arrive.
OneActiveJob ==
    \A jobs \in {table.jobs, store.jobs} : \A i, j \in DOMAIN jobs :
        (i # j /\ jobs[i].status = "queued" /\ jobs[j].status = "queued")
        => jobs[i].challenge # jobs[j].challenge

\* What is deployed is the version whose validation passed, unless the
\* challenge was changed by a request that crossed the deployment.
DeployedWasValidated == regHist.unvalidated => regHist.crossed

\* A recorded validation on the page is one of the challenge's present version,
\* as long as requests do not cross.
ChecksAreCurrent ==
    (~regHist.crossed /\ ~regHist.lost) =>
        \A r \in DOMAIN table.checks \intersect DOMAIN table.rows :
            table.checks[r].ver = table.rows[r].ver

\* The octet a challenge gets when the field is left blank is the one the form
\* announced, while no challenge has been deleted, no creation was refused for its
\* octet and none overlapped.
OctetAsAnnounced == regHist.surprised => regHist.gap \/ regHist.crossed \/ regHist.lost

\* What the page shows and announces is what the store holds and does: rows and
\* jobs at rest, at most one queued job of a challenge at any time, and the octet
\* of a new challenge (the registries' handlers against the api-gateway's store).
RegistryIsTrue == PageMatchesStore /\ OneActiveJob /\ OctetAsAnnounced

\* Validations are of the version they are taken for: the one on the page, and
\* the one that is deployed (deployChallenge, updateChallenge).
ValidationsAreCurrent == DeployedWasValidated /\ ChecksAreCurrent
=============================================================================
