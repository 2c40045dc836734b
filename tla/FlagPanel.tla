------------------------------ MODULE FlagPanel ------------------------------
(***************************************************************************)
(* The participant's flag entry (flag-submit-panel and its route): a box   *)
(* of flags that is sent as one batch, and the verdicts of the last batch. *)
(* The api-gateway and game-core behind it are an external service here    *)
(* that records a flag once and answers with a verdict for each            *)
(* (FlagSubmission models it).                                             *)
(***************************************************************************)
EXTENDS Integers

CONSTANTS Flags,      \* flags a participant may type; some are wrong
          GoodFlags,  \* the right ones
          MaxBatches  \* bound on the batches sent

ASSUME PanelAssumption == GoodFlags \subseteq Flags /\ MaxBatches \in Nat

VARIABLES box,       \* the flags in the textarea
          batch,     \* the batch in flight: its flags and what came of it
          verdicts,  \* the verdicts shown
          error,     \* the error shown
          closed,    \* the page's acceptingSubmissions is false
          recorded,  \* the flags the server has taken
          batches,   \* batches left
          wiped      \* the flags the last answer removed from the box

panelVars == <<box, batch, verdicts, error, closed, recorded, batches, wiped>>

-----------------------------------------------------------------------------
NoBatch == [step |-> "idle", flags |-> {}, results |-> [f \in {} |-> "none"]]
NoVerdicts == [f \in {} |-> "none"]
Pending == batch.step # "idle"

\* The textarea is disabled while a batch is pending or submissions are closed.
TypeFlags ==
    /\ ~Pending /\ ~closed /\ batches > 0
    /\ \E fs \in SUBSET Flags : fs # box /\ box' = fs
    /\ error' = FALSE
    /\ UNCHANGED <<batch, verdicts, closed, recorded, batches, wiped>>

\* Nothing is sent without a flag.
SubmitEmpty ==
    /\ ~Pending /\ ~closed /\ box = {} /\ batches > 0
    /\ error' = TRUE /\ verdicts' = NoVerdicts /\ wiped' = {}
    /\ UNCHANGED <<box, batch, closed, recorded, batches>>

OnSubmit ==
    /\ ~Pending /\ ~closed /\ box # {} /\ batches > 0
    /\ batch' = [NoBatch EXCEPT !.step = "sent", !.flags = box]
    /\ error' = FALSE /\ verdicts' = NoVerdicts /\ wiped' = {}
    /\ batches' = batches - 1
    /\ UNCHANGED <<box, closed, recorded>>

VerdictOf(f) ==
    CASE f \in recorded             -> "duplicate"
      [] f \in GoodFlags \ recorded -> "accepted"
      [] OTHER                      -> "invalid"

\* external: the batch is judged, and its answer may be lost; or it is refused.
Judge ==
    /\ batch.step = "sent"
    /\ \/ /\ recorded' = recorded \union (batch.flags \intersect GoodFlags)
          /\ \E step \in {"judged", "failed"} :
               batch' = [batch EXCEPT !.step = step, !.results = [f \in batch.flags |-> VerdictOf(f)]]
       \/ batch' = [batch EXCEPT !.step = "failed"] /\ UNCHANGED recorded
    /\ UNCHANGED <<box, verdicts, error, closed, batches, wiped>>

\* The page's next load may open or close the submissions, also meanwhile.
ClosedChanges ==
    /\ batches > 0
    /\ closed' = ~closed
    /\ UNCHANGED <<box, batch, verdicts, error, recorded, batches, wiped>>

\* One accepted flag empties the box of all.
BoxAfterAny(results) == {}                          \* mutant: emptied also when nothing was accepted
BoxAfter(results) == IF \E f \in DOMAIN results : results[f] = "accepted" THEN {} ELSE box

AnswerBatch ==
    /\ batch.step \in {"judged", "failed"}
    /\ LET ok == batch.step = "judged" IN
       /\ verdicts' = IF ok THEN batch.results ELSE verdicts
       /\ error' = ~ok
       /\ box' = IF ok THEN BoxAfter(batch.results) ELSE box
       /\ wiped' = box \ box'
    /\ batch' = NoBatch
    /\ UNCHANGED <<closed, recorded, batches>>

-----------------------------------------------------------------------------
PanelStart(open) ==
    /\ box = {} /\ batch = NoBatch /\ verdicts = NoVerdicts /\ error = FALSE
    /\ closed = FALSE /\ recorded = {} /\ wiped = {}
    /\ batches = IF open THEN MaxBatches ELSE 0

PanelNext == TypeFlags \/ SubmitEmpty \/ OnSubmit \/ Judge \/ ClosedChanges \/ AnswerBatch

-----------------------------------------------------------------------------
(* Properties.                                                             *)

\* What the panel takes out of the box it has shown a verdict for, and at least
\* one of those flags was accepted: after a lost answer or a refusal the flags
\* are still there to be sent again.
NoFlagVanishes ==
    /\ wiped \subseteq DOMAIN verdicts
    /\ wiped # {} => \E f \in wiped : verdicts[f] = "accepted" /\ f \in recorded
=============================================================================
