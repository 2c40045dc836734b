----------------------------- MODULE AdminCards -----------------------------
(***************************************************************************)
(* The organizer's self-contained cards: the scoreboard freeze, the        *)
(* platform settings and the announcements (ScoreboardFreezeControl in     *)
(* organizer-dashboard-sections, platform-settings-card,                   *)
(* announcements-panel).  Each reads its value when it is mounted, keeps a *)
(* busy flag of its own and writes through the admin routes.  The read of  *)
(* the mount is not covered by the busy flag; on the settings card it      *)
(* shares it: saveState is both the flag and the note of the last failure, *)
(* so a mount read that fails enables the buttons beside an action.        *)
(***************************************************************************)
EXTENDS Integers, Sequences

CONSTANT MaxWrites   \* bound on the actions of a card

ASSUME CardAssumption == MaxWrites \in Nat

VARIABLES card,      \* which card this is, "none" for none
          stored,    \* the value the api-gateway keeps, and the prefix it records as active
          core,      \* the flag prefix game-core uses
          shown,     \* what the card shows
          draft,     \* what is typed
          load,      \* the mount's read
          acts,      \* each action: its kind, its request, how far that is
          saveState, \* busy or idle, and the note: an error or the action that succeeded
          writes,    \* actions left
          memo       \* what the properties remember

cardVars == <<card, stored, core, shown, draft, load, acts, saveState, writes, memo>>

-----------------------------------------------------------------------------
\* Windows of the freeze and prefixes are "a" or "b"; no window is "".
\* The announcements are the set of their numbers.
Typed == {"a", "b"}
NoValue == IF card = "announcements" THEN {} ELSE ""

\* An action is known by the number of writes that were left when it began, and
\* is under way until its last answer.
CardActions == 1..MaxWrites
IdleAct == [kind |-> "none", step |-> 0, arg |-> 0, res |-> "none",
            snap |-> [value |-> NoValue, active |-> "a", next |-> 0]]
UnderWay(n) == acts[n].kind # "none"

\* "saving" and "reloading", or the other cards' busy and pending.
Busy == saveState = "busy"

\* The requests an action sends, one after the other.
ScriptSaveOnly(kind) ==                        \* mutant: Save & Reload forgets the reload
    CASE kind \in {"save", "saveReload"} -> <<"put">>
      [] kind = "reload"                 -> <<"reload">>
      [] kind \in {"publish", "remove"}  -> <<kind, "list">>
      [] OTHER                           -> <<kind>>
Script(kind) ==
    CASE kind = "save"                   -> <<"put">>
      [] kind = "saveReload"             -> <<"put", "reload">>
      [] kind \in {"publish", "remove"}  -> <<kind, "list">>
      [] OTHER                           -> <<kind>>

Request(n) == Script(acts[n].kind)[acts[n].step]

-----------------------------------------------------------------------------
(* The mount's read.                                                       *)

LoadServed ==
    /\ load.step = "asked"
    /\ \/ load' = [step |-> "read", snap |-> stored]
       \/ load' = [step |-> "failed", snap |-> stored]
    /\ UNCHANGED <<card, stored, core, shown, draft, acts, saveState, writes, memo>>

\* The settings card puts the prefix it has read into the field, too.
LoadAnswers ==
    /\ load.step = "read"
    /\ load' = [step |-> "done", snap |-> load.snap]
    /\ shown' = [loaded |-> TRUE, snap |-> load.snap]
    /\ draft' = IF card = "settings" THEN load.snap.value ELSE draft
    /\ memo' = [memo EXCEPT !.overtaken = @ \/ load.snap # stored]
    /\ UNCHANGED <<card, stored, core, acts, saveState, writes>>

\* Its error replaces the settings card's saveState, whatever is under way; the
\* other cards ignore the failure or keep its text apart.
LoadFails ==
    /\ load.step = "failed"
    /\ load' = [step |-> "lost", snap |-> load.snap]
    /\ saveState' = IF card = "settings" THEN "error" ELSE saveState
    /\ memo' = [memo EXCEPT !.unread = TRUE]
    /\ UNCHANGED <<card, stored, core, shown, draft, acts, writes>>

\* The fields of the settings are disabled while it is busy, the others' are not.
Type ==
    /\ card # "none"
    /\ card = "settings" => ~Busy
    /\ \E v \in Typed : draft # v /\ draft' = v
    /\ UNCHANGED <<card, stored, core, shown, load, acts, saveState, writes, memo>>

\* memo.crossed are the actions beside which another one was under way.
BeginWrite(kind, arg) ==
    /\ writes > 0 /\ ~Busy
    /\ acts' = [acts EXCEPT ![writes] =
                  [kind |-> kind, step |-> 1, arg |-> arg, res |-> "none", snap |-> stored]]
    /\ saveState' = "busy"
    /\ writes' = writes - 1
    /\ LET others == {n \in CardActions : UnderWay(n)} IN
         memo' = [memo EXCEPT !.crossed =
                    IF others = {} THEN @ ELSE @ \union others \union {writes}]
    /\ UNCHANGED <<card, stored, core, shown, draft, load>>

ApplyFreeze == card = "freeze" /\ draft # "" /\ BeginWrite("freeze", draft)
ClearFreeze == card = "freeze" /\ shown.loaded /\ shown.snap.value # "" /\ BeginWrite("unfreeze", 0)

\* Save needs a valid prefix that differs from the one shown, Reload Only needs nothing.
Dirty == shown.loaded /\ draft # "" /\ draft # shown.snap.value
OnSave == card = "settings" /\ Dirty /\ BeginWrite("save", draft)
OnSaveAndReload == card = "settings" /\ Dirty /\ BeginWrite("saveReload", draft)
OnReloadOnly == card = "settings" /\ BeginWrite("reload", 0)

CreateAnnouncement == card = "announcements" /\ draft # "" /\ BeginWrite("publish", 0)
RemoveAnnouncement ==
    /\ card = "announcements"
    /\ \E id \in shown.snap.value : BeginWrite("remove", id)

\* What a request makes of the stored value; ids of announcements are not reused.
AfterWrite(n) ==
    CASE Request(n) \in {"freeze", "put"} -> [stored EXCEPT !.value = acts[n].arg]
      [] Request(n) = "unfreeze" -> [stored EXCEPT !.value = ""]
      [] Request(n) = "publish"  -> [stored EXCEPT !.value = @ \union {stored.next}, !.next = @ + 1]
      [] Request(n) = "remove"   -> [stored EXCEPT !.value = @ \ {acts[n].arg}]
      [] OTHER                   -> stored

\* A request is served in one statement; its answer may be lost.
ServeWrite(n) ==
    /\ UnderWay(n) /\ acts[n].res = "none" /\ Request(n) # "reload"
    /\ stored' = AfterWrite(n)
    /\ \E res \in {"ok", "failed"} :
         acts' = [acts EXCEPT ![n].res = res, ![n].snap = AfterWrite(n)]
    /\ UNCHANGED <<card, core, shown, draft, load, saveState, writes, memo>>

\* handleAdminReloadFlagFormat reads the prefix, ...
ReloadReads(n) ==
    /\ UnderWay(n) /\ acts[n].res = "none" /\ Request(n) = "reload"
    /\ acts' = [acts EXCEPT ![n].res = "read", ![n].snap = stored]
    /\ UNCHANGED <<card, stored, core, shown, draft, load, saveState, writes, memo>>

\* ... has game-core take it ...
ReloadPushes(n) ==
    /\ UnderWay(n) /\ acts[n].res = "read"
    /\ core' = acts[n].snap.value
    /\ acts' = [acts EXCEPT ![n].res = "pushed"]
    /\ UNCHANGED <<card, stored, shown, draft, load, saveState, writes, memo>>

\* ... and records it as active.
ReloadRecords(n) ==
    /\ UnderWay(n) /\ acts[n].res = "pushed"
    /\ stored' = [stored EXCEPT !.active = acts[n].snap.value]
    /\ \E res \in {"ok", "failed"} :
         acts' = [acts EXCEPT ![n].res = res, ![n].snap = stored']
    /\ UNCHANGED <<card, core, shown, draft, load, saveState, writes, memo>>

\* A request fails on its way, or at a statement of its handler.
RequestFails(n) ==
    /\ UnderWay(n) /\ acts[n].res \in {"none", "read", "pushed"}
    /\ acts' = [acts EXCEPT ![n].res = "failed"]
    /\ UNCHANGED <<card, stored, core, shown, draft, load, saveState, writes, memo>>

\* The answers the card takes over; a published or removed announcement is read anew.
Shows(req) == req \notin {"publish", "remove"}

DraftAfter(req) == IF req \in {"unfreeze", "publish"} THEN "" ELSE draft

\* The next request follows a success, with the busy flag set again.
NextRequest(n) ==
    /\ UnderWay(n) /\ acts[n].res = "ok"
    /\ acts[n].step < Len(Script(acts[n].kind))
    /\ acts' = [acts EXCEPT ![n].step = @ + 1, ![n].res = "none"]
    /\ shown' = IF Shows(Request(n)) THEN [loaded |-> TRUE, snap |-> acts[n].snap] ELSE shown
    /\ draft' = DraftAfter(Request(n))
    /\ saveState' = "busy"
    /\ UNCHANGED <<card, stored, core, load, writes, memo>>

\* The last answer is shown and noted, whatever else is under way by then.
ActionSucceeds(n) ==
    /\ UnderWay(n) /\ acts[n].res = "ok"
    /\ acts[n].step = Len(Script(acts[n].kind))
    /\ acts' = [acts EXCEPT ![n] = IdleAct]
    /\ shown' = IF Shows(Request(n)) THEN [loaded |-> TRUE, snap |-> acts[n].snap] ELSE shown
    /\ draft' = DraftAfter(Request(n))
    /\ saveState' = acts[n].kind
    /\ memo' = [memo EXCEPT !.unread = FALSE, !.overtaken = n \in memo.crossed, !.noted = n]
    /\ UNCHANGED <<card, stored, core, load, writes>>

\* A failure ends the action with an error.
ActionFails(n) ==
    /\ UnderWay(n) /\ acts[n].res = "failed"
    /\ acts' = [acts EXCEPT ![n] = IdleAct]
    /\ saveState' = "error"
    /\ memo' = [memo EXCEPT !.unread = TRUE]
    /\ UNCHANGED <<card, stored, core, shown, draft, load, writes>>

-----------------------------------------------------------------------------
CardStart(open) ==
    /\ card \in IF open THEN {"freeze", "settings", "announcements"} ELSE {"none"}
    /\ \E v \in IF card = "announcements" THEN {{}, {1}}
                ELSE IF card = "freeze" THEN {"", "a"} ELSE {"a"} :
         stored = [value |-> v, active |-> "a", next |-> 2]
    /\ core = "a"
    /\ shown = [loaded |-> FALSE, snap |-> [stored EXCEPT !.value = NoValue]]
    /\ draft = ""
    /\ load = [step |-> IF card = "none" THEN "done" ELSE "asked", snap |-> stored]
    /\ acts = [n \in CardActions |-> IdleAct]
    /\ saveState = "idle"
    /\ writes = IF card = "none" THEN 0 ELSE MaxWrites
    /\ memo = [overtaken |-> FALSE, unread |-> card = "none", crossed |-> {}, noted |-> 0]

CardNext ==
    \/ LoadServed \/ LoadAnswers \/ LoadFails \/ Type
    \/ ApplyFreeze \/ ClearFreeze
    \/ OnSave \/ OnSaveAndReload \/ OnReloadOnly
    \/ CreateAnnouncement \/ RemoveAnnouncement
    \/ \E n \in CardActions :
         \/ ServeWrite(n) \/ ReloadReads(n) \/ ReloadPushes(n) \/ ReloadRecords(n)
         \/ RequestFails(n)
         \/ NextRequest(n) \/ ActionSucceeds(n) \/ ActionFails(n)

-----------------------------------------------------------------------------
(* Properties.                                                             *)

\* The variables hold values of their kinds, an action is at one of its requests,
\* and only announcements that exist or were deleted are shown.
CardTypeOK ==
    /\ draft \in Typed \union {""}
    /\ load.step \in {"asked", "read", "failed", "done", "lost"}
    /\ \A n \in CardActions : UnderWay(n) => acts[n].step \in 1..Len(Script(acts[n].kind))
    /\ saveState \in {"idle", "busy", "error", "freeze", "unfreeze", "save", "saveReload",
                       "reload", "publish", "remove"}
    /\ card = "announcements" => \A id \in shown.snap.value : id < stored.next
    /\ card \in {"freeze", "settings"} => shown.snap.value \in Typed \union {""}

\* At rest a card shows what is stored, unless the last read or write failed on
\* its way, a write overtook the mount's read, or the answer shown is of an action
\* beside which another one was under way.
CardShowsStored ==
    (load.step \in {"done", "lost"} /\ (\A n \in CardActions : ~UnderWay(n))
     /\ ~memo.unread /\ ~memo.overtaken) => shown.snap = stored

\* When the card says that the settings were saved after a reload, by an action
\* that was alone, flags are issued with the prefix it shows (until game-core is
\* restarted).  The same words after a plain Save do not mean that: game-core
\* keeps its prefix until it is reloaded.
ReloadedPrefixIsActive ==
    (saveState \in {"saveReload", "reload"} /\ memo.noted \notin memo.crossed) =>
        /\ core = stored.value
        /\ ~memo.overtaken => shown.snap.value = stored.value

\* A card has one action at a time. Only the settings card whose mount read failed
\* has two, however often saveState is overwritten, and never a third.
MountLost == card = "settings" /\ load.step = "lost"
FewActions ==
    /\ ~MountLost => \A i, j \in CardActions : (UnderWay(i) /\ UnderWay(j)) => i = j
    /\ \A i, j, k \in CardActions :
         (UnderWay(i) /\ UnderWay(j) /\ UnderWay(k)) => (i = j \/ j = k \/ i = k)

\* A card at rest shows what is stored, a prefix it reports as reloaded is the one
\* game-core issues flags with, and the busy flag keeps actions apart except after
\* a failed mount read (the three cards, handleAdminReloadFlagFormat).
CardIsTrue == CardShowsStored /\ ReloadedPrefixIsActive /\ FewActions
=============================================================================
