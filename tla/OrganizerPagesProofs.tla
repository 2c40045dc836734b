------------------------ MODULE OrganizerPagesProofs ------------------------
(***************************************************************************)
(* Theorems about the organizer's pages beside the game: the cards, the    *)
(* registries and the runtime console, for every number of edits, writes,  *)
(* actions and changes of the host, and whichever reports change.          *)
(***************************************************************************)
EXTENDS OrganizerPages, TLAPS

-----------------------------------------------------------------------------
(* The cards.                                                              *)

CardKinds(c) ==
    CASE c = "freeze"        -> {"freeze", "unfreeze"}
      [] c = "settings"      -> {"save", "saveReload", "reload"}
      [] c = "announcements" -> {"publish", "remove"}
      [] OTHER               -> {}

Words == Typed \union {""}

\* Announcements are a set of numbers, the other cards' value is a word.
CardValues == IF card = "announcements" THEN SUBSET Nat ELSE Words
CardSnaps == [value : CardValues, active : Words, next : Nat]

CardResults == {"none", "read", "pushed", "ok", "failed"}
CardActs == [kind : CardKinds(card) \union {"none"}, step : Nat, arg : Typed \union Nat,
             res : CardResults, snap : CardSnaps]

\* Only announcements that exist or existed are in a copy of the list.
Numbered(x) == card = "announcements" => (x.next <= stored.next /\ \A id \in x.value : id < x.next)

\* An action carries what its kind needs and is at one of its requests.
ActFits(a) ==
    /\ a \in CardActs /\ Numbered(a.snap)
    /\ a.kind \in {"freeze", "save", "saveReload"} => a.arg \in Typed
    /\ a.kind = "remove" => a.arg \in Nat
    /\ a.kind # "none" => a.step \in 1..Len(Script(a.kind))
    /\ a.res \in {"read", "pushed"} => (a.kind # "none" /\ Script(a.kind)[a.step] = "reload")

Memos == [overtaken : BOOLEAN, unread : BOOLEAN, crossed : SUBSET CardActions, noted : Nat]

LoadSteps == {"asked", "read", "failed", "done", "lost"}

CardTypes ==
    /\ card \in {"none", "freeze", "settings", "announcements"}
    /\ stored \in CardSnaps /\ Numbered(stored)
    /\ core \in Words
    /\ shown \in [loaded : BOOLEAN, snap : CardSnaps] /\ Numbered(shown.snap)
    /\ draft \in Words
    /\ load \in [step : LoadSteps, snap : CardSnaps] /\ Numbered(load.snap)
    /\ acts \in [CardActions -> CardActs]
    /\ \A n \in CardActions : ActFits(acts[n])
    /\ saveState \in CardKinds(card) \union {"idle", "busy", "error"}
    /\ writes \in 0..MaxWrites
    /\ memo \in Memos

\* How far the request of an action that is alone has come: what it carries is what
\* is stored, and a prefix that was pushed is the one game-core uses.
AloneFits(a) ==
    /\ a.res = "ok" => a.snap = stored
    /\ a.res \in {"read", "pushed"} => a.snap.value = stored.value
    /\ a.res = "pushed" => core = stored.value
    /\ (a.res = "ok" /\ Script(a.kind)[a.step] = "reload") => core = stored.value

\* An action that did not meet another one has the card for itself.
AloneInv ==
    \A n \in CardActions : (UnderWay(n) /\ n \notin memo.crossed) =>
        /\ \A m \in CardActions : UnderWay(m) => m = n
        /\ AloneFits(acts[n])

\* Nothing is under way when such an action's success is shown.
NoteInv ==
    (saveState \in {"saveReload", "reload"} /\ memo.noted \notin memo.crossed) =>
        \A n \in CardActions : ~UnderWay(n)

\* The buttons are enabled beside an action only after the mount's read failed, and
\* then beside one.
IdleInv ==
    ~Busy => /\ ~MountLost => \A n \in CardActions : ~UnderWay(n)
             /\ \A i, j \in CardActions : (UnderWay(i) /\ UnderWay(j)) => i = j

CardInv == CardTypes /\ AloneInv /\ NoteInv /\ IdleInv /\ CardIsTrue

\* Copies of a card's value, changed field by field.
LEMMA SnapWithValue ==
    ASSUME NEW x \in CardSnaps, NEW v \in CardValues, NEW y, y = [x EXCEPT !.value = v]
    PROVE  y \in CardSnaps /\ y.value = v /\ y.active = x.active /\ y.next = x.next
  BY DEF CardSnaps

\* The same for the next number.
LEMMA SnapWithNext ==
    ASSUME NEW x \in CardSnaps, NEW n \in Nat, NEW y, y = [x EXCEPT !.next = n]
    PROVE  y \in CardSnaps /\ y.value = x.value /\ y.active = x.active /\ y.next = n
  BY DEF CardSnaps

\* The same for the recorded prefix.
LEMMA SnapWithActive ==
    ASSUME NEW x \in CardSnaps, NEW a \in Words, NEW y, y = [x EXCEPT !.active = a]
    PROVE  y \in CardSnaps /\ y.value = x.value /\ y.active = a /\ y.next = x.next
  BY DEF CardSnaps

\* The requests of an action: the last one is always taken over by the card.
LEMMA ScriptFacts ==
    ASSUME NEW kind \in CardKinds("freeze") \union CardKinds("settings") \union CardKinds("announcements"),
           NEW step \in 1..Len(Script(kind))
    PROVE  /\ Len(Script(kind)) \in 1..2
           /\ Script(kind)[step] \in {"freeze", "unfreeze", "put", "reload", "publish", "remove", "list"}
           /\ step = Len(Script(kind)) => Script(kind)[step] \notin {"publish", "remove"}
           /\ Script(kind)[step] = "freeze" => kind = "freeze"
           /\ Script(kind)[step] = "unfreeze" => kind = "unfreeze"
           /\ Script(kind)[step] = "put" => kind \in {"save", "saveReload"}
           /\ Script(kind)[step] = "reload" => kind \in {"saveReload", "reload"}
           /\ (kind \in {"saveReload", "reload"} /\ step = Len(Script(kind))) => Script(kind)[step] = "reload"
           /\ Script(kind)[step] \in {"publish", "list"} => kind \in {"publish", "remove"}
           /\ Script(kind)[step] = "remove" => kind = "remove"
  BY DEF CardKinds, Script

\* Copies of an action, changed in its result, its copy of the value or its request.
LEMMA ActWithRes ==
    ASSUME NEW x \in CardActs, NEW r \in CardResults, NEW y, y = [x EXCEPT !.res = r]
    PROVE  /\ y \in CardActs /\ y.res = r
           /\ y.kind = x.kind /\ y.step = x.step /\ y.arg = x.arg /\ y.snap = x.snap
  BY DEF CardActs

\* The same for the copy of the value.
LEMMA ActWithSnap ==
    ASSUME NEW x \in CardActs, NEW s \in CardSnaps, NEW y, y = [x EXCEPT !.snap = s]
    PROVE  /\ y \in CardActs /\ y.snap = s
           /\ y.kind = x.kind /\ y.step = x.step /\ y.arg = x.arg /\ y.res = x.res
  BY DEF CardActs

\* The same for the request.
LEMMA ActWithStep ==
    ASSUME NEW x \in CardActs, NEW k \in Nat, NEW y, y = [x EXCEPT !.step = k]
    PROVE  /\ y \in CardActs /\ y.step = k
           /\ y.kind = x.kind /\ y.res = x.res /\ y.arg = x.arg /\ y.snap = x.snap
  BY DEF CardActs

\* The free action is of every card.
LEMMA IdleActFits ==
    ASSUME stored \in CardSnaps
    PROVE  IdleAct \in CardActs /\ IdleAct.kind = "none" /\ ActFits(IdleAct)
<1>1. NoValue \in CardValues /\ "a" \in Words /\ 0 \in Nat
  BY DEF NoValue, CardValues, Words, Typed
<1>2. /\ IdleAct.kind = "none" /\ IdleAct.res = "none" /\ IdleAct.arg = 0 /\ IdleAct.step = 0
      /\ IdleAct.snap = [value |-> NoValue, active |-> "a", next |-> 0]
      /\ IdleAct \in [kind : {"none"}, step : Nat, arg : Nat, res : {"none"}, snap : {IdleAct.snap}]
  BY DEF IdleAct
<1>3. IdleAct.snap \in CardSnaps /\ IdleAct.snap.value = NoValue /\ IdleAct.snap.next = 0
  BY <1>1, <1>2 DEF CardSnaps
<1>4. IdleAct \in CardActs
  BY <1>2, <1>3 DEF CardActs, CardResults
<1>5. Numbered(IdleAct.snap)
  BY <1>3 DEF Numbered, NoValue, CardSnaps
<1> QED BY <1>2, <1>4, <1>5 DEF ActFits

\* A card that is opened satisfies the invariant.
LEMMA CardInit == ASSUME NEW part, CardStart(part) PROVE CardInv
<1> USE CardAssumption DEF CardStart
<1>1. card \in {"none", "freeze", "settings", "announcements"}
  OBVIOUS
<1>2. NoValue \in CardValues /\ "a" \in Words /\ 2 \in Nat /\ "" \in Words
  BY DEF NoValue, CardValues, Words, Typed
<1>3. stored \in CardSnaps /\ Numbered(stored)
  <2> DEFINE firsts == IF card = "announcements" THEN {{}, {1}}
                       ELSE IF card = "freeze" THEN {"", "a"} ELSE {"a"}
  <2>1. PICK v \in firsts : stored = [value |-> v, active |-> "a", next |-> 2]
    BY Zenon
  <2>2. card # "announcements" => v \in Words
    BY Zenon DEF Words, Typed
  <2>3. card = "announcements" => (v = {} \/ v = {1})
    BY Zenon
  <2>4. "a" \in Words
    BY Zenon DEF Words, Typed
  <2> HIDE DEF firsts
  <2>5. v \in CardValues /\ (card = "announcements" => \A id \in v : id < 2)
    <3>1. v = {1} => v \in SUBSET Nat /\ \A id \in v : id < 2
      BY ONLY TRUE
    <3>2. v = {} => v \in SUBSET Nat /\ \A id \in v : id < 2
      BY ONLY TRUE
    <3> QED BY ONLY <2>2, <2>3, <3>1, <3>2 DEF CardValues
  <2>6. stored \in CardSnaps /\ stored.value = v /\ stored.next = 2
    BY ONLY <2>1, <2>4, <2>5 DEF CardSnaps
  <2> QED BY ONLY <2>5, <2>6 DEF Numbered
<1>4. shown \in [loaded : BOOLEAN, snap : CardSnaps] /\ Numbered(shown.snap)
  <2> DEFINE x == [stored EXCEPT !.value = NoValue]
  <2>1. x \in CardSnaps /\ x.value = NoValue /\ x.next = stored.next
    <3> HIDE DEF x
    <3>1. x = [stored EXCEPT !.value = NoValue]
      BY DEF x
    <3> QED BY ONLY <3>1, <1>2, <1>3, SnapWithValue
  <2>2. Numbered(x)
    BY ONLY <2>1, <1>3 DEF Numbered, NoValue, CardSnaps
  <2>3. shown = [loaded |-> FALSE, snap |-> x]
    OBVIOUS
  <2> HIDE DEF x
  <2> QED BY ONLY <2>1, <2>2, <2>3
<1>5. load \in [step : LoadSteps, snap : CardSnaps] /\ Numbered(load.snap)
  BY <1>3 DEF LoadSteps
<1>6. /\ memo \in Memos /\ (memo.unread <=> card = "none")
      /\ saveState = "idle" /\ writes \in 0..MaxWrites
  <2>1. /\ memo = [overtaken |-> FALSE, unread |-> card = "none", crossed |-> {}, noted |-> 0]
        /\ (card = "none") \in BOOLEAN /\ {} \in SUBSET CardActions
    OBVIOUS
  <2>2. memo \in Memos /\ (memo.unread <=> card = "none")
    BY ONLY <2>1 DEF Memos
  <2>3. saveState = "idle" /\ (writes = 0 \/ writes = MaxWrites)
    BY Zenon
  <2>4. writes \in 0..MaxWrites
    BY ONLY <2>3, CardAssumption
  <2> QED BY <2>2, <2>3, <2>4
<1>7. IdleAct \in CardActs /\ IdleAct.kind = "none" /\ ActFits(IdleAct)
  BY ONLY <1>3, IdleActFits
<1>8. /\ acts \in [CardActions -> CardActs]
      /\ \A n \in CardActions : acts[n] = IdleAct
  BY <1>7
<1>9. \A n \in CardActions : ActFits(acts[n]) /\ ~UnderWay(n)
  BY <1>7, <1>8 DEF UnderWay
<1>10. CardTypes
  BY <1>1, <1>2, <1>3, <1>4, <1>5, <1>6, <1>8, <1>9 DEF CardTypes
<1>11. AloneInv /\ NoteInv /\ IdleInv
  BY <1>9 DEF AloneInv, NoteInv, IdleInv
<1>12. CardShowsStored
  <2>1. CASE card = "none"
    BY <2>1, <1>6 DEF CardShowsStored
  <2>2. CASE card # "none"
    BY <2>2 DEF CardShowsStored
  <2> QED BY <2>1, <2>2
<1>13. ReloadedPrefixIsActive /\ FewActions
  BY <1>6, <1>9 DEF ReloadedPrefixIsActive, FewActions
<1> QED BY <1>10, <1>11, <1>12, <1>13 DEF CardInv, CardIsTrue

\* An action under way is of its card's kinds, at one of its requests.
LEMMA ActFacts ==
    ASSUME CardTypes, NEW n \in CardActions, UnderWay(n)
    PROVE  /\ acts[n] \in CardActs /\ ActFits(acts[n])
           /\ acts[n].kind \in CardKinds(card) /\ acts[n].kind # "none"
           /\ card \in {"freeze", "settings", "announcements"}
           /\ acts[n].step \in 1..Len(Script(acts[n].kind)) /\ acts[n].step \in Nat
           /\ acts[n].kind \in CardKinds("freeze") \union CardKinds("settings")
                                 \union CardKinds("announcements")
<1>1. acts[n] \in CardActs /\ ActFits(acts[n]) /\ acts[n].kind # "none"
  BY DEF CardTypes, UnderWay
<1>2. acts[n].step \in 1..Len(Script(acts[n].kind)) /\ acts[n].step \in Nat
  BY <1>1 DEF ActFits, CardActs
<1>3. acts[n].kind \in CardKinds(card)
  BY <1>1 DEF CardActs
<1>4. card \in {"freeze", "settings", "announcements"}
  BY <1>3 DEF CardTypes, CardKinds
<1> QED BY <1>1, <1>2, <1>3, <1>4

\* What a request leaves in the store is of the card's kind again.
LEMMA WriteTypes ==
    ASSUME CardTypes, NEW n \in CardActions, UnderWay(n)
    PROVE  LET new == AfterWrite(n)
           IN /\ new \in CardSnaps /\ new.next >= stored.next
              /\ card = "announcements" => \A id \in new.value : id < new.next
<1> DEFINE req == Request(n)
           new == AfterWrite(n)
           kind == acts[n].kind
           arg == acts[n].arg
<1>1. /\ kind \in CardKinds(card) /\ acts[n].step \in 1..Len(Script(kind))
      /\ card \in {"freeze", "settings", "announcements"}
      /\ kind \in {"freeze", "save", "saveReload"} => arg \in Typed
  BY ActFacts DEF ActFits
<1>2. kind \in CardKinds("freeze") \union CardKinds("settings") \union CardKinds("announcements")
  BY <1>1
<1>3. /\ req \in {"freeze", "unfreeze", "put", "reload", "publish", "remove", "list"}
      /\ req \in {"freeze", "put"} => kind \in {"freeze", "save", "saveReload"}
      /\ req = "unfreeze" => kind = "unfreeze"
      /\ req \in {"publish", "list"} => kind \in {"publish", "remove"}
      /\ req = "remove" => kind = "remove"
  BY <1>1, <1>2, ScriptFacts DEF Request
<1> SUFFICES /\ new \in CardSnaps /\ new.next >= stored.next
             /\ card = "announcements" => \A id \in new.value : id < new.next
  OBVIOUS
<1>0. /\ stored \in CardSnaps /\ stored.next \in Nat /\ stored.value \in CardValues
      /\ card = "announcements" => \A id \in stored.value : id < stored.next
  BY DEF CardTypes, CardSnaps, Numbered
<1>4. CASE req \in {"freeze", "put"}
  <2>1. card # "announcements" /\ arg \in Words
    BY <1>1, <1>3, <1>4 DEF CardKinds, Words
  <2>2. CardValues = Words
    BY <2>1 DEF CardValues
  <2>3. new = [stored EXCEPT !.value = arg]
    BY <1>4 DEF AfterWrite
  <2> HIDE DEF new, arg
  <2>4. new \in CardSnaps /\ new.next = stored.next
    BY ONLY <1>0, <2>1, <2>2, <2>3, SnapWithValue
  <2> QED BY <2>1, <2>4, <1>0
<1>5. CASE req = "unfreeze"
  <2> DEFINE empty == ""
  <2>1. card # "announcements"
    BY <1>1, <1>3, <1>5 DEF CardKinds
  <2>2. CardValues = Words
    BY <2>1 DEF CardValues
  <2>3. empty \in Words
    BY Zenon DEF Words
  <2>4. new = [stored EXCEPT !.value = empty]
    BY <1>5 DEF AfterWrite
  <2> HIDE DEF empty, new
  <2>5. new \in CardSnaps /\ new.next = stored.next
    BY ONLY <1>0, <2>1, <2>2, <2>3, <2>4, SnapWithValue
  <2> QED BY <2>1, <2>5, <1>0
<1>7. CASE req = "publish"
  <2>1. card = "announcements"
    BY <1>1, <1>3, <1>7 DEF CardKinds
  <2>2. CardValues = SUBSET Nat
    BY <2>1 DEF CardValues
  <2> DEFINE more == stored.value \union {stored.next}
             half == [stored EXCEPT !.value = more]
  <2>3. new = [half EXCEPT !.next = stored.next + 1]
    BY <1>7 DEF AfterWrite
  <2>4. more \in CardValues /\ stored.next + 1 \in Nat
    BY <1>0, <2>2
  <2>5. half = [stored EXCEPT !.value = more]
    OBVIOUS
  <2>6. \A id \in more : id < stored.next + 1
    BY <1>0, <2>1, <2>2, <2>4
  <2> HIDE DEF more, half, new
  <2>7. half \in CardSnaps /\ half.value = more
    BY ONLY <1>0, <2>4, <2>5, SnapWithValue
  <2>8. new \in CardSnaps /\ new.value = more /\ new.next = stored.next + 1
    BY ONLY <2>3, <2>4, <2>7, SnapWithNext
  <2> QED BY <2>6, <2>8, <1>0
<1>8. CASE req = "remove"
  <2>1. card = "announcements"
    BY <1>1, <1>3, <1>8 DEF CardKinds
  <2>2. CardValues = SUBSET Nat
    BY <2>1 DEF CardValues
  <2> DEFINE fewer == stored.value \ {arg}
  <2>3. new = [stored EXCEPT !.value = fewer]
    BY <1>8 DEF AfterWrite
  <2>4. fewer \in CardValues /\ \A id \in fewer : id < stored.next
    BY <1>0, <2>1, <2>2
  <2> HIDE DEF fewer, new
  <2>5. new \in CardSnaps /\ new.value = fewer /\ new.next = stored.next
    BY ONLY <1>0, <2>3, <2>4, SnapWithValue
  <2> QED BY <2>4, <2>5, <1>0
<1>9. CASE req \in {"list", "reload"}
  <2>1. new = stored
    BY <1>9 DEF AfterWrite
  <2> HIDE DEF new
  <2> QED BY <2>1, <1>0
<1> HIDE DEF req, new
<1> QED BY <1>3, <1>4, <1>5, <1>7, <1>8, <1>9

\* An action fits its card whatever is written meanwhile: numbers only grow.
LEMMA FitsKept ==
    ASSUME NEW a, ActFits(a), card' = card, stored.next \in Nat, stored'.next \in Nat,
           stored'.next >= stored.next
    PROVE  ActFits(a)'
<1>1. CardActs' = CardActs /\ CardSnaps' = CardSnaps
  BY DEF CardActs, CardSnaps, CardValues
<1>2. a \in CardActs /\ a.snap.next \in Nat
  BY DEF ActFits, CardActs, CardSnaps
<1>3. Numbered(a.snap)'
  BY <1>2 DEF ActFits, Numbered
<1> QED BY <1>1, <1>2, <1>3 DEF ActFits, Script

\* A step of one action leaves the others as they are.
LEMMA OneAct ==
    ASSUME CardTypes, NEW n \in CardActions, NEW a, ActFits(a)',
           acts' = [acts EXCEPT ![n] = a],
           card' = card, stored' \in CardSnaps, stored'.next >= stored.next
    PROVE  /\ acts' \in [CardActions -> CardActs'] /\ acts'[n] = a
           /\ \A m \in CardActions \ {n} : acts'[m] = acts[m]
           /\ \A m \in CardActions : ActFits(acts[m])'
<1>1. CardActs' = CardActs
  BY DEF CardActs, CardSnaps, CardValues
<1>2. a \in CardActs
  BY <1>1 DEF ActFits
<1>3. /\ acts' \in [CardActions -> CardActs] /\ acts'[n] = a
      /\ \A m \in CardActions \ {n} : acts'[m] = acts[m]
  BY <1>2 DEF CardTypes
<1>4. \A m \in CardActions \ {n} : ActFits(acts[m])'
  <2> SUFFICES ASSUME NEW m \in CardActions \ {n} PROVE ActFits(acts[m])'
    OBVIOUS
  <2>1. PICK x : x = acts[m]
    OBVIOUS
  <2>2. ActFits(x) /\ stored.next \in Nat /\ stored'.next \in Nat
    BY <2>1 DEF CardTypes, CardSnaps
  <2>3. ActFits(x)'
    BY <2>2, FitsKept
  <2>4. acts'[m] = x
    BY <1>3, <2>1
  <2> QED BY <2>3, <2>4
<1>5. ActFits(acts[n])'
  BY <1>3
<1> QED BY <1>1, <1>3, <1>4, <1>5

\* The request of one action moves on: nothing else of the card changes but the
\* stored value and game-core's prefix.
LEMMA ServedStep ==
    ASSUME CardInv, NEW n \in CardActions, UnderWay(n),
           NEW a, ActFits(a)', a.kind = acts[n].kind,
           n \notin memo.crossed => AloneFits(a)',
           acts' = [acts EXCEPT ![n] = a],
           stored' \in CardSnaps, Numbered(stored)', stored'.next >= stored.next, core' \in Words,
           UNCHANGED <<card, shown, draft, load, saveState, writes, memo>>
    PROVE  CardInv'
<1>1. CardTypes
  BY DEF CardInv
<1>2. /\ acts' \in [CardActions -> CardActs'] /\ acts'[n] = a
      /\ \A m \in CardActions \ {n} : acts'[m] = acts[m]
      /\ \A m \in CardActions : ActFits(acts[m])'
  BY <1>1, OneAct
<1>3. \A m \in CardActions : UnderWay(m)' <=> UnderWay(m)
  BY <1>2 DEF UnderWay
<1>4. CardTypes'
  <2>1. CardSnaps' = CardSnaps
    BY DEF CardSnaps, CardValues
  <2>2. Numbered(shown.snap)' /\ Numbered(load.snap)'
    <3>1. /\ stored.next \in Nat /\ stored'.next \in Nat
          /\ shown.snap.next \in Nat /\ load.snap.next \in Nat
      BY <1>1 DEF CardTypes, CardSnaps
    <3> QED BY <1>1, <3>1 DEF CardTypes, Numbered
  <2> QED BY <1>1, <1>2, <2>1, <2>2 DEF CardTypes
<1>5. AloneInv'
  <2> SUFFICES ASSUME NEW m \in CardActions, UnderWay(m), m \notin memo.crossed
               PROVE  /\ \A q \in CardActions : UnderWay(q) => q = m
                      /\ AloneFits(acts[m])'
    BY <1>3 DEF AloneInv
  <2>1. \A q \in CardActions : UnderWay(q) => q = m
    BY DEF CardInv, AloneInv
  <2>2. m = n
    BY <2>1
  <2>3. AloneFits(acts[m])'
    BY <1>2, <2>2
  <2> QED BY <2>1, <2>3
<1>6. ~(saveState \in {"saveReload", "reload"} /\ memo.noted \notin memo.crossed)
  BY DEF CardInv, NoteInv
<1>7. NoteInv' /\ ReloadedPrefixIsActive'
  BY <1>6 DEF NoteInv, ReloadedPrefixIsActive
<1>8. IdleInv' /\ FewActions'
  BY <1>3 DEF CardInv, CardIsTrue, IdleInv, FewActions, Busy, MountLost
<1>9. CardShowsStored'
  BY <1>3 DEF CardShowsStored
<1> QED BY <1>4, <1>5, <1>7, <1>8, <1>9 DEF CardInv, CardIsTrue

\* A request is served in one statement.
LEMMA ServeWriteStep ==
    ASSUME CardInv, NEW n \in CardActions, ServeWrite(n)
    PROVE  CardInv'
<1>1. CardTypes /\ UnderWay(n) /\ acts[n].res = "none" /\ Request(n) # "reload"
  BY DEF CardInv, ServeWrite
<1>2. /\ acts[n] \in CardActs /\ ActFits(acts[n]) /\ stored \in CardSnaps
      /\ stored.next \in Nat
  BY <1>1, ActFacts DEF CardTypes, CardSnaps
<1>3. PICK new : new = AfterWrite(n)
  OBVIOUS
<1>4. /\ new \in CardSnaps /\ new.next >= stored.next /\ new.next \in Nat
      /\ card = "announcements" => \A id \in new.value : id < new.next
  BY <1>1, <1>3, WriteTypes DEF CardSnaps
<1>5. PICK res \in {"ok", "failed"} :
        \E a : a = [acts[n] EXCEPT !.res = res, !.snap = new] /\ acts' = [acts EXCEPT ![n] = a]
  BY <1>3 DEF ServeWrite
<1>0. PICK a : a = [acts[n] EXCEPT !.res = res, !.snap = new] /\ acts' = [acts EXCEPT ![n] = a]
  BY <1>5
<1>6. /\ a \in CardActs /\ a.res = res /\ a.snap = new
      /\ a.kind = acts[n].kind /\ a.step = acts[n].step /\ a.arg = acts[n].arg
  <2>1. PICK half : half = [acts[n] EXCEPT !.res = res]
    OBVIOUS
  <2>2. /\ half \in CardActs /\ half.res = res
        /\ half.kind = acts[n].kind /\ half.step = acts[n].step /\ half.arg = acts[n].arg
    BY <1>2, <2>1, ActWithRes DEF CardResults
  <2>3. a = [half EXCEPT !.snap = new]
    BY <1>0, <2>1
  <2> QED BY <1>4, <2>2, <2>3, ActWithSnap
<1>7. /\ stored' = new
      /\ UNCHANGED <<card, core, shown, draft, load, saveState, writes, memo>>
  BY <1>3 DEF ServeWrite
<1>8. stored' \in CardSnaps /\ Numbered(stored)' /\ CardSnaps' = CardSnaps /\ CardActs' = CardActs
  BY <1>4, <1>7 DEF Numbered, CardActs, CardSnaps, CardValues
<1>9. ActFits(a)'
  <2>1. Numbered(a.snap)'
    BY <1>4, <1>6, <1>7 DEF Numbered
  <2> QED BY <1>2, <1>6, <1>8, <2>1 DEF ActFits, Script
<1>10. AloneFits(a)'
  <2>1. Script(a.kind)[a.step] # "reload"
    BY <1>1, <1>6 DEF Request
  <2> QED BY <1>5, <1>6, <1>7, <2>1 DEF AloneFits, Script
<1>11. core' \in Words
  BY <1>1, <1>7 DEF CardTypes
<1> QED BY <1>1, <1>4, <1>5, <1>0, <1>6, <1>7, <1>8, <1>9, <1>10, <1>11, ServedStep

\* A reload's prefixes are words: only the settings card reloads.
LEMMA ReloadWords ==
    ASSUME CardTypes, NEW n \in CardActions, UnderWay(n), Request(n) = "reload"
    PROVE  CardValues = Words /\ stored.value \in Words /\ acts[n].snap.value \in Words
<1>1. acts[n].kind \in {"saveReload", "reload"}
  BY ActFacts, ScriptFacts DEF Request
<1>2. card # "announcements"
  BY <1>1, ActFacts DEF CardKinds
<1>3. CardValues = Words /\ stored \in CardSnaps /\ acts[n].snap \in CardSnaps
  BY <1>2, ActFacts DEF CardValues, CardTypes, CardActs
<1> QED BY <1>3 DEF CardSnaps

\* The reload reads the stored prefix.
LEMMA ReloadReadsStep ==
    ASSUME CardInv, NEW n \in CardActions, ReloadReads(n)
    PROVE  CardInv'
<1>1. CardTypes /\ UnderWay(n) /\ Request(n) = "reload"
  BY DEF CardInv, ReloadReads
<1>2. acts[n] \in CardActs /\ ActFits(acts[n]) /\ stored \in CardSnaps /\ Numbered(stored)
  BY <1>1, ActFacts DEF CardTypes
<1>3. PICK x : x = stored
  OBVIOUS
<1>4. PICK a : a = [acts[n] EXCEPT !.res = "read", !.snap = x] /\ acts' = [acts EXCEPT ![n] = a]
  BY <1>3 DEF ReloadReads
<1>5. /\ a \in CardActs /\ a.res = "read" /\ a.snap = x
      /\ a.kind = acts[n].kind /\ a.step = acts[n].step /\ a.arg = acts[n].arg
  <2>1. PICK half : half = [acts[n] EXCEPT !.res = "read"]
    OBVIOUS
  <2>2. /\ half \in CardActs /\ half.res = "read"
        /\ half.kind = acts[n].kind /\ half.step = acts[n].step /\ half.arg = acts[n].arg
    BY <1>2, <2>1, ActWithRes DEF CardResults
  <2>3. a = [half EXCEPT !.snap = x] /\ x \in CardSnaps
    BY <1>2, <1>3, <1>4, <2>1
  <2> QED BY <2>2, <2>3, ActWithSnap
<1>6. UNCHANGED <<card, stored, core, shown, draft, load, saveState, writes, memo>>
  BY DEF ReloadReads
<1>7. CardSnaps' = CardSnaps /\ CardActs' = CardActs
  BY <1>6 DEF CardActs, CardSnaps, CardValues
<1>8. ActFits(a)'
  <2>1. Numbered(a.snap)'
    BY <1>2, <1>3, <1>5, <1>6 DEF Numbered
  <2>2. Script(a.kind)[a.step] = "reload" /\ a.kind # "none"
    BY <1>1, <1>5 DEF Request, UnderWay
  <2> QED BY <1>2, <1>5, <1>7, <2>1, <2>2 DEF ActFits, Script
<1>9. AloneFits(a)'
  BY <1>3, <1>5, <1>6 DEF AloneFits
<1>10. /\ core' \in Words /\ stored' \in CardSnaps /\ Numbered(stored)' /\ stored'.next >= stored.next
  BY <1>1, <1>2, <1>6 DEF CardTypes, Numbered, CardSnaps
<1> QED BY <1>1, <1>4, <1>5, <1>6, <1>8, <1>9, <1>10, ServedStep

\* game-core takes the prefix that was read.
LEMMA ReloadPushesStep ==
    ASSUME CardInv, NEW n \in CardActions, ReloadPushes(n)
    PROVE  CardInv'
<1>1. CardTypes /\ UnderWay(n) /\ acts[n].res = "read"
  BY DEF CardInv, ReloadPushes
<1>2. /\ acts[n] \in CardActs /\ ActFits(acts[n]) /\ stored \in CardSnaps /\ Numbered(stored)
      /\ Request(n) = "reload"
  BY <1>1, ActFacts DEF CardTypes, ActFits, Request
<1>3. PICK a : a = [acts[n] EXCEPT !.res = "pushed"] /\ acts' = [acts EXCEPT ![n] = a]
  BY DEF ReloadPushes
<1>4. /\ a \in CardActs /\ a.res = "pushed" /\ a.snap = acts[n].snap
      /\ a.kind = acts[n].kind /\ a.step = acts[n].step /\ a.arg = acts[n].arg
  BY <1>2, <1>3, ActWithRes DEF CardResults
<1>5. /\ UNCHANGED <<card, stored, shown, draft, load, saveState, writes, memo>>
      /\ core' = acts[n].snap.value
  BY DEF ReloadPushes
<1>6. CardSnaps' = CardSnaps /\ CardActs' = CardActs
  BY <1>5 DEF CardActs, CardSnaps, CardValues
<1>7. ActFits(a)'
  <2>1. Numbered(a.snap)'
    BY <1>2, <1>4, <1>5 DEF ActFits, Numbered
  <2>2. Script(a.kind)[a.step] = "reload" /\ a.kind # "none"
    BY <1>1, <1>2, <1>4 DEF Request, UnderWay
  <2> QED BY <1>2, <1>4, <1>6, <2>1, <2>2 DEF ActFits, Script
<1>8. n \notin memo.crossed => AloneFits(a)'
  <2>1. n \notin memo.crossed => acts[n].snap.value = stored.value
    BY <1>1 DEF CardInv, AloneInv, AloneFits
  <2> QED BY <1>4, <1>5, <2>1 DEF AloneFits
<1>9. core' \in Words
  BY <1>1, <1>2, <1>5, ReloadWords
<1>10. stored' \in CardSnaps /\ Numbered(stored)' /\ stored'.next >= stored.next
  BY <1>2, <1>5 DEF Numbered, CardSnaps
<1> QED BY <1>1, <1>3, <1>4, <1>5, <1>7, <1>8, <1>9, <1>10, ServedStep

\* The prefix is recorded as active.
LEMMA ReloadRecordsStep ==
    ASSUME CardInv, NEW n \in CardActions, ReloadRecords(n)
    PROVE  CardInv'
<1>1. CardTypes /\ UnderWay(n) /\ acts[n].res = "pushed"
  BY DEF CardInv, ReloadRecords
<1>2. /\ acts[n] \in CardActs /\ ActFits(acts[n]) /\ stored \in CardSnaps /\ Numbered(stored)
      /\ Request(n) = "reload" /\ stored.next \in Nat
  BY <1>1, ActFacts DEF CardTypes, ActFits, Request, CardSnaps
<1>3. PICK new, w : w = acts[n].snap.value /\ new = [stored EXCEPT !.active = w]
  OBVIOUS
<1>4. w \in Words
  BY <1>1, <1>2, <1>3, ReloadWords
<1>5. new \in CardSnaps /\ new.value = stored.value /\ new.next = stored.next
  BY <1>2, <1>3, <1>4, SnapWithActive
<1>6. /\ stored' = new
      /\ UNCHANGED <<card, core, shown, draft, load, saveState, writes, memo>>
  BY <1>3 DEF ReloadRecords
<1>7. PICK res \in {"ok", "failed"} :
        \E a : a = [acts[n] EXCEPT !.res = res, !.snap = new] /\ acts' = [acts EXCEPT ![n] = a]
  <2>1. PICK res \in {"ok", "failed"} :
          acts' = [acts EXCEPT ![n].res = res, ![n].snap = stored']
    BY DEF ReloadRecords
  <2>2. acts \in [CardActions -> CardActs] /\ stored' = new
    BY <1>1, <1>6 DEF CardTypes
  <2>3. acts' = [acts EXCEPT ![n] = [acts[n] EXCEPT !.res = res, !.snap = new]]
    BY <2>1, <2>2
  <2> QED BY <2>3
<1>0. PICK a : a = [acts[n] EXCEPT !.res = res, !.snap = new] /\ acts' = [acts EXCEPT ![n] = a]
  BY <1>7
<1>8. /\ a \in CardActs /\ a.res = res /\ a.snap = new
      /\ a.kind = acts[n].kind /\ a.step = acts[n].step /\ a.arg = acts[n].arg
  <2>1. PICK half : half = [acts[n] EXCEPT !.res = res]
    OBVIOUS
  <2>2. /\ half \in CardActs /\ half.res = res
        /\ half.kind = acts[n].kind /\ half.step = acts[n].step /\ half.arg = acts[n].arg
    BY <1>2, <2>1, ActWithRes DEF CardResults
  <2>3. a = [half EXCEPT !.snap = new]
    BY <1>0, <2>1
  <2> QED BY <1>5, <2>2, <2>3, ActWithSnap
<1>9. /\ stored' \in CardSnaps /\ Numbered(stored)' /\ stored'.next >= stored.next
      /\ CardSnaps' = CardSnaps /\ CardActs' = CardActs
  BY <1>2, <1>5, <1>6 DEF Numbered, CardActs, CardSnaps, CardValues
<1>10. ActFits(a)'
  <2>1. Numbered(a.snap)'
    BY <1>6, <1>8, <1>9 DEF Numbered
  <2> QED BY <1>2, <1>7, <1>8, <1>9, <2>1 DEF ActFits, Script
<1>11. n \notin memo.crossed => AloneFits(a)'
  <2>1. n \notin memo.crossed => core = stored.value
    BY <1>1 DEF CardInv, AloneInv, AloneFits
  <2> QED BY <1>5, <1>6, <1>7, <1>8, <2>1 DEF AloneFits
<1>12. core' \in Words
  BY <1>1, <1>6 DEF CardTypes
<1> QED BY <1>1, <1>6, <1>0, <1>8, <1>9, <1>10, <1>11, <1>12, ServedStep

\* A request fails.
LEMMA RequestFailsStep ==
    ASSUME CardInv, NEW n \in CardActions, RequestFails(n)
    PROVE  CardInv'
<1>1. CardTypes /\ UnderWay(n)
  BY DEF CardInv, RequestFails
<1>2. acts[n] \in CardActs /\ ActFits(acts[n]) /\ stored \in CardSnaps /\ Numbered(stored)
  BY <1>1, ActFacts DEF CardTypes
<1>3. PICK a : a = [acts[n] EXCEPT !.res = "failed"] /\ acts' = [acts EXCEPT ![n] = a]
  BY DEF RequestFails
<1>4. /\ a \in CardActs /\ a.res = "failed" /\ a.snap = acts[n].snap
      /\ a.kind = acts[n].kind /\ a.step = acts[n].step /\ a.arg = acts[n].arg
  BY <1>2, <1>3, ActWithRes DEF CardResults
<1>5. UNCHANGED <<card, stored, core, shown, draft, load, saveState, writes, memo>>
  BY DEF RequestFails
<1>6. CardSnaps' = CardSnaps /\ CardActs' = CardActs
  BY <1>5 DEF CardActs, CardSnaps, CardValues
<1>7. ActFits(a)'
  <2>1. Numbered(a.snap)'
    BY <1>2, <1>4, <1>5 DEF ActFits, Numbered
  <2> QED BY <1>2, <1>4, <1>6, <2>1 DEF ActFits, Script
<1>8. AloneFits(a)'
  BY <1>4 DEF AloneFits
<1>9. /\ core' \in Words /\ stored' \in CardSnaps /\ Numbered(stored)' /\ stored'.next >= stored.next
  BY <1>1, <1>2, <1>5 DEF CardTypes, Numbered, CardSnaps
<1> QED BY <1>1, <1>3, <1>4, <1>5, <1>7, <1>8, <1>9, ServedStep

\* Beginning an action: it is alone, or it and the ones under way have met.
LEMMA CardBeginStep ==
    ASSUME CardInv, NEW kind \in CardKinds(card), NEW arg \in Typed \union Nat,
           BeginWrite(kind, arg),
           kind \in {"freeze", "save", "saveReload"} => arg \in Typed,
           kind = "remove" => arg \in Nat
    PROVE  CardInv'
<1>1. CardTypes /\ stored \in CardSnaps /\ Numbered(stored) /\ writes \in CardActions /\ ~Busy
  BY CardAssumption DEF CardInv, CardTypes, BeginWrite, CardActions
<1>2. PICK x, n : x = stored /\ n = writes
  OBVIOUS
<1>3. PICK a : /\ a = [kind |-> kind, step |-> 1, arg |-> arg, res |-> "none", snap |-> x]
               /\ acts' = [acts EXCEPT ![n] = a]
  BY <1>2 DEF BeginWrite
<1>4. /\ a.kind = kind /\ a.step = 1 /\ a.arg = arg /\ a.res = "none" /\ a.snap = stored
      /\ a \in CardActs /\ n \in CardActions
  BY <1>1, <1>2, <1>3 DEF CardActs, CardResults
<1>5. /\ saveState' = "busy" /\ writes' \in 0..MaxWrites
      /\ UNCHANGED <<card, stored, core, shown, draft, load>>
  BY <1>1, CardAssumption DEF BeginWrite, CardActions
<1>6. CardSnaps' = CardSnaps /\ CardActs' = CardActs
  BY <1>5 DEF CardActs, CardSnaps, CardValues
<1>7. kind # "none" /\ 1 \in 1..Len(Script(kind))
  BY DEF CardKinds, Script
<1>8. ActFits(a)'
  <2>1. Numbered(a.snap)'
    BY <1>1, <1>4, <1>5 DEF Numbered
  <2> QED BY <1>4, <1>6, <1>7, <2>1 DEF ActFits, Script
<1>9. /\ acts' \in [CardActions -> CardActs'] /\ acts'[n] = a
      /\ \A m \in CardActions \ {n} : acts'[m] = acts[m]
      /\ \A m \in CardActions : ActFits(acts[m])'
  <2>1. stored' \in CardSnaps /\ stored'.next >= stored.next
    BY <1>1, <1>5 DEF CardSnaps
  <2> QED BY <1>1, <1>3, <1>4, <1>5, <1>8, <2>1, OneAct
<1> DEFINE others == {m \in CardActions : UnderWay(m)}
           met == IF others = {} THEN memo.crossed ELSE memo.crossed \union others \union {n}
<1>10. /\ memo' \in Memos /\ memo'.crossed = met
       /\ memo'.overtaken = memo.overtaken /\ memo'.unread = memo.unread /\ memo'.noted = memo.noted
  <2>1. memo' = [memo EXCEPT !.crossed = met]
    BY <1>2 DEF BeginWrite
  <2>2. memo \in Memos /\ met \in SUBSET CardActions
    BY <1>1, <1>4 DEF CardTypes, Memos
  <2> HIDE DEF met
  <2> QED BY <2>1, <2>2 DEF Memos
<1>11. /\ \A m \in CardActions \ {n} : UnderWay(m)' <=> m \in others
       /\ \A m \in CardActions : UnderWay(m) <=> m \in others
       /\ UnderWay(n)'
  BY <1>4, <1>7, <1>9 DEF UnderWay
<1> HIDE DEF others
<1>12. CardTypes'
  <2>1. Numbered(stored)' /\ Numbered(shown.snap)' /\ Numbered(load.snap)'
    BY <1>1, <1>5 DEF CardTypes, Numbered
  <2> QED BY <1>1, <1>5, <1>6, <1>9, <1>10, <2>1 DEF CardTypes
<1>13. AloneInv'
  <2> SUFFICES ASSUME NEW m \in CardActions, UnderWay(m)', m \notin met
               PROVE  /\ \A q \in CardActions : UnderWay(q)' => q = m
                      /\ AloneFits(acts[m])'
    BY <1>10 DEF AloneInv
  <2>1. others = {}
    BY <1>11
  <2>2. m = n /\ \A q \in CardActions : UnderWay(q)' => q = m
    BY <1>4, <1>11, <2>1
  <2>3. AloneFits(acts[m])'
    BY <1>4, <1>9, <2>2 DEF AloneFits
  <2> QED BY <2>2, <2>3
<1>14. NoteInv' /\ IdleInv' /\ ReloadedPrefixIsActive'
  BY <1>5 DEF NoteInv, IdleInv, ReloadedPrefixIsActive, Busy
<1>15. CardShowsStored'
  BY <1>4, <1>11 DEF CardShowsStored
<1>16. FewActions'
  <2>1. MountLost' = MountLost
    BY <1>5 DEF MountLost
  <2>2. /\ ~MountLost => others = {}
        /\ \A i, j \in others : i = j
    BY <1>1, <1>11 DEF CardInv, IdleInv, others
  <2> QED BY <1>11, <2>1, <2>2 DEF FewActions
<1> QED BY <1>12, <1>13, <1>14, <1>15, <1>16 DEF CardInv, CardIsTrue

\* The invariants speak of the actions under way, the state and the memo only.
LEMMA ActsAlone ==
    ASSUME CardInv, UNCHANGED <<card, stored, core, acts, saveState>>,
           load'.step = "lost" <=> load.step = "lost",
           memo'.crossed = memo.crossed, memo'.noted = memo.noted
    PROVE  AloneInv' /\ NoteInv' /\ IdleInv' /\ FewActions'
  BY DEF CardInv, CardIsTrue, AloneInv, NoteInv, IdleInv, FewActions, UnderWay, AloneFits, Busy,
         MountLost, Script

\* The types of what a step of the client leaves alone.
LEMMA FrameTypes ==
    ASSUME CardTypes, UNCHANGED <<card, stored, core>>
    PROVE  /\ CardSnaps' = CardSnaps /\ CardActs' = CardActs
           /\ card' \in {"none", "freeze", "settings", "announcements"}
           /\ stored' \in CardSnaps' /\ Numbered(stored)' /\ core' \in Words
           /\ \A x \in CardSnaps : Numbered(x) => Numbered(x)'
           /\ acts' = acts => (/\ acts' \in [CardActions -> CardActs']
                               /\ \A n \in CardActions : ActFits(acts[n])')
<1>1. CardSnaps' = CardSnaps /\ CardActs' = CardActs
  BY DEF CardActs, CardSnaps, CardValues
<1>2. \A x \in CardSnaps : Numbered(x) => Numbered(x)'
  BY DEF Numbered
<1>3. stored \in CardSnaps /\ stored' \in CardSnaps' /\ Numbered(stored)' /\ core' \in Words
  BY <1>1 DEF CardTypes, Numbered
<1>4. ASSUME acts' = acts
      PROVE  acts' \in [CardActions -> CardActs'] /\ \A n \in CardActions : ActFits(acts[n])'
  BY <1>1, <1>4 DEF CardTypes, ActFits, Numbered, Script
<1> QED BY <1>1, <1>2, <1>3, <1>4 DEF CardTypes

\* The mount's read and typing.
LEMMA MountSteps ==
    ASSUME CardInv, LoadServed \/ LoadAnswers \/ LoadFails \/ Type
    PROVE  CardInv'
<1> USE DEF CardInv
<1>0. CardTypes /\ memo \in Memos /\ load.snap \in CardSnaps /\ stored \in CardSnaps
  BY DEF CardTypes
<1>1. CASE LoadServed
  <2>1. /\ load.step = "asked" /\ load'.step \in {"read", "failed"} /\ load'.snap = stored
        /\ load' \in [step : {"read", "failed"}, snap : {stored}]
        /\ UNCHANGED <<card, stored, core, shown, draft, acts, saveState, writes, memo>>
    BY <1>1 DEF LoadServed
  <2>2. CardTypes'
    BY <1>0, <2>1, FrameTypes DEF CardTypes, LoadSteps
  <2>3. CardShowsStored' /\ ReloadedPrefixIsActive'
    BY <2>1 DEF CardIsTrue, CardShowsStored, ReloadedPrefixIsActive
  <2>4. AloneInv' /\ NoteInv' /\ IdleInv' /\ FewActions'
    BY <2>1, ActsAlone
  <2> QED BY <2>2, <2>3, <2>4 DEF CardIsTrue
<1>2. CASE LoadAnswers
  <2>1. /\ load.step = "read" /\ shown' = [loaded |-> TRUE, snap |-> load.snap]
        /\ load' = [step |-> "done", snap |-> load.snap]
        /\ memo' = [memo EXCEPT !.overtaken = @ \/ load.snap # stored]
        /\ UNCHANGED <<card, stored, core, acts, saveState, writes>>
    BY <1>2 DEF LoadAnswers
  <2>2. draft' = IF card = "settings" THEN load.snap.value ELSE draft
    BY <1>2 DEF LoadAnswers
  <2>3. draft' \in Words
    BY <2>2 DEF CardTypes, CardSnaps, CardValues
  <2>4. /\ memo' \in Memos /\ memo'.unread = memo.unread
        /\ memo'.crossed = memo.crossed /\ memo'.noted = memo.noted
        /\ memo'.overtaken = (memo.overtaken \/ load.snap # stored)
    BY <1>0, <2>1 DEF Memos
  <2>5. shown'.snap = load.snap /\ shown' \in [loaded : BOOLEAN, snap : {load.snap}]
    BY <2>1
  <2>6. /\ load'.snap = load.snap /\ load'.step = "done"
        /\ load' \in [step : {"done"}, snap : {load.snap}]
    BY <2>1
  <2>7. CardTypes'
    BY <1>0, <2>1, <2>3, <2>4, <2>5, <2>6, FrameTypes DEF CardTypes, LoadSteps
  <2>8. CardShowsStored' /\ ReloadedPrefixIsActive'
    BY <2>1, <2>4, <2>5 DEF CardIsTrue, CardShowsStored, ReloadedPrefixIsActive
  <2>9. AloneInv' /\ NoteInv' /\ IdleInv' /\ FewActions'
    BY <2>1, <2>4, <2>6, ActsAlone
  <2> QED BY <2>7, <2>8, <2>9 DEF CardIsTrue
<1>3. CASE LoadFails
  <2>1. /\ load.step = "failed" /\ load' = [step |-> "lost", snap |-> load.snap]
        /\ saveState' = IF card = "settings" THEN "error" ELSE saveState
        /\ memo' = [memo EXCEPT !.unread = TRUE]
        /\ UNCHANGED <<card, stored, core, shown, draft, acts, writes>>
    BY <1>3 DEF LoadFails
  <2>2. /\ memo' \in Memos /\ memo'.unread /\ memo'.overtaken = memo.overtaken
        /\ memo'.crossed = memo.crossed /\ memo'.noted = memo.noted
    BY <1>0, <2>1 DEF Memos
  <2>3. /\ load'.snap = load.snap /\ load'.step = "lost"
        /\ load' \in [step : {"lost"}, snap : {load.snap}]
    BY <2>1
  <2>4. saveState' \in CardKinds(card) \union {"idle", "busy", "error"}
    BY <2>1 DEF CardTypes
  <2>5. CardTypes'
    BY <1>0, <2>1, <2>2, <2>3, <2>4, FrameTypes DEF CardTypes, LoadSteps
  <2>6. CardShowsStored' /\ ReloadedPrefixIsActive'
    BY <2>1, <2>2 DEF CardIsTrue, CardShowsStored, ReloadedPrefixIsActive
  <2>7. /\ \A n \in CardActions : UnderWay(n)' <=> UnderWay(n)
        /\ ~MountLost
        /\ \A i, j \in CardActions : (UnderWay(i) /\ UnderWay(j)) => i = j
    BY <2>1 DEF UnderWay, MountLost, CardIsTrue, FewActions
  <2>8. AloneInv' /\ NoteInv'
    BY <2>1, <2>2, <2>7 DEF AloneInv, NoteInv, AloneFits, Script
  <2>9. IdleInv'
    <3>1. CASE card = "settings"
      BY <2>1, <2>3, <2>7, <3>1 DEF IdleInv, MountLost
    <3>2. CASE card # "settings"
      BY <2>1, <2>7, <3>2 DEF IdleInv, Busy, MountLost
    <3> QED BY <3>1, <3>2
  <2>10. FewActions'
    BY <2>7 DEF FewActions
  <2> QED BY <2>5, <2>6, <2>8, <2>9, <2>10 DEF CardIsTrue
<1>4. CASE Type
  <2>1. draft' \in Words /\ UNCHANGED <<card, stored, core, shown, load, acts, saveState, writes, memo>>
    BY <1>4 DEF Type, Words
  <2>2. CardTypes'
    BY <1>0, <2>1, FrameTypes DEF CardTypes
  <2>3. CardShowsStored' /\ ReloadedPrefixIsActive'
    BY <2>1 DEF CardIsTrue, CardShowsStored, ReloadedPrefixIsActive, UnderWay
  <2>4. AloneInv' /\ NoteInv' /\ IdleInv' /\ FewActions'
    BY <2>1, ActsAlone
  <2> QED BY <2>2, <2>3, <2>4 DEF CardIsTrue
<1> QED BY <1>1, <1>2, <1>3, <1>4

\* Each button of a card begins one of the card's actions.
LEMMA ClickSteps ==
    ASSUME CardInv,
           \/ ApplyFreeze \/ ClearFreeze \/ OnSave \/ OnSaveAndReload \/ OnReloadOnly
           \/ CreateAnnouncement \/ RemoveAnnouncement
    PROVE  CardInv'
<1>1. CardTypes /\ draft \in Words /\ shown.snap \in CardSnaps
  BY DEF CardInv, CardTypes
<1>2. draft # "" => draft \in Typed
  BY <1>1, Zenon DEF Words
<1>0. 0 \in Typed \union Nat
  OBVIOUS
<1>3. CASE ApplyFreeze
  <2>1. "freeze" \in CardKinds(card) /\ draft \in Typed /\ BeginWrite("freeze", draft)
    BY <1>2, <1>3 DEF ApplyFreeze, CardKinds
  <2>2. PICK arg : arg = draft
    OBVIOUS
  <2> QED BY <2>1, <2>2, CardBeginStep
<1>4. CASE ClearFreeze
  <2>1. "unfreeze" \in CardKinds(card) /\ BeginWrite("unfreeze", 0)
    BY <1>4 DEF ClearFreeze, CardKinds
  <2> QED BY <1>0, <2>1, CardBeginStep
<1>5. CASE OnSave
  <2>1. "save" \in CardKinds(card) /\ draft \in Typed /\ BeginWrite("save", draft)
    BY <1>2, <1>5 DEF OnSave, Dirty, CardKinds
  <2>2. PICK arg : arg = draft
    OBVIOUS
  <2> QED BY <2>1, <2>2, CardBeginStep
<1>6. CASE OnSaveAndReload
  <2>1. "saveReload" \in CardKinds(card) /\ draft \in Typed /\ BeginWrite("saveReload", draft)
    BY <1>2, <1>6 DEF OnSaveAndReload, Dirty, CardKinds
  <2>2. PICK arg : arg = draft
    OBVIOUS
  <2> QED BY <2>1, <2>2, CardBeginStep
<1>7. CASE OnReloadOnly
  <2>1. "reload" \in CardKinds(card) /\ BeginWrite("reload", 0)
    BY <1>7 DEF OnReloadOnly, CardKinds
  <2> QED BY <1>0, <2>1, CardBeginStep
<1>8. CASE CreateAnnouncement
  <2>1. "publish" \in CardKinds(card) /\ BeginWrite("publish", 0)
    BY <1>8 DEF CreateAnnouncement, CardKinds
  <2> QED BY <1>0, <2>1, CardBeginStep
<1>9. CASE RemoveAnnouncement
  <2>1. PICK id \in shown.snap.value : BeginWrite("remove", id)
    BY <1>9 DEF RemoveAnnouncement
  <2>2. "remove" \in CardKinds(card) /\ id \in Nat
    BY <1>1, <1>9 DEF RemoveAnnouncement, CardKinds, CardSnaps, CardValues
  <2> QED BY <2>1, <2>2, CardBeginStep
<1> QED BY <1>3, <1>4, <1>5, <1>6, <1>7, <1>8, <1>9

\* An answer that is taken over leaves a copy of the card's kind, and a draft.
LEMMA AnswerTypes ==
    ASSUME CardTypes, NEW n \in CardActions, UnderWay(n), UNCHANGED <<card, stored, core>>,
           shown' = IF Shows(Request(n)) THEN [loaded |-> TRUE, snap |-> acts[n].snap] ELSE shown,
           draft' = DraftAfter(Request(n))
    PROVE  /\ shown' \in [loaded : BOOLEAN, snap : CardSnaps'] /\ Numbered(shown.snap)'
           /\ draft' \in Words
<1>1. acts[n].snap \in CardSnaps /\ Numbered(acts[n].snap)
  BY ActFacts DEF ActFits, CardActs
<1>2. shown \in [loaded : BOOLEAN, snap : CardSnaps] /\ Numbered(shown.snap) /\ draft \in Words
  BY DEF CardTypes
<1>3. CardSnaps' = CardSnaps /\ \A x \in CardSnaps : Numbered(x) => Numbered(x)'
  BY FrameTypes
<1>4. PICK x : x = acts[n].snap
  OBVIOUS
<1>5. shown' \in [loaded : BOOLEAN, snap : CardSnaps]
  BY <1>1, <1>2
<1>6. shown'.snap = acts[n].snap \/ shown'.snap = shown.snap
  OBVIOUS
<1>7. shown'.snap \in CardSnaps /\ Numbered(shown'.snap)
  BY <1>1, <1>2, <1>6
<1>8. Numbered(shown.snap)'
  BY <1>3, <1>7 DEF Numbered
<1>9. draft' \in Words
  <2>1. "" \in Words
    BY Zenon DEF Words
  <2>2. draft' = "" \/ draft' = draft
    BY Zenon DEF DraftAfter
  <2> QED BY <1>2, <2>1, <2>2, Zenon
<1> QED BY <1>3, <1>5, <1>8, <1>9

\* The next request of an action.
LEMMA NextRequestStep ==
    ASSUME CardInv, NEW n \in CardActions, NextRequest(n)
    PROVE  CardInv'
<1>1. CardTypes /\ UnderWay(n) /\ acts[n].step < Len(Script(acts[n].kind))
  BY DEF CardInv, NextRequest
<1>2. /\ acts[n] \in CardActs /\ ActFits(acts[n]) /\ acts[n].step \in Nat
      /\ acts[n].kind \in CardKinds("freeze") \union CardKinds("settings")
                            \union CardKinds("announcements")
      /\ acts[n].step \in 1..Len(Script(acts[n].kind))
  BY <1>1, ActFacts
<1>3. PICK k, half, a : /\ k = acts[n].step + 1 /\ half = [acts[n] EXCEPT !.step = k]
                        /\ a = [half EXCEPT !.res = "none"]
  OBVIOUS
<1>4. acts' = [acts EXCEPT ![n] = a]
  BY <1>1, <1>3 DEF NextRequest, CardTypes
<1>5. /\ half \in CardActs /\ half.step = k /\ half.kind = acts[n].kind
      /\ half.arg = acts[n].arg /\ half.snap = acts[n].snap /\ k \in Nat
  <2>1. k \in Nat
    BY <1>2, <1>3
  <2> QED BY <1>2, <1>3, <2>1, ActWithStep
<1>6. /\ a \in CardActs /\ a.step = k /\ a.kind = acts[n].kind /\ a.res = "none"
      /\ a.arg = acts[n].arg /\ a.snap = acts[n].snap
  <2>1. PICK r \in CardResults : r = "none"
    BY DEF CardResults
  <2>2. a = [half EXCEPT !.res = r]
    BY <1>3, <2>1
  <2>3. /\ a \in CardActs /\ a.step = half.step /\ a.kind = half.kind /\ a.res = r
        /\ a.arg = half.arg /\ a.snap = half.snap
    BY <1>5, <2>2, ActWithRes
  <2> QED BY ONLY <1>5, <2>1, <2>3
<1>7. ActFits(a)
  <2>1. k \in 1..Len(Script(acts[n].kind))
    <3>1. Len(Script(acts[n].kind)) \in 1..2
      BY <1>2, ScriptFacts
    <3> QED BY <1>1, <1>2, <1>3, <3>1
  <2> QED BY <1>2, <1>6, <2>1 DEF ActFits
<1>8. /\ saveState' = "busy"
      /\ UNCHANGED <<card, stored, core, load, writes, memo>>
      /\ shown' = (IF Shows(Request(n)) THEN [loaded |-> TRUE, snap |-> acts[n].snap] ELSE shown)
      /\ draft' = DraftAfter(Request(n))
  BY DEF NextRequest
<1>9. stored \in CardSnaps /\ stored.next \in Nat
  BY <1>1 DEF CardTypes, CardSnaps
<1>10. ActFits(a)'
  BY <1>7, <1>8, <1>9, FitsKept
<1>11. /\ acts' \in [CardActions -> CardActs'] /\ acts'[n] = a
       /\ \A m \in CardActions \ {n} : acts'[m] = acts[m]
       /\ \A m \in CardActions : ActFits(acts[m])'
  <2>1. stored' \in CardSnaps /\ stored'.next >= stored.next
    BY <1>8, <1>9
  <2> QED BY <1>1, <1>4, <1>8, <1>10, <2>1, OneAct
<1>12. \A m \in CardActions : UnderWay(m)' <=> UnderWay(m)
  BY <1>6, <1>11 DEF UnderWay
<1>13. CardTypes'
  <2>1. /\ shown' \in [loaded : BOOLEAN, snap : CardSnaps'] /\ Numbered(shown.snap)'
        /\ draft' \in Words
    BY <1>1, <1>8, AnswerTypes
  <2>2. /\ load' \in [step : LoadSteps, snap : CardSnaps'] /\ Numbered(load.snap)'
        /\ stored' \in CardSnaps' /\ Numbered(stored)' /\ core' \in Words
    BY <1>1, <1>8, FrameTypes DEF CardTypes
  <2> QED BY <1>1, <1>8, <1>11, <2>1, <2>2 DEF CardTypes
<1>14. AloneInv'
  <2> SUFFICES ASSUME NEW m \in CardActions, UnderWay(m), m \notin memo.crossed
               PROVE  /\ \A q \in CardActions : UnderWay(q) => q = m
                      /\ AloneFits(acts[m])'
    BY <1>8, <1>12 DEF AloneInv
  <2>1. \A q \in CardActions : UnderWay(q) => q = m
    BY DEF CardInv, AloneInv
  <2>2. m = n
    BY <1>1, <2>1
  <2>3. acts'[m].res = "none"
    BY <1>6, <1>11, <2>2
  <2>4. AloneFits(acts[m])'
    BY <2>3 DEF AloneFits
  <2> QED BY <2>1, <2>4
<1>15. NoteInv' /\ IdleInv' /\ ReloadedPrefixIsActive'
  BY <1>8 DEF NoteInv, IdleInv, ReloadedPrefixIsActive, Busy
<1>16. CardShowsStored'
  BY <1>1, <1>12 DEF CardShowsStored
<1>17. FewActions'
  BY <1>8, <1>12 DEF CardInv, CardIsTrue, FewActions, MountLost
<1> QED BY <1>13, <1>14, <1>15, <1>16, <1>17 DEF CardInv, CardIsTrue

\* An action that ends leaves the others, and one at most.
LEMMA CardEndStep ==
    ASSUME CardInv, NEW n \in CardActions, UnderWay(n), acts' = [acts EXCEPT ![n] = IdleAct],
           UNCHANGED <<card, stored, core, load, writes>>,
           memo' \in Memos, memo'.crossed = memo.crossed,
           shown' \in [loaded : BOOLEAN, snap : CardSnaps'], Numbered(shown.snap)', draft' \in Words,
           saveState' \in CardKinds(card) \union {"idle", "busy", "error"}
    PROVE  /\ CardTypes' /\ AloneInv' /\ IdleInv' /\ FewActions'
           /\ ~UnderWay(n)' /\ \A m \in CardActions \ {n} : UnderWay(m)' <=> UnderWay(m)
<1>1. CardTypes /\ stored \in CardSnaps /\ stored.next \in Nat
  BY DEF CardInv, CardTypes, CardSnaps
<1>2. PICK a : a = IdleAct
  OBVIOUS
<1>3. ActFits(a) /\ a.kind = "none"
  BY <1>1, <1>2, IdleActFits
<1>4. ActFits(a)'
  BY <1>1, <1>3, FitsKept
<1>5. /\ acts' \in [CardActions -> CardActs'] /\ acts'[n] = a
      /\ \A m \in CardActions \ {n} : acts'[m] = acts[m]
      /\ \A m \in CardActions : ActFits(acts[m])'
  <2>1. stored' \in CardSnaps /\ stored'.next >= stored.next /\ acts' = [acts EXCEPT ![n] = a]
    BY <1>1, <1>2
  <2> QED BY <1>1, <1>4, <2>1, OneAct
<1>6. ~UnderWay(n)' /\ \A m \in CardActions \ {n} : UnderWay(m)' <=> UnderWay(m)
  BY <1>3, <1>5 DEF UnderWay
<1>7. CardTypes'
  <2>1. /\ load' \in [step : LoadSteps, snap : CardSnaps'] /\ Numbered(load.snap)'
        /\ stored' \in CardSnaps' /\ Numbered(stored)' /\ core' \in Words
    BY <1>1, FrameTypes DEF CardTypes
  <2> QED BY <1>1, <1>5, <2>1 DEF CardTypes
<1>8. AloneInv'
  <2> SUFFICES ASSUME NEW m \in CardActions, UnderWay(m)', m \notin memo.crossed
               PROVE  FALSE
    BY DEF AloneInv
  <2>1. m # n /\ UnderWay(m)
    BY <1>6
  <2> QED BY <2>1 DEF CardInv, AloneInv
<1>9. FewActions' /\ IdleInv'
  <2>1. MountLost' = MountLost
    BY DEF MountLost
  <2>2. ~MountLost => \A i, j \in CardActions : (UnderWay(i) /\ UnderWay(j)) => i = j
    BY DEF CardInv, CardIsTrue, FewActions
  <2>3. \A i, j \in CardActions : (UnderWay(i) /\ UnderWay(j) /\ i # n /\ j # n) => i = j
    BY DEF CardInv, CardIsTrue, FewActions
  <2>4. ~MountLost => \A m \in CardActions : ~UnderWay(m)'
    BY <1>6, <2>2
  <2>5. \A i, j \in CardActions : (UnderWay(i)' /\ UnderWay(j)') => i = j
    BY <1>6, <2>3
  <2>6. FewActions'
    BY <2>4, <2>5 DEF FewActions
  <2>7. IdleInv'
    BY <2>1, <2>4, <2>5 DEF IdleInv
  <2> QED BY <2>6, <2>7
<1> QED BY <1>6, <1>7, <1>8, <1>9

\* The last answer of an action: of one that is alone it is what is stored.
LEMMA ActionSucceedsStep ==
    ASSUME CardInv, NEW n \in CardActions, ActionSucceeds(n)
    PROVE  CardInv'
<1>1. /\ CardTypes /\ UnderWay(n) /\ acts[n].step = Len(Script(acts[n].kind))
      /\ acts[n].res = "ok" /\ memo \in Memos /\ n \in Nat
  BY CardAssumption DEF CardInv, CardTypes, ActionSucceeds, CardActions
<1>2. /\ UNCHANGED <<card, stored, core, load, writes>>
      /\ acts' = [acts EXCEPT ![n] = IdleAct]
      /\ saveState' = acts[n].kind
      /\ shown' = (IF Shows(Request(n)) THEN [loaded |-> TRUE, snap |-> acts[n].snap] ELSE shown)
      /\ draft' = DraftAfter(Request(n))
  BY DEF ActionSucceeds
<1>3. /\ memo' \in Memos /\ memo'.crossed = memo.crossed /\ memo'.noted = n
      /\ memo'.overtaken <=> n \in memo.crossed
  <2>1. memo' = [memo EXCEPT !.unread = FALSE, !.overtaken = n \in memo.crossed, !.noted = n]
    BY DEF ActionSucceeds
  <2>2. (n \in memo.crossed) \in BOOLEAN
    OBVIOUS
  <2>3. PICK b \in BOOLEAN : b = (n \in memo.crossed)
    BY <2>2
  <2>4. memo' = [memo EXCEPT !.unread = FALSE, !.overtaken = b, !.noted = n]
    BY <2>1, <2>3
  <2>5. memo' \in Memos /\ memo'.crossed = memo.crossed /\ memo'.noted = n /\ memo'.overtaken = b
    BY <1>1, <2>4 DEF Memos
  <2> QED BY <2>3, <2>5
<1>4. /\ acts[n].kind \in CardKinds(card)
      /\ acts[n].kind \in CardKinds("freeze") \union CardKinds("settings")
                            \union CardKinds("announcements")
      /\ acts[n].step \in 1..Len(Script(acts[n].kind))
  BY <1>1, ActFacts
<1>5. /\ Shows(Request(n))
      /\ acts[n].kind \in {"saveReload", "reload"} => Request(n) = "reload"
  BY <1>1, <1>4, ScriptFacts DEF Shows, Request
<1>6. /\ shown' \in [loaded : BOOLEAN, snap : CardSnaps'] /\ Numbered(shown.snap)'
      /\ draft' \in Words
  BY <1>1, <1>2, AnswerTypes
<1>7. saveState' \in CardKinds(card) \union {"idle", "busy", "error"}
  BY <1>2, <1>4
<1>8. /\ CardTypes' /\ AloneInv' /\ IdleInv' /\ FewActions'
      /\ ~UnderWay(n)' /\ \A m \in CardActions \ {n} : UnderWay(m)' <=> UnderWay(m)
  BY <1>1, <1>2, <1>3, <1>6, <1>7, CardEndStep
<1>9. n \notin memo.crossed =>
        /\ \A m \in CardActions : ~UnderWay(m)'
        /\ acts[n].snap = stored
        /\ Request(n) = "reload" => core = stored.value
  <2> SUFFICES ASSUME n \notin memo.crossed
               PROVE  /\ \A m \in CardActions : ~UnderWay(m)'
                      /\ acts[n].snap = stored
                      /\ Request(n) = "reload" => core = stored.value
    OBVIOUS
  <2>1. (\A m \in CardActions : UnderWay(m) => m = n) /\ AloneFits(acts[n])
    BY <1>1 DEF CardInv, AloneInv
  <2> QED BY <1>1, <1>8, <2>1 DEF AloneFits, Request
<1>10. shown'.snap = acts[n].snap
  BY <1>2, <1>5
<1>11. CardShowsStored'
  BY <1>2, <1>3, <1>9, <1>10 DEF CardShowsStored
<1>12. NoteInv'
  BY <1>3, <1>9 DEF NoteInv
<1>13. ReloadedPrefixIsActive'
  BY <1>2, <1>3, <1>5, <1>9, <1>10 DEF ReloadedPrefixIsActive
<1> QED BY <1>8, <1>11, <1>12, <1>13 DEF CardInv, CardIsTrue

\* The failure of an action.
LEMMA ActionFailsStep ==
    ASSUME CardInv, NEW n \in CardActions, ActionFails(n)
    PROVE  CardInv'
<1>1. CardTypes /\ UnderWay(n) /\ memo \in Memos
  BY DEF CardInv, CardTypes, ActionFails
<1>2. /\ UNCHANGED <<card, stored, core, shown, draft, load, writes>>
      /\ acts' = [acts EXCEPT ![n] = IdleAct] /\ saveState' = "error"
      /\ memo' = [memo EXCEPT !.unread = TRUE]
  BY DEF ActionFails
<1>3. memo' \in Memos /\ memo'.crossed = memo.crossed /\ memo'.unread
  BY <1>1, <1>2 DEF Memos
<1>4. /\ shown' \in [loaded : BOOLEAN, snap : CardSnaps'] /\ Numbered(shown.snap)'
      /\ draft' \in Words
  BY <1>1, <1>2, FrameTypes DEF CardTypes
<1>5. CardTypes' /\ AloneInv' /\ IdleInv' /\ FewActions'
  BY <1>1, <1>2, <1>3, <1>4, CardEndStep
<1>6. CardShowsStored'
  BY <1>3 DEF CardShowsStored
<1>7. NoteInv' /\ ReloadedPrefixIsActive'
  BY <1>2 DEF NoteInv, ReloadedPrefixIsActive
<1> QED BY <1>5, <1>6, <1>7 DEF CardInv, CardIsTrue

\* Steps of the other parts leave the card alone.
LEMMA CardUnchanged == ASSUME CardInv, UNCHANGED cardVars PROVE CardInv'
<1>1. /\ UNCHANGED <<card, stored, core, shown, draft, load, acts, saveState, writes, memo>>
      /\ CardTypes
  BY DEF cardVars, CardInv
<1>2. AloneInv' /\ NoteInv' /\ IdleInv' /\ FewActions'
  BY <1>1, ActsAlone
<1>3. CardTypes'
  BY <1>1, FrameTypes DEF CardTypes
<1>4. CardShowsStored' /\ ReloadedPrefixIsActive'
  BY <1>1 DEF CardInv, CardIsTrue, CardShowsStored, ReloadedPrefixIsActive, UnderWay
<1> QED BY <1>2, <1>3, <1>4 DEF CardInv, CardIsTrue

\* Every step of the pages preserves the invariant of the card.
LEMMA CardInside ==
    ASSUME CardInv, [Next]_<<consoleVars, cardVars, registryVars>>
    PROVE  CardInv'
<1>1. CardNext \/ UNCHANGED cardVars
  BY DEF Next
<1>2. CASE CardNext
  <2>1. \/ LoadServed \/ LoadAnswers \/ LoadFails \/ Type
        \/ ApplyFreeze \/ ClearFreeze \/ OnSave \/ OnSaveAndReload \/ OnReloadOnly
        \/ CreateAnnouncement \/ RemoveAnnouncement
        \/ \E n \in CardActions :
             \/ ServeWrite(n) \/ ReloadReads(n) \/ ReloadPushes(n) \/ ReloadRecords(n)
             \/ RequestFails(n) \/ NextRequest(n) \/ ActionSucceeds(n) \/ ActionFails(n)
    BY <1>2 DEF CardNext
  <2> QED BY <2>1, MountSteps, ClickSteps, ServeWriteStep, ReloadReadsStep, ReloadPushesStep,
             ReloadRecordsStep, RequestFailsStep, NextRequestStep, ActionSucceedsStep,
             ActionFailsStep
<1>3. CASE UNCHANGED cardVars
  BY <1>3, CardUnchanged
<1> QED BY <1>1, <1>2, <1>3

\* The cards' inductive invariant: an answer on its way to a card whose action is
\* alone is what is stored, the buttons are enabled beside an action only after the
\* mount's read failed, and then beside one.
THEOREM CardInvHolds == Spec => []CardInv
<1>1. Init => CardInv
  BY CardInit DEF Init
<1>2. CardInv /\ [Next]_<<consoleVars, cardVars, registryVars>> => CardInv'
  BY CardInside
<1> QED BY <1>1, <1>2, PTL DEF Spec

\* A card at rest shows what is stored, a prefix reported as reloaded is the one
\* game-core issues flags with, and two actions of a card are under way only after
\* its mount read failed, never three (the cards' handlers, saveState of the
\* settings card, handleAdminReloadFlagFormat).  The first two are claimed of an
\* action that met no other and of a read that no write overtook.
THEOREM CardsAreTrue == Spec => []CardIsTrue
  BY CardInvHolds, PTL DEF CardInv

-----------------------------------------------------------------------------
(* The runtime console.                                                    *)

AnyState == {"good", "degraded", "bad", "unloaded", "active", "revoked"}
Gots == [res : {"none", "ok", "failed"}, state : AnyState, ver : Int]
OpShapes(arg) == [kind : Kinds \union {"none"}, arg : {arg}, step : {"none", "asked", "waiting"}, got : Gots]
Peer == [ver : Int, status : {"active", "revoked"}]
Evidence == [floor : [Reports -> Int], read : SUBSET Reports, missing : SUBSET Reports,
             ver : [Reports -> Int]]

\* The kinds of actions a page offers.
PageKinds ==
    CASE page = "game"        -> {"operations", "metrics", "deployments", "health", "evidence"}
      [] page = "players"     -> {"gateway", "access", "reconcile", "teardown"} \union PeerKinds
      [] page = "deployments" -> TrustKinds
      [] OTHER                -> {}

HostTypes ==
    /\ host \in [Reports -> [state : AnyState, ver : Int]]
    /\ panel \in [Reports -> [state : AnyState, ver : Int]]
    /\ \A r \in Reports : host[r].state \in States(r) /\ panel[r].state \in States(r) \union {"unloaded"}

FetchTypes ==
    /\ fetches \subseteq [rep : changing, op : {0, 1, 2}, got : Gots]
    /\ \A f \in fetches : f.got.state \in States(f.rep) \union {"unloaded"}

\* An action under way is one of its page's, for a report or a player of its page,
\* and peers are asked for in one request.
OpWell(s) ==
    /\ ops[s] \in OpShapes(ops[s].arg)
    /\ ops[s].kind # "none" => ops[s].kind \in PageKinds
    /\ ops[s].kind = "none" => ops[s].step = "none"
    /\ ops[s].kind \in {"reconcile", "teardown"} =>
          /\ ops[s].arg \in changing
          /\ ops[s].got.state \in States(ops[s].arg) \union {"unloaded"}
          /\ ops[s].got.res = "ok" => ops[s].got.state \in States(ops[s].arg)
    /\ ops[s].kind \in PeerKinds =>
          /\ ops[s].arg \in Players /\ ops[s].step = "asked"
          /\ ops[s].got.res = "ok" => ops[s].got.state \in {"active", "revoked"}

Hists == [refreshed : BOOLEAN, spoiled : BOOLEAN, lost : BOOLEAN, disturbed : BOOLEAN, asked : {0, 1, 2}]

ConsoleTypes ==
    /\ page \in {"none", "game", "players", "deployments"}
    /\ changing \in SUBSET Reports /\ changing \subseteq ShownOn(page)
    /\ HostTypes
    /\ FetchTypes
    /\ ops \in [Slots -> {ops[s] : s \in Slots}] /\ \A s \in Slots : OpWell(s)
    /\ pending \in Kinds \union {"none"}
    /\ peers \in [Players -> Peer] /\ rows \in [Players -> Peer]
    /\ dialog \in [open : BOOLEAN, player : {0, 1, 2}, ver : Int, status : {"none", "active", "revoked"}]
    /\ dialog.open => dialog.player \in Players
    /\ evidence \in [Slots -> Evidence]
    /\ left \in [changes : Nat, actions : Nat]
    /\ hist \in Hists

\* A copy of a report is not newer than the report, and the same if it is as new.
CopyOf(x, r) == x.ver <= host[r].ver /\ (x.ver = host[r].ver => x.state = host[r].state)

\* Everything that was read, or is being read, is a copy; a read that an action
\* waits for is the only one of its report, and the action waits for it.
CopyInv ==
    /\ \A r \in Reports : CopyOf(panel[r], r)
    /\ \A r \in Reports : r \notin changing => (host[r].state = "good" /\ panel[r].ver = host[r].ver)
    /\ \A f \in fetches : f.got.res = "ok" => CopyOf(f.got, f.rep)
    /\ \A s \in Slots : (ops[s].kind \in {"reconcile", "teardown"} /\ ops[s].got.res = "ok")
                            => CopyOf(ops[s].got, ops[s].arg)

AwaitInv ==
    /\ \A f \in fetches : f.op # 0 => (ops[f.op].kind \notin {"none", "evidence"} /\ ops[f.op].step = "waiting")
    /\ \A f, g \in fetches : (f.op # 0 /\ f.op = g.op /\ f.rep = g.rep) => f = g

EvidenceInv ==
    \A s \in Slots : \A r \in Reports :
        /\ -1 <= host[r].ver /\ evidence[s].floor[r] <= host[r].ver
        /\ r \in evidence[s].read => evidence[s].ver[r] >= evidence[s].floor[r]

\* Actions that read every report of their page.
Refreshing(s) == ops[s].step = "waiting" /\ ops[s].kind \in {"health"} \union TrustKinds

UpToDate(r) == panel[r].ver = host[r].ver
OnItsWay(s, r) == \E f \in fetches : f.op = s /\ f.rep = r /\ f.got.res # "failed"

\* While nothing has spoiled it, no answer under way is stale, and the refresh that
\* began last has put every report on the page or is about to.
RefreshInv ==
    (page # "players" /\ ~hist.spoiled) =>
        /\ \A f \in fetches : f.got.res = "ok" => f.got.ver = host[f.rep].ver
        /\ hist.refreshed => \A r \in changing : UpToDate(r)
        /\ (\E s \in Slots : Refreshing(s)) =>
              \E s \in Slots : Refreshing(s) /\ \A r \in changing : UpToDate(r) \/ OnItsWay(s, r)

NeverRefreshed == page \notin {"game", "deployments"} => ~hist.refreshed

\* On the players page undisturbed actions come one after the other, none while the
\* dialog is open, and an answer about a peer is what the peer is.
PeerInv ==
    /\ page # "players" => (~dialog.open /\ rows = peers)
    /\ (page = "players" /\ ~hist.disturbed) =>
          /\ \A s, t \in InFlight : s = t
          /\ InFlight # {} => (pending # "none" /\ ~dialog.open)
          /\ dialog.open => /\ dialog.player = hist.asked
                            /\ peers[dialog.player] = [ver |-> dialog.ver, status |-> dialog.status]
          /\ \A s \in Slots : (ops[s].kind \in PeerKinds /\ ops[s].got.res = "ok") =>
                peers[ops[s].arg] = [ver |-> ops[s].got.ver, status |-> ops[s].got.state]
          /\ ~hist.lost => \A p \in Players :
                \/ rows[p] = peers[p]
                \/ \E s \in Slots : ops[s].kind \in PeerKinds /\ ops[s].got.res = "ok" /\ ops[s].arg = p

ConsoleInv ==
    ConsoleTypes /\ CopyInv /\ AwaitInv /\ EvidenceInv /\ RefreshInv /\ NeverRefreshed /\ PeerInv

\* What a page remembers when a refresh begins.
LEMMA RememberFacts ==
    ASSUME hist \in Hists
    PROVE  /\ Remember \in Hists /\ ~Remember.refreshed /\ Remember.spoiled = StaleUnderWay
           /\ Remember.lost = hist.lost /\ Remember.disturbed = hist.disturbed
           /\ Remember.asked = hist.asked
<1> DEFINE stale == StaleUnderWay
           half == [hist EXCEPT !.refreshed = FALSE]
<1>1. stale \in BOOLEAN
  BY DEF StaleUnderWay
<1>2. Remember = [half EXCEPT !.spoiled = stale]
  BY DEF Remember
<1>3. /\ half \in Hists /\ ~half.refreshed /\ half.lost = hist.lost
      /\ half.disturbed = hist.disturbed /\ half.asked = hist.asked
  BY DEF Hists
<1> HIDE DEF stale, half
<1>4. /\ Remember \in Hists /\ Remember.refreshed = half.refreshed /\ Remember.spoiled = stale
      /\ Remember.lost = half.lost /\ Remember.disturbed = half.disturbed /\ Remember.asked = half.asked
  BY <1>1, <1>2, <1>3 DEF Hists
<1> QED BY <1>3, <1>4 DEF stale

\* New fetches: one for each report that changes, not answered yet.
LEMMA FetchingFacts ==
    ASSUME NEW R \in SUBSET Reports, NEW s \in {0, 1, 2}
    PROVE  /\ \A f \in Fetching(R, s) :
                 /\ f.op = s /\ f.rep \in R /\ f.rep \in changing
                 /\ f.got = Nothing /\ f.got.res = "none" /\ f.got.state = "unloaded"
                 /\ f \in [rep : changing, op : {0, 1, 2}, got : Gots]
           /\ \A f, g \in Fetching(R, s) : f.rep = g.rep => f = g
           /\ \A r \in R \intersect changing :
                 \E f \in Fetching(R, s) : f.rep = r /\ f.op = s /\ f.got.res = "none"
<1>1. /\ Nothing \in Gots /\ Nothing.res = "none" /\ Nothing.state = "unloaded"
  BY DEF Nothing, Gots, AnyState
<1>2. \A r \in changing : /\ Fetch(r, s).op = s /\ Fetch(r, s).rep = r /\ Fetch(r, s).got = Nothing
                          /\ Fetch(r, s) \in [rep : changing, op : {0, 1, 2}, got : Gots]
  BY <1>1 DEF Fetch
<1>3. \A f : f \in Fetching(R, s) <=> \E r \in R \intersect changing : f = Fetch(r, s)
  BY DEF Fetching
<1> QED BY <1>1, <1>2, <1>3

\* The slots other than the one that changes keep their action.
LEMMA OpsSet ==
    ASSUME ConsoleTypes, NEW s \in Slots, NEW new, ops' = [ops EXCEPT ![s] = new]
    PROVE  /\ ops' \in [Slots -> {ops'[t] : t \in Slots}]
           /\ ops'[s] = new /\ \A t \in Slots : t # s => ops'[t] = ops[t]
  BY DEF ConsoleTypes

\* An action begins: it gets a free slot and sends its reads.
LEMMA BeginKeeps ==
    ASSUME ConsoleInv, NEW s \in Slots, NEW new, NEW R \in SUBSET Reports,
           FreeSlot(s),
           ops' = [ops EXCEPT ![s] = new],
           new \in OpShapes(new.arg), new.got = Nothing, new.kind \in PageKinds,
           new.kind \in {"reconcile", "teardown"} => new.arg \in changing,
           new.kind \in PeerKinds => (new.arg \in Players /\ new.step = "asked"),
           fetches' = fetches \union Fetching(R, s),
           R = {} \/ (new.step = "waiting" /\ new.kind # "evidence"),
           \/ /\ new.kind \notin {"health"} \union TrustKinds \/ new.step # "waiting"
              /\ hist' = hist
           \/ /\ new.kind \in {"health"} \union TrustKinds /\ new.step = "waiting"
              /\ hist' = Remember /\ changing \subseteq R,
           UNCHANGED <<page, changing, host, panel, peers, rows, dialog>>,
           evidence' \in [Slots -> Evidence], EvidenceInv',
           left' \in [changes : Nat, actions : Nat],
           pending' \in Kinds \union {"none"},
           page = "players" => pending = "none" /\ ~dialog.open /\ pending' # "none"
    PROVE  ConsoleInv'
<1>1. /\ ConsoleTypes /\ CopyInv /\ AwaitInv /\ RefreshInv /\ NeverRefreshed /\ PeerInv
  BY DEF ConsoleInv
<1>2. /\ ops' \in [Slots -> {ops'[t] : t \in Slots}]
      /\ ops'[s] = new /\ \A t \in Slots : t # s => ops'[t] = ops[t]
  BY <1>1, OpsSet
<1>3. /\ s \in {0, 1, 2} /\ s # 0 /\ ops[s].kind = "none"
  BY DEF Slots, FreeSlot, InFlight
<1>4. /\ \A f \in Fetching(R, s) :
            /\ f.op = s /\ f.rep \in R /\ f.rep \in changing
            /\ f.got = Nothing /\ f.got.res = "none" /\ f.got.state = "unloaded"
            /\ f \in [rep : changing, op : {0, 1, 2}, got : Gots]
      /\ \A f, g \in Fetching(R, s) : f.rep = g.rep => f = g
      /\ \A r \in R \intersect changing :
            \E f \in Fetching(R, s) : f.rep = r /\ f.op = s /\ f.got.res = "none"
  BY <1>1, <1>3, FetchingFacts
<1>5. /\ hist' \in Hists /\ hist'.disturbed = hist.disturbed /\ hist'.lost = hist.lost
      /\ hist'.asked = hist.asked /\ (hist'.refreshed => hist.refreshed)
  <2>1. hist \in Hists
    BY <1>1 DEF ConsoleTypes
  <2> QED BY <2>1, RememberFacts
<1>6. Nothing.res = "none" /\ Nothing.state = "unloaded"
  BY DEF Nothing
<1>7. ConsoleTypes'
  <2>1. \A t \in Slots : OpWell(t)'
    <3>1. OpWell(s)'
      <4>1. new.kind # "none"
        BY DEF PageKinds, PeerKinds, TrustKinds
      <4> QED BY <1>2, <1>6, <4>1 DEF OpWell, PageKinds, OpShapes
    <3>2. ASSUME NEW t \in Slots, t # s PROVE OpWell(t)'
      BY <1>1, <1>2, <3>2 DEF OpWell, PageKinds, ConsoleTypes
    <3> QED BY <3>1, <3>2
  <2>2. FetchTypes'
    BY <1>1, <1>4 DEF FetchTypes, ConsoleTypes
  <2>3. HostTypes'
    BY <1>1 DEF HostTypes, ConsoleTypes
  <2> QED BY <1>1, <1>2, <1>5, <2>1, <2>2, <2>3 DEF ConsoleTypes
<1>8. CopyInv'
  <2>1. \A f \in fetches' : f.got.res = "ok" => CopyOf(f.got, f.rep)'
    BY <1>1, <1>4 DEF CopyInv, CopyOf
  <2>2. \A t \in Slots : (ops'[t].kind \in {"reconcile", "teardown"} /\ ops'[t].got.res = "ok")
                            => CopyOf(ops[t].got, ops[t].arg)'
    BY <1>1, <1>2, <1>6 DEF CopyInv, CopyOf
  <2> QED BY <1>1, <2>1, <2>2 DEF CopyInv, CopyOf
<1>9. AwaitInv'
  <2>1. \A f \in fetches : f.op # s
    BY <1>1, <1>3 DEF AwaitInv
  <2>2. \A f \in fetches : f.op \in {0, 1, 2}
    BY <1>1 DEF ConsoleTypes, FetchTypes
  <2>3. \A f \in Fetching(R, s) : new.step = "waiting"
    BY <1>4
  <2>4. new.kind # "none"
    BY DEF PageKinds, PeerKinds, TrustKinds
  <2>5. \A f \in fetches' : f.op # 0 => (ops'[f.op].kind \notin {"none", "evidence"} /\ ops'[f.op].step = "waiting")
    BY <1>1, <1>2, <1>3, <1>4, <2>1, <2>2, <2>3, <2>4 DEF AwaitInv, Slots
  <2>6. \A f, g \in fetches' : (f.op # 0 /\ f.op = g.op /\ f.rep = g.rep) => f = g
    BY <1>1, <1>4, <2>1 DEF AwaitInv
  <2> QED BY <2>5, <2>6 DEF AwaitInv
<1>10. RefreshInv'
  <2>1. CASE hist' = hist /\ ~Refreshing(s)'
    <3>1. \A t \in Slots : Refreshing(t)' <=> Refreshing(t)
      BY <1>2, <1>3, <2>1 DEF Refreshing, TrustKinds
    <3>2. \A t \in Slots, r \in changing : OnItsWay(t, r) => OnItsWay(t, r)'
      BY DEF OnItsWay
    <3>3. \A f \in fetches' : f.got.res = "ok" => f \in fetches
      BY <1>4
    <3> QED BY <1>1, <2>1, <3>1, <3>2, <3>3 DEF RefreshInv, UpToDate
  <2>2. CASE Refreshing(s)' /\ hist' = Remember /\ changing \subseteq R
    <3>1. hist' \in Hists /\ ~hist'.refreshed /\ hist'.spoiled = StaleUnderWay
      BY <1>1, <2>2, RememberFacts DEF ConsoleTypes
    <3>2. ASSUME ~hist'.spoiled PROVE \A f \in fetches' : f.got.res = "ok" => f.got.ver = host[f.rep].ver
      <4>1. ASSUME NEW f \in fetches, f.got.res = "ok" PROVE f.got.ver = host[f.rep].ver
        <5>1. ~(f.got.ver < host[f.rep].ver)
          BY <3>1, <3>2, <4>1 DEF StaleUnderWay
        <5>2. f.got.ver <= host[f.rep].ver
          BY <1>1, <4>1 DEF CopyInv, CopyOf
        <5>3. f.got.ver \in Int /\ host[f.rep].ver \in Int
          BY <1>1 DEF ConsoleTypes, FetchTypes, HostTypes, Gots
        <5> QED BY <5>1, <5>2, <5>3
      <4> QED BY <1>4, <4>1
    <3>3. \A r \in changing : OnItsWay(s, r)'
      BY <1>4, <2>2 DEF OnItsWay
    <3> QED BY <2>2, <3>1, <3>2, <3>3 DEF RefreshInv
  <2> QED BY <1>2, <2>1, <2>2 DEF Refreshing
<1>11. NeverRefreshed'
  BY <1>1, <1>5 DEF NeverRefreshed
<1>12. PeerInv'
  <2>1. CASE page # "players"
    BY <1>1, <2>1 DEF PeerInv
  <2>2. CASE page = "players" /\ ~hist'.disturbed
    <3>1. InFlight = {}
      BY <1>1, <1>5, <2>2 DEF PeerInv
    <3>2. \A t \in Slots : ops[t].kind = "none"
      BY <3>1 DEF InFlight
    <3>3. \A t \in Slots : ops'[t].kind \in PeerKinds => ops'[t].got.res = "none"
      BY <1>2, <1>6, <3>2 DEF PeerKinds
    <3>4. \A t \in InFlight' : t = s
      BY <1>2, <3>2 DEF InFlight
    <3>5. ~hist'.lost => \A p \in Players : rows[p] = peers[p]
      BY <1>1, <1>5, <2>2, <3>2 DEF PeerInv, PeerKinds
    <3> QED BY <1>1, <1>5, <2>2, <3>3, <3>4, <3>5 DEF PeerInv
  <2> QED BY <2>1, <2>2 DEF PeerInv
<1> QED BY <1>7, <1>8, <1>9, <1>10, <1>11, <1>12 DEF ConsoleInv

NewOp(kind, arg, step) == [IdleOp EXCEPT !.kind = kind, !.arg = arg, !.step = step]

\* An action that begins, field by field.
LEMMA NewOpFacts ==
    ASSUME NEW kind \in Kinds, NEW arg, NEW step \in {"asked", "waiting"}
    PROVE  LET new == NewOp(kind, arg, step)
           IN /\ new \in OpShapes(arg) /\ new.kind = kind /\ new.arg = arg /\ new.step = step
              /\ new.got = Nothing
<1> DEFINE one == [IdleOp EXCEPT !.kind = kind]
           two == [one EXCEPT !.arg = arg]
           new == NewOp(kind, arg, step)
<1>1. Nothing \in Gots
  BY DEF Nothing, Gots, AnyState
<1>2. /\ IdleOp \in OpShapes(0) /\ IdleOp.got = Nothing
  BY <1>1 DEF IdleOp, OpShapes
<1>3. /\ one \in OpShapes(0) /\ one.kind = kind /\ one.got = Nothing
  BY <1>2 DEF OpShapes
<1>4. new = [two EXCEPT !.step = step]
  BY DEF NewOp
<1> HIDE DEF one, new
<1>5. /\ two \in OpShapes(arg) /\ two.kind = kind /\ two.got = Nothing /\ two.arg = arg
  BY <1>3 DEF OpShapes
<1> HIDE DEF two
<1>6. new \in OpShapes(arg) /\ new.kind = kind /\ new.arg = arg /\ new.step = step /\ new.got = Nothing
  BY <1>4, <1>5 DEF OpShapes
<1> QED BY <1>6 DEF new

\* What beginning an action changes and leaves alone.
LEMMA BeginFacts ==
    ASSUME ConsoleInv, NEW s, NEW kind, NEW arg, NEW step, Begin(s, kind, arg, step)
    PROVE  /\ FreeSlot(s) /\ ops' = [ops EXCEPT ![s] = NewOp(kind, arg, step)]
           /\ left' \in [changes : Nat, actions : Nat]
           /\ UNCHANGED <<page, changing, host, panel, peers, rows, dialog>>
<1>1. left \in [changes : Nat, actions : Nat]
  BY DEF ConsoleInv, ConsoleTypes
<1>2. left' = [left EXCEPT !.actions = left.actions - 1] /\ left.actions > 0
  BY DEF Begin
<1>3. left' \in [changes : Nat, actions : Nat]
  BY <1>1, <1>2
<1> QED BY <1>3 DEF Begin, NewOp

\* A button is clicked: what it sends is a kind of its page, and only complete
\* refreshes forget what spoiled the one before.
LEMMA ClickKeeps ==
    ASSUME ConsoleInv, NEW s \in Slots, NEW kind \in Kinds, NEW arg, NEW step \in {"asked", "waiting"},
           NEW R \in SUBSET Reports,
           Click(s, kind, arg, step),
           kind \in PageKinds,
           kind \in {"reconcile", "teardown"} => arg \in changing,
           kind \in PeerKinds => (arg \in Players /\ step = "asked"),
           fetches' = fetches \union Fetching(R, s), R = {} \/ (step = "waiting" /\ kind # "evidence"),
           \/ /\ kind \notin {"health"} \union TrustKinds \/ step # "waiting"
              /\ hist' = hist
           \/ /\ kind \in {"health"} \union TrustKinds /\ step = "waiting"
              /\ hist' = Remember /\ changing \subseteq R,
           evidence' \in [Slots -> Evidence], EvidenceInv'
    PROVE  ConsoleInv'
<1> DEFINE new == NewOp(kind, arg, step)
<1>1. Begin(s, kind, arg, step) /\ pending = "none" /\ ~dialog.open /\ pending' = kind
  BY DEF Click
<1>2. /\ FreeSlot(s) /\ ops' = [ops EXCEPT ![s] = new]
      /\ left' \in [changes : Nat, actions : Nat]
      /\ UNCHANGED <<page, changing, host, panel, peers, rows, dialog>>
  BY <1>1, BeginFacts
<1>3. /\ new \in OpShapes(new.arg) /\ new.kind = kind /\ new.arg = arg /\ new.step = step
      /\ new.got = Nothing
  BY NewOpFacts
<1>4. pending' \in Kinds \union {"none"} /\ pending' # "none"
  BY <1>1 DEF Kinds, StatusKinds, PeerKinds, TrustKinds
<1> HIDE DEF new
<1> QED BY <1>1, <1>2, <1>3, <1>4, BeginKeeps

\* Evidence stays as fresh as it is while neither it nor the host changes.
LEMMA EvidenceKept ==
    ASSUME ConsoleInv, UNCHANGED <<evidence, host>>
    PROVE  evidence' \in [Slots -> Evidence] /\ EvidenceInv'
  BY DEF ConsoleInv, ConsoleTypes, EvidenceInv

\* With no read under way nobody reads.
LEMMA NoFetching == \A s : Fetching({}, s) = {}
  BY DEF Fetching

\* The buttons of the console.
LEMMA ClickActions ==
    ASSUME ConsoleInv, NEW s \in Slots,
           \/ RefreshWireGuardGatewayStatus(s) \/ RefreshAccessStatus(s)
           \/ RefreshOperationsStatus(s) \/ RefreshServiceMetrics(s) \/ RefreshDeploymentRows(s)
           \/ RefreshRuntimeHealth(s) \/ ClickRuntime(s) \/ ClickPeer(s)
           \/ RunTrustedReconcile(s)
    PROVE  ConsoleInv'
<1> USE DEF Kinds, StatusKinds, PeerKinds, TrustKinds
<1>1. ASSUME NEW r \in Reports, NEW p, RefreshOne(s, r, p), r \in PageKinds PROVE ConsoleInv'
  <2>1. /\ Click(s, r, 0, "waiting") /\ fetches' = fetches \union Fetching({r}, s) /\ hist' = hist
        /\ UNCHANGED evidence /\ host' = host
    BY <1>1 DEF RefreshOne, Click, Begin
  <2>2. r \in Kinds /\ r \notin {"health"} \union TrustKinds /\ r \notin {"reconcile", "teardown"}
        /\ r \notin PeerKinds /\ r # "evidence"
    BY DEF Reports
  <2>3. evidence' \in [Slots -> Evidence] /\ EvidenceInv'
    BY <2>1, EvidenceKept
  <2>4. {r} \in SUBSET Reports
    OBVIOUS
  <2> QED BY <1>1, <2>1, <2>2, <2>3, <2>4, ClickKeeps
<1>2. CASE \/ RefreshWireGuardGatewayStatus(s) \/ RefreshAccessStatus(s)
  BY <1>1, <1>2 DEF RefreshWireGuardGatewayStatus, RefreshAccessStatus, RefreshOne, Reports, PageKinds
<1>3. CASE RefreshOperationsStatus(s) \/ RefreshServiceMetrics(s) \/ RefreshDeploymentRows(s)
  BY <1>1, <1>3 DEF RefreshOperationsStatus, RefreshServiceMetrics, RefreshDeploymentRows,
                    RefreshOne, Reports, PageKinds
<1>4. CASE RefreshRuntimeHealth(s)
  <2>1. /\ Click(s, "health", 0, "waiting") /\ fetches' = fetches \union Fetching(Reports, s)
        /\ hist' = Remember /\ UNCHANGED evidence /\ host' = host /\ page = "game"
    BY <1>4 DEF RefreshRuntimeHealth, Click, Begin
  <2>2. "health" \in PageKinds /\ changing \subseteq Reports
    BY <2>1 DEF PageKinds, ConsoleInv, ConsoleTypes
  <2>3. evidence' \in [Slots -> Evidence] /\ EvidenceInv'
    BY <2>1, EvidenceKept
  <2> QED BY <2>1, <2>2, <2>3, ClickKeeps
<1>5. CASE ClickRuntime(s)
  <2>1. PICK kind \in {"reconcile", "teardown"}, r \in {"gateway", "access"} :
           Click(s, kind, r, "asked") /\ r \in changing
    BY <1>5 DEF ClickRuntime, ReconcileWireGuardGateway, ReconcileAccess, TeardownWireGuardGateway, TeardownAccess
  <2>2. /\ fetches' = fetches \union Fetching({}, s) /\ hist' = hist /\ UNCHANGED evidence /\ host' = host
        /\ page = "players"
    BY <1>5, <2>1, NoFetching DEF ClickRuntime, Click, Begin
  <2>3. kind \in PageKinds /\ kind \in Kinds /\ kind \notin PeerKinds /\ kind \notin {"health"} \union TrustKinds
    BY <2>2 DEF PageKinds
  <2>4. evidence' \in [Slots -> Evidence] /\ EvidenceInv'
    BY <2>2, EvidenceKept
  <2> QED BY <2>1, <2>2, <2>3, <2>4, ClickKeeps
<1>6. CASE ClickPeer(s)
  <2>1. PICK kind \in PeerKinds, p \in Players : Click(s, kind, p, "asked")
    BY <1>6 DEF ClickPeer, InspectWireGuard, RotateWireGuard, RevokeWireGuard
  <2>2. /\ fetches' = fetches \union Fetching({}, s) /\ hist' = hist /\ UNCHANGED evidence /\ host' = host
        /\ page = "players"
    BY <1>6, <2>1, NoFetching DEF ClickPeer, Click, Begin
  <2>3. kind \in PageKinds /\ kind \in Kinds /\ kind \notin {"reconcile", "teardown", "health"} \union TrustKinds
    BY <2>2 DEF PageKinds
  <2>4. evidence' \in [Slots -> Evidence] /\ EvidenceInv'
    BY <2>2, EvidenceKept
  <2> QED BY <2>1, <2>2, <2>3, <2>4, ClickKeeps
<1>7. CASE RunTrustedReconcile(s)
  <2>1. /\ fetches' = fetches \union Fetching({}, s) /\ hist' = hist /\ UNCHANGED evidence /\ host' = host
        /\ page = "deployments" /\ Click(s, "trustReconcile", 0, "asked")
    BY <1>7, NoFetching DEF RunTrustedReconcile, Click, Begin
  <2>2. "trustReconcile" \in PageKinds
    BY <2>1 DEF PageKinds
  <2>3. evidence' \in [Slots -> Evidence] /\ EvidenceInv'
    BY <2>1, EvidenceKept
  <2> QED BY <2>1, <2>2, <2>3, ClickKeeps
<1> QED BY <1>2, <1>3, <1>4, <1>5, <1>6, <1>7

\* The floors of a report that is asked for are the versions on the page.
LEMMA EvidenceBegins ==
    ASSUME ConsoleInv, NEW s \in Slots, StartEvidence(s)
    PROVE  ConsoleInv'
<1> DEFINE floor == [r \in Reports |-> panel[r].ver]
           new == [NoEvidence EXCEPT !.floor = floor]
<1>1. /\ page = "game" /\ Click(s, "evidence", 0, "waiting")
      /\ evidence' = [evidence EXCEPT ![s] = new]
      /\ fetches' = fetches /\ hist' = hist
  BY DEF StartEvidence
<1>2. host' = host /\ ConsoleTypes /\ EvidenceInv /\ CopyInv
  BY <1>1 DEF Click, Begin, ConsoleInv
<1>3. floor \in [Reports -> Int] /\ \A r \in Reports : floor[r] = panel[r].ver
  BY <1>2 DEF ConsoleTypes, HostTypes
<1>4. new.floor = floor /\ new.read = {} /\ new \in Evidence
  <2>1. NoEvidence \in Evidence /\ NoEvidence.read = {}
    BY DEF NoEvidence, Evidence
  <2> HIDE DEF floor
  <2> QED BY <1>3, <2>1 DEF Evidence
<1> HIDE DEF floor, new
<1>5. evidence' \in [Slots -> Evidence]
  BY <1>1, <1>2, <1>4 DEF ConsoleTypes
<1>6. EvidenceInv'
  <2>1. \A r \in Reports : floor[r] <= host[r].ver
    BY <1>2, <1>3 DEF CopyInv, CopyOf
  <2>2. evidence'[s] = new /\ \A t \in Slots : t # s => evidence'[t] = evidence[t]
    BY <1>1, <1>2 DEF ConsoleTypes
  <2> QED BY <1>2, <1>4, <2>1, <2>2 DEF EvidenceInv
<1>7. "evidence" \in PageKinds /\ "evidence" \in Kinds
      /\ "evidence" \notin {"reconcile", "teardown", "health"} \union TrustKinds \union PeerKinds
  BY <1>1 DEF PageKinds, Kinds, TrustKinds, PeerKinds
<1>8. fetches' = fetches \union Fetching({}, s) /\ {} \in SUBSET Reports
  BY <1>1, NoFetching
<1> QED BY <1>1, <1>5, <1>6, <1>7, <1>8, ClickKeeps

\* The trusted panel's timer and its Refresh button.
LEMMA TrustedBegins ==
    ASSUME ConsoleInv, NEW s \in Slots, TrustedTimer(s) \/ TrustedRefresh(s)
    PROVE  ConsoleInv'
<1> DEFINE new == NewOp("trustRefresh", 0, "waiting")
<1>1. ConsoleTypes /\ left \in [changes : Nat, actions : Nat]
  BY DEF ConsoleInv, ConsoleTypes
<1>2. new.arg = 0 /\ new \in OpShapes(0) /\ new.kind = "trustRefresh" /\ new.step = "waiting" /\ new.got = Nothing
  <2>1. "trustRefresh" \in Kinds
    BY DEF Kinds, TrustKinds
  <2> QED BY <2>1, NewOpFacts
<1>3. [IdleOp EXCEPT !.kind = "trustRefresh", !.step = "waiting"] = new
  <2>1. IdleOp.arg = 0
    BY DEF IdleOp
  <2> QED BY <2>1 DEF NewOp, IdleOp, Nothing
<1>4. /\ page = "deployments" /\ FreeSlot(s) /\ ops' = [ops EXCEPT ![s] = new]
      /\ fetches' = fetches \union Fetching(ShownOn(page), s) /\ hist' = Remember
      /\ UNCHANGED <<page, changing, host, panel, peers, rows, dialog, pending, evidence>>
      /\ left.actions > 0 /\ left' = [left EXCEPT !.actions = left.actions - 1]
  <2>1. CASE TrustedTimer(s)
    BY <1>3, <2>1 DEF TrustedTimer
  <2>2. CASE TrustedRefresh(s)
    <3>1. Begin(s, "trustRefresh", 0, "waiting")
      BY <2>2 DEF TrustedRefresh
    <3>2. ops' = [ops EXCEPT ![s] = new]
      BY <3>1, BeginFacts
    <3> HIDE DEF new
    <3> QED BY <2>2, <3>1, <3>2 DEF TrustedRefresh, Begin
  <2> QED BY <2>1, <2>2
<1> HIDE DEF new
<1>5. left' \in [changes : Nat, actions : Nat]
  BY <1>1, <1>4
<1>6. /\ "trustRefresh" \in PageKinds /\ "trustRefresh" \notin {"reconcile", "teardown"} \union PeerKinds
      /\ "trustRefresh" \in TrustKinds
  BY <1>4 DEF PageKinds, TrustKinds, PeerKinds
<1>7. changing \subseteq ShownOn(page) /\ ShownOn(page) \in SUBSET Reports
  BY <1>1, <1>4 DEF ConsoleTypes, ShownOn, Reports
<1>8. evidence' \in [Slots -> Evidence] /\ EvidenceInv' /\ pending' \in Kinds \union {"none"}
  BY <1>1, <1>4, EvidenceKept DEF ConsoleTypes
<1>9. PICK R \in SUBSET Reports : R = ShownOn(page)
  BY <1>7
<1>10. /\ new \in OpShapes(new.arg) /\ page # "players" /\ new.kind \in PageKinds
       /\ new.kind \notin {"reconcile", "teardown"} /\ new.kind \notin PeerKinds
       /\ new.kind \in {"health"} \union TrustKinds
       /\ fetches' = fetches \union Fetching(R, s) /\ changing \subseteq R
       /\ UNCHANGED <<page, changing, host, panel, peers, rows, dialog>>
  BY <1>2, <1>4, <1>6, <1>7, <1>9
<1> QED BY <1>2, <1>4, <1>5, <1>8, <1>10, BeginKeeps

\* The poll of the operations report.
LEMMA PollOperationsStep ==
    ASSUME ConsoleInv, PollOperations
    PROVE  ConsoleInv'
<1> DEFINE new == Fetching({"operations", "metrics"}, 0)
<1>1. /\ ConsoleTypes /\ CopyInv /\ AwaitInv /\ EvidenceInv /\ RefreshInv /\ NeverRefreshed /\ PeerInv
  BY DEF ConsoleInv
<1>2. /\ fetches' = fetches \union new /\ left.actions > 0 /\ hist' = hist
      /\ left' = [left EXCEPT !.actions = left.actions - 1]
      /\ UNCHANGED <<page, changing, host, panel, ops, pending, peers, rows, dialog, evidence>>
  BY DEF PollOperations
<1>3. \A f \in new : /\ f.op = 0 /\ f.got.res = "none" /\ f.got.state = "unloaded"
                     /\ f \in [rep : changing, op : {0, 1, 2}, got : Gots]
  <2>1. {"operations", "metrics"} \in SUBSET Reports /\ 0 \in {0, 1, 2}
    BY DEF Reports
  <2> QED BY <1>1, <2>1, FetchingFacts
<1> HIDE DEF new
<1>4. ConsoleTypes'
  <2>1. FetchTypes'
    BY <1>1, <1>2, <1>3 DEF FetchTypes, ConsoleTypes
  <2>2. left' \in [changes : Nat, actions : Nat]
    BY <1>1, <1>2 DEF ConsoleTypes
  <2>3. HostTypes' /\ \A s \in Slots : OpWell(s)'
    BY <1>1, <1>2 DEF ConsoleTypes, HostTypes, OpWell, PageKinds
  <2> QED BY <1>1, <1>2, <2>1, <2>2, <2>3 DEF ConsoleTypes
<1>5. CopyInv'
  BY <1>1, <1>2, <1>3 DEF CopyInv, CopyOf
<1>6. AwaitInv'
  BY <1>1, <1>2, <1>3 DEF AwaitInv
<1>7. EvidenceInv'
  BY <1>1, <1>2 DEF EvidenceInv
<1>8. RefreshInv'
  <2>1. \A s \in Slots, r \in changing : OnItsWay(s, r) => OnItsWay(s, r)'
    BY <1>2 DEF OnItsWay
  <2> QED BY <1>1, <1>2, <1>3, <2>1 DEF RefreshInv, UpToDate, Refreshing
<1>9. NeverRefreshed' /\ PeerInv'
  BY <1>1, <1>2 DEF NeverRefreshed, PeerInv, InFlight
<1> QED BY <1>4, <1>5, <1>6, <1>7, <1>8, <1>9 DEF ConsoleInv

\* A fetch is served: it carries the report of that moment, or it spoils the refresh.
LEMMA ServeFetchStep ==
    ASSUME ConsoleInv, ServeFetch
    PROVE  ConsoleInv'
<1>1. /\ ConsoleTypes /\ CopyInv /\ AwaitInv /\ EvidenceInv /\ RefreshInv /\ NeverRefreshed /\ PeerInv
  BY DEF ConsoleInv
<1>2. PICK f \in fetches :
         /\ f.got.res = "none"
         /\ \/ /\ fetches' = (fetches \ {f}) \union {[f EXCEPT !.got = Answered(ReadReport(f.rep))]}
               /\ UNCHANGED hist
            \/ /\ fetches' = (fetches \ {f}) \union {[f EXCEPT !.got.res = "failed"]}
               /\ hist' = [hist EXCEPT !.spoiled = TRUE]
         /\ UNCHANGED <<page, changing, host, panel, ops, pending, peers, rows, dialog, evidence, left>>
  BY DEF ServeFetch
<1>3. /\ f \in [rep : changing, op : {0, 1, 2}, got : Gots] /\ f.rep \in changing /\ f.rep \in Reports
      /\ f.got \in Gots /\ f.got.state \in States(f.rep) \union {"unloaded"}
      /\ hist \in Hists /\ host[f.rep] \in [state : AnyState, ver : Int] /\ host[f.rep].state \in States(f.rep)
  BY <1>1 DEF ConsoleTypes, FetchTypes, HostTypes
<1>4. PICK g : /\ g.rep = f.rep /\ g.op = f.op /\ g.got \in Gots
               /\ g \in [rep : changing, op : {0, 1, 2}, got : Gots]
               /\ g.got.state \in States(f.rep) \union {"unloaded"}
               /\ fetches' = (fetches \ {f}) \union {g}
               /\ \/ /\ g.got.res = "ok" /\ g.got.ver = host[f.rep].ver /\ g.got.state = host[f.rep].state
                     /\ hist' = hist
                  \/ g.got.res = "failed" /\ hist' = [hist EXCEPT !.spoiled = TRUE]
  <2>1. CASE /\ fetches' = (fetches \ {f}) \union {[f EXCEPT !.got = Answered(ReadReport(f.rep))]}
             /\ hist' = hist
    <3> DEFINE a == Answered(ReadReport(f.rep))
               g == [f EXCEPT !.got = a]
    <3>1. a \in Gots /\ a.res = "ok" /\ a.ver = host[f.rep].ver /\ a.state = host[f.rep].state
      BY <1>3 DEF Answered, ReadReport, Gots
    <3> HIDE DEF a
    <3>2. g.rep = f.rep /\ g.op = f.op /\ g.got = a /\ g \in [rep : changing, op : {0, 1, 2}, got : Gots]
      BY <1>3, <3>1
    <3>3. fetches' = (fetches \ {f}) \union {g}
      BY <2>1 DEF a
    <3> HIDE DEF g
    <3> WITNESS g
    <3> QED BY <1>3, <2>1, <3>1, <3>2, <3>3
  <2>2. CASE /\ fetches' = (fetches \ {f}) \union {[f EXCEPT !.got.res = "failed"]}
             /\ hist' = [hist EXCEPT !.spoiled = TRUE]
    <3> DEFINE a == [f.got EXCEPT !.res = "failed"]
               g == [f EXCEPT !.got = a]
    <3>1. a \in Gots /\ a.res = "failed" /\ a.state = f.got.state
      BY <1>3 DEF Gots
    <3>2. fetches' = (fetches \ {f}) \union {g}
      BY <1>3, <2>2
    <3> HIDE DEF a
    <3>3. g.rep = f.rep /\ g.op = f.op /\ g.got = a /\ g \in [rep : changing, op : {0, 1, 2}, got : Gots]
      BY <1>3, <3>1
    <3> HIDE DEF g
    <3> WITNESS g
    <3> QED BY <1>3, <2>2, <3>1, <3>2, <3>3
  <2> QED BY <1>2, <2>1, <2>2
<1>5. UNCHANGED <<page, changing, host, panel, ops, pending, peers, rows, dialog, evidence, left>>
  BY <1>2
<1>6. /\ hist' \in Hists /\ hist'.refreshed = hist.refreshed /\ hist'.lost = hist.lost
      /\ hist'.disturbed = hist.disturbed /\ hist'.asked = hist.asked
      /\ (g.got.res = "failed" => hist'.spoiled) /\ (hist.spoiled => hist'.spoiled)
  BY <1>3, <1>4 DEF Hists
<1>7. ConsoleTypes'
  <2>1. FetchTypes'
    BY <1>1, <1>4, <1>5 DEF FetchTypes, ConsoleTypes
  <2>2. HostTypes' /\ \A s \in Slots : OpWell(s)'
    BY <1>1, <1>5 DEF ConsoleTypes, HostTypes, OpWell, PageKinds
  <2> QED BY <1>1, <1>5, <1>6, <2>1, <2>2 DEF ConsoleTypes
<1>8. CopyInv'
  <2>1. g.got.res = "ok" => CopyOf(g.got, g.rep)
    BY <1>3, <1>4 DEF CopyOf
  <2> QED BY <1>1, <1>4, <1>5, <2>1 DEF CopyInv, CopyOf
<1>9. AwaitInv'
  BY <1>1, <1>4, <1>5 DEF AwaitInv
<1>10. EvidenceInv'
  BY <1>1, <1>5 DEF EvidenceInv
<1>11. RefreshInv'
  <2>1. ASSUME ~hist'.spoiled, NEW s \in Slots, NEW r \in changing, OnItsWay(s, r) PROVE OnItsWay(s, r)'
    <3>1. PICK h \in fetches : h.op = s /\ h.rep = r /\ h.got.res # "failed"
      BY <2>1 DEF OnItsWay
    <3>2. CASE h = f
      BY <1>4, <1>6, <2>1, <3>1, <3>2 DEF OnItsWay
    <3>3. CASE h # f
      BY <1>4, <3>1, <3>3 DEF OnItsWay
    <3> QED BY <3>2, <3>3
  <2> QED BY <1>1, <1>4, <1>5, <1>6, <2>1 DEF RefreshInv, UpToDate, Refreshing
<1>12. NeverRefreshed'
  BY <1>1, <1>5, <1>6 DEF NeverRefreshed
<1>13. PeerInv'
  BY <1>1, <1>5, <1>6 DEF PeerInv, InFlight
<1> QED BY <1>7, <1>8, <1>9, <1>10, <1>11, <1>12, <1>13 DEF ConsoleInv

\* A report arrives, or its read fails.
LEMMA FetchAnswersStep ==
    ASSUME ConsoleInv, FetchAnswers
    PROVE  ConsoleInv'
<1>1. /\ ConsoleTypes /\ CopyInv /\ AwaitInv /\ EvidenceInv /\ RefreshInv /\ NeverRefreshed /\ PeerInv
  BY DEF ConsoleInv
<1>2. PICK f \in fetches :
         /\ f.got.res # "none"
         /\ fetches' = fetches \ {f}
         /\ panel' = IF f.got.res = "ok" THEN [panel EXCEPT ![f.rep] = Taken(f.got)] ELSE panel
         /\ UNCHANGED <<page, changing, host, ops, pending, peers, rows, dialog, evidence, left, hist>>
  BY DEF FetchAnswers
<1>3. /\ f.rep \in changing /\ f.rep \in Reports /\ f.got \in Gots
      /\ f.got.state \in States(f.rep) \union {"unloaded"}
      /\ panel \in [Reports -> [state : AnyState, ver : Int]]
  BY <1>1 DEF ConsoleTypes, FetchTypes, HostTypes
<1>4. PICK x : x = Taken(f.got)
  OBVIOUS
<1>5. x \in [state : AnyState, ver : Int] /\ x.state = f.got.state /\ x.ver = f.got.ver
  BY <1>3, <1>4 DEF Taken, Gots
<1>6. /\ panel' \in [Reports -> [state : AnyState, ver : Int]]
      /\ f.got.res = "ok" => panel'[f.rep] = x
      /\ f.got.res # "ok" => panel' = panel
      /\ \A r \in Reports : r # f.rep => panel'[r] = panel[r]
  BY <1>2, <1>3, <1>4, <1>5
<1>7. UNCHANGED <<page, changing, host, ops, pending, peers, rows, dialog, evidence, left, hist>>
  BY <1>2
<1>8. ConsoleTypes'
  <2>1. FetchTypes'
    BY <1>1, <1>2, <1>7 DEF FetchTypes, ConsoleTypes
  <2>2. HostTypes'
    BY <1>1, <1>3, <1>5, <1>6, <1>7 DEF ConsoleTypes, HostTypes
  <2>3. \A s \in Slots : OpWell(s)'
    BY <1>1, <1>7 DEF ConsoleTypes, OpWell, PageKinds
  <2> QED BY <1>1, <1>7, <2>1, <2>2, <2>3 DEF ConsoleTypes
<1>9. CopyInv'
  <2>1. f.got.res = "ok" => CopyOf(x, f.rep)
    BY <1>1, <1>5 DEF CopyInv, CopyOf
  <2>2. \A r \in Reports : CopyOf(panel[r], r)'
    BY <1>1, <1>6, <1>7, <2>1 DEF CopyInv, CopyOf
  <2> QED BY <1>1, <1>2, <1>3, <1>6, <1>7, <2>2 DEF CopyInv, CopyOf
<1>10. AwaitInv' /\ EvidenceInv'
  BY <1>1, <1>2, <1>7 DEF AwaitInv, EvidenceInv
<1>11. RefreshInv'
  <2> SUFFICES ASSUME page # "players", ~hist.spoiled PROVE RefreshInv'
    BY <1>7 DEF RefreshInv
  <2>1. f.got.res = "ok" => UpToDate(f.rep)'
    BY <1>1, <1>5, <1>6, <1>7 DEF RefreshInv, UpToDate
  <2>2. \A r \in changing : UpToDate(r) => UpToDate(r)'
    BY <1>1, <1>3, <1>6, <1>7, <2>1 DEF UpToDate, ConsoleTypes
  <2>3. ASSUME NEW s \in Slots, NEW r \in changing, OnItsWay(s, r) PROVE UpToDate(r)' \/ OnItsWay(s, r)'
    <3>1. PICK h \in fetches : h.op = s /\ h.rep = r /\ h.got.res # "failed"
      BY <2>3 DEF OnItsWay
    <3>2. CASE h = f
      BY <1>2, <1>3, <2>1, <3>1, <3>2 DEF Gots
    <3>3. CASE h # f
      BY <1>2, <3>1, <3>3 DEF OnItsWay
    <3> QED BY <3>2, <3>3
  <2> QED BY <1>1, <1>2, <1>7, <2>2, <2>3 DEF RefreshInv, Refreshing
<1>12. NeverRefreshed' /\ PeerInv'
  BY <1>1, <1>7 DEF NeverRefreshed, PeerInv, InFlight
<1> QED BY <1>8, <1>9, <1>10, <1>11, <1>12 DEF ConsoleInv

\* A slot at rest, field by field.
LEMMA IdleFacts == /\ IdleOp \in OpShapes(IdleOp.arg) /\ IdleOp.kind = "none" /\ IdleOp.step = "none"
                   /\ IdleOp.got.res = "none"
  BY DEF IdleOp, OpShapes, Nothing, Gots, AnyState

\* The last read of an action is on the page.
LEMMA WaitEndsStep ==
    ASSUME ConsoleInv, NEW s \in Slots, WaitEnds(s)
    PROVE  ConsoleInv'
<1>1. /\ ConsoleTypes /\ CopyInv /\ AwaitInv /\ EvidenceInv /\ RefreshInv /\ NeverRefreshed /\ PeerInv
  BY DEF ConsoleInv
<1>2. /\ ops[s].step = "waiting" /\ ops[s].kind \notin TrustKinds \union {"evidence"}
      /\ Awaited(s) = {} /\ ops' = [ops EXCEPT ![s] = IdleOp] /\ pending' = "none"
      /\ UNCHANGED <<page, changing, host, panel, fetches, peers, rows, dialog, evidence, left>>
  BY DEF WaitEnds, AllRead, Finish
<1> DEFINE alone == ops[s].kind = "health" /\ \A t \in InFlight : t = s \/ ops[t].kind # "health"
<1>3. hist' = [hist EXCEPT !.refreshed = @ \/ alone]
  BY DEF WaitEnds
<1>4. /\ hist' \in Hists /\ hist'.spoiled = hist.spoiled /\ hist'.lost = hist.lost
      /\ hist'.disturbed = hist.disturbed /\ hist'.asked = hist.asked
      /\ hist'.refreshed = (hist.refreshed \/ alone)
  <2>1. hist \in Hists /\ alone \in BOOLEAN
    BY <1>1 DEF ConsoleTypes
  <2> HIDE DEF alone
  <2> QED BY <1>3, <2>1 DEF Hists
<1>5. /\ ops' \in [Slots -> {ops'[t] : t \in Slots}]
      /\ ops'[s] = IdleOp /\ \A t \in Slots : t # s => ops'[t] = ops[t]
  BY <1>1, <1>2, OpsSet
<1>6. \A f \in fetches : f.op # s
  BY <1>2 DEF Awaited
<1>7. alone => page = "game"
  BY <1>1 DEF ConsoleTypes, OpWell, PageKinds, PeerKinds, TrustKinds
<1>8. ConsoleTypes'
  <2>1. \A t \in Slots : OpWell(t)'
    <3>1. OpWell(s)'
      BY <1>5, IdleFacts DEF OpWell, PeerKinds
    <3>2. ASSUME NEW t \in Slots, t # s PROVE OpWell(t)'
      BY <1>1, <1>2, <1>5, <3>2 DEF OpWell, PageKinds, ConsoleTypes
    <3> QED BY <3>1, <3>2
  <2>2. FetchTypes' /\ HostTypes'
    BY <1>1, <1>2 DEF FetchTypes, HostTypes, ConsoleTypes
  <2> QED BY <1>1, <1>2, <1>4, <1>5, <2>1, <2>2 DEF ConsoleTypes
<1>9. CopyInv'
  BY <1>1, <1>2, <1>5, IdleFacts DEF CopyInv, CopyOf
<1>10. AwaitInv'
  <2>1. \A f \in fetches : f.op \in {0, 1, 2}
    BY <1>1 DEF ConsoleTypes, FetchTypes
  <2> QED BY <1>1, <1>2, <1>5, <1>6, <2>1 DEF AwaitInv, Slots
<1>11. EvidenceInv'
  BY <1>1, <1>2 DEF EvidenceInv
<1>12. RefreshInv'
  <2> SUFFICES ASSUME page # "players", ~hist.spoiled PROVE RefreshInv'
    BY <1>2, <1>4 DEF RefreshInv
  <2>1. ~Refreshing(s)' /\ \A t \in Slots : t # s => (Refreshing(t)' <=> Refreshing(t))
    BY <1>5, IdleFacts DEF Refreshing
  <2>2. \A t \in Slots, r \in changing : OnItsWay(t, r)' <=> OnItsWay(t, r)
    BY <1>2 DEF OnItsWay
  <2>3. \A r \in changing : UpToDate(r)' <=> UpToDate(r)
    BY <1>2 DEF UpToDate
  <2>4. \A r \in changing : ~OnItsWay(s, r)
    BY <1>6 DEF OnItsWay
  <2>5. (\E t \in Slots : Refreshing(t)') =>
           \E t \in Slots : Refreshing(t)' /\ \A r \in changing : UpToDate(r) \/ OnItsWay(t, r)
    BY <1>1, <2>1, <2>4 DEF RefreshInv
  <2>6. alone => \A r \in changing : UpToDate(r)
    <3>1. alone => \A t \in Slots : t = s \/ ~Refreshing(t)
      BY <1>1, <1>7 DEF InFlight, Refreshing, ConsoleTypes, OpWell, PageKinds, TrustKinds
    <3>2. alone => Refreshing(s)
      BY <1>2 DEF Refreshing
    <3> HIDE DEF alone
    <3> QED BY <1>1, <2>4, <3>1, <3>2 DEF RefreshInv
  <2>7. hist'.refreshed => \A r \in changing : UpToDate(r)
    BY <1>1, <1>4, <2>6 DEF RefreshInv
  <2> QED BY <1>1, <1>2, <1>4, <2>2, <2>3, <2>5, <2>7 DEF RefreshInv
<1>13. NeverRefreshed'
  BY <1>1, <1>2, <1>4, <1>7 DEF NeverRefreshed
<1>14. PeerInv'
  <2>1. InFlight' \subseteq InFlight /\ s \notin InFlight'
    BY <1>5, IdleFacts DEF InFlight
  <2>2. ops[s].kind \notin PeerKinds /\ s \in InFlight
    BY <1>1, <1>2 DEF ConsoleTypes, OpWell, InFlight
  <2>3. (page = "players" /\ ~hist.disturbed) => InFlight' = {}
    BY <1>1, <2>1, <2>2 DEF PeerInv
  <2>4. \A t \in Slots : ops'[t].kind \in PeerKinds => (t # s /\ ops'[t] = ops[t])
    BY <1>5, IdleFacts DEF PeerKinds
  <2>5. \A t \in Slots : ops[t].kind \in PeerKinds => ops'[t] = ops[t]
    BY <1>5, <2>2
  <2> QED BY <1>1, <1>2, <1>4, <2>3, <2>4, <2>5 DEF PeerInv
<1> QED BY <1>8, <1>9, <1>10, <1>11, <1>12, <1>13, <1>14 DEF ConsoleInv

\* Reconciles and teardowns are the players page's, where nothing is refreshed as a whole.
LEMMA ServeRuntimeStep ==
    ASSUME ConsoleInv, NEW s \in Slots, ServeRuntime(s)
    PROVE  ConsoleInv'
<1>1. /\ ConsoleTypes /\ CopyInv /\ AwaitInv /\ EvidenceInv /\ RefreshInv /\ NeverRefreshed /\ PeerInv
  BY DEF ConsoleInv
<1>2. /\ ops[s].kind \in {"reconcile", "teardown"} /\ ops[s].step = "asked" /\ ops[s].got.res = "none"
      /\ UNCHANGED <<page, changing, panel, fetches, pending, peers, rows, dialog, evidence, left, hist>>
  BY DEF ServeRuntime
<1>3. PICK r : r = ops[s].arg
  OBVIOUS
<1>4. /\ r \in changing /\ r \in Reports /\ r \in {"gateway", "access"} /\ page = "players"
      /\ ops[s] \in OpShapes(r) /\ ops[s].got \in Gots /\ ops[s].got.state \in States(r) \union {"unloaded"}
  <2>1. page = "players"
    BY <1>1, <1>2 DEF ConsoleTypes, OpWell, PageKinds, TrustKinds
  <2> QED BY <1>1, <1>2, <1>3, <2>1 DEF ConsoleTypes, OpWell, OpShapes, ShownOn, Reports
<1>5. host[r] \in [state : AnyState, ver : Int] /\ host \in [Reports -> [state : AnyState, ver : Int]]
  BY <1>1, <1>4 DEF ConsoleTypes, HostTypes
<1>6. PICK new :
         /\ ops' = [ops EXCEPT ![s] = new]
         /\ new \in OpShapes(r) /\ new.kind = ops[s].kind /\ new.arg = r /\ new.step = "asked"
         /\ new.got.state \in States(r) \union {"unloaded"}
         /\ \/ /\ host' = host /\ new.got.res = "failed"
            \/ /\ host' \in [Reports -> [state : AnyState, ver : Int]]
               /\ host'[r].ver = host[r].ver + 1 /\ host'[r].state \in States(r)
               /\ \A q \in Reports : q # r => host'[q] = host[q]
               /\ new.got.ver = host'[r].ver /\ new.got.state = host'[r].state
  <2>1. CASE \E state \in IF ops[s].kind = "teardown" THEN {"degraded"} ELSE {"good", "bad"} :
               /\ host' = [host EXCEPT ![r] = [state |-> state, ver |-> host[r].ver + 1]]
               /\ \E res \in {"ok", "failed"} :
                    ops' = [ops EXCEPT ![s].got = [res |-> res, state |-> state, ver |-> host[r].ver + 1]]
    <3>1. PICK state \in {"degraded", "good", "bad"}, res \in {"ok", "failed"} :
               /\ host' = [host EXCEPT ![r] = [state |-> state, ver |-> host[r].ver + 1]]
               /\ ops' = [ops EXCEPT ![s].got = [res |-> res, state |-> state, ver |-> host[r].ver + 1]]
      BY <2>1
    <3> DEFINE x == [res |-> res, state |-> state, ver |-> host[r].ver + 1]
               y == [state |-> state, ver |-> host[r].ver + 1]
               new == [ops[s] EXCEPT !.got = x]
    <3>2. x \in Gots /\ x.res = res /\ x.state = state /\ x.ver = host[r].ver + 1
      BY <1>5 DEF Gots, AnyState
    <3>3. y \in [state : AnyState, ver : Int] /\ y.state = state /\ y.ver = host[r].ver + 1
      BY <1>5 DEF AnyState
    <3>4. state \in States(r)
      BY <1>4 DEF States
    <3>5. host' = [host EXCEPT ![r] = y] /\ ops' = [ops EXCEPT ![s] = new]
      BY <3>1
    <3> HIDE DEF x, y
    <3>6. new \in OpShapes(r) /\ new.kind = ops[s].kind /\ new.arg = r /\ new.step = "asked" /\ new.got = x
      BY <1>2, <1>3, <1>4, <3>2 DEF OpShapes
    <3> HIDE DEF new
    <3> WITNESS new
    <3> QED BY <1>4, <1>5, <3>2, <3>3, <3>4, <3>5, <3>6
  <2>2. CASE ops' = [ops EXCEPT ![s].got.res = "failed"] /\ host' = host
    <3> DEFINE x == [ops[s].got EXCEPT !.res = "failed"]
               new == [ops[s] EXCEPT !.got = x]
    <3>1. x \in Gots /\ x.res = "failed" /\ x.state = ops[s].got.state
      BY <1>4 DEF Gots
    <3>2. ops' = [ops EXCEPT ![s] = new]
      BY <2>2
    <3> HIDE DEF x
    <3>3. new \in OpShapes(r) /\ new.kind = ops[s].kind /\ new.arg = r /\ new.step = "asked" /\ new.got = x
      BY <1>2, <1>3, <1>4, <3>1 DEF OpShapes
    <3> HIDE DEF new
    <3> WITNESS new
    <3> QED BY <1>4, <2>2, <3>1, <3>2, <3>3
  <2> QED BY <1>3, <2>1, <2>2 DEF ServeRuntime
<1>7. /\ ops' \in [Slots -> {ops'[t] : t \in Slots}]
      /\ ops'[s] = new /\ \A t \in Slots : t # s => ops'[t] = ops[t]
  BY <1>1, <1>6, OpsSet
<1>8. /\ host' \in [Reports -> [state : AnyState, ver : Int]]
      /\ \A q \in Reports : host'[q].state \in States(q)
      /\ \A q \in Reports : host'[q] = host[q] \/ (q = r /\ host'[q].ver = host[q].ver + 1)
  BY <1>1, <1>4, <1>5, <1>6 DEF ConsoleTypes, HostTypes
<1>9. ConsoleTypes'
  <2>1. \A t \in Slots : OpWell(t)'
    <3>1. OpWell(s)'
      <4>1. new.got.res = "ok" => new.got.state \in States(r)
        BY <1>6
      <4> QED BY <1>1, <1>2, <1>4, <1>6, <1>7, <4>1 DEF OpWell, PageKinds, PeerKinds, ConsoleTypes
    <3>2. ASSUME NEW t \in Slots, t # s PROVE OpWell(t)'
      BY <1>1, <1>2, <1>7, <3>2 DEF OpWell, PageKinds, ConsoleTypes
    <3> QED BY <3>1, <3>2
  <2>2. FetchTypes' /\ HostTypes'
    BY <1>1, <1>2, <1>8 DEF FetchTypes, HostTypes, ConsoleTypes
  <2> QED BY <1>1, <1>2, <1>7, <2>1, <2>2 DEF ConsoleTypes
<1>10. ASSUME NEW q \in Reports, NEW x, x.ver \in Int, CopyOf(x, q)
       PROVE  x.ver <= host'[q].ver /\ (x.ver = host'[q].ver => x.state = host'[q].state)
  <2>1. host[q].ver \in Int
    BY <1>1 DEF ConsoleTypes, HostTypes
  <2> QED BY <1>8, <1>10, <2>1 DEF CopyOf
<1>11. CopyInv'
  <2>1. \A q \in Reports : CopyOf(panel[q], q)'
    <3>1. \A q \in Reports : panel[q].ver \in Int
      BY <1>1 DEF ConsoleTypes, HostTypes
    <3> QED BY <1>1, <1>2, <1>10, <3>1 DEF CopyInv, CopyOf
  <2>2. \A q \in Reports : q \notin changing => (host'[q].state = "good" /\ panel[q].ver = host'[q].ver)
    BY <1>1, <1>4, <1>8 DEF CopyInv
  <2>3. \A f \in fetches : f.got.res = "ok" => CopyOf(f.got, f.rep)'
    <3>1. \A f \in fetches : f.got.ver \in Int /\ f.rep \in Reports
      BY <1>1 DEF ConsoleTypes, FetchTypes, Gots
    <3> QED BY <1>1, <1>2, <1>10, <3>1 DEF CopyInv, CopyOf
  <2>4. \A t \in Slots : (ops'[t].kind \in {"reconcile", "teardown"} /\ ops'[t].got.res = "ok")
                            => CopyOf(ops[t].got, ops[t].arg)'
    <3>1. ASSUME NEW t \in Slots, t # s, ops[t].kind \in {"reconcile", "teardown"}, ops[t].got.res = "ok"
          PROVE  CopyOf(ops[t].got, ops[t].arg)'
      <4>1. ops[t].arg \in Reports /\ ops[t].got.ver \in Int
        BY <1>1, <3>1 DEF ConsoleTypes, OpWell, OpShapes, Gots
      <4> QED BY <1>1, <1>7, <1>10, <3>1, <4>1 DEF CopyInv, CopyOf
    <3>2. new.got.res = "ok" => CopyOf(ops[s].got, ops[s].arg)'
      <4>1. new.got.ver \in Int
        BY <1>6 DEF OpShapes, Gots
      <4> QED BY <1>6, <1>7, <4>1 DEF CopyOf
    <3> QED BY <1>7, <3>1, <3>2
  <2> QED BY <1>2, <2>1, <2>2, <2>3, <2>4 DEF CopyInv
<1>12. AwaitInv'
  <2>1. \A f \in fetches : f.op # s /\ f.op \in {0, 1, 2}
    BY <1>1, <1>2 DEF AwaitInv, ConsoleTypes, FetchTypes, Slots
  <2> QED BY <1>1, <1>2, <1>7, <2>1 DEF AwaitInv, Slots
<1>13. EvidenceInv'
  <2>1. \A t \in Slots : \A q \in Reports : evidence[t].floor[q] \in Int /\ host[q].ver \in Int
    BY <1>1 DEF ConsoleTypes, HostTypes, Evidence
  <2>2. \A t \in Slots : \A q \in Reports : -1 <= host'[q].ver /\ evidence[t].floor[q] <= host'[q].ver
    BY <1>1, <1>8, <2>1 DEF EvidenceInv
  <2> QED BY <1>1, <1>2, <2>2 DEF EvidenceInv
<1>14. RefreshInv' /\ NeverRefreshed'
  BY <1>1, <1>2, <1>4 DEF RefreshInv, NeverRefreshed
<1>15. PeerInv'
  <2>1. ops[s].kind \notin PeerKinds /\ new.kind \notin PeerKinds /\ InFlight' = InFlight
    BY <1>2, <1>6, <1>7 DEF PeerKinds, InFlight
  <2>2. \A t \in Slots : (ops'[t].kind \in PeerKinds \/ ops[t].kind \in PeerKinds) => ops'[t] = ops[t]
    BY <1>7, <2>1
  <2> QED BY <1>1, <1>2, <2>1, <2>2 DEF PeerInv
<1> QED BY <1>9, <1>11, <1>12, <1>13, <1>14, <1>15 DEF ConsoleInv

\* An action that was answered goes on with reads: a teardown, a trusted reconcile.
LEMMA ReadsAfter ==
    ASSUME ConsoleInv, NEW s \in Slots, NEW R \in SUBSET Reports,
           ops[s].step = "asked", ops[s].kind \in {"teardown", "trustReconcile"},
           ops' = [ops EXCEPT ![s].step = "waiting"],
           fetches' = fetches \union Fetching(R, s),
           \/ ops[s].kind = "teardown" /\ hist' = hist
           \/ ops[s].kind = "trustReconcile" /\ hist' = Remember /\ changing \subseteq R,
           UNCHANGED <<page, changing, host, panel, pending, peers, rows, dialog, evidence, left>>
    PROVE  ConsoleInv'
<1> DEFINE new == [ops[s] EXCEPT !.step = "waiting"]
<1>1. /\ ConsoleTypes /\ CopyInv /\ AwaitInv /\ EvidenceInv /\ RefreshInv /\ NeverRefreshed /\ PeerInv
  BY DEF ConsoleInv
<1>2. OpWell(s) /\ ops[s] \in OpShapes(ops[s].arg)
  BY <1>1 DEF ConsoleTypes, OpWell
<1>3. /\ new \in OpShapes(ops[s].arg) /\ new.kind = ops[s].kind /\ new.arg = ops[s].arg
      /\ new.step = "waiting" /\ new.got = ops[s].got
  BY <1>2 DEF OpShapes
<1>4. ops' = [ops EXCEPT ![s] = new]
  OBVIOUS
<1> HIDE DEF new
<1>5. /\ ops' \in [Slots -> {ops'[t] : t \in Slots}]
      /\ ops'[s] = new /\ \A t \in Slots : t # s => ops'[t] = ops[t]
  BY <1>1, <1>4, OpsSet
<1>6. /\ s \in {0, 1, 2} /\ s # 0
  BY DEF Slots
<1>7. /\ \A f \in Fetching(R, s) :
            /\ f.op = s /\ f.rep \in R /\ f.rep \in changing
            /\ f.got = Nothing /\ f.got.res = "none" /\ f.got.state = "unloaded"
            /\ f \in [rep : changing, op : {0, 1, 2}, got : Gots]
      /\ \A f, g \in Fetching(R, s) : f.rep = g.rep => f = g
      /\ \A r \in R \intersect changing :
            \E f \in Fetching(R, s) : f.rep = r /\ f.op = s /\ f.got.res = "none"
  BY <1>1, <1>6, FetchingFacts
<1>8. /\ hist' \in Hists /\ hist'.disturbed = hist.disturbed /\ hist'.lost = hist.lost
      /\ hist'.asked = hist.asked /\ (hist'.refreshed => hist.refreshed)
  <2>1. hist \in Hists
    BY <1>1 DEF ConsoleTypes
  <2> QED BY <2>1, RememberFacts
<1>9. ConsoleTypes'
  <2>1. \A t \in Slots : OpWell(t)'
    <3>1. OpWell(s)'
      BY <1>2, <1>3, <1>5 DEF OpWell, PageKinds, PeerKinds
    <3>2. ASSUME NEW t \in Slots, t # s PROVE OpWell(t)'
      BY <1>1, <1>5, <3>2 DEF OpWell, PageKinds, ConsoleTypes
    <3> QED BY <3>1, <3>2
  <2>2. FetchTypes'
    BY <1>1, <1>7 DEF FetchTypes, ConsoleTypes
  <2>3. HostTypes'
    BY <1>1 DEF HostTypes, ConsoleTypes
  <2> QED BY <1>1, <1>5, <1>8, <2>1, <2>2, <2>3 DEF ConsoleTypes
<1>10. CopyInv'
  <2>1. \A f \in fetches' : f.got.res = "ok" => CopyOf(f.got, f.rep)'
    BY <1>1, <1>7 DEF CopyInv, CopyOf
  <2>2. \A t \in Slots : (ops'[t].kind \in {"reconcile", "teardown"} /\ ops'[t].got.res = "ok")
                            => CopyOf(ops[t].got, ops[t].arg)'
    BY <1>1, <1>3, <1>5 DEF CopyInv, CopyOf
  <2> QED BY <1>1, <2>1, <2>2 DEF CopyInv, CopyOf
<1>11. AwaitInv'
  <2>1. \A f \in fetches : f.op # s
    BY <1>1, <1>6 DEF AwaitInv
  <2>2. \A f \in fetches : f.op \in {0, 1, 2}
    BY <1>1 DEF ConsoleTypes, FetchTypes
  <2>3. \A f \in fetches' : f.op # 0 => (ops'[f.op].kind \notin {"none", "evidence"} /\ ops'[f.op].step = "waiting")
    BY <1>1, <1>3, <1>5, <1>6, <1>7, <2>1, <2>2 DEF AwaitInv, Slots
  <2>4. \A f, g \in fetches' : (f.op # 0 /\ f.op = g.op /\ f.rep = g.rep) => f = g
    BY <1>1, <1>7, <2>1 DEF AwaitInv
  <2> QED BY <2>3, <2>4 DEF AwaitInv
<1>12. EvidenceInv'
  BY <1>1 DEF EvidenceInv
<1>13. RefreshInv'
  <2>1. CASE ops[s].kind = "teardown"
    <3>1. page = "players"
      BY <1>2, <2>1 DEF OpWell, PageKinds, TrustKinds
    <3> QED BY <3>1 DEF RefreshInv
  <2>2. CASE ops[s].kind = "trustReconcile" /\ hist' = Remember /\ changing \subseteq R
    <3>1. hist' \in Hists /\ ~hist'.refreshed /\ hist'.spoiled = StaleUnderWay
      BY <1>1, <2>2, RememberFacts DEF ConsoleTypes
    <3>2. ASSUME ~hist'.spoiled PROVE \A f \in fetches' : f.got.res = "ok" => f.got.ver = host[f.rep].ver
      <4>1. ASSUME NEW f \in fetches, f.got.res = "ok" PROVE f.got.ver = host[f.rep].ver
        <5>1. ~(f.got.ver < host[f.rep].ver)
          BY <3>1, <3>2, <4>1 DEF StaleUnderWay
        <5>2. f.got.ver <= host[f.rep].ver
          BY <1>1, <4>1 DEF CopyInv, CopyOf
        <5>3. f.got.ver \in Int /\ host[f.rep].ver \in Int
          BY <1>1 DEF ConsoleTypes, FetchTypes, HostTypes, Gots
        <5> QED BY <5>1, <5>2, <5>3
      <4> QED BY <1>7, <4>1
    <3>3. Refreshing(s)' /\ \A r \in changing : OnItsWay(s, r)'
      BY <1>3, <1>5, <1>7, <2>2 DEF OnItsWay, Refreshing, TrustKinds
    <3> QED BY <3>1, <3>2, <3>3 DEF RefreshInv
  <2> QED BY <2>1, <2>2
<1>14. NeverRefreshed'
  BY <1>1, <1>8 DEF NeverRefreshed
<1>15. PeerInv'
  <2>1. ops[s].kind \notin PeerKinds /\ new.kind \notin PeerKinds /\ InFlight' = InFlight
    BY <1>3, <1>5 DEF PeerKinds, InFlight
  <2>2. \A t \in Slots : (ops'[t].kind \in PeerKinds \/ ops[t].kind \in PeerKinds) => ops'[t] = ops[t]
    BY <1>5, <2>1
  <2> QED BY <1>1, <1>8, <2>1, <2>2 DEF PeerInv
<1> QED BY <1>9, <1>10, <1>11, <1>12, <1>13, <1>14, <1>15 DEF ConsoleInv

\* An action ends: its slot is free, and no read of it is under way.
LEMMA FinishTypes ==
    ASSUME ConsoleInv, NEW s \in Slots, ops' = [ops EXCEPT ![s] = IdleOp],
           UNCHANGED <<page, changing>>
    PROVE  /\ ops' \in [Slots -> {ops'[t] : t \in Slots}]
           /\ ops'[s] = IdleOp /\ \A t \in Slots : t # s => ops'[t] = ops[t]
           /\ \A t \in Slots : OpWell(t)'
<1>1. ConsoleTypes
  BY DEF ConsoleInv
<1>2. /\ ops' \in [Slots -> {ops'[t] : t \in Slots}]
      /\ ops'[s] = IdleOp /\ \A t \in Slots : t # s => ops'[t] = ops[t]
  BY <1>1, OpsSet
<1>3. OpWell(s)'
  BY <1>2, IdleFacts DEF OpWell, PeerKinds
<1>4. ASSUME NEW t \in Slots, t # s PROVE OpWell(t)'
  BY <1>1, <1>2, <1>4 DEF OpWell, PageKinds, ConsoleTypes
<1> QED BY <1>2, <1>3, <1>4

\* The answer of a reconcile or a teardown.
LEMMA RuntimeAnswersStep ==
    ASSUME ConsoleInv, NEW s \in Slots, RuntimeAnswers(s)
    PROVE  ConsoleInv'
<1>1. /\ ConsoleTypes /\ CopyInv /\ AwaitInv /\ EvidenceInv /\ RefreshInv /\ NeverRefreshed /\ PeerInv
  BY DEF ConsoleInv
<1>2. /\ ops[s].kind \in {"reconcile", "teardown"} /\ ops[s].step = "asked" /\ ops[s].got.res # "none"
      /\ UNCHANGED <<page, changing, host, peers, rows, dialog, evidence, left>>
  BY DEF RuntimeAnswers
<1>3. PICK r : r = ops[s].arg
  OBVIOUS
<1>4. /\ r \in changing /\ r \in Reports /\ page = "players" /\ ops[s].got \in Gots
      /\ ops[s].got.state \in States(r) \union {"unloaded"}
  <2>1. page = "players"
    BY <1>1, <1>2 DEF ConsoleTypes, OpWell, PageKinds, TrustKinds
  <2> QED BY <1>1, <1>2, <1>3, <2>1 DEF ConsoleTypes, OpWell, OpShapes
<1>5. CASE ops[s].got.res = "ok" /\ ops[s].kind = "teardown"
  <2>1. /\ ops' = [ops EXCEPT ![s].step = "waiting"]
        /\ fetches' = fetches \union Fetching({r}, s)
        /\ hist' = hist /\ UNCHANGED <<panel, pending>>
    BY <1>3, <1>5 DEF RuntimeAnswers
  <2>2. {r} \in SUBSET Reports
    BY <1>4
  <2> QED BY <1>2, <1>5, <2>1, <2>2, ReadsAfter
<1>6. CASE ~(ops[s].got.res = "ok" /\ ops[s].kind = "teardown")
  <2> DEFINE x == Taken(ops[s].got)
  <2>1. /\ ops' = [ops EXCEPT ![s] = IdleOp] /\ pending' = "none"
        /\ panel' = IF ops[s].got.res = "ok" THEN [panel EXCEPT ![r] = x] ELSE panel
        /\ UNCHANGED <<fetches, hist>>
    BY <1>3, <1>6 DEF RuntimeAnswers, Finish
  <2>2. /\ ops' \in [Slots -> {ops'[t] : t \in Slots}]
        /\ ops'[s] = IdleOp /\ \A t \in Slots : t # s => ops'[t] = ops[t]
        /\ \A t \in Slots : OpWell(t)'
    BY <1>2, <2>1, FinishTypes
  <2>3. x \in [state : AnyState, ver : Int] /\ x.state = ops[s].got.state /\ x.ver = ops[s].got.ver
    BY <1>4 DEF Taken, Gots
  <2> HIDE DEF x
  <2>4. /\ panel' \in [Reports -> [state : AnyState, ver : Int]]
        /\ \A q \in Reports : panel'[q] = panel[q] \/ (q = r /\ ops[s].got.res = "ok" /\ panel'[q] = x)
    BY <1>1, <1>4, <2>1, <2>3 DEF ConsoleTypes, HostTypes
  <2>5. ConsoleTypes'
    <3>1. FetchTypes'
      BY <1>1, <1>2, <2>1 DEF ConsoleTypes, FetchTypes
    <3>2. HostTypes'
      BY <1>1, <1>2, <1>4, <2>3, <2>4 DEF ConsoleTypes, HostTypes
    <3> QED BY <1>1, <1>2, <2>1, <2>2, <3>1, <3>2 DEF ConsoleTypes
  <2>6. CopyInv'
    <3>1. ops[s].got.res = "ok" => CopyOf(x, r)
      BY <1>1, <1>2, <1>3, <2>3 DEF CopyInv, CopyOf
    <3>2. \A q \in Reports : CopyOf(panel[q], q)'
      BY <1>1, <1>2, <2>4, <3>1 DEF CopyInv, CopyOf
    <3>3. \A t \in Slots : (ops'[t].kind \in {"reconcile", "teardown"} /\ ops'[t].got.res = "ok")
                              => CopyOf(ops[t].got, ops[t].arg)'
      BY <1>1, <1>2, <2>2, IdleFacts DEF CopyInv, CopyOf
    <3> QED BY <1>1, <1>2, <1>4, <2>1, <2>4, <3>2, <3>3 DEF CopyInv, CopyOf
  <2>7. AwaitInv'
    <3>1. \A f \in fetches : f.op # s /\ f.op \in {0, 1, 2}
      BY <1>1, <1>2 DEF AwaitInv, ConsoleTypes, FetchTypes, Slots
    <3> QED BY <1>1, <2>1, <2>2, <3>1 DEF AwaitInv, Slots
  <2>8. EvidenceInv' /\ RefreshInv' /\ NeverRefreshed'
    BY <1>1, <1>2, <1>4, <2>1 DEF EvidenceInv, RefreshInv, NeverRefreshed
  <2>9. PeerInv'
    <3>1. InFlight' \subseteq InFlight /\ s \notin InFlight' /\ s \in InFlight /\ ops[s].kind \notin PeerKinds
      BY <1>2, <2>2, IdleFacts DEF InFlight, PeerKinds
    <3>2. ~hist.disturbed => InFlight' = {}
      BY <1>1, <1>4, <3>1 DEF PeerInv
    <3>3. \A t \in Slots : (ops'[t].kind \in PeerKinds \/ ops[t].kind \in PeerKinds) => ops'[t] = ops[t]
      BY <2>2, <3>1, IdleFacts DEF PeerKinds
    <3> QED BY <1>1, <1>2, <1>4, <2>1, <3>2, <3>3 DEF PeerInv
  <2> QED BY <2>5, <2>6, <2>7, <2>8, <2>9 DEF ConsoleInv
<1> QED BY <1>5, <1>6

\* A peer is rotated, revoked or read: the answer is what the peer is now.
LEMMA ServePeerStep ==
    ASSUME ConsoleInv, NEW s \in Slots, ServePeer(s)
    PROVE  ConsoleInv'
<1>1. /\ ConsoleTypes /\ CopyInv /\ AwaitInv /\ EvidenceInv /\ RefreshInv /\ NeverRefreshed /\ PeerInv
  BY DEF ConsoleInv
<1>2. /\ ops[s].kind \in PeerKinds /\ ops[s].got.res = "none"
      /\ UNCHANGED <<page, changing, host, panel, fetches, pending, rows, dialog, evidence, left>>
  BY DEF ServePeer
<1>3. PICK p : p = ops[s].arg
  OBVIOUS
<1>4. /\ p \in Players /\ page = "players" /\ ops[s].step = "asked"
      /\ ops[s] \in OpShapes(p) /\ ops[s].got \in Gots
      /\ peers \in [Players -> Peer] /\ peers[p] \in Peer /\ hist \in Hists
  <2>1. page = "players"
    BY <1>1, <1>2 DEF ConsoleTypes, OpWell, PageKinds, TrustKinds, PeerKinds
  <2> QED BY <1>1, <1>2, <1>3, <2>1 DEF ConsoleTypes, OpWell, OpShapes
<1>5. PICK after : after = PeerAfter(ops[s].kind, peers[p])
  OBVIOUS
<1>6. after \in Peer
  <2>1. CASE ops[s].kind = "rotate"
    BY <1>4, <1>5, <2>1 DEF PeerAfter, Peer
  <2>2. CASE ops[s].kind = "revoke"
    BY <1>4, <1>5, <2>2 DEF PeerAfter, Peer
  <2>3. CASE ops[s].kind = "inspect"
    BY <1>4, <1>5, <2>3 DEF PeerAfter
  <2> QED BY <1>2, <2>1, <2>2, <2>3 DEF PeerKinds
<1>7. PICK new :
         /\ ops' = [ops EXCEPT ![s] = new]
         /\ new \in OpShapes(p) /\ new.kind = ops[s].kind /\ new.arg = p /\ new.step = "asked"
         /\ \/ peers' = peers /\ hist' = hist /\ new.got.res = "failed"
            \/ /\ peers' = [peers EXCEPT ![p] = after] /\ hist' = [hist EXCEPT !.lost = hist.lost]
               /\ new.got.res = "ok" /\ new.got.ver = after.ver /\ new.got.state = after.status
            \/ /\ peers' = [peers EXCEPT ![p] = after]
               /\ hist' = [hist EXCEPT !.lost = hist.lost \/ after # peers[p]]
               /\ new.got.res = "failed"
  <2>1. CASE /\ peers' = [peers EXCEPT ![p] = after]
             /\ \E res \in {"ok", "failed"} :
                  /\ ops' = [ops EXCEPT ![s].got = [res |-> res, state |-> after.status, ver |-> after.ver]]
                  /\ hist' = [hist EXCEPT !.lost = @ \/ (res = "failed" /\ after # peers[p])]
    <3>1. PICK res \in {"ok", "failed"} :
                  /\ ops' = [ops EXCEPT ![s].got = [res |-> res, state |-> after.status, ver |-> after.ver]]
                  /\ hist' = [hist EXCEPT !.lost = @ \/ (res = "failed" /\ after # peers[p])]
      BY <2>1
    <3> DEFINE x == [res |-> res, state |-> after.status, ver |-> after.ver]
               new == [ops[s] EXCEPT !.got = x]
    <3>2. x \in Gots /\ x.res = res /\ x.state = after.status /\ x.ver = after.ver
      BY <1>6 DEF Gots, AnyState, Peer
    <3>3. ops' = [ops EXCEPT ![s] = new]
      BY <3>1
    <3>4. /\ res = "ok" => hist' = [hist EXCEPT !.lost = hist.lost]
          /\ res = "failed" => hist' = [hist EXCEPT !.lost = hist.lost \/ after # peers[p]]
      <4>1. hist.lost \in BOOLEAN
        BY <1>4 DEF Hists
      <4> QED BY <3>1, <4>1
    <3> HIDE DEF x
    <3>5. new \in OpShapes(p) /\ new.kind = ops[s].kind /\ new.arg = p /\ new.step = "asked" /\ new.got = x
      BY <1>2, <1>3, <1>4, <3>2 DEF OpShapes
    <3> HIDE DEF new
    <3> WITNESS new
    <3> QED BY <2>1, <3>2, <3>3, <3>4, <3>5
  <2>2. CASE ops' = [ops EXCEPT ![s].got.res = "failed"] /\ peers' = peers /\ hist' = hist
    <3> DEFINE x == [ops[s].got EXCEPT !.res = "failed"]
               new == [ops[s] EXCEPT !.got = x]
    <3>1. x \in Gots /\ x.res = "failed"
      BY <1>4 DEF Gots
    <3>2. ops' = [ops EXCEPT ![s] = new]
      BY <2>2
    <3> HIDE DEF x
    <3>3. new \in OpShapes(p) /\ new.kind = ops[s].kind /\ new.arg = p /\ new.step = "asked" /\ new.got = x
      BY <1>2, <1>3, <1>4, <3>1 DEF OpShapes
    <3> HIDE DEF new
    <3> WITNESS new
    <3> QED BY <2>2, <3>1, <3>2, <3>3
  <2> QED BY <1>3, <1>5, <2>1, <2>2 DEF ServePeer
<1>8. /\ hist' \in Hists /\ hist'.refreshed = hist.refreshed /\ hist'.spoiled = hist.spoiled
      /\ hist'.disturbed = hist.disturbed /\ hist'.asked = hist.asked /\ (hist.lost => hist'.lost)
      /\ \/ peers' = peers
         \/ peers' = [peers EXCEPT ![p] = after] /\ (new.got.res = "ok" \/ hist'.lost \/ after = peers[p])
  <2>1. ASSUME NEW b \in BOOLEAN, hist' = [hist EXCEPT !.lost = b]
        PROVE  /\ hist' \in Hists /\ hist'.refreshed = hist.refreshed /\ hist'.spoiled = hist.spoiled
               /\ hist'.disturbed = hist.disturbed /\ hist'.asked = hist.asked /\ hist'.lost = b
    BY <1>4, <2>1 DEF Hists
  <2>2. hist.lost \in BOOLEAN
    BY <1>4 DEF Hists
  <2>3. CASE peers' = peers /\ hist' = hist
    BY <1>4, <2>3
  <2>4. CASE peers' = [peers EXCEPT ![p] = after] /\ new.got.res = "ok" /\ hist' = [hist EXCEPT !.lost = hist.lost]
    BY <2>1, <2>2, <2>4
  <2>5. CASE peers' = [peers EXCEPT ![p] = after] /\ hist' = [hist EXCEPT !.lost = hist.lost \/ after # peers[p]]
    <3>1. (hist.lost \/ after # peers[p]) \in BOOLEAN
      OBVIOUS
    <3> QED BY <2>1, <2>5, <3>1
  <2> QED BY <1>7, <2>3, <2>4, <2>5
<1>9. /\ ops' \in [Slots -> {ops'[t] : t \in Slots}]
      /\ ops'[s] = new /\ \A t \in Slots : t # s => ops'[t] = ops[t]
  BY <1>1, <1>7, OpsSet
<1>10. peers' \in [Players -> Peer] /\ \A q \in Players : q # p => peers'[q] = peers[q]
  BY <1>4, <1>6, <1>8
<1>11. ConsoleTypes'
  <2>1. \A t \in Slots : OpWell(t)'
    <3>1. OpWell(s)'
      <4>1. new.got.res = "ok" => new.got.state \in {"active", "revoked"}
        BY <1>6, <1>7 DEF Peer
      <4>2. new.kind \in PageKinds /\ new.kind \notin {"reconcile", "teardown"}
        BY <1>1, <1>2, <1>4, <1>7 DEF PageKinds, PeerKinds
      <4>3. new.kind # "none" /\ new.kind \in PeerKinds
        BY <1>2, <1>7 DEF PeerKinds
      <4> QED BY <1>2, <1>4, <1>7, <1>9, <4>1, <4>2, <4>3 DEF OpWell, PageKinds
    <3>2. ASSUME NEW t \in Slots, t # s PROVE OpWell(t)'
      BY <1>1, <1>2, <1>9, <3>2 DEF OpWell, PageKinds, ConsoleTypes
    <3> QED BY <3>1, <3>2
  <2>2. FetchTypes' /\ HostTypes'
    BY <1>1, <1>2 DEF FetchTypes, HostTypes, ConsoleTypes
  <2> QED BY <1>1, <1>2, <1>8, <1>9, <1>10, <2>1, <2>2 DEF ConsoleTypes
<1>12. CopyInv'
  <2>1. \A t \in Slots : ops'[t].kind \in {"reconcile", "teardown"} => ops'[t] = ops[t]
    BY <1>2, <1>7, <1>9 DEF PeerKinds
  <2> QED BY <1>1, <1>2, <2>1 DEF CopyInv, CopyOf
<1>13. AwaitInv'
  <2>1. \A f \in fetches : f.op # s /\ f.op \in {0, 1, 2}
    BY <1>1, <1>4 DEF AwaitInv, ConsoleTypes, FetchTypes, Slots
  <2> QED BY <1>1, <1>2, <1>9, <2>1 DEF AwaitInv, Slots
<1>14. EvidenceInv' /\ RefreshInv' /\ NeverRefreshed'
  BY <1>1, <1>2, <1>4, <1>8 DEF EvidenceInv, RefreshInv, NeverRefreshed
<1>15. PeerInv'
  <2> SUFFICES ASSUME ~hist.disturbed PROVE PeerInv'
    BY <1>2, <1>4, <1>8 DEF PeerInv
  <2>1. InFlight' = InFlight /\ s \in InFlight
    BY <1>2, <1>7, <1>9 DEF InFlight, PeerKinds
  <2>2. \A t \in Slots : t # s => ops[t].kind = "none"
    BY <1>1, <1>4, <2>1 DEF PeerInv, InFlight
  <2>3. pending # "none" /\ ~dialog.open
    BY <1>1, <1>4, <2>1 DEF PeerInv
  <2>4. \A t \in Slots : (ops'[t].kind \in PeerKinds /\ ops'[t].got.res = "ok") => t = s
    BY <1>9, <2>2 DEF PeerKinds
  <2>5. new.got.res = "ok" => peers'[p] = [ver |-> new.got.ver, status |-> new.got.state]
    BY <1>4, <1>6, <1>7 DEF Peer
  <2>6. ~hist'.lost => \A q \in Players : rows[q] = peers[q]
    BY <1>1, <1>2, <1>4, <1>8, <2>2 DEF PeerInv, PeerKinds
  <2>7. ASSUME ~hist'.lost, NEW q \in Players
        PROVE  \/ rows'[q] = peers'[q]
               \/ \E t \in Slots : ops'[t].kind \in PeerKinds /\ ops'[t].got.res = "ok" /\ ops'[t].arg = q
    <3>1. CASE q # p \/ peers' = peers
      BY <1>2, <1>10, <2>6, <2>7, <3>1
    <3>2. CASE q = p /\ new.got.res = "ok"
      BY <1>2, <1>7, <1>9, <3>2
    <3>3. CASE q = p /\ after = peers[p] /\ peers' = [peers EXCEPT ![p] = after]
      BY <1>2, <1>4, <2>6, <2>7, <3>3
    <3> QED BY <1>8, <2>7, <3>1, <3>2, <3>3
  <2> QED BY <1>1, <1>2, <1>4, <1>7, <1>8, <1>9, <2>1, <2>3, <2>4, <2>5, <2>7 DEF PeerInv
<1> QED BY <1>11, <1>12, <1>13, <1>14, <1>15 DEF ConsoleInv

\* The answer about a peer reaches its row and the dialog.
LEMMA PeerAnswersStep ==
    ASSUME ConsoleInv, NEW s \in Slots, PeerAnswers(s)
    PROVE  ConsoleInv'
<1>1. /\ ConsoleTypes /\ CopyInv /\ AwaitInv /\ EvidenceInv /\ RefreshInv /\ NeverRefreshed /\ PeerInv
  BY DEF ConsoleInv
<1>2. /\ ops[s].kind \in PeerKinds /\ ops[s].got.res # "none"
      /\ ops' = [ops EXCEPT ![s] = IdleOp] /\ pending' = "none"
      /\ UNCHANGED <<page, changing, host, panel, fetches, peers, evidence, left>>
  BY DEF PeerAnswers, Finish
<1>3. PICK p : p = ops[s].arg
  OBVIOUS
<1>4. PICK peer : peer = [ver |-> ops[s].got.ver, status |-> ops[s].got.state]
  OBVIOUS
<1>5. /\ p \in Players /\ p \in {0, 1, 2} /\ page = "players" /\ ops[s].step = "asked" /\ ops[s].got \in Gots
      /\ rows \in [Players -> Peer] /\ hist \in Hists
      /\ ops[s].got.res = "ok" => peer \in Peer
      /\ peer.ver = ops[s].got.ver /\ peer.status = ops[s].got.state
  <2>1. page = "players"
    BY <1>1, <1>2 DEF ConsoleTypes, OpWell, PageKinds, TrustKinds, PeerKinds
  <2>2. p \in Players /\ ops[s].step = "asked" /\ ops[s].got \in Gots
        /\ (ops[s].got.res = "ok" => ops[s].got.state \in {"active", "revoked"})
    BY <1>1, <1>2, <1>3 DEF ConsoleTypes, OpWell, OpShapes
  <2> QED BY <1>1, <1>4, <2>1, <2>2 DEF ConsoleTypes, Gots, Peer, Players
<1>6. /\ rows' \in [Players -> Peer]
      /\ ops[s].got.res = "ok" => rows'[p] = peer
      /\ ops[s].got.res # "ok" => rows' = rows
      /\ \A q \in Players : q # p => rows'[q] = rows[q]
  <2>1. rows' = IF ops[s].got.res = "ok" THEN [rows EXCEPT ![p] = peer] ELSE rows
    BY <1>3, <1>4 DEF PeerAnswers, AppliedToRows
  <2> QED BY <1>5, <2>1
<1>7. /\ dialog' \in [open : BOOLEAN, player : {0, 1, 2}, ver : Int, status : {"none", "active", "revoked"}]
      /\ ops[s].got.res # "ok" => dialog' = dialog
      /\ ops[s].got.res = "ok" => /\ dialog'.open = (dialog.open \/ ops[s].kind # "revoke")
                                  /\ dialog'.player = p /\ dialog'.ver = peer.ver /\ dialog'.status = peer.status
  <2>1. dialog \in [open : BOOLEAN, player : {0, 1, 2}, ver : Int, status : {"none", "active", "revoked"}]
    BY <1>1 DEF ConsoleTypes
  <2>2. dialog' = IF ops[s].got.res = "ok" THEN Selected(ops[s].kind, p, peer) ELSE dialog
    BY <1>3, <1>4 DEF PeerAnswers
  <2>3. CASE ops[s].got.res # "ok"
    BY <2>1, <2>2, <2>3
  <2>4. CASE ops[s].got.res = "ok"
    <3> DEFINE open == dialog.open \/ ops[s].kind # "revoke"
    <3>1. dialog' = [open |-> open, player |-> p, ver |-> peer.ver, status |-> peer.status]
      BY <2>2, <2>4 DEF Selected
    <3>2. open \in BOOLEAN
      OBVIOUS
    <3>3. peer.ver \in Int /\ peer.status \in {"none", "active", "revoked"}
      BY <1>5, <2>4 DEF Peer
    <3> HIDE DEF open
    <3>4. /\ dialog' \in [open : BOOLEAN, player : {0, 1, 2}, ver : Int, status : {"none", "active", "revoked"}]
          /\ dialog'.open = open /\ dialog'.player = p /\ dialog'.ver = peer.ver /\ dialog'.status = peer.status
      BY <1>5, <3>1, <3>2, <3>3
    <3> QED BY <2>4, <3>4 DEF open
  <2> QED BY <2>3, <2>4
<1>8. /\ hist' \in Hists /\ hist'.refreshed = hist.refreshed /\ hist'.spoiled = hist.spoiled
      /\ hist'.disturbed = hist.disturbed /\ hist'.lost = hist.lost
      /\ (ops[s].got.res = "ok" /\ ops[s].kind # "revoke") => hist'.asked = p
      /\ ~(ops[s].got.res = "ok" /\ ops[s].kind # "revoke") => hist'.asked = hist.asked
  <2>1. hist' = IF ops[s].got.res = "ok" /\ ops[s].kind # "revoke" THEN [hist EXCEPT !.asked = p] ELSE hist
    BY <1>3 DEF PeerAnswers
  <2> QED BY <1>5, <2>1 DEF Hists
<1>9. /\ ops' \in [Slots -> {ops'[t] : t \in Slots}]
      /\ ops'[s] = IdleOp /\ \A t \in Slots : t # s => ops'[t] = ops[t]
      /\ \A t \in Slots : OpWell(t)'
  BY <1>2, FinishTypes
<1>10. ConsoleTypes'
  <2>1. FetchTypes' /\ HostTypes'
    BY <1>1, <1>2 DEF FetchTypes, HostTypes, ConsoleTypes
  <2>2. dialog'.open => dialog'.player \in Players
    BY <1>1, <1>5, <1>7 DEF ConsoleTypes
  <2> QED BY <1>1, <1>2, <1>6, <1>7, <1>8, <1>9, <2>1, <2>2 DEF ConsoleTypes
<1>11. CopyInv'
  BY <1>1, <1>2, <1>9, IdleFacts DEF CopyInv, CopyOf
<1>12. AwaitInv'
  <2>1. \A f \in fetches : f.op # s /\ f.op \in {0, 1, 2}
    BY <1>1, <1>5 DEF AwaitInv, ConsoleTypes, FetchTypes, Slots
  <2> QED BY <1>1, <1>2, <1>9, <2>1 DEF AwaitInv, Slots
<1>13. EvidenceInv' /\ RefreshInv' /\ NeverRefreshed'
  BY <1>1, <1>2, <1>5, <1>8 DEF EvidenceInv, RefreshInv, NeverRefreshed
<1>14. PeerInv'
  <2> SUFFICES ASSUME ~hist.disturbed PROVE PeerInv'
    BY <1>2, <1>5, <1>8 DEF PeerInv
  <2>1. s \in InFlight
    BY <1>2 DEF InFlight, PeerKinds
  <2>2. \A t \in Slots : t # s => ops[t].kind = "none"
    BY <1>1, <1>5, <2>1 DEF PeerInv, InFlight
  <2>3. \A t \in Slots : ops'[t].kind = "none"
    BY <1>9, <2>2, IdleFacts
  <2>4. InFlight' = {} /\ \A t \in Slots : ops'[t].kind \notin PeerKinds
    BY <2>3 DEF InFlight, PeerKinds
  <2>5. ~dialog.open /\ (ops[s].got.res = "ok" => peers[p] = peer)
    BY <1>1, <1>2, <1>3, <1>4, <1>5, <2>1 DEF PeerInv
  <2>6. dialog'.open => /\ dialog'.player = hist'.asked
                        /\ peers[dialog'.player] = [ver |-> dialog'.ver, status |-> dialog'.status]
    BY <1>4, <1>5, <1>7, <1>8, <2>5
  <2>7. ~hist.lost => \A q \in Players : rows'[q] = peers[q]
    <3>1. \A q \in Players : ~hist.lost => (rows[q] = peers[q] \/ (q = p /\ ops[s].got.res = "ok"))
      BY <1>1, <1>3, <1>5, <2>2 DEF PeerInv, PeerKinds
    <3> QED BY <1>5, <1>6, <2>5, <3>1
  <2> QED BY <1>2, <1>5, <1>8, <2>4, <2>6, <2>7 DEF PeerInv
<1> QED BY <1>10, <1>11, <1>12, <1>13, <1>14 DEF ConsoleInv

\* The WireGuard dialog is closed, and an overlapped action ends the pending state.
LEMMA DialogSteps ==
    ASSUME ConsoleInv, CloseWireGuardDialog \/ OverlappedActionEnds
    PROVE  ConsoleInv'
<1>1. /\ ConsoleTypes /\ CopyInv /\ AwaitInv /\ EvidenceInv /\ RefreshInv /\ NeverRefreshed /\ PeerInv
  BY DEF ConsoleInv
<1>2. UNCHANGED <<page, changing, host, panel, fetches, ops, peers, rows, evidence, left>>
  BY DEF CloseWireGuardDialog, OverlappedActionEnds
<1>3. FetchTypes' /\ HostTypes' /\ \A s \in Slots : OpWell(s)'
  BY <1>1, <1>2 DEF FetchTypes, HostTypes, OpWell, PageKinds, ConsoleTypes
<1>4. CopyInv' /\ AwaitInv' /\ EvidenceInv' /\ InFlight' = InFlight
  BY <1>1, <1>2 DEF CopyInv, CopyOf, AwaitInv, EvidenceInv, InFlight
<1>5. CASE CloseWireGuardDialog
  <2>1. pending' = pending /\ hist' = hist /\ dialog' = [dialog EXCEPT !.open = FALSE]
    BY <1>5 DEF CloseWireGuardDialog
  <2>2. /\ dialog' \in [open : BOOLEAN, player : {0, 1, 2}, ver : Int, status : {"none", "active", "revoked"}]
        /\ ~dialog'.open
    BY <1>1, <2>1 DEF ConsoleTypes
  <2>3. ConsoleTypes'
    BY <1>1, <1>2, <1>3, <2>1, <2>2 DEF ConsoleTypes
  <2>4. RefreshInv' /\ NeverRefreshed'
    BY <1>1, <1>2, <2>1 DEF RefreshInv, NeverRefreshed, UpToDate, Refreshing, OnItsWay
  <2>5. PeerInv'
    BY <1>1, <1>2, <1>4, <2>1, <2>2 DEF PeerInv
  <2> QED BY <1>4, <2>3, <2>4, <2>5 DEF ConsoleInv
<1>6. CASE OverlappedActionEnds
  <2>1. pending' = "none" /\ hist' = [hist EXCEPT !.disturbed = TRUE] /\ dialog' = dialog
    BY <1>6 DEF OverlappedActionEnds
  <2>2. /\ hist' \in Hists /\ hist'.disturbed /\ hist'.spoiled = hist.spoiled /\ hist'.refreshed = hist.refreshed
    BY <1>1, <2>1 DEF ConsoleTypes, Hists
  <2>3. ConsoleTypes'
    BY <1>1, <1>2, <1>3, <2>1, <2>2 DEF ConsoleTypes
  <2>4. RefreshInv' /\ NeverRefreshed'
    BY <1>1, <1>2, <2>2 DEF RefreshInv, NeverRefreshed, UpToDate, Refreshing, OnItsWay
  <2>5. PeerInv'
    BY <1>1, <1>2, <2>1, <2>2 DEF PeerInv
  <2> QED BY <1>4, <2>3, <2>4, <2>5 DEF ConsoleInv
<1> QED BY <1>5, <1>6

\* A section is read after the report was asked for, so it is not older.
LEMMA SectionReadStep ==
    ASSUME ConsoleInv, NEW s \in Slots, SectionRead(s)
    PROVE  ConsoleInv'
<1>1. /\ ConsoleTypes /\ CopyInv /\ AwaitInv /\ EvidenceInv /\ RefreshInv /\ NeverRefreshed /\ PeerInv
  BY DEF ConsoleInv
<1>2. UNCHANGED <<page, changing, host, panel, fetches, ops, pending, peers, rows, dialog, left, hist>>
  BY DEF SectionRead
<1>3. PICK r \in Unsettled(s) :
         \/ evidence' = [evidence EXCEPT ![s].read = @ \union {r}, ![s].ver[r] = ReadSection(r)]
         \/ evidence' = [evidence EXCEPT ![s].missing = @ \union {r}]
  BY DEF SectionRead
<1>4. /\ r \in Reports /\ host[r].ver \in Int /\ evidence \in [Slots -> Evidence] /\ evidence[s] \in Evidence
  BY <1>1 DEF Unsettled, ConsoleTypes, HostTypes
<1>5. PICK e : /\ evidence' = [evidence EXCEPT ![s] = e] /\ e \in Evidence /\ e.floor = evidence[s].floor
               /\ \A q \in Reports : \/ q = r /\ e.ver[q] = host[q].ver
                                     \/ e.ver[q] = evidence[s].ver[q] /\ (q \in e.read => q \in evidence[s].read)
  <2>1. CASE evidence' = [evidence EXCEPT ![s].read = @ \union {r}, ![s].ver[r] = ReadSection(r)]
    <3> DEFINE read == evidence[s].read \union {r}
               one == [evidence[s] EXCEPT !.read = read]
               ver == [one.ver EXCEPT ![r] = host[r].ver]
               e == [one EXCEPT !.ver = ver]
               half == [evidence EXCEPT ![s] = one]
    <3>1. read \in SUBSET Reports /\ \A q \in read : q = r \/ q \in evidence[s].read
      BY <1>4 DEF Evidence
    <3>2. evidence' = [half EXCEPT ![s].ver[r] = host[r].ver] /\ half[s] = one
      BY <1>4, <2>1 DEF ReadSection
    <3> HIDE DEF read
    <3>3. one \in Evidence /\ one.floor = evidence[s].floor /\ one.read = read /\ one.ver = evidence[s].ver
      BY <1>4, <3>1 DEF Evidence
    <3> HIDE DEF one
    <3>4. ver \in [Reports -> Int] /\ ver[r] = host[r].ver /\ \A q \in Reports : q # r => ver[q] = one.ver[q]
      BY <1>4, <3>3 DEF Evidence
    <3>5. evidence' = [half EXCEPT ![s] = e]
      BY <3>2
    <3>6. evidence' = [evidence EXCEPT ![s] = e]
      <4> HIDE DEF e
      <4> QED BY <1>4, <3>5
    <3> HIDE DEF ver
    <3>7. e \in Evidence /\ e.floor = one.floor /\ e.read = read /\ e.ver = ver
      BY <3>3, <3>4 DEF Evidence
    <3> HIDE DEF e
    <3> WITNESS e
    <3> QED BY <3>1, <3>3, <3>4, <3>6, <3>7
  <2>2. CASE evidence' = [evidence EXCEPT ![s].missing = @ \union {r}]
    <3> DEFINE missing == evidence[s].missing \union {r}
               e == [evidence[s] EXCEPT !.missing = missing]
    <3>1. missing \in SUBSET Reports
      BY <1>4 DEF Evidence
    <3>2. evidence' = [evidence EXCEPT ![s] = e]
      BY <2>2
    <3> HIDE DEF missing
    <3>3. e \in Evidence /\ e.floor = evidence[s].floor /\ e.read = evidence[s].read /\ e.ver = evidence[s].ver
      BY <1>4, <3>1 DEF Evidence
    <3> HIDE DEF e
    <3> WITNESS e
    <3> QED BY <3>2, <3>3
  <2> QED BY <1>3, <2>1, <2>2
<1>6. /\ evidence' \in [Slots -> Evidence] /\ evidence'[s] = e
      /\ \A t \in Slots : t # s => evidence'[t] = evidence[t]
  BY <1>4, <1>5
<1>7. EvidenceInv'
  <2>1. \A q \in Reports : /\ e.floor[q] <= host[q].ver /\ e.floor[q] \in Int /\ host[q].ver \in Int
                           /\ (q \in e.read => e.ver[q] >= e.floor[q])
    <3>1. \A q \in Reports : e.floor[q] \in Int /\ host[q].ver \in Int
      BY <1>1, <1>5 DEF Evidence, ConsoleTypes, HostTypes
    <3>2. \A q \in Reports : e.floor[q] <= host[q].ver
                             /\ (q \in evidence[s].read => evidence[s].ver[q] >= e.floor[q])
      BY <1>1, <1>5 DEF EvidenceInv
    <3> QED BY <1>5, <3>1, <3>2
  <2> QED BY <1>1, <1>2, <1>6, <2>1 DEF EvidenceInv
<1>8. ConsoleTypes'
  <2>1. FetchTypes' /\ HostTypes' /\ \A t \in Slots : OpWell(t)'
    BY <1>1, <1>2 DEF FetchTypes, HostTypes, OpWell, PageKinds, ConsoleTypes
  <2> QED BY <1>1, <1>2, <1>6, <2>1 DEF ConsoleTypes
<1>9. CopyInv' /\ AwaitInv' /\ NeverRefreshed'
  BY <1>1, <1>2 DEF CopyInv, CopyOf, AwaitInv, NeverRefreshed
<1>10. RefreshInv'
  BY <1>1, <1>2 DEF RefreshInv, UpToDate, Refreshing, OnItsWay
<1>11. PeerInv'
  BY <1>1, <1>2 DEF PeerInv, InFlight
<1> QED BY <1>7, <1>8, <1>9, <1>10, <1>11 DEF ConsoleInv

\* The evidence report is complete, or given up.
LEMMA EvidenceEndsStep ==
    ASSUME ConsoleInv, NEW s \in Slots, EvidenceEnds(s)
    PROVE  ConsoleInv'
<1>1. /\ ConsoleTypes /\ CopyInv /\ AwaitInv /\ EvidenceInv /\ RefreshInv /\ NeverRefreshed /\ PeerInv
  BY DEF ConsoleInv
<1>2. /\ ops[s].kind = "evidence" /\ ops' = [ops EXCEPT ![s] = IdleOp] /\ pending' = "none"
      /\ evidence' = evidence \/ evidence' = [evidence EXCEPT ![s] = NoEvidence]
      /\ UNCHANGED <<page, changing, host, panel, fetches, peers, rows, dialog, left, hist>>
  BY DEF EvidenceEnds, Finish
<1>3. page = "game"
  BY <1>1, <1>2 DEF ConsoleTypes, OpWell, PageKinds, TrustKinds, PeerKinds
<1>4. /\ ops' \in [Slots -> {ops'[t] : t \in Slots}]
      /\ ops'[s] = IdleOp /\ \A t \in Slots : t # s => ops'[t] = ops[t]
      /\ \A t \in Slots : OpWell(t)'
  BY <1>2, FinishTypes
<1>5. /\ evidence' \in [Slots -> Evidence]
      /\ \A t \in Slots : evidence'[t] = evidence[t] \/ evidence'[t] = NoEvidence
  <2>1. NoEvidence \in Evidence
    BY DEF NoEvidence, Evidence
  <2> QED BY <1>1, <1>2, <2>1 DEF ConsoleTypes
<1>6. ConsoleTypes'
  <2>1. FetchTypes' /\ HostTypes'
    BY <1>1, <1>2 DEF FetchTypes, HostTypes, ConsoleTypes
  <2> QED BY <1>1, <1>2, <1>4, <1>5, <2>1 DEF ConsoleTypes
<1>7. CopyInv'
  BY <1>1, <1>2, <1>4, IdleFacts DEF CopyInv, CopyOf
<1>8. AwaitInv'
  <2>1. \A f \in fetches : f.op # s /\ f.op \in {0, 1, 2}
    BY <1>1, <1>2 DEF AwaitInv, ConsoleTypes, FetchTypes, Slots
  <2> QED BY <1>1, <1>2, <1>4, <2>1 DEF AwaitInv, Slots
<1>9. EvidenceInv'
  <2>1. \A r \in Reports : -1 <= host[r].ver
    BY <1>1 DEF EvidenceInv
  <2>2. NoEvidence.read = {} /\ \A r \in Reports : NoEvidence.floor[r] = -1
    BY DEF NoEvidence
  <2> QED BY <1>1, <1>2, <1>5, <2>1, <2>2 DEF EvidenceInv
<1>10. RefreshInv' /\ NeverRefreshed'
  <2>1. \A t \in Slots : Refreshing(t)' <=> Refreshing(t)
    BY <1>2, <1>4, IdleFacts DEF Refreshing, TrustKinds
  <2> QED BY <1>1, <1>2, <2>1 DEF RefreshInv, UpToDate, OnItsWay, NeverRefreshed
<1>11. PeerInv'
  BY <1>1, <1>2, <1>3 DEF PeerInv
<1> QED BY <1>6, <1>7, <1>8, <1>9, <1>10, <1>11 DEF ConsoleInv

\* The host moves on: copies stay copies, and a refresh that was true is spoiled.
LEMMA HostAdvances ==
    ASSUME ConsoleInv,
           host' \in [Reports -> [state : AnyState, ver : Int]],
           \A q \in Reports : host'[q].state \in States(q),
           \A q \in Reports : host'[q] = host[q] \/ (q \in changing /\ host'[q].ver = host[q].ver + 1),
           ops' \in [Slots -> {ops'[t] : t \in Slots}], \A t \in Slots : OpWell(t)',
           \A t \in Slots : /\ ops'[t].kind = ops[t].kind /\ ops'[t].step = ops[t].step
                            /\ ops[t].kind # "trustReconcile" => ops'[t] = ops[t],
           hist' = [hist EXCEPT !.spoiled = TRUE],
           left' \in [changes : Nat, actions : Nat],
           UNCHANGED <<page, changing, panel, fetches, pending, peers, rows, dialog, evidence>>
    PROVE  ConsoleInv'
<1>1. /\ ConsoleTypes /\ CopyInv /\ AwaitInv /\ EvidenceInv /\ RefreshInv /\ NeverRefreshed /\ PeerInv
  BY DEF ConsoleInv
<1>2. /\ hist' \in Hists /\ hist'.spoiled /\ hist'.refreshed = hist.refreshed /\ hist'.lost = hist.lost
      /\ hist'.disturbed = hist.disturbed /\ hist'.asked = hist.asked
  BY <1>1 DEF ConsoleTypes, Hists
<1>3. ConsoleTypes'
  <2>1. FetchTypes'
    BY <1>1 DEF FetchTypes, ConsoleTypes
  <2>2. HostTypes'
    BY <1>1 DEF HostTypes, ConsoleTypes
  <2> QED BY <1>1, <1>2, <2>1, <2>2 DEF ConsoleTypes
<1>4. ASSUME NEW q \in Reports, NEW x, x.ver \in Int, CopyOf(x, q)
      PROVE  x.ver <= host'[q].ver /\ (x.ver = host'[q].ver => x.state = host'[q].state)
  <2>1. host[q].ver \in Int
    BY <1>1 DEF ConsoleTypes, HostTypes
  <2>2. CASE host'[q] = host[q]
    BY <1>4, <2>2 DEF CopyOf
  <2>3. CASE host'[q].ver = host[q].ver + 1
    BY <1>4, <2>1, <2>3 DEF CopyOf
  <2> QED BY <2>2, <2>3
<1>5. CopyInv'
  <2>1. \A q \in Reports : CopyOf(panel[q], q)'
    <3>1. \A q \in Reports : panel[q].ver \in Int
      BY <1>1 DEF ConsoleTypes, HostTypes
    <3> QED BY <1>1, <1>4, <3>1 DEF CopyInv, CopyOf
  <2>2. \A q \in Reports : q \notin changing => (host'[q].state = "good" /\ panel[q].ver = host'[q].ver)
    BY <1>1 DEF CopyInv
  <2>3. \A f \in fetches : f.got.res = "ok" => CopyOf(f.got, f.rep)'
    <3>1. \A f \in fetches : f.got.ver \in Int /\ f.rep \in Reports
      BY <1>1 DEF ConsoleTypes, FetchTypes, Gots
    <3> QED BY <1>1, <1>4, <3>1 DEF CopyInv, CopyOf
  <2>4. \A t \in Slots : (ops'[t].kind \in {"reconcile", "teardown"} /\ ops'[t].got.res = "ok")
                            => CopyOf(ops[t].got, ops[t].arg)'
    <3>1. ASSUME NEW t \in Slots, ops[t].kind \in {"reconcile", "teardown"}, ops[t].got.res = "ok"
          PROVE  CopyOf(ops[t].got, ops[t].arg)'
      <4>1. ops[t].arg \in Reports /\ ops[t].got.ver \in Int /\ ops'[t] = ops[t]
        BY <1>1, <3>1 DEF ConsoleTypes, OpWell, OpShapes, Gots
      <4> QED BY <1>1, <1>4, <3>1, <4>1 DEF CopyInv, CopyOf
    <3> QED BY <3>1
  <2> QED BY <2>1, <2>2, <2>3, <2>4 DEF CopyInv
<1>6. AwaitInv'
  <2>1. \A f \in fetches : f.op \in {0, 1, 2}
    BY <1>1 DEF ConsoleTypes, FetchTypes
  <2> QED BY <1>1, <2>1 DEF AwaitInv, Slots
<1>7. EvidenceInv'
  <2>1. \A t \in Slots : \A q \in Reports : evidence[t].floor[q] \in Int /\ host[q].ver \in Int
    <3>1. evidence \in [Slots -> Evidence] /\ host \in [Reports -> [state : AnyState, ver : Int]]
      BY <1>1 DEF ConsoleTypes, HostTypes
    <3> QED BY <3>1 DEF Evidence
  <2>2. \A t \in Slots : \A q \in Reports : -1 <= host'[q].ver /\ evidence[t].floor[q] <= host'[q].ver
    BY <1>1, <2>1 DEF EvidenceInv
  <2> QED BY <1>1, <2>2 DEF EvidenceInv
<1>8. RefreshInv' /\ NeverRefreshed'
  BY <1>1, <1>2 DEF RefreshInv, NeverRefreshed
<1>9. PeerInv'
  <2>1. CASE page # "players"
    BY <1>1, <2>1 DEF PeerInv
  <2>2. CASE page = "players"
    <3>1. \A t \in Slots : ops'[t] = ops[t]
      BY <1>1, <2>2 DEF ConsoleTypes, OpWell, PageKinds, PeerKinds
    <3>2. InFlight' = InFlight /\ PeerInv
      BY <1>1, <3>1 DEF InFlight
    <3>3. ops' = ops
      BY <1>1, <3>1 DEF ConsoleTypes
    <3> QED BY <1>2, <3>2, <3>3 DEF PeerInv
  <2> QED BY <2>1, <2>2
<1> QED BY <1>3, <1>5, <1>6, <1>7, <1>8, <1>9 DEF ConsoleInv

\* The host changes on its own account.
LEMMA HostMovesStep ==
    ASSUME ConsoleInv, HostMoves
    PROVE  ConsoleInv'
<1>1. ConsoleTypes
  BY DEF ConsoleInv
<1>2. /\ left.changes > 0 /\ left' = [left EXCEPT !.changes = left.changes - 1]
      /\ hist' = [hist EXCEPT !.spoiled = TRUE]
      /\ UNCHANGED <<page, changing, panel, fetches, ops, pending, peers, rows, dialog, evidence>>
  BY DEF HostMoves
<1>3. PICK r \in changing : \E state \in States(r) :
         host' = [host EXCEPT ![r] = [state |-> state, ver |-> host[r].ver + 1]]
  BY DEF HostMoves
<1>10. PICK state \in States(r) : host' = [host EXCEPT ![r] = [state |-> state, ver |-> host[r].ver + 1]]
  BY <1>3
<1>4. r \in Reports /\ host \in [Reports -> [state : AnyState, ver : Int]] /\ state \in AnyState
  BY <1>1, <1>10 DEF ConsoleTypes, HostTypes, States, AnyState
<1> DEFINE y == [state |-> state, ver |-> host[r].ver + 1]
<1>5. y \in [state : AnyState, ver : Int] /\ y.state = state /\ y.ver = host[r].ver + 1
  BY <1>4
<1>6. host' = [host EXCEPT ![r] = y]
  BY <1>10
<1> HIDE DEF y
<1>7. /\ host' \in [Reports -> [state : AnyState, ver : Int]]
      /\ \A q \in Reports : host'[q].state \in States(q)
      /\ \A q \in Reports : host'[q] = host[q] \/ (q \in changing /\ host'[q].ver = host[q].ver + 1)
  BY <1>1, <1>4, <1>5, <1>6, <1>10 DEF ConsoleTypes, HostTypes
<1>8. left' \in [changes : Nat, actions : Nat]
  BY <1>1, <1>2 DEF ConsoleTypes
<1>9. ops' \in [Slots -> {ops'[t] : t \in Slots}] /\ \A t \in Slots : OpWell(t)'
  BY <1>1, <1>2 DEF ConsoleTypes, OpWell, PageKinds
<1> QED BY <1>2, <1>7, <1>8, <1>9, HostAdvances

\* The gateway reconciles, and the answer says so, says it failed, or is lost.
LEMMA ServeTrustedStep ==
    ASSUME ConsoleInv, NEW s \in Slots, ServeTrusted(s)
    PROVE  ConsoleInv'
<1>1. /\ ConsoleTypes /\ CopyInv /\ AwaitInv /\ EvidenceInv /\ RefreshInv /\ NeverRefreshed /\ PeerInv
  BY DEF ConsoleInv
<1>2. /\ ops[s].kind = "trustReconcile" /\ ops[s].step = "asked"
      /\ UNCHANGED <<page, changing, panel, fetches, pending, peers, rows, dialog, evidence, left>>
  BY DEF ServeTrusted
<1>3. OpWell(s) /\ ops[s] \in OpShapes(ops[s].arg) /\ ops[s].got \in Gots /\ left \in [changes : Nat, actions : Nat]
  BY <1>1 DEF ConsoleTypes, OpWell, OpShapes
<1>4. ASSUME NEW res \in {"ok", "failed"}, ops' = [ops EXCEPT ![s].got.res = res]
      PROVE  /\ ops' \in [Slots -> {ops'[t] : t \in Slots}] /\ \A t \in Slots : OpWell(t)'
             /\ \A t \in Slots : /\ ops'[t].kind = ops[t].kind /\ ops'[t].step = ops[t].step
                                 /\ ops[t].kind # "trustReconcile" => ops'[t] = ops[t]
  <2> DEFINE x == [ops[s].got EXCEPT !.res = res]
             new == [ops[s] EXCEPT !.got = x]
  <2>1. x \in Gots
    BY <1>3 DEF Gots
  <2>2. ops' = [ops EXCEPT ![s] = new]
    BY <1>4
  <2> HIDE DEF x
  <2>3. new \in OpShapes(ops[s].arg) /\ new.kind = ops[s].kind /\ new.arg = ops[s].arg /\ new.step = ops[s].step
    BY <1>3, <2>1 DEF OpShapes
  <2> HIDE DEF new
  <2>4. /\ ops' \in [Slots -> {ops'[t] : t \in Slots}]
        /\ ops'[s] = new /\ \A t \in Slots : t # s => ops'[t] = ops[t]
    BY <1>1, <2>2, OpsSet
  <2>5. OpWell(s)'
    BY <1>2, <1>3, <2>3, <2>4 DEF OpWell, PageKinds, PeerKinds
  <2>6. ASSUME NEW t \in Slots, t # s PROVE OpWell(t)'
    BY <1>1, <1>2, <2>4, <2>6 DEF OpWell, PageKinds, ConsoleTypes
  <2> QED BY <1>2, <2>3, <2>4, <2>5, <2>6
<1>5. CASE \E reached \in [changing -> {"good", "bad"}], res \in {"ok", "failed"} :
             /\ host' = [r \in Reports |-> IF r \in changing
                           THEN [state |-> reached[r], ver |-> host[r].ver + 1] ELSE host[r]]
             /\ ops' = [ops EXCEPT ![s].got.res = res]
             /\ hist' = [hist EXCEPT !.spoiled = TRUE]
  <2>1. PICK reached \in [changing -> {"good", "bad"}], res \in {"ok", "failed"} :
             /\ host' = [r \in Reports |-> IF r \in changing
                           THEN [state |-> reached[r], ver |-> host[r].ver + 1] ELSE host[r]]
             /\ ops' = [ops EXCEPT ![s].got.res = res]
             /\ hist' = [hist EXCEPT !.spoiled = TRUE]
    BY <1>5
  <2>2. /\ ops' \in [Slots -> {ops'[t] : t \in Slots}] /\ \A t \in Slots : OpWell(t)'
        /\ \A t \in Slots : /\ ops'[t].kind = ops[t].kind /\ ops'[t].step = ops[t].step
                            /\ ops[t].kind # "trustReconcile" => ops'[t] = ops[t]
    BY <1>4, <2>1
  <2>3. page = "deployments" /\ "metrics" \notin changing
    <3>1. page = "deployments"
      BY <1>2, <1>3 DEF OpWell, PageKinds, PeerKinds
    <3> QED BY <1>1, <3>1 DEF ConsoleTypes, ShownOn
  <2>4. ASSUME NEW q \in Reports
        PROVE  /\ host'[q] \in [state : AnyState, ver : Int] /\ host'[q].state \in States(q)
               /\ host'[q] = host[q] \/ (q \in changing /\ host'[q].ver = host[q].ver + 1)
    <3>1. host[q] \in [state : AnyState, ver : Int] /\ host[q].state \in States(q)
      BY <1>1 DEF ConsoleTypes, HostTypes
    <3>2. CASE q \in changing
      <4>1. host'[q] = [state |-> reached[q], ver |-> host[q].ver + 1] /\ reached[q] \in {"good", "bad"}
        BY <2>1, <3>2
      <4>2. q # "metrics"
        BY <2>3, <3>2
      <4> QED BY <3>1, <3>2, <4>1, <4>2 DEF AnyState, States
    <3>3. CASE q \notin changing
      BY <2>1, <3>1, <3>3
    <3> QED BY <3>2, <3>3
  <2>5. host' \in [Reports -> [state : AnyState, ver : Int]]
    <3>1. host' = [q \in Reports |-> host'[q]]
      BY <2>1
    <3> QED BY <2>4, <3>1
  <2>6. left' \in [changes : Nat, actions : Nat]
    BY <1>2, <1>3
  <2> QED BY <1>2, <2>1, <2>2, <2>4, <2>5, <2>6, HostAdvances
<1>6. CASE ops' = [ops EXCEPT ![s].got.res = "failed"] /\ UNCHANGED <<host, hist>>
  <2>1. /\ ops' \in [Slots -> {ops'[t] : t \in Slots}] /\ \A t \in Slots : OpWell(t)'
        /\ \A t \in Slots : /\ ops'[t].kind = ops[t].kind /\ ops'[t].step = ops[t].step
                            /\ ops[t].kind # "trustReconcile" => ops'[t] = ops[t]
    BY <1>4, <1>6
  <2>2. ConsoleTypes'
    <3>1. FetchTypes' /\ HostTypes'
      BY <1>1, <1>2, <1>6 DEF FetchTypes, HostTypes, ConsoleTypes
    <3> QED BY <1>1, <1>2, <1>6, <2>1, <3>1 DEF ConsoleTypes
  <2>3. CopyInv' /\ EvidenceInv' /\ NeverRefreshed'
    BY <1>1, <1>2, <1>6, <2>1 DEF CopyInv, CopyOf, EvidenceInv, NeverRefreshed
  <2>4. AwaitInv'
    <3>1. \A f \in fetches : f.op \in {0, 1, 2}
      BY <1>1 DEF ConsoleTypes, FetchTypes
    <3> QED BY <1>1, <1>2, <2>1, <3>1 DEF AwaitInv, Slots
  <2>5. RefreshInv'
    BY <1>1, <1>2, <1>6, <2>1 DEF RefreshInv, UpToDate, OnItsWay, Refreshing
  <2>6. PeerInv'
    <3>1. page # "players"
      BY <1>2, <1>3 DEF OpWell, PageKinds, PeerKinds
    <3> QED BY <1>1, <1>2, <3>1 DEF PeerInv
  <2> QED BY <2>2, <2>3, <2>4, <2>5, <2>6 DEF ConsoleInv
<1> QED BY <1>5, <1>6 DEF ServeTrusted

\* The answer of the trusted panel's reconcile, after which it reads its reports.
LEMMA TrustedAnswersStep ==
    ASSUME ConsoleInv, NEW s \in Slots, TrustedAnswers(s)
    PROVE  ConsoleInv'
<1>1. /\ ConsoleTypes /\ CopyInv /\ AwaitInv /\ EvidenceInv /\ RefreshInv /\ NeverRefreshed /\ PeerInv
  BY DEF ConsoleInv
<1>2. /\ ops[s].kind = "trustReconcile" /\ ops[s].step = "asked"
      /\ UNCHANGED <<page, changing, host, panel, peers, rows, dialog, evidence, left>>
  BY DEF TrustedAnswers
<1>3. page = "deployments"
  BY <1>1, <1>2 DEF ConsoleTypes, OpWell, PageKinds, PeerKinds
<1>4. CASE ops[s].got.res = "ok"
  <2>1. PICK R : R = ShownOn(page)
    OBVIOUS
  <2>2. R \in SUBSET Reports /\ changing \subseteq R
    BY <1>1, <1>3, <2>1 DEF ConsoleTypes, ShownOn, Reports
  <2>3. /\ ops' = [ops EXCEPT ![s].step = "waiting"]
        /\ fetches' = fetches \union Fetching(R, s)
        /\ hist' = Remember /\ UNCHANGED pending
    BY <1>4, <2>1 DEF TrustedAnswers
  <2> QED BY <1>2, <2>2, <2>3, ReadsAfter
<1>5. CASE ops[s].got.res # "ok"
  <2>1. ops' = [ops EXCEPT ![s] = IdleOp] /\ pending' = "none" /\ UNCHANGED <<fetches, hist>>
    BY <1>5 DEF TrustedAnswers, Finish
  <2>2. /\ ops' \in [Slots -> {ops'[t] : t \in Slots}]
        /\ ops'[s] = IdleOp /\ \A t \in Slots : t # s => ops'[t] = ops[t]
        /\ \A t \in Slots : OpWell(t)'
    BY <1>2, <2>1, FinishTypes
  <2>3. ConsoleTypes'
    <3>1. FetchTypes' /\ HostTypes'
      BY <1>1, <1>2, <2>1 DEF FetchTypes, HostTypes, ConsoleTypes
    <3> QED BY <1>1, <1>2, <2>1, <2>2, <3>1 DEF ConsoleTypes
  <2>4. CopyInv'
    BY <1>1, <1>2, <2>1, <2>2, IdleFacts DEF CopyInv, CopyOf
  <2>5. AwaitInv'
    <3>1. \A f \in fetches : f.op # s /\ f.op \in {0, 1, 2}
      BY <1>1, <1>2 DEF AwaitInv, ConsoleTypes, FetchTypes, Slots
    <3> QED BY <1>1, <2>1, <2>2, <3>1 DEF AwaitInv, Slots
  <2>6. EvidenceInv' /\ NeverRefreshed'
    BY <1>1, <1>2, <2>1 DEF EvidenceInv, NeverRefreshed
  <2>7. RefreshInv'
    <3>1. \A t \in Slots : Refreshing(t)' <=> Refreshing(t)
      BY <1>2, <2>2, IdleFacts DEF Refreshing
    <3> QED BY <1>1, <1>2, <2>1, <3>1 DEF RefreshInv, UpToDate, OnItsWay
  <2>8. PeerInv'
    BY <1>1, <1>2, <1>3 DEF PeerInv
  <2> QED BY <2>3, <2>4, <2>5, <2>6, <2>7, <2>8 DEF ConsoleInv
<1> QED BY <1>4, <1>5

\* A batch of the trusted panel ends: its answers are taken over together, or none is.
LEMMA TrustedBatchEndsStep ==
    ASSUME ConsoleInv, NEW s \in Slots, TrustedBatchEnds(s)
    PROVE  ConsoleInv'
<1>1. /\ ConsoleTypes /\ CopyInv /\ AwaitInv /\ EvidenceInv /\ RefreshInv /\ NeverRefreshed /\ PeerInv
  BY DEF ConsoleInv
<1>2. /\ ops[s].kind \in TrustKinds /\ ops[s].step = "waiting"
      /\ \A f \in Awaited(s) : f.got.res # "none"
      /\ fetches' = fetches \ Awaited(s) /\ ops' = [ops EXCEPT ![s] = IdleOp]
      /\ pending' = (IF ops[s].kind = "trustReconcile" THEN "none" ELSE pending)
      /\ UNCHANGED <<page, changing, host, peers, rows, dialog, evidence, left>>
  BY DEF TrustedBatchEnds
<1>3. page = "deployments" /\ s # 0
  BY <1>1, <1>2 DEF ConsoleTypes, OpWell, PageKinds, PeerKinds, TrustKinds, Slots
<1>4. /\ ops' \in [Slots -> {ops'[t] : t \in Slots}]
      /\ ops'[s] = IdleOp /\ \A t \in Slots : t # s => ops'[t] = ops[t]
      /\ \A t \in Slots : OpWell(t)'
  BY <1>2, FinishTypes
<1>5. /\ fetches' \subseteq fetches /\ \A f \in fetches' : f.op # s
      /\ \A f \in fetches : f.op # s => f \in fetches'
      /\ \A f \in fetches : /\ f.rep \in changing /\ f.rep \in Reports /\ f.op \in {0, 1, 2} /\ f.got \in Gots
                            /\ f.got.state \in States(f.rep) \union {"unloaded"}
      /\ \A f \in Awaited(s) : f \in fetches /\ f.op = s
      /\ \A f \in fetches : f.op = s => f \in Awaited(s)
  BY <1>1, <1>2 DEF Awaited, ConsoleTypes, FetchTypes
<1>6. pending' \in Kinds \union {"none"} /\ hist \in Hists /\ panel \in [Reports -> [state : AnyState, ver : Int]]
  BY <1>1, <1>2 DEF ConsoleTypes, HostTypes
<1>7. \/ /\ panel' = [r \in Reports |->
                         IF \E f \in Awaited(s) : f.rep = r /\ f.got.res = "ok"
                         THEN Taken((CHOOSE f \in Awaited(s) : f.rep = r).got) ELSE panel[r]]
         /\ hist' = [hist EXCEPT !.refreshed = \A t \in InFlight : t = s \/ ops[t].step = "asked"]
      \/ panel' = panel /\ hist' = [hist EXCEPT !.spoiled = TRUE]
  BY DEF TrustedBatchEnds
<1>8. \/ /\ panel' = panel /\ hist' \in Hists /\ hist'.spoiled /\ hist'.refreshed = hist.refreshed
      \/ /\ \A f \in Awaited(s) : f.got.res = "ok" => panel'[f.rep] = Taken(f.got)
         /\ \A r \in Reports : \/ panel'[r] = panel[r]
                               \/ \E f \in Awaited(s) : f.rep = r /\ f.got.res = "ok" /\ panel'[r] = Taken(f.got)
         /\ panel' = [r \in Reports |-> panel'[r]]
         /\ hist' \in Hists /\ hist'.spoiled = hist.spoiled
         /\ hist'.refreshed = (\A t \in InFlight : t = s \/ ops[t].step = "asked")
  <2>1. CASE panel' = panel /\ hist' = [hist EXCEPT !.spoiled = TRUE]
    <3>1. hist' \in Hists /\ hist'.spoiled /\ hist'.refreshed = hist.refreshed
      BY <1>6, <2>1 DEF Hists
    <3> QED BY <2>1, <3>1
  <2>2. CASE /\ panel' = [r \in Reports |->
                            IF \E f \in Awaited(s) : f.rep = r /\ f.got.res = "ok"
                            THEN Taken((CHOOSE f \in Awaited(s) : f.rep = r).got) ELSE panel[r]]
             /\ hist' = [hist EXCEPT !.refreshed = \A t \in InFlight : t = s \/ ops[t].step = "asked"]
    <3>1. ASSUME NEW f \in Awaited(s) PROVE (CHOOSE g \in Awaited(s) : g.rep = f.rep) = f
      <4>1. \A g, h \in Awaited(s) : g.rep = h.rep => g = h
        BY <1>1, <1>3, <1>5 DEF AwaitInv
      <4>2. PICK g : g = CHOOSE h \in Awaited(s) : h.rep = f.rep
        OBVIOUS
      <4>3. g \in Awaited(s) /\ g.rep = f.rep
        BY <4>2
      <4> QED BY <4>1, <4>2, <4>3
    <3>2. ASSUME NEW f \in Awaited(s), f.got.res = "ok" PROVE panel'[f.rep] = Taken(f.got)
      <4>1. panel'[f.rep] = Taken((CHOOSE g \in Awaited(s) : g.rep = f.rep).got)
        BY <1>5, <2>2, <3>2
      <4> QED BY <3>1, <4>1
    <3>3. \A r \in Reports : \/ panel'[r] = panel[r]
                             \/ \E f \in Awaited(s) : f.rep = r /\ f.got.res = "ok" /\ panel'[r] = Taken(f.got)
      BY <2>2, <3>2
    <3>4. panel' = [r \in Reports |-> panel'[r]]
      BY <2>2
    <3> DEFINE alone == \A t \in InFlight : t = s \/ ops[t].step = "asked"
    <3>5. alone \in BOOLEAN /\ hist' = [hist EXCEPT !.refreshed = alone]
      BY <2>2
    <3>6. hist' \in Hists /\ hist'.spoiled = hist.spoiled /\ hist'.refreshed = alone
      <4> HIDE DEF alone
      <4> QED BY <1>6, <3>5 DEF Hists
    <3> QED BY <3>2, <3>3, <3>4, <3>6
  <2> QED BY <1>7, <2>1, <2>2
<1>9. \A f \in fetches : /\ Taken(f.got) \in [state : AnyState, ver : Int]
                         /\ Taken(f.got).state = f.got.state /\ Taken(f.got).ver = f.got.ver
  BY <1>5 DEF Taken, Gots
<1>10. ASSUME NEW r \in Reports
       PROVE  \/ panel'[r] = panel[r]
              \/ \E f \in fetches : f.op = s /\ f.rep = r /\ f.got.res = "ok" /\ panel'[r] = Taken(f.got)
  BY <1>5, <1>8
<1>11. ConsoleTypes'
  <2>1. FetchTypes'
    BY <1>1, <1>2, <1>5 DEF FetchTypes, ConsoleTypes
  <2>2. panel' \in [Reports -> [state : AnyState, ver : Int]]
    <3>1. \A r \in Reports : panel'[r] \in [state : AnyState, ver : Int]
      BY <1>6, <1>9, <1>10
    <3>2. panel' = [r \in Reports |-> panel'[r]]
      BY <1>6, <1>8
    <3> QED BY <3>1, <3>2
  <2>3. \A r \in Reports : panel'[r].state \in States(r) \union {"unloaded"}
    <3>1. \A r \in Reports : panel[r].state \in States(r) \union {"unloaded"}
      BY <1>1 DEF ConsoleTypes, HostTypes
    <3> QED BY <1>5, <1>9, <1>10, <3>1
  <2>4. HostTypes'
    BY <1>1, <1>2, <2>2, <2>3 DEF HostTypes, ConsoleTypes
  <2>5. hist' \in Hists
    BY <1>8
  <2> QED BY <1>1, <1>2, <1>4, <1>6, <2>1, <2>4, <2>5 DEF ConsoleTypes
<1>12. CopyInv'
  <2>1. \A r \in Reports : CopyOf(panel[r], r)'
    <3>1. ASSUME NEW r \in Reports PROVE CopyOf(panel[r], r)'
      <4>1. CASE panel'[r] = panel[r]
        BY <1>1, <1>2, <4>1 DEF CopyInv, CopyOf
      <4>2. CASE \E f \in fetches : f.op = s /\ f.rep = r /\ f.got.res = "ok" /\ panel'[r] = Taken(f.got)
        <5>1. PICK f \in fetches : f.rep = r /\ f.got.res = "ok" /\ panel'[r] = Taken(f.got)
          BY <4>2
        <5>2. CopyOf(f.got, r)
          BY <1>1, <5>1 DEF CopyInv
        <5> QED BY <1>2, <1>9, <5>1, <5>2 DEF CopyOf
      <4> QED BY <1>10, <4>1, <4>2
    <3> QED BY <3>1
  <2>2. \A r \in Reports : r \notin changing => (host'[r].state = "good" /\ panel'[r].ver = host'[r].ver)
    BY <1>1, <1>2, <1>5, <1>10 DEF CopyInv
  <2>3. \A f \in fetches' : f.got.res = "ok" => CopyOf(f.got, f.rep)'
    BY <1>1, <1>2, <1>5 DEF CopyInv, CopyOf
  <2>4. \A t \in Slots : (ops'[t].kind \in {"reconcile", "teardown"} /\ ops'[t].got.res = "ok")
                            => CopyOf(ops[t].got, ops[t].arg)'
    BY <1>1, <1>2, <1>4, IdleFacts DEF CopyInv, CopyOf
  <2> QED BY <1>2, <2>1, <2>2, <2>3, <2>4 DEF CopyInv
<1>13. AwaitInv'
  <2>1. \A f \in fetches' : f.op # 0 => (ops'[f.op].kind \notin {"none", "evidence"} /\ ops'[f.op].step = "waiting")
    BY <1>1, <1>4, <1>5 DEF AwaitInv, Slots
  <2>2. \A f, g \in fetches' : (f.op # 0 /\ f.op = g.op /\ f.rep = g.rep) => f = g
    BY <1>1, <1>5 DEF AwaitInv
  <2> QED BY <2>1, <2>2 DEF AwaitInv
<1>14. EvidenceInv'
  BY <1>1, <1>2 DEF EvidenceInv
<1>15. RefreshInv'
  <2> SUFFICES ASSUME ~hist'.spoiled PROVE RefreshInv'
    BY DEF RefreshInv
  <2>1. /\ \A f \in Awaited(s) : f.got.res = "ok" => panel'[f.rep] = Taken(f.got)
        /\ ~hist.spoiled /\ hist'.refreshed = (\A t \in InFlight : t = s \/ ops[t].step = "asked")
    BY <1>8
  <2>2. /\ \A f \in fetches : f.got.res = "ok" => f.got.ver = host[f.rep].ver
        /\ (\E t \in Slots : Refreshing(t)) =>
              \E t \in Slots : Refreshing(t) /\ \A r \in changing : UpToDate(r) \/ OnItsWay(t, r)
    BY <1>1, <1>3, <2>1 DEF RefreshInv
  <2>3. ASSUME NEW r \in changing, UpToDate(r) PROVE UpToDate(r)'
    <3>1. r \in Reports
      BY <1>1 DEF ConsoleTypes
    <3> QED BY <1>2, <1>9, <1>10, <2>2, <2>3, <3>1 DEF UpToDate
  <2>4. ASSUME NEW r \in changing, OnItsWay(s, r) PROVE UpToDate(r)'
    <3>1. PICK f \in fetches : f.op = s /\ f.rep = r /\ f.got.res # "failed"
      BY <2>4 DEF OnItsWay
    <3>2. f \in Awaited(s) /\ f.got.res = "ok"
      BY <1>2, <1>5, <3>1 DEF Gots
    <3> QED BY <1>2, <1>9, <2>1, <2>2, <3>1, <3>2 DEF UpToDate
  <2>5. ASSUME NEW t \in Slots, t # s, NEW r \in changing, OnItsWay(t, r) PROVE OnItsWay(t, r)'
    BY <1>5, <2>5 DEF OnItsWay
  <2>6. ~Refreshing(s)' /\ Refreshing(s) /\ \A t \in Slots : t # s => (Refreshing(t)' <=> Refreshing(t))
    BY <1>2, <1>4, IdleFacts DEF Refreshing
  <2>7. PICK u \in Slots : Refreshing(u) /\ \A r \in changing : UpToDate(r) \/ OnItsWay(u, r)
    BY <2>2, <2>6
  <2>8. u = s => \A r \in changing : UpToDate(r)'
    BY <2>3, <2>4, <2>7
  <2>9. hist'.refreshed => u = s
    <3>1. u \in InFlight /\ ops[u].step # "asked"
      BY <2>7 DEF Refreshing, InFlight, TrustKinds
    <3> QED BY <2>1, <3>1
  <2>10. (\E t \in Slots : Refreshing(t)') =>
           \E t \in Slots : Refreshing(t)' /\ \A r \in changing : UpToDate(r)' \/ OnItsWay(t, r)'
    <3>1. CASE u = s
      BY <2>8, <3>1
    <3>2. CASE u # s
      BY <2>3, <2>5, <2>6, <2>7, <3>2
    <3> QED BY <3>1, <3>2
  <2>11. \A f \in fetches' : f.got.res = "ok" => f.got.ver = host'[f.rep].ver
    BY <1>2, <1>5, <2>2
  <2> QED BY <1>2, <2>8, <2>9, <2>10, <2>11 DEF RefreshInv
<1>16. NeverRefreshed'
  BY <1>2, <1>3 DEF NeverRefreshed
<1>17. PeerInv'
  BY <1>1, <1>2, <1>3 DEF PeerInv
<1> QED BY <1>11, <1>12, <1>13, <1>14, <1>15, <1>16, <1>17 DEF ConsoleInv

\* Steps of the other parts leave the console alone.
LEMMA ConsoleUnchanged == ASSUME ConsoleInv, UNCHANGED consoleVars PROVE ConsoleInv'
<1>1. /\ ConsoleTypes /\ CopyInv /\ AwaitInv /\ EvidenceInv /\ RefreshInv /\ NeverRefreshed /\ PeerInv
      /\ UNCHANGED <<page, changing, host, panel, fetches, ops, pending, peers, rows,
                     dialog, evidence, left, hist>>
  BY DEF ConsoleInv, consoleVars
<1>2. ConsoleTypes'
  <2>1. FetchTypes' /\ HostTypes' /\ \A t \in Slots : OpWell(t)'
    BY <1>1 DEF FetchTypes, HostTypes, OpWell, PageKinds, ConsoleTypes
  <2> QED BY <1>1, <2>1 DEF ConsoleTypes
<1>3. CopyInv' /\ AwaitInv' /\ NeverRefreshed' /\ EvidenceInv'
  BY <1>1 DEF CopyInv, CopyOf, AwaitInv, NeverRefreshed, EvidenceInv
<1>4. RefreshInv'
  BY <1>1 DEF RefreshInv, UpToDate, Refreshing, OnItsWay
<1>5. PeerInv'
  BY <1>1 DEF PeerInv, InFlight
<1> QED BY <1>2, <1>3, <1>4, <1>5 DEF ConsoleInv

\* Every step of the pages preserves the invariant of the console.
LEMMA ConsoleInside ==
    ASSUME ConsoleInv, [Next]_<<consoleVars, cardVars, registryVars>>
    PROVE  ConsoleInv'
<1>1. ConsoleNext \/ UNCHANGED consoleVars
  BY DEF Next
<1>2. CASE ConsoleNext
  <2>1. CASE \/ PollOperations \/ ServeFetch \/ FetchAnswers \/ HostMoves
             \/ CloseWireGuardDialog \/ OverlappedActionEnds
    BY <2>1, PollOperationsStep, ServeFetchStep, FetchAnswersStep, HostMovesStep, DialogSteps
  <2>2. ASSUME NEW s \in Slots,
               \/ RefreshWireGuardGatewayStatus(s) \/ RefreshAccessStatus(s)
               \/ RefreshOperationsStatus(s) \/ RefreshServiceMetrics(s) \/ RefreshDeploymentRows(s)
               \/ RefreshRuntimeHealth(s) \/ WaitEnds(s)
               \/ ClickRuntime(s) \/ ServeRuntime(s) \/ RuntimeAnswers(s)
               \/ ClickPeer(s) \/ ServePeer(s) \/ PeerAnswers(s)
               \/ DownloadRuntimeHealthReport(s) \/ CopyRuntimeHealthSummary(s)
               \/ SectionRead(s) \/ EvidenceEnds(s)
               \/ TrustedTimer(s) \/ TrustedRefresh(s) \/ RunTrustedReconcile(s)
               \/ ServeTrusted(s) \/ TrustedAnswers(s) \/ TrustedBatchEnds(s)
        PROVE  ConsoleInv'
    <3>1. CASE \/ RefreshWireGuardGatewayStatus(s) \/ RefreshAccessStatus(s)
               \/ RefreshOperationsStatus(s) \/ RefreshServiceMetrics(s) \/ RefreshDeploymentRows(s)
               \/ RefreshRuntimeHealth(s) \/ ClickRuntime(s) \/ ClickPeer(s) \/ RunTrustedReconcile(s)
      BY <3>1, ClickActions
    <3>2. CASE WaitEnds(s) \/ ServeRuntime(s) \/ RuntimeAnswers(s) \/ ServePeer(s) \/ PeerAnswers(s)
      BY <3>2, WaitEndsStep, ServeRuntimeStep, RuntimeAnswersStep, ServePeerStep, PeerAnswersStep
    <3>3. CASE DownloadRuntimeHealthReport(s) \/ CopyRuntimeHealthSummary(s) \/ SectionRead(s) \/ EvidenceEnds(s)
      BY <3>3, EvidenceBegins, SectionReadStep, EvidenceEndsStep
         DEF DownloadRuntimeHealthReport, CopyRuntimeHealthSummary
    <3>4. CASE TrustedTimer(s) \/ TrustedRefresh(s) \/ ServeTrusted(s) \/ TrustedAnswers(s) \/ TrustedBatchEnds(s)
      BY <3>4, TrustedBegins, ServeTrustedStep, TrustedAnswersStep, TrustedBatchEndsStep
    <3> QED BY <2>2, <3>1, <3>2, <3>3, <3>4
  <2> QED BY <1>2, <2>1, <2>2 DEF ConsoleNext
<1>3. CASE UNCHANGED consoleVars
  BY <1>3, ConsoleUnchanged
<1> QED BY <1>1, <1>2, <1>3

\* A console that is opened satisfies the invariant.
LEMMA ConsoleInit == ASSUME NEW open, ConsoleStart(open) PROVE ConsoleInv
<1> USE ConsoleAssumption
<1>1. page \in {"none", "game", "players", "deployments"}
  BY DEF ConsoleStart
<1>2. changing \in SUBSET Reports /\ changing \subseteq ShownOn(page)
  BY <1>1 DEF ConsoleStart, ShownOn, Reports
<1>3. /\ host \in [Reports -> [state : AnyState, ver : Int]]
      /\ \A r \in Reports : host[r].state \in {"good", "bad"} /\ host[r].ver = 0
      /\ \A r \in Reports : (r \notin changing \/ r = "metrics") => host[r].state = "good"
  <2>1. host \in [Reports -> {[state |-> x, ver |-> 0] : x \in {"good", "bad"}}]
    BY DEF ConsoleStart
  <2>2. \A y \in {[state |-> x, ver |-> 0] : x \in {"good", "bad"}} :
           y \in [state : AnyState, ver : Int] /\ y.state \in {"good", "bad"} /\ y.ver = 0
    BY DEF AnyState
  <2>3. \A r \in Reports : (r \notin changing \/ r = "metrics") => host[r].state = "good"
    BY DEF ConsoleStart
  <2> HIDE DEF AnyState
  <2> QED BY <2>1, <2>2, <2>3
<1>4. \A r \in Reports : host[r].state \in States(r)
  BY <1>3 DEF States
<1>5. \A r \in Reports : \/ panel[r] = host[r]
                         \/ r \in changing /\ (panel[r] = LoadedEmpty(r) \/ panel[r] = Unloaded)
  BY DEF ConsoleStart
<1>6. /\ Unloaded \in [state : AnyState, ver : Int] /\ Unloaded.state = "unloaded" /\ Unloaded.ver = -1
      /\ \A r : /\ LoadedEmpty(r) \in [state : AnyState, ver : Int] /\ LoadedEmpty(r).ver = -1
                /\ LoadedEmpty(r).state \in States(r) \union {"unloaded"}
  BY DEF Unloaded, LoadedEmpty, AnyState, States
<1>7. /\ panel \in [Reports -> [state : AnyState, ver : Int]]
      /\ \A r \in Reports : panel[r].state \in States(r) \union {"unloaded"}
  <2>1. panel = [r \in Reports |-> panel[r]]
    BY DEF ConsoleStart
  <2>2. \A r \in Reports : /\ panel[r] \in [state : AnyState, ver : Int]
                           /\ panel[r].state \in States(r) \union {"unloaded"}
    BY <1>3, <1>4, <1>5, <1>6
  <2> QED BY <2>1, <2>2
<1>8. PICK R \in SUBSET Reports, w \in {0, 1} :
         /\ fetches = Fetching(R, w)
         /\ page = "deployments" => (w = 1 /\ changing \subseteq R)
         /\ page # "deployments" => w = 0
  <2>1. CASE page = "deployments"
    <3>1. fetches = Fetching(ShownOn(page), 1)
      BY <2>1 DEF ConsoleStart
    <3>2. ShownOn(page) \in SUBSET Reports
      BY <2>1 DEF ShownOn, Reports
    <3> QED BY <1>2, <2>1, <3>1, <3>2
  <2>2. CASE page # "deployments"
    <3>1. fetches = Fetching(ShownOn(page) \ {"deployments"}, 0)
      BY <2>2 DEF ConsoleStart
    <3>2. (ShownOn(page) \ {"deployments"}) \in SUBSET Reports
      BY <1>1 DEF ShownOn, Reports
    <3> QED BY <2>2, <3>1, <3>2
  <2> QED BY <2>1, <2>2
<1>9. /\ \A f \in fetches :
            /\ f.op = w /\ f.rep \in R /\ f.rep \in changing
            /\ f.got = Nothing /\ f.got.res = "none" /\ f.got.state = "unloaded"
            /\ f \in [rep : changing, op : {0, 1, 2}, got : Gots]
      /\ \A f, g \in fetches : f.rep = g.rep => f = g
      /\ \A r \in R \intersect changing :
            \E f \in fetches : f.rep = r /\ f.op = w /\ f.got.res = "none"
  <2>1. w \in {0, 1, 2}
    OBVIOUS
  <2> QED BY <1>8, <2>1, FetchingFacts
<1> DEFINE first == NewOp("trustRefresh", 0, "waiting")
<1>10. /\ first \in OpShapes(first.arg) /\ first.kind = "trustRefresh" /\ first.step = "waiting" /\ first.got = Nothing
  <2>1. "trustRefresh" \in Kinds
    BY DEF Kinds, TrustKinds
  <2> QED BY <2>1, NewOpFacts
<1>11. [IdleOp EXCEPT !.kind = "trustRefresh", !.step = "waiting"] = first
  <2>1. IdleOp.arg = 0
    BY DEF IdleOp
  <2> QED BY <2>1 DEF NewOp, IdleOp, Nothing
<1>12. ops = [s \in Slots |-> IF s = 1 /\ page = "deployments" THEN first ELSE IdleOp]
  BY <1>11 DEF ConsoleStart
<1> HIDE DEF first
<1>13. /\ ops \in [Slots -> {ops[t] : t \in Slots}]
       /\ \A s \in Slots : (s = 1 /\ page = "deployments" /\ ops[s] = first) \/ ops[s] = IdleOp
       /\ page = "deployments" => ops[1] = first
  BY <1>12 DEF Slots
<1>14. /\ pending = "none" /\ peers = [p \in Players |-> [ver |-> 1, status |-> "active"]] /\ rows = peers
       /\ dialog = [open |-> FALSE, player |-> 0, ver |-> 0, status |-> "none"]
       /\ evidence = [s \in Slots |-> NoEvidence]
       /\ left = [changes |-> MaxChanges, actions |-> MaxActions]
       /\ hist = [refreshed |-> FALSE, spoiled |-> FALSE, lost |-> FALSE, disturbed |-> FALSE, asked |-> 0]
  BY DEF ConsoleStart
<1>15. /\ hist \in Hists /\ ~hist.refreshed /\ ~dialog.open /\ left \in [changes : Nat, actions : Nat]
       /\ dialog \in [open : BOOLEAN, player : {0, 1, 2}, ver : Int, status : {"none", "active", "revoked"}]
       /\ peers \in [Players -> Peer]
  BY <1>14 DEF Hists, Peer
<1>16. NoEvidence \in Evidence /\ NoEvidence.read = {} /\ \A r \in Reports : NoEvidence.floor[r] = -1
  BY DEF NoEvidence, Evidence
<1>17. \A s \in Slots : OpWell(s)
  <2>1. ASSUME NEW s \in Slots, ops[s] = IdleOp PROVE OpWell(s)
    BY <2>1, IdleFacts DEF OpWell, PeerKinds
  <2>2. ASSUME NEW s \in Slots, ops[s] = first, page = "deployments" PROVE OpWell(s)
    BY <1>10, <2>2 DEF OpWell, PageKinds, PeerKinds, TrustKinds
  <2> QED BY <1>13, <2>1, <2>2
<1>18. ConsoleTypes
  <2>1. FetchTypes
    BY <1>9 DEF FetchTypes
  <2>2. HostTypes
    BY <1>3, <1>4, <1>7 DEF HostTypes
  <2>3. evidence \in [Slots -> Evidence]
    BY <1>14, <1>16
  <2> QED BY <1>1, <1>2, <1>13, <1>14, <1>15, <1>17, <2>1, <2>2, <2>3 DEF ConsoleTypes
<1>19. CopyInv
  <2>1. \A r \in Reports : CopyOf(panel[r], r)
    BY <1>3, <1>5, <1>6 DEF CopyOf
  <2>2. \A s \in Slots : ops[s].kind \notin {"reconcile", "teardown"}
    BY <1>10, <1>13, IdleFacts
  <2> QED BY <1>3, <1>5, <1>9, <2>1, <2>2 DEF CopyInv
<1>20. AwaitInv
  <2>1. \A f \in fetches : f.op # 0 => (f.op = 1 /\ ops[1] = first)
    BY <1>8, <1>9, <1>13
  <2> QED BY <1>9, <1>10, <2>1 DEF AwaitInv
<1>21. EvidenceInv
  <2>1. \A s \in Slots : evidence[s] = NoEvidence
    BY <1>14
  <2> QED BY <1>3, <1>16, <2>1 DEF EvidenceInv
<1>22. RefreshInv
  <2>1. \A s \in Slots : Refreshing(s) => (s = 1 /\ page = "deployments")
    BY <1>13, IdleFacts DEF Refreshing
  <2>2. page = "deployments" => \A r \in changing : OnItsWay(1, r)
    BY <1>8, <1>9 DEF OnItsWay
  <2> QED BY <1>9, <1>15, <2>1, <2>2 DEF RefreshInv
<1>23. NeverRefreshed
  BY <1>15 DEF NeverRefreshed
<1>24. PeerInv
  <2>1. page = "players" => \A s \in Slots : ops[s].kind = "none"
    BY <1>13, IdleFacts
  <2>2. page = "players" => InFlight = {}
    BY <2>1 DEF InFlight
  <2>3. \A s \in Slots : page = "players" => ops[s].kind \notin PeerKinds
    BY <2>1 DEF PeerKinds
  <2> QED BY <1>14, <1>15, <2>2, <2>3 DEF PeerInv
<1> QED BY <1>18, <1>19, <1>20, <1>21, <1>22, <1>23, <1>24 DEF ConsoleInv

\* The console's inductive invariant: every report on the page or on its way is a copy
\* of one the host gave, and what a refresh still waits for is under way.
THEOREM ConsoleInvHolds == Spec => []ConsoleInv
<1>1. Init => ConsoleInv
  BY ConsoleInit DEF Init
<1>2. ConsoleInv /\ [Next]_<<consoleVars, cardVars, registryVars>> => ConsoleInv'
  BY ConsoleInside
<1> QED BY <1>1, <1>2, PTL DEF Spec

\* A page whose every report is the host's gives the host's verdict.
LEMMA CurrentVerdict ==
    ASSUME ConsoleTypes, page \in {"game", "deployments"},
           \A r \in ShownOn(page) : panel[r].state = host[r].state
    PROVE  Verdict(panel) = HostTruth
<1>1. \A r \in Reports : host[r].state \in {"good", "degraded", "bad"}
  BY DEF ConsoleTypes, HostTypes, States
<1>2. CASE page = "game"
  <2> DEFINE states == {host[r].state : r \in ShownOn(page)}
  <2>1. ShownOn(page) = Reports /\ Verdict(panel) = Severity(panel)
    BY <1>2 DEF ShownOn, Verdict
  <2>2. "bad" \in states <=> \E r \in Reports : panel[r].state = "bad"
    BY <2>1
  <2>3. states # {"good"} <=> \E r \in Reports : panel[r].state # "good"
    <3>1. "gateway" \in Reports
      BY DEF Reports
    <3> QED BY <2>1, <3>1
  <2>4. HostTruth = IF "bad" \in states THEN "critical" ELSE IF states # {"good"} THEN "warning" ELSE "healthy"
    <3> HIDE DEF states
    <3>1. states = {host[r].state : r \in ShownOn(page)}
      BY DEF states
    <3> QED BY <1>2, <3>1 DEF HostTruth
  <2> QED BY <2>1, <2>2, <2>3, <2>4 DEF Severity
<1>3. CASE page = "deployments"
  <2>1. \A r \in {"deployments", "gateway", "access"} : panel[r].state = host[r].state
    BY <1>3 DEF ShownOn
  <2>2. Verdict(panel) = TrustedOverall(panel)
    BY <1>3 DEF Verdict
  <2> QED BY <1>3, <2>1, <2>2 DEF TrustedOverall, HostTruth
<1> QED BY <1>2, <1>3

\* After a complete refresh the health card and the trusted panel say what the host
\* would say, unless a read failed, the host moved on, or an older answer was still
\* under way (refreshRuntimeHealth, TrustedStatePanel); and no section of an evidence
\* report is older than the page it was asked from (the report route).
THEOREM ConsoleReportsAreTrue == Spec => []ReportsAreTrue
<1>1. ASSUME ConsoleInv PROVE ReportsAreTrue
  <2>1. ConsoleTypes /\ CopyInv /\ EvidenceInv /\ RefreshInv /\ NeverRefreshed
    BY <1>1 DEF ConsoleInv
  <2>2. EvidenceIsFresh
    BY <2>1 DEF EvidenceInv, EvidenceIsFresh, ConsoleTypes, Evidence
  <2>3. ASSUME hist.refreshed, ~hist.spoiled PROVE Verdict(panel) = HostTruth
    <3>1. page \in {"game", "deployments"}
      BY <2>1, <2>3 DEF NeverRefreshed
    <3>2. \A r \in Reports : panel[r].ver = host[r].ver
      BY <2>1, <2>3, <3>1 DEF RefreshInv, UpToDate, CopyInv
    <3>3. \A r \in Reports : panel[r].state = host[r].state
      BY <2>1, <3>2 DEF CopyInv, CopyOf
    <3>4. ShownOn(page) \subseteq Reports
      BY <3>1 DEF ShownOn, Reports
    <3> QED BY <2>1, <3>1, <3>3, <3>4, CurrentVerdict
  <2> QED BY <2>2, <2>3 DEF ReportsAreTrue, VerdictIsTrue
<1>2. ConsoleInv => ReportsAreTrue
  BY <1>1
<1> QED BY <1>2, ConsoleInvHolds, PTL

\* At rest the players' rows show their peers and an open dialog the present
\* configuration of the player that was asked for last, unless an answer was lost or
\* another card's action released the buttons early (wireGuardAction,
\* applyWireGuardUpdate).
THEOREM RowsAndDialogShowPeers == Spec => []PeersAreShown
<1>1. ASSUME ConsoleInv PROVE PeersAreShown
  <2>1. ConsoleTypes /\ PeerInv
    BY <1>1 DEF ConsoleInv
  <2>2. ConfigShownIsCurrent
    BY <2>1 DEF PeerInv, ConfigShownIsCurrent
  <2>3. ASSUME InFlight = {}, ~hist.lost, ~hist.disturbed PROVE rows = peers
    <3>1. CASE page # "players"
      BY <2>1, <3>1 DEF PeerInv
    <3>2. CASE page = "players"
      <4>1. \A s \in Slots : ops[s].kind \notin PeerKinds
        BY <2>3 DEF InFlight, PeerKinds
      <4>2. \A p \in Players : rows[p] = peers[p]
        BY <2>1, <2>3, <3>2, <4>1 DEF PeerInv
      <4> QED BY <2>1, <4>2 DEF ConsoleTypes
    <3> QED BY <3>1, <3>2
  <2> QED BY <2>2, <2>3 DEF PeersAreShown, RowsShowPeers
<1>2. ConsoleInv => PeersAreShown
  BY <1>1
<1> QED BY <1>2, ConsoleInvHolds, PTL

\* The console's type invariant is a part of its inductive one.
LEMMA ConsoleTypeFollows == ConsoleInv => ConsoleTypeOK
<1> SUFFICES ASSUME ConsoleInv PROVE ConsoleTypeOK
  OBVIOUS
<1>1. ConsoleTypes /\ CopyInv /\ AwaitInv
  BY DEF ConsoleInv
<1>2. \A r \in Reports : host[r] \in Snapshots(r) /\ panel[r] \in Snapshots(r) /\ panel[r].ver <= host[r].ver
  <2>1. \A r \in Reports : panel[r].ver <= host[r].ver
    BY <1>1 DEF CopyInv, CopyOf
  <2>2. \A r \in Reports : /\ host[r] \in [state : AnyState, ver : Int] /\ panel[r] \in [state : AnyState, ver : Int]
                           /\ host[r].state \in States(r) /\ panel[r].state \in States(r) \union {"unloaded"}
    BY <1>1 DEF ConsoleTypes, HostTypes
  <2> QED BY <2>1, <2>2 DEF Snapshots
<1>3. \A f \in fetches : f.rep \in changing /\ (f.op # 0 => f.op \in InFlight)
  BY <1>1 DEF ConsoleTypes, FetchTypes, AwaitInv, InFlight, Slots
<1>4. \A s \in Slots : ops[s].kind \in Kinds \union {"none"}
  BY <1>1 DEF ConsoleTypes, OpWell, OpShapes
<1> QED BY <1>1, <1>2, <1>3, <1>4 DEF ConsoleTypeOK, ConsoleTypes


-----------------------------------------------------------------------------
(* The registries.                                                         *)

RowMap(f, n) == f \in [DOMAIN f -> Rows] /\ \A r \in DOMAIN f : r \in Nat /\ 1 <= r /\ r < n
JobMap(f, n) == f \in [DOMAIN f -> Jobs] /\ \A j \in DOMAIN f : j \in Nat /\ 1 <= j /\ j < n
CheckMap(f) == f \in [DOMAIN f -> [ver : Nat, valid : BOOLEAN]]

\* Ids on the deployments page are jobs', on the others rows'.
Limit == IF tab = "deployments" THEN store.nextJob ELSE store.next

AnswerShape(a) == a \in [res : {"none", "ok", "failed"}, id : Nat, row : Rows, inactive : BOOLEAN,
                       valid : BOOLEAN, jobs : {a.jobs}]
RegShape(op) == op \in [verb : Verbs \union {"none"}, id : Nat, arg : {op.arg}, step : Nat,
                        checked : Nat, ans : {op.ans}]

\* What the pages offer, and the requests it takes.
TabVerbs ==
    CASE tab = "teams"       -> {"create", "update", "delete", "active", "import"}
      [] tab = "players"     -> {"create", "update", "delete", "active"}
      [] tab = "challenges"  -> {"create", "update", "delete", "active", "validate", "deploy"}
      [] tab = "deployments" -> {"delete", "reconcile"}
      [] OTHER               -> {}
RowVerbs == {"update", "delete", "active", "validate", "deploy"}
LastStep(verb) == IF verb \in {"deploy", "reconcile"} \/ (verb = "create" /\ tab = "teams") THEN 2 ELSE 1

\* An action whose request of that step was carried out and is answered so.
Got(s, verb, step) == regOps[s].verb = verb /\ regOps[s].step = step /\ regOps[s].ans.res = "ok"

\* The list of the one job a deployment made.
Alone(n) == <<n>>

RegWell(s) ==
    /\ RegShape(regOps[s]) /\ AnswerShape(regOps[s].ans)
    /\ regOps[s].verb = "none" => (regOps[s].id = 0 /\ regOps[s].ans.res = "none")
    /\ regOps[s].verb # "none" => /\ regOps[s].verb \in TabVerbs
                                  /\ regOps[s].step \in {1, 2} /\ regOps[s].step <= LastStep(regOps[s].verb)
    /\ regOps[s].verb \in RowVerbs => (1 <= regOps[s].id /\ regOps[s].id < Limit)
    /\ regOps[s].verb \in {"create", "import", "reconcile"} => regOps[s].id = 0
    /\ regOps[s].verb = "active" => regOps[s].arg \in BOOLEAN
    /\ regOps[s].verb \in {"create", "import"} => regOps[s].arg \in Nat
    /\ Got(s, "deploy", 2) => \/ regOps[s].ans.jobs = <<>>
                              \/ \E n \in 1..(store.nextJob - 1) : regOps[s].ans.jobs = Alone(n)
    /\ Got(s, "reconcile", 2) => JobMap(regOps[s].ans.jobs, store.nextJob)

HistShape(h) == h \in [lost : BOOLEAN, crossed : BOOLEAN, gap : BOOLEAN, deleted : SUBSET Nat, untold : {h.untold},
                       unvalidated : BOOLEAN, preview : {h.preview}, surprised : BOOLEAN]

RegTypes ==
    /\ tab \in Tabs \union {"none"}
    /\ store \in [rows : {store.rows}, inactive : {store.inactive}, jobs : {store.jobs},
                  next : Nat, nextJob : Nat, teams : {0, 1}]
    /\ store.next >= 2 /\ store.nextJob >= 1 /\ RowMap(store.rows, store.next) /\ JobMap(store.jobs, store.nextJob)
    /\ table \in [rows : {table.rows}, inactive : {table.inactive}, jobs : {table.jobs},
                  checks : {table.checks}]
    /\ RowMap(table.rows, store.next) /\ JobMap(table.jobs, store.nextJob) /\ CheckMap(table.checks)
    /\ form \in [mode : {"closed", "create", "edit"}, id : Nat, complete : BOOLEAN]
    /\ form.id < store.next /\ (form.mode = "edit" => form.id >= 1) /\ (form.mode = "closed" => form = NoForm)
    /\ form # NoForm => (target = 0 /\ tab # "deployments")
    /\ target \in Nat /\ target < Limit
    /\ regPending.verb \in Verbs \union {"none"}
    /\ regOps = [s \in OpSlots |-> regOps[s]] /\ \A s \in OpSlots : RegWell(s)
    /\ regLeft \in Nat
    /\ HistShape(regHist) /\ \A r \in regHist.deleted : r < Limit

Made(s) == Got(s, "create", 1) \/ Got(s, "import", 1)

\* A row that is being created is new to the page: nothing there is about it yet.
Unseen(n) ==
    /\ n \notin DOMAIN table.rows /\ n \notin regHist.deleted /\ n # form.id /\ n # target
    /\ \A t \in OpSlots : regOps[t].id # n

IdInv ==
    /\ \A s \in OpSlots : Made(s) =>
          /\ 1 <= regOps[s].ans.id /\ regOps[s].ans.id < store.next /\ Unseen(regOps[s].ans.id)
          /\ regOps[s].ans.id \in DOMAIN store.rows /\ store.rows[regOps[s].ans.id] = regOps[s].ans.row
    /\ \A s, t \in OpSlots : (s # t /\ Made(s) /\ Made(t))
                                => regOps[s].ans.id # regOps[t].ans.id
    /\ \A s \in OpSlots : Got(s, "delete", 1) =>
          regOps[s].id \notin DOMAIN (IF tab = "deployments" THEN store.jobs ELSE store.rows)
    /\ tab # "deployments" => \A r \in regHist.deleted : r \notin DOMAIN table.rows
    /\ tab = "deployments" => \A j \in regHist.deleted : j \notin DOMAIN store.jobs

\* Actions that do not cross are about different rows.
ApartInv ==
    ~regHist.crossed => \A s, t \in OpSlots : (s # t /\ regOps[s].verb # "none" /\ regOps[t].verb # "none") =>
        /\ regOps[s].id # 0 => regOps[s].id # regOps[t].id
        /\ regOps[s].verb = "delete" => regOps[t].verb # "reconcile"
        /\ regOps[s].verb = "create" => regOps[t].verb # "create"

OneQueued(jobs) ==
    \A i, j \in DOMAIN jobs : (i # j /\ jobs[i].status = "queued" /\ jobs[j].status = "queued")
                                  => jobs[i].challenge # jobs[j].challenge

QueueInv ==
    /\ OneQueued(table.jobs) /\ OneQueued(store.jobs)
    /\ \A s \in OpSlots : Got(s, "reconcile", 2) => OneQueued(regOps[s].ans.jobs)

\* What is deployed was validated at the version the store has.
CheckedInv ==
    /\ regHist.unvalidated => regHist.crossed
    /\ ~regHist.crossed => \A s \in OpSlots : regOps[s].id \in DOMAIN store.rows =>
          /\ Got(s, "deploy", 1) => regOps[s].ans.row.ver = store.rows[regOps[s].id].ver
          /\ (regOps[s].verb = "deploy" /\ regOps[s].step = 2) =>
                regOps[s].checked = store.rows[regOps[s].id].ver

\* The page's row is the store's, or the answer of the action that changed it comes.
InPublic(row) == [row EXCEPT !.published = TRUE]
RowAgrees(r) ==
    \/ table.rows[r] = store.rows[r]
    \/ \E s \in OpSlots :
         /\ regOps[s].id = r
         /\ Got(s, "update", 1) \/ Got(s, "active", 1) \/ Got(s, "deploy", 2)

RowsComing ==
    \A r \in DOMAIN store.rows :
        \/ r \in DOMAIN table.rows /\ RowAgrees(r)
        \/ \E s \in OpSlots : Made(s) /\ regOps[s].ans.id = r
RowsGoing ==
    \A r \in DOMAIN table.rows :
        \/ r \in DOMAIN store.rows
        \/ tab # "deployments" /\ \E s \in OpSlots : Got(s, "delete", 1) /\ regOps[s].id = r
RowsAnswered ==
    \A s \in OpSlots :
        ((Got(s, "update", 1) \/ Got(s, "active", 1)) /\ regOps[s].id \in DOMAIN store.rows)
            => store.rows[regOps[s].id] = regOps[s].ans.row
RowsPublished ==
    \A s \in OpSlots :
        (Got(s, "deploy", 2) /\ regOps[s].id \in DOMAIN store.rows \intersect DOMAIN table.rows)
            => store.rows[regOps[s].id] = InPublic(table.rows[regOps[s].id])
VersionsAnswered ==
    \A s \in OpSlots :
        (/\ Got(s, "active", 1) \/ Got(s, "validate", 1) \/ Got(s, "deploy", 1)
         /\ regOps[s].id \in DOMAIN table.rows)
            => regOps[s].ans.row.ver = table.rows[regOps[s].id].ver
ChecksFit ==
    \A r \in DOMAIN table.checks : r \in DOMAIN table.rows => table.checks[r].ver = table.rows[r].ver

RowInv ==
    (~regHist.lost /\ ~regHist.crossed) =>
        RowsComing /\ RowsGoing /\ RowsAnswered /\ RowsPublished /\ VersionsAnswered /\ ChecksFit

\* The jobs of a challenge that is being deployed are superseded in the store first.
Deploys(c) == \E s \in OpSlots : Got(s, "deploy", 2) /\ regOps[s].id = c
Outdated(job) == [job EXCEPT !.status = "superseded"]
JobsShown ==
    \A j \in DOMAIN table.jobs :
        /\ j \in DOMAIN store.jobs
        /\ store.jobs[j] = IF table.jobs[j].status = "queued" /\ Deploys(table.jobs[j].challenge)
                           THEN Outdated(table.jobs[j]) ELSE table.jobs[j]
JobsComing ==
    \A j \in DOMAIN store.jobs :
        j \in DOMAIN table.jobs \/ \E s \in OpSlots : Got(s, "deploy", 2) /\ regOps[s].ans.jobs = Alone(j)
JobsAnswered ==
    \A s \in OpSlots : \A n \in 1..(store.nextJob - 1) :
        (Got(s, "deploy", 2) /\ regOps[s].ans.jobs = Alone(n)) =>
            /\ n \in DOMAIN store.jobs /\ n \notin DOMAIN table.jobs
            /\ store.jobs[n] = [challenge |-> regOps[s].id, status |-> "queued"]

JobInv ==
    (tab # "deployments" /\ ~regHist.lost /\ ~regHist.crossed) =>
        JobsShown /\ JobsComing /\ JobsAnswered

\* A reconcile that was carried out leaves nothing queued; its list is the store's.
Reconciled(s) == regOps[s].verb = "reconcile" /\ (regOps[s].step = 2 \/ regOps[s].ans.res = "ok")
ListShown ==
    /\ \A j \in DOMAIN store.jobs : j \in DOMAIN table.jobs /\ table.jobs[j] = store.jobs[j]
    /\ \A j \in DOMAIN table.jobs :
          j \in DOMAIN store.jobs \/ \E s \in OpSlots : Got(s, "delete", 1) /\ regOps[s].id = j
ListInv ==
    tab = "deployments" =>
        /\ \A s \in OpSlots : Reconciled(s) => \A j \in DOMAIN store.jobs : store.jobs[j].status # "queued"
        /\ ~regHist.crossed => /\ \A s \in OpSlots : Got(s, "reconcile", 2) => regOps[s].ans.jobs = store.jobs
                               /\ \A j \in regHist.deleted : j \notin DOMAIN table.jobs
        /\ (~regHist.lost /\ ~regHist.crossed /\ \A s \in OpSlots : ~Reconciled(s)) => ListShown

\* While nothing was deleted the newest challenge is on the page, or about to be.
OctetInv ==
    /\ regHist.surprised => (regHist.gap \/ regHist.crossed \/ regHist.lost)
    /\ (tab = "challenges" /\ ~regHist.gap /\ ~regHist.crossed /\ ~regHist.lost) =>
          /\ \/ store.next - 1 \in DOMAIN table.rows
             \/ \E s \in OpSlots : Got(s, "create", 1) /\ regOps[s].ans.id = store.next - 1
          /\ \A s \in OpSlots : (regOps[s].verb = "create" /\ regOps[s].arg = 0 /\ regOps[s].step = 1) =>
                /\ regOps[s].ans.res = "none" => regHist.preview = store.next
                /\ regOps[s].ans.res = "ok" => regOps[s].ans.row.octet = regHist.preview

RegInv ==
    /\ RegTypes /\ IdInv /\ ApartInv /\ QueueInv
    /\ CheckedInv /\ RowInv /\ JobInv /\ ListInv /\ OctetInv


-----------------------------------------------------------------------------
(* The requests, and the actions in flight before and after a step.        *)

\* Which request a step sends, and how many there are.
LEMMA Requests ==
    ASSUME RegTypes, NEW s \in OpSlots, regOps[s].verb # "none"
    PROVE  /\ Len(ScriptOf(regOps[s].verb)) = LastStep(regOps[s].verb)
           /\ RequestOf(s) = CASE regOps[s].verb = "create" /\ regOps[s].step = 2 -> "scoreboard"
                               [] regOps[s].verb = "deploy" /\ regOps[s].step = 1 -> "validate"
                               [] regOps[s].verb = "reconcile" /\ regOps[s].step = 2 -> "list"
                               [] regOps[s].verb = "import" -> "create"
                               [] OTHER -> regOps[s].verb
<1> DEFINE v == regOps[s].verb
           k == regOps[s].step
<1>1. /\ v \in Verbs /\ v \in TabVerbs
      /\ k \in {1, 2} /\ k <= LastStep(v)
  BY DEF RegTypes, RegWell, RegShape
<1>2. RequestOf(s) = ScriptOf(v)[k]
  BY DEF RequestOf
<1>3. v = "create" => tab # "deployments"
  BY <1>1 DEF TabVerbs
<1> SUFFICES /\ Len(ScriptOf(v)) = LastStep(v)
             /\ ScriptOf(v)[k] = CASE v = "create" /\ k = 2 -> "scoreboard"
                                   [] v = "deploy" /\ k = 1 -> "validate"
                                   [] v = "reconcile" /\ k = 2 -> "list"
                                   [] v = "import" -> "create"
                                   [] OTHER -> v
  BY <1>2
<1> HIDE DEF v, k
<1>4. CASE v = "create" /\ tab = "teams"
  BY <1>1, <1>4 DEF ScriptOf, LastStep
<1>5. CASE v = "create" /\ tab # "teams"
  BY <1>1, <1>5 DEF ScriptOf, LastStep
<1>6. CASE v = "deploy"
  BY <1>1, <1>6 DEF ScriptOf, LastStep
<1>7. CASE v = "reconcile"
  BY <1>1, <1>7 DEF ScriptOf, LastStep
<1>8. CASE v = "import"
  BY <1>1, <1>8 DEF ScriptOf, LastStep
<1>9. CASE v \in {"update", "delete", "active", "validate"}
  BY <1>1, <1>9 DEF ScriptOf, LastStep
<1> QED
  BY <1>1, <1>4, <1>5, <1>6, <1>7, <1>8, <1>9 DEF Verbs

\* The action that sends a request, by the request.
LEMMA Asked ==
    ASSUME RegTypes, NEW s \in OpSlots, regOps[s].verb # "none"
    PROVE  /\ RequestOf(s) = "create" => (regOps[s].verb \in {"create", "import"} /\ regOps[s].step = 1)
           /\ RequestOf(s) = "scoreboard" => (regOps[s].verb = "create" /\ regOps[s].step = 2 /\ tab = "teams")
           /\ RequestOf(s) = "validate" => (regOps[s].verb \in {"validate", "deploy"} /\ regOps[s].step = 1)
           /\ RequestOf(s) = "deploy" => (regOps[s].verb = "deploy" /\ regOps[s].step = 2)
           /\ RequestOf(s) = "list" => (regOps[s].verb = "reconcile" /\ regOps[s].step = 2)
           /\ RequestOf(s) = "reconcile" => (regOps[s].verb = "reconcile" /\ regOps[s].step = 1)
           /\ RequestOf(s) \in {"update", "delete", "active"} =>
                (regOps[s].verb = RequestOf(s) /\ regOps[s].step = 1)
           /\ RequestOf(s) \in {"create", "scoreboard", "validate", "deploy", "list", "reconcile",
                                "update", "delete", "active"}
<1> DEFINE v == regOps[s].verb
           k == regOps[s].step
<1>1. /\ v \in Verbs /\ v \in TabVerbs
      /\ k \in {1, 2} /\ k <= LastStep(v)
  BY DEF RegTypes, RegWell, RegShape
<1>2. RequestOf(s) = CASE v = "create" /\ k = 2 -> "scoreboard"
                       [] v = "deploy" /\ k = 1 -> "validate"
                       [] v = "reconcile" /\ k = 2 -> "list"
                       [] v = "import" -> "create"
                       [] OTHER -> v
  BY Requests
<1> HIDE DEF v, k
<1> QED
  BY <1>1, <1>2 DEF LastStep, Verbs, v, k


\* The dialogs are no part of the other invariants.
LEMMA OutsideDialogs ==
    ASSUME RegInv, UNCHANGED <<tab, store, table, regOps, regHist>>
    PROVE  (ApartInv /\ QueueInv /\ CheckedInv /\ RowInv /\ JobInv /\ ListInv /\ OctetInv)'
<1>1. ApartInv'
  BY DEF RegInv, ApartInv
<1>2. QueueInv'
  BY DEF RegInv, QueueInv, OneQueued, Got, Made
<1>3. CheckedInv'
  BY DEF RegInv, CheckedInv, Got, Made
<1>4. RowInv'
  BY DEF RegInv, RowInv, RowsComing, RowsGoing, RowsAnswered, RowsPublished, VersionsAnswered, ChecksFit, RowAgrees, Got, Made
<1>5. JobInv'
  BY DEF RegInv, JobInv, JobsShown, JobsComing, JobsAnswered, Deploys, Got, Made
<1>6. ListInv'
  BY DEF RegInv, ListInv, ListShown, Reconciled, Got, Made
<1>7. OctetInv'
  BY DEF RegInv, OctetInv, Got, Made
<1> QED
  BY <1>1, <1>2, <1>3, <1>4, <1>5, <1>6, <1>7

\* A step that only opens, fills or leaves a dialog.
LEMMA DialogStep ==
    ASSUME RegInv, UNCHANGED <<tab, store, table, regPending, regOps, regLeft, regHist>>,
           form' \in [mode : {"closed", "create", "edit"}, id : Nat, complete : BOOLEAN],
           form'.id < store.next, form'.mode = "edit" => form'.id >= 1,
           form'.mode = "closed" => form' = NoForm,
           form' # NoForm => (target' = 0 /\ tab # "deployments"),
           target' \in Nat, target' < Limit,
           \A s \in OpSlots : Made(s) =>
               (regOps[s].ans.id # form'.id /\ regOps[s].ans.id # target')
    PROVE  RegInv'
<1> USE DEF RegInv
<1>1. \A s \in OpSlots : RegWell(s)'
  <2> TAKE s \in OpSlots
  <2>1. RegWell(s)
    BY DEF RegTypes
  <2> QED
    BY <2>1 DEF RegWell, RegShape, AnswerShape, TabVerbs, LastStep, Limit, Got, Made, JobMap
<1>2. RegTypes'
  BY <1>1 DEF RegTypes, RowMap, JobMap, CheckMap, Limit, NoForm, HistShape
<1>3. IdInv'
  BY DEF IdInv, Unseen, Got, Made
<1> QED
  BY <1>2, <1>3, OutsideDialogs

\* Opening, filling and closing dialogs.
LEMMA Dialogs ==
    ASSUME RegInv,
           \/ OpenCreateDialog \/ OpenEditDialog \/ CloseFormDialog
           \/ TypeTeamDraft \/ TypePlayerDraft \/ TypeChallengeDraft
           \/ SelectDeleteTarget \/ CloseDeleteDialog
    PROVE  RegInv'
<1>1. \A s \in OpSlots : Made(s) =>
        /\ regOps[s].ans.id \in Nat /\ 1 <= regOps[s].ans.id /\ Unseen(regOps[s].ans.id)
        /\ tab # "deployments"
  <2> TAKE s \in OpSlots
  <2> HAVE Made(s)
  <2>1. 1 <= regOps[s].ans.id /\ Unseen(regOps[s].ans.id)
    BY DEF RegInv, IdInv
  <2>2. RegWell(s)
    BY DEF RegInv, RegTypes
  <2> QED
    BY <2>1, <2>2 DEF Got, Made, RegWell, AnswerShape, TabVerbs
<1>2. /\ tab \in Tabs \union {"none"}
      /\ form \in [mode : {"closed", "create", "edit"}, id : Nat, complete : BOOLEAN]
      /\ form.id < store.next /\ (form.mode = "edit" => form.id >= 1) /\ (form.mode = "closed" => form = NoForm)
      /\ form # NoForm => (target = 0 /\ tab # "deployments")
      /\ target \in Nat /\ target < Limit
      /\ store.next \in Nat /\ store.nextJob \in Nat /\ store.next >= 2
      /\ \A r \in DOMAIN table.rows : r \in Nat /\ 1 <= r /\ r < store.next
      /\ \A j \in DOMAIN table.jobs : j \in Nat /\ 1 <= j /\ j < store.nextJob
  BY DEF RegInv, RegTypes, RowMap, JobMap
<1>3. CASE OpenCreateDialog
  <2>1. /\ UNCHANGED <<tab, store, table, regPending, regOps, regLeft, regHist>>
        /\ target' = target /\ target = 0 /\ tab # "deployments"
        /\ form' = [mode |-> "create", id |-> 0, complete |-> FALSE]
    BY <1>3 DEF OpenCreateDialog, DialogOpen
  <2> QED
    BY <1>1, <1>2, <2>1, DialogStep DEF Limit
<1>4. CASE OpenEditDialog
  <2>1. PICK r \in DOMAIN table.rows : form' = [mode |-> "edit", id |-> r, complete |-> TRUE]
    BY <1>4 DEF OpenEditDialog
  <2>2. /\ UNCHANGED <<tab, store, table, regPending, regOps, regLeft, regHist>>
        /\ target' = target /\ target = 0 /\ tab # "deployments"
    BY <1>4 DEF OpenEditDialog, DialogOpen
  <2>3. \A s \in OpSlots : Made(s) => regOps[s].ans.id # r
    BY <1>1, <2>1 DEF Unseen
  <2> QED
    BY <1>1, <1>2, <2>1, <2>2, <2>3, DialogStep DEF Limit
<1>5. CASE CloseFormDialog
  <2>1. /\ UNCHANGED <<tab, store, table, regPending, regOps, regLeft, regHist>>
        /\ target' = target
        /\ form' = NoForm
    BY <1>5 DEF CloseFormDialog
  <2> QED
    BY <1>1, <1>2, <2>1, DialogStep DEF NoForm, Unseen
<1>6. CASE TypeDraft
  <2>1. /\ UNCHANGED <<tab, store, table, regPending, regOps, regLeft, regHist>>
        /\ target' = target
        /\ form' = [form EXCEPT !.complete = TRUE] /\ form # NoForm
    BY <1>6 DEF TypeDraft
  <2>2. /\ form' \in [mode : {"closed", "create", "edit"}, id : Nat, complete : BOOLEAN]
        /\ form'.id = form.id /\ form'.mode = form.mode
    BY <1>2, <2>1
  <2> QED
    BY <1>1, <1>2, <2>1, <2>2, DialogStep DEF Unseen
<1>7. CASE SelectDeleteTarget
  <2>1. /\ UNCHANGED <<tab, store, table, regPending, regOps, regLeft, regHist>>
        /\ form' = form /\ form = NoForm
        /\ target' \in Deletable
    BY <1>7 DEF SelectDeleteTarget, DialogOpen
  <2>2. target' \in Nat /\ target' < Limit
    BY <1>2, <2>1 DEF Deletable, Limit
  <2>3. \A s \in OpSlots : Made(s) => regOps[s].ans.id # target'
    BY <1>1, <2>1 DEF Unseen, Deletable
  <2> QED
    BY <1>1, <1>2, <2>1, <2>2, <2>3, DialogStep DEF Unseen, NoForm
<1>8. CASE CloseDeleteDialog
  <2>1. /\ UNCHANGED <<tab, store, table, regPending, regOps, regLeft, regHist>>
        /\ form' = form
        /\ target' = 0 /\ target # 0
    BY <1>8 DEF CloseDeleteDialog
  <2> QED
    BY <1>1, <1>2, <2>1, DialogStep DEF Unseen, Limit
<1> QED
  BY <1>3, <1>4, <1>5, <1>6, <1>7, <1>8 DEF TypeTeamDraft, TypePlayerDraft, TypeChallengeDraft


-----------------------------------------------------------------------------
(* Actions begin.                                                          *)

\* The largest of a set of numbers, where there is one.
LEMMA LargestIs ==
    ASSUME NEW S, NEW n \in S, \A m \in S : m \in Nat /\ m <= n
    PROVE  Largest(S) = n
<1>1. \E m \in S \union {0} : \A k \in S : k <= m
  OBVIOUS
<1> DEFINE L == CHOOSE m \in S \union {0} : \A k \in S : k <= m
<1>2. L \in S \union {0} /\ \A k \in S : k <= L
  BY <1>1
<1>3. L <= n /\ n <= L /\ L \in Nat
  BY <1>2
<1>4. L = n
  BY <1>3
<1> QED
  BY <1>4, Zenon DEF Largest

\* The action that begins, and the history.
LEMMA Begun ==
    ASSUME RegInv, NEW s \in OpSlots, NEW verb \in Verbs, NEW id \in Nat, NEW arg, BeginOp(s, verb, id, arg)
    PROVE  /\ regOps' = [t \in OpSlots |-> regOps'[t]]
           /\ regOps[s].verb = "none"
           /\ RegShape(regOps'[s]) /\ AnswerShape(regOps'[s].ans) /\ regOps'[s].ans.res = "none"
           /\ regOps'[s].verb = verb /\ regOps'[s].id = id /\ regOps'[s].arg = arg /\ regOps'[s].step = 1
           /\ \A t \in OpSlots : t # s => regOps'[t] = regOps[t]
           /\ HistShape(regHist')
           /\ regHist'.lost = regHist.lost /\ regHist'.gap = regHist.gap /\ regHist'.deleted = regHist.deleted
           /\ regHist'.untold = regHist.untold
           /\ regHist'.unvalidated = regHist.unvalidated /\ regHist'.surprised = regHist.surprised
           /\ regHist'.crossed = (regHist.crossed \/ Crosses(verb, id))
           /\ ~(verb = "create" /\ arg = 0) => regHist'.preview = regHist.preview
           /\ (verb = "create" /\ arg = 0 /\ store.next - 1 \in DOMAIN table.rows) => regHist'.preview = store.next
           /\ regPending'.verb \in Verbs \union {"none"}
           /\ regLeft' \in Nat
           /\ UNCHANGED <<tab, store, table>>
<1>1. /\ regOps = [t \in OpSlots |-> regOps[t]] /\ HistShape(regHist) /\ regLeft \in Nat
      /\ regPending.verb \in Verbs \union {"none"}
      /\ \A r \in DOMAIN table.rows : r \in Nat /\ 1 <= r /\ r < store.next
      /\ store.next \in Nat
  BY DEF RegInv, RegTypes, RowMap
<1> DEFINE n1 == [NoOp EXCEPT !.verb = verb]
           n2 == [n1 EXCEPT !.id = id]
           n3 == [n2 EXCEPT !.arg = arg]
           new == [n3 EXCEPT !.step = 1]
<1>2. n1 = [verb |-> verb, id |-> 0, arg |-> 0, step |-> 0, checked |-> 0, ans |-> NoAnswer]
  BY DEF NoOp
<1>2a. n2 = [verb |-> verb, id |-> id, arg |-> 0, step |-> 0, checked |-> 0, ans |-> NoAnswer]
  <2> HIDE DEF n1
  <2> QED
    BY <1>2
<1>2b. n3 = [verb |-> verb, id |-> id, arg |-> arg, step |-> 0, checked |-> 0, ans |-> NoAnswer]
  <2> HIDE DEF n2
  <2> QED
    BY <1>2a
<1>2c. new = [verb |-> verb, id |-> id, arg |-> arg, step |-> 1, checked |-> 0, ans |-> NoAnswer]
  <2> HIDE DEF n3
  <2> QED
    BY <1>2b
<1>3. /\ new.verb = verb /\ new.id = id /\ new.arg = arg /\ new.step = 1 /\ new.ans = NoAnswer
      /\ RegShape(new)
  <2> HIDE DEF new
  <2> QED
    BY <1>2c DEF RegShape
<1>4. AnswerShape(NoAnswer) /\ NoAnswer.res = "none"
  BY DEF AnswerShape, NoAnswer, Rows
<1>5. /\ regOps' = [regOps EXCEPT ![s] = new] /\ regOps[s].verb = "none"
      /\ regLeft' \in Nat
      /\ UNCHANGED <<tab, store, table>>
  BY <1>1 DEF BeginOp, OpsInFlight
<1>6. regPending'.verb \in Verbs \union {"none"}
  BY <1>1 DEF BeginOp
<1>7. (verb = "create" /\ arg = 0 /\ store.next - 1 \in DOMAIN table.rows) => NextChallengeID = store.next
  BY <1>1, LargestIs DEF NextChallengeID
<1> DEFINE show == IF verb = "create" /\ arg = 0 THEN NextChallengeID ELSE regHist.preview
           cross == regHist.crossed \/ Crosses(verb, id)
<1>8. regHist' = [regHist EXCEPT !.crossed = cross, !.preview = show]
  BY DEF BeginOp
<1>9. cross \in BOOLEAN
  BY DEF Crosses
<1> HIDE DEF new, show, cross
<1> DEFINE h == [regHist EXCEPT !.crossed = cross]
<1>10. /\ HistShape(h)
       /\ h.lost = regHist.lost /\ h.gap = regHist.gap /\ h.deleted = regHist.deleted
       /\ h.unvalidated = regHist.unvalidated /\ h.surprised = regHist.surprised
       /\ h.crossed = cross /\ h.untold = regHist.untold
  BY <1>1, <1>9 DEF HistShape
<1> HIDE DEF h
<1>10a. /\ HistShape(regHist')
        /\ regHist'.lost = h.lost /\ regHist'.gap = h.gap /\ regHist'.deleted = h.deleted
        /\ regHist'.unvalidated = h.unvalidated /\ regHist'.surprised = h.surprised
        /\ regHist'.crossed = h.crossed /\ regHist'.preview = show /\ regHist'.untold = h.untold
  <2>1. regHist' = [h EXCEPT !.preview = show]
    BY <1>8 DEF h
  <2> QED
    BY <1>10, <2>1 DEF HistShape
<1>11. /\ regOps' = [t \in OpSlots |-> regOps'[t]] /\ regOps'[s] = new
       /\ \A t \in OpSlots : t # s => regOps'[t] = regOps[t]
  BY <1>1, <1>5
<1> QED
  BY <1>3, <1>4, <1>5, <1>6, <1>7, <1>10, <1>10a, <1>11 DEF show, cross


\* An action begins about a row of the page, or about none.
LEMMA BeginStep ==
    ASSUME RegInv, NEW s \in OpSlots, NEW verb \in TabVerbs, NEW id \in Nat, NEW arg, BeginOp(s, verb, id, arg),
           form' = form, target' \in {target, 0},
           verb \in RowVerbs => (1 <= id /\ id < Limit),
           verb \in {"create", "import", "reconcile"} => id = 0,
           verb = "active" => arg \in BOOLEAN,
           verb \in {"create", "import"} => arg \in Nat,
           tab # "deployments" => (id \in DOMAIN table.rows \/ id \in {0, form.id, target})
    PROVE  RegInv'
<1> USE DEF RegInv
<1>1. verb \in Verbs
  BY DEF TabVerbs, Verbs, RegTypes, Tabs
<1>2. /\ regOps' = [t \in OpSlots |-> regOps'[t]]
      /\ regOps[s].verb = "none"
      /\ RegShape(regOps'[s]) /\ AnswerShape(regOps'[s].ans) /\ regOps'[s].ans.res = "none"
      /\ regOps'[s].verb = verb /\ regOps'[s].id = id /\ regOps'[s].arg = arg /\ regOps'[s].step = 1
      /\ \A t \in OpSlots : t # s => regOps'[t] = regOps[t]
      /\ HistShape(regHist')
      /\ regHist'.lost = regHist.lost /\ regHist'.gap = regHist.gap /\ regHist'.deleted = regHist.deleted
      /\ regHist'.unvalidated = regHist.unvalidated /\ regHist'.surprised = regHist.surprised
      /\ regHist'.crossed = (regHist.crossed \/ Crosses(verb, id))
      /\ ~(verb = "create" /\ arg = 0) => regHist'.preview = regHist.preview
      /\ (verb = "create" /\ arg = 0 /\ store.next - 1 \in DOMAIN table.rows) => regHist'.preview = store.next
      /\ regPending'.verb \in Verbs \union {"none"}
      /\ regLeft' \in Nat
      /\ UNCHANGED <<tab, store, table>>
  BY <1>1, Begun
\* The answers that wait are the same.
<1>3. \A t \in OpSlots : regOps[t].ans.res = "ok" => (t # s /\ regOps'[t] = regOps[t])
  BY <1>2 DEF RegTypes, RegWell
<1>4. \A t \in OpSlots : regOps'[t].ans.res = "ok" => (t # s /\ regOps'[t] = regOps[t])
  BY <1>2
<1>5. ~regHist'.crossed => (~regHist.crossed /\ ~Crosses(verb, id))
  BY <1>2
<1>6. RegTypes'
  <2>1. RegWell(s)'
    BY <1>2 DEF RegWell, TabVerbs, LastStep, RowVerbs, Limit, Got, Made, RegTypes
  <2>2. \A t \in OpSlots : t # s => RegWell(t)'
    <3> SUFFICES ASSUME NEW t \in OpSlots, t # s PROVE RegWell(t)'
      OBVIOUS
    <3>1. RegWell(t) /\ regOps'[t] = regOps[t] /\ UNCHANGED <<tab, store>>
      BY <1>2 DEF RegTypes
    <3> QED
      BY <3>1 DEF RegWell, RegShape, AnswerShape, TabVerbs, LastStep, Limit, Got, Made, JobMap
  <2>3. target' \in Nat /\ target' < Limit
    BY DEF RegTypes, Limit
  <2> QED
    BY <1>2, <2>1, <2>2, <2>3 DEF RegTypes, RowMap, JobMap, CheckMap, Limit, NoForm, HistShape
<1>7. IdInv'
  <2>1. \A t \in OpSlots : Made(t) =>
          /\ regOps[t].ans.id \in Nat /\ 1 <= regOps[t].ans.id /\ tab # "deployments"
    BY DEF IdInv, RegTypes, RegWell, AnswerShape, Got, Made, TabVerbs
  <2>2. ASSUME NEW t \in OpSlots, Made(t)
        PROVE  Unseen(regOps[t].ans.id)'
    <3>1. Unseen(regOps[t].ans.id) /\ regOps'[t] = regOps[t]
      BY <2>2, <1>3 DEF IdInv, Got, Made
    <3>2. id # regOps[t].ans.id /\ target' # regOps[t].ans.id
      BY <2>1, <2>2, <3>1 DEF Unseen
    <3> QED
      BY <1>2, <3>1, <3>2 DEF Unseen
  <2>3. \A t \in OpSlots : Made(t)' =>
          /\ Made(t)
          /\ (1 <= regOps[t].ans.id /\ regOps[t].ans.id < store.next /\ Unseen(regOps[t].ans.id))'
          /\ (regOps[t].ans.id \in DOMAIN store.rows /\ store.rows[regOps[t].ans.id] = regOps[t].ans.row)'
    BY <1>2, <1>4, <2>2 DEF IdInv, Got, Made
  <2>4. \A t \in OpSlots : Got(t, "delete", 1)' => Got(t, "delete", 1)
    BY <1>4 DEF Got, Made
  <2> QED
    BY <1>2, <1>4, <2>3, <2>4 DEF IdInv, Got, Made
<1>8. ApartInv'
  BY <1>2, <1>5 DEF ApartInv, Crosses, OpsInFlight
<1>9. QueueInv'
  BY <1>2, <1>4 DEF QueueInv, OneQueued, Got, Made
<1>10. CheckedInv'
  BY <1>2, <1>4, <1>5 DEF CheckedInv, Got, Made
<1>11. RowInv'
  <2>1. ASSUME NEW r, r \in DOMAIN table.rows, RowAgrees(r)
        PROVE  RowAgrees(r)'
    BY <2>1, <1>2, <1>3 DEF RowAgrees, Got, Made
  <2> QED
    BY <1>2, <1>3, <1>4, <1>5, <2>1
    DEF RowInv, RowsComing, RowsGoing, RowsAnswered, RowsPublished, VersionsAnswered, ChecksFit, Got, Made
<1>12. JobInv'
  <2> SUFFICES ASSUME tab # "deployments", ~regHist.lost, ~regHist.crossed
               PROVE  JobInv'
    BY <1>2, <1>5 DEF JobInv
  <2>1. ASSUME NEW j \in DOMAIN table.jobs
        PROVE  Deploys(table.jobs[j].challenge)' <=> Deploys(table.jobs[j].challenge)
    BY <1>2, <1>3, <1>4 DEF Deploys, Got, Made
  <2>2. JobsShown'
    BY <1>2, <2>1 DEF JobInv, JobsShown
  <2>3. JobsComing'
    BY <1>2, <1>3 DEF JobInv, JobsComing, Got, Made
  <2>4. JobsAnswered'
    BY <1>2, <1>4 DEF JobInv, JobsAnswered, Got, Made
  <2> QED
    BY <2>2, <2>3, <2>4 DEF JobInv
<1>13. ListInv'
  <2>1. \A t \in OpSlots : Reconciled(t)' => Reconciled(t)
    BY <1>2 DEF Reconciled
  <2>2. \A t \in OpSlots : Reconciled(t) => Reconciled(t)'
    BY <1>2 DEF Reconciled
  <2> QED
    BY <1>2, <1>3, <1>4, <1>5, <2>1, <2>2 DEF ListInv, ListShown, Got, Made
<1>14. OctetInv'
  <2>1. CASE verb = "create" /\ arg = 0
    <3>1. ~regHist'.crossed => \A t \in OpSlots : regOps[t].verb # "create"
      BY <2>1, <1>2, <1>5 DEF Crosses, OpsInFlight
    <3> QED
      BY <1>2, <1>3, <1>4, <1>5, <2>1, <3>1 DEF OctetInv, Got, Made
  <2>2. CASE ~(verb = "create" /\ arg = 0)
    BY <1>2, <1>3, <1>4, <1>5, <2>2 DEF OctetInv, Got, Made
  <2> QED
    BY <2>1, <2>2
<1> QED
  BY <1>6, <1>7, <1>8, <1>9, <1>10, <1>11, <1>12, <1>13, <1>14


\* What the organizer starts.
LEMMA Begins ==
    ASSUME RegInv, NEW s \in OpSlots,
           \/ SubmitForm(s) \/ ConfirmDelete(s) \/ ClickRow(s) \/ ImportTeams(s) \/ ReconcileJobs(s)
    PROVE  RegInv'
<1>1. /\ tab \in Tabs \union {"none"}
      /\ form \in [mode : {"closed", "create", "edit"}, id : Nat, complete : BOOLEAN]
      /\ form.id < store.next /\ (form.mode = "edit" => form.id >= 1) /\ (form.mode = "closed" => form = NoForm)
      /\ form # NoForm => tab # "deployments"
      /\ target \in Nat /\ target < Limit
      /\ store.next \in Nat /\ store.nextJob \in Nat /\ store.next >= 2
      /\ \A r \in DOMAIN table.rows : r \in Nat /\ 1 <= r /\ r < store.next /\ table.rows[r] \in Rows
      /\ \A j \in DOMAIN table.jobs : j \in Nat /\ 1 <= j /\ j < store.nextJob
  BY DEF RegInv, RegTypes, RowMap, JobMap
<1>2. CASE SubmitForm(s) /\ form.mode = "create"
  <2>1. /\ tab \in {"teams", "players", "challenges"} /\ form' = form /\ target' = target
        /\ \E octet \in 0..store.next : BeginOp(s, "create", 0, octet)
    BY <1>1, <1>2 DEF SubmitForm, CreateTeam, CreatePlayer, CreateChallenge
  <2>2. PICK octet \in 0..store.next : BeginOp(s, "create", 0, octet)
    BY <2>1
  <2>3. octet \in Nat /\ "create" \in TabVerbs
    BY <1>1, <2>1 DEF TabVerbs
  <2> QED
    BY <2>1, <2>2, <2>3, BeginStep DEF RowVerbs
<1>3. CASE SubmitForm(s) /\ form.mode # "create"
  <2>1. /\ tab \in {"teams", "players", "challenges"} /\ form' = form /\ target' = target
        /\ BeginOp(s, "update", form.id, 0) /\ form # NoForm
    BY <1>3 DEF SubmitForm, UpdateTeam, UpdatePlayer, UpdateChallenge
  <2>2. form.mode = "edit"
    <3>1. form.mode # "closed"
      BY <2>1, <1>1
    <3> QED
      BY <3>1, <1>1, <1>3
  <2>3. form.id \in Nat /\ 1 <= form.id /\ form.id < Limit /\ "update" \in TabVerbs
    BY <1>1, <2>1, <2>2 DEF TabVerbs, Limit
  <2> QED
    BY <2>1, <2>3, BeginStep DEF RowVerbs
<1>4. CASE ConfirmDelete(s)
  <2>1. /\ target # 0 /\ target' = 0 /\ form' = form
        /\ \/ tab \in Tabs /\ BeginOp(s, "delete", target, 0)
           \/ UNCHANGED <<tab, store, table, regPending, regOps, regLeft, regHist>>
    BY <1>4 DEF ConfirmDelete, DeleteTeam, DeletePlayer, DeleteChallenge, DeleteDeployment, Tabs
  <2>2. CASE tab \in Tabs /\ BeginOp(s, "delete", target, 0)
    <3>1. "delete" \in TabVerbs /\ 1 <= target /\ target < Limit
      BY <1>1, <2>1, <2>2 DEF TabVerbs, Tabs
    <3> QED
      BY <1>1, <2>1, <2>2, <3>1, BeginStep DEF RowVerbs
  <2>3. CASE UNCHANGED <<tab, store, table, regPending, regOps, regLeft, regHist>>
    <3>1. \A t \in OpSlots : Made(t) =>
            /\ regOps[t].ans.id # form.id
            /\ 1 <= regOps[t].ans.id
      BY DEF RegInv, IdInv, Unseen
    <3>2. 0 < Limit
      BY <1>1 DEF Limit
    <3> QED
      BY <1>1, <2>1, <2>3, <3>1, <3>2, DialogStep
  <2> QED
    BY <2>1, <2>2, <2>3
<1>5. CASE ClickRow(s)
  <2>1. PICK r \in DOMAIN table.rows : TeamRow(s, r) \/ PlayerRow(s, r) \/ ChallengeRow(s, r)
    BY <1>5 DEF ClickRow
  <2>2. form' = form /\ target' = target
    BY <1>5 DEF ClickRow
  <2>3. r \in Nat /\ 1 <= r /\ (tab # "deployments" => r < Limit)
    BY <1>1 DEF Limit
  <2>4. CASE /\ tab \in {"teams", "players", "challenges"}
             /\ BeginOp(s, "active", r, r \in table.inactive)
    <3>1. "active" \in TabVerbs
      BY <2>4 DEF TabVerbs
    <3> DEFINE flag == r \in table.inactive
    <3>2. BeginOp(s, "active", r, flag) /\ flag \in BOOLEAN
      BY <2>3, <2>4
    <3> HIDE DEF flag
    <3> QED
      BY <2>2, <2>3, <2>4, <3>1, <3>2, BeginStep DEF RowVerbs
  <2>5. CASE tab = "challenges" /\ BeginOp(s, "validate", r, 0)
    <3>1. "validate" \in TabVerbs
      BY <2>5 DEF TabVerbs
    <3> QED
      BY <2>2, <2>3, <2>5, <3>1, BeginStep DEF RowVerbs
  <2>6. CASE tab = "challenges" /\ BeginOp(s, "deploy", r, 0)
    <3>1. "deploy" \in TabVerbs
      BY <2>6 DEF TabVerbs
    <3> QED
      BY <2>2, <2>3, <2>6, <3>1, BeginStep DEF RowVerbs
  <2> QED
    BY <2>1, <2>4, <2>5, <2>6 DEF TeamRow, PlayerRow, ChallengeRow, SetTeamActiveState,
       SetPlayerActiveState, SetChallengeMaintenanceState, ValidateChallenge, DeployChallenge
<1>6. CASE ImportTeams(s)
  <2>1. tab = "teams" /\ BeginOp(s, "import", 0, 0) /\ form' = form /\ target' = target
    BY <1>6 DEF ImportTeams
  <2>2. "import" \in TabVerbs
    BY <2>1 DEF TabVerbs
  <2> QED
    BY <2>1, <2>2, BeginStep DEF RowVerbs
<1>7. CASE ReconcileJobs(s)
  <2>1. tab = "deployments" /\ BeginOp(s, "reconcile", 0, 0) /\ form' = form /\ target' = target
    BY <1>7 DEF ReconcileJobs
  <2>2. "reconcile" \in TabVerbs
    BY <2>1 DEF TabVerbs
  <2> QED
    BY <2>1, <2>2, BeginStep DEF RowVerbs
<1> QED
  BY <1>2, <1>3, <1>4, <1>5, <1>6, <1>7


-----------------------------------------------------------------------------
(* The api-gateway answers.                                                *)

\* The step that gives action s its answer: the action is otherwise as it was.
Served(s) ==
    /\ regOps[s].verb # "none" /\ regOps[s].ans.res = "none"
    /\ regOps' = [t \in OpSlots |-> regOps'[t]]
    /\ RegShape(regOps'[s]) /\ AnswerShape(regOps'[s].ans) /\ regOps'[s].ans.res \in {"ok", "failed"}
    /\ regOps'[s].verb = regOps[s].verb /\ regOps'[s].id = regOps[s].id /\ regOps'[s].arg = regOps[s].arg
    /\ regOps'[s].step = regOps[s].step /\ regOps'[s].checked = regOps[s].checked
    /\ \A t \in OpSlots : t # s => regOps'[t] = regOps[t]
    /\ HistShape(regHist') /\ (regHist.lost => regHist'.lost)
    /\ regHist'.crossed = regHist.crossed /\ (regHist.gap => regHist'.gap) /\ regHist'.deleted = regHist.deleted
    /\ regHist'.surprised = regHist.surprised /\ regHist'.preview = regHist.preview
    /\ regHist'.untold = regHist.untold
    /\ UNCHANGED <<tab, table, form, target, regPending, regLeft>>

\* An answer that tells no row's flag, to a request that changes none.
Quiet(s) ==
    /\ Served(s) /\ store'.inactive = store.inactive /\ store'.next = store.next
    /\ DOMAIN store'.rows \subseteq DOMAIN store.rows
    /\ ~Got(s, "active", 1)' /\ ~Got(s, "update", 1)' /\ ~Got(s, "create", 1)'

\* Whether a row is inactive, as an answer tells it: it may only be in error about
\* a row that is active, where the flag is not told.
AnswerFits(told, id, req) ==
    /\ id \in store.inactive => told
    /\ told => (id \in store.inactive \/ FlagUntold(req))

\* Storing an answer is a Served step.
LEMMA Serving ==
    ASSUME RegInv, NEW s \in OpSlots, regOps[s].verb # "none", regOps[s].ans.res = "none",
           NEW a, AnswerShape(a), a.res \in {"ok", "failed"}, regOps' = [regOps EXCEPT ![s].ans = a],
           HistShape(regHist'), regHist.lost => regHist'.lost,
           regHist'.crossed = regHist.crossed, regHist.gap => regHist'.gap, regHist'.deleted = regHist.deleted,
           regHist'.surprised = regHist.surprised, regHist'.preview = regHist.preview,
           regHist'.untold = regHist.untold,
           UNCHANGED <<tab, table, form, target, regPending, regLeft>>
    PROVE  Served(s) /\ regOps'[s].ans = a
<1>1. regOps = [t \in OpSlots |-> regOps[t]] /\ RegShape(regOps[s])
  BY DEF RegInv, RegTypes, RegWell
<1> DEFINE op == regOps[s]
           new == [op EXCEPT !.ans = a]
<1>2. /\ new.verb = op.verb /\ new.id = op.id /\ new.arg = op.arg /\ new.step = op.step
      /\ new.checked = op.checked /\ new.ans = a /\ RegShape(new)
  <2> HIDE DEF op
  <2>1. RegShape(op)
    BY <1>1 DEF op
  <2> QED
    BY <2>1 DEF RegShape
<1>3. regOps' = [regOps EXCEPT ![s] = new]
  OBVIOUS
<1> HIDE DEF new
<1>4. /\ regOps' = [t \in OpSlots |-> regOps'[t]] /\ regOps'[s] = new
      /\ \A t \in OpSlots : t # s => regOps'[t] = regOps[t]
  BY <1>1, <1>3
<1> QED
  BY <1>2, <1>4 DEF Served

\* An answer that arrives or is lost on its way back is a Served step.
LEMMA ReplyServes ==
    ASSUME RegInv, NEW s \in OpSlots, regOps[s].verb # "none", regOps[s].ans.res = "none",
           NEW new, NEW ans, AnswerShape(ans), Reply(s, new, ans)
    PROVE  /\ Served(s) /\ store' = new
           /\ regOps'[s].ans.id = ans.id /\ regOps'[s].ans.row = ans.row
           /\ regOps'[s].ans.valid = ans.valid /\ regOps'[s].ans.jobs = ans.jobs
           /\ regOps'[s].ans.inactive = ans.inactive
           /\ regHist'.unvalidated = regHist.unvalidated
           /\ regOps'[s].ans.res = "ok" \/ regHist'.lost \/ store' = store
<1>1. PICK res \in {"ok", "failed"} :
        /\ regOps' = [regOps EXCEPT ![s].ans = [ans EXCEPT !.res = res]]
        /\ regHist' = [regHist EXCEPT !.lost = regHist.lost \/ (res = "failed" /\ new # store)]
  BY DEF Reply
<1>2. store' = new /\ UNCHANGED <<tab, table, form, target, regPending, regLeft>>
  BY DEF Reply
<1>3. HistShape(regHist)
  BY DEF RegInv, RegTypes
<1> DEFINE a == [ans EXCEPT !.res = res]
           gone == regHist.lost \/ (res = "failed" /\ new # store)
<1>4. AnswerShape(a) /\ a.res = res /\ a.id = ans.id /\ a.row = ans.row /\ a.valid = ans.valid /\ a.jobs = ans.jobs
      /\ a.inactive = ans.inactive
  BY DEF AnswerShape
<1>5. gone \in BOOLEAN
  BY <1>3 DEF HistShape
<1>6. regOps' = [regOps EXCEPT ![s].ans = a] /\ regHist' = [regHist EXCEPT !.lost = gone]
  BY <1>1
<1> HIDE DEF a, gone
<1>7. /\ HistShape(regHist') /\ regHist'.lost = gone
      /\ regHist'.crossed = regHist.crossed /\ regHist'.gap = regHist.gap /\ regHist'.deleted = regHist.deleted
      /\ regHist'.surprised = regHist.surprised /\ regHist'.preview = regHist.preview
      /\ regHist'.unvalidated = regHist.unvalidated /\ regHist'.untold = regHist.untold
  BY <1>3, <1>5, <1>6 DEF HistShape
<1>8. Served(s) /\ regOps'[s].ans = a
  BY <1>2, <1>4, <1>6, <1>7, Serving DEF gone
<1> QED
  BY <1>2, <1>4, <1>7, <1>8 DEF gone


\* Rows and jobs stay so when ids are given out.
LEMMA MapsGrow ==
    ASSUME NEW m \in Nat, NEW n \in Nat, m <= n
    PROVE  /\ \A f : RowMap(f, m) => RowMap(f, n)
           /\ \A f : JobMap(f, m) => JobMap(f, n)
BY DEF RowMap, JobMap

\* The types after an answer: the store's ids only grow.
LEMMA ServedTypes ==
    ASSUME RegInv, NEW s \in OpSlots, Served(s),
           store' \in [rows : {store'.rows}, inactive : {store'.inactive}, jobs : {store'.jobs},
                       next : Nat, nextJob : Nat, teams : {0, 1}],
           store.next <= store'.next, store.nextJob <= store'.nextJob,
           RowMap(store'.rows, store'.next), JobMap(store'.jobs, store'.nextJob),
           Got(s, "deploy", 2)' => \/ regOps'[s].ans.jobs = <<>>
                                   \/ \E n \in 1..(store'.nextJob - 1) : regOps'[s].ans.jobs = Alone(n),
           Got(s, "reconcile", 2)' => JobMap(regOps'[s].ans.jobs, store'.nextJob)
    PROVE  RegTypes'
<1> USE DEF RegInv
<1>1. store.next \in Nat /\ store.nextJob \in Nat /\ store'.next \in Nat /\ store'.nextJob \in Nat
  BY DEF RegTypes
<1>2. Limit \in Nat /\ Limit' \in Nat /\ Limit <= Limit'
  BY <1>1 DEF Limit, Served
<1>3. RegWell(s)'
  <2>1. RegWell(s)
    BY DEF RegTypes
  <2>2. regOps[s].id \in Nat
    BY <2>1 DEF RegWell, RegShape
  <2>3. TabVerbs' = TabVerbs /\ \A v : LastStep(v)' = LastStep(v)
    BY DEF Served, TabVerbs, LastStep
  <2> QED
    BY <1>2, <2>1, <2>2, <2>3 DEF RegWell, Served
<1>4. ASSUME NEW t \in OpSlots, t # s PROVE RegWell(t)'
  <2>1. RegWell(t) /\ regOps'[t] = regOps[t] /\ tab' = tab
    BY <1>4 DEF RegTypes, Served
  <2>2. regOps[t].id \in Nat
    BY <2>1 DEF RegWell, RegShape
  <2>3. TabVerbs' = TabVerbs /\ \A v : LastStep(v)' = LastStep(v)
    BY <2>1 DEF TabVerbs, LastStep
  <2>4. Got(t, "deploy", 2)' => \/ regOps'[t].ans.jobs = <<>>
                                \/ \E n \in 1..(store'.nextJob - 1) : regOps'[t].ans.jobs = Alone(n)
    <3>1. Got(t, "deploy", 2)' <=> Got(t, "deploy", 2)
      BY <2>1 DEF Got
    <3>2. 1..(store.nextJob - 1) \subseteq 1..(store'.nextJob - 1)
      BY <1>1
    <3> QED
      BY <2>1, <3>1, <3>2 DEF RegWell
  <2>5. Got(t, "reconcile", 2)' => JobMap(regOps'[t].ans.jobs, store'.nextJob)
    <3>1. Got(t, "reconcile", 2)' <=> Got(t, "reconcile", 2)
      BY <2>1 DEF Got
    <3> QED
      BY <1>1, <2>1, <3>1, MapsGrow DEF RegWell
  <2> QED
    BY <1>2, <2>1, <2>2, <2>3, <2>4, <2>5 DEF RegWell, RegShape, AnswerShape
<1>5. RowMap(table.rows, store'.next) /\ JobMap(table.jobs, store'.nextJob)
  BY <1>1, MapsGrow DEF RegTypes
<1>6. /\ form.id \in Nat /\ target \in Nat /\ target < Limit
      /\ \A r \in regHist.deleted : r \in Nat /\ r < Limit
      /\ form.id < store.next
  BY DEF RegTypes, HistShape
<1>7. /\ form'.id < store'.next /\ target' < Limit' /\ \A r \in regHist'.deleted : r < Limit'
  BY <1>1, <1>2, <1>6 DEF Served
<1> QED
  BY <1>3, <1>4, <1>5, <1>7 DEF RegTypes, Served, CheckMap


\* Without a crossing no other action is about the row, so the page has the
\* store's row while the action waits for its answer.
LEMMA Alike ==
    ASSUME RegInv, NEW s \in OpSlots, regOps[s].verb # "none", regOps[s].verb \in RowVerbs,
           regOps[s].ans.res = "none", ~regHist.crossed
    PROVE  /\ \A t \in OpSlots : t # s => regOps[t].id # regOps[s].id
           /\ (~regHist.lost /\ regOps[s].id \in DOMAIN store.rows) =>
                (regOps[s].id \in DOMAIN table.rows /\ table.rows[regOps[s].id] = store.rows[regOps[s].id])
<1>1. regOps[s].id # 0
  BY DEF RegInv, RegTypes, RegWell, RegShape
<1>2. \A t \in OpSlots : t # s => regOps[t].id # regOps[s].id
  BY <1>1 DEF RegInv, ApartInv, RegTypes, RegWell
<1>3. ASSUME ~regHist.lost, regOps[s].id \in DOMAIN store.rows
      PROVE  regOps[s].id \in DOMAIN table.rows /\ table.rows[regOps[s].id] = store.rows[regOps[s].id]
  <2>1. RowsComing
    BY <1>3 DEF RegInv, RowInv
  <2>2. \A t \in OpSlots : Made(t) => regOps[t].ans.id # regOps[s].id
    BY DEF RegInv, IdInv, Unseen
  <2>3. regOps[s].id \in DOMAIN table.rows /\ RowAgrees(regOps[s].id)
    BY <1>3, <2>1, <2>2 DEF RowsComing
  <2> QED
    BY <1>2, <2>3 DEF RowAgrees, Got
<1> QED
  BY <1>2, <1>3

\* What an answer leaves alone.
LEMMA ServedApart ==
    ASSUME RegInv, NEW s \in OpSlots, Served(s)
    PROVE  ApartInv'
<1>1. ApartInv /\ regHist'.crossed = regHist.crossed
  BY DEF RegInv, Served
<1>2. \A t \in OpSlots : regOps'[t].verb = regOps[t].verb /\ regOps'[t].id = regOps[t].id
  BY DEF Served
<1> QED
  BY <1>1, <1>2 DEF ApartInv

\* Serving a request: one queued job of a challenge.
LEMMA ServedQueue ==
    ASSUME RegInv, NEW s \in OpSlots, Served(s), OneQueued(store'.jobs),
           Got(s, "reconcile", 2)' => OneQueued(regOps'[s].ans.jobs)
    PROVE  QueueInv'
<1>1. OneQueued(table'.jobs)
  BY DEF RegInv, QueueInv, Served
<1>2. \A t \in OpSlots : t # s => (Got(t, "reconcile", 2)' => OneQueued(regOps'[t].ans.jobs))
  BY DEF RegInv, QueueInv, Served, Got
<1> QED
  BY <1>1, <1>2 DEF QueueInv

\* Serving a request that is not about jobs.
LEMMA ServedJobs ==
    ASSUME RegInv, NEW s \in OpSlots, Served(s), store'.jobs = store.jobs, store'.nextJob = store.nextJob,
           ~Got(s, "deploy", 2)'
    PROVE  JobInv'
<1> SUFFICES ASSUME tab # "deployments", ~regHist.lost, ~regHist.crossed PROVE JobInv'
  BY DEF JobInv, Served
<1>1. JobsShown /\ JobsComing /\ JobsAnswered
  BY DEF RegInv, JobInv
<1>2. \A t \in OpSlots : Got(t, "deploy", 2) <=> Got(t, "deploy", 2)'
  BY DEF Served, Got
<1>3. \A t \in OpSlots : Got(t, "deploy", 2) => (t # s /\ regOps'[t] = regOps[t])
  BY DEF Served, Got
<1>4. table' = table
  BY DEF Served
<1>5. ASSUME NEW j \in DOMAIN table.jobs
      PROVE  Deploys(table.jobs[j].challenge)' <=> Deploys(table.jobs[j].challenge)
  BY <1>2, <1>3, <1>4 DEF Deploys
<1>6. JobsShown'
  BY <1>1, <1>4, <1>5 DEF JobsShown
<1>7. JobsComing'
  BY <1>1, <1>2, <1>3, <1>4 DEF JobsComing
<1>8. JobsAnswered'
  BY <1>1, <1>2, <1>3, <1>4 DEF JobsAnswered
<1> QED
  BY <1>6, <1>7, <1>8 DEF JobInv

\* Serving a request that creates nothing.
LEMMA ServedOctet ==
    ASSUME RegInv, NEW s \in OpSlots, Served(s), store'.next = store.next, ~Got(s, "create", 1)'
    PROVE  OctetInv'
<1>1. \A t \in OpSlots : Got(t, "create", 1) => (t # s /\ Got(t, "create", 1)' /\ regOps'[t] = regOps[t])
  BY DEF Served, Got
<1>2. \A t \in OpSlots : (regOps'[t].verb = "create" /\ regOps'[t].arg = 0 /\ regOps'[t].step = 1) =>
        \/ regOps'[t] = regOps[t]
        \/ regOps'[t].ans.res = "failed"
  BY DEF Served, Got
<1>3. UNCHANGED <<tab, table>> /\ (regHist.lost => regHist'.lost) /\ regHist'.preview = regHist.preview
      /\ regHist'.crossed = regHist.crossed /\ (regHist.gap => regHist'.gap) /\ regHist'.surprised = regHist.surprised
  BY DEF Served
<1> QED
  BY <1>1, <1>2, <1>3 DEF RegInv, OctetInv

\* The rows, when the answer is not about a change of one.
LEMMA ServedRows ==
    ASSUME RegInv, NEW s \in OpSlots, Served(s), store'.rows = store.rows,
           ~Got(s, "create", 1)', ~Got(s, "update", 1)', ~Got(s, "active", 1)', ~Got(s, "deploy", 2)',
           (/\ ~regHist.lost /\ ~regHist.crossed
            /\ Got(s, "validate", 1)' \/ Got(s, "deploy", 1)'
            /\ regOps[s].id \in DOMAIN table.rows)
               => regOps'[s].ans.row.ver = table.rows[regOps[s].id].ver
    PROVE  RowInv'
<1> SUFFICES ASSUME ~regHist.lost, ~regHist.crossed PROVE RowInv'
  BY DEF RowInv, Served
<1>1. RowsComing /\ RowsGoing /\ RowsAnswered /\ RowsPublished /\ VersionsAnswered /\ ChecksFit
  BY DEF RegInv, RowInv
<1>2. \A t \in OpSlots : regOps[t].ans.res = "ok" => (t # s /\ regOps'[t] = regOps[t])
  BY DEF Served
<1>3. \A t \in OpSlots : t # s => regOps'[t] = regOps[t]
  BY DEF Served
<1>4. table' = table /\ tab' = tab /\ regOps'[s].id = regOps[s].id
  BY DEF Served
<1>5. \A r \in DOMAIN table.rows : RowAgrees(r) => RowAgrees(r)'
  BY <1>2, <1>4 DEF RowAgrees, Got
<1>6. RowsComing'
  BY <1>1, <1>2, <1>4, <1>5 DEF RowsComing, Made, Got
<1>7. RowsGoing'
  BY <1>1, <1>2, <1>4 DEF RowsGoing, Got
<1>8. RowsAnswered'
  BY <1>1, <1>3, <1>4 DEF RowsAnswered, Got
<1>8a. RowsPublished'
  BY <1>1, <1>3, <1>4 DEF RowsPublished, Got
<1>9. VersionsAnswered'
  BY <1>1, <1>3, <1>4 DEF VersionsAnswered, Got
<1>10. ChecksFit'
  BY <1>1, <1>4 DEF ChecksFit
<1> QED
  BY <1>6, <1>7, <1>8, <1>8a, <1>9, <1>10 DEF RowInv


\* Serving a request: new ids are new to the page, deleted ones are gone.
LEMMA ServedIds ==
    ASSUME RegInv, NEW s \in OpSlots, Served(s), store'.next \in Nat, store.next <= store'.next,
           \A n \in DOMAIN store'.rows : n < store.next =>
               (n \in DOMAIN store.rows /\ (store'.rows[n] = store.rows[n] \/ n = regOps[s].id)),
           \A n \in DOMAIN store.rows : n \in DOMAIN store'.rows \/ n = regOps[s].id,
           \A j \in DOMAIN store'.jobs : j < store.nextJob => j \in DOMAIN store.jobs,
           Made(s)' => /\ regOps'[s].ans.id = store.next /\ store.next < store'.next
                       /\ store.next \in DOMAIN store'.rows /\ store'.rows[store.next] = regOps'[s].ans.row,
           Got(s, "delete", 1)' =>
               regOps[s].id \notin DOMAIN (IF tab = "deployments" THEN store'.jobs ELSE store'.rows)
    PROVE  IdInv'
<1>1. /\ store.next \in Nat /\ store.nextJob \in Nat /\ store.next >= 2
      /\ tab' = tab /\ table' = table /\ form' = form /\ target' = target
      /\ regHist'.deleted = regHist.deleted /\ regHist.deleted \subseteq Nat
      /\ \A r \in regHist.deleted : r < Limit
      /\ form.id \in Nat /\ form.id < store.next /\ target \in Nat /\ target < Limit
      /\ \A r \in DOMAIN table.rows : r \in Nat /\ r < store.next
  BY DEF RegInv, RegTypes, Served, RowMap, HistShape
<1>2. \A t \in OpSlots :
        /\ regOps'[t].id = regOps[t].id /\ regOps[t].id \in Nat
        /\ tab # "deployments" => regOps[t].id < store.next
        /\ regOps[t].verb = "delete" => regOps[t].id < Limit
  <2> TAKE t \in OpSlots
  <2>1. RegWell(t)
    BY DEF RegInv, RegTypes
  <2>2. regOps[t].verb \in RowVerbs \union {"create", "import", "reconcile", "none"}
    BY <2>1 DEF RegWell, RegShape, Verbs, RowVerbs
  <2>3. regOps'[t].id = regOps[t].id
    BY DEF Served
  <2> QED
    BY <1>1, <2>1, <2>2, <2>3 DEF RegWell, RegShape, Limit, RowVerbs
<1>3. \A t \in OpSlots : t # s => regOps'[t] = regOps[t]
  BY DEF Served
<1>4. \A t \in OpSlots : Made(t)' => tab # "deployments"
  <2> TAKE t \in OpSlots
  <2>1. RegWell(t) /\ regOps'[t].verb = regOps[t].verb
    BY DEF RegInv, RegTypes, Served
  <2> QED
    BY <2>1 DEF RegWell, Made, Got, TabVerbs
<1>5. \A t \in OpSlots : (t # s /\ Made(t)') =>
        /\ Made(t) /\ regOps[t].ans.id \in Nat
        /\ 1 <= regOps[t].ans.id /\ regOps[t].ans.id < store.next /\ Unseen(regOps[t].ans.id)
        /\ regOps[t].ans.id \in DOMAIN store.rows /\ store.rows[regOps[t].ans.id] = regOps[t].ans.row
  BY <1>3 DEF RegInv, IdInv, RegTypes, RegWell, AnswerShape, Made, Got
<1>6. ASSUME NEW t \in OpSlots, Made(t)'
      PROVE  /\ (1 <= regOps[t].ans.id /\ regOps[t].ans.id < store.next /\ Unseen(regOps[t].ans.id))'
             /\ (regOps[t].ans.id \in DOMAIN store.rows /\ store.rows[regOps[t].ans.id] = regOps[t].ans.row)'
  <2>1. CASE t = s
    <3> DEFINE n == regOps'[t].ans.id
    <3>1. n = store.next
      BY <1>6, <2>1
    <3>2. \A u \in OpSlots : regOps'[u].id # n
      BY <3>1, <1>1, <1>2, <1>4, <1>6
    <3>3. n \notin DOMAIN table'.rows /\ n \notin regHist'.deleted /\ n # form'.id /\ n # target'
      BY <3>1, <1>1, <1>4, <1>6 DEF Limit
    <3>4. Unseen(regOps[t].ans.id)'
      BY <3>2, <3>3 DEF Unseen
    <3> QED
      BY <1>1, <1>6, <2>1, <3>1, <3>4
  <2>2. CASE t # s
    <3>1. Unseen(regOps[t].ans.id)'
      BY <1>1, <1>2, <1>3, <1>5, <1>6, <2>2 DEF Unseen
    <3>2. regOps[t].ans.id # regOps[s].id
      BY <1>5, <1>6, <2>2 DEF Unseen
    <3> QED
      BY <1>1, <1>3, <1>5, <1>6, <2>2, <3>1, <3>2
  <2> QED
    BY <2>1, <2>2
<1>7. \A t, u \in OpSlots : (t # u /\ Made(t)' /\ Made(u)') => regOps'[t].ans.id # regOps'[u].ans.id
  <2> SUFFICES ASSUME NEW t \in OpSlots, NEW u \in OpSlots, t # u, Made(t)', Made(u)'
               PROVE  regOps'[t].ans.id # regOps'[u].ans.id
    OBVIOUS
  <2>1. CASE t = s
    BY <1>1, <1>3, <1>5, <2>1
  <2>2. CASE u = s
    BY <1>1, <1>3, <1>5, <2>2
  <2>3. CASE t # s /\ u # s
    BY <1>3, <1>5, <2>3 DEF RegInv, IdInv
  <2> QED
    BY <2>1, <2>2, <2>3
<1>8. ASSUME NEW t \in OpSlots, Got(t, "delete", 1)'
      PROVE  regOps'[t].id \notin DOMAIN (IF tab' = "deployments" THEN store'.jobs ELSE store'.rows)
  <2>1. CASE t = s
    BY <1>1, <1>2, <1>8, <2>1
  <2>2. CASE t # s
    <3>1. Got(t, "delete", 1) /\ regOps'[t] = regOps[t] /\ regOps[t].id < Limit
      BY <1>2, <1>3, <1>8, <2>2 DEF Got
    <3>2. regOps[t].id \notin DOMAIN (IF tab = "deployments" THEN store.jobs ELSE store.rows)
      BY <3>1 DEF RegInv, IdInv
    <3> QED
      BY <1>1, <3>1, <3>2 DEF Limit
  <2> QED
    BY <2>1, <2>2
<1>9. tab' # "deployments" => \A r \in regHist'.deleted : r \notin DOMAIN table'.rows
  BY <1>1 DEF RegInv, IdInv
<1>10. tab' = "deployments" => \A j \in regHist'.deleted : j \notin DOMAIN store'.jobs
  BY <1>1 DEF RegInv, IdInv, Limit
<1> QED
  BY <1>6, <1>7, <1>8, <1>9, <1>10 DEF IdInv

\* Serving a request: validations are of the version the store has.
LEMMA ServedChecked ==
    ASSUME RegInv, NEW s \in OpSlots, Served(s),
           \A n \in DOMAIN store'.rows : n < store.next =>
               (n \in DOMAIN store.rows /\ (store'.rows[n].ver = store.rows[n].ver \/ n = regOps[s].id)),
           (Got(s, "deploy", 1)' /\ regOps[s].id \in DOMAIN store'.rows)
               => regOps'[s].ans.row.ver = store'.rows[regOps[s].id].ver,
           (regOps[s].verb = "deploy" /\ regOps[s].step = 2 /\ regOps[s].id \in DOMAIN store'.rows)
               => store'.rows[regOps[s].id].ver = store.rows[regOps[s].id].ver,
           regHist'.unvalidated => regHist.crossed
    PROVE  CheckedInv'
<1> SUFFICES ASSUME ~regHist.crossed, NEW t \in OpSlots, regOps'[t].id \in DOMAIN store'.rows
             PROVE  /\ Got(t, "deploy", 1)' => regOps'[t].ans.row.ver = store'.rows[regOps'[t].id].ver
                    /\ (regOps'[t].verb = "deploy" /\ regOps'[t].step = 2) =>
                          regOps'[t].checked = store'.rows[regOps'[t].id].ver
  BY DEF CheckedInv, Served
<1>1. ASSUME NEW u \in OpSlots, regOps[u].verb = "deploy"
      PROVE  regOps[u].id \in Nat /\ regOps[u].id < store.next /\ regOps[u].id # 0
  <2>1. RegWell(u) /\ Limit \in Nat
    BY DEF RegInv, RegTypes, Limit
  <2> QED
    BY <1>1, <2>1 DEF RegWell, RegShape, RowVerbs, Limit, TabVerbs
<1>2. CASE t = s
  BY <1>1, <1>2 DEF RegInv, CheckedInv, Served, Got
<1>3. CASE t # s /\ regOps[t].verb = "deploy"
  <2>1. regOps'[t] = regOps[t]
    BY <1>3 DEF Served
  <2>2. regOps[t].id # regOps[s].id
    BY <1>1, <1>3 DEF RegInv, ApartInv, Served
  <2>3. store'.rows[regOps[t].id].ver = store.rows[regOps[t].id].ver /\ regOps[t].id \in DOMAIN store.rows
    BY <1>1, <1>3, <2>1, <2>2
  <2> QED
    BY <2>1, <2>3 DEF RegInv, CheckedInv, Got
<1>4. CASE t # s /\ regOps[t].verb # "deploy"
  BY <1>4 DEF Served, Got
<1> QED
  BY <1>2, <1>3, <1>4


\* A request that changed nothing: a refusal, an inspection, or a reading.
LEMMA ServedIdle ==
    ASSUME RegInv, NEW s \in OpSlots, Served(s), store' = store, regHist'.unvalidated = regHist.unvalidated,
           regOps'[s].ans.res = "ok" =>
               \/ /\ regOps[s].verb \in {"validate", "deploy"} /\ regOps[s].step = 1
                  /\ regOps[s].id \in DOMAIN store.rows /\ regOps'[s].ans.row = store.rows[regOps[s].id]
               \/ regOps[s].verb = "reconcile" /\ regOps[s].step = 2 /\ regOps'[s].ans.jobs = store.jobs
               \/ regOps[s].verb = "create" /\ regOps[s].step = 2
    PROVE  RegInv'
<1>1. /\ store \in [rows : {store.rows}, inactive : {store.inactive}, jobs : {store.jobs},
                    next : Nat, nextJob : Nat, teams : {0, 1}]
      /\ RowMap(store.rows, store.next) /\ JobMap(store.jobs, store.nextJob)
  BY DEF RegInv, RegTypes
<1>2. /\ regOps'[s].verb = regOps[s].verb /\ regOps'[s].step = regOps[s].step /\ regOps'[s].id = regOps[s].id
      /\ tab' = tab /\ table' = table
  BY DEF Served
<1>3. /\ ~Got(s, "create", 1)' /\ ~Got(s, "import", 1)' /\ ~Got(s, "update", 1)' /\ ~Got(s, "active", 1)'
      /\ ~Got(s, "delete", 1)' /\ ~Got(s, "deploy", 2)'
      /\ Got(s, "reconcile", 2)' => regOps'[s].ans.jobs = store.jobs
      /\ (Got(s, "validate", 1)' \/ Got(s, "deploy", 1)') =>
            /\ regOps[s].verb \in {"validate", "deploy"}
            /\ regOps[s].id \in DOMAIN store.rows /\ regOps'[s].ans.row = store.rows[regOps[s].id]
  BY <1>2 DEF Got
<1>4. RegTypes'
  BY <1>1, <1>3, ServedTypes
<1>5. IdInv'
  BY <1>1, <1>3, ServedIds DEF Made
<1>6. ApartInv'
  BY ServedApart
<1>7. QueueInv'
  BY <1>3, ServedQueue DEF RegInv, QueueInv
<1>8. CheckedInv'
  BY <1>3, ServedChecked DEF RegInv, CheckedInv
<1>9. RowInv'
  <2>1. ASSUME ~regHist.lost, ~regHist.crossed, Got(s, "validate", 1)' \/ Got(s, "deploy", 1)'
        PROVE  regOps'[s].ans.row.ver = table.rows[regOps[s].id].ver
    BY <2>1, <1>3, Alike DEF Served, RowVerbs
  <2> QED
    BY <1>3, <2>1, ServedRows
<1>10. JobInv'
  BY <1>3, ServedJobs
<1>11. ListInv'
  <2>1. ListInv
    BY DEF RegInv
  <2>2. \A t \in OpSlots : Reconciled(t)' <=> Reconciled(t)
    BY <1>2 DEF Reconciled, Served
  <2>3. \A t \in OpSlots : t # s => regOps'[t] = regOps[t]
    BY DEF Served
  <2>4. \A t \in OpSlots : Got(t, "delete", 1) => (Got(t, "delete", 1)' /\ regOps'[t].id = regOps[t].id)
    BY DEF Served, Got
  <2>5. \A t \in OpSlots : (t # s /\ Got(t, "reconcile", 2)') => Got(t, "reconcile", 2)
    BY <2>3 DEF Got
  <2>6. ListShown => ListShown'
    BY <1>2, <2>4 DEF ListShown
  <2>7. /\ regHist'.deleted = regHist.deleted /\ regHist'.crossed = regHist.crossed
        /\ regHist.lost => regHist'.lost
    BY DEF Served
  <2> QED
    BY <1>2, <1>3, <2>1, <2>2, <2>3, <2>5, <2>6, <2>7 DEF ListInv
<1>12. OctetInv'
  BY <1>3, ServedOctet
<1> QED
  BY <1>4, <1>5, <1>6, <1>7, <1>8, <1>9, <1>10, <1>11, <1>12 DEF RegInv

\* The empty answer, filled in.
LEMMA AnswerEmpty ==
    /\ AnswerShape(NoAnswer) /\ NoAnswer.jobs = <<>> /\ NoAnswer.id = 0
    /\ \A jobs : /\ AnswerShape([NoAnswer EXCEPT !.jobs = jobs])
                 /\ [NoAnswer EXCEPT !.jobs = jobs].jobs = jobs
<1>1. AnswerShape(NoAnswer) /\ NoAnswer.jobs = <<>> /\ NoAnswer.id = 0
  BY DEF AnswerShape, NoAnswer, Rows
<1>2. ASSUME NEW jobs
      PROVE  /\ AnswerShape([NoAnswer EXCEPT !.jobs = jobs])
             /\ [NoAnswer EXCEPT !.jobs = jobs].jobs = jobs
  BY <1>1 DEF AnswerShape
<1> QED
  BY <1>1, <1>2

\* An answer with an id.
LEMMA AnswerId ==
    ASSUME NEW id \in Nat
    PROVE  AnswerShape([NoAnswer EXCEPT !.id = id]) /\ [NoAnswer EXCEPT !.id = id].id = id
BY AnswerEmpty DEF AnswerShape

\* An answer with a row.
LEMMA AnswerRow ==
    ASSUME NEW id \in Nat, NEW row \in Rows
    PROVE  /\ AnswerShape([NoAnswer EXCEPT !.id = id, !.row = row])
           /\ [NoAnswer EXCEPT !.id = id, !.row = row].id = id
           /\ [NoAnswer EXCEPT !.id = id, !.row = row].row = row
<1> DEFINE a == [NoAnswer EXCEPT !.id = id]
           b == [a EXCEPT !.row = row]
<1>1. AnswerShape(a) /\ a.id = id
  BY AnswerId
<1>2. AnswerShape(b) /\ b.id = id /\ b.row = row
  <2> HIDE DEF a
  <2> QED
    BY <1>1 DEF AnswerShape
<1> QED
  BY <1>2

\* The flag that is told of an updated row: never active when the row is not.
LEMMA UpdateTold ==
    ASSUME NEW id, NEW told \in InactiveTold("update", id \in store.inactive)
    PROVE  /\ told \in BOOLEAN /\ AnswerFits(told, id, "update")
<1> DEFINE flag == (id \in store.inactive)
<1>1. told \in InactiveTold("update", flag) /\ flag \in BOOLEAN /\ (flag <=> id \in store.inactive)
  OBVIOUS
<1> HIDE DEF flag
<1>2. told \in {TRUE, flag} /\ (~FlagUntold("update") => told = flag)
  BY <1>1 DEF InactiveTold
<1>3. told \in BOOLEAN
  BY <1>1, <1>2
<1>4. flag => told
  BY <1>2, Zenon
<1>5. told => (flag \/ FlagUntold("update"))
  BY <1>2, Zenon
<1> QED
  BY <1>1, <1>3, <1>4, <1>5, Zenon DEF AnswerFits

\* The flag that is told of a new row.
LEMMA CreateTold ==
    ASSUME NEW told \in InactiveTold("create", FALSE)
    PROVE  told \in BOOLEAN /\ (~FlagUntold("create") => ~told)
BY DEF InactiveTold

\* An answer with a row and its flag.
FlagAnswer(id, row, inactive) == [NoAnswer EXCEPT !.id = id, !.row = row, !.inactive = inactive]
LEMMA AnswerFlag ==
    ASSUME NEW id \in Nat, NEW row \in Rows, NEW inactive \in BOOLEAN
    PROVE  /\ AnswerShape(FlagAnswer(id, row, inactive))
           /\ FlagAnswer(id, row, inactive).id = id
           /\ FlagAnswer(id, row, inactive).row = row
<1> DEFINE b == [NoAnswer EXCEPT !.id = id, !.row = row]
           c == [b EXCEPT !.inactive = inactive]
<1>1. AnswerShape(b) /\ b.id = id /\ b.row = row
  BY AnswerRow
<1>2. AnswerShape(c) /\ c.id = id /\ c.row = row
  <2> HIDE DEF b
  <2> QED
    BY <1>1 DEF AnswerShape
<1>3. FlagAnswer(id, row, inactive) = c
  BY DEF FlagAnswer
<1> HIDE DEF c
<1> QED
  BY <1>2, <1>3

\* The flag of that answer.
LEMMA AnswerTold ==
    ASSUME NEW id, NEW row, NEW inactive
    PROVE  [NoAnswer EXCEPT !.id = id, !.row = row, !.inactive = inactive].inactive = inactive
BY Zenon DEF NoAnswer

\* An answer with a verdict.
LEMMA AnswerVerdict ==
    ASSUME NEW id \in Nat, NEW row \in Rows, NEW ok \in BOOLEAN
    PROVE  /\ AnswerShape([NoAnswer EXCEPT !.id = id, !.row = row, !.valid = ok])
           /\ [NoAnswer EXCEPT !.id = id, !.row = row, !.valid = ok].id = id
           /\ [NoAnswer EXCEPT !.id = id, !.row = row, !.valid = ok].row = row
<1> DEFINE b == [NoAnswer EXCEPT !.id = id, !.row = row]
           c == [b EXCEPT !.valid = ok]
<1>1. AnswerShape(b) /\ b.id = id /\ b.row = row
  BY AnswerRow
<1>2. AnswerShape(c) /\ c.id = id /\ c.row = row
  <2> HIDE DEF b
  <2> QED
    BY <1>1 DEF AnswerShape
<1> QED
  BY <1>2

\* The requests that leave the store as it is.
LEMMA Inspected ==
    ASSUME RegInv, NEW s \in OpSlots, StoreValidate(s) \/ StoreList(s) \/ StoreScoreboard(s) \/ StoreRefuses(s)
    PROVE  RegInv' /\ Quiet(s)
<1>1. RowMap(store.rows, store.next) /\ HistShape(regHist) /\ RegTypes
  BY DEF RegInv, RegTypes
<1>2. CASE StoreValidate(s)
  <2>1. /\ regOps[s].verb # "none" /\ regOps[s].ans.res = "none" /\ RequestOf(s) = "validate"
        /\ regOps[s].id \in DOMAIN store.rows
    BY <1>2 DEF StoreValidate, Asks
  <2>2. regOps[s].verb \in {"validate", "deploy"} /\ regOps[s].step = 1
    BY <1>1, <2>1, Asked
  <2> DEFINE id == regOps[s].id
             row == store.rows[id]
  <2>3. id \in Nat /\ row \in Rows
    BY <1>1, <2>1 DEF RowMap
  <2>4. PICK ok \in BOOLEAN : Reply(s, store, [NoAnswer EXCEPT !.id = id, !.row = row, !.valid = ok])
    BY <1>2 DEF StoreValidate
  <2> DEFINE ans == [NoAnswer EXCEPT !.id = id, !.row = row, !.valid = ok]
  <2>5. AnswerShape(ans) /\ ans.id = id /\ ans.row = row /\ Reply(s, store, ans)
    <3> HIDE DEF id, row
    <3> QED
      BY <2>3, <2>4, AnswerVerdict
  <2>6. Served(s) /\ store' = store /\ regOps'[s].ans.row = row /\ regHist'.unvalidated = regHist.unvalidated
    <3> HIDE DEF ans
    <3> QED
      BY <2>1, <2>5, ReplyServes
  <2>7. Quiet(s)
    BY <2>2, <2>6 DEF Quiet, Served, Got
  <2> QED
    BY <2>1, <2>2, <2>6, <2>7, ServedIdle
<1>3. CASE StoreList(s)
  <2>1. /\ regOps[s].verb # "none" /\ regOps[s].ans.res = "none" /\ RequestOf(s) = "list"
    BY <1>3 DEF StoreList, Asks
  <2>2. regOps[s].verb = "reconcile" /\ regOps[s].step = 2
    BY <1>1, <2>1, Asked
  <2> DEFINE ans == [NoAnswer EXCEPT !.jobs = store.jobs]
  <2>3. AnswerShape(ans) /\ ans.jobs = store.jobs /\ Reply(s, store, ans)
    BY <1>3, AnswerEmpty DEF StoreList
  <2>4. Served(s) /\ store' = store /\ regOps'[s].ans.jobs = store.jobs /\ regHist'.unvalidated = regHist.unvalidated
    <3> HIDE DEF ans
    <3> QED
      BY <2>1, <2>3, ReplyServes
  <2>5. Quiet(s)
    BY <2>2, <2>4 DEF Quiet, Served, Got
  <2> QED
    BY <2>2, <2>4, <2>5, ServedIdle
<1>4. CASE StoreScoreboard(s)
  <2>1. /\ regOps[s].verb # "none" /\ regOps[s].ans.res = "none" /\ RequestOf(s) = "scoreboard"
        /\ Reply(s, store, NoAnswer)
    BY <1>4 DEF StoreScoreboard, Asks
  <2>2. regOps[s].verb = "create" /\ regOps[s].step = 2
    BY <1>1, <2>1, Asked
  <2>3. Served(s) /\ store' = store /\ regHist'.unvalidated = regHist.unvalidated
    BY <2>1, AnswerEmpty, ReplyServes
  <2>4. Quiet(s)
    BY <2>2, <2>3 DEF Quiet, Served, Got
  <2> QED
    BY <2>2, <2>3, <2>4, ServedIdle
<1>5. CASE StoreRefuses(s)
  <2>1. /\ regOps[s].verb # "none" /\ regOps[s].ans.res = "none"
        /\ regOps' = [regOps EXCEPT ![s].ans = [NoAnswer EXCEPT !.res = "failed"]]
        /\ regHist' = [regHist EXCEPT !.lost = regHist.lost \/ RequestOf(s) = "list"]
        /\ UNCHANGED <<tab, store, table, form, target, regPending, regLeft>>
    BY <1>5 DEF StoreRefuses
  <2> DEFINE a == [NoAnswer EXCEPT !.res = "failed"]
             gone == regHist.lost \/ RequestOf(s) = "list"
  <2>2. AnswerShape(a) /\ a.res = "failed"
    BY AnswerEmpty DEF AnswerShape
  <2>3. gone \in BOOLEAN /\ regHist' = [regHist EXCEPT !.lost = gone] /\ (regHist.lost => gone)
    BY <1>1, <2>1 DEF HistShape
  <2>4. regOps' = [regOps EXCEPT ![s].ans = a]
    BY <2>1
  <2> HIDE DEF a, gone
  <2>5. /\ HistShape(regHist') /\ regHist'.lost = gone
        /\ regHist'.crossed = regHist.crossed /\ regHist'.gap = regHist.gap /\ regHist'.deleted = regHist.deleted
        /\ regHist'.surprised = regHist.surprised /\ regHist'.preview = regHist.preview
        /\ regHist'.unvalidated = regHist.unvalidated /\ regHist'.untold = regHist.untold
    BY <1>1, <2>3 DEF HistShape
  <2>6. Served(s) /\ regOps'[s].ans = a
    BY <2>1, <2>2, <2>3, <2>4, <2>5, Serving
  <2>7. Quiet(s)
    BY <2>1, <2>2, <2>6 DEF Quiet, Got
  <2> QED
    BY <2>1, <2>2, <2>5, <2>6, <2>7, ServedIdle
<1> QED
  BY <1>2, <1>3, <1>4, <1>5


\* A row is created.
LEMMA Created ==
    ASSUME RegInv, NEW s \in OpSlots, StoreCreate(s)
    PROVE  /\ RegInv' /\ Served(s) /\ store'.inactive = store.inactive /\ store'.next = store.next + 1
           /\ DOMAIN store'.rows = DOMAIN store.rows \union {store.next}
           /\ regOps[s].verb \in {"create", "import"} /\ regOps'[s].ans.id = store.next
           /\ regOps'[s].ans.inactive => FlagUntold("create")
<1>1. /\ regOps[s].verb # "none" /\ regOps[s].ans.res = "none" /\ RequestOf(s) = "create"
  BY DEF StoreCreate, Asks
<1>2. /\ RegTypes /\ RegWell(s)
      /\ store \in [rows : {store.rows}, inactive : {store.inactive}, jobs : {store.jobs},
                    next : Nat, nextJob : Nat, teams : {0, 1}]
      /\ RowMap(store.rows, store.next) /\ JobMap(store.jobs, store.nextJob)
  BY DEF RegInv, RegTypes
<1>3. regOps[s].verb \in {"create", "import"} /\ regOps[s].step = 1
  BY <1>1, <1>2, Asked
<1>4. tab # "deployments" /\ regOps[s].arg \in Nat /\ regOps[s].id = 0 /\ (tab = "challenges" => regOps[s].verb = "create")
  BY <1>2, <1>3 DEF RegWell, TabVerbs
<1> DEFINE octet == EffectiveStoreOctet(s)
           row == [ver |-> 1, published |-> FALSE, octet |-> octet]
           held == Put(store.rows, store.next, row)
           n1 == [store EXCEPT !.rows = held]
           new == [n1 EXCEPT !.next = store.next + 1]
<1>5. PICK inactive \in InactiveTold("create", FALSE) :
        Reply(s, new, [NoAnswer EXCEPT !.id = store.next, !.row = row, !.inactive = inactive])
  BY DEF StoreCreate
<1> DEFINE ans == [NoAnswer EXCEPT !.id = store.next, !.row = row, !.inactive = inactive]
<1>6. octet \in Nat /\ (regOps[s].arg = 0 => octet = store.next) /\ inactive \in BOOLEAN
  BY <1>2, <1>4 DEF EffectiveStoreOctet, InactiveTold
<1>7. row \in Rows /\ row.octet = octet
  BY <1>6 DEF Rows
<1> HIDE DEF octet, row
<1>8. /\ DOMAIN held = DOMAIN store.rows \union {store.next} /\ held[store.next] = row
      /\ \A x \in DOMAIN store.rows : x # store.next => held[x] = store.rows[x]
      /\ RowMap(held, store.next + 1)
  <2>1. \A x \in DOMAIN store.rows : x \in Nat /\ 1 <= x /\ x < store.next
    BY <1>2 DEF RowMap
  <2>2. /\ DOMAIN held = DOMAIN store.rows \union {store.next} /\ held[store.next] = row
        /\ \A x \in DOMAIN store.rows : x # store.next => held[x] = store.rows[x]
        /\ held \in [DOMAIN held -> Rows]
    BY <1>2, <1>7 DEF RowMap, Put
  <2>3. store.next \in Nat /\ store.next >= 2
    BY <1>2 DEF RegTypes
  <2> HIDE DEF held
  <2> QED
    BY <2>1, <2>2, <2>3 DEF RowMap
<1> HIDE DEF held
<1>9. /\ n1.rows = held /\ n1.jobs = store.jobs /\ n1.next = store.next /\ n1.inactive = store.inactive
      /\ n1 \in [rows : {held}, inactive : {n1.inactive}, jobs : {store.jobs},
                 next : Nat, nextJob : {store.nextJob}, teams : {0, 1}]
  BY <1>2
<1> HIDE DEF n1
<1>10. /\ new.rows = held /\ new.jobs = store.jobs /\ new.next = store.next + 1 /\ new.nextJob = store.nextJob
       /\ new.inactive = store.inactive
       /\ new \in [rows : {held}, inactive : {new.inactive}, jobs : {store.jobs},
                   next : Nat, nextJob : {store.nextJob}, teams : {0, 1}]
  BY <1>2, <1>9
<1>11. AnswerShape(ans) /\ ans.id = store.next /\ ans.row = row /\ Reply(s, new, ans)
  <2>1. AnswerShape(ans) /\ ans.id = store.next /\ ans.row = row
    <3>1. store.next \in Nat /\ row \in Rows /\ inactive \in BOOLEAN
      BY <1>2, <1>6, <1>7
    <3>2. ans = FlagAnswer(store.next, row, inactive)
      BY DEF FlagAnswer
    <3> HIDE DEF ans
    <3> QED
      BY <3>1, <3>2, AnswerFlag
  <2>2. Reply(s, new, ans)
    BY <1>5 DEF n1, held
  <2> QED
    BY <2>1, <2>2
<1>11a. ans.inactive = inactive
  BY AnswerTold
<1> HIDE DEF new, ans
<1>12. /\ Served(s) /\ store' = new /\ regHist'.unvalidated = regHist.unvalidated
       /\ regOps'[s].ans.id = store.next /\ regOps'[s].ans.row = row
       /\ regOps'[s].ans.res = "ok" \/ regHist'.lost \/ store' = store
  BY <1>1, <1>11, ReplyServes
<1>12a. regOps'[s].ans.inactive => FlagUntold("create")
  <2>1. regOps'[s].ans.inactive = ans.inactive
    BY <1>1, <1>11, ReplyServes
  <2>2. inactive => FlagUntold("create")
    BY CreateTold
  <2> QED
    BY <1>11a, <2>1, <2>2, Zenon
<1>13. store' # store
  BY <1>2, <1>10, <1>12
<1>14. /\ store'.rows = held /\ store'.jobs = store.jobs /\ store'.next = store.next + 1
       /\ store'.nextJob = store.nextJob /\ store'.inactive = store.inactive
       /\ store' \in [rows : {store'.rows}, inactive : {store'.inactive}, jobs : {store'.jobs},
                      next : Nat, nextJob : Nat, teams : {0, 1}]
  BY <1>2, <1>10, <1>12
<1>15. \A v, k : Got(s, v, k)' => (v = regOps[s].verb /\ k = 1)
  BY <1>3, <1>12 DEF Got, Served
<1>16. \A x \in DOMAIN store.rows : x \in Nat /\ 1 <= x /\ x < store.next
  BY <1>2 DEF RowMap
<1>17. /\ store.next \in Nat /\ store.next < store'.next
       /\ \A n \in DOMAIN store'.rows : n < store.next =>
            n \in DOMAIN store.rows /\ store'.rows[n] = store.rows[n]
       /\ \A n \in DOMAIN store.rows : n \in DOMAIN store'.rows
  BY <1>2, <1>8, <1>14, <1>16
<1>18. RegTypes'
  BY <1>2, <1>3, <1>8, <1>12, <1>14, <1>15, ServedTypes
<1>19. IdInv'
  <2>1. ~Got(s, "delete", 1)'
    BY <1>3, <1>15
  <2>2. store.next \in DOMAIN store'.rows /\ store'.rows[store.next] = regOps'[s].ans.row
    BY <1>8, <1>12, <1>14
  <2> QED
    BY <1>2, <1>12, <1>14, <1>17, <2>1, <2>2, ServedIds
<1>20. ApartInv'
  BY <1>12, ServedApart
<1>21. QueueInv'
  BY <1>3, <1>12, <1>14, <1>15, ServedQueue DEF RegInv, QueueInv
<1>22. CheckedInv'
  BY <1>3, <1>12, <1>15, <1>17, ServedChecked DEF RegInv, CheckedInv
<1>23. RowInv'
  <2> SUFFICES ASSUME ~regHist'.lost, ~regHist'.crossed PROVE RowInv'
    BY DEF RowInv
  <2>1. ~regHist.lost /\ ~regHist.crossed /\ Made(s)'
    BY <1>3, <1>12, <1>13 DEF Served, Made, Got
  <2>2. RowsComing /\ RowsGoing /\ RowsAnswered /\ RowsPublished /\ VersionsAnswered /\ ChecksFit
    BY <2>1 DEF RegInv, RowInv
  <2>3. \A t \in OpSlots : regOps[t].ans.res = "ok" => (t # s /\ regOps'[t] = regOps[t])
    BY <1>12 DEF Served
  <2>4. \A t \in OpSlots : t # s => regOps'[t] = regOps[t]
    BY <1>12 DEF Served
  <2>5. table' = table /\ tab' = tab
    BY <1>12 DEF Served
  <2>6. \A r \in DOMAIN store.rows : RowAgrees(r) => RowAgrees(r)'
    BY <1>8, <1>14, <1>16, <2>3, <2>5 DEF RowAgrees, Got
  <2>7. RowsComing'
    BY <1>8, <1>12, <1>14, <2>1, <2>2, <2>3, <2>5, <2>6 DEF RowsComing, Made, Got
  <2>8. RowsGoing'
    BY <1>8, <1>14, <2>2, <2>3, <2>5 DEF RowsGoing, Got
  <2>9. RowsAnswered'
    <3> SUFFICES ASSUME NEW t \in OpSlots, (Got(t, "update", 1) \/ Got(t, "active", 1))',
                        regOps'[t].id \in DOMAIN store'.rows
                 PROVE  store'.rows[regOps'[t].id] = regOps'[t].ans.row
      BY DEF RowsAnswered
    <3>1. t # s
      BY <1>3, <1>15
    <3>2. /\ regOps'[t] = regOps[t] /\ (Got(t, "update", 1) \/ Got(t, "active", 1))
      BY <2>4, <3>1 DEF Got
    <3>3. regOps[t].id \in Nat /\ regOps[t].id < store.next
      <4>1. RegWell(t)
        BY DEF RegInv, RegTypes
      <4> QED
        BY <1>4, <3>2, <4>1 DEF RegWell, RegShape, Got, RowVerbs, Limit
    <3> QED
      BY <1>17, <2>2, <3>2, <3>3 DEF RowsAnswered
  <2>10. VersionsAnswered'
    <3> SUFFICES ASSUME NEW t \in OpSlots, (Got(t, "active", 1) \/ Got(t, "validate", 1) \/ Got(t, "deploy", 1))',
                        regOps'[t].id \in DOMAIN table'.rows
                 PROVE  regOps'[t].ans.row.ver = table'.rows[regOps'[t].id].ver
      BY DEF VersionsAnswered
    <3>1. t # s
      BY <1>3, <1>15
    <3> QED
      BY <2>2, <2>4, <2>5, <3>1 DEF VersionsAnswered, Got
  <2>11. ChecksFit'
    BY <2>2, <2>5 DEF ChecksFit
  <2>12. RowsPublished'
    <3> SUFFICES ASSUME NEW t \in OpSlots, Got(t, "deploy", 2)', regOps'[t].id \in DOMAIN store'.rows,
                        regOps'[t].id \in DOMAIN table'.rows
                 PROVE  store'.rows[regOps'[t].id] = InPublic(table'.rows[regOps'[t].id])
      BY DEF RowsPublished
    <3>1. t # s
      BY <1>3, <1>15
    <3>2. regOps'[t] = regOps[t] /\ Got(t, "deploy", 2)
      BY <2>4, <3>1 DEF Got
    <3>3. regOps[t].id < store.next
      BY <2>5, <3>2 DEF RegInv, RegTypes, RowMap
    <3> QED
      BY <1>17, <2>2, <2>5, <3>2, <3>3 DEF RowsPublished
  <2> QED
    BY <2>7, <2>8, <2>9, <2>10, <2>11, <2>12 DEF RowInv
<1>24. JobInv'
  BY <1>3, <1>12, <1>14, <1>15, ServedJobs
<1>25. ListInv'
  BY <1>4, <1>12 DEF ListInv, Served
<1>26. OctetInv'
  <2>1. /\ UNCHANGED <<tab, table>> /\ (regHist.lost => regHist'.lost) /\ regHist'.preview = regHist.preview
        /\ regHist'.crossed = regHist.crossed /\ (regHist.gap => regHist'.gap)
        /\ regHist'.surprised = regHist.surprised
    BY <1>12 DEF Served
  <2>2. regHist'.surprised => (regHist'.gap \/ regHist'.crossed \/ regHist'.lost)
    BY <2>1 DEF RegInv, OctetInv
  <2> SUFFICES ASSUME tab = "challenges", ~regHist'.gap, ~regHist'.crossed, ~regHist'.lost PROVE OctetInv'
    BY <2>1, <2>2 DEF OctetInv
  <2>3. /\ regOps[s].verb = "create" /\ regOps'[s].ans.res = "ok"
    BY <1>4, <1>12, <1>13
  <2>4. Got(s, "create", 1)' /\ regOps'[s].ans.id = store'.next - 1
    BY <1>2, <1>3, <1>12, <1>14, <2>3 DEF Got, Served
  <2>5. \A t \in OpSlots : t # s => regOps'[t].verb # "create"
    BY <2>1, <2>3, <1>12 DEF RegInv, ApartInv, Served
  <2>6. regOps'[s].arg = 0 => regOps'[s].ans.row.octet = regHist'.preview
    <3>1. regOps'[s].arg = regOps[s].arg
      BY <1>12 DEF Served
    <3>2. regOps[s].arg = 0 => regHist.preview = store.next
      BY <1>1, <1>3, <2>1, <2>3 DEF RegInv, OctetInv
    <3> QED
      BY <1>6, <1>7, <1>12, <2>1, <3>1, <3>2
  <2> QED
    BY <2>1, <2>2, <2>3, <2>4, <2>5, <2>6 DEF OctetInv
<1> QED
  BY <1>3, <1>8, <1>12, <1>12a, <1>14, <1>18, <1>19, <1>20, <1>21, <1>22, <1>23, <1>24, <1>25, <1>26 DEF RegInv


\* A creation is refused for its octet: nothing but the next id changes.
LEMMA CreationRefused ==
    ASSUME RegInv, NEW s \in OpSlots, StoreCreateTaken(s)
    PROVE  /\ RegInv' /\ Served(s) /\ regOps'[s].ans.res # "ok" /\ store'.inactive = store.inactive
           /\ store'.rows = store.rows /\ store'.next = store.next + 1
<1>1. /\ regOps[s].verb # "none" /\ regOps[s].ans.res = "none" /\ tab # "deployments"
      /\ regOps' = [regOps EXCEPT ![s].ans = [NoAnswer EXCEPT !.res = "failed"]]
      /\ store' = [store EXCEPT !.next = store.next + 1] /\ regHist' = [regHist EXCEPT !.gap = TRUE]
      /\ UNCHANGED <<tab, table, form, target, regPending, regLeft>>
  BY DEF StoreCreateTaken, Asks, OctetTaken
<1>2. /\ RegTypes /\ HistShape(regHist) /\ store.next \in Nat /\ store.nextJob \in Nat
      /\ store \in [rows : {store.rows}, inactive : {store.inactive}, jobs : {store.jobs},
                    next : Nat, nextJob : Nat, teams : {0, 1}]
      /\ RowMap(store.rows, store.next) /\ JobMap(store.jobs, store.nextJob)
  BY DEF RegInv, RegTypes
<1> DEFINE a == [NoAnswer EXCEPT !.res = "failed"]
<1>3. AnswerShape(a) /\ a.res = "failed"
  BY AnswerEmpty DEF AnswerShape
<1>4. /\ HistShape(regHist') /\ regHist'.lost = regHist.lost /\ regHist'.gap /\ regHist'.untold = regHist.untold
      /\ regHist'.crossed = regHist.crossed /\ regHist'.deleted = regHist.deleted
      /\ regHist'.surprised = regHist.surprised /\ regHist'.preview = regHist.preview
      /\ regHist'.unvalidated = regHist.unvalidated
  BY <1>1, <1>2 DEF HistShape
<1>5. regOps' = [regOps EXCEPT ![s].ans = a]
  BY <1>1
<1> HIDE DEF a
<1>6. Served(s) /\ regOps'[s].ans.res = "failed"
  BY <1>1, <1>3, <1>4, <1>5, Serving
<1>7. /\ store'.rows = store.rows /\ store'.jobs = store.jobs /\ store'.next = store.next + 1
      /\ store'.nextJob = store.nextJob /\ store'.inactive = store.inactive
      /\ store' \in [rows : {store'.rows}, inactive : {store'.inactive}, jobs : {store'.jobs},
                     next : Nat, nextJob : Nat, teams : {0, 1}]
  BY <1>1, <1>2
<1>8. \A v, k : ~Got(s, v, k)'
  BY <1>6 DEF Got
<1>9. RegTypes'
  <2>1. RowMap(store'.rows, store'.next)
    BY <1>2, <1>7, MapsGrow
  <2> QED
    BY <1>2, <1>6, <1>7, <1>8, <2>1, ServedTypes
<1>10. IdInv'
  BY <1>2, <1>6, <1>7, <1>8, ServedIds DEF Made
<1>11. QueueInv'
  BY <1>6, <1>7, <1>8, ServedQueue DEF RegInv, QueueInv
<1>12. CheckedInv'
  BY <1>4, <1>6, <1>7, <1>8, ServedChecked DEF RegInv, CheckedInv
<1>13. RowInv'
  BY <1>6, <1>7, <1>8, ServedRows
<1>14. JobInv'
  BY <1>6, <1>7, <1>8, ServedJobs
<1>15. ListInv'
  BY <1>1 DEF ListInv
<1>16. OctetInv'
  BY <1>4 DEF OctetInv
<1> QED
  BY <1>6, <1>7, <1>9, <1>10, <1>11, <1>12, <1>13, <1>14, <1>15, <1>16, ServedApart DEF RegInv


\* An update changes no flag, a (de)activation the row's to the one it answers.
FlagChanged(s, inactive, told) ==
    \/ /\ regOps[s].verb = "update" /\ inactive = store.inactive
       /\ AnswerFits(told, regOps[s].id, "update")
    \/ /\ regOps[s].verb = "active"
       /\ inactive = Marked(store.inactive, regOps[s].id, told)

\* A row's content or its active state is changed.
LEMMA Changed ==
    ASSUME RegInv, NEW s \in OpSlots, StoreUpdate(s) \/ StoreSetActive(s)
    PROVE  /\ RegInv' /\ Served(s) /\ store'.next = store.next /\ DOMAIN store'.rows = DOMAIN store.rows
           /\ FlagChanged(s, store'.inactive, regOps'[s].ans.inactive)
           /\ regOps[s].id < store.next
           /\ regOps'[s].ans.res = "ok" \/ regHist'.lost \/ store' = store
<1>1. /\ RegTypes /\ RegWell(s)
      /\ store \in [rows : {store.rows}, inactive : {store.inactive}, jobs : {store.jobs},
                    next : Nat, nextJob : Nat, teams : {0, 1}]
      /\ RowMap(store.rows, store.next) /\ JobMap(store.jobs, store.nextJob)
  BY DEF RegInv, RegTypes
<1>2. /\ regOps[s].verb # "none" /\ regOps[s].ans.res = "none" /\ RequestOf(s) \in {"update", "active"}
      /\ regOps[s].id \in DOMAIN store.rows
  BY DEF StoreUpdate, StoreSetActive, Asks
<1>3. regOps[s].verb = RequestOf(s) /\ regOps[s].step = 1
  BY <1>1, <1>2, Asked
<1> DEFINE id == regOps[s].id
           old == store.rows[id]
<1>4. id \in Nat /\ 1 <= id /\ id < store.next /\ old \in Rows
  BY <1>1, <1>2 DEF RowMap
<1>5. tab # "deployments" /\ regOps[s].verb \in RowVerbs /\ regOps[s].verb \in {"update", "active"}
  BY <1>1, <1>2, <1>3 DEF RegWell, TabVerbs, RowVerbs
<1>6. \E row \in Rows, inactive \in BOOLEAN : \E new :
        /\ regOps[s].verb = "active" => row.ver = old.ver
        /\ new.rows = [store.rows EXCEPT ![id] = row] /\ new.jobs = store.jobs /\ new.next = store.next
        /\ new.nextJob = store.nextJob /\ new \in [rows : {new.rows}, inactive : {new.inactive}, jobs : {new.jobs},
                                                   next : Nat, nextJob : Nat, teams : {0, 1}]
        /\ FlagChanged(s, new.inactive, inactive)
        /\ Reply(s, new, [NoAnswer EXCEPT !.id = id, !.row = row, !.inactive = inactive])
  <2>1. CASE StoreUpdate(s)
    <3> DEFINE row == [old EXCEPT !.ver = old.ver + 1]
               held == [store.rows EXCEPT ![id] = row]
               new == [store EXCEPT !.rows = held]
    <3>1. PICK inactive \in InactiveTold("update", id \in store.inactive) :
            Reply(s, new, [NoAnswer EXCEPT !.id = id, !.row = row, !.inactive = inactive])
      BY <2>1 DEF StoreUpdate
    <3>2. row \in Rows /\ inactive \in BOOLEAN
      <4>1. inactive \in BOOLEAN
        BY UpdateTold
      <4> HIDE DEF old
      <4> QED
        BY <1>4, <4>1 DEF Rows
    <3>3. regOps[s].verb = "update"
      BY <2>1, <1>3 DEF StoreUpdate, Asks
    <3> HIDE DEF held
    <3>4. /\ new.rows = held /\ new.jobs = store.jobs /\ new.next = store.next
          /\ new.nextJob = store.nextJob /\ new \in [rows : {new.rows}, inactive : {new.inactive}, jobs : {new.jobs},
                                                     next : Nat, nextJob : Nat, teams : {0, 1}]
      BY <1>1
    <3>5. held = [store.rows EXCEPT ![id] = row]
      BY DEF held
    <3>6. FlagChanged(s, new.inactive, inactive)
      <4>1. new.inactive = store.inactive
        BY <1>1
      <4>2. AnswerFits(inactive, id, "update")
        BY UpdateTold
      <4> QED
        BY <3>3, <4>1, <4>2, Zenon DEF FlagChanged
    <3> HIDE DEF row, new
    <3> QED
      BY <3>1, <3>2, <3>3, <3>4, <3>5, <3>6
  <2>2. CASE StoreSetActive(s)
    <3> DEFINE flags == Marked(store.inactive, id, ~regOps[s].arg)
               new == [store EXCEPT !.inactive = flags]
               inactive == ~regOps[s].arg
    <3>1. Reply(s, new, [NoAnswer EXCEPT !.id = id, !.row = old, !.inactive = inactive])
      BY <2>2 DEF StoreSetActive
    <3>2. inactive \in BOOLEAN
      OBVIOUS
    <3>2a. flags = Marked(store.inactive, id, inactive) /\ regOps[s].verb = "active"
      BY <2>2, <1>3 DEF StoreSetActive, Asks
    <3> HIDE DEF inactive, flags
    <3>3. /\ new.rows = store.rows /\ new.jobs = store.jobs /\ new.next = store.next
          /\ new.nextJob = store.nextJob /\ new \in [rows : {new.rows}, inactive : {new.inactive}, jobs : {new.jobs},
                                                     next : Nat, nextJob : Nat, teams : {0, 1}]
      BY <1>1
    <3>4. store.rows = [store.rows EXCEPT ![id] = old]
      BY <1>1 DEF RowMap
    <3>5. FlagChanged(s, new.inactive, inactive)
      <4>1. new.inactive = flags
        BY <1>1
      <4> QED
        BY <3>2a, <4>1, Zenon DEF FlagChanged
    <3> HIDE DEF new, old
    <3> QED
      BY <1>4, <3>1, <3>2, <3>3, <3>4, <3>5
  <2> QED
    BY <2>1, <2>2 DEF StoreUpdate, StoreSetActive
<1>7. PICK row \in Rows, inactive \in BOOLEAN : \E new :
        /\ regOps[s].verb = "active" => row.ver = old.ver
        /\ new.rows = [store.rows EXCEPT ![id] = row] /\ new.jobs = store.jobs /\ new.next = store.next
        /\ new.nextJob = store.nextJob /\ new \in [rows : {new.rows}, inactive : {new.inactive}, jobs : {new.jobs},
                                                   next : Nat, nextJob : Nat, teams : {0, 1}]
        /\ FlagChanged(s, new.inactive, inactive)
        /\ Reply(s, new, [NoAnswer EXCEPT !.id = id, !.row = row, !.inactive = inactive])
  BY <1>6
<1>7a. PICK new :
         /\ new.rows = [store.rows EXCEPT ![id] = row] /\ new.jobs = store.jobs /\ new.next = store.next
         /\ new.nextJob = store.nextJob /\ new \in [rows : {new.rows}, inactive : {new.inactive}, jobs : {new.jobs},
                                                    next : Nat, nextJob : Nat, teams : {0, 1}]
         /\ FlagChanged(s, new.inactive, inactive)
         /\ Reply(s, new, [NoAnswer EXCEPT !.id = id, !.row = row, !.inactive = inactive])
  BY <1>7
<1> DEFINE held == [store.rows EXCEPT ![id] = row]
           ans == [NoAnswer EXCEPT !.id = id, !.row = row, !.inactive = inactive]
<1>8. Reply(s, new, ans)
  BY <1>7a
<1>9. /\ DOMAIN held = DOMAIN store.rows /\ held[id] = row
      /\ \A x \in DOMAIN store.rows : x # id => held[x] = store.rows[x]
      /\ RowMap(held, store.next)
  <2> HIDE DEF id
  <2>1. id \in DOMAIN store.rows
    BY <1>2 DEF id
  <2> QED
    BY <1>1, <2>1 DEF RowMap
<1>10. AnswerShape(ans) /\ ans.id = id /\ ans.row = row
  <2> HIDE DEF id
  <2>1. ans = FlagAnswer(id, row, inactive)
    BY DEF FlagAnswer
  <2> HIDE DEF ans
  <2> QED
    BY <1>4, <2>1, AnswerFlag
<1>10a. ans.inactive = inactive
  BY AnswerTold
<1>11. /\ new.rows = held /\ new.jobs = store.jobs /\ new.next = store.next /\ new.nextJob = store.nextJob
       /\ new \in [rows : {held}, inactive : {new.inactive}, jobs : {store.jobs},
                   next : Nat, nextJob : Nat, teams : {0, 1}]
  BY <1>7a
<1> HIDE DEF held, ans
<1>12. /\ Served(s) /\ store' = new /\ regHist'.unvalidated = regHist.unvalidated
       /\ regOps'[s].ans.row = row
       /\ regOps'[s].ans.res = "ok" \/ regHist'.lost \/ store' = store
  BY <1>2, <1>8, <1>10, ReplyServes
<1>12a. FlagChanged(s, store'.inactive, regOps'[s].ans.inactive)
  <2>1. regOps'[s].ans.inactive = ans.inactive
    BY <1>2, <1>8, <1>10, ReplyServes
  <2>2. FlagChanged(s, new.inactive, inactive)
    BY <1>7a
  <2> QED
    BY <1>10a, <1>12, <2>1, <2>2, Zenon
<1>12b. store'.next = store.next /\ DOMAIN store'.rows = DOMAIN store.rows
  BY <1>9, <1>11, <1>12
<1> SUFFICES RegInv'
  BY <1>4, <1>12, <1>12a, <1>12b
<1>13. CASE store' = store /\ regOps'[s].ans.res # "ok"
  BY <1>12, <1>13, ServedIdle
<1>14. CASE regHist'.lost \/ regOps'[s].ans.res = "ok"
  <2>1. /\ store'.rows = held /\ store'.jobs = store.jobs /\ store'.next = store.next
        /\ store'.nextJob = store.nextJob
        /\ store' \in [rows : {store'.rows}, inactive : {store'.inactive}, jobs : {store'.jobs},
                       next : Nat, nextJob : Nat, teams : {0, 1}]
    BY <1>11, <1>12
  <2>2. \A v, k : Got(s, v, k)' => (v = regOps[s].verb /\ k = 1)
    BY <1>3, <1>12 DEF Got, Served
  <2>3. \A n \in DOMAIN store'.rows : n \in DOMAIN store.rows /\ (store'.rows[n] = store.rows[n] \/ n = regOps[s].id)
    BY <1>9, <2>1
  <2>4. RegTypes'
    BY <1>1, <1>5, <1>9, <1>12, <2>1, <2>2, ServedTypes
  <2>5. IdInv'
    <3>1. ~Got(s, "delete", 1)' /\ ~Made(s)'
      BY <1>5, <2>2 DEF Made
    <3> QED
      BY <1>1, <1>9, <1>12, <2>1, <2>3, <3>1, ServedIds
  <2>6. ApartInv'
    BY <1>12, ServedApart
  <2>7. QueueInv'
    BY <1>5, <1>12, <2>1, <2>2, ServedQueue DEF RegInv, QueueInv
  <2>8. CheckedInv'
    BY <1>5, <1>12, <2>2, <2>3, ServedChecked DEF RegInv, CheckedInv
  <2>9. RowInv'
    <3> SUFFICES ASSUME ~regHist'.lost, ~regHist'.crossed PROVE RowInv'
      BY DEF RowInv
    <3>1. /\ ~regHist.lost /\ ~regHist.crossed
          /\ Got(s, "update", 1)' \/ Got(s, "active", 1)'
          /\ Got(s, "update", 1)' <=> regOps[s].verb = "update"
      BY <1>3, <1>5, <1>12, <1>14 DEF Served, Got
    <3>2. RowsComing /\ RowsGoing /\ RowsAnswered /\ RowsPublished /\ VersionsAnswered /\ ChecksFit
      BY <3>1 DEF RegInv, RowInv
    <3>3. \A t \in OpSlots : regOps[t].ans.res = "ok" => (t # s /\ regOps'[t] = regOps[t])
      BY <1>12 DEF Served
    <3>4. \A t \in OpSlots : t # s => regOps'[t] = regOps[t]
      BY <1>12 DEF Served
    <3>5. table' = table /\ tab' = tab /\ regOps'[s].id = id
      BY <1>12 DEF Served
    <3>6. /\ \A t \in OpSlots : t # s => regOps[t].id # id
          /\ id \in DOMAIN table.rows /\ table.rows[id] = old
      BY <1>2, <1>5, <3>1, Alike
    <3>7. \A r \in DOMAIN store.rows : RowAgrees(r) => RowAgrees(r)'
      <4> SUFFICES ASSUME NEW r \in DOMAIN store.rows, RowAgrees(r) PROVE RowAgrees(r)'
        OBVIOUS
      <4>1. CASE r = id
        BY <3>1, <3>5, <4>1 DEF RowAgrees
      <4>2. CASE r # id
        BY <1>9, <2>1, <3>3, <3>5, <4>2 DEF RowAgrees, Got
      <4> QED
        BY <4>1, <4>2
    <3>8. RowsComing'
      BY <1>9, <2>1, <3>2, <3>3, <3>5, <3>7 DEF RowsComing, Made, Got
    <3>9. RowsGoing'
      BY <1>9, <2>1, <3>2, <3>3, <3>5 DEF RowsGoing, Got
    <3>10. RowsAnswered'
      <4> SUFFICES ASSUME NEW t \in OpSlots, (Got(t, "update", 1) \/ Got(t, "active", 1))',
                          regOps'[t].id \in DOMAIN store'.rows
                   PROVE  store'.rows[regOps'[t].id] = regOps'[t].ans.row
        BY DEF RowsAnswered
      <4>1. CASE t = s
        BY <1>9, <1>12, <2>1, <3>5, <4>1
      <4>2. CASE t # s
        BY <1>9, <2>1, <3>2, <3>4, <3>6, <4>2 DEF RowsAnswered, Got
      <4> QED
        BY <4>1, <4>2
    <3>11. VersionsAnswered'
      <4> SUFFICES ASSUME NEW t \in OpSlots, (Got(t, "active", 1) \/ Got(t, "validate", 1) \/ Got(t, "deploy", 1))',
                          regOps'[t].id \in DOMAIN table'.rows
                   PROVE  regOps'[t].ans.row.ver = table'.rows[regOps'[t].id].ver
        BY DEF VersionsAnswered
      <4>1. CASE t = s
        <5>1. regOps[s].verb = "active"
          BY <1>5, <2>2, <4>1
        <5> QED
          BY <1>7, <1>12, <3>5, <3>6, <4>1, <5>1
      <4>2. CASE t # s
        BY <3>2, <3>4, <3>5, <4>2 DEF VersionsAnswered, Got
      <4> QED
        BY <4>1, <4>2
    <3>12. ChecksFit'
      BY <3>2, <3>5 DEF ChecksFit
    <3>13. RowsPublished'
      BY <1>5, <1>9, <2>1, <2>2, <3>2, <3>4, <3>5, <3>6 DEF RowsPublished, Got
    <3> QED
      BY <3>8, <3>9, <3>10, <3>11, <3>12, <3>13 DEF RowInv
  <2>10. JobInv'
    BY <1>5, <1>12, <2>1, <2>2, ServedJobs
  <2>11. ListInv'
    BY <1>5, <1>12 DEF ListInv, Served
  <2>12. OctetInv'
    BY <1>5, <1>12, <2>1, <2>2, ServedOctet
  <2> QED
    BY <2>4, <2>5, <2>6, <2>7, <2>8, <2>9, <2>10, <2>11, <2>12 DEF RegInv
<1> QED
  BY <1>12, <1>13, <1>14


\* A row is deleted.
LEMMA RowDeleted ==
    ASSUME RegInv, NEW s \in OpSlots, StoreDelete(s), tab # "deployments"
    PROVE  RegInv' /\ Quiet(s)
<1>1. /\ RegTypes /\ RegWell(s)
      /\ store \in [rows : {store.rows}, inactive : {store.inactive}, jobs : {store.jobs},
                    next : Nat, nextJob : Nat, teams : {0, 1}]
      /\ RowMap(store.rows, store.next) /\ JobMap(store.jobs, store.nextJob)
  BY DEF RegInv, RegTypes
<1>2. /\ regOps[s].verb # "none" /\ regOps[s].ans.res = "none" /\ RequestOf(s) = "delete"
      /\ regOps[s].id \in DOMAIN store.rows
  BY DEF StoreDelete, Asks
<1>3. regOps[s].verb = "delete" /\ regOps[s].step = 1
  BY <1>1, <1>2, Asked
<1> DEFINE id == regOps[s].id
           held == Without(store.rows, id)
           new == [store EXCEPT !.rows = held]
           ans == [NoAnswer EXCEPT !.id = id]
<1>4. Reply(s, new, ans)
  BY DEF StoreDelete
<1>5. id \in Nat /\ AnswerShape(ans)
  <2>1. id \in Nat
    BY <1>1 DEF RegWell, RegShape
  <2> HIDE DEF id
  <2> QED
    BY <2>1, AnswerId
<1>6. /\ DOMAIN held = DOMAIN store.rows \ {id}
      /\ \A x \in DOMAIN store.rows : x # id => held[x] = store.rows[x]
      /\ RowMap(held, store.next)
  <2> HIDE DEF id
  <2> QED
    BY <1>1 DEF RowMap, Without
<1> HIDE DEF held
<1>7. /\ new.rows = held /\ new.jobs = store.jobs /\ new.next = store.next /\ new.nextJob = store.nextJob
      /\ new.inactive = store.inactive
      /\ new \in [rows : {held}, inactive : {new.inactive}, jobs : {store.jobs},
                  next : Nat, nextJob : Nat, teams : {0, 1}]
  BY <1>1
<1> HIDE DEF new, ans
<1>8. /\ Served(s) /\ store' = new /\ regHist'.unvalidated = regHist.unvalidated
      /\ regOps'[s].ans.res = "ok" \/ regHist'.lost \/ store' = store
  BY <1>2, <1>4, <1>5, ReplyServes
<1>9. /\ store'.rows = held /\ store'.jobs = store.jobs /\ store'.next = store.next
      /\ store'.nextJob = store.nextJob /\ store' # store /\ store'.inactive = store.inactive
      /\ store' \in [rows : {store'.rows}, inactive : {store'.inactive}, jobs : {store'.jobs},
                     next : Nat, nextJob : Nat, teams : {0, 1}]
  BY <1>2, <1>6, <1>7, <1>8
<1>10. \A v, k : Got(s, v, k)' => (v = "delete" /\ k = 1)
  BY <1>3, <1>8 DEF Got, Served
<1>11. \A n \in DOMAIN store'.rows : n \in DOMAIN store.rows /\ n # id /\ store'.rows[n] = store.rows[n]
  BY <1>6, <1>9
<1>12. RegTypes'
  BY <1>1, <1>6, <1>8, <1>9, <1>10, ServedTypes
<1>13. IdInv'
  <2>1. ~Made(s)'
    BY <1>10 DEF Made
  <2> QED
    BY <1>1, <1>6, <1>8, <1>9, <1>11, <2>1, ServedIds
<1>14. ApartInv'
  BY <1>8, ServedApart
<1>15. QueueInv'
  BY <1>8, <1>9, <1>10, ServedQueue DEF RegInv, QueueInv
<1>16. CheckedInv'
  BY <1>3, <1>8, <1>10, <1>11, ServedChecked DEF RegInv, CheckedInv
<1>17. RowInv'
  <2> SUFFICES ASSUME ~regHist'.lost, ~regHist'.crossed PROVE RowInv'
    BY DEF RowInv
  <2>1. ~regHist.lost /\ ~regHist.crossed /\ Got(s, "delete", 1)'
    BY <1>3, <1>8, <1>9 DEF Served, Got
  <2>2. RowsComing /\ RowsGoing /\ RowsAnswered /\ RowsPublished /\ VersionsAnswered /\ ChecksFit
    BY <2>1 DEF RegInv, RowInv
  <2>3. \A t \in OpSlots : regOps[t].ans.res = "ok" => (t # s /\ regOps'[t] = regOps[t])
    BY <1>8 DEF Served
  <2>4. \A t \in OpSlots : t # s => regOps'[t] = regOps[t]
    BY <1>8 DEF Served
  <2>5. table' = table /\ tab' = tab /\ regOps'[s].id = id
    BY <1>8 DEF Served
  <2>6. \A r \in DOMAIN store'.rows : RowAgrees(r) => RowAgrees(r)'
    BY <1>11, <2>3, <2>5 DEF RowAgrees, Got
  <2>7. RowsComing'
    BY <1>11, <2>2, <2>3, <2>5, <2>6 DEF RowsComing, Made, Got
  <2>8. RowsGoing'
    BY <1>6, <1>9, <2>1, <2>2, <2>3, <2>5 DEF RowsGoing, Got
  <2>9. RowsAnswered'
    BY <1>10, <1>11, <2>2, <2>4 DEF RowsAnswered, Got
  <2>10. VersionsAnswered'
    BY <1>10, <2>2, <2>4, <2>5 DEF VersionsAnswered, Got
  <2>11. ChecksFit'
    BY <2>2, <2>5 DEF ChecksFit
  <2>12. RowsPublished'
    BY <1>10, <1>11, <2>2, <2>4, <2>5 DEF RowsPublished, Got
  <2> QED
    BY <2>7, <2>8, <2>9, <2>10, <2>11, <2>12 DEF RowInv
<1>18. JobInv'
  BY <1>8, <1>9, <1>10, ServedJobs
<1>19. ListInv'
  BY <1>8 DEF ListInv, Served
<1>20. OctetInv'
  BY <1>8, <1>9, <1>10, ServedOctet
<1>21. Quiet(s)
  BY <1>8, <1>9, <1>10, <1>11 DEF Quiet
<1> QED
  BY <1>21, <1>12, <1>13, <1>14, <1>15, <1>16, <1>17, <1>18, <1>19, <1>20 DEF RegInv

\* A job that is not queued is deleted.
LEMMA JobDeleted ==
    ASSUME RegInv, NEW s \in OpSlots, StoreDelete(s), tab = "deployments"
    PROVE  RegInv' /\ Quiet(s)
<1>1. /\ RegTypes /\ RegWell(s)
      /\ store \in [rows : {store.rows}, inactive : {store.inactive}, jobs : {store.jobs},
                    next : Nat, nextJob : Nat, teams : {0, 1}]
      /\ RowMap(store.rows, store.next) /\ JobMap(store.jobs, store.nextJob)
  BY DEF RegInv, RegTypes
<1>2. /\ regOps[s].verb # "none" /\ regOps[s].ans.res = "none" /\ RequestOf(s) = "delete"
      /\ regOps[s].id \in DOMAIN store.jobs
  BY DEF StoreDelete, Asks
<1>3. regOps[s].verb = "delete" /\ regOps[s].step = 1
  BY <1>1, <1>2, Asked
<1> DEFINE id == regOps[s].id
           jobs == Without(store.jobs, id)
           new == [store EXCEPT !.jobs = jobs]
           ans == [NoAnswer EXCEPT !.id = id]
<1>4. Reply(s, new, ans)
  BY DEF StoreDelete
<1>5. id \in Nat /\ AnswerShape(ans)
  <2>1. id \in Nat
    BY <1>1 DEF RegWell, RegShape
  <2> HIDE DEF id
  <2> QED
    BY <2>1, AnswerId
<1>6. /\ DOMAIN jobs = DOMAIN store.jobs \ {id}
      /\ \A x \in DOMAIN store.jobs : x # id => jobs[x] = store.jobs[x]
      /\ JobMap(jobs, store.nextJob)
  <2> HIDE DEF id
  <2> QED
    BY <1>1 DEF JobMap, Without
<1> HIDE DEF jobs
<1>7. /\ new.rows = store.rows /\ new.jobs = jobs /\ new.next = store.next /\ new.nextJob = store.nextJob
      /\ new.inactive = store.inactive
      /\ new \in [rows : {store.rows}, inactive : {new.inactive}, jobs : {jobs},
                  next : Nat, nextJob : Nat, teams : {0, 1}]
  BY <1>1
<1> HIDE DEF new, ans
<1>8. /\ Served(s) /\ store' = new /\ regHist'.unvalidated = regHist.unvalidated
      /\ regOps'[s].ans.res = "ok" \/ regHist'.lost \/ store' = store
  BY <1>2, <1>4, <1>5, ReplyServes
<1>9. /\ store'.rows = store.rows /\ store'.jobs = jobs /\ store'.next = store.next
      /\ store'.nextJob = store.nextJob /\ store' # store /\ store'.inactive = store.inactive
      /\ store' \in [rows : {store'.rows}, inactive : {store'.inactive}, jobs : {store'.jobs},
                     next : Nat, nextJob : Nat, teams : {0, 1}]
  BY <1>2, <1>6, <1>7, <1>8
<1>10. \A v, k : Got(s, v, k)' => (v = "delete" /\ k = 1)
  BY <1>3, <1>8 DEF Got, Served
<1>11. \A n \in DOMAIN store'.jobs : n \in DOMAIN store.jobs /\ n # id /\ store'.jobs[n] = store.jobs[n]
  BY <1>6, <1>9
<1>12. RegTypes'
  BY <1>1, <1>6, <1>8, <1>9, <1>10, ServedTypes
<1>13. IdInv'
  <2>1. ~Made(s)'
    BY <1>10 DEF Made
  <2> QED
    BY <1>1, <1>6, <1>8, <1>9, <1>11, <2>1, ServedIds
<1>14. ApartInv'
  BY <1>8, ServedApart
<1>15. QueueInv'
  <2>1. OneQueued(store'.jobs)
    BY <1>11 DEF RegInv, QueueInv, OneQueued
  <2> QED
    BY <1>8, <1>10, <2>1, ServedQueue
<1>16. CheckedInv'
  BY <1>3, <1>8, <1>9, <1>10, ServedChecked DEF RegInv, CheckedInv
<1>17. RowInv'
  BY <1>8, <1>9, <1>10, ServedRows
<1>18. JobInv'
  BY <1>8 DEF JobInv, Served
<1>19. ListInv'
  <2>1. ListInv
    BY DEF RegInv
  <2>2. \A t \in OpSlots : Reconciled(t)' <=> Reconciled(t)
    BY <1>3, <1>8 DEF Reconciled, Served
  <2>3. \A t \in OpSlots : t # s => regOps'[t] = regOps[t]
    BY <1>8 DEF Served
  <2>4. \A t \in OpSlots : Got(t, "delete", 1) => (Got(t, "delete", 1)' /\ regOps'[t].id = regOps[t].id)
    BY <1>8 DEF Served, Got
  <2>5. /\ regHist'.deleted = regHist.deleted /\ regHist'.crossed = regHist.crossed
        /\ regHist.lost => regHist'.lost
        /\ table' = table /\ tab' = tab /\ regOps'[s].id = id
    BY <1>8 DEF Served
  <2>6. \A t \in OpSlots : Reconciled(t)' => \A j \in DOMAIN store'.jobs : store'.jobs[j].status # "queued"
    BY <1>11, <2>1, <2>2 DEF ListInv
  <2>7. ASSUME ~regHist'.crossed
        PROVE  /\ \A t \in OpSlots : Got(t, "reconcile", 2)' => regOps'[t].ans.jobs = store'.jobs
               /\ \A j \in regHist'.deleted : j \notin DOMAIN table'.jobs
    <3>1. \A t \in OpSlots : t # s => regOps[t].verb # "reconcile"
      BY <1>3, <2>5, <2>7 DEF RegInv, ApartInv
    <3> QED
      BY <1>10, <2>1, <2>3, <2>5, <2>7, <3>1 DEF Got, ListInv
  <2>8. ASSUME ~regHist'.lost, ~regHist'.crossed, \A t \in OpSlots : ~Reconciled(t)'
        PROVE  ListShown'
    <3>1. ListShown
      BY <2>1, <2>2, <2>5, <2>8 DEF ListInv
    <3>2. Got(s, "delete", 1)'
      BY <1>3, <1>8, <1>9, <2>8 DEF Got, Served
    <3> QED
      BY <1>6, <1>9, <1>11, <2>4, <2>5, <3>1, <3>2 DEF ListShown
  <2> QED
    BY <2>6, <2>7, <2>8 DEF ListInv
<1>20. OctetInv'
  BY <1>8, <1>9, <1>10, ServedOctet
<1>21. Quiet(s)
  BY <1>8, <1>9, <1>10 DEF Quiet
<1> QED
  BY <1>21, <1>12, <1>13, <1>14, <1>15, <1>16, <1>17, <1>18, <1>19, <1>20 DEF RegInv


\* What is queued is completed.
LEMMA JobsCompleted ==
    ASSUME RegInv, NEW s \in OpSlots, StoreReconcile(s)
    PROVE  RegInv' /\ Quiet(s)
<1>1. /\ RegTypes /\ RegWell(s)
      /\ store \in [rows : {store.rows}, inactive : {store.inactive}, jobs : {store.jobs},
                    next : Nat, nextJob : Nat, teams : {0, 1}]
      /\ RowMap(store.rows, store.next) /\ JobMap(store.jobs, store.nextJob)
  BY DEF RegInv, RegTypes
<1>2. /\ regOps[s].verb # "none" /\ regOps[s].ans.res = "none" /\ RequestOf(s) = "reconcile"
  BY DEF StoreReconcile, Asks
<1>3. regOps[s].verb = "reconcile" /\ regOps[s].step = 1
  BY <1>1, <1>2, Asked
<1>4. tab = "deployments"
  BY <1>1, <1>3 DEF RegWell, TabVerbs
<1> DEFINE jobs == Completed(store.jobs)
           new == [store EXCEPT !.jobs = jobs]
<1>5. Reply(s, new, NoAnswer) /\ AnswerShape(NoAnswer)
  BY AnswerEmpty DEF StoreReconcile
<1>6. /\ DOMAIN jobs = DOMAIN store.jobs
      /\ \A x \in DOMAIN store.jobs : jobs[x].status # "queued"
      /\ JobMap(jobs, store.nextJob)
      /\ (\A x \in DOMAIN store.jobs : store.jobs[x].status # "queued") => jobs = store.jobs
  <2>1. \A x \in DOMAIN store.jobs : store.jobs[x] \in Jobs
    BY <1>1 DEF JobMap
  <2>2. \A x \in DOMAIN store.jobs : jobs[x] = IF store.jobs[x].status = "queued"
            THEN [store.jobs[x] EXCEPT !.status = "completed"] ELSE store.jobs[x]
    BY DEF Completed
  <2>3. DOMAIN jobs = DOMAIN store.jobs /\ jobs = [x \in DOMAIN store.jobs |-> jobs[x]]
    BY DEF Completed
  <2> HIDE DEF jobs
  <2>4. \A x \in DOMAIN store.jobs : jobs[x] \in Jobs /\ jobs[x].status # "queued"
    BY <2>1, <2>2 DEF Jobs
  <2>5. (\A x \in DOMAIN store.jobs : store.jobs[x].status # "queued") => jobs = store.jobs
    <3> HAVE \A x \in DOMAIN store.jobs : store.jobs[x].status # "queued"
    <3>1. \A x \in DOMAIN store.jobs : jobs[x] = store.jobs[x]
      BY <2>2
    <3>2. store.jobs = [x \in DOMAIN store.jobs |-> store.jobs[x]]
      BY <1>1 DEF JobMap
    <3> QED
      BY <2>3, <3>1, <3>2
  <2> QED
    BY <1>1, <2>3, <2>4, <2>5 DEF JobMap
<1> HIDE DEF jobs
<1>7. /\ new.rows = store.rows /\ new.jobs = jobs /\ new.next = store.next /\ new.nextJob = store.nextJob
      /\ new.inactive = store.inactive
      /\ new \in [rows : {store.rows}, inactive : {new.inactive}, jobs : {jobs},
                  next : Nat, nextJob : Nat, teams : {0, 1}]
  BY <1>1
<1> HIDE DEF new
<1>8. /\ Served(s) /\ store' = new /\ regHist'.unvalidated = regHist.unvalidated
      /\ regOps'[s].ans.res = "ok" \/ regHist'.lost \/ store' = store
  BY <1>2, <1>5, ReplyServes
<1>8a. Quiet(s)
  <2>1. \A v, k : Got(s, v, k)' => v = "reconcile"
    BY <1>3, <1>8 DEF Got, Served
  <2> QED
    BY <1>7, <1>8, <2>1 DEF Quiet
<1> SUFFICES RegInv'
  BY <1>8a
<1>9. CASE store' = store /\ regOps'[s].ans.res # "ok"
  BY <1>8, <1>9, ServedIdle
<1>10. CASE regHist'.lost \/ regOps'[s].ans.res = "ok"
  <2>1. /\ store'.rows = store.rows /\ store'.jobs = jobs /\ store'.next = store.next
        /\ store'.nextJob = store.nextJob
        /\ store' \in [rows : {store'.rows}, inactive : {store'.inactive}, jobs : {store'.jobs},
                       next : Nat, nextJob : Nat, teams : {0, 1}]
    BY <1>7, <1>8
  <2>2. \A v, k : Got(s, v, k)' => (v = "reconcile" /\ k = 1)
    BY <1>3, <1>8 DEF Got, Served
  <2>3. RegTypes'
    BY <1>1, <1>6, <1>8, <2>1, <2>2, ServedTypes
  <2>4. IdInv'
    <3>1. ~Made(s)'
      BY <2>2 DEF Made
    <3> QED
      BY <1>1, <1>6, <1>8, <2>1, <2>2, <3>1, ServedIds
  <2>5. ApartInv'
    BY <1>8, ServedApart
  <2>6. QueueInv'
    <3>1. OneQueued(store'.jobs)
      BY <1>6, <2>1 DEF OneQueued
    <3> QED
      BY <1>8, <2>2, <3>1, ServedQueue
  <2>7. CheckedInv'
    BY <1>3, <1>8, <2>1, <2>2, ServedChecked DEF RegInv, CheckedInv
  <2>8. RowInv'
    BY <1>8, <2>1, <2>2, ServedRows
  <2>9. JobInv'
    BY <1>4, <1>8 DEF JobInv, Served
  <2>10. ListInv'
    <3>1. ListInv
      BY DEF RegInv
    <3>2. \A t \in OpSlots : t # s => regOps'[t] = regOps[t]
      BY <1>8 DEF Served
    <3>3. /\ regHist'.deleted = regHist.deleted /\ regHist'.crossed = regHist.crossed
          /\ table' = table /\ tab' = tab
      BY <1>8 DEF Served
    <3>4. \A j \in DOMAIN store'.jobs : store'.jobs[j].status # "queued"
      BY <1>6, <2>1
    <3>5. ASSUME NEW t \in OpSlots, Got(t, "reconcile", 2)', ~regHist'.crossed
          PROVE  regOps'[t].ans.jobs = store'.jobs
      <4>1. t # s
        BY <2>2, <3>5
      <4>2. Got(t, "reconcile", 2) /\ regOps'[t] = regOps[t]
        BY <3>2, <3>5, <4>1 DEF Got
      <4>3. regOps[t].ans.jobs = store.jobs /\ \A j \in DOMAIN store.jobs : store.jobs[j].status # "queued"
        BY <1>4, <3>1, <3>3, <3>5, <4>2 DEF ListInv, Reconciled, Got
      <4> QED
        BY <1>6, <2>1, <4>2, <4>3
    <3>6. regHist'.lost \/ Reconciled(s)'
      BY <1>3, <1>8, <1>10 DEF Reconciled, Served
    <3> QED
      BY <1>4, <3>1, <3>3, <3>4, <3>5, <3>6 DEF ListInv
  <2>11. OctetInv'
    BY <1>8, <2>1, <2>2, ServedOctet
  <2> QED
    BY <2>3, <2>4, <2>5, <2>6, <2>7, <2>8, <2>9, <2>10, <2>11 DEF RegInv
<1> QED
  BY <1>8, <1>9, <1>10


\* The older jobs of a challenge, superseded, and a new one beside them.
LEMMA SupersededIs ==
    ASSUME NEW n \in Nat, NEW jobs, JobMap(jobs, n), NEW c
    PROVE  /\ DOMAIN Superseded(jobs, c) = DOMAIN jobs /\ JobMap(Superseded(jobs, c), n)
           /\ \A j \in DOMAIN jobs :
                /\ Superseded(jobs, c)[j] = IF jobs[j].challenge = c /\ jobs[j].status = "queued"
                                            THEN Outdated(jobs[j]) ELSE jobs[j]
                /\ Superseded(jobs, c)[j].challenge = jobs[j].challenge
                /\ Superseded(jobs, c)[j].status = "queued" => (jobs[j].status = "queued" /\ jobs[j].challenge # c)
           /\ OneQueued(jobs) => OneQueued(Superseded(jobs, c))
<1> DEFINE old == Superseded(jobs, c)
<1>1. DOMAIN old = DOMAIN jobs /\ old = [j \in DOMAIN jobs |-> old[j]]
  BY DEF Superseded
<1>2. \A j \in DOMAIN jobs : old[j] = IF jobs[j].challenge = c /\ jobs[j].status = "queued"
                                      THEN Outdated(jobs[j]) ELSE jobs[j]
  BY DEF Superseded, Outdated
<1>3. \A j \in DOMAIN jobs : jobs[j] \in Jobs /\ j \in Nat /\ 1 <= j /\ j < n
  BY DEF JobMap
<1>4. \A job \in Jobs : Outdated(job) \in Jobs /\ Outdated(job).challenge = job.challenge
                        /\ Outdated(job).status = "superseded"
  BY DEF Jobs, Outdated
<1> HIDE DEF old
<1>5. \A j \in DOMAIN jobs :
        /\ old[j] \in Jobs /\ old[j].challenge = jobs[j].challenge
        /\ old[j].status = "queued" => (jobs[j].status = "queued" /\ jobs[j].challenge # c)
  BY <1>2, <1>3, <1>4
<1>6. JobMap(old, n)
  BY <1>1, <1>3, <1>5 DEF JobMap
<1>7. OneQueued(jobs) => OneQueued(old)
  BY <1>1, <1>5 DEF OneQueued
<1> QED
  BY <1>1, <1>2, <1>5, <1>6, <1>7 DEF old

\* A queued job of a challenge that has no other.
LEMMA Enqueued ==
    ASSUME NEW m \in Nat, NEW n \in Nat, m <= n, NEW jobs, JobMap(jobs, m), OneQueued(jobs), NEW c \in Nat,
           \A j \in DOMAIN jobs : jobs[j].status = "queued" => jobs[j].challenge # c,
           NEW k \in Nat, 1 <= k, k < n
    PROVE  /\ JobMap(Put(jobs, k, [challenge |-> c, status |-> "queued"]), n)
           /\ OneQueued(Put(jobs, k, [challenge |-> c, status |-> "queued"]))
<1> DEFINE job == [challenge |-> c, status |-> "queued"]
           all == Put(jobs, k, job)
<1>1. /\ DOMAIN all = DOMAIN jobs \union {k} /\ all = [x \in DOMAIN all |-> all[x]]
      /\ all[k] = job /\ \A x \in DOMAIN jobs : x # k => all[x] = jobs[x]
  BY DEF Put
<1>2. job \in Jobs /\ job.challenge = c /\ job.status = "queued"
  BY DEF Jobs
<1>3. \A j \in DOMAIN jobs : jobs[j] \in Jobs /\ j \in Nat /\ 1 <= j /\ j < m
  BY DEF JobMap
<1> HIDE DEF job, all
<1>4. JobMap(all, n)
  BY <1>1, <1>2, <1>3 DEF JobMap
<1>5. OneQueued(all)
  BY <1>1, <1>2 DEF OneQueued
<1> QED
  BY <1>4, <1>5 DEF all, job


\* A challenge is deployed.
LEMMA Deployed ==
    ASSUME RegInv, NEW s \in OpSlots, StoreDeploy(s)
    PROVE  RegInv' /\ Quiet(s)
<1>1. /\ RegTypes /\ RegWell(s) /\ HistShape(regHist)
      /\ store \in [rows : {store.rows}, inactive : {store.inactive}, jobs : {store.jobs},
                    next : Nat, nextJob : Nat, teams : {0, 1}]
      /\ RowMap(store.rows, store.next) /\ JobMap(store.jobs, store.nextJob) /\ store.nextJob >= 1
      /\ OneQueued(store.jobs)
  BY DEF RegInv, RegTypes, QueueInv
<1>2. /\ regOps[s].verb # "none" /\ regOps[s].ans.res = "none" /\ RequestOf(s) = "deploy"
      /\ regOps[s].id \in DOMAIN store.rows
  BY DEF StoreDeploy, Asks
<1>3. regOps[s].verb = "deploy" /\ regOps[s].step = 2
  BY <1>1, <1>2, Asked
<1>4. tab = "challenges" /\ regOps[s].verb \in RowVerbs
  BY <1>1, <1>3 DEF RegWell, TabVerbs, RowVerbs
<1> DEFINE id == regOps[s].id
           was == store.rows[id]
           row == InPublic(was)
           held == [store.rows EXCEPT ![id] = row]
           old == Superseded(store.jobs, id)
           job == [challenge |-> id, status |-> "queued"]
           jobs == IF store.teams = 0 THEN old ELSE Put(old, store.nextJob, job)
           n1 == [store EXCEPT !.rows = held]
           n2 == [n1 EXCEPT !.jobs = jobs]
           new == [n2 EXCEPT !.nextJob = store.nextJob + store.teams]
           list == IF store.teams = 0 THEN <<>> ELSE Alone(store.nextJob)
<1>5. /\ store' = new /\ UNCHANGED <<tab, table, form, target, regPending, regLeft>>
      /\ \E res \in {"ok", "failed"} :
           /\ regOps' = [regOps EXCEPT ![s].ans = [NoAnswer EXCEPT !.res = res, !.id = id, !.jobs = list]]
           /\ regHist' = [regHist EXCEPT !.lost = regHist.lost \/ res = "failed",
                                   !.unvalidated = regHist.unvalidated \/ regOps[s].checked # row.ver]
  BY DEF StoreDeploy, InPublic, Alone
<1>6. id \in Nat /\ 1 <= id /\ id < store.next /\ was \in Rows
  BY <1>1, <1>2 DEF RowMap
<1>7. row \in Rows /\ row.ver = was.ver
  <2> HIDE DEF was
  <2> QED
    BY <1>6 DEF Rows, InPublic
<1>8. /\ DOMAIN held = DOMAIN store.rows /\ held[id] = row
      /\ \A x \in DOMAIN store.rows : x # id => held[x] = store.rows[x]
      /\ RowMap(held, store.next)
  <2> HIDE DEF id, row
  <2>1. id \in DOMAIN store.rows
    BY <1>2 DEF id
  <2> QED
    BY <1>1, <1>7, <2>1 DEF RowMap
<1>9. /\ DOMAIN old = DOMAIN store.jobs /\ JobMap(old, store.nextJob) /\ OneQueued(old)
      /\ \A j \in DOMAIN store.jobs :
            /\ old[j] = IF store.jobs[j].challenge = id /\ store.jobs[j].status = "queued"
                        THEN Outdated(store.jobs[j]) ELSE store.jobs[j]
            /\ old[j].status = "queued" => old[j].challenge # id
  <2> HIDE DEF id
  <2> QED
    BY <1>1, SupersededIs
<1> HIDE DEF old
<1>10. /\ JobMap(jobs, store.nextJob + store.teams) /\ OneQueued(jobs)
       /\ \A j \in DOMAIN store.jobs : j \in DOMAIN jobs /\ jobs[j] = old[j]
       /\ \A j \in DOMAIN jobs : j \in DOMAIN store.jobs \/ (store.teams # 0 /\ j = store.nextJob)
       /\ store.teams # 0 => (store.nextJob \in DOMAIN jobs /\ jobs[store.nextJob] = job)
  <2>1. \A j \in DOMAIN store.jobs : j \in Nat /\ j < store.nextJob
    BY <1>1 DEF JobMap
  <2>2. CASE store.teams = 0
    BY <1>1, <1>9, <2>2
  <2>3. CASE store.teams # 0
    <3> DEFINE all == Put(old, store.nextJob, job)
    <3>1. JobMap(all, store.nextJob + 1) /\ OneQueued(all)
      <4> HIDE DEF id
      <4>1. id \in Nat
        BY <1>6
      <4> QED
        BY <1>1, <1>9, <4>1, Enqueued
    <3>2. /\ DOMAIN all = DOMAIN old \union {store.nextJob} /\ all[store.nextJob] = job
          /\ \A x \in DOMAIN old : x # store.nextJob => all[x] = old[x]
      <4> HIDE DEF job
      <4> QED
        BY DEF Put
    <3>3. jobs = all /\ store.teams = 1
      BY <1>1, <2>3
    <3> HIDE DEF all, jobs, job
    <3> QED
      BY <1>1, <1>9, <2>1, <2>3, <3>1, <3>2, <3>3
  <2> QED
    BY <2>2, <2>3
<1> HIDE DEF held, jobs, job
<1>11. /\ n1.jobs = store.jobs /\ n1.nextJob = store.nextJob /\ n1.rows = held /\ n1.next = store.next
       /\ n1.inactive = store.inactive
       /\ n1 \in [rows : {held}, inactive : {n1.inactive}, jobs : {store.jobs},
                  next : Nat, nextJob : Nat, teams : {0, 1}]
  BY <1>1
<1> HIDE DEF n1
<1>12. /\ n2.jobs = jobs /\ n2.nextJob = store.nextJob /\ n2.rows = held /\ n2.next = store.next
       /\ n2.inactive = store.inactive
       /\ n2 \in [rows : {held}, inactive : {n2.inactive}, jobs : {jobs},
                  next : Nat, nextJob : Nat, teams : {0, 1}]
  BY <1>11
<1> HIDE DEF n2
<1>13. /\ new.jobs = jobs /\ new.nextJob = store.nextJob + store.teams /\ new.rows = held /\ new.next = store.next
       /\ new.inactive = store.inactive
       /\ new \in [rows : {held}, inactive : {new.inactive}, jobs : {jobs},
                   next : Nat, nextJob : Nat, teams : {0, 1}]
  BY <1>1, <1>12
<1> HIDE DEF new
<1>14. PICK res \in {"ok", "failed"} :
         /\ regOps' = [regOps EXCEPT ![s].ans = [NoAnswer EXCEPT !.res = res, !.id = id, !.jobs = list]]
         /\ regHist' = [regHist EXCEPT !.lost = regHist.lost \/ res = "failed",
                                 !.unvalidated = regHist.unvalidated \/ regOps[s].checked # row.ver]
  BY <1>5
<1> DEFINE a1 == [NoAnswer EXCEPT !.res = res]
           a2 == [a1 EXCEPT !.id = id]
           a == [a2 EXCEPT !.jobs = list]
<1>15. AnswerShape(a) /\ a.res = res /\ a.jobs = list
  <2>1. AnswerShape(a1) /\ a1.res = res
    BY AnswerEmpty DEF AnswerShape
  <2> HIDE DEF a1, id
  <2>2. AnswerShape(a2) /\ a2.res = res
    <3>1. id \in Nat
      BY <1>6
    <3> QED
      BY <2>1, <3>1 DEF AnswerShape
  <2> HIDE DEF a2, list
  <2> QED
    BY <2>2 DEF AnswerShape
<1>16. regOps' = [regOps EXCEPT ![s].ans = a]
  BY <1>14
<1> DEFINE gone == regHist.lost \/ res = "failed"
           un == regHist.unvalidated \/ regOps[s].checked # row.ver
           h1 == [regHist EXCEPT !.lost = gone]
<1>17. gone \in BOOLEAN /\ un \in BOOLEAN /\ (regHist.lost => gone) /\ (gone \/ res = "ok")
  BY <1>1 DEF HistShape
<1>18. regHist' = [h1 EXCEPT !.unvalidated = un]
  BY <1>14
<1> HIDE DEF a, gone, un
<1>19. /\ HistShape(h1) /\ h1.lost = gone
       /\ h1.crossed = regHist.crossed /\ h1.gap = regHist.gap /\ h1.deleted = regHist.deleted
       /\ h1.surprised = regHist.surprised /\ h1.preview = regHist.preview /\ h1.untold = regHist.untold
  BY <1>1, <1>17 DEF HistShape
<1> HIDE DEF h1
<1>20. /\ HistShape(regHist') /\ regHist'.lost = gone
       /\ regHist'.crossed = regHist.crossed /\ regHist'.gap = regHist.gap /\ regHist'.deleted = regHist.deleted
       /\ regHist'.surprised = regHist.surprised /\ regHist'.preview = regHist.preview
       /\ regHist'.unvalidated = un /\ regHist'.untold = regHist.untold
  BY <1>17, <1>18, <1>19 DEF HistShape
<1>21. Served(s) /\ regOps'[s].ans = a
  <2>1. UNCHANGED <<tab, table, form, target, regPending, regLeft>>
    BY <1>5
  <2>2. AnswerShape(a) /\ a.res \in {"ok", "failed"}
    BY <1>15
  <2>3. regHist.lost => regHist'.lost
    BY <1>17, <1>20
  <2> QED
    BY <1>2, <1>16, <1>20, <2>1, <2>2, <2>3, Serving
<1>22. /\ store'.rows = held /\ store'.jobs = jobs /\ store'.next = store.next
       /\ store'.nextJob = store.nextJob + store.teams /\ store.teams \in {0, 1}
       /\ store'.inactive = store.inactive
       /\ store' \in [rows : {store'.rows}, inactive : {store'.inactive}, jobs : {store'.jobs},
                      next : Nat, nextJob : Nat, teams : {0, 1}]
  BY <1>1, <1>5, <1>13
<1>23. \A v, k : Got(s, v, k)' => (v = "deploy" /\ k = 2)
  BY <1>3, <1>21 DEF Got, Served
<1>24. regOps'[s].ans.res = "ok" \/ regHist'.lost
  BY <1>15, <1>17, <1>20, <1>21
<1>25. regOps'[s].ans.jobs = IF store.teams = 0 THEN <<>> ELSE Alone(store.nextJob)
  BY <1>15, <1>21
<1> HIDE DEF list
<1>26. RegTypes'
  <2>1. \/ regOps'[s].ans.jobs = <<>>
        \/ \E n \in 1..(store'.nextJob - 1) : regOps'[s].ans.jobs = Alone(n)
    BY <1>1, <1>22, <1>25
  <2> QED
    BY <1>1, <1>8, <1>10, <1>21, <1>22, <1>23, <2>1, ServedTypes
<1>27. IdInv'
  <2>1. ~Made(s)' /\ ~Got(s, "delete", 1)'
    BY <1>23 DEF Made
  <2>2. \A j \in DOMAIN store'.jobs : j < store.nextJob => j \in DOMAIN store.jobs
    BY <1>1, <1>10, <1>22
  <2> QED
    BY <1>1, <1>8, <1>21, <1>22, <2>1, <2>2, ServedIds
<1>28. ApartInv'
  BY <1>21, ServedApart
<1>29. QueueInv'
  BY <1>10, <1>21, <1>22, <1>23, ServedQueue
<1>30. CheckedInv'
  <2>1. regHist'.unvalidated => regHist.crossed
    <3>1. ~regHist.crossed => regOps[s].checked = was.ver
      BY <1>2, <1>3 DEF RegInv, CheckedInv
    <3>2. regHist.unvalidated => regHist.crossed
      BY DEF RegInv, CheckedInv
    <3> QED
      BY <1>7, <1>20, <3>1, <3>2 DEF un
  <2>2. \A n \in DOMAIN store'.rows : n < store.next =>
            (n \in DOMAIN store.rows /\ (store'.rows[n].ver = store.rows[n].ver \/ n = regOps[s].id))
    BY <1>8, <1>22
  <2> QED
    BY <1>7, <1>8, <1>21, <1>22, <1>23, <2>1, <2>2, ServedChecked
<1>31. \A t \in OpSlots : regOps[t].ans.res = "ok" => (t # s /\ regOps'[t] = regOps[t])
  BY <1>21 DEF Served
<1>32. \A t \in OpSlots : t # s => regOps'[t] = regOps[t]
  BY <1>21 DEF Served
<1>33. table' = table /\ tab' = tab /\ regOps'[s].id = id
  BY <1>21 DEF Served
<1>34. ASSUME ~regHist'.lost, ~regHist'.crossed
       PROVE  /\ ~regHist.lost /\ ~regHist.crossed /\ Got(s, "deploy", 2)'
              /\ \A t \in OpSlots : t # s => regOps[t].id # id
              /\ id \in DOMAIN table.rows /\ table.rows[id] = was
  <2>1. ~regHist.lost /\ ~regHist.crossed /\ Got(s, "deploy", 2)'
    BY <1>3, <1>21, <1>24, <1>34 DEF Served, Got
  <2> QED
    BY <1>2, <1>4, <2>1, Alike
<1>35. RowInv'
  <2> SUFFICES ASSUME ~regHist'.lost, ~regHist'.crossed PROVE RowInv'
    BY DEF RowInv
  <2>1. RowsComing /\ RowsGoing /\ RowsAnswered /\ RowsPublished /\ VersionsAnswered /\ ChecksFit
    BY <1>34 DEF RegInv, RowInv
  <2>2. \A r \in DOMAIN store.rows : RowAgrees(r) => RowAgrees(r)'
    <3> SUFFICES ASSUME NEW r \in DOMAIN store.rows, RowAgrees(r) PROVE RowAgrees(r)'
      OBVIOUS
    <3>1. CASE r = id
      BY <1>33, <1>34, <3>1 DEF RowAgrees
    <3>2. CASE r # id
      BY <1>8, <1>22, <1>31, <1>33, <3>2 DEF RowAgrees, Got
    <3> QED
      BY <3>1, <3>2
  <2>3. RowsComing'
    BY <1>8, <1>22, <1>31, <1>33, <2>1, <2>2 DEF RowsComing, Made, Got
  <2>4. RowsGoing'
    BY <1>8, <1>22, <1>31, <1>33, <2>1 DEF RowsGoing, Got
  <2>5. RowsAnswered'
    BY <1>8, <1>22, <1>23, <1>32, <1>34, <2>1 DEF RowsAnswered, Got
  <2>6. VersionsAnswered'
    BY <1>23, <1>32, <1>33, <2>1 DEF VersionsAnswered, Got
  <2>7. ChecksFit'
    BY <1>33, <2>1 DEF ChecksFit
  <2>8. RowsPublished'
    BY <1>8, <1>22, <1>32, <1>33, <1>34, <2>1 DEF RowsPublished, Got
  <2> QED
    BY <2>3, <2>4, <2>5, <2>6, <2>7, <2>8 DEF RowInv
<1>36. JobInv'
  <2> SUFFICES ASSUME ~regHist'.lost, ~regHist'.crossed PROVE JobInv'
    BY DEF JobInv
  <2>1. JobsShown /\ JobsComing /\ JobsAnswered
    BY <1>4, <1>34 DEF RegInv, JobInv
  <2>2. \A c : Deploys(c)' <=> (Deploys(c) \/ c = id)
    BY <1>31, <1>32, <1>33, <1>34 DEF Deploys, Got
  <2>3. ~Deploys(id)
    BY <1>31, <1>34 DEF Deploys, Got
  <2>4. JobsShown'
    <3> SUFFICES ASSUME NEW j \in DOMAIN table.jobs
                 PROVE  /\ j \in DOMAIN store'.jobs
                        /\ store'.jobs[j] = IF table.jobs[j].status = "queued" /\ Deploys(table.jobs[j].challenge)'
                                            THEN Outdated(table.jobs[j]) ELSE table.jobs[j]
      BY <1>33 DEF JobsShown
    <3> DEFINE c == table.jobs[j].challenge
    <3>1. /\ j \in DOMAIN store.jobs
          /\ store.jobs[j] = IF table.jobs[j].status = "queued" /\ Deploys(c)
                             THEN Outdated(table.jobs[j]) ELSE table.jobs[j]
      BY <2>1 DEF JobsShown
    <3>2. Deploys(table.jobs[j].challenge)' <=> (Deploys(c) \/ c = id)
      BY <1>31, <1>32, <1>33, <1>34 DEF Deploys, Got
    <3>3. j \in DOMAIN store'.jobs /\ store'.jobs[j] = old[j]
      BY <1>10, <1>22, <3>1
    <3>4. table.jobs[j] \in Jobs
      BY <1>1 DEF RegTypes, JobMap
    <3>5. Outdated(table.jobs[j]).challenge = c /\ Outdated(table.jobs[j]).status = "superseded"
      BY <3>4 DEF Jobs, Outdated
    <3>6. old[j] = IF store.jobs[j].challenge = id /\ store.jobs[j].status = "queued"
                   THEN Outdated(store.jobs[j]) ELSE store.jobs[j]
      BY <1>9, <3>1
    <3> HIDE DEF c
    <3>7. c = table.jobs[j].challenge
      BY DEF c
    <3> QED
      BY <2>3, <3>1, <3>2, <3>3, <3>5, <3>6, <3>7
  <2>5. JobsComing'
    <3> SUFFICES ASSUME NEW j \in DOMAIN store'.jobs, j \notin DOMAIN table'.jobs
                 PROVE  \E t \in OpSlots : Got(t, "deploy", 2)' /\ regOps'[t].ans.jobs = Alone(j)
      BY DEF JobsComing
    <3>1. CASE j \in DOMAIN store.jobs
      BY <1>31, <1>33, <2>1, <3>1 DEF JobsComing, Got
    <3>2. CASE store.teams # 0 /\ j = store.nextJob
      BY <1>25, <1>34, <3>2
    <3> QED
      BY <1>10, <1>22, <3>1, <3>2
  <2>6. JobsAnswered'
    <3> SUFFICES ASSUME NEW t \in OpSlots, NEW n \in 1..(store'.nextJob - 1),
                        Got(t, "deploy", 2)', regOps'[t].ans.jobs = Alone(n)
                 PROVE  /\ n \in DOMAIN store'.jobs /\ n \notin DOMAIN table'.jobs
                        /\ store'.jobs[n] = [challenge |-> regOps'[t].id, status |-> "queued"]
      BY DEF JobsAnswered
    <3>1. CASE t = s
      <4>1. store.teams # 0 /\ n = store.nextJob
        <5>1. Alone(n) # <<>> /\ Alone(n)[1] = n /\ Alone(store.nextJob)[1] = store.nextJob
          BY DEF Alone
        <5> QED
          BY <1>25, <3>1, <5>1
      <4>2. \A j \in DOMAIN table.jobs : j \in Nat /\ j < store.nextJob
        BY <1>1 DEF RegTypes, JobMap
      <4>3. n \notin DOMAIN table'.jobs
        BY <1>1, <1>33, <4>1, <4>2
      <4> QED
        BY <1>10, <1>22, <1>33, <3>1, <4>1, <4>3 DEF job
    <3>2. CASE t # s
      <4>1. regOps'[t] = regOps[t] /\ Got(t, "deploy", 2) /\ regOps[t].ans.jobs = Alone(n)
        BY <1>32, <3>2 DEF Got
      <4>2. PICK m \in 1..(store.nextJob - 1) : regOps[t].ans.jobs = Alone(m)
        <5>1. RegWell(t) /\ Alone(n) # <<>>
          BY <1>1 DEF RegTypes, Alone
        <5> QED
          BY <4>1, <5>1 DEF RegWell
      <4>3. n = m
        <5>1. Alone(n)[1] = n /\ Alone(m)[1] = m
          BY DEF Alone
        <5> QED
          BY <4>1, <4>2, <5>1
      <4>4. /\ n \in DOMAIN store.jobs /\ n \notin DOMAIN table.jobs
            /\ store.jobs[n] = [challenge |-> regOps[t].id, status |-> "queued"]
        BY <2>1, <4>1, <4>2, <4>3 DEF JobsAnswered
      <4>5. store.jobs[n].challenge # id
        BY <1>34, <3>2, <4>4
      <4> QED
        BY <1>9, <1>10, <1>22, <1>33, <4>1, <4>4, <4>5
    <3> QED
      BY <3>1, <3>2
  <2> QED
    BY <2>4, <2>5, <2>6 DEF JobInv
<1>37. ListInv'
  BY <1>4, <1>33 DEF ListInv
<1>38. OctetInv'
  BY <1>21, <1>22, <1>23, ServedOctet
<1>39. Quiet(s)
  BY <1>8, <1>21, <1>22, <1>23 DEF Quiet
<1> QED
  BY <1>39, <1>26, <1>27, <1>28, <1>29, <1>30, <1>35, <1>36, <1>37, <1>38 DEF RegInv


-----------------------------------------------------------------------------
(* The page takes an answer.                                               *)

\* The action goes on with its next request.
Continues(s) ==
    /\ regOps[s].step = 1 /\ LastStep(regOps[s].verb) = 2 /\ regOps[s].ans.res = "ok"
    /\ RequestOf(s) = "validate" => regOps[s].ans.valid
    /\ regOps'[s].verb = regOps[s].verb /\ regOps'[s].id = regOps[s].id /\ regOps'[s].arg = regOps[s].arg
    /\ regOps'[s].step = 2
    /\ regOps[s].ans.valid => regOps'[s].checked = regOps[s].ans.row.ver
    /\ form' = form

\* The action ends.
Ends(s) ==
    /\ regOps[s].step < LastStep(regOps[s].verb) =>
         (regOps[s].ans.res # "ok" \/ (RequestOf(s) = "validate" /\ ~regOps[s].ans.valid))
    /\ regOps'[s].verb = "none" /\ regOps'[s].id = 0
    /\ form' \in {form, NoForm}

\* The page has deleted the row or job of the action.
Removes(s) == regOps[s].ans.res = "ok" /\ RequestOf(s) = "delete"

TakenOver(s) ==
    /\ regOps[s].verb # "none" /\ regOps[s].ans.res \in {"ok", "failed"}
    /\ regOps' = [t \in OpSlots |-> regOps'[t]]
    /\ RegShape(regOps'[s]) /\ AnswerShape(regOps'[s].ans) /\ regOps'[s].ans.res = "none"
    /\ Continues(s) \/ Ends(s)
    /\ \A t \in OpSlots : t # s => regOps'[t] = regOps[t]
    /\ HistShape(regHist') /\ regHist'.crossed = regHist.crossed
    /\ regHist'.unvalidated = regHist.unvalidated /\ regHist'.preview = regHist.preview
    /\ regHist'.untold = IF regOps[s].ans.res = "ok" THEN UntoldAfter(regOps[s], RequestOf(s)) ELSE regHist.untold
    /\ regHist'.deleted = IF Removes(s) THEN regHist.deleted \union {regOps[s].id} ELSE regHist.deleted
    /\ (regHist.gap \/ Removes(s)) => regHist'.gap
    /\ (\/ regHist.lost \/ regOps[s].verb = "import"
        \/ RequestOf(s) = "list" /\ regOps[s].ans.res # "ok") => regHist'.lost
    /\ regHist'.surprised => \/ regHist.surprised
                             \/ /\ tab = "challenges" /\ regOps[s].ans.res = "ok" /\ RequestOf(s) = "create"
                                /\ regOps[s].arg = 0 /\ regOps[s].ans.row.octet # regHist.preview
    /\ regPending'.verb \in Verbs \union {"none"}
    /\ UNCHANGED <<tab, store, target, regLeft>>

\* An answer is taken over by the page.
LEMMA Answering ==
    ASSUME RegInv, NEW s \in OpSlots, Answer(s)
    PROVE  /\ TakenOver(s)
           /\ table' = IF regOps[s].ans.res = "ok" THEN AfterAnswer(regOps[s], RequestOf(s)) ELSE table
<1> DEFINE op == regOps[s]
           req == RequestOf(s)
           ok == op.ans.res = "ok"
<1>1. /\ regOps = [t \in OpSlots |-> regOps[t]] /\ RegShape(op) /\ AnswerShape(op.ans) /\ HistShape(regHist)
      /\ RegTypes /\ regPending.verb \in Verbs \union {"none"}
      /\ RegWell(s)
  BY DEF RegInv, RegTypes, RegWell
<1>2. /\ op.verb # "none" /\ op.ans.res \in {"ok", "failed"}
      /\ table' = IF ok THEN AfterAnswer(op, req) ELSE table
      /\ UNCHANGED <<tab, store, target, regLeft>>
  BY <1>1 DEF Answer, AnswerShape
<1>3. Len(ScriptOf(op.verb)) = LastStep(op.verb) /\ op.step \in {1, 2} /\ LastStep(op.verb) \in {1, 2}
  BY <1>1, <1>2, Requests DEF RegWell, LastStep
<1>4. /\ AnswerShape(NoAnswer) /\ NoAnswer.res = "none"
  BY AnswerEmpty DEF NoAnswer
<1>5. /\ regOps' = [t \in OpSlots |-> regOps'[t]]
      /\ RegShape(regOps'[s]) /\ AnswerShape(regOps'[s].ans) /\ regOps'[s].ans.res = "none"
      /\ Continues(s) \/ Ends(s)
      /\ \A t \in OpSlots : t # s => regOps'[t] = regOps[t]
      /\ regPending'.verb \in Verbs \union {"none"}
  <2>1. CASE GoesOn(op, req)
    <3> DEFINE n1 == [op EXCEPT !.step = op.step + 1]
               n2 == [n1 EXCEPT !.ans = NoAnswer]
               chk == IF op.ans.valid THEN op.ans.row.ver ELSE 0
               new == [n2 EXCEPT !.checked = chk]
    <3>1. regOps' = [regOps EXCEPT ![s] = new] /\ form' = form /\ regPending' = regPending
      BY <2>1, <1>1 DEF Answer
    <3>2. op.step = 1 /\ LastStep(op.verb) = 2 /\ ok /\ (req = "validate" => op.ans.valid)
      BY <2>1, <1>3 DEF GoesOn
    <3>3. chk \in Nat /\ (op.ans.valid => chk = op.ans.row.ver)
      BY <1>1 DEF AnswerShape, Rows
    <3> DEFINE same(x) == x.verb = op.verb /\ x.id = op.id /\ x.arg = op.arg
    <3>4. RegShape(n1) /\ same(n1) /\ n1.step = 2
      <4> HIDE DEF op
      <4> QED
        BY <1>1, <3>2 DEF RegShape
    <3> HIDE DEF n1, chk
    <3>5. RegShape(n2) /\ same(n2) /\ n2.step = 2 /\ n2.ans = NoAnswer
      BY <3>4 DEF RegShape
    <3> HIDE DEF n2
    <3>6. RegShape(new) /\ same(new) /\ new.step = 2 /\ new.ans = NoAnswer /\ new.checked = chk
      BY <3>3, <3>5 DEF RegShape
    <3> HIDE DEF new
    <3>7. /\ regOps' = [t \in OpSlots |-> regOps'[t]] /\ regOps'[s] = new
          /\ \A t \in OpSlots : t # s => regOps'[t] = regOps[t]
      BY <1>1, <3>1
    <3>8. Continues(s)
      BY <3>1, <3>2, <3>3, <3>6, <3>7 DEF Continues
    <3> QED
      BY <1>1, <1>4, <3>1, <3>6, <3>7, <3>8
  <2>2. CASE ~GoesOn(op, req)
    <3>1. /\ regOps' = [regOps EXCEPT ![s] = NoOp] /\ form' \in {form, NoForm}
          /\ regPending' \in {regPending, Idle}
      BY <2>2 DEF Answer
    <3>2. op.step < LastStep(op.verb) => (~ok \/ (req = "validate" /\ ~op.ans.valid))
      BY <2>2, <1>3 DEF GoesOn
    <3>3. RegShape(NoOp) /\ NoOp.verb = "none" /\ NoOp.id = 0 /\ NoOp.ans = NoAnswer
      BY DEF NoOp, RegShape
    <3>4. /\ regOps' = [t \in OpSlots |-> regOps'[t]] /\ regOps'[s] = NoOp
          /\ \A t \in OpSlots : t # s => regOps'[t] = regOps[t]
      BY <1>1, <3>1
    <3>5. Ends(s)
      BY <3>1, <3>2, <3>3, <3>4 DEF Ends
    <3> QED
      BY <1>1, <1>4, <3>1, <3>3, <3>4, <3>5 DEF Idle
  <2> QED
    BY <2>1, <2>2
<1> DEFINE dels == IF ok /\ req = "delete" THEN regHist.deleted \union {op.id} ELSE regHist.deleted
           gap == regHist.gap \/ (ok /\ req = "delete")
           untold == IF ok THEN UntoldAfter(op, req) ELSE regHist.untold
           lost == regHist.lost \/ op.verb = "import" \/ (req = "list" /\ ~ok)
           odd == regHist.surprised \/ (/\ tab = "challenges" /\ ok /\ req = "create"
                                        /\ op.arg = 0 /\ op.ans.row.octet # regHist.preview)
           h1 == [regHist EXCEPT !.deleted = dels]
           h2 == [h1 EXCEPT !.gap = gap]
           h2a == [h2 EXCEPT !.untold = untold]
           h3 == [h2a EXCEPT !.lost = lost]
<1>6. regHist' = [h3 EXCEPT !.surprised = odd]
  BY DEF Answer
<1>7. dels \in SUBSET Nat /\ gap \in BOOLEAN /\ lost \in BOOLEAN /\ odd \in BOOLEAN
  BY <1>1 DEF HistShape, RegShape
<1>8. /\ dels = IF Removes(s) THEN regHist.deleted \union {op.id} ELSE regHist.deleted
      /\ (regHist.gap \/ Removes(s)) => gap
      /\ (regHist.lost \/ op.verb = "import" \/ (req = "list" /\ ~ok)) => lost
      /\ odd => \/ regHist.surprised
                \/ /\ tab = "challenges" /\ ok /\ req = "create"
                   /\ op.arg = 0 /\ op.ans.row.octet # regHist.preview
  BY DEF Removes
<1> HIDE DEF dels, gap, untold, lost, odd
<1>9. /\ HistShape(h1) /\ h1.crossed = regHist.crossed /\ h1.unvalidated = regHist.unvalidated
      /\ h1.preview = regHist.preview /\ h1.deleted = dels
  BY <1>1, <1>7 DEF HistShape
<1> HIDE DEF h1
<1>10. /\ HistShape(h2) /\ h2.crossed = regHist.crossed /\ h2.unvalidated = regHist.unvalidated
       /\ h2.preview = regHist.preview /\ h2.deleted = dels /\ h2.gap = gap
  BY <1>7, <1>9 DEF HistShape
<1> HIDE DEF h2
<1>10a. /\ HistShape(h2a) /\ h2a.crossed = regHist.crossed /\ h2a.unvalidated = regHist.unvalidated
        /\ h2a.preview = regHist.preview /\ h2a.deleted = dels /\ h2a.gap = gap /\ h2a.untold = untold
  BY <1>10 DEF HistShape
<1> HIDE DEF h2a
<1>11. /\ HistShape(h3) /\ h3.untold = untold /\ h3.crossed = regHist.crossed /\ h3.unvalidated = regHist.unvalidated
       /\ h3.preview = regHist.preview /\ h3.deleted = dels /\ h3.gap = gap /\ h3.lost = lost
  BY <1>7, <1>10a DEF HistShape
<1> HIDE DEF h3
<1>12. /\ HistShape(regHist') /\ regHist'.untold = untold /\ regHist'.crossed = regHist.crossed /\ regHist'.unvalidated = regHist.unvalidated
       /\ regHist'.preview = regHist.preview /\ regHist'.deleted = dels /\ regHist'.gap = gap
       /\ regHist'.lost = lost /\ regHist'.surprised = odd
  BY <1>6, <1>7, <1>11 DEF HistShape
<1> QED
  BY <1>2, <1>5, <1>8, <1>12 DEF TakenOver, untold


\* What an answer that is taken over leaves alone, whatever it makes of the page.
LEMMA TakenTypes ==
    ASSUME RegInv, NEW s \in OpSlots, TakenOver(s),
           table' \in [rows : {table'.rows}, inactive : {table'.inactive}, jobs : {table'.jobs},
                       checks : {table'.checks}],
           RowMap(table'.rows, store.next), JobMap(table'.jobs, store.nextJob), CheckMap(table'.checks)
    PROVE  RegTypes'
<1> USE DEF RegInv
<1>1. tab' = tab /\ store' = store /\ Limit' = Limit /\ TabVerbs' = TabVerbs
      /\ \A v : LastStep(v)' = LastStep(v)
  BY DEF TakenOver, Limit, TabVerbs, LastStep
<1>2. RegWell(s)'
  <2>1. RegWell(s)
    BY DEF RegTypes
  <2>2. CASE Continues(s)
    BY <1>1, <2>1, <2>2 DEF RegWell, Continues, TakenOver, Got
  <2>3. CASE Ends(s)
    BY <1>1, <2>1, <2>3 DEF RegWell, Ends, TakenOver, Got, RowVerbs
  <2> QED
    BY <2>2, <2>3 DEF TakenOver
<1>3. ASSUME NEW t \in OpSlots, t # s PROVE RegWell(t)'
  <2>1. RegWell(t) /\ regOps'[t] = regOps[t]
    BY <1>3 DEF RegTypes, TakenOver
  <2> QED
    BY <1>1, <2>1 DEF RegWell, RegShape, AnswerShape, Got, JobMap
<1>4. \A r \in regHist'.deleted : r < Limit'
  <2>1. Removes(s) => regOps[s].verb \in RowVerbs
    BY Asked DEF Removes, TakenOver, RowVerbs
  <2>2. Removes(s) => regOps[s].id < Limit
    BY <2>1 DEF RegTypes, RegWell
  <2>3. \A r \in regHist.deleted : r < Limit
    BY DEF RegTypes
  <2> QED
    BY <1>1, <2>2, <2>3 DEF TakenOver
<1>5. /\ form' \in [mode : {"closed", "create", "edit"}, id : Nat, complete : BOOLEAN]
      /\ form'.id < store.next /\ (form'.mode = "edit" => form'.id >= 1) /\ (form'.mode = "closed" => form' = NoForm)
      /\ form' # NoForm => (target = 0 /\ tab # "deployments")
  <2>1. CASE form' = form
    BY <2>1 DEF RegTypes
  <2>2. CASE form' = NoForm
    BY <2>2 DEF RegTypes, NoForm
  <2> QED
    BY <2>1, <2>2 DEF TakenOver, Continues, Ends
<1> QED
  BY <1>1, <1>2, <1>3, <1>4, <1>5 DEF RegTypes, TakenOver, CheckMap

\* Taking an answer over: actions stay apart.
LEMMA TakenApart ==
    ASSUME RegInv, NEW s \in OpSlots, TakenOver(s)
    PROVE  ApartInv'
<1>1. ApartInv /\ regHist'.crossed = regHist.crossed
  BY DEF RegInv, TakenOver
<1>2. \A t \in OpSlots : \/ regOps'[t].verb = regOps[t].verb /\ regOps'[t].id = regOps[t].id
                         \/ regOps'[t].verb = "none"
  BY DEF TakenOver, Continues, Ends
<1> QED
  BY <1>1, <1>2 DEF ApartInv

\* Taking an answer over: one queued job of a challenge.
LEMMA TakenQueue ==
    ASSUME RegInv, NEW s \in OpSlots, TakenOver(s), OneQueued(table'.jobs)
    PROVE  QueueInv'
<1>1. OneQueued(store'.jobs)
  BY DEF RegInv, QueueInv, TakenOver
<1>2. \A t \in OpSlots : Got(t, "reconcile", 2)' => OneQueued(regOps'[t].ans.jobs)
  BY DEF RegInv, QueueInv, TakenOver, Got
<1> QED
  BY <1>1, <1>2 DEF QueueInv

\* Taking an answer over: a deployment goes on with the version that was validated.
LEMMA TakenChecked ==
    ASSUME RegInv, NEW s \in OpSlots, TakenOver(s)
    PROVE  CheckedInv'
<1>1. CheckedInv /\ RegTypes
  BY DEF RegInv
<1>2. /\ store' = store /\ regHist'.crossed = regHist.crossed /\ regHist'.unvalidated = regHist.unvalidated
      /\ regOps[s].verb # "none"
  BY DEF TakenOver
<1> SUFFICES ASSUME ~regHist.crossed, NEW t \in OpSlots, regOps'[t].id \in DOMAIN store.rows
             PROVE  /\ Got(t, "deploy", 1)' => regOps'[t].ans.row.ver = store.rows[regOps'[t].id].ver
                    /\ (regOps'[t].verb = "deploy" /\ regOps'[t].step = 2) =>
                          regOps'[t].checked = store.rows[regOps'[t].id].ver
  BY <1>1, <1>2 DEF CheckedInv
<1>3. CASE t # s
  BY <1>1, <1>3 DEF TakenOver, CheckedInv, Got
<1>4. CASE t = s
  <2>1. ~Got(t, "deploy", 1)'
    BY <1>4 DEF TakenOver, Got
  <2>2. ASSUME regOps'[t].verb = "deploy", regOps'[t].step = 2
        PROVE  regOps'[t].checked = store.rows[regOps'[t].id].ver
    <3>1. Continues(s)
      BY <1>4, <2>2 DEF TakenOver, Ends
    <3>2. Got(s, "deploy", 1) /\ regOps'[s].id = regOps[s].id
      BY <1>4, <2>2, <3>1 DEF Continues, Got
    <3>3. regOps[s].ans.valid
      <4>1. RequestOf(s) = "validate"
        BY <1>1, <1>2, <3>2, Requests DEF Got
      <4> QED
        BY <3>1, <4>1 DEF Continues
    <3> QED
      BY <1>1, <1>4, <3>1, <3>2, <3>3 DEF Continues, CheckedInv
  <2> QED
    BY <2>1, <2>2
<1> QED
  BY <1>3, <1>4

\* Ids: the page gains at most the row the action has made.
LEMMA TakenIds ==
    ASSUME RegInv, NEW s \in OpSlots, TakenOver(s),
           \A r \in DOMAIN table'.rows :
               r \in DOMAIN table.rows \/ (Got(s, "create", 1) /\ r = regOps[s].ans.id),
           (Removes(s) /\ tab # "deployments") => regOps[s].id \notin DOMAIN table'.rows
    PROVE  IdInv'
<1>1. /\ IdInv /\ RegTypes
      /\ tab' = tab /\ store' = store /\ target' = target /\ regOps[s].verb # "none"
      /\ regHist'.deleted = IF Removes(s) THEN regHist.deleted \union {regOps[s].id} ELSE regHist.deleted
  BY DEF RegInv, TakenOver
<1>2. \A t \in OpSlots : regOps'[t].ans.res = "ok" => (t # s /\ regOps'[t] = regOps[t])
  BY DEF TakenOver
<1>3. \A t \in OpSlots : regOps'[t].id \in {regOps[t].id, 0}
  BY DEF TakenOver, Continues, Ends
<1>4. form'.id \in {form.id, 0}
  BY DEF TakenOver, Continues, Ends, NoForm
<1>5. Removes(s) => Got(s, "delete", 1)
  BY <1>1, Asked DEF Removes, Got
<1>6. ASSUME NEW t \in OpSlots, Made(t)'
      PROVE  /\ Made(t) /\ regOps'[t] = regOps[t]
             /\ (1 <= regOps[t].ans.id /\ regOps[t].ans.id < store.next /\ Unseen(regOps[t].ans.id))'
             /\ (regOps[t].ans.id \in DOMAIN store.rows /\ store.rows[regOps[t].ans.id] = regOps[t].ans.row)'
  <2>1. Made(t) /\ t # s /\ regOps'[t] = regOps[t]
    BY <1>2, <1>6 DEF Made, Got
  <2> DEFINE n == regOps[t].ans.id
  <2>2. /\ 1 <= n /\ n < store.next /\ Unseen(n)
        /\ n \in DOMAIN store.rows /\ store.rows[n] = regOps[t].ans.row
    BY <1>1, <2>1 DEF IdInv
  <2>3. n \notin DOMAIN table'.rows
    BY <1>1, <2>1, <2>2 DEF IdInv, Unseen, Made
  <2>4. n # 0
    BY <2>2
  <2>5. n \notin regHist'.deleted
    BY <1>1, <2>2 DEF Unseen
  <2>6. Unseen(regOps[t].ans.id)'
    BY <1>1, <1>3, <1>4, <2>1, <2>2, <2>3, <2>4, <2>5 DEF Unseen
  <2> QED
    BY <1>1, <2>1, <2>2, <2>6
<1>7. \A t, u \in OpSlots : (t # u /\ Made(t)' /\ Made(u)') => regOps'[t].ans.id # regOps'[u].ans.id
  BY <1>1, <1>6 DEF IdInv
<1>8. \A t \in OpSlots : Got(t, "delete", 1)' =>
        regOps'[t].id \notin DOMAIN (IF tab' = "deployments" THEN store'.jobs ELSE store'.rows)
  BY <1>1, <1>2 DEF IdInv, Got
<1>9. ASSUME tab # "deployments", NEW r \in regHist'.deleted PROVE r \notin DOMAIN table'.rows
  <2>1. CASE r \in regHist.deleted
    <3>1. r \notin DOMAIN table.rows
      BY <1>1, <1>9, <2>1 DEF IdInv
    <3>2. Got(s, "create", 1) => r # regOps[s].ans.id
      BY <1>1, <2>1 DEF IdInv, Unseen, Made
    <3> QED
      BY <3>1, <3>2
  <2>2. CASE Removes(s) /\ r = regOps[s].id
    BY <1>9, <2>2
  <2> QED
    BY <1>1, <2>1, <2>2
<1>10. ASSUME tab = "deployments", NEW j \in regHist'.deleted PROVE j \notin DOMAIN store.jobs
  BY <1>1, <1>5, <1>10 DEF IdInv
<1> QED
  BY <1>1, <1>6, <1>7, <1>8, <1>9, <1>10 DEF IdInv


\* The rows, when only the row of the action changes, and to what the store has.
LEMMA TakenRows ==
    ASSUME RegInv, NEW s \in OpSlots, TakenOver(s), ~regHist'.lost, ~regHist'.crossed,
           \A r \in DOMAIN table'.rows :
               \/ r \in DOMAIN table.rows /\ (table'.rows[r] = table.rows[r] \/ r = regOps[s].id)
               \/ Got(s, "create", 1) /\ r = regOps[s].ans.id,
           \A r \in DOMAIN table.rows :
               r \in DOMAIN table'.rows \/ (Got(s, "delete", 1) /\ r = regOps[s].id /\ tab # "deployments"),
           regOps[s].id \in DOMAIN store.rows \intersect DOMAIN table.rows =>
               \/ table'.rows[regOps[s].id] = store.rows[regOps[s].id]
               \/ /\ table'.rows[regOps[s].id] = table.rows[regOps[s].id]
                  /\ ~Got(s, "update", 1) /\ ~Got(s, "active", 1) /\ ~Got(s, "deploy", 2),
           Got(s, "create", 1) => /\ regOps[s].ans.id \in DOMAIN table'.rows
                                  /\ table'.rows[regOps[s].ans.id] = regOps[s].ans.row,
           (Got(s, "delete", 1) /\ tab # "deployments") => regOps[s].id \notin DOMAIN table'.rows,
           ChecksFit'
    PROVE  RowInv'
<1> DEFINE id == regOps[s].id
<1>1. /\ ~regHist.lost /\ ~regHist.crossed /\ regOps[s].verb # "import" /\ regOps[s].verb # "none"
      /\ tab' = tab /\ store' = store
  BY DEF TakenOver
<1>2. RowsComing /\ RowsGoing /\ RowsAnswered /\ RowsPublished /\ VersionsAnswered
  BY <1>1 DEF RegInv, RowInv
<1>3. /\ \A t \in OpSlots : t # s => regOps'[t] = regOps[t]
      /\ \A t \in OpSlots : regOps'[t].ans.res = "ok" => t # s
  BY DEF TakenOver
<1>4. \A r \in DOMAIN table.rows : r # 0
  BY DEF RegInv, RegTypes, RowMap
<1>5. \A t \in OpSlots : (t # s /\ regOps[t].verb # "none") => (regOps[t].id # id \/ id = 0)
  BY <1>1 DEF RegInv, ApartInv
<1>6. Got(s, "create", 1) =>
        /\ regOps[s].ans.id \in DOMAIN store.rows /\ store.rows[regOps[s].ans.id] = regOps[s].ans.row
        /\ regOps[s].ans.id \notin DOMAIN table.rows
        /\ \A t \in OpSlots : regOps[t].id # regOps[s].ans.id
  BY DEF RegInv, IdInv, Unseen, Made
\* The rows of the other actions are as they were.
<1>7. ASSUME NEW t \in OpSlots, t # s, regOps[t].verb # "none", regOps[t].id \in DOMAIN table'.rows
      PROVE  regOps[t].id \in DOMAIN table.rows /\ table'.rows[regOps[t].id] = table.rows[regOps[t].id]
  BY <1>4, <1>5, <1>6, <1>7
<1>8. RowsComing'
  <2> SUFFICES ASSUME NEW r \in DOMAIN store.rows
               PROVE  \/ r \in DOMAIN table'.rows /\ RowAgrees(r)'
                      \/ \E t \in OpSlots : Made(t)' /\ regOps'[t].ans.id = r
    BY <1>1 DEF RowsComing
  <2>1. CASE \E t \in OpSlots : Made(t) /\ regOps[t].ans.id = r
    <3>1. PICK t \in OpSlots : Made(t) /\ regOps[t].ans.id = r
      BY <2>1
    <3>2. CASE t = s
      <4>1. Got(s, "create", 1)
        BY <1>1, <3>1, <3>2 DEF Made, Got
      <4> QED
        BY <1>1, <1>6, <3>1, <3>2, <4>1 DEF RowAgrees
    <3>3. CASE t # s
      BY <1>3, <3>1, <3>3 DEF Made, Got
    <3> QED
      BY <3>2, <3>3
  <2>2. CASE r \in DOMAIN table.rows /\ RowAgrees(r)
    <3>1. r \in DOMAIN table'.rows
      <4>1. Got(s, "delete", 1) /\ tab # "deployments" => id # r
        BY DEF RegInv, IdInv
      <4> QED
        BY <2>2, <4>1
    <3>2. CASE r = id
      <4>1. /\ id # 0 /\ \A t \in OpSlots : (t # s /\ regOps[t].verb # "none") => regOps[t].id # id
        BY <1>4, <1>5, <2>2, <3>2
      <4>2. \/ table.rows[r] = store.rows[r]
            \/ Got(s, "update", 1) \/ Got(s, "active", 1) \/ Got(s, "deploy", 2)
        BY <2>2, <3>2, <4>1 DEF RowAgrees, Got
      <4>3. table'.rows[r] = store.rows[r]
        BY <2>2, <3>2, <4>2
      <4> QED
        BY <1>1, <3>1, <4>3 DEF RowAgrees
    <3>3. CASE r # id
      <4>1. table'.rows[r] = table.rows[r]
        BY <1>6, <2>2, <3>1, <3>3
      <4> QED
        BY <1>1, <1>3, <2>2, <3>1, <3>3, <4>1 DEF RowAgrees, Got
    <3> QED
      BY <3>2, <3>3
  <2> QED
    BY <1>2, <2>1, <2>2 DEF RowsComing
<1>9. RowsGoing'
  BY <1>1, <1>2, <1>3, <1>6 DEF RowsGoing, Got
<1>10. RowsAnswered'
  BY <1>1, <1>2, <1>3 DEF RowsAnswered, Got
<1>11. RowsPublished'
  BY <1>1, <1>2, <1>3, <1>7 DEF RowsPublished, Got
<1>12. VersionsAnswered'
  BY <1>1, <1>2, <1>3, <1>7 DEF VersionsAnswered, Got
<1> QED
  BY <1>8, <1>9, <1>10, <1>11, <1>12 DEF RowInv

\* Taking an answer over: the newest challenge stays in sight.
LEMMA TakenOctet ==
    ASSUME RegInv, NEW s \in OpSlots, TakenOver(s),
           ~Removes(s) => \A r \in DOMAIN table.rows : r \in DOMAIN table'.rows,
           Got(s, "create", 1) => regOps[s].ans.id \in DOMAIN table'.rows
    PROVE  OctetInv'
<1>1. /\ OctetInv /\ RegTypes /\ tab' = tab /\ store' = store /\ regOps[s].verb # "none"
      /\ regHist'.crossed = regHist.crossed /\ regHist'.preview = regHist.preview
      /\ (regHist.gap \/ Removes(s)) => regHist'.gap
      /\ regHist.lost => regHist'.lost
  BY DEF RegInv, TakenOver
<1>2. /\ \A t \in OpSlots : t # s => regOps'[t] = regOps[t]
      /\ regOps'[s].ans.res = "none"
  BY DEF TakenOver
<1>3. regHist'.surprised => (regHist'.gap \/ regHist'.crossed \/ regHist'.lost)
  <2> SUFFICES ASSUME regHist'.surprised, ~regHist'.gap, ~regHist'.crossed, ~regHist'.lost PROVE FALSE
    OBVIOUS
  <2>1. /\ tab = "challenges" /\ regOps[s].ans.res = "ok" /\ RequestOf(s) = "create"
        /\ regOps[s].arg = 0 /\ regOps[s].ans.row.octet # regHist.preview
    BY <1>1 DEF TakenOver, OctetInv
  <2>2. regOps[s].verb \in {"create", "import"} /\ regOps[s].step = 1
    BY <1>1, <2>1, Asked
  <2>3. regOps[s].verb = "create"
    BY <1>1, <2>1, <2>2 DEF RegTypes, RegWell, TabVerbs
  <2> QED
    BY <1>1, <2>1, <2>2, <2>3 DEF OctetInv
<1> SUFFICES ASSUME tab = "challenges", ~regHist'.gap, ~regHist'.crossed, ~regHist'.lost PROVE OctetInv'
  BY <1>1, <1>3 DEF OctetInv
<1>4. regOps'[s].verb = "create" => regOps'[s].step # 1
  BY DEF TakenOver, Continues, Ends
<1>5. \/ store.next - 1 \in DOMAIN table'.rows
      \/ \E t \in OpSlots : Got(t, "create", 1)' /\ regOps'[t].ans.id = store.next - 1
  BY <1>1, <1>2 DEF OctetInv, Got
<1> QED
  BY <1>1, <1>2, <1>3, <1>4, <1>5 DEF OctetInv

\* The jobs, when the answer is not a deployment's.
LEMMA TakenJobs ==
    ASSUME RegInv, NEW s \in OpSlots, TakenOver(s), table'.jobs = table.jobs, ~Got(s, "deploy", 2)
    PROVE  JobInv'
<1> SUFFICES ASSUME tab # "deployments", ~regHist.lost, ~regHist.crossed PROVE JobInv'
  BY DEF JobInv, TakenOver
<1>1. JobsShown /\ JobsComing /\ JobsAnswered
  BY DEF RegInv, JobInv
<1>2. \A t \in OpSlots : Got(t, "deploy", 2) <=> Got(t, "deploy", 2)'
  BY DEF TakenOver, Got
<1>3. \A t \in OpSlots : Got(t, "deploy", 2) => (t # s /\ regOps'[t] = regOps[t])
  BY DEF TakenOver, Got
<1>4. store' = store
  BY DEF TakenOver
<1>5. ASSUME NEW j \in DOMAIN table.jobs
      PROVE  Deploys(table.jobs[j].challenge)' <=> Deploys(table.jobs[j].challenge)
  BY <1>2, <1>3, <1>4 DEF Deploys
<1>6. JobsShown'
  BY <1>1, <1>4, <1>5 DEF JobsShown
<1>7. JobsComing'
  BY <1>1, <1>2, <1>3, <1>4 DEF JobsComing
<1>8. JobsAnswered'
  BY <1>1, <1>2, <1>3, <1>4 DEF JobsAnswered
<1> QED
  BY <1>6, <1>7, <1>8 DEF JobInv


\* The list of jobs of the deployments page.
LEMMA TakenList ==
    ASSUME RegInv, NEW s \in OpSlots, TakenOver(s),
           Removes(s) => /\ DOMAIN table'.jobs = DOMAIN table.jobs \ {regOps[s].id}
                         /\ \A j \in DOMAIN table'.jobs : table'.jobs[j] = table.jobs[j],
           Got(s, "reconcile", 2) => table'.jobs = regOps[s].ans.jobs,
           (~Removes(s) /\ ~Got(s, "reconcile", 2)) => table'.jobs = table.jobs
    PROVE  ListInv'
<1>1. /\ ListInv /\ IdInv /\ RegTypes /\ tab' = tab /\ store' = store /\ regOps[s].verb # "none"
      /\ regHist'.crossed = regHist.crossed /\ (regHist.lost => regHist'.lost)
      /\ regHist'.deleted = IF Removes(s) THEN regHist.deleted \union {regOps[s].id} ELSE regHist.deleted
  BY DEF RegInv, TakenOver
<1> SUFFICES ASSUME tab = "deployments" PROVE ListInv'
  BY <1>1 DEF ListInv
<1>2. /\ \A t \in OpSlots : t # s => regOps'[t] = regOps[t]
      /\ regOps'[s].ans.res = "none" /\ regOps[s].ans.res \in {"ok", "failed"}
  BY DEF TakenOver
<1>3. Removes(s) => Got(s, "delete", 1)
  BY <1>1, Asked DEF Removes, Got
<1>4. Got(s, "delete", 1) => Removes(s)
  BY <1>1, Requests DEF Removes, Got
<1>5. \A t \in OpSlots : Reconciled(t)' => Reconciled(t)
  BY <1>2 DEF Reconciled, TakenOver, Continues, Ends
<1>6. \A t \in OpSlots : Reconciled(t)' => \A j \in DOMAIN store'.jobs : store'.jobs[j].status # "queued"
  BY <1>1, <1>5 DEF ListInv
<1>7. ASSUME ~regHist.crossed
      PROVE  /\ \A t \in OpSlots : Got(t, "reconcile", 2)' => regOps'[t].ans.jobs = store'.jobs
             /\ \A j \in regHist'.deleted : j \notin DOMAIN table'.jobs
  <2>1. \A t \in OpSlots : Got(t, "reconcile", 2)' => regOps'[t].ans.jobs = store'.jobs
    BY <1>1, <1>2, <1>7 DEF ListInv, Got
  <2>2. CASE Removes(s)
    BY <1>1, <1>7, <2>1, <2>2 DEF ListInv
  <2>3. CASE Got(s, "reconcile", 2) /\ ~Removes(s)
    <3>1. table'.jobs = store.jobs
      BY <1>1, <1>7, <2>3 DEF ListInv
    <3> QED
      BY <1>1, <2>1, <2>3, <3>1 DEF IdInv
  <2>4. CASE ~Got(s, "reconcile", 2) /\ ~Removes(s)
    BY <1>1, <1>7, <2>1, <2>4 DEF ListInv
  <2> QED
    BY <2>2, <2>3, <2>4
<1>8. ASSUME ~regHist'.lost, ~regHist.crossed, \A t \in OpSlots : ~Reconciled(t)'
      PROVE  ListShown'
  <2>1. CASE Reconciled(s)
    <3>1. Ends(s)
      BY <1>8, <2>1 DEF TakenOver, Continues, Reconciled
    <3>2. regOps[s].step \in {1, 2} /\ regOps[s].verb = "reconcile" /\ LastStep("reconcile") = 2
      BY <1>1, <2>1 DEF Reconciled, RegTypes, RegWell, LastStep
    <3>3. RequestOf(s) # "validate"
      BY <1>1, <3>2, Asked
    <3>4. regOps[s].step = 2
      BY <2>1, <3>1, <3>2, <3>3 DEF Ends, Reconciled
    <3>5. regOps[s].ans.res = "ok"
      <4>1. RequestOf(s) = "list"
        BY <1>1, <3>2, <3>4, Requests
      <4> QED
        BY <1>8, <4>1 DEF TakenOver
    <3>6. Got(s, "reconcile", 2)
      BY <3>2, <3>4, <3>5 DEF Got
    <3>7. table'.jobs = store.jobs
      BY <1>1, <1>8, <3>6 DEF ListInv
    <3> QED
      BY <1>1, <3>7 DEF ListShown
  <2>2. CASE ~Reconciled(s)
    <3>1. \A t \in OpSlots : ~Reconciled(t)
      BY <1>2, <1>8, <2>2 DEF Reconciled
    <3>2. ListShown
      BY <1>1, <1>8, <3>1 DEF ListInv
    <3>3. ~Got(s, "reconcile", 2)
      BY <2>2 DEF Reconciled, Got
    <3>4. CASE Removes(s)
      <4>1. regOps[s].id \notin DOMAIN store.jobs
        BY <1>1, <1>3, <3>4 DEF IdInv
      <4> QED
        BY <1>1, <1>2, <3>2, <3>4, <4>1 DEF ListShown, Got
    <3>5. CASE ~Removes(s)
      <4>1. ~Got(s, "delete", 1) /\ table'.jobs = table.jobs
        BY <1>4, <3>3, <3>5
      <4> QED
        BY <1>1, <1>2, <3>2, <4>1 DEF ListShown, Got
    <3> QED
      BY <3>4, <3>5
  <2> QED
    BY <2>1, <2>2
<1> QED
  BY <1>1, <1>6, <1>7, <1>8 DEF ListInv


\* The page as the types describe it.
LEMMA TableTypes ==
    ASSUME RegInv
    PROVE  /\ table \in [rows : {table.rows}, inactive : {table.inactive}, jobs : {table.jobs},
                         checks : {table.checks}]
           /\ RowMap(table.rows, store.next) /\ JobMap(table.jobs, store.nextJob) /\ CheckMap(table.checks)
           /\ OneQueued(table.jobs) /\ RegTypes
BY DEF RegInv, RegTypes, QueueInv

\* Rows, validations and shown flags are replaced.
LEMMA TableSet ==
    ASSUME RegInv, NEW nrows, NEW nchecks, NEW flags
    PROVE  \A new \in {[table EXCEPT !.rows = nrows, !.checks = nchecks, !.inactive = flags]} :
             /\ new.rows = nrows /\ new.jobs = table.jobs /\ new.checks = nchecks /\ new.inactive = flags
             /\ new \in [rows : {new.rows}, inactive : {new.inactive}, jobs : {new.jobs}, checks : {new.checks}]
<1> DEFINE t1 == [table EXCEPT !.rows = nrows]
           t2 == [t1 EXCEPT !.checks = nchecks]
           t3 == [t2 EXCEPT !.inactive = flags]
<1>1. /\ t1.rows = nrows /\ t1.jobs = table.jobs
      /\ t1 \in [rows : {nrows}, inactive : {t1.inactive}, jobs : {table.jobs}, checks : {t1.checks}]
  BY TableTypes
<1> HIDE DEF t1
<1>2. /\ t2.rows = nrows /\ t2.jobs = table.jobs /\ t2.checks = nchecks
      /\ t2 \in [rows : {nrows}, inactive : {t2.inactive}, jobs : {table.jobs}, checks : {nchecks}]
  BY <1>1
<1> HIDE DEF t2
<1>3. /\ t3.rows = nrows /\ t3.jobs = table.jobs /\ t3.checks = nchecks /\ t3.inactive = flags
      /\ t3 \in [rows : {nrows}, inactive : {flags}, jobs : {table.jobs}, checks : {nchecks}]
  BY <1>2
<1>4. t3 = [table EXCEPT !.rows = nrows, !.checks = nchecks, !.inactive = flags]
  BY DEF t1, t2
<1> HIDE DEF t3
<1> QED
  BY <1>3, <1>4

\* Rows and shown flags are replaced.
LEMMA TableFlag ==
    ASSUME RegInv, NEW nrows, NEW flags
    PROVE  \A new \in {[table EXCEPT !.rows = nrows, !.inactive = flags]} :
             /\ new.rows = nrows /\ new.jobs = table.jobs /\ new.checks = table.checks /\ new.inactive = flags
             /\ new \in [rows : {new.rows}, inactive : {new.inactive}, jobs : {new.jobs}, checks : {new.checks}]
<1> DEFINE t1 == [table EXCEPT !.rows = nrows]
           t2 == [t1 EXCEPT !.inactive = flags]
<1>1. /\ t1.rows = nrows /\ t1.jobs = table.jobs /\ t1.checks = table.checks
      /\ t1 \in [rows : {nrows}, inactive : {t1.inactive}, jobs : {table.jobs}, checks : {table.checks}]
  BY TableTypes
<1> HIDE DEF t1
<1>2. /\ t2.rows = nrows /\ t2.jobs = table.jobs /\ t2.checks = table.checks /\ t2.inactive = flags
      /\ t2 \in [rows : {nrows}, inactive : {flags}, jobs : {table.jobs}, checks : {table.checks}]
  BY <1>1
<1>3. t2 = [table EXCEPT !.rows = nrows, !.inactive = flags]
  BY DEF t1
<1> HIDE DEF t2
<1> QED
  BY <1>2, <1>3

\* An answer that leaves the page as it is.
LEMMA TakenPlain ==
    ASSUME RegInv, NEW s \in OpSlots, TakenOver(s), table' = table,
           \/ regOps[s].ans.res # "ok" \/ regOps[s].verb = "import"
           \/ RequestOf(s) \in {"reconcile", "scoreboard"}
    PROVE  RegInv'
<1>1. /\ ~Got(s, "create", 1) /\ ~Got(s, "delete", 1) /\ ~Got(s, "update", 1) /\ ~Got(s, "active", 1)
      /\ ~Got(s, "deploy", 2) /\ ~Got(s, "reconcile", 2) /\ ~Removes(s)
  BY TableTypes, Asked, Requests DEF Got, Removes, TakenOver
<1>2. RegTypes'
  BY TableTypes, TakenTypes
<1>3. IdInv'
  BY <1>1, TakenIds
<1>4. QueueInv'
  BY TableTypes, TakenQueue
<1>5. RowInv'
  <2> SUFFICES ASSUME ~regHist'.lost, ~regHist'.crossed PROVE RowInv'
    BY DEF RowInv
  <2>1. ~regHist.lost /\ ~regHist.crossed
    BY DEF TakenOver
  <2>2. ChecksFit'
    BY <2>1 DEF RegInv, RowInv, ChecksFit
  <2> QED
    BY <1>1, <2>2, TakenRows
<1>6. JobInv'
  BY <1>1, TakenJobs
<1>7. ListInv'
  BY <1>1, TakenList
<1>8. OctetInv'
  BY <1>1, TakenOctet
<1> QED
  BY <1>2, <1>3, <1>4, <1>5, <1>6, <1>7, <1>8, TakenApart, TakenChecked DEF RegInv

\* The answer to a creation adds its row.
LEMMA TakenCreated ==
    ASSUME RegInv, NEW s \in OpSlots, TakenOver(s), Got(s, "create", 1),
           table' \in [rows : {table'.rows}, inactive : {table'.inactive}, jobs : {table'.jobs},
                       checks : {table'.checks}],
           table'.rows = Put(table.rows, regOps[s].ans.id, regOps[s].ans.row), table'.jobs = table.jobs,
           table'.checks = Without(table.checks, regOps[s].ans.id)
    PROVE  RegInv'
<1> DEFINE n == regOps[s].ans.id
           row == regOps[s].ans.row
           held == Put(table.rows, n, row)
           checks == Without(table.checks, n)
<1>1. /\ n \in Nat /\ row \in Rows /\ 1 <= n /\ n < store.next /\ n \notin DOMAIN table.rows
      /\ RowMap(table.rows, store.next) /\ CheckMap(table.checks)
  <2>1. AnswerShape(regOps[s].ans)
    BY DEF RegInv, RegTypes, RegWell
  <2>2. 1 <= n /\ n < store.next /\ n \notin DOMAIN table.rows
    BY DEF RegInv, IdInv, Made, Unseen
  <2> QED
    BY <2>1, <2>2, TableTypes DEF AnswerShape
<1>2. /\ ~Got(s, "delete", 1) /\ ~Got(s, "update", 1) /\ ~Got(s, "active", 1)
      /\ ~Got(s, "deploy", 2) /\ ~Got(s, "reconcile", 2) /\ ~Removes(s) /\ regOps[s].id = 0
  <2>1. RequestOf(s) = "create"
    BY TableTypes, Requests DEF Got, TakenOver
  <2> QED
    BY <2>1 DEF Got, Removes, RegInv, RegTypes, RegWell
<1> HIDE DEF n, row
<1>3. /\ DOMAIN held = DOMAIN table.rows \union {n} /\ held[n] = row
      /\ \A x \in DOMAIN table.rows : held[x] = table.rows[x]
      /\ RowMap(held, store.next)
  BY <1>1 DEF Put, RowMap
<1>4. /\ DOMAIN checks = DOMAIN table.checks \ {n} /\ CheckMap(checks)
      /\ \A x \in DOMAIN checks : checks[x] = table.checks[x]
  BY <1>1 DEF Without, CheckMap
<1>7. table'.rows = held /\ table'.jobs = table.jobs /\ table'.checks = checks
  BY DEF n, row
<1> HIDE DEF held, checks
<1>8. RegTypes'
  BY <1>3, <1>4, <1>7, TableTypes, TakenTypes
<1>9. IdInv'
  BY <1>2, <1>3, <1>7, TakenIds DEF n
<1>10. QueueInv'
  BY <1>7, TableTypes, TakenQueue
<1>11. RowInv'
  <2> SUFFICES ASSUME ~regHist'.lost, ~regHist'.crossed PROVE RowInv'
    BY DEF RowInv
  <2>1. ~regHist.lost /\ ~regHist.crossed
    BY DEF TakenOver
  <2>2. ChecksFit'
    BY <1>3, <1>4, <1>7, <2>1 DEF RegInv, RowInv, ChecksFit
  <2>3. regOps[s].id \notin DOMAIN table.rows
    BY <1>1, <1>2 DEF RowMap
  <2> QED
    BY <1>2, <1>3, <1>7, <2>2, <2>3, TakenRows DEF n, row
<1>12. JobInv'
  BY <1>2, <1>7, TakenJobs
<1>13. ListInv'
  BY <1>2, <1>7, TakenList
<1>14. OctetInv'
  BY <1>2, <1>3, <1>7, TakenOctet DEF n
<1> QED
  BY <1>8, <1>9, <1>10, <1>11, <1>12, <1>13, <1>14, TakenApart, TakenChecked DEF RegInv


\* The answer to a change replaces the row.
LEMMA TakenChanged ==
    ASSUME RegInv, NEW s \in OpSlots, TakenOver(s), Got(s, "update", 1) \/ Got(s, "active", 1),
           table' \in [rows : {table'.rows}, inactive : {table'.inactive}, jobs : {table'.jobs},
                       checks : {table'.checks}],
           table'.rows = ReplaceRow(table.rows, regOps[s].id, regOps[s].ans.row), table'.jobs = table.jobs,
           table'.checks = IF Got(s, "update", 1) THEN Without(table.checks, regOps[s].id) ELSE table.checks
    PROVE  RegInv'
<1> DEFINE id == regOps[s].id
           row == regOps[s].ans.row
<1>1. /\ row \in Rows /\ RowMap(table.rows, store.next) /\ CheckMap(table.checks)
  <2>1. AnswerShape(regOps[s].ans)
    BY DEF RegInv, RegTypes, RegWell
  <2> QED
    BY <2>1, TableTypes DEF AnswerShape
<1>2. /\ ~Got(s, "delete", 1) /\ ~Got(s, "create", 1) /\ ~Got(s, "deploy", 2) /\ ~Got(s, "reconcile", 2)
      /\ ~Removes(s)
  <2>1. RequestOf(s) \in {"update", "active"}
    BY TableTypes, Requests DEF Got, TakenOver
  <2> QED
    BY <2>1 DEF Got, Removes
<1> HIDE DEF id, row
<1>3. /\ DOMAIN table'.rows = DOMAIN table.rows /\ RowMap(table'.rows, store.next)
      /\ \A r \in DOMAIN table.rows : table'.rows[r] = IF r = id THEN row ELSE table.rows[r]
  <2>1. table'.rows = [r \in DOMAIN table.rows |-> IF r = id THEN row ELSE table.rows[r]]
    BY DEF ReplaceRow, id, row
  <2> QED
    BY <1>1, <2>1 DEF RowMap
<1>4. /\ CheckMap(table'.checks)
      /\ \A r \in DOMAIN table'.checks : r \in DOMAIN table.checks /\ table'.checks[r] = table.checks[r]
      /\ Got(s, "update", 1) => id \notin DOMAIN table'.checks
  BY <1>1 DEF CheckMap, Without, id
<1>5. RegTypes'
  BY <1>3, <1>4, TableTypes, TakenTypes
<1>6. IdInv'
  BY <1>2, <1>3, TakenIds
<1>7. QueueInv'
  BY TableTypes, TakenQueue
<1>8. RowInv'
  <2> SUFFICES ASSUME ~regHist'.lost, ~regHist'.crossed PROVE RowInv'
    BY DEF RowInv
  <2>1. ~regHist.lost /\ ~regHist.crossed
    BY DEF TakenOver
  <2>2. ChecksFit /\ VersionsAnswered /\ RowsAnswered
    BY <2>1 DEF RegInv, RowInv
  <2>3. ChecksFit'
    <3> SUFFICES ASSUME NEW r \in DOMAIN table'.checks, r \in DOMAIN table'.rows
                 PROVE  table'.checks[r].ver = table'.rows[r].ver
      BY DEF ChecksFit
    <3>1. CASE r = id
      <4>1. row.ver = table.rows[id].ver
        BY <1>3, <1>4, <2>2, <3>1 DEF VersionsAnswered, id, row
      <4> QED
        BY <1>3, <1>4, <2>2, <3>1, <4>1 DEF ChecksFit
    <3>2. CASE r # id
      BY <1>3, <1>4, <2>2, <3>2 DEF ChecksFit
    <3> QED
      BY <3>1, <3>2
  <2>4. id \in DOMAIN store.rows => store.rows[id] = row
    BY <2>2 DEF RowsAnswered, id, row
  <2> QED
    BY <1>2, <1>3, <2>3, <2>4, TakenRows DEF id
<1>9. JobInv'
  BY <1>2, TakenJobs
<1>10. ListInv'
  BY <1>2, TakenList
<1>11. OctetInv'
  BY <1>2, <1>3, TakenOctet
<1> QED
  BY <1>5, <1>6, <1>7, <1>8, <1>9, <1>10, <1>11, TakenApart, TakenChecked DEF RegInv

\* The answer to a deletion takes the row away.
LEMMA TakenRowGone ==
    ASSUME RegInv, NEW s \in OpSlots, TakenOver(s), Got(s, "delete", 1), tab # "deployments",
           table' = [table EXCEPT !.rows = Without(table.rows, regOps[s].id)]
    PROVE  RegInv'
<1> DEFINE held == Without(table.rows, regOps[s].id)
<1>1. /\ DOMAIN held = DOMAIN table.rows \ {regOps[s].id} /\ RowMap(held, store.next)
      /\ \A r \in DOMAIN held : held[r] = table.rows[r]
  BY TableTypes DEF RowMap, Without
<1> HIDE DEF held
<1>2. /\ table'.rows = held /\ table'.jobs = table.jobs /\ table'.checks = table.checks
      /\ table' \in [rows : {table'.rows}, inactive : {table'.inactive}, jobs : {table'.jobs},
                     checks : {table'.checks}]
  BY TableTypes DEF held
<1>3. /\ ~Got(s, "create", 1) /\ ~Got(s, "update", 1) /\ ~Got(s, "active", 1) /\ ~Got(s, "deploy", 2)
      /\ Removes(s)
  <2>1. RequestOf(s) = "delete"
    BY TableTypes, Requests DEF Got, TakenOver
  <2> QED
    BY <2>1 DEF Got, Removes
<1>4. RegTypes'
  BY <1>1, <1>2, TableTypes, TakenTypes
<1>5. IdInv'
  BY <1>1, <1>2, TakenIds
<1>6. QueueInv'
  BY <1>2, TableTypes, TakenQueue
<1>7. RowInv'
  <2> SUFFICES ASSUME ~regHist'.lost, ~regHist'.crossed PROVE RowInv'
    BY DEF RowInv
  <2>1. ~regHist.lost /\ ~regHist.crossed
    BY DEF TakenOver
  <2>2. ChecksFit'
    BY <1>1, <1>2, <2>1 DEF RegInv, RowInv, ChecksFit
  <2>3. regOps[s].id \notin DOMAIN store.rows
    BY DEF RegInv, IdInv
  <2> QED
    BY <1>1, <1>2, <1>3, <2>2, <2>3, TakenRows
<1>8. JobInv'
  BY <1>2, <1>3, TakenJobs
<1>9. ListInv'
  BY DEF TakenOver, ListInv
<1>10. OctetInv'
  BY <1>3, TakenOctet
<1> QED
  BY <1>4, <1>5, <1>6, <1>7, <1>8, <1>9, <1>10, TakenApart, TakenChecked DEF RegInv

\* The deployments page takes the job away, or shows the list it has read again.
LEMMA TakenJobList ==
    ASSUME RegInv, NEW s \in OpSlots, TakenOver(s), tab = "deployments", NEW jobs,
           \/ Got(s, "delete", 1) /\ jobs = Without(table.jobs, regOps[s].id)
           \/ Got(s, "reconcile", 2) /\ jobs = regOps[s].ans.jobs,
           table' = [table EXCEPT !.jobs = jobs]
    PROVE  RegInv'
<1>1. /\ table'.rows = table.rows /\ table'.jobs = jobs /\ table'.checks = table.checks
      /\ table' \in [rows : {table'.rows}, inactive : {table'.inactive}, jobs : {table'.jobs},
                     checks : {table'.checks}]
  BY TableTypes
<1>2. /\ ~Got(s, "create", 1) /\ ~Got(s, "update", 1) /\ ~Got(s, "active", 1) /\ ~Got(s, "deploy", 2)
      /\ Removes(s) <=> Got(s, "delete", 1)
  <2>1. RequestOf(s) = "delete" <=> Got(s, "delete", 1)
    BY TableTypes, Requests, Asked DEF Got, TakenOver
  <2> QED
    BY <2>1 DEF Got, Removes
<1>3. /\ JobMap(jobs, store.nextJob) /\ OneQueued(jobs)
      /\ Got(s, "delete", 1) => /\ DOMAIN jobs = DOMAIN table.jobs \ {regOps[s].id}
                                /\ \A j \in DOMAIN jobs : jobs[j] = table.jobs[j]
      /\ Got(s, "reconcile", 2) => jobs = regOps[s].ans.jobs
  <2>1. CASE Got(s, "delete", 1)
    <3>1. jobs = Without(table.jobs, regOps[s].id) /\ ~Got(s, "reconcile", 2)
      BY <2>1 DEF Got
    <3>2. /\ DOMAIN jobs = DOMAIN table.jobs \ {regOps[s].id} /\ JobMap(jobs, store.nextJob)
          /\ \A j \in DOMAIN jobs : jobs[j] = table.jobs[j]
      BY <3>1, TableTypes DEF JobMap, Without
    <3> QED
      BY <3>1, <3>2, TableTypes DEF OneQueued
  <2>2. CASE ~Got(s, "delete", 1)
    BY <2>2 DEF RegInv, RegTypes, RegWell, QueueInv
  <2> QED
    BY <2>1, <2>2
<1>4. RegTypes'
  BY <1>1, <1>3, TableTypes, TakenTypes
<1>5. IdInv'
  BY <1>1, <1>2, TakenIds
<1>6. QueueInv'
  BY <1>1, <1>3, TakenQueue
<1>7. RowInv'
  <2> SUFFICES ASSUME ~regHist'.lost, ~regHist'.crossed PROVE RowInv'
    BY DEF RowInv
  <2>1. ~regHist.lost /\ ~regHist.crossed
    BY DEF TakenOver
  <2>2. ChecksFit'
    BY <1>1, <2>1 DEF RegInv, RowInv, ChecksFit
  <2> QED
    BY <1>1, <1>2, <2>2, TakenRows
<1>8. JobInv'
  BY DEF TakenOver, JobInv
<1>9. ListInv'
  BY <1>1, <1>2, <1>3, TakenList
<1>10. OctetInv'
  BY <1>1, <1>2, TakenOctet
<1> QED
  BY <1>4, <1>5, <1>6, <1>7, <1>8, <1>9, <1>10, TakenApart, TakenChecked DEF RegInv

\* The answer to a validation is recorded.
LEMMA TakenVerdict ==
    ASSUME RegInv, NEW s \in OpSlots, TakenOver(s), Got(s, "validate", 1) \/ Got(s, "deploy", 1),
           table' = [table EXCEPT !.checks = Recorded(regOps[s].id, regOps[s].ans)]
    PROVE  RegInv'
<1> DEFINE id == regOps[s].id
           mark == [ver |-> regOps[s].ans.row.ver, valid |-> regOps[s].ans.valid]
           checks == Put(table.checks, id, mark)
<1>1. mark \in [ver : Nat, valid : BOOLEAN] /\ mark.ver = regOps[s].ans.row.ver
  <2>1. AnswerShape(regOps[s].ans)
    BY DEF RegInv, RegTypes, RegWell
  <2> QED
    BY <2>1 DEF AnswerShape, Rows
<1>2. /\ ~Got(s, "delete", 1) /\ ~Got(s, "create", 1) /\ ~Got(s, "update", 1) /\ ~Got(s, "active", 1)
      /\ ~Got(s, "deploy", 2) /\ ~Got(s, "reconcile", 2) /\ ~Removes(s)
  <2>1. RequestOf(s) = "validate"
    BY TableTypes, Requests DEF Got, TakenOver
  <2> QED
    BY <2>1 DEF Got, Removes
<1>3. table' = [table EXCEPT !.checks = checks]
  BY DEF Recorded
<1> HIDE DEF id, mark
<1>4. /\ DOMAIN checks = DOMAIN table.checks \union {id} /\ CheckMap(checks) /\ checks[id] = mark
      /\ \A x \in DOMAIN table.checks : x # id => checks[x] = table.checks[x]
  BY <1>1, TableTypes DEF Put, CheckMap
<1> HIDE DEF checks
<1>5. /\ table'.rows = table.rows /\ table'.jobs = table.jobs /\ table'.checks = checks
      /\ table' \in [rows : {table'.rows}, inactive : {table'.inactive}, jobs : {table'.jobs},
                     checks : {table'.checks}]
  BY <1>3, TableTypes
<1>6. RegTypes'
  BY <1>4, <1>5, TableTypes, TakenTypes
<1>7. IdInv'
  BY <1>2, <1>5, TakenIds
<1>8. QueueInv'
  BY <1>5, TableTypes, TakenQueue
<1>9. RowInv'
  <2> SUFFICES ASSUME ~regHist'.lost, ~regHist'.crossed PROVE RowInv'
    BY DEF RowInv
  <2>1. ~regHist.lost /\ ~regHist.crossed
    BY DEF TakenOver
  <2>2. ChecksFit /\ VersionsAnswered
    BY <2>1 DEF RegInv, RowInv
  <2>3. id \in DOMAIN table.rows => mark.ver = table.rows[id].ver
    BY <1>1, <2>2 DEF VersionsAnswered, id
  <2>4. ChecksFit'
    BY <1>4, <1>5, <2>2, <2>3 DEF ChecksFit
  <2> QED
    BY <1>2, <1>5, <2>4, TakenRows
<1>10. JobInv'
  BY <1>2, <1>5, TakenJobs
<1>11. ListInv'
  BY <1>2, <1>5, TakenList
<1>12. OctetInv'
  BY <1>2, <1>5, TakenOctet
<1> QED
  BY <1>6, <1>7, <1>8, <1>9, <1>10, <1>11, <1>12, TakenApart, TakenChecked DEF RegInv


\* The answer to a deployment publishes the row and puts its job in front.
LEMMA TakenDeployed ==
    ASSUME RegInv, NEW s \in OpSlots, TakenOver(s), Got(s, "deploy", 2),
           table' = AfterDeploy(regOps[s].id, regOps[s].ans.jobs)
    PROVE  RegInv'
<1> DEFINE id == regOps[s].id
           list == regOps[s].ans.jobs
           held == Published(table.rows, id)
           old == Superseded(table.jobs, id)
           job == [challenge |-> id, status |-> "queued"]
           jobs == IF list = <<>> THEN old ELSE Put(old, list[1], job)
           t1 == [table EXCEPT !.rows = held]
<1>1. /\ RowMap(table.rows, store.next) /\ CheckMap(table.checks) /\ JobMap(table.jobs, store.nextJob)
      /\ OneQueued(table.jobs) /\ store.nextJob \in Nat
      /\ table \in [rows : {table.rows}, inactive : {table.inactive}, jobs : {table.jobs},
                    checks : {table.checks}]
  BY TableTypes DEF RegTypes
<1>2. /\ ~Got(s, "delete", 1) /\ ~Got(s, "create", 1) /\ ~Got(s, "update", 1) /\ ~Got(s, "active", 1)
      /\ ~Got(s, "reconcile", 2) /\ ~Removes(s)
  <2>1. RequestOf(s) = "deploy"
    BY TableTypes, Requests DEF Got, TakenOver
  <2> QED
    BY <2>1 DEF Got, Removes
<1>3. /\ id \in Nat /\ tab # "deployments"
      /\ list = <<>> \/ \E n \in 1..(store.nextJob - 1) : list = Alone(n)
  BY DEF RegInv, RegTypes, RegWell, RegShape, Got, TabVerbs
<1>4. table' = [t1 EXCEPT !.jobs = jobs]
  BY DEF AfterDeploy
<1> HIDE DEF id, list
<1>5. /\ DOMAIN held = DOMAIN table.rows /\ RowMap(held, store.next)
      /\ \A r \in DOMAIN table.rows :
           /\ held[r] = IF r = id THEN InPublic(table.rows[r]) ELSE table.rows[r]
           /\ held[r].ver = table.rows[r].ver
  <2>1. DOMAIN held = DOMAIN table.rows /\ held = [r \in DOMAIN table.rows |-> held[r]]
        /\ \A r \in DOMAIN table.rows : held[r] = IF r = id THEN InPublic(table.rows[r]) ELSE table.rows[r]
    BY DEF Published, InPublic
  <2>2. \A row \in Rows : InPublic(row) \in Rows /\ InPublic(row).ver = row.ver
    BY DEF Rows, InPublic
  <2>3. \A r \in DOMAIN table.rows : table.rows[r] \in Rows /\ r \in Nat /\ 1 <= r /\ r < store.next
    BY <1>1 DEF RowMap
  <2> HIDE DEF held
  <2>4. \A r \in DOMAIN table.rows : held[r] \in Rows /\ held[r].ver = table.rows[r].ver
    BY <2>1, <2>2, <2>3
  <2> QED
    BY <2>1, <2>3, <2>4 DEF RowMap
<1>6. /\ DOMAIN old = DOMAIN table.jobs /\ JobMap(old, store.nextJob) /\ OneQueued(old)
      /\ \A j \in DOMAIN table.jobs :
            /\ old[j] = IF table.jobs[j].challenge = id /\ table.jobs[j].status = "queued"
                        THEN Outdated(table.jobs[j]) ELSE table.jobs[j]
            /\ old[j].challenge = table.jobs[j].challenge
            /\ old[j].status = "queued" => old[j].challenge # id
  BY <1>1, SupersededIs
<1> HIDE DEF held, old
<1>7. \/ list = <<>> /\ jobs = old
      \/ \E n \in 1..(store.nextJob - 1) : list = Alone(n) /\ list # <<>> /\ jobs = Put(old, n, job)
  <2>1. \A n : Alone(n) # <<>> /\ Alone(n)[1] = n
    BY DEF Alone
  <2> HIDE DEF job
  <2> QED
    BY <1>3, <2>1
<1>8. JobMap(jobs, store.nextJob) /\ OneQueued(jobs)
  <2>1. ASSUME NEW n \in 1..(store.nextJob - 1)
        PROVE  JobMap(Put(old, n, job), store.nextJob) /\ OneQueued(Put(old, n, job))
    BY <1>1, <1>3, <1>6, Enqueued
  <2> HIDE DEF jobs, job
  <2> QED
    BY <1>6, <1>7, <2>1
<1>9. t1.rows = held /\ t1.checks = table.checks /\ t1 \in [rows : {held}, inactive : {t1.inactive}, jobs : {table.jobs},
                                                            checks : {table.checks}]
  BY <1>1
<1> HIDE DEF t1, jobs
<1>10. /\ table'.rows = held /\ table'.jobs = jobs /\ table'.checks = table.checks
       /\ table' \in [rows : {table'.rows}, inactive : {table'.inactive}, jobs : {table'.jobs},
                      checks : {table'.checks}]
  BY <1>4, <1>9
<1>11. RegTypes'
  BY <1>1, <1>5, <1>8, <1>10, TakenTypes
<1>12. IdInv'
  BY <1>2, <1>5, <1>10, TakenIds
<1>13. QueueInv'
  BY <1>8, <1>10, TakenQueue
<1>14. RowInv'
  <2> SUFFICES ASSUME ~regHist'.lost, ~regHist'.crossed PROVE RowInv'
    BY DEF RowInv
  <2>1. ~regHist.lost /\ ~regHist.crossed
    BY DEF TakenOver
  <2>2. ChecksFit'
    BY <1>5, <1>10, <2>1 DEF RegInv, RowInv, ChecksFit
  <2>3. id \in DOMAIN store.rows \intersect DOMAIN table.rows => table'.rows[id] = store.rows[id]
    BY <1>5, <1>10, <2>1 DEF RegInv, RowInv, RowsPublished, id
  <2> QED
    BY <1>2, <1>5, <1>10, <2>2, <2>3, TakenRows DEF id
<1>15. JobInv'
  <2> SUFFICES ASSUME ~regHist'.lost, ~regHist'.crossed PROVE JobInv'
    BY DEF JobInv
  <2>1. ~regHist.lost /\ ~regHist.crossed /\ store' = store
    BY DEF TakenOver
  <2>2. JobsShown /\ JobsComing /\ JobsAnswered
    BY <1>3, <2>1 DEF RegInv, JobInv
  <2>3. /\ \A t \in OpSlots : t # s => regOps'[t] = regOps[t]
        /\ \A t \in OpSlots : regOps'[t].ans.res = "ok" => t # s
    BY DEF TakenOver
  <2>4. id # 0 /\ \A t \in OpSlots : (t # s /\ regOps[t].verb # "none") => regOps[t].id # id
    <3>1. id # 0
      BY <1>3 DEF RegInv, RegTypes, RegWell, Got, RowVerbs, id
    <3>2. regOps[s].verb # "none"
      BY DEF TakenOver
    <3> QED
      BY <2>1, <3>1, <3>2 DEF RegInv, ApartInv, id
  <2>5. /\ \A c : Deploys(c)' => (Deploys(c) /\ c # id)
        /\ \A c : (Deploys(c) /\ c # id) => Deploys(c)'
        /\ Deploys(id)
    BY <2>3, <2>4 DEF Deploys, Got, id
  \* The job the deployment made, if it made one.
  <2>6. ASSUME NEW n \in 1..(store.nextJob - 1), list = Alone(n)
        PROVE  /\ n \in DOMAIN store.jobs /\ n \notin DOMAIN table.jobs /\ store.jobs[n] = job
               /\ jobs = Put(old, n, job)
    <3>1. \A m : Alone(m) # <<>> /\ Alone(m)[1] = m
      BY DEF Alone
    <3>2. jobs = Put(old, n, job)
      <4> HIDE DEF job
      <4> QED
        BY <1>7, <2>6, <3>1
    <3> QED
      BY <2>2, <2>6, <3>2 DEF JobsAnswered, list, id
  <2>7. /\ \A j \in DOMAIN table.jobs : j \in DOMAIN jobs /\ jobs[j] = old[j]
        /\ \A j \in DOMAIN jobs : \/ j \in DOMAIN table.jobs
                                  \/ j \in 1..(store.nextJob - 1) /\ list = Alone(j) /\ jobs[j] = job
        /\ \A n \in 1..(store.nextJob - 1) : list = Alone(n) => n \in DOMAIN jobs
    <3> HIDE DEF job
    <3>1. CASE list = <<>> /\ jobs = old
      <4>1. \A n : Alone(n) # <<>>
        BY DEF Alone
      <4> QED
        BY <1>6, <3>1, <4>1
    <3>2. CASE \E n \in 1..(store.nextJob - 1) : list = Alone(n)
      <4>1. PICK n \in 1..(store.nextJob - 1) : list = Alone(n)
        BY <3>2
      <4>2. jobs = Put(old, n, job) /\ n \notin DOMAIN table.jobs
        BY <2>6, <4>1
      <4>3. /\ DOMAIN jobs = DOMAIN old \union {n} /\ jobs[n] = job
            /\ \A x \in DOMAIN old : x # n => jobs[x] = old[x]
        BY <4>2 DEF Put
      <4>4. \A m : Alone(m) = Alone(n) => m = n
        <5>1. \A m : Alone(m)[1] = m
          BY DEF Alone
        <5> QED
          BY <5>1
      <4> QED
        BY <1>6, <4>1, <4>2, <4>3, <4>4
    <3> QED
      BY <1>7, <3>1, <3>2
  <2>8. JobsShown'
    <3> SUFFICES ASSUME NEW j \in DOMAIN jobs
                 PROVE  /\ j \in DOMAIN store.jobs
                        /\ store.jobs[j] = IF jobs[j].status = "queued" /\ Deploys(table.jobs[j].challenge)'
                                           THEN Outdated(jobs[j]) ELSE jobs[j]
      BY <1>10, <2>1 DEF JobsShown
    <3>0. table'.jobs[j] = jobs[j]
      BY <1>10
    <3>1. CASE j \in DOMAIN table.jobs
      <4> DEFINE c == table.jobs[j].challenge
      <4>1. /\ j \in DOMAIN store.jobs
            /\ store.jobs[j] = IF table.jobs[j].status = "queued" /\ Deploys(c)
                               THEN Outdated(table.jobs[j]) ELSE table.jobs[j]
        BY <2>2, <3>1 DEF JobsShown
      <4>2. jobs[j] = old[j] /\ old[j].challenge = c
        BY <1>6, <2>7, <3>1
      <4>3. Deploys(table.jobs[j].challenge)' <=> (Deploys(c) /\ c # id)
        BY <2>3, <2>4, <3>0, <4>2 DEF Deploys, Got, id
      <4>4. table.jobs[j] \in Jobs
        BY <1>1, <3>1 DEF JobMap
      <4>5. Outdated(table.jobs[j]).status = "superseded"
        BY <4>4 DEF Jobs, Outdated
      <4>6. old[j] = IF c = id /\ table.jobs[j].status = "queued"
                     THEN Outdated(table.jobs[j]) ELSE table.jobs[j]
        BY <1>6, <3>1
      <4> HIDE DEF c
      <4> QED
        BY <2>5, <4>1, <4>2, <4>3, <4>5, <4>6
    <3>2. CASE j \in 1..(store.nextJob - 1) /\ list = Alone(j) /\ jobs[j] = job
      <4>1. j \in DOMAIN store.jobs /\ store.jobs[j] = job /\ job.challenge = id
        BY <2>6, <3>2
      <4>2. ~Deploys(table.jobs[j].challenge)'
        BY <2>3, <2>4, <3>0, <3>2, <4>1 DEF Deploys, Got, id
      <4> QED
        BY <3>2, <4>1, <4>2
    <3> QED
      BY <2>7, <3>1, <3>2
  <2>9. JobsComing'
    <3> SUFFICES ASSUME NEW j \in DOMAIN store.jobs, j \notin DOMAIN jobs
                 PROVE  \E t \in OpSlots : Got(t, "deploy", 2)' /\ regOps'[t].ans.jobs = Alone(j)
      BY <1>10, <2>1 DEF JobsComing
    <3>1. j \notin DOMAIN table.jobs /\ j \in 1..(store.nextJob - 1)
      BY <1>1, <2>7 DEF RegInv, RegTypes, JobMap
    <3>2. PICK t \in OpSlots : Got(t, "deploy", 2) /\ regOps[t].ans.jobs = Alone(j)
      BY <2>2, <3>1 DEF JobsComing
    <3>3. t # s
      BY <2>7, <3>1, <3>2 DEF list
    <3> QED
      BY <2>3, <3>2, <3>3 DEF Got
  <2>10. JobsAnswered'
    <3> SUFFICES ASSUME NEW t \in OpSlots, NEW n \in 1..(store.nextJob - 1),
                        Got(t, "deploy", 2)', regOps'[t].ans.jobs = Alone(n)
                 PROVE  /\ n \in DOMAIN store.jobs /\ n \notin DOMAIN jobs
                        /\ store.jobs[n] = [challenge |-> regOps'[t].id, status |-> "queued"]
      BY <1>10, <2>1 DEF JobsAnswered
    <3>1. t # s /\ regOps'[t] = regOps[t] /\ Got(t, "deploy", 2)
      BY <2>3 DEF Got
    <3>2. /\ n \in DOMAIN store.jobs /\ n \notin DOMAIN table.jobs
          /\ store.jobs[n] = [challenge |-> regOps[t].id, status |-> "queued"]
      BY <2>2, <3>1 DEF JobsAnswered
    <3>3. store.jobs[n].challenge # id
      BY <2>4, <3>1, <3>2 DEF Got
    <3>4. list # Alone(n)
      BY <2>6, <3>3
    <3> QED
      BY <2>7, <3>1, <3>2, <3>4
  <2> QED
    BY <2>8, <2>9, <2>10 DEF JobInv
<1>16. ListInv'
  BY <1>3 DEF TakenOver, ListInv
<1>17. OctetInv'
  BY <1>2, <1>5, <1>10, TakenOctet
<1> QED
  BY <1>11, <1>12, <1>13, <1>14, <1>15, <1>16, <1>17, TakenApart, TakenChecked DEF RegInv


\* Whatever the answer is.
LEMMA AnswerTaken ==
    ASSUME RegInv, NEW s \in OpSlots, Answer(s)
    PROVE  RegInv'
<1> DEFINE op == regOps[s]
           req == RequestOf(s)
<1>1. /\ TakenOver(s)
      /\ table' = IF op.ans.res = "ok" THEN AfterAnswer(op, req) ELSE table
  BY Answering
<1>2. RegTypes /\ op.verb # "none"
  BY <1>1 DEF RegInv, TakenOver
<1>3. CASE op.ans.res # "ok"
  BY <1>1, <1>3, TakenPlain
<1>4. CASE op.ans.res = "ok" /\ req = "create"
  <2>1. op.verb \in {"create", "import"} /\ op.step = 1
    BY <1>2, <1>4, Asked
  <2>2. CASE op.verb = "create"
    <3> DEFINE held == Put(table.rows, op.ans.id, op.ans.row)
               checks == Without(table.checks, op.ans.id)
               flags == Marked(table.inactive, op.ans.id, op.ans.inactive)
    <3>1. table' = [table EXCEPT !.rows = held, !.checks = checks, !.inactive = flags]
      BY <1>1, <1>4, <2>2 DEF AfterAnswer
    <3> HIDE DEF held, checks, flags
    <3>2. /\ table'.rows = held /\ table'.jobs = table.jobs /\ table'.checks = checks
          /\ table' \in [rows : {table'.rows}, inactive : {table'.inactive}, jobs : {table'.jobs},
                         checks : {table'.checks}]
      BY <3>1, TableSet
    <3> QED
      BY <1>1, <1>4, <2>1, <2>2, <3>2, TakenCreated DEF Got, held, checks
  <2>3. CASE op.verb = "import"
    <3>1. table' = table
      BY <1>1, <1>4, <2>3 DEF AfterAnswer
    <3> QED
      BY <1>1, <2>3, <3>1, TakenPlain
  <2> QED
    BY <2>1, <2>2, <2>3
<1>5. CASE op.ans.res = "ok" /\ req = "update"
  <2>1. Got(s, "update", 1)
    BY <1>2, <1>5, Asked DEF Got
  <2> DEFINE held == ReplaceRow(table.rows, op.id, op.ans.row)
             checks == Without(table.checks, op.id)
             flags == Marked(table.inactive, op.id, op.ans.inactive)
  <2>2. table' = [table EXCEPT !.rows = held, !.checks = checks, !.inactive = flags]
    BY <1>1, <1>5 DEF AfterAnswer, Dropped
  <2> HIDE DEF held, checks, flags
  <2>4. /\ table'.rows = held /\ table'.jobs = table.jobs /\ table'.checks = checks
        /\ table' \in [rows : {table'.rows}, inactive : {table'.inactive}, jobs : {table'.jobs},
                       checks : {table'.checks}]
    BY <2>2, TableSet
  <2> QED
    BY <1>1, <2>1, <2>4, TakenChanged DEF held, checks
<1>6. CASE op.ans.res = "ok" /\ req = "active"
  <2>1. Got(s, "active", 1) /\ ~Got(s, "update", 1)
    BY <1>2, <1>6, Asked DEF Got
  <2> DEFINE held == ReplaceRow(table.rows, op.id, op.ans.row)
             flags == Marked(table.inactive, op.id, op.ans.inactive)
  <2>2. table' = [table EXCEPT !.rows = held, !.inactive = flags]
    BY <1>1, <1>6 DEF AfterAnswer
  <2> HIDE DEF held, flags
  <2>3. /\ table'.rows = held /\ table'.jobs = table.jobs /\ table'.checks = table.checks
        /\ table' \in [rows : {table'.rows}, inactive : {table'.inactive}, jobs : {table'.jobs},
                       checks : {table'.checks}]
    BY <2>2, TableFlag
  <2> QED
    BY <1>1, <2>1, <2>3, TakenChanged DEF held
<1>7. CASE op.ans.res = "ok" /\ req = "delete"
  <2>1. Got(s, "delete", 1)
    BY <1>2, <1>7, Asked DEF Got
  <2>2. CASE tab # "deployments"
    <3>1. table' = [table EXCEPT !.rows = Without(table.rows, op.id)]
      BY <1>1, <1>7, <2>2 DEF AfterAnswer
    <3> QED
      BY <1>1, <2>1, <2>2, <3>1, TakenRowGone
  <2>3. CASE tab = "deployments"
    <3> DEFINE jobs == Without(table.jobs, op.id)
    <3>1. table' = [table EXCEPT !.jobs = jobs]
      BY <1>1, <1>7, <2>3 DEF AfterAnswer
    <3>2. jobs = Without(table.jobs, regOps[s].id)
      OBVIOUS
    <3> HIDE DEF jobs
    <3> QED
      BY <1>1, <2>1, <2>3, <3>1, <3>2, TakenJobList
  <2> QED
    BY <2>2, <2>3
<1>8. CASE op.ans.res = "ok" /\ req = "validate"
  <2>1. Got(s, "validate", 1) \/ Got(s, "deploy", 1)
    BY <1>2, <1>8, Asked DEF Got
  <2>2. table' = [table EXCEPT !.checks = Recorded(op.id, op.ans)]
    BY <1>1, <1>8 DEF AfterAnswer
  <2> QED
    BY <1>1, <2>1, <2>2, TakenVerdict
<1>9. CASE op.ans.res = "ok" /\ req = "deploy"
  <2>1. Got(s, "deploy", 2)
    BY <1>2, <1>9, Asked DEF Got
  <2>2. table' = AfterDeploy(op.id, op.ans.jobs)
    BY <1>1, <1>9 DEF AfterAnswer
  <2> QED
    BY <1>1, <2>1, <2>2, TakenDeployed
<1>10. CASE op.ans.res = "ok" /\ req = "list"
  <2>1. Got(s, "reconcile", 2) /\ tab = "deployments"
    BY <1>2, <1>10, Asked DEF Got, RegTypes, RegWell, TabVerbs
  <2>2. table' = [table EXCEPT !.jobs = op.ans.jobs]
    BY <1>1, <1>10 DEF AfterAnswer
  <2> QED
    BY <1>1, <2>1, <2>2, TakenJobList
<1>11. CASE op.ans.res = "ok" /\ req \in {"reconcile", "scoreboard"}
  <2>1. table' = table
    BY <1>1, <1>11 DEF AfterAnswer
  <2> QED
    BY <1>1, <1>11, <2>1, TakenPlain
<1> QED
  BY <1>2, <1>3, <1>4, <1>5, <1>6, <1>7, <1>8, <1>9, <1>10, <1>11, Asked


\* Steps of the other parts leave the registry alone.
LEMMA RegistryUnchanged ==
    ASSUME RegInv, UNCHANGED registryVars
    PROVE  RegInv'
<1>1. /\ UNCHANGED <<tab, store, table, regPending, regOps, regLeft, regHist>>
      /\ form' = form /\ target' = target
  BY DEF registryVars
<1>2. \A s \in OpSlots : Got(s, "create", 1) =>
          (regOps[s].ans.id # form.id /\ regOps[s].ans.id # target)
  BY DEF RegInv, IdInv, Unseen, Made
<1>3. /\ form \in [mode : {"closed", "create", "edit"}, id : Nat, complete : BOOLEAN]
      /\ form.id < store.next /\ (form.mode = "edit" => form.id >= 1) /\ (form.mode = "closed" => form = NoForm)
      /\ form # NoForm => (target = 0 /\ tab # "deployments")
      /\ target \in Nat /\ target < Limit
  BY DEF RegInv, RegTypes
<1>4. \A s \in OpSlots : Made(s) => (regOps[s].ans.id # form.id /\ regOps[s].ans.id # target)
  BY DEF RegInv, IdInv, Unseen
<1> QED
  BY <1>1, <1>2, <1>3, <1>4, DialogStep

\* Every step of the pages preserves the invariant of the registry.
LEMMA RegistryInside ==
    ASSUME RegInv, [Next]_<<consoleVars, cardVars, registryVars>>
    PROVE  RegInv'
<1>1. RegistryNext \/ UNCHANGED registryVars
  BY DEF Next
<1>2. CASE RegistryNext
  <2>1. CASE \/ OpenCreateDialog \/ OpenEditDialog \/ CloseFormDialog
             \/ TypeTeamDraft \/ TypePlayerDraft \/ TypeChallengeDraft
             \/ SelectDeleteTarget \/ CloseDeleteDialog
    BY <2>1, Dialogs
  <2>2. ASSUME NEW s \in OpSlots,
               \/ SubmitForm(s) \/ ConfirmDelete(s) \/ ClickRow(s)
               \/ ImportTeams(s) \/ ReconcileJobs(s)
               \/ StoreCreate(s) \/ StoreCreateTaken(s) \/ StoreUpdate(s) \/ StoreDelete(s) \/ StoreSetActive(s)
               \/ StoreValidate(s) \/ StoreDeploy(s) \/ StoreReconcile(s) \/ StoreList(s)
               \/ StoreScoreboard(s) \/ StoreRefuses(s)
               \/ Answer(s)
        PROVE  RegInv'
    <3>1. CASE SubmitForm(s) \/ ConfirmDelete(s) \/ ClickRow(s) \/ ImportTeams(s) \/ ReconcileJobs(s)
      BY <3>1, Begins
    <3>2. CASE StoreCreate(s) \/ StoreCreateTaken(s) \/ StoreUpdate(s) \/ StoreSetActive(s) \/ StoreDelete(s)
      BY <3>2, Created, CreationRefused, Changed, RowDeleted, JobDeleted
    <3>3. CASE StoreDeploy(s) \/ StoreReconcile(s)
      BY <3>3, Deployed, JobsCompleted
    <3>4. CASE StoreValidate(s) \/ StoreList(s) \/ StoreScoreboard(s) \/ StoreRefuses(s)
      BY <3>4, Inspected
    <3>5. CASE Answer(s)
      BY <3>5, AnswerTaken
    <3> QED
      BY <2>2, <3>1, <3>2, <3>3, <3>4, <3>5
  <2> QED
    BY <1>2, <2>1, <2>2 DEF RegistryNext
<1>3. CASE UNCHANGED registryVars
  BY <1>3, RegistryUnchanged
<1> QED
  BY <1>1, <1>2, <1>3

\* A registry that is opened satisfies the invariant.
LEMMA RegistryInit == ASSUME NEW open, RegistryStart(open) PROVE RegInv
<1>1. /\ tab \in Tabs \union {"none"} /\ form = NoForm /\ target = 0 /\ regPending = Idle
      /\ regHist = [lost |-> FALSE, crossed |-> FALSE, gap |-> FALSE, deleted |-> {}, untold |-> {},
                    unvalidated |-> FALSE, preview |-> 0, surprised |-> FALSE]
  BY DEF RegistryStart
<1>2. PICK teams \in {0, 1} :
        store = [rows |-> [r \in {1, 2} |-> [ver |-> 1, published |-> r = 1, octet |-> r]],
                 inactive |-> {},
                 jobs |-> IF teams = 0 THEN <<>> ELSE <<[challenge |-> 1, status |-> "queued"]>>,
                 next |-> 3, nextJob |-> 2, teams |-> teams]
  BY DEF RegistryStart
<1>3. table = [rows |-> store.rows, inactive |-> {}, jobs |-> store.jobs, checks |-> <<>>]
  BY DEF RegistryStart
<1>4. PICK under \in {0, 1} :
        /\ under = 1 => tab = "teams"
        /\ regOps = [s \in OpSlots |-> IF s = under
                       THEN [NoOp EXCEPT !.verb = "active", !.id = 1, !.arg = FALSE, !.step = 1] ELSE NoOp]
  <2>1. \E under \in IF tab = "teams" THEN {0, 1} ELSE {0} :
         regOps = [s \in OpSlots |-> IF s = under
                     THEN [NoOp EXCEPT !.verb = "active", !.id = 1, !.arg = FALSE, !.step = 1] ELSE NoOp]
    BY DEF RegistryStart
  <2> QED
    BY <2>1
<1>5. regLeft \in Nat
  BY RegistryAssumption DEF RegistryStart
<1>6. /\ store.rows = [r \in {1, 2} |-> [ver |-> 1, published |-> r = 1, octet |-> r]]
      /\ store.next = 3 /\ store.nextJob = 2 /\ store.teams \in {0, 1}
      /\ store.jobs = IF teams = 0 THEN <<>> ELSE <<[challenge |-> 1, status |-> "queued"]>>
      /\ store \in [rows : {store.rows}, inactive : {store.inactive}, jobs : {store.jobs},
                    next : Nat, nextJob : Nat, teams : {0, 1}]
  BY <1>2
<1>7. RowMap(store.rows, store.next) /\ DOMAIN store.rows = {1, 2}
  BY <1>6 DEF RowMap, Rows
<1>8. JobMap(store.jobs, store.nextJob) /\ OneQueued(store.jobs)
  <2>1. CASE teams = 0
    BY <1>6, <2>1 DEF JobMap, OneQueued
  <2>2. CASE teams # 0
    <3>1. store.jobs = <<[challenge |-> 1, status |-> "queued"]>>
      BY <1>6, <2>2
    <3>2. DOMAIN store.jobs = {1} /\ store.jobs[1] = [challenge |-> 1, status |-> "queued"]
      BY <3>1
    <3>3. store.jobs = [j \in DOMAIN store.jobs |-> store.jobs[j]]
      BY <3>1
    <3> QED
      BY <1>6, <3>2, <3>3 DEF JobMap, OneQueued, Jobs
  <2> QED
    BY <2>1, <2>2
<1>9. /\ table.rows = store.rows /\ table.jobs = store.jobs /\ table.checks = <<>>
      /\ table \in [rows : {table.rows}, inactive : {table.inactive}, jobs : {table.jobs},
                    checks : {table.checks}]
      /\ CheckMap(table.checks) /\ DOMAIN table.checks = {}
  BY <1>3 DEF CheckMap
<1> DEFINE n1 == [NoOp EXCEPT !.verb = "active"]
           n2 == [n1 EXCEPT !.id = 1]
           n3 == [n2 EXCEPT !.arg = FALSE]
           first == [n3 EXCEPT !.step = 1]
<1>10. /\ RegShape(NoOp) /\ NoOp.verb = "none" /\ NoOp.id = 0 /\ NoOp.ans = NoAnswer
       /\ AnswerShape(NoAnswer) /\ NoAnswer.res = "none"
  BY AnswerEmpty DEF NoOp, RegShape, NoAnswer
<1>11. n1 = [verb |-> "active", id |-> 0, arg |-> 0, step |-> 0, checked |-> 0, ans |-> NoAnswer]
  BY DEF NoOp
<1>12. n2 = [verb |-> "active", id |-> 1, arg |-> 0, step |-> 0, checked |-> 0, ans |-> NoAnswer]
  <2> HIDE DEF n1
  <2> QED
    BY <1>11
<1>13. RegShape(n3) /\ n3.verb = "active" /\ n3.id = 1 /\ n3.arg = FALSE /\ n3.ans = NoAnswer
  <2>1. RegShape(n2) /\ n2.verb = "active" /\ n2.id = 1 /\ n2.ans = NoAnswer
    <3> HIDE DEF n2
    <3>1. "active" \in Verbs \union {"none"} /\ AnswerShape(NoAnswer)
      BY <1>10 DEF Verbs
    <3>2. n2.verb = "active" /\ n2.id = 1 /\ n2.arg = 0 /\ n2.ans = NoAnswer
      BY <1>12
    <3>3. NoAnswer.res \in {"none", "ok", "failed"}
      BY <1>10
    <3> QED
      BY <1>12, <3>1, <3>2, <3>3 DEF RegShape
  <2> HIDE DEF n2
  <2> QED
    BY <2>1 DEF RegShape
<1>14. RegShape(first) /\ first.verb = "active" /\ first.id = 1 /\ first.arg = FALSE /\ first.ans = NoAnswer /\ first.step = 1
  <2> HIDE DEF n3
  <2> QED
    BY <1>13 DEF RegShape
<1> HIDE DEF first
<1>15. /\ regOps = [s \in OpSlots |-> regOps[s]]
       /\ \A s \in OpSlots : regOps[s] = NoOp \/ (s = 1 /\ tab = "teams" /\ regOps[s] = first)
  <2>1. regOps = [s \in OpSlots |-> IF s = under THEN first ELSE NoOp]
    BY <1>4, Zenon DEF first
  <2>2. \A s \in OpSlots : s = under => (s = 1 /\ tab = "teams")
    BY <1>4 DEF OpSlots
  <2>3. \A s \in OpSlots : regOps[s] = IF s = under THEN first ELSE NoOp
    BY <2>1
  <2> QED
    BY <2>1, <2>2, <2>3
<1>16. \A s \in OpSlots : regOps[s].ans.res = "none"
  BY <1>10, <1>14, <1>15
<1>17. ASSUME NEW s \in OpSlots PROVE RegWell(s)
  <2>1. CASE regOps[s] = NoOp
    BY <1>10, <2>1 DEF RegWell, Got, RowVerbs
  <2>2. CASE s = 1 /\ tab = "teams" /\ regOps[s] = first
    <3>1. /\ RegShape(regOps[s]) /\ AnswerShape(regOps[s].ans) /\ regOps[s].verb = "active" /\ regOps[s].id = 1
          /\ regOps[s].arg = FALSE /\ regOps[s].step = 1 /\ regOps[s].ans.res = "none"
      BY <1>10, <1>14, <2>2
    <3>2. "active" \in TabVerbs /\ 1 <= LastStep("active") /\ 1 < Limit
      BY <1>6, <2>2 DEF TabVerbs, LastStep, Limit
    <3>3. regOps[s].arg \in BOOLEAN
      BY <3>1
    <3> HIDE <2>2
    <3> QED
      BY <3>1, <3>2, <3>3 DEF RegWell, Got, RowVerbs
  <2> QED
    BY <1>15, <2>1, <2>2
<1>18. HistShape(regHist) /\ regHist.deleted = {} /\ ~regHist.unvalidated /\ ~regHist.surprised
  BY <1>1 DEF HistShape
<1>19. RegTypes
  <2>1. /\ form \in [mode : {"closed", "create", "edit"}, id : Nat, complete : BOOLEAN]
        /\ form.id = 0 /\ form.mode = "closed"
    BY <1>1 DEF NoForm
  <2>2. regPending.verb \in Verbs \union {"none"}
    BY <1>1 DEF Idle
  <2>3. target \in Nat /\ target < Limit
    BY <1>1, <1>6 DEF Limit
  <2> QED
    BY <1>1, <1>5, <1>6, <1>7, <1>8, <1>9, <1>15, <1>17, <1>18, <2>1, <2>2, <2>3 DEF RegTypes
<1>20. IdInv
  BY <1>16, <1>18 DEF IdInv, Made, Got
<1>21. ApartInv
  BY <1>10, <1>15 DEF ApartInv
<1>22. QueueInv
  BY <1>8, <1>9, <1>16 DEF QueueInv, Got
<1>23. CheckedInv
  BY <1>10, <1>14, <1>15, <1>16, <1>18 DEF CheckedInv, Got
<1>24. RowInv
  BY <1>9, <1>16 DEF RowInv, RowsComing, RowsGoing, RowsAnswered, RowsPublished, VersionsAnswered, ChecksFit,
     RowAgrees, Got
<1>25. JobInv
  BY <1>9, <1>16 DEF JobInv, JobsShown, JobsComing, JobsAnswered, Deploys, Got
<1>26. ListInv
  BY <1>9, <1>10, <1>14, <1>15, <1>16, <1>18 DEF ListInv, ListShown, Reconciled, Got
<1>27. OctetInv
  <2>1. store.next - 1 \in DOMAIN table.rows
    BY <1>6, <1>7, <1>9
  <2>2. \A s \in OpSlots : regOps[s].verb # "create"
    BY <1>10, <1>14, <1>15
  <2> QED
    BY <1>18, <2>1, <2>2 DEF OctetInv
<1> QED
  BY <1>19, <1>20, <1>21, <1>22, <1>23, <1>24, <1>25, <1>26, <1>27 DEF RegInv


\* The registries' inductive invariant: what is on its way between the page and the
\* api-gateway's store accounts for every difference between the two.
THEOREM RegInvHolds == Spec => []RegInv
<1>1. Init => RegInv
  <2>1. ASSUME Init PROVE RegInv
    <3>1. PICK part \in {"console", "card", "registry"} : RegistryStart(part = "registry")
      BY <2>1 DEF Init
    <3> DEFINE open == part = "registry"
    <3>2. RegistryStart(open)
      BY <3>1
    <3> HIDE DEF open
    <3> QED
      BY <3>2, RegistryInit
  <2> QED
    BY <2>1
<1>2. RegInv /\ [Next]_<<consoleVars, cardVars, registryVars>> => RegInv'
  BY RegistryInside
<1> QED
  BY <1>1, <1>2, PTL DEF Spec

-----------------------------------------------------------------------------
(* Which rows are shown inactive, given the invariant of the registry.     *)

FlagsShown ==
    \A r \in DOMAIN store.rows \intersect DOMAIN table.rows :
        FlagFits(r) \/ \E s \in OpSlots : Got(s, "active", 1) /\ regOps[s].id = r

\* What the answers on their way tell is so, or is exempt.
FlagAnswered(s) ==
    /\ Got(s, "active", 1) => (regOps[s].ans.inactive <=> regOps[s].id \in store.inactive)
    /\ Got(s, "update", 1) => AnswerFits(regOps[s].ans.inactive, regOps[s].id, "update")
    /\ Got(s, "create", 1) => AnswerFits(regOps[s].ans.inactive, regOps[s].ans.id, "create")

FlagInv ==
    /\ \A r \in store.inactive : r \in Nat /\ r < store.next
    /\ (~regHist.lost /\ ~regHist.crossed) => (FlagsShown /\ \A s \in OpSlots : FlagAnswered(s))

\* A step that neither gives nor takes an answer.
LEMMA FlagsFramed ==
    ASSUME FlagInv, UNCHANGED <<tab, store, table>>, regHist'.untold = regHist.untold,
           regHist.lost => regHist'.lost, regHist.crossed => regHist'.crossed,
           \A t \in OpSlots : (regOps[t].ans.res = "ok" \/ regOps'[t].ans.res = "ok") => regOps'[t] = regOps[t]
    PROVE  FlagInv'
<1>1. \A r \in store'.inactive : r \in Nat /\ r < store'.next
  BY DEF FlagInv
<1> SUFFICES ASSUME ~regHist'.lost, ~regHist'.crossed
             PROVE  FlagsShown' /\ \A s \in OpSlots : FlagAnswered(s)'
  BY <1>1 DEF FlagInv
<1>2. FlagsShown /\ \A s \in OpSlots : FlagAnswered(s)
  BY DEF FlagInv
<1>3. FlagsShown'
  <2> SUFFICES ASSUME NEW r \in DOMAIN store.rows \intersect DOMAIN table.rows
               PROVE  FlagFits(r)' \/ \E s \in OpSlots : Got(s, "active", 1)' /\ regOps'[s].id = r
    BY DEF FlagsShown
  <2>1. CASE FlagFits(r)
    BY <2>1 DEF FlagFits
  <2>2. CASE ~FlagFits(r)
    <3>1. PICK t \in OpSlots : Got(t, "active", 1) /\ regOps[t].id = r
      BY <1>2, <2>2 DEF FlagsShown
    <3>2. regOps'[t] = regOps[t]
      BY <3>1 DEF Got
    <3> QED
      BY <3>1, <3>2 DEF Got
  <2> QED
    BY <2>1, <2>2
<1>4. ASSUME NEW t \in OpSlots PROVE FlagAnswered(t)'
  <2>1. CASE regOps'[t].ans.res = "ok"
    <3>1. regOps'[t] = regOps[t] /\ FlagAnswered(t)
      BY <1>2, <2>1
    <3> QED
      BY <3>1 DEF FlagAnswered, Got, AnswerFits, FlagUntold
  <2>2. CASE regOps'[t].ans.res # "ok"
    BY <2>2 DEF FlagAnswered, Got
  <2> QED
    BY <2>1, <2>2
<1> QED
  BY <1>3, <1>4

\* What the organizer starts gives no answer and takes none.
LEMMA Started ==
    ASSUME RegInv, FlagInv, NEW s \in OpSlots,
           \/ SubmitForm(s) \/ ConfirmDelete(s) \/ ClickRow(s) \/ ImportTeams(s) \/ ReconcileJobs(s)
    PROVE  FlagInv'
<1>1. /\ form \in [mode : {"closed", "create", "edit"}, id : Nat, complete : BOOLEAN] /\ target \in Nat
      /\ \A r \in DOMAIN table.rows : r \in Nat
      /\ \A t \in OpSlots : regOps[t].verb = "none" => regOps[t].ans.res = "none"
  BY DEF RegInv, RegTypes, RowMap, RegWell
<1>2. ASSUME NEW verb \in Verbs, NEW id \in Nat, NEW arg, BeginOp(s, verb, id, arg)
      PROVE  FlagInv'
  <2>1. /\ regOps[s].verb = "none" /\ regOps'[s].ans.res = "none"
        /\ \A t \in OpSlots : t # s => regOps'[t] = regOps[t]
        /\ regHist'.lost = regHist.lost /\ regHist'.untold = regHist.untold
        /\ regHist.crossed => regHist'.crossed
        /\ UNCHANGED <<tab, store, table>>
    BY <1>2, Begun
  <2> QED
    BY <1>1, <2>1, FlagsFramed
<1>3. {"create", "update", "delete", "active", "validate", "deploy", "import", "reconcile"} \subseteq Verbs
  BY DEF Verbs
<1>4. CASE SubmitForm(s)
  <2>1. \E verb \in {"create", "update"}, id \in {0, form.id} : \E arg : BeginOp(s, verb, id, arg)
    BY <1>4 DEF SubmitForm, CreateTeam, CreatePlayer, CreateChallenge, UpdateTeam, UpdatePlayer, UpdateChallenge
  <2> QED
    BY <1>1, <1>2, <1>3, <2>1
<1>5. CASE ConfirmDelete(s)
  <2>1. \/ BeginOp(s, "delete", target, 0)
        \/ UNCHANGED <<tab, store, table, regPending, regOps, regLeft, regHist>>
    BY <1>5 DEF ConfirmDelete, DeleteTeam, DeletePlayer, DeleteChallenge, DeleteDeployment
  <2>2. CASE UNCHANGED <<tab, store, table, regPending, regOps, regLeft, regHist>>
    BY <2>2, FlagsFramed
  <2> QED
    BY <1>1, <1>2, <1>3, <2>1, <2>2
<1>6. CASE ClickRow(s)
  <2>1. PICK r \in DOMAIN table.rows :
          \/ BeginOp(s, "active", r, r \in table.inactive)
          \/ BeginOp(s, "validate", r, 0) \/ BeginOp(s, "deploy", r, 0)
    BY <1>6 DEF ClickRow, TeamRow, PlayerRow, ChallengeRow, SetTeamActiveState,
       SetPlayerActiveState, SetChallengeMaintenanceState, ValidateChallenge, DeployChallenge
  <2> DEFINE flag == r \in table.inactive
  <2>2. BeginOp(s, "active", r, flag) \/ BeginOp(s, "validate", r, 0) \/ BeginOp(s, "deploy", r, 0)
    BY <2>1
  <2> HIDE DEF flag
  <2> QED
    BY <1>1, <1>2, <1>3, <2>2
<1>7. CASE ImportTeams(s) \/ ReconcileJobs(s)
  <2>1. BeginOp(s, "import", 0, 0) \/ BeginOp(s, "reconcile", 0, 0)
    BY <1>7 DEF ImportTeams, ReconcileJobs
  <2> QED
    BY <1>2, <1>3, <2>1
<1> QED
  BY <1>4, <1>5, <1>6, <1>7

\* An answer is given: the flags the store keeps may change for the action's own row,
\* and then the answer tells it.
LEMMA FlagsServed ==
    ASSUME RegInv, FlagInv, NEW s \in OpSlots, Served(s),
           \A r \in store'.inactive : r \in Nat /\ r < store'.next,
           \A r \in DOMAIN store'.rows : r \in DOMAIN store.rows \/ r \notin DOMAIN table.rows,
           \/ store'.inactive = store.inactive
           \/ /\ regOps[s].verb = "active" /\ (regHist'.lost \/ Got(s, "active", 1)')
              /\ \A r : r # regOps[s].id => (r \in store'.inactive <=> r \in store.inactive),
           (~regHist'.lost /\ ~regHist'.crossed) => FlagAnswered(s)'
    PROVE  FlagInv'
<1> SUFFICES ASSUME ~regHist'.lost, ~regHist'.crossed
             PROVE  FlagsShown' /\ \A t \in OpSlots : FlagAnswered(t)'
  BY DEF FlagInv
<1>1. /\ ~regHist.lost /\ ~regHist.crossed /\ regOps[s].ans.res = "none" /\ tab' = tab /\ table' = table
      /\ regHist'.untold = regHist.untold
      /\ \A t \in OpSlots : t # s => regOps'[t] = regOps[t]
      /\ regOps'[s].id = regOps[s].id
  BY DEF Served
<1>2. FlagsShown /\ \A t \in OpSlots : FlagAnswered(t)
  BY <1>1 DEF FlagInv
<1>3. store'.inactive # store.inactive =>
        /\ Got(s, "active", 1)'
        /\ \A t \in OpSlots : t # s => regOps[t].id # regOps[s].id
        /\ \A t \in OpSlots : Got(t, "create", 1) => regOps[t].ans.id # regOps[s].id
        /\ \A r : r # regOps[s].id => (r \in store'.inactive <=> r \in store.inactive)
  <2> HAVE store'.inactive # store.inactive
  <2>1. regOps[s].verb = "active"
    OBVIOUS
  <2>2. \A t \in OpSlots : t # s => regOps[t].id # regOps[s].id
    BY <1>1, <2>1, Alike DEF RowVerbs
  <2>3. \A t \in OpSlots : Got(t, "create", 1) => regOps[t].ans.id # regOps[s].id
    BY DEF RegInv, IdInv, Made, Unseen
  <2> QED
    BY <2>2, <2>3
<1>4. FlagsShown'
  <2> SUFFICES ASSUME NEW r \in DOMAIN store'.rows \intersect DOMAIN table.rows
               PROVE  FlagFits(r)' \/ \E t \in OpSlots : Got(t, "active", 1)' /\ regOps'[t].id = r
    BY <1>1 DEF FlagsShown
  <2>1. CASE FlagFits(r)
    <3>1. CASE store'.inactive = store.inactive
      BY <1>1, <2>1, <3>1 DEF FlagFits
    <3>2. CASE store'.inactive # store.inactive /\ r # regOps[s].id
      BY <1>1, <1>3, <2>1, <3>2 DEF FlagFits
    <3>3. CASE store'.inactive # store.inactive /\ r = regOps[s].id
      BY <1>1, <1>3, <3>3
    <3> QED
      BY <3>1, <3>2, <3>3
  <2>2. CASE ~FlagFits(r)
    <3>1. PICK t \in OpSlots : Got(t, "active", 1) /\ regOps[t].id = r
      BY <1>2, <2>2 DEF FlagsShown
    <3>2. t # s /\ regOps'[t] = regOps[t]
      BY <1>1, <3>1 DEF Got
    <3> QED
      BY <3>1, <3>2 DEF Got
  <2> QED
    BY <2>1, <2>2
<1>5. ASSUME NEW t \in OpSlots, t # s PROVE FlagAnswered(t)'
  <2>1. regOps'[t] = regOps[t] /\ FlagAnswered(t)
    BY <1>1, <1>2, <1>5
  <2>2. CASE store'.inactive = store.inactive
    BY <1>1, <2>1, <2>2 DEF FlagAnswered, Got, AnswerFits, FlagUntold
  <2>3. CASE store'.inactive # store.inactive
    <3>1. /\ regOps[t].id \in store'.inactive <=> regOps[t].id \in store.inactive
          /\ Got(t, "create", 1) => (regOps[t].ans.id \in store'.inactive <=> regOps[t].ans.id \in store.inactive)
      BY <1>3, <1>5, <2>3
    <3> QED
      BY <1>1, <2>1, <3>1 DEF FlagAnswered, Got, AnswerFits, FlagUntold
  <2> QED
    BY <2>2, <2>3
<1> QED
  BY <1>4, <1>5

\* Whatever the api-gateway does with a request.
LEMMA FlagsKept ==
    ASSUME RegInv, FlagInv, NEW s \in OpSlots,
           \/ StoreCreate(s) \/ StoreCreateTaken(s) \/ StoreUpdate(s) \/ StoreDelete(s) \/ StoreSetActive(s)
           \/ StoreValidate(s) \/ StoreDeploy(s) \/ StoreReconcile(s) \/ StoreList(s)
           \/ StoreScoreboard(s) \/ StoreRefuses(s)
    PROVE  FlagInv'
<1>1. /\ store.next \in Nat /\ \A r \in store.inactive : r \in Nat /\ r < store.next
      /\ \A r \in DOMAIN table.rows : r \in Nat /\ r < store.next
  BY DEF RegInv, RegTypes, RowMap, FlagInv
<1>2. CASE Quiet(s)
  <2>1. FlagAnswered(s)'
    BY <1>2 DEF Quiet, FlagAnswered
  <2> QED
    BY <1>1, <1>2, <2>1, FlagsServed DEF Quiet
<1>3. CASE StoreCreateTaken(s)
  <2>1. /\ Served(s) /\ regOps'[s].ans.res # "ok" /\ store'.inactive = store.inactive
        /\ store'.rows = store.rows /\ store'.next = store.next + 1
    BY <1>3, CreationRefused
  <2>2. FlagAnswered(s)'
    BY <2>1 DEF FlagAnswered, Got
  <2> QED
    BY <1>1, <2>1, <2>2, FlagsServed
<1>4. CASE StoreCreate(s)
  <2>1. /\ Served(s) /\ store'.inactive = store.inactive /\ store'.next = store.next + 1
        /\ DOMAIN store'.rows = DOMAIN store.rows \union {store.next}
        /\ regOps[s].verb \in {"create", "import"} /\ regOps'[s].ans.id = store.next
        /\ regOps'[s].ans.inactive => FlagUntold("create")
    BY <1>4, Created
  <2>2. FlagAnswered(s)'
    <3>1. regOps'[s].verb = regOps[s].verb /\ tab' = tab
      BY <2>1 DEF Served
    <3>2. AnswerFits(regOps[s].ans.inactive, regOps[s].ans.id, "create")'
      BY <1>1, <2>1, <3>1 DEF AnswerFits, FlagUntold
    <3> QED
      BY <2>1, <3>1, <3>2 DEF FlagAnswered, Got
  <2>3. \A r \in DOMAIN store'.rows : r \in DOMAIN store.rows \/ r \notin DOMAIN table.rows
    BY <1>1, <2>1
  <2>4. \A r \in store'.inactive : r \in Nat /\ r < store'.next
    BY <1>1, <2>1
  <2> QED
    BY <2>1, <2>2, <2>3, <2>4, FlagsServed
<1>5. CASE StoreUpdate(s) \/ StoreSetActive(s)
  <2>1. /\ Served(s) /\ store'.next = store.next /\ DOMAIN store'.rows = DOMAIN store.rows
        /\ FlagChanged(s, store'.inactive, regOps'[s].ans.inactive)
        /\ regOps[s].id < store.next
        /\ regOps'[s].ans.res = "ok" \/ regHist'.lost \/ store' = store
    BY <1>5, Changed
  <2>2. /\ regOps'[s].verb = regOps[s].verb /\ regOps'[s].id = regOps[s].id /\ regOps'[s].step = regOps[s].step
        /\ tab' = tab
    BY <2>1 DEF Served
  <2>3. regOps[s].id \in Nat
    BY DEF RegInv, RegTypes, RegWell, RegShape
  <2>4. CASE /\ regOps[s].verb = "update" /\ store'.inactive = store.inactive
             /\ AnswerFits(regOps'[s].ans.inactive, regOps[s].id, "update")
    <3>1. FlagAnswered(s)'
      BY <2>2, <2>4 DEF FlagAnswered, Got, AnswerFits, FlagUntold
    <3> QED
      BY <1>1, <2>1, <2>4, <3>1, FlagsServed
  <2>5. CASE /\ regOps[s].verb = "active"
             /\ store'.inactive = Marked(store.inactive, regOps[s].id, regOps'[s].ans.inactive)
    <3>1. /\ \A r : r # regOps[s].id => (r \in store'.inactive <=> r \in store.inactive)
          /\ regOps[s].id \in store'.inactive <=> regOps'[s].ans.inactive
      BY <2>5 DEF Marked
    <3>2. FlagAnswered(s)'
      BY <2>2, <2>5, <3>1 DEF FlagAnswered, Got
    <3>3. \A r \in store'.inactive : r \in Nat /\ r < store'.next
      BY <1>1, <2>1, <2>3, <3>1
    <3>4. regOps'[s].step = 1
      <4>1. /\ regOps[s].verb \in RowVerbs /\ LastStep("active") = 1 /\ RegWell(s)
        BY <2>5 DEF RegInv, RegTypes, RowVerbs, LastStep
      <4> QED
        BY <2>2, <2>5, <4>1 DEF RegWell
    <3>5. store'.inactive = store.inactive \/ regHist'.lost \/ Got(s, "active", 1)'
      BY <2>1, <2>2, <2>5, <3>4 DEF Got
    <3> QED
      BY <2>1, <2>5, <3>1, <3>2, <3>3, <3>5, FlagsServed
  <2> QED
    BY <2>1, <2>4, <2>5 DEF FlagChanged
<1> QED
  BY <1>2, <1>3, <1>4, <1>5, Inspected, RowDeleted, JobDeleted, JobsCompleted, Deployed

\* The page takes an answer that tells the flag of row n, or of none it shows.
LEMMA FlagsTaken ==
    ASSUME RegInv, FlagInv, NEW s \in OpSlots, TakenOver(s), NEW n,
           \A r \in DOMAIN table'.rows : r # n =>
               /\ r \in DOMAIN table.rows
               /\ r \in table'.inactive <=> r \in table.inactive
               /\ r \in regHist'.untold <=> r \in regHist.untold,
           Got(s, "active", 1) => regOps[s].id = n,
           (~regHist'.lost /\ ~regHist'.crossed /\ n \in DOMAIN table'.rows) => FlagFits(n)'
    PROVE  FlagInv'
<1>1. store' = store /\ tab' = tab
  BY DEF TakenOver
<1> SUFFICES ASSUME ~regHist'.lost, ~regHist'.crossed
             PROVE  FlagsShown' /\ \A t \in OpSlots : FlagAnswered(t)'
  BY <1>1 DEF FlagInv
<1>2. /\ ~regHist.lost /\ ~regHist.crossed /\ regOps'[s].ans.res = "none"
      /\ \A t \in OpSlots : t # s => regOps'[t] = regOps[t]
  BY DEF TakenOver
<1>3. FlagsShown /\ \A t \in OpSlots : FlagAnswered(t)
  BY <1>2 DEF FlagInv
<1>4. FlagsShown'
  <2> SUFFICES ASSUME NEW r \in DOMAIN store.rows, r \in DOMAIN table'.rows
               PROVE  FlagFits(r)' \/ \E t \in OpSlots : Got(t, "active", 1)' /\ regOps'[t].id = r
    BY <1>1 DEF FlagsShown
  <2>1. CASE r = n
    BY <2>1
  <2>2. CASE r # n /\ FlagFits(r)
    BY <1>1, <2>2 DEF FlagFits
  <2>3. CASE r # n /\ ~FlagFits(r)
    <3>1. PICK t \in OpSlots : Got(t, "active", 1) /\ regOps[t].id = r
      BY <1>3, <2>3 DEF FlagsShown
    <3>2. t # s /\ regOps'[t] = regOps[t]
      BY <1>2, <2>3, <3>1
    <3> QED
      BY <3>1, <3>2 DEF Got
  <2> QED
    BY <2>1, <2>2, <2>3
<1>5. ASSUME NEW t \in OpSlots PROVE FlagAnswered(t)'
  <2>1. CASE t = s
    BY <1>2, <2>1 DEF FlagAnswered, Got
  <2>2. CASE t # s
    <3>1. regOps'[t] = regOps[t] /\ FlagAnswered(t)
      BY <1>2, <1>3, <2>2
    <3> QED
      BY <1>1, <3>1 DEF FlagAnswered, Got, AnswerFits, FlagUntold
  <2> QED
    BY <2>1, <2>2
<1> QED
  BY <1>4, <1>5

\* Whatever the answer is.
LEMMA FlagsTold ==
    ASSUME RegInv, FlagInv, NEW s \in OpSlots, Answer(s)
    PROVE  FlagInv'
<1> DEFINE op == regOps[s]
           req == RequestOf(s)
<1>1. /\ TakenOver(s) /\ store' = store /\ tab' = tab
      /\ table' = IF op.ans.res = "ok" THEN AfterAnswer(op, req) ELSE table
      /\ regHist'.untold = IF op.ans.res = "ok" THEN UntoldAfter(op, req) ELSE regHist.untold
      /\ (regHist.lost => regHist'.lost) /\ regHist'.crossed = regHist.crossed
  BY Answering DEF TakenOver
<1>2. /\ RegTypes /\ op.verb # "none"
      /\ table \in [rows : {table.rows}, inactive : {table.inactive}, jobs : {table.jobs},
                    checks : {table.checks}]
      /\ \A r \in DOMAIN table.rows : r \in Nat /\ 1 <= r
  BY <1>1, TableTypes DEF TakenOver, RowMap
<1>3. (~regHist'.lost /\ ~regHist'.crossed) => FlagAnswered(s)
  BY <1>1 DEF FlagInv
\* The answers that tell no flag.
<1>4. ASSUME DOMAIN table'.rows \subseteq DOMAIN table.rows, table'.inactive = table.inactive,
             regHist'.untold = regHist.untold, ~Got(s, "active", 1)
      PROVE  FlagInv'
  <2>1. 0 \notin DOMAIN table'.rows
    BY <1>2, <1>4
  <2> QED
    BY <1>1, <1>4, <2>1, FlagsTaken
<1>5. CASE op.ans.res # "ok"
  BY <1>1, <1>4, <1>5 DEF Got
<1>6. CASE op.ans.res = "ok" /\ req = "create" /\ op.verb = "create"
  <2>0. PICK n : n = op.ans.id
    OBVIOUS
  <2> DEFINE held == Put(table.rows, n, op.ans.row)
             checks == Without(table.checks, n)
             flags == Marked(table.inactive, n, op.ans.inactive)
  <2>1. table' = [table EXCEPT !.rows = held, !.checks = checks, !.inactive = flags]
    BY <1>1, <1>6, <2>0 DEF AfterAnswer
  <2>2. Got(s, "create", 1) /\ ~Got(s, "active", 1)
    BY <1>2, <1>6, Asked DEF Got
  <2>3. DOMAIN held = DOMAIN table.rows \union {n}
    BY DEF Put
  <2>4. /\ \A r : r # n => (r \in flags <=> r \in table.inactive)
        /\ n \in flags <=> op.ans.inactive
    BY DEF Marked
  <2>5. regHist'.untold = Marked(regHist.untold, n, FlagUntold("create"))
    BY <1>1, <1>6, <2>0 DEF UntoldAfter
  <2> HIDE DEF held, checks, flags
  <2>6. table'.rows = held /\ table'.inactive = flags
    BY <2>1, TableSet
  <2>7. /\ \A r : r # n => (r \in regHist'.untold <=> r \in regHist.untold)
        /\ FlagUntold("create") => n \in regHist'.untold
    BY <2>5 DEF Marked
  <2>8. (~regHist'.lost /\ ~regHist'.crossed) => FlagFits(n)'
    <3> HAVE ~regHist'.lost /\ ~regHist'.crossed
    <3>1. AnswerFits(op.ans.inactive, n, "create")
      BY <1>3, <2>0, <2>2 DEF FlagAnswered
    <3> QED
      BY <1>1, <2>4, <2>6, <2>7, <3>1 DEF FlagFits, AnswerFits
  <2> QED
    BY <1>1, <2>2, <2>3, <2>4, <2>6, <2>7, <2>8, FlagsTaken
<1>7. CASE op.ans.res = "ok" /\ req = "update"
  <2>0. PICK n : n = op.id
    OBVIOUS
  <2> DEFINE held == ReplaceRow(table.rows, n, op.ans.row)
             checks == Without(table.checks, n)
             flags == Marked(table.inactive, n, op.ans.inactive)
  <2>1. table' = [table EXCEPT !.rows = held, !.checks = checks, !.inactive = flags]
    BY <1>1, <1>7, <2>0 DEF AfterAnswer, Dropped
  <2>2. Got(s, "update", 1) /\ ~Got(s, "active", 1)
    BY <1>2, <1>7, Asked DEF Got
  <2>3. DOMAIN held = DOMAIN table.rows
    BY DEF ReplaceRow
  <2>4. /\ \A r : r # n => (r \in flags <=> r \in table.inactive)
        /\ n \in flags <=> op.ans.inactive
    BY DEF Marked
  <2>5. regHist'.untold = Marked(regHist.untold, n, FlagUntold("update"))
    BY <1>1, <1>7, <2>0 DEF UntoldAfter
  <2> HIDE DEF held, checks, flags
  <2>6. table'.rows = held /\ table'.inactive = flags
    BY <2>1, TableSet
  <2>7. /\ \A r : r # n => (r \in regHist'.untold <=> r \in regHist.untold)
        /\ FlagUntold("update") => n \in regHist'.untold
    BY <2>5 DEF Marked
  <2>8. (~regHist'.lost /\ ~regHist'.crossed) => FlagFits(n)'
    <3> HAVE ~regHist'.lost /\ ~regHist'.crossed
    <3>1. AnswerFits(op.ans.inactive, n, "update")
      BY <1>3, <2>0, <2>2 DEF FlagAnswered
    <3> QED
      BY <1>1, <2>4, <2>6, <2>7, <3>1 DEF FlagFits, AnswerFits
  <2> QED
    BY <1>1, <2>2, <2>3, <2>4, <2>6, <2>7, <2>8, FlagsTaken
<1>8. CASE op.ans.res = "ok" /\ req = "active"
  <2>0. PICK n : n = op.id
    OBVIOUS
  <2> DEFINE held == ReplaceRow(table.rows, n, op.ans.row)
             flags == Marked(table.inactive, n, op.ans.inactive)
  <2>1. table' = [table EXCEPT !.rows = held, !.inactive = flags]
    BY <1>1, <1>8, <2>0 DEF AfterAnswer
  <2>2. Got(s, "active", 1)
    BY <1>2, <1>8, Asked DEF Got
  <2>3. DOMAIN held = DOMAIN table.rows
    BY DEF ReplaceRow
  <2>4. /\ \A r : r # n => (r \in flags <=> r \in table.inactive)
        /\ n \in flags <=> op.ans.inactive
    BY DEF Marked
  <2>5. regHist'.untold = Marked(regHist.untold, n, FALSE)
    BY <1>1, <1>8, <2>0 DEF UntoldAfter
  <2> HIDE DEF held, flags
  <2>6. table'.rows = held /\ table'.inactive = flags
    BY <2>1, TableFlag
  <2>7. \A r : r # n => (r \in regHist'.untold <=> r \in regHist.untold)
    BY <2>5 DEF Marked
  <2>8. (~regHist'.lost /\ ~regHist'.crossed) => FlagFits(n)'
    <3> HAVE ~regHist'.lost /\ ~regHist'.crossed
    <3>1. op.ans.inactive <=> n \in store.inactive
      BY <1>3, <2>0, <2>2 DEF FlagAnswered
    <3> QED
      BY <1>1, <2>4, <2>6, <3>1 DEF FlagFits
  <2> QED
    BY <1>1, <2>3, <2>4, <2>6, <2>7, <2>8, <2>0, FlagsTaken
<1>9. CASE /\ op.ans.res = "ok" /\ ~(req = "create" /\ op.verb = "create")
           /\ req \in {"create", "scoreboard", "validate", "deploy", "list", "reconcile", "delete"}
  <2>1. ~Got(s, "active", 1)
    BY <1>2, <1>9, Requests DEF Got
  <2>2. CASE req = "create"
    <3>1. op.verb = "import" /\ regHist'.lost
      BY <1>1, <1>2, <1>9, <2>2, Asked DEF TakenOver
    <3> QED
      BY <1>1, <3>1 DEF FlagInv
  <2>3. CASE req # "create"
    <3>1. regHist'.untold = regHist.untold
      BY <1>1, <1>9, <2>3 DEF UntoldAfter
    <3>2. DOMAIN table'.rows \subseteq DOMAIN table.rows /\ table'.inactive = table.inactive
      <4>1. CASE req \in {"scoreboard", "reconcile"}
        BY <1>1, <1>9, <4>1 DEF AfterAnswer
      <4>2. CASE req = "validate"
        BY <1>1, <1>2, <1>9, <4>2 DEF AfterAnswer
      <4>3. CASE req = "list" \/ (req = "delete" /\ tab = "deployments")
        BY <1>1, <1>2, <1>9, <4>3 DEF AfterAnswer
      <4>4. CASE req = "delete" /\ tab # "deployments"
        BY <1>1, <1>2, <1>9, <4>4 DEF AfterAnswer, Without
      <4>5. CASE req = "deploy"
        <5> DEFINE held == Published(table.rows, op.id)
                   jobs == IF op.ans.jobs = <<>> THEN Superseded(table.jobs, op.id)
                           ELSE Put(Superseded(table.jobs, op.id), op.ans.jobs[1],
                                    [challenge |-> op.id, status |-> "queued"])
                   t1 == [table EXCEPT !.rows = held]
        <5>1. table' = [t1 EXCEPT !.jobs = jobs]
          BY <1>1, <1>9, <4>5 DEF AfterAnswer, AfterDeploy
        <5>2. DOMAIN held = DOMAIN table.rows
          BY DEF Published
        <5> HIDE DEF held, jobs
        <5>3. /\ t1.rows = held /\ t1.inactive = table.inactive
              /\ t1 \in [rows : {held}, inactive : {table.inactive}, jobs : {t1.jobs}, checks : {t1.checks}]
          BY <1>2
        <5> HIDE DEF t1
        <5> QED
          BY <5>1, <5>2, <5>3
      <4> QED
        BY <1>9, <2>3, <4>1, <4>2, <4>3, <4>4, <4>5
    <3> QED
      BY <1>4, <2>1, <3>1, <3>2
  <2> QED
    BY <2>2, <2>3
<1> QED
  BY <1>2, <1>5, <1>6, <1>7, <1>8, <1>9, Asked

\* Every step preserves the invariant of the flags.
LEMMA FlagsInside ==
    ASSUME RegInv, FlagInv, [Next]_<<consoleVars, cardVars, registryVars>>
    PROVE  FlagInv'
<1>1. RegistryNext \/ UNCHANGED registryVars
  BY DEF Next
<1>2. CASE \/ UNCHANGED registryVars
           \/ OpenCreateDialog \/ OpenEditDialog \/ CloseFormDialog
           \/ TypeTeamDraft \/ TypePlayerDraft \/ TypeChallengeDraft
           \/ SelectDeleteTarget \/ CloseDeleteDialog
  <2>1. UNCHANGED <<tab, store, table, regOps, regHist>>
    BY <1>2 DEF registryVars, OpenCreateDialog, OpenEditDialog, CloseFormDialog, TypeTeamDraft, TypePlayerDraft,
       TypeChallengeDraft, TypeDraft, SelectDeleteTarget, CloseDeleteDialog
  <2> QED
    BY <2>1, FlagsFramed
<1>3. ASSUME NEW s \in OpSlots,
             \/ SubmitForm(s) \/ ConfirmDelete(s) \/ ClickRow(s)
             \/ ImportTeams(s) \/ ReconcileJobs(s)
             \/ StoreCreate(s) \/ StoreCreateTaken(s) \/ StoreUpdate(s) \/ StoreDelete(s) \/ StoreSetActive(s)
             \/ StoreValidate(s) \/ StoreDeploy(s) \/ StoreReconcile(s) \/ StoreList(s)
             \/ StoreScoreboard(s) \/ StoreRefuses(s)
             \/ Answer(s)
      PROVE  FlagInv'
  BY <1>3, Started, FlagsKept, FlagsTold
<1> QED
  BY <1>1, <1>2, <1>3 DEF RegistryNext

\* Which rows the page shows inactive, with the answers on their way, accounts for
\* what the stores have deactivated and for the answers that do not tell it.
LEMMA FlagInvHolds == Spec => []FlagInv
<1>1. Init => FlagInv
  <2> SUFFICES ASSUME Init PROVE FlagInv
    OBVIOUS
  <2>1. PICK part \in {"console", "card", "registry"} : RegistryStart(part = "registry")
    BY DEF Init
  <2>2. /\ store.inactive = {} /\ table.inactive = {} /\ regHist.untold = {}
        /\ \A s \in OpSlots : regOps[s].ans.res = "none"
    <3>1. store.inactive = {} /\ regHist.untold = {}
      BY <2>1 DEF RegistryStart
    <3>2. table.inactive = {}
      BY <2>1 DEF RegistryStart
    <3>3. ASSUME NEW s \in OpSlots PROVE regOps[s].ans.res = "none"
      <4> DEFINE n1 == [NoOp EXCEPT !.verb = "active"]
                 n2 == [n1 EXCEPT !.id = 1]
                 n3 == [n2 EXCEPT !.arg = FALSE]
                 first == [n3 EXCEPT !.step = 1]
      <4>1. regOps[s] = NoOp \/ regOps[s] = first
        BY <2>1 DEF RegistryStart
      <4>2. first.ans = NoOp.ans /\ NoOp.ans.res = "none"
        BY DEF NoOp, NoAnswer
      <4> HIDE DEF first
      <4> QED
        BY <4>1, <4>2
    <3> QED
      BY <3>1, <3>2, <3>3
  <2> QED
    BY <2>2 DEF FlagInv, FlagsShown, FlagAnswered, FlagFits, Got
<1>2. RegInv /\ FlagInv /\ [Next]_<<consoleVars, cardVars, registryVars>> => FlagInv'
  BY FlagsInside
<1> QED
  BY <1>1, <1>2, RegInvHolds, PTL DEF Spec


-----------------------------------------------------------------------------
(* The registries' properties.                                             *)

\* A row or job whose deletion was acknowledged does not come back to the page,
\* whatever answers arrive late; a list of jobs read around the deletion is the
\* exception (the delete handlers and replaceRow of use-organizer-dashboard).
THEOREM DeletionsLast == Spec => []DeletedStaysDeleted
<1>1. RegInv => DeletedStaysDeleted
  BY DEF RegInv, IdInv, ListInv, DeletedStaysDeleted
<1> QED
  BY <1>1, RegInvHolds, PTL

\* With no action in flight, no answer lost and none crossed, the page and the
\* store hold the same rows and jobs.
LEMMA AtRest ==
    ASSUME RegInv, OpsInFlight = {}, ~regHist.lost, ~regHist.crossed
    PROVE  table.rows = store.rows /\ table.jobs = store.jobs
<1>1. RegTypes /\ RowInv /\ JobInv /\ ListInv
  BY DEF RegInv
<1>2. \A s \in OpSlots : regOps[s].verb = "none"
  BY DEF OpsInFlight
<1>3. \A s \in OpSlots : \A v \in {"create", "import", "update", "active", "deploy", "delete"}, k \in {1, 2} :
         ~Got(s, v, k)
  BY <1>2 DEF Got
<1>4. \A s \in OpSlots : ~Reconciled(s)
  BY <1>2 DEF Reconciled
<1>5. /\ RowMap(table.rows, store.next) /\ RowMap(store.rows, store.next)
      /\ JobMap(table.jobs, store.nextJob) /\ JobMap(store.jobs, store.nextJob)
  BY <1>1 DEF RegTypes
<1>6. table.rows = store.rows
  <2>1. \A r \in DOMAIN store.rows : r \in DOMAIN table.rows /\ table.rows[r] = store.rows[r]
    BY <1>1, <1>3 DEF RowInv, RowsComing, RowAgrees, Made
  <2>2. \A r \in DOMAIN table.rows : r \in DOMAIN store.rows
    BY <1>1, <1>3 DEF RowInv, RowsGoing
  <2>3. DOMAIN table.rows = DOMAIN store.rows
    BY <2>1, <2>2
  <2> QED
    BY <1>5, <2>1, <2>3 DEF RowMap
<1>7. table.jobs = store.jobs
  <2>1. /\ \A j \in DOMAIN table.jobs : j \in DOMAIN store.jobs /\ table.jobs[j] = store.jobs[j]
        /\ \A j \in DOMAIN store.jobs : j \in DOMAIN table.jobs
    <3>1. CASE tab = "deployments"
      BY <1>1, <1>3, <1>4, <3>1 DEF ListInv, ListShown
    <3>2. CASE tab # "deployments"
      BY <1>1, <1>3, <3>2 DEF JobInv, JobsShown, JobsComing, Deploys
    <3> QED
      BY <3>1, <3>2
  <2>2. DOMAIN table.jobs = DOMAIN store.jobs
    BY <2>1
  <2> QED
    BY <1>5, <2>1, <2>2 DEF JobMap
<1> QED
  BY <1>6, <1>7

\* What the page shows and announces is what the store holds and does: rows and
\* jobs at rest with the flags the answers told, at most one queued job of a challenge
\* at any time, and the octet of a new challenge (the registries' handlers against the
\* api-gateway's store).
THEOREM RegistriesAreTrue == Spec => []RegistryIsTrue
<1>1. RegInv /\ FlagInv => RegistryIsTrue
  <2> SUFFICES ASSUME RegInv, FlagInv PROVE RegistryIsTrue
    OBVIOUS
  <2>1. PageMatchesStore
    <3> SUFFICES ASSUME OpsInFlight = {}, ~regHist.lost, ~regHist.crossed
                 PROVE  table.rows = store.rows /\ table.jobs = store.jobs /\ \A r \in DOMAIN table.rows : FlagFits(r)
      BY DEF PageMatchesStore
    <3>1. table.rows = store.rows /\ table.jobs = store.jobs
      BY AtRest
    <3>2. \A s \in OpSlots : regOps[s].verb = "none"
      BY DEF OpsInFlight
    <3>3. \A r \in DOMAIN table.rows : FlagFits(r)
      BY <3>1, <3>2 DEF FlagInv, FlagsShown, Got
    <3> QED
      BY <3>1, <3>3
  <2>2. OneActiveJob
    BY DEF RegInv, QueueInv, OneQueued, OneActiveJob
  <2>3. OctetAsAnnounced
    BY DEF RegInv, OctetInv, OctetAsAnnounced
  <2> QED
    BY <2>1, <2>2, <2>3 DEF RegistryIsTrue
<1> QED
  BY <1>1, RegInvHolds, FlagInvHolds, PTL

\* Validations are of the version they are taken for: the one on the page, and
\* the one that is deployed (deployChallenge, updateChallenge).
THEOREM ValidationsFit == Spec => []ValidationsAreCurrent
<1>1. RegInv => ValidationsAreCurrent
  BY DEF RegInv, CheckedInv, RowInv, ChecksFit, ValidationsAreCurrent, DeployedWasValidated, ChecksAreCurrent
<1> QED
  BY <1>1, RegInvHolds, PTL

\* The cards' type invariant is a part of their inductive one.
LEMMA CardTypeFollows == CardInv => CardTypeOK
<1> SUFFICES ASSUME CardTypes PROVE CardTypeOK
  BY DEF CardInv
<1>1. saveState \in {"idle", "busy", "error", "freeze", "unfreeze", "save", "saveReload",
                    "reload", "publish", "remove"}
  BY DEF CardTypes, CardKinds
<1>2. card \in {"freeze", "settings"} => shown.snap.value \in Words
  BY DEF CardTypes, CardSnaps, CardValues
<1>3. card = "announcements" => \A id \in shown.snap.value : id < stored.next
  <2>1. /\ shown.snap \in CardSnaps /\ stored.next \in Nat /\ shown.snap.next \in Nat
        /\ Numbered(shown.snap)
    BY DEF CardTypes, CardSnaps
  <2>2. card = "announcements" => \A id \in shown.snap.value : id \in Nat
    BY <2>1 DEF CardSnaps, CardValues
  <2> QED
    BY <2>1, <2>2 DEF Numbered
<1>4. draft \in Words /\ load.step \in {"asked", "read", "failed", "done", "lost"}
  BY DEF CardTypes, LoadSteps
<1>5. \A n \in CardActions : UnderWay(n) => acts[n].step \in 1..Len(Script(acts[n].kind))
  BY ActFacts DEF CardTypes
<1> QED
  BY <1>1, <1>2, <1>3, <1>4, <1>5, Zenon DEF CardTypeOK, Words

\* The registries' type invariant is a part of their inductive one.
LEMMA RegistryTypeFollows == RegInv => RegistryTypeOK
<1> SUFFICES ASSUME RegTypes PROVE RegistryTypeOK
  BY DEF RegInv
<1>1. ASSUME NEW s \in OpSlots, regOps[s].verb # "none"
      PROVE  regOps[s].step \in 1..Len(ScriptOf(regOps[s].verb))
  <2>1. Len(ScriptOf(regOps[s].verb)) = LastStep(regOps[s].verb)
    BY <1>1, Requests
  <2>2. /\ regOps[s].step \in {1, 2} /\ regOps[s].step <= LastStep(regOps[s].verb)
    BY <1>1 DEF RegTypes, RegWell
  <2>3. LastStep(regOps[s].verb) \in Nat
    BY DEF LastStep
  <2> QED
    BY <2>1, <2>2, <2>3
<1>2. /\ \A r \in DOMAIN table.rows : table.rows[r] \in Rows /\ r < store.next
      /\ \A j \in DOMAIN table.jobs : table.jobs[j] \in Jobs /\ j < store.nextJob
  BY DEF RegTypes, RowMap, JobMap
<1>3. /\ tab \in Tabs \union {"none"} /\ form.mode \in {"closed", "create", "edit"}
      /\ target \in Nat /\ (target # 0 => form = NoForm) /\ regPending.verb \in Verbs \union {"none"}
  BY DEF RegTypes
<1> QED
  BY <1>1, <1>2, <1>3 DEF RegistryTypeOK

\* The variables of the three parts hold values of their kinds, an action is at one
\* of the requests it sends, ids on a page were given out by the store, and a page
\* has at most one dialog open (the state of the hook, the console and the cards).
THEOREM OrganizerTypeCorrect == Spec => []OrganizerTypeOK
<1>1. ConsoleInv /\ CardInv /\ RegInv => OrganizerTypeOK
  BY ConsoleTypeFollows, CardTypeFollows, RegistryTypeFollows DEF OrganizerTypeOK
<1> QED
  BY <1>1, ConsoleInvHolds, CardInvHolds, RegInvHolds, PTL
=============================================================================
