------------------------ MODULE OrganizerGameProofs ------------------------
(***************************************************************************)
(* Theorems about the organizer's game page: its types, that an own action *)
(* is never undone on the screen, that a page at rest is behind game-core  *)
(* only when a frame was lost, and that every completed tick it shows has  *)
(* been audited.                                                           *)
(***************************************************************************)
EXTENDS OrganizerGame, TLAPS

-----------------------------------------------------------------------------
(* The specification without its fairness, and the types it keeps.         *)

Safety == Init /\ [][Next]_vars

\* What the page shows is what a behaviour does, whether or not it is fair.
LEMMA SafetyInside == Spec => Safety
BY PTL DEF Spec, Safety

Matches == [state : MatchStates \union {"unloaded"}, window : Windows, ver : Nat]
Scheds == [state : {"running", "stopped", "unloaded"}, interval : Intervals \union {0}, ver : Nat]
Ticks == [id : Nat, done : BOOLEAN]

\* The status of game-core itself is always complete.
Complete(st) ==
    /\ st \in Statuses
    /\ st.match.state \in MatchStates
    /\ st.sched.state \in {"running", "stopped"}

Arguments == {0} \union Windows \union Intervals
OpRecord == [kind : Kinds \union {"none"}, step : Nat, arg : Arguments, base : Scheds,
             got : Matches, ans : [res : {"none", "ok", "failed"}, snap : Statuses]]

\* An action is at one of its requests and carries the argument it needs.
OpSound(op) ==
    op.kind # "none" =>
        /\ op.step \in 1..Len(Script(op.kind))
        /\ op.kind = "window" => op.arg \in Windows
        /\ op.kind = "interval" => op.arg \in Intervals

PanelTypes ==
    /\ Complete(server) /\ cached \in Statuses /\ panel \in Statuses
    /\ queue \in Seq(Statuses) /\ Len(queue) <= QueueSize
    /\ pending \in Kinds \union {"none"}
    /\ quiet \in Int /\ quiet >= Loud /\ quiet <= Len(queue)
    /\ ops \in [Slots -> OpRecord] /\ \A s \in Slots : OpSound(ops[s])
    /\ audit \in [last : Nat, asked : Nat]
    /\ left \in [events : Nat, actions : Nat]
    /\ hist \in [missed : BOOLEAN, disturbed : BOOLEAN, acked : [match : Nat, sched : Nat]]

-----------------------------------------------------------------------------
(* The inductive invariants.                                               *)

\* Every change of game-core's status raises its rank, so a status it had before
\* is never taken for the present one.
Rank(st) == st.match.ver + st.sched.ver + 2 * st.tick.id + (IF st.tick.done THEN 1 ELSE 0)
Same(st, now) == st.match = now.match /\ st.sched = now.sched /\ st.tick = now.tick
Past(st, now) ==
    /\ st.match.ver <= now.match.ver /\ st.sched.ver <= now.sched.ver /\ st.tick.id <= now.tick.id
    /\ Same(st, now) \/ Rank(st) < Rank(now)

\* Everything that travels was game-core's status once.
Told(s) == ops[s].kind # "none" /\ ops[s].ans.res = "ok" /\ Request(s) \notin {"feeds", "runtime"}
PastInv ==
    /\ Past(cached, server)
    /\ \A i \in 1..Len(queue) : Past(queue[i], server)
    /\ \A s \in Slots : Told(s) => Past(ops[s].ans.snap, server)
    /\ panel.tick.id <= server.tick.id

\* The audit that an advance of the tick will still ask for covers the tick shown.
WillAudit(s) ==
    /\ ops[s].kind = "advance" /\ ops[s].step > 1
    /\ (ops[s].step = 4 /\ ops[s].ans.res # "none") => panel.tick.id <= ops[s].ans.snap.tick.id
AuditInv ==
    /\ audit.last <= audit.asked
    /\ (panel.tick.done /\ panel.tick.id > audit.asked) => \E s \in Slots : WillAudit(s)

\* Without Enter beside an action there is one action at a time, and its spinner.
OneAction ==
    ~hist.disturbed =>
        \/ pending = "none" /\ InFlight = {}
        \/ \E s \in Slots : InFlight = {s} /\ pending = ops[s].kind

\* A match and a scheduler that an own, acknowledged action has not outdated.
MatchFresh(m) == m.state # "unloaded" => m.ver >= hist.acked.match
SchedFresh(c) == c.state # "unloaded" => c.ver >= hist.acked.sched \/ c.ver = 0

HoldsBack == \E s \in InFlight : Suppresses(ops[s].kind)

OwnInv ==
    ~hist.disturbed =>
        /\ hist.acked.match <= server.match.ver /\ hist.acked.sched <= server.sched.ver
        /\ MatchFresh(panel.match) /\ SchedFresh(panel.sched)
        /\ ~HoldsBack => \A i \in 1..Len(queue) : i > quiet =>
              queue[i].match.ver >= hist.acked.match /\ queue[i].sched.ver >= hist.acked.sched
        /\ \A s \in Slots :
              /\ Told(s) => /\ ops[s].ans.snap.match.ver >= hist.acked.match
                            /\ ops[s].ans.snap.sched.ver >= hist.acked.sched
              /\ (ops[s].kind \in {"start", "resume"} /\ ops[s].step = 2) =>
                    ops[s].got.ver >= hist.acked.match
              /\ (ops[s].kind = "resume" /\ ops[s].step <= 2) => SchedFresh(ops[s].base)

ShownMatch(m) == [state |-> m.state, window |-> m.window]
ShownSched(c) == [state |-> c.state, interval |-> c.interval]

\* No frame was lost and none is under way, and the gateway knows of no news.
Settled == queue = <<>> /\ cached = server /\ ~hist.missed /\ ~hist.disturbed

\* A status that was read while nothing was lost replaces whatever is shown.
StatusComes == \E s \in InFlight : Told(s) /\ Request(s) = "status"

StaleInv ==
    /\ (~hist.missed /\ ~hist.disturbed /\ queue # <<>>) => queue[Len(queue)] = cached
    /\ Settled =>
        /\ ~StatusComes => Shown(panel) = Shown(server)
        /\ \A s \in InFlight :
             /\ Told(s) => /\ Same(ops[s].ans.snap, server)
                           /\ Request(s) \in {"matchPause", "matchStop"} => server.sched.state = "stopped"
             /\ (ops[s].kind \in {"start", "resume"} /\ ops[s].step = 2) =>
                   ShownMatch(ops[s].got) = ShownMatch(server.match)
             /\ (ops[s].kind = "resume" /\ ops[s].step <= 2) =>
                   ShownSched(ops[s].base) = ShownSched(server.sched)


-----------------------------------------------------------------------------
(* Scripts, requests and game-core's answers.                              *)

Requests == {"matchStart", "matchPause", "matchResume", "matchStop", "schedStart", "schedStop",
             "window", "interval", "status", "advance", "recompute", "audit", "feeds", "runtime"}

\* The scripts, request by request.
LEMMA ScriptRows ==
  ASSUME NEW k \in Kinds, NEW n \in 1..Len(Script(k))
  PROVE  LET req == Script(k)[n]
             len == Len(Script(k))
         IN \/ k = "start" /\ len = 3 /\ <<n, req>> \in {<<1, "matchStart">>, <<2, "schedStart">>, <<3, "feeds">>}
            \/ k = "pause" /\ len = 4
               /\ <<n, req>> \in {<<1, "matchPause">>, <<2, "feeds">>, <<3, "status">>, <<4, "feeds">>}
            \/ k = "resume" /\ len = 5
               /\ <<n, req>> \in {<<1, "matchResume">>, <<2, "schedStart">>, <<3, "feeds">>,
                                  <<4, "status">>, <<5, "feeds">>}
            \/ k = "stop" /\ len = 2 /\ <<n, req>> \in {<<1, "matchStop">>, <<2, "feeds">>}
            \/ k = "advance" /\ len = 4
               /\ <<n, req>> \in {<<1, "advance">>, <<2, "feeds">>, <<3, "recompute">>, <<4, "audit">>}
            \/ k = "schedStart" /\ len = 2 /\ <<n, req>> \in {<<1, "schedStart">>, <<2, "feeds">>}
            \/ k = "schedStop" /\ len = 2 /\ <<n, req>> \in {<<1, "schedStop">>, <<2, "feeds">>}
            \/ k \in {"window", "interval", "status", "recompute", "audit", "runtime"}
               /\ len = 1 /\ n = 1 /\ req = k
<1>1. CASE k = "start"
  <2>1. Script(k) = <<"matchStart", "schedStart", "feeds">>
    BY <1>1 DEF Script
  <2>2. Len(Script(k)) = 3 /\ n \in {1, 2, 3}
    BY <2>1
  <2> QED BY <1>1, <2>1, <2>2
<1>2. CASE k = "pause"
  <2>1. Script(k) = <<"matchPause", "feeds", "status", "feeds">>
    BY <1>2 DEF Script
  <2>2. Len(Script(k)) = 4 /\ n \in {1, 2, 3, 4}
    BY <2>1
  <2> QED BY <1>2, <2>1, <2>2
<1>3. CASE k = "resume"
  <2>1. Script(k) = <<"matchResume", "schedStart", "feeds", "status", "feeds">>
    BY <1>3 DEF Script
  <2>2. Len(Script(k)) = 5 /\ n \in {1, 2, 3, 4, 5}
    BY <2>1
  <2> QED BY <1>3, <2>1, <2>2
<1>4. CASE k = "stop"
  <2>1. Script(k) = <<"matchStop", "feeds">>
    BY <1>4 DEF Script
  <2>2. Len(Script(k)) = 2 /\ n \in {1, 2}
    BY <2>1
  <2> QED BY <1>4, <2>1, <2>2
<1>5. CASE k = "advance"
  <2>1. Script(k) = <<"advance", "feeds", "recompute", "audit">>
    BY <1>5 DEF Script
  <2>2. Len(Script(k)) = 4 /\ n \in {1, 2, 3, 4}
    BY <2>1
  <2> QED BY <1>5, <2>1, <2>2
<1>6. CASE k \in {"schedStart", "schedStop"}
  <2>1. Script(k) = <<k, "feeds">>
    BY <1>6 DEF Script
  <2>2. Len(Script(k)) = 2 /\ n \in {1, 2}
    BY <2>1
  <2> QED BY <1>6, <2>1, <2>2
<1>7. CASE k \in {"window", "interval", "status", "recompute", "audit", "runtime"}
  <2>1. Script(k) = <<k>>
    BY <1>7 DEF Script
  <2>2. Len(Script(k)) = 1 /\ n = 1
    BY <2>1
  <2> QED BY <1>7, <2>1, <2>2
<1> QED BY <1>1, <1>2, <1>3, <1>4, <1>5, <1>6, <1>7 DEF Kinds

\* Which action sends which request, and when.
LEMMA RequestRows ==
  ASSUME NEW k \in Kinds, NEW n \in 1..Len(Script(k))
  PROVE  LET req == Script(k)[n]
             len == Len(Script(k))
         IN /\ req \in Requests /\ len \in Nat /\ n \in Nat /\ n >= 1
            /\ req = "matchStart" <=> k = "start" /\ n = 1
            /\ req = "matchPause" <=> k = "pause" /\ n = 1
            /\ req = "matchStop" <=> k = "stop" /\ n = 1
            /\ req = "matchResume" <=> k = "resume" /\ n = 1
            /\ (k \in {"start", "resume"} /\ n = 2) => req = "schedStart"
            /\ (k \in {"start", "resume"} /\ req = "schedStart") => n = 2
            /\ req = "schedStart" => k \in {"start", "resume", "schedStart"}
            /\ req = "status" => /\ k \in {"pause", "resume", "status"}
                                 /\ k = "resume" => n = 4
            /\ req = "advance" <=> k = "advance" /\ n = 1
            /\ k = "advance" => len = 4 /\ (n = 4 <=> req = "audit")
            /\ (k = "advance" /\ n > 1) => req \in {"feeds", "recompute", "audit"}
            /\ (req = "window" => k = "window") /\ (req = "interval" => k = "interval")
            /\ (req = "schedStop" => k = "schedStop") /\ (req = "runtime" <=> k = "runtime")
            /\ k = "runtime" => n = 1 /\ len = 1
            /\ k = "status" => n = 1 /\ len = 1 /\ req = "status"
            /\ k \in {"recompute", "audit"} => len = 1 /\ req = k
BY ScriptRows DEF Requests

\* A status of game-core that follows the present one.
Follows(new) == Complete(new) /\ Past(server, new)

\* A status with another match or scheduler follows, when what is new has a new version.
LEMMA MovesOn ==
  ASSUME Complete(server), NEW new \in Statuses,
         new.match.state \in MatchStates, new.sched.state \in {"running", "stopped"},
         new.match = server.match \/ new.match.ver = server.match.ver + 1,
         new.sched = server.sched \/ new.sched.ver = server.sched.ver + 1,
         new.tick = server.tick
  PROVE  Follows(new)
<1> DEFINE a == server.match.ver
           b == server.sched.ver
           c == server.tick.id
           a2 == new.match.ver
           b2 == new.sched.ver
           d == IF server.tick.done THEN 1 ELSE 0
<1>1. a \in Nat /\ b \in Nat /\ c \in Nat /\ d \in Nat /\ a2 \in Nat /\ b2 \in Nat
  BY DEF Complete, Statuses
<1>2. (a2 = a \/ a2 = a + 1) /\ (b2 = b \/ b2 = b + 1) /\ new.tick.id = c
  OBVIOUS
<1>3. Rank(server) = a + b + 2 * c + d /\ Rank(new) = a2 + b2 + 2 * c + d
  BY DEF Rank
<1>4. a <= a2 /\ b <= b2 /\ c <= new.tick.id
  <2> HIDE DEF a, b, c, a2, b2
  <2> QED BY <1>1, <1>2
<1>5. a2 # a \/ b2 # b => Rank(server) < Rank(new)
  <2> HIDE DEF a, b, c, a2, b2, d
  <2> QED BY <1>1, <1>2, <1>3
<1>6. (new.match = server.match \/ a2 # a) /\ (new.sched = server.sched \/ b2 # b)
  <2>1. new.match = server.match \/ a2 = a + 1
    OBVIOUS
  <2>2. new.sched = server.sched \/ b2 = b + 1
    OBVIOUS
  <2> HIDE DEF a, b, a2, b2
  <2> QED BY <1>1, <2>1, <2>2
<1>7. Same(server, new) \/ Rank(server) < Rank(new)
  BY <1>5, <1>6 DEF Same
<1> QED BY <1>4, <1>7 DEF Follows, Past, Complete

\* So does one with another tick.
LEMMA TickMovesOn ==
  ASSUME Complete(server), NEW new \in Statuses, new.match = server.match, new.sched = server.sched,
         \/ new.tick.id = server.tick.id + 1
         \/ new.tick.id = server.tick.id /\ ~server.tick.done /\ new.tick.done
  PROVE  Follows(new)
<1> DEFINE a == server.match.ver
           b == server.sched.ver
           c == server.tick.id
           c2 == new.tick.id
           d == IF server.tick.done THEN 1 ELSE 0
           d2 == IF new.tick.done THEN 1 ELSE 0
<1>1. a \in Nat /\ b \in Nat /\ c \in Nat /\ c2 \in Nat /\ d \in {0, 1} /\ d2 \in {0, 1}
  BY DEF Complete, Statuses
<1>2. c2 = c + 1 \/ (c2 = c /\ d = 0 /\ d2 = 1)
  OBVIOUS
<1>3. Rank(server) = a + b + 2 * c + d /\ Rank(new) = a + b + 2 * c2 + d2
  BY DEF Rank
<1>4. c <= c2 /\ Rank(server) < Rank(new) /\ a <= a /\ b <= b
  <2> HIDE DEF a, b, c, c2, d, d2
  <2> QED BY <1>1, <1>2, <1>3
<1> QED BY <1>4 DEF Follows, Past, Complete

\* A status follows itself, and what was told before is past then, too.
LEMMA PastStays ==
  /\ Complete(server) => Follows(server)
  /\ \A st, new \in Statuses :
       (Complete(server) /\ Follows(new) /\ Past(st, server)) => Past(st, new)
<1>1. Complete(server) => Follows(server)
  BY DEF Follows, Past, Same, Complete, Statuses
<1>2. ASSUME Complete(server), NEW st \in Statuses, NEW new \in Statuses, Follows(new), Past(st, server)
      PROVE  Past(st, new)
  <2>1. \A x \in Statuses : Rank(x) \in Nat /\ x.match.ver \in Nat /\ x.sched.ver \in Nat /\ x.tick.id \in Nat
    BY DEF Rank, Statuses
  <2>2. \A x, y : Same(x, y) => Rank(x) = Rank(y)
    BY DEF Same, Rank
  <2>3. server \in Statuses
    BY <1>2 DEF Complete
  <2>4. Same(st, new) \/ Rank(st) < Rank(new)
    <3>1. Same(st, server) \/ Rank(st) < Rank(server)
      BY <1>2 DEF Past
    <3>2. Same(server, new) \/ Rank(server) < Rank(new)
      BY <1>2 DEF Follows, Past
    <3>3. Same(st, server) /\ Same(server, new) => Same(st, new)
      BY DEF Same
    <3> HIDE DEF Same, Rank
    <3> QED BY <2>1, <2>2, <2>3, <3>1, <3>2, <3>3
  <2>5. /\ st.match.ver <= new.match.ver /\ st.sched.ver <= new.sched.ver /\ st.tick.id <= new.tick.id
    <3>1. st.match.ver <= server.match.ver /\ st.sched.ver <= server.sched.ver /\ st.tick.id <= server.tick.id
      BY <1>2 DEF Past
    <3>2. /\ server.match.ver <= new.match.ver /\ server.sched.ver <= new.sched.ver
          /\ server.tick.id <= new.tick.id
      BY <1>2 DEF Follows, Past
    <3> QED BY <2>1, <2>3, <3>1, <3>2
  <2> QED BY <2>4, <2>5 DEF Past
<1> QED BY <1>1, <1>2


\* Replacing one field of a match or a scheduler.
LEMMA OneField ==
  /\ \A m \in Matches : \A x \in MatchStates \union {"unloaded"} : LET new == [m EXCEPT !.state = x]
       IN new \in Matches /\ new.state = x /\ new.window = m.window /\ new.ver = m.ver
  /\ \A m \in Matches : \A x \in Windows : LET new == [m EXCEPT !.window = x]
       IN new \in Matches /\ new.state = m.state /\ new.window = x /\ new.ver = m.ver
  /\ \A m \in Matches : \A x \in Nat : LET new == [m EXCEPT !.ver = x]
       IN new \in Matches /\ new.state = m.state /\ new.window = m.window /\ new.ver = x
  /\ \A c \in Scheds : \A x \in {"running", "stopped", "unloaded"} : LET new == [c EXCEPT !.state = x]
       IN new \in Scheds /\ new.state = x /\ new.interval = c.interval /\ new.ver = c.ver
  /\ \A c \in Scheds : \A x \in Intervals : LET new == [c EXCEPT !.interval = x]
       IN new \in Scheds /\ new.state = c.state /\ new.interval = x /\ new.ver = c.ver
  /\ \A c \in Scheds : \A x \in Nat : LET new == [c EXCEPT !.ver = x]
       IN new \in Scheds /\ new.state = c.state /\ new.interval = c.interval /\ new.ver = x
<1>1. \A m \in Matches : \A x \in MatchStates \union {"unloaded"} : LET new == [m EXCEPT !.state = x]
        IN new \in Matches /\ new.state = x /\ new.window = m.window /\ new.ver = m.ver
  BY DEF Matches
<1>2. \A m \in Matches : \A x \in Windows : LET new == [m EXCEPT !.window = x]
        IN new \in Matches /\ new.state = m.state /\ new.window = x /\ new.ver = m.ver
  BY DEF Matches
<1>3. \A m \in Matches : \A x \in Nat : LET new == [m EXCEPT !.ver = x]
        IN new \in Matches /\ new.state = m.state /\ new.window = m.window /\ new.ver = x
  BY DEF Matches
<1>4. \A c \in Scheds : \A x \in {"running", "stopped", "unloaded"} : LET new == [c EXCEPT !.state = x]
        IN new \in Scheds /\ new.state = x /\ new.interval = c.interval /\ new.ver = c.ver
  BY DEF Scheds
<1>5. \A c \in Scheds : \A x \in Intervals : LET new == [c EXCEPT !.interval = x]
        IN new \in Scheds /\ new.state = c.state /\ new.interval = x /\ new.ver = c.ver
  BY DEF Scheds
<1>6. \A c \in Scheds : \A x \in Nat : LET new == [c EXCEPT !.ver = x]
        IN new \in Scheds /\ new.state = c.state /\ new.interval = c.interval /\ new.ver = x
  BY DEF Scheds
<1> QED BY <1>1, <1>2, <1>3, <1>4, <1>5, <1>6

\* What game-core makes of its match and of its scheduler has a new version.
LEMMA MatchAndSched ==
  ASSUME Complete(server)
  PROVE  /\ server.match \in Matches /\ server.sched \in Scheds /\ server.tick \in Ticks
         /\ \A state \in MatchStates :
              MatchAs(state) \in Matches /\ MatchAs(state).state = state
              /\ MatchAs(state).ver = server.match.ver + 1
         /\ \A state \in {"running", "stopped"} :
              SchedAs(state) \in Scheds /\ SchedAs(state).state = state
              /\ (SchedAs(state) = server.sched \/ SchedAs(state).ver = server.sched.ver + 1)
<1>1. server.match \in Matches /\ server.sched \in Scheds /\ server.tick \in Ticks
  BY DEF Complete, Statuses, Matches, Scheds, Ticks
<1>2. \A state \in MatchStates :
        MatchAs(state) \in Matches /\ MatchAs(state).state = state
        /\ MatchAs(state).ver = server.match.ver + 1
  <2> SUFFICES ASSUME NEW state \in MatchStates
               PROVE  MatchAs(state) \in Matches /\ MatchAs(state).state = state
                      /\ MatchAs(state).ver = server.match.ver + 1
    OBVIOUS
  <2> DEFINE m == [server.match EXCEPT !.state = state]
  <2>1. m \in Matches /\ m.state = state /\ m.ver = server.match.ver
    BY <1>1, OneField
  <2>2. MatchAs(state) = [m EXCEPT !.ver = server.match.ver + 1] /\ server.match.ver + 1 \in Nat
    BY <1>1 DEF MatchAs, Matches
  <2> HIDE DEF m
  <2> QED BY <2>1, <2>2, OneField
<1>3. \A state \in {"running", "stopped"} :
        SchedAs(state) \in Scheds /\ SchedAs(state).state = state
        /\ (SchedAs(state) = server.sched \/ SchedAs(state).ver = server.sched.ver + 1)
  <2> SUFFICES ASSUME NEW state \in {"running", "stopped"}, server.sched.state # state
               PROVE  SchedAs(state) \in Scheds /\ SchedAs(state).state = state
                      /\ SchedAs(state).ver = server.sched.ver + 1
    BY <1>1 DEF SchedAs
  <2> DEFINE c == [server.sched EXCEPT !.state = state]
  <2>1. c \in Scheds /\ c.state = state /\ c.ver = server.sched.ver
    BY <1>1 DEF Scheds
  <2>2. SchedAs(state) = [c EXCEPT !.ver = server.sched.ver + 1] /\ server.sched.ver + 1 \in Nat
    BY <1>1 DEF SchedAs, Scheds
  <2> HIDE DEF c
  <2> QED BY <2>1, <2>2, OneField
<1> QED BY <1>1, <1>2, <1>3

\* Replacing a part of a status.
LEMMA Replaced ==
  ASSUME NEW st \in Statuses
  PROVE  /\ \A m \in Matches : LET new == [st EXCEPT !.match = m]
              IN new \in Statuses /\ new.match = m /\ new.sched = st.sched /\ new.tick = st.tick
         /\ \A c \in Scheds : LET new == [st EXCEPT !.sched = c]
              IN new \in Statuses /\ new.match = st.match /\ new.sched = c /\ new.tick = st.tick
         /\ \A t \in Ticks : LET new == [st EXCEPT !.tick = t]
              IN new \in Statuses /\ new.match = st.match /\ new.sched = st.sched /\ new.tick = t
<1>1. \A m \in Matches : LET new == [st EXCEPT !.match = m]
        IN new \in Statuses /\ new.match = m /\ new.sched = st.sched /\ new.tick = st.tick
  BY DEF Statuses, Matches
<1>2. \A c \in Scheds : LET new == [st EXCEPT !.sched = c]
        IN new \in Statuses /\ new.match = st.match /\ new.sched = c /\ new.tick = st.tick
  BY DEF Statuses, Scheds
<1>3. \A t \in Ticks : LET new == [st EXCEPT !.tick = t]
        IN new \in Statuses /\ new.match = st.match /\ new.sched = st.sched /\ new.tick = t
  BY DEF Statuses, Ticks
<1> QED BY <1>1, <1>2, <1>3

\* The match and the scheduler move together.
LEMMA BothMove ==
  ASSUME Complete(server), NEW m \in Matches, NEW c \in Scheds,
         m.state \in MatchStates, m = server.match \/ m.ver = server.match.ver + 1,
         c.state \in {"running", "stopped"}, c = server.sched \/ c.ver = server.sched.ver + 1,
         NEW new, new = [server EXCEPT !.match = m, !.sched = c]
  PROVE  Follows(new) /\ new.match = m /\ new.sched = c
<1>0. server \in Statuses
  BY DEF Complete
<1> DEFINE a == [server EXCEPT !.match = m]
<1>1. a \in Statuses /\ a.match = m /\ a.sched = server.sched /\ a.tick = server.tick
  BY <1>0, Replaced
<1>2. new = [a EXCEPT !.sched = c]
  OBVIOUS
<1> HIDE DEF a
<1>3. LET x == [a EXCEPT !.sched = c]
      IN x \in Statuses /\ x.match = a.match /\ x.sched = c /\ x.tick = a.tick
  BY <1>1, Replaced
<1>4. new \in Statuses /\ new.match = a.match /\ new.sched = c /\ new.tick = a.tick
  BY <1>2, <1>3, Zenon
<1> QED BY <1>1, <1>4, MovesOn

\* Whatever game-core is asked, its status follows the one it had; a match that
\* was paused or stopped leaves a stopped scheduler.
LEMMA HandledFollows ==
  ASSUME Complete(server), NEW req \in Requests, NEW arg,
         req = "window" => arg \in Windows, req = "interval" => arg \in Intervals
  PROVE  /\ Follows(Handled(req, arg))
         /\ req \in {"matchPause", "matchStop"} => Handled(req, arg).sched.state = "stopped"
<1>0. server \in Statuses /\ server.match.state \in MatchStates /\ server.sched.state \in {"running", "stopped"}
  BY DEF Complete
<1>m. server.match \in Matches /\ server.sched \in Scheds /\ server.tick \in Ticks
  BY MatchAndSched
<1>s. {"running", "paused", "finished"} \subseteq MatchStates
  BY DEF MatchStates
<1>1. ASSUME NEW state \in {"running", "paused", "finished"}
      PROVE  Follows([server EXCEPT !.match = MatchAs(state)])
  <2>1. MatchAs(state) \in Matches /\ MatchAs(state).state = state /\ MatchAs(state).ver = server.match.ver + 1
    BY <1>s, MatchAndSched
  <2> DEFINE new == [server EXCEPT !.match = MatchAs(state)]
  <2>2. new \in Statuses /\ new.match = MatchAs(state) /\ new.sched = server.sched /\ new.tick = server.tick
    BY <1>0, <2>1, Replaced
  <2> HIDE DEF new
  <2>3. Follows(new)
    BY <1>0, <1>s, <2>1, <2>2, MovesOn
  <2> QED BY <2>3 DEF new
<1>2. ASSUME NEW state \in {"running", "stopped"}
      PROVE  Follows([server EXCEPT !.sched = SchedAs(state)])
  <2>1. /\ SchedAs(state) \in Scheds /\ SchedAs(state).state = state
        /\ (SchedAs(state) = server.sched \/ SchedAs(state).ver = server.sched.ver + 1)
    BY MatchAndSched
  <2> DEFINE new == [server EXCEPT !.sched = SchedAs(state)]
  <2>2. new \in Statuses /\ new.match = server.match /\ new.sched = SchedAs(state) /\ new.tick = server.tick
    BY <1>0, <2>1, Replaced
  <2> HIDE DEF new
  <2>3. Follows(new)
    BY <1>0, <2>1, <2>2, MovesOn
  <2> QED BY <2>3 DEF new
<1>3. ASSUME NEW state \in {"paused", "finished"}
      PROVE  LET new == [server EXCEPT !.match = IF @.state = state THEN @ ELSE MatchAs(state),
                                       !.sched = SchedAs("stopped")]
             IN Follows(new) /\ new.sched.state = "stopped"
  <2> DEFINE m == IF server.match.state = state THEN server.match ELSE MatchAs(state)
             new == [server EXCEPT !.match = m, !.sched = SchedAs("stopped")]
  <2>1. /\ m \in Matches /\ m.state = state
        /\ (m = server.match \/ m.ver = server.match.ver + 1)
    BY <1>s, <1>m, MatchAndSched
  <2>2. /\ SchedAs("stopped") \in Scheds /\ SchedAs("stopped").state = "stopped"
        /\ (SchedAs("stopped") = server.sched \/ SchedAs("stopped").ver = server.sched.ver + 1)
    BY MatchAndSched
  <2>3. Follows(new) /\ new.sched.state = "stopped"
    <3> HIDE DEF m
    <3>1. new = [server EXCEPT !.match = m, !.sched = SchedAs("stopped")] /\ m.state \in MatchStates
      BY <1>s, <2>1
    <3> HIDE DEF new
    <3>2. Follows(new) /\ new.sched = SchedAs("stopped")
      BY <2>1, <2>2, <3>1, BothMove
    <3> QED BY <2>2, <3>2
  <2> QED BY <2>3
<1>4. ASSUME NEW w \in Windows
      PROVE  Follows([server EXCEPT !.match = [server.match EXCEPT !.window = w, !.ver = @ + 1]])
  <2> DEFINE m == [server.match EXCEPT !.window = w, !.ver = @ + 1]
             new == [server EXCEPT !.match = m]
  <2>1. m \in Matches /\ m.state = server.match.state /\ m.ver = server.match.ver + 1
    <3> DEFINE n == [server.match EXCEPT !.window = w]
    <3>1. n \in Matches /\ n.state = server.match.state /\ n.ver = server.match.ver
      BY <1>m, OneField
    <3>2. m = [n EXCEPT !.ver = server.match.ver + 1] /\ server.match.ver + 1 \in Nat
      BY <1>m DEF Matches
    <3> HIDE DEF n, m
    <3> QED BY <3>1, <3>2, OneField
  <2> HIDE DEF m
  <2>2. new \in Statuses /\ new.match = m /\ new.sched = server.sched /\ new.tick = server.tick
    BY <1>0, <2>1, Replaced
  <2> HIDE DEF new
  <2>3. Follows(new)
    BY <1>0, <2>1, <2>2, MovesOn
  <2> QED BY <2>3 DEF new, m
<1>5. ASSUME NEW i \in Intervals
      PROVE  Follows([server EXCEPT !.sched = [server.sched EXCEPT !.interval = i, !.ver = @ + 1]])
  <2> DEFINE c == [server.sched EXCEPT !.interval = i, !.ver = @ + 1]
             new == [server EXCEPT !.sched = c]
  <2>1. c \in Scheds /\ c.state = server.sched.state /\ c.ver = server.sched.ver + 1
    <3> DEFINE n == [server.sched EXCEPT !.interval = i]
    <3>1. n \in Scheds /\ n.state = server.sched.state /\ n.ver = server.sched.ver
      BY <1>m, OneField
    <3>2. c = [n EXCEPT !.ver = server.sched.ver + 1] /\ server.sched.ver + 1 \in Nat
      BY <1>m DEF Scheds
    <3> HIDE DEF n, c
    <3> QED BY <3>1, <3>2, OneField
  <2> HIDE DEF c
  <2>2. new \in Statuses /\ new.match = server.match /\ new.sched = c /\ new.tick = server.tick
    BY <1>0, <2>1, Replaced
  <2> HIDE DEF new
  <2>3. Follows(new)
    BY <1>0, <2>1, <2>2, MovesOn
  <2> QED BY <2>3 DEF new, c
<1>6. Follows([server EXCEPT !.tick = [id |-> @.id + 1, done |-> TRUE]])
  <2> DEFINE t == [id |-> server.tick.id + 1, done |-> TRUE]
             new == [server EXCEPT !.tick = t]
  <2>1. t \in Ticks /\ t.id = server.tick.id + 1
    BY <1>m DEF Ticks
  <2> HIDE DEF t
  <2>2. new \in Statuses /\ new.match = server.match /\ new.sched = server.sched /\ new.tick = t
    BY <1>0, <2>1, Replaced
  <2> HIDE DEF new
  <2>3. Follows(new)
    BY <1>0, <2>1, <2>2, TickMovesOn
  <2> QED BY <2>3 DEF new, t
<1>7. Follows(server)
  BY PastStays
<1> QED
  BY <1>1, <1>2, <1>3, <1>4, <1>5, <1>6, <1>7 DEF Handled, Requests

\* The scheduler's ticks and the monitor of the window, too, only move on.
LEMMA MovesFollow ==
  ASSUME Complete(server), ServerMoves
  PROVE  Follows(server')
<1>0. server \in Statuses /\ server.match \in Matches /\ server.sched \in Scheds /\ server.tick \in Ticks
  BY MatchAndSched DEF Complete
<1>1. CASE server' = [server EXCEPT !.tick = [id |-> @.id + 1, done |-> FALSE]]
  <2> DEFINE t == [id |-> server.tick.id + 1, done |-> FALSE]
  <2>1. t \in Ticks /\ t.id = server.tick.id + 1
    BY <1>0 DEF Ticks
  <2>2. server' = [server EXCEPT !.tick = t]
    BY <1>1
  <2> HIDE DEF t
  <2>3. server' \in Statuses /\ server'.match = server.match /\ server'.sched = server.sched /\ server'.tick = t
    BY <1>0, <2>1, <2>2, Replaced
  <2> QED BY <2>1, <2>3, TickMovesOn
<1>2. CASE ~server.tick.done /\ server' = [server EXCEPT !.tick.done = TRUE]
  <2> DEFINE t == [server.tick EXCEPT !.done = TRUE]
  <2>1. t \in Ticks /\ t.id = server.tick.id /\ t.done
    BY <1>0 DEF Ticks
  <2>2. server' = [server EXCEPT !.tick = t]
    BY <1>2
  <2> HIDE DEF t
  <2>3. server' \in Statuses /\ server'.match = server.match /\ server'.sched = server.sched /\ server'.tick = t
    BY <1>0, <2>1, <2>2, Replaced
  <2> QED BY <1>2, <2>1, <2>3, TickMovesOn
<1>3. ASSUME NEW ms \in {"running", "finished"}, NEW cs \in {"running", "stopped"},
             server' = [server EXCEPT !.match = MatchAs(ms), !.sched = SchedAs(cs)]
      PROVE  Follows(server')
  <2>1. MatchAs(ms) \in Matches /\ MatchAs(ms).state = ms /\ MatchAs(ms).ver = server.match.ver + 1 /\ ms \in MatchStates
    BY MatchAndSched DEF MatchStates
  <2>2. /\ SchedAs(cs) \in Scheds /\ SchedAs(cs).state = cs
        /\ (SchedAs(cs) = server.sched \/ SchedAs(cs).ver = server.sched.ver + 1)
    BY MatchAndSched
  <2> DEFINE m == MatchAs(ms)
             c == SchedAs(cs)
             new == [server EXCEPT !.match = m, !.sched = c]
  <2>3. m \in Matches /\ m.state \in MatchStates /\ m.ver = server.match.ver + 1
    BY <2>1
  <2>4. c \in Scheds /\ c.state \in {"running", "stopped"} /\ (c = server.sched \/ c.ver = server.sched.ver + 1)
    BY <2>2
  <2>5. server' = new /\ new = [server EXCEPT !.match = m, !.sched = c]
    BY <1>3
  <2> HIDE DEF m, c, new
  <2>6. Follows(new)
    BY <2>3, <2>4, <2>5, BothMove
  <2> QED BY <2>5, <2>6
<1> QED BY <1>1, <1>2, <1>3 DEF ServerMoves


-----------------------------------------------------------------------------
(* What a step does to the actions in flight.                              *)

\* Idle actions, empty answers and an unknown match are of their types.
LEMMA Empty ==
  /\ NoAnswer.snap \in Statuses /\ NoAnswer \in [res : {"none", "ok", "failed"}, snap : Statuses]
  /\ NoAnswer.res = "none" /\ NotLoaded \in Matches /\ NoScheduler \in Scheds
  /\ NotLoaded.state = "unloaded" /\ NoScheduler.state = "unloaded"
  /\ IdleOp \in OpRecord /\ IdleOp.kind = "none"
<1>1. NotLoaded \in Matches /\ NoScheduler \in Scheds
      /\ NotLoaded.state = "unloaded" /\ NoScheduler.state = "unloaded"
  BY DEF NotLoaded, NoScheduler, Matches, Scheds, Windows
<1>2. NoAnswer.snap \in Statuses /\ NoAnswer \in [res : {"none", "ok", "failed"}, snap : Statuses]
      /\ NoAnswer.res = "none"
  BY <1>1 DEF NoAnswer, Statuses, Matches, Scheds
<1>3. IdleOp \in OpRecord /\ IdleOp.kind = "none"
  BY <1>1, <1>2 DEF IdleOp, OpRecord, Arguments
<1> QED BY <1>1, <1>2, <1>3

\* Replacing one field of an action.
LEMMA OpField ==
  /\ \A op \in OpRecord : \A x \in Kinds \union {"none"} : LET new == [op EXCEPT !.kind = x]
       IN /\ new \in OpRecord /\ new.kind = x /\ new.step = op.step /\ new.arg = op.arg
          /\ new.base = op.base /\ new.got = op.got /\ new.ans = op.ans
  /\ \A op \in OpRecord : \A x \in Nat : LET new == [op EXCEPT !.step = x]
       IN /\ new \in OpRecord /\ new.kind = op.kind /\ new.step = x /\ new.arg = op.arg
          /\ new.base = op.base /\ new.got = op.got /\ new.ans = op.ans
  /\ \A op \in OpRecord : \A x \in Arguments : LET new == [op EXCEPT !.arg = x]
       IN /\ new \in OpRecord /\ new.kind = op.kind /\ new.step = op.step /\ new.arg = x
          /\ new.base = op.base /\ new.got = op.got /\ new.ans = op.ans
  /\ \A op \in OpRecord : \A x \in Scheds : LET new == [op EXCEPT !.base = x]
       IN /\ new \in OpRecord /\ new.kind = op.kind /\ new.step = op.step /\ new.arg = op.arg
          /\ new.base = x /\ new.got = op.got /\ new.ans = op.ans
  /\ \A op \in OpRecord : \A x \in Matches : LET new == [op EXCEPT !.got = x]
       IN /\ new \in OpRecord /\ new.kind = op.kind /\ new.step = op.step /\ new.arg = op.arg
          /\ new.base = op.base /\ new.got = x /\ new.ans = op.ans
  /\ \A op \in OpRecord : \A x \in [res : {"none", "ok", "failed"}, snap : Statuses] : LET new == [op EXCEPT !.ans = x]
       IN /\ new \in OpRecord /\ new.kind = op.kind /\ new.step = op.step /\ new.arg = op.arg
          /\ new.base = op.base /\ new.got = op.got /\ new.ans = x
<1>1. \A op \in OpRecord : \A x \in Kinds \union {"none"} : LET new == [op EXCEPT !.kind = x]
        IN /\ new \in OpRecord /\ new.kind = x /\ new.step = op.step /\ new.arg = op.arg
           /\ new.base = op.base /\ new.got = op.got /\ new.ans = op.ans
  BY DEF OpRecord
<1>2. \A op \in OpRecord : \A x \in Nat : LET new == [op EXCEPT !.step = x]
        IN /\ new \in OpRecord /\ new.kind = op.kind /\ new.step = x /\ new.arg = op.arg
           /\ new.base = op.base /\ new.got = op.got /\ new.ans = op.ans
  BY DEF OpRecord
<1>3. \A op \in OpRecord : \A x \in Arguments : LET new == [op EXCEPT !.arg = x]
        IN /\ new \in OpRecord /\ new.kind = op.kind /\ new.step = op.step /\ new.arg = x
           /\ new.base = op.base /\ new.got = op.got /\ new.ans = op.ans
  BY DEF OpRecord
<1>4. \A op \in OpRecord : \A x \in Scheds : LET new == [op EXCEPT !.base = x]
        IN /\ new \in OpRecord /\ new.kind = op.kind /\ new.step = op.step /\ new.arg = op.arg
           /\ new.base = x /\ new.got = op.got /\ new.ans = op.ans
  BY DEF OpRecord
<1>5. \A op \in OpRecord : \A x \in Matches : LET new == [op EXCEPT !.got = x]
        IN /\ new \in OpRecord /\ new.kind = op.kind /\ new.step = op.step /\ new.arg = op.arg
           /\ new.base = op.base /\ new.got = x /\ new.ans = op.ans
  BY DEF OpRecord
<1>6. \A op \in OpRecord : \A x \in [res : {"none", "ok", "failed"}, snap : Statuses] : LET new == [op EXCEPT !.ans = x]
        IN /\ new \in OpRecord /\ new.kind = op.kind /\ new.step = op.step /\ new.arg = op.arg
           /\ new.base = op.base /\ new.got = op.got /\ new.ans = x
  BY DEF OpRecord
<1> QED BY <1>1, <1>2, <1>3, <1>4, <1>5, <1>6

\* A button or Enter starts one of the actions, with the argument it needs.
LEMMA Begins ==
  ASSUME NEW s \in Slots, Click(s) \/ PressEnter(s)
  PROVE  \E kind \in Kinds, arg \in Arguments :
            /\ Begin(s, kind, arg)
            /\ kind = "window" => arg \in Windows
            /\ kind = "interval" => arg \in Intervals
BY DEF Click, PressEnter, StartGameMatch, PauseGameMatch, ResumeGameMatch, StopGameMatch,
   StartGameScheduler, StopGameScheduler, UpdateGameMatchSchedule, UpdateGameScheduler,
   RefreshGameStatus, AdvanceGameTick, RecomputeGameScoring, AuditGameScoring,
   RefreshRuntimeHealth, Kinds, Arguments

\* A new action is at its first request, and remembers the scheduler that is shown.
LEMMA BeginOps ==
  ASSUME PanelTypes, NEW s \in Slots, Click(s) \/ PressEnter(s)
  PROVE  \E op \in OpRecord :
            /\ op.kind \in Kinds /\ op.step = 1 /\ op.base = panel.sched /\ op.ans = NoAnswer
            /\ OpSound(op)
            /\ ops[s].kind = "none" /\ ops' = [ops EXCEPT ![s] = op]
            /\ pending' = op.kind
            /\ quiet' = (IF Suppresses(op.kind) THEN Len(queue) ELSE quiet)
            /\ left' \in [events : Nat, actions : Nat]
            /\ UNCHANGED <<server, cached, queue, panel, audit>>
<1>1. PICK kind \in Kinds, arg \in Arguments :
         /\ Begin(s, kind, arg)
         /\ kind = "window" => arg \in Windows
         /\ kind = "interval" => arg \in Intervals
  BY Begins
<1> DEFINE op == [IdleOp EXCEPT !.kind = kind, !.step = 1, !.arg = arg, !.base = panel.sched]
<1>2. panel.sched \in Scheds
  BY DEF PanelTypes, Statuses, Scheds
<1>3. IdleOp.ans = NoAnswer
  BY DEF IdleOp
<1>4. op \in OpRecord /\ op.kind = kind /\ op.step = 1 /\ op.arg = arg /\ op.base = panel.sched /\ op.ans = NoAnswer
  <2> DEFINE a == [IdleOp EXCEPT !.kind = kind]
             b == [a EXCEPT !.step = 1]
             c == [b EXCEPT !.arg = arg]
  <2>0. op = [c EXCEPT !.base = panel.sched]
    OBVIOUS
  <2> HIDE DEF op
  <2>1. a \in OpRecord /\ a.kind = kind /\ a.ans = NoAnswer
    BY <1>3, Empty, OpField
  <2> HIDE DEF a
  <2>2. b \in OpRecord /\ b.kind = kind /\ b.step = 1 /\ b.ans = NoAnswer
    BY <2>1, OpField
  <2> HIDE DEF b
  <2>3. c \in OpRecord /\ c.kind = kind /\ c.step = 1 /\ c.arg = arg /\ c.ans = NoAnswer
    BY <2>2, OpField
  <2> HIDE DEF c
  <2> QED BY <1>2, <2>0, <2>3, OpField
<1>5. ops' = [ops EXCEPT ![s] = op]
  BY <1>1 DEF Begin
<1>6. 1 \in 1..Len(Script(kind))
  BY DEF Script, Kinds
<1> HIDE DEF op
<1>7. OpSound(op)
  BY <1>1, <1>4, <1>6 DEF OpSound
<1>8. ops[s].kind = "none"
  BY <1>1 DEF Begin, InFlight
<1>9. left' \in [events : Nat, actions : Nat]
  BY <1>1 DEF Begin, PanelTypes
<1>10. /\ pending' = kind /\ quiet' = (IF Suppresses(kind) THEN Len(queue) ELSE quiet)
       /\ UNCHANGED <<server, cached, queue, panel, audit>>
  BY <1>1 DEF Begin, Suppress
<1> QED BY <1>4, <1>5, <1>7, <1>8, <1>9, <1>10

\* The request of an action in flight.
LEMMA AtRequest ==
  ASSUME PanelTypes, NEW s \in Slots, ops[s].kind # "none"
  PROVE  /\ ops[s] \in OpRecord /\ ops[s].kind \in Kinds /\ ops[s].step \in 1..Len(Script(ops[s].kind))
         /\ Request(s) = Script(ops[s].kind)[ops[s].step]
         /\ Request(s) \in Requests
         /\ Request(s) = "window" => ops[s].arg \in Windows
         /\ Request(s) = "interval" => ops[s].arg \in Intervals
<1>1. /\ ops[s] \in OpRecord /\ ops[s].kind \in Kinds /\ ops[s].step \in 1..Len(Script(ops[s].kind))
      /\ Request(s) = Script(ops[s].kind)[ops[s].step]
  BY DEF PanelTypes, OpRecord, OpSound, Request
<1>2. /\ Request(s) \in Requests
      /\ Request(s) = "window" => ops[s].kind = "window"
      /\ Request(s) = "interval" => ops[s].kind = "interval"
  BY <1>1, RequestRows
<1> QED BY <1>1, <1>2 DEF PanelTypes, OpSound

\* Which request an action in flight is at.
SlotRows(k, n, len, req) ==
    /\ k \in Kinds /\ req \in Requests /\ len \in Nat /\ n \in Nat /\ n >= 1 /\ n <= len
    /\ req = "matchStart" <=> k = "start" /\ n = 1
    /\ req = "matchPause" <=> k = "pause" /\ n = 1
    /\ req = "matchStop" <=> k = "stop" /\ n = 1
    /\ req = "matchResume" <=> k = "resume" /\ n = 1
    /\ (k \in {"start", "resume"} /\ n = 2) => req = "schedStart"
    /\ (k \in {"start", "resume"} /\ req = "schedStart") => n = 2
    /\ req = "schedStart" => k \in {"start", "resume", "schedStart"}
    /\ req = "status" => /\ k \in {"pause", "resume", "status"}
                         /\ k = "resume" => n = 4
    /\ req = "advance" <=> k = "advance" /\ n = 1
    /\ k = "advance" => len = 4 /\ (n = 4 <=> req = "audit")
    /\ (k = "advance" /\ n > 1) => req \in {"feeds", "recompute", "audit"}
    /\ (req = "window" => k = "window") /\ (req = "interval" => k = "interval")
    /\ (req = "schedStop" => k = "schedStop") /\ (req = "runtime" <=> k = "runtime")
    /\ k = "runtime" => n = 1 /\ len = 1
    /\ k = "status" => n = 1 /\ len = 1 /\ req = "status"
    /\ k \in {"recompute", "audit"} => len = 1 /\ req = k

\* The action of a slot is at one of the requests of its handler.
LEMMA RequestOfSlot ==
  ASSUME PanelTypes, NEW s \in Slots, ops[s].kind # "none"
  PROVE  SlotRows(ops[s].kind, ops[s].step, Len(Script(ops[s].kind)), Request(s))
<1> DEFINE k == ops[s].kind
           n == ops[s].step
<1>1. k \in Kinds /\ n \in 1..Len(Script(k)) /\ Request(s) = Script(k)[n]
  BY AtRequest
<1> HIDE DEF k, n
<1>2. SlotRows(k, n, Len(Script(k)), Script(k)[n])
  BY <1>1, RequestRows DEF SlotRows
<1> QED BY <1>1, <1>2 DEF k, n

\* A request that is served gets its answer and changes nothing else of its action.
\* An answer that tells something tells game-core's present status, and so does an
\* audit that fails.
LEMMA ServeOps ==
  ASSUME PanelTypes, NEW s \in Slots, Serve(s)
  PROVE  \E op \in OpRecord :
            /\ ops[s].kind # "none" /\ ops[s].ans.res = "none"
            /\ ops' = [ops EXCEPT ![s] = op]
            /\ op.kind = ops[s].kind /\ op.step = ops[s].step /\ op.arg = ops[s].arg
            /\ op.base = ops[s].base /\ op.got = ops[s].got
            /\ op.ans.res \in {"ok", "failed"}
            /\ (op.ans.res = "ok" /\ Request(s) # "feeds") => op.ans.snap = server'
            /\ Request(s) = "audit" => op.ans.snap = server'
            /\ (op.ans.res = "ok" /\ Request(s) \in {"matchPause", "matchStop"}) =>
                  server'.sched.state = "stopped"
            /\ Follows(server')
            /\ hist' \in [missed : BOOLEAN, disturbed : BOOLEAN, acked : [match : Nat, sched : Nat]]
            /\ hist'.disturbed = hist.disturbed /\ hist'.acked = hist.acked
            /\ (hist.missed /\ ~hist'.missed) =>
                  Request(s) = "status" /\ op.ans.res = "ok" /\ queue = <<>>
            /\ UNCHANGED <<cached, queue, panel, pending, quiet, audit, left>>
<1>0. ops[s].kind # "none" /\ ops[s].ans.res = "none" /\ UNCHANGED <<cached, queue, panel, pending, quiet, audit, left>>
  BY DEF Serve
<1>1. /\ ops[s] \in OpRecord /\ Request(s) \in Requests
      /\ Request(s) = "window" => ops[s].arg \in Windows
      /\ Request(s) = "interval" => ops[s].arg \in Intervals
  BY <1>0, AtRequest
<1>2. Complete(server) /\ ops \in [Slots -> OpRecord]
      /\ hist \in [missed : BOOLEAN, disturbed : BOOLEAN, acked : [match : Nat, sched : Nat]]
  BY DEF PanelTypes
<1> DEFINE req == Request(s)
           new == Handled(req, ops[s].arg)
           told == IF req = "feeds" THEN NoAnswer.snap ELSE new
           With(ans) == [ops[s] EXCEPT !.ans = ans]
<1>3. /\ Follows(new) /\ new \in Statuses
      /\ req \in {"matchPause", "matchStop"} => new.sched.state = "stopped"
      /\ req = "audit" => new = server
  <2>1. Follows(new) /\ (req \in {"matchPause", "matchStop"} => new.sched.state = "stopped")
    BY <1>1, <1>2, HandledFollows
  <2>2. req = "audit" => new = server
    BY DEF Handled
  <2> QED BY <2>1, <2>2 DEF Follows, Complete
<1>4. Follows(server) /\ server \in Statuses
  BY <1>2, PastStays DEF Complete
<1>5. \A res \in {"ok", "failed"}, snap \in Statuses :
        LET op == With([res |-> res, snap |-> snap])
        IN /\ op \in OpRecord /\ op.ans.res = res /\ op.ans.snap = snap
           /\ op.kind = ops[s].kind /\ op.step = ops[s].step /\ op.arg = ops[s].arg
           /\ op.base = ops[s].base /\ op.got = ops[s].got
  BY <1>1 DEF OpRecord
<1>6. \A ans : [ops EXCEPT ![s].ans = ans] = [ops EXCEPT ![s] = With(ans)]
  BY <1>2
<1> HIDE DEF With
<1>7. told \in Statuses
  BY <1>3, Empty
<1>8. CASE /\ server' = new
           /\ \E res \in {"ok", "failed"} :
                /\ ops' = [ops EXCEPT ![s].ans = [res |-> res, snap |-> told]]
                /\ hist' = [hist EXCEPT !.missed = @ /\ ~(/\ req = "status" /\ res = "ok" /\ queue = <<>>)]
  <2> HIDE DEF new, req
  <2>1. PICK res \in {"ok", "failed"} :
              /\ ops' = [ops EXCEPT ![s].ans = [res |-> res, snap |-> told]]
              /\ hist' = [hist EXCEPT !.missed = @ /\ ~(/\ req = "status" /\ res = "ok" /\ queue = <<>>)]
    BY <1>8
  <2> DEFINE op == With([res |-> res, snap |-> told])
  <2>2. /\ hist' \in [missed : BOOLEAN, disturbed : BOOLEAN, acked : [match : Nat, sched : Nat]]
        /\ hist'.disturbed = hist.disturbed /\ hist'.acked = hist.acked
    BY <1>2, <2>1
  <2>3. (hist.missed /\ ~hist'.missed) => req = "status" /\ res = "ok" /\ queue = <<>>
    BY <1>2, <2>1
  <2>4. ops' = [ops EXCEPT ![s] = op]
    BY <1>6, <2>1
  <2>5. /\ op \in OpRecord /\ op.ans.res = res /\ op.ans.snap = told
        /\ op.kind = ops[s].kind /\ op.step = ops[s].step /\ op.arg = ops[s].arg
        /\ op.base = ops[s].base /\ op.got = ops[s].got
    BY <1>5, <1>7
  <2>6. server' = new /\ Follows(server') /\ (req # "feeds" => told = server')
    BY <1>3, <1>8
  <2> HIDE DEF op, told
  <2> QED BY <1>0, <1>3, <2>2, <2>3, <2>4, <2>5, <2>6 DEF req
<1>9. CASE /\ ops' = [ops EXCEPT ![s].ans =
                        [res |-> "failed", snap |-> IF req = "audit" THEN server ELSE NoAnswer.snap]]
           /\ UNCHANGED <<server, hist>>
  <2> HIDE DEF new
  <2> DEFINE snap == IF req = "audit" THEN server ELSE NoAnswer.snap
             op == With([res |-> "failed", snap |-> snap])
  <2>1. snap \in Statuses /\ (req = "audit" => snap = server)
    BY <1>4, Empty
  <2>2. ops' = [ops EXCEPT ![s] = op] /\ server' = server /\ hist' = hist
    BY <1>6, <1>9
  <2>3. /\ op \in OpRecord /\ op.ans.res = "failed" /\ op.ans.snap = snap
        /\ op.kind = ops[s].kind /\ op.step = ops[s].step /\ op.arg = ops[s].arg
        /\ op.base = ops[s].base /\ op.got = ops[s].got
    BY <1>5, <2>1
  <2> HIDE DEF op, snap
  <2> QED BY <1>0, <1>2, <1>4, <2>1, <2>2, <2>3
<1> QED BY <1>8, <1>9 DEF Serve


\* The parts of the page's status after an answer.
NextMatch(op, req, ok) ==
    IF ok /\ req \in {"matchStart", "window", "matchPause", "matchStop", "status"} THEN op.ans.snap.match
    ELSE IF req = "schedStart" /\ op.kind \in {"start", "resume"} /\ (ok \/ op.kind = "resume") THEN op.got
    ELSE IF ok /\ req = "advance" THEN NotLoaded
    ELSE panel.match
NextSched(op, req, ok) ==
    IF ok /\ req \in {"matchPause", "matchStop"} THEN StoppedLocally
    ELSE IF ok /\ req \in {"schedStart", "schedStop", "interval", "status"} THEN op.ans.snap.sched
    ELSE IF ~ok /\ req = "schedStart" /\ op.kind = "resume" THEN op.base
    ELSE IF ok /\ req = "advance" THEN NoScheduler
    ELSE panel.sched
NextTick(op, req, ok) == IF ok /\ req \in {"status", "advance"} THEN op.ans.snap.tick ELSE panel.tick

HasParts(new, m, c, t) == new \in Statuses /\ new.match = m /\ new.sched = c /\ new.tick = t

\* The scheduler the page stops by itself keeps the interval and the version shown.
LEMMA StoppedShown ==
  ASSUME panel \in Statuses
  PROVE  /\ StoppedLocally \in Scheds /\ StoppedLocally.state = "stopped"
         /\ panel.sched.state = "unloaded" => StoppedLocally.ver = 0
         /\ panel.sched.state # "unloaded" =>
               StoppedLocally.ver = panel.sched.ver /\ StoppedLocally.interval = panel.sched.interval
<1>1. panel.sched \in Scheds
  BY DEF Statuses, Scheds
<1>2. CASE panel.sched.state = "unloaded"
  BY <1>2 DEF StoppedLocally, Scheds, Intervals
<1>3. CASE panel.sched.state # "unloaded"
  <2>1. StoppedLocally = [panel.sched EXCEPT !.state = "stopped"]
    BY <1>3 DEF StoppedLocally
  <2> QED BY <1>1, <1>3, <2>1 DEF Scheds
<1> QED BY <1>2, <1>3

\* What an answer makes of the page, part by part.
LEMMA AnswerPanel ==
  ASSUME panel \in Statuses, NEW op \in OpRecord, NEW req \in Requests,
         req = "schedStart" => op.kind \in {"start", "resume", "schedStart"}
  PROVE  /\ HasParts(AfterSuccess(op, req, op.ans.snap), NextMatch(op, req, TRUE), NextSched(op, req, TRUE),
                     NextTick(op, req, TRUE))
         /\ HasParts(AfterFailure(op, req), NextMatch(op, req, FALSE), NextSched(op, req, FALSE),
                     NextTick(op, req, FALSE))
<1>0. /\ op.got \in Matches /\ op.base \in Scheds /\ op.ans.snap \in Statuses
      /\ op.ans.snap.match \in Matches /\ op.ans.snap.sched \in Scheds /\ op.ans.snap.tick \in Ticks
  BY DEF OpRecord, Statuses, Matches, Scheds, Ticks
<1>p. HasParts(panel, panel.match, panel.sched, panel.tick)
  BY DEF HasParts
<1>1. \A m \in Matches : HasParts([panel EXCEPT !.match = m], m, panel.sched, panel.tick)
  BY Replaced DEF HasParts
<1>2. \A c \in Scheds : HasParts([panel EXCEPT !.sched = c], panel.match, c, panel.tick)
  BY Replaced DEF HasParts
<1>3. \A m \in Matches, c \in Scheds : HasParts([panel EXCEPT !.match = m, !.sched = c], m, c, panel.tick)
  <2> SUFFICES ASSUME NEW m \in Matches, NEW c \in Scheds
               PROVE  HasParts([panel EXCEPT !.match = m, !.sched = c], m, c, panel.tick)
    OBVIOUS
  <2> DEFINE a == [panel EXCEPT !.match = m]
  <2>1. HasParts(a, m, panel.sched, panel.tick)
    BY <1>1
  <2> HIDE DEF a
  <2>2. HasParts([a EXCEPT !.sched = c], a.match, c, a.tick)
    BY <2>1, Replaced DEF HasParts
  <2>3. HasParts([a EXCEPT !.sched = c], m, c, panel.tick)
    BY <2>1, <2>2 DEF HasParts
  <2> QED BY <2>3 DEF a
<1>4. StoppedLocally \in Scheds
  BY StoppedShown
<1>5. HasParts(op.ans.snap, op.ans.snap.match, op.ans.snap.sched, op.ans.snap.tick)
  BY <1>0 DEF HasParts
<1>6. HasParts([match |-> NotLoaded, sched |-> NoScheduler, tick |-> op.ans.snap.tick],
               NotLoaded, NoScheduler, op.ans.snap.tick)
  BY <1>0, Empty DEF HasParts, Statuses, Matches, Scheds, Ticks
<1>7. HasParts(AfterFailure(op, req), NextMatch(op, req, FALSE), NextSched(op, req, FALSE),
               NextTick(op, req, FALSE))
  BY <1>0, <1>p, <1>3 DEF AfterFailure, NextMatch, NextSched, NextTick
<1>8. CASE req \in {"matchStart", "window"}
  BY <1>0, <1>1, <1>7, <1>8 DEF AfterSuccess, NextMatch, NextSched, NextTick
<1>9. CASE req \in {"matchPause", "matchStop"}
  BY <1>0, <1>3, <1>4, <1>7, <1>9 DEF AfterSuccess, NextMatch, NextSched, NextTick
<1>10. CASE req = "schedStart" /\ op.kind \in {"start", "resume"}
  <2>1. AfterSuccess(op, req, op.ans.snap) = [panel EXCEPT !.match = op.got, !.sched = op.ans.snap.sched]
    BY <1>10 DEF AfterSuccess
  <2>2. /\ NextMatch(op, req, TRUE) = op.got /\ NextSched(op, req, TRUE) = op.ans.snap.sched
        /\ NextTick(op, req, TRUE) = panel.tick
    BY <1>10 DEF NextMatch, NextSched, NextTick
  <2>3. HasParts([panel EXCEPT !.match = op.got, !.sched = op.ans.snap.sched],
                 op.got, op.ans.snap.sched, panel.tick)
    BY <1>0, <1>3, Zenon
  <2> QED BY <1>7, <2>1, <2>2, <2>3
<1>11. CASE req \in {"schedStop", "interval"} \/ (req = "schedStart" /\ op.kind = "schedStart")
  BY <1>0, <1>2, <1>7, <1>11 DEF AfterSuccess, NextMatch, NextSched, NextTick
<1>12. CASE req = "status"
  BY <1>5, <1>7, <1>12 DEF AfterSuccess, NextMatch, NextSched, NextTick
<1>13. CASE req = "advance"
  BY <1>6, <1>7, <1>13 DEF AfterSuccess, NextMatch, NextSched, NextTick
<1>14. CASE req \in {"matchResume", "recompute", "audit", "feeds", "runtime"}
  BY <1>p, <1>7, <1>14 DEF AfterSuccess, NextMatch, NextSched, NextTick
<1> QED BY <1>8, <1>9, <1>10, <1>11, <1>12, <1>13, <1>14 DEF Requests

GoOn(s) ==
    /\ ops[s].step < Len(Script(ops[s].kind))
    /\ ops[s].ans.res = "ok" \/ Request(s) \in Tolerated(ops[s].kind)

\* An answer moves its action to the next request or ends it.
LEMMA AnswerOps ==
  ASSUME PanelTypes, NEW s \in Slots, Answer(s)
  PROVE  \E next \in OpRecord :
            /\ ops[s].kind # "none" /\ ops[s].ans.res # "none"
            /\ ops' = [ops EXCEPT ![s] = next] /\ OpSound(next)
            /\ GoOn(s) => /\ next.kind = ops[s].kind /\ next.step = ops[s].step + 1
                          /\ next.ans = NoAnswer /\ next.base = ops[s].base
                          /\ next.got = IF ops[s].step = 1 THEN ops[s].ans.snap.match ELSE ops[s].got
                          /\ UNCHANGED <<pending, quiet>>
            /\ ~GoOn(s) => /\ next = IdleOp /\ pending' = "none"
                           /\ quiet' = IF Suppresses(ops[s].kind) THEN Len(queue) ELSE quiet
            /\ UNCHANGED <<server, cached, queue, left>>
<1>0. /\ ops[s].kind # "none" /\ ops[s].ans.res # "none" /\ UNCHANGED <<server, cached, queue, left>>
      /\ ops \in [Slots -> OpRecord]
  BY DEF Answer, PanelTypes
<1>1. /\ ops[s] \in OpRecord /\ ops[s].kind \in Kinds /\ ops[s].step \in 1..Len(Script(ops[s].kind))
      /\ ops[s].step \in Nat /\ ops[s].ans.snap.match \in Matches
  BY <1>0, AtRequest DEF OpRecord, Statuses, Matches
<1>2. CASE GoOn(s)
  <2> DEFINE n == ops[s].step + 1
             a == [ops[s] EXCEPT !.step = n]
             b == [a EXCEPT !.ans = NoAnswer]
             got == IF ops[s].step = 1 THEN ops[s].ans.snap.match ELSE ops[s].got
             next == [b EXCEPT !.got = got]
  <2>1. ops' = [ops EXCEPT ![s] = next] /\ UNCHANGED <<pending, quiet>>
    BY <1>0, <1>2 DEF Answer, GoOn
  <2>2. got \in Matches
    BY <1>1 DEF OpRecord
  <2>n. n \in Nat /\ n = ops[s].step + 1
    BY <1>1
  <2> HIDE DEF got, n
  <2>3. /\ a \in OpRecord /\ a.kind = ops[s].kind /\ a.step = n /\ a.base = ops[s].base
        /\ a.arg = ops[s].arg
    BY <1>1, <2>n, OpField
  <2> HIDE DEF a
  <2>4. /\ b \in OpRecord /\ b.kind = a.kind /\ b.step = a.step /\ b.base = a.base /\ b.ans = NoAnswer
        /\ b.arg = a.arg
    BY <2>3, OpField, Empty
  <2> HIDE DEF b
  <2>5. /\ next \in OpRecord /\ next.kind = b.kind /\ next.step = b.step /\ next.base = b.base
        /\ next.ans = NoAnswer /\ next.got = got /\ next.arg = b.arg
    BY <2>2, <2>4, OpField
  <2> HIDE DEF next
  <2>6. OpSound(next)
    <3>1. ops[s].step + 1 \in 1..Len(Script(ops[s].kind))
      <4>1. Len(Script(ops[s].kind)) \in Nat
        BY <1>1, RequestRows
      <4> QED BY <1>1, <1>2, <4>1 DEF GoOn
    <3>2. OpSound(ops[s])
      BY DEF PanelTypes
    <3> QED BY <1>0, <2>n, <2>3, <2>4, <2>5, <3>1, <3>2 DEF OpSound
  <2> QED BY <1>0, <1>2, <2>n, <2>1, <2>3, <2>4, <2>5, <2>6 DEF got
<1>3. CASE ~GoOn(s)
  <2>1. /\ ops' = [ops EXCEPT ![s] = IdleOp] /\ pending' = "none"
        /\ quiet' = IF Suppresses(ops[s].kind) THEN Len(queue) ELSE quiet
    BY <1>3 DEF Answer, GoOn, Finish, Suppress
  <2>2. OpSound(IdleOp)
    BY Empty DEF OpSound
  <2> QED BY <1>0, <1>3, <2>1, <2>2, Empty
<1> QED BY <1>2, <1>3


-----------------------------------------------------------------------------
(* Types.                                                                  *)

HistRecord == [missed : BOOLEAN, disturbed : BOOLEAN, acked : [match : Nat, sched : Nat]]

\* The page starts with the status game-core has, or with one before the match.
LEMMA TypesStart == Init => PanelTypes
<1> SUFFICES ASSUME Init PROVE PanelTypes
  OBVIOUS
<1>1. PICK started \in BOOLEAN :
        server = [match |-> [state |-> IF started THEN "running" ELSE "not_started",
                             window |-> "window", ver |-> 1],
                  sched |-> [state |-> IF started THEN "running" ELSE "stopped",
                             interval |-> DefaultInterval, ver |-> 1],
                  tick  |-> [id |-> IF started THEN 1 ELSE 0, done |-> ~started]]
  BY DEF Init
<1>2. server \in Statuses
  <2>1. /\ (IF started THEN "running" ELSE "not_started") \in MatchStates \union {"unloaded"}
        /\ (IF started THEN "running" ELSE "stopped") \in {"running", "stopped", "unloaded"}
        /\ (IF started THEN 1 ELSE 0) \in Nat /\ (~started) \in BOOLEAN
    BY DEF MatchStates
  <2>2. "window" \in Windows /\ DefaultInterval \in Intervals \union {0}
    BY DEF Windows, Intervals
  <2> HIDE DEF DefaultInterval
  <2> QED BY <1>1, <2>1, <2>2 DEF Statuses
<1>3. Complete(server)
  BY <1>1, <1>2 DEF Complete, MatchStates
<1>4. queue \in Seq(Statuses) /\ Len(queue) = 1 /\ cached \in Statuses /\ panel \in Statuses
  BY <1>2 DEF Init
<1>5. ops \in [Slots -> OpRecord] /\ \A s \in Slots : OpSound(ops[s])
  BY Empty DEF Init, OpSound
<1>6. quiet \in Int /\ quiet >= Loud /\ quiet <= Len(queue) /\ Len(queue) <= QueueSize
  BY <1>4, OrganizerAssumption DEF Init, Loud
<1>7. audit \in [last : Nat, asked : Nat] /\ left \in [events : Nat, actions : Nat]
  BY OrganizerAssumption DEF Init
<1>8. hist \in [missed : BOOLEAN, disturbed : BOOLEAN, acked : [match : Nat, sched : Nat]]
  BY DEF Init
<1> QED BY <1>3, <1>4, <1>5, <1>6, <1>7, <1>8 DEF Init, PanelTypes

\* An audit remembers a tick.
LEMMA AuditTypes ==
  ASSUME audit \in [last : Nat, asked : Nat], NEW tick \in Ticks
  PROVE  AuditAfter(tick) \in [last : Nat, asked : Nat]
BY DEF AuditAfter, Ticks

\* The frames of a channel.
LEMMA QueueFacts ==
  ASSUME queue \in Seq(Statuses)
  PROVE  /\ Len(queue) \in Nat
         /\ \A st \in Statuses :
              /\ Append(queue, st) \in Seq(Statuses) /\ Len(Append(queue, st)) = Len(queue) + 1
              /\ Append(queue, st)[Len(queue) + 1] = st
              /\ \A i \in 1..Len(queue) : Append(queue, st)[i] = queue[i]
         /\ queue # <<>> =>
              /\ Len(queue) >= 1 /\ Head(queue) = queue[1] /\ Head(queue) \in Statuses
              /\ Tail(queue) \in Seq(Statuses) /\ Len(Tail(queue)) = Len(queue) - 1
              /\ \A i \in 1..(Len(queue) - 1) : Tail(queue)[i] = queue[i + 1]
OBVIOUS

\* The page's status after an answer.
LEMMA AnswerParts ==
  ASSUME PanelTypes, NEW s \in Slots, Answer(s)
  PROVE  LET ok == ops[s].ans.res = "ok"
         IN HasParts(panel', NextMatch(ops[s], Request(s), ok), NextSched(ops[s], Request(s), ok),
                     NextTick(ops[s], Request(s), ok))
<1>0. panel \in Statuses /\ ops[s].kind # "none"
  BY DEF PanelTypes, Answer
<1>1. /\ ops[s] \in OpRecord /\ Request(s) \in Requests
      /\ Request(s) = "schedStart" => ops[s].kind \in {"start", "resume", "schedStart"}
  BY <1>0, AtRequest, RequestRows
<1>2. panel' = IF ops[s].ans.res = "ok" THEN AfterSuccess(ops[s], Request(s), ops[s].ans.snap)
                                         ELSE AfterFailure(ops[s], Request(s))
  BY DEF Answer
<1> DEFINE op == ops[s]
           req == Request(s)
<1>3. op \in OpRecord /\ req \in Requests /\ (req = "schedStart" => op.kind \in {"start", "resume", "schedStart"})
  BY <1>1
<1>4. panel' = IF op.ans.res = "ok" THEN AfterSuccess(op, req, op.ans.snap) ELSE AfterFailure(op, req)
  BY <1>2
<1> HIDE DEF op, req
<1>5. /\ HasParts(AfterSuccess(op, req, op.ans.snap), NextMatch(op, req, TRUE), NextSched(op, req, TRUE),
                  NextTick(op, req, TRUE))
      /\ HasParts(AfterFailure(op, req), NextMatch(op, req, FALSE), NextSched(op, req, FALSE),
                  NextTick(op, req, FALSE))
  BY <1>0, <1>3, AnswerPanel
<1>6. CASE op.ans.res = "ok"
  <2>1. (op.ans.res = "ok") = TRUE
    BY <1>6
  <2> QED BY <1>4, <1>5, <1>6, <2>1 DEF op, req
<1>7. CASE op.ans.res # "ok"
  <2>1. (op.ans.res = "ok") = FALSE
    BY <1>7
  <2> QED BY <1>4, <1>5, <1>7, <2>1 DEF op, req
<1> QED BY <1>6, <1>7

\* The page's history after an answer.
LEMMA AnswerHist ==
  ASSUME PanelTypes, NEW s \in Slots, Answer(s)
  PROVE  /\ hist' \in HistRecord /\ hist'.disturbed = hist.disturbed
         /\ hist'.missed <=> hist.missed \/ (ops[s].ans.res = "ok" /\ Request(s) = "advance")
         /\ hist'.acked = IF ops[s].ans.res = "ok" /\ Suppresses(ops[s].kind)
                          THEN AckedBy(Request(s), ops[s].ans.snap) ELSE hist.acked
<1>0. /\ hist \in HistRecord /\ hist.acked \in [match : Nat, sched : Nat] /\ ops[s] \in OpRecord
      /\ hist.missed \in BOOLEAN
  BY DEF PanelTypes, HistRecord
<1> DEFINE ok == ops[s].ans.res = "ok"
           lost == ok /\ Request(s) = "advance"
           acked == IF ok /\ Suppresses(ops[s].kind) THEN AckedBy(Request(s), ops[s].ans.snap) ELSE hist.acked
           a == [hist EXCEPT !.missed = @ \/ lost]
<1>1. hist' = [a EXCEPT !.acked = acked]
  BY DEF Answer
<1>2. acked \in [match : Nat, sched : Nat]
  <2>1. AckedBy(Request(s), ops[s].ans.snap) \in [match : Nat, sched : Nat]
    BY <1>0 DEF AckedBy, OpRecord, Statuses
  <2> HIDE DEF ok
  <2> QED BY <1>0, <2>1
<1> HIDE DEF acked
<1>3. a \in HistRecord /\ a.disturbed = hist.disturbed /\ (a.missed <=> hist.missed \/ lost)
  <2>1. (hist.missed \/ lost) \in BOOLEAN
    OBVIOUS
  <2> HIDE DEF lost
  <2> QED BY <1>0, <2>1 DEF HistRecord
<1> HIDE DEF a
<1>4. hist' \in HistRecord /\ hist'.disturbed = a.disturbed /\ hist'.missed = a.missed /\ hist'.acked = acked
  BY <1>1, <1>2, <1>3 DEF HistRecord
<1> QED BY <1>3, <1>4 DEF acked

\* Every step keeps the types.
LEMMA TypesStep == PanelTypes /\ [Next]_vars => PanelTypes'
<1> SUFFICES ASSUME PanelTypes, [Next]_vars PROVE PanelTypes'
  OBVIOUS
<1>0. /\ Complete(server) /\ server \in Statuses /\ cached \in Statuses /\ panel \in Statuses
      /\ queue \in Seq(Statuses) /\ Len(queue) \in Nat /\ ops \in [Slots -> OpRecord]
      /\ audit \in [last : Nat, asked : Nat] /\ hist \in HistRecord
      /\ left \in [events : Nat, actions : Nat] /\ QueueSize \in Nat
  BY QueueFacts, OrganizerAssumption DEF PanelTypes, Complete, HistRecord
<1>1. ASSUME NEW s \in Slots, NEW op \in OpRecord, OpSound(op), ops' = [ops EXCEPT ![s] = op]
      PROVE  ops' \in [Slots -> OpRecord] /\ \A t \in Slots : OpSound(ops[t])'
  BY <1>0, <1>1 DEF PanelTypes, OpSound
<1>2. ASSUME NEW s \in Slots, Click(s) \/ PressEnter(s) PROVE PanelTypes'
  <2>1. PICK op \in OpRecord :
            /\ op.kind \in Kinds /\ op.step = 1 /\ op.base = panel.sched /\ op.ans = NoAnswer
            /\ OpSound(op)
            /\ ops[s].kind = "none" /\ ops' = [ops EXCEPT ![s] = op]
            /\ pending' = op.kind
            /\ quiet' = (IF Suppresses(op.kind) THEN Len(queue) ELSE quiet)
            /\ left' \in [events : Nat, actions : Nat]
            /\ UNCHANGED <<server, cached, queue, panel, audit>>
    BY <1>2, BeginOps
  <2>2. hist' \in HistRecord
    <3>1. CASE Click(s)
      BY <1>0, <3>1 DEF Click
    <3>2. CASE PressEnter(s)
      BY <1>0, <3>2 DEF PressEnter, HistRecord
    <3> QED BY <1>2, <3>1, <3>2
  <2>3. quiet' \in Int /\ quiet' >= Loud /\ quiet' <= Len(queue)
    BY <1>0, <2>1 DEF PanelTypes, Loud
  <2> QED BY <1>1, <2>1, <2>2, <2>3 DEF PanelTypes, Complete, HistRecord
<1>3. ASSUME NEW s \in Slots, Serve(s) PROVE PanelTypes'
  <2>1. PICK op \in OpRecord :
            /\ ops[s].kind # "none"
            /\ ops' = [ops EXCEPT ![s] = op]
            /\ op.kind = ops[s].kind /\ op.step = ops[s].step /\ op.arg = ops[s].arg
            /\ Follows(server') /\ hist' \in HistRecord
            /\ UNCHANGED <<cached, queue, panel, pending, quiet, audit, left>>
    BY <1>3, ServeOps DEF HistRecord
  <2>2. OpSound(op)
    BY <2>1 DEF PanelTypes, OpSound
  <2> QED BY <1>1, <2>1, <2>2 DEF PanelTypes, Follows, Complete, HistRecord
<1>4. ASSUME NEW s \in Slots, Answer(s) PROVE PanelTypes'
  <2>1. PICK next \in OpRecord :
            /\ ops[s].kind # "none"
            /\ ops' = [ops EXCEPT ![s] = next] /\ OpSound(next)
            /\ \/ UNCHANGED <<pending, quiet>>
               \/ /\ pending' = "none"
                  /\ quiet' = (IF Suppresses(ops[s].kind) THEN Len(queue) ELSE quiet)
            /\ UNCHANGED <<server, cached, queue, left>>
    BY <1>4, AnswerOps
  <2>2. /\ ops[s] \in OpRecord /\ Request(s) \in Requests
        /\ Request(s) = "schedStart" => ops[s].kind \in {"start", "resume", "schedStart"}
    BY <2>1, AtRequest, RequestRows
  <2>3. panel' \in Statuses
    BY <1>4, AnswerParts DEF HasParts
  <2>4. audit' \in [last : Nat, asked : Nat]
    <3>1. ops[s].ans.snap.tick \in Ticks
      BY <2>2 DEF OpRecord, Statuses, Ticks
    <3>2. AuditAfter(ops[s].ans.snap.tick) \in [last : Nat, asked : Nat]
      BY <1>0, <3>1, AuditTypes
    <3>3. [audit EXCEPT !.asked = ops[s].ans.snap.tick.id] \in [last : Nat, asked : Nat]
      BY <1>0, <3>1 DEF Ticks
    <3>4. audit' \in {AuditAfter(ops[s].ans.snap.tick), [audit EXCEPT !.asked = ops[s].ans.snap.tick.id], audit}
      BY <1>4 DEF Answer
    <3> QED BY <1>0, <3>2, <3>3, <3>4
  <2>5. hist' \in HistRecord
    BY <1>4, AnswerHist
  <2>6. quiet' \in Int /\ quiet' >= Loud /\ quiet' <= Len(queue) /\ pending' \in Kinds \union {"none"}
    BY <1>0, <2>1 DEF PanelTypes, Loud
  <2> QED BY <1>1, <2>1, <2>3, <2>4, <2>5, <2>6 DEF PanelTypes, Complete, HistRecord
<1>5. CASE ServerMoves
  <2>1. Follows(server') /\ left' \in [events : Nat, actions : Nat]
    <3>1. left' \in [events : Nat, actions : Nat]
      <4>1. left.events > 0 /\ left' = [left EXCEPT !.events = @ - 1]
        BY <1>5 DEF ServerMoves
      <4> QED BY <1>0, <4>1
    <3> QED BY <1>0, <1>5, <3>1, MovesFollow
  <2> QED BY <1>5, <2>1 DEF ServerMoves, PanelTypes, Follows, Complete, OpSound
<1>6. CASE GatewayPolls
  <2>1. hist' \in HistRecord
    BY <1>0, <1>6 DEF GatewayPolls, HistRecord
  <2>2. queue' \in Seq(Statuses) /\ Len(queue') <= QueueSize /\ quiet <= Len(queue')
    <3>1. queue' = queue \/ (Len(queue) < QueueSize /\ queue' = Append(queue, server))
      BY <1>6 DEF GatewayPolls
    <3>2. Append(queue, server) \in Seq(Statuses) /\ Len(Append(queue, server)) = Len(queue) + 1
      BY <1>0, QueueFacts
    <3>3. quiet \in Int /\ quiet <= Len(queue) /\ Len(queue) <= QueueSize
      BY DEF PanelTypes
    <3>4. CASE queue' = queue
      BY <1>0, <3>3, <3>4
    <3>5. CASE Len(queue) < QueueSize /\ queue' = Append(queue, server)
      <4>1. Len(queue') = Len(queue) + 1 /\ queue' \in Seq(Statuses)
        BY <3>2, <3>5
      <4>2. Len(queue) < QueueSize
        BY <3>5
      <4> QED BY <1>0, <3>3, <4>1, <4>2
    <3> QED BY <3>1, <3>4, <3>5
  <2> QED BY <1>0, <1>6, <2>1, <2>2 DEF GatewayPolls, PanelTypes, OpSound, HistRecord
<1>7. CASE FrameArrives
  <2>0. queue # <<>>
    BY <1>7 DEF FrameArrives
  <2>1. /\ Len(queue) >= 1 /\ Head(queue) \in Statuses
        /\ Tail(queue) \in Seq(Statuses) /\ Len(Tail(queue)) = Len(queue) - 1
    BY <1>0, <2>0, QueueFacts
  <2>2. quiet' \in Int /\ quiet' >= Loud /\ quiet' <= Len(queue) - 1 /\ Len(queue) - 1 <= QueueSize
    <3>1. quiet' = IF quiet > 0 THEN quiet - 1 ELSE quiet
      BY <1>7 DEF FrameArrives
    <3>2. quiet \in Int /\ quiet >= Loud /\ quiet <= Len(queue) /\ Len(queue) <= QueueSize
      BY DEF PanelTypes
    <3> QED BY <1>0, <2>1, <3>1, <3>2 DEF Loud
  <2>3. panel' \in Statuses
    BY <1>0, <1>7, <2>1 DEF FrameArrives
  <2>4. audit' \in [last : Nat, asked : Nat]
    <3>1. Head(queue).tick \in Ticks
      BY <2>1 DEF Statuses, Ticks
    <3>2. audit' \in {audit, AuditAfter(Head(queue).tick)}
      BY <1>7 DEF FrameArrives
    <3> QED BY <1>0, <3>1, <3>2, AuditTypes
  <2>5. hist' \in HistRecord
    BY <1>0, <1>7 DEF FrameArrives, HistRecord
  <2>6. queue' = Tail(queue) /\ UNCHANGED <<server, cached, pending, ops, left>>
    BY <1>7 DEF FrameArrives
  <2> QED BY <2>1, <2>2, <2>3, <2>4, <2>5, <2>6 DEF PanelTypes, OpSound, HistRecord
<1>8. CASE StreamReconnects
  <2>1. queue' \in Seq(Statuses) /\ Len(queue') = 1
    BY <1>0, <1>8 DEF StreamReconnects
  <2>2. hist' \in HistRecord
    BY <1>0, <1>8 DEF StreamReconnects, HistRecord
  <2>3. left' \in [events : Nat, actions : Nat]
    BY <1>0, <1>8 DEF StreamReconnects
  <2>4. quiet' \in Int /\ quiet' >= Loud /\ quiet' <= 1 /\ 1 <= QueueSize
    BY <1>8, OrganizerAssumption DEF StreamReconnects, Loud
  <2> QED BY <1>8, <2>1, <2>2, <2>3, <2>4 DEF StreamReconnects, PanelTypes, OpSound, HistRecord
<1>9. CASE QuietEnds
  <2>1. quiet' \in Int /\ quiet' >= Loud /\ quiet' <= Len(queue)
    BY <1>0, <1>9 DEF QuietEnds, Loud
  <2> QED BY <1>9, <2>1 DEF QuietEnds, PanelTypes, OpSound
<1>10. CASE UNCHANGED vars
  BY <1>10 DEF vars, PanelTypes, OpSound
<1> QED BY <1>2, <1>3, <1>4, <1>5, <1>6, <1>7, <1>8, <1>9, <1>10 DEF Next

\* The page's variables keep their types and an action is always at one of its
\* requests, for every number of actions, frames and events.
THEOREM PanelTypeCorrect == Spec => []PanelTypeOK
<1>1. PanelTypes => PanelTypeOK
  BY DEF PanelTypes, PanelTypeOK, Complete, OpRecord, OpSound
<1> QED BY <1>1, SafetyInside, TypesStart, TypesStep, PTL DEF Safety


-----------------------------------------------------------------------------
(* Nothing that is told is ahead of game-core, and shown ticks are audited. *)

\* The other actions stay where they are.
LEMMA OthersKeep ==
  ASSUME NEW s \in Slots, NEW t \in Slots, NEW op, t # s,
         ops \in [Slots -> OpRecord], ops' = [ops EXCEPT ![s] = op]
  PROVE  ops'[t] = ops[t] /\ (Told(t)' <=> Told(t)) /\ Request(t)' = Request(t)
<1>1. ops'[t] = ops[t]
  OBVIOUS
<1> QED BY <1>1 DEF Told, Request

\* And the one that moves is replaced.
LEMMA OneMoves ==
  ASSUME NEW s \in Slots, NEW op \in OpRecord,
         ops \in [Slots -> OpRecord], ops' = [ops EXCEPT ![s] = op]
  PROVE  /\ ops'[s] = op /\ Request(s)' = Script(op.kind)[op.step]
         /\ Told(s)' <=> op.kind # "none" /\ op.ans.res = "ok"
                         /\ Script(op.kind)[op.step] \notin {"feeds", "runtime"}
<1>1. ops'[s] = op
  OBVIOUS
<1> QED BY <1>1 DEF Told, Request

\* The types, part by part.
LEMMA TypeParts ==
  ASSUME PanelTypes
  PROVE  /\ Complete(server) /\ server \in Statuses /\ cached \in Statuses /\ panel \in Statuses
         /\ queue \in Seq(Statuses) /\ Len(queue) \in Nat /\ ops \in [Slots -> OpRecord]
         /\ \A i \in 1..Len(queue) : queue[i] \in Statuses
         /\ \A s \in Slots : ops[s] \in OpRecord /\ ops[s].ans.snap \in Statuses
         /\ \A st \in Statuses : /\ st.tick.id \in Nat /\ st.match.ver \in Nat /\ st.sched.ver \in Nat
                                  /\ st.match \in Matches /\ st.sched \in Scheds /\ st.tick \in Ticks
         /\ audit.last \in Nat /\ audit.asked \in Nat /\ hist \in HistRecord
         /\ hist.acked.match \in Nat /\ hist.acked.sched \in Nat /\ quiet \in Int
<1>1. /\ Complete(server) /\ cached \in Statuses /\ panel \in Statuses
      /\ queue \in Seq(Statuses) /\ ops \in [Slots -> OpRecord]
      /\ audit \in [last : Nat, asked : Nat] /\ hist \in HistRecord /\ quiet \in Int
  BY DEF PanelTypes, HistRecord
<1>2. server \in Statuses
  BY <1>1 DEF Complete
<1>3. Len(queue) \in Nat /\ \A i \in 1..Len(queue) : queue[i] \in Statuses
  BY <1>1
<1>4. \A s \in Slots : ops[s] \in OpRecord /\ ops[s].ans.snap \in Statuses
  BY <1>1 DEF OpRecord
<1>5. \A st \in Statuses : /\ st.tick.id \in Nat /\ st.match.ver \in Nat /\ st.sched.ver \in Nat
                            /\ st.match \in Matches /\ st.sched \in Scheds /\ st.tick \in Ticks
  BY DEF Statuses, Matches, Scheds, Ticks
<1>6. hist.acked.match \in Nat /\ hist.acked.sched \in Nat
  BY <1>1 DEF HistRecord
<1> QED BY <1>1, <1>2, <1>3, <1>4, <1>5, <1>6

\* The page is opened with what game-core holds.
LEMMA PastStart == Init /\ PanelTypes => PastInv
<1> SUFFICES ASSUME Init, PanelTypes PROVE PastInv
  OBVIOUS
<1>1. Past(server, server) /\ server.tick.id \in Nat
  BY PastStays DEF PanelTypes, Follows, Complete, Statuses
<1>2. cached = server /\ panel = server /\ queue = <<server>> /\ \A s \in Slots : ops[s] = IdleOp
  BY DEF Init
<1>3. \A s \in Slots : ~Told(s)
  BY <1>2, Empty DEF Told
<1>4. \A i \in 1..Len(queue) : queue[i] = server
  BY <1>2
<1> QED BY <1>1, <1>2, <1>3, <1>4 DEF PastInv

\* Every step leaves what was told in the past of game-core.
LEMMA PastStep == PanelTypes /\ PastInv /\ [Next]_vars => PastInv'
<1> SUFFICES ASSUME PanelTypes, PastInv, [Next]_vars PROVE PastInv'
  OBVIOUS
<1>0. /\ Complete(server) /\ server \in Statuses /\ cached \in Statuses /\ panel \in Statuses
      /\ queue \in Seq(Statuses) /\ Len(queue) \in Nat /\ ops \in [Slots -> OpRecord]
      /\ \A i \in 1..Len(queue) : queue[i] \in Statuses
      /\ \A s \in Slots : ops[s].ans.snap \in Statuses
      /\ panel.tick.id \in Nat /\ server.tick.id \in Nat
  BY TypeParts
<1>s. Past(server, server)
  BY <1>0, PastStays DEF Follows
<1>1. ASSUME Follows(server'), UNCHANGED <<cached, queue, panel>>
      PROVE  /\ Past(cached, server)' /\ \A i \in 1..Len(queue') : Past(queue'[i], server')
             /\ \A st \in Statuses : Past(st, server) => Past(st, server')
             /\ panel'.tick.id <= server'.tick.id
  <2>1. server' \in Statuses /\ server'.tick.id \in Nat
    BY <1>1 DEF Follows, Complete, Statuses
  <2>2. \A st \in Statuses : Past(st, server) => Past(st, server')
    BY <1>0, <1>1, <2>1, PastStays
  <2>3. Past(cached, server)' /\ \A i \in 1..Len(queue') : Past(queue'[i], server')
    BY <1>0, <1>1, <2>2 DEF PastInv
  <2>4. panel'.tick.id <= server'.tick.id
    <3>1. panel.tick.id <= server.tick.id /\ server.tick.id <= server'.tick.id /\ panel' = panel
      BY <1>1 DEF PastInv, Follows, Past
    <3> QED BY <1>0, <2>1, <3>1
  <2> QED BY <2>2, <2>3, <2>4
<1>2. ASSUME NEW s \in Slots, Click(s) \/ PressEnter(s) PROVE PastInv'
  <2>1. PICK op \in OpRecord :
            /\ op.ans = NoAnswer /\ ops' = [ops EXCEPT ![s] = op]
            /\ UNCHANGED <<server, cached, queue, panel, audit>>
    BY <1>2, BeginOps
  <2>2. ~Told(s)'
    BY <1>0, <2>1, OneMoves, Empty
  <2>3. \A t \in Slots : Told(t)' => t # s /\ Told(t) /\ ops'[t] = ops[t]
    BY <1>0, <2>1, <2>2, OthersKeep
  <2> QED BY <2>1, <2>3 DEF PastInv
<1>3. ASSUME NEW s \in Slots, Serve(s) PROVE PastInv'
  <2>1. PICK op \in OpRecord :
            /\ ops' = [ops EXCEPT ![s] = op]
            /\ op.kind = ops[s].kind /\ op.step = ops[s].step
            /\ (op.ans.res = "ok" /\ Request(s) # "feeds") => op.ans.snap = server'
            /\ Follows(server')
            /\ UNCHANGED <<cached, queue, panel, pending, quiet, audit, left>>
    BY <1>3, ServeOps
  <2>2. Past(server', server')
    <3>1. server'.match.ver \in Nat /\ server'.sched.ver \in Nat /\ server'.tick.id \in Nat
      BY <2>1 DEF Follows, Complete, Statuses
    <3> QED BY <3>1 DEF Past, Same
  <2>3. Told(s)' => Past(ops'[s].ans.snap, server')
    <3>1. Told(s)' => op.ans.snap = server' /\ ops'[s] = op
      <4>1. Request(s) = Script(op.kind)[op.step]
        BY <2>1 DEF Request
      <4> QED BY <1>0, <2>1, <4>1, OneMoves
    <3> QED BY <2>2, <3>1
  <2>4. \A t \in Slots : (t # s /\ Told(t)') => Past(ops'[t].ans.snap, server')
    BY <1>0, <1>1, <2>1, OthersKeep DEF PastInv
  <2>5. \A t \in Slots : Told(t)' => Past(ops'[t].ans.snap, server')
    BY <2>3, <2>4
  <2> QED BY <1>1, <2>1, <2>5 DEF PastInv
<1>4. ASSUME NEW s \in Slots, Answer(s) PROVE PastInv'
  <2>1. PICK next \in OpRecord :
            /\ ops[s].kind # "none" /\ ops[s].ans.res # "none" /\ ops' = [ops EXCEPT ![s] = next]
            /\ next.ans = NoAnswer \/ next = IdleOp
            /\ UNCHANGED <<server, cached, queue, left>>
    BY <1>4, AnswerOps
  <2>2. ~Told(s)'
    BY <1>0, <2>1, OneMoves, Empty
  <2>3. \A t \in Slots : Told(t)' => t # s /\ Told(t) /\ ops'[t] = ops[t]
    BY <1>0, <2>1, <2>2, OthersKeep
  <2>4. panel'.tick.id <= server.tick.id
    <3>1. panel'.tick = NextTick(ops[s], Request(s), ops[s].ans.res = "ok")
      BY <1>4, AnswerParts DEF HasParts
    <3>2. CASE ops[s].ans.res = "ok" /\ Request(s) \in {"status", "advance"}
      <4>1. Told(s) /\ panel'.tick = ops[s].ans.snap.tick
        BY <2>1, <3>1, <3>2 DEF Told, NextTick
      <4> QED BY <4>1 DEF PastInv, Past
    <3>3. CASE ~(ops[s].ans.res = "ok" /\ Request(s) \in {"status", "advance"})
      BY <3>1, <3>3 DEF NextTick, PastInv
    <3> QED BY <3>2, <3>3
  <2> QED BY <2>1, <2>3, <2>4 DEF PastInv
<1>5. CASE ServerMoves
  <2>1. Follows(server') /\ UNCHANGED <<cached, queue, panel, ops>>
    BY <1>0, <1>5, MovesFollow DEF ServerMoves
  <2>2. \A t \in Slots : Told(t)' => Past(ops'[t].ans.snap, server')
    BY <1>0, <1>1, <2>1 DEF PastInv, Told, Request
  <2> QED BY <1>1, <2>1, <2>2 DEF PastInv
<1>6. CASE GatewayPolls
  <2>1. /\ cached' = server /\ (queue' = queue \/ queue' = Append(queue, server))
        /\ UNCHANGED <<server, panel, ops>>
    BY <1>6 DEF GatewayPolls
  <2>2. \A i \in 1..Len(queue') : Past(queue'[i], server)
    <3>1. CASE queue' = queue
      BY <3>1 DEF PastInv
    <3>2. CASE queue' = Append(queue, server)
      <4>1. /\ Len(queue') = Len(queue) + 1 /\ queue'[Len(queue) + 1] = server
            /\ \A i \in 1..Len(queue) : queue'[i] = queue[i]
        BY <1>0, <3>2, QueueFacts
      <4>2. \A i \in 1..Len(queue') : i \in 1..Len(queue) \/ i = Len(queue) + 1
        BY <1>0, <4>1
      <4> QED BY <1>s, <4>1, <4>2 DEF PastInv
    <3> QED BY <2>1, <3>1, <3>2
  <2> QED BY <1>s, <2>1, <2>2 DEF PastInv, Told, Request
<1>7. CASE FrameArrives
  <2>1. /\ queue # <<>> /\ queue' = Tail(queue) /\ panel' \in {panel, Head(queue)}
        /\ UNCHANGED <<server, cached, ops>>
    BY <1>7 DEF FrameArrives
  <2>2. /\ Len(queue) >= 1 /\ Head(queue) = queue[1] /\ Len(queue') = Len(queue) - 1
        /\ \A i \in 1..(Len(queue) - 1) : queue'[i] = queue[i + 1]
    BY <1>0, <2>1, QueueFacts
  <2>3. \A i \in 1..Len(queue') : Past(queue'[i], server)
    <3> SUFFICES ASSUME NEW i \in 1..Len(queue') PROVE Past(queue'[i], server)
      OBVIOUS
    <3>1. i + 1 \in 1..Len(queue) /\ i \in 1..(Len(queue) - 1)
      BY <1>0, <2>2
    <3> QED BY <2>2, <3>1 DEF PastInv
  <2>4. panel'.tick.id <= server.tick.id
    <3>1. Past(queue[1], server)
      BY <1>0, <2>2 DEF PastInv
    <3> QED BY <2>1, <2>2, <3>1 DEF PastInv, Past
  <2> QED BY <2>1, <2>3, <2>4 DEF PastInv, Told, Request
<1>8. CASE StreamReconnects
  <2>1. /\ queue' = <<cached>> /\ UNCHANGED <<server, cached, panel, ops>>
    BY <1>8 DEF StreamReconnects
  <2>2. \A i \in 1..Len(queue') : queue'[i] = cached
    BY <2>1
  <2> QED BY <2>1, <2>2 DEF PastInv, Told, Request
<1>9. CASE QuietEnds \/ UNCHANGED vars
  BY <1>9 DEF QuietEnds, vars, PastInv, Told, Request
<1> QED BY <1>2, <1>3, <1>4, <1>5, <1>6, <1>7, <1>8, <1>9 DEF Next

\* A tick that is audited on its arrival counts as asked for.
LEMMA AuditArrives ==
  ASSUME audit \in [last : Nat, asked : Nat], audit.last <= audit.asked, NEW tick \in Ticks
  PROVE  LET new == AuditAfter(tick)
         IN new.last <= new.asked /\ (tick.done => tick.id <= new.asked)
<1>1. audit.last \in Nat /\ audit.asked \in Nat /\ tick.id \in Nat
  BY DEF Ticks
<1>2. CASE tick.id > 0 /\ tick.done /\ tick.id # audit.last
  <2>1. AuditAfter(tick) = [last |-> tick.id, asked |-> tick.id]
    BY <1>2 DEF AuditAfter
  <2>2. AuditAfter(tick).last = tick.id /\ AuditAfter(tick).asked = tick.id /\ tick.id <= tick.id
    BY <1>1, <2>1
  <2> QED BY <2>2
<1>3. CASE ~(tick.id > 0 /\ tick.done /\ tick.id # audit.last)
  <2>1. AuditAfter(tick) = audit
    BY <1>3 DEF AuditAfter
  <2>2. tick.done => tick.id = 0 \/ tick.id = audit.last
    BY <1>1, <1>3
  <2>3. tick.done => tick.id <= audit.asked
    BY <1>1, <2>2
  <2> QED BY <2>1, <2>3
<1> QED BY <1>2, <1>3

\* Every step keeps the shown tick audited, or an audit of it under way.
LEMMA AuditStep == PanelTypes /\ PastInv /\ PastInv' /\ AuditInv /\ [Next]_vars => AuditInv'
<1> SUFFICES ASSUME PanelTypes, PastInv, PastInv', AuditInv, [Next]_vars PROVE AuditInv'
  OBVIOUS
<1>0. /\ audit \in [last : Nat, asked : Nat] /\ audit.last <= audit.asked /\ ops \in [Slots -> OpRecord]
      /\ audit.last \in Nat /\ audit.asked \in Nat /\ panel.tick.id \in Nat
      /\ (panel.tick.done /\ panel.tick.id > audit.asked) => \E s \in Slots : WillAudit(s)
  BY TypeParts DEF AuditInv, PanelTypes
<1>1. ASSUME UNCHANGED <<panel, audit>>, \A t \in Slots : WillAudit(t) => WillAudit(t)'
      PROVE  AuditInv'
  BY <1>1 DEF AuditInv
<1>2. ASSUME NEW s \in Slots, NEW op, ops' = [ops EXCEPT ![s] = op], panel'.tick = panel.tick
      PROVE  \A t \in Slots : (t # s /\ WillAudit(t)) => WillAudit(t)'
  <2>1. \A t \in Slots : t # s => ops'[t] = ops[t]
    BY <1>0, <1>2
  <2> QED BY <1>2, <2>1 DEF WillAudit
<1>3. ASSUME NEW s \in Slots, Click(s) \/ PressEnter(s) PROVE AuditInv'
  <2>1. PICK op \in OpRecord :
            /\ ops[s].kind = "none" /\ ops' = [ops EXCEPT ![s] = op]
            /\ UNCHANGED <<server, cached, queue, panel, audit>>
    BY <1>3, BeginOps
  <2>2. ~WillAudit(s)
    BY <2>1 DEF WillAudit
  <2>3. \A t \in Slots : WillAudit(t) => WillAudit(t)'
    BY <1>2, <2>1, <2>2
  <2> QED BY <1>1, <2>1, <2>3
<1>4. ASSUME NEW s \in Slots, Serve(s) PROVE AuditInv'
  <2>1. PICK op \in OpRecord :
            /\ ops[s].kind # "none" /\ ops' = [ops EXCEPT ![s] = op]
            /\ op.kind = ops[s].kind /\ op.step = ops[s].step
            /\ Request(s) = "audit" => op.ans.snap = server'
            /\ UNCHANGED <<cached, queue, panel, pending, quiet, audit, left>>
    BY <1>4, ServeOps
  <2>2. panel'.tick.id <= server'.tick.id
    BY DEF PastInv
  <2>3. WillAudit(s) => WillAudit(s)'
    <3>1. (op.kind = "advance" /\ op.step = 4) => op.ans.snap = server'
      BY <2>1, RequestOfSlot DEF SlotRows
    <3>2. ops'[s] = op
      BY <1>0, <2>1
    <3> QED BY <2>1, <2>2, <3>1, <3>2 DEF WillAudit
  <2>4. \A t \in Slots : WillAudit(t) => WillAudit(t)'
    BY <1>2, <2>1, <2>3
  <2> QED BY <1>1, <2>1, <2>4
<1>5. ASSUME NEW s \in Slots, Answer(s) PROVE AuditInv'
  <2> DEFINE ok == ops[s].ans.res = "ok"
             req == Request(s)
             snap == ops[s].ans.snap
  <2>1. PICK next \in OpRecord :
            /\ ops[s].kind # "none" /\ ops[s].ans.res # "none" /\ ops' = [ops EXCEPT ![s] = next]
            /\ GoOn(s) => next.kind = ops[s].kind /\ next.step = ops[s].step + 1 /\ next.ans = NoAnswer
    BY <1>5, AnswerOps
  <2>2. /\ ops[s].kind \in Kinds /\ ops[s].step \in 1..Len(Script(ops[s].kind)) /\ ops[s].step \in Nat
        /\ req = Script(ops[s].kind)[ops[s].step] /\ snap.tick \in Ticks /\ snap.tick.id \in Nat
    BY <2>1, AtRequest, TypeParts
  <2>r. SlotRows(ops[s].kind, ops[s].step, Len(Script(ops[s].kind)), req)
    BY <2>1, RequestOfSlot
  <2>3. panel'.tick = IF ok /\ req \in {"status", "advance"} THEN snap.tick ELSE panel.tick
    BY <1>5, AnswerParts DEF HasParts, NextTick
  <2>4. audit' = CASE ok /\ req = "status" -> AuditAfter(snap.tick)
                   [] req = "audit" /\ snap.tick.id > audit.asked -> [audit EXCEPT !.asked = snap.tick.id]
                   [] OTHER -> audit
    BY <1>5 DEF Answer
  <2>5. ASSUME ops[s].kind = "advance" /\ GoOn(s) /\ ops[s].step < 4 PROVE WillAudit(s)'
    <3>1. ops'[s] = next /\ next.kind = "advance" /\ next.step > 1 /\ next.ans.res = "none"
      BY <1>0, <2>1, <2>2, <2>5, Empty
    <3> QED BY <3>1 DEF WillAudit
  <2>6. CASE ok /\ req = "status"
    <3>1. audit' = AuditAfter(snap.tick) /\ panel'.tick = snap.tick
      BY <2>3, <2>4, <2>6
    <3>2. audit'.last <= audit'.asked /\ (panel'.tick.done => panel'.tick.id <= audit'.asked)
      BY <1>0, <2>2, <3>1, AuditArrives
    <3>3. audit' \in [last : Nat, asked : Nat]
      BY <1>0, <2>2, <3>1, AuditTypes
    <3> QED BY <2>2, <3>1, <3>2, <3>3 DEF AuditInv
  <2>7. CASE ok /\ req = "advance"
    <3>1. ops[s].kind = "advance" /\ ops[s].step = 1 /\ Len(Script(ops[s].kind)) = 4
      BY <2>r, <2>7 DEF SlotRows
    <3>2. GoOn(s)
      <4>1. ops[s].step < Len(Script(ops[s].kind))
        <5> DEFINE len == Len(Script(ops[s].kind))
        <5>1. len = 4 /\ ops[s].step = 1
          BY <3>1
        <5> HIDE DEF len
        <5>2. ops[s].step < len
          BY <5>1
        <5> QED BY <5>2 DEF len
      <4> QED BY <2>7, <4>1 DEF GoOn
    <3>3. WillAudit(s)' /\ audit' = audit
      BY <2>4, <2>5, <2>7, <3>1, <3>2
    <3> QED BY <1>0, <3>3 DEF AuditInv
  <2>8. CASE ~(ok /\ req \in {"status", "advance"})
    <3>1. panel'.tick = panel.tick
      BY <2>3, <2>8
    <3>2. /\ audit'.asked \in Nat /\ audit.asked <= audit'.asked /\ audit'.last = audit.last
          /\ req = "audit" => snap.tick.id <= audit'.asked
      <4>1. CASE req = "audit" /\ snap.tick.id > audit.asked
        <5>1. audit' = [audit EXCEPT !.asked = snap.tick.id]
          BY <2>4, <4>1
        <5>2. audit'.asked = snap.tick.id /\ audit'.last = audit.last
          BY <1>0, <5>1
        <5> QED BY <1>0, <2>2, <4>1, <5>2
      <4>2. CASE ~(req = "audit" /\ snap.tick.id > audit.asked)
        <5>1. audit' = audit
          BY <2>4, <2>8, <4>2
        <5> QED BY <1>0, <2>2, <4>2, <5>1
      <4> QED BY <4>1, <4>2
    <3>3. ASSUME panel'.tick.done, panel'.tick.id > audit'.asked PROVE \E t \in Slots : WillAudit(t)'
      <4>1. panel.tick.id > audit.asked /\ panel.tick.done
        BY <1>0, <3>1, <3>2, <3>3
      <4>2. PICK t \in Slots : WillAudit(t)
        BY <1>0, <4>1
      <4>3. CASE t # s
        BY <1>2, <2>1, <3>1, <4>2, <4>3
      <4>4. CASE t = s
        <5>1. ops[s].kind = "advance" /\ ops[s].step > 1 /\ Len(Script(ops[s].kind)) = 4
          BY <2>r, <4>2, <4>4 DEF WillAudit, SlotRows
        <5>2. CASE ops[s].step < 4
          <6>1. req \in {"feeds", "recompute", "audit"}
            BY <2>r, <5>1 DEF SlotRows
          <6>2. GoOn(s)
            BY <5>1, <5>2, <6>1 DEF GoOn, Tolerated
          <6> QED BY <2>5, <5>1, <5>2, <6>2
        <5>3. CASE ops[s].step = 4
          <6>1. req = "audit"
            BY <2>r, <5>1, <5>3 DEF SlotRows
          <6>2. panel.tick.id <= snap.tick.id
            BY <2>1, <4>2, <4>4, <5>3 DEF WillAudit
          <6> QED BY <1>0, <2>2, <3>1, <3>2, <3>3, <6>1, <6>2
        <5> QED BY <2>2, <5>1, <5>2, <5>3
      <4> QED BY <4>3, <4>4
    <3>4. audit'.last <= audit'.asked
      BY <1>0, <3>2
    <3> QED BY <3>3, <3>4 DEF AuditInv
  <2> QED BY <2>6, <2>7, <2>8
<1>6. CASE FrameArrives
  <2>1. queue # <<>>
    BY <1>6 DEF FrameArrives
  <2>2. Head(queue).tick \in Ticks
    BY <2>1, TypeParts, QueueFacts
  <2>3. CASE FramesPass
    <3>1. panel' = Head(queue) /\ audit' = AuditAfter(Head(queue).tick)
      BY <1>6, <2>3 DEF FrameArrives
    <3>2. audit'.last <= audit'.asked /\ (panel'.tick.done => panel'.tick.id <= audit'.asked)
      BY <1>0, <2>2, <3>1, AuditArrives
    <3>3. audit' \in [last : Nat, asked : Nat] /\ panel'.tick.id \in Nat
      BY <1>0, <2>2, <3>1, AuditTypes DEF Ticks
    <3> QED BY <3>2, <3>3 DEF AuditInv
  <2>4. CASE ~FramesPass
    BY <1>1, <1>6, <2>4 DEF FrameArrives, WillAudit
  <2> QED BY <2>3, <2>4
<1>7. CASE ServerMoves \/ GatewayPolls \/ StreamReconnects \/ QuietEnds \/ UNCHANGED vars
  BY <1>1, <1>7 DEF ServerMoves, GatewayPolls, StreamReconnects, QuietEnds, vars, WillAudit
<1> QED BY <1>3, <1>4, <1>5, <1>6, <1>7 DEF Next

\* Whenever no action is under way, a completed tick on the page has had its
\* scores audited, whether a frame, a status or an advance brought it.
THEOREM ShownTicksAreAudited == Spec => []ShownTickIsAudited
<1>1. Init => AuditInv
  <2> SUFFICES ASSUME Init PROVE AuditInv
    OBVIOUS
  <2>1. audit.last = 0 /\ audit.asked = 0 /\ panel = server
    BY DEF Init
  <2>2. ~(panel.tick.done /\ panel.tick.id > 0)
    <3>1. PICK started \in BOOLEAN : server.tick = [id |-> IF started THEN 1 ELSE 0, done |-> ~started]
      BY DEF Init
    <3>2. CASE started
      <4>1. server.tick = [id |-> 1, done |-> FALSE]
        BY <3>1, <3>2
      <4> QED BY <2>1, <4>1
    <3>3. CASE ~started
      <4>1. server.tick = [id |-> 0, done |-> TRUE]
        BY <3>1, <3>3
      <4> QED BY <2>1, <4>1
    <3> QED BY <3>2, <3>3
  <2> QED BY <2>1, <2>2 DEF AuditInv
<1>2. PanelTypes /\ AuditInv => ShownTickIsAudited
  <2> SUFFICES ASSUME PanelTypes, AuditInv, InFlight = {}, panel.tick.done PROVE panel.tick.id <= audit.asked
    BY DEF ShownTickIsAudited
  <2>1. \A s \in Slots : ~WillAudit(s)
    BY DEF InFlight, WillAudit
  <2>2. panel.tick.id \in Nat /\ audit.asked \in Nat
    BY TypeParts
  <2>3. ~(panel.tick.id > audit.asked)
    BY <2>1 DEF AuditInv
  <2> QED BY <2>2, <2>3
<1> QED
  BY <1>1, <1>2, SafetyInside, TypesStart, TypesStep, PastStart, PastStep, AuditStep, PTL DEF Safety


-----------------------------------------------------------------------------
(* One action at a time, and what it shows.                                *)

\* The actions in flight after one of them moved.
LEMMA FlightAfter ==
  ASSUME NEW s \in Slots, NEW op \in OpRecord,
         ops \in [Slots -> OpRecord], ops' = [ops EXCEPT ![s] = op]
  PROVE  InFlight' = IF op.kind = "none" THEN InFlight \ {s} ELSE InFlight \union {s}
<1>1. ops'[s] = op /\ \A t \in Slots : t # s => ops'[t] = ops[t]
  OBVIOUS
<1> QED BY <1>1 DEF InFlight

\* A button is alone, or Enter disturbs.
LEMMA BeginAlone ==
  ASSUME PanelTypes, OneAction, NEW s \in Slots, Click(s) \/ PressEnter(s), ~hist'.disturbed
  PROVE  /\ ~hist.disturbed /\ InFlight = {}
         /\ hist'.acked = hist.acked /\ hist'.missed = hist.missed
<1>0. hist \in HistRecord /\ hist.disturbed \in BOOLEAN
  BY DEF PanelTypes, HistRecord
<1>1. CASE Click(s)
  <2>1. hist' = hist /\ pending = "none"
    BY <1>1 DEF Click
  <2>2. InFlight = {}
    BY <2>1 DEF OneAction, InFlight
  <2> QED BY <2>1, <2>2
<1>2. CASE PressEnter(s)
  <2> DEFINE d == hist.disturbed \/ InFlight # {}
  <2>1. hist' = [hist EXCEPT !.disturbed = d] /\ d \in BOOLEAN
    BY <1>2 DEF PressEnter
  <2> HIDE DEF d
  <2>2. (hist'.disturbed <=> d) /\ hist'.acked = hist.acked /\ hist'.missed = hist.missed
    BY <1>0, <2>1 DEF HistRecord
  <2> QED BY <2>2 DEF d
<1> QED BY <1>1, <1>2

\* The history that steps of the server, the gateway and the stream keep.
LEMMA OutsideHist ==
  ASSUME PanelTypes,
         ServerMoves \/ GatewayPolls \/ FrameArrives \/ StreamReconnects \/ QuietEnds \/ UNCHANGED vars
  PROVE  /\ hist'.acked = hist.acked
         /\ ~hist'.disturbed => ~hist.disturbed /\ ~StreamReconnects
         /\ ~hist'.missed => ~hist.missed
         /\ UNCHANGED <<pending, ops>>
<1>0. hist \in HistRecord
  BY DEF PanelTypes, HistRecord
<1>1. CASE hist' = hist /\ ~StreamReconnects
  BY <1>1 DEF ServerMoves, GatewayPolls, FrameArrives, StreamReconnects, QuietEnds, vars
<1>2. CASE hist' = [hist EXCEPT !.missed = TRUE] /\ ~StreamReconnects
  <2>1. hist'.acked = hist.acked /\ hist'.disturbed = hist.disturbed /\ hist'.missed
    BY <1>0, <1>2 DEF HistRecord
  <2>2. UNCHANGED <<pending, ops>>
    BY DEF ServerMoves, GatewayPolls, FrameArrives, StreamReconnects, QuietEnds, vars
  <2> QED BY <1>2, <2>1, <2>2
<1>3. CASE StreamReconnects
  <2>1. hist' = [hist EXCEPT !.disturbed = TRUE]
    BY <1>3 DEF StreamReconnects
  <2>2. hist'.acked = hist.acked /\ hist'.disturbed /\ hist'.missed = hist.missed
    BY <1>0, <2>1 DEF HistRecord
  <2> QED BY <1>3, <2>2 DEF StreamReconnects
<1>4. hist' = hist \/ hist' = [hist EXCEPT !.missed = TRUE] \/ StreamReconnects
  BY DEF ServerMoves, GatewayPolls, FrameArrives, StreamReconnects, QuietEnds, vars
<1> QED BY <1>1, <1>2, <1>3, <1>4

\* Every step keeps to one action, or disturbs.
LEMMA OneStep == PanelTypes /\ OneAction /\ [Next]_vars => OneAction'
<1> SUFFICES ASSUME PanelTypes, OneAction, [Next]_vars, ~hist'.disturbed
             PROVE  \/ pending' = "none" /\ InFlight' = {}
                    \/ \E s \in Slots : InFlight' = {s} /\ pending' = ops'[s].kind
  BY DEF OneAction
<1>0. ops \in [Slots -> OpRecord]
  BY TypeParts
<1>1. ASSUME NEW s \in Slots, Click(s) \/ PressEnter(s)
      PROVE  \E t \in Slots : InFlight' = {t} /\ pending' = ops'[t].kind
  <2>1. PICK op \in OpRecord : op.kind \in Kinds /\ ops' = [ops EXCEPT ![s] = op] /\ pending' = op.kind
    BY <1>1, BeginOps
  <2>2. InFlight = {}
    BY <1>1, BeginAlone
  <2>3. op.kind # "none" /\ ops'[s] = op
    BY <1>0, <2>1 DEF Kinds
  <2> QED BY <1>0, <2>1, <2>2, <2>3, FlightAfter
<1>2. ASSUME NEW s \in Slots, Serve(s)
      PROVE  \E t \in Slots : InFlight' = {t} /\ pending' = ops'[t].kind
  <2>1. PICK op \in OpRecord :
          /\ ops[s].kind # "none" /\ ops' = [ops EXCEPT ![s] = op] /\ op.kind = ops[s].kind
          /\ hist'.disturbed = hist.disturbed /\ pending' = pending
    BY <1>2, ServeOps
  <2>2. s \in InFlight
    BY <2>1 DEF InFlight
  <2>3. InFlight = {s} /\ pending = ops[s].kind
    BY <2>1, <2>2 DEF OneAction
  <2>4. ops'[s] = op
    BY <1>0, <2>1
  <2> QED BY <1>0, <2>1, <2>3, <2>4, FlightAfter
<1>3. ASSUME NEW s \in Slots, Answer(s)
      PROVE  \/ pending' = "none" /\ InFlight' = {}
             \/ \E t \in Slots : InFlight' = {t} /\ pending' = ops'[t].kind
  <2>1. PICK next \in OpRecord :
          /\ ops[s].kind # "none" /\ ops' = [ops EXCEPT ![s] = next]
          /\ GoOn(s) => next.kind = ops[s].kind /\ pending' = pending
          /\ ~GoOn(s) => next = IdleOp /\ pending' = "none"
    BY <1>3, AnswerOps
  <2>2. s \in InFlight /\ ~hist.disturbed
    BY <1>3, <2>1, AnswerHist DEF InFlight
  <2>3. InFlight = {s} /\ pending = ops[s].kind
    BY <2>1, <2>2 DEF OneAction
  <2>4. ops'[s] = next
    BY <1>0, <2>1
  <2>5. CASE GoOn(s)
    BY <1>0, <2>1, <2>3, <2>4, <2>5, FlightAfter
  <2>6. CASE ~GoOn(s)
    BY <1>0, <2>1, <2>3, <2>4, <2>6, FlightAfter, Empty
  <2> QED BY <2>5, <2>6
<1>4. CASE ServerMoves \/ GatewayPolls \/ FrameArrives \/ StreamReconnects \/ QuietEnds \/ UNCHANGED vars
  <2>1. UNCHANGED <<pending, ops>> /\ ~hist.disturbed
    BY <1>4, OutsideHist
  <2> QED BY <2>1 DEF OneAction, InFlight
<1> QED BY <1>1, <1>2, <1>3, <1>4 DEF Next


\* game-core's versions only grow.
LEMMA ServerGrows ==
  ASSUME PanelTypes, [Next]_vars
  PROVE  /\ server.match.ver \in Nat /\ server'.match.ver \in Nat /\ server.match.ver <= server'.match.ver
         /\ server.sched.ver \in Nat /\ server'.sched.ver \in Nat /\ server.sched.ver <= server'.sched.ver
<1>0. Complete(server) /\ server \in Statuses
  BY TypeParts
<1>1. CASE Follows(server')
  BY <1>0, <1>1 DEF Follows, Past, Complete, Statuses
<1>2. CASE server' = server
  <2>1. server.match.ver \in Nat /\ server.sched.ver \in Nat
    BY <1>0 DEF Statuses
  <2> QED BY <1>2, <2>1
<1>3. ASSUME NEW s \in Slots, Click(s) \/ PressEnter(s) PROVE server' = server
  BY <1>3, BeginOps
<1>4. ASSUME NEW s \in Slots, Serve(s) PROVE Follows(server')
  BY <1>4, ServeOps
<1>5. ASSUME NEW s \in Slots, Answer(s) PROVE server' = server
  BY <1>5 DEF Answer
<1>6. CASE ServerMoves
  BY <1>0, <1>1, <1>6, MovesFollow
<1>7. CASE GatewayPolls \/ FrameArrives \/ StreamReconnects \/ QuietEnds \/ UNCHANGED vars
  BY <1>2, <1>7 DEF GatewayPolls, FrameArrives, StreamReconnects, QuietEnds, vars
<1> QED BY <1>1, <1>2, <1>3, <1>4, <1>5, <1>6, <1>7 DEF Next

\* What an answer acknowledges.
LEMMA AckedAfter ==
  ASSUME PanelTypes, NEW s \in Slots, Answer(s)
  PROVE  LET ok == ops[s].ans.res = "ok" /\ Suppresses(ops[s].kind)
         IN /\ hist'.acked.match =
                 IF ok /\ Request(s) \in {"matchStart", "matchPause", "matchStop", "window", "status"}
                 THEN ops[s].ans.snap.match.ver ELSE hist.acked.match
            /\ hist'.acked.sched =
                 IF ok /\ Request(s) \in {"schedStart", "schedStop", "interval", "status"}
                 THEN ops[s].ans.snap.sched.ver ELSE hist.acked.sched
<1>1. hist'.acked = IF ops[s].ans.res = "ok" /\ Suppresses(ops[s].kind)
                    THEN AckedBy(Request(s), ops[s].ans.snap) ELSE hist.acked
  BY AnswerHist
<1>2. CASE ops[s].ans.res = "ok" /\ Suppresses(ops[s].kind)
  <2>1. hist'.acked = AckedBy(Request(s), ops[s].ans.snap)
    BY <1>1, <1>2
  <2> QED BY <1>2, <2>1 DEF AckedBy
<1>3. CASE ~(ops[s].ans.res = "ok" /\ Suppresses(ops[s].kind))
  BY <1>1, <1>3
<1> QED BY <1>2, <1>3

\* The clauses of OwnInv.
Acked == hist.acked.match <= server.match.ver /\ hist.acked.sched <= server.sched.ver
NewEnough(st) == st.match.ver >= hist.acked.match /\ st.sched.ver >= hist.acked.sched
QueueFresh == ~HoldsBack => \A i \in 1..Len(queue) : i > quiet => NewEnough(queue[i])
OpFresh(op, told) ==
    /\ told => NewEnough(op.ans.snap)
    /\ (op.kind \in {"start", "resume"} /\ op.step = 2) => op.got.ver >= hist.acked.match
    /\ (op.kind = "resume" /\ op.step <= 2) => SchedFresh(op.base)

\* OwnInv clause by clause, as the steps preserve it.
LEMMA OwnClauses ==
  OwnInv <=> (~hist.disturbed =>
                 /\ Acked /\ MatchFresh(panel.match) /\ SchedFresh(panel.sched) /\ QueueFresh
                 /\ \A s \in Slots : OpFresh(ops[s], Told(s)))
BY DEF OwnInv, Acked, QueueFresh, NewEnough, OpFresh

\* An answer of an undisturbed page leaves nothing older than what it acknowledges.
LEMMA OwnAnswer ==
  ASSUME PanelTypes, PastInv, OneAction, OwnInv, NEW s \in Slots, Answer(s), ~hist'.disturbed
  PROVE  /\ Acked' /\ MatchFresh(panel.match)' /\ SchedFresh(panel.sched)' /\ QueueFresh'
         /\ \A t \in Slots : OpFresh(ops[t], Told(t))'
<1> DEFINE ok == ops[s].ans.res = "ok"
           req == Request(s)
           snap == ops[s].ans.snap
           kind == ops[s].kind
<1>0. /\ ops \in [Slots -> OpRecord] /\ panel \in Statuses /\ snap \in Statuses
      /\ snap.match.ver \in Nat /\ snap.sched.ver \in Nat
      /\ hist.acked.match \in Nat /\ hist.acked.sched \in Nat
      /\ server.match.ver \in Nat /\ server.sched.ver \in Nat
  BY TypeParts DEF PanelTypes
<1>1. PICK next \in OpRecord :
        /\ kind # "none" /\ ops[s].ans.res # "none" /\ ops' = [ops EXCEPT ![s] = next]
        /\ GoOn(s) => /\ next.kind = kind /\ next.step = ops[s].step + 1
                      /\ next.ans = NoAnswer /\ next.base = ops[s].base
                      /\ next.got = IF ops[s].step = 1 THEN snap.match ELSE ops[s].got
                      /\ UNCHANGED <<pending, quiet>>
        /\ ~GoOn(s) => /\ next = IdleOp /\ pending' = "none"
                       /\ quiet' = IF Suppresses(kind) THEN Len(queue) ELSE quiet
        /\ UNCHANGED <<server, cached, queue, left>>
  BY AnswerOps
<1>2. SlotRows(kind, ops[s].step, Len(Script(kind)), req)
  BY <1>1, RequestOfSlot
<1>3. ~hist.disturbed
  BY AnswerHist
<1>4. InFlight = {s}
  <2>1. s \in InFlight
    BY <1>1 DEF InFlight
  <2> QED BY <1>3, <2>1 DEF OneAction
<1>5. /\ Acked /\ MatchFresh(panel.match) /\ SchedFresh(panel.sched) /\ QueueFresh
      /\ OpFresh(ops[s], Told(s))
  BY <1>3, OwnClauses
<1>6. Told(s) => /\ NewEnough(snap) /\ snap.match.ver <= server.match.ver /\ snap.sched.ver <= server.sched.ver
  BY <1>5 DEF OpFresh, PastInv, Past
<1>7. (ok /\ req \notin {"feeds", "runtime"}) => Told(s)
  BY <1>1 DEF Told
<1>8. /\ hist'.acked.match = IF ok /\ Suppresses(kind)
                                /\ req \in {"matchStart", "matchPause", "matchStop", "window", "status"}
                             THEN snap.match.ver ELSE hist.acked.match
      /\ hist'.acked.sched = IF ok /\ Suppresses(kind)
                                /\ req \in {"schedStart", "schedStop", "interval", "status"}
                             THEN snap.sched.ver ELSE hist.acked.sched
  BY AckedAfter
<1>9. Acked'
  BY <1>0, <1>1, <1>5, <1>6, <1>7, <1>8 DEF Acked
<1>10. /\ panel'.match = NextMatch(ops[s], req, ok) /\ panel'.sched = NextSched(ops[s], req, ok)
  BY AnswerParts DEF HasParts
<1>11. MatchFresh(panel.match)'
  <2> SUFFICES ASSUME panel'.match.state # "unloaded" PROVE panel'.match.ver >= hist'.acked.match
    BY DEF MatchFresh
  <2>1. CASE ok /\ req \in {"matchStart", "window", "matchPause", "matchStop", "status"}
    <3>1. panel'.match = snap.match /\ snap.match.ver >= hist.acked.match
      BY <1>6, <1>7, <1>10, <2>1 DEF NextMatch, NewEnough
    <3> QED BY <1>0, <1>8, <3>1
  <2>2. CASE req = "schedStart" /\ kind \in {"start", "resume"} /\ (ok \/ kind = "resume")
    <3>1. panel'.match = ops[s].got
      BY <1>10, <2>2 DEF NextMatch
    <3>2. ops[s].step = 2
      BY <1>2, <2>2 DEF SlotRows
    <3>3. hist'.acked.match = hist.acked.match
      BY <1>8, <2>2
    <3> QED BY <1>5, <2>2, <3>1, <3>2, <3>3 DEF OpFresh
  <2>3. CASE ok /\ req = "advance"
    <3>1. panel'.match = NotLoaded
      BY <1>10, <2>3 DEF NextMatch
    <3> QED BY <3>1, Empty
  <2>4. CASE /\ ~(ok /\ req \in {"matchStart", "window", "matchPause", "matchStop", "status", "advance"})
             /\ ~(req = "schedStart" /\ kind \in {"start", "resume"} /\ (ok \/ kind = "resume"))
    <3>1. panel'.match = panel.match /\ hist'.acked.match = hist.acked.match
      BY <1>8, <1>10, <2>4 DEF NextMatch
    <3> QED BY <1>5, <3>1 DEF MatchFresh
  <2> QED BY <2>1, <2>2, <2>3, <2>4
<1>12. SchedFresh(panel.sched)'
  <2> SUFFICES ASSUME panel'.sched.state # "unloaded"
               PROVE  panel'.sched.ver >= hist'.acked.sched \/ panel'.sched.ver = 0
    BY DEF SchedFresh
  <2>1. CASE ok /\ req \in {"matchPause", "matchStop"}
    <3>1. panel'.sched = StoppedLocally /\ hist'.acked.sched = hist.acked.sched
      BY <1>8, <1>10, <2>1 DEF NextSched
    <3> QED BY <1>0, <1>5, <3>1, StoppedShown DEF SchedFresh
  <2>2. CASE ok /\ req \in {"schedStart", "schedStop", "interval", "status"}
    <3>1. panel'.sched = snap.sched /\ snap.sched.ver >= hist.acked.sched
      BY <1>6, <1>7, <1>10, <2>2 DEF NextSched, NewEnough
    <3> QED BY <1>0, <1>8, <3>1
  <2>3. CASE ~ok /\ req = "schedStart" /\ kind = "resume"
    <3>1. panel'.sched = ops[s].base /\ hist'.acked.sched = hist.acked.sched
      BY <1>8, <1>10, <2>3 DEF NextSched
    <3>2. ops[s].step = 2
      BY <1>2, <2>3 DEF SlotRows
    <3>3. SchedFresh(ops[s].base)
      BY <1>5, <2>3, <3>2 DEF OpFresh
    <3> QED BY <3>1, <3>3 DEF SchedFresh
  <2>4. CASE ok /\ req = "advance"
    <3>1. panel'.sched = NoScheduler
      BY <1>10, <2>4 DEF NextSched
    <3> QED BY <3>1, Empty
  <2>5. CASE /\ ~(ok /\ req \in {"matchPause", "matchStop", "schedStart", "schedStop", "interval",
                                 "status", "advance"})
             /\ ~(~ok /\ req = "schedStart" /\ kind = "resume")
    <3>1. panel'.sched = panel.sched /\ hist'.acked.sched = hist.acked.sched
      BY <1>8, <1>10, <2>5 DEF NextSched
    <3> QED BY <1>5, <3>1 DEF SchedFresh
  <2> QED BY <2>1, <2>2, <2>3, <2>4, <2>5
<1>13. QueueFresh'
  <2>1. CASE ~Suppresses(kind)
    <3>1. ~HoldsBack
      BY <1>4, <2>1 DEF HoldsBack
    <3>2. UNCHANGED <<queue, quiet>> /\ hist'.acked.match = hist.acked.match /\ hist'.acked.sched = hist.acked.sched
      BY <1>1, <1>8, <2>1
    <3> QED BY <1>5, <3>1, <3>2 DEF QueueFresh, NewEnough
  <2>2. CASE Suppresses(kind) /\ GoOn(s)
    <3>1. ops'[s].kind = kind /\ InFlight' = {s}
      BY <1>0, <1>1, <1>4, <2>2, FlightAfter
    <3> QED BY <2>2, <3>1 DEF QueueFresh, HoldsBack, Suppresses
  <2>3. CASE Suppresses(kind) /\ ~GoOn(s)
    <3>1. quiet' = Len(queue') /\ Len(queue') \in Nat
      BY <1>1, <2>3, TypeParts
    <3> QED BY <3>1 DEF QueueFresh
  <2> QED BY <2>1, <2>2, <2>3
<1>14. ASSUME NEW t \in Slots PROVE OpFresh(ops[t], Told(t))'
  <2>1. CASE t # s
    <3>1. ops'[t] = ops[t] /\ (Told(t)' <=> Told(t)) /\ ops[t].kind = "none"
      <4>1. t \notin InFlight
        BY <1>4, <2>1
      <4> QED BY <1>0, <1>1, <2>1, <4>1, OthersKeep DEF InFlight
    <3>2. ~Told(t)' /\ ops'[t].kind = "none"
      BY <3>1 DEF Told
    <3> QED BY <3>2 DEF OpFresh
  <2>2. CASE t = s /\ ~GoOn(s)
    <3>1. ops'[s].kind = "none" /\ ~Told(s)'
      BY <1>0, <1>1, <2>2, OneMoves, Empty
    <3> QED BY <2>2, <3>1 DEF OpFresh
  <2>3. CASE t = s /\ GoOn(s)
    <3>1. ops'[s] = next /\ ~Told(s)'
      BY <1>0, <1>1, <2>3, OneMoves, Empty
    <3>2. ASSUME kind \in {"start", "resume"}, next.step <= 2
          PROVE  /\ next.got.ver >= hist'.acked.match /\ hist'.acked.sched = hist.acked.sched
                 /\ ops[s].step = 1
      <4>1. ops[s].step = 1 /\ req \in {"matchStart", "matchResume"}
        BY <1>1, <1>2, <2>3, <3>2 DEF SlotRows
      <4>2. ok
        BY <2>3, <3>2, <4>1 DEF GoOn, Tolerated
      <4>3. next.got = snap.match /\ snap.match.ver >= hist.acked.match
        BY <1>1, <1>6, <1>7, <2>3, <4>1, <4>2 DEF NewEnough
      <4> QED BY <1>0, <1>8, <4>1, <4>3
    <3>3. (next.kind \in {"start", "resume"} /\ next.step = 2) => next.got.ver >= hist'.acked.match
      BY <1>1, <2>3, <3>2
    <3>4. (next.kind = "resume" /\ next.step <= 2) => SchedFresh(next.base)'
      <4> SUFFICES ASSUME next.kind = "resume", next.step <= 2 PROVE SchedFresh(next.base)'
        OBVIOUS
      <4>1. ops[s].step = 1 /\ hist'.acked.sched = hist.acked.sched /\ next.base = ops[s].base /\ kind = "resume"
        BY <1>1, <2>3, <3>2
      <4>2. SchedFresh(ops[s].base)
        BY <1>5, <4>1 DEF OpFresh
      <4> QED BY <4>1, <4>2 DEF SchedFresh
    <3> QED BY <2>3, <3>1, <3>3, <3>4 DEF OpFresh, SchedFresh
  <2> QED BY <2>1, <2>2, <2>3
<1> QED BY <1>9, <1>11, <1>12, <1>13, <1>14


\* Every step keeps what is shown, and what is under way, at least as new as
\* the last acknowledged answer.
LEMMA OwnStep == PanelTypes /\ PastInv /\ OneAction /\ OwnInv /\ [Next]_vars => OwnInv'
<1> SUFFICES ASSUME PanelTypes, PastInv, OneAction, OwnInv, [Next]_vars, ~hist'.disturbed
             PROVE  /\ Acked' /\ MatchFresh(panel.match)' /\ SchedFresh(panel.sched)' /\ QueueFresh'
                    /\ \A s \in Slots : OpFresh(ops[s], Told(s))'
  <2>1. OwnInv' <=> (~hist'.disturbed =>
                       /\ Acked' /\ MatchFresh(panel.match)' /\ SchedFresh(panel.sched)' /\ QueueFresh'
                       /\ \A s \in Slots : OpFresh(ops[s], Told(s))')
    BY DEF OwnInv, Acked, QueueFresh, NewEnough, OpFresh
  <2> QED BY <2>1
<1>0. /\ ops \in [Slots -> OpRecord] /\ panel \in Statuses /\ queue \in Seq(Statuses) /\ Len(queue) \in Nat
      /\ hist.acked.match \in Nat /\ hist.acked.sched \in Nat /\ quiet \in Int /\ quiet >= Loud
      /\ server \in Statuses /\ \A i \in 1..Len(queue) : queue[i] \in Statuses
  BY TypeParts DEF PanelTypes
<1>g. /\ server.match.ver \in Nat /\ server'.match.ver \in Nat /\ server.match.ver <= server'.match.ver
      /\ server.sched.ver \in Nat /\ server'.sched.ver \in Nat /\ server.sched.ver <= server'.sched.ver
  BY ServerGrows
<1>c. ~hist.disturbed => /\ Acked /\ MatchFresh(panel.match) /\ SchedFresh(panel.sched) /\ QueueFresh
                         /\ \A s \in Slots : OpFresh(ops[s], Told(s))
  BY OwnClauses
<1>a. (~hist.disturbed /\ hist'.acked = hist.acked) => Acked'
  BY <1>0, <1>c, <1>g DEF Acked
<1>p. (~hist.disturbed /\ hist'.acked = hist.acked /\ panel' = panel) =>
        MatchFresh(panel.match)' /\ SchedFresh(panel.sched)'
  BY <1>c DEF MatchFresh, SchedFresh
<1>1. ASSUME NEW s \in Slots, NEW op \in OpRecord, ops' = [ops EXCEPT ![s] = op],
             ~hist.disturbed, hist'.acked = hist.acked
      PROVE  \A t \in Slots : t # s => OpFresh(ops[t], Told(t))'
  <2> SUFFICES ASSUME NEW t \in Slots, t # s PROVE OpFresh(ops[t], Told(t))'
    OBVIOUS
  <2>1. ops'[t] = ops[t] /\ (Told(t)' <=> Told(t)) /\ OpFresh(ops[t], Told(t))
    BY <1>0, <1>c, <1>1, OthersKeep
  <2> QED BY <1>1, <2>1 DEF OpFresh, SchedFresh, NewEnough
<1>2. ASSUME NEW s \in Slots, Click(s) \/ PressEnter(s)
      PROVE  /\ Acked' /\ MatchFresh(panel.match)' /\ SchedFresh(panel.sched)' /\ QueueFresh'
             /\ \A t \in Slots : OpFresh(ops[t], Told(t))'
  <2>1. PICK op \in OpRecord :
            /\ op.kind \in Kinds /\ op.step = 1 /\ op.base = panel.sched /\ op.ans = NoAnswer
            /\ ops' = [ops EXCEPT ![s] = op]
            /\ quiet' = (IF Suppresses(op.kind) THEN Len(queue) ELSE quiet)
            /\ UNCHANGED <<server, cached, queue, panel, audit>>
    BY <1>2, BeginOps
  <2>2. ~hist.disturbed /\ InFlight = {} /\ hist'.acked = hist.acked
    BY <1>2, BeginAlone
  <2>3. ops'[s] = op /\ op.kind # "none" /\ ~Told(s)'
    BY <1>0, <2>1, OneMoves, Empty DEF Kinds
  <2>4. OpFresh(ops[s], Told(s))'
    BY <1>c, <2>1, <2>2, <2>3 DEF OpFresh, SchedFresh
  <2>5. QueueFresh'
    <3>1. CASE Suppresses(op.kind)
      <4>1. quiet' = Len(queue') /\ Len(queue') \in Nat
        BY <1>0, <2>1, <3>1
      <4> QED BY <4>1 DEF QueueFresh
    <3>2. CASE ~Suppresses(op.kind)
      <4>1. QueueFresh /\ ~HoldsBack /\ UNCHANGED <<queue, quiet>>
        BY <1>c, <2>1, <2>2, <3>2 DEF HoldsBack
      <4> QED BY <2>2, <4>1 DEF QueueFresh, NewEnough
    <3> QED BY <3>1, <3>2
  <2>6. \A t \in Slots : OpFresh(ops[t], Told(t))'
    BY <1>1, <2>1, <2>2, <2>4
  <2> QED BY <1>a, <1>p, <2>1, <2>2, <2>5, <2>6
<1>3. ASSUME NEW s \in Slots, Serve(s)
      PROVE  /\ Acked' /\ MatchFresh(panel.match)' /\ SchedFresh(panel.sched)' /\ QueueFresh'
             /\ \A t \in Slots : OpFresh(ops[t], Told(t))'
  <2>1. PICK op \in OpRecord :
            /\ ops[s].kind # "none" /\ ops' = [ops EXCEPT ![s] = op]
            /\ op.kind = ops[s].kind /\ op.step = ops[s].step
            /\ op.base = ops[s].base /\ op.got = ops[s].got
            /\ (op.ans.res = "ok" /\ Request(s) # "feeds") => op.ans.snap = server'
            /\ hist'.disturbed = hist.disturbed /\ hist'.acked = hist.acked
            /\ UNCHANGED <<cached, queue, panel, pending, quiet, audit, left>>
    BY <1>3, ServeOps
  <2>2. ~hist.disturbed
    BY <2>1
  <2>3. OpFresh(ops[s], Told(s))'
    <3>1. ops'[s] = op /\ (Told(s)' => op.ans.snap = server')
      <4>1. Request(s) = Script(op.kind)[op.step]
        BY <2>1 DEF Request
      <4> QED BY <1>0, <2>1, <4>1, OneMoves
    <3>2. Told(s)' => NewEnough(op.ans.snap)'
      <4> SUFFICES ASSUME Told(s)' PROVE op.ans.snap.match.ver >= hist'.acked.match
                                         /\ op.ans.snap.sched.ver >= hist'.acked.sched
        BY DEF NewEnough
      <4>1. op.ans.snap = server'
        BY <3>1
      <4>2. server'.match.ver >= hist'.acked.match /\ server'.sched.ver >= hist'.acked.sched
        BY <1>0, <1>a, <1>g, <2>1, <2>2 DEF Acked
      <4> QED BY <4>1, <4>2
    <3>3. OpFresh(ops[s], Told(s))
      BY <1>c, <2>2
    <3> QED BY <2>1, <3>1, <3>2, <3>3 DEF OpFresh, SchedFresh, NewEnough
  <2>4. QueueFresh'
    <3>1. HoldsBack' <=> HoldsBack
      <4>1. \A t \in Slots : ops'[t].kind = ops[t].kind
        BY <1>0, <2>1
      <4> QED BY <4>1 DEF HoldsBack, InFlight, Suppresses
    <3>2. QueueFresh /\ UNCHANGED <<queue, quiet>> /\ hist'.acked = hist.acked
      BY <1>c, <2>1, <2>2
    <3> QED BY <3>1, <3>2 DEF QueueFresh, NewEnough
  <2>5. \A t \in Slots : OpFresh(ops[t], Told(t))'
    BY <1>1, <2>1, <2>2, <2>3
  <2> QED BY <1>a, <1>p, <2>1, <2>2, <2>4, <2>5
<1>4. ASSUME NEW s \in Slots, Answer(s)
      PROVE  /\ Acked' /\ MatchFresh(panel.match)' /\ SchedFresh(panel.sched)' /\ QueueFresh'
             /\ \A t \in Slots : OpFresh(ops[t], Told(t))'
  BY <1>4, OwnAnswer
<1>5. CASE ServerMoves \/ GatewayPolls \/ FrameArrives \/ StreamReconnects \/ QuietEnds \/ UNCHANGED vars
  <2>1. ~hist.disturbed /\ hist'.acked = hist.acked /\ ~StreamReconnects /\ UNCHANGED <<pending, ops>>
    BY <1>5, OutsideHist
  <2>2. \A t \in Slots : OpFresh(ops[t], Told(t))'
    <3> SUFFICES ASSUME NEW t \in Slots PROVE OpFresh(ops[t], Told(t))'
      OBVIOUS
    <3>1. OpFresh(ops[t], Told(t)) /\ (Told(t)' <=> Told(t)) /\ ops'[t] = ops[t]
      BY <1>c, <2>1 DEF Told, Request
    <3> QED BY <2>1, <3>1 DEF OpFresh, SchedFresh, NewEnough
  <2>3. HoldsBack' <=> HoldsBack
    BY <2>1 DEF HoldsBack, InFlight
  <2>4. CASE ServerMoves \/ UNCHANGED vars
    <3>1. UNCHANGED <<queue, quiet, panel>>
      BY <2>4 DEF ServerMoves, vars
    <3>2. QueueFresh'
      BY <1>c, <2>1, <2>3, <3>1 DEF QueueFresh, NewEnough
    <3> QED BY <1>a, <1>p, <2>1, <2>2, <3>1, <3>2
  <2>5. CASE GatewayPolls
    <3>1. panel' = panel /\ quiet' = quiet /\ (queue' = queue \/ queue' = Append(queue, server))
      BY <2>5 DEF GatewayPolls
    <3>2. ASSUME queue' = Append(queue, server), ~HoldsBack, NEW i \in 1..Len(queue'), i > quiet
          PROVE  NewEnough(queue[i])'
      <4>1. /\ Len(queue') = Len(queue) + 1 /\ queue'[Len(queue) + 1] = server
            /\ \A j \in 1..Len(queue) : queue'[j] = queue[j]
        BY <1>0, <3>2, QueueFacts
      <4>2. NewEnough(server)
        BY <1>0, <1>c, <1>g, <2>1 DEF Acked, NewEnough
      <4>3. i \in 1..Len(queue) \/ i = Len(queue) + 1
        BY <1>0, <4>1
      <4>4. CASE i \in 1..Len(queue)
        BY <1>c, <2>1, <3>2, <4>1, <4>4 DEF QueueFresh, NewEnough
      <4>5. CASE i = Len(queue) + 1
        BY <2>1, <4>1, <4>2, <4>5 DEF NewEnough
      <4> QED BY <4>3, <4>4, <4>5
    <3>3. CASE queue' = queue
      BY <1>a, <1>c, <1>p, <2>1, <2>2, <2>3, <3>1, <3>3 DEF QueueFresh, NewEnough
    <3>4. CASE queue' = Append(queue, server)
      <4>1. QueueFresh'
        BY <2>3, <3>1, <3>2, <3>4 DEF QueueFresh
      <4> QED BY <1>a, <1>p, <2>1, <2>2, <3>1, <4>1
    <3> QED BY <3>1, <3>3, <3>4
  <2>6. CASE FrameArrives
    <3>1. /\ queue # <<>> /\ queue' = Tail(queue) /\ quiet' = (IF quiet > 0 THEN quiet - 1 ELSE quiet)
          /\ FramesPass => panel' = Head(queue)
          /\ ~FramesPass => panel' = panel
      BY <2>6 DEF FrameArrives
    <3>2. /\ Len(queue) >= 1 /\ Head(queue) = queue[1] /\ Len(queue') = Len(queue) - 1
          /\ \A i \in 1..(Len(queue) - 1) : queue'[i] = queue[i + 1]
      BY <1>0, <3>1, QueueFacts
    <3>3. QueueFresh'
      <4> SUFFICES ASSUME ~HoldsBack, NEW i \in 1..Len(queue'), i > quiet' PROVE NewEnough(queue[i])'
        BY <2>3 DEF QueueFresh
      <4>1. i + 1 \in 1..Len(queue) /\ i + 1 > quiet /\ queue'[i] = queue[i + 1]
        BY <1>0, <3>1, <3>2 DEF Loud
      <4>2. NewEnough(queue[i + 1])
        BY <1>c, <2>1, <4>1 DEF QueueFresh
      <4> QED BY <2>1, <4>1, <4>2 DEF NewEnough
    <3>4. CASE FramesPass
      <4>1. ~HoldsBack
        <5>1. pending \in {"none", "runtime"}
          BY <3>4 DEF FramesPass, IsGameAction
        <5>2. ASSUME NEW t \in InFlight PROVE ops[t].kind = "runtime"
          <6>1. ops[t].kind # "none"
            BY DEF InFlight
          <6>2. pending = ops[t].kind
            BY <2>1 DEF OneAction
          <6> QED BY <5>1, <6>1, <6>2
        <5> QED BY <5>2 DEF HoldsBack, Suppresses
      <4>2. NewEnough(queue[1])
        <5>1. 1 \in 1..Len(queue) /\ 1 > quiet
          BY <1>0, <3>2, <3>4 DEF FramesPass, Loud
        <5> QED BY <1>c, <2>1, <4>1, <5>1 DEF QueueFresh
      <4>3. MatchFresh(panel.match)' /\ SchedFresh(panel.sched)'
        BY <2>1, <3>1, <3>2, <3>4, <4>2 DEF MatchFresh, SchedFresh, NewEnough
      <4> QED BY <1>a, <2>1, <2>2, <3>3, <4>3
    <3>5. CASE ~FramesPass
      BY <1>a, <1>p, <2>1, <2>2, <3>1, <3>3, <3>5
    <3> QED BY <3>4, <3>5
  <2>7. CASE QuietEnds
    <3>1. quiet = 0 /\ UNCHANGED <<panel, queue>>
      BY <2>7 DEF QuietEnds
    <3>2. QueueFresh'
      BY <1>0, <1>c, <2>1, <2>3, <3>1 DEF QueueFresh, NewEnough
    <3> QED BY <1>a, <1>p, <2>1, <2>2, <3>1, <3>2
  <2> QED BY <1>5, <2>1, <2>4, <2>5, <2>6, <2>7
<1> QED BY <1>2, <1>3, <1>4, <1>5 DEF Next

\* The organizer never sees an own, acknowledged action undone by an older frame,
\* for every number of frames under way, as long as actions do not overlap and the
\* stream stays up: the suppression is long enough.
THEOREM OwnActionsStayShown == Spec => []OwnActionShown
<1>1. Init => OneAction /\ OwnInv
  <2> SUFFICES ASSUME Init PROVE OneAction /\ OwnInv
    OBVIOUS
  <2>1. /\ server.match.ver = 1 /\ server.sched.ver = 1
    BY DEF Init
  <2>2. /\ hist.acked.match = 1 /\ hist.acked.sched = 1 /\ panel = server
        /\ queue = <<server>> /\ pending = "none"
    BY DEF Init
  <2>3. \A s \in Slots : ops[s].kind = "none"
    BY Empty DEF Init
  <2>4. InFlight = {} /\ \A s \in Slots : ~Told(s)
    BY <2>3 DEF InFlight, Told
  <2>5. \A i \in 1..Len(queue) : queue[i] = server
    BY <2>2
  <2>6. OneAction
    BY <2>2, <2>4 DEF OneAction
  <2>7. OwnInv
    BY <2>1, <2>2, <2>3, <2>4, <2>5 DEF OwnInv, MatchFresh, SchedFresh
  <2> QED BY <2>6, <2>7
<1>2. OwnInv => OwnActionShown
  BY DEF OwnInv, OwnActionShown, MatchFresh, SchedFresh
<1> QED
  BY <1>1, <1>2, SafetyInside, TypesStart, TypesStep, PastStart, PastStep, OneStep, OwnStep, PTL DEF Safety


-----------------------------------------------------------------------------
(* Only lost frames leave a page at rest behind.                           *)

\* What the page shows of a status.
ShownAlike(st, now) ==
    /\ ShownMatch(st.match) = ShownMatch(now.match) /\ ShownSched(st.sched) = ShownSched(now.sched)
    /\ st.tick = now.tick

\* Two statuses are shown alike exactly when their parts are.
LEMMA ShownParts ==
  ASSUME NEW st \in Statuses, NEW now \in Statuses
  PROVE  /\ Shown(st) = Shown(now) <=> ShownAlike(st, now)
         /\ Same(st, now) => st = now /\ ShownAlike(st, now)
<1>1. Shown(st) = Shown(now) <=> ShownAlike(st, now)
  BY DEF Shown, ShownAlike, ShownMatch, ShownSched
<1>2. Same(st, now) => st = now
  BY DEF Same, Statuses
<1> QED BY <1>1, <1>2 DEF Same, ShownAlike

\* game-core never comes back to a status the gateway had before.
LEMMA NoWayBack ==
  ASSUME PanelTypes, PastInv, server' \in Statuses, Follows(server'), cached = server'
  PROVE  server' = server
<1>0. cached \in Statuses /\ server \in Statuses
  BY TypeParts
<1>1. \A st \in Statuses : Rank(st) \in Nat
  BY DEF Rank, Statuses
<1>2. Same(cached, server) \/ Rank(cached) < Rank(server)
  BY DEF PastInv, Past
<1>3. Same(server, server') \/ Rank(server) < Rank(server')
  BY DEF Follows, Past
<1>4. \A x, y : Same(x, y) => Rank(x) = Rank(y) /\ Same(y, x)
  BY DEF Same, Rank
<1>5. Same(server, server')
  <2> HIDE DEF Same, Rank
  <2> QED BY <1>0, <1>1, <1>2, <1>3, <1>4
<1> QED BY <1>0, <1>5, ShownParts

\* The clauses of StaleInv.
LastIsCached == (~hist.missed /\ ~hist.disturbed /\ queue # <<>>) => queue[Len(queue)] = cached
OpCurrent(op, told, req) ==
    /\ told => /\ Same(op.ans.snap, server)
               /\ req \in {"matchPause", "matchStop"} => server.sched.state = "stopped"
    /\ (op.kind \in {"start", "resume"} /\ op.step = 2) => ShownMatch(op.got) = ShownMatch(server.match)
    /\ (op.kind = "resume" /\ op.step <= 2) => ShownSched(op.base) = ShownSched(server.sched)
SettledWell ==
    /\ ~StatusComes => Shown(panel) = Shown(server)
    /\ \A s \in InFlight : OpCurrent(ops[s], Told(s), Request(s))

\* StaleInv clause by clause, before and after a step.
LEMMA StaleClauses ==
  /\ StaleInv <=> LastIsCached /\ (Settled => SettledWell)
  /\ StaleInv' <=> LastIsCached' /\ (Settled' => SettledWell')
<1>1. StaleInv <=> LastIsCached /\ (Settled => SettledWell)
  BY DEF StaleInv, LastIsCached, SettledWell, OpCurrent
<1>2. StaleInv' <=> LastIsCached' /\ (Settled' => SettledWell')
  BY DEF StaleInv, LastIsCached, SettledWell, OpCurrent
<1> QED BY <1>1, <1>2

\* An answer on a settled page shows game-core's status again.
LEMMA StaleAnswer ==
  ASSUME PanelTypes, OneAction, StaleInv, NEW s \in Slots, Answer(s), Settled'
  PROVE  SettledWell'
<1> DEFINE ok == ops[s].ans.res = "ok"
           req == Request(s)
           snap == ops[s].ans.snap
           kind == ops[s].kind
<1>0. /\ ops \in [Slots -> OpRecord] /\ panel \in Statuses /\ snap \in Statuses /\ server \in Statuses
      /\ server.sched.state # "unloaded"
  BY TypeParts DEF Complete
<1>1. PICK next \in OpRecord :
        /\ kind # "none" /\ ops[s].ans.res # "none" /\ ops' = [ops EXCEPT ![s] = next]
        /\ GoOn(s) => /\ next.kind = kind /\ next.step = ops[s].step + 1
                      /\ next.ans = NoAnswer /\ next.base = ops[s].base
                      /\ next.got = IF ops[s].step = 1 THEN snap.match ELSE ops[s].got
        /\ ~GoOn(s) => next = IdleOp
        /\ UNCHANGED <<server, cached, queue, left>>
  BY AnswerOps
<1>2. SlotRows(kind, ops[s].step, Len(Script(kind)), req)
  BY <1>1, RequestOfSlot
<1>3. ~hist.disturbed /\ ~hist.missed /\ ~(ok /\ req = "advance")
  BY AnswerHist DEF Settled
<1>4. InFlight = {s}
  <2>1. s \in InFlight
    BY <1>1 DEF InFlight
  <2> QED BY <1>3, <2>1 DEF OneAction
<1>5. SettledWell
  <2>1. Settled
    BY <1>1, <1>3 DEF Settled
  <2> QED BY <2>1, StaleClauses
<1>6. OpCurrent(ops[s], Told(s), req)
  BY <1>4, <1>5 DEF SettledWell
<1>7. (ok /\ req \notin {"feeds", "runtime"}) => Told(s)
  BY <1>1 DEF Told
<1>8. Told(s) => Same(snap, server) /\ ShownAlike(snap, server)
  BY <1>0, <1>6, ShownParts DEF OpCurrent
<1>9. ~(ok /\ req = "status") => ShownAlike(panel, server)
  <2>1. ~(ok /\ req = "status") => ~StatusComes
    BY <1>4 DEF StatusComes, Told
  <2> QED BY <1>0, <1>5, <2>1, ShownParts DEF SettledWell
<1>10. /\ panel' \in Statuses /\ panel'.match = NextMatch(ops[s], req, ok)
       /\ panel'.sched = NextSched(ops[s], req, ok) /\ panel'.tick = NextTick(ops[s], req, ok)
  BY AnswerParts DEF HasParts
<1>11. ShownAlike(panel', server)
  <2>1. CASE ok /\ req = "status"
    <3>1. panel'.match = snap.match /\ panel'.sched = snap.sched /\ panel'.tick = snap.tick
      BY <1>10, <2>1 DEF NextMatch, NextSched, NextTick
    <3>2. ShownAlike(snap, server)
      BY <1>7, <1>8, <2>1
    <3> QED BY <3>1, <3>2 DEF ShownAlike
  <2>2. CASE ~(ok /\ req = "status")
    <3>0. ShownAlike(panel, server)
      BY <1>9, <2>2
    <3>1. ShownMatch(panel'.match) = ShownMatch(server.match)
      <4>1. CASE ok /\ req \in {"matchStart", "window", "matchPause", "matchStop"}
        <5>1. panel'.match = snap.match /\ ShownAlike(snap, server)
          BY <1>7, <1>8, <1>10, <4>1 DEF NextMatch
        <5> QED BY <5>1 DEF ShownAlike
      <4>2. CASE req = "schedStart" /\ kind \in {"start", "resume"} /\ (ok \/ kind = "resume")
        <5>1. panel'.match = ops[s].got /\ ops[s].step = 2
          BY <1>2, <1>10, <4>2 DEF NextMatch, SlotRows
        <5> QED BY <1>6, <4>2, <5>1 DEF OpCurrent
      <4>3. CASE /\ ~(ok /\ req \in {"matchStart", "window", "matchPause", "matchStop"})
                 /\ ~(req = "schedStart" /\ kind \in {"start", "resume"} /\ (ok \/ kind = "resume"))
        <5>1. panel'.match = panel.match
          BY <1>3, <1>10, <2>2, <4>3 DEF NextMatch
        <5> QED BY <3>0, <5>1 DEF ShownAlike
      <4> QED BY <4>1, <4>2, <4>3
    <3>2. ShownSched(panel'.sched) = ShownSched(server.sched)
      <4>1. CASE ok /\ req \in {"matchPause", "matchStop"}
        <5>1. panel'.sched = StoppedLocally /\ server.sched.state = "stopped"
          BY <1>6, <1>7, <1>10, <4>1 DEF NextSched, OpCurrent
        <5>2. panel.sched.state = server.sched.state /\ panel.sched.interval = server.sched.interval
          BY <3>0 DEF ShownAlike, ShownSched
        <5>3. StoppedLocally.state = "stopped" /\ StoppedLocally.interval = server.sched.interval
          BY <1>0, <5>2, StoppedShown
        <5> QED BY <5>1, <5>3 DEF ShownSched
      <4>2. CASE ok /\ req \in {"schedStart", "schedStop", "interval"}
        <5>1. panel'.sched = snap.sched /\ ShownAlike(snap, server)
          BY <1>7, <1>8, <1>10, <4>2 DEF NextSched
        <5> QED BY <5>1 DEF ShownAlike
      <4>3. CASE ~ok /\ req = "schedStart" /\ kind = "resume"
        <5>1. panel'.sched = ops[s].base /\ ops[s].step = 2
          BY <1>2, <1>10, <4>3 DEF NextSched, SlotRows
        <5> QED BY <1>6, <4>3, <5>1 DEF OpCurrent
      <4>4. CASE /\ ~(ok /\ req \in {"matchPause", "matchStop", "schedStart", "schedStop", "interval"})
                 /\ ~(~ok /\ req = "schedStart" /\ kind = "resume")
        <5>1. panel'.sched = panel.sched
          BY <1>3, <1>10, <2>2, <4>4 DEF NextSched
        <5> QED BY <3>0, <5>1 DEF ShownAlike
      <4> QED BY <4>1, <4>2, <4>3, <4>4
    <3>3. panel'.tick = server.tick
      BY <1>3, <1>10, <2>2, <3>0 DEF NextTick, ShownAlike
    <3> QED BY <3>1, <3>2, <3>3 DEF ShownAlike
  <2> QED BY <2>1, <2>2
<1>12. Shown(panel)' = Shown(server)'
  <2>1. Shown(panel') = Shown(server)
    BY <1>0, <1>10, <1>11, ShownParts
  <2> QED BY <1>1, <2>1 DEF Shown
<1>13. ASSUME NEW t \in InFlight' PROVE OpCurrent(ops[t], Told(t), Request(t))'
  <2>1. GoOn(s) /\ t = s
    <3>1. CASE ~GoOn(s)
      <4>1. InFlight' = {}
        BY <1>0, <1>1, <1>4, <3>1, FlightAfter, Empty
      <4> QED BY <4>1
    <3>2. CASE GoOn(s)
      <4>1. InFlight' = {s}
        BY <1>0, <1>1, <1>4, <3>2, FlightAfter
      <4> QED BY <3>2, <4>1
    <3> QED BY <3>1, <3>2
  <2>2. ops'[t] = next /\ ~Told(t)'
    BY <1>0, <1>1, <2>1, OneMoves, Empty
  <2>3. ASSUME kind \in {"start", "resume"}, next.step <= 2
        PROVE  ops[s].step = 1 /\ ShownMatch(next.got) = ShownMatch(server.match)
    <3>1. ops[s].step = 1 /\ req \in {"matchStart", "matchResume"}
      BY <1>1, <1>2, <2>1, <2>3 DEF SlotRows
    <3>2. ok
      BY <2>1, <2>3, <3>1 DEF GoOn, Tolerated
    <3>3. next.got = snap.match /\ ShownAlike(snap, server)
      BY <1>1, <1>7, <1>8, <2>1, <3>1, <3>2
    <3> QED BY <3>1, <3>3 DEF ShownAlike
  <2>4. (next.kind \in {"start", "resume"} /\ next.step = 2) => ShownMatch(next.got) = ShownMatch(server.match)
    BY <1>1, <2>1, <2>3
  <2>5. (next.kind = "resume" /\ next.step <= 2) => ShownSched(next.base) = ShownSched(server.sched)
    <3> SUFFICES ASSUME next.kind = "resume", next.step <= 2
                 PROVE  ShownSched(next.base) = ShownSched(server.sched)
      OBVIOUS
    <3>1. ops[s].step = 1 /\ next.base = ops[s].base /\ kind = "resume"
      BY <1>1, <2>1, <2>3
    <3> QED BY <1>6, <3>1 DEF OpCurrent
  <2> QED BY <1>1, <2>2, <2>4, <2>5 DEF OpCurrent, ShownMatch, ShownSched
<1> QED BY <1>12, <1>13 DEF SettledWell


\* A request that is served on a settled page changes nothing there.
LEMMA StaleServe ==
  ASSUME PanelTypes, PastInv, OneAction, StaleInv, NEW s \in Slots, Serve(s), Settled'
  PROVE  SettledWell'
<1>0. ops \in [Slots -> OpRecord]
  BY TypeParts
<1>1. PICK op \in OpRecord :
        /\ ops[s].kind # "none" /\ ops[s].ans.res = "none" /\ ops' = [ops EXCEPT ![s] = op]
        /\ op.kind = ops[s].kind /\ op.step = ops[s].step
        /\ op.base = ops[s].base /\ op.got = ops[s].got
        /\ (op.ans.res = "ok" /\ Request(s) # "feeds") => op.ans.snap = server'
        /\ (op.ans.res = "ok" /\ Request(s) \in {"matchPause", "matchStop"}) => server'.sched.state = "stopped"
        /\ Follows(server')
        /\ hist'.disturbed = hist.disturbed
        /\ (hist.missed /\ ~hist'.missed) => Request(s) = "status" /\ op.ans.res = "ok"
        /\ UNCHANGED <<cached, queue, panel, pending, quiet, audit, left>>
  BY ServeOps
<1>2. SlotRows(ops[s].kind, ops[s].step, Len(Script(ops[s].kind)), Request(s))
  BY <1>1, RequestOfSlot
<1>3. server' = server
  BY <1>1, NoWayBack DEF Settled, Follows, Complete
<1>4. InFlight = {s} /\ InFlight' = {s}
  <2>1. s \in InFlight /\ ~hist.disturbed
    BY <1>1 DEF InFlight, Settled
  <2>2. InFlight = {s}
    BY <2>1 DEF OneAction
  <2> QED BY <1>0, <1>1, <2>2, FlightAfter
<1>5. /\ ops'[s] = op /\ Request(s)' = Request(s)
      /\ Told(s)' => op.ans.res = "ok" /\ op.ans.snap = server'
  <2>1. Request(s) = Script(op.kind)[op.step]
    BY <1>1 DEF Request
  <2>2. /\ ops'[s] = op /\ Request(s)' = Script(op.kind)[op.step]
        /\ Told(s)' => op.ans.res = "ok" /\ Script(op.kind)[op.step] # "feeds"
    BY <1>0, <1>1, OneMoves
  <2> QED BY <1>1, <2>1, <2>2
<1>6. Told(s)' => /\ Same(op.ans.snap, server')
                  /\ Request(s) \in {"matchPause", "matchStop"} => server'.sched.state = "stopped"
  BY <1>1, <1>5 DEF Same
<1>7. CASE ~hist.missed
  <2>1. SettledWell
    <3>1. Settled
      BY <1>1, <1>3, <1>7 DEF Settled
    <3> QED BY <3>1, StaleClauses
  <2>2. ~StatusComes
    BY <1>1, <1>4 DEF StatusComes, Told
  <2>3. Shown(panel)' = Shown(server)'
    BY <1>1, <1>3, <2>1, <2>2 DEF SettledWell, Shown
  <2>4. OpCurrent(ops[s], Told(s), Request(s))
    BY <1>4, <2>1 DEF SettledWell
  <2>5. OpCurrent(ops[s], Told(s), Request(s))'
    BY <1>1, <1>3, <1>5, <1>6, <2>4 DEF OpCurrent, Same, ShownMatch, ShownSched
  <2> QED BY <1>4, <2>3, <2>5 DEF SettledWell
<1>8. CASE hist.missed
  <2>1. Request(s) = "status" /\ op.ans.res = "ok"
    BY <1>1, <1>8 DEF Settled
  <2>2. StatusComes'
    <3>1. Told(s)' /\ Request(s)' = "status"
      BY <1>1, <1>5, <2>1 DEF Told
    <3> QED BY <1>4, <3>1 DEF StatusComes
  <2>3. ~(op.kind \in {"start", "resume"} /\ op.step <= 2)
    BY <1>1, <1>2, <2>1 DEF SlotRows
  <2>4. OpCurrent(ops[s], Told(s), Request(s))'
    <3>1. op.step \in Nat
      BY DEF OpRecord
    <3> QED BY <1>5, <1>6, <2>3, <3>1 DEF OpCurrent, Same
  <2> QED BY <1>4, <2>2, <2>4 DEF SettledWell
<1> QED BY <1>7, <1>8

\* A button on a settled page starts from what game-core has.
LEMMA StaleBegin ==
  ASSUME PanelTypes, OneAction, StaleInv, NEW s \in Slots, Click(s) \/ PressEnter(s), Settled'
  PROVE  SettledWell'
<1>0. ops \in [Slots -> OpRecord] /\ panel \in Statuses /\ server \in Statuses
  BY TypeParts
<1>1. PICK op \in OpRecord :
          /\ op.kind \in Kinds /\ op.step = 1 /\ op.base = panel.sched /\ op.ans = NoAnswer
          /\ ops' = [ops EXCEPT ![s] = op]
          /\ UNCHANGED <<server, cached, queue, panel, audit>>
  BY BeginOps
<1>2. ~hist.disturbed /\ InFlight = {} /\ hist'.missed = hist.missed
  BY BeginAlone DEF Settled
<1>3. Settled /\ SettledWell /\ ~StatusComes
  BY <1>1, <1>2, StaleClauses DEF Settled, StatusComes
<1>4. Shown(panel) = Shown(server)
  BY <1>3 DEF SettledWell
<1>5. ShownSched(panel.sched) = ShownSched(server.sched)
  BY <1>0, <1>4, ShownParts DEF ShownAlike
<1>6. op.kind # "none"
  BY <1>1 DEF Kinds
<1>7. InFlight' = {s} /\ ops'[s] = op /\ ~Told(s)'
  BY <1>0, <1>1, <1>2, <1>6, FlightAfter, OneMoves, Empty
<1>8. OpCurrent(ops[s], Told(s), Request(s))'
  BY <1>1, <1>5, <1>7 DEF OpCurrent, ShownSched
<1>9. Shown(panel)' = Shown(server)'
  BY <1>1, <1>4 DEF Shown
<1> QED BY <1>7, <1>8, <1>9 DEF SettledWell

\* The last frame under way settles the page.
LEMMA StaleFrame ==
  ASSUME PanelTypes, OneAction, StaleInv, FrameArrives, Settled'
  PROVE  SettledWell'
<1>0. queue \in Seq(Statuses) /\ ops \in [Slots -> OpRecord] /\ Len(queue) \in Nat /\ hist \in HistRecord
  BY TypeParts DEF PanelTypes, HistRecord
<1>1. /\ queue # <<>> /\ queue' = Tail(queue) /\ UNCHANGED <<server, cached, pending, ops, left>>
      /\ FramesPass => panel' = Head(queue) /\ hist' = hist
      /\ ~FramesPass => hist' = [hist EXCEPT !.missed = TRUE]
  BY DEF FrameArrives
<1>2. FramesPass
  <2>1. ~FramesPass => hist'.missed
    BY <1>0, <1>1 DEF HistRecord
  <2> QED BY <2>1 DEF Settled
<1>3. Len(queue) = 1 /\ Head(queue) = queue[1]
  <2>1. Len(queue) >= 1 /\ Len(queue') = Len(queue) - 1 /\ Head(queue) = queue[1]
    BY <1>0, <1>1, QueueFacts
  <2>2. Len(queue') = 0
    BY DEF Settled
  <2> QED BY <1>0, <2>1, <2>2
<1>4. queue[1] = cached
  BY <1>1, <1>2, <1>3, StaleClauses DEF LastIsCached, Settled
<1>5. Shown(panel)' = Shown(server)'
  BY <1>1, <1>2, <1>3, <1>4 DEF Settled
<1>6. ASSUME NEW t \in InFlight' PROVE OpCurrent(ops[t], Told(t), Request(t))'
  <2>1. t \in Slots /\ ops'[t] = ops[t] /\ ops[t].kind # "none" /\ t \in InFlight
    BY <1>1 DEF InFlight
  <2>2. pending = ops[t].kind
    BY <1>1, <1>2, <2>1 DEF OneAction, Settled
  <2>3. ops[t].kind = "runtime"
    BY <1>2, <2>1, <2>2 DEF FramesPass, IsGameAction
  <2>4. Request(t) = "runtime"
    BY <2>1, <2>3, RequestOfSlot DEF SlotRows
  <2>5. Request(t)' = "runtime" /\ ~Told(t)'
    BY <1>1, <2>4 DEF Told, Request
  <2> QED BY <2>1, <2>3, <2>5 DEF OpCurrent
<1> QED BY <1>5, <1>6 DEF SettledWell

\* The last frame under way is what the gateway published last.
LEMMA LastStep ==
  ASSUME PanelTypes, PastInv, OneAction, StaleInv, [Next]_vars
  PROVE  LastIsCached'
<1> SUFFICES ASSUME ~hist'.missed, ~hist'.disturbed, queue' # <<>> PROVE queue'[Len(queue')] = cached'
  BY DEF LastIsCached
<1>0. queue \in Seq(Statuses) /\ Len(queue) \in Nat /\ hist \in HistRecord /\ LastIsCached /\ server \in Statuses
  BY TypeParts, StaleClauses DEF PanelTypes, HistRecord
<1>1. (UNCHANGED <<queue, cached>> /\ ~hist.missed /\ ~hist.disturbed) => queue'[Len(queue')] = cached'
  BY <1>0 DEF LastIsCached
<1>2. ASSUME NEW s \in Slots, Click(s) \/ PressEnter(s) PROVE queue'[Len(queue')] = cached'
  <2>1. UNCHANGED <<queue, cached>>
    BY <1>2, BeginOps
  <2> QED BY <1>1, <1>2, <2>1, BeginAlone
<1>3. ASSUME NEW s \in Slots, Serve(s) PROVE queue'[Len(queue')] = cached'
  <2>1. /\ UNCHANGED <<queue, cached>> /\ hist'.disturbed = hist.disturbed
        /\ (hist.missed /\ ~hist'.missed) => queue = <<>>
    BY <1>3, ServeOps
  <2> QED BY <1>1, <2>1
<1>4. ASSUME NEW s \in Slots, Answer(s) PROVE queue'[Len(queue')] = cached'
  <2>1. UNCHANGED <<queue, cached>>
    BY <1>4 DEF Answer
  <2>2. ~hist.missed /\ ~hist.disturbed
    BY <1>4, AnswerHist
  <2> QED BY <1>1, <2>1, <2>2
<1>5. CASE ServerMoves \/ GatewayPolls \/ FrameArrives \/ StreamReconnects \/ QuietEnds \/ UNCHANGED vars
  <2>1. ~hist.missed /\ ~hist.disturbed /\ ~StreamReconnects
    BY <1>5, OutsideHist
  <2>2. CASE ServerMoves \/ QuietEnds \/ UNCHANGED vars
    BY <1>1, <2>1, <2>2 DEF ServerMoves, QuietEnds, vars
  <2>3. CASE GatewayPolls
    <3>1. Len(queue) < QueueSize
      <4>1. ~(Len(queue) < QueueSize) => hist' = [hist EXCEPT !.missed = TRUE]
        BY <2>3 DEF GatewayPolls
      <4>2. hist' = [hist EXCEPT !.missed = TRUE] => hist'.missed
        BY <1>0 DEF HistRecord
      <4> QED BY <4>1, <4>2
    <3>2. queue' = Append(queue, server) /\ cached' = server
      BY <2>3, <3>1 DEF GatewayPolls
    <3> QED BY <1>0, <3>2, QueueFacts
  <2>4. CASE FrameArrives
    <3>1. queue # <<>> /\ queue' = Tail(queue) /\ cached' = cached
      BY <2>4 DEF FrameArrives
    <3>2. /\ Len(queue') = Len(queue) - 1 /\ queue' \in Seq(Statuses)
          /\ \A i \in 1..(Len(queue) - 1) : queue'[i] = queue[i + 1]
      BY <1>0, <3>1, QueueFacts
    <3>3. Len(queue') # 0
      BY <3>2
    <3>4. Len(queue') \in 1..(Len(queue) - 1) /\ Len(queue') + 1 = Len(queue)
      BY <1>0, <3>2, <3>3
    <3>5. queue'[Len(queue')] = queue[Len(queue)]
      BY <3>2, <3>4
    <3> QED BY <1>0, <2>1, <3>1, <3>5 DEF LastIsCached
  <2> QED BY <1>5, <2>1, <2>2, <2>3, <2>4
<1> QED BY <1>2, <1>3, <1>4, <1>5 DEF Next

\* Every step keeps a settled page true.
LEMMA StaleStep == PanelTypes /\ PastInv /\ OneAction /\ StaleInv /\ [Next]_vars => StaleInv'
<1> SUFFICES ASSUME PanelTypes, PastInv, OneAction, StaleInv, [Next]_vars PROVE StaleInv'
  OBVIOUS
<1>0. LastIsCached'
  BY LastStep
<1> SUFFICES ASSUME Settled' PROVE SettledWell'
  BY <1>0, StaleClauses
<1>1. ASSUME NEW s \in Slots, Click(s) \/ PressEnter(s) PROVE SettledWell'
  BY <1>1, StaleBegin
<1>2. ASSUME NEW s \in Slots, Serve(s) PROVE SettledWell'
  BY <1>2, StaleServe
<1>3. ASSUME NEW s \in Slots, Answer(s) PROVE SettledWell'
  BY <1>3, StaleAnswer
<1>4. CASE FrameArrives
  BY <1>4, StaleFrame
<1>5. CASE GatewayPolls
  <2>1. /\ queue \in Seq(Statuses) /\ Len(queue) \in Nat /\ hist \in HistRecord /\ server \in Statuses
        /\ QueueSize \in Nat \ {0}
    BY TypeParts, OrganizerAssumption DEF PanelTypes, HistRecord
  <2>2. CASE Len(queue) < QueueSize
    <3>1. queue' = Append(queue, server)
      BY <1>5, <2>2 DEF GatewayPolls
    <3>2. Len(queue') = Len(queue) + 1 /\ Len(queue') = 0
      BY <2>1, <3>1, QueueFacts DEF Settled
    <3>3. Len(queue) + 1 # 0
      BY <2>1
    <3> QED BY <3>2, <3>3
  <2>3. CASE ~(Len(queue) < QueueSize)
    <3>1. hist' = [hist EXCEPT !.missed = TRUE]
      BY <1>5, <2>3 DEF GatewayPolls
    <3>2. hist'.missed
      BY <2>1, <3>1 DEF HistRecord
    <3> QED BY <3>2 DEF Settled
  <2> QED BY <2>2, <2>3
<1>6. CASE ServerMoves \/ QuietEnds \/ UNCHANGED vars
  <2>1. UNCHANGED <<cached, queue, panel, ops, hist>>
    BY <1>6 DEF ServerMoves, QuietEnds, vars
  <2>2. server' = server
    <3>1. CASE ServerMoves
      <4>1. Follows(server') /\ cached = server'
        BY <2>1, <3>1, TypeParts, MovesFollow DEF Settled
      <4> QED BY <4>1, NoWayBack DEF Follows, Complete
    <3>2. CASE QuietEnds \/ UNCHANGED vars
      BY <3>2 DEF QuietEnds, vars
    <3> QED BY <1>6, <3>1, <3>2
  <2>3. SettledWell
    BY <2>1, <2>2, StaleClauses DEF Settled
  <2> QED BY <2>1, <2>2, <2>3
       DEF SettledWell, StatusComes, Shown, InFlight, OpCurrent, Told, Request, Same, ShownMatch, ShownSched
<1>7. CASE StreamReconnects
  BY <1>7, OutsideHist DEF Settled
<1> QED BY <1>1, <1>2, <1>3, <1>4, <1>5, <1>6, <1>7 DEF Next

\* A page at rest that differs from game-core has lost a frame or shown an
\* advance's answer, for every number of frames and of actions: nothing else
\* leaves it behind.
THEOREM OnlyLossMakesItStale == Spec => []OnlyLostFramesMakeItStale
<1>1. Init => OneAction /\ StaleInv
  <2> SUFFICES ASSUME Init PROVE OneAction /\ StaleInv
    OBVIOUS
  <2>1. queue = <<cached>> /\ pending = "none"
    BY DEF Init
  <2>2. InFlight = {}
    BY Empty DEF Init, InFlight
  <2>3. OneAction
    BY <2>1, <2>2 DEF OneAction
  <2>4. queue[Len(queue)] = cached /\ queue # <<>>
    BY <2>1
  <2> QED BY <2>3, <2>4 DEF StaleInv, Settled
<1>2. StaleInv => OnlyLostFramesMakeItStale
  <2> SUFFICES ASSUME StaleInv, InFlight = {}, Settled PROVE Shown(panel) = Shown(server)
    BY DEF OnlyLostFramesMakeItStale, Settled
  <2>1. ~StatusComes
    BY DEF StatusComes
  <2> QED BY <2>1 DEF StaleInv
<1> QED
  BY <1>1, <1>2, SafetyInside, TypesStart, TypesStep, PastStart, PastStep, OneStep, StaleStep, PTL DEF Safety
=============================================================================
