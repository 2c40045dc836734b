--------------------------- MODULE OrganizerGame ---------------------------
(***************************************************************************)
(* The organizer's game page: the game status it shows, the actions it     *)
(* starts, and the stream of status frames the realtime gateway sends it   *)
(* (apps/web/components/admin/use-organizer-dashboard.ts, the game cards   *)
(* of organizer-dashboard-sections.tsx, services/realtime-gateway).        *)
(*                                                                         *)
(* An action is a script of requests.  While one is pending, and for a     *)
(* second after it, status frames are dropped so that an old frame cannot  *)
(* undo the answer on the screen.  The gateway polls, publishes a snapshot *)
(* only when it changed, and gives up a frame when a subscriber's channel  *)
(* is full.  The second is abstracted to an assumption: a frame that was   *)
(* under way when the second began is delivered before it ends.            *)
(***************************************************************************)
EXTENDS Integers, Sequences

CONSTANTS MaxInFlight, \* actions that can be in flight at once
          QueueSize,   \* frames a subscriber's channel holds (8 in the gateway)
          MaxEvents,   \* bound on game-core's own changes and the stream's reconnects
          MaxActions   \* bound on the actions the organizer starts

ASSUME OrganizerAssumption ==
    /\ MaxInFlight \in Nat \ {0}
    /\ QueueSize \in Nat \ {0}
    /\ MaxEvents \in Nat
    /\ MaxActions \in Nat

VARIABLES server,   \* the game status game-core holds: match, scheduler, tick
          cached,   \* the snapshot the gateway published last
          queue,    \* frames between the gateway and the page's handler
          panel,    \* gameState: the status the page shows
          pending,  \* pendingAction: the action whose spinner is shown
          quiet,    \* frames to outlast before the suppression ends, or Loud
          ops,      \* the actions in flight
          audit,    \* lastScoringAuditTickRef and the last tick an audit was asked for
          left,     \* what is left of the bounds
          hist      \* what the properties remember

vars == <<server, cached, queue, panel, pending, quiet, ops, audit, left, hist>>

-----------------------------------------------------------------------------
(* The status and the actions.                                             *)

MatchStates == {"not_started", "running", "paused", "finished"}
Windows == {"", "window"}             \* no window configured, or one
DefaultInterval == 60
Intervals == {30, DefaultInterval}

\* AdminGameStatus: match and scheduler are optional, "unloaded" when absent.
NotLoaded == [state |-> "unloaded", window |-> "", ver |-> 0]
NoScheduler == [state |-> "unloaded", interval |-> 0, ver |-> 0]

Statuses ==
    [match : [state : MatchStates \union {"unloaded"}, window : Windows, ver : Nat],
     sched : [state : {"running", "stopped", "unloaded"},
              interval : Intervals \union {0}, ver : Nat],
     tick  : [id : Nat, done : BOOLEAN]]

Loud == -1     \* no suppression

\* The requests an action sends, one after the other.  "feeds" stands for the
\* silent reads of other cards' data (events, checker runs, gateway status): the
\* action stays pending for them, the status shown does not depend on them.
Script(kind) ==
    CASE kind = "start"      -> <<"matchStart", "schedStart", "feeds">>
      [] kind = "pause"      -> <<"matchPause", "feeds", "status", "feeds">>
      [] kind = "resume"     -> <<"matchResume", "schedStart", "feeds", "status", "feeds">>
      [] kind = "stop"       -> <<"matchStop", "feeds">>
      [] kind = "advance"    -> <<"advance", "feeds", "recompute", "audit">>
      [] kind \in {"schedStart", "schedStop"} -> <<kind, "feeds">>
      [] kind \in {"window", "interval", "status", "recompute", "audit",
                   "runtime"} -> <<kind>>

Kinds == {"start", "pause", "resume", "stop", "schedStart", "schedStop", "window",
          "interval", "status", "advance", "recompute", "audit", "runtime"}

\* Requests whose failure the handler swallows and goes on.
Tolerated(kind) ==
    CASE kind = "pause"   -> {"feeds", "status"}
      [] kind = "resume"  -> {"schedStart", "feeds", "status"}
      [] kind = "advance" -> {"feeds", "recompute", "audit"}
      [] OTHER            -> {"feeds"}

\* Actions that hold back status frames when they begin and when they end.
Suppresses(kind) == kind \notin {"status", "recompute", "audit", "runtime"}

\* pendingAction starts with "game:": every action but those of the runtime cards.
IsGameAction(kind) == kind \notin {"none", "runtime"}

NoAnswer == [res |-> "none", snap |-> [match |-> NotLoaded, sched |-> NoScheduler,
                                       tick |-> [id |-> 0, done |-> FALSE]]]
Slots == 1..MaxInFlight

IdleOp == [kind |-> "none", step |-> 0, arg |-> 0, base |-> NoScheduler,
           got |-> NotLoaded, ans |-> NoAnswer]

InFlight == {s \in Slots : ops[s].kind # "none"}
Request(s) == Script(ops[s].kind)[ops[s].step]

-----------------------------------------------------------------------------
(* game-core, as far as its answers reach this page.                       *)

MatchAs(state) == [server.match EXCEPT !.state = state, !.ver = @ + 1]
SchedAs(state) ==
    IF server.sched.state = state THEN server.sched
    ELSE [server.sched EXCEPT !.state = state, !.ver = @ + 1]

Admits(req) ==
    CASE req = "matchStart"  -> server.match.state # "finished"
      [] req = "matchPause"  -> server.match.state \in {"running", "paused"}
      [] req = "matchResume" -> server.match.state # "finished"
      [] req = "schedStart"  -> \/ server.sched.state = "running"
                                \/ server.match.state = "running"
      [] req = "advance"     -> server.match.state = "running" /\ server.tick.done
      [] OTHER               -> TRUE

Handled(req, arg) ==
    CASE req = "matchStart" /\ server.match.state # "running" ->
            [server EXCEPT !.match = MatchAs("running")]
      [] req = "matchPause" ->
            [server EXCEPT !.match = IF @.state = "paused" THEN @ ELSE MatchAs("paused"),
                           !.sched = SchedAs("stopped")]
      [] req = "matchResume" /\ server.match.state = "paused" ->
            [server EXCEPT !.match = MatchAs("running")]
      [] req = "matchStop" ->
            [server EXCEPT !.match = IF @.state = "finished" THEN @ ELSE MatchAs("finished"),
                           !.sched = SchedAs("stopped")]
      [] req = "schedStart" -> [server EXCEPT !.sched = SchedAs("running")]
      [] req = "schedStop"  -> [server EXCEPT !.sched = SchedAs("stopped")]
      [] req = "window" ->
            [server EXCEPT !.match = [server.match EXCEPT !.window = arg, !.ver = @ + 1]]
      [] req = "interval" ->
            [server EXCEPT !.sched = [server.sched EXCEPT !.interval = arg, !.ver = @ + 1]]
      [] req = "advance" -> [server EXCEPT !.tick = [id |-> @.id + 1, done |-> TRUE]]
      [] OTHER -> server

-----------------------------------------------------------------------------
(* What the cards offer.                                                   *)

\* MatchLifecycleCard: a match that is not loaded is offered to start.
MatchOffers(kind) ==
    CASE kind = "start"  -> panel.match.state \notin {"running", "paused", "finished"}
      [] kind = "pause"  -> panel.match.state = "running"
      [] kind = "resume" -> panel.match.state = "paused"
      [] kind = "stop"   -> panel.match.state \in {"running", "paused"}
      [] OTHER           -> FALSE

\* MatchScheduleCard: Save needs a changed, valid window, Clear a non-empty one.
\* What is typed into the fields is the action's input.
WindowOffers(w) == w # panel.match.window \/ w = ""

\* SchedulerCard: the typed interval differs from the one shown.
IntervalChanged(i) == i # panel.sched.interval

\* SchedulerActionRow: a scheduler that is not loaded cannot be stopped.
SchedulerStops == panel.sched.state = "running"

-----------------------------------------------------------------------------
(* Audits of completed ticks.                                              *)

\* maybeAuditCompletedTick: one audit for each completed tick that is shown.
AuditAfterNothing(tick) == audit              \* mutant: a status answer asks for no audit
AuditAfter(tick) ==
    IF tick.id > 0 /\ tick.done /\ tick.id # audit.last
    THEN [last |-> tick.id, asked |-> tick.id]
    ELSE audit

-----------------------------------------------------------------------------
(* An action of the organizer.                                             *)

\* suppressGameStatusRealtime: from now on until the frames under way are gone.
SuppressOneMore == Len(queue) + 1            \* mutant: waits for a frame that was never sent
Suppress == Len(queue)

Begin(s, kind, arg) ==
    /\ left.actions > 0
    /\ s \notin InFlight /\ \A t \in Slots : t < s => t \in InFlight
    /\ ops' = [ops EXCEPT ![s] = [IdleOp EXCEPT !.kind = kind, !.step = 1, !.arg = arg,
                                                !.base = panel.sched]]
    /\ pending' = kind
    /\ quiet' = IF Suppresses(kind) THEN Suppress ELSE quiet
    /\ left' = [left EXCEPT !.actions = @ - 1]
    /\ UNCHANGED <<server, cached, queue, panel, audit>>

\* The buttons; every one of them is disabled while an action is pending.
StartGameMatch(s) == MatchOffers("start") /\ Begin(s, "start", 0)
PauseGameMatch(s) == MatchOffers("pause") /\ Begin(s, "pause", 0)
ResumeGameMatch(s) == MatchOffers("resume") /\ Begin(s, "resume", 0)
StopGameMatch(s) == MatchOffers("stop") /\ Begin(s, "stop", 0)
StartGameScheduler(s) == panel.sched.state # "running" /\ Begin(s, "schedStart", 0)
StopGameScheduler(s) == SchedulerStops /\ Begin(s, "schedStop", 0)
UpdateGameMatchSchedule(s) == \E w \in Windows : WindowOffers(w) /\ Begin(s, "window", w)
UpdateGameScheduler(s) ==
    \E i \in Intervals : IntervalChanged(i) /\ Begin(s, "interval", i)
RefreshGameStatus(s) == Begin(s, "status", 0)
AdvanceGameTick(s) == Begin(s, "advance", 0)
RecomputeGameScoring(s) == Begin(s, "recompute", 0)
AuditGameScoring(s) == Begin(s, "audit", 0)
RefreshRuntimeHealth(s) == Begin(s, "runtime", 0)

Click(s) ==
    /\ pending = "none"
    /\ \/ StartGameMatch(s) \/ PauseGameMatch(s) \/ ResumeGameMatch(s) \/ StopGameMatch(s)
       \/ StartGameScheduler(s) \/ StopGameScheduler(s)
       \/ UpdateGameMatchSchedule(s) \/ UpdateGameScheduler(s)
       \/ RefreshGameStatus(s) \/ AdvanceGameTick(s)
       \/ RecomputeGameScoring(s) \/ AuditGameScoring(s)
       \/ RefreshRuntimeHealth(s)
    /\ hist' = hist

\* Enter in the interval field looks at intervalChanged only.
PressEnter(s) ==
    /\ UpdateGameScheduler(s)
    /\ hist' = [hist EXCEPT !.disturbed = @ \/ InFlight # {}]

\* The request reaches game-core: handled, refused, or handled with the answer lost.
Serve(s) ==
    /\ ops[s].kind # "none"
    /\ ops[s].ans.res = "none"
    /\ LET req == Request(s)
           new == Handled(req, ops[s].arg)
           told == IF req = "feeds" THEN NoAnswer.snap ELSE new
       IN \/ /\ Admits(req)
             /\ server' = new
             /\ \E res \in {"ok", "failed"} :
                  /\ ops' = [ops EXCEPT ![s].ans = [res |-> res, snap |-> told]]
                  /\ hist' = [hist EXCEPT !.missed = @ /\ ~(/\ req = "status" /\ res = "ok"
                                                               /\ queue = <<>>)]
          \/ /\ ops' = [ops EXCEPT ![s].ans =
                           [res  |-> "failed",   \* an audit that fails was asked for
                            snap |-> IF req = "audit" THEN server ELSE NoAnswer.snap]]
             /\ UNCHANGED <<server, hist>>
    /\ UNCHANGED <<cached, queue, panel, pending, quiet, audit, left>>

\* The scheduler the stop and pause handlers put on the screen by themselves.
StoppedLocally ==
    IF panel.sched.state = "unloaded"
    THEN [state |-> "stopped", interval |-> DefaultInterval, ver |-> 0]
    ELSE [panel.sched EXCEPT !.state = "stopped"]

\* A failed request shows nothing, but a resumed match keeps the scheduler that
\* was on the screen when its scheduler cannot be started.
AfterFailureOptimistic(op, req) ==             \* mutant: a failed stop shows a stopped scheduler
    IF req \in {"matchPause", "matchStop"} THEN [panel EXCEPT !.sched = StoppedLocally]
    ELSE panel
AfterFailure(op, req) ==
    IF op.kind = "resume" /\ req = "schedStart"
    THEN [panel EXCEPT !.match = op.got, !.sched = op.base] ELSE panel

\* What an answer makes of the page's status.
AfterSuccess(op, req, snap) ==
    CASE req \in {"matchStart", "window"} -> [panel EXCEPT !.match = snap.match]
      [] req \in {"matchPause", "matchStop"} ->
           [panel EXCEPT !.match = snap.match, !.sched = StoppedLocally]
      [] req = "schedStart" /\ op.kind \in {"start", "resume"} ->
           [panel EXCEPT !.match = op.got, !.sched = snap.sched]
      [] req \in {"schedStop", "interval"} \/ (req = "schedStart" /\ op.kind = "schedStart") ->
           [panel EXCEPT !.sched = snap.sched]
      [] req = "status" -> snap
      [] req = "advance" ->
           [match |-> NotLoaded, sched |-> NoScheduler, tick |-> snap.tick]
      [] OTHER -> panel

\* The answers' versions, for the properties.
AckedBy(req, snap) ==
    [match |-> IF req \in {"matchStart", "matchPause", "matchStop", "window", "status"}
               THEN snap.match.ver ELSE hist.acked.match,
     sched |-> IF req \in {"schedStart", "schedStop", "interval", "status"}
               THEN snap.sched.ver ELSE hist.acked.sched]

\* finally: the suppression starts over and the controls come back.
FinishLoudly(s) ==                             \* mutant: the suppression ends with the action
    /\ ops' = [ops EXCEPT ![s] = IdleOp]
    /\ pending' = "none"
    /\ quiet' = Loud
FinishOnSuccess(s) ==                          \* mutant: a failed action keeps the controls disabled
    /\ ops' = [ops EXCEPT ![s] = IdleOp]
    /\ pending' = IF ops[s].ans.res = "ok" THEN "none" ELSE pending
    /\ quiet' = IF Suppresses(ops[s].kind) THEN Suppress ELSE quiet
Finish(s) ==
    /\ ops' = [ops EXCEPT ![s] = IdleOp]
    /\ pending' = "none"
    /\ quiet' = IF Suppresses(ops[s].kind) THEN Suppress ELSE quiet

Answer(s) ==
    /\ ops[s].kind # "none"
    /\ ops[s].ans.res # "none"
    /\ LET op   == ops[s]
           req  == Request(s)
           ok   == op.ans.res = "ok"
           goOn == op.step < Len(Script(op.kind)) /\ (ok \/ req \in Tolerated(op.kind))
       IN /\ panel' = IF ok THEN AfterSuccess(op, req, op.ans.snap)
                       ELSE AfterFailure(op, req)
          /\ audit' = CASE ok /\ req = "status" -> AuditAfter(op.ans.snap.tick)
                        [] req = "audit" /\ op.ans.snap.tick.id > audit.asked ->
                             [audit EXCEPT !.asked = op.ans.snap.tick.id]
                        [] OTHER -> audit
          /\ IF goOn
             THEN /\ ops' = [ops EXCEPT ![s].step = @ + 1, ![s].ans = NoAnswer,
                             ![s].got = IF op.step = 1 THEN op.ans.snap.match ELSE @]
                  /\ UNCHANGED <<pending, quiet>>
             ELSE Finish(s)
          /\ hist' = [hist EXCEPT !.missed = @ \/ (ok /\ req = "advance"),
                                  !.acked = IF ok /\ Suppresses(op.kind)
                                            THEN AckedBy(req, op.ans.snap) ELSE @]
    /\ UNCHANGED <<server, cached, queue, left>>

-----------------------------------------------------------------------------
(* game-core by itself, the gateway and the stream.                        *)

\* A scheduled tick starts or ends, the monitor opens or closes the match.
ServerMoves ==
    /\ left.events > 0
    /\ \/ /\ server.sched.state = "running" /\ server.match.state = "running"
          /\ server.tick.done
          /\ server' = [server EXCEPT !.tick = [id |-> @.id + 1, done |-> FALSE]]
       \/ /\ ~server.tick.done
          /\ server' = [server EXCEPT !.tick.done = TRUE]
       \/ /\ server.match.window # ""
          /\ \/ /\ server.match.state = "not_started"
                /\ server' = [server EXCEPT !.match = MatchAs("running"),
                                            !.sched = SchedAs("running")]
             \/ /\ server.match.state = "running"
                /\ server' = [server EXCEPT !.match = MatchAs("finished"),
                                            !.sched = SchedAs("stopped")]
    /\ left' = [left EXCEPT !.events = @ - 1]
    /\ UNCHANGED <<cached, queue, panel, pending, quiet, ops, audit, hist>>

\* publishIfChanged: a frame that finds the channel full is given up.
GatewayPolls ==
    /\ server # cached
    /\ cached' = server
    /\ IF Len(queue) < QueueSize
       THEN queue' = Append(queue, server) /\ hist' = hist
       ELSE queue' = queue /\ hist' = [hist EXCEPT !.missed = TRUE]
    /\ UNCHANGED <<server, panel, pending, quiet, ops, audit, left>>

FramesPass == ~IsGameAction(pending) /\ quiet = Loud

\* gameStatusSource.onmessage
FrameArrives ==
    /\ queue # <<>>
    /\ queue' = Tail(queue)
    /\ quiet' = IF quiet > 0 THEN quiet - 1 ELSE quiet
    /\ IF FramesPass
       THEN /\ panel' = Head(queue)
            /\ audit' = AuditAfter(Head(queue).tick)
            /\ hist' = hist
       ELSE /\ hist' = [hist EXCEPT !.missed = TRUE]
            /\ UNCHANGED <<panel, audit>>
    /\ UNCHANGED <<server, cached, pending, ops, left>>

\* The event source connects again: the gateway sends its snapshot first.
StreamReconnects ==
    /\ left.events > 0
    /\ queue' = <<cached>>
    /\ quiet' = IF quiet = Loud THEN Loud ELSE 0
    /\ left' = [left EXCEPT !.events = @ - 1]
    /\ hist' = [hist EXCEPT !.disturbed = TRUE]
    /\ UNCHANGED <<server, cached, panel, pending, ops, audit>>

QuietEnds ==
    /\ quiet = 0
    /\ quiet' = Loud
    /\ UNCHANGED <<server, cached, queue, panel, pending, ops, audit, left, hist>>

-----------------------------------------------------------------------------
\* The page is loaded with the status game-core reports, before the match or in
\* one of its ticks, with a window configured, and opens its stream.
Init ==
    /\ \E started \in BOOLEAN :
         server = [match |-> [state |-> IF started THEN "running" ELSE "not_started",
                              window |-> "window", ver |-> 1],
                   sched |-> [state |-> IF started THEN "running" ELSE "stopped",
                              interval |-> DefaultInterval, ver |-> 1],
                   tick  |-> [id |-> IF started THEN 1 ELSE 0, done |-> ~started]]
    /\ cached = server
    /\ queue = <<cached>>
    /\ panel = server
    /\ pending = "none"
    /\ quiet = Loud
    /\ ops = [s \in Slots |-> IdleOp]
    /\ audit = [last |-> 0, asked |-> 0]
    /\ left = [events |-> MaxEvents, actions |-> MaxActions]
    /\ hist = [missed |-> FALSE, disturbed |-> FALSE, acked |-> [match |-> 1, sched |-> 1]]

Next ==
    \/ \E s \in Slots : Click(s) \/ PressEnter(s) \/ Serve(s) \/ Answer(s)
    \/ ServerMoves
    \/ GatewayPolls
    \/ FrameArrives
    \/ StreamReconnects
    \/ QuietEnds

\* Requests are answered or fail, the gateway polls, frames and timers arrive;
\* the organizer, game-core's own changes and reconnects owe nothing.
Fairness ==
    /\ \A s \in Slots : WF_vars(Serve(s)) /\ WF_vars(Answer(s))
    /\ WF_vars(GatewayPolls)
    /\ WF_vars(FrameArrives)
    /\ WF_vars(QuietEnds)

Spec == Init /\ [][Next]_vars /\ Fairness

-----------------------------------------------------------------------------
(* Properties.                                                             *)

\* The variables hold values of their kinds; the suppression never outlasts
\* more frames than are under way (useState and useRef of the hook).
PanelTypeOK ==
    /\ server \in Statuses /\ cached \in Statuses /\ panel \in Statuses
    /\ queue \in Seq(Statuses) /\ Len(queue) <= QueueSize
    /\ pending \in Kinds \union {"none"}
    /\ quiet \in Int /\ quiet >= Loud /\ quiet <= Len(queue)
    /\ \A s \in Slots : /\ ops[s].kind \in Kinds \union {"none"}
                        /\ ops[s].kind # "none" => ops[s].step \in 1..Len(Script(ops[s].kind))
    /\ audit \in [last : Nat, asked : Nat]

\* The organizer never sees the effect of an own, acknowledged action undone by
\* an older frame: what is shown is at least as new as the last answer, as long
\* as actions do not overlap and the stream stays up.
OwnActionShown ==
    ~hist.disturbed =>
        /\ panel.match.state # "unloaded" => panel.match.ver >= hist.acked.match
        /\ panel.sched.state \notin {"unloaded"} =>
              \/ panel.sched.ver >= hist.acked.sched
              \/ panel.sched.ver = 0

Shown(status) ==
    [match |-> [state |-> status.match.state, window |-> status.match.window],
     sched |-> [state |-> status.sched.state, interval |-> status.sched.interval],
     tick |-> status.tick]

\* A page at rest that differs from game-core lost a frame: nothing but a
\* dropped frame, or an advance's answer, which has no match and no
\* scheduler, leaves the page behind.
OnlyLostFramesMakeItStale ==
    (/\ InFlight = {} /\ queue = <<>> /\ cached = server
     /\ ~hist.missed /\ ~hist.disturbed)
    => Shown(panel) = Shown(server)

\* Every completed tick the page shows after its first one has had its scores
\* audited, whichever way it arrived (maybeAuditCompletedTick, advanceGameTick).
ShownTickIsAudited ==
    (InFlight = {} /\ panel.tick.done /\ panel.tick.id > 0)
    => panel.tick.id <= audit.asked

\* Whatever fails, the controls come back.
ControlsReturn == pending # "none" ~> pending = "none"
=============================================================================
