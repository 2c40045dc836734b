# ADTickPlatform in TLA+

ADTickPlatform runs attack-defense contests. Organizers start a match, a
scheduler advances it in ticks, in each tick a checker plants a fresh flag in
every team's service, and teams score by submitting each other's flags before
the tick is over. This directory models the part of the platform that decides
those things (game-core) and the web client through which organizers and
participants see and drive them, checks both with TLC and proves the main
invariants with TLAPS.
Paths below are relative to the repository (`src/` here); `game-core` stands for
`services/game-core`.

## 1. Inventory

| Component | State | Operations | Talks to |
|---|---|---|---|
| match lifecycle (`game-core/server.go`, `store.go`) | row of `game_match_state`: state, started_at, ended_at, window | start, pause, resume, stop, schedule; `applyMatchWindow` derives the effective state from row and clock | tick engine (automatic tick), scheduler, access |
| window monitor (`game-core/match_monitor.go`) | access policy last applied | poll each second: reconcile the stored state, the access policy, the scheduler | match, controller-service, scheduler |
| tick engine (`game-core/server.go` `advanceTick`) | `game_ticks`, `checker_runs`, `issued_flags`, contexts, worker pool | start next tick, list targets, run workers, complete tick, reap at startup | checker-runner, store, scoring |
| flag codec (`game-core/flags.go`) | secret, current prefix (memory only) | issue, parse, reload prefix | tick engine, submission |
| flag submission (`submitFlags`, `AcceptFlagSubmission`) | `submitted_flags`, `attack_events` | judge a batch, accept one flag | match, ticks, challenges, scoring |
| scheduler (`game-core/scheduler.go`) | running flag, interval, cancel function, persisted state | start, stop, update, close, restore | tick engine |
| warmup (`runWarmup`) | in-flight flag, last result | run before a start, with retries | checker-runner |
| scoring (`scheduleScoreboardRecompute`, scoring-worker, `buildScoreboard`) | debounce timer, in-flight and pending flags, snapshot | debounce, recompute, audit, retry | submission, ticks |
| service state (`refresh*ServiceState`) | `team_service_states` | summarise the phases of a tick | tick engine |
| api-gateway (`internal/services/apigateway`) | challenges, teams, instances, sessions, settings | maintenance, unlock, reset, settings, accounts | database, game-core, controller-service |
| submission-service, checker-runner, controller-service, wireguard-gateway, realtime-gateway | rate windows, container runs, network policy, peers, fan-out | forward, run, reconcile, publish | game-core, hosts, browsers |
| organizer game page (`apps/web` `use-organizer-dashboard.ts`, game cards) | status shown, pending action, suppression of frames, audited tick | start, pause, resume, stop, scheduler, window, interval, advance, recompute, audit | api-gateway, realtime-gateway |
| live feeds (both hooks, `lib/dashboard-utils.ts`) | filter form, page, highlights | filter, page, refresh, merge a frame | api-gateway, realtime-gateway |
| registries (`use-organizer-dashboard.ts`, entity forms, bulk import) | rows, jobs, recorded validations, form and delete dialog | create, update, delete, activate, maintain, validate, deploy, import | api-gateway |
| runtime console (health card, trusted state panel, WireGuard dialogs, evidence route) | five reports, peers' rows, dialog, evidence | refresh, poll, reconcile, tear down, inspect, rotate, revoke, download | api-gateway, controller-service |
| admin cards (freeze, platform settings, announcements) | what was loaded and typed | load, save, reload, publish, remove | api-gateway, game-core |
| services page (`use-control-center.ts`, its dialogs) | rows, dialog, issued credential | unlock, SSH, restart, reset, reload | api-gateway |
| player session (session forms and routes) | cookie, what each tab shows | sign in, join, save account, transfer, sign out | api-gateway |
| flag entry (`flag-submit-panel.tsx`) | box, verdicts | submit | api-gateway |
| rest of the web client, deployment scripts | none of the game | | |

What makes the system hard is in game-core. Several goroutines and HTTP
handlers share one database: the window monitor, the scheduler, organizer
requests, the automatic tick of a match start, up to N checker workers and any
number of submissions. Postgres operations are single statements unless they
take a lock, so decisions are made from reads that may be stale; statements fail
under cancelled or expired contexts; the process may die between any two of
them; and a second service (api-gateway) writes the same challenge rows. The
list of hazards in `PROJECT.json` names each such place by line.

The web client is hard for another reason: it keeps copies. A handler reads
state before an `await` and writes it after; a status stream, a periodic poll, a
silent refresh and the answer to a click all write the same copy; the gateway
publishes a snapshot only when it changed, so a frame that is dropped is never
repeated; and some controls are not disabled while another action is pending, so
two handlers overlap and the first `finally` ends the other's pending state.

What makes each component correct:

* match: a match that runs was started; a finished match stays finished; the
  end of the window is eventually stored;
* ticks: one at a time, with a final outcome, each eventually finalized; a
  restart leaves none running;
* flags: one per service and tick, only while the tick runs, and none missing
  from a completed tick;
* submission: a capture is booked once, for an issued flag of another team, in
  the flag's own tick, while the match runs and the challenge is in play; the
  answer tells the team what is on record; a valid flag is not refused;
* scheduler: one loop at most, the one that can be cancelled, and it follows the
  match;
* scoring: the stored board gets to every answered capture, and no wakeup of the
  debounced recompute is lost;
* warmup: no two in flight, and the result shown is the last one's;
* service state: a service is up exactly when its phases say so;
* game page: an old frame does not undo an own action, only a lost frame leaves
  the page behind, and the controls come back;
* feeds: the page is the one the form describes, sound, and current when live;
* registries and console: what is shown is what store and host hold, what is
  deleted stays deleted, what is deployed was validated;
* cards: what is shown is what is stored, and a prefix reported as reloaded is the one
  flags are issued with;
* services page: credentials and actions belong to their dialog, an unlock was
  earned by a current proof, and the rows catch up with the services;
* session: one captain for a team, and an own change does not sign the player out;
* flag entry: no flag disappears without a verdict.

## 2. Modules

```
MatchState  --implements-->  MatchLifecycle   (memory store, or one writer at a time)
MatchState  <--- TickEngine <--- FlagSubmission  --implements-->  FlagGame
    ^                ^   ^             ^    ^
MatchStateProofs <---+   |    FlagSubmissionProofs   (each proof module extends
            TickEngineProofs <-----+    |             the one before it)
                    MCTickEngine     MCFlagSubmission

MatchState <--- Scheduler <---+
                ScoreBoard <--- GameRuntime <--- GameRuntimeProofs
```

```
OrganizerGame  <---  OrganizerGameProofs      (a specification of its own)
RuntimeConsole, AdminCards, Registry  --->  OrganizerPages  <---  OrganizerPagesProofs
ServiceDesk, PlayerSession, FlagPanel, PagedFeeds  --->  ParticipantPages
ParticipantPages  <---  ServiceDeskProofs  (the services page)
ParticipantPages  <---  ParticipantPagesProofs  (session, flag box, feed)
```

**MatchState.** `match` is the row, `window` where the clock stands in the
configured window (before its start, inside, past its end), `req` what each
organizer request and the monitor is doing, `autoTicks` the automatic ticks that
match starts have launched. `HandlerCheck` is a handler's read of the effective
state with its early returns (for the monitor, `reconcileMatchWindowState`);
`StoreReads`, `StoreWrites` and `StoreReturns` are the store operation. With
`Backend = "postgres"` the store reads the row and writes it with an
unconditional upsert in a second statement; with `"memory"` both happen under
one mutex. `RequestFails` covers a failed warmup, a database error and a client
that went away. `UpdateMatchSchedule` moves the window and `ClockPasses` is
time. started_at is kept as the number of times it was written. **MatchLifecycle** is
what the organizer is promised of the row: started (again after a pause), paused only
while it runs, resumed only from a pause, finished with an end and for good.

**TickEngine** extends MatchState. `ticks` is `game_ticks`, `adv` the calls of
`advanceTick` with their context and their workers, `puts` and `issued` the rows
of successful put runs and of `issued_flags`, `chal` the maintenance columns of
a challenge together with what a resume in progress has read, `prefix` the codec
prefix. A call goes start -> list -> run -> complete; each action is one
statement or one checker answer. The context of a call is live, expired (tick
timeout, seen by the workers only) or cancelled (scheduler stopped, client
gone). A Postgres statement under a dead context fails, the memory store ignores
contexts. A target's phases are abstracted to the put, which decides about the
flag, and the rest of the batch. `Crash` is a restart of game-core, including
`ReapRunningTicks` and the loss of the loaded prefix. api-gateway and game-core
share only the database, so maintenance exists with Postgres only.

**FlagSubmission** extends TickEngine with the `submitFlags` calls (`sub`), the
tables `submitted_flags` (`accepted`) and `attack_events` (`events`). A request
reads the match, then the current tick, and judges its flags one by one: the
flag's lookup and the read of its maintenance are two statements. An error of the
lookup is answered with "invalid" and the batch goes on (`SubLookupErrs`); an error
of any other statement ends the request (`SubLost`). `AcceptFlagSubmission` holds the lock of the tick table and
of the match row (the mutex in the memory store), so it is one step; its read of
the challenge is not locked, and maintenance that begins between that read and
the commit is ordered after the submission. A flag is its owner, challenge, tick
and prefix; a flag with a bad signature is one that was never issued.

**FlagGame** is the promise: ticks begin and end one after the other, flags are
published in their tick, one for each service, and captured at most once by each
other team in that tick while the match is open. The refinement maps its `tick`
and `live` to the last row of `game_ticks`, `open` to the stored state being
running, `flags` to `issued_flags` and `captures` to `submitted_flags`.

**Scheduler** extends MatchState with `intervalGameScheduler` and the rest of the
monitor's poll. `sched` is the status and whether `cancel` is set, `live` the loops
whose context is not cancelled, `saved` what the persisted row may hold (the save's
error is ignored, so a set), `poll` and `access` the monitor, `follow` the handlers
that have paused or stopped the match and not yet the scheduler. Operations run
under the scheduler's mutex and are one step. `Restart` is
`newIntervalGameScheduler`: a saved "running" whose start is refused or fails keeps
its state without a loop, and `broken` remembers it. Left out: the interval, events
and `Close`.

**ScoreBoard** is the stored board of the Postgres store. A board is how many
captures each of its two sums over `submitted_flags` has seen; they are separate
statements, and the rows are stored in one transaction. `scoring` holds the pending
and in-flight flags, whether `scoringTimer` can still be stopped (`timer`), and the
callbacks that will run in any case (`due`): fired already, or set and then
forgotten, because the callback clears `scoringTimer` without stopping it. `Direct`
are the recomputes of `advanceTick` and of the organizer, which take no part in the
debounce. `overtaken` marks a recompute beside which another stored its board. The
memory store recomputes inside each accept and needs none of this.

**GameRuntime** puts both beside the match row. The scoreboard and the match read
nothing of each other, and the scheduler is checked with one request while the match
row alone is checked with two: a behaviour is one of the three.

`MCTickEngine` and `MCFlagSubmission` add the symmetry sets for TLC.

### The web client

Each module has the same shape. The truth (`server`, `host`, `store`, `service`,
`player`, ...) is what the services hold, changed by requests and by moves of
their own. The copy (`panel`, `table`, `rows`, `page`, ...) is React state. A
handler is one action up to each `await`: it begins (a click, with the guard of
its button), a request is served (or refused, or served with the answer lost),
and an answer arrives and does everything the code does up to the next request
or through `finally`. A variable `hist` (or `memo`) remembers what the properties
need and guards nothing.

**OrganizerGame.** `Script` is the sequence of requests of each handler,
`Tolerated` the ones whose failure it swallows, `AfterSuccess` and `AfterFailure`
what an answer does to `gameState`. `Begin` and `Finish` are what every handler
does first and in `finally`. The silent reads of other cards' data are one
request ("feeds") that keeps the action pending. The realtime gateway is
`GatewayPolls` (publish when changed, give a frame up when the channel is full)
and `StreamReconnects`. Wall-clock suppression is abstracted: a frame that was
under way when the second began arrives before the second ends; frames sent
later may or may not.

**PagedFeeds** is one of the three feeds of an organizer, or a participant's
attacks. Rows are numbers in the order they are recorded; a filter selects some
of them. It has the filter form, the requests, the silent refreshes that game
actions make, `Merge` and the highlights.

**Registry** is one registry page at a time (teams, players, challenges, or the
deployment jobs) with its forms and dialogs, two overlapping actions, and the
store's answers (`Store...` operators). A version number on a row stands for its
contents; the inactive rows are a set beside them, in the store and on the page.
`InactiveTold` is what an answer says of the flag, which is not always what the lists
say: `CreateAdminPlayer` and the updates of players and teams return a record whose
`active` was never filled in (`FlagUntold`). `StoreCreateTaken` draws the id of a new
challenge and then refuses its octet, as both stores do.

**RuntimeConsole** has the five reports, read by one action, by several in
parallel or by the poll; reconcile and teardown; the WireGuard dialog; the evidence
report assembled section by section; and the trusted state panel.
`Severity` and `TrustedOverall` are the verdicts computed from the reports.

**AdminCards** is one card: load on mount, typed draft, actions that each are a script
of requests and are known by the number of writes that were left when they began.
`saveState` is the busy flag and the card's last note; on the settings card a read of
the mount that fails overwrites it (`LoadFails`), so the buttons come back beside a
save or reload and a second action starts. `core` is the prefix game-core holds; the
handler of a reload reads the stored prefix, has game-core take it and records it as
active in three steps, and may fail at each.

**ServiceDesk** is the services page with its three dialogs, the one action in
flight (POST, then a read of the services), the page reloads, and the
api-gateway's side: admission, the check of a proof against its epoch, the unlock
after it, factory reset in two steps, maintenance, rotation, redeployment.

**PlayerSession** is one browser with a cookie and two tabs, the accounts of a
team, and other people's changes. A token carries role, team and session version
and is valid while they are the account's. **FlagPanel** is the flag box.

`OrganizerPages` and `ParticipantPages` put parts side by side for TLC: a
behaviour follows one of them, the others stay at rest, so the state space is the
sum of the parts and not their product. Nothing is lost: the parts share no
variable, and what one part does to another (a session that ends while a request
is under way) is among the failures the other part's requests meet.

## 3. Runs

| Run | Expect | Shows |
|---|---|---|
| `match_postgres` | pass | game-core on Postgres, with failures and restarts. Match row, two requests and the monitor: no unstarted match gets going (`LiveMatchWasStarted`), the end of the window is stored (`WindowEndIsStored`). Scheduler, one organizer and the monitor: `OneLoop`, and scheduler and access catch up with the match (`SchedulerFollowsMatch`). Stored board, a debounced and a direct recompute: `NoRecomputeIsLost`, `BoardCatchesUp` |
| `match_reopened` | violation | `FinishedIsFinal`: a pause, resume or start that read the row before a stop reopens a finished match |
| `tick_safety` | pass | scheduler and automatic tick, two targets, prefix reloads, deadlines, cancellations, failing statements, restarts: `OneTickAtATime`, `TickOutcomeFinal`, `OneFlagPerTargetTick`, `FlagsOnlyInTheirTick`, `CompletedTickIssuedAll` |
| `tick_ends` | pass | the memory store: `TickFinalized` under two match requests, cancellations and deadlines; the requests move the row only along the lifecycle (`ImplementsLifecycle`) |
| `tick_stuck` | violation | `TickFinalized` with Postgres: a cancelled caller cannot complete its tick |
| `tick_pause` | violation | `PauseFreezesTicks`: a tick starts after a pause |
| `tick_timeout` | violation | `TimedOutTickFails`: a tick that timed out while no worker was at a target is completed |
| `submit_race` | pass | two concurrent batches beside ticks, pause, resume, stop: `OneEventPerCapture`, `CapturedInItsTick`, `AnswersMatchRecord`, `ValidFlagNotRefused` |
| `submit_recovery` | pass | Postgres, restarts, lost answers, repeated submissions, maintenance: `ImplementsFlagGame`, `NoCaptureInMaintenance` |
| `organizer_game` | pass | two actions that may overlap, failing and lost answers, a full channel, a reconnect, game-core's own moves: `OwnActionShown`, `OnlyLostFramesMakeItStale`, `ShownTickIsAudited`, and `ControlsReturn` under fairness |
| `organizer_pages` | pass | console, cards and registries, with overlapping actions: `ReportsAreTrue`, `PeersAreShown`, `CardIsTrue`, `DeletedStaysDeleted`, `RegistryIsTrue`, `ValidationsAreCurrent` |
| `participant_pages` | pass | services page, session, flag box and a feed: `DialogsFit`, `UnlocksAreEarned`, `AccountIsSound` (one captain, a current token), `NoFlagVanishes`, `PageIsSound` (rows and highlights), `PageIsCurrent` (view and age of a page), and `RowsCatchUp` under fairness |

Each violation is a disagreement between the code and a sentence of the
repository's documentation or comments; `PROJECT.json` quotes it under
"findings". Each property of a passing run has a mutant: an alternative of one
definition, with a slip such a code change could make, under which the property
fails.

Several properties of the web client have a premise, and the premise is part of
what they say: it names the only circumstances in which the code lets the copy
and the truth part, and each of them is reachable in the run. For the game page
they are a frame lost to suppression or a full channel, the answer of an advance
(which has no match and no scheduler), a reconnect and an interval update by Enter
while another action runs; for a feed, edits of the form, requests that overlap, and
frames refused while a filter was set; for the registries, lost answers,
imports beside the page, requests about the same row that cross, for the active flag
an answer that does not tell it, and for the announced octet a deletion or a creation
that was refused after its id was drawn; for the cards, a read or answer that failed, a
read of the mount that a write overtook, and actions that had another beside them
after a failed read of the mount; for the SSH
dialog, closing it before its answer arrives, after which the next dialog shows the
earlier service's credential; for unlocks, a rotation between the check of the proof
and the unlock; for captains, an organizer's edit of a role.

Two premises of `organizer_pages` are visible on the screen. A player just created, or
edited on the memory store, and a team just edited can be shown as "Inactive" with a
"Reactivate" button though nobody deactivated it (`store_memory.go:973`, `:1989`,
`:2189`, `store_postgres.go:1238`), until it is next (de)activated or its rows
are read again; the property still demands that at rest an inactive row is shown inactive.
And the settings card can have two actions under way once its read on mount has failed
(`platform-settings-card.tsx:86`), never three; what such a pair reports of the prefix
may be out of date.

Two premises of `match_postgres` are facts about the code worth knowing. A restore
that finds the match not running, or cannot read it, leaves a scheduler that says it
runs and has no loop. Once the match runs, the monitor does not start it, since it
says it runs: the organizer has to start, stop or update it. And a recompute that another one overtook
stores an older board last; with nothing pending, the stored rows stay behind until
the next recompute (a capture, a tick, the organizer, a restart).

Four more disagreements met while modelling have no run of their own.
`docs/admin-api.md:371` says that resuming a match "restarts the tick scheduler
automatically"; `handleResumeMatch` does not touch the scheduler, and only the
monitor starts it again, where a match window is configured.
`ResumeJoinsNextTick` of TickEngine states what `docs/ops-runbook.md:18` says of
play_from_tick, and a tick that starts between the two statements of a resume
refutes it. `docs/game-rules.md:184` says that a
flag is valid through the end of its tick; after a prefix reload the flags planted
earlier in the tick are refused, so `ValidFlagNotRefused` speaks of flags under the
present prefix. And with Postgres a lookup that errs refuses a valid flag as
"invalid" (`server.go:1411`), where every other failing statement fails the whole
request: the property excepts that one step (`Backend = "postgres"` and a request at
its lookup), so `submit_race`, which runs the memory store, checks it without
exception, and the theorem says that no other step refuses such a flag.

### Bounds

| Bound | Value | Why it is enough |
|---|---|---|
| `Requests` | at most 2, plus the monitor | every known race of the match row is between two of them; each request repeats for ever |
| `MaxStarts` | 1 or 2 | a second start needs a pause in between and adds no new state of the row |
| `Handlers` | 1 | the handler beside which scheduler and monitor are checked; the monitor is the second actor |
| `Direct`, `MaxCaptures` | 1 and 2 | one recompute that can be overtaken or overtake; a capture before and one during a recompute. Failures, retries and recomputes are unbounded |
| `MaxTick` | 2 | the current and one past tick: expiry, reaping and late workers need no third |
| `Advancers` | 1 or 2 | one cancellable (scheduler or organizer) and one detached (automatic tick); the passing submission runs tick through the automatic ticks of two match starts, because who calls `advanceTick` makes no difference to a submission |
| `Owners` x `Challenges` | at most 2 targets | two workers, one of which fails while the other is inside its statements |
| `Prefixes` | at most 2 | before and after a reload |
| `Submitters`, `MaxBatch` | 2 and 2 | two requests with the same flag; a flag repeated in a batch |
| `MaxRequests` (FlagSubmission) | 1 | counts answered requests; lost ones are sent again without limit |
| `MaxInFlight`, `MaxActions` (OrganizerGame) | 2 and 2 | an overlap needs two handlers; a third would repeat one of them |
| `QueueSize`, `MaxEvents` (OrganizerGame) | 1 and 1 | the channel is full as soon as a frame waits; one move of game-core or one reconnect at any point |
| `ChangeSets`, `MaxChanges`, `MaxActions` (RuntimeConsole) | one report that changes, 1, 2 | a stale report needs one change and two reads of it |
| `MaxWrites`, `MaxEdits` | 3, 2 (organizer) or 1 (feed) | a list, a deletion and a deployment that cross; a form edited during a request |
| `Services`, `MaxEvents`, `MaxRequests` (ServiceDesk) | 2, 1, 2 | two dialogs after one another; one move of an organizer at any point; reloads are unbounded |
| `Players`, `Tabs`, `MaxMoves`, `MaxCalls` | 2, 2, 1, 2 | two forms in flight and a change by another |
| `Flags`, `MaxBatches` | 2, 2 | an accepted and a refused flag in a batch that is sent again |
| `StreamLimit`, `Limits`, `MaxRows`, `MaxFetches` | 2, {2, 3}, 3, 2 | a page as large as a frame and a larger one; more rows than fit |

Deadlock is checked, except where an unscheduled match that is finished really is
at rest (`tick_ends`, `submit_race`, `submit_recovery`), and for the pages of the web
client, which are at rest when nobody clicks.
Symmetry is used only in runs without liveness, over sets that no definition
chooses from.

### Fairness

* The monitor polls every second for as long as the process lives, so its step is
  weakly fair. Its two statements are strongly fair: the database may fail and
  the process may restart again and again, but not each time the monitor is about
  to get through (`MatchFairness`). `RuntimeFairness` says so of every statement of
  the poll, the access reconcile included, and of those of the debounced recompute,
  which is retried for ever; timers fire and goroutines run (weak fairness). Nothing
  is assumed of organizers, of the clock, of direct recomputes or of the loop.
* A call of `advanceTick` keeps going (`TickFairness`): checker calls have a
  timeout, workers return, statements answer or fail. Nothing is assumed of
  organizers, cancellations, deadlines or restarts.
* FlagSubmission has no fairness; only safety is stated for it.
* OrganizerGame: a request that was sent is answered or fails, the gateway polls,
  frames are delivered, the suppression ends. A browser's `fetch` settles, the
  gateway polls on a ticker. Nothing is assumed of the organizer, of game-core's
  own moves or of reconnects.
* ServiceDesk (`DeskFairness`): the same for its requests, and the page is
  reloaded again and again (`setInterval` of 20 seconds in `useControlCenter`).
  Reads that miss a list are bounded by `MaxEvents`; if every reload failed the
  rows could not catch up.

## 4. Proofs

The theorems hold for every value of the constants: every number of teams,
challenges, ticks, prefixes, requests, callers and submitters, for both stores
unless stated, and for the web client every number of services, players, tabs,
flags, rows, actions, frames and moves of the servers. Fixed in the text of the
modules, and so in the theorems, are the two slots for overlapping requests of a
feed, the console and a registry, the two rows a registry is opened with, the two
players whose peers the console manages and the
values on display (reports, severities, two windows or prefixes of a card). The assumptions are those of the
modules: `MatchAssumption`, `SchedulerAssumption`, `BoardAssumption`,
`TickAssumption`, `SubmissionAssumption`, `DeskAssumption`, and one for each of the
other web modules. They are the types of the constants, and that the monitor is not
a request and the debounced recompute not a direct one, deployed teams are teams,
maintenance needs Postgres, there is a team and a challenge to name, the player of
the browser is one of the players, and a page is at least as large as a frame of its
stream (`FeedAssumption`: the gateway streams 12 or 18 rows, and the pages ask for at
least as many).

The game core:

* `MatchTypeCorrect`, `LiveMatchStarted`. The invariant has to know about
  requests between their read and their write: `LateWritesSawStart` says that a
  pause or a resume about to write has seen a match that had been started, and
  started_at never goes back to NULL, so even a stale write is harmless.
* `FinishedStaysFinished`: memory store only, where test and write are one step.
  `match_reopened` shows that the assumption is needed.
* `LifecycleImplemented`: `ImplementsLifecycle`, for the memory store and for Postgres
  as long as no two operations are between their read and their write (`OneWriter`).
  By `ReadsHold` what an operation has read still holds when it writes, by
  `EndedIsFinished` a start finds no end to erase. So the reopened match of
  `match_reopened`, and every other departure from the lifecycle, takes two requests
  between their statements; the monitor, window changes, failures and restarts alone
  do not cause one.
* `SchedulerHasOneLoop`: `OneLoop` is inductive with the types of the scheduler.
* `RecomputesAreKept`: `NoRecomputeIsLost` needs `BoardInv`. A debounced recompute
  that nobody asked to run again has read every capture owed (`SeesOwed`); once it
  has stored its board (`Settled`), each direct one still at work has read them too,
  or has been overtaken. So the board stored last is either complete or late.
* `OneTick`: `OneTickAtATime` is inductive with the type invariant. A call that
  owns a tick owns the last one, it is running, and no other call owns any, so
  `StartNextTick`'s test of the last row is enough.
* `OutcomeFinal` and `FlagsInTheirTick` follow from it and `WorkInRun` (a worker
  is inside a statement only while its call is in its run phase).
* `OneFlag`: `FlagInv` conjoins `FlagsOfPastTicks` (no flag is of a tick not yet
  begun), `NotYetIssued` (a target whose put is in flight has no flag in this
  tick) and the property itself.
* `CompletedTickIssued`: each put on record has a flag, or is still waiting in a
  worker of the running tick, or its tick will fail or has failed.
* Three theorems say what holds where a run or `ResumeJoinsNextTick` shows that the
  documented rule does not. `PauseDrainsCalls`: while the match is paused no call passes
  advanceTick's check, and each tick that still starts (`tick_pause`) uses up a call that
  had passed it before, so late ticks are at most as many as the calls under way.
  `ResumedByTheNextTick`: a resumed challenge may come back a tick early, never later
  than with the next tick; the invariant says so and that a resume under way has read no
  tick to come. `InterruptedTicksFail` (Postgres): a tick that is interrupted while a
  worker is at a target, or in which a statement failed, stays so until it is stored as
  failed, given up or reaped; the completed tick of `tick_timeout` had no worker at a
  target. Interruption persists because under a dead context every statement fails and
  leaves the call's error set.
* `EngineInside`: the composed system implements the tick engine, which carries
  all the above over. `SubTypeCorrect`, `JudgedFlags` (what a request has checked
  of its flag is still so when it accepts it: flags are never removed).
* `OneEvent`, `CapturedInTick`: the events and the accepted pairs are the same
  captures; a flag on record is of the current or an earlier tick, and the accept
  re-reads the tick, so the booked tick is the flag's.
* `Implements`: `AllSpec => ImplementsFlagGame`. Starting a tick maps to
  `TickBegins`; completing it, or a restart that reaps it, to `TickEnds`; issuing
  to `Publish` (by `NotYetIssued`), accepting to `Capture` (by `JudgedFlags` and
  `FlagsOfPastTicks`), a step of the match to `MatchMoves`, the rest to stuttering.
* `AnswersMatch` needs `AnswerInv`: a request has answered nothing before its loop,
  has read a tick that is not to come, and each verdict agrees with the record, from
  which nothing is removed.
* `ValidFlagsAreTaken` and `NoneInMaintenance` are action properties of the steps that
  judge a flag. For the first, `AnswerInv` bounds the tick a request has read by the
  current one, so a flag of the current tick is never a late one; the maintenance
  read and the accept look at the present state, and what the lookup of the memory
  store does not find is not on record. For the second, only
  the accept adds to the record, and it reads the challenge again.
* `LiveMatchInRuntime`, `RuntimeTypeCorrect`: the match row beside scheduler, monitor
  and recomputes. The steps of the others leave the row alone or are requests.

The participant's pages (`ServiceDeskProofs`, `ParticipantPagesProofs`):

* `DeskWellTyped`, `DialogsAlwaysFit`, `UnlocksAlwaysEarned` are theorems of
  `ParticipantPages`' specification, whose steps are steps of the services page or
  leave it alone (`DeskInside`); its fairness is not used.
  `DialogsFit` needs `DialogInv`: a credential, or a request for one, without an
  open SSH dialog is a late one, and a dialog that has triggered nothing has sent
  nothing. `UnlocksAreEarned` needs `UnlockInv`, which says of everything still on
  its way to the rows (a page load, an answer, the read after it) what the property
  says of the rows, and that a verified proof is of the current epoch or was
  overtaken by a rotation.
* `FlagsAreKept`: by `PanelInv` the box holds the flags of a batch that is away, and
  a batch that was judged has a verdict for each of them, accepted only for what is
  on record.
* `SessionTypeCorrect`, `AccountsAreSound`: `CaptainInv` adds that a captain, active
  or not, is in the team; `CookieInv` that what was read or issued for a request which
  no change of the account crossed is current, and that a cookie which is not waits
  for an answer under way.
* `PagesAreCurrent`: by `FollowInv` requests that did not overlap ask, one at a time,
  for what is in the form unless it was touched since; by `CurrentInv` the live page
  has what was published, or an answer that has it is to come, and an answer that has
  not will be seen to be older than the page.
* `PagesAreSound`: `RowsInv` adds to the property that no row is newer than the page
  unless an older snapshot overtook a newer one; `MarksInv` that frames arrive in order,
  that rows are marked only on a page of attacks which no later answer has replaced, and
  that nothing older than this page is still to come. The filter, the merge and the cut to
  the page size are described by row positions (`NthPosition`: the k-th position exists
  because every non-empty set of numbers has a least one; `SelectedRows`, `MergedRows`,
  `FirstRows`), so nothing is said by induction over a sequence. A merge in which no
  streamed row is new keeps all rows of the page, by counting (`IdsCount`).
* `ParticipantTypeCorrect` puts the types of the four parts together. `FilterInv`
  bounds the offsets that so many requests can have paged to.

The organizer's game page (`OrganizerGameProofs`):

* `PanelTypeCorrect`: `PanelTypes` adds to the types where an action may stand and
  that the frames being suppressed are among those under way.
* `ShownTicksAreAudited`: `PastInv` (nothing in the channel, in an answer or on the
  page is newer than game-core) and `AuditInv` (an audit was asked for a completed tick
  on the page, or the advance under way will still ask for it).
* `OwnActionsStayShown`: `OneAction` and `OwnInv`. As long as nothing disturbed the
  page, every frame that can still be shown, every answer that can still be taken
  over and the page itself carry versions at least as new as the acknowledged one.
* `OnlyLossMakesItStale`: `StaleInv` follows the gateway's cache. The last frame in
  the channel is the cached status, and a page that has taken all frames over shows
  it, or a status that was read will replace what it shows; by `NoWayBack` game-core
  never returns to an earlier status the gateway has cached.

The organizer's other pages (`OrganizerPagesProofs`):

* `CardsAreTrue`: an action that met no other is alone, its answer under way is what is
  stored and its reload has got as far as game-core (`AloneInv`); nothing is under way
  while its success is shown (`NoteInv`); and the buttons are enabled beside an action
  only on a settings card that lost its read of the mount, and then beside one
  (`IdleInv`), which is why there are never three. Elsewhere the busy flag admits one.
* `ConsoleReportsAreTrue`, `RowsAndDialogShowPeers`: every report on the page or
  under way is a copy of one the host gave (`CopyInv`), an action waits for the reads
  it began, one of each report (`AwaitInv`), the refresh that began last has put every
  report on the page or is about to, unless it is spoiled (`RefreshInv`), evidence is
  not older than its request (`EvidenceInv`), and undisturbed actions about peers come
  one after the other, none beside an open dialog (`PeerInv`).
* `DeletionsLast`, `RegistriesAreTrue`, `ValidationsFit` follow from `RegInv`, which
  accounts for every difference between the page and the store by an answer that is
  under way: a row of the store is on the page or its creation is being answered
  (`RowsComing`), one of the page is in the store or its deletion is (`RowsGoing`),
  and so on for versions, validations (`RowInv`), jobs (`JobInv`, `ListInv`) and the
  announced octet (`OctetInv`). `IdInv` (an id that is being created is unknown to
  every part of the page) and `ApartInv` (actions that did not cross are about
  different rows) carry it through the interleavings. `FlagInv` does the same for the
  active flag: a row whose flag on the page does not fit is being answered, and an
  answer on its way tells the store's flag or is of a kind that does not tell it.
* `OrganizerTypeCorrect` puts the types of the three parts together.

All theorems about the pages are about the specifications TLC checks
(`OrganizerPages!Spec`, `ParticipantPages!Spec`, `OrganizerGame!Spec`); their fairness
is not used.

Only model-checked: the liveness properties `WindowEndIsStored`,
`SchedulerFollowsMatch`, `BoardCatchesUp`, `TickFinalized`, `ControlsReturn` and
`RowsCatchUp`: fairness is outside the prover's reach. Every safety property of a passing
run is a theorem.

## 5. What is not modelled

* Warmup, service state, the scoring formula with its ranks and audit: see the plan.
  Their effects on what is modelled are inputs (a failed start request, a target
  that is not ready).
* Checker containers, firewall and WireGuard commands, HTTP, rendering: I/O around
  the decisions modelled here.
* Of the web client: the attack map and scoreboard table, documentation pages,
  appearance, readiness checklist, downloads and exports (they render what the
  modelled pages hold), changing a feed's page size and deep links to a later page,
  the text of drafts beyond what validation needs. `reconcileDeployments` of the
  organizer's hook is not wired to any control.
* The web client meets the api-gateway through its memory store; the Postgres
  variants of those operations and the rate limits are not modelled.
* The bytes of a flag: HMAC and base64 are trusted.
* Clock values: only the order of the window's boundaries matters here.

## 6. Plan

Done: MatchState, TickEngine, FlagSubmission, FlagGame; Scheduler, ScoreBoard,
GameRuntime; the web client (OrganizerGame, PagedFeeds, Registry, RuntimeConsole,
AdminCards, ServiceDesk, PlayerSession, FlagPanel); a theorem for every safety
property a passing run checks, and the refinements of FlagGame and MatchLifecycle.

Next, in this order:

1. `Warmup`: in-flight and last-result bookkeeping with two requests, timeout,
   retries and the success rate.
2. `ServiceState`: the checker batch's halting rule and the phase summary (up,
   down, recovering) against a reference definition over all phase outcomes.
3. `Scoring`: the formula and the ranks as operators against a reference definition.
4. `AccessPolicy`: match state -> network policy, controller reconcile and
   WireGuard peers with concurrent applications; the newest policy wins.
5. `RateLimit`: the submission rate window; the flag prefix across restarts of
   game-core.
6. Proofs: with each new module, those of its invariants. Of the present ones,
   action properties that strengthen the page invariants (what an answer may change of
   a row).
