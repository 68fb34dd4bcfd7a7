# Sentience: a TLA+ model of the platform

Specifications, model checking and machine-checked proofs for the Sentience IoT
platform (the monorepo under `src/`): the API routes whose statements interleave, the
real-time path from the device simulator over MQTT and the bridge to the browser, the
notification pipeline, and what a browser tab keeps while sessions, requests and
connections come and go. Paths below are relative to `src/` unless they name a module.

## 1. The system

| Part | State it keeps | Operations | Interacts with |
|---|---|---|---|
| Device-group routes, `apps/api/src/routes/device-groups.ts` | table `device_groups` (array `device_ids`, counter `device_count`, `archived_at`), `devices.tags` | create, update, add and remove a device, archive, restore, duplicate, bulk tags, delete | PostgreSQL, read by rollouts |
| Rollout routes, `apps/api/src/routes/rollouts.ts` | tables `rollouts`, `rollout_devices` | create, start, cancel, retry | groups, firmware, audit log, an executor that is not in the repository |
| Sites, estates, firmware, `apps/api/src/routes` | their tables, `estates.site_count` | create, guarded delete, deprecate, activate | foreign keys between them, rollouts and groups |
| Accounts, `apps/api/src/routes/auth.ts` | `password_reset_tokens`, `users.mfa_secret`, `users.mfa_enabled`; signed tokens, which nobody stores | forgot and reset password, MFA setup, verify, disable, login in one or two steps | mail, browser, users routes |
| Audit log, `apps/api/src/lib/audit.ts` | table `audit_logs` | append | every writing route |
| Realtime bridge, `apps/realtime/src` | registry of devices, simulator session, `previousStatuses`, `alertDedupTimestamps`: all in memory | MQTT message, system message, cleanup timer, shutdown | MQTT broker, Socket.IO clients |
| Device simulator, `packages/mock/src/device-simulator.ts` | the fleet, its timers, publications in flight | start, telemetry tick, event tick, shutdown | MQTT broker |
| Socket.IO server, `apps/realtime/src/socket-server.ts` | room membership | handshake, subscribe, relay | bridge, API, browsers |
| Notification pipeline, `apps/api/src/socket`, `routes/notifications.ts` | two connections to the bridge with a service token, table `notifications` | alert received, rule and recipients read, rows inserted, live events emitted, rows read | bridge, rules, users, browsers |
| Browser: bell, alert pages, live stores, session (`apps/web/src/stores`, `hooks`, `lib`) | Zustand stores, the query cache, one socket, `localStorage` | pushes, polls, optimistic mutations, login, logout, Simulator Mode | API, bridge |
| The rest of the API, pages, shared types | no state beyond single rows | queries, rendering | |

The simulator publishes JSON payloads per device on a telemetry, an events and a
(retained) status topic. The bridge filters out messages of simulators that have been
replaced, keeps a registry, turns status messages into transitions, and emits Socket.IO
events to rooms. The browser folds these into its live stores. The API is itself a
Socket.IO client of the bridge: it turns an alert into rows for the users a rule names
and has the bridge announce them. Groups name devices; a rollout copies a group's devices
into rows of its own when it is created.

What is hard here, and cannot be seen in a test that runs one request after the other:

* no route uses a transaction (one in `auth.ts` apart). A guard looks at a row that was
  read one or more awaits before the UPDATE, which names the row by id only;
* a request can die between two statements, and what it wrote stays;
* the bridge decides from its own records what counts as a transition; those records are
  also written by other topics and cleared by other events, at different times;
* MQTT repeats messages, a clean session loses them, retained ones return later;
* connections are lost while their token expires, and the clients differ in how, and
  whether, they try again;
* the browser holds the same fact in several places (a row, a query's answer, a store, a
  number) and each is refreshed, cancelled or overwritten by something else;
* a session ends while requests, effects and handshakes it began are still under way, and
  the next person uses the same tab.

What makes each part correct:

* groups: the counter is the length of the array; an add or a bulk operation disturbs
  nothing it was not asked to; no device twice but by a race;
* rollouts: a row per device; rows and rollouts move along their transition tables,
  whatever is in flight; every transition is audited;
* catalog: no row without its parent; every deletion logged once; counters that heal;
* accounts: a link is good once; MFA that is on can be passed;
* bridge: one source of truth per simulated fleet; status events form a chain; an alert
  once per cooldown, and always once after it;
* pipeline: at rest, the browser shows what the fleet is;
* notifications: delivered once, to each recipient once, announced only if stored, and the
  bell catches up with the table;
* alert pages: a page shows its operator's changes; the store is consistent with itself;
* session: nothing of an earlier user serves, or hinders, the next one; a user who was
  deactivated ends up signed out.

Every hazard, with its line and the properties that cover it, is listed under
`hazards` in `PROJECT.json`; those without a property say why.

## 2. Modules

| Module | What it is | Theorems in |
|---|---|---|
| `DeviceGroups` | the group routes, one action per statement or per half of a route | `DeviceGroupsProofs` |
| `Rollouts` | the rollout routes statement by statement, failures in between, an external worker | `RolloutsProofs` |
| `RealtimeMessages` | the statuses and topics of a payload, for the two that follow | |
| `RealtimeBridge` | the bridge under arbitrary messages | `RealtimeProofs` |
| `FleetSimulator` | simulator processes and their MQTT clients | `RealtimeProofs` |
| `RealtimePipeline` | simulator, broker, bridge and browser composed: extends the two above | `RealtimeProofs` |
| `Mailbox` | abstract: what the notification table promises | |
| `Notifications` | the pipeline from an alert to rows and announcements; implements `Mailbox` | `NotificationsProofs` |
| `NotificationBell` | `Notifications` composed with the bell of one browser | `NotificationsProofs` |
| `LiveAlerts` | operators at their alert pages: table, query, live store | `LiveAlertsProofs` |
| `References` | abstract: what the foreign keys promise | |
| `Catalog` | sites, estates, packages, groups and rollouts as rows that hang on each other; implements `References` | `CatalogProofs` |
| `Accounts` | reset links and MFA enrolment | `AccountsProofs` |
| `WebSession` | one browser tab from login to the last refused request | `WebSessionProofs` |
| `MC...` | finite instances for TLC | |

Operators marked `fault` in a module are mistakes one could make in the code; nothing
uses them but the mutants of `PROJECT.json`.

### DeviceGroups

`members[g]` and `count[g]` are the columns `device_ids` and `device_count`; `life[g]`
folds existence and `archived_at` into one value; `tags[d]` is a device's tag set.
A route that is one SQL statement is one action. `POST /:groupId/devices`,
`POST /:id/duplicate` and the bulk tag routes use what they read earlier and are a
`...Read` and a `...Write` action joined by `handler[h]`, the request in progress; any
number of other statements may run in between. `ArrayRemove` is PostgreSQL's
`array_remove`, which drops every occurrence. Names and descriptions are left out; the
foreign key from rollouts is in `Catalog`.

### Rollouts

`status`, `deviceCount`, `rows` and `audit` are the columns and the log;
`handler[h].step` is the statement a request runs next and `handler[h].seen` the status
its SELECT returned. The two transition tables are operators of the same names. What
executes a rollout is outside the repository: `WorkerDevice` and `WorkerFinish` may do
whatever those tables allow, except for the two row statuses that belong to the API
routes, run pending devices only of a running rollout and finish a rollout whose rows are
all settled. `Abort` is a statement that throws or a process that stops: the rest of the
request never runs. Counters other than `device_count` are not written by any route
after creation, apart from a reset to 0, and are left out.

### RealtimeBridge

A handler of the bridge runs to completion without awaiting, so each message is one
action: `Drop`, `Telemetry`, `StatusMessage`, `EventMessage` are the ways through
`onMessage`, `SimulatorStarted` is `onSystemMessage`, `Prune` the cleanup timer,
`Restart` a new process. `UntitledEvent` is the handler that throws half way, in
`formatEventTitle`, for a payload that names nothing: registry and `previousStatuses` are
written, `device:status` is out, the rest never happens. Time is a tick; ages are capped
where they no longer matter. `sent` is what a step emitted. `shown` and `quiet` are
history variables that no action reads: the status a device's last event ended in, and how
long ago an alert was announced. The estate is treated as the site is and only the site is
kept. Payload fields that no decision depends on are dropped.

### FleetSimulator and RealtimePipeline

`out[s]` holds what process `s` has handed to its MQTT client and the broker has not
acknowledged. Timers publish without waiting; start-up and shutdown wait for each
publication (`await` is its place in the queue). A tick that changes a status publishes
event, status and telemetry, in this order, as the code does. `Stop` lets any prefix of
what is in flight still arrive. `Deliver` is the broker: in order per client, possibly
twice, updating the retained copy. `Away` and `Subscribe` are an outage of the bridge,
with its state kept (`Disconnect`) or lost (`BridgeRestart`); with `clean: true` nothing
is queued for it, and retained messages are delivered again on subscription.
`dashboard[d]` is the status in the browser's live device store. The browser itself stays
connected. `Payloads` are the messages the simulator can publish; the instance gives them
to the bridge as its `Message`.

### Mailbox and Notifications

A source is what gives rise to notifications: an alert or a `POST /notifications`.
`rows[s][u]` and `unread[s][u]` count the rows user `u` got from source `s`. `task[s].step`
is the awaited statement of `bridge-listener.ts` that runs next: `SelectRule`,
`SelectPlatformUsers`, `SelectCustomerUsers`, `Insert` (one multi-row INSERT), `Announce`
(the loop of `emitNotification`, which does not await). A simulated alert goes straight to
its announcement. Users and rules change between any two statements
(`UpdateUser`, `UpdateRule`; no route creates or deletes a rule, and none changes the
customer of a user or an estate's owner, so `CustomerOf` and `EstateOwner` are constants).
`listener` and `emitter` are the API's two connections to the bridge; `token` is the age of
the service token, made when the clients are. A client the bridge refuses stays refused;
the emitter gives up after five attempts and tries again when there is something to say.
`Fail` is a statement that throws, `Restart` the API process. `wire` is what is on its way
to one browser.

`Mailbox` says the same from outside: a source delivers once, all at once, one to a user,
and notifications are only read afterwards. `DeliversLikeAMailbox` is its specification
with the same two variables.

### NotificationBell

Extends `Notifications` by one signed-in browser. `bell` is `unreadCount` of the
notification store, `data` the last answer of the unread query, `fetch` the request in
flight, `change` the read mutation in flight, `notes` the simulated notifications of the
store. `Synced` is the effect of `useNotificationUnreadCount`, which overwrites the number
whenever one of its dependencies changed; every operation that rebuilds the array of
notifications is one (`Rebuild`), a push is not (`Receive`). The optimistic update of a
read decrements, cancels the query and lets the effect run, in that order.

### LiveAlerts

`row` is the table, `list`/`due`/`fetch` the query of an operator's page with its single
retry, `live`/`ids`/`history` the live store, `patch` the mutations in flight, each with
the status the page showed when the button was clicked. `Act` is a click with `onMutate`:
it cancels the request in flight and changes the live store; `PatchApplied`,
`PatchNotFound`, `PatchFailed` (the request or only its answer is lost) and
`ActSimulated` are what becomes of it; `Settle` is `onSettled`, which starts the query
over. `applied[v]` counts the operator's updates the table has taken, so that
`list[v].applied` tells which of them an answer has seen.

### References and Catalog

`life[x]` folds existence and a package's status; `refs[x]` are the foreign keys of a row.
`DeleteRead` is the count that allows a deletion, `DeleteRow`/`DeleteRefused` the DELETE
and what PostgreSQL and `returning()` make of it. A site that is created or deleted is
followed by `CountSites` and `WriteCount`, two statements of their own. `alone` is a ghost:
it says whether another request changed the sites of the same estate meanwhile.
`References` is the abstract table: a row appears once, refers to rows that are there, and
is deleted only when nothing refers to it.

### Accounts

`token[t]` is a row of `password_reset_tokens`, `resets[t]` counts the passwords it has
set. The comparisons of hashes and codes are left to chance: one that fails changes
nothing. `Reset` is one action because the route uses a transaction for both writes.
`enabled` and `secret` are the MFA columns; a verification keeps the secret it checked
(`checked`) until its UPDATE.

### WebSession

One tab. `session` is what the auth store persists, `challenge` the token in the address
of the MFA page, `login` the `POST /auth/login` or `/auth/mfa/verify` under way, `wired`
the token the effect of `useSocket` last ran with, `socket` the module-level connection,
`poll` and `cache` the unread query, whose key names no user. `fresh[t]` is what
`jwt.verify` finds out about a token; a token nobody holds can be signed anew for another
user. `ReadUser` and `Compare` are the halves of a login around the bcrypt comparison;
`VerifyCode` does not look at `is_active`, as the route does not. `RunEffect` is React's
clean-up and set-up, some time after the session changed. `PollDenied` is the 401 handler
of `api-client.ts`, which ends the session there is.

## 3. Runs

| Run | Instance | Checks |
|---|---|---|
| `device_groups` | 2 groups, 1 known device and 1 unknown id, arrays that repeat it, 2 tags, 2 requests | `CountMatches`, `AddKeepsMembers`, `UnracedAddIsClean`, `TagLossIsRequested` |
| `rollouts` | 1 rollout, up to 2 devices, 2 requests, 1 that may die | `RowsMatchCount`, `TransitionsAudited`, `RowsFollowTable`, `OnlyStaleRevives` |
| `realtime_bridge` | 1 simulated and 1 real device, 2 sessions, 2 alert types, payloads with and without names | `NoForeignSession`, `StatusChain`, `AlertOncePerCooldown` |
| `realtime_pipeline` | 1 process, 3 publications in flight, 1 duplicate, 1 outage | `TrackedStatusShown` |
| `notifications` | 2 users, a real and a simulated alert, a POST, every rule, 2 mishaps | `AnnouncedIsStored`, `DeliversLikeAMailbox` |
| `notification_bell` | 2 users, a real and a simulated alert, 2 clicks, 1 mishap | `BellNotTooLow`, `CountCatchesUp` (liveness) |
| `live_alerts` | 2 operators, 3 alerts, a list of one, 2 clicks, 3 mishaps | `HistoryIsTimeline`, `ListMatchesStore`, `OwnChangesListed`, `ReopenedUnseen`, `PageCatchesUp` (liveness) |
| `catalog` | 2 estates, 3 sites, a package, a group, a rollout, 2 requests, 1 that may die | `KeepsReferences`, `DeletionsLogged`, `LoneChangeCounts` |
| `accounts` | 2 users, 3 links, 2 secrets, 2 requests, 1 that may die | `FewLiveLinks`, `LinkIsSpent`, `OnlyOvertakenLocks` |
| `web_session` | 2 users, one with MFA, 2 tokens, 1 mishap | `SocketIsOwn`, `RetiredIsSignedOut`, `SignedInIsServed` (both liveness) |

Each also checks the type invariant of its module. Two runs end in a violation, each of
something the repository says; `PROJECT.json` (`findings`) quotes it:

| Run | What happens |
|---|---|
| `rollout_cancel_race` | a start that read the draft before another start and a cancel revives the cancelled rollout; `OnlyStaleRevives` says that nothing else does |
| `alert_listener` | a connection lost after the service token expired is refused and not tried again: the API hears no alerts until it is restarted |

### Bounds

Two requests in flight are enough for every race of a read with one other request; the
proofs of section 5 cover any number for the properties they state. One group is enough
for all but a duplicate, which needs a second. One rollout is enough because no action of
`Rollouts` reads or writes two. Two devices give rows in different statuses. Ages:
`AlertDedup = DeviceTtl = 1` tick gives "within" and "past" for both clocks, 0 in the
pipeline, where time is not what it is about. `MaxOut = 3` holds one full transition;
`MaxDuplicates` and `MaxOutages` bound the faults of the broker. `warning` is treated like
`fault` everywhere and left out. The instance of the pipeline has one process; with two
the state space is out of TLC's reach at `MaxOut = 3`. The proofs cover any number of
processes there, and what two fleets may do to the bridge is also checked, against
arbitrary messages, in `RealtimeBridge`.

`MaxMishaps` bounds, in each module that has it, what goes wrong or is done by others: one
shared budget rather than one per fault, so that every pair of faults occurs with 2 and
every fault on its own with 1. `MaxAborts = 1`: a second request that dies leaves nothing
behind that the first could not. `MaxClicks = 2` gives an act and one that undoes,
repeats or overtakes it. `MaxListed = 1` makes the list overflow with the second alert.
Two tokens in `WebSession` give the stale poll or socket of one user beside the session
of another; the login takes a new one only if one is free.

`CHECK_DEADLOCK FALSE` where the system really may stop: all rollouts are over, all groups
deleted, all simulator processes gone, all alerts raised, ids used up (a uuid is never
reused: packages, sites, links) or clicks and mishaps spent. `device_groups`, `rollouts`,
`catalog` and `accounts` use symmetry, of the requests in flight and of ids that nothing
distinguishes; none of them checks a liveness property.

## 4. Fairness

Liveness is checked where somebody must act by themselves, and assumes weak fairness only
of steps that the runtime takes without being asked:

* `Notifications`: an awaited statement returns (or fails, or the process restarts), and
  a connection attempt is answered;
* `NotificationBell`: in addition, the query's timer fires, requests are answered or fail,
  messages that were not lost arrive. The timer pauses in a background tab, so the
  statement is about a tab that is looked at again and again;
* `LiveAlerts`: a request that is due is sent, answered one way or the other, and a
  mutation settles. Nothing polls there: the query is asked on mount and on invalidation;
* `WebSession`: React runs the effect, a handshake is answered, the unread query's timer
  fires, and its requests are answered and retried once.

Nothing is assumed of users, administrators, alerts, resets, losses or failures. Time is
assumed in one place: `RetiredIsSignedOut` has `TokensExpire` as its antecedent, because
it is false of a token that stays valid.

The other specifications state safety only: a request that is never answered has simply
not happened for them.

## 5. Proofs

Checked by TLAPS for all values of the constants. Every invariant and action property the
passing runs check is a theorem. Assumptions: the constants are sets of the right kind and
the bounds naturals, `None` is none of the values it stands beside, each named in the
module that declares it; `User` of `Notifications` and `Handler` of `Accounts` are finite,
`Site` of `Catalog` too, because they are counted with `Cardinality`; the fleet of
`RealtimePipeline` is among the devices, sessions and messages the bridge may hear of.

* `DeviceGroupsProofs`: `TypeCorrect`, `CountAlwaysMatches`, `AddsLoseNobody`,
  `UnracedAddsClean`, `TagLossRequested`. `CountMatches` is not inductive, because a
  duplicate inserts a pair it read earlier: the invariant adds `CopiesMatch`, that the
  pair a request holds matches as well. An add without a race is clean because the array
  it read did not have the device (`AddsUnseen`). The lemma `ArrayRemoveProperties` (the
  result is a sequence of the remaining devices, its length the number of positions kept)
  rests on `RankOnto`, a counting argument that numbering kept positions leaves no gap.
* `RolloutsProofs`: `TypeCorrect`, `RowsAlwaysMatchCount`, `RowsKeepToTable`,
  `AuditComplete`, `RevivedByStaleOnly`, and `DraftsOnlyStart`, which no run repeats: a
  rollout leaves draft by a start only. The invariant says of the requests in progress
  what makes their stale decisions harmless: one create per rollout, whose rows are still
  empty (`CreatePending`, `OneCreate`), and a start, cancel or retry that did not see the
  rollout cancelled and, but for the start, finds it past draft still (`ActingSeen`).
  That is also why the log is complete: what takes a rollout out of draft is a start, and
  it has logged that or is about to. `CancelledIsFinal` is not a theorem: the violation
  run refutes it.
* `RealtimeProofs`, the bridge: `TypeCorrect`, `StaleSessionsStayOut`,
  `StatusEventsChain`, `AlertsKeepCooldown`. The chain and the cooldown are about what was
  emitted; the invariants `RecordIsHistory` and `CooldownIsHistory` say that
  `previousStatuses` and `alertDedupTimestamps` are exactly that history, which neither
  pruning nor a reset nor a handler that throws may touch.
* `RealtimeProofs`, the pipeline: `PipelineTypeCorrect`, `TrackedShown`, and
  `PipelineIsBridge`, that every behaviour of the pipeline is one of the bridge, so that
  the theorems about the bridge hold in it. `TrackedStatusShown` speaks of the pipeline at
  rest, the invariant of everything that may be under way. As long as one process is the
  only one there has been (`LoneOK`), its last status in the queue, or else the broker's
  copy, is the device's (`Lasting`); while the announcement is on its way nothing has been
  shown; and what the bridge has shown of a device is on the dashboard and, outside an
  outage, is the broker's copy (`LoneDevice`). The lemmas follow a message through the
  queue: what an append, a delivery, a repetition and a connection cut short do to the
  last status in it (`LatestAppend`, `LatestDelivered`), and to the rest (`GoodAppend`,
  `GoodTail`, `GoodPrefix`).
* `NotificationsProofs`: `TypeCorrect`, `AnnouncedStored`, `MailboxImplemented`. That a
  source delivers only once needs `NoRowsYet` (a source whose INSERT is still to come has
  no rows), `EachOnce` (nobody is a target twice) and `TargetsStored` (past the INSERT the
  rows are the targets); that what is announced is stored needs `RowsStay`. Of the bell:
  `BellTypeCorrect`, `BellNeverTooLow`, which need that the unread notifications are
  finitely many (`FiniteUnread`), as they are counted.
* `LiveAlertsProofs`: `TypeCorrect`, `TimelineAccounts`, `ListMatches`, `OwnChangesRead`,
  `ReopenedByUnseeing`. The list needs that no alert is listed twice (`OnceListed`); a
  reopened alert, that every click in flight was one the page offered (`PatchesOffered`);
  a page's own changes, that a fetch under way while no click is in flight was begun after
  the last of them (`FetchCurrent`): whoever changed the row in between has a mutation in
  flight until it has invalidated that fetch.
* `CatalogProofs`: `TypeCorrect`, `ReferencesKept`, `LoneChangesCount`,
  `DeletionsLoggedOnce`. The counter needs `SiteHasEstate` (a site belongs to one estate,
  that of the request that changed it) and `LoneCountKnown`: what a request that is still
  alone has counted is the number there is. The log needs `DeletionLog`: at most one
  request still has to log the deletion of a row, and none once it is logged.
* `AccountsProofs`: `TypeCorrect`, `LiveLinksFew`, `LinkSpent`, `OnlyOvertakenLock`. The
  first two count links and requests together, and rest on `FiniteLive`, that there are
  only finitely many live links of a user to count.
* `WebSessionProofs`: `TypeCorrect`, `OwnSocket`. Tokens are signed anew once nobody holds
  them, so the invariant has to say for every holder who the token was signed for, and
  the lemma `HeldStay` that signing another leaves those alone.

Only model-checked: liveness, which is out of the prover's reach as ENABLED is:
`PageCatchesUp`, `CountCatchesUp`, `RetiredIsSignedOut`, `SignedInIsServed`, and the
violation of `ListenerReconnects`. So is induction over data by way of theorems with an
operator parameter; no definition here is recursive.

## 6. What the code does that it says it does not

Beside the two findings, met while modelling. The models contain the behaviour; no run
states the contrary, unless the first word says so.

Groups and rollouts

* Two adds of one device both pass the test and both append: `device-groups.ts:291`
  promises a guard in the statement. `UnracedAddIsClean` says a race is the only way.
* A retry that overlaps a cancel leaves pending rows in a cancelled rollout; one that
  overlaps the executor resets rows of a finished one (`rollouts.ts:449`). A retry takes
  a completed rollout back to running, while `docs/implementation/WORKFLOW_INTEGRITY_CHECKS.md:35` calls it
  immutable.
* `POST /rollouts` accepts a deprecated package
  (`plans/sprint-11-phase-b-plan.md:67`). Deprecating or activating a package that was
  deleted in between is answered 200 and logged; two overlapping deprecations both log
  that the package was active. Deleting a group that rollouts name ends in a raw 500.
* Two overlapping changes of an estate's sites may leave an old `site_count`
  (`docs/implementation/ROADMAP.md:423`, `docs/implementation/CHANGELOG.md:283`): `LoneChangeCounts` says until when.

Bridge and simulator

* A starting simulator clears real devices out of the registry too, against the comment at
  `device-registry.ts:163`.
* `previousStatuses` outlives `simulator:started`, so a new fleet whose first status
  equals the old fleet's last one is not announced to browsers that were just reset.
  `TrackedStatusShown` is therefore about a fleet that has had no predecessor.
* If `simulator:started` falls into an outage of the bridge, the new fleet is dropped as
  stale. A timer that fires during the simulator's shutdown leaves a device retained in
  another status than offline (`device-simulator.ts:497`). The first transition of a device
  is not announced when its event arrives before the status.

Browser

* The rollback of an alert mutation restores a key no query has (`use-alerts.ts:255`); a
  live alert that is not simulated keeps "acknowledged" in the store although its PATCH is
  answered 404 (`docs/implementation/APPLICATION_AUDIT_REPORT.md:100`). Nobody emits `alert:updated`
  (`docs/implementation/ROADMAP.md:148` against `docs/implementation/TECHNICAL_DEBT.md:150`), so other operators see a change only
  when they refetch.
* Invalidation after an event is debounced without a limit (`use-socket.ts:120`): events
  that keep coming less than 100 ms apart put it off for ever. A key that is a single array is
  taken apart into strings (`use-socket.ts:128`), which match no query; only nested ones,
  of notifications and of the device of an event, do. `LiveAlerts` has no refetch on events for that
  reason.
* `isSocketConnected` becomes false with the stores at a simulator reset, while the
  connection is up, and stays true after a logout, whose clean-up takes the listeners off
  before it disconnects. The live diagnostic store is cleared by its page only.
* The bell may ring for nothing: a push counts an announcement the last poll had counted,
  and a local notification adds one until the effect runs again. Only `data`, not `bell`,
  therefore catches up with the table for good.
* A 401 that answers a request of an earlier session ends the session that has replaced it
  (`api-client.ts:85`). Neither logout nor login clears the query cache, so the next user
  sees the former one's answers until each query is answered again. A browser whose
  handshake was refused does not try again until the session changes or the page is
  reloaded. `login()` swallows an ordinary error, so the page goes on to `/dashboard`,
  whence the guard sends it back.
* The profile page writes back the `user` it had when a save was sent
  (`profile/page.tsx:97`), over what another save has changed meanwhile. The answer of a
  login has no notification preferences, so the first toggle replaces the stored ones by
  the page's defaults (`auth.ts:821`). Toggles that overlap share one mutation, of which
  only the last one's callbacks run.

Accounts

* Requests that found a reset link live before it was used may each still set a password
  (`docs/implementation/ROADMAP.md:467` calls links single-use). `/mfa/setup` of an account that has MFA puts
  an unverified secret in force (`auth.ts:483`). `PUT /me` looks for a duplicate address
  among active users only, so the unique index answers with a raw 500.
* `/mfa/verify` does not look at `is_active`: a user who was deactivated after the password
  was accepted is let in, for as long as the token lasts.

## 7. Not modelled

* Queries and rendering: they change nothing. That includes the dashboard, reports, health
  and the audit page, and most of the web application's lines.
* Single-row administration (roles, settings, API keys, notification rules, customers, the
  descriptive columns of users, sites, estates, packages and devices): one statement, no
  interaction. Collisions of names or addresses are decided by unique indexes, which the
  models, whose names are ids, have no use for. No route inserts, moves or deletes devices.
* The change of a password and the profile: one row from what the request carries.
* Roles' permissions, rate limits and the demo login.
* Texts, readings and their random walk, log lines, the simulator's health server.
* `previousStatuses` and `alertDedupTimestamps` are never cleaned: a bound on memory, not
  visible on finitely many devices.
* The rooms a client subscribes to, and the relay of events other services emit. A browser
  in several rooms gets an event once for each: `LiveAlerts` repeats alerts for that reason.
* React: effects and dynamic imports run with the change that causes them, but for
  `RunEffect`, where the delay matters. React Query's deduplication, retry and
  cancellation are modelled from how the hooks use them.
* Live device, event and diagnostic stores beyond the status of a device: each folds one
  event into one entry.
