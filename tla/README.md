# A TLA+ development of the Playful Proxy API panel

The program is a proxy in front of AI providers. A request comes in, the proxy chooses one of
many *credentials* (API keys and OAuth logins) of one or more providers, executes the request with
it, and learns from the result: a credential that ran into a quota rests, an expired token is
refreshed, a removed login is forgotten. A node may instead take its credentials from *Home*, a
remote service that hands out credentials under concurrency limits, and must give every one back.

The parts that decide, and that several goroutines touch at once, are modelled here. What is
pure conversion, I/O or user interface is not. `PROJECT.json` names, for every definition that
models code, the lines it stands for; this file says what the models are, what was checked and
proved about them, and what is left.

## 1. Inventory

### Modelled

| Component | Code | State | Operations |
|---|---|---|---|
| Home execution registry | `sdk/cliproxy/executionregistry` | an atomic lifecycle state; under `r.mu` the pending tokens, the scopes, cumulative release sequences, the release sink, the observation barrier | BeginDispatch, Install, End, Bind, Close of a scope, SetReleaseSink, Drain, Close, WaitPending, ObserveBarrier, FreezeInFlight |
| Release flusher | `internal/home/concurrency_release.go` | latest and acknowledged sequence per group, tickets, sender, wake-up and force channels | MarkDirty, SetSender, Run, flush, Flush |
| Home dispatch and release | `sdk/cliproxy/auth/conductor_home.go`, `service_home.go` | the selection a request holds; the supervisor's stage | pickHomeDispatchSelection, AbortAmbiguousDispatch, the end of runHomeSubscriber |
| Credential cooldowns | `sdk/cliproxy/auth/conductor_cooldown.go`, `cooldown_state.go`, `selector.go` | per credential and model: unavailable, next retry, quota window and backoff level; the `.cds` file | MarkResult, ResetQuota, configuration changes, save and restore |
| Auth manager lifecycle | `conductor_lifecycle.go`, `conductor_selection.go`, `service_auth.go` | `m.auths` and the copy in the scheduler | Register, Update, Remove, Load, re-registration of models, the two attempts of a pick |
| Auth scheduler | `sdk/cliproxy/auth/scheduler.go` | per provider and model the ready views by priority, the blocked queue, cursors and smooth weighted credits | setSelector, rebuild, upsertAuth, removeAuth, pickSingle, pickMixed |
| Token refresh | `conductor_refresh.go`, `auto_refresh_loop.go` | the queue of next checks, dirty set, wake-up channel, timer, job channel, a lock per credential | the loop, its workers, the refresh after a 401, logins, removals, results |
| Watcher | `internal/watcher`, `service_auth.go`, `service_config.go` | hashes of files and of the configuration, `currentAuths` and `runtimeAuths`, the debounce times, `pendingUpdates` and their order, the update queue, the committed and the applied configuration | the event handler, the reload and its hook, refreshAuthState, session and login updates, the dispatch loop, the consumer, the two phases of a configuration update |
| Request execution and streaming | `conductor_execution.go`, `conductor_stream.go` | the round, the credentials tried and attempted, the models left; a stream's goroutines | executeMixedOnce, executeStreamMixedOnce, executeStreamWithModelPool, wrapStreamResult, the retry after a cooldown |
| Upstream concurrency limits | `upstream_concurrency.go` | a semaphore per provider, replaced when its limit changes | acquire, release, streamResultWithPermitRelease |
| Selectors and session affinity | `session_cache.go`, `selector.go` | an entry per identifier of a session: credential, expiry, aliases | Get, GetAndRefresh, SetAliases, InvalidateAuth, cleanup, Pick |
| Websocket relay | `internal/wsrelay` | a session's pending map, a channel per request, `s.closed` | Send, request, dispatch, cleanup, Stop, NonStream, Stream |
| Usage queue | `internal/redisqueue/queue.go`, `service_home.go` | the switch, the items, the subscribers | Enqueue, publish, subscribe, pop, prune, clear, the forwarder to Home |

How they interact. The *manager* owns the credentials. Each of its operations changes the record
under `Manager.mu`, lets go, and then tells the others one lock at a time: the *scheduler* (its
copy), the *`.cds` file*, the *model registry*, the *refresh loop* (a reschedule). A request asks
the scheduler, executes, and reports a result to the manager. In Home mode the request reserves a
token in the *registry*, asks Home, installs a scope, binds the resource that must be closed on
shutdown, and ends the scope; the end bumps the group's release sequence and marks it dirty in the
*flusher*, which tells Home. The *supervisor* of a Home lifetime drains the registry and flushes
before it lets go of the connection.

Credentials come and go through the *watcher*: it compares the auth directory and the configuration
with what it saw last, and sends the differences, coalesced per credential, to the service, which calls
the manager's Register, Update and Remove. A login and a websocket session push their credential
through the same feed. A *request* takes a permit of the provider's limiter, tries the models of a
credential one after the other, then other credentials, then waits for a cooldown and starts again;
a stream keeps the permit until it ends. Each attempt leaves a usage record in the *queue*.

What is hard here:

- operations that are not atomic although each step is: record, then scheduler, then file, then
  registry, with another goroutine between any two;
- state tested under one lock and changed under another (`r.state` is atomic and not under `r.mu`;
  the refresh loop reads the manager's map and files the answer in its own queue);
- wake-ups through channels of capacity one, and channels that are replaced when they are closed;
- answers of Home and of providers that are lost after the request took effect;
- shutdown that must wait for what it cannot interrupt;
- indexes kept incrementally (the scheduler's views, cursors and credits), which must always say
  what a computation from nothing would say;
- restarts between the change of a record and its save;
- channels with several closers (relay, queue), some of which close outside the lock;
- files that are read more than once, or read before the lock under which the result is filed;
- resources (permits, results) that must be settled once on each of many early returns.

The hazards are listed one by one, at their line, in `PROJECT.json`.

### Not modelled (yet, or at all)

Candidates, each a map or a loop behind one mutex whose callers are modelled: the marks and counts of
the model registry (`CredentialCooldown` keeps whether it lists a credential), the in-flight
publisher's loop (what it publishes, the registry's observation, is modelled), Home sessions that
retain a selection.

Left out of modelled parts: Home mode and the antigravity credits fallback in `RequestPath`; the
queue of errors, which is only published, in `UsageQueue`; several sessions in `WsRelay`
(`ensureWebsocketGateway` sets no provider factory, so each has a random name and none replaces
another; requests meet only at the reader and at cleanup, so one is enough); in `Watcher` a change of
the auth directory's path, a configuration that cannot be loaded, files that hold no or several
credentials, and the commit of changes to a remote store (`persistAuthAsync`).

Not planned, with the reason: provider executors and protocol translators (request building and JSON
conversion; data only), HTTP handlers (what they ask of the manager is modelled), auth store backends, Home's connection, plugin host (I/O), usage
database and control plane (SQL), configuration (parsing), reasoning and signature caches (maps
behind one mutex), OAuth logins (interactive; the effect of a login is in `TokenRefresh`), sync
state, console and TUI.

Of the management handlers, what they do to the manager's state is modelled where it differs from what
the service does: a removal that does not unregister the models first (`DeleteAuthFile` in
`CredentialCooldown`), an edit that clones the record and stores the clone later (`PatchAuth` there,
`CopyRead` and `StoreAuth` in `TokenRefresh`), and a login that is saved to a file and pushed
(`LoginSave` in `Watcher`). The rest of the handlers (listing, downloading, status of a login, editing the
configuration file, which the watcher then reads) is not modelled.

## 2. Modules

| Module | What it is |
|---|---|
| `ExecutionRegistry` | the registry, its callers and its observers |
| `ReleaseFlusher` | the flusher, with Home as an external part that keeps the highest sequence it was sent |
| `HomeRelease` | EXTENDS the registry, instantiates the flusher, adds Home's admission, a request's dispatch and the supervisor's end |
| `CredentialCooldown` | one credential's cooldowns in the manager, the scheduler's copy and the file |
| `AuthScheduler` | the routing decision |
| `TokenRefresh` | the refresh loop and the refresh after a 401 |
| `Watcher` | from the file system to the manager |
| `LatestWins` | abstract: a feed that shows, of each credential, the newest value sent; implemented by `Watcher` |
| `RequestPath` | a request's attempts, permits, results and stream |
| `SessionAffinity` | the cache of sessions, its picks, and removals |
| `WsRelay` | a websocket session and those who use and close it |
| `UsageQueue` | usage records from Enqueue to a subscriber, a client or Home |
| `...Proofs` | the theorems about the module it extends: `ExecutionRegistry`, `ReleaseFlusher`, `HomeRelease`, `CredentialCooldown`, `TokenRefresh`, `Watcher`, `AuthScheduler` (and the record that `MCAuthScheduler` runs beside it); `ServicesProofs`: about `RequestPath`, `WsRelay`, `UsageQueue` and `SessionAffinity` |
| `MCHomeRelease`, `MCAuthScheduler`, `MCServices` | several instances in one run; the initial state says which of them moves |
| other `MC...` | symmetry, the views of `cooldown_route` (without the file, which no step reads there) and `token_refresh` (without the queue of a stopped loop), and the sets of profiles, requests and logins that a `.cfg` cannot write |

What a step is, in each:

- **ExecutionRegistry.** One critical section of `r.mu`, or one operation on the atomic `r.state`.
  `Drain` and `Close` swap `r.state` without the mutex; so an operation that tests the state and
  then acts on it (`BeginDispatch`, `Install`, `Bind`) takes two steps and keeps the mutex (`mu`)
  between them: that is where a swap can come in between. `pc[d]` is where the owner of a token
  stands. A `closeFn` takes a step of its own, as does the delivery of a release to the sink it
  captured. `barrierNext` is a history variable.
- **ReleaseFlusher.** One critical section of `f.mu`, one channel operation, or one send. A send
  is delivered and answered, or fails, before or after Home has applied it. Durations are left out: the
  timer is due or not, the loop backs off or does not.
- **HomeRelease.** The steps of the two. Home admits a dispatch while fewer than `Limit` are
  outstanding, and what it counts as outstanding is what it admitted minus what the release sequence
  covers. An answer may be lost, have a malformed tuple or be refused, which fences the client
  (`ambiguous`); one that is not UTF-8 or not an object does not fence it (`unread`).
- **CredentialCooldown.** An operation is one critical section of `Manager.mu` followed by the
  list of steps it still owes (`calls[c].steps`), in the code's order: `upsert` the snapshot into the
  scheduler, take `configCooldownMu`, read the records, save, unlock, and so on. The code hands the
  stored record itself to the scheduler in `Update` (`alias`); while it does, the scheduler may read
  either what it was given or what it has become (`Views`). An update, whether of the service
  (`UpdateAuth`), of request preparation or of a management edit (`PatchAuth`), reads the record in one step and
  stores what it made of it in another (`StoreAuth`), and models are registered from the copy in hand. A
  removal is the service's (unregister the models, then `Manager.Remove`) or the management API's
  (`DeleteAuthFile`: only the latter); either returns early when the record is gone. Any of these
  may overlap. A restart loses everything but the file.
- **AuthScheduler.** Every operation runs under the scheduler's mutex and is one step. A pick is a
  function of the state (`Serve`) that the action applies, so that a property can ask what any
  request *would* get. Credentials are given by the fields routing reads.
- **TokenRefresh.** One critical section of the manager's or the loop's mutex, one channel
  operation, or one call to the provider, which rotates its token with every refresh it grants and whose
  answer may be lost. Those who store a credential without the refresh lock read in one step and store in
  another: a login (`LoginRead`), the watcher with the token its file held (`FileRead`), request preparation and management
  edits with a copy of the record (`CopyRead`), and a preparation that refreshes its copy itself, as
  Antigravity's does (`PrepareRefreshes`). Stopping the loop is abstracted: it finishes what it is at.

- **Watcher.** One critical section of `clientsMutex`, `dispatchMu` or `configMu`, one channel
  operation, or one read of a file. The event handler is one goroutine; up to two reloads (the
  debounce timer's and the start's, or the hook's) run beside it. A replaced file yields a remove and a
  write event, in either outcome of the debounce window. A configuration is a version and the API keys it lists, and an
  edit may add and remove keys; a reload that finds a change may take any credentials out of
  `currentAuths` first, as those of an affected provider (`ReloadClients`): files, keys and sessions alike. The two reads of a file in `handleEvent`,
  one to compare its hash and one to parse it, are merged.
- **RequestPath.** One call or one wait. A pick yields any credential not yet tried, or none;
  an upstream call may succeed, fail, be refused as invalid or as unauthorized, and the client may
  leave at any time. `owed` counts attempts begun and not yet recorded, failed preparations included.
- **SessionAffinity.** One operation of the cache, under its mutex. A pick is three of them.
- **WsRelay.** One operation on the pending map or on a channel. A send on a closed channel is
  modelled as what it is, a panic that takes the process down (`crashed`). `s.pending = sync.Map{}` is not
  synchronized; what overlaps it may panic (`TornPending`).
- **UsageQueue.** One critical section of `queue.mu`, one load of the switch, one close of a channel,
  or one push to Home, which may fail after Home stored the record (`ambiguous`).

Time is a counter. Strings (providers, models, groups) are model values. A record keeps the
fields that a decision reads; messages, counters and timestamps that only a display reads are left
out. Each module's constants name its bounds, its assumption is checked by TLC in every run.

## 3. Runs

Each passing run is one question, or several about instances that share no state and are kept in one
run by a variable that never changes. Deadlock is checked for the registry and the flusher;
elsewhere it is not, because there a bounded number of operations, or the clock, simply
runs out.

| Run | Instance | States | What holds |
|---|---|---|---|
| `registry_stop` | 2 tokens, a Drain that may time out, 2 Close, a WaitPending; fair | 442 thousand | `DrainedRegistryIsEmpty`, `CloseLeavesNoOpenResource`, `DrainReturns`, `WaitPendingReturns`, `CloseReturns` |
| `home_release` | registry: 2 tokens, 1 group, 2 sinks, 2 barriers, 2 snapshots; composition: 2 requests, limit 1, 2 lifetimes of Run | 3.1 million | `TypeOK`, `ReleasedResourceIsClosed`, `ReleaseSequenceCounts`, `NoReleaseIsLost`, `BarrierSnapshotIsComplete`, `HomeLimitIsRespected`, `NoSlotFreedTwice`, `StopSettlesHome` |
| `flusher` | 2 groups, sequences to 2, 2 lifetimes, 1 Flush; fair | 153 thousand | `AckedIsApplied`, `ClosedTicketIsApplied`, `OpenTicketIsPending`, `TicketsClose` |
| `cooldown_disk` | 2 callers with 2 operations each, 1 restart, time 2 | 1.1 million | `SavedIsCurrent`, `BlockHasDeadline`, `CoolingOffUnblocks` |
| `cooldown_route` | 2 callers with 2 operations each (results, resets, updates, patches, removals in both orders) and a pick, time 1 | 1.2 million | `RemovedIsNotOffered`, `RefusalIsTrue` |
| `scheduler` | 3 credentials, 2 providers, 3 strategies, 4 requests, time 2; the scheduler's copy: 1 caller, 3 operations, 2 models, 5 classes of failure, time 3 | 367 thousand | `PickIsBest`, `FairShare`, `SchedulerAgreesAlone`, `LadderNeedsTimeAlone` |
| `token_refresh` | 1 credential, 1 worker, 2 callers with 2 operations between them, the first of which may take a copy, 2 tokens issued, time 2 | 5.1 million | `NoTokenReplayed`, `NothingForgotten`, `NoSpin` |
| `hot_reload` | 1 file with 2 contents, 1 session, 1 API key, 2 reloads, 2 changes, the first of which may be a login, queue of 2; fair | 1.3 million | `HotReloadConverges`, `LastCommitIsApplied`, `FeedIsLatestWins` |
| `services` | relay: 1 request, 2 chunks, channel of 2; queue: 2 records, 2 subscribers; path: 2 requests, 2 credentials, limits 1 and 2, 1 change; affinity: 3 identifiers, 2 credentials, 2 picks | 3.1 million | `NoCallerIsStranded`, `TruncationIsReported`, `RecordIsInOnePlace`, `FeedsAreClosedOnce`, `PermitsBalance`, `AttemptIsRecordedOnce`, `GroupsAreWhole`, `RemovedHasNoSessions` |

What they say:

- *Registry.* A drained registry is empty and stays empty. When a `Close` returns, no resource is open
  and none is bound later. A scope is released only after its resource was closed, whoever closed
  it; it is counted once; and the count reaches the sink that is installed although the sink is
  replaced meanwhile. A snapshot that carries a barrier accounts for every dispatch begun before it.
  `Drain`, `WaitPending` and `Close` return without the help of their timeouts: no wake-up is lost.
- *Flusher.* A closed ticket means that Home holds the release, also when frames are lost, repeated
  or answered late. Every ticket is closed in the end.
- *Home.* No credential is used by more requests at once than its limit; Home is never told
  of more releases than it admitted; after drain and flush, Home holds every release but those of unreadable
  answers, unless the client was fenced.
- *Cooldowns.* The scheduler's copy routes as the record would (operations one after the other). A
  burst of quota failures climbs one rung of the backoff per window. The file converges on the
  records whatever order the saves run in; no block is without an end; switching cooling off
  lifts every block. A request that no operation overlaps is not refused because of a copy that went stale
  before; a removed credential is not offered again, unless its models were still listed while a copy of it was on its
  way to the scheduler.
- *Scheduler.* Whatever was filed, moved, removed and promoted before, a request gets a best credential, is
  refused only when none is free, and is told the right time to wait. An unchanged pool is shared
  by weight to within one pick (two, when the stretch starts with old credits).
- *Refresh.* Refreshes never present a superseded refresh token to the provider, unless one was stored without the
  refresh lock or an answer was lost; a credential that needs a check is in the
  queue, dirty with a wake-up, or on its way to one of these; the loop does not start a
  second refresh at the time of the first.

- *Watcher.* When it comes to rest, and no two producers of updates overlapped, the manager holds all credentials on disk, in the
  configuration and of connected sessions, with their last contents, and no other but an API key that left the
  configuration in an edit that also affected its provider. The configuration the runtime
  uses is the one committed last. The feed implements `LatestWins`: what the manager is shown of a
  credential is the newest value sent, and everything sent is shown in the end.
- *Relay.* No caller waits for a session that is closed, whenever its request came in. A caller is
  told that an answer is complete only if it is.
- *Usage queue.* A record is in one place: on its way, queued, handed out once, or dropped for a
  reason. No channel is closed twice or sent to after its close.
- *Requests.* Permits out and permits held agree, for the limiter in use and for those it replaced.
  An attempt is recorded once, however its stream ends.
- *Sessions.* All live identifiers of a session agree on its credential, expiry and
  aliases; a removed credential keeps no session.

Some promises have exemptions, which the models record in history variables because the code has no
means to do better. They are limits of what is shown: in an exempted case the code does what the
property excludes, and no property catches it. `exposed` (in `CredentialCooldown`) ends
`RemovedIsNotOffered`: the credential was removed while its models were still listed, by the
management API or because an update in progress registered them again, and somebody carried a copy to the scheduler,
where it can be offered until the models are unregistered. `spoiled` (in `TokenRefresh`) ends
`NoTokenReplayed` until the last token is stored outside of a refresh: the provider rotated the token and its answer was
lost, a login or a preparation that refreshes its copy overtook a refresh, or a copy or a file read
before a refresh was stored after it. `unread` (in `HomeRelease`) are the slots `StopSettlesHome` leaves out.
`stranded` (in `Watcher`) are the keys that `HotReloadConverges` lets stay in the
manager: a reload took them out of `currentAuths` because their provider's excluded models changed, and
the snapshot did not have them any more, so no delete was sent. `orphaned` (the 401 that made the
loop drop a credential was lifted by a result, or a late unschedule followed a new login) ends
`NothingForgotten` for that credential, and is the subject of the third finding below. `mixed` (in
`Watcher`) ends `HotReloadConverges` once two producers of updates (the event handler, a
reload, a session, a login) overlapped, as what one read may be filed after what the other read
later; once the debounce window swallowed a second removal; once a file went back to the content the
watcher last saw; or once the configuration changed between its load and the hash recorded for it. The
last change then waits for the next event. `lossy` and `cancelled` (in `WsRelay`) end
`TruncationIsReported`: with a full channel a message is dropped. If it reports the end of
the session, `NonStream` returns the part it has as a success; if it is a chunk, the answer has a hole. `ambiguous` and `excused` (in
`UsageQueue`) are a push that failed after Home stored the record, and records dropped by the switch,
by age, or because every subscriber was too slow. `overtaken` (in `SessionAffinity`) is a pick that
chose a credential before its removal and bound it afterwards; the binding stays until the next pick
refuses it or it expires.

Two things the models show and no property excludes: the relay can send on a channel that another
goroutine has just closed (`crashed`), and a limiter replaced while permits are out admits, together
with its successor, more than either limit. Neither is contradicted by a document.

Why the bounds are enough. The hazards need two actors on one object: two requests and one
stopping call, two results and one file, a worker and two callers on one credential. Two sinks and two
barriers are the least with which one can be replaced while the other is in use. Two lifetimes of
`Run` are the least with which the second sends again what the first left. Three
credentials are the least with two in one view and one in another, so that cursors, weights and the
mixed route differ. The clock runs far enough for the shortest window to run out and be
reopened. One stored copy (`MaxCopies`) is enough to put an old token back, and a backoff of one after a
failed refresh (`FailureBackoff`) to be waited for within the time. The key of the watcher's run is in the configuration
at the start (`FirstKeys`), so that one edit removes it and a second one brings it back. Two reloads are the least that overlap; two changes, the least of which one is overtaken. A
channel of two is full after two chunks, with the terminal frame to come. Two records in a batch are the
least of which one is pushed and one fails. Three identifiers, two of them prompt keys, are the
least with which two groups are joined and one alias is compacted away. Except for the
scheduler and two properties named there, the theorems of section 4 remove the bounds for all that
is not liveness.

Every property is paired in `PROJECT.json` with a mutant: a definition changed as a plausible bug
would change it (the state tested without the mutex, a release before the close, a save outside the
lock, a timer not armed again), under which TLC finds the property violated.

### Fairness

- *Registry* (`Fairness`). Something goes on as long as something can, where what can go on is: a
  request resolves the token it holds and ends the scope it installed (the callers do so in `defer`
  or on every return path), `closeFn` returns, and a call goes on to its next step. Nothing is assumed
  of timeouts, of `Bind`, or of new requests. This is less than fairness to each goroutine, which the
  Go scheduler gives.
- *Flusher* (`FlusherFairness`). The supervisor starts `Run` again and installs a sender, as
  its loop does as long as the service lives; `Run` keeps going. Home is reachable again and again:
  if a group is sent forever, some send of it succeeds (strong fairness). `Run` eventually notices
  its cancelled context (strong, because Go's `select` chooses at random among what is ready).
- *Watcher* (`WatcherFairSpec`). The dispatch loop and the consumer keep going (`FeedStep`): both are
  goroutines that live as long as the service, and neither holds a lock while it waits. Nothing is
  assumed of events, reloads, sessions and logins.
- The other runs check safety only.

### Findings

Three places where the code does something other than a comment or the documentation says; each
has a run in which TLC exhibits it.

1. `cooldown_unsupported`: with `disable-cooling` on, a model-not-supported answer still takes the
   model out for twelve hours (`conductor_cooldown.go:756`); `config.example.yaml:171` says that
   the option prevents blackout windows after failures.
2. `cooldown_reconciled`: re-registration of a credential's models resets its cooldowns in memory
   and not in the `.cds` file, so the next restore brings them back
   (`conductor_selection.go:166`); `model_registry.go:452` says that they must not survive.
3. `token_refresh_unwatched`: the refresh loop drops a credential because of a 401, and a success
   that clears the 401 does not reschedule it (`conductor_cooldown.go:732`); the comment on
   `StartAutoRefresh` says that the loop evaluates freshness every few seconds.

## 4. Proofs

TLAPS proves the following for every value of the constants that satisfies the assumptions: any
number of requests, callers, credentials, groups, models, records, files and so on, any limits, sizes and
durations. Each theorem is `Spec => []P` with the specification of its module, unless noted.

| Module | Theorem | P |
|---|---|---|
| `ExecutionRegistryProofs` | `TypeCorrect` | `TypeOK` |
| | `DrainIsFinal` | `DrainedRegistryIsEmpty` |
| | `CloseIsFinal` | `CloseLeavesNoOpenResource` |
| | `ReleaseFollowsClose` | `ReleasedResourceIsClosed` |
| | `SequencesCountReleases` | `ReleaseSequenceCounts` |
| | `ReleasesSurviveSinkChange` | `NoReleaseIsLost` |
| | `SnapshotsRespectBarriers` | `BarrierSnapshotIsComplete` |
| `ReleaseFlusherProofs` | `FlusherTypeCorrect` | `FlusherTypeOK` |
| | `FlusherAcksWhatHomeHolds` | `AckedIsApplied` |
| | `FlusherClosesTruthfully` | `ClosedTicketIsApplied` |
| | `FlusherForgetsNoTicket` | `OpenTicketIsPending` |
| `HomeReleaseProofs` | `HomeFreesNoSlotTwice` | `NoSlotFreedTwice` |
| | `HomeLimitHolds` | `LimitIsRespected` |
| | `HomeLimitHoldsWithHome` | `HomeLimitIsRespected`, of `MCSpec`, what the run checks |
| | `HomeIsSettled` | `StopSettlesHome` |
| `CredentialCooldownProofs` | `CooldownTypeCorrect` | `CooldownTypeOK` |
| | `SavedRecordsAreCurrent` | `SavedIsCurrent` |
| | `BlocksHaveDeadlines` | `BlockHasDeadline` |
| | `CoolingOffHoldsNothingBack` | `CoolingOffUnblocks`, if no failure is "unsupported" (finding 1) |
| | `RemovedAreNotOffered` | `RemovedIsNotOffered` |
| | `RefusalsAreTrue` | the action property `RefusalIsTrue` |
| | `LaddersNeedTime` | `LadderNeedsTime`, if no failure is "cloudflare" and disable-cooling is not switched |
| | `SchedulerFollowsRecord` | `SchedulerAgrees`, if one goroutine runs the operations |
| `AuthSchedulerProofs` | `PicksAreBest` | `PickIsBest` |
| | `SchedulerTypeCorrect` | `SchedulerTypeOK` |
| | `CopyLadderNeedsTime` | `LadderNeedsTimeAlone`, of `MCSpec`, what the run checks |
| | `CopySchedulerAgrees` | `SchedulerAgreesAlone`, of `MCSpec`, what the run checks |
| `TokenRefreshProofs` | `NoRefreshReplays` | `NoTokenReplayed` |
| | `RefreshLoopDoesNotSpin` | `NoSpin` |
| | `NothingIsForgotten` | `NothingForgotten` |
| | `RefreshTypeCorrect` | `RefreshTypeOK` |
| `WatcherProofs` | `WatcherTypeCorrect` | `WatcherTypeOK` |
| | `LastCommitWins` | `LastCommitIsApplied` |
| | `FeedKeepsOrder` | `WatcherSpec => Feed!FeedSafety`, the safety half of `FeedIsLatestWins` |
| | `HotReloadSettles` | `HotReloadConverges` |
| `ServicesProofs` | `PermitsAreBalanced` | `PermitsBalance` |
| | `AttemptsAreRecordedOnce` | `AttemptIsRecordedOnce` |
| | `NobodyIsLeftWaiting` | `NoCallerIsStranded` |
| | `TruncatedAnswersAreReported` | `TruncationIsReported` |
| | `UsageIsCountedOnce` | `RecordIsInOnePlace` |
| | `SubscriberFeedsAreClosedOnce` | `FeedsAreClosedOnce` |
| | `SessionGroupsAreWhole` | `GroupsAreWhole` |
| | `RemovedAccountsHaveNoSessions` | `RemovedHasNoSessions` |

### Assumptions

Each module's `ASSUME` states what its theorems need, and TLC evaluates it in every run. They say that
bounds, limits and durations are natural numbers (positive where the code's defaults are), that markers
such as "none", `NoModel` or `NoKey` are not members of the sets they are added to, that the names of
operations and failures are the ones the model knows, and:

- `ConstantsAssumption`, `CooldownAssumption`, `PathAssumption`, `RefreshAssumption`: the sets that are
  counted or iterated are finite (groups, models, requests, credentials and goroutines);
- `ConstantsAssumption`: a caller of `Drain` is not one of `Close`; `RefreshAssumption`: a worker of
  the loop is not a request;
- `HomeAssumption`: the flusher's bound on sequences admits the sequence of every dispatch;
- `CooldownAssumption`: the first backoff does not exceed the largest, as with the code's constants
  (1 second and 30 minutes);
- `SchedulerAssumption`: credential IDs are positive numbers in the order of the IDs, finitely many; no
  provider is twice on the route; a block for a cooldown has a time and one for a disabled credential
  has none, which is what `isAuthBlockedForModel` returns;
- `WatcherAssumption`: a credential has one source (the names of files, sessions and API keys
  are different), the first configuration lists keys that exist, and the marker for "nothing" is neither a content, a version nor a
  configuration;
- `CopyAssumption`: the marker of an auth-level result is none of the two models or the goroutine that `MCAuthScheduler`
  gives the record. From it, `CooldownAssumption` is proved for that instance.

The bounds that TLC needs (`MaxTime`, `MaxDispatch`, `MaxCalls`...) are parameters of the theorems
like the others, so they hold for bounds as large as one likes.

### Inductive invariants

Hardly any of the properties is inductive. For each component there is an invariant that is; TLC
checks the property itself on the run's instance.

**Registry** (`IInv`):

- `TypeOK`;
- `Tokens`: the maps agree with where each owner stands, and a call that holds the mutex between
  its two steps still sees what it tested;
- `Resources`: a resource is closed or open as its owner's position says. This gives
  `ReleasedResourceIsClosed`;
- `Drained`: after a successful `Drain` the registry is empty, closed, and no `BeginDispatch` is
  between its two steps. The last conjunct is the reason it stays empty: `Drain` does its final
  check under the mutex;
- `Closing`: from the moment `Close` took its snapshot, every open resource is one it
  has still to visit or is waiting for, and no `Bind` is under way that has tested the state before the swap. This gives
  `CloseLeavesNoOpenResource`;
- `NoReleaseIsLost` and `ReleaseSequenceCounts`, inductive together with the above;
- `Barriers`: a barrier that has been published was observed when all tokens up to its mark were
  resolved, and a resolved token stays resolved.

**Flusher** (`FlusherInv`): its three properties, which need each other, and `Sending`: what `flush`
still has to send was marked, and what has been answered is held by Home. These are facts about the
frames that `flush` holds while it works without the mutex.

**Composition** (`HomeInv`): a step of the composition is a step of the registry, and a step of the flusher or
none, so `IInv` and `FlusherInv` carry over by citing `IInvStep` and the instantiated lemmas of
the flusher. What is added: `Admissions` (Home counted the dispatches it granted; a grant that no scope
took has fenced the client or was not read), `Reports` (the flusher's marks follow the registry's sequences; the sink is
in place before the first dispatch) and `Stopping`. The limit then follows from counting:
those who use a group were granted and are not released, Home frees at most what was released, and
it admits below the limit only.

**Cooldowns** (`CoolInv`): what makes the interleavings tractable is that the steps a caller still owes are one of
28 lists (`Plans`), closed under "take the first step" and never replaced otherwise. The rest
of the invariant speaks of what a list holds:

- `Holding`: `configCooldownMu` is held by the caller whose list still has the `unlock` and no `lock`;
- `Saving`: the file is up to date, or somebody is still to take the records, or is about to write
  records that are in force; because records are taken and written under the mutex, a writer with stale
  records is always followed by a caller that has still to take them. This gives `SavedIsCurrent`;
- `DatedAuth`: every cooldown that blocks has a deadline; `ColdWhenOff`: none blocks while cooling is
  off, but for a caller that is about to clear them;
- `SnapsDated`, `Storing`: the copies that callers carry, to the scheduler or back to the manager, have deadlines too, and
  what is to be stored is a record;
- `Unlisted`, `Unrouted`: unless exposed, a credential that is gone has its models unlisted or nobody
  carries a copy of it, and the scheduler forgets it after the manager does. This gives `RemovedIsNotOffered`;
- `PickSees`: a pick that no operation overlapped has the manager's record at its second
  attempt, which is what `RefusalIsTrue` needs. `RefusalsAreTrue` is an action property: it follows from the invariant
  and one step.

Two properties hold under a restriction, and each has an invariant of its own on top of `CoolInv`:

- `Climbing`: the rung of a model, in the record, in a copy, in the file and in the hands of a caller that restores it, is at
  most the time, and below it when the model's window is over. The second half is what lets the next failure climb.
  A Cloudflare answer climbs at every failure (`nextCloudflareCooldown` does not look at the window), and a
  failure recorded while disable-cooling is on closes the window without lowering the rung; so neither is among
  the operations of this theorem. Saved records of one process life are covered, restarts too;
- `Following`: what a caller is about to hand to the scheduler is the record, and unless it is still to hand something
  over, the scheduler's copy is alike (the same states, and the same auth-level fields where these decide). With two
  callers this is false: a slow `upsert` can overwrite a newer copy, until the next one.

`MCAuthScheduler` instantiates the module that holds these proofs, so that `CopyLadderNeedsTime` and
`CopySchedulerAgrees` follow by citing the lemmas of the instance (`Copy!CoolAlways`, `Copy!ClimbAlways`,
`Copy!FollowAlways`).

A step of one caller is summarised by what it may do to each part (`Moves`, `LockMove`, `DiskMove`
and so on) in one lemma per action; that these preserve the invariant is proved once.

**Scheduler** (`SchedInv`): a shard is not built, or (`Kept`)

- it holds exactly the known credentials of its provider that support its model;
- each is filed as a look at it now would file it, or is *overdue*: filed for a time that has come, so that the
  promotion of the next request files it anew (`EnsuredIsCurrent`). This disjunct is what makes the
  invariant survive the clock;
- its views list, per priority, exactly the ready credentials and the ready websocket credentials
  (`Indexed`), with a cursor inside the view and credits of listed credentials only.

`upsertEntryLocked` skips the rebuild when nothing it looks at changed; `UpsertKeeps` is the proof that it looks at
enough. From an up-to-date shard, `PickReadyAnswers` and `PickMixedAnswers` derive that the highest nonempty
tier holds the best credentials and that each strategy picks from it; `SegmentIsFilled` shows that the
slot of a mixed pick falls into the segment of a provider that has something to offer, `SegmentsFit` that the
segments are no longer than all credentials together.

**Refresh** (`RefreshInv`): `Locking` (the lock of a credential is held by whoever refreshes it),
`Tokens` (unless spoiled, the credential and the copy that is being refreshed have the last
token issued; while a grant waits to be stored only the copy has it), `Marks` (a
credential is not due at the time of its last mark, is filed for a later time, and is taken up at a
later time). For `NothingForgotten` there is `WatchInv` above it: `AllFollowed` (every credential that is to be
checked is filed in time, or marked to be rescheduled, or in the loop's round, or in the hands of a worker or a caller
that will still tell the loop), `Woken` (a mark to reschedule has a wake-up, a queue has a timer) and `Resting` (who is
idle holds nothing). Which of the disjuncts of `Followed` holds changes with almost every step; a monotonicity
lemma per place shows that none is left without another one taking over.

**Watcher**: for `LastCommitIsApplied`, `Numbered` (a waiting apply has the newest number only if
it has the served configuration) and `InHand` (the served configuration is applied or its reload is still
to apply it). For the refinement, the mapping itself (`Waiting`: the update queue, then the dispatch loop's
batch, then `pendingUpdates`) and the type invariant, with
one step per action: each is a `Send`, a `Show` or a stutter of `LatestWins`. For `HotReloadConverges`,
`SettleInv`: as long as no two producers overlapped (`~mixed`), one producer works at a time (`Alone`); what the
manager has or will have of a credential once the updates under way are applied (`Owed`) is what the
watcher's own books say (`AuthsSettle`, `SessionsSettle`, `KeysSettle`); and a file whose content the books do not
show has an event waiting or is in the hands of the handler or of a rescan (`FilesDue`, `FilesSettle`).

**Requests** (`PathInv`): `Recording` (a result is owed exactly while a request is at its answer, its preparation has failed or its
stream runs) and `Permits` (a permit is held by the request while it executes, then by its relay, and comes from a
limiter that exists); the count of permits is a cardinality, so each action has a step that shows
which set gained or lost a member.

**Relay**: `Relaying` (a caller that stored its request has it in the map until its channel is closed;
one that waits found the session open after it stored, so cleanup knows it) and, for truncation, `Answered`: until
the channel tells its end, the chunks received, in the channel and in the reader's hand are those the provider sent, and
whoever is about to close the channel has told the end.

**Usage queue**: `Feeds` (a subscription is in the map, taken out by unsubscribe or by the switch,
and only then open) and `Kept` (the places of a record are disjoint and add up to one).

**Sessions**: `RemovedHasNoSessions` is inductive as it stands; `GroupsAreWhole` needs the types
of entries and pickers, and that merging and compacting aliases yields identifiers
only from the given ones.

Some operators are written so that they can be reasoned about: filtering a sequence by rank (`Filtered`,
`Queued`) and not by `SelectSeq`, whose recursive definition the provers cannot use; sorting by rank
(`Sorted`: the i-th is the one with i - 1 before it); a sum of natural numbers as the cardinality of
a disjoint union (`Total`); maxima and minima by `CHOOSE`. The layout is the same throughout: lemmas about the operators, frame lemmas
(a step that leaves a group of variables alone preserves what is said of it), one lemma per action or
per part of the invariant, and the theorems by `PTL`. The obligations are discharged by the SMT
backend, Zenon and LS4.

### Only model-checked

- Liveness, which is outside the prover's reach: `DrainReturns`, `WaitPendingReturns`, `CloseReturns`,
  `TicketsClose`, and `Delivered`, the other half of `FeedIsLatestWins`.
- `FairShare` of `AuthScheduler`. For all constants it is not a theorem: always picking the richest
  keeps each of up to four competitors within one pick of its share in every case tried, and not five (weights 39, 1,
  3, 1, 39: after 47 picks the last is more than one pick behind). For the number of competitors of the run it rests on the
  credits adding up to zero, a sum of integers over an arbitrary set, which needs induction over data.
- The restricted theorems of the cooldowns (see the table) say nothing of the cases they leave out. The first finding
  is one of them; the others are described with `Climbing` and `Following` above.

## 5. Plan

In this order:

1. *Prove more.* A bound on the lead and the lag of weighted picks that holds for any number of competitors, once
   sums of integers can be reasoned about; `SchedulerAgrees` for overlapping operations, once the code orders its
   upserts.
2. *Abstract specifications.* A set of free slots at Home, implemented by `HomeRelease`; a file that
   is a function of the record, implemented by `CredentialCooldown` when at rest.
3. *Model more.* The model registry's marks, composed with `CredentialCooldown`; the refresh's copy of
   a record composed with the results recorded while it is away.
