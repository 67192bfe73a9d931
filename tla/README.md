# Verification of the KIS Stream Deck plugin

TLA+ modules, TLC configurations and TLAPS proofs for the plugin in this repository, which shows
Korean and US stock prices on Stream Deck buttons. Paths below are relative to `src/src/` unless
they say otherwise. The code is the reference: where a document or a test says something else,
the difference is a run, or a configuration, that ends in a violation (section 6).

## 1. The system

One Node process, single threaded. Concurrency is that of the event loop: a handler runs to its
next `await` without interruption, and timers, socket events, settled promises and calls of the
host come in between. **An action of a module is one such turn.**

```
 Stream Deck host ── action wrappers ── stock action controllers ── render scheduler ── button
        │                                   │            │
   global settings                     subscription     REST coordinator
        │                              supervisor            │
 settings repository ── plugin runtime ── connection         │
        │                (identity)       supervisor         │
        └──── credential session ─────── approval key / access token
```

| Component | State | Operations | Talks to |
|---|---|---|---|
| `kis/connection-supervisor.ts` | connection state, demand count, credential identity, approval key, attempt, socket, 6 timers, backoff | retain, release, applyCredentialIdentity, forceReconnect, refreshApprovalKey, send, destroy | credential session (approval key), the socket, subscription supervisor (state and message listeners) |
| `kis/subscription-supervisor.ts` | entries per physical key, references, control queue and job, rotation lease, control timers | subscribe, release, retargetAll, destroy | connection (retain/release, send, forceReconnect), observers of the controllers |
| `kis/rest-coordinator.ts` | flights and their waiters, transport gate, start times, cache | requestQuote, abort | credential session (authorization), HTTP |
| `kis/credential-session.ts` | token and approval flights, reconciliation; credentials and token live in the global settings | save, clear, reconcile, getAccessToken, getApprovalKey, prepareRestAuthorization, invalidate | settings repository, HTTP |
| `settings/settings-repository.ts` | copy of the settings, status, queue of updates, listeners | initialize, update, getSnapshot, subscribe | the host's settings store |
| `renderer/render-scheduler.ts` | target per button: slots, window, timer, operation, last picture; lanes | activate, updateInterval, submit, remove, destroy | controllers (render, commit), the button |
| `actions/stock-action-controller.ts` | session per button: epochs, policy, quote, five timers | appear, settings, disappear, manual refresh, global settings, destroy | all of the above |
| `actions/stock-action-wrapper-runtime.ts` | epoch per action, queued persistence, markers of own writes | host events | host, controllers |
| `runtime/plugin-runtime.ts`, `plugin.ts` | identity tuple and epoch, order of start and destruction | initialize, refresh, destroy | all |
| `pi/pi-controller.ts`, `pi/protocol.ts` | visible contexts with appearances and generation, snapshot epoch and sequence, tail of commands, diagnostics interval | appearances, inspector commands, diagnostics pushes, destroy | settings, credentials, connection |
| `ui/stock-pi-shared.js` (the repository's top-level `ui/`) | the form, the revision and epoch it knows, retired epochs, pending requests | connect, snapshot, answer, edit, save | inspector controller, by messages |
| `core/market-clock.ts`, `utils/timezone.ts` | – (pure) | session at an instant, next boundary | controllers |
| `settings/schema.ts`, `markets/`, parsers, `renderer/stock-card.ts` | – (pure) | normalization, parsing, layout | – |
| `core/diagnostics-store.ts`, `core/errors.ts`, loggers | ring of events | record | – |
| `kis/websocket-manager.ts`, `rest-price.ts`, `auth.ts`, `settings-store.ts` | earlier implementation | – | imported by nothing that runs |
| rest of `ui/`, `scripts/` | markup and wording of the pages, build tooling | – | – |

What is hard here: promises settled after the world they were made for has gone (identity,
appearance, socket); handlers that call back into each other in one turn; a control protocol
without correlation ids over a socket that may die half-open; limits (41 subscriptions, 4
transports, 10 starts per second, 100 ms between frames, 8 markers) whose accounting must survive
aborts; retries and backoff; settings writes that fail half-way. `PROJECT.json` lists the hazards
at their lines, each with the properties that cover it, or the reason why none does yet.

### What makes each component correct

- **Connection**: a wanted connection is never without something that moves it and comes back once
  faults cease; an unwanted one keeps nothing; no key or socket outlives its identity; a dead peer
  is noticed; destroy is final.
- **Subscriptions**: demand and handles are conserved on every path; the supervisor and the server
  agree on what is subscribed; no job, wait, place or rotation mark is left that nobody will
  resolve.
- **REST**: limits hold and are given back exactly once; no caller waits at the gate for ever; one
  flight per key.
- **Credentials**: nothing crosses from one pair of credentials to another; a token is discarded
  only on its own account; nobody waits for nothing.
- **Settings**: updates are serial and all-or-nothing; the copy in memory is true while it says so.
- **Rendering**: the button ends with the latest view, pictures never land out of order, and the
  update interval is kept.
- **Controllers**: a REST answer is shown only to the policy that asked for it and never over newer
  data; timers, requests and subscriptions are exactly those of the policy in force; a button in an
  open market is fed or about to be; what it says of the connection is true.
- **Wrappers**: a button whose settings could be read ends with those the host keeps, and the plugin's own writes of
  migrated settings do not set off further writes.
- **Inspector**: nothing is written over settings the form has not seen; nothing typed is lost; the
  save button comes back on every page the process was told of; only the open inspector is served.
- **Clock**: a session lasts until the announced transition and no longer, across weekends, days
  that change the clock, and a machine that sleeps.

## 2. Modules

| Module | Models | How |
|---|---|---|
| `ConnectionSupervisor` | connection supervisor | one variable per group of fields; timers are a set of names; sockets and approval requests are numbered or kept with the epoch they were made in |
| `ConnectionSupervisorProofs` | – | inductive invariant, the safety invariants, and when delays are reset |
| `SubscriptionSupervisor` | subscription supervisor with the connection below it and the KIS server | the state is one record; each method is a function from records to records, because a handler calls others (and itself) in the same turn |
| `SubscriptionSupervisorProofs` | – | inductive invariant through every nested call, what the entries say, waits and marks |
| `RenderScheduler` | render scheduler, one button | target states per appearance, lanes, ages instead of clocks |
| `LatestDisplay` | what a button promises | abstract; `RenderScheduler` implements it (`LatestWins`) |
| `RenderSchedulerProofs` | – | inductive invariant, types, the refinement, no request left behind, a button at rest shows its last request |
| `RestCoordinator` | REST coordinator | flights in phases, one per `await` of `execute` |
| `RestCoordinatorProofs` | – | inductive invariant, the limits, the way through the gate, one flight per key |
| `GlobalSettings` | what the rest of the program sees of the settings, and what is promised of them | parameters and visible state of `SettingsRepository`, in a module of their own so that its proofs can stand beside those of the session built on it |
| `SettingsRepository` | settings repository and the host's store | phases of an update, one per `await` |
| `SerialSettings` | what the settings promise their writers | abstract; `SettingsRepository` implements it (`UpdatesSerial`), `CredentialSession` is built on it |
| `CredentialSession` | credential session and its callers | requesters and flights in phases, one per `await` |
| `CredentialSessionProofs` | – | inductive invariant, isolation of credentials, tokens discarded on their own account, no wait forgotten; and of `SettingsRepository` its invariants and the refinement |
| `StockActionController` | one button's controller, with the clock, the subscription and the REST coordinator it calls | sessions, policies and requests carry flags for "still the present one" |
| `StockActionControllerProofs` | – | inductive invariant and the six invariants of the run; and of `MarketClock` the conversion of boundaries, its inductive invariant and both properties |
| `StockActionWrapper` | the wrapper of one key, with the user and the host | events and writes on their way are sequences |
| `StockActionWrapperProofs` | – | the account of writes and events, that writes end, and that a key at rest shows what is stored |
| `MarketSessions` | the sessions of a market by time, and what the clock promises of them | a calendar of local days and times, with an offset that changes once |
| `MarketClock` | the clock that both controllers share, with its two timers | extends `MarketSessions`, which stands alone so that its proofs can stand beside those of the controller |
| `StockPropertyInspector` | the page: form, revision, epochs, pending requests | operators on a record, the page |
| `PiController` | the inspector's side of the plugin, composed with the page, the settings and two directions of messages | extends `StockPropertyInspector` |
| `PiControllerProofs` | – | inductive invariant and the five properties of the run |
| `MC*` | – | constants of the instances TLC checks |

Constants are parameters with named assumptions; bounds on what the environment may do (`Max...`)
are constants too and appear as guards of the actions they bound. Definitions named *Mutant* in
their comment are not used by the specifications: each is a definition of the code with a
plausible slip (a missing guard, a reset left out, a comparison dropped), and each property is
violated when its mutant takes the place of the definition it mutates.

### Correspondence

**ConnectionSupervisor.** `state`, `retain`, `approval`, `backoff`, `awaitingPong`, `confirmed` are
the fields `currentState`, `retainCount`, `approval`, `reconnectAttempts`, `awaitingHeartbeat`,
`hasConfirmedLiveness`. `request` is the approval request that callers join and `abandoned` those
of earlier request epochs that still run. `attempt` says what the coroutine of the attempt waits
for. Publishing a state calls the subscription supervisor in the same turn, which may release
demand or find a send failing: the actions take those as parameters (`drop`, `throws`). The host's
timer functions and socket constructor may fail only where the code has a path that matters to the
state (`throws` in `CreateSocket`).

**SubscriptionSupervisor.** `entry[k]` is the entry of the map for key `k`; a reference that the
code still holds to an entry outside the map is marked `alive = FALSE` or `Gone`. `sendTimer` holds
the job that waits for the 100 ms spacing, which is in neither the queue nor `currentJob`.
`registered` and `seen` are the server's side. The connection is reduced to the states it
publishes; `ConnectionSupervisor` is what justifies them (open only out of connecting, no
connection without demand). Four methods reach themselves again
through others in one turn (`pump`, `advanceRotation`, `deleteEntry`, `completeRetarget`); these calls
go through `turn`, a parameter of every operator on the way, which says what a call nested one
deeper does. `Turns[d]` is what a method does when calls may nest `d` deep, `Turn` allows `MaxDepth`,
and a call that would go deeper leaves the state alone and stops TLC with an `Assert`. The socket of an
open connection may be OPEN or not (`socket`): a connection may publish "open" before its socket is,
and a socket may be closing before its close event is heard (`SocketBreaks`). A send on a socket that
is not OPEN fails and the connection stays open (`sendRaw`), so that the job waits in the queue for the
retry timer of 100 ms and is tried again; one that throws gives the connection up in the same turn, and
its job is requeued after that (`NotSent`). `QueueServed` is about both: without the timer
(`NotSentUntimed`) the queue stays full on an open connection.

**RestCoordinator.** `holds` is the transport a flight has; `startTimes` and `age` the sliding
window in ticks; `fetched` is history: the requests really sent, which is what the provider counts.

**SettingsRepository.** `store` is what the host has; reads and writes take effect or fail, and a
write that fails has stored nothing (assumption on the host: its promise rejects only then).

**CredentialSession.** Credentials are values and fingerprints name them. `settings`/`memory` are
the stored settings and the copy `getSnapshot()` returns, which lag behind each other exactly as
`SerialSettings` and `SnapshotTrue` allow. Whether a token has five minutes left is open each time
it is looked at. `issuedFor` is history.

**RenderScheduler.** A request is its category, its semantic key and its number; `shown` is the
device. `waited` and `timer` are ages up to the longest interval.

**StockActionController.** The generation, revision and epoch numbers that the code captures before
an `await` and compares after it become flags (`live`, `fresh`) that are cleared when the number
moves on; `lapsed`, `opened`, `reentered` and `unheard` are history. `unheard` says that a policy moved
on within a handler since the button's policy was last set up, which is as long as timers may be armed
for a policy that is over: `TimersRun` is promised again from the next set-up on. Asking the clock for its snapshot may call
its listeners, this button among them, in the same turn, and the actions that ask have that branch.
The world the controller calls is reduced to what it promises: a subscription has a state and
frames, a REST request is answered, fails or is aborted. A request that was aborted and also belongs
to a past policy is forgotten, since both checks refuse its answer. Between the return of
`ensureReady` and `createSession` only a microtask boundary lies, and nothing is put there
(`stock-action-controller.test.ts` tests the same). Wording and colours of stale, error and recovery
views are left out, as is the overlay shown while a manual refresh is under way.

**StockActionWrapper.** Settings are raw or migrated; `Migrate` is a constant function. `events` and
`toHost` are the two directions of the host's socket. The writes of a key are serialized on
`persistenceTail`, so at most one marker is kept and `MAX_INTERNAL_WRITE_MARKERS` (8) is never
reached. Settings may be unreadable (`Migrate` maps them to none): they are given up, and when they
came with an appearance the controller is never told of the key and drops all its later settings
(`Record`, `updateSettings` of the controller), so that such a key stays as it is until it appears
again. `ShowsStored` excepts those keys (`appeared`), and two races which the wrapper cannot see, by
history variables: a write that was on its way when the user stored something else, and a change by
the user back to the very value being written.

**MarketSessions, MarketClock.** Instants are tens of minutes of UTC; local time (`Local`, for
`Intl`'s zones), the weekday, `localBoundaryToEpoch` and the boundaries around a moment are the
operators of `market-clock.ts`, and a zone's offset changes at most once. The clock evaluates when
either timer fires and when a reader asks; re-entrant evaluation (`evaluationQueued`) and
`timerGeneration` are not modelled. `isOverseasDayTradingAt` is the controller's, and appears there
as the Korean daytime descriptor.

**StockPropertyInspector, PiController.** The page is external to the plugin's process and is
restarted with it or without it; messages between them and the host are delivered in order. One
inspector is open at a time. A delivery that commutes with everything is one step with its sending.
What the host reports of pages does not depend on what the process has heard. `Reload` shows the new
page before it reports the old one gone, whether this process was told of that one or only the
process before (`leaving`); after `Restart` the page shown is reported again, late or never (`Report`);
and when a page goes that this process was never told of, the context of the page that replaced it
goes too (`shown = "lost"`, `pi-controller.ts:425`). `SafeSend` sends nothing before an appearance was
reported to this process (`UiShown`, `plugin.ts:21`). A step of a command that touches the settings may
fail, adopt what is stored or write (`StoreStep`, `ReconcileStep`), and credentials may be rejected.
All the commands are modelled; the instance sends one of each kind of handling (settings,
credentials, retry, read), since the others differ only in the steps they share with these. Twelve retired epochs are never exceeded in the instance. Known
limits, each of them the code's: controls edited before the first snapshot are saved over settings
that were never written (revision 0), which `SeenBeforeOverwritten` excepts; when remote
preferences differ from a dirty form, every retry conflicts again until the form is reverted
(`pi-ui.test.ts:3312`, `:3460` want it so); a command sent before `didAppear` is dropped when the
appearance arrives in between. After a restart the page's commands run but are not answered
until the host reports it, and a page whose context was taken by the late end of another has its
commands dropped; `SaveIsAnswered` leaves out both (section 6).

## 3. Runs

| Run | Instance | States | Shows |
|---|---|---|---|
| `connection` | demand ≤ 2, 2 identity epochs, 2 credential generations, a backoff table of 3 delays, 5 disturbances | 168 thousand | safety, `BackoffEarned`, `StoppedForGood`; liveness `Recovers`, `HalfOpenDetected` |
| `subscriptions` | an overseas key and its successor, 1 live place, 2 handles, 8 disturbances | 106 thousand | book-keeping: `EntriesTrue`, `NothingWaitsInVain`; liveness `QueueServed` |
| `rotation` | 3 unrelated keys, 1 live place, 3 handles, 7 disturbances | 294 thousand | parking, promotion, lease; agreement with the server |
| `render` | 2 appearances, 3 requests, 3 keys of 2 pictures, intervals 1 and 2 | 844 thousand | `ShowsLatest`, `EverythingTakenUp`; implements `LatestDisplay` (`LatestWins`) |
| `rest` | 3 flights of 2 keys (one of a closed market), 1 transport, 2 starts per window of 2 ticks, cache of 1, 2 ranks, 2 callers per flight | 839 thousand | `LimitsKept` (transports, starts, cache), `GateDriven`, `SingleFlight` |
| `settings` | 3 retries, 3 changes, 3 queued updates (one throws), a store that needs migration or not | 132 thousand | `SnapshotTrue`; implements `SerialSettings` (`UpdatesSerial`) |
| `credentials` | 2 pairs of credentials, 2 requesters, 2 changes, 2 tokens, 2 flights; the settings to start from are all combinations of key, fingerprint and token, known or not | 1.7 million | `CredentialsIsolated`, `OwnTokenDiscarded`, `NobodyForgotten` |
| `controller` | one button of an overseas stock, 1 disappearance with a new appearance, 1 change of generation, all sessions and subscription states | 300 thousand | `NoStaleAnswer`, `NothingLeftBehind`, `SubscribedByPolicy`, `NeverBlind`, `TimersRun`, `ConnectionShown` |
| `clock` | Seoul and New York, from Friday to Tuesday in units of 10 minutes, three weekends (Seoul's, and New York's of spring and autumn), resynchronization every 2 units, a machine that sleeps | 172 thousand | `SessionsLast`, `AtPresent` |
| `inspector` | 3 symmetric preferences, commands `preferences/save`, `credentials/save`, `auth/retry`, `diagnostics/request`, 3 turns, 2 disturbances (open or reload, restart, failing read or write, remote change, repair) | 3.2 million | `SaveIsAnswered`, `ConflictExplained`, `SeenBeforeOverwritten`, `TypedIsKept`, `OnlyForOpenInspector` |
| `wrapper` | two settings, each raw and migrated, and one that cannot be read; 5 events of the user | 2.5 million | `ShowsStored`, `NoWriteLoop` |
| `dead_tick` | the instance of `controller` without a change of generation | about 380 | expects a violation, section 6 |

The runs of `SubscriptionSupervisor` let calls nest 4 deep, and none goes deeper, or the `Assert` in
`TooDeep` would stop TLC. `subscriptions` checks `EntriesTrue` (demand, handles, registration),
`NothingWaitsInVain` (every mark of a job has one, every retarget that waits is woken) and
`QueueServed`; `rotation` checks `KnownToServer`, `FreePlacesTaken` and `RotationMarks`.

Why the bounds suffice: the interesting cases need two of something – two identities for a late
answer, two sockets for a stale liveness, two appearances for a late commit, two flights at one
gate or of one key – and one more than the limit: a second key for one live place, a third flight
for two starts, a second entry for a cache of one, the last retry and one after it. A disturbance
is a call or a fault; five suffice for lose, recover, change identity, lose again, destroy; eight for two
subscriptions, a retarget that merges, a release and a return, a socket that breaks, a timeout and a
loss. The state of the subscriptions is finite without that bound (`MaxDisturbances = 0`),
and since a job might be postponed for ever by ever new calls, `MCSubscriptionsUnbounded.cfg` checks
the same three properties without it (217 thousand states; it is to be run by hand, and holds).
One re-appearance is the least for an answer of a past session; a page's edit, a remote change and a retry are the three
turns of a conflict, and a restart between them is the second disturbance; five events of the user
are enough for an appearance, two changes around a write, a disappearance and a return. The calendar
has every weekday boundary, both changes of daylight saving, and ten minutes divide every session
boundary of the code. Deadlock checking is off
where the environment may cease to call and the program then really rests.

### Fairness

- Connection: armed timers fire; a running approval request settles (its HTTP call has a 10 s
  limit, `AUTH_ATTEMPT_TIMEOUT_MS`) and is granted when asked again and again; a server that is
  there accepts sockets sometime. The disturbances that are bounded are those no code could be
  live against (a peer that always fails). `Release` and other calls have no fairness.
- Subscriptions: the spacing timer does not stay armed for ever, nor does the retry timer over a
  socket that is OPEN (over another it fires and is armed again), a frame is answered or times out,
  and a socket that is not OPEN becomes so or its close is heard. All are stated as `[]<>` of what
  timers and environment must leave, which is weaker than fairness of each action and keeps the
  liveness check small.
- The other modules check safety, action properties and refinement of safety specifications only,
  and have no fairness. What must come about there is stated as what is armed or under way in every
  state (`NeverBlind`, `TimersRun`, `SaveIsAnswered`, `ShowsStored` once at rest), which assumes
  nothing of schedules.

## 4. What is proved

TLAPS proves these for every value of the constants; TLC checks the same formulas in the runs.

**`ConnectionSupervisorProofs`.** `Inv` is `TypeOK`, the state invariants of the run, `WaitersServed`
and `PingIsWatched` (a promise of `retain` waits only while a connection is being made; the flag
that stops the pings is set only under its timeout), and `Bookkeeping`, the part that is not a promise to anyone but without which the rest is not
inductive: a running approval request is of the present identity and ends with `destroy()`, an
attempt that waits for its key has no socket yet, the timers of a socket do not outlive it.
`InvStep` has one lemma per group of actions, and under it the composed handlers
(`GiveUp`, `ScheduleReconnect`, `CreateSocket`, `BeginConnect`, `Recover`) each have a lemma of
their own, since several actions end in them. Theorems: `Invariance`, `TypesKept`,
`WantedIsDriven` (`[]NeverStranded`), `NothingIdleRuns` (`[]NoWorkUnwanted`), `OneWay`
(`[]OneWayForward`), `IdentityIsolated` (`[]CurrentIdentityOnly`), `WaitsAreBounded`, and two action
properties: `NothingAfterDestroy` (`StoppedForGood`, which needs the invariant only for the types)
and `BackoffIsEarned` (`BackoffEarned`). The last needs `HeardOfOwn`: what an open connection
remembers as a confirmation was heard from the socket it has. Every step but those that hear of a
socket or find it old enough is `Quiet`: it does not shorten the delays, and a connection it opens is
unconfirmed. The proofs use the assumptions on the constants and no bound on them; fairness is not
used.

**`SubscriptionSupervisorProofs`.** The invariant is `Sane`: the state is `Good`, no job is inside
`sendJob`, and no entry is `Stranded` (waits for an entry nobody removes), `Orphaned` (set aside for a
rotation that is over), `Unregistered` (taken to be subscribed when the server does not push it) or
`Jobless` (marked for a job that is not queued). `Good` is what holds even inside a turn, and it has
more than the properties: a job that is alive is on an entry of the map, only an entry without handles
is being removed, what is subscribed is in a state of the wire, an entry whose job has outlived it
is not subscribed, an accepted subscribe is
registered, the first of a pair is marked with the second or not at all. In the middle of a turn
entries may be stranded or orphaned, so a method cannot be asked to establish `Sane`; it is asked for
`Keeps(s, r)`: from a good state it makes a good one, and it adds nobody to those four. `Keeps` also says what becomes of a retarget (`Progress`): one that is pending
stays so or is over for good, which is what a merge needs after deleting its target, since the deletion
may have completed the same retarget already. `Keeps` is
reflexive and transitive, so that methods compose. Every method has a lemma: it keeps the state if the
calls nested in it do (`Turning(turn)`). `Turns[0]` changes nothing and keeps it trivially;
if calls nested `d` deep keep it, so do calls one deeper; the induction is over the depth, and is
written with a least counterexample, since the library's induction theorems cannot be instantiated.
Functions that are defined by recursion over their arguments (`Each`, `Turns`) are shown to be what
they say by the same means, and the sum in `HandlesAttached` to change by what one entry changes.
Theorems: `AlwaysSane`, `TypesKept`, `EntriesStayTrue` (`[]EntriesTrue`), `NobodyWaitsInVain`
(`[]NothingWaitsInVain`), `MarksHavePairs` (`[]RotationMarks`). Used of the constants: keys are
finite in number, and each has one partner at most (a ticker has a day form and a night form). The
theorems are for any `MaxDepth`, any `MaxLive` and any bound on calls and faults or none. In an
instance whose calls would nest deeper than its `MaxDepth` they speak of the model, in which
such a call does nothing; that 4 is enough for the instances of the runs is what TLC shows.

**`RestCoordinatorProofs`.** `Inv` says of each flight when it holds a transport and when it may be
abandoned, of all flights that they are numbered in the order they were made, that the count of
transports is the number of flights that hold one, that a key names a flight exactly as long as the
flight has callers, that what was sent has its entry among the start times, and that whoever waits
at the gate is kept there by something that will end. The argument for the limits: `Pump` lets
flights through by their place in the line of those that wait; two of them have different places
(`OneLine`, `PlaceGrows`), so no more pass than there are free transports and free starts
(`ThroughBounds`, a pigeonhole), and the count and the window stay within their limits (`LetGood`,
`PumpGood`). `PutGood` is the frame: what a change to a single flight must respect for the rest to
stay true; each action has a lemma that ends in it. Theorems: `Invariance`, `TypesKept`,
`WithinLimits` (`[]LimitsKept`), `NobodyStuckAtGate` (`[]GateDriven`), `OneFlightPerKey`
(`[]SingleFlight`). Assumed of the constants: there is a key, and at least one transport, one start,
one caller and one unit of window.

**`StockActionWrapperProofs`.** `NoWriteLoop` alone is not inductive. `Account` relates the calls
under way that may end in a write, the writes that wait or are on their way, and those begun, to the
events of the user the wrapper has heard: each of the former was paid for by one of the latter, an
echo pays for nothing. Theorems: `Accounted` and `WritesEnd` (`[]NoWriteLoop`). `ShowsStored` speaks
of keys at rest only; `ShownInv` says what makes it come true. Every event and every write on its way
is dated by the change of the user it goes back to (a history variable); behind an event of an older
change there is one of the latest (`Ahead`), and the settings the wrapper was given are those the
host keeps or the event that tells of them waits (`UpToDate`), keys whose appearance could not be read
and the two excepted races aside. At rest
nothing waits: `ShowsWhatIsStored` (`[]ShowsStored`). The module uses
`MigrateAssumption`: migration maps settings to settings, or to none when they cannot be read, and its results to
themselves.

**`CredentialSessionProofs`.** `Inv` says whose each thing is: the stored token, the copy in memory,
every lease held and every lease in a queued invalidation, and every flight, are dated by a
generation (the credentials of the present generation are the present ones) and a version (the token
of the present version is the present one), and tokens are those issued for the credentials they
carry. `Follows` is what every updater does to the settings, whatever it is: generations and versions
only grow, and grow when credentials or token change; `IsolatedKept` shows that this is all that is
needed for what is dated to stay true. The rest of `Inv` is about the queue of updates: a flight that
waits for the settings has exactly one call there (`Claimed`), a reconciliation one (`OneRepair`),
and each waiting requester something that will wake it (`Told`). Theorems: `Invariance`,
`NothingCrossesOver` (`[]CredentialsIsolated`), `EveryWaitIsKept` (`[]NobodyForgotten`),
`OnlyOwnTokens` (`OwnTokenDiscarded`, an action property). It uses `NoAssumption` (none is neither
credentials nor a requester) and `NumbersAssumption`, and what the module takes from `SerialSettings`.

The last section of the module is about `SettingsRepository`, taken in as an instance `R` over
the parameters and variables of `GlobalSettings`. `RepositoryInv` is `TypeOK`,
`SnapshotTrue` and `BaseLatest` (while an update writes, its base is what the store holds – nobody else
writes). `ImplementsSerial` is `R!Spec => UpdatesSerial`: the initial states map to initial states, a
write that succeeds or an update that changes nothing maps to `Done`, one that fails or throws to
`Failed`, a call to `Call`, everything else to a stutter; `BaseLatest` is what makes the write a `Done`
on the settings the update before it left. Theorems besides: `RepositoryTypesKept`, `SnapshotsTrue`
(`[]SnapshotTrue`). Assumed: updaters map settings to settings or throw (`SettingsAssumption`), and the
bounds are numbers.

**`RenderSchedulerProofs`.** `Inv` has three parts. All that runs for a
button, of any activation, runs on the lane in the map (`OneLane`), so that a lane is cleaned up only
after the last operation of a removed button. Of two commits in the tail one waits for the other
(`Turns`), so that one at a time is put on the device (`OneNext`). And the numbers are in order
(`Numbers`): what superseded targets have in hand is from before this activation, what the present
one has waiting or in hand is of it and newer than what the device took last. `ShowsInOrder` is
`Spec => LatestWins`: a commit whose turn has come maps to `Begin`, one that resolves or fails to
`End`, a submission to `Ask`, an activation or a removal to `Renew`, everything else – and a commit given up when its
turn comes – to a stutter. Two parts stand on this. `NothingIsForgotten` (`[]EverythingTakenUp`):
what waits in a target has an operation or a timer that will take it up, targets out of the map have
nothing waiting, and commits in the tail wait for each other in no circle (`Behind`: what a commit
waits for is in the tail, is not itself, and waits for less), so that there is always one whose turn
it is. `RestShowsLatest` (`[]ShowsLatest`): what a target notes of the button is on the device and
nobody else is about to change it (`TrueNotes`), and the last request waits, is in hand, or is on the
button (`LatestKept`). Assumed of the
constants: an image is never `undefined`, intervals are between 1 and the control interval. The
proofs take activations and requests from any bounds.

**`StockActionControllerProofs`.** `IInv` says of the button that it is `Good`, and `Good` splits what
holds throughout a handler (`Sound`) from what holds only between two: that a feed taken to work does
work, or the backup is on (`Told`), and that the tick runs (`Ticking`). The handlers call each other in the
same turn, so the model's operators take a button to a button, and the lemmas do too: each says what
one operator makes of any button, in one of a few relations between the two (`Further`, `Over`,
`Automatic`, `Moved`, ...), and an action composes them. `Accounted` is the part about requests:
every one is of the present session and of the present policy unless it was aborted, there is one
backup request at most, and what would be taken was not overtaken. `Subscribed`, `Polled`, `Sighted`,
`Recovers`, `Shown` and `Closed` do the same for the subscription, the timers and the view. Theorems:
`InvariantHolds`, `AnswersAreFresh` (`[]NoStaleAnswer`), `NothingIsLeft` (`[]NothingLeftBehind`),
`HeldByPolicy` (`[]SubscribedByPolicy`), `NeverLeftBlind` (`[]NeverBlind`), `TimersGoOn`
(`[]TimersRun`), `ConnectionIsShown` (`[]ConnectionShown`). Assumed: the bounds are numbers.

The module's last part is about `MarketClock` (instance `Clock`), and first about calendars. Clocks
change at a weekend, so a local time of a weekday is well before the change or well after it by
either offset (`Unambiguous`); from there three corrections find the one moment of a boundary
(`Located`), whatever the first guess, and local times of weekdays are in the order of time
(`Order`). Eight days to either side always hold a boundary, so that the two of a snapshot are the
last and the first of all there are, not only of those searched (`SnapshotIs`). The session changes
with every boundary (`ChangesAt`) and nowhere else, over midnight, weekends and the change
(`NextMinute`), hence `SnapshotLasts`; and a snapshot computed at any time before the transition is
the same (`SnapshotStays`). The invariant of the clock (`ClockInv`) says that what was told was
computed at some time (`Computed`), and that while it runs either the transition timer is due by the
transition of the present session, or a jump has come between and the resync timer is due before the
clock has been awake for `Resync` (`Punctual`). Theorems: `SessionsKeepTheirWord`
(`[]SessionsLast`), `ClockIsAtPresent` (`[]AtPresent`). Assumed (`MarketsAssumption`): a schedule is
a finite set of boundaries within a day, no two at one time, each changing the session, the last
closing the day; offsets are numbers, and the hours a change skips or repeats lie within a weekend.
All three markets of the instance are such, and so are the code's: `MARKET_SCHEDULES` alternates,
Seoul's clocks do not change, and New York's change at two on a Sunday morning.

**`PiControllerProofs`.** `Inv` is about three parties that know of each other through messages only.
Of the settings: whoever stands at the revision stored – page, command, message, controller – holds
the preferences stored, and nobody stands at a later one (`Heard`, `News`, `SettingsKnown`). Of the
page: its requests are numbered below the next and remembered with what was submitted (`Requested`,
`IdsBelow`, `Remembered`). Of the inspectors: the appearances counted are those this process was
told of, without the one that the end of an unknown page took away, and a fence that is current was
taken in this visit (`Present`, `Fenced`). Of the commands: what one was
based on (`Based`), how it may fail (`Failing`), what the controls show until a save is carried out
(`SaveShown`), and that the save a page waits for, if this process was told of the page, is
on its way with a current fence (`SaveUnderWay`). A message does one of two things to the page, `Updated` (a snapshot) or
`Taken` (an answer), and the steps of the plugin are proved from these two. Theorems:
`InvariantHolds`, `WaitsForSomething` (`[]SaveIsAnswered`), `ConflictIsShown` (`[]ConflictExplained`),
and the action properties `NothingUnseenIsLost` (`SeenBeforeOverwritten`), `OnlyForTheSender`
(`OnlyForOpenInspector`) and `TypingIsKept` (`TypedIsKept`). It uses that no preferences are none,
that the user's commands are commands and not the page's own request of the settings, and that the
bounds are numbers; any number of preferences, turns and disturbances is covered. One limit of the
model stays: the page keeps the retired epochs of the last twelve restarts only, the model all of
them, so that the theorems speak of a page that has not outlived more than twelve restarts.

**Only model-checked.** Liveness (`Recovers`, `HalfOpenDetected`, `QueueServed`) is beyond the
prover, which knows neither fairness nor `ENABLED`. Two invariants of `SubscriptionSupervisor` are
checked in `rotation` alone, and are no theorems because they do not hold of every instance:
with keys that succeed each other, the refusal of an unsubscribe is not heard when a retarget has
replaced its entry in the meantime, and the key stays registered though no entry says so
(`KnownToServer`); and the lease orphaned by a retarget (section 6) ends with the connection, after
which its second key stays parked beside a free place (`FreePlacesTaken`). TLC finds both on the
instance of `subscriptions`. Proved only, and part of no run since they say little beyond their types:
`TypeOK` of the modules with proofs, and `PingIsWatched` and `WaitersServed` of
the connection (`WaitsAreBounded`).

## 5. Not modelled

- Text, layout and parsing: market adapters, parsers, card, settings schema, errors, diagnostics,
  loggers. They are functions of data that no property tells apart.
- The order of start and destruction in `plugin.ts` and `plugin-runtime.ts`: straight-line code whose
  parts guard themselves (`StoppedForGood`, `NothingLeftBehind`). The identity that
  `applyCredentialSnapshot` derives from a snapshot is the input of `ApplyCredentialIdentity`.
- The earlier implementation, scripts, and of the inspector's pages the markup, the validation of
  fields, the settings of a single action and the socket to the host.

Within the modelled components: counters and diagnostics, jitter, the echo of `PINGPONG` text, the
abort of an HTTP request in flight as distinct from its failure, host timer functions that throw
(except where said above), observers that call back into the subscription supervisor in the turn in
which they are told (the controllers do not; tests of the repository do), re-entrant evaluation of
the clock, and what a view says besides what feeds it (price, stale and recovery overlays, the
overlay of a manual refresh).

## 6. Where code and documents disagree

`dead_tick` is a run that must end in the violation of its one property. The policy tick of an
overseas button asks the clock for its snapshot. If the session has changed and the clock's own
timer has not fired yet, the clock tells its listeners before it returns, the button among them,
which sets up its policy anew and arms the tick of that policy. Back in `handlePolicyTick`, the tick
is armed once more, for the policy that is over: it will fire once and do nothing
(`stock-action-controller.ts:974`). The button has lost its minute tick, the only notice of the
Korean daytime, until its policy is set up again;
`stock-action-controller.policy.test.ts:1446` wants the change of key to come from this tick.

Five more disagreements have a configuration each, for TLC to find the violation when run by hand
(`MCConnectionRefresh.cfg` goes with `MCConnectionSupervisor.tla`, the other four with
`MCSubscriptionSupervisor.tla`):

- `MCConnectionRefresh.cfg`, `OpenKeepsRefreshing`: an approval key obtained while nothing is wanted
  (the inspector's refresh) is used by the next connection without its 30 minute refresh interval
  ever being armed (`connection-supervisor.ts:862`; `connection-supervisor.test.ts:227` "rearms the
  30 minute refresh timer when demand reappears").
- `MCLostResubscribe.cfg`, `WantedIsQueued`, and `MCLostUnsubscribe.cfg`, `RemovalIsDriven`:
  `nextValidJob` clears `queuedAction` when a job leaves the queue for the send timer, so that a
  second job of the entry can be queued; that mark later refuses the job that is needed, and the
  queued one is dropped. A wanted key stays "desired", or a released one stays subscribed, on an
  open connection (`subscription-supervisor.ts:458`, `:427`; `subscription-supervisor.test.ts:324`,
  `:305`).
- `MCCapExceeded.cfg`, `CapRespected`: entries without handles do not count against the 41, so the
  server can hold more while a release is under way (`subscription-supervisor.ts:739`; the
  repository's `README.md:70`).
- `MCLeaseOrphaned.cfg`, `LeaseEndsWithPair`: `completeRetarget` takes an entry out of the map
  without cancelling its rotation lease, and the lease blocks later ones until the connection is
  lost (`subscription-supervisor.ts:943`, against the comment at `:844`).

Seen while modelling the inspector, and against no document or test of the repository: a page that is
open through a restart of the plugin gets no answers before the host reports it to the new process
(`plugin.ts:21`), and when a page goes of which only the old process was told, the context is forgotten
although another page is shown (`pi-controller.ts:425`), whose commands are then dropped without an
answer (`:439`, `:727`). Its save button stays disabled until it is closed or a snapshot of a new
process arrives.

Seen while modelling the controller, and kept in the model as the code has them:

- A frame that makes the clock tell its listeners (`handleSubscriptionData`) goes on for a policy
  that is over; its recovery timer then does nothing, and the answer of a closed market's request is
  refused because the frame has raised `webSocketRevision`. `TimersRun` holds again once the policy is
  set up anew, by a session, settings or credentials.
- A closed market's request that is aborted by such a re-entry keeps its key as made: nobody asks
  again, and the button says "waiting" until its policy changes. `ConnectionShown` leaves out a button
  that was re-entered.
- "LIVE" or "BACKUP" stays while REST fails as long as there is a last quote, and a manual refresh
  that succeeds while real-time data flows shows "BACKUP" until the next frame.
- The key that says the one request of a closed market was made stays when that request was aborted
  or failed and the Korean daytime came in between; `ConnectionShown` speaks of what the button then
  says.
- The commit callback may return without drawing while the scheduler records the picture as shown
  (`:1086`).
- Destroying one controller stops the clocks, which both controllers share; `PluginRuntime` destroys
  both.

## 7. Plan

Done: connection, subscriptions, REST, credentials, controller, wrapper and inspector with its page
(model, runs, proofs), rendering and settings with their abstract specifications and proofs, the clock
(model, run, proofs).

1. `Transport`: `ConnectionSupervisor` and `SubscriptionSupervisor` composed through the calls each
   makes to the other, with the server once; the reduced connection of `SubscriptionSupervisor`
   shown to be implemented. The ordering of release and subscribe in a retarget, and late data,
   belong here.
2. A controller's commit composed with `RenderScheduler` (a commit that returns without drawing),
   which is where `ShowsLatest` has a hazard of its own.
3. `PluginRuntime`: identity epochs from snapshots, order of destruction.
4. Proofs: a bound on the depth of a turn of `SubscriptionSupervisor`, so that `MaxDepth` can be
   computed from the keys.

To run: `tlc -config MCRenderScheduler.cfg MCRenderScheduler.tla`, and likewise for the other
configurations with the MC module of the same name. `MCSubscriptions.cfg`,
`MCSubscriptionsUnbounded.cfg`, `MCRotation.cfg` and the configurations of section 6 that concern subscriptions go with `MCSubscriptionSupervisor.tla`,
`MCConnectionRefresh.cfg` with `MCConnectionSupervisor.tla`, `MCDeadTick.cfg` with
`MCStockActionController.tla`. `tlapm M.tla` checks the proofs of each module M whose name ends in
`Proofs`.
