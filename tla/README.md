# A verification project for subscription-proxy-pool

TLA+ models of the inference proxy that shares pooled Claude and ChatGPT
subscriptions among the holders of proxy keys, the TLC runs that check them on
small instances, and the theorems TLAPS proves about them for every size.
Paths are those of the repository; `src/features/...` is the program.

Everything runs from this directory:

    tlc -workers 2 -config MCTokenManager.cfg MCTokenManager.tla
    tlapm TokenManagerProofs.tla

`PROJECT.json` lists components, runs, mutants (one planted bug for each
property, which its run must find), the map from definitions to source lines,
hazards, findings and theorems.

## 1. The system

One Node process (`src/infrastructure/Server.ts`) runs two HTTP listeners and a
timer over one SQL database. A client's request carries a proxy key; the key
names a pool (one owner's subscriptions, or the donor pool) and the model names
a provider; the least loaded subscription of that pool and provider serves it.
JavaScript runs one callback at a time, so the interleavings are those of the
**awaits**: what is read before an await may be stale after it. That is the unit
of step in every model here.

| Component | State it keeps | Operations | What makes it correct |
|---|---|---|---|
| Inference HTTP surface, `proxy/adapters/inbound/ProxyHttpServer` | per exchange: head sent, reader, close handler | handle, relay, pump, write | one head; a truncated body never passes for complete; the slot covers the pump |
| Inference orchestration, `HandleMessagesUseCase`, `SelectSubscriptionUseCase` | per request: tried subscriptions, the slot held, retried or not | handle, attempt, harvest, select | each slot given back once; failover bounded and inside pool and provider; refusal only for a fenced pool; every request answered |
| Selection, `pool-selection/domain/Selection` | none | selectLeastLoaded, soonestRetry | a fenced candidate is never picked, the pick is the least loaded, Retry-After is sound |
| In-flight counters, `InFlightTracker` | requests in flight per subscription | increment, decrement | counter = requests that hold a slot |
| Load rows, `SqliteLoadRepository` | append-only snapshots, newest wins | insertSnapshot, latestBySubscription | |
| Load monitor and prober, `LoadMonitorService`, `LoadProbeWorker` | timer, running flag | recordLoad, probeIdle, start, stop | sweeps never stack; only idle subscriptions are probed; fences end |
| Token lifecycle, `subscription-oauth/application/TokenManager` | map of refresh promises | ensureFresh, refreshNow, doRefresh | one refresh at a time; the rotated pair is persisted before use; a dead grant is fenced |
| Inventory, `subscriptions/` | rows: status, encrypted tokens | list, disable, updateTokens, markUnusable, add, find | out of service stays out |
| Linking, `SubscriptionOAuthService` | none of its own | beginLink, completeLink, verifyGrant | a subscription lands where its link was begun for; only accepted credentials join |
| One-time states, `PkceSessionRepository` | PKCE rows | create, consume | a state is redeemed once |
| Accounts and sessions, `auth/` | users, identities, sessions | beginLogin, completeLogin, resolveSession, logout | one user per identity |
| Management HTTP surface, `ManagementHttpServer` | none of its own | login callback, and behind a session: link, complete, disable, keys, listings | nobody changes another's subscription |
| Proxy keys, `access-keys/` | key hashes bound to pools | issue, revoke, resolve | a key opens its own pool and no other; a revoked key drains |
| Engines, `shared/db` | promise queue (SQLite), pool (Postgres) | run, exec, transaction, close | operations do not fall into another's transaction; what was queued before the close is done |
| Migrations, `Migrations.ts` | recorded version | migrate | no process works on a schema that is not whole |
| Encryption, `SecretCrypter` | key ring | encrypt, decrypt | rows of an older key remain readable, through a rotation with processes that overlap |
| OIDC login, `GenericOidcIdentityProvider`, `Jwt` | discovery cache | exchangeCode, verifyIdToken | only who logged in for this state gets a session |
| Provider adapters, `AnthropicOAuthProvider`, `OpenAiOAuthProvider` | none | exchange, refresh, verifyCredentials | a credential the provider does not accept is never found valid |
| Process, `Server`, `cli/Main` | listeners, prober, engine | wire, start, stop, the commands | a stop is orderly, and ends |
| HTTP helpers, header shaping, configuration | none of their own | | |

How they interact: the HTTP surface calls `handle`; `handle` calls `select`
(which reads subscription rows, load rows and counters), `TokenManager`, the
upstream and `recordLoad`, and hands the body with a `release` callback back to
the surface. The prober goes the same way for idle subscriptions. The management
surface lets people log in: `beginLogin` stores a one-time state, the identity
provider sends the browser back with it, and the callback consumes it, exchanges
the code, finds or creates the user and opens a session. Behind a session a link
is begun and completed the same way against the subscription's provider, and an
owner disables subscriptions. The database is the only state
that survives a restart; the counters and the promise map live in the process.

Where it is hard: a row read before a refresh is spent after it (tokens rotate,
so an old refresh token is poison); a slot must be released on a dozen exits, some
in another component and driven by a socket's events; `select` composes many
reads with writers between them; the prober and the harvest write the same rows;
a crash may fall between the provider's rotation and our write; one state may
come back twice at a time, one identity log in twice for the first time; two
processes may overlap over one database, one of them at its migration or stopping,
with different keys.
`PROJECT.json` lists each such hazard at its line.

## 2. Modules

| Module | Models | Its state and actions in the code |
|---|---|---|
| `TokenManager` | token lifecycle, with its callers, the token endpoint, the owner, crashes | `inflight` is the promise map; `stage[c]` is where the `doRefresh` started by caller `c` is suspended; `pc`/`snap`/`on` are what a request or sweep awaits and the row it read. `EnsureFresh`, `RefreshNow`, `UpdateTokens`, `MarkUnusable`, `Settle` (finally, then resumption) are the segments between awaits. |
| `GrantCustody` | what the lifecycle promises: where the one redeemable refresh token is | abstract |
| `RateLimit` | `parseRateLimitHeaders`, `computeCooldown` | operators |
| `Selection` | `windowUtil`, `loadScore`, `isEligible`, the comparator, `selectLeastLoaded`, `soonestRetry` | operators |
| `PoolSelection` | rows, counters and clock under the selector | `Respond` (a harvested response), `Take`, `GiveBack`, `Tick` |
| `LoadMonitor` | `recordLoad`, `probeIdle`, `LoadProbeWorker` | `phase`, `left`, `since` are a sweep's place in its loop, the ids it still holds, its clock; `Visit` reads and decides (`shouldSkip`), `Launch` and `TokenFails` are the ends of the await of the token, `Answer` and `ProbeFails` those of the probe; `running` and `started` are the worker's fields |
| `Proxy` | `handle`, `attempt`, `harvest`, `select` of several requests | composes `PoolSelection` (rows, counters, clock by `INSTANCE`) with the failover loop; `List`, `Gather`, `Pick`/`Refuse` are the segments of `select`; `Forward`, `Respond`, `NoCredential`, ... those of `attempt`. `TokenManager` appears as its three outcomes |
| `KeyedProxy` | `AccessKeysService` in front of `Proxy` (which it extends) | `IssueKey`; `FindKey` and `RevokeKey` are the two storage operations of `revokeKey`; `Admit` is `resolvePrincipal` and the start of `handle`; `bearer` is the principal that `handle` keeps |
| `SlotLease` | what the failover loop promises about slots | abstract |
| `Relay` | one exchange of `ProxyHttpServer` | `pc` is what `pump` awaits; client and upstream act at any moment |
| `PkceStore` | the PKCE rows, and `consume` statement by statement on both engines | `engine` is the call whose transaction `SqliteEngine.chain` runs (`Serialised`); `Select`, `Mark`, `Commit`, `Rollback` are the SELECT, the UPDATE and the ends of the transaction. `call[r]` is the frame of a request: where it is suspended and the locals it holds there |
| `Oidc` | `exchangeCode`, `verifyIdToken`, `pickKey`; extends `PkceStore` | operators: which identities a login with a state may come back with |
| `Accounts` | `AuthService` and the session gate; extends `Oidc` | `BeginLogin`; `Callback`, `Identify`, `Lookup`, `InsertUser`, `LinkIdentity`, `OpenSession` are the awaits of `completeLogin`; `Authenticate`, `EndSession` |
| `Verdicts` | `verifyCredentials` of both adapters | operators: what is read into a reply |
| `Linking` | `SubscriptionOAuthService`, `SubscriptionsService`; extends `Accounts`, `Verdicts` | `BeginLink`; `CompleteLink`, `Grant`, `Verify`, `AddSubscription` are the awaits of `completeLink`; `FindSub`, `Disable` |
| `Management` | the management server: the five above as one system | who may arrive, what a call asks for, failing storage operations, crashes |
| `OneTimeState` | what the management server promises of its one-time states: each is good for one try, which ends in one session, one subscription or nothing | abstract; `Fate` in `Management` reads a state's fate off the rows and the calls |
| `Migrations` | `applyMigrations` by several processes | `done` counts the statements of the script in effect; `at[p]` is what process `p` awaits; `FindTable`, `ReadVersion`, `ExecScript`, `Statement` are the reads and the script |
| `KeyRing` | `SecretCrypter` and the ring it is given | operators |
| `Server` | the life of a process over the two above, with `SqliteEngine`'s chain | `chain[p]` is the queue of promises; `work[w]` a request or a sweep between its operations; `sealed` the stored tokens by the key that seals them; `Start` to `ListenMgmt` are the awaits of `serve`, `Signal` to `Exit` those of `stop` |
| `SelectionProofs`, `PoolSelectionProofs`, `LoadMonitorProofs`, `ProxyProofs`, `RelayProofs`, `TokenManagerProofs`, `ManagementProofs`, `ServerProofs` | lemmas and theorems | |
| `MCTokenManager`, `MCPoolSelection`, `MCLoadMonitor`, `MCProxy`, `MCKeyedProxy`, `MCManagement`, `MCServer` | instances for TLC | model values, replies, key sets, rings, symmetry |

### How data is abstracted

* A token pair is its **generation**: the provider honours the refresh token of
  its current generation and answers with the next, which kills the one before
  (both providers rotate; `TokenManager.ts` stores the rotated pair).
* A response is the few numbers its headers carry (`Reply`), a row the fields a
  reader looks at (`Snapshot`). Utilizations are integer percentages. The code
  computes in floats (a fraction of 1 times 100), so a tie of the model may be
  missed in the code by a rounding error, and fractional headers lie between the
  integers tried.
* `Proxy` counts the attempts of a request by the subscriptions it has tried
  (`FailOver`), where `handle` has a counter of its own
  (`HandleMessagesUseCase.ts:69`). The two agree because each pick is new, which
  `KeepsLease` says; in a code that picked a tried subscription again the counter would
  still end the loop, so `GetsAnswer` shows that the loop ends through its exclude set.
* The clock is monotone and counts coarse ticks, `Second` of them to a second.
* Two rows of one millisecond are not told apart: the query may return either,
  the model the later one.
* Both adapters for the token endpoint are registered by `Server.ts`, so the
  branch of `doRefresh` for an unknown provider is left out.
* An invalid key changes nothing, and is left out. A key stands for its secret and
  its hash. The own pool of a user has the user's name; keys of a pool without
  subscriptions are refused at once and left out.
* A cryptogram is the id in its envelope and the key that made it; AES-GCM opens
  what its key has sealed and nothing else.
* An id token is what the checks look at. The nonce of a login is its state, for
  `beginLogin` makes one for each.
* In the management modules the id of a row is its index, and rows are never
  deleted, nor are they in the code. An expired session and a revoked one are one
  state, for neither resolves. A state that has expired is not told from one
  still good: the code never looks at its age. Storage operations are atomic but for the
  transaction of `consume`. Users that the command line creates are left out: they
  have no identity until their first login, which then creates a user of its own.
* In `Server` a unit of work alternates between an operation on the engine and the
  provider or the answer; which endpoint it is matters only for the connection that
  `close` waits for and for the rows it writes. The statements of the migration
  after the second are equal.

### What is assumed of others

* The issuer signs for this client only who logged in, with the nonce of the URL it
  was given (`Vouched`); it may sign anything for other clients, and others may
  sign anything with other keys. Any token may come back with any code, and any of
  the key sets `Served` may be fetched, also one without the signing key.
* A provider serves or limits (2xx, 429, 529) only calls with a token it accepts
  (`Replies`); it may refuse or fail any call.

## 3. Runs

### Tokens

`tokens` (`MCTokenManager.cfg`): two requests and a sweep over one subscription,
with expiry, 401s, an owner who disables, crashes, refusals, lost replies and
failing writes between any two awaits.

* `SingleFlight`, `NoWedgedEntry`: one promise per subscription; no entry
  outlives its promise.
* `PersistedBeforeUse`: nobody uses a token whose grant is not in the row.
* `DeadGrantFenced`: an active row with a dead refresh token is about to be
  repaired or marked, except after a crash or a failure of `markUnusable` itself.
  These exceptions are real: such a row is found out by its next refresh.
* `NeverRevived`: a refresh in flight never brings a disabled row back.
* `RefresherAnswered`: whoever waits on a refresh is answered.
* `KeepsCustody`: refinement of `GrantCustody`.

`tokens_hit_once` is a finding, see below.

### Selection

`selection` (`MCPoolSelection.cfg`): two subscriptions; replies with each claim,
utilizations on both sides of the near-full boundary, out-of-range ones, every
branch of `computeCooldown` and past resets, and up to 20 requests in flight on
each; in each of the states the selector is asked about every set of candidates.
`FencedNeverPicked`, `PicksLeastLoaded` and `RetryAfterSound` say what
`spec/partitions/pool-selection.md` promises in terms of the rows, not of the score
the code computes. `RetryAfterSound` has the strength the code gives: a status or a
full window has no deadline of its own, and a past reset makes the answer 1.

`SpreadsLoad`: nobody is picked with 20 requests more in flight than a free
candidate, whatever the utilizations, since a bias of 5 per request outweighs any two
eligible scores (0 to 97) at 20.

### Prober

`prober` (`MCLoadMonitor.cfg`): a healthy subscription, and one whose tokens and
probes may always fail; two potential sweeps. `AtMostOneSweep`; `FenceLifted`: while
the prober runs, a fence on a healthy subscription ends.

`ProbesOnlyIdle` is read at the moment a probe leaves (`Launch`), some awaits after
`shouldSkip` decided: the newest sample is then beyond the threshold and past its
cooldown, or a response to a proxied request came in while the token was awaited.
The history variable `overtaken` marks that one case, in which the code does probe a
subscription that was just seen or is cooling (see "Observed" below); the property
says that there is no other, although the sweep reckons with the clock of its start
and a slow one could meet the next. It fails if sweeps overlap, too: each would probe
what the other has just sampled.

### Requests

`proxy` (`MCProxy.cfg`): two requests over a pool of two, with prober, owner and
clock. `InFlightAccurate` (a counter is the number of holders, on every exit),
`BoundedWork`, `RefusedOnlyWhenFenced` (despite the reads one by one, a refusal
means that no untried subscription was eligible throughout).

`proxy_pools` (`MCKeyedProxy.cfg`): the same path behind its keys, one request at a
time over three subscriptions of two pools and two providers.

* `KeyOpensItsPool`: through every failover a request is served from the pool its
  key was issued for and by its model's provider, whatever becomes of the key.
* `RevokedKeyDrains`: once revoked, a key has no request left but one that is being
  answered, for ever. `handle` resolves the key once, so a request that was admitted
  before goes on to its end.
* `KeepsLease`: refinement of `SlotLease`. `GetsAnswer`: every request ends.

### Relay

`relay` (`MCRelay.cfg`): `OneHead`, `CleanEndIsWhole`, `AbortStopsReading` (nothing
of a body is read for a client that left while it was under way; if it left before
the pump began, one chunk is) and `RelayEnds`: the slot comes back, whether the client
stays or leaves, unless the pump then awaits the drain of a closed connection.

### Management

`management` (`MCManagement.cfg`): two calls at a time over SQLite, two people,
three states and two subscriptions; a storage operation or the process may fail at
any await. Anybody may bring any state back, in either flow.

* `RedeemedOnce`: a state is redeemed once.
* `OneUserPerIdentity`: two first logins of one person end in one user. The loser
  leaves a user row without identity behind, as the code does.
* `SessionIsTheirs`: a session is of somebody who logged in at the issuer on the URL
  of the state that its callback redeemed, through key rotation and tokens of other
  logins, clients and signers.
* `LandsInItsPool`: pool and owner are those the link was begun with, not those of
  whoever completes it.
* `OnlyVerifiedJoin`: no reply to a token that the provider does not accept, and no
  number of inconclusive attempts, adds the subscription.
* `OwnersOnly`: the owner is checked in one operation and the status written in
  another; nothing in between changes the answer.
* `CallAnswered`: a failed transaction does not stop the chain.
* `KeepsStates`: refinement of `OneTimeState`. A state is good for one row, of the
  kind it was made for, and is never open again, wherever its flow fails, is refused
  or is cut off by a crash; `RedeemedOnce` alone would allow two rows of one
  redemption.

`management_postgres` (`MCManagementPostgres.cfg`) asks the first question of
Postgres, and is a finding.

### Server

`server` (`MCServer.cfg`): two processes, each a server or a command, start with any
of four key rings, migrate, listen, serve, are told to stop or die, over one SQLite
database with one row.

* `SchemaWhole`: past `openEngine` the schema is complete, unless another process is
  at the script at that moment, or one has died in it. Both exceptions are real, see
  below.
* `StopIsOrderly`: what an orderly stop cuts off has no client waiting, and was not
  queued before the engine's close: a sweep, or a handler whose client has left.
  Such a handler may hold tokens that its provider has just rotated.
* `NewestReadsAll`: a server started with every key in use reads every row until
  another one starts, although an older process goes on writing with its own key.
* `StopEnds`: the connections end, kept-alive ones included, the chain settles, the
  process exits.

### Findings

Four runs state what the repository says and are refuted by the code.

1. `tokens_hit_once`, `EndpointHitOnce` (`TokenManager.ts:4-5`): refreshers of one
   row share a promise only while it is pending. A second request that holds the
   same row and meets its 401 later spends the dead refresh token, is refused, and
   `doRefresh` marks the freshly refreshed subscription unusable.
2. `selection_cooldown`, `EligibleAfterCooldown` (`pool-selection.md:136`): the
   `rate_limited` status of the newest snapshot fences on its own, after its
   cooldown has passed. Only the prober, off by default, ends such a fence:
   `FenceLifted` is the positive side of it.
3. `relay_abort`, `SlotReturned` (`ProxyPort.ts:16-17`): a client that closes
   while the pump waits for `drain`, or before the pump has attached its close
   handler, leaves `release` uncalled.
4. `management_postgres`, `RedeemedOnce` (`SqlitePkceSessionRepository.ts:2-4`):
   `consume` is a SELECT and an UPDATE by id, not the conditional UPDATE the comment
   describes. Under read committed two callbacks with one state both read it
   unconsumed, and both are admitted. On SQLite the chain hides it.

Observed and not made a run: `subscription-oauth.md` (BEH-004) still says that
OpenAI answers `provider_not_implemented`, while the code implements it; a 429
with `retry-after: 0` or a past reset sets a cooldown that fences nothing.
`Migrations.ts:67` calls `applyMigrations` idempotent and `Connection.ts:74` says it
brings the schema up to date. On SQLite a process that dies between the second
statement of the script and the last leaves a schema that every later start takes
for complete, one that dies between the first and the second a database on which no
start succeeds (the `CREATE TABLE` is run again), and a second process that opens
a new database meanwhile goes on without the tables or exits with that error. These
are the exceptions in `SchemaWhole`, which therefore shows of crashes only that the
bare table is not taken for a recorded version; `AtomicSchema` proves that Postgres
has no exception. `load-monitor.md:109` and `:197` say that recently seen or cooled
subscriptions are skipped and only idle ones probed; between `shouldSkip`
(`LoadMonitorService.ts:44`) and the probe (`:48`) lies the await of the token, perhaps
a refresh, and a sample stored in it is not looked at, so that one billed probe goes
out although a 429 has just set a cooldown. A server whose second `listen` fails exits with the requests it has accepted
on the first port.

### Bounds

* `MaxGen = 2`, `MaxFaults = 2`: two generations are what it takes to hold a
  spent token, two faults for one to hit the handling of another. No guard of
  the code compares generations by more than their order.
* `MaxNow`: the clock passes each of the deadlines in the replies.
  `MaxInFlight = 20`: the difference in question.
* `AgeCap` is at least the idle threshold and any cooldown plus the longest sweep
  (`LoadMonitorAssumption`), so a capped age compares like a true one, and time
  passes for ever. `MaxSweep = 1` lets the sweep's clock be stale by the
  threshold.
* `MaxAttempts = 2` (3 by default) with two subscriptions reaches both ends of
  the loop: attempts exhausted, and no candidate left.
* `MaxChunks = 6`: nothing but `sent = total` looks at the number.
* Two calls, three states, two identities, two subscriptions, one fault in
  `management`: two calls are what each race takes, the third state lets a login, an
  own link and a donor link exist together. `VerifyAttempts = 2` (3 by default) has
  an attempt that is repeated and one that is not.
* One key and one request at a time in `proxy_pools`: a second request is in `proxy`,
  and keys do not meet one another; the key may be of either user and target. Two
  attempts over three subscriptions reach failover inside a pool, with another pool
  and another provider to stray into.
* The key sets of `management`: before, during and after a rotation, ids missing, and
  no key at all.
* Two processes, one unit of work at a time, one row, three statements in `server`:
  the overlaps are of two; what queues behind the close is one operation; the row is
  sealed by either key and process in turn, and a listing decrypts each row by itself
  (with two rows the run holds as well, in 1.2 million states); the third statement
  stands for all after the second.
  The proofs have no such bounds.
* Symmetry is used only in the `proxy` run, which checks invariants alone.
* Deadlock checking is off where the system may rest: all subscriptions out of
  service, the clock at its bound, an exchange finished.

### Fairness

* Engine calls return or reject, and `fetch` carries undici's default header and
  body timeouts, so an await of ours ends: weak fairness of the segments of a
  caller, a request, a sweep, a pump. Nothing is assumed about requests arriving,
  clients, owners or faults.
* `setInterval` keeps firing: weak fairness of the timer and of time.
* `Healthy` subscriptions are those whose tokens are got and whose probes are answered
  well again and again (strong fairness), whose row no refresh marks and whose engine reads do not fail; the listing does not
  fail for ever. Without that the fence need not end, nor does the code promise it.
* A client that stays connected drains its buffer.
* `Server`: operations settle, a provider answers or times out, weak fairness;
  a handler, a sweep and a client on a kept-alive connection go on with operation after
  operation, but not for ever: strong fairness of `Answer`, without which a busy
  connection keeps `stop` waiting, since it cuts none off. Nothing is assumed of starts,
  signals and deaths. `KeyedProxy`
  assumes what `Proxy` does, and nothing of issuing and revoking.
* A call of the management server waits for its turn in SQLite's chain, which is
  first come, first served: strong fairness of `Proceed(r)`, since the turn of each
  operation comes again and again. Providers answer or time out.

## 4. Proofs

TLAPS checks every theorem below for all values of the constants, under the named
assumptions in the modules (distinct model values, bounds in Nat, ranks that
distinguish ids, finitely many subscriptions, rows and requests, rings with a highest
id, replies of type `Reply`; at least one attempt per request, the program's default
being 3); TLC evaluates these in each run.

**`TokenManagerProofs`**, any number of subscriptions, callers, generations and
faults. The properties are not inductive: that a waiter's promise exists depends
on the registry, that a granted generation is the live one depends on single
flight. Three layers, each preserved on top of the one before:
`CallerInv` (types; the starter of a `doRefresh` waits for its own promise),
`RegistryInv` (an entry in the map is a running promise and vice versa; every
waiter is attached to a running promise of its subscription), `GrantInv` (a row
is never ahead of the provider; a granted promise holds exactly what is live; a
stored one what the row has). Theorems: `TypeCorrect`, `NoEntryOutlivesItsPromise`,
`OneRefreshAtATime`, `TokensPersistedBeforeUse`, `DeadGrantsAreFenced`,
`OutOfServiceStaysOut` (an action property) and `ImplementsCustody` (every step
maps to a step of `GrantCustody` or a stutter). Through that refinement
`NothingLostWithoutFault` carries over an invariant of the abstract specification:
without a crash, a lost reply or a failed write no redeemable refresh token is lost.
`FailureIsFenced` is what `Proxy` takes for granted in `NoCredential`: whoever was
thrown `RefreshFailed` finds the row out of service, so failing over does not meet
it again. `NewerPairStays`: a row's pair is only replaced by a newer one.

**`SelectionProofs`** holds the lemmas about the operators, used by the three
modules below: snapshots are typed whatever a reply says, scores lie in 0..100,
eligibility once gained is kept while the snapshot stays (`EligibleStays`),
nonempty sets of candidates, infinite ones included, have a first element
(`FirstExists`, minimizing score, count and rank in turn with the library's
well-founded minima), and no two candidates tie (`NoTies`).

**`PoolSelectionProofs`**, any pool. The state needs no invariant beyond its
types; what is shown is that the ranking does what the documents say.
`LoadScore` reaches 98 exactly when a representative window does
(`FullIsNearlyFull`), so the code's fence is INV-002's, and a pool that is not
fenced has a first candidate, so it is never refused. The least reset exists
because pools are finite: the element with the fewest below it
(`LeastOfFinite`), which spares an induction. Theorems: `TypeCorrect`,
`FenceIsSharp`, `LeastLoadedIsPicked`, `LoadIsSpread`, `RetryAfterIsSound`.

**`LoadMonitorProofs`**, any subscriptions, thresholds and durations. The overlap
guard is a flag; `Guarded` says what it stands for (a sweep at work has it set)
and is inductive together with `AtMostOneSweep`. Theorems: `TypeCorrect`,
`SweepsNeverStack`, `ProbesAreForIdle` (an action property: `Renewing` carries what
`shouldSkip` found to the launch, through time and other people's requests, and leans
on `AtMostOneSweep`, for another sweep could store a sample unnoted), `NoneProbedTwice` (in
one sweep, whatever fails: what is probed leaves the list, and nothing joins it).

**`ProxyProofs`**, any number of requests, pools and attempts. `Steps` groups the
actions by what they do to one request. `RequestInv` ties what a request holds,
has gathered and has tried to its place in `handle`. Three invariants rest on it:
`InFlightAccurate` is inductive as it stands (a step adds or removes one holder of
one subscription); `WorkInv` adds to the calls made those the current attempt may
still make, since the bound is otherwise not inductive; `FitInv` says that what
was eligible throughout a selection is unread yet or was seen eligible, which at
the refusal leaves nothing. Theorems: `TypeCorrect`, `EverySlotReturned`,
`WorkIsBounded`, `RefusalsAreSound`, `ImplementsLease` (every
step maps to a step of `SlotLease` or a stutter; that a counter is positive when a
slot comes back is `InFlightAccurate`). Of the keys in front: `BearerInv` (what a row
says of its pool never changes, and a request in progress wants the pool of its key)
gives `KeysOpenTheirPools`, and `KeyedImplementsProxy` carries everything proved of
`Proxy` over to `KeyedProxy`.

**`RelayProofs`**, bodies of any length. `ByPhase` and `EndTells` say what is true
in each phase of an exchange. Theorems: `TypeCorrect`, `OneHeadOnly`,
`NoSilentTruncation`, `NoReadingForTheGone` (from `LateHandler`: a body that still
flows to a client that left has had no chunk read), and `LostSlotStaysLost`: the finding
`SlotReturned` for bodies of any length, for once the pump awaits the drain of a
closed connection no step takes it out of there.

**`ManagementProofs`**, any number of calls, users, identities, states,
subscriptions and faults. None of the properties is inductive, for each leans on
what a suspended call holds. `Fits` states that per place (a call that adds a
subscription has redeemed a state of its kind and had the credential accepted; one
that disables is the owner's), and `RowsStay` that no step takes away what a frame
relies on; with both, `Sound` is inductive on either engine. `RedeemedOnceHolds`
assumes `Serialised` and adds `Redemption`: the transaction that runs has the
engine, and the row it is to mark is not spent. Where the assumption fails the run
`management_postgres` has the counterexample. Theorems: `TypeCorrect`,
`RedeemedOnceHolds`, `OneUserPerIdentityHolds`, `SessionIsTheirsHolds` (what the
checks of `verifyIdToken` let through is what the issuer vouches for, whatever key
set is served), `LandsInItsPoolHolds`, `OnlyVerifiedJoinHolds`, `OwnersOnlyHolds` (an
action property), `OneYieldHolds` and `ImplementsStates`. The last two, again where
transactions are serialised, rest on `Tickets`: one call at most may still make
something of a redeemed state, of the flow that it was made for, and none once it
has yielded a row; every step then maps to a step of `OneTimeState` or a stutter, a
crash to the loss of all flows under way. `ChainNeverStuck`, on either engine: a
transaction that has the engine waits for no row lock (`EngineHeld`, which says
that whoever has the engine is in its transaction).

**`ServerProofs`**, any number of processes, units of work, rows, rings and
statements. `Steps` groups the actions by what they do to chains and work; three
invariants rest on it. `Schema`: one process at most is in the script, and a script
that is neither untouched nor done has somebody in it or has had. `Orderly`: a chain
holds each queued operation once, nothing stands before the close that came after
it, and nobody has a client once the listeners are closed; without it `StopIsOrderly`
is not inductive. `Reach`: the newest process has the key of every row and the
writing key of every process that still runs, which is why an older process may go
on writing. Theorems: `TypeCorrect`, `SchemaWholeHolds`, `AtomicSchema` (Postgres:
no exception), `StopIsOrderlyHolds`, `NewestReadsAllHolds`.

**Variants.** Liveness under fairness and `ENABLED` are out of the prover's reach, so
`RefresherAnswered`, `FenceLifted`, `GetsAnswer`, `RelayEnds`, `CallAnswered`,
`RevokedKeyDrains` and `StopEnds` are only model-checked. What could go wrong in the
code behind them, a loop that starts over or somebody who sends another one back, is
proved for every size: a bounded number decreases with each step of the one that
waits, and no step of anybody else increases it. What stays with TLC is that fair
steps do come: that some step of the one who waits is enabled, and is taken.

| Theorem | Behind | What decreases |
|---|---|---|
| `WaitsGetShorter` (`TokenManagerProofs`) | `RefresherAnswered` | the segments left of the `doRefresh` that a waiter is attached to |
| `SweepsFinish` (`LoadMonitorProofs`) | `FenceLifted` in part | the subscriptions a sweep has yet to visit, get a token for and probe, at most 3 steps each and 2 more |
| `RequestsFinish` (`ProxyProofs`) | `GetsAnswer` | attempts left times the steps of an attempt: `MaxAttempts * (Subs + 6) + Subs + 2` in all, 401s and load reads included |
| `PumpFinishes` (`RelayProofs`) | `RelayEnds` | the chunks left, two steps each |
| `CallsFinish` (`ManagementProofs`) | `CallAnswered` | the awaits left, verification attempts included: `VerifyAttempts + 9` in all; a call may wait for the chain, which `ChainNeverStuck` says moves on |
| `StopFinishes` (`ServerProofs`) | `StopEnds` in part | the operations queued before the engine's close: what handlers and sweeps still queue goes behind it |

`FenceLifted` needs besides that sweeps start and probes succeed, and `StopEnds` that
clients leave and handlers end; both are the fairness assumed above.
`RevokedKeyDrains` waits for requests already admitted, whose steps `RequestsFinish`
bounds.

No module of the project declares a RECURSIVE operator, and nothing here needs
an induction over data, the prover's other limit.

## 5. Not modelled

* `FetchUpstreamGateway`, `ProviderRouting` and `SystemPrompt` shape text: bodies,
  headers, the system prompt. They keep no state and decide nothing but the provider
  of a model, which is the input of `Arrive`. The HTTP helpers, the egress proxy and
  the logger are I/O.
* The requests and authorize URLs of the provider adapters, and the cache of the
  discovery document, are text too; that the PKCE verifier belongs to the code is for
  the provider to check.
* Of the configuration only the key ring matters to a property. The config module may
  bring identity providers of its own, which are code outside the repository.
* Postgres: its pool and its transactions are modelled for `consume`, its script in
  `Migrations`; `Server` is about SQLite's chain.
* A signal that comes again while the process stops: its second `stop` waits for
  the same events, and queues a second close, which does nothing.
* Two servers with one `TokenManager` each over one subscription, as a rolling
  restart has for a while: nothing in the repository promises single flight across
  processes, and what a refused refresh does is in `tokens_hit_once`.
* The listings of keys, subscriptions and loads only read.

## 6. Plan

Done: tokens first (the most damage per mistake), then selection, the prober, the
request loop and the relay; the one-time states, logins and links as one system;
then the keys in front of the requests, the identity tokens and verdicts behind the
logins and links, and the process around it all with its migrations, its engine and
its key ring. All safety properties and refinements that the runs check are proved,
and the variants behind the liveness properties.

Left, in this order:

1. The chain of `Server` under `Management`: that a queue of promises implements the
   lock (`engine`) which `PkceStore` takes it for.
2. `TokenManager` with two processes over one row, if the program comes to promise
   anything of overlapping servers (a lease in the row, say).

New questions are asked by widening present runs where one model serves several
(`selection` also checks how load is spread), so that the project stays small enough
to check in minutes.
