# Formal models of the zinesh protocol

TLA+ models of this repository: the escrow that a *cell* is (one deal between a payer and a payee,
with an optional arbiter), the event-sourced kernel that keeps its promises, and the system around
it: concurrent, failing and retried requests over PostgreSQL, what payment providers report, who may
do what, what a request passes on its way in, and the process that serves it. TLC checks the models
on small instances; TLAPS proves most of their safety properties, those of the kernel, command execution, the providers, access, the edge, the service and the development programs,
for all parameters.

Paths in this file are relative to the repository root (`src/...`); line numbers are those of the
commit the models were written from.

## 1. Inventory

| Component | Code | State | Operations | Module |
|---|---|---|---|---|
| Kernel | `src/kernel/`, `src/core/types.ts` | none: a cell is folded from its events | twelve handlers, `evolve`, `applyCommand` | `CellKernel`, `Escrow` |
| Cell application, command execution | `src/application/cell-application.ts`, `src/adapters/postgres-command-execution-store.ts` | ledger `command_executions`, `events`, `snapshots` | `handleCommand`, `execute`, `append`, `save` | `CommandExecution` |
| The same in memory | `src/adapters/in-memory-*.ts` | maps, a promise chain per command id | as above, no transactions | `InMemoryExecution` |
| Receipts, disputes, intents | `src/adapters/postgres-funding-*-store.ts` | receipts, dispute observations, intents | `claim`, `hasBlockingDispute`, `record`, `create` | `CommandExecution`, `FundingDispute`, `TrustedIngress` |
| Reconciliation | `src/funding/funding-reconciliation-service.ts` | routes, observations, correlations, checkpoints, negatives | `createRoute`, `reconcileObservation` | `FundingReconciliation` |
| Negative resolution | `src/security/negative-resolution-ingress.ts` | dispositions | `resolve` | `FundingDispute` |
| Provider inbox | `postgres-provider-foundation-store.ts` | events, their processing rows | record, claim, complete, fail | `ProviderInbox` |
| Both foundation stores | `*-provider-foundation-store.ts` | inbox, account cursors | the same calls to each | `ProviderStores` |
| Principals | `src/adapters/postgres-principal-authority.ts` | principals, identities, capabilities, audit | `resolve`, versioned changes | `PrincipalAuthority` |
| Quarantine, admission | `src/security/admission-quarantine*.ts`, `adaptive-admission.ts` | quarantines, releases | `issue`, `release`, `findActive`, decision | `AdmissionQuarantine` |
| Trusted ingress | `src/security/trusted-ingress.ts` | none | commands, funding, intents, queries, await by await | `TrustedIngress`, `PrototypeFunding` |
| Command bodies | `src/transport/command-http-transport.ts`, `cell-application.ts` | none | decode, shape, align, fingerprint, answer | `CommandIntake` |
| Rate limiter | `src/adapters/postgres-rate-limit-store.ts` | counts per window | `consume` | `RateLimiter` |
| JWT, JWKS cache | `src/security/jwt-authentication.ts` | key sets, refreshes in flight | `authenticate`, `resolve`, `refresh` | `JwksCache` |
| Public listener | `src/transport/command-https-transport.ts` | none | TLS material, forwarding headers | `PublicIngress` |
| Runtime | `src/composition/main.ts` | gate, slots, pool | start, `run`, `performShutdown`; configuration | `Runtime`, `RuntimeConfiguration` |
| Migrations | `src/adapters/postgres-migrator.ts`, `src/composition/migrate.ts` | schema versions | `migrate`, `verify` | `SchemaMigration` |
| Readiness | `src/adapters/postgres-persistence-adapter.ts` | cache, check in flight | `readyCheck`, `disconnect` | `Readiness` |
| Telemetry | `src/security/security-observability.ts` | counts per signal, active alerts | `record`, `heartbeat` | `SecurityAlerts` |
| Development | `src/development/` | principals, intents | provisioning, prototype funding | `DevelopmentProvisioning`, `PrototypeFunding` |
| Frontend | `frontend/src/api.ts`, `ui.tsx` | role, token, room | switch, load, act | `FrontendSession` |
| Open protocol package, operations scripts | `packages/`, `scripts/` | | re-exports; deployment checks | not modelled |

**Interactions.** A request passes the public listener, takes a slot of the transport, is counted by
the limiter, decoded, let through the command gate and reaches the trusted ingress, which
authenticates, resolves the principal, asks admission and dispatches. `handleCommand` reads the
clock, puts the reading into deadline commands, fingerprints the command and runs `executeOnce`
inside `execute`'s transaction: load and evolve the cell, ask `hasBlockingDispute` for settlements,
apply the command, claim a receipt for `FundCell`, append the events. Providers' reports arrive
through the inbox and the reconciliation service and end as *negatives*, which block settlement
until a resolver's disposition lifts them. Shared state is in PostgreSQL only; several replicas run
the same code, and each keeps its own slots, gate, key sets and readiness cache.

**Hard behaviours.** Interleaving of READ COMMITTED transactions; commits without acknowledgement;
client retries; clocks that disagree and are read before ordering; a snapshot outside the
transaction; reversals that race settlements; reports processed in several transactions; leases that
expire under slow workers; decisions made on what was read two awaits ago; windows that end while a
statement waits; keys rotated under a shared fetch; shutdown racing requests; migrators racing each
other and the release before. `PROJECT.json` lists them as hazards at the line where each bites,
with the properties that would catch it going wrong.

**What makes each component correct** is said with its properties in section 4.

## 2. Modules

| Module | What it is |
|---|---|
| `CellKernel` | the pure part: states, events, `eventFolder`, `evolve`, each handler's checks, `applyCommand` |
| `Escrow` | one cell, one command at a time; an action per handler |
| `TwoOfThreeEscrow` | abstract: who may move the money, without statuses, events or commands |
| `CommandExecution` | requests in flight on several replicas, statement by statement |
| `CommandRefinement` | `CommitsLikeKernel`: each commit of `CommandExecution` is a step of `Escrow` on its cell |
| `InMemoryExecution` | the same handler over the in-memory stores (extends `CommandExecution`) |
| `FundingReconciliation`, `FundingDispute`, `ProviderInbox`, `ProviderStores` | the provider's side of funding |
| `PrincipalAuthority`, `AdmissionQuarantine`, `TrustedIngress` | who may do what |
| `CommandIntake`, `RateLimiter`, `JwksCache`, `PublicIngress`, `RuntimeConfiguration` | the edge of a process |
| `Runtime`, `SchemaMigration`, `Readiness`, `SecurityAlerts` | the process around the application |
| `DevelopmentProvisioning`, `PrototypeFunding`, `FrontendSession` | the local programs and the browser |
| `Optional` | `None`, the absent value several modules share |
| `KernelProofs`, `EscrowProofs`, `ExecutionProofs`, `FundingProofs`, `AccessProofs`, `ServiceProofs`, `EdgeProofs`, `DevelopmentProofs` | TLAPS proofs |
| `MC...` | instances for TLC |

**How they compose.** `Escrow` implements `TwoOfThreeEscrow`, and each commit of
`CommandExecution` is an `Escrow` step of its cell (both checked and proved): what is proved of the
serial kernel carries over to the streams concurrent requests write.
`InMemoryExecution` takes the handler of `CommandExecution` and replaces the stores;
it instantiates `FundingDispute` to say that both stores block the same cells. `PrincipalAuthority`
shows that a resolution, two queries long, returns nothing older than itself (`ResolvedFresh`);
`TrustedIngress` therefore takes a resolution as one reading of the directory. `TrustedIngress` and
`PrototypeFunding` take the execution of a command as one step, which `CommandExecution` justifies;
`CommandExecution` takes commands that passed `CommandIntake`. The Boolean answer of the limiter, of
admission and of the gate is a nondeterministic choice in the modules that meet it, and the subject
of a module of its own.

**Suites.** Components that share no variable are not put into one product: a module such as
`MCService` extends or instantiates several of them, and a variable `scenario`, chosen in the initial
state, says which one the behaviour is of; the others stay where they began, or their variables are
`"off"`. So one run explores its scenarios one after another.

## 3. Correspondence

`PROJECT.json` maps every definition to its lines. What follows is how to read the modules beside
the code.

### 3.1 Kernel

A handler `handleX` is the operator `CanX` (the conjunction of the checks it passes before it emits)
and the events it returns; `Escrow!X` is the handler run through `applyCommand`, which first refuses
terminal cells. The state record has the fields of `CellState` that handlers read. A version is a
position in the stream. `evolve` is `Evolve`: it refuses gaps and events behind a terminal one.
Currency and description are one Boolean, `textOk`. Error codes, event ids and texts are left out: a
rejected command emits nothing. "now" is any timestamp in every step, since a command reads its clock
before it is ordered. Streams that start with a `CellCreated` of before acceptance existed are
initial states.

### 3.2 Execution

A worker is one request in flight; `pc` is the statement it will run next:

| pc | Action | Code |
|---|---|---|
| idle | `Receive` | `handleCommand` up to `execute`: clock, alignment, fingerprint |
| begin | `ClaimCommand` | `INSERT command_executions`, replay or conflict |
| load | `LoadCell` | `getEvents`, `evolve`, and `applyCommand` when no check comes between |
| check | `CheckDispute` | `SELECT ... FOR UPDATE` of the receipt, the dispute query, `applyCommand` |
| claim | `ClaimReceipt` | `INSERT funding_receipts` |
| append | `AppendEvents` | `INSERT events`; on a key violation the transaction is aborted |
| commit | `Commit`, `CommitUnacknowledged` | `UPDATE command_executions`, `COMMIT` |
| save | `SaveSnapshot` | snapshot upsert, errors swallowed |
| any | `RollBack`, `Crash` | a failed statement; the death of the replica |

Writes of an open transaction live in the worker's record and reach the tables in `Publish`.
Waiting is a guard: a worker cannot pass a row or a unique key an open transaction holds
(`HoldsCommand`, `HoldsReceipt`, `HoldsClaim`, `HoldsRows`). The load of a cell and the synchronous
code up to the next statement are one step: nothing can interleave with code between two awaits.
A provider's reversal is its own transaction (`OpenNegative`, `RecordNegative`), which locks the
receipt if there is one; a disposition that keeps the funds lifts it (`LiftNegative`). `author`,
`sent` and `replies` are history variables for the properties and the send bound.

`InMemoryExecution`: `tails` is the chain of promises per command id; a step runs to the next await,
writes take effect where they are made, and nothing is rolled back. `Turn` is the guard that a command is
the head of its chain.

### 3.3 Providers

`FundingReconciliation`: a worker is one call of `reconcileObservation`; its statements are
`RecordObservation`, `LookUpNegative` or `LookUpCredit`, `RecordNegative` or
`CorrelateTransaction`, `ReadCheckpoint`, `PutCheckpoint`, each a transaction; `Interrupt` is a
failed statement or a death between any two. `missed` keeps the observations that were interrupted
or looked up before any correlation, which the property must name as exceptions.

`FundingDispute`: `RecordDispute` is the versioned `record`; `Resolve`, `ListPrior`,
`AppendDisposition` are the three awaits of a resolution; a settlement holds the receipt row from
`CheckSettlement` to `EndSettlement`, every other transaction is one step because it locks that row.

`ProviderInbox`: a call of `processInboxEvent` reads its clock in `Start`, claims in `ClaimEvent`
with that old reading, works, and completes or fails. Time is relative (what is left of a lease,
the age of a reading), so that no clock bound is needed. `CompleteThrows` is the statement that
fails, or takes effect and loses its answer: the same `catch`.

`ProviderStores`: each call is made of both stores in one step and their answers compared.

### 3.4 Access

`PrincipalAuthority`: `Get` reads the version a change starts from, `CreatePrincipal` and `Mutate` are
transactions on the principal's row with its triggers and unique keys, `Abandon` is a caller that
never writes; `ResolveRow` and `ToRecord` are resolve's two queries. `AdmissionQuarantine`: each
caller and command runs on a replica with its own clock, at most `Skew` ahead of real time.
`TrustedIngress`: one action per await; `Administer`, `CreateCell`, `Redirect` and `Tick` are the world
that changes in between.

### 3.5 Edge

`CommandIntake` follows one body through the layers: the value of a field is one of the kinds the
code tells apart (absent, blank, control characters, digits, ...). Each delivery reads the server's clock
anew (`ServerTime`) and puts the reading into deadline commands before their fingerprint is taken; the store
executes an id once (`ExecuteOnce`), answers later deliveries from the record (`Replay`), and its answer may be
lost (`Fails`). `RateLimiter` splits the one
statement of `consume` where PostgreSQL lets statements overlap: clock and snapshot (`ReadClock`),
the upsert that waits for the row (`Attempt`), the cleanup (`Cleanup`). `JwksCache`: a flight is a
fetch under way with the requests waiting for it; answers carry the keys published when the issuer
answered. `PublicIngress`: a request is built by a client and possibly a proxy, header by header;
the actions say which header the proxy sets and which it hands on. `RuntimeConfiguration`: `Load` is
one loader (what the launcher asserts around them is three steps), `Repair` is the operator who sets right the variable that was named.

### 3.6 Service

`Runtime`: `start` is how far `main` came, `request` where `route` stands, `stage` where
`performShutdown` stands; both races with the timer are visible (`Disconnect` after drain or
expiry, `GivesUp` afterwards). `SchemaMigration`: a migrator holds the advisory lock, applies the
versions one after another on its own copy and publishes at `Commit`. A server of the release that made the
database goes on recording receipts and events: it waits while a version rewrites their table (`Rewrites`) and
is then accepted if the constraints committed by now allow the row, after COMMIT too; `late` keeps such rows
that no version completes any more. The intents and routes it would write are left out. `Readiness`: time runs in halves of the time limit; a
probe given up goes on. `SecurityAlerts`: `up` and `alertsUp` say which sinks fail at a call; the
report of the failure is the next step.

### 3.7 Development

`DevelopmentProvisioning`: two reads, a creation, two reads after a lost race. `PrototypeFunding`:
one action per await of `handlePrototypeFunding`. `FrontendSession`: a call is a promise under way,
with the mount and request number it was made in; publication, render and effects are one step since
no answer of the network comes between them.

## 4. Runs

All use two TLC workers and finish in less than five minutes. `CHECK_DEADLOCK FALSE` everywhere: a
closed cell accepts nothing, clients that have sent their requests stop, a process that exited does
nothing more.

| Run | States | Scenarios |
|---|---|---|
| `Escrow` | 101,249 | one cell |
| `Execution` | 401,959 | `settlement`, `funding`, `retries` |
| `ProviderFunding` | 574,568 | `payments`, `reversals`, `resolutions`, `disputes`, `inbox`; in memory `fundings`, `blocks`, `stores`, `cursor` |
| `Access` | 998,711 | `administration`, `resolution`, `quarantine`, `retries`, `acting`, `reading`, `funding` |
| `Edge` | 1,069,225 | `intake`, `rate`, `configuration`, `rotation`, `credentials`, `ingress` |
| `Service` | 440,480 | `process`, `migration`, `alerts`, `ready` |
| `Development` | 1,419,849 | `room`, `switching`, `session`, `provisioning`, `funding`, `repeating` |
| `Progress` | 73,647 | `postgres`, `memory`, `inbox`, `rate`, `process`, `ready` |
| `RetryReplays` | violated | `retries` of `MCExecution` |
| `RateBoundary` | violated | `MCRateLimiter` |
| `MemoryAtomic` | violated | `fundings` of `MCProviderFunding` |
| `ProvisioningRace` | violated | `MCDevelopmentProvisioning` |

### 4.1 Properties

Each property of a suite is a conjunction of the named properties of its modules, which are stated
and explained there.

*Escrow.* `TypeOK` (the fold of what the handlers emit is a cell, never an error), `StreamReadable` (`evolve`
reads back what `applyCommand` wrote), `HistorySound` (money moves in once, after acceptance, and out
once), `SettlementAuthorised` (two of the three parties, or a deadline), `ExitExists` (no money is
trapped), `DisputeFreezes`, `TermsImmutable`, `ImplementsCustody` (refinement of `TwoOfThreeEscrow`).

| Run | Property | Its parts |
|---|---|---|
| Execution | `StoresSound` | `TypeOK`, `StreamsIntact` (no fork, every stream evolves), `SnapshotsSound` (a snapshot is a state the cell had) |
| | `EffectsSound` | `ExactlyOnce` (a command's events and its ledger row agree), `ReceiptBacksFunding` (a receipt exactly for funded cells, one cell per provider transaction) |
| | `AnswersDurable` | what a client is told, unless it is a failure, is on record for that request |
| | `BlockedStaysUnsettled` | `UnsettledWhileBlocked`: no settlement commits against a reversal that held its receipt |
| | `CommitsLikeKernel` | `StepsLikeEscrow`: a commit is a step of `Escrow` on the cell |
| ProviderFunding | `CorrelationsJustified` | a payment is attributed only to the one intent its observation matches |
| | `ReversalsRecorded` | a handled reversal has a negative, written before its checkpoint moves; checkpoints are not behind |
| | `ResolutionsSound` | `SeriesIntact`, `BlockLiftedByProof`, `ResolversAccountable` |
| | `SettledUnblocked` | no settlement of a cell that is blocked when it commits, over versions of disputes in any order |
| | `InboxSound` | `LeaseHeld`, `ProcessedAfterWork` |
| | `MemorySound` | what the in-memory stores keep: `StreamsIntact`, `SnapshotsSound`, `AnswersDurable`, `OnceSettled` (one effect per settled command), `FundingsHaveReceipts`; `BlockedAlike` (both dispute stores block the same cells), `StoresAgree`, `CursorNotForked` |
| Access | `PrincipalsSound` | `ActorsUnambiguous`, `NoLostChange`, `AuditExplains` |
| | `ResolvedFresh` | what resolve's two queries return was never older than the call |
| | `QuarantineHolds` | it holds from issue to end or release, on every replica up to the skew; it ends; repetitions are told what is stored |
| | `PartiesOnly` | `ActsForItself`, `OnlyPartiesRead`, whatever changes between the awaits |
| | `FundedAsAgreed` | a funding has the intent, destination and amount that were agreed |
| Edge | `IntakeSound` | `Trustworthy`; `LayersAgree` (a body in order is executed, any other refused with 400, with 403 if it is a plain funding); `RetriesRecognised` (a repetition gets the recorded result, except a deadline command repeated at another time of the server); `RefusalsCommitNothing` |
| | `RateSound` | `ExactBoundary` (the limit is exact in each window), `RejectedAtLimit`, `RetryInTime` |
| | `ConfigurationSound` | `ComposedIsSound`, `PrototypeStaysHome`, `NamedOnce` |
| | `KeysSound` | `RevocationTakesHold`, `FetchesSpread`, `AcceptedInTime` |
| | `KeysFresh` | `FindsNewKey`, `KeepsNewest` |
| | `IngressSound` | `HostsCovered`, `ForwardingConsistent`, `SourceTrue` |
| Service | `RuntimeSound` | `SlotsBounded`, `WorksConnected`, `CleanExit` |
| | `MigrationSound` | `AllOrNothing`, `VerifiedIsComplete` (every row carried over, except what an old server records after the version that completes it), `ScopesNotInvented`, `ExitsJustified` |
| | `AlertsSound` | `SurgeTold`, `ResolvedInTime` |
| | `ReadinessSound` | `ReadyIsRecent`, `AnsweredInTime`, `ProbesSpread` |
| | `StepsSound` | `BeginsNothingNew`, `LosesNothing`, `AlertsTruly`, `StaysUnready` |
| Development | `FrontendSound` | `SessionOfRole`, `CellOfShownRole`; `NeverOlder`, `OneCommandAtATime`, `RoomSettled` |
| | `ProvisioningSound` | `ReportsTrue`, `ConflictExplained`, `LostRaceAccepted` |
| | `PrototypeSound` | `FundedByItsIntent`, `PayerAsked`, `RepetitionRecognised` |
| Progress | `RequestsEnd` | every request over PostgreSQL or in memory ends |
| | `ServicesProgress` | recorded events are processed, rate decisions made, a told process stops, a live database is found ready |

### 4.2 Bounds

*Escrow*: three actors (payer, payee, arbiter; each also plays the stranger in the others' roles),
clock 0..3 with deadlines 1 and 2, so each deadline is met before, at and after; amounts 0..2 with 2
agreed; two good terms and one broken for every check. The state graph is finite without a further
bound: a cell accepts finitely many commands.

*Execution*: two workers (every hazard listed is a race of two; workers are symmetric), one or two
cells, clock readings 1 and 3 (before and after both deadlines), each request sent once or three times
(`retries`: a first attempt, a concurrent one and a late one); at most one
reversal per cell. Cells start from a prelude another command wrote: agreed, release
requested, or disputed, whichever the race is about.

*ProviderFunding*: two workers (reconciliation) or three (inbox, so that one can hold, one have lost
and one take a lease); every observation delivered once, or twice where reversals are redelivered;
two intents and routes in one account and a second account with the same transaction ids; at most
three troubles in the inbox (a crash, a failure and an outlived lease can meet); in memory,
each request twice; two resolvers with two requests
each; versions 1 and 2 of a dispute in both orders and under a wrong amount.

*Access*: two administrators and up to four versions; quarantines of up to three time units with a
skew of one; three requests at the ingress, two changes of directory or destinations, destinations
`d1` and `d2`, deadlines inside the clock's range.

*Edge*: every single wrong field of a body, two readings of the server's clock (so a repetition meets the same or another), every single wrong configuration variable with each of
its boundary values, and all combinations of the windows and timeouts that are compared with each
other; three calls of one key and one of another over two windows, limit 2; three requests and two
changes of keys over a cache time, a fetch time and a cooldown; two clients, a trusted proxy and
another, headers absent, empty, lists, forged or true.

*Service*: three requests and a probe with two slots; two migrators started three times in all, on databases that are empty,
without a table of versions or of releases 5, 7 and 9, whose servers record one receipt without an intent, one with, and one event more; thresholds of one and two within windows of two; three
probes outstanding. *Development*: two roles, up to three switches, two clicks and two failures; two
operators with two runs each and two foreign changes; three funding requests.

*Progress* uses the smallest instances in which a wait can form: two workers, three calls, two events.

### 4.3 Fairness

Only `Progress` uses it. *Requests over PostgreSQL*: a worker's next statement is strongly fair,
since PostgreSQL queues waiters for a row or key and grants them in order; a reversal in flight is
weakly fair, since a transaction of two statements commits. *In memory*: promises that are resolved
run. *Inbox*: time passes, calls under way go on, and workers keep polling every event (strong:
polling meets an event that is claimable again and again); crashes and failures are bounded.
*Limiter*: statements run; nothing makes the clock stop. *Process*: the timer and the continuations of the event loop run
(`Expire`, `Disconnect`, `GivesUp`); clients, commands, connections and the database need not.
*Readiness*: timers fire, callers ask again, what the database answers arrives, on the premise that
it stays up. Nothing makes clients send, statements fail, replicas crash or providers reverse.
PostgreSQL's deadlock detector is not modelled: the run shows that the waits of these requests form
no cycle (each acquires the ledger row first, then at most one of receipt row and receipt key, then
its version).

### 4.4 Broken variants

Definitions marked "Broken" beside the real ones are mutants: the property listed with each in
`PROJECT.json` is violated when the definition it varies is replaced by it.

## 5. Findings

Four runs expect a violation: the code does not do what a test, an error text, an interface or a
comment of the repository says.

* `RetryReplays`: `handleCommand` puts the clock reading into `ExpireCell`, `ForceRefund` and
  `OpenDispute` before it fingerprints the command (`src/application/cell-application.ts:153`). A
  client that repeats such a request, because it did not hear the answer, is told
  `IDEMPOTENCY_CONFLICT` ("commandId was already used for a different command",
  `src/application/errors.ts:76`) once the clock has moved, where the tests
  (`src/application/cell-application.test.ts:314`) say that the same id and content replay. The
  effect still happens only once (`EffectsSound`).
* `RateBoundary`: the cleanup deletes a row at `window_start + retention`, and the configuration
  accepts a retention equal to the window (`src/composition/main.ts:217`). A statement that read the
  clock in the old window and counts after the row was deleted starts at one again. With a retention
  of the window and the longest statement `RateSound` holds (`RateIsSound`).
* `MemoryAtomic`: the in-memory command store undoes nothing, so a funding that loses the race for
  its version keeps its receipt, and its id replays a failure for good; the interface
  (`src/adapters/command-execution-store.ts:16-18`) asks for one atomic unit.
* `ProvisioningRace`: of two operators that bootstrap the same principals one may refuse an exact
  mapping, if the other's creation commits between its two reads
  (`src/development/provision-development-actors.ts:89`); the comment at line 108 provides for the
  race of the creations only.

Limits of the code that the properties name as their exceptions, or that no text of the repository
speaks of:

* A negative that is recorded while the cell has no receipt finds no row to lock and is not ordered
  with a settlement that follows (`BlockedStaysUnsettled` speaks of those that held it).
* A worker that dies after recording an observation and before the negative, or a reversal that is
  looked up before its payment was correlated, leaves no negative: the redelivery is a duplicate
  (`ReversalsRecorded`, history `missed`). Negatives written by reconciliation name no receipt and
  cannot be lifted by the resolution ingress (`BlockLiftedByProof`).
* In memory, a settlement and a reversal are not ordered at all.
* A server of an older release may still be recording when a migration commits. Version 8 adds no constraint to the
  table of events (`src/adapters/postgres-migrator.ts:384`), so an event that a server of release 7 records
  afterwards has no row of processing and is never claimed; version 10's trigger compares with `NULL`
  (`src/adapters/postgres-migrator.ts:570`), so a receipt of releases 6 to 9 is accepted without a scope though its
  intent has one (`VerifiedIsComplete`, history `late`).
* An inbox lease is fenced by worker id: two calls at once under one id could finish each other's
  claim. `LeaseHeld` is checked with one call at a time per id.
* `createFundingIntent` stamps the current time, so a repetition whose first answer was lost meets
  `CONFLICT`; of two concurrent prototype fundings under one id the second may be told
  `FUNDING_EVIDENCE_INVALID`.
* An exact repetition of a quarantine's issue after its end is answered `INVALID`.
* An IPv6 address written with a dotted tail under another prefix than `::ffff:` is normalised group
  by group (`src/transport/command-https-transport.ts:240`) and shares the limiter key of others.
  `PublicIngress` models the spelling; `IngressSound` is checked and proved for
  addresses in the spellings that are read as themselves.
* Frontend: a token for the previous role that is answered last selects that role again
  (`frontend/src/api.ts:99`); until the new role's token is answered, clicks on the old screen are
  sent with the new role (`api.ts:66`); a click's reload that begins after a role switch takes the newest
  request number with the old scope (`ui.tsx:91`), so the new role's answer is dropped and the room
  stays on its placeholder until the next switch. `FrontendSound` says what does hold;
  `RoomSettled` is checked for rooms without a click.

## 6. Proofs

`tlapm <module>.tla` checks each module of proofs. The theorems hold for every value of the constants that
satisfies the assumptions named, so the bounds of section 4.2 play no part; TLC evaluates the assumptions
a module declares on the runs that use it. *Linked* is the property of a run that a theorem states.

| Module | Theorem | States | Linked |
|---|---|---|---|
| `EscrowProofs` | `Invariant` | `Spec => []IInv` |  |
|  | `TypeCorrect` | `Spec => []TypeOK` | `TypeOK` |
|  | `StreamsReadable` | `Spec => []StreamReadable` | `StreamReadable` |
|  | `SettlementsAuthorised` | `Spec => []SettlementAuthorised` | `SettlementAuthorised` |
|  | `ExitsExist` | `Spec => []ExitExists` | `ExitExists` |
|  | `DisputesFreeze` | `Spec => DisputeFreezes` | `DisputeFreezes` |
|  | `TermsAreImmutable` | `Spec => TermsImmutable` | `TermsImmutable` |
|  | `HistoriesSound` | `Spec => []HistorySound` | `HistorySound` |
|  | `KernelImplementsCustody` | `Spec => ImplementsCustody` | `ImplementsCustody` |
| `ExecutionProofs` | `AnswersAreDurable` | `Spec => []AnswersDurable` | `AnswersDurable` |
|  | `CommandsExactlyOnce` | `Spec => []ExactlyOnce` |  |
|  | `ReceiptsBackFundings` | `Spec => []ReceiptBacksFunding` |  |
|  | `EffectsAreSound` | `Spec => []EffectsSound` | `EffectsSound` |
|  | `StoresAreSound` | `Spec => []StoresSound` | `StoresSound` |
|  | `BlockedFundsStay` | `Spec => BlockedStaysUnsettled` | `BlockedStaysUnsettled` |
|  | `CommitsAreSerial` | `Spec => CommitsLikeKernel` | `CommitsLikeKernel` |
|  | `MemoryIsSound` | `MemorySpec => []MemorySound` | (part of the run's `MemorySound`) |
| `FundingProofs` | `LeasesHold` | `InboxSpec => []LeaseHeld` |  |
|  | `ProcessedAfterCallback` | `InboxSpec => []ProcessedAfterWork` |  |
|  | `InboxIsSound` | `InboxSpec => []InboxSound` | `InboxSound` |
|  | `ReconciliationInvariant` | `ReconciliationSpec => []ReconciliationInv` |  |
|  | `CorrelationsAreJustified` | `ReconciliationSpec => []CorrelationsJustified` | `CorrelationsJustified` |
|  | `ReversalsAreRecorded` | `ReconciliationSpec => []ReversalsRecorded` | `ReversalsRecorded` |
|  | `DisputeInvariant` | `DisputeSpec => []DisputeInv` |  |
|  | `ResolutionsAreSound` | `DisputeSpec => []ResolutionsSound` | `ResolutionsSound` |
|  | `SettlesOnlyUnblocked` | `DisputeSpec => SettledUnblocked` | `SettledUnblocked` |
|  | `StoresAreAlike` | `Both!Spec => [](Both!StoresAgree /\ Both!CursorNotForked)` | (part of the run's `MemorySound`) |
| `AccessProofs` | `IngressInvariant` | `IngressSpec => []IngressInv` |  |
|  | `ActsAndReadsForItself` | `IngressSpec => []PartiesOnly` | `PartiesOnly` |
|  | `FundsAsAgreed` | `IngressSpec => []FundedAsAgreed` | `FundedAsAgreed` |
|  | `AuthorityInvariant` | `AuthoritySpec => []AuthorityInv` |  |
|  | `PrincipalsAreSound` | `AuthoritySpec => []PrincipalsSound` | `PrincipalsSound` |
|  | `ResolutionsAreFresh` | `AuthoritySpec => []ResolvedFresh` | `ResolvedFresh` |
|  | `QuarantineInvariant` | `QuarantineSpec => []QuarantineInv` |  |
|  | `QuarantinesHold` | `QuarantineSpec => []QuarantineHolds` | `QuarantineHolds` |
| `ServiceProofs` | `RuntimeInvariant` | `ProcessSpec => []RuntimeInv` |  |
|  | `TransportBounded` | `ProcessSpec => []SlotsBounded` |  |
|  | `WorkBeforeDisconnect` | `ProcessSpec => []WorksConnected` |  |
|  | `ZeroExitIsClean` | `ProcessSpec => []CleanExit` |  |
|  | `RuntimeIsSound` | `ProcessSpec => []RuntimeSound` | `RuntimeSound` |
|  | `ShutdownBeginsNothing` | `ProcessSpec => [][BeginsNothingNew]_processVars` |  |
|  | `MigrationInvariant` | `MigrationSpec => []MigrationInv` |  |
|  | `MigrationsAreSound` | `MigrationSpec => []MigrationSound` | `MigrationSound` |
|  | `MigrationsLoseNothing` | `MigrationSpec => [][LosesNothing]_migrationVars` |  |
|  | `ReadinessInvariant` | `ReadinessSpec => []ReadinessInv` |  |
|  | `ReadinessIsSound` | `ReadinessSpec => []ReadinessSound` | `ReadinessSound` |
|  | `NobodyReadyOnceClosed` | `ReadinessSpec => [][StaysUnready]_readinessVars` |  |
|  | `AlertsTellSurges` | `ASSUME AlertAssumption PROVE AlertsSpec => []AlertsSound` | `AlertsSound` |
|  | `AlertsTellTruly` | `ASSUME AlertAssumption PROVE AlertsSpec => [][AlertsTruly]_alertVars` |  |
| `EdgeProofs` | `RateInvariant` | `RateSpec => []RateInv` |  |
|  | `RejectionsAreFair` | `RateSpec => [](RateTypeOK /\ RejectedAtLimit /\ RetryInTime)` |  |
|  | `RateIsSound` | `RateSpec => []RateSound` | `RateSound` |
|  | `KeysInvariant` | `JwksSpec => []KeysInv` |  |
|  | `KeysAreSound` | `JwksSpec => []KeysSound` | `KeysSound` |
|  | `KeysAreFresh` | `JwksSpec => KeysFresh` | `KeysFresh` |
|  | `IngressIsSound` | `ListenerSpec => []IngressSound` | `IngressSound` |
|  | `IntakeIsSound` | `IntakeSpec => []IntakeSound` | `IntakeSound` |
|  | `ConfigurationIsSound` | `ConfigurationSpec => []ConfigurationSound` | `ConfigurationSound` |
| `DevelopmentProofs` | `PrototypeFundsOnce` | `ASSUME PrototypeAssumption PROVE PrototypeSpec => []PrototypeSound` | `PrototypeSound` |
|  | `BootstrapAgrees` | `ASSUME ProvisioningAssumption PROVE ProvisioningSpec => []ProvisioningSound` | `ProvisioningSound` |
|  | `PageSound` | `ASSUME FrontendAssumption PROVE FrontendSpec => []FrontendSound` | `FrontendSound` |

`KernelProofs` has no theorem to list but the lemmas that `EscrowProofs` and `ExecutionProofs` rest on.

**The fold** (`KernelProofs`). `Evolve` is a recursive function over positions of a stream. The library's
induction theorems take a predicate, which no installed prover can instantiate; `KernelProofs`
states induction over a *set* of numbers instead (a set of counterexamples has a least element, from
well-foundedness) and derives: the equation of the recursion, `Evolve` of a stream that grows by one event,
`Evolve` of prefixes, and that an unreadable stream stays unreadable.

**The kernel** (any actors, amounts, times and terms; assumptions: `NoActor` is no actor, amounts and
times are naturals, terms have their type). `SettlementAuthorised` speaks of events in the stream,
the handlers decide on the folded state; the inductive invariant `IInv` ties the two: `TypeOK`;
`PartiesDistinct`, a cell is the initial state or has two different parties and an arbiter who is
neither; `RequestsOnRecord`, whoever the state says requested a release or a refund has an event in
the stream that says so, and a disputed cell a party's `DisputeOpened` and an arbiter; and
`SettlementAuthorised` itself, which later events cannot disturb since nothing follows a settlement.
Lemmas state what appending does to a stream and what each event does to a state; `NextSafe` has a
case per handler; `StepShape` says what a step can be, from which the action properties follow.
`StreamsReadable` adds that the fold of the stream *is* the state, from the lemmas of `KernelProofs`.
For the refinement there is a lemma per handler that its step is the corresponding step of
`TwoOfThreeEscrow`, or a stutter, under the mapping at the end of `Escrow`.

**The history.** `HistorySound` counts and orders events, which needs a second invariant, `Story`: the
stream opens with the terms the state has (`Opened`), an acceptance or rejection in the state is on
record (`Consented`), the status says whether the one funding is on record (`Deposited`) and which
last event closed the cell (`Closed`), and each funding was the payer's, in time and consented to
(`Funded`). `Allowed` gathers what handlers check before they emit; `Continues` shows that an
allowed event continues a story, `Begins` that a `CellCreated` starts one, and an award is two
allowed events.

**Execution** (any number of replicas, cells, requests and repetitions). Hypotheses of the theorems:
`WellFormed` (requests carry commands of their types, initial rows are events, the prelude's id and
transactions are not the clients'), `Sentinels` (`Absent` is no row) and, where streams are
read, `KernelWritten` (the streams there at the start can be folded, as those the kernel wrote can).
The inductive invariant `Inv` is `Typed` with `Locks`, what a request in flight knows of the tables from the locks it
holds (`Knows`, `Outcomes`) and that no two hold the same command id, event version, cell receipt or
provider transaction (`Apart`); `AnswersInv` and `ReceiptsInv`; `StreamsInv`, every stream folds to a cell;
`WorkersInv`, what a request loaded is a prefix of the stream and its events are what the
handler emits on the state that prefix folds to; `GuardsInv`, a request past its dispute check holds the receipt's
row, so a blocking negative is not recorded beside it; and `SnapshotsInv`. One lemma per statement of the
transaction: a commit publishes rows that no other commit can have taken meanwhile, a rollback or crash nothing.
`CommitsAreSerial` concludes that a commit is one handler of `Escrow` applied to the *current* state
of the stream, because the version it was decided on can only have been the last: with
`KernelImplementsCustody`, concurrent requests keep the promise of `TwoOfThreeEscrow`. So the unique keys, the row
locks and the order of the statements are enough for these properties.

**Execution in memory** (the same hypotheses, and `ReportsAssumption`: versions of reports are naturals).
There are no locks and no rollback, so `MemoryInv` says other things: the chain of a command id holds its requests
until they have a result, and only its head has begun (`Queued`); what the head of a chain knows of the stores stays true
while others write, since nobody else decides under its id (`MemoryRequests`); effects and records agree but for
requests still between the two (`MemoryEffects`); `StreamsInv` and `SnapshotsInv` as above,
and `EvidenceInv`: of each dispute one report has the last version, and the dispositions of a cell are numbered without
gap, which makes the in-memory lookups and PostgreSQL's queries block alike.

**The inbox** (assumption: a claim's clock reading is younger than the lease). `LeaseHeld` needs in
addition that no two calls share a worker id (`WorkersDistinct`, a hypothesis of the theorem);
`ProcessedAfterWork` does not. `LeaseInv`: a worker within its lease owns the row and both agree on the
time left. `WorkInv`: who is about to complete has returned from the callback.
That the stores of the foundation agree (`StoresAreAlike`; `StoresAssumption`: readings and bounds are naturals,
`NoneIsNothing`: the sentinel is no state and no checkpoint) is an induction over calls: both contents are *equal* and typed, there is
a row exactly for the identities with an event, and the cursor is the last checkpoint a writer was told of, or a later
one (`StoresInv`); the lemmas `...Alike` show that each pair of implementations answers and writes alike on equal contents.

**Reconciliation and disputes** (`FundingProofs`; assumptions: observations have a time and a state of
the interface, a bound is a natural). `ReconciliationInv`: the keys of each table; what a worker carries from its
earlier transactions is still in the tables (`TasksInv`: rows are never taken back, so what was looked up
stays true), a correlation matches an observed credit, a negative its correlation, and a
reversal that was recorded is `missed`, under way or has its negative (`ReportedInv`).
`DisputeInv`: what a resolution holds from its two unlocked reads is backed by a proof and a
negative on record (`RequestOK`), the dispositions of a negative are numbered without gap
(`SeriesInv`, by the cardinality of the series), each dispute has a last version (`VersionsInv`), and
while a settlement holds the receipt row nothing blocks (`CheckedInv`).

**Access** (`AccessProofs`). `IngressInv` (`IngressAssumption`: requests name identities and cells that exist):
everything a waiting request carries is justified by a record of its identity, a destination or an intent that was
there at some time since it began (`Justified`); these sets only grow, so an await does not disturb what others
justify. `AuthorityInv` (`VersionAssumption`, `ChangesAssumption`: changes are of their types): the audit explains
each row, the switch by its last switching entry and each capability by the entry that settles it
(`AuditOK`); an administrator knows no later version than the row's (`AskedInv`), and a resolution's two reads go
forward in the versions of one principal (`ResolvingInv`). `QuarantineInv` (`QuarantineAssumption`):
rows are kept, calls and lookups carry lower bounds of the rows and clocks within `Skew`, and a
conflict is about something taken for good.

**The process and its database** (`ServiceProofs`). `RuntimeInv` (finitely many requests, a positive limit): the counter is the
number of requests that hold a slot (`Slots`), start and shutdown pass their stages in order and the
pool is open in between (`Ordered`), and work that began is under way or answered (`Answered`).
`MigrationInv` (`DatabasesAssumption`: the databases found satisfy the keys and triggers of the versions
they are at, `Constrained`): whoever applies versions holds the lock (`Stands`), its copy satisfies the constraints of the
versions it reached and carries everything committed so far (`Copies`, `Carries`), rows of the old
server included; a database that has a version is complete as that version makes it, but for `late` rows (`Complete`).
So a commit publishes a whole database and no migrator fails on its data.
`ReadinessInv` (`ReadinessAssumption`): every probe but that of the check under way has been given up
and the check's is as old as the check (`Aged`), what is cached or answered bounds the time since the database was up
(`Fresh`), and a caller waits no longer than the check runs (`Patient`).

`AlertsInv` (`AlertAssumption`: finitely many signals with positive thresholds, a window and an interval): the times
kept of a signal are the last of those of the window that were seen, as many as its threshold (`Retaining`), behind those that
happened by no more than the failure about to be reported (`Behind`), and a signal is active exactly if its
last alert told FIRING; a surge not told is one whose alert was lost or which is still to be reported (`Owed`), and what is active
had an event within a window of the last heartbeat (`BeatSound`).

**The edge** (`EdgeProofs`). `RateInv` (`RateAssumption`: finitely many calls, a positive limit, a retention of at
least the window, as the configuration checks): a row counts no more than the calls its window let pass
(`RowsCounted`), and exactly those while every statement that read the clock in the window finds its row (`RowsExact`). The
latter needs `RowsOutlive`, a retention of the window *and* the longest statement, which the configuration does not ask
for: `RateIsSound` has it as a hypothesis, `RejectionsAreFair` does not, and the run `RateBoundary` shows what happens without it.
`KeysInv` (`ConfigAssumption`: what `validateConfig` demands, finitely many keys, times that are numbers): a kept set or fetched document
was what its issuer published at a moment (`PublishedAt`, a statement about the history of each key that stays true when issuers
go on changing, `PublishedKept`); there is one fetch per issuer, out no longer than its timer and begun no earlier than the moment of the set kept
(`Fly`); exactly the requests that wait are a fetch's (`Waits`); and the last fetch for an unknown key is out, failed, or brought a set of its
time (`Asked`), from which `KeysFresh` follows. `ListenerInv` (`IngressAssumption`: no client is a trusted proxy, proxies spell
addresses as `PublicIngress` reads them): a listener that listens found its certificate valid. Each request is a step of
its own, so the argument is about `Admitted`: forwarding headers that are valid name one source (`SourcesAgree`), and the
trusted proxy's is among them (`ProxyNames`).

`IntakeInv` (`IntakeAssumption`: requests are bodies of the interface, times of the server are not values a client writes): a plain command that was decoded is well-formed and
carries the decoded fields of its body (`PlainCarries`), a funding carries what the ingress verified (`FundingCarries`), and
what is recorded or was executed is `Final` of the body at some time of the server, and an answer is the record's,
a failure, a refusal from before, or the conflict of another time (`IntakeAnswers`). `BothLayers` proves that the
two layers, field by field, accept together exactly what `InOrder` says once, and `OtherTextIgnored` that a retry which
writes something else around its fields becomes the same command. `ConfigurationInv` (`ConfigurationAssumption`: an
environment says of every variable that is looked at what it is, if only that it is absent; what an operator is told to
set is right where all is set so, and is on the safe side of what it is compared with): the loaders that ran found nothing
wrong in the environment as it is, and a variable that was repaired has its good value. A check judges the variable it names and
no other, except five that compare (`ChecksAlike`); those pass once their variable is right and the checks before them
pass (`RightedPasses`), so no variable is named twice, in any order of repairs.

**The development programs** (`DevelopmentProofs`). `PrototypeInv` (`PrototypeAssumption`: requests name cells): what a
request carries past an await fits an intent on record or one it is about to open, what the ledger keeps of a command is the context of
the one intent of its id, whoever executes it and when, and a receipt is that of a command that succeeded. `ProvisioningInv`
(`ProvisioningAssumption`: fixed principals, foreign rows of their type): of one name one operator at most creates or reported a creation,
every row that was exact while a run went on is `witnessed`, and what an operator read of a principal that was exact since it came to
it is exact. `FrontendInv` (`FrontendAssumption`): the load that would be shown is the only one of its number and mount, has the
scope the room waits for, was made with a token of the role on screen and is not behind what was shown; while page and
selection differ a switch is on its way.

**Only model-checked.** Liveness (under fairness, outside the prover): `RequestsEnd`, `ServicesProgress`.

## 7. Not modelled

* **Open protocol package**: re-exports the kernel and its types.
* **Operations scripts** (`scripts/*.cjs`): sequential programs over processes, containers, files and signatures.
* **Transport I/O**: sockets, header limits, encoding of responses; `src/development/`'s token route, identity
  issuer, start and stop of the launcher; pages, forms and formatting of the frontend.
* **Cryptography**: a signature is valid or not, evidence verifies to one of a set of contexts, digests
  are injective.
* **Within modelled components**: listings for operators, their order and limit; metrics counters and
  log redaction; currency and text validation beyond accept or refuse; event ids (a collision is one
  more failing statement); more than one reversal per cell over PostgreSQL in `CommandExecution`
  (`FundingDispute` has several); exhaustion of the connection pool (a request holds one connection
  at a time: the snapshot is saved after the transaction's is released); migrations that only create
  tables, whose keys are the waits and conflicts the other modules assume; `clear` of the JWKS cache,
  which only tests call.
* **Adapters in memory** other than command execution, inbox and cursor: keyed maps without awaits between
  a read and its write.

## 8. Plan

Done: the kernel with its abstract specification, refinement and proofs; command execution over both
kinds of stores; providers, access, edge, service and development, each checked.

Next: creation commands in the execution runs.
