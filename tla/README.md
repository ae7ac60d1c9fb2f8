# Verification of the banking monorepo

TLA+ specifications of the bank and telemetry services of this repository, checked with TLC and
proved with TLAPS. Everything is translated from the code under `src/`; Postgres, Redis, BullMQ,
kafkajs and jose are modelled from the way that code uses them, and what stands for them alone is marked
external in `PROJECT.json`.

## Inventory

| component | state it keeps | operations | what is hard about it |
|---|---|---|---|
| Transfer API (`app-apis/modules/transfers`) | the `transfers` row of a key | `POST /transfers`: check, insert, replay, enqueue; `GET /transfers/:id` | two calls with one key; a crash between insert and enqueue; foreign-key row locks |
| Transfers queue (`packages/queue`) | BullMQ jobs in Redis | `enqueueTransfer`, retries with backoff, stalled-job recovery, eviction by count | redelivery, jobs that are given up, the job id as a deduplication key |
| Transfer executor (`packages/shared/transfers`, `apps/executor`) | nothing of its own: one transaction at a time | job processor, `TransferExecutor.execute`, shutdown | row locks in order, checks against a moving world, errors after COMMIT, the rejection written outside the transaction |
| Account locks (`app-apis/modules/locks`) | `account_locks` rows | create, list, release | a lock created while a transfer runs |
| Accounts (`app-apis/modules/accounts`) | `accounts` rows, opening deposits | create, detail, balance, history | history pages while transfers are inserted; two-statement reads |
| Customers, comments | rows | create, read | nothing concurrent of their own |
| Bank schema (`packages/db`) | tables, unique key, checks, foreign keys | | which statement waits for which |
| Auth API, token verifier (`apps/auth-api`, `app-apis/middleware`) | users; the signing key of the process; the verifier's key cache | register, login, `/auth/me`, JWKS; verify | calls that interleave and are cut off; a cached key set against an issuer that restarts with another key; requests that share one fetch |
| Telemetry ingest | one TCP connection per device: buffer, IMEI | login, frames, acknowledgement | a publish that succeeds and an acknowledgement that is lost; back-pressure |
| Teltonika codec (`packages/teltonika`) | the framer's buffer | push, decode, normalise | frames cut at any byte, wrong CRCs, lengths |
| Telemetry events and Kafka client (`packages/events`) | topics, consumer offsets, dead letters | publish, consume a batch, dead-letter, stop | batches cut short, poison messages, redelivery |
| Telemetry consumers | `telemetry` tables, alert states, engine state in memory, vehicle cache | locations, fuel, engine, alerting | duplicates, reordering, restarts between two statements |
| API documentation (`packages/shared/openapi`) | a cached merged document | merge, fetch, serve | sources that fail, return or change while requests are under way; names that collide |
| Deployment, migrations, seeds | | | no logic of the program |

How they interact: an API call writes Postgres and adds a Redis job; an executor process takes the
job, runs one Postgres transaction and reports to BullMQ; account locks and executors meet in the
row locks of `accounts`; every banking route first passes the verifier, which fetches the auth API's key
set; devices speak TCP to ingest, ingest publishes to Kafka, and one consumer
group per concern reads the topics and writes the telemetry database.

What makes each part correct is listed with the hazards in `PROJECT.json`, each at its line.

## Money movement

The modules extend each other, one per component, over one database:

| module | models | source |
|---|---|---|
| `BankDb` | rows of accounts, transfers, account locks; row locks; the invariants of the tables | `packages/db/src/schema` |
| `TransferQueue` | the BullMQ queue: job set, attempts, stalls, the lock of an active job, eviction | `packages/queue/src/transfers.ts` |
| `TransferService` | `POST /transfers` of several concurrent calls | `app-apis/.../transfers/service.ts` |
| `TransferExecutor` | workers: processor and `execute`, one action per statement that matters | `shared/src/transfers/*.ts`, `executor/src/main.ts` |
| `LockService` | account creation, lock creation, release | `locks/service.ts`, `accounts/service.ts` |
| `TransferSystem` | all of it together, its fairness, its system-wide properties | |
| `Ledger` | the abstract specification: accept, execute or reject, freeze, unfreeze | |
| `MCTransfers` | symmetry and the properties that add up balances | |
| `TransferSystemProofs`, `BalanceProofs` | the theorems | |

Correspondence worth knowing:

* A transfer is named by its idempotency key. The unique index and the job id make key, row and job
  the same thing. `payload` is what the request hash covers, so comparing hashes is comparing
  payloads.
* A call of the service is a small state machine (`reqPc`). The insert is two steps, because its
  foreign keys take `FOR KEY SHARE` on the source account and then on the destination account, in
  the order of the migration; `KeyShares` is the state in between.
* A worker is a small state machine (`wpc`): read the row; lock the first and the second account;
  check locks and balance; commit. The two updates, the status and COMMIT are one action: nobody can
  see between them, the rows being locked, and a crash before COMMIT undoes them all.
  `Commit` may end in `errored` — the connection is lost after the server committed.
* `InfraError` is a failing statement at any step, a deadlock victim included. `Crash` is the end of
  the process, the hard exit after the 30 s of a graceful stop included. A graceful stop itself is a
  worker that takes no more jobs.
* `moved`, `deposit` and `exhausted` are history: how often the money of a transfer moved, the opening
  deposit, and the jobs BullMQ gave up.
* BullMQ's delay of a retry is a waiting job that has not been taken yet, and its order is not
  modelled: any waiting job can be next. Redis does not lose what it acknowledged.

### Runs

| run | instance | shows |
|---|---|---|
| `transfers` | 2 accounts, 2 keys, 2 calls, 2 workers, 1 lock, 2 attempts, 1 stall; a live worker keeps its job | types, no overdraft, exactly-once, balanced books, one run per transfer, accepted transfers are never forgotten, one creator per key, executors do not deadlock, locked balances stand, outcomes are final, and the refinement of `Ledger` |
| `progress` | 1 worker, 2 calls, 2 keys, no locks, fairness; the lock of a job may expire while its worker runs | queued transfers settle or are given up; every call ends; money is conserved. With one worker an expired job is taken again after its first run; two runs at once are the matter of `twice`, and of `MoneyOnlyMoves` below |
| `twice` | 1 transfer, 2 workers, the lock of a job may expire | violation: the money moves twice |
| `pending` | 1 transfer, the five attempts of the code, fairness | violation: an accepted transfer stays pending for good |

Bounds. Two accounts give both lock orders and both directions of a transfer; two keys and two calls
give a race on one key, a replay and two different transfers; two workers give every race the code
has between executors, which only ever involves two rows. One lock can be created, aborted, committed
and released once. Deposits and amounts of one cent make one transfer possible and the next
insufficient. Retries and stalls are bounded by the options of the queue (`attempts`, smaller in most
runs, and `maxStalledCount`), evictions and calls by the number of calls: a call is made once.
Account locks are left out of `progress` for size: their transactions wait for nothing once begun, and
`CommitLock` is fair.

Deadlock checking is off: when every call is answered and every job is done the system rests.

Fairness (`FairSpec`). Weak fairness of a worker's next step and next job, of BullMQ's check for
stalled jobs, of a call's next step, of the end of a lock's transaction, and of Postgres ending one
transaction of a deadlock (`deadlock_timeout`). These are the schedulers of Node, BullMQ and Postgres;
no failure, no new call and no eviction is ever required. A worker that waits for a row is disabled
until the row is free, and weak fairness is enough because the only competitor, in the bounds of the
run, is a finite number of transactions.

### Findings

* `twice`: nothing in the transaction of `execute` checks that the transfer is still pending; the
  processor's check is made before. A job whose lock expires under a live worker (a blocked event
  loop, Redis out of reach for 30 s) is run by a second worker and its money moves twice.
* `pending`: after five errors, or two stalls, the job is kept in the failed set and the transfer stays
  pending; a replay adds the same job id, which BullMQ ignores.

An observation without a run: the sort in `executor.ts` orders executors among each other
(`ExecutorsNeverDeadlock`), not against the foreign-key locks of the insert, which are taken source first.
The two can wait for each other. Postgres fails one of them after `deadlock_timeout`; both the call
(an error) and the job (a retry) survive that, so `CallsEnd` and `QueuedTransfersSettle` hold in `progress`.

### Proofs

`TransferSystemProofs` and `BalanceProofs` prove, for all values of the
constants that satisfy the assumptions of `BankDb` and `TransferQueue`, every safety property of the runs
`transfers` and `progress`. The properties that the database protects by itself are proved for
both values of `LiveStalls`, so they need no run of their own in which jobs are redelivered.

1. *Bookkeeping* (`TransferSystemProofs`). `TypeOK` is not inductive: a job counter stays in bounds only
   because queued jobs are below their limits, a debit is of an account only because the worker's row
   exists. `Bookkeeping` conjoins what calls, jobs, workers and rows know of each other.
   `AcceptedIsNeverForgotten` and `OneCallCreates` follow from it.
2. *Isolation*. `RowLocksInv`, `LockRowsInv`, `ReadsInv` and `ChecksInv` say what row locks protect: a
   worker holds its rows, the balance it read is the balance, and no lock is committed on an account
   it has checked. `NoOverdraft` and `LockedBalanceStands` follow, with or without redelivery, and so does
   `MoneyOnlyMoves`: a balance changes by a deposit or by one amount that leaves one account and enters
   another. That is `MoneyConserved` without its sum.
3. *Executors do not deadlock*. Along a chain of waiting executors the accounts grow; ids are uuids,
   so they are bounded and there is a largest one. The hypothesis is `Accounts \subseteq 0 .. N`; for
   unboundedly many accounts an infinite chain would exist.
4. *Delivery*. With `LiveStalls = FALSE` a worker holds its job (`HoldersInv`), so its
   transfer is still pending when it settles it (`PendingInv`), so money moves once. Run `twice` shows
   that the hypothesis is needed.
5. *Refinement*. `LedgerStep` maps each action to a step of `Ledger` or to a stutter.

6. *Sums* (`BalanceProofs`). `Total` and `Volume` are folds. A sum over a finite set is characterised by a
   function on its subsets that is 0 at the empty one and grows by the value of the picked element
   (`SumExists`); that it does not depend on the picks, splits, and is the fold, is shown by smallest
   counterexamples: the strict subsets of a finite set are well-founded, so a set for which a claim fails has
   a smallest subset for which it fails. `NoMoneyIsMade` then needs `MoneyOnlyMoves` alone, for both values of
   `LiveStalls`; `BooksAlwaysBalance` needs `ExactlyOnce`, so `LiveStalls = FALSE`. The hypotheses that the
   accounts, or the keys, are finitely many are what a sum over them needs.

Only model-checked: the liveness properties.

## What a client reads of an account

| module | models | source |
|---|---|---|
| `AccountReads` | the pages of the history, the detail, and the sequence behind `transfers.seq`, over `TransferSystem` | `app-apis/.../accounts/service.ts`, `packages/db/src/schema/transfers.ts` |
| `MCReads`, `ReadsProofs` | the instance for TLC; the theorems | |

* A client's walk is one call a page, each with the cursor of the one before; `view` is what it has read
  so far. Anything happens between two calls. When it has its answer it asks again. The detail is two statements, `ReadAccount` and `ReadLock`.
* `seq` is drawn when an insert begins (`DrawSeq`) and seen when it commits. An insert that waits for the
  key share of an account lies in between, so rows can appear in either order, and a number that was drawn by
  an insert that failed is missing.
* The step of `TransferSystem` is taken as it is; `DrawSeq` is conjoined to it. Reads block nobody, since
  they take no row locks, and readers do not meet: one is enough.

Run `reads`: two calls with two keys, one worker with one attempt and no stall, one lock, an opening
deposit or none, pages of one row. Two transfers and the deposit make three rows, so a walk has up to three pages, and
a page boundary falls between any two of them. It shows that a walk to the end tells every row that was
committed when it began, and none twice (`WalksAreComplete`), and that an account which is locked by the
same lock before and after is told with it and with its true balance (`LockedDetailStands`). Retries
and stalls matter to neither: they repeat what one attempt does to the rows, or do not touch them.

Not a violation, but worth knowing: a row that commits *after* a walk began and with a lower `seq` than the
cursor is met by the walk, one with a higher `seq` is not; and a client that polls for rows above the
highest `seq` it knows (no endpoint offers that) would miss the late ones. A detail whose lock comes or
goes between the two statements can show a pair that was never true at one moment.

`ReadsProofs` proves all three properties of the run without hypotheses, for any page size and any number
of concurrent inserts. Numbers that are drawn are above all earlier ones and belong to one insert each, a row
keeps its number, its accounts and its status once it is settled (`RowsInv`). The walk then keeps
(`ViewInv`): the rows it has read are committed rows at or above its cursor, each once, and every row that
was committed when it began is read or below the cursor. Lemmas on `Newest`, `Oldest` and `PageOf` say what one page
does to that: the rows of a page are the largest below the cursor, a page that is not full leaves none
below. `LockedDetailStands` rests on the isolation proved for `LockedBalanceStands`.

## Who gets in

| module | models | source |
|---|---|---|
| `AuthApi` | the process and its signing key, the users table, the calls that register, log in and ask who is there | `apps/auth-api/src`, `packages/db/src/schema/users.ts`, the seed of the admin user |
| `TokenVerifier` | the gate before the banking routes and its key cache | `app-apis/src/middleware/auth.ts`, and jose's `createRemoteJWKSet` with its defaults |
| `Access` | both, and the time they go by | |
| `MCAccess`, `AccessProofs` | the instance for TLC; the theorems | |

* A call is a small state machine (`pc`): `insert` or `select` once the body is valid, `compare` while
  bcrypt runs, then an outcome. Calls interleave at these awaits. A stop of the process cuts off those
  under way (`Exit`, `Crash`); a row that is inserted stays.
* A password stands for its hash and an address for the user's id. Addresses differ in their case,
  because the service lowers it and the seed of the admin user does not; `Taken` is the unique index on
  `lower(email)`.
* The key is read when the process starts (`loadSigningKeys`), so a rotation is a stop and a start.
  Outside production a process without a key makes a fresh one. `/auth/me` verifies with the key of the
  process. Its two steps are one, since users are never deleted.
* A request to the banking API is decided at once from a fresh key set, or waits. All that wait share one
  fetch; its answer or its failure decides them all. A key the answer lacks is not fetched again, since
  the set has just arrived.
* `Tick` lets a fetch run no longer than its timeout. Otherwise time passes at any moment, up to `MaxTime`.
* `lastServed`, `since` and `call[c].known` are history: when a key was last in service, since when the
  present one is, and which users existed when a call began.

Run `access`: two clients, two keys, one mailbox in two spellings, two passwords, two stops of a process, a
cache that lives two ticks, a cooldown and a timeout of one. It shows types, that an owner with the right
password is never refused (`OwnersSignIn`), that trust in a retired key runs out within the age of the
cache and the timeout of a fetch (`TrustRunsOut`), and that a rotation heals within the cooldown and that
timeout (`RotationHeals`). Two keys are the old and the new one, and a rotation back is within two stops;
two clients share a fetch that one of them began for another key; four ticks are longer than the cache
lives and a fetch after it. Both bounds are tight: made one tick shorter, either property fails in this
run. So a token of a new key can be refused for that long, which is what "verifiers refetch
automatically on unknown `kid`" in `apps/auth-api/API.md` amounts to. No fairness is assumed; that a fetch ends is in the guard of `Tick`.

`AccessProofs` proves `AccessTypeOK`, `TrustRunsOut` and `RotationHeals` for any clients, keys and times.
The age of the cache alone says nothing about the key in it: a set is as old as the moment it was *served*,
and it may have been on its way for a fetch's timeout. `TrustInv` follows the key: a running process serves
its key now (`ServedNow`), a fetch ends in time (`FetchInTime`), the key of an answer was in service when
it was asked for or later, and if it is no longer the present one, it was replaced after that
(`AnswerServed`), and the same of the cache, one timeout later (`CacheServed`).

It proves `OwnersSignIn` by `OwnersInv`: one row for a mailbox, since register and the seed insert only what
the index on `lower(email)` lacks (`OneRow`); whom a login knew when it began is still there (`KnownStay`);
and so the one row that `select` found for the address is the owner's (`RowFound`). Lower-casing on all
three ways is what makes it hold.

## Telemetry: from the device to the log

| module | models | source |
|---|---|---|
| `TeltonikaFramer` | the framer, the handshake, frames, checksum and record counts, as functions of a stream of units | `packages/teltonika/src` |
| `DeviceInbox` | the abstract specification: a record is taken, stored, and only then deleted | |
| `TelemetryIngest` | one device, the network, the server's connections, the publish to Kafka and the acknowledgement; shutdown, crash, restart | `apps/telemetry-ingest/src`, `packages/events/src/client.ts` |
| `MCIngest`, `IngestProofs`, `StoreProofs` | the instance for TLC; the theorems | |

* A unit of the stream stands for one field. Like a byte it carries no mark of what it was sent as, so a
  damaged length, codec or count sends the framer astray as it does in the code, and the checksum is
  computed over what is really there. Codec 8E and the fields inside a record are left out: they change
  the width of units, not the way they are cut.
* A connection is an element of `Conns`, and is used again once its socket is closed and its handler
  has ended. A connection the device has given up lives on: its handler may still be publishing.
* Node runs the events of a chunk without interruption up to the next `await`: `ServerBusy` keeps the
  server from doing anything else in between. The one `await` is the publish.
* `sendBatch` is one call with one batch per topic and not one write: `StoreBatch` stores one, and
  `PublishFails` can come before, between and after the two.
* The device deletes what is acknowledged with the count it sent, and sends again on zero. That is the
  protocol `ack.ts` and `server.ts` rely on, external to the repository.

Run `ingest`: two connections, two records, packets of one or two records, two failures out of: lost
coverage, a damaged unit, a failed publish, an early idle timer, a shutdown, a crash. Two connections are
enough for one that lingers and one that is new; two records for a packet that straddles the topics and for
a resend packed differently; two failures for one that interrupts the recovery from another. `Garbage` is
a wrong count and an unknown codec or record; damaged lengths follow from it, since every unit can be hit.
It shows that what the device deletes is stored (`AckedIsDurable`), that ingest implements the inbox, so
nothing the device never took is stored (`ImplementsInbox`), that records are repeated only after failures
(`CopiesAreRetries`), that a topic goes back in the device's order at most twice for each failure
(`TopicsStayInOrder`): once for the resend, once for the connection which the device has given up and which
stores behind it. That cutting a healthy stream is harmless (`HealthyStreamsAreRead`), and that the flash memory
is empty again and again, with all that was taken stored by then (`EveryRecordArrives`). The
records that go back are why the consumers must bear old messages behind newer ones.

Fairness (`FairIngestSpec`): as long as something is due, something is done. Due are the steps of the
device's protocol, the callbacks of the server, the end of a publish, the restart of a process that
shut down, and the idle timer of a connection on which both sides wait. New records, the passing of time and
failures are never due. One weak fairness over all of it suffices, because only failures, which are
bounded, and new records can go round in circles.

### Proofs

`IngestProofs` and `StoreProofs` are for any number of connections, records and failures and any size of
packets, as long as a packet fits the framer's limit of a frame (`IngestAssumption`).

1. *Types* (`IngestAlwaysTyped`), with damage by any unit. The loop of `push` is a recursive function, and
   that it ends is part of the proof: `LoopExists` builds, by induction over the length of the buffer,
   the function that runs the loop, `RunsAgree` shows that there is only one, and `DrainRound` that `Drain` is it.
   Each round consumes at least one unit (`CutType`).
2. *The framer reads what was sent* (`ReadsHandshake`, `ReadsPacket`). What is buffered, followed by what is
   on its way, is one frame (`Pipe`); a chunk either leaves a rest of it to come and yields nothing, or
   completes it and yields exactly its event. `HealthyStreamsAlwaysRead` follows.
3. *What is in flight* (`StreamInv`). The flash memory is the interval of records behind the deleted ones
   (`DeviceInv`); each connection is idle, carries the handshake or carries one packet, which is an interval of
   the records taken, and publishes at most one, which a point divides into its backfill and its live part
   (`ConnInv`, `BatchesOfInterval`); a reply in flight is the answer to the packet the device waits for,
   and then that packet is stored (`LinkInv`). `AckedIsDurable` is not inductive without it: that the records of the
   acknowledged packet are stored is only known because they were stored or batched while it was published.
4. `AcknowledgedIsDurable` and `IngestIsTheInbox` follow: a reply deletes only what is stored, and a batch that is
   stored late holds records of the device or records that were stored before.
5. *Copies* (`CopiesAreForFailures` in `StoreProofs`). For each record, its copies in the log and those who may still add one
   (`Owed`) are together at most one more than the failures (`Budget`). The device owes what it keeps, unless it is
   on an open socket in the packet it waits for; a connection owes what it carries and what it has batched, and,
   when the server has ended a socket the device still uses, whatever the device may yet write to it. Sending
   hands a record from the device to its connection, storing turns the debt into a copy, and every failure adds
   one debtor at most. Two facts are needed beside it: a server that has stopped listening has no open
   socket (`Down`), and on an open socket the answer the device waits for is under way (`Answered`), so the idle timer
   of a silent connection is always the consequence of a damaged unit.
6. *Order* (`OrderIsForFailures` in `StoreProofs`). The places where a topic goes back, two for each connection
   that may still store behind a newer one, and one if the next record to be stored can be older than the
   last, are together at most two for each failure (`OrderInv`). A resend and a connection which the device has given
   up both come of a failure, and each failure pays for two.

The last four take `Garbage = {}`: every other failure may happen, but what arrives is what was sent, as
TCP has it. With damage the invariant would have to hold for what the checksum lets pass: a sum does not catch
every pair of damaged units, and then an acknowledgement counts records that were never sent. For the damage
it does catch, the run `ingest` checks the same properties. The inductive invariant holds as long as no unit has
been damaged (`Clean`), which is why the statement on healthy streams needs no hypothesis.

## Telemetry: the consumers

| module | models | source |
|---|---|---|
| `TelemetryEvents` | the fields of a record, how they are normalised, and the messages of a packet, as far as the consumers tell them apart | `packages/teltonika/src/normalize.ts`, `avl.ts`, `packages/events/src/build.ts`, `schemas.ts` |
| `TelemetryConsumer` | one consumer group: members, rebalances, batches, dead letters, offsets, stop and crash | `packages/events/src/client.ts`, `telemetry-consumers/src/main.ts` |
| `VehicleRegistry` | insert on first sight, read back, cache | `vehicles.ts` |
| `ReadingWriters` | locations and fuel | `consumers/locations.ts`, `consumers/fuel.ts` |
| `EngineWriter` | the remembered state, its seed, transitions | `consumers/engine.ts` |
| `Alerting` | the rules, the state of a condition, the alert | `alerting/*.ts` |
| `TelemetrySystem` | the composition, what ends with a process, the properties | |
| `MCTelemetry`, `ConsumerProofs` | readings and logs; the theorems | |

* The four groups share only the vehicle table and the vehicle cache, so a behaviour follows one group,
  chosen in `ConsumerInit`: the state space is the sum over the groups, not their product.
* A member is a small state machine (`pc`): decode and dead-letter; the handler, one action per
  statement; resolve and commit. A handler keeps nothing across an `await` that the model does not keep.
* A batch is an interval of places of one topic, and a handler's loops run over places: what the code
  collects from events in order is stated of the places that hold such events.
* A statement that was applied and then reported as failed is the statement followed by a failure of the
  next step, so it needs no action of its own.
* kafkajs hands a failed batch out again in the same process, which keeps its vehicle cache and its
  remembered states; after `Kill` or `Leave` they are gone. An evicted member finishes its batch, while
  another already has the same messages, and its commit is refused. `isStale` of kafkajs tells of seeks
  alone, so a rebalance does not end a batch early.
* `rows` holds the columns of the unique key of the group's table. `alerts` counts, since that table has
  no such key.
* The alerting handler looks at its clock at every call. `BeginAlerting` chooses the cutoff anew each time, out of
  `Cutoffs`: a reading that was fresh at one delivery can be stale at the next, and nothing is
  assumed of how the clocks of two replicas agree or that one moves forward only. Geofences do not change, so
  the cache of `activeGeofences` is current.
* Three variables are history that no action reads: `cutShort`, the places of the batches a stop cut
  short; `stale`, the places a call left out; `announced`, the readings whose time `last_fired_at` has had,
  which is recorded in a statement before the alert is.
* `Rebalance` assigns the topics the group subscribes to.
* After a refused commit kafkajs keeps its local offset for a while; `CommitFails` goes back to the committed one.
  That redelivers more than the program does, never less.

| run | instance | shows |
|---|---|---|
| `telemetry` | two replicas, up to two failures, a clock that shows each call one of two times, logs of up to three messages for each group | types, offsets behind effects, agreement on vehicles, no transition out of backlog, alerts as the episodes say, no condition unreported for longer than a cooldown but for one alert per failure, repeated alerts only after failures, and progress |
| `cutshort` | one live log with an undecodable message in the middle, one stop | violation: readings are committed that no handler has seen |
| `wedged` | a fuel level of 255, no failure, fairness | violation: the partition stands still |
| `engine` | one failure | violation: a change the process has noticed gets no row |

Bounds. Logs hold, per group, what its handler distinguishes: a reading without a fix, an undecodable
message, a refused level, a transition the device reports and one that must be noticed; for the alerts two
conditions at once that a late reading ends and that begin again within the cooldown, one that outlasts the cooldown (`Cooldown` is 3,
`MaxTime` 5), one whose first reading can be stale when it is delivered again, and two conditions behind a message
that is no event. Each log is built from records by `BuildTelemetryEvents`, as ingest does. Some have what `ingest` shows of late publishes: an old reading behind
a newer one, for the alerts, and a backlog beside the live transitions, for the engine. Two replicas
give every race over a batch; two failures give a failed recovery. `MaxFaults` is a bound for each log: the longest
alerting log (`Outage`) meets one failure, all others two. `Cutoffs` has two values: one that finds
every reading fresh and one, 2, that leaves out those of time 1: some calls see an episode end or begin, others do not, in every order.

Fairness (`FairTelemetrySpec`): as long as something is due, something is done, where restarts of a
replica, rebalances, batches, statements and commits are due, and failures, stops and evictions are not.
`docker-compose.yml` restarts services, and kafkajs restarts a consumer after an error that is not final.

Without a failure the alerts are those of the episodes (`AlertsMarkEpisodes`), where an episode is one of the
readings that some call found fresh: without failures each reading is looked at once. With failures the alerts need
not be those: a redelivered batch is checked against states that are ahead of it, and the state of an alert is
committed before the alert itself, so a handler that fails between the two loses one.
`LostAlertsAreFailures` says what is left then, for every clock and every eviction: a condition that holds in a
committed reading has an alert less than a cooldown old, up to the reading's own, and the alerts that are recorded but
never written are no more than the failures. Left out are readings a call found stale and those of a batch that a
stop cut short, which are committed unread. `AlertCopiesAreRetries` says how many alerts failures may repeat.

What the property does not say is that every episode gets an alert of its own, because it does not hold. When the
consumers are away for longer than `maxAgeMs`, or lag that far behind after a redelivery, the readings that end an
episode can be left out as stale. Their condition stays active, and a fresh episode that begins within the cooldown of
the last alert is taken for the old one, for every condition at once. `docs/TELEMETRY.md:102` has a row "when the
condition _starts_ holding", and the comment at `consumer.ts:148` has a condition that no longer holds cleared; that is
true of the readings a call looks at, not of those it leaves out as stale. The default cooldown (15 minutes) is longer than the default maximal
age (10 minutes), so the case is within the defaults. What the run does guarantee is that the silence ends with the
cooldown.
`CommittedIsStored` excepts the batches of `cutshort` and asks of the engine only what
the device reports, because of `engine`. The exceptions are what the code does, not conveniences.

### Proofs

`ConsumerProofs` proves, for any logs, replicas, geofences, times and clocks and any number of
failures, every safety invariant of the run `telemetry`. No theorem has a hypothesis. The assumptions are on
constants: readings of the logs have times up to `MaxTime`, and the cooldown is positive, as `env.ts:42` demands.

1. *The group and its handlers*. `GroupInv` says what a member that has a batch knows: its
   places are in the log, behind the offset it was handed out at. `HandlerInv` adds what the handler is
   about to use: the vehicle it has found is the one registered (`VehiclesAgree`), what it
   collected are events of its batch. `TelemetryTypeOK` follows from the two.
2. *Offsets behind effects*. `CommittedIsStored` is not inductive: offsets are committed from a batch
   resolved earlier, perhaps by a member evicted since. `ResolvedInv` says it of resolved
   batches: an event of such a batch has its effect, or the batch was cut short. Effects last because the tables
   only grow and fired states stay (`EffectLasts`).
3. *Transitions are not invented*. `InventedInv` says `NothingInvented` of three places at once: the
   stored rows, the rows collected but not stored, and the remembered states, each of which is contradicted or
   confirmed by a live reading or a stored row.
4. *Alerts are counted*. A *share* in a reading is a check of it for a condition that is still
   to come: the group's, while the reading is neither committed nor checked by the member that acts for the
   group; or that of an evicted member whose handler runs on. The alerts of a condition at a time plus the shares in
   the readings of that time never exceed the number of these readings, times one and the failures (`BudgetInv`).
   An alert costs a share; fetching, checking and committing make none; only a failure does, one for
   each reading.
5. *Nobody is silent for long.* A condition of a reading is *done* (`Done`) when the reading was left out or cut
   short, when the condition does not hold in it, or when an alert that lasts to it was announced with it or before
   (`Covered`). `CheckedInv` says that a handler has done what it has checked, that the time a state carries is the
   time of an announced reading (`StatesInv`), and that whoever announced an alert had everything before its reading done
   (`AnnouncedInv`): a handler that finds a state ahead of it, set by a run that failed or by one that goes on
   beside it, relies on that. Of the alerting group `CommittedIsStored` says no more than `Covered`. An announced alert is
   raised, or a member is about to raise it (`AtHands`), or it is `Silent`; no step makes more than one silent, and only a
   failure makes any (`StepLosesOne`). Nothing here speaks of the order of readings or of clocks, and evictions
   need no exception.
6. *Alerts follow the episodes.* Which readings are worth an alert (`Due`) is a recursion over the log; the proof
   takes it over the log in which the stale readings are marked (`Heeded`). Without a failure at most one member has
   a batch of the group, nobody stops (`BlameInv`), and what it has read of a state is still so when it writes
   it (`SeenInv`). For every condition there is a place it is behind (`Place`), up to which the states and the alerts
   are those the recursion gives, the alert at hand excepted (`Follows`). A call marks readings ahead of that
   place only (`HeedsOf`, `Seen`), which changes nothing up to it.

### Findings

* `cutshort`: a stop during the send of a dead letter returns from `eachBatch` early, and auto-resolve
  commits the whole batch.
* `wedged`: percentages are bytes, the schema accepts any number, the table refuses more than 100.
* `engine`: the remembered state moves on before the rows are stored. The same property fails after a
  restart, when no transition was stored yet to seed from.

## API documentation

| module | models | source |
|---|---|---|
| `OpenApiMerge` | the merge of documents: conflicts, new names, rewritten references | `packages/shared/src/openapi/merge.ts` |
| `DocsRouter` | concurrent requests, one fetch per source, the cache; the other services, which fail and are deployed anew | `packages/shared/src/openapi/docs-router.ts` |
| `MCDocs`, `DocsProofs` | documents; the theorems | |

* A document has paths and schemas. Both are nodes: a text, and the name of the schema they refer to. What
  tells two nodes apart is their text and their reference, as in the JSON comparison of the code.
* `getDocument` is `GetDocument` up to the `await`, `FetchSpec` once per source in any order and with either
  outcome, and `MergeDocuments` behind it. Two requests can fetch at the same time; the later one to
  finish writes the cache last.
* `served` is history: the documents a source has had.
* Sources answer with OpenAPI documents or not at all. `fetchSpec` casts whatever JSON arrives, and the merge throws on
  `null`, which the router hands to Express; no document or cache comes of it, and it is left out. A URL
  that is configured twice is fetched once by the model and twice by the code.

Run `docs`: no, one or two sources; two requests; one service deployed anew or this one restarted. The
documents have schemas `S`, `T` and `S_2`, in every combination that is closed, 768 pairs, so that names
collide, collide with the name a collision would get, and are shared. References are followed three deep, which is as
long as a chain of these schemas can be. It shows that an answer no source failed for has the routes of all
sources, whatever another request met (`AnswersAreWhole`), and that no reference is lost and routes mean in the
merged document what they mean in their own (`RoutesKeepTheirMeaning`).

The exception in that property, `SharedOnTheWay`, is what the code does, and no line of the repository says
otherwise clearly enough to call it a finding: when an added document has a schema that is equal word
for word to one already there, and both refer to a name whose schemas differ, the schema is
shared, although its two readings are not the same; without the exception TLC finds a route that then means
another service's schema. Also: the rename of a security scheme would not reach `security`
requirements, which name schemes without `$ref`; and a complete answer stays cached until this service
restarts, however often the others are deployed.

### Proofs

`DocsProofs` proves the three invariants of the run for any number of services, requests and deployments, any
depth, and any documents with finitely many named schemas in which no reference is dangling
(`IsDocument` in `DocsAssumption`): a service builds its document out of what it has registered.

1. *New names.* Of as many numbers as there are names taken and one more, one is free (`NameIsFree`, by counting).
   A new name tells the old one and the number (`NumbersTell`), so no two schemas of an added document
   get the same (`FinalNamesTell`), and the merge is again a document (`MergedIsDocument`).
2. *References.* The merge, the chain of references from a route and the list of what was fetched are recursive
   functions; each is unrolled by induction over a set of numbers (`MergeSteps`, `ChainSteps`,
   `PresentSteps`). One step of a chain in the merged document is the step in the added one, rewritten, unless it
   passes the exception (`MergedFollow`); so is the whole chain (`MergedMeaning`). What has been merged
   stays as it is when more is merged (`MergingKeeps`), and with it what its routes mean (`KeptMeaning`).
3. *Requests and the cache* (`DocsInv`). An answer is the merge of this service's document with what this request
   has fetched from every source, or it was cached and has the routes of all of them (`RequestsInv`); what
   is cached was answered by every source (`CacheInv`). A document a source has had is never forgotten, so both last
   when a source is deployed anew. `AnswersAreWhole` is not inductive without `CacheInv`.

## What is not modelled, and why

Customers and comments are single statements; the insert of a comment waits for the key share of its
account, like that of a transfer, and holds nothing meanwhile that anyone could wait for. Health endpoints, logging, metrics, migrations, seeds, the
generation of one service's document (`registry.ts`) and the HTTP layer hold no state the properties speak of;
the exception is the `running` flag of a consumer, which its crash handler clears and an internal restart
of kafkajs does not set again: it makes a working process report itself unhealthy, and only the health endpoint
reads it.
Money is an integer of any width: above 2^53 cents the program's numbers would round, and nothing
checks for it. A record whose time no `Date` can hold makes `server.ts` throw outside its `try`; no
frame of the model carries such a time. The clock of the geofence cache is left out, since geofences do not
change. The order of several devices on one partition does not
matter, since all state of the consumers is per vehicle. Kafka loses nothing it acknowledged, and Redis
neither.

## Plan

Built: money movement, access, reads of accounts, ingest and the consumers and the documents, each with its proofs.
Left, in this order:

1. `TelemetryPipeline`: ingest and the consumers composed. The two meet in the messages alone, and `telemetry`
   already starts from logs out of order, so this waits for a smaller abstraction of both.
2. The width of money (`bigint` against JavaScript numbers).

## What only TLC checks

Everything that must happen in the end (`CallsEnd`, `QueuedTransfersSettle`, `EveryRecordArrives`,
`EveryMessageIsCommitted`), and what the findings violate.

The library's induction principles take an operator as a parameter and cannot be used by the installed
provers. Where a proof needs induction over finite sets it takes a smallest counterexample in a well-founded
order instead (`BalanceProofs`), or the set of the numbers for which a claim holds (`IngestProofs`,
`DocsProofs`), which also unrolls recursive functions over numbers.

Every safety invariant of a passing run is stated by a theorem. Of those, `AckedIsDurable`, `ImplementsInbox`,
`CopiesAreRetries` and `TopicsStayInOrder` are proved without damaged units and only checked with them.
