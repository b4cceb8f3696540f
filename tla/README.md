# Igra Foundry SDK: a verification development in TLA+

The `igra` crate (`src/crates/igra/src`) turns `eth_sendRawTransaction` into the
submission of a Kaspa L1 transaction that carries the L2 transaction as payload.
Between the two stand a SQLite store that serialises the requests of one sender
and keeps an expected nonce, and a submitter with a shared cache of UTXOs. Around
them, a command validates its configuration, opens the store, routes JSON-RPC
packets, resolves a Kaspa key, and builds and mines the transaction. This directory
models these parts, checks them with TLC on small instances, and proves their main
properties with TLAPS for every instance.

Contents: [parts of the system](#the-system), [modules](#the-modules),
[correspondence with the code](#correspondence-with-the-code),
[properties](#what-is-claimed), [runs](#runs-and-bounds), [fairness](#fairness),
[proofs](#proofs), [disagreements found](#where-the-code-and-its-texts-disagree),
[limits](#abstractions-and-what-is-not-modelled), [plan](#plan).

## The system

| Component | State | Operations | Talks to |
|---|---|---|---|
| Store (`store.rs`) | tables `tx_map`, `sender_nonce_state`, `sender_locks`, `schema_meta` of one database file, shared by processes | open and migrate, reconcile profile, prune by age and by size; persist a transition; acquire lock and classify nonce; mark in-order nonce; release lock | called by the transport, by every process that opens the file |
| Transport (`transport.rs`) | its settings and store handle; the local variables of each request's future | construct from configuration; forward, reject, override or intercept a packet; the raw-send path | store (synchronously, and from a blocking task), submitter (awaited), execution layer |
| Submitter (`submitter.rs`) | one cached UTXO set, an epoch counter | `submit_payload`, `load_utxos`, `invalidate_utxo_cache` | Kaspa node over gRPC, `payload.rs` in a blocking task |
| Payload (`payload.rs`) | local to one build | payload format, fee, coin selection, mining of the id prefix, signing, mass limit | Kaspa crates |
| Configuration (`config.rs`) | none | validation, normalisation of the prefix, defaults | read by every other part |
| Keys (`keys.rs`) | none | precedence of key sources, address, network names | keystore files, Kaspa crates |
| Errors (`errors.rs`) | none | signer guardrail, message normalisation | commands, before they use the transport |
| Patch, installer, workflow, profiles, examples | none | packaging and data | - |

What makes it hard:

- **Interleaving.** Every store call is a transaction of its own; requests of one
  sender, from several tasks or processes, interleave between any two. The lock
  step runs in a `spawn_blocking` task that outlives a dropped future.
- **Time.** A lock is a lease (`expires_at_ms`, twice the acquisition timeout)
  that nobody renews. A submission may take longer: two attempts, each with its
  own mining timeout. The clock is read before the transaction that judges expiry.
- **Partial failure.** Errors of `persist_transition`, of the mark and of the
  release are logged and ignored; an error of the lock step other than a timeout
  or a gap lets the request go on without the lock.
- **Crashes and drops** between grant, broadcast, mark and release.
- **Unreliable delivery.** An answer of the node may be lost after it accepted the
  transaction; the submitter then builds and broadcasts another one.
- **Shared cache.** Readers of the UTXO cache hold no lock while they ask the node;
  an epoch decides whether they may store what they read.
- **Profiles.** Opening the file with another profile empties three tables under
  the requests of processes that opened it earlier.
- **Opening statement by statement.** Reconciliation is a transaction, each pruning
  statement commits by itself, `VACUUM` stands between rounds of the size budget and
  need not shrink the file; other processes write in between, any statement may fail.
- **Numbers.** Retention is u64 hours cast to i64 and saturated; the fee grows with
  each input; a wrap of the 32-bit mining nonce takes one sompi from the change.
- **Construction in pieces.** The guardrail, `with_transport_config` and
  `(try_)with_store_config` may or may not be called, trim different settings, and
  are followed by checks of their own in the submission.

What makes each part correct, in short: the store hands the lock to one request
at a time as long as leases last, and undoes the lock of a refused nonce; its
counter never claims a nonce that is not on L1 and never goes back; the transport
releases, marks and records what it should on every exit, and answers the client
accordingly; the submitter sends at most two transactions, says Ok only of an
accepted one, and lets no reader from before an invalidation fill the cache after it; the opening of the
store deletes what retention and budget allow and nothing else; routing lets no
write pass by Kaspa; the builder finds inputs whenever there are some that pay, and
never repeats a candidate; funds are spent only under settings that hold.
`PROJECT.json` lists the hazards one by one, each at its line.

## The modules

| Module | Contents |
|---|---|
| `IgraStore` | the tables, and one operator per SQLite transaction |
| `IgraTransport` | requests that call those operators: the raw-send path, faults, clock, other processes; properties |
| `NonceLedger` | what store and path promise about nonces, without locks, clocks, requests or rows |
| `PayloadSubmission` | the contract of `submit_payload` between path and submitter |
| `KaspaSubmitter` | the submitter with its cache; properties |
| `IgraSubmission` | the path with the submitter inside: requests that await the steps of `KaspaSubmitter` over one cache; properties |
| `KaspaKeys` | key sources and network names, by the classes of values the code tells apart |
| `IgraConfig` | `validate`, field by field in its order, the guardrail, the normalisation of the prefix |
| `RequestRouting` | what `call` does with a packet: forward, override, reject, take to Kaspa |
| `FeePayment` | what a Kaspa transaction pays, whatever way its inputs are found |
| `PayloadBuilder` | one build: fee, selection, mining, timeout, signing; properties |
| `StoreMaintenance` | `IgraStore::new` on an existing file: reconciliation, pruning by age, size budget, with `updated_at_ms` and the size of the file |
| `IgraSession` | one command from its configuration to its answer, composed of the five above; properties |
| `MCIgraTransport`, `MCKaspaSubmitter`, `MCIgraSubmission`, `MCIgraSession` | values of the constants for TLC, symmetry sets, the environments of a session |
| `AmountSums` | lemmas on sums of amounts over finite sets, by minimal counterexample |
| `IgraTransportProofs`, `KaspaSubmitterProofs`, `IgraSubmissionProofs`, `PayloadBuilderProofs`, `IgraSessionProofs` | theorems |

`IgraTransport` EXTENDS `IgraStore`, whose operators are its atomic steps. It
implements `NonceLedger` (the mapping: the set of nonces L1 accepted, `base`,
`nextExpected`). `IgraTransport` and `KaspaSubmitter` meet at
`PayloadSubmission`: the submitter implements the contract, and the path, which
models the submission only by its visible events, is shown to use it within the
contract. `IgraSubmission` EXTENDS the path, INSTANCEs the submitter with its own
variables and puts the two together; the result implements both
(`SystemImplementsPath`, `SystemImplementsSubmitter`). So a step the submitter can
take is one the path was checked against.

`IgraSession` EXTENDS `IgraConfig` (which EXTENDS `KaspaKeys`), `RequestRouting`,
`PayloadBuilder` and `StoreMaintenance` (which EXTENDS `IgraStore`). It meets the
request path at two places: `IgraTransport` opens a handle in one step, `OpenHandle`,
and the session, which opens it statement by statement while others write, is shown
to do that step several times over (`ImplementsOpenHandle`); and what
`KaspaSubmitter` calls a build is, in the session, each round of `PayloadBuilder`,
which implements `FeePayment`.

Operators named `Mut...` are plausible bugs (a dropped guard, an off-by-one, a
swapped order), each placed before the definition it could have been. Nothing in
the specifications uses them; with the definition replaced by one of them, the
property named in `PROJECT.json` fails.

## Correspondence with the code

`PROJECT.json` maps each definition to the lines it models. The outline:

**Store.** `txMap`, `nextExpected` and `locks` are functions from primary key to
row, with `None` for no row; `storeProfile` stands for the `profile.*` entries of
`schema_meta`. `PersistTransition` is the upsert with `attempts` read in the same
immediate transaction. `AcquireAndClassify` is the immediate transaction of
`try_acquire_sender_lock_and_classify_once`: take-over condition, lock row, row of
a new sender, classification; a gap returns early, which drops the transaction and
undoes both rows (`RefuseGap`). `MarkSubmittedInOrderNonce` has its three cases
(equal, other, no row) and the failure of `checked_add`. `OpenHandle` is the
reconciliation of the profile and the pruning. Two history variables remember what
the tables do not say: `base`, the nonce at which the counter of a sender started,
and `forgotten`, the requests whose lock and counter a change of profile wiped after
they were granted.

**Request path.** `pc` names the point a request is at:

    idle -> received -> begin -> poll <-> tryLock
         -> lockTimeout | nonceGap -> failed
         -> [replacement ->] unsigned -> submit
         -> mined -> signed -> broadcasted -> [mark ->] release -> done
         -> failed -> [release ->] done

Each arrow is one store transaction, one reading of the clock or one event of the
submission. `Start` covers the missing `tx_id_prefix` and the transport without a
store; `BeginLock` fixes the deadline; `Poll` reads the clock and `Grant`,
`RefuseGap` or `TryAgain` use that old reading; `Land` is the acceptance of a
Kaspa transaction; `SubmitOk` and `SubmitErr` the answers; `Abandon` a future
dropped during the lock step, whose task goes on and may still take the lock;
`Crash` the end of the process, or a future dropped elsewhere.

A submission has two broadcasts at most, 0 and 1, which are two transactions.
`sent` is the set of those L1 accepted and `late` the set of those it may still accept
after the submission ended; an Ok fixes `result`, the broadcast whose payload nonce
and Kaspa id `submit_payload` returns. The rows take `payload_nonce` and `kaspa_tx_id`
from `result` (`PersistMined`, `PersistSigned`, `PersistBroadcasted`), whatever L1
accepts meanwhile, so that a row may name the second broadcast when the first one was
accepted too or never.

**Faults** are named in `FaultKind`, and a run or a theorem says which ones it
allows. Each enables an alternative of an action (an ignored error, a busy
database, `"retry"` for a second broadcast) or an action (`Crash`, `Abandon`, pruning). The capture of every store
error as a fault keeps "without such errors" claims precise.

**Submitter.** `pc` follows `submit_payload`: load the epoch, look up, fetch, store,
build (coin selection, mining, signing, mass), bump and clear the cache, send,
wait, and bump and clear again after Ok. `attempt` is the loop index; the second
attempt goes from the epoch straight to the node. `Bump` and `Clear` are two steps
because `fetch_add` runs before the lock of the slot is awaited. The epoch check
and the store are one step because they run under that lock, and a bump in
between is followed by a clear that waits for it. `seen` and `bumped` are history: they
stamp a UTXO set with what the node had accepted, and which broadcasts had been preceded
by an invalidation, when it was read. No step depends on them.

`Advance` is all that happens when the future is polled; its local variables are
forgotten when it ends (`Forget`).

**Path and submitter together.** In `IgraSubmission` the free part of the path, the
submission, is taken out (`PathStep` excludes it) and the submitter put in. `Await`
is the poll of the outer future: it polls the submission, and when that is done,
`Return` is the match on its result. `NodeAccepts` is an acceptance, during the
submission or after it. `DropSubmission` drops both futures at once. `OnL1` derives
`sent`, `late` and `result` from the broadcasts, which is the refinement of the path. All requests
share one cache: the submitter is held by the transport and its clones, and
`with_submitter` gives one to several transports, whose wallets may differ (`Keys`).
Other processes appear only in the store (`OpenStore`).

**Session.** `stage` follows one command:

    guard -> configure -> attach
          -> [reconcile -> pruneCompleted -> pruneFailed -> budget <-> budget] -> route
          -> submit -> connect -> load -> build -> broadcast -> answered
                                  load <- (attempt 1) <- load, broadcast

and `answered` can be reached from most of them. `env` is what the user, the caller
and the world bring to the session: configuration, flags of the command, which
constructors it calls, the database it finds, one packet, and the UTXO set of each
attempt. A setting is reduced to the class of values that some reader tells apart
(`"padded"`: a value between blanks, which `validate` trims and others do not;
`"notGrpc"`: a Kaspa URL with a scheme that `validate` accepts and the gRPC client does
not; `"upper0X"`: a prefix whose `0X` becomes the `0x` that only a later call strips);
`FirstFailing` gives the field that a chain of early returns reports. `settings`
are the fields of the transport, empty after `new`, filled by
`with_transport_config`, completed by `with_store_config`.

**Opening.** `Reconcile` is a transaction; `PruneByAge` one DELETE, with the cutoff
computed as the code does it (`AsI64` is the cast, `Saturate` the saturating
product and difference); `PruneBatch` one round of the size budget, the oldest
finished rows up to the limit, after which the file is or is not smaller.
`OpenFails` may follow any of them: what was committed stays. `OtherWrite` is a
request of another process.

**Builder.** `build` goes `select -> mine -> sign -> built`, or ends in `refused`,
`timeout`, `unsigned`. `Take` adds the largest UTXO left (first of equals, since the
sort is stable) until `Covered`; `MineMiss` moves the nonce modulo its range and, at
the wrap, takes one unit of change with saturation at zero; `Expire` is the clock of
the loop. Whether a candidate has the prefix cannot be predicted, but is the same
each time: `hits` and `misses` remember what was found, across attempts.

## What is claimed

On `IgraTransport`:

- `NoSkippedNonce`: the counter never runs ahead of L1.
- `BroadcastInOrder`: a classified request reaches L1 only after every lower
  recorded nonce of its sender, though the classification is long past.
- `LeaseExclusion`: of two requests of a sender between grant and release, at most
  one is inside its lease.
  These two and `AnsweredAdvances` are about requests granted since the last change
  of profile: a wipe empties the tables under the older ones, and all three then
  really fail for them.
- `NoEarlyTakeover`: an expired lease goes only to a request whose lock step began
  more than the acquisition timeout after the grant. This is what the factor two
  really gives.
- `NonceMonotone`: the counter never goes back, except by a wipe.
- `ImplementsLedger`: all of the counter's behaviour is that of `NonceLedger`.
- `NoOrphanLock`: unless a release fails or a request is cut short, every lock row
  belongs to a request that is going to release it.
- `AnsweredAdvances`: after Ok for an in-order nonce the client may send the next.
- `AttemptsCountFailures`, `RecordMatchesAnswer`: rows say what happened although
  requests for one hash overwrite each other.
- `RecordedOnL1`: a payload nonce or Kaspa id in the table is that of the broadcast the
  recorded request was answered with; it is on L1, and it is the last one of the request.
- `ImplementsContract`: the path calls `submit_payload` at most once, not at all for
  a request it refused, and keeps to its answer.
- `RequestsEnd`: every request is answered or ended by a crash.

On `KaspaSubmitter`:

- `AnsweredInCache`: no set stored by an unforced reader lacks a transaction that
  was answered Ok.
- `InvalidatedBeforeSend`: a set in the cache was read after the invalidation ahead of
  every broadcast so far, unless a forced refresh stored it. This covers the time a
  transaction is on its way, and transactions that are never answered.
- `OwnEntries`: wallets that share the slot never build from each other's UTXOs.
- `ImplementsContract`: at most two broadcasts, Ok names an accepted one and there is
  none after it, a mining timeout precedes the second, late acceptances are of these.

`AnsweredInCache` says when a cached set was read, not what it contains: the UTXO index
of a node follows the blocks, so a set read after the acceptance may still show the
spent entries. What the code can be held to is that it uses no older reading.

On `IgraSubmission`:

- `ImplementsPath`: with the real submitter inside, the path takes no step that
  `IgraTransport` does not allow for, so everything above holds of the composition.
- `RecordedInCache`: the table and the cache agree. When the table shows a
  transaction as broadcast, no set of its wallet in the cache was read before L1 had
  the recorded transaction, unless a forced refresh stored it.
- `RecordedOnL1` again, now that an acceptance is what became of a broadcast of the real
  submitter.

On `IgraSession` and the modules it is composed of:

- `ValidationGaps`: a configured session that passed the guardrail fails later on its
  settings only where `validate` has a gap: a network name that is `custom` or padded, a
  Kaspa URL that is padded or not `grpc://`, a wallet without a usable key; never on its
  prefix or its compression.
- `OnlySoundConfigBuilds`: however the transport was put together, guardrail or not,
  funds are read and spent only for one signed envelope of a supported type that
  fits, under settings that all hold, with the key of the first source given.
- `WritesThroughKaspa`: enabled, a write reaches the execution layer only as a raw
  send inside a batch; disabled, the transport is transparent; reads are never
  refused; ids and shape are kept.
- `NoCandidateTwice`, `EveryRoundCostsOne`: the wrap of the nonce neither repeats the
  search nor costs more than one unit of change per round.
- `RetryRebuilds`: a retry that reads the same UTXOs builds the same transaction, so
  that a broadcast whose answer was lost is not paid for twice.
- `ImplementsFeePayment`: largest-first spends as few inputs as any choice could,
  gives the exact rest back, and refuses only if no choice of inputs pays.
- `RetentionKept`: opening deletes no row within its retention period except, over
  budget, the oldest finished ones, whatever is written meanwhile.
- `ImplementsOpenHandle`: the opening, seen through the tables, is the step that
  `IgraTransport` takes for it.
- `SessionEnds`: mining and the size budget come to an end.

## Runs and bounds

| Run | Instance | Question |
|---|---|---|
| `concurrent` | 3 requests, 1 sender, nonces 0 and 1, timeout 1, clock 4 | order, exclusion, rows and answers without faults |
| `faults` | 2 requests, nonces 0 and 1 with 1 = u64::MAX, timeout 1, clock 4, eight faults | counter, order and exclusion when things fail |
| `lease` | 2 requests, 1 hash, timeout 2, lease 4, clock 6, six faults | take-over, the contract of the submission, rows against L1 while writes fail and rows are pruned |
| `profiles` | 2 requests, 2 profiles, clock 2, errors of the lock step, requests without a store | wiped tables: what is left of the counter, of order, exclusion and answers |
| `composed` | 2 requests, 2 senders, 1 wallet, timeout 1, clock 1, second broadcasts, late acceptances, mining timeouts, crashes | the path with the real submitter and its cache, and the rows it leaves |
| `liveness` | 2 requests, nonces 0 and 1, a replacement, busy database, crashes, drops | `RequestsEnd` under fairness |
| `submitter` | 2 submissions, 2 keys | cache, invalidation, contract |
| `session` | environments of `MCIgraSession`: every pair of wrong settings, every key source, every packet of up to two requests, 26 pairs of UTXO sets, 72 databases of 3 rows | settings, routing, building and opening, from configuration to answer |
| `overrun`, `wait_out`, `forced_refresh`, `min_change` | small, the last one the instance of `session` | the four disagreements below |

Why the bounds are enough. Three requests let a late holder meet a successor and
the successor's successor; two suffice where the property relates two. With
timeout 1 and clock 4 a lease (2 ticks) is granted, expires and is taken over, and
the late one still marks; timeout 2 (`lease`) is needed to tell the acquisition
timeout from the lease, which at timeout 1 differ by a single tick. Nonces 0 and 1
give equal, lower and gap; `MaxNonce = 1` puts the overflow in reach, 5 keeps it
out. One profile change happens per `OpenStore`, and two profiles alternate. Clock 2 has no
expiry in `profiles`: take-overs among wipes rest on the theorems, which hold for any
clock (`SpecNonceMonotone`, `SpecLeaseExclusion`, `SpecBroadcastInOrder`,
`SpecImplementsLedger`). `NoSkippedNonce` is not listed in that run because
`ImplementsLedger` contains it. In
the submitter nothing is bounded but the number of submissions: the epoch grows by
at most three for each. In `composed` the clock allows no take-over, which
`lease` covers, but two senders hold their locks at once, so that two submissions
race on the cache while their requests wait for them. Symmetry is used except for
the liveness run: requests are interchangeable, in `profiles` so are the profiles,
and in `composed` the two senders, each swapped together with its transaction.

The bounds in the guards of `IgraTransport`: `MaxTime` (the clock), and `Start` and
`Tick` leave `LockTimeout` ticks so that every poll loop can reach its deadline
before the clock stops. Deadlock is not checked because a state where all requests
ended and the clock is at its bound, or all submissions ended, is a proper end.

In `session` the environments vary one dimension at a time around a session that
succeeds, since a failure in one dimension hides the later ones; two settings are
varied together so that the order of the checks shows. The fees are those of
`payload.rs` divided by a thousand (200, 20, 10, minimal change 1), a "kibibyte" is 8
bytes, so that lengths 3 and 4 lie on both sides of a fee step, and the amounts lie at
the fee of one to three inputs, one below, equal to each other, or cost more than they
bring. The mining nonce has 2 values: it wraps at once, several times, and down to
zero change. `Now` = 8 with hours of 3 gives rows on both sides of a cutoff and on it;
`I64Max` = 15 lets 9 hours saturate and 20 hours turn negative in the cast. A round of
the size budget deletes `BatchLimit` = 1 row, so that there are several;
`EmptySize` = 1, and `MaxWrites` = 1 row is written meanwhile. `MaxL2Data` = 11 is met and
exceeded by one. Deadlock is not checked because an answered session has ended.

Every run takes about two minutes or less with two workers.

## Fairness

`FairSpec` assumes weak fairness of `Advance(r)` for each request and of `Tick`:
the runtime schedules every task, the node answers or the connection breaks, and
time passes. Nothing is assumed of `Land`, `Crash`, `Abandon`, `Start` or
`OpenStore`. It is assumed of the request's steps together, not of each action: a
busy database may stay busy for ever and the poll loop must still end by its
deadline, which is what the run shows.

The `FairSpec` of `IgraSession` assumes weak fairness of `SessionStep`, the session's
own task, and of `MiningClock`, the clock that `mine_payload_nonce` compares with its
deadline. Nothing is assumed of `OtherWrite`, nor that a candidate is ever found or
that `VACUUM` ever shrinks the file: mining ends by the clock, and the budget loop
because it runs out of rows.

## Proofs

`IgraTransportProofs` holds for every number of requests, hashes, senders and
profiles, every nonce range, timeout and clock bound. `KaspaSubmitterProofs` holds
for every number of submissions and keys, and `IgraSubmissionProofs` for all of these
together. `IgraSessionProofs` and the lemmas on the
builder in `PayloadBuilderProofs` hold for every set of environments, hence packets
of any length, any number of UTXOs and rows, and every fee schedule, nonce range,
clock, batch limit and retention default. `AmountSums` holds for every finite set. Assumptions are the named ASSUMEs of the
modules and what a theorem itself says.

| Theorem | Assumes | Inductive invariant |
|---|---|---|
| `SpecTypeOK` | - | `TypeInv` |
| `SpecNoSkippedNonce` | any faults, any profiles | `NonceInv` |
| `SpecNonceMonotone` | any faults, any profiles | `TypeInv` |
| `SpecImplementsLedger` | any faults, any profiles | `TypeInv` |
| `SpecNoEarlyTakeover` | any faults, any profiles | `LockRowInv` |
| `SpecImplementsContract` | any faults, any profiles | `TypeInv` |
| `SpecLeaseExclusion` | any faults, any profiles | `LeaseInv` |
| `SpecBroadcastInOrder` | any faults, any profiles | `NonceInv`, `OrderInv` |
| `SpecAnsweredAdvances` | no failing mark, any profiles | `AnswerInv` |
| `SpecNoOrphanLock` | no failing release, no crash, any profiles | `NotOrphanedInv` |
| `SpecRecordedOnL1` | any faults, any profiles | `TypeInv`, `RowsInv` |
| `SpecRecordNeverContradicts` | no failing row write, any profiles | `RowAgreesInv` |
| `SpecRecordMatchesAnswer` | one profile, no failing row write, no pruning | `RowAgreesInv`, `RowPresentInv` |
| `SpecAttemptsNotOvercounted` | finitely many requests, any faults, any profiles | `AttemptsNotOvercounted` |
| `SpecAttemptsCountFailures` | one profile, no failing row write, no pruning, no crash, a store for every request, finitely many requests | `AttemptsInv` |
| `SpecSubmitterTypeOK`, `SpecOwnEntries` | - | `TypeInv` |
| `SpecAnsweredInCache` | - | `CacheInv` |
| `SpecInvalidatedBeforeSend` | - | `SendInv` |
| `SpecImplementsContract` (submitter) | - | `TypeInv` |
| `SystemImplementsPath` | second broadcasts, late acceptances and mining timeouts among the faults the path allows for | `SystemInv` |
| `SystemKeepsPath` | as above | - |
| `SystemImplementsSubmitter` | - | - |
| `SystemRecordedInCache` | as above | `SystemInv`, `CacheInv`, `RecordInv` |
| `SpecTypeOK` (session) | - | `SessionInv` |
| `SpecNoCandidateTwice` | - | `SessionInv` with `BuilderInv` |
| `SpecEveryRoundCostsOne` | - | `SessionInv` with `BuilderInv` |
| `SpecValidationGaps` | - | `FlowInv` |
| `SpecOnlySoundConfigBuilds` | - | `FlowInv` |
| `SpecWritesThroughKaspa` | - | `FlowInv` |
| `SpecRetentionKept` | - | `RetentionInv` |
| `SpecImplementsOpenHandle` | - | `SessionInv` |
| `SpecRetryRebuilds` | - | `SessionInv`, `ChoiceInv` |
| `SpecDraftsAreFirstHits` | - | `SessionInv`, `ChoiceInv` |
| `SpecImplementsFeePayment` | - | `SessionInv`, `ChoiceInv` |

None of the properties is inductive alone. `TypeInv` adds `ControlFlow`: what the
program counter says of the other variables, e.g. that a request about to mark was
granted in order and that its transaction landed. That last fact carries
`NoSkippedNonce` and the refinement of the ledger: the counter only moves in
`MarkSubmitted`, over the nonce of a request that `ControlFlow` knows to have
landed. `LeaseInv` relates each request inside its lease to the lock row. A wipe of
the table breaks it for the requests granted before, and for nobody else: the lemma
`Remembered` says that a request that is not forgotten after a step was granted under
the profile the store still has, so that no opening has touched its counter or lock.
`OrderInv` and `AnswerInv` survive a wipe by the same lemma. `OrderInv` says that what
a classification saw (all lower nonces landed) stays true because landing is final.
`LockRowInv` relates `expiresAt` to `updatedAt`. `AnswerInv` follows an in-order
request from grant to answer: the counter is at or past its nonce, and past it
once marked. In `KaspaSubmitterProofs`, `CacheInv` says that a reader whose epoch
is still current has read the node after every finished bump, hence after the
acceptance before it. `SendInv` says the same of the bumps ahead of the broadcasts, and
that whatever goes out has had its bump.

The rows: `RowsInv` says that a row with a payload nonce or an id belongs to a request
that was answered Ok and names its `result`. It is kept because an answer is final
(`AnswerFinal`) and each write takes all columns from one request. `ControlFlow` knows
that the `result` of an Ok is on L1 with nothing sent after it, which gives
`RecordedOnL1`. `RowAgreesInv` says that from a request's last write on, its row is gone,
belongs to another request, or agrees with the outcome; pruning and wipes only
remove rows, so it needs nothing but that writes succeed. `RowPresentInv` is the other
half, that there is a row, and needs that nothing removes one. Of the attempts,
`AttemptsNotOvercounted` holds whatever happens, since every increment comes with a
request that fails in that step and was not counted before; `AttemptsInv` makes it an
equality, and for that each started request must be tracked and each failure written.

The composition: `SystemInv` joins the two type invariants by `Coupled`: `sent`,
`late` and `result` are what the broadcasts say, and a submission runs exactly while its request
awaits it. With it each step is a step of the path: an answer is a `SubmitOk` or a
`SubmitErr` because an Ok follows an acceptance and a mining timeout precedes the
broadcast of its attempt (`AdvanceResult`), an acceptance is a `Land`, a drop is a
`Crash`; all other steps of the submitter are invisible to the path. That is why the
assumption is needed: the real submitter does broadcast twice, leave broadcasts in
flight and time out, so the path it runs in must be the one with the faults `retry`,
`late` and `mining`. The
theorems on the path then hold of the composition (`SystemKeepsPath`). `RecordInv` follows an
Ok from the submission to the row, and meets `CacheInv` there: the recorded broadcast is
the attempt that was answered. The two invariants of
the submitter are proved again for the variables of the composition, because tlapm
cannot use the theorems of a module that is instantiated.

The session: `BuilderInv` adds `CandidateOrder` (candidates are tried in the order of
falling output and rising nonce, and the next one is beyond all of them, which is why
none repeats) and that `tried` is finite. `FlowInv` carries what the checks found from
the stage that made them to the later ones: `PastGuard`, `SettingsKnown` (the settings
of the transport are those of the configuration, or of `new`), `RouteKnown`,
`ChecksPassed`, `ErrorJustified` (a reported field is really at fault), `LengthKept`,
`AnswerLast`. `RetentionInv` adds `RowsKept`: a row nobody else wrote is still as the
session found it, or gone.

The builder. That the largest inputs pay if any do is a fact about sums, proved in
`AmountSums` without induction over data: among the finite sets that refute a claim
there is one with the fewest members, and taking one member out of it gives a smaller
one. `MostValuable` follows: no set of as many UTXOs is worth more than the selected
ones. So the selection goes on only where no set of its size pays, which gives
`FewerDoNotPay`, and a refusal after the last UTXO is final. `LargestFirst` makes the
selection unique: of equals, it takes the one that stands first in the wallet.
The search is unique as well. Candidates are tried in an order in which the tried
ones are all those before the current one, so that the first hit depends on the wallet
and on what is a hit, not on the attempt. `ChoiceInv` carries both through a session:
each draft is `DraftKnown`, the selection for the UTXOs its attempt read and the first
hit for that selection. Two drafts from the same UTXOs are therefore equal
(`RetryRebuilds`), though `hits` and `misses` have grown in between.

Only model-checked: `RequestsEnd` and `SessionEnds`, since liveness is out of the
prover's reach, and the four counterexamples. Only proved: the theorems whose
property is not the name of a run's (`SpecRecordNeverContradicts`,
`SpecAttemptsNotOvercounted`, `SpecDraftsAreFirstHits`, `SystemKeepsPath`,
`SystemImplementsSubmitter`), which strengthen or complement one that is checked.

## Where the code and its texts disagree

1. `overrun`: a submission can outlast the sender's lease, so that two submissions
   of one sender run at once, while a test of `transport.rs` says same-sender
   requests "should be serialized behind sender lock". Nonces still reach L1 in
   order (`BroadcastInOrder`).
2. `wait_out`: a comment in `store.rs` says the lease outlives the acquisition
   timeout so that a contender cannot wait it out within one call. A contender that
   starts in the second half of the lease does.
3. `forced_refresh`: a comment in `submitter.rs` says invalidation keeps concurrent
   reads from reusing spent entries; a forced refresh stores without the epoch
   check and brings them back after the spender was answered Ok.
4. `min_change`: `payload.rs` calls `MIN_CHANGE_SOMPI` the "Minimum change output value".
   The inputs are selected by it, but each wrap of the mining nonce takes one sompi from
   the change, down to zero, and nothing compares it again. It takes 2^32 hashes, hence a
   long mining timeout or a fast machine, and inputs that leave next to nothing.

Found while modelling, and kept as an exception inside a property or in prose, because
no single property states the text:

- `validate` accepts the network `custom`, and trims the network name before it
  compares; `kaspa_network_descriptor` refuses both `custom` and a name with blanks.
  Such a configuration passes every gate and fails each submission
  (`ValidationGaps` names exactly these, and the two that follow).
- `validate` trims `kaspa_rpc_url` and takes the schemes `grpcs`, `http` and `https`; the
  submission hands the setting to the gRPC client as it is, blanks included, and the
  client wants `grpc://` at the very start.
- `validate` does not look at the wallet: without a usable key every submission fails.
- A profile change empties the table of transactions, but a request on an older handle
  goes on writing rows of the old profile into it. Nothing says it must not.
- `docs/configuration.md` says that the EVM `--private-key` is used when no Kaspa wallet
  is given. Inside this crate such a submission is refused with
  `IGRA_KEY_RESOLUTION_ERROR`, and the patch falls back the other way, from the Kaspa
  key to the EVM signer.
- `README.md` says that writes are routed through Kaspa L1. A raw send inside a batch
  is forwarded to the execution layer (`WritesThroughKaspa` has this one exception).
- A `keystore_account` never resolves in a submission, which passes no keystore
  directory (`OnlySoundConfigBuilds`: an account alone is not a key).

## Abstractions and what is not modelled

- The wall clock is monotone and shared by the processes. A clock that jumps, or
  processes whose clocks differ, is outside the model. The opening of a handle reads
  the clock as one instant, `Now`.
- What `GrpcClient` takes for a URL (`GrpcClientTakes`) is the behaviour of an external
  crate; URLs are the classes of their scheme and blanks, and a `grpc://` URL is one the
  client accepts.
- A `spawn_blocking` task that cannot be joined is treated as the future's end.
- In `IgraTransport` message text and the time columns of rows are left out; which
  rows pruning takes is left open among those it may take. `StoreMaintenance` says
  which.
- The signer, nonce and hash of a request are given (`SenderOf`, `NonceOf`); a raw
  transaction is the class of its envelope and whether it decodes and has a signer.
- The UTXO sets of `KaspaSubmitter` are reduced to whether they pay and to when they
  were read. `AcceptedFor` is what the node had accepted by then, not what the read
  shows: `get_utxos_by_addresses` reads the UTXO index, which follows the blocks and not
  the mempool, and what it shows is left open (any `Funds`). So a retry may well build
  from inputs its first broadcast spends; `RetryRebuilds` is about that case. The time to
  live of the cache is a miss at any time. The session has real amounts but no cache: each attempt reads its own set. What the node does
  with a double spend is open: it accepts or not.
- In the session, the lock and nonce step around a submission is one outcome,
  `Blocked`; whether a node answers is open; the key derivation succeeds or not (the
  passphrase, path and index of a mnemonic are part of that); the transaction mass is
  the verdict of the Kaspa crates. Sums stay far below 64 bits.
- All parts of a session read one configuration, as the callers do.
- Writers of other processes during an opening are bounded by `MaxWrites` and write
  any state; their profile changes are the subject of the `profiles` run.
- Atomics and locks are sequentially consistent. The relaxed epoch is read for
  comparison under the lock of the slot, which orders it after the clear.

Not modelled: the stand-alone `acquire_sender_lock` and `classify_nonce`, which only
tests call, and the read-only handle, which only reads rows; the catalogue of error
messages; hashing, key derivation and signing (external crates); the patch to Foundry
(a diff against another repository), the installer, the release workflow, the profiles
and the example contracts.

## Plan

Done: the request path with its store and ledger, the submitter and its contract,
the two composed, and the session with its configuration, routing, building and
opening. What is left:

1. *Store interface*: the stand-alone lock and classification beside the combined
   transaction, should the program come to call them.
2. *Abstract lease lock*: a specification of the sender lock alone, implemented by
   the store.
3. *Composition*: a submitter whose builds are those of `PayloadBuilder`, with real
   amounts in the cache.
