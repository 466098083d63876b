# SpongeTube: a verification project

TLA+ modules, TLC runs and TLAPS proofs about SpongeTube: the engine and storage
core of an Android player that fetches immutable media extents over HTTP, publishes
them in a local store and plays from it, and the measurement programs beside it that
run experiments and judge their evidence. Paths are relative to the repository's
`src/`; `E/` stands for
`core/engine/src/main/java/io/github/definitelystable/spongetube/core/engine/`,
`S/` for the same directory of `core/storage` (package `core.storage`), `MS/` for
`scripts/measurement/` and `CI/` for `scripts/ci/`. `PROJECT.json` holds the
machine-readable side: components, runs, mutants, definition-to-source map, findings,
hazards, theorems.

## 1. Inventory

The engine's state lives in one process; "concurrent" means coroutines on several
threads, and nothing but the extent store survives a process death. The measurement
programs are processes that share files: an output directory survives their death.

| Component | State it keeps | Operations | Talks to |
| --- | --- | --- | --- |
| **FetchBroker** (`E/FetchBroker.kt`, `FetchModels.kt`) | registry key -> shared fetch (state, consumers, priority, owner job, result), closed flag | `acquire`, handle `await`/`close`/`raisePriority`, owner coroutine, `shutdown` | admission callback of its caller, HTTP executor, extent writer |
| **RecoveryCoordinator** (`E/recovery/`: coordinator, chain, budget) | open chain per key (consumers, priority, state, broker handle, ledger), closing flag | `acquire`, handle `await`/`close`, driver coroutine (gate, owner, decision, wait, refresh), `shutdown` | FetchBroker, attempt gate, binding coordinator, reconciler |
| **Recovery policy, classifier** (`E/recovery/RecoveryPolicy.kt`, `FailureClassifier.kt`) | none | `classify`, `decide`, backoff window | coordinator |
| **Attempt gate** (`E/recovery/RecoveryAttemptGate.kt`) | none, observes routes | `awaitPermit` | route monitor, session policy |
| **DeliveryBindingCoordinator** (`E/delivery/`) | current revision, operation in flight with its waiters, closed flag | `current`, `refresh`, abandon, `shutdown` | provider refresher, chain ledger by admission callback |
| **Retry-After, provider clock** (`E/delivery/RetryAfter.kt`) | none | parse, `waitMs` | coordinator |
| **Route monitor and policy** (`E/route/`) | current network, epoch, sequence; direct override | reducer callbacks, `evaluate` | attempt gate |
| **CoverageIndex** (`E/CoverageIndex.kt`) | projection of the store's rows, generation | `refresh`, `resolve` | extent store |
| **Read session, bridge runtime** (`E/PlaybackReadSession.kt`, `PlaybackBridgeRuntime.kt`) | open handle, position, closed flag; owned components | `open`, `read`, `close`, `shutdown` | coverage index, store, recovery coordinator |
| **HTTP executors, engine pool** (`E/PlatformHttp*.kt`, `HttpRangeFetchExecutor.kt`) | request in flight, engines per route | `execute`, cancel with a timed acknowledgement, pool shutdown | platform HTTP |
| **Extent store** (`S/Extent*.kt`) | rows, part and final files, quarantine, readers, writers, process lease | writer `commit`/`abort`, `openRead`, quarantine, recovery on open | metadata database, file system |
| **Metadata, durability** (`S/Room*.kt`, `Android*.kt`) | database rows | insert, replace, fsync | extent store |
| **Evidence** (`E/*Evidence.kt`) | event buffers | record | everything |
| **Recovery evidence oracle** (`MS/m2_recovery_oracle.py`, `m2_contracts.py`) | none, replays events | chain replay, classification and decision tables | the coordinator's evidence |
| **Provider probe batch, M3** (`MS/m3_probe.py`, `m3_contracts.py`, `m3_matrix.py`, `m3_batch.py`) | artifacts, matrix and summary in one output directory | a probe, the qualification sweep, the loop over the plan, aggregation | provider, earlier invocations through the directory |
| **Extraction diagnostics, C2** (`MS/m3_c2_*.py`) | documents and bundles in one output directory | eight scripts D0-D7, each a chain of checks, observations, writes; stop gate | reference extractor, child process, earlier scripts' documents |
| **Transport trials, G2** (`CI/run-m2-g2-network.sh`, the fault harness, reset controller, `CI/verify-m2-g2-*.py`, `MS/m2_g2_oracle.py`) | fault on the link, host log, trace of the Media Lab, retained evidence | arm, start, wait, settle, stop, clean up, verify | device, Media Lab, proxy |
| **Apps, benchmark, Media Lab, other oracles** | test and UI state | | the core's public API |

What makes each of them correct, and what is hard about it:

- **FetchBroker.** One physical owner per key, also while a cancelled one winds
  down (the *cancellation barrier*); demand and work stay in step: no owner works
  for nobody unless it is being cancelled, no caller is left on a doomed owner;
  the urgent caller's priority reaches the owner; shutdown ends everything. Hard:
  every decision is made under a lock and carried out after it; a lazily started
  coroutine can be cancelled before its body runs; completion takes two critical
  sections.
- **RecoveryCoordinator.** One chain per key; its owners follow one another and
  never overlap; the budget bounds the requests of a chain whatever its demand
  does; a consumer is never told that there was no demand; shutdown leaves no
  attempt behind. Hard: demand leaves and returns at every suspension point of the
  driver, and the handle that a cancellation needs is stored later than the owner
  begins.
- **DeliveryBindingCoordinator.** Revisions only advance, one refresh at a time,
  one charge per provider operation. Hard: joiners, the last waiter leaving while
  the answer arrives, shutdown.
- **Route reducer, policy, gate.** Epochs and sequences never go back, a lost
  network does not stay current, no permit for a route the policy excludes. Hard:
  callbacks of different networks reordered, override and route changing together.
- **Extent store.** A row names a complete file with the right digest; at most one
  publication per extent; a crash at any step is repaired by the next open;
  quarantine never hits what it did not read. Hard: two durable media (files,
  database) without a common transaction.
- **CoverageIndex, read session.** What is served was published; staleness is
  repaired, not served; close while suspended leaks no handle.
- **Executor, pool.** A cancelled request is over before the next begins, up to
  the acknowledgement timeout; the pool closes no engine in use.
- **Pure parts** (classifier, backoff, Retry-After, byte accounting): total,
  bounded, overflow-safe.
- **Recovery evidence.** What the coordinator writes is accepted and true, and the
  oracle's tables are those of the runtime. Hard: the ledger is charged at another
  moment than the charge is written.
- **Probe batch.** Each cell is probed once, a COMPLETE summary speaks for the files
  beside it, the artifact says what was seen and keeps its contract. Hard: two loops
  over the same cells, kills and reruns over one directory, two tables that must
  agree over answers no test combines.
- **Extraction diagnostics.** Requests are counted and bounded, a document is accepted
  exactly when it is honest, a bundle is one run's. Hard: exceptions that unwind
  through an extractor that may swallow them.
- **Transport trials.** A verified experiment did what it reports. Hard: late trace
  rows, a pulse and a controller beside the script, failures between arming and
  removal.

## 2. Modules

| Module | What it is |
| --- | --- |
| `SingleFlight` | the abstract registry: flights open, drain and land, one per key in the air |
| `FetchBroker` | `E/FetchBroker.kt`, one action per critical section |
| `FetchBrokerProofs` | theorems: its invariants, and that it implements `SingleFlight` |
| `RecoveryCoordinator` | `E/recovery/RecoveryCoordinator.kt` with its chain, ledger and policy, over the broker's contract |
| `RecoveryCoordinatorProofs` | theorems about it |
| `RecoveryTables` | the decision tables of the runtime, of the oracle and of the frozen anchors |
| `RecoveryOracle` | the oracle's replay of one chain's events |
| `RecoveryEvidence` | `RecoveryCoordinator` with the events it writes, replayed as they are written |
| `RecoveryEvidenceProofs` | theorems: only known races are rejected, the rest is true; on top of the coordinator's |
| `DeliveryBinding`, `DeliveryBindingProofs` | `E/delivery/DeliveryBindingCoordinator.kt` and theorems about it |
| `ExtentStore`, `ExtentStoreProofs` | `S/ExtentStore.kt`, `S/ExtentWriter.kt` and the metadata they use, and theorems |
| `M3Probe`, `M3Matrix`, `M3Batch` | one probe and its contract; plan, qualification and aggregation; the batch |
| `M3BatchProofs` | theorems: every property its run checks |
| `C2Documents`, `C2Extraction`, `C2Run` | the documents and their validators; one instrumented extraction; a script's run |
| `C2RunProofs` | theorems: every property its run checks |
| `G2Plan`, `G2Oracle`, `G2Evidence`, `G2Verify`, `G2Trials` | plan; trial oracle; a trial's evidence; the verifiers; the experiment as it runs |
| `G2TrialsProofs` | theorems: every property its run checks |
| `MC...` | the instances |

Each layered family EXTENDS downwards: `G2Trials` knows `G2Verify`, which knows
`G2Evidence`, and so on. `RecoveryEvidence` composes three components: coordinator,
oracle and tables. Modules with theorems hold no RECURSIVE operator.

### FetchBroker

A call is one execution of `acquire()` and everything its caller does with the
handle. It creates at most one `SharedFetch`, so the fetch bears the call's name
and the fields of `SharedFetch` are functions over calls (`state`, `consumers`,
`priority`, `cancelOutcome`). `job`, `cancelled` and `stage` are the owner
coroutine: Kotlin's lazy job, whether it was cancelled, how far `runOwner` is.
`active` is the registry, `closed` the flag, `pc`/`on` where each caller stands,
`shutdown` what `shutdown()` still has to cancel, join or complete itself.

Each action is one critical section of `registryLock` plus the thread-local code
around it; what is done after an unlock (starting the job, cancelling it,
completing the result) is an action of its own, so others can come in between.
The coroutine library is modelled by what the code relies on: `job.cancel()` on a
job whose body has not been dispatched completes it without running the body
(`CancelledBeforeBody`) and runs its completion hook; `join()` on a lazy job waits
unless it is cancelled.

Abstracted: bytes and their accounting, events, which failure an attempt
reports. `shutdown()` has one caller; a second one changes nothing.

### RecoveryCoordinator

A chain bears the name of the call that starts it. `state`, `consumers`,
`priority`, `stopWaiting`, `settled`, `result`, `handle`, `attempts`,
`refreshes` are fields of `RecoveryChain` and its ledger; `at` is the position of
the driver coroutine in `drive()`, `verdict` the owner outcome or refresh answer
it is about to act on. `owner`, `leased` and `ownerPriority` are the chain's
current broker owner, `requests` counts real HTTP requests (the code has no such
counter: it is there to be compared with the ledger), and `throttled` remembers a
provider's Retry-After for as long as the chain stays in demand.

The broker is represented by its contract, which is proved of `FetchBroker`: one
owner per key, an owner ends, and as CANCELLED only when nobody holds its handle.
The admission callback, which the broker calls and the coordinator implements, is
`Admission`. The binding coordinator is the set of answers `refresh()` can give.
Outcomes are grouped by what `RecoveryPolicy.decide()` and `actionFor()` do with
them (`Verdicts`). Whether the gate, a reconciliation or a provider answers well
or badly is left open.

Not modelled: lengths of delays; a scope cancelled from outside
(`onDriverCompleted`, 264-284) and a broker closed under a running chain (406-412),
because `PlaybackBridgeRuntime.shutdown()` shuts the broker down after the
coordinator; a second caller of `shutdown()`, which only waits for the first.

### RecoveryEvidence, RecoveryOracle, RecoveryTables

`RecoveryEvidence` takes every action of `RecoveryCoordinator` and adds the calls of
`emitBudget()` and `emitFailure()` made in it. Events are written under the
coordinator's lock with the ledger read there, while the charge itself happens in the
callback of an admission, outside it; so writing a charge (`WritesCharge`) is a step
of its own. `replay` is what the oracle's `_Chain` makes of the events so far: each
event is replayed where it is written, and the requirements that the first bad event
breaks are kept in `broken`, by name.

`RecoveryTables` has the decision tables three times, as they are written apart from
each other: the runtime's classifier, policy and action mapping, the oracle's
derivation, and the anchors of `m2_contracts.py`. `TablesAgree` compares them at each
decision over all observations and contexts.

### DeliveryBinding

One element of `Calls` is one failed attempt: the binding selected for it and the one
`refresh()` it asks for. A `refresh()` starts at most one operation, which has the
call's name; the fields of `InFlightRefresh` are functions over calls, the slot is
`inFlight`, and `waiters` is the counter of the code, not a set: that it counts the
right callers is proved. Each action is one critical section of the lock or one step
outside: admission comes under the lock, the operation's coroutine, its completion
hook (`Finish`) and the cancellation that a leaving caller or `shutdown()` does after
its unlock come apart from it. A job cancelled before its body begins ends through
its hook alone (`CancelledBeforeBody`).

### ExtentStore

A step is what one coroutine does between two points where another may come in or the
process may die: a reservation, one metadata transaction, one change of a directory,
one directory fsync. `rows` are the database, `final` and `parts` the directories as
the running system sees them, `durable` what a crash would leave of them; a file is
known by the write that made it (its inode). `wpc` and `rpc` are the positions of
`writeExtent()` and `openRead()`, `recovery` that of the reconciliation on open.
`Damage` strikes a published file from outside; `Crash` drops memory and everything
that was not synced; failures of single operations (a publish that fails after the
rename, a removal that fails) are alternatives of their steps.

Simplifications: a metadata transaction applies or fails as a whole and its commit is
durable (the database is opened with FULL synchronous, which
`ExtentMetadataDurability` insists on); calls on a closed store and the migration of
the schema are left out; the path is a function of the extent's id, so that
UNEXPECTED_PATH cannot arise; damage strikes published files, and not during
recovery; the directory of each extent is synced on its own.

### M3

An answer of the provider is a record: the requests the reference extractor wants,
the failures it sees, what it logs, the formats it returns, and how a media request
ends. `M3Probe` turns an answer into the probe's observation, classification and
artifact, and has the contract's own table; `M3Matrix` has registry, plan,
qualification and aggregation; an action of `M3Batch` is a step of `execute_batch()`
between two points where the process can be killed, with the files it writes. An answer
with a media response that is lost on the way (`ResponseLost`) ends the invocation in a
traceback. The
media requests of a probe are written round by round: a probe has a bounded number of
them, and each depends on what the one before it told.

### C2

A script is its number. One record stands for the nested documents of all eight;
script n uses the fields of the scripts it nests. `C2Extraction` is one call of
`extract_info()` seen through the probes: clients, phases, events, requests and
exceptions, which unwind one frame at a time; the extractor's own, but not the probes',
may be swallowed on the way.
`C2Run` is a script's `main()`: its steps in order, the child process that observes a
cell, files that are opened and then filled, and a kill or a timeout at any step.
The stop gate takes the ledgers of three runs, at three commits; `PassesGate` is what it
asks of each, and a run is compared with its own ledger alone. Totals over documents are a
recursive function over their number, which a proof can reason about where it cannot about
a fold.

### G2

`G2Trials` is the experiment as it runs, under `set -e`: the script's steps, the fault
harness with its pulse (N3) and reset controller (N6) as processes of their own, the
device's owners and their requests, and the Media Lab, which writes a trace row when a
request has ended, possibly in a later trial. The job's end is `cleanup()` step by step,
each of which may fail, beside the command that a killed pulse leaves behind. The numbers
of owners go to the attempt limit of the plan (`MaxOwners`). `G2Verify` is what the host verifiers
accept of the evidence kept, over `G2Evidence` (one trial), `G2Oracle` (rows and
claims) and `G2Plan` (schedule and bindings). Hashes are the values they are made of.

## 3. Runs

| Run | Instance | Distinct states | Shows |
| --- | --- | --- | --- |
| `FetchBrokerSafety` | 3 calls on one key, two under one consumer id, both priorities; a 4th with another spec | 249 k | five invariants, and that the broker implements `SingleFlight` |
| `FetchBrokerLive` | 3 calls on one key, a 4th on another | 180 k | every `acquire()` returns; shutdown returns, all ends, none works later |
| `RecoverySafety` | 2 calls on one key, reserve and urgent, 2 attempts, 1 refresh; or one of them and one with another spec, 1 attempt | 1.28 M | six invariants of the coordinator |
| `RecoveryLive` | 2 calls on one key; 1 attempt, 1 refresh | 180 k | `acquire()` settles, `shutdown()` returns, outcomes are delivered |
| `RecoveryLastLeaver` | 2 calls, 2 attempts, 1 refresh | violation | finding 1 |
| `RecoveryEvidence` | 2 calls on one key; 2 attempts, 1 refresh | 1.10 M | evidence is true; only known races are rejected; the tables agree |
| `DeliveryBinding` | 3 failed attempts | 356 k | one refresh per revision, counted waiters, everyone gets away |
| `ExtentStore` | 4 writes, 2 reads, 2 extents, 1 damage, 1 crash | 1.29 M | rows and files in step through failures and restarts |
| `ExtentStoreStaleReader` | the same | violation | finding 2 |
| `M3Batch` | 2 invocations, 2 lanes, 8 kinds of answer | 541 k | one probe per cell, summaries backed, artifacts tell what was seen |
| `C2Run` | 8 scripts, 1 or 2 cells, 2 invocations | 1.10 M | requests counted, only known rejections, bundles of one run |
| `G2Trials` | 7 profiles, 4 trials each | 1.15 M | accepted experiments did what they say; no fault outlives its job |

Deadlock is checked where a model has an end of its own (`ExtentStore`, `C2Run`,
`G2Trials`) and not where the system stops once its callers have left.

**Bounds.** Each run fixes the calls, writes, reads or invocations; the budgets are
bounds of the code itself.

- Three broker calls are what the barrier needs: one that leaves, one that waits behind
  the dying owner and one that competes with it for the next; two that share a consumer
  id give the duplicate-id conflict. Two recovery calls suffice to leave a chain, revive
  it, and leave it again; a chain loops through its driver as often as the budget allows,
  and more often through owners cancelled before they are charged. Two attempts let an
  owner follow a charged one; one refresh, the production limit, lets a second be
  refused. Three binding calls let an operation be joined, left by its last waiter and
  met by a third, on one revision or on three.
- `MaxDamages` and `MaxCrashes` bound what the environment of the store may do; the
  proofs do not need them. `MaxRuns` and `MaxInvocations` bound reruns: a second
  invocation is the one that finds what a first has left. `MaxDrops` bounds the packets
  a fault drops in a trial, of which only "none" and "some" are told apart.
- A CONSTRAINT named `Explored` splits an instance into smaller ones that share a run:
  two calls that exclude each other, a neighbour that is written alone, a second cell
  that is explored with less. It refuses *starting* the one once the other has started,
  and what has started is never unstarted; so what is explored are all behaviours of the
  smaller instances, and liveness is not affected: no fairness condition asks for a
  start. In `RecoveryEvidence` it also ends a behaviour at the oracle's first rejection,
  which is where the oracle stops, and bounds the attempts of both chains together.
- `NamedInTurn` (`DeliveryBinding`) lets calls begin in the order of their names. The
  calls are alike, so every behaviour is one of these under other names. (A SYMMETRY
  would do the same, but not for the liveness property of that run.)
- Symmetry is used in `FetchBrokerSafety` (two calls with the same request) and in the
  store's runs (two reads of one extent): safety properties only, which do not name them.

**Fairness.** Weak fairness of each thread's own steps: a coroutine that can run
runs, one conjunct per caller, owner, driver, operation and for `shutdown()`. No
caller has to acquire, await, leave or raise anything. The broker's owner does not
have to finish an attempt unless it is cancelled (executors observe cancellation). In
`RecoveryCoordinator` a closed gate, a provider and an uncancelled attempt may take
for ever; an owner whose lease was given up ends, as a cancelled one does in the
broker, where `AcquireReturns` needs it behind the barrier. In
`DeliveryBinding` the provider may never answer; an operation whose job is cancelled
stops waiting for it. The store and the measurement programs are checked for safety
only: their code states no progress promise.

## 4. Properties

Broker: `OwnersNeverOverlap` (one unfinished owner per key), `PlacesAreExclusive`
(two callers never share a place in `consumers`), `NoUnwantedWork` (an owner
nobody is aboard of is under cancellation), `NobodyAbandoned` (a caller aboard is
not told that it had no consumers), `PriorityCoversEveryone`, `QuietAfterShutdown`,
`AcquireReturns`, `ShutdownEndsEverything`, and `ImplementsSingleFlight`: the broker's
registry, jobs and two-step completion are invisible to its callers.

Recovery: `AlwaysNewOwner` (the "broken invariant" error of `runOwner` is
unreachable), `RequestsWithinBudget`, `NobodyDenied` (nobody gets a
NO_REMAINING_DEMAND it did not cause), `PriorityReachesOwner` (a join between the
driver's two steps is not lost; only between its own lock and its `raisePriority()` does a
joining caller leave an owner behind its chain), `RetryAfterRespected` (a chain that stays in demand
makes no request before Retry-After has run out), `QuietAfterShutdown`,
`AcquireSettles`, `ShutdownEndsEverything`.

Recovery evidence: `EvidenceTellsTheTruth`, `RejectsOnlyKnownRaces`, `TablesAgree`.

Delivery binding: `RevisionsRefreshedOnce` (of all who fail on a revision, one
operation goes to the provider, and none replaces what is no longer current),
`NoOrphanRefresh`, `WaitersKeepTheirRefresh` (nobody's refresh is cancelled by another's
leaving), `EveryoneIsAnswered`.

Store: `FilesAreOwned` (a final file without a row is on its way in or out, unless a
failure came past the last point of cleaning up), `HandleHoldsItsVersion` (the file of a
read handle is the version its row was published for, or that version struck since),
`SoundUntilStruck` (what is committed stays through crashes, recovery and failed
writes), `RecoveredIsSound` (rows and files agree when recovery opens the store).

M3: `OneProbePerCell`, `CompleteSummaryIsBacked`, `AggregatorAgrees` (the two paths that
judge the qualification), `ArtifactsTellWhatWasSeen` (if no media response is lost the
contract is kept; an unknown is no rejection, and a path that works is not reported as
gated).

C2: `RequestsAreAccountedFor`, `RejectsOnlyKnownCases` (an exact list of the honest
observations that the validators refuse), `GateTellsHowItEnded` (what each of the
three ledgers lets the stop gate conclude of the run it is from: how the extractor ended
and what it had parsed, not what the provider sent), `BundleAgreesWithRun`.

G2: `AcceptedRunReportsItsRequests`, `AcceptedFaultIsReal`, `FaultStaysInItsTrial`,
`MisreportsAreCaught`. `FaultStaysInItsTrial` is about the whole job, failed ones
included: no pulse outlives it, and no fault does unless the job failed and the link could
not be taken down. The first two state their exceptions: a request that outlives the
wait for the trace to settle can be counted wrongly (but not when the four trials are
alike and fewer such requests than trials: the verifier wants the four rows to agree),
and a request of another trial can stand in for the fault's victim.

Every property of a passing run has a mutant in `PROJECT.json`: a plausible bug in
one definition that makes TLC find the property violated under the same run.

## 5. Findings

1. **The last consumer of a chain need not cancel its owner** (`RecoveryLastLeaver`).
   Left before the driver has stored its handle, and joined again before it does,
   the chain stays CANCELLING while its owner runs for the new consumer. When that
   one leaves too, `release()` closes handles of ACTIVE chains only, and the owner
   runs on for nobody. M2.md and ADR 0003 say that the last consumer leaving cancels
   it.
2. **A reader can delete what a repair has just installed** (`ExtentStoreStaleReader`).
   `openRead()` quarantines by the extent's id and deletes by its path what it found
   damaged, in steps of their own. Two readers condemn one file, the first deletes it, a
   writer installs the repair, the second deletes that, and the write returns success for
   an extent without a file. M1.md's crash matrix says that after publish the file must
   exist and validate. No handle gets another version for it: `HandleHoldsItsVersion` is
   proved.

Observed besides, without a run of their own:

- *Broker.* `FetchBrokerTest.shutdownCancelsAndJoinsActiveOwnerBeforeReturning`
  (`FetchBrokerTest.kt:681`) asserts an empty registry. It need not be: `shutdown()`
  skips owners between the two critical sections of `completeTerminal()`, and does not
  wait for the hook of a job cancelled while lazy. No owner works then, which is
  `QuietAfterShutdown`. The broker swallows exceptions of its listener.
- *Recovery.* Demand that lapses and returns during a Retry-After wait ends the wait
  (`awaitWhileDemanded`: "a late join simply continues the chain"), so the next attempt
  may come before the provider's time.
- *Recovery evidence.* The ledger is charged outside the lock (`RecoveryCoordinator.kt:367`)
  and CHARGE is written under it. A caller's event in between carries a ledger it did not
  change, and `m2_recovery_oracle.py:709` ("{kind} changed the ledger") rejects the
  evidence of a correct run. So it does of a chain that goes on after an abandoned backoff
  (a permit wait inside it) or provider wait (an early request). `RejectsOnlyKnownRaces`
  says that there is nothing else.
- *Delivery binding.* A caller may join an operation that its last waiter has already
  cancelled and is told ABANDONED without a shutdown; the chain goes on with the stale
  binding, which costs an attempt. M2.md:1210 says that no charge exists without an actual
  refresh: an operation whose job is cancelled before its body begins has been charged and
  the refresher is never called.
- *Store.* `openRead()` checks the length only, so rot of the same length is served until
  the next recovery. A failure after the rename leaves a file that refuses every write of
  the extent until a restart. `deleteRowFileIfExpected` swallows errors of the path. By the
  staleness of finding 2 a reader can also quarantine and delete an extent whose repair is
  already published (`CondemnsAnother`, the exception in `SoundUntilStruck`).
- *M3.* A media response that times out, is reset or is cut short raises what neither
  `_bounded_http_probe()` (`m3_probe.py:296-304` catches HTTPError and URLError) nor
  `m3_batch.main()` catches: the batch ends in a traceback. `main()` does not catch
  `M3ContractError` either; `saw_retry_after` is
  overwritten, not accumulated; the summary is the last thing removed while clearing, so a
  kill there leaves a COMPLETE summary over removed probes; it also remains when the scan
  for raw ids fails, and a refused start leaves the old one.
- *C2.* A bundle is protected twice (the directory must be empty or absent, and digests).
  Errors of the instrumentation other than D4's ceiling are accepted as extractor failures
  (OTHER_EXCEPTION). D6's `selectedInputCandidateState` can say NO_CANDIDATES while
  manifests are present, which is why D7 exists. `_check_d7` looks at neither drm nor
  completed. From D3 on a rejected honest observation leaves a directory that refuses the
  rerun.
- *G2.* Replays `<<2,0,1,1>>` with one late row are accepted with wrong counts, because the
  agreement of the trials is checked on sums. A late row of owner 1 after the N6 barrier
  keeps the totals but not "every origin row before the barrier belongs to owner #1". The
  reset environment's runId is compared with nothing. The N3 pulse may fire before
  AWAIT_ARMED polls, and the script then refuses. A readback that differs leaves the fault
  on, `pulse()` included (its `start_common()` is outside its `try`), and so may the `tc`
  command of a pulse that `cleanup()` kills; the teardown of the link is what removes it.
  `cleanup()` turns errexit off for good (52), so after it a failing `assert-clean` (393)
  is passed over and `cleanup.txt` says ok, which `m2_g2_aggregate.py:592-594` takes for
  the proof of the cleanup. N3 asks only that the final counter is at least the baseline, and
  positive.

## 6. Proofs

Everything here holds for every value of the constants under the named ASSUMEs; the
modules whose names end in `Proofs` hold the theorems, `PROJECT.json` lists them. An
argument is always the same in outline: an inductive invariant, that the initial states
have it, one lemma per action that keeps it, and the properties as its consequences. TLC
has checked each inductive invariant on the instance of its component's run.

**FetchBroker**, for any calls, keys, consumers and requests, from `RequestAssumption`
and `NoneAssumption`:

- `TypeCorrect`: `SafeSpec => []TypeOK`, one step per action.
- `SingleOwner` (`OwnersNeverOverlap`). The invariant is not inductive:
  nothing in it ties the registry to unfinished owners. `RegistryInv` adds
  `RegistryShape` (the registry holds exactly the unfinished fetches, each under its
  key), `FetchShape` (state, job and stage of a fetch move together), `CallShape` (a
  call that has not created its fetch finds it unborn, and only the creator starts
  it) and `OrphanShape` (what `shutdown()` completes itself has no job and never
  gets one).
- `ShutdownQuiet` (`QuietAfterShutdown`), from `RegistryInv` and `DrainInv`: once the
  broker is closed every job that may still reach its body without being TERMINAL is in
  the set `shutdown()` joins.
- `ExclusivePlaces`, `PriorityCovers`, `NobodyIsAbandoned`, `WorkIsWanted`. None of the
  four is inductive; they rest on each other in `DemandInv`: each place of a RUNNING fetch
  belongs to one caller and there is at least one (`PlacesAreTaken`), so that the handle
  that finds itself last *is* the last; a fetch that stops RUNNING has its reason recorded
  before its job is cancelled (`CancelHasReason`) and somebody to cancel it
  (`CancelIsComing`), and it is never boarded again (`LeftByAll`).
- `BrokerImplementsSingleFlight`: `SafeSpec => ImplementsSingleFlight`, the whole
  refinement. The mapping takes a fetch to planned, open, draining or landed, the calls
  aboard to its riders, and its outcome once it is done. One lemma per kind of step says
  which abstract action it is; all others change nothing `SingleFlight` speaks of. The
  steps rest on `RefinementInv` (`RegistryInv`, `DemandInv`, and that an outcome is
  known by the time it is delivered).

**RecoveryCoordinator**, every safety invariant its passing run checks, for any calls,
keys, specs, consumers and budgets, from `RequestAssumption`, `LimitAssumption` and
`NoneAssumption`. The invariants say little by themselves (an owner that is not at work
now may be at work next), so they rest on `ChainInv`, which ties the state of a chain to
the position of its driver: born chains have a driver on its way, only a driver between
its broker call and `awaitTerminal()` has an owner, TERMINAL is where the driver has
ended, every request has been charged, and the registry holds exactly the live chains.

- `NewOwnerAlways` (`AlwaysNewOwner`) and `WithinBudget` (`RequestsWithinBudget`)
  follow from `ChainInv`: two drivers of one key would be two live chains of one key.
- `NoneDenied` (`NobodyDenied`) adds `DemandInv`: whoever is aboard of a live chain is
  one of its consumers, under an id no one else aboard has. That is why the departure
  of one never takes away the demand of another.
- `RetryAfterHeld` (`RetryAfterRespected`) adds `WaitInv`: a live chain is told to stop
  waiting only when nobody wants it or all must end.
- `PriorityArrives` (`PriorityReachesOwner`) adds `RaiseInv`: from the moment its
  handle is stored, a leased owner has the priority of the chain, or a caller that joined
  under the lock is on its way to raise it (`raising`), with that very priority.
- `ShutdownQuiet` (`QuietAfterShutdown`) adds `DrainInv`: once `shutdown()` has
  collected the chains it knows every live one, because none begins when closing.
- `TypeCorrect` is `SafeSpec => []TypeOK`.

What the broker promises is taken from its model: these theorems are about the
coordinator over the broker's contract, not about the two composed.

**DeliveryBinding**, for any finite set of calls (`CallsAssumption`: the counter of
waiters is a number), from that and `NoneAssumption`:

- `TypeCorrect`, and `RefreshedOnce` (`RevisionsRefreshedOnce`), from `FlightInv`: the
  slot holds exactly the operation that has not finished, an operation under way works on
  the current revision, and its job, completion and outcome move together.
- `NoOrphans` (`NoOrphanRefresh`) and `LeaversTakeNothing` (`WaitersKeepTheirRefresh`, an
  action property) add `WaitersCounted`: the counter of an operation is the cardinality of
  the set of callers who wait for its result. So the caller that counts down to zero is
  the last, which neither property says by itself.

**ExtentStore**, for any writes, reads, extents and contents and any number of damages
and crashes, from `SpecAssumption`, `ReadAssumption`, `ContentAssumption` and
`BoundAssumption`. The argument of `IInv`: a writer is alone with its extent from its
reservation on (`OneWriter`), so that what `assertPublishable()` saw in the row still
holds when the file is renamed and when the row is written (`PublishableStays`). A file at
the final path therefore has the digest of its row, if there is one, and the digest its
writer verified until there is (`FilesMatchRows`, `InstalledMatches`); a row is written
after its directory was synced, so a crash finds what is published
(`PublishedIsDurable`). Readers know the digest of the row, which never changes, and
condemn what they have seen to be wrong (`ReadersKnow`). Recovery runs alone
(`QuietUnlessOpen`) and keeps what it has validated (`RecoveryKnows`). From it:
`TypeCorrect`, `FilesOwned`, `HandlesHoldTheirVersion` (harm to a file of the row's length
is damage from outside, `HarmIsDamage`), and the two action properties
`CommittedSurvives` (`SoundUntilStruck`) and `RecoveryIsSound` (`RecoveredIsSound`).

**Recovery evidence**, from the coordinator's assumptions. `EvidenceSpec` adds to each
action of the coordinator the events written in it, so every invariant above holds of it
too. `OnlyKnownRaces` (`RejectsOnlyKnownRaces`) and `EvidenceIsTrue`
(`EvidenceTellsTheTruth`) rest on `ToldInv`: for each chain, either the oracle has
rejected its evidence for one of the three known races, or the record that the oracle has
built is a function of the chain's own state. The function is the argument: an owner is
open for the oracle exactly while the driver has one, a permit and a backoff are awaited
where the driver waits for them, the oracle's ledger is the chain's minus what the
admission has charged and not yet written (`log`), its consumers and priority are the
chain's. One lemma per kind of event says what the oracle makes of it, one per action that
the function is kept.

`TablesTellTheSame` (`TablesAgree`) needs of the coordinator only that what it decides
about is an outcome (`VerdictInv`: nothing overwrites it between the owner's end and the
decision). The rest is about the tables, and holds for more than the run enumerates:
`TablesAgreeEverywhere` for a response of any status and any budget left, one lemma for
each derivation; `WindowsAgree` for every base, cap and ordinal, by induction on the
ordinal: a window that has stopped doubling at half the cap is at the cap from there on,
and so is the power of two. `EveryVerdictObserved` keeps it from being vacuous: for each
verdict there is an observation that has it.

**M3**, every property its run checks, for any registries, any primary lanes, any answers
and any number of reruns, from `ProbeAssumption`, `MatrixAssumption` and
`BatchAssumption`:

- `EachCellOnce` (`OneProbePerCell`): the two loops execute disjoint parts of one plan
  without repetition. The plan is injective (`PlanIsInjective`: a cell determines its
  place, by division by the number of lanes), the qualification loop has executed the
  first cells of the plan's lanes, and the matrix loop skips what is executed.
- `SummaryIsBacked` (`CompleteSummaryIsBacked`): while an invocation runs, the files are
  those of what it remembers (`DirectoryFollows`); clearing removes in a fixed order with
  the summary last (`SummaryGoesLast`), which is why the property has to except a
  directory being cleared.
- `MatrixIsWritten` (`AggregatorAgrees`): the loop has covered the plan when it
  aggregates, so none of the aggregator's refusals applies (`NothingRefused`).
- `SeenIsTold` (`ArtifactsTellWhatWasSeen`), for every answer: what is said of an answer
  follows from the rounds of its probe (`Round`, `ProbesAreGood`), not from a table. An
  answer with a lost response has no artifact.

**C2**, for any scripts, cells, clients, drifts, invocations and request bounds, from
`InstancesAssumption`, `DriftsAssumption` and `BoundsAreNatural`. The invariant `Inv` has
two halves. `ExtractionInv` is about one observation: the requests seen are those sent and
below the ceiling, only YoutubeIE's own call lies at the bottom of the stack of phases,
D7's copies of the provider's responses are the responses until the observation breaks
its own contract, and once the extractor has said that there are no formats only its
exception is left. The other half is about the run:
what the place in a script's sequence of steps means has been checked (`VettedInv`), the
requests of the documents kept are those sent by this invocation less those of the
observation in progress (`SpentInv`), the files on disk are the documents kept
(`WrittenInv`), and a whole manifest seals the work of one invocation (`SealedInv`).

- `RequestsVettedAndCounted` (`RequestsAreAccountedFor`), `BundlesAreOfOneRun`
  (`BundleAgreesWithRun`).
- `GateIsRightAboutTheEnd` (`GateTellsHowItEnded`): a probe that holds what the gate wants
  was not stopped by its own ceilings, and its copies are of what the extractor parsed
  (`ParsedInv`). Each ledger is taken by itself: the three are of three runs.
- `DocumentsAreRejectedAsKnown` (`RejectsOnlyKnownCases`) is about every conjunct of the
  eight validators. Its invariant `DocInv` relates what the probes hold to what happened,
  at every step of an extraction: where `observe_cell()` is to the stage and the exception
  it will report (`StageInv`), the calls in progress to the selection of formats
  (`NestInv`, `SelectInv`), the phases still entered in D4's trace to those calls
  (`TraceInv`), D5's counts to the selections that returned (`FormatsInv`), D6's and D7's
  copies to each other and to the responses (`ShapesInv`). At the ceiling of the trace the
  two part: an exit that was not traced leaves its phase entered for good, which is why no
  validator from D4 on accepts the document (`CeilingObserved`). `DocumentsHold` then
  takes the validators one by one: each adds to the one it nests exactly the refusals
  that `Rejected` lists for it.
- The total of the requests needs no induction over the documents: the invariant says that
  every function that adds them up in order ends in the total (`SumsTo`), a document more
  extends every such function by one place (`AppendSum`), and the recursive function of
  the model is one of them (`TotalIsSum`). What a trace leaves entered is treated the same
  way (`UnwindsTo`, `EventUnwinds`, `UnwoundIs`).

**G2**, every property its run checks, for any instances, late rows, failed steps and
order of rows, from `InstancesAssumption` and `FirstBackendAssumption`:

- `FaultIsContained` (`FaultStaysInItsTrial`). The script alone does not contain the fault:
  the pulse and the controller are processes that may be on their way when it goes on. The
  invariant says which profile can have which of them (`ByProfile`), at which steps of the
  script they live (`ByPlace`), which is why nothing is armed outside a trial
  (`NoFaultHere`), and what each step of `cleanup()` leaves (`Contained`): the interpreter
  dies first, its command may arm the link yet, and only the teardown ends both; a
  verified job has neither to leave.
- `MisreportsAreRefused` (`MisreportsAreCaught`): for each thing a document may say that
  is not so, the check that contradicts it, and that this check sees what it needs
  (`DocumentRefused`, `OthersContradict`, `SurroundingsRefused`). The verdict is given
  once, so the invariant has to say that an accepted job's script, controller and owners
  are done (`Turn`, `Idle`, `AcceptedBefore`).
- `FaultsAreReal` (`AcceptedFaultIsReal`) and `ReportIsTrue`
  (`AcceptedRunReportsItsRequests`) rest on `Whole`. The verifiers see partitions of a
  trace by line counts; what a partition has to do with a trial is the invariant: each
  request of an owner is a row or will be one, and nothing else is (`Counted`,
  `NothingLost`); whoever has not ended when its trial is counted is in `late` (`Late`);
  a count is that of all requests made so far, but for the late ones, and what comes after
  it is of a later trial or late (`Books`). On top of it: a drop of N3's link, or what the
  reset controller of N6 saw of the trace, is of the trial's own first owner, or of
  a late request (`Dropped`, `Reset`).
- When the trials are alike the counts are right even with late requests (`AlikeCounts`):
  four equal partitions, whose rows and at most three outstanding requests make four
  times the same number, leave none outstanding.
- What the folds over a trial's owners and rows return (`SumOf`, `Among`, `Present`) is
  proved from the functions they are defined by: a sum and a choice exist for every prefix
  (`SumExists`, `ChoiceExists`), and are unique (`Sums`, `AmongIs`).

**Only model-checked:** all liveness (`AcquireReturns`, `ShutdownEndsEverything` of both, `AcquireSettles`,
`EveryoneIsAnswered`), which is out of the prover's reach.

## 7. Not modelled

- *Coverage index, read session, bridge runtime.* A projection of the store's rows that
  may be stale, and a reader that resolves, opens, repairs and closes over it. A model of
  them would stand over the contracts of the store and of the coordinator, as
  `RecoveryCoordinator` stands over the broker's; it is the next one to write. Their
  hazards are listed without a property.
- *Route reducer, session policy, gate, HTTP executors, engine pool.* Their difficulty is
  the order in which Android, Cronet and HttpEngine call back, for which the source states
  no contract to model them against.
- *Retry-After and backoff arithmetic, byte accumulator.* Pure functions, left to their
  unit tests.
- *HTTP, TLS, Media3, user interface, SQL and file system internals:* libraries. Their
  contracts are the environment of the modules above.
- *Of the measurement programs:* JSON schemas, the wording of documents, subprocess
  plumbing, the aggregate and decision of G2 (`validate_summary`), its route-event oracle,
  the constancy of the lab's configuration hash, the pulse's duration; the Media Lab's
  server, the fixture builder and the remaining oracles, which are pure functions of files.

The `components` of `PROJECT.json` give the reason for each part.
