# Formal verification of the LUKART ROS coordination core

LUKART ROS is a Python system for auditable case work: documents become a
knowledge graph, a case has a canonical ledger, filings are external actions
under human authority, and the "Night Shift" subsystem lets automated workers
execute bounded tasks. Most of its 1200 files are pure validators over immutable,
digest-bound records. The part that can go wrong in ways a test hardly reaches is
the part that keeps mutable state several processes or threads share: coordination
of external actions, task leases, workflow journals, budgets, ledgers, runtimes and
the private evidence store. That part is what this project models, checks with TLC and proves with
TLAPS.

## 1. Inventory

All paths are under `src/`. Status: M modelled, P partly, - not modelled.

| Component | State it keeps | Operations | Hard behaviour | Must hold | |
|---|---|---|---|---|---|
| Durable external action (`core/durable_external_action_v1.py`) | one append-only stream per logical action in SQLite | reserve, begin_dispatch, mark_*, confirm_*, recover_receipt, execute | every operation is load, decide, append with expected head, load; workers race and die between any two; provider answers get lost | at most one effect, provider called only behind a durable fence, stream never becomes illegal, all callers see one receipt | M |
| Reference external action (`core/external_action_execution_v1.py`) | dict under one RLock | the same operations, atomic | none: it is the specification | is implemented by the durable one | M |
| Lease store (`core/night_shift/leases.py`) | lease row, token counter, versioned task state | acquire, require_current, heartbeat, initialize_state, compare_and_swap_state, get_state | late and wrong clocks, takeover in the middle of a heartbeat, zombie workers | tokens fence every write, no lost update, exclusion under honest clocks | M |
| Workflow engine and phases (`core/night_shift/engine.py`, `state_machine.py`) | none of its own; reads the journal | start, transition, state | check then append in separate transactions, retries | one start, legal history, final phases are final | M |
| Event journal (`core/night_shift/journal.py`) | events, inbox, outbox | append_event, events, replay_state, record_inbox, enqueue_outbox, mark_outbox_sent | duplicate delivery, crash between send and mark | exact duplicates only, acknowledged means durable | P |
| Provenance store (`core/enterprise/durability.py`) | global hash chain of all streams | append_batch with expected heads, verify, backup_to, restore_verified | batches over several streams, backup during appends | compare-and-append is atomic, restore is all or nothing | P |
| Case ledger (`core/case_ledger/`) | one canonical chain per case | append_event, publish_revision, restore_case | three steps per call, second snapshot after the append, restore into a racing stream | the history only grows, nothing acknowledged is lost, an error says what was written | M |
| Case lifecycle (`core/case_product_hardening_v1.py`) | `Case` object and ledger events | record_receipt_and_file_case, record_response_delta, close_case_governed, reopen_case_governed | two appends per filing, `Case` objects in several processes, positions supplied by callers | a filing follows its receipt, decisions hold for the history they stand in | P |
| Authority budget (`core/night_shift/authority.py`) | reservations and their count | reserve_task, require_reserved | idempotent retry, concurrent tasks | never more tasks than the envelope allows | M |
| Canary (`core/night_shift/canary.py`, `worktrees.py`) | budget, lease, task state, worktree and branch | one long sequence over all of them | crash, git failure and retry between its steps, leases that expire under a run | a task is executed once, a run works on what it created | M |
| Operation runtime (`core/operations/`) | idempotency records under a condition | execute | waiting with a deadline, handlers that raise, hang or end their thread | one handler run per key, exact replay, no lost wake-up, waiters end | M |
| Agent runtime (`core/p3/runtime.py`) | health and failures of providers, one semaphore per capability, audit | run, set_health | providers that hang or escape, lists older than the wait for a permit, every exit path | permits conserved, breaker bound, audit tells the end, calls end | M |
| Private evidence (`core/private_evidence_*.py`) | a directory of immutable encrypted files per case, recovery capsules on other devices | import_bytes, reencrypt_evidence, derivations, create_recovery_capsule, create_redundant_recovery_set, rotate_recovery_set_secrets | no lock: three steps per file, several files per call, three scans per capsule, failures that remove files, processes that die, devices that are lost | what was returned stays stored, a source has one content, every capsule restores, issued sets lose no member but to lost devices | P |
| API guard (`core/enterprise/api_guard.py`) | nonces, rate buckets, idempotency slots | process | none in the repository: no guard is shared by threads | nonce used once, quota respected | - |

How they interact: the durable coordinator and the case ledger are clients of the
provenance store (method calls, compare-and-append); the workflow engine is the
client of the event journal; the canary calls budget, lease store and worktree
manager in order. Nothing is a network message: components meet in SQLite files
and directories opened by several processes, in locks and conditions shared by threads, and in
callbacks (`provider_call`, operation handlers, providers).

The remaining components (replay revalidation, escrow, crypto
agility, intake protocol, supply chain, knowledge pipeline, agents, factory, the
Night Shift binding and evidence chains) are listed in `PROJECT.json` with the
reason each is left out: they transform or validate immutable records, or are
dominated by cryptography and file-system behaviour.

## 2. Modules

| Module | Models | How |
|---|---|---|
| `ActionStream` | what `_load` folds a stream to | closed definitions: `Foldable` (the streams `_load` accepts) and `Fold` (the `CoordinatedAction` it returns) |
| `ActionStreamFold` | `_load` as written, record by record | a small machine whose step `Turn` is one turn of the loop; proved to compute `Fold` |
| `ExternalAction` | `SafeExternalActionCoordinator` | one action per operation; a refused call is a stutter |
| `DurableExternalAction` | `DurableExternalActionCoordinator` | one action per load and per append |
| `LeaseStore` | `LeaseStore` | one action per transaction or connection |
| `WorkflowJournal` | `LocalJournalWorkflowEngine` over `DurableEventJournal` | one action per transaction |
| `OperationResult` | what an operation answers: `finalize_outcome`, `validate_result_sections` | operators over outcomes and results |
| `OperationRuntime` | `OperationRuntime.execute` with `IdempotencyLedger` | one action per critical section, per wait and wake-up, per end of a handler |
| `AgentRuntime` | `HardenedAgentRuntime.run` and `set_health` | one action per critical section of the runtime's lock and per provider end |
| `CaseLog` | what the case ledger promises | an append-only log and the histories callers were told |
| `CaseLedger` | `CanonicalCaseLedger` over `SQLiteProvenanceStore`, and the case lifecycle recorded through it | one action per read of the store and per transaction |
| `Canary` | `run_controlled_canary` over `AuthorityBudgetStore`, `LeaseStore`, `WorktreeManager` | one action per transaction and git command |
| `PrivateEvidence` | `PrivateEvidenceStore`, rotation, derivation, recovery capsules and sets | one action per call begun, per step of a file (create, write, sync), per scan of the directory and per rename |
| `MC*` | | values of constants for TLC |
| `*_proofs` | | theorems |

`DurableExternalAction`. A worker's `pc` walks through its call: `load` (the first
`_load`), `records` and `owned` (further reads whose head is discarded, as in the
code), `append` (with `head`, remembered from the first load), `recheck` after a
lost race, `verify` (the load after a commit), and `invoke` inside `execute`.
`AppendCommits` is `append_batch`'s transaction: it compares the head and appends.
Heads are lengths, because a record digest covers sequence and predecessor.
`Crash` ends a call after any step and stands for process death, an uncaught
SQLite error and a caller that lost interest. `Disciplined` is a constant: TRUE
restricts callers to fresh attempt ids and final provider evidence, FALSE lets
them reuse attempts and confirm the absence of an effect prematurely. Each worker
owns its connection. Two reads whose results are used together with nothing
between them that matters are one step; they are named in the comments.

`LeaseStore`. `now` is real time; a call carries any epoch between `now - MaxDelay`
and `now + ahead[w]`, since the store reads no clock. A worker remembers the lease
it was handed (`held`) and the state it read (`seen`). One task stands for all.
A refused call makes the worker forget its lease.

`WorkflowJournal`. `exclusive` is chosen initially: TRUE means that calls do not
overlap (callers work under a lease), FALSE that engines race. `journal` holds the
events of one workflow; event ids of other workflows are not modelled.

`OperationRuntime`. A thread is `asleep` in `Condition.wait` and `awake` when it was
notified or timed out and has still to take the lock back and look at its record
again. `Complete` stores and wakes in one step, because both happen under the
lock. The handler (`HandlerReturns`, `HandlerFails`, `HandlerAborts`) may also never
take a step. `runs` counts handler runs and is history. Request digests are the
requests; the formats of envelope fields are left out, their policy (declared
effects, required evidence, exact commit evidence, timeouts) is in
`OperationResult`.

`AgentRuntime`. Each read of a provider's health is a step (`Filter`, then `Rank`, as
the sort reads them again), so the list a call works from may be stale before it
waits for its permit. Time is not counted. `cancelled` and `expired` are looked at
in few places, so each is set only where `run` may next look at it: a deadline that
passes while a provider works, or a cancellation that arrives during the wait for
the permit, is taken at the top of the loop. `ProviderTimesOut` needs no time
either, since a provider's own timeout may be as short as a policy likes. `Escape`
is a `BaseException` from a provider or an artifact that cannot be digested;
`Release` is the `finally`, a step of its own between two calls' acquisitions. The
audit list is split into the records of each call; `End` forgets those of a call
that is over, which the runtime keeps.

`CaseLedger`. An event id is a digest over the event and the id before it, so an
event is represented by the history it ends; the head of a stream of backend
records is the stream. `call` is the ledger call a process is in: `snapshot`
(canonical head compared), `write` (backend head compared, one batch), `verify`
(second snapshot). `view` is what the process last read, `case` its `Case` object,
`decided` the position and epoch of its assessment or decision. Whether callers
rebuild their `Case` from the events they read is the constant `Synced`, since no
code in the repository does it or forbids it. Receipt and filing are two calls
of which the second expects the head the first returned (`todo`).

`Canary`. Tokens identify runs: `tree`, `branch` and `state` hold the token of the
run that made them, 0 for none. It contains what the canary uses of the budget and
lease stores; the lease store by itself, with clocks and heartbeats, is
`LeaseStore`. `Break` is the death of the process, or a git command whose failure
nothing cleans up after, at any step. `mutated`, `receipts` and `left` are history.

`PrivateEvidence`. `made` numbers the attempts to write evidence; an attempt's files
(`<<"object", n>>`, manifest, receipt) have digests of their own because nonce and
timestamp are in them, while the index of a source has one path for all attempts.
`files` is the directory, `whole` those of its files that are completely written.
`job[p]` is what a process is in the middle of: `open`, `fill`, `sync` for the next
file of its list, or `verify`, `snapshot`, `copy` (the three scans of a capsule),
`publish`, `confirm`. A scan is an interval, not a step: it surely lists what is
there from its beginning to its end (`Lower`) and possibly what comes or goes
meanwhile (`Upper`), and meeting an incomplete file ends the build. The scan that
copies is fixed when it ends, with the listing of the snapshot it must equal.
Which key a file needs stands for its encryption; keys are two, the store's own and
the one rotations go to. A set is two capsules staged by one process and renamed one
after the other. `before` (what had been returned when a build began), `syncFailed`
and `losses` are history.

## 3. Runs

| Run | Checks | Bounds and why they are enough |
|---|---|---|
| `dea_exactly_once` | `AtMostOneEffect`, `RetryIsSafe` | 2 workers, 3 attempts (a retry and one more), all operations, one reconciler, 2 possible effects; no legal history of three attempts exceeds the transition limit of 9 |
| `dea_implements` | `TypeOK`, `StreamFoldable`, `FencedInvocation`, `ReceiptsAgree`, `ImplementsReference` | 2 workers, 2 reusable attempts, 2 conflicting intents, undisciplined callers, limit 4 and 2 tries, so both limits are hit |
| `lease_store` | `TypeOK`, `TokensDistinct`, `OneLiveLease`, `NoLostUpdate`, `OnlyNewestGrantWrites` | 2 workers that share one lease id (the canary derives it from the task), TTL 1 and 2, calls late by 1, clocks ahead by 1, 3 tokens and 3 versions: a takeover of a takeover, and a renewal around each |
| `workflow_journal` | `TypeOK`, `EventsOnce`, `AckedIsDurable`, `HistoryLegal` | 2 engines, 2 event ids, 2 epochs, the phases around `LEASED` (normal step, way out and back, terminal), 3 events |
| `operation_runtime` | `TypeOK`, `OneRunPerKey`, `RepliesAgree`, `NoLostWakeup`, `WaitersReturn` | 3 threads, so that a handler runs while one caller waits and another arrives; two requests of one key (one forbids the commit the handler makes, one misses evidence) and one of another key that succeeds; both privacy scopes and heads; one tick is every timeout, so a call races its own deadline |
| `agent_runtime` | `TypeOK`, `PermitsConserved`, `BreakerBound`, `AuditTells`, `RunsEnd` | 2 threads, a strict capability (threshold 1, no fallback) and a lenient one (threshold 2, a fallback) sharing a provider, one permit each, an operator who takes providers out |
| `case_ledger` | `TypeOK`, `Decodable`, `FiledRightAfterReceipt`, `DecisionsSound`, `ErrorsTell`, `ImplementsCaseLog` | 2 processes, histories of up to 3 events with the limit at 3 (receipt, filing and one more; closing, reopening and closing), a bundle of a filed case, symmetric processes |
| `canary` | `TypeOK`, `BudgetHeld`, `OneExecution`, `TreesOwned` | 2 runs at a time and any number after each other, 3 tasks for a budget of 2, leases of one tick, time 0 to 3 with the envelope expiring at 3: a lease is taken over twice, budget and envelope run out; symmetric processes and tasks |
| `private_evidence` | `TypeOK`, `ReturnedIsStored`, `CapsulesRestore`, `SetsRedundant` | 3 processes, 3 calls that write or build (two imports racing under a capsule, a rotation and a derivation of what was imported, a set and its rotation), one source with two contents, 3 devices, targets that overlap in one device and a single capsule, one lost device; any number of crashes and failures; symmetric processes and contents |
| `dea_shared_reference` | violates `FencedInvocation` | one reference for all attempts |
| `dea_stale_reconciliation` | violates `AtMostOneEffect` | two reconcilers |
| `workflow_terminal` | violates `TerminalIsFinal` | as `workflow_journal` |

`MaxEffects`, `MaxNow`, `MaxToken`, `MaxVersion`, `MaxEvents`, `MaxRecords`, `MaxCalls`
and `MaxLosses` are bounds of the model. `MaxTransitions` and `ReserveTries` are constants of the code
(1000 and 4). Deadlock is not checked where the bounds or the offered operations
let the system come to an end. Symmetry is used for safety properties only.

What a run leaves to others. In `dea_exactly_once` the one reconciler acts on its
evidence before it looks again, so evidence that has become stale is met in
`dea_stale_reconciliation` only. In `lease_store` a worker has one call under way,
so its heartbeats are renewals one after the other; a heartbeat races takeovers, not
a second heartbeat of the same lease. In `operation_runtime` the single tick lets a call
race its own deadline but not time out and call again; `OneRunPerKey`, `RepliesAgree` and
`NoLostWakeup` are proved for any number of ticks. In `case_ledger` a read of a
healthy store does not raise; were the second read of an append to do so, its event
would be in the history all the same, as after the errors that are modelled. The one
`Output` of `private_evidence` cannot show two derivations that diverge; the theorem
`StoredForGood` is about any set of outputs.

Fairness is assumed in two runs, for their liveness property only.
`operation_runtime`: weak fairness of what the runtime does for each thread, and of
the clock (`WaitersReturn`); handlers owe nothing, they may hang or die.
`agent_runtime`: weak fairness of each call's own steps and of its deadline
(`RunsEnd`); providers owe nothing, and no fairness of the semaphore is assumed, so
a call may lose every race for a permit and ends by its deadline. Both are what
an operating system gives runnable threads and timed waits. `Condition.wait` and
`Semaphore.acquire` are given timeouts by the code; the mutants `WaitForever` and
`AcquireWaits` take them away. No liveness is stated of the other components: they
are passive stores whose code never expires a reservation and never schedules a
retry, so progress is up to their callers.

Deadlock is checked in `agent_runtime`, `case_ledger` and `canary`, which can go on
for ever, and in `dea_exactly_once`, `dea_implements`, `workflow_journal` as far as their bounds allow.

Every property of a passing run has a mutant: a definition changed the way a
plausible bug would (`LastIsAnyDispatch`, `HeadIgnored`, `SwapBlindly`, ...), under
which TLC finds the property violated.

## 4. What the runs found

1. **A lost dispatch race can be taken for success** (`dea_shared_reference`,
   `core/durable_external_action_v1.py:463-480`). The owner comes from one re-read
   and the last record from another, and only the dispatch reference is compared.
   When two attempts use the same reference, a worker invokes the provider with
   no DISPATCHED record of its attempt. With a reference per attempt the fence
   holds (`dea_implements`).
2. **No-effect evidence is not bound to an attempt** (`dea_stale_reconciliation`,
   line 548). Evidence about attempt 1, presented by a second reconciler after
   attempt 2 was dispatched, declares attempt 2 without effect. A single
   reconciler that acts on its evidence before looking again keeps the effect
   unique (`dea_exactly_once`).
3. **A terminal phase can be left** (`workflow_terminal`,
   `core/night_shift/engine.py:105-114`). `transition` checks and appends in
   separate transactions without comparing a head. Calls that do not overlap, as
   under a lease, keep the history legal (`HistoryLegal`).

While `private_evidence` was built TLC also showed that `_exclusive_json` removes a file
whose fsync failed although another process may have read it complete in between
(`core/private_evidence_v1.py:184`): the index it found, or the derivation receipt
it returned, is gone. The objects, manifests and receipts a caller was given are
private to the attempt and stay. The properties say so: the part of
`ReturnedIsStored` about indexes and derivations holds while no fsync has failed
(`syncFailed`). Two states the model reaches are not repaired by any code and break
no safety property: a partial source index left by a process that died (every import
of that source raises from then on, where
`docs/PRIVATE_CASE_EVIDENCE_INTAKE_V1.md` calls re-import idempotent), and an object
without a manifest (every later capsule of the store is refused).

## 5. Proofs

All theorems hold for every value of the constants that satisfies the named
assumptions of the modules; bounds are any naturals. Only the sets whose members
are counted are assumed finite: the tasks of `Canary`, the threads and providers of
`AgentRuntime`.

`DurableExternalAction_proofs` begins with `ActionStream`: what appending a record does to
`Owner`, `Foldable`, `Reservations` and `Fold`, by arguments about the last reservation;
no recursion is involved because `Fold` is a closed definition. That `Fold` is what the loop of
`_load` computes is `LoadComputesFold`: the loop is the machine of `ActionStreamFold`
that reads any record at each turn, so that the induction over the stream is the
induction over its steps. What it has computed is `Fold` of what it has read, or the
error if that is not `Foldable`, for streams of any length.

For the coordinator the inductive invariant (`IInv`) adds to `TypeOK` and
`StreamFoldable` what every worker knows at its step: while it still has the head
it loaded (head = length of the stream), the facts it decided on hold of the stream
now, because a stream only grows. This makes the compare-and-append sound:
`AppendCommits` fires only when the decision is still valid, so the record is legal
(`FoldableAppend`) and the step is the reference operation (`AppendRefines`). All
other steps leave the stream alone and are stutters. `Refinement` follows, and
`OneReceipt` from the fact that no record may follow a confirmed one.

Two more invariants say what calls of the provider rest on. `FInv`: every DISPATCHED
record, and every call that may append one, carries a reference of its own attempt,
and whoever is at the provider finds the dispatch of its attempt in the stream. A worker
that lost the race and sees the winner's record compares the reference only; that this
tells the attempts apart is the hypothesis `OwnReferences` of `FencedCalls`, and
`dea_shared_reference` shows what happens without it. `DInv` follows the effect: an
`execute` that may still call the provider has an attempt without effect, one that is
sure to has the outcome unknown and owns it, there is one such call per attempt, a
reconciler that found no effect and has not yet recorded it is right about the stream and
the provider, and the only effect is the current owner's. It is needed because
`AtMostOneEffect` alone does not see the calls that are on their way. `OneEffect` and
`SafeRetries` are proved for `CarefulCallers`: attempt ids are fresh and evidence is final
(`Disciplined`), attempts have references of their own, and one worker reconciles; with two,
`dea_stale_reconciliation` violates it.

`LeaseStore_proofs`. The invariant ties the token's three homes together: the row
has the newest token (`RowOK`), holders have older or that one and never the same
(`TokensDistinct`), what was read is the row or an older version (`SeenIsPast`), and
without fast clocks an idle holder knows the row's expiry or its lease is over
(`ExpiryOK`). `ExpiryOK` is needed because a heartbeat may shorten a lease: a
takeover tests the row, exclusion speaks of what holders believe.

`WorkflowJournal_proofs`. The invariant says what a call between check and append
may rely on: its phase was legal from a phase visited before, and, if calls are
exclusive, from the current one (`HistoryLegal`). `EventsOnce` rests on the uniqueness
of ids that `append_event` checks in its transaction, and on the start being the
first event of a workflow.

`OperationRuntime_proofs`. The thread that runs a handler is the one the pending
record of its key names, and a key without a record has no run yet: from these
`OneRunPerKey` and `RepliesAgree` follow. A thread asleep on a key finds it pending,
because completion stores the result and wakes everybody under one lock
(`NoLostWakeup`).

`Canary_proofs`. Tokens of runs are drawn from a counter, so those of live runs are
issued and distinct; a run past a step has in the worktree, branch and task state
what that step left there, unless the lease has been taken over since, which shows
in the token. Hence a run that writes a receipt works on its own tree
(`TreesOwned`), and a second run of a task is stopped by the task state
(`OneExecution`). The budget (`Budget`): its count grows only where it was below
`max_tasks` and with a new reservation, so it stays within `max_tasks` and is the number of
reservations (by the library's facts on the cardinality of finite sets); a run past
its reservation holds its task's ordinal, so only reserved tasks, at most
`max_tasks`, are ever written for.

`CaseLedger_proofs`. Whatever a process knows - the head it expects, the stream it
read, the position it decided on - is a prefix of the history now. Both comparisons
an append makes are comparisons with the end of the history, so an append that
commits was decided on the whole history, and maps to the append of `CaseLog`
(`Refinement`); a call that fails after its commit reports the history that
contains its event (`Errors`). `Filings` follows because a filing is appended by a
call whose expected head ends in the receipt. `Decisions` is proved for callers
that rebuild their `Case` from the events they read (`Synced`) and bundles with
sound histories; without that, a stale `Case` object may be closed twice.

`AgentRuntime_proofs`. Every step of a call is shown to be of one form: it replaces
the call's record by a good one (`Moved`), takes or gives back a permit just when
the call begins or ceases to hold one (`PermitStep`), and counts a failure only for
a provider the call had listed and will not try again (`HealthStep`). From the
first two follow `TypeCorrect` and `Permits`, by counting holders. `Breaker` counts
the calls that still have a provider ahead of them: from the failure that reaches
the largest threshold on the provider is UNHEALTHY, nobody lists it any more, and
every further failure uses up one of these calls, so
`failures + calls ahead < MaxThreshold + |Thread|`. `AuditTrail` has an invariant of its
own (`AInv`): the records of a call are failures of different certified providers, and
as long as the call is open no provider it has still to try, or is trying, is among them, so
that no later record can repeat one; a terminal record is written only by the step that
settles how the call ends.

`PrivateEvidence_proofs`. Two invariants. `SInv` is about the directory and those who
write in it. Types and `PathsUnique` alone do not say why a file somebody was given is still
there, since a failing writer removes files. The strengthening is the notion of a
settled attempt: its object, manifest and receipt are whole, and no job has one of them to
write, so that none can remove it. An attempt's number belongs to one job at a time and its
evidence is written before anything that refers to it (`EvidenceFirst`), hence indexes,
derivations and results only name settled attempts, and stay true through steps of other
processes (`ProcessMoves`). `StoredForGood` follows. `RInv` is about builders, capsules
and sets. What a build must contain (`before`) is in the directory when a scan begins
and when it ends, so every listing the scan may return holds it (`ListingIs`); a staged
capsule was verified, and a member is one (`CapsulesAreComplete`). A build number is
carried by one job or one set only, and members with that number are its copies
(`Numbers`). For `SetsStayRedundant` the invariant counts `Absent`, the pairs of a number
and a place where a build or a set put a member that is no longer there. A failing build
cleans its places by path and may so remove the member of another build, put there after its
own was lost: then its own pair leaves `Absent`, because its number is given up, and the
other's enters. The proof maps the new absences into the old ones injectively, and the
missing members of sets into `Absent`; the devices lost bound both.

Every safety property a passing run checks is stated by a theorem. Only model-checked is
liveness, `WaitersReturn` and `RunsEnd`: fairness and ENABLED are out of the prover's reach.
The hypotheses of theorems (`OwnReferences`, `CarefulCallers`, `Synced` and sound
bundles) hold in the runs that check the same property. The three violations are
counterexamples of small instances and need no proof. What is proved is about the
models; that they follow the code is argued by the line map in `PROJECT.json`, and each
inductive invariant was checked by TLC on the run of its module before it was proved.

## 6. Not modelled

Most of the repository is not a state machine. Some 500 files under `core/` and
`factory/` build, validate, canonicalise, sign, seal and compare immutable records:
a function takes a record, checks field after field and returns a new record or
raises. Between two calls nothing is kept, and what such a function computes is
decided by formats, digests and cryptography, which a model could only abstract to
the identity. Replay revalidation and drift, escrow and provider storage,
crypto agility, the intake protocol (`core/cirp`), supply-chain evidence,
gates, binding chains and reports are of this kind; their share of the lines is why
the mapped share stays small.

Parts that do keep state and are left out:

- Inbox and outbox of the event journal: the repository has no sender and no
  receiver besides tests and the failure-injection harness, so delivery and retry
  would be invented. The tables' operations are single transactions over one row
  each.
- Backup and restore of the provenance store: only a recovery-drill script
  (`scripts/hardcore_h7_recovery.py`) and tests call them. Stores shared by threads:
  the connection is opened with the default `check_same_thread`, so `sqlite3` refuses
  it in another thread. What appends rely on - compare and append in one
  transaction - is part of `DurableExternalAction` and `CaseLedger`.
- Of private evidence: `backup_to` and `restore_from`, which copy a bare store without
  verifying it and have no caller but tests; the sidecar records of
  recovery sets, the drill that restores into a scratch directory and removes it, and
  keyfiles. A crash is the death of a process: what a power loss leaves of files
  whose directory was never synced is up to the file system.
- API guard: no guard object is shared by threads in the repository, and all of
  `process` runs without waiting; alone it is a sequence of lookups.
- Night Shift dispatcher and scheduler: the dispatcher is a "Pure deterministic
  policy layer" by its own docstring, a decision over the snapshots it is handed,
  without state of its own; the leases, budgets and journals it would share are modelled.
- Promotion and recovery drills: one process, one directory, file-system behaviour.
- The knowledge pipeline, agents and user interface: batch transformations.

Within modelled components, wording, the format checks of inputs and metrics are
left out. `Case` lifecycle operations that only compute (assessments, deltas, scores)
appear as the events they append.

## 7. Plan

1. Proofs that answer questions the runs do not ask: which of the hypotheses of
   `OneEffect` and `Decisions` can be weakened, and lemmas the modules share.
2. `ProvenanceStore`: batches over several streams as a map of independent logs, with
   backup and restore, once something besides the tests calls them.
3. Inbox and outbox, once a sender exists: at-least-once delivery under weak fairness
   of the sender, exactly-once with an idempotent receiver.
4. Baseline selection of the replay-revalidation lineage as a pure algorithm.
