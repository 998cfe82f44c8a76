# TLA+ verification of determa-state

determa-state runs hierarchical state machines as durable aggregates. A bundle of
machine definitions is loaded and validated; a root runtime is created from one of
them and owns a tree of further runtimes (parallel components and spawned
instances); each runtime has mailboxes; one call processes one queued delivery to
completion. Around that core are a checkpoint with receipts, a host with stores,
an effect journal and an authority ledger. This directory holds the TLA+ model of
the system, its TLC configurations and its TLAPS proofs.

    tlc -workers 2 -config MailboxesDeferral.cfg MCMailboxes      # any of the configurations
    tlapm Mailboxes_proofs.tla                                    # any of the *_proofs modules

Each configuration belongs to the `MC...` module of its component; section 4 lists them.
Line numbers refer to `src/determa/state/`.

## 1. Inventory

| Component | State it keeps | Operations | Interacts with | Makes it correct |
|---|---|---|---|---|
| engine (`engine.py`) | per runtime: active states, scopes, history, status, fault; ownership relations; allocation counters | `_create`, `_dispatch`: guards, actions, entry and exit, allocation of components, `spawn`, `cancel`, completion, faults | called by the mailboxes with one delivery; returns a new state and emissions | the ownership tree stays a tree of live runtimes; each lifecycle event is reported once to the owner; a fault undoes the step and freezes what the runtime owns |
| mailboxes (`queueing.py`) | ready and deferred mailbox of every runtime, acceptance and queue counters | `create_`, `admit_`, `step_`, `migrate_`, `restore_aggregate_v1` | calls the engine; its document is the checkpoint's payload | nothing accepted is lost, repeated, reordered or left to a runtime that ended; what is written can be restored (a step that removes a sender is the exception, section 4) |
| checkpoint (`checkpoint_v1.py`) | revision, operation receipts, tombstones of pruned events, outbox intents, retention mode | create, admit, step, process_delivery, prune, all under compare-and-swap | wraps the mailboxes; stored by the host | one terminal receipt per acceptance, retries answered from evidence, one winner per revision |
| host (`host.py`) | one checkpoint record per root in a store | load, check, change and commit in a transaction; process ready work; outbox, retention, tombstones, maintenance migration; shared transactions | stores, checkpoint | concurrent hosts and crashes lose and repeat nothing |
| effect journal (`effects.py`) | per effect: state, fence, reports, outcome, claim, cancellation; result responses; in a scope, the ledger | `seed`, `produce`, `claim`, `dispatch`, `record_result`, `submit_result`, `recover`, `cancel`, `terminalize_outbox` | checkpoint (steps, admission of result events), authority, providers | one outcome per effect, told to the machine once; late workers refused; recovery finishes what a crash left |
| authority (`authority.py`) | state, generation, receipts, journal of work, claims, history, inventory of a freeze | `allocate`, `register_effect_work`, `perform` (guarded commit, freeze, fence worker), `check_worker_claim`, guarded store transactions, doubts | effects, SQLite store | operations form one log; a superseded worker passes no check; a freeze is complete |
| stores (`stores/`) | one checkpoint per root; locks; recorded policy; application rows | `setup_schema`, transaction: load, insert, replace, commit; `shared_transaction` | host | a transaction commits whole or not at all, one at a time per root |
| legacy store (`persistence.py`) | checkpoint, inbox, rows and one quarantine marker per root | `process_v1`, `release_quarantine_v1` | checkpoint, a broker | acknowledged exactly what was processed; quarantine holds until its release |
| migration (`migration.py`) | none; plans routes of descriptors | plan, apply | checkpoint, host | atomic and compatible with queued work |
| extensions, runtime providers | registries and their lifecycle | register, freeze, invoke | engine, host | invoked only while registered and compatible |
| public host (`public_host.py`) | checkpoints and the first response to each mutation of one scope | `handle`: create, admit, process, read, inspect, receipt | checkpoint, transport | checkpoint and response commit together; an equal request gets the first response |
| public client (`public_client.py`) | journal of requests with endpoint and answer | `discover`, `submit`, `retry`, `receipt` | transport | an operation id is one request to one scope; what is reported committed is |
| wire, definition, validator, cel, inspection, cli | none | conversions and pure functions | all | not protocol state |

The hard behaviours: interleaving of admission and stepping on the two counters;
run-to-completion steps that end several runtimes at once while messages to and
from them are queued; faults inside initialisation of contained runtimes; retries of
what was already committed; several hosts on one record; crashes around a commit;
leases that expire while a result is on its way; a transport that loses, delays and repeats.
`PROJECT.json` lists them as hazards,
each at its line, with the property that watches it or the reason why none does.

## 2. Plan

1. **Mailboxes over Ownership** (done): `Ownership`, `Mailboxes`, abstract
   `DeliveryLedger`, proofs.
2. **Checkpoint and host** (done, but for migration audits): `Checkpoint`, `ExecutionHost`,
   abstract `InboxLedger`, proofs.
3. **Effect journal** (done): `EffectHost` over `Checkpoint`, with the scope ledger; abstract
   `EffectLedger`; liveness of recovery.
4. **Authority** and guarded store (done): `Authority`, abstract `ScopeLog`.
5. **Stores** (done): `Stores` with shared transactions and backup validation, abstract
   `CheckpointRegister`; `PersistenceHost`.
6. **Public host and client** (done): `PublicHost`, `PublicClient` over an unreliable transport.
7. **Engine algorithms** (open): transition boundary, exit and entry order, history against
   reference definitions; initialisation faults of machines with history.
8. **Migration** of a queue-bearing aggregate in the runtime tree, and the extensions registry (open).

Every safety and step property and every refinement the passing runs check is proved; what parts 7 and 8
add will want theorems of its own.

## 3. Modules

`Ownership.tla` is the engine as its callers see it. A runtime identity is a hash of
owner, declaration and a sequence number that is never reused (`engine.py:74-119`), so
the pool `Runtimes`, with `Owner`, `Role` and `Activation` as functions of the identity,
stands for every identity there could be; numbers follow allocation order. `status`
gives the lifecycle (absent, running, faulted, completed, removed) and `mode` the
active leaf state; a mode in `ParallelModes` owns one activation of components. The
operators say what a step may create (`CanCreate`, `AllocatesFor`, `InitResults`), remove
(`Removed`, `Cancellable`), report (`CompletionReports`, `FailureReport`, `InitReports`) and
address (`Addressable`), and which runtime may be stepped (`Eligible`).

`Mailboxes.tla` is `queueing.py`. `box` maps acceptance sequences, which are given out
once each, to entries. A pending entry is in the ready or deferred mailbox of its
target; any other `place` is the disposition the host was told. Actions:

| Action | Code |
|---|---|
| `Create`, `CreateEnded` | `create_aggregate_v1` with `_create`: root running, completed or faulted |
| `Admit(batch)` | `admit_aggregate_v1`, with `_validate_new_deliveries` as `Admissible` |
| `StepUnhandled`, `StepDeferred`, `StepOverflow`, `StepFaulted`, `StepHandled`, `StepCompleted` | `step_aggregate_v1` by the disposition of the dispatch |

`Commit` is what all stepping branches share (`queueing.py:957-1026`): the head gets its disposition, mailboxes
of runtimes that ended are disposed of, emissions are enqueued or disposed of, then the stepped runtime's
deferred entries are recalled, in that order. Every action requires `Restorable`, because every operation starts
with `restore_aggregate_v1`, which raises otherwise; creation restores its result too (`queueing.py:127`), so
`Create` requires `Restorable'`, but a step does not. Calls that are rejected or find nothing to run return the
document they were given and are stuttering steps.

`DeliveryLedger.tla` is the promise to the host: an accepted delivery is queued until it
is processed or disposed of, once; a step processes one. `Mailboxes` implements it with
the mapping `ledger <- [a |-> Fate(box[a].place)]`.

`MCMailboxes.tla` gives the instances. `Mailboxes_proofs.tla` holds the proofs.

`Checkpoint.tla` is `checkpoint_v1.py`: the document as a record, its validation and the operations as functions
from a checkpoint to the candidates it may give. `Valid` is `restore_execution_checkpoint_v1`: `SourcesPresent`,
what `restore_aggregate_v1` asks of the senders of queued events, and `SemanticsValid`, a conjunct for each
block of `_validate_checkpoint_semantics`. Of the aggregate the record keeps what the document relates: the
status of each runtime (`removed` once it is no longer in the document) and the pending entries with their two
sequences. `Source` gives the sender of an internal body. `receipts` maps receipt sequences to receipts; a
receipt's `refs` are the internal emissions it produced, `effects` the external ones. `Dispatched` is the common
form of a creation and of a step: own receipt, receipts of what the step disposed of, references, emissions,
recall. `Creations` leave each contained runtime running, completed, faulted or removed, and are those whose
result restores; `Steps` may remove runtimes and are not restored by the step itself.

`ExecutionHost.tla` is `host.py` over one stored record `cp`:

| Action | Code |
|---|---|
| `Create` | `create_v1` |
| `Admit(batch)` | `admit_v1`; what is known already is left out, a conflict rejects all |
| `ProcessReady(r)` | `process_ready_v1`: deferred, unhandled, handled or faulted |
| `ProcessDelivery(d)` | `process_delivery_v1` |
| `MaintenanceMigration` | `maintenance_migration_v1`: entries disposed of and recalled |
| `TombstoneRoot(op)` | `tombstone_root_v1` |
| `UpdatePendingOutbox`, `TerminalizeOutbox`, `CompactOutbox` | the operations of these names |
| `Prune(cutoff)`, `UpdateReplayRetention(cutoff)` | `prune_v1`, `update_replay_retention` |

`Stage` is `_stage_insert` and `_stage_replace`: a candidate is committed only if it
restores and keeps what the store claims to keep. Why one step per operation: all
stores serialise the transactions of a root (a re-entrant lock, an advisory file lock,
`BEGIN IMMEDIATE`, `SELECT ... FOR UPDATE`) and the operation does everything between
load and replace. A caller that read the record earlier names the revision it read;
if another commit came between, it is refused, which changes nothing. So the steps of
concurrent callers are the interleavings of these actions, a retry is the same action
tried again later, and a crash between commit and answer is a retry.

`InboxLedger.tla` is the promise to callers: an event id goes from new to queued to done,
never back, and stands for one body from its acceptance on. `MCExecutionHost.tla` gives
the instances, `ExecutionHost_proofs.tla` holds the proofs.

`EffectHost.tla` is `effects.py`. It extends `Checkpoint`, whose steps emit the effects and whose
admission takes the result events. `doc` is the stored document: checkpoint `cp`, journal `fx`,
claims, evidence, kept responses. `ledger` is the scope's ledger in the same database when the host
has one (`Scoped`). Each transaction is a step; what takes several takes several steps:

| Action | Code |
|---|---|
| `Init` | `seed`: a root created with deliveries queued |
| `Produce` | `produce`: a step of the machine and the records of what it emits |
| `ClaimEffect(w, e)` | `claim` with `_issue_effect_claim`; again after an unknown outcome, on evidence |
| `Dispatch(w, e)` | `dispatch`: checks the claim, calls the provider |
| `RecordReport`, `RecordResult`, `RepeatResult`, `AdmitResult`, `RefuseAdmission` | `submit_result`: `_submit` in one transaction, `_admit` in the next |
| `Cancel` | `cancel`: prevented start or a request |
| `StartRecovery`, `RecoverNext`, `RecoveryRaises` | `recover`: a snapshot, then one transaction per effect |
| `TerminalizeOutbox`, `FenceWorker`, `Lapse`, `Doubt`, `Crash` | acknowledgement of a delivery, the authority's own operation on the same ledger, a lease that runs out, a transaction of unknown fate, an end of the process |

`JournalValid` and `PairValid` are the validations every transaction makes before and after its change.
`EffectLedger.tla` is the promise: an effect is emitted once, decided at most once, and the machine
is told that decision once. The mapping reads the journal record and the machine's receipts.

`Authority.tla` is `authority.py` with its own journal of work and the guarded store. Requests are
messages that may be performed late, twice, or never; `Accepted` lets the answer be lost.
`StoreTransaction` is a commit of `AuthoritySQLiteExecutionStore`, `PlainTransaction` the one of a
store that opens the same file without the guard. `fencing` is the capability a deployment is
configured with. `ScopeLog.tla` is the promise: one log, each operation in it once and right behind
what its caller had read, nothing after a freeze, answers that name the place in the log.

`Stores.tla` is `stores/` under the host's transaction and `run_shared_transaction`. A session goes through
`Call`, `Open`, `Load`, `Stage` (or `FindReceipt`), `Return` and `Commit`; the file store commits in
`WriteTemporary`, `Rename`, `SyncDirectory`. `config`, chosen at the start, says which store it is and what uses
it; `adapter` chooses the locks: one for the store, one per file, one per row that exists. `Fail`, `Refuse`,
`RaiseAtFinish` and `Crash` end a session early. `config.verified` says whether the policy check of
`capabilities` always succeeds: where it fails, `_policy_is_valid` swallows the reason and the store claims no
permanent receipts. `Collect`, `CallBackup` and `CheckMember` are `validate_backup_restore_v1`.
`CheckpointRegister.tla` is the promise that justifies the one-step operations of `ExecutionHost`: each root is
one compare-and-swap register, and one set up as permanent, and verified to be, forgets no operation.

`PersistenceHost.tla` is `persistence.py`: one document with a checkpoint, an inbox and a quarantine
marker, and a broker that delivers at least once. The other hosts of the store change the checkpoint too:
`Prune` and `UpdateReplayRetention` take receipts away through a cutoff, with tombstones or without, which
this store permits because it does not claim to keep them (`persistence.py:30-37`); `OtherOperation` is what
takes none away.

`PublicHost.tla` is `public_host.py`: `Handle` is `handle`, one transaction, with `Refusal` for what is refused
and `Outcomes` for what may come of the rest. `PublicClient.tla` is `public_client.py`: `Submit` looks up and
discovers, `SaveRequest` writes the row, `Send`, `TakeAnswer` and `GiveKept` are `retry`, `Receipt` asks the
host. A request on `wire` stays there and may arrive again at any time (`Arrive`), an answer may reach nobody.
`plan`, chosen at the start, says which callers share a journal, what they want and which endpoints and hosts
there are. `Restart` and `Redeploy` bind names and endpoints anew. The two are composed by EXTENDS: `Arrive`
takes one of the results of `Handle`.

Definitions named after a mistake (`SameRank`, `EndedIfRemoved`, `HasRoomOffByOne`, ...)
are used by no action: each replaces the definition below it to show that the property
it is meant for notices.

## 4. Runs

| Run | Instance and bounds | Checks |
|---|---|---|
| `deferral` (129,897 states) | one root, capacity 2, three modes (always defers, asks a guard, never defers), 2 host ids, 4 acceptances, 8 queue sequences, batches of 2, 1 emission per step | `TypeOK`, `MailboxesValid`, `DeferralJustified`, `DeferralBounded`, `NoOvertaking`, `RecallKeepsOrder` |
| `lifecycle` (206,586) | root with activations of two and of one component, capacity 0 for one of them, internal host deliveries only, 4 acceptances, 4 queue sequences, no author emissions | `OwnershipWellFormed`, `DoneExactlyWhenAllCompleted`, `ContainedFaultsReported` |
| `sends` (49,491) | root, a component, a runtime the component spawns; 3 acceptances, 4 queue sequences, 1 emission per step to whoever can be named | `NoOrphan`, `DispositionJustified`, `FaultFreezesSubtree`, `ImplementsLedger` |
| `restore` (violation) | as `sends` | `QueuedWorkSurvivesRestoration` |
| `host_mail` (83,107) | root and one contained runtime that may end, 1 event id, host deliveries to each, internal emissions both ways, reports of faults, 7 commits, 3 acceptances, no effects, permanent retention claimed | `TypeOK`, `CandidatesRestorable`, `EvidenceKept` |
| `host_retention` (142,375) | one runtime, 2 event ids (symmetric), 1 effect, two outcomes, 7 commits, batches of 2, no retention claimed, bounded retention without a cutoff | `TombstonedOwesNothing`, `EffectsSettleOnce`, `ImplementsInbox` |
| `effects` (249,618) | 1 effect with two outcomes, 2 workers, 2 operation ids (both symmetric), 2 fences, 4 commits, 1 crash, a destination that deduplicates, an authority scope | `AcceptedStorable`, `CalledAgainOnEvidence`, `PreventedIsNeverCalled`, `CommittedAnswersStand`, `PairAgrees`, `OnlyTheCurrentClaimHolds`, `ImplementsEffectLedger`, `DecidedByCurrentAttempt` |
| `effect_recovery` (96,728) | 2 effects of two deliveries queued in one order, 1 worker, 1 fence, 3 commits, 1 crash, `WF_vars(Recover)` | `EffectsAreSettled` |
| `authority` (30,712) | 3 operation ids, an owner and 2 workers, 2 works, 2 bindings, 1 root with two definitions, generations up to 4, with and without fencing | `FrozenIsComplete`, `OneClaimPerWork`, `ImplementsScopeLog` |
| `stores` (1,831,897) | eleven configurations: each of the four stores with 2 sessions, 1 root, 2 creations, a change, prunings and 1 crash; each database with sessions of two policies and an operation answered with evidence, with the policy check and without; three stores with a backup of 2 roots; revisions up to 2 | `BackupIsSnapshot`, `ImplementsRegister`, `RowsWithTheirCheckpoint` |
| `persistence` (243,543) | 2 event ids with two bodies (symmetric), 4 revisions, any cutoff, 5 inbox records | `AcknowledgedIsProcessed`, `ProcessedWhenDue` |
| `public` (195,147) | four plans: 2 callers of one client, 2 endpoints, 2 hosts and 2 redeployments; 2 clients with a common operation id; one caller with creations, two admissions and a step at any revision; one caller with two events and two steps; revisions up to 3 | `OneRequestPerOperation`, `CommittedIsSaved`, `CreatedOnce`, `RefusedForRevisionIsFinal` |

Why the bounds are enough. In `deferral`, four acceptances with a capacity of two allow an overflow and
a recall of two entries past one that is ready, and eight queue sequences let an entry be
deferred, recalled and deferred again. Two activations are needed for the second entry of a
parallel state while reports of the first are queued; components of one activation are
interchangeable only up to allocation order, so no symmetry is used. The three-level tree of
`sends` is the smallest in which a runtime is removed because the owner of its owner leaves a
state. The event alphabet is one input event, one internal event and the four system events;
the modes give every answer a state machine can give to them.

Seven commits let the host create, admit twice, defer, recall with a step, dispose of the
rest with the tombstone and prune; `CandidatesRestorable` looks one commit further, at every
candidate of every stored record; the contained runtime of `host_mail` ends in creations and in
steps while messages from it and to it wait. The machine of `effects` has no contained runtime, so
that no step of it meets the exception `AcceptedStorable` makes; `EffectMail.cfg`, kept beside the runs, checks that
property alone for a root and a contained runtime that answers it and may end (27,348 states: every state tries
every candidate). A single effect passes through all of its records, and no operation relates two
effects but the terminal sequence they share.

Two fences are needed for an attempt to be superseded, four commits for a step after the result of the effect
was admitted: only then can the journal start an effect over that was settled. Two workers make a late report
one of somebody else, and two operation ids a second cancellation. In `authority`, four generations hold a
registration, a claim, a commit and a freeze or, in the store, two checkpoints of a root, the second with
another definition, before the freeze. In `stores`, two sessions are enough for every race on a root, because a
third would wait or be refused as the second is; the configurations are separate because the size of their
product adds nothing: policies are of databases only, and a backup does not care who wrote. In `persistence`,
four revisions let both events be processed and forgotten, and presented again after that; five inbox records
let each be given up before and after. Three revisions let the public root be created, take an event and be
stepped or faulted while a request for each of the revisions before is on the wire.

Deadlock is not checked: a completed or faulted root takes no more steps, the bounds end
behaviours, and the finding below wedges an aggregate.

Fairness. `effect_recovery` assumes `WF_vars(Recover)`: README.md:450-452 leaves it to the operator of the
host to call `recover` after a crash, and a worker that keeps a lease for ever is given up by
nothing else. Nothing else is fair: no worker has to claim, call, report or go on with a submission it
began, which is what the loss of its process comes to. The other runs check safety only: whether to
step, admit, retry or open a transaction is the caller's choice everywhere else.

### What `restore` shows

`_valid_envelope_source` accepts a queued internal event only while the runtime that sent it
is in the document (`queueing.py:208-213`). A creation that would leave such an event without its
sender is refused, because `create_aggregate_v1` restores its own result (`queueing.py:127`). A step is
not restored: in the counterexample the first step after creation enters the parallel state, whose
component spawns a runtime that sends to it and completes, so that the message is queued and its sender
gone. A component whose parallel state is left leads to the same. `step_aggregate_v1` returns that
document (`queueing.py:1026`), and every later operation on it raises `invalid_aggregate_state`, against
`README.md:175`: "queued work survives serialization and restoration".

The hosts restore what they are about to commit (`host.py:614`, `effects.py:1136`) and refuse such a step.
They keep the state before it, with the same head, so that this entry can never be processed.
`CandidatesRestorable` and `AcceptedStorable` therefore ask of a step `StepRestorable`: the candidate passes
every check but, when the step itself removed the sender of something that waits (`OutlivesSender`), this one.

### Known disagreements

Met while modelling, each the property of a configuration that is kept beside the others and that TLC
finds violated; the model follows the code.

| Configuration | Property | The code |
|---|---|---|
| `HostProcessDelivery.cfg` | `ProcessesItsDelivery` | `process_delivery_checkpoint_v1` admits a delivery behind what waits and steps its target once (`checkpoint_v1.py:1102`): with an entry waiting, that entry is processed and the delivery only queued. The host's call then looks for a terminal receipt that does not exist and raises `StopIteration`. The docstring at `checkpoint_v1.py:1069` says "Migrate, admit, and process one delivery under one checkpoint revision". |
| `HostPrune.cfg` | `PrunedIsRestorable` | `prune_checkpoint_v1` checks that no removed receipt refers to a pending effect, not that it refers to a settled one, whose record stays; the validation requires exactly the effects receipts refer to, so the checkpoint it returns does not restore and `prune_v1` refuses it (`checkpoint_v1.py:1223`). |
| `HostEvidence.cfg` | `ReplayHasEvidence` | `update_replay_retention` may cut between an acceptance receipt and its terminal receipt. A retry of that event is recognised by the terminal receipt, but `admit_v1` then looks for the acceptance receipt or a tombstone and raises `StopIteration` (`host.py:1425`). |
| `HostOutcomes.cfg` | `OutcomesKept` | A store that claims permanent outbox retention refuses candidates with a compacted outcome, but `update_replay_retention` removes settled effects altogether once no receipt kept refers to them, and such a candidate passes (`host.py:1490-1505`). |
| `EffectBlocked.cfg` | `EachIsRecovered` | An outcome recorded before its machine ended can no longer be admitted. Each call of `recover` raises there (`effects.py:1786`), and the effects behind it in the journal are never recovered, where `effects.py:1783` says "A crash between records leaves the remaining records available to recover". |
| `EffectAnswers.cfg` | `FirstAnswerStands` | `recover` notes an ambiguous report and keeps no response for it (`effects.py:1793-1815`): a worker that reports the same is answered from the revisions of the moment (`effects.py:1657-1672`), where `README.md:452` says "Duplicate results retain exact first responses". |
| `PersistenceRetry.cfg` | `RetryIsAnswered` | The store of `persistence.py` does not claim permanent receipts (`persistence.py:30-37`), so `prune_v1` and `update_replay_retention` of an execution host over the same store may remove the terminal receipt of an event that is committed in the inbox. The retry of that event looks for the receipt with `next` and raises `StopIteration` (`persistence.py:315-320`): the broker never gets its acknowledgement. |
| `StoresStaged.cfg` | `StagedIsCommitted` | `_finish` reads the member `result` of the staged operation's response (`host.py:1545`), which those of `admit_v1`, `process_ready_v1` and `terminalize_outbox` do not have: `KeyError` after the callback returned, and the operation and the application's writes are rolled back (`README.md:274-278` offers the surface for "exactly one host operation"). |
| `PublicRefused.cfg` | `SavedIsAcceptable` | The host answers a step of a faulted root with an event waiting as committed, `rejected`, without a receipt, and saves that; the client demands a receipt of every step but a `not_runnable` one (`public_client.py:191-196`) and raises at each retry of it, where `README.md:50-52` says "equal retries return that response". |

## 5. Proofs

Each theorem holds for every value of the constants that satisfies the assumptions of its modules; TLC
evaluates those in every run. They are what a valid bundle, or the code, gives: the
tree of owners, the alphabets of a checkpoint, bounds that are natural numbers; in `EffectHost`, that a
verdict of a provider is none of the other kinds of report; in `Stores`, that `prune` is no
operation that leaves a receipt. No proof assumes a number of workers, sessions, callers or roots.

The method is the same everywhere. The operators are described once, by lemmas that say what
an operation leaves of the document it was given and what it changes; the actions are reduced to the few
kinds of change there are; the invariant is shown to be kept by each kind. In the tables,
`Invariant` is the theorem `Spec => []IInv`.

| Module | Theorems | Of the property |
|---|---|---|
| `Mailboxes_proofs` | `TypeCorrect`, `MailboxesAlwaysValid`, `NoOrphanAlways`, `DeferralAlwaysJustified`, `DeferralAlwaysBounded`, `FirstTurnsInOrder`, `RecallAlwaysKeepsOrder`, `MailboxesImplementLedger`, `OwnershipAlwaysWellFormed`, `FaultAlwaysFreezes`, `DispositionAlwaysJustified`, `ContainedFaultsAlwaysReported`, `DoneIsExactlyAllCompleted` | `TypeOK`, `MailboxesValid`, `NoOrphan`, `DeferralJustified`, `DeferralBounded`, `NoOvertaking`, `RecallKeepsOrder`, `ImplementsLedger`, `OwnershipWellFormed`, `FaultFreezesSubtree`, `DispositionJustified`, `ContainedFaultsReported`, `DoneExactlyWhenAllCompleted` |
| `ExecutionHost_proofs` | `StoredInvariant`, `RecordedInvariant`, `TypeCorrect`, `TombstoneSettled`, `SettledOnce`, `EvidenceAlwaysKept`, `HostImplementsInbox`, `TracedInvariant`, `CandidatesAlwaysRestorable` | `TypeOK`, `TombstonedOwesNothing`, `EffectsSettleOnce`, `EvidenceKept`, `ImplementsInbox`, `CandidatesRestorable` |
| `EffectHost_proofs` | `Invariant`, `PairAlwaysAgrees`, `PreventedNeverCalled`, `SecondCallOnEvidence`, `OnlyCurrentClaimsHold`, `AlwaysDecidedByCurrentAttempt`, `AcceptsAdmittedResults`, `CommittedAnswersAlwaysStand`, `HostImplementsEffectLedger`, `CheckpointAlwaysSound`, `AcceptedAlwaysStorable` | `PairAgrees`, `PreventedIsNeverCalled`, `CalledAgainOnEvidence`, `OnlyTheCurrentClaimHolds`, `DecidedByCurrentAttempt`, `CommittedAnswersStand`, `ImplementsEffectLedger`, `AcceptedStorable` |
| `Authority_proofs` | `Invariant`, `FreezeAlwaysComplete`, `AlwaysOneClaim`, `LedgerImplementsScopeLog` | `FrozenIsComplete`, `OneClaimPerWork`, `ImplementsScopeLog` |
| `Stores_proofs` | `Invariant`, `BackupAlwaysSnapshot`, `RowsAlwaysCommitted`, `StoresImplementRegister` | `BackupIsSnapshot`, `RowsWithTheirCheckpoint`, `ImplementsRegister` |
| `PersistenceHost_proofs` | `Invariant`, `AcknowledgedAlwaysProcessed`, `AlwaysProcessedWhenDue` | `AcknowledgedIsProcessed`, `ProcessedWhenDue` |
| `PublicClient_proofs` | `Invariant`, `CommittedAlwaysSaved`, `OneRequestAlways`, `RefusalAlwaysFinal`, `AlwaysCreatedOnce` | `CommittedIsSaved`, `OneRequestPerOperation`, `RefusedForRevisionIsFinal`, `CreatedOnce` |

`Checkpoint_proofs` has the lemmas on the operations of a checkpoint that `ExecutionHost_proofs` and
`EffectHost_proofs` share.

**Mailboxes.** Every action is an admission, a deferral or a `CommitStep` (`NextCases`). `MailboxesValid`
alone is not inductive: an emission's id must not be pending already, which holds because ids are derived
from a step sequence that `IdsBelow` bounds. Distinct queue sequences rest on `RanksDistinct`: recalled
entries get distinct ranks. `DeferralJustified` needs `NoOrphan`: a new runtime finds no deferred entries
of an earlier one. `NoOvertaking` becomes inductive with `OrderSound`: the entries that wait
for their first turn are in queue order what they are in acceptance order, and what is deferred
has had its turn; that the head is the entry of least queue sequence then does the rest. `RecallKeepsOrder`
needs that ranks grow with the queue sequence. For the ledger, `RootFirst` says that nothing is in a box before
there is an aggregate: creation is the only action that processes no delivery.

The properties of lifecycles stand on the tree of owners. `Ancestors` is a recursive function, and a CHOOSE
until a function that satisfies its equation is exhibited: `Above`, what belongs to every set closed
upwards that has the owner, is one, because owners are smaller numbers. A counterexample of least
number then does what induction would (`LeastNumber`, `AncestorsFacts`). `TransitionTree` and
`CompletionTree` show that what is removed goes with all it owns (`CleansUp`) and that what is created hangs
below the step. In such a tree the root completes alone (`RootEndsAlone`), so that an entry below a fault is disposed
of only with its runtime.

The two properties of notifications count the reports a step sends, for any number of runtimes initialised
at once. `FlattenFacts` locates each element of a flattened sequence in one place of one part, by
exhibiting the fold's function again; `InOrderFacts`, that the increasing enumeration of a finite
set exists, repeats nothing and leaves nothing out. With both, `InitReportsTell` says what an
initialisation reports, `CompletionTold` and `FaultTold` the same of the other steps, and `NextOutcome`
reduces every action to two kinds: a `Quiet` one moves no lifecycle, a commit has an `Outcome`. The
emissions of an outcome tell each new fault once (`FailuresTold`), that an activation is done in the step
that completes its last component (`DoneTold`), and are addressed to runtimes that are known
(`KnowsTargets`). The invariants add that a reported runtime never runs again (`FailuresSettled`,
`DoneSettled`), which excludes a second report, and that a completed spawned runtime is dropped
(`SpawnedGo`), without which `runtime_completed` would be given for one.

**ExecutionHost.** `Stored`: what is stored has passed the restoration checks, and a tombstone has neither
mailboxes nor pending effects. The property alone is not inductive: that a kept acceptance has
its terminal receipt is known only of a checkpoint that restores, and pruning after the tombstone could
remove one of the two. That an effect emitted again is not one already settled is again known from the
restoration of the candidate. `NextCommits` reduces the actions to three kinds of commit.

The theorems on the contents of a checkpoint start from `Recorded`: its entries, receipts and references have
their types, and every receipt has a sequence that was allocated. `NextDocuments` reduces the actions to what
they do to the receipts: create them, add to them (`Records`), prune through a cutoff (`PrunesTo`), or forget
what lies below the retention cutoff (`CutsTo`). A store that keeps receipts commits only the first two, which is
`EvidenceKept`. For the inbox ledger, `ValidAgrees` reads off the restoration checks that an id waits,
has one terminal receipt, or has a tombstone, and never two of these, so that there is one body to compare a
retry with; `Progresses` is then shown of each kind of change. An id may only start to wait when nothing is
known of it, and when it stops waiting its terminal receipt takes over the body.

`HostImplementsInbox` has two hypotheses. Callers' ids are not ids of emissions, which are digests with a
domain of their own (tuples in the model): otherwise a step could emit under a caller's id. And the host
keeps receipts, or is never given a retention cutoff: `update_replay_retention` with a cutoff forgets ids and may
leave the terminal receipt of an acceptance it removes (`host.py:1425`, listed as a hazard), after which the
ledger is not implemented. `prune` with its tombstones is covered.

**EffectHost.** `IInv` relates the document to what has been seen of it. `DocSound`: a record's last
attempt is open exactly while the effect is leased, a report of an outcome decides it, the claim on record
is that of the last attempt, a kept answer says committed exactly to the attempt that decided an
admitted effect, and the journal has every effect the checkpoint still delivers. `CallsSound`: a provider
is called under issued fences, never under one given back as not attempted, and a later fence has evidence.
`IssuedSound`: fences are issued once each. `InflightSound` and `ToldSound`: a submission between its two
transactions was recorded; a report of an outcome has been answered with the kept answer. `LedgerSound`:
`PairValid`, which the code checks in each transaction, and a history of known effects. None
of the properties is inductive without the first; `OnlyTheCurrentClaimHolds` needs the
history of fences, `CalledAgainOnEvidence` the calls.

Three theorems are stated under `ForeignInputs`: the id of a result event is a digest with a domain of its own
(`result_event_id`, `effects.py:1719`), so a caller's delivery does not have it. Otherwise the machine could
take the caller's delivery for the result; `ResultsSound` (`AcceptsAdmittedResults`) is the clause that then
joins the invariant. In the runs the inputs are model values, which are equal to no tuple.

**What is built can be stored.** `Stored` and `DocSound` rest on the check before each commit. That
the check passes (`CandidatesAlwaysRestorable`, `AcceptedAlwaysStorable`) is about the operations
themselves, each of which edits receipts, references, mailboxes and counters that must agree, and is proved
in `Checkpoint_proofs` for both hosts. It is not true of every legal call: a step that removes the sender of a
waiting message is refused (section 4), and the theorems say that nothing else is. `SourcesPresent` holds
of the stored checkpoint, and only a step removes a runtime; creations are filtered by it as in the code.

`SemanticsValid` counts: one producer here, no acceptance there, as many receipts as sequences. `Coherent` says
the same of one entry, receipt or reference at a time, and `ValidCoherent` and `CoherentValid` show that the two
agree. Neither is enough to build on. Restoring does not look at three things the operations rely on, which
`Traced` states: an effect has the sequence of its receipt, ids of emissions are of steps that were
taken, a reference to a mailbox has its entry there. Without the first the next step could emit an effect that is
on record, without the second an emission could have the id of an old one. `TracedInvariant` shows that all
operations keep `Traced`, trimming and pruning included.

Creations, dispatches, migrations and the tombstone are then one kind of change, `Closes`: a set of entries
leaves the mailboxes, each for a terminal receipt with a sequence of its own; others may move behind the rest;
emissions come with new ids and sequences, referred to by the first receipt; references follow their entries.
`ClosedCloses` shows that `Closed` is of this kind as soon as the sequences it is given are distinct and
consecutive (`Numbering`), which `RanksCount` gives for entries ended together and `RenumberedRange` for those
recalled together. `ClosesCoherent`, `ClosesTraced` and `ClosesSequences` are the argument itself, one lemma per
clause of `Coherent`. Admissions are `Admits` (new entries, one acceptance each). Edits of the outbox leave the
records alone (`SameRecords`), so that only its own sequences are left to check.

For the effect host, `CheckpointSound` adds `Traced` and `Valid` of the stored checkpoint to `IInv`, where the code
checks a checkpoint only when it changes. `JournalStays` shows that the journal keeps to a checkpoint that
retains its receipts and effects, `EditStorable` that an edit of one record leaves the others sound; one lemma
per operation ends in one or both.

The hypotheses are about ids the code derives as hashes, each kind under a domain of its own. Callers' ids are
no ids of emissions (`Events` has none of the pairs that stand for them in the model); result ids are ordinary
event ids (`ResultsAreEvents`: the host admits a result as it admits any other delivery, `effects.py:1719`). In
the runs callers' ids are model values or the tuples of result ids, of which `MCEffectHost` has those of effects
0 to 9, more than there can be in a run.

**Authority.** `ClaimsSound` says what the ledger knows of every claim ever made and that receipts and
answers carry only those; `HistorySound`, that no checkpoint in the history is ahead of its row. The
first makes `OneClaimPerWork` inductive, the second `FrozenIsComplete`: a freeze compares the newest entry of
the history with the row, and a plain connection moves the row without the history. For `ScopeLog`, each
operation is shown to append itself at the generation it read; everything else leaves the log alone.

**Stores.** A session *guards* its root once nobody else can change it: from the opening with a lock, from the
first row it sees or inserts with PostgreSQL. `SessionsSound` says that what a guarding session read is what is
stored and that what it stages follows what it read; `Exclusive`, that two sessions never guard one root;
`SchemaFirst`, that an unconfigured database is empty. Together they give the compare-and-swap of
`CheckpointRegister` for four ways of locking. That a permanent root forgets no operation holds where `verified`
does: without a policy check that succeeds the host lets a candidate forget. `BackupSound` orders the collected
member, what was stored at the call, and what is stored now: equal ends make the middle equal.

**PersistenceHost.** The lookup takes the first inbox record of an event. Receipts come and go, so the
invariant is about the application rows, which stay: `InboxSound` says that an event with a row is found as committed
with the body of the row, and that a receipt, while there is one, has a row with its body. A later quarantine of the
same event hides behind its first record. That record alone is what makes `ProcessedWhenDue` hold once the
checkpoint has forgotten the event.

**PublicClient.** `HostsSound`: every change has its saved response, one creation with revision 0.
`JournalSound`, `CallsSound`, `WireSound`: a request in a journal, a call or on the wire names a revision its
scope has reached, and what is on the wire has its row. `ToldSound`: each answer is *justified*, committed
by the saved response, a refusal for the revision because the scope has moved beyond it without that
request. The last is what makes `RefusedForRevisionIsFinal` hold of late copies.

### Only model-checked

* `EffectsAreSettled` is liveness under fairness, out of the prover's reach, as ENABLED is.

## 6. What is abstracted and what is left out

* The mode is the active leaf; guards and actions are nondeterministic; payloads, digests and
  correlation ids are not modelled. Event ids of internal events are the tuple the code hashes.
* Runtimes created and removed again within one step leave nothing and are not modelled.
* Author emissions of a step all precede or all follow the system's reports of that step.
* Host-forged system notifications and `env` events are not in the alphabet (`env` behaves as an
  input event).
* A batch is represented by its new deliveries: replays add nothing and a conflict rejects all.
* In `Checkpoint`, contained runtimes exist from creation, owned by the root, and no step creates another;
  a handler may end its runtime or, for the root, any; what a step may do precisely is the business of `Mailboxes`. A
  body stands for mode, envelope and digest. State digests, migration audit records, policy
  identifiers and projection results are left out. Entries ended or recalled together get their
  sequences in the order of the old ones, where the code goes runtime by runtime: nothing checked
  depends on that order.
* The migration route of `process_delivery_v1` is empty; a maintenance migration is what it does to
  the mailboxes, for any rules. `delete_outbox_record` and `delete_retained_record` commit nothing: every
  effect kept is one a receipt refers to, and the second always raises.
* Host deliveries in internal mode, which admission accepts and the schema of the stored document
  refuses, are left out of `CandidatesRestorable`; `Admit` tries them and `Stage` refuses them.
* `restore_aggregate_v1` also checks the state of the engine: active states, history, scopes, ownership
  (`engine.py`). That the engine leaves a state that passes is not modelled, as its states are not; of the mailboxes
  `Restorable` and `SourcesPresent` keep what their own records can violate.
* In `EffectHost`, workers report what happened to the attempt they were given (`Honest`). The code cannot
  check that: it is what the host trusts its workers with, and `CalledAgainOnEvidence`
  rests on it.
* In `EffectHost`, one journal of one root; journal revisions, digests, operation tokens, leases as
  clock values (`Lapse`) and the trust in providers are left out, and a destination deduplicates or does
  not. A second cancellation of a prevented effect, by another operation, is refused by the code with
  `invalid_effect_journal`; `AcceptedStorable` leaves it out.
* In `Authority`, the epoch never changes; profiles and provider bits are left out. Work of the authority's
  own journal can be claimed only once (`tests/test_committed_effects.py:465-490`), a scope with such
  work can never be frozen, and a doubt whose operation was committed cannot be resolved by
  `_resolve_rolled_back_fate`: the model follows.
* In `Stores`, locks, renaming and row versions are those of the operating system, SQLite and PostgreSQL.
  A file that was renamed stays although the call raises afterwards. A shared transaction that finds
  the receipt of its operation commits the application's rows again. URIs, the registry and health reports
  are left out.
* In `PersistenceHost`, a released event may be processed with another body, and a second quarantine overwrites
  the marker of the first, whose retries then raise `StopIteration`: the model follows.
* In `PublicHost`, digests are the revision of the one root; `read` and `inspect` appear as the revisions a
  caller may have read; principals and batches are left out. A refusal the client has kept is final for
  that operation id, also one that depended on the moment (`tests/test_public_client.py:109-112`).
* Not modelled: `migration.py` beyond its effect on mailboxes (pure planning of descriptor routes and value
  transformation), extensions and runtime providers (registries of opaque functions), wire formats, definition
  loading and validation, CEL, inspection and the command line (pure conversions without protocol
  state), and the history and entry and exit order of the engine. `PROJECT.json` gives the reason for each.
