# A TLA+ model of Autosport's economic core

Autosport is a Python product that replays or observes sport markets, decides
paper (virtual) bets, and keeps the money those bets move in a workspace
directory. Everything it promises about that money, that no bet is lost,
counted twice or half applied, rests on files that several processes replace
one at a time and that must survive a process dying between any two writes.
This directory models that part of the program, checks it with TLC and proves
its safety properties with TLAPS. Paths below are relative to `src/autosport/` unless they
start with `docs/`.

## Contents

| file | what it is |
| --- | --- |
| `PaperBookJournal` | the witness journal of one PaperBook path: append, recover, verify (operators only) |
| `PaperBookWitness` | processes that load, edit and save one PaperBook path |
| `PaperBookWitnessProofs` | its inductive invariant and seven theorems |
| `EconomicCommit` | abstract specification: a run is published in one step or not at all |
| `RunTransaction` | run transactions, registry, recovery and the other writers of a workspace |
| `MCRunTransaction` | the symmetry set TLC uses for it |
| `RunTransactionProofs` | its inductive invariant, the refinement, thirteen theorems |
| `ModeRegister` | abstract specification: a STOP/ARM register with leases |
| `MonotonicAuthority` | the history kept outside the workspace (operators only) |
| `ExecutionStop` | the execution STOP authority: journal, anchor, authority, recovery, lease |
| `MCExecutionStop` | the symmetry sets TLC uses for it |
| `ExecutionStopProofs` | its inductive invariant, the refinement, eight theorems |
| `SupervisedExecution` | placing a real bet: the call, its ledger, the provider, recovery and read-backs |
| `MCSupervisedExecution` | the symmetry sets TLC uses for it |
| `SupervisedExecutionProofs` | its inductive invariant and five theorems |
| `SupervisedSettlementProofs` | what its ledger says of the provider: three theorems |
| `ReceiptLifecycle` | abstract specification: an operator's confirmation, given once and used once, in time |
| `ConfirmationJournal` | the confirmation authority: journal, checkpoint, monotonic authority |
| `MCConfirmationJournal` | the symmetry set TLC uses for it |
| `ConfirmationJournalProofs` | its inductive invariant, the refinement, five theorems |
| `JournalLemmas` | facts about sequences that grow at their end, for the two modules above |
| `LiveDecision` | one decision of the live loop: witness, cursor, decision ledger, execution ledger, book |
| `LiveDecisionProofs` | its inductive invariant and four theorems |
| `PROJECT.json` | runs, mutants, findings, hazards, theorems and the source lines of every definition |

`tlc -config X.cfg M` runs a configuration, `tlapm M.tla` checks the proofs of
a module whose name ends in `Proofs` or `Lemmas`.

## Inventory of the system

What each part keeps, what it does, and what would make it wrong. "M" is
modelled, "P" partly, "-" not (yet).

| part | state | operations | must hold | |
| --- | --- | --- | --- | --- |
| PaperBook snapshot authority (`_paperbook_preload_authority_guard.py`, `_paperbook_preload_generation_cas_guard.py`) | `paper_book.json`, append-only witness journal, publication lock, generation bound to each object | load, save, open_ticket, settle, recovery of a pending generation | no lost update, no unreadable journal, every snapshot loadable after a crash | M |
| Run transaction (`run_transaction.py`) | `.run-transactions/<id>/manifest.json` and staged files | start, stage, precommit, commit, recover, mark completed | all or nothing, idempotent roll-forward | M |
| Recovery (`recovery.py`) | none of its own | two passes over registry and transaction directories | closes every attempt, never a wrong one | M |
| Run registry (`run_registry.py`) | one JSON file of entries | begin, complete, abort, reconcile | one open run, no silent repeat | P |
| Session (`session.py`) | in-memory book, workspace paths | run_dataset | starts from the durable base only | P |
| Admission (`economic_admission.py`) | none | admit a ticket | not while a run is unresolved | M |
| Continuous session (`continuous_session.py`) | lifecycle, open tickets | start, observe, settle, stop | the same | P: settle |
| Locks and durable files (`workspace_lock.py`, `integrity.py`) | OS locks, atomic replace | | exclusion, atomicity | P |
| Outcome lineage publication (`_outcome_availability_registry_serialization.py`) | trust bindings in the registry | publish identity, then availability | no revision dated before it was visible | - |
| Decision ledger (`decision_ledger.py`) | hash-chained lines | append, verify | append-only, bound to an economic goal | P: content, offsets |
| Monotonic workspace authority (`monotonic_workspace_authority.py`) | PREPARE/COMMIT/ABORT records per namespace | prepare, commit, abort, recover | no rollback accepted, recovery total | P |
| Execution STOP (`execution_stop_authority.py`) | journal, anchor, monotonic history, locks | initialize, stop, arm, current, recover, admission lease | recovery never arms; a STOP is not undone; nothing is written under a lease | M |
| Windows emergency STOP (`windows_emergency_stop.py`) | none | status, activate | success means STOPPED | - |
| Supervised execution (`betfair_supervised_execution.py`, `supervised_execution.py`) | the economic lock during a call | execute an action, revoke an approval, reconcile found, not found | one request per action; nothing leaves without a live approval | P |
| Real execution ledger (`real_execution_ledger.py`) | event log of plans and attempts | reserve, begin, submit, unknown, bind evidence, acknowledge, reconcile, recover | what was appended can be read; ambiguity stays until read back | P |
| Supervised confirmation (`supervised_confirmation.py`, `betfair_execution_confirmation.py`) | journal, checkpoint with a clock, monotonic history | review, confirm, resolve, consume | one receipt per decision, one use of it, in time, under rollback | M |
| BETDAQ rate governor (`betdaq_rate_governor.py`) | sliding windows, blacklist file | admit, record, recover | budget of the provider; fail closed on a bad clock | - |
| Market path (`storage.py`, `market_bus.py`, `market_mirror.py`) | SQLite log, subscribers, live mirror | append, publish, persist-and-apply | mirror monotonic and reconstructible | - |
| Event lifecycle (`event_lifecycle.py`) | catalog checkpoint, events | apply page, refresh, register | no skipped page, no lost event | - |
| Live decision loop (`live_decision_loop.py`, `_paper_execution_append_recovery.py`) | pre-action book, progress cursor | cycle, recover, pause, stop | one decision per reserved identity; what was begun is committed | P |
| Paper execution (`paper_execution_adoption.py`, `paper_execution_reality.py`, its legacy base) | event log of runs with an anchor | publish scope, reserve, attempt, complete, materialize | one ticket per accepted attempt | P |
| Collector (`collector_*.py`) | delta store, pins, checkpoints | poll, read, compact | retained rows outlive their readers | - |
| Research scheduler (`research_scheduler.py`) | schedules, occurrences | tick, deliver, accept, pause, stop | no occurrence orphaned or forked | - |
| Evidence, evaluation, strategy factory, providers, GUI, packaging | recorded data, UI | | mostly pure validation or I/O | - |

How they interact: everything that writes `paper_book.json` runs under
`WorkspaceEconomicLock` and calls `PaperBook.load`/`save`, which add a second,
narrower lock and the witness journal. A session additionally records itself in
the registry and stages its results in a transaction directory. Recovery reads
all of it and repairs it. Readers (sessions under construction, learning
readers) call `PaperBook.load` without the economic lock and may append to the
journal. The live loop writes the same book and the same decision ledger,
through its own cursor. A real bet leaves no trace in the paper book: the
supervised call holds the economic lock, writes the real execution ledger, and
spends a receipt of the confirmation journal, which, like the execution STOP,
keeps its committed state in the monotonic authority.

What is hard: a death between any two of about a dozen durable writes per run,
recovery dying in its turn, readers that repair while nobody holds the economic
lock, objects that outlive the generation they were loaded from, writers
that check different things before they write, a provider whose silence says
nothing, answers recorded after the lock is gone, and files that come back from
a backup one without the other. `hazards` in `PROJECT.json`
lists these at their lines, with the properties that watch them.

## PaperBookJournal and PaperBookWitness

The journal file is only ever read as a whole and folded, so the model keeps the
fold: last generation prepared, committed generation, pending generation, and
whether the order of the lines is still one `_read_witnesses` accepts
(`readable`). `AppendPrepare`, `AppendCommit` and `AppendAbort` do not assume
that order: a writer that appends in the wrong one makes the journal
unreadable, which a property then sees. `NoGeneration` is the code's `None`.

A snapshot is the set of edits (tickets opened or settled) it holds; its SHA-256
is that set. `Absent` is "no file".

| code | model |
| --- | --- |
| `_BOOK_BINDINGS` | `bound`, `binding` |
| publication lock (taken without waiting, `flock`-ed) | `lock`, with at most one member |
| `_generation_guarded_load`, `_trusted_path_load` | `Load`: one step, as it holds the lock and appends at most one line |
| `_generation_guarded_open_ticket`, `_settle` | `Edit`, guarded by `MayEdit` |
| `_generation_guarded_save`, `_trusted_save` | `SaveBegin` (checks, PREPARE), `SaveReplace` (`os.replace`), `SaveCommit` (COMMIT, new binding, unlock) |
| an exception anywhere in between | `SaveRaises`: lock released in `finally`, the object lives on |
| process death | `Crash`: object and lock are gone, a new unbound object takes its place |

Two edits are never equal because ticket ids are fresh (`Edit`'s guard). The
steps of a load after its only append change nothing durable, so a load is one
step; a load that dies before it is no step at all.

### Run `paper_book_witness` (passes)

Three processes, two edits, four generations (`MaxGen`), 50,792 states. Three
processes are the least in which one holds a stale copy while a second
publishes and a third recovers; four generations allow a publication, an aborted one
and a republication of equal bytes on top of them.

* `JournalStaysReadable`: no interleaving appends a line out of order.
* `SnapshotStaysLoadable`: at every instant the file, if there is one, is the
  committed bytes or decides the pending generation.
* `CurrentObjectHoldsSnapshot`: comparing generations is enough, an object that
  passes the comparison holds everything durable.
* `NoLostUpdate`: every replacement of the file extends the file it replaces.
* `GenerationsAdvance`: a number is never spent on other bytes.
* `PendingIsClosed` (liveness): a generation left pending is closed by a later load.

Fairness: weak fairness of a save's own steps (a process holding the lock runs
on or dies; `Crash` and `SaveRaises` disable the step, so nothing is asked of
the dead) and of `Load` (every session start, admission and learning reader loads the book).
A process that begins one save after another cannot starve the loads here
because the number of generations is bounded; in the code a busy publication
lock makes a load fail rather than wait, and the claim is about a system that is
not publishing without pause.

### Run `paper_book_first_save` (violation, a finding)

`BookCanBeLoadedOrCreated` fails in three steps: an unbound object starts the first
save of a fresh path, PREPARE becomes durable, the process dies (or the save raises) before
`os.replace`. There is no file, so `PaperBook.load` stops at
`FileNotFoundError`; generation 1 is pending, so `_durable_binding_state` stops
every save. The branch of `_recover_pending` written for this case is never
reached.

## EconomicCommit and RunTransaction

`RunTransaction` is one workspace with everybody who writes its canonical
files. A file is the set of writers (runs, admissions, settlements) whose
effects it holds and stands for its hash. An action is one durable step with
the checks made since the previous one. The volatile part is `lock` (who holds
`WorkspaceEconomicLock`), `pc` (where that holder stands), `cur` (its run) and
`cand` (the book it is saving); one set of them is enough because all handlers
run under the lock and lose them when they die.

| code | actions |
| --- | --- |
| `_ensure_canonical_economic_base` | `SessionStart` (gates, reload or first save) |
| `PaperBook.save` under the economic lock | `SavePrepare`, `SaveReplace`, `SaveCommit` |
| `RunRegistry.begin` | `RegistryBegin`, `RepeatRefused` |
| `RunTransaction.start` | `StartMkdir`, `StartTemporary`, `StartManifest`, `StartRaises` |
| replay, decisions, settlement, `stage_outputs` | `StageOutputs`: an arbitrary effect on book and ledger, possibly none |
| exception before precommit | `WorkRaises`, `RegistryAbort` |
| `precommit` | `StageSummary`, `Precommit` |
| `commit` | `CommitPreflight`, `PromoteRecover`, `PromoteSkip` or `PromotePrepare`, `PromoteReplace`, `PromoteCommit`, then `PromoteLedger`, `PromoteSummary`, `MarkCanonicalCommitted` |
| `RunRegistry.complete` / `reconcile_completed_summary` | `RegistryComplete` / `RegistryReconcile` |
| `mark_registry_completed` | `MarkRegistryCompleted` |
| `reconcile_late_crashes` | `RecoveryStart`, `RecoverStaging`, `RecoverUnmanifested`, `RecoverCommitted` (into the same commit steps), `RecoveryEnds`, `RecoveryRefuses` |
| `admit_paper_ticket`, `_settle` | `AdmitTicket`, `SettleTickets` |
| `PaperBook.load` by a process without the economic lock | `ReaderLoad` |
| process death, or an exception the holder does not handle | `Crash` |

`dir` distinguishes a transaction directory that is missing, empty, holding
only the temporary and lock files `atomic_write_json` makes (`litter`), or
holding a manifest, because recovery does.

### Run `run_transaction` (passes)

Two runs, two datasets, one admission, one settlement, two deaths; about 1.1
million states with symmetry over runs. Everybody is included, the ungated
settlement too, so these hold whatever the writers do:

* `AtMostOneUnfinished`: gates and registry let one run be open, across crashes.
* `CompletedMeansApplied`: an entry called completed has its summary and is in
  book and ledger.
* `AbortedLeavesNoTrace`: an entry called aborted is in none of them.
* `NoSilentRepeat`: of two completed runs of one experiment one asked for
  `allow_repeat`, also when recovery completed the first.
* `BookStaysLoadable`: the canonical book is always one its journal admits.
* `NothingIsUndone` (action property): no effect leaves the canonical files, no
  closed entry changes.

Two runs are what a repeat, a history entry beside an open attempt and a
competition for the BASE need; the second death strikes recovery itself. A
third run adds only a longer history, over which every check is a quantifier
over single entries.

### Run `run_atomic` (passes)

Two runs, one dataset, one admission, no settlement, two deaths; 167,526
states. These need every writer to be gated (see the finding below):

* `CanonicalIsBaseUntilPrecommit`, `PromotionOrder`: what may differ between
  the canonical files, and when.
* `ManifestedRunsRecover`: recovery never refuses an attempt with a manifest.
* `ImplementsEconomicCommit`: under the refinement mapping `Abstract` the run is
  committed at the moment its precommitted manifest is durable, and the book and
  ledger it names count as published from then on. Every step of promotion,
  journal, death and recovery is a stutter of `EconomicCommit`, or one of its
  four actions.
* `PrecommittedIsCompleted`, `StagedIsClosed` (liveness): a durable precommit is completed,
  a staged attempt ends completed or aborted with registry and manifest agreeing.

Fairness: `WF(HolderStep)`, the holder of the lock runs on or dies (a death is
`Crash`, which is not a holder step and is bounded by `MaxCrashes`, that is,
deaths do not go on for ever), and `WF(RecoveryStart)`, recovery is run again
(the product runs it at start-up and offers it as a repair command). Nothing
is assumed of new sessions, admissions or readers. Weak fairness of recovery is
enough although writers take the lock in between: while a run is unresolved
the gates keep every other writer out, so the lock stays free.

### Violations (findings)

* `run_unmanifested`: `UnmanifestedRunsRecover`. A death inside `start` between
  `mkdir` and the manifest's replacement leaves a non-empty directory that recovery refuses
  for good; an exception there leaves an aborted entry whose directory every
  later session, admission and recovery refuses.
  `docs/RUN_TRANSACTION_RECOVERY.md` and a comment in `session.py` say the
  attempt is simply aborted.
* `run_ungated_writer`: `NoWriterOvertakesARun`. `_settle` advances the
  canonical book while a crashed run is unresolved; a comment in
  `economic_admission.py` says no independent writer may. Recovery of that run
  is then refused for ever, which is why `run_atomic` leaves settlements out.

## MonotonicAuthority, ModeRegister and ExecutionStop

Every provider write has to pass `ExecutionStopAuthority`. Its state is three
files written one after the other: a history of PREPARE and COMMIT in the
monotonic authority, outside the workspace; the journal of hash-chained STOP
and ARM records; and an anchor with the revision and hash of the last record. As a
hash in the chain determines everything before it, the model lets the journal itself
stand for its hash: `files.anchor`, `authority.committed` and
`authority.pending` are journals. A record keeps its identity (the command's
UUID), mode and confirmation. The authority's history is kept as the three
things every operation derives from it.

| code | actions |
| --- | --- |
| `_authority_operation_lock` | `owner`; `Enter`, `Leave` |
| `initialize_stopped`, `stop`, `arm` | `InitializeStopped`, `Stop`, `Arm`, then `Prepare`, `WriteReceipt`, `AppendRecord`, `WriteAnchor`, `CommitAppend` |
| `_ensure_monotonic_current_unlocked`, which every operation runs first | `EnsureUnbound`, `AdoptReceipt`, `AdoptCommit`, `EnsureReceipt`, `EnsureRecovered` |
| `current` (and `decision`, `assert_execution_allowed`) | `BeginCurrent`, `Return` |
| `admission_lease` | `BeginLease`, `AdmitArmed` or `AdmitStopped`, `EndLease` |
| `recover_torn_transition` | `BeginRecover`, `Repair`, `Return` |
| a refused operation | `Refuse`, `Reject`, `EnsureRefused`; a refused argument is no step |
| the operator's memory, from which `expected_revision` comes | `known` |
| death or `OSError` in a durable step | `Crash`, which may leave half a line of the journal (`torn`), or half a file of the authority (`partial`) |
| a workspace copied, and put back later | `Backup`, `Restore` |
| a workspace of a release without the authority | `Baselines` in `Init` |

The binding receipt, and each PREPARE, COMMIT and ABORT of the monotonic
authority, is created under its final name (`O_EXCL`) and written afterwards. A
death in between leaves a part of it, which `_read_monotonic_receipt_unlocked`
and `_decode_record` refuse from then on (`EnsureRefused`); nothing repairs it.
`CreatesAuthorityFile` says at which steps that can happen. The model does not
ask whether the part happens to be all of the file.

A STOP with an explicit `expected_revision` is a `Stop` with one guard more and
is not an action of its own. Restoring is done while no operation is in flight.

### Run `execution_stop` (passes)

Two processes, two confirmations, four records, two deaths, two restorations;
1,059,260 states with symmetry over processes and confirmations. Four records are
enough to upgrade an old ARMED workspace, discard an ARM and use its revision
again; the second death strikes the recovery, the second restoration goes to
a copy taken after the first.

* `LeaseActsOnNewestState`: what a lease acts on is the newest state the
  authority ever committed, and ARMED.
* `ReturnedCommandsArePermanent`: what returned to its caller stays in the
  committed chain. The converse does not hold and is not claimed: a STOP whose
  process died before COMMIT can be lost with a restored workspace.
* `ArmExtendsTheStateItsOperatorSaw`: the revision number an ARM names is enough
  to identify the state, although numbers are reused.
* `CrashesAloneAreNeverRejected`: deaths alone never lead to a conflict between
  workspace and authority. A torn last line, and a half-written file of the
  authority, are refused by every operation for good, which is `Refuse` or
  `EnsureRefused` and no conflict: the property does not say that deaths leave the
  authority usable, and these two windows are where they do not.
* `OnlyAnArmCommandAnchorsAnArm` (action property): recovery finishes a STOP
  and never an ARM.
* `ImplementsModeRegister`: seen through `authority.committed` all of it is one
  register with leases, written in one step (the COMMIT) and never under a
  lease, on which no confirmation arms twice.

No fairness is assumed and no liveness stated: nothing in the product calls
`recover_torn_transition`, so after a death between journal and anchor the
authority stays closed until somebody does.

## SupervisedExecution

`execute_betfair_supervised_action` is cut at its durable effects; between two
of them anybody may act. `pc` is where a caller stands, `call` what it holds in
memory (the attempt, the action, the provider's report), `fence` who holds
`WorkspaceEconomicLock`. `log` keeps the ledger's events by attempt, as
`_attempt_events` reads them: a kind, the instant it carries, what it is about.
`State`, `Legal` and `Readable` are `_state` and `_validate_semantics`, the
reader's side; the `Can...` operators are the guards of the appends, the
writer's side. The two are written twice in the code, and a difference between
them would let an accepted append spoil the file.

| code | actions |
| --- | --- |
| `reserve_supervised_plan`, `bind_supervised_approval`, `revoke_supervised_approval` | `ReservePlan`, `BindApproval`, `Revoke` (waits for the economic lock) |
| the operator's confirmation of one send | `Confirm`; `receipts` are the stages of `ReceiptLifecycle` |
| the call, under the lock | `Start`, `BeginAttempt`, `BindOrderReference`, `MarkSubmitted`, `Admit`, `Consume`, `Post` |
| the answer, or none | `Reply` (lets the lock go), or `TimeOut`, `MarkUnknown` |
| after the lock | `BindReport`, `ApplyReport` |
| the provider | `Place`, `MatchMore` |
| `recover_uncertain` | `Recover`: any non-empty part of the unresolved attempts, as it may die half way |
| reading an order back | `ReadBack`: what it saw may be presented at any later time |
| `reconcile_provider_readback` | `PresentToSubmitted` (then `BindReport`, `ApplyReport`), `PresentToUnknown`, `AcknowledgeFound` |
| `reconcile_provider_not_found` | `PresentNotFound` |
| death, a refusing check, a busy ledger lock | `Abandon`, which may tear the ledger's last line if the caller was appending |

### Run `supervised_execution` (passes)

Two callers, one action, two attempt ids, three instants of the clock with the
expiry at the second, one read-back kept for later; 621,739 states. Two callers
and two attempt ids are what a retry, with the same attempt or another, needs;
three instants are before, at and after the expiry, and let evidence be older
than, equal to or newer than an uncertainty.

* `OnePostPerAction`: one request per action, whoever dies, waits or reads back.
* `LedgerStaysReadable`: what the append guards let through, the validator reads.
* `LedgerAccountsForProvider`: a request is on record with its reference before
  it leaves; an acknowledgement never says more than the provider did. Nothing
  of the kind holds of RECONCILED_NOT_FOUND: an order still on its way is read
  as absent and matched afterwards. The ledger is then wrong for good, but
  `OnePostPerAction` shows that no second request follows from it, which is
  why `begin_attempt` refuses every action that ever had an attempt.
* `FreshReadbackResolves`: an uncertain bet that was matched can be settled, in
  whatever state late reports and half-done reconciliations left its attempt.
  It is the safety side of a liveness claim; nothing in the code reads back by itself, so
  that it does happen is not claimed.
* `NoSendAfterRevocation` (action property).

### Run `stale_plan_send` (violation, a finding)

`NoSendFromStalePlan`, two actions and a clock that stands still. The report of
the first action is acknowledged after the lock was let go. A second caller has
begun the attempt of the other action by then, and nothing on its way to the
request asks again whether the plan is stale.

## ReceiptLifecycle and ConfirmationJournal

An operation of `SupervisedConfirmationAuthority` runs under the journal's lock,
so one `op` is enough: `at` is the next durable step, `next` the state being
written. A record is its kind, decision, review and instant. As the records are
hash-chained, a checkpoint stands for the journal it was written for, together
with the newest instant the clock has shown (`high`), and a state of the
authority is such a pair.

| code | actions |
| --- | --- |
| `_load` | `Begin` (the checkpoint catches up with the journal), `LoadRefuses` |
| `_ensure_monotonic_current_locked` | `Ensure`; `EnsureRefused` when a record of the authority is half written |
| the operation's checks, `_observe_clock_locked` | `RefuseByState`, `RefuseByClock`, `ReadClock`, `PrepareClock`, `WriteClock`, `CommitClock` |
| `prepare_review`, `confirm_review`, `consume_receipt`, `resolve_receipt_binding` | `ActReview`, `ActRecord`, `ActWithoutRecord` |
| `_append_locked` | `PrepareAppend`, `AppendRecord`, `WriteAppend`, `CommitAppend` |
| death, possibly inside the append or the creation of a record of the authority | `Crash`, `CreatesRecord` |
| a copy of the workspace, and its return | `BackUp`, `Restore` (either file, or both) |

### Run `confirmation_journal` (passes)

Two decisions, reviews open for two of three instants, four records, one death,
one restoration; 543,129 states. Four records are a review that expires, the
next one, its confirmation and its consumption.

* `ReturnedRecordsArePermanent`: a consumption that returned, and was followed
  by a request, is never taken back.
* `CrashesAloneAreNeverRejected`: a death alone, short of a torn line, never
  leaves files the next operation takes for a rollback. The interesting case is
  a checkpoint one record behind, with an older clock. A half-written record of
  the authority is refused before the files are compared, and for good, as in
  `ExecutionStop`.
* `ImplementsReceiptLifecycle`: under the mapping `stageBar`, `deadlineBar` and
  the committed clock, everything is one commit at a time of an abstract receipt.

`SupervisedExecution` uses the abstraction (`receipts`), not the journal: a
`Consume` there is one step because this run shows that it is one step to
everybody else.

## LiveDecision

One decision is seven durable writes in five files. `pc` is the next of them;
a call that raises goes back to `idle` (the object lives on, with the book it
has), a death to `down`. The save of the book is itself a PREPARE, an
`os.replace` and a COMMIT (`PaperBookWitness` has them one by one); here it is one
step, `SaveBook`, or it fails half-way and the generation is left `undecided`, or
the object is left behind the file. A decision's identity is its number; which actions it
has follows from market and book, and `progress` keeps their number. A ticket is
named by its decision and action, as the attempt marker in the real one
names it, and keeps its place in the book.

| code | actions |
| --- | --- |
| the constructor | `Start` |
| `_write_pending` | `SaveWitness`, `WritePending` |
| `_recover_unfinished_progress` and its append guard | `Recover` |
| `_persist_plan` | `ReserveAppend`, `AppendDecision`, `Commit` |
| `PaperExecutionAdoptionRuntime.execute` | `PublishScope`, `ReserveRun`, `RecordAttempt`, `CompleteRun`, `OpenTicket` (one ticket at a time), `Materialized`, `SaveBook` |
| any of its checks failing | `Refuse` |
| death, or a call that raises before its write | `Fault` |
| `PaperBook.save` dying or raising half-way: after PREPARE, after `os.replace`, after COMMIT | `SaveFault` |
| `PaperBook.load` in any other process, which closes the prepared generation | `ReaderLoads` |
| a transaction of another process | `StrangerPromotes`, whenever the economic lock is free |

### Run `live_decision` (passes)

Two decisions of up to two actions, three faults, one promotion by another
process, in paper and in shadow mode; 281,735 states. Two actions are needed
for a run that ends after the first; three faults strike a decision, its
recovery, and the recovery of that.

* `ExposureFollowsEvidence`: one record for a decision; the run after its
  record; a ticket only for an accepted attempt of a completed run, and only
  one; none in shadow mode; and all of them in the durable book once the cursor
  has moved on.
* `BegunDecisionsCommit` (liveness): a decision begun is committed. Four
  exceptions are in its statement because the code has them: another writer
  that came in between (recovery then refuses, by design); a death in the middle
  of an append to the execution ledger, which leaves a lock file or an event
  without its anchor that every later append refuses; a call that raises
  between two tickets (`BetweenTickets`); and a save that raises half-way
  (`SaveInDoubt`). In the third case the book in memory is neither the book before
  the plan nor the book after it, in the fourth it is older than its file (the file
  was replaced) or its generation is pending (it was not, and only a load closes it,
  which the loop never does), so every later cycle of that process is refused.
  A new process reads the book from its file and finishes; in the pending case
  a load by any other process is enough.

Fairness: `WF_vars(LoopStep)`: the service keeps calling `run_cycle` and starts
the process again after a death. Faults are bounded, nothing is assumed of the other writer.
`CHECK_DEADLOCK FALSE`, because the loop does rest once its decisions are used up
or its restart is refused.

### Run `live_stale_book` (violation, a finding)

`NoDecisionOnChangedBook`, without any fault. Another writer publishes a ticket
after PENDING; the cycle is refused; the next cycle of the same process takes
the cursor up again, compares the book it has in memory with the witness, finds
them equal, and records the decision on a book that is no longer the durable one.

## What is proved

### The snapshot protocol

`PaperBookWitnessProofs` proves, for any sets of processes and edits and any
bound on generations, from the module's one assumption (`MaxGen` is a positive
natural, and `Absent` is not a set of edits):

| theorem | |
| --- | --- |
| `Invariance` | `Spec => []IInv` |
| `TypeCorrect`, `JournalReadable`, `SnapshotLoadable`, `CurrentHoldsSnapshot` | the four invariants of run `paper_book_witness` |
| `NoUpdateLost`, `GenerationsOnlyAdvance` | its two action properties |

None of the properties is inductive. `IInv` is the conjunction of

* `TypeOK`;
* `Generational`: the pending generation is the newest ever prepared and newer
  than the committed one, and only generation 0 names no bytes;
* `Files`: with nothing pending the file is the committed content, otherwise it
  is the committed or the pending content, and the pending content drops nothing
  the committed one holds;
* `Saving`: at most one process is inside a save, it holds the lock, and where
  it stands says which of the two contents is at the path;
* `Bindings`: no binding is newer than the journal, a pending generation is newer
  than all of them, and an object bound to the committed generation holds at
  least the committed content.

`Bindings` is what makes the compare-and-swap sound: a stale object keeps its
old number, numbers only grow, so equality of numbers means equality of
lineage. The proof has one lemma per action (`LoadInv`, `EditInv`,
`SaveBeginInv`, `SaveReplaceInv`, `SaveCommitInv`, `SaveRaisesInv`,
`CrashInv`), resting on facts about the journal operators (`PrepareFacts`,
`CommitFacts`, `AbortFacts`, `RecoveredFacts`).

### Supervised execution

`SupervisedExecutionProofs` proves, for any sets of callers, actions and
attempts and any bounds on time and read-backs, from the module's one
assumption (the bounds are naturals, `None` is nobody):

| theorem | |
| --- | --- |
| `Invariant` | `Spec => []IInv` |
| `TypeCorrect`, `OnePost`, `Readability` | `TypeOK`, `OnePostPerAction`, `LedgerStaysReadable` |
| `NoLateSend` | the action property `NoSendAfterRevocation` |

`IInv` is the conjunction of `TypeOK` and

* `LogTyped`: every event has a kind, an instant and a subject of the right type;
* `Sends`: a call under way knows its attempt, and its action while it sends (`Calls`);
  a call that sends holds the lock, so that one sends at a time (`Fenced`); from the
  admission to the request the approval stands (`Approved`);
* `Owned`: an attempt has one action and an action one attempt, ever, and a call
  past its reservation works on the attempt of its action;
* `Paid`: what left was paid for with the receipt of its attempt and action, which is
  spent; a call about to send has spent one that nothing left for yet.

The argument has two halves. First, every step adds at most one event to an
attempt's log, one that its readers accept there (`NextGrows`, a case for every
append: this is where the guards of the writer are compared with the checks of the
reader), so that readable logs stay readable (`GrowsReadable`), and what a log
once had it keeps (`GrowsFacts`). Second, a request needs a receipt that was
`confirmed` and that the step before made `consumed`; only the lock's holder
stands between the two, and its attempt is the only one of its action
(`StagesKept`, `OwnedKept`, `ReceiptsKept`, `PaidKept`). `NoLateSend` is `Approved` read at the
step that sends; `Revoke` keeps it because it waits for the lock (`Fenced`).

`SupervisedSettlementProofs` adds two facts to that invariant (`SInv`) and
proves `Settlement` (`Spec => []SInv`), `LedgerIsTrue`
(`LedgerAccountsForProvider`) and `FreshResolves` (`FreshReadbackResolves`).

* `Vouched`: what a read-back saw, what a caller holds in memory and what an
  acknowledgement rests on is true of the order as it is now. It is needed
  because evidence is applied long after it was taken; it is kept because an
  order never goes back (`Supports`).
* `Recorded`: a request that left, and a caller about to send one, has its
  reference and its submission on record.

The state the code computes from a log is that of its last state-changing
event (`LastChange`). `StateOrigins` finds the acknowledgement behind a settled
state, so that `Vouched` speaks of it. `FreshResolves` needs only `IInv`: a
read-back taken after `MaxTime` is newer than everything in the log, so FOUND is
accepted; an appended FOUND leaves the state uncertain (`FoundKeepsState`), so the
acknowledgement is accepted after it.

### Run transactions

`RunTransactionProofs` proves, for any sets of runs, datasets, admissions and
settlements and any number of deaths, from the module's assumption
(`ConstantsAssumption`: there is a dataset, a run id is not the name of another
writer, `Absent` is not a content):

| theorem | |
| --- | --- |
| `Invariant`, `TypeCorrect` | `Spec => []IInv`, `TypeOK` |
| `OneRunIsOpen`, `RepeatsWereAsked` | `AtMostOneUnfinished`, `NoSilentRepeat` |
| `CompletedIsApplied`, `AbortedIsAbsent` | `CompletedMeansApplied`, `AbortedLeavesNoTrace` |
| `BookLoads` | `BookStaysLoadable` |
| `EffectsArePermanent` | the action property `NothingIsUndone` |
| `GatedInvariant`, `OpenRunsAreAtBase`, `PromotionsAreOrdered`, `ManifestsAreNotRefused`, `Refinement` | where every writer is gated: `GInv`, the three invariants of run `run_atomic`, `ImplementsEconomicCommit` |

`IInv` is `TypeOK` and two groups. `Records` is about the files:

* `Journaled`: the journal is readable, and the book is the committed or the pending content;
* `Lives`: which statuses of the registry go with which phases of the manifest;
* `Planned`: a precommitted manifest names what is staged, which is BASE with the
  run's own effects or without;
* `Traced`: only a run that precommitted is in a canonical file;
* `Applied`: what a manifest calls committed is in all of them;
* `AtMostOneUnfinished`, and `Repeats`, which is `NoSilentRepeat` with the open
  run included (otherwise its completion would not preserve it).

`Standing` is about the holder of the lock: who may stand where (`Placed`), what
it is about to put at the canonical path (`Publishing`), how far its run is
(`Working`), and that whoever passed the gates finds no run unfinished
(`Gated`). An aborted entry leaves no trace because its phase is `none` or
`aborted` (`Lives`) and only committed phases leave one (`Traced`); a completed
one is applied because its phase is published.

Eighteen of the steps only move the holder or the journal (`OthersOnlyMove`), so
each conjunct of `Records` is kept by a case analysis over the rest. Three
lemmas say once what a step can do to the files (`CanonicalMoves`,
`CanonicalGrows`), to a registry entry (`EntriesMove`) and to a transaction
(`TransactionsMove`).

The last five theorems have the hypothesis `EveryWriterGated`, that is
`Settlements = {}`: `_settle` is the one writer without a gate, and run
`run_ungated_writer` shows what it does to an open run. `GInv` adds the three
invariants of `run_atomic`. Then a save finds no run unfinished
(`SavesAreGated`), so while a run is open only its own promotion moves a
canonical file (`OpenRunHasTheFiles`). For the refinement, `OutcomesMove` finds
the three steps that decide a run (`RegistryBegin`, `Precommit`,
`RegistryAbort`: `Open`, `Commit`, `Abort`), and `Publishes` evaluates the
`CHOOSE` of the mapping: at most one run is rolling forward. `SaveReplace` of an
admission is `Admit`; every other step is a stutter.

### The execution STOP

`ExecutionStopProofs` proves, for any sets of processes and confirmations and
any bounds, from `ConstantsAssumption` (`MaxRecords` is at least two, because a
workspace of an earlier release starts with up to two records): `Invariant`,
`TypeCorrect`, `LeaseIsCurrent` (`LeaseActsOnNewestState`), `ReturnsArePermanent`
(`ReturnedCommandsArePermanent`), `ArmsExtendWhatWasSeen`
(`ArmExtendsTheStateItsOperatorSaw`), `CrashesAreRecoverable`
(`CrashesAloneAreNeverRejected`), `OnlyArmsAnchorArms`
(`OnlyAnArmCommandAnchorsAnArm`) and `Refinement` (`ImplementsModeRegister`).

`IInv` is `Typed` (a record stands no earlier in a chain than its number),
`OneInside`, for every process `Intends` (what it is going to append, and to
what), `Standing` (where files and authority are at its step) and `Told` (what it
knows is a prefix of the committed chain, or the old journal), then `Chain`
(what may be pending is one command on top of what is committed),
`ReturnedCommandsArePermanent`, and `FilesFollow` (while nothing was restored the
files agree with one side of the transition, or the anchor with the one and the
journal with either). That an ARM extends what its operator saw follows from
`Told` and the lengths in `Intends`: two prefixes of one chain with the same
length are the same. `partial` is in no conjunct: what is half written only makes
operations refuse, and its type is a lemma of its own (`PartialTyped`), here and in
the next proof. There is one lemma per group of actions (`BeginKeeps`,
`PrepareKeeps`, ... `RestoreKeeps`).

### The confirmation authority

`ConfirmationJournalProofs` proves, for any set of decisions and any bounds:
`Invariant`, `TypeCorrect`, `ReturnsArePermanent`
(`ReturnedRecordsArePermanent`), `CrashesAreRecoverable`
(`CrashesAloneAreNeverRejected`) and `Refinement`
(`ImplementsReceiptLifecycle`).

`IInv` is `Typed`, `WellFormed(authority.committed)` (instants in order and not
past the clock, receipts and uses only of reviews, one receipt for a decision),
`AtStep` (where files and authority are at each step of an operation),
`Prepares` (what is about to be written is one tick or one legal record after
what is committed), `Bound`, `FilesFollow`, and that the committed state extends
everything returned. `FollowsWellFormed` shows that a legal next state is well
formed; `FollowsLifecycle` that it is one step of the abstract receipt, which
needs `WellFormed` for the records before it. `JournalLemmas` (`PrefixMeaning`,
`PrefixOrder`, `AppendMeaning`) carries the facts about prefixes that this
module and the previous one rest on.

### The live decision

`LiveDecisionProofs` proves, for any number of decisions, actions, faults and
foreign promotions: `Invariant`, `TypeCorrect`, `ExposureHasEvidence`
(`ExposureFollowsEvidence`), and `NoTicketIsLost`, an action property of its
own: no step takes a ticket out of the durable book.

`IInv` is `Typed`, `CursorAtStep` (what the durable cursor says where the loop
stands), `RecordAtItsPlace` (a record of a decision stands once, at the offset
its cursor reserved), `RunsInOrder` (a run follows its record, grows only while
its decision is carried out, and ends with its first attempt that was not
accepted), `BooksInOrder` (a book in memory of the newest generation holds what
the file holds, whether or not a failed save is decided) and `ExposureInOrder` (every ticket, in memory too, belongs to an
attempt of a completed run that was not refused, and a cursor that moved on left
none out). `BooksInOrder` is what makes the generation check of a save enough
against the other writer: a save that passes it drops no ticket.

### Only model-checked

The four liveness properties, `PendingIsClosed`, `PrecommittedIsCompleted`,
`StagedIsClosed` and `BegunDecisionsCommit`: they need fairness and ENABLED,
which the prover does not reason about. Every invariant, action property and
refinement that a passing run checks is also stated by a theorem. Each inductive
invariant was checked by TLC on a small instance before it was proved.

## Abstractions

* Bytes are what they say, a SHA-256 is the content: collisions and edits by
  hand are not modelled. All checks of file kind, hard links, path identity and
  monkey-patched delegates therefore succeed.
* An append to a journal, and an atomic replacement of a file, is one step. A torn
  append is modelled in `ExecutionStop`, `SupervisedExecution`,
  `ConfirmationJournal` and, as `writerLock`, in `LiveDecision`: readers refuse the
  file from then on and nothing repairs it. `_read_witnesses` refuses a journal with
  one too, where it is not modelled. A death inside the creation of the STOP's
  binding receipt or of a record of the monotonic authority is modelled as `partial`
  in `ExecutionStop` and `ConfirmationJournal`. One flag stands for all these files,
  the markers of the authority's root and namespace with them: whichever is half
  written, every later operation refuses. The authority's directory is never lost.
* The directory of a path is durable when the call returns.
* `Crash` in `RunTransaction` stands for a death and for an exception that
  leaves the `with` block; both release the lock and change no file.
* `SupervisedExecution`: all actions are of one plan; the approval, the quotes and
  the reviews end at the same instant (`Expiry`); the gate, and the checks of profile, quote
  and slippage, pass; a report or read-back is what it saw and when. The bet's
  identity is its order reference, which the provider takes once. Two reports
  that name one receipt for two attempts do not occur.
* `ConfirmationJournal`: the checkpoint format of the first release, which has
  no clock, is left out. So is the digest that binds a receipt to one request,
  except that in `SupervisedExecution` a receipt belongs to one attempt of one action.
* `LiveDecision`: the workspace has a durable book when the loop starts; the
  runtime's constructor saves the first one, whose failure is the subject of
  `paper_book_first_save`. A cycle that returns PAUSED, STOPPED or without a
  change of the market is a stutter. The branch of `_persist_plan` that reserves another place when
  its own was taken is in `ReserveAppend`, but a recovery refuses before it
  gets there.
* Bounds: `MaxTime`, `Expiry`, `MaxReadbacks`, `MaxDecisions`, `MaxLegs`,
  `MaxFaults`, `MaxStrangers` (instants, read-backs, decisions, actions, faults and
  foreign promotions), `MaxGen` (PREPAREs in the journal), `MaxCrashes`,
  `MaxRecords` (records ever written to a STOP journal), `MaxRestores`. Generations
  in `RunTransaction` are bounded by the writers, each of which writes once.

## Not modelled

The package is some 258,000 lines. What is modelled is where money, or the
authority to spend it, crosses several durable files or processes; the map
covers about 7,300 lines, because a definition here stands for a handler and
most of the package is not handlers. What is left falls into these groups.

* Protocols of the same kind, which later work can take up: the blacklist store of
  the rate governor (a third client of `MonotonicAuthority`, whose
  initialisation cannot be resumed after a death at its first write), outcome
  publication, the market path, event lifecycle, the research scheduler and
  collector retention. Their hazards are listed in `PROJECT.json` without a
  property. `agent_loop.py`, `research_supervisor.py` and
  `model_compute_router.py` belong here with the file of stages, or the journal,
  that each rewrites under a lock; most of their lines validate what is in it.
* The Windows emergency STOP, 268 lines: `current`, `stop` at the revision read,
  and a confirming `current`, all of which are in `ExecutionStop`. It reports
  success only from that last read, so that nothing is left to check.
* Decimal arithmetic over one object: ticket settlement, risk limits, portfolio
  plans, rate windows. TLC would check small tables against a second copy of
  the same formula; unit tests do that better.
* Validation: the evidence and evaluation modules and `policy_deployment.py`
  check recorded JSON against schemas and digests, over files written once.
* Input and output: provider adapters, the Windows shell, the GUI, packaging,
  repository scripts, replay of recorded files.

## Plan

1. More proofs: a refinement for the live loop (an abstract decision that is
   recorded and exposed in one step) and for the snapshot protocol (a register of
   generations), and that the receipts of `SupervisedExecution` move as
   `ReceiptLifecycle` says.
2. The blacklist store over `MonotonicAuthority`.
3. `MarketPath` (store, bus, mirror with concurrent publishers), `EventLifecycle`
   (catalog pages against a checkpoint read before the fetch).
4. `ResearchScheduler`, `CollectorRetention`, `OutcomePublication`.
