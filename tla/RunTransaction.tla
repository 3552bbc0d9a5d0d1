--------------------------- MODULE RunTransaction ---------------------------
(***************************************************************************)
(* The crash-recoverable commit of a paper run to one workspace: the       *)
(* canonical PaperBook with its witness journal, the canonical decision    *)
(* ledger and run summaries, the RunRegistry, one transaction directory    *)
(* per run, and everybody who writes them under WorkspaceEconomicLock:     *)
(* AutosportSession.run_dataset, recovery.reconcile_late_crashes,          *)
(* admit_paper_ticket and the settlement of a continuous session.          *)
(*                                                                         *)
(* Each action is one durable step (a file replaced, a line appended) with *)
(* the checks the code makes since the step before; between any two of     *)
(* them the process may die.  A file stands for its SHA-256, a book or     *)
(* ledger for the set of writers whose effects it holds.                   *)
(***************************************************************************)
EXTENDS PaperBookJournal

CONSTANTS
    Runs,         \* run ids; an id is used once
    Datasets,     \* experiment identities (market, results, strategy)
    Admissions,   \* tickets opened by admit_paper_ticket
    Settlements,  \* settlements published by a continuous session
    NoRun,        \* the holder of the lock works on no run
    MaxCrashes    \* bound: process deaths, and exceptions with their effect

ASSUME ConstantsAssumption ==
    /\ MaxCrashes \in Nat
    /\ NoRun \notin Runs
    /\ Datasets # {}
    /\ Runs \cap (Admissions \cup Settlements) = {}   \* what a book holds names its writer
    /\ Absent \notin SUBSET (Runs \cup Admissions \cup Settlements)

VARIABLES
    book, journal,   \* paper_book.json and the witness journal of its path
    ledger,          \* decisions.jsonl
    summaries,       \* runs with a canonical run-<id>.json
    status,          \* RunRegistry: status of each entry
    base,            \*   and the BASE hashes it recorded at begin
    evidence,        \*   and the hashes recorded when it became terminal
    request,         \*   the dataset, and allow_repeat of the call
    dir,             \* .run-transactions/<id>: none, empty, litter, manifest
    phase,           \* phase in the durable manifest
    new,             \* the NEW hashes in it
    staged,          \* the staged artifacts beside it
    lock,            \* who holds WorkspaceEconomicLock
    pc, cur, cand,   \* volatile: where the holder stands, its run, its book
    crashes

registry == <<status, base, evidence, request>>
transaction == <<dir, phase, new, staged>>
canonical == <<book, ledger, summaries>>
control == <<lock, pc, cur, cand>>
vars == <<book, journal, ledger, summaries, status, base, evidence, request,
          dir, phase, new, staged, lock, pc, cur, cand, crashes>>

Effects == Runs \cup Admissions \cup Settlements
State(b, l) == [book |-> b, ledger |-> l]
NoState == State({}, {})

Init ==
    /\ book = Absent /\ journal = EmptyJournal /\ ledger = {} /\ summaries = {}
    /\ status = [r \in Runs |-> "none"]
    /\ base = [r \in Runs |-> NoState]
    /\ evidence = [r \in Runs |-> NoState]
    /\ request = [r \in Runs |-> [dataset |-> CHOOSE d \in Datasets : TRUE, repeat |-> FALSE]]
    /\ dir = [r \in Runs |-> "none"]
    /\ phase = [r \in Runs |-> "none"]
    /\ new = [r \in Runs |-> NoState]
    /\ staged = [r \in Runs |-> [outputs |-> NoState, summary |-> FALSE]]
    /\ lock = "free" /\ pc = "idle" /\ cur = NoRun /\ cand = {}
    /\ crashes = 0

-----------------------------------------------------------------------------
\* Predicates the handlers share.

InProgress == {r \in Runs : status[r] = "in_progress"}

\* Both canonical files equal the BASE hashes the registry recorded.
AtBase(r) == book = base[r].book /\ ledger = base[r].ledger

\* transaction_history_requires_recovery lets a writer go on: it raises on a
\* directory without a manifest, and answers yes on an unfinished phase.
HistoryIsTerminal ==
    \A r \in Runs :
        dir[r] # "none" => dir[r] = "manifest" /\ phase[r] \in {"completed", "aborted"}

\* Mutant: the gate forgets completed runs whose manifest is unfinished.
SettledRegistryOnly == InProgress = {}

\* The two gates a session and an admission pass before they write.
Settled == InProgress = {} /\ HistoryIsTerminal

\* Mutant: the lock is let go in the middle of the handler.
ReleaseOnly == lock' = "free" /\ UNCHANGED <<pc, cur, cand>>

Release == lock' = "free" /\ pc' = "idle" /\ cur' = NoRun /\ cand' = {}

Goto(where) == pc' = where /\ UNCHANGED <<lock, cur, cand>>

\* PaperBook.load under the publication lock: closes a pending generation.
LoadBook ==
    /\ Verifies(journal, book)
    /\ journal' = Recovered(journal, book)

-----------------------------------------------------------------------------
\* PaperBook.save of the canonical book (first save, admission, settlement).
\* Its caller holds the economic lock and has just loaded the book.

SavePrepare ==
    /\ pc = "save"
    /\ HasDurableState(journal, book)
    /\ journal' = AppendPrepare(journal, NextGeneration(journal, cand))
    /\ Goto("save_replace")
    /\ UNCHANGED <<canonical, registry, transaction, crashes>>

SaveReplace ==
    /\ pc = "save_replace"
    /\ book' = cand
    /\ Goto("save_commit")
    /\ UNCHANGED <<journal, ledger, summaries, registry, transaction, crashes>>

SaveCommit ==
    /\ pc = "save_commit"
    /\ journal' = AppendCommit(journal, journal.pending)
    /\ IF lock = "session" THEN Goto("begin") ELSE Release
    /\ UNCHANGED <<canonical, registry, transaction, crashes>>

\* A process that only reads (a session being constructed, a learning reader)
\* takes the publication lock between two publications and closes what a
\* crash left pending.
ReaderLoad ==
    /\ pc \notin {"save_replace", "save_commit", "promote_replace", "promote_commit"}
    /\ journal.pending # NoGeneration
    /\ LoadBook
    /\ UNCHANGED <<canonical, registry, transaction, control, crashes>>

-----------------------------------------------------------------------------
\* AutosportSession.run_dataset

\* _ensure_canonical_economic_base under the lock: refuse unresolved work,
\* reload the book, or create it when there is none.
SessionStart(r, d, rep) ==
    /\ lock = "free"
    /\ status[r] = "none"
    /\ Settled
    /\ \/ LoadBook /\ pc' = "begin"
       \/ /\ book = Absent
          /\ HasDurableState(journal, book)
          /\ journal.committed = NoGeneration
          /\ pc' = "save"
          /\ UNCHANGED journal
    /\ request' = [request EXCEPT ![r] = [dataset |-> d, repeat |-> rep]]
    /\ lock' = "session" /\ cur' = r /\ cand' = {}
    /\ UNCHANGED <<canonical, status, base, evidence, transaction, crashes>>

\* Mutant: only runs that changed the book count as completed.
CompletedBeforeWithBets(r) ==
    \E q \in Runs :
        /\ status[q] = "completed" /\ request[q].dataset = request[r].dataset
        /\ new[q].book # base[q].book

CompletedBefore(r) ==
    \E q \in Runs : status[q] = "completed" /\ request[q].dataset = request[r].dataset

\* RunRegistry.begin: one in_progress entry with the BASE hashes, unless the
\* experiment was completed already and no repeat was asked for.
RegistryBegin ==
    /\ pc = "begin"
    /\ InProgress = {}
    /\ CompletedBefore(cur) => request[cur].repeat
    /\ status' = [status EXCEPT ![cur] = "in_progress"]
    /\ base' = [base EXCEPT ![cur] = State(book, ledger)]
    /\ Goto("start")
    /\ UNCHANGED <<canonical, journal, evidence, request, transaction, crashes>>

RepeatRefused ==
    /\ pc = "begin"
    /\ CompletedBefore(cur) /\ ~request[cur].repeat
    /\ Release
    /\ UNCHANGED <<canonical, journal, registry, transaction, crashes>>

\* RunTransaction.start: make the directory, then write the first manifest.
\* atomic_write_json leaves its temporary file and its lock sidecar in the new
\* directory before the manifest is replaced into place.
StartMkdir ==
    /\ pc = "start" /\ dir[cur] = "none"
    /\ dir' = [dir EXCEPT ![cur] = "empty"]
    /\ Goto("start")
    /\ UNCHANGED <<canonical, journal, registry, phase, new, staged, crashes>>

StartTemporary ==
    /\ pc = "start" /\ dir[cur] = "empty"
    /\ dir' = [dir EXCEPT ![cur] = "litter"]
    /\ Goto("start")
    /\ UNCHANGED <<canonical, journal, registry, phase, new, staged, crashes>>

StartManifest ==
    /\ pc = "start" /\ dir[cur] = "litter"
    /\ dir' = [dir EXCEPT ![cur] = "manifest"]
    /\ phase' = [phase EXCEPT ![cur] = "staging"]
    /\ Goto("work")
    /\ UNCHANGED <<canonical, journal, registry, new, staged, crashes>>

\* An exception in start: only the registry entry is aborted.
StartRaises ==
    /\ pc = "start"
    /\ Goto("abort")
    /\ UNCHANGED <<canonical, journal, registry, transaction, crashes>>

\* Mutant: the replacement ledger is built without the canonical prefix.
StageFreshLedger ==
    /\ pc = "work"
    /\ AtBase(cur)
    /\ \E b \in {book, book \cup {cur}}, l \in {ledger, {cur}} :
        staged' = [staged EXCEPT ![cur].outputs = State(b, l)]
    /\ Goto("staged")
    /\ UNCHANGED <<canonical, journal, registry, dir, phase, new, crashes>>

\* Replay, decisions and settlement work on a copy of the book and a private
\* ledger; stage_outputs writes both replacements while canonical is BASE.  A
\* run may open no ticket, or decide nothing.
StageOutputs ==
    /\ pc = "work"
    /\ AtBase(cur)
    /\ \E b \in {book, book \cup {cur}}, l \in {ledger, ledger \cup {cur}} :
        staged' = [staged EXCEPT ![cur].outputs = State(b, l)]
    /\ Goto("staged")
    /\ UNCHANGED <<canonical, journal, registry, dir, phase, new, crashes>>

\* An exception before precommit: RunTransaction.recover aborts the manifest
\* once BASE is proven, then the registry entry is aborted.
WorkRaises ==
    /\ pc = "work"
    /\ AtBase(cur) /\ cur \notin summaries
    /\ phase' = [phase EXCEPT ![cur] = "aborted"]
    /\ Goto("abort")
    /\ UNCHANGED <<canonical, journal, registry, dir, new, staged, crashes>>

\* RunRegistry.abort_uncommitted.
RegistryAbort ==
    /\ pc = "abort"
    /\ status[cur] = "in_progress" /\ AtBase(cur)
    /\ status' = [status EXCEPT ![cur] = "aborted"]
    /\ evidence' = [evidence EXCEPT ![cur] = State(book, ledger)]
    /\ IF lock = "recovery" THEN pc' = "scan" /\ cur' = NoRun /\ UNCHANGED <<lock, cand>>
       ELSE Release
    /\ UNCHANGED <<canonical, journal, base, request, transaction, crashes>>

\* precommit: the summary is staged, then the manifest becomes durable with
\* the NEW hashes, still only while canonical is BASE.
StageSummary ==
    /\ pc = "staged"
    /\ AtBase(cur)
    /\ staged' = [staged EXCEPT ![cur].summary = TRUE]
    /\ Goto("precommit")
    /\ UNCHANGED <<canonical, journal, registry, dir, phase, new, crashes>>

Precommit ==
    /\ pc = "precommit"
    /\ phase[cur] = "staging"
    /\ new' = [new EXCEPT ![cur] = staged[cur].outputs]
    /\ phase' = [phase EXCEPT ![cur] = "precommitted"]
    /\ Goto("commit")
    /\ UNCHANGED <<canonical, journal, registry, dir, staged, crashes>>

-----------------------------------------------------------------------------
\* RunTransaction.commit, run by the session and again by recovery: every
\* target is promoted if it is BASE and left alone if it is NEW.

\* Mutant: a second recovery expects BASE only.
PreflightOfFirstTry(r) ==
    /\ phase[r] \in {"precommitted", "canonical_committed", "completed"}
    /\ r \in summaries \/ staged[r].summary
    /\ AtBase(r) /\ staged[r].outputs = new[r]

\* The checks before the first os.replace: summary evidence, and each
\* canonical file BASE (with its staged replacement intact) or NEW.
Preflight(r) ==
    /\ phase[r] \in {"precommitted", "canonical_committed", "completed"}
    /\ r \in summaries \/ staged[r].summary
    /\ book \in {base[r].book, new[r].book}
    /\ book = base[r].book => staged[r].outputs.book = new[r].book
    /\ ledger \in {base[r].ledger, new[r].ledger}
    /\ ledger = base[r].ledger => staged[r].outputs.ledger = new[r].ledger

CommitPreflight ==
    /\ pc = "commit"
    /\ Preflight(cur)
    /\ Goto("promote")
    /\ UNCHANGED <<canonical, journal, registry, transaction, crashes>>

\* _promote_paper_book_snapshot: a publication a crash interrupted is closed
\* first, forward or back, as the bytes at the path decide.
PromoteRecover ==
    /\ pc = "promote"
    /\ journal.pending # NoGeneration
    /\ Recoverable(journal, book)
    /\ journal' = Recovered(journal, book)
    /\ Goto("promote")
    /\ UNCHANGED <<canonical, registry, transaction, crashes>>

\* Mutant: an unchanged book is taken for an unchanged ledger.
PromoteSkipsLedger ==
    /\ pc = "promote"
    /\ journal.pending = NoGeneration
    /\ book = new[cur].book
    /\ journal.committed.sha = new[cur].book
    /\ Goto("summary")
    /\ UNCHANGED <<canonical, journal, registry, transaction, crashes>>

\* Already NEW, or NEW is BASE: no generation is minted, but the bytes must be
\* the ones the journal committed.
PromoteSkip ==
    /\ pc = "promote"
    /\ journal.pending = NoGeneration
    /\ book = new[cur].book
    /\ journal.committed.sha = new[cur].book
    /\ Goto("ledger")
    /\ UNCHANGED <<canonical, journal, registry, transaction, crashes>>

\* Mutant: the book is replaced without a PREPARE.
PromoteUnwitnessed ==
    /\ pc = "promote"
    /\ journal.pending = NoGeneration
    /\ book = base[cur].book /\ book # new[cur].book
    /\ journal.committed.sha = base[cur].book
    /\ Goto("promote_replace")
    /\ UNCHANGED <<canonical, journal, registry, transaction, crashes>>

PromotePrepare ==
    /\ pc = "promote"
    /\ journal.pending = NoGeneration
    /\ book = base[cur].book /\ book # new[cur].book
    /\ journal.committed.sha = base[cur].book
    /\ journal' = AppendPrepare(journal, NextGeneration(journal, new[cur].book))
    /\ Goto("promote_replace")
    /\ UNCHANGED <<canonical, registry, transaction, crashes>>

PromoteReplace ==
    /\ pc = "promote_replace"
    /\ book' = staged[cur].outputs.book
    /\ Goto("promote_commit")
    /\ UNCHANGED <<journal, ledger, summaries, registry, transaction, crashes>>

\* Mutant: the summary is published before the ledger it reports on.
PromoteCommitSkipsLedger ==
    /\ pc = "promote_commit"
    /\ journal' = AppendCommit(journal, journal.pending)
    /\ Goto("summary")
    /\ UNCHANGED <<canonical, registry, transaction, crashes>>

PromoteCommit ==
    /\ pc = "promote_commit"
    /\ journal' = AppendCommit(journal, journal.pending)
    /\ Goto("ledger")
    /\ UNCHANGED <<canonical, registry, transaction, crashes>>

PromoteLedger ==
    /\ pc = "ledger"
    /\ ledger \in {base[cur].ledger, new[cur].ledger}
    /\ ledger' = IF ledger = new[cur].ledger THEN ledger ELSE staged[cur].outputs.ledger
    /\ Goto("summary")
    /\ UNCHANGED <<book, journal, summaries, registry, transaction, crashes>>

PromoteSummary ==
    /\ pc = "summary"
    /\ cur \in summaries \/ staged[cur].summary
    /\ summaries' = summaries \cup {cur}
    /\ Goto("mark")
    /\ UNCHANGED <<book, journal, ledger, registry, transaction, crashes>>

MarkCanonicalCommitted ==
    /\ pc = "mark"
    /\ phase' = [phase EXCEPT ![cur] = "canonical_committed"]
    /\ Goto(IF status[cur] = "completed" THEN "finish" ELSE "complete")
    /\ UNCHANGED <<canonical, journal, registry, dir, new, staged, crashes>>

CloseEntry ==
    /\ pc = "complete"
    /\ status[cur] = "in_progress"
    /\ status' = [status EXCEPT ![cur] = "completed"]
    /\ evidence' = [evidence EXCEPT ![cur] = new[cur]]
    /\ Goto("finish")
    /\ UNCHANGED <<canonical, journal, base, request, transaction, crashes>>

\* RunRegistry.complete, in the session that ran the experiment.
RegistryComplete == lock = "session" /\ CloseEntry

\* reconcile_completed_summary, in recovery, proves the canonical files first.
RegistryReconcile ==
    /\ lock = "recovery"
    /\ cur \in summaries /\ book = new[cur].book /\ ledger = new[cur].ledger
    /\ CloseEntry

MarkRegistryCompleted ==
    /\ pc = "finish"
    /\ status[cur] = "completed" /\ evidence[cur] = new[cur]
    /\ book = new[cur].book /\ ledger = new[cur].ledger /\ cur \in summaries
    /\ phase' = [phase EXCEPT ![cur] = "completed"]
    /\ IF lock = "recovery" THEN pc' = "scan" /\ cur' = NoRun /\ UNCHANGED <<lock, cand>>
       ELSE Release
    /\ UNCHANGED <<canonical, journal, registry, dir, new, staged, crashes>>

-----------------------------------------------------------------------------
\* recovery.reconcile_late_crashes, started by the operator or at start-up.

RecoveryStart ==
    /\ lock = "free"
    /\ lock' = "recovery" /\ pc' = "scan"
    /\ UNCHANGED <<cur, cand, canonical, journal, registry, transaction, crashes>>

Handle(r, where) == pc' = where /\ cur' = r /\ UNCHANGED <<lock, cand>>

\* Mutant: a precommitted attempt may be aborted while canonical is BASE.
MayAbortPrecommitted(r) ==
    /\ r \in InProgress /\ dir[r] = "manifest"
    /\ phase[r] \in {"staging", "precommitted", "canonical_committed", "aborted"}
    /\ AtBase(r)

\* Mutant: an abort that died before the registry is not taken up again.
MayAbortStaging(r) ==
    /\ r \in InProgress /\ dir[r] = "manifest" /\ phase[r] = "staging"
    /\ AtBase(r) /\ r \notin summaries

\* RunTransaction.recover of an attempt that never became durable.
MayAbortManifest(r) ==
    /\ r \in InProgress /\ dir[r] = "manifest"
    /\ phase[r] \in {"staging", "aborted"}
    /\ AtBase(r) /\ (phase[r] = "staging" => r \notin summaries)

RecoverStaging(r) ==
    /\ pc = "scan"
    /\ MayAbortManifest(r)
    /\ phase' = [phase EXCEPT ![r] = "aborted"]
    /\ Handle(r, "abort")
    /\ UNCHANGED <<canonical, journal, registry, dir, new, staged, crashes>>

\* The crash came before the manifest: rmdir of the directory, which must be
\* empty, then abort.
MayAbortBare(r) ==
    /\ r \in InProgress /\ dir[r] \in {"none", "empty"}
    /\ AtBase(r) /\ r \notin summaries

RecoverUnmanifested(r) ==
    /\ pc = "scan"
    /\ MayAbortBare(r)
    /\ dir' = [dir EXCEPT ![r] = "none"]
    /\ Handle(r, "abort")
    /\ UNCHANGED <<canonical, journal, registry, phase, new, staged, crashes>>

\* Mutant: the death between the registry and the manifest is forgotten.
MayRollForwardOpen(r) ==
    /\ dir[r] = "manifest" /\ r \in InProgress
    /\ phase[r] \in {"precommitted", "canonical_committed", "completed"}

\* A precommitted attempt is rolled forward, whatever it had reached; one the
\* registry has completed already only needs its manifest finished, and comes
\* after every in_progress entry.
MayRollForward(r) ==
    /\ dir[r] = "manifest"
    /\ \/ /\ r \in InProgress
          /\ phase[r] \in {"precommitted", "canonical_committed", "completed"}
       \/ /\ InProgress = {}
          /\ status[r] = "completed" /\ phase[r] = "canonical_committed"

RecoverCommitted(r) ==
    /\ pc = "scan"
    /\ MayRollForward(r)
    /\ Handle(r, "commit")
    /\ UNCHANGED <<canonical, journal, registry, transaction, crashes>>

\* _finalize_terminal_transaction_manifests: history that needs no work.
HistoryValid(r) ==
    dir[r] = "none" \/
    /\ dir[r] = "manifest"
    /\ \/ status[r] = "completed" /\ phase[r] = "completed" /\ r \in summaries
       \/ status[r] = "aborted" /\ phase[r] = "aborted" /\ r \notin summaries

RecoveryEnds ==
    /\ pc = "scan"
    /\ InProgress = {}
    /\ \A r \in Runs : HistoryValid(r)
    /\ Release
    /\ UNCHANGED <<canonical, journal, registry, transaction, crashes>>

\* ReconciliationError: an in_progress entry no branch admits, a history entry
\* that is not valid, or a roll-forward whose preflight fails.
Unrecoverable(r) ==
    \/ r \in InProgress /\ ~MayAbortManifest(r) /\ ~MayAbortBare(r) /\ ~MayRollForward(r)
    \/ InProgress = {} /\ ~HistoryValid(r) /\ ~MayRollForward(r)

RecoveryRefuses ==
    /\ \/ pc = "scan" /\ \E r \in Runs : Unrecoverable(r) /\ cur' = r
       \/ pc = "commit" /\ ~Preflight(cur) /\ UNCHANGED cur
    /\ pc' = "refused"
    /\ UNCHANGED <<lock, cand, canonical, journal, registry, transaction, crashes>>

RefusalReported ==
    /\ pc = "refused"
    /\ Release
    /\ UNCHANGED <<canonical, journal, registry, transaction, crashes>>

-----------------------------------------------------------------------------
\* The other writers of the canonical book, under the same lock.

PublishBook(who, content) ==
    /\ lock' = who /\ pc' = "save" /\ cand' = content /\ cur' = NoRun
    /\ UNCHANGED <<canonical, registry, transaction, crashes>>

\* Mutant: an admission that does not look for unresolved runs.
AdmitUngated(a) ==
    /\ lock = "free"
    /\ LoadBook
    /\ a \notin book
    /\ PublishBook("admission", book \cup {a})

\* economic_admission.admit_paper_ticket passes the gates of a session start
\* and needs an existing book.
AdmitTicket(a) ==
    /\ lock = "free"
    /\ Settled
    /\ LoadBook
    /\ a \notin book
    /\ PublishBook("admission", book \cup {a})

\* ContinuousSessionCoordinator._settle takes the lock and no gate; it saves
\* when an open ticket was settled.
SettleTickets(s) ==
    /\ lock = "free"
    /\ LoadBook
    /\ s \notin book /\ book \cap (Runs \cup Admissions) # {}
    /\ PublishBook("settlement", book \cup {s})

\* The process of the holder dies, or an exception leaves its `with` block
\* where the code handles none: the lock is released, nothing durable changes.
Crash ==
    /\ lock # "free"
    /\ crashes < MaxCrashes
    /\ crashes' = crashes + 1
    /\ Release
    /\ UNCHANGED <<canonical, journal, registry, transaction>>

\* The steps of whoever holds the lock, deaths excepted.
HolderStep ==
    \/ SavePrepare \/ SaveReplace \/ SaveCommit
    \/ RegistryBegin \/ RepeatRefused
    \/ StartMkdir \/ StartTemporary \/ StartManifest \/ StartRaises
    \/ StageOutputs \/ WorkRaises \/ RegistryAbort \/ StageSummary \/ Precommit
    \/ CommitPreflight \/ PromoteRecover \/ PromoteSkip
    \/ PromotePrepare \/ PromoteReplace \/ PromoteCommit
    \/ PromoteLedger \/ PromoteSummary \/ MarkCanonicalCommitted
    \/ RegistryComplete \/ RegistryReconcile \/ MarkRegistryCompleted
    \/ \E r \in Runs :
        RecoverStaging(r) \/ RecoverUnmanifested(r) \/ RecoverCommitted(r)
    \/ RecoveryEnds \/ RecoveryRefuses \/ RefusalReported

Next ==
    \/ \E r \in Runs, d \in Datasets, rep \in BOOLEAN : SessionStart(r, d, rep)
    \/ \E a \in Admissions : AdmitTicket(a)
    \/ \E s \in Settlements : SettleTickets(s)
    \/ RecoveryStart
    \/ HolderStep
    \/ ReaderLoad
    \/ Crash

Spec == Init /\ [][Next]_vars

\* A holder of the lock runs on or dies, and recovery is run again and again
\* (the product runs it at start-up and offers it as repair-workspace).
Fairness == WF_vars(HolderStep) /\ WF_vars(RecoveryStart)

FairSpec == Spec /\ Fairness

-----------------------------------------------------------------------------
\* Properties.

Phases == {"none", "staging", "precommitted", "canonical_committed", "completed", "aborted"}
Positions == {"idle", "save", "save_replace", "save_commit", "begin", "start", "work",
              "staged", "precommit", "abort", "commit", "promote", "promote_replace",
              "promote_commit", "ledger", "summary", "mark", "complete", "finish",
              "scan", "refused"}
States == [book : (SUBSET Effects) \cup {Absent}, ledger : SUBSET Effects]
Generations == [gen : Nat, sha : (SUBSET Effects) \cup {Absent}]

\* Every variable holds a value of its kind, and somebody stands inside a
\* handler exactly while WorkspaceEconomicLock is held.
TypeOK ==
    /\ book \in (SUBSET Effects) \cup {Absent} /\ ledger \in SUBSET Effects
    /\ journal \in [last : Nat, committed : Generations, pending : Generations,
                    readable : BOOLEAN]
    /\ summaries \in SUBSET Runs
    /\ status \in [Runs -> {"none", "in_progress", "completed", "aborted"}]
    /\ base \in [Runs -> States] /\ evidence \in [Runs -> States]
    /\ request \in [Runs -> [dataset : Datasets, repeat : BOOLEAN]]
    /\ dir \in [Runs -> {"none", "empty", "litter", "manifest"}]
    /\ phase \in [Runs -> Phases] /\ new \in [Runs -> States]
    /\ staged \in [Runs -> [outputs : States, summary : BOOLEAN]]
    /\ lock \in {"free", "session", "recovery", "admission", "settlement"}
    /\ pc \in Positions /\ cur \in Runs \cup {NoRun} /\ cand \in SUBSET Effects
    /\ crashes \in 0 .. MaxCrashes
    /\ (lock = "free") = (pc = "idle")

Unfinished(r) ==
    \/ status[r] = "in_progress"
    \/ dir[r] = "manifest" /\ phase[r] \notin {"completed", "aborted"}

\* The gates of a session, of RunRegistry.begin and of recovery let one run at
\* a time be open, across crashes: BASE hashes of two runs never compete.
AtMostOneUnfinished ==
    \A q, r \in Runs : Unfinished(q) /\ Unfinished(r) => q = r

\* A run the registry calls completed has its summary and is in the canonical
\* book and ledger with everything its manifest names, for good.
CompletedMeansApplied ==
    \A r \in Runs : status[r] = "completed" =>
        /\ r \in summaries
        /\ evidence[r] = new[r]
        /\ book # Absent /\ new[r].book \subseteq book
        /\ new[r].ledger \subseteq ledger

\* A run the registry calls aborted left nothing behind, and nothing it staged
\* is promoted afterwards.
AbortedLeavesNoTrace ==
    \A r \in Runs : status[r] = "aborted" =>
        /\ r \notin summaries
        /\ book = Absent \/ r \notin book
        /\ r \notin ledger

\* The same experiment is not counted twice behind the operator's back, not
\* even when the first run is completed by recovery: one of any two completed
\* runs of a dataset asked for allow_repeat.
NoSilentRepeat ==
    \A q, r \in Runs :
        /\ q # r /\ status[q] = "completed" /\ status[r] = "completed"
        /\ request[q].dataset = request[r].dataset
        => request[q].repeat \/ request[r].repeat

\* Wherever a save or a promotion is cut short, the book at the canonical path
\* is one its journal admits.
BookStaysLoadable == book # Absent => Verifies(journal, book)

\* No interleaving of runs, admissions, settlements, crashes and recovery takes
\* an effect out of the canonical files, or reopens a run that was closed.
NothingIsUndone ==
    [][/\ book # Absent => book' # Absent /\ book \subseteq book'
       /\ ledger \subseteq ledger' /\ summaries \subseteq summaries'
       /\ \A r \in Runs :
            status[r] \in {"completed", "aborted"} => status'[r] = status[r]]_vars

\* Before the precommitted manifest is durable nothing canonical may move: the
\* attempt can still be aborted.  (Every writer gated.)
CanonicalIsBaseUntilPrecommit ==
    \A r \in Runs :
        status[r] = "in_progress" /\ phase[r] \in {"none", "staging", "aborted"}
            => AtBase(r) /\ r \notin summaries

\* After it, each canonical file is BASE or NEW, and they change in the order
\* book, ledger, summary: a summary is never seen before what it reports.
\* (Every writer gated.)
PromotionOrder ==
    \A r \in Runs : phase[r] \in {"precommitted", "canonical_committed"} =>
        /\ book \in {base[r].book, new[r].book}
        /\ ledger \in {base[r].ledger, new[r].ledger}
        /\ ledger # base[r].ledger => book = new[r].book
        /\ r \in summaries => book = new[r].book /\ ledger = new[r].ledger
        /\ phase[r] = "canonical_committed" => r \in summaries

\* An attempt whose manifest is durable is never refused: recovery can always
\* abort it or roll it forward, at whatever step it, or an earlier recovery,
\* died.  (Every writer gated.)
ManifestedRunsRecover == pc = "refused" => dir[cur] # "manifest"

\* A durable precommit is a promise: however often the session and recovery
\* die, the run is completed in the end.  (Every writer gated.)
PrecommittedIsCompleted ==
    \A r \in Runs : phase[r] = "precommitted" ~>
        (status[r] = "completed" /\ phase[r] = "completed")

\* And a staged attempt ends one way or the other, with registry and manifest
\* in agreement.  (Every writer gated.)
StagedIsClosed ==
    \A r \in Runs : phase[r] = "staging" ~>
        (status[r] = phase[r] /\ phase[r] \in {"completed", "aborted"})

\* The abstract view: a run is committed once its precommitted manifest is
\* durable, and the NEW files it names count as published from that moment.
Outcome(r) ==
    IF phase[r] \in {"precommitted", "canonical_committed", "completed"} THEN "committed"
    ELSE IF status[r] = "in_progress" THEN "open" ELSE status[r]

RollingForward == {r \in Runs : phase[r] \in {"precommitted", "canonical_committed"}}

PublishedBook ==
    IF RollingForward # {} THEN new[CHOOSE r \in RollingForward : TRUE].book
    ELSE IF book = Absent THEN {} ELSE book

PublishedLedger ==
    IF RollingForward # {} THEN new[CHOOSE r \in RollingForward : TRUE].ledger ELSE ledger

Abstract == INSTANCE EconomicCommit WITH
    outcome <- [r \in Runs |-> Outcome(r)],
    book <- PublishedBook,
    ledger <- PublishedLedger

\* Promotion file by file, the witness journal, crashes and recovery together
\* implement one atomic commit per run.  (Every writer gated.)
ImplementsEconomicCommit == Abstract!Spec

\* session.py, on an exception of start: "Do not turn an ordinary start failure
\* into an in-progress workspace that falsely requires crash recovery", and
\* RUN_TRANSACTION_RECOVERY.md on a run without a manifest: recovery marks it
\* aborted.  So an attempt that changed nothing never wedges the workspace.
UnmanifestedRunsRecover == pc = "refused" => dir[cur] = "manifest"

\* economic_admission.py: "No independent PAPER writer may advance the
\* canonical book while an older transaction is unresolved."
NoWriterOvertakesARun ==
    lock \in {"admission", "settlement"} /\ pc = "save" => InProgress = {}

=============================================================================
