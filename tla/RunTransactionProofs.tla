------------------------ MODULE RunTransactionProofs ------------------------
(***************************************************************************)
(* Machine-checked proofs about RunTransaction, for any number of runs,    *)
(* datasets, admissions, settlements and crashes.  The inductive invariant *)
(* follows one attempt: what its registry entry and its manifest may say   *)
(* together (Lives), what the manifest names and has been applied (Planned,*)
(* Applied), that only a committed attempt leaves a trace (Traced), and    *)
(* where the holder of the lock stands with all of that (Placed,           *)
(* Publishing, Working, Gated).  Where no settlement overtakes a run       *)
(* (EveryWriterGated), the files of a run are BASE or NEW in the order of  *)
(* promotion, and the steps are those of EconomicCommit.                   *)
(***************************************************************************)
EXTENDS RunTransaction, TLAPS

Committed == {"precommitted", "canonical_committed", "completed"}
Published == {"canonical_committed", "completed"}

Saves == {"save", "save_replace", "save_commit"}
Promotes == {"commit", "promote", "promote_replace", "promote_commit", "ledger",
             "summary", "mark"}
Closes == {"complete", "finish"}

\* Where each holder of the lock may stand, and who works on a run.
Placed ==
    /\ lock = "session" => pc \notin {"idle", "scan"} /\ cur \in Runs
    /\ lock = "recovery" =>
         /\ pc \in {"scan", "abort", "refused"} \cup Promotes \cup Closes
         /\ pc # "scan" => cur \in Runs
    /\ lock \in {"admission", "settlement"} => pc \in Saves

\* A journal its readers accept, for a book it committed or is publishing.
Generation(g) == g = NoGeneration \/ (g.gen > 0 /\ g.sha # Absent)
Fits(j, file) ==
    /\ j.readable
    /\ Generation(j.committed) /\ Generation(j.pending)
    /\ \/ file = j.committed.sha
       \/ j.pending # NoGeneration /\ file = j.pending.sha
Journaled == Fits(journal, book)

\* The independent writers the holder of the lock writes for.
Writers == IF lock = "settlement" THEN Settlements ELSE Admissions

\* What the holder is about to put at the canonical path: the first book, the
\* book with one ticket more, or what the manifest of its run names.
Publishing ==
    /\ pc = "save" => journal.pending = NoGeneration
    /\ pc \in {"save", "save_replace"} =>
         IF lock = "session" THEN book = Absent /\ cand = {}
         ELSE book # Absent /\ \E x \in Writers : x \notin book /\ cand = book \cup {x}
    /\ pc \in {"save_replace", "save_commit"} =>
         journal.pending # NoGeneration /\ journal.pending.sha = cand
    /\ pc = "save_commit" => book = cand
    /\ pc \in {"promote_replace", "promote_commit"} =>
         journal.pending # NoGeneration /\ journal.pending.sha = new[cur].book
    /\ pc = "promote_replace" => book = base[cur].book
    /\ pc = "promote_commit" => book = new[cur].book

\* What registry and manifest may say of one run.
Life(r) ==
    /\ status[r] = "none" => dir[r] = "none"
    /\ status[r] # "none" => base[r].book # Absent
    /\ (phase[r] = "none") = (dir[r] # "manifest")
    /\ status[r] = "in_progress" => phase[r] # "completed"
    /\ status[r] = "completed" => phase[r] \in Published /\ evidence[r] = new[r]
    /\ status[r] = "aborted" => phase[r] \in {"none", "aborted"}
Lives == \A r \in Runs : Life(r)

\* The staged files of a run are its BASE, with its own effects or without.
Staged(r) ==
    /\ staged[r].outputs.book \in {base[r].book, base[r].book \cup {r}}
    /\ staged[r].outputs.ledger \in {base[r].ledger, base[r].ledger \cup {r}}

\* A precommitted manifest names what is staged, and nothing stages it anew.
Plan(r) ==
    phase[r] \in Committed =>
        /\ status[r] # "none"
        /\ Staged(r) /\ new[r] = staged[r].outputs /\ staged[r].summary
Planned == \A r \in Runs : Plan(r)

\* Only a run that precommitted has an effect on the canonical files.
Trace(r) ==
    r \in summaries \/ r \in ledger \/ (book # Absent /\ r \in book)
        => phase[r] \in Committed
Traced == \A r \in Runs : Trace(r)

\* What a manifest calls committed is in the canonical files.
InPlace(r) ==
    /\ r \in summaries
    /\ book # Absent /\ new[r].book \subseteq book
    /\ new[r].ledger \subseteq ledger
Applied == \A r \in Runs : phase[r] \in Published => InPlace(r)

\* How far the run of the holder is, at each of its steps.
Working ==
    /\ pc = "begin" => book # Absent
    /\ pc = "start" => status[cur] = "in_progress" /\ dir[cur] # "manifest"
    /\ pc \in {"work", "staged", "precommit"} =>
         status[cur] = "in_progress" /\ phase[cur] = "staging"
    /\ pc \in {"staged", "precommit"} => Staged(cur)
    /\ pc = "precommit" => staged[cur].summary
    /\ pc = "abort" => phase[cur] \in {"none", "aborted"}
    /\ pc \in Promotes =>
         /\ status[cur] \in {"in_progress", "completed"}
         /\ phase[cur] \in {"precommitted", "canonical_committed"}
    /\ pc \in {"ledger", "summary", "mark"} => book = new[cur].book
    /\ pc \in {"summary", "mark"} => ledger = new[cur].ledger
    /\ pc = "mark" => cur \in summaries
    /\ pc \in Closes => phase[cur] = "canonical_committed"

\* Who passed the gates finds no run unfinished until it has begun its own.
Gated ==
    /\ pc \in Saves \cup {"begin"} /\ lock # "settlement" => \A r \in Runs : ~Unfinished(r)
    /\ pc \in Saves \cup {"begin"} /\ lock = "session" => status[cur] = "none"

\* A run that is open beside a completed one of its dataset asked to repeat it.
Repeats ==
    \A q, r \in Runs :
        /\ q # r /\ status[q] = "completed" /\ status[r] \in {"in_progress", "completed"}
        /\ request[q].dataset = request[r].dataset
        => request[q].repeat \/ request[r].repeat

Standing == Placed /\ Publishing /\ Working /\ Gated
Records == Journaled /\ Lives /\ Planned /\ Traced /\ Applied /\ AtMostOneUnfinished /\ Repeats
IInv == TypeOK /\ Standing /\ Records

-----------------------------------------------------------------------------
(* Types.                                                                  *)

Contents == SUBSET Effects
CanonicalTyped ==
    /\ book \in Contents \cup {Absent} /\ ledger \in Contents
    /\ summaries \in SUBSET Runs /\ cand \in Contents
Journals == [last : Nat, committed : Generations, pending : Generations, readable : BOOLEAN]
JournalTyped == journal \in Journals
RegistryTyped ==
    /\ status \in [Runs -> {"none", "in_progress", "completed", "aborted"}]
    /\ base \in [Runs -> States] /\ evidence \in [Runs -> States]
    /\ request \in [Runs -> [dataset : Datasets, repeat : BOOLEAN]]
TransactionTyped ==
    /\ dir \in [Runs -> {"none", "empty", "litter", "manifest"}]
    /\ phase \in [Runs -> Phases] /\ new \in [Runs -> States]
    /\ staged \in [Runs -> [outputs : States, summary : BOOLEAN]]
ControlTyped ==
    /\ lock \in {"free", "session", "recovery", "admission", "settlement"}
    /\ pc \in Positions /\ cur \in Runs \cup {NoRun}
    /\ crashes \in 0 .. MaxCrashes
    /\ (lock = "free") = (pc = "idle")

LEMMA Types ==
    TypeOK <=> /\ CanonicalTyped /\ JournalTyped /\ RegistryTyped
               /\ TransactionTyped /\ ControlTyped
BY DEF TypeOK, CanonicalTyped, JournalTyped, RegistryTyped, TransactionTyped,
       ControlTyped, Contents, Journals

\* No content is the mark of a missing file.
LEMMA ContentsArePresent == \A b \in Contents : b # Absent
BY ConstantsAssumption DEF Contents, Effects

\* A pair of a book and a ledger.
LEMMA StateType ==
    ASSUME NEW b, NEW l
    PROVE  /\ State(b, l).book = b /\ State(b, l).ledger = l
           /\ b \in Contents \cup {Absent} /\ l \in Contents => State(b, l) \in States
BY DEF State, States, Contents

\* Whoever works inside a run has one.
LEMMA HasRun ==
    ASSUME ControlTyped, Placed,
           pc \in {"begin", "start", "work", "staged", "precommit", "abort", "refused"}
                    \cup Promotes \cup Closes
    PROVE  cur \in Runs /\ lock \in {"session", "recovery"}
BY DEF ControlTyped, Placed, Promotes, Closes, Saves

-----------------------------------------------------------------------------
(* What each step leaves alone.                                            *)

\* The steps that write the registry, the transaction directories or the
\* canonical files; all others only move the holder or the journal.
Acting ==
    \/ SaveReplace \/ RegistryBegin
    \/ \E r \in Runs, d \in Datasets, rep \in BOOLEAN : SessionStart(r, d, rep)
    \/ StartMkdir \/ StartTemporary \/ StartManifest
    \/ StageOutputs \/ WorkRaises \/ RegistryAbort \/ StageSummary \/ Precommit
    \/ PromoteReplace \/ PromoteLedger \/ PromoteSummary
    \/ MarkCanonicalCommitted \/ (CloseEntry /\ (RegistryComplete \/ RegistryReconcile))
    \/ MarkRegistryCompleted
    \/ \E r \in Runs : RecoverStaging(r) \/ RecoverUnmanifested(r)

LEMMA OthersOnlyMove ==
    ASSUME [Next]_vars
    PROVE  Acting \/ UNCHANGED <<canonical, registry, transaction>>
<1> USE DEF canonical, registry, transaction
<1> DEFINE Still == UNCHANGED <<canonical, registry, transaction>>
<1>1. CASE \/ SavePrepare \/ SaveCommit \/ ReaderLoad \/ PromoteRecover \/ PromotePrepare
           \/ PromoteCommit
  BY <1>1 DEF SavePrepare, SaveCommit, ReaderLoad, PromoteRecover, PromotePrepare,
              PromoteCommit
<1>2. CASE \/ RepeatRefused \/ StartRaises \/ CommitPreflight \/ PromoteSkip
           \/ RecoveryStart \/ RecoveryEnds \/ RecoveryRefuses \/ RefusalReported \/ Crash
  BY <1>2 DEF RepeatRefused, StartRaises, CommitPreflight, PromoteSkip, RecoveryStart,
              RecoveryEnds, RecoveryRefuses, RefusalReported, Crash
<1>3. CASE \E r \in Runs : RecoverCommitted(r)
  BY <1>3 DEF RecoverCommitted
<1>4. CASE (\E a \in Admissions : AdmitTicket(a)) \/ (\E s \in Settlements : SettleTickets(s))
  BY <1>4 DEF AdmitTicket, SettleTickets, PublishBook
<1>5. CASE UNCHANGED vars
  BY <1>5 DEF vars
<1>6. CASE RegistryComplete \/ RegistryReconcile
  BY <1>6 DEF Acting, RegistryComplete, RegistryReconcile
<1> QED
  BY <1>1, <1>2, <1>3, <1>4, <1>5, <1>6 DEF Next, HolderStep, Acting

-----------------------------------------------------------------------------
(* Every step keeps the types.                                             *)

LEMMA CanonicalTypedKept ==
    ASSUME CanonicalTyped, TransactionTyped, ControlTyped, Placed, [Next]_vars
    PROVE  CanonicalTyped'
<1> USE DEF canonical, control, Goto, Release, Handle
<1>0. CASE UNCHANGED <<canonical, cand>>
  BY <1>0 DEF CanonicalTyped
<1>1. CASE UNCHANGED canonical /\ cand' = {}
  BY <1>1 DEF CanonicalTyped, Contents
<1>2. CASE SaveReplace
  BY <1>2 DEF SaveReplace, CanonicalTyped
<1>3. ASSUME PromoteReplace \/ PromoteLedger \/ PromoteSummary
      PROVE  CanonicalTyped'
  <2>1. cur \in Runs
    BY <1>3, HasRun DEF PromoteReplace, PromoteLedger, PromoteSummary, Promotes
  <2>2. staged[cur].outputs \in States
    BY <2>1 DEF TransactionTyped
  <2>3. /\ staged[cur].outputs.book \in Contents \cup {Absent}
        /\ staged[cur].outputs.ledger \in Contents
    BY <2>2 DEF States, Contents
  <2>4. CASE PromoteReplace
    BY <2>3, <2>4 DEF PromoteReplace, CanonicalTyped
  <2>5. CASE PromoteLedger
    BY <2>3, <2>5 DEF PromoteLedger, CanonicalTyped
  <2>6. CASE PromoteSummary
    BY <2>1, <2>6 DEF PromoteSummary, CanonicalTyped
  <2> QED
    BY <1>3, <2>4, <2>5, <2>6
<1>4. ASSUME NEW a \in Admissions \cup Settlements,
             AdmitTicket(a) \/ SettleTickets(a)
      PROVE  CanonicalTyped'
  <2>1. cand' = book \cup {a} /\ UNCHANGED canonical
    BY <1>4 DEF AdmitTicket, SettleTickets, PublishBook
  <2>2. book # Absent
    BY <1>4 DEF AdmitTicket, SettleTickets, LoadBook, Verifies
  <2> QED
    BY <2>1, <2>2 DEF CanonicalTyped, Contents, Effects
<1>5. CASE \E r \in Runs, d \in Datasets, rep \in BOOLEAN : SessionStart(r, d, rep)
  BY <1>1, <1>5 DEF SessionStart
<1>6. CASE \/ RepeatRefused \/ RecoveryEnds \/ RefusalReported \/ Crash
  BY <1>1, <1>6 DEF RepeatRefused, RecoveryEnds, RefusalReported, Crash
<1>7. CASE SaveCommit \/ RegistryAbort \/ MarkRegistryCompleted
  BY <1>0, <1>1, <1>7 DEF SaveCommit, RegistryAbort, MarkRegistryCompleted
<1>8. CASE \/ SavePrepare \/ ReaderLoad \/ RegistryBegin \/ StartMkdir \/ StartTemporary
           \/ StartManifest \/ StartRaises \/ StageOutputs \/ WorkRaises \/ StageSummary
           \/ Precommit
  BY <1>0, <1>8
  DEF SavePrepare, ReaderLoad, RegistryBegin, StartMkdir, StartTemporary,
      StartManifest, StartRaises, StageOutputs, WorkRaises, StageSummary, Precommit
<1>9. CASE \/ CommitPreflight \/ PromoteRecover \/ PromoteSkip \/ PromotePrepare
           \/ PromoteCommit \/ MarkCanonicalCommitted \/ RegistryComplete
           \/ RegistryReconcile \/ RecoveryStart \/ RecoveryRefuses
  BY <1>0, <1>9
  DEF CommitPreflight, PromoteRecover, PromoteSkip, PromotePrepare, PromoteCommit,
      MarkCanonicalCommitted, RegistryComplete, RegistryReconcile, CloseEntry,
      RecoveryStart, RecoveryRefuses
<1>10. CASE \E r \in Runs :
              RecoverStaging(r) \/ RecoverUnmanifested(r) \/ RecoverCommitted(r)
  BY <1>0, <1>10 DEF RecoverStaging, RecoverUnmanifested, RecoverCommitted
<1>11. CASE UNCHANGED vars
  BY <1>0, <1>11 DEF vars
<1> QED
  BY <1>2, <1>3, <1>4, <1>5, <1>6, <1>7, <1>8, <1>9, <1>10, <1>11
  DEF Next, HolderStep

LEMMA JournalTypedKept ==
    ASSUME CanonicalTyped, JournalTyped, TransactionTyped, ControlTyped, Placed,
           [Next]_vars
    PROVE  JournalTyped'
<1> USE DEF canonical
<1>0. CASE UNCHANGED journal
  BY <1>0 DEF JournalTyped
<1>1. ASSUME NEW b \in Contents \cup {Absent},
             journal' = AppendPrepare(journal, NextGeneration(journal, b))
      PROVE  JournalTyped'
  <2> DEFINE g == NextGeneration(journal, b)
  <2>1. g \in Generations /\ g.gen \in Nat
    BY DEF NextGeneration, Generations, JournalTyped, Journals, Contents
  <2> HIDE DEF g
  <2>2. journal' = AppendPrepare(journal, g)
    BY <1>1 DEF g
  <2> QED
    BY <2>1, <2>2 DEF AppendPrepare, JournalTyped, Journals
<1>2. CASE journal' = AppendCommit(journal, journal.pending)
  <2>1. NoGeneration \in Generations
    BY DEF NoGeneration, Generations
  <2> QED
    BY <1>2, <2>1 DEF AppendCommit, JournalTyped, Journals
<1>3. CASE journal' = Recovered(journal, book)
  <2>1. NoGeneration \in Generations
    BY DEF NoGeneration, Generations
  <2>2. AppendAbort(journal, journal.pending) \in Journals
    BY <2>1 DEF AppendAbort, JournalTyped, Journals
  <2> QED
    BY <1>0, <1>2, <1>3, <2>2 DEF Recovered, JournalTyped, Journals
<1>4. CASE SavePrepare
  BY <1>1, <1>4 DEF SavePrepare, CanonicalTyped
<1>5. CASE PromotePrepare
  <2>1. new[cur] \in States
    BY <1>5, HasRun DEF PromotePrepare, Promotes, TransactionTyped
  <2> QED
    BY <1>1, <1>5, <2>1 DEF PromotePrepare, States, Contents
<1>6. CASE SaveCommit \/ PromoteCommit
  BY <1>2, <1>6 DEF SaveCommit, PromoteCommit
<1>7. CASE PromoteRecover \/ ReaderLoad
  BY <1>3, <1>7 DEF PromoteRecover, ReaderLoad, LoadBook
<1>8. CASE \E r \in Runs, d \in Datasets, rep \in BOOLEAN : SessionStart(r, d, rep)
  BY <1>0, <1>3, <1>8 DEF SessionStart, LoadBook
<1>9. CASE (\E a \in Admissions : AdmitTicket(a)) \/ (\E s \in Settlements : SettleTickets(s))
  BY <1>3, <1>9 DEF AdmitTicket, SettleTickets, LoadBook
<1>10. CASE \/ SaveReplace \/ RegistryBegin \/ RepeatRefused \/ StartMkdir \/ StartTemporary
            \/ StartManifest \/ StartRaises \/ StageOutputs \/ WorkRaises \/ RegistryAbort
            \/ StageSummary \/ Precommit \/ CommitPreflight \/ PromoteSkip
  BY <1>0, <1>10
  DEF SaveReplace, RegistryBegin, RepeatRefused, StartMkdir, StartTemporary,
      StartManifest, StartRaises, StageOutputs, WorkRaises, RegistryAbort,
      StageSummary, Precommit, CommitPreflight, PromoteSkip
<1>11. CASE \/ PromoteReplace \/ PromoteLedger \/ PromoteSummary \/ MarkCanonicalCommitted
            \/ RegistryComplete \/ RegistryReconcile \/ MarkRegistryCompleted
            \/ RecoveryStart \/ RecoveryEnds \/ RecoveryRefuses \/ RefusalReported \/ Crash
  BY <1>0, <1>11
  DEF PromoteReplace, PromoteLedger, PromoteSummary, MarkCanonicalCommitted,
      RegistryComplete, RegistryReconcile, CloseEntry, MarkRegistryCompleted,
      RecoveryStart, RecoveryEnds, RecoveryRefuses, RefusalReported, Crash
<1>12. CASE \E r \in Runs :
              RecoverStaging(r) \/ RecoverUnmanifested(r) \/ RecoverCommitted(r)
  BY <1>0, <1>12 DEF RecoverStaging, RecoverUnmanifested, RecoverCommitted
<1>13. CASE UNCHANGED vars
  BY <1>0, <1>13 DEF vars
<1> QED
  BY <1>4, <1>5, <1>6, <1>7, <1>8, <1>9, <1>10, <1>11, <1>12, <1>13
  DEF Next, HolderStep

LEMMA RegistryTypedKept ==
    ASSUME CanonicalTyped, RegistryTyped, TransactionTyped, ControlTyped, Placed,
           [Next]_vars
    PROVE  RegistryTyped'
<1> USE DEF canonical, registry, transaction
<1>0. CASE UNCHANGED registry
  BY <1>0 DEF RegistryTyped
<1>1. State(book, ledger) \in States
  BY StateType DEF CanonicalTyped
<1>2. CASE \E r \in Runs, d \in Datasets, rep \in BOOLEAN : SessionStart(r, d, rep)
  <2>1. PICK r \in Runs, d \in Datasets, rep \in BOOLEAN : SessionStart(r, d, rep)
    BY <1>2
  <2>2. /\ request' = [request EXCEPT ![r] = [dataset |-> d, repeat |-> rep]]
        /\ UNCHANGED <<status, base, evidence>>
    BY <2>1 DEF SessionStart
  <2> QED
    BY <2>2 DEF RegistryTyped
<1>3. CASE RegistryBegin
  BY <1>1, <1>3 DEF RegistryBegin, RegistryTyped
<1>4. CASE RegistryAbort
  BY <1>1, <1>4 DEF RegistryAbort, RegistryTyped
<1>5. CASE CloseEntry
  <2>1. new[cur] \in States
    BY <1>5, HasRun DEF CloseEntry, Closes, TransactionTyped
  <2> QED
    BY <1>5, <2>1 DEF CloseEntry, RegistryTyped
<1>6. CASE \/ SaveReplace \/ StartMkdir \/ StartTemporary \/ StartManifest
           \/ StageOutputs \/ WorkRaises \/ StageSummary \/ Precommit
           \/ PromoteReplace \/ PromoteLedger \/ PromoteSummary
           \/ MarkCanonicalCommitted \/ MarkRegistryCompleted
           \/ \E r \in Runs : RecoverStaging(r) \/ RecoverUnmanifested(r)
  BY <1>0, <1>6
  DEF SaveReplace, StartMkdir, StartTemporary, StartManifest, StageOutputs, WorkRaises,
      StageSummary, Precommit, PromoteReplace, PromoteLedger, PromoteSummary,
      MarkCanonicalCommitted, MarkRegistryCompleted, RecoverStaging, RecoverUnmanifested
<1> QED
  BY <1>0, <1>2, <1>3, <1>4, <1>5, <1>6, OthersOnlyMove DEF Acting

LEMMA TransactionTypedKept ==
    ASSUME CanonicalTyped, TransactionTyped, ControlTyped, Placed, Working, Lives,
           [Next]_vars
    PROVE  TransactionTyped'
<1> USE DEF canonical, registry, transaction
<1>0. CASE UNCHANGED transaction
  BY <1>0 DEF TransactionTyped
<1>1. CASE StageOutputs
  <2>1. cur \in Runs
    BY <1>1, HasRun DEF StageOutputs
  <2>2. PICK b \in {book, book \cup {cur}}, l \in {ledger, ledger \cup {cur}} :
          staged' = [staged EXCEPT ![cur].outputs = State(b, l)]
    BY <1>1 DEF StageOutputs
  <2>3. State(b, l) \in States
    <3>1. l \in Contents
      BY <2>1, <2>2 DEF CanonicalTyped, Contents, Effects
    <3>2. book # Absent
      BY <1>1, <2>1 DEF StageOutputs, AtBase, Working, Lives, Life
    <3>3. b \in Contents
      BY <2>1, <2>2, <3>2 DEF CanonicalTyped, Contents, Effects
    <3> QED
      BY <3>1, <3>3, StateType
  <2> HIDE DEF State
  <2> QED
    BY <1>1, <2>2, <2>3 DEF StageOutputs, TransactionTyped
<1>2. CASE StageSummary
  BY <1>2 DEF StageSummary, TransactionTyped
<1>3. CASE Precommit
  <2>1. staged[cur].outputs \in States
    BY <1>3, HasRun DEF Precommit, TransactionTyped
  <2> QED
    BY <1>3, <2>1 DEF Precommit, TransactionTyped, Phases
<1>4. CASE \/ StartMkdir \/ StartTemporary \/ StartManifest \/ WorkRaises
           \/ MarkCanonicalCommitted \/ MarkRegistryCompleted
  BY <1>4 DEF StartMkdir, StartTemporary, StartManifest, WorkRaises,
              MarkCanonicalCommitted, MarkRegistryCompleted, TransactionTyped, Phases
<1>5. CASE \E r \in Runs : RecoverStaging(r) \/ RecoverUnmanifested(r)
  BY <1>5 DEF RecoverStaging, RecoverUnmanifested, TransactionTyped, Phases
<1>6. CASE \/ SaveReplace \/ RegistryBegin \/ RegistryAbort \/ CloseEntry
           \/ PromoteReplace \/ PromoteLedger \/ PromoteSummary
           \/ \E r \in Runs, d \in Datasets, rep \in BOOLEAN : SessionStart(r, d, rep)
  BY <1>0, <1>6
  DEF SaveReplace, RegistryBegin, RegistryAbort, CloseEntry, PromoteReplace,
      PromoteLedger, PromoteSummary, SessionStart
<1> QED
  BY <1>0, <1>1, <1>2, <1>3, <1>4, <1>5, <1>6, OthersOnlyMove DEF Acting

LEMMA ControlTypedKept ==
    ASSUME ControlTyped, Placed, [Next]_vars
    PROVE  ControlTyped'
<1> USE DEF control, Goto, Release, Handle, Positions
<1>0. ASSUME pc # "idle", pc' \in Positions \ {"idle"}, UNCHANGED <<lock, crashes>>,
             cur' \in Runs \cup {NoRun}
      PROVE  ControlTyped'
  BY <1>0 DEF ControlTyped
<1>1. CASE Release /\ UNCHANGED crashes
  BY <1>1 DEF ControlTyped
<1>2. CASE Crash
  BY <1>2, ConstantsAssumption DEF Crash, ControlTyped
<1>3. CASE \E r \in Runs, d \in Datasets, rep \in BOOLEAN : SessionStart(r, d, rep)
  BY <1>3 DEF SessionStart, ControlTyped
<1>4. CASE (\E a \in Admissions : AdmitTicket(a)) \/ (\E s \in Settlements : SettleTickets(s))
  BY <1>4 DEF AdmitTicket, SettleTickets, PublishBook, ControlTyped
<1>5. CASE RecoveryStart
  BY <1>5 DEF RecoveryStart, ControlTyped
<1>6. CASE SaveCommit \/ RegistryAbort \/ MarkRegistryCompleted
  <2>1. pc # "idle" /\ UNCHANGED crashes
    BY <1>6 DEF SaveCommit, RegistryAbort, MarkRegistryCompleted
  <2>2. \/ Release
        \/ pc' \in {"begin", "scan"} /\ UNCHANGED lock /\ cur' \in {cur, NoRun}
    BY <1>6 DEF SaveCommit, RegistryAbort, MarkRegistryCompleted
  <2> QED
    BY <1>0, <1>1, <2>1, <2>2 DEF ControlTyped
<1>7. CASE \/ SavePrepare \/ SaveReplace \/ RegistryBegin
           \/ StartMkdir \/ StartTemporary \/ StartManifest \/ StartRaises
           \/ StageOutputs \/ WorkRaises \/ StageSummary \/ Precommit
  BY <1>0, <1>7
  DEF SavePrepare, SaveReplace, RegistryBegin, StartMkdir, StartTemporary,
      StartManifest, StartRaises, StageOutputs, WorkRaises, StageSummary, Precommit,
      ControlTyped
<1>8. CASE \/ CommitPreflight \/ PromoteRecover \/ PromoteSkip \/ PromotePrepare
           \/ PromoteReplace \/ PromoteCommit \/ PromoteLedger \/ PromoteSummary
  BY <1>0, <1>8
  DEF CommitPreflight, PromoteRecover, PromoteSkip, PromotePrepare, PromoteReplace,
      PromoteCommit, PromoteLedger, PromoteSummary, ControlTyped
<1>9. CASE MarkCanonicalCommitted \/ RegistryComplete \/ RegistryReconcile
  BY <1>0, <1>9
  DEF MarkCanonicalCommitted, RegistryComplete, RegistryReconcile, CloseEntry,
      ControlTyped
<1>10. CASE RepeatRefused \/ RecoveryEnds \/ RefusalReported
  BY <1>1, <1>10 DEF RepeatRefused, RecoveryEnds, RefusalReported
<1>11. CASE \E r \in Runs :
              RecoverStaging(r) \/ RecoverUnmanifested(r) \/ RecoverCommitted(r)
  BY <1>0, <1>11 DEF RecoverStaging, RecoverUnmanifested, RecoverCommitted
<1>12. CASE RecoveryRefuses
  BY <1>0, <1>12 DEF RecoveryRefuses, ControlTyped
<1>13. CASE ReaderLoad
  BY <1>13 DEF ReaderLoad, ControlTyped
<1>14. CASE UNCHANGED vars
  BY <1>14 DEF vars, ControlTyped
<1> QED
  BY <1>2, <1>3, <1>4, <1>5, <1>6, <1>7, <1>8, <1>9, <1>10, <1>11, <1>12, <1>13, <1>14
  DEF Next, HolderStep

LEMMA TypesKept ==
    ASSUME TypeOK, Placed, Working, Lives, [Next]_vars
    PROVE  TypeOK'
<1>1. /\ CanonicalTyped /\ JournalTyped /\ RegistryTyped /\ TransactionTyped
      /\ ControlTyped
  BY Types
<1>2. CanonicalTyped' /\ JournalTyped'
  BY <1>1, CanonicalTypedKept, JournalTypedKept
<1>3. RegistryTyped' /\ TransactionTyped' /\ ControlTyped'
  BY <1>1, RegistryTypedKept, TransactionTypedKept, ControlTypedKept
<1>4. TypeOK' <=> /\ CanonicalTyped' /\ JournalTyped' /\ RegistryTyped'
                  /\ TransactionTyped' /\ ControlTyped'
  BY DEF TypeOK, CanonicalTyped, JournalTyped, RegistryTyped, TransactionTyped,
         ControlTyped, Contents, Journals
<1> QED
  BY <1>2, <1>3, <1>4


-----------------------------------------------------------------------------
(* The witness journal.                                                    *)

\* What PREPARE, COMMIT and recovery make of a journal that fits its book.
LEMMA Prepares ==
    ASSUME NEW j \in Journals, NEW file, NEW b \in Contents,
           Fits(j, file), j.pending = NoGeneration
    PROVE  /\ Fits(AppendPrepare(j, NextGeneration(j, b)), file)
           /\ AppendPrepare(j, NextGeneration(j, b)).pending # NoGeneration
           /\ AppendPrepare(j, NextGeneration(j, b)).pending.sha = b
<1> DEFINE g == NextGeneration(j, b)
<1>1. g.gen = j.last + 1 /\ g.sha = b /\ j.last \in Nat
  BY DEF NextGeneration, Journals
<1>2. Generation(g) /\ g # NoGeneration
  BY <1>1, ContentsArePresent DEF Generation, NoGeneration
<1> HIDE DEF g
<1>3. /\ AppendPrepare(j, g).pending = g
      /\ AppendPrepare(j, g).committed = j.committed
      /\ AppendPrepare(j, g).readable
  BY <1>1 DEF AppendPrepare, Journals, Fits
<1> QED
  BY <1>1, <1>2, <1>3 DEF Fits, g

LEMMA Commits ==
    ASSUME NEW j \in Journals, NEW file, Fits(j, file), j.pending.sha = file
    PROVE  /\ Fits(AppendCommit(j, j.pending), file)
           /\ AppendCommit(j, j.pending).pending = NoGeneration
<1>1. /\ AppendCommit(j, j.pending).pending = NoGeneration
      /\ AppendCommit(j, j.pending).committed = j.pending
      /\ AppendCommit(j, j.pending).readable
  BY DEF AppendCommit, Journals, Fits
<1> QED
  BY <1>1 DEF Fits, Generation

LEMMA Recovers ==
    ASSUME NEW j \in Journals, NEW file, Fits(j, file)
    PROVE  /\ Fits(Recovered(j, file), file)
           /\ Recovered(j, file).pending = NoGeneration
<1>1. CASE j.pending = NoGeneration
  BY <1>1 DEF Recovered
<1>2. CASE j.pending # NoGeneration /\ file = j.pending.sha
  BY <1>2, Commits DEF Recovered
<1>3. CASE j.pending # NoGeneration /\ file # j.pending.sha
  <2>1. /\ AppendAbort(j, j.pending).pending = NoGeneration
        /\ AppendAbort(j, j.pending).committed = j.committed
        /\ AppendAbort(j, j.pending).readable
    BY DEF AppendAbort, Journals, Fits
  <2> QED
    BY <1>3, <2>1 DEF Recovered, Fits, Generation
<1> QED
  BY <1>1, <1>2, <1>3

\* A journal that fits a book admits it.
LEMMA FitsVerifies ==
    ASSUME NEW j \in Journals, NEW file, Fits(j, file), file # Absent
    PROVE  Verifies(j, file)
<1>1. Recoverable(j, file)
  BY DEF Fits, Recoverable
<1>2. Fits(Recovered(j, file), file) /\ Recovered(j, file).pending = NoGeneration
  BY Recovers
<1>3. Recovered(j, file).committed.sha = file
  BY <1>2 DEF Fits
<1>4. Recovered(j, file).committed.gen > 0
  BY <1>2, <1>3 DEF Fits, Generation, NoGeneration
<1> QED
  BY <1>1, <1>3, <1>4 DEF Verifies

\* A run that precommitted has its BASE and its NEW files.
LEMMA PlannedContents ==
    ASSUME TypeOK, Lives, Planned, NEW r \in Runs, phase[r] \in Committed
    PROVE  /\ base[r].book \in Contents /\ base[r].ledger \in Contents
           /\ new[r].book \in {base[r].book, base[r].book \cup {r}}
           /\ new[r].ledger \in {base[r].ledger, base[r].ledger \cup {r}}
           /\ new[r].book \in Contents /\ new[r].ledger \in Contents
           /\ staged[r].outputs = new[r] /\ staged[r].summary
           /\ status[r] # "none"
<1>1. Life(r) /\ Plan(r)
  BY DEF Lives, Planned
<1>2. /\ base[r].book \in Contents \cup {Absent} /\ base[r].ledger \in Contents
  BY DEF TypeOK, States, Contents
<1>3. status[r] # "none" /\ base[r].book # Absent
  BY <1>1 DEF Plan, Life
<1>4. /\ new[r].book \in {base[r].book, base[r].book \cup {r}}
      /\ new[r].ledger \in {base[r].ledger, base[r].ledger \cup {r}}
      /\ staged[r].outputs = new[r] /\ staged[r].summary
  BY <1>1 DEF Plan, Staged
<1> QED
  BY <1>2, <1>3, <1>4 DEF Contents, Effects

LEMMA PromotesCommitted ==
    ASSUME TypeOK, Standing, pc \in Promotes \cup Closes
    PROVE  cur \in Runs /\ phase[cur] \in Committed
<1>1. cur \in Runs
  BY HasRun, Types DEF Standing
<1> QED
  BY <1>1 DEF Standing, Working, Committed

LEMMA JournaledKept ==
    ASSUME TypeOK, Standing, Records, [Next]_vars
    PROVE  Journaled'
<1> USE DEF canonical, registry, transaction
<1>a. journal \in Journals /\ Journaled
  BY Types DEF JournalTyped, Records
<1>0. CASE UNCHANGED <<book, journal>>
  BY <1>0, <1>a DEF Journaled
<1>1. CASE journal' = Recovered(journal, book) /\ UNCHANGED book
  BY <1>1, <1>a, Recovers DEF Journaled
<1>2. CASE SavePrepare
  <2>1. /\ journal' = AppendPrepare(journal, NextGeneration(journal, cand))
        /\ UNCHANGED book
    BY <1>2 DEF SavePrepare
  <2>2. journal.pending = NoGeneration /\ cand \in Contents
    BY <1>2, Types DEF SavePrepare, HasDurableState, CanonicalTyped
  <2> QED
    BY <1>a, <2>1, <2>2, Prepares DEF Journaled
<1>3. CASE PromotePrepare
  <2>1. /\ journal' = AppendPrepare(journal, NextGeneration(journal, new[cur].book))
        /\ UNCHANGED book
    BY <1>3 DEF PromotePrepare
  <2>2. journal.pending = NoGeneration /\ pc \in Promotes
    BY <1>3 DEF PromotePrepare, Promotes
  <2>3. new[cur].book \in Contents
    BY <2>2, PromotesCommitted, PlannedContents DEF Records
  <2> QED
    BY <1>a, <2>1, <2>2, <2>3, Prepares DEF Journaled
<1>4. CASE SaveReplace
  <2>1. /\ journal.pending # NoGeneration /\ journal.pending.sha = cand
        /\ book' = cand /\ UNCHANGED journal
    BY <1>4 DEF SaveReplace, Standing, Publishing
  <2> QED
    BY <1>a, <2>1 DEF Journaled, Fits
<1>5. CASE PromoteReplace
  <2>1. /\ journal.pending # NoGeneration /\ journal.pending.sha = new[cur].book
        /\ book' = staged[cur].outputs.book /\ UNCHANGED journal
    BY <1>5 DEF PromoteReplace, Standing, Publishing
  <2>2. staged[cur].outputs = new[cur]
    BY <1>5, PromotesCommitted, PlannedContents DEF PromoteReplace, Promotes, Records
  <2> QED
    BY <1>a, <2>1, <2>2 DEF Journaled, Fits
<1>6. CASE SaveCommit \/ PromoteCommit
  <2>1. journal' = AppendCommit(journal, journal.pending) /\ UNCHANGED book
    BY <1>6 DEF SaveCommit, PromoteCommit
  <2>2. journal.pending.sha = book
    BY <1>6 DEF SaveCommit, PromoteCommit, Standing, Publishing
  <2> QED
    BY <1>a, <2>1, <2>2, Commits DEF Journaled
<1>7. CASE PromoteRecover \/ ReaderLoad
  BY <1>1, <1>7 DEF PromoteRecover, ReaderLoad, LoadBook
<1>8. CASE \E r \in Runs, d \in Datasets, rep \in BOOLEAN : SessionStart(r, d, rep)
  BY <1>0, <1>1, <1>8 DEF SessionStart, LoadBook
<1>9. CASE (\E a \in Admissions : AdmitTicket(a)) \/ (\E s \in Settlements : SettleTickets(s))
  BY <1>1, <1>9 DEF AdmitTicket, SettleTickets, LoadBook, PublishBook
<1>10. CASE \/ RegistryBegin \/ RepeatRefused \/ StartMkdir \/ StartTemporary
            \/ StartManifest \/ StartRaises \/ StageOutputs \/ WorkRaises \/ RegistryAbort
            \/ StageSummary \/ Precommit \/ CommitPreflight \/ PromoteSkip
  BY <1>0, <1>10
  DEF RegistryBegin, RepeatRefused, StartMkdir, StartTemporary,
      StartManifest, StartRaises, StageOutputs, WorkRaises, RegistryAbort,
      StageSummary, Precommit, CommitPreflight, PromoteSkip
<1>11. CASE \/ PromoteLedger \/ PromoteSummary \/ MarkCanonicalCommitted
            \/ RegistryComplete \/ RegistryReconcile \/ MarkRegistryCompleted
            \/ RecoveryStart \/ RecoveryEnds \/ RecoveryRefuses \/ RefusalReported \/ Crash
  BY <1>0, <1>11
  DEF PromoteLedger, PromoteSummary, MarkCanonicalCommitted,
      RegistryComplete, RegistryReconcile, CloseEntry, MarkRegistryCompleted,
      RecoveryStart, RecoveryEnds, RecoveryRefuses, RefusalReported, Crash
<1>12. CASE \E r \in Runs :
              RecoverStaging(r) \/ RecoverUnmanifested(r) \/ RecoverCommitted(r)
  BY <1>0, <1>12 DEF RecoverStaging, RecoverUnmanifested, RecoverCommitted
<1>13. CASE UNCHANGED vars
  BY <1>0, <1>13 DEF vars
<1> QED
  BY <1>2, <1>3, <1>4, <1>5, <1>6, <1>7, <1>8, <1>9, <1>10, <1>11, <1>12, <1>13
  DEF Next, HolderStep

-----------------------------------------------------------------------------
(* The history of one run.                                                 *)

\* The run of the holder, where it stands.
LEMMA RunOfHolder ==
    ASSUME TypeOK, Standing, Records,
           pc \in {"begin", "start", "work", "staged", "precommit", "abort", "refused"}
                    \cup Promotes \cup Closes
    PROVE  cur \in Runs /\ Life(cur) /\ Plan(cur) /\ Trace(cur)
<1>1. cur \in Runs
  BY HasRun, Types DEF Standing
<1> QED
  BY <1>1 DEF Records, Lives, Planned, Traced

\* A session that enters its run in the registry.
LEMMA AtBegin ==
    ASSUME TypeOK, Standing, Records, pc = "begin"
    PROVE  /\ lock = "session" /\ status[cur] = "none" /\ book # Absent
           /\ \A q \in Runs : ~Unfinished(q)
<1>1. lock = "session"
  <2>1. lock # "free"
    BY Types DEF ControlTyped
  <2> QED
    BY <2>1, HasRun, Types DEF Standing, Placed, Promotes, Closes
<1> QED
  BY <1>1 DEF Standing, Working, Gated

LEMMA LivesKept ==
    ASSUME TypeOK, Standing, Records, [Next]_vars
    PROVE  Lives'
<1> SUFFICES ASSUME NEW r \in Runs PROVE Life(r)'
  BY DEF Lives
<1> USE DEF canonical, registry, transaction
<1>a. Life(r) /\ RegistryTyped /\ TransactionTyped
  BY Types DEF Records, Lives
<1>0. CASE UNCHANGED <<status, base, evidence, dir, phase, new>>
  BY <1>0, <1>a DEF Life
<1>1. CASE RegistryBegin
  <2>1. cur \in Runs /\ Life(cur) /\ book # Absent
    BY <1>1, RunOfHolder DEF RegistryBegin, Standing, Working
  <2>2. /\ status' = [status EXCEPT ![cur] = "in_progress"]
        /\ base' = [base EXCEPT ![cur] = State(book, ledger)]
        /\ UNCHANGED <<evidence, dir, phase, new>>
    BY <1>1 DEF RegistryBegin
  <2>3. status[cur] = "none"
    BY <1>1, AtBegin DEF RegistryBegin
  <2>4. base'[cur].book = book
    BY <1>a, <2>1, <2>2, StateType DEF RegistryTyped
  <2> QED
    BY <1>a, <2>1, <2>2, <2>3, <2>4 DEF Life, RegistryTyped, Published
<1>2. CASE StartMkdir \/ StartTemporary \/ StartManifest
  <2>1. cur \in Runs /\ Life(cur) /\ status[cur] = "in_progress"
    BY <1>2, RunOfHolder DEF StartMkdir, StartTemporary, StartManifest, Standing, Working
  <2> QED
    BY <1>a, <1>2, <2>1
    DEF StartMkdir, StartTemporary, StartManifest, Life, TransactionTyped
<1>3. CASE WorkRaises
  <2>1. cur \in Runs /\ status[cur] = "in_progress" /\ phase[cur] = "staging"
    BY <1>3, RunOfHolder DEF WorkRaises, Standing, Working
  <2> QED
    BY <1>a, <1>3, <2>1 DEF WorkRaises, Life, TransactionTyped
<1>4. CASE RegistryAbort
  <2>1. cur \in Runs /\ phase[cur] \in {"none", "aborted"}
    BY <1>4, RunOfHolder DEF RegistryAbort, Standing, Working
  <2> QED
    BY <1>a, <1>4, <2>1 DEF RegistryAbort, Life, RegistryTyped
<1>5. CASE Precommit
  <2>1. cur \in Runs /\ status[cur] = "in_progress"
    BY <1>5, RunOfHolder DEF Precommit, Standing, Working
  <2> QED
    BY <1>a, <1>5, <2>1 DEF Precommit, Life, TransactionTyped
<1>6. CASE MarkCanonicalCommitted
  <2>1. /\ cur \in Runs /\ status[cur] \in {"in_progress", "completed"}
        /\ phase[cur] \in {"precommitted", "canonical_committed"}
    BY <1>6, RunOfHolder DEF MarkCanonicalCommitted, Standing, Working, Promotes
  <2> QED
    BY <1>a, <1>6, <2>1 DEF MarkCanonicalCommitted, Life, TransactionTyped, Published
<1>7. CASE CloseEntry
  <2>1. cur \in Runs /\ phase[cur] = "canonical_committed"
    BY <1>7, RunOfHolder DEF CloseEntry, Standing, Working, Closes
  <2> QED
    BY <1>a, <1>7, <2>1 DEF CloseEntry, Life, RegistryTyped, Published
<1>8. CASE MarkRegistryCompleted
  <2>1. cur \in Runs /\ phase[cur] = "canonical_committed"
    BY <1>8, RunOfHolder DEF MarkRegistryCompleted, Standing, Working, Closes
  <2> QED
    BY <1>a, <1>8, <2>1 DEF MarkRegistryCompleted, Life, TransactionTyped, Published
<1>9. CASE \E q \in Runs : RecoverStaging(q) \/ RecoverUnmanifested(q)
  BY <1>a, <1>9
  DEF RecoverStaging, RecoverUnmanifested, MayAbortManifest, MayAbortBare, InProgress,
      Life, TransactionTyped
<1>10. CASE \/ SaveReplace \/ StageOutputs \/ StageSummary \/ PromoteReplace
            \/ PromoteLedger \/ PromoteSummary
            \/ \E q \in Runs, d \in Datasets, rep \in BOOLEAN : SessionStart(q, d, rep)
  BY <1>0, <1>10 DEF SaveReplace, StageOutputs, StageSummary, PromoteReplace,
                     PromoteLedger, PromoteSummary, SessionStart
<1> QED
  BY <1>0, <1>1, <1>2, <1>3, <1>4, <1>5, <1>6, <1>7, <1>8, <1>9, <1>10, OthersOnlyMove
  DEF Acting

LEMMA PlannedKept ==
    ASSUME TypeOK, Standing, Records, [Next]_vars
    PROVE  Planned'
<1> SUFFICES ASSUME NEW r \in Runs PROVE Plan(r)'
  BY DEF Planned
<1> USE DEF canonical, registry, transaction
<1>a. Plan(r) /\ Life(r) /\ RegistryTyped /\ TransactionTyped
  BY Types DEF Records, Planned, Lives
<1>0. CASE UNCHANGED <<status, base, phase, new, staged>>
  BY <1>0, <1>a DEF Plan, Staged
<1>1. ASSUME phase'[r] \notin Committed PROVE Plan(r)'
  BY <1>1 DEF Plan
<1>2. CASE RegistryBegin
  <2>1. cur \in Runs /\ Life(cur) /\ status[cur] = "none"
    BY <1>2, RunOfHolder, AtBegin DEF RegistryBegin
  <2>2. phase[cur] \notin Committed
    BY <2>1 DEF Life, Committed
  <2> QED
    BY <1>a, <1>1, <1>2, <2>1, <2>2 DEF RegistryBegin, Plan, Staged, RegistryTyped
<1>3. CASE StartManifest \/ WorkRaises
  <2>1. cur \in Runs
    BY <1>3, RunOfHolder DEF StartManifest, WorkRaises
  <2> QED
    BY <1>a, <1>1, <1>3, <2>1
    DEF StartManifest, WorkRaises, Plan, Staged, TransactionTyped, Committed
<1>4. CASE StageOutputs \/ StageSummary
  <2>1. cur \in Runs /\ phase[cur] \notin Committed
    BY <1>4, RunOfHolder DEF StageOutputs, StageSummary, Standing, Working, Committed
  <2> QED
    BY <1>a, <1>1, <1>4, <2>1
    DEF StageOutputs, StageSummary, Plan, Staged, TransactionTyped
<1>5. CASE RegistryAbort \/ CloseEntry
  <2>1. cur \in Runs
    BY <1>5, RunOfHolder DEF RegistryAbort, CloseEntry, Closes
  <2> QED
    BY <1>a, <1>5, <2>1 DEF RegistryAbort, CloseEntry, Plan, Staged, RegistryTyped
<1>6. CASE Precommit
  <2>1. /\ cur \in Runs /\ status[cur] = "in_progress"
        /\ Staged(cur) /\ staged[cur].summary
    BY <1>6, RunOfHolder DEF Precommit, Standing, Working
  <2> QED
    BY <1>a, <1>6, <2>1 DEF Precommit, Plan, Staged, TransactionTyped
<1>7. CASE MarkCanonicalCommitted \/ MarkRegistryCompleted
  <2>1. cur \in Runs /\ phase[cur] \in Committed
    BY <1>7, PromotesCommitted
    DEF MarkCanonicalCommitted, MarkRegistryCompleted, Promotes, Closes
  <2> QED
    BY <1>a, <1>7, <2>1
    DEF MarkCanonicalCommitted, MarkRegistryCompleted, Plan, Staged, TransactionTyped
<1>8. CASE \E q \in Runs : RecoverStaging(q)
  BY <1>a, <1>1, <1>8 DEF RecoverStaging, Plan, Staged, TransactionTyped, Committed
<1>9. CASE \/ SaveReplace \/ PromoteReplace \/ PromoteLedger \/ PromoteSummary
           \/ StartMkdir \/ StartTemporary
           \/ \E q \in Runs, d \in Datasets, rep \in BOOLEAN : SessionStart(q, d, rep)
           \/ \E q \in Runs : RecoverUnmanifested(q)
  BY <1>0, <1>9 DEF SaveReplace, PromoteReplace, PromoteLedger, PromoteSummary,
                    StartMkdir, StartTemporary, SessionStart, RecoverUnmanifested
<1> QED
  BY <1>0, <1>2, <1>3, <1>4, <1>5, <1>6, <1>7, <1>8, <1>9, OthersOnlyMove DEF Acting

-----------------------------------------------------------------------------
(* The canonical files.                                                    *)

\* What a save of the canonical book is about to replace.
LEMMA SaveReplaces ==
    ASSUME TypeOK, Standing, SaveReplace
    PROVE  /\ book' = cand /\ cand # Absent
           /\ book = Absent => cand = {}
           /\ book # Absent => book \subseteq cand
           /\ \A r \in Runs : r \in cand => book # Absent /\ r \in book
<1>1. book' = cand /\ cand \in Contents
  BY Types DEF SaveReplace, CanonicalTyped
<1>2. \/ book = Absent /\ cand = {}
      \/ book # Absent /\ \E x \in Admissions \cup Settlements : cand = book \cup {x}
  BY DEF SaveReplace, Standing, Publishing, Writers
<1> QED
  BY <1>1, <1>2, ContentsArePresent, ConstantsAssumption

\* A promotion of the book or the ledger adds the run of the holder, at most.
LEMMA PromoteReplaces ==
    ASSUME TypeOK, Standing, Records, PromoteReplace
    PROVE  /\ cur \in Runs /\ phase[cur] \in Committed
           /\ book' = new[cur].book /\ new[cur].book \in Contents
           /\ book # Absent /\ new[cur].book \in {book, book \cup {cur}}
<1>1. cur \in Runs /\ phase[cur] \in Committed
  BY PromotesCommitted DEF PromoteReplace, Promotes
<1>2. book = base[cur].book
  BY DEF PromoteReplace, Standing, Publishing
<1> QED
  BY <1>1, <1>2, PlannedContents, ContentsArePresent DEF PromoteReplace, Records

LEMMA PromotesLedger ==
    ASSUME TypeOK, Standing, Records, PromoteLedger
    PROVE  /\ cur \in Runs /\ phase[cur] \in Committed
           /\ ledger' = new[cur].ledger /\ new[cur].ledger \in {ledger, ledger \cup {cur}}
<1>1. cur \in Runs /\ phase[cur] \in Committed
  BY PromotesCommitted DEF PromoteLedger, Promotes
<1> QED
  BY <1>1, PlannedContents DEF PromoteLedger, Records

\* The steps that write a canonical file, which only add to it.
LEMMA CanonicalMoves ==
    ASSUME [Next]_vars
    PROVE  \/ UNCHANGED canonical
           \/ SaveReplace \/ PromoteReplace \/ PromoteLedger \/ PromoteSummary
<1> USE DEF canonical
<1>1. CASE \/ RegistryBegin \/ StartMkdir \/ StartTemporary \/ StartManifest
           \/ StageOutputs \/ WorkRaises \/ RegistryAbort \/ StageSummary \/ Precommit
           \/ MarkCanonicalCommitted \/ CloseEntry \/ MarkRegistryCompleted
  BY <1>1
  DEF RegistryBegin, StartMkdir, StartTemporary, StartManifest, StageOutputs, WorkRaises,
      RegistryAbort, StageSummary, Precommit, MarkCanonicalCommitted, CloseEntry,
      MarkRegistryCompleted
<1>2. CASE \E r \in Runs, d \in Datasets, rep \in BOOLEAN : SessionStart(r, d, rep)
  BY <1>2 DEF SessionStart
<1>3. CASE \E r \in Runs : RecoverStaging(r) \/ RecoverUnmanifested(r)
  BY <1>3 DEF RecoverStaging, RecoverUnmanifested
<1> QED
  BY <1>1, <1>2, <1>3, OthersOnlyMove DEF Acting

LEMMA CanonicalGrows ==
    ASSUME TypeOK, Standing, Records, [Next]_vars
    PROVE  /\ book # Absent => book' # Absent /\ book \subseteq book'
           /\ ledger \subseteq ledger' /\ summaries \subseteq summaries'
<1> USE DEF canonical
<1>0. CASE UNCHANGED canonical
  BY <1>0
<1>1. CASE SaveReplace
  BY <1>1, SaveReplaces DEF SaveReplace
<1>2. CASE PromoteReplace
  BY <1>2, PromoteReplaces, ContentsArePresent DEF PromoteReplace
<1>3. CASE PromoteLedger
  BY <1>3, PromotesLedger DEF PromoteLedger
<1>4. CASE PromoteSummary
  BY <1>4 DEF PromoteSummary
<1> QED
  BY <1>0, <1>1, <1>2, <1>3, <1>4, CanonicalMoves

LEMMA TracedKept ==
    ASSUME TypeOK, Standing, Records, [Next]_vars
    PROVE  Traced'
<1> SUFFICES ASSUME NEW r \in Runs PROVE Trace(r)'
  BY DEF Traced
<1> USE DEF canonical, registry, transaction
<1>a. Trace(r) /\ Plan(r) /\ RegistryTyped /\ TransactionTyped
  BY Types DEF Records, Traced, Planned
<1>0. CASE UNCHANGED <<canonical, phase>>
  BY <1>0, <1>a DEF Trace
<1>1. CASE SaveReplace
  BY <1>a, <1>1, SaveReplaces DEF SaveReplace, Trace
<1>2. CASE PromoteReplace
  BY <1>a, <1>2, PromoteReplaces DEF PromoteReplace, Trace
<1>3. CASE PromoteLedger
  BY <1>a, <1>3, PromotesLedger DEF PromoteLedger, Trace
<1>4. CASE PromoteSummary
  <2>1. cur \in Runs /\ phase[cur] \in Committed
    BY <1>4, PromotesCommitted DEF PromoteSummary, Promotes
  <2> QED
    BY <1>a, <1>4, <2>1 DEF PromoteSummary, Trace
<1>5. CASE StartManifest \/ WorkRaises
  <2>1. cur \in Runs /\ phase[cur] \notin Committed
    BY <1>5, RunOfHolder DEF StartManifest, WorkRaises, Standing, Working, Life, Committed
  <2> QED
    BY <1>a, <1>5, <2>1 DEF StartManifest, WorkRaises, Trace, TransactionTyped
<1>6. CASE Precommit \/ MarkCanonicalCommitted \/ MarkRegistryCompleted
  BY <1>a, <1>6 DEF Precommit, MarkCanonicalCommitted, MarkRegistryCompleted, Trace,
                    TransactionTyped, Committed
<1>7. CASE \E q \in Runs : RecoverStaging(q)
  BY <1>a, <1>7 DEF RecoverStaging, MayAbortManifest, Trace, TransactionTyped, Committed
<1>8. CASE \/ RegistryBegin \/ StartMkdir \/ StartTemporary \/ StageOutputs
           \/ RegistryAbort \/ StageSummary \/ CloseEntry
           \/ \E q \in Runs, d \in Datasets, rep \in BOOLEAN : SessionStart(q, d, rep)
           \/ \E q \in Runs : RecoverUnmanifested(q)
  BY <1>0, <1>8 DEF RegistryBegin, StartMkdir, StartTemporary, StageOutputs, RegistryAbort,
                    StageSummary, CloseEntry, SessionStart, RecoverUnmanifested
<1> QED
  BY <1>0, <1>1, <1>2, <1>3, <1>4, <1>5, <1>6, <1>7, <1>8, OthersOnlyMove DEF Acting

LEMMA AppliedKept ==
    ASSUME TypeOK, Standing, Records, [Next]_vars
    PROVE  Applied'
<1> SUFFICES ASSUME NEW r \in Runs, phase'[r] \in Published PROVE InPlace(r)'
  BY DEF Applied
<1> USE DEF canonical, registry, transaction
<1>a. TransactionTyped
  BY Types
<1>b. phase[r] \in Published => InPlace(r)
  BY DEF Records, Applied
<1>c. /\ book # Absent => book' # Absent /\ book \subseteq book'
      /\ ledger \subseteq ledger' /\ summaries \subseteq summaries'
  BY CanonicalGrows
<1>0. CASE phase[r] \in Published /\ new'[r] = new[r]
  BY <1>0, <1>b, <1>c DEF InPlace
<1>1. CASE MarkCanonicalCommitted
  <2>1. CASE r = cur
    <3>1. /\ cur \in Runs /\ phase[cur] \in Committed /\ cur \in summaries
          /\ book = new[cur].book /\ ledger = new[cur].ledger
      BY <1>1, PromotesCommitted
      DEF MarkCanonicalCommitted, Promotes, Standing, Working
    <3>2. book # Absent
      BY <3>1, PlannedContents, ContentsArePresent DEF Records
    <3> QED
      BY <1>1, <2>1, <3>1, <3>2 DEF MarkCanonicalCommitted, InPlace
  <2>2. CASE r # cur
    BY <1>0, <1>1, <1>a, <2>2 DEF MarkCanonicalCommitted, TransactionTyped
  <2> QED
    BY <2>1, <2>2
<1>2. CASE MarkRegistryCompleted
  <2>1. cur \in Runs /\ phase[cur] \in Published
    BY <1>2, RunOfHolder DEF MarkRegistryCompleted, Standing, Working, Closes, Published
  <2> QED
    BY <1>0, <1>2, <1>a, <2>1 DEF MarkRegistryCompleted, TransactionTyped
<1>3. CASE Precommit
  <2>1. cur \in Runs /\ phase[cur] = "staging"
    BY <1>3, RunOfHolder DEF Precommit
  <2> QED
    BY <1>0, <1>3, <1>a, <2>1 DEF Precommit, TransactionTyped, Published
<1>4. CASE StartManifest \/ WorkRaises
  BY <1>0, <1>4, <1>a DEF StartManifest, WorkRaises, TransactionTyped, Published
<1>5. CASE \E q \in Runs : RecoverStaging(q)
  BY <1>0, <1>5, <1>a DEF RecoverStaging, TransactionTyped, Published
<1>6. CASE UNCHANGED <<phase, new>>
  BY <1>0, <1>6
<1>7. CASE \/ SaveReplace \/ RegistryBegin \/ StartMkdir \/ StartTemporary \/ StageOutputs
           \/ RegistryAbort \/ StageSummary \/ CloseEntry \/ PromoteReplace
           \/ PromoteLedger \/ PromoteSummary
           \/ \E q \in Runs, d \in Datasets, rep \in BOOLEAN : SessionStart(q, d, rep)
           \/ \E q \in Runs : RecoverUnmanifested(q)
  BY <1>6, <1>7
  DEF SaveReplace, RegistryBegin, StartMkdir, StartTemporary, StageOutputs, RegistryAbort,
      StageSummary, CloseEntry, PromoteReplace, PromoteLedger, PromoteSummary,
      SessionStart, RecoverUnmanifested
<1> QED
  BY <1>1, <1>2, <1>3, <1>4, <1>5, <1>6, <1>7, OthersOnlyMove DEF Acting

-----------------------------------------------------------------------------
(* Which runs are open.                                                    *)

\* Only RunRegistry.begin opens a run.
LEMMA OnlyBeginOpens ==
    ASSUME TypeOK, Standing, Records, [Next]_vars,
           NEW r \in Runs, Unfinished(r)'
    PROVE  Unfinished(r) \/ (RegistryBegin /\ r = cur)
<1> USE DEF canonical, registry, transaction
<1>a. Life(r) /\ RegistryTyped /\ TransactionTyped
  BY Types DEF Records, Lives
<1>0. CASE UNCHANGED <<status, dir, phase>>
  BY <1>0 DEF Unfinished
<1>1. CASE RegistryBegin
  BY <1>1, <1>a DEF RegistryBegin, Unfinished, RegistryTyped
<1>2. CASE StartMkdir \/ StartTemporary \/ StartManifest
  <2>1. cur \in Runs /\ status[cur] = "in_progress"
    BY <1>2, RunOfHolder DEF StartMkdir, StartTemporary, StartManifest, Standing, Working
  <2> QED
    BY <1>2, <1>a, <2>1
    DEF StartMkdir, StartTemporary, StartManifest, Unfinished, TransactionTyped
<1>3. CASE WorkRaises \/ Precommit
  <2>1. cur \in Runs /\ status[cur] = "in_progress"
    BY <1>3, RunOfHolder DEF WorkRaises, Precommit, Standing, Working
  <2> QED
    BY <1>3, <1>a, <2>1 DEF WorkRaises, Precommit, Unfinished, TransactionTyped
<1>4. CASE RegistryAbort \/ CloseEntry
  BY <1>4, <1>a DEF RegistryAbort, CloseEntry, Unfinished, RegistryTyped
<1>5. CASE MarkCanonicalCommitted
  <2>1. cur \in Runs /\ Life(cur) /\ phase[cur] \in {"precommitted", "canonical_committed"}
    BY <1>5, RunOfHolder DEF MarkCanonicalCommitted, Standing, Working, Promotes
  <2> QED
    BY <1>5, <1>a, <2>1 DEF MarkCanonicalCommitted, Unfinished, TransactionTyped, Life
<1>6. CASE MarkRegistryCompleted
  BY <1>6, <1>a DEF MarkRegistryCompleted, Unfinished, TransactionTyped
<1>7. CASE \E q \in Runs : RecoverStaging(q) \/ RecoverUnmanifested(q)
  BY <1>7, <1>a
  DEF RecoverStaging, RecoverUnmanifested, MayAbortManifest, MayAbortBare, InProgress,
      Unfinished, TransactionTyped
<1>8. CASE \/ SaveReplace \/ StageOutputs \/ StageSummary \/ PromoteReplace
           \/ PromoteLedger \/ PromoteSummary
           \/ \E q \in Runs, d \in Datasets, rep \in BOOLEAN : SessionStart(q, d, rep)
  BY <1>0, <1>8 DEF SaveReplace, StageOutputs, StageSummary, PromoteReplace,
                    PromoteLedger, PromoteSummary, SessionStart
<1> QED
  BY <1>0, <1>1, <1>2, <1>3, <1>4, <1>5, <1>6, <1>7, <1>8, OthersOnlyMove DEF Acting

LEMMA AtMostOneUnfinishedKept ==
    ASSUME TypeOK, Standing, Records, [Next]_vars
    PROVE  AtMostOneUnfinished'
<1> SUFFICES ASSUME NEW q \in Runs, NEW r \in Runs, Unfinished(q)', Unfinished(r)'
             PROVE  q = r
  BY DEF AtMostOneUnfinished
<1>1. CASE RegistryBegin
  <2>1. \A s \in Runs : ~Unfinished(s)
    BY <1>1, AtBegin DEF RegistryBegin
  <2> QED
    BY <2>1, OnlyBeginOpens
<1>2. CASE ~RegistryBegin
  BY <1>2, OnlyBeginOpens DEF Records, AtMostOneUnfinished
<1> QED
  BY <1>1, <1>2

\* What a step makes of the registry entry of one run.
LEMMA EntriesMove ==
    ASSUME TypeOK, Standing, Records, [Next]_vars, NEW r \in Runs
    PROVE  \/ status'[r] = status[r]
           \/ RegistryBegin /\ r = cur /\ status[r] = "none" /\ status'[r] = "in_progress"
           \/ RegistryAbort /\ r = cur /\ status[r] = "in_progress" /\ status'[r] = "aborted"
           \/ CloseEntry /\ r = cur /\ status[r] = "in_progress" /\ status'[r] = "completed"
<1> USE DEF canonical, registry, transaction
<1>a. RegistryTyped
  BY Types
<1>0. CASE UNCHANGED status
  BY <1>0
<1>1. CASE RegistryBegin
  BY <1>1, <1>a, AtBegin DEF RegistryBegin, RegistryTyped
<1>2. CASE RegistryAbort
  BY <1>2, <1>a DEF RegistryAbort, RegistryTyped
<1>3. CASE CloseEntry
  BY <1>3, <1>a DEF CloseEntry, RegistryTyped
<1>4. CASE \/ SaveReplace \/ StartMkdir \/ StartTemporary \/ StartManifest \/ StageOutputs
           \/ WorkRaises \/ StageSummary \/ Precommit \/ PromoteReplace \/ PromoteLedger
           \/ PromoteSummary \/ MarkCanonicalCommitted \/ MarkRegistryCompleted
           \/ \E q \in Runs, d \in Datasets, rep \in BOOLEAN : SessionStart(q, d, rep)
           \/ \E q \in Runs : RecoverStaging(q) \/ RecoverUnmanifested(q)
  BY <1>0, <1>4
  DEF SaveReplace, StartMkdir, StartTemporary, StartManifest, StageOutputs, WorkRaises,
      StageSummary, Precommit, PromoteReplace, PromoteLedger, PromoteSummary,
      MarkCanonicalCommitted, MarkRegistryCompleted, SessionStart, RecoverStaging,
      RecoverUnmanifested
<1> QED
  BY <1>0, <1>1, <1>2, <1>3, <1>4, OthersOnlyMove DEF Acting

\* A request is fixed before the run is entered.
LEMMA RequestsStay ==
    ASSUME TypeOK, [Next]_vars, NEW r \in Runs, status[r] # "none"
    PROVE  request'[r] = request[r]
<1> USE DEF canonical, registry, transaction
<1>0. CASE UNCHANGED request
  BY <1>0
<1>1. CASE \E q \in Runs, d \in Datasets, rep \in BOOLEAN : SessionStart(q, d, rep)
  BY <1>1, Types DEF SessionStart, RegistryTyped
<1>2. CASE \/ SaveReplace \/ RegistryBegin \/ RegistryAbort \/ CloseEntry \/ StartMkdir
           \/ StartTemporary \/ StartManifest \/ StageOutputs
           \/ WorkRaises \/ StageSummary \/ Precommit \/ PromoteReplace \/ PromoteLedger
           \/ PromoteSummary \/ MarkCanonicalCommitted \/ MarkRegistryCompleted
           \/ \E q \in Runs : RecoverStaging(q) \/ RecoverUnmanifested(q)
  BY <1>0, <1>2
  DEF SaveReplace, RegistryBegin, RegistryAbort, CloseEntry, StartMkdir, StartTemporary,
      StartManifest, StageOutputs, WorkRaises,
      StageSummary, Precommit, PromoteReplace, PromoteLedger, PromoteSummary,
      MarkCanonicalCommitted, MarkRegistryCompleted, RecoverStaging, RecoverUnmanifested
<1> QED
  BY <1>0, <1>1, <1>2, OthersOnlyMove DEF Acting

LEMMA RepeatsKept ==
    ASSUME TypeOK, Standing, Records, [Next]_vars
    PROVE  Repeats'
<1> SUFFICES ASSUME NEW q \in Runs, NEW r \in Runs, q # r,
                    status'[q] = "completed", status'[r] \in {"in_progress", "completed"},
                    request'[q].dataset = request'[r].dataset
             PROVE  request'[q].repeat \/ request'[r].repeat
  BY DEF Repeats
<1>1. status[q] \in {"in_progress", "completed"}
  BY EntriesMove
<1>2. request'[q] = request[q]
  BY <1>1, RequestsStay
<1>3. CASE RegistryBegin
  <2>1. /\ status[cur] = "none" /\ UNCHANGED request
        /\ CompletedBefore(cur) => request[cur].repeat
    BY <1>3, AtBegin DEF RegistryBegin
  <2>2. status[q] = "completed" /\ q # cur
    BY <1>1, <1>3, <2>1, EntriesMove DEF RegistryAbort, CloseEntry, RegistryBegin
  <2>3. CASE r = cur
    BY <2>1, <2>2, <2>3 DEF CompletedBefore
  <2>4. CASE r # cur
    <3>1. status[r] = status'[r]
      BY <1>3, <2>4, EntriesMove
    <3> QED
      BY <2>1, <2>2, <3>1 DEF Records, Repeats
  <2> QED
    BY <2>3, <2>4
<1>4. CASE ~RegistryBegin
  <2>1. status[r] \in {"in_progress", "completed"} /\ request'[r] = request[r]
    BY <1>4, EntriesMove, RequestsStay
  <2>2. CASE status[q] = "completed"
    BY <1>2, <2>1, <2>2 DEF Records, Repeats
  <2>3. CASE status[q] = "in_progress"
    <3>1. status[r] # "in_progress"
      BY <2>3 DEF Records, AtMostOneUnfinished, Unfinished
    <3> QED
      BY <1>2, <2>1, <2>3, <3>1 DEF Records, Repeats
  <2> QED
    BY <1>1, <2>2, <2>3
<1> QED
  BY <1>3, <1>4

-----------------------------------------------------------------------------
(* Where the holder of the lock stands.                                    *)

LEMMA PlacedKept ==
    ASSUME ControlTyped, Placed, [Next]_vars
    PROVE  Placed'
<1> USE DEF control, Goto, Release, Handle, Saves, Promotes, Closes
<1>0. CASE Release
  BY <1>0 DEF Placed
<1>1. CASE UNCHANGED control
  BY <1>1 DEF Placed
<1>2. CASE \E r \in Runs, d \in Datasets, rep \in BOOLEAN : SessionStart(r, d, rep)
  BY <1>2 DEF SessionStart, Placed
<1>3. CASE (\E a \in Admissions : AdmitTicket(a)) \/ (\E s \in Settlements : SettleTickets(s))
  BY <1>3 DEF AdmitTicket, SettleTickets, PublishBook, Placed
<1>4. CASE RecoveryStart
  BY <1>4 DEF RecoveryStart, Placed
<1>5. CASE SavePrepare \/ SaveReplace
  BY <1>5 DEF SavePrepare, SaveReplace, Placed, ControlTyped
<1>6. CASE SaveCommit
  BY <1>0, <1>6 DEF SaveCommit, Placed, ControlTyped
<1>7. CASE RegistryBegin \/ StartMkdir \/ StartTemporary \/ StartManifest \/ StartRaises
           \/ StageOutputs \/ WorkRaises \/ StageSummary \/ Precommit
  <2>1. lock = "session" /\ cur \in Runs
    BY <1>7, HasRun
    DEF RegistryBegin, StartMkdir, StartTemporary, StartManifest, StartRaises,
        StageOutputs, WorkRaises, StageSummary, Precommit, Placed
  <2>2. UNCHANGED <<lock, cur>> /\ pc' \notin {"idle", "scan"}
    BY <1>7
    DEF RegistryBegin, StartMkdir, StartTemporary, StartManifest, StartRaises,
        StageOutputs, WorkRaises, StageSummary, Precommit
  <2> QED
    BY <2>1, <2>2 DEF Placed
<1>8. CASE RegistryAbort \/ MarkRegistryCompleted
  <2>1. \/ Release
        \/ lock' = "recovery" /\ pc' = "scan"
    BY <1>8 DEF RegistryAbort, MarkRegistryCompleted
  <2> QED
    BY <1>0, <2>1 DEF Placed
<1>9. CASE CommitPreflight \/ PromoteRecover \/ PromoteSkip \/ PromotePrepare
           \/ PromoteReplace \/ PromoteCommit \/ PromoteLedger \/ PromoteSummary
           \/ MarkCanonicalCommitted \/ CloseEntry
  <2>1. lock \in {"session", "recovery"} /\ cur \in Runs
    BY <1>9, HasRun
    DEF CommitPreflight, PromoteRecover, PromoteSkip, PromotePrepare, PromoteReplace,
        PromoteCommit, PromoteLedger, PromoteSummary, MarkCanonicalCommitted, CloseEntry
  <2>2. UNCHANGED <<lock, cur>> /\ pc' \in Promotes \cup Closes
    BY <1>9
    DEF CommitPreflight, PromoteRecover, PromoteSkip, PromotePrepare, PromoteReplace,
        PromoteCommit, PromoteLedger, PromoteSummary, MarkCanonicalCommitted, CloseEntry
  <2> QED
    BY <2>1, <2>2 DEF Placed
<1>10. CASE \E r \in Runs :
              RecoverStaging(r) \/ RecoverUnmanifested(r) \/ RecoverCommitted(r)
  BY <1>10 DEF RecoverStaging, RecoverUnmanifested, RecoverCommitted, Placed
<1>11. CASE RecoveryRefuses
  <2>1. cur' \in Runs /\ UNCHANGED lock /\ pc' = "refused"
    BY <1>11, HasRun DEF RecoveryRefuses
  <2>2. lock \in {"session", "recovery"}
    BY <1>11 DEF RecoveryRefuses, Placed, ControlTyped
  <2> QED
    BY <2>1, <2>2 DEF Placed
<1>12. CASE RepeatRefused \/ RecoveryEnds \/ RefusalReported \/ Crash
  BY <1>0, <1>12 DEF RepeatRefused, RecoveryEnds, RefusalReported, Crash
<1>13. CASE ReaderLoad \/ UNCHANGED vars
  BY <1>1, <1>13 DEF ReaderLoad, vars
<1>14. CASE RegistryComplete \/ RegistryReconcile
  BY <1>9, <1>14 DEF RegistryComplete, RegistryReconcile
<1> QED
  BY <1>2, <1>3, <1>4, <1>5, <1>6, <1>7, <1>8, <1>9, <1>10, <1>11, <1>12, <1>13, <1>14
  DEF Next, HolderStep

\* The steps that end neither in a save nor in the replacement of the book
\* by a promotion.
LEMMA PublishingElsewhere ==
    ASSUME [Next]_vars,
           ~SavePrepare, ~SaveReplace, ~PromotePrepare, ~PromoteReplace,
           ~ReaderLoad, ~UNCHANGED vars,
           \A r \in Runs, d \in Datasets, rep \in BOOLEAN : ~SessionStart(r, d, rep),
           \A a \in Admissions : ~AdmitTicket(a),
           \A s \in Settlements : ~SettleTickets(s)
    PROVE  /\ pc' \notin Saves \cup {"promote_replace", "promote_commit"}
           /\ pc' = "begin" => SaveCommit
<1> USE DEF Goto, Release, Handle, Saves
<1>1. CASE SaveCommit \/ RegistryAbort \/ MarkRegistryCompleted
  BY <1>1 DEF SaveCommit, RegistryAbort, MarkRegistryCompleted
<1>2. CASE \/ RegistryBegin \/ RepeatRefused \/ StartMkdir \/ StartTemporary
           \/ StartManifest \/ StartRaises \/ StageOutputs \/ WorkRaises \/ StageSummary
           \/ Precommit
  BY <1>2
  DEF RegistryBegin, RepeatRefused, StartMkdir, StartTemporary, StartManifest,
      StartRaises, StageOutputs, WorkRaises, StageSummary, Precommit
<1>3. CASE \/ CommitPreflight \/ PromoteRecover \/ PromoteSkip \/ PromoteCommit
           \/ PromoteLedger \/ PromoteSummary \/ MarkCanonicalCommitted
           \/ RegistryComplete \/ RegistryReconcile
  BY <1>3
  DEF CommitPreflight, PromoteRecover, PromoteSkip, PromoteCommit, PromoteLedger,
      PromoteSummary, MarkCanonicalCommitted, RegistryComplete, RegistryReconcile,
      CloseEntry
<1>4. CASE \E r \in Runs :
              RecoverStaging(r) \/ RecoverUnmanifested(r) \/ RecoverCommitted(r)
  BY <1>4 DEF RecoverStaging, RecoverUnmanifested, RecoverCommitted
<1>5. CASE RecoveryStart \/ RecoveryEnds \/ RecoveryRefuses \/ RefusalReported \/ Crash
  BY <1>5 DEF RecoveryStart, RecoveryEnds, RecoveryRefuses, RefusalReported, Crash
<1> QED
  BY <1>1, <1>2, <1>3, <1>4, <1>5 DEF Next, HolderStep

LEMMA PublishingKept ==
    ASSUME TypeOK, Standing, Records, [Next]_vars
    PROVE  Publishing'
<1> USE DEF canonical, registry, transaction, Goto, Saves
<1>a. journal \in Journals /\ Journaled /\ CanonicalTyped
  BY Types DEF JournalTyped, Records
<1>0. CASE pc' \notin Saves \cup {"promote_replace", "promote_commit"}
  BY <1>0 DEF Publishing
<1>1. CASE SavePrepare
  <2>1. /\ journal' = AppendPrepare(journal, NextGeneration(journal, cand))
        /\ pc = "save" /\ pc' = "save_replace" /\ UNCHANGED <<book, lock, cand>>
    BY <1>1 DEF SavePrepare
  <2>2. journal.pending = NoGeneration /\ cand \in Contents
    BY <1>a, <1>1 DEF SavePrepare, HasDurableState, CanonicalTyped
  <2>3. journal'.pending # NoGeneration /\ journal'.pending.sha = cand
    BY <1>a, <2>1, <2>2, Prepares DEF Journaled
  <2>4. IF lock = "session" THEN book = Absent /\ cand = {}
        ELSE book # Absent /\ \E x \in Writers : x \notin book /\ cand = book \cup {x}
    BY <2>1 DEF Standing, Publishing
  <2> QED
    BY <2>1, <2>3, <2>4 DEF Publishing, Writers
<1>2. CASE SaveReplace
  BY <1>2 DEF SaveReplace, Standing, Publishing
<1>3. CASE PromotePrepare
  <2>1. /\ journal' = AppendPrepare(journal, NextGeneration(journal, new[cur].book))
        /\ pc' = "promote_replace" /\ UNCHANGED <<book, cur, base, new>>
        /\ book = base[cur].book
    BY <1>3 DEF PromotePrepare
  <2>2. journal.pending = NoGeneration /\ pc \in Promotes
    BY <1>3 DEF PromotePrepare, Promotes
  <2>3. new[cur].book \in Contents
    BY <2>2, PromotesCommitted, PlannedContents DEF Records
  <2>4. journal'.pending # NoGeneration /\ journal'.pending.sha = new[cur].book
    BY <1>a, <2>1, <2>2, <2>3, Prepares DEF Journaled
  <2> QED
    BY <2>1, <2>4 DEF Publishing
<1>4. CASE PromoteReplace
  <2>1. /\ book' = new[cur].book /\ pc' = "promote_commit"
        /\ UNCHANGED <<journal, new, cur>>
    BY <1>4, PromoteReplaces DEF PromoteReplace
  <2>2. journal.pending # NoGeneration /\ journal.pending.sha = new[cur].book
    BY <1>4 DEF PromoteReplace, Standing, Publishing
  <2> QED
    BY <2>1, <2>2 DEF Publishing
<1>5. CASE ReaderLoad
  <2>1. /\ pc' = pc /\ UNCHANGED <<book, cand, lock>>
        /\ pc \notin {"save_replace", "save_commit", "promote_replace", "promote_commit"}
        /\ journal' = Recovered(journal, book)
    BY <1>5 DEF ReaderLoad, LoadBook, control
  <2>2. journal'.pending = NoGeneration
    BY <1>a, <2>1, Recovers DEF Journaled
  <2> QED
    BY <2>1, <2>2 DEF Standing, Publishing, Writers
<1>6. CASE \E r \in Runs, d \in Datasets, rep \in BOOLEAN : SessionStart(r, d, rep)
  <2>1. CASE pc' = "begin"
    BY <1>0, <2>1
  <2>2. CASE pc' # "begin"
    <3>1. /\ pc' = "save" /\ UNCHANGED <<book, journal>> /\ book = Absent
          /\ journal.pending = NoGeneration /\ lock' = "session" /\ cand' = {}
      BY <1>6, <2>2 DEF SessionStart, HasDurableState
    <3> QED
      BY <3>1 DEF Publishing
  <2> QED
    BY <2>1, <2>2
<1>7. ASSUME NEW x, journal' = Recovered(journal, book), UNCHANGED book, book # Absent,
             pc' = "save", lock' # "session",
             cand' = book \cup {x}, x \notin book, x \in Writers'
      PROVE  Publishing'
  <2>1. journal'.pending = NoGeneration
    BY <1>a, <1>7, Recovers DEF Journaled
  <2> QED
    BY <1>7, <2>1 DEF Publishing
<1>8. CASE UNCHANGED vars
  BY <1>8 DEF vars, Standing, Publishing, Writers
<1>9. CASE (\E a \in Admissions : AdmitTicket(a)) \/ (\E s \in Settlements : SettleTickets(s))
  BY <1>7, <1>9 DEF AdmitTicket, SettleTickets, LoadBook, Verifies, PublishBook, Writers
<1> QED
  BY <1>0, <1>1, <1>2, <1>3, <1>4, <1>5, <1>6, <1>8, <1>9, PublishingElsewhere

LEMMA GatedKept ==
    ASSUME TypeOK, Standing, Records, [Next]_vars
    PROVE  Gated'
<1> USE DEF canonical, registry, transaction, Goto, Saves
<1>0. CASE pc' \notin Saves \cup {"begin"} \/ lock' = "settlement"
  BY <1>0 DEF Gated
<1>1. ASSUME \A r \in Runs : ~Unfinished(r), ~RegistryBegin,
             lock' = "session" => status'[cur'] = "none"
      PROVE  Gated'
  BY <1>1, OnlyBeginOpens DEF Gated
<1>2. ASSUME Settled
      PROVE  \A r \in Runs : ~Unfinished(r)
  BY <1>2 DEF Settled, InProgress, HistoryIsTerminal, Unfinished
<1>3. CASE SavePrepare \/ SaveReplace \/ SaveCommit
  <2>0. lock # "free"
    BY <1>3, Types DEF SavePrepare, SaveReplace, SaveCommit, ControlTyped
  <2>1. /\ pc \in Saves /\ lock' \in {lock, "free"} /\ UNCHANGED status
        /\ lock' # "free" => UNCHANGED cur
        /\ lock' = "free" => pc' = "idle"
    BY <1>3, <2>0 DEF SavePrepare, SaveReplace, SaveCommit, Release
  <2>2. CASE lock \in {"settlement", "free"} \/ lock' = "free"
    BY <1>0, <2>1, <2>2, Types DEF ControlTyped
  <2>3. CASE lock \notin {"settlement", "free"} /\ lock' # "free"
    <3>1. ~RegistryBegin
      BY <2>1 DEF RegistryBegin
    <3> QED
      BY <1>1, <2>1, <2>3, <3>1 DEF Standing, Gated
  <2> QED
    BY <2>2, <2>3
<1>4. CASE ReaderLoad \/ UNCHANGED vars
  <2>1. UNCHANGED <<pc, lock, cur, status, dir, phase>>
    BY <1>4 DEF ReaderLoad, vars, control
  <2> QED
    BY <2>1 DEF Standing, Gated, Unfinished
<1>5. ASSUME NEW r \in Runs, NEW d \in Datasets, NEW rep \in BOOLEAN, SessionStart(r, d, rep)
      PROVE  Gated'
  <2>1. /\ Settled /\ status[r] = "none" /\ cur' = r /\ UNCHANGED status
        /\ lock = "free"
    BY <1>5 DEF SessionStart
  <2>2. ~RegistryBegin
    BY <2>1, Types DEF RegistryBegin, ControlTyped
  <2> QED
    BY <1>1, <1>2, <2>1, <2>2
<1>6. CASE \E a \in Admissions : AdmitTicket(a)
  <2>1. Settled /\ lock = "free" /\ lock' = "admission"
    BY <1>6 DEF AdmitTicket, PublishBook
  <2>2. ~RegistryBegin
    BY <2>1, Types DEF RegistryBegin, ControlTyped
  <2> QED
    BY <1>1, <1>2, <2>1, <2>2
<1>7. CASE \E s \in Settlements : SettleTickets(s)
  BY <1>0, <1>7 DEF SettleTickets, PublishBook
<1>8. CASE PromotePrepare \/ PromoteReplace
  BY <1>0, <1>8 DEF PromotePrepare, PromoteReplace
<1> QED
  BY <1>0, <1>3, <1>4, <1>5, <1>6, <1>7, <1>8, PublishingElsewhere

LEMMA WorkingKept ==
    ASSUME TypeOK, Standing, Records, [Next]_vars
    PROVE  Working'
<1> USE DEF canonical, registry, transaction, control, Goto, Release, Handle
<1>a. RegistryTyped /\ TransactionTyped
  BY Types
<1>0. CASE pc' \in {"idle", "scan", "refused"} \cup Saves
  BY <1>0 DEF Working, Saves, Promotes, Closes
<1>1. CASE pc' = "begin" /\ book' # Absent
  BY <1>1 DEF Working, Promotes, Closes
<1>2. CASE \E r \in Runs, d \in Datasets, rep \in BOOLEAN : SessionStart(r, d, rep)
  BY <1>0, <1>1, <1>2 DEF SessionStart, LoadBook, Verifies, Saves
<1>3. CASE SavePrepare \/ SaveReplace
  BY <1>0, <1>3 DEF SavePrepare, SaveReplace, Saves
<1>4. CASE SaveCommit
  <2>1. book = cand /\ cand # Absent
    BY <1>4, Types, ContentsArePresent DEF SaveCommit, CanonicalTyped, Standing, Publishing
  <2> QED
    BY <1>0, <1>1, <1>4, <2>1 DEF SaveCommit
<1>5. CASE RegistryBegin
  <2>1. /\ cur \in Runs /\ Life(cur) /\ status[cur] = "none"
    BY <1>5, RunOfHolder, AtBegin DEF RegistryBegin
  <2>2. /\ pc' = "start" /\ cur' = cur /\ status'[cur] = "in_progress"
        /\ dir'[cur] # "manifest"
    BY <1>a, <1>5, <2>1 DEF RegistryBegin, RegistryTyped, Life
  <2> QED
    BY <2>2 DEF Working, Promotes, Closes
<1>6. CASE StartMkdir \/ StartTemporary
  <2>1. cur \in Runs /\ status[cur] = "in_progress"
    BY <1>6, RunOfHolder DEF StartMkdir, StartTemporary, Standing, Working
  <2>2. /\ pc' = "start" /\ cur' = cur /\ status' = status /\ dir'[cur] # "manifest"
    BY <1>a, <1>6, <2>1 DEF StartMkdir, StartTemporary, TransactionTyped
  <2> QED
    BY <2>1, <2>2 DEF Working, Promotes, Closes
<1>7. CASE StartManifest
  <2>1. cur \in Runs /\ status[cur] = "in_progress"
    BY <1>7, RunOfHolder DEF StartManifest, Standing, Working
  <2>2. /\ pc' = "work" /\ cur' = cur /\ status' = status /\ phase'[cur] = "staging"
    BY <1>a, <1>7, <2>1 DEF StartManifest, TransactionTyped
  <2> QED
    BY <2>1, <2>2 DEF Working, Promotes, Closes
<1>8. CASE StageOutputs
  <2>1. /\ cur \in Runs /\ status[cur] = "in_progress" /\ phase[cur] = "staging"
    BY <1>8, RunOfHolder DEF StageOutputs, Standing, Working
  <2>2. PICK b \in {book, book \cup {cur}}, l \in {ledger, ledger \cup {cur}} :
          staged' = [staged EXCEPT ![cur].outputs = State(b, l)]
    BY <1>8 DEF StageOutputs
  <2>3. staged'[cur].outputs = State(b, l)
    BY <1>a, <2>1, <2>2 DEF TransactionTyped
  <2>4. /\ pc' = "staged" /\ UNCHANGED <<cur, status, phase, base>> /\ AtBase(cur)
    BY <1>8 DEF StageOutputs
  <2>5. Staged(cur)'
    BY <2>2, <2>3, <2>4, StateType DEF Staged, AtBase
  <2> QED
    BY <2>1, <2>4, <2>5 DEF Working, Promotes, Closes, Staged
<1>9. CASE StageSummary
  <2>1. /\ cur \in Runs /\ status[cur] = "in_progress" /\ phase[cur] = "staging"
        /\ Staged(cur)
    BY <1>9, RunOfHolder DEF StageSummary, Standing, Working
  <2>2. /\ pc' = "precommit" /\ UNCHANGED <<cur, status, phase, base>>
        /\ staged'[cur].outputs = staged[cur].outputs /\ staged'[cur].summary
    BY <1>a, <1>9, <2>1 DEF StageSummary, TransactionTyped
  <2> QED
    BY <2>1, <2>2 DEF Working, Promotes, Closes, Staged
<1>10. ASSUME pc' = "abort", cur' \in Runs, phase'[cur'] \in {"none", "aborted"}
       PROVE  Working'
  BY <1>10 DEF Working, Promotes, Closes
<1>11. CASE StartRaises \/ WorkRaises
  <2>1. cur \in Runs /\ Life(cur)
    BY <1>11, RunOfHolder DEF StartRaises, WorkRaises
  <2>2. phase'[cur] \in {"none", "aborted"}
    BY <1>a, <1>11, <2>1 DEF StartRaises, WorkRaises, Standing, Working, Life,
                             TransactionTyped
  <2> QED
    BY <1>10, <1>11, <2>1, <2>2 DEF StartRaises, WorkRaises
<1>12. CASE \E r \in Runs : RecoverStaging(r) \/ RecoverUnmanifested(r)
  <2>1. PICK r \in Runs : RecoverStaging(r) \/ RecoverUnmanifested(r)
    BY <1>12
  <2>2. phase'[r] \in {"none", "aborted"}
    BY <1>a, <2>1
    DEF RecoverStaging, RecoverUnmanifested, MayAbortBare, Records, Lives, Life,
        TransactionTyped
  <2> QED
    BY <1>10, <2>1, <2>2 DEF RecoverStaging, RecoverUnmanifested
<1>13. ASSUME pc' \in Promotes \ {"ledger", "summary", "mark"},
              status'[cur'] \in {"in_progress", "completed"},
              phase'[cur'] \in {"precommitted", "canonical_committed"}
       PROVE  Working'
  BY <1>13 DEF Working, Promotes, Closes
<1>14. CASE Precommit
  <2>1. cur \in Runs /\ status[cur] = "in_progress"
    BY <1>14, RunOfHolder DEF Precommit, Standing, Working
  <2>2. /\ pc' = "commit" /\ cur' = cur /\ status' = status
        /\ phase'[cur] = "precommitted"
    BY <1>a, <1>14, <2>1 DEF Precommit, TransactionTyped
  <2> QED
    BY <1>13, <2>1, <2>2 DEF Promotes
<1>15. CASE \E r \in Runs : RecoverCommitted(r)
  <2>1. PICK r \in Runs : RecoverCommitted(r)
    BY <1>15
  <2>2. /\ status[r] \in {"in_progress", "completed"}
        /\ phase[r] \in {"precommitted", "canonical_committed"}
    BY <2>1 DEF RecoverCommitted, MayRollForward, InProgress, Records, Lives, Life
  <2>3. /\ pc' = "commit" /\ cur' = r /\ status' = status /\ phase' = phase
    BY <2>1 DEF RecoverCommitted
  <2> QED
    BY <1>13, <2>2, <2>3 DEF Promotes
<1>16. CASE CommitPreflight \/ PromoteRecover \/ PromotePrepare \/ PromoteReplace
  <2>1. /\ status[cur] \in {"in_progress", "completed"}
        /\ phase[cur] \in {"precommitted", "canonical_committed"}
    BY <1>16
    DEF CommitPreflight, PromoteRecover, PromotePrepare, PromoteReplace, Standing,
        Working, Promotes
  <2>2. /\ UNCHANGED <<cur, status, phase>>
        /\ pc' \in {"promote", "promote_replace", "promote_commit"}
    BY <1>16 DEF CommitPreflight, PromoteRecover, PromotePrepare, PromoteReplace
  <2> QED
    BY <1>13, <2>1, <2>2 DEF Promotes
<1>17. CASE PromoteSkip \/ PromoteCommit \/ PromoteLedger \/ PromoteSummary
  <2>1. /\ status[cur] \in {"in_progress", "completed"}
        /\ phase[cur] \in {"precommitted", "canonical_committed"}
    BY <1>17
    DEF PromoteSkip, PromoteCommit, PromoteLedger, PromoteSummary, Standing,
        Working, Promotes
  <2>2. UNCHANGED <<cur, book, status, phase, new>>
    BY <1>17 DEF PromoteSkip, PromoteCommit, PromoteLedger, PromoteSummary
  <2>3. book = new[cur].book
    BY <1>17 DEF PromoteSkip, PromoteCommit, PromoteLedger, PromoteSummary, Standing,
                 Publishing, Working
  <2>4. CASE pc' = "ledger"
    BY <2>1, <2>2, <2>3, <2>4 DEF Working, Closes
  <2>5. CASE PromoteLedger
    <3>1. ledger' = new[cur].ledger /\ pc' = "summary"
      BY <2>5, PromotesLedger DEF PromoteLedger
    <3> QED
      BY <2>1, <2>2, <2>3, <3>1 DEF Working, Closes
  <2>6. CASE PromoteSummary
    <3>1. /\ ledger' = new[cur].ledger /\ pc' = "mark" /\ cur \in summaries'
      BY <2>6 DEF PromoteSummary, Standing, Working
    <3> QED
      BY <2>1, <2>2, <2>3, <3>1 DEF Working, Closes
  <2> QED
    BY <1>17, <2>4, <2>5, <2>6 DEF PromoteSkip, PromoteCommit
<1>18. CASE MarkCanonicalCommitted \/ CloseEntry
  <2>1. /\ cur \in Runs
        /\ pc = "complete" => phase[cur] = "canonical_committed"
    BY <1>18, RunOfHolder
    DEF MarkCanonicalCommitted, CloseEntry, Promotes, Closes, Standing, Working
  <2>2. /\ pc' \in Closes /\ cur' = cur /\ phase'[cur] = "canonical_committed"
    BY <1>a, <1>18, <2>1 DEF MarkCanonicalCommitted, CloseEntry, TransactionTyped, Closes
  <2> QED
    BY <2>2 DEF Working, Promotes, Closes
<1>19. CASE RegistryComplete \/ RegistryReconcile
  BY <1>18, <1>19 DEF RegistryComplete, RegistryReconcile
<1>20. CASE RegistryAbort \/ MarkRegistryCompleted
  BY <1>0, <1>20 DEF RegistryAbort, MarkRegistryCompleted
<1>21. CASE \/ RepeatRefused \/ RecoveryStart \/ RecoveryEnds \/ RecoveryRefuses
            \/ RefusalReported \/ Crash
  BY <1>0, <1>21
  DEF RepeatRefused, RecoveryStart, RecoveryEnds, RecoveryRefuses, RefusalReported, Crash
<1>22. CASE (\E a \in Admissions : AdmitTicket(a)) \/ (\E s \in Settlements : SettleTickets(s))
  BY <1>0, <1>22 DEF AdmitTicket, SettleTickets, PublishBook, Saves
<1>23. CASE ReaderLoad \/ UNCHANGED vars
  BY <1>23 DEF ReaderLoad, vars, Standing, Working, Staged
<1> QED
  BY <1>2, <1>3, <1>4, <1>5, <1>6, <1>7, <1>8, <1>9, <1>11, <1>12, <1>14, <1>15, <1>16,
     <1>17, <1>18, <1>19, <1>20, <1>21, <1>22, <1>23 DEF Next, HolderStep

-----------------------------------------------------------------------------
(* The invariant.                                                          *)

LEMMA Starts == Init => IInv
<1> SUFFICES ASSUME Init PROVE IInv
  OBVIOUS
<1> USE DEF Init
<1>1. CanonicalTyped /\ book = Absent
  BY DEF CanonicalTyped, Contents
<1>2. JournalTyped /\ Journaled
  <2>1. NoGeneration \in Generations
    BY DEF NoGeneration, Generations
  <2> QED
    BY <2>1 DEF JournalTyped, Journals, EmptyJournal, Journaled, Fits, Generation,
                NoGeneration
<1>3. RegistryTyped
  <2>1. NoState \in States
    BY StateType DEF NoState, Contents
  <2>2. (CHOOSE d \in Datasets : TRUE) \in Datasets
    BY ConstantsAssumption
  <2> QED
    BY <2>1, <2>2 DEF RegistryTyped
<1>4. TransactionTyped
  <2>1. NoState \in States
    BY StateType DEF NoState, Contents
  <2> QED
    BY <2>1 DEF TransactionTyped, Phases
<1>5. ControlTyped
  BY ConstantsAssumption DEF ControlTyped, Positions
<1>6. TypeOK
  BY <1>1, <1>2, <1>3, <1>4, <1>5, Types
<1>7. Standing
  BY DEF Standing, Placed, Publishing, Working, Gated, Saves, Promotes, Closes
<1>8. Lives /\ Planned /\ Traced /\ Applied /\ AtMostOneUnfinished /\ Repeats
  BY DEF Lives, Life, Planned, Plan, Traced, Trace, Applied, AtMostOneUnfinished,
         Unfinished, Repeats, Committed, Published
<1> QED
  BY <1>2, <1>6, <1>7, <1>8 DEF IInv, Records

LEMMA Continues == IInv /\ [Next]_vars => IInv'
<1> SUFFICES ASSUME IInv, [Next]_vars PROVE IInv'
  OBVIOUS
<1>1. TypeOK /\ Standing /\ Records
  BY DEF IInv
<1>2. TypeOK'
  BY <1>1, TypesKept DEF Standing, Records
<1>3. Placed' /\ Publishing' /\ Working' /\ Gated'
  BY <1>1, PlacedKept, PublishingKept, WorkingKept, GatedKept, Types DEF Standing
<1>4. Journaled' /\ Lives' /\ Planned' /\ Traced' /\ Applied'
  BY <1>1, JournaledKept, LivesKept, PlannedKept, TracedKept, AppliedKept
<1>5. AtMostOneUnfinished' /\ Repeats'
  BY <1>1, AtMostOneUnfinishedKept, RepeatsKept
<1> QED
  BY <1>2, <1>3, <1>4, <1>5 DEF IInv, Standing, Records

\* Whatever the interleaving of sessions, admissions, settlements, readers,
\* deaths and recoveries, registry, manifests, journal and canonical files
\* stand to each other as IInv says.
THEOREM Invariant == Spec => []IInv
BY Starts, Continues, PTL DEF Spec

\* Every variable keeps its type, and a handler is being executed exactly
\* while WorkspaceEconomicLock is held.
THEOREM TypeCorrect == Spec => []TypeOK
<1>1. IInv => TypeOK
  BY DEF IInv
<1> QED
  BY <1>1, Invariant, PTL

\* The gates of run_dataset, of RunRegistry.begin and of recovery never let
\* two runs be open.
THEOREM OneRunIsOpen == Spec => []AtMostOneUnfinished
<1>1. IInv => AtMostOneUnfinished
  BY DEF IInv, Records
<1> QED
  BY <1>1, Invariant, PTL

\* A run that RunRegistry.complete or reconcile_completed_summary has closed
\* is in the canonical book, ledger and summaries, and stays there.
THEOREM CompletedIsApplied == Spec => []CompletedMeansApplied
<1>1. IInv => CompletedMeansApplied
  BY DEF IInv, Records, Lives, Life, Applied, InPlace, CompletedMeansApplied
<1> QED
  BY <1>1, Invariant, PTL

\* A run that abort_uncommitted has closed left nothing in the canonical
\* files, and no recovery ever promotes what it staged.
THEOREM AbortedIsAbsent == Spec => []AbortedLeavesNoTrace
<1>1. IInv => AbortedLeavesNoTrace
  BY DEF IInv, Records, Lives, Life, Traced, Trace, Committed, AbortedLeavesNoTrace
<1> QED
  BY <1>1, Invariant, PTL

\* RunRegistry.begin and recovery together: of two completed runs of one
\* experiment, one asked to repeat it.
THEOREM RepeatsWereAsked == Spec => []NoSilentRepeat
<1>1. IInv => NoSilentRepeat
  BY DEF IInv, Records, Repeats, NoSilentRepeat
<1> QED
  BY <1>1, Invariant, PTL

\* A save or a promotion of PaperBook may die at any step: PaperBook.load
\* admits what is then at the canonical path.
THEOREM BookLoads == Spec => []BookStaysLoadable
<1>1. IInv => BookStaysLoadable
  BY FitsVerifies, Types DEF IInv, Records, Journaled, JournalTyped, BookStaysLoadable
<1> QED
  BY <1>1, Invariant, PTL

\* No step of anybody takes an effect out of the canonical files, deletes the
\* book or changes the verdict of the registry on a closed run.
THEOREM EffectsArePermanent == Spec => NothingIsUndone
<1> DEFINE Kept ==
      /\ book # Absent => book' # Absent /\ book \subseteq book'
      /\ ledger \subseteq ledger' /\ summaries \subseteq summaries'
      /\ \A r \in Runs : status[r] \in {"completed", "aborted"} => status'[r] = status[r]
<1>1. IInv /\ [Next]_vars => [Kept]_vars
  <2> SUFFICES ASSUME IInv, [Next]_vars PROVE Kept
    OBVIOUS
  <2>1. TypeOK /\ Standing /\ Records
    BY DEF IInv
  <2> QED
    BY <2>1, CanonicalGrows, EntriesMove
<1> QED
  BY <1>1, Invariant, PTL DEF Spec, NothingIsUndone

-----------------------------------------------------------------------------
(* With every writer of the book behind the gates: no settlement is        *)
(* published while a run is unresolved, here because there is none.        *)

EveryWriterGated == Settlements = {}

\* A save finds no run unfinished.
LEMMA SavesAreGated ==
    ASSUME EveryWriterGated, TypeOK, Standing, SaveReplace
    PROVE  /\ \A r \in Runs : ~Unfinished(r)
           /\ \/ book = Absent /\ cand = {}
              \/ book # Absent /\ \E a \in Admissions : a \notin book /\ cand = book \cup {a}
<1>1. pc = "save_replace"
  BY DEF SaveReplace
<1>2. \/ lock = "session" /\ book = Absent /\ cand = {}
      \/ /\ lock # "session" /\ book # Absent
         /\ \E x \in Writers : x \notin book /\ cand = book \cup {x}
  BY <1>1 DEF Standing, Publishing
<1>3. lock # "settlement"
  BY <1>2 DEF Writers, EveryWriterGated
<1> QED
  BY <1>1, <1>2, <1>3 DEF Writers, Standing, Gated, Saves

\* A promotion works on the one run that is unfinished.
LEMMA PromotesTheOpenRun ==
    ASSUME TypeOK, Standing, Records, pc \in Promotes
    PROVE  /\ cur \in Runs /\ phase[cur] \in {"precommitted", "canonical_committed"}
           /\ \A r \in Runs : Unfinished(r) => r = cur
<1>1. cur \in Runs /\ Life(cur) /\ phase[cur] \in {"precommitted", "canonical_committed"}
  BY RunOfHolder DEF Standing, Working
<1>2. Unfinished(cur)
  BY <1>1 DEF Life, Unfinished
<1> QED
  BY <1>1, <1>2 DEF Records, AtMostOneUnfinished

\* What a step makes of the transaction of one run.
LEMMA TransactionsMove ==
    ASSUME TypeOK, Standing, Records, [Next]_vars, NEW r \in Runs
    PROVE  /\ \/ phase'[r] = phase[r]
              \/ /\ Precommit /\ r = cur /\ status[r] = "in_progress"
                 /\ phase[r] = "staging" /\ phase'[r] = "precommitted"
              \/ /\ MarkCanonicalCommitted /\ r = cur /\ phase'[r] = "canonical_committed"
                 /\ phase[r] \in {"precommitted", "canonical_committed"}
              \/ /\ MarkRegistryCompleted /\ r = cur
                 /\ phase[r] = "canonical_committed" /\ phase'[r] = "completed"
              \/ /\ phase[r] \in {"none", "staging", "aborted"}
                 /\ phase'[r] \in {"staging", "aborted"} /\ status[r] = "in_progress"
           /\ \/ base'[r] = base[r]
              \/ RegistryBegin /\ r = cur /\ base'[r] = State(book, ledger)
           /\ \/ new'[r] = new[r]
              \/ Precommit /\ r = cur /\ new'[r] = staged[r].outputs
<1> USE DEF canonical, registry, transaction
<1>a. TransactionTyped /\ RegistryTyped
  BY Types
<1>0. CASE UNCHANGED <<phase, base, new>>
  BY <1>0
<1>1. CASE RegistryBegin
  BY <1>1, <1>a DEF RegistryBegin, RegistryTyped
<1>2. CASE StartManifest
  <2>1. cur \in Runs /\ Life(cur) /\ status[cur] = "in_progress" /\ dir[cur] # "manifest"
    BY <1>2, RunOfHolder DEF StartManifest, Standing, Working
  <2> QED
    BY <1>2, <1>a, <2>1 DEF StartManifest, TransactionTyped, Life
<1>3. CASE WorkRaises
  <2>1. cur \in Runs /\ status[cur] = "in_progress" /\ phase[cur] = "staging"
    BY <1>3, RunOfHolder DEF WorkRaises, Standing, Working
  <2> QED
    BY <1>3, <1>a, <2>1 DEF WorkRaises, TransactionTyped
<1>4. CASE Precommit
  <2>1. cur \in Runs /\ status[cur] = "in_progress" /\ phase[cur] = "staging"
    BY <1>4, RunOfHolder DEF Precommit, Standing, Working
  <2> QED
    BY <1>4, <1>a, <2>1 DEF Precommit, TransactionTyped
<1>5. CASE MarkCanonicalCommitted
  <2>1. cur \in Runs /\ phase[cur] \in {"precommitted", "canonical_committed"}
    BY <1>5, RunOfHolder DEF MarkCanonicalCommitted, Standing, Working, Promotes
  <2> QED
    BY <1>5, <1>a, <2>1 DEF MarkCanonicalCommitted, TransactionTyped
<1>6. CASE MarkRegistryCompleted
  <2>1. cur \in Runs /\ phase[cur] = "canonical_committed"
    BY <1>6, RunOfHolder DEF MarkRegistryCompleted, Standing, Working, Closes
  <2> QED
    BY <1>6, <1>a, <2>1 DEF MarkRegistryCompleted, TransactionTyped
<1>7. CASE \E q \in Runs : RecoverStaging(q)
  BY <1>7, <1>a DEF RecoverStaging, MayAbortManifest, InProgress, TransactionTyped
<1>8. CASE \/ SaveReplace \/ StartMkdir \/ StartTemporary \/ StageOutputs \/ RegistryAbort
           \/ StageSummary \/ PromoteReplace \/ PromoteLedger \/ PromoteSummary \/ CloseEntry
           \/ \E q \in Runs, d \in Datasets, rep \in BOOLEAN : SessionStart(q, d, rep)
           \/ \E q \in Runs : RecoverUnmanifested(q)
  BY <1>0, <1>8
  DEF SaveReplace, StartMkdir, StartTemporary, StageOutputs, RegistryAbort, StageSummary,
      PromoteReplace, PromoteLedger, PromoteSummary, CloseEntry, SessionStart,
      RecoverUnmanifested
<1> QED
  BY <1>0, <1>1, <1>2, <1>3, <1>4, <1>5, <1>6, <1>7, <1>8, OthersOnlyMove DEF Acting

\* While a run is open, only its own promotion moves the canonical files.
LEMMA OpenRunHasTheFiles ==
    ASSUME EveryWriterGated, TypeOK, Standing, Records, [Next]_vars,
           NEW r \in Runs, Unfinished(r)
    PROVE  \/ UNCHANGED canonical
           \/ /\ PromoteReplace \/ PromoteLedger \/ PromoteSummary
              /\ r = cur /\ phase[r] \in {"precommitted", "canonical_committed"}
<1>1. ~SaveReplace
  BY SavesAreGated
<1>2. ASSUME PromoteReplace \/ PromoteLedger \/ PromoteSummary
      PROVE  r = cur /\ phase[r] \in {"precommitted", "canonical_committed"}
  BY <1>2, PromotesTheOpenRun DEF PromoteReplace, PromoteLedger, PromoteSummary, Promotes
<1> QED
  BY <1>1, <1>2, CanonicalMoves

LEMMA BaseKept ==
    ASSUME EveryWriterGated, IInv, IInv', [Next]_vars, CanonicalIsBaseUntilPrecommit
    PROVE  CanonicalIsBaseUntilPrecommit'
<1> SUFFICES ASSUME NEW r \in Runs, status'[r] = "in_progress",
                    phase'[r] \in {"none", "staging", "aborted"}
             PROVE  AtBase(r)' /\ r \notin summaries'
  BY DEF CanonicalIsBaseUntilPrecommit
<1>1. TypeOK /\ Standing /\ Records
  BY DEF IInv
<1>2. r \notin summaries'
  BY DEF IInv, Records, Traced, Trace, Committed
<1>3. CASE RegistryBegin /\ r = cur
  <2>1. base'[r] = State(book, ledger) /\ UNCHANGED canonical
    BY <1>1, <1>3, Types DEF RegistryBegin, RegistryTyped
  <2> QED
    BY <1>2, <2>1, StateType DEF AtBase, canonical
<1>4. CASE ~(RegistryBegin /\ r = cur)
  <2>1. status[r] = "in_progress" /\ base'[r] = base[r]
    BY <1>1, <1>4, EntriesMove, TransactionsMove
  <2>2. phase[r] \in {"none", "staging", "aborted"}
    BY <1>1, TransactionsMove
  <2>3. UNCHANGED canonical
    BY <1>1, <2>1, <2>2, OpenRunHasTheFiles DEF Unfinished
  <2>4. AtBase(r)
    BY <2>1, <2>2 DEF CanonicalIsBaseUntilPrecommit
  <2> QED
    BY <1>2, <2>1, <2>3, <2>4 DEF AtBase, canonical
<1> QED
  BY <1>3, <1>4

LEMMA OrderKept ==
    ASSUME EveryWriterGated, IInv, IInv', [Next]_vars, CanonicalIsBaseUntilPrecommit,
           PromotionOrder
    PROVE  PromotionOrder'
<1> DEFINE Ordered(r) ==
      /\ book \in {base[r].book, new[r].book}
      /\ ledger \in {base[r].ledger, new[r].ledger}
      /\ ledger # base[r].ledger => book = new[r].book
      /\ r \in summaries => book = new[r].book /\ ledger = new[r].ledger
      /\ phase[r] = "canonical_committed" => r \in summaries
<1> SUFFICES ASSUME NEW r \in Runs, phase'[r] \in {"precommitted", "canonical_committed"}
             PROVE  Ordered(r)'
  BY DEF PromotionOrder
<1>1. TypeOK /\ Standing /\ Records
  BY DEF IInv
<1>2. CASE Precommit /\ r = cur
  <2>1. /\ phase'[r] = "precommitted" /\ phase[r] = "staging" /\ status[r] = "in_progress"
        /\ UNCHANGED canonical
    BY <1>1, <1>2, RunOfHolder, Types
    DEF Precommit, Standing, Working, TransactionTyped
  <2>2. AtBase(r) /\ r \notin summaries
    BY <2>1 DEF CanonicalIsBaseUntilPrecommit
  <2>3. base'[r] = base[r]
    BY <1>1, <1>2, TransactionsMove DEF Precommit, RegistryBegin
  <2> QED
    BY <2>1, <2>2, <2>3 DEF AtBase, canonical
<1>3. CASE ~(Precommit /\ r = cur)
  <2>1. phase[r] \in {"precommitted", "canonical_committed"} /\ new'[r] = new[r]
    BY <1>1, <1>3, TransactionsMove
  <2>2. Life(r) /\ Ordered(r)
    BY <1>1, <2>1 DEF Records, Lives, PromotionOrder
  <2>3. base'[r] = base[r]
    <3>1. ~(RegistryBegin /\ r = cur)
      BY <1>1, <2>1, <2>2, AtBegin DEF RegistryBegin, Life
    <3> QED
      BY <1>1, <3>1, TransactionsMove
  <2>4. Unfinished(r)
    BY <2>1, <2>2 DEF Life, Unfinished
  <2>5. CASE UNCHANGED canonical
    <3>1. phase'[r] = "canonical_committed" => r \in summaries
      <4>1. CASE phase'[r] = phase[r]
        BY <2>2, <4>1
      <4>2. CASE MarkCanonicalCommitted /\ r = cur
        BY <4>2 DEF MarkCanonicalCommitted, Standing, Working, IInv
      <4> QED
        BY <1>1, <2>1, <4>1, <4>2, TransactionsMove
    <3> QED
      BY <2>1, <2>2, <2>3, <2>5, <3>1 DEF canonical
  <2>6. CASE PromoteReplace \/ PromoteLedger \/ PromoteSummary
    <3>1. r = cur
      BY <1>1, <2>4, <2>6, PromotesTheOpenRun
      DEF PromoteReplace, PromoteLedger, PromoteSummary, Promotes
    <3>2. phase'[r] = phase[r]
      BY <2>6 DEF PromoteReplace, PromoteLedger, PromoteSummary, transaction
    <3>3. CASE PromoteReplace
      BY <1>1, <2>1, <2>2, <2>3, <3>1, <3>2, <3>3, PromoteReplaces DEF PromoteReplace
    <3>4. CASE PromoteLedger
      <4>1. /\ ledger' = new[r].ledger /\ book = new[r].book
            /\ UNCHANGED <<book, summaries>>
        BY <1>1, <3>1, <3>4, PromotesLedger DEF PromoteLedger, Standing, Working
      <4> QED
        BY <2>1, <2>2, <2>3, <3>2, <4>1
    <3>5. CASE PromoteSummary
      <4>1. /\ ledger = new[r].ledger /\ book = new[r].book
            /\ UNCHANGED <<book, ledger>> /\ summaries' = summaries \cup {r}
        BY <1>1, <3>1, <3>5 DEF PromoteSummary, Standing, Working
      <4> QED
        BY <2>1, <2>2, <2>3, <3>2, <4>1
    <3> QED
      BY <2>6, <3>3, <3>4, <3>5
  <2> QED
    BY <1>1, <2>4, <2>5, <2>6, OpenRunHasTheFiles
<1> QED
  BY <1>2, <1>3

LEMMA NeverRefusedKept ==
    ASSUME IInv, [Next]_vars, CanonicalIsBaseUntilPrecommit,
           PromotionOrder, ManifestedRunsRecover
    PROVE  ManifestedRunsRecover'
<1> SUFFICES ASSUME pc' = "refused" PROVE dir'[cur'] # "manifest"
  BY DEF ManifestedRunsRecover
<1> USE DEF canonical, registry, transaction, control, Goto, Release, Handle
<1>a. TypeOK /\ Standing /\ Records
  BY DEF IInv
<1>1. CASE RecoveryRefuses /\ pc = "scan"
  <2>1. PICK r \in Runs : Unrecoverable(r) /\ cur' = r
    BY <1>1 DEF RecoveryRefuses
  <2>2. SUFFICES ASSUME dir[r] = "manifest" PROVE FALSE
    BY <1>1, <2>1 DEF RecoveryRefuses
  <2>3. Life(r) /\ phase[r] \in Phases
    BY <1>a, Types DEF Records, Lives, TransactionTyped
  <2>4. CASE r \in InProgress
    <3>1. ~MayAbortManifest(r) /\ ~MayRollForward(r)
      BY <2>1, <2>4 DEF Unrecoverable
    <3>2. phase[r] \in {"staging", "aborted"}
      BY <2>2, <2>3, <2>4, <3>1 DEF MayRollForward, Life, Phases
    <3>3. AtBase(r) /\ r \notin summaries
      BY <2>4, <3>2 DEF InProgress, CanonicalIsBaseUntilPrecommit
    <3> QED
      BY <2>2, <2>4, <3>1, <3>2, <3>3 DEF MayAbortManifest
  <2>5. CASE r \notin InProgress
    <3>1. InProgress = {} /\ ~HistoryValid(r) /\ ~MayRollForward(r)
      BY <2>1, <2>5 DEF Unrecoverable
    <3>2. status[r] \in {"completed", "aborted"}
      BY <1>a, <2>2, <2>3, <2>5, Types DEF Life, RegistryTyped, InProgress
    <3>3. CASE status[r] = "completed"
      <4>1. phase[r] \in Published /\ r \in summaries
        BY <1>a, <2>3, <3>3 DEF Life, Records, Applied, InPlace
      <4> QED
        BY <2>2, <3>1, <3>3, <4>1 DEF Published, HistoryValid, MayRollForward
    <3>4. CASE status[r] = "aborted"
      <4>1. phase[r] = "aborted"
        BY <2>2, <2>3, <3>4 DEF Life
      <4>2. r \notin summaries
        BY <1>a, <4>1 DEF Records, Traced, Trace, Committed
      <4> QED
        BY <2>2, <3>1, <3>4, <4>1, <4>2 DEF HistoryValid
    <3> QED
      BY <3>2, <3>3, <3>4
  <2> QED
    BY <2>4, <2>5
<1>2. CASE RecoveryRefuses /\ pc = "commit"
  <2>1. ~Preflight(cur)
    BY <1>2 DEF RecoveryRefuses
  <2>2. cur \in Runs /\ phase[cur] \in {"precommitted", "canonical_committed"}
    BY <1>2, <1>a, PromotesTheOpenRun DEF Promotes
  <2>3. staged[cur].outputs = new[cur] /\ staged[cur].summary
    BY <1>a, <2>2, PlannedContents DEF Committed, Records
  <2>4. book \in {base[cur].book, new[cur].book} /\ ledger \in {base[cur].ledger, new[cur].ledger}
    BY <2>2 DEF PromotionOrder
  <2> QED
    BY <2>1, <2>2, <2>3, <2>4 DEF Preflight
<1>3. CASE ReaderLoad \/ UNCHANGED vars
  BY <1>3 DEF ReaderLoad, vars, ManifestedRunsRecover
<1>4. ASSUME [Next]_vars, ~RecoveryRefuses, ~ReaderLoad, ~UNCHANGED vars
      PROVE  pc' # "refused"
  <2>1. CASE SavePrepare \/ SaveReplace \/ SaveCommit \/ RegistryBegin \/ RepeatRefused
             \/ StartMkdir \/ StartTemporary \/ StartManifest \/ StartRaises
             \/ StageOutputs \/ WorkRaises \/ RegistryAbort \/ StageSummary \/ Precommit
    BY <2>1
    DEF SavePrepare, SaveReplace, SaveCommit, RegistryBegin, RepeatRefused, StartMkdir,
        StartTemporary, StartManifest, StartRaises, StageOutputs, WorkRaises,
        RegistryAbort, StageSummary, Precommit
  <2>2. CASE CommitPreflight \/ PromoteRecover \/ PromoteSkip \/ PromotePrepare
             \/ PromoteReplace \/ PromoteCommit \/ PromoteLedger \/ PromoteSummary
             \/ MarkCanonicalCommitted \/ CloseEntry \/ MarkRegistryCompleted
    BY <2>2
    DEF CommitPreflight, PromoteRecover, PromoteSkip, PromotePrepare, PromoteReplace,
        PromoteCommit, PromoteLedger, PromoteSummary, MarkCanonicalCommitted, CloseEntry,
        MarkRegistryCompleted
  <2>3. CASE RecoveryStart \/ RecoveryEnds \/ RefusalReported \/ Crash
    BY <2>3 DEF RecoveryStart, RecoveryEnds, RefusalReported, Crash
  <2>4. CASE \E r \in Runs :
                RecoverStaging(r) \/ RecoverUnmanifested(r) \/ RecoverCommitted(r)
    BY <2>4 DEF RecoverStaging, RecoverUnmanifested, RecoverCommitted
  <2>5. CASE (\E a \in Admissions : AdmitTicket(a)) \/ (\E s \in Settlements : SettleTickets(s))
    BY <2>5 DEF AdmitTicket, SettleTickets, PublishBook
  <2>6. CASE \E r \in Runs, d \in Datasets, rep \in BOOLEAN : SessionStart(r, d, rep)
    BY <2>6 DEF SessionStart
  <2> QED
    BY <1>4, <2>1, <2>2, <2>3, <2>4, <2>5, <2>6
    DEF Next, HolderStep, RegistryComplete, RegistryReconcile
<1> QED
  BY <1>1, <1>2, <1>3, <1>4 DEF RecoveryRefuses

GInv == IInv /\ CanonicalIsBaseUntilPrecommit /\ PromotionOrder /\ ManifestedRunsRecover

\* IInv, what is open is at its BASE, what is precommitted is between BASE and
\* NEW, and recovery has not refused a manifest.
THEOREM GatedInvariant ==
    ASSUME EveryWriterGated
    PROVE  Spec => []GInv
<1>1. Init => GInv
  <2> SUFFICES ASSUME Init PROVE GInv
    OBVIOUS
  <2>1. IInv
    BY Starts
  <2> QED
    BY <2>1 DEF Init, GInv, CanonicalIsBaseUntilPrecommit, PromotionOrder,
                ManifestedRunsRecover
<1>2. GInv /\ [Next]_vars => GInv'
  <2> SUFFICES ASSUME GInv, [Next]_vars PROVE GInv'
    OBVIOUS
  <2>1. IInv'
    BY Continues DEF GInv
  <2>2. CanonicalIsBaseUntilPrecommit' /\ PromotionOrder' /\ ManifestedRunsRecover'
    BY <2>1, BaseKept, OrderKept, NeverRefusedKept DEF GInv
  <2> QED
    BY <2>1, <2>2 DEF GInv
<1> QED
  BY <1>1, <1>2, PTL DEF Spec

\* While a run is open its files are BASE: the attempt can still be aborted.
THEOREM OpenRunsAreAtBase ==
    ASSUME EveryWriterGated
    PROVE  Spec => []CanonicalIsBaseUntilPrecommit
<1>1. GInv => CanonicalIsBaseUntilPrecommit
  BY DEF GInv
<1> QED
  BY <1>1, GatedInvariant, PTL

\* RunTransaction.commit, cut short anywhere and taken up by any number of
\* recoveries, keeps every file BASE or NEW and the order book, ledger, summary.
THEOREM PromotionsAreOrdered ==
    ASSUME EveryWriterGated
    PROVE  Spec => []PromotionOrder
<1>1. GInv => PromotionOrder
  BY DEF GInv
<1> QED
  BY <1>1, GatedInvariant, PTL

\* reconcile_late_crashes never refuses an attempt that has a manifest.
THEOREM ManifestsAreNotRefused ==
    ASSUME EveryWriterGated
    PROVE  Spec => []ManifestedRunsRecover
<1>1. GInv => ManifestedRunsRecover
  BY DEF GInv
<1> QED
  BY <1>1, GatedInvariant, PTL

-----------------------------------------------------------------------------
(* One atomic commit per run.                                              *)

Contained == IF book = Absent THEN {} ELSE book
Rolls(r) == phase[r] \in {"precommitted", "canonical_committed"}

\* The published content: what the one run that is rolling forward names, or
\* what is in the files.
PublishedAsNamed ==
    /\ \A r \in Runs : Rolls(r) =>
         PublishedBook = new[r].book /\ PublishedLedger = new[r].ledger
    /\ (\A r \in Runs : ~Rolls(r)) =>
         PublishedBook = Contained /\ PublishedLedger = ledger

LEMMA Publishes == IInv => PublishedAsNamed
<1> SUFFICES ASSUME IInv PROVE PublishedAsNamed
  OBVIOUS
<1>1. \A r \in RollingForward : Unfinished(r)
  BY DEF RollingForward, IInv, Records, Lives, Life, Unfinished
<1>2. ASSUME NEW r \in Runs, Rolls(r)
      PROVE  PublishedBook = new[r].book /\ PublishedLedger = new[r].ledger
  <2>1. RollingForward = {r}
    BY <1>1, <1>2 DEF RollingForward, Rolls, IInv, Records, AtMostOneUnfinished
  <2> QED
    BY <2>1 DEF PublishedBook, PublishedLedger
<1>3. ASSUME \A r \in Runs : ~Rolls(r)
      PROVE  PublishedBook = Contained /\ PublishedLedger = ledger
  <2>1. RollingForward = {}
    BY <1>3 DEF RollingForward, Rolls
  <2> QED
    BY <2>1 DEF PublishedBook, PublishedLedger, Contained
<1> QED
  BY <1>2, <1>3 DEF PublishedAsNamed

\* The three steps that decide a run.
LEMMA OutcomesMove ==
    ASSUME IInv, [Next]_vars, NEW r \in Runs
    PROVE  \/ Outcome(r)' = Outcome(r)
           \/ RegistryBegin /\ r = cur /\ Outcome(r) = "none" /\ Outcome(r)' = "open"
           \/ Precommit /\ r = cur /\ Outcome(r) = "open" /\ Outcome(r)' = "committed"
           \/ RegistryAbort /\ r = cur /\ Outcome(r) = "open" /\ Outcome(r)' = "aborted"
<1>a. TypeOK /\ Standing /\ Records /\ Life(r)
  BY DEF IInv, Records, Lives
<1>1. CASE RegistryBegin \/ RegistryAbort \/ CloseEntry
  <2>1. phase' = phase
    BY <1>1 DEF RegistryBegin, RegistryAbort, CloseEntry, transaction
  <2>2. CASE status'[r] = status[r]
    BY <2>1, <2>2 DEF Outcome
  <2>3. CASE RegistryBegin /\ r = cur /\ status[r] = "none" /\ status'[r] = "in_progress"
    <3>1. phase[r] = "none"
      BY <1>a, <2>3 DEF Life
    <3> QED
      BY <2>1, <2>3, <3>1 DEF Outcome
  <2>4. CASE RegistryAbort /\ r = cur /\ status[r] = "in_progress" /\ status'[r] = "aborted"
    <3>1. phase[r] \in {"none", "aborted"}
      BY <1>a, <2>4 DEF RegistryAbort, Standing, Working
    <3> QED
      BY <2>1, <2>4, <3>1 DEF Outcome
  <2>5. CASE CloseEntry /\ r = cur
    <3>1. phase[r] = "canonical_committed"
      BY <1>a, <2>5 DEF CloseEntry, Closes, Standing, Working
    <3> QED
      BY <2>1, <3>1 DEF Outcome
  <2> QED
    BY <1>a, <2>2, <2>3, <2>4, <2>5, EntriesMove
<1>2. CASE ~RegistryBegin /\ ~RegistryAbort /\ ~CloseEntry
  <2>1. status'[r] = status[r]
    BY <1>a, <1>2, EntriesMove
  <2>2. CASE phase'[r] = phase[r]
    BY <2>1, <2>2 DEF Outcome
  <2>3. CASE /\ Precommit /\ r = cur /\ status[r] = "in_progress"
             /\ phase[r] = "staging" /\ phase'[r] = "precommitted"
    BY <2>1, <2>3 DEF Outcome
  <2>4. CASE /\ phase[r] \in {"precommitted", "canonical_committed"}
             /\ phase'[r] \in {"canonical_committed", "completed"}
    BY <2>1, <2>4 DEF Outcome
  <2>5. CASE /\ phase[r] \in {"none", "staging", "aborted"}
             /\ phase'[r] \in {"staging", "aborted"}
    BY <2>1, <2>5 DEF Outcome
  <2> QED
    BY <1>a, <2>2, <2>3, <2>4, <2>5, TransactionsMove
<1> QED
  BY <1>1, <1>2

\* What is published stands still with the manifests that name it, or with
\* the files when none does.
LEMMA PublishedStays ==
    ASSUME PublishedAsNamed, PublishedAsNamed', UNCHANGED canonical,
           \A r \in Runs : Rolls(r)' = Rolls(r) /\ (Rolls(r) => new'[r] = new[r])
    PROVE  UNCHANGED <<PublishedBook, PublishedLedger>>
<1>1. CASE \E r \in Runs : Rolls(r)
  BY <1>1 DEF PublishedAsNamed
<1>2. CASE \A r \in Runs : ~Rolls(r)
  BY <1>2 DEF PublishedAsNamed, Contained, canonical
<1> QED
  BY <1>1, <1>2

\* Each decision, and each admission, is the step of EconomicCommit of that
\* name; every other step of a writer, a reader, a death or a recovery leaves
\* what is published and decided alone.
LEMMA StepsRefine ==
    ASSUME EveryWriterGated, GInv, IInv', PublishedAsNamed, PublishedAsNamed', [Next]_vars
    PROVE  [Abstract!Next]_(Abstract!vars)
<1> DEFINE outcome == [r \in Runs |-> Outcome(r)]
<1>a. IInv /\ TypeOK /\ Standing /\ Records /\ CanonicalTyped
  BY Types DEF GInv, IInv
<1>b. ASSUME \A r \in Runs : Outcome(r) # "open" PROVE Abstract!NoneOpen
  BY <1>b DEF Abstract!NoneOpen
<1>c. ASSUME \A r \in Runs : ~Unfinished(r) PROVE \A r \in Runs : Outcome(r) # "open"
  BY <1>a, <1>c, Types DEF Unfinished, Outcome, RegistryTyped
<1>d. ASSUME \A r \in Runs : ~Unfinished(r) PROVE \A r \in Runs : ~Rolls(r)
  BY <1>a, <1>d DEF Records, Lives, Life, Unfinished, Rolls
<1>1. CASE RegistryBegin
  <2>1. cur \in Runs /\ \A r \in Runs : ~Unfinished(r)
    BY <1>1, <1>a, RunOfHolder, AtBegin DEF RegistryBegin
  <2>2. Outcome(cur) = "none"
    BY <1>1, <1>a, <2>1, AtBegin DEF RegistryBegin, Records, Lives, Life, Outcome
  <2>3. \A r \in Runs : Outcome(r)' = IF r = cur THEN "open" ELSE Outcome(r)
    <3>1. status'[cur] = "in_progress" /\ phase' = phase
      BY <1>1, <1>a, <2>1, Types DEF RegistryBegin, RegistryTyped, transaction
    <3>2. phase[cur] \notin {"precommitted", "canonical_committed", "completed"}
      BY <2>2 DEF Outcome
    <3>3. \A r \in Runs : r = cur => Outcome(r)' = "open"
      BY <3>1, <3>2 DEF Outcome
    <3>4. ~Precommit /\ ~RegistryAbort
      BY <1>1 DEF Precommit, RegistryAbort, RegistryBegin
    <3> QED
      BY <1>1, <1>a, <3>3, <3>4, OutcomesMove
  <2>4. UNCHANGED <<PublishedBook, PublishedLedger>>
    BY <1>1, PublishedStays DEF RegistryBegin, transaction, Rolls
  <2>5. Abstract!Open(cur)
    BY <1>b, <1>c, <2>1, <2>2, <2>3, <2>4 DEF Abstract!Open
  <2> QED
    BY <2>1, <2>5 DEF Abstract!Next
<1>2. CASE RegistryAbort
  <2>1. cur \in Runs
    BY <1>2, <1>a, RunOfHolder DEF RegistryAbort
  <2>2. \A r \in Runs : r = cur => Outcome(r) = "open" /\ Outcome(r)' = "aborted"
    <3>1. /\ status[cur] = "in_progress" /\ phase[cur] \in {"none", "aborted"}
          /\ status'[cur] = "aborted" /\ phase' = phase
      BY <1>2, <1>a, <2>1, Types
      DEF RegistryAbort, RegistryTyped, transaction, Standing, Working
    <3> QED
      BY <3>1 DEF Outcome
  <2>3. \A r \in Runs : Outcome(r)' = IF r = cur THEN "aborted" ELSE Outcome(r)
    <3>1. ~Precommit /\ ~RegistryBegin
      BY <1>2 DEF Precommit, RegistryAbort, RegistryBegin
    <3> QED
      BY <1>2, <1>a, <2>2, <3>1, OutcomesMove
  <2>4. UNCHANGED <<PublishedBook, PublishedLedger>>
    BY <1>2, PublishedStays DEF RegistryAbort, transaction, Rolls
  <2>5. Abstract!Abort(cur)
    BY <2>1, <2>2, <2>3, <2>4 DEF Abstract!Abort
  <2> QED
    BY <2>1, <2>5 DEF Abstract!Next
<1>3. CASE Precommit
  <2>1. /\ cur \in Runs /\ status[cur] = "in_progress" /\ phase[cur] = "staging"
        /\ Staged(cur)
    BY <1>3, <1>a, RunOfHolder DEF Precommit, Standing, Working
  <2>2. /\ AtBase(cur) /\ book # Absent
    BY <1>a, <2>1 DEF GInv, CanonicalIsBaseUntilPrecommit, Records, Lives, Life, AtBase
  <2>3. \A r \in Runs : ~Rolls(r)
    BY <1>a, <2>1 DEF Records, Lives, Life, AtMostOneUnfinished, Unfinished, Rolls
  <2>4. PublishedBook = book /\ PublishedLedger = ledger
    BY <2>2, <2>3 DEF PublishedAsNamed, Contained
  <2>5. phase'[cur] = "precommitted" /\ new'[cur] = staged[cur].outputs
    BY <1>3, <1>a, <2>1, Types DEF Precommit, TransactionTyped
  <2>6. PublishedBook' = new'[cur].book /\ PublishedLedger' = new'[cur].ledger
    BY <2>1, <2>5 DEF PublishedAsNamed, Rolls
  <2>7. /\ PublishedBook' \in {PublishedBook, PublishedBook \cup {cur}}
        /\ PublishedLedger' \in {PublishedLedger, PublishedLedger \cup {cur}}
    BY <2>1, <2>2, <2>4, <2>5, <2>6 DEF Staged, AtBase
  <2>8. \A r \in Runs : r = cur => Outcome(r) = "open" /\ Outcome(r)' = "committed"
    BY <2>1, <2>5 DEF Outcome
  <2>9. \A r \in Runs : Outcome(r)' = IF r = cur THEN "committed" ELSE Outcome(r)
    <3>1. ~RegistryAbort /\ ~RegistryBegin
      BY <1>3 DEF Precommit, RegistryAbort, RegistryBegin
    <3> QED
      BY <1>3, <1>a, <2>8, <3>1, OutcomesMove
  <2>10. /\ \E stake \in SUBSET {cur} : PublishedBook' = PublishedBook \cup stake
         /\ \E decided \in SUBSET {cur} : PublishedLedger' = PublishedLedger \cup decided
    <3>1. {} \in SUBSET {cur} /\ {cur} \in SUBSET {cur}
      OBVIOUS
    <3>2. PublishedBook \cup {} = PublishedBook /\ PublishedLedger \cup {} = PublishedLedger
      OBVIOUS
    <3>3. /\ PublishedBook' = PublishedBook \cup {} \/ PublishedBook' = PublishedBook \cup {cur}
          /\ \/ PublishedLedger' = PublishedLedger \cup {}
             \/ PublishedLedger' = PublishedLedger \cup {cur}
      BY <2>7, <3>2
    <3> QED
      BY <3>1, <3>3
  <2>11. Abstract!Commit(cur)
    BY <2>1, <2>8, <2>9, <2>10 DEF Abstract!Commit
  <2> QED
    BY <2>1, <2>11 DEF Abstract!Next
<1>4. ASSUME ~RegistryBegin, ~RegistryAbort, ~Precommit
      PROVE  outcome' = outcome
  BY <1>a, <1>4, OutcomesMove
<1>5. CASE SaveReplace
  <2>1. /\ ~RegistryBegin /\ ~RegistryAbort /\ ~Precommit
        /\ UNCHANGED <<ledger, phase, new>> /\ book' = cand
    BY <1>5 DEF SaveReplace, RegistryBegin, RegistryAbort, Precommit, transaction
  <2>2. \A r \in Runs : ~Unfinished(r) /\ ~Rolls(r) /\ ~Rolls(r)'
    BY <1>5, <1>a, <1>d, <2>1, SavesAreGated DEF Rolls
  <2>3. /\ PublishedBook = Contained /\ PublishedBook' = Contained'
        /\ UNCHANGED PublishedLedger
    BY <2>1, <2>2 DEF PublishedAsNamed
  <2>4. cand # Absent
    BY <1>a, ContentsArePresent DEF CanonicalTyped
  <2>5. CASE book = Absent /\ cand = {}
    <3>1. UNCHANGED PublishedBook
      BY <2>1, <2>3, <2>4, <2>5 DEF Contained
    <3> QED
      BY <1>4, <2>1, <2>3, <3>1 DEF Abstract!vars
  <2>6. ASSUME book # Absent, NEW a \in Admissions, a \notin book, cand = book \cup {a}
        PROVE  Abstract!Admit(a)
    <3>1. PublishedBook = book /\ PublishedBook' = book \cup {a}
      BY <2>1, <2>3, <2>4, <2>6 DEF Contained
    <3> QED
      BY <1>b, <1>c, <1>4, <2>1, <2>2, <2>3, <2>6, <3>1 DEF Abstract!Admit
  <2> QED
    BY <1>5, <1>a, <2>5, <2>6, SavesAreGated DEF Abstract!Next
<1>6. CASE PromoteReplace \/ PromoteLedger \/ PromoteSummary
  <2>1. /\ ~RegistryBegin /\ ~RegistryAbort /\ ~Precommit /\ pc \in Promotes
        /\ UNCHANGED <<phase, new>>
    BY <1>6 DEF PromoteReplace, PromoteLedger, PromoteSummary, RegistryBegin,
                RegistryAbort, Precommit, transaction, Promotes
  <2>2. cur \in Runs /\ \A r \in Runs : r = cur => Rolls(r) /\ Rolls(r)'
    BY <1>a, <2>1, PromotesTheOpenRun DEF Rolls
  <2>3. UNCHANGED <<PublishedBook, PublishedLedger>>
    BY <2>1, <2>2 DEF PublishedAsNamed
  <2> QED
    BY <1>4, <2>1, <2>3 DEF Abstract!vars
<1>7. CASE MarkRegistryCompleted
  <2>1. /\ ~RegistryBegin /\ ~RegistryAbort /\ ~Precommit
        /\ UNCHANGED <<canonical, new>> /\ book = new[cur].book /\ ledger = new[cur].ledger
    BY <1>7 DEF MarkRegistryCompleted, RegistryBegin, RegistryAbort, Precommit
  <2>2. cur \in Runs /\ phase[cur] = "canonical_committed" /\ phase'[cur] = "completed"
    BY <1>7, <1>a, RunOfHolder, Types
    DEF MarkRegistryCompleted, Standing, Working, Closes, TransactionTyped
  <2>3. \A r \in Runs : r # cur => ~Rolls(r) /\ phase'[r] = phase[r]
    BY <1>7, <1>a, <2>2, Types
    DEF MarkRegistryCompleted, Records, Lives, Life, AtMostOneUnfinished, Unfinished,
        Rolls, TransactionTyped
  <2>4. \A r \in Runs : ~Rolls(r)'
    BY <2>2, <2>3 DEF Rolls
  <2>5. PublishedBook = book /\ PublishedLedger = ledger
    BY <2>1, <2>2 DEF PublishedAsNamed, Rolls
  <2>6. PublishedBook' = Contained' /\ PublishedLedger' = ledger'
    BY <2>4 DEF PublishedAsNamed
  <2>7. book # Absent
    BY <1>a, <2>1, <2>2, PlannedContents, ContentsArePresent DEF Records, Committed
  <2>8. UNCHANGED <<PublishedBook, PublishedLedger>>
    BY <2>1, <2>5, <2>6, <2>7 DEF Contained, canonical
  <2> QED
    BY <1>4, <2>1, <2>8 DEF Abstract!vars
<1>8. CASE /\ ~RegistryBegin /\ ~RegistryAbort /\ ~Precommit /\ ~SaveReplace
           /\ ~PromoteReplace /\ ~PromoteLedger /\ ~PromoteSummary
           /\ ~MarkRegistryCompleted
  <2>1. UNCHANGED canonical
    BY <1>8, CanonicalMoves
  <2>2. \A r \in Runs : Rolls(r)' = Rolls(r) /\ new'[r] = new[r]
    BY <1>8, <1>a, TransactionsMove DEF Rolls
  <2>3. UNCHANGED <<PublishedBook, PublishedLedger>>
    BY <2>1, <2>2, PublishedStays
  <2> QED
    BY <1>4, <1>8, <2>3 DEF Abstract!vars
<1> QED
  BY <1>1, <1>2, <1>3, <1>5, <1>6, <1>7, <1>8

\* Files promoted one by one, a journal, deaths, aborts and recoveries amount
\* to one atomic commit per run, between gated admissions.
THEOREM Refinement ==
    ASSUME EveryWriterGated
    PROVE  Spec => ImplementsEconomicCommit
<1>1. Init => Abstract!Init
  <2> SUFFICES ASSUME Init PROVE Abstract!Init
    OBVIOUS
  <2>1. \A r \in Runs : ~Rolls(r) /\ Outcome(r) = "none"
    BY DEF Init, Rolls, Outcome
  <2>2. PublishedBook = {} /\ PublishedLedger = {}
    BY <2>1, Starts, Publishes DEF PublishedAsNamed, Contained, Init
  <2> QED
    BY <2>1, <2>2 DEF Abstract!Init
<1>2. IInv' => PublishedAsNamed'
  BY Publishes, PTL
<1>3. GInv /\ GInv' /\ [Next]_vars => [Abstract!Next]_(Abstract!vars)
  BY <1>2, Publishes, StepsRefine DEF GInv
<1> QED
  BY <1>1, <1>3, GatedInvariant, PTL DEF Spec, ImplementsEconomicCommit, Abstract!Spec

=============================================================================
