-------------------------- MODULE PaperBookWitness --------------------------
(***************************************************************************)
(* One durable PaperBook snapshot shared by PaperBook objects that live in *)
(* different processes: every object edits its own copy, and loads and     *)
(* publications go through the witness journal, the publication lock and   *)
(* the generation binding (compare-and-swap) that                          *)
(* _paperbook_preload_generation_cas_guard.py adds to PaperBook.load,      *)
(* PaperBook.save, open_ticket and settle.  A process may die between any  *)
(* two durable steps, or the step may raise and leave the process alive.   *)
(***************************************************************************)
EXTENDS PaperBookJournal

CONSTANTS
    Books,    \* PaperBook objects, each in a process of its own
    Edits,    \* economic edits (a ticket opened, a ticket settled)
    MaxGen    \* bound: PREPAREs appended to the journal

ASSUME ConstantsAssumption ==
    /\ MaxGen \in Nat \ {0}
    /\ Absent \notin SUBSET Edits

VARIABLES
    file,      \* bytes at the snapshot path: a set of edits, or Absent
    journal,   \* the witness journal
    lock,      \* the objects whose process holds the publication lock
    bound,     \* objects in _BOOK_BINDINGS
    binding,   \* the generation each of them is bound to
    mem,       \* the edits each object holds in memory
    pc         \* where each object's save stands

vars == <<file, journal, lock, bound, binding, mem, pc>>

Contents == SUBSET Edits
Snapshots == Contents \cup {Absent}
Generations == [gen : Nat, sha : Snapshots]
Journals == [last : Nat, committed : Generations, pending : Generations, readable : BOOLEAN]

\* A snapshot carries over everything an older one holds.
Extends(older, newer) == older = Absent \/ (newer # Absent /\ older \subseteq newer)

Init ==
    /\ file = Absent
    /\ journal = EmptyJournal
    /\ lock = {}
    /\ bound = {}
    /\ binding = [b \in Books |-> NoGeneration]
    /\ mem = [b \in Books |-> {}]
    /\ pc = [b \in Books |-> "idle"]

\* Mutant: the object is bound, to whatever generation.
BoundToAny(b) == b \in bound /\ HasDurableState(journal, file)

\* _require_bound_book: the object is bound to the generation that is durable now.
Current(b) ==
    /\ b \in bound
    /\ HasDurableState(journal, file)
    /\ binding[b] = journal.committed

\* Mutant: a path without a snapshot is loaded too.
LoadMissing(b) ==
    /\ pc[b] = "idle"
    /\ lock = {}
    /\ Recoverable(journal, file)
    /\ journal' = Recovered(journal, file)
    /\ mem' = [mem EXCEPT ![b] = file]
    /\ bound' = bound \cup {b}
    /\ binding' = [binding EXCEPT ![b] = journal'.committed]
    /\ UNCHANGED <<file, lock, pc>>

\* Mutant: a load refuses to decide a pending generation.
LoadClosedOnly(b) ==
    /\ pc[b] = "idle"
    /\ lock = {}
    /\ file # Absent /\ HasDurableState(journal, file)
    /\ mem' = [mem EXCEPT ![b] = file]
    /\ bound' = bound \cup {b}
    /\ binding' = [binding EXCEPT ![b] = journal.committed]
    /\ UNCHANGED <<file, journal, lock, pc>>

\* PaperBook.load: under the publication lock, close a pending generation,
\* admit the bytes and bind a new object to the generation they belong to.
Load(b) ==
    /\ pc[b] = "idle"
    /\ lock = {}
    /\ Verifies(journal, file)
    /\ journal' = Recovered(journal, file)
    /\ mem' = [mem EXCEPT ![b] = file]
    /\ bound' = bound \cup {b}
    /\ binding' = [binding EXCEPT ![b] = journal'.committed]
    /\ UNCHANGED <<file, lock, pc>>

\* The publication lock is taken without waiting, and a bound object must be
\* current; an object no path is bound to is edited freely.
MayEdit(b) == b \in bound => lock = {} /\ Current(b)

\* open_ticket and settle: one more edit, in memory only.  Ticket ids are
\* fresh, so no other copy holds the same edit.
Edit(b, e) ==
    /\ pc[b] = "idle"
    /\ \A other \in Books : e \notin mem[other]
    /\ \A s \in {file, journal.pending.sha} : s # Absent => e \notin s
    /\ MayEdit(b)
    /\ mem' = [mem EXCEPT ![b] = @ \cup {e}]
    /\ UNCHANGED <<file, journal, lock, bound, binding, pc>>

\* Mutant: the generation is compared, a pending one is overlooked.
MayPublishOverPending(b) ==
    IF b \in bound THEN binding[b] = journal.committed ELSE journal.committed = NoGeneration

\* A bound object may publish only over the generation it is bound to, a
\* fresh one only where nothing was ever published.
MayPublish(b) ==
    IF b \in bound THEN Current(b)
    ELSE HasDurableState(journal, file) /\ journal.committed = NoGeneration

\* PaperBook.save up to the durable PREPARE; an unbound object is bound to the
\* fresh path first.
SaveBegin(b) ==
    /\ pc[b] = "idle"
    /\ lock = {}
    /\ MayPublish(b)
    /\ journal.last < MaxGen
    /\ lock' = {b}
    /\ journal' = AppendPrepare(journal, NextGeneration(journal, mem[b]))
    /\ bound' = bound \cup {b}
    /\ binding' = [binding EXCEPT ![b] = journal.committed]
    /\ pc' = [pc EXCEPT ![b] = "prepared"]
    /\ UNCHANGED <<file, mem>>

\* os.replace of the candidate over the snapshot.
SaveReplace(b) ==
    /\ pc[b] = "prepared"
    /\ file' = mem[b]
    /\ pc' = [pc EXCEPT ![b] = "replaced"]
    /\ UNCHANGED <<journal, lock, bound, binding, mem>>

\* Mutant: the binding is advanced per path, for every object bound to it.
SaveCommitAdvancesAll(b) ==
    /\ pc[b] = "replaced"
    /\ journal' = AppendCommit(journal, journal.pending)
    /\ binding' = [c \in Books |-> IF c \in bound THEN journal'.committed ELSE binding[c]]
    /\ lock' = {}
    /\ pc' = [pc EXCEPT ![b] = "idle"]
    /\ UNCHANGED <<file, bound, mem>>

\* The COMMIT line, then _advance_book_binding, then the lock is released.
SaveCommit(b) ==
    /\ pc[b] = "replaced"
    /\ journal' = AppendCommit(journal, journal.pending)
    /\ binding' = [binding EXCEPT ![b] = journal'.committed]
    /\ lock' = {}
    /\ pc' = [pc EXCEPT ![b] = "idle"]
    /\ UNCHANGED <<file, bound, mem>>

\* An exception inside the save: the lock is released in `finally`, the object
\* lives on with its edits and with the binding it had.
SaveRaises(b) ==
    /\ pc[b] \in {"prepared", "replaced"}
    /\ lock' = {}
    /\ pc' = [pc EXCEPT ![b] = "idle"]
    /\ UNCHANGED <<file, journal, bound, binding, mem>>

\* The process dies and is started again: its object is gone, the operating
\* system releases its lock, a new and unbound PaperBook takes its place.
Crash(b) ==
    /\ lock' = lock \ {b}
    /\ bound' = bound \ {b}
    /\ binding' = [binding EXCEPT ![b] = NoGeneration]
    /\ mem' = [mem EXCEPT ![b] = {}]
    /\ pc' = [pc EXCEPT ![b] = "idle"]
    /\ UNCHANGED <<file, journal>>

SaveStep(b) == SaveReplace(b) \/ SaveCommit(b)

Next ==
    \E b \in Books :
        \/ Load(b)
        \/ \E e \in Edits : Edit(b, e)
        \/ SaveBegin(b)
        \/ SaveReplace(b)
        \/ SaveCommit(b)
        \/ SaveRaises(b)
        \/ Crash(b)

Spec == Init /\ [][Next]_vars

\* A process that holds the lock runs on (or dies), and the product keeps
\* loading the snapshot: session start, admission and every learning reader do.
Fairness ==
    \A b \in Books : WF_vars(SaveStep(b)) /\ WF_vars(Load(b))

FairSpec == Spec /\ Fairness

-----------------------------------------------------------------------------
TypeOK ==
    /\ file \in Snapshots
    /\ journal \in Journals
    /\ lock \in SUBSET Books
    /\ bound \in SUBSET Books
    /\ binding \in [Books -> Generations]
    /\ mem \in [Books -> Contents]
    /\ pc \in [Books -> {"idle", "prepared", "replaced"}]

\* However loads, saves, exceptions and crashes interleave, the lines in the
\* journal stay in an order _read_witnesses accepts: one bad PREPARE or COMMIT
\* would lock everybody out of the book for good.
JournalStaysReadable == journal.readable

\* At every instant, so after a crash at any instant, a snapshot at the path
\* can be loaded: its bytes decide what becomes of a pending generation and
\* are then the committed ones ("an incomplete generation for different bytes"
\* is never met).
SnapshotStaysLoadable == file # Absent => Verifies(journal, file)

\* An object that passes the generation check holds everything that is
\* durable: publishing it cannot drop what another process committed.
CurrentObjectHoldsSnapshot ==
    \A b \in Books : Current(b) => Extends(file, mem[b])

\* A ticket that reached the snapshot is never overwritten by a stale copy:
\* every replacement of the snapshot extends the one it replaces.
NoLostUpdate == [][Extends(file, file')]_file

\* A generation number is spent once: the committed generation only moves
\* forward, and the one that is committed keeps naming the same bytes, so an
\* old binding can never match again.
GenerationsAdvance ==
    [][journal'.committed.gen > journal.committed.gen]_(journal.committed)

\* Once a snapshot exists, a generation left pending by a crash or by an
\* exception is closed by a later load.
PendingIsClosed ==
    (journal.pending # NoGeneration /\ file # Absent) ~> (journal.pending = NoGeneration)

\* What "crash-recoverable witness" promises of a path, a fresh one included:
\* with the lock free, the book can be loaded, or it can be created.
BookCanBeLoadedOrCreated ==
    lock = {} => Verifies(journal, file) \/ \E b \in Books : MayPublish(b)

=============================================================================
