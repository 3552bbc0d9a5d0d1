----------------------- MODULE PaperBookWitnessProofs -----------------------
(***************************************************************************)
(* Machine-checked proofs that the witness protocol of PaperBookWitness    *)
(* keeps its safety properties for every number of objects, edits and      *)
(* generations.  The inductive invariant says where a generation may stand *)
(* between its PREPARE and its COMMIT (Files), who may be inside a         *)
(* publication and what it has written so far (Saving), and that a binding *)
(* which still names the committed generation belongs to an object that    *)
(* has lost nothing (Bindings).                                            *)
(***************************************************************************)
EXTENDS PaperBookWitness, TLAPS

\* The generations in the journal: the pending one is the newest ever
\* prepared, and only generation 0 names no bytes.
Generational ==
    /\ journal.readable
    /\ journal.committed.gen <= journal.last
    /\ journal.committed.gen = 0 <=> journal.committed.sha = Absent
    /\ journal.pending # NoGeneration =>
        /\ journal.pending.gen = journal.last
        /\ journal.committed.gen < journal.pending.gen
        /\ journal.pending.sha # Absent

\* The bytes at the path are those of a generation the journal still names,
\* and a pending generation drops nothing the committed one holds.
Files ==
    /\ journal.pending = NoGeneration => file = journal.committed.sha
    /\ journal.pending # NoGeneration =>
        /\ file \in {journal.committed.sha, journal.pending.sha}
        /\ Extends(journal.committed.sha, journal.pending.sha)

\* Whoever is inside a save holds the lock, alone, and the pending generation
\* is the one it prepared.
Saving ==
    \A b \in Books : pc[b] # "idle" =>
        /\ lock = {b}
        /\ journal.pending # NoGeneration
        /\ journal.pending.sha = mem[b]
        /\ file = IF pc[b] = "prepared" THEN journal.committed.sha ELSE mem[b]

\* A binding never runs ahead of the journal, and while it still names the
\* committed generation its object holds all of it.
Bindings ==
    \A b \in bound :
        /\ binding[b].gen <= journal.last
        /\ journal.pending # NoGeneration => binding[b].gen < journal.pending.gen
        /\ binding[b] = journal.committed => Extends(journal.committed.sha, mem[b])

IInv == TypeOK /\ Generational /\ Files /\ Saving /\ Bindings

-----------------------------------------------------------------------------
(* The operators of the journal.                                           *)

\* The pair that stands for `None' is a generation.
LEMMA NoGenerationType == NoGeneration \in Generations
BY DEF NoGeneration, Generations, Snapshots

\* A PREPARE for the next generation is accepted when nothing is pending, and
\* leaves the committed generation alone.
LEMMA PrepareFacts ==
    ASSUME NEW j \in Journals, NEW s \in Snapshots,
           j.pending = NoGeneration, j.readable
    PROVE  LET k == AppendPrepare(j, NextGeneration(j, s)) IN
           /\ k \in Journals
           /\ k.readable
           /\ k.last = j.last + 1
           /\ k.committed = j.committed
           /\ k.pending = [gen |-> j.last + 1, sha |-> s]
           /\ k.pending # NoGeneration
<1> DEFINE g == [gen |-> j.last + 1, sha |-> s]
           k == AppendPrepare(j, NextGeneration(j, s))
<1>1. g \in Generations /\ g # NoGeneration
  BY DEF Generations, NoGeneration, Journals
<1>2. k = [j EXCEPT !.readable = TRUE, !.last = j.last + 1, !.pending = g]
  BY DEF AppendPrepare, NextGeneration, Journals
<1>3. k = [last |-> j.last + 1, committed |-> j.committed, pending |-> g, readable |-> TRUE]
  <2> HIDE DEF k, g
  <2> QED  BY <1>2 DEF Journals
<1>4. k \in Journals /\ k.readable /\ k.last = j.last + 1
      /\ k.committed = j.committed /\ k.pending = g
  <2>1. j.last + 1 \in Nat /\ j.committed \in Generations
    BY DEF Journals
  <2> HIDE DEF k, g
  <2> QED  BY <1>1, <1>3, <2>1 DEF Journals
<1> QED
  BY <1>1, <1>4

\* A COMMIT makes the pending generation the committed one.
LEMMA CommitFacts ==
    ASSUME NEW j \in Journals, j.readable
    PROVE  LET k == AppendCommit(j, j.pending) IN
           /\ k \in Journals
           /\ k.readable
           /\ k.last = j.last
           /\ k.committed = j.pending
           /\ k.pending = NoGeneration
BY NoGenerationType DEF AppendCommit, Journals

\* An ABORT leaves the committed generation and closes the pending one.
LEMMA AbortFacts ==
    ASSUME NEW j \in Journals, j.readable
    PROVE  LET k == AppendAbort(j, j.pending) IN
           /\ k \in Journals
           /\ k.readable
           /\ k.last = j.last
           /\ k.committed = j.committed
           /\ k.pending = NoGeneration
BY NoGenerationType DEF AppendAbort, Journals

\* Recovery always succeeds on a journal and a file the invariant allows: it
\* ends with nothing pending and with the bytes at the path committed, by the
\* generation that was committed or by the one that was pending.
LEMMA RecoveredFacts ==
    ASSUME TypeOK, Generational, Files
    PROVE  LET k == Recovered(journal, file) IN
           /\ Recoverable(journal, file)
           /\ k \in Journals
           /\ k.readable
           /\ k.last = journal.last
           /\ k.pending = NoGeneration
           /\ k.committed.sha = file
           /\ \/ k.committed = journal.committed
              \/ journal.pending # NoGeneration /\ k.committed = journal.pending
<1> DEFINE k == Recovered(journal, file)
<1>1. journal \in Journals /\ journal.readable
  BY DEF TypeOK, Generational
<1>2. CASE journal.pending = NoGeneration
  BY <1>1, <1>2 DEF Recovered, Recoverable, Files
<1>3. CASE journal.pending # NoGeneration /\ file = journal.pending.sha
  <2>1. k = AppendCommit(journal, journal.pending)
    BY <1>3 DEF Recovered
  <2> QED
    BY <1>1, <1>3, <2>1, CommitFacts DEF Recoverable
<1>4. CASE journal.pending # NoGeneration /\ file # journal.pending.sha
  <2>1. k = AppendAbort(journal, journal.pending) /\ file = journal.committed.sha
    BY <1>4 DEF Recovered, Files
  <2> QED
    BY <1>1, <1>4, <2>1, AbortFacts DEF Recoverable
<1> QED
  BY <1>2, <1>3, <1>4

-----------------------------------------------------------------------------
(* Every action keeps the inductive invariant.                             *)

\* Bytes held in memory are never the bytes of an absent file.
LEMMA MemoryIsPresent ==
    ASSUME TypeOK, NEW b \in Books
    PROVE  mem[b] \in Contents /\ mem[b] \in Snapshots /\ mem[b] # Absent
BY ConstantsAssumption DEF TypeOK, Contents, Snapshots

\* Extends is a preorder, and more edits extend more.
LEMMA ExtendsFacts ==
    /\ \A s \in Snapshots : Extends(s, s) /\ Extends(Absent, s)
    /\ \A s, t \in Snapshots, e \in Edits :
         t # Absent /\ Extends(s, t) => Extends(s, t \cup {e})
BY ConstantsAssumption DEF Extends, Snapshots, Contents

\* An empty workspace satisfies it.
LEMMA InitInv == Init => IInv
<1> SUFFICES ASSUME Init PROVE IInv
  OBVIOUS
<1>1. journal \in Journals
  BY NoGenerationType DEF Init, EmptyJournal, Journals
<1>2. TypeOK
  BY <1>1, NoGenerationType DEF Init, TypeOK, Snapshots, Contents
<1>3. Generational
  BY DEF Init, Generational, EmptyJournal, NoGeneration
<1>4. Files
  BY DEF Init, Files, EmptyJournal, NoGeneration
<1>5. Saving /\ Bindings
  BY DEF Init, Saving, Bindings
<1> QED
  BY <1>2, <1>3, <1>4, <1>5 DEF IInv

\* A load closes what is pending and binds its object to the committed bytes.
LEMMA LoadInv ==
    ASSUME IInv, NEW b \in Books, Load(b)
    PROVE  IInv'
<1> USE DEF IInv
<1> DEFINE k == Recovered(journal, file)
<1>1. /\ k \in Journals /\ k.readable /\ k.last = journal.last
      /\ k.pending = NoGeneration /\ k.committed.sha = file
      /\ \/ k.committed = journal.committed
         \/ journal.pending # NoGeneration /\ k.committed = journal.pending
  BY RecoveredFacts
<1>2. /\ journal' = k /\ file' = file /\ lock' = lock /\ pc' = pc /\ lock = {}
      /\ file # Absent
      /\ mem' = [mem EXCEPT ![b] = file] /\ bound' = bound \cup {b}
      /\ binding' = [binding EXCEPT ![b] = k.committed]
  BY DEF Load, Verifies
<1> HIDE DEF k
<1>3. k.committed \in Generations /\ k.committed.gen \in Nat /\ k.last \in Nat
  BY <1>1 DEF Journals, Generations
<1>4. TypeOK'
  <2>1. file \in Contents
    BY <1>2 DEF TypeOK, Snapshots
  <2> QED
    BY <1>1, <1>2, <1>3, <2>1 DEF TypeOK
<1>5. Generational'
  BY <1>1, <1>2, <1>3 DEF Generational, TypeOK, Journals, Generations, NoGeneration
<1>6. Files'
  BY <1>1, <1>2 DEF Files
<1>7. Saving'
  BY <1>2 DEF Saving
<1>8. Bindings'
  <2> SUFFICES ASSUME NEW c \in bound'
               PROVE  /\ binding'[c].gen <= k.last
                      /\ binding'[c] = k.committed => Extends(k.committed.sha, mem'[c])
    BY <1>1, <1>2 DEF Bindings
  <2>1. CASE c = b
    <3>1. binding'[b] = k.committed /\ mem'[b] = file
      BY <1>2 DEF TypeOK
    <3>2. k.committed.gen <= k.last
      BY <1>1, <1>3 DEF Generational, TypeOK, Journals, Generations
    <3> QED
      BY <1>1, <1>2, <2>1, <3>1, <3>2, ExtendsFacts DEF TypeOK
  <2>2. CASE c # b
    <3>1. c \in bound /\ c \in Books /\ binding'[c] = binding[c] /\ mem'[c] = mem[c]
      BY <1>2, <2>2 DEF TypeOK
    <3>2. binding[c].gen <= journal.last
      BY <3>1 DEF Bindings
    <3>3. k.committed = journal.committed =>
            (binding[c] = k.committed => Extends(k.committed.sha, mem[c]))
      BY <3>1 DEF Bindings
    <3>4. journal.pending # NoGeneration /\ k.committed = journal.pending
            => binding[c] # k.committed
      <4>1. binding[c].gen \in Nat /\ journal.pending.gen \in Nat
        BY <3>1 DEF TypeOK, Journals, Generations
      <4> QED
        BY <3>1, <4>1 DEF Bindings
    <3> QED
      BY <1>1, <3>1, <3>2, <3>3, <3>4
  <2> QED
    BY <2>1, <2>2
<1> QED
  BY <1>4, <1>5, <1>6, <1>7, <1>8

\* An edit adds to one copy in memory; nothing durable moves.
LEMMA EditInv ==
    ASSUME IInv, NEW b \in Books, NEW e \in Edits, Edit(b, e)
    PROVE  IInv'
<1> USE DEF IInv
<1>1. /\ pc[b] = "idle" /\ mem' = [mem EXCEPT ![b] = @ \cup {e}]
      /\ UNCHANGED <<file, journal, lock, bound, binding, pc>>
  BY DEF Edit
<1>2. TypeOK'
  BY <1>1 DEF TypeOK, Contents
<1>3. Generational' /\ Files'
  BY <1>1 DEF Generational, Files
<1>4. Saving'
  BY <1>1 DEF Saving, TypeOK
<1>5. Bindings'
  <2> SUFFICES ASSUME NEW c \in bound, binding[c] = journal.committed
               PROVE  Extends(journal.committed.sha, mem'[c])
    BY <1>1 DEF Bindings
  <2>1. c \in Books /\ Extends(journal.committed.sha, mem[c])
    BY DEF Bindings, TypeOK
  <2>2. journal.committed.sha \in Snapshots
    BY DEF TypeOK, Journals, Generations
  <2>3. mem'[c] = IF c = b THEN mem[c] \cup {e} ELSE mem[c]
    BY <1>1, <2>1 DEF TypeOK
  <2> QED
    BY <2>1, <2>2, <2>3, MemoryIsPresent, ExtendsFacts
<1> QED
  BY <1>2, <1>3, <1>4, <1>5

\* A PREPARE is written by an object that holds all that is committed, so the
\* generation it leaves pending drops nothing.
LEMMA SaveBeginInv ==
    ASSUME IInv, NEW b \in Books, SaveBegin(b)
    PROVE  IInv'
<1> USE DEF IInv
<1> DEFINE k == AppendPrepare(journal, NextGeneration(journal, mem[b]))
<1>1. /\ lock = {} /\ lock' = {b} /\ journal' = k /\ bound' = bound \cup {b}
      /\ binding' = [binding EXCEPT ![b] = journal.committed]
      /\ pc' = [pc EXCEPT ![b] = "prepared"]
      /\ UNCHANGED <<file, mem>>
  BY DEF SaveBegin
<1>2. journal.pending = NoGeneration /\ journal.readable /\ file = journal.committed.sha
  BY DEF SaveBegin, MayPublish, Current, HasDurableState
<1>3. mem[b] \in Snapshots /\ mem[b] # Absent
  BY MemoryIsPresent
<1>4. /\ k \in Journals /\ k.readable /\ k.last = journal.last + 1
      /\ k.committed = journal.committed
      /\ k.pending = [gen |-> journal.last + 1, sha |-> mem[b]]
      /\ k.pending # NoGeneration
  BY <1>2, <1>3, PrepareFacts DEF TypeOK
<1>5. Extends(journal.committed.sha, mem[b])
  <2>1. CASE b \in bound
    BY <2>1 DEF SaveBegin, MayPublish, Current, Bindings
  <2>2. CASE b \notin bound
    <3>1. journal.committed.sha = Absent
      BY <2>2 DEF SaveBegin, MayPublish, NoGeneration
    <3> QED
      BY <1>3, <3>1, ExtendsFacts
  <2> QED
    BY <2>1, <2>2
<1> HIDE DEF k
<1>6. journal.last \in Nat /\ journal.committed \in Generations
      /\ journal.committed.gen \in Nat
  BY DEF TypeOK, Journals, Generations
<1>7. TypeOK'
  BY <1>1, <1>4, <1>6 DEF TypeOK
<1>8. Generational'
  BY <1>1, <1>3, <1>4, <1>6 DEF Generational
<1>9. Files'
  BY <1>1, <1>2, <1>4, <1>5 DEF Files
<1>10. Saving'
  BY <1>1, <1>2, <1>4 DEF Saving, TypeOK
<1>11. Bindings'
  <2> SUFFICES ASSUME NEW c \in bound'
               PROVE  /\ binding'[c].gen <= journal.last
                      /\ binding'[c] = journal.committed
                            => Extends(journal.committed.sha, mem[c])
    <3>1. \A c \in bound' : binding'[c].gen \in Nat
      BY <1>1, <1>7 DEF TypeOK, Generations
    <3> QED
      BY <1>1, <1>4, <1>6, <3>1 DEF Bindings
  <2>1. CASE c = b
    BY <1>1, <1>5, <2>1 DEF TypeOK, Generational
  <2>2. CASE c # b
    BY <1>1, <2>2 DEF TypeOK, Bindings
  <2> QED
    BY <2>1, <2>2
<1> QED
  BY <1>7, <1>8, <1>9, <1>10, <1>11

\* os.replace moves the path from the committed bytes to the pending ones.
LEMMA SaveReplaceInv ==
    ASSUME IInv, NEW b \in Books, SaveReplace(b)
    PROVE  IInv'
<1> USE DEF IInv
<1>1. /\ pc[b] = "prepared" /\ file' = mem[b] /\ pc' = [pc EXCEPT ![b] = "replaced"]
      /\ UNCHANGED <<journal, lock, bound, binding, mem>>
  BY DEF SaveReplace
<1>2. /\ lock = {b} /\ journal.pending # NoGeneration
      /\ journal.pending.sha = mem[b]
  BY <1>1 DEF Saving
<1>3. TypeOK'
  BY <1>1, MemoryIsPresent DEF TypeOK
<1>4. Generational' /\ Bindings'
  BY <1>1 DEF Generational, Bindings
<1>5. Files'
  BY <1>1, <1>2 DEF Files
<1>6. Saving'
  <2>1. \A c \in Books : c # b => pc[c] = "idle"
    BY <1>2 DEF Saving
  <2> QED
    BY <1>1, <1>2, <2>1 DEF Saving, TypeOK
<1> QED
  BY <1>3, <1>4, <1>5, <1>6

\* A COMMIT makes the pending generation the committed one; no other binding
\* names it, because every other binding is older.
LEMMA SaveCommitInv ==
    ASSUME IInv, NEW b \in Books, SaveCommit(b)
    PROVE  IInv'
<1> USE DEF IInv
<1> DEFINE k == AppendCommit(journal, journal.pending)
<1>1. /\ pc[b] = "replaced" /\ journal' = k /\ lock' = {}
      /\ binding' = [binding EXCEPT ![b] = k.committed]
      /\ pc' = [pc EXCEPT ![b] = "idle"]
      /\ UNCHANGED <<file, bound, mem>>
  BY DEF SaveCommit
<1>2. /\ lock = {b} /\ journal.pending # NoGeneration
      /\ journal.pending.sha = mem[b] /\ file = mem[b]
  BY <1>1 DEF Saving
<1>3. /\ k \in Journals /\ k.readable /\ k.last = journal.last
      /\ k.committed = journal.pending /\ k.pending = NoGeneration
  BY CommitFacts DEF TypeOK, Generational
<1> HIDE DEF k
<1>4. /\ journal.pending \in Generations /\ journal.pending.gen \in Nat
      /\ journal.committed.gen \in Nat /\ journal.last \in Nat
  BY DEF TypeOK, Journals, Generations
<1>5. TypeOK'
  BY <1>1, <1>3, <1>4 DEF TypeOK
<1>6. Generational'
  BY <1>1, <1>2, <1>3, <1>4 DEF Generational
<1>7. Files'
  BY <1>1, <1>2, <1>3 DEF Files
<1>8. Saving'
  <2>1. \A c \in Books : c # b => pc[c] = "idle"
    BY <1>2 DEF Saving
  <2> QED
    BY <1>1, <2>1 DEF Saving, TypeOK
<1>9. Bindings'
  <2> SUFFICES ASSUME NEW c \in bound
               PROVE  /\ binding'[c].gen <= journal.last
                      /\ binding'[c] = journal.pending
                            => Extends(journal.pending.sha, mem[c])
    BY <1>1, <1>3 DEF Bindings
  <2>1. CASE c = b
    <3>1. binding'[b] = journal.pending
      BY <1>1, <1>3, <2>1 DEF TypeOK
    <3> QED
      BY <1>2, <1>4, <2>1, <3>1, MemoryIsPresent, ExtendsFacts DEF Generational
  <2>2. CASE c # b
    <3>1. c \in Books /\ binding'[c] = binding[c]
      BY <1>1, <2>2 DEF TypeOK
    <3>2. binding[c].gen \in Nat
      BY <3>1 DEF TypeOK, Generations
    <3> QED
      BY <1>2, <1>4, <3>1, <3>2 DEF Bindings
  <2> QED
    BY <2>1, <2>2
<1> QED
  BY <1>5, <1>6, <1>7, <1>8, <1>9

\* A save that raises leaves a pending generation behind, which Files allows.
LEMMA SaveRaisesInv ==
    ASSUME IInv, NEW b \in Books, SaveRaises(b)
    PROVE  IInv'
<1> USE DEF IInv
<1>1. /\ pc[b] # "idle" /\ lock' = {} /\ pc' = [pc EXCEPT ![b] = "idle"]
      /\ UNCHANGED <<file, journal, bound, binding, mem>>
  BY DEF SaveRaises
<1>2. \A c \in Books : c # b => pc[c] = "idle"
  BY <1>1 DEF Saving
<1>3. TypeOK'
  BY <1>1 DEF TypeOK
<1>4. Generational' /\ Files' /\ Bindings'
  BY <1>1 DEF Generational, Files, Bindings
<1>5. Saving'
  BY <1>1, <1>2 DEF Saving, TypeOK
<1> QED
  BY <1>3, <1>4, <1>5

\* A crash forgets an object, its binding and its place in a save.
LEMMA CrashInv ==
    ASSUME IInv, NEW b \in Books, Crash(b)
    PROVE  IInv'
<1> USE DEF IInv
<1>1. /\ lock' = lock \ {b} /\ bound' = bound \ {b}
      /\ binding' = [binding EXCEPT ![b] = NoGeneration]
      /\ mem' = [mem EXCEPT ![b] = {}] /\ pc' = [pc EXCEPT ![b] = "idle"]
      /\ UNCHANGED <<file, journal>>
  BY DEF Crash
<1>2. TypeOK'
  BY <1>1, NoGenerationType DEF TypeOK, Contents
<1>3. Generational' /\ Files'
  BY <1>1 DEF Generational, Files
<1>4. Saving'
  <2> SUFFICES ASSUME NEW c \in Books, c # b, pc[c] # "idle"
               PROVE  /\ lock \ {b} = {c}
                      /\ journal.pending # NoGeneration
                      /\ journal.pending.sha = mem[c]
                      /\ file = IF pc[c] = "prepared" THEN journal.committed.sha ELSE mem[c]
    BY <1>1 DEF Saving, TypeOK
  <2> QED
    BY DEF Saving
<1>5. Bindings'
  <2> SUFFICES ASSUME NEW c \in bound, c # b
               PROVE  /\ binding[c].gen <= journal.last
                      /\ journal.pending # NoGeneration
                            => binding[c].gen < journal.pending.gen
                      /\ binding[c] = journal.committed
                            => Extends(journal.committed.sha, mem[c])
    BY <1>1 DEF Bindings, TypeOK
  <2> QED
    BY DEF Bindings
<1> QED
  BY <1>2, <1>3, <1>4, <1>5

\* A step that changes nothing keeps it, and so does every step.
LEMMA NextInv == IInv /\ [Next]_vars => IInv'
<1> SUFFICES ASSUME IInv, [Next]_vars PROVE IInv'
  OBVIOUS
<1>1. CASE UNCHANGED vars
  BY <1>1 DEF vars, IInv, TypeOK, Generational, Files, Saving, Bindings
<1>2. CASE Next
  <2> PICK b \in Books :
        \/ Load(b)
        \/ \E e \in Edits : Edit(b, e)
        \/ SaveBegin(b)
        \/ SaveReplace(b)
        \/ SaveCommit(b)
        \/ SaveRaises(b)
        \/ Crash(b)
    BY <1>2 DEF Next
  <2>1. CASE Load(b)  BY <2>1, LoadInv
  <2>2. CASE \E e \in Edits : Edit(b, e)  BY <2>2, EditInv
  <2>3. CASE SaveBegin(b)  BY <2>3, SaveBeginInv
  <2>4. CASE SaveReplace(b)  BY <2>4, SaveReplaceInv
  <2>5. CASE SaveCommit(b)  BY <2>5, SaveCommitInv
  <2>6. CASE SaveRaises(b)  BY <2>6, SaveRaisesInv
  <2>7. CASE Crash(b)  BY <2>7, CrashInv
  <2> QED
    BY <2>1, <2>2, <2>3, <2>4, <2>5, <2>6, <2>7
<1> QED
  BY <1>1, <1>2

\* The inductive invariant holds in every behaviour of the witness protocol.
THEOREM Invariance == Spec => []IInv
<1> QED
  BY InitInv, NextInv, PTL DEF Spec

-----------------------------------------------------------------------------
(* What follows from it.                                                   *)

\* Every variable keeps its type, whatever loads, saves and crashes do.
THEOREM TypeCorrect == Spec => []TypeOK
<1>1. IInv => TypeOK
  BY DEF IInv
<1> QED
  BY <1>1, Invariance, PTL

\* No order of loads, saves, exceptions and crashes makes _read_witnesses
\* reject the journal.
THEOREM JournalReadable == Spec => []JournalStaysReadable
<1>1. IInv => JournalStaysReadable
  BY DEF IInv, Generational, JournalStaysReadable
<1> QED
  BY <1>1, Invariance, PTL

\* A snapshot at the path can be loaded at every instant.
THEOREM SnapshotLoadable == Spec => []SnapshotStaysLoadable
<1>1. IInv => SnapshotStaysLoadable
  <2> SUFFICES ASSUME IInv, file # Absent PROVE Verifies(journal, file)
    BY DEF SnapshotStaysLoadable
  <2> DEFINE k == Recovered(journal, file)
  <2>1. /\ Recoverable(journal, file) /\ k.committed.sha = file
        /\ \/ k.committed = journal.committed
           \/ journal.pending # NoGeneration /\ k.committed = journal.pending
    BY RecoveredFacts DEF IInv
  <2>2. journal.committed.gen \in Nat /\ journal.pending.gen \in Nat
    BY DEF IInv, TypeOK, Journals, Generations
  <2>3. k.committed.gen # 0
    BY <2>1, <2>2 DEF IInv, Generational
  <2> QED
    BY <2>1, <2>3 DEF Verifies
<1> QED
  BY <1>1, Invariance, PTL

\* An object that passes _require_bound_book holds everything durable.
THEOREM CurrentHoldsSnapshot == Spec => []CurrentObjectHoldsSnapshot
<1>1. IInv => CurrentObjectHoldsSnapshot
  BY DEF IInv, Bindings, Current, HasDurableState, CurrentObjectHoldsSnapshot
<1> QED
  BY <1>1, Invariance, PTL

\* Only os.replace touches the path, and what it installs extends what it
\* replaces: no ticket that reached the snapshot is ever overwritten.
THEOREM NoUpdateLost == Spec => NoLostUpdate
<1>1. IInv /\ [Next]_vars => [Extends(file, file')]_file
  <2> SUFFICES ASSUME IInv, Next, file' # file PROVE Extends(file, file')
    BY DEF vars
  <2>1. PICK b \in Books : SaveReplace(b)
    BY DEF Next, Load, Edit, SaveBegin, SaveCommit, SaveRaises, Crash
  <2> QED
    BY <2>1 DEF SaveReplace, IInv, Saving, Files
<1> QED
  BY <1>1, Invariance, PTL DEF Spec, NoLostUpdate

\* Generation numbers are spent once: the committed one only moves forward.
THEOREM GenerationsOnlyAdvance == Spec => GenerationsAdvance
<1>1. IInv /\ [Next]_vars =>
        [journal'.committed.gen > journal.committed.gen]_(journal.committed)
  <2> SUFFICES ASSUME IInv, Next, journal'.committed # journal.committed
               PROVE  journal'.committed.gen > journal.committed.gen
    BY DEF vars
  <2>1. journal.committed.gen \in Nat /\ journal.pending.gen \in Nat
    BY DEF IInv, TypeOK, Journals, Generations
  <2>2. journal.pending # NoGeneration /\ journal'.committed = journal.pending
    <3>1. PICK b \in Books : Load(b) \/ SaveBegin(b) \/ SaveCommit(b)
      BY DEF Next, Edit, SaveReplace, SaveRaises, Crash
    <3>2. CASE Load(b)
      BY <3>2, RecoveredFacts DEF Load, IInv
    <3>3. CASE SaveBegin(b)
      <4>1. journal'.committed = journal.committed
        BY <3>3, MemoryIsPresent, PrepareFacts
        DEF SaveBegin, MayPublish, Current, HasDurableState, IInv, TypeOK
      <4> QED
        BY <4>1
    <3>4. CASE SaveCommit(b)
      <4>1. journal'.committed = journal.pending
        BY <3>4, CommitFacts DEF SaveCommit, IInv, TypeOK, Generational
      <4> QED
        BY <3>4, <4>1 DEF SaveCommit, IInv, Saving
    <3> QED
      BY <3>1, <3>2, <3>3, <3>4
  <2> QED
    BY <2>1, <2>2 DEF IInv, Generational
<1> QED
  BY <1>1, Invariance, PTL DEF Spec, GenerationsAdvance

=============================================================================
