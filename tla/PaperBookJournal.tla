-------------------------- MODULE PaperBookJournal --------------------------
(***************************************************************************)
(* The append-only witness journal that authorises one PaperBook snapshot  *)
(* path (src/autosport/_paperbook_preload_authority_guard.py).  The code   *)
(* stores PREPARE / COMMIT / ABORT lines and folds the whole file on every *)
(* read; only the fold is ever used, so a journal is the fold: the last    *)
(* generation ever prepared, the committed generation, the pending one,    *)
(* and whether _read_witnesses still accepts the lines.  Digest chaining   *)
(* and the JSON schema of a line are abstracted: nothing in the system     *)
(* rewrites a line, so what can make the file unreadable is the ORDER of   *)
(* the events the writers append.                                          *)
(***************************************************************************)
EXTENDS Naturals

CONSTANT Absent   \* what stands at the snapshot path when no file is there

\* `None' of the code, for a committed or pending generation; as a binding it
\* is the pair (0, "") that _durable_binding_state returns for a fresh path.
NoGeneration == [gen |-> 0, sha |-> Absent]

EmptyJournal ==
    [last |-> 0, committed |-> NoGeneration, pending |-> NoGeneration, readable |-> TRUE]

\* Mutant: the successor is forgotten, so a number is spent twice.
SameGeneration(j, content) == [gen |-> j.last, sha |-> content]

\* The generation a writer puts in its next PREPARE: records[-1] + 1, where
\* an ABORTed generation counts as used.
NextGeneration(j, content) == [gen |-> j.last + 1, sha |-> content]

\* A PREPARE is accepted when nothing is pending and its generation is the
\* successor of the last one; COMMIT and ABORT only right after their PREPARE.
AppendPrepare(j, g) ==
    [j EXCEPT !.readable = @ /\ j.pending = NoGeneration /\ g.gen = j.last + 1,
              !.last = g.gen,
              !.pending = g]

AppendCommit(j, g) ==
    [j EXCEPT !.readable = @ /\ j.pending = g,
              !.committed = g,
              !.pending = NoGeneration]

AppendAbort(j, g) ==
    [j EXCEPT !.readable = @ /\ j.pending = g,
              !.pending = NoGeneration]

\* Mutant: recovery only ever rolls back.
RolledBack(j, file) ==
    IF j.pending = NoGeneration THEN j ELSE AppendAbort(j, j.pending)

\* _recover_pending: whether the bytes at the path decide the fate of the
\* pending generation, and the journal once they have.  The candidate's own
\* bytes are tried first, so a generation that republishes the committed
\* bytes is rolled forward.
Recoverable(j, file) ==
    /\ j.readable
    /\ \/ j.pending = NoGeneration
       \/ file = j.pending.sha
       \/ file = j.committed.sha

Recovered(j, file) ==
    IF j.pending = NoGeneration THEN j
    ELSE IF file = j.pending.sha THEN AppendCommit(j, j.pending)
    ELSE AppendAbort(j, j.pending)

\* _verify_snapshot_witness: the bytes are admitted when, after recovery, a
\* generation is committed and it is theirs.
Verifies(j, file) ==
    /\ file # Absent
    /\ Recoverable(j, file)
    /\ Recovered(j, file).committed.gen # 0
    /\ Recovered(j, file).committed.sha = file

\* _durable_binding_state: the generation that a fresh binding would name.
\* It refuses while any generation is pending, on unwitnessed bytes, and when
\* the bytes are not the committed ones.
HasDurableState(j, file) ==
    /\ j.readable
    /\ j.pending = NoGeneration
    /\ file = j.committed.sha

=============================================================================
