------------------------- MODULE MonotonicAuthority -------------------------
(***************************************************************************)
(* One key of MonotonicWorkspaceAuthority: the chain of PREPARE, COMMIT    *)
(* and ABORT records kept outside the workspace, so that a workspace       *)
(* restored from a backup is recognised.  Its history is summarised by     *)
(* what every operation derives from it: whether it has a record, the      *)
(* latest committed state and the state a pending PREPARE intends.  A      *)
(* state stands for its SHA-256 and None for no state.  The previous       *)
(* committed state a pending record carries is the latest committed one:   *)
(* nothing commits while a PREPARE is pending.                             *)
(***************************************************************************)
CONSTANTS None

NoHistory == [bound |-> FALSE, committed |-> None, pending |-> None]

Pending(a) == a.pending # None

\* prepare(): refused while another transaction is pending, and when the
\* workspace is not the latest committed one.
CanPrepare(a, observed) == ~Pending(a) /\ observed = a.committed

Prepared(a, intended) == [a EXCEPT !.bound = TRUE, !.pending = intended]

\* commit(): the workspace must show what the pending PREPARE intends.
CanCommit(a, observed) == Pending(a) /\ observed = a.pending

Committed(a) == [a EXCEPT !.committed = a.pending, !.pending = None]

Aborted(a) == [a EXCEPT !.pending = None]

\* Mutant: without a pending PREPARE any workspace is current.
RecoverableWithoutTipCheck(a, observed) ==
    Pending(a) => observed \in {a.committed, a.pending}

\* Mutant: the workspace a crash left ahead of the COMMIT is a conflict.
RecoverableAtTipOnly(a, observed) == observed = a.committed

\* recover(): the observed workspace decides how a pending PREPARE ends; a
\* workspace that is neither side of it, or not the latest commit, is refused.
Recoverable(a, observed) ==
    \/ observed = a.committed
    \/ Pending(a) /\ observed = a.pending

Recovered(a, observed) ==
    IF ~Pending(a) THEN a
    ELSE IF observed = a.committed THEN Aborted(a)
    ELSE Committed(a)

=============================================================================
