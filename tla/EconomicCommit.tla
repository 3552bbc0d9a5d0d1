--------------------------- MODULE EconomicCommit ---------------------------
(***************************************************************************)
(* What run transactions promise to a reader of the workspace: a paper run *)
(* reaches the canonical book and decision ledger in one atomic step or    *)
(* not at all, and an independent writer publishes only while no run is    *)
(* unresolved.  There are no files, crashes, journals or recovery here;    *)
(* RunTransaction implements this specification with all of them.          *)
(***************************************************************************)
CONSTANTS
    Runs,        \* run ids
    Admissions   \* tickets admitted one at a time, outside every run

VARIABLES
    outcome,     \* of every run: none, open, committed or aborted
    book,        \* the writers whose effects the canonical book holds
    ledger       \* the runs whose decisions the canonical ledger holds

vars == <<outcome, book, ledger>>

Init ==
    /\ outcome = [r \in Runs |-> "none"]
    /\ book = {}
    /\ ledger = {}

NoneOpen == \A r \in Runs : outcome[r] # "open"

Open(r) ==
    /\ outcome[r] = "none"
    /\ NoneOpen
    /\ outcome' = [outcome EXCEPT ![r] = "open"]
    /\ UNCHANGED <<book, ledger>>

\* A run may stake nothing, or decide nothing; what it did lands as a whole.
Commit(r) ==
    /\ outcome[r] = "open"
    /\ outcome' = [outcome EXCEPT ![r] = "committed"]
    /\ \E stake \in SUBSET {r} : book' = book \cup stake
    /\ \E decided \in SUBSET {r} : ledger' = ledger \cup decided

Abort(r) ==
    /\ outcome[r] = "open"
    /\ outcome' = [outcome EXCEPT ![r] = "aborted"]
    /\ UNCHANGED <<book, ledger>>

Admit(a) ==
    /\ NoneOpen
    /\ a \notin book
    /\ book' = book \cup {a}
    /\ UNCHANGED <<outcome, ledger>>

Next ==
    \/ \E r \in Runs : Open(r) \/ Commit(r) \/ Abort(r)
    \/ \E a \in Admissions : Admit(a)

Spec == Init /\ [][Next]_vars

=============================================================================
