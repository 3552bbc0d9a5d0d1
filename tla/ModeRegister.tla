---------------------------- MODULE ModeRegister ----------------------------
(***************************************************************************)
(* What the execution STOP authority promises to the code that places      *)
(* bets and to the operator: one register, STOPPED or ARMED, written in    *)
(* one step; an ARM spends a confirmation nobody spent before; and nothing *)
(* writes the register while somebody acts under an ARMED lease.           *)
(* ExecutionStop implements it with a journal, an anchor, an independent   *)
(* monotonic authority, crashes, and workspaces restored from a backup.    *)
(***************************************************************************)
CONSTANTS
    Procs,      \* processes that may hold a lease
    Confs       \* operator confirmations

VARIABLES
    mode,       \* MISSING until the authority exists
    spent,      \* confirmations that armed it
    leases,     \* processes inside admission_lease
    legacy      \* the state left by the releases without an authority

vars == <<mode, spent, leases, legacy>>

Modes == {"STOPPED", "ARMED"}

Init ==
    /\ mode = "MISSING"
    /\ spent = {}
    /\ leases = {}
    /\ legacy \in [mode : {"MISSING"} \cup Modes, spent : SUBSET Confs]

\* The first write after an upgrade takes the old state over.
Adopt ==
    /\ mode = "MISSING"
    /\ leases = {}
    /\ mode' = legacy.mode
    /\ spent' = legacy.spent
    /\ UNCHANGED <<leases, legacy>>

Stop ==
    /\ leases = {}
    /\ mode' = "STOPPED"
    /\ UNCHANGED <<spent, leases, legacy>>

Arm(c) ==
    /\ mode \in Modes
    /\ leases = {}
    /\ c \notin spent
    /\ mode' = "ARMED"
    /\ spent' = spent \cup {c}
    /\ UNCHANGED <<leases, legacy>>

Grant(p) ==
    /\ mode = "ARMED"
    /\ leases = {}
    /\ leases' = {p}
    /\ UNCHANGED <<mode, spent, legacy>>

Release(p) ==
    /\ p \in leases
    /\ leases' = leases \ {p}
    /\ UNCHANGED <<mode, spent, legacy>>

Next ==
    \/ Adopt
    \/ Stop
    \/ \E c \in Confs : Arm(c)
    \/ \E p \in Procs : Grant(p) \/ Release(p)

Spec == Init /\ [][Next]_vars

=============================================================================
