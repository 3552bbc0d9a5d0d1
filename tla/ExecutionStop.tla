--------------------------- MODULE ExecutionStop ----------------------------
(***************************************************************************)
(* ExecutionStopAuthority: the durable STOP/ARM switch in front of every   *)
(* provider write.  A command is four durable steps under one lock: a      *)
(* PREPARE in the monotonic authority (which lives outside the workspace), *)
(* a record appended to the journal, the anchor that names the journal's   *)
(* last record, and the COMMIT.  Between any two of them the process may   *)
(* die, and between two operations the workspace may be restored from a    *)
(* backup.                                                                 *)
(*                                                                         *)
(* The records are hash-chained, so the SHA-256 of a record stands for the *)
(* whole journal up to it: the anchor, and a state of the authority, are   *)
(* modelled by that journal.  <<>> is the absence of a file or a state.    *)
(***************************************************************************)
EXTENDS Naturals, Sequences, SequencesExt

CONSTANTS
    Procs,         \* processes that issue commands or take leases
    Confs,         \* confirmations an operator may give to an ARM
    NoConf,        \* a STOP carries none
    NoProc,        \* nobody holds the lock
    MaxRecords,    \* bound: records ever written
    MaxCrashes,    \* bound: process deaths inside an operation
    MaxRestores    \* bound: restorations of the workspace from a backup

ASSUME ConstantsAssumption ==
    /\ NoConf \notin Confs
    /\ NoProc \notin Procs
    /\ MaxRecords \in Nat /\ MaxCrashes \in Nat /\ MaxRestores \in Nat
    /\ MaxRecords >= 2    \* an earlier release leaves up to two behind

VARIABLES
    files,      \* the workspace: journal, its incomplete last line, anchor
    authority,  \* the monotonic authority's history of this journal
    receipt,    \* the authority's receipt of having been bound exists
    partial,    \* a record or the receipt of the authority is half written
    owner,      \* the process inside _authority_operation_lock
    pc, loc,    \* where each process stands, and its local variables
    known,      \* the state each operator was last told
    acked,      \* commands that returned to their caller
    rejected,   \* an operation found the authority and the workspace at odds
    backup,     \* a copy of the workspace files
    baseline,   \* the journal an earlier release left behind
    minted, crashes, restores

vars == <<files, authority, receipt, partial, owner, pc, loc, known, acked,
          rejected, backup, baseline, minted, crashes, restores>>
environment == <<partial, backup, baseline, minted, crashes, restores>>

MA == INSTANCE MonotonicAuthority WITH None <- <<>>

Record == [id : 1..MaxRecords, mode : {"STOPPED", "ARMED"},
           conf : Confs \cup {NoConf}]
Journal == UNION {[1..n -> Record] : n \in 0..MaxRecords}

Ids(j) == {j[i].id : i \in DOMAIN j}
Spent(j) == {j[i].conf : i \in DOMAIN j} \ {NoConf}
Mode(j) == IF j = <<>> THEN "MISSING" ELSE Last(j).mode

StopRecord(id) == [id |-> id, mode |-> "STOPPED", conf |-> NoConf]
ArmRecord(id, c) == [id |-> id, mode |-> "ARMED", conf |-> c]

NoLocals == [kind |-> "none", base |-> <<>>, next |-> <<>>]
EmptyWorkspace == [journal |-> <<>>, torn |-> FALSE, anchor |-> <<>>]

\* A workspace of an earlier release has a journal and an anchor, and the
\* monotonic authority has never heard of it.
Baselines ==
    {<<>>, <<StopRecord(1)>>}
        \cup {<<StopRecord(1), ArmRecord(2, c)>> : c \in Confs}

Init ==
    /\ \E j \in Baselines :
        /\ files = [EmptyWorkspace EXCEPT !.journal = j, !.anchor = j]
        /\ baseline = j
        /\ minted = Len(j)
        /\ known = [p \in Procs |-> j]
    /\ authority = MA!NoHistory
    /\ receipt = FALSE
    /\ partial = FALSE
    /\ owner = NoProc
    /\ pc = [p \in Procs |-> "idle"]
    /\ loc = [p \in Procs |-> NoLocals]
    /\ acked = {}
    /\ rejected = FALSE
    /\ backup = EmptyWorkspace
    /\ crashes = 0 /\ restores = 0

-----------------------------------------------------------------------------
(* Reading the journal, and taking and leaving the lock.                   *)

\* The file exists as soon as the first byte of it does.
JournalExists == files.journal # <<>> \/ files.torn
AnchorExists == files.anchor # <<>>

\* _read_journal_unlocked() returns: both files or neither, every line
\* complete, and the anchor names the last record.
Readable == ~files.torn /\ files.anchor = files.journal

Goto(p, label) == pc' = [pc EXCEPT ![p] = label]

Enter(p, label, locals) ==
    /\ pc[p] = "idle"
    /\ owner = NoProc
    /\ owner' = p
    /\ Goto(p, label)
    /\ loc' = [loc EXCEPT ![p] = locals]

\* Mutant: the lock outlives the operation.
LeaveWithTheLock(p) ==
    /\ Goto(p, "idle")
    /\ loc' = [loc EXCEPT ![p] = NoLocals]
    /\ UNCHANGED owner

Leave(p) ==
    /\ owner' = NoProc
    /\ Goto(p, "idle")
    /\ loc' = [loc EXCEPT ![p] = NoLocals]

\* ExecutionStopIntegrityError: the operation gives up and touches nothing.
Reject(p) ==
    /\ Leave(p)
    /\ rejected' = TRUE
    /\ UNCHANGED <<files, authority, receipt, known, acked>>

\* With an unreadable journal every operation but the recovery raises, and
\* the recovery too when the last line is incomplete.
Refuse ==
    /\ owner = NoProc
    /\ ~Readable
    /\ UNCHANGED vars

-----------------------------------------------------------------------------
(* The operations: what each does before it consults the authority.        *)

BeginCurrent(p) ==
    /\ Readable
    /\ Enter(p, "ensure", [NoLocals EXCEPT !.kind = "current",
                                           !.base = files.journal])
    /\ UNCHANGED <<files, authority, receipt, known, acked, rejected, environment>>

BeginLease(p) ==
    /\ Readable
    /\ Enter(p, "ensure", [NoLocals EXCEPT !.kind = "lease",
                                           !.base = files.journal])
    /\ UNCHANGED <<files, authority, receipt, known, acked, rejected, environment>>

\* _append_unlocked() up to the PREPARE: the record it is going to append.
BeginAppend(p, record) ==
    /\ Readable
    /\ minted < MaxRecords
    /\ minted' = minted + 1
    /\ Enter(p, "ensure", [kind |-> "append", base |-> files.journal,
                           next |-> Append(files.journal, record)])
    /\ UNCHANGED <<files, authority, receipt, partial, known, acked, rejected,
                   backup, baseline, crashes, restores>>

InitializeStopped(p) ==
    /\ ~JournalExists /\ ~AnchorExists
    /\ BeginAppend(p, StopRecord(minted + 1))

\* Without an expected revision a STOP takes the one it reads.
Stop(p) == BeginAppend(p, StopRecord(minted + 1))

\* Mutant: an ARM takes the revision it reads, as a STOP does.
ArmAllowedAtAnyRevision(p, c) ==
    /\ files.journal # <<>>
    /\ c \notin Spent(files.journal)

\* An ARM names the revision its operator was told, and a confirmation no
\* record of the journal carries.
ArmAllowed(p, c) ==
    /\ Len(known[p]) = Len(files.journal)
    /\ files.journal # <<>>
    /\ c \notin Spent(files.journal)

Arm(p, c) ==
    /\ ArmAllowed(p, c)
    /\ BeginAppend(p, ArmRecord(minted + 1, c))

\* recover_torn_transition() reads without the anchor check.
BeginRecover(p) ==
    /\ ~files.torn
    /\ AnchorExists => JournalExists
    /\ Enter(p, IF JournalExists THEN "repair" ELSE "ensure",
             [NoLocals EXCEPT !.kind = "recover"])
    /\ UNCHANGED <<files, authority, receipt, known, acked, rejected, environment>>

\* One unanchored record: a STOP is anchored, an ARM is cut off again.
\* Without an anchor the only record may be the first STOP.
Repairable ==
    /\ IsPrefix(files.anchor, files.journal)
    /\ Len(files.journal) <= Len(files.anchor) + 1
    /\ ~AnchorExists => Mode(files.journal) = "STOPPED"

\* Mutant: the recovery finishes whatever was begun.
RepairedForward == files.journal

Repaired ==
    IF Mode(files.journal) = "STOPPED" THEN files.journal ELSE files.anchor

Repair(p) ==
    /\ pc[p] = "repair"
    /\ \/ /\ ~Repairable
          /\ Reject(p)
       \/ /\ Repairable
          /\ files' = [files EXCEPT !.journal = Repaired, !.anchor = Repaired]
          /\ loc' = [loc EXCEPT ![p].base = Repaired]
          /\ Goto(p, "ensure")
          /\ UNCHANGED <<authority, receipt, owner, known, acked, rejected>>
    /\ UNCHANGED environment

-----------------------------------------------------------------------------
(* _ensure_monotonic_current_unlocked(): the authority and the workspace   *)
(* agree, or are brought to agree, before anything else happens.           *)

\* Where the caller continues.
Continuation(p) ==
    CASE loc[p].kind = "append" -> "prepare"
      [] loc[p].kind = "lease" -> "admit"
      [] OTHER -> "return"

AuthorityStep(p, label) ==
    /\ Goto(p, label)
    /\ UNCHANGED <<files, owner, loc, known, acked, rejected, environment>>

\* A record or a receipt that a death left half written is created no second
\* time and read by nobody: whoever gets here raises, now and for ever.
EnsureRefused(p) ==
    /\ pc[p] = "ensure"
    /\ partial
    /\ Leave(p)
    /\ UNCHANGED <<files, authority, receipt, known, acked, rejected, environment>>

\* The authority's own files are never lost here, so that a receipt without
\* a history, which is refused, stays a guard nothing meets.
EnsureUnbound(p) ==
    /\ pc[p] = "ensure"
    /\ ~partial /\ ~authority.bound
    /\ \/ /\ receipt
          /\ Reject(p)
          /\ UNCHANGED environment
       \/ /\ ~receipt
          /\ loc[p].base = <<>>
          /\ AuthorityStep(p, Continuation(p))
          /\ UNCHANGED <<authority, receipt>>
       \/ /\ ~receipt
          /\ loc[p].base # <<>>
          /\ authority' = MA!Prepared(authority, loc[p].base)
          /\ AuthorityStep(p, "adopt")
          /\ UNCHANGED receipt

AdoptReceipt(p) ==
    /\ pc[p] = "adopt"
    /\ receipt' = TRUE
    /\ AuthorityStep(p, "adopted")
    /\ UNCHANGED authority

AdoptCommit(p) ==
    /\ pc[p] = "adopted"
    /\ authority' = MA!Committed(authority)
    /\ AuthorityStep(p, Continuation(p))
    /\ UNCHANGED receipt

\* A crash came between the first PREPARE and the receipt.
EnsureReceipt(p) ==
    /\ pc[p] = "ensure"
    /\ ~partial /\ authority.bound /\ ~receipt
    /\ receipt' = TRUE
    /\ AuthorityStep(p, "ensure")
    /\ UNCHANGED authority

EnsureRecovered(p) ==
    /\ pc[p] = "ensure"
    /\ ~partial /\ authority.bound /\ receipt
    /\ \/ /\ ~MA!Recoverable(authority, loc[p].base)
          /\ Reject(p)
          /\ UNCHANGED environment
       \/ /\ MA!Recoverable(authority, loc[p].base)
          /\ authority' = MA!Recovered(authority, loc[p].base)
          /\ AuthorityStep(p, Continuation(p))
          /\ UNCHANGED receipt

-----------------------------------------------------------------------------
(* The durable steps of a STOP or an ARM.                                  *)

Prepare(p) ==
    /\ pc[p] = "prepare"
    /\ MA!CanPrepare(authority, loc[p].base)
    /\ authority' = MA!Prepared(authority, loc[p].next)
    /\ AuthorityStep(p, "receipt")
    /\ UNCHANGED receipt

WriteReceipt(p) ==
    /\ pc[p] = "receipt"
    /\ receipt' = TRUE
    /\ AuthorityStep(p, "append")
    /\ UNCHANGED authority

FileStep(p, label) ==
    /\ Goto(p, label)
    /\ UNCHANGED <<authority, receipt, owner, loc, known, acked, rejected,
                   environment>>

AppendRecord(p) ==
    /\ pc[p] = "append"
    /\ files' = [files EXCEPT !.journal = Append(@, Last(loc[p].next))]
    /\ FileStep(p, "anchor")

WriteAnchor(p) ==
    /\ pc[p] = "anchor"
    /\ files' = [files EXCEPT !.anchor = loc[p].next]
    /\ FileStep(p, "commit")

\* Mutant: the command returns when its record is anchored.
CommitAppendLater(p) ==
    /\ pc[p] = "commit"
    /\ Readable
    /\ acked' = acked \cup {Last(loc[p].next).id}
    /\ known' = [known EXCEPT ![p] = loc[p].next]
    /\ Leave(p)
    /\ UNCHANGED <<files, authority, receipt, rejected, environment>>

\* The journal is read once more; then the command returns its state.
CommitAppend(p) ==
    /\ pc[p] = "commit"
    /\ Readable
    /\ MA!CanCommit(authority, files.journal)
    /\ authority' = MA!Committed(authority)
    /\ acked' = acked \cup {Last(loc[p].next).id}
    /\ known' = [known EXCEPT ![p] = loc[p].next]
    /\ Leave(p)
    /\ UNCHANGED <<files, receipt, rejected, environment>>

-----------------------------------------------------------------------------
(* The ends of the reading operations, and the lease.                      *)

\* current() and recover_torn_transition(): a missing authority raises.
Return(p) ==
    /\ pc[p] = "return"
    /\ known' = [known EXCEPT ![p] =
                    IF loc[p].base = <<>> THEN @ ELSE loc[p].base]
    /\ Leave(p)
    /\ UNCHANGED <<files, authority, receipt, acked, rejected, environment>>

\* Mutant: the lease is checked under the lock and used outside it.
AdmitArmedUnlocked(p) ==
    /\ pc[p] = "admit"
    /\ Mode(loc[p].base) = "ARMED"
    /\ Goto(p, "lease")
    /\ owner' = NoProc
    /\ UNCHANGED <<files, authority, receipt, loc, known, acked,
                   rejected, environment>>

\* The lease keeps the lock; unless the state is ARMED it raises instead.
AdmitArmed(p) ==
    /\ pc[p] = "admit"
    /\ Mode(loc[p].base) = "ARMED"
    /\ Goto(p, "lease")
    /\ UNCHANGED <<files, authority, receipt, owner, loc, known, acked,
                   rejected, environment>>

AdmitStopped(p) ==
    /\ pc[p] = "admit"
    /\ Mode(loc[p].base) # "ARMED"
    /\ Leave(p)
    /\ UNCHANGED <<files, authority, receipt, known, acked, rejected,
                   environment>>

\* The caller has made its provider write.
EndLease(p) ==
    /\ pc[p] = "lease"
    /\ Leave(p)
    /\ UNCHANGED <<files, authority, receipt, known, acked, rejected,
                   environment>>

-----------------------------------------------------------------------------
(* The environment.                                                        *)

\* The step creates a file of the authority: a PREPARE, a COMMIT, an ABORT, or
\* the receipt where there is none.  The file exists before it has its content.
CreatesAuthorityFile(p) ==
    \/ pc[p] \in {"adopt", "adopted", "prepare", "commit"}
    \/ pc[p] = "receipt" /\ ~receipt
    \/ /\ pc[p] = "ensure" /\ ~partial
       /\ CASE ~authority.bound -> ~receipt /\ loc[p].base # <<>>
            [] ~receipt -> TRUE
            [] OTHER -> MA!Pending(authority)
                        /\ MA!Recoverable(authority, loc[p].base)

\* The operating system drops the lock.  A death inside the append may leave
\* a part of the line, and one inside the creation of a file of the authority
\* a part of that.  An OSError out of a durable step ends the same way.
Crash(p) ==
    /\ owner = p
    /\ crashes < MaxCrashes
    /\ crashes' = crashes + 1
    /\ Leave(p)
    /\ \/ UNCHANGED <<files, partial>>
       \/ /\ pc[p] = "append"
          /\ files' = [files EXCEPT !.torn = TRUE]
          /\ UNCHANGED partial
       \/ /\ CreatesAuthorityFile(p)
          /\ partial' = TRUE
          /\ UNCHANGED files
    /\ UNCHANGED <<authority, receipt, known, acked, rejected, backup,
                   baseline, minted, restores>>

\* A backup holds the workspace; the authority lives outside it.
Backup ==
    /\ owner = NoProc
    /\ restores < MaxRestores
    /\ JournalExists
    /\ backup' = files
    /\ UNCHANGED <<files, authority, receipt, partial, owner, pc, loc, known,
                   acked, rejected, baseline, minted, crashes, restores>>

Restore ==
    /\ owner = NoProc
    /\ restores < MaxRestores
    /\ backup # EmptyWorkspace
    /\ restores' = restores + 1
    /\ files' = backup
    /\ UNCHANGED <<authority, receipt, partial, owner, pc, loc, known, acked,
                   rejected, backup, baseline, minted, crashes>>

Operation(p) ==
    \/ BeginCurrent(p) \/ BeginLease(p) \/ BeginRecover(p)
    \/ InitializeStopped(p) \/ Stop(p) \/ (\E c \in Confs : Arm(p, c))
    \/ Repair(p)
    \/ EnsureRefused(p) \/ EnsureUnbound(p) \/ AdoptReceipt(p) \/ AdoptCommit(p)
    \/ EnsureReceipt(p) \/ EnsureRecovered(p)
    \/ Prepare(p) \/ WriteReceipt(p)
    \/ AppendRecord(p) \/ WriteAnchor(p) \/ CommitAppend(p)
    \/ Return(p) \/ AdmitArmed(p) \/ AdmitStopped(p) \/ EndLease(p)

Next ==
    \/ \E p \in Procs : Operation(p) \/ Crash(p)
    \/ Backup \/ Restore \/ Refuse

Spec == Init /\ [][Next]_vars

-----------------------------------------------------------------------------
Labels == {"idle", "ensure", "adopt", "adopted", "repair", "prepare",
           "receipt", "append", "anchor", "commit", "return", "admit", "lease"}

Workspace == [journal : Journal, torn : BOOLEAN, anchor : Journal]

Locals == [kind : {"none", "current", "lease", "append", "recover"},
           base : Journal, next : Journal]

\* The variables stay in their types, and only the holder of the lock is
\* inside an operation.
TypeOK ==
    /\ files \in Workspace
    /\ authority \in [bound : BOOLEAN, committed : Journal, pending : Journal]
    /\ receipt \in BOOLEAN
    /\ partial \in BOOLEAN
    /\ owner \in Procs \cup {NoProc}
    /\ pc \in [Procs -> Labels]
    /\ \A p \in Procs : pc[p] # "idle" <=> owner = p
    /\ loc \in [Procs -> Locals]
    /\ known \in [Procs -> Journal]
    /\ acked \subseteq 1..MaxRecords
    /\ rejected \in BOOLEAN
    /\ backup \in Workspace
    /\ baseline \in Baselines
    /\ minted \in 0..MaxRecords
    /\ crashes \in 0..MaxCrashes
    /\ restores \in 0..MaxRestores

\* Whoever holds an admission_lease acts on the newest state the authority
\* ever committed, and that state is ARMED: neither a restored older ARM nor
\* a STOP that is half written can be behind a provider write.
LeaseActsOnNewestState ==
    \A p \in Procs : pc[p] = "lease" =>
        /\ files.journal = authority.committed
        /\ ~MA!Pending(authority)
        /\ Mode(authority.committed) = "ARMED"

\* A STOP or an ARM that returned to its caller stays in the committed chain
\* through every crash and every restored workspace.
ReturnedCommandsArePermanent == acked \subseteq Ids(authority.committed)

\* An ARM goes on top of exactly the state its operator was told, although it
\* names a revision number only and discarded ARMs and restored workspaces
\* reuse those numbers.
ArmExtendsTheStateItsOperatorSaw ==
    \A p \in Procs :
        pc[p] = "prepare" /\ Mode(loc[p].next) = "ARMED" =>
            known[p] = loc[p].base

\* No crash alone ever leaves a workspace and an authority at odds: without a
\* restored backup no operation and no recovery ends in a conflict.  A file
\* that a death left half written, the journal or one of the authority, is
\* refused before the two are compared (Refuse, EnsureRefused).
CrashesAloneAreNeverRejected == rejected => restores > 0

\* An ARM becomes the anchored state by the last step of its own command, or
\* because a backup that held it came back; never by a recovery, which may
\* only finish a STOP.
OnlyAnArmCommandAnchorsAnArm ==
    [][files'.anchor # files.anchor /\ Mode(files'.anchor) = "ARMED"
        => \/ files' = backup
           \/ \E p \in Procs : pc[p] = "anchor" /\ loc[p].kind = "append"]_vars

\* Seen through the committed chain of the authority, all of this is one
\* register: commands take effect in one step and never under a lease, no
\* confirmation arms twice, and an upgrade starts from the old state.
Register == INSTANCE ModeRegister WITH
    mode <- Mode(authority.committed),
    spent <- Spent(authority.committed),
    leases <- {p \in Procs : pc[p] = "lease"},
    legacy <- [mode |-> Mode(baseline), spent |-> Spent(baseline)]

ImplementsModeRegister == Register!Spec

=============================================================================
