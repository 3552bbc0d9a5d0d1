------------------------ MODULE ConfirmationJournal -------------------------
(***************************************************************************)
(* SupervisedConfirmationAuthority: the operator's REVIEW -> CONFIRM ->    *)
(* CONSUME, kept in a journal, a checkpoint beside it that also carries    *)
(* the newest instant the clock has shown, and the monotonic authority     *)
(* outside the workspace.  An operation runs under the journal's lock from *)
(* its load to its return, in durable steps between which the process may  *)
(* die; the wall clock may show any instant; either file of the workspace, *)
(* or both, may be restored from a backup.                                 *)
(*                                                                         *)
(* The records are hash-chained, so a checkpoint is modelled by the        *)
(* journal it was written for, and a state of the authority by the journal *)
(* and the high water its digest covers.  A review is named by its place   *)
(* in the journal, and a receipt by its review.                            *)
(***************************************************************************)
EXTENDS Naturals, Sequences, SequencesExt

CONSTANTS
    Decisions,     \* what operators confirm
    MaxTime,       \* bound: instants of the wall clock, from 1
    Ttl,           \* how long a review stays open
    MaxRecords,    \* bound: records in the journal
    MaxCrashes,    \* bound: process deaths inside an operation
    MaxRestores    \* bound: restorations from a backup

ASSUME ConstantsAssumption ==
    /\ MaxTime \in Nat \ {0} /\ Ttl \in Nat \ {0}
    /\ MaxRecords \in Nat /\ MaxCrashes \in Nat /\ MaxRestores \in Nat

VARIABLES
    files,      \* journal, its incomplete last line, checkpoint
    authority,  \* the monotonic authority's history of this journal
    partial,    \* a record of the authority is half written
    op,         \* the operation under the lock, and where it stands
    returned,   \* states that operations returned to their callers
    rejected,   \* an operation found authority and workspace at odds
    backup,     \* a copy of the two files
    crashes, restores

vars == <<files, authority, partial, op, returned, rejected, backup, crashes,
          restores>>
environment == <<partial, backup, crashes, restores>>

NoState == [journal |-> <<>>, high |-> 0]
MA == INSTANCE MonotonicAuthority WITH None <- NoState

Times == 1..MaxTime
Record == [kind : {"review", "confirm", "consume"}, decision : Decisions,
           review : 1..MaxRecords, at : Times]
IsJournal(j) == Len(j) <= MaxRecords /\ \A i \in DOMAIN j : j[i] \in Record
IsState(s) == IsJournal(s.journal) /\ s.high \in 0..MaxTime

Idle == [at |-> "idle", kind |-> "none", review |-> 0, now |-> 0,
         next |-> NoState]

Init ==
    /\ files = [journal |-> <<>>, torn |-> FALSE, checkpoint |-> NoState]
    /\ authority = MA!NoHistory
    /\ partial = FALSE
    /\ op = Idle
    /\ returned = {}
    /\ rejected = FALSE
    /\ backup = files
    /\ crashes = 0 /\ restores = 0

-----------------------------------------------------------------------------
(* _state_from_records, and the load every operation begins with.          *)

Of(j, kind) == {i \in DOMAIN j : j[i].kind = kind}
Expires(j, r) == j[r].at + Ttl
ConfirmedBy(j, r) == \E i \in Of(j, "confirm") : j[i].review = r
ConsumedBy(j, r) == \E i \in Of(j, "consume") : j[i].review = r
HasReceipt(j, d) == \E i \in Of(j, "confirm") : j[i].decision = d

\* A decision is reviewed again only while no receipt was given for it, and
\* after its earlier reviews expired.
CanReview(j, d, now) ==
    /\ ~HasReceipt(j, d)
    /\ \A r \in Of(j, "review") : j[r].decision = d => now >= Expires(j, r)

CanConfirm(j, r) == ~ConfirmedBy(j, r) /\ ~HasReceipt(j, j[r].decision)

CanConsume(j, r) == ConfirmedBy(j, r) /\ ~ConsumedBy(j, r)

LastInstant(j) == IF j = <<>> THEN 0 ELSE Last(j).at

Loadable ==
    /\ ~files.torn
    /\ IsPrefix(files.checkpoint.journal, files.journal)
    /\ files.checkpoint.journal = files.journal =>
           files.checkpoint.high >= LastInstant(files.journal)

\* Mutant: the clock's high water stays what the checkpoint says.
LoadedWithOldClock == [journal |-> files.journal, high |-> files.checkpoint.high]

\* The checkpoint catches up with a journal that is ahead of it.
Loaded == [journal |-> files.journal,
           high |-> IF files.checkpoint.high >= LastInstant(files.journal)
                    THEN files.checkpoint.high ELSE LastInstant(files.journal)]

\* The workspace as a reload without recovery sees it.
Observed == files.checkpoint

Goto(label) == op' = [op EXCEPT !.at = label]

Begin(kind, r) ==
    /\ op.at = "idle"
    /\ Loadable
    /\ kind \in {"open", "resolve"} \/ Len(files.journal) < MaxRecords
    /\ files' = [files EXCEPT !.checkpoint = Loaded]
    /\ op' = [Idle EXCEPT !.at = "ensure", !.kind = kind, !.review = r]
    /\ UNCHANGED <<authority, returned, rejected, environment>>

\* An operation on a journal that cannot be loaded raises and touches nothing.
LoadRefuses == op.at = "idle" /\ ~Loadable /\ UNCHANGED vars

\* A refused operation leaves no trace.
Refuse == op' = Idle /\ UNCHANGED <<files, authority, returned, rejected, environment>>

\* A record that a death left half written makes the history unreadable.
EnsureRefused == op.at = "ensure" /\ partial /\ Refuse

\* _ensure_monotonic_current_locked.
Admissible ==
    IF authority.bound THEN MA!Recoverable(authority, Observed)
    ELSE Observed = NoState

\* Mutant: a workspace at odds with the authority is adopted as it is.
EnsureAdopts ==
    /\ op.at = "ensure" /\ ~partial
    /\ authority' = [bound |-> TRUE, committed |-> Observed, pending |-> NoState]
    /\ IF op.kind = "open" THEN op' = Idle ELSE Goto("check")
    /\ UNCHANGED <<files, returned, rejected, environment>>

Ensure ==
    /\ op.at = "ensure" /\ ~partial
    /\ IF Admissible
       THEN /\ authority' = IF authority.bound
                            THEN MA!Recovered(authority, Observed) ELSE authority
            /\ IF op.kind = "open" THEN op' = Idle ELSE Goto("check")
            /\ UNCHANGED rejected
       ELSE /\ op' = Idle
            /\ rejected' = TRUE
            /\ UNCHANGED authority
    /\ UNCHANGED <<files, returned, environment>>

-----------------------------------------------------------------------------
(* prepare_review, confirm_review, resolve_receipt_binding and             *)
(* consume_receipt: their checks before the clock is read.                 *)

Checks ==
    LET j == files.journal
    IN CASE op.kind = "review" -> TRUE
         [] op.kind = "confirm" -> CanConfirm(j, op.review)
         [] op.kind \in {"resolve", "consume"} -> CanConsume(j, op.review)

RefuseByState == op.at = "check" /\ ~Checks /\ Refuse

\* The product clock moved backwards behind the durable history.
RefuseByClock ==
    /\ op.at = "check" /\ Checks
    /\ \E now \in Times : now < Observed.high
    /\ Refuse

\* A review reads the clock without advancing the high water.
ReadClock ==
    /\ op.at = "check" /\ Checks
    /\ \E now \in Times :
        /\ now >= Observed.high
        /\ op' = [op EXCEPT
             !.at = IF op.kind = "review" \/ now = Observed.high THEN "act"
                    ELSE "clock",
             !.now = now,
             !.next = [Observed EXCEPT !.high = now]]
    /\ UNCHANGED <<files, authority, returned, rejected, environment>>

\* The monotonic transition: PREPARE, the files, COMMIT.
Prepare(from, to) ==
    /\ op.at = from
    /\ MA!CanPrepare(authority, Observed)
    /\ authority' = MA!Prepared(authority, op.next)
    /\ Goto(to)
    /\ UNCHANGED <<files, returned, rejected, environment>>

WriteCheckpoint(from, to) ==
    /\ op.at = from
    /\ files' = [files EXCEPT !.checkpoint = op.next]
    /\ Goto(to)
    /\ UNCHANGED <<authority, returned, rejected, environment>>

PrepareClock == Prepare("clock", "clock write")
WriteClock == WriteCheckpoint("clock write", "clock commit")

CommitClock ==
    /\ op.at = "clock commit"
    /\ MA!CanCommit(authority, Observed)
    /\ authority' = MA!Committed(authority)
    /\ Goto("act")
    /\ UNCHANGED <<files, returned, rejected, environment>>

-----------------------------------------------------------------------------
(* The operation itself, at the instant it read.                           *)

\* Mutant: the expiry was checked when the receipt was given, not again.
InTimeWhenConfirmed(r, now) ==
    op.kind = "consume" \/ now < Expires(files.journal, r)

InTime(r, now) == now < Expires(files.journal, r)

\* Mutant: the high water becomes the end of the review, not the instant.
AppendingWithDeadline(record) ==
    op' = [op EXCEPT !.at = "prepare",
               !.next = [journal |-> Append(files.journal, record),
                         high |-> op.now + Ttl]]

Appending(record) ==
    op' = [op EXCEPT !.at = "prepare",
               !.next = [journal |-> Append(files.journal, record),
                         high |-> op.now]]

ActReview ==
    /\ op.at = "act" /\ op.kind = "review"
    /\ \E d \in Decisions :
        /\ CanReview(files.journal, d, op.now)
        /\ Appending([kind |-> "review", decision |-> d,
                      review |-> Len(files.journal) + 1, at |-> op.now])
    /\ UNCHANGED <<files, authority, returned, rejected, environment>>

ActRecord ==
    /\ op.at = "act" /\ op.kind \in {"confirm", "consume"}
    /\ InTime(op.review, op.now)
    /\ Appending([kind |-> op.kind, decision |-> files.journal[op.review].decision,
                  review |-> op.review, at |-> op.now])
    /\ UNCHANGED <<files, authority, returned, rejected, environment>>

\* Nothing to append: a resolve that ends, an expired review, a decision
\* that is under review or has its receipt.
ActWithoutRecord ==
    /\ op.at = "act"
    /\ CASE op.kind = "review" ->
              \E d \in Decisions : ~CanReview(files.journal, d, op.now)
         [] op.kind = "resolve" -> TRUE
         [] OTHER -> ~InTime(op.review, op.now)
    /\ Refuse

PrepareAppend == Prepare("prepare", "append")

AppendRecord ==
    /\ op.at = "append"
    /\ files' = [files EXCEPT !.journal = op.next.journal]
    /\ Goto("checkpoint")
    /\ UNCHANGED <<authority, returned, rejected, environment>>

WriteAppend == WriteCheckpoint("checkpoint", "commit")

CommitAppend ==
    /\ op.at = "commit"
    /\ MA!CanCommit(authority, Observed)
    /\ authority' = MA!Committed(authority)
    /\ returned' = returned \cup {op.next}
    /\ op' = Idle
    /\ UNCHANGED <<files, rejected, environment>>

-----------------------------------------------------------------------------
(* Failures, and the workspace's backups.                                  *)

\* The step creates a PREPARE, a COMMIT or an ABORT of the authority, whose
\* file exists before it has its content.
CreatesRecord ==
    \/ op.at \in {"clock", "clock commit", "prepare", "commit"}
    \/ op.at = "ensure" /\ ~partial /\ MA!Pending(authority) /\ Admissible

\* A death inside the append leaves a part of the line, and one inside the
\* creation of a record of the authority a part of the record.
Crash ==
    /\ op.at # "idle"
    /\ crashes < MaxCrashes
    /\ crashes' = crashes + 1
    /\ op' = Idle
    /\ \/ UNCHANGED <<files, partial>>
       \/ /\ op.at = "append"
          /\ files' = [files EXCEPT !.torn = TRUE]
          /\ UNCHANGED partial
       \/ /\ CreatesRecord
          /\ partial' = TRUE
          /\ UNCHANGED files
    /\ UNCHANGED <<authority, returned, rejected, backup, restores>>

BackUp ==
    /\ restores < MaxRestores
    /\ backup' = files
    /\ UNCHANGED <<files, authority, partial, op, returned, rejected, crashes,
                   restores>>

\* The journal, the checkpoint or both come back as they were.
Restore ==
    /\ op.at = "idle"
    /\ restores < MaxRestores
    /\ restores' = restores + 1
    /\ files' \in {backup,
                   [backup EXCEPT !.checkpoint = files.checkpoint],
                   [files EXCEPT !.checkpoint = backup.checkpoint]}
    /\ UNCHANGED <<authority, partial, op, returned, rejected, backup, crashes>>

Next ==
    \/ Begin("open", 0) \/ Begin("review", 0)
    \/ \E kind \in {"confirm", "resolve", "consume"} :
         \E r \in Of(files.journal, "review") : Begin(kind, r)
    \/ LoadRefuses \/ EnsureRefused \/ Ensure
    \/ RefuseByState \/ RefuseByClock \/ ReadClock
    \/ PrepareClock \/ WriteClock \/ CommitClock
    \/ ActReview \/ ActRecord \/ ActWithoutRecord
    \/ PrepareAppend \/ AppendRecord \/ WriteAppend \/ CommitAppend
    \/ Crash \/ BackUp \/ Restore

Spec == Init /\ [][Next]_vars

-----------------------------------------------------------------------------
(* Properties.                                                             *)

TypeOK ==
    /\ \A f \in {files, backup} :
         IsJournal(f.journal) /\ f.torn \in BOOLEAN /\ IsState(f.checkpoint)
    /\ authority.bound \in BOOLEAN /\ partial \in BOOLEAN
    /\ IsState(authority.committed) /\ IsState(authority.pending)
    /\ op.at \in {"idle", "ensure", "check", "clock", "clock write",
                  "clock commit", "act", "prepare", "append", "checkpoint",
                  "commit"}
    /\ op.kind \in {"none", "open", "review", "confirm", "resolve", "consume"}
    /\ op.review \in 0..MaxRecords /\ op.now \in 0..MaxTime /\ IsState(op.next)
    /\ \A s \in returned : IsState(s)
    /\ rejected \in BOOLEAN
    /\ crashes \in 0..MaxCrashes /\ restores \in 0..MaxRestores

\* What a caller was told stays true: no crash and no restored backup, of
\* either file, takes back a consumption that returned (and was followed by a
\* placeOrders request), so that its receipt could be consumed again.
ReturnedRecordsArePermanent ==
    \A s \in returned :
        /\ IsPrefix(s.journal, authority.committed.journal)
        /\ s.high <= authority.committed.high

\* A crash between the PREPARE, the journal, the checkpoint and the COMMIT
\* never leaves a workspace that the next operation rejects: short of a torn
\* line and without a restored backup, the journal loads and is never at odds
\* with the authority (whose half-written record is refused before the two are
\* compared, EnsureRefused).
CrashesAloneAreNeverRejected ==
    restores = 0 /\ ~files.torn => Loadable /\ ~rejected

\* A journal as a lifecycle: the stage of a decision, and the deadline of
\* its latest review.
ReviewsOf(j, d) == {r \in Of(j, "review") : j[r].decision = d}
LatestReview(j, d) ==
    CHOOSE r \in ReviewsOf(j, d) : \A s \in ReviewsOf(j, d) : s <= r

StageOf(j, d) ==
    IF \E i \in Of(j, "consume") : j[i].decision = d THEN "consumed"
    ELSE IF HasReceipt(j, d) THEN "confirmed"
    ELSE IF ReviewsOf(j, d) # {} THEN "reviewed" ELSE "none"

DeadlineOf(j, d) ==
    IF ReviewsOf(j, d) # {} THEN Expires(j, LatestReview(j, d)) ELSE 0

stageBar == [d \in Decisions |-> StageOf(authority.committed.journal, d)]
deadlineBar == [d \in Decisions |-> DeadlineOf(authority.committed.journal, d)]

Lifecycle == INSTANCE ReceiptLifecycle
    WITH stage <- stageBar, deadline <- deadlineBar,
         now <- authority.committed.high

\* Every commit, by the operation itself or by the recovery that finds its
\* record, is one step of the abstract lifecycle: one receipt for a decision,
\* one consumption of it, in time, on a clock that never goes back.
ImplementsReceiptLifecycle == Lifecycle!Spec

=============================================================================
