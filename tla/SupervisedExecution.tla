------------------------ MODULE SupervisedExecution -------------------------
(***************************************************************************)
(* Placing a bet under supervision: execute_betfair_supervised_action, the *)
(* RealExecutionLedger it writes, the provider behind the network, and the *)
(* read-backs that later settle what a placeOrders call left uncertain.    *)
(*                                                                         *)
(* A call holds the workspace's economic lock from its gate until the      *)
(* provider has answered, or until the attempt is recorded as UNKNOWN; it  *)
(* records the provider's report only after it has let the lock go.  Every *)
(* append to the ledger is one durable step under the ledger's own lock,   *)
(* so that recoveries, read-backs and late reports interleave with it.  A  *)
(* process may die between any two steps, and in the middle of an append.  *)
(*                                                                         *)
(* One plan holds all the Actions.  The wall clock may jump either way.    *)
(* A report, and a read-back, is modelled by what it saw of the order and  *)
(* by the instant it carries: its evidence id is a digest of the two.      *)
(***************************************************************************)
EXTENDS Naturals, Sequences, FiniteSets, SequencesExt

CONSTANTS
    Callers,       \* processes that may execute an action
    Actions,       \* actions of the plan
    Attempts,      \* attempt ids callers may use
    None,          \* nobody, nothing
    MaxTime,       \* bound: instants of the wall clock
    Expiry,        \* the instant at which quotes and approval expire
    MaxReadbacks   \* bound: read-backs taken from the provider

ASSUME ConstantsAssumption ==
    /\ None \notin Callers \cup Actions \cup Attempts
    /\ MaxTime \in Nat /\ Expiry \in Nat
    /\ MaxReadbacks \in Nat

VARIABLES
    log,        \* the ledger: for every attempt, its events in order
    torn,       \* the ledger ends in an unterminated line
    plan,       \* the plan and its approval, as the ledger records them
    receipts,   \* operator confirmations, one for every attempt and action
    order,      \* what the provider did with the order of an attempt
    posts,      \* placeOrders requests that left the machine
    readbacks,  \* provider states somebody read and may still present
    fence,      \* who holds the workspace's economic lock
    pc, call,   \* where each caller stands, and the call it makes
    clock

vars == <<log, torn, plan, receipts, order, posts, readbacks, fence, pc, call,
          clock>>
ledger == <<log, torn, plan>>
provider == <<order, posts>>
callers == <<fence, pc, call>>

Times == 0..MaxTime
Matches == {"partial", "matched"}
Evidence == [source : {"report", "readback"}, at : Times,
             seen : Matches \cup {"resting", "rejected", "absent"}]

Unresolved == {"RESERVED", "SUBMITTED"}
Stages == {"begin", "bind", "submit", "admit", "consume", "post", "await",
           "unknown", "report", "outcome", "found"}
Appending == {"begin", "bind", "submit", "unknown", "report", "outcome", "found"}

NoCall == [attempt |-> None, action |-> None, report |-> None]

-----------------------------------------------------------------------------
(* The ledger as its readers derive it.                                    *)

Event(kind, at, about) == [kind |-> kind, at |-> at, about |-> about]
Has(l, kind) == \E i \in DOMAIN l : l[i].kind = kind
Of(l, kind) == {l[i] : i \in {j \in DOMAIN l : l[j].kind = kind}}

\* Mutant: any matched stake counts as the whole of it.
StatusAnyMatch(e) == IF e.seen \in Matches THEN "ACCEPTED" ELSE "REJECTED"

Status(e) == CASE e.seen = "matched" -> "ACCEPTED"
               [] e.seen = "partial" -> "PARTIAL"
               [] e.seen = "rejected" -> "REJECTED"

StateAfter(event) ==
    CASE event.kind = "reserved" -> "RESERVED"
      [] event.kind = "submitted" -> "SUBMITTED"
      [] event.kind = "unknown" -> "UNKNOWN"
      [] event.kind = "not_found" -> "RECONCILED_NOT_FOUND"
      [] event.kind \in {"acknowledged", "acknowledged_found"} ->
            Status(event.about)

\* _state: references, evidence and FOUND leave the state as it was.
State(l) ==
    LET changes == {i \in DOMAIN l :
            l[i].kind \notin {"reference", "evidence", "found"}}
    IN IF changes = {} THEN "none" ELSE StateAfter(l[Max(changes)])

Acknowledged(l) == Has(l, "acknowledged") \/ Has(l, "acknowledged_found")
ActionOf(l) == IF l = <<>> THEN None ELSE l[1].about

Boundaries(l) == {l[i].at : i \in {j \in DOMAIN l :
    l[j].kind \in {"reserved", "submitted", "unknown", "evidence"}}}
NotBefore(l, at) == \A b \in Boundaries(l) : at >= b
After(l, at) == \A b \in Boundaries(l) : at > b

\* _validate_semantics and _state, on the event that follows the events `l`.
Legal(l, event) ==
    LET at == event.at
        found == {f \in Of(l, "found") : f.about = event.about}
    IN CASE event.kind = "reserved" -> l = <<>> /\ at < Expiry
         [] event.kind = "reference" ->
                State(l) = "RESERVED" /\ ~Has(l, "reference")
         [] event.kind = "submitted" ->
                State(l) = "RESERVED" /\ NotBefore(l, at) /\ at < Expiry
         [] event.kind = "unknown" ->
                State(l) \in Unresolved /\ NotBefore(l, at)
         [] event.kind = "evidence" ->
                /\ State(l) \in {"SUBMITTED", "UNKNOWN"}
                /\ ~Has(l, "evidence") /\ NotBefore(l, at)
         [] event.kind = "found" -> State(l) = "UNKNOWN" /\ After(l, at)
         [] event.kind = "not_found" ->
                State(l) = "UNKNOWN" /\ ~Has(l, "found") /\ After(l, at)
         [] event.kind = "acknowledged" ->
                State(l) = "SUBMITTED" /\ NotBefore(l, at)
         [] event.kind = "acknowledged_found" ->
                /\ State(l) = "UNKNOWN" /\ NotBefore(l, at)
                /\ \E f \in found : at >= f.at

Readable(l) == \A i \in DOMAIN l : Legal(SubSeq(l, 1, i - 1), l[i])

-----------------------------------------------------------------------------
(* The appends: each is refused unless the ledger is whole, and does       *)
(* nothing when the very same event is already there.                      *)

Write(t, event, allowed) ==
    /\ ~torn
    /\ \/ event \in Range(log[t]) /\ UNCHANGED log
       \/ /\ event \notin Range(log[t])
          /\ allowed
          /\ log' = [log EXCEPT ![t] = Append(@, event)]

\* A multi-action plan is spent by its first acknowledgement.
Stale == Cardinality(Actions) > 1 /\ \E t \in Attempts : Acknowledged(log[t])

ApprovalActive == plan = "approved" /\ ~torn

CanReserve(t, a) ==
    /\ ~Stale
    /\ log[t] = <<>>
    /\ \A u \in Attempts : ActionOf(log[u]) # a
    /\ clock < Expiry

CanMarkUnknown(l, at) == State(l) \in Unresolved /\ NotBefore(l, at)

\* Mutant: evidence may be older than the uncertainty it is bound to.
CanBindEvidenceLate(l, at) ==
    State(l) \in {"SUBMITTED", "UNKNOWN"} /\ ~Has(l, "evidence")

CanBindEvidence(l, at) ==
    /\ State(l) \in {"SUBMITTED", "UNKNOWN"}
    /\ ~Has(l, "evidence")
    /\ NotBefore(l, at)

CanAcknowledge(l, at) == State(l) = "SUBMITTED" /\ NotBefore(l, at)

CanReconcileFound(l, at) == State(l) = "UNKNOWN" /\ After(l, at)

\* Mutant: any second FOUND makes the evidence of an attempt ambiguous.
CanAcknowledgeOnlyFound(l, e) ==
    /\ State(l) = "UNKNOWN" /\ NotBefore(l, e.at)
    /\ Cardinality(Of(l, "found")) = 1
    /\ \E f \in Of(l, "found") : f.about = e /\ f.at <= e.at

CanAcknowledgeFound(l, e) ==
    /\ State(l) = "UNKNOWN" /\ NotBefore(l, e.at)
    /\ \E f \in Of(l, "found") :
         /\ f.about = e /\ f.at <= e.at
         /\ \A b \in {l[i].at : i \in {j \in DOMAIN l :
                          l[j].kind \in {"reserved", "submitted", "unknown"}}} :
              f.at > b

CanReconcileNotFound(l, at) ==
    State(l) = "UNKNOWN" /\ ~Has(l, "found") /\ After(l, at)

-----------------------------------------------------------------------------
(* The plan: reserve_supervised_plan, revoke_supervised_approval, and the  *)
(* operator who confirms the final send of one attempt of one action.      *)

Init ==
    /\ log = [t \in Attempts |-> <<>>]
    /\ torn = FALSE
    /\ plan = "none"
    /\ receipts = [t \in Attempts |-> [a \in Actions |-> "none"]]
    /\ order = [t \in Attempts |-> "none"]
    /\ posts = [t \in Attempts |-> 0]
    /\ readbacks = {}
    /\ fence = None
    /\ pc = [c \in Callers |-> "idle"]
    /\ call = [c \in Callers |-> NoCall]
    /\ clock \in Times

ReservePlan ==
    /\ plan = "none" /\ clock < Expiry /\ ~torn
    /\ plan' = "reserved"
    /\ UNCHANGED <<log, torn, receipts, provider, readbacks, callers, clock>>

BindApproval ==
    /\ plan = "reserved" /\ clock < Expiry /\ ~torn
    /\ plan' = "approved"
    /\ UNCHANGED <<log, torn, receipts, provider, readbacks, callers, clock>>

\* Mutant: the revocation does not wait for the economic lock.
RevokeUnfenced ==
    /\ ApprovalActive
    /\ plan' = "revoked"
    /\ UNCHANGED <<log, torn, receipts, provider, readbacks, callers, clock>>

Revoke ==
    /\ ApprovalActive
    /\ fence = None
    /\ plan' = "revoked"
    /\ UNCHANGED <<log, torn, receipts, provider, readbacks, callers, clock>>

\* prepare_review and confirm_review: once for a decision.
Confirm(t, a) ==
    /\ receipts[t][a] = "none"
    /\ clock < Expiry
    /\ receipts' = [receipts EXCEPT ![t][a] = "confirmed"]
    /\ UNCHANGED <<log, torn, plan, provider, readbacks, callers, clock>>

\* The clock jumps; a confirmation that expired stays expired, because the
\* journal's clock never goes back.
ClockMoves ==
    /\ clock' \in Times \ {clock}
    /\ receipts' = [t \in Attempts |-> [a \in Actions |->
         IF receipts[t][a] = "confirmed" /\ clock' >= Expiry THEN "expired"
         ELSE receipts[t][a]]]
    /\ UNCHANGED <<log, torn, plan, provider, readbacks, callers>>

-----------------------------------------------------------------------------
(* execute_betfair_supervised_action, one step for every durable effect.   *)

At(c, stage) == pc[c] = stage
Moves(c, stage) == pc' = [pc EXCEPT ![c] = stage]
Attempt(c) == call[c].attempt

Return(c) ==
    /\ pc' = [pc EXCEPT ![c] = "idle"]
    /\ call' = [call EXCEPT ![c] = NoCall]
    /\ fence' = IF fence = c THEN None ELSE fence

\* The economic lock is taken and the gate passed.
Start(c, t, a) ==
    /\ At(c, "idle") /\ fence = None
    /\ fence' = c
    /\ call' = [call EXCEPT ![c] = [NoCall EXCEPT !.attempt = t, !.action = a]]
    /\ Moves(c, "begin")
    /\ UNCHANGED <<log, torn, plan, receipts, provider, readbacks, clock>>

\* begin_supervised_attempt: the same attempt of the same action goes on.
BeginAttempt(c) ==
    LET t == Attempt(c)
        a == call[c].action
    IN /\ At(c, "begin")
       /\ ApprovalActive /\ clock < Expiry /\ ~Stale
       /\ \/ /\ CanReserve(t, a)
             /\ log' = [log EXCEPT ![t] = <<Event("reserved", clock, a)>>]
          \/ ActionOf(log[t]) = a /\ UNCHANGED log
       /\ Moves(c, "bind")
       /\ UNCHANGED <<torn, plan, receipts, provider, readbacks, fence, call,
                      clock>>

BindOrderReference(c) ==
    LET l == log[Attempt(c)]
    IN /\ At(c, "bind") /\ ~torn
       /\ \/ Has(l, "reference") /\ UNCHANGED log
          \/ /\ ~Has(l, "reference") /\ State(l) = "RESERVED"
             /\ log' = [log EXCEPT ![Attempt(c)] =
                            Append(l, Event("reference", 0, None))]
       /\ Moves(c, "submit")
       /\ UNCHANGED <<torn, plan, receipts, provider, readbacks, fence, call,
                      clock>>

MarkSubmitted(c) ==
    LET l == log[Attempt(c)]
    IN /\ At(c, "submit") /\ ~torn
       /\ \/ State(l) = "SUBMITTED" /\ UNCHANGED log
          \/ /\ State(l) = "RESERVED" /\ NotBefore(l, clock) /\ clock < Expiry
             /\ log' = [log EXCEPT ![Attempt(c)] =
                            Append(l, Event("submitted", clock, None))]
       /\ Moves(c, "admit")
       /\ UNCHANGED <<torn, plan, receipts, provider, readbacks, fence, call,
                      clock>>

\* confirmation_admission, first half: the attempt and the approval as the
\* ledger has them now.  A refusal is recorded as an uncertain effect.
Admit(c) ==
    LET l == log[Attempt(c)]
        admissible == /\ State(l) = "SUBMITTED" /\ Has(l, "reference")
                      /\ ActionOf(l) = call[c].action
                      /\ ApprovalActive
    IN /\ At(c, "admit")
       /\ Moves(c, IF admissible THEN "consume" ELSE "unknown")
       /\ UNCHANGED <<ledger, receipts, provider, readbacks, fence, call, clock>>

SubmittedAt(l) == (CHOOSE event \in Of(l, "submitted") : TRUE).at

\* Mutant: a receipt that was used once is good enough.
ReceiptUsedIsUsable(t, a) == receipts[t][a] \in {"confirmed", "consumed"}

ReceiptUsable(t, a) == receipts[t][a] = "confirmed"

\* confirmation_admission, second half: the receipt is consumed, durably and
\* for this attempt of this action only, just before the request leaves.
Consume(c) ==
    LET t == Attempt(c)
        a == call[c].action
        usable == /\ clock < Expiry /\ clock >= SubmittedAt(log[t])
                  /\ ReceiptUsable(t, a)
    IN /\ At(c, "consume")
       /\ receipts' = IF usable THEN [receipts EXCEPT ![t][a] = "consumed"]
                      ELSE receipts
       /\ Moves(c, IF usable THEN "post" ELSE "unknown")
       /\ UNCHANGED <<ledger, provider, readbacks, fence, call, clock>>

\* The request leaves the machine.  The provider takes an order reference once.
Post(c) ==
    LET t == Attempt(c)
    IN /\ At(c, "post")
       /\ posts' = [posts EXCEPT ![t] = @ + 1]
       /\ order' = [order EXCEPT ![t] = IF @ = "none" THEN "sent" ELSE @]
       /\ Moves(c, "await")
       /\ UNCHANGED <<ledger, receipts, readbacks, fence, call, clock>>

\* What a report of an order may show, the order being `now` as it is read.
SeenSoFar(now) ==
    CASE now = "matched" -> {"resting", "partial", "matched"}
      [] now = "partial" -> {"resting", "partial"}
      [] OTHER -> {now}

\* The answer arrives, and the economic lock is let go.
Reply(c) ==
    LET t == Attempt(c)
    IN /\ At(c, "await") /\ order[t] \notin {"none", "sent"}
       /\ \E seen \in SeenSoFar(order[t]) :
            call' = [call EXCEPT ![c].report =
                        [source |-> "report", at |-> clock, seen |-> seen]]
       /\ fence' = None
       /\ Moves(c, "report")
       /\ UNCHANGED <<ledger, receipts, provider, readbacks, clock>>

\* The answer is lost, late or unusable: the effect is uncertain.
TimeOut(c) ==
    /\ At(c, "await")
    /\ Moves(c, "unknown")
    /\ UNCHANGED <<ledger, receipts, provider, readbacks, fence, call, clock>>

MarkUnknown(c) ==
    LET t == Attempt(c)
    IN /\ At(c, "unknown") /\ ~torn
       /\ \/ State(log[t]) = "UNKNOWN" /\ UNCHANGED log
          \/ /\ CanMarkUnknown(log[t], clock)
             /\ log' = [log EXCEPT ![t] =
                            Append(@, Event("unknown", clock, None))]
       /\ Return(c)
       /\ UNCHANGED <<torn, plan, receipts, provider, readbacks, clock>>

\* bind_provider_evidence, by a report or by a read-back, outside the lock.
BindReport(c) ==
    LET t == Attempt(c)
        report == call[c].report
    IN /\ At(c, "report")
       /\ Write(t, Event("evidence", report.at, report),
                CanBindEvidence(log[t], report.at))
       /\ Moves(c, "outcome")
       /\ UNCHANGED <<torn, plan, receipts, provider, readbacks, fence, call,
                      clock>>

\* _report_outcome: an order that rests unmatched settles nothing.
ApplyReport(c) ==
    LET t == Attempt(c)
        report == call[c].report
    IN /\ At(c, "outcome")
       /\ IF report.seen = "resting"
          THEN \/ ~torn /\ State(log[t]) = "UNKNOWN" /\ UNCHANGED log
               \/ Write(t, Event("unknown", report.at, None),
                        CanMarkUnknown(log[t], report.at))
          ELSE Write(t, Event("acknowledged", report.at, report),
                     CanAcknowledge(log[t], report.at))
       /\ Return(c)
       /\ UNCHANGED <<torn, plan, receipts, provider, readbacks, clock>>

\* A caller stops: its process dies, or a check refuses, or the ledger's lock
\* is busy.  Dying in the middle of an append tears the last line.
Abandon(c) ==
    /\ ~At(c, "idle")
    /\ torn' \in IF pc[c] \in Appending THEN {torn, TRUE} ELSE {torn}
    /\ Return(c)
    /\ UNCHANGED <<log, plan, receipts, provider, readbacks, clock>>

-----------------------------------------------------------------------------
(* The provider, and what others learn from it.                            *)

Place(t) ==
    /\ order[t] = "sent"
    /\ \E outcome \in {"resting", "rejected"} \cup Matches :
         order' = [order EXCEPT ![t] = outcome]
    /\ UNCHANGED <<ledger, receipts, posts, readbacks, callers, clock>>

MatchMore(t) ==
    /\ order[t] \in {"resting", "partial"}
    /\ \E outcome \in Matches \ {order[t]} :
         order' = [order EXCEPT ![t] = outcome]
    /\ UNCHANGED <<ledger, receipts, posts, readbacks, callers, clock>>

\* Mutant: the recovery stamps an instant that is yet to come.
RecoverAhead ==
    /\ ~torn
    /\ \E promoted \in SUBSET {t \in Attempts : State(log[t]) \in Unresolved} \ {{}} :
         log' = [t \in Attempts |->
             IF t \in promoted
             THEN Append(log[t], Event("unknown", clock + 1, None))
             ELSE log[t]]
    /\ UNCHANGED <<torn, plan, receipts, provider, readbacks, callers, clock>>

\* recover_uncertain, which takes the ledger's lock and no other: everything
\* unresolved becomes UNKNOWN, one append each, unless the process dies.
Recover ==
    LET unresolved == {t \in Attempts : State(log[t]) \in Unresolved}
    IN /\ ~torn
       /\ \A t \in unresolved : NotBefore(log[t], clock)
       /\ \E promoted \in SUBSET unresolved \ {{}} :
            log' = [t \in Attempts |->
                IF t \in promoted
                THEN Append(log[t], Event("unknown", clock, None))
                ELSE log[t]]
       /\ UNCHANGED <<torn, plan, receipts, provider, readbacks, callers, clock>>

\* read_betfair_supervised_action_readback and verify_betfair_provider_state:
\* a resting order yields no evidence, an order that is not there absence.
ReadBack(t) ==
    /\ Cardinality(readbacks) < MaxReadbacks
    /\ ~torn /\ Has(log[t], "reference") /\ order[t] # "resting"
    /\ readbacks' = readbacks \cup
         {[attempt |-> t,
           evidence |-> [source |-> "readback", at |-> clock,
                         seen |-> IF order[t] \in Matches THEN order[t]
                                  ELSE "absent"]]}
    /\ UNCHANGED <<ledger, receipts, provider, callers, clock>>

\* reconcile_provider_readback of an attempt found SUBMITTED.
PresentToSubmitted(c, r) ==
    /\ At(c, "idle") /\ ~torn
    /\ r.evidence.seen \in Matches
    /\ State(log[r.attempt]) = "SUBMITTED"
    /\ call' = [call EXCEPT ![c] = [NoCall EXCEPT !.attempt = r.attempt,
                                                 !.report = r.evidence]]
    /\ Moves(c, "report")
    /\ UNCHANGED <<ledger, receipts, provider, readbacks, fence, clock>>

\* reconcile_provider_readback of an attempt found UNKNOWN: FOUND first.
PresentToUnknown(c, r) ==
    LET l == log[r.attempt]
        e == r.evidence
    IN /\ At(c, "idle")
       /\ e.seen \in Matches
       /\ State(l) = "UNKNOWN"
       /\ Write(r.attempt, Event("found", e.at, e), CanReconcileFound(l, e.at))
       /\ call' = [call EXCEPT ![c] = [NoCall EXCEPT !.attempt = r.attempt,
                                                    !.report = e]]
       /\ Moves(c, "found")
       /\ UNCHANGED <<torn, plan, receipts, provider, readbacks, fence, clock>>

AcknowledgeFound(c) ==
    LET t == Attempt(c)
        e == call[c].report
    IN /\ At(c, "found")
       /\ Write(t, Event("acknowledged_found", e.at, e),
                CanAcknowledgeFound(log[t], e))
       /\ Return(c)
       /\ UNCHANGED <<torn, plan, receipts, provider, readbacks, clock>>

\* reconcile_provider_not_found.
PresentNotFound(r) ==
    LET l == log[r.attempt]
        e == r.evidence
    IN /\ e.seen = "absent" /\ ~torn
       /\ CanReconcileNotFound(l, e.at)
       /\ log' = [log EXCEPT ![r.attempt] =
                      Append(l, Event("not_found", e.at, e))]
       /\ UNCHANGED <<torn, plan, receipts, provider, readbacks, callers, clock>>

CallStep(c) ==
    \/ BeginAttempt(c) \/ BindOrderReference(c) \/ MarkSubmitted(c)
    \/ Admit(c) \/ Consume(c) \/ Post(c) \/ Reply(c) \/ TimeOut(c)
    \/ MarkUnknown(c) \/ BindReport(c) \/ ApplyReport(c)
    \/ AcknowledgeFound(c) \/ Abandon(c)

Next ==
    \/ ReservePlan \/ BindApproval \/ Revoke \/ Recover \/ ClockMoves
    \/ \E t \in Attempts : Place(t) \/ MatchMore(t) \/ ReadBack(t)
    \/ \E t \in Attempts, a \in Actions : Confirm(t, a)
    \/ \E c \in Callers, t \in Attempts, a \in Actions : Start(c, t, a)
    \/ \E c \in Callers : CallStep(c)
    \/ \E c \in Callers, r \in readbacks : PresentToSubmitted(c, r)
    \/ \E c \in Callers, r \in readbacks : PresentToUnknown(c, r)
    \/ \E r \in readbacks : PresentNotFound(r)

Spec == Init /\ [][Next]_vars

-----------------------------------------------------------------------------
(* Properties.                                                             *)

TypeOK ==
    /\ \A t \in Attempts : \A i \in DOMAIN log[t] : log[t][i].at \in Times
    /\ torn \in BOOLEAN
    /\ plan \in {"none", "reserved", "approved", "revoked"}
    /\ receipts \in [Attempts -> [Actions ->
            {"none", "confirmed", "expired", "consumed"}]]
    /\ order \in [Attempts -> {"none", "sent", "resting", "rejected"} \cup Matches]
    /\ posts \in [Attempts -> Nat]
    /\ readbacks \subseteq [attempt : Attempts, evidence : Evidence]
    /\ fence \in Callers \cup {None}
    /\ pc \in [Callers -> Stages \cup {"idle"}]
    /\ call \in [Callers -> [attempt : Attempts \cup {None},
                              action : Actions \cup {None},
                              report : Evidence \cup {None}]]
    /\ clock \in Times

\* A placeOrders request leaves the machine at most once for an action of
\* the plan, whoever dies, times out, recovers, retries with the same or
\* another attempt, or reads the order as absent (begin_attempt, the single
\* use of the operator's receipt, the states of the ledger).
OnePostPerAction ==
    \A a \in Actions :
        LET mine == {t \in Attempts : ActionOf(log[t]) = a}
        IN /\ \A t \in mine : posts[t] <= 1
           /\ Cardinality({t \in mine : posts[t] > 0}) <= 1

\* What the append guards let through, the next read accepts: no order of
\* late reports, recoveries and read-backs makes _validate_semantics refuse
\* the ledger, which would take every plan of the workspace with it.
LedgerStaysReadable == \A t \in Attempts : Readable(log[t])

\* The ledger never says more than the provider did: a request that left is
\* on record with its reference, a full or partial acknowledgement stands for
\* stake that was matched, and a rejection for an order that was refused.
LedgerAccountsForProvider ==
    \A t \in Attempts :
        /\ posts[t] > 0 => Has(log[t], "reference") /\ Has(log[t], "submitted")
        /\ State(log[t]) = "ACCEPTED" => order[t] = "matched"
        /\ State(log[t]) = "PARTIAL" => order[t] \in Matches
        /\ State(log[t]) = "REJECTED" => order[t] = "rejected"

\* An uncertain bet that was matched can always be settled: whatever was
\* bound, found or left half-done before, a read-back newer than all of it is
\* accepted as FOUND and then as the acknowledgement.
FreshReadbackResolves ==
    \A t \in Attempts :
        ~torn /\ State(log[t]) = "UNKNOWN" /\ order[t] \in Matches =>
            LET e == [source |-> "readback", at |-> MaxTime + 1,
                      seen |-> order[t]]
            IN /\ CanReconcileFound(log[t], e.at)
               /\ CanAcknowledgeFound(Append(log[t], Event("found", e.at, e)), e)

\* No request leaves after the approval was revoked: the admission's read of
\* the approval is still true when the request goes (the economic lock).
NoSendAfterRevocation == [][posts' # posts => plan = "approved"]_vars

\* "The ACK event itself is the crash-atomic stale authority": once an
\* attempt of a multi-action plan is acknowledged, none of the plan's other
\* requests leaves.
NoSendFromStalePlan == [][posts' # posts => ~Stale]_vars

=============================================================================
