--------------------- MODULE SupervisedSettlementProofs ----------------------
(***************************************************************************)
(* What the real execution ledger says of the provider, proved for every   *)
(* number of callers, actions, attempts, read-backs and instants: a request*)
(* that left is on record, an acknowledgement never says more than the     *)
(* provider did, and an uncertain bet that was matched can be settled.     *)
(* Evidence travels from the provider to the ledger through a read-back or *)
(* a caller's memory, while the order goes on; Vouched follows it and says *)
(* that what it saw stays true of the order.                               *)
(***************************************************************************)
EXTENDS SupervisedExecutionProofs

Acks == {"acknowledged", "acknowledged_found"}
Settling == {"report", "outcome", "found"}

\* What the evidence e saw of an order holds of the order as it is now.
Supports(e, now) ==
    /\ e.seen = "matched" => now = "matched"
    /\ e.seen = "partial" => now \in Matches
    /\ e.seen = "rejected" => now = "rejected"

\* Evidence an acknowledgement may rest on: it saw the order settled.
Decisive(e) == e \in Evidence /\ e.seen \in Matches \cup {"rejected"}

\* What somebody read, or holds in memory, or wrote down, of an order.
Vouched ==
    /\ \A r \in readbacks : Supports(r.evidence, order[r.attempt])
    /\ \A c \in Callers : pc[c] \in Settling =>
         /\ call[c].report.seen # "absent"
         /\ pc[c] = "found" => call[c].report.seen \in Matches
         /\ Supports(call[c].report, order[call[c].attempt])
    /\ \A t \in Attempts : \A i \in DOMAIN log[t] : log[t][i].kind \in Acks =>
         /\ Decisive(log[t][i].about)
         /\ Supports(log[t][i].about, order[t])

\* A request has its reference and its submission on record before it leaves.
OnRecord(l) == Has(l, "reference") /\ Has(l, "submitted")
Recorded ==
    /\ \A t \in Attempts : posts[t] > 0 => OnRecord(log[t])
    /\ \A c \in Callers : pc[c] = "admit" => Has(log[call[c].attempt], "submitted")
    /\ \A c \in Callers : pc[c] \in {"consume", "post"} => OnRecord(log[call[c].attempt])

SInv == IInv /\ Vouched /\ Recorded

-----------------------------------------------------------------------------
(* The last event of a log that changes its state.                         *)

Changes(l) == {i \in DOMAIN l : l[i].kind \notin {"reference", "evidence", "found"}}

\* A log that has such an event has a last one.
LEMMA LastChange ==
    ASSUME NEW n \in Nat, NEW S, S \subseteq 1..n, S # {}
    PROVE  Max(S) \in S
<1> DEFINE T == {n - i : i \in S}
<1>1. T \subseteq Nat /\ T # {}
  <2>1. \A i \in S : i \in Int /\ 1 <= i /\ i <= n
    OBVIOUS
  <2>2. \A i \in S : n - i \in Nat
    BY <2>1
  <2>3. T # {}
    OBVIOUS
  <2> QED
    BY <2>2, <2>3
<1>2. PICK x \in T : \A y \in T : ~(<<y, x>> \in OpToRel(<, Nat))
  BY <1>1, NatLessThanWellFounded, WFMin
<1>3. \A y \in T : ~(y < x)
  <2> SUFFICES ASSUME NEW y \in T, y < x PROVE FALSE
    OBVIOUS
  <2>1. <<y, x>> \in OpToRel(<, Nat)
    BY <1>1 DEF OpToRel
  <2> QED
    BY <1>2, <2>1
<1>4. PICK m \in S : x = n - m
  BY <1>2
<1>5. \A i \in S : m >= i
  <2> SUFFICES ASSUME NEW i \in S PROVE m >= i
    OBVIOUS
  <2>1. n - i \in T
    OBVIOUS
  <2>2. ~(n - i < n - m)
    BY <1>3, <1>4, <2>1
  <2>3. i \in Int /\ m \in Int /\ n \in Int
    OBVIOUS
  <2> HIDE DEF T
  <2> QED
    BY <2>2, <2>3
<1> QED
  BY <1>5 DEF Max

\* The state of a log is what one of its events says.
LEMMA StateIsOfAnEvent ==
    ASSUME NEW l \in Seq(Records), State(l) # "none"
    PROVE  \E i \in DOMAIN l : /\ l[i].kind \notin {"reference", "evidence", "found"}
                               /\ State(l) = StateAfter(l[i])
<1>1. State(l) = IF Changes(l) = {} THEN "none" ELSE StateAfter(l[Max(Changes(l))])
  BY DEF State, Changes
<1>2. Changes(l) \subseteq 1..Len(l) /\ Len(l) \in Nat
  BY DEF Changes
<1>3. Changes(l) # {}
  BY <1>1
<1>4. Max(Changes(l)) \in Changes(l)
  BY <1>2, <1>3, LastChange
<1> QED
  BY <1>1, <1>3, <1>4 DEF Changes

\* What the states say of the log: a submission, or an acknowledgement.
LEMMA StateOrigins ==
    ASSUME NEW l \in Seq(Records),
           \A i \in DOMAIN l : l[i].kind \in Acks => Decisive(l[i].about)
    PROVE  /\ State(l) = "SUBMITTED" => Has(l, "submitted")
           /\ State(l) \in {"ACCEPTED", "PARTIAL", "REJECTED"} =>
                \E i \in DOMAIN l : l[i].kind \in Acks /\ State(l) = Status(l[i].about)
<1> SUFFICES ASSUME State(l) \in {"SUBMITTED", "ACCEPTED", "PARTIAL", "REJECTED"}
             PROVE  /\ State(l) = "SUBMITTED" => Has(l, "submitted")
                    /\ State(l) \in {"ACCEPTED", "PARTIAL", "REJECTED"} =>
                         \E i \in DOMAIN l : l[i].kind \in Acks /\ State(l) = Status(l[i].about)
  OBVIOUS
<1>1. PICK i \in DOMAIN l : /\ l[i].kind \notin {"reference", "evidence", "found"}
                            /\ State(l) = StateAfter(l[i])
  BY StateIsOfAnEvent
<1>2. l[i].kind \in Kinds
  <2>1. l[i] \in Records
    BY <1>1
  <2> QED
    BY <2>1 DEF Records
<1>3. CASE l[i].kind \in Acks
  <2>1. State(l) = Status(l[i].about)
    BY <1>1, <1>3 DEF StateAfter, Acks
  <2>2. Status(l[i].about) \in {"ACCEPTED", "PARTIAL", "REJECTED"}
    BY <1>3 DEF Decisive, Status, Matches
  <2> QED
    BY <1>3, <2>1, <2>2
<1>4. CASE l[i].kind \notin Acks
  <2>1. State(l) = "SUBMITTED" /\ l[i].kind = "submitted"
    BY <1>1, <1>2, <1>4 DEF StateAfter, Acks, Kinds
  <2> QED
    BY <2>1 DEF Has
<1> QED
  BY <1>3, <1>4

\* A FOUND leaves the state as it was.
LEMMA FoundKeepsState ==
    ASSUME NEW l \in Seq(Records), NEW e, e.kind = "found"
    PROVE  State(Append(l, e)) = State(l)
<1> DEFINE k == Append(l, e)
<1>1. DOMAIN k = 1..(Len(l) + 1) /\ DOMAIN l = 1..Len(l) /\ Len(l) \in Nat
  OBVIOUS
<1>2. \A i \in DOMAIN l : k[i] = l[i]
  OBVIOUS
<1>3. k[Len(l) + 1] = e
  OBVIOUS
<1> HIDE DEF k
<1>4. Changes(k) = Changes(l)
  BY <1>1, <1>2, <1>3 DEF Changes
<1>5. CASE Changes(l) = {}
  BY <1>4, <1>5 DEF State, Changes, k
<1>6. CASE Changes(l) # {}
  <2>1. Max(Changes(l)) \in Changes(l)
    BY <1>1, <1>6, LastChange DEF Changes
  <2>2. k[Max(Changes(l))] = l[Max(Changes(l))]
    BY <1>2, <2>1 DEF Changes
  <2> QED
    BY <1>4, <1>6, <2>2 DEF State, Changes, k
<1> QED
  BY <1>5, <1>6

-----------------------------------------------------------------------------
(* Evidence on its way to the ledger.                                      *)

\* What the log of t has at i it had before the step.
Old(t, i) == i \in DOMAIN log[t] /\ log'[t][i] = log[t][i]

\* What it has there is the outcome some caller held in memory.
FromCaller(t, i) ==
    \E c \in Callers : /\ pc[c] \in {"outcome", "found"}
                       /\ call[c].attempt = t
                       /\ log'[t][i].about = call[c].report
                       /\ call[c].report.seen # "resting"

\* An append adds the event it appends and no other.
LEMMA AppendAdds ==
    ASSUME LogTyped, NEW t \in Attempts, NEW e,
           log' = [log EXCEPT ![t] = Append(log[t], e)]
    PROVE  \A u \in Attempts : \A i \in DOMAIN log'[u] :
             Old(u, i) \/ (u = t /\ log'[u][i] = e)
<1>1. log[t] \in Seq(Records) /\ log'[t] = Append(log[t], e)
  BY DEF LogTyped
<1>2. \A u \in Attempts \ {t} : log'[u] = log[u]
  BY DEF LogTyped
<1>3. \A i \in DOMAIN log'[t] : Old(t, i) \/ log'[t][i] = e
  <2>1. DOMAIN log'[t] = 1..(Len(log[t]) + 1) /\ DOMAIN log[t] = 1..Len(log[t])
    BY <1>1
  <2>2. \A i \in 1..Len(log[t]) : log'[t][i] = log[t][i]
    BY <1>1
  <2>3. log'[t][Len(log[t]) + 1] = e
    BY <1>1
  <2> QED
    BY <2>1, <2>2, <2>3 DEF Old
<1> QED
  BY <1>2, <1>3 DEF Old

\* An acknowledgement carries what a caller held: nothing else writes one.
LEMMA AcksAdded ==
    ASSUME TypeOK, LogTyped, Sends, [Next]_vars,
           \A c \in Callers : pc[c] = "found" => call[c].report.seen \in Matches,
           NEW t \in Attempts, NEW i \in DOMAIN log'[t], log'[t][i].kind \in Acks
    PROVE  Old(t, i) \/ FromCaller(t, i)
<1>0. CASE UNCHANGED log
  BY <1>0 DEF Old
<1>1. ASSUME NEW u \in Attempts, NEW kind \in Kinds \ Acks, NEW at, NEW about,
             log' = [log EXCEPT ![u] = Append(log[u], Event(kind, at, about))]
      PROVE  Old(t, i)
  <2> DEFINE e == Event(kind, at, about)
  <2>1. e.kind \notin Acks
    BY DEF Event
  <2>2. log' = [log EXCEPT ![u] = Append(log[u], e)]
    BY <1>1
  <2> HIDE DEF e
  <2>3. \A w \in Attempts : \A j \in DOMAIN log'[w] :
          Old(w, j) \/ (w = u /\ log'[w][j] = e)
    BY <2>2, AppendAdds DEF Old
  <2> QED
    BY <2>1, <2>3
<1> USE DEF At, Attempt
<1>2. ASSUME NEW c \in Callers, CallStep(c)
      PROVE  Old(t, i) \/ FromCaller(t, i)
  <2> DEFINE u == call[c].attempt
             report == call[c].report
  <2>0. pc[c] # "idle" => u \in Attempts
    BY DEF Sends, Calls
  <2> HIDE DEF u, report
  <2>1. CASE BeginAttempt(c)
    <3>1. CASE log[u] = <<>> /\ log' = [log EXCEPT ![u] = <<Event("reserved", clock, call[c].action)>>]
      <4>1. log' = [log EXCEPT ![u] = Append(log[u], Event("reserved", clock, call[c].action))]
        BY <3>1
      <4>2. u \in Attempts
        BY <2>0, <2>1 DEF Acks, Kinds, Kinds, BeginAttempt
      <4> QED
        BY <1>1, <4>1, <4>2 DEF Kinds, Acks
    <3> QED
      BY <1>0, <2>1, <3>1 DEF BeginAttempt, CanReserve, u
  <2>2. CASE BindOrderReference(c)
    <3>1. CASE log' = [log EXCEPT ![u] = Append(log[u], Event("reference", 0, None))]
      BY <1>1, <2>0, <2>2, <3>1 DEF Acks, Kinds, BindOrderReference
    <3> QED
      BY <1>0, <2>2, <3>1 DEF BindOrderReference, u
  <2>3. CASE MarkSubmitted(c)
    <3>1. CASE log' = [log EXCEPT ![u] = Append(log[u], Event("submitted", clock, None))]
      BY <1>1, <2>0, <2>3, <3>1 DEF Acks, Kinds, MarkSubmitted
    <3> QED
      BY <1>0, <2>3, <3>1 DEF MarkSubmitted, u
  <2>4. CASE MarkUnknown(c)
    <3>1. CASE log' = [log EXCEPT ![u] = Append(log[u], Event("unknown", clock, None))]
      BY <1>1, <2>0, <2>4, <3>1 DEF Acks, Kinds, MarkUnknown
    <3> QED
      BY <1>0, <2>4, <3>1 DEF MarkUnknown, u
  <2>5. CASE BindReport(c)
    <3>1. CASE log' = [log EXCEPT ![u] = Append(log[u], Event("evidence", report.at, report))]
      BY <1>1, <2>0, <2>5, <3>1 DEF Acks, Kinds, BindReport
    <3> QED
      BY <1>0, <2>5, <3>1 DEF BindReport, Write, u, report
  <2>6. CASE ApplyReport(c)
    <3>1. CASE log' = [log EXCEPT ![u] = Append(log[u], Event("unknown", report.at, None))]
      BY <1>1, <2>0, <2>6, <3>1 DEF Acks, Kinds, ApplyReport
    <3>2. CASE /\ report.seen # "resting"
               /\ log' = [log EXCEPT ![u] = Append(log[u], Event("acknowledged", report.at, report))]
      <4> DEFINE e == Event("acknowledged", report.at, report)
      <4>0. u \in Attempts /\ log' = [log EXCEPT ![u] = Append(log[u], e)]
        BY <2>0, <2>6, <3>2 DEF ApplyReport
      <4>2. e.about = report
        BY DEF Event
      <4> HIDE DEF e
      <4>1. \A w \in Attempts : \A j \in DOMAIN log'[w] :
              Old(w, j) \/ (w = u /\ log'[w][j] = e)
        BY <4>0, AppendAdds DEF Old
      <4> QED
        BY <2>6, <3>2, <4>1, <4>2 DEF ApplyReport, FromCaller, u, report
    <3> QED
      BY <1>0, <2>6, <3>1, <3>2 DEF ApplyReport, Write, u, report
  <2>7. CASE AcknowledgeFound(c)
    <3>0. report.seen # "resting"
      BY <2>7 DEF AcknowledgeFound, Matches, report
    <3>1. CASE log' = [log EXCEPT ![u] = Append(log[u], Event("acknowledged_found", report.at, report))]
      <4> DEFINE e == Event("acknowledged_found", report.at, report)
      <4>0. u \in Attempts /\ log' = [log EXCEPT ![u] = Append(log[u], e)]
        BY <2>0, <2>7, <3>1 DEF AcknowledgeFound
      <4>2. e.about = report
        BY DEF Event
      <4> HIDE DEF e
      <4>1. \A w \in Attempts : \A j \in DOMAIN log'[w] :
              Old(w, j) \/ (w = u /\ log'[w][j] = e)
        BY <4>0, AppendAdds DEF Old
      <4> QED
        BY <2>7, <3>0, <3>1, <4>1, <4>2 DEF AcknowledgeFound, FromCaller, u, report
    <3> QED
      BY <1>0, <2>7, <3>1 DEF AcknowledgeFound, Write, u, report
  <2> QED
    BY <1>0, <1>2, <2>1, <2>2, <2>3, <2>4, <2>5, <2>6, <2>7
    DEF CallStep, Admit, Consume, Post, Reply, TimeOut, Abandon, ledger
<1>3. CASE Recover
  <2> DEFINE e == Event("unknown", clock, None)
  <2>1. PICK promoted \in SUBSET Attempts :
          log' = [u \in Attempts |->
                    IF u \in promoted THEN Append(log[u], e) ELSE log[u]]
    BY <1>3 DEF Recover
  <2>2. e.kind \notin Acks
    BY DEF Event, Acks
  <2> HIDE DEF e
  <2>3. log'[t] = log[t] \/ log'[t] = Append(log[t], e)
    BY <2>1
  <2>4. log[t] \in Seq(Records)
    BY DEF LogTyped
  <2> QED
    BY <2>2, <2>3, <2>4 DEF Old
<1>4. ASSUME NEW c \in Callers, NEW r \in readbacks, PresentToUnknown(c, r)
      PROVE  Old(t, i) \/ FromCaller(t, i)
  <2>1. r.attempt \in Attempts
    BY DEF TypeOK
  <2>2. CASE log' = [log EXCEPT ![r.attempt] =
                       Append(log[r.attempt], Event("found", r.evidence.at, r.evidence))]
    BY <1>1, <2>1, <2>2 DEF Acks, Kinds
  <2>3. Write(r.attempt, Event("found", r.evidence.at, r.evidence),
              CanReconcileFound(log[r.attempt], r.evidence.at))
    BY <1>4 DEF PresentToUnknown
  <2>4. \/ UNCHANGED log
        \/ log' = [log EXCEPT ![r.attempt] =
                       Append(log[r.attempt], Event("found", r.evidence.at, r.evidence))]
    BY <2>3 DEF Write
  <2>5. CASE UNCHANGED log
    BY <1>0, <2>5
  <2> QED
    BY <2>2, <2>4, <2>5
<1>5. ASSUME NEW r \in readbacks, PresentNotFound(r)
      PROVE  Old(t, i)
  <2>1. r.attempt \in Attempts
    BY DEF TypeOK
  <2> QED
    BY <1>1, <1>5, <2>1 DEF PresentNotFound, Acks, Kinds
<1>6. CASE ReservePlan \/ BindApproval \/ Revoke \/ ClockMoves
  BY <1>0, <1>6 DEF ReservePlan, BindApproval, Revoke, ClockMoves, ledger
<1>7. CASE \E u \in Attempts : Place(u) \/ MatchMore(u) \/ ReadBack(u)
  BY <1>0, <1>7 DEF Place, MatchMore, ReadBack, ledger
<1>8. CASE \E u \in Attempts, a \in Actions : Confirm(u, a)
  BY <1>0, <1>8 DEF Confirm
<1>9. CASE \E c \in Callers, u \in Attempts, a \in Actions : Start(c, u, a)
  BY <1>0, <1>9 DEF Start
<1>10. CASE \E c \in Callers, r \in readbacks : PresentToSubmitted(c, r)
  BY <1>0, <1>10 DEF PresentToSubmitted, ledger
<1>11. CASE UNCHANGED vars
  BY <1>0, <1>11 DEF vars
<1> QED
  BY <1>2, <1>3, <1>4, <1>5, <1>6, <1>7, <1>8, <1>9, <1>10, <1>11 DEF Next

-----------------------------------------------------------------------------
(* Vouched.                                                                *)

\* What was true of an order stays true of it: it only goes on.
LEMMA SupportsKept ==
    ASSUME TypeOK, Sends, [Next]_vars, NEW t \in Attempts, NEW e,
           Supports(e, order[t])
    PROVE  Supports(e, order'[t])
<1>0. CASE UNCHANGED order
  BY <1>0
<1>1. ASSUME NEW u \in Attempts, Place(u) \/ MatchMore(u)
      PROVE  Supports(e, order'[t])
  <2>1. PICK outcome \in {"resting", "rejected"} \cup Matches :
          /\ order' = [order EXCEPT ![u] = outcome]
          /\ order[u] \in {"sent", "resting"} \/ (order[u] = "partial" /\ outcome \in Matches)
    BY <1>1 DEF Place, MatchMore
  <2>2. CASE u = t
    BY <2>1, <2>2 DEF Supports, TypeOK, Matches
  <2>3. CASE u # t
    BY <2>1, <2>3 DEF TypeOK
  <2> QED
    BY <2>2, <2>3
<1>2. ASSUME NEW c \in Callers, Post(c)
      PROVE  Supports(e, order'[t])
  <2>1. call[c].attempt \in Attempts
    BY <1>2 DEF Post, At, Sends, Calls
  <2>2. CASE call[c].attempt = t
    BY <1>2, <2>2 DEF Post, Attempt, Supports, TypeOK, Matches
  <2>3. CASE call[c].attempt # t
    BY <1>2, <2>1, <2>3 DEF Post, Attempt, TypeOK
  <2> QED
    BY <2>2, <2>3
<1>3. ASSUME NEW c \in Callers, CallStep(c)
      PROVE  Supports(e, order'[t])
  BY <1>0, <1>2, <1>3
  DEF CallStep, BeginAttempt, BindOrderReference, MarkSubmitted, Admit, Consume,
      Reply, TimeOut, MarkUnknown, BindReport, ApplyReport, AcknowledgeFound, Abandon,
      provider
<1>4. CASE \E u \in Attempts, a \in Actions : Confirm(u, a)
  BY <1>0, <1>4 DEF Confirm, provider
<1>5. CASE \E r \in readbacks : PresentNotFound(r)
  BY <1>0, <1>5 DEF PresentNotFound, provider
<1>6. CASE \E c \in Callers, r \in readbacks :
             PresentToSubmitted(c, r) \/ PresentToUnknown(c, r)
  BY <1>0, <1>6 DEF PresentToSubmitted, PresentToUnknown, provider
<1>7. CASE \E c \in Callers, u \in Attempts, a \in Actions : Start(c, u, a)
  BY <1>0, <1>7 DEF Start, provider
<1>8. CASE \E u \in Attempts : ReadBack(u)
  BY <1>0, <1>8 DEF ReadBack, provider
<1>9. CASE ReservePlan \/ BindApproval \/ Revoke \/ Recover \/ ClockMoves
  BY <1>0, <1>9 DEF ReservePlan, BindApproval, Revoke, Recover, ClockMoves, provider
<1>10. CASE UNCHANGED vars
  BY <1>0, <1>10 DEF vars
<1> QED
  BY <1>1, <1>3, <1>4, <1>5, <1>6, <1>7, <1>8, <1>9, <1>10 DEF Next

\* A caller that settles goes on with what it has, or takes it from the
\* provider's answer or from a read-back, which is what the order shows.
LEMMA SettlingKept ==
    ASSUME TypeOK, Sends, Vouched, [Next]_vars, NEW c \in Callers, pc'[c] \in Settling
    PROVE  \/ /\ pc[c] \in Settling /\ call'[c] = call[c]
              /\ pc'[c] = "found" => pc[c] = "found"
           \/ /\ call'[c].report.seen # "absent"
              /\ pc'[c] = "found" => call'[c].report.seen \in Matches
              /\ UNCHANGED order
              /\ Supports(call'[c].report, order[call'[c].attempt])
<1> DEFINE Goal == \/ /\ pc[c] \in Settling /\ call'[c] = call[c]
                      /\ pc'[c] = "found" => pc[c] = "found"
                   \/ /\ call'[c].report.seen # "absent"
                      /\ pc'[c] = "found" => call'[c].report.seen \in Matches
                      /\ UNCHANGED order
                      /\ Supports(call'[c].report, order[call'[c].attempt])
<1> SUFFICES Goal
  OBVIOUS
<1>0. CASE pc'[c] = pc[c] /\ call'[c] = call[c]
  BY <1>0
<1> HIDE DEF Goal
<1> USE DEF At, Attempt, Moves
<1>1. ASSUME NEW d \in Callers, CallStep(d)
      PROVE  Goal
  <2>1. CASE d # c
    <3>1. pc'[c] = pc[c] /\ call'[c] = call[c]
      BY <1>1, <2>1
      DEF TypeOK, CallStep, BeginAttempt, BindOrderReference, MarkSubmitted, Admit,
          Consume, Post, Reply, TimeOut, MarkUnknown, BindReport, ApplyReport,
          AcknowledgeFound, Abandon, Return
    <3> QED
      BY <1>0, <3>1
  <2>2. CASE d = c
    <3>1. CASE Reply(c)
      <4>1. PICK seen \in SeenSoFar(order[call[c].attempt]) :
              call' = [call EXCEPT ![c].report =
                         [source |-> "report", at |-> clock, seen |-> seen]]
        BY <3>1 DEF Reply
      <4>2. /\ order[call[c].attempt] \notin {"none", "sent"}
            /\ UNCHANGED order /\ call[c].attempt \in Attempts /\ pc'[c] = "report"
        BY <3>1 DEF Reply, provider, Sends, Calls, TypeOK
      <4>3. call'[c].report.seen = seen /\ call'[c].attempt = call[c].attempt
        BY <4>1 DEF TypeOK
      <4>4. order[call[c].attempt] \in {"resting", "rejected", "partial", "matched"}
        BY <4>2 DEF TypeOK, Matches
      <4>5. seen # "absent" /\ \A e : e.seen = seen => Supports(e, order[call[c].attempt])
        BY <4>4 DEF SeenSoFar, Supports, Matches
      <4> QED
        BY <4>2, <4>3, <4>5 DEF Goal
    <3>2. CASE BindReport(c)
      BY <3>2 DEF BindReport, TypeOK, Goal, Settling
    <3>3. CASE MarkUnknown(c) \/ ApplyReport(c) \/ AcknowledgeFound(c) \/ Abandon(c)
      <4>1. Return(c)
        BY <3>3 DEF MarkUnknown, ApplyReport, AcknowledgeFound, Abandon
      <4> QED
        BY <4>1 DEF Return, TypeOK, Settling
    <3>4. CASE BeginAttempt(c) \/ BindOrderReference(c) \/ MarkSubmitted(c) \/ Admit(c)
               \/ Consume(c) \/ Post(c) \/ TimeOut(c)
      <4>1. pc'[c] \in {"bind", "submit", "admit", "consume", "unknown", "post", "await"}
        BY <3>4 DEF BeginAttempt, BindOrderReference, MarkSubmitted, Admit, Consume,
                    Post, TimeOut, TypeOK
      <4> QED
        BY <4>1 DEF Settling
    <3> QED
      BY <1>1, <2>2, <3>1, <3>2, <3>3, <3>4 DEF CallStep
  <2> QED
    BY <2>1, <2>2
<1>2. ASSUME NEW d \in Callers, NEW r \in readbacks,
             PresentToSubmitted(d, r) \/ PresentToUnknown(d, r)
      PROVE  Goal
  <2>1. /\ call' = [call EXCEPT ![d] = [NoCall EXCEPT !.attempt = r.attempt,
                                                     !.report = r.evidence]]
        /\ UNCHANGED order
        /\ r.evidence.seen \in Matches
        /\ \E stage \in {"report", "found"} : pc' = [pc EXCEPT ![d] = stage]
    BY <1>2 DEF PresentToSubmitted, PresentToUnknown, provider
  <2>2. CASE d = c
    <3>1. call'[c].attempt = r.attempt /\ call'[c].report = r.evidence
      BY <2>1, <2>2 DEF TypeOK, NoCall
    <3> QED
      BY <2>1, <3>1 DEF Vouched, Goal, Matches
  <2>3. CASE d # c
    BY <1>0, <2>1, <2>3 DEF TypeOK
  <2> QED
    BY <2>2, <2>3
<1>3. ASSUME NEW d \in Callers, NEW u \in Attempts, NEW a \in Actions, Start(d, u, a)
      PROVE  Goal
  BY <1>0, <1>3 DEF Start, TypeOK, Settling
<1>4. CASE UNCHANGED <<pc, call>>
  BY <1>0, <1>4
<1>5. CASE \E u \in Attempts, a \in Actions : Confirm(u, a)
  BY <1>4, <1>5 DEF Confirm, callers
<1>6. CASE \E r \in readbacks : PresentNotFound(r)
  BY <1>4, <1>6 DEF PresentNotFound, callers
<1>7. CASE \E u \in Attempts : Place(u) \/ MatchMore(u) \/ ReadBack(u)
  BY <1>4, <1>7 DEF Place, MatchMore, ReadBack, callers
<1>8. CASE ReservePlan \/ BindApproval \/ Revoke \/ Recover \/ ClockMoves
  BY <1>4, <1>8 DEF ReservePlan, BindApproval, Revoke, Recover, ClockMoves, callers
<1>9. CASE UNCHANGED vars
  BY <1>4, <1>9 DEF vars
<1> QED
  BY <1>1, <1>2, <1>3, <1>5, <1>6, <1>7, <1>8, <1>9 DEF Next

\* Everything read, held or written down of an order stays true of it.
LEMMA VouchedKept ==
    ASSUME TypeOK, LogTyped, Sends, Vouched, [Next]_vars
    PROVE  Vouched'
<1>1. \A t \in Attempts : \A e : Supports(e, order[t]) => Supports(e, order'[t])
  BY SupportsKept
<1>2. ASSUME NEW r \in readbacks'
      PROVE  Supports(r.evidence, order'[r.attempt])
  <2>1. CASE r \in readbacks
    BY <1>1, <2>1 DEF Vouched, TypeOK
  <2>2. CASE r \notin readbacks
    <3>1. PICK t \in Attempts : ReadBack(t)
      BY <2>2
      DEF Next, vars, ReservePlan, BindApproval, Revoke, Recover, ClockMoves, Place,
          MatchMore, Confirm, Start, CallStep, BeginAttempt, BindOrderReference,
          MarkSubmitted, Admit, Consume, Post, Reply, TimeOut, MarkUnknown,
          BindReport, ApplyReport, AcknowledgeFound, Abandon, PresentToSubmitted,
          PresentToUnknown, PresentNotFound
    <3>2. /\ r.attempt = t /\ order' = order
          /\ r.evidence.seen = IF order[t] \in Matches THEN order[t] ELSE "absent"
      BY <2>2, <3>1 DEF ReadBack, provider
    <3> QED
      BY <3>2 DEF Supports, Matches
  <2> QED
    BY <2>1, <2>2
<1>3. ASSUME NEW c \in Callers, pc'[c] \in Settling
      PROVE  /\ call'[c].report.seen # "absent"
             /\ pc'[c] = "found" => call'[c].report.seen \in Matches
             /\ Supports(call'[c].report, order'[call'[c].attempt])
  <2>1. CASE /\ pc[c] \in Settling /\ call'[c] = call[c]
             /\ pc'[c] = "found" => pc[c] = "found"
    <3>1. call[c].attempt \in Attempts
      BY <2>1 DEF Sends, Calls, Settling
    <3> QED
      BY <1>1, <2>1, <3>1 DEF Vouched
  <2>2. CASE /\ call'[c].report.seen # "absent"
             /\ pc'[c] = "found" => call'[c].report.seen \in Matches
             /\ UNCHANGED order
             /\ Supports(call'[c].report, order[call'[c].attempt])
    BY <2>2
  <2> QED
    BY <1>3, <2>1, <2>2, SettlingKept
<1>4. ASSUME NEW t \in Attempts, NEW i \in DOMAIN log'[t], log'[t][i].kind \in Acks
      PROVE  Decisive(log'[t][i].about) /\ Supports(log'[t][i].about, order'[t])
  <2>1. Old(t, i) \/ FromCaller(t, i)
    <3>1. \A c \in Callers : pc[c] = "found" => call[c].report.seen \in Matches
      BY DEF Vouched, Settling
    <3> QED
      BY <1>4, <3>1, AcksAdded
  <2>2. CASE Old(t, i)
    BY <1>1, <1>4, <2>2 DEF Old, Vouched
  <2>3. CASE FromCaller(t, i)
    <3>1. PICK c \in Callers : /\ pc[c] \in {"outcome", "found"}
                               /\ call[c].attempt = t
                               /\ log'[t][i].about = call[c].report
                               /\ call[c].report.seen # "resting"
      BY <2>3 DEF FromCaller
    <3>2. call[c].report \in Evidence
      BY <3>1 DEF Sends, Calls
    <3>3. call[c].report.seen \in Matches \cup {"resting", "rejected", "absent"}
      BY <3>2 DEF Evidence
    <3>4. call[c].report.seen # "absent" /\ Supports(call[c].report, order[t])
      BY <3>1 DEF Vouched, Settling
    <3> QED
      BY <1>1, <3>1, <3>2, <3>3, <3>4 DEF Decisive
  <2> QED
    BY <2>1, <2>2, <2>3
<1> QED
  BY <1>2, <1>3, <1>4 DEF Vouched

-----------------------------------------------------------------------------
(* Recorded.                                                               *)

\* A log that grows keeps what it has.
LEMMA GrowsHas ==
    ASSUME NEW l \in Seq(Records), NEW k, Grows(l, k), NEW kind, Has(l, kind)
    PROVE  Has(k, kind)
<1>1. CASE k = l
  BY <1>1
<1>2. ASSUME NEW e \in Records, k = Append(l, e)
      PROVE  Has(k, kind)
  <2>1. PICK i \in DOMAIN l : l[i].kind = kind
    BY DEF Has
  <2>2. i \in DOMAIN k /\ k[i] = l[i]
    BY <1>2, <2>1
  <2> QED
    BY <2>1, <2>2 DEF Has
<1> QED
  BY <1>1, <1>2 DEF Grows

\* What a call has found in the ledger when it reaches the admission, and
\* when it has passed it.
LEMMA AdmissionsKept ==
    ASSUME TypeOK, [Next]_vars, NEW c \in Callers
    PROVE  /\ pc'[c] = "admit" =>
                (pc[c] = "admit" /\ call'[c] = call[c]) \/ MarkSubmitted(c)
           /\ pc'[c] = "consume" =>
                (pc[c] = "consume" /\ call'[c] = call[c]) \/ (Admit(c) /\ call'[c] = call[c])
           /\ pc'[c] = "post" =>
                pc[c] \in {"consume", "post"} /\ call'[c] = call[c]
<1> DEFINE Goal ==
           /\ pc'[c] = "admit" =>
                (pc[c] = "admit" /\ call'[c] = call[c]) \/ MarkSubmitted(c)
           /\ pc'[c] = "consume" =>
                (pc[c] = "consume" /\ call'[c] = call[c]) \/ (Admit(c) /\ call'[c] = call[c])
           /\ pc'[c] = "post" =>
                pc[c] \in {"consume", "post"} /\ call'[c] = call[c]
<1> SUFFICES Goal
  OBVIOUS
<1>0. CASE pc'[c] = pc[c] /\ call'[c] = call[c]
  BY <1>0
<1>1. CASE pc'[c] \notin {"admit", "consume", "post"}
  BY <1>1
<1> HIDE DEF Goal
<1> USE DEF At, Attempt, Moves
<1>2. ASSUME NEW d \in Callers, CallStep(d)
      PROVE  Goal
  <2>1. CASE d # c
    <3>1. pc'[c] = pc[c] /\ call'[c] = call[c]
      BY <1>2, <2>1
      DEF TypeOK, CallStep, BeginAttempt, BindOrderReference, MarkSubmitted, Admit,
          Consume, Post, Reply, TimeOut, MarkUnknown, BindReport, ApplyReport,
          AcknowledgeFound, Abandon, Return
    <3> QED
      BY <1>0, <3>1
  <2>2. CASE d = c
    <3>1. CASE MarkSubmitted(c)
      BY <3>1 DEF MarkSubmitted, TypeOK, Goal
    <3>2. CASE Admit(c)
      BY <3>2 DEF Admit, TypeOK, Goal
    <3>3. CASE Consume(c)
      BY <3>3 DEF Consume, TypeOK, Goal
    <3>4. CASE MarkUnknown(c) \/ ApplyReport(c) \/ AcknowledgeFound(c) \/ Abandon(c)
      <4>1. Return(c)
        BY <3>4 DEF MarkUnknown, ApplyReport, AcknowledgeFound, Abandon
      <4> QED
        BY <1>1, <4>1 DEF Return, TypeOK
    <3>5. CASE BeginAttempt(c) \/ BindOrderReference(c) \/ Post(c) \/ Reply(c)
               \/ TimeOut(c) \/ BindReport(c)
      <4>1. pc'[c] \in {"bind", "submit", "await", "report", "unknown", "outcome"}
        BY <3>5 DEF BeginAttempt, BindOrderReference, Post, Reply, TimeOut, BindReport,
                    TypeOK
      <4> QED
        BY <1>1, <4>1
    <3> QED
      BY <1>2, <2>2, <3>1, <3>2, <3>3, <3>4, <3>5 DEF CallStep
  <2> QED
    BY <2>1, <2>2
<1>3. ASSUME NEW d \in Callers, NEW r \in readbacks,
             PresentToSubmitted(d, r) \/ PresentToUnknown(d, r)
      PROVE  Goal
  <2>1. /\ call' = [call EXCEPT ![d] = [NoCall EXCEPT !.attempt = r.attempt,
                                                     !.report = r.evidence]]
        /\ \E stage \in {"report", "found"} : pc' = [pc EXCEPT ![d] = stage]
    BY <1>3 DEF PresentToSubmitted, PresentToUnknown
  <2> QED
    BY <1>0, <1>1, <2>1 DEF TypeOK
<1>4. ASSUME NEW d \in Callers, NEW u \in Attempts, NEW a \in Actions, Start(d, u, a)
      PROVE  Goal
  BY <1>0, <1>1, <1>4 DEF Start, TypeOK
<1>5. CASE UNCHANGED <<pc, call>>
  BY <1>0, <1>5
<1>6. CASE \E u \in Attempts, a \in Actions : Confirm(u, a)
  BY <1>5, <1>6 DEF Confirm, callers
<1>7. CASE \E r \in readbacks : PresentNotFound(r)
  BY <1>5, <1>7 DEF PresentNotFound, callers
<1>8. CASE \E u \in Attempts : Place(u) \/ MatchMore(u) \/ ReadBack(u)
  BY <1>5, <1>8 DEF Place, MatchMore, ReadBack, callers
<1>9. CASE ReservePlan \/ BindApproval \/ Revoke \/ Recover \/ ClockMoves
  BY <1>5, <1>9 DEF ReservePlan, BindApproval, Revoke, Recover, ClockMoves, callers
<1>10. CASE UNCHANGED vars
  BY <1>5, <1>10 DEF vars
<1> QED
  BY <1>2, <1>3, <1>4, <1>6, <1>7, <1>8, <1>9, <1>10 DEF Next

\* Nothing leaves, and nobody is about to send, without its record.
LEMMA RecordedKept ==
    ASSUME IInv, Vouched, Recorded, [Next]_vars
    PROVE  Recorded'
<1> USE DEF IInv
<1>1. LogTyped' /\ \A t \in Attempts : Grows(log[t], log'[t])
  BY NextGrows
<1>2. \A t \in Attempts : log[t] \in Seq(Records)
  BY DEF LogTyped
<1>3. \A t \in Attempts : \A kind : Has(log[t], kind) => Has(log'[t], kind)
  BY <1>1, <1>2, GrowsHas
<1>4. \A t \in Attempts : OnRecord(log[t]) => OnRecord(log'[t])
  BY <1>3 DEF OnRecord
<1>5. \A t \in Attempts : State(log[t]) = "SUBMITTED" => Has(log[t], "submitted")
  BY <1>2, StateOrigins DEF Vouched
<1>6. \A c \in Callers : pc[c] \in Sending => call[c].attempt \in Attempts
  BY DEF Sends, Calls, Sending
<1>7. ASSUME NEW t \in Attempts, posts'[t] > 0
      PROVE  OnRecord(log'[t])
  <2>1. CASE posts' = posts
    BY <1>4, <1>7, <2>1 DEF Recorded
  <2>2. ASSUME NEW c \in Callers, Post(c)
        PROVE  OnRecord(log'[t])
    <3>1. CASE call[c].attempt = t
      BY <1>4, <2>2, <3>1 DEF Post, At, Recorded
    <3>2. CASE call[c].attempt # t
      <4>1. posts'[t] = posts[t]
        BY <2>2, <3>2 DEF Post, Attempt, TypeOK
      <4> QED
        BY <1>4, <1>7, <4>1 DEF Recorded
    <3> QED
      BY <3>1, <3>2
  <2> QED
    BY <2>1, <2>2, ReceiptsKept
<1>8. ASSUME NEW c \in Callers, pc'[c] = "admit"
      PROVE  Has(log'[call'[c].attempt], "submitted")
  <2>1. CASE pc[c] = "admit" /\ call'[c] = call[c]
    BY <1>3, <1>6, <2>1 DEF Recorded, Sending
  <2>2. CASE MarkSubmitted(c)
    <3> DEFINE t == call[c].attempt
    <3>1. t \in Attempts /\ call' = call
      BY <1>6, <2>2 DEF MarkSubmitted, At, Sending
    <3>2. \/ State(log[t]) = "SUBMITTED"
          \/ log' = [log EXCEPT ![t] = Append(log[t], Event("submitted", clock, None))]
      BY <2>2 DEF MarkSubmitted, Attempt
    <3>3. CASE State(log[t]) = "SUBMITTED"
      BY <1>3, <1>5, <3>1, <3>3
    <3>4. CASE log' = [log EXCEPT ![t] = Append(log[t], Event("submitted", clock, None))]
      <4> DEFINE e == Event("submitted", clock, None)
      <4> HIDE DEF t
      <4>1. log'[t] = Append(log[t], e) /\ e.kind = "submitted"
        BY <3>1, <3>4 DEF LogTyped, Event
      <4> HIDE DEF e
      <4>2. Len(log[t]) + 1 \in DOMAIN log'[t] /\ log'[t][Len(log[t]) + 1] = e
        BY <1>2, <3>1, <4>1
      <4>3. Has(log'[t], "submitted")
        BY <4>1, <4>2 DEF Has
      <4> QED
        BY <3>1, <4>3 DEF t
    <3> QED
      BY <3>2, <3>3, <3>4
  <2> QED
    BY <1>8, <2>1, <2>2, AdmissionsKept
<1>9. ASSUME NEW c \in Callers, pc'[c] \in {"consume", "post"}
      PROVE  OnRecord(log'[call'[c].attempt])
  <2>1. CASE pc[c] \in {"consume", "post"} /\ call'[c] = call[c]
    BY <1>4, <1>6, <2>1 DEF Recorded, Sending
  <2>2. CASE Admit(c) /\ call'[c] = call[c] /\ pc'[c] = "consume"
    <3>1. pc[c] = "admit" /\ Has(log[call[c].attempt], "reference")
      BY <2>2 DEF Admit, At, Moves, Attempt, TypeOK
    <3>2. OnRecord(log[call[c].attempt])
      BY <3>1 DEF Recorded, OnRecord
    <3> QED
      BY <1>4, <1>6, <2>2, <3>1, <3>2 DEF Sending
  <2> QED
    BY <1>9, <2>1, <2>2, AdmissionsKept
<1> QED
  BY <1>7, <1>8, <1>9 DEF Recorded

-----------------------------------------------------------------------------
(* The inductive invariant, and what it gives.                             *)

\* Nothing is read, held or recorded at first.
LEMMA InitSettlement == Init => Vouched /\ Recorded
<1> SUFFICES ASSUME Init PROVE Vouched /\ Recorded
  OBVIOUS
<1>1. /\ \A t \in Attempts : log[t] = <<>> /\ posts[t] = 0
      /\ \A c \in Callers : pc[c] = "idle"
      /\ readbacks = {}
  BY DEF Init
<1>2. DOMAIN <<>> = {}
  OBVIOUS
<1>3. Vouched
  BY <1>1, <1>2 DEF Vouched, Settling
<1>4. Recorded
  BY <1>1 DEF Recorded
<1> QED
  BY <1>3, <1>4

\* The inductive invariant holds in every state of the specification.
THEOREM Settlement == Spec => []SInv
<1>1. Init => Vouched /\ Recorded
  BY InitSettlement
<1>2. IInv /\ Vouched /\ Recorded /\ [Next]_vars => Vouched' /\ Recorded'
  BY VouchedKept, RecordedKept DEF IInv
<1> QED
  BY <1>1, <1>2, Invariant, PTL DEF Spec, SInv

\* The ledger never says more than the provider did: a request that left is
\* on record with its reference, and an acknowledgement, by a late report or
\* by a read-back, stands for what the order shows now.
THEOREM LedgerIsTrue == Spec => []LedgerAccountsForProvider
<1>1. SInv => LedgerAccountsForProvider
  <2> SUFFICES ASSUME SInv, NEW t \in Attempts
               PROVE  /\ posts[t] > 0 => OnRecord(log[t])
                      /\ State(log[t]) = "ACCEPTED" => order[t] = "matched"
                      /\ State(log[t]) = "PARTIAL" => order[t] \in Matches
                      /\ State(log[t]) = "REJECTED" => order[t] = "rejected"
    BY DEF LedgerAccountsForProvider, OnRecord
  <2>1. posts[t] > 0 => OnRecord(log[t])
    BY DEF SInv, Recorded
  <2>2. ASSUME State(log[t]) \in {"ACCEPTED", "PARTIAL", "REJECTED"}
        PROVE  /\ State(log[t]) = "ACCEPTED" => order[t] = "matched"
               /\ State(log[t]) = "PARTIAL" => order[t] \in Matches
               /\ State(log[t]) = "REJECTED" => order[t] = "rejected"
    <3>1. log[t] \in Seq(Records)
      BY DEF SInv, IInv, LogTyped
    <3>2. \A i \in DOMAIN log[t] : log[t][i].kind \in Acks =>
            Decisive(log[t][i].about) /\ Supports(log[t][i].about, order[t])
      BY DEF SInv, Vouched
    <3>3. PICK i \in DOMAIN log[t] :
            log[t][i].kind \in Acks /\ State(log[t]) = Status(log[t][i].about)
      BY <2>2, <3>1, <3>2, StateOrigins
    <3>4. log[t][i].about.seen \in {"partial", "matched", "rejected"}
      BY <3>2, <3>3 DEF Decisive, Matches
    <3> QED
      BY <3>2, <3>3, <3>4 DEF Status, Supports
  <2> QED
    BY <2>1, <2>2
<1> QED
  BY <1>1, Settlement, PTL

\* An uncertain bet that was matched can be settled, from whatever late
\* reports and half-done reconciliations left in its log: a read-back newer
\* than all of it is accepted as FOUND, and then as the acknowledgement.
THEOREM FreshResolves == Spec => []FreshReadbackResolves
<1>1. IInv => FreshReadbackResolves
  <2> SUFFICES ASSUME IInv, NEW t \in Attempts, State(log[t]) = "UNKNOWN"
               PROVE  LET e == [source |-> "readback", at |-> MaxTime + 1,
                                seen |-> order[t]]
                      IN /\ CanReconcileFound(log[t], e.at)
                         /\ CanAcknowledgeFound(Append(log[t], Event("found", e.at, e)), e)
    BY DEF FreshReadbackResolves
  <2> DEFINE e == [source |-> "readback", at |-> MaxTime + 1, seen |-> order[t]]
             l == log[t]
             f == Event("found", e.at, e)
             k == Append(l, f)
  <2>1. l \in Seq(Records) /\ \A i \in DOMAIN l : l[i].at \in Times
    BY DEF IInv, TypeOK, LogTyped
  <2>2. e.at = MaxTime + 1 /\ f.kind = "found" /\ f.at = e.at /\ f.about = e
    BY DEF Event
  <2>3. State(l) = "UNKNOWN"
    OBVIOUS
  <2> HIDE DEF e, l, f
  <2>4. State(k) = "UNKNOWN"
    BY <2>1, <2>2, <2>3, FoundKeepsState
  <2>5. /\ DOMAIN k = 1..(Len(l) + 1) /\ DOMAIN l = 1..Len(l)
        /\ \A i \in DOMAIN l : k[i] = l[i]
        /\ k[Len(l) + 1] = f
        /\ Len(l) \in Nat
    BY <2>1
  <2> HIDE DEF k
  <2>6. \A i \in DOMAIN l : l[i].at \in Nat /\ e.at > l[i].at
    <3> SUFFICES ASSUME NEW i \in DOMAIN l PROVE l[i].at \in Nat /\ e.at > l[i].at
      OBVIOUS
    <3>1. l[i].at \in 0..MaxTime
      BY <2>1 DEF Times
    <3> QED
      BY <2>2, <3>1, ConstantsAssumption
  <2>7. CanReconcileFound(l, e.at)
    BY <2>3, <2>6 DEF CanReconcileFound, After, Boundaries
  <2>8. \A i \in DOMAIN k : k[i].kind # "found" => k[i].at \in Nat /\ e.at > k[i].at
    <3> SUFFICES ASSUME NEW i \in DOMAIN k, k[i].kind # "found"
                 PROVE  k[i].at \in Nat /\ e.at > k[i].at
      OBVIOUS
    <3>1. i # Len(l) + 1
      BY <2>2, <2>5
    <3>2. i \in DOMAIN l
      BY <2>5, <3>1
    <3> QED
      BY <2>5, <2>6, <3>2
  <2>9. e.at \in Nat
    BY <2>2, ConstantsAssumption
  <2>10. NotBefore(k, e.at)
    BY <2>8, <2>9 DEF NotBefore, Boundaries
  <2>11. f \in Of(k, "found")
    <3>1. Len(l) + 1 \in DOMAIN k /\ k[Len(l) + 1] = f
      BY <2>5
    <3> QED
      BY <2>2, <3>1 DEF Of
  <2>12. \A b \in {k[i].at : i \in {j \in DOMAIN k :
                      k[j].kind \in {"reserved", "submitted", "unknown"}}} : f.at > b
    BY <2>2, <2>8
  <2>13. CanAcknowledgeFound(k, e)
    BY <2>2, <2>4, <2>9, <2>10, <2>11, <2>12 DEF CanAcknowledgeFound
  <2> QED
    BY <2>7, <2>13 DEF e, l, f, k
<1> QED
  BY <1>1, Invariant, PTL

=============================================================================
