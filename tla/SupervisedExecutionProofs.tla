----------------------- MODULE SupervisedExecutionProofs ----------------------
(***************************************************************************)
(* Machine-checked proofs about SupervisedExecution, for every number of   *)
(* callers, actions, attempts, read-backs and instants: its types, that an *)
(* action's request leaves at most once and none after a revocation, and   *)
(* that every order of appends leaves a ledger its readers accept.  The    *)
(* inductive invariant follows a call through its stages: who sends holds  *)
(* the lock alone (Sends), its attempt is the only one of its action       *)
(* (Owned), and what leaves was paid for with a receipt spent on it (Paid).*)
(***************************************************************************)
EXTENDS SupervisedExecution, FiniteSetTheorems, TLAPS

\* The stages a call goes through with the economic lock in hand, and those
\* it reaches only with an approval it has read since it took the lock.
Sending == {"begin", "bind", "submit", "admit", "consume", "post", "await",
            "unknown"}
Cleared == {"bind", "submit", "admit", "consume", "post"}
Begun == Sending \ {"begin"}

Kinds == {"reserved", "reference", "submitted", "unknown", "evidence",
          "acknowledged", "found", "acknowledged_found", "not_found"}
Records == [kind : Kinds, at : Times, about : Actions \cup Evidence \cup {None}]

LogTyped == log \in [Attempts -> Seq(Records)]

\* A call has an attempt, a sending call an action, a settling call what it
\* settles with.
Calls ==
    \A c \in Callers :
        /\ pc[c] # "idle" => call[c].attempt \in Attempts
        /\ pc[c] \in Sending => call[c].action \in Actions
        /\ pc[c] \in {"report", "outcome", "found"} => call[c].report \in Evidence

\* Who sends holds the lock, so that one caller sends at a time, and nobody
\* has revoked the approval behind its back.
Fenced == \A c \in Callers : pc[c] \in Sending => fence = c
Approved == \A c \in Callers : pc[c] \in Cleared => plan = "approved"

\* An attempt belongs to one action, and an action to one attempt.
Owned ==
    /\ \A t \in Attempts : log[t] # <<>> => ActionOf(log[t]) \in Actions
    /\ \A t, u \in Attempts :
         /\ log[t] # <<>>
         /\ ActionOf(log[t]) = ActionOf(log[u])
         => t = u
    /\ \A c \in Callers :
         pc[c] \in Begun => /\ log[call[c].attempt] # <<>>
                            /\ ActionOf(log[call[c].attempt]) = call[c].action

\* What left was paid for with the receipt of its attempt and action, which
\* is spent; a call about to send has spent one that nothing left for.
Paid ==
    /\ \A t \in Attempts : posts[t] > 0 =>
         /\ log[t] # <<>>
         /\ receipts[t][ActionOf(log[t])] = "consumed"
         /\ posts[t] = 1
    /\ \A c \in Callers : pc[c] = "post" =>
         /\ receipts[call[c].attempt][call[c].action] = "consumed"
         /\ posts[call[c].attempt] = 0

Sends == Calls /\ Fenced /\ Approved
IInv == TypeOK /\ LogTyped /\ Sends /\ Owned /\ Paid

-----------------------------------------------------------------------------
(* The ledger: a step adds at most one event to a log, one its readers     *)
(* accept there, and reserves at most one attempt.                         *)

Grows(l, k) == k = l \/ \E e \in Records : Legal(l, e) /\ k = Append(l, e)

Reserves(c) ==
    LET t == call[c].attempt
        a == call[c].action
    IN /\ c \in Callers /\ pc[c] = "begin"
       /\ CanReserve(t, a)
       /\ log' = [log EXCEPT ![t] = <<Event("reserved", clock, a)>>]

\* The kinds of event and what they carry.
LEMMA RecordType ==
    ASSUME NEW kind \in Kinds, NEW at \in Times,
           NEW about \in Actions \cup Evidence \cup {None}
    PROVE  /\ Event(kind, at, about) \in Records
           /\ Event(kind, at, about).kind = kind
           /\ Event(kind, at, about).at = at
           /\ Event(kind, at, about).about = about
BY DEF Event, Records

\* Only a reservation opens a log.
LEMMA OnlyReservationOpens ==
    ASSUME NEW e \in Records, Legal(<<>>, e)
    PROVE  e.kind = "reserved"
<1>1. State(<<>>) = "none"
  BY DEF State
<1> QED
  BY <1>1 DEF Legal, Records, Kinds, Unresolved

\* A log that grows stays a log, of the same action unless it was empty.
LEMMA GrowsFacts ==
    ASSUME NEW l \in Seq(Records), NEW k, Grows(l, k)
    PROVE  /\ k \in Seq(Records)
           /\ l # <<>> => k # <<>> /\ ActionOf(k) = ActionOf(l)
<1>1. CASE k = l
  BY <1>1
<1>2. ASSUME NEW e \in Records, k = Append(l, e)
      PROVE  /\ k \in Seq(Records)
             /\ l # <<>> => k # <<>> /\ k[1] = l[1]
  BY <1>2
<1> QED
  BY <1>1, <1>2 DEF Grows, ActionOf

-----------------------------------------------------------------------------
(* Who sends: callers, the lock and the approval.                          *)

\* What a caller that returns leaves behind.
LEMMA ReturnKeepsSends ==
    ASSUME TypeOK, Sends, NEW c \in Callers, Return(c), UNCHANGED plan
    PROVE  Sends'
<1>1. /\ pc' = [pc EXCEPT ![c] = "idle"]
      /\ call' = [call EXCEPT ![c] = NoCall]
      /\ fence' = IF fence = c THEN None ELSE fence
  BY DEF Return
<1>2. \A d \in Callers \ {c} : pc'[d] = pc[d] /\ call'[d] = call[d]
  BY <1>1 DEF TypeOK
<1>3. pc'[c] = "idle"
  BY <1>1 DEF TypeOK
<1>4. Calls'
  BY <1>2, <1>3 DEF Sends, Calls, Sending
<1>5. Fenced'
  BY <1>1, <1>2, <1>3 DEF Sends, Fenced, Sending
<1>6. Approved'
  BY <1>2, <1>3 DEF Sends, Approved, Cleared
<1> QED
  BY <1>4, <1>5, <1>6 DEF Sends

\* A caller that goes on with the call it has.
LEMMA MoveKeepsSends ==
    ASSUME TypeOK, Sends, NEW c \in Callers, NEW stage \in Stages,
           pc[c] \in Sending, stage \in Sending, Moves(c, stage),
           stage \in Cleared => plan = "approved",
           UNCHANGED <<plan, fence, call>>
    PROVE  Sends'
<1>1. \A d \in Callers \ {c} : pc'[d] = pc[d]
  BY DEF Moves, TypeOK
<1>2. pc'[c] = stage
  BY DEF Moves, TypeOK
<1>3. Calls'
  BY <1>1, <1>2 DEF Sends, Calls, Sending
<1>4. Fenced'
  BY <1>1, <1>2 DEF Sends, Fenced
<1>5. Approved'
  BY <1>1, <1>2 DEF Sends, Approved
<1> QED
  BY <1>3, <1>4, <1>5 DEF Sends

\* Every step keeps the calls sound, one sender at a time, its approval valid.
LEMMA SendsKept == TypeOK /\ Sends /\ [Next]_vars => Sends'
<1> SUFFICES ASSUME TypeOK, Sends, [Next]_vars
             PROVE  Sends'
  OBVIOUS
<1> USE DEF At, Attempt
<1>0. CASE UNCHANGED <<plan, fence, pc, call>>
  BY <1>0 DEF Sends, Calls, Fenced, Approved
<1>1. CASE ReservePlan \/ BindApproval
  BY <1>1 DEF ReservePlan, BindApproval, callers, Sends, Calls, Fenced, Approved
<1>2. CASE Revoke
  <2>1. \A c \in Callers : pc[c] \notin Sending
    BY <1>2, ConstantsAssumption DEF Revoke, Sends, Fenced
  <2> QED
    BY <1>2, <2>1 DEF Revoke, callers, Sends, Calls, Fenced, Approved, Cleared, Sending
<1>3. ASSUME NEW c \in Callers, NEW t \in Attempts, NEW a \in Actions, Start(c, t, a)
      PROVE  Sends'
  <2>1. /\ pc[c] = "idle" /\ fence = None
        /\ fence' = c
        /\ call' = [call EXCEPT ![c] = [NoCall EXCEPT !.attempt = t, !.action = a]]
        /\ pc' = [pc EXCEPT ![c] = "begin"]
        /\ plan' = plan
    BY <1>3 DEF Start, Moves
  <2>2. \A d \in Callers \ {c} : pc'[d] = pc[d] /\ call'[d] = call[d]
    BY <2>1 DEF TypeOK
  <2>3. \A d \in Callers : pc[d] \notin Sending
    BY <2>1, ConstantsAssumption DEF Sends, Fenced
  <2>4. pc'[c] = "begin" /\ call'[c].attempt = t /\ call'[c].action = a
    BY <2>1 DEF TypeOK, NoCall
  <2>5. Calls'
    BY <2>2, <2>4 DEF Sends, Calls
  <2>6. Fenced' /\ Approved'
    BY <2>1, <2>2, <2>3, <2>4 DEF Fenced, Approved, Cleared, Sending
  <2> QED
    BY <2>5, <2>6 DEF Sends
<1>4. ASSUME NEW c \in Callers, CallStep(c)
      PROVE  Sends'
  <2> USE DEF Sending, Stages
  <2>1. CASE BeginAttempt(c)
    BY <2>1, MoveKeepsSends DEF BeginAttempt, ApprovalActive
  <2>2. CASE BindOrderReference(c)
    BY <2>2, MoveKeepsSends DEF BindOrderReference, Sends, Approved, Cleared
  <2>3. CASE MarkSubmitted(c)
    BY <2>3, MoveKeepsSends DEF MarkSubmitted, Sends, Approved, Cleared
  <2>4. CASE Admit(c)
    <3>1. PICK stage \in {"consume", "unknown"} : Moves(c, stage)
      BY <2>4 DEF Admit
    <3> QED
      BY <2>4, <3>1, MoveKeepsSends DEF Admit, ledger, Sends, Approved, Cleared
  <2>5. CASE Consume(c)
    <3>1. PICK stage \in {"post", "unknown"} : Moves(c, stage)
      BY <2>5 DEF Consume
    <3> QED
      BY <2>5, <3>1, MoveKeepsSends DEF Consume, ledger, Sends, Approved, Cleared
  <2>6. CASE Post(c)
    BY <2>6, MoveKeepsSends DEF Post, ledger, Cleared
  <2>7. CASE Reply(c)
    <3>1. PICK seen \in SeenSoFar(order[call[c].attempt]) :
            call' = [call EXCEPT ![c].report =
                       [source |-> "report", at |-> clock, seen |-> seen]]
      BY <2>7 DEF Reply
    <3> DEFINE report == [source |-> "report", at |-> clock, seen |-> seen]
    <3>2. /\ pc[c] = "await" /\ fence' = None /\ plan' = plan
          /\ pc' = [pc EXCEPT ![c] = "report"]
      BY <2>7 DEF Reply, Moves, ledger
    <3>3. call[c].attempt \in Attempts
      BY <3>2 DEF Sends, Calls
    <3>4. seen \in Matches \cup {"resting", "rejected"}
      BY <2>7, <3>3 DEF Reply, SeenSoFar, TypeOK, Matches
    <3>5. report \in Evidence
      BY <3>4 DEF Evidence, TypeOK, Matches
    <3>6. /\ call'[c].attempt = call[c].attempt
          /\ call'[c].report = report
          /\ \A d \in Callers \ {c} : call'[d] = call[d]
      BY <3>1 DEF TypeOK
    <3>7. pc'[c] = "report" /\ \A d \in Callers \ {c} : pc'[d] = pc[d]
      BY <3>2 DEF TypeOK
    <3>8. \A d \in Callers \ {c} : pc[d] \notin Sending
      BY <3>2 DEF Sends, Fenced
    <3>9. Calls'
      BY <3>3, <3>5, <3>6, <3>7 DEF Sends, Calls
    <3>10. Fenced' /\ Approved'
      BY <3>7, <3>8 DEF Fenced, Approved, Cleared
    <3> QED
      BY <3>9, <3>10 DEF Sends
  <2>8. CASE TimeOut(c)
    BY <2>8, MoveKeepsSends DEF TimeOut, ledger, Cleared
  <2>9. CASE BindReport(c)
    <3>1. /\ pc[c] = "report" /\ UNCHANGED <<plan, fence, call>>
          /\ pc'[c] = "outcome"
          /\ \A d \in Callers \ {c} : pc'[d] = pc[d]
      BY <2>9 DEF BindReport, Moves, TypeOK
    <3> QED
      BY <3>1 DEF Sends, Calls, Fenced, Approved, Cleared
  <2>10. CASE MarkUnknown(c)
    BY <2>10, ReturnKeepsSends DEF MarkUnknown
  <2>11. CASE ApplyReport(c)
    BY <2>11, ReturnKeepsSends DEF ApplyReport
  <2>12. CASE AcknowledgeFound(c)
    BY <2>12, ReturnKeepsSends DEF AcknowledgeFound
  <2>13. CASE Abandon(c)
    BY <2>13, ReturnKeepsSends DEF Abandon
  <2> QED
    BY <1>4, <2>1, <2>2, <2>3, <2>4, <2>5, <2>6, <2>7, <2>8, <2>9, <2>10, <2>11,
       <2>12, <2>13 DEF CallStep
<1>5. ASSUME NEW c \in Callers, NEW r \in readbacks,
             PresentToSubmitted(c, r) \/ PresentToUnknown(c, r)
      PROVE  Sends'
  <2>1. PICK stage \in {"report", "found"} : pc' = [pc EXCEPT ![c] = stage]
    BY <1>5 DEF PresentToSubmitted, PresentToUnknown, Moves
  <2>2. /\ pc[c] = "idle" /\ UNCHANGED <<plan, fence>>
        /\ call' = [call EXCEPT ![c] = [NoCall EXCEPT !.attempt = r.attempt,
                                                     !.report = r.evidence]]
    BY <1>5 DEF PresentToSubmitted, PresentToUnknown, ledger
  <2>3. r.attempt \in Attempts /\ r.evidence \in Evidence
    BY DEF TypeOK
  <2>4. /\ pc'[c] = stage
        /\ \A d \in Callers \ {c} : pc'[d] = pc[d] /\ call'[d] = call[d]
        /\ call'[c].attempt = r.attempt /\ call'[c].report = r.evidence
    BY <2>1, <2>2 DEF TypeOK, NoCall
  <2> QED
    BY <2>2, <2>3, <2>4 DEF Sends, Calls, Fenced, Approved, Cleared, Sending
<1>6. CASE Recover \/ ClockMoves \/ \E r \in readbacks : PresentNotFound(r)
  BY <1>6, <1>0 DEF Recover, ClockMoves, PresentNotFound, callers, ledger
<1>7. CASE \E t \in Attempts : Place(t) \/ MatchMore(t) \/ ReadBack(t)
  BY <1>7, <1>0 DEF Place, MatchMore, ReadBack, callers, ledger
<1>8. CASE \E t \in Attempts, a \in Actions : Confirm(t, a)
  BY <1>8, <1>0 DEF Confirm, callers
<1>9. CASE UNCHANGED vars
  BY <1>9, <1>0 DEF vars
<1> QED
  BY <1>1, <1>2, <1>3, <1>4, <1>5, <1>6, <1>7, <1>8, <1>9 DEF Next

-----------------------------------------------------------------------------
(* How the steps write the ledger.                                         *)

\* One append of a legal event.
LEMMA AppendGrows ==
    ASSUME LogTyped, NEW t \in Attempts, NEW e \in Records, Legal(log[t], e),
           log' = [log EXCEPT ![t] = Append(log[t], e)]
    PROVE  LogTyped' /\ \A u \in Attempts : Grows(log[u], log'[u])
<1>1. log'[t] = Append(log[t], e) /\ \A u \in Attempts \ {t} : log'[u] = log[u]
  BY DEF LogTyped
<1>2. \A u \in Attempts : Grows(log[u], log'[u])
  BY <1>1 DEF Grows
<1> QED
  BY <1>1, <1>2 DEF LogTyped

\* Every step of a call adds a legal event or none.
LEMMA CallStepGrows ==
    ASSUME TypeOK, LogTyped, Sends, NEW c \in Callers, CallStep(c)
    PROVE  /\ LogTyped' /\ \A u \in Attempts : Grows(log[u], log'[u])
           /\ \/ Reserves(c)
              \/ \A u \in Attempts : log[u] = <<>> => log'[u] = <<>>
<1> DEFINE t == call[c].attempt
           a == call[c].action
           report == call[c].report
<1>0. CASE UNCHANGED log
  BY <1>0 DEF LogTyped, Grows
<1>1. ASSUME NEW e \in Records, e.kind # "reserved", Legal(log[t], e), t \in Attempts,
             log' = [log EXCEPT ![t] = Append(log[t], e)]
      PROVE  /\ LogTyped' /\ \A u \in Attempts : Grows(log[u], log'[u])
             /\ \A u \in Attempts : log[u] = <<>> => log'[u] = <<>>
  <2>1. log[t] # <<>>
    BY <1>1, OnlyReservationOpens
  <2>2. \A u \in Attempts \ {t} : log'[u] = log[u]
    BY <1>1 DEF LogTyped
  <2> QED
    BY <1>1, <2>1, <2>2, AppendGrows
<1> HIDE DEF t, a, report
<1>2. /\ pc[c] # "idle" => t \in Attempts
      /\ pc[c] \in Sending => a \in Actions
      /\ pc[c] \in {"report", "outcome", "found"} =>
            report \in Evidence /\ report.at \in Times
      /\ clock \in Times /\ 0 \in Times
  BY ConstantsAssumption DEF Sends, Calls, TypeOK, Evidence, Times, t, a, report
<1> USE DEF At, Attempt
<1>3. CASE BeginAttempt(c)
  <2>1. CASE UNCHANGED log
    BY <1>0, <2>1
  <2>2. CASE CanReserve(t, a) /\ log' = [log EXCEPT ![t] = <<Event("reserved", clock, a)>>]
    <3> DEFINE e == Event("reserved", clock, a)
    <3>1. pc[c] = "begin" /\ t \in Attempts /\ a \in Actions
      BY <1>2, <1>3 DEF BeginAttempt, Sending
    <3>2. log[t] = <<>> /\ clock < Expiry
      BY <2>2 DEF CanReserve
    <3>3. e \in Records /\ e.kind = "reserved" /\ e.at = clock
      BY <1>2, <3>1, RecordType DEF Kinds
    <3>4. Legal(log[t], e)
      BY <3>2, <3>3 DEF Legal
    <3>5. log' = [log EXCEPT ![t] = Append(log[t], e)]
      BY <2>2, <3>2
    <3> QED
      BY <2>2, <3>1, <3>3, <3>4, <3>5, AppendGrows DEF Reserves, t, a
  <2> QED
    BY <1>3, <2>1, <2>2 DEF BeginAttempt, t, a
<1>4. CASE BindOrderReference(c)
  <2> DEFINE e == Event("reference", 0, None)
  <2>1. e \in Records /\ e.kind = "reference"
    BY <1>2, RecordType DEF Kinds
  <2>2. CASE UNCHANGED log
    BY <1>0, <2>2
  <2>3. CASE /\ State(log[t]) = "RESERVED" /\ ~Has(log[t], "reference")
             /\ log' = [log EXCEPT ![t] = Append(log[t], e)]
    <3> HIDE DEF e
    <3>1. Legal(log[t], e)
      BY <2>1, <2>3 DEF Legal
    <3>2. t \in Attempts
      BY <1>2, <1>4 DEF BindOrderReference
    <3> QED
      BY <1>1, <2>1, <2>3, <3>1, <3>2
  <2> QED
    BY <1>4, <2>2, <2>3 DEF BindOrderReference, t
<1>5. CASE MarkSubmitted(c)
  <2> DEFINE e == Event("submitted", clock, None)
  <2>1. e \in Records /\ e.kind = "submitted" /\ e.at = clock
    BY <1>2, RecordType DEF Kinds
  <2>2. CASE UNCHANGED log
    BY <1>0, <2>2
  <2>3. CASE /\ State(log[t]) = "RESERVED" /\ NotBefore(log[t], clock) /\ clock < Expiry
             /\ log' = [log EXCEPT ![t] = Append(log[t], e)]
    <3> HIDE DEF e
    <3>1. Legal(log[t], e)
      BY <2>1, <2>3 DEF Legal
    <3>2. t \in Attempts
      BY <1>2, <1>5 DEF MarkSubmitted
    <3> QED
      BY <1>1, <2>1, <2>3, <3>1, <3>2
  <2> QED
    BY <1>5, <2>2, <2>3 DEF MarkSubmitted, t
<1>6. CASE MarkUnknown(c)
  <2> DEFINE e == Event("unknown", clock, None)
  <2>1. e \in Records /\ e.kind = "unknown" /\ e.at = clock
    BY <1>2, RecordType DEF Kinds
  <2>2. CASE UNCHANGED log
    BY <1>0, <2>2
  <2>3. CASE /\ CanMarkUnknown(log[t], clock)
             /\ log' = [log EXCEPT ![t] = Append(log[t], e)]
    <3> HIDE DEF e
    <3>1. Legal(log[t], e)
      BY <2>1, <2>3 DEF Legal, CanMarkUnknown
    <3>2. t \in Attempts
      BY <1>2, <1>6 DEF MarkUnknown
    <3> QED
      BY <1>1, <2>1, <2>3, <3>1, <3>2
  <2> QED
    BY <1>6, <2>2, <2>3 DEF MarkUnknown, t
<1>7. CASE BindReport(c)
  <2> DEFINE e == Event("evidence", report.at, report)
  <2>1. pc[c] = "report" /\ t \in Attempts /\ report \in Evidence
    BY <1>2, <1>7 DEF BindReport
  <2>2. e \in Records /\ e.kind = "evidence" /\ e.at = report.at
    BY <1>2, <2>1, RecordType DEF Kinds
  <2>3. CASE UNCHANGED log
    BY <1>0, <2>3
  <2>4. CASE /\ CanBindEvidence(log[t], report.at)
             /\ log' = [log EXCEPT ![t] = Append(log[t], e)]
    <3> HIDE DEF e
    <3>1. Legal(log[t], e)
      BY <2>2, <2>4 DEF Legal, CanBindEvidence
    <3> QED
      BY <1>1, <2>1, <2>2, <2>4, <3>1
  <2> QED
    BY <1>7, <2>3, <2>4 DEF BindReport, Write, t, report
<1>8. CASE ApplyReport(c)
  <2> DEFINE u == Event("unknown", report.at, None)
             k == Event("acknowledged", report.at, report)
  <2>1. pc[c] = "outcome" /\ t \in Attempts /\ report \in Evidence
    BY <1>2, <1>8 DEF ApplyReport
  <2>2. /\ u \in Records /\ u.kind = "unknown" /\ u.at = report.at
        /\ k \in Records /\ k.kind = "acknowledged" /\ k.at = report.at
    BY <1>2, <2>1, RecordType DEF Kinds
  <2>3. CASE UNCHANGED log
    BY <1>0, <2>3
  <2>4. CASE /\ CanMarkUnknown(log[t], report.at)
             /\ log' = [log EXCEPT ![t] = Append(log[t], u)]
    <3> HIDE DEF u
    <3>1. Legal(log[t], u)
      BY <2>2, <2>4 DEF Legal, CanMarkUnknown
    <3> QED
      BY <1>1, <2>1, <2>2, <2>4, <3>1
  <2>5. CASE /\ CanAcknowledge(log[t], report.at)
             /\ log' = [log EXCEPT ![t] = Append(log[t], k)]
    <3> HIDE DEF k
    <3>1. Legal(log[t], k)
      BY <2>2, <2>5 DEF Legal, CanAcknowledge
    <3> QED
      BY <1>1, <2>1, <2>2, <2>5, <3>1
  <2> QED
    BY <1>8, <2>3, <2>4, <2>5 DEF ApplyReport, Write, t, report
<1>9. CASE AcknowledgeFound(c)
  <2> DEFINE e == Event("acknowledged_found", report.at, report)
  <2>1. pc[c] = "found" /\ t \in Attempts /\ report \in Evidence
    BY <1>2, <1>9 DEF AcknowledgeFound
  <2>2. /\ e \in Records /\ e.kind = "acknowledged_found" /\ e.at = report.at
        /\ e.about = report
    BY <1>2, <2>1, RecordType DEF Kinds
  <2>3. CASE UNCHANGED log
    BY <1>0, <2>3
  <2>4. CASE /\ CanAcknowledgeFound(log[t], report)
             /\ log' = [log EXCEPT ![t] = Append(log[t], e)]
    <3> HIDE DEF e
    <3>1. PICK f \in Of(log[t], "found") : f.about = report /\ f.at <= report.at
      BY <2>4 DEF CanAcknowledgeFound
    <3>2. f.at \in Nat /\ report.at \in Nat
      <4>1. log[t] \in Seq(Records)
        BY <2>1 DEF LogTyped
      <4>2. PICK i \in DOMAIN log[t] : f = log[t][i]
        BY DEF Of
      <4>3. f \in Records
        BY <4>1, <4>2
      <4>4. f.at \in Times
        BY <4>3 DEF Records
      <4> QED
        BY <1>2, <2>1, <4>4, ConstantsAssumption DEF Times
    <3>3. Legal(log[t], e)
      BY <2>2, <2>4, <3>1, <3>2 DEF Legal, CanAcknowledgeFound
    <3> QED
      BY <1>1, <2>1, <2>2, <2>4, <3>3
  <2> QED
    BY <1>9, <2>3, <2>4 DEF AcknowledgeFound, Write, t, report
<1>10. CASE Admit(c) \/ Consume(c) \/ Post(c) \/ Reply(c) \/ TimeOut(c) \/ Abandon(c)
  BY <1>0, <1>10 DEF Admit, Consume, Post, Reply, TimeOut, Abandon, ledger
<1> QED
  BY <1>3, <1>4, <1>5, <1>6, <1>7, <1>8, <1>9, <1>10 DEF CallStep

\* Every other step: recoveries and what read-backs are presented for.
LEMMA NextGrows ==
    ASSUME TypeOK, LogTyped, Sends, [Next]_vars
    PROVE  /\ LogTyped' /\ \A u \in Attempts : Grows(log[u], log'[u])
           /\ \/ \E c \in Callers : CallStep(c) /\ Reserves(c)
              \/ \A u \in Attempts : log[u] = <<>> => log'[u] = <<>>
<1>0. CASE UNCHANGED log
  BY <1>0 DEF LogTyped, Grows
<1>1. ASSUME NEW t \in Attempts, NEW e \in Records, e.kind # "reserved",
             Legal(log[t], e), log' = [log EXCEPT ![t] = Append(log[t], e)]
      PROVE  /\ LogTyped' /\ \A u \in Attempts : Grows(log[u], log'[u])
             /\ \A u \in Attempts : log[u] = <<>> => log'[u] = <<>>
  <2>1. log[t] # <<>>
    BY <1>1, OnlyReservationOpens
  <2>2. \A u \in Attempts \ {t} : log'[u] = log[u]
    BY <1>1 DEF LogTyped
  <2> QED
    BY <1>1, <2>1, <2>2, AppendGrows
<1>2. ASSUME NEW c \in Callers, CallStep(c)
      PROVE  /\ LogTyped' /\ \A u \in Attempts : Grows(log[u], log'[u])
             /\ Reserves(c) \/ \A u \in Attempts : log[u] = <<>> => log'[u] = <<>>
  BY <1>2, CallStepGrows
<1>3. CASE Recover
  <2> DEFINE e == Event("unknown", clock, None)
             unresolved == {t \in Attempts : State(log[t]) \in Unresolved}
  <2>1. PICK promoted \in SUBSET unresolved :
          log' = [t \in Attempts |->
                    IF t \in promoted THEN Append(log[t], e) ELSE log[t]]
    BY <1>3 DEF Recover
  <2>2. e \in Records /\ e.kind = "unknown" /\ e.at = clock
    BY RecordType DEF Kinds, TypeOK
  <2> HIDE DEF e
  <2>3. \A t \in promoted : t \in Attempts /\ Legal(log[t], e) /\ log[t] # <<>>
    <3> SUFFICES ASSUME NEW t \in promoted
                 PROVE  t \in Attempts /\ Legal(log[t], e) /\ log[t] # <<>>
      OBVIOUS
    <3>1. t \in Attempts /\ State(log[t]) \in Unresolved /\ NotBefore(log[t], clock)
      BY <1>3 DEF Recover
    <3>2. Legal(log[t], e)
      BY <2>2, <3>1 DEF Legal
    <3> QED
      BY <2>2, <3>1, <3>2, OnlyReservationOpens
  <2>4. \A t \in Attempts : Grows(log[t], log'[t])
    BY <2>1, <2>2, <2>3 DEF Grows
  <2>5. LogTyped'
    BY <2>1, <2>2 DEF LogTyped
  <2> QED
    BY <2>1, <2>3, <2>4, <2>5
<1>4. ASSUME NEW c \in Callers, NEW r \in readbacks, PresentToUnknown(c, r)
      PROVE  /\ LogTyped' /\ \A u \in Attempts : Grows(log[u], log'[u])
             /\ \A u \in Attempts : log[u] = <<>> => log'[u] = <<>>
  <2> DEFINE t == r.attempt
             e == Event("found", r.evidence.at, r.evidence)
  <2>1. t \in Attempts /\ r.evidence \in Evidence /\ r.evidence.at \in Times
    BY DEF TypeOK, Evidence
  <2>2. e \in Records /\ e.kind = "found" /\ e.at = r.evidence.at
    BY <2>1, RecordType DEF Kinds
  <2>3. CASE UNCHANGED log
    BY <1>0, <2>3
  <2>4. CASE /\ CanReconcileFound(log[t], r.evidence.at)
             /\ log' = [log EXCEPT ![t] = Append(log[t], e)]
    <3> HIDE DEF e, t
    <3>1. Legal(log[t], e)
      BY <2>2, <2>4 DEF Legal, CanReconcileFound
    <3> QED
      BY <1>1, <2>1, <2>2, <2>4, <3>1
  <2> QED
    BY <1>4, <2>3, <2>4 DEF PresentToUnknown, Write
<1>5. ASSUME NEW r \in readbacks, PresentNotFound(r)
      PROVE  /\ LogTyped' /\ \A u \in Attempts : Grows(log[u], log'[u])
             /\ \A u \in Attempts : log[u] = <<>> => log'[u] = <<>>
  <2> DEFINE t == r.attempt
             e == Event("not_found", r.evidence.at, r.evidence)
  <2>1. t \in Attempts /\ r.evidence \in Evidence /\ r.evidence.at \in Times
    BY DEF TypeOK, Evidence
  <2>2. e \in Records /\ e.kind = "not_found" /\ e.at = r.evidence.at
    BY <2>1, RecordType DEF Kinds
  <2>3. /\ CanReconcileNotFound(log[t], r.evidence.at)
        /\ log' = [log EXCEPT ![t] = Append(log[t], e)]
    BY <1>5 DEF PresentNotFound
  <2> HIDE DEF e, t
  <2>4. Legal(log[t], e)
    BY <2>2, <2>3 DEF Legal, CanReconcileNotFound
  <2> QED
    BY <1>1, <2>1, <2>2, <2>3, <2>4
<1>6. CASE ReservePlan \/ BindApproval \/ Revoke \/ ClockMoves
  BY <1>0, <1>6 DEF ReservePlan, BindApproval, Revoke, ClockMoves, ledger
<1>7. CASE \E t \in Attempts : Place(t) \/ MatchMore(t) \/ ReadBack(t)
  BY <1>0, <1>7 DEF Place, MatchMore, ReadBack, ledger
<1>8. CASE \E t \in Attempts, a \in Actions : Confirm(t, a)
  BY <1>0, <1>8 DEF Confirm
<1>9. CASE \E c \in Callers, t \in Attempts, a \in Actions : Start(c, t, a)
  BY <1>0, <1>9 DEF Start
<1>10. CASE \E c \in Callers, r \in readbacks : PresentToSubmitted(c, r)
  BY <1>0, <1>10 DEF PresentToSubmitted, ledger
<1>11. CASE UNCHANGED vars
  BY <1>0, <1>11 DEF vars
<1> QED
  BY <1>2, <1>3, <1>4, <1>5, <1>6, <1>7, <1>8, <1>9, <1>10, <1>11 DEF Next

\* An event that is legal after a readable log leaves the log readable.
LEMMA GrowsReadable ==
    ASSUME NEW l \in Seq(Records), Readable(l), NEW k, Grows(l, k)
    PROVE  Readable(k)
<1>1. CASE k = l
  BY <1>1
<1>2. ASSUME NEW e \in Records, Legal(l, e), k = Append(l, e)
      PROVE  Readable(k)
  <2>1. DOMAIN k = 1..(Len(l) + 1)
    BY <1>2
  <2>2. \A i \in 1..Len(l) : k[i] = l[i]
    BY <1>2
  <2>3. k[Len(l) + 1] = e
    BY <1>2
  <2>4. \A i \in 1..(Len(l) + 1) : SubSeq(k, 1, i - 1) = SubSeq(l, 1, i - 1)
    BY <1>2
  <2>5. SubSeq(l, 1, Len(l)) = l
    OBVIOUS
  <2>6. ASSUME NEW i \in 1..(Len(l) + 1)
        PROVE  Legal(SubSeq(k, 1, i - 1), k[i])
    <3>1. CASE i \in 1..Len(l)
      <4>1. SubSeq(k, 1, i - 1) = SubSeq(l, 1, i - 1) /\ k[i] = l[i]
        BY <2>2, <2>4, <3>1
      <4>2. i \in DOMAIN l
        BY <3>1
      <4>3. Legal(SubSeq(l, 1, i - 1), l[i])
        BY <4>2 DEF Readable
      <4> QED
        BY <4>1, <4>3
    <3>2. CASE i = Len(l) + 1
      <4>1. SubSeq(k, 1, i - 1) = l /\ k[i] = e
        <5>1. i - 1 = Len(l)
          BY <3>2
        <5> QED
          BY <2>3, <2>4, <2>5, <3>2, <5>1
      <4> QED
        BY <1>2, <4>1
    <3> QED
      BY <3>1, <3>2
  <2> QED
    BY <2>1, <2>6 DEF Readable
<1> QED
  BY <1>1, <1>2 DEF Grows

-----------------------------------------------------------------------------
(* What a call has behind it at each stage.                                *)

\* A call keeps its attempt and action from its first ledger event to the
\* end of its sending, and sends after it consumed its receipt.
LEMMA StagesKept ==
    ASSUME TypeOK, [Next]_vars, NEW c \in Callers
    PROVE  /\ pc'[c] \in Begun =>
                 \/ pc[c] \in Begun /\ call'[c] = call[c]
                 \/ BeginAttempt(c)
           /\ pc'[c] = "post" =>
                 \/ pc[c] = "post" /\ call'[c] = call[c]
                 \/ Consume(c)
<1> USE DEF At, Attempt, Moves, Begun, Sending
<1>0. CASE pc'[c] = pc[c] /\ call'[c] = call[c]
  BY <1>0
<1>1. ASSUME NEW d \in Callers, CallStep(d)
      PROVE  /\ pc'[c] \in Begun =>
                   \/ pc[c] \in Begun /\ call'[c] = call[c]
                   \/ BeginAttempt(c)
             /\ pc'[c] = "post" =>
                   \/ pc[c] = "post" /\ call'[c] = call[c]
                   \/ Consume(c)
  <2>1. CASE Return(d)
    BY <1>0, <2>1 DEF Return, TypeOK
  <2>2. CASE BeginAttempt(d)
    BY <2>2 DEF BeginAttempt, TypeOK
  <2>3. CASE BindOrderReference(d)
    BY <2>3 DEF BindOrderReference, TypeOK
  <2>4. CASE MarkSubmitted(d)
    BY <2>4 DEF MarkSubmitted, TypeOK
  <2>5. CASE Admit(d)
    <3>1. PICK stage \in {"consume", "unknown"} : pc' = [pc EXCEPT ![d] = stage]
      BY <2>5 DEF Admit
    <3> QED
      BY <2>5, <3>1 DEF Admit, TypeOK
  <2>6. CASE Consume(d)
    <3>1. PICK stage \in {"post", "unknown"} : pc' = [pc EXCEPT ![d] = stage]
      BY <2>6 DEF Consume
    <3>2. pc[d] = "consume" /\ call' = call
      BY <2>6 DEF Consume
    <3>3. c # d => pc'[c] = pc[c]
      BY <3>1 DEF TypeOK
    <3> QED
      BY <2>6, <3>1, <3>2, <3>3 DEF TypeOK
  <2>7. CASE Post(d)
    BY <2>7 DEF Post, TypeOK
  <2>8. CASE Reply(d)
    <3>1. PICK report : call' = [call EXCEPT ![d].report = report]
      BY <2>8 DEF Reply
    <3> QED
      BY <2>8, <3>1 DEF Reply, TypeOK
  <2>9. CASE TimeOut(d)
    BY <2>9 DEF TimeOut, TypeOK
  <2>10. CASE BindReport(d)
    BY <2>10 DEF BindReport, TypeOK
  <2> QED
    BY <1>1, <2>1, <2>2, <2>3, <2>4, <2>5, <2>6, <2>7, <2>8, <2>9, <2>10
    DEF CallStep, MarkUnknown, ApplyReport, AcknowledgeFound, Abandon
<1>2. CASE \E d \in Callers, t \in Attempts, a \in Actions : Start(d, t, a)
  <2>1. PICK d \in Callers, t \in Attempts, a \in Actions : Start(d, t, a)
    BY <1>2
  <2> QED
    BY <2>1, <1>0 DEF Start, TypeOK
<1>3. ASSUME NEW d \in Callers, NEW r \in readbacks,
             PresentToSubmitted(d, r) \/ PresentToUnknown(d, r)
      PROVE  (c = d /\ pc'[c] \in {"report", "found"})
             \/ (pc'[c] = pc[c] /\ call'[c] = call[c])
  BY <1>3 DEF PresentToSubmitted, PresentToUnknown, TypeOK
<1>4. CASE \E d \in Callers, r \in readbacks :
             PresentToSubmitted(d, r) \/ PresentToUnknown(d, r)
  BY <1>0, <1>3, <1>4
<1>5. CASE UNCHANGED <<pc, call>>
  BY <1>0, <1>5
<1>6. CASE ReservePlan \/ BindApproval \/ Revoke \/ Recover \/ ClockMoves
  BY <1>5, <1>6 DEF ReservePlan, BindApproval, Revoke, Recover, ClockMoves, callers
<1>7. CASE \E t \in Attempts : Place(t) \/ MatchMore(t) \/ ReadBack(t)
  BY <1>5, <1>7 DEF Place, MatchMore, ReadBack, callers
<1>8. CASE \E t \in Attempts, a \in Actions : Confirm(t, a)
  BY <1>5, <1>8 DEF Confirm, callers
<1>9. CASE \E r \in readbacks : PresentNotFound(r)
  BY <1>5, <1>9 DEF PresentNotFound, callers
<1>10. CASE UNCHANGED vars
  BY <1>5, <1>10 DEF vars
<1> QED
  BY <1>1, <1>2, <1>4, <1>6, <1>7, <1>8, <1>9, <1>10 DEF Next

\* An action keeps its attempt: a reservation finds the action without one,
\* and nothing else opens a log.
LEMMA OwnedKept ==
    ASSUME TypeOK, LogTyped, Sends, Owned, [Next]_vars
    PROVE  Owned'
<1>1. /\ LogTyped'
      /\ \A u \in Attempts : Grows(log[u], log'[u])
      /\ \/ \E c \in Callers : CallStep(c) /\ Reserves(c)
         \/ \A u \in Attempts : log[u] = <<>> => log'[u] = <<>>
  BY NextGrows
<1>2. \A u \in Attempts : log[u] \in Seq(Records)
  BY DEF LogTyped
<1>3. \A u \in Attempts : log[u] # <<>> =>
        log'[u] # <<>> /\ ActionOf(log'[u]) = ActionOf(log[u])
  BY <1>1, <1>2, GrowsFacts
<1>4. CASE \A u \in Attempts : log[u] = <<>> => log'[u] = <<>>
  <2>1. \A u \in Attempts : /\ log'[u] = <<>> <=> log[u] = <<>>
                            /\ ActionOf(log'[u]) = ActionOf(log[u])
    BY <1>3, <1>4
  <2>2. ASSUME NEW c \in Callers, pc'[c] \in Begun
        PROVE  /\ log'[call'[c].attempt] # <<>>
               /\ ActionOf(log'[call'[c].attempt]) = call'[c].action
    <3>1. CASE pc[c] \in Begun /\ call'[c] = call[c]
      <4>1. call[c].attempt \in Attempts
        BY <3>1 DEF Sends, Calls, Begun, Sending
      <4> QED
        BY <2>1, <3>1, <4>1 DEF Owned
    <3>2. CASE BeginAttempt(c)
      <4>1. pc[c] = "begin" /\ call' = call
        BY <3>2 DEF BeginAttempt, At
      <4>2. call[c].attempt \in Attempts /\ call[c].action \in Actions
        BY <4>1 DEF Sends, Calls, Sending
      <4>3. CASE ActionOf(log[call[c].attempt]) = call[c].action
        BY <2>1, <4>1, <4>2, <4>3, ConstantsAssumption DEF ActionOf
      <4>4. CASE /\ CanReserve(call[c].attempt, call[c].action)
                 /\ log' = [log EXCEPT ![call[c].attempt] =
                               <<Event("reserved", clock, call[c].action)>>]
        <5>1. log[call[c].attempt] = <<>>
          BY <4>4 DEF CanReserve
        <5>2. log'[call[c].attempt] # <<>>
          BY <4>2, <4>4 DEF LogTyped
        <5> QED
          BY <1>4, <4>2, <5>1, <5>2
      <4> QED
        BY <3>2, <4>3, <4>4 DEF BeginAttempt, Attempt
    <3> QED
      BY <2>2, <3>1, <3>2, StagesKept
  <2>3. \A t \in Attempts : log'[t] # <<>> => ActionOf(log'[t]) \in Actions
    BY <2>1 DEF Owned
  <2>4. \A t, u \in Attempts :
           log'[t] # <<>> /\ ActionOf(log'[t]) = ActionOf(log'[u]) => t = u
    BY <2>1 DEF Owned
  <2> QED
    BY <2>2, <2>3, <2>4 DEF Owned, ActionOf
<1>5. ASSUME NEW c \in Callers, CallStep(c), Reserves(c)
      PROVE  Owned'
  <2> DEFINE t == call[c].attempt
             a == call[c].action
             e == Event("reserved", clock, a)
  <2>1. /\ pc[c] = "begin" /\ t \in Attempts /\ a \in Actions
        /\ log' = [log EXCEPT ![t] = <<e>>]
    BY <1>5 DEF Reserves, Sends, Calls, Sending
  <2>2. log[t] = <<>> /\ \A u \in Attempts : ActionOf(log[u]) # a
    BY <1>5 DEF Reserves, CanReserve
  <2>3. log'[t] = <<e>> /\ \A u \in Attempts \ {t} : log'[u] = log[u]
    BY <2>1 DEF LogTyped
  <2>4. log'[t] # <<>> /\ ActionOf(log'[t]) = a
    BY <2>3 DEF ActionOf, Event
  <2> HIDE DEF e
  <2>5. \A u \in Attempts : log'[u] # <<>> => ActionOf(log'[u]) \in Actions
    BY <2>1, <2>3, <2>4 DEF Owned
  <2>6. \A u, v \in Attempts :
           log'[u] # <<>> /\ ActionOf(log'[u]) = ActionOf(log'[v]) => u = v
    BY <2>2, <2>3, <2>4 DEF Owned
  <2>7. \A d \in Callers \ {c} : pc'[d] \notin Begun
    <3> SUFFICES ASSUME NEW d \in Callers \ {c}, pc'[d] \in Begun
                 PROVE  FALSE
      OBVIOUS
    <3>1. pc[d] \in Sending
      BY StagesKept DEF Begun, Sending, BeginAttempt, At
    <3> QED
      BY <2>1, <3>1 DEF Sends, Fenced, Sending
  <2>8. pc'[c] \in Begun => call'[c] = call[c]
    BY StagesKept, <2>1 DEF BeginAttempt, At
  <2>9. \A d \in Callers : pc'[d] \in Begun =>
           /\ log'[call'[d].attempt] # <<>>
           /\ ActionOf(log'[call'[d].attempt]) = call'[d].action
    BY <2>4, <2>7, <2>8
  <2> QED
    BY <2>5, <2>6, <2>9 DEF Owned, ActionOf
<1> QED
  BY <1>1, <1>4, <1>5

\* Nothing leaves but by Post, and a receipt once consumed stays consumed.
LEMMA ReceiptsKept ==
    ASSUME TypeOK, Sends, [Next]_vars
    PROVE  /\ posts' = posts \/ \E c \in Callers : Post(c)
           /\ \A t \in Attempts, a \in Actions :
                receipts[t][a] = "consumed" => receipts'[t][a] = "consumed"
           /\ receipts' \in [Attempts -> [Actions ->
                {"none", "confirmed", "expired", "consumed"}]]
<1> DEFINE Stages4 == {"none", "confirmed", "expired", "consumed"}
           Goal == /\ \A t \in Attempts, a \in Actions :
                        receipts[t][a] = "consumed" => receipts'[t][a] = "consumed"
                   /\ receipts' \in [Attempts -> [Actions -> Stages4]]
<1>0. CASE UNCHANGED <<receipts, posts>>
  BY <1>0 DEF TypeOK
<1>1. ASSUME NEW c \in Callers, CallStep(c)
      PROVE  (posts' = posts \/ Post(c)) /\ Goal
  <2>1. CASE Consume(c)
    <3>1. PICK usable \in BOOLEAN :
            receipts' = IF usable
                THEN [receipts EXCEPT ![call[c].attempt][call[c].action] = "consumed"]
                ELSE receipts
      BY <2>1 DEF Consume, Attempt
    <3>2. posts' = posts
      BY <2>1 DEF Consume, provider
    <3>3. CASE usable
      <4> DEFINE t == call[c].attempt
                 a == call[c].action
      <4>1. t \in Attempts /\ a \in Actions
        BY <2>1 DEF Consume, At, Sends, Calls, Sending
      <4> HIDE DEF t, a
      <4>2. receipts' = [receipts EXCEPT ![t][a] = "consumed"]
        BY <3>1, <3>3 DEF t, a
      <4>3. \A u \in Attempts, b \in Actions :
              receipts[u][b] = "consumed" => receipts'[u][b] = "consumed"
        BY <4>1, <4>2 DEF TypeOK
      <4>4. receipts' \in [Attempts -> [Actions -> Stages4]]
        BY <4>1, <4>2 DEF TypeOK
      <4> QED
        BY <3>2, <4>3, <4>4
    <3> QED
      BY <3>1, <3>2, <3>3 DEF TypeOK
  <2>2. CASE Post(c)
    BY <2>2 DEF Post, TypeOK
  <2>3. CASE UNCHANGED <<receipts, posts>>
    BY <2>3 DEF TypeOK
  <2> QED
    BY <1>1, <2>1, <2>2, <2>3
    DEF CallStep, BeginAttempt, BindOrderReference, MarkSubmitted, Admit, Reply,
        TimeOut, MarkUnknown, BindReport, ApplyReport, AcknowledgeFound, Abandon,
        provider
<1>2. ASSUME NEW t \in Attempts, NEW a \in Actions, Confirm(t, a)
      PROVE  posts' = posts /\ Goal
  BY <1>2 DEF Confirm, provider, TypeOK
<1>3. CASE ClockMoves
  <2>1. posts' = posts
    BY <1>3 DEF ClockMoves, provider
  <2>2. \A t \in Attempts, a \in Actions :
           \/ receipts'[t][a] = receipts[t][a]
           \/ receipts[t][a] = "confirmed" /\ receipts'[t][a] = "expired"
    BY <1>3 DEF ClockMoves, TypeOK
  <2>3. receipts' \in [Attempts -> [Actions -> Stages4]]
    BY <1>3 DEF ClockMoves, TypeOK
  <2> QED
    BY <2>1, <2>2, <2>3
<1>4. CASE \E r \in readbacks : PresentNotFound(r)
  BY <1>0, <1>4 DEF PresentNotFound, provider
<1>5. CASE \E c \in Callers, r \in readbacks :
             PresentToSubmitted(c, r) \/ PresentToUnknown(c, r)
  BY <1>0, <1>5 DEF PresentToSubmitted, PresentToUnknown, provider
<1>6. CASE \E c \in Callers, t \in Attempts, a \in Actions : Start(c, t, a)
  BY <1>0, <1>6 DEF Start, provider
<1>7. CASE \E t \in Attempts : Place(t) \/ MatchMore(t) \/ ReadBack(t)
  BY <1>0, <1>7 DEF Place, MatchMore, ReadBack, provider
<1>8. CASE ReservePlan \/ BindApproval \/ Revoke \/ Recover
  BY <1>0, <1>8 DEF ReservePlan, BindApproval, Revoke, Recover, provider
<1>9. CASE UNCHANGED vars
  BY <1>0, <1>9 DEF vars
<1> QED
  BY <1>1, <1>2, <1>3, <1>4, <1>5, <1>6, <1>7, <1>8, <1>9 DEF Next

\* A request leaves on a receipt consumed for it, and a receipt is consumed
\* for an attempt nothing has left for.
LEMMA PaidKept ==
    ASSUME IInv, [Next]_vars
    PROVE  Paid'
<1> USE DEF IInv
<1>1. /\ LogTyped'
      /\ \A u \in Attempts : log[u] # <<>> =>
           log'[u] # <<>> /\ ActionOf(log'[u]) = ActionOf(log[u])
  BY NextGrows, GrowsFacts DEF LogTyped
<1>2. /\ posts' = posts \/ \E c \in Callers : Post(c)
      /\ \A t \in Attempts, a \in Actions :
           receipts[t][a] = "consumed" => receipts'[t][a] = "consumed"
  BY ReceiptsKept
<1>3. CASE posts' = posts
  <2>1. ASSUME NEW t \in Attempts, posts'[t] > 0
        PROVE  /\ log'[t] # <<>>
               /\ receipts'[t][ActionOf(log'[t])] = "consumed"
               /\ posts'[t] = 1
    <3>1. /\ log[t] # <<>> /\ ActionOf(log[t]) \in Actions
          /\ receipts[t][ActionOf(log[t])] = "consumed" /\ posts[t] = 1
      BY <1>3, <2>1 DEF Paid, Owned
    <3> QED
      BY <1>1, <1>2, <1>3, <3>1
  <2>2. ASSUME NEW c \in Callers, pc'[c] = "post"
        PROVE  /\ receipts'[call'[c].attempt][call'[c].action] = "consumed"
               /\ posts'[call'[c].attempt] = 0
    <3>1. CASE pc[c] = "post" /\ call'[c] = call[c]
      <4>1. call[c].attempt \in Attempts /\ call[c].action \in Actions
        BY <3>1 DEF Sends, Calls, Sending
      <4> QED
        BY <1>2, <1>3, <3>1, <4>1 DEF Paid
    <3>2. CASE Consume(c)
      <4> DEFINE t == call[c].attempt
                 a == call[c].action
      <4>1. pc[c] = "consume" /\ call' = call
        BY <3>2 DEF Consume, At
      <4>2. t \in Attempts /\ a \in Actions
        BY <4>1 DEF Sends, Calls, Sending
      <4>3. log[t] # <<>> /\ ActionOf(log[t]) = a
        BY <4>1 DEF Owned, Begun, Sending
      <4>4. receipts[t][a] = "confirmed" /\ receipts' = [receipts EXCEPT ![t][a] = "consumed"]
        <5> DEFINE usable == /\ clock < Expiry /\ clock >= SubmittedAt(log[t])
                             /\ ReceiptUsable(t, a)
        <5>1. receipts' = IF usable THEN [receipts EXCEPT ![t][a] = "consumed"]
                          ELSE receipts
          BY <3>2 DEF Consume, Attempt
        <5>2. pc' = [pc EXCEPT ![c] = IF usable THEN "post" ELSE "unknown"]
          BY <3>2 DEF Consume, Moves, Attempt
        <5> HIDE DEF usable
        <5>3. usable
          BY <2>2, <5>2 DEF TypeOK
        <5>4. ReceiptUsable(t, a)
          BY <5>3 DEF usable
        <5> QED
          BY <5>1, <5>3, <5>4 DEF ReceiptUsable
      <4>5. receipts'[t][a] = "consumed"
        BY <4>2, <4>4 DEF TypeOK
      <4>6. posts[t] \in Nat /\ ~(posts[t] > 0)
        BY <4>2, <4>3, <4>4 DEF Paid, TypeOK
      <4>7. posts[t] = 0
        BY <4>6
      <4> QED
        BY <1>3, <4>1, <4>5, <4>7
    <3> QED
      BY <2>2, <3>1, <3>2, StagesKept
  <2> QED
    BY <2>1, <2>2 DEF Paid, ActionOf
<1>4. ASSUME NEW c \in Callers, Post(c)
      PROVE  Paid'
  <2> DEFINE t == call[c].attempt
             a == call[c].action
  <2>1. /\ pc[c] = "post" /\ pc' = [pc EXCEPT ![c] = "await"]
        /\ posts' = [posts EXCEPT ![t] = @ + 1]
        /\ log' = log /\ receipts' = receipts
    BY <1>4 DEF Post, At, Moves, Attempt, ledger
  <2>2. t \in Attempts /\ a \in Actions
    BY <2>1 DEF Sends, Calls, Sending
  <2>3. log[t] # <<>> /\ ActionOf(log[t]) = a
    BY <2>1 DEF Owned, Begun, Sending
  <2>4. receipts[t][a] = "consumed" /\ posts[t] = 0
    BY <2>1 DEF Paid
  <2>5. posts'[t] = 1 /\ \A u \in Attempts \ {t} : posts'[u] = posts[u]
    BY <2>1, <2>2, <2>4 DEF TypeOK
  <2>6. \A d \in Callers : pc'[d] # "post"
    BY <2>1 DEF Sends, Fenced, Sending, TypeOK
  <2>7. \A u \in Attempts : posts'[u] > 0 =>
          /\ log'[u] # <<>>
          /\ receipts'[u][ActionOf(log'[u])] = "consumed"
          /\ posts'[u] = 1
    BY <2>1, <2>3, <2>4, <2>5 DEF Paid
  <2> QED
    BY <2>6, <2>7 DEF Paid, ActionOf
<1> QED
  BY <1>2, <1>3, <1>4

-----------------------------------------------------------------------------
(* Types.                                                                  *)

\* The types of all but the ledger and the receipts.
OthersTyped ==
    /\ torn \in BOOLEAN
    /\ plan \in {"none", "reserved", "approved", "revoked"}
    /\ order \in [Attempts -> {"none", "sent", "resting", "rejected"} \cup Matches]
    /\ posts \in [Attempts -> Nat]
    /\ readbacks \subseteq [attempt : Attempts, evidence : Evidence]
    /\ fence \in Callers \cup {None}
    /\ pc \in [Callers -> Stages \cup {"idle"}]
    /\ call \in [Callers -> [attempt : Attempts \cup {None},
                              action : Actions \cup {None},
                              report : Evidence \cup {None}]]
    /\ clock \in Times

\* Returning clears the call.
LEMMA ReturnTyped ==
    ASSUME OthersTyped, NEW c \in Callers, Return(c)
    PROVE  /\ fence' \in Callers \cup {None}
           /\ pc' \in [Callers -> Stages \cup {"idle"}]
           /\ call' \in [Callers -> [attempt : Attempts \cup {None},
                                      action : Actions \cup {None},
                                      report : Evidence \cup {None}]]
BY DEF OthersTyped, Return, NoCall

\* Every step of a call keeps the types.
LEMMA CallStepTyped ==
    ASSUME OthersTyped, Sends, NEW c \in Callers, CallStep(c)
    PROVE  OthersTyped'
<1> USE DEF At, Attempt, Moves, Stages, ledger, provider, callers
<1>1. CASE BeginAttempt(c)
  BY <1>1 DEF BeginAttempt, OthersTyped
<1>2. CASE BindOrderReference(c)
  BY <1>2 DEF BindOrderReference, OthersTyped
<1>3. CASE MarkSubmitted(c)
  BY <1>3 DEF MarkSubmitted, OthersTyped
<1>4. CASE Admit(c)
  <2>1. PICK stage \in {"consume", "unknown"} : pc' = [pc EXCEPT ![c] = stage]
    BY <1>4 DEF Admit
  <2> QED
    BY <1>4, <2>1 DEF Admit, OthersTyped
<1>5. CASE Consume(c)
  <2>1. PICK stage \in {"post", "unknown"} : pc' = [pc EXCEPT ![c] = stage]
    BY <1>5 DEF Consume
  <2> QED
    BY <1>5, <2>1 DEF Consume, OthersTyped
<1>6. CASE Post(c)
  <2>0. call[c].attempt \in Attempts
    BY <1>6 DEF Post, Sends, Calls
  <2>1. order' \in [Attempts -> {"none", "sent", "resting", "rejected"} \cup Matches]
    <3>2. order[call[c].attempt] \in {"none", "sent", "resting", "rejected"} \cup Matches
      BY <2>0 DEF OthersTyped
    <3>3. PICK now \in {"none", "sent", "resting", "rejected"} \cup Matches :
            order' = [order EXCEPT ![call[c].attempt] = now]
      BY <1>6, <3>2 DEF Post
    <3> QED
      BY <3>3 DEF OthersTyped
  <2>2. posts' \in [Attempts -> Nat]
    BY <1>6, <2>0 DEF Post, OthersTyped
  <2> QED
    BY <1>6, <2>1, <2>2 DEF Post, OthersTyped
<1>7. CASE Reply(c)
  <2>1. PICK seen \in SeenSoFar(order[call[c].attempt]) :
          call' = [call EXCEPT ![c].report =
                     [source |-> "report", at |-> clock, seen |-> seen]]
    BY <1>7 DEF Reply
  <2> DEFINE report == [source |-> "report", at |-> clock, seen |-> seen]
  <2>2. call[c].attempt \in Attempts
    BY <1>7 DEF Reply, Sends, Calls
  <2>3. seen \in Matches \cup {"resting", "rejected"}
    BY <1>7, <2>2 DEF Reply, SeenSoFar, OthersTyped, Matches
  <2>4. report \in Evidence
    BY <2>3 DEF Evidence, OthersTyped, Matches
  <2> HIDE DEF report
  <2>5. call' \in [Callers -> [attempt : Attempts \cup {None},
                               action : Actions \cup {None},
                               report : Evidence \cup {None}]]
    <3>1. call' = [call EXCEPT ![c].report = report]
      BY <2>1 DEF report
    <3> QED
      BY <2>4, <3>1 DEF OthersTyped
  <2> QED
    BY <1>7, <2>5 DEF Reply, OthersTyped
<1>8. CASE TimeOut(c)
  BY <1>8 DEF TimeOut, OthersTyped
<1>9. CASE BindReport(c)
  BY <1>9 DEF BindReport, OthersTyped
<1>10. CASE MarkUnknown(c)
  BY <1>10, ReturnTyped DEF MarkUnknown, OthersTyped
<1>11. CASE ApplyReport(c)
  BY <1>11, ReturnTyped DEF ApplyReport, OthersTyped
<1>12. CASE AcknowledgeFound(c)
  BY <1>12, ReturnTyped DEF AcknowledgeFound, OthersTyped
<1>13. CASE Abandon(c)
  <2>1. torn' \in BOOLEAN
    BY <1>13 DEF Abandon, OthersTyped
  <2> QED
    BY <1>13, <2>1, ReturnTyped DEF Abandon, OthersTyped
<1> QED
  BY <1>1, <1>2, <1>3, <1>4, <1>5, <1>6, <1>7, <1>8, <1>9, <1>10, <1>11, <1>12,
     <1>13 DEF CallStep

\* Every other step does.
LEMMA NextTyped ==
    ASSUME OthersTyped, Sends, [Next]_vars
    PROVE  OthersTyped'
<1> USE DEF At, Attempt, Moves, Stages, ledger, provider, callers
<1>1. CASE ReservePlan \/ BindApproval \/ Revoke \/ Recover
  BY <1>1 DEF ReservePlan, BindApproval, Revoke, Recover, OthersTyped
<1>2. CASE ClockMoves
  BY <1>2 DEF ClockMoves, OthersTyped
<1>3. ASSUME NEW t \in Attempts, Place(t) \/ MatchMore(t)
      PROVE  OthersTyped'
  <2>1. PICK outcome \in {"resting", "rejected"} \cup Matches :
          order' = [order EXCEPT ![t] = outcome]
    BY <1>3 DEF Place, MatchMore
  <2>2. order' \in [Attempts -> {"none", "sent", "resting", "rejected"} \cup Matches]
    BY <2>1 DEF OthersTyped
  <2> QED
    BY <1>3, <2>2 DEF Place, MatchMore, OthersTyped
<1>4. ASSUME NEW t \in Attempts, ReadBack(t)
      PROVE  OthersTyped'
  <2> DEFINE e == [source |-> "readback", at |-> clock,
                   seen |-> IF order[t] \in Matches THEN order[t] ELSE "absent"]
  <2>1. readbacks' = readbacks \cup {[attempt |-> t, evidence |-> e]}
    BY <1>4 DEF ReadBack
  <2>2. e \in Evidence
    BY DEF Evidence, OthersTyped
  <2> HIDE DEF e
  <2>3. readbacks' \subseteq [attempt : Attempts, evidence : Evidence]
    BY <2>1, <2>2 DEF OthersTyped
  <2> QED
    BY <1>4, <2>3 DEF ReadBack, OthersTyped
<1>5. CASE \E t \in Attempts, a \in Actions : Confirm(t, a)
  BY <1>5 DEF Confirm, OthersTyped
<1>6. ASSUME NEW c \in Callers, NEW t \in Attempts, NEW a \in Actions, Start(c, t, a)
      PROVE  OthersTyped'
  BY <1>6 DEF Start, OthersTyped, NoCall
<1>7. ASSUME NEW c \in Callers, CallStep(c)
      PROVE  OthersTyped'
  BY <1>7, CallStepTyped
<1>8. ASSUME NEW c \in Callers, NEW r \in readbacks,
             PresentToSubmitted(c, r) \/ PresentToUnknown(c, r)
      PROVE  OthersTyped'
  <2>1. r.attempt \in Attempts /\ r.evidence \in Evidence
    BY DEF OthersTyped
  <2>2. call' \in [Callers -> [attempt : Attempts \cup {None},
                               action : Actions \cup {None},
                               report : Evidence \cup {None}]]
    <3> DEFINE k == [NoCall EXCEPT !.attempt = r.attempt, !.report = r.evidence]
    <3>1. call' = [call EXCEPT ![c] = k]
      BY <1>8 DEF PresentToSubmitted, PresentToUnknown
    <3>2. k \in [attempt : Attempts \cup {None}, action : Actions \cup {None},
                 report : Evidence \cup {None}]
      BY <2>1 DEF NoCall
    <3> HIDE DEF k
    <3> QED
      BY <3>1, <3>2 DEF OthersTyped
  <2> QED
    BY <1>8, <2>2 DEF PresentToSubmitted, PresentToUnknown, OthersTyped
<1>9. CASE \E r \in readbacks : PresentNotFound(r)
  BY <1>9 DEF PresentNotFound, OthersTyped
<1>10. CASE UNCHANGED vars
  BY <1>10 DEF vars, OthersTyped
<1> QED
  BY <1>1, <1>2, <1>3, <1>4, <1>5, <1>6, <1>7, <1>8, <1>9, <1>10 DEF Next

\* The types, with those of the ledger and of the receipts.
LEMMA TypesKept ==
    ASSUME TypeOK, LogTyped, Sends, [Next]_vars
    PROVE  TypeOK'
<1>1. OthersTyped'
  BY NextTyped DEF TypeOK, OthersTyped
<1>2. receipts' \in [Attempts -> [Actions ->
        {"none", "confirmed", "expired", "consumed"}]]
  BY ReceiptsKept
<1>3. LogTyped'
  BY NextGrows
<1>4. \A t \in Attempts : \A i \in DOMAIN log'[t] : log'[t][i].at \in Times
  <2> SUFFICES ASSUME NEW t \in Attempts, NEW i \in DOMAIN log'[t]
               PROVE  log'[t][i].at \in Times
    OBVIOUS
  <2>1. log'[t] \in Seq(Records)
    BY <1>3 DEF LogTyped
  <2>2. log'[t][i] \in Records
    BY <2>1
  <2> QED
    BY <2>2 DEF Records
<1> QED
  BY <1>1, <1>2, <1>4 DEF TypeOK, OthersTyped

-----------------------------------------------------------------------------
(* The inductive invariant, and what it gives.                             *)

\* The invariant holds at first.
LEMMA InitInvariant == Init => IInv
<1> SUFFICES ASSUME Init PROVE IInv
  OBVIOUS
<1>1. \A t \in Attempts : log[t] = <<>> /\ posts[t] = 0
  BY DEF Init
<1>2. \A c \in Callers : pc[c] = "idle"
  BY DEF Init
<1>3. LogTyped
  <2>1. <<>> \in Seq(Records)
    OBVIOUS
  <2> QED
    BY <2>1 DEF Init, LogTyped
<1>4. TypeOK
  <2>1. \A t \in Attempts : \A i \in DOMAIN log[t] : log[t][i].at \in Times
    <3>1. DOMAIN <<>> = {}
      OBVIOUS
    <3> QED
      BY <1>1, <3>1
  <2>2. NoCall \in [attempt : Attempts \cup {None}, action : Actions \cup {None},
                    report : Evidence \cup {None}]
    BY DEF NoCall
  <2>3. OthersTyped
    BY <2>2 DEF Init, OthersTyped
  <2>4. receipts \in [Attempts -> [Actions ->
          {"none", "confirmed", "expired", "consumed"}]]
    BY DEF Init
  <2> QED
    BY <2>1, <2>3, <2>4 DEF TypeOK, OthersTyped
<1>5. Sends
  BY <1>2 DEF Sends, Calls, Fenced, Approved, Sending, Cleared
<1>6. Owned
  BY <1>1, <1>2 DEF Owned, Begun, Sending
<1>7. Paid
  BY <1>1, <1>2 DEF Paid
<1> QED
  BY <1>3, <1>4, <1>5, <1>6, <1>7 DEF IInv

\* Every step keeps it.
LEMMA NextInvariant == IInv /\ [Next]_vars => IInv'
<1> SUFFICES ASSUME IInv, [Next]_vars PROVE IInv'
  OBVIOUS
<1>1. TypeOK'
  BY TypesKept DEF IInv
<1>2. LogTyped'
  BY NextGrows DEF IInv
<1>3. Sends'
  BY SendsKept DEF IInv
<1>4. Owned'
  BY OwnedKept DEF IInv
<1>5. Paid'
  BY PaidKept
<1> QED
  BY <1>1, <1>2, <1>3, <1>4, <1>5 DEF IInv

\* The inductive invariant holds in every state of the specification.
THEOREM Invariant == Spec => []IInv
<1>1. Init => IInv
  BY InitInvariant
<1>2. IInv /\ [Next]_vars => IInv'
  BY NextInvariant
<1> QED
  BY <1>1, <1>2, PTL DEF Spec

\* Every variable keeps its type, for any number of callers and attempts:
\* no event carries an instant out of range, no call an unknown attempt.
THEOREM TypeCorrect == Spec => []TypeOK
<1>1. IInv => TypeOK
  BY DEF IInv
<1> QED
  BY <1>1, Invariant, PTL

\* A placeOrders request leaves the machine at most once for an action of
\* the plan, over any number of attempts, callers, crashes and read-backs.
THEOREM OnePost == Spec => []OnePostPerAction
<1>1. IInv => OnePostPerAction
  <2> SUFFICES ASSUME IInv, NEW a \in Actions
               PROVE  LET mine == {t \in Attempts : ActionOf(log[t]) = a}
                      IN /\ \A t \in mine : posts[t] <= 1
                         /\ Cardinality({t \in mine : posts[t] > 0}) <= 1
    BY DEF OnePostPerAction
  <2> DEFINE mine == {t \in Attempts : ActionOf(log[t]) = a}
             sent == {t \in mine : posts[t] > 0}
  <2>1. \A t \in mine : posts[t] <= 1
    <3> SUFFICES ASSUME NEW t \in mine PROVE posts[t] <= 1
      OBVIOUS
    <3>1. posts[t] \in Nat /\ (posts[t] > 0 => posts[t] = 1)
      BY DEF IInv, TypeOK, Paid
    <3> QED
      BY <3>1
  <2>2. \A t, u \in sent : t = u
    BY DEF IInv, Paid, Owned
  <2>3. Cardinality(sent) <= 1
    <3>1. CASE sent = {}
      BY <3>1, FS_EmptySet
    <3>2. CASE sent # {}
      <4>1. PICK t \in sent : TRUE
        BY <3>2
      <4>2. sent = {t}
        BY <2>2, <4>1
      <4>3. Cardinality(sent) = 1
        BY <4>2, FS_Singleton
      <4> QED
        BY <4>3
    <3> QED
      BY <3>1, <3>2
  <2> QED
    BY <2>1, <2>3
<1> QED
  BY <1>1, Invariant, PTL

\* Whatever the appends of the callers, of recoveries and of read-backs, and
\* in whatever order, the ledger they leave is one its readers accept.
THEOREM Readability == Spec => []LedgerStaysReadable
<1>1. Init => LedgerStaysReadable
  BY DEF Init, LedgerStaysReadable, Readable
<1>2. IInv /\ LedgerStaysReadable /\ [Next]_vars => LedgerStaysReadable'
  <2> SUFFICES ASSUME IInv, LedgerStaysReadable, [Next]_vars, NEW t \in Attempts
               PROVE  Readable(log'[t])
    BY DEF LedgerStaysReadable, Readable
  <2>1. log[t] \in Seq(Records) /\ Grows(log[t], log'[t])
    BY NextGrows DEF IInv, LogTyped
  <2>2. Readable(log[t])
    BY DEF LedgerStaysReadable
  <2> QED
    BY <2>1, <2>2, GrowsReadable
<1> QED
  BY <1>1, <1>2, Invariant, PTL DEF Spec

\* No request leaves once the approval is revoked: the caller holds the lock
\* the revocation needs from before its last look at the approval.
THEOREM NoLateSend == Spec => NoSendAfterRevocation
<1>1. IInv /\ [Next]_vars => (posts' # posts => plan = "approved")
  <2> SUFFICES ASSUME IInv, [Next]_vars, posts' # posts
               PROVE  plan = "approved"
    OBVIOUS
  <2>1. PICK c \in Callers : Post(c)
    BY ReceiptsKept DEF IInv
  <2> QED
    BY <2>1 DEF Post, At, IInv, Sends, Approved, Cleared
<1> QED
  BY <1>1, Invariant, PTL DEF Spec, NoSendAfterRevocation

=============================================================================
