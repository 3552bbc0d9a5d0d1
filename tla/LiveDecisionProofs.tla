------------------------- MODULE LiveDecisionProofs --------------------------
(***************************************************************************)
(* Machine-checked proofs about LiveDecision, for every number of          *)
(* decisions, legs, faults and promotions by another writer: its types,    *)
(* that exposure follows its evidence, and that no ticket of the durable   *)
(* book is ever lost.  The inductive invariant says what a crash or another*)
(* writer can never have changed: the cursor at each step (CursorAtStep),  *)
(* the place of a decision's record (RecordAtItsPlace), the runs           *)
(* (RunsInOrder), a book that is still the newest (BooksInOrder), and the  *)
(* tickets that the runs account for (ExposureInOrder).                    *)
(***************************************************************************)
EXTENDS LiveDecision, TLAPS

Outcomes == {"accepted", "partial", "refused"}
Writers == 0..MaxDecisions
Tickets == [decision : Writers, leg : Nat]
Books == [generation : Nat, tickets : Seq(Tickets)]
Runs == [scope : BOOLEAN, reserved : BOOLEAN, attempts : Seq(Outcomes),
         completed : BOOLEAN]
Cursors == [phase : Phases, decision : 0..MaxDecisions, legs : 0..MaxLegs,
            context : Seq(Tickets), offset : Nat]

Typed ==
    /\ mode \in {"paper", "shadow"}
    /\ witness \in Seq(Tickets)
    /\ progress \in Cursors
    /\ decisions \in Seq(Writers)
    /\ runs \in [Decisions -> Runs]
    /\ writerLock \in BOOLEAN
    /\ book \in Books /\ undecided \in BOOLEAN /\ memory \in Books
    /\ pc \in Locked \cup {"down", "idle", "plan", "replan"}
    /\ faults \in Nat /\ strangers \in Nat

(* The steps between a decision's record and its commit.                   *)
AfterAppend == {"scope", "reserve", "attempt", "materialize", "save", "commit"}

(* What the durable cursor says at each step.                              *)
CursorAtStep ==
    /\ progress.phase # "none" => progress.decision \in Decisions
    /\ progress.phase = "none" => progress.decision = 0
    /\ pc = "cursor" => ~Unfinished /\ progress.decision < MaxDecisions
    /\ pc = "plan" => progress.phase = "pending"
    /\ pc = "replan" => Unfinished
    /\ pc \in {"append"} \cup AfterAppend => progress.phase = "append_pending"

(* A decision's record stands at the place its cursor reserved.            *)
RecordAtItsPlace ==
    /\ OncePerDecision
    /\ progress.offset <= Len(decisions) + 1
    /\ progress.phase \in {"append_pending", "committed"} => progress.offset > 0
    /\ \A i \in DOMAIN decisions :
          /\ decisions[i] <= progress.decision
          /\ progress.phase = "pending" => decisions[i] # progress.decision
          /\ progress.phase = "append_pending"
                /\ decisions[i] = progress.decision => i = progress.offset
    /\ pc = "append" => (WrittenAt(progress.offset) => OwnAt(progress.offset))
    /\ pc \in AfterAppend => OwnAt(progress.offset)

(* A run grows only while its decision is carried out.                     *)
RunsInOrder ==
    /\ RunsFollowRecords
    /\ \A d \in Decisions :
          /\ Len(runs[d].attempts) <= MaxLegs
          /\ \A i \in DOMAIN runs[d].attempts :
                i < Len(runs[d].attempts) => runs[d].attempts[i] = "accepted"
          /\ progress.decision < d => runs[d] = NoRun
    /\ progress.phase = "pending" => Current = NoRun
    /\ Unfinished => Len(Current.attempts) <= progress.legs
    /\ pc = "attempt" => ~Current.completed
    /\ pc = "materialize" => Current.completed

(* A book in memory that is as new as the file has what the file has,      *)
(* whether or not a failed save of it is decided.                          *)
BooksInOrder ==
    /\ memory.generation <= book.generation
    /\ book.generation = 0 => book.tickets = <<>>
    /\ memory.generation = book.generation =>
          Range(book.tickets) \subseteq Range(memory.tickets)
    /\ mode = "shadow" =>
          Range(book.tickets) \cup Range(memory.tickets) \subseteq {StrangersTicket}

(* The legs of a run that ask for a ticket; the tickets that have such a   *)
(* leg of a completed run behind them, each for itself; and a decision all *)
(* of whose legs have their ticket.                                        *)
Given(run) == {k \in DOMAIN run.attempts : run.attempts[k] # "refused"}

Backed(ts, rs) ==
    \A i \in DOMAIN ts : ts[i] # StrangersTicket =>
        /\ ts[i].decision \in Decisions
        /\ rs[ts[i].decision].completed
        /\ ts[i].leg \in Given(rs[ts[i].decision])
        /\ \A j \in DOMAIN ts : ts[j] = ts[i] => j = i

Held(d, rs, ts) ==
    mode = "paper" => \A k \in Given(rs[d]) : Ticket(d, k) \in Range(ts)

ExposureInOrder ==
    /\ Backed(book.tickets, runs) /\ Backed(memory.tickets, runs)
    /\ pc = "save" => Held(progress.decision, runs, memory.tickets)
    /\ pc = "commit" => Held(progress.decision, runs, book.tickets)
    /\ \A d \in 1..progress.decision : d < progress.decision \/ ~Unfinished =>
          d \in Range(decisions) /\ Held(d, runs, book.tickets)

(* The inductive invariant.                                                *)
IInv ==
    /\ Typed
    /\ CursorAtStep
    /\ RecordAtItsPlace
    /\ RunsInOrder
    /\ BooksInOrder
    /\ ExposureInOrder

-----------------------------------------------------------------------------
(* What the sequences and the tickets of the model are made of.            *)

(* Appending adds one value to what a sequence holds.                      *)
LEMMA RangeAppend ==
    ASSUME NEW S, NEW s \in Seq(S), NEW e \in S
    PROVE  Range(Append(s, e)) = Range(s) \cup {e}
<1>1. DOMAIN Append(s, e) = DOMAIN s \cup {Len(s) + 1}
  OBVIOUS
<1>2. \A i \in DOMAIN s : Append(s, e)[i] = s[i]
  OBVIOUS
<1>3. Append(s, e)[Len(s) + 1] = e
  OBVIOUS
<1>. QED  BY <1>1, <1>2, <1>3 DEF Range

(* The tickets of a run carry its decision and the leg they were given for.*)
LEMMA AcceptedTickets ==
    ASSUME Typed, NEW d \in Decisions
    PROVE  /\ DOMAIN Accepted(d) = Given(runs[d]) /\ Given(runs[d]) \subseteq Nat
           /\ \A i \in DOMAIN Accepted(d) :
                 /\ Accepted(d)[i] = Ticket(d, i)
                 /\ Ticket(d, i) \in Tickets /\ Ticket(d, i) # StrangersTicket
                 /\ Ticket(d, i).decision = d /\ Ticket(d, i).leg = i
<1>1. runs[d].attempts \in Seq(Outcomes)
  BY DEF Typed, Runs
<1>2. Given(runs[d]) \subseteq Nat
  BY <1>1 DEF Given
<1>3. Accepted(d) = [i \in Given(runs[d]) |-> Ticket(d, i)]
  BY DEF Accepted, Given
<1>4. d \in Writers /\ d # 0
  BY ConstantsAssumption DEF Decisions, Writers
<1>5. \A i \in Nat :
        /\ Ticket(d, i) \in Tickets /\ Ticket(d, i) # StrangersTicket
        /\ Ticket(d, i).decision = d /\ Ticket(d, i).leg = i
  BY <1>4 DEF Ticket, Tickets, StrangersTicket, Stranger
<1>. QED  BY <1>2, <1>3, <1>5

(* Only a run's last attempt is refused (_derive_run_economics), so that   *)
(* the tickets it gives are numbered without a gap.                        *)
LEMMA AcceptedIsASequence ==
    ASSUME Typed, RunsInOrder, NEW d \in Decisions
    PROVE  Accepted(d) \in Seq(Tickets)
<1>. DEFINE as == runs[d].attempts
<1>1. as \in Seq(Outcomes) /\ Len(as) \in Nat
  BY DEF Typed, Runs
<1>2. \A i \in DOMAIN as : i < Len(as) => as[i] = "accepted"
  BY DEF RunsInOrder
<1>3. \E n \in Nat : Given(runs[d]) = 1..n
  <2>1. CASE as = <<>> \/ as[Len(as)] # "refused"
    <3>1. Given(runs[d]) = 1..Len(as)
      BY <1>1, <1>2, <2>1 DEF Given
    <3>. QED  BY <1>1, <3>1
  <2>2. CASE as # <<>> /\ as[Len(as)] = "refused"
    <3>1. Len(as) - 1 \in Nat
      BY <1>1, <2>2
    <3>2. Given(runs[d]) = 1..(Len(as) - 1)
      BY <1>1, <1>2, <2>2 DEF Given
    <3>. QED  BY <3>1, <3>2
  <2>. QED  BY <2>1, <2>2
<1>4. \A i \in Given(runs[d]) : Accepted(d)[i] \in Tickets
  BY AcceptedTickets
<1>5. Accepted(d) \in [Given(runs[d]) -> Tickets]
  BY <1>4 DEF Accepted, Given
<1>. QED  BY <1>3, <1>5

(* What is due while tickets are opened.                                   *)
LEMMA DueTickets ==
    ASSUME Typed, CursorAtStep, pc = "materialize"
    PROVE  /\ progress.decision \in Decisions
           /\ DOMAIN Due = IF mode = "paper" THEN Given(runs[progress.decision])
                           ELSE {}
           /\ DOMAIN Due \subseteq Nat
           /\ \A i \in DOMAIN Due :
                 /\ Due[i] = Ticket(progress.decision, i)
                 /\ Due[i] \in Tickets /\ Due[i] # StrangersTicket
                 /\ Due[i].decision = progress.decision /\ Due[i].leg = i
<1>1. progress.decision \in Decisions
  BY DEF CursorAtStep, AfterAppend
<1>. QED  BY <1>1, AcceptedTickets DEF Due

-----------------------------------------------------------------------------
(* Every step keeps each part of the invariant.                            *)

(* The types.                                                              *)
LEMMA TypedNext ==
    ASSUME Typed, CursorAtStep, [Next]_vars
    PROVE  Typed'
<1>. USE DEF Typed, Locked, ledgers, books, environment
<1>1. CASE Start
  BY <1>1 DEF Start
<1>2. CASE SaveWitness
  BY <1>2 DEF SaveWitness, Books
<1>3. CASE Recover
  BY <1>3 DEF Recover
<1>4. ASSUME NEW legs \in 0..MaxLegs, WritePending(legs) PROVE Typed'
  <2>1. progress.decision + 1 \in 0..MaxDecisions
    BY <1>4, ConstantsAssumption DEF WritePending, CursorAtStep, Cursors
  <2>2. progress' \in Cursors
    BY <1>4, <2>1 DEF WritePending, Cursors, Books, Phases
  <2>. QED  BY <1>4, <2>2 DEF WritePending
<1>5. CASE ReserveAppend
  <2>1. PICK o \in Nat : progress' = [progress EXCEPT !.phase = "append_pending",
                                                     !.offset = o]
    <3>1. Len(decisions) + 1 \in Nat /\ progress.offset \in Nat
      BY DEF Cursors
    <3>. QED  BY <1>5, <3>1 DEF ReserveAppend
  <2>2. progress' \in Cursors
    BY <2>1 DEF Cursors, Phases
  <2>. QED  BY <1>5, <2>2 DEF ReserveAppend
<1>6. CASE AppendDecision
  <2>1. progress.decision \in Writers
    BY DEF Cursors, Writers
  <2>2. Append(decisions, progress.decision) \in Seq(Writers)
    BY <2>1
  <2>3. decisions' \in Seq(Writers)
    BY <1>6, <2>2 DEF AppendDecision
  <2>. QED  BY <1>6, <2>3 DEF AppendDecision
<1>7. CASE PublishScope
  <2>1. progress.decision \in Decisions
    BY <1>7 DEF PublishScope, CursorAtStep, AfterAppend
  <2>2. Current \in Runs
    BY <2>1 DEF Current
  <2>3. runs' \in [Decisions -> Runs]
    BY <1>7, <2>1, <2>2 DEF PublishScope, LogEvent, Runs
  <2>. QED  BY <1>7, <2>3 DEF PublishScope, LogEvent
<1>8. CASE ReserveRun
  <2>1. progress.decision \in Decisions
    BY <1>8 DEF ReserveRun, CursorAtStep, AfterAppend
  <2>2. Current \in Runs
    BY <2>1 DEF Current
  <2>3. runs' \in [Decisions -> Runs]
    BY <1>8, <2>1, <2>2 DEF ReserveRun, LogEvent, Runs
  <2>. QED  BY <1>8, <2>3 DEF ReserveRun, LogEvent
<1>9. CASE CompleteRun
  <2>1. progress.decision \in Decisions
    BY <1>9 DEF CompleteRun, CursorAtStep, AfterAppend
  <2>2. Current \in Runs
    BY <2>1 DEF Current
  <2>3. runs' \in [Decisions -> Runs]
    BY <1>9, <2>1, <2>2 DEF CompleteRun, LogEvent, Runs
  <2>. QED  BY <1>9, <2>3 DEF CompleteRun, LogEvent
<1>10. ASSUME NEW o \in Outcomes, RecordAttempt(o) PROVE Typed'
  <2>1. progress.decision \in Decisions
    BY <1>10 DEF RecordAttempt, CursorAtStep, AfterAppend
  <2>2. Current \in Runs /\ Append(Current.attempts, o) \in Seq(Outcomes)
    BY <1>10, <2>1 DEF Current, Runs
  <2>3. [Current EXCEPT !.attempts = Append(@, o)] \in Runs
    BY <2>2 DEF Runs
  <2>4. runs' \in [Decisions -> Runs]
    BY <1>10, <2>1, <2>3 DEF RecordAttempt, LogEvent
  <2>. QED  BY <1>10, <2>4 DEF RecordAttempt, LogEvent
<1>11. CASE OpenTicket
  <2>1. \A i \in DOMAIN Due : Due[i] \in Tickets
    BY <1>11, DueTickets DEF OpenTicket
  <2>2. PICK i \in Missing :
            memory' = [memory EXCEPT !.tickets = Append(memory.tickets, Due[i])]
    BY <1>11 DEF OpenTicket
  <2>3. Append(memory.tickets, Due[i]) \in Seq(Tickets)
    BY <2>1, <2>2 DEF Missing, Books
  <2>4. memory' \in Books
    BY <2>2, <2>3 DEF Books
  <2>. QED  BY <1>11, <2>4 DEF OpenTicket
<1>12. CASE Materialized
  BY <1>12 DEF Materialized
<1>13. CASE SaveBook
  <2>1. memory' \in Books
    BY <1>13 DEF SaveBook, Books
  <2>. QED  BY <1>13, <2>1 DEF SaveBook
<1>14. CASE Commit
  <2>1. progress' \in Cursors
    BY <1>14 DEF Commit, Cursors, Phases
  <2>. QED  BY <1>14, <2>1 DEF Commit
<1>15. CASE Refuse
  BY <1>15 DEF Refuse
<1>16. CASE Fault
  <2>1. memory' \in Books
    <3>1. NoBook \in Books
      BY DEF NoBook, Books
    <3>. QED  BY <1>16, <3>1 DEF Fault
  <2>2. pc' \in {"down", "idle"} /\ writerLock' \in BOOLEAN
    BY <1>16 DEF Fault
  <2>. QED  BY <1>16, <2>1, <2>2 DEF Fault
<1>17. ASSUME NEW opens \in BOOLEAN, StrangerPromotes(opens) PROVE Typed'
  <2>1. decisions' \in Seq(Writers)
    <3>1. Stranger \in Writers
      BY ConstantsAssumption DEF Stranger, Writers
    <3>. QED  BY <1>17, <3>1 DEF StrangerPromotes
  <2>2. book' \in Books
    <3>1. StrangersTicket \in Tickets
      BY ConstantsAssumption
      DEF Tickets, Writers, StrangersTicket, Ticket, Stranger
    <3>. QED  BY <1>17, <3>1 DEF StrangerPromotes, Books
  <2>. QED  BY <1>17, <2>1, <2>2 DEF StrangerPromotes
<1>19. ASSUME NEW replaced \in BOOLEAN, NEW decided \in BOOLEAN,
              SaveFault(replaced, decided)
       PROVE  Typed'
  <2>1. NoBook \in Books /\ [memory EXCEPT !.generation = @ + 1] \in Books
    BY DEF NoBook, Books
  <2>2. memory' \in Books /\ book' \in Books /\ pc' \in {"down", "idle"}
    BY <1>19, <2>1 DEF SaveFault
  <2>. QED  BY <1>19, <2>2 DEF SaveFault
<1>20. CASE ReaderLoads
  BY <1>20 DEF ReaderLoads
<1>18. CASE UNCHANGED vars
  BY <1>18 DEF vars
<1>. QED BY <1>1, <1>2, <1>3, <1>4, <1>5, <1>6, <1>7, <1>8, <1>9, <1>10, <1>11,
            <1>12, <1>13, <1>14, <1>15, <1>16, <1>17, <1>18, <1>19,
            <1>20
         DEF Next, LoopStep, Outcomes

(* The cursor.                                                             *)
LEMMA CursorNext ==
    ASSUME Typed, CursorAtStep, [Next]_vars
    PROVE  CursorAtStep'
<1>. USE DEF CursorAtStep, AfterAppend, Unfinished, Locked, Typed, Cursors,
            Decisions, ledgers, books, environment
<1>1. CASE Start
  BY <1>1 DEF Start
<1>2. CASE SaveWitness
  BY <1>2 DEF SaveWitness
<1>3. CASE Recover
  BY <1>3 DEF Recover
<1>4. ASSUME NEW legs \in 0..MaxLegs, WritePending(legs) PROVE CursorAtStep'
  BY <1>4, ConstantsAssumption DEF WritePending
<1>5. CASE ReserveAppend
  BY <1>5 DEF ReserveAppend
<1>6. CASE AppendDecision
  BY <1>6 DEF AppendDecision
<1>7. CASE PublishScope
  BY <1>7 DEF PublishScope, LogEvent
<1>8. CASE ReserveRun
  BY <1>8 DEF ReserveRun, LogEvent
<1>9. CASE CompleteRun
  BY <1>9 DEF CompleteRun, LogEvent
<1>10. ASSUME NEW o \in Outcomes, RecordAttempt(o) PROVE CursorAtStep'
  BY <1>10 DEF RecordAttempt, LogEvent
<1>11. CASE OpenTicket
  BY <1>11 DEF OpenTicket
<1>12. CASE Materialized
  BY <1>12 DEF Materialized
<1>13. CASE SaveBook
  BY <1>13 DEF SaveBook
<1>14. CASE Commit
  BY <1>14 DEF Commit
<1>15. CASE Refuse
  BY <1>15 DEF Refuse
<1>16. CASE Fault
  BY <1>16 DEF Fault
<1>17. ASSUME NEW opens \in BOOLEAN, StrangerPromotes(opens) PROVE CursorAtStep'
  BY <1>17 DEF StrangerPromotes
<1>19. ASSUME NEW replaced \in BOOLEAN, NEW decided \in BOOLEAN,
              SaveFault(replaced, decided)
       PROVE  CursorAtStep'
  BY <1>19 DEF SaveFault
<1>20. CASE ReaderLoads
  BY <1>20 DEF ReaderLoads
<1>18. CASE UNCHANGED vars
  BY <1>18 DEF vars
<1>. QED BY <1>1, <1>2, <1>3, <1>4, <1>5, <1>6, <1>7, <1>8, <1>9, <1>10, <1>11,
            <1>12, <1>13, <1>14, <1>15, <1>16, <1>17, <1>18, <1>19,
            <1>20
         DEF Next, LoopStep, Outcomes

(* The records of the decision ledger.                                     *)
LEMMA RecordNext ==
    ASSUME Typed, CursorAtStep, RecordAtItsPlace, [Next]_vars
    PROVE  RecordAtItsPlace'
<1>. USE DEF RecordAtItsPlace, OncePerDecision, WrittenAt, OwnAt, AfterAppend
<1>1. /\ progress.decision \in Nat /\ progress.offset \in Nat
      /\ decisions \in Seq(Nat) /\ Len(decisions) \in Nat
      /\ pc \in {"append"} \cup AfterAppend =>
            progress.phase = "append_pending" /\ progress.decision # 0
      /\ \A i \in DOMAIN decisions : decisions[i] \in Nat
  BY ConstantsAssumption DEF Typed, Cursors, Writers, CursorAtStep, Decisions
<1>2. CASE Start
  BY <1>2 DEF Start, ledgers
<1>3. CASE SaveWitness
  BY <1>3 DEF SaveWitness, ledgers
<1>4. CASE Recover
  BY <1>4 DEF Recover, ledgers
<1>5. ASSUME NEW legs \in 0..MaxLegs, WritePending(legs) PROVE RecordAtItsPlace'
  <2>1. /\ progress'.decision = progress.decision + 1
        /\ progress'.phase = "pending" /\ progress'.offset = 0
        /\ decisions' = decisions /\ pc' = "plan"
    BY <1>5 DEF WritePending, ledgers
  <2>2. \A i \in DOMAIN decisions : decisions[i] < progress.decision + 1
    BY <1>1
  <2>. QED  BY <1>1, <2>1, <2>2
<1>6. CASE ReserveAppend
  <2>1. PICK o \in {progress.offset, Len(decisions) + 1} :
            /\ progress' = [progress EXCEPT !.phase = "append_pending", !.offset = o]
            /\ \/ o = Len(decisions) + 1
               \/ /\ progress.phase = "append_pending"
                  /\ WrittenAt(progress.offset) => OwnAt(progress.offset)
            /\ o # progress.offset /\ progress.phase = "append_pending" =>
                  WrittenAt(progress.offset) /\ ~OwnAt(progress.offset)
    BY <1>6 DEF ReserveAppend
  <2>2. /\ progress'.phase = "append_pending" /\ progress'.offset = o
        /\ progress'.decision = progress.decision
        /\ decisions' = decisions /\ pc' = "append"
    BY <1>6, <2>1 DEF ReserveAppend, ledgers, Typed, Cursors
  <2>3. progress.phase \in {"pending", "append_pending"}
    BY <1>6 DEF ReserveAppend, CursorAtStep, Unfinished
  <2>4. o > 0 /\ o <= Len(decisions) + 1
    BY <1>1, <2>1, <2>3
  <2>5. \A i \in DOMAIN decisions :
            decisions[i] = progress.decision => i = o
    BY <1>1, <2>1, <2>3
  <2>6. o <= Len(decisions) => decisions[o] = progress.decision
    BY <1>1, <2>1, <2>4
  <2>. QED  BY <1>1, <2>2, <2>4, <2>5, <2>6
<1>7. CASE AppendDecision
  <2>1. progress' = progress /\ pc' \in {"commit", "scope"} /\ pc = "append"
    BY <1>7 DEF AppendDecision
  <2>2. CASE OwnAt(progress.offset)
    BY <1>1, <1>7, <2>1, <2>2 DEF AppendDecision
  <2>3. CASE ~OwnAt(progress.offset)
    <3>1. progress.offset = Len(decisions) + 1
      BY <1>1, <2>1, <2>3
    <3>2. decisions' = Append(decisions, progress.decision)
      BY <1>7, <2>3 DEF AppendDecision
    <3>3. \A i \in DOMAIN decisions : decisions[i] # progress.decision
      BY <1>1, <2>1, <3>1
    <3>. QED  BY <1>1, <2>1, <3>1, <3>2, <3>3
  <2>. QED  BY <2>2, <2>3
<1>8. CASE PublishScope
  BY <1>8 DEF PublishScope, LogEvent
<1>9. CASE ReserveRun
  BY <1>9 DEF ReserveRun, LogEvent
<1>10. CASE CompleteRun
  BY <1>10 DEF CompleteRun, LogEvent
<1>11. ASSUME NEW o \in Outcomes, RecordAttempt(o) PROVE RecordAtItsPlace'
  BY <1>11 DEF RecordAttempt, LogEvent
<1>12. CASE OpenTicket
  BY <1>12 DEF OpenTicket, ledgers
<1>13. CASE Materialized
  BY <1>13 DEF Materialized, ledgers
<1>14. CASE SaveBook
  BY <1>14 DEF SaveBook, ledgers
<1>15. CASE Commit
  <2>1. /\ progress'.phase = "committed" /\ progress'.offset = progress.offset
        /\ progress'.decision = progress.decision
        /\ decisions' = decisions /\ pc' = "idle"
        /\ progress.phase = "append_pending"
    BY <1>1, <1>15 DEF Commit, ledgers, Typed, Cursors
  <2>. QED  BY <1>1, <2>1
<1>16. CASE Refuse
  BY <1>16 DEF Refuse, ledgers
<1>17. CASE Fault
  BY <1>17 DEF Fault
<1>18. ASSUME NEW opens \in BOOLEAN, StrangerPromotes(opens)
       PROVE  RecordAtItsPlace'
  <2>1. /\ decisions' = Append(decisions, 0) /\ progress' = progress /\ pc' = pc
        /\ pc \notin {"append"} \cup AfterAppend
    BY <1>18 DEF StrangerPromotes, Stranger, Locked
  <2>2. progress.phase \in {"pending", "append_pending"} => progress.decision # 0
    BY <1>1 DEF CursorAtStep, Decisions
  <2>. QED  BY <1>1, <2>1, <2>2 DEF Stranger
<1>20. ASSUME NEW replaced \in BOOLEAN, NEW decided \in BOOLEAN,
              SaveFault(replaced, decided)
       PROVE  RecordAtItsPlace'
  BY <1>20 DEF SaveFault, ledgers
<1>21. CASE ReaderLoads
  BY <1>21 DEF ReaderLoads, ledgers
<1>19. CASE UNCHANGED vars
  BY <1>19 DEF vars, ledgers
<1>. QED BY <1>2, <1>3, <1>4, <1>5, <1>6, <1>7, <1>8, <1>9, <1>10, <1>11, <1>12,
            <1>13, <1>14, <1>15, <1>16, <1>17, <1>18, <1>19, <1>20,
            <1>21
         DEF Next, LoopStep, Outcomes

(* What an event of the current run must be for the runs to stay in order. *)
LEMMA RunLogged ==
    ASSUME Typed, CursorAtStep, RunsInOrder, pc \in AfterAppend,
           pc' \in AfterAppend,
           NEW run \in Runs, LogEvent(run),
           Len(run.attempts) <= progress.legs,
           \A i \in DOMAIN run.attempts :
              i < Len(run.attempts) => run.attempts[i] = "accepted",
           run.reserved => progress.decision \in Range(decisions),
           pc' = "attempt" => ~run.completed,
           pc' = "materialize" => run.completed
    PROVE  RunsInOrder'
<1>. USE DEF RunsInOrder, RunsFollowRecords, Current, Unfinished
<1>1. /\ progress.phase = "append_pending" /\ progress.decision \in Decisions
      /\ progress' = progress /\ decisions' = decisions
  BY DEF CursorAtStep, LogEvent
<1>2. /\ progress.decision \in Nat /\ progress.legs \in Nat
      /\ progress.legs <= MaxLegs /\ MaxLegs \in Nat
      /\ Len(run.attempts) \in Nat
      /\ \A d \in Decisions : d \in Nat /\ Len(runs[d].attempts) \in Nat
  BY ConstantsAssumption DEF Typed, Cursors, Runs, Decisions
<1>3. /\ runs'[progress.decision] = run
      /\ \A d \in Decisions \ {progress.decision} : runs'[d] = runs[d]
  BY <1>1 DEF LogEvent, Typed
<1>4. \A d \in Decisions :
          /\ Len(runs'[d].attempts) <= MaxLegs
          /\ \A i \in DOMAIN runs'[d].attempts :
                i < Len(runs'[d].attempts) => runs'[d].attempts[i] = "accepted"
  BY <1>2, <1>3
<1>5. \A d \in Decisions : runs'[d].reserved => d \in Range(decisions)
  BY <1>3
<1>6. \A d \in Decisions : progress.decision < d => runs'[d] = NoRun
  BY <1>1, <1>2, <1>3
<1>. QED  BY <1>1, <1>3, <1>4, <1>5, <1>6

(* The runs.                                                               *)
LEMMA RunsNext ==
    ASSUME Typed, CursorAtStep, RecordAtItsPlace, RunsInOrder, [Next]_vars
    PROVE  RunsInOrder'
<1>. USE DEF RunsInOrder, RunsFollowRecords, Current, Unfinished
<1>1. /\ progress.decision \in Nat /\ progress.legs \in Nat
      /\ progress.legs <= MaxLegs /\ MaxLegs \in Nat
      /\ decisions \in Seq(Writers)
      /\ \A d \in Decisions : d \in Nat /\ Len(runs[d].attempts) \in Nat
      /\ Unfinished => progress.decision \in Decisions
  BY ConstantsAssumption
  DEF Typed, Cursors, Writers, Runs, CursorAtStep, Decisions
<1>2. CASE Start
  BY <1>2 DEF Start, ledgers
<1>3. CASE SaveWitness
  BY <1>3 DEF SaveWitness, ledgers
<1>4. CASE Recover
  BY <1>4 DEF Recover, ledgers
<1>5. ASSUME NEW legs \in 0..MaxLegs, WritePending(legs) PROVE RunsInOrder'
  <2>1. /\ progress'.decision = progress.decision + 1
        /\ progress'.phase = "pending" /\ progress'.legs = legs
        /\ decisions' = decisions /\ runs' = runs /\ pc' = "plan"
    BY <1>5 DEF WritePending, ledgers
  <2>2. progress.decision + 1 \in Decisions
    BY <1>1, <1>5, ConstantsAssumption DEF WritePending, CursorAtStep, Decisions
  <2>3. runs[progress.decision + 1] = NoRun /\ Len(NoRun.attempts) = 0
    BY <1>1, <2>2 DEF NoRun
  <2>. QED  BY <1>1, <2>1, <2>2, <2>3
<1>6. CASE ReserveAppend
  <2>1. /\ progress'.phase = "append_pending" /\ progress'.legs = progress.legs
        /\ progress'.decision = progress.decision
        /\ decisions' = decisions /\ runs' = runs /\ pc' = "append" /\ Unfinished
    BY <1>6 DEF ReserveAppend, ledgers, Typed, Cursors, CursorAtStep
  <2>. QED  BY <1>1, <2>1
<1>7. CASE AppendDecision
  <2>1. Range(decisions) \subseteq Range(decisions')
    <3>1. progress.decision \in Writers
      BY DEF Typed, Cursors, Writers
    <3>. QED  BY <1>1, <1>7, <3>1, RangeAppend DEF AppendDecision
  <2>2. runs' = runs /\ progress' = progress /\ pc' \in {"commit", "scope"}
    BY <1>7 DEF AppendDecision
  <2>. QED  BY <2>1, <2>2
<1>8. CASE PublishScope
  <2>0. progress.phase = "append_pending" /\ progress.decision \in Decisions
        /\ Current \in Runs /\ pc \in AfterAppend
    BY <1>8 DEF PublishScope, CursorAtStep, AfterAppend, Typed
  <2>. DEFINE run == [Current EXCEPT !.scope = TRUE]
  <2>1. run \in Runs
    BY <2>0 DEF Runs
  <2>2. /\ run.attempts = Current.attempts
        /\ run.reserved = Current.reserved
    BY <2>0 DEF Runs
  <2>3. LogEvent(run) /\ pc' = "reserve" /\ pc' \in AfterAppend
    BY <1>8 DEF PublishScope, AfterAppend
  <2>. HIDE DEF run
  <2>. QED  BY <2>0, RunLogged, <2>1, <2>2, <2>3
<1>9. CASE ReserveRun
  <2>0. progress.phase = "append_pending" /\ progress.decision \in Decisions
        /\ Current \in Runs /\ pc \in AfterAppend
    BY <1>9 DEF ReserveRun, CursorAtStep, AfterAppend, Typed
  <2>. DEFINE run == [Current EXCEPT !.reserved = TRUE]
  <2>1. run \in Runs
    BY <2>0 DEF Runs
  <2>2. /\ run.attempts = Current.attempts
        /\ run.completed = Current.completed
    BY <2>0 DEF Runs
  <2>3. /\ LogEvent(run)
        /\ pc' = IF Current.completed THEN "materialize" ELSE "attempt"
        /\ progress.decision \in Range(decisions) /\ pc' \in AfterAppend
    BY <1>9 DEF ReserveRun, Range, AfterAppend
  <2>. HIDE DEF run
  <2>. QED  BY <2>0, RunLogged, <2>1, <2>2, <2>3
<1>10. CASE CompleteRun
  <2>0. progress.phase = "append_pending" /\ progress.decision \in Decisions
        /\ Current \in Runs /\ pc \in AfterAppend
    BY <1>10 DEF CompleteRun, CursorAtStep, AfterAppend, Typed
  <2>. DEFINE run == [Current EXCEPT !.completed = TRUE]
  <2>1. run \in Runs
    BY <2>0 DEF Runs
  <2>2. /\ run.attempts = Current.attempts
        /\ run.reserved = Current.reserved
        /\ run.completed
    BY <2>0 DEF Runs
  <2>3. LogEvent(run) /\ pc' = "materialize" /\ pc' \in AfterAppend
    BY <1>10 DEF CompleteRun, AfterAppend
  <2>. HIDE DEF run
  <2>. QED  BY <2>0, RunLogged, <2>1, <2>2, <2>3
<1>11. ASSUME NEW o \in Outcomes, RecordAttempt(o) PROVE RunsInOrder'
  <2>0. progress.phase = "append_pending" /\ progress.decision \in Decisions
        /\ Current \in Runs /\ pc \in AfterAppend
    BY <1>11 DEF RecordAttempt, CursorAtStep, AfterAppend, Typed
  <2>. DEFINE as == Append(Current.attempts, o)
              run == [Current EXCEPT !.attempts = as]
  <2>1. Current.attempts \in Seq(Outcomes) /\ as \in Seq(Outcomes)
    BY <2>0 DEF Runs
  <2>2. /\ run \in Runs /\ run.attempts = as
        /\ run.reserved = Current.reserved /\ run.completed = Current.completed
    BY <2>0, <2>1 DEF Runs
  <2>3. LogEvent(run) /\ pc = "attempt" /\ pc' = "attempt" /\ ~Terminal
    BY <1>11 DEF RecordAttempt
  <2>4. /\ Len(Current.attempts) < progress.legs
        /\ Current.attempts # <<>> =>
              Current.attempts[Len(Current.attempts)] = "accepted"
    BY <1>1, <2>0, <2>1, <2>3 DEF Terminal, Last
  <2>5. Len(as) <= progress.legs
    BY <1>1, <2>1, <2>4
  <2>6. \A i \in DOMAIN as : i < Len(as) => as[i] = "accepted"
    BY <1>1, <2>0, <2>1, <2>4
  <2>. HIDE DEF run, as
  <2>. QED  BY <2>0, RunLogged, <2>2, <2>3, <2>5, <2>6
<1>12. CASE OpenTicket
  BY <1>12 DEF OpenTicket, ledgers
<1>13. CASE Materialized
  BY <1>13 DEF Materialized, ledgers
<1>14. CASE SaveBook
  BY <1>14 DEF SaveBook, ledgers
<1>15. CASE Commit
  <2>1. /\ progress'.phase = "committed" /\ progress'.legs = progress.legs
        /\ progress'.decision = progress.decision
        /\ decisions' = decisions /\ runs' = runs /\ pc' = "idle"
    BY <1>15 DEF Commit, ledgers, Typed, Cursors
  <2>. QED  BY <1>1, <2>1
<1>16. CASE Refuse
  BY <1>16 DEF Refuse, ledgers
<1>17. CASE Fault
  BY <1>17 DEF Fault
<1>18. ASSUME NEW opens \in BOOLEAN, StrangerPromotes(opens)
       PROVE  RunsInOrder'
  <2>1. Range(decisions) \subseteq Range(decisions')
    <3>1. Stranger \in Writers
      BY ConstantsAssumption DEF Stranger, Writers
    <3>. QED  BY <1>1, <1>18, <3>1, RangeAppend DEF StrangerPromotes
  <2>2. runs' = runs /\ progress' = progress /\ pc' = pc
    BY <1>18 DEF StrangerPromotes
  <2>. QED  BY <2>1, <2>2
<1>20. ASSUME NEW replaced \in BOOLEAN, NEW decided \in BOOLEAN,
              SaveFault(replaced, decided)
       PROVE  RunsInOrder'
  BY <1>20 DEF SaveFault, ledgers
<1>21. CASE ReaderLoads
  BY <1>21 DEF ReaderLoads, ledgers
<1>19. CASE UNCHANGED vars
  BY <1>19 DEF vars, ledgers
<1>. QED BY <1>2, <1>3, <1>4, <1>5, <1>6, <1>7, <1>8, <1>9, <1>10, <1>11, <1>12,
            <1>13, <1>14, <1>15, <1>16, <1>17, <1>18, <1>19, <1>20,
            <1>21
         DEF Next, LoopStep, Outcomes

(* The books.                                                              *)
LEMMA BooksNext ==
    ASSUME Typed, CursorAtStep, BooksInOrder, [Next]_vars
    PROVE  BooksInOrder'
<1>. USE DEF BooksInOrder, Fresh
<1>1. /\ memory.generation \in Nat /\ book.generation \in Nat
      /\ memory.tickets \in Seq(Tickets) /\ book.tickets \in Seq(Tickets)
      /\ memory \in Books /\ book \in Books
      /\ Range(<<>>) = {}
  BY DEF Typed, Books, Range
<1>2. ASSUME UNCHANGED <<mode, book, memory>> PROVE BooksInOrder'
  BY <1>2
<1>3. CASE Start
  BY <1>1, <1>3 DEF Start, environment
<1>4. CASE OpenTicket
  <2>1. PICK i \in Missing :
            memory' = [memory EXCEPT !.tickets = Append(memory.tickets, Due[i])]
    BY <1>4 DEF OpenTicket
  <2>2. Due[i] \in Tickets /\ mode # "shadow"
    BY <1>4, <2>1, DueTickets DEF OpenTicket, Missing
  <2>3. /\ memory'.generation = memory.generation
        /\ memory'.tickets = Append(memory.tickets, Due[i])
    BY <1>1, <2>1 DEF Books
  <2>4. Range(memory'.tickets) = Range(memory.tickets) \cup {Due[i]}
    BY <1>1, <2>2, <2>3, RangeAppend
  <2>5. mode' = mode /\ book' = book
    BY <1>4 DEF OpenTicket, environment
  <2>. QED  BY <2>2, <2>3, <2>4, <2>5
<1>5. CASE SaveBook
  <2>1. /\ memory'.generation = memory.generation + 1
        /\ memory'.tickets = memory.tickets /\ book' = memory' /\ mode' = mode
    BY <1>1, <1>5 DEF SaveBook, Books, environment
  <2>. QED  BY <1>1, <2>1
<1>6. CASE Fault
  <2>1. memory' \in {memory, NoBook} /\ book' = book /\ mode' = mode
    BY <1>6 DEF Fault
  <2>2. NoBook.generation = 0 /\ NoBook.tickets = <<>>
    BY DEF NoBook
  <2>3. CASE memory' = NoBook
    BY <1>1, <2>1, <2>2, <2>3
  <2>. QED  BY <2>1, <2>3
<1>7. ASSUME NEW opens \in BOOLEAN, StrangerPromotes(opens) PROVE BooksInOrder'
  <2>1. CASE opens
    <3>1. StrangersTicket \in Tickets
      BY ConstantsAssumption
      DEF Tickets, Writers, StrangersTicket, Ticket, Stranger
    <3>2. /\ book'.generation = book.generation + 1
          /\ book'.tickets = Append(book.tickets, StrangersTicket)
          /\ memory' = memory /\ mode' = mode
      BY <1>7, <2>1 DEF StrangerPromotes
    <3>3. Range(book'.tickets) = Range(book.tickets) \cup {StrangersTicket}
      BY <1>1, <3>1, <3>2, RangeAppend
    <3>. QED  BY <1>1, <3>2, <3>3
  <2>2. CASE ~opens
    BY <1>7, <2>2 DEF StrangerPromotes
  <2>. QED  BY <2>1, <2>2
<1>8. CASE \/ SaveWitness \/ Recover \/ ReserveAppend \/ AppendDecision
           \/ Materialized \/ Commit \/ Refuse
  BY <1>2, <1>8 DEF SaveWitness, Recover, ReserveAppend, AppendDecision,
                    Materialized, Commit, Refuse, books, environment
<1>9. CASE \/ PublishScope \/ ReserveRun \/ CompleteRun
           \/ \E o \in Outcomes : RecordAttempt(o)
           \/ \E legs \in 0..MaxLegs : WritePending(legs)
  BY <1>2, <1>9 DEF PublishScope, ReserveRun, CompleteRun, RecordAttempt,
                    WritePending, LogEvent, books, environment
<1>11. ASSUME NEW replaced \in BOOLEAN, NEW decided \in BOOLEAN,
              SaveFault(replaced, decided)
       PROVE  BooksInOrder'
  <2>1. NoBook.generation = 0 /\ NoBook.tickets = <<>>
    BY DEF NoBook
  <2>2. memory' \in {memory, NoBook} /\ mode' = mode
    BY <1>11 DEF SaveFault
  <2>3. CASE replaced
    <3>1. /\ book'.generation = memory.generation + 1
          /\ book'.tickets = memory.tickets
          /\ memory.generation = book.generation
      BY <1>1, <1>11, <2>3 DEF SaveFault, Books
    <3>. QED  BY <1>1, <2>1, <2>2, <3>1
  <2>4. CASE ~replaced
    <3>1. book' = book
      BY <1>11, <2>4 DEF SaveFault
    <3>2. CASE memory' = NoBook
      BY <1>1, <2>1, <2>2, <3>1, <3>2
    <3>. QED  BY <2>2, <3>1, <3>2
  <2>. QED  BY <2>3, <2>4
<1>12. CASE ReaderLoads
  BY <1>2, <1>12 DEF ReaderLoads, environment
<1>10. CASE UNCHANGED vars
  BY <1>2, <1>10 DEF vars, books
<1>. QED  BY <1>3, <1>4, <1>5, <1>6, <1>7, <1>8, <1>9, <1>10, <1>11,
             <1>12
          DEF Next, LoopStep, Outcomes

(* A ticket keeps the run behind it while completed runs stay as they are. *)
LEMMA BackedKept ==
    ASSUME NEW ts, NEW rs, NEW qs, Backed(ts, rs),
           \A d \in Decisions : rs[d].completed =>
                qs[d].completed /\ qs[d].attempts = rs[d].attempts
    PROVE  Backed(ts, qs)
BY DEF Backed, Given

(* A ticket with a run behind it, opened once, leaves all of them so.      *)
LEMMA BackedAppend ==
    ASSUME NEW ts \in Seq(Tickets), NEW t \in Tickets, NEW rs, Backed(ts, rs),
           \/ t = StrangersTicket
           \/ /\ t \notin Range(ts) /\ t.decision \in Decisions
              /\ rs[t.decision].completed /\ t.leg \in Given(rs[t.decision])
    PROVE  Backed(Append(ts, t), rs)
<1>1. /\ DOMAIN Append(ts, t) = DOMAIN ts \cup {Len(ts) + 1}
      /\ \A i \in DOMAIN ts : Append(ts, t)[i] = ts[i]
      /\ Append(ts, t)[Len(ts) + 1] = t
  OBVIOUS
<1>2. t # StrangersTicket => \A i \in DOMAIN ts : ts[i] # t
  BY DEF Range
<1>3. ASSUME NEW i \in DOMAIN ts, ts[i] # StrangersTicket,
             NEW j \in DOMAIN Append(ts, t), Append(ts, t)[j] = ts[i]
      PROVE  j = i
  <2>1. ts[i] # t
    BY <1>2, <1>3
  <2>. QED  BY <1>1, <1>3, <2>1 DEF Backed
<1>4. ASSUME NEW j \in DOMAIN Append(ts, t), Append(ts, t)[j] = t,
             t # StrangersTicket
      PROVE  j = Len(ts) + 1
  BY <1>1, <1>2, <1>4
<1>. QED  BY <1>1, <1>3, <1>4 DEF Backed

(* What an event of the current run must be for exposure to stay in order. *)
LEMMA ExposureLogged ==
    ASSUME IInv, pc \in AfterAppend, NEW run, LogEvent(run),
           Current.completed => run.completed /\ run.attempts = Current.attempts,
           pc' \notin {"save", "commit"}
    PROVE  ExposureInOrder'
<1>1. /\ progress.decision \in Decisions /\ progress.decision \in Nat
      /\ Unfinished /\ ExposureInOrder /\ runs \in [Decisions -> Runs]
  BY DEF IInv, Typed, Cursors, CursorAtStep, Unfinished, AfterAppend
<1>2. /\ runs' = [runs EXCEPT ![progress.decision] = run]
      /\ progress' = progress /\ decisions' = decisions /\ book' = book
      /\ memory' = memory /\ mode' = mode
  BY DEF LogEvent, books, environment
<1>3. /\ runs'[progress.decision] = run
      /\ \A d \in Decisions \ {progress.decision} : runs'[d] = runs[d]
  BY <1>1, <1>2
<1>4. \A d \in Decisions : runs[d].completed =>
          runs'[d].completed /\ runs'[d].attempts = runs[d].attempts
  BY <1>1, <1>3 DEF Current
<1>5. Backed(book.tickets, runs') /\ Backed(memory.tickets, runs')
  BY <1>1, <1>4, BackedKept DEF ExposureInOrder
<1>6. \A d \in 1..progress.decision : d < progress.decision =>
          d \in Decisions /\ runs'[d] = runs[d]
  BY <1>1, <1>3, ConstantsAssumption DEF Decisions
<1>. QED  BY <1>1, <1>2, <1>5, <1>6 DEF ExposureInOrder, Held, Unfinished

(* The exposure.                                                           *)
LEMMA ExposureNext ==
    ASSUME IInv, [Next]_vars
    PROVE  ExposureInOrder'
<1>. USE DEF ExposureInOrder, Held
<1>1. /\ progress.decision \in Nat
      /\ memory.tickets \in Seq(Tickets) /\ book.tickets \in Seq(Tickets)
      /\ memory \in Books /\ book \in Books
      /\ decisions \in Seq(Writers)
      /\ pc \in AfterAppend => /\ Unfinished /\ progress.decision \in Decisions
                               /\ progress.phase = "append_pending"
      /\ ExposureInOrder
  BY DEF IInv, Typed, Books, Cursors, CursorAtStep, Unfinished
<1>2. CASE Start
  BY <1>1, <1>2 DEF Start, environment, ledgers, Unfinished
<1>3. CASE SaveWitness \/ Recover \/ Refuse
  BY <1>1, <1>3
  DEF SaveWitness, Recover, Refuse, books, environment, ledgers, Unfinished
<1>4. ASSUME NEW legs \in 0..MaxLegs, WritePending(legs) PROVE ExposureInOrder'
  <2>1. /\ progress'.decision = progress.decision + 1
        /\ progress'.phase = "pending" /\ pc' = "plan" /\ mode' = mode
        /\ UNCHANGED <<decisions, runs, book, memory>>
    BY <1>4 DEF WritePending, ledgers, books, environment
  <2>2. ~Unfinished
    BY <1>4 DEF WritePending, IInv, CursorAtStep
  <2>3. \A d \in 1..progress.decision + 1 :
            d < progress.decision + 1 => d \in 1..progress.decision
    BY <1>1
  <2>. QED  BY <1>1, <2>1, <2>2, <2>3 DEF Unfinished
<1>5. CASE ReserveAppend
  <2>1. /\ progress'.decision = progress.decision
        /\ progress'.phase = "append_pending" /\ pc' = "append" /\ mode' = mode
        /\ UNCHANGED <<decisions, runs, book, memory>>
    BY <1>5 DEF ReserveAppend, ledgers, books, environment, IInv, Typed, Cursors
  <2>2. Unfinished
    BY <1>5 DEF ReserveAppend, IInv, CursorAtStep, Unfinished
  <2>. QED  BY <1>1, <2>1, <2>2 DEF Unfinished
<1>6. CASE AppendDecision
  <2>1. /\ pc' = (IF progress.legs = 0 THEN "commit" ELSE "scope") /\ mode' = mode
        /\ UNCHANGED <<progress, runs, book, memory>>
    BY <1>6 DEF AppendDecision, books, environment
  <2>2. Range(decisions) \subseteq Range(decisions')
    <3>1. progress.decision \in Writers
      BY DEF IInv, Typed, Cursors, Writers
    <3>. QED  BY <1>1, <1>6, <3>1, RangeAppend DEF AppendDecision
  <2>3. progress.legs = 0 => Given(runs[progress.decision]) = {}
    <3>1. progress.decision \in Decisions /\ Unfinished
      BY <1>6 DEF AppendDecision, IInv, CursorAtStep, Unfinished
    <3>2. runs[progress.decision].attempts \in Seq(Outcomes)
      BY <3>1 DEF IInv, Typed, Runs
    <3>3. progress.legs = 0 => Len(runs[progress.decision].attempts) = 0
      BY <3>1, <3>2 DEF IInv, RunsInOrder, Current
    <3>. QED  BY <3>2, <3>3 DEF Given
  <2>. QED  BY <1>1, <2>1, <2>2, <2>3 DEF Unfinished
<1>7. CASE PublishScope
  <2>1. /\ Current \in Runs /\ pc \in AfterAppend
    BY <1>1, <1>7 DEF PublishScope, AfterAppend, Current, IInv, Typed
  <2>2. LogEvent([Current EXCEPT !.scope = TRUE]) /\ pc' = "reserve"
    BY <1>7 DEF PublishScope
  <2>3. /\ [Current EXCEPT !.scope = TRUE].attempts = Current.attempts
        /\ [Current EXCEPT !.scope = TRUE].completed = Current.completed
    BY <2>1 DEF Runs
  <2>. QED  BY ExposureLogged, <2>1, <2>2, <2>3
<1>8. CASE ReserveRun
  <2>1. /\ Current \in Runs /\ pc \in AfterAppend
    BY <1>1, <1>8 DEF ReserveRun, AfterAppend, Current, IInv, Typed
  <2>2. LogEvent([Current EXCEPT !.reserved = TRUE])
        /\ pc' \in {"materialize", "attempt"}
    BY <1>8 DEF ReserveRun
  <2>3. /\ [Current EXCEPT !.reserved = TRUE].attempts = Current.attempts
        /\ [Current EXCEPT !.reserved = TRUE].completed = Current.completed
    BY <2>1 DEF Runs
  <2>. QED  BY ExposureLogged, <2>1, <2>2, <2>3
<1>9. CASE CompleteRun
  <2>1. /\ Current \in Runs /\ pc \in AfterAppend
    BY <1>1, <1>9 DEF CompleteRun, AfterAppend, Current, IInv, Typed
  <2>2. LogEvent([Current EXCEPT !.completed = TRUE]) /\ pc' = "materialize"
    BY <1>9 DEF CompleteRun
  <2>3. /\ [Current EXCEPT !.completed = TRUE].attempts = Current.attempts
        /\ [Current EXCEPT !.completed = TRUE].completed
    BY <2>1 DEF Runs
  <2>. QED  BY ExposureLogged, <2>1, <2>2, <2>3
<1>10. ASSUME NEW o \in Outcomes, RecordAttempt(o) PROVE ExposureInOrder'
  <2>1. LogEvent([Current EXCEPT !.attempts = Append(@, o)])
        /\ pc = "attempt" /\ pc' = pc
    BY <1>10 DEF RecordAttempt
  <2>2. ~Current.completed
    BY <2>1 DEF IInv, RunsInOrder
  <2>3. pc \in AfterAppend
    BY <2>1 DEF AfterAppend
  <2>. QED  BY ExposureLogged, <2>1, <2>2, <2>3
<1>11. CASE OpenTicket
  <2>1. PICK i \in Missing :
            memory' = [memory EXCEPT !.tickets = Append(memory.tickets, Due[i])]
    BY <1>11 DEF OpenTicket
  <2>2. /\ Due[i] \in Tickets /\ Due[i] \notin Range(memory.tickets)
        /\ Due[i].decision = progress.decision
        /\ progress.decision \in Decisions
        /\ Due[i].leg \in Given(runs[progress.decision])
    BY <1>11, <2>1, DueTickets DEF OpenTicket, Missing, IInv
  <2>3. runs[progress.decision].completed
    BY <1>11 DEF OpenTicket, IInv, RunsInOrder, Current
  <2>4. memory'.tickets = Append(memory.tickets, Due[i])
    BY <1>1, <2>1 DEF Books
  <2>5. Backed(memory'.tickets, runs)
    BY <1>1, <2>2, <2>3, <2>4, BackedAppend
  <2>6. /\ pc = "materialize" /\ pc' = pc /\ mode' = mode
        /\ UNCHANGED <<progress, decisions, runs, book>>
    BY <1>11 DEF OpenTicket, ledgers, environment
  <2>. QED  BY <1>1, <2>5, <2>6 DEF Unfinished
<1>12. CASE Materialized
  <2>1. /\ pc = "materialize" /\ Missing = {} /\ mode' = mode
        /\ pc' = (IF Due = <<>> THEN "commit" ELSE "save")
        /\ UNCHANGED <<progress, decisions, runs, book, memory>>
    BY <1>12 DEF Materialized, ledgers, books, environment
  <2>2. /\ progress.decision \in Decisions
        /\ mode = "paper" => DOMAIN Due = Given(runs[progress.decision])
        /\ \A i \in DOMAIN Due : Due[i] = Ticket(progress.decision, i)
    BY <2>1, DueTickets DEF IInv
  <2>3. \A i \in DOMAIN Due : Due[i] \in Range(memory.tickets)
    BY <2>1 DEF Missing
  <2>4. Due = <<>> => DOMAIN Due = {}
    OBVIOUS
  <2>. QED  BY <1>1, <2>1, <2>2, <2>3, <2>4 DEF Unfinished
<1>13. CASE SaveBook
  <2>1. /\ pc = "save" /\ pc' = "commit" /\ mode' = mode
        /\ memory'.tickets = memory.tickets /\ book' = memory'
        /\ UNCHANGED <<progress, decisions, runs>> /\ Fresh
    BY <1>1, <1>13 DEF SaveBook, Books, ledgers, environment
  <2>2. Range(book.tickets) \subseteq Range(memory.tickets)
    BY <2>1 DEF Fresh, IInv, BooksInOrder
  <2>. QED  BY <1>1, <2>1, <2>2 DEF Unfinished
<1>14. CASE Commit
  <2>1. /\ progress'.decision = progress.decision
        /\ pc = "commit" /\ pc' = "idle" /\ mode' = mode
        /\ UNCHANGED <<decisions, runs, book, memory>>
    BY <1>14 DEF Commit, ledgers, books, environment, IInv, Typed, Cursors
  <2>2. progress.decision \in Range(decisions)
    <3>1. OwnAt(progress.offset) /\ progress.offset > 0 /\ progress.offset \in Nat
      BY <2>1 DEF IInv, RecordAtItsPlace, AfterAppend, CursorAtStep, Typed, Cursors
    <3>2. progress.offset \in DOMAIN decisions
      BY <1>1, <3>1 DEF OwnAt, WrittenAt
    <3>. QED  BY <3>1, <3>2 DEF OwnAt, Range
  <2>3. Unfinished
    BY <1>1, <2>1 DEF AfterAppend
  <2>. QED  BY <1>1, <2>1, <2>2, <2>3
<1>15. CASE Fault
  <2>1. /\ memory' \in {memory, NoBook} /\ pc' \in {"idle", "down"} /\ mode' = mode
        /\ UNCHANGED <<progress, decisions, runs, book>>
    BY <1>15 DEF Fault
  <2>2. Backed(NoBook.tickets, runs)
    BY DEF Backed, NoBook
  <2>. QED  BY <1>1, <2>1, <2>2 DEF Unfinished
<1>16. ASSUME NEW opens \in BOOLEAN, StrangerPromotes(opens)
       PROVE  ExposureInOrder'
  <2>1. /\ pc' = pc /\ mode' = mode /\ pc \notin {"save", "commit"}
        /\ UNCHANGED <<progress, runs, memory>>
        /\ decisions' = Append(decisions, Stranger)
        /\ \/ book' = book
           \/ book'.tickets = Append(book.tickets, StrangersTicket)
    BY <1>16 DEF StrangerPromotes, Locked
  <2>2. StrangersTicket \in Tickets /\ Stranger \in Writers
    BY ConstantsAssumption
    DEF Tickets, Writers, StrangersTicket, Ticket, Stranger
  <2>3. Range(decisions) \subseteq Range(decisions')
    BY <1>1, <2>1, <2>2, RangeAppend
  <2>4. Backed(book'.tickets, runs)
    BY <1>1, <2>1, <2>2, BackedAppend
  <2>5. Range(book.tickets) \subseteq Range(book'.tickets)
    <3>1. Range(Append(book.tickets, StrangersTicket))
            = Range(book.tickets) \cup {StrangersTicket}
      BY <1>1, <2>2, RangeAppend
    <3>. QED  BY <2>1, <3>1
  <2>. QED  BY <1>1, <2>1, <2>3, <2>4, <2>5 DEF Unfinished
<1>18. ASSUME NEW replaced \in BOOLEAN, NEW decided \in BOOLEAN,
              SaveFault(replaced, decided)
       PROVE  ExposureInOrder'
  <2>1. /\ memory' \in {memory, NoBook} /\ pc' \in {"idle", "down"} /\ mode' = mode
        /\ UNCHANGED <<progress, decisions, runs>>
    BY <1>18 DEF SaveFault, ledgers
  <2>2. Backed(NoBook.tickets, runs)
    BY DEF Backed, NoBook
  <2>3. book'.tickets \in {book.tickets, memory.tickets}
    BY <1>1, <1>18 DEF SaveFault, Books
  <2>4. Range(book.tickets) \subseteq Range(memory.tickets)
    BY <1>18 DEF SaveFault, Fresh, IInv, BooksInOrder
  <2>. QED  BY <1>1, <2>1, <2>2, <2>3, <2>4 DEF Unfinished
<1>19. CASE ReaderLoads
  BY <1>1, <1>19 DEF ReaderLoads, ledgers, environment, Unfinished
<1>17. CASE UNCHANGED vars
  BY <1>1, <1>17 DEF vars, ledgers, books, Unfinished
<1>. QED  BY <1>2, <1>3, <1>4, <1>5, <1>6, <1>7, <1>8, <1>9, <1>10, <1>11, <1>12,
             <1>13, <1>14, <1>15, <1>16, <1>17, <1>18, <1>19
          DEF Next, LoopStep, Outcomes

-----------------------------------------------------------------------------
(* The invariant holds in the beginning.                                   *)
LEMMA InitInvariant == Init => IInv
<1>. SUFFICES ASSUME Init PROVE IInv
  OBVIOUS
<1>1. NoRun \in Runs /\ NoBook \in Books /\ NoProgress \in Cursors
  BY ConstantsAssumption
  DEF NoRun, Runs, Books, NoBook, NoProgress, Cursors, Phases
<1>2. Typed
  <2>1. <<>> \in Seq(Tickets) /\ <<>> \in Seq(Writers)
    OBVIOUS
  <2>2. runs \in [Decisions -> Runs]
    BY <1>1 DEF Init
  <2>3. pc \in Locked \cup {"down", "idle", "plan", "replan"}
    BY DEF Init
  <2>. QED  BY <1>1, <2>1, <2>2, <2>3 DEF Init, Typed
<1>3. CursorAtStep /\ ~Unfinished
  BY DEF Init, NoProgress, CursorAtStep, Unfinished, AfterAppend
<1>4. RecordAtItsPlace
  BY DEF Init, NoProgress, RecordAtItsPlace, OncePerDecision, AfterAppend
<1>5. RunsInOrder
  <2>1. \A d \in Decisions : runs[d] = NoRun
    BY DEF Init
  <2>2. NoRun.attempts = <<>> /\ ~NoRun.reserved
    BY DEF NoRun
  <2>. QED  BY <1>3, <2>1, <2>2, ConstantsAssumption
            DEF Init, NoProgress, RunsInOrder, RunsFollowRecords
<1>6. BooksInOrder /\ ExposureInOrder
  <2>1. /\ book = NoBook /\ memory = NoBook /\ pc = "down" /\ progress.decision = 0
        /\ NoBook.tickets = <<>> /\ NoBook.generation = 0
    BY DEF Init, NoBook, NoProgress
  <2>2. Range(<<>>) = {}
    BY DEF Range
  <2>. QED  BY <2>1, <2>2 DEF BooksInOrder, ExposureInOrder, Backed
<1>. QED  BY <1>2, <1>3, <1>4, <1>5, <1>6 DEF IInv

(* Every step keeps it.                                                    *)
LEMMA NextInvariant == IInv /\ [Next]_vars => IInv'
<1>. SUFFICES ASSUME IInv, [Next]_vars PROVE IInv'
  OBVIOUS
<1>. QED  BY TypedNext, CursorNext, RecordNext, RunsNext, BooksNext, ExposureNext
          DEF IInv

(* It says enough for the type invariant,                                  *)
LEMMA TypeOKFromInvariant == IInv => TypeOK
<1>. SUFFICES ASSUME IInv PROVE TypeOK
  OBVIOUS
<1>1. /\ progress.phase \in Phases /\ progress.decision \in 0..MaxDecisions
      /\ progress.offset \in Nat /\ progress.offset <= Len(decisions) + 1
      /\ decisions \in Seq(Writers) /\ Len(decisions) \in Nat
  BY DEF IInv, Typed, Cursors, RecordAtItsPlace
<1>2. Range(decisions) \subseteq Decisions \cup {Stranger}
  <2>1. Range(decisions) \subseteq Writers
    BY <1>1 DEF Range
  <2>. QED  BY <2>1, ConstantsAssumption DEF Writers, Decisions, Stranger
<1>. QED  BY <1>1, <1>2 DEF IInv, Typed, RecordAtItsPlace, RunsInOrder, TypeOK

(* and for the safety invariant.                                           *)
LEMMA ExposureFromInvariant == IInv => ExposureFollowsEvidence
<1>. SUFFICES ASSUME IInv PROVE ExposureFollowsEvidence
  OBVIOUS
<1>1. ASSUME NEW b \in Books, Backed(b.tickets, runs) PROVE TicketsFollowAttempts(b)
  <2>. SUFFICES ASSUME NEW i \in DOMAIN b.tickets,
                       b.tickets[i] # StrangersTicket
                PROVE  /\ runs[b.tickets[i].decision].completed
                       /\ b.tickets[i] \in Range(Accepted(b.tickets[i].decision))
                       /\ \A j \in DOMAIN b.tickets :
                             b.tickets[j] = b.tickets[i] => j = i
    BY DEF TicketsFollowAttempts
  <2>. DEFINE t == b.tickets[i]
  <2>1. /\ t.decision \in Decisions /\ runs[t.decision].completed
        /\ t.leg \in Given(runs[t.decision])
        /\ \A j \in DOMAIN b.tickets : b.tickets[j] = t => j = i
    BY <1>1 DEF Backed
  <2>2. t \in Tickets
    BY <1>1 DEF Books
  <2>3. t = Ticket(t.decision, t.leg)
    BY <2>2 DEF Tickets, Ticket
  <2>4. /\ t.leg \in DOMAIN Accepted(t.decision)
        /\ Accepted(t.decision)[t.leg] = t
    BY <2>1, <2>3, AcceptedTickets DEF IInv
  <2>. QED  BY <2>1, <2>4 DEF Range
<1>2. ASSUME NEW d \in 1..progress.decision, d \in Range(decisions),
             Held(d, runs, book.tickets)
      PROVE  Published(d)
  <2>1. d \in Decisions
    BY ConstantsAssumption DEF IInv, Typed, Cursors, Decisions
  <2>2. /\ DOMAIN Accepted(d) = Given(runs[d])
        /\ \A i \in DOMAIN Accepted(d) : Accepted(d)[i] = Ticket(d, i)
    BY <2>1, AcceptedTickets DEF IInv
  <2>. QED  BY <1>2, <2>2 DEF Published, Held, Range
<1>. QED  BY <1>1, <1>2 DEF IInv, Typed, RecordAtItsPlace, RunsInOrder,
             BooksInOrder, ExposureInOrder, ExposureFollowsEvidence

(* In every reachable state the cursor, the ledgers and the books are in   *)
(* order, whatever died or interfered between two durable writes.          *)
THEOREM Invariant == Spec => []IInv
BY InitInvariant, NextInvariant, PTL DEF Spec

(* The durable state always has the form its validators accept.            *)
THEOREM TypeCorrect == Spec => []TypeOK
BY Invariant, TypeOKFromInvariant, PTL

(* A decision has one record, a run follows it, a ticket follows an        *)
(* accepted attempt of a completed run and is its only one, and the        *)
(* exposure of every finished decision is durable (_persist_plan,          *)
(* _materialize_attempt).                                                  *)
THEOREM ExposureHasEvidence == Spec => []ExposureFollowsEvidence
BY Invariant, ExposureFromInvariant, PTL

(* No step, of the loop or of another writer, takes a ticket out of the    *)
(* durable book: _require_bound_book keeps a loop that decided on an older *)
(* book from saving over what came in since.                               *)
THEOREM NoTicketIsLost ==
    Spec => [][Range(book.tickets) \subseteq Range(book'.tickets)]_vars
<1>1. ASSUME IInv, [Next]_vars
      PROVE  Range(book.tickets) \subseteq Range(book'.tickets)
  <2>. USE DEF environment, ledgers, books
  <2>1. /\ memory \in Books /\ book.tickets \in Seq(Tickets)
    BY <1>1 DEF IInv, Typed, Books
  <2>2. CASE SaveBook
    <3>1. book'.tickets = memory.tickets
      BY <2>1, <2>2 DEF SaveBook, Books
    <3>. QED  BY <1>1, <2>2, <3>1 DEF SaveBook, Fresh, IInv, BooksInOrder
  <2>3. ASSUME NEW opens \in BOOLEAN, StrangerPromotes(opens)
        PROVE  Range(book.tickets) \subseteq Range(book'.tickets)
    <3>1. StrangersTicket \in Tickets
      BY ConstantsAssumption
      DEF Tickets, Writers, StrangersTicket, Ticket, Stranger
    <3>2. Range(Append(book.tickets, StrangersTicket))
            = Range(book.tickets) \cup {StrangersTicket}
      BY <2>1, <3>1, RangeAppend
    <3>3. book' = book \/ book'.tickets = Append(book.tickets, StrangersTicket)
      BY <2>3 DEF StrangerPromotes
    <3>. QED  BY <3>2, <3>3
  <2>4. ASSUME NEW replaced \in BOOLEAN, NEW decided \in BOOLEAN,
               SaveFault(replaced, decided)
        PROVE  Range(book.tickets) \subseteq Range(book'.tickets)
    <3>1. book'.tickets \in {book.tickets, memory.tickets}
      BY <2>1, <2>4 DEF SaveFault, Books
    <3>. QED  BY <1>1, <2>4, <3>1 DEF SaveFault, Fresh, IInv, BooksInOrder
  <2>5. /\ ~SaveBook /\ (\A opens \in BOOLEAN : ~StrangerPromotes(opens))
        /\ \A replaced, decided \in BOOLEAN : ~SaveFault(replaced, decided)
        => book' = book
    BY <1>1 DEF Next, LoopStep, Start, SaveWitness, Recover, WritePending,
       ReserveAppend, AppendDecision, PublishScope, ReserveRun, CompleteRun,
       RecordAttempt, LogEvent, OpenTicket, Materialized, Commit, Refuse, Fault,
       ReaderLoads, vars
  <2>. QED  BY <2>2, <2>3, <2>4, <2>5
<1>. QED  BY <1>1, Invariant, PTL DEF Spec

=============================================================================
