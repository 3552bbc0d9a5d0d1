---------------------------- MODULE LiveDecision ----------------------------
(***************************************************************************)
(* PersistentLiveDecisionLoop and the PaperExecutionAdoptionRuntime it     *)
(* drives: how one live decision becomes durable.  A cycle writes, in this *)
(* order, a copy of the book it decides on (the witness), the progress     *)
(* cursor PENDING, the cursor APPEND_PENDING with a place in the decision  *)
(* ledger, the decision record, the events of the execution run, the book  *)
(* with one ticket for each accepted attempt, and the cursor COMMITTED.    *)
(* The process may die, or a call of it raise, between any two of these    *)
(* writes; the next cycle takes the unfinished decision up again.          *)
(*                                                                         *)
(* The economic lock is held while the witness and PENDING are written and *)
(* from APPEND_PENDING to COMMITTED.  Whenever it is free, another writer  *)
(* of the workspace may promote decision records and tickets of its own.   *)
(***************************************************************************)
EXTENDS Naturals, Sequences, SequencesExt

CONSTANTS
    MaxDecisions,  \* bound: decisions the loop begins
    MaxLegs,       \* most actions with a stake in one plan
    MaxFaults,     \* bound: process deaths and raised calls
    MaxStrangers   \* bound: promotions by another writer

ASSUME ConstantsAssumption ==
    /\ MaxDecisions \in Nat /\ MaxLegs \in Nat
    /\ MaxFaults \in Nat /\ MaxStrangers \in Nat

VARIABLES
    mode,       \* "paper" publishes exposure, "shadow" does not
    witness,    \* tickets of the pre-action book
    progress,   \* the durable cursor
    decisions,  \* the decision ledger: who wrote each record
    runs,       \* the execution ledger's events of each decision's run
    writerLock, \* the execution ledger was left in the middle of an append
    book,       \* the durable book: its generation and its tickets
    undecided,  \* its newest generation is prepared, not committed or aborted
    memory,     \* the loop's book
    pc,         \* the durable step the loop takes next
    faults, strangers

vars == <<mode, witness, progress, decisions, runs, writerLock, book,
          undecided, memory, pc, faults, strangers>>
ledgers == <<decisions, runs, writerLock>>
books == <<book, undecided, memory>>
environment == <<mode, faults, strangers>>

Decisions == 1..MaxDecisions
Stranger == 0
NoBook == [generation |-> 0, tickets |-> <<>>]
NoRun == [scope |-> FALSE, reserved |-> FALSE, attempts |-> <<>>,
          completed |-> FALSE]
NoProgress == [phase |-> "none", decision |-> 0, legs |-> 0, context |-> <<>>,
               offset |-> 0]

Init ==
    /\ mode \in {"paper", "shadow"}
    /\ witness = <<>>
    /\ progress = NoProgress
    /\ decisions = <<>>
    /\ runs = [d \in Decisions |-> NoRun]
    /\ writerLock = FALSE
    /\ book = NoBook
    /\ undecided = FALSE
    /\ memory = NoBook
    /\ pc = "down"
    /\ faults = 0 /\ strangers = 0

-----------------------------------------------------------------------------
(* What the steps decide on.                                               *)

Phases == {"none", "pending", "append_pending", "committed"}
Unfinished == progress.phase \in {"pending", "append_pending"}
Current == runs[progress.decision]

(* A ticket names the attempt it was opened for: its decision and action.  *)
Ticket(d, i) == [decision |-> d, leg |-> i]
StrangersTicket == Ticket(Stranger, 0)

(* The tickets that a run's attempts give, in their order: only the last   *)
(* attempt of a run can be refused, so that this is a sequence.            *)
Accepted(d) ==
    [i \in {k \in DOMAIN runs[d].attempts : runs[d].attempts[k] # "refused"}
        |-> Ticket(d, i)]

(* _derive_run_economics: the first outcome that is not ACCEPTED ends it.  *)
Terminal ==
    LET a == Current.attempts
    IN  \/ Len(a) = progress.legs
        \/ a # <<>> /\ Last(a) # "accepted"

(* _require_bound_book: a book loaded from the file is still the newest,   *)
(* and no save of it is left undecided.                                    *)
Fresh == ~undecided /\ memory.generation = book.generation

(* The record at a reserved place; none when the place is the ledger's end.*)
WrittenAt(offset) == offset <= Len(decisions)
OwnAt(offset) == WrittenAt(offset) /\ decisions[offset] = progress.decision

(* Mutant: only the witness itself is taken for a book to resume from.     *)
RecoverableOnlyBefore == memory.tickets = witness

(* assert_recoverable_book_state: the loop's book is the witness, or the   *)
(* witness and then exactly the tickets of the run's accepted attempts.    *)
Recoverable ==
    \/ memory.tickets = witness
    \/ /\ mode = "paper"
       /\ Current.reserved
       /\ memory.tickets = witness \o Accepted(progress.decision)

CommittedIsBound == progress.phase = "committed" => OwnAt(progress.offset)

-----------------------------------------------------------------------------
(* The process starts: the constructor reads the cursor and loads the book,*)
(* which decides a save that was left undecided.                           *)

Start ==
    /\ pc = "down"
    /\ CommittedIsBound
    /\ memory' = book /\ undecided' = FALSE
    /\ pc' = "idle"
    /\ UNCHANGED <<witness, progress, ledgers, book, environment>>

(* run_cycle up to _write_pending's first write, when nothing is unfinished.*)
SaveWitness ==
    /\ pc = "idle" /\ ~Unfinished /\ progress.decision < MaxDecisions
    /\ Fresh
    /\ witness' = memory.tickets
    /\ pc' = "cursor"
    /\ UNCHANGED <<progress, ledgers, books, environment>>

(* The market gives a plan of so many actions with a stake; none in a      *)
(* provider gap.  The cursor identifies market and book, hence the plan.   *)
WritePending(legs) ==
    /\ pc = "cursor"
    /\ progress' = [phase |-> "pending", decision |-> progress.decision + 1,
                    legs |-> legs, context |-> memory.tickets, offset |-> 0]
    /\ pc' = "plan"
    /\ UNCHANGED <<witness, ledgers, books, environment>>

(* _recover_unfinished_progress: the plan is the durable record's, or is   *)
(* built again from the witness.                                           *)
Recover ==
    /\ pc = "idle" /\ Unfinished
    /\ progress.context = witness
    /\ progress.phase = "pending" => memory.tickets = witness
    /\ progress.phase = "append_pending" =>
          (WrittenAt(progress.offset) => OwnAt(progress.offset))
    /\ pc' = "replan"
    /\ UNCHANGED <<witness, progress, ledgers, books, environment>>

(* A plan without a stake has no execution to prove a changed book right,  *)
(* and a plan just made is checked against the durable book; one made again*)
(* in recovery is not.                                                     *)
Preparable ==
    /\ progress.legs = 0 => memory.tickets = witness
    /\ pc = "plan" => Fresh

(* Mutant: the end of the ledger is taken one record too far.              *)
ReservePastTheEnd ==
    /\ pc \in {"plan", "replan"} /\ Preparable
    /\ progress' = [progress EXCEPT !.phase = "append_pending",
                                    !.offset = Len(decisions) + 2]
    /\ pc' = "append"
    /\ UNCHANGED <<witness, ledgers, books, environment>>

(* _persist_plan takes the lock and reserves the end of the ledger, again  *)
(* when the place it had was taken.                                        *)
ReserveAppend ==
    LET kept == progress.phase = "append_pending"
                /\ (WrittenAt(progress.offset) => OwnAt(progress.offset))
    IN  /\ pc \in {"plan", "replan"} /\ Preparable
        /\ progress' = [progress EXCEPT !.phase = "append_pending",
                          !.offset = IF kept THEN @ ELSE Len(decisions) + 1]
        /\ pc' = "append"
        /\ UNCHANGED <<witness, ledgers, books, environment>>

AppendDecision ==
    /\ pc = "append"
    /\ decisions' = IF OwnAt(progress.offset) THEN decisions
                    ELSE Append(decisions, progress.decision)
    /\ pc' = IF progress.legs = 0 THEN "commit" ELSE "scope"
    /\ UNCHANGED <<witness, progress, runs, writerLock, books, environment>>

-----------------------------------------------------------------------------
(* PaperExecutionAdoptionRuntime.execute.  An event's key is recorded once,*)
(* so that a step of a resumed run leaves what is there.                   *)

LogEvent(event) ==
    /\ runs' = [runs EXCEPT ![progress.decision] = event]
    /\ UNCHANGED <<witness, progress, decisions, writerLock, books, environment>>

PublishScope ==
    /\ pc = "scope" /\ Recoverable /\ ~writerLock
    /\ LogEvent([Current EXCEPT !.scope = TRUE])
    /\ pc' = "reserve"

(* The reservation is bound to the durable record it executes.             *)
ReserveRun ==
    /\ pc = "reserve"
    /\ \E i \in DOMAIN decisions : decisions[i] = progress.decision
    /\ LogEvent([Current EXCEPT !.reserved = TRUE])
    /\ pc' = IF Current.completed THEN "materialize" ELSE "attempt"

RecordAttempt(outcome) ==
    /\ pc = "attempt" /\ ~Terminal
    /\ LogEvent([Current EXCEPT !.attempts = Append(@, outcome)])
    /\ UNCHANGED pc

CompleteRun ==
    /\ pc = "attempt" /\ Terminal
    /\ LogEvent([Current EXCEPT !.completed = TRUE])
    /\ pc' = "materialize"

Due == IF mode = "paper" THEN Accepted(progress.decision) ELSE <<>>

(* Mutant: the attempt's marker is looked for in the book before the plan. *)
MissingInWitness == {i \in DOMAIN Due : Due[i] \notin Range(witness)}

(* The attempts whose ticket is yet to be opened: a ticket that carries the*)
(* attempt's marker is taken for its exposure.                             *)
Missing == {i \in DOMAIN Due : Due[i] \notin Range(memory.tickets)}

(* _materialize_attempt, one attempt after another, in memory; open_ticket *)
(* refuses a book that is no longer the newest.                            *)
OpenTicket ==
    /\ pc = "materialize" /\ Fresh
    /\ \E i \in Missing :
          /\ \A j \in Missing : i <= j
          /\ memory' = [memory EXCEPT !.tickets = Append(@, Due[i])]
    /\ UNCHANGED <<witness, progress, ledgers, book, undecided, pc, environment>>

Materialized ==
    /\ pc = "materialize" /\ Missing = {}
    /\ pc' = IF Due = <<>> THEN "commit" ELSE "save"
    /\ UNCHANGED <<witness, progress, ledgers, books, environment>>

SaveBook ==
    /\ pc = "save" /\ Fresh
    /\ memory' = [memory EXCEPT !.generation = @ + 1]
    /\ book' = memory'
    /\ pc' = "commit"
    /\ UNCHANGED <<witness, progress, ledgers, undecided, environment>>

Commit ==
    /\ pc = "commit"
    /\ progress' = [progress EXCEPT !.phase = "committed"]
    /\ pc' = "idle"
    /\ UNCHANGED <<witness, ledgers, books, environment>>

(* A check of the step fails: the call raises and the lock is released.    *)
Refuse ==
    /\ \/ pc \in {"plan", "replan"} /\ ~Preparable
       \/ pc = "scope" /\ (~Recoverable \/ writerLock)
       \/ pc = "materialize" /\ Missing # {} /\ ~Fresh
       \/ pc = "save" /\ ~Fresh
    /\ pc' = "idle"
    /\ UNCHANGED <<witness, progress, ledgers, books, environment>>

-----------------------------------------------------------------------------
(* Faults, the other writer, and readers.                                  *)

Appending == {"scope", "reserve", "attempt", "materialize"}
Locked == {"cursor", "append", "scope", "reserve", "attempt", "materialize",
           "save", "commit"}

(* The process dies, or the step's call raises before its write.  Inside an*)
(* append to the execution ledger the writer lock, or an event without its *)
(* anchor, may stay behind, and every later append is refused.             *)
Fault ==
    /\ pc # "down" /\ faults < MaxFaults
    /\ faults' = faults + 1
    /\ \E left \in BOOLEAN :
          /\ left => pc \in Appending
          /\ writerLock' = (writerLock \/ left)
    /\ \/ pc' = "down" /\ memory' = NoBook
       \/ pc \notin {"idle", "down"} /\ pc' = "idle" /\ UNCHANGED memory
    /\ UNCHANGED <<mode, witness, progress, decisions, runs, book, undecided,
                   strangers>>

(* PaperBook.save fails half-way: its generation is prepared, maybe the new*)
(* file is in place, maybe the generation is committed.  The loop's book   *)
(* keeps the generation it was loaded with.                                *)
SaveFault(replaced, decided) ==
    /\ pc = "save" /\ Fresh /\ faults < MaxFaults
    /\ faults' = faults + 1
    /\ decided => replaced
    /\ book' = IF replaced THEN [memory EXCEPT !.generation = @ + 1] ELSE book
    /\ undecided' = ~decided
    /\ \/ pc' = "down" /\ memory' = NoBook
       \/ pc' = "idle" /\ UNCHANGED memory
    /\ UNCHANGED <<mode, witness, progress, ledgers, strangers>>

(* Any load of the durable book, in whatever process, commits an undecided *)
(* save whose file is in place and aborts one whose file is not.           *)
ReaderLoads ==
    /\ undecided /\ undecided' = FALSE
    /\ UNCHANGED <<witness, progress, ledgers, book, memory, pc, environment>>

(* A transaction of another process promotes a decision, maybe a ticket.   *)
StrangerPromotes(opens) ==
    /\ pc \notin Locked /\ strangers < MaxStrangers
    /\ strangers' = strangers + 1
    /\ decisions' = Append(decisions, Stranger)
    /\ book' = IF opens
               THEN [generation |-> book.generation + 1,
                     tickets |-> Append(book.tickets, StrangersTicket)]
               ELSE book
    /\ undecided' = (undecided /\ ~opens)
    /\ UNCHANGED <<mode, witness, progress, runs, writerLock, memory, pc, faults>>

LoopStep ==
    \/ Start \/ SaveWitness \/ Recover
    \/ \E legs \in 0..MaxLegs : WritePending(legs)
    \/ ReserveAppend \/ AppendDecision
    \/ PublishScope \/ ReserveRun \/ CompleteRun
    \/ \E outcome \in {"accepted", "partial", "refused"} : RecordAttempt(outcome)
    \/ OpenTicket \/ Materialized \/ SaveBook \/ Commit \/ Refuse

Next ==
    \/ LoopStep
    \/ Fault
    \/ \E replaced, decided \in BOOLEAN : SaveFault(replaced, decided)
    \/ ReaderLoads
    \/ \E opens \in BOOLEAN : StrangerPromotes(opens)

(* The loop is run again, in the process or in the one that replaces it.   *)
Spec == Init /\ [][Next]_vars /\ WF_vars(LoopStep)

-----------------------------------------------------------------------------
(* Properties.                                                             *)

(* The type of the state: what a reader may assume of the cursor, the      *)
(* ledgers and the books that the code's validators accept.                *)
TypeOK ==
    /\ mode \in {"paper", "shadow"}
    /\ progress.phase \in Phases
    /\ progress.decision \in 0..MaxDecisions
    /\ progress.offset \in 0..(Len(decisions) + 1)
    /\ progress.phase \in {"append_pending", "committed"} => progress.offset > 0
    /\ Range(decisions) \subseteq Decisions \cup {Stranger}
    /\ \A d \in Decisions : Len(runs[d].attempts) <= MaxLegs
    /\ undecided \in BOOLEAN
    /\ pc \in Locked \cup {"down", "idle", "plan", "replan"}

OncePerDecision ==
    \A i, j \in DOMAIN decisions :
        decisions[i] = decisions[j] /\ decisions[i] # Stranger => i = j

RunsFollowRecords ==
    \A d \in Decisions :
        runs[d].reserved => d \in Range(decisions)

TicketsFollowAttempts(b) ==
    \A i \in DOMAIN b.tickets : LET t == b.tickets[i] IN
        t # StrangersTicket =>
            /\ runs[t.decision].completed
            /\ t \in Range(Accepted(t.decision))
            /\ \A j \in DOMAIN b.tickets : b.tickets[j] = t => j = i

Published(d) ==
    /\ d \in Range(decisions)
    /\ mode = "paper" => Range(Accepted(d)) \subseteq Range(book.tickets)

(* Whatever dies or interferes: a decision has one record; its run follows *)
(* the record; a ticket, in the file or in memory, follows an accepted     *)
(* attempt of a completed run and is the only one for it; a shadow loop    *)
(* opens none; and every decision but an unfinished one has all of its     *)
(* exposure in the durable book (_persist_plan's order of writes).         *)
ExposureFollowsEvidence ==
    /\ OncePerDecision
    /\ RunsFollowRecords
    /\ TicketsFollowAttempts(book) /\ TicketsFollowAttempts(memory)
    /\ mode = "shadow" => Range(book.tickets) \subseteq {StrangersTicket}
    /\ \A d \in 1..progress.decision :
          d < progress.decision \/ ~Unfinished => Published(d)

(* A call raised between two tickets: until the process is replaced, its   *)
(* book is neither the one before the plan nor the one after it.           *)
BetweenTickets ==
    pc = "idle" /\ Unfinished /\ Missing \notin {{}, DOMAIN Due}

(* A save raised half-way: until the process is replaced, or a reader has  *)
(* aborted the generation that was prepared, open_ticket and save refuse   *)
(* the loop's book.                                                        *)
SaveInDoubt == pc = "idle" /\ Unfinished /\ ~Fresh

(* A decision begun is committed, whatever steps the process died between, *)
(* a half-way save among them, unless another writer came in, the execution*)
(* ledger was left in the middle of an append, or the loop runs on with a  *)
(* book in memory that is between two tickets, or that a raised save left  *)
(* behind the file (the resumption that _recover_unfinished_progress and   *)
(* assert_recoverable_book_state promise).                                 *)
BegunDecisionsCommit ==
    Unfinished ~> \/ ~Unfinished
                  \/ strangers > 0 \/ writerLock
                  \/ BetweenTickets \/ SaveInDoubt

(* "PaperBook changed before durable decision" stops the loop: a decision  *)
(* is recorded only while the durable book is the one it was made on.      *)
NoDecisionOnChangedBook ==
    [][progress.decision \in Range(decisions') \ Range(decisions) =>
          book.tickets = witness]_vars

=============================================================================
