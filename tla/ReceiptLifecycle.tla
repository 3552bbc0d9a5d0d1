-------------------------- MODULE ReceiptLifecycle --------------------------
(***************************************************************************)
(* What SupervisedConfirmationAuthority promises to the code that places   *)
(* bets: for every decision, reviews one after another until one of them   *)
(* is confirmed in time, then one receipt, then at most one consumption of *)
(* it before the deadline of its review, on a clock that never goes back.  *)
(* ConfirmationJournal implements it with a journal, a checkpoint and the  *)
(* monotonic authority, under crashes and restored backups.                *)
(***************************************************************************)
EXTENDS Naturals

CONSTANTS
    Decisions,  \* what operators confirm
    MaxTime,    \* bound: instants of the clock
    Ttl         \* how long a review stays open

VARIABLES
    stage,      \* how far each decision has come
    deadline,   \* the end of its current review
    now         \* the newest instant anyone has been told

vars == <<stage, deadline, now>>

Init ==
    /\ stage = [d \in Decisions |-> "none"]
    /\ deadline = [d \in Decisions |-> 0]
    /\ now = 0

ClockAdvances ==
    /\ now' \in now + 1..MaxTime
    /\ UNCHANGED <<stage, deadline>>

Review(d) ==
    /\ now' \in now..MaxTime
    /\ \/ stage[d] = "none"
       \/ stage[d] = "reviewed" /\ now' >= deadline[d]
    /\ stage' = [stage EXCEPT ![d] = "reviewed"]
    /\ deadline' = [deadline EXCEPT ![d] = now' + Ttl]

Confirm(d) ==
    /\ stage[d] = "reviewed" /\ now < deadline[d]
    /\ stage' = [stage EXCEPT ![d] = "confirmed"]
    /\ UNCHANGED <<deadline, now>>

Consume(d) ==
    /\ stage[d] = "confirmed" /\ now < deadline[d]
    /\ stage' = [stage EXCEPT ![d] = "consumed"]
    /\ UNCHANGED <<deadline, now>>

Next ==
    \/ ClockAdvances
    \/ \E d \in Decisions : Review(d) \/ Confirm(d) \/ Consume(d)

Spec == Init /\ [][Next]_vars

=============================================================================
