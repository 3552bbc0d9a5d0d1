---------------------- MODULE ConfirmationJournalProofs ----------------------
(***************************************************************************)
(* Machine-checked proofs about ConfirmationJournal, for every number of   *)
(* decisions, instants, records, crashes and restored backups: its types,  *)
(* that what an operation returned is permanent, that crashes alone never  *)
(* leave a workspace the next operation rejects, and that every commit is  *)
(* a step of ReceiptLifecycle.  The inductive invariant says where the     *)
(* files and the authority stand at each step of an operation (AtStep),    *)
(* that what is prepared follows what is committed (Prepares), what the    *)
(* committed journal may look like (WellFormed), and, while no backup was  *)
(* restored, that the files are on one side of a commit (FilesFollow).     *)
(***************************************************************************)
EXTENDS ConfirmationJournal, JournalLemmas

Journals == {j \in Seq(Record) : Len(j) <= MaxRecords}
States == [journal : Journals, high : 0..MaxTime]
Workspaces == [journal : Journals, torn : BOOLEAN, checkpoint : States]
Authorities == [bound : BOOLEAN, committed : States, pending : States]
Operations ==
    [at : {"idle", "ensure", "check", "clock", "clock write", "clock commit",
           "act", "prepare", "append", "checkpoint", "commit"},
     kind : {"none", "open", "review", "confirm", "resolve", "consume"},
     review : 0..MaxRecords, now : 0..MaxTime, next : States]

Typed ==
    /\ files \in Workspaces /\ backup \in Workspaces
    /\ authority \in Authorities
    /\ op \in Operations
    /\ returned \subseteq States
    /\ rejected \in BOOLEAN
    /\ crashes \in 0..MaxCrashes /\ restores \in 0..MaxRestores

\* What one commit may change: the clock's high water, or one record at the
\* instant that becomes the high water.
Ticks(s, t) == t.journal = s.journal /\ s.high < t.high

Reviews(s, e) ==
    /\ e.kind = "review" /\ s.high <= e.at
    /\ CanReview(s.journal, e.decision, e.at)

Records(s, e, kind) ==
    /\ e.kind = kind /\ e.at = s.high
    /\ e.review \in Of(s.journal, "review")
    /\ e.decision = s.journal[e.review].decision
    /\ e.at < Expires(s.journal, e.review)

Appends(s, t) ==
    \E e \in Record :
        /\ t.journal = Append(s.journal, e) /\ t.high = e.at
        /\ \/ Reviews(s, e)
           \/ Records(s, e, "confirm") /\ CanConfirm(s.journal, e.review)
           \/ Records(s, e, "consume") /\ CanConsume(s.journal, e.review)

Follows(s, t) == Ticks(s, t) \/ Appends(s, t)

\* The committed history: instants in order and not past the high water,
\* receipts and consumptions of reviews, one receipt for a decision.
WellFormed(s) ==
    LET j == s.journal
    IN  /\ \A i, k \in DOMAIN j : i <= k => j[i].at <= j[k].at
        /\ \A i \in DOMAIN j : j[i].at <= s.high
        /\ \A i \in Of(j, "confirm") \cup Of(j, "consume") :
              /\ j[i].review \in Of(j, "review")
              /\ j[j[i].review].decision = j[i].decision
        /\ \A i, k \in Of(j, "confirm") : j[i].decision = j[k].decision => i = k
        /\ \A i \in Of(j, "consume") : ConfirmedBy(j, j[i].review)
        /\ \A d \in Decisions : ReviewsOf(j, d) # {} =>
              \E r \in ReviewsOf(j, d) : \A q \in ReviewsOf(j, d) : q <= r

Pending == authority.pending # NoState
Current == files.checkpoint = authority.committed
           /\ files.journal = authority.committed.journal

BeforeRecord == {"ensure", "check", "clock", "clock write", "clock commit", "act"}

\* Where files and authority stand while an operation holds the lock.
AtStep ==
    /\ op.at # "idle" => op.kind # "none"
    /\ op.at \notin {"idle", "ensure"} => op.kind # "open"
    /\ op.at = "ensure" => files.checkpoint.journal = files.journal
    /\ op.at \in BeforeRecord =>
          /\ op.kind \in {"review", "confirm", "consume"} =>
                Len(files.journal) < MaxRecords
          /\ op.kind \in {"confirm", "resolve", "consume"} =>
                op.review \in Of(files.journal, "review")
    /\ op.at \in {"clock", "clock write", "clock commit", "act"} => Checks
    /\ op.at \in {"check", "clock", "act", "prepare"} => Current /\ ~Pending
    /\ op.at \in {"clock write", "append"} =>
          Current /\ Pending /\ authority.pending = op.next
    /\ op.at \in {"clock commit", "checkpoint", "commit"} =>
          /\ Pending /\ authority.pending = op.next
          /\ files.journal = op.next.journal
          /\ op.at # "checkpoint" => files.checkpoint = op.next

\* What an operation is about to write follows what is committed.
Prepares ==
    /\ Pending => Follows(authority.committed, authority.pending)
    /\ op.at \in {"clock", "clock write", "clock commit"} =>
          Ticks(authority.committed, op.next) /\ op.next.high = op.now
    /\ op.at \in {"prepare", "append", "checkpoint", "commit"} =>
          Appends(authority.committed, op.next)
    /\ op.at \in {"clock", "clock write", "clock commit", "act"} => op.now \in Times
    /\ op.at = "act" =>
          /\ authority.committed.high <= op.now
          /\ op.kind # "review" => op.now = authority.committed.high

Extends(s, t) == IsPrefix(s.journal, t.journal) /\ s.high <= t.high

\* Without a restored backup the files are what was committed, what is about
\* to be, or the new journal with the old checkpoint.
FilesFollow ==
    restores = 0 =>
        /\ ~rejected
        /\ \/ Current
           \/ /\ Pending
              /\ files.journal = authority.pending.journal
              /\ files.checkpoint \in {authority.committed, authority.pending}

Bound == ~authority.bound => authority.committed = NoState /\ ~Pending

IInv ==
    /\ Typed
    /\ WellFormed(authority.committed)
    /\ AtStep
    /\ Prepares
    /\ Bound
    /\ FilesFollow
    /\ \A s \in returned : Extends(s, authority.committed)

-----------------------------------------------------------------------------
(* The types of a state's parts.                                           *)

\* Instants are natural numbers, and a record is one of the three kinds.
LEMMA RecordTypes ==
    /\ \A e \in Record : e.at \in Nat /\ e.kind \in {"review", "confirm", "consume"}
                        /\ e.review \in Nat /\ e.decision \in Decisions
    /\ \A s \in States :
          /\ s.journal \in Seq(Record) /\ Len(s.journal) \in Nat
          /\ s.high \in Nat
          /\ DOMAIN s.journal = 1..Len(s.journal)
          /\ \A i \in DOMAIN s.journal :
                /\ s.journal[i] \in Record
                /\ s.journal[i].at \in Nat
                /\ s.journal[i].decision \in Decisions
<1>1. Times \subseteq Nat /\ 1..MaxRecords \subseteq Nat /\ 0..MaxTime \subseteq Nat
  BY ConstantsAssumption DEF Times
<1>2. \A e \in Record : e.at \in Nat /\ e.kind \in {"review", "confirm", "consume"}
                        /\ e.review \in Nat /\ e.decision \in Decisions
  BY <1>1 DEF Record
<1>3. ASSUME NEW s \in States
      PROVE  /\ s.journal \in Seq(Record) /\ Len(s.journal) \in Nat
             /\ s.high \in Nat
             /\ DOMAIN s.journal = 1..Len(s.journal)
             /\ \A i \in DOMAIN s.journal :
                   /\ s.journal[i] \in Record
                   /\ s.journal[i].at \in Nat
                   /\ s.journal[i].decision \in Decisions
  <2>1. s.journal \in Seq(Record) /\ s.high \in Nat
    BY <1>1, <1>3 DEF States, Journals
  <2>2. \A i \in DOMAIN s.journal : s.journal[i] \in Record
    BY <2>1
  <2>. QED  BY <1>2, <2>1, <2>2
<1>. QED  BY <1>2, <1>3

-----------------------------------------------------------------------------
(* Prefixes, and the history that a commit extends.                        *)

\* To extend a state is a partial order, as far as it is needed.
LEMMA ExtendsOrder ==
    ASSUME NEW s \in States
    PROVE  /\ Extends(s, s)
           /\ \A t, u \in States : Extends(s, t) /\ Extends(t, u) => Extends(s, u)
<1>1. \A t \in States : t.journal \in Seq(Record) /\ t.high \in Nat
                        /\ Len(t.journal) \in Nat
  BY ConstantsAssumption DEF States, Journals
<1>2. Extends(s, s)
  BY <1>1, PrefixOrder DEF Extends
<1>3. ASSUME NEW t \in States, NEW u \in States, Extends(s, t), Extends(t, u)
      PROVE  Extends(s, u)
  <2>1. s.high <= u.high
    BY <1>1, <1>3 DEF Extends
  <2>2. IsPrefix(s.journal, u.journal)
    BY <1>1, <1>3, PrefixOrder DEF Extends
  <2>. QED  BY <2>1, <2>2 DEF Extends
<1>. QED  BY <1>2, <1>3

\* What a record adds to the journal.
LEMMA Appended ==
    ASSUME NEW j \in Seq(Record), NEW e \in Record
    PROVE  /\ Append(j, e) \in Seq(Record) /\ Len(Append(j, e)) = Len(j) + 1
           /\ Len(j) \in Nat /\ DOMAIN j = 1..Len(j)
           /\ DOMAIN Append(j, e) = DOMAIN j \cup {Len(j) + 1}
           /\ Len(j) + 1 \notin DOMAIN j
           /\ \A i \in DOMAIN j : Append(j, e)[i] = j[i]
           /\ Append(j, e)[Len(j) + 1] = e
           /\ \A kind : Of(Append(j, e), kind) =
                Of(j, kind) \cup (IF e.kind = kind THEN {Len(j) + 1} ELSE {})
           /\ \A kind : Of(j, kind) \subseteq DOMAIN j
<1>1. /\ Append(j, e) \in Seq(Record) /\ Len(Append(j, e)) = Len(j) + 1
      /\ Len(j) \in Nat /\ DOMAIN j = 1..Len(j)
      /\ DOMAIN Append(j, e) = DOMAIN j \cup {Len(j) + 1}
      /\ Len(j) + 1 \notin DOMAIN j
      /\ \A i \in DOMAIN j : Append(j, e)[i] = j[i]
      /\ Append(j, e)[Len(j) + 1] = e
  BY AppendMeaning
<1>2. \A kind : Of(Append(j, e), kind) =
         Of(j, kind) \cup (IF e.kind = kind THEN {Len(j) + 1} ELSE {})
  BY <1>1 DEF Of
<1>. QED  BY <1>1, <1>2 DEF Of

\* A commit extends what was committed, is a state of its own, and carries
\* no instant past its high water.
LEMMA FollowsExtends ==
    ASSUME NEW s \in States, NEW t \in States, Follows(s, t)
    PROVE  /\ Extends(s, t) /\ t # NoState
           /\ t.journal = s.journal \/ LastInstant(t.journal) = t.high
<1>1. /\ s.journal \in Seq(Record) /\ s.high \in Nat /\ t.high \in Nat
      /\ t.journal \in Seq(Record)
  BY ConstantsAssumption DEF States, Journals
<1>2. CASE Ticks(s, t)
  <2>1. IsPrefix(s.journal, t.journal)
    BY <1>1, <1>2, PrefixOrder DEF Ticks
  <2>. QED  BY <1>1, <1>2, <2>1 DEF Ticks, Extends, NoState
<1>3. CASE Appends(s, t)
  <2>1. PICK e \in Record : /\ t.journal = Append(s.journal, e) /\ t.high = e.at
                            /\ s.high <= e.at
    BY <1>1, <1>3 DEF Appends, Reviews, Records
  <2>2. IsPrefix(s.journal, t.journal)
    BY <1>1, <2>1, AppendMeaning
  <2>3. t.journal # <<>> /\ Last(t.journal) = e
    BY <1>1, <2>1, Appended DEF Last
  <2>. QED  BY <1>1, <2>1, <2>2, <2>3 DEF Extends, NoState, LastInstant
<1>. QED  BY <1>2, <1>3 DEF Follows

\* A review is the latest of its decision once it is appended; the latest of
\* another decision stays what it was.
LEMMA LatestAppended ==
    ASSUME NEW j \in Seq(Record), NEW e \in Record
    PROVE  /\ e.kind = "review" =>
                /\ ReviewsOf(Append(j, e), e.decision)
                     = ReviewsOf(j, e.decision) \cup {Len(j) + 1}
                /\ LatestReview(Append(j, e), e.decision) = Len(j) + 1
           /\ \A d \in Decisions : (e.kind # "review" \/ e.decision # d) =>
                /\ ReviewsOf(Append(j, e), d) = ReviewsOf(j, d)
                /\ LatestReview(Append(j, e), d) = LatestReview(j, d)
<1>1. \A d \in Decisions : (e.kind # "review" \/ e.decision # d) =>
          ReviewsOf(Append(j, e), d) = ReviewsOf(j, d)
  BY Appended DEF ReviewsOf
<1>2. ASSUME e.kind = "review"
      PROVE  /\ ReviewsOf(Append(j, e), e.decision)
                   = ReviewsOf(j, e.decision) \cup {Len(j) + 1}
             /\ LatestReview(Append(j, e), e.decision) = Len(j) + 1
  <2>. DEFINE R == ReviewsOf(Append(j, e), e.decision)
  <2>1. R = ReviewsOf(j, e.decision) \cup {Len(j) + 1}
    BY <1>2, Appended DEF ReviewsOf
  <2>2. \A r \in R : r \in Nat /\ r <= Len(j) + 1
    BY <2>1, Appended DEF ReviewsOf, Of
  <2>3. Len(j) + 1 \in R
    BY <2>1
  <2>4. \A r \in R : (\A q \in R : q <= r) => r = Len(j) + 1
    <3>. SUFFICES ASSUME NEW r \in R, \A q \in R : q <= r
                  PROVE  r = Len(j) + 1
      OBVIOUS
    <3>1. Len(j) + 1 <= r /\ r <= Len(j) + 1 /\ r \in Nat /\ Len(j) + 1 \in Nat
      BY <2>2, <2>3
    <3>. QED  BY <3>1
  <2>. HIDE DEF R
  <2>5. (CHOOSE r \in R : \A q \in R : q <= r) = Len(j) + 1
    BY <2>2, <2>3, <2>4
  <2>. QED  BY <2>1, <2>5 DEF LatestReview, R
<1>. QED  BY <1>1, <1>2 DEF LatestReview

\* What a commit leaves is well formed again.
LEMMA FollowsWellFormed ==
    ASSUME NEW s \in States, NEW t \in States, WellFormed(s), Follows(s, t)
    PROVE  WellFormed(t)
<1>1. /\ s.journal \in Seq(Record) /\ s.high \in Nat /\ t.high \in Nat
      /\ \A i \in DOMAIN s.journal : s.journal[i].at \in Nat
  BY RecordTypes
<1>2. CASE Ticks(s, t)
  BY <1>1, <1>2 DEF Ticks, WellFormed
<1>3. CASE Appends(s, t)
  <2>. DEFINE j == s.journal
              n == Len(s.journal) + 1
  <2>1. PICK e \in Record :
          /\ t.journal = Append(j, e) /\ t.high = e.at
          /\ \/ Reviews(s, e)
             \/ Records(s, e, "confirm") /\ CanConfirm(j, e.review)
             \/ Records(s, e, "consume") /\ CanConsume(j, e.review)
    BY <1>3 DEF Appends
  <2>2. s.high <= e.at /\ e.at \in Nat
    BY <1>1, <2>1, ConstantsAssumption DEF Reviews, Records, Record, Times
  <2>3. \A i, k \in DOMAIN t.journal : i <= k => t.journal[i].at <= t.journal[k].at
    BY <1>1, <2>1, <2>2, Appended DEF WellFormed
  <2>4. \A i \in DOMAIN t.journal : t.journal[i].at <= t.high
    BY <1>1, <2>1, <2>2, Appended DEF WellFormed
  <2>5. /\ \A i \in Of(j, "confirm") \cup Of(j, "consume") : j[i].review \in DOMAIN j
        /\ \A kind : Of(j, kind) \subseteq Of(t.journal, kind)
    BY <1>1, <2>1, Appended DEF WellFormed, Of
  <2>6. \A i \in Of(t.journal, "confirm") \cup Of(t.journal, "consume") :
          /\ t.journal[i].review \in Of(t.journal, "review")
          /\ t.journal[t.journal[i].review].decision = t.journal[i].decision
    <3>. SUFFICES ASSUME NEW i \in Of(t.journal, "confirm") \cup Of(t.journal, "consume")
                  PROVE  /\ t.journal[i].review \in Of(t.journal, "review")
                         /\ t.journal[t.journal[i].review].decision
                              = t.journal[i].decision
      OBVIOUS
    <3>1. CASE i \in DOMAIN j
      <4>1. i \in Of(j, "confirm") \cup Of(j, "consume") /\ t.journal[i] = j[i]
        BY <1>1, <2>1, <3>1, Appended DEF Of
      <4>. QED  BY <1>1, <2>1, <2>5, <4>1, Appended DEF WellFormed
    <3>2. CASE i = n
      <4>1. t.journal[i] = e /\ e.kind \in {"confirm", "consume"}
        BY <1>1, <2>1, <3>2, Appended DEF Of
      <4>2. e.review \in Of(j, "review") /\ e.decision = j[e.review].decision
        BY <2>1, <4>1 DEF Records, Reviews
      <4>. QED  BY <1>1, <2>1, <2>5, <4>1, <4>2, Appended
    <3>. QED  BY <1>1, <2>1, <3>1, <3>2, Appended DEF Of
  <2>7. \A i, k \in Of(t.journal, "confirm") :
          t.journal[i].decision = t.journal[k].decision => i = k
    <3>1. e.kind = "confirm" => \A i \in Of(j, "confirm") : j[i].decision # e.decision
      BY <2>1 DEF Records, Reviews, CanConfirm, HasReceipt
    <3>. QED  BY <1>1, <2>1, <3>1, Appended DEF WellFormed, Of
  <2>8. \A i \in Of(t.journal, "consume") :
          ConfirmedBy(t.journal, t.journal[i].review)
    <3>1. \A r : ConfirmedBy(j, r) => ConfirmedBy(t.journal, r)
      BY <1>1, <2>1, <2>5, Appended DEF ConfirmedBy
    <3>2. e.kind = "consume" => ConfirmedBy(j, e.review)
      BY <2>1 DEF Records, Reviews, CanConsume
    <3>. QED  BY <1>1, <2>1, <3>1, <3>2, Appended DEF WellFormed, Of
  <2>9. \A d \in Decisions : ReviewsOf(t.journal, d) # {} =>
          \E r \in ReviewsOf(t.journal, d) : \A q \in ReviewsOf(t.journal, d) : q <= r
    <3>. SUFFICES ASSUME NEW d \in Decisions, ReviewsOf(t.journal, d) # {}
                  PROVE  \E r \in ReviewsOf(t.journal, d) :
                            \A q \in ReviewsOf(t.journal, d) : q <= r
      OBVIOUS
    <3>1. CASE e.kind = "review" /\ e.decision = d
      <4>1. ReviewsOf(t.journal, d) = ReviewsOf(j, d) \cup {n}
        BY <1>1, <2>1, <3>1, LatestAppended
      <4>2. n \in Nat /\ \A q \in ReviewsOf(j, d) : q <= n
        BY <1>1, Appended DEF ReviewsOf, Of
      <4>3. n \in ReviewsOf(t.journal, d)
        BY <4>1
      <4>4. \A q \in ReviewsOf(t.journal, d) : q <= n
        BY <4>1, <4>2
      <4>. HIDE DEF n
      <4>. QED  BY <4>3, <4>4
    <3>2. CASE e.kind # "review" \/ e.decision # d
      <4>1. ReviewsOf(t.journal, d) = ReviewsOf(j, d)
        BY <1>1, <2>1, <3>2, LatestAppended
      <4>. QED  BY <4>1 DEF WellFormed
    <3>. QED  BY <3>1, <3>2
  <2>. QED  BY <2>3, <2>4, <2>6, <2>7, <2>8, <2>9 DEF WellFormed
<1>. QED  BY <1>2, <1>3 DEF Follows


-----------------------------------------------------------------------------
(* The lifecycle of a decision, as the journal tells it.                   *)

HasConsumption(j, d) == \E i \in Of(j, "consume") : j[i].decision = d

\* The latest review of a decision is one of its reviews, and the end of it
\* is no earlier than the end of any other.
LEMMA LatestIsReview ==
    ASSUME NEW s \in States, WellFormed(s), NEW d \in Decisions,
           ReviewsOf(s.journal, d) # {}
    PROVE  /\ LatestReview(s.journal, d) \in ReviewsOf(s.journal, d)
           /\ DeadlineOf(s.journal, d) = Expires(s.journal, LatestReview(s.journal, d))
           /\ DeadlineOf(s.journal, d) \in Nat
           /\ \A r \in ReviewsOf(s.journal, d) :
                 Expires(s.journal, r) <= DeadlineOf(s.journal, d)
<1>. DEFINE j == s.journal
            R == ReviewsOf(j, d)
            l == LatestReview(j, d)
<1>1. R \subseteq DOMAIN j
  BY DEF ReviewsOf, Of
<1>2. l \in R /\ \A q \in R : q <= l
  <2>1. \E r \in R : \A q \in R : q <= r
    BY DEF WellFormed
  <2>. QED  BY <2>1 DEF LatestReview
<1>3. \A i \in DOMAIN j : j[i].at \in Nat
  BY RecordTypes
<1>4. \A r \in R : j[r].at <= j[l].at
  BY <1>1, <1>2 DEF WellFormed
<1>5. DeadlineOf(j, d) = j[l].at + Ttl
  BY DEF DeadlineOf, Expires
<1>6. Ttl \in Nat /\ j[l].at \in Nat /\ \A r \in R : j[r].at \in Nat
  BY <1>1, <1>2, <1>3, ConstantsAssumption
<1>. HIDE DEF j, R, l
<1>7. /\ DeadlineOf(j, d) = Expires(j, l) /\ DeadlineOf(j, d) \in Nat
      /\ \A r \in R : Expires(j, r) <= DeadlineOf(j, d)
  BY <1>4, <1>5, <1>6 DEF Expires
<1>. QED  BY <1>2, <1>7 DEF j, R, l

\* What was consumed was confirmed.
LEMMA ConsumedHasReceipt ==
    ASSUME NEW s \in States, WellFormed(s), NEW d,
           HasConsumption(s.journal, d)
    PROVE  HasReceipt(s.journal, d)
<1>. DEFINE j == s.journal
<1>1. PICK i \in Of(j, "consume") : j[i].decision = d
  BY DEF HasConsumption
<1>2. PICK k \in Of(j, "confirm") : j[k].review = j[i].review
  BY <1>1 DEF WellFormed, ConfirmedBy
<1>3. j[k].decision = j[j[k].review].decision
  BY <1>2 DEF WellFormed
<1>4. j[i].decision = j[j[i].review].decision
  BY <1>1 DEF WellFormed
<1>. QED  BY <1>1, <1>2, <1>3, <1>4 DEF HasReceipt

\* What one more record says of each decision.
LEMMA StageAppended ==
    ASSUME NEW s \in States, WellFormed(s), NEW e \in Record, NEW d \in Decisions
    PROVE  LET j == s.journal
               k == Append(j, e)
           IN  /\ HasReceipt(k, d) <=>
                    HasReceipt(j, d) \/ (e.kind = "confirm" /\ e.decision = d)
               /\ HasConsumption(k, d) <=>
                    HasConsumption(j, d) \/ (e.kind = "consume" /\ e.decision = d)
               /\ ReviewsOf(k, d) # {} <=>
                    ReviewsOf(j, d) # {} \/ (e.kind = "review" /\ e.decision = d)
               /\ e.decision # d => StageOf(k, d) = StageOf(j, d)
               /\ e.kind # "review" \/ e.decision # d =>
                    DeadlineOf(k, d) = DeadlineOf(j, d)
               /\ e.kind = "review" /\ e.decision = d =>
                    DeadlineOf(k, d) = e.at + Ttl
<1>. DEFINE j == s.journal
            k == Append(j, e)
<1>1. j \in Seq(Record)
  BY RecordTypes
<1>. DEFINE n == Len(j) + 1
<1>2. /\ \A kind : Of(k, kind) = Of(j, kind) \cup (IF e.kind = kind THEN {n} ELSE {})
      /\ \A kind : \A i \in Of(j, kind) : k[i] = j[i]
      /\ k[n] = e
  BY <1>1, Appended
<1>. HIDE DEF k, n, j
<1>3. HasReceipt(k, d) <=> HasReceipt(j, d) \/ (e.kind = "confirm" /\ e.decision = d)
  BY <1>2 DEF HasReceipt
<1>4. HasConsumption(k, d) <=>
        HasConsumption(j, d) \/ (e.kind = "consume" /\ e.decision = d)
  BY <1>2 DEF HasConsumption
<1>5. ReviewsOf(k, d) # {} <=>
        ReviewsOf(j, d) # {} \/ (e.kind = "review" /\ e.decision = d)
  BY <1>2 DEF ReviewsOf
<1>6. e.decision # d => StageOf(k, d) = StageOf(j, d)
  BY <1>3, <1>4, <1>5, Zenon DEF StageOf, HasConsumption
<1>. USE DEF j, k
<1>7. ASSUME e.kind # "review" \/ e.decision # d
      PROVE  DeadlineOf(k, d) = DeadlineOf(j, d)
  <2>1. ReviewsOf(k, d) = ReviewsOf(j, d) /\ LatestReview(k, d) = LatestReview(j, d)
    BY <1>1, <1>7, LatestAppended
  <2>2. CASE ReviewsOf(j, d) = {}
    BY <2>1, <2>2 DEF DeadlineOf
  <2>3. CASE ReviewsOf(j, d) # {}
    <3>1. LatestReview(j, d) \in DOMAIN j
      BY <2>3, LatestIsReview DEF ReviewsOf, Of
    <3>2. k[LatestReview(j, d)] = j[LatestReview(j, d)]
      BY <1>1, <3>1, Appended
    <3>. QED  BY <2>1, <2>3, <3>2 DEF DeadlineOf, Expires
  <2>. QED  BY <2>2, <2>3
<1>8. ASSUME e.kind = "review", e.decision = d
      PROVE  DeadlineOf(k, d) = e.at + Ttl
  <2>1. ReviewsOf(k, d) # {} /\ LatestReview(k, d) = Len(j) + 1
    BY <1>1, <1>5, <1>8, LatestAppended
  <2>2. k[Len(j) + 1] = e
    BY <1>1, Appended
  <2>. QED  BY <2>1, <2>2 DEF DeadlineOf, Expires
<1>. QED  BY <1>3, <1>4, <1>5, <1>6, <1>7, <1>8

Stages(s) == [d \in Decisions |-> StageOf(s.journal, d)]
Deadlines(s) == [d \in Decisions |-> DeadlineOf(s.journal, d)]

\* A step of ReceiptLifecycle from what one state says to what another does.
LifecycleStep(s, t) ==
    \/ /\ t.high \in s.high + 1..MaxTime
       /\ Stages(t) = Stages(s) /\ Deadlines(t) = Deadlines(s)
    \/ \E d \in Decisions :
         /\ t.high \in s.high..MaxTime
         /\ \/ Stages(s)[d] = "none"
            \/ Stages(s)[d] = "reviewed" /\ t.high >= Deadlines(s)[d]
         /\ Stages(t) = [Stages(s) EXCEPT ![d] = "reviewed"]
         /\ Deadlines(t) = [Deadlines(s) EXCEPT ![d] = t.high + Ttl]
    \/ \E d \in Decisions :
         /\ \/ /\ Stages(s)[d] = "reviewed"
               /\ Stages(t) = [Stages(s) EXCEPT ![d] = "confirmed"]
            \/ /\ Stages(s)[d] = "confirmed"
               /\ Stages(t) = [Stages(s) EXCEPT ![d] = "consumed"]
         /\ s.high < Deadlines(s)[d]
         /\ Deadlines(t) = Deadlines(s) /\ t.high = s.high

\* Every commit is one step of the lifecycle.
LEMMA FollowsLifecycle ==
    ASSUME NEW s \in States, NEW t \in States, WellFormed(s), Follows(s, t)
    PROVE  LifecycleStep(s, t)
<1>1. s.high \in Nat /\ t.high \in Nat /\ t.high <= MaxTime /\ MaxTime \in Nat
  BY ConstantsAssumption DEF States
<1>2. CASE Ticks(s, t)
  BY <1>1, <1>2 DEF Ticks, LifecycleStep, Stages, Deadlines
<1>3. CASE Appends(s, t)
  <2>. DEFINE j == s.journal
  <2>1. PICK e \in Record :
          /\ t.journal = Append(j, e) /\ t.high = e.at
          /\ \/ Reviews(s, e)
             \/ Records(s, e, "confirm") /\ CanConfirm(j, e.review)
             \/ Records(s, e, "consume") /\ CanConsume(j, e.review)
    BY <1>3 DEF Appends
  <2>. DEFINE d == e.decision
  <2>2. d \in Decisions /\ j \in Seq(Record)
    BY RecordTypes
  <2>3. /\ \A c \in Decisions : c # d => StageOf(t.journal, c) = StageOf(j, c)
        /\ \A c \in Decisions : e.kind # "review" \/ c # d =>
              DeadlineOf(t.journal, c) = DeadlineOf(j, c)
    BY <2>1, StageAppended
  <2>. HIDE DEF d
  <2>4. \A x : StageOf(t.journal, d) = x => Stages(t) = [Stages(s) EXCEPT ![d] = x]
    BY <2>2, <2>3 DEF Stages
  <2>5. e.kind # "review" => Deadlines(t) = Deadlines(s)
    BY <2>3 DEF Deadlines
  <2>6. Stages(s)[d] = StageOf(j, d) /\ Deadlines(s)[d] = DeadlineOf(j, d)
    BY <2>2 DEF Stages, Deadlines
  <2>7. CASE Reviews(s, e)
    <3>1. e.kind = "review" /\ s.high <= t.high /\ ~HasReceipt(j, d)
      BY <2>1, <2>7 DEF Reviews, CanReview, d
    <3>2. ~HasConsumption(j, d)
      BY <2>2, <3>1, ConsumedHasReceipt
    <3>3. StageOf(t.journal, d) = "reviewed" /\ DeadlineOf(t.journal, d) = t.high + Ttl
      <4>1. /\ ~HasReceipt(t.journal, d) /\ ~HasConsumption(t.journal, d)
            /\ ReviewsOf(t.journal, d) # {}
            /\ DeadlineOf(t.journal, d) = t.high + Ttl
        BY <2>1, <2>2, <3>1, <3>2, StageAppended DEF d
      <4>. QED  BY <4>1 DEF StageOf, HasConsumption
    <3>4. Deadlines(t) = [Deadlines(s) EXCEPT ![d] = t.high + Ttl]
      BY <2>2, <2>3, <3>3 DEF Deadlines
    <3>5. \/ Stages(s)[d] = "none"
          \/ Stages(s)[d] = "reviewed" /\ t.high >= Deadlines(s)[d]
      <4>1. CASE ReviewsOf(j, d) = {}
        BY <2>6, <3>1, <3>2, <4>1 DEF StageOf, HasConsumption
      <4>2. CASE ReviewsOf(j, d) # {}
        <5>1. Stages(s)[d] = "reviewed"
          BY <2>6, <3>1, <3>2, <4>2 DEF StageOf, HasConsumption
        <5>2. LatestReview(j, d) \in ReviewsOf(j, d)
          BY <2>2, <4>2, LatestIsReview
        <5>3. t.high >= Expires(j, LatestReview(j, d))
          BY <2>1, <2>7, <5>2 DEF Reviews, CanReview, ReviewsOf, d
        <5>4. DeadlineOf(j, d) = Expires(j, LatestReview(j, d))
          BY <2>2, <4>2, LatestIsReview
        <5>. QED  BY <2>6, <5>1, <5>3, <5>4
      <4>. QED  BY <4>1, <4>2
    <3>6. t.high \in s.high..MaxTime
      BY <1>1, <3>1
    <3>7. Stages(t) = [Stages(s) EXCEPT ![d] = "reviewed"]
      BY <2>4, <3>3
    <3>. QED  BY <2>2, <3>4, <3>5, <3>6, <3>7 DEF LifecycleStep
  <2>8. ASSUME NEW kind, Records(s, e, kind)
        PROVE  s.high < Deadlines(s)[d] /\ t.high = s.high /\ e.kind = kind
               /\ ReviewsOf(j, d) # {}
    <3>1. /\ e.kind = kind /\ e.at = s.high /\ e.review \in ReviewsOf(j, d)
          /\ e.at < Expires(j, e.review)
      BY <2>8 DEF Records, ReviewsOf, d
    <3>2. /\ Expires(j, e.review) <= DeadlineOf(j, d) /\ DeadlineOf(j, d) \in Nat
      BY <2>2, <3>1, LatestIsReview
    <3>3. Expires(j, e.review) \in Nat
      BY <3>1, RecordTypes, ConstantsAssumption DEF Expires, ReviewsOf, Of
    <3>4. s.high < DeadlineOf(j, d)
      BY <1>1, <3>1, <3>2, <3>3
    <3>. QED  BY <2>1, <2>6, <3>1, <3>4
  <2>9. CASE Records(s, e, "confirm") /\ CanConfirm(j, e.review)
    <3>1. ~HasReceipt(j, d)
      BY <2>9 DEF Records, CanConfirm, d
    <3>2. ~HasConsumption(j, d)
      BY <2>2, <3>1, ConsumedHasReceipt
    <3>3. Stages(s)[d] = "reviewed"
      BY <2>6, <2>8, <2>9, <3>1, <3>2 DEF StageOf, HasConsumption
    <3>4. HasReceipt(t.journal, d) /\ ~HasConsumption(t.journal, d)
      BY <2>1, <2>2, <2>8, <2>9, <3>2, StageAppended DEF d
    <3>5. StageOf(t.journal, d) = "confirmed"
      BY <3>4 DEF StageOf, HasConsumption
    <3>. QED  BY <2>2, <2>4, <2>5, <2>8, <2>9, <3>3, <3>5 DEF LifecycleStep
  <2>10. CASE Records(s, e, "consume") /\ CanConsume(j, e.review)
    <3>1. PICK k \in Of(j, "confirm") : j[k].review = e.review
      BY <2>10 DEF CanConsume, ConfirmedBy
    <3>2. j[k].decision = d
      BY <2>10, <3>1 DEF WellFormed, Records, d
    <3>3. HasReceipt(j, d)
      BY <3>1, <3>2 DEF HasReceipt
    <3>4. ~HasConsumption(j, d)
      <4>. SUFFICES ASSUME NEW i \in Of(j, "consume"), j[i].decision = d
                    PROVE  FALSE
        BY DEF HasConsumption
      <4>1. PICK l \in Of(j, "confirm") : j[l].review = j[i].review
        BY DEF WellFormed, ConfirmedBy
      <4>2. j[l].decision = d
        BY <4>1 DEF WellFormed
      <4>3. l = k
        BY <3>1, <3>2, <4>1, <4>2 DEF WellFormed
      <4>. QED  BY <2>10, <3>1, <4>1, <4>3 DEF CanConsume, ConsumedBy
    <3>5. Stages(s)[d] = "confirmed"
      BY <2>6, <3>3, <3>4 DEF StageOf, HasConsumption
    <3>6. HasConsumption(t.journal, d)
      BY <2>1, <2>2, <2>8, <2>10, StageAppended DEF d
    <3>7. StageOf(t.journal, d) = "consumed"
      BY <3>6 DEF StageOf, HasConsumption
    <3>. QED  BY <2>2, <2>4, <2>5, <2>8, <2>10, <3>5, <3>7 DEF LifecycleStep
  <2>. QED  BY <2>1, <2>7, <2>9, <2>10
<1>. QED  BY <1>2, <1>3 DEF Follows

-----------------------------------------------------------------------------
(* What the pieces of an action leave in each variable.                    *)

Labels == {"idle", "ensure", "check", "clock", "clock write", "clock commit",
           "act", "prepare", "append", "checkpoint", "commit"}

\* States are records of a journal and a high water.
LEMMA StateParts ==
    /\ NoState \in States
    /\ NoState.journal = <<>> /\ NoState.high = 0
    /\ \A s, t \in States : s.journal = t.journal /\ s.high = t.high => s = t
<1>1. 0 \in 0..MaxTime /\ 0 <= MaxRecords
  BY ConstantsAssumption
<1>. QED  BY <1>1 DEF NoState, States, Journals

\* An operation at another of its steps.
LEMMA OperationSteps ==
    ASSUME op \in Operations
    PROVE  /\ Idle \in Operations /\ Idle.at = "idle"
           /\ \A label \in Labels :
                 LET o == [op EXCEPT !.at = label]
                 IN  /\ o \in Operations
                     /\ o.at = label /\ o.kind = op.kind /\ o.review = op.review
                     /\ o.now = op.now /\ o.next = op.next
<1>1. 0 \in 0..MaxTime /\ 0 \in 0..MaxRecords
  BY ConstantsAssumption
<1>2. Idle \in Operations /\ Idle.at = "idle"
  BY <1>1, StateParts DEF Idle, Operations
<1>. QED  BY <1>2 DEF Operations, Labels

\* The workspace with another checkpoint, another journal, or a torn line.
LEMMA WorkspaceWrites ==
    ASSUME NEW f \in Workspaces
    PROVE  /\ f.journal \in Journals /\ f.checkpoint \in States
           /\ \A s \in States :
                LET g == [f EXCEPT !.checkpoint = s]
                IN  g \in Workspaces /\ g.journal = f.journal /\ g.checkpoint = s
           /\ \A j \in Journals :
                LET g == [f EXCEPT !.journal = j]
                IN  g \in Workspaces /\ g.journal = j /\ g.checkpoint = f.checkpoint
           /\ LET g == [f EXCEPT !.torn = TRUE]
              IN  /\ g \in Workspaces
                  /\ g.journal = f.journal /\ g.checkpoint = f.checkpoint
BY DEF Workspaces

\* The authority after a PREPARE, a COMMIT and an ABORT.
LEMMA AuthorityMoves ==
    ASSUME authority \in Authorities
    PROVE  /\ authority.committed \in States /\ authority.pending \in States
           /\ authority.bound \in BOOLEAN
           /\ \A s \in States :
                LET a == MA!Prepared(authority, s)
                IN  /\ a \in Authorities /\ a.bound
                    /\ a.committed = authority.committed /\ a.pending = s
           /\ LET a == MA!Committed(authority)
              IN  /\ a \in Authorities /\ a.bound = authority.bound
                  /\ a.committed = authority.pending /\ a.pending = NoState
           /\ LET a == MA!Aborted(authority)
              IN  /\ a \in Authorities /\ a.bound = authority.bound
                  /\ a.committed = authority.committed /\ a.pending = NoState
BY StateParts DEF Authorities, MA!Prepared, MA!Committed, MA!Aborted

\* Loading gives a state of the journal that is there; it is the checkpoint
\* itself when that was written for this journal, and what was about to be
\* committed when only the checkpoint had not been written yet.
LEMMA LoadedMeaning ==
    ASSUME files \in Workspaces, Loadable
    PROVE  /\ Loaded \in States /\ Loaded.journal = files.journal
           /\ files.checkpoint.journal = files.journal => Loaded = files.checkpoint
           /\ \A s, t \in States :
                 /\ Follows(s, t) /\ files.journal = t.journal /\ files.checkpoint = s
                 => Loaded \in {s, t}
<1>1. files.journal \in Journals /\ files.checkpoint \in States
  BY WorkspaceWrites
<1>2. LastInstant(files.journal) \in 0..MaxTime
  <2>1. CASE files.journal = <<>>
    BY <2>1, ConstantsAssumption DEF LastInstant
  <2>2. CASE files.journal # <<>>
    <3>1. files.journal \in Seq(Record)
      BY <1>1 DEF Journals
    <3>2. Last(files.journal) \in Record
      BY <2>2, <3>1 DEF Last
    <3>3. Last(files.journal).at \in Times
      BY <3>2 DEF Record
    <3>. QED  BY <2>2, <3>3, ConstantsAssumption DEF LastInstant, Times
  <2>. QED  BY <2>1, <2>2
<1>3. files.checkpoint.high \in 0..MaxTime
  BY <1>1 DEF States
<1>4. Loaded \in States /\ Loaded.journal = files.journal
      /\ Loaded.high = IF files.checkpoint.high >= LastInstant(files.journal)
                       THEN files.checkpoint.high ELSE LastInstant(files.journal)
  BY <1>1, <1>2, <1>3 DEF Loaded, States
<1>5. files.checkpoint.journal = files.journal => Loaded = files.checkpoint
  BY <1>1, <1>4, StateParts DEF Loadable
<1>6. ASSUME NEW s \in States, NEW t \in States, Follows(s, t),
             files.journal = t.journal, files.checkpoint = s
      PROVE  Loaded \in {s, t}
  <2>1. CASE t.journal = s.journal
    BY <1>5, <1>6, <2>1
  <2>2. CASE t.journal # s.journal
    <3>1. LastInstant(t.journal) = t.high /\ s.high <= t.high
      BY <1>6, <2>2, FollowsExtends DEF Extends
    <3>2. s.high \in Nat /\ t.high \in Nat
      BY RecordTypes
    <3>3. Loaded.high = t.high
      BY <1>4, <1>6, <3>1, <3>2
    <3>. QED  BY <1>4, <1>6, <3>3, StateParts
  <2>. QED  BY <2>1, <2>2
<1>. QED  BY <1>4, <1>5, <1>6

\* An operation that ended stands at no step, and prepares nothing of its own.
LEMMA IdleStands ==
    ASSUME op \in Operations, op' = Idle, (Pending => Follows(authority.committed, authority.pending))'
    PROVE  AtStep' /\ Prepares' /\ op' \in Operations
<1>1. op'.at = "idle" /\ op' \in Operations
  BY OperationSteps
<1>. QED  BY <1>1 DEF AtStep, Prepares, BeforeRecord

\* A step that only moves the operation.
LEMMA OperationMoves ==
    ASSUME IInv, UNCHANGED <<files, authority, returned, rejected, environment>>,
           op' \in Operations, AtStep', Prepares'
    PROVE  IInv'
<1>1. /\ files' = files /\ authority' = authority /\ returned' = returned
      /\ rejected' = rejected /\ backup' = backup /\ crashes' = crashes
      /\ restores' = restores
  BY DEF environment
<1>2. Typed'
  BY <1>1 DEF IInv, Typed
<1>3. Bound' /\ FilesFollow'
  BY <1>1 DEF IInv, Bound, FilesFollow, Pending, Current
<1>4. (\A s \in returned : Extends(s, authority.committed))'
  BY <1>1 DEF IInv, Extends
<1>5. WellFormed(authority.committed)'
  BY <1>1 DEF IInv
<1>. QED  BY <1>2, <1>3, <1>4, <1>5 DEF IInv

\* A step that commits what was pending.
LEMMA CommitMoves ==
    ASSUME IInv, Pending, authority' = MA!Committed(authority)
    PROVE  /\ authority' \in Authorities
           /\ authority'.committed = authority.pending
           /\ ~Pending'
           /\ Bound'
           /\ WellFormed(authority.committed)'
           /\ \A s \in returned : Extends(s, authority'.committed)
<1>1. authority \in Authorities /\ returned \subseteq States
  BY DEF IInv, Typed
<1>2. /\ authority' \in Authorities /\ authority'.bound = authority.bound
      /\ authority'.committed = authority.pending /\ authority'.pending = NoState
      /\ authority.pending \in States /\ authority.committed \in States
  BY <1>1, AuthorityMoves
<1>3. Follows(authority.committed, authority.pending)
  BY DEF IInv, Prepares
<1>4. WellFormed(authority.pending) /\ Extends(authority.committed, authority.pending)
  BY <1>2, <1>3, FollowsWellFormed, FollowsExtends DEF IInv
<1>5. \A s \in returned : Extends(s, authority.pending)
  BY <1>1, <1>2, <1>4, ExtendsOrder DEF IInv
<1>6. Bound'
  BY <1>2 DEF IInv, Bound
<1>7. WellFormed(authority.committed)'
  BY <1>2, <1>4
<1>. QED  BY <1>2, <1>5, <1>6, <1>7 DEF Pending

-----------------------------------------------------------------------------
(* Every action keeps the invariant.                                       *)

\* The load writes a checkpoint that is committed, pending, or restored.
LEMMA BeginKeeps ==
    ASSUME IInv, NEW kind \in {"open", "review", "confirm", "resolve", "consume"},
           NEW r, Begin(kind, r),
           kind \in {"open", "review"} => r = 0,
           kind \in {"confirm", "resolve", "consume"} => r \in Of(files.journal, "review")
    PROVE  IInv'
<1>. DEFINE Start == [Idle EXCEPT !.at = "ensure", !.kind = kind, !.review = r]
<1>1. /\ files \in Workspaces /\ Loadable /\ op' = Start
      /\ files' = [files EXCEPT !.checkpoint = Loaded]
      /\ authority' = authority /\ returned' = returned /\ rejected' = rejected
      /\ backup' = backup /\ crashes' = crashes /\ restores' = restores
      /\ kind \in {"open", "resolve"} \/ Len(files.journal) < MaxRecords
      /\ op \in Operations
  BY DEF IInv, Typed, Begin, environment
<1>2. Loaded \in States /\ Loaded.journal = files.journal
  BY <1>1, LoadedMeaning
<1>3. /\ files' \in Workspaces /\ files'.checkpoint = Loaded
      /\ files'.journal = files.journal
  BY <1>1, <1>2, WorkspaceWrites
<1>4. r \in 0..MaxRecords
  <2>1. Of(files.journal, "review") \subseteq 0..MaxRecords
    <3>1. /\ DOMAIN files.journal = 1..Len(files.journal)
          /\ Len(files.journal) \in Nat /\ Len(files.journal) <= MaxRecords
      <4>1. files.journal \in Journals
        BY <1>1, WorkspaceWrites
      <4>. QED  BY <4>1 DEF Journals
    <3>2. DOMAIN files.journal \subseteq 0..MaxRecords
      BY <3>1, ConstantsAssumption
    <3>. QED  BY <3>2 DEF Of
  <2>. QED  BY <2>1, ConstantsAssumption
<1>5. /\ Start \in Operations
      /\ Start.at = "ensure" /\ Start.kind = kind /\ Start.review = r
  <2>1. ASSUME NEW o \in Operations
        PROVE  LET start == [o EXCEPT !.at = "ensure", !.kind = kind, !.review = r]
               IN  /\ start \in Operations
                   /\ start.at = "ensure" /\ start.kind = kind /\ start.review = r
    BY <1>4 DEF Operations
  <2>2. Idle \in Operations
    BY <1>1, OperationSteps
  <2>. QED  BY <2>1, <2>2
<1>. HIDE DEF Start
<1>6. Typed'
  BY <1>1, <1>3, <1>5 DEF IInv, Typed
<1>7. AtStep'
  BY <1>1, <1>2, <1>3, <1>5 DEF AtStep, BeforeRecord
<1>8. Prepares'
  BY <1>1, <1>5 DEF IInv, Prepares, Pending
<1>9. FilesFollow'
  <2>. SUFFICES ASSUME restores = 0
                PROVE  /\ ~rejected
                       /\ \/ Current'
                          \/ /\ Pending
                             /\ files.journal = authority.pending.journal
                             /\ Loaded \in {authority.committed, authority.pending}
    BY <1>1, <1>3 DEF FilesFollow, Pending
  <2>1. ~rejected
    BY DEF IInv, FilesFollow
  <2>2. CASE Current
    <3>1. Loaded = files.checkpoint
      BY <1>1, <2>2, LoadedMeaning DEF Current
    <3>. QED  BY <1>1, <1>3, <2>1, <2>2, <3>1 DEF Current
  <2>3. CASE ~Current
    <3>1. /\ Pending /\ files.journal = authority.pending.journal
          /\ files.checkpoint \in {authority.committed, authority.pending}
      BY <2>3 DEF IInv, FilesFollow
    <3>2. /\ authority.committed \in States /\ authority.pending \in States
          /\ Follows(authority.committed, authority.pending)
      BY <3>1, AuthorityMoves DEF IInv, Typed, Prepares
    <3>3. Loaded \in {authority.committed, authority.pending}
      <4>1. CASE files.checkpoint = authority.committed
        BY <1>1, <3>1, <3>2, <4>1, LoadedMeaning
      <4>2. CASE files.checkpoint = authority.pending
        BY <1>1, <3>1, <4>2, LoadedMeaning
      <4>. QED  BY <3>1, <4>1, <4>2
    <3>. QED  BY <2>1, <3>1, <3>3
  <2>. QED  BY <2>2, <2>3
<1>10. Bound' /\ WellFormed(authority.committed)'
       /\ (\A s \in returned : Extends(s, authority.committed))'
  BY <1>1 DEF IInv, Bound, Pending, Extends
<1>. QED  BY <1>6, <1>7, <1>8, <1>9, <1>10 DEF IInv

\* Recovery ends a pending transition on the side the workspace shows.
LEMMA EnsureKeeps ==
    ASSUME IInv, Ensure
    PROVE  IInv'
<1>1. /\ files' = files /\ returned' = returned /\ backup' = backup
      /\ crashes' = crashes /\ restores' = restores
      /\ op.at = "ensure" /\ op \in Operations /\ authority \in Authorities
      /\ rejected \in BOOLEAN
  BY DEF IInv, Typed, Ensure, environment
<1>2. /\ op.kind # "none" /\ files.checkpoint.journal = files.journal
      /\ op.kind \in {"review", "confirm", "consume"} => Len(files.journal) < MaxRecords
      /\ op.kind \in {"confirm", "resolve", "consume"} =>
            op.review \in Of(files.journal, "review")
  BY <1>1 DEF IInv, AtStep, BeforeRecord
<1>3. CASE Admissible
  <2>1. /\ authority' = IF authority.bound
                        THEN MA!Recovered(authority, Observed) ELSE authority
        /\ IF op.kind = "open" THEN op' = Idle ELSE Goto("check")
        /\ rejected' = rejected
    BY <1>3 DEF Ensure
  <2>2. /\ authority' \in Authorities /\ ~Pending'
        /\ authority'.committed = files.checkpoint
        /\ Bound' /\ WellFormed(authority.committed)'
        /\ \A s \in returned : Extends(s, authority'.committed)
    <3>1. CASE ~Pending
      <4>1. authority' = authority /\ authority.committed = files.checkpoint
        BY <1>3, <2>1, <3>1
           DEF Admissible, MA!Recoverable, MA!Recovered, MA!Pending, Pending,
               Observed, IInv, Bound
      <4>. QED  BY <1>1, <3>1, <4>1 DEF IInv, Bound, Pending
    <3>2. CASE Pending /\ files.checkpoint = authority.committed
      <4>1. authority' = MA!Aborted(authority)
        BY <2>1, <3>2 DEF MA!Recovered, MA!Pending, Pending, Observed, IInv, Bound
      <4>2. /\ authority' \in Authorities /\ authority'.bound = authority.bound
            /\ authority'.committed = authority.committed
            /\ authority'.pending = NoState
        BY <1>1, <4>1, AuthorityMoves
      <4>. QED  BY <3>2, <4>2 DEF IInv, Bound, Pending
    <3>3. CASE Pending /\ files.checkpoint # authority.committed
      <4>1. authority' = MA!Committed(authority) /\ files.checkpoint = authority.pending
        BY <1>3, <2>1, <3>3
           DEF MA!Recovered, MA!Recoverable, MA!Pending, Pending, Observed, IInv,
               Bound, Admissible
      <4>. QED  BY <3>3, <4>1, CommitMoves
    <3>. QED  BY <3>1, <3>2, <3>3
  <2>3. Current'
    BY <1>1, <1>2, <2>2 DEF Current
  <2>4. op' \in Operations /\ AtStep' /\ Prepares'
    <3>1. CASE op.kind = "open"
      BY <1>1, <2>1, <2>2, <3>1, IdleStands
    <3>2. CASE op.kind # "open"
      <4>0. op' = [op EXCEPT !.at = "check"]
        BY <2>1, <3>2 DEF Goto
      <4>1. /\ op' \in Operations /\ op'.at = "check" /\ op'.kind = op.kind
            /\ op'.review = op.review
        BY <1>1, <4>0, OperationSteps DEF Labels
      <4>2. AtStep'
        BY <1>1, <1>2, <2>2, <2>3, <3>2, <4>1 DEF AtStep, BeforeRecord
      <4>. QED  BY <2>2, <4>1, <4>2 DEF Prepares
    <3>. QED  BY <3>1, <3>2
  <2>5. Typed'
    BY <1>1, <2>1, <2>2, <2>4 DEF IInv, Typed
  <2>6. FilesFollow'
    BY <1>1, <2>1, <2>3 DEF IInv, FilesFollow
  <2>. QED  BY <1>1, <2>2, <2>4, <2>5, <2>6 DEF IInv
<1>4. CASE ~Admissible
  <2>1. op' = Idle /\ rejected' = TRUE /\ authority' = authority
    BY <1>4 DEF Ensure
  <2>2. op' \in Operations /\ AtStep' /\ Prepares'
    BY <1>1, <2>1, IdleStands DEF IInv, Prepares, Pending
  <2>3. Typed'
    BY <1>1, <2>1, <2>2 DEF IInv, Typed
  <2>4. restores # 0
    BY <1>4 DEF IInv, FilesFollow, Bound, Admissible, MA!Recoverable, MA!Pending,
               Pending, Current, Observed
  <2>5. FilesFollow'
    BY <1>1, <2>4 DEF FilesFollow
  <2>. QED  BY <1>1, <2>1, <2>2, <2>3, <2>5 DEF IInv, Bound, Pending, Extends
<1>. QED  BY <1>3, <1>4

\* An operation that is refused, or has nothing to record, leaves no trace.
LEMMA RefuseKeeps ==
    ASSUME IInv, Refuse
    PROVE  IInv'
<1>1. /\ UNCHANGED <<files, authority, returned, rejected, environment>>
      /\ authority' = authority /\ op' = Idle /\ op \in Operations
  BY DEF IInv, Typed, Refuse
<1>2. op' \in Operations /\ AtStep' /\ Prepares'
  BY <1>1, IdleStands DEF IInv, Prepares, Pending
<1>. QED  BY <1>1, <1>2, OperationMoves

\* The instant is read while files and authority agree.
LEMMA ReadClockKeeps ==
    ASSUME IInv, ReadClock
    PROVE  IInv'
<1>1. PICK now \in Times :
        /\ now >= Observed.high
        /\ op' = [op EXCEPT
             !.at = IF op.kind = "review" \/ now = Observed.high THEN "act"
                    ELSE "clock",
             !.now = now,
             !.next = [Observed EXCEPT !.high = now]]
  BY DEF ReadClock
<1>2. /\ files' = files /\ authority' = authority
      /\ UNCHANGED <<files, authority, returned, rejected, environment>>
      /\ op.at = "check" /\ Checks /\ op \in Operations
      /\ authority \in Authorities
  BY DEF ReadClock, IInv, Typed
<1>3. /\ op.kind \in {"review", "confirm", "resolve", "consume"}
      /\ Current /\ ~Pending
      /\ op.kind \in {"review", "confirm", "consume"} => Len(files.journal) < MaxRecords
      /\ op.kind \in {"confirm", "resolve", "consume"} =>
            op.review \in Of(files.journal, "review")
  BY <1>2 DEF IInv, AtStep, BeforeRecord, Operations
<1>. DEFINE next == [Observed EXCEPT !.high = now]
            at == IF op.kind = "review" \/ now = Observed.high THEN "act" ELSE "clock"
<1>4. /\ Observed = authority.committed /\ Observed \in States
      /\ Observed.high \in Nat /\ now \in Nat /\ now \in 0..MaxTime
  BY <1>2, <1>3, AuthorityMoves, RecordTypes, ConstantsAssumption
     DEF Current, Observed, Times
<1>5. next \in States /\ next.high = now /\ next.journal = Observed.journal
  BY <1>4 DEF States
<1>. HIDE DEF next, at
<1>6. /\ op' \in Operations /\ op'.at = at /\ op'.kind = op.kind
      /\ op'.review = op.review /\ op'.now = now /\ op'.next = next
  <2>1. op' = [op EXCEPT !.at = at, !.now = now, !.next = next]
    BY <1>1 DEF next, at
  <2>2. at \in {"act", "clock"}
    BY DEF at
  <2>. QED  BY <1>2, <1>4, <1>5, <2>1, <2>2 DEF Operations
<1>7. AtStep'
  <2>1. Checks'
    BY <1>2, <1>6 DEF Checks
  <2>2. Current' /\ ~Pending'
    BY <1>2, <1>3 DEF Current, Pending
  <2>. QED  BY <1>2, <1>3, <1>6, <2>1, <2>2 DEF AtStep, BeforeRecord, at
<1>8. Prepares'
  <2>1. ~Pending'
    BY <1>2, <1>3 DEF Pending
  <2>2. op'.at = "clock" => Ticks(authority'.committed, op'.next) /\ op'.next.high = now
    BY <1>1, <1>2, <1>4, <1>5, <1>6 DEF Ticks, at
  <2>3. op'.at = "act" => /\ authority'.committed.high <= now
                          /\ op.kind # "review" => now = authority'.committed.high
    BY <1>1, <1>2, <1>4, <1>6 DEF at
  <2>. QED  BY <1>6, <2>1, <2>2, <2>3 DEF Prepares, at
<1>. QED  BY <1>2, <1>6, <1>7, <1>8, OperationMoves

\* The PREPARE of the clock, or of a record.
LEMMA PrepareKeeps ==
    ASSUME IInv, NEW from \in {"clock", "prepare"},
           NEW to \in {"clock write", "append"}, Prepare(from, to),
           (from = "clock") <=> (to = "clock write")
    PROVE  IInv'
<1>1. /\ files' = files /\ returned' = returned /\ rejected' = rejected
      /\ backup' = backup /\ crashes' = crashes /\ restores' = restores
      /\ op.at = from /\ op \in Operations /\ op' = [op EXCEPT !.at = to]
      /\ authority \in Authorities /\ authority' = MA!Prepared(authority, op.next)
      /\ op.next \in States
  BY DEF IInv, Typed, Prepare, Goto, environment, Operations
<1>2. /\ op' \in Operations /\ op'.at = to /\ op'.kind = op.kind
      /\ op'.review = op.review /\ op'.now = op.now /\ op'.next = op.next
  <2>1. to \in Labels
    BY DEF Labels
  <2>. QED  BY <1>1, <2>1, OperationSteps
<1>3. /\ authority' \in Authorities /\ authority'.bound
      /\ authority'.committed = authority.committed /\ authority'.pending = op.next
      /\ authority.committed \in States
  BY <1>1, AuthorityMoves
<1>4. /\ Follows(authority.committed, op.next)
      /\ from = "clock" => /\ Ticks(authority.committed, op.next)
                           /\ op.next.high = op.now /\ op.now \in Times
      /\ from = "prepare" => Appends(authority.committed, op.next)
  BY <1>1 DEF IInv, Prepares, Follows
<1>5. op.next # NoState
  BY <1>1, <1>3, <1>4, FollowsExtends
<1>6. Current
  BY <1>1 DEF IInv, AtStep
<1>7. Current' /\ Pending'
  BY <1>1, <1>3, <1>5, <1>6 DEF Current, Pending
<1>8. AtStep'
  <2>1. from = "clock" => Checks'
    BY <1>1, <1>2 DEF IInv, AtStep, Checks
  <2>. QED  BY <1>1, <1>2, <1>3, <1>7, <2>1 DEF IInv, AtStep, BeforeRecord
<1>9. Prepares'
  BY <1>2, <1>3, <1>4 DEF Prepares
<1>10. Typed'
  BY <1>1, <1>2, <1>3 DEF IInv, Typed
<1>11. FilesFollow'
  BY <1>1, <1>7 DEF IInv, FilesFollow
<1>12. WellFormed(authority.committed)' /\ Bound'
       /\ (\A s \in returned : Extends(s, authority.committed))'
  BY <1>1, <1>3 DEF IInv, Bound, Extends
<1>. QED  BY <1>8, <1>9, <1>10, <1>11, <1>12 DEF IInv

\* The checkpoint is written for what is about to be committed.
LEMMA WriteKeeps ==
    ASSUME IInv, NEW from \in {"clock write", "checkpoint"},
           NEW to \in {"clock commit", "commit"}, WriteCheckpoint(from, to),
           (from = "clock write") <=> (to = "clock commit")
    PROVE  IInv'
<1>1. /\ authority' = authority /\ returned' = returned /\ rejected' = rejected
      /\ backup' = backup /\ crashes' = crashes /\ restores' = restores
      /\ op.at = from /\ op \in Operations /\ op' = [op EXCEPT !.at = to]
      /\ files \in Workspaces /\ files' = [files EXCEPT !.checkpoint = op.next]
      /\ op.next \in States
  BY DEF IInv, Typed, WriteCheckpoint, Goto, environment, Operations
<1>2. /\ op' \in Operations /\ op'.at = to /\ op'.kind = op.kind
      /\ op'.review = op.review /\ op'.now = op.now /\ op'.next = op.next
  BY <1>1, OperationSteps DEF Labels
<1>3. /\ files' \in Workspaces /\ files'.journal = files.journal
      /\ files'.checkpoint = op.next
  BY <1>1, WorkspaceWrites
<1>4. Pending /\ authority.pending = op.next
  BY <1>1 DEF IInv, AtStep
<1>5. files.journal = op.next.journal
  BY <1>1 DEF IInv, AtStep, Prepares, Ticks, Current
<1>6. AtStep'
  <2>1. from = "clock write" => Checks'
    BY <1>1, <1>2, <1>3 DEF IInv, AtStep, Checks
  <2>2. Pending' /\ authority'.pending = op'.next
    BY <1>1, <1>2, <1>4 DEF Pending
  <2>. QED  BY <1>1, <1>2, <1>3, <1>5, <2>1, <2>2 DEF IInv, AtStep, BeforeRecord
<1>7. Prepares'
  BY <1>1, <1>2 DEF IInv, Prepares, Pending
<1>8. Typed'
  BY <1>1, <1>2, <1>3 DEF IInv, Typed
<1>9. FilesFollow'
  BY <1>1, <1>3, <1>4, <1>5 DEF IInv, FilesFollow, Pending
<1>10. WellFormed(authority.committed)' /\ Bound'
       /\ (\A s \in returned : Extends(s, authority.committed))'
  BY <1>1 DEF IInv, Bound, Extends, Pending
<1>. QED  BY <1>6, <1>7, <1>8, <1>9, <1>10 DEF IInv

\* The clock's transition is committed before the operation acts on it.
LEMMA CommitClockKeeps ==
    ASSUME IInv, CommitClock
    PROVE  IInv'
<1>1. /\ files' = files /\ returned' = returned /\ rejected' = rejected
      /\ backup' = backup /\ crashes' = crashes /\ restores' = restores
      /\ op.at = "clock commit" /\ op \in Operations /\ op' = [op EXCEPT !.at = "act"]
      /\ authority' = MA!Committed(authority)
  BY DEF IInv, Typed, CommitClock, Goto, environment
<1>2. /\ op' \in Operations /\ op'.at = "act" /\ op'.kind = op.kind
      /\ op'.review = op.review /\ op'.now = op.now /\ op'.next = op.next
  BY <1>1, OperationSteps DEF Labels
<1>3. /\ Pending /\ authority.pending = op.next
      /\ files.journal = op.next.journal /\ files.checkpoint = op.next
      /\ op.next.high = op.now /\ op.now \in Times
  BY <1>1 DEF IInv, AtStep, Prepares
<1>4. /\ authority' \in Authorities /\ authority'.committed = authority.pending
      /\ ~Pending' /\ Bound' /\ WellFormed(authority.committed)'
      /\ \A s \in returned : Extends(s, authority'.committed)
  BY <1>1, <1>3, CommitMoves
<1>5. Current'
  BY <1>1, <1>3, <1>4 DEF Current
<1>6. AtStep'
  <2>1. Checks'
    BY <1>1, <1>2 DEF IInv, AtStep, Checks
  <2>. QED  BY <1>1, <1>2, <1>4, <1>5, <2>1 DEF IInv, AtStep, BeforeRecord
<1>7. Prepares'
  <2>1. op.now \in Nat
    BY <1>3, ConstantsAssumption DEF Times
  <2>. QED  BY <1>2, <1>3, <1>4, <2>1 DEF Prepares
<1>8. Typed'
  BY <1>1, <1>2, <1>4 DEF IInv, Typed
<1>9. FilesFollow'
  BY <1>1, <1>5 DEF IInv, FilesFollow
<1>. QED  BY <1>1, <1>4, <1>6, <1>7, <1>8, <1>9 DEF IInv

\* A record is prepared for the journal and the instant the operation read.
LEMMA ActKeeps ==
    ASSUME IInv, NEW e, Appending(e), op.at = "act",
           UNCHANGED <<files, authority, returned, rejected, environment>>,
           e \in Record, e.at = op.now, op.kind \in {"review", "confirm", "consume"},
           \/ Reviews(authority.committed, e)
           \/ /\ Records(authority.committed, e, "confirm")
              /\ CanConfirm(authority.committed.journal, e.review)
           \/ /\ Records(authority.committed, e, "consume")
              /\ CanConsume(authority.committed.journal, e.review)
    PROVE  IInv'
<1>1. /\ op \in Operations /\ files \in Workspaces /\ files' = files
      /\ authority' = authority /\ Current /\ ~Pending
      /\ Len(files.journal) < MaxRecords /\ op.kind \notin {"none", "open"}
      /\ op.now \in Times
  BY DEF IInv, Typed, AtStep, Prepares, BeforeRecord
<1>. DEFINE next == [journal |-> Append(files.journal, e), high |-> op.now]
<1>2. next \in States
  <2>1. files.journal \in Journals
    BY <1>1, WorkspaceWrites
  <2>2. files.journal \in Seq(Record)
    BY <2>1 DEF Journals
  <2>3. Append(files.journal, e) \in Seq(Record)
        /\ Len(Append(files.journal, e)) <= MaxRecords
    BY <1>1, <2>2, Appended, ConstantsAssumption
  <2>4. op.now \in 0..MaxTime
    BY <1>1, ConstantsAssumption DEF Times
  <2>. QED  BY <2>3, <2>4 DEF States, Journals
<1>3. Appends(authority.committed, next)
  BY <1>1 DEF Appends, Current
<1>4. op' = [op EXCEPT !.at = "prepare", !.next = next]
  BY DEF Appending
<1>. HIDE DEF next
<1>5. /\ op' \in Operations /\ op'.at = "prepare" /\ op'.kind = op.kind
      /\ op'.next = next
  BY <1>1, <1>2, <1>4 DEF Operations
<1>6. AtStep'
  BY <1>1, <1>5 DEF AtStep, BeforeRecord, Current, Pending
<1>7. Prepares'
  BY <1>1, <1>3, <1>5 DEF Prepares, Pending
<1>. QED  BY <1>5, <1>6, <1>7, OperationMoves

LEMMA ActReviewKeeps ==
    ASSUME IInv, ActReview
    PROVE  IInv'
<1>1. /\ op.at = "act" /\ op.kind = "review" /\ Current
      /\ UNCHANGED <<files, authority, returned, rejected, environment>>
      /\ Len(files.journal) < MaxRecords /\ op.now \in Times
      /\ authority.committed.high <= op.now
  BY DEF ActReview, IInv, AtStep, BeforeRecord, Prepares
<1>2. PICK d \in Decisions :
        /\ CanReview(files.journal, d, op.now)
        /\ Appending([kind |-> "review", decision |-> d,
                      review |-> Len(files.journal) + 1, at |-> op.now])
  BY DEF ActReview
<1>. DEFINE e == [kind |-> "review", decision |-> d,
                  review |-> Len(files.journal) + 1, at |-> op.now]
<1>3. Len(files.journal) + 1 \in 1..MaxRecords
  <2>1. files.journal \in Journals
    BY WorkspaceWrites DEF IInv, Typed
  <2>2. Len(files.journal) \in Nat
    BY <2>1 DEF Journals
  <2>. QED  BY <1>1, <2>2, ConstantsAssumption
<1>4. e \in Record /\ e.kind = "review" /\ e.decision = d /\ e.at = op.now
  BY <1>1, <1>3 DEF Record
<1>. HIDE DEF e
<1>5. Reviews(authority.committed, e)
  BY <1>1, <1>2, <1>4 DEF Reviews, Current
<1>6. Appending(e)
  BY <1>2 DEF e
<1>. QED  BY <1>1, <1>4, <1>5, <1>6, ActKeeps

LEMMA ActRecordKeeps ==
    ASSUME IInv, ActRecord
    PROVE  IInv'
<1>. DEFINE e == [kind |-> op.kind, decision |-> files.journal[op.review].decision,
                  review |-> op.review, at |-> op.now]
<1>1. /\ op.at = "act" /\ op.kind \in {"confirm", "consume"} /\ Current
      /\ UNCHANGED <<files, authority, returned, rejected, environment>>
      /\ op.review \in Of(files.journal, "review") /\ op.now \in Times
      /\ authority.committed.high = op.now /\ Checks
      /\ op.now < Expires(files.journal, op.review)
      /\ Appending(e)
  BY DEF ActRecord, IInv, AtStep, BeforeRecord, Prepares, InTime
<1>2. /\ op.review \in DOMAIN files.journal
      /\ files.journal[op.review] \in Record /\ op.review \in 1..MaxRecords
  <2>1. files.journal \in Journals
    BY WorkspaceWrites DEF IInv, Typed
  <2>2. files.journal \in Seq(Record) /\ Len(files.journal) <= MaxRecords
    BY <2>1 DEF Journals
  <2>3. op.review \in DOMAIN files.journal
    BY <1>1 DEF Of
  <2>. QED  BY <2>2, <2>3, ConstantsAssumption
<1>3. /\ e \in Record /\ e.kind = op.kind /\ e.review = op.review /\ e.at = op.now
      /\ e.decision = files.journal[op.review].decision
  <2>1. files.journal[op.review].decision \in Decisions
    BY <1>2, RecordTypes
  <2>. QED  BY <1>1, <1>2, <2>1 DEF Record
<1>. HIDE DEF e
<1>4. Records(authority.committed, e, op.kind)
  BY <1>1, <1>3 DEF Records, Current
<1>5. CASE op.kind = "confirm"
  <2>1. CanConfirm(authority.committed.journal, e.review)
    BY <1>1, <1>3, <1>5 DEF Checks, Current
  <2>. QED  BY <1>1, <1>3, <1>4, <1>5, <2>1, ActKeeps
<1>6. CASE op.kind = "consume"
  <2>1. CanConsume(authority.committed.journal, e.review)
    BY <1>1, <1>3, <1>6 DEF Checks, Current
  <2>. QED  BY <1>1, <1>3, <1>4, <1>6, <2>1, ActKeeps
<1>. QED  BY <1>1, <1>5, <1>6

\* The record reaches the journal before the checkpoint.
LEMMA AppendRecordKeeps ==
    ASSUME IInv, AppendRecord
    PROVE  IInv'
<1>1. /\ authority' = authority /\ returned' = returned /\ rejected' = rejected
      /\ backup' = backup /\ crashes' = crashes /\ restores' = restores
      /\ op.at = "append" /\ op \in Operations
      /\ op' = [op EXCEPT !.at = "checkpoint"]
      /\ files \in Workspaces /\ files' = [files EXCEPT !.journal = op.next.journal]
      /\ op.next \in States
  BY DEF IInv, Typed, AppendRecord, Goto, environment, Operations
<1>2. /\ op' \in Operations /\ op'.at = "checkpoint" /\ op'.kind = op.kind
      /\ op'.next = op.next
  BY <1>1, OperationSteps DEF Labels
<1>3. /\ files' \in Workspaces /\ files'.journal = op.next.journal
      /\ files'.checkpoint = files.checkpoint
  <2>1. op.next.journal \in Journals
    BY <1>1 DEF States
  <2>. QED  BY <1>1, <2>1, WorkspaceWrites
<1>4. Current /\ Pending /\ authority.pending = op.next
  BY <1>1 DEF IInv, AtStep
<1>5. AtStep'
  BY <1>1, <1>2, <1>3, <1>4 DEF IInv, AtStep, BeforeRecord, Pending
<1>6. Prepares'
  BY <1>1, <1>2 DEF IInv, Prepares, Pending
<1>7. Typed'
  BY <1>1, <1>2, <1>3 DEF IInv, Typed
<1>8. FilesFollow'
  BY <1>1, <1>3, <1>4 DEF IInv, FilesFollow, Pending, Current
<1>9. WellFormed(authority.committed)' /\ Bound'
      /\ (\A s \in returned : Extends(s, authority.committed))'
  BY <1>1 DEF IInv, Bound, Extends, Pending
<1>. QED  BY <1>5, <1>6, <1>7, <1>8, <1>9 DEF IInv

\* What is returned is what was committed.
LEMMA CommitAppendKeeps ==
    ASSUME IInv, CommitAppend
    PROVE  IInv'
<1>1. /\ files' = files /\ returned' = returned \cup {op.next}
      /\ rejected' = rejected /\ backup' = backup /\ crashes' = crashes
      /\ restores' = restores /\ op.at = "commit" /\ op \in Operations /\ op' = Idle
      /\ authority' = MA!Committed(authority) /\ op.next \in States
  BY DEF IInv, Typed, CommitAppend, environment, Operations
<1>2. /\ Pending /\ authority.pending = op.next
      /\ files.journal = op.next.journal /\ files.checkpoint = op.next
  BY <1>1 DEF IInv, AtStep
<1>3. /\ authority' \in Authorities /\ authority'.committed = authority.pending
      /\ ~Pending' /\ Bound' /\ WellFormed(authority.committed)'
      /\ \A s \in returned : Extends(s, authority'.committed)
  BY <1>1, <1>2, CommitMoves
<1>4. op' \in Operations /\ AtStep' /\ Prepares'
  BY <1>1, <1>3, IdleStands
<1>5. Typed'
  BY <1>1, <1>3, <1>4 DEF IInv, Typed
<1>6. FilesFollow'
  BY <1>1, <1>2, <1>3 DEF IInv, FilesFollow, Current
<1>7. (\A s \in returned : Extends(s, authority.committed))'
  BY <1>1, <1>2, <1>3, ExtendsOrder
<1>. QED  BY <1>3, <1>4, <1>5, <1>6, <1>7 DEF IInv

\* A process dies between two steps, or in the middle of a line.
LEMMA CrashKeeps ==
    ASSUME IInv, Crash
    PROVE  IInv'
<1>1. /\ authority' = authority /\ returned' = returned /\ rejected' = rejected
      /\ backup' = backup /\ crashes' = crashes + 1 /\ restores' = restores
      /\ crashes < MaxCrashes /\ op \in Operations /\ op' = Idle
      /\ files \in Workspaces /\ files' \in {files, [files EXCEPT !.torn = TRUE]}
  BY DEF IInv, Typed, Crash
<1>2. /\ files' \in Workspaces /\ files'.journal = files.journal
      /\ files'.checkpoint = files.checkpoint
  BY <1>1, WorkspaceWrites
<1>3. op' \in Operations /\ AtStep' /\ Prepares'
  BY <1>1, IdleStands DEF IInv, Prepares, Pending
<1>4. crashes' \in 0..MaxCrashes
  BY <1>1, ConstantsAssumption DEF IInv, Typed
<1>5. Typed'
  BY <1>1, <1>2, <1>3, <1>4 DEF IInv, Typed
<1>6. FilesFollow'
  BY <1>1, <1>2 DEF IInv, FilesFollow, Pending, Current
<1>7. WellFormed(authority.committed)' /\ Bound'
      /\ (\A s \in returned : Extends(s, authority.committed))'
  BY <1>1 DEF IInv, Bound, Extends, Pending
<1>. QED  BY <1>3, <1>5, <1>6, <1>7 DEF IInv

\* A backup is a copy of the two files.
LEMMA BackUpKeeps ==
    ASSUME IInv, BackUp
    PROVE  IInv'
<1>1. /\ files' = files /\ authority' = authority /\ op' = op
      /\ returned' = returned /\ rejected' = rejected /\ backup' = files
      /\ crashes' = crashes /\ restores' = restores
  BY DEF BackUp
<1>2. Typed'
  BY <1>1 DEF IInv, Typed
<1>3. AtStep' /\ Prepares'
  BY <1>1 DEF IInv, AtStep, Prepares, BeforeRecord, Checks, Current, Pending
<1>4. FilesFollow' /\ Bound' /\ WellFormed(authority.committed)'
      /\ (\A s \in returned : Extends(s, authority.committed))'
  BY <1>1 DEF IInv, FilesFollow, Bound, Extends, Pending, Current
<1>. QED  BY <1>2, <1>3, <1>4 DEF IInv

\* The files come back, one or both of them.
LEMMA RestoreKeeps ==
    ASSUME IInv, Restore
    PROVE  IInv'
<1>1. /\ authority' = authority /\ op' = op /\ returned' = returned
      /\ rejected' = rejected /\ backup' = backup /\ crashes' = crashes
      /\ restores' = restores + 1 /\ restores < MaxRestores /\ op.at = "idle"
      /\ files \in Workspaces /\ backup \in Workspaces
      /\ restores \in 0..MaxRestores
      /\ files' \in {backup,
                     [backup EXCEPT !.checkpoint = files.checkpoint],
                     [files EXCEPT !.checkpoint = backup.checkpoint]}
  BY DEF IInv, Typed, Restore
<1>2. files' \in Workspaces
  <2>1. files.checkpoint \in States /\ backup.checkpoint \in States
    BY <1>1, WorkspaceWrites
  <2>2. [backup EXCEPT !.checkpoint = files.checkpoint] \in Workspaces
    BY <1>1, <2>1, WorkspaceWrites
  <2>3. [files EXCEPT !.checkpoint = backup.checkpoint] \in Workspaces
    BY <1>1, <2>1, WorkspaceWrites
  <2>. QED  BY <1>1, <2>2, <2>3
<1>3. restores' \in 0..MaxRestores /\ restores' # 0
  BY <1>1, ConstantsAssumption
<1>4. Typed'
  BY <1>1, <1>2, <1>3 DEF IInv, Typed
<1>5. AtStep' /\ Prepares'
  BY <1>1 DEF IInv, AtStep, Prepares, BeforeRecord, Pending
<1>6. FilesFollow'
  BY <1>3 DEF FilesFollow
<1>7. Bound' /\ WellFormed(authority.committed)'
      /\ (\A s \in returned : Extends(s, authority.committed))'
  BY <1>1 DEF IInv, Bound, Extends, Pending
<1>. QED  BY <1>4, <1>5, <1>6, <1>7 DEF IInv

-----------------------------------------------------------------------------
(* The invariant, and what follows from it.                                *)

LEMMA InitInvariant == Init => IInv
<1>. SUFFICES ASSUME Init  PROVE IInv
  OBVIOUS
<1>1. /\ files = [journal |-> <<>>, torn |-> FALSE, checkpoint |-> NoState]
      /\ authority = [bound |-> FALSE, committed |-> NoState, pending |-> NoState]
      /\ op = Idle /\ returned = {} /\ rejected = FALSE /\ backup = files
      /\ crashes = 0 /\ restores = 0
  BY DEF Init, MA!NoHistory
<1>2. op \in Operations /\ op.at = "idle"
  <2>1. 0 \in 0..MaxTime /\ 0 \in 0..MaxRecords
    BY ConstantsAssumption
  <2>. QED  BY <1>1, <2>1, StateParts DEF Idle, Operations
<1>3. Typed
  <2>1. NoState.journal \in Journals
    BY StateParts DEF States
  <2>2. files \in Workspaces
    BY <1>1, <2>1, StateParts DEF Workspaces
  <2>3. authority \in Authorities
    BY <1>1, StateParts DEF Authorities
  <2>4. crashes \in 0..MaxCrashes /\ restores \in 0..MaxRestores
    BY <1>1, ConstantsAssumption
  <2>. QED  BY <1>1, <1>2, <2>2, <2>3, <2>4 DEF Typed
<1>4. ~Pending /\ Current
  BY <1>1, StateParts DEF Pending, Current
<1>5. AtStep /\ Prepares
  BY <1>2, <1>4 DEF AtStep, Prepares, BeforeRecord
<1>6. Bound /\ FilesFollow
  BY <1>1, <1>4 DEF Bound, FilesFollow
<1>7. WellFormed(NoState)
  <2>1. NoState.journal = <<>>
    BY StateParts
  <2>2. DOMAIN (<<>>) = {}
    OBVIOUS
  <2>. QED  BY <2>1, <2>2 DEF WellFormed, Of, ReviewsOf
<1>. QED  BY <1>1, <1>3, <1>5, <1>6, <1>7 DEF IInv

LEMMA NextInvariant == IInv /\ [Next]_vars => IInv'
<1>. SUFFICES ASSUME IInv, [Next]_vars  PROVE IInv'
  OBVIOUS
<1>1. CASE UNCHANGED vars
  <2>1. /\ op' = op /\ op \in Operations /\ files' = files /\ authority' = authority
        /\ UNCHANGED <<files, authority, returned, rejected, environment>>
    BY <1>1 DEF vars, environment, IInv, Typed
  <2>2. AtStep'
    BY <2>1 DEF IInv, AtStep, BeforeRecord, Checks, Current, Pending
  <2>3. Prepares'
    BY <2>1 DEF IInv, Prepares, Pending
  <2>. QED  BY <2>1, <2>2, <2>3, OperationMoves
<1>2. ASSUME NEW kind \in {"open", "review"}, Begin(kind, 0)  PROVE IInv'
  BY <1>2, BeginKeeps
<1>3. ASSUME NEW kind \in {"confirm", "resolve", "consume"},
             NEW r \in Of(files.journal, "review"), Begin(kind, r)
      PROVE  IInv'
  BY <1>3, BeginKeeps
<1>4. CASE LoadRefuses
  BY <1>1, <1>4 DEF LoadRefuses
<1>5. CASE Ensure
  BY <1>5, EnsureKeeps
<1>6. CASE RefuseByState \/ RefuseByClock \/ ActWithoutRecord \/ EnsureRefused
  BY <1>6, RefuseKeeps
  DEF RefuseByState, RefuseByClock, ActWithoutRecord, EnsureRefused
<1>7. CASE ReadClock
  BY <1>7, ReadClockKeeps
<1>8. CASE PrepareClock \/ PrepareAppend
  BY <1>8, PrepareKeeps DEF PrepareClock, PrepareAppend
<1>9. CASE WriteClock \/ WriteAppend
  BY <1>9, WriteKeeps DEF WriteClock, WriteAppend
<1>10. CASE CommitClock
  BY <1>10, CommitClockKeeps
<1>11. CASE ActReview
  BY <1>11, ActReviewKeeps
<1>12. CASE ActRecord
  BY <1>12, ActRecordKeeps
<1>13. CASE AppendRecord
  BY <1>13, AppendRecordKeeps
<1>14. CASE CommitAppend
  BY <1>14, CommitAppendKeeps
<1>15. CASE Crash
  BY <1>15, CrashKeeps
<1>16. CASE BackUp
  BY <1>16, BackUpKeeps
<1>17. CASE Restore
  BY <1>17, RestoreKeeps
<1>. QED  BY <1>1, <1>2, <1>3, <1>4, <1>5, <1>6, <1>7, <1>8, <1>9, <1>10, <1>11,
             <1>12, <1>13, <1>14, <1>15, <1>16, <1>17 DEF Next

\* The inductive invariant holds: at each of its durable steps an operation
\* leaves files and authority where AtStep says, whatever died or came back
\* from a backup before.
THEOREM Invariant == Spec => []IInv
BY InitInvariant, NextInvariant, PTL DEF Spec

\* A half-written record of the authority is a fact about the past: no part of
\* the inductive invariant needs to know of it.
LEMMA PartialTyped == Spec => [](partial \in BOOLEAN)
<1>. DEFINE PartialOK == partial \in BOOLEAN
<1>1. Init => PartialOK
  BY DEF Init
<1>2. PartialOK /\ [Next]_vars => PartialOK'
  BY DEF Next, vars, environment, Begin, LoadRefuses, EnsureRefused, Ensure, Refuse,
         RefuseByState, RefuseByClock, ReadClock, Prepare, PrepareClock,
         PrepareAppend, WriteCheckpoint, WriteClock, WriteAppend, CommitClock,
         ActReview, ActRecord, ActWithoutRecord, AppendRecord, CommitAppend, Crash,
         BackUp, Restore
<1>3. Spec => []PartialOK
  <2>. HIDE DEF PartialOK
  <2>. QED  BY <1>1, <1>2, PTL DEF Spec
<1>. QED  BY <1>3

\* Every variable keeps its type: journals and checkpoints of known records,
\* within the bounds on records, instants, crashes and restorations.
THEOREM TypeCorrect == Spec => []TypeOK
<1>1. IInv /\ partial \in BOOLEAN => TypeOK
  <2>. SUFFICES ASSUME IInv, partial \in BOOLEAN  PROVE TypeOK
    OBVIOUS
  <2>1. \A j \in Journals : IsJournal(j)
    BY DEF Journals, IsJournal
  <2>2. \A s \in States : IsState(s)
    BY <2>1 DEF States, IsState
  <2>. QED  BY <2>1, <2>2
            DEF IInv, Typed, TypeOK, Workspaces, Authorities, Operations
<1>. QED  BY <1>1, Invariant, PartialTyped, PTL

\* What an operation returned to its caller stays in the authority's
\* committed history, whatever file is restored afterwards: a receipt whose
\* consumption returned cannot be consumed again.
THEOREM ReturnsArePermanent == Spec => []ReturnedRecordsArePermanent
<1>1. IInv => ReturnedRecordsArePermanent
  BY DEF IInv, Extends, ReturnedRecordsArePermanent
<1>. QED  BY <1>1, Invariant, PTL

\* Process deaths alone, between any two durable steps, leave a workspace
\* that the next operation loads and the authority recognises.
THEOREM CrashesAreRecoverable == Spec => []CrashesAloneAreNeverRejected
<1>1. ASSUME NEW s \in States, WellFormed(s)
      PROVE  s.high >= LastInstant(s.journal)
  <2>1. s.journal \in Seq(Record) /\ s.high \in Nat
    BY RecordTypes
  <2>2. s.journal # <<>> => /\ Len(s.journal) \in DOMAIN s.journal
                            /\ Last(s.journal) = s.journal[Len(s.journal)]
    BY <2>1 DEF Last
  <2>3. s.journal # <<>> => Last(s.journal).at <= s.high
    BY <1>1, <2>2 DEF WellFormed
  <2>4. s.journal # <<>> => Last(s.journal).at \in Nat
    BY <1>1, <2>2, RecordTypes
  <2>. QED  BY <2>1, <2>3, <2>4 DEF LastInstant
<1>2. IInv => CrashesAloneAreNeverRejected
  <2>. SUFFICES ASSUME IInv, restores = 0, ~files.torn
                PROVE  Loadable /\ ~rejected
    BY DEF CrashesAloneAreNeverRejected
  <2>1. /\ authority.committed \in States /\ authority.pending \in States
        /\ WellFormed(authority.committed)
    BY AuthorityMoves DEF IInv, Typed
  <2>2. CASE Current
    <3>1. IsPrefix(files.checkpoint.journal, files.journal)
      BY <2>1, <2>2, ExtendsOrder DEF Current, Extends
    <3>. QED  BY <1>1, <2>1, <2>2, <3>1 DEF IInv, FilesFollow, Loadable, Current
  <2>3. CASE ~Current
    <3>1. /\ Pending /\ files.journal = authority.pending.journal /\ ~rejected
          /\ files.checkpoint \in {authority.committed, authority.pending}
      BY <2>3 DEF IInv, FilesFollow
    <3>2. WellFormed(authority.pending)
          /\ Extends(authority.committed, authority.pending)
      BY <2>1, <3>1, FollowsWellFormed, FollowsExtends DEF IInv, Prepares
    <3>3. WellFormed(files.checkpoint) /\ files.checkpoint \in States
      BY <2>1, <3>1, <3>2
    <3>4. IsPrefix(files.checkpoint.journal, files.journal)
      BY <2>1, <3>1, <3>2, ExtendsOrder DEF Extends
    <3>. QED  BY <1>1, <3>1, <3>3, <3>4 DEF Loadable
  <2>. QED  BY <2>2, <2>3
<1>. QED  BY <1>2, Invariant, PTL

\* The committed state moves only by what a review, a receipt, a consumption
\* or the clock may add to it.
LEMMA CommitsFollow ==
    ASSUME IInv, [Next]_vars
    PROVE  \/ authority'.committed = authority.committed
           \/ /\ Follows(authority.committed, authority'.committed)
              /\ authority.committed \in States /\ authority'.committed \in States
<1>1. authority \in Authorities
  BY DEF IInv, Typed
<1>2. Pending => Follows(authority.committed, authority.pending)
  BY DEF IInv, Prepares
<1>3. CASE authority' = authority
  BY <1>3
<1>4. CASE authority' = MA!Committed(authority) /\ Pending
  BY <1>1, <1>2, <1>4, AuthorityMoves
<1>5. CASE authority' = MA!Aborted(authority)
  BY <1>1, <1>5, AuthorityMoves
<1>6. CASE authority' = MA!Prepared(authority, op.next)
  <2>1. op.next \in States
    BY DEF IInv, Typed, Operations
  <2>. QED  BY <1>1, <1>6, <2>1, AuthorityMoves
<1>7. CASE Ensure
  <2>1. \/ authority' = authority
        \/ authority' = MA!Recovered(authority, Observed)
    BY <1>7 DEF Ensure
  <2>2. \/ authority' = authority
        \/ authority' = MA!Aborted(authority)
        \/ authority' = MA!Committed(authority) /\ Pending
    BY <2>1 DEF MA!Recovered, MA!Pending, Pending
  <2>. QED  BY <1>3, <1>4, <1>5, <2>2
<1>8. CASE CommitClock \/ CommitAppend
  BY <1>4, <1>8 DEF CommitClock, CommitAppend, MA!CanCommit, MA!Pending, Pending
<1>9. CASE PrepareClock \/ PrepareAppend
  BY <1>6, <1>9 DEF PrepareClock, PrepareAppend, Prepare
<1>. QED  BY <1>3, <1>7, <1>8, <1>9
          DEF Next, vars, Begin, LoadRefuses, EnsureRefused, RefuseByState, RefuseByClock, Refuse,
              ReadClock, WriteClock, WriteAppend, WriteCheckpoint, ActReview,
              ActRecord, ActWithoutRecord, AppendRecord, Crash, BackUp, Restore

\* Every commit, whether the operation made it or the recovery that found its
\* record, is one step of the abstract lifecycle, and nothing else moves it:
\* one receipt for a decision, one consumption of it, in time.
THEOREM Refinement == Spec => ImplementsReceiptLifecycle
<1>1. Init => Lifecycle!Init
  <2>. SUFFICES ASSUME Init  PROVE Lifecycle!Init
    OBVIOUS
  <2>1. authority.committed = NoState
    BY DEF Init, MA!NoHistory
  <2>2. authority.committed.journal = <<>> /\ authority.committed.high = 0
    BY <2>1, StateParts
  <2>3. \A kind : Of(<<>>, kind) = {}
    BY DEF Of
  <2>4. \A d \in Decisions : StageOf(<<>>, d) = "none" /\ DeadlineOf(<<>>, d) = 0
    BY <2>3 DEF StageOf, DeadlineOf, HasReceipt, ReviewsOf
  <2>. QED  BY <2>2, <2>4 DEF Lifecycle!Init, stageBar, deadlineBar
<1>2. IInv /\ [Next]_vars => [Lifecycle!Next]_(Lifecycle!vars)
  <2>. SUFFICES ASSUME IInv, [Next]_vars
                PROVE  [Lifecycle!Next]_(Lifecycle!vars)
    OBVIOUS
  <2>. DEFINE s == authority.committed
              t == authority'.committed
  <2>1. /\ stageBar = Stages(s) /\ stageBar' = Stages(t)
        /\ deadlineBar = Deadlines(s) /\ deadlineBar' = Deadlines(t)
    BY DEF stageBar, deadlineBar, Stages, Deadlines
  <2>2. CASE t = s
    BY <2>1, <2>2 DEF Lifecycle!vars
  <2>3. CASE t # s
    <3>1. LifecycleStep(s, t)
      BY <2>3, CommitsFollow, FollowsLifecycle DEF IInv
    <3>2. Lifecycle!Next
      BY <2>1, <3>1
         DEF LifecycleStep, Lifecycle!Next, Lifecycle!ClockAdvances,
             Lifecycle!Review, Lifecycle!Confirm, Lifecycle!Consume
    <3>. QED  BY <3>2
  <2>. QED  BY <2>2, <2>3
<1>. QED  BY <1>1, <1>2, Invariant, PTL
          DEF Spec, ImplementsReceiptLifecycle, Lifecycle!Spec

=============================================================================
