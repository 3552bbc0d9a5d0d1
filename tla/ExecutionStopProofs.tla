------------------------ MODULE ExecutionStopProofs -------------------------
(***************************************************************************)
(* Machine-checked proofs about ExecutionStop, for every number of         *)
(* processes, confirmations, records, crashes and restored backups: its    *)
(* types, what a lease acts on, that commands which returned are           *)
(* permanent, on which state an ARM goes, that crashes alone never end in  *)
(* a conflict, that only an ARM anchors an ARM, and that the authority's   *)
(* committed chain is the register of ModeRegister.  The inductive         *)
(* invariant says where files and authority stand at each step of the one  *)
(* process inside the lock (Standing), what it is about to append          *)
(* (Intends), what may be pending (Chain), what every operator was told    *)
(* (Told), and, while no backup came back, that the files are on one side  *)
(* of the transition (FilesFollow).                                        *)
(***************************************************************************)
EXTENDS ExecutionStop, JournalLemmas

\* The journals that records minted so far can make: no record stands
\* earlier than its number.
Journals ==
    {j \in Seq(Record) : \A i \in DOMAIN j : i <= j[i].id /\ j[i].id <= minted}
Workspaces == [journal : Journals, torn : BOOLEAN, anchor : Journals]
Authorities == [bound : BOOLEAN, committed : Journals, pending : Journals]
Locations ==
    [kind : {"none", "current", "lease", "append", "recover"},
     base : Journals, next : Journals]

Typed ==
    /\ files \in Workspaces /\ backup \in Workspaces
    /\ authority \in Authorities
    /\ receipt \in BOOLEAN
    /\ owner \in Procs \cup {NoProc}
    /\ pc \in [Procs -> Labels]
    /\ loc \in [Procs -> Locations]
    /\ known \in [Procs -> Journals]
    /\ rejected \in BOOLEAN
    /\ baseline \in Journals /\ baseline \in Baselines
    /\ minted \in 0..MaxRecords
    /\ crashes \in 0..MaxCrashes /\ restores \in 0..MaxRestores

OneInside == \A p \in Procs : pc[p] # "idle" <=> owner = p

\* What a command adds to a chain: a STOP to any, an ARM with a confirmation
\* of its own to one that exists.
Commands(c, n) ==
    \E e \in Record :
        /\ n = Append(c, e)
        /\ \/ e.mode = "STOPPED" /\ e.conf = NoConf
           \/ /\ e.mode = "ARMED" /\ c # <<>>
              /\ e.conf \in Confs /\ e.conf \notin Spent(c)

Pending == authority.pending # <<>>

\* The record a command is going to append, and the length of the chain its
\* operator was told when it is an ARM.
Intends(p) ==
    loc[p].kind = "append" =>
        /\ Commands(loc[p].base, loc[p].next)
        /\ Mode(loc[p].next) = "ARMED" => Len(known[p]) = Len(loc[p].base)

\* Where files and authority stand while p is inside the lock.
Standing(p) ==
    /\ pc[p] \in {"prepare", "receipt", "append", "anchor", "commit"} =>
          loc[p].kind = "append"
    /\ pc[p] = "repair" =>
          ~files.torn /\ files.journal # <<>> /\ loc[p].kind # "append"
    /\ pc[p] \in {"ensure", "adopt", "adopted", "prepare", "receipt", "append",
                  "return", "admit", "lease"} =>
          Readable /\ files.journal = loc[p].base
    /\ pc[p] = "anchor" =>
          ~files.torn /\ files.journal = loc[p].next /\ files.anchor = loc[p].base
    /\ pc[p] = "commit" => Readable /\ files.journal = loc[p].next
    /\ pc[p] \in {"adopt", "adopted"} =>
          /\ authority.bound /\ authority.committed = <<>>
          /\ Pending /\ authority.pending = loc[p].base
    /\ pc[p] \in {"prepare", "return", "admit", "lease"} =>
          ~Pending /\ authority.committed = loc[p].base
    /\ pc[p] \in {"receipt", "append", "anchor", "commit"} =>
          authority.committed = loc[p].base /\ authority.pending = loc[p].next
    /\ pc[p] = "lease" => Mode(loc[p].base) = "ARMED"

Upgraded(f) == ~f.torn /\ f.journal = baseline /\ f.anchor = baseline

\* What the authority may have pending, what it knows nothing of, and that an
\* upgraded workspace starts from its old journal.
Chain ==
    /\ ~authority.bound =>
          /\ authority.committed = <<>> /\ ~Pending /\ ~receipt
          /\ Upgraded(files)
          /\ backup # EmptyWorkspace => Upgraded(backup)
    /\ baseline # <<>> =>
          /\ files.journal # <<>> /\ files.anchor # <<>>
          /\ backup # EmptyWorkspace => backup.journal # <<>> /\ backup.anchor # <<>>
          /\ authority.bound /\ authority.committed = <<>> =>
                authority.pending = baseline
    /\ Pending => \/ authority.committed = <<>> /\ authority.pending = baseline
                  \/ Commands(authority.committed, authority.pending)

\* An operator was told a state of the committed chain, or the old journal.
Told(p) == \/ IsPrefix(known[p], authority.committed)
           \/ authority.committed = <<>> /\ known[p] = baseline

Settled ==
    Readable /\ \/ files.journal = authority.committed
                \/ Pending /\ files.journal = authority.pending

\* Without a restored backup the files agree with one side of the transition,
\* or the anchor is on the one side and the journal on either.
FilesFollow ==
    restores = 0 =>
        /\ ~rejected
        /\ authority.bound =>
              \/ Settled
              \/ /\ Pending /\ Commands(authority.committed, authority.pending)
                 /\ files.anchor = authority.committed
                 /\ files.journal \in {authority.committed, authority.pending}

IInv ==
    /\ Typed
    /\ OneInside
    /\ \A p \in Procs : Intends(p) /\ Standing(p) /\ Told(p)
    /\ Chain
    /\ ReturnedCommandsArePermanent
    /\ FilesFollow

-----------------------------------------------------------------------------
(* Journals, and what a command adds to one.                               *)

\* A journal holds no more records than were minted.
LEMMA JournalTypes ==
    ASSUME minted \in Nat
    PROVE  /\ <<>> \in Journals
           /\ \A j \in Journals : /\ j \in Seq(Record) /\ Len(j) \in Nat
                                  /\ Len(j) <= minted
                                  /\ Ids(j) \subseteq 1..minted
<1>1. \A e \in Record : e.id \in Nat \ {0}
  BY ConstantsAssumption DEF Record
<1>2. <<>> \in Journals
  <2>. DEFINE e == <<>>
  <2>1. e \in Seq(Record) /\ DOMAIN e = {}
    OBVIOUS
  <2>. HIDE DEF e
  <2>2. e \in Journals
    BY <2>1 DEF Journals
  <2>. QED  BY <2>2 DEF e
<1>3. ASSUME NEW j \in Journals
      PROVE  /\ j \in Seq(Record) /\ Len(j) \in Nat /\ Len(j) <= minted
             /\ Ids(j) \subseteq 1..minted
  <2>1. /\ j \in Seq(Record)
        /\ \A i \in DOMAIN j : i <= j[i].id /\ j[i].id <= minted
    BY DEF Journals
  <2>2. Len(j) \in Nat /\ DOMAIN j = 1..Len(j) /\ \A i \in DOMAIN j : j[i] \in Record
    BY <2>1
  <2>3. \A i \in DOMAIN j : j[i].id \in 1..minted
    BY <1>1, <2>1, <2>2
  <2>4. Len(j) <= minted
    <3>1. CASE Len(j) = 0
      BY <3>1
    <3>2. CASE Len(j) # 0
      <4>1. Len(j) \in DOMAIN j
        BY <2>2, <3>2
      <4>2. Len(j) <= j[Len(j)].id /\ j[Len(j)].id <= minted /\ j[Len(j)].id \in Nat
        BY <1>1, <2>1, <2>2, <4>1
      <4>. QED  BY <2>2, <4>2
    <3>. QED  BY <3>1, <3>2
  <2>. QED  BY <2>1, <2>2, <2>3, <2>4 DEF Ids
<1>. QED  BY <1>2, <1>3

\* A record more, numbered after every record minted so far.
LEMMA JournalAppend ==
    ASSUME minted \in Nat, minted' = minted + 1,
           NEW j \in Journals, NEW e \in Record, e.id = minted + 1
    PROVE  Append(j, e) \in Journals' /\ Journals \subseteq Journals'
<1>1. \A k \in Journals : k \in Journals'
  <2>. SUFFICES ASSUME NEW k \in Journals  PROVE k \in Journals'
    OBVIOUS
  <2>1. /\ k \in Seq(Record)
        /\ \A i \in DOMAIN k : i <= k[i].id /\ k[i].id <= minted /\ k[i] \in Record
    BY DEF Journals
  <2>2. \A i \in DOMAIN k : k[i].id \in Nat
    BY <2>1, ConstantsAssumption DEF Record
  <2>3. \A i \in DOMAIN k : k[i].id <= minted'
    BY <2>1, <2>2
  <2>. QED  BY <2>1, <2>3 DEF Journals
<1>2. Append(j, e) \in Journals'
  <2>1. j \in Seq(Record) /\ Len(j) <= minted
    BY JournalTypes
  <2>2. \A i \in DOMAIN j : i <= j[i].id /\ j[i].id <= minted'
    BY <1>1 DEF Journals
  <2>3. Append(j, e) \in Seq(Record) /\ Len(j) \in Nat
        /\ DOMAIN Append(j, e) = DOMAIN j \cup {Len(j) + 1}
        /\ Append(j, e)[Len(j) + 1] = e
        /\ \A i \in DOMAIN j : Append(j, e)[i] = j[i]
    BY <2>1, AppendMeaning
  <2>4. \A i \in DOMAIN Append(j, e) : /\ i <= Append(j, e)[i].id
                                       /\ Append(j, e)[i].id <= minted'
    BY <2>1, <2>2, <2>3
  <2>. QED  BY <2>3, <2>4 DEF Journals
<1>. QED  BY <1>1, <1>2

\* A command extends a chain by the one record it carries, and spends a
\* confirmation exactly when it arms.
LEMMA CommandMeaning ==
    ASSUME NEW c \in Seq(Record), NEW n, Commands(c, n)
    PROVE  /\ n \in Seq(Record) /\ n # <<>> /\ n # c
           /\ Len(n) = Len(c) + 1 /\ IsPrefix(c, n)
           /\ Append(c, Last(n)) = n
           /\ \/ Mode(n) = "STOPPED" /\ Spent(n) = Spent(c)
              \/ /\ Mode(n) = "ARMED" /\ c # <<>>
                 /\ \E x \in Confs : x \notin Spent(c) /\ Spent(n) = Spent(c) \cup {x}
<1>1. PICK e \in Record :
        /\ n = Append(c, e)
        /\ \/ e.mode = "STOPPED" /\ e.conf = NoConf
           \/ /\ e.mode = "ARMED" /\ c # <<>>
              /\ e.conf \in Confs /\ e.conf \notin Spent(c)
  BY DEF Commands
<1>2. /\ n \in Seq(Record) /\ n # <<>> /\ Len(c) \in Nat /\ Len(n) = Len(c) + 1
      /\ DOMAIN n = DOMAIN c \cup {Len(c) + 1}
      /\ \A i \in DOMAIN c : n[i] = c[i]
      /\ n[Len(c) + 1] = e /\ Last(n) = e /\ IsPrefix(c, n)
  BY <1>1, AppendMeaning
<1>3. n # c /\ Append(c, Last(n)) = n
  BY <1>1, <1>2
<1>4. Mode(n) = e.mode
  BY <1>2 DEF Mode
<1>5. Spent(n) = (Spent(c) \cup {e.conf}) \ {NoConf}
  BY <1>2 DEF Spent
<1>6. NoConf \notin Spent(c) /\ NoConf \notin Confs
  BY ConstantsAssumption DEF Spent
<1>7. \/ Mode(n) = "STOPPED" /\ Spent(n) = Spent(c)
      \/ /\ Mode(n) = "ARMED" /\ c # <<>>
         /\ \E x \in Confs : x \notin Spent(c) /\ Spent(n) = Spent(c) \cup {x}
  <2>1. CASE e.mode = "STOPPED" /\ e.conf = NoConf
    BY <1>4, <1>5, <1>6, <2>1
  <2>2. CASE /\ e.mode = "ARMED" /\ c # <<>>
             /\ e.conf \in Confs /\ e.conf \notin Spent(c)
    <3>1. Spent(n) = Spent(c) \cup {e.conf}
      BY <1>5, <1>6, <2>2
    <3>. QED  BY <1>4, <2>2, <3>1
  <2>. QED  BY <1>1, <2>1, <2>2
<1>. QED  BY <1>2, <1>3, <1>7

\* A longer chain has every record of the shorter one.
LEMMA IdsGrow ==
    ASSUME NEW s \in Seq(Record), NEW t \in Seq(Record), IsPrefix(s, t)
    PROVE  Ids(s) \subseteq Ids(t)
<1>1. Len(s) <= Len(t) /\ \A i \in 1..Len(s) : s[i] = t[i]
  BY PrefixMeaning
<1>2. Len(s) \in Nat /\ Len(t) \in Nat /\ DOMAIN s = 1..Len(s) /\ DOMAIN t = 1..Len(t)
  OBVIOUS
<1>3. \A i \in DOMAIN s : i \in DOMAIN t /\ s[i] = t[i]
  BY <1>1, <1>2
<1>. QED  BY <1>3 DEF Ids

-----------------------------------------------------------------------------
(* What the pieces of an action leave in each variable.                    *)

LEMMA AuthorityMoves ==
    ASSUME authority \in Authorities, <<>> \in Journals
    PROVE  /\ authority.committed \in Journals /\ authority.pending \in Journals
           /\ authority.bound \in BOOLEAN
           /\ \A s \in Journals :
                LET a == MA!Prepared(authority, s)
                IN  /\ a \in Authorities /\ a.bound
                    /\ a.committed = authority.committed /\ a.pending = s
           /\ LET a == MA!Committed(authority)
              IN  /\ a \in Authorities /\ a.bound = authority.bound
                  /\ a.committed = authority.pending /\ a.pending = <<>>
           /\ LET a == MA!Aborted(authority)
              IN  /\ a \in Authorities /\ a.bound = authority.bound
                  /\ a.committed = authority.committed /\ a.pending = <<>>
BY DEF Authorities, MA!Prepared, MA!Committed, MA!Aborted

\* The parts of the state that types alone give.
LEMMA TypedParts ==
    ASSUME Typed
    PROVE  /\ minted \in Nat /\ <<>> \in Journals
           /\ files.journal \in Journals /\ files.anchor \in Journals
           /\ files.torn \in BOOLEAN
           /\ authority.committed \in Journals /\ authority.pending \in Journals
           /\ \A p \in Procs : /\ pc[p] \in Labels /\ loc[p] \in Locations
                               /\ loc[p].base \in Journals
                               /\ loc[p].next \in Journals
                               /\ known[p] \in Journals
           /\ NoLocals \in Locations
<1>1. minted \in Nat
  BY ConstantsAssumption DEF Typed
<1>2. <<>> \in Journals
  BY <1>1, JournalTypes
<1>3. /\ files.journal \in Journals /\ files.anchor \in Journals
      /\ files.torn \in BOOLEAN
  BY DEF Typed, Workspaces
<1>4. authority.committed \in Journals /\ authority.pending \in Journals
  BY DEF Typed, Authorities
<1>5. \A p \in Procs : /\ pc[p] \in Labels /\ loc[p] \in Locations
                       /\ loc[p].base \in Journals /\ loc[p].next \in Journals
                       /\ known[p] \in Journals
  BY DEF Typed, Locations
<1>6. NoLocals \in Locations
  BY <1>2 DEF NoLocals, Locations
<1>. QED  BY <1>1, <1>2, <1>3, <1>4, <1>5, <1>6

\* Nobody else is inside while one process is; and nobody is when the lock is
\* free.
LEMMA OthersAreOut ==
    ASSUME OneInside
    PROVE  /\ \A p, q \in Procs : pc[p] # "idle" /\ q # p => pc[q] = "idle"
           /\ owner = NoProc => \A q \in Procs : pc[q] = "idle"
           /\ \A p \in Procs : owner = p => pc[p] # "idle"
BY ConstantsAssumption DEF OneInside

\* Outside the lock a process stands nowhere.
LEMMA IdleStands ==
    ASSUME NEW p \in Procs, pc'[p] = "idle"
    PROVE  Standing(p)'
BY DEF Standing

\* The one inside goes on.
LEMMA GoesOn ==
    ASSUME Typed, OneInside, NEW p \in Procs, NEW label \in Labels \ {"idle"},
           pc[p] # "idle", Goto(p, label), owner' = owner
    PROVE  /\ pc' \in [Procs -> Labels] /\ pc'[p] = label /\ OneInside'
           /\ \A q \in Procs : q # p => pc'[q] = "idle"
<1>1. pc \in [Procs -> Labels] /\ pc' = [pc EXCEPT ![p] = label]
  BY DEF Typed, Goto
<1>2. \A q \in Procs : q # p => pc[q] = "idle"
  BY OthersAreOut
<1>. QED  BY <1>1, <1>2 DEF OneInside

\* It goes out, and nobody is inside.
LEMMA GoesOut ==
    ASSUME Typed, OneInside, NEW p \in Procs, pc[p] # "idle", Leave(p)
    PROVE  /\ pc' \in [Procs -> Labels] /\ OneInside' /\ owner' = NoProc
           /\ \A q \in Procs : pc'[q] = "idle"
           /\ \A q \in Procs : Standing(q)'
           /\ minted' = minted => loc' \in [Procs -> Locations']
           /\ \A q \in Procs : Intends(q) /\ (q # p => known'[q] = known[q])
                                 => Intends(q)'
<1>1. /\ pc \in [Procs -> Labels] /\ pc' = [pc EXCEPT ![p] = "idle"]
      /\ loc \in [Procs -> Locations] /\ loc' = [loc EXCEPT ![p] = NoLocals]
      /\ owner' = NoProc /\ "idle" \in Labels
  BY DEF Typed, Leave, Goto, Labels
<1>2. \A q \in Procs : q # p => pc[q] = "idle"
  BY OthersAreOut
<1>3. pc' \in [Procs -> Labels] /\ \A q \in Procs : pc'[q] = "idle"
  BY <1>1, <1>2
<1>4. OneInside'
  BY <1>1, <1>3, ConstantsAssumption DEF OneInside
<1>5. minted' = minted => loc' \in [Procs -> Locations']
  BY <1>1, TypedParts DEF Locations, Journals
<1>6. \A q \in Procs : loc'[q] = IF q = p THEN NoLocals ELSE loc[q]
  BY <1>1
<1>7. ASSUME NEW q \in Procs, Intends(q), q # p => known'[q] = known[q]
      PROVE  Intends(q)'
  <2>1. CASE q = p
    BY <1>6, <2>1 DEF Intends, NoLocals
  <2>2. CASE q # p
    BY <1>6, <1>7, <2>2 DEF Intends
  <2>. QED  BY <2>1, <2>2
<1>. QED  BY <1>1, <1>3, <1>4, <1>5, <1>7, IdleStands

\* It comes in when nobody is inside.
LEMMA ComesIn ==
    ASSUME Typed, OneInside, NEW p \in Procs, NEW label \in Labels \ {"idle"},
           NEW locals, Enter(p, label, locals)
    PROVE  /\ pc' \in [Procs -> Labels] /\ OneInside' /\ owner' \in Procs
           /\ pc'[p] = label /\ loc'[p] = locals
           /\ \A q \in Procs : q # p => pc'[q] = "idle" /\ loc'[q] = loc[q]
           /\ \A q \in Procs : q # p => Standing(q)'
           /\ \A L : loc \in [Procs -> L] /\ locals \in L => loc' \in [Procs -> L]
<1>1. /\ pc \in [Procs -> Labels] /\ pc' = [pc EXCEPT ![p] = label]
      /\ loc \in [Procs -> Locations] /\ loc' = [loc EXCEPT ![p] = locals]
      /\ owner' = p /\ owner = NoProc
  BY DEF Typed, Enter, Goto
<1>2. \A q \in Procs : pc[q] = "idle"
  BY <1>1, OthersAreOut
<1>3. /\ pc' \in [Procs -> Labels] /\ pc'[p] = label /\ loc'[p] = locals
      /\ \A q \in Procs : q # p => pc'[q] = "idle" /\ loc'[q] = loc[q]
  BY <1>1, <1>2
<1>4. OneInside'
  BY <1>1, <1>3 DEF OneInside
<1>5. \A L : loc \in [Procs -> L] /\ locals \in L => loc' \in [Procs -> L]
  BY <1>1
<1>. QED  BY <1>1, <1>3, <1>4, <1>5, IdleStands

-----------------------------------------------------------------------------
(* What an action that touches part of the state leaves of the invariant.  *)

LEMMA SameTypes ==
    ASSUME minted' = minted
    PROVE  /\ Journals' = Journals /\ Workspaces' = Workspaces
           /\ Authorities' = Authorities /\ Locations' = Locations
BY DEF Journals, Workspaces, Authorities, Locations

LEMMA WorldKept ==
    ASSUME IInv, files' = files, authority' = authority, receipt' = receipt,
           acked' = acked, rejected' = rejected, backup' = backup,
           baseline' = baseline, restores' = restores
    PROVE  /\ Chain' /\ ReturnedCommandsArePermanent' /\ FilesFollow'
           /\ \A q \in Procs : known'[q] = known[q] => Told(q)'
<1>1. Pending' <=> Pending
  BY DEF Pending
<1>2. Chain'
  BY <1>1 DEF IInv, Chain, Upgraded
<1>3. ReturnedCommandsArePermanent'
  BY DEF IInv, ReturnedCommandsArePermanent
<1>4. FilesFollow'
  BY <1>1 DEF IInv, FilesFollow, Settled, Readable
<1>5. \A q \in Procs : known'[q] = known[q] => Told(q)'
  BY DEF IInv, Told
<1>. QED  BY <1>2, <1>3, <1>4, <1>5

\* A step that commits what was pending keeps everything said of the chain.
LEMMA CommitMoves ==
    ASSUME IInv, Pending, authority' = MA!Committed(authority),
           files' = files, backup' = backup, baseline' = baseline,
           minted' = minted, restores' = restores, rejected' = rejected
    PROVE  /\ authority' \in Authorities' /\ authority'.committed = authority.pending
           /\ ~Pending' /\ Chain' /\ authority'.bound
           /\ IsPrefix(authority.committed, authority.pending)
           /\ acked \subseteq Ids(authority'.committed)
           /\ \A q \in Procs : known'[q] = known[q] => Told(q)'
           /\ Readable /\ files.journal = authority.pending => FilesFollow'
<1>1. /\ authority \in Authorities /\ minted \in Nat /\ <<>> \in Journals
      /\ authority.committed \in Journals /\ authority.pending \in Journals
      /\ baseline \in Journals
      /\ \A q \in Procs : known[q] \in Journals
  BY TypedParts DEF IInv, Typed
<1>2. /\ authority' \in Authorities' /\ authority'.bound = authority.bound
      /\ authority'.committed = authority.pending /\ authority'.pending = <<>>
  BY <1>1, AuthorityMoves, SameTypes
<1>3. authority.bound
  BY DEF IInv, Chain
<1>4. /\ authority.committed \in Seq(Record) /\ authority.pending \in Seq(Record)
      /\ \A q \in Procs : known[q] \in Seq(Record)
  BY <1>1, JournalTypes
<1>5. \/ authority.committed = <<>> /\ authority.pending = baseline
      \/ Commands(authority.committed, authority.pending)
  BY DEF IInv, Chain
<1>6. IsPrefix(authority.committed, authority.pending)
  BY <1>4, <1>5, PrefixOrder, CommandMeaning
<1>7. acked \subseteq Ids(authority'.committed)
  BY <1>2, <1>4, <1>6, IdsGrow DEF IInv, ReturnedCommandsArePermanent
<1>8. Chain'
  BY <1>2, <1>3 DEF IInv, Chain, Pending
<1>9. ASSUME NEW q \in Procs, known'[q] = known[q]
      PROVE  Told(q)'
  <2>1. IsPrefix(known[q], authority.pending)
    <3>1. CASE IsPrefix(known[q], authority.committed)
      BY <1>4, <1>6, <3>1, PrefixOrder
    <3>2. CASE authority.committed = <<>> /\ known[q] = baseline
      <4>1. CASE authority.pending = baseline
        BY <1>4, <3>2, <4>1, PrefixOrder
      <4>2. CASE authority.pending # baseline
        <5>1. baseline = <<>>
          BY <1>3, <3>2, <4>2 DEF IInv, Chain
        <5>. QED  BY <1>4, <3>2, <5>1, PrefixOrder
      <4>. QED  BY <4>1, <4>2
    <3>. QED  BY <3>1, <3>2 DEF IInv, Told
  <2>. QED  BY <1>2, <1>9, <2>1 DEF Told
<1>10. Readable /\ files.journal = authority.pending => FilesFollow'
  BY <1>2 DEF IInv, FilesFollow, Settled, Readable
<1>. QED  BY <1>2, <1>3, <1>6, <1>7, <1>8, <1>9, <1>10 DEF Pending

\* An operation that reads begins.
LEMMA BeginKeeps ==
    ASSUME IInv, NEW p \in Procs, NEW label \in {"ensure", "repair"},
           NEW locals \in Locations, Enter(p, label, locals),
           locals.kind # "append",
           label = "ensure" => Readable /\ files.journal = locals.base,
           label = "repair" => ~files.torn /\ files.journal # <<>>,
           UNCHANGED <<files, authority, receipt, known, acked, rejected, environment>>
    PROVE  IInv'
<1>1. /\ files' = files /\ authority' = authority /\ receipt' = receipt
      /\ known' = known /\ acked' = acked /\ rejected' = rejected
      /\ backup' = backup /\ baseline' = baseline /\ minted' = minted
      /\ crashes' = crashes /\ restores' = restores
      /\ label \in Labels \ {"idle"}
  BY DEF environment, Labels
<1>2. /\ pc' \in [Procs -> Labels] /\ OneInside' /\ owner' \in Procs
      /\ pc'[p] = label /\ loc'[p] = locals
      /\ \A q \in Procs : q # p => loc'[q] = loc[q] /\ Standing(q)'
      /\ loc' \in [Procs -> Locations]
  BY <1>1, ComesIn DEF IInv, Typed
<1>3. Typed'
  BY <1>1, <1>2, SameTypes DEF IInv, Typed
<1>4. \A q \in Procs : Intends(q)'
  BY <1>1, <1>2 DEF IInv, Intends
<1>5. Standing(p)'
  BY <1>1, <1>2 DEF Standing, Readable
<1>6. /\ Chain' /\ ReturnedCommandsArePermanent' /\ FilesFollow'
      /\ \A q \in Procs : Told(q)'
  BY <1>1, WorldKept
<1>. QED  BY <1>2, <1>3, <1>4, <1>5, <1>6 DEF IInv

LEMMA BeginsKeep ==
    ASSUME IInv, NEW p \in Procs,
           BeginCurrent(p) \/ BeginLease(p) \/ BeginRecover(p)
    PROVE  IInv'
<1>1. files.journal \in Journals /\ <<>> \in Journals
  BY TypedParts DEF IInv
<1>2. CASE BeginCurrent(p)
  <2>. DEFINE l == [NoLocals EXCEPT !.kind = "current", !.base = files.journal]
  <2>1. l \in Locations /\ l.kind # "append" /\ l.base = files.journal
    BY <1>1 DEF NoLocals, Locations
  <2>2. /\ Enter(p, "ensure", l) /\ Readable
        /\ UNCHANGED <<files, authority, receipt, known, acked, rejected, environment>>
    BY <1>2 DEF BeginCurrent
  <2>. HIDE DEF l
  <2>. QED  BY <2>1, <2>2, BeginKeeps
<1>3. CASE BeginLease(p)
  <2>. DEFINE l == [NoLocals EXCEPT !.kind = "lease", !.base = files.journal]
  <2>1. l \in Locations /\ l.kind # "append" /\ l.base = files.journal
    BY <1>1 DEF NoLocals, Locations
  <2>2. /\ Enter(p, "ensure", l) /\ Readable
        /\ UNCHANGED <<files, authority, receipt, known, acked, rejected, environment>>
    BY <1>3 DEF BeginLease
  <2>. HIDE DEF l
  <2>. QED  BY <2>1, <2>2, BeginKeeps
<1>4. CASE BeginRecover(p)
  <2>. DEFINE l == [NoLocals EXCEPT !.kind = "recover"]
              label == IF JournalExists THEN "repair" ELSE "ensure"
  <2>1. l \in Locations /\ l.kind # "append" /\ l.base = <<>>
    BY <1>1 DEF NoLocals, Locations
  <2>2. /\ Enter(p, label, l) /\ ~files.torn
        /\ UNCHANGED <<files, authority, receipt, known, acked, rejected, environment>>
    BY <1>4 DEF BeginRecover
  <2>3. /\ label = "repair" => files.journal # <<>>
        /\ label = "ensure" => Readable /\ files.journal = <<>>
        /\ label \in {"ensure", "repair"}
    BY <1>4, <2>2 DEF BeginRecover, JournalExists, AnchorExists, Readable
  <2>. HIDE DEF l, label
  <2>. QED  BY <2>1, <2>2, <2>3, BeginKeeps
<1>. QED  BY <1>2, <1>3, <1>4

\* A command begins with the record it is going to append.
LEMMA BeginAppendKeeps ==
    ASSUME IInv, NEW p \in Procs, NEW e, BeginAppend(p, e),
           e \in Record,
           e.id = minted + 1,
           \/ e.mode = "STOPPED" /\ e.conf = NoConf
           \/ /\ e.mode = "ARMED" /\ files.journal # <<>>
              /\ e.conf \in Confs /\ e.conf \notin Spent(files.journal)
              /\ Len(known[p]) = Len(files.journal)
    PROVE  IInv'
<1>. DEFINE next == Append(files.journal, e)
            l == [kind |-> "append", base |-> files.journal, next |-> next]
<1>1. /\ files' = files /\ authority' = authority /\ receipt' = receipt
      /\ known' = known /\ acked' = acked /\ rejected' = rejected
      /\ backup' = backup /\ baseline' = baseline /\ minted' = minted + 1
      /\ crashes' = crashes /\ restores' = restores
      /\ Readable /\ Enter(p, "ensure", l) /\ minted < MaxRecords
      /\ "ensure" \in Labels \ {"idle"}
  BY DEF BeginAppend, Labels
<1>2. /\ minted \in Nat /\ e \in Record /\ files.journal \in Journals
      /\ files.journal \in Seq(Record)
  BY <1>1, TypedParts, JournalTypes DEF IInv
<1>3. next \in Journals' /\ Journals \subseteq Journals'
  BY <1>1, <1>2, JournalAppend
<1>4. /\ Locations \subseteq Locations' /\ Workspaces \subseteq Workspaces'
      /\ Authorities \subseteq Authorities'
  BY <1>3 DEF Locations, Workspaces, Authorities
<1>5. /\ l \in Locations' /\ l.kind = "append" /\ l.base = files.journal
      /\ l.next = next
  BY <1>2, <1>3 DEF Locations
<1>6. Commands(files.journal, next)
  BY <1>2 DEF Commands
<1>7. Mode(next) = e.mode
  BY <1>2, AppendMeaning DEF Mode
<1>. HIDE DEF l, next
<1>8. /\ pc' \in [Procs -> Labels] /\ OneInside' /\ owner' \in Procs
      /\ pc'[p] = "ensure" /\ loc'[p] = l
      /\ \A q \in Procs : q # p => loc'[q] = loc[q] /\ Standing(q)'
  BY <1>1, ComesIn DEF IInv
<1>9. loc' \in [Procs -> Locations']
  <2>1. loc \in [Procs -> Locations']
    BY <1>4 DEF IInv, Typed
  <2>. QED  BY <1>1, <1>5, <2>1, ComesIn DEF IInv
<1>10. Typed'
  <2>1. minted' \in 0..MaxRecords
    BY <1>1, <1>2, ConstantsAssumption
  <2>2. known \in [Procs -> Journals']
    BY <1>3 DEF IInv, Typed
  <2>3. /\ files \in Workspaces' /\ backup \in Workspaces' /\ baseline \in Journals'
        /\ authority \in Authorities'
    BY <1>3, <1>4 DEF IInv, Typed
  <2>. QED  BY <1>1, <1>8, <1>9, <2>1, <2>2, <2>3 DEF IInv, Typed
<1>11. \A q \in Procs : Intends(q)'
  <2>1. Intends(p)'
    BY <1>1, <1>5, <1>6, <1>7, <1>8 DEF Intends
  <2>2. \A q \in Procs : q # p => Intends(q)'
    BY <1>1, <1>8 DEF IInv, Intends
  <2>. QED  BY <2>1, <2>2
<1>12. Standing(p)'
  BY <1>1, <1>5, <1>8 DEF Standing, Readable
<1>13. /\ Chain' /\ ReturnedCommandsArePermanent' /\ FilesFollow'
       /\ \A q \in Procs : Told(q)'
  BY <1>1, WorldKept
<1>. QED  BY <1>8, <1>10, <1>11, <1>12, <1>13 DEF IInv

LEMMA CommandsBegin ==
    ASSUME IInv, NEW p \in Procs,
           InitializeStopped(p) \/ Stop(p) \/ \E c \in Confs : Arm(p, c)
    PROVE  IInv'
<1>1. minted \in Nat
  BY TypedParts DEF IInv
<1>2. minted < MaxRecords => minted + 1 \in 1..MaxRecords
  BY <1>1, ConstantsAssumption
<1>3. CASE InitializeStopped(p) \/ Stop(p)
  <2>. DEFINE e == StopRecord(minted + 1)
  <2>1. /\ BeginAppend(p, e) /\ minted < MaxRecords
    BY <1>3 DEF InitializeStopped, Stop, BeginAppend
  <2>2. e \in Record /\ e.id = minted + 1 /\ e.mode = "STOPPED" /\ e.conf = NoConf
    BY <1>2, <2>1 DEF StopRecord, Record
  <2>. HIDE DEF e
  <2>. QED  BY <2>1, <2>2, BeginAppendKeeps
<1>4. ASSUME NEW c \in Confs, Arm(p, c)
      PROVE  IInv'
  <2>. DEFINE e == ArmRecord(minted + 1, c)
  <2>1. /\ BeginAppend(p, e) /\ minted < MaxRecords
        /\ Len(known[p]) = Len(files.journal) /\ files.journal # <<>>
        /\ c \notin Spent(files.journal)
    BY <1>4 DEF Arm, ArmAllowed, BeginAppend
  <2>2. e \in Record /\ e.id = minted + 1 /\ e.mode = "ARMED" /\ e.conf = c
    BY <1>2, <2>1 DEF ArmRecord, Record
  <2>. HIDE DEF e
  <2>. QED  BY <2>1, <2>2, BeginAppendKeeps
<1>. QED  BY <1>3, <1>4

-----------------------------------------------------------------------------
(* The steps that bring authority and workspace to agree.                  *)

\* A step of the authority: the process goes on, and only the authority and
\* its receipt may have changed.
LEMMA AuthoritySteps ==
    ASSUME IInv, NEW p \in Procs, NEW label \in Labels \ {"idle"},
           pc[p] # "idle", AuthorityStep(p, label),
           authority' \in Authorities, receipt' \in BOOLEAN,
           Standing(p)', Chain', ReturnedCommandsArePermanent', FilesFollow',
           \A q \in Procs : Told(q)'
    PROVE  IInv'
<1>1. /\ files' = files /\ known' = known /\ rejected' = rejected /\ loc' = loc
      /\ backup' = backup /\ baseline' = baseline /\ minted' = minted
      /\ crashes' = crashes /\ restores' = restores /\ owner' = owner
      /\ Goto(p, label)
  BY DEF AuthorityStep, environment
<1>2. /\ pc' \in [Procs -> Labels] /\ OneInside'
      /\ \A q \in Procs : q # p => pc'[q] = "idle"
  BY <1>1, GoesOn DEF IInv
<1>3. Typed'
  BY <1>1, <1>2, SameTypes DEF IInv, Typed
<1>4. \A q \in Procs : Intends(q)'
  BY <1>1 DEF IInv, Intends
<1>5. \A q \in Procs : Standing(q)'
  BY <1>2, IdleStands
<1>. QED  BY <1>2, <1>3, <1>4, <1>5 DEF IInv

\* What every step of the authority leaves alone, and where it goes.
LEMMA StepFacts ==
    ASSUME IInv, NEW p \in Procs, NEW label \in Labels \ {"idle"},
           pc[p] # "idle", AuthorityStep(p, label)
    PROVE  /\ files' = files /\ known' = known /\ rejected' = rejected
           /\ loc' = loc /\ acked' = acked /\ backup' = backup
           /\ baseline' = baseline /\ minted' = minted /\ restores' = restores
           /\ pc'[p] = label
<1>1. Goto(p, label) /\ owner' = owner
  BY DEF AuthorityStep
<1>. QED  BY <1>1, GoesOn DEF AuthorityStep, environment, IInv

\* An operation continues as its kind asks.
LEMMA Continues ==
    ASSUME IInv, NEW p \in Procs
    PROVE  /\ Continuation(p) \in {"prepare", "admit", "return"}
           /\ Continuation(p) \in Labels \ {"idle"}
           /\ Continuation(p) = "prepare" => loc[p].kind = "append"
BY DEF Continuation, Labels

LEMMA EnsureUnboundKeeps ==
    ASSUME IInv, NEW p \in Procs, EnsureUnbound(p)
    PROVE  IInv'
<1>1. /\ pc[p] = "ensure" /\ pc[p] # "idle" /\ ~authority.bound
      /\ Readable /\ files.journal = loc[p].base
      /\ ~receipt /\ authority.committed = <<>> /\ ~Pending
      /\ Upgraded(files)
      /\ authority \in Authorities /\ receipt \in BOOLEAN
      /\ loc[p].base \in Journals /\ <<>> \in Journals
  BY TypedParts DEF EnsureUnbound, IInv, Standing, Chain, Typed
<1>2. files.journal = baseline
  BY <1>1 DEF Upgraded
<1>3. CASE loc[p].base = <<>> /\ AuthorityStep(p, Continuation(p))
           /\ UNCHANGED <<authority, receipt>>
  <2>1. /\ Continuation(p) \in {"prepare", "admit", "return"}
        /\ Continuation(p) \in Labels \ {"idle"}
        /\ Continuation(p) = "prepare" => loc[p].kind = "append"
    BY Continues
  <2>2. /\ files' = files /\ known' = known /\ rejected' = rejected
        /\ loc' = loc /\ acked' = acked /\ backup' = backup
        /\ baseline' = baseline /\ restores' = restores
        /\ pc'[p] = Continuation(p) /\ authority' = authority /\ receipt' = receipt
    BY <1>1, <1>3, <2>1, StepFacts
  <2>3. Standing(p)'
    BY <1>1, <1>3, <2>1, <2>2 DEF Standing, Readable, Pending
  <2>4. /\ Chain' /\ ReturnedCommandsArePermanent' /\ FilesFollow'
        /\ \A q \in Procs : Told(q)'
    BY <2>2, WorldKept
  <2>. QED  BY <1>1, <1>3, <2>1, <2>2, <2>3, <2>4, AuthoritySteps
<1>4. CASE /\ loc[p].base # <<>> /\ authority' = MA!Prepared(authority, loc[p].base)
           /\ AuthorityStep(p, "adopt") /\ UNCHANGED receipt
  <2>1. "adopt" \in Labels \ {"idle"}
    BY DEF Labels
  <2>2. /\ files' = files /\ known' = known /\ rejected' = rejected
        /\ loc' = loc /\ acked' = acked /\ backup' = backup
        /\ baseline' = baseline /\ restores' = restores /\ pc'[p] = "adopt"
        /\ receipt' = receipt
    BY <1>1, <1>4, <2>1, StepFacts
  <2>3. /\ authority' \in Authorities /\ authority'.bound
        /\ authority'.committed = <<>> /\ authority'.pending = baseline
        /\ baseline # <<>>
    BY <1>1, <1>2, <1>4, AuthorityMoves
  <2>4. Standing(p)'
    BY <1>1, <1>2, <2>2, <2>3 DEF Standing, Readable, Pending
  <2>5. Chain'
    BY <2>2, <2>3 DEF IInv, Chain, Pending
  <2>6. ReturnedCommandsArePermanent' /\ \A q \in Procs : Told(q)'
    BY <1>1, <2>2, <2>3 DEF IInv, ReturnedCommandsArePermanent, Told
  <2>7. FilesFollow'
    BY <1>1, <1>2, <2>2, <2>3 DEF IInv, FilesFollow, Settled, Readable, Pending
  <2>. QED  BY <1>1, <1>4, <2>1, <2>2, <2>3, <2>4, <2>5, <2>6, <2>7, AuthoritySteps
<1>. QED  BY <1>1, <1>3, <1>4 DEF EnsureUnbound

\* The receipt of the binding is written, by whoever finds it missing.
LEMMA ReceiptKeeps ==
    ASSUME IInv, NEW p \in Procs,
           NEW label \in {"adopted", "ensure", "append"}, AuthorityStep(p, label),
           receipt' = TRUE, authority' = authority, authority.bound,
           \/ pc[p] = "adopt" /\ label = "adopted"
           \/ pc[p] = "ensure" /\ label = "ensure"
           \/ pc[p] = "receipt" /\ label = "append"
    PROVE  IInv'
<1>1. label \in Labels \ {"idle"} /\ pc[p] # "idle"
  BY DEF Labels
<1>2. /\ files' = files /\ known' = known /\ rejected' = rejected
      /\ loc' = loc /\ acked' = acked /\ backup' = backup
      /\ baseline' = baseline /\ restores' = restores /\ pc'[p] = label
  BY <1>1, StepFacts
<1>3. Standing(p)'
  <2>1. Standing(p)
    BY DEF IInv
  <2>. QED  BY <1>2, <2>1 DEF Standing, Readable, Pending
<1>4. Chain'
  BY <1>2 DEF IInv, Chain, Pending
<1>5. ReturnedCommandsArePermanent' /\ \A q \in Procs : Told(q)'
  BY <1>2 DEF IInv, ReturnedCommandsArePermanent, Told
<1>6. FilesFollow'
  BY <1>2 DEF IInv, FilesFollow, Settled, Readable, Pending
<1>. QED  BY <1>1, <1>3, <1>4, <1>5, <1>6, AuthoritySteps DEF IInv, Typed

LEMMA ReceiptsKeep ==
    ASSUME IInv, NEW p \in Procs,
           AdoptReceipt(p) \/ EnsureReceipt(p) \/ WriteReceipt(p)
    PROVE  IInv'
<1>1. CASE AdoptReceipt(p)
  <2>1. authority.bound
    BY <1>1 DEF AdoptReceipt, IInv, Standing
  <2>. QED  BY <1>1, <2>1, ReceiptKeeps DEF AdoptReceipt
<1>2. CASE EnsureReceipt(p)
  BY <1>2, ReceiptKeeps DEF EnsureReceipt
<1>3. CASE WriteReceipt(p)
  <2>1. authority.bound
    <3>1. authority.pending = loc[p].next /\ Commands(loc[p].base, loc[p].next)
      BY <1>3 DEF WriteReceipt, IInv, Standing, Intends
    <3>2. loc[p].next # <<>>
      BY <3>1, TypedParts, JournalTypes, CommandMeaning DEF IInv
    <3>. QED  BY <3>1, <3>2 DEF IInv, Chain, Pending
  <2>. QED  BY <1>3, <2>1, ReceiptKeeps DEF WriteReceipt
<1>. QED  BY <1>1, <1>2, <1>3

\* The old journal, or what recovery finds on the files, is committed.
LEMMA CommitStepKeeps ==
    ASSUME IInv, NEW p \in Procs, pc[p] \in {"adopted", "ensure"}, Pending,
           authority' = MA!Committed(authority), receipt' = receipt,
           files.journal = authority.pending, AuthorityStep(p, Continuation(p))
    PROVE  IInv'
<1>1. /\ Continuation(p) \in {"prepare", "admit", "return"}
      /\ Continuation(p) \in Labels \ {"idle"}
      /\ Continuation(p) = "prepare" => loc[p].kind = "append"
  BY Continues
<1>2. /\ files' = files /\ known' = known /\ rejected' = rejected
      /\ loc' = loc /\ acked' = acked /\ backup' = backup /\ minted' = minted
      /\ baseline' = baseline /\ restores' = restores /\ pc'[p] = Continuation(p)
  BY <1>1, StepFacts
<1>3. Readable /\ files.journal = loc[p].base
  BY DEF IInv, Standing
<1>4. /\ authority' \in Authorities' /\ authority'.committed = authority.pending
      /\ ~Pending' /\ Chain' /\ acked \subseteq Ids(authority'.committed)
      /\ \A q \in Procs : Told(q)'
      /\ FilesFollow'
  BY <1>2, <1>3, CommitMoves
<1>5. Standing(p)'
  BY <1>1, <1>2, <1>3, <1>4 DEF Standing, Readable
<1>6. ReturnedCommandsArePermanent'
  BY <1>2, <1>4 DEF ReturnedCommandsArePermanent
<1>7. authority' \in Authorities /\ receipt' \in BOOLEAN
  BY <1>2, <1>4, SameTypes DEF IInv, Typed
<1>. QED  BY <1>1, <1>4, <1>5, <1>6, <1>7, AuthoritySteps

LEMMA AdoptCommitKeeps ==
    ASSUME IInv, NEW p \in Procs, AdoptCommit(p)
    PROVE  IInv'
<1>1. /\ pc[p] = "adopted" /\ Pending /\ authority.pending = loc[p].base
      /\ files.journal = loc[p].base
  BY DEF AdoptCommit, IInv, Standing
<1>. QED  BY <1>1, CommitStepKeeps DEF AdoptCommit

\* Giving up in a conflict: only after a backup came back.
LEMMA RejectKeeps ==
    ASSUME IInv, NEW p \in Procs, pc[p] # "idle", Reject(p), UNCHANGED environment,
           restores # 0
    PROVE  IInv'
<1>1. /\ files' = files /\ authority' = authority /\ receipt' = receipt
      /\ known' = known /\ acked' = acked /\ rejected' = TRUE
      /\ backup' = backup /\ baseline' = baseline /\ minted' = minted
      /\ crashes' = crashes /\ restores' = restores /\ Leave(p)
  BY DEF Reject, environment
<1>2. /\ pc' \in [Procs -> Labels] /\ OneInside' /\ owner' = NoProc
      /\ \A q \in Procs : Standing(q)' /\ Intends(q)'
      /\ loc' \in [Procs -> Locations]
  BY <1>1, GoesOut, SameTypes DEF IInv
<1>3. Typed'
  BY <1>1, <1>2, SameTypes DEF IInv, Typed
<1>4. Chain' /\ ReturnedCommandsArePermanent' /\ \A q \in Procs : Told(q)'
  BY <1>1 DEF IInv, Chain, Upgraded, Pending, ReturnedCommandsArePermanent, Told
<1>5. FilesFollow'
  BY <1>1 DEF FilesFollow
<1>. QED  BY <1>2, <1>3, <1>4, <1>5 DEF IInv

LEMMA EnsureRecoveredKeeps ==
    ASSUME IInv, NEW p \in Procs, EnsureRecovered(p)
    PROVE  IInv'
<1>1. /\ pc[p] = "ensure" /\ pc[p] # "idle" /\ authority.bound
      /\ Readable /\ files.journal = loc[p].base
      /\ authority \in Authorities /\ receipt \in BOOLEAN /\ <<>> \in Journals
  BY TypedParts DEF EnsureRecovered, IInv, Standing, Typed
<1>2. CASE ~MA!Recoverable(authority, loc[p].base) /\ Reject(p) /\ UNCHANGED environment
  <2>1. restores # 0
    BY <1>1, <1>2 DEF IInv, FilesFollow, Settled, MA!Recoverable, MA!Pending, Pending,
                      Readable
  <2>. QED  BY <1>1, <1>2, <2>1, RejectKeeps
<1>3. CASE /\ MA!Recoverable(authority, loc[p].base)
           /\ authority' = MA!Recovered(authority, loc[p].base)
           /\ AuthorityStep(p, Continuation(p)) /\ UNCHANGED receipt
  <2>1. CASE Pending /\ loc[p].base # authority.committed
    <3>1. /\ authority' = MA!Committed(authority)
          /\ files.journal = authority.pending
      BY <1>1, <1>3, <2>1 DEF MA!Recovered, MA!Recoverable, MA!Pending, Pending
    <3>. QED  BY <1>1, <1>3, <2>1, <3>1, CommitStepKeeps
  <2>2. CASE ~Pending \/ loc[p].base = authority.committed
    <3>1. /\ Continuation(p) \in {"prepare", "admit", "return"}
          /\ Continuation(p) \in Labels \ {"idle"}
          /\ Continuation(p) = "prepare" => loc[p].kind = "append"
      BY Continues
    <3>2. /\ files' = files /\ known' = known /\ rejected' = rejected
          /\ loc' = loc /\ acked' = acked /\ backup' = backup
          /\ baseline' = baseline /\ restores' = restores
          /\ pc'[p] = Continuation(p) /\ receipt' = receipt
      BY <1>1, <1>3, <3>1, StepFacts
    <3>3. /\ authority' \in Authorities /\ authority'.bound
          /\ authority'.committed = authority.committed /\ ~Pending'
          /\ authority.committed = loc[p].base
      <4>1. CASE ~Pending
        BY <1>1, <1>3, <4>1 DEF MA!Recovered, MA!Recoverable, MA!Pending, Pending
      <4>2. CASE Pending
        <5>1. authority' = MA!Aborted(authority)
          BY <1>3, <2>2, <4>2 DEF MA!Recovered, MA!Pending, Pending
        <5>. QED  BY <1>1, <2>2, <4>2, <5>1, AuthorityMoves DEF Pending
      <4>. QED  BY <4>1, <4>2
    <3>4. Standing(p)'
      BY <1>1, <3>1, <3>2, <3>3 DEF Standing, Readable
    <3>5. Chain'
      <4>1. baseline # <<>> => authority.committed # <<>>
        BY <1>1, <3>3 DEF IInv, Chain
      <4>. QED  BY <3>2, <3>3, <4>1 DEF IInv, Chain
    <3>6. ReturnedCommandsArePermanent' /\ \A q \in Procs : Told(q)'
      BY <3>2, <3>3 DEF IInv, ReturnedCommandsArePermanent, Told
    <3>7. FilesFollow'
      BY <1>1, <3>2, <3>3 DEF IInv, FilesFollow, Settled, Readable
    <3>. QED  BY <1>1, <1>3, <3>1, <3>2, <3>3, <3>4, <3>5, <3>6, <3>7, AuthoritySteps
  <2>. QED  BY <2>1, <2>2
<1>. QED  BY <1>2, <1>3 DEF EnsureRecovered

-----------------------------------------------------------------------------
(* The durable steps of a command.                                         *)

LEMMA PrepareKeeps ==
    ASSUME IInv, NEW p \in Procs, Prepare(p)
    PROVE  IInv'
<1>1. /\ pc[p] = "prepare" /\ pc[p] # "idle" /\ loc[p].kind = "append"
      /\ Readable /\ files.journal = loc[p].base
      /\ ~Pending /\ authority.committed = loc[p].base
      /\ Commands(loc[p].base, loc[p].next)
      /\ authority \in Authorities /\ receipt' = receipt /\ receipt \in BOOLEAN
      /\ loc[p].base \in Journals /\ loc[p].next \in Journals /\ <<>> \in Journals
      /\ minted \in Nat
      /\ authority' = MA!Prepared(authority, loc[p].next)
      /\ AuthorityStep(p, "receipt") /\ "receipt" \in Labels \ {"idle"}
  BY TypedParts DEF Prepare, IInv, Standing, Intends, Typed, Labels
<1>2. /\ files' = files /\ known' = known /\ rejected' = rejected
      /\ loc' = loc /\ acked' = acked /\ backup' = backup
      /\ baseline' = baseline /\ restores' = restores /\ pc'[p] = "receipt"
  BY <1>1, StepFacts
<1>3. /\ authority' \in Authorities /\ authority'.bound
      /\ authority'.committed = authority.committed
      /\ authority'.pending = loc[p].next
  BY <1>1, AuthorityMoves
<1>4. loc[p].next # <<>>
  BY <1>1, JournalTypes, CommandMeaning
<1>5. Standing(p)'
  BY <1>1, <1>2, <1>3 DEF Standing, Readable
<1>6. Chain'
  <2>1. baseline # <<>> => authority.committed # <<>>
    BY <1>1 DEF IInv, Chain
  <2>. QED  BY <1>1, <1>2, <1>3, <1>4, <2>1 DEF IInv, Chain, Pending
<1>7. ReturnedCommandsArePermanent' /\ \A q \in Procs : Told(q)'
  BY <1>2, <1>3 DEF IInv, ReturnedCommandsArePermanent, Told
<1>8. FilesFollow'
  BY <1>1, <1>2, <1>3 DEF IInv, FilesFollow, Settled, Readable
<1>. QED  BY <1>1, <1>3, <1>5, <1>6, <1>7, <1>8, AuthoritySteps

\* A step that writes files for what is pending.
LEMMA FileKeeps ==
    ASSUME IInv, NEW p \in Procs, NEW label \in {"anchor", "commit"},
           FileStep(p, label), files' \in Workspaces,
           pc[p] = IF label = "anchor" THEN "append" ELSE "anchor",
           ~files'.torn, files'.journal = loc[p].next,
           files'.anchor = IF label = "anchor" THEN loc[p].base ELSE loc[p].next
    PROVE  IInv'
<1>1. /\ pc[p] # "idle" /\ label \in Labels \ {"idle"} /\ Goto(p, label)
      /\ authority' = authority /\ receipt' = receipt /\ owner' = owner
      /\ loc' = loc /\ known' = known /\ acked' = acked /\ rejected' = rejected
      /\ backup' = backup /\ baseline' = baseline /\ minted' = minted
      /\ crashes' = crashes /\ restores' = restores
  BY DEF FileStep, environment, Labels
<1>2. /\ pc' \in [Procs -> Labels] /\ OneInside' /\ pc'[p] = label
      /\ \A q \in Procs : q # p => pc'[q] = "idle"
  BY <1>1, GoesOn DEF IInv
<1>3. /\ loc[p].kind = "append" /\ Commands(loc[p].base, loc[p].next)
      /\ authority.committed = loc[p].base /\ authority.pending = loc[p].next
  BY DEF IInv, Standing, Intends
<1>4. loc[p].next # <<>>
  BY <1>3, TypedParts, JournalTypes, CommandMeaning DEF IInv
<1>5. authority.bound /\ Pending
  BY <1>3, <1>4 DEF IInv, Chain, Pending
<1>6. Typed'
  BY <1>1, <1>2, SameTypes DEF IInv, Typed
<1>7. \A q \in Procs : Intends(q)' /\ Told(q)'
  BY <1>1 DEF IInv, Intends, Told
<1>8. \A q \in Procs : Standing(q)'
  <2>1. Standing(p)'
    BY <1>1, <1>2, <1>3 DEF Standing, Readable
  <2>. QED  BY <1>2, <2>1, IdleStands
<1>9. Chain'
  <2>1. baseline # <<>> => files'.journal # <<>> /\ files'.anchor # <<>>
    <3>1. baseline # <<>> => files.journal # <<>>
      BY DEF IInv, Chain
    <3>2. label = "anchor" => files.journal = loc[p].base
      BY DEF IInv, Standing
    <3>. QED  BY <1>4, <3>1, <3>2
  <2>. QED  BY <1>1, <1>5, <2>1 DEF IInv, Chain, Pending
<1>10. ReturnedCommandsArePermanent'
  BY <1>1 DEF IInv, ReturnedCommandsArePermanent
<1>11. FilesFollow'
  BY <1>1, <1>3, <1>5 DEF IInv, FilesFollow, Settled, Readable, Pending
<1>. QED  BY <1>2, <1>6, <1>7, <1>8, <1>9, <1>10, <1>11 DEF IInv

LEMMA FileStepsKeep ==
    ASSUME IInv, NEW p \in Procs, AppendRecord(p) \/ WriteAnchor(p)
    PROVE  IInv'
<1>1. /\ files \in Workspaces /\ loc[p].next \in Journals
      /\ loc[p].base \in Journals /\ minted \in Nat
  BY TypedParts DEF IInv, Typed
<1>2. CASE AppendRecord(p)
  <2>1. /\ pc[p] = "append" /\ FileStep(p, "anchor") /\ Readable
        /\ files.journal = loc[p].base /\ Commands(loc[p].base, loc[p].next)
        /\ files' = [files EXCEPT !.journal = Append(@, Last(loc[p].next))]
    BY <1>2 DEF AppendRecord, IInv, Standing, Intends
  <2>2. Append(files.journal, Last(loc[p].next)) = loc[p].next
    <3>1. loc[p].base \in Seq(Record)
      BY <1>1, JournalTypes
    <3>. QED  BY <2>1, <3>1, CommandMeaning
  <2>3. /\ files' \in Workspaces /\ ~files'.torn
        /\ files'.journal = loc[p].next /\ files'.anchor = loc[p].base
    BY <1>1, <2>1, <2>2 DEF Workspaces, Readable
  <2>. QED  BY <2>1, <2>3, FileKeeps
<1>3. CASE WriteAnchor(p)
  <2>1. /\ pc[p] = "anchor" /\ FileStep(p, "commit") /\ ~files.torn
        /\ files.journal = loc[p].next
        /\ files' = [files EXCEPT !.anchor = loc[p].next]
    BY <1>3 DEF WriteAnchor, IInv, Standing
  <2>2. /\ files' \in Workspaces /\ ~files'.torn
        /\ files'.journal = loc[p].next /\ files'.anchor = loc[p].next
    BY <1>1, <2>1 DEF Workspaces
  <2>. QED  BY <2>1, <2>2, FileKeeps
<1>. QED  BY <1>2, <1>3

\* The command returns: its record is in the committed chain.
LEMMA CommitAppendKeeps ==
    ASSUME IInv, NEW p \in Procs, CommitAppend(p)
    PROVE  IInv'
<1>1. /\ files' = files /\ receipt' = receipt /\ rejected' = rejected
      /\ backup' = backup /\ baseline' = baseline /\ minted' = minted
      /\ crashes' = crashes /\ restores' = restores
      /\ pc[p] = "commit" /\ pc[p] # "idle" /\ Readable /\ Pending
      /\ files.journal = authority.pending
      /\ authority' = MA!Committed(authority)
      /\ acked' = acked \cup {Last(loc[p].next).id}
      /\ known' = [known EXCEPT ![p] = loc[p].next] /\ Leave(p)
  BY DEF CommitAppend, MA!CanCommit, MA!Pending, Pending, environment
<1>2. /\ loc[p].next \in Journals /\ loc[p].base \in Journals
      /\ loc[p].next \in Seq(Record) /\ loc[p].base \in Seq(Record)
      /\ known \in [Procs -> Journals]
  BY TypedParts, JournalTypes DEF IInv, Typed
<1>3. /\ authority.pending = loc[p].next /\ Commands(loc[p].base, loc[p].next)
  BY <1>1 DEF IInv, Standing, Intends
<1>4. /\ pc' \in [Procs -> Labels] /\ OneInside' /\ owner' = NoProc
      /\ \A q \in Procs : Standing(q)'
      /\ loc' \in [Procs -> Locations]
      /\ \A q \in Procs : Intends(q) /\ (q # p => known'[q] = known[q]) => Intends(q)'
  BY <1>1, GoesOut, SameTypes DEF IInv
<1>5. /\ authority' \in Authorities' /\ authority'.committed = loc[p].next
      /\ Chain' /\ acked \subseteq Ids(authority'.committed)
      /\ \A q \in Procs : known'[q] = known[q] => Told(q)'
      /\ FilesFollow'
  BY <1>1, <1>3, CommitMoves
<1>6. known' \in [Procs -> Journals] /\ known'[p] = loc[p].next
      /\ \A q \in Procs : q # p => known'[q] = known[q]
  BY <1>1, <1>2
<1>7. Typed'
  BY <1>1, <1>4, <1>5, <1>6, SameTypes DEF IInv, Typed
<1>8. \A q \in Procs : Intends(q)'
  BY <1>4, <1>6 DEF IInv
<1>9. \A q \in Procs : Told(q)'
  <2>1. Told(p)'
    BY <1>2, <1>5, <1>6, PrefixOrder DEF Told
  <2>. QED  BY <1>5, <1>6, <2>1
<1>10. ReturnedCommandsArePermanent'
  <2>1. Last(loc[p].next).id \in Ids(loc[p].next)
    <3>1. PICK e \in Record : loc[p].next = Append(loc[p].base, e)
      BY <1>3 DEF Commands
    <3>. QED  BY <1>2, <3>1, AppendMeaning DEF Ids
  <2>. QED  BY <1>1, <1>5, <2>1 DEF ReturnedCommandsArePermanent
<1>. QED  BY <1>4, <1>5, <1>7, <1>8, <1>9, <1>10 DEF IInv

\* Recovery of the journal: a STOP is finished, an ARM is cut off.
LEMMA RepairKeeps ==
    ASSUME IInv, NEW p \in Procs, Repair(p)
    PROVE  IInv'
<1>1. /\ pc[p] = "repair" /\ pc[p] # "idle" /\ UNCHANGED environment
      /\ ~files.torn /\ files.journal # <<>>
      /\ files \in Workspaces /\ files.journal \in Journals
      /\ files.anchor \in Journals /\ minted \in Nat
      /\ authority.committed \in Journals /\ loc \in [Procs -> Locations]
      /\ authority.committed \in Seq(Record)
      /\ files.journal \in Seq(Record)
      /\ loc[p].kind # "append"
  BY TypedParts, JournalTypes DEF Repair, IInv, Standing, Typed
<1>2. CASE ~Repairable /\ Reject(p)
  <2>1. restores # 0
    <3>. SUFFICES ASSUME restores = 0  PROVE Repairable
      BY <1>2
    <3>1. CASE files.anchor = files.journal
      BY <1>1, <3>1, PrefixOrder DEF Repairable, AnchorExists
    <3>2. CASE files.anchor # files.journal
      <4>1. authority.bound
        BY <3>2 DEF IInv, Chain, Upgraded
      <4>2. /\ Commands(authority.committed, authority.pending)
            /\ files.anchor = authority.committed
            /\ files.journal = authority.pending
        BY <3>2, <4>1 DEF IInv, FilesFollow, Settled, Readable
      <4>. QED  BY <1>1, <4>2, CommandMeaning DEF Repairable, AnchorExists
    <3>. QED  BY <3>1, <3>2
  <2>. QED  BY <1>1, <1>2, <2>1, RejectKeeps
<1>3. CASE /\ Repairable
           /\ files' = [files EXCEPT !.journal = Repaired, !.anchor = Repaired]
           /\ loc' = [loc EXCEPT ![p].base = Repaired]
           /\ Goto(p, "ensure")
           /\ UNCHANGED <<authority, receipt, owner, known, acked, rejected>>
  <2>1. /\ Repaired \in Journals /\ Repaired \in {files.journal, files.anchor}
        /\ Repaired # <<>>
    BY <1>1, <1>3 DEF Repaired, Repairable, AnchorExists
  <2>2. /\ authority' = authority /\ receipt' = receipt /\ owner' = owner
        /\ known' = known /\ acked' = acked /\ rejected' = rejected
        /\ backup' = backup /\ baseline' = baseline /\ minted' = minted
        /\ crashes' = crashes /\ restores' = restores
        /\ "ensure" \in Labels \ {"idle"}
    BY <1>1, <1>3 DEF environment, Labels
  <2>3. /\ files' \in Workspaces /\ files'.journal = Repaired
        /\ files'.anchor = Repaired /\ ~files'.torn
    BY <1>1, <1>3, <2>1 DEF Workspaces
  <2>4. /\ loc' \in [Procs -> Locations] /\ loc'[p].base = Repaired
        /\ loc'[p].kind = loc[p].kind /\ loc'[p].next = loc[p].next
        /\ \A q \in Procs : q # p => loc'[q] = loc[q]
    BY <1>1, <1>3, <2>1 DEF Locations
  <2>5. /\ pc' \in [Procs -> Labels] /\ OneInside' /\ pc'[p] = "ensure"
        /\ \A q \in Procs : q # p => pc'[q] = "idle"
    BY <1>1, <1>3, <2>2, GoesOn DEF IInv
  <2>6. Typed'
    BY <2>2, <2>3, <2>4, <2>5, SameTypes DEF IInv, Typed
  <2>7. \A q \in Procs : Intends(q)' /\ Told(q)'
    BY <1>1, <2>2, <2>4 DEF IInv, Intends, Told
  <2>8. \A q \in Procs : Standing(q)'
    <3>1. Standing(p)'
      BY <2>3, <2>4, <2>5 DEF Standing, Readable
    <3>. QED  BY <2>5, <3>1, IdleStands
  <2>9. Chain'
    <3>1. ~authority.bound => Upgraded(files')
      BY <2>1, <2>2, <2>3 DEF IInv, Chain, Upgraded
    <3>. QED  BY <2>1, <2>2, <2>3, <3>1 DEF IInv, Chain, Upgraded, Pending
  <2>10. ReturnedCommandsArePermanent'
    BY <2>2 DEF IInv, ReturnedCommandsArePermanent
  <2>11. FilesFollow'
    BY <2>1, <2>2, <2>3 DEF IInv, FilesFollow, Settled, Readable, Pending
  <2>. QED  BY <2>5, <2>6, <2>7, <2>8, <2>9, <2>10, <2>11 DEF IInv
<1>. QED  BY <1>2, <1>3 DEF Repair

-----------------------------------------------------------------------------
(* The ends of the operations, and the environment.                        *)

\* A process leaves, and at most its operator was told the committed chain.
LEMMA LeavingKeeps ==
    ASSUME IInv, NEW p \in Procs, pc[p] # "idle", Leave(p),
           UNCHANGED <<files, authority, receipt, acked, rejected, environment>>,
           \/ known' = known
           \/ known' = [known EXCEPT ![p] = authority.committed]
    PROVE  IInv'
<1>1. /\ files' = files /\ authority' = authority /\ receipt' = receipt
      /\ acked' = acked /\ rejected' = rejected
      /\ backup' = backup /\ baseline' = baseline /\ minted' = minted
      /\ crashes' = crashes /\ restores' = restores
  BY DEF environment
<1>2. /\ authority.committed \in Journals /\ known \in [Procs -> Journals]
      /\ authority.committed \in Seq(Record)
  BY TypedParts, JournalTypes DEF IInv, Typed
<1>3. /\ known' \in [Procs -> Journals]
      /\ \A q \in Procs : q # p => known'[q] = known[q]
      /\ known'[p] = known[p] \/ known'[p] = authority.committed
  BY <1>2
<1>4. /\ pc' \in [Procs -> Labels] /\ OneInside' /\ owner' = NoProc
      /\ \A q \in Procs : Standing(q)'
      /\ loc' \in [Procs -> Locations]
      /\ \A q \in Procs : Intends(q) /\ (q # p => known'[q] = known[q]) => Intends(q)'
  BY <1>1, GoesOut, SameTypes DEF IInv
<1>5. Typed'
  BY <1>1, <1>3, <1>4, SameTypes DEF IInv, Typed
<1>6. \A q \in Procs : Intends(q)'
  BY <1>3, <1>4 DEF IInv
<1>7. /\ Chain' /\ ReturnedCommandsArePermanent' /\ FilesFollow'
      /\ \A q \in Procs : known'[q] = known[q] => Told(q)'
  BY <1>1, WorldKept
<1>8. Told(p)'
  <2>1. IsPrefix(authority.committed, authority.committed)
    BY <1>2, PrefixOrder
  <2>. QED  BY <1>1, <1>3, <1>7, <2>1 DEF Told
<1>. QED  BY <1>3, <1>4, <1>5, <1>6, <1>7, <1>8 DEF IInv

LEMMA LeavesKeep ==
    ASSUME IInv, NEW p \in Procs,
           Return(p) \/ AdmitStopped(p) \/ EndLease(p) \/ EnsureRefused(p)
    PROVE  IInv'
<1>1. CASE Return(p)
  <2>1. /\ pc[p] = "return" /\ pc[p] # "idle" /\ Leave(p)
        /\ UNCHANGED <<files, authority, receipt, acked, rejected, environment>>
        /\ known' = [known EXCEPT ![p] = IF loc[p].base = <<>> THEN known[p]
                                                               ELSE loc[p].base]
    BY <1>1 DEF Return
  <2>2. authority.committed = loc[p].base
    BY <2>1 DEF IInv, Standing
  <2>3. \/ known' = known
        \/ known' = [known EXCEPT ![p] = authority.committed]
    <3>1. known \in [Procs -> Journals]
      BY DEF IInv, Typed
    <3>. QED  BY <2>1, <2>2, <3>1
  <2>. QED  BY <2>1, <2>3, LeavingKeeps
<1>2. CASE AdmitStopped(p) \/ EndLease(p) \/ EnsureRefused(p)
  BY <1>2, LeavingKeeps DEF AdmitStopped, EndLease, EnsureRefused
<1>. QED  BY <1>1, <1>2

\* The lease begins, and keeps the lock.
LEMMA AdmitArmedKeeps ==
    ASSUME IInv, NEW p \in Procs, AdmitArmed(p)
    PROVE  IInv'
<1>1. /\ files' = files /\ authority' = authority /\ receipt' = receipt
      /\ known' = known /\ acked' = acked /\ rejected' = rejected /\ loc' = loc
      /\ backup' = backup /\ baseline' = baseline /\ minted' = minted
      /\ crashes' = crashes /\ restores' = restores /\ owner' = owner
      /\ pc[p] = "admit" /\ pc[p] # "idle" /\ Goto(p, "lease")
      /\ Mode(loc[p].base) = "ARMED" /\ "lease" \in Labels \ {"idle"}
  BY DEF AdmitArmed, environment, Labels
<1>2. /\ pc' \in [Procs -> Labels] /\ OneInside' /\ pc'[p] = "lease"
      /\ \A q \in Procs : q # p => pc'[q] = "idle"
  BY <1>1, GoesOn DEF IInv
<1>3. Typed'
  BY <1>1, <1>2, SameTypes DEF IInv, Typed
<1>4. \A q \in Procs : Intends(q)'
  BY <1>1 DEF IInv, Intends
<1>5. \A q \in Procs : Standing(q)'
  <2>1. Standing(p)'
    BY <1>1, <1>2 DEF IInv, Standing, Readable, Pending
  <2>. QED  BY <1>2, <2>1, IdleStands
<1>6. /\ Chain' /\ ReturnedCommandsArePermanent' /\ FilesFollow'
      /\ \A q \in Procs : Told(q)'
  BY <1>1, WorldKept
<1>. QED  BY <1>2, <1>3, <1>4, <1>5, <1>6 DEF IInv

LEMMA CrashKeeps ==
    ASSUME IInv, NEW p \in Procs, Crash(p)
    PROVE  IInv'
<1>1. /\ authority' = authority /\ receipt' = receipt /\ known' = known
      /\ acked' = acked /\ rejected' = rejected /\ backup' = backup
      /\ baseline' = baseline /\ minted' = minted /\ restores' = restores
      /\ crashes < MaxCrashes /\ crashes' = crashes + 1 /\ Leave(p)
      /\ \/ files' = files
         \/ pc[p] = "append" /\ files' = [files EXCEPT !.torn = TRUE]
      /\ pc[p] # "idle" /\ files \in Workspaces
  BY OthersAreOut DEF Crash, IInv, Typed
<1>2. /\ pc' \in [Procs -> Labels] /\ OneInside' /\ owner' = NoProc
      /\ \A q \in Procs : Standing(q)' /\ Intends(q)'
      /\ loc' \in [Procs -> Locations]
  BY <1>1, GoesOut, SameTypes DEF IInv
<1>3. /\ files' \in Workspaces
      /\ files'.journal = files.journal /\ files'.anchor = files.anchor
      /\ files' = files \/ pc[p] = "append"
  BY <1>1 DEF Workspaces
<1>4. crashes' \in 0..MaxCrashes
  BY <1>1, ConstantsAssumption DEF IInv, Typed
<1>5. Typed'
  BY <1>1, <1>2, <1>3, <1>4, SameTypes DEF IInv, Typed
<1>6. \A q \in Procs : Told(q)'
  BY <1>1 DEF IInv, Told
<1>7. ReturnedCommandsArePermanent'
  BY <1>1 DEF IInv, ReturnedCommandsArePermanent
<1>8. Chain' /\ FilesFollow'
  <2>1. CASE files' = files
    BY <1>1, <2>1, WorldKept
  <2>2. CASE pc[p] = "append"
    <3>1. /\ loc[p].kind = "append" /\ Commands(loc[p].base, loc[p].next)
          /\ authority.committed = loc[p].base /\ authority.pending = loc[p].next
          /\ Readable /\ files.journal = loc[p].base
      BY <2>2 DEF IInv, Standing, Intends
    <3>2. loc[p].next # <<>>
      BY <3>1, TypedParts, JournalTypes, CommandMeaning DEF IInv
    <3>3. Pending /\ authority.bound
      BY <3>1, <3>2 DEF IInv, Chain, Pending
    <3>4. Chain'
      BY <1>1, <1>3, <3>3 DEF IInv, Chain, Pending
    <3>5. FilesFollow'
      BY <1>1, <1>3, <3>1, <3>3 DEF IInv, FilesFollow, Readable, Pending
    <3>. QED  BY <3>4, <3>5
  <2>. QED  BY <1>3, <2>1, <2>2
<1>. QED  BY <1>2, <1>5, <1>6, <1>7, <1>8 DEF IInv

\* A backup is taken, or comes back, while nobody is inside.
LEMMA BackupKeeps ==
    ASSUME IInv, Backup
    PROVE  IInv'
<1>1. /\ files' = files /\ authority' = authority /\ receipt' = receipt
      /\ owner' = owner /\ pc' = pc /\ loc' = loc /\ known' = known
      /\ acked' = acked /\ rejected' = rejected /\ backup' = files
      /\ baseline' = baseline /\ minted' = minted /\ crashes' = crashes
      /\ restores' = restores
  BY DEF Backup
<1>2. Typed' /\ OneInside'
  BY <1>1, SameTypes DEF IInv, Typed, OneInside
<1>3. \A q \in Procs : Intends(q)' /\ Standing(q)' /\ Told(q)'
  BY <1>1 DEF IInv, Intends, Standing, Told, Readable, Pending
<1>4. Chain'
  BY <1>1 DEF IInv, Chain, Upgraded, Pending
<1>5. ReturnedCommandsArePermanent' /\ FilesFollow'
  BY <1>1 DEF IInv, ReturnedCommandsArePermanent, FilesFollow, Settled, Readable,
              Pending
<1>. QED  BY <1>2, <1>3, <1>4, <1>5 DEF IInv

LEMMA RestoreKeeps ==
    ASSUME IInv, Restore
    PROVE  IInv'
<1>1. /\ files' = backup /\ authority' = authority /\ receipt' = receipt
      /\ owner' = owner /\ pc' = pc /\ loc' = loc /\ known' = known
      /\ acked' = acked /\ rejected' = rejected /\ backup' = backup
      /\ baseline' = baseline /\ minted' = minted /\ crashes' = crashes
      /\ restores' = restores + 1 /\ restores < MaxRestores /\ owner = NoProc
      /\ backup # EmptyWorkspace /\ restores \in 0..MaxRestores
  BY DEF Restore, IInv, Typed
<1>2. restores' \in 0..MaxRestores /\ restores' # 0
  BY <1>1, ConstantsAssumption
<1>3. Typed' /\ OneInside'
  BY <1>1, <1>2, SameTypes DEF IInv, Typed, OneInside
<1>4. \A q \in Procs : Intends(q)' /\ Standing(q)' /\ Told(q)'
  <2>1. \A q \in Procs : pc'[q] = "idle"
    BY <1>1, OthersAreOut DEF IInv
  <2>. QED  BY <1>1, <2>1, IdleStands DEF IInv, Intends, Told
<1>5. Chain'
  BY <1>1 DEF IInv, Chain, Upgraded, Pending
<1>6. ReturnedCommandsArePermanent' /\ FilesFollow'
  BY <1>1, <1>2 DEF IInv, ReturnedCommandsArePermanent, FilesFollow
<1>. QED  BY <1>3, <1>4, <1>5, <1>6 DEF IInv

-----------------------------------------------------------------------------
(* The invariant, and what follows from it.                                *)

LEMMA InitInvariant == Init => IInv
<1>. SUFFICES ASSUME Init  PROVE IInv
  OBVIOUS
<1>1. PICK j \in Baselines :
        /\ files = [EmptyWorkspace EXCEPT !.journal = j, !.anchor = j]
        /\ baseline = j /\ minted = Len(j) /\ known = [p \in Procs |-> j]
  BY DEF Init
<1>2. /\ authority = [bound |-> FALSE, committed |-> <<>>, pending |-> <<>>]
      /\ receipt = FALSE /\ owner = NoProc /\ pc = [p \in Procs |-> "idle"]
      /\ loc = [p \in Procs |-> NoLocals] /\ acked = {} /\ rejected = FALSE
      /\ backup = EmptyWorkspace /\ crashes = 0 /\ restores = 0
  BY DEF Init, MA!NoHistory
<1>3. minted \in 0..MaxRecords /\ j \in Journals
  <2>1. CASE j = <<>>
    <3>1. minted = 0
      BY <1>1, <2>1
    <3>. QED  BY <2>1, <3>1, JournalTypes, ConstantsAssumption
  <2>2. CASE j = <<StopRecord(1)>>
    <3>. DEFINE e == StopRecord(1)
    <3>1. e \in Record /\ e.id = 1
      BY ConstantsAssumption DEF StopRecord, Record
    <3>. HIDE DEF e
    <3>2. j = <<e>>
      BY <2>2 DEF e
    <3>3. j \in Seq(Record) /\ Len(j) = 1 /\ j[1] = e /\ DOMAIN j = {1}
      BY <3>1, <3>2
    <3>. QED  BY <1>1, <3>1, <3>3, ConstantsAssumption DEF Journals
  <2>3. ASSUME NEW c \in Confs, j = <<StopRecord(1), ArmRecord(2, c)>>
        PROVE  minted \in 0..MaxRecords /\ j \in Journals
    <3>. DEFINE e == StopRecord(1)
                f == ArmRecord(2, c)
    <3>1. e \in Record /\ e.id = 1 /\ f \in Record /\ f.id = 2
      BY ConstantsAssumption DEF StopRecord, ArmRecord, Record
    <3>. HIDE DEF e, f
    <3>2. j = <<e, f>>
      BY <2>3 DEF e, f
    <3>3. /\ j \in Seq(Record) /\ Len(j) = 2 /\ j[1] = e /\ j[2] = f
          /\ DOMAIN j = {1, 2}
      BY <3>1, <3>2
    <3>. QED  BY <1>1, <3>1, <3>3, ConstantsAssumption DEF Journals
  <2>. QED  BY <2>1, <2>2, <2>3 DEF Baselines
<1>4. minted \in Nat /\ <<>> \in Journals /\ j \in Seq(Record)
  BY <1>3, ConstantsAssumption, JournalTypes
<1>5. /\ EmptyWorkspace \in Workspaces
      /\ files \in Workspaces /\ Upgraded(files)
  BY <1>1, <1>3, <1>4 DEF EmptyWorkspace, Workspaces, Upgraded
<1>6. Typed
  <2>1. authority \in Authorities
    BY <1>2, <1>4 DEF Authorities
  <2>2. NoLocals \in Locations
    BY <1>4 DEF NoLocals, Locations
  <2>3. crashes \in 0..MaxCrashes /\ restores \in 0..MaxRestores
    BY <1>2, ConstantsAssumption
  <2>4. "idle" \in Labels
    BY DEF Labels
  <2>. QED  BY <1>1, <1>2, <1>3, <1>5, <2>1, <2>2, <2>3, <2>4 DEF Typed
<1>7. OneInside
  BY <1>2, ConstantsAssumption DEF OneInside
<1>8. \A p \in Procs : Intends(p) /\ Standing(p) /\ Told(p)
  BY <1>1, <1>2 DEF Intends, Standing, Told, NoLocals
<1>9. Chain
  BY <1>1, <1>2, <1>5 DEF Chain, Upgraded, Pending
<1>10. ReturnedCommandsArePermanent /\ FilesFollow
  BY <1>2 DEF ReturnedCommandsArePermanent, FilesFollow
<1>. QED  BY <1>6, <1>7, <1>8, <1>9, <1>10 DEF IInv

LEMMA NextInvariant == IInv /\ [Next]_vars => IInv'
<1>. SUFFICES ASSUME IInv, [Next]_vars  PROVE IInv'
  OBVIOUS
<1>1. CASE UNCHANGED vars
  <2>1. /\ files' = files /\ authority' = authority /\ receipt' = receipt
        /\ owner' = owner /\ pc' = pc /\ loc' = loc /\ known' = known
        /\ acked' = acked /\ rejected' = rejected /\ backup' = backup
        /\ baseline' = baseline /\ minted' = minted /\ crashes' = crashes
        /\ restores' = restores
    BY <1>1 DEF vars
  <2>2. Typed' /\ OneInside'
    BY <2>1, SameTypes DEF IInv, Typed, OneInside
  <2>3. \A q \in Procs : Intends(q)' /\ Standing(q)'
    BY <2>1 DEF IInv, Intends, Standing, Readable, Pending
  <2>. QED  BY <2>1, <2>2, <2>3, WorldKept DEF IInv
<1>2. ASSUME NEW p \in Procs, Operation(p)  PROVE IInv'
  <2>1. CASE BeginCurrent(p) \/ BeginLease(p) \/ BeginRecover(p)
    BY <2>1, BeginsKeep
  <2>2. CASE InitializeStopped(p) \/ Stop(p) \/ \E c \in Confs : Arm(p, c)
    BY <2>2, CommandsBegin
  <2>3. CASE Repair(p)
    BY <2>3, RepairKeeps
  <2>4. CASE EnsureUnbound(p)
    BY <2>4, EnsureUnboundKeeps
  <2>5. CASE AdoptReceipt(p) \/ EnsureReceipt(p) \/ WriteReceipt(p)
    BY <2>5, ReceiptsKeep
  <2>6. CASE AdoptCommit(p)
    BY <2>6, AdoptCommitKeeps
  <2>7. CASE EnsureRecovered(p)
    BY <2>7, EnsureRecoveredKeeps
  <2>8. CASE Prepare(p)
    BY <2>8, PrepareKeeps
  <2>9. CASE AppendRecord(p) \/ WriteAnchor(p)
    BY <2>9, FileStepsKeep
  <2>10. CASE CommitAppend(p)
    BY <2>10, CommitAppendKeeps
  <2>11. CASE Return(p) \/ AdmitStopped(p) \/ EndLease(p) \/ EnsureRefused(p)
    BY <2>11, LeavesKeep
  <2>12. CASE AdmitArmed(p)
    BY <2>12, AdmitArmedKeeps
  <2>. QED  BY <1>2, <2>1, <2>2, <2>3, <2>4, <2>5, <2>6, <2>7, <2>8, <2>9, <2>10,
               <2>11, <2>12 DEF Operation
<1>3. ASSUME NEW p \in Procs, Crash(p)  PROVE IInv'
  BY <1>3, CrashKeeps
<1>4. CASE Backup
  BY <1>4, BackupKeeps
<1>5. CASE Restore
  BY <1>5, RestoreKeeps
<1>6. CASE Refuse
  BY <1>1, <1>6 DEF Refuse
<1>. QED  BY <1>1, <1>2, <1>3, <1>4, <1>5, <1>6 DEF Next

\* The inductive invariant holds: at each of its durable steps the process
\* inside the lock leaves files and authority where Standing says, whatever
\* died or came back from a backup before.
THEOREM Invariant == Spec => []IInv
BY InitInvariant, NextInvariant, PTL DEF Spec

\* A half-written file of the authority is a fact about the past: no part of
\* the inductive invariant needs to know of it.
LEMMA PartialTyped == Spec => [](partial \in BOOLEAN)
<1>. DEFINE PartialOK == partial \in BOOLEAN
<1>1. Init => PartialOK
  BY DEF Init
<1>2. PartialOK /\ [Next]_vars => PartialOK'
  BY DEF Next, Operation, vars, environment, BeginCurrent, BeginLease, BeginRecover,
         InitializeStopped, Stop, Arm, BeginAppend, Repair, EnsureRefused,
         EnsureUnbound, AdoptReceipt, AdoptCommit, EnsureReceipt, EnsureRecovered,
         AuthorityStep, Prepare, WriteReceipt, AppendRecord, WriteAnchor, FileStep,
         CommitAppend, Return, AdmitArmed, AdmitStopped, EndLease, Crash, Backup,
         Restore, Refuse
<1>3. Spec => []PartialOK
  <2>. HIDE DEF PartialOK
  <2>. QED  BY <1>1, <1>2, PTL DEF Spec
<1>. QED  BY <1>3

\* Every variable keeps its type, and one process at most is inside the lock.
THEOREM TypeCorrect == Spec => []TypeOK
<1>1. IInv /\ partial \in BOOLEAN => TypeOK
  <2>. SUFFICES ASSUME IInv, partial \in BOOLEAN  PROVE TypeOK
    OBVIOUS
  <2>1. minted \in Nat /\ minted \in 0..MaxRecords /\ minted <= MaxRecords
    BY ConstantsAssumption DEF IInv, Typed
  <2>2. \A j \in Journals : j \in Journal
    <3>. SUFFICES ASSUME NEW j \in Journals  PROVE j \in Journal
      OBVIOUS
    <3>1. j \in Seq(Record) /\ Len(j) \in Nat /\ Len(j) <= minted
      BY <2>1, JournalTypes
    <3>2. j \in [1..Len(j) -> Record]
      BY <3>1
    <3>3. Len(j) \in 0..MaxRecords
      BY <2>1, <3>1, ConstantsAssumption
    <3>. QED  BY <3>2, <3>3 DEF Journal
  <2>3. Workspaces \subseteq Workspace /\ Locations \subseteq Locals
    BY <2>2 DEF Workspaces, Workspace, Locations, Locals
  <2>4. authority \in [bound : BOOLEAN, committed : Journal, pending : Journal]
    BY <2>2 DEF IInv, Typed, Authorities
  <2>5. acked \subseteq 1..MaxRecords
    <3>1. Ids(authority.committed) \subseteq 1..minted
      BY <2>1, TypedParts, JournalTypes DEF IInv
    <3>2. 1..minted \subseteq 1..MaxRecords
      BY <2>1, ConstantsAssumption
    <3>. QED  BY <3>1, <3>2 DEF IInv, ReturnedCommandsArePermanent
  <2>6. /\ files \in Workspace /\ backup \in Workspace
        /\ loc \in [Procs -> Locals] /\ known \in [Procs -> Journal]
    BY <2>2, <2>3 DEF IInv, Typed
  <2>. QED  BY <2>4, <2>5, <2>6 DEF IInv, Typed, TypeOK, OneInside
<1>. QED  BY <1>1, Invariant, PartialTyped, PTL

\* Whoever holds a lease acts on the newest state the authority ever
\* committed, and that state is ARMED.
THEOREM LeaseIsCurrent == Spec => []LeaseActsOnNewestState
<1>1. IInv => LeaseActsOnNewestState
  BY DEF IInv, Standing, LeaseActsOnNewestState, Pending, MA!Pending
<1>. QED  BY <1>1, Invariant, PTL

\* A command that returned to its caller stays in the committed chain through
\* every crash and every restored workspace.
THEOREM ReturnsArePermanent == Spec => []ReturnedCommandsArePermanent
<1>1. IInv => ReturnedCommandsArePermanent
  BY DEF IInv
<1>. QED  BY <1>1, Invariant, PTL

\* An ARM names a revision number only, and still goes on top of exactly the
\* state its operator was told: what it was told is a prefix of the committed
\* chain, which is what the command extends, and as long as it.
THEOREM ArmsExtendWhatWasSeen == Spec => []ArmExtendsTheStateItsOperatorSaw
<1>1. IInv => ArmExtendsTheStateItsOperatorSaw
  <2>. SUFFICES ASSUME IInv, NEW p \in Procs, pc[p] = "prepare",
                       Mode(loc[p].next) = "ARMED"
                PROVE  known[p] = loc[p].base
    BY DEF ArmExtendsTheStateItsOperatorSaw
  <2>1. /\ loc[p].kind = "append" /\ authority.committed = loc[p].base
        /\ Commands(loc[p].base, loc[p].next)
        /\ Len(known[p]) = Len(loc[p].base)
    BY DEF IInv, Standing, Intends
  <2>2. known[p] \in Seq(Record) /\ loc[p].base \in Seq(Record)
    BY TypedParts, JournalTypes DEF IInv
  <2>3. CASE IsPrefix(known[p], authority.committed)
    BY <2>1, <2>2, <2>3, PrefixOrder
  <2>4. CASE authority.committed = <<>>
    BY <2>1, <2>2, <2>4, CommandMeaning
  <2>. QED  BY <2>3, <2>4 DEF IInv, Told
<1>. QED  BY <1>1, Invariant, PTL

\* Process deaths alone, between any two durable steps, never leave a
\* workspace that an operation or a recovery refuses.
THEOREM CrashesAreRecoverable == Spec => []CrashesAloneAreNeverRejected
<1>1. IInv => CrashesAloneAreNeverRejected
  BY ConstantsAssumption DEF IInv, Typed, FilesFollow, CrashesAloneAreNeverRejected
<1>. QED  BY <1>1, Invariant, PTL

\* An ARM becomes the anchored state by its own command or because a backup
\* that held it came back; a recovery only finishes a STOP.
THEOREM OnlyArmsAnchorArms == Spec => OnlyAnArmCommandAnchorsAnArm
<1>. DEFINE Anchoring ==
        files'.anchor # files.anchor /\ Mode(files'.anchor) = "ARMED"
            => \/ files' = backup
               \/ \E p \in Procs : pc[p] = "anchor" /\ loc[p].kind = "append"
<1>1. IInv /\ [Next]_vars => [Anchoring]_vars
  <2>. SUFFICES ASSUME IInv, [Next]_vars  PROVE [Anchoring]_vars
    OBVIOUS
  <2>1. CASE files' = files
    BY <2>1
  <2>2. CASE Restore
    BY <2>2 DEF Restore
  <2>3. ASSUME NEW p \in Procs, WriteAnchor(p)  PROVE Anchoring
    BY <2>3 DEF WriteAnchor, IInv, Standing
  <2>4. ASSUME NEW p \in Procs, AppendRecord(p) \/ Crash(p)  PROVE Anchoring
    <3>1. files'.anchor = files.anchor
      BY <2>4 DEF AppendRecord, Crash, IInv, Typed, Workspaces
    <3>. QED  BY <3>1
  <2>5. ASSUME NEW p \in Procs, Repair(p)  PROVE Anchoring
    <3>1. files'.anchor \in {files.anchor, Repaired}
      BY <2>5 DEF Repair, Reject, IInv, Typed, Workspaces
    <3>2. Mode(Repaired) = "ARMED" => Repaired = files.anchor
      BY DEF Repaired
    <3>. QED  BY <3>1, <3>2
  <2>. HIDE DEF Anchoring
  <2>. QED  BY <2>1, <2>2, <2>3, <2>4, <2>5
            DEF Anchoring, Next, Operation, vars, BeginCurrent, BeginLease, BeginRecover,
                InitializeStopped, Stop, Arm, BeginAppend, EnsureUnbound,
                AdoptReceipt, AdoptCommit, EnsureReceipt, EnsureRecovered, Reject,
                AuthorityStep, Prepare, WriteReceipt, CommitAppend, Return,
                AdmitArmed, AdmitStopped, EndLease, EnsureRefused, Backup, Refuse
<1>. QED  BY <1>1, Invariant, PTL DEF Spec, OnlyAnArmCommandAnchorsAnArm

-----------------------------------------------------------------------------
(* The register behind the journal, the anchor and the authority.          *)

Leases == {p \in Procs : pc[p] = "lease"}

\* The committed chain moves only by a COMMIT, and not under a lease.
LEMMA CommitsOutsideLeases ==
    ASSUME IInv, [Next]_vars
    PROVE  \/ authority'.committed = authority.committed
           \/ /\ authority'.committed = authority.pending /\ Pending
              /\ Leases = {} /\ Leases' = {} /\ baseline' = baseline
<1>1. authority \in Authorities /\ <<>> \in Journals
  BY TypedParts DEF IInv, Typed
<1>2. authority' = MA!Committed(authority) =>
        authority'.committed = authority.pending
  BY <1>1, AuthorityMoves
<1>3. ASSUME NEW p \in Procs, pc[p] \notin {"idle", "lease"},
             pc'[p] # "lease", \A q \in Procs : q # p => pc'[q] = pc[q]
      PROVE  Leases = {} /\ Leases' = {}
  BY <1>3, OthersAreOut DEF IInv, Leases
<1>4. CASE authority' = authority
  BY <1>4
<1>5. ASSUME NEW p \in Procs, EnsureUnbound(p) \/ Prepare(p)
      PROVE  authority'.committed = authority.committed
  <2>1. \/ authority' = authority
        \/ \E s \in Journals : authority' = MA!Prepared(authority, s)
    BY <1>5, TypedParts DEF EnsureUnbound, Prepare, Reject, IInv
  <2>. QED  BY <1>1, <2>1, AuthorityMoves
<1>6. ASSUME NEW p \in Procs, pc[p] # "idle", Pending,
             authority' = MA!Committed(authority),
             NEW label \in Labels \ {"lease"}, Goto(p, label), pc[p] # "lease",
             baseline' = baseline
      PROVE  /\ authority'.committed = authority.pending /\ Pending
             /\ Leases = {} /\ Leases' = {} /\ baseline' = baseline
  <2>1. pc \in [Procs -> Labels] /\ pc' = [pc EXCEPT ![p] = label]
    BY <1>6 DEF IInv, Typed, Goto
  <2>. QED  BY <1>2, <1>3, <1>6, <2>1
<1>7. ASSUME NEW p \in Procs
      PROVE  Continuation(p) \in Labels \ {"lease"}
  BY DEF Continuation, Labels
<1>8. ASSUME NEW p \in Procs, AdoptCommit(p)
      PROVE  /\ authority'.committed = authority.pending /\ Pending
             /\ Leases = {} /\ Leases' = {} /\ baseline' = baseline
  <2>1. /\ pc[p] = "adopted" /\ Pending /\ Goto(p, Continuation(p))
        /\ authority' = MA!Committed(authority) /\ baseline' = baseline
    BY <1>8 DEF AdoptCommit, AuthorityStep, environment, IInv, Standing
  <2>. QED  BY <1>6, <1>7, <2>1
<1>9. ASSUME NEW p \in Procs, CommitAppend(p)
      PROVE  /\ authority'.committed = authority.pending /\ Pending
             /\ Leases = {} /\ Leases' = {} /\ baseline' = baseline
  <2>1. /\ pc[p] = "commit" /\ Pending /\ Goto(p, "idle")
        /\ authority' = MA!Committed(authority) /\ baseline' = baseline
        /\ "idle" \in Labels \ {"lease"}
    BY <1>9 DEF CommitAppend, Leave, environment, MA!CanCommit, MA!Pending, Pending,
                Labels
  <2>. QED  BY <1>6, <2>1
<1>10. ASSUME NEW p \in Procs, EnsureRecovered(p)
       PROVE  \/ authority'.committed = authority.committed
              \/ /\ authority'.committed = authority.pending /\ Pending
                 /\ Leases = {} /\ Leases' = {} /\ baseline' = baseline
  <2>1. CASE Reject(p)
    BY <2>1 DEF Reject
  <2>2. CASE authority' = MA!Recovered(authority, loc[p].base)
             /\ AuthorityStep(p, Continuation(p))
    <3>1. /\ pc[p] = "ensure" /\ Goto(p, Continuation(p)) /\ baseline' = baseline
      BY <1>10, <2>2 DEF EnsureRecovered, AuthorityStep, environment
    <3>2. \/ authority' = authority
          \/ authority' = MA!Aborted(authority)
          \/ authority' = MA!Committed(authority) /\ Pending
      BY <2>2 DEF MA!Recovered, MA!Pending, Pending
    <3>3. authority' = MA!Aborted(authority) =>
            authority'.committed = authority.committed
      BY <1>1, AuthorityMoves
    <3>. QED  BY <1>6, <1>7, <3>1, <3>2, <3>3
  <2>. QED  BY <1>10, <2>1, <2>2 DEF EnsureRecovered
<1>. QED  BY <1>4, <1>5, <1>8, <1>9, <1>10
          DEF Next, Operation, vars, BeginCurrent, BeginLease, BeginRecover,
              InitializeStopped, Stop, Arm, BeginAppend, Repair, Reject, AdoptReceipt,
              EnsureReceipt, WriteReceipt, AppendRecord, WriteAnchor, FileStep,
              Return, AdmitArmed, AdmitStopped, EndLease, EnsureRefused, Leave, Crash,
              Backup, Restore, Refuse

\* Leases begin one at a time on an ARMED state, and end.
LEMMA LeasesMove ==
    ASSUME IInv, [Next]_vars
    PROVE  /\ baseline' = baseline
           /\ \/ Leases' = Leases
              \/ \E p \in Procs : /\ Leases = {} /\ Leases' = {p}
                                  /\ Mode(authority.committed) = "ARMED"
              \/ \E p \in Leases : Leases' = Leases \ {p}
<1>1. baseline' = baseline
  BY DEF Next, Operation, vars, environment, BeginCurrent, BeginLease, BeginRecover,
         InitializeStopped, Stop, Arm, BeginAppend, Repair, EnsureUnbound,
         AdoptReceipt, AdoptCommit, EnsureReceipt, EnsureRecovered, AuthorityStep,
         Prepare, WriteReceipt, AppendRecord, WriteAnchor, FileStep, CommitAppend,
         Return, AdmitArmed, AdmitStopped, EndLease, EnsureRefused, Crash, Backup,
         Restore, Refuse
<1>2. ASSUME pc' = pc  PROVE Leases' = Leases
  BY <1>2 DEF Leases
<1>3. ASSUME NEW p \in Procs, NEW label \in Labels \ {"lease"}, Goto(p, label)
      PROVE  Leases' = Leases \ {p}
  <2>1. pc \in [Procs -> Labels] /\ pc' = [pc EXCEPT ![p] = label]
    BY <1>3 DEF IInv, Typed, Goto
  <2>. QED  BY <2>1 DEF Leases
<1>4. ASSUME NEW p \in Procs, AdmitArmed(p)
      PROVE  /\ Leases = {} /\ Leases' = {p} /\ Mode(authority.committed) = "ARMED"
  <2>1. /\ pc \in [Procs -> Labels] /\ pc' = [pc EXCEPT ![p] = "lease"]
        /\ pc[p] = "admit" /\ Mode(loc[p].base) = "ARMED"
        /\ authority.committed = loc[p].base
    BY <1>4 DEF AdmitArmed, Goto, IInv, Typed, Standing
  <2>2. \A q \in Procs : q # p => pc[q] = "idle"
    BY <2>1, OthersAreOut DEF IInv
  <2>. QED  BY <2>1, <2>2 DEF Leases
<1>5. \A p \in Procs : Continuation(p) \in Labels \ {"lease"}
  BY DEF Continuation, Labels
<1>6. ASSUME NEW p \in Procs, Operation(p), ~AdmitArmed(p)
      PROVE  pc' = pc \/ \E label \in Labels \ {"lease"} : Goto(p, label)
  <2>1. \A label \in {"idle", "ensure", "repair", "adopt", "adopted", "receipt",
                      "append", "anchor", "commit", "prepare"} :
          label \in Labels \ {"lease"}
    BY DEF Labels
  <2>2. CASE BeginRecover(p)
    BY <2>1, <2>2 DEF BeginRecover, Enter
  <2>3. CASE EnsureRecovered(p) \/ EnsureUnbound(p) \/ AdoptCommit(p)
    BY <1>5, <2>1, <2>3 DEF EnsureRecovered, EnsureUnbound, AdoptCommit,
                            AuthorityStep, Reject, Leave
  <2>. QED  BY <1>6, <2>1, <2>2, <2>3
            DEF Operation, BeginCurrent, BeginLease, InitializeStopped, Stop, Arm,
                BeginAppend, Enter, Repair, Reject, Leave, AdoptReceipt,
                EnsureReceipt, AuthorityStep, Prepare, WriteReceipt, AppendRecord,
                WriteAnchor, FileStep, CommitAppend, Return, AdmitStopped, EndLease,
                EnsureRefused
<1>7. ASSUME NEW p \in Procs, Crash(p)
      PROVE  \E label \in Labels \ {"lease"} : Goto(p, label)
  BY <1>7 DEF Crash, Leave, Labels
<1>8. ASSUME NEW p \in Procs, Leases' = Leases \ {p}
      PROVE  Leases' = Leases \/ \E q \in Leases : Leases' = Leases \ {q}
  BY <1>8
<1>9. \/ Leases' = Leases
      \/ \E p \in Procs : /\ Leases = {} /\ Leases' = {p}
                          /\ Mode(authority.committed) = "ARMED"
      \/ \E p \in Leases : Leases' = Leases \ {p}
  <2>1. CASE \E p \in Procs : Operation(p) /\ ~AdmitArmed(p)
    BY <1>2, <1>3, <1>6, <1>8, <2>1
  <2>2. CASE \E p \in Procs : AdmitArmed(p)
    BY <1>4, <2>2
  <2>3. CASE \E p \in Procs : Crash(p)
    BY <1>3, <1>7, <1>8, <2>3
  <2>4. CASE Backup \/ Restore \/ Refuse \/ UNCHANGED vars
    BY <1>2, <2>4 DEF Backup, Restore, Refuse, vars
  <2>. QED  BY <2>1, <2>2, <2>3, <2>4 DEF Next
<1>. QED  BY <1>1, <1>9

\* Through the committed chain, commands take effect in one step and never
\* under a lease, no confirmation arms twice, and an upgrade starts from the
\* old state.
THEOREM Refinement == Spec => ImplementsModeRegister
<1>1. Mode(<<>>) = "MISSING" /\ Spent(<<>>) = {}
  BY DEF Mode, Spent
<1>2. Init => Register!Init
  <2>. SUFFICES ASSUME Init  PROVE Register!Init
    OBVIOUS
  <2>1. authority.committed = <<>> /\ \A p \in Procs : pc[p] = "idle"
    BY DEF Init, MA!NoHistory
  <2>2. baseline \in Seq(Record)
    BY InitInvariant, TypedParts, JournalTypes DEF IInv, Typed
  <2>3. Spent(baseline) \subseteq Confs
    <3>1. \A i \in DOMAIN baseline : baseline[i] \in Record
      BY <2>2
    <3>. QED  BY <3>1 DEF Spent, Record
  <2>4. Mode(baseline) \in {"MISSING", "STOPPED", "ARMED"}
    <3>1. baseline # <<>> => Last(baseline) \in Record
      BY <2>2 DEF Last
    <3>. QED  BY <3>1 DEF Mode, Record
  <2>. QED  BY <1>1, <2>1, <2>3, <2>4 DEF Register!Init, Register!Modes
<1>3. IInv /\ [Next]_vars => [Register!Next]_(Register!vars)
  <2>. SUFFICES ASSUME IInv, [Next]_vars
                PROVE  [Register!Next]_(Register!vars)
    OBVIOUS
  <2>1. baseline' = baseline
    BY LeasesMove
  <2>2. /\ authority.committed \in Seq(Record) /\ authority.pending \in Seq(Record)
    BY TypedParts, JournalTypes DEF IInv
  <2>3. CASE authority'.committed = authority.committed
    <3>1. CASE Leases' = Leases
      BY <2>1, <2>3, <3>1 DEF Register!vars, Leases
    <3>2. ASSUME NEW p \in Procs, Leases = {}, Leases' = {p},
                 Mode(authority.committed) = "ARMED"
          PROVE  Register!Grant(p)
      BY <2>1, <2>3, <3>2 DEF Register!Grant, Leases
    <3>3. ASSUME NEW p \in Leases, Leases' = Leases \ {p}
          PROVE  p \in Procs /\ Register!Release(p)
      BY <2>1, <2>3, <3>3 DEF Register!Release, Leases
    <3>. QED  BY <3>1, <3>2, <3>3, LeasesMove DEF Register!Next
  <2>4. CASE authority'.committed # authority.committed
    <3>1. /\ authority'.committed = authority.pending /\ Pending
          /\ Leases = {} /\ Leases' = {}
      BY <2>4, CommitsOutsideLeases
    <3>2. CASE authority.committed = <<>> /\ authority.pending = baseline
      <4>1. Register!Adopt
        BY <1>1, <2>1, <3>1, <3>2 DEF Register!Adopt, Leases
      <4>. QED  BY <4>1 DEF Register!Next
    <3>3. CASE Commands(authority.committed, authority.pending)
      <4>1. CASE /\ Mode(authority.pending) = "STOPPED"
                 /\ Spent(authority.pending) = Spent(authority.committed)
        <5>1. Register!Stop
          BY <2>1, <3>1, <4>1 DEF Register!Stop, Leases
        <5>. QED  BY <5>1 DEF Register!Next
      <4>2. ASSUME NEW x \in Confs, Mode(authority.pending) = "ARMED",
                   authority.committed # <<>>, x \notin Spent(authority.committed),
                   Spent(authority.pending) = Spent(authority.committed) \cup {x}
            PROVE  Register!Next
        <5>1. Last(authority.committed) \in Record
          BY <2>2, <4>2 DEF Last
        <5>2. Mode(authority.committed) \in {"STOPPED", "ARMED"}
          BY <4>2, <5>1 DEF Mode, Record
        <5>3. Register!Arm(x)
          BY <2>1, <3>1, <4>2, <5>2 DEF Register!Arm, Register!Modes, Leases
        <5>. QED  BY <5>3 DEF Register!Next
      <4>. QED  BY <2>2, <3>3, <4>1, <4>2, CommandMeaning
    <3>. QED  BY <3>1, <3>2, <3>3 DEF IInv, Chain
  <2>. QED  BY <2>3, <2>4
<1>. QED  BY <1>2, <1>3, Invariant, PTL
          DEF Spec, ImplementsModeRegister, Register!Spec

=============================================================================
