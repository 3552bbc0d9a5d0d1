--------------------------- MODULE JournalLemmas ----------------------------
(***************************************************************************)
(* Facts about sequences that grow at their end, which the proofs about    *)
(* every journal of this system need: what a prefix says element by        *)
(* element, that prefixes are ordered, and what an append leaves alone.    *)
(***************************************************************************)
EXTENDS Naturals, Sequences, SequencesExt, TLAPS

\* A prefix agrees with the sequence it begins.
LEMMA PrefixMeaning ==
    ASSUME NEW S, NEW s \in Seq(S), NEW t \in Seq(S)
    PROVE  IsPrefix(s, t) <=> /\ Len(s) <= Len(t)
                              /\ \A i \in 1..Len(s) : s[i] = t[i]
<1>1. Len(s) <= Len(t) =>
        /\ SubSeq(s, 1, Len(s)) = s
        /\ SubSeq(t, 1, Len(s)) \in Seq(S) /\ Len(SubSeq(t, 1, Len(s))) = Len(s)
        /\ \A i \in 1..Len(s) : SubSeq(t, 1, Len(s))[i] = t[i]
  OBVIOUS
<1>2. ASSUME Len(s) <= Len(t), \A i \in 1..Len(s) : s[i] = t[i]
      PROVE  s = SubSeq(t, 1, Len(s))
  BY <1>1, <1>2
<1>. QED  BY <1>1, <1>2 DEF IsPrefix

\* Prefixes are a partial order with the empty sequence at its bottom.
LEMMA PrefixOrder ==
    ASSUME NEW S, NEW s \in Seq(S), NEW t \in Seq(S)
    PROVE  /\ IsPrefix(s, s) /\ IsPrefix(<<>>, s)
           /\ \A u \in Seq(S) : IsPrefix(s, t) /\ IsPrefix(t, u) => IsPrefix(s, u)
           /\ IsPrefix(s, t) /\ Len(s) = Len(t) => s = t
<1>1. \A a, b \in Seq(S) : IsPrefix(a, b) <=>
          /\ Len(a) <= Len(b) /\ \A i \in 1..Len(a) : a[i] = b[i]
  BY PrefixMeaning
<1>2. \A a \in Seq(S) : Len(a) \in Nat
  OBVIOUS
<1>3. IsPrefix(s, s)
  BY <1>1, <1>2
<1>4. IsPrefix(<<>>, s)
  <2>. DEFINE e == <<>>
  <2>1. e \in Seq(S) /\ Len(e) = 0
    OBVIOUS
  <2>. HIDE DEF e
  <2>2. Len(e) <= Len(s) /\ \A i \in 1..Len(e) : e[i] = s[i]
    BY <1>2, <2>1
  <2>3. IsPrefix(e, s)
    BY <1>1, <2>1, <2>2
  <2>. QED  BY <2>3 DEF e
<1>5. ASSUME NEW u \in Seq(S), IsPrefix(s, t), IsPrefix(t, u)
      PROVE  IsPrefix(s, u)
  <2>1. Len(s) <= Len(t) /\ Len(t) <= Len(u) /\ Len(s) <= Len(u)
    BY <1>1, <1>2, <1>5
  <2>2. \A i \in 1..Len(s) : s[i] = u[i]
    BY <1>1, <1>2, <1>5, <2>1
  <2>. QED  BY <1>1, <2>1, <2>2
<1>6. ASSUME IsPrefix(s, t), Len(s) = Len(t)
      PROVE  s = t
  BY <1>1, <1>6
<1>. QED  BY <1>3, <1>4, <1>5, <1>6

\* An append adds its element at the end and keeps the rest.
LEMMA AppendMeaning ==
    ASSUME NEW S, NEW s \in Seq(S), NEW e \in S
    PROVE  /\ Append(s, e) \in Seq(S) /\ Append(s, e) # <<>>
           /\ Len(s) \in Nat /\ Len(Append(s, e)) = Len(s) + 1
           /\ DOMAIN s = 1..Len(s) /\ DOMAIN Append(s, e) = DOMAIN s \cup {Len(s) + 1}
           /\ Len(s) + 1 \notin DOMAIN s
           /\ \A i \in DOMAIN s : Append(s, e)[i] = s[i]
           /\ Append(s, e)[Len(s) + 1] = e
           /\ Last(Append(s, e)) = e
           /\ IsPrefix(s, Append(s, e))
<1>1. /\ Append(s, e) \in Seq(S) /\ Append(s, e) # <<>>
      /\ Len(s) \in Nat /\ Len(Append(s, e)) = Len(s) + 1
      /\ DOMAIN s = 1..Len(s) /\ DOMAIN Append(s, e) = DOMAIN s \cup {Len(s) + 1}
      /\ Len(s) + 1 \notin DOMAIN s
      /\ \A i \in DOMAIN s : Append(s, e)[i] = s[i]
      /\ Append(s, e)[Len(s) + 1] = e
  OBVIOUS
<1>2. IsPrefix(s, Append(s, e))
  <2>1. /\ Len(s) <= Len(Append(s, e))
        /\ \A i \in 1..Len(s) : s[i] = Append(s, e)[i]
    BY <1>1
  <2>. QED  BY <1>1, <2>1, PrefixMeaning
<1>. QED  BY <1>1, <1>2 DEF Last

=============================================================================
