--------------------------- MODULE SequenceLemmas ---------------------------
(* Facts about sequences that the proofs about containers rest on.          *)
EXTENDS Integers, Sequences, SequencesExt, SequenceTheorems, WellFoundedInduction, TLAPS

(* Every nonempty set of natural numbers has a least element.               *)
LEMMA LeastNatural ==
  ASSUME NEW T, T \subseteq Nat, T # {}
  PROVE  \E m \in T : \A n \in T : m <= n
  <1>1. \E m \in T : \A n \in T : <<n, m>> \notin OpToRel(<, Nat)
    BY NatLessThanWellFounded, WFMin
  <1>2. PICK m \in T : \A n \in T : <<n, m>> \notin OpToRel(<, Nat) BY <1>1
  <1>3. \A n \in T : ~(n < m) BY <1>2 DEF OpToRel
  <1> QED BY <1>3

(* The front and the last element of a sequence that is not empty.          *)
LEMMA FrontLast ==
  ASSUME NEW S, NEW s \in Seq(S), s # <<>>
  PROVE  /\ Len(s) \in Nat \ {0}
         /\ Front(s) \in Seq(S) /\ Len(Front(s)) = Len(s) - 1
         /\ \A i \in 1..(Len(s) - 1) : Front(s)[i] = s[i]
         /\ Last(s) \in S
         /\ Len(s) <= 1 => Front(s) = <<>>
  <1>1. Len(s) \in Nat \ {0} BY EmptySeq
  <1>2. \A i \in 1..(Len(s) - 1) : s[i] \in S BY <1>1, ElementOfSeq
  <1>3. Last(s) \in S BY <1>1, ElementOfSeq DEF Last
  <1>4. /\ Front(s) \in Seq(S) /\ Len(Front(s)) = Len(s) - 1
        /\ \A i \in 1..(Len(s) - 1) : Front(s)[i] = s[i]
    <2>1. 1 \in Int /\ Len(s) - 1 \in Int BY <1>1
    <2>2. /\ SubSeq(s, 1, Len(s) - 1) \in Seq(S)
          /\ Len(SubSeq(s, 1, Len(s) - 1)) = IF 1 <= Len(s) - 1 THEN Len(s) - 1 - 1 + 1 ELSE 0
          /\ \A i \in 1..(Len(s) - 1 - 1 + 1) : SubSeq(s, 1, Len(s) - 1)[i] = s[1 + i - 1]
      BY <1>2, <2>1, SubSeqProperties
    <2>3. Len(Front(s)) = Len(s) - 1
      <3>1. CASE Len(s) = 1 BY <3>1, <2>2 DEF Front
      <3>2. CASE Len(s) # 1
        <4>1. \A n \in Nat \ {0} : n # 1 => 1 <= n - 1 /\ n - 1 - 1 + 1 = n - 1 OBVIOUS
        <4>2. 1 <= Len(s) - 1 /\ Len(s) - 1 - 1 + 1 = Len(s) - 1 BY <1>1, <3>2, <4>1
        <4> QED BY <4>2, <2>2 DEF Front
      <3> QED BY <3>1, <3>2
    <2>4. \A i \in 1..(Len(s) - 1) : Front(s)[i] = s[i]
      <3>1. Len(s) - 1 - 1 + 1 = Len(s) - 1 BY <1>1
      <3>2. \A i \in 1..(Len(s) - 1) : 1 + i - 1 = i OBVIOUS
      <3> QED BY <2>2, <3>1, <3>2 DEF Front
    <2> QED BY <2>2, <2>3, <2>4 DEF Front
  <1>5. Len(s) <= 1 => Front(s) = <<>> BY <1>1, <1>4, EmptySeq
  <1> QED BY <1>1, <1>3, <1>4, <1>5

(* What a sequence contains after Append.                                   *)
LEMMA ContainsAppend ==
  ASSUME NEW S, NEW s \in Seq(S), NEW e \in S
  PROVE  \A x : Contains(Append(s, e), x) <=> Contains(s, x) \/ x = e
  <1> DEFINE a == Append(s, e)
  <1>1. /\ Len(s) \in Nat /\ Len(a) = Len(s) + 1
        /\ \A i \in 1..Len(s) : a[i] = s[i]
        /\ a[Len(s) + 1] = e
    BY AppendProperties, LenProperties
  <1> HIDE DEF a
  <1>2. \A i \in 1..Len(a) : i \in 1..Len(s) \/ i = Len(s) + 1 BY <1>1
  <1>3. (1..Len(s)) \subseteq 1..Len(a) /\ Len(s) + 1 \in 1..Len(a) BY <1>1
  <1>4. \A x : Contains(a, x) <=> Contains(s, x) \/ x = e BY <1>1, <1>2, <1>3 DEF Contains
  <1> QED BY <1>4 DEF a

(* What a sequence that is not empty contains.                              *)
LEMMA ContainsHeadTail ==
  ASSUME NEW S, NEW s \in Seq(S), s # <<>>
  PROVE  /\ Head(s) \in S /\ Tail(s) \in Seq(S)
         /\ \A x : Contains(s, x) <=> Contains(Tail(s), x) \/ x = Head(s)
  <1> DEFINE t == Tail(s)
  <1>1. /\ Len(s) \in Nat \ {0} /\ Head(s) \in S /\ t \in Seq(S) /\ Len(t) = Len(s) - 1
        /\ \A i \in 1..Len(t) : t[i] = s[i + 1]
    BY HeadTailProperties, EmptySeq
  <1>2. Head(s) = s[1] BY <1>1
  <1> HIDE DEF t
  <1>3. \A i \in 1..Len(s) : i = 1 \/ (i - 1 \in 1..Len(t) /\ t[i - 1] = s[i]) BY <1>1
  <1>4. \A i \in 1..Len(t) : i + 1 \in 1..Len(s) /\ t[i] = s[i + 1] BY <1>1
  <1>5. 1 \in 1..Len(s) BY <1>1
  <1>6. ASSUME NEW x PROVE Contains(s, x) <=> Contains(t, x) \/ x = Head(s)
    <2>1. Contains(s, x) => Contains(t, x) \/ x = Head(s) BY <1>2, <1>3 DEF Contains
    <2>2. Contains(t, x) => Contains(s, x) BY <1>4 DEF Contains
    <2>3. x = Head(s) => Contains(s, x) BY <1>2, <1>5 DEF Contains
    <2> QED BY <2>1, <2>2, <2>3
  <1> QED BY <1>1, <1>6 DEF t

(* What a concatenation contains.                                           *)
LEMMA ContainsConcat ==
  ASSUME NEW S, NEW s \in Seq(S), NEW t \in Seq(S)
  PROVE  \A x : Contains(s \o t, x) <=> Contains(s, x) \/ Contains(t, x)
  <1> DEFINE c == s \o t
  <1>1. /\ Len(s) \in Nat /\ Len(t) \in Nat /\ Len(c) = Len(s) + Len(t)
        /\ \A i \in 1..(Len(s) + Len(t)) : c[i] = IF i <= Len(s) THEN s[i] ELSE t[i - Len(s)]
    BY ConcatProperties, LenProperties
  <1> HIDE DEF c
  <1>2. \A i \in 1..Len(s) : i \in 1..Len(c) /\ c[i] = s[i] BY <1>1
  <1>3. \A i \in 1..Len(t) : i + Len(s) \in 1..Len(c) /\ c[i + Len(s)] = t[i] BY <1>1
  <1>4. \A i \in 1..Len(c) : \/ i \in 1..Len(s) /\ c[i] = s[i]
                             \/ i - Len(s) \in 1..Len(t) /\ c[i] = t[i - Len(s)]
    BY <1>1
  <1>5. ASSUME NEW x PROVE Contains(c, x) <=> Contains(s, x) \/ Contains(t, x)
    <2>1. Contains(c, x) => Contains(s, x) \/ Contains(t, x) BY <1>4 DEF Contains
    <2>2. Contains(s, x) => Contains(c, x) BY <1>2 DEF Contains
    <2>3. Contains(t, x) => Contains(c, x) BY <1>3 DEF Contains
    <2> QED BY <2>1, <2>2, <2>3
  <1> QED BY <1>5 DEF c

(* The empty sequence contains nothing.                                     *)
LEMMA ContainsEmpty == \A x : ~Contains(<<>>, x)
  <1>1. Len(<<>>) = 0 BY EmptySeq
  <1>2. \A i \in 1..0 : FALSE OBVIOUS
  <1> QED BY <1>1, <1>2 DEF Contains

\* No element twice.
Distinct(s) == \A i, j \in DOMAIN s : s[i] = s[j] => i = j

(* Appending what is not there yet repeats nothing.                         *)
LEMMA DistinctAppend ==
  ASSUME NEW S, NEW s \in Seq(S), NEW e \in S, Distinct(s), ~Contains(s, e)
  PROVE  Distinct(Append(s, e))
  <1> DEFINE a == Append(s, e)
  <1>1. /\ Len(s) \in Nat /\ Len(a) = Len(s) + 1
        /\ \A i \in 1..Len(s) : a[i] = s[i]
        /\ a[Len(s) + 1] = e
        /\ DOMAIN s = 1..Len(s) /\ a \in Seq(S)
    BY AppendProperties, LenProperties
  <1>2. DOMAIN a = 1..Len(a) BY <1>1, LenProperties
  <1> HIDE DEF a
  <1>3. \A i \in 1..Len(s) : s[i] # e BY DEF Contains
  <1>4. \A i \in 1..Len(a) : i \in 1..Len(s) \/ i = Len(s) + 1 BY <1>1
  <1>5. Distinct(a) BY <1>1, <1>2, <1>3, <1>4 DEF Distinct
  <1> QED BY <1>5 DEF a

(* RemoveFirst of the community modules removes exactly one place.          *)
LEMMA RemoveFirstPlace ==
  ASSUME NEW S, NEW s \in Seq(S), NEW e, Contains(s, e)
  PROVE  \E k \in 1..Len(s) :
           /\ s[k] = e
           /\ RemoveFirst(s, e) = SubSeq(s, 1, k - 1) \o SubSeq(s, k + 1, Len(s))
  <1> DEFINE I == {i \in 1..Len(s) : s[i] = e}
  <1>1. Len(s) \in Nat BY LenProperties
  <1>2. I # {} /\ I \subseteq Nat BY <1>1 DEF Contains
  <1>3. \E m \in I : \A n \in I : m <= n BY <1>2, LeastNatural
  <1>4. Min(I) \in I BY <1>3 DEF Min
  <1>5. SelectInSeq(s, LAMBDA v : v = e) = Min(I) BY <1>2 DEF SelectInSeq
  <1>6. RemoveFirst(s, e) = RemoveAt(s, Min(I)) BY <1>5 DEF RemoveFirst, Contains
  <1> QED BY <1>4, <1>6 DEF RemoveAt

(* What RemoveFirst leaves of a sequence that repeats nothing.              *)
LEMMA RemoveFirstContains ==
  ASSUME NEW S, NEW s \in Seq(S), NEW e
  PROVE  /\ RemoveFirst(s, e) \in Seq(S)
         /\ \A x : x # e => (Contains(RemoveFirst(s, e), x) <=> Contains(s, x))
         /\ Distinct(s) => Distinct(RemoveFirst(s, e)) /\ ~Contains(RemoveFirst(s, e), e)
  <1>1. CASE ~Contains(s, e)
    <2>1. RemoveFirst(s, e) = s BY <1>1 DEF RemoveFirst, Contains
    <2> QED BY <1>1, <2>1
  <1>2. CASE Contains(s, e)
    <2>1. PICK k \in 1..Len(s) :
            /\ s[k] = e
            /\ RemoveFirst(s, e) = SubSeq(s, 1, k - 1) \o SubSeq(s, k + 1, Len(s))
      BY <1>2, RemoveFirstPlace
    <2> DEFINE n == Len(s)
               a == SubSeq(s, 1, k - 1)
               b == SubSeq(s, k + 1, n)
               r == a \o b
    <2>2. n \in Nat /\ k \in Int /\ DOMAIN s = 1..n /\ \A i \in 1..n : s[i] \in S
      BY LenProperties, ElementOfSeq
    <2>3. /\ a \in Seq(S) /\ Len(a) = k - 1
          /\ \A i \in 1..(k - 1) : a[i] = s[i]
      <3>1. \A i \in 1..(k - 1) : s[i] \in S BY <2>2
      <3>2. /\ SubSeq(s, 1, k - 1) \in Seq(S)
            /\ Len(SubSeq(s, 1, k - 1)) = IF 1 <= k - 1 THEN k - 1 - 1 + 1 ELSE 0
            /\ \A i \in 1..(k - 1 - 1 + 1) : SubSeq(s, 1, k - 1)[i] = s[1 + i - 1]
        BY <2>2, <3>1, SubSeqProperties
      <3> QED BY <2>2, <3>2
    <2>4. /\ b \in Seq(S) /\ Len(b) = n - k
          /\ \A i \in 1..(n - k) : b[i] = s[k + i]
      <3>1. \A i \in (k + 1)..n : s[i] \in S BY <2>2
      <3>2. /\ SubSeq(s, k + 1, n) \in Seq(S)
            /\ Len(SubSeq(s, k + 1, n)) = IF k + 1 <= n THEN n - (k + 1) + 1 ELSE 0
            /\ \A i \in 1..(n - (k + 1) + 1) : SubSeq(s, k + 1, n)[i] = s[k + 1 + i - 1]
        BY <2>2, <3>1, SubSeqProperties
      <3>3. k \in 1..n OBVIOUS
      <3> HIDE DEF n
      <3>4. n - (k + 1) + 1 = n - k /\ (k + 1 <= n \/ n - k = 0) BY <2>2, <3>3
      <3>5. \A i \in 1..(n - k) : k + 1 + i - 1 = k + i BY <2>2
      <3>6. \A i \in 1..(n - k) : b[i] = s[k + i] BY <3>2, <3>4, <3>5
      <3> QED BY <3>2, <3>4, <3>6
    <2> HIDE DEF n, a, b
    <2>5. /\ r \in Seq(S) /\ Len(r) = n - 1
          /\ \A i \in 1..(n - 1) : r[i] = IF i < k THEN s[i] ELSE s[i + 1]
      <3>1. /\ r \in Seq(S) /\ Len(r) = Len(a) + Len(b)
            /\ \A i \in 1..(Len(a) + Len(b)) : r[i] = IF i <= Len(a) THEN a[i] ELSE b[i - Len(a)]
        BY <2>3, <2>4, ConcatProperties
      <3>2. k \in 1..n BY DEF n
      <3> HIDE DEF r
      <3>3. Len(r) = n - 1 BY <2>2, <2>3, <2>4, <3>1
      <3>4. ASSUME NEW i \in 1..(n - 1) PROVE r[i] = IF i < k THEN s[i] ELSE s[i + 1]
        <4>1. i \in 1..(Len(a) + Len(b)) BY <2>2, <2>3, <2>4, <3>2
        <4>2. CASE i < k BY <4>1, <4>2, <2>2, <2>3, <3>1, <3>2
        <4>3. CASE ~(i < k)
          <5>1. i - (k - 1) \in 1..(n - k) BY <4>3, <2>2, <3>2
          <5>2. r[i] = b[i - (k - 1)] BY <4>1, <4>3, <2>2, <2>3, <3>1, <3>2
          <5>3. k + (i - (k - 1)) = i + 1 BY <2>2
          <5> QED BY <4>3, <5>1, <5>2, <5>3, <2>4
        <4> QED BY <4>2, <4>3
      <3> QED BY <3>1, <3>3, <3>4
    <2>6. r = RemoveFirst(s, e) BY <2>1 DEF r, a, b, n
    <2>7. k \in 1..n BY DEF n
    <2> HIDE DEF r
    <2>8. DOMAIN r = 1..(n - 1) BY <2>5, LenProperties
    <2>9. ASSUME NEW i \in 1..(n - 1)
          PROVE  \E j \in 1..n : j # k /\ r[i] = s[j] /\ j = (IF i < k THEN i ELSE i + 1)
      <3>1. CASE i < k BY <3>1, <2>2, <2>5, <2>7
      <3>2. CASE ~(i < k) BY <3>2, <2>2, <2>5, <2>7
      <3> QED BY <3>1, <3>2
    <2>10. ASSUME NEW j \in 1..n, j # k PROVE \E i \in 1..(n - 1) : r[i] = s[j]
      <3>1. CASE j < k
        <4>1. j \in 1..(n - 1) BY <3>1, <2>2, <2>7
        <4> QED BY <3>1, <4>1, <2>5
      <3>2. CASE k < j
        <4>1. j - 1 \in 1..(n - 1) /\ ~(j - 1 < k) /\ j - 1 + 1 = j BY <3>2, <2>2, <2>7
        <4> QED BY <4>1, <2>5
      <3> QED BY <2>10, <3>1, <3>2, <2>2, <2>7
    <2>11. ASSUME NEW x, x # e PROVE Contains(r, x) <=> Contains(s, x)
      <3>1. Contains(r, x) => Contains(s, x) BY <2>5, <2>9 DEF Contains, n
      <3>2. ASSUME Contains(s, x) PROVE Contains(r, x)
        <4>1. PICK j \in 1..n : s[j] = x BY <3>2 DEF Contains, n
        <4>2. j # k BY <4>1, <2>1, <2>11
        <4> QED BY <4>1, <4>2, <2>5, <2>10 DEF Contains
      <3> QED BY <3>1, <3>2
    <2>12. ASSUME Distinct(s) PROVE Distinct(r) /\ ~Contains(r, e)
      <3>1. \A i, j \in 1..n : s[i] = s[j] => i = j BY <2>12, <2>2 DEF Distinct
      <3>2. ~Contains(r, e) BY <3>1, <2>1, <2>5, <2>7, <2>9 DEF Contains
      <3>3. ASSUME NEW i1 \in 1..(n - 1), NEW i2 \in 1..(n - 1), r[i1] = r[i2] PROVE i1 = i2
        <4>1. PICK j1 \in 1..n : r[i1] = s[j1] /\ j1 = (IF i1 < k THEN i1 ELSE i1 + 1) BY <2>9
        <4>2. PICK j2 \in 1..n : r[i2] = s[j2] /\ j2 = (IF i2 < k THEN i2 ELSE i2 + 1) BY <2>9
        <4>3. j1 = j2 BY <3>1, <3>3, <4>1, <4>2
        <4> QED BY <4>1, <4>2, <4>3, <2>2, <2>7
      <3> QED BY <3>2, <3>3, <2>8 DEF Distinct
    <2> QED BY <2>5, <2>6, <2>11, <2>12
  <1> QED BY <1>1, <1>2
=============================================================================
