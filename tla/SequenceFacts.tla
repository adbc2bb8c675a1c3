---------------------------- MODULE SequenceFacts ----------------------------
(* Facts about sequences used as the client's lists: Array.splice of one       *)
(* element, and a list as the set of its elements.                             *)
EXTENDS Integers, Sequences, SequencesExt, SequenceTheorems, WellFoundedInduction, TLAPS

(* Splicing out one element keeps the others, in their order.                 *)
LEMMA RemoveAtFacts ==
    ASSUME NEW S, NEW s \in Seq(S), NEW i \in 1 .. Len(s)
    PROVE  /\ RemoveAt(s, i) \in Seq(S)
           /\ Len(RemoveAt(s, i)) = Len(s) - 1
           /\ \A j \in 1 .. Len(RemoveAt(s, i)) :
                 RemoveAt(s, i)[j] = IF j < i THEN s[j] ELSE s[j + 1]
<1> DEFINE a == SubSeq(s, 1, i - 1)
           b == SubSeq(s, i + 1, Len(s))
<1>1. /\ a \in Seq(S) /\ Len(a) = i - 1
      /\ \A j \in 1 .. (i - 1) : a[j] = s[j]
  BY SubSeqProperties, ElementOfSeq
<1>2. /\ b \in Seq(S) /\ Len(b) = Len(s) - i
      /\ \A j \in 1 .. (Len(s) - i) : b[j] = s[i + j]
  BY SubSeqProperties, ElementOfSeq
<1>3. RemoveAt(s, i) = a \o b
  BY DEF RemoveAt
<1>4. /\ a \o b \in Seq(S)
      /\ Len(a \o b) = Len(a) + Len(b)
      /\ \A j \in 1 .. Len(a) + Len(b) : (a \o b)[j] = IF j <= Len(a) THEN a[j] ELSE b[j - Len(a)]
  <2> HIDE DEF a, b
  <2> QED BY <1>1, <1>2, ConcatProperties
<1> HIDE DEF a, b
<1>5. Len(a) + Len(b) = Len(s) - 1
  BY <1>1, <1>2
<1>6. ASSUME NEW j \in 1 .. (Len(s) - 1)
      PROVE  (a \o b)[j] = IF j < i THEN s[j] ELSE s[j + 1]
  <2>1. CASE j < i
    BY <2>1, <1>1, <1>4, <1>5
  <2>2. CASE ~(j < i)
    <3>1. j - Len(a) \in 1 .. (Len(s) - i) /\ i + (j - Len(a)) = j + 1
      BY <2>2, <1>1
    <3>2. (a \o b)[j] = b[j - Len(a)]
      BY <2>2, <1>1, <1>4, <1>5
    <3> QED BY <2>2, <3>1, <3>2, <1>2
  <2> QED BY <2>1, <2>2
<1> QED BY <1>3, <1>4, <1>5, <1>6

(* What is left after a splice was there before it.                           *)
LEMMA RemoveAtElements ==
    ASSUME NEW S, NEW s \in Seq(S), NEW i \in 1 .. Len(s)
    PROVE  ToSet(RemoveAt(s, i)) \subseteq ToSet(s)
<1>1. DOMAIN s = 1 .. Len(s) /\ DOMAIN RemoveAt(s, i) = 1 .. (Len(s) - 1)
  BY RemoveAtFacts
<1> SUFFICES ASSUME NEW j \in 1 .. (Len(s) - 1)
             PROVE  RemoveAt(s, i)[j] \in ToSet(s)
  BY <1>1, Zenon DEF ToSet
<1>2. RemoveAt(s, i)[j] = s[j] \/ RemoveAt(s, i)[j] = s[j + 1]
  BY RemoveAtFacts
<1>3. j \in DOMAIN s /\ j + 1 \in DOMAIN s
  BY <1>1
<1>4. \A k \in DOMAIN s : s[k] \in ToSet(s)
  BY Zenon DEF ToSet
<1> QED BY <1>2, <1>3, <1>4

(* Appending adds one element, dropping the head none.                        *)
LEMMA AppendElements ==
    ASSUME NEW S, NEW s \in Seq(S), NEW e \in S
    PROVE  ToSet(Append(s, e)) = ToSet(s) \cup {e}
BY AppendProperties DEF ToSet

LEMMA TailElements ==
    ASSUME NEW S, NEW s \in Seq(S), s # << >>
    PROVE  ToSet(Tail(s)) \subseteq ToSet(s)
BY HeadTailProperties DEF ToSet

LEMMA ToSetType ==
    ASSUME NEW S, NEW s \in Seq(S)
    PROVE  ToSet(s) \subseteq S
BY ElementOfSeq DEF ToSet

(* A list without repetitions, and what a splice takes out of one.           *)
Distinct(s) == \A i, j \in 1 .. Len(s) : s[i] = s[j] => i = j

LEMMA AppendDistinct ==
    ASSUME NEW S, NEW s \in Seq(S), NEW e \in S, e \notin ToSet(s), Distinct(s)
    PROVE  Distinct(Append(s, e))
<1>1. \A i \in 1 .. Len(s) : s[i] # e
  BY DEF ToSet
<1>2. /\ Len(Append(s, e)) = Len(s) + 1
      /\ \A i \in 1 .. Len(s) : Append(s, e)[i] = s[i]
      /\ Append(s, e)[Len(s) + 1] = e
  BY AppendProperties
<1> QED BY <1>1, <1>2 DEF Distinct

LEMMA RemoveAtDistinct ==
    ASSUME NEW S, NEW s \in Seq(S), NEW i \in 1 .. Len(s), Distinct(s)
    PROVE  /\ Distinct(RemoveAt(s, i))
           /\ ToSet(RemoveAt(s, i)) = ToSet(s) \ {s[i]}
<1> DEFINE r == RemoveAt(s, i)
<1>1. /\ r \in Seq(S) /\ Len(r) = Len(s) - 1
      /\ \A j \in 1 .. Len(r) : r[j] = IF j < i THEN s[j] ELSE s[j + 1]
  BY RemoveAtFacts
<1>2. ToSet(r) \subseteq ToSet(s)
  BY RemoveAtElements
<1>3. DOMAIN s = 1 .. Len(s) /\ DOMAIN r = 1 .. Len(r)
  BY <1>1
<1> HIDE DEF r
<1>4. Distinct(r)
  BY <1>1 DEF Distinct
<1>5. ASSUME NEW j \in 1 .. Len(r) PROVE r[j] # s[i]
  BY <1>1 DEF Distinct
<1>6. s[i] \notin ToSet(r)
  BY <1>3, <1>5, Zenon DEF ToSet
<1>7. ASSUME NEW k \in 1 .. Len(s), k # i PROVE s[k] \in ToSet(r)
  <2>1. CASE k < i
    <3>1. k \in DOMAIN r /\ r[k] = s[k]
      BY <1>1, <1>3, <2>1
    <3> QED BY <3>1 DEF ToSet
  <2>2. CASE k > i
    <3>1. k - 1 \in DOMAIN r /\ r[k - 1] = s[k]
      BY <1>1, <1>3, <2>2
    <3> QED BY <3>1 DEF ToSet
  <2> QED BY <1>7, <2>1, <2>2
<1>8. ToSet(s) \ {s[i]} \subseteq ToSet(r)
  BY <1>3, <1>7, Zenon DEF ToSet
<1>9. Distinct(r) /\ ToSet(r) = ToSet(s) \ {s[i]}
  BY <1>2, <1>4, <1>6, <1>8
<1> QED BY <1>9 DEF r

(* What a list is after one of its elements was replaced.                     *)
Overwritten(r, s, i, e) == r = [s EXCEPT ![i] = e]

LEMMA OverwrittenFacts ==
    ASSUME NEW S, NEW s \in Seq(S), NEW i \in 1 .. Len(s), NEW e \in S,
           NEW r, Overwritten(r, s, i, e)
    PROVE  /\ r \in Seq(S) /\ Len(r) = Len(s)
           /\ \A j \in 1 .. Len(s) : r[j] = IF j = i THEN e ELSE s[j]
BY ExceptSeq DEF Overwritten

(* A function on 1..n is a sequence of length n.                              *)
LEMMA SeqOfFcn ==
    ASSUME NEW S, NEW n \in Nat, NEW s \in [1..n -> S]
    PROVE  s \in Seq(S) /\ Len(s) = n
<1>1. s \in Seq(S)
  BY SeqDef, Zenon
<1>2. DOMAIN s = 1..Len(s) /\ DOMAIN s = 1..n /\ Len(s) \in Nat
  BY <1>1, LenProperties
<1> QED BY <1>1, <1>2

LEMMA MoreElements ==
    ASSUME NEW S, NEW T, S \subseteq T, NEW s \in Seq(S)
    PROVE  s \in Seq(T)
<1>1. Len(s) \in Nat /\ s \in [1..Len(s) -> S]
  BY LenProperties
<1>2. s \in [1..Len(s) -> T]
  BY <1>1
<1> QED BY <1>1, <1>2, SeqOfFcn

LEMMA ShortSequences ==
    ASSUME NEW S, NEW x \in S, NEW y \in S
    PROVE  /\ <<x>> \in Seq(S) /\ Len(<<x>>) = 1 /\ <<x>>[1] = x
           /\ <<x, y>> \in Seq(S) /\ Len(<<x, y>>) = 2 /\ <<x, y>>[2] = y
OBVIOUS

LEMMA ReverseIs ==
    ASSUME NEW S, NEW s \in Seq(S)
    PROVE  /\ Reverse(s) \in Seq(S) /\ Len(Reverse(s)) = Len(s)
           /\ \A i \in 1..Len(s) : Reverse(s)[i] = s[(Len(s) - i) + 1]
<1>1. Len(s) \in Nat /\ \A i \in 1..Len(s) : s[i] \in S
  BY LenProperties, ElementOfSeq
<1>2. \A i \in 1..Len(s) : (Len(s) - i) + 1 \in 1..Len(s)
  BY <1>1
<1>3. Reverse(s) \in [1..Len(s) -> S]
  BY <1>1, <1>2 DEF Reverse
<1>4. \A i \in 1..Len(s) : Reverse(s)[i] = s[(Len(s) - i) + 1]
  BY DEF Reverse
<1> QED BY <1>1, <1>3, <1>4, SeqOfFcn

(* SequencesExt!IsStrictSuffix: the last elements, and not all of them.        *)
LEMMA StrictSuffixIs ==
    ASSUME NEW S, NEW s \in Seq(S), NEW t \in Seq(S)
    PROVE  IsStrictSuffix(s, t) <=>
              Len(s) < Len(t) /\ \A i \in 1..Len(s) : s[i] = t[(Len(t) - Len(s)) + i]
<1> DEFINE a == Len(s)
           b == Len(t)
           r == Reverse(s)
           u == Reverse(t)
<1>1. /\ a \in Nat /\ b \in Nat
      /\ r \in Seq(S) /\ Len(r) = a /\ \A i \in 1..a : r[i] = s[(a - i) + 1]
      /\ u \in Seq(S) /\ Len(u) = b /\ \A i \in 1..b : u[i] = t[(b - i) + 1]
  BY ReverseIs, LenProperties
<1>2. SubSeq(r, 1, a) = r
  BY <1>1, SubSeqFull
<1>3. IsSuffix(s, t) <=> a <= b /\ r = SubSeq(u, 1, a)
  BY <1>1, <1>2 DEF IsSuffix, IsPrefix
<1>4. s = t => a = b
  OBVIOUS
<1> HIDE DEF a, b, r, u
<1>5. ASSUME a <= b PROVE r = SubSeq(u, 1, a) <=> \A i \in 1..a : r[i] = u[i]
  <2> DEFINE p == SubSeq(u, 1, a)
  <2>1. \A i \in 1..a : u[i] \in S
    BY <1>1, <1>5, ElementOfSeq
  <2>2. p \in Seq(S) /\ Len(p) = (IF 1 <= a THEN a - 1 + 1 ELSE 0) /\ \A i \in 1..(a - 1 + 1) : p[i] = u[1 + i - 1]
    BY <1>1, <2>1, SubSeqProperties
  <2> HIDE DEF p
  <2>3. Len(p) = a
    BY <1>1, <2>2
  <2>4. a - 1 + 1 = a /\ \A i \in 1..a : 1 + i - 1 = i
    BY <1>1
  <2>5. \A i \in 1..a : p[i] = u[i]
    BY <2>2, <2>4
  <2>6. (\A i \in 1..a : r[i] = p[i]) => r = p
    BY <1>1, <2>2, <2>3, SeqEqual
  <2> QED BY <2>5, <2>6 DEF p
<1>6. ASSUME a <= b
      PROVE  (\A i \in 1..a : r[i] = u[i]) <=> \A i \in 1..a : s[i] = t[(b - a) + i]
  <2>1. \A i \in 1..a : (a - i) + 1 \in 1..a /\ (a - ((a - i) + 1)) + 1 = i
                        /\ (b - ((a - i) + 1)) + 1 = (b - a) + i
                        /\ (b - i) + 1 = (b - a) + ((a - i) + 1) /\ i \in 1..b
    BY <1>1, <1>6
  <2>2. ASSUME \A i \in 1..a : r[i] = u[i], NEW i \in 1..a
        PROVE  s[i] = t[(b - a) + i]
    <3>1. (a - i) + 1 \in 1..a /\ (a - i) + 1 \in 1..b
      BY <2>1
    <3>2. r[(a - i) + 1] = s[i] /\ u[(a - i) + 1] = t[(b - a) + i]
      BY <1>1, <2>1, <3>1
    <3> QED BY <2>2, <3>1, <3>2
  <2>3. ASSUME \A i \in 1..a : s[i] = t[(b - a) + i], NEW i \in 1..a
        PROVE  r[i] = u[i]
    <3>1. r[i] = s[(a - i) + 1] /\ u[i] = t[(b - a) + ((a - i) + 1)]
      BY <1>1, <2>1
    <3> QED BY <2>1, <2>3, <3>1
  <2> QED BY <2>2, <2>3
<1>7. ASSUME a = b, \A i \in 1..a : s[i] = t[(b - a) + i] PROVE s = t
  <2>1. \A i \in 1..a : s[i] = t[i]
    <3>1. \A i \in 1..a : (b - a) + i = i
      BY <1>1, <1>7
    <3> QED BY <1>7, <3>1
  <2> QED BY <1>7, <2>1, SeqEqual DEF a, b
<1>8. IsStrictSuffix(s, t) <=> a < b /\ \A i \in 1..a : s[i] = t[(b - a) + i]
  <2>1. a <= b <=> a < b \/ a = b
    BY <1>1
  <2>2. a < b => a # b
    BY <1>1
  <2> QED BY <1>3, <1>4, <1>5, <1>6, <1>7, <2>1, <2>2 DEF IsStrictSuffix
<1> QED BY <1>8 DEF a, b

(* A set of naturals has its least element: where a search along a list ends. *)
LEMMA NatOrdered ==
    \E R : IsWellFoundedOn(R, Nat) /\ \A x, y \in Nat : <<x, y>> \in R <=> x < y
<1>1. \A x, y \in Nat : <<x, y>> \in OpToRel(<, Nat) <=> x < y
  BY DEF OpToRel
<1> QED BY <1>1, NatLessThanWellFounded

LEMMA MinOfNaturals ==
    ASSUME NEW S \in SUBSET Nat, S # {}
    PROVE  Min(S) \in S /\ \A y \in S : Min(S) <= y
<1>1. PICK R : IsWellFoundedOn(R, Nat) /\ \A x, y \in Nat : <<x, y>> \in R <=> x < y
  BY NatOrdered
<1>2. S \subseteq Nat /\ IsWellFoundedOn(R, Nat)
  BY <1>1
<1>3. \E x \in S : \A y \in S : ~ (<<y, x>> \in R)
  BY <1>2, WFMin, Zenon
<1>4. PICK x \in S : \A y \in S : ~ (<<y, x>> \in R)
  BY <1>3
<1>5. ASSUME NEW y \in S PROVE x <= y
  <2>1. x \in Nat /\ y \in Nat
    BY <1>2
  <2>2. ~ (y < x)
    BY <2>1, <1>1, <1>4, Zenon
  <2> QED BY <2>1, <2>2
<1> QED BY <1>5 DEF Min

(* FiniteSetsExt!Max is the greatest of finitely many naturals. *)
LEMMA MaxOfNaturals ==
    ASSUME NEW n \in Nat, NEW S \in SUBSET (0 .. n), S # {}
    PROVE  Max(S) \in S /\ \A y \in S : y <= Max(S)
<1> DEFINE D == {n - x : x \in S}
<1>0. \A x \in S : x \in 0 .. n /\ n - x \in Nat
  OBVIOUS
<1>1. D \in SUBSET Nat /\ D # {}
  BY <1>0
<1>2. PICK x \in S : Min(D) = n - x
  BY <1>1, MinOfNaturals
<1>3. \A y \in S : n - x <= n - y
  BY <1>1, <1>2, MinOfNaturals
<1>4. \A y \in S : x >= y
  BY <1>3
<1>5. Max(S) \in S /\ \A y \in S : Max(S) >= y
  BY <1>4, Zenon DEF Max
<1> QED BY <1>5
=============================================================================
