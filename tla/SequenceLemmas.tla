--------------------------- MODULE SequenceLemmas ---------------------------
(***************************************************************************)
(* What the slice edits of the Go stores do to a sequence: add at either   *)
(* end, drop the last element, cut the first occurrence of an element out. *)
(* The duplicate-free cases say how the set of elements changes.  Then the *)
(* loops over a sequence, by induction on the number of elements done; the *)
(* induction is over a set of numbers, so that no operator is a parameter. *)
(***************************************************************************)
EXTENDS Integers, Sequences, SequencesExt, SequenceTheorems,
        FiniteSetTheorems, WellFoundedInduction, TLAPS

(* Adding at the back: append(slice, e).                                   *)
LEMMA AppendAddsLast ==
  ASSUME NEW S, NEW s \in Seq(S), NEW e \in S
  PROVE  /\ Append(s, e) \in Seq(S)
         /\ Len(Append(s, e)) = Len(s) + 1
         /\ ToSet(Append(s, e)) = ToSet(s) \union {e}
         /\ IsInjective(s) /\ e \notin ToSet(s) => IsInjective(Append(s, e))
<1> DEFINE a == Append(s, e)
<1>1. /\ a \in Seq(S)
      /\ Len(a) = Len(s) + 1
      /\ Len(s) \in Nat
      /\ DOMAIN s = 1 .. Len(s)
      /\ DOMAIN a = 1 .. Len(s) + 1
      /\ \A i \in 1 .. Len(s) : a[i] = s[i]
      /\ a[Len(s) + 1] = e
  OBVIOUS
<1>2. ToSet(a) = ToSet(s) \union {e}
  BY <1>1 DEF ToSet
<1>3. ASSUME IsInjective(s), e \notin ToSet(s)
      PROVE  IsInjective(a)
  BY <1>1, <1>3 DEF IsInjective, ToSet
<1> QED
  BY <1>1, <1>2, <1>3

(* Adding at the front: append([]string{e}, slice...).                     *)
LEMMA ConsAddsFirst ==
  ASSUME NEW S, NEW s \in Seq(S), NEW e \in S
  PROVE  /\ Cons(e, s) \in Seq(S)
         /\ Len(Cons(e, s)) = Len(s) + 1
         /\ Cons(e, s)[1] = e
         /\ \A i \in 2 .. Len(s) + 1 : Cons(e, s)[i] = s[i - 1]
         /\ ToSet(Cons(e, s)) = ToSet(s) \union {e}
         /\ IsInjective(s) /\ e \notin ToSet(s) => IsInjective(Cons(e, s))
<1> DEFINE c == Cons(e, s)
<1>1. /\ c \in Seq(S)
      /\ Len(c) = Len(s) + 1
      /\ Len(s) \in Nat
      /\ DOMAIN s = 1 .. Len(s)
      /\ DOMAIN c = 1 .. Len(s) + 1
      /\ c[1] = e
      /\ \A i \in 2 .. Len(s) + 1 : c[i] = s[i - 1]
  BY ConcatProperties, <<e>> \in Seq(S), Len(<<e>>) = 1, <<e>>[1] = e DEF Cons
<1>2. ToSet(c) = ToSet(s) \union {e}
  <2>1. ToSet(c) \subseteq ToSet(s) \union {e}
    BY <1>1 DEF ToSet
  <2>2. e \in ToSet(c)
    BY <1>1 DEF ToSet
  <2>3. ASSUME NEW i \in 1 .. Len(s)
        PROVE  s[i] \in ToSet(c)
    <3>1. i + 1 \in 2 .. Len(s) + 1 /\ (i + 1) - 1 = i
      BY <1>1
    <3>2. c[i + 1] = s[i]
      BY <1>1, <3>1
    <3> QED
      BY <1>1, <3>1, <3>2 DEF ToSet
  <2> QED
    BY <1>1, <2>1, <2>2, <2>3 DEF ToSet
<1>3. ASSUME IsInjective(s), e \notin ToSet(s)
      PROVE  IsInjective(c)
  <2> HIDE DEF c
  <2>1. \A i \in 2 .. Len(s) + 1 : i - 1 \in 1 .. Len(s) /\ c[i] = s[i - 1] /\ c[i] # e
    BY <1>1, <1>3 DEF ToSet
  <2>2. SUFFICES ASSUME NEW i \in 1 .. Len(s) + 1, NEW j \in 1 .. Len(s) + 1, c[i] = c[j]
                 PROVE  i = j
    BY <1>1 DEF IsInjective
  <2>3. CASE i = 1 \/ j = 1
    BY <1>1, <2>1, <2>2, <2>3
  <2>4. CASE i # 1 /\ j # 1
    <3>1. i \in 2 .. Len(s) + 1 /\ j \in 2 .. Len(s) + 1
      BY <1>1, <2>4
    <3>2. s[i - 1] = s[j - 1] /\ i - 1 \in 1 .. Len(s) /\ j - 1 \in 1 .. Len(s)
      BY <2>1, <2>2, <3>1
    <3>3. i - 1 = j - 1
      BY <1>1, <1>3, <3>2 DEF IsInjective
    <3> QED
      BY <3>1, <3>3
  <2> QED
    BY <2>3, <2>4
<1> QED
  BY <1>1, <1>2, <1>3

(* Dropping the last element: slice[:len(slice)-1].                        *)
LEMMA FrontDropsLast ==
  ASSUME NEW S, NEW s \in Seq(S), Len(s) > 0
  PROVE  /\ Front(s) \in Seq(S)
         /\ Len(Front(s)) = Len(s) - 1
         /\ Last(s) \in ToSet(s)
         /\ IsInjective(s) => /\ IsInjective(Front(s))
                              /\ ToSet(Front(s)) = ToSet(s) \ {Last(s)}
<1> DEFINE f == Front(s)
<1>1. Len(s) \in Nat /\ DOMAIN s = 1 .. Len(s) /\ \A i \in 1 .. Len(s) : s[i] \in S
  OBVIOUS
<1>2. /\ f \in Seq(S)
      /\ Len(f) = Len(s) - 1
      /\ \A i \in 1 .. Len(s) - 1 : f[i] = s[i]
  BY <1>1, SubSeqProperties DEF Front
<1>3. DOMAIN f = 1 .. Len(s) - 1
  BY <1>2, LenProperties
<1>4. Last(s) \in ToSet(s)
  BY <1>1 DEF Last, ToSet
<1>5. ASSUME IsInjective(s)
      PROVE  IsInjective(f) /\ ToSet(f) = ToSet(s) \ {Last(s)}
  BY <1>1, <1>2, <1>3, <1>5 DEF IsInjective, ToSet, Last
<1> QED
  BY <1>2, <1>4, <1>5

(* RemoveFirst cuts at the least index that holds the element.             *)
LEMMA RemoveFirstCuts ==
  ASSUME NEW S, NEW s \in Seq(S), NEW e \in ToSet(s)
  PROVE  \E i \in 1 .. Len(s) :
            /\ s[i] = e
            /\ \A j \in 1 .. i - 1 : s[j] # e
            /\ RemoveFirst(s, e) = RemoveAt(s, i)
<1> DEFINE I == {i \in 1 .. Len(s) : s[i] = e}
<1>1. Len(s) \in Nat /\ DOMAIN s = 1 .. Len(s)
  OBVIOUS
<1>2. I # {} /\ I \subseteq Nat
  BY <1>1 DEF ToSet
<1>3. PICK i \in I : \A j \in I : i <= j
  <2> HIDE DEF I
  <2>1. PICK m \in I : \A j \in I : <<j, m>> \notin OpToRel(<, Nat)
    BY <1>2, WFMin, NatLessThanWellFounded
  <2>2. ASSUME NEW j \in I
        PROVE  m <= j
    <3>1. m \in Nat /\ j \in Nat
      BY <1>2
    <3>2. ~(j < m)
      BY <2>1, <3>1 DEF OpToRel
    <3> QED
      BY <3>1, <3>2
  <2> QED
    BY <2>2
<1>4. Min(I) = i
  BY <1>1, <1>3 DEF Min
<1>5. RemoveFirst(s, e) = RemoveAt(s, i)
  BY <1>2, <1>4 DEF RemoveFirst, SelectInSeq
<1> QED
  BY <1>1, <1>3, <1>5

(* RemoveAt drops one position and closes the gap.                         *)
LEMMA RemoveAtShifts ==
  ASSUME NEW S, NEW s \in Seq(S), NEW i \in 1 .. Len(s)
  PROVE  /\ RemoveAt(s, i) \in Seq(S)
         /\ Len(RemoveAt(s, i)) = Len(s) - 1
         /\ \A j \in 1 .. Len(s) - 1 :
               RemoveAt(s, i)[j] = IF j < i THEN s[j] ELSE s[j + 1]
<1> DEFINE a == SubSeq(s, 1, i - 1)
           b == SubSeq(s, i + 1, Len(s))
<1>1. Len(s) \in Nat /\ \A j \in 1 .. Len(s) : s[j] \in S
  OBVIOUS
<1>2. a \in Seq(S) /\ Len(a) = i - 1 /\ \A j \in 1 .. i - 1 : a[j] = s[j]
  BY <1>1, SubSeqProperties
<1>3. b \in Seq(S) /\ Len(b) = Len(s) - i /\ \A j \in 1 .. Len(s) - i : b[j] = s[i + j]
  <2>1. \A j \in i + 1 .. Len(s) : s[j] \in S
    BY <1>1
  <2>2. /\ b \in Seq(S)
        /\ Len(b) = IF i + 1 <= Len(s) THEN Len(s) - (i + 1) + 1 ELSE 0
        /\ \A j \in 1 .. Len(s) - (i + 1) + 1 : b[j] = s[(i + 1) + j - 1]
    BY <1>1, <2>1, SubSeqProperties
  <2> QED
    BY <1>1, <2>2
<1> HIDE DEF a, b
<1>4. /\ a \o b \in Seq(S)
      /\ Len(a \o b) = Len(s) - 1
      /\ \A j \in 1 .. Len(s) - 1 : (a \o b)[j] = IF j <= i - 1 THEN a[j] ELSE b[j - (i - 1)]
  <2>1. /\ a \o b \in Seq(S)
        /\ Len(a \o b) = Len(a) + Len(b)
        /\ \A j \in 1 .. Len(a) + Len(b) :
              (a \o b)[j] = IF j <= Len(a) THEN a[j] ELSE b[j - Len(a)]
    BY <1>2, <1>3, ConcatProperties
  <2>2. Len(a) = i - 1 /\ Len(a) + Len(b) = Len(s) - 1
    BY <1>1, <1>2, <1>3
  <2> QED
    BY <2>1, <2>2
<1>5. \A j \in 1 .. Len(s) - 1 : (a \o b)[j] = IF j < i THEN s[j] ELSE s[j + 1]
  <2>1. SUFFICES ASSUME NEW j \in 1 .. Len(s) - 1
                 PROVE  (a \o b)[j] = IF j < i THEN s[j] ELSE s[j + 1]
    OBVIOUS
  <2>2. CASE j < i
    <3>1. j \in 1 .. i - 1 /\ j <= i - 1
      BY <1>1, <2>2
    <3> QED
      BY <1>2, <1>4, <2>2, <3>1
  <2>3. CASE ~(j < i)
    <3>1. j - (i - 1) \in 1 .. Len(s) - i /\ i + (j - (i - 1)) = j + 1 /\ ~(j <= i - 1)
      BY <1>1, <2>3
    <3>2. (a \o b)[j] = b[j - (i - 1)]
      BY <1>4, <3>1
    <3>3. b[j - (i - 1)] = s[j + 1]
      BY <1>3, <3>1
    <3> QED
      BY <2>3, <3>2, <3>3
  <2> QED
    BY <2>2, <2>3
<1>6. RemoveAt(s, i) = a \o b
  BY DEF RemoveAt, a, b
<1> QED
  BY <1>4, <1>5, <1>6

(* Cutting the only occurrence of an element out removes it from the set.  *)
LEMMA RemoveFirstDrops ==
  ASSUME NEW S, NEW s \in Seq(S), NEW e \in ToSet(s)
  PROVE  /\ RemoveFirst(s, e) \in Seq(S)
         /\ Len(RemoveFirst(s, e)) = Len(s) - 1
         /\ ToSet(s) \ {e} \subseteq ToSet(RemoveFirst(s, e))
         /\ ToSet(RemoveFirst(s, e)) \subseteq ToSet(s)
         /\ IsInjective(s) => /\ IsInjective(RemoveFirst(s, e))
                              /\ ToSet(RemoveFirst(s, e)) = ToSet(s) \ {e}
<1>1. PICK i \in 1 .. Len(s) : s[i] = e /\ RemoveFirst(s, e) = RemoveAt(s, i)
  BY RemoveFirstCuts
<1> DEFINE r == RemoveFirst(s, e)
<1>2. /\ r \in Seq(S)
      /\ Len(r) = Len(s) - 1
      /\ \A j \in 1 .. Len(s) - 1 : r[j] = IF j < i THEN s[j] ELSE s[j + 1]
  BY <1>1, RemoveAtShifts
<1>3. Len(s) \in Nat /\ DOMAIN s = 1 .. Len(s) /\ DOMAIN r = 1 .. Len(s) - 1
  BY <1>2, LenProperties
<1> HIDE DEF r
<1> DEFINE from(j) == IF j < i THEN j ELSE j + 1
<1>from. \A j \in 1 .. Len(s) - 1 : /\ from(j) \in 1 .. Len(s) \ {i}
                                     /\ r[j] = s[from(j)]
  BY <1>2, <1>3
<1>4. ToSet(r) \subseteq ToSet(s)
  <2> HIDE DEF from
  <2> QED
    BY <1>3, <1>from DEF ToSet
<1>5. ASSUME NEW k \in 1 .. Len(s), s[k] # e
      PROVE  s[k] \in ToSet(r)
  <2>1. CASE k < i
    BY <1>1, <1>2, <1>3, <2>1, SMTT(30) DEF ToSet
  <2>2. CASE k > i
    <3>1. k - 1 \in 1 .. Len(s) - 1 /\ ~(k - 1 < i) /\ (k - 1) + 1 = k
      BY <1>1, <1>3, <2>2
    <3>2. r[k - 1] = s[k]
      BY <1>2, <3>1
    <3> QED
      BY <1>3, <3>1, <3>2 DEF ToSet
  <2> QED
    BY <1>1, <1>3, <1>5, <2>1, <2>2
<1>6. ToSet(s) \ {e} \subseteq ToSet(r)
  BY <1>3, <1>5 DEF ToSet
<1>7. ASSUME IsInjective(s)
      PROVE  IsInjective(r) /\ e \notin ToSet(r)
  <2>1. ASSUME NEW j \in 1 .. Len(s) - 1, NEW k \in 1 .. Len(s) - 1, r[j] = r[k]
        PROVE  j = k
    <3>1. from(j) = from(k)
      <4> HIDE DEF from
      <4> QED
        BY <1>3, <1>from, <1>7, <2>1 DEF IsInjective
    <3> QED
      BY <1>3, <3>1
  <2>2. ASSUME NEW j \in 1 .. Len(s) - 1
        PROVE  r[j] # e
    <3> HIDE DEF from
    <3> QED
      BY <1>1, <1>3, <1>from, <1>7 DEF IsInjective
  <2> QED
    BY <1>3, <2>1, <2>2 DEF IsInjective, ToSet
<1> QED
  BY <1>2, <1>4, <1>6, <1>7 DEF r

(* Cutting out an element that may not be there.                           *)
LEMMA RemoveFirstTyped ==
  ASSUME NEW S, NEW s \in Seq(S), NEW e
  PROVE  RemoveFirst(s, e) \in Seq(S)
<1>1. CASE e \in ToSet(s)
  BY <1>1, RemoveFirstDrops
<1>2. CASE e \notin ToSet(s)
  <2>1. ~ \E i \in 1 .. Len(s) : s[i] = e
    BY <1>2 DEF ToSet
  <2> QED
    BY <2>1 DEF RemoveFirst
<1> QED
  BY <1>1, <1>2

(* What is left keeps its relative order.                                  *)
LEMMA RemoveFirstKeepsOrder ==
  ASSUME NEW S, NEW s \in Seq(S), NEW e \in ToSet(s),
         NEW j \in 1 .. Len(RemoveFirst(s, e)), NEW k \in 1 .. Len(RemoveFirst(s, e)),
         j < k
  PROVE  \E a, b \in 1 .. Len(s) :
            /\ a < b
            /\ RemoveFirst(s, e)[j] = s[a]
            /\ RemoveFirst(s, e)[k] = s[b]
<1>1. PICK i \in 1 .. Len(s) : RemoveFirst(s, e) = RemoveAt(s, i)
  BY RemoveFirstCuts
<1> DEFINE r == RemoveFirst(s, e)
           a == IF j < i THEN j ELSE j + 1
           b == IF k < i THEN k ELSE k + 1
<1>2. /\ Len(s) \in Nat
      /\ Len(r) = Len(s) - 1
      /\ \A l \in 1 .. Len(s) - 1 : r[l] = IF l < i THEN s[l] ELSE s[l + 1]
  <2>1. /\ Len(RemoveAt(s, i)) = Len(s) - 1
        /\ \A l \in 1 .. Len(s) - 1 :
              RemoveAt(s, i)[l] = IF l < i THEN s[l] ELSE s[l + 1]
    BY RemoveAtShifts
  <2> HIDE DEF r
  <2>2. r = RemoveAt(s, i)
    BY <1>1 DEF r
  <2> QED
    BY <2>1, <2>2
<1>3. j \in 1 .. Len(s) - 1 /\ k \in 1 .. Len(s) - 1
  BY <1>2
<1> HIDE DEF r
<1>4. a \in 1 .. Len(s) /\ b \in 1 .. Len(s) /\ a < b
  BY <1>2, <1>3
<1>5. r[j] = s[a] /\ r[k] = s[b]
  BY <1>2, <1>3
<1> QED
  BY <1>4, <1>5 DEF r

(* A duplicate-free sequence over a finite set that misses an element of   *)
(* the set is shorter than the set is large.                               *)
LEMMA MissingOneIsShorter ==
  ASSUME NEW S, IsFiniteSet(S), NEW s \in Seq(S), IsInjective(s),
         NEW e \in S, e \notin ToSet(s)
  PROVE  Len(s) < Cardinality(S)
<1> DEFINE T == S \ {e}
           n == Len(s)
<1>1. /\ IsFiniteSet(T) /\ Cardinality(T) = Cardinality(S) - 1
      /\ Cardinality(S) \in Nat /\ n \in Nat
  BY FS_RemoveElement, FS_CardinalityType
<1>2. DOMAIN s = 1 .. n /\ \A i \in 1 .. n : s[i] \in T
  BY DEF ToSet
<1>3. s \in Injection(1 .. n, T)
  BY <1>1, <1>2 DEF Injection
<1>4. Cardinality(1 .. n) <= Cardinality(T) /\ Cardinality(1 .. n) = n
  <2>1. Cardinality(1 .. n) <= Cardinality(T)
    BY <1>1, <1>3, FS_Injection
  <2>2. Cardinality(1 .. n) = IF 1 > n THEN 0 ELSE n - 1 + 1
    BY <1>1, FS_Interval, 1 \in Int, n \in Int
  <2> HIDE DEF n
  <2> QED
    BY <1>1, <2>1, <2>2
<1> HIDE DEF T, n
<1>5. n < Cardinality(S)
  BY <1>1, <1>4
<1> QED
  BY <1>5 DEF n

-----------------------------------------------------------------------------
(* Induction.                                                              *)

(* A set of numbers that is not empty has a least element.                 *)
LEMMA LeastNat ==
  ASSUME NEW T \in SUBSET Nat, T # {}
  PROVE  \E n \in T : \A m \in T : n <= m
<1>1. PICK n \in T : \A m \in T : <<m, n>> \notin OpToRel(<, Nat)
  BY NatLessThanWellFounded, WFMin
<1>2. \A m \in T : ~(m < n)
  BY <1>1 DEF OpToRel
<1> QED
  BY <1>2

(* A set with 0 and the successor of each of its members is all of Nat.    *)
LEMMA SuccessorSet ==
  ASSUME NEW T \in SUBSET Nat, 0 \in T, \A n \in T : n + 1 \in T
  PROVE  T = Nat
<1> SUFFICES ASSUME Nat \ T # {}
             PROVE  FALSE
  OBVIOUS
<1>1. PICK n \in Nat \ T : \A m \in Nat \ T : n <= m
  BY LeastNat
<1>2. n # 0 /\ n - 1 \in Nat
  BY <1>1
<1>3. n - 1 \in T
  BY <1>1, <1>2
<1>4. (n - 1) + 1 \in T
  BY <1>3
<1> QED
  BY <1>1, <1>2, <1>4

(* The same up to a bound.                                                 *)
LEMMA UpTo ==
  ASSUME NEW n \in Nat, NEW T, 0 \in T,
         \A i \in 0 .. n - 1 : i \in T => i + 1 \in T
  PROVE  \A i \in 0 .. n : i \in T
<1> DEFINE U == {i \in Nat : i <= n => i \in T}
<1>1. 0 \in U
  OBVIOUS
<1>2. ASSUME NEW i \in U
      PROVE  i + 1 \in U
  <2>1. CASE i < n
    <3>1. i \in 0 .. n - 1 /\ i \in T
      BY <2>1
    <3> QED
      BY <3>1
  <2>2. CASE ~(i < n)
    BY <2>2
  <2> QED
    BY <2>1, <2>2
<1>3. U = Nat
  <2> HIDE DEF U
  <2> QED
    BY <1>1, <1>2, SuccessorSet, U \in SUBSET Nat DEF U
<1> QED
  BY <1>3

-----------------------------------------------------------------------------
(* FlattenSeq joins the sequences one after the other: there are the       *)
(* partial results, each the one before with one more sequence behind it.  *)
FlattensBy(s, f, n) ==
    f = [i \in 1 .. n |-> IF i = 1 THEN s[i] ELSE f[i - 1] \o s[i]]

LEMMA FlattenRuns ==
  ASSUME NEW S, NEW s \in Seq(Seq(S)), NEW n \in Nat, n <= Len(s)
  PROVE  \E f : FlattensBy(s, f, n)
<1> DEFINE T == {k \in 0 .. n : \E f : FlattensBy(s, f, k)}
<1>1. 0 \in T
  <2>1. FlattensBy(s, [i \in 1 .. 0 |-> s], 0)
    BY DEF FlattensBy
  <2> QED
    BY <2>1
<1>2. ASSUME NEW k \in 0 .. n - 1, k \in T
      PROVE  k + 1 \in T
  <2>1. PICK f : FlattensBy(s, f, k)
    BY <1>2
  <2> DEFINE next == IF k + 1 = 1 THEN s[k + 1] ELSE f[k] \o s[k + 1]
             g == [i \in 1 .. k + 1 |-> IF i = k + 1 THEN next ELSE f[i]]
  <2>2. g[k + 1] = next
    OBVIOUS
  <2>3. \A i \in 1 .. k : g[i] = f[i]
    OBVIOUS
  <2> HIDE DEF next
  <2>4. next = IF k + 1 = 1 THEN s[k + 1] ELSE g[k] \o s[k + 1]
    BY <2>3 DEF next
  <2>5. \A i \in 1 .. k : f[i] = IF i = 1 THEN s[i] ELSE f[i - 1] \o s[i]
    BY <2>1 DEF FlattensBy
  <2>6. ASSUME NEW i \in 1 .. k + 1
        PROVE  g[i] = IF i = 1 THEN s[i] ELSE g[i - 1] \o s[i]
    <3>1. CASE i = k + 1
      BY <2>2, <2>4, <3>1
    <3>2. CASE i # k + 1
      <4>1. i \in 1 .. k /\ (i # 1 => i - 1 \in 1 .. k)
        BY <3>2
      <4> QED
        BY <2>3, <2>5, <4>1
    <3> QED
      BY <3>1, <3>2
  <2>7. g = [i \in 1 .. k + 1 |-> IF i = 1 THEN s[i] ELSE g[i - 1] \o s[i]]
    <3>1. g = [i \in 1 .. k + 1 |-> g[i]]
      OBVIOUS
    <3> HIDE DEF g
    <3> QED
      BY <2>6, <3>1
  <2> HIDE DEF g
  <2>8. FlattensBy(s, g, k + 1)
    BY <2>7 DEF FlattensBy
  <2> QED
    BY <2>8
<1>3. n \in T
  <2> HIDE DEF T
  <2>1. \A k \in 0 .. n : k \in T
    BY <1>1, <1>2, UpTo
  <2> QED
    BY <2>1
<1> QED
  BY <1>3

LEMMA FlattenParts ==
  ASSUME NEW S, NEW s \in Seq(Seq(S)), s # <<>>
  PROVE  \E f : /\ f[1] = s[1]
                /\ \A i \in 1 .. Len(s) - 1 : f[i + 1] = f[i] \o s[i + 1]
                /\ \A i \in 1 .. Len(s) : f[i] \in Seq(S)
                /\ FlattenSeq(s) = f[Len(s)]
<1>1. Len(s) \in Nat \ {0} /\ \A i \in 1 .. Len(s) : s[i] \in Seq(S)
  BY EmptySeq, ElementOfSeq
<1> DEFINE f == CHOOSE f : f = [i \in 1 .. Len(s) |->
                                  IF i = 1 THEN s[i] ELSE f[i - 1] \o s[i]]
<1>2. FlattenSeq(s) = f[Len(s)]
  BY <1>1 DEF FlattenSeq
<1>3. \E g : FlattensBy(s, g, Len(s))
  BY <1>1, FlattenRuns
<1>4. f = [i \in 1 .. Len(s) |-> IF i = 1 THEN s[i] ELSE f[i - 1] \o s[i]]
  BY <1>3, Zenon DEF FlattensBy
<1> HIDE DEF f
<1>5. \A i \in 1 .. Len(s) : f[i] = IF i = 1 THEN s[i] ELSE f[i - 1] \o s[i]
  BY <1>4
<1>6. f[1] = s[1]
  BY <1>1, <1>5
<1>7. \A i \in 1 .. Len(s) - 1 : f[i + 1] = f[i] \o s[i + 1]
  <2>1. ASSUME NEW i \in 1 .. Len(s) - 1
        PROVE  f[i + 1] = f[i] \o s[i + 1]
    <3>1. i + 1 \in 1 .. Len(s) /\ i + 1 # 1 /\ (i + 1) - 1 = i
      BY <1>1
    <3> QED
      BY <1>5, <3>1
  <2> QED
    BY <2>1
<1> DEFINE T == {i \in 0 .. Len(s) : i # 0 => f[i] \in Seq(S)}
<1>8. ASSUME NEW i \in 0 .. Len(s) - 1, i \in T
      PROVE  i + 1 \in T
  <2>0. i + 1 \in 1 .. Len(s) /\ s[i + 1] \in Seq(S)
    BY <1>1
  <2>1. CASE i = 0
    BY <1>1, <1>6, <2>0, <2>1
  <2>2. CASE i # 0
    <3>1. f[i] \in Seq(S) /\ i \in 1 .. Len(s) - 1
      BY <1>1, <1>8, <2>2
    <3>2. f[i + 1] = f[i] \o s[i + 1]
      BY <1>7, <3>1
    <3>3. f[i + 1] \in Seq(S)
      BY <2>0, <3>1, <3>2, ConcatProperties
    <3> QED
      BY <2>0, <3>3
  <2> QED
    BY <2>1, <2>2
<1>9. \A i \in 0 .. Len(s) : i \in T
  <2>1. 0 \in T
    BY <1>1
  <2> HIDE DEF T
  <2> QED
    BY <1>1, <1>8, <2>1, UpTo
<1>10. \A i \in 1 .. Len(s) : f[i] \in Seq(S)
  BY <1>9
<1> HIDE DEF T
<1> QED
  BY <1>2, <1>6, <1>7, <1>10

-----------------------------------------------------------------------------
(* A loop over 1 .. n that starts with base and goes on with next has a    *)
(* value after each round.                                                 *)
LoopBy(f, n, base, next) ==
    f = [i \in 0 .. n |-> IF i = 0 THEN base ELSE next[<<i, f[i - 1]>>]]

LEMMA LoopRuns ==
  ASSUME NEW n \in Nat, NEW V, NEW base \in V, NEW next,
         \A i \in 1 .. n : \A v \in V : next[<<i, v>>] \in V
  PROVE  \E f \in [0 .. n -> V] : LoopBy(f, n, base, next)
<1> DEFINE T == {k \in 0 .. n : \E f \in [0 .. k -> V] : LoopBy(f, k, base, next)}
<1>1. 0 \in T
  <2>1. LoopBy([i \in 0 .. 0 |-> base], 0, base, next)
    BY DEF LoopBy
  <2>2. [i \in 0 .. 0 |-> base] \in [0 .. 0 -> V]
    OBVIOUS
  <2> QED
    BY <2>1, <2>2
<1>2. ASSUME NEW k \in 0 .. n - 1, k \in T
      PROVE  k + 1 \in T
  <2>1. PICK f \in [0 .. k -> V] : LoopBy(f, k, base, next)
    BY <1>2
  <2> DEFINE last == next[<<k + 1, f[k]>>]
             g == [i \in 0 .. k + 1 |-> IF i = k + 1 THEN last ELSE f[i]]
  <2>2. k + 1 \in 1 .. n /\ f[k] \in V
    OBVIOUS
  <2>3. last \in V
    BY <2>2
  <2>4. g[k + 1] = last /\ \A i \in 0 .. k : g[i] = f[i]
    OBVIOUS
  <2>5. g[k] = f[k]
    BY <2>4
  <2>6. g[k + 1] = next[<<k + 1, g[(k + 1) - 1]>>]
    <3>1. (k + 1) - 1 = k
      OBVIOUS
    <3> HIDE DEF g
    <3> QED
      BY <2>4, <2>5, <3>1
  <2>7. \A i \in 0 .. k : f[i] = IF i = 0 THEN base ELSE next[<<i, f[i - 1]>>]
    BY <2>1 DEF LoopBy
  <2>8. g \in [0 .. k + 1 -> V]
    BY <2>3
  <2> HIDE DEF g, last
  <2>9. ASSUME NEW i \in 0 .. k + 1
        PROVE  g[i] = IF i = 0 THEN base ELSE next[<<i, g[i - 1]>>]
    <3>1. CASE i = k + 1
      BY <2>6, <3>1
    <3>2. CASE i # k + 1
      <4>1. i \in 0 .. k /\ (i # 0 => i - 1 \in 0 .. k)
        BY <3>2
      <4> QED
        BY <2>4, <2>7, <4>1
    <3> QED
      BY <3>1, <3>2
  <2>10. LoopBy(g, k + 1, base, next)
    BY <2>8, <2>9 DEF LoopBy
  <2> QED
    BY <2>8, <2>10
<1> HIDE DEF T
<1>3. \A k \in 0 .. n : k \in T
  BY <1>1, <1>2, UpTo
<1>4. n \in T
  BY <1>3
<1> QED
  BY <1>4 DEF T

-----------------------------------------------------------------------------
(* The loop that keeps the elements of seq that are in the set.            *)
FilterBy(f, seq, set) ==
    f = [i \in 0 .. Len(seq) |->
          IF i = 0 THEN <<>>
          ELSE IF seq[i] \in set THEN Append(f[i - 1], seq[i])
          ELSE f[i - 1]]

LEMMA FilterRuns ==
  ASSUME NEW S, NEW seq \in Seq(S), NEW set
  PROVE  \E f \in [0 .. Len(seq) -> Seq(S)] : FilterBy(f, seq, set)
<1> DEFINE n == Len(seq)
           next == [p \in (1 .. n) \X Seq(S) |->
                      IF seq[p[1]] \in set THEN Append(p[2], seq[p[1]]) ELSE p[2]]
<1>1. n \in Nat /\ \A i \in 1 .. n : seq[i] \in S
  OBVIOUS
<1>2. ASSUME NEW i \in 1 .. n, NEW v \in Seq(S)
      PROVE  /\ next[<<i, v>>] = IF seq[i] \in set THEN Append(v, seq[i]) ELSE v
             /\ next[<<i, v>>] \in Seq(S)
  <2>1. <<i, v>> \in (1 .. n) \X Seq(S)
    OBVIOUS
  <2>2. next[<<i, v>>] = IF seq[i] \in set THEN Append(v, seq[i]) ELSE v
    BY <2>1
  <2>3. Append(v, seq[i]) \in Seq(S)
    BY <1>1, AppendProperties
  <2> QED
    BY <2>2, <2>3
<1> HIDE DEF next
<1>3. <<>> \in Seq(S)
  OBVIOUS
<1>4. PICK f \in [0 .. n -> Seq(S)] : LoopBy(f, n, <<>>, next)
  BY <1>1, <1>2, <1>3, LoopRuns
<1>5. ASSUME NEW i \in 0 .. n
      PROVE  f[i] = IF i = 0 THEN <<>>
                    ELSE IF seq[i] \in set THEN Append(f[i - 1], seq[i])
                    ELSE f[i - 1]
  <2>1. f[i] = IF i = 0 THEN <<>> ELSE next[<<i, f[i - 1]>>]
    BY <1>4 DEF LoopBy
  <2>2. CASE i = 0
    BY <2>1, <2>2
  <2>3. CASE i # 0
    <3>1. i \in 1 .. n /\ f[i - 1] \in Seq(S)
      BY <2>3
    <3> QED
      BY <2>1, <2>3, <3>1, <1>2
  <2> QED
    BY <2>2, <2>3
<1>6. FilterBy(f, seq, set)
  BY <1>5 DEF FilterBy
<1> QED
  BY <1>6

(* The loop's rounds, one by one.                                          *)
LEMMA FilterRounds ==
  ASSUME NEW S, NEW seq \in Seq(S), NEW set, NEW f, FilterBy(f, seq, set)
  PROVE  /\ f[0] = <<>>
         /\ \A i \in 1 .. Len(seq) :
               f[i] = IF seq[i] \in set THEN Append(f[i - 1], seq[i]) ELSE f[i - 1]
         /\ f \in [0 .. Len(seq) -> Seq(S)]
<1> DEFINE n == Len(seq)
<1>1. n \in Nat /\ \A i \in 1 .. n : seq[i] \in S
  OBVIOUS
<1>2. f[0] = <<>> /\ DOMAIN f = 0 .. n
  BY <1>1 DEF FilterBy
<1>3. ASSUME NEW i \in 1 .. n
      PROVE  f[i] = IF seq[i] \in set THEN Append(f[i - 1], seq[i]) ELSE f[i - 1]
  <2>1. i \in 0 .. n /\ i # 0
    BY <1>1
  <2>2. \A j \in 0 .. n : f[j] = IF j = 0 THEN <<>>
                                 ELSE IF seq[j] \in set THEN Append(f[j - 1], seq[j])
                                 ELSE f[j - 1]
    BY DEF FilterBy
  <2> QED
    BY <2>1, <2>2
<1> DEFINE T == {i \in 0 .. n : f[i] \in Seq(S)}
<1>4. 0 \in T
  BY <1>1, <1>2
<1>5. ASSUME NEW i \in 0 .. n - 1, i \in T
      PROVE  i + 1 \in T
  <2>1. i + 1 \in 1 .. n /\ (i + 1) - 1 = i /\ f[i] \in Seq(S)
    BY <1>1, <1>5
  <2>2. Append(f[i], seq[i + 1]) \in Seq(S)
    BY <1>1, <2>1, AppendProperties
  <2>3. f[i + 1] = IF seq[i + 1] \in set THEN Append(f[i], seq[i + 1]) ELSE f[i]
    BY <1>3, <2>1
  <2>4. f[i + 1] \in Seq(S)
    BY <2>1, <2>2, <2>3
  <2>5. i + 1 \in 0 .. n
    BY <1>1
  <2> QED
    BY <2>4, <2>5
<1> HIDE DEF T
<1>6. \A i \in 0 .. n : i \in T
  BY <1>1, <1>4, <1>5, UpTo
<1>7. \A i \in 0 .. n : f[i] \in Seq(S)
  BY <1>6 DEF T
<1>8. f = [i \in 0 .. n |-> f[i]]
  BY DEF FilterBy
<1>9. f \in [0 .. n -> Seq(S)]
  BY <1>7, <1>8
<1> QED
  BY <1>2, <1>3, <1>9

(* What the loop keeps are the elements in the set, all of them, in their  *)
(* order: position k of the result has the element of position e[k].       *)
PicksBy(e, kept, seq, set, n) ==
    /\ e \in [1 .. Len(kept) -> 1 .. n]
    /\ \A j, k \in 1 .. Len(kept) : j < k => e[j] < e[k]
    /\ \A k \in 1 .. Len(kept) : kept[k] = seq[e[k]] /\ seq[e[k]] \in set
    /\ \A i \in 1 .. n : seq[i] \in set => \E k \in 1 .. Len(kept) : e[k] = i

LEMMA FilterPicks ==
  ASSUME NEW S, NEW seq \in Seq(S), NEW set, NEW f, FilterBy(f, seq, set)
  PROVE  /\ f[Len(seq)] \in Seq(S)
         /\ \E e : PicksBy(e, f[Len(seq)], seq, set, Len(seq))
<1> DEFINE n == Len(seq)
           T == {i \in 0 .. n : \E e : PicksBy(e, f[i], seq, set, i)}
<1>1. /\ n \in Nat /\ f[0] = <<>> /\ f \in [0 .. n -> Seq(S)]
      /\ \A i \in 1 .. n :
            f[i] = IF seq[i] \in set THEN Append(f[i - 1], seq[i]) ELSE f[i - 1]
  BY FilterRounds
<1>2. 0 \in T
  <2>1. PicksBy(<<>>, <<>>, seq, set, 0)
    BY DEF PicksBy
  <2> QED
    BY <1>1, <2>1
<1>3. ASSUME NEW i \in 0 .. n - 1, i \in T
      PROVE  i + 1 \in T
  <2>1. PICK e : PicksBy(e, f[i], seq, set, i)
    BY <1>3
  <2>2. i + 1 \in 1 .. n /\ i \in 0 .. n /\ (i + 1) - 1 = i /\ i \in Nat
    BY <1>1
  <2>3. f[i] \in Seq(S) /\ seq[i + 1] \in S
    <3>1. seq[i + 1] \in S
      BY <2>2, ElementOfSeq
    <3>2. f[i] \in Seq(S)
      BY <1>1, <2>2
    <3> QED
      BY <3>1, <3>2
  <2>4. f[i + 1] = IF seq[i + 1] \in set THEN Append(f[i], seq[i + 1]) ELSE f[i]
    BY <1>1, <2>2
  <2>5. CASE seq[i + 1] \in set
    <3> DEFINE a == f[i]
               b == f[i + 1]
               m == Len(a)
               d == [k \in 1 .. m + 1 |-> IF k = m + 1 THEN i + 1 ELSE e[k]]
    <3>1. m \in Nat /\ b = Append(a, seq[i + 1])
      BY <2>3, <2>4, <2>5
    <3>2. /\ Len(b) = m + 1 /\ b[m + 1] = seq[i + 1]
          /\ \A k \in 1 .. m : b[k] = a[k]
      BY <2>3, <3>1, AppendProperties
    <3>3. d[m + 1] = i + 1 /\ \A k \in 1 .. m : d[k] = e[k]
      BY <3>1
    <3>4. d \in [1 .. m + 1 -> 1 .. i + 1]
      BY <2>1, <2>2, <3>1 DEF PicksBy
    <3> HIDE DEF d, m, a, b
    <3>5. \A k \in 1 .. m : e[k] \in 1 .. i /\ b[k] = seq[e[k]] /\ seq[e[k]] \in set
      BY <2>1, <3>2 DEF PicksBy, m, a
    <3>6. \A j, k \in 1 .. m : j < k => e[j] < e[k]
      BY <2>1 DEF PicksBy, m, a
    <3>7. \A j \in 1 .. i : seq[j] \in set => \E k \in 1 .. m : e[k] = j
      BY <2>1 DEF PicksBy, m, a
    <3>8. ASSUME NEW j \in 1 .. m + 1, NEW k \in 1 .. m + 1, j < k
          PROVE  d[j] < d[k]
      <4>1. j \in 1 .. m /\ e[j] < i + 1
        BY <2>2, <3>1, <3>5, <3>8
      <4>2. CASE k = m + 1
        BY <3>3, <4>1, <4>2
      <4>3. CASE k # m + 1
        BY <3>1, <3>3, <3>6, <3>8, <4>1, <4>3
      <4> QED
        BY <4>2, <4>3
    <3>9. ASSUME NEW k \in 1 .. m + 1
          PROVE  b[k] = seq[d[k]] /\ seq[d[k]] \in set
      <4>1. CASE k = m + 1
        BY <2>5, <3>2, <3>3, <4>1
      <4>2. CASE k # m + 1
        <5>1. k \in 1 .. m /\ d[k] = e[k]
          BY <3>1, <3>3, <4>2
        <5> QED
          BY <3>5, <5>1
      <4> QED
        BY <4>1, <4>2
    <3>10. ASSUME NEW j \in 1 .. i + 1, seq[j] \in set
           PROVE  \E k \in 1 .. m + 1 : d[k] = j
      <4>1. CASE j = i + 1
        BY <3>1, <3>3, <4>1
      <4>2. CASE j # i + 1
        <5>1. PICK k \in 1 .. m : e[k] = j
          BY <2>2, <3>7, <3>10, <4>2
        <5> QED
          BY <3>1, <3>3, <5>1, SMTT(30)
      <4> QED
        BY <4>1, <4>2
    <3>11. PicksBy(d, b, seq, set, i + 1)
      BY <3>2, <3>4, <3>8, <3>9, <3>10 DEF PicksBy
    <3> QED
      BY <2>2, <3>11 DEF b
  <2>6. CASE seq[i + 1] \notin set
    <3>1. f[i + 1] = f[i]
      BY <2>4, <2>6
    <3>2. PicksBy(e, f[i + 1], seq, set, i + 1)
      BY <2>1, <2>2, <2>6, <3>1 DEF PicksBy
    <3> QED
      BY <2>2, <3>2
  <2> QED
    BY <2>5, <2>6
<1> HIDE DEF T
<1>4. \A i \in 0 .. n : i \in T
  BY <1>1, <1>2, <1>3, UpTo
<1>5. n \in T
  BY <1>1, <1>4
<1> QED
  BY <1>1, <1>5 DEF T

(* The loop that keeps everything copies the sequence.                     *)
LEMMA FilterKeepsAll ==
  ASSUME NEW S, NEW seq \in Seq(S), NEW set, NEW f, FilterBy(f, seq, set),
         \A i \in 1 .. Len(seq) : seq[i] \in set
  PROVE  f[Len(seq)] = seq
<1> DEFINE n == Len(seq)
           T == {i \in 0 .. n : Len(f[i]) = i /\ \A k \in 1 .. i : f[i][k] = seq[k]}
<1>1. /\ n \in Nat /\ f[0] = <<>> /\ f \in [0 .. n -> Seq(S)]
      /\ \A i \in 1 .. n :
            f[i] = IF seq[i] \in set THEN Append(f[i - 1], seq[i]) ELSE f[i - 1]
  BY FilterRounds
<1>2. 0 \in T
  BY <1>1
<1>3. ASSUME NEW i \in 0 .. n - 1, i \in T
      PROVE  i + 1 \in T
  <2>1. i + 1 \in 1 .. n /\ i \in 0 .. n /\ (i + 1) - 1 = i /\ i \in Nat
    BY <1>1
  <2>2. f[i] \in Seq(S) /\ seq[i + 1] \in S
    BY <1>1, <2>1, ElementOfSeq
  <2>3. f[i + 1] = Append(f[i], seq[i + 1])
    BY <1>1, <2>1
  <2> DEFINE a == f[i]
             b == f[i + 1]
  <2>4. Len(a) = i /\ \A k \in 1 .. i : a[k] = seq[k]
    BY <1>3
  <2>5. a \in Seq(S) /\ b = Append(a, seq[i + 1])
    BY <2>2, <2>3
  <2> HIDE DEF a, b
  <2>6. Len(b) = i + 1 /\ b[i + 1] = seq[i + 1] /\ \A k \in 1 .. i : b[k] = a[k]
    BY <2>2, <2>4, <2>5, AppendProperties
  <2>7. \A k \in 1 .. i + 1 : b[k] = seq[k]
    BY <2>1, <2>4, <2>6
  <2> QED
    BY <2>1, <2>6, <2>7 DEF b
<1>4. \A i \in 0 .. n : i \in T
  <2> HIDE DEF T
  <2> QED
    BY <1>1, <1>2, <1>3, UpTo
<1>5. n \in 0 .. n
  BY <1>1
<1> DEFINE kept == f[n]
<1>6. kept \in Seq(S) /\ Len(kept) = Len(seq) /\ \A k \in 1 .. Len(seq) : kept[k] = seq[k]
  BY <1>1, <1>4, <1>5
<1> HIDE DEF kept
<1>7. kept = seq
  BY <1>6, SeqEqual
<1> QED
  BY <1>7 DEF kept

(* It keeps at most what is there.                                         *)
LEMMA FilterShortens ==
  ASSUME NEW S, NEW seq \in Seq(S), NEW set, NEW f, FilterBy(f, seq, set)
  PROVE  Len(f[Len(seq)]) <= Len(seq)
<1> DEFINE n == Len(seq)
           T == {i \in 0 .. n : Len(f[i]) <= i}
<1>1. /\ n \in Nat /\ f[0] = <<>> /\ f \in [0 .. n -> Seq(S)]
      /\ \A i \in 1 .. n :
            f[i] = IF seq[i] \in set THEN Append(f[i - 1], seq[i]) ELSE f[i - 1]
  BY FilterRounds
<1>2. 0 \in T
  BY <1>1
<1>3. ASSUME NEW i \in 0 .. n - 1, i \in T
      PROVE  i + 1 \in T
  <2>1. i + 1 \in 1 .. n /\ i \in 0 .. n /\ (i + 1) - 1 = i /\ i \in Nat
    BY <1>1
  <2>2. f[i] \in Seq(S) /\ seq[i + 1] \in S /\ Len(f[i]) <= i
    BY <1>1, <1>3, <2>1, ElementOfSeq
  <2>3. Len(Append(f[i], seq[i + 1])) = Len(f[i]) + 1 /\ Len(f[i]) \in Nat
    BY <2>2, AppendProperties
  <2>4. f[i + 1] \in {Append(f[i], seq[i + 1]), f[i]}
    BY <1>1, <2>1
  <2>5. Len(f[i + 1]) <= i + 1
    BY <2>1, <2>2, <2>3, <2>4
  <2> QED
    BY <2>1, <2>5
<1>4. \A i \in 0 .. n : i \in T
  <2> HIDE DEF T
  <2> QED
    BY <1>1, <1>2, <1>3, UpTo
<1> QED
  BY <1>1, <1>4

(* The elements in one of two disjoint sets are as many as those in the    *)
(* first and those in the second.                                          *)
Splits(seq, C, A, B) ==
    \A i \in 1 .. Len(seq) : /\ seq[i] \in C <=> seq[i] \in A \/ seq[i] \in B
                             /\ ~(seq[i] \in A /\ seq[i] \in B)

AddsUp(seq, C, A, B) ==
    \A f, g, h : FilterBy(f, seq, A) /\ FilterBy(g, seq, B) /\ FilterBy(h, seq, C)
      => Len(h[Len(seq)]) = Len(f[Len(seq)]) + Len(g[Len(seq)])

LEMMA FilterAddsUp ==
  ASSUME NEW S, NEW seq \in Seq(S), NEW A, NEW B, NEW C, Splits(seq, C, A, B)
  PROVE  AddsUp(seq, C, A, B)
<1> SUFFICES ASSUME NEW f, FilterBy(f, seq, A), NEW g, FilterBy(g, seq, B),
                    NEW h, FilterBy(h, seq, C)
             PROVE  Len(h[Len(seq)]) = Len(f[Len(seq)]) + Len(g[Len(seq)])
  BY DEF AddsUp
<1> DEFINE n == Len(seq)
           T == {i \in 0 .. n : Len(h[i]) = Len(f[i]) + Len(g[i])}
<1>1. /\ n \in Nat /\ f[0] = <<>> /\ f \in [0 .. n -> Seq(S)]
      /\ \A i \in 1 .. n :
            f[i] = IF seq[i] \in A THEN Append(f[i - 1], seq[i]) ELSE f[i - 1]
  BY FilterRounds
<1>2. /\ g[0] = <<>> /\ g \in [0 .. n -> Seq(S)]
      /\ \A i \in 1 .. n :
            g[i] = IF seq[i] \in B THEN Append(g[i - 1], seq[i]) ELSE g[i - 1]
  BY FilterRounds
<1>3. /\ h[0] = <<>> /\ h \in [0 .. n -> Seq(S)]
      /\ \A i \in 1 .. n :
            h[i] = IF seq[i] \in C THEN Append(h[i - 1], seq[i]) ELSE h[i - 1]
  BY FilterRounds
<1>4. 0 \in T
  BY <1>1, <1>2, <1>3
<1>5. ASSUME NEW i \in 0 .. n - 1, i \in T
      PROVE  i + 1 \in T
  <2>1. i + 1 \in 1 .. n /\ i \in 0 .. n /\ (i + 1) - 1 = i
    BY <1>1
  <2>2. f[i] \in Seq(S) /\ g[i] \in Seq(S) /\ h[i] \in Seq(S)
    BY <1>1, <1>2, <1>3, <2>1
  <2> DEFINE e == seq[i + 1]
  <2>3. e \in S
    BY <2>1, ElementOfSeq
  <2>4. \A s \in Seq(S) : Len(Append(s, e)) = Len(s) + 1 /\ Len(s) \in Nat
    BY <2>3, AppendProperties
  <2>5. /\ Len(f[i + 1]) = IF e \in A THEN Len(f[i]) + 1 ELSE Len(f[i])
        /\ Len(g[i + 1]) = IF e \in B THEN Len(g[i]) + 1 ELSE Len(g[i])
        /\ Len(h[i + 1]) = IF e \in C THEN Len(h[i]) + 1 ELSE Len(h[i])
    BY <1>1, <1>2, <1>3, <2>1, <2>2, <2>4
  <2>6. (e \in C <=> e \in A \/ e \in B) /\ ~(e \in A /\ e \in B)
    BY <2>1 DEF Splits
  <2>7. Len(h[i]) = Len(f[i]) + Len(g[i])
    BY <1>5
  <2>8. Len(f[i]) \in Nat /\ Len(g[i]) \in Nat /\ Len(h[i]) \in Nat
    BY <2>2
  <2> HIDE DEF e
  <2> DEFINE x == Len(f[i])
             y == Len(g[i])
             z == Len(h[i])
  <2>9. Len(h[i + 1]) = Len(f[i + 1]) + Len(g[i + 1])
    <3>1. /\ Len(f[i + 1]) = IF e \in A THEN x + 1 ELSE x
          /\ Len(g[i + 1]) = IF e \in B THEN y + 1 ELSE y
          /\ Len(h[i + 1]) = IF e \in C THEN z + 1 ELSE z
          /\ x \in Nat /\ y \in Nat /\ z \in Nat /\ z = x + y
      BY <2>5, <2>7, <2>8
    <3> HIDE DEF x, y, z
    <3> QED
      BY <2>6, <3>1
  <2>10. i + 1 \in 0 .. n
    BY <1>1
  <2> QED
    BY <2>9, <2>10
<1>6. \A i \in 0 .. n : i \in T
  <2> HIDE DEF T
  <2> QED
    BY <1>1, <1>4, <1>5, UpTo
<1> QED
  BY <1>1, <1>6

(* Fewer numbers than n leave out one of 1 .. n.                           *)
LEMMA FewMissOne ==
  ASSUME NEW n \in Nat, NEW k \in 0 .. n, k # n, NEW q \in [1 .. k -> 1 .. n]
  PROVE  \E i \in 1 .. n : \A j \in 1 .. k : q[j] # i
<1>1. SUFFICES ASSUME \A i \in 1 .. n : \E j \in 1 .. k : q[j] = i
               PROVE  FALSE
  OBVIOUS
<1>2. q \in Surjection(1 .. k, 1 .. n)
  BY <1>1 DEF Surjection
<1>3. IsFiniteSet(1 .. k)
  BY FS_Interval, 1 \in Int, k \in Int
<1>4. Cardinality(1 .. n) <= Cardinality(1 .. k)
  BY <1>2, <1>3, FS_Surjection
<1>5. Cardinality(1 .. k) = IF 1 > k THEN 0 ELSE k - 1 + 1
  BY FS_Interval, 1 \in Int, k \in Int
<1>6. Cardinality(1 .. n) = IF 1 > n THEN 0 ELSE n - 1 + 1
  BY FS_Interval, 1 \in Int, n \in Int
<1> QED
  BY <1>4, <1>5, <1>6

(* A set of numbers that is bounded and not empty has a greatest element.  *)
LEMMA GreatestUpTo ==
  ASSUME NEW b \in Int, NEW T \in SUBSET Int, T # {}, \A x \in T : x <= b
  PROVE  \E x \in T : \A y \in T : y <= x
<1> DEFINE U == {n \in Nat : \E x \in T : n = b - x}
<1>1. U # {}
  <2>1. PICK x \in T : TRUE
    OBVIOUS
  <2>2. b - x \in Nat
    OBVIOUS
  <2>3. b - x \in U
    BY <2>2
  <2> QED
    BY <2>3
<1>2. PICK n \in U : \A m \in U : n <= m
  <2> HIDE DEF U
  <2> QED
    BY <1>1, LeastNat, U \in SUBSET Nat DEF U
<1>3. PICK x \in T : n = b - x
  BY <1>2
<1>4. ASSUME NEW y \in T
      PROVE  y <= x
  <2>1. b - y \in U
    OBVIOUS
  <2> QED
    BY <1>2, <1>3, <2>1
<1> QED
  BY <1>3, <1>4

-----------------------------------------------------------------------------
(* Precedence.  What a duplicate-free sequence holds, and which of its     *)
(* elements stands before which, is all there is to it.                    *)
Before(s, a, b) == \E i, j \in 1 .. Len(s) : i < j /\ s[i] = a /\ s[j] = b

LEMMA ConsBefore ==
  ASSUME NEW S, NEW s \in Seq(S), NEW e \in S, NEW a, NEW b
  PROVE  Before(Cons(e, s), a, b) <=> (a = e /\ b \in ToSet(s)) \/ Before(s, a, b)
<1> DEFINE c == Cons(e, s)
           n == Len(s)
<1>1. /\ n \in Nat /\ Len(c) = n + 1 /\ c[1] = e
      /\ \A i \in 2 .. n + 1 : c[i] = s[i - 1]
      /\ ToSet(s) = {s[i] : i \in 1 .. n}
  <2>1. /\ Len(c) = n + 1 /\ c[1] = e
        /\ \A i \in 2 .. n + 1 : c[i] = s[i - 1]
    BY ConsAddsFirst
  <2> QED
    BY <2>1 DEF ToSet
<1> HIDE DEF c, n
<1>2. ASSUME Before(c, a, b)
      PROVE  (a = e /\ b \in ToSet(s)) \/ Before(s, a, b)
  <2>1. PICK i, j \in 1 .. n + 1 : i < j /\ c[i] = a /\ c[j] = b
    BY <1>1, <1>2 DEF Before
  <2>2. j \in 2 .. n + 1 /\ j - 1 \in 1 .. n /\ s[j - 1] = b
    BY <1>1, <2>1
  <2>3. CASE i = 1
    BY <1>1, <2>1, <2>2, <2>3
  <2>4. CASE i # 1
    <3>1. i \in 2 .. n + 1 /\ i - 1 \in 1 .. n /\ s[i - 1] = a /\ i - 1 < j - 1
      BY <1>1, <2>1, <2>2, <2>4
    <3> QED
      BY <2>2, <3>1 DEF Before, n
  <2> QED
    BY <2>3, <2>4
<1>3. ASSUME a = e, b \in ToSet(s)
      PROVE  Before(c, a, b)
  <2>1. PICK i \in 1 .. n : s[i] = b
    BY <1>1, <1>3
  <2>2. 1 \in 1 .. n + 1 /\ i + 1 \in 2 .. n + 1 /\ 1 < i + 1 /\ (i + 1) - 1 = i
    BY <1>1
  <2>3. c[i + 1] = b /\ c[1] = a /\ i + 1 \in 1 .. n + 1
    BY <1>1, <1>3, <2>1, <2>2
  <2> QED
    BY <1>1, <2>2, <2>3 DEF Before
<1>4. ASSUME Before(s, a, b)
      PROVE  Before(c, a, b)
  <2>1. PICK i, j \in 1 .. n : i < j /\ s[i] = a /\ s[j] = b
    BY <1>4 DEF Before, n
  <2>2. /\ i + 1 \in 2 .. n + 1 /\ j + 1 \in 2 .. n + 1 /\ i + 1 < j + 1
        /\ (i + 1) - 1 = i /\ (j + 1) - 1 = j
        /\ i + 1 \in 1 .. n + 1 /\ j + 1 \in 1 .. n + 1
    BY <1>1, <2>1
  <2>3. c[i + 1] = a /\ c[j + 1] = b
    BY <1>1, <2>1, <2>2
  <2> QED
    BY <1>1, <2>2, <2>3 DEF Before
<1> QED
  BY <1>2, <1>3, <1>4 DEF c

LEMMA AppendBefore ==
  ASSUME NEW S, NEW s \in Seq(S), NEW e \in S, NEW a, NEW b
  PROVE  Before(Append(s, e), a, b) <=> (b = e /\ a \in ToSet(s)) \/ Before(s, a, b)
<1> DEFINE c == Append(s, e)
           n == Len(s)
<1>1. /\ n \in Nat /\ Len(c) = n + 1 /\ c[n + 1] = e
      /\ \A i \in 1 .. n : c[i] = s[i] /\ i \in 1 .. n + 1
      /\ ToSet(s) = {s[i] : i \in 1 .. n}
  <2>1. /\ Len(c) = n + 1 /\ c[n + 1] = e
        /\ \A i \in 1 .. n : c[i] = s[i]
    BY AppendProperties
  <2> QED
    BY <2>1 DEF ToSet
<1> HIDE DEF c, n
<1>2. ASSUME Before(c, a, b)
      PROVE  (b = e /\ a \in ToSet(s)) \/ Before(s, a, b)
  <2>1. PICK i, j \in 1 .. n + 1 : i < j /\ c[i] = a /\ c[j] = b
    BY <1>1, <1>2 DEF Before
  <2>2. i \in 1 .. n /\ s[i] = a
    BY <1>1, <2>1
  <2>3. CASE j = n + 1
    BY <1>1, <2>1, <2>2, <2>3
  <2>4. CASE j # n + 1
    <3>1. j \in 1 .. n /\ s[j] = b
      BY <1>1, <2>1, <2>4
    <3> QED
      BY <2>1, <2>2, <3>1 DEF Before, n
  <2> QED
    BY <2>3, <2>4
<1>3. ASSUME b = e, a \in ToSet(s)
      PROVE  Before(c, a, b)
  <2>1. PICK i \in 1 .. n : s[i] = a
    BY <1>1, <1>3
  <2>2. i < n + 1 /\ n + 1 \in 1 .. n + 1 /\ i \in 1 .. n + 1
    BY <1>1
  <2> QED
    BY <1>1, <1>3, <2>1, <2>2 DEF Before
<1>4. ASSUME Before(s, a, b)
      PROVE  Before(c, a, b)
  <2>1. PICK i, j \in 1 .. n : i < j /\ s[i] = a /\ s[j] = b
    BY <1>4 DEF Before, n
  <2> QED
    BY <1>1, <2>1 DEF Before
<1> QED
  BY <1>2, <1>3, <1>4 DEF c

LEMMA FrontBefore ==
  ASSUME NEW S, NEW s \in Seq(S), s # <<>>, IsInjective(s), NEW a, NEW b
  PROVE  Before(Front(s), a, b) <=> Before(s, a, b) /\ a # Last(s) /\ b # Last(s)
<1> DEFINE f == Front(s)
           n == Len(s)
<1>1. /\ n \in Nat /\ n >= 1 /\ \A i \in 1 .. n : s[i] \in S
      /\ DOMAIN s = 1 .. n
  BY EmptySeq, ElementOfSeq
<1>2. Len(f) = n - 1 /\ \A i \in 1 .. n - 1 : f[i] = s[i] /\ i \in 1 .. n
  <2>1. \A i \in 1 .. n - 1 : s[i] \in S
    BY <1>1
  <2>2. /\ Len(f) = IF 1 <= n - 1 THEN (n - 1) - 1 + 1 ELSE 0
        /\ \A i \in 1 .. (n - 1) - 1 + 1 : f[i] = s[1 + i - 1]
    BY <1>1, <2>1, SubSeqProperties DEF Front
  <2> HIDE DEF f, n
  <2>3. Len(f) = n - 1
    BY <1>1, <2>2
  <2>4. \A i \in 1 .. n - 1 : f[i] = s[i] /\ i \in 1 .. n
    <3>1. ASSUME NEW i \in 1 .. n - 1
          PROVE  f[i] = s[i] /\ i \in 1 .. n
      <4>1. i \in 1 .. (n - 1) - 1 + 1 /\ 1 + i - 1 = i /\ i \in 1 .. n
        BY <1>1
      <4> QED
        BY <2>2, <4>1
    <3> QED
      BY <3>1
  <2> QED
    BY <2>3, <2>4
<1>3. Last(s) = s[n] /\ \A i, j \in 1 .. n : s[i] = s[j] => i = j
  BY <1>1 DEF Last, IsInjective
<1> HIDE DEF f, n
<1>4. ASSUME Before(f, a, b)
      PROVE  Before(s, a, b) /\ a # Last(s) /\ b # Last(s)
  <2>1. PICK i, j \in 1 .. n - 1 : i < j /\ f[i] = a /\ f[j] = b
    BY <1>2, <1>4 DEF Before
  <2>2. i \in 1 .. n /\ j \in 1 .. n /\ n \in 1 .. n /\ i # n /\ j # n
    BY <1>1, <2>1
  <2>3. s[i] = a /\ s[j] = b
    BY <1>2, <2>1
  <2> QED
    BY <1>3, <2>1, <2>2, <2>3 DEF Before, n
<1>5. ASSUME Before(s, a, b), a # Last(s), b # Last(s)
      PROVE  Before(f, a, b)
  <2>1. PICK i, j \in 1 .. n : i < j /\ s[i] = a /\ s[j] = b
    BY <1>5 DEF Before, n
  <2>2. i \in 1 .. n - 1 /\ j \in 1 .. n - 1
    BY <1>1, <1>3, <1>5, <2>1
  <2> QED
    BY <1>2, <2>1, <2>2 DEF Before
<1> QED
  BY <1>4, <1>5 DEF f

LEMMA RemoveFirstBefore ==
  ASSUME NEW S, NEW s \in Seq(S), IsInjective(s), NEW e \in ToSet(s), NEW a, NEW b
  PROVE  Before(RemoveFirst(s, e), a, b) <=> Before(s, a, b) /\ a # e /\ b # e
<1> DEFINE r == RemoveFirst(s, e)
           n == Len(s)
<1>1. PICK k \in 1 .. n : s[k] = e /\ r = RemoveAt(s, k)
  BY RemoveFirstCuts
<1>2. /\ n \in Nat /\ Len(r) = n - 1
      /\ \A j \in 1 .. n - 1 : r[j] = IF j < k THEN s[j] ELSE s[j + 1]
  <2> DEFINE q == RemoveAt(s, k)
  <2>1. /\ Len(q) = Len(s) - 1
        /\ \A j \in 1 .. Len(s) - 1 : q[j] = IF j < k THEN s[j] ELSE s[j + 1]
    BY RemoveAtShifts
  <2>2. r = q
    BY <1>1
  <2> HIDE DEF q, r
  <2> QED
    BY <2>1, <2>2
<1>3. \A i, j \in 1 .. n : s[i] = s[j] => i = j
  BY <1>2 DEF IsInjective
<1> HIDE DEF r, n
<1>4. ASSUME Before(r, a, b)
      PROVE  Before(s, a, b) /\ a # e /\ b # e
  <2>1. PICK i, j \in 1 .. n - 1 : i < j /\ r[i] = a /\ r[j] = b
    BY <1>2, <1>4 DEF Before
  <2> DEFINE x == IF i < k THEN i ELSE i + 1
             y == IF j < k THEN j ELSE j + 1
  <2>2. x \in 1 .. n /\ y \in 1 .. n /\ x < y /\ x # k /\ y # k
    BY <1>2, <2>1
  <2>3. s[x] = a /\ s[y] = b
    BY <1>2, <2>1
  <2> HIDE DEF x, y
  <2> QED
    BY <1>1, <1>3, <2>2, <2>3 DEF Before, n
<1>5. ASSUME Before(s, a, b), a # e, b # e
      PROVE  Before(r, a, b)
  <2>1. PICK i, j \in 1 .. n : i < j /\ s[i] = a /\ s[j] = b
    BY <1>5 DEF Before, n
  <2>2. i # k /\ j # k
    BY <1>1, <1>5, <2>1
  <2> DEFINE x == IF i < k THEN i ELSE i - 1
             y == IF j < k THEN j ELSE j - 1
  <2>3. x \in 1 .. n - 1 /\ y \in 1 .. n - 1 /\ x < y
    BY <1>1, <1>2, <2>1, <2>2
  <2>4. /\ (IF x < k THEN x ELSE x + 1) = i
        /\ (IF y < k THEN y ELSE y + 1) = j
    BY <1>1, <1>2, <2>1, <2>2
  <2> HIDE DEF x, y
  <2>5. r[x] = a /\ r[y] = b
    BY <1>2, <2>1, <2>3, <2>4
  <2> QED
    BY <1>2, <2>3, <2>5 DEF Before
<1> QED
  BY <1>4, <1>5 DEF r

(* A sequence, and behind it another one without a common element.         *)
LEMMA ConcatBefore ==
  ASSUME NEW S, NEW s \in Seq(S), NEW t \in Seq(S)
  PROVE  /\ ToSet(s \o t) = ToSet(s) \union ToSet(t)
         /\ \A a, b : Before(s \o t, a, b) <=>
                        \/ Before(s, a, b) \/ Before(t, a, b)
                        \/ a \in ToSet(s) /\ b \in ToSet(t)
         /\ IsInjective(s) /\ IsInjective(t) /\ ToSet(s) \cap ToSet(t) = {}
              => IsInjective(s \o t)
<1> DEFINE c == s \o t
           m == Len(s)
           n == Len(t)
<1>1. /\ m \in Nat /\ n \in Nat /\ c \in Seq(S) /\ Len(c) = m + n
      /\ \A i \in 1 .. m + n : c[i] = IF i <= m THEN s[i] ELSE t[i - m]
      /\ DOMAIN s = 1 .. m /\ DOMAIN t = 1 .. n /\ DOMAIN c = 1 .. m + n
  <2>1. c \in Seq(S) /\ Len(c) = m + n
    BY ConcatProperties
  <2>2. \A i \in 1 .. m + n : c[i] = IF i <= m THEN s[i] ELSE t[i - m]
    BY ConcatProperties
  <2> QED
    BY <2>1, <2>2
<1> HIDE DEF c
<1>2. ToSet(s) = {s[i] : i \in 1 .. m} /\ ToSet(t) = {t[i] : i \in 1 .. n}
  BY <1>1 DEF ToSet
<1> HIDE DEF m, n
<1>3. \A i \in 1 .. m : i \in 1 .. m + n /\ c[i] = s[i]
  BY <1>1
<1>4. ASSUME NEW i \in 1 .. n
      PROVE  m + i \in 1 .. m + n /\ c[m + i] = t[i]
  <2>1. m + i \in 1 .. m + n /\ ~(m + i <= m) /\ (m + i) - m = i
    BY <1>1
  <2> QED
    BY <1>1, <2>1
<1>5. ASSUME NEW i \in 1 .. m + n
      PROVE  i \in 1 .. m \/ \E k \in 1 .. n : i = m + k
  <2>1. CASE i <= m
    BY <1>1, <2>1
  <2>2. CASE ~(i <= m)
    <3>1. i - m \in 1 .. n /\ i = m + (i - m)
      BY <1>1, <2>2
    <3> QED
      BY <3>1
  <2> QED
    BY <2>1, <2>2
<1>6. ToSet(c) = ToSet(s) \union ToSet(t)
  <2>1. ToSet(c) = {c[i] : i \in 1 .. m + n}
    BY <1>1 DEF ToSet
  <2>2. \A x \in ToSet(c) : x \in ToSet(s) \union ToSet(t)
    BY <1>2, <1>3, <1>4, <1>5, <2>1
  <2>3. \A x \in ToSet(s) \union ToSet(t) : x \in ToSet(c)
    BY <1>2, <1>3, <1>4, <2>1
  <2> QED
    BY <2>2, <2>3
<1>7. ASSUME NEW a, NEW b, Before(c, a, b)
      PROVE  \/ Before(s, a, b) \/ Before(t, a, b)
             \/ a \in ToSet(s) /\ b \in ToSet(t)
  <2>1. PICK i, j \in 1 .. m + n : i < j /\ c[i] = a /\ c[j] = b
    BY <1>1, <1>7 DEF Before
  <2>2. CASE i \in 1 .. m /\ j \in 1 .. m
    BY <1>3, <2>1, <2>2 DEF Before, m
  <2>3. CASE i \in 1 .. m /\ j \notin 1 .. m
    BY <1>2, <1>3, <1>4, <1>5, <2>1, <2>3
  <2>4. CASE i \notin 1 .. m
    <3>1. PICK k \in 1 .. n : i = m + k
      BY <1>5, <2>4
    <3>2. j \notin 1 .. m
      BY <1>1, <2>1, <3>1
    <3>3. PICK l \in 1 .. n : j = m + l
      BY <1>5, <3>2
    <3>4. k < l
      BY <1>1, <2>1, <3>1, <3>3
    <3>5. t[k] = a /\ t[l] = b
      BY <1>4, <2>1, <3>1, <3>3
    <3> QED
      BY <3>4, <3>5 DEF Before, n
  <2> QED
    BY <2>2, <2>3, <2>4
<1>8. ASSUME NEW a, NEW b, Before(s, a, b)
      PROVE  Before(c, a, b)
  <2>1. PICK i, j \in 1 .. m : i < j /\ s[i] = a /\ s[j] = b
    BY <1>8 DEF Before, m
  <2> QED
    BY <1>1, <1>3, <2>1 DEF Before
<1>9. ASSUME NEW a, NEW b, Before(t, a, b)
      PROVE  Before(c, a, b)
  <2>1. PICK i, j \in 1 .. n : i < j /\ t[i] = a /\ t[j] = b
    BY <1>9 DEF Before, n
  <2>2. m + i < m + j
    BY <1>1, <2>1
  <2> QED
    BY <1>1, <1>4, <2>1, <2>2 DEF Before
<1>10. ASSUME NEW a, NEW b, a \in ToSet(s), b \in ToSet(t)
       PROVE  Before(c, a, b)
  <2>1. PICK i \in 1 .. m, j \in 1 .. n : s[i] = a /\ t[j] = b
    BY <1>2, <1>10
  <2>2. i < m + j
    BY <1>1
  <2> QED
    BY <1>1, <1>3, <1>4, <2>1, <2>2 DEF Before
<1>11. ASSUME IsInjective(s), IsInjective(t), ToSet(s) \cap ToSet(t) = {}
       PROVE  IsInjective(c)
  <2>1. /\ \A i, j \in 1 .. m : s[i] = s[j] => i = j
        /\ \A i, j \in 1 .. n : t[i] = t[j] => i = j
        /\ \A i \in 1 .. m, j \in 1 .. n : s[i] # t[j]
    <3>1. \A i, j \in 1 .. m : s[i] = s[j] => i = j
      BY <1>1, <1>11 DEF IsInjective
    <3>2. \A i, j \in 1 .. n : t[i] = t[j] => i = j
      BY <1>1, <1>11 DEF IsInjective
    <3>3. ASSUME NEW i \in 1 .. m, NEW j \in 1 .. n, s[i] = t[j]
          PROVE  FALSE
      <4>1. s[i] \in ToSet(s) /\ s[i] \in ToSet(t)
        BY <1>2, <3>3
      <4> QED
        BY <1>11, <4>1
    <3> QED
      BY <3>1, <3>2, <3>3
  <2>2. ASSUME NEW i \in 1 .. m + n, NEW j \in 1 .. m + n, c[i] = c[j]
        PROVE  i = j
    <3>1. CASE i \in 1 .. m /\ j \in 1 .. m
      BY <1>3, <2>1, <2>2, <3>1
    <3>2. CASE i \notin 1 .. m /\ j \notin 1 .. m
      <4>1. PICK k \in 1 .. n : i = m + k
        BY <1>5, <3>2
      <4>2. PICK l \in 1 .. n : j = m + l
        BY <1>5, <3>2
      <4>3. t[k] = t[l]
        BY <1>4, <2>2, <4>1, <4>2
      <4> QED
        BY <2>1, <4>1, <4>2, <4>3
    <3>3. CASE i \in 1 .. m /\ j \notin 1 .. m
      <4>1. PICK l \in 1 .. n : j = m + l
        BY <1>5, <3>3
      <4> QED
        BY <1>3, <1>4, <2>1, <2>2, <3>3, <4>1
    <3>4. CASE i \notin 1 .. m /\ j \in 1 .. m
      <4>1. PICK l \in 1 .. n : i = m + l
        BY <1>5, <3>4
      <4> QED
        BY <1>3, <1>4, <2>1, <2>2, <3>4, <4>1
    <3> QED
      BY <3>1, <3>2, <3>3, <3>4
  <2> QED
    BY <1>1, <2>2 DEF IsInjective
<1> QED
  BY <1>6, <1>7, <1>8, <1>9, <1>10, <1>11 DEF c

LEMMA ReverseBefore ==
  ASSUME NEW S, NEW s \in Seq(S)
  PROVE  /\ Reverse(s) \in Seq(S)
         /\ ToSet(Reverse(s)) = ToSet(s)
         /\ IsInjective(s) => IsInjective(Reverse(s))
         /\ \A a, b : Before(Reverse(s), a, b) <=> Before(s, b, a)
<1> DEFINE n == Len(s)
           v == Reverse(s)
<1>1. /\ n \in Nat /\ DOMAIN s = 1 .. n /\ \A i \in 1 .. n : s[i] \in S
      /\ v = [i \in 1 .. n |-> s[(n - i) + 1]]
  BY ElementOfSeq DEF Reverse
<1> HIDE DEF n, v
<1>2. \A i \in 1 .. n : (n - i) + 1 \in 1 .. n /\ v[i] = s[(n - i) + 1]
  BY <1>1
<1>3. \A i \in 1 .. n : s[i] = v[(n - i) + 1]
  <2>1. ASSUME NEW i \in 1 .. n
        PROVE  s[i] = v[(n - i) + 1]
    <3>1. (n - i) + 1 \in 1 .. n /\ (n - ((n - i) + 1)) + 1 = i
      BY <1>1
    <3> QED
      BY <1>2, <3>1
  <2> QED
    BY <2>1
<1>4. v \in [1 .. n -> S]
  BY <1>1, <1>2
<1>5. v \in Seq(S) /\ Len(v) = n /\ DOMAIN v = 1 .. n
  BY <1>1, <1>4
<1>6. ToSet(v) = ToSet(s)
  <2>1. \A x \in ToSet(v) : x \in ToSet(s)
    BY <1>1, <1>2, <1>5 DEF ToSet
  <2>2. \A x \in ToSet(s) : x \in ToSet(v)
    <3>1. ASSUME NEW x \in ToSet(s)
          PROVE  x \in ToSet(v)
      <4>1. PICK i \in 1 .. n : s[i] = x
        BY <1>1 DEF ToSet
      <4>2. v[(n - i) + 1] = x /\ (n - i) + 1 \in DOMAIN v
        BY <1>2, <1>3, <1>5, <4>1
      <4> QED
        BY <4>2 DEF ToSet
    <3> QED
      BY <3>1
  <2> QED
    BY <2>1, <2>2
<1>7. ASSUME IsInjective(s)
      PROVE  IsInjective(v)
  <2>1. ASSUME NEW i \in 1 .. n, NEW j \in 1 .. n, v[i] = v[j]
        PROVE  i = j
    <3>1. (n - i) + 1 = (n - j) + 1
      BY <1>1, <1>2, <1>7, <2>1 DEF IsInjective
    <3> QED
      BY <1>1, <3>1
  <2> QED
    BY <1>5, <2>1 DEF IsInjective
<1>8. ASSUME NEW a, NEW b, Before(v, a, b)
      PROVE  Before(s, b, a)
  <2>1. PICK i, j \in 1 .. n : i < j /\ v[i] = a /\ v[j] = b
    BY <1>5, <1>8 DEF Before
  <2>2. (n - j) + 1 < (n - i) + 1
    BY <1>1, <2>1
  <2> QED
    BY <1>2, <2>1, <2>2 DEF Before, n
<1>9. ASSUME NEW a, NEW b, Before(s, b, a)
      PROVE  Before(v, a, b)
  <2>1. PICK i, j \in 1 .. n : i < j /\ s[i] = b /\ s[j] = a
    BY <1>9 DEF Before, n
  <2>2. (n - j) + 1 < (n - i) + 1
    BY <1>1, <2>1
  <2> QED
    BY <1>2, <1>3, <1>5, <2>1, <2>2 DEF Before
<1> QED
  BY <1>5, <1>6, <1>7, <1>8, <1>9 DEF v

(* Filtering keeps the order of what it keeps.                             *)
LEMMA PicksBefore ==
  ASSUME NEW S, NEW seq \in Seq(S), NEW kept \in Seq(S), NEW set,
         NEW e, PicksBy(e, kept, seq, set, Len(seq))
  PROVE  /\ ToSet(kept) = ToSet(seq) \cap set
         /\ IsInjective(seq) => IsInjective(kept)
         /\ \A a, b : Before(kept, a, b) <=> Before(seq, a, b) /\ a \in set /\ b \in set
<1> DEFINE n == Len(seq)
           m == Len(kept)
<1>1. n \in Nat /\ m \in Nat /\ DOMAIN seq = 1 .. n /\ DOMAIN kept = 1 .. m
  OBVIOUS
<1>2. /\ \A k \in 1 .. m : e[k] \in 1 .. n /\ kept[k] = seq[e[k]] /\ seq[e[k]] \in set
      /\ \A j, k \in 1 .. m : j < k => e[j] < e[k]
      /\ \A i \in 1 .. n : seq[i] \in set => \E k \in 1 .. m : e[k] = i
  BY DEF PicksBy
<1> HIDE DEF n, m
<1>3. ToSet(kept) = ToSet(seq) \cap set
  <2>1. \A x \in ToSet(kept) : x \in ToSet(seq) \cap set
    BY <1>1, <1>2 DEF ToSet
  <2>2. \A x \in ToSet(seq) \cap set : x \in ToSet(kept)
    BY <1>1, <1>2 DEF ToSet
  <2> QED
    BY <2>1, <2>2
<1>4. ASSUME IsInjective(seq)
      PROVE  IsInjective(kept)
  <2>1. ASSUME NEW j \in 1 .. m, NEW k \in 1 .. m, kept[j] = kept[k]
        PROVE  j = k
    <3>1. e[j] = e[k]
      BY <1>1, <1>2, <1>4, <2>1 DEF IsInjective
    <3>2. ~(j < k) /\ ~(k < j)
      BY <1>1, <1>2, <3>1
    <3> QED
      BY <1>1, <3>2
  <2> QED
    BY <1>1, <2>1 DEF IsInjective
<1>5. ASSUME NEW a, NEW b, Before(kept, a, b)
      PROVE  Before(seq, a, b) /\ a \in set /\ b \in set
  BY <1>2, <1>5 DEF Before, n, m
<1>6. ASSUME NEW a, NEW b, Before(seq, a, b), a \in set, b \in set
      PROVE  Before(kept, a, b)
  <2>1. PICK i, j \in 1 .. n : i < j /\ seq[i] = a /\ seq[j] = b
    BY <1>6 DEF Before, n
  <2>2. PICK k \in 1 .. m : e[k] = i
    BY <1>2, <1>6, <2>1
  <2>3. PICK l \in 1 .. m : e[l] = j
    BY <1>2, <1>6, <2>1
  <2>4. k < l
    <3>1. ~(l < k) /\ l # k
      BY <1>1, <1>2, <2>1, <2>2, <2>3
    <3> QED
      BY <1>1, <3>1
  <2> QED
    BY <1>2, <2>1, <2>2, <2>3, <2>4 DEF Before, m
<1> QED
  BY <1>3, <1>4, <1>5, <1>6

(* A strictly increasing numbering is nowhere behind.                      *)
LEMMA Climbs ==
  ASSUME NEW n \in Nat, NEW m \in Nat, NEW f \in [1 .. n -> 1 .. m],
         \A i, j \in 1 .. n : i < j => f[i] < f[j]
  PROVE  \A i \in 1 .. n : i <= f[i]
<1> DEFINE T == {i \in 0 .. n : i # 0 => i <= f[i]}
<1>1. 0 \in T
  OBVIOUS
<1>2. ASSUME NEW i \in 0 .. n - 1, i \in T
      PROVE  i + 1 \in T
  <2>1. i + 1 \in 1 .. n /\ f[i + 1] \in 1 .. m
    OBVIOUS
  <2>2. CASE i = 0
    BY <2>1, <2>2
  <2>3. CASE i # 0
    <3>1. i \in 1 .. n /\ i <= f[i] /\ f[i] \in 1 .. m /\ i < i + 1
      BY <1>2, <2>3
    <3>2. f[i] < f[i + 1]
      BY <2>1, <3>1
    <3>3. i + 1 <= f[i + 1]
      BY <2>1, <3>1, <3>2
    <3> QED
      BY <2>1, <3>3
  <2> QED
    BY <2>2, <2>3
<1>3. \A i \in 0 .. n : i \in T
  <2> HIDE DEF T
  <2> QED
    BY <1>1, <1>2, UpTo
<1> QED
  BY <1>3

(* Where t holds what s holds, and where it stands in t.                   *)
Follows(s, t) == \A a, b : Before(s, a, b) => Before(t, a, b)

PlacesBy(f, s, t) ==
    /\ f \in [1 .. Len(s) -> 1 .. Len(t)]
    /\ \A i \in 1 .. Len(s) : t[f[i]] = s[i] /\ i <= f[i]

LEMMA PlacesClimb ==
  ASSUME NEW S, NEW s \in Seq(S), NEW t \in Seq(S), IsInjective(t),
         ToSet(s) \subseteq ToSet(t), Follows(s, t)
  PROVE  \E f : PlacesBy(f, s, t)
<1> DEFINE n == Len(s)
           m == Len(t)
<1>1. /\ n \in Nat /\ m \in Nat /\ DOMAIN s = 1 .. n /\ DOMAIN t = 1 .. m
  OBVIOUS
<1> HIDE DEF n, m
<1>2. \A i \in 1 .. n : \E j \in 1 .. m : t[j] = s[i]
  BY <1>1 DEF ToSet
<1> DEFINE f == [i \in 1 .. n |-> CHOOSE j \in 1 .. m : t[j] = s[i]]
<1>3. \A i \in 1 .. n : f[i] \in 1 .. m /\ t[f[i]] = s[i]
  BY <1>2
<1>4. f \in [1 .. n -> 1 .. m]
  BY <1>3
<1> HIDE DEF f
<1>5. \A i, j \in 1 .. m : t[i] = t[j] => i = j
  BY <1>1 DEF IsInjective
<1>6. ASSUME NEW i \in 1 .. n, NEW j \in 1 .. n, i < j
      PROVE  f[i] < f[j]
  <2>1. Before(s, s[i], s[j])
    BY <1>6 DEF Before, n
  <2>2. Before(t, s[i], s[j])
    BY <2>1 DEF Follows
  <2>3. PICK k, l \in 1 .. m : k < l /\ t[k] = s[i] /\ t[l] = s[j]
    BY <2>2 DEF Before, m
  <2>4. k = f[i] /\ l = f[j]
    BY <1>3, <1>5, <2>3
  <2> QED
    BY <2>3, <2>4
<1>7. \A i \in 1 .. n : i <= f[i]
  BY <1>1, <1>4, <1>6, Climbs
<1> QED
  BY <1>3, <1>4, <1>7 DEF n, m, PlacesBy

LEMMA SameOrder ==
  ASSUME NEW S, NEW s \in Seq(S), NEW t \in Seq(S), IsInjective(s), IsInjective(t),
         ToSet(s) = ToSet(t), \A a, b : Before(s, a, b) <=> Before(t, a, b)
  PROVE  s = t
<1> DEFINE n == Len(s)
           m == Len(t)
<1>0. Follows(s, t) /\ Follows(t, s)
  BY DEF Follows
<1>1. PICK f : PlacesBy(f, s, t)
  BY <1>0, PlacesClimb
<1>2. PICK g : PlacesBy(g, t, s)
  BY <1>0, PlacesClimb
<1>3. n \in Nat /\ m \in Nat /\ DOMAIN s = 1 .. n /\ DOMAIN t = 1 .. m
  OBVIOUS
<1>4. f \in [1 .. n -> 1 .. m] /\ \A i \in 1 .. n : t[f[i]] = s[i] /\ i <= f[i]
  BY <1>1 DEF PlacesBy
<1>5. g \in [1 .. m -> 1 .. n] /\ \A i \in 1 .. m : s[g[i]] = t[i] /\ i <= g[i]
  BY <1>2 DEF PlacesBy
<1> HIDE DEF n, m
<1>6. ASSUME NEW i \in 1 .. n
      PROVE  f[i] = i
  <2>1. f[i] \in 1 .. m /\ g[f[i]] \in 1 .. n
    BY <1>4, <1>5
  <2>2. s[g[f[i]]] = s[i]
    BY <1>4, <1>5, <2>1
  <2>3. g[f[i]] = i
    BY <1>3, <2>1, <2>2 DEF IsInjective
  <2>4. i <= f[i] /\ f[i] <= g[f[i]]
    BY <1>4, <1>5, <2>1
  <2> QED
    BY <1>3, <2>1, <2>3, <2>4
<1>7. n <= m
  <2>1. CASE n = 0
    BY <1>3, <2>1
  <2>2. CASE n # 0
    <3>1. n \in 1 .. n /\ f[n] \in 1 .. m
      BY <1>3, <1>4, <2>2
    <3> QED
      BY <1>3, <1>6, <3>1
  <2> QED
    BY <2>1, <2>2
<1>8. m <= n
  <2>1. CASE m = 0
    BY <1>3, <2>1
  <2>2. CASE m # 0
    <3>1. m \in 1 .. m /\ g[m] \in 1 .. n /\ m <= g[m]
      BY <1>3, <1>5, <2>2
    <3> QED
      BY <1>3, <3>1
  <2> QED
    BY <2>1, <2>2
<1>9. n = m /\ \A i \in 1 .. n : s[i] = t[i]
  BY <1>3, <1>6, <1>7, <1>8, <1>4
<1> QED
  BY <1>9, SeqEqual DEF n, m

(* Part i of whole begins behind the first b[i - 1] elements.              *)
PartsBy(b, parts, whole) ==
    /\ b \in [0 .. Len(parts) -> Nat]
    /\ b[0] = 0
    /\ b[Len(parts)] = Len(whole)
    /\ \A i \in 1 .. Len(parts) :
          /\ b[i] = b[i - 1] + Len(parts[i])
          /\ b[i] <= Len(whole)
          /\ \A k \in 1 .. Len(parts[i]) : whole[b[i - 1] + k] = parts[i][k]

(* The parts stand in what they are joined to, one behind the other.       *)
LEMMA FlattenPlaces ==
  ASSUME NEW S, NEW parts \in Seq(Seq(S))
  PROVE  /\ FlattenSeq(parts) \in Seq(S)
         /\ \E b : PartsBy(b, parts, FlattenSeq(parts))
<1> DEFINE n == Len(parts)
<1>1. n \in Nat /\ \A i \in 1 .. n : parts[i] \in Seq(S) /\ Len(parts[i]) \in Nat
  OBVIOUS
<1>2. CASE parts = <<>>
  <2>1. FlattenSeq(parts) = <<>> /\ n = 0
    BY <1>2 DEF FlattenSeq
  <2>2. PartsBy([i \in 0 .. 0 |-> 0], parts, <<>>)
    BY <1>2, EmptySeq DEF PartsBy
  <2> QED
    BY <2>1, <2>2, EmptySeq
<1>3. CASE parts # <<>>
  <2>1. PICK f : /\ f[1] = parts[1]
                 /\ \A i \in 1 .. n - 1 : f[i + 1] = f[i] \o parts[i + 1]
                 /\ \A i \in 1 .. n : f[i] \in Seq(S)
                 /\ FlattenSeq(parts) = f[n]
    BY <1>3, FlattenParts
  <2>2. n >= 1
    BY <1>1, <1>3, EmptySeq
  <2> DEFINE b == [i \in 0 .. n |-> IF i = 0 THEN 0 ELSE Len(f[i])]
  <2>3. /\ b \in [0 .. n -> Nat] /\ b[0] = 0
        /\ \A i \in 1 .. n : b[i] = Len(f[i])
    <3>1. \A i \in 1 .. n : Len(f[i]) \in Nat
      BY <2>1
    <3> QED
      BY <3>1
  <2> HIDE DEF b, n
  <2>4. ASSUME NEW i \in 1 .. n
        PROVE  /\ b[i] = b[i - 1] + Len(parts[i])
               /\ \A k \in 1 .. b[i - 1] : f[i][k] = f[i - 1][k]
               /\ \A k \in 1 .. Len(parts[i]) : f[i][b[i - 1] + k] = parts[i][k]
    <3>1. CASE i = 1
      <4>1. i - 1 = 0 /\ b[i - 1] = 0 /\ b[i] = Len(parts[i]) /\ f[i] = parts[i]
        BY <2>1, <2>3, <3>1
      <4>2. Len(parts[i]) \in Nat
        BY <1>1
      <4> QED
        BY <4>1, <4>2
    <3>2. CASE i # 1
      <4>1. i - 1 \in 1 .. n - 1 /\ i - 1 \in 1 .. n /\ (i - 1) + 1 = i
        BY <1>1, <3>2
      <4>2. f[i] = f[i - 1] \o parts[i]
        BY <2>1, <4>1
      <4>3. f[i - 1] \in Seq(S) /\ parts[i] \in Seq(S) /\ b[i - 1] = Len(f[i - 1])
        BY <1>1, <2>1, <2>3, <4>1
      <4> DEFINE s == f[i - 1]
                 t == parts[i]
                 x == Len(s)
                 y == Len(t)
      <4>4. s \in Seq(S) /\ t \in Seq(S)
        BY <4>3
      <4>5. b[i] = Len(f[i])
        BY <2>3
      <4> HIDE DEF s, t
      <4>6. /\ x \in Nat /\ y \in Nat /\ Len(s \o t) = x + y
            /\ \A k \in 1 .. x + y : (s \o t)[k] = IF k <= x THEN s[k] ELSE t[k - x]
        BY <4>4, ConcatProperties
      <4> HIDE DEF x, y
      <4>7. /\ b[i] = x + y /\ b[i - 1] = x
            /\ \A k \in 1 .. x + y : f[i][k] = IF k <= x THEN s[k] ELSE t[k - x]
        BY <4>2, <4>3, <4>6, <4>5 DEF s, t, x
      <4>8. /\ \A k \in 1 .. x : f[i][k] = s[k]
            /\ \A k \in 1 .. y : f[i][x + k] = t[k]
        <5>1. \A k \in 1 .. x : k \in 1 .. x + y /\ k <= x
          BY <4>6
        <5>2. \A k \in 1 .. y : x + k \in 1 .. x + y /\ ~(x + k <= x) /\ (x + k) - x = k
          BY <4>6
        <5> QED
          BY <4>7, <5>1, <5>2
      <4> QED
        BY <4>7, <4>8 DEF s, t, y
    <3> QED
      BY <3>1, <3>2
  <2> DEFINE T == {j \in 0 .. n : \A i \in 1 .. j :
                     /\ b[i] <= b[j]
                     /\ \A k \in 1 .. Len(parts[i]) : f[j][b[i - 1] + k] = parts[i][k]}
  <2>5. 0 \in T
    BY <1>1
  <2>6. ASSUME NEW j \in 0 .. n - 1, j \in T
        PROVE  j + 1 \in T
    <3>1. j + 1 \in 1 .. n /\ (j + 1) - 1 = j /\ j \in 0 .. n /\ j + 1 \in 0 .. n
      BY <1>1
    <3>2. /\ b[j + 1] = b[j] + Len(parts[j + 1])
          /\ \A k \in 1 .. b[j] : f[j + 1][k] = f[j][k]
          /\ \A k \in 1 .. Len(parts[j + 1]) : f[j + 1][b[j] + k] = parts[j + 1][k]
      BY <2>4, <3>1
    <3>3. b[j] \in Nat /\ b[j + 1] \in Nat /\ Len(parts[j + 1]) \in Nat
      BY <1>1, <2>3, <3>1
    <3>4. ASSUME NEW i \in 1 .. j
          PROVE  /\ b[i] <= b[j + 1]
                 /\ \A k \in 1 .. Len(parts[i]) : f[j + 1][b[i - 1] + k] = parts[i][k]
      <4>1. /\ i \in 1 .. n /\ i - 1 \in 0 .. n /\ b[i] <= b[j]
            /\ \A k \in 1 .. Len(parts[i]) : f[j][b[i - 1] + k] = parts[i][k]
        <5>1. i \in 1 .. n /\ i - 1 \in 0 .. n
          BY <1>1
        <5>2. /\ b[i] <= b[j]
              /\ \A k \in 1 .. Len(parts[i]) : f[j][b[i - 1] + k] = parts[i][k]
          BY <2>6
        <5> QED
          BY <5>1, <5>2
      <4>2. /\ b[i] = b[i - 1] + Len(parts[i]) /\ b[i] \in Nat /\ b[i - 1] \in Nat
            /\ Len(parts[i]) \in Nat
        <5>1. i \in 1 .. n /\ i \in 0 .. n /\ i - 1 \in 0 .. n
          BY <1>1, <4>1
        <5>2. b[i] = b[i - 1] + Len(parts[i])
          BY <2>4, <5>1
        <5>3. b[i] \in Nat /\ b[i - 1] \in Nat
          BY <2>3, <5>1
        <5>4. parts[i] \in Seq(S)
          BY <1>1, <5>1
        <5> QED
          BY <5>2, <5>3, <5>4
      <4> DEFINE u == b[i - 1]
                 v == b[i]
                 w == b[j]
                 l == Len(parts[i])
      <4>3. /\ u \in Nat /\ v \in Nat /\ w \in Nat /\ l \in Nat /\ b[j + 1] \in Nat
            /\ v = u + l /\ v <= w /\ w <= b[j + 1]
        <5>1. w \in Nat /\ b[j + 1] \in Nat /\ w <= b[j + 1]
          <6> DEFINE x == b[j + 1]
                     y == Len(parts[j + 1])
          <6>1. x = w + y /\ x \in Nat /\ y \in Nat /\ w \in Nat
            BY <3>2, <3>3
          <6> HIDE DEF x, y, w
          <6>2. x \in Nat /\ w \in Nat /\ w <= x
            BY <6>1
          <6> QED
            BY <6>2 DEF x
        <5>2. u \in Nat /\ v \in Nat /\ l \in Nat /\ v = u + l
          BY <4>2
        <5>3. v <= w
          BY <4>1
        <5> QED
          BY <5>1, <5>2, <5>3
      <4> HIDE DEF u, v, w, l
      <4>4. v <= b[j + 1] /\ \A k \in 1 .. l : u + k \in 1 .. w
        BY <4>3
      <4>5. \A k \in 1 .. l : f[j + 1][u + k] = f[j][u + k]
        BY <3>2, <4>4 DEF w
      <4> QED
        BY <4>1, <4>4, <4>5 DEF u, v, l
    <3>5. \A i \in 1 .. j + 1 : i \in 1 .. j \/ i = j + 1
      BY <3>1
    <3>6. ASSUME NEW i \in 1 .. j + 1
          PROVE  /\ b[i] <= b[j + 1]
                 /\ \A k \in 1 .. Len(parts[i]) : f[j + 1][b[i - 1] + k] = parts[i][k]
      <4>1. CASE i \in 1 .. j
        BY <3>4, <4>1
      <4>2. CASE i = j + 1
        BY <3>1, <3>2, <3>3, <4>2
      <4> QED
        BY <3>5, <4>1, <4>2
    <3> QED
      BY <3>1, <3>6
  <2> HIDE DEF T
  <2>7. \A j \in 0 .. n : j \in T
    BY <1>1, <2>5, <2>6, UpTo
  <2>8. n \in T
    BY <1>1, <2>7
  <2>9. \A i \in 1 .. n : /\ b[i] = b[i - 1] + Len(parts[i])
                          /\ b[i] <= b[n]
                          /\ \A k \in 1 .. Len(parts[i]) : f[n][b[i - 1] + k] = parts[i][k]
    BY <2>4, <2>8 DEF T
  <2>10. n \in 1 .. n
    BY <1>1, <2>2
  <2>11. f[n] \in Seq(S) /\ b[n] = Len(f[n])
    BY <2>1, <2>3, <2>10
  <2>12. PartsBy(b, parts, f[n])
    BY <2>3, <2>9, <2>11 DEF PartsBy, n
  <2> QED
    BY <2>1, <2>11, <2>12
<1> QED
  BY <1>2, <1>3

=============================================================================
