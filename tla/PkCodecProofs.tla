----------------------------- MODULE PkCodecProofs -----------------------------
(* What holds of PkCodec for every width and value: dbutils_value_compare is a *)
(* total order, pk_encode writes the bytes pk_encode_size announces, and       *)
(* pk_decode reads back, from any place in any string, what pk_encode wrote.   *)
EXTENDS PkCodec, SequenceTheorems, WellFoundedInduction, TLAPS

-----------------------------------------------------------------------------
(* The least of a set of positions, and the half of a word.                  *)

\* A set of numbers has a least one.
LEMMA Least ==
  ASSUME NEW S \in SUBSET Nat, S # {}
  PROVE  \E k \in S : \A l \in S : k <= l
<1> DEFINE R == OpToRel(<, Nat)
<1>1. PICK k \in S : \A l \in S : <<l, k>> \notin R
  <2>1. IsWellFoundedOn(R, Nat)
    BY NatLessThanWellFounded
  <2> HIDE DEF R
  <2> QED BY <2>1, WFMin
<1>2. ASSUME NEW l \in S, ~(k <= l) PROVE FALSE
  <2>1. l \in Nat /\ k \in Nat /\ l < k
    BY <1>2
  <2>2. <<l, k>> \in R
    BY <2>1 DEF OpToRel
  <2> QED BY <1>1, <2>2
<1> QED BY <1>2

-----------------------------------------------------------------------------
(* Recursive functions and powers.                                           *)

\* Induction up to n, for a set.
LEMMA Climb ==
  ASSUME NEW n \in Nat, NEW S, 0 \in S, \A k \in 1..n : k - 1 \in S => k \in S
  PROVE  \A k \in 0..n : k \in S
<1> DEFINE Rest == {k \in 0..n : k \notin S}
<1>1. ASSUME Rest # {} PROVE FALSE
  <2>1. PICK k \in Rest : \A l \in Rest : k <= l
    <3>1. Rest \in SUBSET Nat
      OBVIOUS
    <3> HIDE DEF Rest
    <3> QED BY <1>1, <3>1, Least
  <2>2. k \in 1..n /\ k - 1 \in 0..n /\ k - 1 \notin Rest
    BY <2>1
  <2> QED BY <2>1, <2>2
<1> QED BY <1>1

\* The function f takes n steps in T, from base on.
Takes(f, T, base, n, step) ==
  f \in [0..n -> T] /\ f[0] = base /\ \A k \in 1..n : f[k] = step[k][f[k - 1]]

\* Steps from T to T can be taken one after the other.
LEMMA Recursion ==
  ASSUME NEW T, NEW base \in T, NEW n \in Nat, NEW step \in [1..n -> [T -> T]]
  PROVE  \E f : Takes(f, T, base, n, step)
<1> DEFINE Upto(m, f) == f[0] = base /\ \A k \in 1..m : f[k] = step[k][f[k - 1]]
           S == {m \in 0..n : \E f \in [0..m -> T] : Upto(m, f)}
<1>1. 0 \in S
  <2> DEFINE f == [k \in 0..0 |-> base]
  <2>1. f \in [0..0 -> T] /\ f[0] = base /\ 1..0 = {}
    OBVIOUS
  <2> HIDE DEF f
  <2> QED BY <2>1
<1>2. ASSUME NEW m \in 1..n, m - 1 \in S PROVE m \in S
  <2>1. PICK f \in [0..(m - 1) -> T] : Upto(m - 1, f)
    BY <1>2
  <2> DEFINE g == [k \in 0..m |-> IF k = m THEN step[m][f[m - 1]] ELSE f[k]]
  <2>2. f[m - 1] \in T /\ step[m][f[m - 1]] \in T
    OBVIOUS
  <2>3. g \in [0..m -> T] /\ g[m] = step[m][f[m - 1]] /\ \A k \in 0..(m - 1) : g[k] = f[k]
    BY <2>2
  <2> HIDE DEF g
  <2>4. \A k \in 1..m : k = m \/ (k \in 1..(m - 1) /\ k \in 0..(m - 1) /\ k - 1 \in 0..(m - 1))
    OBVIOUS
  <2>5. 0 \in 0..(m - 1) /\ m - 1 \in 0..(m - 1)
    OBVIOUS
  <2>6. \A k \in 1..m : g[k] = step[k][g[k - 1]]
    BY <2>1, <2>3, <2>4, <2>5
  <2> QED BY <2>1, <2>3, <2>5, <2>6
<1>3. n \in S
  <2> HIDE DEF S
  <2>1. \A k \in 0..n : k \in S
    BY <1>1, <1>2, Climb
  <2> QED BY <2>1
<1> QED BY <1>3 DEF Takes

\* The powers are what their definition says, and numbers.
LEMMA PowerType ==
  /\ Wide \in Nat /\ Wide > 0 /\ Radix \in Nat /\ Radix > 1
  /\ Power[0] = 1
  /\ \A n \in 1..Wide : Power[n] = Radix * Power[n - 1]
  /\ \A n \in 0..Wide : Power[n] \in Nat \ {0}
<1>1. Wide \in Nat /\ Wide > 0 /\ Radix \in Nat /\ Radix > 1
  BY WidthAssumption
<1> DEFINE T == Nat \ {0}
           step == [k \in 1..Wide |-> [t \in T |-> Radix * t]]
           Is(f) == f = [n \in 0..Wide |-> IF n = 0 THEN 1 ELSE Radix * f[n - 1]]
<1>2. PICK f : Takes(f, T, 1, Wide, step)
  <2>1. \A t \in T : Radix * t \in T
    BY <1>1, SMT
  <2>2. step \in [1..Wide -> [T -> T]] /\ 1 \in T
    BY <2>1
  <2>3. Wide \in Nat
    BY <1>1
  <2> HIDE DEF step, T
  <2> QED BY <2>2, <2>3, Recursion, Zenon
<1>3. f \in [0..Wide -> T] /\ f[0] = 1 /\ \A k \in 1..Wide : f[k] = step[k][f[k - 1]]
  BY <1>2 DEF Takes
<1>4. \A k \in 1..Wide : f[k] = Radix * f[k - 1] /\ k \in 0..Wide /\ k - 1 \in 0..Wide
  <2>1. \A k \in 1..Wide : f[k - 1] \in T
    BY <1>1, <1>3
  <2>2. \A k \in 1..Wide : step[k][f[k - 1]] = Radix * f[k - 1]
    BY <2>1
  <2>3. \A k \in 1..Wide : k \in 0..Wide /\ k - 1 \in 0..Wide
    BY <1>1
  <2> QED BY <1>3, <2>2, <2>3, Zenon
<1>5. Is(f)
  <2>1. ASSUME NEW n \in 0..Wide PROVE f[n] = IF n = 0 THEN 1 ELSE Radix * f[n - 1]
    <3>1. n = 0 \/ n \in 1..Wide
      BY <1>1
    <3> QED BY <1>4, <1>3, <3>1
  <2>2. f = [n \in 0..Wide |-> f[n]]
    BY <1>3
  <2> QED BY <2>1, <2>2, Zenon
<1>6. Is(Power)
  <2>1. Power = CHOOSE h : Is(h)
    BY Zenon DEF Power
  <2> HIDE DEF Is
  <2> QED BY <1>5, <2>1, Zenon
<1>7. /\ Power[0] = 1 /\ \A n \in 1..Wide : Power[n] = Radix * Power[n - 1]
      /\ DOMAIN Power = 0..Wide
  <2>1. \A n \in 0..Wide : Power[n] = IF n = 0 THEN 1 ELSE Radix * Power[n - 1]
    BY <1>6, Zenon
  <2>2. DOMAIN Power = 0..Wide
    BY <1>6, Zenon
  <2>3. 0 \in 0..Wide /\ \A n \in 1..Wide : n \in 0..Wide /\ n # 0
    BY <1>1
  <2> QED BY <2>1, <2>2, <2>3, Zenon
<1>8. \A n \in 0..Wide : Power[n] \in T
  <2> DEFINE S == {n \in 0..Wide : Power[n] \in T}
  <2>1. 0 \in S
    BY <1>1, <1>7
  <2>2. ASSUME NEW n \in 1..Wide, n - 1 \in S PROVE n \in S
    <3>1. Power[n] = Radix * Power[n - 1] /\ Power[n - 1] \in T
      BY <1>7, <2>2
    <3>2. \A t \in T : Radix * t \in T
      BY <1>1, SMT
    <3> QED BY <3>1, <3>2
  <2>3. \A n \in 0..Wide : n \in S
    <3> HIDE DEF S
    <3> QED BY <1>1, <2>1, <2>2, Climb
  <2> QED BY <2>3
<1> QED BY <1>1, <1>7, <1>8

\* A word is two halves.
LEMMA HalfType == Half \in Nat \ {0} /\ Word \in Nat \ {0} /\ Word = 2 * Half
<1>1. Wide \in 1..Wide /\ Wide - 1 \in 0..Wide /\ Wide \in 0..Wide
  BY PowerType
<1>2. Word = Radix * Power[Wide - 1] /\ Word \in Nat \ {0} /\ Power[Wide - 1] \in Nat
  BY <1>1, PowerType DEF Word
<1>3. PICK r \in Nat : Radix = 2 * r
  <2>1. Radix = 2 * (Radix \div 2) /\ Radix \div 2 \in Nat
    BY WidthAssumption
  <2> QED BY <2>1
<1>4. Word = 2 * (r * Power[Wide - 1])
  BY <1>2, <1>3, SMT
<1>5. \A p \in Nat : r * p \in Nat
  BY SMT
<1>6. PICK h \in Nat : Word = 2 * h
  BY <1>2, <1>4, <1>5
<1> QED BY <1>2, <1>6 DEF Half

-----------------------------------------------------------------------------
(* The order of byte strings.                                                *)

\* The byte strings a and b differ at k, and not before.
Split(a, b, k) ==
  k \in DOMAIN a /\ k \in DOMAIN b /\ a[k] # b[k] /\ \A l \in 1 .. (k - 1) : a[l] = b[l]

\* One of a and b is the beginning of the other.
Agree(a, b) == \A k \in DOMAIN a \cap DOMAIN b : a[k] = b[k]

\* Two byte strings agree as far as both go, or have a first difference.
LEMMA AgreeOrSplit ==
  ASSUME NEW a \in Seq(Int), NEW b \in Seq(Int), ~Agree(a, b)
  PROVE  \E k \in Nat : Split(a, b, k)
<1> DEFINE D == {k \in DOMAIN a \cap DOMAIN b : a[k] # b[k]}
<1>1. D \in SUBSET Nat /\ D # {} /\ DOMAIN a = 1..Len(a) /\ DOMAIN b = 1..Len(b)
  BY DEF Agree
<1>2. PICK k \in D : \A l \in D : k <= l
  <2> HIDE DEF D
  <2> QED BY <1>1, Least
<1>3. \A l \in 1 .. (k - 1) : l \in DOMAIN a \cap DOMAIN b /\ ~(k <= l)
  BY <1>1, <1>2, SMTT(30)
<1> QED BY <1>1, <1>2, <1>3 DEF Split

\* Where they agree, memcmp is zero and the lengths decide.
LEMMA CompareAgree ==
  ASSUME NEW a, NEW b, Agree(a, b)
  PROVE  CompareBlobs(a, b) = Len(a) - Len(b)
BY DEF Agree, CompareBlobs

\* Where they differ, the first difference decides.
LEMMA CompareSplit ==
  ASSUME NEW a \in Seq(Int), NEW b \in Seq(Int), NEW k \in Nat, Split(a, b, k)
  PROVE  CompareBlobs(a, b) = a[k] - b[k]
<1> DEFINE D == {l \in DOMAIN a \cap DOMAIN b : a[l] # b[l]}
           first == CHOOSE l \in D : \A m \in D : l <= m
<1>1. k \in D /\ D \subseteq Nat /\ DOMAIN a = 1..Len(a)
  BY DEF Split
<1>2. \A m \in D : k <= m
  BY <1>1 DEF Split
<1>3. \A l \in D : (\A m \in D : l <= m) => l = k
  <2> SUFFICES ASSUME NEW l \in D, \A m \in D : l <= m PROVE l = k
    OBVIOUS
  <2>1. l <= k /\ k <= l /\ l \in Nat
    BY <1>1, <1>2
  <2> QED BY <2>1
<1>4. first = k
  <2> HIDE DEF D
  <2>1. first \in D /\ \A m \in D : first <= m
    BY <1>1, <1>2
  <2> QED BY <1>3, <2>1
<1> QED BY <1>1, <1>4 DEF CompareBlobs

\* Both, as what the sign says.
LEMMA CompareCases ==
  ASSUME NEW a \in Seq(Int), NEW b \in Seq(Int)
  PROVE  /\ CompareBlobs(a, b) \in Int
         /\ CompareBlobs(b, a) = 0 - CompareBlobs(a, b)
         /\ CompareBlobs(a, b) = 0 <=> a = b
<1>0. DOMAIN a = 1..Len(a) /\ DOMAIN b = 1..Len(b) /\ Len(a) \in Nat /\ Len(b) \in Nat
  OBVIOUS
<1>1. CASE Agree(a, b)
  <2>1. Agree(b, a)
    BY <1>1 DEF Agree
  <2>2. CompareBlobs(a, b) = Len(a) - Len(b) /\ CompareBlobs(b, a) = Len(b) - Len(a)
    BY <1>1, <2>1, CompareAgree
  <2>3. ASSUME Len(a) = Len(b) PROVE a = b
    <3>1. \A k \in 1..Len(a) : a[k] = b[k]
      BY <1>0, <1>1, <2>3 DEF Agree
    <3> QED BY <2>3, <3>1, SeqEqual
  <2>4. CompareBlobs(a, b) = 0 <=> Len(a) = Len(b)
    BY <1>0, <2>2
  <2>5. CompareBlobs(a, b) \in Int /\ CompareBlobs(b, a) = 0 - CompareBlobs(a, b)
    <3> PICK m \in Nat, n \in Nat : m = Len(a) /\ n = Len(b)
      BY <1>0
    <3>1. CompareBlobs(a, b) = m - n /\ CompareBlobs(b, a) = n - m
      BY <2>2
    <3> QED BY <3>1
  <2> QED BY <2>3, <2>4, <2>5
<1>2. ASSUME NEW k \in Nat, Split(a, b, k)
      PROVE  /\ CompareBlobs(a, b) \in Int
             /\ CompareBlobs(b, a) = 0 - CompareBlobs(a, b)
             /\ CompareBlobs(a, b) = 0 <=> a = b
  <2>1. Split(b, a, k)
    BY <1>2 DEF Split
  <2>2. CompareBlobs(a, b) = a[k] - b[k] /\ CompareBlobs(b, a) = b[k] - a[k]
    BY <1>2, <2>1, CompareSplit
  <2>3. a[k] \in Int /\ b[k] \in Int /\ a[k] # b[k]
    BY <1>2 DEF Split
  <2> QED BY <2>2, <2>3, SMTT(30)
<1> QED BY <1>1, <1>2, AgreeOrSplit

\* memcmp with the lengths is transitive.
LEMMA CompareTransitive ==
  ASSUME NEW a \in Seq(Int), NEW b \in Seq(Int), NEW c \in Seq(Int),
         CompareBlobs(a, b) <= 0, CompareBlobs(b, c) <= 0
  PROVE  CompareBlobs(a, c) <= 0
<1>0. /\ DOMAIN a = 1..Len(a) /\ DOMAIN b = 1..Len(b) /\ DOMAIN c = 1..Len(c)
      /\ Len(a) \in Nat /\ Len(b) \in Nat /\ Len(c) \in Nat
      /\ \A k \in DOMAIN a : a[k] \in Int
      /\ \A k \in DOMAIN b : b[k] \in Int
      /\ \A k \in DOMAIN c : c[k] \in Int
  OBVIOUS
<1>1. CASE Agree(a, b) /\ Agree(b, c)
  <2>1. Len(a) <= Len(b) /\ Len(b) <= Len(c)
    BY <1>0, <1>1, CompareAgree
  <2>2. Agree(a, c)
    BY <1>0, <1>1, <2>1, SMTT(30) DEF Agree
  <2> QED BY <1>0, <2>1, <2>2, CompareAgree
<1>2. ASSUME Agree(a, b), NEW k \in Nat, Split(b, c, k) PROVE CompareBlobs(a, c) <= 0
  <2>1. Len(a) <= Len(b)
    BY <1>0, <1>2, CompareAgree
  <2>2. CompareBlobs(b, c) = b[k] - c[k]
    BY <1>2, CompareSplit
  <2>3. k \in DOMAIN b /\ k \in DOMAIN c /\ b[k] < c[k] /\ \A l \in 1 .. (k - 1) : b[l] = c[l]
    BY <1>0, <1>2, <2>2 DEF Split
  <2>4. CASE k <= Len(a)
    <3>1. k \in DOMAIN a /\ a[k] = b[k] /\ \A l \in 1 .. (k - 1) : a[l] = b[l]
      <4>1. \A l \in 1 .. k : l \in DOMAIN a \cap DOMAIN b
        BY <1>0, <2>3, <2>4
      <4>2. \A l \in 1 .. k : a[l] = b[l]
        BY <1>2, <4>1 DEF Agree
      <4>3. k \in 1 .. k /\ \A l \in 1 .. (k - 1) : l \in 1 .. k
        BY <1>0, <2>3
      <4> QED BY <4>1, <4>2, <4>3
    <3>2. Split(a, c, k)
      BY <1>0, <2>3, <3>1 DEF Split
    <3>3. CompareBlobs(a, c) = a[k] - c[k]
      BY <3>2, CompareSplit
    <3> QED BY <1>0, <2>3, <3>1, <3>3
  <2>5. CASE ~(k <= Len(a))
    <3>1. Agree(a, c)
      BY <1>0, <1>2, <2>1, <2>3, <2>5 DEF Agree
    <3>2. Len(a) <= Len(c)
      BY <1>0, <2>3, <2>5
    <3> QED BY <1>0, <3>1, <3>2, CompareAgree
  <2> QED BY <2>4, <2>5
<1>3. ASSUME NEW k \in Nat, Split(a, b, k), Agree(b, c) PROVE CompareBlobs(a, c) <= 0
  <2>1. Len(b) <= Len(c)
    BY <1>0, <1>3, CompareAgree
  <2>2. CompareBlobs(a, b) = a[k] - b[k]
    BY <1>3, CompareSplit
  <2>3. k \in DOMAIN a /\ k \in DOMAIN b /\ a[k] < b[k] /\ \A l \in 1 .. (k - 1) : a[l] = b[l]
    BY <1>0, <1>3, <2>2 DEF Split
  <2>4. k \in DOMAIN c /\ b[k] = c[k] /\ \A l \in 1 .. (k - 1) : b[l] = c[l]
    <3>1. \A l \in 1 .. k : l \in DOMAIN b \cap DOMAIN c
      BY <1>0, <2>1, <2>3, SMTT(30)
    <3>2. \A l \in 1 .. k : b[l] = c[l]
      BY <1>3, <3>1 DEF Agree
    <3>3. k \in 1 .. k /\ \A l \in 1 .. (k - 1) : l \in 1 .. k
      BY <1>0, <2>3
    <3> QED BY <3>1, <3>2, <3>3
  <2>5. Split(a, c, k)
    BY <1>0, <2>3, <2>4 DEF Split
  <2>6. CompareBlobs(a, c) = a[k] - c[k]
    BY <2>5, CompareSplit
  <2> QED BY <1>0, <2>3, <2>4, <2>6
<1>4. ASSUME NEW k \in Nat, Split(a, b, k), NEW m \in Nat, Split(b, c, m)
      PROVE  CompareBlobs(a, c) <= 0
  <2>1. CompareBlobs(a, b) = a[k] - b[k] /\ CompareBlobs(b, c) = b[m] - c[m]
    BY <1>4, CompareSplit
  <2>2. k \in DOMAIN a /\ k \in DOMAIN b /\ a[k] < b[k] /\ \A l \in 1 .. (k - 1) : a[l] = b[l]
    BY <1>0, <1>4, <2>1, SMTT(30) DEF Split
  <2>3. m \in DOMAIN b /\ m \in DOMAIN c /\ b[m] < c[m] /\ \A l \in 1 .. (m - 1) : b[l] = c[l]
    BY <1>0, <1>4, <2>1, SMTT(30) DEF Split
  <2> DEFINE n == IF k <= m THEN k ELSE m
  <2>4. n \in DOMAIN a /\ n \in DOMAIN c /\ a[n] < c[n] /\ \A l \in 1 .. (n - 1) : a[l] = c[l]
    <3>1. CASE k < m
      <4>1. k \in DOMAIN c /\ b[k] = c[k]
        BY <1>0, <2>2, <2>3, <3>1
      <4> QED BY <1>0, <2>2, <2>3, <3>1, <4>1
    <3>2. CASE k = m
      BY <1>0, <2>2, <2>3, <3>2, SMTT(30)
    <3>3. CASE m < k
      <4>1. m \in DOMAIN a /\ a[m] = b[m]
        BY <1>0, <2>2, <2>3, <3>3
      <4> QED BY <1>0, <2>2, <2>3, <3>3, <4>1
    <3> QED BY <3>1, <3>2, <3>3
  <2>5. n \in Nat
    OBVIOUS
  <2> HIDE DEF n
  <2>6. Split(a, c, n)
    BY <1>0, <2>4 DEF Split
  <2>7. CompareBlobs(a, c) = a[n] - c[n]
    BY <2>5, <2>6, CompareSplit
  <2> QED BY <1>0, <2>4, <2>7
<1> QED BY <1>1, <1>2, <1>3, <1>4, AgreeOrSplit
-----------------------------------------------------------------------------
(* The order of values.                                                      *)

\* A text is compared up to its first zero, which is again a byte string.
LEMMA CStringType ==
  ASSUME NEW s \in Seq(Int)
  PROVE  CString(s) \in Seq(Int)
<1> DEFINE zeros == {k \in DOMAIN s : s[k] = 0}
           first == CHOOSE k \in zeros : \A l \in zeros : k <= l
<1>1. zeros \in SUBSET Nat /\ DOMAIN s = 1..Len(s) /\ Len(s) \in Nat
  OBVIOUS
<1>2. CASE zeros = {}
  BY <1>2 DEF CString
<1>3. CASE zeros # {}
  <2>1. first \in zeros
    <3>1. \E k \in zeros : \A l \in zeros : k <= l
      <4> HIDE DEF zeros
      <4> QED BY <1>1, <1>3, Least
    <3> HIDE DEF zeros
    <3> QED BY <3>1
  <2>2. CString(s) = SubSeq(s, 1, first - 1)
    BY <1>3 DEF CString
  <2>3. first - 1 \in Nat /\ first - 1 <= Len(s)
    BY <1>1, <2>1
  <2> HIDE DEF first, zeros
  <2> QED BY <1>1, <2>2, <2>3
<1> QED BY <1>2, <1>3

\* A value is of one type.
LEMMA ValueCases ==
  ASSUME NEW v \in Value
  PROVE  /\ v = <<v[1], v[2]>> /\ v[1] \in {INTEGER, FLOAT, TEXT, BLOB, NULL}
         /\ v[1] = INTEGER => v[2] \in Int
         /\ v[1] = FLOAT => v[2] \in Nat
         /\ v[1] \in {TEXT, BLOB} => v[2] \in Seq(Int)
         /\ v[1] = NULL => v = Nothing
<1>1. CASE v \in {INTEGER} \X (-Half .. Half - 1)
  BY <1>1, HalfType DEF INTEGER, FLOAT, TEXT, BLOB, NULL
<1>2. CASE v \in {FLOAT} \X (0 .. Word - 1)
  BY <1>2, HalfType DEF INTEGER, FLOAT, TEXT, BLOB, NULL
<1>3. CASE v \in {TEXT, BLOB} \X Seq(0 .. Radix - 1)
  <2>1. v = <<v[1], v[2]>> /\ v[1] \in {TEXT, BLOB} /\ v[2] \in Seq(0 .. Radix - 1)
    BY <1>3
  <2>2. 0 .. Radix - 1 \subseteq Int
    BY WidthAssumption
  <2>3. v[2] \in Seq(Int)
    BY <2>1, <2>2, SeqMonotonic
  <2> QED BY <2>1, <2>3 DEF INTEGER, FLOAT, TEXT, BLOB, NULL
<1>4. CASE v = Nothing
  BY <1>4 DEF Nothing, INTEGER, FLOAT, TEXT, BLOB, NULL
<1> QED BY <1>1, <1>2, <1>3, <1>4 DEF Value

\* dbutils_value_compare for two values of one type.
LEMMA CompareSame ==
  ASSUME NEW v \in Value, NEW w \in Value, v[1] = w[1]
  PROVE  /\ v[1] = INTEGER => Compare(v, w) = CompareNumbers(v[2], w[2])
         /\ v[1] = FLOAT => Compare(v, w) = CompareNumbers(AsNumber(v[2]), AsNumber(w[2]))
         /\ v[1] = TEXT => Compare(v, w) = CompareBlobs(CString(v[2]), CString(w[2]))
         /\ v[1] = BLOB => Compare(v, w) = CompareBlobs(v[2], w[2])
         /\ v[1] = NULL => Compare(v, w) = 0
BY DEF Compare, INTEGER, FLOAT, TEXT, BLOB, NULL

\* A double's pattern stands for a number, and only the two zeros for the same.
LEMMA AsNumberType ==
  ASSUME NEW f \in Nat, NEW g \in Nat
  PROVE  /\ AsNumber(f) \in Int
         /\ AsNumber(f) = AsNumber(g) <=> f = g \/ (Zero(f) /\ Zero(g))
BY HalfType DEF AsNumber, Zero

\* The comparison from the other side, and when it finds no difference.
LEMMA CompareMirrored ==
  ASSUME NEW v \in Value, NEW w \in Value
  PROVE  /\ Compare(v, w) \in Int
         /\ Compare(w, v) = 0 - Compare(v, w)
         /\ Compare(v, w) = 0 <=> Same(v, w)
<1>0. /\ v = <<v[1], v[2]>> /\ v[1] \in {INTEGER, FLOAT, TEXT, BLOB, NULL}
      /\ w = <<w[1], w[2]>> /\ w[1] \in {INTEGER, FLOAT, TEXT, BLOB, NULL}
  BY ValueCases
<1>1. CASE v[1] # w[1]
  <2>1. Compare(v, w) = w[1] - v[1] /\ Compare(w, v) = v[1] - w[1]
    BY <1>1 DEF Compare
  <2>2. ~Same(v, w)
    BY <1>1 DEF Same
  <2>3. v[1] \in Int /\ w[1] \in Int
    BY <1>0 DEF INTEGER, FLOAT, TEXT, BLOB, NULL
  <2>4. \A i, j \in Int : i # j => j - i \in Int /\ i - j = 0 - (j - i) /\ j - i # 0
    OBVIOUS
  <2>5. Compare(v, w) \in Int /\ Compare(w, v) = 0 - Compare(v, w) /\ Compare(v, w) # 0
    BY <1>1, <2>1, <2>3, <2>4, Zenon
  <2> QED BY <2>2, <2>5 DEF Same
<1>2. CASE v[1] = w[1] /\ v[1] = INTEGER
  <2>1. v[2] \in Int /\ w[2] \in Int
    BY <1>2, ValueCases
  <2>2. Compare(v, w) = CompareNumbers(v[2], w[2]) /\ Compare(w, v) = CompareNumbers(w[2], v[2])
    BY <1>2, CompareSame
  <2>3. Same(v, w) <=> v[2] = w[2]
    BY <1>0, <1>2 DEF Same, INTEGER, FLOAT, TEXT
  <2> PICK i \in Int, j \in Int : i = v[2] /\ j = w[2]
    BY <2>1
  <2>4. Compare(v, w) = CompareNumbers(i, j) /\ Compare(w, v) = CompareNumbers(j, i)
    BY <2>2
  <2>5. Same(v, w) <=> i = j
    BY <2>3
  <2> QED BY <2>4, <2>5 DEF CompareNumbers
<1>3. CASE v[1] = w[1] /\ v[1] = FLOAT
  <2>1. v[2] \in Nat /\ w[2] \in Nat
    BY <1>3, ValueCases
  <2>2. /\ Compare(v, w) = CompareNumbers(AsNumber(v[2]), AsNumber(w[2]))
        /\ Compare(w, v) = CompareNumbers(AsNumber(w[2]), AsNumber(v[2]))
    BY <1>3, CompareSame
  <2>3. Same(v, w) <=> v[2] = w[2] \/ (Zero(v[2]) /\ Zero(w[2]))
    BY <1>0, <1>3 DEF Same, FLOAT, TEXT
  <2>4. /\ AsNumber(v[2]) \in Int /\ AsNumber(w[2]) \in Int
        /\ AsNumber(v[2]) = AsNumber(w[2]) <=> v[2] = w[2] \/ (Zero(v[2]) /\ Zero(w[2]))
    BY <2>1, AsNumberType
  <2> PICK i \in Int, j \in Int : i = AsNumber(v[2]) /\ j = AsNumber(w[2])
    BY <2>4
  <2>5. Compare(v, w) = CompareNumbers(i, j) /\ Compare(w, v) = CompareNumbers(j, i)
    BY <2>2
  <2>6. Same(v, w) <=> i = j
    BY <2>3, <2>4
  <2> QED BY <2>5, <2>6 DEF CompareNumbers
<1>4. CASE v[1] = w[1] /\ v[1] = TEXT
  <2>1. CString(v[2]) \in Seq(Int) /\ CString(w[2]) \in Seq(Int)
    BY <1>4, ValueCases, CStringType
  <2>2. /\ Compare(v, w) = CompareBlobs(CString(v[2]), CString(w[2]))
        /\ Compare(w, v) = CompareBlobs(CString(w[2]), CString(v[2]))
    BY <1>4, CompareSame
  <2>3. Same(v, w) <=> CString(v[2]) = CString(w[2])
    BY <1>0, <1>4 DEF Same, TEXT, FLOAT
  <2> QED BY <2>1, <2>2, <2>3, CompareCases, ZenonT(40)
<1>5. CASE v[1] = w[1] /\ v[1] = BLOB
  <2>1. v[2] \in Seq(Int) /\ w[2] \in Seq(Int)
    BY <1>5, ValueCases
  <2>2. Compare(v, w) = CompareBlobs(v[2], w[2]) /\ Compare(w, v) = CompareBlobs(w[2], v[2])
    BY <1>5, CompareSame
  <2>3. Same(v, w) <=> v[2] = w[2]
    BY <1>0, <1>5 DEF Same, TEXT, FLOAT, BLOB
  <2> QED BY <2>1, <2>2, <2>3, CompareCases
<1>6. CASE v[1] = w[1] /\ v[1] = NULL
  <2>1. v = w /\ Same(v, w)
    BY <1>6, ValueCases DEF Same
  <2>2. Compare(v, w) = 0 /\ Compare(w, v) = 0
    BY <1>6, CompareSame
  <2> QED BY <2>1, <2>2
<1> QED BY <1>0, <1>1, <1>2, <1>3, <1>4, <1>5, <1>6

\* The order of numbers is transitive.
LEMMA NumbersTransitive ==
  ASSUME NEW i \in Int, NEW j \in Int, NEW k \in Int,
         CompareNumbers(i, j) <= 0, CompareNumbers(j, k) <= 0
  PROVE  CompareNumbers(i, k) <= 0
BY DEF CompareNumbers

\* The comparison of values is transitive, across the types.
LEMMA ValuesTransitive ==
  ASSUME NEW u \in Value, NEW v \in Value, NEW w \in Value,
         Compare(u, v) <= 0, Compare(v, w) <= 0
  PROVE  Compare(u, w) <= 0
<1>0. \A x \in Value : x[1] \in {INTEGER, FLOAT, TEXT, BLOB, NULL} /\ x[1] \in Int
  BY ValueCases DEF INTEGER, FLOAT, TEXT, BLOB, NULL
<1>1. CASE u[1] # v[1] \/ v[1] # w[1]
  <2>1. \A x, y \in Value : x[1] # y[1] => Compare(x, y) = y[1] - x[1]
    BY DEF Compare
  <2>2. v[1] <= u[1] /\ w[1] <= v[1]
    BY <1>0, <2>1
  <2>3. u[1] # w[1] /\ w[1] <= u[1]
    BY <1>0, <1>1, <2>2
  <2> QED BY <1>0, <2>1, <2>3
<1>2. CASE u[1] = v[1] /\ v[1] = w[1] /\ v[1] = INTEGER
  <2>1. u[2] \in Int /\ v[2] \in Int /\ w[2] \in Int
    BY <1>2, ValueCases
  <2>2. /\ Compare(u, v) = CompareNumbers(u[2], v[2]) /\ Compare(v, w) = CompareNumbers(v[2], w[2])
        /\ Compare(u, w) = CompareNumbers(u[2], w[2])
    BY <1>2, CompareSame
  <2> QED BY <2>1, <2>2, NumbersTransitive
<1>3. CASE u[1] = v[1] /\ v[1] = w[1] /\ v[1] = FLOAT
  <2>1. u[2] \in Nat /\ v[2] \in Nat /\ w[2] \in Nat
    BY <1>3, ValueCases
  <2>2. AsNumber(u[2]) \in Int /\ AsNumber(v[2]) \in Int /\ AsNumber(w[2]) \in Int
    BY <2>1, AsNumberType
  <2>3. /\ Compare(u, v) = CompareNumbers(AsNumber(u[2]), AsNumber(v[2]))
        /\ Compare(v, w) = CompareNumbers(AsNumber(v[2]), AsNumber(w[2]))
        /\ Compare(u, w) = CompareNumbers(AsNumber(u[2]), AsNumber(w[2]))
    BY <1>3, CompareSame
  <2> QED BY <2>2, <2>3, NumbersTransitive
<1>4. CASE u[1] = v[1] /\ v[1] = w[1] /\ v[1] = TEXT
  <2>1. CString(u[2]) \in Seq(Int) /\ CString(v[2]) \in Seq(Int) /\ CString(w[2]) \in Seq(Int)
    BY <1>4, ValueCases, CStringType
  <2>2. /\ Compare(u, v) = CompareBlobs(CString(u[2]), CString(v[2]))
        /\ Compare(v, w) = CompareBlobs(CString(v[2]), CString(w[2]))
        /\ Compare(u, w) = CompareBlobs(CString(u[2]), CString(w[2]))
    BY <1>4, CompareSame
  <2> QED BY <2>1, <2>2, CompareTransitive
<1>5. CASE u[1] = v[1] /\ v[1] = w[1] /\ v[1] = BLOB
  <2>1. u[2] \in Seq(Int) /\ v[2] \in Seq(Int) /\ w[2] \in Seq(Int)
    BY <1>5, ValueCases
  <2>2. /\ Compare(u, v) = CompareBlobs(u[2], v[2]) /\ Compare(v, w) = CompareBlobs(v[2], w[2])
        /\ Compare(u, w) = CompareBlobs(u[2], w[2])
    BY <1>5, CompareSame
  <2> QED BY <2>1, <2>2, CompareTransitive
<1>6. CASE u[1] = v[1] /\ v[1] = w[1] /\ v[1] = NULL
  <2>1. Compare(u, w) = 0
    BY <1>6, CompareSame
  <2> QED BY <2>1
<1> QED BY <1>0, <1>1, <1>2, <1>3, <1>4, <1>5, <1>6

-----------------------------------------------------------------------------
(* The size of a value.                                                      *)

\* The number of bytes of an integer is one of those there are.
LEMMA NBytesType == \A i : NBytes(i) \in Nat /\ NBytes(i) \in 1..Wide
<1> SUFFICES ASSUME NEW i PROVE NBytes(i) \in Nat /\ NBytes(i) \in 1..Wide
  OBVIOUS
<1> DEFINE S == {n \in 1..(Wide - 1) : 2 * i < Power[n]}
<1>0. Wide \in Nat \ {0} /\ S \in SUBSET Nat
  BY WidthAssumption
<1>1. CASE S = {}
  <2>1. NBytes(i) = Wide
    BY <1>1 DEF NBytes
  <2> QED BY <1>0, <2>1
<1>2. CASE S # {}
  <2>1. PICK n \in S : \A l \in S : n <= l
    <3> HIDE DEF S
    <3> QED BY <1>0, <1>2, Least
  <2>2. \A k \in 1..(n - 1) : ~(2 * i < Power[k])
    <3>1. \A k \in 1..(n - 1) : k \in 1..(Wide - 1) /\ ~(n <= k)
      BY <1>0, <2>1
    <3> QED BY <2>1, <3>1
  <2>3. \E m \in 1..(Wide - 1) : 2 * i < Power[m] /\ \A k \in 1..(m - 1) : ~(2 * i < Power[k])
    BY <2>1, <2>2
  <2>4. NBytes(i) \in 1..(Wide - 1)
    BY <2>1, <2>3, Zenon DEF NBytes
  <2> QED BY <1>0, <2>4
<1> QED BY <1>1, <1>2

\* One string after another is as long as both.
LEMMA JoinedLen ==
  ASSUME NEW S, NEW T, NEW a \in Seq(S), NEW b \in Seq(T)
  PROVE  a \o b \in Seq(S \cup T) /\ Len(a \o b) = Len(a) + Len(b)
<1>1. a \in Seq(S \cup T) /\ b \in Seq(S \cup T)
  BY SeqMonotonic
<1> QED BY <1>1, ConcatProperties

\* The string b has n bytes.
Bytes(b, n) == Len(b) = n /\ \E S : b \in Seq(S)

\* A function on 1..n is such a string.
LEMMA FunctionLen ==
  ASSUME NEW S, NEW n \in Nat, NEW b \in [1..n -> S]
  PROVE  b \in Seq(S) /\ Len(b) = n
<1>1. b \in Seq(S)
  BY SeqDef
<1>2. Len(b) \in Nat /\ 1..Len(b) = 1..n
  BY <1>1, LenProperties
<1> QED BY <1>1, <1>2

\* The digits are as many as were asked for.
LEMMA DigitsLen ==
  ASSUME NEW i, NEW n \in Nat
  PROVE  Bytes(Digits(i, n), n)
<1> DEFINE S == {Digits(i, n)[k] : k \in 1..n}
<1>1. Digits(i, n) \in [1..n -> S]
  BY DEF Digits
<1> HIDE DEF S
<1> QED BY <1>1, FunctionLen DEF Bytes

\* A leading byte alone, and with digits.
LEMMA HeadLen ==
  ASSUME NEW byte, NEW i, NEW n \in Nat
  PROVE  Bytes(<<byte>>, 1) /\ Bytes(<<byte>> \o Digits(i, n), 1 + n)
<1> PICK S : Digits(i, n) \in Seq(S)
  BY DigitsLen DEF Bytes
<1>1. <<byte>> \in Seq({byte}) /\ Len(<<byte>>) = 1
  OBVIOUS
<1>2. <<byte>> \o Digits(i, n) \in Seq({byte} \cup S)
      /\ Len(<<byte>> \o Digits(i, n)) = Len(<<byte>>) + Len(Digits(i, n))
  BY <1>1, JoinedLen
<1> QED BY <1>1, <1>2, DigitsLen DEF Bytes

-----------------------------------------------------------------------------
(* The digits of a number, read back.                                        *)

\* The string s is in b, from offset seek.
At(b, seek, s) == \A k \in 1..Len(s) : b[seek + k] = s[k]

\* Quotient and remainder are unique.
LEMMA Quotient ==
  ASSUME NEW m \in Nat \ {0}, NEW q \in Nat, NEW t \in 0..(m - 1)
  PROVE  (q * m + t) \div m = q
BY SMT

\* A quotient by q is that by r * q and one digit more.
LEMMA OneDigitMore ==
  ASSUME NEW i \in Nat, NEW q \in Nat \ {0}, NEW r \in Nat \ {0}
  PROVE  i \div q = (i \div (r * q)) * r + ((i \div q) % r)
<1> DEFINE a == i \div q
           t == i % q
           c == a \div r
           s == a % r
<1>1. a \in Nat /\ t \in 0..(q - 1) /\ i = a * q + t
  BY SMT
<1> HIDE DEF a, t
<1>2. c \in Nat /\ s \in 0..(r - 1) /\ a = c * r + s
  BY <1>1, SMT
<1> HIDE DEF c, s
<1>3. i = c * (r * q) + (s * q + t)
  <2>1. a * q = (c * r) * q + s * q
    BY <1>1, <1>2, SMT
  <2>2. (c * r) * q = c * (r * q)
    BY <1>1, <1>2, SMT
  <2>3. /\ a * q \in Nat /\ s * q \in Nat /\ c * (r * q) \in Nat
    BY <1>1, <1>2, SMT
  <2> QED BY <1>1, <2>1, <2>2, <2>3
<1>4. s * q + t \in 0..(r * q - 1) /\ r * q \in Nat \ {0}
  <2>1. (s + 1) * q <= r * q /\ (s + 1) * q = s * q + q
    BY <1>1, <1>2, SMT
  <2>2. s * q \in Nat /\ r * q \in Nat /\ r * q # 0
    BY <1>1, <1>2, SMT
  <2> QED BY <1>1, <2>1, <2>2
<1>5. i \div (r * q) = c
  <2> DEFINE m == r * q
             u == s * q + t
  <2>1. m \in Nat \ {0} /\ u \in 0..(m - 1) /\ i = c * m + u
    BY <1>3, <1>4
  <2> HIDE DEF m, u
  <2>2. i \div m = c
    BY <1>2, <2>1, Quotient
  <2> QED BY <2>2 DEF m
<1>6. a = c * r + s
  BY <1>2
<1> QED BY <1>5, <1>6 DEF a, s

\* pk_decode_int64 gives back the number whose n lowest bytes pk_encode_int64 wrote, if it
\* has no more.
LEMMA DigitsRead ==
  ASSUME NEW n \in 0..Wide, NEW i \in 0..(Power[n] - 1), NEW b, NEW seek \in Nat,
         At(b, seek, Digits(i, n))
  PROVE  Number(b, seek, n) = Wrap(i)
<1> DEFINE Is(f) == f = [k \in 0..n |-> IF k = 0 THEN 0 ELSE f[k - 1] * Radix + b[seek + k]]
           upto == CHOOSE f : Is(f)
           g == [k \in 0..n |-> i \div Power[n - k]]
<1>1. /\ n \in Nat /\ Radix \in Nat \ {0} /\ i \in Nat /\ i < Power[n]
      /\ \A k \in 0..n : n - k \in 0..n /\ Power[n - k] \in Nat \ {0}
      /\ \A k \in 1..n : Power[n - (k - 1)] = Radix * Power[n - k]
  <2>1. n \in Nat /\ Wide \in Nat /\ Radix \in Nat \ {0} /\ Power[n] \in Nat /\ n <= Wide
    BY PowerType
  <2>2. \A k \in 0..n : n - k \in 0..n /\ n - k \in 0..Wide
    BY <2>1
  <2>3. \A k \in 1..n : n - (k - 1) \in 1..Wide /\ (n - (k - 1)) - 1 = n - k
    BY <2>1
  <2>4. \A k \in 1..n : Power[n - (k - 1)] = Radix * Power[n - k]
    BY <2>3, PowerType
  <2>5. \A k \in 0..n : Power[n - k] \in Nat \ {0}
    BY <2>2, PowerType
  <2> QED BY <2>1, <2>2, <2>4, <2>5
<1>2. \A k \in 1..n : b[seek + k] = (i \div Power[n - k]) % Radix
  <2>1. Len(Digits(i, n)) = n
    BY <1>1, DigitsLen DEF Bytes
  <2>2. \A k \in 1..n : Digits(i, n)[k] = (i \div Power[n - k]) % Radix
    BY DEF Digits
  <2> QED BY <2>1, <2>2 DEF At
<1>3. Is(g)
  <2>1. ASSUME NEW k \in 0..n PROVE g[k] = IF k = 0 THEN 0 ELSE g[k - 1] * Radix + b[seek + k]
    <3>1. CASE k = 0
      <4>1. g[0] = i \div Power[n]
        BY <1>1
      <4>2. \A p \in Nat \ {0} : i < p => i \div p = 0
        BY <1>1, SMT
      <4>3. Power[n] \in Nat \ {0}
        BY <1>1, PowerType
      <4> QED BY <1>1, <3>1, <4>1, <4>2, <4>3
    <3>2. CASE k # 0
      <4>1. k \in 1..n /\ k - 1 \in 0..n
        BY <1>1, <3>2
      <4>2. g[k] = i \div Power[n - k] /\ g[k - 1] = i \div (Radix * Power[n - k])
        BY <1>1, <4>1
      <4>3. i \div Power[n - k]
              = (i \div (Radix * Power[n - k])) * Radix + ((i \div Power[n - k]) % Radix)
        BY <1>1, OneDigitMore
      <4> QED BY <1>2, <3>2, <4>1, <4>2, <4>3
    <3> QED BY <3>1, <3>2
  <2>2. g = [k \in 0..n |-> g[k]]
    OBVIOUS
  <2> HIDE DEF g
  <2> QED BY <2>1, <2>2, Zenon
<1> HIDE DEF g
<1>4. Is(upto)
  BY <1>3, Zenon
<1>5. Number(b, seek, n) = Wrap(upto[n])
  BY Zenon DEF Number
<1> HIDE DEF upto
<1>6. \A k \in 0..n : upto[k] = g[k]
  <2> DEFINE S == {k \in 0..n : upto[k] = g[k]}
  <2>0. /\ \A k \in 0..n : upto[k] = IF k = 0 THEN 0 ELSE upto[k - 1] * Radix + b[seek + k]
        /\ \A k \in 0..n : g[k] = IF k = 0 THEN 0 ELSE g[k - 1] * Radix + b[seek + k]
    BY <1>3, <1>4, Zenon
  <2> HIDE DEF Is
  <2>1. 0 \in S
    BY <1>1, <2>0
  <2>2. ASSUME NEW k \in 1..n, k - 1 \in S PROVE k \in S
    <3>1. k \in 0..n /\ k # 0
      BY <1>1
    <3> QED BY <2>0, <2>2, <3>1
  <2>3. \A k \in 0..n : k \in S
    <3> HIDE DEF S
    <3> QED BY <1>1, <2>1, <2>2, Climb
  <2> QED BY <2>3
<1>7. upto[n] = i
  <2>1. upto[n] = g[n]
    BY <1>1, <1>6
  <2>2. g[n] = i \div Power[0]
    BY <1>1 DEF g
  <2>3. Power[0] = 1
    BY PowerType
  <2> QED BY <1>1, <2>1, <2>2, <2>3
<1> QED BY <1>5, <1>7

\* The length of a string and the magnitude of an integer have no more than the bytes
\* pk_encode_nbytes_needed gives them.
LEMMA NBytesFits ==
  ASSUME NEW i \in 0..(Half - 1)
  PROVE  NBytes(i) \in 1..Wide /\ i < Power[NBytes(i)]
<1> DEFINE S == {n \in 1..(Wide - 1) : 2 * i < Power[n]}
<1>0. Wide \in Nat /\ Wide > 0 /\ S \in SUBSET Nat
  BY PowerType
<1>1. CASE S = {}
  <2>1. NBytes(i) = Wide
    BY <1>1 DEF NBytes
  <2>2. i < Power[Wide]
    BY HalfType DEF Word
  <2> QED BY <1>0, <2>1, <2>2
<1>2. CASE S # {}
  <2>1. PICK n \in S : \A l \in S : n <= l
    <3> HIDE DEF S
    <3> QED BY <1>0, <1>2, Least
  <2>2. \A k \in 1..(n - 1) : ~(2 * i < Power[k])
    <3>1. \A k \in 1..(n - 1) : k \in 1..(Wide - 1) /\ ~(n <= k)
      BY <1>0, <2>1
    <3> QED BY <2>1, <3>1
  <2>3. \E m \in 1..(Wide - 1) : 2 * i < Power[m] /\ \A k \in 1..(m - 1) : ~(2 * i < Power[k])
    BY <2>1, <2>2
  <2>4. NBytes(i) \in 1..(Wide - 1) /\ 2 * i < Power[NBytes(i)]
    BY <2>1, <2>3, Zenon DEF NBytes
  <2>5. NBytes(i) \in 1..Wide /\ Power[NBytes(i)] \in Nat
    <3>1. NBytes(i) \in 1..Wide /\ NBytes(i) \in 0..Wide
      BY <1>0, <2>4
    <3> QED BY <3>1, PowerType
  <2>6. 2 * i < Power[NBytes(i)] => i < Power[NBytes(i)]
    <3> PICK p \in Nat : p = Power[NBytes(i)]
      BY <2>5
    <3> QED BY HalfType
  <2> QED BY <2>4, <2>5, <2>6
<1> QED BY <1>1, <1>2

\* The leading byte says a value's type and its number of bytes.
LEMMA HeadRead ==
  ASSUME NEW type \in 0..7, NEW n \in Nat
  PROVE  /\ TypeByte(type, n) \in Nat
         /\ TypeByte(type, n) % 8 = type /\ TypeByte(type, n) \div 8 = n
BY SMT DEF TypeByte

\* An integer of one width is that in two's complement, and a pattern is the one it was.
LEMMA WrapKeeps ==
  /\ \A i \in -Half .. Half - 1 : Wrap(i) = i
  /\ \A f \in 0 .. Word - 1 : Wrap(f) % Word = f
<1> PICK h \in Nat \ {0} : Half = h /\ Word = 2 * h
  BY HalfType
<1>1. ASSUME NEW i \in -h .. h - 1 PROVE ((i + h) % (2 * h)) - h = i
  <2>1. i + h \in 0 .. (2 * h - 1)
    OBVIOUS
  <2>2. (i + h) % (2 * h) = i + h
    BY <2>1, SMT
  <2> QED BY <2>2
<1>2. ASSUME NEW f \in 0 .. (2 * h - 1) PROVE (((f + h) % (2 * h)) - h) % (2 * h) = f
  <2>1. CASE f < h
    <3>1. (f + h) % (2 * h) = f + h
      BY <2>1, SMT
    <3>2. f % (2 * h) = f
      BY SMT
    <3> QED BY <3>1, <3>2
  <2>2. CASE ~(f < h)
    <3>1. (f + h) % (2 * h) = f - h
      BY <2>2, SMT
    <3>2. (f - 2 * h) % (2 * h) = f
      BY <2>2, SMT
    <3> QED BY <3>1, <3>2
  <2> QED BY <2>1, <2>2
<1> QED BY <1>1, <1>2 DEF Wrap

\* Digits are numbers.
LEMMA DigitsType ==
  ASSUME NEW i \in Nat, NEW n \in 0..Wide
  PROVE  Digits(i, n) \in Seq(Nat) /\ Len(Digits(i, n)) = n
<1>1. n \in Nat /\ \A k \in 1..n : n - k \in 0..Wide
  BY PowerType
<1>2. \A k \in 1..n : Power[n - k] \in Nat \ {0}
  BY <1>1, PowerType
<1>3. \A p \in Nat \ {0} : (i \div p) % Radix \in Nat
  BY PowerType, SMT
<1>4. Digits(i, n) \in [1..n -> Nat]
  BY <1>2, <1>3 DEF Digits
<1> QED BY <1>1, <1>4, FunctionLen

\* Where a string of two parts is, the parts are.
LEMMA AtJoined ==
  ASSUME NEW b, NEW seek \in Nat, NEW s \in Seq(Nat), NEW t \in Seq(Nat), At(b, seek, s \o t)
  PROVE  At(b, seek, s) /\ At(b, seek + Len(s), t)
<1>1. /\ Len(s) \in Nat /\ Len(t) \in Nat /\ Len(s \o t) = Len(s) + Len(t)
      /\ \A i \in 1 .. Len(s) + Len(t) : (s \o t)[i] = IF i <= Len(s) THEN s[i] ELSE t[i - Len(s)]
  BY ConcatProperties
<1>2. ASSUME NEW k \in 1..Len(s) PROVE b[seek + k] = s[k]
  <2>1. k \in 1..Len(s \o t) /\ (s \o t)[k] = s[k]
    BY <1>1
  <2> QED BY <2>1 DEF At
<1>3. ASSUME NEW k \in 1..Len(t) PROVE b[seek + Len(s) + k] = t[k]
  <2>1. /\ Len(s) + k \in 1..Len(s \o t) /\ ~(Len(s) + k <= Len(s)) /\ Len(s) + k - Len(s) = k
        /\ seek + (Len(s) + k) = seek + Len(s) + k
    BY <1>1
  <2>2. (s \o t)[Len(s) + k] = t[k]
    BY <1>1, <2>1
  <2>3. b[seek + (Len(s) + k)] = (s \o t)[Len(s) + k]
    BY <2>1 DEF At
  <2> QED BY <2>1, <2>2, <2>3
<1> QED BY <1>2, <1>3 DEF At

\* A leading byte with digits behind it.
Prefix(type, n, i, d) == <<TypeByte(type, n)>> \o Digits(i, d)

\* They are read from b at seek.
Reads(b, seek, type, n, i, d) == b[seek + 1] = TypeByte(type, n) /\ Number(b, seek + 1, d) = Wrap(i)

\* They are where they are.
LEMMA HeadAt ==
  ASSUME NEW b, NEW seek \in Nat, NEW type \in 0..7, NEW n \in Nat, NEW d \in 0..Wide,
         NEW i \in 0..(Power[d] - 1), At(b, seek, Prefix(type, n, i, d))
  PROVE  Reads(b, seek, type, n, i, d)
<1>1. /\ <<TypeByte(type, n)>> \in Seq(Nat) /\ Len(<<TypeByte(type, n)>>) = 1
      /\ <<TypeByte(type, n)>>[1] = TypeByte(type, n)
  <2>1. TypeByte(type, n) \in Nat
    BY HeadRead
  <2>2. \A x \in Nat : <<x>> \in Seq(Nat) /\ Len(<<x>>) = 1 /\ <<x>>[1] = x
    OBVIOUS
  <2> QED BY <2>1, <2>2
<1>2. Digits(i, d) \in Seq(Nat)
  BY PowerType, DigitsType
<1>3. At(b, seek, <<TypeByte(type, n)>>) /\ At(b, seek + 1, Digits(i, d))
  BY <1>1, <1>2, AtJoined DEF Prefix
<1>4. b[seek + 1] = TypeByte(type, n)
  <2>1. 1 \in 1..1
    OBVIOUS
  <2> QED BY <1>1, <1>3, <2>1 DEF At
<1>5. Number(b, seek + 1, d) = Wrap(i)
  <2>1. seek + 1 \in Nat
    OBVIOUS
  <2> QED BY <1>3, <2>1, DigitsRead
<1> QED BY <1>4, <1>5 DEF Reads

-----------------------------------------------------------------------------
(* A value, read back.                                                       *)

\* Values as they are written: strings are of numbers, as the encoding of a key is,
\* and not longer than an integer can say.
Storable ==
  {v \in ({INTEGER} \X (-Half .. Half - 1)) \cup ({FLOAT} \X (0 .. Word - 1))
           \cup ({TEXT, BLOB} \X Seq(Nat)) \cup {Nothing} :
     v[1] \in {TEXT, BLOB} => Len(v[2]) < Half}

\* Such a value is of one type.
LEMMA StorableCases ==
  ASSUME NEW v \in Storable
  PROVE  /\ v[1] \in {INTEGER, FLOAT, TEXT, BLOB, NULL}
         /\ v[1] = NULL => v = Nothing
         /\ v[1] # NULL => v = <<v[1], v[2]>>
         /\ v[1] = INTEGER => v[2] \in -Half .. Half - 1
         /\ v[1] = FLOAT => v[2] \in 0 .. Word - 1
         /\ v[1] \in {TEXT, BLOB} => v[2] \in Seq(Nat) /\ Len(v[2]) \in 0 .. Half - 1
<1>1. Half \in Nat /\ Word \in Nat
  BY HalfType
<1>2. CASE v \in {INTEGER} \X (-Half .. Half - 1)
  BY <1>2 DEF INTEGER, FLOAT, TEXT, BLOB, NULL
<1>3. CASE v \in {FLOAT} \X (0 .. Word - 1)
  BY <1>3 DEF INTEGER, FLOAT, TEXT, BLOB, NULL
<1>4. CASE v \in {TEXT, BLOB} \X Seq(Nat)
  <2>1. v = <<v[1], v[2]>> /\ v[1] \in {TEXT, BLOB} /\ v[2] \in Seq(Nat) /\ Len(v[2]) < Half
    BY <1>4 DEF Storable
  <2>2. Len(v[2]) \in Nat
    BY <2>1
  <2>3. Len(v[2]) \in 0 .. Half - 1
    BY <1>1, <2>1, <2>2
  <2> QED BY <2>1, <2>3 DEF INTEGER, FLOAT, TEXT, BLOB, NULL
<1>5. CASE v = Nothing
  BY <1>5 DEF Nothing, INTEGER, FLOAT, TEXT, BLOB, NULL
<1> QED BY <1>2, <1>3, <1>4, <1>5 DEF Storable

\* What pk_encode writes for a value: a leading byte, digits, and the bytes of a string.
Written(v, type, n, d, i, data) ==
  /\ type \in 0..7 /\ n \in Nat /\ d \in 0..Wide /\ i \in Nat /\ i < Power[d] /\ data \in Seq(Nat)
  /\ EncodeValue(v) = (<<TypeByte(type, n)>> \o Digits(i, d)) \o data

\* A value without bytes of a string is written so, too.
LEMMA WrittenAlone ==
  ASSUME NEW v, NEW type \in 0..7, NEW n \in Nat, NEW d \in 0..Wide, NEW i \in Nat, i < Power[d],
         EncodeValue(v) = <<TypeByte(type, n)>> \o Digits(i, d)
  PROVE  Written(v, type, n, d, i, <<>>)
<1>1. <<TypeByte(type, n)>> \in Seq(Nat) /\ Digits(i, d) \in Seq(Nat) /\ <<>> \in Seq(Nat)
  <2>1. TypeByte(type, n) \in Nat
    BY HeadRead
  <2>2. \A x \in Nat : <<x>> \in Seq(Nat)
    OBVIOUS
  <2> QED BY <2>1, <2>2, DigitsType
<1>2. EncodeValue(v) \in Seq(Nat)
  BY <1>1, ConcatProperties
<1>3. EncodeValue(v) \o <<>> = EncodeValue(v)
  BY <1>2, ConcatEmptySeq
<1> QED BY <1>1, <1>3 DEF Written

\* A leading byte alone has no digits behind it.
LEMMA WrittenByte ==
  ASSUME NEW v, NEW type \in 0..7, EncodeValue(v) = <<TypeByte(type, 0)>>
  PROVE  Written(v, type, 0, 0, 0, <<>>)
<1>1. 0 \in 0..Wide /\ 0 < Power[0]
  BY PowerType
<1>2. Digits(0, 0) = <<>>
  <2>1. Digits(0, 0) \in Seq(Nat) /\ Len(Digits(0, 0)) = 0
    BY <1>1, DigitsType
  <2> QED BY <2>1, EmptySeq
<1>3. <<TypeByte(type, 0)>> \o <<>> = <<TypeByte(type, 0)>>
  <2>1. TypeByte(type, 0) \in Nat
    BY HeadRead
  <2>2. \A x \in Nat : <<x>> \in Seq(Nat)
    OBVIOUS
  <2> QED BY <2>1, <2>2, ConcatEmptySeq
<1> QED BY <1>1, <1>2, <1>3, WrittenAlone

\* It is numbers, as many as the parts have.
Measures(v, d, data) ==
  /\ EncodeValue(v) \in Seq(Nat) /\ Len(EncodeValue(v)) = 1 + d + Len(data)
  /\ Len(data) \in Nat /\ d \in Nat

\* What is written does.
LEMMA WrittenType ==
  ASSUME NEW v, NEW type, NEW n, NEW d, NEW i, NEW data, Written(v, type, n, d, i, data)
  PROVE  Measures(v, d, data)
<1> DEFINE head == <<TypeByte(type, n)>>
           digits == Digits(i, d)
<1>1. /\ type \in 0..7 /\ n \in Nat /\ d \in 0..Wide /\ i \in Nat /\ data \in Seq(Nat)
      /\ EncodeValue(v) = (head \o digits) \o data
  BY DEF Written
<1>2. head \in Seq(Nat) /\ Len(head) = 1
  <2>1. TypeByte(type, n) \in Nat
    BY <1>1, HeadRead
  <2>2. \A x \in Nat : <<x>> \in Seq(Nat) /\ Len(<<x>>) = 1
    OBVIOUS
  <2> QED BY <2>1, <2>2
<1>3. digits \in Seq(Nat) /\ Len(digits) = d /\ d \in Nat
  BY <1>1, DigitsType, PowerType
<1> HIDE DEF head, digits
<1>4. head \o digits \in Seq(Nat) /\ Len(head \o digits) = 1 + d
  <2>1. head \o digits \in Seq(Nat) /\ Len(head \o digits) = Len(head) + Len(digits)
    BY <1>2, <1>3, ConcatProperties, Zenon
  <2> QED BY <1>2, <1>3, <2>1
<1> DEFINE both == head \o digits
<1>5. (head \o digits) \o data \in Seq(Nat) /\ Len((head \o digits) \o data) = 1 + d + Len(data)
  <2>1. both \in Seq(Nat) /\ Len(both) = 1 + d /\ data \in Seq(Nat)
    BY <1>1, <1>4
  <2> HIDE DEF both
  <2>2. both \o data \in Seq(Nat) /\ Len(both \o data) = Len(both) + Len(data)
    BY <2>1, ConcatProperties, Zenon
  <2> QED BY <2>1, <2>2 DEF both
<1> QED BY <1>1, <1>3, <1>5 DEF Measures

\* The parts are read from b at seek.
ReadsParts(b, seek, type, n, d, i, data) ==
  /\ b[seek + 1] % 8 = type /\ b[seek + 1] \div 8 = n
  /\ Number(b, seek + 1, d) = Wrap(i)
  /\ SubSeq(b, seek + 1 + d + 1, seek + 1 + d + Len(data)) = data

\* They are where they were written.
LEMMA WrittenRead ==
  ASSUME NEW v, NEW type, NEW n, NEW d, NEW i, NEW data, Written(v, type, n, d, i, data),
         NEW b, NEW seek \in Nat, At(b, seek, EncodeValue(v))
  PROVE  ReadsParts(b, seek, type, n, d, i, data)
<1> DEFINE head == <<TypeByte(type, n)>> \o Digits(i, d)
<1>1. /\ type \in 0..7 /\ n \in Nat /\ d \in 0..Wide /\ i \in Nat /\ i < Power[d] /\ data \in Seq(Nat)
      /\ EncodeValue(v) = head \o data
  BY DEF Written
<1>2. head \in Seq(Nat) /\ Len(head) = 1 + d /\ d \in Nat
  <2>1. TypeByte(type, n) \in Nat
    BY <1>1, HeadRead
  <2>2. \A x \in Nat : <<x>> \in Seq(Nat) /\ Len(<<x>>) = 1
    OBVIOUS
  <2>3. Digits(i, d) \in Seq(Nat) /\ Len(Digits(i, d)) = d /\ d \in Nat
    BY <1>1, DigitsType, PowerType
  <2> QED BY <2>1, <2>2, <2>3, ConcatProperties
<1>3. At(b, seek, head) /\ At(b, seek + (1 + d), data)
  <2> HIDE DEF head
  <2>1. At(b, seek, head \o data) /\ head \in Seq(Nat) /\ data \in Seq(Nat)
    BY <1>1, <1>2
  <2>2. At(b, seek, head) /\ At(b, seek + Len(head), data)
    BY <2>1, AtJoined
  <2> QED BY <1>2, <2>2
<1>4. b[seek + 1] = TypeByte(type, n) /\ Number(b, seek + 1, d) = Wrap(i)
  <2>1. type \in 0..7 /\ n \in Nat /\ d \in 0..Wide /\ i \in 0..(Power[d] - 1)
    BY <1>1, PowerType
  <2>2. At(b, seek, Prefix(type, n, i, d))
    BY <1>3 DEF Prefix
  <2>3. Reads(b, seek, type, n, i, d)
    BY <2>1, <2>2, HeadAt, Zenon
  <2> QED BY <2>3 DEF Reads
<1>5. SubSeq(b, seek + 1 + d + 1, seek + 1 + d + Len(data)) = data
  <2> DEFINE lo == seek + 1 + d + 1
             hi == seek + 1 + d + Len(data)
             sub == SubSeq(b, lo, hi)
  <2>1. /\ Len(data) \in Nat /\ lo \in Int /\ hi \in Int /\ hi - lo + 1 = Len(data)
        /\ (IF lo <= hi THEN hi - lo + 1 ELSE 0) = Len(data)
    BY <1>1, <1>2
  <2>2. ASSUME NEW k \in 1..Len(data)
        PROVE  b[lo + k - 1] = data[k] /\ data[k] \in Nat
    <3>1. lo + k - 1 = seek + (1 + d) + k
      BY <1>1, <1>2, <2>1
    <3> QED BY <1>1, <1>3, <3>1 DEF At
  <2>3. \A j \in lo..hi : b[j] \in Nat
    <3> TAKE j \in lo..hi
    <3>1. j - lo + 1 \in 1..Len(data) /\ lo + (j - lo + 1) - 1 = j
      BY <2>1
    <3> QED BY <2>2, <3>1
  <2> HIDE DEF lo, hi
  <2>4. /\ sub \in Seq(Nat) /\ Len(sub) = Len(data)
        /\ \A k \in 1..Len(data) : sub[k] = b[lo + k - 1]
    BY <2>1, <2>3, SubSeqProperties
  <2> HIDE DEF sub
  <2>5. sub = data
    BY <1>1, <2>2, <2>4, SeqEqual
  <2> QED BY <2>5 DEF sub, lo, hi
<1>6. b[seek + 1] % 8 = type /\ b[seek + 1] \div 8 = n
  BY <1>1, <1>4, HeadRead
<1> QED BY <1>4, <1>5, <1>6 DEF ReadsParts

\* What is written for a value of each type.
LEMMA ValueWritten ==
  ASSUME NEW v \in Storable
  PROVE  \/ v = <<INTEGER, -Half>> /\ Written(v, MinInt, 0, 0, 0, <<>>)
         \/ \E i \in 0 .. Half - 1, n \in Nat :
              v = <<INTEGER, i>> /\ Written(v, INTEGER, n, n, i, <<>>)
         \/ \E i \in 0 .. Half - 1, n \in Nat :
              v = <<INTEGER, -i>> /\ Written(v, NegInt, n, n, i, <<>>)
         \/ \E f \in 0 .. Word - 1 : v = <<FLOAT, f>> /\ Written(v, FLOAT, 0, Wide, f, <<>>)
         \/ \E f \in 0 .. Word - 1 :
              v = <<FLOAT, Negated(f)>> /\ Written(v, NegFloat, 0, Wide, f, <<>>)
         \/ v = Nothing /\ Written(v, NULL, 0, 0, 0, <<>>)
         \/ \E type \in {TEXT, BLOB}, data \in Seq(Nat), n \in Nat :
              /\ v = <<type, data>> /\ Len(data) \in 0 .. Half - 1
              /\ Written(v, type, n, n, Len(data), data)
<1>0. /\ Half \in Nat \ {0} /\ Word = 2 * Half /\ Wide \in Nat /\ Wide \in 0..Wide
      /\ \A i \in 0 .. Half - 1 : NBytes(i) \in 0..Wide /\ NBytes(i) \in Nat /\ i < Power[NBytes(i)]
  BY HalfType, PowerType, NBytesFits
<1>1. CASE v[1] = INTEGER
  <2>1. v = <<INTEGER, v[2]>> /\ v[2] \in -Half .. Half - 1 /\ EncodeValue(v) = EncodeInt(v[2])
    BY <1>1, StorableCases DEF EncodeValue, INTEGER, FLOAT, TEXT, BLOB, NULL
  <2>2. CASE v[2] = -Half
    <3>1. EncodeValue(v) = <<TypeByte(MinInt, 0)>> /\ MinInt \in 0..7
      BY <2>1, <2>2 DEF EncodeInt, MinInt
    <3>2. Written(v, MinInt, 0, 0, 0, <<>>)
      BY <3>1, WrittenByte
    <3> QED BY <2>1, <2>2, <3>2
  <2>3. CASE v[2] # -Half /\ v[2] >= 0
    <3> DEFINE i == v[2]
               n == NBytes(i)
    <3>1. i \in 0 .. Half - 1 /\ ~(i < 0)
      BY <1>0, <2>1, <2>3
    <3>2. EncodeValue(v) = <<TypeByte(INTEGER, n)>> \o Digits(i, n)
      BY <2>1, <2>3, <3>1 DEF EncodeInt
    <3>3. n \in 0..Wide /\ n \in Nat /\ i < Power[n] /\ i \in Nat /\ INTEGER \in 0..7
      BY <1>0, <3>1 DEF INTEGER
    <3>4. v = <<INTEGER, i>>
      BY <2>1
    <3> HIDE DEF i, n
    <3>5. Written(v, INTEGER, n, n, i, <<>>)
      BY <3>2, <3>3, WrittenAlone
    <3> QED BY <3>1, <3>3, <3>4, <3>5
  <2>4. CASE v[2] # -Half /\ v[2] < 0
    <3> DEFINE i == -v[2]
               n == NBytes(i)
    <3>1. i \in 0 .. Half - 1 /\ v[2] = -i
      BY <1>0, <2>1, <2>4
    <3>2. EncodeValue(v) = <<TypeByte(NegInt, n)>> \o Digits(i, n)
      BY <2>1, <2>4 DEF EncodeInt
    <3>3. n \in 0..Wide /\ n \in Nat /\ i < Power[n] /\ i \in Nat /\ NegInt \in 0..7
      BY <1>0, <3>1 DEF NegInt
    <3>4. v = <<INTEGER, -i>>
      BY <2>1, <3>1
    <3> HIDE DEF i, n
    <3>5. Written(v, NegInt, n, n, i, <<>>)
      BY <3>2, <3>3, WrittenAlone
    <3> QED BY <3>1, <3>3, <3>4, <3>5
  <2>5. v[2] >= 0 \/ v[2] < 0
    BY <1>0, <2>1
  <2> QED BY <2>2, <2>3, <2>4, <2>5
<1>2. CASE v[1] = FLOAT
  <2>1. v = <<FLOAT, v[2]>> /\ v[2] \in 0 .. Word - 1 /\ EncodeValue(v) = EncodeFloat(v[2])
    BY <1>2, StorableCases DEF EncodeValue, INTEGER, FLOAT, TEXT, BLOB, NULL
  <2>2. \A f \in 0 .. Word - 1 : f < Power[Wide] /\ f \in Nat
    BY <1>0 DEF Word
  <2>3. CASE Negative(v[2])
    <3> DEFINE f == Negated(v[2])
    <3>1. f \in 0 .. Word - 1 /\ v[2] = Negated(f)
      <4> PICK h \in Nat \ {0}, g \in Nat : h = Half /\ g = v[2]
        BY <1>0, <2>1
      <4>1. g > h /\ g < 2 * h /\ Word = 2 * h
        BY <1>0, <2>1, <2>3 DEF Negative
      <4>2. (g + h) % (2 * h) = g - h
        BY <4>1, SMT
      <4>3. ((g - h) + h) % (2 * h) = g
        BY <4>1, SMT
      <4> QED BY <4>1, <4>2, <4>3 DEF Negated
    <3>2. EncodeValue(v) = <<TypeByte(NegFloat, 0)>> \o Digits(f, Wide) /\ NegFloat \in 0..7
      BY <2>1, <2>3 DEF EncodeFloat, NegFloat
    <3>3. v = <<FLOAT, Negated(f)>>
      BY <2>1, <3>1
    <3> HIDE DEF f
    <3>4. Written(v, NegFloat, 0, Wide, f, <<>>)
      BY <1>0, <2>2, <3>1, <3>2, WrittenAlone
    <3> QED BY <3>1, <3>3, <3>4
  <2>4. CASE ~Negative(v[2])
    <3> DEFINE f == v[2]
    <3>1. EncodeValue(v) = <<TypeByte(FLOAT, 0)>> \o Digits(f, Wide) /\ FLOAT \in 0..7
      BY <2>1, <2>4 DEF EncodeFloat, FLOAT
    <3>2. v = <<FLOAT, f>> /\ f \in 0 .. Word - 1
      BY <2>1
    <3> HIDE DEF f
    <3>3. Written(v, FLOAT, 0, Wide, f, <<>>)
      BY <1>0, <2>2, <3>1, <3>2, WrittenAlone
    <3> QED BY <3>2, <3>3
  <2> QED BY <2>3, <2>4
<1>3. CASE v[1] \in {TEXT, BLOB}
  <2> DEFINE type == v[1]
             data == v[2]
             len == Len(data)
             n == NBytes(len)
  <2>1. v = <<type, data>> /\ data \in Seq(Nat) /\ len \in 0 .. Half - 1
    BY <1>3, StorableCases DEF TEXT, BLOB, NULL
  <2>2. EncodeValue(v) = <<TypeByte(type, n)>> \o Digits(len, n) \o data
    <3>1. EncodeValue(v) = EncodeData(v[1], v[2])
      BY <1>3 DEF EncodeValue, INTEGER, FLOAT, TEXT, BLOB
    <3> QED BY <3>1 DEF EncodeData
  <2>3. n \in 0..Wide /\ n \in Nat /\ len < Power[n] /\ len \in Nat /\ type \in 0..7
    BY <1>0, <1>3, <2>1 DEF TEXT, BLOB
  <2>4. type \in {TEXT, BLOB}
    BY <1>3
  <2> HIDE DEF type, n
  <2>5. Written(v, type, n, n, Len(data), data)
    BY <2>1, <2>2, <2>3 DEF Written
  <2> QED BY <2>1, <2>3, <2>4, <2>5
<1>4. CASE v[1] = NULL
  <2>1. EncodeValue(v) = <<TypeByte(NULL, 0)>> /\ NULL \in 0..7
    BY <1>4 DEF EncodeValue, INTEGER, FLOAT, TEXT, BLOB, NULL
  <2>2. Written(v, NULL, 0, 0, 0, <<>>)
    BY <2>1, WrittenByte
  <2> QED BY <1>4, <2>2, StorableCases
<1> QED BY <1>1, <1>2, <1>3, <1>4, StorableCases

\* pk_decode by the type of a value.
LEMMA DecodeCases ==
  ASSUME NEW b, NEW seek
  PROVE  LET type == b[seek + 1] % 8
             n == b[seek + 1] \div 8
             i == Number(b, seek + 1, n)
             f == Number(b, seek + 1, Wide) % Word
             data == seek + 1 + n
         IN  /\ type = MinInt => DecodeValue(b, seek) = [v |-> <<INTEGER, -Half>>, seek |-> seek + 1]
             /\ type = INTEGER => DecodeValue(b, seek) = [v |-> <<INTEGER, i>>, seek |-> data]
             /\ type = NegInt => DecodeValue(b, seek) = [v |-> <<INTEGER, Wrap(-i)>>, seek |-> data]
             /\ type = FLOAT => DecodeValue(b, seek) = [v |-> <<FLOAT, f>>, seek |-> seek + 1 + Wide]
             /\ type = NegFloat =>
                  DecodeValue(b, seek) = [v |-> <<FLOAT, Negated(f)>>, seek |-> seek + 1 + Wide]
             /\ type = NULL => DecodeValue(b, seek) = [v |-> Nothing, seek |-> seek + 1]
             /\ type \in {TEXT, BLOB} =>
                  DecodeValue(b, seek)
                    = [v |-> <<type, SubSeq(b, data + 1, data + i)>>, seek |-> data + i]
<1> DEFINE type == b[seek + 1] % 8
           n == b[seek + 1] \div 8
           i == Number(b, seek + 1, n)
           f == Number(b, seek + 1, Wide) % Word
           data == seek + 1 + n
<1>1. DecodeValue(b, seek) =
        CASE type = MinInt   -> [v |-> <<INTEGER, -Half>>, seek |-> seek + 1]
          [] type = INTEGER  -> [v |-> <<INTEGER, i>>, seek |-> data]
          [] type = NegInt   -> [v |-> <<INTEGER, Wrap(-i)>>, seek |-> data]
          [] type = FLOAT    -> [v |-> <<FLOAT, f>>, seek |-> seek + 1 + Wide]
          [] type = NegFloat -> [v |-> <<FLOAT, Negated(f)>>, seek |-> seek + 1 + Wide]
          [] type = NULL     -> [v |-> Nothing, seek |-> seek + 1]
          [] OTHER           -> [v |-> <<type, SubSeq(b, data + 1, data + i)>>, seek |-> data + i]
  BY DEF DecodeValue
<1> HIDE DEF type, n, i, f, data
<1>2. /\ type = MinInt => DecodeValue(b, seek) = [v |-> <<INTEGER, -Half>>, seek |-> seek + 1]
      /\ type = INTEGER => DecodeValue(b, seek) = [v |-> <<INTEGER, i>>, seek |-> data]
      /\ type = NegInt => DecodeValue(b, seek) = [v |-> <<INTEGER, Wrap(-i)>>, seek |-> data]
      /\ type = FLOAT => DecodeValue(b, seek) = [v |-> <<FLOAT, f>>, seek |-> seek + 1 + Wide]
      /\ type = NegFloat =>
           DecodeValue(b, seek) = [v |-> <<FLOAT, Negated(f)>>, seek |-> seek + 1 + Wide]
      /\ type = NULL => DecodeValue(b, seek) = [v |-> Nothing, seek |-> seek + 1]
      /\ type \in {TEXT, BLOB} =>
           DecodeValue(b, seek) = [v |-> <<type, SubSeq(b, data + 1, data + i)>>, seek |-> data + i]
  BY <1>1 DEF MinInt, NegInt, NegFloat, INTEGER, FLOAT, TEXT, BLOB, NULL
<1> QED BY <1>2 DEF type, n, i, f, data

\* pk_decode reads any value where pk_encode wrote it, and goes to the byte behind it.
LEMMA ValueRead ==
  ASSUME NEW v \in Storable, NEW b, NEW seek \in Nat, At(b, seek, EncodeValue(v))
  PROVE  DecodeValue(b, seek) = [v |-> v, seek |-> seek + Len(EncodeValue(v))]
<1> DEFINE Result == DecodeValue(b, seek) = [v |-> v, seek |-> seek + Len(EncodeValue(v))]
           type == b[seek + 1] % 8
           n == b[seek + 1] \div 8
<1>0. /\ Half \in Nat \ {0} /\ Word = 2 * Half /\ Wide \in Nat /\ Len(<<>>) = 0
      /\ \A i \in 0 .. Half - 1 : i \in -Half .. Half - 1 /\ -i \in -Half .. Half - 1
  BY HalfType, PowerType
<1>1. CASE v = <<INTEGER, -Half>> /\ Written(v, MinInt, 0, 0, 0, <<>>)
  <2>1. type = MinInt /\ Len(EncodeValue(v)) = 1
    <3>1. ReadsParts(b, seek, MinInt, 0, 0, 0, <<>>)
      BY <1>1, WrittenRead, Zenon
    <3>2. type = MinInt
      BY <3>1 DEF ReadsParts
    <3>3. Measures(v, 0, <<>>)
      BY <1>1, WrittenType, Zenon
    <3> QED BY <1>0, <3>2, <3>3 DEF Measures
  <2>2. DecodeValue(b, seek) = [v |-> <<INTEGER, -Half>>, seek |-> seek + 1]
    BY <2>1, DecodeCases
  <2> QED BY <1>1, <2>1, <2>2
<1>2. ASSUME NEW i \in 0 .. Half - 1, NEW d \in Nat, v = <<INTEGER, i>>, Written(v, INTEGER, d, d, i, <<>>)
      PROVE  Result
  <2>1. type = INTEGER /\ n = d /\ Number(b, seek + 1, d) = Wrap(i) /\ Len(EncodeValue(v)) = 1 + d
    <3>1. ReadsParts(b, seek, INTEGER, d, d, i, <<>>)
      BY <1>2, WrittenRead, Zenon
    <3>2. Measures(v, d, <<>>)
      BY <1>2, WrittenType, Zenon
    <3> QED BY <1>0, <3>1, <3>2 DEF ReadsParts, Measures
  <2>2. DecodeValue(b, seek) = [v |-> <<INTEGER, Number(b, seek + 1, n)>>, seek |-> seek + 1 + n]
    BY <2>1, DecodeCases
  <2>3. Wrap(i) = i /\ seek + 1 + d = seek + (1 + d)
    BY <1>0, WrapKeeps
  <2> QED BY <1>2, <2>1, <2>2, <2>3
<1>3. ASSUME NEW i \in 0 .. Half - 1, NEW d \in Nat, v = <<INTEGER, -i>>, Written(v, NegInt, d, d, i, <<>>)
      PROVE  Result
  <2>1. type = NegInt /\ n = d /\ Number(b, seek + 1, d) = Wrap(i) /\ Len(EncodeValue(v)) = 1 + d
    <3>1. ReadsParts(b, seek, NegInt, d, d, i, <<>>)
      BY <1>3, WrittenRead, Zenon
    <3>2. Measures(v, d, <<>>)
      BY <1>3, WrittenType, Zenon
    <3> QED BY <1>0, <3>1, <3>2 DEF ReadsParts, Measures
  <2>2. DecodeValue(b, seek)
          = [v |-> <<INTEGER, Wrap(-Number(b, seek + 1, n))>>, seek |-> seek + 1 + n]
    BY <2>1, DecodeCases
  <2>3. Wrap(i) = i /\ Wrap(-i) = -i /\ seek + 1 + d = seek + (1 + d)
    BY <1>0, WrapKeeps
  <2> QED BY <1>3, <2>1, <2>2, <2>3
<1>4. ASSUME NEW f \in 0 .. Word - 1, v = <<FLOAT, f>>, Written(v, FLOAT, 0, Wide, f, <<>>)
      PROVE  Result
  <2>1. type = FLOAT /\ Number(b, seek + 1, Wide) = Wrap(f) /\ Len(EncodeValue(v)) = 1 + Wide
    <3>1. ReadsParts(b, seek, FLOAT, 0, Wide, f, <<>>)
      BY <1>4, WrittenRead, Zenon
    <3>2. Measures(v, Wide, <<>>)
      BY <1>4, WrittenType, Zenon
    <3> QED BY <1>0, <3>1, <3>2 DEF ReadsParts, Measures
  <2>2. DecodeValue(b, seek)
          = [v |-> <<FLOAT, Number(b, seek + 1, Wide) % Word>>, seek |-> seek + 1 + Wide]
    BY <2>1, DecodeCases
  <2>3. Wrap(f) % Word = f /\ seek + 1 + Wide = seek + (1 + Wide)
    BY <1>0, WrapKeeps
  <2> QED BY <1>4, <2>1, <2>2, <2>3
<1>5. ASSUME NEW f \in 0 .. Word - 1, v = <<FLOAT, Negated(f)>>, Written(v, NegFloat, 0, Wide, f, <<>>)
      PROVE  Result
  <2>1. type = NegFloat /\ Number(b, seek + 1, Wide) = Wrap(f) /\ Len(EncodeValue(v)) = 1 + Wide
    <3>1. ReadsParts(b, seek, NegFloat, 0, Wide, f, <<>>)
      BY <1>5, WrittenRead, Zenon
    <3>2. Measures(v, Wide, <<>>)
      BY <1>5, WrittenType, Zenon
    <3> QED BY <1>0, <3>1, <3>2 DEF ReadsParts, Measures
  <2>2. DecodeValue(b, seek)
          = [v |-> <<FLOAT, Negated(Number(b, seek + 1, Wide) % Word)>>, seek |-> seek + 1 + Wide]
    BY <2>1, DecodeCases
  <2>3. Wrap(f) % Word = f /\ seek + 1 + Wide = seek + (1 + Wide)
    BY <1>0, WrapKeeps
  <2> QED BY <1>5, <2>1, <2>2, <2>3
<1>6. CASE v = Nothing /\ Written(v, NULL, 0, 0, 0, <<>>)
  <2>1. type = NULL /\ Len(EncodeValue(v)) = 1
    <3>1. ReadsParts(b, seek, NULL, 0, 0, 0, <<>>)
      BY <1>6, WrittenRead, Zenon
    <3>2. type = NULL
      BY <3>1 DEF ReadsParts
    <3>3. Measures(v, 0, <<>>)
      BY <1>6, WrittenType, Zenon
    <3> QED BY <1>0, <3>2, <3>3 DEF Measures
  <2>2. DecodeValue(b, seek) = [v |-> Nothing, seek |-> seek + 1]
    BY <2>1, DecodeCases
  <2> QED BY <1>6, <2>1, <2>2
<1>7. ASSUME NEW t \in {TEXT, BLOB}, NEW data \in Seq(Nat), NEW d \in Nat, v = <<t, data>>,
             Len(data) \in 0 .. Half - 1, Written(v, t, d, d, Len(data), data)
      PROVE  Result
  <2>1. /\ type = t /\ n = d /\ Number(b, seek + 1, d) = Wrap(Len(data))
        /\ SubSeq(b, seek + 1 + d + 1, seek + 1 + d + Len(data)) = data
        /\ Len(EncodeValue(v)) = 1 + d + Len(data)
    <3>1. ReadsParts(b, seek, t, d, d, Len(data), data)
      BY <1>7, WrittenRead, Zenon
    <3>2. Measures(v, d, data)
      BY <1>7, WrittenType, Zenon
    <3> QED BY <1>0, <3>1, <3>2 DEF ReadsParts, Measures
  <2>2. DecodeValue(b, seek)
          = [v |-> <<t, SubSeq(b, seek + 1 + n + 1, seek + 1 + n + Number(b, seek + 1, n))>>,
             seek |-> seek + 1 + n + Number(b, seek + 1, n)]
    BY <2>1, DecodeCases
  <2>3. Wrap(Len(data)) = Len(data) /\ seek + 1 + d + Len(data) = seek + (1 + d + Len(data))
    BY <1>0, <1>7, WrapKeeps
  <2> QED BY <1>7, <2>1, <2>2, <2>3
<1> QED BY <1>1, <1>2, <1>3, <1>4, <1>5, <1>6, <1>7, ValueWritten

\* What is written for a value is numbers.
LEMMA EncodedType ==
  ASSUME NEW v \in Storable
  PROVE  EncodeValue(v) \in Seq(Nat)
BY ValueWritten, WrittenType DEF Measures

-----------------------------------------------------------------------------
(* Values of any size.                                                       *)

\* What pk_encode takes: numbers, byte strings, NULL.
Datum == ({INTEGER} \X Int) \cup ({FLOAT} \X Nat) \cup ({TEXT, BLOB} \X Seq(Nat)) \cup {Nothing}

\* A value is one of these.
LEMMA DatumCases ==
  ASSUME NEW v \in Datum
  PROVE  /\ v[1] \in {INTEGER, FLOAT, TEXT, BLOB, NULL}
         /\ v[1] = INTEGER => v[2] \in Int
         /\ v[1] = FLOAT => v[2] \in Nat
         /\ v[1] \in {TEXT, BLOB} => v[2] \in Seq(Nat)
BY DEF Datum, Nothing, INTEGER, FLOAT, TEXT, BLOB, NULL

\* The values SQLite has are such, and are written so if no string is too long.
LEMMA ValueStored ==
  ASSUME NEW v \in Value
  PROVE  /\ v \in Datum
         /\ (v[1] \in {TEXT, BLOB} => Len(v[2]) < Half) => v \in Storable
<1>1. CASE v \in ({INTEGER} \X (-Half .. Half - 1))
  BY <1>1, HalfType DEF Datum, Storable, INTEGER, TEXT, BLOB
<1>2. CASE v \in ({FLOAT} \X (0 .. Word - 1))
  BY <1>2, HalfType DEF Datum, Storable, FLOAT, TEXT, BLOB
<1>3. CASE v \in {TEXT, BLOB} \X Seq(0 .. Radix - 1)
  <2>1. v = <<v[1], v[2]>> /\ v[1] \in {TEXT, BLOB} /\ v[2] \in Seq(0 .. Radix - 1)
    BY <1>3
  <2>2. 0 .. Radix - 1 \subseteq Nat
    BY WidthAssumption
  <2>3. v[2] \in Seq(Nat)
    BY <2>1, <2>2, SeqMonotonic
  <2>4. v \in {TEXT, BLOB} \X Seq(Nat)
    BY <2>1, <2>3
  <2> QED BY <2>4 DEF Datum, Storable
<1>4. CASE v = Nothing
  BY <1>4 DEF Nothing, Datum, Storable, NULL, TEXT, BLOB
<1> QED BY <1>1, <1>2, <1>3, <1>4 DEF Value

\* A leading byte with digits behind it is numbers.
LEMMA HeadType ==
  ASSUME NEW type \in 0..7, NEW n \in Nat, NEW i \in Nat, NEW d \in 0..Wide
  PROVE  <<TypeByte(type, n)>> \o Digits(i, d) \in Seq(Nat) /\ <<TypeByte(type, n)>> \in Seq(Nat)
<1>1. TypeByte(type, n) \in Nat
  BY HeadRead
<1>2. \A x \in Nat : <<x>> \in Seq(Nat)
  OBVIOUS
<1> QED BY <1>1, <1>2, DigitsType, ConcatProperties

\* What pk_encode writes for any value is numbers.
LEMMA DatumEncoded ==
  ASSUME NEW v \in Datum
  PROVE  EncodeValue(v) \in Seq(Nat)
<1>0. v[1] \in {INTEGER, FLOAT, TEXT, BLOB, NULL}
  BY DatumCases
<1>t. /\ INTEGER \in 0..7 /\ FLOAT \in 0..7 /\ TEXT \in 0..7 /\ BLOB \in 0..7 /\ NULL \in 0..7
      /\ NegInt \in 0..7 /\ MinInt \in 0..7 /\ NegFloat \in 0..7
  BY DEF INTEGER, FLOAT, TEXT, BLOB, NULL, NegInt, MinInt, NegFloat
<1>w. Wide \in 0..Wide /\ 0 \in 0..Wide /\ 0 \in Nat /\ \A i : NBytes(i) \in 0..Wide /\ NBytes(i) \in Nat
  BY WidthAssumption, NBytesType
<1>1. CASE v[1] = INTEGER
  <2> DEFINE a == IF v[2] < 0 THEN -v[2] ELSE v[2]
             type == IF v[2] < 0 THEN NegInt ELSE INTEGER
  <2>1. EncodeValue(v) = EncodeInt(v[2])
    BY <1>1 DEF EncodeValue, INTEGER, FLOAT, TEXT, BLOB
  <2>2. \/ EncodeInt(v[2]) = <<TypeByte(MinInt, 0)>>
        \/ EncodeInt(v[2]) = <<TypeByte(type, NBytes(a))>> \o Digits(a, NBytes(a))
    BY DEF EncodeInt
  <2>3. a \in Nat /\ type \in 0..7
    BY <1>1, <1>t, DatumCases
  <2> HIDE DEF a, type
  <2> QED BY <1>t, <1>w, <2>1, <2>2, <2>3, HeadType
<1>2. CASE v[1] = FLOAT
  <2>1. EncodeValue(v) = EncodeFloat(v[2])
    BY <1>2 DEF EncodeValue, INTEGER, FLOAT, TEXT, BLOB
  <2>2. \/ EncodeFloat(v[2]) = <<TypeByte(NegFloat, 0)>> \o Digits(Negated(v[2]), Wide)
        \/ EncodeFloat(v[2]) = <<TypeByte(FLOAT, 0)>> \o Digits(v[2], Wide)
    BY DEF EncodeFloat
  <2>3. v[2] \in Nat /\ Negated(v[2]) \in Nat
    BY <1>2, DatumCases, HalfType DEF Negated
  <2> QED BY <1>t, <1>w, <2>1, <2>2, <2>3, HeadType
<1>3. CASE v[1] \in {TEXT, BLOB}
  <2> DEFINE len == Len(v[2])
             head == <<TypeByte(v[1], NBytes(len))>> \o Digits(len, NBytes(len))
  <2>1. EncodeValue(v) = head \o v[2]
    <3>1. EncodeValue(v) = EncodeData(v[1], v[2])
      BY <1>3 DEF EncodeValue, INTEGER, FLOAT, TEXT, BLOB
    <3> QED BY <3>1 DEF EncodeData
  <2>2. v[2] \in Seq(Nat) /\ len \in Nat /\ v[1] \in 0..7
    <3>1. v[1] \in 0..7
      BY <1>3, <1>t, Zenon
    <3>2. v[2] \in Seq(Nat)
      BY <1>3, DatumCases
    <3> QED BY <3>1, <3>2
  <2>3. head \in Seq(Nat)
    <3> HIDE DEF len
    <3> QED BY <1>w, <2>2, HeadType
  <2> HIDE DEF head
  <2> QED BY <2>1, <2>2, <2>3, ConcatProperties
<1>4. CASE v[1] = NULL
  <2>1. EncodeValue(v) = <<TypeByte(NULL, 0)>>
    BY <1>4 DEF EncodeValue, INTEGER, FLOAT, TEXT, BLOB, NULL
  <2> QED BY <1>t, <1>w, <2>1, HeadType
<1> QED BY <1>0, <1>1, <1>2, <1>3, <1>4

-----------------------------------------------------------------------------
(* A row, read back.                                                         *)

\* The strings f[k] are the strings of w up to k, joined.
Joins(f, w) ==
  f \in [0..Len(w) -> Seq(Nat)] /\ f[0] = <<>> /\ \A k \in 1..Len(w) : f[k] = f[k - 1] \o w[k]

\* A flattened sequence is that of its first elements with one more behind it, and so on.
LEMMA FlattenSteps ==
  ASSUME NEW w \in Seq(Seq(Nat))
  PROVE  \E f : Joins(f, w) /\ f[Len(w)] = FlattenSeq(w)
<1> DEFINE n == Len(w)
           T == Seq(Nat)
           step == [k \in 1..n |-> [x \in T |-> x \o w[k]]]
           Is(h) == h = [i \in 1..n |-> IF i = 1 THEN w[i] ELSE h[i - 1] \o w[i]]
           flatten == CHOOSE h : Is(h)
<1>1. n \in Nat /\ \A k \in 1..n : w[k] \in T
  OBVIOUS
<1>2. PICK f : Takes(f, T, <<>>, n, step)
  <2>1. \A k \in 1..n, x \in T : x \o w[k] \in T
    BY <1>1, ConcatProperties
  <2>2. step \in [1..n -> [T -> T]] /\ <<>> \in T /\ n \in Nat
    BY <1>1, <2>1
  <2> HIDE DEF step, T, n
  <2> QED BY <2>2, Recursion, Zenon
<1>3. f \in [0..n -> T] /\ f[0] = <<>> /\ \A k \in 1..n : f[k] = step[k][f[k - 1]]
  BY <1>2 DEF Takes
<1>n. /\ \A k \in 1..n : k - 1 \in 0..n /\ k \in 0..n
      /\ \A k \in 1..n : k # 1 => k - 1 \in 1..n /\ k - 1 # 0
      /\ 0 \in 0..n /\ n \in 0..n
      /\ n # 0 => n \in 1..n
  BY <1>1
<1>4. \A k \in 1..n : f[k] = f[k - 1] \o w[k]
  <2>1. \A k \in 1..n : f[k - 1] \in T
    <3> HIDE DEF n, T, step
    <3> QED BY <1>3, <1>n
  <2>2. \A k \in 1..n, x \in T : step[k][x] = x \o w[k]
    BY Zenon
  <2> HIDE DEF n, T, step
  <2> QED BY <1>3, <2>1, <2>2
<1>5. Joins(f, w)
  BY <1>3, <1>4 DEF Joins
<1>6. CASE n = 0
  <2>1. w = <<>> /\ FlattenSeq(w) = w
    BY <1>6, EmptySeq DEF FlattenSeq
  <2>2. f[n] = <<>>
    BY <1>3, <1>6
  <2> QED BY <1>5, <2>1, <2>2
<1>7. CASE n # 0
  <2> DEFINE g == [i \in 1..n |-> f[i]]
  <2>0. n \in 1..n
    BY <1>7, <1>n
  <2>1. \A i \in 1..n : i = 1 => f[i] = w[i]
    <3>1. SUFFICES ASSUME 1 \in 1..n PROVE f[1] = w[1]
      OBVIOUS
    <3>2. f[1] = f[1 - 1] \o w[1] /\ w[1] \in T
      BY <1>1, <1>4, <3>1, Zenon
    <3>3. f[1 - 1] = <<>>
      BY <1>3
    <3> QED BY <3>2, <3>3, ConcatEmptySeq
  <2>2. Is(g)
    <3>1. ASSUME NEW i \in 1..n PROVE g[i] = IF i = 1 THEN w[i] ELSE g[i - 1] \o w[i]
      <4>1. g[i] = f[i] /\ (i # 1 => g[i - 1] = f[i - 1])
        BY <1>n, Zenon
      <4> HIDE DEF g, n
      <4> QED BY <1>4, <2>1, <4>1
    <3>2. g = [i \in 1..n |-> g[i]]
      OBVIOUS
    <3> HIDE DEF g
    <3> QED BY <3>1, <3>2, Zenon
  <2> HIDE DEF g
  <2>3. Is(flatten)
    BY <2>2, Zenon
  <2>4. FlattenSeq(w) = flatten[n]
    BY <1>7, Zenon DEF FlattenSeq
  <2> HIDE DEF flatten
  <2>5. \A i \in 1..n : flatten[i] = IF i = 1 THEN w[i] ELSE flatten[i - 1] \o w[i]
    BY <2>3, Zenon
  <2> DEFINE S == {k \in 0..n : k = 0 \/ flatten[k] = f[k]}
  <2>6. 0 \in S
    BY <1>n
  <2>7. ASSUME NEW k \in 1..n, k - 1 \in S PROVE k \in S
    <3>1. CASE k = 1
      <4>1. flatten[k] = f[k]
        BY <2>1, <2>5, <3>1
      <4> QED BY <1>n, <4>1, Zenon
    <3>2. CASE k # 1
      <4>1. flatten[k - 1] = f[k - 1]
        BY <1>n, <2>7, <3>2
      <4>2. flatten[k] = f[k]
        BY <1>4, <2>5, <3>2, <4>1, Zenon
      <4> QED BY <1>n, <4>2, Zenon
    <3> QED BY <3>1, <3>2
  <2>8. \A k \in 0..n : k \in S
    <3> HIDE DEF S, n
    <3> QED BY <1>1, <2>6, <2>7, Climb
  <2>9. flatten[n] = f[n]
    <3> HIDE DEF n
    <3> QED BY <1>7, <1>n, <2>8
  <2> QED BY <1>5, <2>4, <2>9
<1> QED BY <1>6, <1>7

\* Where joined strings are, each of them is, behind those before it.
LEMMA PartsAt ==
  ASSUME NEW w \in Seq(Seq(Nat)), NEW f, Joins(f, w), NEW b, NEW seek \in Nat,
         At(b, seek, f[Len(w)])
  PROVE  \A k \in 1..Len(w) : At(b, seek + Len(f[k - 1]), w[k])
<1> DEFINE n == Len(w)
           S == {k \in 0..n : At(b, seek, f[n - k])}
<1>1. n \in Nat /\ \A k \in 1..n : w[k] \in Seq(Nat)
  OBVIOUS
<1>j. f \in [0..n -> Seq(Nat)] /\ \A k \in 1..n : f[k] = f[k - 1] \o w[k]
  BY DEF Joins
<1>f. \A k \in 1..n : f[k - 1] \in Seq(Nat)
  <2> HIDE DEF n
  <2>1. \A k \in 1..n : k - 1 \in 0..n
    BY <1>1
  <2> QED BY <1>j, <2>1
<1> HIDE DEF n
<1>2. \A k \in 0..n : k \in S
  <2>1. 0 \in S
    BY <1>1 DEF n
  <2>2. ASSUME NEW k \in 1..n, k - 1 \in S PROVE k \in S
    <3> DEFINE m == n - (k - 1)
    <3>1. m \in 1..n /\ m - 1 = n - k /\ k \in 0..n
      BY <1>1
    <3>2. At(b, seek, f[m])
      BY <2>2
    <3> HIDE DEF m
    <3>3. At(b, seek, f[m - 1] \o w[m]) /\ f[m - 1] \in Seq(Nat) /\ w[m] \in Seq(Nat)
      BY <1>1, <1>j, <1>f, <3>1, <3>2, Zenon
    <3>4. At(b, seek, f[m - 1])
      BY <3>3, AtJoined
    <3> QED BY <3>1, <3>4
  <2> HIDE DEF S
  <2> QED BY <1>1, <2>1, <2>2, Climb
<1>3. ASSUME NEW k \in 1..n PROVE At(b, seek + Len(f[k - 1]), w[k])
  <2>1. n - k \in 0..n /\ n - (n - k) = k
    BY <1>1
  <2>2. At(b, seek, f[k])
    BY <1>2, <2>1
  <2>3. At(b, seek, f[k - 1] \o w[k]) /\ f[k - 1] \in Seq(Nat) /\ w[k] \in Seq(Nat)
    BY <1>1, <1>j, <1>f, <2>2, Zenon
  <2> QED BY <2>3, AtJoined
<1> QED BY <1>3 DEF n

\* The encodings of a row's values, which pk_encode writes behind one another.
EncodedValues(row) == [k \in DOMAIN row |-> EncodeValue(row[k])]

\* They are byte strings.
LEMMA EncodedValuesType ==
  ASSUME NEW S, NEW row \in Seq(S), \A v \in S : EncodeValue(v) \in Seq(Nat)
  PROVE  /\ EncodedValues(row) \in Seq(Seq(Nat)) /\ Len(EncodedValues(row)) = Len(row)
         /\ \A k \in 1..Len(row) : row[k] \in S /\ EncodedValues(row)[k] = EncodeValue(row[k])
<1> DEFINE n == Len(row)
<1>1. n \in Nat /\ DOMAIN row = 1..n /\ \A k \in 1..n : row[k] \in S
  OBVIOUS
<1>2. \A k \in 1..n : EncodeValue(row[k]) \in Seq(Nat)
  BY <1>1
<1>3. EncodedValues(row) = [k \in 1..n |-> EncodeValue(row[k])]
  BY <1>1 DEF EncodedValues
<1> HIDE DEF n
<1>4. EncodedValues(row) \in [1..n -> Seq(Nat)]
  BY <1>2, <1>3
<1>5. EncodedValues(row) \in Seq(Seq(Nat)) /\ Len(EncodedValues(row)) = n
  BY <1>1, <1>4
<1> QED BY <1>1, <1>3, <1>5 DEF n

\* A row is encoded as numbers.
LEMMA RowEncodedType ==
  ASSUME NEW S, NEW row \in Seq(S), \A v \in S : EncodeValue(v) \in Seq(Nat)
  PROVE  Encode(row) \in Seq(Nat)
<1>1. EncodedValues(row) \in Seq(Seq(Nat))
  BY EncodedValuesType
<1>2. PICK f : Joins(f, EncodedValues(row)) /\ f[Len(EncodedValues(row))] = FlattenSeq(EncodedValues(row))
  BY <1>1, FlattenSteps
<1>3. Encode(row) = FlattenSeq(EncodedValues(row))
  BY DEF Encode, EncodedValues
<1>4. Len(EncodedValues(row)) \in 0..Len(EncodedValues(row))
  BY <1>1
<1> QED BY <1>2, <1>3, <1>4 DEF Joins

\* pk_decode of count values of b from offset seek is, step by step, g.
Decoded(g, b, count, seek) ==
  g = [k \in 0..count |->
         IF k = 0 THEN [row |-> <<>>, seek |-> seek]
         ELSE [row  |-> Append(g[k - 1].row, DecodeValue(b, g[k - 1].seek).v),
               seek |-> DecodeValue(b, g[k - 1].seek).seek]]

\* Steps that are pk_decode's decode what it does.
LEMMA DecodeSteps ==
  ASSUME NEW b, NEW count \in Nat, NEW seek, NEW g, Decoded(g, b, count, seek)
  PROVE  Decode(b, count, seek) = g[count]
<1> DEFINE upto == CHOOSE h : Decoded(h, b, count, seek)
           S == {k \in 0..count : upto[k] = g[k]}
<1>1. Decode(b, count, seek) = upto[count]
  BY DEF Decode, Decoded
<1>2. Decoded(upto, b, count, seek)
  BY Zenon
<1> HIDE DEF upto
<1>3. 0 \in S
  <2>1. 0 \in 0..count
    OBVIOUS
  <2>2. upto[0] = [row |-> <<>>, seek |-> seek]
    BY <1>2, <2>1 DEF Decoded
  <2>3. g[0] = [row |-> <<>>, seek |-> seek]
    BY <2>1 DEF Decoded
  <2> QED BY <2>1, <2>2, <2>3
<1>4. ASSUME NEW k \in 1..count, k - 1 \in S PROVE k \in S
  <2>1. k \in 0..count /\ k # 0 /\ upto[k - 1] = g[k - 1]
    BY <1>4
  <2>2. upto[k] = [row  |-> Append(upto[k - 1].row, DecodeValue(b, upto[k - 1].seek).v),
                   seek |-> DecodeValue(b, upto[k - 1].seek).seek]
    BY <1>2, <2>1, Zenon DEF Decoded
  <2>3. g[k] = [row  |-> Append(g[k - 1].row, DecodeValue(b, g[k - 1].seek).v),
                seek |-> DecodeValue(b, g[k - 1].seek).seek]
    BY <2>1, Zenon DEF Decoded
  <2>4. upto[k] = g[k]
    BY <2>1, <2>2, <2>3, Zenon
  <2> QED BY <2>1, <2>4
<1>5. \A k \in 0..count : k \in S
  <2> HIDE DEF S
  <2> QED BY <1>3, <1>4, Climb
<1>6. count \in 0..count
  OBVIOUS
<1> QED BY <1>1, <1>5, <1>6

\* The row is read from b at seek, and what is behind it comes next.
RowReads(b, seek, row) ==
  Decode(b, Len(row), seek) = [row |-> row, seek |-> seek + Len(Encode(row))]

\* pk_decode reads a row, of any values, where pk_encode wrote it, and goes to the byte
\* behind it.
THEOREM RowRead ==
  ASSUME NEW row \in Seq(Storable), NEW b, NEW seek \in Nat, At(b, seek, Encode(row))
  PROVE  RowReads(b, seek, row)
<1> DEFINE n == Len(row)
           w == EncodedValues(row)
<1>e. \A v \in Storable : EncodeValue(v) \in Seq(Nat)
  BY EncodedType
<1>1. n \in Nat /\ w \in Seq(Seq(Nat)) /\ Len(w) = n
  BY <1>e, EncodedValuesType
<1>2. \A k \in 1..n : row[k] \in Storable /\ w[k] = EncodeValue(row[k])
  BY <1>e, EncodedValuesType
<1>3. PICK f : Joins(f, w) /\ f[n] = Encode(row)
  <2>1. Encode(row) = FlattenSeq(w)
    BY DEF Encode, EncodedValues
  <2> QED BY <1>1, <2>1, FlattenSteps
<1>r. row \in [1..n -> Storable] /\ row \in Seq(Storable)
  OBVIOUS
<1> HIDE DEF n, w
<1>4. f \in [0..n -> Seq(Nat)] /\ f[0] = <<>> /\ \A k \in 1..n : f[k] = f[k - 1] \o w[k]
  BY <1>1, <1>3 DEF Joins
<1>5. \A k \in 1..n : k - 1 \in 0..n /\ k \in 0..n /\ k # 0
  BY <1>1
<1>6. \A k \in 1..n : At(b, seek + Len(f[k - 1]), w[k])
  BY <1>1, <1>3, PartsAt
<1>7. \A k \in 1..n : f[k - 1] \in Seq(Nat) /\ w[k] \in Seq(Nat) /\ f[k] = f[k - 1] \o w[k]
  <2>1. \A k \in 1..n : w[k] \in Seq(Nat)
    BY <1>1
  <2> QED BY <1>4, <1>5, <2>1, Zenon
<1>8. \A k \in 1..n : /\ Len(f[k - 1]) \in Nat /\ Len(w[k]) \in Nat
                       /\ Len(f[k]) = Len(f[k - 1]) + Len(w[k])
  <2>1. \A s, u \in Seq(Nat) : Len(s) \in Nat /\ Len(u) \in Nat /\ Len(s \o u) = Len(s) + Len(u)
    OBVIOUS
  <2> QED BY <1>7, <2>1, Zenon
<1>9. \A k \in 1..n : DecodeValue(b, seek + Len(f[k - 1])) = [v |-> row[k], seek |-> seek + Len(f[k])]
  <2> SUFFICES ASSUME NEW k \in 1..n
               PROVE  DecodeValue(b, seek + Len(f[k - 1])) = [v |-> row[k], seek |-> seek + Len(f[k])]
    OBVIOUS
  <2>1. seek + Len(f[k - 1]) \in Nat
    BY <1>8
  <2>2. row[k] \in Storable /\ At(b, seek + Len(f[k - 1]), EncodeValue(row[k]))
    BY <1>2, <1>6
  <2>3. DecodeValue(b, seek + Len(f[k - 1]))
          = [v |-> row[k], seek |-> seek + Len(f[k - 1]) + Len(EncodeValue(row[k]))]
    BY <2>1, <2>2, ValueRead, Zenon
  <2>4. seek + Len(f[k - 1]) + Len(EncodeValue(row[k])) = seek + Len(f[k])
    <3>1. w[k] = EncodeValue(row[k])
      BY <1>2
    <3>2. \A x, y \in Nat : seek + x + y = seek + (x + y)
      OBVIOUS
    <3>3. Len(f[k - 1]) \in Nat /\ Len(w[k]) \in Nat /\ Len(f[k]) = Len(f[k - 1]) + Len(w[k])
      BY <1>8
    <3>4. seek + Len(f[k - 1]) + Len(w[k]) = seek + (Len(f[k - 1]) + Len(w[k]))
      BY <3>2, <3>3, Zenon
    <3> QED BY <3>1, <3>3, <3>4, Zenon
  <2> QED BY <2>3, <2>4
<1> DEFINE g == [k \in 0..n |-> [row |-> SubSeq(row, 1, k), seek |-> seek + Len(f[k])]]
<1>10. Decoded(g, b, n, seek)
  <2>1. ASSUME NEW k \in 0..n
        PROVE  g[k] = IF k = 0 THEN [row |-> <<>>, seek |-> seek]
                      ELSE [row  |-> Append(g[k - 1].row, DecodeValue(b, g[k - 1].seek).v),
                            seek |-> DecodeValue(b, g[k - 1].seek).seek]
    <3>1. CASE k = 0
      <4>1. SubSeq(row, 1, 0) = <<>> /\ seek + Len(f[0]) = seek
        BY <1>r, <1>4
      <4> QED BY <3>1, <4>1
    <3>2. CASE k # 0
      <4>1. k \in 1..n
        BY <1>1, <3>2
      <4>2. /\ g[k - 1].row = SubSeq(row, 1, k - 1) /\ g[k - 1].seek = seek + Len(f[k - 1])
            /\ g[k] = [row |-> SubSeq(row, 1, k), seek |-> seek + Len(f[k])]
        BY <1>5, <4>1
      <4>3. SubSeq(row, 1, k) = Append(SubSeq(row, 1, k - 1), row[k])
        BY <1>r, <4>1 DEF n
      <4>4. DecodeValue(b, g[k - 1].seek) = [v |-> row[k], seek |-> seek + Len(f[k])]
        BY <1>9, <4>1, <4>2
      <4> HIDE DEF g
      <4>5. g[k] = [row  |-> Append(g[k - 1].row, DecodeValue(b, g[k - 1].seek).v),
                    seek |-> DecodeValue(b, g[k - 1].seek).seek]
        <5>1. DecodeValue(b, g[k - 1].seek).v = row[k]
          BY <4>4
        <5>2. DecodeValue(b, g[k - 1].seek).seek = seek + Len(f[k])
          BY <4>4
        <5>3. Append(g[k - 1].row, DecodeValue(b, g[k - 1].seek).v) = SubSeq(row, 1, k)
          BY <4>2, <4>3, <5>1, Zenon
        <5> QED BY <4>2, <5>2, <5>3, Zenon
      <4> QED BY <3>2, <4>5
    <3> QED BY <3>1, <3>2
  <2>2. g = [k \in 0..n |-> g[k]]
    OBVIOUS
  <2> HIDE DEF g
  <2> QED BY <2>1, <2>2, Zenon DEF Decoded
<1>11. g[n] = [row |-> SubSeq(row, 1, n), seek |-> seek + Len(f[n])]
  BY <1>1
<1>12. SubSeq(row, 1, n) = row
  BY <1>r DEF n
<1> HIDE DEF g
<1>13. Decode(b, n, seek) = g[n]
  BY <1>1, <1>10, DecodeSteps
<1> QED BY <1>3, <1>11, <1>12, <1>13 DEF RowReads, n

\* pk_decode_prikey gives back the key, of as many values as a byte can count, that
\* pk_encode wrote.
THEOREM KeyInverts ==
  ASSUME NEW key \in Seq(Storable), Len(key) < 256
  PROVE  PkDecode(PkEncode(key)) = key
<1> DEFINE b == PkEncode(key)
<1>1. Encode(key) \in Seq(Nat) /\ <<Len(key)>> \in Seq(Nat) /\ Len(<<Len(key)>>) = 1
  <2>1. Len(key) \in Nat
    OBVIOUS
  <2>2. \A x \in Nat : <<x>> \in Seq(Nat) /\ Len(<<x>>) = 1
    OBVIOUS
  <2>3. \A v \in Storable : EncodeValue(v) \in Seq(Nat)
    BY EncodedType
  <2>4. Encode(key) \in Seq(Nat)
    BY <2>3, RowEncodedType
  <2> QED BY <2>1, <2>2, <2>4
<1>2. b = <<Len(key)>> \o Encode(key)
  <2>1. Len(key) % 256 = Len(key)
    <3>1. \A x \in Nat : x < 256 => x % 256 = x
      OBVIOUS
    <3>2. Len(key) \in Nat
      OBVIOUS
    <3> QED BY <3>1, <3>2
  <2> QED BY <2>1 DEF PkEncode
<1>4. b[1] = Len(key) /\ At(b, 1, Encode(key))
  BY <1>1, <1>2 DEF At
<1> HIDE DEF b
<1>5. RowReads(b, 1, key)
  BY <1>4, RowRead
<1>6. PkDecode(b) = key
  BY <1>4, <1>5 DEF PkDecode, RowReads
<1> QED BY <1>6 DEF b

-----------------------------------------------------------------------------
(* The size that is announced.                                               *)

\* pk_encode writes for a value, of any type and at every width, the bytes that
\* pk_encode_size counted for it.
LEMMA ValueAnnounced ==
  ASSUME NEW v \in Datum
  PROVE  Bytes(EncodeValue(v), SizeOf(v)) /\ SizeOf(v) \in Nat \ {0}
<1>0. v[1] \in {INTEGER, FLOAT, TEXT, BLOB, NULL}
  BY DatumCases
<1>w. Wide \in Nat
  BY WidthAssumption
<1>1. CASE v[1] = INTEGER
  <2> DEFINE a == IF v[2] < 0 THEN -v[2] ELSE v[2]
  <2>1. EncodeValue(v) = EncodeInt(v[2])
    BY <1>1 DEF EncodeValue, INTEGER, FLOAT, TEXT, BLOB
  <2>2. CASE v[2] = -Half
    <3>1. SizeOf(v) = 1
      BY <1>1, <2>2 DEF SizeOf, INTEGER, FLOAT, TEXT, BLOB
    <3>2. EncodeInt(v[2]) = <<TypeByte(MinInt, 0)>>
      BY <2>2 DEF EncodeInt
    <3>3. Bytes(<<TypeByte(MinInt, 0)>>, 1)
      BY <1>w, HeadLen
    <3> QED BY <2>1, <3>1, <3>2, <3>3
  <2>3. CASE v[2] # -Half
    <3>1. SizeOf(v) = 1 + NBytes(a)
      BY <1>1, <2>3 DEF SizeOf, INTEGER, FLOAT, TEXT, BLOB
    <3>2. PICK byte : EncodeInt(v[2]) = <<byte>> \o Digits(a, NBytes(a))
      BY <2>3 DEF EncodeInt
    <3> HIDE DEF a
    <3>3. NBytes(a) \in Nat
      BY NBytesType
    <3>4. Bytes(EncodeValue(v), SizeOf(v))
      BY <2>1, <3>1, <3>2, <3>3, HeadLen
    <3> QED BY <3>1, <3>3, <3>4
  <2> QED BY <2>2, <2>3
<1>2. CASE v[1] = FLOAT
  <2>1. SizeOf(v) = 1 + Wide
    BY <1>2 DEF SizeOf, INTEGER, FLOAT, TEXT, BLOB
  <2>2. PICK byte, f : EncodeValue(v) = <<byte>> \o Digits(f, Wide)
    <3>1. EncodeValue(v) = EncodeFloat(v[2])
      BY <1>2 DEF EncodeValue, INTEGER, FLOAT, TEXT, BLOB
    <3> QED BY <3>1 DEF EncodeFloat
  <2>3. Bytes(EncodeValue(v), SizeOf(v))
    BY <1>w, <2>1, <2>2, HeadLen
  <2> QED BY <1>w, <2>1, <2>3
<1>3. CASE v[1] \in {TEXT, BLOB}
  <2> DEFINE len == Len(v[2])
  <2>1. v[2] \in Seq(Nat) /\ len \in Nat
    BY <1>3, DatumCases
  <2>2. SizeOf(v) = 1 + len + NBytes(len)
    BY <1>3 DEF SizeOf, INTEGER, FLOAT, TEXT, BLOB
  <2>3. EncodeValue(v) = <<TypeByte(v[1], NBytes(len))>> \o Digits(len, NBytes(len)) \o v[2]
    <3>1. EncodeValue(v) = EncodeData(v[1], v[2])
      BY <1>3 DEF EncodeValue, INTEGER, FLOAT, TEXT, BLOB
    <3> QED BY <3>1 DEF EncodeData
  <2> HIDE DEF len
  <2> DEFINE head == <<TypeByte(v[1], NBytes(len))>> \o Digits(len, NBytes(len))
  <2>4. Bytes(head, 1 + NBytes(len)) /\ NBytes(len) \in Nat
    BY NBytesType, HeadLen
  <2> HIDE DEF head
  <2>5. Bytes(head \o v[2], Len(head) + Len(v[2])) /\ Len(head) = 1 + NBytes(len)
    <3> PICK S : head \in Seq(S)
      BY <2>4 DEF Bytes
    <3>1. /\ head \o v[2] \in Seq(S \cup Nat)
          /\ Len(head \o v[2]) = Len(head) + Len(v[2])
      <4>1. S \subseteq S \cup Nat /\ Nat \subseteq S \cup Nat
        OBVIOUS
      <4>2. head \in Seq(S \cup Nat) /\ v[2] \in Seq(S \cup Nat)
        BY <2>1, <4>1, SeqMonotonic, Zenon
      <4> QED BY <4>2, ConcatProperties, Zenon
    <3> QED BY <2>4, <3>1 DEF Bytes
  <2>6. EncodeValue(v) = head \o v[2]
    BY <2>3 DEF head
  <2>7. Len(v[2]) = len
    BY DEF len
  <2>8. SizeOf(v) = Len(head) + Len(v[2]) /\ SizeOf(v) \in Nat \ {0}
    BY <2>1, <2>2, <2>4, <2>5, <2>7
  <2> QED BY <2>5, <2>6, <2>8
<1>4. CASE v[1] = NULL
  <2>1. EncodeValue(v) = <<TypeByte(NULL, 0)>> /\ SizeOf(v) = 1
    BY <1>4 DEF EncodeValue, SizeOf, INTEGER, FLOAT, TEXT, BLOB, NULL
  <2>2. Bytes(<<TypeByte(NULL, 0)>>, 1)
    BY <1>w, HeadLen
  <2> QED BY <2>1, <2>2
<1> QED BY <1>0, <1>1, <1>2, <1>3, <1>4

\* Four strings behind one another.
LEMMA FlattenFour ==
  ASSUME NEW S, NEW w, w \in Seq(Seq(S)), Len(w) = 4
  PROVE  FlattenSeq(w) = ((w[1] \o w[2]) \o w[3]) \o w[4]
<1> DEFINE Is(f) == f = [i \in 1..Len(w) |-> IF i = 1 THEN w[i] ELSE f[i-1] \o w[i]]
           flatten == CHOOSE f : Is(f)
           g == [i \in 1..4 |-> IF i = 1 THEN w[1]
                           ELSE IF i = 2 THEN w[1] \o w[2]
                           ELSE IF i = 3 THEN (w[1] \o w[2]) \o w[3]
                           ELSE ((w[1] \o w[2]) \o w[3]) \o w[4]]
<1>0. Len(w) # 0 /\ 1..Len(w) = 1..4
  OBVIOUS
<1>1. Is(g)
  <2>1. ASSUME NEW i \in 1..4 PROVE g[i] = IF i = 1 THEN w[i] ELSE g[i-1] \o w[i]
    <3>1. CASE i = 1
      BY <3>1
    <3>2. CASE i = 2
      BY <3>2
    <3>3. CASE i = 3
      BY <3>3
    <3>4. CASE i = 4
      BY <3>4
    <3> QED BY <3>1, <3>2, <3>3, <3>4
  <2> HIDE DEF g
  <2>2. g = [i \in 1..4 |-> g[i]]
    BY DEF g
  <2>3. g = [i \in 1..4 |-> IF i = 1 THEN w[i] ELSE g[i-1] \o w[i]]
    BY <2>1, <2>2, Zenon
  <2> QED BY <1>0, <2>3, Zenon
<1> HIDE DEF g
<1>2. Is(flatten)
  BY <1>1, Zenon
<1>3. FlattenSeq(w) = flatten[4]
  BY <1>0, Zenon DEF FlattenSeq
<1> HIDE DEF flatten
<1>4. \A i \in 1..4 : flatten[i] = IF i = 1 THEN w[i] ELSE flatten[i-1] \o w[i]
  BY <1>0, <1>2, Zenon
<1>5. /\ flatten[1] = w[1] /\ flatten[2] = flatten[1] \o w[2]
      /\ flatten[3] = flatten[2] \o w[3] /\ flatten[4] = flatten[3] \o w[4]
  BY <1>4, SMTT(30)
<1> QED BY <1>3, <1>5

\* Four numbers, summed up.
LEMMA SumFour ==
  ASSUME NEW row, DOMAIN row = 1..4, \A k \in 1..4 : SizeOf(row[k]) \in Nat
  PROVE  EncodeSize(row, 0) = SizeOf(row[1]) + SizeOf(row[2]) + SizeOf(row[3]) + SizeOf(row[4])
<1> DEFINE z(k) == SizeOf(row[k])
           D == 1..4
           Is(f) == f = [s \in SUBSET D |-> IF s = {} THEN 0
                          ELSE LET x == CHOOSE y \in s : TRUE IN f[s \ {x}] + z(x)]
           sum == CHOOSE f : Is(f)
           h(s, k) == IF k \in s THEN z(k) ELSE 0
           g == [s \in SUBSET D |-> h(s, 1) + h(s, 2) + h(s, 3) + h(s, 4)]
<1>1. \A k \in D : z(k) \in Nat
  OBVIOUS
<1>2. EncodeSize(row, 0) = 0 + sum[D]
  BY Zenon DEF EncodeSize, FoldSeq, FoldFunction, FoldFunctionOnSet, MapThenFoldSet
<1> HIDE DEF z
<1>3. Is(g)
  <2>1. ASSUME NEW s \in SUBSET D
        PROVE  g[s] = IF s = {} THEN 0 ELSE LET x == CHOOSE y \in s : TRUE IN g[s \ {x}] + z(x)
    <3>1. CASE s = {}
      BY <3>1
    <3>2. CASE s # {}
      <4> DEFINE x == CHOOSE y \in s : TRUE
      <4>1. x \in s
        BY <3>2
      <4> HIDE DEF x
      <4>2. s \ {x} \in SUBSET D
        OBVIOUS
      <4>3. g[s] = g[s \ {x}] + z(x)
        <5>1. g[s] = h(s, 1) + h(s, 2) + h(s, 3) + h(s, 4)
          OBVIOUS
        <5>2. g[s \ {x}] = h(s \ {x}, 1) + h(s \ {x}, 2) + h(s \ {x}, 3) + h(s \ {x}, 4)
          BY <4>2
        <5>3. x = 1 \/ x = 2 \/ x = 3 \/ x = 4
          BY <4>1
        <5> HIDE DEF g
        <5>4. \A k \in D : h(s, k) = IF k = x THEN h(s \ {x}, k) + z(x) ELSE h(s \ {x}, k)
          BY <1>1, <4>1
        <5>5. \A k \in D : h(s \ {x}, k) \in Nat
          BY <1>1
        <5>6. x \in D /\ 1 \in D /\ 2 \in D /\ 3 \in D /\ 4 \in D /\ z(x) \in Nat
          BY <1>1, <4>1
        <5> HIDE DEF h, D
        <5> QED BY <5>1, <5>2, <5>3, <5>4, <5>5, <5>6
      <4> QED BY <3>2, <4>3 DEF x
    <3> QED BY <3>1, <3>2
  <2>2. g = [s \in SUBSET D |-> g[s]]
    OBVIOUS
  <2> HIDE DEF g
  <2> QED BY <2>1, <2>2, ZenonT(40)
<1> HIDE DEF g
<1>4. Is(sum)
  BY <1>3, Zenon
<1> HIDE DEF sum
<1>5. \A s \in SUBSET D : sum[s] = IF s = {} THEN 0
                          ELSE LET x == CHOOSE y \in s : TRUE IN sum[s \ {x}] + z(x)
  BY <1>4, Zenon
<1>6. sum[{}] = 0
  BY <1>5
<1>7. \A s \in SUBSET D : s # {} => \E x \in s : sum[s] = sum[s \ {x}] + z(x)
  BY <1>5, Zenon
<1>8. \A k \in D : sum[{k}] = z(k)
  <2> SUFFICES ASSUME NEW k \in D PROVE sum[{k}] = z(k)
    OBVIOUS
  <2>1. sum[{k}] = sum[{k} \ {k}] + z(k)
    BY <1>7
  <2>2. {k} \ {k} = {}
    OBVIOUS
  <2> QED BY <1>1, <1>6, <2>1, <2>2
<1>9. \A j, k \in D : j # k => sum[{j, k}] = z(j) + z(k)
  <2> SUFFICES ASSUME NEW j \in D, NEW k \in D, j # k PROVE sum[{j, k}] = z(j) + z(k)
    OBVIOUS
  <2>1. PICK x \in {j, k} : sum[{j, k}] = sum[{j, k} \ {x}] + z(x)
    BY <1>7
  <2>2. {j, k} \ {j} = {k} /\ {j, k} \ {k} = {j}
    OBVIOUS
  <2>3. sum[{j}] = z(j) /\ sum[{k}] = z(k) /\ z(j) \in Nat /\ z(k) \in Nat
    BY <1>1, <1>8
  <2>4. CASE x = j
    BY <2>1, <2>2, <2>3, <2>4
  <2>5. CASE x = k
    BY <2>1, <2>2, <2>3, <2>5
  <2> QED BY <2>4, <2>5
<1>10. \A i, j, k \in D : i # j /\ i # k /\ j # k => sum[{i, j, k}] = z(i) + z(j) + z(k)
  <2> SUFFICES ASSUME NEW i \in D, NEW j \in D, NEW k \in D, i # j, i # k, j # k
               PROVE  sum[{i, j, k}] = z(i) + z(j) + z(k)
    OBVIOUS
  <2>1. PICK x \in {i, j, k} : sum[{i, j, k}] = sum[{i, j, k} \ {x}] + z(x)
    BY <1>7
  <2>2. {i, j, k} \ {i} = {j, k} /\ {i, j, k} \ {j} = {i, k} /\ {i, j, k} \ {k} = {i, j}
    OBVIOUS
  <2>3. /\ sum[{j, k}] = z(j) + z(k) /\ sum[{i, k}] = z(i) + z(k) /\ sum[{i, j}] = z(i) + z(j)
        /\ z(i) \in Nat /\ z(j) \in Nat /\ z(k) \in Nat
    BY <1>1, <1>9
  <2>4. CASE x = i
    <3>1. sum[{i, j, k}] = sum[{j, k}] + z(i)
      BY <2>1, <2>2, <2>4
    <3> QED BY <2>3, <3>1
  <2>5. CASE x = j
    <3>1. sum[{i, j, k}] = sum[{i, k}] + z(j)
      BY <2>1, <2>2, <2>5
    <3> QED BY <2>3, <3>1
  <2>6. CASE x = k
    <3>1. sum[{i, j, k}] = sum[{i, j}] + z(k)
      BY <2>1, <2>2, <2>6
    <3> QED BY <2>3, <3>1
  <2> QED BY <2>4, <2>5, <2>6
<1>11. sum[D] = z(1) + z(2) + z(3) + z(4)
  <2>1. PICK x \in D : sum[D] = sum[D \ {x}] + z(x)
    BY <1>7
  <2>2. /\ D \ {1} = {2, 3, 4} /\ D \ {2} = {1, 3, 4}
        /\ D \ {3} = {1, 2, 4} /\ D \ {4} = {1, 2, 3}
    OBVIOUS
  <2>3. x = 1 \/ x = 2 \/ x = 3 \/ x = 4
    BY <2>1
  <2>4. /\ sum[{2, 3, 4}] = z(2) + z(3) + z(4) /\ sum[{1, 3, 4}] = z(1) + z(3) + z(4)
        /\ sum[{1, 2, 4}] = z(1) + z(2) + z(4) /\ sum[{1, 2, 3}] = z(1) + z(2) + z(3)
        /\ z(1) \in Nat /\ z(2) \in Nat /\ z(3) \in Nat /\ z(4) \in Nat
    BY <1>1, <1>10
  <2> HIDE DEF D
  <2>5. CASE x = 1
    <3>1. sum[D] = sum[{2, 3, 4}] + z(1)
      BY <2>1, <2>2, <2>5
    <3> QED BY <2>4, <3>1
  <2>6. CASE x = 2
    <3>1. sum[D] = sum[{1, 3, 4}] + z(2)
      BY <2>1, <2>2, <2>6
    <3> QED BY <2>4, <3>1
  <2>7. CASE x = 3
    <3>1. sum[D] = sum[{1, 2, 4}] + z(3)
      BY <2>1, <2>2, <2>7
    <3> QED BY <2>4, <3>1
  <2>8. CASE x = 4
    <3>1. sum[D] = sum[{1, 2, 3}] + z(4)
      BY <2>1, <2>2, <2>8
    <3> QED BY <2>4, <3>1
  <2> QED BY <2>3, <2>5, <2>6, <2>7, <2>8
<1> QED BY <1>1, <1>2, <1>11 DEF z

\* The same of a row: pk_encode writes for the four columns the bytes that pk_encode_size
\* counted for them, from which the buffer is given its size.
THEOREM SizeAnnounced ==
  ASSUME NEW row \in [1..4 -> Datum]
  PROVE  Bytes(Encode(row), EncodeSize(row, 0)) /\ EncodeSize(row, 0) \in Nat \ {0}
<1> DEFINE w == [k \in DOMAIN row |-> EncodeValue(row[k])]
<1>1. \A k \in 1..4 : /\ Len(EncodeValue(row[k])) = SizeOf(row[k]) /\ SizeOf(row[k]) \in Nat \ {0}
                      /\ \E S : EncodeValue(row[k]) \in Seq(S)
  BY ValueAnnounced DEF Bytes
<1>2. PICK A, B, C, D : /\ EncodeValue(row[1]) \in Seq(A) /\ EncodeValue(row[2]) \in Seq(B)
                        /\ EncodeValue(row[3]) \in Seq(C) /\ EncodeValue(row[4]) \in Seq(D)
  <2>1. 1 \in 1..4 /\ 2 \in 1..4 /\ 3 \in 1..4 /\ 4 \in 1..4
    OBVIOUS
  <2> QED BY <1>1, <2>1, Zenon
<1> DEFINE S == A \cup B \cup C \cup D
<1>3. \A k \in 1..4 : EncodeValue(row[k]) \in Seq(S)
  <2>1. A \subseteq S /\ B \subseteq S /\ C \subseteq S /\ D \subseteq S
    OBVIOUS
  <2> HIDE DEF S
  <2>2. /\ EncodeValue(row[1]) \in Seq(S) /\ EncodeValue(row[2]) \in Seq(S)
        /\ EncodeValue(row[3]) \in Seq(S) /\ EncodeValue(row[4]) \in Seq(S)
    BY <1>2, <2>1, SeqMonotonic
  <2>3. \A k \in 1..4 : k = 1 \/ k = 2 \/ k = 3 \/ k = 4
    OBVIOUS
  <2> QED BY <2>2, <2>3
<1> HIDE DEF S
<1>4. w \in Seq(Seq(S)) /\ Len(w) = 4
  <2>1. w \in [1..4 -> Seq(S)]
    BY <1>3
  <2> HIDE DEF w
  <2> QED BY <2>1, FunctionLen, ZenonT(40)
<1>5. /\ w[1] = EncodeValue(row[1]) /\ w[2] = EncodeValue(row[2])
      /\ w[3] = EncodeValue(row[3]) /\ w[4] = EncodeValue(row[4])
  OBVIOUS
<1>6. Encode(row) = FlattenSeq(w)
  BY Zenon DEF Encode
<1> HIDE DEF w
<1>7. Encode(row) = ((w[1] \o w[2]) \o w[3]) \o w[4]
  BY <1>4, <1>6, FlattenFour
<1>8. /\ Len(Encode(row)) = Len(w[1]) + Len(w[2]) + Len(w[3]) + Len(w[4])
      /\ Encode(row) \in Seq(S)
  <2>1. w[1] \in Seq(S) /\ w[2] \in Seq(S) /\ w[3] \in Seq(S) /\ w[4] \in Seq(S)
    BY <1>3, <1>5
  <2>2. w[1] \o w[2] \in Seq(S) /\ Len(w[1] \o w[2]) = Len(w[1]) + Len(w[2])
    BY <2>1, ConcatProperties
  <2>3. /\ (w[1] \o w[2]) \o w[3] \in Seq(S)
        /\ Len((w[1] \o w[2]) \o w[3]) = Len(w[1] \o w[2]) + Len(w[3])
    BY <2>1, <2>2, ConcatProperties
  <2>4. /\ ((w[1] \o w[2]) \o w[3]) \o w[4] \in Seq(S)
        /\ Len(((w[1] \o w[2]) \o w[3]) \o w[4]) = Len((w[1] \o w[2]) \o w[3]) + Len(w[4])
    BY <2>1, <2>3, ConcatProperties
  <2> QED BY <1>7, <2>2, <2>3, <2>4
<1>9. EncodeSize(row, 0) = SizeOf(row[1]) + SizeOf(row[2]) + SizeOf(row[3]) + SizeOf(row[4])
  BY <1>1, SumFour
<1>10. /\ Len(w[1]) = SizeOf(row[1]) /\ Len(w[2]) = SizeOf(row[2])
       /\ Len(w[3]) = SizeOf(row[3]) /\ Len(w[4]) = SizeOf(row[4])
       /\ SizeOf(row[1]) \in Nat \ {0} /\ SizeOf(row[2]) \in Nat \ {0}
       /\ SizeOf(row[3]) \in Nat \ {0} /\ SizeOf(row[4]) \in Nat \ {0}
  BY <1>1, <1>5
<1> QED BY <1>8, <1>9, <1>10 DEF Bytes
=============================================================================
