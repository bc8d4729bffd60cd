-------------------------- MODULE LibLoad_proofs --------------------------
(***************************************************************************)
(* Proofs about LibLoad: its type invariant and its three safety           *)
(* invariants, for any number of callers, any symbols, any directory       *)
(* contents and any versions.                                              *)
(*                                                                         *)
(* The first part is about package libload alone: Dedupe keeps the first   *)
(* occurrence of everything in its order, sorted versions ascend, and so   *)
(* the candidate list holds every file that may be loaded, best first.     *)
(* These are facts about data of any size; they are proved by induction,   *)
(* stated as the least-number principle for sets of naturals so that no    *)
(* operator has to be instantiated.                                        *)
(*                                                                         *)
(* The second part is the inductive invariant of the Once: one goroutine   *)
(* at a time is in the body, and the others read loadErr after it ended.   *)
(***************************************************************************)
EXTENDS LibLoad, FiniteSetTheorems, SequenceTheorems, WellFoundedInduction, TLAPS

-----------------------------------------------------------------------------
(* Induction.                                                              *)

LEMMA LeastNatural ==
  ASSUME NEW T \in SUBSET Nat, T # {}
  PROVE  \E m \in T : \A n \in T : m <= n
<1> DEFINE R == {ss \in Nat \X Nat : ss[1] < ss[2]}
<1>1. IsWellFoundedOn(R, Nat)
  BY NatLessThanWellFounded DEF OpToRel
<1> HIDE DEF R
<1>2. PICK m \in T : \A n \in T : ~ (<<n, m>> \in R)
  BY <1>1, WFMin
<1>3. ASSUME NEW n \in T PROVE m <= n
  <2>1. m \in Nat /\ n \in Nat
    OBVIOUS
  <2>2. n < m => <<n, m>> \in R
    BY <2>1 DEF R
  <2>3. ~(n < m)
    BY <2>2, <1>2
  <2> QED
    BY <2>1, <2>3
<1> QED
  BY <1>3

\* Induction over the naturals, for a property given as a set.
LEMMA Induction ==
  ASSUME NEW T, 0 \in T, \A n \in Nat : n \in T => n + 1 \in T
  PROVE  \A n \in Nat : n \in T
<1> SUFFICES ASSUME Nat \ T # {} PROVE FALSE
  OBVIOUS
<1>1. PICK m \in Nat \ T : \A n \in Nat \ T : m <= n
  BY LeastNatural
<1>2. m - 1 \in Nat /\ m - 1 \in T
  BY <1>1
<1> QED
  BY <1>1, <1>2

-----------------------------------------------------------------------------
(* Ascending: a finite set of naturals in its order.                       *)

\* Such an order exists: extend that of the numbers below the largest bound.
LEMMA OrderExists ==
  \A n \in Nat : \A S \in SUBSET (1..n) :
    /\ IsFiniteSet(S) /\ Cardinality(S) \in Nat
    /\ \E s \in [1..Cardinality(S) -> S] :
         /\ \A i, j \in 1..Cardinality(S) : i < j => s[i] < s[j]
         /\ \A x \in S : \E i \in 1..Cardinality(S) : s[i] = x
<1> DEFINE Ordered(S) ==
             /\ IsFiniteSet(S) /\ Cardinality(S) \in Nat
             /\ \E s \in [1..Cardinality(S) -> S] :
                  /\ \A i, j \in 1..Cardinality(S) : i < j => s[i] < s[j]
                  /\ \A x \in S : \E i \in 1..Cardinality(S) : s[i] = x
           T == {n \in Nat : \A S \in SUBSET (1..n) : Ordered(S)}
<1>1. 0 \in T
  <2>1. ASSUME NEW S \in SUBSET (1..0) PROVE Ordered(S)
    <3>1. S = {}
      OBVIOUS
    <3>2. IsFiniteSet(S) /\ Cardinality(S) = 0
      BY <3>1, FS_EmptySet
    <3>3. 1..Cardinality(S) = {}
      BY <3>2
    <3>4. <<>> \in [1..Cardinality(S) -> S]
      BY <3>3
    <3>5. \E s \in [1..Cardinality(S) -> S] :
            /\ \A i, j \in 1..Cardinality(S) : i < j => s[i] < s[j]
            /\ \A x \in S : \E i \in 1..Cardinality(S) : s[i] = x
      BY <3>1, <3>3, <3>4
    <3>6. IsFiniteSet(S) /\ Cardinality(S) \in Nat
      BY <3>2
    <3> QED
      BY <3>5, <3>6, Zenon
  <2> QED
    BY <2>1
<1>2. ASSUME NEW n \in Nat, n \in T PROVE n + 1 \in T
  <2>1. ASSUME NEW S \in SUBSET (1..(n + 1)) PROVE Ordered(S)
    <3> DEFINE R == S \ {n + 1}
               c == Cardinality(R)
    <3>1. R \in SUBSET (1..n)
      OBVIOUS
    <3>2. Ordered(R)
      BY <3>1, <1>2
    <3>3. CASE n + 1 \notin S
      <4>1. R = S
        BY <3>3
      <4> QED
        BY <3>2, <4>1
    <3>4. CASE n + 1 \in S
      <4>1. IsFiniteSet(R) /\ c \in Nat
        BY <3>2
      <4>2. S = R \cup {n + 1} /\ n + 1 \notin R
        BY <3>4
      <4>3. IsFiniteSet(S) /\ Cardinality(S) = c + 1
        BY <4>1, <4>2, FS_AddElement
      <4>4. PICK s \in [1..c -> R] :
              /\ \A i, j \in 1..c : i < j => s[i] < s[j]
              /\ \A x \in R : \E i \in 1..c : s[i] = x
        BY <3>2
      <4> HIDE DEF R, c
      <4> DEFINE t == [i \in 1..(c + 1) |-> IF i = c + 1 THEN n + 1 ELSE s[i]]
      <4>5. ASSUME NEW i \in 1..c PROVE t[i] = s[i] /\ s[i] \in R /\ s[i] \in 1..n
        <5>1. i \in 1..(c + 1) /\ i # c + 1
          BY <4>1
        <5>2. s[i] \in R
          BY <4>4
        <5> QED
          BY <3>1, <5>1, <5>2
      <4>6. t[c + 1] = n + 1
        BY <4>1
      <4>7. t \in [1..(c + 1) -> S]
        BY <4>1, <4>2, <4>5
      <4> HIDE DEF t
      <4>8. \A i, j \in 1..(c + 1) : i < j => t[i] < t[j]
        <5> SUFFICES ASSUME NEW i \in 1..(c + 1), NEW j \in 1..(c + 1), i < j
                     PROVE  t[i] < t[j]
          OBVIOUS
        <5>1. i \in 1..c
          BY <4>1
        <5>2. CASE j \in 1..c
          BY <5>1, <5>2, <4>4, <4>5
        <5>3. CASE j = c + 1
          BY <5>1, <5>3, <4>5, <4>6
        <5> QED
          BY <5>2, <5>3, <4>1
      <4>9. \A x \in S : \E i \in 1..(c + 1) : t[i] = x
        BY <4>1, <4>2, <4>4, <4>5, <4>6
      <4> QED
        BY <4>1, <4>3, <4>7, <4>8, <4>9
    <3> QED
      BY <3>3, <3>4
  <2> QED
    BY <2>1
<1> HIDE DEF T
<1>3. \A n \in Nat : n \in T
  BY <1>1, <1>2, Induction
<1> QED
  BY <1>3 DEF T

\* Ascending lists the elements of a set, all of them, in their order.
LEMMA AscendingIsSorted ==
  ASSUME NEW n \in Nat, NEW S \in SUBSET (1..n)
  PROVE  /\ Cardinality(S) \in Nat
         /\ Ascending(S) \in [1..Cardinality(S) -> S]
         /\ \A i, j \in 1..Cardinality(S) : i < j => Ascending(S)[i] < Ascending(S)[j]
         /\ \A x \in S : \E i \in 1..Cardinality(S) : Ascending(S)[i] = x
<1> DEFINE c == Cardinality(S)
           a == Ascending(S)
<1>1. IsFiniteSet(S) /\ c \in Nat
  BY OrderExists
<1>2. \E s \in [1..c -> S] : \A i, j \in DOMAIN s : i < j => s[i] < s[j]
  BY OrderExists
<1>3. a \in [1..c -> S] /\ \A i, j \in DOMAIN a : i < j => a[i] < a[j]
  BY <1>2 DEF Ascending
<1> HIDE DEF a, c
<1>4. \A i, j \in 1..c : i < j => a[i] < a[j]
  BY <1>3
<1>5. ASSUME NEW i \in 1..c, NEW j \in 1..c, a[i] = a[j] PROVE i = j
  <2>1. a[i] \in S /\ a[j] \in S
    BY <1>3
  <2>2. \A x \in S : x \in Nat
    OBVIOUS
  <2>3. a[i] \in Nat /\ a[j] \in Nat
    BY <2>1, <2>2
  <2>4. i \in Nat /\ j \in Nat
    BY <1>1
  <2> QED
    BY <2>3, <2>4, <1>4, <1>5
<1>6. a \in Injection(1..c, S)
  BY <1>3, <1>5 DEF Injection, IsInjective
<1>7. IsFiniteSet(1..c) /\ Cardinality(1..c) = c
  BY <1>1, FS_Interval
<1>8. a \in Surjection(1..c, S)
  BY <1>1, <1>6, <1>7, FS_Injection DEF c
<1>9. \A x \in S : \E i \in 1..c : a[i] = x
  BY <1>8 DEF Surjection
<1> QED
  BY <1>1, <1>3, <1>4, <1>9 DEF a, c

-----------------------------------------------------------------------------
(* Dedupe: the first occurrences of a sequence.                            *)

\* A set of naturals with a bound has a maximum.
LEMMA MaxIsMax ==
  ASSUME NEW n \in Nat, NEW S \in SUBSET (1..n), S # {}
  PROVE  Max(S) \in S /\ Max(S) \in 1..n /\ \A x \in S : x <= Max(S)
<1> DEFINE T == {m \in Nat : \A x \in S : x <= m}
<1>0. \A x \in S : x \in 1..n /\ x \in Nat
  OBVIOUS
<1>1. n \in T
  BY <1>0
<1>2. PICK m \in T : \A k \in T : m <= k
  BY <1>1, LeastNatural
<1>3. m \in S
  <2> SUFFICES ASSUME m \notin S PROVE FALSE
    OBVIOUS
  <2>1. \A x \in S : x < m
    BY <1>0
  <2>2. m \in Nat /\ m # 0
    <3>1. PICK x \in S : x \in Nat /\ x < m
      BY <1>0, <2>1
    <3> QED
      BY <3>1
  <2>3. m - 1 \in T
    BY <1>0, <2>1, <2>2
  <2> QED
    BY <1>2, <2>2, <2>3
<1>4. \E m0 \in S : \A x \in S : m0 >= x
  BY <1>0, <1>3
<1>5. Max(S) \in S /\ \A x \in S : Max(S) >= x
  BY <1>4 DEF Max
<1> QED
  BY <1>0, <1>5

\* One step of the loop in dedupe, from what the set s without its largest
\* index gave: the fold in Dedupe, spelled out.
Keep(values, f, s) ==
  LET out == f[s \ {Max(s)}]
  IN  IF s = {} THEN <<>>
      ELSE IF values[Max(s)] \in ToSet(out) THEN out ELSE Append(out, values[Max(s)])

Kept(values) == CHOOSE f : f = [s \in SUBSET DOMAIN values |-> Keep(values, f, s)]

LEMMA DedupeIsKept ==
  ASSUME NEW values
  PROVE  Dedupe(values) = Kept(values)[DOMAIN values]
BY DEF Dedupe, FoldLeft, MapThenFoldSet, Kept, Keep

\* The fold is well defined.
LEMMA KeptExists ==
  ASSUME NEW values
  PROVE  \A n \in Nat : \E f : f = [s \in SUBSET (1..n) |-> Keep(values, f, s)]
<1> DEFINE Good(n, f) == f = [s \in SUBSET (1..n) |-> Keep(values, f, s)]
           T == {n \in Nat : \E f : Good(n, f)}
<1>1. 0 \in T
  <2> DEFINE f0 == [s \in SUBSET (1..0) |-> <<>>]
  <2>1. \A s \in SUBSET (1..0) : s = {}
    OBVIOUS
  <2>2. f0 = [s \in SUBSET (1..0) |-> Keep(values, f0, s)]
    BY <2>1 DEF Keep
  <2>3. Good(0, f0)
    BY <2>2
  <2> QED
    BY <2>3
<1>2. ASSUME NEW n \in Nat, n \in T PROVE n + 1 \in T
  <2>1. PICK f : Good(n, f)
    BY <1>2
  <2> DEFINE g == [s \in SUBSET (1..(n + 1)) |->
                     IF s \in SUBSET (1..n) THEN f[s] ELSE Keep(values, f, s)]
  <2>2. \A s \in SUBSET (1..n) : f[s] = Keep(values, f, s)
    BY <2>1
  <2>3. \A s \in SUBSET (1..n) : s \in SUBSET (1..(n + 1)) /\ g[s] = f[s]
    OBVIOUS
  <2>4. \A s \in SUBSET (1..(n + 1)) : g[s] = Keep(values, f, s)
    BY <2>2
  <2>5. ASSUME NEW s \in SUBSET (1..(n + 1)), s # {}
        PROVE  s \ {Max(s)} \in SUBSET (1..n)
    <3>1. Max(s) \in s /\ Max(s) \in 1..(n + 1) /\ \A x \in s : x <= Max(s)
      BY <2>5, MaxIsMax
    <3>2. ASSUME NEW x \in s, x # Max(s) PROVE x \in 1..n
      BY <3>1, <3>2
    <3> QED
      BY <3>2
  <2> HIDE DEF g
  <2>6. ASSUME NEW s \in SUBSET (1..(n + 1)) PROVE Keep(values, f, s) = Keep(values, g, s)
    <3>1. CASE s = {}
      BY <3>1 DEF Keep
    <3>2. CASE s # {}
      <4>1. g[s \ {Max(s)}] = f[s \ {Max(s)}]
        BY <3>2, <2>3, <2>5
      <4> QED
        BY <4>1 DEF Keep
    <3> QED
      BY <3>1, <3>2
  <2>7. g = [s \in SUBSET (1..(n + 1)) |-> g[s]]
    BY DEF g
  <2>8. g = [s \in SUBSET (1..(n + 1)) |-> Keep(values, g, s)]
    BY <2>4, <2>6, <2>7
  <2>9. Good(n + 1, g)
    BY <2>8
  <2> QED
    BY <2>9
<1> HIDE DEF T
<1>3. \A n \in Nat : n \in T
  BY <1>1, <1>2, Induction
<1> QED
  BY <1>3 DEF T

\* out keeps the first occurrences of the first n values, in their order; at
\* says where they stand.
FirstsOf(out, values, n, at) ==
  /\ out \in Seq(ToSet(values))
  /\ at \in [1..Len(out) -> 1..n]
  /\ \A i \in 1..Len(out) : /\ out[i] = values[at[i]]
                            /\ \A j \in 1..(at[i] - 1) : values[j] # out[i]
  /\ \A i, j \in 1..Len(out) : i < j => at[i] < at[j]
  /\ \A j \in 1..n : \E i \in 1..Len(out) : out[i] = values[j]

\* The recursion of the fold over the prefixes of the sequence.
LEMMA KeptSteps ==
  ASSUME NEW values, NEW len \in Nat, DOMAIN values = 1..len, NEW n \in 0..len
  PROVE  /\ Kept(values)[1..0] = <<>>
         /\ n < len => Kept(values)[1..(n + 1)] =
                         IF values[n + 1] \in ToSet(Kept(values)[1..n])
                         THEN Kept(values)[1..n]
                         ELSE Append(Kept(values)[1..n], values[n + 1])
<1> DEFINE f == Kept(values)
<1>1. f = [s \in SUBSET (1..len) |-> Keep(values, f, s)]
  BY KeptExists DEF Kept
<1> HIDE DEF f
<1>2. \A s \in SUBSET (1..len) : f[s] = Keep(values, f, s)
  BY <1>1
<1>3. f[1..0] = <<>>
  <2>1. 1..0 = {} /\ 1..0 \in SUBSET (1..len)
    OBVIOUS
  <2> QED
    BY <2>1, <1>2 DEF Keep
<1>4. ASSUME n < len
      PROVE  f[1..(n + 1)] = IF values[n + 1] \in ToSet(f[1..n])
                             THEN f[1..n] ELSE Append(f[1..n], values[n + 1])
  <2>1. 1..(n + 1) \in SUBSET (1..len) /\ n + 1 \in 1..(n + 1) /\ 1..(n + 1) # {}
    <3>1. \A i \in 1..(n + 1) : i \in 1..len
      BY <1>4
    <3>2. n + 1 \in 1..(n + 1)
      OBVIOUS
    <3> QED
      BY <3>1, <3>2
  <2>2. /\ Max(1..(n + 1)) \in 1..(n + 1)
        /\ \A x \in 1..(n + 1) : x <= Max(1..(n + 1))
    BY <2>1, MaxIsMax
  <2>3. Max(1..(n + 1)) = n + 1
    BY <2>1, <2>2
  <2>4. (1..(n + 1)) \ {n + 1} = 1..n
    OBVIOUS
  <2>5. f[1..(n + 1)] = Keep(values, f, 1..(n + 1))
    BY <2>1, <1>2
  <2> QED
    BY <2>1, <2>3, <2>4, <2>5 DEF Keep
<1> QED
  BY <1>3, <1>4 DEF f

\* A step of the fold keeps first occurrences first occurrences.
LEMMA KeepFirsts ==
  ASSUME NEW values, NEW len \in Nat, DOMAIN values = 1..len, NEW n \in 0..len, n < len,
         NEW out, NEW at, FirstsOf(out, values, n, at)
  PROVE  \E at2 : FirstsOf(IF values[n + 1] \in ToSet(out)
                           THEN out ELSE Append(out, values[n + 1]), values, n + 1, at2)
<1> DEFINE v == values[n + 1]
<1>1. /\ out \in Seq(ToSet(values)) /\ Len(out) \in Nat /\ DOMAIN out = 1..Len(out)
      /\ at \in [1..Len(out) -> 1..n]
      /\ \A i \in 1..Len(out) : /\ out[i] = values[at[i]]
                                /\ \A j \in 1..(at[i] - 1) : values[j] # out[i]
      /\ \A i, j \in 1..Len(out) : i < j => at[i] < at[j]
      /\ \A j \in 1..n : \E i \in 1..Len(out) : out[i] = values[j]
  BY DEF FirstsOf
<1>2. n + 1 \in 1..len /\ v \in ToSet(values)
  BY DEF ToSet
<1>3. \A j \in 1..(n + 1) : j \in 1..n \/ j = n + 1
  OBVIOUS
<1>4. CASE v \in ToSet(out)
  <2>1. \E i \in 1..Len(out) : out[i] = v
    BY <1>1, <1>4 DEF ToSet
  <2>2. at \in [1..Len(out) -> 1..(n + 1)]
    <3>1. \A i \in 1..n : i \in 1..(n + 1)
      OBVIOUS
    <3> QED
      BY <1>1, <3>1
  <2>3. \A j \in 1..(n + 1) : \E i \in 1..Len(out) : out[i] = values[j]
    BY <1>1, <1>3, <2>1
  <2>4. FirstsOf(out, values, n + 1, at)
    BY <1>1, <2>2, <2>3 DEF FirstsOf
  <2> QED
    BY <1>4, <2>4
<1>5. CASE v \notin ToSet(out)
  <2> DEFINE o == Append(out, v)
             m == Len(out)
             at2 == [i \in 1..(m + 1) |-> IF i = m + 1 THEN n + 1 ELSE at[i]]
  <2>1. o \in Seq(ToSet(values)) /\ Len(o) = m + 1 /\ m \in Nat
    BY <1>1, <1>2
  <2>2. o[m + 1] = v /\ \A i \in 1..m : o[i] = out[i]
    BY <1>1, <1>2
  <2>3. at2[m + 1] = n + 1
    BY <2>1
  <2>4. ASSUME NEW i \in 1..m PROVE at2[i] = at[i] /\ at[i] \in 1..n
    <3>1. i # m + 1 /\ i \in 1..(m + 1)
      BY <2>1
    <3> QED
      BY <3>1, <1>1
  <2>5. at2 \in [1..(m + 1) -> 1..(n + 1)]
    <3>1. ASSUME NEW i \in 1..(m + 1)
          PROVE  (IF i = m + 1 THEN n + 1 ELSE at[i]) \in 1..(n + 1)
      <4>1. CASE i = m + 1
        BY <4>1
      <4>2. CASE i # m + 1
        <5>1. i \in 1..m
          BY <4>2, <2>1
        <5>2. at[i] \in 1..n
          BY <5>1, <1>1
        <5> QED
          BY <4>2, <5>2
      <4> QED
        BY <4>1, <4>2
    <3> QED
      BY <3>1
  <2> HIDE DEF at2, o, m
  <2>6. \A i \in 1..(m + 1) : i \in 1..m \/ i = m + 1
    BY <2>1
  <2>7. \A j \in 1..n : values[j] # v
    <3>1. ASSUME NEW j \in 1..n PROVE values[j] \in ToSet(out)
      <4>1. PICK i \in 1..Len(out) : out[i] = values[j]
        BY <1>1
      <4> QED
        BY <4>1, <1>1 DEF ToSet
    <3> QED
      BY <3>1, <1>5
  <2>8. ASSUME NEW i \in 1..(m + 1)
        PROVE  /\ o[i] = values[at2[i]]
               /\ \A j \in 1..(at2[i] - 1) : values[j] # o[i]
    <3>1. CASE i \in 1..m
      BY <3>1, <1>1, <2>2, <2>4, ZenonT(60) DEF m
    <3>2. CASE i = m + 1
      <4>1. at2[i] - 1 = n
        BY <3>2, <2>3
      <4> QED
        BY <3>2, <4>1, <2>2, <2>3, <2>7
    <3> QED
      BY <3>1, <3>2, <2>6
  <2>9. ASSUME NEW i \in 1..(m + 1), NEW j \in 1..(m + 1), i < j PROVE at2[i] < at2[j]
    <3>1. i \in 1..m
      BY <2>1, <2>9
    <3>2. CASE j \in 1..m
      BY <3>1, <3>2, <1>1, <2>4, <2>9 DEF m
    <3>3. CASE j = m + 1
      BY <3>1, <3>3, <2>3, <2>4
    <3> QED
      BY <3>2, <3>3, <2>6
  <2>10. ASSUME NEW j \in 1..(n + 1) PROVE \E i \in 1..(m + 1) : o[i] = values[j]
    <3>1. CASE j \in 1..n
      <4>1. PICK i \in 1..m : out[i] = values[j]
        BY <3>1, <1>1 DEF m
      <4>2. i \in 1..(m + 1) /\ o[i] = values[j]
        BY <4>1, <2>1, <2>2
      <4> QED
        BY <4>2
    <3>2. CASE j = n + 1
      <4>1. m + 1 \in 1..(m + 1) /\ o[m + 1] = values[j]
        BY <3>2, <2>1, <2>2
      <4> QED
        BY <4>1
    <3> QED
      BY <3>1, <3>2, <1>3
  <2>11. FirstsOf(o, values, n + 1, at2)
    BY <2>1, <2>5, <2>8, <2>9, <2>10 DEF FirstsOf
  <2> QED
    BY <1>5, <2>11 DEF o
<1> QED
  BY <1>4, <1>5

\* Dedupe keeps every value, where it occurred first, in the order of these
\* first occurrences.
LEMMA DedupeKeepsFirsts ==
  ASSUME NEW S, NEW values \in Seq(S)
  PROVE  \E at : FirstsOf(Dedupe(values), values, Len(values), at)
<1> DEFINE len == Len(values)
           T == {n \in Nat : n <= len => \E at : FirstsOf(Kept(values)[1..n], values, n, at)}
<1>1. len \in Nat /\ DOMAIN values = 1..len
  OBVIOUS
<1> HIDE DEF len
<1>2. 0 \in T
  <2>1. Kept(values)[1..0] = <<>>
    BY <1>1, KeptSteps
  <2>2. <<>> \in Seq(ToSet(values)) /\ Len(<<>>) = 0 /\ 1..0 = {}
    OBVIOUS
  <2>3. <<>> \in [1..0 -> 1..0]
    BY <2>2
  <2>4. FirstsOf(<<>>, values, 0, <<>>)
    BY <2>2, <2>3 DEF FirstsOf
  <2> QED
    BY <2>1, <2>4
<1>3. ASSUME NEW n \in Nat, n \in T PROVE n + 1 \in T
  <2> SUFFICES ASSUME n + 1 <= len
               PROVE  \E at : FirstsOf(Kept(values)[1..(n + 1)], values, n + 1, at)
    OBVIOUS
  <2>1. n < len /\ n \in 0..len
    BY <1>1
  <2>2. PICK at : FirstsOf(Kept(values)[1..n], values, n, at)
    BY <1>3, <2>1, <1>1
  <2>3. Kept(values)[1..(n + 1)] = IF values[n + 1] \in ToSet(Kept(values)[1..n])
                                   THEN Kept(values)[1..n]
                                   ELSE Append(Kept(values)[1..n], values[n + 1])
    BY <1>1, <2>1, KeptSteps
  <2>4. \E at2 : FirstsOf(IF values[n + 1] \in ToSet(Kept(values)[1..n])
                          THEN Kept(values)[1..n]
                          ELSE Append(Kept(values)[1..n], values[n + 1]), values, n + 1, at2)
    BY <1>1, <2>1, <2>2, KeepFirsts
  <2> QED
    BY <2>3, <2>4
<1> HIDE DEF T
<1>4. len \in T
  BY <1>1, <1>2, <1>3, Induction
<1>5. \E at : FirstsOf(Kept(values)[1..len], values, len, at)
  BY <1>1, <1>4 DEF T
<1> QED
  BY <1>1, <1>5, DedupeIsKept DEF len

-----------------------------------------------------------------------------
(* Candidates: every path that is promised, best first.                    *)

\* The rank of a path that is not the override.
Place(p) == IF p.dir = LibDir THEN 1 + p.version ELSE 2 + MaxVersion + p.version

\* A sequence of paths in the order of their places.
InPlace(s) ==
  /\ s \in Seq(Path)
  /\ \A i, j \in 1..Len(s) : i < j => Place(s[i]) < Place(s[j])

Occurs(p, s) == \E i \in 1..Len(s) : s[i] = p

LEMMA PlaceIsNat ==
  ASSUME NEW p \in Path
  PROVE  Place(p) \in Nat /\ Place(p) >= 1
BY MaxVersionAssumption DEF Path, Place

LEMMA ConcatParts ==
  ASSUME NEW s \in Seq(Path), NEW t \in Seq(Path)
  PROVE  /\ s \o t \in Seq(Path)
         /\ Len(s \o t) = Len(s) + Len(t)
         /\ \A i \in 1..Len(s) : (s \o t)[i] = s[i] /\ i \in 1..Len(s \o t)
         /\ \A j \in 1..Len(t) : /\ (s \o t)[Len(s) + j] = t[j]
                                /\ Len(s) + j \in 1..Len(s \o t)
<1>1. s \o t \in Seq(Path) /\ Len(s \o t) = Len(s) + Len(t) /\ Len(s) \in Nat /\ Len(t) \in Nat
  OBVIOUS
<1>2. ASSUME NEW i \in 1..Len(s) PROVE (s \o t)[i] = s[i] /\ i \in 1..Len(s \o t)
  BY <1>1
<1>3. ASSUME NEW j \in 1..Len(t)
      PROVE  (s \o t)[Len(s) + j] = t[j] /\ Len(s) + j \in 1..Len(s \o t)
  <2>1. Len(s) + j \in (Len(s) + 1)..(Len(s) + Len(t)) /\ (Len(s) + j) - Len(s) = j
    BY <1>1
  <2> QED
    BY <2>1, <1>1
<1> QED
  BY <1>1, <1>2, <1>3

LEMMA ConcatInPlace ==
  ASSUME NEW s, NEW t, InPlace(s), InPlace(t),
         \A i \in 1..Len(s), j \in 1..Len(t) : Place(s[i]) < Place(t[j])
  PROVE  InPlace(s \o t)
<1> DEFINE m == Len(s)
           n == Len(t)
           u == s \o t
<1>1. s \in Seq(Path) /\ t \in Seq(Path) /\ m \in Nat /\ n \in Nat
  BY DEF InPlace
<1>2. u \in Seq(Path) /\ Len(u) = m + n
  BY <1>1
<1>3. /\ \A i \in 1..m : u[i] = s[i]
      /\ \A i \in (m + 1)..(m + n) : u[i] = t[i - m] /\ i - m \in 1..n
  BY <1>1
<1>4. \A i \in 1..(m + n) : i \in 1..m \/ i \in (m + 1)..(m + n)
  BY <1>1
<1> HIDE DEF u, m, n
<1>5. ASSUME NEW i \in 1..(m + n), NEW j \in 1..(m + n), i < j PROVE Place(u[i]) < Place(u[j])
  <2>1. CASE i \in 1..m /\ j \in 1..m
    BY <2>1, <1>3, <1>5 DEF InPlace, m
  <2>2. CASE i \in 1..m /\ j \in (m + 1)..(m + n)
    BY <2>2, <1>3 DEF m, n
  <2>3. CASE i \in (m + 1)..(m + n) /\ j \in (m + 1)..(m + n)
    <3>1. i - m < j - m
      BY <1>1, <1>5
    <3>2. i - m \in 1..n /\ j - m \in 1..n
      BY <2>3, <1>3
    <3>3. Place(t[i - m]) < Place(t[j - m])
      BY <3>1, <3>2 DEF InPlace, n
    <3> QED
      BY <2>3, <3>3, <1>3
  <2> QED
    BY <1>1, <1>4, <1>5, <2>1, <2>2, <2>3
<1> QED
  BY <1>2, <1>5 DEF InPlace, u

\* The versioned names that filepath.Glob finds.
LEMMA GlobMatchesInPlace ==
  ASSUME env \in Environment
  PROVE  /\ InPlace(GlobMatches(LibDir))
         /\ \A i \in 1..Len(GlobMatches(LibDir)) :
              Place(GlobMatches(LibDir)[i]) \in 2..(1 + MaxVersion)
         /\ \A v \in 1..MaxVersion :
              env.file[[dir |-> LibDir, version |-> v]].there
              => Occurs([dir |-> LibDir, version |-> v], GlobMatches(LibDir))
<1> DEFINE V == Versions(LibDir)
           c == Cardinality(V)
           a == Ascending(V)
           g == [i \in 1..c |-> [dir |-> LibDir, version |-> a[i]]]
<1>1. V \in SUBSET (1..MaxVersion) /\ MaxVersion \in Nat
  BY MaxVersionAssumption DEF Versions
<1> HIDE DEF V
<1>2. /\ c \in Nat /\ a \in [1..c -> V]
      /\ \A i, j \in 1..c : i < j => a[i] < a[j]
      /\ \A x \in V : \E i \in 1..c : a[i] = x
  BY <1>1, AscendingIsSorted
<1> HIDE DEF c, a
<1>3. \A i \in 1..c : a[i] \in V /\ a[i] \in 1..MaxVersion
  BY <1>1, <1>2
<1>4. \A i \in 1..c : g[i] = [dir |-> LibDir, version |-> a[i]] /\ g[i] \in Path
  BY <1>3 DEF Path
<1>5. g \in Seq(Path) /\ Len(g) = c
  BY <1>2, <1>4
<1> HIDE DEF g
<1>6. \A i \in 1..c : Place(g[i]) = 1 + a[i]
  <2>1. ASSUME NEW i \in 1..c PROVE Place(g[i]) = 1 + a[i]
    <3>1. g[i] = [dir |-> LibDir, version |-> a[i]]
      BY <1>4
    <3> HIDE DEF a
    <3>2. g[i].dir = LibDir
      BY <3>1
    <3>3. g[i].version = a[i]
      BY <3>1
    <3> QED
      BY <3>2, <3>3 DEF Place
  <2> QED
    BY <2>1
<1>7. InPlace(g)
  <2>1. ASSUME NEW i \in 1..c, NEW j \in 1..c, i < j PROVE Place(g[i]) < Place(g[j])
    <3>1. a[i] < a[j] /\ a[i] \in 1..MaxVersion /\ a[j] \in 1..MaxVersion
      BY <2>1, <1>2, <1>3
    <3> QED
      BY <3>1, <1>6
  <2> QED
    BY <1>5, <2>1 DEF InPlace
<1>8. \A i \in 1..c : Place(g[i]) \in 2..(1 + MaxVersion)
  BY <1>1, <1>3, <1>6
<1>9. ASSUME NEW v \in 1..MaxVersion, env.file[[dir |-> LibDir, version |-> v]].there
      PROVE  Occurs([dir |-> LibDir, version |-> v], g)
  <2>1. v \in V
    BY <1>9 DEF V, Versions
  <2> QED
    BY <2>1, <1>2, <1>4, <1>5 DEF Occurs
<1>10. GlobMatches(LibDir) = g
  BY DEF GlobMatches, g, a, c, V
<1> QED
  BY <1>5, <1>7, <1>8, <1>9, <1>10

\* The names in the directory.
LEMMA DirCandidatesInPlace ==
  ASSUME env \in Environment
  PROVE  /\ InPlace(DirCandidates(LibDir))
         /\ \A i \in 1..Len(DirCandidates(LibDir)) :
              Place(DirCandidates(LibDir)[i]) \in 1..(1 + MaxVersion)
         /\ Occurs([dir |-> LibDir, version |-> 0], DirCandidates(LibDir))
         /\ \A v \in 1..MaxVersion :
              ~env.darwin /\ env.file[[dir |-> LibDir, version |-> v]].there
              => Occurs([dir |-> LibDir, version |-> v], DirCandidates(LibDir))
<1> DEFINE g == GlobMatches(LibDir)
           p == [dir |-> LibDir, version |-> 0]
           h == <<p>>
           d == DirCandidates(LibDir)
<1>1. /\ InPlace(g) /\ g \in Seq(Path) /\ Len(g) \in Nat
      /\ \A i \in 1..Len(g) : Place(g[i]) \in 2..(1 + MaxVersion)
      /\ \A v \in 1..MaxVersion : env.file[[dir |-> LibDir, version |-> v]].there
                                  => Occurs([dir |-> LibDir, version |-> v], g)
  BY GlobMatchesInPlace DEF InPlace
<1>2. MaxVersion \in Nat /\ MaxVersion >= 1
  BY MaxVersionAssumption
<1>3. p \in Path /\ Place(p) = 1
  BY <1>2 DEF Path, Place
<1>4. d = IF env.darwin THEN h ELSE h \o g
  BY DEF DirCandidates
<1> HIDE DEF g, p, d
<1>5. h \in Seq(Path) /\ Len(h) = 1 /\ h[1] = p
  BY <1>3
<1> HIDE DEF h
<1>6. InPlace(h)
  BY <1>5 DEF InPlace
<1>7. \A i \in 1..Len(h) : i = 1
  BY <1>5
<1>8. 1 \in 1..(1 + MaxVersion)
  BY <1>2
<1>9. CASE env.darwin
  <2>1. d = h
    BY <1>4, <1>9
  <2>2. Occurs(p, d)
    BY <2>1, <1>5 DEF Occurs
  <2>3. \A i \in 1..Len(d) : Place(d[i]) \in 1..(1 + MaxVersion)
    BY <2>1, <1>3, <1>5, <1>7, <1>8
  <2> QED
    BY <2>1, <2>2, <2>3, <1>6, <1>9 DEF d, p
<1>10. CASE ~env.darwin
  <2>1. d = h \o g
    BY <1>4, <1>10
  <2>2. Len(d) = 1 + Len(g)
    <3>1. Len(h \o g) = Len(h) + Len(g)
      BY <1>1, <1>5, ConcatParts
    <3> QED
      BY <3>1, <2>1, <1>5
  <2>3. d[1] = p /\ 1 \in 1..Len(d)
    BY <1>1, <1>5, <2>1, <2>2
  <2>4. ASSUME NEW i \in 1..Len(g) PROVE d[i + 1] = g[i] /\ i + 1 \in 1..Len(d)
    <3>1. (h \o g)[Len(h) + i] = g[i] /\ Len(h) + i \in 1..Len(h \o g)
      BY <1>1, <1>5, ConcatParts
    <3>2. Len(h) + i = i + 1
      BY <1>1, <1>5
    <3> QED
      BY <3>1, <3>2, <2>1
  <2>5. InPlace(d)
    <3>1. ASSUME NEW i \in 1..Len(h), NEW j \in 1..Len(g) PROVE Place(h[i]) < Place(g[j])
      <4>1. h[i] = p /\ Place(g[j]) \in 2..(1 + MaxVersion)
        BY <1>1, <1>5, <1>7
      <4> QED
        BY <4>1, <1>3
    <3> QED
      BY <3>1, <2>1, <1>1, <1>6, ConcatInPlace
  <2>6. ASSUME NEW i \in 1..Len(d) PROVE Place(d[i]) \in 1..(1 + MaxVersion)
    <3>1. CASE i = 1
      BY <3>1, <2>3, <1>3, <1>8
    <3>2. CASE i # 1
      <4>1. i - 1 \in 1..Len(g) /\ (i - 1) + 1 = i
        BY <3>2, <2>2, <1>1
      <4>2. d[i] = g[i - 1] /\ Place(g[i - 1]) \in 2..(1 + MaxVersion)
        BY <4>1, <2>4, <1>1
      <4> QED
        BY <4>2, <1>2
    <3> QED
      BY <3>1, <3>2
  <2>7. Occurs(p, d)
    BY <2>3 DEF Occurs
  <2>8. ASSUME NEW v \in 1..MaxVersion, env.file[[dir |-> LibDir, version |-> v]].there
        PROVE  Occurs([dir |-> LibDir, version |-> v], d)
    <3>1. PICK i \in 1..Len(g) : g[i] = [dir |-> LibDir, version |-> v]
      BY <2>8, <1>1 DEF Occurs
    <3> QED
      BY <3>1, <2>4 DEF Occurs
  <2> QED
    BY <2>5, <2>6, <2>7, <2>8, <1>10 DEF d, p
<1> QED
  BY <1>9, <1>10

\* The names that are left to the dynamic loader.
LEMMA SystemCandidatesInPlace ==
  ASSUME env \in Environment
  PROVE  /\ InPlace(SystemCandidates)
         /\ \A i \in 1..Len(SystemCandidates) : Place(SystemCandidates[i]) >= 2 + MaxVersion
         /\ Occurs([dir |-> SystemDir, version |-> 0], SystemCandidates)
         /\ ~env.darwin => Occurs([dir |-> SystemDir, version |-> 1], SystemCandidates)
<1> DEFINE p == [dir |-> SystemDir, version |-> 0]
           q == [dir |-> SystemDir, version |-> 1]
           s == SystemCandidates
<1>1. MaxVersion \in Nat /\ MaxVersion >= 1
  BY MaxVersionAssumption
<1>2. p \in Path /\ q \in Path
  BY <1>1 DEF Path
<1>3. Place(p) = 2 + MaxVersion /\ Place(q) = 3 + MaxVersion
  BY <1>1, DirsAssumption DEF Place
<1>4. s = IF env.darwin THEN <<p>> ELSE <<p, q>>
  BY DEF SystemCandidates
<1> HIDE DEF p, q, s
<1>5. CASE env.darwin
  <2>1. s \in Seq(Path) /\ Len(s) = 1 /\ s[1] = p
    BY <1>2, <1>4, <1>5
  <2>2. InPlace(s) /\ Occurs(p, s)
    BY <2>1 DEF InPlace, Occurs
  <2>3. \A i \in 1..Len(s) : Place(s[i]) >= 2 + MaxVersion
    BY <2>1, <1>1, <1>3
  <2> QED
    BY <2>2, <2>3, <1>5 DEF p, q, s
<1>6. CASE ~env.darwin
  <2>1. s \in Seq(Path) /\ Len(s) = 2 /\ s[1] = p /\ s[2] = q
    BY <1>2, <1>4, <1>6
  <2>2. \A i \in 1..Len(s) : i = 1 \/ i = 2
    BY <2>1
  <2>3. \A i, j \in 1..Len(s) : i < j => Place(s[i]) < Place(s[j])
    BY <2>1, <2>2, <1>1, <1>3
  <2>4. InPlace(s)
    BY <2>1, <2>3 DEF InPlace
  <2>5. Occurs(p, s) /\ Occurs(q, s)
    BY <2>1 DEF Occurs
  <2>6. \A i \in 1..Len(s) : Place(s[i]) >= 2 + MaxVersion
    BY <2>1, <2>2, <1>1, <1>3
  <2> QED
    BY <2>4, <2>5, <2>6 DEF p, q, s
<1> QED
  BY <1>5, <1>6

\* The list without the override.
Promised ==
  (IF env.scanDir THEN DirCandidates(LibDir) ELSE <<>>) \o SystemCandidates

LEMMA OccursInConcat ==
  ASSUME NEW s \in Seq(Path), NEW t \in Seq(Path), NEW p, Occurs(p, s) \/ Occurs(p, t)
  PROVE  Occurs(p, s \o t)
<1>1. CASE Occurs(p, s)
  <2>1. PICK i \in 1..Len(s) : s[i] = p
    BY <1>1 DEF Occurs
  <2>2. (s \o t)[i] = p /\ i \in 1..Len(s \o t)
    BY <2>1, ConcatParts
  <2> QED
    BY <2>2 DEF Occurs
<1>2. CASE Occurs(p, t)
  <2>1. PICK j \in 1..Len(t) : t[j] = p
    BY <1>2 DEF Occurs
  <2>2. (s \o t)[Len(s) + j] = p /\ Len(s) + j \in 1..Len(s \o t)
    BY <2>1, ConcatParts
  <2> QED
    BY <2>2 DEF Occurs
<1> QED
  BY <1>1, <1>2

LEMMA PromisedInPlace ==
  ASSUME env \in Environment
  PROVE  /\ InPlace(Promised)
         /\ \A p \in Path : Reachable(p) /\ Loadable(p) /\ p # env.extraPath
                            => Occurs(p, Promised)
<1> DEFINE d == IF env.scanDir THEN DirCandidates(LibDir) ELSE <<>>
           y == SystemCandidates
<1>1. MaxVersion \in Nat
  BY MaxVersionAssumption
<1>2. InPlace(d) /\ \A i \in 1..Len(d) : Place(d[i]) \in 1..(1 + MaxVersion)
  <2>1. CASE env.scanDir
    BY <2>1, DirCandidatesInPlace
  <2>2. CASE ~env.scanDir
    <3>1. d = <<>>
      BY <2>2
    <3> HIDE DEF d
    <3>2. d \in Seq(Path) /\ Len(d) = 0 /\ 1..Len(d) = {}
      BY <3>1
    <3> QED
      BY <3>2 DEF InPlace
  <2> QED
    BY <2>1, <2>2
<1>3. /\ InPlace(y) /\ \A i \in 1..Len(y) : Place(y[i]) >= 2 + MaxVersion
      /\ Occurs([dir |-> SystemDir, version |-> 0], y)
      /\ ~env.darwin => Occurs([dir |-> SystemDir, version |-> 1], y)
  BY SystemCandidatesInPlace
<1>4. env.scanDir =>
        /\ Occurs([dir |-> LibDir, version |-> 0], d)
        /\ \A v \in 1..MaxVersion :
             ~env.darwin /\ env.file[[dir |-> LibDir, version |-> v]].there
             => Occurs([dir |-> LibDir, version |-> v], d)
  BY DirCandidatesInPlace
<1>5. Promised = d \o y
  BY DEF Promised
<1> HIDE DEF d, y
<1>6. InPlace(d \o y)
  <2>1. ASSUME NEW i \in 1..Len(d), NEW j \in 1..Len(y) PROVE Place(d[i]) < Place(y[j])
    <3>1. /\ y[j] \in Path
          /\ Place(d[i]) \in 1..(1 + MaxVersion) /\ Place(y[j]) >= 2 + MaxVersion
      BY <1>2, <1>3 DEF InPlace
    <3>2. Place(y[j]) \in Nat
      BY <3>1, PlaceIsNat
    <3> QED
      BY <1>1, <3>1, <3>2
  <2> QED
    BY <2>1, <1>2, <1>3, ConcatInPlace
<1>7. d \in Seq(Path) /\ y \in Seq(Path)
  BY <1>2, <1>3 DEF InPlace
<1>8. ASSUME NEW p \in Path, Reachable(p), Loadable(p), p # env.extraPath
      PROVE  Occurs(p, d \o y)
  <2>1. p = [dir |-> p.dir, version |-> p.version] /\ p.version \in 0..MaxVersion
    BY DEF Path
  <2>2. env.file[p].there
    BY <1>8 DEF Loadable
  <2>3. CASE p.dir = LibDir /\ env.scanDir /\ (env.darwin => p.version = 0)
    <3>1. CASE p.version = 0
      BY <3>1, <2>1, <2>3, <1>4, <1>7, OccursInConcat
    <3>2. CASE p.version # 0
      <4>1. p.version \in 1..MaxVersion /\ ~env.darwin
        BY <3>2, <2>1, <2>3
      <4>2. p = [dir |-> LibDir, version |-> p.version]
        BY <2>1, <2>3
      <4>3. Occurs(p, d)
        BY <4>1, <4>2, <2>2, <2>3, <1>4
      <4> QED
        BY <4>3, <1>7, OccursInConcat
    <3> QED
      BY <3>1, <3>2
  <2>4. CASE p.dir = SystemDir /\ p.version <= (IF env.darwin THEN 0 ELSE 1)
    <3>1. p.version = 0 \/ (p.version = 1 /\ ~env.darwin)
      BY <2>1, <2>4
    <3>2. Occurs(p, y)
      BY <3>1, <2>1, <2>4, <1>3
    <3> QED
      BY <3>2, <1>7, OccursInConcat
  <2> QED
    BY <2>3, <2>4, <1>8 DEF Reachable
<1> QED
  BY <1>5, <1>6, <1>8

\* The candidates come in the order of their ranks, and every file that is
\* promised and can be loaded is one of them.
THEOREM CandidatesInRank ==
  ASSUME env \in Environment
  PROVE  /\ Candidates \in Seq(Path)
         /\ \A i, j \in 1..Len(Candidates) :
              i < j => Rank(Candidates[i]) <= Rank(Candidates[j])
         /\ \A p \in Path : Reachable(p) /\ Loadable(p) => Occurs(p, Candidates)
<1> DEFINE e == env.extraPath
           x == IF e = Null THEN <<>> ELSE <<e>>
           r == Promised
           w == x \o r
           out == Candidates
<1>1. e \in Path \cup {Null} /\ Null \notin Path
  BY NullAssumption DEF Environment
<1>2. /\ InPlace(r) /\ r \in Seq(Path)
      /\ \A p \in Path : Reachable(p) /\ Loadable(p) /\ p # e => Occurs(p, r)
  BY PromisedInPlace DEF InPlace
<1>3. x \in Seq(Path)
  BY <1>1
<1>4. w \in Seq(Path) /\ Len(w) \in Nat
  BY <1>2, <1>3
<1>5. out = Dedupe(w)
  <2> DEFINE d == IF env.scanDir THEN DirCandidates(LibDir) ELSE <<>>
             y == SystemCandidates
  <2>1. y \in Seq(Path)
    BY SystemCandidatesInPlace DEF InPlace
  <2>2. d \in Seq(Path)
    BY DirCandidatesInPlace DEF InPlace
  <2>3. r = d \o y /\ out = Dedupe((x \o d) \o y)
    BY DEF Promised, Candidates
  <2> HIDE DEF d, y, x, r, out
  <2>4. (x \o d) \o y = x \o (d \o y)
    BY <2>1, <2>2, <1>3, ConcatAssociative
  <2> QED
    BY <2>3, <2>4
<1>6. \A p \in Path : Rank(p) = IF p = e THEN 0 ELSE Place(p)
  BY DEF Rank, Place
<1>7. \A p \in Path : Rank(p) \in Nat
  BY <1>6, PlaceIsNat
<1> HIDE DEF r, w, out
<1>8. PICK at : FirstsOf(out, w, Len(w), at)
  BY <1>4, <1>5, DedupeKeepsFirsts
<1>9. /\ out \in Seq(ToSet(w)) /\ Len(out) \in Nat
      /\ at \in [1..Len(out) -> 1..Len(w)]
      /\ \A i \in 1..Len(out) : /\ out[i] = w[at[i]]
                                /\ \A j \in 1..(at[i] - 1) : w[j] # out[i]
      /\ \A i, j \in 1..Len(out) : i < j => at[i] < at[j]
      /\ \A j \in 1..Len(w) : \E i \in 1..Len(out) : out[i] = w[j]
  BY <1>8 DEF FirstsOf
<1>10. ASSUME NEW i \in 1..Len(out) PROVE out[i] \in Path /\ at[i] \in 1..Len(w)
  <2>1. at[i] \in 1..Len(w) /\ out[i] = w[at[i]]
    BY <1>9
  <2>2. w[at[i]] \in Path
    BY <2>1, <1>4
  <2> QED
    BY <2>1, <2>2
<1>11. out \in Seq(Path)
  <2>1. out \in [1..Len(out) -> ToSet(w)]
    BY <1>9
  <2>2. out \in [1..Len(out) -> Path]
    BY <2>1, <1>10
  <2> QED
    BY <2>2, <1>9
\* Beyond the override, the list is that of the promised names.
<1>12. ASSUME NEW i \in 1..Len(out), NEW j \in 1..Len(out), i < j
       PROVE  Rank(out[i]) <= Rank(out[j])
  <2>1. /\ out[i] \in Path /\ out[j] \in Path
        /\ at[i] \in 1..Len(w) /\ at[j] \in 1..Len(w) /\ at[i] < at[j]
        /\ out[i] = w[at[i]] /\ out[j] = w[at[j]]
    BY <1>9, <1>10, <1>12
  <2>2. CASE e = Null
    <3>1. w = r
      BY <2>2, <1>2, ConcatEmptySeq DEF w
    <3>2. Place(out[i]) < Place(out[j])
      BY <2>1, <3>1, <1>2 DEF InPlace
    <3>3. Rank(out[i]) = Place(out[i]) /\ Rank(out[j]) = Place(out[j])
      BY <2>1, <2>2, <1>1, <1>6
    <3>4. Place(out[i]) \in Nat /\ Place(out[j]) \in Nat
      BY <2>1, PlaceIsNat
    <3> QED
      BY <3>2, <3>3, <3>4
  <2>3. CASE e # Null
    <3>1. x = <<e>> /\ e \in Path
      BY <2>3, <1>1
    <3> HIDE DEF x
    <3>2. Len(x) = 1 /\ x[1] = e
      BY <3>1
    <3>3. /\ Len(w) = 1 + Len(r) /\ w[1] = e
          /\ \A k \in 1..Len(r) : w[1 + k] = r[k]
      <4>1. /\ Len(x \o r) = Len(x) + Len(r)
            /\ \A k \in 1..Len(x) : (x \o r)[k] = x[k]
            /\ \A k \in 1..Len(r) : (x \o r)[Len(x) + k] = r[k]
        BY <1>2, <1>3, ConcatParts
      <4>2. 1 \in 1..Len(x)
        BY <3>2
      <4> QED
        BY <4>1, <4>2, <3>2 DEF w
    <3>4. CASE at[i] = 1
      <4>1. Rank(out[i]) = 0 /\ Rank(out[j]) \in Nat
        BY <3>4, <2>1, <3>3, <1>6, <1>7
      <4> QED
        BY <4>1
    <3>5. CASE at[i] # 1
      <4>1. 1 \in 1..(at[i] - 1) /\ 1 \in 1..(at[j] - 1)
        BY <3>5, <2>1
      <4>2. w[1] # out[i] /\ w[1] # out[j]
        BY <4>1, <1>9, Zenon
      <4>3. Rank(out[i]) = Place(out[i]) /\ Rank(out[j]) = Place(out[j])
        BY <4>2, <3>3, <2>1, <1>6
      <4>4. /\ at[i] - 1 \in 1..Len(r) /\ at[j] - 1 \in 1..Len(r)
            /\ at[i] - 1 < at[j] - 1
            /\ 1 + (at[i] - 1) = at[i] /\ 1 + (at[j] - 1) = at[j]
        BY <3>5, <2>1, <3>3, <1>2, SMTT(30)
      <4>5. out[i] = r[at[i] - 1] /\ out[j] = r[at[j] - 1]
        <5>1. w[1 + (at[i] - 1)] = r[at[i] - 1] /\ w[1 + (at[j] - 1)] = r[at[j] - 1]
          BY <4>4, <3>3
        <5> QED
          BY <5>1, <4>4, <2>1
      <4>6. Place(out[i]) < Place(out[j])
        BY <4>4, <4>5, <1>2 DEF InPlace
      <4>7. Place(out[i]) \in Nat /\ Place(out[j]) \in Nat
        BY <2>1, PlaceIsNat
      <4> QED
        BY <4>3, <4>6, <4>7
    <3> QED
      BY <3>4, <3>5
  <2> QED
    BY <2>2, <2>3
<1>13. ASSUME NEW p \in Path, Reachable(p), Loadable(p) PROVE Occurs(p, out)
  <2>1. Occurs(p, w)
    <3>1. CASE p = e
      <4>1. x = <<p>>
        BY <3>1, <1>1
      <4> HIDE DEF x
      <4>2. Len(x) = 1 /\ x[1] = p
        BY <4>1
      <4>3. Occurs(p, x)
        BY <4>2 DEF Occurs
      <4> QED
        BY <4>3, <1>2, <1>3, OccursInConcat DEF w
    <3>2. CASE p # e
      <4>1. Occurs(p, r)
        BY <3>2, <1>13, <1>2
      <4> QED
        BY <4>1, <1>2, <1>3, OccursInConcat DEF w
    <3> QED
      BY <3>1, <3>2
  <2>2. PICK j \in 1..Len(w) : w[j] = p
    BY <2>1 DEF Occurs
  <2>3. PICK i \in 1..Len(out) : out[i] = w[j]
    BY <1>9
  <2> QED
    BY <2>2, <2>3 DEF Occurs
<1> QED
  BY <1>11, <1>12, <1>13 DEF out

-----------------------------------------------------------------------------
(* The Once and its body.                                                  *)

InBody(g) == pc[g] \in {"openLibrary", "open", "register"}

\* One goroutine at a time runs the body, while once is "running"; nobody
\* leaves Once.Do before the body ended.
OneBody ==
  /\ \A g \in Callers : /\ InBody(g) => once = "running"
                        /\ pc[g] \in {"return", "returned"} => once = "done"
  /\ \A g, h \in Callers : InBody(g) /\ InBody(h) => g = h

\* What is left of the candidates is in order, and holds every file that may
\* be loaded: the ones that were tried could not be.
Searching ==
  /\ \A i, j \in 1..Len(candidates) : i < j => Rank(candidates[i]) <= Rank(candidates[j])
  /\ \A p \in Path : Reachable(p) /\ Loadable(p) => Occurs(p, candidates)

BodyState ==
  /\ once = "new" => handle = Null
  /\ once # "done" => loadErr = Null
  /\ \A g \in Callers : /\ pc[g] = "openLibrary" => handle = Null
                        /\ pc[g] = "open" => handle = Null /\ Searching
                        /\ pc[g] = "register" => handle # Null

\* A function variable is bound to the library that was opened or not at
\* all; once the body ended without an error they all are.
Bindings ==
  /\ \A s \in Symbols : bound[s] \in {Null, handle}
  /\ once = "done" /\ loadErr = Null => /\ handle # Null
                                        /\ \A s \in Symbols : bound[s] = handle

\* What Load answered is still what loadErr holds.
Answers ==
  \A g \in Callers :
    answer[g] = IF pc[g] # "returned" THEN Null
                ELSE IF loadErr = Null THEN "nil" ELSE loadErr

Inv == TypeOK /\ OneBody /\ BodyState /\ Bindings /\ FirstLoadableWins /\ Answers

Labels == {"idle", "once", "openLibrary", "open", "register", "return", "returned"}

LEMMA SymbolNames ==
  /\ \A i \in DOMAIN SymbolOrder : SymbolOrder[i] \in Symbols
  /\ \A s \in Symbols : s # Null /\ s # "open" /\ s # "nil"
  /\ Null # "open" /\ Null # "nil" /\ Null \notin Path
<1>1. \A i \in DOMAIN SymbolOrder : SymbolOrder[i] \in Symbols
  BY DEF Symbols
<1>2. \A s \in Symbols : s # Null /\ s # "open" /\ s # "nil"
  BY NullAssumption, SymbolsAssumption
<1>3. Null # "open" /\ Null # "nil" /\ Null \notin Path
  BY NullAssumption
<1> QED
  BY <1>1, <1>2, <1>3

\* The environment is read once: what a path is worth never changes.
LEMMA EnvStays ==
  ASSUME [Next]_vars
  PROVE  /\ env' = env
         /\ \A p : Rank(p)' = Rank(p)
         /\ \A p : Reachable(p)' = Reachable(p)
         /\ \A p : Loadable(p)' = Loadable(p)
<1>1. env' = env
  BY DEF Next, vars, Step, Call, OnceEnter, OnceSkip, OpenLibrary, DlopenOk, DlopenFails,
         OpenFails, RegisterSymbol, RegisterFails, RegisterEnds, Return
<1> QED
  BY <1>1 DEF Rank, Reachable, Loadable

\* A goroutine moves on alone.
LEMMA GotoMoves ==
  ASSUME TypeOK, NEW g \in Callers, NEW label \in Labels, Goto(g, label)
  PROVE  /\ pc' \in [Callers -> Labels]
         /\ pc'[g] = label
         /\ \A h \in Callers : h # g => pc'[h] = pc[h]
BY DEF TypeOK, Goto, Labels

LEMMA HeadTail ==
  ASSUME NEW s \in Seq(Path), s # <<>>
  PROVE  /\ Head(s) \in Path /\ Tail(s) \in Seq(Path) /\ Len(s) \in Nat /\ Len(s) >= 1
         /\ Head(s) = s[1]
         /\ Len(Tail(s)) = Len(s) - 1
         /\ \A i \in 1..Len(Tail(s)) : Tail(s)[i] = s[i + 1]
<1>1. /\ Head(s) \in Path /\ Tail(s) \in Seq(Path) /\ Len(Tail(s)) = Len(s) - 1
      /\ \A i \in 1..Len(Tail(s)) : Tail(s)[i] = s[i + 1]
  BY HeadTailProperties
<1>2. Len(s) \in Nat /\ Len(s) >= 1 /\ Head(s) = s[1]
  BY EmptySeq
<1> QED
  BY <1>1, <1>2

LEMMA TypeStep ==
  ASSUME TypeOK, [Next]_vars
  PROVE  TypeOK'
<1>0. /\ env \in Environments /\ env \in Environment /\ once \in {"new", "running", "done"}
      /\ candidates \in Seq(Path) /\ errs \in Seq(Path) /\ handle \in Path \cup {Null}
      /\ bound \in [Symbols -> Path \cup {Null}]
      /\ loadErr \in Symbols \cup {Null, "open"}
      /\ pc \in [Callers -> Labels]
      /\ answer \in [Callers -> Symbols \cup {Null, "open", "nil"}]
  BY EnvironmentsAssumption DEF TypeOK, Labels
<1>a. env' \in Environments
  BY <1>0, EnvStays
<1>1. CASE UNCHANGED vars
  BY <1>1, <1>0 DEF vars, library, TypeOK, Labels
<1>2. ASSUME NEW g \in Callers, Call(g) PROVE TypeOK'
  BY <1>2, <1>0, GotoMoves DEF Call, library, TypeOK, Labels
<1>3. ASSUME NEW g \in Callers, OnceEnter(g) PROVE TypeOK'
  BY <1>3, <1>0, GotoMoves DEF OnceEnter, library, TypeOK, Labels
<1>4. ASSUME NEW g \in Callers, OnceSkip(g) PROVE TypeOK'
  BY <1>4, <1>0, GotoMoves DEF OnceSkip, library, TypeOK, Labels
<1>5. ASSUME NEW g \in Callers, OpenLibrary(g) PROVE TypeOK'
  <2>1. candidates' \in Seq(Path)
    BY <1>0, <1>5, CandidatesInRank DEF OpenLibrary
  <2> QED
    BY <2>1, <1>5, <1>0, GotoMoves DEF OpenLibrary, TypeOK, Labels
<1>6. ASSUME NEW g \in Callers, DlopenOk(g) PROVE TypeOK'
  <2>1. handle' \in Path /\ candidates' \in Seq(Path)
    BY <1>0, <1>6, HeadTail DEF DlopenOk
  <2> QED
    BY <2>1, <1>6, <1>0, GotoMoves DEF DlopenOk, TypeOK, Labels
<1>7. ASSUME NEW g \in Callers, DlopenFails(g) PROVE TypeOK'
  <2>1. errs' \in Seq(Path) /\ candidates' \in Seq(Path)
    BY <1>0, <1>7, HeadTail DEF DlopenFails
  <2> QED
    BY <2>1, <1>7, <1>0 DEF DlopenFails, TypeOK, Labels
<1>8. ASSUME NEW g \in Callers, OpenFails(g) PROVE TypeOK'
  BY <1>8, <1>0, GotoMoves DEF OpenFails, EndOnce, library, TypeOK, Labels
<1>9. ASSUME NEW g \in Callers, RegisterSymbol(g) PROVE TypeOK'
  <2>1. bound' \in [Symbols -> Path \cup {Null}]
    BY <1>9, <1>0 DEF RegisterSymbol
  <2> QED
    BY <2>1, <1>9, <1>0 DEF RegisterSymbol, TypeOK, Labels
<1>10. ASSUME NEW g \in Callers, RegisterFails(g) PROVE TypeOK'
  <2>1. loadErr' \in Symbols /\ once' = "done" /\ Goto(g, "return")
    BY <1>10, SymbolNames DEF RegisterFails, EndOnce, Unbound
  <2> QED
    BY <2>1, <1>10, <1>0, GotoMoves DEF RegisterFails, library, TypeOK, Labels
<1>11. ASSUME NEW g \in Callers, RegisterEnds(g) PROVE TypeOK'
  BY <1>11, <1>0, GotoMoves DEF RegisterEnds, EndOnce, library, TypeOK, Labels
<1>12. ASSUME NEW g \in Callers, Return(g) PROVE TypeOK'
  <2>1. answer' \in [Callers -> Symbols \cup {Null, "open", "nil"}]
    BY <1>12, <1>0 DEF Return
  <2> QED
    BY <2>1, <1>12, <1>0, GotoMoves DEF Return, library, TypeOK, Labels
<1> QED
  BY <1>1, <1>2, <1>3, <1>4, <1>5, <1>6, <1>7, <1>8, <1>9, <1>10, <1>11, <1>12 DEF Next, Step

\* One body at a time.
LEMMA OneBodyStep ==
  ASSUME TypeOK, OneBody, [Next]_vars
  PROVE  OneBody'
<1> USE DEF OneBody, InBody
<1>1. CASE UNCHANGED vars
  BY <1>1 DEF vars
<1>2. ASSUME NEW g \in Callers, Call(g) PROVE OneBody'
  <2>1. once' = once /\ pc[g] = "idle" /\ pc'[g] = "once"
    BY <1>2, GotoMoves DEF Call, Labels
  <2>2. \A h \in Callers : h # g => pc'[h] = pc[h]
    BY <1>2, GotoMoves DEF Call, Labels
  <2> QED
    BY <2>1, <2>2
<1>3. ASSUME NEW g \in Callers, OnceEnter(g) PROVE OneBody'
  <2>1. once = "new" /\ once' = "running" /\ pc'[g] = "openLibrary"
    BY <1>3, GotoMoves DEF OnceEnter, Labels
  <2>2. \A h \in Callers : h # g => pc'[h] = pc[h]
    BY <1>3, GotoMoves DEF OnceEnter, Labels
  <2> QED
    BY <2>1, <2>2
<1>4. ASSUME NEW g \in Callers, OnceSkip(g) PROVE OneBody'
  <2>1. once = "done" /\ once' = "done" /\ pc'[g] = "return"
    BY <1>4, GotoMoves DEF OnceSkip, Labels
  <2>2. \A h \in Callers : h # g => pc'[h] = pc[h]
    BY <1>4, GotoMoves DEF OnceSkip, Labels
  <2> QED
    BY <2>1, <2>2
\* The goroutine in the body goes on in it.
<1>5. ASSUME NEW g \in Callers, OpenLibrary(g) \/ DlopenOk(g) PROVE OneBody'
  <2>1. once' = once /\ InBody(g) /\ pc'[g] \in {"open", "register"}
    BY <1>5, GotoMoves DEF OpenLibrary, DlopenOk, Labels
  <2>2. \A h \in Callers : h # g => pc'[h] = pc[h]
    BY <1>5, GotoMoves DEF OpenLibrary, DlopenOk, Labels
  <2> QED
    BY <2>1, <2>2
<1>6. ASSUME NEW g \in Callers, DlopenFails(g) \/ RegisterSymbol(g) PROVE OneBody'
  <2>1. once' = once /\ pc' = pc
    BY <1>6 DEF DlopenFails, RegisterSymbol
  <2> QED
    BY <2>1
\* The goroutine in the body leaves it; no other is there.
<1>7. ASSUME NEW g \in Callers, OpenFails(g) \/ RegisterFails(g) \/ RegisterEnds(g)
      PROVE  OneBody'
  <2>1. once' = "done" /\ InBody(g) /\ pc'[g] = "return"
    BY <1>7, GotoMoves DEF OpenFails, RegisterFails, RegisterEnds, EndOnce, Labels
  <2>2. \A h \in Callers : h # g => pc'[h] = pc[h]
    BY <1>7, GotoMoves DEF OpenFails, RegisterFails, RegisterEnds, EndOnce, Labels
  <2>3. \A h \in Callers : ~InBody(h)'
    BY <2>1, <2>2
  <2> QED
    BY <2>1, <2>3
<1>8. ASSUME NEW g \in Callers, Return(g) PROVE OneBody'
  <2>1. once' = once /\ pc[g] = "return" /\ pc'[g] = "returned"
    BY <1>8, GotoMoves DEF Return, Labels
  <2>2. \A h \in Callers : h # g => pc'[h] = pc[h]
    BY <1>8, GotoMoves DEF Return, Labels
  <2> QED
    BY <2>1, <2>2
<1> QED
  BY <1>1, <1>2, <1>3, <1>4, <1>5, <1>6, <1>7, <1>8 DEF Next, Step

LEMMA SearchingStays ==
  ASSUME [Next]_vars, candidates' = candidates, Searching
  PROVE  Searching'
<1>1. env' = env
  BY EnvStays
<1> QED
  BY <1>1 DEF Searching, Rank, Reachable, Loadable

\* The search begins with the whole list.
LEMMA SearchBegins ==
  ASSUME [Next]_vars, env \in Environment, candidates' = Candidates
  PROVE  Searching'
<1> DEFINE c == Candidates
<1>1. env' = env
  BY EnvStays
<1>2. /\ \A i, j \in 1..Len(c) : i < j => Rank(c[i]) <= Rank(c[j])
      /\ \A p \in Path : Reachable(p) /\ Loadable(p) => Occurs(p, c)
  BY CandidatesInRank
<1> HIDE DEF c
<1>3. candidates' = c
  BY DEF c
<1> QED
  BY <1>1, <1>2, <1>3 DEF Searching, Rank, Reachable, Loadable, Occurs

\* A candidate that cannot be loaded may go.
LEMMA SearchGoesOn ==
  ASSUME TypeOK, [Next]_vars, Searching, candidates # <<>>, ~Loadable(Head(candidates)),
         candidates' = Tail(candidates)
  PROVE  Searching'
<1> DEFINE c == candidates
           t == Tail(candidates)
<1>1. env' = env
  BY EnvStays
<1>2. c \in Seq(Path)
  BY DEF TypeOK
<1>3. /\ Head(c) = c[1] /\ Len(t) = Len(c) - 1 /\ Len(c) \in Nat /\ Len(c) >= 1
      /\ \A i \in 1..Len(t) : t[i] = c[i + 1]
  BY <1>2, HeadTail
<1>4. /\ \A i, j \in 1..Len(c) : i < j => Rank(c[i]) <= Rank(c[j])
      /\ \A p \in Path : Reachable(p) /\ Loadable(p) => Occurs(p, c)
  BY DEF Searching
<1>5. ~Loadable(c[1])
  BY <1>3
<1> HIDE DEF c, t
<1>6. ASSUME NEW i \in 1..Len(t), NEW j \in 1..Len(t), i < j PROVE Rank(t[i]) <= Rank(t[j])
  <2>1. i + 1 \in 1..Len(c) /\ j + 1 \in 1..Len(c) /\ i + 1 < j + 1
    BY <1>3, <1>6
  <2>2. Rank(c[i + 1]) <= Rank(c[j + 1])
    BY <2>1, <1>4
  <2>3. t[i] = c[i + 1] /\ t[j] = c[j + 1]
    BY <1>3
  <2> QED
    BY <2>2, <2>3
<1>7. ASSUME NEW p \in Path, Reachable(p), Loadable(p) PROVE Occurs(p, t)
  <2>1. PICK i \in 1..Len(c) : c[i] = p
    BY <1>4, <1>7 DEF Occurs
  <2>2. i # 1
    BY <2>1, <1>5, <1>7
  <2>3. i - 1 \in 1..Len(t) /\ (i - 1) + 1 = i
    BY <2>2, <1>3
  <2>4. t[i - 1] = c[i]
    BY <2>3, <1>3
  <2> QED
    BY <2>1, <2>3, <2>4 DEF Occurs
<1>8. candidates' = t
  BY DEF t
<1> QED
  BY <1>1, <1>6, <1>7, <1>8, ZenonT(60) DEF Searching, Rank, Reachable, Loadable, Occurs

\* The first candidate that can be loaded is the best one.
LEMMA HeadIsBest ==
  ASSUME TypeOK, Searching, candidates # <<>>
  PROVE  \A p \in Path : Reachable(p) /\ Loadable(p) => Rank(Head(candidates)) <= Rank(p)
<1> DEFINE c == candidates
<1>1. c \in Seq(Path)
  BY DEF TypeOK
<1>2. Head(c) = c[1] /\ Len(c) \in Nat /\ Len(c) >= 1 /\ Head(c) \in Path
  BY <1>1, HeadTail
<1>4. \A p \in Path : Rank(p) \in Nat
  BY PlaceIsNat DEF Rank, Place
<1>5. /\ \A i, j \in 1..Len(c) : i < j => Rank(c[i]) <= Rank(c[j])
      /\ \A p \in Path : Reachable(p) /\ Loadable(p) => Occurs(p, c)
  BY DEF Searching
<1> HIDE DEF c
<1>6. ASSUME NEW p \in Path, Reachable(p), Loadable(p) PROVE Rank(c[1]) <= Rank(p)
  <2>1. PICK i \in 1..Len(c) : c[i] = p
    BY <1>5, <1>6 DEF Occurs
  <2>2. CASE i = 1
    BY <2>1, <2>2, <1>2, <1>4
  <2>3. CASE i # 1
    <3>1. 1 \in 1..Len(c) /\ 1 < i
      BY <2>3, <1>2
    <3> QED
      BY <3>1, <2>1, <1>5
  <2> QED
    BY <2>2, <2>3
<1> QED
  BY <1>2, <1>6 DEF c

LEMMA BodyStateStep ==
  ASSUME TypeOK, OneBody, BodyState, [Next]_vars
  PROVE  BodyState'
<1>0. env \in Environment
  BY EnvironmentsAssumption DEF TypeOK
<1>a. /\ once = "new" => handle = Null
      /\ once # "done" => loadErr = Null
      /\ \A g \in Callers : /\ pc[g] = "openLibrary" => handle = Null
                            /\ pc[g] = "open" => handle = Null /\ Searching
                            /\ pc[g] = "register" => handle # Null
  BY DEF BodyState
<1>b. ASSUME NEW g \in Callers, InBody(g)
      PROVE  once = "running" /\ loadErr = Null /\ \A h \in Callers : InBody(h) => h = g
  BY <1>a, <1>b DEF OneBody
<1>c. Null \notin Path
  BY SymbolNames
<1> USE DEF InBody
<1>1. CASE UNCHANGED vars
  <2>1. /\ once' = once /\ handle' = handle /\ loadErr' = loadErr /\ pc' = pc
        /\ candidates' = candidates
    BY <1>1 DEF vars, library
  <2> QED
    BY <2>1, <1>a, SearchingStays DEF BodyState
\* Outside the body.
<1>2. ASSUME NEW g \in Callers, Call(g) \/ OnceSkip(g) \/ Return(g) PROVE BodyState'
  <2>1. /\ once' = once /\ handle' = handle /\ loadErr' = loadErr
        /\ candidates' = candidates
    BY <1>2 DEF Call, OnceSkip, Return, library
  <2>2. pc'[g] \in {"once", "return", "returned"}
    BY <1>2, GotoMoves DEF Call, OnceSkip, Return, Labels
  <2>3. \A h \in Callers : h # g => pc'[h] = pc[h]
    BY <1>2, GotoMoves DEF Call, OnceSkip, Return, Labels
  <2> QED
    BY <2>1, <2>2, <2>3, <1>a, SearchingStays DEF BodyState
<1>3. ASSUME NEW g \in Callers, OnceEnter(g) PROVE BodyState'
  <2>1. /\ once = "new" /\ once' = "running" /\ handle' = handle /\ loadErr' = loadErr
        /\ candidates' = candidates
    BY <1>3 DEF OnceEnter, library
  <2>2. pc'[g] = "openLibrary"
    BY <1>3, GotoMoves DEF OnceEnter, Labels
  <2>3. \A h \in Callers : h # g => pc'[h] = pc[h]
    BY <1>3, GotoMoves DEF OnceEnter, Labels
  <2> QED
    BY <2>1, <2>2, <2>3, <1>a, SearchingStays DEF BodyState
<1>4. ASSUME NEW g \in Callers, OpenLibrary(g) PROVE BodyState'
  <2>1. /\ pc[g] = "openLibrary" /\ once' = once /\ handle' = handle /\ loadErr' = loadErr
        /\ candidates' = Candidates
    BY <1>4 DEF OpenLibrary
  <2>2. pc'[g] = "open"
    BY <1>4, GotoMoves DEF OpenLibrary, Labels
  <2>3. \A h \in Callers : h # g => pc'[h] = pc[h] /\ ~InBody(h)
    BY <1>4, <1>b, <2>1, GotoMoves DEF OpenLibrary, Labels
  <2>4. Searching'
    BY <2>1, <1>0, SearchBegins
  <2> QED
    BY <2>1, <2>2, <2>3, <2>4, <1>a, <1>b DEF BodyState
<1>5. ASSUME NEW g \in Callers, DlopenOk(g) PROVE BodyState'
  <2>1. pc[g] = "open" /\ once' = once /\ handle' = Head(candidates) /\ loadErr' = loadErr
    BY <1>5 DEF DlopenOk
  <2>2. pc'[g] = "register"
    BY <1>5, GotoMoves DEF DlopenOk, Labels
  <2>3. \A h \in Callers : h # g => pc'[h] = pc[h] /\ ~InBody(h)
    BY <1>5, <1>b, <2>1, GotoMoves DEF DlopenOk, Labels
  <2>4. handle' # Null
    BY <1>5, <1>c, <2>1, HeadTail DEF DlopenOk, TypeOK
  <2> QED
    BY <2>1, <2>2, <2>3, <2>4, <1>a, <1>b DEF BodyState
<1>6. ASSUME NEW g \in Callers, DlopenFails(g) PROVE BodyState'
  <2>1. /\ pc[g] = "open" /\ once' = once /\ handle' = handle /\ loadErr' = loadErr /\ pc' = pc
    BY <1>6 DEF DlopenFails
  <2>2. Searching'
    BY <1>6, <2>1, <1>a, SearchGoesOn DEF DlopenFails
  <2> QED
    BY <2>1, <2>2, <1>a DEF BodyState
\* The body ends.
<1>7. ASSUME NEW g \in Callers, OpenFails(g) \/ RegisterFails(g) \/ RegisterEnds(g)
      PROVE  BodyState'
  <2>1. InBody(g) /\ once' = "done"
    BY <1>7 DEF OpenFails, RegisterFails, RegisterEnds, EndOnce
  <2>2. pc'[g] = "return"
    BY <1>7, GotoMoves DEF OpenFails, RegisterFails, RegisterEnds, EndOnce, Labels
  <2>3. \A h \in Callers : h # g => pc'[h] = pc[h] /\ ~InBody(h)
    BY <1>7, <1>b, <2>1, GotoMoves
    DEF OpenFails, RegisterFails, RegisterEnds, EndOnce, Labels
  <2> QED
    BY <2>1, <2>2, <2>3 DEF BodyState
<1>8. ASSUME NEW g \in Callers, RegisterSymbol(g) PROVE BodyState'
  <2>1. /\ once' = once /\ handle' = handle /\ loadErr' = loadErr /\ pc' = pc
        /\ candidates' = candidates
    BY <1>8 DEF RegisterSymbol
  <2> QED
    BY <2>1, <1>a, SearchingStays DEF BodyState
<1> QED
  BY <1>1, <1>2, <1>3, <1>4, <1>5, <1>6, <1>7, <1>8 DEF Next, Step

\* The steps that neither open the library, nor bind, nor end the body.
LEMMA BindingsStep ==
  ASSUME TypeOK, OneBody, BodyState, Bindings, [Next]_vars
  PROVE  Bindings'
<1>0. /\ \A s \in Symbols : bound[s] \in {Null, handle}
      /\ once = "done" /\ loadErr = Null => /\ handle # Null
                                            /\ \A s \in Symbols : bound[s] = handle
  BY DEF Bindings
<1>a. bound \in [Symbols -> Path \cup {Null}]
  BY DEF TypeOK
<1>1. ASSUME bound' = bound, handle' = handle,
             (once' = once /\ loadErr' = loadErr) \/ once' = "running"
      PROVE  Bindings'
  BY <1>0, <1>1 DEF Bindings
<1>2. CASE UNCHANGED vars
  BY <1>1, <1>2 DEF vars, library
<1>3. ASSUME NEW g \in Callers,
             \/ Call(g) \/ OnceEnter(g) \/ OnceSkip(g) \/ OpenLibrary(g)
             \/ DlopenFails(g) \/ Return(g)
      PROVE  Bindings'
  BY <1>1, <1>3 DEF Call, OnceEnter, OnceSkip, OpenLibrary, DlopenFails, Return, library
<1>4. ASSUME NEW g \in Callers, DlopenOk(g) PROVE Bindings'
  <2>1. pc[g] = "open" /\ bound' = bound /\ once' = once
    BY <1>4 DEF DlopenOk
  <2>2. handle = Null /\ once = "running"
    BY <2>1 DEF BodyState, OneBody, InBody
  <2> QED
    BY <2>1, <2>2, <1>0 DEF Bindings
<1>5. ASSUME NEW g \in Callers, OpenFails(g) \/ RegisterFails(g) PROVE Bindings'
  <2>1. bound' = bound /\ handle' = handle
    BY <1>5 DEF OpenFails, RegisterFails, library
  <2>2. loadErr' # Null
    BY <1>5, SymbolNames DEF OpenFails, RegisterFails, EndOnce, Unbound
  <2> QED
    BY <2>1, <2>2, <1>0 DEF Bindings
<1>6. ASSUME NEW g \in Callers, RegisterSymbol(g) PROVE Bindings'
  <2>1. /\ pc[g] = "register" /\ handle' = handle /\ once' = once /\ loadErr' = loadErr
        /\ \E t \in Symbols : bound' = [bound EXCEPT ![t] = handle]
    BY <1>6, SymbolNames DEF RegisterSymbol, Unbound
  <2>2. once = "running"
    BY <2>1 DEF OneBody, InBody
  <2>3. \A s \in Symbols : bound'[s] \in {Null, handle}
    BY <2>1, <1>0, <1>a
  <2> QED
    BY <2>1, <2>2, <2>3 DEF Bindings
<1>7. ASSUME NEW g \in Callers, RegisterEnds(g) PROVE Bindings'
  <2>1. bound' = bound /\ handle' = handle /\ pc[g] = "register" /\ Unbound = {}
    BY <1>7 DEF RegisterEnds, library
  <2>2. handle # Null
    BY <2>1 DEF BodyState
  <2>3. ASSUME NEW s \in Symbols PROVE bound[s] = handle
    <3>1. PICK i \in DOMAIN SymbolOrder : SymbolOrder[i] = s
      BY DEF Symbols
    <3>2. bound[s] # Null
      BY <3>1, <2>1 DEF Unbound
    <3> QED
      BY <3>2, <1>0
  <2> QED
    BY <2>1, <2>2, <2>3 DEF Bindings
<1> QED
  BY <1>2, <1>3, <1>4, <1>5, <1>6, <1>7 DEF Next, Step

LEMMA WinsStep ==
  ASSUME TypeOK, OneBody, BodyState, FirstLoadableWins, [Next]_vars
  PROVE  FirstLoadableWins'
<1>0. /\ handle # Null =>
           \A p \in Path : Reachable(p) /\ Loadable(p) => Rank(handle) <= Rank(p)
      /\ loadErr = "open" => \A p \in Path : Reachable(p) => ~Loadable(p)
  BY DEF FirstLoadableWins
<1>a. env' = env
  BY EnvStays
<1>b. Null # "open" /\ \A s \in Symbols : s # "open"
  BY SymbolNames
<1>1. ASSUME handle' = handle, loadErr' = loadErr \/ loadErr' # "open"
      PROVE  FirstLoadableWins'
  BY <1>0, <1>1, <1>a DEF FirstLoadableWins, Rank, Reachable, Loadable
<1>2. CASE UNCHANGED vars
  BY <1>1, <1>2 DEF vars, library
<1>3. ASSUME NEW g \in Callers,
             \/ Call(g) \/ OnceEnter(g) \/ OnceSkip(g) \/ OpenLibrary(g)
             \/ DlopenFails(g) \/ RegisterSymbol(g) \/ Return(g)
      PROVE  FirstLoadableWins'
  BY <1>1, <1>3 DEF Call, OnceEnter, OnceSkip, OpenLibrary, DlopenFails, RegisterSymbol,
                    Return, library
<1>4. ASSUME NEW g \in Callers, RegisterFails(g) \/ RegisterEnds(g) PROVE FirstLoadableWins'
  <2>1. handle' = handle
    BY <1>4 DEF RegisterFails, RegisterEnds, library
  <2>2. loadErr' # "open"
    BY <1>4, <1>b, SymbolNames DEF RegisterFails, RegisterEnds, EndOnce, Unbound
  <2> QED
    BY <2>1, <2>2, <1>1
\* What dlopen accepts is the best there is.
<1>5. ASSUME NEW g \in Callers, DlopenOk(g) PROVE FirstLoadableWins'
  <2>1. /\ pc[g] = "open" /\ candidates # <<>> /\ handle' = Head(candidates)
        /\ loadErr' = loadErr
    BY <1>5 DEF DlopenOk
  <2>2. Searching /\ loadErr = Null
    BY <2>1 DEF BodyState, OneBody, InBody
  <2>3. \A p \in Path : Reachable(p) /\ Loadable(p) => Rank(Head(candidates)) <= Rank(p)
    BY <2>1, <2>2, HeadIsBest
  <2> QED
    BY <2>1, <2>2, <2>3, <1>a, <1>b DEF FirstLoadableWins, Rank, Reachable, Loadable
\* Nothing is left: there was nothing to load.
<1>6. ASSUME NEW g \in Callers, OpenFails(g) PROVE FirstLoadableWins'
  <2>1. pc[g] = "open" /\ candidates = <<>> /\ handle' = handle
    BY <1>6 DEF OpenFails, library
  <2>2. Searching /\ handle = Null
    BY <2>1 DEF BodyState
  <2>3. \A p \in Path : Reachable(p) => ~Loadable(p)
    <3>1. \A p : ~Occurs(p, candidates)
      BY <2>1 DEF Occurs
    <3> QED
      BY <3>1, <2>2 DEF Searching
  <2> QED
    BY <2>1, <2>2, <2>3, <1>a DEF FirstLoadableWins, Rank, Reachable, Loadable
<1> QED
  BY <1>2, <1>3, <1>4, <1>5, <1>6 DEF Next, Step

LEMMA AnswersStep ==
  ASSUME TypeOK, OneBody, Answers, [Next]_vars
  PROVE  Answers'
<1>0. \A g \in Callers :
        answer[g] = IF pc[g] # "returned" THEN Null
                    ELSE IF loadErr = Null THEN "nil" ELSE loadErr
  BY DEF Answers
<1>a. answer \in [Callers -> Symbols \cup {Null, "open", "nil"}]
  BY DEF TypeOK
\* Nobody returns while the error is written.
<1>1. ASSUME NEW g \in Callers, OpenFails(g) \/ RegisterFails(g) \/ RegisterEnds(g)
      PROVE  Answers'
  <2>1. InBody(g) /\ answer' = answer
    BY <1>1 DEF OpenFails, RegisterFails, RegisterEnds, InBody
  <2>2. pc'[g] = "return" /\ \A h \in Callers : h # g => pc'[h] = pc[h]
    BY <1>1, GotoMoves DEF OpenFails, RegisterFails, RegisterEnds, EndOnce, Labels
  <2>3. \A h \in Callers : pc[h] # "returned"
    BY <2>1 DEF OneBody
  <2> QED
    BY <2>1, <2>2, <2>3, <1>0 DEF Answers, InBody
<1>2. ASSUME NEW g \in Callers, Return(g) PROVE Answers'
  <2>1. /\ loadErr' = loadErr /\ pc[g] = "return"
        /\ answer' = [answer EXCEPT ![g] = IF loadErr = Null THEN "nil" ELSE loadErr]
    BY <1>2 DEF Return
  <2>2. pc'[g] = "returned" /\ \A h \in Callers : h # g => pc'[h] = pc[h]
    BY <1>2, GotoMoves DEF Return, Labels
  <2> QED
    BY <2>1, <2>2, <1>0, <1>a DEF Answers
<1>3. ASSUME NEW g \in Callers, NEW label \in Labels,
             pc[g] # "returned", label # "returned", Goto(g, label),
             answer' = answer, loadErr' = loadErr
      PROVE  Answers'
  <2>1. pc'[g] = label /\ \A h \in Callers : h # g => pc'[h] = pc[h]
    BY <1>3, GotoMoves
  <2> QED
    BY <2>1, <1>3, <1>0 DEF Answers
<1>4. ASSUME NEW g \in Callers,
             \/ Call(g) \/ OnceEnter(g) \/ OnceSkip(g) \/ OpenLibrary(g) \/ DlopenOk(g)
      PROVE  Answers'
  BY <1>3, <1>4 DEF Call, OnceEnter, OnceSkip, OpenLibrary, DlopenOk, Labels
<1>5. ASSUME answer' = answer, loadErr' = loadErr, pc' = pc PROVE Answers'
  BY <1>5, <1>0 DEF Answers
<1>6. ASSUME NEW g \in Callers, DlopenFails(g) \/ RegisterSymbol(g) PROVE Answers'
  BY <1>5, <1>6 DEF DlopenFails, RegisterSymbol
<1>7. CASE UNCHANGED vars
  BY <1>5, <1>7 DEF vars
<1> QED
  BY <1>1, <1>2, <1>4, <1>6, <1>7 DEF Next, Step

-----------------------------------------------------------------------------
LEMMA InvInit == Init => Inv
<1> SUFFICES ASSUME Init PROVE Inv
  OBVIOUS
<1>1. TypeOK
  <2>1. <<>> \in Seq(Path)
    OBVIOUS
  <2> QED
    BY <2>1 DEF Init, TypeOK
<1>2. OneBody /\ BodyState
  BY DEF Init, OneBody, InBody, BodyState
<1>3. Bindings /\ Answers
  BY DEF Init, Bindings, Answers
<1>4. FirstLoadableWins
  BY SymbolNames DEF Init, FirstLoadableWins
<1> QED
  BY <1>1, <1>2, <1>3, <1>4 DEF Inv

LEMMA InvStep == Inv /\ [Next]_vars => Inv'
<1> SUFFICES ASSUME Inv, [Next]_vars PROVE Inv'
  OBVIOUS
<1>1. TypeOK /\ OneBody /\ BodyState /\ Bindings /\ FirstLoadableWins /\ Answers
  BY DEF Inv
<1> QED
  BY <1>1, TypeStep, OneBodyStep, BodyStateStep, BindingsStep, WinsStep, AnswersStep DEF Inv

\* The inductive invariant holds of every state that Load can reach.
THEOREM Invariance == Spec => []Inv
BY InvInit, InvStep, PTL DEF Spec

\* The variables of the loader are what they were declared to be.
THEOREM TypeCorrect == Spec => []TypeOK
<1>1. Inv => TypeOK
  BY DEF Inv
<1> QED
  BY <1>1, Invariance, PTL

\* A caller to whom Load returned nil finds every function variable bound,
\* and all of them to one library.
THEOREM NilMeansAllBound == Spec => []NilMeansBound
<1>1. Inv => NilMeansBound
  <2> SUFFICES ASSUME Inv, NEW g \in Callers, answer[g] = "nil"
               PROVE  \E p \in Path : \A s \in Symbols : bound[s] = p
    BY DEF NilMeansBound
  <2>1. pc[g] = "returned" /\ loadErr = Null
    BY SymbolNames DEF Inv, Answers, TypeOK
  <2>2. once = "done"
    BY <2>1 DEF Inv, OneBody
  <2>3. handle # Null /\ \A s \in Symbols : bound[s] = handle
    BY <2>1, <2>2 DEF Inv, Bindings
  <2>4. handle \in Path
    BY <2>3 DEF Inv, TypeOK
  <2> QED
    BY <2>3, <2>4
<1> QED
  BY <1>1, Invariance, PTL

\* Every caller of Load is told the same.
THEOREM AllAreToldTheSame == Spec => []SameAnswer
<1>1. Inv => SameAnswer
  BY DEF Inv, Answers, SameAnswer
<1> QED
  BY <1>1, Invariance, PTL

\* Load opens the loadable library of the lowest rank: the override, then the
\* named directory with the bare name before its versions in their order,
\* then the loader's own search; and it fails only if there was none.
THEOREM TheFirstLoadableWins == Spec => []FirstLoadableWins
<1>1. Inv => FirstLoadableWins
  BY DEF Inv
<1> QED
  BY <1>1, Invariance, PTL
=============================================================================
