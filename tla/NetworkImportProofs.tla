------------------------ MODULE NetworkImportProofs ------------------------
(***************************************************************************)
(* Proofs about the association lists and the search for insufficient      *)
(* measurements, for every network.                                        *)
(***************************************************************************)
EXTENDS NetworkImportInv, FiniteSetTheorems, SequenceTheorems, WellFoundedInduction, TLAPS

-----------------------------------------------------------------------------
(* Induction, as a fact about sets of numbers. *)

LEMMA LeastNat ==
  ASSUME NEW T \in SUBSET Nat, T # {}
  PROVE  \E x \in T : \A y \in T : x <= y
  <1>1. \E x \in T : \A y \in T : <<y, x>> \notin OpToRel(<, Nat)
    BY NatLessThanWellFounded, WFMin
  <1>2. ASSUME NEW x \in Nat, NEW y \in Nat, <<y, x>> \notin OpToRel(<, Nat)
        PROVE  x <= y
    BY <1>2 DEF OpToRel
  <1>3. QED
    BY <1>1, <1>2

LEMMA SetInduction ==
  ASSUME NEW S, 0 \in S, \A n \in Nat : n \in S => n + 1 \in S
  PROVE  \A n \in Nat : n \in S
  <1>1. SUFFICES ASSUME Nat \ S # {} PROVE FALSE
    OBVIOUS
  <1>2. PICK x \in Nat \ S : \A y \in Nat \ S : x <= y
    BY <1>1, LeastNat
  <1>3. x # 0 /\ x - 1 \in Nat /\ x - 1 \notin Nat \ S
    BY <1>2
  <1>4. QED
    BY <1>2, <1>3

-----------------------------------------------------------------------------
(* Sums over finite sets. *)

Chosen(s) == CHOOSE x \in s : TRUE

Adds(f, S, iter, s) ==
    iter[s] = IF s = {} THEN 0 ELSE f[Chosen(s)] + iter[s \ {Chosen(s)}]

Sums(f, S, iter) ==
    iter = [s \in SUBSET S |->
              IF s = {} THEN 0 ELSE f[Chosen(s)] + iter[s \ {Chosen(s)}]]

SumsOf(f, S) == CHOOSE iter : Sums(f, S, iter)

LEMMA ChosenLeft ==
  ASSUME NEW s, IsFiniteSet(s), s # {}
  PROVE  /\ Chosen(s) \in s
         /\ IsFiniteSet(s \ {Chosen(s)})
         /\ Cardinality(s) \in Nat \ {0}
         /\ Cardinality(s \ {Chosen(s)}) = Cardinality(s) - 1
  <1>1. Chosen(s) \in s
    BY DEF Chosen
  <1>2. QED
    BY <1>1, FS_RemoveElement, FS_CardinalityType, FS_EmptySet

(* The recursion by which a sum is defined has a solution. *)
LEMMA SumExists ==
  ASSUME NEW f, NEW S, IsFiniteSet(S)
  PROVE  \E iter : Sums(f, S, iter)
  <1> DEFINE Good(k, g) ==
        /\ g = [s \in SUBSET S |-> g[s]]
        /\ \A s \in SUBSET S : Cardinality(s) <= k => Adds(f, S, g, s)
      T == {k \in Nat : \E g : Good(k, g)}
  <1>1. \A s \in SUBSET S : IsFiniteSet(s) /\ Cardinality(s) \in Nat
    BY FS_Subset, FS_CardinalityType
  <1>2. 0 \in T
    <2> DEFINE g == [s \in SUBSET S |-> 0]
    <2>1. Good(0, g)
      BY <1>1, FS_EmptySet DEF Adds
    <2>2. QED
      BY <2>1
  <1>3. ASSUME NEW k \in Nat, k \in T PROVE k + 1 \in T
    <2>1. PICK g : Good(k, g)
      BY <1>3
    <2> DEFINE h == [s \in SUBSET S |->
                       IF s = {} THEN 0 ELSE f[Chosen(s)] + g[s \ {Chosen(s)}]]
    <2>2. ASSUME NEW s \in SUBSET S, Cardinality(s) <= k PROVE h[s] = g[s]
      BY <2>1, <2>2 DEF Adds
    <2>3. ASSUME NEW s \in SUBSET S, Cardinality(s) <= k + 1 PROVE Adds(f, S, h, s)
      <3>1. CASE s = {}
        BY <3>1 DEF Adds
      <3>2. CASE s # {}
        <4>1. s \ {Chosen(s)} \in SUBSET S /\ Cardinality(s \ {Chosen(s)}) <= k
          BY <1>1, <2>3, <3>2, ChosenLeft
        <4>2. h[s \ {Chosen(s)}] = g[s \ {Chosen(s)}]
          BY <2>2, <4>1
        <4>3. QED
          BY <3>2, <4>2 DEF Adds
      <3>3. QED
        BY <3>1, <3>2
    <2>4. h = [s \in SUBSET S |-> h[s]]
      OBVIOUS
    <2>5. Good(k + 1, h)
      BY <2>3, <2>4
    <2>6. \E g1 : Good(k + 1, g1)
      BY <2>5
    <2>7. QED
      BY <2>6
  <1>4. Cardinality(S) \in T
    <2> HIDE DEF T
    <2>1. \A n \in Nat : n \in T
      BY <1>2, <1>3, SetInduction
    <2>2. QED
      BY <2>1, FS_CardinalityType
  <1>5. PICK g : Good(Cardinality(S), g)
    BY <1>4
  <1>6. \A s \in SUBSET S : Adds(f, S, g, s)
    BY <1>1, <1>5, FS_Subset
  <1>7. Sums(f, S, g)
    BY <1>5, <1>6 DEF Adds, Sums
  <1>8. QED
    BY <1>7

LEMMA SumDef ==
  ASSUME NEW f, NEW S
  PROVE  SumFunctionOnSet(f, S) = SumsOf(f, S)[S]
  BY DEF SumFunctionOnSet, FoldFunctionOnSet, MapThenFoldSet, SumsOf, Sums, Chosen

LEMMA SumsAdd ==
  ASSUME NEW f, NEW S, IsFiniteSet(S), NEW s \in SUBSET S
  PROVE  Adds(f, S, SumsOf(f, S), s)
  <1>1. Sums(f, S, SumsOf(f, S))
    BY SumExists DEF SumsOf
  <1>2. QED
    BY <1>1 DEF Adds, Sums

(* What is summed over a smaller set is part of the recursion. *)
LEMMA SumsAgree ==
  ASSUME NEW f, NEW S, IsFiniteSet(S), NEW U \in SUBSET S
  PROVE  SumsOf(f, U)[U] = SumsOf(f, S)[U]
  <1> DEFINE T == {k \in Nat : \A s \in SUBSET U : Cardinality(s) = k =>
                                  SumsOf(f, U)[s] = SumsOf(f, S)[s]}
  <1>1. IsFiniteSet(U)
    BY FS_Subset
  <1>2. \A s \in SUBSET U : /\ IsFiniteSet(s) /\ Cardinality(s) \in Nat
                            /\ s \in SUBSET S
                            /\ Adds(f, U, SumsOf(f, U), s)
                            /\ Adds(f, S, SumsOf(f, S), s)
    BY <1>1, FS_Subset, FS_CardinalityType, SumsAdd
  <1>3. 0 \in T
    BY <1>2, FS_EmptySet DEF Adds
  <1>4. ASSUME NEW k \in Nat, k \in T PROVE k + 1 \in T
    <2>1. SUFFICES ASSUME NEW s \in SUBSET U, Cardinality(s) = k + 1
                   PROVE  SumsOf(f, U)[s] = SumsOf(f, S)[s]
      OBVIOUS
    <2>2. s # {}
      BY <2>1, FS_EmptySet
    <2>3. /\ s \ {Chosen(s)} \in SUBSET U
          /\ Cardinality(s \ {Chosen(s)}) = k
      BY <1>2, <2>1, <2>2, ChosenLeft
    <2>4. SumsOf(f, U)[s \ {Chosen(s)}] = SumsOf(f, S)[s \ {Chosen(s)}]
      BY <1>4, <2>3
    <2>5. QED
      BY <1>2, <2>2, <2>4 DEF Adds
  <1>5. \A n \in Nat : n \in T
    <2> HIDE DEF T
    <2>1. QED
      BY <1>3, <1>4, SetInduction
  <1>6. QED
    BY <1>2, <1>5

LEMMA SumEmpty ==
  ASSUME NEW f
  PROVE  SumFunctionOnSet(f, {}) = 0
  BY SumDef, SumsAdd, FS_EmptySet DEF Adds

LEMMA SumChosen ==
  ASSUME NEW f, NEW S, IsFiniteSet(S), S # {}
  PROVE  SumFunctionOnSet(f, S)
           = f[Chosen(S)] + SumFunctionOnSet(f, S \ {Chosen(S)})
  <1>1. SumsOf(f, S)[S \ {Chosen(S)}] = SumFunctionOnSet(f, S \ {Chosen(S)})
    BY SumsAgree, SumDef
  <1>2. SumsOf(f, S)[S] = SumFunctionOnSet(f, S) /\ Adds(f, S, SumsOf(f, S), S)
    BY SumDef, SumsAdd
  <1>3. QED
    BY <1>1, <1>2 DEF Adds

(* A sum of numbers is a number, and any member can be taken out of it.    *)
LEMMA SumRemove ==
  ASSUME NEW f, NEW S, IsFiniteSet(S), \A x \in S : f[x] \in Nat
  PROVE  /\ SumFunctionOnSet(f, S) \in Nat
         /\ \A x \in S : SumFunctionOnSet(f, S) = f[x] + SumFunctionOnSet(f, S \ {x})
  <1> DEFINE Good(s) ==
        /\ SumFunctionOnSet(f, s) \in Nat
        /\ \A x \in s : SumFunctionOnSet(f, s) = f[x] + SumFunctionOnSet(f, s \ {x})
      T == {k \in Nat : \A s \in SUBSET S : Cardinality(s) <= k => Good(s)}
  <1>1. \A s \in SUBSET S : IsFiniteSet(s) /\ Cardinality(s) \in Nat
    BY FS_Subset, FS_CardinalityType
  <1>2. 0 \in T
    <2>1. Good({})
      BY SumEmpty
    <2>2. \A s \in SUBSET S : Cardinality(s) <= 0 => s = {}
      BY <1>1, FS_EmptySet
    <2>3. QED
      BY <2>1, <2>2
  <1>3. ASSUME NEW k \in Nat, k \in T PROVE k + 1 \in T
    <2>1. SUFFICES ASSUME NEW s \in SUBSET S, Cardinality(s) = k + 1
                   PROVE  Good(s)
      <3> HIDE DEF Good
      <3>1. QED
        BY <1>1, <1>3
    <2>2. s # {} /\ IsFiniteSet(s)
      BY <1>1, <2>1, FS_EmptySet
    <2>3. \A x \in s : /\ s \ {x} \in SUBSET S
                       /\ Cardinality(s \ {x}) = k
                       /\ f[x] \in Nat
      <3>1. TAKE x \in s
      <3>2. Cardinality(s \ {x}) = k
        <4> HIDE DEF Good, T
        <4>1. Cardinality(s \ {x}) = Cardinality(s) - 1
          BY <2>2, FS_RemoveElement
        <4>2. QED
          BY <2>1, <4>1
      <3>3. QED
        BY <3>2
    <2>4. \A x \in s : Good(s \ {x})
      BY <1>3, <2>3
    <2> DEFINE c == Chosen(s)
    <2>5. c \in s /\ SumFunctionOnSet(f, s) = f[c] + SumFunctionOnSet(f, s \ {c})
      BY <2>2, SumChosen, ChosenLeft
    <2>6. SumFunctionOnSet(f, s) \in Nat
      BY <2>3, <2>4, <2>5
    <2>7. ASSUME NEW x \in s
          PROVE  SumFunctionOnSet(f, s) = f[x] + SumFunctionOnSet(f, s \ {x})
      <3>1. CASE x = c
        BY <2>5, <3>1
      <3>2. CASE x # c
        <4> HIDE DEF c
        <4>1. x \in s \ {c} /\ c \in s \ {x}
          BY <2>5, <2>7, <3>2
        <4>2. (s \ {c}) \ {x} = (s \ {x}) \ {c}
          OBVIOUS
        <4>3. SumFunctionOnSet(f, s \ {c})
                = f[x] + SumFunctionOnSet(f, (s \ {c}) \ {x})
          BY <2>4, <2>5, <4>1
        <4>4. SumFunctionOnSet(f, s \ {x})
                = f[c] + SumFunctionOnSet(f, (s \ {x}) \ {c})
          BY <2>4, <4>1
        <4>5. (s \ {c}) \ {x} \in SUBSET S /\ IsFiniteSet((s \ {c}) \ {x})
          BY <1>1
        <4>6. Cardinality((s \ {c}) \ {x}) <= k
          BY <1>1, <2>3, <2>5, <4>5, FS_Subset
        <4>7. SumFunctionOnSet(f, s \ {x}) \in Nat /\ SumFunctionOnSet(f, s \ {c}) \in Nat
          BY <2>4, <2>5
        <4> DEFINE a == SumFunctionOnSet(f, s)
                   b == SumFunctionOnSet(f, s \ {c})
                   d == SumFunctionOnSet(f, s \ {x})
                   r == SumFunctionOnSet(f, (s \ {c}) \ {x})
        <4>8. a = f[c] + b /\ b = f[x] + r /\ d = f[c] + r
          BY <2>5, <4>2, <4>3, <4>4
        <4>9. f[c] \in Nat /\ f[x] \in Nat /\ b \in Nat /\ d \in Nat
          BY <2>3, <2>5, <4>7
        <4>10. r \in Nat
          BY <1>3, <4>5, <4>6
        <4>11. a = f[x] + d
          <5> HIDE DEF a, b, d, r
          <5>1. QED
            BY <4>8, <4>9, <4>10
        <4>12. QED
          BY <4>11
      <3>3. QED
        BY <3>1, <3>2
    <2>8. QED
      BY <2>6, <2>7
  <1>4. \A n \in Nat : n \in T
    <2> HIDE DEF T
    <2>1. QED
      BY <1>2, <1>3, SetInduction
  <1>5. QED
    BY <1>1, <1>4

-----------------------------------------------------------------------------
(* Sums of the first values of a function. *)

LEMMA SumToFirst ==
  ASSUME NEW f
  PROVE  SumTo(f, 0) = 0
  <1>1. 1 .. 0 = {}
    OBVIOUS
  <1>2. QED
    BY <1>1, SumEmpty DEF SumTo

LEMMA SumToNat ==
  ASSUME NEW f, NEW n \in Nat, \A i \in 1 .. n : f[i] \in Nat
  PROVE  SumTo(f, n) \in Nat
  <1>1. IsFiniteSet(1 .. n)
    BY FS_Interval
  <1>2. QED
    BY <1>1, SumRemove DEF SumTo

LEMMA SumToNext ==
  ASSUME NEW f, NEW n \in Nat, \A i \in 1 .. n + 1 : f[i] \in Nat
  PROVE  /\ SumTo(f, n) \in Nat
         /\ SumTo(f, n + 1) = SumTo(f, n) + f[n + 1]
  <1>1. IsFiniteSet(1 .. n) /\ IsFiniteSet(1 .. n + 1)
    BY FS_Interval
  <1>2. (1 .. n + 1) \ {n + 1} = 1 .. n /\ n + 1 \in 1 .. n + 1
    OBVIOUS
  <1>3. SumTo(f, n) \in Nat
    <2>1. \A i \in 1 .. n : f[i] \in Nat
      OBVIOUS
    <2>2. QED
      BY <2>1, SumToNat
  <1>4. SumTo(f, n + 1) = f[n + 1] + SumTo(f, n)
    <2>1. SumFunctionOnSet(f, 1 .. n + 1)
            = f[n + 1] + SumFunctionOnSet(f, (1 .. n + 1) \ {n + 1})
      BY <1>1, <1>2, SumRemove
    <2>2. QED
      BY <1>2, <2>1 DEF SumTo
  <1>5. QED
    BY <1>3, <1>4

LEMMA SumToEqual ==
  ASSUME NEW f, NEW g, NEW n \in Nat,
         \A i \in 1 .. n : f[i] \in Nat /\ f[i] = g[i]
  PROVE  SumTo(f, n) = SumTo(g, n)
  <1> DEFINE T == {k \in Nat : k <= n => SumTo(f, k) = SumTo(g, k)}
  <1>1. 0 \in T
    BY SumToFirst
  <1>2. ASSUME NEW k \in Nat, k \in T PROVE k + 1 \in T
    <2>1. SUFFICES ASSUME k + 1 <= n PROVE SumTo(f, k + 1) = SumTo(g, k + 1)
      OBVIOUS
    <2>2. \A i \in 1 .. k + 1 : f[i] \in Nat /\ g[i] = f[i] /\ g[i] \in Nat
      BY <2>1
    <2>3. SumTo(f, k) = SumTo(g, k)
      BY <1>2, <2>1
    <2>4. SumTo(f, k + 1) = SumTo(f, k) + f[k + 1]
      BY <2>2, SumToNext
    <2>5. SumTo(g, k + 1) = SumTo(g, k) + g[k + 1]
      BY <2>2, SumToNext
    <2>6. f[k + 1] = g[k + 1]
      BY <2>2
    <2>7. QED
      BY <2>3, <2>4, <2>5, <2>6
  <1>3. n \in T
    <2> HIDE DEF T
    <2>1. QED
      BY <1>1, <1>2, SetInduction
  <1>4. QED
    BY <1>3

(* A sum is at most that of larger values, and of more of them. *)
LEMMA SumToAtMost ==
  ASSUME NEW f, NEW g, NEW n \in Nat,
         \A i \in 1 .. n : f[i] \in Nat /\ g[i] \in Nat /\ f[i] <= g[i]
  PROVE  SumTo(f, n) <= SumTo(g, n)
  <1> DEFINE T == {k \in Nat : k <= n => SumTo(f, k) <= SumTo(g, k)}
  <1>1. 0 \in T
    BY SumToFirst
  <1>2. ASSUME NEW k \in Nat, k \in T PROVE k + 1 \in T
    <2>1. SUFFICES ASSUME k + 1 <= n PROVE SumTo(f, k + 1) <= SumTo(g, k + 1)
      OBVIOUS
    <2>2. \A i \in 1 .. k + 1 : f[i] \in Nat /\ g[i] \in Nat /\ f[i] <= g[i]
      BY <2>1
    <2>3. SumTo(f, k) <= SumTo(g, k)
      BY <1>2, <2>1
    <2>4. SumTo(f, k) \in Nat /\ SumTo(f, k + 1) = SumTo(f, k) + f[k + 1]
      BY <2>2, SumToNext
    <2>5. SumTo(g, k) \in Nat /\ SumTo(g, k + 1) = SumTo(g, k) + g[k + 1]
      BY <2>2, SumToNext
    <2>6. f[k + 1] \in Nat /\ g[k + 1] \in Nat /\ f[k + 1] <= g[k + 1]
      BY <2>2
    <2>7. QED
      BY <2>3, <2>4, <2>5, <2>6
  <1>3. n \in T
    <2> HIDE DEF T
    <2>1. QED
      BY <1>1, <1>2, SetInduction
  <1>4. QED
    BY <1>3

LEMMA SumToGrows ==
  ASSUME NEW f, NEW n \in Nat, NEW m \in Nat, m <= n,
         \A i \in 1 .. n : f[i] \in Nat
  PROVE  SumTo(f, m) <= SumTo(f, n)
  <1> DEFINE T == {k \in Nat : m <= k /\ k <= n => SumTo(f, m) <= SumTo(f, k)}
  <1>1. ASSUME NEW k \in Nat, k \in T PROVE k + 1 \in T
    <2>1. SUFFICES ASSUME m <= k + 1, k + 1 <= n PROVE SumTo(f, m) <= SumTo(f, k + 1)
      OBVIOUS
    <2>2. \A i \in 1 .. k + 1 : f[i] \in Nat
      BY <2>1
    <2>3. SumTo(f, k) \in Nat /\ SumTo(f, k + 1) = SumTo(f, k) + f[k + 1]
      BY <2>2, SumToNext
    <2>4. f[k + 1] \in Nat /\ SumTo(f, m) \in Nat
      BY <2>1, <2>2, SumToNat
    <2>5. CASE m <= k
      BY <1>1, <2>1, <2>3, <2>4, <2>5
    <2>6. CASE ~(m <= k)
      <3>1. m = k + 1
        BY <2>1, <2>6
      <3>2. QED
        BY <2>4, <3>1
    <2>7. QED
      BY <2>5, <2>6
  <1>2. 0 \in T
    <2>1. SumTo(f, 0) <= SumTo(f, 0)
      BY SumToFirst
    <2>2. QED
      BY <2>1
  <1>3. n \in T
    <2> HIDE DEF T
    <2>1. QED
      BY <1>1, <1>2, SetInduction
  <1>4. QED
    BY <1>3

(* The sum up to one place, with the value there, is at most that up to a  *)
(* later one.                                                              *)
LEMMA SumToBefore ==
  ASSUME NEW f, NEW n \in Nat, NEW m \in Nat, m < n,
         \A i \in 1 .. n : f[i] \in Nat
  PROVE  /\ SumTo(f, m) \in Nat /\ SumTo(f, n) \in Nat /\ f[m + 1] \in Nat
         /\ SumTo(f, m) + f[m + 1] <= SumTo(f, n)
  <1>1. m + 1 \in 1 .. n /\ \A i \in 1 .. m + 1 : f[i] \in Nat
    OBVIOUS
  <1>2. SumTo(f, m) \in Nat /\ SumTo(f, m + 1) = SumTo(f, m) + f[m + 1]
    BY <1>1, SumToNext
  <1>3. SumTo(f, m + 1) <= SumTo(f, n)
    BY <1>1, SumToGrows
  <1>4. QED
    BY <1>1, <1>2, <1>3, SumToNat

(* The value at one place is part of the sum. *)
LEMMA SumToPart ==
  ASSUME NEW f, NEW n \in Nat, NEW m \in 1 .. n,
         \A i \in 1 .. n : f[i] \in Nat
  PROVE  f[m] <= SumTo(f, n)
  <1>1. m - 1 \in Nat /\ m - 1 < n /\ m - 1 + 1 = m
    OBVIOUS
  <1>2. SumTo(f, m - 1) \in Nat /\ SumTo(f, m - 1) + f[m - 1 + 1] <= SumTo(f, n)
    BY <1>1, SumToBefore
  <1>3. f[m] \in Nat /\ SumTo(f, n) \in Nat
    BY SumToNat
  <1>4. QED
    BY <1>1, <1>2, <1>3

(* A sum of zeros.                                                         *)
LEMMA SumToZero ==
  ASSUME NEW f, NEW n \in Nat, \A i \in 1 .. n : f[i] = 0
  PROVE  SumTo(f, n) = 0
  <1> DEFINE T == {k \in Nat : k <= n => SumTo(f, k) = 0}
  <1>1. 0 \in T
    BY SumToFirst
  <1>2. ASSUME NEW k \in Nat, k \in T PROVE k + 1 \in T
    <2>1. SUFFICES ASSUME k + 1 <= n PROVE SumTo(f, k + 1) = 0
      OBVIOUS
    <2>2. \A i \in 1 .. k + 1 : f[i] \in Nat /\ f[i] = 0
      BY <2>1
    <2>3. SumTo(f, k) = 0 /\ f[k + 1] = 0
      BY <1>2, <2>1, <2>2
    <2>4. SumTo(f, k + 1) = SumTo(f, k) + f[k + 1]
      BY <2>2, SumToNext
    <2>5. QED
      BY <2>3, <2>4
  <1>3. n \in T
    <2> HIDE DEF T
    <2>1. QED
      BY <1>1, <1>2, SetInduction
  <1>4. QED
    BY <1>3

(* The sum is one exactly if one value is one and all others are zero. *)
LEMMA SumToOne ==
  ASSUME NEW f, NEW n \in Nat, \A i \in 1 .. n : f[i] \in Nat
  PROVE  SumTo(f, n) = 1 <=>
           \E m \in 1 .. n : f[m] = 1 /\ \A i \in 1 .. n : i # m => f[i] = 0
  <1>1. ASSUME SumTo(f, n) = 1
        PROVE  \E m \in 1 .. n : f[m] = 1 /\ \A i \in 1 .. n : i # m => f[i] = 0
    <2>1. PICK m \in 1 .. n : f[m] # 0
      <3>1. SUFFICES ASSUME \A m \in 1 .. n : f[m] = 0 PROVE FALSE
        OBVIOUS
      <3>2. QED
        BY <1>1, <3>1, SumToZero
    <2>2. f[m] = 1
      BY <1>1, <2>1, SumToPart
    <2>3. ASSUME NEW i \in 1 .. n, NEW j \in 1 .. n, i < j, f[i] # 0, f[j] # 0
          PROVE  FALSE
      <3>1. j - 1 \in Nat /\ j - 1 < n /\ j - 1 + 1 = j /\ i \in 1 .. j - 1
        BY <2>3
      <3>2. SumTo(f, j - 1) + f[j - 1 + 1] <= SumTo(f, n) /\ SumTo(f, j - 1) \in Nat
        BY <3>1, SumToBefore
      <3>3. f[i] <= SumTo(f, j - 1)
        BY <3>1, SumToPart
      <3>4. f[i] \in Nat \ {0} /\ f[j] \in Nat \ {0}
        BY <2>3
      <3>5. QED
        BY <1>1, <3>1, <3>2, <3>3, <3>4
    <2>4. \A i \in 1 .. n : i # m => f[i] = 0
      BY <2>1, <2>3
    <2>5. QED
      BY <2>2, <2>4
  <1>2. ASSUME NEW m \in 1 .. n, f[m] = 1, \A i \in 1 .. n : i # m => f[i] = 0
        PROVE  SumTo(f, n) = 1
    <2> DEFINE T == {k \in Nat : k <= n => SumTo(f, k) = IF m <= k THEN 1 ELSE 0}
    <2>1. 0 \in T
      BY SumToFirst
    <2>2. ASSUME NEW k \in Nat, k \in T PROVE k + 1 \in T
      <3>1. SUFFICES ASSUME k + 1 <= n
                     PROVE  SumTo(f, k + 1) = IF m <= k + 1 THEN 1 ELSE 0
        OBVIOUS
      <3>2. \A i \in 1 .. k + 1 : f[i] \in Nat
        BY <3>1
      <3>3. SumTo(f, k) = (IF m <= k THEN 1 ELSE 0)
        BY <2>2, <3>1
      <3>4. SumTo(f, k + 1) = SumTo(f, k) + f[k + 1]
        BY <3>2, SumToNext
      <3>5. f[k + 1] = IF m = k + 1 THEN 1 ELSE 0
        BY <1>2, <3>1
      <3>6. QED
        BY <3>3, <3>4, <3>5
    <2>3. n \in T
      <3> HIDE DEF T
      <3>1. QED
        BY <2>1, <2>2, SetInduction
    <2>4. QED
      BY <2>3
  <1>3. QED
    BY <1>1, <1>2

-----------------------------------------------------------------------------
(* The records of a cluster: three to a part and three to each of its      *)
(* covariances with the parts behind it.                                   *)

LEMMA Halves ==
  ASSUME NEW n \in Nat
  PROVE  /\ (n * (n - 1)) \div 2 \in Nat
         /\ 2 * ((n * (n - 1)) \div 2) = n * (n - 1)
  <1> DEFINE T == {k \in Nat : \E h \in Nat : k * (k - 1) = 2 * h}
  <1>1. 0 \in T
    OBVIOUS
  <1>2. ASSUME NEW k \in Nat, k \in T PROVE k + 1 \in T
    <2>1. PICK h \in Nat : k * (k - 1) = 2 * h
      BY <1>2
    <2>2. (k + 1) * (k + 1 - 1) = 2 * (h + k) /\ h + k \in Nat
      BY <2>1
    <2>3. \E g \in Nat : (k + 1) * (k + 1 - 1) = 2 * g
      BY <2>2
    <2>4. QED
      BY <2>3
  <1>3. n \in T
    <2> HIDE DEF T
    <2>1. QED
      BY <1>1, <1>2, SetInduction
  <1>4. PICK h \in Nat : n * (n - 1) = 2 * h
    BY <1>3
  <1>5. (2 * h) \div 2 = h
    OBVIOUS
  <1>6. QED
    BY <1>4, <1>5

(* What the measurements of a cluster count is what the index advances     *)
(* by.                                                                     *)
LEMMA ClusterRecords ==
  ASSUME NEW n \in Nat, NEW f, \A i \in 1 .. n : f[i] = 3 + 3 * (n - i)
  PROVE  SumTo(f, n) = 3 * n + 3 * ((n * (n - 1)) \div 2)
  <1> DEFINE T == {k \in Nat : k <= n =>
                     2 * SumTo(f, k) = 6 * k + 6 * (n * k) - 3 * (k * (k + 1))}
  <1>1. 0 \in T
    BY SumToFirst
  <1>2. ASSUME NEW k \in Nat, k \in T PROVE k + 1 \in T
    <2>1. SUFFICES ASSUME k + 1 <= n
                   PROVE  2 * SumTo(f, k + 1)
                            = 6 * (k + 1) + 6 * (n * (k + 1)) - 3 * ((k + 1) * (k + 1 + 1))
      OBVIOUS
    <2>2. \A i \in 1 .. k + 1 : f[i] \in Nat
      BY <2>1
    <2>3. 2 * SumTo(f, k) = 6 * k + 6 * (n * k) - 3 * (k * (k + 1))
      BY <1>2, <2>1
    <2>4. SumTo(f, k) \in Nat /\ SumTo(f, k + 1) = SumTo(f, k) + f[k + 1]
      BY <2>2, SumToNext
    <2>5. f[k + 1] = 3 + 3 * (n - (k + 1))
      BY <2>1
    <2>6. n * (k + 1) = n * k + n /\ (k + 1) * (k + 1 + 1) = k * (k + 1) + 2 * (k + 1)
      OBVIOUS
    <2> DEFINE a == n * k
               b == k * (k + 1)
    <2>7. a \in Nat /\ b \in Nat
      OBVIOUS
    <2>8. 2 * SumTo(f, k + 1) = 6 * (k + 1) + 6 * (a + n) - 3 * (b + 2 * (k + 1))
      <3>1. 2 * SumTo(f, k) = 6 * k + 6 * a - 3 * b
        BY <2>3
      <3> HIDE DEF a, b
      <3>2. QED
        BY <2>4, <2>5, <2>7, <3>1
    <2>9. QED
      BY <2>6, <2>8
  <1>3. n \in T
    <2> HIDE DEF T
    <2>1. QED
      BY <1>1, <1>2, SetInduction
  <1>4. SumTo(f, n) \in Nat
    <2>1. \A i \in 1 .. n : f[i] \in Nat
      OBVIOUS
    <2>2. QED
      BY <2>1, SumToNat
  <1> DEFINE h == (n * (n - 1)) \div 2
             q == n * n
  <1>5. 2 * SumTo(f, n) = 6 * n + 6 * q - 3 * (q + n)
    <2>1. n * (n + 1) = q + n
      OBVIOUS
    <2>2. QED
      BY <1>3, <2>1
  <1>6. h \in Nat /\ 2 * h = q - n /\ q \in Nat
    <2>1. n * (n - 1) = q - n
      OBVIOUS
    <2>2. QED
      BY <2>1, Halves
  <1>7. SumTo(f, n) = 3 * n + 3 * h
    <2> HIDE DEF h, q, T
    <2>1. QED
      BY <1>4, <1>5, <1>6
  <1>8. QED
    BY <1>7

-----------------------------------------------------------------------------
(* The members of a sequence at given places. *)

Picks(seq, places, pick) ==
    pick = [n \in 0 .. Len(seq) |->
              IF n = 0 THEN <<>>
              ELSE IF n \in places THEN Append(pick[n - 1], seq[n])
              ELSE pick[n - 1]]

(* The recursion by which members are selected has a solution.             *)
LEMMA PicksExist ==
  ASSUME NEW X, NEW seq \in Seq(X), NEW places
  PROVE  \E pick : Picks(seq, places, pick)
  <1> DEFINE Step(g, n) == IF n = 0 THEN <<>>
                           ELSE IF n \in places THEN Append(g[n - 1], seq[n])
                           ELSE g[n - 1]
             Good(k, g) == /\ g = [n \in 0 .. Len(seq) |-> g[n]]
                           /\ \A n \in 0 .. Len(seq) : n <= k => g[n] = Step(g, n)
             T == {k \in Nat : \E g : Good(k, g)}
  <1>1. Len(seq) \in Nat
    OBVIOUS
  <1>2. 0 \in T
    <2> DEFINE g == [n \in 0 .. Len(seq) |-> <<>>]
    <2>1. Good(0, g)
      BY <1>1
    <2>2. QED
      BY <2>1
  <1>3. ASSUME NEW k \in Nat, k \in T PROVE k + 1 \in T
    <2>1. PICK g : Good(k, g)
      BY <1>3
    <2> DEFINE h == [n \in 0 .. Len(seq) |-> Step(g, n)]
    <2>2. \A n \in 0 .. Len(seq) : n <= k => h[n] = g[n]
      BY <2>1
    <2>3. ASSUME NEW n \in 0 .. Len(seq), n <= k + 1 PROVE h[n] = Step(h, n)
      <3>1. CASE n = 0
        BY <3>1
      <3>2. CASE n # 0
        <4>1. n - 1 \in 0 .. Len(seq) /\ n - 1 <= k
          BY <1>1, <2>3, <3>2
        <4>2. h[n - 1] = g[n - 1]
          BY <2>2, <4>1
        <4>3. h[n] = Step(g, n)
          OBVIOUS
        <4>4. QED
          BY <3>2, <4>2, <4>3
      <3>3. QED
        BY <3>1, <3>2
    <2>4. h = [n \in 0 .. Len(seq) |-> h[n]]
      OBVIOUS
    <2>5. Good(k + 1, h)
      BY <2>3, <2>4
    <2>6. \E g1 : Good(k + 1, g1)
      BY <2>5
    <2>7. QED
      <3> HIDE DEF Good
      <3>1. QED
        BY <2>6
  <1>4. Len(seq) \in T
    <2> HIDE DEF T
    <2>1. QED
      BY <1>1, <1>2, <1>3, SetInduction
  <1>5. PICK g : Good(Len(seq), g)
    BY <1>4
  <1>6. \A n \in 0 .. Len(seq) : g[n] = Step(g, n)
    BY <1>1, <1>5
  <1>7. Picks(seq, places, g)
    BY <1>5, <1>6 DEF Picks
  <1>8. QED
    BY <1>7

(* "at" tells from which place each member comes. *)
Comes(seq, places, n, sel, at) ==
    /\ at \in [1 .. Len(sel) -> places \cap 1 .. n]
    /\ \A i \in 1 .. Len(sel) : sel[i] = seq[at[i]]
    /\ \A i, j \in 1 .. Len(sel) : at[i] = at[j] => i = j
    /\ \A p \in places \cap 1 .. n : \E i \in 1 .. Len(sel) : at[i] = p

(* Each selected member comes from a place of its own, and from each       *)
(* place comes one.                                                        *)
LEMMA SelectedComes ==
  ASSUME NEW X, NEW seq \in Seq(X), NEW places
  PROVE  /\ Selected(seq, places) \in Seq(X)
         /\ \E at : Comes(seq, places, Len(seq), Selected(seq, places), at)
  <1> DEFINE pick == CHOOSE pick : Picks(seq, places, pick)
             T == {k \in Nat : k <= Len(seq) =>
                     /\ pick[k] \in Seq(X)
                     /\ \E at : Comes(seq, places, k, pick[k], at)}
  <1>1. Picks(seq, places, pick)
    BY PicksExist
  <1>2. Selected(seq, places) = pick[Len(seq)]
    BY DEF Selected, Picks
  <1>3. \A n \in 0 .. Len(seq) : pick[n] = IF n = 0 THEN <<>>
                           ELSE IF n \in places THEN Append(pick[n - 1], seq[n])
                           ELSE pick[n - 1]
    BY <1>1 DEF Picks
  <1> HIDE DEF pick
  <1>4. 0 \in T
    <2>1. pick[0] = <<>>
      BY <1>3
    <2>2. Comes(seq, places, 0, <<>>, [i \in 1 .. 0 |-> 0])
      BY DEF Comes
    <2>3. \E at : Comes(seq, places, 0, <<>>, at)
      BY <2>2
    <2>4. <<>> \in Seq(X)
      OBVIOUS
    <2>5. QED
      BY <2>1, <2>3, <2>4
  <1>5. ASSUME NEW k \in Nat, k \in T PROVE k + 1 \in T
    <2>1. SUFFICES ASSUME k + 1 <= Len(seq)
                   PROVE  /\ pick[k + 1] \in Seq(X)
                          /\ \E at : Comes(seq, places, k + 1, pick[k + 1], at)
      OBVIOUS
    <2>2. pick[k] \in Seq(X)
      BY <1>5, <2>1
    <2>3. PICK at : Comes(seq, places, k, pick[k], at)
      BY <1>5, <2>1
    <2>4. pick[k + 1] = IF k + 1 \in places THEN Append(pick[k], seq[k + 1]) ELSE pick[k]
      BY <1>3, <2>1
    <2>5. CASE k + 1 \in places
      <3> DEFINE sel == Append(pick[k], seq[k + 1])
                 new == [i \in 1 .. Len(pick[k]) + 1 |->
                           IF i = Len(pick[k]) + 1 THEN k + 1 ELSE at[i]]
      <3>1. sel \in Seq(X) /\ Len(sel) = Len(pick[k]) + 1 /\ Len(pick[k]) \in Nat
        BY <2>1, <2>2
      <3>2. \A i \in 1 .. Len(pick[k]) : sel[i] = pick[k][i] /\ i # Len(pick[k]) + 1
        BY <2>2
      <3>3. sel[Len(pick[k]) + 1] = seq[k + 1]
        BY <2>2
      <3>4. places \cap 1 .. k + 1 = (places \cap 1 .. k) \cup {k + 1}
        BY <2>5
      <3> HIDE DEF sel
      <3>5. Comes(seq, places, k + 1, sel, new)
        <4>1. new \in [1 .. Len(sel) -> places \cap 1 .. k + 1]
          BY <2>3, <3>1, <3>4 DEF Comes
        <4>2. \A i \in 1 .. Len(sel) : sel[i] = seq[new[i]]
          BY <2>3, <3>1, <3>2, <3>3 DEF Comes
        <4>0. /\ \A i \in 1 .. Len(pick[k]) : i \in 1 .. Len(sel) /\ new[i] = at[i]
              /\ Len(pick[k]) + 1 \in 1 .. Len(sel) /\ new[Len(pick[k]) + 1] = k + 1
              /\ \A i \in 1 .. Len(sel) : i \in 1 .. Len(pick[k]) \/ i = Len(pick[k]) + 1
          BY <3>1
        <4> HIDE DEF new
        <4>3. \A i, j \in 1 .. Len(sel) : new[i] = new[j] => i = j
          <5>1. \A i \in 1 .. Len(pick[k]) : at[i] # k + 1
            BY <2>3 DEF Comes
          <5>2. \A i, j \in 1 .. Len(pick[k]) : at[i] = at[j] => i = j
            BY <2>3 DEF Comes
          <5>3. QED
            BY <4>0, <5>1, <5>2
        <4>4. ASSUME NEW p \in places \cap 1 .. k + 1
              PROVE  \E i \in 1 .. Len(sel) : new[i] = p
          <5>1. CASE p = k + 1
            BY <4>0, <5>1
          <5>2. CASE p # k + 1
            <6>1. PICK i \in 1 .. Len(pick[k]) : at[i] = p
              BY <2>3, <3>4, <5>2 DEF Comes
            <6>2. QED
              BY <4>0, <6>1
          <5>3. QED
            BY <5>1, <5>2
        <4>5. QED
          BY <4>1, <4>2, <4>3, <4>4 DEF Comes
      <3>6. QED
        BY <2>4, <2>5, <3>1, <3>5 DEF sel
    <2>6. CASE k + 1 \notin places
      <3>1. places \cap 1 .. k + 1 = places \cap 1 .. k
        BY <2>6
      <3>2. Comes(seq, places, k + 1, pick[k], at)
        BY <2>3, <3>1 DEF Comes
      <3>3. QED
        BY <2>2, <2>4, <2>6, <3>2
    <2>7. QED
      BY <2>5, <2>6
  <1>6. Len(seq) \in T
    <2> HIDE DEF T
    <2>1. QED
      BY <1>4, <1>5, SetInduction
  <1>7. QED
    BY <1>2, <1>6

(* Each number up to a sum falls to the values of one place. *)
LEMMA SumToPlace ==
  ASSUME NEW f, NEW n \in Nat, \A i \in 1 .. n : f[i] \in Nat,
         NEW p \in 1 .. SumTo(f, n)
  PROVE  \E m \in 1 .. n : \E k \in 1 .. f[m] : p = SumTo(f, m - 1) + k
  <1> DEFINE Found(q, j) == \E m \in 1 .. j : \E k \in 1 .. f[m] : q = SumTo(f, m - 1) + k
             T == {j \in Nat : j <= n => \A q \in 1 .. SumTo(f, j) : Found(q, j)}
  <1>1. 0 \in T
    BY SumToFirst
  <1>2. ASSUME NEW j \in Nat, j \in T PROVE j + 1 \in T
    <2>1. SUFFICES ASSUME j + 1 <= n, NEW q \in 1 .. SumTo(f, j + 1) PROVE Found(q, j + 1)
      <3> HIDE DEF Found
      <3>1. QED
        OBVIOUS
    <2>2. \A i \in 1 .. j + 1 : f[i] \in Nat
      BY <2>1
    <2>3. SumTo(f, j) \in Nat /\ SumTo(f, j + 1) = SumTo(f, j) + f[j + 1]
      BY <2>2, SumToNext
    <2>4. f[j + 1] \in Nat
      BY <2>2
    <2>5. CASE q <= SumTo(f, j)
      <3>1. q \in 1 .. SumTo(f, j)
        BY <2>3, <2>4, <2>5
      <3>2. Found(q, j)
        <4> HIDE DEF Found
        <4>1. QED
          BY <1>2, <2>1, <3>1
      <3>3. \A m \in 1 .. j : m \in 1 .. j + 1
        OBVIOUS
      <3>4. QED
        BY <3>2, <3>3
    <2>6. CASE ~(q <= SumTo(f, j))
      <3>1. q - SumTo(f, j) \in 1 .. f[j + 1] /\ q = SumTo(f, j) + (q - SumTo(f, j))
        BY <2>3, <2>4, <2>6
      <3>2. j + 1 \in 1 .. j + 1 /\ j + 1 - 1 = j
        OBVIOUS
      <3>3. QED
        BY <3>1, <3>2
    <2>7. QED
      BY <2>5, <2>6
  <1>3. n \in T
    <2> HIDE DEF T
    <2>1. QED
      BY <1>1, <1>2, SetInduction
  <1>4. QED
    BY <1>3

-----------------------------------------------------------------------------
(* How often measurements are counted. *)

LEMMA StationsFinite ==
  /\ Cardinality(Stations) \in Nat \ {0}
  /\ Stations = 1 .. Cardinality(Stations)
  BY StationsAssumption, FS_CardinalityType, FS_EmptySet

LEMMA MeasurementTypes ==
  ASSUME NEW m \in Measurement
  PROVE  /\ m.id \in Nat /\ m.type \in Types /\ m.stns \in Seq(Nat)
         /\ m.ignore \in BOOLEAN /\ m.insufficient \in BOOLEAN
         /\ Len(m.stns) \in Nat /\ DOMAIN m.stns = 1 .. Len(m.stns)
  BY DEF Measurement

(* The mentions of a station in a list.                                    *)
LEMMA TimesCounts ==
  ASSUME NEW seq \in Seq(Nat), NEW s
  PROVE  /\ Times(s, seq) \in Nat
         /\ Times(s, seq) = 0 <=> s \notin ToSet(seq)
         /\ IsInjective(seq) => Times(s, seq) <= 1
  <1> DEFINE I == {i \in DOMAIN seq : seq[i] = s}
  <1>1. DOMAIN seq = 1 .. Len(seq) /\ Len(seq) \in Nat
    OBVIOUS
  <1>2. IsFiniteSet(I)
    <2>1. IsFiniteSet(DOMAIN seq)
      BY <1>1, FS_Interval
    <2>2. QED
      BY <2>1, FS_Subset
  <1>3. Cardinality(I) \in Nat /\ (Cardinality(I) = 0 <=> I = {})
    BY <1>2, FS_CardinalityType, FS_EmptySet
  <1>4. I = {} <=> s \notin ToSet(seq)
    BY DEF ToSet
  <1>5. ASSUME IsInjective(seq) PROVE Cardinality(I) <= 1
    <2>1. CASE I = {}
      BY <1>3, <2>1
    <2>2. CASE I # {}
      <3>1. PICK i \in I : TRUE
        BY <2>2
      <3>2. I = {i}
        BY <1>5, <3>1 DEF IsInjective
      <3>3. Cardinality(I) = 1
        BY <3>2, FS_Singleton
      <3>4. QED
        BY <3>3
    <2>3. QED
      BY <2>1, <2>2
  <1>6. QED
    BY <1>3, <1>4, <1>5 DEF Times

LEMMA AtLeastThree ==
  ASSUME NEW n \in Nat, n >= 2, n # 2
  PROVE  3 <= n
  OBVIOUS

(* Without the reference object a direction set mentions the others.       *)
LEMMA RemoveSecond ==
  ASSUME NEW seq \in Seq(Nat), Len(seq) >= 2
  PROVE  ToSet(seq) = ToSet(RemoveAt(seq, 2)) \cup {seq[2]}
  <1> DEFINE first == SubSeq(seq, 1, 1)
             rest == SubSeq(seq, 3, Len(seq))
             new == first \o rest
  <1>1. RemoveAt(seq, 2) = new
    BY DEF RemoveAt
  <1>2. /\ first \in Seq(Nat) /\ Len(first) = 1 /\ first[1] = seq[1]
        /\ rest \in Seq(Nat) /\ Len(rest) = Len(seq) - 2
        /\ \A i \in 1 .. Len(seq) - 2 : rest[i] = seq[i + 2]
    <2>1. /\ \A i \in 1 .. 1 : seq[i] \in Nat
          /\ \A i \in 3 .. Len(seq) : seq[i] \in Nat
          /\ Len(seq) \in Nat
      OBVIOUS
    <2>2. first \in Seq(Nat) /\ Len(first) = 1 /\ first[1] = seq[1]
      <3>1. /\ SubSeq(seq, 1, 1) \in Seq(Nat)
            /\ Len(SubSeq(seq, 1, 1)) = IF 1 <= 1 THEN 1 - 1 + 1 ELSE 0
            /\ \A i \in 1 .. 1 - 1 + 1 : SubSeq(seq, 1, 1)[i] = seq[1 + i - 1]
        BY <2>1, SubSeqProperties
      <3>2. QED
        BY <3>1
    <2>3. /\ rest \in Seq(Nat) /\ Len(rest) = Len(seq) - 2
          /\ \A i \in 1 .. Len(seq) - 2 : rest[i] = seq[i + 2]
      <3>1. /\ SubSeq(seq, 3, Len(seq)) \in Seq(Nat)
            /\ Len(SubSeq(seq, 3, Len(seq)))
                 = IF 3 <= Len(seq) THEN Len(seq) - 3 + 1 ELSE 0
            /\ \A i \in 1 .. Len(seq) - 3 + 1 :
                  SubSeq(seq, 3, Len(seq))[i] = seq[3 + i - 1]
        BY <2>1, SubSeqProperties
      <3>2. Len(rest) = Len(seq) - 2
        <4>1. Len(rest) = IF 3 <= Len(seq) THEN Len(seq) - 3 + 1 ELSE 0
          BY <3>1
        <4>2. CASE Len(seq) = 2
          BY <4>1, <4>2
        <4>3. CASE Len(seq) # 2
          <5>1. 3 <= Len(seq)
            BY ONLY <2>1, <4>3, Len(seq) >= 2, AtLeastThree
          <5>2. QED
            BY <2>1, <4>1, <5>1
        <4>4. QED
          BY <4>2, <4>3
      <3>3. ASSUME NEW i \in 1 .. Len(seq) - 2
            PROVE  SubSeq(seq, 3, Len(seq))[i] = seq[i + 2]
        <4>1. i \in 1 .. Len(seq) - 3 + 1 /\ 3 + i - 1 = i + 2
          BY <2>1
        <4>2. QED
          BY <3>1, <4>1
      <3>4. QED
        BY <3>1, <3>2, <3>3
    <2>4. QED
      BY <2>2, <2>3
  <1> HIDE DEF first, rest
  <1>3. /\ DOMAIN new = 1 .. Len(seq) - 1
        /\ new[1] = seq[1]
        /\ \A i \in 2 .. Len(seq) - 1 : new[i] = seq[i + 1]
    <2>1. /\ new \in Seq(Nat) /\ Len(new) = 1 + (Len(seq) - 2)
          /\ \A i \in 1 .. 1 + (Len(seq) - 2) :
                new[i] = IF i <= 1 THEN first[i] ELSE rest[i - 1]
      <3>1. /\ new \in Seq(Nat) /\ Len(new) = Len(first) + Len(rest)
            /\ \A i \in 1 .. Len(first) + Len(rest) :
                  new[i] = IF i <= Len(first) THEN first[i] ELSE rest[i - Len(first)]
        BY <1>2, ConcatProperties
      <3> HIDE DEF new
      <3>2. QED
        BY <1>2, <3>1
    <2>2. Len(seq) \in Nat
      OBVIOUS
    <2> HIDE DEF new
    <2>3. DOMAIN new = 1 .. Len(seq) - 1
      BY <2>1, <2>2
    <2>4. new[1] = seq[1]
      BY <1>2, <2>1, <2>2
    <2>5. ASSUME NEW i \in 2 .. Len(seq) - 1 PROVE new[i] = seq[i + 1]
      <3>1. i - 1 \in 1 .. Len(seq) - 2 /\ i - 1 + 2 = i + 1
        BY <2>2
      <3>2. i \in 1 .. 1 + (Len(seq) - 2) /\ ~(i <= 1)
        BY <2>2
      <3>3. new[i] = rest[i - 1]
        BY <2>1, <3>2
      <3>4. QED
        BY <1>2, <3>1, <3>3
    <2>6. QED
      BY <2>3, <2>4, <2>5
  <1> HIDE DEF new
  <1>4. ASSUME NEW i \in 1 .. Len(seq) PROVE seq[i] \in ToSet(new) \cup {seq[2]}
    <2>1. CASE i = 1
      <3>1. 1 \in DOMAIN new
        BY <1>3
      <3>2. QED
        BY <1>3, <2>1, <3>1 DEF ToSet
    <2>2. CASE i > 2
      <3>1. i - 1 \in 2 .. Len(seq) - 1 /\ i - 1 \in DOMAIN new /\ i - 1 + 1 = i
        BY <1>3, <2>2
      <3>2. new[i - 1] = seq[i]
        BY <1>3, <3>1
      <3>3. QED
        BY <3>1, <3>2 DEF ToSet
    <2>3. QED
      BY <2>1, <2>2
  <1>5. ASSUME NEW i \in DOMAIN new PROVE new[i] \in ToSet(seq)
    <2>1. CASE i = 1
      BY <1>3, <2>1 DEF ToSet
    <2>2. CASE i # 1
      <3>1. new[i] = seq[i + 1] /\ i + 1 \in DOMAIN seq
        BY <1>3, <2>2
      <3>2. QED
        BY <3>1 DEF ToSet
    <2>3. QED
      BY <2>1, <2>2
  <1>6. seq[2] \in ToSet(seq)
    BY DEF ToSet
  <1>7. QED
    BY <1>1, <1>4, <1>5, <1>6 DEF ToSet

(* The first count is at least the second, and what it counts is mentioned.*)
LEMMA Counts ==
  ASSUME NEW m \in Measurement, WellFormed(m), NEW s
  PROVE  /\ MapCount(m, s) \in Nat /\ EntryCount(m, s) \in Nat
         /\ EntryCount(m, s) <= MapCount(m, s)
         /\ EntryCount(m, s) = 0 <=> s \notin StationsOf(m)
         /\ m.type \notin {"D", "G", "X"} => EntryCount(m, s) = Times(s, m.stns)
         /\ m.type \in {"D", "G", "X"} => EntryCount(m, s) <= 1
  <1>1. m.stns \in Seq(Nat) /\ m.type \in Types
    BY MeasurementTypes
  <1>2. Times(s, m.stns) \in Nat /\ (Times(s, m.stns) = 0 <=> s \notin StationsOf(m))
    BY <1>1, TimesCounts DEF StationsOf
  <1>3. CASE m.type = "D"
    <2>1. StationsOf(m) = ToSet(RemoveAt(m.stns, 2)) \cup {m.stns[2]}
      BY <1>1, <1>3, RemoveSecond DEF WellFormed, StationsOf
    <2>2. EntryCount(m, s) = IF s \in StationsOf(m) THEN 1 ELSE 0
      BY <1>3 DEF EntryCount
    <2>3. MapCount(m, s) = (IF s = m.stns[2] THEN 1 ELSE 0)
                             + (IF s \in ToSet(RemoveAt(m.stns, 2)) THEN 1 ELSE 0)
      BY <1>3 DEF MapCount
    <2>4. CASE s \in StationsOf(m)
      <3>1. s = m.stns[2] \/ s \in ToSet(RemoveAt(m.stns, 2))
        BY <2>1, <2>4
      <3>2. EntryCount(m, s) = 1 /\ MapCount(m, s) \in {1, 2}
        BY <2>2, <2>3, <2>4, <3>1
      <3>3. QED
        BY <1>3, <2>4, <3>2
    <2>5. CASE s \notin StationsOf(m)
      <3>1. EntryCount(m, s) = 0 /\ MapCount(m, s) = 0
        BY <2>1, <2>2, <2>3, <2>5
      <3>2. QED
        BY <1>3, <2>5, <3>1
    <2>6. QED
      BY <2>4, <2>5
  <1>4. CASE m.type \in {"G", "X"}
    BY <1>4 DEF EntryCount, MapCount
  <1>5. CASE m.type \notin {"D", "G", "X"}
    BY <1>2, <1>5 DEF EntryCount, MapCount
  <1>6. QED
    BY <1>3, <1>4, <1>5

-----------------------------------------------------------------------------
(* The association lists. *)

Legal(seq) == seq \in Seq(Measurement) /\ \A m \in DOMAIN seq : WellFormed(seq[m])

StationsKnown(seq) == \A m \in DOMAIN seq : StationsOf(seq[m]) \subseteq Stations

Once(seq) ==
    \A m \in DOMAIN seq : seq[m].type \notin {"D", "G", "X"} => IsInjective(seq[m].stns)

Counted(seq, s) == MapMeasurementStations(seq)[s].count

(* What the stations before a station are given, and the entries before    *)
(* those of a measurement.                                                 *)
Before(seq, s) == SumTo([t \in Stations |-> Counted(seq, t)], s - 1)

From(seq, s, m) == Before(seq, s) + Entered(seq, s, m)

LEMMA LegalMembers ==
  ASSUME NEW seq, Legal(seq)
  PROVE  /\ Len(seq) \in Nat /\ DOMAIN seq = 1 .. Len(seq)
         /\ \A m \in 1 .. Len(seq) : seq[m] \in Measurement /\ WellFormed(seq[m])
  BY DEF Legal

(* A station's part is large enough for its entries.                       *)
LEMMA EnteredFit ==
  ASSUME NEW seq, Legal(seq), NEW s \in Stations
  PROVE  /\ \A m \in 1 .. Len(seq) + 1 : Entered(seq, s, m) \in Nat
         /\ \A m \in 1 .. Len(seq) : \A l \in m + 1 .. Len(seq) + 1 :
                Entered(seq, s, m) + EntryCount(seq[m], s) <= Entered(seq, s, l)
         /\ Counted(seq, s) \in Nat
         /\ Entered(seq, s, Len(seq) + 1) <= Counted(seq, s)
  <1> DEFINE n == Len(seq)
             entries == [l \in DOMAIN seq |-> EntryCount(seq[l], s)]
             mapped == [l \in DOMAIN seq |-> MapCount(seq[l], s)]
  <1>1. n \in Nat /\ DOMAIN seq = 1 .. n
    BY LegalMembers
  <1>2. \A i \in 1 .. n : /\ entries[i] = EntryCount(seq[i], s)
                          /\ entries[i] \in Nat /\ mapped[i] \in Nat
                          /\ entries[i] <= mapped[i]
    BY <1>1, LegalMembers, Counts
  <1>3. Counted(seq, s) = SumTo(mapped, n)
    BY DEF Counted, MapMeasurementStations
  <1>4. \A m \in 1 .. n + 1 : Entered(seq, s, m) = SumTo(entries, m - 1)
    BY DEF Entered
  <1> HIDE DEF n, entries, mapped
  <1>5. ASSUME NEW m \in 1 .. n + 1 PROVE Entered(seq, s, m) \in Nat
    <2>1. m - 1 \in Nat /\ \A i \in 1 .. m - 1 : entries[i] \in Nat
      BY <1>1, <1>2
    <2>2. QED
      BY <1>4, <2>1, SumToNat
  <1>6. ASSUME NEW m \in 1 .. n, NEW l \in m + 1 .. n + 1
        PROVE  Entered(seq, s, m) + EntryCount(seq[m], s) <= Entered(seq, s, l)
    <2>1. /\ m - 1 \in Nat /\ l - 1 \in Nat /\ m - 1 < l - 1 /\ m - 1 + 1 = m
          /\ m \in 1 .. n + 1 /\ l \in 1 .. n + 1
          /\ \A i \in 1 .. l - 1 : entries[i] \in Nat
      BY <1>1, <1>2
    <2>2. SumTo(entries, m - 1) + entries[m - 1 + 1] <= SumTo(entries, l - 1)
      BY <2>1, SumToBefore
    <2>3. QED
      BY <1>2, <1>4, <2>1, <2>2
  <1>7. Counted(seq, s) \in Nat
    BY <1>1, <1>2, <1>3, SumToNat
  <1>8. Entered(seq, s, n + 1) <= Counted(seq, s)
    <2>1. n + 1 - 1 = n /\ n + 1 \in 1 .. n + 1
      BY <1>1
    <2>2. SumTo(entries, n) <= SumTo(mapped, n)
      <3>1. \A i \in 1 .. n : entries[i] \in Nat /\ mapped[i] \in Nat /\ entries[i] <= mapped[i]
        BY <1>2
      <3>2. QED
        BY ONLY <1>1, <3>1, SumToAtMost
    <2>3. Entered(seq, s, n + 1) = SumTo(entries, n + 1 - 1)
      BY <1>1, <1>4, <2>1
    <2>4. QED
      BY <1>3, <2>1, <2>2, <2>3
  <1>9. QED
    BY <1>5, <1>6, <1>7, <1>8 DEF n

(* Each entry of a station is for one of the measurements.                 *)
LEMMA EnteredFor ==
  ASSUME NEW seq, Legal(seq), NEW s \in Stations,
         NEW p \in 1 .. Entered(seq, s, Len(seq) + 1)
  PROVE  \E m \in 1 .. Len(seq) : \E k \in 1 .. EntryCount(seq[m], s) :
            p = Entered(seq, s, m) + k
  <1> DEFINE n == Len(seq)
             entries == [l \in DOMAIN seq |-> EntryCount(seq[l], s)]
  <1>1. n \in Nat /\ DOMAIN seq = 1 .. n
    BY LegalMembers
  <1>2. \A i \in 1 .. n : entries[i] = EntryCount(seq[i], s) /\ entries[i] \in Nat
    BY <1>1, LegalMembers, Counts
  <1>3. \A m \in 1 .. n + 1 : Entered(seq, s, m) = SumTo(entries, m - 1)
    BY DEF Entered
  <1> HIDE DEF entries, n
  <1>4. n + 1 - 1 = n /\ n + 1 \in 1 .. n + 1
    BY <1>1
  <1>5. p \in 1 .. SumTo(entries, n)
    BY <1>3, <1>4 DEF n
  <1>6. \E m \in 1 .. n : \E k \in 1 .. entries[m] : p = SumTo(entries, m - 1) + k
    BY <1>1, <1>2, <1>5, SumToPlace
  <1>7. \A m \in 1 .. n : m \in 1 .. n + 1
    BY <1>1
  <1>8. QED
    BY <1>2, <1>3, <1>6, <1>7 DEF n

(* The parts of the stations follow each other.                            *)
LEMMA PartsFollow ==
  ASSUME NEW seq, Legal(seq), NEW s \in Stations
  PROVE  /\ s \in Nat \ {0}
         /\ Before(seq, s) \in Nat /\ Total(MapMeasurementStations(seq)) \in Nat
         /\ Before(seq, s) + Counted(seq, s) <= Total(MapMeasurementStations(seq))
         /\ \A t \in Stations :
               s < t => Before(seq, s) + Counted(seq, s) <= Before(seq, t)
         /\ Starts(MapMeasurementStations(seq))[s]
               = IF Counted(seq, s) > 0 THEN Before(seq, s) ELSE 0
  <1> DEFINE counts == [t \in Stations |-> Counted(seq, t)]
             n == Cardinality(Stations)
  <1>1. n \in Nat \ {0} /\ Stations = 1 .. n
    BY StationsFinite
  <1>2. \A t \in 1 .. n : counts[t] = Counted(seq, t) /\ counts[t] \in Nat
    BY <1>1, EnteredFit
  <1>3. \A t \in Stations : Before(seq, t) = SumTo(counts, t - 1)
    BY DEF Before
  <1>4. Total(MapMeasurementStations(seq)) = SumTo(counts, n)
    BY DEF Total, Counted
  <1>5. Starts(MapMeasurementStations(seq))[s]
               = IF Counted(seq, s) > 0 THEN Before(seq, s) ELSE 0
    BY DEF Starts, Counted, Before, MapMeasurementStations
  <1> HIDE DEF counts, n
  <1>6. s \in Nat \ {0} /\ s - 1 \in Nat /\ s - 1 < n /\ s - 1 + 1 = s
    BY <1>1
  <1>7. /\ SumTo(counts, s - 1) \in Nat /\ SumTo(counts, n) \in Nat
        /\ SumTo(counts, s - 1) + counts[s - 1 + 1] <= SumTo(counts, n)
    BY <1>1, <1>2, <1>6, SumToBefore
  <1>8. ASSUME NEW t \in Stations, s < t
        PROVE  Before(seq, s) + Counted(seq, s) <= Before(seq, t)
    <2>1. t - 1 \in Nat /\ s - 1 < t - 1 /\ \A i \in 1 .. t - 1 : counts[i] \in Nat
      BY <1>1, <1>2, <1>8
    <2>2. SumTo(counts, s - 1) + counts[s - 1 + 1] <= SumTo(counts, t - 1)
      BY <1>6, <2>1, SumToBefore
    <2>3. QED
      BY <1>1, <1>2, <1>3, <1>6, <2>2
  <1>9. QED
    BY <1>1, <1>2, <1>3, <1>4, <1>5, <1>6, <1>7, <1>8

(* The places of the entries of a station for a measurement.               *)
LEMMA PlacesAre ==
  ASSUME NEW seq, Legal(seq), NEW m \in 1 .. Len(seq)
  PROVE  \A at : at \in Places(MapMeasurementStations(seq), seq, m) <=>
            \E s \in Stations : \E k \in 1 .. EntryCount(seq[m], s) :
               at = From(seq, s, m) + k
  <1> DEFINE list == MapMeasurementStations(seq)
             last(s) == Starts(list)[s] + Entered(seq, s, m)
  <1>1. Len(seq) \in Nat /\ m + 1 \in 1 .. Len(seq) + 1 /\ m \in 1 .. Len(seq) + 1
        /\ Len(seq) + 1 \in m + 1 .. Len(seq) + 1 /\ Len(seq) + 1 \in 1 .. Len(seq) + 1
    BY LegalMembers
  <1>2. ASSUME NEW s \in Stations, NEW k \in 1 .. EntryCount(seq[m], s)
        PROVE  Counted(seq, s) > 0
    <2>1. EntryCount(seq[m], s) \in Nat
      BY LegalMembers, Counts
    <2>2. /\ Entered(seq, s, m) \in Nat
          /\ Entered(seq, s, m) + EntryCount(seq[m], s) <= Entered(seq, s, Len(seq) + 1)
          /\ Entered(seq, s, Len(seq) + 1) \in Nat
          /\ Entered(seq, s, Len(seq) + 1) <= Counted(seq, s)
          /\ Counted(seq, s) \in Nat
      BY <1>1, EnteredFit
    <2>3. QED
      BY <1>2, <2>1, <2>2
  <1>3. ASSUME NEW s \in Stations, NEW k \in 1 .. EntryCount(seq[m], s)
        PROVE  last(s) = From(seq, s, m)
    BY <1>2, PartsFollow DEF From
  <1>4. ASSUME NEW s \in Stations
        PROVE  last(s) \in Nat /\ EntryCount(seq[m], s) \in Nat
    <2>1. Entered(seq, s, m) \in Nat /\ EntryCount(seq[m], s) \in Nat
      BY <1>1, EnteredFit, LegalMembers, Counts
    <2>2. Starts(list)[s] \in Nat
      BY PartsFollow
    <2>3. QED
      BY <2>1, <2>2
  <1>5. Places(list, seq, m)
          = UNION {last(s) + 1 .. last(s) + EntryCount(seq[m], s) : s \in Stations}
    BY DEF Places
  <1> HIDE DEF last, list
  <1>6. ASSUME NEW at, at \in Places(list, seq, m)
        PROVE  \E s \in Stations : \E k \in 1 .. EntryCount(seq[m], s) :
                  at = From(seq, s, m) + k
    <2>1. PICK s \in Stations : at \in last(s) + 1 .. last(s) + EntryCount(seq[m], s)
      BY <1>5, <1>6
    <2>2. at - last(s) \in 1 .. EntryCount(seq[m], s) /\ at = last(s) + (at - last(s))
      BY <1>4, <2>1
    <2>3. QED
      BY <1>3, <2>2
  <1>7. ASSUME NEW s \in Stations, NEW k \in 1 .. EntryCount(seq[m], s)
        PROVE  From(seq, s, m) + k \in Places(list, seq, m)
    <2>1. last(s) + k \in last(s) + 1 .. last(s) + EntryCount(seq[m], s)
      BY <1>4
    <2>2. QED
      BY <1>3, <1>5, <2>1
  <1>8. QED
    BY <1>6, <1>7 DEF list

(* Each place is within the station's part, and is that of no other entry. *)
LEMMA PlaceWithin ==
  ASSUME NEW seq, Legal(seq), NEW m \in 1 .. Len(seq), NEW s \in Stations,
         NEW k \in 1 .. EntryCount(seq[m], s)
  PROVE  /\ Entered(seq, s, m) \in Nat /\ From(seq, s, m) \in Nat
         /\ Entered(seq, s, m) + k \in 1 .. Entered(seq, s, Len(seq) + 1)
         /\ From(seq, s, m) + k \in Before(seq, s) + 1 .. Before(seq, s) + Counted(seq, s)
         /\ From(seq, s, m) + k \in 1 .. Total(MapMeasurementStations(seq))
  <1>1. /\ Len(seq) \in Nat /\ m \in 1 .. Len(seq) + 1
        /\ Len(seq) + 1 \in m + 1 .. Len(seq) + 1 /\ Len(seq) + 1 \in 1 .. Len(seq) + 1
    BY LegalMembers
  <1>2. EntryCount(seq[m], s) \in Nat
    BY LegalMembers, Counts
  <1>3. /\ Entered(seq, s, m) \in Nat
        /\ Entered(seq, s, m) + EntryCount(seq[m], s) <= Entered(seq, s, Len(seq) + 1)
        /\ Entered(seq, s, Len(seq) + 1) \in Nat
        /\ Entered(seq, s, Len(seq) + 1) <= Counted(seq, s)
        /\ Counted(seq, s) \in Nat
    BY <1>1, EnteredFit
  <1>4. /\ Before(seq, s) \in Nat /\ Total(MapMeasurementStations(seq)) \in Nat
        /\ Before(seq, s) + Counted(seq, s) <= Total(MapMeasurementStations(seq))
    BY PartsFollow
  <1>5. QED
    <2> DEFINE before == Before(seq, s)
               entered == Entered(seq, s, m)
               entries == EntryCount(seq[m], s)
               all == Entered(seq, s, Len(seq) + 1)
               counted == Counted(seq, s)
               total == Total(MapMeasurementStations(seq))
    <2>1. From(seq, s, m) = before + entered
      BY DEF From
    <2>2. /\ entries \in Nat /\ entered \in Nat /\ all \in Nat /\ counted \in Nat
          /\ before \in Nat /\ total \in Nat
          /\ entered + entries <= all /\ all <= counted /\ before + counted <= total
      BY <1>2, <1>3, <1>4
    <2>3. k \in 1 .. entries
      OBVIOUS
    <2> HIDE DEF before, entered, entries, all, counted, total
    <2>4. /\ before + entered \in Nat /\ entered + k \in 1 .. all
          /\ before + entered + k \in before + 1 .. before + counted
          /\ before + entered + k \in 1 .. total
      BY ONLY <2>2, <2>3
    <2>5. /\ entered \in Nat /\ From(seq, s, m) \in Nat /\ entered + k \in 1 .. all
          /\ From(seq, s, m) + k \in before + 1 .. before + counted
          /\ From(seq, s, m) + k \in 1 .. total
      BY ONLY <2>1, <2>2, <2>4
    <2>6. QED
      BY ONLY <2>5 DEF before, entered, all, counted, total

(* No place belongs to the entries of two measurements.                    *)
LEMMA PlaceOnce ==
  ASSUME NEW seq, Legal(seq), NEW m \in 1 .. Len(seq), NEW l \in 1 .. Len(seq),
         NEW s \in Stations, NEW t \in Stations,
         NEW j \in 1 .. EntryCount(seq[m], s), NEW k \in 1 .. EntryCount(seq[l], t),
         From(seq, s, m) + j = From(seq, t, l) + k
  PROVE  m = l
  <1>1. ASSUME NEW x \in Stations, NEW y \in Stations, x < y,
               NEW p \in Before(seq, x) + 1 .. Before(seq, x) + Counted(seq, x),
               p \in Before(seq, y) + 1 .. Before(seq, y) + Counted(seq, y)
        PROVE  FALSE
    <2>1. /\ Before(seq, x) \in Nat /\ Before(seq, y) \in Nat
          /\ Before(seq, x) + Counted(seq, x) <= Before(seq, y)
          /\ Counted(seq, x) \in Nat /\ Counted(seq, y) \in Nat
      BY <1>1, PartsFollow, EnteredFit
    <2>2. QED
      BY <1>1, <2>1
  <1>2. s = t
    <2>1. /\ From(seq, s, m) + j \in Before(seq, s) + 1 .. Before(seq, s) + Counted(seq, s)
          /\ From(seq, t, l) + k \in Before(seq, t) + 1 .. Before(seq, t) + Counted(seq, t)
      BY PlaceWithin
    <2>2. ~(s < t) /\ ~(t < s)
      BY <1>1, <2>1
    <2>3. s \in Nat /\ t \in Nat
      BY PartsFollow
    <2>4. QED
      BY <2>2, <2>3
  <1>3. ASSUME NEW x \in 1 .. Len(seq), NEW y \in 1 .. Len(seq), x < y,
               NEW p \in 1 .. EntryCount(seq[x], s), NEW q \in 1 .. EntryCount(seq[y], s)
        PROVE  Entered(seq, s, x) + p < Entered(seq, s, y) + q
    <2>1. Len(seq) \in Nat /\ x \in 1 .. Len(seq) + 1 /\ y \in x + 1 .. Len(seq) + 1
          /\ y \in 1 .. Len(seq) + 1
      BY <1>3, LegalMembers
    <2>2. /\ Entered(seq, s, x) + EntryCount(seq[x], s) <= Entered(seq, s, y)
          /\ Entered(seq, s, x) \in Nat /\ Entered(seq, s, y) \in Nat
      BY <2>1, EnteredFit
    <2>3. EntryCount(seq[x], s) \in Nat /\ EntryCount(seq[y], s) \in Nat
      BY LegalMembers, Counts
    <2>4. QED
      BY <2>2, <2>3
  <1>4. Entered(seq, s, m) + j = Entered(seq, s, l) + k
    <2>1. Before(seq, s) \in Nat /\ Entered(seq, s, m) \in Nat /\ Entered(seq, s, l) \in Nat
      BY <1>2, PartsFollow, PlaceWithin
    <2>2. EntryCount(seq[m], s) \in Nat /\ EntryCount(seq[l], t) \in Nat
      BY LegalMembers, Counts
    <2>3. Before(seq, s) + Entered(seq, s, m) + j = Before(seq, s) + Entered(seq, s, l) + k
      BY <1>2 DEF From
    <2>4. j \in Nat /\ k \in Nat
      BY <2>2
    <2> DEFINE b == Before(seq, s)
               x == Entered(seq, s, m)
               y == Entered(seq, s, l)
    <2>5. b \in Nat /\ x \in Nat /\ y \in Nat /\ b + x + j = b + y + k
      BY <2>1, <2>3
    <2> HIDE DEF b, x, y
    <2>6. x + j = y + k
      BY ONLY <2>4, <2>5
    <2>7. QED
      BY ONLY <2>6 DEF x, y
  <1>5. ~(m < l) /\ ~(l < m)
    <2>1. Entered(seq, s, m) + j \in Nat
      BY <1>4, PlaceWithin
    <2>2. QED
      BY <1>2, <1>3, <1>4, <2>1
  <1>6. QED
    BY <1>5, LegalMembers

-----------------------------------------------------------------------------
(* The records of a measurement and the step of the file index. *)

LEMMA PartsCount ==
  ASSUME NEW m \in Measurement, WellFormed(m), m.type \in GNSS
  PROVE  Parts(m) \in Nat /\ (StationsOf(m) # {} => Parts(m) >= 1)
  <1> DEFINE n == Len(m.stns)
  <1>1. n \in Nat /\ DOMAIN m.stns = 1 .. n
    BY MeasurementTypes
  <1>2. StationsOf(m) # {} => n >= 1
    BY <1>1 DEF StationsOf, ToSet
  <1>3. CASE m.type = "Y"
    BY <1>1, <1>2, <1>3 DEF Parts
  <1>4. CASE m.type # "Y"
    <2>1. n % 2 = 0
      BY <1>4 DEF WellFormed, GNSS
    <2>2. Parts(m) = n \div 2
      BY <1>4 DEF Parts
    <2> HIDE DEF n
    <2>3. n \div 2 \in Nat /\ n = 2 * (n \div 2)
      BY <1>1, <2>1
    <2>4. QED
      BY <1>1, <1>2, <2>2, <2>3
  <1>5. QED
    BY <1>3, <1>4

(* The index of a measurement in the file grows by its records.            *)
LEMMA AdvanceRecords ==
  ASSUME NEW m \in Measurement, WellFormed(m)
  PROVE  /\ CalcBinaryRecordCount(m) \in Nat
         /\ Advance(m, "str_msr") = CalcBinaryRecordCount(m)
         /\ StationsOf(m) # {} => CalcBinaryRecordCount(m) >= 1
         /\ Advance(m, "cls_msr") = 1
  <1>0. Advance(m, "cls_msr") = 1
    BY DEF Advance
  <1>1. CASE m.type = "D"
    <2>1. Len(m.stns) \in Nat /\ Len(m.stns) >= 2
      BY <1>1, MeasurementTypes DEF WellFormed
    <2>2. Advance(m, "str_msr") = 1 + (Len(m.stns) - 2)
      BY <1>1 DEF Advance, GNSS
    <2>3. CalcBinaryRecordCount(m) = Len(m.stns) - 1
      BY <1>1 DEF CalcBinaryRecordCount, GNSS
    <2>4. QED
      BY <1>0, <2>1, <2>2, <2>3
  <1>2. CASE m.type \in GNSS
    <2> DEFINE n == Parts(m)
               records == [part \in 1 .. n |-> PartRecords(m, part)]
    <2>1. n \in Nat /\ (StationsOf(m) # {} => n >= 1)
      BY <1>2, PartsCount
    <2>2. Advance(m, "str_msr") = 3 * n + 3 * ((n * (n - 1)) \div 2)
      BY <1>2 DEF Advance, GNSS
    <2>3. CalcBinaryRecordCount(m) = SumTo(records, n)
      BY <1>2 DEF CalcBinaryRecordCount, GNSS
    <2>4. \A i \in 1 .. n : records[i] = 3 + 3 * (n - i)
      BY DEF PartRecords
    <2> HIDE DEF n, records
    <2>5. SumTo(records, n) = 3 * n + 3 * ((n * (n - 1)) \div 2)
      BY <2>1, <2>4, ClusterRecords
    <2>6. (n * (n - 1)) \div 2 \in Nat
      BY <2>1, Halves
    <2> DEFINE h == (n * (n - 1)) \div 2
    <2>7. 3 * n + 3 * h \in Nat /\ (n >= 1 => 3 * n + 3 * h >= 1)
      <3> HIDE DEF h
      <3>1. h \in Nat
        BY <2>6 DEF h
      <3>2. QED
        BY <2>1, <3>1
    <2>8. QED
      BY <1>0, <2>1, <2>2, <2>3, <2>5, <2>7
  <1>3. CASE m.type \notin GNSS \cup {"D"}
    BY <1>0, <1>3 DEF Advance, CalcBinaryRecordCount, GNSS
  <1>4. QED
    BY <1>1, <1>2, <1>3

LEMMA AdvanceNat ==
  ASSUME NEW m \in Measurement, WellFormed(m), NEW type \in {"cls_msr", "str_msr"}
  PROVE  Advance(m, type) \in Nat
  BY AdvanceRecords

LEMMA IndexNat ==
  ASSUME NEW seq, Legal(seq), NEW type \in {"cls_msr", "str_msr"},
         NEW m \in 1 .. Len(seq)
  PROVE  Index(seq, type, m) \in Nat
  <1> DEFINE f == [l \in DOMAIN seq |-> Advance(seq[l], type)]
  <1>1. m - 1 \in Nat /\ \A i \in 1 .. m - 1 : f[i] \in Nat
    BY LegalMembers, AdvanceNat
  <1>2. Index(seq, type, m) = SumTo(f, m - 1)
    BY DEF Index
  <1> HIDE DEF f
  <1>3. QED
    BY <1>1, <1>2, SumToNat

-----------------------------------------------------------------------------
(* The second pass. *)

(* It stays within the vector, and each entry is that of its measurement.  *)
LEMMA Completed ==
  ASSUME NEW seq, Legal(seq), NEW type \in {"cls_msr", "str_msr"}, NEW table,
         table = CompleteAssociationLists(MapMeasurementStations(seq), seq, type)
  PROVE  /\ ~table.thrown
         /\ table.aml \in [1 .. Total(MapMeasurementStations(seq)) -> Nat]
         /\ table.asl \in [Stations -> [count : Nat, start : Nat, valid : BOOLEAN]]
         /\ \A m \in 1 .. Len(seq) : \A s \in Stations :
              \A k \in 1 .. EntryCount(seq[m], s) :
                 table.aml[From(seq, s, m) + k] = Index(seq, type, m)
  <1> DEFINE list == MapMeasurementStations(seq)
             entering(at) == {m \in DOMAIN seq : at \in Places(list, seq, m)}
             entry(at) == Entry(list, seq, type, at)
  <1>1. Len(seq) \in Nat /\ DOMAIN seq = 1 .. Len(seq)
    BY LegalMembers
  <1>2. \A m \in 1 .. Len(seq) : Index(seq, type, m) \in Nat
    BY IndexNat
  <1>3. ASSUME NEW at, NEW m \in 1 .. Len(seq), m \in entering(at)
        PROVE  entry(at) = Index(seq, type, m)
    <2>1. \A l \in entering(at) : l = m
      <3>1. TAKE l \in entering(at)
      <3>2. l \in 1 .. Len(seq)
        BY <1>1
      <3>3. PICK s \in Stations : \E k \in 1 .. EntryCount(seq[m], s) :
                  at = From(seq, s, m) + k
        BY <1>3, PlacesAre
      <3>4. PICK t \in Stations : \E k \in 1 .. EntryCount(seq[l], t) :
                  at = From(seq, t, l) + k
        BY <3>1, <3>2, PlacesAre
      <3> HIDE DEF entering
      <3>5. QED
        BY <3>2, <3>3, <3>4, PlaceOnce
    <2>2. entering(at) = {m}
      BY <1>3, <2>1
    <2>3. Max({m}) = m
      BY DEF Max
    <2>4. entry(at) = Index(seq, type, Max(entering(at)))
      BY <1>3 DEF Entry
    <2> HIDE DEF entering, entry
    <2>5. QED
      BY <2>2, <2>3, <2>4
  <1>4. \A at : entry(at) \in Nat
    <2>1. TAKE at
    <2>2. CASE entering(at) = {}
      BY <2>2 DEF Entry
    <2>3. CASE entering(at) # {}
      <3>1. PICK m \in 1 .. Len(seq) : m \in entering(at)
        BY <1>1, <2>3
      <3> HIDE DEF entering, entry
      <3>2. QED
        BY <1>2, <1>3, <3>1
    <2>4. QED
      BY <2>2, <2>3
  <1>5. ~table.thrown
    <2>1. ASSUME NEW m \in 1 .. Len(seq), NEW at \in Places(list, seq, m)
          PROVE  at \in 1 .. Total(list)
      BY <2>1, PlacesAre, PlaceWithin
    <2>2. table.thrown = \E m \in DOMAIN seq : ~(Places(list, seq, m) \subseteq 1 .. Total(list))
      BY DEF CompleteAssociationLists
    <2> HIDE DEF list
    <2>3. QED
      BY <1>1, <2>1, <2>2
  <1>6. table.aml = [at \in 1 .. Total(list) |-> entry(at)]
    BY DEF CompleteAssociationLists
  <1>7. table.asl \in [Stations -> [count : Nat, start : Nat, valid : BOOLEAN]]
    <2>1. ASSUME NEW s \in Stations
          PROVE  Entered(seq, s, Len(seq) + 1) \in Nat /\ Starts(list)[s] \in Nat
      <3>1. Len(seq) + 1 \in 1 .. Len(seq) + 1
        BY <1>1
      <3>2. QED
        BY <3>1, EnteredFit, PartsFollow
    <2>2. table.asl = [s \in Stations |->
                [count |-> Entered(seq, s, Len(seq) + 1),
                 start |-> Starts(list)[s],
                 valid |-> \E m \in DOMAIN seq : s \in Observed(seq[m])]]
      BY DEF CompleteAssociationLists
    <2> HIDE DEF list
    <2>3. QED
      BY <2>1, <2>2
  <1>8. ASSUME NEW m \in 1 .. Len(seq), NEW s \in Stations,
               NEW k \in 1 .. EntryCount(seq[m], s)
        PROVE  table.aml[From(seq, s, m) + k] = Index(seq, type, m)
    <2>1. From(seq, s, m) + k \in 1 .. Total(list)
      BY PlaceWithin
    <2>2. m \in entering(From(seq, s, m) + k)
      BY <1>1, PlacesAre
    <2> HIDE DEF entering, entry
    <2>3. QED
      BY <1>3, <1>6, <2>1, <2>2
  <1>9. QED
    <2> HIDE DEF list, entry, entering
    <2>1. table.aml \in [1 .. Total(list) -> Nat]
      BY <1>4, <1>6
    <2>2. QED
      BY <1>5, <1>7, <1>8, <2>1 DEF list

-----------------------------------------------------------------------------
(* The lists that are written. *)

(* In the file the index of a measurement is that of its first record.     *)
LEMMA IndexRecords ==
  ASSUME NEW seq, Legal(seq), NEW m \in 1 .. Len(seq)
  PROVE  /\ Index(seq, "str_msr", m)
              = SumTo([l \in DOMAIN seq |-> CalcBinaryRecordCount(seq[l])], m - 1)
         /\ \A l \in m + 1 .. Len(seq) :
               StationsOf(seq[m]) # {} => Index(seq, "str_msr", m) < Index(seq, "str_msr", l)
  <1> DEFINE f == [l \in DOMAIN seq |-> Advance(seq[l], "str_msr")]
             g == [l \in DOMAIN seq |-> CalcBinaryRecordCount(seq[l])]
             n == Len(seq)
  <1>1. n \in Nat /\ DOMAIN seq = 1 .. n
    BY LegalMembers
  <1>2. \A i \in 1 .. n : f[i] \in Nat /\ f[i] = g[i]
    BY <1>1, LegalMembers, AdvanceRecords
  <1>3. StationsOf(seq[m]) # {} => f[m] >= 1
    BY <1>1, LegalMembers, AdvanceRecords
  <1>4. \A l \in 1 .. n : Index(seq, "str_msr", l) = SumTo(f, l - 1)
    BY DEF Index
  <1> HIDE DEF f, g
  <1>5. SumTo(f, m - 1) = SumTo(g, m - 1)
    <2>1. m - 1 \in Nat /\ \A i \in 1 .. m - 1 : f[i] \in Nat /\ f[i] = g[i]
      BY <1>1, <1>2
    <2>2. QED
      BY ONLY <2>1, SumToEqual
  <1>6. ASSUME NEW l \in m + 1 .. n, StationsOf(seq[m]) # {}
        PROVE  SumTo(f, m - 1) < SumTo(f, l - 1)
    <2>1. /\ m - 1 \in Nat /\ l - 1 \in Nat /\ m - 1 < l - 1 /\ m - 1 + 1 = m
          /\ \A i \in 1 .. l - 1 : f[i] \in Nat
      BY <1>1, <1>2
    <2>2. /\ SumTo(f, m - 1) \in Nat /\ SumTo(f, l - 1) \in Nat /\ f[m - 1 + 1] \in Nat
          /\ SumTo(f, m - 1) + f[m - 1 + 1] <= SumTo(f, l - 1)
      BY <2>1, SumToBefore
    <2>3. QED
      BY <1>3, <1>6, <2>1, <2>2
  <1>7. QED
    <2>1. \A l \in m + 1 .. n : l \in 1 .. n
      BY <1>1
    <2>2. QED
      BY <1>4, <1>5, <1>6, <2>1 DEF g

(* A measurement that mentions each station once has one entry for each.   *)
LEMMA OnceCounts ==
  ASSUME NEW seq, Legal(seq), Once(seq), NEW m \in 1 .. Len(seq), NEW s
  PROVE  EntryCount(seq[m], s) = IF s \in StationsOf(seq[m]) THEN 1 ELSE 0
  <1>1. seq[m] \in Measurement /\ WellFormed(seq[m]) /\ m \in DOMAIN seq
    BY LegalMembers
  <1>2. /\ EntryCount(seq[m], s) \in Nat
        /\ EntryCount(seq[m], s) = 0 <=> s \notin StationsOf(seq[m])
    BY <1>1, Counts
  <1>3. EntryCount(seq[m], s) <= 1
    <2>1. CASE seq[m].type \in {"D", "G", "X"}
      BY <1>1, <2>1, Counts
    <2>2. CASE seq[m].type \notin {"D", "G", "X"}
      <3>1. IsInjective(seq[m].stns) /\ seq[m].stns \in Seq(Nat)
        BY <1>1, <2>2, MeasurementTypes DEF Once
      <3>2. EntryCount(seq[m], s) = Times(s, seq[m].stns)
        BY <1>1, <2>2, Counts
      <3>3. QED
        BY <3>1, <3>2, TimesCounts
    <2>3. QED
      BY <2>1, <2>2
  <1>4. QED
    BY <1>2, <1>3

(* A station's entries are the indexes of the measurements that mention it.*)
EntriesOf(table, seq, type, s) ==
    /\ \A p \in 1 .. table.asl[s].count : \E m \in 1 .. Len(seq) :
          /\ s \in StationsOf(seq[m])
          /\ p = Entered(seq, s, m) + 1
          /\ table.aml[table.asl[s].start + p] = Index(seq, type, m)
          /\ table.aml[table.asl[s].start + p] \in Nat
    /\ \A m \in 1 .. Len(seq) : s \in StationsOf(seq[m]) =>
          /\ Entered(seq, s, m) + 1 \in 1 .. table.asl[s].count
          /\ table.aml[table.asl[s].start + (Entered(seq, s, m) + 1)] = Index(seq, type, m)

(* So they are after the second pass, if no station is mentioned twice.    *)
LEMMA EntriesAre ==
  ASSUME NEW seq, Legal(seq), Once(seq), NEW type \in {"cls_msr", "str_msr"}, NEW table,
         table = CompleteAssociationLists(MapMeasurementStations(seq), seq, type),
         NEW s \in Stations
  PROVE  /\ table.asl[s].start \in Nat /\ table.asl[s].count \in Nat
         /\ table.asl[s].count > 0 => table.asl[s].start = Before(seq, s)
         /\ EntriesOf(table, seq, type, s)
  <1> DEFINE start == table.asl[s].start
             count == table.asl[s].count
  <1>1. /\ count = Entered(seq, s, Len(seq) + 1)
        /\ start = Starts(MapMeasurementStations(seq))[s]
    BY DEF CompleteAssociationLists
  <1>2. start \in Nat /\ count \in Nat /\ (count > 0 => start = Before(seq, s))
    <2>1. Len(seq) + 1 \in 1 .. Len(seq) + 1
      BY LegalMembers
    <2>2. count \in Nat /\ Counted(seq, s) \in Nat /\ count <= Counted(seq, s)
      BY <1>1, <2>1, EnteredFit
    <2>3. /\ Before(seq, s) \in Nat
          /\ start = IF Counted(seq, s) > 0 THEN Before(seq, s) ELSE 0
      BY <1>1, PartsFollow
    <2> HIDE DEF start, count
    <2>4. QED
      BY <2>2, <2>3
  <1> HIDE DEF start, count
  <1>3. ASSUME NEW m \in 1 .. Len(seq), s \in StationsOf(seq[m])
        PROVE  /\ Entered(seq, s, m) \in Nat
               /\ Entered(seq, s, m) + 1 \in 1 .. count
               /\ table.aml[start + (Entered(seq, s, m) + 1)] = Index(seq, type, m)
               /\ Index(seq, type, m) \in Nat
    <2>1. EntryCount(seq[m], s) = 1 /\ 1 \in 1 .. EntryCount(seq[m], s)
      BY <1>3, OnceCounts
    <2>2. Entered(seq, s, m) \in Nat /\ Entered(seq, s, m) + 1 \in 1 .. count
      BY <1>1, <2>1, PlaceWithin
    <2>3. start = Before(seq, s) /\ Before(seq, s) \in Nat
      BY <1>2, <2>2
    <2>4. table.aml[From(seq, s, m) + 1] = Index(seq, type, m)
      BY <2>1, Completed
    <2>5. From(seq, s, m) + 1 = start + (Entered(seq, s, m) + 1)
      BY <2>2, <2>3 DEF From
    <2>6. QED
      BY <2>2, <2>4, <2>5, IndexNat
  <1>4. ASSUME NEW p \in 1 .. count
        PROVE  \E m \in 1 .. Len(seq) :
                   /\ s \in StationsOf(seq[m])
                   /\ p = Entered(seq, s, m) + 1
                   /\ table.aml[start + p] = Index(seq, type, m)
                   /\ table.aml[start + p] \in Nat
    <2>1. PICK m \in 1 .. Len(seq) : \E k \in 1 .. EntryCount(seq[m], s) :
                 p = Entered(seq, s, m) + k
      BY <1>1, EnteredFor
    <2>2. PICK k \in 1 .. EntryCount(seq[m], s) : p = Entered(seq, s, m) + k
      BY <2>1
    <2>3. s \in StationsOf(seq[m]) /\ k = 1
      <3>1. EntryCount(seq[m], s) = IF s \in StationsOf(seq[m]) THEN 1 ELSE 0
        BY OnceCounts
      <3>2. k \in 1 .. EntryCount(seq[m], s)
        OBVIOUS
      <3>3. QED
        BY ONLY <3>1, <3>2
    <2>4. p = Entered(seq, s, m) + 1
      BY <2>2, <2>3
    <2>5. QED
      BY <1>3, <2>3, <2>4
  <1>5. QED
    BY <1>2, <1>3, <1>4 DEF start, count, EntriesOf

(* A part of a sequence of numbers.                                        *)
LEMMA PartOf ==
  ASSUME NEW seq, NEW start \in Nat, NEW count \in Nat,
         \A p \in 1 .. count : seq[start + p] \in Nat
  PROVE  /\ DOMAIN SubSeq(seq, start + 1, start + count) = 1 .. count
         /\ \A p \in 1 .. count : SubSeq(seq, start + 1, start + count)[p] = seq[start + p]
  <1> DEFINE a == start + 1
             b == start + count
             part == SubSeq(seq, a, b)
  <1>1. \A i \in a .. b : seq[i] \in Nat
    <2>1. TAKE i \in a .. b
    <2>2. i - start \in 1 .. count /\ start + (i - start) = i
      OBVIOUS
    <2>3. QED
      BY <2>2
  <1>2. /\ a \in Int /\ b \in Int /\ b - a + 1 = count /\ (a <= b <=> count # 0)
        /\ \A p \in 1 .. count : a + p - 1 = start + p
    OBVIOUS
  <1> HIDE DEF a, b
  <1>3. /\ part \in Seq(Nat)
        /\ Len(part) = IF a <= b THEN b - a + 1 ELSE 0
        /\ \A i \in 1 .. b - a + 1 : part[i] = seq[a + i - 1]
    BY <1>1, <1>2, SubSeqProperties
  <1> HIDE DEF part
  <1>4. DOMAIN part = 1 .. count
    BY <1>2, <1>3
  <1>5. \A p \in 1 .. count : part[p] = seq[start + p]
    BY <1>2, <1>3
  <1>6. QED
    BY <1>4, <1>5 DEF part, a, b

(* The written lists fit the records of the measurement file.              *)
LEMMA WrittenFit ==
  ASSUME Legal(msrs), Once(msrs), NEW table,
         table = CompleteAssociationLists(MapMeasurementStations(msrs), msrs, "str_msr"),
         asl = table.asl, aml = table.aml
  PROVE  ListsFitRecords
  <1> DEFINE n == Len(msrs)
  <1>1. n \in Nat /\ DOMAIN msrs = 1 .. n
    BY LegalMembers
  <1>2. \A m \in 1 .. n : Index(msrs, "str_msr", m) = FirstRecord(m)
    BY IndexRecords DEF FirstRecord
  <1>3. ASSUME NEW m \in 1 .. n, NEW l \in 1 .. n,
               StationsOf(msrs[m]) # {}, StationsOf(msrs[l]) # {},
               FirstRecord(m) = FirstRecord(l)
        PROVE  m = l
    <2>1. ASSUME NEW x \in 1 .. n, NEW y \in 1 .. n, x < y, StationsOf(msrs[x]) # {}
          PROVE  FirstRecord(x) < FirstRecord(y)
      <3>1. y \in x + 1 .. n
        BY <1>1, <2>1
      <3>2. QED
        BY <1>2, <2>1, <3>1, IndexRecords
    <2>2. FirstRecord(m) \in Nat
      BY <1>2, IndexNat
    <2> HIDE DEF n
    <2>3. ~(m < l) /\ ~(l < m)
      BY <1>3, <2>1, <2>2
    <2>4. QED
      BY <1>1, <2>3
  <1>4. ASSUME NEW s \in Stations
        PROVE  /\ IsInjective(Entries(s))
               /\ ToSet(Entries(s)) = {FirstRecord(m) : m \in
                     {m \in DOMAIN msrs : s \in StationsOf(msrs[m])}}
               /\ asl[s].valid <=> \E m \in DOMAIN msrs : s \in Observed(msrs[m])
    <2> DEFINE start == asl[s].start
               count == asl[s].count
               entries == SubSeq(aml, start + 1, start + count)
    <2>1. /\ start \in Nat /\ count \in Nat
          /\ \A p \in 1 .. count : \E m \in 1 .. n :
                   /\ s \in StationsOf(msrs[m])
                   /\ p = Entered(msrs, s, m) + 1
                   /\ aml[start + p] = FirstRecord(m)
                   /\ aml[start + p] \in Nat
          /\ \A m \in 1 .. n : s \in StationsOf(msrs[m]) =>
                   /\ Entered(msrs, s, m) + 1 \in 1 .. count
                   /\ aml[start + (Entered(msrs, s, m) + 1)] = FirstRecord(m)
      <3>1. /\ start \in Nat /\ count \in Nat
            /\ \A p \in 1 .. count : \E m \in 1 .. Len(msrs) :
                   /\ s \in StationsOf(msrs[m])
                   /\ p = Entered(msrs, s, m) + 1
                   /\ aml[start + p] = Index(msrs, "str_msr", m)
                   /\ aml[start + p] \in Nat
            /\ \A m \in 1 .. Len(msrs) : s \in StationsOf(msrs[m]) =>
                   /\ Entered(msrs, s, m) + 1 \in 1 .. count
                   /\ aml[start + (Entered(msrs, s, m) + 1)] = Index(msrs, "str_msr", m)
        <4>0. /\ EntriesOf(table, msrs, "str_msr", s)
              /\ table.asl[s].start \in Nat /\ table.asl[s].count \in Nat
          BY EntriesAre
        <4>1. /\ table.asl[s].start \in Nat /\ table.asl[s].count \in Nat
              /\ \A p \in 1 .. table.asl[s].count : \E m \in 1 .. Len(msrs) :
                   /\ s \in StationsOf(msrs[m])
                   /\ p = Entered(msrs, s, m) + 1
                   /\ table.aml[table.asl[s].start + p] = Index(msrs, "str_msr", m)
                   /\ table.aml[table.asl[s].start + p] \in Nat
              /\ \A m \in 1 .. Len(msrs) : s \in StationsOf(msrs[m]) =>
                   /\ Entered(msrs, s, m) + 1 \in 1 .. table.asl[s].count
                   /\ table.aml[table.asl[s].start + (Entered(msrs, s, m) + 1)]
                        = Index(msrs, "str_msr", m)
          BY ONLY <4>0 DEF EntriesOf
        <4>2. start = table.asl[s].start /\ count = table.asl[s].count /\ aml = table.aml
          OBVIOUS
        <4> HIDE DEF start, count
        <4>3. QED
          BY ONLY <4>1, <4>2
      <3> HIDE DEF start, count
      <3>2. QED
        BY <1>2, <3>1
    <2> HIDE DEF start, count
    <2>2. /\ DOMAIN entries = 1 .. count
          /\ \A p \in 1 .. count : entries[p] = aml[start + p]
      <3>1. start \in Nat /\ count \in Nat /\ \A p \in 1 .. count : aml[start + p] \in Nat
        BY <2>1
      <3>2. QED
        BY ONLY <3>1, PartOf DEF entries
    <2>3. Entries(s) = entries
      BY DEF Entries, start, count
    <2> HIDE DEF entries
    <2>4. ASSUME NEW p \in 1 .. count, NEW q \in 1 .. count, entries[p] = entries[q]
          PROVE  p = q
      <3>1. PICK m \in 1 .. n : /\ s \in StationsOf(msrs[m])
                                /\ p = Entered(msrs, s, m) + 1
                                /\ aml[start + p] = FirstRecord(m)
        BY <2>1
      <3>2. PICK l \in 1 .. n : /\ s \in StationsOf(msrs[l])
                                /\ q = Entered(msrs, s, l) + 1
                                /\ aml[start + q] = FirstRecord(l)
        BY <2>1
      <3>3. FirstRecord(m) = FirstRecord(l)
        BY <2>2, <2>4, <3>1, <3>2
      <3>4. m = l
        BY <1>3, <3>1, <3>2, <3>3
      <3>5. QED
        BY <3>1, <3>2, <3>4
    <2>5. ToSet(entries) = {FirstRecord(m) : m \in
                     {m \in DOMAIN msrs : s \in StationsOf(msrs[m])}}
      <3>1. ASSUME NEW p \in DOMAIN entries
            PROVE  \E m \in DOMAIN msrs : s \in StationsOf(msrs[m]) /\ entries[p] = FirstRecord(m)
        <4>1. p \in 1 .. count /\ entries[p] = aml[start + p]
          BY <2>2
        <4>2. PICK m \in 1 .. n : s \in StationsOf(msrs[m]) /\ aml[start + p] = FirstRecord(m)
          BY <2>1, <4>1
        <4>3. QED
          BY <1>1, <4>1, <4>2
      <3>2. ASSUME NEW m \in DOMAIN msrs, s \in StationsOf(msrs[m])
            PROVE  \E p \in DOMAIN entries : entries[p] = FirstRecord(m)
        <4>1. m \in 1 .. n
          BY <1>1
        <4>2. /\ Entered(msrs, s, m) + 1 \in 1 .. count
              /\ aml[start + (Entered(msrs, s, m) + 1)] = FirstRecord(m)
          BY <2>1, <3>2, <4>1
        <4>3. entries[Entered(msrs, s, m) + 1] = FirstRecord(m)
          BY <2>2, <4>2
        <4>4. QED
          BY <2>2, <4>2, <4>3
      <3>3. QED
        BY <3>1, <3>2 DEF ToSet
    <2>6. asl[s].valid <=> \E m \in DOMAIN msrs : s \in Observed(msrs[m])
      BY DEF CompleteAssociationLists
    <2>7. IsInjective(entries)
      BY <2>2, <2>4 DEF IsInjective
    <2>8. QED
      BY <2>3, <2>5, <2>6, <2>7
  <1>5. ASSUME NEW s \in Stations, NEW t \in Stations, s < t, asl[t].count > 0
        PROVE  asl[s].start + asl[s].count <= asl[t].start
    <2>1. /\ asl[s].start \in Nat /\ asl[s].count \in Nat
          /\ asl[s].count > 0 => asl[s].start = Before(msrs, s)
          /\ asl[t].start = Before(msrs, t)
      BY <1>5, EntriesAre
    <2>2. /\ Before(msrs, s) \in Nat /\ Before(msrs, t) \in Nat
          /\ Before(msrs, s) + Counted(msrs, s) <= Before(msrs, t)
          /\ Starts(MapMeasurementStations(msrs))[s]
               = IF Counted(msrs, s) > 0 THEN Before(msrs, s) ELSE 0
      BY <1>5, PartsFollow
    <2>3. asl[s].count = Entered(msrs, s, n + 1)
      BY DEF CompleteAssociationLists
    <2>4. asl[s].start = Starts(MapMeasurementStations(msrs))[s]
      BY DEF CompleteAssociationLists
    <2>5. Counted(msrs, s) \in Nat /\ asl[s].count <= Counted(msrs, s)
      <3>1. n + 1 \in 1 .. n + 1
        BY <1>1
      <3>2. QED
        BY <2>3, <3>1, EnteredFit
    <2> HIDE DEF n
    <2>6. CASE Counted(msrs, s) > 0
      <3>1. asl[s].start = Before(msrs, s)
        BY <2>2, <2>4, <2>6
      <3>2. QED
        BY <2>1, <2>2, <2>5, <3>1
    <2>7. CASE Counted(msrs, s) = 0
      <3>1. asl[s].start = 0 /\ asl[s].count = 0
        BY <2>1, <2>2, <2>4, <2>5, <2>7
      <3>2. QED
        BY <2>1, <2>2, <3>1
    <2>8. QED
      BY <2>5, <2>6, <2>7
  <1>6. QED
    BY <1>4, <1>5 DEF ListsFitRecords

-----------------------------------------------------------------------------
(* The lists in memory. *)

(* In memory the index of a measurement is its place.                      *)
LEMMA IndexInMemory ==
  ASSUME NEW seq, Legal(seq), NEW m \in 1 .. Len(seq)
  PROVE  Index(seq, "cls_msr", m) = m - 1
  <1> DEFINE f == [l \in DOMAIN seq |-> Advance(seq[l], "cls_msr")]
             T == {k \in Nat : k <= Len(seq) => SumTo(f, k) = k}
  <1>1. Len(seq) \in Nat /\ \A i \in 1 .. Len(seq) : f[i] = 1
    BY LegalMembers, AdvanceRecords
  <1>2. Index(seq, "cls_msr", m) = SumTo(f, m - 1)
    BY DEF Index
  <1> HIDE DEF f
  <1>3. 0 \in T
    BY SumToFirst
  <1>4. ASSUME NEW k \in Nat, k \in T PROVE k + 1 \in T
    <2>1. SUFFICES ASSUME k + 1 <= Len(seq) PROVE SumTo(f, k + 1) = k + 1
      OBVIOUS
    <2>2. \A i \in 1 .. k + 1 : f[i] \in Nat /\ f[i] = 1
      BY <1>1, <2>1
    <2>3. SumTo(f, k) = k
      BY <1>1, <1>4, <2>1
    <2>4. SumTo(f, k + 1) = SumTo(f, k) + f[k + 1] /\ f[k + 1] = 1
      BY <2>2, SumToNext
    <2>5. QED
      BY <2>3, <2>4
  <1>5. m - 1 \in T
    <2> HIDE DEF T
    <2>1. QED
      BY <1>1, <1>3, <1>4, SetInduction
  <1>6. QED
    BY <1>1, <1>2, <1>5

(* A station with a single entry is that of a single measurement, and the  *)
(* entry leads to it.                                                      *)
LEMMA SingleMeasurement ==
  ASSUME NEW seq, Legal(seq), Once(seq), NEW table,
         table = CompleteAssociationLists(MapMeasurementStations(seq), seq, "cls_msr"),
         NEW s \in Stations
  PROVE  /\ \A m \in 1 .. Len(seq) :
               {l \in DOMAIN seq : s \in StationsOf(seq[l])} = {m} =>
                 /\ table.asl[s].count = 1
                 /\ table.aml[table.asl[s].start + 1] + 1 = m
         /\ table.asl[s].count = 1 =>
               \E m \in 1 .. Len(seq) : {l \in DOMAIN seq : s \in StationsOf(seq[l])} = {m}
  <1> DEFINE n == Len(seq)
             entries == [l \in DOMAIN seq |-> EntryCount(seq[l], s)]
             count == table.asl[s].count
             mention == {l \in DOMAIN seq : s \in StationsOf(seq[l])}
  <1>1. n \in Nat /\ DOMAIN seq = 1 .. n
    BY LegalMembers
  <1>2. \A i \in 1 .. n : /\ entries[i] \in Nat
                          /\ entries[i] = IF i \in mention THEN 1 ELSE 0
    BY <1>1, OnceCounts
  <1>3. count = SumTo(entries, n)
    <2>1. count = Entered(seq, s, n + 1)
      BY DEF CompleteAssociationLists
    <2>2. Entered(seq, s, n + 1) = SumTo(entries, n + 1 - 1)
      BY DEF Entered
    <2>3. n + 1 - 1 = n
      BY <1>1
    <2> HIDE DEF count, entries, n
    <2>4. QED
      BY <2>1, <2>2, <2>3
  <1>4. /\ mention \subseteq 1 .. n
        /\ \A m \in 1 .. n : m \in mention <=> s \in StationsOf(seq[m])
    BY <1>1
  <1>5. \A m \in 1 .. n : m \in mention =>
            /\ Entered(seq, s, m) + 1 \in 1 .. count
            /\ table.aml[table.asl[s].start + (Entered(seq, s, m) + 1)]
                 = Index(seq, "cls_msr", m)
            /\ Entered(seq, s, m) \in Nat
    <2>1. \A m \in 1 .. n : m \in 1 .. Len(seq) + 1
      BY <1>1
    <2>2. EntriesOf(table, seq, "cls_msr", s)
      BY EntriesAre
    <2>3. \A m \in 1 .. n : Entered(seq, s, m) \in Nat
      BY <2>1, EnteredFit
    <2>4. QED
      BY <1>4, <2>2, <2>3 DEF EntriesOf
  <1>6. \A m \in 1 .. n : Index(seq, "cls_msr", m) = m - 1
    BY IndexInMemory
  <1> HIDE DEF n, entries, mention, count
  <1>7. count = 1 <=> \E m \in 1 .. n : mention = {m}
    <2>1. SumTo(entries, n) = 1 <=>
            \E m \in 1 .. n : entries[m] = 1 /\ \A i \in 1 .. n : i # m => entries[i] = 0
      BY <1>1, <1>2, SumToOne
    <2>2. \A m \in 1 .. n : mention = {m} <=>
            entries[m] = 1 /\ \A i \in 1 .. n : i # m => entries[i] = 0
      <3>1. TAKE m \in 1 .. n
      <3>2. ASSUME mention = {m}
            PROVE  entries[m] = 1 /\ \A i \in 1 .. n : i # m => entries[i] = 0
        BY <1>2, <3>2
      <3>3. ASSUME entries[m] = 1, \A i \in 1 .. n : i # m => entries[i] = 0
            PROVE  mention = {m}
        <4>1. m \in mention
          BY <1>2, <3>3
        <4>2. \A i \in mention : i = m
          BY <1>2, <1>4, <3>3
        <4>3. QED
          BY <4>1, <4>2
      <3>4. QED
        BY <3>2, <3>3
    <2>3. QED
      BY <1>3, <2>1, <2>2
  <1>8. ASSUME NEW m \in 1 .. n, mention = {m}
        PROVE  count = 1 /\ table.aml[table.asl[s].start + 1] + 1 = m
    <2>1. count = 1
      BY <1>7, <1>8
    <2>2. Entered(seq, s, m) + 1 = 1 /\ m \in mention
      BY <1>5, <1>8, <2>1
    <2>3. table.aml[table.asl[s].start + 1] = m - 1
      BY <1>5, <1>6, <2>2
    <2>4. QED
      BY <1>1, <2>1, <2>3
  <1>9. QED
    BY <1>7, <1>8 DEF count, mention, n

-----------------------------------------------------------------------------
(* The members of sequences. *)

(* The selected members, each once if no measurement was there twice.      *)
LEMMA SelectedMembers ==
  ASSUME NEW seq \in Seq(Measurement), NEW places \in SUBSET DOMAIN seq
  PROVE  /\ Selected(seq, places) \in Seq(Measurement)
         /\ ToSet(Selected(seq, places)) = {seq[p] : p \in places}
         /\ Distinct(seq) => Distinct(Selected(seq, places))
  <1> DEFINE sel == Selected(seq, places)
  <1>1. PICK at : Comes(seq, places, Len(seq), sel, at)
    BY SelectedComes
  <1>2. sel \in Seq(Measurement)
    BY SelectedComes
  <1> HIDE DEF sel
  <1>3. DOMAIN sel = 1 .. Len(sel) /\ DOMAIN seq = 1 .. Len(seq)
    BY <1>2
  <1>4. \A i \in DOMAIN sel : at[i] \in places /\ sel[i] = seq[at[i]]
    BY <1>1, <1>3 DEF Comes
  <1>5. \A p \in places : \E i \in DOMAIN sel : at[i] = p
    BY <1>1, <1>3 DEF Comes
  <1>6. ToSet(sel) = {seq[p] : p \in places}
    BY <1>4, <1>5 DEF ToSet
  <1>7. ASSUME Distinct(seq), NEW i \in DOMAIN sel, NEW j \in DOMAIN sel, sel[i].id = sel[j].id
        PROVE  i = j
    <2>1. at[i] = at[j]
      BY <1>4, <1>7 DEF Distinct, IsInjective
    <2>2. QED
      BY <1>1, <1>3, <2>1 DEF Comes
  <1>8. Distinct(seq) => Distinct(sel)
    BY <1>7 DEF Distinct, IsInjective
  <1>9. QED
    BY <1>2, <1>6, <1>8 DEF sel

(* Measurements that are added to others.                                  *)
LEMMA JoinedMembers ==
  ASSUME NEW one \in Seq(Measurement), NEW two \in Seq(Measurement)
  PROVE  /\ one \o two \in Seq(Measurement)
         /\ ToSet(one \o two) = ToSet(one) \cup ToSet(two)
         /\ Distinct(one) /\ Distinct(two) /\ Ids(one) \cap Ids(two) = {} => Distinct(one \o two)
  <1> DEFINE both == one \o two
             n == Len(one)
             k == Len(two)
  <1>1. /\ both \in Seq(Measurement) /\ Len(both) = n + k
        /\ \A i \in 1 .. n + k : both[i] = IF i <= n THEN one[i] ELSE two[i - n]
    BY ConcatProperties
  <1>2. n \in Nat /\ k \in Nat /\ DOMAIN one = 1 .. n /\ DOMAIN two = 1 .. k
    OBVIOUS
  <1> HIDE DEF both, n, k
  <1>3. DOMAIN both = 1 .. n + k
    BY <1>1
  <1>4. \A i \in 1 .. n : i \in DOMAIN both /\ both[i] = one[i]
    BY <1>1, <1>2, <1>3
  <1>5. \A i \in 1 .. k : n + i \in DOMAIN both /\ both[n + i] = two[i]
    <2>1. TAKE i \in 1 .. k
    <2>2. n + i \in 1 .. n + k /\ ~(n + i <= n) /\ n + i - n = i
      BY <1>2
    <2>3. QED
      BY <1>1, <1>2, <1>3, <2>2
  <1>6. \A i \in DOMAIN both : i \in 1 .. n \/ (i - n \in 1 .. k /\ i = n + (i - n))
    BY <1>2, <1>3
  <1>7. ToSet(both) = ToSet(one) \cup ToSet(two)
    <2>1. ASSUME NEW i \in DOMAIN both PROVE both[i] \in ToSet(one) \cup ToSet(two)
      <3>1. CASE i \in 1 .. n
        BY <1>2, <1>4, <3>1 DEF ToSet
      <3>2. CASE i - n \in 1 .. k /\ i = n + (i - n)
        <4>1. both[i] = two[i - n]
          BY <1>5, <3>2
        <4>2. QED
          BY <1>2, <3>2, <4>1 DEF ToSet
      <3>3. QED
        BY <1>6, <3>1, <3>2
    <2>2. ASSUME NEW i \in DOMAIN one PROVE one[i] \in ToSet(both)
      BY <1>2, <1>4 DEF ToSet
    <2>3. ASSUME NEW i \in DOMAIN two PROVE two[i] \in ToSet(both)
      BY <1>2, <1>5 DEF ToSet
    <2>4. QED
      BY <2>1, <2>2, <2>3 DEF ToSet
  <1>8. ASSUME Distinct(one), Distinct(two), Ids(one) \cap Ids(two) = {},
               NEW i \in DOMAIN both, NEW j \in DOMAIN both, both[i].id = both[j].id
        PROVE  i = j
    <2>1. ASSUME NEW x \in 1 .. n, NEW y \in 1 .. k PROVE one[x].id # two[y].id
      BY <1>2, <1>8 DEF Ids
    <2>2. CASE i \in 1 .. n /\ j \in 1 .. n
      BY <1>2, <1>4, <1>8, <2>2 DEF Distinct, IsInjective
    <2>3. ASSUME i - n \in 1 .. k, i = n + (i - n), j - n \in 1 .. k, j = n + (j - n)
          PROVE  i = j
      <3>1. two[i - n].id = two[j - n].id
        BY <1>5, <1>8, <2>3
      <3>2. i - n = j - n
        BY <1>2, <1>8, <2>3, <3>1 DEF Distinct, IsInjective
      <3>3. QED
        BY <2>3, <3>2
    <2>4. ASSUME i \in 1 .. n, j - n \in 1 .. k, j = n + (j - n) PROVE FALSE
      BY <1>4, <1>5, <1>8, <2>1, <2>4
    <2>5. ASSUME j \in 1 .. n, i - n \in 1 .. k, i = n + (i - n) PROVE FALSE
      BY <1>4, <1>5, <1>8, <2>1, <2>5
    <2>6. QED
      BY <1>6, <2>2, <2>3, <2>4, <2>5
  <1>9. QED
    BY <1>1, <1>7, <1>8 DEF both, Distinct, IsInjective

(* What is said of places, said of members.                                *)
LEMMA MemberPlaces ==
  ASSUME NEW seq
  PROVE  /\ \A m \in DOMAIN seq : seq[m] \in ToSet(seq)
         /\ \A x \in ToSet(seq) : \E m \in DOMAIN seq : seq[m] = x
         /\ Ids(seq) = {x.id : x \in ToSet(seq)}
         /\ Sufficient(seq) = DOMAIN seq <=> \A x \in ToSet(seq) : ~x.insufficient
         /\ Sufficient(seq) = {} <=> \A x \in ToSet(seq) : x.insufficient
         /\ {seq[m].id : m \in Sufficient(seq)}
              = {x.id : x \in {y \in ToSet(seq) : ~y.insufficient}}
         /\ Distinct(seq) => \A m, l \in DOMAIN seq : seq[m].id = seq[l].id => m = l
         /\ Distinct(seq) => \A x, y \in ToSet(seq) : x.id = y.id => x = y
         /\ Original(seq) <=> \A x \in ToSet(seq) :
              /\ x.id \in DOMAIN input
              /\ x.type = input[x.id].type
              /\ x.stns = input[x.id].stns
  <1>1. Distinct(seq) => \A m, l \in DOMAIN seq : seq[m].id = seq[l].id => m = l
    BY DEF Distinct, IsInjective
  <1>2. /\ \A m \in DOMAIN seq : seq[m] \in ToSet(seq)
        /\ \A x \in ToSet(seq) : \E m \in DOMAIN seq : seq[m] = x
    BY DEF ToSet
  <1>3. Distinct(seq) => \A x, y \in ToSet(seq) : x.id = y.id => x = y
    BY <1>1, <1>2
  <1>4. Ids(seq) = {x.id : x \in ToSet(seq)}
    BY <1>2 DEF Ids
  <1>5. /\ Sufficient(seq) = DOMAIN seq <=> \A x \in ToSet(seq) : ~x.insufficient
        /\ Sufficient(seq) = {} <=> \A x \in ToSet(seq) : x.insufficient
    BY <1>2 DEF Sufficient
  <1>6. {seq[m].id : m \in Sufficient(seq)}
              = {x.id : x \in {y \in ToSet(seq) : ~y.insufficient}}
    BY <1>2 DEF Sufficient
  <1>7. Original(seq) <=> \A x \in ToSet(seq) :
              /\ x.id \in DOMAIN input
              /\ x.type = input[x.id].type
              /\ x.stns = input[x.id].stns
    BY <1>2 DEF Original
  <1>8. QED
    BY <1>1, <1>2, <1>3, <1>4, <1>5, <1>6, <1>7

LEMMA IdsAre ==
  ASSUME NEW seq
  PROVE  Ids(seq) = {x.id : x \in ToSet(seq)}
  BY DEF Ids, ToSet

LEMMA LeftIs ==
  Left = {x.id : x \in {y \in ToSet(msrs) : ~y.insufficient}}
  BY MemberPlaces DEF Left

(* The stations of the measurements in hand are those of the input.        *)
LEMMA OriginalsLegal ==
  ASSUME input \in Inputs, NEW seq \in Seq(Measurement), Original(seq)
  PROVE  Legal(seq) /\ (MentionedOnce => Once(seq))
  <1>1. ASSUME NEW m \in DOMAIN seq
        PROVE  /\ seq[m].id \in DOMAIN input
               /\ seq[m].type = input[seq[m].id].type
               /\ seq[m].stns = input[seq[m].id].stns
               /\ WellFormed(input[seq[m].id])
    BY <1>1, InputsAssumption DEF Original
  <1>2. Legal(seq)
    BY <1>1 DEF Legal, WellFormed
  <1>3. MentionedOnce => Once(seq)
    BY <1>1 DEF MentionedOnce, Once
  <1>4. QED
    BY <1>2, <1>3

(* Ignoring a measurement changes nothing but its marks.                   *)
LEMMA SetKeeps ==
  ASSUME NEW m \in Measurement, NEW stns
  PROVE  LET marked == SetInsufficient(m, stns)
         IN  /\ marked \in Measurement
             /\ marked.id = m.id /\ marked.type = m.type /\ marked.stns = m.stns
             /\ marked.insufficient <=>
                  \/ m.insufficient
                  \/ m.type \notin GNSS /\ \E s \in StationsOf(m) : s \in stns
  <1> DEFINE marked == SetInsufficient(m, stns)
             hits == {i \in DOMAIN m.stns : m.stns[i] \in stns}
             first == CHOOSE i \in hits : \A j \in hits : i <= j
  <1>1. hits = {} <=> ~ \E s \in StationsOf(m) : s \in stns
    BY DEF StationsOf, ToSet
  <1>2. CASE m.type \in GNSS \/ hits = {}
    <2>1. marked = m
      BY <1>2 DEF SetInsufficient
    <2>2. QED
      BY <1>1, <1>2, <2>1
  <1>3. CASE m.type \notin GNSS /\ hits # {}
    <2>1. hits \in SUBSET Nat
      BY MeasurementTypes
    <2>2. first \in Nat
      BY <1>3, <2>1, LeastNat
    <2>3. marked = [m EXCEPT !.ignore = TRUE,
                       !.insufficient = TRUE,
                       !.off = IF m.type = "D" /\ first > 2
                               THEN @ \cup {first}
                               ELSE @]
      BY <1>3 DEF SetInsufficient
    <2> HIDE DEF first, marked
    <2>4. /\ marked \in Measurement /\ marked.insufficient
          /\ marked.id = m.id /\ marked.type = m.type /\ marked.stns = m.stns
      BY <2>2, <2>3 DEF Measurement
    <2>5. QED
      BY <1>1, <1>3, <2>4 DEF marked
  <1>4. QED
    BY <1>2, <1>3

(* Ignoring measurements leaves each the same measurement.                 *)
LEMMA MarkedMembers ==
  ASSUME NEW seq \in Seq(Measurement), NEW stns, NEW marked,
         marked = [m \in DOMAIN seq |-> SetInsufficient(seq[m], stns)]
  PROVE  /\ marked \in Seq(Measurement) /\ DOMAIN marked = DOMAIN seq
         /\ ToSet(marked) = {SetInsufficient(x, stns) : x \in ToSet(seq)}
         /\ Ids(marked) = Ids(seq)
         /\ Distinct(seq) => Distinct(marked)
         /\ Original(seq) => Original(marked)
  <1>1. DOMAIN seq = 1 .. Len(seq) /\ Len(seq) \in Nat
    OBVIOUS
  <1>2. \A m \in DOMAIN seq : /\ marked[m] = SetInsufficient(seq[m], stns)
                              /\ marked[m] \in Measurement /\ marked[m].id = seq[m].id
                              /\ marked[m].type = seq[m].type /\ marked[m].stns = seq[m].stns
    BY SetKeeps
  <1>3. DOMAIN marked = DOMAIN seq
    OBVIOUS
  <1>4. marked \in Seq(Measurement)
    BY <1>1, <1>2, <1>3
  <1>5. ToSet(marked) = {SetInsufficient(x, stns) : x \in ToSet(seq)}
    BY <1>2, <1>3 DEF ToSet
  <1>6. Ids(marked) = Ids(seq)
    BY <1>2, <1>3 DEF Ids
  <1>7. Distinct(seq) => Distinct(marked)
    BY <1>2, <1>3 DEF Distinct, IsInjective
  <1>8. Original(seq) => Original(marked)
    BY <1>2, <1>3 DEF Original
  <1>9. QED
    BY <1>3, <1>4, <1>5, <1>6, <1>7, <1>8

(* What a round finds: the stations that a single measurement holds, which *)
(* does not suffice for them.                                              *)
LEMMA InsufficientAre ==
  ASSUME TypeOK, RoundsInv, pc = "detect", MentionedOnce, NEW s \in Stations
  PROVE  s \in InsufficientStations <=>
            \E x \in ToSet(msrs) :
               /\ {y \in ToSet(msrs) : s \in StationsOf(y)} = {x}
               /\ Insufficient(x.type, constraints[s])
  <1> DEFINE table == CompleteAssociationLists(MapMeasurementStations(msrs), msrs, amlType)
             mention == {l \in DOMAIN msrs : s \in StationsOf(msrs[l])}
             members == {y \in ToSet(msrs) : s \in StationsOf(y)}
  <1>1. amlType = "cls_msr" /\ asl = table.asl /\ aml = table.aml
    BY DEF RoundsInv, Phase, Listed
  <1>2. Legal(msrs) /\ Once(msrs) /\ Distinct(msrs)
    BY <1>1, OriginalsLegal DEF TypeOK, RoundsInv, Accounted, InRounds
  <1>3. DOMAIN msrs = 1 .. Len(msrs)
    BY <1>2, LegalMembers
  <1>4. /\ \A m \in 1 .. Len(msrs) : mention = {m} =>
                 asl[s].count = 1 /\ aml[asl[s].start + 1] + 1 = m
        /\ asl[s].count = 1 => \E m \in 1 .. Len(msrs) : mention = {m}
    <2>1. /\ \A m \in 1 .. Len(msrs) : mention = {m} =>
                 table.asl[s].count = 1 /\ table.aml[table.asl[s].start + 1] + 1 = m
          /\ table.asl[s].count = 1 => \E m \in 1 .. Len(msrs) : mention = {m}
      BY <1>1, <1>2, SingleMeasurement
    <2> HIDE DEF table, mention
    <2>2. QED
      BY <1>1, <2>1
  <1>5. \A m \in DOMAIN msrs : mention = {m} <=> members = {msrs[m]}
    <2>1. TAKE m \in DOMAIN msrs
    <2>2. ASSUME mention = {m} PROVE members = {msrs[m]}
      BY <2>2, MemberPlaces
    <2>3. ASSUME members = {msrs[m]} PROVE mention = {m}
      <3>1. m \in mention
        BY <2>3
      <3>2. ASSUME NEW l \in mention PROVE l = m
        <4>1. msrs[l] \in members
          BY MemberPlaces
        <4>2. msrs[l] = msrs[m]
          BY <2>3, <4>1
        <4>3. QED
          BY <1>2, <4>2, MemberPlaces
      <3>3. QED
        BY <3>1, <3>2
    <2>4. QED
      BY <2>2, <2>3
  <1>6. s \in InsufficientStations <=>
            /\ asl[s].count = 1
            /\ Insufficient(msrs[aml[asl[s].start + 1] + 1].type, constraints[s])
    BY DEF InsufficientStations
  <1> HIDE DEF mention, members, table
  <1>7. s \in InsufficientStations <=>
            \E m \in DOMAIN msrs : mention = {m} /\ Insufficient(msrs[m].type, constraints[s])
    BY <1>3, <1>4, <1>6
  <1>8. QED
    BY <1>5, <1>7, MemberPlaces DEF members

(* No measurement of a set that is stable by itself is ignored.            *)
LEMMA StableKept ==
  ASSUME TypeOK, RoundsInv, pc = "detect", MentionedOnce,
         NEW S \in SUBSET DOMAIN input, Stable(S), NEW x \in ToSet(msrs), x.id \in S
  PROVE  ~SetInsufficient(x, InsufficientStations).insufficient
  <1>1. /\ InRounds /\ Distinct(msrs) /\ Original(msrs)
        /\ \A y \in ToSet(msrs) : ~y.insufficient
        /\ S \subseteq Ids(msrs)
    <2>1. InRounds
      BY DEF RoundsInv, Phase, InRounds
    <2>2. Sufficient(msrs) = DOMAIN msrs /\ Distinct(msrs) /\ Original(msrs)
      BY <2>1 DEF RoundsInv, Accounted
    <2>3. S \subseteq Left
      BY <2>1 DEF RoundsInv, Largest
    <2>4. QED
      BY <2>1, <2>2, <2>3, MemberPlaces DEF Left, Ids
  <1>2. \A y \in ToSet(msrs) : y \in Measurement
    BY DEF TypeOK, ToSet
  <1>3. SUFFICES ASSUME SetInsufficient(x, InsufficientStations).insufficient PROVE FALSE
    OBVIOUS
  <1>4. PICK s \in StationsOf(x) : s \in InsufficientStations
    BY <1>1, <1>2, <1>3, SetKeeps
  <1>5. s \in Stations
    BY <1>4 DEF InsufficientStations
  <1>6. PICK z \in ToSet(msrs) : /\ {y \in ToSet(msrs) : s \in StationsOf(y)} = {z}
                                /\ Insufficient(z.type, constraints[s])
    BY <1>4, <1>5, InsufficientAre
  <1>7. z = x
    BY <1>4, <1>6
  <1>8. \A y \in ToSet(msrs) : /\ y.type = input[y.id].type
                               /\ StationsOf(y) = StationsOf(input[y.id])
    BY <1>1, MemberPlaces DEF StationsOf
  <1>9. \A l \in S : \E y \in ToSet(msrs) : y.id = l
    BY <1>1, MemberPlaces
  <1>10. {l \in S : s \in StationsOf(input[l])} = {x.id}
    <2>1. s \in StationsOf(input[x.id])
      BY <1>4, <1>8
    <2>2. ASSUME NEW l \in S, s \in StationsOf(input[l]) PROVE l = x.id
      <3>1. PICK y \in ToSet(msrs) : y.id = l
        BY <1>9
      <3>2. s \in StationsOf(y)
        BY <1>8, <2>2, <3>1
      <3>3. y = x
        BY <1>6, <1>7, <3>2
      <3>4. QED
        BY <3>1, <3>3
    <2>3. QED
      BY <2>1, <2>2
  <1>11. ~Insufficient(input[x.id].type, constraints[s])
    BY <1>5, <1>10 DEF Stable
  <1>12. QED
    BY <1>6, <1>7, <1>8, <1>11

(* When no measurement is ignored, those in hand are stable.               *)
LEMMA RestStable ==
  ASSUME TypeOK, RoundsInv, pc = "detect", MentionedOnce,
         \A x \in ToSet(msrs) : ~SetInsufficient(x, InsufficientStations).insufficient
  PROVE  Stable(Ids(msrs))
  <1>1. Distinct(msrs) /\ Original(msrs)
    <2>1. InRounds
      BY DEF RoundsInv, Phase, InRounds
    <2>2. QED
      BY <2>1 DEF RoundsInv, Accounted
  <1>2. \A y \in ToSet(msrs) : y \in Measurement
    BY DEF TypeOK, ToSet
  <1>3. \A y \in ToSet(msrs) : /\ y.type = input[y.id].type
                               /\ StationsOf(y) = StationsOf(input[y.id])
    BY <1>1, MemberPlaces DEF StationsOf
  <1>4. SUFFICES ASSUME NEW s \in Stations, NEW x \in ToSet(msrs),
                        {l \in Ids(msrs) : s \in StationsOf(input[l])} = {x.id},
                        Insufficient(input[x.id].type, constraints[s])
                 PROVE  FALSE
    BY MemberPlaces DEF Stable
  <1>5. {y \in ToSet(msrs) : s \in StationsOf(y)} = {x}
    <2>1. s \in StationsOf(x)
      BY <1>3, <1>4
    <2>2. ASSUME NEW y \in ToSet(msrs), s \in StationsOf(y) PROVE y = x
      <3>1. y.id \in {l \in Ids(msrs) : s \in StationsOf(input[l])}
        BY <1>3, <2>2, MemberPlaces
      <3>2. y.id = x.id
        BY <1>4, <3>1
      <3>3. QED
        BY <1>1, <3>2, MemberPlaces
    <2>3. QED
      BY <2>1, <2>2
  <1>6. Insufficient(x.type, constraints[s])
    BY <1>3, <1>4
  <1>7. s \in InsufficientStations
    BY <1>5, <1>6, InsufficientAre
  <1>8. x.type \notin GNSS
    BY <1>6 DEF Insufficient, GNSS
  <1>9. s \in StationsOf(x)
    BY <1>5
  <1>10. QED
    BY <1>2, <1>7, <1>8, <1>9, SetKeeps

-----------------------------------------------------------------------------
(* The invariant of the rounds. *)

(* A round keeps the invariant.                                            *)
LEMMA DetectKeeps ==
  ASSUME TypeOK, RoundsInv, DetectInsufficient
  PROVE  TypeOK' /\ RoundsInv'
  <1> DEFINE stns == InsufficientStations
             marked == [m \in DOMAIN msrs |-> SetInsufficient(msrs[m], stns)]
             aside == {m \in DOMAIN marked : PutAside(marked[m], stns)}
             kept == Selected(marked, Sufficient(marked))
             taken == Selected(marked, aside)
  <1>1. /\ pc = "detect"
        /\ poorly' = poorly \cup stns
        /\ IF aside = {}
           THEN msrs' = marked \o ignored /\ pc' = "remove" /\ ignored' = ignored
           ELSE /\ msrs' = kept
                /\ ignored' = ignored \o taken
                /\ pc' = "map"
        /\ UNCHANGED <<options, constraints, input, asl, aml, amlType>>
    BY DEF DetectInsufficient, given, lists
  <1>2. stns \subseteq Stations
    BY DEF InsufficientStations
  <1>3. /\ InRounds /\ amlType = "cls_msr" /\ options.ignoreInsufficient
        /\ Distinct(msrs) /\ Distinct(ignored) /\ Ids(msrs) \cap Ids(ignored) = {}
        /\ DOMAIN input \ NotPutAside \subseteq Ids(msrs) \cup Ids(ignored)
        /\ \A x \in ToSet(msrs) : ~x.insufficient
        /\ \A x \in ToSet(ignored) : x.insufficient
        /\ Original(msrs) /\ Original(ignored)
    <2>1. InRounds /\ amlType = "cls_msr" /\ options.ignoreInsufficient
      BY <1>1 DEF RoundsInv, Phase, InRounds
    <2>2. QED
      BY <2>1, MemberPlaces DEF RoundsInv, Accounted
  <1>4. msrs \in Seq(Measurement) /\ ignored \in Seq(Measurement) /\ input \in Inputs
    BY DEF TypeOK
  <1>5. /\ marked \in Seq(Measurement) /\ DOMAIN marked = DOMAIN msrs
        /\ ToSet(marked) = {SetInsufficient(x, stns) : x \in ToSet(msrs)}
        /\ Ids(marked) = Ids(msrs) /\ Distinct(marked) /\ Original(marked)
    <2>1. marked = [m \in DOMAIN msrs |-> SetInsufficient(msrs[m], stns)]
      OBVIOUS
    <2> HIDE DEF marked, stns
    <2>2. QED
      BY <1>3, <1>4, <2>1, MarkedMembers
  <1>6. NotPutAside \subseteq NotPutAside'
    BY <1>1 DEF NotPutAside
  <1>7. ASSUME NEW m \in DOMAIN marked, marked[m].insufficient, m \notin aside
        PROVE  marked[m].id \in NotPutAside'
    <2>1. marked[m].type = "D" /\ {marked[m].stns[1], marked[m].stns[2]} \cap stns # {}
      BY <1>7 DEF PutAside
    <2>2. /\ marked[m].id \in DOMAIN input
          /\ marked[m].type = input[marked[m].id].type
          /\ marked[m].stns = input[marked[m].id].stns
      BY <1>5 DEF Original
    <2> HIDE DEF marked
    <2>3. QED
      BY <1>1, <2>1, <2>2 DEF NotPutAside
  <1>8. Sufficient(marked) \in SUBSET DOMAIN marked /\ aside \in SUBSET DOMAIN marked
    BY DEF Sufficient
  <1>9. /\ kept \in Seq(Measurement) /\ Distinct(kept)
        /\ ToSet(kept) = {marked[p] : p \in Sufficient(marked)}
        /\ taken \in Seq(Measurement) /\ Distinct(taken)
        /\ ToSet(taken) = {marked[p] : p \in aside}
    BY <1>5, <1>8, SelectedMembers
  <1>10. ASSUME MentionedOnce, NEW S \in SUBSET DOMAIN input, Stable(S)
         PROVE  S \subseteq {x.id : x \in {y \in ToSet(marked) : ~y.insufficient}}
    <2>1. SUFFICES ASSUME NEW l \in S
                   PROVE  \E y \in ToSet(marked) : ~y.insufficient /\ y.id = l
      OBVIOUS
    <2>2. l \in Left
      BY <1>3, <1>10 DEF RoundsInv, Largest
    <2>3. PICK x \in ToSet(msrs) : x.id = l
      BY <2>2, LeftIs
    <2>4. ~SetInsufficient(x, stns).insufficient
      BY <1>1, <1>10, <2>3, StableKept
    <2>5. x \in Measurement
      BY <1>4 DEF ToSet
    <2>6. SetInsufficient(x, stns).id = l
      BY <2>3, <2>5, SetKeeps
    <2>7. QED
      BY <1>5, <2>4, <2>6
  <1>11. \A S : Stable(S)' <=> Stable(S)
    BY <1>1 DEF Stable
  <1>12. CASE aside = {}
    <2>1. msrs' = marked \o ignored /\ pc' = "remove" /\ ignored' = ignored
      BY <1>1, <1>12
    <2>2. /\ msrs' \in Seq(Measurement)
          /\ ToSet(msrs') = ToSet(marked) \cup ToSet(ignored)
          /\ Distinct(msrs')
      BY <1>3, <1>4, <1>5, <2>1, JoinedMembers
    <2> HIDE DEF aside, kept, taken
    <2>3. TypeOK'
      BY <1>1, <1>2, <2>1, <2>2 DEF TypeOK
    <2>4. Original(msrs)' /\ Original(ignored)'
      <3>1. \A x \in ToSet(msrs') : /\ x.id \in DOMAIN input
                                    /\ x.type = input[x.id].type
                                    /\ x.stns = input[x.id].stns
        BY <1>3, <1>5, <2>2, MemberPlaces
      <3>2. Original(msrs')
        BY <3>1, MemberPlaces
      <3>3. QED
        BY <1>1, <1>3, <2>1, <3>2 DEF Original
    <2>5. InsufficientAddedBack'
      <3>1. DOMAIN input \ NotPutAside' \subseteq Ids(msrs')
        <4>1. Ids(msrs') = Ids(marked) \cup Ids(ignored)
          BY <2>2, IdsAre
        <4>2. QED
          BY <1>3, <1>5, <1>6, <4>1
      <3>2. QED
        BY <1>1, <2>2, <3>1 DEF InsufficientAddedBack, Distinct, Ids
    <2>6. ASSUME MentionedOnce PROVE Largest'
      <3>1. Left' = {x.id : x \in {y \in ToSet(marked) : ~y.insufficient}}
        <4>1. Left' = {x.id : x \in {y \in ToSet(msrs') : ~y.insufficient}}
          BY MemberPlaces DEF Left
        <4>2. QED
          BY <1>3, <2>2, <4>1
      <3>2. ASSUME NEW S \in SUBSET DOMAIN input, Stable(S) PROVE S \subseteq Left'
        BY <1>10, <2>6, <3>1, <3>2
      <3>3. ASSUME NotPutAside' = {} PROVE Stable(Left)'
        <4>1. \A m \in DOMAIN marked : ~marked[m].insufficient
          BY <1>7, <1>12, <3>3
        <4>2. \A x \in ToSet(marked) : ~x.insufficient
          BY <4>1, MemberPlaces
        <4>3. Left' = Ids(msrs)
          BY <1>5, <3>1, <4>2, MemberPlaces
        <4>4. \A x \in ToSet(msrs) : ~SetInsufficient(x, stns).insufficient
          BY <1>5, <4>2
        <4>5. Stable(Ids(msrs))
          BY <1>1, <2>6, <4>4, RestStable
        <4>6. QED
          BY <1>1, <4>3, <4>5 DEF Stable
      <3>4. QED
        BY <1>1, <1>11, <2>1, <3>2, <3>3 DEF Largest, InRounds
    <2>7. Phase' /\ Listed' /\ Accounted'
      BY <1>1, <1>3, <2>1, <2>5 DEF Phase, Listed, Accounted, InRounds
    <2>8. QED
      BY <2>3, <2>4, <2>6, <2>7 DEF RoundsInv, MentionedOnce
  <1>13. CASE aside # {}
    <2>1. msrs' = kept /\ ignored' = ignored \o taken /\ pc' = "map"
      BY <1>1, <1>13
    <2>2. /\ \A m \in aside : marked[m].insufficient
          /\ \A m \in Sufficient(marked) : ~marked[m].insufficient
      BY DEF PutAside, Sufficient
    <2>3. Ids(ignored) \cap Ids(taken) = {} /\ Ids(taken) \subseteq Ids(marked)
      <3>1. Ids(taken) \subseteq Ids(marked)
        <4>1. ToSet(taken) \subseteq ToSet(marked)
          BY <1>8, <1>9 DEF ToSet
        <4> HIDE DEF taken, marked
        <4>2. QED
          BY <4>1, IdsAre
      <3>2. QED
        BY <1>3, <1>5, <3>1
    <2>4. /\ ignored' \in Seq(Measurement)
          /\ ToSet(ignored') = ToSet(ignored) \cup ToSet(taken)
          /\ Distinct(ignored')
      BY <1>3, <1>4, <1>9, <2>1, <2>3, JoinedMembers
    <2>5. TypeOK'
      BY <1>1, <1>2, <1>9, <2>1, <2>4 DEF TypeOK
    <2>6. Original(msrs)' /\ Original(ignored)'
      <3>1. \A x \in ToSet(marked) : /\ x.id \in DOMAIN input
                                     /\ x.type = input[x.id].type
                                     /\ x.stns = input[x.id].stns
        BY <1>5, MemberPlaces
      <3>2. ToSet(kept) \subseteq ToSet(marked) /\ ToSet(taken) \subseteq ToSet(marked)
        BY <1>8, <1>9 DEF ToSet
      <3>3. Original(msrs')
        BY <2>1, <3>1, <3>2, MemberPlaces
      <3>4. Original(ignored')
        <4>1. \A x \in ToSet(ignored') : /\ x.id \in DOMAIN input
                                         /\ x.type = input[x.id].type
                                         /\ x.stns = input[x.id].stns
          BY <1>3, <2>4, <3>1, <3>2, MemberPlaces
        <4>2. QED
          BY <4>1, MemberPlaces
      <3>5. QED
        BY <1>1, <3>3, <3>4 DEF Original
    <2>7. Sufficient(msrs') = DOMAIN msrs' /\ Sufficient(ignored') = {}
      <3>1. \A x \in ToSet(msrs') : ~x.insufficient
        BY <1>9, <2>1, <2>2
      <3>2. \A x \in ToSet(ignored') : x.insufficient
        BY <1>3, <1>9, <2>2, <2>4
      <3>3. QED
        BY <3>1, <3>2, MemberPlaces
    <2>8. Ids(msrs') \cap Ids(ignored') = {}
      <3>1. Ids(ignored') = Ids(ignored) \cup Ids(taken)
        BY <2>4, IdsAre
      <3>2. Ids(kept) \cap Ids(ignored) = {}
        <4>1. Ids(kept) \subseteq Ids(marked)
          <5>1. ToSet(kept) \subseteq ToSet(marked)
            BY <1>8, <1>9 DEF ToSet
          <5> HIDE DEF kept, marked
          <5>2. QED
            BY <5>1, IdsAre
        <4>2. QED
          BY <1>3, <1>5, <4>1
      <3>3. Ids(kept) \cap Ids(taken) = {}
        <4>1. ASSUME NEW p \in Sufficient(marked), NEW q \in aside, marked[p].id = marked[q].id
              PROVE  FALSE
          <5>1. p = q
            BY <1>5, <1>8, <4>1, MemberPlaces
          <5>2. QED
            BY <2>2, <5>1
        <4>2. QED
          BY <1>9, <4>1, IdsAre
      <3>4. QED
        BY <2>1, <3>1, <3>2, <3>3
    <2>9. DOMAIN input \ NotPutAside' \subseteq Ids(msrs') \cup Ids(ignored')
      <3>1. SUFFICES ASSUME NEW l \in DOMAIN input, l \notin NotPutAside'
                     PROVE  l \in Ids(msrs') \cup Ids(ignored')
        OBVIOUS
      <3>2. CASE l \in Ids(ignored)
        BY <2>4, <3>2, IdsAre
      <3>3. CASE l \in Ids(marked)
        <4>1. PICK m \in DOMAIN marked : marked[m].id = l
          BY <3>3 DEF Ids
        <4>2. CASE marked[m].insufficient
          <5>1. m \in aside
            BY <1>7, <3>1, <4>1, <4>2
          <5>2. marked[m] \in ToSet(ignored')
            BY <1>9, <2>4, <5>1
          <5>3. QED
            BY <4>1, <5>2, MemberPlaces
        <4>3. CASE ~marked[m].insufficient
          <5>1. m \in Sufficient(marked)
            BY <4>3 DEF Sufficient
          <5>2. marked[m] \in ToSet(msrs')
            BY <1>9, <2>1, <5>1
          <5>3. QED
            BY <4>1, <5>2, MemberPlaces
        <4>4. QED
          BY <4>2, <4>3
      <3>4. l \in Ids(marked) \cup Ids(ignored)
        BY <1>3, <1>5, <1>6, <3>1
      <3>5. QED
        BY <3>2, <3>3, <3>4
    <2> HIDE DEF aside, kept, taken
    <2>10. ASSUME MentionedOnce PROVE Largest'
      <3>1. Left' = {x.id : x \in {y \in ToSet(marked) : ~y.insufficient}}
        <4>1. Left' = {x.id : x \in {y \in ToSet(msrs') : ~y.insufficient}}
          BY MemberPlaces DEF Left
        <4>2. ToSet(msrs') = {y \in ToSet(marked) : ~y.insufficient}
          <5> HIDE DEF marked
          <5>1. ToSet(kept) = {marked[p] : p \in Sufficient(marked)}
            BY <1>9
          <5>2. QED
            BY <2>1, <5>1 DEF Sufficient, ToSet
        <4>3. QED
          BY <4>1, <4>2
      <3>2. ASSUME NEW S \in SUBSET DOMAIN input, Stable(S) PROVE S \subseteq Left'
        BY <1>10, <2>10, <3>1, <3>2
      <3>3. QED
        BY <1>1, <1>11, <2>1, <3>2 DEF Largest, InRounds
    <2>11. InsufficientAddedBack'
      BY <2>1 DEF InsufficientAddedBack
    <2>12. Accounted'
      BY <1>1, <1>9, <2>1, <2>4, <2>7, <2>8, <2>9, <2>11
      DEF Accounted, Distinct, Ids, Sufficient, InRounds
    <2>13. Phase' /\ Listed'
      BY <1>1, <1>3, <2>1 DEF Phase, Listed, InRounds
    <2>14. QED
      BY <2>5, <2>6, <2>10, <2>12, <2>13 DEF RoundsInv, MentionedOnce
  <1>14. QED
    BY <1>12, <1>13

ListsInv == TypeOK /\ RoundsInv

(* The inductive invariant, action by action.                              *)
LEMMA ListsInit ==
  ASSUME Init
  PROVE  ListsInv
  <1>1. /\ input \in Inputs /\ options \in Options /\ constraints \in Constraints
        /\ msrs = input /\ ignored = <<>> /\ asl = Unlisted /\ aml = <<>>
        /\ amlType = "cls_msr" /\ poorly = {}
        /\ pc = IF options.ignoreInsufficient THEN "map" ELSE "remove"
    BY DEF Init
  <1>2. /\ msrs \in Seq(Measurement) /\ ignored \in Seq(Measurement)
        /\ \A m \in DOMAIN msrs : msrs[m].id = m /\ ~msrs[m].insufficient
    BY <1>1, InputsAssumption
  <1>3. options.ignoreInsufficient \in BOOLEAN
    BY <1>1, OptionsAssumption
  <1>4. TypeOK
    <2>1. aml \in Seq(Nat)
      BY <1>1
    <2>2. asl \in [Stations -> [count : Nat, start : Nat, valid : BOOLEAN]]
      BY <1>1 DEF Unlisted
    <2>3. pc \in {"map", "remove"}
      BY <1>1
    <2>4. QED
      BY <1>1, <1>2, <2>1, <2>2, <2>3 DEF TypeOK
  <1>5. DOMAIN ignored = {}
    BY <1>1
  <1>6. /\ Original(msrs) /\ Original(ignored) /\ Distinct(msrs) /\ Distinct(ignored)
        /\ Ids(msrs) = DOMAIN input /\ Ids(ignored) = {}
        /\ Sufficient(msrs) = DOMAIN msrs /\ Sufficient(ignored) = {}
        /\ Left = DOMAIN input
    <2>1. Original(msrs) /\ Original(ignored)
      BY <1>1, <1>2, <1>5 DEF Original
    <2>2. Distinct(msrs) /\ Distinct(ignored)
      BY <1>2, <1>5 DEF Distinct, IsInjective
    <2>3. Ids(msrs) = DOMAIN input /\ Ids(ignored) = {}
      <3>1. Ids(msrs) = {m : m \in DOMAIN msrs}
        BY <1>2 DEF Ids
      <3>2. Ids(ignored) = {}
        BY <1>5 DEF Ids
      <3>3. QED
        BY <1>1, <3>1, <3>2
    <2>4. Sufficient(msrs) = DOMAIN msrs /\ Sufficient(ignored) = {}
      BY <1>2, <1>5 DEF Sufficient
    <2>5. QED
      BY <2>1, <2>2, <2>3, <2>4 DEF Left, Ids
  <1>7. InsufficientAddedBack
    BY <1>6 DEF InsufficientAddedBack, Distinct
  <1>8. Phase /\ Listed /\ Accounted
    BY <1>1, <1>6, <1>7 DEF Phase, Listed, Accounted, InRounds
  <1>9. Largest
    BY <1>1, <1>3, <1>6 DEF Largest, InRounds
  <1>10. QED
    BY <1>4, <1>6, <1>8, <1>9 DEF ListsInv, RoundsInv

(* What is not about the lists depends on the measurements alone.          *)
LEMMA RoundsSame ==
  ASSUME RoundsInv, UNCHANGED <<options, constraints, input, msrs, poorly, ignored>>,
         Phase', Listed', InRounds' => InRounds, pc' = "remove" => pc = "remove"
  PROVE  RoundsInv'
  <1>1. Original(msrs)' /\ Original(ignored)'
    BY DEF RoundsInv, Original
  <1>2. /\ Distinct(msrs)' = Distinct(msrs) /\ Distinct(ignored)' = Distinct(ignored)
        /\ Ids(msrs)' = Ids(msrs) /\ Ids(ignored)' = Ids(ignored)
        /\ Sufficient(msrs)' = Sufficient(msrs) /\ Sufficient(ignored)' = Sufficient(ignored)
        /\ (DOMAIN msrs)' = DOMAIN msrs /\ (DOMAIN input)' = DOMAIN input
    BY DEF Distinct, Ids, Sufficient
  <1>3. NotPutAside' = NotPutAside /\ Left' = Left
    BY DEF NotPutAside, Left, Sufficient
  <1>4. \A S : Stable(S)' <=> Stable(S)
    BY DEF Stable
  <1>5. InsufficientAddedBack'
    BY <1>2, <1>3 DEF RoundsInv, Accounted, InsufficientAddedBack, Distinct
  <1>6. Accounted'
    BY <1>2, <1>3, <1>5 DEF RoundsInv, Accounted
  <1>7. ASSUME MentionedOnce PROVE Largest'
    <2>1. Largest
      BY <1>7 DEF RoundsInv
    <2>2. Stable(Left)' <=> Stable(Left)
      BY <1>3 DEF Stable
    <2>3. QED
      BY <1>2, <1>3, <1>4, <2>1, <2>2 DEF Largest
  <1>8. QED
    BY <1>1, <1>6, <1>7 DEF RoundsInv, MentionedOnce

LEMMA MapKeeps ==
  ASSUME ListsInv, Map
  PROVE  ListsInv'
  <1>1. /\ pc = "map"
        /\ UNCHANGED <<options, constraints, input, msrs, aml, amlType, poorly, ignored>>
    BY DEF Map, given
  <1>2. CASE Known
    <2>1. pc' = "complete" /\ asl' = MapMeasurementStations(msrs)
      BY <1>2 DEF Map, Known
    <2>2. asl' \in [Stations -> [count : Nat, start : Nat, valid : BOOLEAN]]
      <3>1. Legal(msrs)
        BY OriginalsLegal DEF ListsInv, TypeOK, RoundsInv
      <3>2. \A s \in Stations : Counted(msrs, s) \in Nat
        BY <3>1, EnteredFit
      <3>3. asl' = [s \in Stations |-> [count |-> Counted(msrs, s), start |-> 0,
                                       valid |-> Counted(msrs, s) > 0]]
        BY <2>1 DEF Counted, MapMeasurementStations
      <3>4. QED
        BY <3>2, <3>3
    <2>3. TypeOK'
      BY <1>1, <2>1, <2>2 DEF ListsInv, TypeOK
    <2>4. Listed' /\ Phase'
      BY <1>1, <1>2, <2>1
      DEF ListsInv, RoundsInv, Listed, Known, Phase, InRounds, MapMeasurementStations
    <2>5. QED
      BY <1>1, <2>1, <2>3, <2>4, RoundsSame DEF ListsInv, InRounds
  <1>3. CASE ~Known
    <2>1. pc' = "failed" /\ asl' = asl
      BY <1>3 DEF Map, Known
    <2>2. TypeOK'
      BY <1>1, <2>1 DEF ListsInv, TypeOK
    <2>3. Listed' /\ Phase'
      BY <1>1, <1>3, <2>1 DEF ListsInv, RoundsInv, Listed, Known, Phase, InRounds
    <2>4. QED
      BY <1>1, <2>1, <2>2, <2>3, RoundsSame DEF ListsInv, InRounds
  <1>4. QED
    BY <1>2, <1>3

LEMMA CompleteKeeps ==
  ASSUME ListsInv, CompleteLists
  PROVE  ListsInv'
  <1> DEFINE table == CompleteAssociationLists(MapMeasurementStations(msrs), msrs, amlType)
  <1>1. /\ pc = "complete" /\ Known /\ asl = MapMeasurementStations(msrs)
        /\ UNCHANGED <<options, constraints, input, msrs, amlType, poorly, ignored>>
    BY DEF CompleteLists, given, ListsInv, RoundsInv, Listed
  <1>2. IF table.thrown
        THEN pc' = "failed" /\ UNCHANGED lists
        ELSE /\ pc' = IF amlType = "cls_msr" THEN "detect" ELSE "written"
             /\ asl' = table.asl
             /\ aml' = table.aml
    BY <1>1 DEF CompleteLists
  <1>3. /\ ~table.thrown
        /\ table.aml \in [1 .. Total(MapMeasurementStations(msrs)) -> Nat]
        /\ table.asl \in [Stations -> [count : Nat, start : Nat, valid : BOOLEAN]]
    <2>1. Legal(msrs) /\ amlType \in {"cls_msr", "str_msr"}
      BY OriginalsLegal DEF ListsInv, TypeOK, RoundsInv
    <2>2. \A t : t = table => /\ ~t.thrown
              /\ t.aml \in [1 .. Total(MapMeasurementStations(msrs)) -> Nat]
              /\ t.asl \in [Stations -> [count : Nat, start : Nat, valid : BOOLEAN]]
      BY <2>1, Completed
    <2> HIDE DEF table
    <2>3. QED
      BY <2>2
  <1>4. table.aml \in Seq(Nat)
    <2>1. Total(MapMeasurementStations(msrs)) \in Nat
      <3>1. Legal(msrs) /\ \E s : s \in Stations
        BY OriginalsLegal, StationsAssumption DEF ListsInv, TypeOK, RoundsInv
      <3>2. QED
        BY <3>1, PartsFollow
    <2> HIDE DEF table
    <2>2. QED
      BY <1>3, <2>1
  <1>5. /\ pc' = (IF amlType = "cls_msr" THEN "detect" ELSE "written")
        /\ asl' = table.asl /\ aml' = table.aml
    BY <1>2, <1>3
  <1>6. TypeOK'
    <2> HIDE DEF table
    <2>1. QED
      BY <1>1, <1>3, <1>4, <1>5 DEF ListsInv, TypeOK
  <1>7. Known' /\ table' = table
    BY <1>1 DEF Known, CompleteAssociationLists, MapMeasurementStations, Places, Starts, Total,
               Index, Entered, Entry
  <1>8. amlType \in {"cls_msr", "str_msr"}
    BY DEF ListsInv, TypeOK
  <1>9. Listed' /\ Phase'
    <2>1. pc' \in {"detect", "written"} => Known' /\ asl' = table'.asl /\ aml' = table'.aml
      BY <1>5, <1>7
    <2>2. Listed'
      BY <1>5, <2>1 DEF Listed
    <2>3. Phase'
      BY <1>1, <1>5, <1>8 DEF ListsInv, RoundsInv, Phase, InRounds
    <2>4. QED
      BY <2>2, <2>3
  <1>10. QED
    <2> HIDE DEF table
    <2>1. QED
      BY <1>1, <1>5, <1>6, <1>8, <1>9, RoundsSame DEF ListsInv, InRounds

LEMMA RemoveKeeps ==
  ASSUME ListsInv, RemoveIgnoredMeasurements
  PROVE  ListsInv'
  <1>1. /\ pc = "remove" /\ pc' = "map" /\ amlType' = "str_msr"
        /\ msrs' = (IF options.removeIgnored
                    THEN Selected(msrs, {m \in DOMAIN msrs : ~msrs[m].ignore})
                    ELSE msrs)
        /\ UNCHANGED <<options, constraints, input, asl, aml, poorly, ignored>>
    BY DEF RemoveIgnoredMeasurements, given, lists
  <1>2. msrs' \in Seq(Measurement) /\ ToSet(msrs') \subseteq ToSet(msrs)
    <2>1. CASE ~options.removeIgnored
      BY <1>1, <2>1 DEF ListsInv, TypeOK
    <2>2. CASE options.removeIgnored
      <3> DEFINE places == {m \in DOMAIN msrs : ~msrs[m].ignore}
      <3>1. msrs \in Seq(Measurement) /\ places \in SUBSET DOMAIN msrs
        BY DEF ListsInv, TypeOK
      <3>2. msrs' = Selected(msrs, places)
        BY <1>1, <2>2
      <3> HIDE DEF places
      <3>3. msrs' \in Seq(Measurement) /\ ToSet(msrs') = {msrs[p] : p \in places}
        BY <3>1, <3>2, SelectedMembers
      <3>4. QED
        BY <3>1, <3>3 DEF ToSet
    <2>3. QED
      BY <2>1, <2>2
  <1>3. TypeOK'
    BY <1>1, <1>2 DEF ListsInv, TypeOK
  <1>4. Original(msrs)' /\ Original(ignored)'
    <2>1. Original(msrs) /\ Original(ignored)
      BY DEF ListsInv, RoundsInv
    <2>2. Original(msrs')
      BY <1>2, <2>1, MemberPlaces
    <2>3. QED
      BY <1>1, <2>1, <2>2 DEF Original
  <1>5. QED
    BY <1>1, <1>3, <1>4
    DEF ListsInv, RoundsInv, Phase, Listed, Accounted, Largest, InRounds,
        InsufficientAddedBack

LEMMA ListsNext ==
  ASSUME ListsInv, [Next]_vars
  PROVE  ListsInv'
  <1>1. CASE Map
    BY <1>1, MapKeeps
  <1>2. CASE CompleteLists
    BY <1>2, CompleteKeeps
  <1>3. CASE DetectInsufficient
    BY <1>3, DetectKeeps DEF ListsInv
  <1>4. CASE RemoveIgnoredMeasurements
    BY <1>4, RemoveKeeps
  <1>5. ASSUME UNCHANGED vars PROVE ListsInv'
    <2>1. UNCHANGED <<pc, options, constraints, input, msrs, asl, aml, amlType, poorly, ignored>>
      BY <1>5 DEF vars, given, lists
    <2>2. TypeOK'
      BY <2>1 DEF ListsInv, TypeOK
    <2>3. Phase'
      BY <2>1 DEF ListsInv, RoundsInv, Phase, InRounds
    <2>4. Listed'
      <3>1. CompleteAssociationLists(MapMeasurementStations(msrs), msrs, amlType)'
              = CompleteAssociationLists(MapMeasurementStations(msrs), msrs, amlType)
        BY <2>1 DEF CompleteAssociationLists, MapMeasurementStations, Places, Starts, Total,
                    Index, Entered, Entry
      <3>2. MapMeasurementStations(msrs)' = MapMeasurementStations(msrs)
        BY <2>1 DEF MapMeasurementStations
      <3>3. QED
        BY <2>1, <3>1, <3>2 DEF ListsInv, RoundsInv, Listed, Known
    <2>5. QED
      BY <2>1, <2>2, <2>3, <2>4, RoundsSame DEF ListsInv, InRounds
  <1>6. CASE Terminated
    BY <1>5, <1>6 DEF Terminated
  <1>7. QED
    BY <1>1, <1>2, <1>3, <1>4, <1>5, <1>6 DEF Next

-----------------------------------------------------------------------------
(* The theorems. *)

(* The variables of an import keep their types, for every network and all  *)
(* constraints: the lists and the measurements left by any number of       *)
(* rounds (dnainterop.cpp) are lists of numbers and measurements.          *)
THEOREM TypeCorrect == Spec => []TypeOK
  <1>1. ListsInv => TypeOK
    BY DEF ListsInv
  <1>2. QED
    BY <1>1, ListsInit, ListsNext, PTL DEF Spec

(* Through all rounds of IgnoreInsufficientMeasurements the lists are made *)
(* from the measurements in hand, each measurement of the input is in hand *)
(* or put aside, once, and what is in hand is sufficient as far as known.  *)
THEOREM RoundsInvariant == Spec => []RoundsInv
  <1>1. ListsInv => RoundsInv
    BY DEF ListsInv
  <1>2. QED
    BY <1>1, ListsInit, ListsNext, PTL DEF Spec

(* What was ignored as insufficient is added back to the measurements, and *)
(* none is there twice, for networks of any kind.                          *)
THEOREM AddedBack == Spec => []InsufficientAddedBack
  <1>1. ListsInv => InsufficientAddedBack
    BY DEF ListsInv, RoundsInv, Accounted
  <1>2. QED
    BY <1>1, ListsInit, ListsNext, PTL DEF Spec

(* An import has failed only if a measurement mentions a station that is   *)
(* not among the stations.                                                 *)
FailsForUnknown == pc = "failed" => ~Known

(* The second pass of CompleteAssociationLists never writes past the end   *)
(* of the vector that the first pass made: an import fails only for a      *)
(* station that is not in the station map.                                 *)
THEOREM FailsForUnknownOnly == Spec => []FailsForUnknown
  <1>1. ListsInv => FailsForUnknown
    BY DEF ListsInv, RoundsInv, Listed, FailsForUnknown
  <1>2. QED
    BY <1>1, ListsInit, ListsNext, PTL DEF Spec

(* The lists that are written fit the records of the measurement file, if  *)
(* no measurement of one to three stations and no point cluster mentions a *)
(* station twice.                                                          *)
THEOREM ListsAlwaysFit ==
  ASSUME MentionedOnce
  PROVE  Spec => []ListsFitRecords
  <1>1. ListsInv => ListsFitRecords
    <2>1. SUFFICES ASSUME ListsInv PROVE ListsFitRecords
      OBVIOUS
    <2>2. CASE pc # "written"
      BY <2>2 DEF ListsFitRecords
    <2>3. CASE pc = "written"
      <3>1. Legal(msrs) /\ Once(msrs)
        BY <2>1, OriginalsLegal, MentionedOnce DEF ListsInv, TypeOK, RoundsInv
      <3>2. amlType = "str_msr"
        BY <2>1, <2>3 DEF ListsInv, RoundsInv, Phase
      <3> DEFINE table == CompleteAssociationLists(MapMeasurementStations(msrs), msrs, "str_msr")
      <3>3. asl = table.asl /\ aml = table.aml
        BY <2>1, <2>3, <3>2 DEF ListsInv, RoundsInv, Listed
      <3>4. QED
        BY <3>1, <3>3, WrittenFit
    <2>4. QED
      BY <2>2, <2>3
  <1>2. QED
    BY <1>1, ListsInit, ListsNext, PTL DEF Spec

(* What the rounds leave is the largest set of measurements in which no    *)
(* station depends on a single insufficient one, in whatever order the     *)
(* measurements come, under the same condition.                            *)
THEOREM LargestIsLeft ==
  ASSUME MentionedOnce
  PROVE  Spec => []LargestSufficient
  <1>1. ListsInv => LargestSufficient
    <2>1. SUFFICES ASSUME ListsInv, pc = "remove", options.ignoreInsufficient
                   PROVE  LET left == {msrs[m].id : m \in Sufficient(msrs)}
                              largest == UNION {S \in SUBSET DOMAIN input : Stable(S)}
                          IN  /\ largest \subseteq left
                              /\ NotPutAside = {} => left = largest
      BY DEF LargestSufficient
    <2>2. \A S \in SUBSET DOMAIN input : Stable(S) => S \subseteq Left
      BY <2>1, MentionedOnce DEF ListsInv, RoundsInv, Largest
    <2>3. NotPutAside = {} => Stable(Left)
      BY <2>1, MentionedOnce DEF ListsInv, RoundsInv, Largest
    <2>4. Left \in SUBSET DOMAIN input
      BY <2>1 DEF ListsInv, RoundsInv, Original, Left, Sufficient
    <2>5. Left = {msrs[m].id : m \in Sufficient(msrs)}
      BY DEF Left
    <2> HIDE DEF Left
    <2>6. QED
      BY <2>2, <2>3, <2>4, <2>5
  <1>2. QED
    BY <1>1, ListsInit, ListsNext, PTL DEF Spec

(* In each further round there are fewer measurements than before, and     *)
(* none that were not there.                                               *)
RoundsShrink ==
    [][pc = "detect" /\ pc' = "map" =>
         Ids(msrs)' \subseteq Ids(msrs)
         /\ Cardinality(Ids(msrs)') < Cardinality(Ids(msrs))]_vars

(* A round after which another follows leaves fewer measurements, so there *)
(* are no more rounds than measurements (IgnoreInsufficientMeasurements).  *)
THEOREM RoundsAlwaysShrink == Spec => RoundsShrink
  <1>1. ASSUME ListsInv, [Next]_vars, pc = "detect", pc' = "map"
        PROVE  /\ Ids(msrs)' \subseteq Ids(msrs)
               /\ Cardinality(Ids(msrs)') < Cardinality(Ids(msrs))
    <2>1. DetectInsufficient
      BY <1>1 DEF Next, Map, CompleteLists, RemoveIgnoredMeasurements, Terminated,
                  vars, given, lists
    <2> DEFINE stns == InsufficientStations
               marked == [m \in DOMAIN msrs |-> SetInsufficient(msrs[m], stns)]
               aside == {m \in DOMAIN marked : PutAside(marked[m], stns)}
               kept == Selected(marked, Sufficient(marked))
    <2>2. aside # {} /\ msrs' = kept
      BY <1>1, <2>1 DEF DetectInsufficient
    <2>3. msrs \in Seq(Measurement) /\ Distinct(msrs)
      BY <1>1 DEF ListsInv, TypeOK, RoundsInv, Phase, Accounted, InRounds
    <2>4. /\ marked \in Seq(Measurement) /\ DOMAIN marked = DOMAIN msrs
          /\ Ids(marked) = Ids(msrs) /\ Distinct(marked)
      <3>1. marked = [l \in DOMAIN msrs |-> SetInsufficient(msrs[l], stns)]
        OBVIOUS
      <3> HIDE DEF marked, stns
      <3>2. QED
        BY <2>3, <3>1, MarkedMembers
    <2>5. PICK m \in DOMAIN marked : marked[m].insufficient
      BY <2>2 DEF PutAside
    <2> HIDE DEF marked, stns, aside
    <2>6. ToSet(kept) = {marked[p] : p \in Sufficient(marked)}
      <3>1. Sufficient(marked) \in SUBSET DOMAIN marked
        BY DEF Sufficient
      <3>2. QED
        BY <2>4, <3>1, SelectedMembers
    <2>7. Ids(msrs)' = {marked[p].id : p \in Sufficient(marked)}
      <3>1. Ids(msrs)' = Ids(kept)
        BY <2>2 DEF Ids
      <3> HIDE DEF kept
      <3>2. QED
        BY <2>6, <3>1, IdsAre
    <2>8. Ids(msrs)' \subseteq Ids(msrs) \ {marked[m].id}
      <3>1. ASSUME NEW p \in Sufficient(marked)
            PROVE  marked[p].id \in Ids(marked) /\ marked[p].id # marked[m].id
        <4>1. p \in DOMAIN marked /\ p # m
          BY <2>5 DEF Sufficient
        <4>2. QED
          BY <2>4, <4>1 DEF Ids, Distinct, IsInjective
      <3>2. QED
        BY <2>4, <2>7, <3>1
    <2>9. IsFiniteSet(Ids(msrs)) /\ marked[m].id \in Ids(msrs)
      <3>1. IsFiniteSet(DOMAIN input)
        <4>1. DOMAIN input = 1 .. Len(input) /\ Len(input) \in Nat
          BY <1>1, InputsAssumption DEF ListsInv, TypeOK
        <4>2. QED
          BY <4>1, FS_Interval
      <3>2. Ids(msrs) \subseteq DOMAIN input
        BY <1>1 DEF ListsInv, RoundsInv, Original, Ids
      <3>3. IsFiniteSet(Ids(msrs))
        BY <3>1, <3>2, FS_Subset
      <3>4. QED
        BY <2>5, <2>4, <3>3 DEF Ids
    <2>10. /\ IsFiniteSet(Ids(msrs) \ {marked[m].id})
           /\ Cardinality(Ids(msrs) \ {marked[m].id}) = Cardinality(Ids(msrs)) - 1
      BY <2>9, FS_RemoveElement
    <2>11. Cardinality(Ids(msrs)') <= Cardinality(Ids(msrs) \ {marked[m].id})
      BY <2>8, <2>10, FS_Subset
    <2>12. Cardinality(Ids(msrs)') \in Nat /\ Cardinality(Ids(msrs)) \in Nat
      BY <2>8, <2>9, <2>10, FS_Subset, FS_CardinalityType
    <2>13. QED
      BY <2>8, <2>10, <2>11, <2>12
  <1>2. QED
    BY <1>1, ListsInit, ListsNext, PTL DEF Spec, RoundsShrink
=============================================================================
