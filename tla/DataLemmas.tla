----------------------------- MODULE DataLemmas -----------------------------
(***************************************************************************)
(* Facts about data that the proofs rest on: induction, sums and lists,    *)
(* remainders and the instants at which slots are visited.                 *)
(*                                                                         *)
(* Induction is stated for sets of numbers (those of which something       *)
(* holds), and not for properties as operators, so that the provers can    *)
(* apply it.                                                               *)
(***************************************************************************)
EXTENDS WheelBasics, FiniteSets, SequencesExt, TLAPS, SequenceTheorems,
        FiniteSetTheorems, WellFoundedInduction

-----------------------------------------------------------------------------
(* Induction *)

(* A set of numbers that is not empty has a least element. *)
LEMMA Least ==
    ASSUME NEW T, T \subseteq Nat, T # {}
    PROVE  \E x \in T : \A y \in T : x <= y
<1>1. \A y, x \in Nat : y < x => <<y, x>> \in OpToRel(<, Nat)
  BY DEF OpToRel
<1> DEFINE R == OpToRel(<, Nat)
<1>2. IsWellFoundedOn(R, Nat)
  BY NatLessThanWellFounded
<1> HIDE DEF R
<1>3. PICK x \in T : \A y \in T : ~ (<<y, x>> \in R)
  BY <1>2, WFMin
<1>4. \A y \in T : ~ (y < x)
  BY <1>1, <1>3 DEF R
<1> QED BY <1>3, <1>4

(* Induction: S is the set of the numbers of which something holds. *)
LEMMA SetInduction ==
    ASSUME NEW S, 0 \in S, \A n \in Nat : n \in S => n + 1 \in S
    PROVE  \A n \in Nat : n \in S
<1> SUFFICES ASSUME Nat \ S # {} PROVE FALSE
  OBVIOUS
<1>1. PICK x \in Nat \ S : \A y \in Nat \ S : x <= y
  BY Least
<1>2. x # 0 /\ x - 1 \in Nat /\ x - 1 \in S /\ (x - 1) + 1 = x
  BY <1>1
<1> QED BY <1>1, <1>2

(* The same for the subsets of a finite set, one element at a time.        *)
LEMMA SubsetInduction ==
    ASSUME NEW D, IsFiniteSet(D), NEW F, {} \in F,
           \A s \in SUBSET D : s # {} /\ (\A x \in s : s \ {x} \in F) => s \in F
    PROVE  \A s \in SUBSET D : s \in F
<1> DEFINE S == {n \in Nat : \A s \in SUBSET D : Cardinality(s) = n => s \in F}
<1>1. \A s \in SUBSET D : IsFiniteSet(s) /\ Cardinality(s) \in Nat
  BY FS_Subset, FS_CardinalityType
<1>2. 0 \in S
  <2> SUFFICES ASSUME NEW s \in SUBSET D, Cardinality(s) = 0 PROVE s \in F
    OBVIOUS
  <2> QED BY <1>1, FS_EmptySet
<1>3. ASSUME NEW n \in Nat, n \in S
      PROVE  n + 1 \in S
  <2> SUFFICES ASSUME NEW s \in SUBSET D, Cardinality(s) = n + 1 PROVE s \in F
    OBVIOUS
  <2>1. s # {}
    BY <1>1, FS_EmptySet
  <2>2. ASSUME NEW x \in s PROVE s \ {x} \in F
    <3>1. Cardinality(s \ {x}) = n
      BY <1>1, FS_RemoveElement
    <3> QED BY <1>3, <3>1
  <2> QED BY <2>1, <2>2
<1> HIDE DEF S
<1>4. \A n \in Nat : n \in S
  BY <1>2, <1>3, SetInduction
<1> QED BY <1>1, <1>4 DEF S

(* A function defined by recursion over an interval, h[i] being its i-th   *)
(* step.                                                                   *)
LEMMA RecursionExists ==
    ASSUME NEW X, NEW b \in X, NEW m \in Nat, NEW h \in [1..m -> [X -> X]]
    PROVE  \E f \in [0..m -> X] : /\ f[0] = b
                                  /\ \A i \in 1..m : f[i] = h[i][f[i - 1]]
<1> DEFINE P(n) == \E f \in [0..n -> X] : /\ f[0] = b
                                          /\ \A i \in 1..n : f[i] = h[i][f[i - 1]]
           S == {n \in Nat : n <= m => P(n)}
<1>1. 0 \in S
  <2> DEFINE f == [i \in 0..0 |-> b]
  <2>1. f \in [0..0 -> X] /\ f[0] = b /\ \A i \in 1..0 : f[i] = h[i][f[i - 1]]
    OBVIOUS
  <2>2. P(0)
    BY <2>1
  <2> QED BY <2>2
<1>2. ASSUME NEW n \in Nat, n \in S, n + 1 <= m
      PROVE  P(n + 1)
  <2>1. PICK f \in [0..n -> X] : f[0] = b /\ \A i \in 1..n : f[i] = h[i][f[i - 1]]
    BY <1>2
  <2> DEFINE g == [i \in 0..(n + 1) |-> IF i = n + 1 THEN h[n + 1][f[n]] ELSE f[i]]
  <2>2. n + 1 \in 1..m /\ f[n] \in X
    BY <1>2, <2>1
  <2>3. h[n + 1][f[n]] \in X
    BY <2>2
  <2>4. g \in [0..(n + 1) -> X]
    BY <2>1, <2>3
  <2>5. g[0] = b
    BY <2>1
  <2>6. ASSUME NEW i \in 1..(n + 1)
        PROVE  g[i] = h[i][g[i - 1]]
    <3>1. i - 1 \in 0..n /\ i - 1 # n + 1
      OBVIOUS
    <3>2. g[i - 1] = f[i - 1]
      BY <3>1
    <3>3. CASE i = n + 1
      <4>1. g[i] = h[n + 1][f[n]]
        BY <3>3
      <4> QED BY <3>2, <3>3, <4>1
    <3>4. CASE i # n + 1
      <4>1. i \in 1..n /\ g[i] = f[i]
        BY <3>4
      <4> QED BY <2>1, <3>2, <4>1
    <3> QED BY <3>3, <3>4
  <2> HIDE DEF g
  <2> QED BY <2>4, <2>5, <2>6
<1> HIDE DEF P
<1>3. \A n \in Nat : n \in S => n + 1 \in S
  BY <1>2
<1> HIDE DEF S
<1>4. \A n \in Nat : n \in S
  BY <1>1, <1>3, SetInduction
<1> QED BY <1>4 DEF S, P

-----------------------------------------------------------------------------
(* Sums *)

Pick(s) == CHOOSE x \in s : TRUE

SumStep(f, D, g) ==
    [s \in SUBSET D |-> IF s = {} THEN 0 ELSE f[Pick(s)] + g[s \ {Pick(s)}]]

(* The recursive function of which the fold is a value. *)
Sums(f, D) == CHOOSE g : g = SumStep(f, D, g)

LEMMA SumFunctionIs ==
    ASSUME NEW D, NEW f, DOMAIN f = D
    PROVE  SumFunction(f) = Sums(f, D)[D]
  BY DEF SumFunction, SumFunctionOnSet, FoldFunctionOnSet, MapThenFoldSet, Pick, Sums, SumStep

LEMMA PickType ==
    ASSUME NEW s, s # {}
    PROVE  Pick(s) \in s
  BY DEF Pick

LEMMA SumsDef ==
    ASSUME NEW D, IsFiniteSet(D), NEW f \in [D -> Int]
    PROVE  /\ Sums(f, D)[{}] = 0
           /\ \A s \in SUBSET D : s # {} =>
                 Sums(f, D)[s] = f[Pick(s)] + Sums(f, D)[s \ {Pick(s)}]
<1> DEFINE UpTo(n, g) ==
              \A s \in SUBSET D : s # {} /\ Cardinality(s) <= n =>
                  g[s] = f[Pick(s)] + g[s \ {Pick(s)}]
           S == {n \in Nat : \E g \in [SUBSET D -> Int] : g[{}] = 0 /\ UpTo(n, g)}
<1>1. \A s \in SUBSET D : /\ IsFiniteSet(s) /\ Cardinality(s) \in Nat
                          /\ Cardinality(s) = 0 => s = {}
                          /\ Cardinality(s) <= Cardinality(D)
  BY FS_Subset, FS_CardinalityType, FS_EmptySet
<1>2. 0 \in S
  <2> DEFINE g == [s \in SUBSET D |-> 0]
  <2>1. g \in [SUBSET D -> Int] /\ g[{}] = 0
    OBVIOUS
  <2>2. UpTo(0, g)
    BY <1>1
  <2> QED BY <2>1, <2>2
<1>3. ASSUME NEW n \in Nat, n \in S
      PROVE  n + 1 \in S
  <2>1. PICK g \in [SUBSET D -> Int] : g[{}] = 0 /\ UpTo(n, g)
    BY <1>3
  <2> DEFINE h == [s \in SUBSET D |->
                      IF Cardinality(s) = n + 1 THEN f[Pick(s)] + g[s \ {Pick(s)}]
                                                ELSE g[s]]
  <2>2. ASSUME NEW s \in SUBSET D, s # {}
        PROVE  /\ Pick(s) \in s /\ f[Pick(s)] \in Int /\ s \ {Pick(s)} \in SUBSET D
               /\ Cardinality(s \ {Pick(s)}) = Cardinality(s) - 1
    BY <1>1, <2>2, PickType, FS_RemoveElement
  <2>3. Cardinality({}) = 0
    BY FS_EmptySet
  <2>4. h \in [SUBSET D -> Int]
    <3> SUFFICES ASSUME NEW s \in SUBSET D, Cardinality(s) = n + 1
                 PROVE  f[Pick(s)] + g[s \ {Pick(s)}] \in Int
      BY <2>1
    <3>1. s # {}
      BY <2>3
    <3>2. f[Pick(s)] \in Int /\ g[s \ {Pick(s)}] \in Int
      BY <2>1, <2>2, <3>1
    <3> QED BY <3>2
  <2>5. h[{}] = 0
    BY <2>1, <2>3
  <2>6. UpTo(n + 1, h)
    <3> SUFFICES ASSUME NEW s \in SUBSET D, s # {}, Cardinality(s) <= n + 1
                 PROVE  h[s] = f[Pick(s)] + h[s \ {Pick(s)}]
      OBVIOUS
    <3>1. h[s \ {Pick(s)}] = g[s \ {Pick(s)}]
      <4>1. Cardinality(s \ {Pick(s)}) # n + 1 /\ s \ {Pick(s)} \in SUBSET D
        BY <1>1, <2>2
      <4> QED BY <4>1
    <3>2. CASE Cardinality(s) = n + 1
      BY <3>1, <3>2
    <3>3. CASE Cardinality(s) # n + 1
      <4>1. Cardinality(s) <= n /\ h[s] = g[s]
        BY <1>1, <3>3
      <4> QED BY <2>1, <3>1, <4>1
    <3> QED BY <3>2, <3>3
  <2> HIDE DEF h, UpTo
  <2> QED BY <2>4, <2>5, <2>6
<1> HIDE DEF S
<1>4. \A n \in Nat : n \in S
  BY <1>2, <1>3, SetInduction
<1>5. Cardinality(D) \in S
  BY <1>1, <1>4
<1>6. PICK g \in [SUBSET D -> Int] : g[{}] = 0 /\ UpTo(Cardinality(D), g)
  BY <1>5 DEF S
<1>7. g = SumStep(f, D, g)
  <2>1. \A s \in SUBSET D : g[s] = IF s = {} THEN 0 ELSE f[Pick(s)] + g[s \ {Pick(s)}]
    BY <1>1, <1>6
  <2> QED BY <1>6, <2>1 DEF SumStep
<1>8. Sums(f, D) = SumStep(f, D, Sums(f, D))
  BY <1>7 DEF Sums
<1> DEFINE G == Sums(f, D)
<1> HIDE DEF G
<1>9. G = SumStep(f, D, G)
  BY <1>8 DEF G
<1>10. G[{}] = 0 /\ \A s \in SUBSET D : s # {} => G[s] = f[Pick(s)] + G[s \ {Pick(s)}]
  BY <1>9 DEF SumStep
<1> QED BY <1>10 DEF G

LEMMA SumsType ==
    ASSUME NEW D, IsFiniteSet(D), NEW f \in [D -> Int]
    PROVE  \A s \in SUBSET D : Sums(f, D)[s] \in Int
<1> DEFINE G == Sums(f, D)
           F == {s \in SUBSET D : G[s] \in Int}
<1>1. G[{}] = 0 /\ \A s \in SUBSET D : s # {} => G[s] = f[Pick(s)] + G[s \ {Pick(s)}]
  BY SumsDef
<1> HIDE DEF G
<1>2. {} \in F
  BY <1>1
<1>3. ASSUME NEW s \in SUBSET D, s # {}, \A x \in s : s \ {x} \in F
      PROVE  s \in F
  <2>1. Pick(s) \in s /\ s \ {Pick(s)} \in F
    BY <1>3, PickType
  <2>2. f[Pick(s)] \in Int /\ G[s \ {Pick(s)}] \in Int
    BY <2>1
  <2>3. G[s] = f[Pick(s)] + G[s \ {Pick(s)}]
    BY <1>1, <1>3
  <2> QED BY <2>2, <2>3
<1> HIDE DEF F
<1>4. \A s \in SUBSET D : s \in F
  BY <1>2, <1>3, SubsetInduction
<1> QED BY <1>4 DEF F, G

(* Any element may be taken out first. *)
LEMMA SumsPull ==
    ASSUME NEW D, IsFiniteSet(D), NEW f \in [D -> Int]
    PROVE  \A s \in SUBSET D : \A x \in s : Sums(f, D)[s] = f[x] + Sums(f, D)[s \ {x}]
<1> DEFINE G == Sums(f, D)
           F == {s \in SUBSET D : \A x \in s : G[s] = f[x] + G[s \ {x}]}
<1>1. G[{}] = 0 /\ \A s \in SUBSET D : s # {} => G[s] = f[Pick(s)] + G[s \ {Pick(s)}]
  BY SumsDef
<1>2. \A s \in SUBSET D : G[s] \in Int
  BY SumsType
<1> HIDE DEF G
<1>3. {} \in F
  OBVIOUS
<1>4. ASSUME NEW s \in SUBSET D, s # {}, \A x \in s : s \ {x} \in F
      PROVE  s \in F
  <2> SUFFICES ASSUME NEW x \in s PROVE G[s] = f[x] + G[s \ {x}]
    OBVIOUS
  <2> DEFINE y == Pick(s)
  <2>1. y \in s /\ G[s] = f[y] + G[s \ {y}]
    BY <1>1, <1>4, PickType
  <2> HIDE DEF y
  <2>2. CASE x = y
    BY <2>1, <2>2
  <2>3. CASE x # y
    <3>1. G[s \ {y}] = f[x] + G[(s \ {y}) \ {x}]
      BY <1>4, <2>1, <2>3
    <3>2. G[s \ {x}] = f[y] + G[(s \ {x}) \ {y}]
      BY <1>4, <2>1, <2>3
    <3> DEFINE r == s \ {x, y}
    <3>3. (s \ {y}) \ {x} = r /\ (s \ {x}) \ {y} = r /\ r \in SUBSET D
      OBVIOUS
    <3> HIDE DEF r
    <3>4. f[x] \in Int /\ f[y] \in Int /\ G[r] \in Int
      BY <1>2, <2>1, <3>3
    <3> QED BY <2>1, <3>1, <3>2, <3>3, <3>4
  <2> QED BY <2>2, <2>3
<1> HIDE DEF F
<1>5. \A s \in SUBSET D : s \in F
  BY <1>3, <1>4, SubsetInduction
<1> QED BY <1>5 DEF F, G

LEMMA SumsAgree ==
    ASSUME NEW D, IsFiniteSet(D), NEW f \in [D -> Int], NEW g \in [D -> Int],
           NEW T \in SUBSET D, \A x \in T : f[x] = g[x]
    PROVE  Sums(f, D)[T] = Sums(g, D)[T]
<1> DEFINE A == Sums(f, D)  B == Sums(g, D)
           F == {s \in SUBSET T : A[s] = B[s]}
<1>1. /\ A[{}] = 0 /\ \A s \in SUBSET D : s # {} => A[s] = f[Pick(s)] + A[s \ {Pick(s)}]
      /\ B[{}] = 0 /\ \A s \in SUBSET D : s # {} => B[s] = g[Pick(s)] + B[s \ {Pick(s)}]
  BY SumsDef
<1> HIDE DEF A, B
<1>2. {} \in F
  BY <1>1
<1>3. ASSUME NEW s \in SUBSET T, s # {}, \A x \in s : s \ {x} \in F
      PROVE  s \in F
  <2>1. Pick(s) \in s
    BY <1>3, PickType
  <2>2. A[s \ {Pick(s)}] = B[s \ {Pick(s)}] /\ f[Pick(s)] = g[Pick(s)]
    BY <1>3, <2>1
  <2> QED BY <1>1, <1>3, <2>2
<1>4. IsFiniteSet(T)
  BY FS_Subset
<1> HIDE DEF F
<1>5. \A s \in SUBSET T : s \in F
  BY <1>2, <1>3, <1>4, SubsetInduction
<1> QED BY <1>5 DEF F, A, B

(* A sum, the sum of zeros, and the sum when a value at one place changes. *)
LEMMA SumType ==
    ASSUME NEW D, IsFiniteSet(D), NEW f \in [D -> Int]
    PROVE  SumFunction(f) \in Int
<1>1. Sums(f, D)[D] \in Int
  BY SumsType
<1> QED BY <1>1, SumFunctionIs

LEMMA SumZero ==
    ASSUME NEW D, IsFiniteSet(D), NEW f \in [D -> Int], \A x \in D : f[x] = 0
    PROVE  SumFunction(f) = 0
<1> DEFINE G == Sums(f, D)
           F == {s \in SUBSET D : G[s] = 0}
<1>1. G[{}] = 0 /\ \A s \in SUBSET D : s # {} => G[s] = f[Pick(s)] + G[s \ {Pick(s)}]
  BY SumsDef
<1> HIDE DEF G
<1>2. {} \in F
  BY <1>1
<1>3. ASSUME NEW s \in SUBSET D, s # {}, \A x \in s : s \ {x} \in F
      PROVE  s \in F
  <2>1. Pick(s) \in s /\ s \ {Pick(s)} \in F
    BY <1>3, PickType
  <2>2. f[Pick(s)] = 0 /\ G[s \ {Pick(s)}] = 0
    BY <2>1
  <2>3. G[s] = f[Pick(s)] + G[s \ {Pick(s)}]
    BY <1>1, <1>3
  <2> QED BY <2>2, <2>3
<1> HIDE DEF F
<1>4. \A s \in SUBSET D : s \in F
  BY <1>2, <1>3, SubsetInduction
<1>5. G[D] = 0
  BY <1>4 DEF F
<1> QED BY <1>5, SumFunctionIs DEF G

LEMMA SumChange ==
    ASSUME NEW D, IsFiniteSet(D), NEW f \in [D -> Int], NEW g \in [D -> Int],
           NEW x \in D, NEW k \in Int, g[x] = f[x] + k,
           \A y \in D : y # x => g[y] = f[y]
    PROVE  SumFunction(g) = SumFunction(f) + k
<1> DEFINE A == Sums(f, D)  B == Sums(g, D)  T == D \ {x}
           p == SumFunction(f)  q == SumFunction(g)
<1>1. A[D] = f[x] + A[T] /\ B[D] = g[x] + B[T]
  <2>1. D \in SUBSET D
    OBVIOUS
  <2>2. A[D] = f[x] + A[D \ {x}]
    BY <2>1, SumsPull
  <2>3. B[D] = g[x] + B[D \ {x}]
    BY <2>1, SumsPull
  <2> QED BY <2>2, <2>3
<1>2. A[T] = B[T]
  BY SumsAgree
<1>3. A[T] \in Int
  BY SumsType
<1>4. p = A[D] /\ q = B[D]
  BY SumFunctionIs
<1>5. f[x] \in Int
  OBVIOUS
<1> HIDE DEF A, B, T, p, q
<1>6. q = p + k
  BY <1>1, <1>2, <1>3, <1>4, <1>5
<1> QED BY <1>6 DEF p, q

(* The sum of numbers of a range, and of numbers of which some become one  *)
(* larger.                                                                 *)
LEMMA SumBounds ==
    ASSUME NEW D, IsFiniteSet(D), NEW c \in Nat, NEW f \in [D -> 0..c]
    PROVE  SumFunction(f) \in 0..(Cardinality(D) * c)
<1> DEFINE A == Sums(f, D)
           F == {s \in SUBSET D : A[s] \in 0..(Cardinality(s) * c)}
<1>1. f \in [D -> Int] /\ \A x \in D : f[x] \in 0..c
  OBVIOUS
<1>2. A[{}] = 0 /\ \A s \in SUBSET D : s # {} => A[s] = f[Pick(s)] + A[s \ {Pick(s)}]
  BY <1>1, SumsDef
<1> HIDE DEF A
<1>3. {} \in F
  BY <1>2, FS_EmptySet
<1>4. ASSUME NEW s \in SUBSET D, s # {}, \A x \in s : s \ {x} \in F
      PROVE  s \in F
  <2> DEFINE r == s \ {Pick(s)}  m == Cardinality(r)
  <2>1. Pick(s) \in s /\ r \in F
    BY <1>4, PickType
  <2>2. IsFiniteSet(s) /\ IsFiniteSet(r)
    BY FS_Subset
  <2>3. Cardinality(s) \in Nat /\ m \in Nat /\ Cardinality(s) = m + 1
    BY <2>1, <2>2, FS_RemoveElement, FS_CardinalityType
  <2>4. A[s] = f[Pick(s)] + A[r] /\ f[Pick(s)] \in 0..c /\ A[r] \in 0..(m * c)
    BY <1>1, <1>2, <1>4, <2>1
  <2> DEFINE a == f[Pick(s)]  b == A[r]
  <2>5. a \in 0..c /\ b \in 0..(m * c) /\ A[s] = a + b
    BY <2>4
  <2> HIDE DEF a, b, m, r
  <2>6. m * c \in Nat /\ (m + 1) * c = m * c + c
    BY <2>3
  <2>7. A[s] \in 0..((m + 1) * c)
    BY <2>5, <2>6
  <2> QED BY <2>3, <2>7
<1> HIDE DEF F
<1>5. \A s \in SUBSET D : s \in F
  BY <1>3, <1>4, SubsetInduction
<1>6. A[D] \in 0..(Cardinality(D) * c)
  BY <1>5 DEF F
<1> QED BY <1>6, SumFunctionIs DEF A

LEMMA SumIncrement ==
    ASSUME NEW D, IsFiniteSet(D), NEW f \in [D -> Int], NEW g \in [D -> Int],
           NEW B \in SUBSET D, \A x \in D : g[x] = f[x] + IF x \in B THEN 1 ELSE 0
    PROVE  SumFunction(g) = SumFunction(f) + Cardinality(B)
<1> DEFINE P == Sums(f, D)  Q == Sums(g, D)
           F == {s \in SUBSET D : Q[s] = P[s] + Cardinality(s \cap B)}
<1>1. /\ P[{}] = 0 /\ \A s \in SUBSET D : s # {} => P[s] = f[Pick(s)] + P[s \ {Pick(s)}]
      /\ Q[{}] = 0 /\ \A s \in SUBSET D : s # {} => Q[s] = g[Pick(s)] + Q[s \ {Pick(s)}]
  BY SumsDef
<1>2. \A s \in SUBSET D : P[s] \in Int
  BY SumsType
<1> HIDE DEF P, Q
<1>3. {} \in F
  BY <1>1, FS_EmptySet
<1>4. ASSUME NEW s \in SUBSET D, s # {}, \A x \in s : s \ {x} \in F
      PROVE  s \in F
  <2> DEFINE p == Pick(s)  r == s \ {p}
  <2>1. p \in s /\ r \in F
    BY <1>4, PickType
  <2>2. IsFiniteSet(s \cap B) /\ r \cap B = (s \cap B) \ {p}
    BY FS_Subset
  <2>3. /\ Cardinality(s \cap B) \in Nat /\ Cardinality(r \cap B) \in Nat
        /\ Cardinality(s \cap B) = Cardinality(r \cap B) + IF p \in B THEN 1 ELSE 0
    <3> DEFINE c == s \cap B
    <3>1. IsFiniteSet(c) /\ (p \in c <=> p \in B) /\ r \cap B = c \ {p}
      BY <2>1, <2>2
    <3> HIDE DEF c, p, r
    <3>2. IsFiniteSet(c \ {p})
          /\ Cardinality(c \ {p}) = IF p \in c THEN Cardinality(c) - 1 ELSE Cardinality(c)
      BY <3>1, FS_RemoveElement
    <3>3. Cardinality(c) \in Nat /\ Cardinality(c \ {p}) \in Nat
      BY <3>1, <3>2, FS_CardinalityType
    <3> QED BY <3>1, <3>2, <3>3 DEF c
  <2>4. P[s] = f[p] + P[r] /\ Q[s] = g[p] + Q[r] /\ g[p] = f[p] + IF p \in B THEN 1 ELSE 0
    BY <1>1, <1>4, <2>1
  <2>5. Q[r] = P[r] + Cardinality(r \cap B) /\ P[r] \in Int /\ f[p] \in Int
    BY <1>2, <2>1
  <2> QED BY <2>3, <2>4, <2>5
<1> HIDE DEF F
<1>5. \A s \in SUBSET D : s \in F
  BY <1>3, <1>4, SubsetInduction
<1>6. Q[D] = P[D] + Cardinality(D \cap B) /\ D \cap B = B
  BY <1>5 DEF F
<1>7. SumFunction(f) = P[D] /\ SumFunction(g) = Q[D]
  BY SumFunctionIs DEF P, Q
<1> QED BY <1>6, <1>7

-----------------------------------------------------------------------------
(* Lists without duplicates *)

LEMMA ListType ==
    ASSUME NEW T, NEW s \in Seq(T)
    PROVE  /\ ToSet(s) \subseteq T
           /\ \A t : Contains(s, t) <=> t \in ToSet(s)
           /\ ToSet(s) = {} <=> s = <<>>
<1>1. DOMAIN s = 1..Len(s) /\ Len(s) \in Nat /\ \A i \in 1..Len(s) : s[i] \in T
  BY LenProperties, ElementOfSeq
<1>2. ToSet(s) \subseteq T /\ \A t : Contains(s, t) <=> t \in ToSet(s)
  BY <1>1 DEF ToSet, Contains
<1>3. ToSet(s) = {} => Len(s) = 0
  <2> SUFFICES ASSUME Len(s) # 0 PROVE ToSet(s) # {}
    OBVIOUS
  <2>1. 1 \in DOMAIN s
    BY <1>1
  <2> QED BY <2>1 DEF ToSet
<1>4. Len(s) = 0 => ToSet(s) = {}
  BY <1>1 DEF ToSet
<1> QED BY <1>2, <1>3, <1>4, EmptySeq

LEMMA ListEmpty ==
    /\ ToSet(<<>>) = {}
    /\ IsInjective(<<>>)
    /\ \A t : ~ Contains(<<>>, t)
  BY DEF ToSet, IsInjective, Contains

LEMMA ListAppend ==
    ASSUME NEW T, NEW s \in Seq(T), NEW t \in T
    PROVE  /\ Append(s, t) \in Seq(T)
           /\ ToSet(Append(s, t)) = ToSet(s) \cup {t}
           /\ IsInjective(s) /\ t \notin ToSet(s) => IsInjective(Append(s, t))
<1> DEFINE p == Append(s, t)
<1>1. /\ p \in Seq(T) /\ Len(p) = Len(s) + 1
      /\ \A i \in 1..Len(s) : p[i] = s[i]
      /\ p[Len(s) + 1] = t
      /\ Len(s) \in Nat /\ DOMAIN s = 1..Len(s)
  BY AppendProperties, LenProperties
<1>2. DOMAIN p = 1..(Len(s) + 1)
  BY <1>1, LenProperties
<1> HIDE DEF p
<1>3. ToSet(p) = ToSet(s) \cup {t}
  BY <1>1, <1>2 DEF ToSet
<1>4. ASSUME IsInjective(s), t \notin ToSet(s)
      PROVE  IsInjective(p)
  BY <1>1, <1>2, <1>4 DEF IsInjective, ToSet
<1> QED BY <1>1, <1>3, <1>4 DEF p

LEMMA ListTail ==
    ASSUME NEW T, NEW s \in Seq(T), s # <<>>, IsInjective(s)
    PROVE  /\ Head(s) \in T /\ Head(s) \in ToSet(s)
           /\ Tail(s) \in Seq(T)
           /\ ToSet(Tail(s)) = ToSet(s) \ {Head(s)}
           /\ IsInjective(Tail(s))
<1> DEFINE r == Tail(s)  h == Head(s)
<1>1. /\ h \in T /\ r \in Seq(T) /\ Len(r) = Len(s) - 1
      /\ \A i \in 1..Len(r) : r[i] = s[i + 1]
      /\ h = s[1]
      /\ Len(s) \in Nat \ {0} /\ DOMAIN s = 1..Len(s)
  BY HeadTailProperties, LenProperties, EmptySeq
<1>2. DOMAIN r = 1..(Len(s) - 1)
  BY <1>1, LenProperties
<1> HIDE DEF r, h
<1>3. h \in ToSet(s)
  BY <1>1 DEF ToSet
<1>4. \A i \in 1..(Len(s) - 1) : r[i] = s[i + 1] /\ i + 1 \in 1..Len(s)
  BY <1>1
<1>5. \A i \in 1..Len(s) : i = 1 \/ (i - 1 \in 1..(Len(s) - 1) /\ r[i - 1] = s[i])
  BY <1>1, <1>4
<1>6. ToSet(r) = ToSet(s) \ {h}
  <2>1. ASSUME NEW i \in 1..(Len(s) - 1)
        PROVE  r[i] \in ToSet(s) /\ r[i] # h
    <3>1. r[i] = s[i + 1] /\ i + 1 \in DOMAIN s /\ 1 \in DOMAIN s /\ i + 1 # 1
      BY <1>1, <1>4
    <3> QED BY <1>1, <3>1 DEF ToSet, IsInjective
  <2>2. ASSUME NEW i \in 1..Len(s), s[i] # h
        PROVE  s[i] \in ToSet(r)
    BY <1>1, <1>2, <1>5, <2>2 DEF ToSet
  <2>3. ToSet(r) \subseteq ToSet(s) \ {h}
    BY <1>2, <2>1 DEF ToSet
  <2>4. ToSet(s) \ {h} \subseteq ToSet(r)
    BY <1>1, <2>2 DEF ToSet
  <2> QED BY <2>3, <2>4
<1>7. IsInjective(r)
  <2> SUFFICES ASSUME NEW i \in 1..(Len(s) - 1), NEW j \in 1..(Len(s) - 1),
                      r[i] = r[j]
               PROVE  i = j
    BY <1>2 DEF IsInjective
  <2>1. s[i + 1] = s[j + 1] /\ i + 1 \in DOMAIN s /\ j + 1 \in DOMAIN s
    BY <1>1, <1>4
  <2>2. i + 1 = j + 1
    BY <2>1 DEF IsInjective
  <2> QED BY <1>1, <2>2
<1> QED BY <1>1, <1>3, <1>6, <1>7 DEF r, h

LEMMA ListConcat ==
    ASSUME NEW T, NEW s \in Seq(T), NEW r \in Seq(T)
    PROVE  /\ s \o r \in Seq(T)
           /\ ToSet(s \o r) = ToSet(s) \cup ToSet(r)
           /\ \A t : Contains(s \o r, t) <=> t \in ToSet(s) \cup ToSet(r)
           /\ IsInjective(s) /\ IsInjective(r) /\ ToSet(s) \cap ToSet(r) = {}
                  => IsInjective(s \o r)
<1> DEFINE p == s \o r
<1>1. /\ p \in Seq(T) /\ Len(p) = Len(s) + Len(r)
      /\ \A i \in 1..Len(s) : p[i] = s[i]
      /\ \A i \in 1..Len(r) : p[Len(s) + i] = r[i]
      /\ Len(s) \in Nat /\ DOMAIN s = 1..Len(s)
      /\ Len(r) \in Nat /\ DOMAIN r = 1..Len(r)
  BY ConcatProperties, LenProperties
<1>2. DOMAIN p = 1..(Len(s) + Len(r))
  BY <1>1, LenProperties
<1> HIDE DEF p
<1>3. \A i \in 1..(Len(s) + Len(r)) :
         \/ i \in 1..Len(s) /\ p[i] = s[i]
         \/ i - Len(s) \in 1..Len(r) /\ p[i] = r[i - Len(s)]
  <2> SUFFICES ASSUME NEW i \in 1..(Len(s) + Len(r)), i \notin 1..Len(s)
               PROVE  i - Len(s) \in 1..Len(r) /\ p[i] = r[i - Len(s)]
    BY <1>1
  <2>1. i - Len(s) \in 1..Len(r) /\ Len(s) + (i - Len(s)) = i
    BY <1>1
  <2> QED BY <1>1, <2>1
<1>4. ToSet(p) = ToSet(s) \cup ToSet(r)
  <2>1. ToSet(p) \subseteq ToSet(s) \cup ToSet(r)
    BY <1>1, <1>2, <1>3 DEF ToSet
  <2>2. ToSet(s) \subseteq ToSet(p)
    BY <1>1, <1>2 DEF ToSet
  <2>3. \A i \in 1..Len(r) : Len(s) + i \in 1..(Len(s) + Len(r))
    BY <1>1
  <2>4. ToSet(r) \subseteq ToSet(p)
    BY <1>1, <1>2, <2>3 DEF ToSet
  <2> QED BY <2>1, <2>2, <2>4
<1>5. ASSUME IsInjective(s), IsInjective(r), ToSet(s) \cap ToSet(r) = {},
             NEW i \in 1..(Len(s) + Len(r)), NEW j \in 1..(Len(s) + Len(r)),
             p[i] = p[j]
      PROVE  i = j
  <2>1. \A k \in 1..Len(s) : s[k] \in ToSet(s)
    BY <1>1 DEF ToSet
  <2>2. \A k \in 1..Len(r) : r[k] \in ToSet(r)
    BY <1>1 DEF ToSet
  <2>3. CASE i \in 1..Len(s) /\ p[i] = s[i] /\ j \in 1..Len(s) /\ p[j] = s[j]
    BY <1>1, <1>5, <2>3 DEF IsInjective
  <2>4. CASE /\ i - Len(s) \in 1..Len(r) /\ p[i] = r[i - Len(s)]
             /\ j - Len(s) \in 1..Len(r) /\ p[j] = r[j - Len(s)]
    <3>1. i - Len(s) = j - Len(s)
      BY <1>1, <1>5, <2>4 DEF IsInjective
    <3> QED BY <1>1, <3>1
  <2> QED BY <1>3, <1>5, <2>1, <2>2, <2>3, <2>4
<1>6. IsInjective(s) /\ IsInjective(r) /\ ToSet(s) \cap ToSet(r) = {} => IsInjective(p)
  BY <1>2, <1>5 DEF IsInjective
<1> QED BY <1>1, <1>4, <1>6, ListType DEF p

(* A list without duplicates has as many elements as positions. *)
LEMMA ListLength ==
    ASSUME NEW T, NEW s \in Seq(T), IsInjective(s)
    PROVE  Cardinality(ToSet(s)) = Len(s) /\ IsFiniteSet(ToSet(s))
<1>1. Len(s) \in Nat /\ DOMAIN s = 1..Len(s) /\ s \in [1..Len(s) -> T]
  BY LenProperties, ElementOfSeq
<1>2. s \in [1..Len(s) -> ToSet(s)] /\ \A t \in ToSet(s) : \E i \in 1..Len(s) : s[i] = t
  BY <1>1 DEF ToSet
<1>3. s \in Bijection(1..Len(s), ToSet(s))
  BY <1>1, <1>2 DEF IsInjective, Bijection, Injection, Surjection, IsInjective
<1>4. ExistsBijection(1..Len(s), ToSet(s))
  BY <1>3 DEF ExistsBijection
<1>5. IsFiniteSet(1..Len(s)) /\ Cardinality(1..Len(s)) = Len(s)
  BY <1>1, FS_Interval
<1> QED BY <1>4, <1>5, FS_Bijection

-----------------------------------------------------------------------------
(* Remainders *)

LEMMA ModType ==
    ASSUME NEW m \in Nat \ {0}, NEW a \in Int
    PROVE  /\ a % m \in 0..(m - 1)
           /\ a \div m \in Int
           /\ a = m * (a \div m) + (a % m)
  OBVIOUS

LEMMA ModSmall ==
    ASSUME NEW m \in Nat \ {0}, NEW a \in 0..(m - 1)
    PROVE  a % m = a
  OBVIOUS

LEMMA ModUnique ==
    ASSUME NEW m \in Nat \ {0}, NEW q \in Int, NEW r \in 0..(m - 1)
    PROVE  (m * q + r) % m = r
  OBVIOUS

(* A whole number of revolutions more or less ends in the same slot. *)
LEMMA ModAdd ==
    ASSUME NEW m \in Nat \ {0}, NEW a \in Int, NEW k \in Int
    PROVE  (a + m * k) % m = a % m
<1>1. /\ a = m * (a \div m) + (a % m) /\ a \div m \in Int /\ a % m \in 0..(m - 1)
  BY ModType
<1> DEFINE q == a \div m  r == a % m
<1> HIDE DEF q, r
<1>2. a = m * q + r /\ q \in Int /\ r \in 0..(m - 1)
  BY <1>1 DEF q, r
<1>3. a + m * k = m * (q + k) + r /\ q + k \in Int
  BY <1>2
<1>4. (m * (q + k) + r) % m = r
  BY <1>2, <1>3, ModUnique
<1> QED BY <1>3, <1>4 DEF r

LEMMA ModAddOne ==
    ASSUME NEW m \in Nat \ {0}, NEW a \in Int
    PROVE  (a + m) % m = a % m
<1> DEFINE q == a \div m  r == a % m
<1>1. /\ a = m * q + r /\ q \in Int /\ r \in 0..(m - 1)
  BY ModType
<1> HIDE DEF q, r
<1>2. a + m = m * (q + 1) + r /\ q + 1 \in Int
  BY <1>1
<1>3. (m * (q + 1) + r) % m = r
  BY <1>1, <1>2, ModUnique
<1> QED BY <1>2, <1>3 DEF r

(* Of two instants that belong to one slot, one that is less than a        *)
(* revolution after the other is not after it.                             *)
LEMMA ModNotAfter ==
    ASSUME NEW m \in Nat \ {0}, NEW a \in Int, NEW b \in Int,
           a % m = b % m, a < b + m
    PROVE  a <= b
<1> DEFINE p == a \div m  q == b \div m  r == a % m
<1>1. /\ a = m * p + r /\ b = m * q + r
      /\ p \in Int /\ q \in Int /\ r \in Int
  BY ModType
<1>2. m * p < m * q + m
  BY <1>1
<1> HIDE DEF p, q, r
<1>3. p < q + 1
  <2> SUFFICES ASSUME p >= q + 1 PROVE FALSE
    BY <1>1
  <2>1. PICK k \in Nat : p = q + 1 + k
    BY <1>1
  <2>2. m * p = m * q + m + m * k /\ m * k >= 0
    BY <1>1, <2>1
  <2> QED BY <1>1, <1>2, <2>2
<1>4. p <= q
  BY <1>1, <1>3
<1>5. m * p <= m * q
  BY <1>1, <1>4
<1> QED BY <1>1, <1>5

LEMMA ModSame ==
    ASSUME NEW m \in Nat \ {0}, NEW a \in Int, NEW b \in Int,
           a % m = b % m, a < b + m, b < a + m
    PROVE  a = b
<1>1. a <= b
  BY ModNotAfter
<1>2. b <= a
  BY ModNotAfter
<1> QED BY <1>1, <1>2

(* The remainder of a sum is that of the sum with a summand's remainder. *)
LEMMA ModSum ==
    ASSUME NEW m \in Nat \ {0}, NEW a \in Int, NEW b \in Int
    PROVE  (b + (a % m)) % m = (b + a) % m
<1>1. a = m * (a \div m) + (a % m) /\ a \div m \in Int /\ a % m \in Int
  BY ModType
<1> DEFINE q == a \div m  r == a % m
<1> HIDE DEF q, r
<1>2. b + a = (b + r) + m * q /\ b + r \in Int /\ q \in Int
  BY <1>1 DEF q, r
<1>3. ((b + r) + m * q) % m = (b + r) % m
  BY <1>2, ModAdd
<1> QED BY <1>2, <1>3 DEF r

(* Multiples. *)
LEMMA Multiples ==
    ASSUME NEW m \in Nat, NEW a \in Int, NEW b \in Int
    PROVE  /\ m * a \in Int
           /\ a <= b => m * a <= m * b
           /\ m * (a + b) = m * a + m * b
           /\ m * (a - b) = m * a - m * b
           /\ m * 1 = m
<1>1. m * (b - a) = m * b - m * a /\ m * (a - b) = m * a - m * b
  OBVIOUS
<1>2. a <= b => m * (b - a) >= 0
  <2> SUFFICES ASSUME a <= b PROVE m * (b - a) >= 0
    OBVIOUS
  <2> DEFINE k == b - a
  <2>1. k \in Nat
    OBVIOUS
  <2> HIDE DEF k
  <2>2. m * k \in Nat
    BY <2>1
  <2> QED BY <2>2 DEF k
<1> QED BY <1>1, <1>2

(* Where the next multiple of m is. *)
LEMMA DivNext ==
    ASSUME NEW m \in Nat \ {0}, NEW a \in Int
    PROVE  /\ a % m = m - 1 => /\ (a + 1) \div m = (a \div m) + 1
                               /\ a + 1 = m * ((a \div m) + 1)
           /\ a % m # m - 1 => (a + 1) \div m = a \div m
  OBVIOUS

(* Quotients are compared by the multiples of the divisor. *)
LEMMA DivAtMost ==
    ASSUME NEW m \in Nat \ {0}, NEW a \in Int, NEW k \in Int
    PROVE  a \div m <= k <=> a < m * k + m
<1> DEFINE q == a \div m  r == a % m
<1>1. q \in Int /\ r \in 0..(m - 1) /\ a = m * q + r
  BY ModType
<1> HIDE DEF q, r
<1>2. CASE q <= k
  <2>1. m * q <= m * k /\ m * q \in Int /\ m * k \in Int
    BY <1>1, <1>2, Multiples
  <2> QED BY <1>1, <1>2, <2>1 DEF q
<1>3. CASE k + 1 <= q
  <2>1. m * (k + 1) <= m * q /\ m * (k + 1) = m * k + m /\ m * q \in Int /\ m * k \in Int
    BY <1>1, <1>3, Multiples
  <2> QED BY <1>1, <1>3, <2>1 DEF q
<1> QED BY <1>1, <1>2, <1>3

-----------------------------------------------------------------------------
(* Instants *)

LEMMA NextVisitType ==
    ASSUME NEW m \in Nat \ {0}, NEW s \in 0..(m - 1), NEW n \in Int
    PROVE  /\ NextVisit(m, s, n) \in (n + 1)..(n + m)
           /\ NextVisit(m, s, n) % m = s
<1>1. m \in Nat \ {0} /\ s - n - 1 \in Int /\ n + 1 \in Int
  OBVIOUS
<1>2. (s - n - 1) % m \in 0..(m - 1)
  BY <1>1, ModType
<1>3. ((n + 1) + ((s - n - 1) % m)) % m = ((n + 1) + (s - n - 1)) % m
  <2> DEFINE a == s - n - 1  b == n + 1
  <2> HIDE DEF a, b
  <2> QED BY <1>1, ModSum DEF a, b
<1>4. (n + 1) + (s - n - 1) = s /\ s % m = s
  BY <1>1, ModSmall
<1> QED BY <1>1, <1>2, <1>3, <1>4 DEF NextVisit

(* ... which only one instant is. *)
LEMMA NextVisitOf ==
    ASSUME NEW m \in Nat \ {0}, NEW s \in 0..(m - 1), NEW n \in Int,
           NEW v \in (n + 1)..(n + m), v % m = s
    PROVE  NextVisit(m, s, n) = v
<1>1. /\ NextVisit(m, s, n) \in (n + 1)..(n + m)
      /\ NextVisit(m, s, n) % m = s
  BY NextVisitType
<1> DEFINE u == NextVisit(m, s, n)
<1> HIDE DEF u
<1>2. u \in Int /\ v \in Int /\ u % m = v % m /\ u < v + m /\ v < u + m
  BY <1>1 DEF u
<1> QED BY <1>2, ModSame DEF u

(* As the clock moves, the next visit of a slot stays until it comes. *)
LEMMA NextVisitStep ==
    ASSUME NEW m \in Nat \ {0}, NEW s \in 0..(m - 1), NEW n \in Int
    PROVE  /\ (n + 1) % m = s => NextVisit(m, s, n) = n + 1
           /\ (n + 1) % m # s => NextVisit(m, s, n) = NextVisit(m, s, n + 1)
<1>1. m \in Nat \ {0}
  OBVIOUS
<1>2. (n + 1) % m = s => NextVisit(m, s, n) = n + 1
  BY <1>1, NextVisitOf
<1>3. ASSUME (n + 1) % m # s
      PROVE  NextVisit(m, s, n) = NextVisit(m, s, n + 1)
  <2> DEFINE v == NextVisit(m, s, n)
  <2>1. v \in (n + 1)..(n + m) /\ v % m = s
    BY NextVisitType
  <2>2. v # n + 1
    BY <1>3, <2>1
  <2>3. v \in ((n + 1) + 1)..((n + 1) + m)
    BY <1>1, <2>1, <2>2
  <2> HIDE DEF v
  <2> QED BY <1>1, <2>1, <2>3, NextVisitOf DEF v
<1> QED BY <1>2, <1>3

(* A revolution later. *)
LEMMA NextVisitLater ==
    ASSUME NEW m \in Nat \ {0}, NEW s \in 0..(m - 1), NEW n \in Int
    PROVE  NextVisit(m, s, n + m) = NextVisit(m, s, n) + m
<1> DEFINE v == NextVisit(m, s, n)
<1>1. /\ m \in Nat \ {0} /\ v \in (n + 1)..(n + m) /\ v \in Int
      /\ v % m = s
  BY NextVisitType
<1> HIDE DEF v
<1>2. (v + m) % m = s
  BY <1>1, ModAddOne
<1>3. v + m \in ((n + m) + 1)..((n + m) + m) /\ n + m \in Int
  BY <1>1
<1> QED BY <1>2, <1>3, NextVisitOf DEF v

(* The last of the instants r, r + m, ... at which a timer due at d is *)
(* not in the past, or r.                                                  *)
LEMMA RehomedAtType ==
    ASSUME NEW m \in Nat \ {0}, NEW d \in Int, NEW r \in Int
    PROVE  /\ RehomedAt(m, d, r) \in Int /\ RehomedAt(m, d, r) >= r
           /\ RehomedAt(m, d, r) % m = r % m
           /\ d < r => RehomedAt(m, d, r) = r
           /\ d >= r => RehomedAt(m, d, r) <= d /\ d < RehomedAt(m, d, r) + m
<1>1. m \in Nat \ {0}
  OBVIOUS
<1>2. CASE d < r
  BY <1>2 DEF RehomedAt
<1>3. CASE d >= r
  <2> DEFINE k == (d - r) \div m  e == (d - r) % m
  <2>1. /\ d - r = m * k + e /\ k \in Int /\ e \in 0..(m - 1)
    BY <1>1, ModType
  <2>2. RehomedAt(m, d, r) = r + m * k
    BY <1>3 DEF RehomedAt
  <2> HIDE DEF k, e
  <2>3. k >= 0
    <3> SUFFICES ASSUME k <= -1 PROVE FALSE
      BY <2>1
    <3>1. PICK j \in Nat : k = -1 - j
      BY <2>1
    <3>2. m * k = -m - m * j /\ m * j >= 0
      BY <1>1, <3>1
    <3> QED BY <1>1, <1>3, <2>1, <3>2
  <2>4. m * k \in Int /\ m * k >= 0
    BY <1>1, <2>1, <2>3
  <2>5. (r + m * k) % m = r % m
    BY <1>1, <2>1, ModAdd
  <2> QED BY <1>1, <1>3, <2>1, <2>2, <2>4, <2>5
<1> QED BY <1>2, <1>3

(* ... which only one of these instants is. *)
LEMMA RehomedAtOf ==
    ASSUME NEW m \in Nat \ {0}, NEW d \in Int, NEW r \in Int, r <= d
    PROVE  \A v \in Int : v % m = r % m /\ v <= d /\ d < v + m => RehomedAt(m, d, r) = v
<1> DEFINE u == RehomedAt(m, d, r)
<1>1. /\ u \in Int /\ u % m = r % m
      /\ d >= r => u <= d /\ d < u + m
  BY RehomedAtType
<1> HIDE DEF u
<1>2. ASSUME NEW v \in Int, v % m = r % m, v <= d, d < v + m
      PROVE  u = v
  <2>1. u < v + m /\ v < u + m
    BY <1>1, <1>2
  <2> QED BY <1>1, <1>2, <2>1, ModSame
<1> QED BY <1>2 DEF u

(* Nothing changes for a timer that has to wait if a re-homing passes, and *)
(* everything a revolution later for one that has not.                     *)
LEMMA RehomedAtLater ==
    ASSUME NEW m \in Nat \ {0}, NEW d \in Int, NEW r \in Int
    PROVE  /\ d < r + m => RehomedAt(m, d, r) = r
           /\ d < r + m => RehomedAt(m, d, r + m) = r + m
           /\ d >= r + m => RehomedAt(m, d, r + m) = RehomedAt(m, d, r)
<1>1. m \in Nat \ {0}
  OBVIOUS
<1>2. ASSUME d < r + m
      PROVE  RehomedAt(m, d, r) = r /\ RehomedAt(m, d, r + m) = r + m
  <2>1. CASE d < r
    BY <1>1, <2>1 DEF RehomedAt
  <2>2. CASE d >= r
    BY <1>1, <1>2, <2>2, RehomedAtOf DEF RehomedAt
  <2> QED BY <2>1, <2>2
<1>3. ASSUME d >= r + m
      PROVE  RehomedAt(m, d, r + m) = RehomedAt(m, d, r)
  <2> DEFINE v == RehomedAt(m, d, r)
  <2>1. v \in Int /\ v % m = r % m /\ v <= d /\ d < v + m
    <3>1. /\ v \in Int /\ v % m = r % m
          /\ d >= r => v <= d /\ d < v + m
      BY RehomedAtType
    <3> HIDE DEF v
    <3>2. d >= r
      BY <1>3
    <3> QED BY <3>1, <3>2
  <2> HIDE DEF v
  <2>2. (r + m) % m = r % m
    BY <1>1, ModAddOne
  <2>3. r + m \in Int /\ r + m <= d /\ v % m = (r + m) % m
    BY <1>1, <1>3, <2>1, <2>2
  <2> DEFINE q == r + m
  <2> HIDE DEF q
  <2>4. RehomedAt(m, d, q) = v
    BY <2>1, <2>3, RehomedAtOf DEF q
  <2> QED BY <2>4 DEF v, q
<1> QED BY <1>2, <1>3

(* A timer fires later than now, ... *)
LEMMA InTheFuture ==
    ASSUME NEW m \in Nat \ {0}, NEW d \in Int, NEW n \in Int
    PROVE  /\ BucketTime(m, d, n) \in Int /\ BucketTime(m, d, n) > n
           /\ OverflowTime(m, d, n) \in Int /\ OverflowTime(m, d, n) > n
<1>1. d % m \in 0..(m - 1) /\ RehomedAt(m, d, n) \in Int /\ RehomedAt(m, d, n) >= n
  BY ModType, RehomedAtType
<1> DEFINE h == d % m  r == RehomedAt(m, d, n)
<1> HIDE DEF h, r
<1>2. /\ NextVisit(m, h, n) \in (n + 1)..(n + m)
      /\ NextVisit(m, h, r) \in (r + 1)..(r + m)
  BY <1>1, NextVisitType DEF h, r
<1>3. /\ NextVisit(m, h, n) \in Int /\ NextVisit(m, h, n) > n
      /\ NextVisit(m, h, r) \in Int /\ NextVisit(m, h, r) > n
  BY <1>1, <1>2 DEF r
<1> QED BY <1>3 DEF BucketTime, OverflowTime, h, r

(* ... a re-homing changes nothing, and skipping it costs a timer that is  *)
(* in range a revolution.                                                  *)
LEMMA Rehoming ==
    ASSUME NEW m \in Nat \ {0}, NEW d \in Int, NEW r \in Int
    PROVE  /\ d < r + m => OverflowTime(m, d, r) = BucketTime(m, d, r)
           /\ d < r + m => OverflowTime(m, d, r + m) = OverflowTime(m, d, r) + m
           /\ d >= r + m => OverflowTime(m, d, r + m) = OverflowTime(m, d, r)
<1>1. d % m \in 0..(m - 1)
  BY ModType
<1>2. NextVisit(m, d % m, r + m) = NextVisit(m, d % m, r) + m
  BY <1>1, NextVisitLater
<1> QED BY <1>2, RehomedAtLater DEF OverflowTime, BucketTime

(* A timer that is scheduled fires when it is due or a revolution later.   *)
LEMMA ScheduledInRange ==
    ASSUME NEW m \in Nat \ {0}, NEW n \in Int, NEW d \in n..(n + m - 1)
    PROVE  BucketTime(m, d, n) = IF d = n THEN n + m ELSE d
<1>1. m \in Nat \ {0} /\ d \in Int
  OBVIOUS
<1>2. d % m \in 0..(m - 1)
  BY <1>1, ModType
<1>3. (d + m) % m = d % m
  BY <1>1, ModAddOne
<1>4. CASE d = n
  <2>1. d + m \in (n + 1)..(n + m)
    BY <1>1, <1>4
  <2> QED BY <1>2, <1>3, <1>4, <2>1, NextVisitOf DEF BucketTime
<1>5. CASE d # n
  <2>1. d \in (n + 1)..(n + m)
    BY <1>1, <1>5
  <2> QED BY <1>2, <1>5, <2>1, NextVisitOf DEF BucketTime
<1> QED BY <1>4, <1>5

LEMMA ScheduledOutOfRange ==
    ASSUME NEW m \in Nat \ {0}, NEW n \in Int, NEW d \in Int, d >= n + m
    PROVE  OverflowTime(m, d, NextVisit(m, m - 1, n))
               = d + (IF d % m = m - 1 THEN m ELSE 0)
<1> DEFINE r == NextVisit(m, m - 1, n)  v == RehomedAt(m, d, r)
<1>1. m \in Nat \ {0} /\ m - 1 \in 0..(m - 1)
  OBVIOUS
<1>2. r \in (n + 1)..(n + m) /\ r % m = m - 1
  BY <1>1, NextVisitType
<1>3. r \in Int /\ r <= d
  BY <1>1, <1>2
<1>4. /\ v \in Int /\ v % m = m - 1 /\ v <= d /\ d < v + m
  <2> HIDE DEF r
  <2> QED BY <1>2, <1>3, RehomedAtType
<1>5. d % m \in 0..(m - 1)
  BY ModType
<1> HIDE DEF v
<1>6. CASE d % m = m - 1
  <2>1. v = d
    <3>1. v % m = d % m /\ v < d + m /\ d < v + m
      BY <1>1, <1>4, <1>6
    <3> QED BY <1>1, <1>4, <3>1, ModSame
  <2>2. (d + m) % m = d % m
    BY <1>1, ModAddOne
  <2>3. d + m \in (v + 1)..(v + m)
    BY <1>1, <2>1
  <2>4. NextVisit(m, d % m, v) = d + m
    BY <1>4, <1>5, <2>2, <2>3, NextVisitOf
  <2> QED BY <1>6, <2>4 DEF OverflowTime, v
<1>7. CASE d % m # m - 1
  <2>1. v # d
    BY <1>4, <1>7
  <2>2. d \in (v + 1)..(v + m)
    BY <1>1, <1>4, <2>1
  <2>3. NextVisit(m, d % m, v) = d
    BY <1>4, <1>5, <2>2, NextVisitOf
  <2> QED BY <1>7, <2>3 DEF OverflowTime, v
<1> QED BY <1>6, <1>7

-----------------------------------------------------------------------------
(* Parts of lists *)

(* The recursion that Only is defined by. *)
Filters(f, s, S) ==
    /\ f[0] = <<>>
    /\ \A i \in 1..Len(s) :
          f[i] = IF s[i] \in S THEN Append(f[i - 1], s[i]) ELSE f[i - 1]

LEMMA OnlyDef ==
    ASSUME NEW T, NEW s \in Seq(T), NEW S
    PROVE  \E f \in [0..Len(s) -> Seq(T)] : Filters(f, s, S) /\ Only(s, S) = f[Len(s)]
<1> DEFINE X == Seq(T)  m == Len(s)
           h == [i \in 1..m |-> [x \in X |-> IF s[i] \in S THEN Append(x, s[i]) ELSE x]]
<1>1. m \in Nat /\ \A i \in 1..m : s[i] \in T
  BY LenProperties, ElementOfSeq
<1>2. <<>> \in X /\ h \in [1..m -> [X -> X]]
  <2>1. \A x \in X, i \in 1..m : Append(x, s[i]) \in X
    BY <1>1, AppendProperties
  <2> QED BY <2>1
<1>3. \E f \in [0..m -> X] : f[0] = <<>> /\ \A i \in 1..m : f[i] = h[i][f[i - 1]]
  <2> DEFINE b == <<>>
  <2>1. b \in X /\ m \in Nat /\ h \in [1..m -> [X -> X]]
    BY <1>1, <1>2
  <2> HIDE DEF h, X, m, b
  <2>2. \E f \in [0..m -> X] : f[0] = b /\ \A i \in 1..m : f[i] = h[i][f[i - 1]]
    BY <2>1, RecursionExists
  <2> QED BY <2>2 DEF b
<1>4. PICK f \in [0..m -> X] : f[0] = <<>> /\ \A i \in 1..m : f[i] = h[i][f[i - 1]]
  BY <1>3
<1>5. \A i \in 1..m : f[i] = IF s[i] \in S THEN Append(f[i - 1], s[i]) ELSE f[i - 1]
  <2> TAKE i \in 1..m
  <2>1. f[i - 1] \in X
    BY <1>1, <1>4
  <2> QED BY <1>4, <2>1
<1> DEFINE R(g) == [i \in 0..m |-> IF i = 0 THEN <<>>
                                  ELSE IF s[i] \in S THEN Append(g[i - 1], s[i])
                                  ELSE g[i - 1]]
           g == CHOOSE g : g = R(g)
<1>6. f = R(f)
  <2>1. f = [i \in 0..m |-> f[i]]
    BY <1>4
  <2>2. \A i \in 0..m : i = 0 \/ i \in 1..m
    BY <1>1
  <2>3. \A i \in 0..m : f[i] = IF i = 0 THEN <<>>
                                ELSE IF s[i] \in S THEN Append(f[i - 1], s[i])
                                ELSE f[i - 1]
    BY <1>4, <1>5, <2>2
  <2> QED BY <2>1, <2>3
<1>7. g = R(g)
  <2> HIDE DEF R
  <2> QED BY <1>6
<1>8. Only(s, S) = g[m]
  BY DEF Only
<1>9. g[0] = <<>> /\ \A i \in 1..m : g[i] = IF s[i] \in S THEN Append(g[i - 1], s[i])
                                        ELSE g[i - 1]
  <2> HIDE DEF g
  <2>1. \A i \in 0..m : g[i] = IF i = 0 THEN <<>>
                                ELSE IF s[i] \in S THEN Append(g[i - 1], s[i])
                                ELSE g[i - 1]
    BY <1>7
  <2>2. 0 \in 0..m /\ \A i \in 1..m : i \in 0..m /\ i # 0
    BY <1>1
  <2> QED BY <2>1, <2>2
<1> HIDE DEF g
<1>10. \A n \in Nat : n \in {i \in Nat : i <= m => g[i] = f[i]}
  <2> DEFINE Z == {i \in Nat : i <= m => g[i] = f[i]}
  <2>1. 0 \in Z
    BY <1>4, <1>9
  <2>2. ASSUME NEW n \in Nat, n \in Z, n + 1 <= m PROVE g[n + 1] = f[n + 1]
    <3>1. n + 1 \in 1..m /\ (n + 1) - 1 = n /\ g[n] = f[n]
      BY <1>1, <2>2
    <3> QED BY <1>5, <1>9, <3>1
  <2>3. \A n \in Nat : n \in Z => n + 1 \in Z
    BY <2>2
  <2> HIDE DEF Z
  <2>4. \A n \in Nat : n \in Z
    BY <2>1, <2>3, SetInduction
  <2> QED BY <2>4 DEF Z
<1>11. g[m] = f[m]
  BY <1>1, <1>10
<1>12. Filters(f, s, S) /\ Only(s, S) = f[Len(s)]
  BY <1>4, <1>5, <1>8, <1>11 DEF Filters
<1> QED BY <1>4, <1>12

(* The part of a list that belongs to S has its elements in S. *)
LEMMA OnlyFacts ==
    ASSUME NEW T, NEW s \in Seq(T), NEW S
    PROVE  /\ Only(s, S) \in Seq(T)
           /\ ToSet(Only(s, S)) = ToSet(s) \cap S
           /\ IsInjective(s) => IsInjective(Only(s, S))
<1>0. PICK f \in [0..Len(s) -> Seq(T)] : Filters(f, s, S) /\ Only(s, S) = f[Len(s)]
  BY OnlyDef
<1>1. /\ f[0] = <<>>
      /\ \A i \in 1..Len(s) :
            f[i] = IF s[i] \in S THEN Append(f[i - 1], s[i]) ELSE f[i - 1]
      /\ Only(s, S) = f[Len(s)]
  BY <1>0 DEF Filters
<1>2. /\ Len(s) \in Nat /\ DOMAIN s = 1..Len(s) /\ \A i \in 1..Len(s) : s[i] \in T
  BY LenProperties, ElementOfSeq
<1> DEFINE P(n) == /\ f[n] \in Seq(T)
                   /\ ToSet(f[n]) = {s[j] : j \in 1..n} \cap S
                   /\ IsInjective(s) => IsInjective(f[n])
           Z == {n \in Nat : n <= Len(s) => P(n)}
<1>3. P(0)
  BY <1>1, ListEmpty
<1>4. ASSUME NEW n \in Nat, P(n), n + 1 <= Len(s)
      PROVE  P(n + 1)
  <2>1. n + 1 \in 1..Len(s) /\ (n + 1) - 1 = n
    BY <1>2, <1>4
  <2>2. f[n + 1] = IF s[n + 1] \in S THEN Append(f[n], s[n + 1]) ELSE f[n]
    BY <1>1, <2>1
  <2>3. {s[j] : j \in 1..(n + 1)} = {s[j] : j \in 1..n} \cup {s[n + 1]}
    BY <1>2, <1>4
  <2>4. s[n + 1] \in T
    BY <1>2, <2>1
  <2>5. CASE s[n + 1] \in S
    <3>1. f[n + 1] = Append(f[n], s[n + 1])
      BY <2>2, <2>5
    <3> DEFINE a == f[n]  t == s[n + 1]
    <3>2. a \in Seq(T) /\ t \in T
      BY <1>4, <2>4
    <3> HIDE DEF a, t
    <3>3. /\ Append(a, t) \in Seq(T)
          /\ ToSet(Append(a, t)) = ToSet(a) \cup {t}
          /\ IsInjective(a) /\ t \notin ToSet(a) => IsInjective(Append(a, t))
      BY <3>2, ListAppend
    <3>4. IsInjective(s) => t \notin {s[j] : j \in 1..n}
      <4> SUFFICES ASSUME IsInjective(s), NEW j \in 1..n, s[j] = s[n + 1]
                   PROVE  FALSE
        BY DEF t
      <4>1. j \in 1..Len(s) /\ j # n + 1
        BY <1>2, <1>4
      <4> QED BY <1>2, <2>1, <4>1 DEF IsInjective
    <3> QED BY <1>4, <2>3, <2>5, <3>1, <3>3, <3>4 DEF a, t
  <2>6. CASE s[n + 1] \notin S
    BY <1>4, <2>2, <2>3, <2>6
  <2> QED BY <2>5, <2>6
<1> HIDE DEF P
<1>5. 0 \in Z /\ \A n \in Nat : n \in Z => n + 1 \in Z
  BY <1>3, <1>4
<1> HIDE DEF Z
<1>6. \A n \in Nat : n \in Z
  BY <1>5, SetInduction
<1>7. P(Len(s))
  BY <1>2, <1>6 DEF Z
<1>8. ToSet(s) = {s[j] : j \in 1..Len(s)}
  BY <1>2 DEF ToSet
<1> QED BY <1>1, <1>7, <1>8 DEF P

(* A part of a list in order is in order. *)
LEMMA OnlyOrder ==
    ASSUME NEW s \in Seq(Int), NEW S, \A i, j \in DOMAIN s : i < j => s[i] < s[j]
    PROVE  LET r == Only(s, S) IN \A i, j \in DOMAIN r : i < j => r[i] < r[j]
<1>0. PICK f \in [0..Len(s) -> Seq(Int)] : Filters(f, s, S) /\ Only(s, S) = f[Len(s)]
  BY OnlyDef
<1>1. /\ f[0] = <<>>
      /\ \A i \in 1..Len(s) :
            f[i] = IF s[i] \in S THEN Append(f[i - 1], s[i]) ELSE f[i - 1]
  BY <1>0 DEF Filters
<1>2. /\ Len(s) \in Nat /\ DOMAIN s = 1..Len(s) /\ \A i \in 1..Len(s) : s[i] \in Int
  BY LenProperties, ElementOfSeq
<1> DEFINE P(n) == /\ f[n] \in Seq(Int)
                   /\ \A i \in DOMAIN f[n] : \E k \in 1..n : f[n][i] = s[k]
                   /\ \A i, j \in DOMAIN f[n] : i < j => f[n][i] < f[n][j]
           Z == {n \in Nat : n <= Len(s) => P(n)}
<1>3. P(0)
  BY <1>1
<1>4. ASSUME NEW n \in Nat, P(n), n + 1 <= Len(s)
      PROVE  P(n + 1)
  <2>1. n + 1 \in 1..Len(s) /\ (n + 1) - 1 = n
    BY <1>2, <1>4
  <2>2. f[n + 1] = IF s[n + 1] \in S THEN Append(f[n], s[n + 1]) ELSE f[n]
    BY <1>1, <2>1
  <2>3. s[n + 1] \in Int /\ \A k \in 1..n : k \in 1..(n + 1) /\ s[k] \in Int /\ s[k] < s[n + 1]
    <3>1. s[n + 1] \in Int
      BY <1>2, <2>1
    <3>2. ASSUME NEW k \in 1..n
          PROVE  k \in 1..(n + 1) /\ s[k] \in Int /\ s[k] < s[n + 1]
      <4>1. k \in 1..Len(s) /\ k < n + 1 /\ k \in 1..(n + 1)
        BY <1>2, <1>4
      <4>2. k \in DOMAIN s /\ n + 1 \in DOMAIN s
        BY <1>2, <2>1, <4>1
      <4> QED BY <1>2, <4>1, <4>2
    <3> QED BY <3>1, <3>2
  <2>4. CASE s[n + 1] \in S
    <3> DEFINE a == f[n]  t == s[n + 1]  b == Append(a, t)
    <3>1. a \in Seq(Int) /\ t \in Int /\ f[n + 1] = b
      BY <1>4, <2>2, <2>3, <2>4
    <3>2. /\ \A i \in DOMAIN a : \E k \in 1..n : a[i] = s[k]
          /\ \A i, j \in DOMAIN a : i < j => a[i] < a[j]
      BY <1>4
    <3>3. \A k \in 1..n : s[k] < t
      BY <2>3
    <3> HIDE DEF a, t
    <3>4. /\ b \in Seq(Int) /\ Len(a) \in Nat /\ DOMAIN a = 1..Len(a)
          /\ DOMAIN b = 1..(Len(a) + 1)
          /\ b[Len(a) + 1] = t /\ \A i \in 1..Len(a) : b[i] = a[i]
      BY <3>1, AppendProperties, LenProperties
    <3>5. \A i \in DOMAIN b : i \in DOMAIN a \/ i = Len(a) + 1
      BY <3>4
    <3> HIDE DEF b
    <3>6. \A i \in DOMAIN b : \E k \in 1..(n + 1) : b[i] = s[k]
      <4> SUFFICES ASSUME NEW i \in DOMAIN b PROVE \E k \in 1..(n + 1) : b[i] = s[k]
        OBVIOUS
      <4>1. CASE i \in DOMAIN a
        <5>1. PICK k \in 1..n : a[i] = s[k]
          BY <3>2, <4>1
        <5>2. b[i] = s[k] /\ k \in 1..(n + 1)
          BY <2>3, <3>4, <4>1, <5>1
        <5> QED BY <5>2
      <4>2. CASE i = Len(a) + 1
        <5>1. n + 1 \in 1..(n + 1)
          OBVIOUS
        <5> QED BY <3>4, <4>2, <5>1 DEF t
      <4> QED BY <3>5, <4>1, <4>2
    <3>7. \A i, j \in DOMAIN b : i < j => b[i] < b[j]
      <4> SUFFICES ASSUME NEW i \in DOMAIN b, NEW j \in DOMAIN b, i < j
                   PROVE  b[i] < b[j]
        OBVIOUS
      <4>1. CASE j \in DOMAIN a
        <5>1. i \in DOMAIN a
          BY <3>4, <4>1
        <5> QED BY <3>2, <3>4, <4>1, <5>1
      <4>2. CASE j = Len(a) + 1
        <5>1. i \in DOMAIN a /\ b[i] = a[i] /\ b[j] = t
          BY <3>4, <4>2
        <5> QED BY <3>2, <3>3, <5>1
      <4> QED BY <3>5, <4>1, <4>2
    <3> QED BY <3>1, <3>4, <3>6, <3>7
  <2>5. CASE s[n + 1] \notin S
    BY <1>4, <2>2, <2>3, <2>5
  <2> QED BY <2>4, <2>5
<1> HIDE DEF P
<1>5. 0 \in Z /\ \A n \in Nat : n \in Z => n + 1 \in Z
  BY <1>3, <1>4
<1> HIDE DEF Z
<1>6. \A n \in Nat : n \in Z
  BY <1>5, SetInduction
<1>7. P(Len(s))
  BY <1>2, <1>6 DEF Z
<1> QED BY <1>0, <1>7 DEF P

=============================================================================
