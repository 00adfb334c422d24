-------------------------------- MODULE Sums --------------------------------
(***************************************************************************)
(* Sums over finite sets, as SumFunction and MapThenSumSet compute them:   *)
(* one element after the other, in an order that CHOOSE picks.  The order  *)
(* does not matter, and a sum follows a change of one of its terms.        *)
(*                                                                         *)
(* What is to be proved by induction is put into a set, as the provers     *)
(* cannot instantiate a theorem that has an operator for a parameter.      *)
(***************************************************************************)
EXTENDS Integers, FiniteSets, FiniteSetsExt, Functions, FiniteSetTheorems,
        WellFoundedInduction, TLAPS

(* A set of natural numbers that is not empty has a least element.         *)
LEMMA LeastLemma ==
  ASSUME NEW S \in SUBSET Nat, S # {}
  PROVE  \E m \in S : \A k \in S : m <= k
<1>1. PICK m \in S : \A k \in S : ~(<<k, m>> \in OpToRel(<, Nat))
  BY NatLessThanWellFounded, WFMin, Zenon
<1>2. \A k \in S : k \in Nat /\ m \in Nat
  OBVIOUS
<1>3. \A k \in S : <<k, m>> \in Nat \X Nat
  BY <1>2
<1>4. \A k \in S : ~(<<k, m>>[1] < <<k, m>>[2])
  BY <1>1, <1>3, Zenon DEF OpToRel
<1>5. QED
  BY <1>2, <1>4

(* Induction over the numbers: C holds those the claim is true of.         *)
LEMMA Induction ==
  ASSUME NEW C, 0 \in C, \A n \in Nat : n \in C => n + 1 \in C
  PROVE  Nat \subseteq C
<1> SUFFICES ASSUME Nat \ C # {} PROVE FALSE
  OBVIOUS
<1>1. PICK m \in Nat \ C : \A k \in Nat \ C : m <= k
  BY LeastLemma
<1>2. m # 0 /\ m - 1 \in Nat
  BY <1>1
<1>3. m - 1 \in C
  BY <1>1, <1>2
<1> QED BY <1>1, <1>2, <1>3

(* Induction over the subsets of a finite set, one element after another.  *)
LEMMA SubsetInduction ==
  ASSUME NEW S, IsFiniteSet(S), NEW C, {} \in C,
         \A T \in SUBSET S : T # {} /\ (\A x \in T : T \ {x} \in C) => T \in C
  PROVE  SUBSET S \subseteq C
<1> DEFINE N == {n \in Nat : \A T \in SUBSET S : Cardinality(T) = n => T \in C}
<1>1. \A T \in SUBSET S : IsFiniteSet(T) /\ Cardinality(T) \in Nat
  BY FS_Subset, FS_CardinalityType
<1>2. 0 \in N
  <2>1. \A T \in SUBSET S : Cardinality(T) = 0 => T = {}
    BY <1>1, FS_EmptySet
  <2> QED BY <2>1
<1>3. \A n \in Nat : n \in N => n + 1 \in N
  <2> SUFFICES ASSUME NEW n \in Nat, n \in N, NEW T \in SUBSET S, Cardinality(T) = n + 1
               PROVE  T \in C
    OBVIOUS
  <2>1. T # {}
    BY <1>1, FS_EmptySet
  <2>2. \A x \in T : T \ {x} \in SUBSET S /\ Cardinality(T \ {x}) = n
    BY <1>1, FS_RemoveElement
  <2> QED BY <2>1, <2>2
<1>4. Nat \subseteq N
  <2> HIDE DEF N
  <2> QED BY <1>2, <1>3, Induction
<1> QED BY <1>1, <1>4

-----------------------------------------------------------------------------

(* The terms of f over s, each as that many pairs.                         *)
Grains(f, s) == {p \in s \X Nat : p[2] \in 1 .. f[p[1]]}

LEMMA GrainsStep ==
  ASSUME NEW S, NEW f \in [S -> Nat], NEW T \in SUBSET S, NEW x \in T,
         IsFiniteSet(Grains(f, T \ {x}))
  PROVE  /\ IsFiniteSet(Grains(f, T))
         /\ Cardinality(Grains(f, T)) = Cardinality(Grains(f, T \ {x})) + f[x]
<1> DEFINE G == Grains(f, T \ {x})
           H == {x} \X (1 .. f[x])
<1>1. Grains(f, T) = G \cup H /\ G \cap H = {}
  BY DEF Grains
<1>2. f[x] \in Nat /\ IsFiniteSet(1 .. f[x]) /\ Cardinality(1 .. f[x]) = f[x]
  BY FS_Interval
<1>3. IsFiniteSet({x}) /\ Cardinality({x}) = 1
  BY FS_Singleton
<1>4. IsFiniteSet(H) /\ Cardinality(H) = 1 * f[x]
  BY <1>2, <1>3, FS_Product
<1>5. Cardinality(G) \in Nat
  BY FS_CardinalityType
<1>6. IsFiniteSet(G \cup H) /\ Cardinality(G \cup H) = Cardinality(G) + Cardinality(H) - 0
  <2>1. Cardinality(G \cap H) = 0
    BY <1>1, FS_EmptySet
  <2> HIDE DEF H
  <2> QED BY <1>4, <2>1, FS_Union
<1> HIDE DEF G, H
<1>7. QED
  BY <1>1, <1>2, <1>4, <1>5, <1>6 DEF G

LEMMA GrainsFinite ==
  ASSUME NEW S, IsFiniteSet(S), NEW f \in [S -> Nat]
  PROVE  /\ \A T \in SUBSET S : IsFiniteSet(Grains(f, T))
         /\ Cardinality(Grains(f, {})) = 0
<1> DEFINE C == {T \in SUBSET S : IsFiniteSet(Grains(f, T))}
<1>1. Grains(f, {}) = {}
  BY DEF Grains
<1>2. {} \in C
  BY <1>1, FS_EmptySet
<1>3. \A T \in SUBSET S : T # {} /\ (\A x \in T : T \ {x} \in C) => T \in C
  BY GrainsStep
<1>4. SUBSET S \subseteq C
  <2> HIDE DEF C
  <2> QED BY <1>2, <1>3, SubsetInduction
<1> QED BY <1>1, <1>4, FS_EmptySet

(* The positive terms of f, and the amounts of the negative ones.          *)
Gains(f) == [x \in DOMAIN f |-> IF f[x] > 0 THEN f[x] ELSE 0]
Losses(f) == [x \in DOMAIN f |-> IF f[x] > 0 THEN 0 ELSE -f[x]]

(* What the sum over s is, without an order.                               *)
Weight(f, s) == Cardinality(Grains(Gains(f), s)) - Cardinality(Grains(Losses(f), s))

LEMMA WeightStep ==
  ASSUME NEW S, IsFiniteSet(S), NEW f \in [S -> Int]
  PROVE  /\ Weight(f, {}) = 0
         /\ \A T \in SUBSET S :
              /\ Weight(f, T) \in Int
              /\ \A x \in T : Weight(f, T) = f[x] + Weight(f, T \ {x})
<1>1. Gains(f) \in [S -> Nat] /\ Losses(f) \in [S -> Nat]
  BY DEF Gains, Losses
<1>2. \A x \in S : f[x] = Gains(f)[x] - Losses(f)[x]
  BY DEF Gains, Losses
<1>3. Weight(f, {}) = 0
  BY <1>1, GrainsFinite DEF Weight
<1>4. ASSUME NEW g \in [S -> Nat], NEW T \in SUBSET S
      PROVE  /\ Cardinality(Grains(g, T)) \in Nat
             /\ \A x \in T : /\ Cardinality(Grains(g, T \ {x})) \in Nat
                             /\ Cardinality(Grains(g, T)) = Cardinality(Grains(g, T \ {x})) + g[x]
  BY GrainsFinite, GrainsStep, FS_CardinalityType
<1>5. ASSUME NEW T \in SUBSET S
      PROVE  /\ Weight(f, T) \in Int
             /\ \A x \in T : Weight(f, T) = f[x] + Weight(f, T \ {x})
  <2>1. Weight(f, T) \in Int
    BY <1>1, <1>4 DEF Weight
  <2>2. ASSUME NEW x \in T PROVE Weight(f, T) = f[x] + Weight(f, T \ {x})
    <3> DEFINE G == Gains(f)
               L == Losses(f)
               R == T \ {x}
    <3>1. /\ Cardinality(Grains(G, T)) = Cardinality(Grains(G, R)) + G[x]
          /\ Cardinality(Grains(L, T)) = Cardinality(Grains(L, R)) + L[x]
          /\ Cardinality(Grains(G, R)) \in Nat /\ Cardinality(Grains(L, R)) \in Nat
      BY <1>1, <1>4, <2>2
    <3>2. f[x] = G[x] - L[x] /\ G[x] \in Nat /\ L[x] \in Nat
      BY <1>1, <1>2, <2>2
    <3>3. Weight(f, T) = Cardinality(Grains(G, T)) - Cardinality(Grains(L, T))
      BY DEF Weight
    <3>4. Weight(f, R) = Cardinality(Grains(G, R)) - Cardinality(Grains(L, R))
      BY DEF Weight
    <3> HIDE DEF G, L, R
    <3>5. Weight(f, T) = f[x] + Weight(f, R)
      BY <3>1, <3>2, <3>3, <3>4
    <3> QED BY <3>5 DEF R
  <2> QED BY <2>1, <2>2
<1> QED BY <1>3, <1>5

Pick(s) == CHOOSE x \in s : TRUE

(* The recursion of MapThenFoldSet, for a sum.                             *)
Adds(g, f, S) ==
  g = [s \in SUBSET S |-> IF s = {} THEN 0 ELSE f[Pick(s)] + g[s \ {Pick(s)}]]

LEMMA SumIsWeight ==
  ASSUME NEW S, IsFiniteSet(S), NEW f \in [S -> Int], NEW T \in SUBSET S
  PROVE  SumFunctionOnSet(f, T) = Weight(f, T)
<1> DEFINE w == [s \in SUBSET T |-> Weight(f, s)]
           g == CHOOSE h : Adds(h, f, T)
<1>1. IsFiniteSet(T)
  BY FS_Subset
<1>2. SumFunctionOnSet(f, T) = g[T]
  BY DEF SumFunctionOnSet, FoldFunctionOnSet, MapThenFoldSet, Adds, Pick
<1>3. Adds(w, f, T)
  <2>1. \A s \in SUBSET T :
          w[s] = IF s = {} THEN 0 ELSE f[Pick(s)] + w[s \ {Pick(s)}]
    <3> TAKE s \in SUBSET T
    <3>1. CASE s = {}
      BY <3>1, WeightStep
    <3>2. CASE s # {}
      <4>1. Pick(s) \in s
        BY <3>2 DEF Pick
      <4>2. Weight(f, s) = f[Pick(s)] + Weight(f, s \ {Pick(s)})
        BY <4>1, WeightStep
      <4> QED BY <3>2, <4>2
    <3> QED BY <3>1, <3>2
  <2> QED BY <2>1 DEF Adds
<1>4. Adds(g, f, T)
  BY <1>3
<1> HIDE DEF g, w
<1> DEFINE C == {s \in SUBSET T : g[s] = w[s]}
<1>5. {} \in C
  BY <1>3, <1>4 DEF Adds
<1>6. ASSUME NEW s \in SUBSET T, s # {}, \A x \in s : s \ {x} \in C PROVE s \in C
  <2>1. Pick(s) \in s
    BY <1>6 DEF Pick
  <2>2. g[s \ {Pick(s)}] = w[s \ {Pick(s)}]
    BY <2>1, <1>6
  <2> QED BY <1>6, <2>2, <1>3, <1>4 DEF Adds
<1>7. SUBSET T \subseteq C
  <2> HIDE DEF C
  <2> QED BY <1>1, <1>5, <1>6, SubsetInduction
<1> QED BY <1>2, <1>7 DEF w

-----------------------------------------------------------------------------

(* A sum over a set is any of its terms and the sum over the others.       *)
LEMMA SumStep ==
  ASSUME NEW S, IsFiniteSet(S), NEW f \in [S -> Int]
  PROVE  /\ SumFunctionOnSet(f, {}) = 0
         /\ SumFunction(f) = SumFunctionOnSet(f, S)
         /\ \A T \in SUBSET S :
              /\ SumFunctionOnSet(f, T) \in Int
              /\ \A x \in T :
                   SumFunctionOnSet(f, T) = f[x] + SumFunctionOnSet(f, T \ {x})
<1>1. \A T \in SUBSET S : SumFunctionOnSet(f, T) = Weight(f, T)
  BY SumIsWeight
<1>2. SumFunctionOnSet(f, {}) = 0
  BY <1>1, WeightStep
<1>3. SumFunction(f) = SumFunctionOnSet(f, S)
  BY DEF SumFunction
<1>4. \A T \in SUBSET S :
        /\ SumFunctionOnSet(f, T) \in Int
        /\ \A x \in T : SumFunctionOnSet(f, T) = f[x] + SumFunctionOnSet(f, T \ {x})
  <2> TAKE T \in SUBSET S
  <2>1. SumFunctionOnSet(f, T) \in Int
    BY <1>1, WeightStep
  <2>2. \A x \in T : SumFunctionOnSet(f, T \ {x}) = Weight(f, T \ {x})
    BY <1>1
  <2>3. \A x \in T : Weight(f, T) = f[x] + Weight(f, T \ {x})
    BY WeightStep
  <2> QED BY <1>1, <2>1, <2>2, <2>3
<1> QED BY <1>2, <1>3, <1>4

(* Terms add up element by element.                                        *)
LEMMA SumPlus ==
  ASSUME NEW S, IsFiniteSet(S), NEW f \in [S -> Int], NEW g \in [S -> Int],
         NEW h \in [S -> Int], NEW T \in SUBSET S, \A x \in T : h[x] = f[x] + g[x]
  PROVE  SumFunctionOnSet(h, T) = SumFunctionOnSet(f, T) + SumFunctionOnSet(g, T)
<1> DEFINE C == {s \in SUBSET T :
                  SumFunctionOnSet(h, s) = SumFunctionOnSet(f, s) + SumFunctionOnSet(g, s)}
<1>1. {} \in C
  BY SumStep
<1>2. ASSUME NEW s \in SUBSET T, s # {}, \A x \in s : s \ {x} \in C PROVE s \in C
  <2>1. PICK x : x \in s
    BY <1>2
  <2> DEFINE r == s \ {x}
  <2>2. /\ SumFunctionOnSet(f, s) = f[x] + SumFunctionOnSet(f, r)
        /\ SumFunctionOnSet(g, s) = g[x] + SumFunctionOnSet(g, r)
        /\ SumFunctionOnSet(h, s) = h[x] + SumFunctionOnSet(h, r)
        /\ SumFunctionOnSet(f, r) \in Int /\ SumFunctionOnSet(g, r) \in Int
    BY <2>1, SumStep
  <2>3. SumFunctionOnSet(h, r) = SumFunctionOnSet(f, r) + SumFunctionOnSet(g, r)
    BY <1>2, <2>1
  <2>4. h[x] = f[x] + g[x] /\ f[x] \in Int /\ g[x] \in Int
    BY <2>1
  <2> HIDE DEF r
  <2> QED BY <2>2, <2>3, <2>4
<1>3. IsFiniteSet(T)
  BY FS_Subset
<1>4. SUBSET T \subseteq C
  <2> HIDE DEF C
  <2> QED BY <1>1, <1>2, <1>3, SubsetInduction
<1> QED BY <1>4

(* A term for each element of A, all of them equal, and none for others.   *)
LEMMA SumOfShares ==
  ASSUME NEW S, IsFiniteSet(S), NEW A \in SUBSET S, NEW c \in Int, NEW f \in [S -> Int],
         \A x \in S : f[x] = IF x \in A THEN c ELSE 0
  PROVE  SumFunction(f) = c * Cardinality(A)
<1> DEFINE C == {s \in SUBSET S : SumFunctionOnSet(f, s) = c * Cardinality(s \cap A)}
<1>1. \A s \in SUBSET S : IsFiniteSet(s \cap A) /\ Cardinality(s \cap A) \in Nat
  BY FS_Subset, FS_CardinalityType
<1>2. {} \in C
  <2>1. {} \cap A = {} /\ Cardinality({}) = 0
    BY FS_EmptySet
  <2> QED BY <2>1, SumStep
<1>3. ASSUME NEW s \in SUBSET S, s # {}, \A x \in s : s \ {x} \in C PROVE s \in C
  <2>1. PICK x : x \in s
    BY <1>3
  <2> DEFINE r == s \ {x}
             n == Cardinality(r \cap A)
  <2>2. SumFunctionOnSet(f, s) = f[x] + SumFunctionOnSet(f, r)
    BY <2>1, SumStep
  <2>3. SumFunctionOnSet(f, r) = c * n /\ n \in Nat /\ IsFiniteSet(r \cap A)
    BY <1>1, <1>3, <2>1
  <2>4. CASE x \in A
    <3>1. s \cap A = (r \cap A) \cup {x} /\ x \notin r \cap A
      BY <2>1, <2>4
    <3>2. Cardinality(s \cap A) = n + 1
      BY <2>3, <3>1, FS_AddElement
    <3>3. f[x] = c
      BY <2>1, <2>4
    <3> HIDE DEF n, r
    <3>4. c + c * n = c * (n + 1)
      BY <2>3
    <3> QED BY <2>2, <2>3, <3>2, <3>3, <3>4
  <2>5. CASE x \notin A
    <3>1. s \cap A = r \cap A
      BY <2>1, <2>5
    <3>2. f[x] = 0
      BY <2>1, <2>5
    <3>3. c * n \in Int
      <4> HIDE DEF n
      <4> QED BY <2>3
    <3>4. SumFunctionOnSet(f, s) = c * n
      <4> HIDE DEF n, r
      <4> QED BY <2>2, <2>3, <3>2, <3>3
    <3> QED BY <3>1, <3>4
  <2> QED BY <2>4, <2>5
<1>4. SUBSET S \subseteq C
  <2> HIDE DEF C
  <2> QED BY <1>2, <1>3, SubsetInduction
<1>5. S \cap A = A /\ SumFunctionOnSet(f, S) = SumFunction(f)
  BY SumStep
<1> QED BY <1>4, <1>5

(* Terms that are the same, or not smaller, give such sums.                *)
LEMMA SumOrder ==
  ASSUME NEW S, IsFiniteSet(S), NEW f \in [S -> Int], NEW g \in [S -> Int],
         NEW T \in SUBSET S, \A x \in T : f[x] <= g[x]
  PROVE  SumFunctionOnSet(f, T) <= SumFunctionOnSet(g, T)
<1> DEFINE C == {s \in SUBSET T : SumFunctionOnSet(f, s) <= SumFunctionOnSet(g, s)}
<1>1. {} \in C
  BY SumStep
<1>2. ASSUME NEW s \in SUBSET T, s # {}, \A x \in s : s \ {x} \in C PROVE s \in C
  <2>1. PICK x : x \in s
    BY <1>2
  <2> DEFINE r == s \ {x}
  <2>2. /\ SumFunctionOnSet(f, s) = f[x] + SumFunctionOnSet(f, r)
        /\ SumFunctionOnSet(g, s) = g[x] + SumFunctionOnSet(g, r)
        /\ SumFunctionOnSet(f, r) \in Int /\ SumFunctionOnSet(g, r) \in Int
    BY <2>1, SumStep
  <2>3. SumFunctionOnSet(f, r) <= SumFunctionOnSet(g, r)
    BY <1>2, <2>1
  <2>4. f[x] <= g[x] /\ f[x] \in Int /\ g[x] \in Int
    BY <2>1
  <2> HIDE DEF r
  <2> QED BY <2>2, <2>3, <2>4
<1>3. IsFiniteSet(T)
  BY FS_Subset
<1>4. SUBSET T \subseteq C
  <2> HIDE DEF C
  <2> QED BY <1>1, <1>2, <1>3, SubsetInduction
<1> QED BY <1>4

LEMMA SameSums ==
  ASSUME NEW S, IsFiniteSet(S), NEW f \in [S -> Int], NEW g \in [S -> Int],
         NEW T \in SUBSET S, \A x \in T : f[x] = g[x]
  PROVE  SumFunctionOnSet(f, T) = SumFunctionOnSet(g, T)
<1>1. \A x \in T : f[x] <= g[x] /\ g[x] <= f[x]
  OBVIOUS
<1>2. SumFunctionOnSet(f, T) \in Int /\ SumFunctionOnSet(g, T) \in Int
  BY SumStep
<1>3. SumFunctionOnSet(f, T) <= SumFunctionOnSet(g, T)
  BY <1>1, SumOrder
<1>4. SumFunctionOnSet(g, T) <= SumFunctionOnSet(f, T)
  BY <1>1, SumOrder
<1> QED BY <1>2, <1>3, <1>4

(* A sum moves by what one of its terms moves.                             *)
LEMMA SumChange ==
  ASSUME NEW S, IsFiniteSet(S), NEW f \in [S -> Int], NEW x \in S, NEW n \in Int
  PROVE  /\ SumFunction(f) \in Int
         /\ SumFunction([f EXCEPT ![x] = n]) = SumFunction(f) - f[x] + n
<1> DEFINE g == [f EXCEPT ![x] = n]
<1>1. g \in [S -> Int] /\ g[x] = n /\ \A y \in S \ {x} : g[y] = f[y]
  OBVIOUS
<1> HIDE DEF g
<1>2. SumFunctionOnSet(g, S \ {x}) = SumFunctionOnSet(f, S \ {x})
  BY <1>1, SameSums
<1>3. /\ SumFunction(f) = f[x] + SumFunctionOnSet(f, S \ {x})
      /\ SumFunctionOnSet(f, S \ {x}) \in Int
      /\ SumFunction(f) \in Int
  BY SumStep
<1>4. SumFunction(g) = n + SumFunctionOnSet(g, S \ {x})
  BY <1>1, SumStep
<1> QED BY <1>2, <1>3, <1>4 DEF g

(* A sum of natural numbers is one, and none of its terms is greater.      *)
LEMMA SumOfNaturals ==
  ASSUME NEW S, IsFiniteSet(S), NEW f \in [S -> Nat]
  PROVE  /\ SumFunction(f) \in Nat
         /\ \A x \in S : f[x] <= SumFunction(f)
<1>1. f \in [S -> Int]
  OBVIOUS
<1> DEFINE C == {s \in SUBSET S : 0 <= SumFunctionOnSet(f, s)}
<1>2. {} \in C
  BY <1>1, SumStep
<1>3. ASSUME NEW s \in SUBSET S, s # {}, \A x \in s : s \ {x} \in C PROVE s \in C
  <2>1. PICK x : x \in s
    BY <1>3
  <2> DEFINE r == s \ {x}
  <2>2. /\ SumFunctionOnSet(f, s) = f[x] + SumFunctionOnSet(f, r)
        /\ SumFunctionOnSet(f, r) \in Int
    BY <1>1, <2>1, SumStep
  <2>3. 0 <= SumFunctionOnSet(f, r) /\ f[x] \in Nat
    BY <1>3, <2>1
  <2> HIDE DEF r
  <2> QED BY <2>2, <2>3
<1>6. \A T \in SUBSET S : 0 <= SumFunctionOnSet(f, T)
  <2>1. SUBSET S \subseteq C
    <3> HIDE DEF C
    <3> QED BY <1>2, <1>3, SubsetInduction
  <2> QED BY <2>1
<1>4. SumFunction(f) \in Nat
  <2>1. SumFunction(f) \in Int /\ SumFunction(f) = SumFunctionOnSet(f, S)
    BY <1>1, SumStep
  <2> QED BY <1>6, <2>1
<1>5. ASSUME NEW x \in S PROVE f[x] <= SumFunction(f)
  <2>1. /\ SumFunction(f) = f[x] + SumFunctionOnSet(f, S \ {x})
        /\ SumFunctionOnSet(f, S \ {x}) \in Int
    BY <1>1, SumStep
  <2>2. 0 <= SumFunctionOnSet(f, S \ {x})
    BY <1>6
  <2> QED BY <2>1, <2>2, <1>4
<1> QED BY <1>4, <1>5

(* A sum of natural numbers over a part of a set is one.                   *)
LEMMA SumIsNatural ==
  ASSUME NEW S, IsFiniteSet(S), NEW f \in [S -> Int], \A x \in S : f[x] \in Nat,
         NEW T \in SUBSET S
  PROVE  SumFunctionOnSet(f, T) \in Nat
<1> DEFINE z == [x \in S |-> 0]
<1>1. z \in [S -> Int] /\ \A x \in T : z[x] <= f[x]
  OBVIOUS
<1>2. SumFunctionOnSet(z, T) <= SumFunctionOnSet(f, T)
  <2> HIDE DEF z
  <2> QED BY <1>1, SumOrder
<1>3. SumFunctionOnSet(z, T) = 0
  <2> DEFINE C == {s \in SUBSET S : SumFunctionOnSet(z, s) = 0}
  <2>1. {} \in C
    BY <1>1, SumStep
  <2>2. ASSUME NEW s \in SUBSET S, s # {}, \A x \in s : s \ {x} \in C PROVE s \in C
    <3>1. PICK x : x \in s
      BY <2>2
    <3>2. SumFunctionOnSet(z, s \ {x}) = 0 /\ z[x] = 0
      BY <2>2, <3>1
    <3> HIDE DEF z
    <3>3. SumFunctionOnSet(z, s) = z[x] + SumFunctionOnSet(z, s \ {x})
      BY <1>1, <3>1, SumStep
    <3> QED BY <3>2, <3>3
  <2>3. SUBSET S \subseteq C
    <3> HIDE DEF C
    <3> QED BY <2>1, <2>2, SubsetInduction
  <2> QED BY <2>3
<1>4. SumFunctionOnSet(f, T) \in Int
  BY SumStep
<1> HIDE DEF z
<1> QED BY <1>2, <1>3, <1>4

(* The terms over a part of a set are a function of their own.             *)
LEMMA SumOfPart ==
  ASSUME NEW S, IsFiniteSet(S), NEW f \in [S -> Int], NEW T \in SUBSET S,
         NEW g \in [T -> Int], \A x \in T : g[x] = f[x]
  PROVE  SumFunctionOnSet(f, T) = SumFunction(g)
<1> DEFINE C == {s \in SUBSET T : SumFunctionOnSet(f, s) = SumFunctionOnSet(g, s)}
<1>1. IsFiniteSet(T)
  BY FS_Subset
<1>2. {} \in C
  BY <1>1, SumStep
<1>3. ASSUME NEW s \in SUBSET T, s # {}, \A x \in s : s \ {x} \in C PROVE s \in C
  <2>1. PICK x : x \in s
    BY <1>3
  <2> DEFINE r == s \ {x}
  <2>2. SumFunctionOnSet(f, s) = f[x] + SumFunctionOnSet(f, r)
    BY <2>1, SumStep
  <2>3. SumFunctionOnSet(g, s) = g[x] + SumFunctionOnSet(g, r)
    BY <1>1, <2>1, SumStep
  <2>4. SumFunctionOnSet(f, r) = SumFunctionOnSet(g, r) /\ g[x] = f[x]
    BY <1>3, <2>1
  <2> HIDE DEF r
  <2> QED BY <2>2, <2>3, <2>4
<1>4. SUBSET T \subseteq C
  <2> HIDE DEF C
  <2> QED BY <1>1, <1>2, <1>3, SubsetInduction
<1> QED BY <1>1, <1>4, SumStep

(* Terms that are zero do not count.                                       *)
LEMMA SumOfSupport ==
  ASSUME NEW S, IsFiniteSet(S), NEW f \in [S -> Int], NEW T \in SUBSET S,
         \A x \in S \ T : f[x] = 0
  PROVE  SumFunction(f) = SumFunctionOnSet(f, T)
<1> DEFINE C == {s \in SUBSET S : SumFunctionOnSet(f, s) = SumFunctionOnSet(f, s \cap T)}
<1>1. {} \in C
  <2>1. {} \cap T = {}
    OBVIOUS
  <2> QED BY <2>1
<1>2. ASSUME NEW s \in SUBSET S, s # {}, \A x \in s : s \ {x} \in C PROVE s \in C
  <2>1. PICK x : x \in s
    BY <1>2
  <2> DEFINE r == s \ {x}
  <2>2. /\ SumFunctionOnSet(f, s) = f[x] + SumFunctionOnSet(f, r)
        /\ SumFunctionOnSet(f, r) \in Int
    BY <2>1, SumStep
  <2>3. SumFunctionOnSet(f, r) = SumFunctionOnSet(f, r \cap T)
    BY <1>2, <2>1
  <2>4. CASE x \in T
    <3>1. x \in s \cap T /\ (s \cap T) \ {x} = r \cap T /\ s \cap T \in SUBSET S
      BY <2>1, <2>4
    <3> HIDE DEF r
    <3>2. SumFunctionOnSet(f, s \cap T) = f[x] + SumFunctionOnSet(f, (s \cap T) \ {x})
      BY <3>1, SumStep
    <3>3. SumFunctionOnSet(f, s) = SumFunctionOnSet(f, s \cap T)
      BY <2>2, <2>3, <3>1, <3>2
    <3> QED BY <3>3
  <2>5. CASE x \notin T
    <3>1. s \cap T = r \cap T /\ f[x] = 0
      BY <2>1, <2>5
    <3> HIDE DEF r
    <3>2. SumFunctionOnSet(f, s) = SumFunctionOnSet(f, r)
      BY <2>2, <3>1
    <3>3. SumFunctionOnSet(f, s) = SumFunctionOnSet(f, s \cap T)
      BY <2>3, <3>1, <3>2, Zenon
    <3> QED BY <3>3
  <2> QED BY <2>4, <2>5
<1>3. SUBSET S \subseteq C
  <2> HIDE DEF C
  <2> QED BY <1>1, <1>2, SubsetInduction
<1>4. S \cap T = T
  OBVIOUS
<1> QED BY <1>3, <1>4, SumStep

(* A sum of multiples is the multiple of the sum.                          *)
LEMMA SumOfMultiples ==
  ASSUME NEW S, IsFiniteSet(S), NEW c \in Int, NEW f \in [S -> Int], NEW g \in [S -> Int],
         \A x \in S : g[x] = c * f[x]
  PROVE  SumFunction(g) = c * SumFunction(f)
<1> DEFINE C == {s \in SUBSET S : SumFunctionOnSet(g, s) = c * SumFunctionOnSet(f, s)}
<1>1. {} \in C
  <2>1. SumFunctionOnSet(g, {}) = 0 /\ SumFunctionOnSet(f, {}) = 0
    BY SumStep
  <2> QED BY <2>1
<1>2. ASSUME NEW s \in SUBSET S, s # {}, \A x \in s : s \ {x} \in C PROVE s \in C
  <2>1. PICK x : x \in s
    BY <1>2
  <2> DEFINE r == s \ {x}
             F == SumFunctionOnSet(f, r)
  <2>2. SumFunctionOnSet(f, s) = f[x] + F /\ F \in Int
    <3>1. s \ {x} \in SUBSET S
      OBVIOUS
    <3> QED BY <2>1, <3>1, SumStep
  <2>3. SumFunctionOnSet(g, s) = g[x] + SumFunctionOnSet(g, r)
    BY <2>1, SumStep
  <2>4. SumFunctionOnSet(g, r) = c * F
    BY <1>2, <2>1
  <2>5. g[x] = c * f[x] /\ f[x] \in Int
    BY <2>1
  <2> HIDE DEF r, F
  <2>6. c * (f[x] + F) = c * f[x] + c * F
    BY <2>2, <2>5
  <2> QED BY <2>2, <2>3, <2>4, <2>5, <2>6
<1>3. SUBSET S \subseteq C
  <2> HIDE DEF C
  <2> QED BY <1>1, <1>2, SubsetInduction
<1> QED BY <1>3, SumStep

(* The sums of the first terms, one after the other.                       *)
PartialSums(P, w, lo, hi) ==
  /\ P \in [lo..hi + 1 -> Int] /\ P[lo] = 0
  /\ \A k \in lo..hi : P[k + 1] = P[k] + w[k]

LEMMA PrefixSums ==
  ASSUME NEW lo \in Int, NEW hi \in Int, lo <= hi + 1, NEW w \in [lo..hi -> Int]
  PROVE  \E P : PartialSums(P, w, lo, hi) /\ P[hi + 1] = SumFunction(w)
<1> DEFINE P == [k \in lo..hi + 1 |-> SumFunctionOnSet(w, lo..k - 1)]
<1>1. IsFiniteSet(lo..hi)
  BY FS_Interval
<1>2. \A k \in lo..hi + 1 : lo..k - 1 \in SUBSET (lo..hi)
  OBVIOUS
<1>3. P \in [lo..hi + 1 -> Int]
  BY <1>1, <1>2, SumStep
<1>4. P[lo] = 0
  <2>1. lo..lo - 1 = {} /\ lo \in lo..hi + 1
    OBVIOUS
  <2>2. P[lo] = SumFunctionOnSet(w, {})
    BY <2>1
  <2> QED BY <1>1, <2>2, SumStep
<1>5. ASSUME NEW k \in lo..hi PROVE P[k + 1] = P[k] + w[k]
  <2>1. PICK S, T, R : S = lo..hi /\ T = lo..(k + 1) - 1 /\ R = lo..k - 1
    OBVIOUS
  <2>2. /\ T \in SUBSET S /\ k \in T /\ T \ {k} = R
        /\ k + 1 \in lo..hi + 1 /\ k \in lo..hi + 1
    BY <2>1
  <2>3. SumFunctionOnSet(w, T) = w[k] + SumFunctionOnSet(w, R)
    <3>1. IsFiniteSet(S) /\ w \in [S -> Int]
      BY <1>1, <2>1
    <3>2. SumFunctionOnSet(w, T) = w[k] + SumFunctionOnSet(w, T \ {k})
      <4>1. PICK f, x : f = w /\ x = k
        OBVIOUS
      <4>2. IsFiniteSet(S) /\ f \in [S -> Int] /\ T \in SUBSET S /\ x \in T
        BY <2>2, <3>1, <4>1
      <4>3. SumFunctionOnSet(f, T) = f[x] + SumFunctionOnSet(f, T \ {x})
        BY <4>2, SumStep
      <4> QED BY <4>1, <4>3
    <3> QED BY <2>2, <3>2
  <2>4. P[k + 1] = SumFunctionOnSet(w, T) /\ P[k] = SumFunctionOnSet(w, R)
    BY <2>1, <2>2
  <2>5. P[k] \in Int /\ w[k] \in Int
    BY <1>3, <2>2
  <2> HIDE DEF P
  <2> QED BY <2>3, <2>4, <2>5
<1>6. P[hi + 1] = SumFunction(w)
  <2>1. lo..(hi + 1) - 1 = lo..hi /\ hi + 1 \in lo..hi + 1
    OBVIOUS
  <2>2. P[hi + 1] = SumFunctionOnSet(w, lo..hi)
    BY <2>1
  <2> QED BY <1>1, <2>2, SumStep
<1> HIDE DEF P
<1> QED BY <1>3, <1>4, <1>5, <1>6 DEF PartialSums

Equal(w, from, to, c) == \A k \in from..to - 1 : w[k] = c

(* A run of equal terms adds a multiple.                                   *)
LEMMA RunOfTerms ==
  ASSUME NEW lo \in Int, NEW hi \in Int, NEW w, NEW P, PartialSums(P, w, lo, hi),
         NEW from \in lo..hi + 1, NEW to \in lo..hi + 1, from <= to, NEW c \in Int,
         Equal(w, from, to, c)
  PROVE  P[to] = P[from] + c * (to - from)
<1> DEFINE C == {n \in Nat : from + n <= to => P[from + n] = P[from] + c * n}
<1>1. 0 \in C
  <2>1. P[from] \in Int /\ from + 0 = from /\ c * 0 = 0
    BY DEF PartialSums
  <2> QED BY <2>1
<1>2. ASSUME NEW n \in Nat, n \in C PROVE n + 1 \in C
  <2> SUFFICES ASSUME from + (n + 1) <= to PROVE P[from + (n + 1)] = P[from] + c * (n + 1)
    OBVIOUS
  <2>1. PICK k \in Int : k = from + n
    OBVIOUS
  <2>2. k \in lo..hi /\ k \in from..to - 1 /\ from + (n + 1) = k + 1
    BY <2>1
  <2>3. P[k + 1] = P[k] + c
    BY <2>2 DEF PartialSums, Equal
  <2>4. P[k] = P[from] + c * n
    BY <1>2, <2>1
  <2>5. P[from] \in Int /\ c * n \in Int
    BY DEF PartialSums
  <2>6. c * (n + 1) = c * n + c
    OBVIOUS
  <2> QED BY <2>2, <2>3, <2>4, <2>5, <2>6
<1>3. Nat \subseteq C
  <2> HIDE DEF C
  <2> QED BY <1>1, <1>2, Induction
<1>4. to - from \in Nat /\ from + (to - from) = to
  OBVIOUS
<1> QED BY <1>3, <1>4
=============================================================================
