-------------------------- MODULE SumFunctionFacts --------------------------
(***************************************************************************)
(* What SumFunction of the community module Functions computes.  The sum   *)
(* is a fold: a function iter over the subsets of the domain, defined by   *)
(* recursion on an element CHOOSEn from each subset.  tlapm reads such a   *)
(* definition as CHOOSE iter : iter = [s \in SUBSET S |-> ...], so the     *)
(* lemmas first show that a function satisfying the equation exists, and  *)
(* then derive the facts the ledger's supply needs.  Every induction is a  *)
(* least counterexample on a cardinality, by WFMin on the naturals.        *)
(***************************************************************************)
EXTENDS Integers, Functions, FiniteSetTheorems, WellFoundedInduction, TLAPS

(* The element the fold takes out of a non-empty set.                      *)
Ch(s) == CHOOSE x \in s : TRUE

(* One unfolding of the fold of fun over s, given the folds of subsets.    *)
Step(fun, g, s) == IF s = {} THEN 0 ELSE fun[Ch(s)] + g[s \ {Ch(s)}]

(* The equation that defines iter in MapThenFoldSet, for the sum.          *)
IterBody(fun, g, S) == [s \in SUBSET S |-> Step(fun, g, s)]

(* The fold's iter for the sum of fun over S.                              *)
Iter(fun, S) == CHOOSE g : g = IterBody(fun, g, S)

(* SumFunctionOnSet is iter at the whole set.                              *)
LEMMA SumIsIter ==
    ASSUME NEW fun, NEW S
    PROVE  SumFunctionOnSet(fun, S) = Iter(fun, S)[S]
BY DEF SumFunctionOnSet, FoldFunctionOnSet, MapThenFoldSet, Iter, IterBody,
       Step, Ch

(* Every non-empty set of naturals has a least element.                    *)
LEMMA LeastNat ==
    ASSUME NEW T \in SUBSET Nat, T # {}
    PROVE  \E n \in T : \A m \in T : n <= m
<1>1. PICK n \in T : \A m \in T : ~(<<m, n>> \in OpToRel(<, Nat))
  BY WFMin, NatLessThanWellFounded
<1>2. \A m \in T : ~(m < n)
  BY <1>1 DEF OpToRel
<1> QED
  BY <1>2

(* The subsets of S with at most k elements.                               *)
Layer(S, k) == {s \in SUBSET S : Cardinality(s) <= k}

(* Facts about taking the chosen element out of a non-empty finite set.    *)
LEMMA ChFacts ==
    ASSUME NEW s, IsFiniteSet(s), s # {}
    PROVE  /\ Ch(s) \in s
           /\ IsFiniteSet(s \ {Ch(s)})
           /\ Cardinality(s) \in Nat \ {0}
           /\ Cardinality(s \ {Ch(s)}) = Cardinality(s) - 1
<1>1. Ch(s) \in s
  BY DEF Ch
<1>2. Cardinality(s) \in Nat /\ Cardinality(s) # 0
  BY FS_CardinalityType, FS_EmptySet
<1> QED
  BY <1>1, <1>2, FS_RemoveElement

(* The fold's equation, restricted to the subsets of at most k elements,  *)
(* has a solution.                                                         *)
HasLayer(fun, S, k) == \E g : g = [s \in Layer(S, k) |-> Step(fun, g, s)]

(* The fold's equation restricted to the subsets of at most k elements    *)
(* has a solution, for every k: the solution for k is extended to the     *)
(* subsets of k + 1 elements by one unfolding.                             *)
LEMMA LayerExists ==
    ASSUME NEW fun, NEW S, IsFiniteSet(S), NEW k \in Nat
    PROVE  HasLayer(fun, S, k)
<1> DEFINE Bad == {n \in Nat : ~HasLayer(fun, S, n)}
<1> SUFFICES Bad = {}
  OBVIOUS
<1> USE DEF Layer
<1>1. \A s \in SUBSET S : IsFiniteSet(s) /\ Cardinality(s) \in Nat
  BY FS_Subset, FS_CardinalityType
<1>2. HasLayer(fun, S, 0)
  <2> DEFINE g0 == [s \in Layer(S, 0) |-> 0]
  <2>1. \A s \in Layer(S, 0) : s = {}
    BY <1>1, FS_EmptySet
  <2>2. g0 = [s \in Layer(S, 0) |-> Step(fun, g0, s)]
    BY <2>1 DEF Step
  <2> QED
    BY <2>2 DEF HasLayer
<1>3. ASSUME NEW n \in Nat, HasLayer(fun, S, n)
      PROVE  HasLayer(fun, S, n + 1)
  <2>1. PICK g : g = [s \in Layer(S, n) |-> Step(fun, g, s)]
    BY <1>3 DEF HasLayer
  <2> DEFINE h == [s \in Layer(S, n + 1) |->
                     IF Cardinality(s) <= n THEN g[s]
                     ELSE fun[Ch(s)] + g[s \ {Ch(s)}]]
  <2>2. ASSUME NEW s \in Layer(S, n + 1), s # {}
        PROVE  /\ s \ {Ch(s)} \in Layer(S, n)
               /\ s \ {Ch(s)} \in Layer(S, n + 1)
               /\ Cardinality(s \ {Ch(s)}) <= n
    BY <1>1, <2>2, ChFacts
  <2>3. ASSUME NEW s \in Layer(S, n + 1) PROVE h[s] = Step(fun, h, s)
    <3>1. CASE s = {}
      <4>1. Cardinality(s) <= n /\ s \in Layer(S, n)
        BY <3>1, FS_EmptySet
      <4> QED
        BY <2>1, <3>1, <4>1 DEF Step
    <3>2. CASE s # {} /\ Cardinality(s) <= n
      <4>1. s \in Layer(S, n)
        BY <3>2
      <4>2. h[s \ {Ch(s)}] = g[s \ {Ch(s)}]
        BY <2>2, <3>2
      <4> QED
        BY <2>1, <3>2, <4>1, <4>2 DEF Step
    <3>3. CASE s # {} /\ ~(Cardinality(s) <= n)
      <4>1. h[s \ {Ch(s)}] = g[s \ {Ch(s)}]
        BY <2>2, <3>3
      <4> QED
        BY <3>3, <4>1 DEF Step
    <3> QED
      BY <3>1, <3>2, <3>3
  <2>4. h = [s \in Layer(S, n + 1) |-> Step(fun, h, s)]
    BY <2>3
  <2> QED
    BY <2>4 DEF HasLayer
<1>4. ASSUME Bad # {} PROVE FALSE
  <2>1. PICK n \in Bad : \A m \in Bad : n <= m
    BY <1>4, LeastNat
  <2>2. n # 0
    BY <1>2, <2>1
  <2>3. n - 1 \in Nat /\ n - 1 \notin Bad
    BY <2>1, <2>2
  <2>4. HasLayer(fun, S, n - 1 + 1)
    BY <1>3, <2>3
  <2> QED
    BY <2>1, <2>4
<1> QED
  BY <1>4

(* The fold's iter satisfies its defining equation on every finite set.   *)
LEMMA IterEq ==
    ASSUME NEW fun, NEW S, IsFiniteSet(S)
    PROVE  Iter(fun, S) = IterBody(fun, Iter(fun, S), S)
<1>1. Cardinality(S) \in Nat
  BY FS_CardinalityType
<1>2. Layer(S, Cardinality(S)) = SUBSET S
  BY FS_Subset DEF Layer
<1>3. PICK g : g = [s \in Layer(S, Cardinality(S)) |-> Step(fun, g, s)]
  BY <1>1, LayerExists DEF HasLayer
<1>4. g = IterBody(fun, g, S)
  BY <1>2, <1>3 DEF IterBody
<1> QED
  BY <1>4 DEF Iter

(* The folds over two sets agree on their common subsets.                  *)
Disagree(fun, A, B, n) ==
    \E s \in SUBSET (A \cap B) :
        Cardinality(s) = n /\ Iter(fun, A)[s] # Iter(fun, B)[s]

LEMMA IterAgree ==
    ASSUME NEW fun, NEW A, NEW B, IsFiniteSet(A), IsFiniteSet(B),
           NEW s \in SUBSET (A \cap B)
    PROVE  Iter(fun, A)[s] = Iter(fun, B)[s]
<1> DEFINE Bad == {n \in Nat : Disagree(fun, A, B, n)}
<1>0. /\ Iter(fun, A) = IterBody(fun, Iter(fun, A), A)
      /\ Iter(fun, B) = IterBody(fun, Iter(fun, B), B)
  BY IterEq
<1>1. \A t \in SUBSET (A \cap B) : IsFiniteSet(t) /\ Cardinality(t) \in Nat
  BY FS_Subset, FS_CardinalityType
<1>2. ASSUME Bad # {} PROVE FALSE
  <2>1. PICK n \in Bad : \A m \in Bad : n <= m
    BY <1>2, LeastNat
  <2>2. PICK t \in SUBSET (A \cap B) :
          Cardinality(t) = n /\ Iter(fun, A)[t] # Iter(fun, B)[t]
    BY <2>1 DEF Disagree
  <2>3. CASE t = {}
    BY <1>0, <2>2, <2>3 DEF IterBody, Step
  <2>4. CASE t # {}
    <3> DEFINE u == t \ {Ch(t)}
    <3>1. u \in SUBSET (A \cap B) /\ Cardinality(u) = n - 1 /\ n - 1 \in Nat
      BY <1>1, <2>2, <2>4, ChFacts
    <3>2. n - 1 \notin Bad
      BY <2>1, <3>1
    <3>3. Iter(fun, A)[u] = Iter(fun, B)[u]
      BY <3>1, <3>2 DEF Disagree
    <3>4. /\ Iter(fun, A)[t] = fun[Ch(t)] + Iter(fun, A)[u]
          /\ Iter(fun, B)[t] = fun[Ch(t)] + Iter(fun, B)[u]
      BY <1>0, <2>4 DEF IterBody, Step
    <3> QED
      BY <2>2, <3>3, <3>4
  <2> QED
    BY <2>3, <2>4
<1> QED
  BY <1>1, <1>2 DEF Disagree

(* The sum over the empty set is 0.                                        *)
LEMMA SumEmpty ==
    ASSUME NEW fun
    PROVE  SumFunctionOnSet(fun, {}) = 0
<1>1. Iter(fun, {}) = IterBody(fun, Iter(fun, {}), {})
  BY IterEq, FS_EmptySet
<1> QED
  BY <1>1, SumIsIter DEF IterBody, Step

(* The sum over a non-empty finite set unfolds at the chosen element.      *)
LEMMA SumUnfold ==
    ASSUME NEW fun, NEW S, IsFiniteSet(S), S # {}
    PROVE  SumFunctionOnSet(fun, S) =
             fun[Ch(S)] + SumFunctionOnSet(fun, S \ {Ch(S)})
<1> DEFINE u == S \ {Ch(S)}
<1>1. IsFiniteSet(u)
  BY ChFacts
<1>2. Iter(fun, S)[S] = fun[Ch(S)] + Iter(fun, S)[u]
  <2>0. Iter(fun, S) = IterBody(fun, Iter(fun, S), S)
    BY IterEq
  <2>1. Iter(fun, S)[S] = Step(fun, Iter(fun, S), S)
    BY <2>0 DEF IterBody
  <2> QED
    BY <2>1 DEF Step
<1>3. Iter(fun, S)[u] = Iter(fun, u)[u]
  BY <1>1, IterAgree
<1> QED
  BY <1>2, <1>3, SumIsIter

-----------------------------------------------------------------------------
(* The sum of the values of fun on the indices S.                          *)
SumOn(fun, S) == SumFunctionOnSet(fun, S)

(* The subsets of S of n elements on which a fact about the sum fails are *)
(* the counterexamples of the inductions below.                            *)
SumNotIn(f, S, T, n) ==
    \E s \in SUBSET S : Cardinality(s) = n /\ SumOn(f, s) \notin T

(* A sum of integers is an integer, and a sum of naturals a natural.       *)
LEMMA SumType ==
    ASSUME NEW f, NEW S, IsFiniteSet(S), NEW T \in {Int, Nat},
           \A x \in S : f[x] \in T
    PROVE  SumOn(f, S) \in T
<1> DEFINE Bad == {n \in Nat : SumNotIn(f, S, T, n)}
<1>1. \A t \in SUBSET S : IsFiniteSet(t) /\ Cardinality(t) \in Nat
  BY FS_Subset, FS_CardinalityType
<1>2. ASSUME Bad # {} PROVE FALSE
  <2>1. PICK n \in Bad : \A m \in Bad : n <= m
    BY <1>2, LeastNat
  <2>2. PICK t \in SUBSET S : Cardinality(t) = n /\ SumOn(f, t) \notin T
    BY <2>1 DEF SumNotIn
  <2>3. t # {}
    BY <2>2, SumEmpty DEF SumOn
  <2> DEFINE u == t \ {Ch(t)}
  <2>4. u \in SUBSET S /\ Cardinality(u) = n - 1 /\ n - 1 \in Nat /\ Ch(t) \in S
    BY <1>1, <2>2, <2>3, ChFacts
  <2>5. SumOn(f, u) \in T
    BY <2>1, <2>4 DEF SumNotIn
  <2>6. SumOn(f, t) = f[Ch(t)] + SumOn(f, u)
    BY <1>1, <2>3, SumUnfold DEF SumOn
  <2> QED
    BY <2>2, <2>4, <2>5, <2>6
<1> QED
  BY <1>1, <1>2 DEF SumNotIn

(* The sum depends only on the values on the indices summed.               *)
SumDiffers(f, g, S, n) ==
    \E s \in SUBSET S : Cardinality(s) = n /\ SumOn(f, s) # SumOn(g, s)

LEMMA SumCongruent ==
    ASSUME NEW f, NEW g, NEW S, IsFiniteSet(S), \A x \in S : f[x] = g[x]
    PROVE  SumOn(f, S) = SumOn(g, S)
<1> DEFINE Bad == {n \in Nat : SumDiffers(f, g, S, n)}
<1>1. \A t \in SUBSET S : IsFiniteSet(t) /\ Cardinality(t) \in Nat
  BY FS_Subset, FS_CardinalityType
<1>2. ASSUME Bad # {} PROVE FALSE
  <2>1. PICK n \in Bad : \A m \in Bad : n <= m
    BY <1>2, LeastNat
  <2>2. PICK t \in SUBSET S : Cardinality(t) = n /\ SumOn(f, t) # SumOn(g, t)
    BY <2>1 DEF SumDiffers
  <2>3. t # {}
    BY <2>2, SumEmpty DEF SumOn
  <2> DEFINE u == t \ {Ch(t)}
  <2>4. u \in SUBSET S /\ Cardinality(u) = n - 1 /\ n - 1 \in Nat /\ Ch(t) \in S
    BY <1>1, <2>2, <2>3, ChFacts
  <2>5. SumOn(f, u) = SumOn(g, u)
    BY <2>1, <2>4 DEF SumDiffers
  <2>6. /\ SumOn(f, t) = f[Ch(t)] + SumOn(f, u)
        /\ SumOn(g, t) = g[Ch(t)] + SumOn(g, u)
    BY <1>1, <2>3, SumUnfold DEF SumOn
  <2> QED
    BY <2>2, <2>4, <2>5, <2>6
<1> QED
  BY <1>1, <1>2 DEF SumDiffers

(* The sum of pointwise sums is the sum of the sums.                       *)
NotLinear(f, g, h, S, n) ==
    \E s \in SUBSET S :
        Cardinality(s) = n /\ SumOn(h, s) # SumOn(f, s) + SumOn(g, s)

LEMMA SumLinear ==
    ASSUME NEW f, NEW g, NEW h, NEW S, IsFiniteSet(S),
           \A x \in S : f[x] \in Int /\ g[x] \in Int /\ h[x] = f[x] + g[x]
    PROVE  SumOn(h, S) = SumOn(f, S) + SumOn(g, S)
<1> DEFINE Bad == {n \in Nat : NotLinear(f, g, h, S, n)}
<1>1. \A t \in SUBSET S : IsFiniteSet(t) /\ Cardinality(t) \in Nat
  BY FS_Subset, FS_CardinalityType
<1>2. ASSUME Bad # {} PROVE FALSE
  <2>1. PICK n \in Bad : \A m \in Bad : n <= m
    BY <1>2, LeastNat
  <2>2. PICK t \in SUBSET S :
          Cardinality(t) = n /\ SumOn(h, t) # SumOn(f, t) + SumOn(g, t)
    BY <2>1 DEF NotLinear
  <2>3. t # {}
    BY <2>2, SumEmpty DEF SumOn
  <2> DEFINE u == t \ {Ch(t)}
  <2>4. u \in SUBSET S /\ Cardinality(u) = n - 1 /\ n - 1 \in Nat /\ Ch(t) \in S
    BY <1>1, <2>2, <2>3, ChFacts
  <2>5. SumOn(h, u) = SumOn(f, u) + SumOn(g, u)
    BY <2>1, <2>4 DEF NotLinear
  <2>6. SumOn(f, u) \in Int /\ SumOn(g, u) \in Int
    BY <1>1, <2>4, SumType
  <2>7. /\ SumOn(f, t) = f[Ch(t)] + SumOn(f, u)
        /\ SumOn(g, t) = g[Ch(t)] + SumOn(g, u)
        /\ SumOn(h, t) = h[Ch(t)] + SumOn(h, u)
    BY <1>1, <2>3, SumUnfold DEF SumOn
  <2> QED
    BY <2>2, <2>4, <2>5, <2>6, <2>7
<1> QED
  BY <1>1, <1>2 DEF NotLinear

(* The sum unfolds at any element, not only at the one CHOOSE picks: +    *)
(* is associative and commutative.                                         *)
NotRemovable(f, S, n) ==
    \E s \in SUBSET S, y \in S :
        /\ y \in s /\ Cardinality(s) = n
        /\ SumOn(f, s) # f[y] + SumOn(f, s \ {y})

LEMMA SumRemove ==
    ASSUME NEW f, NEW S, IsFiniteSet(S), \A x \in S : f[x] \in Int,
           NEW y \in S
    PROVE  SumOn(f, S) = f[y] + SumOn(f, S \ {y})
<1> DEFINE Bad == {n \in Nat : NotRemovable(f, S, n)}
<1>1. \A t \in SUBSET S : IsFiniteSet(t) /\ Cardinality(t) \in Nat
  BY FS_Subset, FS_CardinalityType
<1>2. ASSUME Bad # {} PROVE FALSE
  <2>1. PICK n \in Bad : \A m \in Bad : n <= m
    BY <1>2, LeastNat
  <2>2. PICK t \in SUBSET S, z \in S :
          /\ z \in t /\ Cardinality(t) = n
          /\ SumOn(f, t) # f[z] + SumOn(f, t \ {z})
    BY <2>1 DEF NotRemovable
  <2> DEFINE c == Ch(t)
  <2>3. t # {} /\ c \in t /\ Cardinality(t \ {c}) = n - 1 /\ n - 1 \in Nat
    BY <1>1, <2>2, ChFacts
  <2>4. SumOn(f, t) = f[c] + SumOn(f, t \ {c})
    BY <1>1, <2>3, SumUnfold DEF SumOn
  <2>5. c # z
    BY <2>2, <2>4
  <2>6. /\ t \ {c} \in SUBSET S /\ z \in t \ {c}
        /\ t \ {z} \in SUBSET S /\ c \in t \ {z}
        /\ Cardinality(t \ {z}) = n - 1
        /\ (t \ {c}) \ {z} = (t \ {z}) \ {c}
    BY <1>1, <2>2, <2>3, <2>5, FS_RemoveElement
  <2>7. n - 1 \notin Bad
    BY <2>1, <2>3
  <2>8. /\ SumOn(f, t \ {c}) = f[z] + SumOn(f, (t \ {c}) \ {z})
        /\ SumOn(f, t \ {z}) = f[c] + SumOn(f, (t \ {z}) \ {c})
    BY <2>3, <2>6, <2>7 DEF NotRemovable
  <2>9. SumOn(f, (t \ {z}) \ {c}) \in Int /\ f[c] \in Int /\ f[z] \in Int
    BY <1>1, <2>6, SumType
  <2>10. SumOn(f, (t \ {c}) \ {z}) = SumOn(f, (t \ {z}) \ {c})
    BY <2>6
  <2> QED
    BY <2>2, <2>4, <2>8, <2>9, <2>10
<1> QED
  BY <1>1, <1>2 DEF NotRemovable

(* A function that is zero outside D sums, over a superset A of D, to its *)
(* sum over D.                                                             *)
NotZeroExt(h, d, D, A, n) ==
    \E s \in SUBSET A :
        Cardinality(s) = n /\ SumOn(h, s) # SumOn(d, s \cap D)

LEMMA SumZeroOutside ==
    ASSUME NEW A, IsFiniteSet(A), NEW D \in SUBSET A, NEW d, NEW h,
           \A x \in D : d[x] \in Int,
           \A x \in A : h[x] = IF x \in D THEN d[x] ELSE 0
    PROVE  SumOn(h, A) = SumOn(d, D)
<1> DEFINE Bad == {n \in Nat : NotZeroExt(h, d, D, A, n)}
<1>1. \A t \in SUBSET A : IsFiniteSet(t) /\ Cardinality(t) \in Nat
  BY FS_Subset, FS_CardinalityType
<1>2. ASSUME Bad # {} PROVE FALSE
  <2>1. PICK n \in Bad : \A m \in Bad : n <= m
    BY <1>2, LeastNat
  <2>2. PICK t \in SUBSET A :
          Cardinality(t) = n /\ SumOn(h, t) # SumOn(d, t \cap D)
    BY <2>1 DEF NotZeroExt
  <2>3. t # {}
    BY <2>2, SumEmpty DEF SumOn
  <2> DEFINE c == Ch(t)
  <2> DEFINE u == t \ {c}
  <2>4. u \in SUBSET A /\ Cardinality(u) = n - 1 /\ n - 1 \in Nat /\ c \in t
    BY <1>1, <2>2, <2>3, ChFacts
  <2>10. n - 1 \notin Bad
    BY <2>1, <2>4
  <2>5. SumOn(h, u) = SumOn(d, u \cap D)
    BY <2>4, <2>10 DEF NotZeroExt
  <2>6. SumOn(h, t) = h[c] + SumOn(h, u)
    BY <1>1, <2>3, SumUnfold DEF SumOn
  <2>7. IsFiniteSet(t \cap D) /\ t \cap D \in SUBSET D
    BY <1>1, FS_Subset
  <2>8. CASE c \in D
    <3>1. SumOn(d, t \cap D) = d[c] + SumOn(d, (t \cap D) \ {c})
      BY <2>4, <2>7, <2>8, SumRemove
    <3>2. (t \cap D) \ {c} = u \cap D
      OBVIOUS
    <3> QED
      BY <2>2, <2>4, <2>5, <2>6, <2>8, <3>1, <3>2
  <2>9. CASE c \notin D
    <3>1. t \cap D = u \cap D
      BY <2>9
    <3>2. h[c] = 0 /\ SumOn(h, u) \in Int
      BY <2>4, <2>5, <2>9, <1>1, SumType
    <3>3. SumOn(d, t \cap D) = SumOn(d, u \cap D)
      BY <3>1
    <3> QED
      BY <2>2, <2>5, <2>6, <3>2, <3>3
  <2> QED
    BY <2>8, <2>9
<1>3. A \cap D = D
  OBVIOUS
<1> QED
  BY <1>1, <1>2, <1>3 DEF NotZeroExt

(* A pointwise update by at most ext changes the sum by at most the sum  *)
(* of ext, and by exactly that sum when every value grows by exactly ext.  *)
LEMMA SumShift ==
    ASSUME NEW A, IsFiniteSet(A), NEW old, NEW new, NEW ext,
           \A a \in A : /\ old[a] \in Int /\ new[a] \in Int /\ ext[a] \in Int
                        /\ new[a] <= old[a] + ext[a]
    PROVE  /\ SumOn(new, A) <= SumOn(old, A) + SumOn(ext, A)
           /\ (\A a \in A : new[a] = old[a] + ext[a])
                 => SumOn(new, A) = SumOn(old, A) + SumOn(ext, A)
<1> DEFINE h == [a \in A |-> old[a] + ext[a]]
<1> DEFINE r == [a \in A |-> old[a] + ext[a] - new[a]]
<1>1. SumOn(h, A) = SumOn(old, A) + SumOn(ext, A)
  BY SumLinear
<1>2. SumOn(h, A) = SumOn(new, A) + SumOn(r, A)
  BY SumLinear
<1>3. SumOn(r, A) \in Nat
  BY SumType
<1>4. SumOn(new, A) \in Int /\ SumOn(old, A) \in Int /\ SumOn(ext, A) \in Int
  BY SumType
<1>5. (\A a \in A : new[a] = old[a] + ext[a])
         => SumOn(new, A) = SumOn(h, A)
  BY SumCongruent
<1> QED
  BY <1>1, <1>2, <1>3, <1>4, <1>5

=============================================================================
