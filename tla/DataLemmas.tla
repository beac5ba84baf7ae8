------------------------------ MODULE DataLemmas ------------------------------
(***************************************************************************)
(* Facts about the data of the models that several proofs need: sums of a  *)
(* function over a finite set, as SumFunctionOnSet of the community        *)
(* modules folds them, and queues that hold each of their members once.    *)
(*                                                                         *)
(* Induction is over the subsets of a finite set, which are well founded   *)
(* under strict inclusion: what has to hold for all of them is put as the  *)
(* set of the subsets for which it fails, and a smallest one of these is   *)
(* taken.                                                                  *)
(***************************************************************************)
EXTENDS Integers, Sequences, Functions, FiniteSetTheorems, WellFoundedInduction, TLAPS

-------------------------------------------------------------------------------
(* Induction.                                                              *)

\* Among some subsets of a finite set there is one with no proper subset in them.
LEMMA SmallestSubset ==
  ASSUME NEW S, IsFiniteSet(S), NEW T, T \subseteq SUBSET S, T # {}
  PROVE  \E U \in T : \A V \in T : V \subseteq U => V = U
<1> DEFINE R == StrictSubsetOrdering(S)
<1>1. \A V, U \in SUBSET S : V \subseteq U /\ V # U => <<V, U>> \in R
  <2>1. ASSUME NEW V \in SUBSET S, NEW U \in SUBSET S, V \subseteq U, V # U
        PROVE  <<V, U>> \in R
    <3>1. <<V, U>> \in (SUBSET S) \X (SUBSET S) OBVIOUS
    <3>2. <<V, U>>[1] \subseteq <<V, U>>[2] /\ <<V, U>>[1] # <<V, U>>[2] BY <2>1
    <3> QED BY <3>1, <3>2 DEF StrictSubsetOrdering
  <2> QED BY <2>1
<1>2. IsWellFoundedOn(R, SUBSET S)
  BY FS_StrictSubsetOrderingWellFounded, FS_FiniteSubsetsOfFinite
<1> HIDE DEF R
<1>3. PICK U \in T : \A V \in T : ~ (<<V, U>> \in R)
  BY WFMin, <1>2
<1> QED BY <1>1, <1>3

\* Induction over the subsets of a finite set, with a set for the predicate.
LEMMA SubsetInduction ==
  ASSUME NEW S, IsFiniteSet(S), NEW T, {} \in T,
         \A U \in SUBSET S : \A x \in S \ U : U \in T => U \cup {x} \in T
  PROVE  SUBSET S \subseteq T
<1> DEFINE D == (SUBSET S) \ T
<1> SUFFICES ASSUME D # {} PROVE FALSE
  OBVIOUS
<1>1. PICK U \in D : \A V \in D : V \subseteq U => V = U
  <2>1. D \subseteq SUBSET S OBVIOUS
  <2> HIDE DEF D
  <2> QED BY <2>1, SmallestSubset
<1>2. PICK x : x \in U
  OBVIOUS
<1>3. U \ {x} \in T
  BY <1>1, <1>2
<1>4. U = (U \ {x}) \cup {x} /\ x \in S \ (U \ {x}) /\ U \ {x} \in SUBSET S
  BY <1>2
<1>5. U \in T
  BY <1>3, <1>4
<1> QED BY <1>5

-------------------------------------------------------------------------------
(* Sums.                                                                   *)

\* The element of s that the fold takes first.
FoldPick(s) == CHOOSE x \in s : TRUE

\* g sums f over every subset of S.
SumsOver(f, S, g) ==
    g = [s \in SUBSET S |-> IF s = {} THEN 0 ELSE f[FoldPick(s)] + g[s \ {FoldPick(s)}]]

\* SumFunctionOnSet is the fold of + over the set.
LEMMA SumIsChosen ==
  ASSUME NEW f, NEW S
  PROVE  SumFunctionOnSet(f, S) = (CHOOSE g : SumsOver(f, S, g))[S]
BY DEF SumFunctionOnSet, FoldFunctionOnSet, MapThenFoldSet, SumsOver, FoldPick

\* The fold takes an element of the set.
LEMMA FoldPickIsIn == ASSUME NEW s, s # {} PROVE FoldPick(s) \in s
BY DEF FoldPick

\* Two such sums agree on every finite set they both know.
LEMMA SumsUnique ==
  ASSUME NEW S, IsFiniteSet(S), NEW f, NEW g, NEW h, NEW W, W \subseteq S,
         SumsOver(f, S, g), SumsOver(f, W, h)
  PROVE  g[W] = h[W]
<1> DEFINE D == {U \in SUBSET W : g[U] # h[U]}
<1>0. IsFiniteSet(W) BY FS_Subset
<1> SUFFICES ASSUME D # {} PROVE FALSE
  OBVIOUS
<1>1. PICK U \in D : \A V \in D : V \subseteq U => V = U
  <2>1. D \subseteq SUBSET W OBVIOUS
  <2> HIDE DEF D
  <2> QED BY <2>1, <1>0, SmallestSubset
<1>2. U \in SUBSET W /\ U \in SUBSET S
  OBVIOUS
<1>3. /\ g[U] = IF U = {} THEN 0 ELSE f[FoldPick(U)] + g[U \ {FoldPick(U)}]
      /\ h[U] = IF U = {} THEN 0 ELSE f[FoldPick(U)] + h[U \ {FoldPick(U)}]
  BY <1>2 DEF SumsOver
<1>4. U # {} /\ FoldPick(U) \in U
  BY <1>1, <1>3, FoldPickIsIn
<1>5. U \ {FoldPick(U)} \notin D
  BY <1>1, <1>4
<1>6. g[U \ {FoldPick(U)}] = h[U \ {FoldPick(U)}]
  BY <1>5, <1>2
<1> QED BY <1>1, <1>3, <1>6

\* SumFunctionOnSet obeys its recursion, on every subset of a finite set.
LEMMA SumRec ==
  ASSUME NEW S, IsFiniteSet(S), NEW f
  PROVE  SumFunctionOnSet(f, S) =
           IF S = {} THEN 0 ELSE f[FoldPick(S)] + SumFunctionOnSet(f, S \ {FoldPick(S)})
<1> DEFINE W(s) == SumFunctionOnSet(f, s)
           Body(s) == IF s = {} THEN 0 ELSE f[FoldPick(s)] + W(s \ {FoldPick(s)})
           D == {s \in SUBSET S : W(s) # Body(s)}
<1> SUFFICES ASSUME D # {} PROVE FALSE
  <2>1. D = {} => W(S) = Body(S) OBVIOUS
  <2> QED BY <2>1
<1>1. PICK U \in D : \A V \in D : V \subseteq U => V = U
  <2>1. D \subseteq SUBSET S OBVIOUS
  <2> HIDE DEF D
  <2> QED BY <2>1, SmallestSubset
<1>2. U \in SUBSET S /\ W(U) # Body(U)
  OBVIOUS
<1>3. IsFiniteSet(U)
  BY <1>2, FS_Subset
<1>4. \A V \in SUBSET U : V # U => W(V) = Body(V)
  BY <1>1, <1>2
<1> DEFINE g == [s \in SUBSET U |-> IF s = U THEN Body(U) ELSE W(s)]
<1>5. SumsOver(f, U, g)
  <2>1. ASSUME NEW s \in SUBSET U
        PROVE  g[s] = IF s = {} THEN 0 ELSE f[FoldPick(s)] + g[s \ {FoldPick(s)}]
    <3>1. g[s] = Body(s)
      BY <1>4
    <3>2. s # {} => s \ {FoldPick(s)} # U /\ s \ {FoldPick(s)} \in SUBSET U
      BY FoldPickIsIn
    <3>3. s # {} => g[s \ {FoldPick(s)}] = W(s \ {FoldPick(s)})
      BY <3>2
    <3> HIDE DEF g, W
    <3> QED BY <3>1, <3>3
  <2>2. g = [s \in SUBSET U |-> g[s]]
    OBVIOUS
  <2> HIDE DEF g
  <2>3. [s \in SUBSET U |-> g[s]]
          = [s \in SUBSET U |-> IF s = {} THEN 0 ELSE f[FoldPick(s)] + g[s \ {FoldPick(s)}]]
    BY <2>1
  <2> QED BY <2>2, <2>3, Zenon DEF SumsOver
<1> HIDE DEF g
<1>6. SumsOver(f, U, CHOOSE h : SumsOver(f, U, h))
  BY <1>5, Zenon
<1>7. W(U) = g[U]
  <2>1. g[U] = (CHOOSE h : SumsOver(f, U, h))[U]
    BY <1>3, <1>5, <1>6, SumsUnique
  <2> QED BY <2>1, SumIsChosen
<1>8. g[U] = Body(U)
  BY DEF g
<1> QED BY <1>2, <1>7, <1>8

\* Sums of integers are integers.
LEMMA SumInt ==
  ASSUME NEW S, IsFiniteSet(S), NEW f, \A x \in S : f[x] \in Int
  PROVE  SumFunctionOnSet(f, S) \in Int
<1> DEFINE D == {s \in SUBSET S : SumFunctionOnSet(f, s) \notin Int}
<1> SUFFICES ASSUME D # {} PROVE FALSE
  <2>1. D = {} => SumFunctionOnSet(f, S) \in Int OBVIOUS
  <2> QED BY <2>1
<1>1. PICK U \in D : \A V \in D : V \subseteq U => V = U
  <2>1. D \subseteq SUBSET S OBVIOUS
  <2> HIDE DEF D
  <2> QED BY <2>1, SmallestSubset
<1>2. U \in SUBSET S /\ IsFiniteSet(U)
  BY FS_Subset
<1>3. U # {} => FoldPick(U) \in S /\ SumFunctionOnSet(f, U \ {FoldPick(U)}) \in Int
  BY <1>1, FoldPickIsIn
<1>4. SumFunctionOnSet(f, U)
        = IF U = {} THEN 0 ELSE f[FoldPick(U)] + SumFunctionOnSet(f, U \ {FoldPick(U)})
  BY <1>2, SumRec
<1> QED BY <1>3, <1>4

\* Any element may be taken out of a sum, not only the one the fold picks.
LEMMA SumSplit ==
  ASSUME NEW S, IsFiniteSet(S), NEW f, \A x \in S : f[x] \in Int, NEW y \in S
  PROVE  SumFunctionOnSet(f, S) = f[y] + SumFunctionOnSet(f, S \ {y})
<1> DEFINE Sum(s) == SumFunctionOnSet(f, s)
           D == {s \in SUBSET S : \E z \in s : Sum(s) # f[z] + Sum(s \ {z})}
<1> SUFFICES ASSUME D # {} PROVE FALSE
  <2>1. D = {} => Sum(S) = f[y] + Sum(S \ {y}) OBVIOUS
  <2> QED BY <2>1
<1>1. PICK U \in D : \A V \in D : V \subseteq U => V = U
  <2>1. D \subseteq SUBSET S OBVIOUS
  <2> HIDE DEF D
  <2> QED BY <2>1, SmallestSubset
<1>2. PICK z \in U : Sum(U) # f[z] + Sum(U \ {z})
  OBVIOUS
<1> DEFINE p == FoldPick(U)
<1>3. p \in U /\ U \in SUBSET S
  BY FoldPickIsIn
<1>4. /\ IsFiniteSet(U) /\ IsFiniteSet(U \ {z}) /\ IsFiniteSet(U \ {p})
      /\ IsFiniteSet(U \ {p, z})
  BY <1>3, FS_Subset
<1> HIDE DEF p
<1>5. Sum(U) = f[p] + Sum(U \ {p})
  BY <1>2, <1>4, SumRec DEF p
<1>6. p # z
  BY <1>2, <1>5
<1>7. U \ {p} \notin D /\ U \ {z} \notin D
  BY <1>1, <1>2, <1>3
<1>8. Sum(U \ {p}) = f[z] + Sum((U \ {p}) \ {z})
  BY <1>3, <1>6, <1>7
<1>9. Sum(U \ {z}) = f[p] + Sum((U \ {z}) \ {p})
  BY <1>3, <1>6, <1>7
<1>10. /\ Sum((U \ {p}) \ {z}) = Sum(U \ {p, z})
       /\ Sum((U \ {z}) \ {p}) = Sum(U \ {p, z})
  <2>1. (U \ {p}) \ {z} = U \ {p, z} /\ (U \ {z}) \ {p} = U \ {p, z}
    OBVIOUS
  <2> HIDE DEF Sum
  <2> QED BY <2>1
<1>11. Sum(U \ {p, z}) \in Int
  BY <1>3, <1>4, SumInt
<1>12. f[p] \in Int /\ f[z] \in Int
  BY <1>3
<1>13. Sum(U) # f[z] + Sum(U \ {z})
  BY <1>2
<1> HIDE DEF Sum
<1> QED BY <1>5, <1>8, <1>9, <1>10, <1>11, <1>12, <1>13

\* Only the values inside the set count.
LEMMA SumSame ==
  ASSUME NEW S, IsFiniteSet(S), NEW f, NEW g, \A x \in S : f[x] = g[x]
  PROVE  SumFunctionOnSet(f, S) = SumFunctionOnSet(g, S)
<1> DEFINE D == {s \in SUBSET S : SumFunctionOnSet(f, s) # SumFunctionOnSet(g, s)}
<1> SUFFICES ASSUME D # {} PROVE FALSE
  <2>1. D = {} => SumFunctionOnSet(f, S) = SumFunctionOnSet(g, S) OBVIOUS
  <2> QED BY <2>1
<1>1. PICK U \in D : \A V \in D : V \subseteq U => V = U
  <2>1. D \subseteq SUBSET S OBVIOUS
  <2> HIDE DEF D
  <2> QED BY <2>1, SmallestSubset
<1>2. U \in SUBSET S /\ IsFiniteSet(U)
  BY FS_Subset
<1>3. U # {} => /\ f[FoldPick(U)] = g[FoldPick(U)]
                /\ SumFunctionOnSet(f, U \ {FoldPick(U)}) = SumFunctionOnSet(g, U \ {FoldPick(U)})
  BY <1>1, FoldPickIsIn
<1>4. \A h : SumFunctionOnSet(h, U)
               = IF U = {} THEN 0 ELSE h[FoldPick(U)] + SumFunctionOnSet(h, U \ {FoldPick(U)})
  BY <1>2, SumRec
<1> QED BY <1>3, <1>4

\* A sum of zeros is zero.
LEMMA SumZero ==
  ASSUME NEW S, IsFiniteSet(S), NEW f, \A x \in S : f[x] = 0
  PROVE  SumFunctionOnSet(f, S) = 0
<1> DEFINE D == {s \in SUBSET S : SumFunctionOnSet(f, s) # 0}
<1> SUFFICES ASSUME D # {} PROVE FALSE
  <2>1. D = {} => SumFunctionOnSet(f, S) = 0 OBVIOUS
  <2> QED BY <2>1
<1>1. PICK U \in D : \A V \in D : V \subseteq U => V = U
  <2>1. D \subseteq SUBSET S OBVIOUS
  <2> HIDE DEF D
  <2> QED BY <2>1, SmallestSubset
<1>2. U \in SUBSET S /\ IsFiniteSet(U)
  BY FS_Subset
<1>3. U # {} => f[FoldPick(U)] = 0 /\ SumFunctionOnSet(f, U \ {FoldPick(U)}) = 0
  BY <1>1, FoldPickIsIn
<1>4. SumFunctionOnSet(f, U)
        = IF U = {} THEN 0 ELSE f[FoldPick(U)] + SumFunctionOnSet(f, U \ {FoldPick(U)})
  BY <1>2, SumRec
<1> QED BY <1>3, <1>4

\* Changing f at one element changes its sum by as much.
LEMMA SumChange ==
  ASSUME NEW S, IsFiniteSet(S), NEW f, NEW g, NEW y, y \in S,
         \A x \in S : f[x] \in Int, \A x \in S : g[x] \in Int,
         \A x \in S : x # y => f[x] = g[x]
  PROVE  /\ SumFunctionOnSet(f, S) \in Int
         /\ SumFunctionOnSet(g, S) \in Int
         /\ SumFunctionOnSet(g, S) = SumFunctionOnSet(f, S) + (g[y] - f[y])
<1>1. IsFiniteSet(S \ {y})
  BY FS_Subset
<1>2. /\ SumFunctionOnSet(f, S) = f[y] + SumFunctionOnSet(f, S \ {y})
      /\ SumFunctionOnSet(g, S) = g[y] + SumFunctionOnSet(g, S \ {y})
  BY SumSplit
<1>3. SumFunctionOnSet(f, S \ {y}) = SumFunctionOnSet(g, S \ {y})
  <2>1. \A x \in S \ {y} : f[x] = g[x]
    OBVIOUS
  <2> QED BY <1>1, <2>1, SumSame
<1>4. SumFunctionOnSet(f, S \ {y}) \in Int
  <2>1. \A x \in S \ {y} : f[x] \in Int
    OBVIOUS
  <2> QED BY <1>1, <2>1, SumInt
<1>5. f[y] \in Int /\ g[y] \in Int
  OBVIOUS
<1> QED BY <1>2, <1>3, <1>4, <1>5

\* A set of one more is finite, and its sum grows by the new value.
LEMMA SumJoined ==
  ASSUME NEW S, IsFiniteSet(S), NEW c, c \notin S, NEW f, NEW g,
         \A x \in S \cup {c} : f[x] \in Int,
         \A x \in S : g[x] = f[x]
  PROVE  /\ IsFiniteSet(S \cup {c})
         /\ SumFunctionOnSet(f, S \cup {c}) = f[c] + SumFunctionOnSet(g, S)
<1>1. IsFiniteSet(S \cup {c}) /\ (S \cup {c}) \ {c} = S /\ c \in S \cup {c}
  BY FS_AddElement
<1>2. SumFunctionOnSet(f, S \cup {c}) = f[c] + SumFunctionOnSet(f, (S \cup {c}) \ {c})
  BY <1>1, SumSplit
<1>3. SumFunctionOnSet(f, S) = SumFunctionOnSet(g, S)
  BY SumSame
<1> QED BY <1>1, <1>2, <1>3

\* A sum of naturals does not shrink when its set grows.
LEMMA SumGrows ==
  ASSUME NEW S, IsFiniteSet(S), NEW f, \A x \in S : f[x] \in Nat, NEW W, W \subseteq S
  PROVE  /\ SumFunctionOnSet(f, S) \in Nat
         /\ SumFunctionOnSet(f, W) \in Nat
         /\ SumFunctionOnSet(f, W) <= SumFunctionOnSet(f, S)
<1> DEFINE Sum(s) == SumFunctionOnSet(f, s)
           T == {s \in SUBSET S : /\ Sum(s) \in Nat
                                  /\ \A V \in SUBSET s : Sum(V) \in Nat /\ Sum(V) <= Sum(s)}
<1>1. {} \in T
  <2>1. Sum({}) = 0
    BY FS_EmptySet, SumRec
  <2> HIDE DEF Sum
  <2> QED BY <2>1
<1>2. ASSUME NEW U \in SUBSET S, NEW x \in S \ U, U \in T
      PROVE  U \cup {x} \in T
  <2>1. IsFiniteSet(U \cup {x})
    BY FS_Subset
  <2>2. \A V \in SUBSET (U \cup {x}) : x \in V => Sum(V) = f[x] + Sum(V \ {x})
    BY <2>1, FS_Subset, SumSplit
  <2>3. \A V \in SUBSET (U \cup {x}) : V \ {x} \in SUBSET U
    OBVIOUS
  <2>4. (U \cup {x}) \ {x} = U
    BY <1>2
  <2>5. f[x] \in Nat
    OBVIOUS
  <2>6. Sum(U) \in Nat /\ \A V \in SUBSET U : Sum(V) \in Nat /\ Sum(V) <= Sum(U)
    BY <1>2
  <2> HIDE DEF Sum
  <2>7. Sum(U \cup {x}) = f[x] + Sum(U)
    BY <2>2, <2>4
  <2>8. ASSUME NEW V \in SUBSET (U \cup {x})
        PROVE  Sum(V) \in Nat /\ Sum(V) <= f[x] + Sum(U)
    <3>1. CASE x \in V
      <4>1. Sum(V) = f[x] + Sum(V \ {x}) BY <3>1, <2>2
      <4>2. Sum(V \ {x}) \in Nat /\ Sum(V \ {x}) <= Sum(U) BY <2>3, <2>6
      <4> QED BY <4>1, <4>2, <2>5, <2>6
    <3>2. CASE x \notin V
      <4>1. V \in SUBSET U BY <3>2
      <4> QED BY <4>1, <2>5, <2>6
    <3> QED BY <3>1, <3>2
  <2> QED BY <2>5, <2>6, <2>7, <2>8
<1>3. SUBSET S \subseteq T
  <2> HIDE DEF T
  <2> QED BY <1>1, <1>2, SubsetInduction
<1>4. S \in T /\ W \in SUBSET S
  BY <1>3
<1> QED BY <1>4

\* Where a function is zero it adds nothing to a sum.
LEMMA SumSupport ==
  ASSUME NEW S, IsFiniteSet(S), NEW f, \A x \in S : f[x] \in Int, NEW W, W \subseteq S,
         \A x \in S \ W : f[x] = 0
  PROVE  SumFunctionOnSet(f, S) = SumFunctionOnSet(f, W)
  <1> DEFINE V == S \ W
             Sum(s) == SumFunctionOnSet(f, s)
             T == {s \in SUBSET V : Sum(W \cup s) = Sum(W)}
  <1>1. IsFiniteSet(V)
    BY FS_Subset
  <1>2. {} \in T
    <2>1. W \cup {} = W
      OBVIOUS
    <2> QED BY <2>1
  <1>3. ASSUME NEW U \in SUBSET V, NEW x \in V \ U, U \in T
        PROVE  U \cup {x} \in T
    <2>1. /\ W \cup (U \cup {x}) \subseteq S
          /\ x \in W \cup (U \cup {x})
          /\ (W \cup (U \cup {x})) \ {x} = W \cup U
      BY <1>3
    <2>2. /\ IsFiniteSet(W \cup (U \cup {x})) /\ IsFiniteSet(W \cup U)
          /\ \A y \in W \cup (U \cup {x}) : f[y] \in Int
      BY <2>1, FS_Subset
    <2>3. Sum(W \cup (U \cup {x})) = f[x] + Sum((W \cup (U \cup {x})) \ {x})
      BY <2>1, <2>2, SumSplit
    <2>4. Sum(W \cup U) \in Int
      BY <2>1, <2>2, SumInt
    <2>5. Sum(W \cup U) = Sum(W) /\ f[x] = 0
      BY <1>3
    <2> HIDE DEF Sum
    <2>6. Sum((W \cup (U \cup {x})) \ {x}) = Sum(W)
      BY <2>1, <2>5, Zenon
    <2>7. Sum(W \cup (U \cup {x})) = Sum(W)
      BY <2>3, <2>4, <2>5, <2>6
    <2> QED BY <2>7, <1>3
  <1> HIDE DEF T, V
  <1>4. SUBSET V \subseteq T
    BY <1>1, <1>2, <1>3, SubsetInduction
  <1>5. V \in T
    BY <1>4
  <1>6. W \cup V = S
    BY DEF V
  <1> QED BY <1>5, <1>6 DEF T

\* A sum of values of at most m is at most m for each of its terms.
LEMMA SumAtMost ==
  ASSUME NEW S, IsFiniteSet(S), NEW f, NEW m \in Nat,
         \A x \in S : f[x] \in Nat /\ f[x] <= m
  PROVE  /\ SumFunctionOnSet(f, S) \in Nat
         /\ SumFunctionOnSet(f, S) <= Cardinality(S) * m
  <1> DEFINE Sum(s) == SumFunctionOnSet(f, s)
             T == {s \in SUBSET S : Sum(s) \in Nat /\ Sum(s) <= Cardinality(s) * m}
  <1>1. {} \in T
    <2>1. Sum({}) = 0
      BY SumZero, FS_EmptySet
    <2>2. Cardinality({}) = 0
      BY FS_EmptySet
    <2> QED BY <2>1, <2>2
  <1>2. ASSUME NEW U \in SUBSET S, NEW x \in S \ U, U \in T
        PROVE  U \cup {x} \in T
    <2>1. IsFiniteSet(U) /\ IsFiniteSet(U \cup {x})
      BY FS_Subset
    <2>2. (U \cup {x}) \ {x} = U
      OBVIOUS
    <2>3. Sum(U \cup {x}) = f[x] + Sum((U \cup {x}) \ {x})
      BY <2>1, SumSplit
    <2>4. /\ Cardinality(U) \in Nat
          /\ Cardinality(U \cup {x}) = Cardinality(U) + 1
      BY <2>1, FS_AddElement, FS_CardinalityType
    <2>5. Sum(U) \in Nat /\ Sum(U) <= Cardinality(U) * m
      BY <1>2
    <2>6. \A k, n \in Nat : n <= k * m => f[x] + n \in Nat /\ f[x] + n <= (k + 1) * m
      OBVIOUS
    <2> HIDE DEF Sum
    <2>7. Sum(U \cup {x}) \in Nat /\ Sum(U \cup {x}) <= Cardinality(U \cup {x}) * m
      BY <2>2, <2>3, <2>4, <2>5, <2>6
    <2> QED BY <2>7, <1>2
  <1> HIDE DEF T
  <1>3. SUBSET S \subseteq T
    BY <1>1, <1>2, SubsetInduction
  <1>4. S \in T
    BY <1>3
  <1> QED BY <1>4 DEF T

-------------------------------------------------------------------------------
(* Queues.                                                                 *)

\* The queue q holds the elements of M, each of them once.
Queues(q, M) ==
    /\ \A i, j \in 1..Len(q) : q[i] = q[j] => i = j
    /\ \A i \in 1..Len(q) : q[i] \in M
    /\ \A x \in M : \E i \in 1..Len(q) : q[i] = x

\* Somebody new joins at the end; a head stays the head.
LEMMA QueueJoined ==
  ASSUME NEW S, NEW q \in Seq(S), NEW M, Queues(q, M), NEW c \in S, c \notin M
  PROVE  /\ Append(q, c) \in Seq(S) /\ Queues(Append(q, c), M \cup {c})
         /\ q # << >> => Append(q, c) # << >> /\ Head(Append(q, c)) = Head(q)
<1> DEFINE n == Len(q)
           r == Append(q, c)
<1>1. /\ r \in Seq(S) /\ n \in Nat /\ Len(r) = n + 1 /\ r[n + 1] = c
      /\ \A i \in 1..n : r[i] = q[i] /\ q[i] # c
  BY DEF Queues
<1>2. q # << >> => r # << >> /\ Head(r) = Head(q)
  OBVIOUS
<1>3. /\ \A i, j \in 1..n : q[i] = q[j] => i = j
      /\ \A i \in 1..n : q[i] \in M
      /\ \A x \in M : \E i \in 1..n : q[i] = x
  BY DEF Queues
<1> HIDE DEF n, r
<1>4. \A i \in 1..(n + 1) : i \in 1..n \/ i = n + 1
  BY <1>1
<1>5. 1..n \subseteq 1..(n + 1) /\ n + 1 \in 1..(n + 1)
  BY <1>1
<1>6. \A i, j \in 1..(n + 1) : r[i] = r[j] => i = j
  BY <1>1, <1>3, <1>4
<1>7. \A i \in 1..(n + 1) : r[i] \in M \cup {c}
  BY <1>1, <1>3, <1>4
<1>8. \A x \in M \cup {c} : \E i \in 1..(n + 1) : r[i] = x
  BY <1>1, <1>3, <1>5
<1>9. Queues(r, M \cup {c})
  BY <1>1, <1>6, <1>7, <1>8 DEF Queues
<1> QED BY <1>1, <1>2, <1>9 DEF r

\* The head leaves.
LEMMA QueueLeft ==
  ASSUME NEW S, NEW q \in Seq(S), NEW M, Queues(q, M), q # << >>
  PROVE  /\ Tail(q) \in Seq(S) /\ Head(q) \in M /\ Head(q) \in S
         /\ Queues(Tail(q), M \ {Head(q)})
<1> DEFINE n == Len(q)
           r == Tail(q)
           c == Head(q)
<1>1. /\ r \in Seq(S) /\ n \in Nat \ {0} /\ Len(r) = n - 1 /\ c \in S
      /\ \A i \in 1..(n - 1) : r[i] = q[i + 1]
      /\ c = q[1]
  OBVIOUS
<1>2. /\ \A i, j \in 1..n : q[i] = q[j] => i = j
      /\ \A i \in 1..n : q[i] \in M
      /\ \A x \in M : \E i \in 1..n : q[i] = x
  BY DEF Queues
<1> HIDE DEF n, r, c
<1>3. \A i \in 1..(n - 1) : i + 1 \in 1..n /\ i + 1 # 1
  BY <1>1
<1>4. 1 \in 1..n /\ \A i \in 1..n : i # 1 => i - 1 \in 1..(n - 1) /\ (i - 1) + 1 = i
  BY <1>1
<1>5. ASSUME NEW i \in 1..(n - 1), NEW j \in 1..(n - 1), r[i] = r[j] PROVE i = j
  <2>1. i + 1 = j + 1
    BY <1>1, <1>2, <1>3, <1>5
  <2> QED BY <2>1, <1>1
<1>6. ASSUME NEW i \in 1..(n - 1) PROVE r[i] \in M \ {c}
  <2>1. i + 1 \in 1..n /\ i + 1 # 1
    BY <1>3
  <2>2. r[i] = q[i + 1]
    BY <1>1
  <2>3. q[i + 1] \in M /\ q[i + 1] # q[1]
    BY <1>2, <1>4, <2>1
  <2> QED BY <1>1, <2>2, <2>3
<1>7. ASSUME NEW x \in M \ {c} PROVE \E i \in 1..(n - 1) : r[i] = x
  <2>1. PICK i \in 1..n : q[i] = x
    BY <1>2
  <2>2. i # 1
    BY <1>1, <2>1
  <2>3. i - 1 \in 1..(n - 1) /\ r[i - 1] = q[i]
    BY <1>1, <1>4, <2>2
  <2> QED BY <2>1, <2>3
<1>8. Queues(r, M \ {c})
  BY <1>1, <1>5, <1>6, <1>7 DEF Queues
<1>9. c \in M
  BY <1>1, <1>2, <1>4
<1> QED BY <1>1, <1>8, <1>9 DEF r, c

-------------------------------------------------------------------------------
(* Products and quotients.                                                *)

\* What a whole quotient says of its numerator.
LEMMA QuotientBounds ==
  ASSUME NEW n \in Nat, NEW d \in Nat, d > 0
  PROVE  n \div d \in Nat /\ d * (n \div d) <= n /\ n < d * ((n \div d) + 1)
  OBVIOUS

\* Products keep the order of their factors.
LEMMA ProductOrder ==
  ASSUME NEW a \in Nat, NEW b \in Nat, NEW c \in Nat, a <= b PROVE a * c <= b * c
  OBVIOUS

\* A smaller product with the same factor has the smaller other factor.
LEMMA ProductStrict ==
  ASSUME NEW a \in Nat, NEW b \in Nat, NEW c \in Nat, c > 0, a * c < b * c PROVE a < b
  OBVIOUS

\* A number is its quotient and its remainder, which is smaller than the divisor.
LEMMA DivisionSplits ==
  ASSUME NEW n \in Nat, NEW d \in Nat, d > 0
  PROVE  /\ n \div d \in Nat /\ n % d \in Nat /\ n % d < d
         /\ n = (n \div d) * d + (n % d)
<1>1. n \div d \in Nat
  OBVIOUS
<1>2. n % d \in 0..(d - 1)
  OBVIOUS
<1>3. n = (n \div d) * d + (n % d)
  OBVIOUS
<1> QED BY <1>1, <1>2, <1>3
==============================================================================
