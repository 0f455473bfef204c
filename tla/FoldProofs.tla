---- MODULE FoldProofs ----
(***************************************************************************)
(* Facts about folds and sums over finite sets.  The induction theorems of *)
(* the library take an operator; these proofs use induction in the form of *)
(* sets instead: a set of numbers, or of subsets, that holds with all that *)
(* is smaller whatever is, holds everything.                               *)
(***************************************************************************)
EXTENDS Integers, FiniteSetTheorems, FiniteSetsExt, TLAPS

LEMMA NatInductionSet ==
  ASSUME NEW P \in SUBSET Nat, 0 \in P, \A n \in P : n + 1 \in P
  PROVE  P = Nat
<1> SUFFICES ASSUME Nat \ P # {} PROVE FALSE
  OBVIOUS
<1>1. PICK n \in Nat \ P : \A m \in Nat \ P : ~(<<m, n>> \in OpToRel(<, Nat))
  BY NatLessThanWellFounded, WFMin, Nat \ P \subseteq Nat
<1>2. \A m \in Nat \ P : ~(m < n) BY <1>1 DEF OpToRel
<1>3. n - 1 \in Nat /\ n - 1 < n /\ (n - 1) + 1 = n OBVIOUS
<1> QED BY <1>2, <1>3

LEMMA SubsetInductionSet ==
  ASSUME NEW D, IsFiniteSet(D), NEW Q \in SUBSET (SUBSET D),
         \A T \in SUBSET D : (\A U \in SUBSET T : U # T => U \in Q) => T \in Q
  PROVE  Q = SUBSET D
<1> SUFFICES ASSUME (SUBSET D) \ Q # {} PROVE FALSE
  OBVIOUS
<1>1. FiniteSubsetsOf(D) = SUBSET D BY FS_FiniteSubsetsOfFinite, Zenon
<1>2. IsWellFoundedOn(StrictSubsetOrdering(D), FiniteSubsetsOf(D))
  BY FS_StrictSubsetOrderingWellFounded, Zenon
<1>3. IsWellFoundedOn(StrictSubsetOrdering(D), SUBSET D) BY <1>1, <1>2, Zenon
<1> DEFINE R == StrictSubsetOrdering(D)
           Rest == (SUBSET D) \ Q
<1>4. Rest \subseteq SUBSET D /\ Rest # {} OBVIOUS
<1>5. PICK T \in Rest : \A U \in Rest : ~(<<U, T>> \in R)
  <2>1. IsWellFoundedOn(R, SUBSET D) BY <1>3
  <2> HIDE DEF R, Rest
  <2> QED BY <2>1, <1>4, WFMin
<1>6. \A U \in SUBSET T : U # T => U \in Q
  BY <1>5 DEF StrictSubsetOrdering
<1> QED BY <1>6

-----------------------------------------------------------------------------
(* A fold over a finite set is well defined: `c` chooses the element to take out *)
(* of a set, and G folds it in.                                                  *)

FoldStep(f, s, base, c, G) == IF s = {} THEN base ELSE G[f[s \ {c[s]}]][c[s]]

IsFoldOf(f, D, V, base, c, G) ==
  f \in [SUBSET D -> V] /\ \A s \in SUBSET D : f[s] = FoldStep(f, s, base, c, G)

LEMMA FoldExists ==
  ASSUME NEW D, IsFiniteSet(D), NEW V, NEW base \in V,
         NEW c, \A s \in SUBSET D : s # {} => c[s] \in s,
         NEW G \in [V -> [D -> V]]
  PROVE  \E f : IsFoldOf(f, D, V, base, c, G)
<1> DEFINE Up(n) == {s \in SUBSET D : Cardinality(s) <= n}
           Good(f, n) == f \in [Up(n) -> V] /\ \A s \in Up(n) : f[s] = FoldStep(f, s, base, c, G)
           N == {n \in Nat : \E f : Good(f, n)}
<1>1. \A s \in SUBSET D : IsFiniteSet(s) /\ Cardinality(s) \in Nat
  BY FS_Subset, FS_CardinalityType
<1>2. 0 \in N
  <2> DEFINE f == [s \in Up(0) |-> base]
  <2>1. \A s \in Up(0) : s = {} BY <1>1, FS_EmptySet
  <2>2. Good(f, 0) BY <2>1 DEF FoldStep
  <2> QED BY <2>2
<1>3. ASSUME NEW n \in N PROVE n + 1 \in N
  <2>1. PICK f : Good(f, n) OBVIOUS
  <2> DEFINE g == [s \in Up(n + 1) |-> FoldStep(f, s, base, c, G)]
  <2>2. ASSUME NEW s \in Up(n + 1), s # {} PROVE c[s] \in D /\ s \ {c[s]} \in Up(n)
    <3>1. c[s] \in s BY <2>2
    <3>2. IsFiniteSet(s) BY <1>1
    <3>3. Cardinality(s \ {c[s]}) = Cardinality(s) - 1 BY <3>1, <3>2, FS_RemoveElement, ZenonT(40)
    <3> QED BY <1>1, <3>1, <3>3
  <2>3. Up(n) \subseteq Up(n + 1) BY <1>1
  <2>4. \A s \in Up(n) : g[s] = f[s] BY <2>1, <2>3
  <2>5. g \in [Up(n + 1) -> V]
    <3> SUFFICES ASSUME NEW s \in Up(n + 1) PROVE FoldStep(f, s, base, c, G) \in V
      OBVIOUS
    <3>1. CASE s = {} BY <3>1 DEF FoldStep
    <3>2. CASE s # {}
      <4>1. f[s \ {c[s]}] \in V BY <2>1, <2>2, <3>2
      <4>2. G[f[s \ {c[s]}]] \in [D -> V] BY <4>1
      <4>3. G[f[s \ {c[s]}]][c[s]] \in V BY <2>2, <3>2, <4>2
      <4> HIDE DEF Up
      <4> QED BY <3>2, <4>3 DEF FoldStep
    <3> QED BY <3>1, <3>2
  <2>6. ASSUME NEW s \in Up(n + 1) PROVE g[s] = FoldStep(g, s, base, c, G)
    <3>1. g[s] = FoldStep(f, s, base, c, G) OBVIOUS
    <3>2. s # {} => g[s \ {c[s]}] = f[s \ {c[s]}] BY <2>2, <2>4
    <3> HIDE DEF g, Up
    <3> QED BY <3>1, <3>2 DEF FoldStep
  <2>7. Good(g, n + 1) BY <2>5, <2>6
  <2>8. \E h : Good(h, n + 1)
    <3> HIDE DEF Good, g
    <3> QED BY <2>7
  <2>9. n \in Nat OBVIOUS
  <2> HIDE DEF Good
  <2> QED BY <2>8, <2>9
<1>4. N = Nat
  <2>1. N \in SUBSET Nat OBVIOUS
  <2> HIDE DEF N
  <2> QED BY <1>2, <1>3, <2>1, NatInductionSet, Zenon
<1>5. Cardinality(D) \in N BY <1>1, <1>4
<1>6. PICK f : Good(f, Cardinality(D)) BY <1>5
<1>7. Up(Cardinality(D)) = SUBSET D BY FS_Subset
<1> QED BY <1>6, <1>7 DEF IsFoldOf

-----------------------------------------------------------------------------
(* Sums: SumFunctionOnSet(g, D) is the fold below. *)

IsSum(f, D, g) ==
  f = [s \in SUBSET D |-> IF s = {} THEN 0
                          ELSE g[CHOOSE x \in s : TRUE] + f[s \ {CHOOSE x \in s : TRUE}]]
SumFun(D, g) == CHOOSE f : IsSum(f, D, g)

LEMMA SumUnfold ==
  ASSUME NEW D, NEW g
  PROVE  SumFunctionOnSet(g, D) = SumFun(D, g)[D]
BY DEF SumFunctionOnSet, FoldFunctionOnSet, MapThenFoldSet, IsSum, SumFun

LEMMA SumFunDefined ==
  ASSUME NEW D, IsFiniteSet(D), NEW g, \A x \in D : g[x] \in Int
  PROVE  IsSum(SumFun(D, g), D, g)
<1> DEFINE c == [s \in SUBSET D |-> CHOOSE x \in s : TRUE]
           G == [n \in Int |-> [x \in D |-> g[x] + n]]
<1>1. \A s \in SUBSET D : s # {} => c[s] \in s OBVIOUS
<1>2. G \in [Int -> [D -> Int]] OBVIOUS
<1>3. PICK f \in [SUBSET D -> Int] : \A s \in SUBSET D : f[s] = FoldStep(f, s, 0, c, G)
  <2> DEFINE V == Int
             zero == 0
  <2>1. zero \in V /\ G \in [V -> [D -> V]] BY <1>2
  <2>2. \E f : IsFoldOf(f, D, V, zero, c, G)
    <3> HIDE DEF c, G, V, zero
    <3> QED BY <1>1, <2>1, FoldExists
  <2> QED BY <2>2 DEF IsFoldOf
<1>4. ASSUME NEW s \in SUBSET D, s # {}
      PROVE  f[s] = g[CHOOSE x \in s : TRUE] + f[s \ {CHOOSE x \in s : TRUE}]
  <2>1. c[s] = (CHOOSE x \in s : TRUE) /\ c[s] \in D BY <1>1, <1>4
  <2>2. f[s] = G[f[s \ {c[s]}]][c[s]]
    <3> HIDE DEF c, G
    <3> QED BY <1>3, <1>4 DEF FoldStep
  <2>3. f[s \ {c[s]}] \in Int BY <1>3
  <2>4. G[f[s \ {c[s]}]][c[s]] = g[c[s]] + f[s \ {c[s]}]
    <3> HIDE DEF c
    <3> QED BY <2>1, <2>3
  <2> QED BY <2>1, <2>2, <2>4
<1>5. f[{}] = 0 BY <1>3 DEF FoldStep
<1>6. IsSum(f, D, g) BY <1>3, <1>4, <1>5 DEF IsSum
<1> QED BY <1>6 DEF SumFun

LEMMA SumFunEmpty ==
  ASSUME NEW D, IsFiniteSet(D), NEW g, \A x \in D : g[x] \in Int
  PROVE  SumFun(D, g)[{}] = 0
<1>1. IsSum(SumFun(D, g), D, g) BY SumFunDefined
<1> QED BY <1>1 DEF IsSum

LEMMA SumFunStep ==
  ASSUME NEW D, IsFiniteSet(D), NEW g, \A x \in D : g[x] \in Int, NEW s \in SUBSET D, s # {}
  PROVE  \E x \in s : /\ x = CHOOSE y \in s : TRUE
                      /\ SumFun(D, g)[s] = g[x] + SumFun(D, g)[s \ {x}]
<1>1. IsSum(SumFun(D, g), D, g) BY SumFunDefined
<1> DEFINE f == SumFun(D, g)
           x == CHOOSE y \in s : TRUE
<1>2. x \in s OBVIOUS
<1>3. f[s] = g[x] + f[s \ {x}]
  <2> HIDE DEF f
  <2>1. f = [t \in SUBSET D |-> IF t = {} THEN 0
                                ELSE g[CHOOSE y \in t : TRUE] + f[t \ {CHOOSE y \in t : TRUE}]]
    BY <1>1 DEF IsSum, f
  <2> QED BY <2>1
<1> QED BY <1>2, <1>3

(* The sum of part of a set does not depend on the rest of it. *)
LEMMA SumFunPart ==
  ASSUME NEW D, IsFiniteSet(D), NEW g, \A x \in D : g[x] \in Int, NEW E \in SUBSET D
  PROVE  SumFun(D, g)[E] = SumFunctionOnSet(g, E)
<1> DEFINE Q == {s \in SUBSET E : SumFun(D, g)[s] = SumFun(E, g)[s]}
<1>1. IsFiniteSet(E) BY FS_Subset
<1>2. ASSUME NEW T \in SUBSET E, \A U \in SUBSET T : U # T => U \in Q
      PROVE  SumFun(D, g)[T] = SumFun(E, g)[T]
  <2>0. \A x \in E : g[x] \in Int OBVIOUS
  <2>1. CASE T = {} BY <1>1, <2>0, <2>1, SumFunEmpty
  <2>2. CASE T # {}
    <3>1. PICK x \in T : /\ x = CHOOSE y \in T : TRUE
                         /\ SumFun(D, g)[T] = g[x] + SumFun(D, g)[T \ {x}]
      <4>1. T \in SUBSET D OBVIOUS
      <4> QED BY <2>2, <4>1, SumFunStep
    <3>2. PICK z \in T : /\ z = CHOOSE y \in T : TRUE
                         /\ SumFun(E, g)[T] = g[z] + SumFun(E, g)[T \ {z}]
      BY <1>1, <2>0, <2>2, SumFunStep
    <3>3. x = z BY <3>1, <3>2
    <3>4. SumFun(D, g)[T \ {x}] = SumFun(E, g)[T \ {x}] BY <1>2
    <3> QED BY <3>1, <3>2, <3>3, <3>4
  <2> QED BY <2>1, <2>2
<1>3. Q = SUBSET E
  <2>1. \A T \in SUBSET E : (\A U \in SUBSET T : U # T => U \in Q) => T \in Q BY <1>2
  <2>2. Q \in SUBSET (SUBSET E) OBVIOUS
  <2> HIDE DEF Q
  <2> QED BY <1>1, <2>1, <2>2, SubsetInductionSet, Zenon
<1>4. E \in Q BY <1>3
<1> QED BY <1>4, SumUnfold

LEMMA SumEmpty ==
  ASSUME NEW g
  PROVE  SumFunctionOnSet(g, {}) = 0
BY SumUnfold, SumFunEmpty, FS_EmptySet

LEMMA SumChosen ==
  ASSUME NEW D, IsFiniteSet(D), NEW g, \A x \in D : g[x] \in Int, D # {}
  PROVE  \E x \in D : SumFunctionOnSet(g, D) = g[x] + SumFunctionOnSet(g, D \ {x})
<1>1. PICK x \in D : SumFun(D, g)[D] = g[x] + SumFun(D, g)[D \ {x}]
  <2>1. D \in SUBSET D OBVIOUS
  <2> QED BY <2>1, SumFunStep
<1>2. SumFun(D, g)[D \ {x}] = SumFunctionOnSet(g, D \ {x}) BY SumFunPart
<1> QED BY <1>1, <1>2, SumUnfold

LEMMA SumType ==
  ASSUME NEW D, IsFiniteSet(D), NEW g, NEW N, N = Nat \/ N = Int, \A x \in D : g[x] \in N
  PROVE  SumFunctionOnSet(g, D) \in N
<1> DEFINE Q == {s \in SUBSET D : SumFunctionOnSet(g, s) \in N}
<1>1. ASSUME NEW T \in SUBSET D, \A U \in SUBSET T : U # T => U \in Q
      PROVE  SumFunctionOnSet(g, T) \in N
  <2>1. CASE T = {} BY <2>1, SumEmpty
  <2>2. CASE T # {}
    <3>1. PICK x \in T : SumFunctionOnSet(g, T) = g[x] + SumFunctionOnSet(g, T \ {x})
      <4>1. IsFiniteSet(T) /\ \A x \in T : g[x] \in Int BY FS_Subset
      <4> QED BY <2>2, <4>1, SumChosen
    <3>2. SumFunctionOnSet(g, T \ {x}) \in N BY <1>1
    <3>3. g[x] \in N OBVIOUS
    <3> QED BY <3>1, <3>2, <3>3
  <2> QED BY <2>1, <2>2
<1>2. Q = SUBSET D
  <2>1. \A T \in SUBSET D : (\A U \in SUBSET T : U # T => U \in Q) => T \in Q BY <1>1
  <2>2. Q \in SUBSET (SUBSET D) OBVIOUS
  <2> HIDE DEF Q
  <2> QED BY <2>1, <2>2, SubsetInductionSet, Zenon
<1>3. D \in Q BY <1>2
<1> QED BY <1>3

(* Any element may be taken out first. *)
LEMMA SumRemove ==
  ASSUME NEW D, IsFiniteSet(D), NEW g, \A x \in D : g[x] \in Int, NEW y \in D
  PROVE  SumFunctionOnSet(g, D) = g[y] + SumFunctionOnSet(g, D \ {y})
<1> DEFINE S(s) == SumFunctionOnSet(g, s)
           Q == {s \in SUBSET D : \A x \in s : S(s) = g[x] + S(s \ {x})}
<1>1. ASSUME NEW T \in SUBSET D, \A U \in SUBSET T : U # T => U \in Q, NEW x \in T
      PROVE  S(T) = g[x] + S(T \ {x})
  <2>1. PICK z \in T : S(T) = g[z] + S(T \ {z})
    <3>1. IsFiniteSet(T) /\ (\A w \in T : g[w] \in Int) /\ T # {} BY FS_Subset
    <3> QED BY <3>1, SumChosen
  <2>2. CASE x = z BY <2>1, <2>2
  <2>3. CASE x # z
    <3>1. T \ {z} \in Q /\ T \ {x} \in Q BY <1>1
    <3>2. S(T \ {z}) = g[x] + S((T \ {z}) \ {x})
      <4> HIDE DEF S
      <4> QED BY <2>3, <3>1
    <3>3. S(T \ {x}) = g[z] + S((T \ {x}) \ {z})
      <4> HIDE DEF S
      <4> QED BY <2>3, <3>1
    <3>4. (T \ {z}) \ {x} = (T \ {x}) \ {z} OBVIOUS
    <3>5. S((T \ {x}) \ {z}) \in Int
      <4>1. IsFiniteSet((T \ {x}) \ {z}) BY FS_Subset
      <4> QED BY <4>1, SumType
    <3>6. g[x] \in Int /\ g[z] \in Int OBVIOUS
    <3> DEFINE rest == S((T \ {x}) \ {z})
    <3> HIDE DEF S, rest
    <3>7. g[z] + (g[x] + rest) = g[x] + (g[z] + rest) BY <3>5, <3>6 DEF rest
    <3> QED BY <2>1, <3>2, <3>3, <3>4, <3>7 DEF rest
  <2> QED BY <2>2, <2>3
<1>2. Q = SUBSET D
  <2>1. \A T \in SUBSET D : (\A U \in SUBSET T : U # T => U \in Q) => T \in Q BY <1>1
  <2>2. Q \in SUBSET (SUBSET D) OBVIOUS
  <2> HIDE DEF Q
  <2> QED BY <2>1, <2>2, SubsetInductionSet, Zenon
<1>3. D \in Q BY <1>2
<1> QED BY <1>3

LEMMA SumAdd ==
  ASSUME NEW D, IsFiniteSet(D), NEW g, NEW y, y \notin D, \A x \in D \cup {y} : g[x] \in Int
  PROVE  SumFunctionOnSet(g, D \cup {y}) = g[y] + SumFunctionOnSet(g, D)
<1>1. (D \cup {y}) \ {y} = D OBVIOUS
<1>2. IsFiniteSet(D \cup {y}) BY FS_AddElement
<1> QED BY <1>1, <1>2, SumRemove

(* Equal summands have equal sums. *)
LEMMA SumSame ==
  ASSUME NEW D, IsFiniteSet(D), NEW g, NEW h, \A x \in D : g[x] \in Int /\ h[x] = g[x]
  PROVE  SumFunctionOnSet(h, D) = SumFunctionOnSet(g, D)
<1> DEFINE Q == {s \in SUBSET D : SumFunctionOnSet(h, s) = SumFunctionOnSet(g, s)}
<1>1. ASSUME NEW T \in SUBSET D, \A U \in SUBSET T : U # T => U \in Q
      PROVE  SumFunctionOnSet(h, T) = SumFunctionOnSet(g, T)
  <2>1. CASE T = {} BY <2>1, SumEmpty
  <2>2. CASE T # {}
    <3>1. IsFiniteSet(T) /\ \A x \in T : g[x] \in Int /\ h[x] \in Int BY FS_Subset
    <3>2. PICK x \in T : SumFunctionOnSet(g, T) = g[x] + SumFunctionOnSet(g, T \ {x})
      BY <2>2, <3>1, SumChosen
    <3>3. SumFunctionOnSet(h, T) = h[x] + SumFunctionOnSet(h, T \ {x})
      BY <3>1, SumRemove
    <3>4. SumFunctionOnSet(h, T \ {x}) = SumFunctionOnSet(g, T \ {x}) BY <1>1
    <3> QED BY <3>2, <3>3, <3>4
  <2> QED BY <2>1, <2>2
<1>2. Q = SUBSET D
  <2>1. \A T \in SUBSET D : (\A U \in SUBSET T : U # T => U \in Q) => T \in Q BY <1>1
  <2>2. Q \in SUBSET (SUBSET D) OBVIOUS
  <2> HIDE DEF Q
  <2> QED BY <2>1, <2>2, SubsetInductionSet, Zenon
<1>3. D \in Q BY <1>2
<1> QED BY <1>3
====
