---- MODULE IhmsStockProofs ----
(***************************************************************************)
(* Proofs about IhmsStock: what merging computes for every list of lines,  *)
(* and that every step of the calls and of KB-IHMS keeps its stock right.  *)
(***************************************************************************)
EXTENDS IhmsStock, FoldProofs

-----------------------------------------------------------------------------
(* The largest of finitely many numbers *)

LEMMA MaxOf ==
  ASSUME NEW n \in Nat, NEW s \in SUBSET (1..n), s # {}
  PROVE  Max(s) \in s /\ \A y \in s : Max(s) >= y
<1> DEFINE HasMax(t) == \E x \in t : \A y \in t : x >= y
           P == {m \in Nat : \A t \in SUBSET (1..m) : t # {} => HasMax(t)}
<1>1. 0 \in P
  <2>1. \A t \in SUBSET (1..0) : t = {} OBVIOUS
  <2> QED BY <2>1
<1>2. ASSUME NEW m \in P PROVE m + 1 \in P
  <2>0. m \in Nat OBVIOUS
  <2>1. SUFFICES ASSUME NEW t \in SUBSET (1..(m + 1)), t # {} PROVE HasMax(t)
    BY <2>0
  <2>2. CASE m + 1 \in t
    <3>1. \A y \in t : m + 1 >= y BY <2>0
    <3> QED BY <2>2, <3>1
  <2>3. CASE m + 1 \notin t
    <3>1. t \in SUBSET (1..m) BY <2>0, <2>3
    <3>2. \A u \in SUBSET (1..m) : u # {} => HasMax(u) OBVIOUS
    <3> QED BY <2>1, <3>1, <3>2
  <2> QED BY <2>2, <2>3
<1>3. P = Nat
  <2>1. P \in SUBSET Nat OBVIOUS
  <2> HIDE DEF P
  <2> QED BY <1>1, <1>2, <2>1, NatInductionSet, Zenon
<1>4. HasMax(s) BY <1>3
<1> QED BY <1>4 DEF Max

LEMMA MaxOfOne ==
  ASSUME NEW i \in Int
  PROVE  Max({i}) = i
BY DEF Max

-----------------------------------------------------------------------------
(* merged_quantities *)

TotalIn(lines, s, k) ==
  SumFunctionOnSet([i \in DOMAIN lines |-> lines[i].quantity], {i \in s : lines[i].sku = k})

(* m is what the lines with numbers in s merge to: a line per product with all of it. *)
Merges(m, lines, s) ==
  /\ m \in Seq(Line)
  /\ \A i, j \in DOMAIN m : m[i].sku = m[j].sku => i = j
  /\ \A i \in DOMAIN m : \E j \in s : lines[j].sku = m[i].sku
  /\ \A j \in s : \E i \in DOMAIN m : m[i].sku = lines[j].sku
  /\ \A i \in DOMAIN m : m[i].quantity = TotalIn(lines, s, m[i].sku)

LEMMA LinesFinite ==
  ASSUME NEW lines \in Seq(Line)
  PROVE  /\ IsFiniteSet(DOMAIN lines)
         /\ \A i \in DOMAIN lines : lines[i].sku \in Products /\ lines[i].quantity \in Nat
<1>1. DOMAIN lines = 1..Len(lines) /\ Len(lines) \in Nat OBVIOUS
<1>2. IsFiniteSet(DOMAIN lines) BY <1>1, FS_Interval
<1>3. \A i \in DOMAIN lines : lines[i] \in Line OBVIOUS
<1> QED BY <1>2, <1>3 DEF Line

LEMMA TotalWith ==
  ASSUME NEW lines \in Seq(Line), NEW s \in SUBSET DOMAIN lines, NEW x \in s, NEW k
  PROVE  /\ lines[x].sku # k => TotalIn(lines, s, k) = TotalIn(lines, s \ {x}, k)
         /\ lines[x].sku = k =>
              TotalIn(lines, s, k) = lines[x].quantity + TotalIn(lines, s \ {x}, k)
<1> DEFINE mine == {i \in s : lines[i].sku = k}
           g == [i \in DOMAIN lines |-> lines[i].quantity]
<1>1. lines[x].sku # k => mine = {i \in s \ {x} : lines[i].sku = k} OBVIOUS
<1>2. CASE lines[x].sku = k
  <2>1. mine \ {x} = {i \in s \ {x} : lines[i].sku = k} /\ x \in mine BY <1>2
  <2>2. IsFiniteSet(mine) BY LinesFinite, FS_Subset, mine \in SUBSET DOMAIN lines
  <2>3. \A i \in mine : g[i] \in Int BY LinesFinite
  <2>4. g[x] = lines[x].quantity OBVIOUS
  <2> HIDE DEF g, mine
  <2>5. SumFunctionOnSet(g, mine) = g[x] + SumFunctionOnSet(g, mine \ {x})
    BY <2>1, <2>2, <2>3, SumRemove
  <2> QED BY <1>2, <2>1, <2>4, <2>5 DEF TotalIn, mine, g
<1> QED BY <1>1, <1>2 DEF TotalIn

LEMMA TotalInNat ==
  ASSUME NEW lines \in Seq(Line), NEW s \in SUBSET DOMAIN lines, NEW k
  PROVE  TotalIn(lines, s, k) \in Nat
<1> DEFINE mine == {i \in s : lines[i].sku = k}
           g == [i \in DOMAIN lines |-> lines[i].quantity]
<1>1. IsFiniteSet(mine) BY LinesFinite, FS_Subset, mine \in SUBSET DOMAIN lines
<1>2. \A i \in mine : g[i] \in Nat BY LinesFinite
<1>3. SumFunctionOnSet(g, mine) \in Nat
  <2> HIDE DEF g, mine
  <2> QED BY <1>1, <1>2, SumType
<1> QED BY <1>3 DEF TotalIn

LEMMA TotalInNone ==
  ASSUME NEW lines, NEW s, NEW k, \A i \in s : lines[i].sku # k
  PROVE  TotalIn(lines, s, k) = 0
<1>1. {i \in s : lines[i].sku = k} = {} OBVIOUS
<1> QED BY <1>1, SumEmpty DEF TotalIn

LEMMA MergeType ==
  ASSUME NEW m \in Seq(Line), NEW line \in Line
  PROVE  /\ Merge(m, line) \in Seq(Line)
         /\ DOMAIN m \subseteq DOMAIN Merge(m, line)
         /\ \A i \in DOMAIN Merge(m, line) :
              \/ i \in DOMAIN m
              \/ i \notin DOMAIN m /\ i = Len(m) + 1 /\ Merge(m, line)[i] = line
                   /\ \A j \in DOMAIN m : m[j].sku # line.sku
         /\ \A i \in DOMAIN m :
              /\ Merge(m, line)[i].sku = m[i].sku
              /\ m[i].sku # line.sku => Merge(m, line)[i] = m[i]
              /\ m[i].sku = line.sku => Merge(m, line)[i].quantity = m[i].quantity + line.quantity
         /\ \E i \in DOMAIN Merge(m, line) : Merge(m, line)[i].sku = line.sku
<1>0. \A i \in DOMAIN m : m[i] \in Line OBVIOUS
<1>1. CASE \E i \in DOMAIN m : m[i].sku = line.sku
  <2> DEFINE joined == [i \in DOMAIN m |->
               IF m[i].sku = line.sku THEN [m[i] EXCEPT !.quantity = @ + line.quantity] ELSE m[i]]
  <2>1. Merge(m, line) = joined BY <1>1 DEF Merge
  <2>2. \A i \in DOMAIN m : joined[i] \in Line BY <1>0, SMTT(30) DEF Line
  <2>3. joined \in Seq(Line)
    <3>1. DOMAIN m = 1..Len(m) /\ Len(m) \in Nat OBVIOUS
    <3> HIDE DEF joined
    <3>2. joined \in [1..Len(m) -> Line] BY <2>2, <3>1 DEF joined
    <3> QED BY <3>1, <3>2
  <2>4. \A i \in DOMAIN m :
          /\ joined[i].sku = m[i].sku
          /\ m[i].sku # line.sku => joined[i] = m[i]
          /\ m[i].sku = line.sku => joined[i].quantity = m[i].quantity + line.quantity
    BY <1>0 DEF Line
  <2>5. DOMAIN joined = DOMAIN m OBVIOUS
  <2> HIDE DEF joined
  <2> QED BY <1>1, <2>1, <2>3, <2>4, <2>5
<1>2. CASE ~\E i \in DOMAIN m : m[i].sku = line.sku
  <2>1. Merge(m, line) = Append(m, line) BY <1>2 DEF Merge
  <2>2. Append(m, line) \in Seq(Line) OBVIOUS
  <2>3. DOMAIN m = 1..Len(m) /\ Len(m) \in Nat OBVIOUS
  <2>4. DOMAIN Append(m, line) = 1..(Len(m) + 1) OBVIOUS
  <2>5. Append(m, line)[Len(m) + 1] = line OBVIOUS
  <2>6. \A i \in DOMAIN m : Append(m, line)[i] = m[i] OBVIOUS
  <2>7. \A i \in 1..(Len(m) + 1) : i \in 1..Len(m) \/ i = Len(m) + 1 BY <2>3
  <2>8. Len(m) + 1 \notin 1..Len(m) /\ Len(m) + 1 \in 1..(Len(m) + 1) BY <2>3
  <2>9. 1..Len(m) \subseteq 1..(Len(m) + 1) BY <2>3
  <2> QED BY <1>2, <2>1, <2>2, <2>3, <2>4, <2>5, <2>6, <2>7, <2>8, <2>9
<1> QED BY <1>1, <1>2

(* One more line is merged. *)
LEMMA MergeOne ==
  ASSUME NEW lines \in Seq(Line), NEW s \in SUBSET DOMAIN lines, NEW x \in s,
         NEW m, Merges(m, lines, s \ {x})
  PROVE  Merges(Merge(m, lines[x]), lines, s)
<1> DEFINE line == lines[x]
           next == Merge(m, line)
<1>0. line \in Line /\ line.sku \in Products /\ line.quantity \in Nat
  <2>1. x \in DOMAIN lines OBVIOUS
  <2>2. lines[x] \in Line BY <2>1
  <2> QED BY <2>2 DEF Line
<1>1. m \in Seq(Line) BY DEF Merges
<1>2. /\ next \in Seq(Line)
      /\ DOMAIN m \subseteq DOMAIN next
      /\ \A i \in DOMAIN next :
           \/ i \in DOMAIN m
           \/ i \notin DOMAIN m /\ i = Len(m) + 1 /\ next[i] = line
                /\ \A j \in DOMAIN m : m[j].sku # line.sku
      /\ \A i \in DOMAIN m :
           /\ next[i].sku = m[i].sku
           /\ m[i].sku # line.sku => next[i] = m[i]
           /\ m[i].sku = line.sku => next[i].quantity = m[i].quantity + line.quantity
      /\ \E i \in DOMAIN next : next[i].sku = line.sku
  BY <1>0, <1>1, MergeType
<1> HIDE DEF line, next
<1>3. \A i, j \in DOMAIN next : next[i].sku = next[j].sku => i = j
  BY <1>2 DEF Merges
<1>4. \A i \in DOMAIN next : \E j \in s : lines[j].sku = next[i].sku
  BY <1>2 DEF Merges, line
<1>5. \A j \in s : \E i \in DOMAIN next : next[i].sku = lines[j].sku
  <2> SUFFICES ASSUME NEW j \in s PROVE \E i \in DOMAIN next : next[i].sku = lines[j].sku
    OBVIOUS
  <2>1. CASE j = x BY <1>2, <2>1 DEF line
  <2>2. CASE j # x
    <3>1. PICK i \in DOMAIN m : m[i].sku = lines[j].sku BY <2>2 DEF Merges
    <3> QED BY <1>2, <3>1
  <2> QED BY <2>1, <2>2
<1>6. ASSUME NEW i \in DOMAIN next PROVE next[i].quantity = TotalIn(lines, s, next[i].sku)
  <2>1. CASE i \in DOMAIN m /\ m[i].sku # line.sku
    <3>1. next[i] = m[i] BY <1>2, <2>1
    <3>2. m[i].quantity = TotalIn(lines, s \ {x}, m[i].sku) BY <2>1 DEF Merges
    <3>3. TotalIn(lines, s, m[i].sku) = TotalIn(lines, s \ {x}, m[i].sku)
      BY <2>1, TotalWith DEF line
    <3> QED BY <3>1, <3>2, <3>3
  <2>2. CASE i \in DOMAIN m /\ m[i].sku = line.sku
    <3>1. next[i].sku = line.sku /\ next[i].quantity = m[i].quantity + line.quantity BY <1>2, <2>2
    <3>2. m[i].quantity = TotalIn(lines, s \ {x}, line.sku) BY <2>2 DEF Merges
    <3>3. TotalIn(lines, s, line.sku) = line.quantity + TotalIn(lines, s \ {x}, line.sku)
      BY TotalWith DEF line
    <3>4. TotalIn(lines, s \ {x}, line.sku) \in Nat BY TotalInNat
    <3> QED BY <1>0, <3>1, <3>2, <3>3, <3>4
  <2>3. CASE i \notin DOMAIN m
    <3>1. next[i] = line /\ \A j \in DOMAIN m : m[j].sku # line.sku BY <1>2, <2>3
    <3>2. \A j \in s \ {x} : lines[j].sku # line.sku BY <3>1 DEF Merges
    <3>3. TotalIn(lines, s \ {x}, line.sku) = 0 BY <3>2, TotalInNone
    <3>4. TotalIn(lines, s, line.sku) = line.quantity + TotalIn(lines, s \ {x}, line.sku)
      BY TotalWith DEF line
    <3> QED BY <1>0, <3>1, <3>3, <3>4
  <2> QED BY <2>1, <2>2, <2>3
<1> QED BY <1>2, <1>3, <1>4, <1>5, <1>6 DEF Merges, next, line

(* The fold that Merged is *)

IsMerging(f, lines) ==
  f = [s \in SUBSET DOMAIN lines |-> IF s = {} THEN <<>> ELSE Merge(f[s \ {Max(s)}], lines[Max(s)])]

LEMMA MergedUnfold ==
  ASSUME NEW lines
  PROVE  Merged(lines) = (CHOOSE f : IsMerging(f, lines))[DOMAIN lines]
BY DEF Merged, FoldLeft, MapThenFoldSet, IsMerging

LEMMA MaxOfLines ==
  ASSUME NEW lines \in Seq(Line), NEW s \in SUBSET DOMAIN lines, s # {}
  PROVE  Max(s) \in s
<1>1. DOMAIN lines = 1..Len(lines) /\ Len(lines) \in Nat OBVIOUS
<1> QED BY <1>1, MaxOf

LEMMA MergingExists ==
  ASSUME NEW lines \in Seq(Line)
  PROVE  \E f : IsMerging(f, lines)
<1> DEFINE D == DOMAIN lines
           V == Seq(Line)
           c == [s \in SUBSET D |-> Max(s)]
           G == [m \in V |-> [i \in D |-> Merge(m, lines[i])]]
           base == <<>>
<1>1. \A s \in SUBSET D : s # {} => c[s] \in s BY MaxOfLines
<1>2. G \in [V -> [D -> V]]
  <2>1. \A i \in D : lines[i] \in Line OBVIOUS
  <2>2. \A m \in V, i \in D : Merge(m, lines[i]) \in V BY <2>1, MergeType
  <2> QED BY <2>2
<1>3. base \in V OBVIOUS
<1>4. IsFiniteSet(D) BY LinesFinite
<1>5. PICK f : IsFoldOf(f, D, V, base, c, G)
  <2> HIDE DEF D, V, c, G, base
  <2> QED BY <1>1, <1>2, <1>3, <1>4, FoldExists
<1>6. ASSUME NEW s \in SUBSET D, s # {} PROVE f[s] = Merge(f[s \ {Max(s)}], lines[Max(s)])
  <2>1. c[s] = Max(s) /\ Max(s) \in D BY <1>1, <1>6
  <2>2. f[s \ {Max(s)}] \in V BY <1>5 DEF IsFoldOf
  <2>3. f[s] = G[f[s \ {Max(s)}]][Max(s)]
    <3> HIDE DEF G, c, V, base
    <3> QED BY <1>5, <1>6, <2>1 DEF IsFoldOf, FoldStep
  <2> HIDE DEF V, D
  <2> QED BY <2>1, <2>2, <2>3
<1>7. f[{}] = <<>> BY <1>5 DEF IsFoldOf, FoldStep
<1>8. f = [s \in SUBSET D |-> f[s]] BY <1>5 DEF IsFoldOf
<1>9. IsMerging(f, lines) BY <1>6, <1>7, <1>8 DEF IsMerging
<1> QED BY <1>9

(* Merging is right for every list of lines: one line for each product asked for, *)
(* with all that is asked of it.                                                  *)
THEOREM MergingIsRight ==
  ASSUME NEW lines \in Seq(Line)
  PROVE  Merges(Merged(lines), lines, DOMAIN lines)
<1> DEFINE D == DOMAIN lines
           f == CHOOSE f : IsMerging(f, lines)
           Q == {s \in SUBSET D : Merges(f[s], lines, s)}
<1>1. IsMerging(f, lines)
  <2>1. \E g : IsMerging(g, lines) BY MergingExists
  <2> HIDE DEF IsMerging
  <2> QED BY <2>1
<1> HIDE DEF f
<1>2. f[{}] = <<>> BY <1>1 DEF IsMerging
<1>3. \A s \in SUBSET D : s # {} => f[s] = Merge(f[s \ {Max(s)}], lines[Max(s)])
  BY <1>1 DEF IsMerging
<1>4. ASSUME NEW T \in SUBSET D, \A U \in SUBSET T : U # T => U \in Q
      PROVE  Merges(f[T], lines, T)
  <2>1. CASE T = {}
    <3>1. f[T] = <<>> BY <1>2, <2>1
    <3>2. DOMAIN <<>> = {} /\ <<>> \in Seq(Line) OBVIOUS
    <3> QED BY <2>1, <3>1, <3>2 DEF Merges
  <2>2. CASE T # {}
    <3>1. Max(T) \in T BY <2>2, MaxOfLines
    <3>2. Merges(f[T \ {Max(T)}], lines, T \ {Max(T)}) BY <1>4, <3>1
    <3> QED BY <1>3, <2>2, <3>1, <3>2, MergeOne
  <2> QED BY <2>1, <2>2
<1>5. Q = SUBSET D
  <2>1. \A T \in SUBSET D : (\A U \in SUBSET T : U # T => U \in Q) => T \in Q BY <1>4
  <2>2. Q \in SUBSET (SUBSET D) OBVIOUS
  <2>3. IsFiniteSet(D) BY LinesFinite
  <2> HIDE DEF Q, D
  <2> QED BY <2>1, <2>2, <2>3, SubsetInductionSet, Zenon
<1>6. D \in Q BY <1>5
<1> QED BY <1>6, MergedUnfold DEF f

-----------------------------------------------------------------------------
(* What KB-IHMS reserves *)

LEMMA ReservedType ==
  ASSUME NEW lines \in Seq(Line)
  PROVE  /\ Reserved(lines) \in Quantities
         /\ \A s \in Products : Reserved(lines)[s] = 0
              \/ \E i \in DOMAIN lines : lines[i].sku = s /\ Reserved(lines)[s] = lines[i].quantity
<1> DEFINE mine(s) == {i \in DOMAIN lines : lines[i].sku = s}
<1>1. ASSUME NEW s \in Products
      PROVE  Reserved(lines)[s] = 0
               \/ \E i \in DOMAIN lines : lines[i].sku = s /\ Reserved(lines)[s] = lines[i].quantity
  <2>1. CASE mine(s) = {} BY <2>1 DEF Reserved
  <2>2. CASE mine(s) # {}
    <3>1. Max(mine(s)) \in mine(s)
      <4>1. mine(s) \in SUBSET DOMAIN lines OBVIOUS
      <4> QED BY <2>2, <4>1, MaxOfLines
    <3>2. Reserved(lines)[s] = lines[Max(mine(s))].quantity BY <2>2 DEF Reserved
    <3> HIDE DEF Reserved
    <3> QED BY <3>1, <3>2
  <2> QED BY <2>1, <2>2
<1>2. \A s \in Products : Reserved(lines)[s] \in Nat BY <1>1, LinesFinite
<1>3. Reserved(lines) = [s \in Products |-> Reserved(lines)[s]] BY DEF Reserved
<1> QED BY <1>1, <1>2, <1>3 DEF Quantities

(* KB-IHMS reserves all of what was asked for, if the lines were merged. *)
LEMMA ReservedIsTotal ==
  ASSUME NEW lines \in Seq(Line)
  PROVE  Reserved(Merged(lines)) = Total(lines)
<1> DEFINE m == Merged(lines)
<1>1. Merges(m, lines, DOMAIN lines) BY MergingIsRight
<1> HIDE DEF m
<1>2. m \in Seq(Line) BY <1>1 DEF Merges
<1>3. ASSUME NEW k \in Products PROVE Reserved(m)[k] = TotalIn(lines, DOMAIN lines, k)
  <2> DEFINE mine == {i \in DOMAIN m : m[i].sku = k}
  <2>1. CASE mine = {}
    <3>1. Reserved(m)[k] = 0 BY <2>1 DEF Reserved
    <3>2. \A j \in DOMAIN lines : lines[j].sku # k BY <1>1, <2>1 DEF Merges
    <3> QED BY <3>1, <3>2, TotalInNone
  <2>2. CASE mine # {}
    <3>1. PICK i : i \in mine BY <2>2
    <3>2. mine = {i} BY <1>1, <3>1 DEF Merges
    <3>3. i \in Int BY <1>2, <3>1
    <3>4. Reserved(m)[k] = m[i].quantity BY <3>1, <3>2, <3>3, MaxOfOne DEF Reserved
    <3>5. m[i].quantity = TotalIn(lines, DOMAIN lines, m[i].sku) BY <1>1, <3>1 DEF Merges
    <3> QED BY <3>1, <3>4, <3>5
  <2> QED BY <2>1, <2>2
<1>4. \A k \in Products : Total(lines)[k] = TotalIn(lines, DOMAIN lines, k) BY DEF Total, TotalIn
<1>5. Reserved(m) = [k \in Products |-> Reserved(m)[k]] BY DEF Reserved
<1>6. Total(lines) = [k \in Products |-> Total(lines)[k]] BY DEF Total
<1> QED BY <1>3, <1>4, <1>5, <1>6 DEF m

LEMMA ReservedFits ==
  ASSUME NEW lines \in Seq(Line), ~Exceeds(lines), StockTypeOK, NeverOversold
  PROVE  \A s \in Products : Reserved(lines)[s] <= inventory[s]
<1> SUFFICES ASSUME NEW s \in Products PROVE Reserved(lines)[s] <= inventory[s]
  OBVIOUS
<1>1. inventory[s] \in Int /\ inventory[s] >= 0 BY DEF StockTypeOK, NeverOversold
<1>2. CASE Reserved(lines)[s] = 0 BY <1>1, <1>2
<1>3. CASE \E i \in DOMAIN lines : lines[i].sku = s /\ Reserved(lines)[s] = lines[i].quantity
  <2>1. PICK i \in DOMAIN lines : lines[i].sku = s /\ Reserved(lines)[s] = lines[i].quantity BY <1>3
  <2>2. ~(lines[i].quantity > inventory[s]) BY <2>1 DEF Exceeds
  <2>3. lines[i].quantity \in Nat BY LinesFinite
  <2> QED BY <1>1, <2>1, <2>2, <2>3
<1> QED BY <1>2, <1>3, ReservedType

-----------------------------------------------------------------------------
(* The ledger: inventory, what holds keep, and what there was *)

InStatus(record, X) == {h \in HoldIds : record[h].status \in X}
PiecesIn(record, X, s) ==
  SumFunctionOnSet([h \in HoldIds |-> record[h].reserved[s]], InStatus(record, X))
Share(record, h, X, s) == IF record[h].status \in X THEN record[h].reserved[s] ELSE 0
KeptStatuses == {"Active", "Fulfilled"}

LEMMA HoldTypes ==
  ASSUME StockTypeOK, NEW h \in HoldIds
  PROVE  /\ holds[h] \in Hold
         /\ holds[h].reserved \in Quantities
         /\ \A s \in Products : holds[h].reserved[s] \in Nat
BY DEF StockTypeOK, Hold, Quantities

LEMMA SharesInNat ==
  ASSUME NEW record \in [HoldIds -> Hold], NEW s \in Products
  PROVE  \A h \in HoldIds : record[h].reserved[s] \in Nat
BY DEF Hold, Quantities

LEMMA PiecesType ==
  ASSUME NEW record \in [HoldIds -> Hold], NEW X, NEW s \in Products
  PROVE  PiecesIn(record, X, s) \in Nat
<1> DEFINE g == [h \in HoldIds |-> record[h].reserved[s]]
           D == InStatus(record, X)
           N == Nat
<1>1. D \in SUBSET HoldIds BY DEF InStatus
<1>2. IsFiniteSet(D) BY <1>1, FS_Subset, HoldIdsAssumption
<1>3. \A h \in D : g[h] \in N BY <1>1, SharesInNat
<1>4. SumFunctionOnSet(g, D) \in N
  <2>1. N = Nat OBVIOUS
  <2> HIDE DEF g, D, N
  <2> QED BY <1>2, <1>3, <2>1, SumType
<1> QED BY <1>4 DEF PiecesIn

(* The pieces in a set of holds are those of one of them and of the rest. *)
LEMMA PiecesWithout ==
  ASSUME NEW record \in [HoldIds -> Hold], NEW X, NEW s \in Products, NEW h \in HoldIds
  PROVE  PiecesIn(record, X, s) =
           Share(record, h, X, s) + SumFunctionOnSet([k \in HoldIds |-> record[k].reserved[s]],
                                                     InStatus(record, X) \ {h})
<1> DEFINE g == [k \in HoldIds |-> record[k].reserved[s]]
           D == InStatus(record, X)
           N == Int
<1>1. D \in SUBSET HoldIds /\ D \ {h} \in SUBSET HoldIds BY DEF InStatus
<1>2. IsFiniteSet(D) /\ IsFiniteSet(D \ {h}) BY <1>1, FS_Subset, HoldIdsAssumption
<1>3. \A k \in D : g[k] \in Int BY <1>1, SharesInNat
<1>4. SumFunctionOnSet(g, D \ {h}) \in N
  <2>1. N = Int /\ \A k \in D \ {h} : g[k] \in N BY <1>3
  <2> HIDE DEF g, D, N
  <2> QED BY <1>2, <2>1, SumType
<1>5. CASE h \in D
  <2>1. SumFunctionOnSet(g, D) = g[h] + SumFunctionOnSet(g, D \ {h})
    <3> HIDE DEF g, D
    <3> QED BY <1>2, <1>3, <1>5, SumRemove
  <2>2. Share(record, h, X, s) = g[h] BY <1>5 DEF Share, InStatus
  <2> HIDE DEF g, D
  <2> QED BY <2>1, <2>2 DEF PiecesIn, g, D
<1>6. CASE h \notin D
  <2>1. D \ {h} = D BY <1>6
  <2>2. Share(record, h, X, s) = 0 BY <1>6 DEF Share, InStatus
  <2> HIDE DEF g, D
  <2>3. SumFunctionOnSet(g, D) = 0 + SumFunctionOnSet(g, D \ {h}) BY <1>4, <2>1
  <2> QED BY <2>2, <2>3 DEF PiecesIn, g, D
<1> QED BY <1>5, <1>6

(* One hold changes: what it had leaves the sum, what it has joins it. *)
LEMMA OneHoldChanges ==
  ASSUME NEW record \in [HoldIds -> Hold], NEW new \in [HoldIds -> Hold], NEW h \in HoldIds,
         \A k \in HoldIds \ {h} : new[k] = record[k], NEW X, NEW s \in Products
  PROVE  PiecesIn(new, X, s) + Share(record, h, X, s) =
           PiecesIn(record, X, s) + Share(new, h, X, s)
<1> DEFINE g == [k \in HoldIds |-> record[k].reserved[s]]
           n == [k \in HoldIds |-> new[k].reserved[s]]
           D == InStatus(record, X) \ {h}
           N == Int
<1>1. D \in SUBSET HoldIds /\ InStatus(new, X) \ {h} = D BY DEF InStatus
<1>2. IsFiniteSet(D) BY <1>1, FS_Subset, HoldIdsAssumption
<1>3. \A k \in D : g[k] \in Int /\ n[k] = g[k] BY <1>1, SharesInNat
<1>4. SumFunctionOnSet(n, D) = SumFunctionOnSet(g, D)
  <2> HIDE DEF g, n, D
  <2> QED BY <1>2, <1>3, SumSame
<1>5. SumFunctionOnSet(g, D) \in N
  <2>1. N = Int /\ \A k \in D : g[k] \in N BY <1>3
  <2> HIDE DEF g, D, N
  <2> QED BY <1>2, <2>1, SumType
<1>6. Share(record, h, X, s) \in Int /\ Share(new, h, X, s) \in Int BY SharesInNat DEF Share
<1>7. PiecesIn(record, X, s) = Share(record, h, X, s) + SumFunctionOnSet(g, D) BY PiecesWithout
<1>8. PiecesIn(new, X, s) = Share(new, h, X, s) + SumFunctionOnSet(n, D)
  BY <1>1, PiecesWithout
<1> HIDE DEF g, n, D
<1> QED BY <1>4, <1>5, <1>6, <1>7, <1>8

(* One hold more is kept. *)
LEMMA OneMoreKept ==
  ASSUME NEW record \in [HoldIds -> Hold], NEW new \in [HoldIds -> Hold], NEW h \in HoldIds,
         \A k \in HoldIds \ {h} : new[k] = record[k], NEW X, NEW s \in Products,
         record[h].status \notin X, new[h].status \in X
  PROVE  PiecesIn(new, X, s) = PiecesIn(record, X, s) + new[h].reserved[s]
<1>1. Share(record, h, X, s) = 0 /\ Share(new, h, X, s) = new[h].reserved[s] BY DEF Share
<1>2. PiecesIn(new, X, s) + Share(record, h, X, s) = PiecesIn(record, X, s) + Share(new, h, X, s)
  BY OneHoldChanges
<1>3. PiecesIn(new, X, s) + 0 = PiecesIn(record, X, s) + new[h].reserved[s] BY <1>1, <1>2
<1> QED BY <1>3, PiecesType

LEMMA NothingIn ==
  ASSUME NEW record, NEW X, NEW s, \A h \in HoldIds : record[h].status \notin X
  PROVE  PiecesIn(record, X, s) = 0
<1>1. InStatus(record, X) = {} BY DEF InStatus
<1> QED BY <1>1, SumEmpty DEF PiecesIn

LEMMA ConservedIs ==
  /\ StockConserved <=>
       \A s \in Products : inventory[s] + PiecesIn(holds, KeptStatuses, s) = Stock[s]
  /\ StockConserved' <=>
       \A s \in Products : inventory'[s] + PiecesIn(holds', KeptStatuses, s) = Stock[s]
BY DEF StockConserved, Kept, PiecesIn, InStatus, KeptStatuses

-----------------------------------------------------------------------------
(* Every step keeps the invariant *)

LEMMA CallTypes ==
  ASSUME StockTypeOK, NEW b \in Buyers
  PROVE  call[b] \in Call /\ call[b].lines \in Seq(Line) /\ call[b].asked \in Quantities
BY DEF StockTypeOK, Call

LEMMA CallMoves ==
  ASSUME StockInv, NEW b \in Buyers, call[b].at = "stock", Becomes(b, "createHold")
  PROVE  call' \in [Buyers -> Call] /\ AsksAll'
<1>1. call[b] \in Call BY CallTypes DEF StockInv
<1>2. [call[b] EXCEPT !.at = "createHold"] \in Call BY <1>1 DEF Call
<1>3. call' \in [Buyers -> Call] BY <1>2 DEF Becomes, StockInv, StockTypeOK
<1>4. ASSUME NEW c \in Buyers, call'[c].at \in {"stock", "createHold"}
      PROVE  Reserved(call'[c].lines) = call'[c].asked
  <2>1. CASE c = b
    <3>1. call'[b] = [call[b] EXCEPT !.at = "createHold"] BY DEF Becomes, StockInv, StockTypeOK
    <3>2. call'[b].lines = call[b].lines /\ call'[b].asked = call[b].asked BY <1>1, <3>1 DEF Call
    <3> QED BY <2>1, <3>2 DEF StockInv, AsksAll
  <2>2. CASE c # b
    <3>1. call'[c] = call[c] BY <2>2 DEF Becomes, StockInv, StockTypeOK
    <3> QED BY <1>4, <3>1 DEF StockInv, AsksAll
  <2> QED BY <2>1, <2>2
<1>5. AsksAll' BY <1>4 DEF AsksAll, Reserved
<1> QED BY <1>3, <1>5

LEMMA CallReturns ==
  ASSUME StockInv, NEW b \in Buyers, NEW at \in {"idle", "held", "failed"},
         call' = [call EXCEPT ![b] = [NoCall EXCEPT !.at = at]]
  PROVE  call' \in [Buyers -> Call] /\ AsksAll'
<1> DEFINE new == [NoCall EXCEPT !.at = at]
<1>1. NoneOfIt \in Quantities BY DEF NoneOfIt, Quantities
<1>2. <<>> \in Seq(Line) OBVIOUS
<1>3. new = [at |-> at, lines |-> <<>>, asked |-> NoneOfIt] BY DEF NoCall
<1>4. new \in Call BY <1>1, <1>2, <1>3 DEF Call
<1>5. call' \in [Buyers -> Call] /\ call'[b].at = at /\ \A c \in Buyers \ {b} : call'[c] = call[c]
  BY <1>3, <1>4 DEF StockInv, StockTypeOK
<1>6. ASSUME NEW c \in Buyers, call'[c].at \in {"stock", "createHold"}
      PROVE  Reserved(call'[c].lines) = call'[c].asked
  <2>1. c # b /\ call'[c] = call[c] BY <1>5, <1>6
  <2> QED BY <1>6, <2>1 DEF StockInv, AsksAll
<1>7. AsksAll' BY <1>6 DEF AsksAll, Reserved
<1> QED BY <1>5, <1>7

(* The caller has seen its answer. *)
LEMMA CallForgotten ==
  ASSUME StockInv, NEW b \in Buyers, call' = [call EXCEPT ![b] = NoCall]
  PROVE  call' \in [Buyers -> Call] /\ AsksAll'
<1>1. NoCall = [NoCall EXCEPT !.at = "idle"] BY DEF NoCall
<1> QED BY <1>1, CallReturns

LEMMA CallKept ==
  ASSUME AsksAll, call' = call
  PROVE  AsksAll'
<1>1. ASSUME NEW c \in Buyers, call'[c].at \in {"stock", "createHold"}
      PROVE  Reserved(call'[c].lines) = call'[c].asked
  <2>1. call'[c] = call[c] OBVIOUS
  <2> QED BY <1>1, <2>1 DEF AsksAll
<1> QED BY <1>1 DEF AsksAll, Reserved

LEMMA CallStep ==
  ASSUME StockInv, call' \in [Buyers -> Call], AsksAll', UNCHANGED <<inventory, holds>>
  PROVE  StockInv'
BY DEF StockInv, StockTypeOK, NeverOversold, StockConserved, HeldAsAsked, Kept

LEMMA PlaceHoldStep ==
  ASSUME StockInv, NEW b \in Buyers, NEW lines \in Seq(Line), PlaceHold(b, lines, Total(lines))
  PROVE  StockInv'
<1> DEFINE new == [at |-> "stock", lines |-> Merged(lines), asked |-> Total(lines)]
<1>1. Merged(lines) \in Seq(Line) BY MergingIsRight DEF Merges
<1>2. Reserved(Merged(lines)) = Total(lines) BY ReservedIsTotal
<1>3. Total(lines) \in Quantities BY <1>1, <1>2, ReservedType
<1>4. new \in Call BY <1>1, <1>3 DEF Call
<1>5. call' = [call EXCEPT ![b] = new] /\ UNCHANGED <<inventory, holds>> BY DEF PlaceHold
<1>6. call' \in [Buyers -> Call] BY <1>4, <1>5 DEF StockInv, StockTypeOK
<1>7. ASSUME NEW c \in Buyers, call'[c].at \in {"stock", "createHold"}
      PROVE  Reserved(call'[c].lines) = call'[c].asked
  <2>1. CASE c = b
    <3>1. call'[c] = new BY <1>5, <2>1 DEF StockInv, StockTypeOK
    <3>2. call'[c].lines = Merged(lines) /\ call'[c].asked = Total(lines) BY <3>1
    <3> QED BY <1>2, <3>2
  <2>2. CASE c # b
    <3>1. call'[c] = call[c] BY <1>5, <2>2 DEF StockInv, StockTypeOK
    <3> QED BY <1>7, <3>1 DEF StockInv, AsksAll
  <2> QED BY <2>1, <2>2
<1>8. AsksAll' BY <1>7 DEF AsksAll, Reserved
<1> QED BY <1>5, <1>6, <1>8 DEF StockInv, StockTypeOK, NeverOversold, StockConserved, HeldAsAsked, Kept

(* A hold takes its pieces from the shelf, at once or late. *)
LEMMA HoldMade ==
  ASSUME StockInv, NEW h \in HoldIds, holds[h].status \in {"none", "late"},
         holds' \in [HoldIds -> Hold], holds'[h].status = "Active",
         \A k \in HoldIds \ {h} : holds'[k] = holds[k],
         NEW r \in Quantities, holds'[h].reserved = r, holds'[h].asked = r,
         \A s \in Products : r[s] <= inventory[s],
         inventory' = [s \in Products |-> inventory[s] - r[s]],
         call' \in [Buyers -> Call], AsksAll'
  PROVE  StockInv'
<1>0. StockTypeOK /\ NeverOversold /\ StockConserved /\ HeldAsAsked BY DEF StockInv
<1>1. \A s \in Products : r[s] \in Nat /\ inventory[s] \in Int
  BY <1>0 DEF Quantities, StockTypeOK
<1>2. StockTypeOK' BY <1>0, <1>1 DEF StockTypeOK
<1>3. NeverOversold' BY <1>1 DEF NeverOversold
<1>4. HeldAsAsked' BY <1>0 DEF HeldAsAsked
<1>5. StockConserved'
  <2> SUFFICES ASSUME NEW s \in Products
               PROVE  inventory'[s] + PiecesIn(holds', KeptStatuses, s) = Stock[s]
    BY ConservedIs
  <2>1. holds \in [HoldIds -> Hold] BY <1>0 DEF StockTypeOK
  <2>2. PiecesIn(holds', KeptStatuses, s) = PiecesIn(holds, KeptStatuses, s) + r[s]
    <3>1. holds[h].status \notin KeptStatuses /\ holds'[h].status \in KeptStatuses
      BY DEF KeptStatuses
    <3> QED BY <2>1, <3>1, OneMoreKept
  <2>3. inventory[s] + PiecesIn(holds, KeptStatuses, s) = Stock[s] BY <1>0, ConservedIs
  <2>4. inventory'[s] = inventory[s] - r[s] OBVIOUS
  <2>5. PiecesIn(holds, KeptStatuses, s) \in Nat BY <2>1, PiecesType
  <2> QED BY <1>1, <2>2, <2>3, <2>4, <2>5
<1> QED BY <1>2, <1>3, <1>4, <1>5 DEF StockInv

LEMMA ReserveStep ==
  ASSUME StockInv, NEW b \in Buyers, call[b].at = "createHold", Reserve(b),
         call' \in [Buyers -> Call], AsksAll'
  PROVE  StockInv'
<1> DEFINE lines == call[b].lines
           new == [status |-> "Active", reserved |-> Reserved(lines), asked |-> call[b].asked]
<1>1. lines \in Seq(Line) /\ call[b].asked \in Quantities BY CallTypes DEF StockInv
<1>2. Reserved(lines) = call[b].asked BY DEF StockInv, AsksAll
<1>3. new \in Hold BY <1>1, <1>2 DEF Hold
<1>4. PICK h \in HoldIds : holds[h].status = "none" /\ holds' = [holds EXCEPT ![h] = new]
  BY DEF Reserve
<1>5. /\ ~Exceeds(lines)
      /\ inventory' = [s \in Products |-> inventory[s] - Reserved(lines)[s]]
  BY DEF Reserve
<1> HIDE DEF lines
<1>6. \A s \in Products : Reserved(lines)[s] <= inventory[s]
  BY <1>1, <1>5, ReservedFits DEF StockInv
<1>7. /\ new.status = "Active" /\ new.reserved = Reserved(lines) /\ new.asked = Reserved(lines)
      /\ Reserved(lines) \in Quantities
  BY <1>1, <1>2
<1> HIDE DEF new
<1>8. /\ holds' \in [HoldIds -> Hold] /\ holds'[h] = new
      /\ \A k \in HoldIds \ {h} : holds'[k] = holds[k]
  BY <1>3, <1>4 DEF StockInv, StockTypeOK
<1> QED BY <1>4, <1>5, <1>6, <1>7, <1>8, HoldMade

(* A request on its way takes nothing yet. *)
LEMMA DelayStep ==
  ASSUME StockInv, NEW b \in Buyers, call[b].at = "createHold", Delay(b),
         call' \in [Buyers -> Call], AsksAll'
  PROVE  /\ StockInv'
         /\ \E h \in HoldIds : /\ holds[h].status = "none" /\ holds'[h].status = "late"
                              /\ \A k \in HoldIds \ {h} : holds'[k] = holds[k]
<1> DEFINE lines == call[b].lines
           new == [status |-> "late", reserved |-> Reserved(lines), asked |-> call[b].asked]
<1>0. StockTypeOK /\ NeverOversold /\ StockConserved /\ HeldAsAsked BY DEF StockInv
<1>1. call[b].asked \in Quantities /\ Reserved(lines) = call[b].asked
  BY <1>0, CallTypes DEF StockInv, AsksAll
<1>2. new \in Hold BY <1>1 DEF Hold
<1>3. PICK h \in HoldIds : holds[h].status = "none" /\ holds' = [holds EXCEPT ![h] = new]
  BY DEF Delay
<1>4. inventory' = inventory BY DEF Delay
<1>5. new.status = "late" /\ new.reserved = new.asked BY <1>1
<1> HIDE DEF new
<1>6. holds'[h] = new /\ \A k \in HoldIds \ {h} : holds'[k] = holds[k]
  BY <1>0, <1>3 DEF StockTypeOK
<1>7. StockTypeOK' BY <1>0, <1>2, <1>3, <1>4 DEF StockTypeOK
<1>8. NeverOversold' /\ HeldAsAsked' BY <1>0, <1>4, <1>5, <1>6 DEF NeverOversold, HeldAsAsked
<1>9. StockConserved'
  <2> SUFFICES ASSUME NEW s \in Products
               PROVE  inventory'[s] + PiecesIn(holds', KeptStatuses, s) = Stock[s]
    BY ConservedIs
  <2>1. holds \in [HoldIds -> Hold] /\ holds' \in [HoldIds -> Hold] BY <1>0, <1>7 DEF StockTypeOK
  <2>2. Share(holds, h, KeptStatuses, s) = 0 /\ Share(holds', h, KeptStatuses, s) = 0
    BY <1>3, <1>5, <1>6 DEF Share, KeptStatuses
  <2>3. PiecesIn(holds', KeptStatuses, s) + 0 = PiecesIn(holds, KeptStatuses, s) + 0
    BY <1>6, <2>1, <2>2, OneHoldChanges
  <2>4. PiecesIn(holds', KeptStatuses, s) = PiecesIn(holds, KeptStatuses, s)
    BY <2>1, <2>3, PiecesType
  <2> QED BY <1>0, <1>4, <2>4, ConservedIs
<1>10. StockInv' BY <1>7, <1>8, <1>9 DEF StockInv
<1> QED BY <1>3, <1>5, <1>6, <1>10

LEMMA LateHoldStep ==
  ASSUME StockInv, NEW h \in HoldIds, LateHold(h)
  PROVE  StockInv'
<1> DEFINE r == holds[h].reserved
<1>1. /\ holds[h] \in Hold /\ holds \in [HoldIds -> Hold] /\ r \in Quantities
      /\ holds[h].asked = r
  BY HoldTypes DEF StockInv, StockTypeOK, HeldAsAsked
<1>2. /\ holds[h].status = "late" /\ \A s \in Products : r[s] <= inventory[s]
      /\ inventory' = [s \in Products |-> inventory[s] - r[s]]
      /\ call' = call
  BY DEF LateHold
<1>3. /\ holds' \in [HoldIds -> Hold] /\ \A k \in HoldIds \ {h} : holds'[k] = holds[k]
      /\ holds'[h].status = "Active" /\ holds'[h].reserved = r /\ holds'[h].asked = r
  BY <1>1 DEF LateHold, Hold
<1>4. call' \in [Buyers -> Call] /\ AsksAll'
  BY <1>2, CallKept DEF StockInv, StockTypeOK
<1> HIDE DEF r
<1> QED BY <1>1, <1>2, <1>3, <1>4, HoldMade

LEMMA ReleaseHoldStep ==
  ASSUME StockInv, NEW h \in HoldIds, ReleaseHold(h)
  PROVE  StockInv'
<1>0. StockTypeOK /\ NeverOversold /\ StockConserved /\ HeldAsAsked BY DEF StockInv
<1>1. CASE holds[h].status # "Active"
  <2>1. UNCHANGED <<inventory, holds>> /\ call' = call BY <1>1 DEF ReleaseHold
  <2>2. AsksAll' BY <2>1, CallKept DEF StockInv
  <2>3. call' \in [Buyers -> Call] BY <1>0, <2>1 DEF StockTypeOK
  <2> QED BY <2>1, <2>2, <2>3, CallStep
<1>2. CASE holds[h].status = "Active"
  <2> DEFINE new == [NoHold EXCEPT !.status = "gone"]
  <2>1. /\ inventory' = [s \in Products |-> inventory[s] + holds[h].reserved[s]]
        /\ holds' = [holds EXCEPT ![h] = new]
        /\ call' = call
    BY <1>2 DEF ReleaseHold
  <2>2. NoneOfIt \in Quantities BY DEF NoneOfIt, Quantities
  <2>3. new = [status |-> "gone", reserved |-> NoneOfIt, asked |-> NoneOfIt] BY DEF NoHold
  <2>4. new \in Hold BY <2>2, <2>3 DEF Hold
  <2>5. \A s \in Products : holds[h].reserved[s] \in Nat /\ inventory[s] \in Int /\ inventory[s] >= 0
    BY <1>0, HoldTypes DEF StockTypeOK, NeverOversold
  <2>6. StockTypeOK' BY <1>0, <2>1, <2>4, <2>5 DEF StockTypeOK
  <2>7. NeverOversold' BY <2>1, <2>5 DEF NeverOversold
  <2>8. HeldAsAsked' BY <1>0, <2>1, <2>3 DEF HeldAsAsked, StockTypeOK
  <2>9. AsksAll' BY <2>1, CallKept DEF StockInv
  <2>10. holds'[h] = new /\ \A k \in HoldIds \ {h} : holds'[k] = holds[k]
    BY <1>0, <2>1 DEF StockTypeOK
  <2>12. StockConserved'
    <3> SUFFICES ASSUME NEW s \in Products
                 PROVE  inventory'[s] + PiecesIn(holds', KeptStatuses, s) = Stock[s]
      BY ConservedIs
    <3>1. holds \in [HoldIds -> Hold] /\ holds' \in [HoldIds -> Hold] BY <1>0, <2>6 DEF StockTypeOK
    <3>2. Share(holds, h, KeptStatuses, s) = holds[h].reserved[s]
      BY <1>2 DEF Share, KeptStatuses
    <3>3. Share(holds', h, KeptStatuses, s) = 0 BY <2>3, <2>10 DEF Share, KeptStatuses
    <3>4. PiecesIn(holds', KeptStatuses, s) + holds[h].reserved[s] =
            PiecesIn(holds, KeptStatuses, s) + 0
      BY <2>10, <3>1, <3>2, <3>3, OneHoldChanges
    <3>5. inventory[s] + PiecesIn(holds, KeptStatuses, s) = Stock[s] BY <1>0, ConservedIs
    <3>6. inventory'[s] = inventory[s] + holds[h].reserved[s] BY <2>1
    <3>7. PiecesIn(holds, KeptStatuses, s) \in Nat /\ PiecesIn(holds', KeptStatuses, s) \in Nat
      BY <3>1, PiecesType
    <3> QED BY <2>5, <3>4, <3>5, <3>6, <3>7
  <2> QED BY <2>6, <2>7, <2>8, <2>9, <2>12 DEF StockInv
<1> QED BY <1>1, <1>2

LEMMA FulfillHoldStep ==
  ASSUME StockInv, NEW h \in HoldIds, FulfillHold(h)
  PROVE  StockInv'
<1>0. StockTypeOK /\ NeverOversold /\ StockConserved /\ HeldAsAsked BY DEF StockInv
<1> DEFINE status == IF holds[h].status = "Active" THEN "Fulfilled" ELSE holds[h].status
<1>1. /\ holds' = [holds EXCEPT ![h].status = status]
      /\ inventory' = inventory /\ call' = call
  BY DEF FulfillHold
<1>2. [holds[h] EXCEPT !.status = status] \in Hold BY <1>0, HoldTypes DEF Hold
<1>3. StockTypeOK' BY <1>0, <1>1, <1>2 DEF StockTypeOK
<1>4. \A k \in HoldIds : holds'[k].reserved = holds[k].reserved /\ holds'[k].asked = holds[k].asked
  BY <1>0, <1>1, HoldTypes DEF StockTypeOK, Hold
<1>5. holds'[h].status = status /\ \A k \in HoldIds \ {h} : holds'[k] = holds[k]
  BY <1>0, <1>1, HoldTypes DEF StockTypeOK, Hold
<1>6. StockConserved'
  <2> SUFFICES ASSUME NEW s \in Products
               PROVE  inventory'[s] + PiecesIn(holds', KeptStatuses, s) = Stock[s]
    BY ConservedIs
  <2>1. holds \in [HoldIds -> Hold] /\ holds' \in [HoldIds -> Hold] BY <1>0, <1>3 DEF StockTypeOK
  <2>2. Share(holds', h, KeptStatuses, s) = Share(holds, h, KeptStatuses, s)
    BY <1>4, <1>5 DEF Share, KeptStatuses
  <2>3. Share(holds, h, KeptStatuses, s) \in Nat BY <2>1, SharesInNat DEF Share
  <2>4. PiecesIn(holds', KeptStatuses, s) + Share(holds, h, KeptStatuses, s) =
          PiecesIn(holds, KeptStatuses, s) + Share(holds, h, KeptStatuses, s)
    BY <1>5, <2>1, <2>2, OneHoldChanges
  <2>5. PiecesIn(holds', KeptStatuses, s) = PiecesIn(holds, KeptStatuses, s)
    BY <2>1, <2>3, <2>4, PiecesType
  <2> QED BY <1>0, <1>1, <2>5, ConservedIs
<1>7. NeverOversold' /\ HeldAsAsked' BY <1>0, <1>1, <1>4 DEF NeverOversold, HeldAsAsked
<1>8. AsksAll' BY <1>1, CallKept DEF StockInv
<1> QED BY <1>3, <1>6, <1>7, <1>8 DEF StockInv

(* No step of a call or of KB-IHMS, in whatever order they come, sells what is not *)
(* there, makes or loses stock, or holds another amount than was asked for.        *)
THEOREM StockStepsKeepStock ==
  ASSUME StockInv, StockStep
  PROVE  StockInv'
<1>1. ASSUME NEW b \in Buyers, StockChecked(b) PROVE StockInv'
  BY <1>1, CallMoves, CallStep DEF StockChecked
<1>2. ASSUME NEW b \in Buyers, NEW at \in {"held", "failed"}, Returns(b, at)
      PROVE  call' \in [Buyers -> Call] /\ AsksAll'
  BY <1>2, CallReturns DEF Returns
<1>3. ASSUME NEW b \in Buyers, StockShort(b) \/ CartRejected(b) \/ HoldConflict(b) PROVE StockInv'
  BY <1>2, <1>3, CallStep DEF StockShort, CartRejected, HoldConflict
<1>4. ASSUME NEW b \in Buyers, HoldCreated(b) PROVE StockInv'
  BY <1>2, <1>4, ReserveStep DEF HoldCreated
<1>5. ASSUME NEW b \in Buyers, HoldFails(b) PROVE StockInv'
  BY <1>2, <1>5, DelayStep, CallStep DEF HoldFails
<1>6. ASSUME NEW h \in HoldIds, LateHold(h) \/ ReleaseHold(h) \/ FulfillHold(h) PROVE StockInv'
  BY <1>6, LateHoldStep, ReleaseHoldStep, FulfillHoldStep
<1> QED BY <1>1, <1>3, <1>4, <1>5, <1>6 DEF StockStep

LEMMA StockInitInv == StockInit => StockInv
<1> SUFFICES ASSUME StockInit PROVE StockInv
  OBVIOUS
<1>1. NoneOfIt \in Quantities BY DEF NoneOfIt, Quantities
<1>2. <<>> \in Seq(Line) OBVIOUS
<1>3. StockTypeOK
  BY <1>1, <1>2, StockAssumption DEF StockTypeOK, StockInit, NoHold, NoCall, Hold, Call
<1>4. NeverOversold BY StockAssumption DEF NeverOversold, StockInit
<1>5. StockConserved
  <2> SUFFICES ASSUME NEW s \in Products
               PROVE  inventory[s] + PiecesIn(holds, KeptStatuses, s) = Stock[s]
    BY ConservedIs
  <2>1. PiecesIn(holds, KeptStatuses, s) = 0
    BY NothingIn DEF StockInit, NoHold, KeptStatuses
  <2> QED BY <2>1, StockAssumption DEF StockInit
<1>6. HeldAsAsked /\ AsksAll BY DEF HeldAsAsked, AsksAll, StockInit, NoHold, NoCall
<1> QED BY <1>3, <1>4, <1>5, <1>6 DEF StockInv

-----------------------------------------------------------------------------
(* The stock implements StockLedger *)

LEMMA UnitsAre ==
  ASSUME NEW status
  PROVE  /\ Units(status) = [s \in Products |-> PiecesIn(holds, {status}, s)]
         /\ Units(status)' = [s \in Products |-> PiecesIn(holds', {status}, s)]
<1>1. InStatus(holds, {status}) = {h \in HoldIds : holds[h].status = status} BY DEF InStatus
<1>2. InStatus(holds', {status}) = {h \in HoldIds : holds'[h].status = status} BY DEF InStatus
<1> QED BY <1>1, <1>2 DEF Units, PiecesIn

(* What one step with one hold does to the pieces of a status. *)
LEMMA UnitsChange ==
  ASSUME StockInv, StockInv', NEW h \in HoldIds,
         \A k \in HoldIds \ {h} : holds'[k] = holds[k], NEW status
  PROVE  /\ Units(status) \in [Products -> Nat] /\ Units(status)' \in [Products -> Nat]
         /\ \A s \in Products :
              Units(status)'[s] + Share(holds, h, {status}, s) =
                Units(status)[s] + Share(holds', h, {status}, s)
<1>1. holds \in [HoldIds -> Hold] /\ holds' \in [HoldIds -> Hold] BY DEF StockInv, StockTypeOK
<1>2. \A s \in Products : /\ PiecesIn(holds, {status}, s) \in Nat
                         /\ PiecesIn(holds', {status}, s) \in Nat
  BY <1>1, PiecesType
<1>3. \A s \in Products :
        PiecesIn(holds', {status}, s) + Share(holds, h, {status}, s) =
          PiecesIn(holds, {status}, s) + Share(holds', h, {status}, s)
  BY <1>1, OneHoldChanges
<1>4. /\ Units(status) = [s \in Products |-> PiecesIn(holds, {status}, s)]
      /\ Units(status)' = [s \in Products |-> PiecesIn(holds', {status}, s)]
  BY UnitsAre
<1>5. Units(status) \in [Products -> Nat] /\ Units(status)' \in [Products -> Nat]
  BY <1>2, <1>4
<1>6. \A s \in Products : /\ Units(status)[s] = PiecesIn(holds, {status}, s)
                         /\ Units(status)'[s] = PiecesIn(holds', {status}, s)
  BY <1>4
<1> QED BY <1>3, <1>5, <1>6

LEMMA InventoryInNat ==
  ASSUME StockInv, StockInv'
  PROVE  inventory \in [Products -> Nat] /\ inventory' \in [Products -> Nat]
<1>1. \A s \in Products : inventory[s] \in Int /\ inventory[s] >= 0
  BY DEF StockInv, StockTypeOK, NeverOversold
<1>2. \A s \in Products : inventory'[s] \in Int /\ inventory'[s] >= 0
  BY DEF StockInv, StockTypeOK, NeverOversold
<1>3. \A s \in Products : inventory[s] \in Nat /\ inventory'[s] \in Nat BY <1>1, <1>2
<1> QED BY <1>3 DEF StockInv, StockTypeOK

(* A hold moves its pieces from the shelf. *)
LEMMA MadeHolds ==
  ASSUME StockInv, StockInv', NEW h \in HoldIds, holds[h].status \in {"none", "late"},
         NEW r \in Quantities, holds'[h].status = "Active", holds'[h].reserved = r,
         \A k \in HoldIds \ {h} : holds'[k] = holds[k],
         inventory' = [s \in Products |-> inventory[s] - r[s]]
  PROVE  Ledger!Hold
<1>1. \A s \in Products : /\ Share(holds, h, {"Active"}, s) = 0
                         /\ Share(holds', h, {"Active"}, s) = r[s]
                         /\ Share(holds, h, {"Fulfilled"}, s) = 0
                         /\ Share(holds', h, {"Fulfilled"}, s) = 0
  BY DEF Share
<1>2. /\ Units("Active") \in [Products -> Nat] /\ Units("Active")' \in [Products -> Nat]
      /\ \A s \in Products : Units("Active")'[s] + Share(holds, h, {"Active"}, s) =
                              Units("Active")[s] + Share(holds', h, {"Active"}, s)
  BY UnitsChange
<1>3. /\ Units("Fulfilled") \in [Products -> Nat] /\ Units("Fulfilled")' \in [Products -> Nat]
      /\ \A s \in Products : Units("Fulfilled")'[s] + Share(holds, h, {"Fulfilled"}, s) =
                              Units("Fulfilled")[s] + Share(holds', h, {"Fulfilled"}, s)
  BY UnitsChange
<1> DEFINE held == Units("Active")
           held2 == Units("Active")'
           sold == Units("Fulfilled")
           sold2 == Units("Fulfilled")'
<1>4. /\ held \in [Products -> Nat] /\ held2 \in [Products -> Nat]
      /\ \A s \in Products : held2[s] + 0 = held[s] + r[s]
  BY <1>1, <1>2
<1>5. /\ sold \in [Products -> Nat] /\ sold2 \in [Products -> Nat]
      /\ \A s \in Products : sold2[s] + 0 = sold[s] + 0
  BY <1>1, <1>3
<1>6. inventory \in [Products -> Nat] /\ inventory' \in [Products -> Nat] BY InventoryInNat
<1> HIDE DEF held, held2, sold, sold2
<1>7. \A s \in Products : /\ inventory'[s] <= inventory[s]
                         /\ inventory'[s] + held2[s] = inventory[s] + held[s]
                         /\ sold2[s] = sold[s]
  BY <1>4, <1>5, <1>6 DEF Quantities
<1>8. sold2 = sold BY <1>5, <1>7
<1> QED BY <1>4, <1>6, <1>7, <1>8
        DEF Ledger!Hold, Ledger!Moves, Ledger!Pieces, held, held2, sold, sold2

LEMMA ReserveHolds ==
  ASSUME StockInv, StockInv', NEW b \in Buyers, Reserve(b)
  PROVE  Ledger!Hold
<1> DEFINE r == Reserved(call[b].lines)
           new == [status |-> "Active", reserved |-> r, asked |-> call[b].asked]
<1>1. PICK h \in HoldIds : holds[h].status = "none" /\ holds' = [holds EXCEPT ![h] = new]
  BY DEF Reserve
<1>2. inventory' = [s \in Products |-> inventory[s] - r[s]] BY DEF Reserve
<1>3. call[b].lines \in Seq(Line) BY CallTypes DEF StockInv
<1>4. r \in Quantities BY <1>3, ReservedType
<1> HIDE DEF r
<1>5. holds'[h] = new /\ \A k \in HoldIds \ {h} : holds'[k] = holds[k]
  BY <1>1 DEF StockInv, StockTypeOK
<1> QED BY <1>1, <1>2, <1>4, <1>5, MadeHolds

LEMMA LateHolds ==
  ASSUME StockInv, StockInv', NEW h \in HoldIds, LateHold(h)
  PROVE  Ledger!Hold
<1> DEFINE r == holds[h].reserved
<1>1. holds[h].status = "late" /\ inventory' = [s \in Products |-> inventory[s] - r[s]]
  BY DEF LateHold
<1>2. r \in Quantities BY HoldTypes DEF StockInv
<1>3. /\ holds'[h].status = "Active" /\ holds'[h].reserved = r
      /\ \A k \in HoldIds \ {h} : holds'[k] = holds[k]
  BY HoldTypes DEF LateHold, StockInv, StockTypeOK, Hold
<1> HIDE DEF r
<1> QED BY <1>1, <1>2, <1>3, MadeHolds

(* A request on its way moves nothing. *)
LEMMA DelayStutters ==
  ASSUME StockInv, StockInv', NEW b \in Buyers, call[b].at = "createHold", Delay(b)
  PROVE  UNCHANGED Ledger!ledgerVars
<1>1. PICK h \in HoldIds : /\ holds[h].status = "none" /\ holds'[h].status = "late"
                          /\ \A k \in HoldIds \ {h} : holds'[k] = holds[k]
  BY DelayStep DEF StockInv, StockTypeOK
<1>2. ASSUME NEW status \in {"Active", "Fulfilled"} PROVE Units(status)' = Units(status)
  <2> DEFINE u == Units(status)
             v == Units(status)'
  <2>1. \A s \in Products : Share(holds, h, {status}, s) = 0 /\ Share(holds', h, {status}, s) = 0
    BY <1>1, <1>2 DEF Share
  <2>2. /\ u \in [Products -> Nat] /\ v \in [Products -> Nat]
        /\ \A s \in Products : v[s] + Share(holds, h, {status}, s) =
                                u[s] + Share(holds', h, {status}, s)
    BY <1>1, UnitsChange
  <2> HIDE DEF u, v
  <2>3. \A s \in Products : v[s] + 0 = u[s] + 0 BY <2>1, <2>2
  <2>4. \A s \in Products : v[s] = u[s] BY <2>2, <2>3
  <2>5. v = u BY <2>2, <2>4
  <2> QED BY <2>5 DEF u, v
<1>3. Units("Active")' = Units("Active") /\ Units("Fulfilled")' = Units("Fulfilled") BY <1>2
<1>4. inventory' = inventory BY DEF Delay
<1> QED BY <1>3, <1>4 DEF Ledger!ledgerVars

LEMMA ReleaseReleases ==
  ASSUME StockInv, StockInv', NEW h \in HoldIds, ReleaseHold(h)
  PROVE  Ledger!Release \/ UNCHANGED <<inventory, holds>>
<1>1. CASE holds[h].status # "Active" BY <1>1 DEF ReleaseHold
<1>2. CASE holds[h].status = "Active"
  <2> DEFINE r == holds[h].reserved
  <2>1. /\ inventory' = [s \in Products |-> inventory[s] + r[s]]
        /\ holds' = [holds EXCEPT ![h] = [NoHold EXCEPT !.status = "gone"]]
    BY <1>2 DEF ReleaseHold
  <2>2. holds'[h].status = "gone" /\ \A k \in HoldIds \ {h} : holds'[k] = holds[k]
    BY <2>1 DEF StockInv, StockTypeOK, NoHold
  <2>3. r \in Quantities BY HoldTypes DEF StockInv
  <2>4. \A s \in Products : /\ Share(holds, h, {"Active"}, s) = r[s]
                           /\ Share(holds', h, {"Active"}, s) = 0
                           /\ Share(holds, h, {"Fulfilled"}, s) = 0
                           /\ Share(holds', h, {"Fulfilled"}, s) = 0
    BY <1>2, <2>2 DEF Share
  <2> HIDE DEF r
  <2>5. /\ Units("Active") \in [Products -> Nat] /\ Units("Active")' \in [Products -> Nat]
        /\ \A s \in Products : Units("Active")'[s] + Share(holds, h, {"Active"}, s) =
                                Units("Active")[s] + Share(holds', h, {"Active"}, s)
    BY <2>2, UnitsChange
  <2>6. /\ Units("Fulfilled") \in [Products -> Nat] /\ Units("Fulfilled")' \in [Products -> Nat]
        /\ \A s \in Products : Units("Fulfilled")'[s] + Share(holds, h, {"Fulfilled"}, s) =
                                Units("Fulfilled")[s] + Share(holds', h, {"Fulfilled"}, s)
    BY <2>2, UnitsChange
  <2> DEFINE held == Units("Active")
             held2 == Units("Active")'
             sold == Units("Fulfilled")
             sold2 == Units("Fulfilled")'
  <2>7. /\ held \in [Products -> Nat] /\ held2 \in [Products -> Nat]
        /\ \A s \in Products : held2[s] + r[s] = held[s] + 0
    BY <2>4, <2>5
  <2>8. /\ sold \in [Products -> Nat] /\ sold2 \in [Products -> Nat]
        /\ \A s \in Products : sold2[s] + 0 = sold[s] + 0
    BY <2>4, <2>6
  <2>9. inventory \in [Products -> Nat] /\ inventory' \in [Products -> Nat] BY InventoryInNat
  <2> HIDE DEF held, held2, sold, sold2
  <2>10. \A s \in Products : /\ held2[s] <= held[s]
                           /\ held2[s] + inventory'[s] = held[s] + inventory[s]
                           /\ sold2[s] = sold[s]
    BY <2>1, <2>3, <2>7, <2>8, <2>9 DEF Quantities
  <2>11. sold2 = sold BY <2>8, <2>10
  <2>12. Ledger!Release
    BY <2>7, <2>9, <2>10, <2>11
       DEF Ledger!Release, Ledger!Moves, Ledger!Pieces, held, held2, sold, sold2
  <2> QED BY <2>12
<1> QED BY <1>1, <1>2

LEMMA FulfillSells ==
  ASSUME StockInv, StockInv', NEW h \in HoldIds, FulfillHold(h)
  PROVE  Ledger!Sell \/ UNCHANGED <<inventory, holds>>
<1> DEFINE status == IF holds[h].status = "Active" THEN "Fulfilled" ELSE holds[h].status
<1>1. holds' = [holds EXCEPT ![h].status = status] /\ inventory' = inventory
  BY DEF FulfillHold
<1>2. /\ holds'[h].status = status /\ holds'[h].reserved = holds[h].reserved
      /\ \A k \in HoldIds \ {h} : holds'[k] = holds[k]
  BY <1>1, HoldTypes DEF StockInv, StockTypeOK, Hold
<1>3. CASE holds[h].status # "Active"
  <2>1. holds[h] = [holds[h] EXCEPT !.status = status] BY <1>3, HoldTypes DEF StockInv, Hold
  <2>2. holds' = holds BY <1>1, <2>1 DEF StockInv, StockTypeOK
  <2> QED BY <1>1, <2>2
<1>4. CASE holds[h].status = "Active"
  <2> DEFINE r == holds[h].reserved
  <2>1. r \in Quantities BY HoldTypes DEF StockInv
  <2>2. \A s \in Products : /\ Share(holds, h, {"Active"}, s) = r[s]
                           /\ Share(holds', h, {"Active"}, s) = 0
                           /\ Share(holds, h, {"Fulfilled"}, s) = 0
                           /\ Share(holds', h, {"Fulfilled"}, s) = r[s]
    BY <1>2, <1>4 DEF Share
  <2> HIDE DEF r
  <2>3. /\ Units("Active") \in [Products -> Nat] /\ Units("Active")' \in [Products -> Nat]
        /\ \A s \in Products : Units("Active")'[s] + Share(holds, h, {"Active"}, s) =
                                Units("Active")[s] + Share(holds', h, {"Active"}, s)
    BY <1>2, UnitsChange
  <2>4. /\ Units("Fulfilled") \in [Products -> Nat] /\ Units("Fulfilled")' \in [Products -> Nat]
        /\ \A s \in Products : Units("Fulfilled")'[s] + Share(holds, h, {"Fulfilled"}, s) =
                                Units("Fulfilled")[s] + Share(holds', h, {"Fulfilled"}, s)
    BY <1>2, UnitsChange
  <2> DEFINE held == Units("Active")
             held2 == Units("Active")'
             sold == Units("Fulfilled")
             sold2 == Units("Fulfilled")'
  <2>5. /\ held \in [Products -> Nat] /\ held2 \in [Products -> Nat]
        /\ \A s \in Products : held2[s] + r[s] = held[s] + 0
    BY <2>2, <2>3
  <2>6. /\ sold \in [Products -> Nat] /\ sold2 \in [Products -> Nat]
        /\ \A s \in Products : sold2[s] + 0 = sold[s] + r[s]
    BY <2>2, <2>4
  <2> HIDE DEF held, held2, sold, sold2
  <2>7. \A s \in Products : /\ held2[s] <= held[s]
                           /\ held2[s] + sold2[s] = held[s] + sold[s]
    BY <2>1, <2>5, <2>6 DEF Quantities
  <2>8. Ledger!Sell
    BY <1>1, <2>5, <2>6, <2>7
       DEF Ledger!Sell, Ledger!Moves, Ledger!Pieces, held, held2, sold, sold2
  <2> QED BY <2>8
<1> QED BY <1>3, <1>4

LEMMA LedgerStutters ==
  ASSUME UNCHANGED <<inventory, holds>>
  PROVE  UNCHANGED Ledger!ledgerVars
BY DEF Ledger!ledgerVars, Units

(* A step of a call or of KB-IHMS moves stock as the ledger allows, or not at all. *)
LEMMA StockStepLedger ==
  ASSUME StockInv, StockInv', StockStep
  PROVE  [Ledger!LedgerNext]_(Ledger!ledgerVars)
<1>1. ASSUME NEW b \in Buyers,
             \/ StockChecked(b) \/ StockShort(b) \/ CartRejected(b)
             \/ HoldCreated(b) \/ HoldConflict(b) \/ HoldFails(b)
      PROVE  \/ Reserve(b) \/ UNCHANGED <<inventory, holds>>
             \/ call[b].at = "createHold" /\ Delay(b)
  BY <1>1 DEF StockChecked, StockShort, CartRejected, HoldCreated, HoldConflict, HoldFails
<1> QED BY <1>1, ReserveHolds, LateHolds, DelayStutters, ReleaseReleases, FulfillSells,
           LedgerStutters DEF StockStep, Ledger!LedgerNext

LEMMA StockInitLedger == StockInit => Ledger!LedgerInit
<1> SUFFICES ASSUME StockInit PROVE Ledger!LedgerInit
  OBVIOUS
<1>1. \A status \in {"Active", "Fulfilled"}, s \in Products : PiecesIn(holds, {status}, s) = 0
  BY NothingIn DEF StockInit, NoHold
<1>2. /\ Units("Active") = [s \in Products |-> PiecesIn(holds, {"Active"}, s)]
      /\ Units("Fulfilled") = [s \in Products |-> PiecesIn(holds, {"Fulfilled"}, s)]
  BY UnitsAre
<1>3. /\ Units("Active") = [s \in Products |-> 0]
      /\ Units("Fulfilled") = [s \in Products |-> 0]
  BY <1>1, <1>2
<1> QED BY <1>3 DEF Ledger!LedgerInit, StockInit
====
