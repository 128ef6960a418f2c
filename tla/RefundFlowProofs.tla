-------------------------- MODULE RefundFlowProofs --------------------------
(***************************************************************************)
(* Proofs of the safety properties of RefundFlow, for every number of      *)
(* workers and refunds and for every amount, however often calls fail.     *)
(*                                                                         *)
(* RefundCopies shows what the workers' copies and answers are worth. Here *)
(* every step is one of seven kinds, by what it does to the refunds, the   *)
(* parent and the gateway, and each kind keeps the invariant RInv.         *)
(***************************************************************************)
EXTENDS RefundCopies, Integers, FiniteSets, FiniteSetsExt, FiniteSetTheorems, TLAPS

-----------------------------------------------------------------------------
(* Sums. MapThenSumSet adds up a function over a finite set element by       *)
(* element, in an order CHOOSE fixes. The order does not matter, so a sum    *)
(* grows by what is added to its set. This holds for sets of every size: the *)
(* proofs are inductions, put as the absence of a smallest counterexample,   *)
(* since the subsets of a finite set are well-founded under inclusion.       *)

(* The element the sum takes first.                                        *)
Pick(s) == CHOOSE x \in s : TRUE

(* The sum of f over S: the way the refunds and the money moved are summed. *)
SumOver(f, S) == MapThenSumSet(LAMBDA x : f[x], S)

(* g holds the sums of f over the subsets of S.                             *)
Sums(g, f, S) ==
    g = [s \in SUBSET S |-> IF s = {} THEN 0 ELSE f[Pick(s)] + g[s \ {Pick(s)}]]

-----------------------------------------------------------------------------
(* Among subsets of a finite set there is one that contains no other.       *)
LEMMA SmallestSubset ==
    ASSUME NEW S, IsFiniteSet(S), NEW T \in SUBSET (SUBSET S), T # {}
    PROVE  \E x \in T : \A y \in T : y \subseteq x => y = x
<1>1. FiniteSubsetsOf(S) = SUBSET S
  BY FS_FiniteSubsetsOfFinite
<1>2. IsWellFoundedOn(StrictSubsetOrdering(S), SUBSET S)
  BY Zenon, <1>1, FS_StrictSubsetOrderingWellFounded
<1>3. PICK x \in T : \A y \in T : ~ (<<y, x>> \in StrictSubsetOrdering(S))
  BY <1>2, WFMin
<1>4. QED
  BY Zenon, <1>3 DEF StrictSubsetOrdering

(* The element taken first is one of the set.                               *)
LEMMA PickIn ==
    ASSUME NEW s, s # {}
    PROVE  Pick(s) \in s
BY DEF Pick

(* Any two tables of sums agree where both have an entry.                   *)
LEMMA SumsUnique ==
    ASSUME NEW S, NEW T, NEW f, NEW g, NEW h, Sums(g, f, S), Sums(h, f, T),
           NEW v, IsFiniteSet(v), v \subseteq S, v \subseteq T
    PROVE  g[v] = h[v]
<1> DEFINE Bad == {w \in SUBSET v : g[w] # h[w]}
<1>1. SUFFICES ASSUME Bad # {} PROVE FALSE
  OBVIOUS
<1>2. PICK w \in Bad : \A y \in Bad : y \subseteq w => y = w
  <2>1. Bad \in SUBSET (SUBSET v)
    OBVIOUS
  <2> HIDE DEF Bad
  <2>2. QED
    BY <1>1, <2>1, SmallestSubset
<1>3. w \in SUBSET S /\ w \in SUBSET T
  OBVIOUS
<1>4. CASE w = {}
  BY <1>2, <1>3, <1>4 DEF Sums
<1>5. CASE w # {}
  <2>1. Pick(w) \in w
    BY <1>5, PickIn
  <2>2. g[w \ {Pick(w)}] = h[w \ {Pick(w)}]
    BY <1>2, <2>1
  <2>3. /\ g[w] = f[Pick(w)] + g[w \ {Pick(w)}]
        /\ h[w] = f[Pick(w)] + h[w \ {Pick(w)}]
    BY Zenon, <1>3, <1>5 DEF Sums
  <2>4. QED
    BY <1>2, <2>2, <2>3
<1>6. QED
  BY <1>4, <1>5

(* There is a table of sums for every finite set.                           *)
LEMMA SumsExist ==
    ASSUME NEW S, IsFiniteSet(S), NEW f
    PROVE  \E g : Sums(g, f, S)
<1> DEFINE Bad == {T \in SUBSET S : ~ \E g : Sums(g, f, T)}
<1>1. SUFFICES ASSUME Bad # {} PROVE FALSE
  OBVIOUS
<1>2. PICK T \in Bad : \A y \in Bad : y \subseteq T => y = T
  <2>1. Bad \in SUBSET (SUBSET S)
    OBVIOUS
  <2> HIDE DEF Bad
  <2>2. QED
    BY <1>1, <2>1, SmallestSubset
<1>3. T \in SUBSET S /\ \A U \in SUBSET T : U # T => \E g : Sums(g, f, U)
  BY <1>2
<1> DEFINE table(U) == CHOOSE g : Sums(g, f, U)
           below(s) == s \ {Pick(s)}
           g == [s \in SUBSET T |-> IF s = {} THEN 0 ELSE f[Pick(s)] + table(below(s))[below(s)]]
<1>4. \A U \in SUBSET T : U # T => Sums(table(U), f, U)
  BY <1>3, Zenon
<1>5. ASSUME NEW s \in SUBSET T, s # {}
      PROVE  g[below(s)] = table(below(s))[below(s)]
  <2> DEFINE u == below(s)
  <2>1. u \in SUBSET T /\ u # T
    BY <1>5, PickIn
  <2>2. Sums(table(u), f, u)
    BY Zenon, <1>4, <2>1
  <2>3. CASE u = {}
    <3>1. table(u)[u] = 0
      BY Zenon, <2>2, <2>3 DEF Sums
    <3>2. g[u] = 0
      BY <2>1, <2>3
    <3>3. QED
      BY <3>1, <3>2
  <2>4. CASE u # {}
    <3> DEFINE v == below(u)
    <3>1. v \in SUBSET u /\ v # T /\ v \in SUBSET T
      BY <2>1, <2>4, PickIn
    <3>2. Sums(table(v), f, v)
      BY Zenon, <1>4, <3>1
    <3>3. IsFiniteSet(v)
      BY <1>3, <3>1, FS_Subset
    <3> HIDE DEF table, v
    <3>4. table(u)[v] = table(v)[v]
      BY <2>2, <3>1, <3>2, <3>3, SumsUnique
    <3>5. table(u)[u] = f[Pick(u)] + table(u)[v]
      BY Zenon, <2>2, <2>4 DEF Sums, v
    <3>6. g[u] = f[Pick(u)] + table(v)[v]
      BY <2>1, <2>4 DEF v
    <3>7. QED
      BY <3>4, <3>5, <3>6
  <2>5. QED
    BY <2>3, <2>4
<1>6. g = [s \in SUBSET T |-> IF s = {} THEN 0 ELSE f[Pick(s)] + g[below(s)]]
  <2> DEFINE e(s) == IF s = {} THEN 0 ELSE f[Pick(s)] + table(below(s))[below(s)]
             d(s) == IF s = {} THEN 0 ELSE f[Pick(s)] + g[below(s)]
  <2>1. ASSUME NEW s \in SUBSET T PROVE e(s) = d(s)
    <3>1. CASE s = {}
      BY <3>1
    <3>2. CASE s # {}
      <4>1. g[below(s)] = table(below(s))[below(s)]
        BY Zenon, <1>5, <3>2
      <4> HIDE DEF g, table
      <4>2. QED
        BY <3>2, <4>1
    <3>3. QED
      BY <3>1, <3>2
  <2>2. g = [s \in SUBSET T |-> e(s)]
    OBVIOUS
  <2> HIDE DEF e, d, g
  <2>3. g = [s \in SUBSET T |-> d(s)]
    BY <2>1, <2>2
  <2>4. QED
    BY Zenon, <2>3 DEF d
<1>7. Sums(g, f, T)
  BY Zenon, <1>6 DEF Sums
<1>8. QED
  BY <1>2, <1>7

(* The sum is what any table of sums holds for the whole set.               *)
LEMMA SumIsEntry ==
    ASSUME NEW S, IsFiniteSet(S), NEW f, NEW g, Sums(g, f, S)
    PROVE  SumOver(f, S) = g[S]
<1> DEFINE h == CHOOSE it : it = [s \in SUBSET S |->
                    IF s = {} THEN 0 ELSE f[Pick(s)] + it[s \ {Pick(s)}]]
<1>1. SumOver(f, S) = h[S]
  BY DEF SumOver, MapThenSumSet, MapThenFoldSet, Pick
<1>2. Sums(h, f, S)
  <2>1. \E it : it = [s \in SUBSET S |-> IF s = {} THEN 0 ELSE f[Pick(s)] + it[s \ {Pick(s)}]]
    BY SumsExist DEF Sums
  <2>2. h = [s \in SUBSET S |-> IF s = {} THEN 0 ELSE f[Pick(s)] + h[s \ {Pick(s)}]]
    BY <2>1, Zenon
  <2>3. QED
    BY Zenon, <2>2 DEF Sums
<1> HIDE DEF h
<1>3. QED
  BY <1>1, <1>2, SumsUnique

(* The recursion of the sum.                                                *)
LEMMA SumStep ==
    ASSUME NEW S, IsFiniteSet(S), NEW f
    PROVE  /\ S = {} => SumOver(f, S) = 0
           /\ S # {} => SumOver(f, S) = f[Pick(S)] + SumOver(f, S \ {Pick(S)})
<1>1. PICK g : Sums(g, f, S)
  BY SumsExist
<1>2. SumOver(f, S) = g[S]
  BY <1>1, SumIsEntry
<1>3. CASE S = {}
  BY <1>1, <1>2, <1>3 DEF Sums
<1>4. CASE S # {}
  <2> DEFINE T == S \ {Pick(S)}
  <2>1. IsFiniteSet(T)
    BY FS_RemoveElement
  <2>2. PICK h : Sums(h, f, T)
    BY <2>1, SumsExist
  <2>3. SumOver(f, T) = h[T]
    BY <2>1, <2>2, SumIsEntry
  <2>4. g[T] = h[T]
    <3>1. T \subseteq S /\ T \subseteq T
      OBVIOUS
    <3> HIDE DEF T
    <3>2. QED
      BY <1>1, <2>1, <2>2, <3>1, SumsUnique
  <2>5. g[S] = f[Pick(S)] + g[T]
    BY Zenon, <1>1, <1>4 DEF Sums
  <2>6. QED
    BY <1>2, <1>4, <2>3, <2>4, <2>5
<1>5. QED
  BY <1>3, <1>4

(* A sum of naturals is a natural.                                          *)
LEMMA SumType ==
    ASSUME NEW S, IsFiniteSet(S), NEW f, \A x \in S : f[x] \in Nat
    PROVE  SumOver(f, S) \in Nat
<1> DEFINE Bad == {w \in SUBSET S : SumOver(f, w) \notin Nat}
<1>1. SUFFICES ASSUME Bad # {} PROVE FALSE
  OBVIOUS
<1>2. PICK w \in Bad : \A y \in Bad : y \subseteq w => y = w
  <2>1. Bad \in SUBSET (SUBSET S)
    OBVIOUS
  <2> HIDE DEF Bad
  <2>2. QED
    BY <1>1, <2>1, SmallestSubset
<1>3. w \in SUBSET S /\ IsFiniteSet(w) /\ SumOver(f, w) \notin Nat
  BY FS_Subset
<1>4. w # {} /\ SumOver(f, w) = f[Pick(w)] + SumOver(f, w \ {Pick(w)})
  BY <1>3, SumStep
<1>5. Pick(w) \in w
  BY <1>4, PickIn
<1>6. SumOver(f, w \ {Pick(w)}) \in Nat
  BY <1>2, <1>3, <1>5
<1>7. QED
  BY <1>3, <1>4, <1>5, <1>6

(* An element adds its own value to the sum, whatever the order.            *)
LEMMA SumAdd ==
    ASSUME NEW S, IsFiniteSet(S), NEW y, y \notin S,
           NEW f, \A x \in S \cup {y} : f[x] \in Nat
    PROVE  SumOver(f, S \cup {y}) = f[y] + SumOver(f, S)
<1> DEFINE Adds(w, z) == SumOver(f, w \cup {z}) = f[z] + SumOver(f, w)
           Bad == {w \in SUBSET (S \cup {y}) : \E z \in (S \cup {y}) \ w : ~ Adds(w, z)}
<1>0. IsFiniteSet(S \cup {y})
  BY FS_AddElement
<1>1. SUFFICES ASSUME Bad # {} PROVE FALSE
  BY Zenon
<1>2. PICK w \in Bad : \A v \in Bad : v \subseteq w => v = w
  <2>1. Bad \in SUBSET (SUBSET (S \cup {y}))
    OBVIOUS
  <2> HIDE DEF Bad
  <2>2. QED
    BY <1>0, <1>1, <2>1, SmallestSubset
<1>3. PICK z \in (S \cup {y}) \ w : ~ Adds(w, z)
  OBVIOUS
<1> DEFINE wz == w \cup {z}
           x == Pick(wz)
<1>4. w \subseteq S \cup {y} /\ wz \subseteq S \cup {y} /\ wz # {}
  OBVIOUS
<1>5. IsFiniteSet(w) /\ IsFiniteSet(wz)
  BY <1>0, <1>4, FS_Subset
<1>6. x \in wz
  BY <1>4, PickIn
<1>7. SumOver(f, wz) = f[x] + SumOver(f, wz \ {x})
  BY Zenon, <1>4, <1>5, SumStep
<1>8. CASE x = z
  <2>1. wz \ {x} = w
    BY <1>8
  <2>2. QED
    BY <1>3, <1>7, <1>8, <2>1
<1>9. CASE x # z
  <2> DEFINE v == w \ {x}
  <2>1. x \in w /\ v \subseteq w /\ v # w /\ z \notin v /\ x \notin v
    BY <1>6, <1>9
  <2>2. v \notin Bad
    BY Zenon, <1>2, <2>1
  <2>3. v \in SUBSET (S \cup {y})
    BY <1>4
  <2>4. Adds(v, z) /\ Adds(v, x)
    BY Zenon, <1>4, <2>1, <2>2, <2>3
  <2>5. v \cup {x} = w /\ v \cup {z} = wz \ {x}
    BY <2>1, <1>9
  <2>6. IsFiniteSet(v) /\ SumOver(f, v) \in Nat
    <3>1. IsFiniteSet(v)
      BY <1>5, FS_RemoveElement
    <3>2. \A u \in v : f[u] \in Nat
      BY <2>3
    <3> HIDE DEF v
    <3>3. QED
      BY <3>1, <3>2, SumType
  <2>7. f[x] \in Nat /\ f[z] \in Nat
    BY <1>4, <2>1
  <2> HIDE DEF v, x, wz
  <2>8. SumOver(f, wz) = f[x] + (f[z] + SumOver(f, v)) /\ SumOver(f, w) = f[x] + SumOver(f, v)
    BY <1>7, <2>4, <2>5
  <2>9. SumOver(f, wz) = f[z] + SumOver(f, w)
    BY <2>6, <2>7, <2>8
  <2>10. QED
    BY <1>3, <2>9 DEF wz
<1>10. QED
  BY <1>8, <1>9

(* Fewer elements of smaller values have the smaller sum.                   *)
LEMMA SumMonotone ==
    ASSUME NEW S, IsFiniteSet(S), NEW T, T \subseteq S, NEW f, NEW g,
           \A x \in T : f[x] \in Nat, \A x \in S : g[x] \in Nat, \A x \in T : f[x] <= g[x]
    PROVE  SumOver(f, T) <= SumOver(g, S)
<1> DEFINE Bad == {w \in SUBSET S : ~ (SumOver(f, w \cap T) <= SumOver(g, w))}
<1>1. S \notin Bad => SumOver(f, T) <= SumOver(g, S)
  <2>1. S \cap T = T
    OBVIOUS
  <2>2. QED
    BY <2>1
<1>2. SUFFICES ASSUME Bad # {} PROVE FALSE
  BY <1>1
<1>3. PICK w \in Bad : \A v \in Bad : v \subseteq w => v = w
  <2>1. Bad \in SUBSET (SUBSET S)
    OBVIOUS
  <2> HIDE DEF Bad
  <2>2. QED
    BY <1>2, <2>1, SmallestSubset
<1>4. w \subseteq S /\ IsFiniteSet(w)
  BY FS_Subset
<1>5. CASE w = {}
  <2>1. w \cap T = {} /\ w = {}
    BY <1>5
  <2>2. SumOver(f, w \cap T) = 0 /\ SumOver(g, w) = 0
    BY Zenon, <1>4, <2>1, SumStep
  <2>3. QED
    BY <1>3, <2>2
<1>6. CASE w # {}
  <2> DEFINE p == Pick(w)
             v == w \ {p}
             vT == v \cap T
  <2>1. p \in w
    BY <1>6, PickIn
  <2>2. SumOver(g, w) = g[p] + SumOver(g, v)
    BY Zenon, <1>4, <1>6, SumStep
  <2>3. SumOver(f, vT) <= SumOver(g, v)
    BY <1>3, <1>4, <2>1
  <2>4. v \subseteq S /\ IsFiniteSet(v) /\ IsFiniteSet(vT)
    BY <1>4, FS_RemoveElement, FS_Subset
  <2>5. SumOver(g, v) \in Nat /\ SumOver(f, vT) \in Nat
    <3>1. (\A x \in v : g[x] \in Nat) /\ (\A x \in vT : f[x] \in Nat)
      BY <2>4
    <3> HIDE DEF v, vT
    <3>2. QED
      BY <2>4, <3>1, SumType
  <2>6. g[p] \in Nat
    BY <1>4, <2>1
  <2>7. CASE p \in T
    <3>1. w \cap T = vT \cup {p} /\ p \notin vT
      BY <2>1, <2>7
    <3>2. \A x \in vT \cup {p} : f[x] \in Nat
      BY <2>7
    <3>4. f[p] \in Nat /\ f[p] <= g[p]
      <4>1. \A x \in T : f[x] \in Nat /\ f[x] <= g[x]
        OBVIOUS
      <4> HIDE DEF p
      <4>2. QED
        BY <2>7, <4>1
    <3> HIDE DEF v, vT, p
    <3>3. SumOver(f, w \cap T) = f[p] + SumOver(f, vT)
      BY Zenon, <2>4, <3>1, <3>2, SumAdd
    <3>5. SumOver(f, w \cap T) <= SumOver(g, w)
      BY <2>2, <2>3, <2>5, <2>6, <3>3, <3>4
    <3>6. QED
      BY <1>3, <3>5
  <2>8. CASE p \notin T
    <3>1. w \cap T = vT
      BY <2>8
    <3> HIDE DEF v, vT, p
    <3>2. SumOver(f, w \cap T) <= SumOver(g, w)
      <4>1. SumOver(f, w \cap T) = SumOver(f, vT)
        BY <3>1, Zenon
      <4>2. SumOver(f, vT) <= SumOver(g, w)
        BY <2>2, <2>3, <2>5, <2>6
      <4>3. QED
        BY <4>1, <4>2, Zenon
    <3>3. QED
      BY <1>3, <3>2
  <2>9. QED
    BY <2>7, <2>8
<1>7. QED
  BY <1>5, <1>6

(* The sum depends only on the values of the set's elements.                *)
LEMMA SumSame ==
    ASSUME NEW S, IsFiniteSet(S), NEW f, NEW g, \A x \in S : f[x] \in Nat,
           \A x \in S : f[x] = g[x]
    PROVE  SumOver(f, S) = SumOver(g, S)
<1>1. \A x \in S : g[x] \in Nat /\ f[x] <= g[x] /\ g[x] <= f[x]
  OBVIOUS
<1>2. SumOver(f, S) \in Nat /\ SumOver(g, S) \in Nat
  BY <1>1, SumType
<1>3. SumOver(f, S) <= SumOver(g, S) /\ SumOver(g, S) <= SumOver(f, S)
  BY <1>1, SumMonotone
<1>4. QED
  BY <1>2, <1>3

(* An element takes its own value from the sum.                             *)
LEMMA SumRemove ==
    ASSUME NEW S, IsFiniteSet(S), NEW y \in S, NEW f, \A x \in S : f[x] \in Nat
    PROVE  SumOver(f, S) = f[y] + SumOver(f, S \ {y})
<1> DEFINE T == S \ {y}
<1>1. IsFiniteSet(T) /\ y \notin T /\ T \cup {y} = S
  BY FS_RemoveElement
<1> HIDE DEF T
<1>2. SumOver(f, T \cup {y}) = f[y] + SumOver(f, T)
  BY Zenon, <1>1, SumAdd
<1>3. QED
  BY <1>1, <1>2 DEF T

-----------------------------------------------------------------------------
(* The sums the code takes, as sums of a function.                          *)

Amounts(rs) == [r \in Refunds |-> rs[r].amount]
ActiveIn(rs) == {r \in Refunds : rs[r].status \in Active}
ActiveSum(rs) == SumOver(Amounts(rs), ActiveIn(rs))

Shares(g, rs) == [r \in Refunds |-> g[r].times * rs[r].amount]
MovedSum(g, rs) == SumOver(Shares(g, rs), Refunds)

(* The amounts of the active refunds, summed as SumActiveRefunds does.      *)
LEMMA ActiveSumIs ==
    ASSUME NEW rs
    PROVE  MapThenSumSet(LAMBDA r : rs[r].amount, {r \in Refunds : rs[r].status \in Active}) = ActiveSum(rs)
<1> DEFINE S == ActiveIn(rs)
           h == CHOOSE it : it = [s \in SUBSET S |->
                    IF s = {} THEN 0 ELSE rs[Pick(s)].amount + it[s \ {Pick(s)}]]
<1>1. IsFiniteSet(S) /\ S \subseteq Refunds
  BY RefundConstants, FS_Subset DEF ActiveIn
<1>2. MapThenSumSet(LAMBDA r : rs[r].amount, {r \in Refunds : rs[r].status \in Active}) = h[S]
  BY DEF MapThenSumSet, MapThenFoldSet, Pick, ActiveIn
<1>3. \A s \in SUBSET S : s # {} => Amounts(rs)[Pick(s)] = rs[Pick(s)].amount
  BY <1>1, PickIn DEF Amounts
<1>4. PICK g : Sums(g, Amounts(rs), S)
  BY <1>1, SumsExist
<1>5. \A it : it = [s \in SUBSET S |-> IF s = {} THEN 0 ELSE rs[Pick(s)].amount + it[s \ {Pick(s)}]]
               <=> Sums(it, Amounts(rs), S)
  <2> SUFFICES ASSUME NEW it
               PROVE  it = [s \in SUBSET S |-> IF s = {} THEN 0 ELSE rs[Pick(s)].amount + it[s \ {Pick(s)}]]
                        <=> Sums(it, Amounts(rs), S)
    BY Zenon
  <2>1. [s \in SUBSET S |-> IF s = {} THEN 0 ELSE rs[Pick(s)].amount + it[s \ {Pick(s)}]]
        = [s \in SUBSET S |-> IF s = {} THEN 0 ELSE Amounts(rs)[Pick(s)] + it[s \ {Pick(s)}]]
    BY <1>3
  <2>2. QED
    BY <2>1 DEF Sums
<1>6. Sums(h, Amounts(rs), S)
  <2>1. \E it : it = [s \in SUBSET S |-> IF s = {} THEN 0 ELSE rs[Pick(s)].amount + it[s \ {Pick(s)}]]
    BY Zenon, <1>4, <1>5
  <2>2. h = [s \in SUBSET S |-> IF s = {} THEN 0 ELSE rs[Pick(s)].amount + h[s \ {Pick(s)}]]
    BY <2>1, Zenon
  <2>3. QED
    BY Zenon, <1>5, <2>2
<1> HIDE DEF h, S
<1>7. SumOver(Amounts(rs), S) = h[S]
  BY <1>1, <1>6, SumIsEntry
<1>8. QED
  BY <1>2, <1>7 DEF ActiveSum, S

(* What the gateway moved for the refunds, summed as Moved does.            *)
LEMMA MovedSumIs ==
    ASSUME NEW g, NEW rs
    PROVE  MapThenSumSet(LAMBDA r : g[r].times * rs[r].amount, Refunds) = MovedSum(g, rs)
<1> DEFINE S == Refunds
           h == CHOOSE it : it = [s \in SUBSET S |->
                    IF s = {} THEN 0 ELSE g[Pick(s)].times * rs[Pick(s)].amount + it[s \ {Pick(s)}]]
<1>1. IsFiniteSet(S) /\ S \subseteq Refunds
  BY RefundConstants, FS_Subset
<1>2. MapThenSumSet(LAMBDA r : g[r].times * rs[r].amount, Refunds) = h[S]
  BY DEF MapThenSumSet, MapThenFoldSet, Pick
<1>3. \A s \in SUBSET S : s # {} => Shares(g, rs)[Pick(s)] = g[Pick(s)].times * rs[Pick(s)].amount
  BY <1>1, PickIn DEF Shares
<1>4. PICK f : Sums(f, Shares(g, rs), S)
  BY <1>1, SumsExist
<1>5. \A it : it = [s \in SUBSET S |-> IF s = {} THEN 0 ELSE g[Pick(s)].times * rs[Pick(s)].amount + it[s \ {Pick(s)}]]
               <=> Sums(it, Shares(g, rs), S)
  <2> SUFFICES ASSUME NEW it
               PROVE  it = [s \in SUBSET S |-> IF s = {} THEN 0 ELSE g[Pick(s)].times * rs[Pick(s)].amount + it[s \ {Pick(s)}]]
                        <=> Sums(it, Shares(g, rs), S)
    BY Zenon
  <2>1. [s \in SUBSET S |-> IF s = {} THEN 0 ELSE g[Pick(s)].times * rs[Pick(s)].amount + it[s \ {Pick(s)}]]
        = [s \in SUBSET S |-> IF s = {} THEN 0 ELSE Shares(g, rs)[Pick(s)] + it[s \ {Pick(s)}]]
    BY <1>3
  <2>2. QED
    BY <2>1 DEF Sums
<1>6. Sums(h, Shares(g, rs), S)
  <2>1. \E it : it = [s \in SUBSET S |-> IF s = {} THEN 0 ELSE g[Pick(s)].times * rs[Pick(s)].amount + it[s \ {Pick(s)}]]
    BY Zenon, <1>4, <1>5
  <2>2. h = [s \in SUBSET S |-> IF s = {} THEN 0 ELSE g[Pick(s)].times * rs[Pick(s)].amount + h[s \ {Pick(s)}]]
    BY <2>1, Zenon
  <2>3. QED
    BY Zenon, <1>5, <2>2
<1> HIDE DEF h, S
<1>7. SumOver(Shares(g, rs), S) = h[S]
  BY <1>1, <1>6, SumIsEntry
<1>8. QED
  BY <1>2, <1>7 DEF MovedSum, S

(* The amounts summed are naturals.                                         *)
LEMMA SumTypes ==
    ASSUME NEW rs \in [Refunds -> RefundRow], NEW g \in [Refunds -> GatewayRow]
    PROVE  /\ ActiveSum(rs) \in Nat /\ MovedSum(g, rs) \in Nat
           /\ \A r \in Refunds : Amounts(rs)[r] = rs[r].amount /\ rs[r].amount \in Nat
           /\ \A r \in Refunds : Shares(g, rs)[r] = g[r].times * rs[r].amount /\ Shares(g, rs)[r] \in Nat
           /\ ActiveIn(rs) \subseteq Refunds /\ IsFiniteSet(ActiveIn(rs)) /\ IsFiniteSet(Refunds)
<1>1. \A r \in Refunds : rs[r].amount \in Nat /\ g[r].times \in Nat
  BY DEF RefundRow, GatewayRow
<1>2. \A t, a \in Nat : t * a \in Nat
  OBVIOUS
<1>3. \A r \in Refunds : Amounts(rs)[r] = rs[r].amount /\ Amounts(rs)[r] \in Nat
  BY <1>1 DEF Amounts
<1>4. \A r \in Refunds : Shares(g, rs)[r] = g[r].times * rs[r].amount /\ Shares(g, rs)[r] \in Nat
  BY <1>1, <1>2 DEF Shares
<1>5. ActiveIn(rs) \subseteq Refunds /\ IsFiniteSet(ActiveIn(rs)) /\ IsFiniteSet(Refunds)
  BY RefundConstants, FS_Subset DEF ActiveIn
<1>6. ActiveSum(rs) \in Nat
  BY <1>3, <1>5, SumType DEF ActiveSum
<1>7. MovedSum(g, rs) \in Nat
  BY <1>4, <1>5, SumType DEF MovedSum
<1>8. QED
  BY <1>1, <1>3, <1>4, <1>5, <1>6, <1>7

(* One refund's row changes to x.                                           *)
LEMMA RowChanges ==
    ASSUME NEW rs \in [Refunds -> RefundRow], NEW q \in Refunds, NEW x \in RefundRow,
           NEW new, new = [rs EXCEPT ![q] = x]
    PROVE  /\ new \in [Refunds -> RefundRow] /\ new[q] = x
           /\ \A r \in Refunds : r # q => new[r] = rs[r]
OBVIOUS

(* One refund's row changes: the sum of the active ones follows.            *)
LEMMA ActiveSumSteps ==
    ASSUME NEW rs \in [Refunds -> RefundRow], NEW q \in Refunds, NEW new \in [Refunds -> RefundRow],
           \A r \in Refunds : r # q => new[r] = rs[r]
    PROVE  /\ rs[q].status \notin Active /\ new[q].status \in Active =>
                  ActiveSum(new) = new[q].amount + ActiveSum(rs)
           /\ rs[q].status \in Active /\ new[q].status \notin Active =>
                  ActiveSum(rs) = rs[q].amount + ActiveSum(new)
           /\ rs[q].status \in Active /\ new[q].status \in Active /\ new[q].amount = rs[q].amount =>
                  ActiveSum(new) = ActiveSum(rs)
<1>2. PICK g : g \in [Refunds -> GatewayRow]
  <2>1. [r \in Refunds |-> [status |-> "none", times |-> 0]] \in [Refunds -> GatewayRow]
    BY DEF GatewayRow
  <2>2. QED
    BY Zenon, <2>1
<1>3. /\ \A r \in Refunds : Amounts(rs)[r] = rs[r].amount /\ rs[r].amount \in Nat
      /\ ActiveIn(rs) \subseteq Refunds /\ IsFiniteSet(ActiveIn(rs))
  BY <1>2, SumTypes
<1>4. /\ \A r \in Refunds : Amounts(new)[r] = new[r].amount /\ new[r].amount \in Nat
      /\ ActiveIn(new) \subseteq Refunds /\ IsFiniteSet(ActiveIn(new))
  BY <1>2, SumTypes
<1>5. CASE rs[q].status \notin Active /\ new[q].status \in Active
  <2>1. q \notin ActiveIn(rs) /\ ActiveIn(new) = ActiveIn(rs) \cup {q}
    BY <1>5 DEF ActiveIn
  <2>2. \A r \in ActiveIn(rs) \cup {q} : Amounts(new)[r] \in Nat
    BY <1>3, <1>4
  <2>3. SumOver(Amounts(new), ActiveIn(new)) = Amounts(new)[q] + SumOver(Amounts(new), ActiveIn(rs))
    <3>1. SumOver(Amounts(new), ActiveIn(rs) \cup {q}) = Amounts(new)[q] + SumOver(Amounts(new), ActiveIn(rs))
      BY Zenon, <1>3, <2>1, <2>2, SumAdd
    <3>2. QED
      BY <2>1, <3>1
  <2>4. \A r \in ActiveIn(rs) : Amounts(new)[r] \in Nat /\ Amounts(new)[r] = Amounts(rs)[r]
    BY <1>3, <1>4, <2>1
  <2>5. SumOver(Amounts(new), ActiveIn(rs)) = SumOver(Amounts(rs), ActiveIn(rs))
    BY <1>3, <2>4, SumSame
  <2>6. QED
    BY <1>4, <1>5, <2>3, <2>5 DEF ActiveSum
<1>6. CASE rs[q].status \in Active /\ new[q].status \notin Active
  <2>1. q \in ActiveIn(rs) /\ ActiveIn(new) = ActiveIn(rs) \ {q}
    BY <1>6 DEF ActiveIn
  <2>2. SumOver(Amounts(rs), ActiveIn(rs)) = Amounts(rs)[q] + SumOver(Amounts(rs), ActiveIn(new))
    <3>1. \A r \in ActiveIn(rs) : Amounts(rs)[r] \in Nat
      BY <1>3
    <3>2. SumOver(Amounts(rs), ActiveIn(rs)) = Amounts(rs)[q] + SumOver(Amounts(rs), ActiveIn(rs) \ {q})
      BY <1>3, <2>1, <3>1, SumRemove
    <3>3. QED
      BY <2>1, <3>2
  <2>3. \A r \in ActiveIn(new) : Amounts(new)[r] \in Nat /\ Amounts(new)[r] = Amounts(rs)[r]
    BY <1>3, <1>4, <2>1
  <2>4. SumOver(Amounts(new), ActiveIn(new)) = SumOver(Amounts(rs), ActiveIn(new))
    BY <1>4, <2>3, SumSame
  <2>5. QED
    BY <1>3, <1>6, <2>2, <2>4 DEF ActiveSum
<1>7. CASE rs[q].status \in Active /\ new[q].status \in Active /\ new[q].amount = rs[q].amount
  <2>1. ActiveIn(new) = ActiveIn(rs)
    BY <1>7 DEF ActiveIn
  <2>2. \A r \in ActiveIn(rs) : Amounts(new)[r] \in Nat /\ Amounts(new)[r] = Amounts(rs)[r]
    BY <1>3, <1>4, <1>7
  <2>3. SumOver(Amounts(new), ActiveIn(rs)) = SumOver(Amounts(rs), ActiveIn(rs))
    BY <1>3, <2>2, SumSame
  <2>4. QED
    BY <1>7, <2>1, <2>3 DEF ActiveSum
<1>8. QED
  BY <1>5, <1>6, <1>7

-----------------------------------------------------------------------------
(* What a step does to the refunds, the parent and the gateway. *)

(* A refund that is outstanding stays so, with the next version.            *)
Advances(w) ==
    /\ proc[w].id \in Refunds /\ refunds[proc[w].id].status \in Outstanding
    /\ \E x \in RefundRow :
          /\ refunds' = [refunds EXCEPT ![proc[w].id] = x]
          /\ x.status \in Outstanding /\ x.amount = refunds[proc[w].id].amount
    /\ UNCHANGED <<parent, effects, gw, hook>>

(* A result is recorded: the refund, its announcement and the parent.       *)
ClosesAs(w, x) ==
    /\ refunds' = [refunds EXCEPT ![proc[w].id] = x]
    /\ x.status \in Closed /\ x.amount = refunds[proc[w].id].amount
    /\ effects' = effects \cup {announcement(proc[w].id, x.status, x.version)}
    /\ x.status = "REFUNDED" => gw[proc[w].id].times > 0
    /\ x.status = "REFUND_FAILED" /\ KeyedRefunds => gw[proc[w].id].status = "failed"
    /\ parent'.status = transitionParentOnRefundResult(proc[w].id, x.status, parent.status)
    /\ \/ x.status # "REFUNDED" /\ parent'.status = parent.status
       \/ isValidTransition(parent.status, parent'.status)

Closes(w) ==
    /\ proc[w].id \in Refunds /\ refunds[proc[w].id].status \in Outstanding
    /\ \E x \in RefundRow : ClosesAs(w, x)
    /\ UNCHANGED <<gw, hook>>

(* The gateway's record of one refund becomes g.                            *)
GatewayTurns ==
    /\ \E r \in Refunds : \E g \in GatewayRow :
          /\ gw' = [gw EXCEPT ![r] = g] /\ refunds[r].status # "none"
          /\ g.times >= gw[r].times
          /\ g.status = "succeeded" => g.times > 0
          /\ KeyedRefunds /\ g.status # "succeeded" => g.times = 0
          /\ KeyedRefunds /\ gw[r].status = "failed" => g.status = "failed"
    /\ UNCHANGED <<parent, refunds, effects, hook>>

HookReports ==
    /\ hook = "quiet" /\ Moved = Amount /\ hook' = "sent"
    /\ UNCHANGED <<parent, refunds, effects, gw>>

(* The gateway's webhook is applied to the parent, or only recorded.        *)
WebhookTurns(w) ==
    /\ proc[w].op = "webhook"
    /\ hook' = "recorded"
    /\ \/ parent' = parent
       \/ parent'.status = "REFUNDED" /\ isValidTransition(parent.status, "REFUNDED")
    /\ UNCHANGED <<refunds, effects, gw>>

Quiet == UNCHANGED <<parent, refunds, effects, gw, hook>>

Kinds(w) ==
    \/ Inserts(w) \/ Advances(w) \/ Closes(w) \/ GatewayTurns \/ HookReports \/ WebhookTurns(w) \/ Quiet

(* A version check that passes compares equal rows.                         *)
LEMMA CurrentParent ==
    ASSUME RType, NEW w \in Workers, WorkOK(w), ParentCurrent(w),
           proc[w].pc \in {"loaded", "answered"}
    PROVE  proc[w].snap = parent
BY DEF WorkOK, ParentCurrent, AgreesWith

(* ClaimProcessing and PersistInFlight save a refund that stays outstanding, *)
(* or leave everything as it is.                                            *)
LEMMA AdvanceKinds ==
    ASSUME Copies, NEW w \in Workers, ClaimProcessing(w) \/ PersistInFlight(w)
    PROVE  Advances(w) \/ Quiet
<1>0. RType /\ WorkOK(w) /\ proc[w] \in Work
  BY DEF Copies, RType
<1> DEFINE r == proc[w].id
<1>1. CASE ClaimProcessing(w)
  <2>1. /\ proc[w].op \in Drivers /\ proc[w].pc = "loaded"
        /\ UNCHANGED <<parent, effects, gw, hook>>
    BY <1>1 DEF ClaimProcessing, At
  <2>2. r \in Refunds /\ refunds[r] \in RefundRow
    BY <1>0, <2>1 DEF WorkOK, RType
  <2>3. CASE Claimable(w)
    <3> DEFINE x == Bumped(refunds[r], "REFUND_PROCESSING", refunds[r].attempts + 1)
    <3>1. refunds[r].status \in Outstanding /\ refunds[r].attempts + 1 \in Nat
      <4>1. refunds[r].status \in Outstanding
        BY <2>3 DEF Claimable
      <4>2. refunds[r].attempts \in Nat
        BY <2>2 DEF RefundRow
      <4>3. QED
        BY <4>1, <4>2
    <3>2. x \in RefundRow /\ x.status \in Outstanding /\ x.amount = refunds[r].amount
      <4>1. Given("REFUND_PROCESSING") /\ "REFUND_PROCESSING" \in Outstanding
        BY DEF Given, Outstanding
      <4>2. Follows(x, refunds[r], "REFUND_PROCESSING")
        BY <2>2, <3>1, <4>1, BumpedRow, Zenon
      <4> HIDE DEF x
      <4>3. QED
        BY <4>1, <4>2 DEF Follows
    <3>3. refunds' = [refunds EXCEPT ![r] = x]
      <4>1. refunds' = [refunds EXCEPT ![r].status = "REFUND_PROCESSING",
                                       ![r].version = @ + 1, ![r].attempts = @ + 1]
        BY <1>1, <2>3 DEF ClaimProcessing
      <4>2. QED
        BY Zenon, <1>0, <2>2, <4>1 DEF RType, RefundRow, Bumped
    <3> HIDE DEF x
    <3>4. QED
      BY Zenon, <2>1, <2>2, <3>1, <3>2, <3>3 DEF Advances
  <2>4. CASE ~ Claimable(w)
    BY <1>1, <2>1, <2>4 DEF ClaimProcessing, Quiet
  <2>5. QED
    BY <2>3, <2>4
<1>2. CASE PersistInFlight(w)
  <2>1. /\ proc[w].pc = "answered" /\ UNCHANGED <<parent, effects, gw, hook>>
    BY <1>2 DEF PersistInFlight
  <2>2. CASE RefundCurrent(w)
    <3> DEFINE x == Bumped(refunds[r], refunds[r].status, refunds[r].attempts)
    <3>1. r \in Refunds /\ refunds[r] \in RefundRow /\ refunds[r].status \in Outstanding
      BY <1>0, <2>1, <2>2, CurrentRefund
    <3>2. x \in RefundRow /\ x.status \in Outstanding /\ x.amount = refunds[r].amount
      <4>1. refunds[r].attempts \in Nat
        BY <3>1 DEF RefundRow
      <4>2. Given(refunds[r].status)
        BY <3>1 DEF Given
      <4>3. Follows(x, refunds[r], refunds[r].status)
        BY <3>1, <4>1, <4>2, BumpedRow, Zenon
      <4> HIDE DEF x
      <4>4. QED
        BY <3>1, <4>3 DEF Follows
    <3>3. refunds' = [refunds EXCEPT ![r] = x]
      <4>1. refunds' = [refunds EXCEPT ![r].version = @ + 1]
        BY <1>2, <2>2 DEF PersistInFlight
      <4>2. QED
        BY Zenon, <1>0, <3>1, <4>1 DEF RType, RefundRow, Bumped
    <3> HIDE DEF x
    <3>4. QED
      BY Zenon, <2>1, <3>1, <3>2, <3>3 DEF Advances
  <2>3. CASE ~ RefundCurrent(w)
    BY <1>2, <2>1, <2>3 DEF PersistInFlight, Quiet
  <2>4. QED
    BY <2>2, <2>3
<1>3. QED
  BY <1>1, <1>2

(* FinalizeRefund records what its answer says, from the parent's own row.  *)
LEMMA FinalizeKinds ==
    ASSUME Copies, NEW w \in Workers, FinalizeRefund(w)
    PROVE  Closes(w)
<1>0. RType /\ WorkOK(w) /\ proc[w] \in Work
  BY DEF Copies, RType
<1> DEFINE r == proc[w].id
           o == RefundOutcome(w)
           x == Bumped(refunds[r], o, refunds[r].attempts)
<1>1. /\ proc[w].pc = "answered" /\ o # "none"
      /\ RefundCurrent(w) /\ ParentAccepts(w) /\ ParentCurrent(w)
      /\ UpdateParent(ParentResult(w))
      /\ effects' = effects \cup {announcement(r, o, refunds'[r].version)}
      /\ refunds' = [refunds EXCEPT ![r].status = o, ![r].version = @ + 1]
      /\ UNCHANGED <<gw, hook>>
  BY DEF FinalizeRefund
<1>2. r \in Refunds /\ refunds[r] \in RefundRow /\ refunds[r].status \in Outstanding
  BY <1>0, <1>1, CurrentRefund
<1>3. /\ o \in Closed
      /\ o = "REFUNDED" => proc[w].answer = "completed"
      /\ o = "REFUND_FAILED" => proc[w].answer = "failed"
  BY <1>1 DEF RefundOutcome, resolveRefundOutcome, Closed
<1>4. /\ x \in RefundRow /\ x.status = o /\ x.amount = refunds[r].amount
  <2>1. refunds[r].attempts \in Nat
    BY <1>2 DEF RefundRow
  <2>2. Given(o)
    BY <1>3 DEF Given
  <2> HIDE DEF o
  <2>3. Follows(x, refunds[r], o)
    BY <1>2, <2>1, <2>2, BumpedRow, Zenon
  <2> HIDE DEF x
  <2>4. QED
    BY <2>3 DEF Follows
<1>5. refunds' = [refunds EXCEPT ![r] = x]
  BY <1>0, <1>1, <1>2 DEF RType, RefundRow, Bumped
<1>6. /\ o = "REFUNDED" => gw[r].times > 0
      /\ o = "REFUND_FAILED" /\ KeyedRefunds => gw[r].status = "failed"
  BY <1>0, <1>1, <1>3 DEF WorkOK
<1>7. proc[w].snap = parent
  BY <1>0, <1>1, CurrentParent
<1>8. parent'.status = ParentResult(w)
  BY <1>0, <1>1, ParentResultType, UpdateParentSteps
<1>9. ParentResult(w) = transitionParentOnRefundResult(r, o, parent.status)
  BY <1>7 DEF ParentResult
<1>10. (o # "REFUNDED" /\ parent'.status = parent.status) \/ isValidTransition(parent.status, parent'.status)
  BY <1>1, <1>7, <1>8 DEF ParentAccepts
<1> HIDE DEF x, o
<1>11. refunds'[r] = x
  BY <1>0, <1>2, <1>4, <1>5 DEF RType
<1>12. ClosesAs(w, x)
  BY Zenon, <1>1, <1>3, <1>4, <1>5, <1>6, <1>8, <1>9, <1>10, <1>11 DEF ClosesAs
<1>13. QED
  BY <1>1, <1>2, <1>4, <1>12 DEF Closes

(* The gateway changes only refunds the table holds.                        *)
LEMMA GatewayKinds ==
    ASSUME Copies
    PROVE  /\ \A w \in Workers : GatewayRefund(w) => GatewayTurns \/ Quiet
           /\ \A r \in Refunds : GatewaySettles(r) => GatewayTurns
<1>0. RType /\ gw \in [Refunds -> GatewayRow]
  BY DEF Copies, RType
<1>1. ASSUME NEW w \in Workers, GatewayRefund(w)
      PROVE  GatewayTurns \/ Quiet
  <2> DEFINE r == proc[w].id
  <2>1. /\ proc[w].pc = "call" /\ UNCHANGED <<parent, refunds, effects, hook>>
        /\ (\E g \in Request(r) : gw' = [gw EXCEPT ![r] = g]) \/ gw' = gw
    BY Zenon, <1>1 DEF GatewayRefund
  <2>2. r \in Refunds /\ refunds[r].status # "none"
    BY <2>1 DEF Copies, WorkOK, Drivers
  <2>3. CASE gw' = gw
    BY <2>1, <2>3 DEF Quiet
  <2>4. ASSUME NEW g \in Request(r), gw' = [gw EXCEPT ![r] = g]
        PROVE  GatewayTurns
    <3>1. /\ g \in GatewayRow /\ g.times >= gw[r].times
          /\ g.status = "succeeded" => g.times > 0
          /\ KeyedRefunds /\ g.status # "succeeded" => g.times = 0
          /\ KeyedRefunds /\ gw[r].status = "failed" => g.status = "failed"
      BY <1>0, <2>2, RequestRow DEF Copies
    <3>2. QED
      BY Zenon, <2>1, <2>2, <2>4, <3>1 DEF GatewayTurns
  <2>5. QED
    BY <2>1, <2>3, <2>4
<1>2. ASSUME NEW r \in Refunds, GatewaySettles(r)
      PROVE  GatewayTurns
  <2>1. /\ gw[r].status = "pending" /\ UNCHANGED <<parent, refunds, effects, hook>>
        /\ \/ gw' = [gw EXCEPT ![r] = [status |-> "succeeded", times |-> gw[r].times + 1]]
           \/ gw' = [gw EXCEPT ![r] = [gw[r] EXCEPT !.status = "failed"]]
    BY <1>0, <1>2 DEF GatewaySettles
  <2>2. gw[r] \in GatewayRow /\ gw[r].times \in Nat
    BY <1>0 DEF GatewayRow
  <2>3. RefundOK(r)
    BY DEF Copies
  <2>4. refunds[r].status # "none" /\ (KeyedRefunds => gw[r].times = 0)
    BY <2>1, <2>3 DEF RefundOK
  <2>5. CASE gw' = [gw EXCEPT ![r] = [status |-> "succeeded", times |-> gw[r].times + 1]]
    <3> DEFINE g == [status |-> "succeeded", times |-> gw[r].times + 1]
    <3>1. g \in GatewayRow /\ g.times >= gw[r].times /\ g.times > 0 /\ g.status = "succeeded"
      <4> DEFINE n == gw[r].times
      <4>1. n \in Nat /\ n + 1 \in Nat /\ n + 1 >= n /\ n + 1 > 0
        BY <2>2
      <4>2. g.times = n + 1 /\ g.status = "succeeded"
        OBVIOUS
      <4> HIDE DEF n
      <4>3. g \in GatewayRow
        BY <4>1 DEF n, GatewayRow
      <4>4. QED
        BY <4>1, <4>2, <4>3 DEF n
    <3> HIDE DEF g
    <3>2. gw' = [gw EXCEPT ![r] = g]
      BY <2>5 DEF g
    <3>3. QED
      BY Zenon, <2>1, <2>4, <3>1, <3>2 DEF GatewayTurns
  <2>6. CASE gw' = [gw EXCEPT ![r] = [gw[r] EXCEPT !.status = "failed"]]
    <3> DEFINE g == [gw[r] EXCEPT !.status = "failed"]
    <3>1. g \in GatewayRow /\ g.times = gw[r].times /\ g.times >= gw[r].times /\ g.status = "failed"
      BY <2>2 DEF GatewayRow
    <3> HIDE DEF g
    <3>2. gw' = [gw EXCEPT ![r] = g]
      BY <2>6 DEF g
    <3>3. QED
      BY Zenon, <2>1, <2>4, <3>1, <3>2 DEF GatewayTurns
  <2>7. QED
    BY <2>1, <2>5, <2>6
<1>3. QED
  BY <1>1, <1>2

(* The webhook's update starts from the parent's own row.                   *)
LEMMA WebhookKinds ==
    ASSUME Copies, NEW w \in Workers, WebhookRefunded(w)
    PROVE  WebhookTurns(w) \/ Quiet
<1>0. RType /\ WorkOK(w)
  BY DEF Copies
<1>1. /\ proc[w].op = "webhook" /\ proc[w].pc = "loaded" /\ UNCHANGED <<refunds, effects, gw>>
      /\ \/ /\ isValidTransition(proc[w].snap.status, "REFUNDED") /\ ParentCurrent(w)
            /\ UpdateParent("REFUNDED") /\ hook' = "recorded"
         \/ UNCHANGED <<parent, hook>>
         \/ parent' = parent /\ hook' = "recorded"
  BY DEF WebhookRefunded, At
<1>2. CASE UNCHANGED <<parent, hook>>
  BY <1>1, <1>2 DEF Quiet
<1>3. CASE parent' = parent /\ hook' = "recorded"
  BY <1>1, <1>3 DEF WebhookTurns
<1>4. CASE /\ isValidTransition(proc[w].snap.status, "REFUNDED") /\ ParentCurrent(w)
           /\ UpdateParent("REFUNDED") /\ hook' = "recorded"
  <2>1. proc[w].snap = parent
    BY <1>0, <1>1, <1>4, CurrentParent
  <2>2. parent'.status = "REFUNDED"
    BY <1>4 DEF UpdateParent
  <2>3. QED
    BY <1>1, <1>4, <2>1, <2>2 DEF WebhookTurns
<1>5. QED
  BY <1>1, <1>2, <1>3, <1>4

(* Every other step leaves refunds, parent, gateway and announcements alone. *)
LEMMA QuietKinds ==
    ASSUME NEW w \in Workers,
           \/ LoadParent(w) \/ CacheFill(w) \/ ProcessDirectly(w) \/ ReaperNext(w) \/ FinalizeRefused(w)
           \/ ReaperRun(w) \/ WebhookArrives(w) \/ Crash(w) \/ StatementFails(w)
           \/ CacheExpires \/ UNCHANGED rvars
           \/ \E r \in Refunds : \/ \E amount \in 1..Amount : InitiateRequest(w, r, amount)
                                 \/ ResolveCancelRefund(w, r) \/ Deliver(w, r) \/ Age(r)
    PROVE  Quiet
<1>1. CASE LoadParent(w) \/ CacheFill(w) \/ FinalizeRefused(w) \/ CacheExpires \/ UNCHANGED rvars
  BY Zenon, <1>1 DEF LoadParent, CacheFill, FinalizeRefused, CacheExpires, rvars, Quiet
<1>2. CASE ReaperRun(w) \/ WebhookArrives(w) \/ Crash(w) \/ StatementFails(w)
  BY Zenon, <1>2 DEF ReaperRun, WebhookArrives, Crash, StatementFails, Quiet
<1>3. CASE ProcessDirectly(w) \/ ReaperNext(w)
  BY Zenon, <1>3 DEF ProcessDirectly, ReaperNext, Drive, Quiet
<1>4. CASE \E r \in Refunds : \/ \E amount \in 1..Amount : InitiateRequest(w, r, amount)
                              \/ ResolveCancelRefund(w, r) \/ Deliver(w, r) \/ Age(r)
  BY Zenon, <1>4 DEF InitiateRequest, ResolveCancelRefund, Deliver, Drive, Age, Quiet
<1>5. QED
  BY <1>1, <1>2, <1>3, <1>4

(* Some worker moves in every step, in one of these ways.                   *)
LEMMA StepKinds ==
    ASSUME Copies, [RNext]_rvars
    PROVE  \E w \in Workers : Kinds(w)
<1>0. Workers # {}
  BY RefundConstants
<1>1. ASSUME NEW w \in Workers, Proceed(w)
      PROVE  Kinds(w)
  <2>1. CASE InitiateRefund(w)
    BY Zenon, <2>1, InitiateKinds DEF Kinds, Quiet
  <2>2. CASE ClaimProcessing(w) \/ PersistInFlight(w)
    BY <2>2, AdvanceKinds DEF Kinds
  <2>3. CASE FinalizeRefund(w) \/ WebhookRefunded(w) \/ GatewayRefund(w)
    BY <2>3, FinalizeKinds, WebhookKinds, GatewayKinds DEF Kinds
  <2>4. CASE LoadParent(w) \/ CacheFill(w) \/ ProcessDirectly(w) \/ ReaperNext(w) \/ FinalizeRefused(w)
    BY <2>4, QuietKinds DEF Kinds
  <2>5. QED
    BY <1>1, <2>1, <2>2, <2>3, <2>4 DEF Proceed
<1>2. ASSUME NEW w \in Workers,
             \/ ReaperRun(w) \/ WebhookArrives(w) \/ Crash(w) \/ StatementFails(w)
             \/ \E r \in Refunds : \/ \E amount \in 1..Amount : InitiateRequest(w, r, amount)
                                   \/ ResolveCancelRefund(w, r) \/ Deliver(w, r)
      PROVE  Kinds(w)
  BY <1>2, QuietKinds DEF Kinds
<1>3. CASE CacheExpires \/ UNCHANGED rvars \/ \E r \in Refunds : Age(r)
  BY <1>0, <1>3, QuietKinds DEF Kinds
<1>4. CASE \E r \in Refunds : GatewaySettles(r)
  BY <1>0, <1>4, GatewayKinds DEF Kinds
<1>5. CASE GatewayReportsRefund
  BY <1>0, <1>5 DEF GatewayReportsRefund, HookReports, Kinds
<1>6. QED
  BY <1>1, <1>2, <1>3, <1>4, <1>5 DEF RNext

-----------------------------------------------------------------------------
(* The invariants, kept by each kind of step. *)

(* One refund at a time is outstanding.                                     *)
OneOutstanding ==
    \A q, r \in Refunds :
        refunds[q].status \in Outstanding /\ refunds[r].status \in Outstanding => q = r

(* A status is none, outstanding or closed, and only one of these.          *)
LEMMA StatusKinds ==
    ASSUME RType, NEW r \in Refunds
    PROVE  /\ refunds[r] \in RefundRow
           /\ refunds[r].status \in Outstanding => refunds[r].status \notin Closed \cup {"none"}
           /\ refunds[r].status \in Outstanding => refunds[r].status \in Active
           /\ refunds[r].status = "none" => refunds[r].status \notin Active \cup Closed
BY DEF RType, RefundRow, Outstanding, Closed, Active

(* A refund that is requested was not at the gateway; one that is closed is *)
(* closed as the gateway has it.                                            *)
LEMMA RefundOKKept ==
    ASSUME Copies, NEW w \in Workers, Kinds(w), NEW r \in Refunds
    PROVE  RefundOK(r)'
<1>0. RType /\ RefundOK(r) /\ refunds \in [Refunds -> RefundRow] /\ gw \in [Refunds -> GatewayRow]
  BY DEF Copies, RType
<1>1. CASE Quiet \/ HookReports \/ WebhookTurns(w)
  BY <1>0, <1>1 DEF Quiet, HookReports, WebhookTurns, RefundOK
<1>2. CASE Inserts(w)
  <2>1. /\ Inserted(w) \in RefundRow /\ Inserted(w).status = "REFUND_INITIATED"
        /\ refunds' = [refunds EXCEPT ![proc[w].id] = Inserted(w)] /\ gw' = gw
    BY Zenon, <1>2, InsertedRow DEF Inserts
  <2>2. QED
    BY <1>0, <2>1 DEF RefundOK
<1>3. CASE Advances(w)
  <2>1. PICK x \in RefundRow : /\ refunds' = [refunds EXCEPT ![proc[w].id] = x]
                               /\ x.status \in Outstanding
    BY Zenon, <1>3 DEF Advances
  <2>2. gw' = gw /\ x.status \notin {"none", "REFUNDED", "REFUND_FAILED"}
    BY <1>3, <2>1 DEF Advances, Outstanding
  <2>3. QED
    BY <1>0, <2>1, <2>2 DEF RefundOK
<1>4. CASE Closes(w)
  <2>1. PICK x \in RefundRow : ClosesAs(w, x)
    BY <1>4 DEF Closes
  <2>2. /\ refunds' = [refunds EXCEPT ![proc[w].id] = x] /\ gw' = gw /\ x.status # "none"
        /\ x.status = "REFUNDED" => gw[proc[w].id].times > 0
        /\ x.status = "REFUND_FAILED" /\ KeyedRefunds => gw[proc[w].id].status = "failed"
    BY Zenon, <1>4, <2>1 DEF Closes, ClosesAs, Closed
  <2>3. refunds'[r] = IF r = proc[w].id THEN x ELSE refunds[r]
    BY <1>0, <2>2
  <2>4. QED
    BY <1>0, <2>2, <2>3 DEF RefundOK
<1>5. CASE GatewayTurns
  <2>1. PICK q \in Refunds : \E g \in GatewayRow :
          /\ gw' = [gw EXCEPT ![q] = g] /\ refunds[q].status # "none"
          /\ g.times >= gw[q].times
          /\ g.status = "succeeded" => g.times > 0
          /\ KeyedRefunds /\ g.status # "succeeded" => g.times = 0
          /\ KeyedRefunds /\ gw[q].status = "failed" => g.status = "failed"
    BY Zenon, <1>5 DEF GatewayTurns
  <2>2. PICK g \in GatewayRow :
          /\ gw' = [gw EXCEPT ![q] = g] /\ refunds[q].status # "none"
          /\ g.times >= gw[q].times
          /\ g.status = "succeeded" => g.times > 0
          /\ KeyedRefunds /\ g.status # "succeeded" => g.times = 0
          /\ KeyedRefunds /\ gw[q].status = "failed" => g.status = "failed"
    BY Zenon, <2>1
  <2>3. refunds' = refunds
    BY <1>5 DEF GatewayTurns
  <2>4. gw'[r] = IF r = q THEN g ELSE gw[r]
    BY <1>0, <2>2
  <2>5. g.times \in Nat /\ gw[q].times \in Nat
    BY <1>0 DEF GatewayRow
  <2>6. QED
    BY <1>0, <2>2, <2>3, <2>4, <2>5 DEF RefundOK
<1>6. QED
  BY <1>1, <1>2, <1>3, <1>4, <1>5 DEF Kinds

(* The announcements follow the results.                                    *)
LEMMA AnnouncedKept ==
    ASSUME Copies, AnnouncedWithResult, NEW w \in Workers, Kinds(w)
    PROVE  AnnouncedWithResult'
<1>0. RType /\ refunds \in [Refunds -> RefundRow]
  BY DEF Copies, RType
<1> DEFINE id == proc[w].id
<1>1. CASE Quiet \/ HookReports \/ WebhookTurns(w) \/ GatewayTurns
  BY <1>1 DEF Quiet, HookReports, WebhookTurns, GatewayTurns, AnnouncedWithResult
<1>2. ASSUME NEW x \in RefundRow, id \in Refunds, refunds' = [refunds EXCEPT ![id] = x], effects' = effects,
             refunds[id].status \notin Closed, x.status \notin Closed
      PROVE  AnnouncedWithResult'
  <2>1. \A r \in Refunds : refunds'[r] = IF r = id THEN x ELSE refunds[r]
    BY <1>0, <1>2
  <2>2. QED
    BY <1>2, <2>1 DEF AnnouncedWithResult, Closed
<1>3. CASE Inserts(w)
  <2>1. /\ Inserted(w) \in RefundRow /\ Inserted(w).status = "REFUND_INITIATED" /\ id \in Refunds
        /\ refunds' = [refunds EXCEPT ![id] = Inserted(w)] /\ effects' = effects
        /\ refunds[id].status = "none"
    BY Zenon, <1>3, InsertedRow DEF Inserts
  <2>2. QED
    BY Zenon, <1>2, <2>1 DEF Closed
<1>4. CASE Advances(w)
  <2>1. PICK x \in RefundRow : refunds' = [refunds EXCEPT ![id] = x] /\ x.status \in Outstanding
    BY Zenon, <1>4 DEF Advances
  <2>2. id \in Refunds /\ refunds[id].status \in Outstanding /\ effects' = effects
    BY <1>4 DEF Advances
  <2>3. x.status \notin Closed /\ refunds[id].status \notin Closed
    BY <2>1, <2>2 DEF Outstanding, Closed
  <2>4. QED
    BY Zenon, <1>2, <2>1, <2>2, <2>3
<1>5. CASE Closes(w)
  <2>1. PICK x \in RefundRow : ClosesAs(w, x)
    BY <1>5 DEF Closes
  <2>2. /\ id \in Refunds /\ refunds[id].status \in Outstanding
        /\ refunds' = [refunds EXCEPT ![id] = x] /\ x.status \in Closed
        /\ effects' = effects \cup {announcement(id, x.status, x.version)}
    BY Zenon, <1>5, <2>1 DEF Closes, ClosesAs
  <2> DEFINE a == announcement(id, x.status, x.version)
  <2>3. a.id = id /\ a = [id |-> id, status |-> x.status, version |-> x.version]
    BY DEF announcement
  <2>4. \A r \in Refunds : refunds'[r] = IF r = id THEN x ELSE refunds[r]
    BY <1>0, <2>2
  <2>5. {e \in effects : e.id = id} = {}
    BY <2>2 DEF AnnouncedWithResult, Outstanding
  <2> HIDE DEF a
  <2>6. {e \in effects' : e.id = id} = {a}
    BY <2>2, <2>3, <2>5 DEF a
  <2>7. ASSUME NEW r \in Refunds, r # id
        PROVE  {e \in effects' : e.id = r} = {e \in effects : e.id = r}
    BY <2>2, <2>3, <2>7 DEF a
  <2>8. ASSUME NEW r \in Refunds
        PROVE  {e \in effects' : e.id = r} =
                  IF refunds'[r].status \in {"REFUNDED", "REFUND_FAILED"}
                  THEN {[id |-> r, status |-> refunds'[r].status, version |-> refunds'[r].version]}
                  ELSE {}
    <3>1. CASE r = id
      BY <2>2, <2>3, <2>4, <2>6, <3>1 DEF Closed
    <3>2. CASE r # id
      BY <2>4, <2>7, <3>2 DEF AnnouncedWithResult
    <3>3. QED
      BY <3>1, <3>2
  <2>9. QED
    BY <2>8 DEF AnnouncedWithResult
<1>6. QED
  BY <1>1, <1>3, <1>4, <1>5 DEF Kinds

(* An insertion finds a parent with no refund outstanding; a result leaves  *)
(* none.                                                                    *)
LEMMA OutstandingKept ==
    ASSUME Copies, OneOutstanding, OutstandingPending, NEW w \in Workers, Kinds(w)
    PROVE  OneOutstanding' /\ OutstandingPending'
<1>0. RType /\ refunds \in [Refunds -> RefundRow] /\ WorkOK(w)
  BY DEF Copies, RType
<1> DEFINE id == proc[w].id
<1>1. CASE Quiet \/ GatewayTurns
  BY <1>1 DEF Quiet, GatewayTurns, OneOutstanding, OutstandingPending
<1>2. CASE HookReports
  BY <1>2 DEF HookReports, OneOutstanding, OutstandingPending
<1>3. CASE WebhookTurns(w)
  BY <1>3 DEF WebhookTurns, OneOutstanding, OutstandingPending
<1>4. CASE Inserts(w)
  <2>1. /\ Inserted(w) \in RefundRow /\ id \in Refunds
        /\ refunds' = [refunds EXCEPT ![id] = Inserted(w)]
    BY <1>4, InsertedRow
  <2>2. ParentCurrent(w) /\ proc[w].pc = "loaded" /\ isRefundableStatus(proc[w].snap.status)
    BY <1>4 DEF Inserts, At
  <2>3. proc[w].snap = parent
    BY <1>0, <2>2, CurrentParent
  <2>4. parent.status \notin {"REFUND_PENDING", "REFUNDED"}
    BY <2>2, <2>3 DEF isRefundableStatus
  <2>5. \A r \in Refunds : refunds[r].status \notin Outstanding
    BY <2>4 DEF OutstandingPending
  <2>6. \A r \in Refunds : r # id => refunds'[r] = refunds[r]
    BY <1>0, <2>1
  <2>7. OneOutstanding'
    BY <2>5, <2>6 DEF OneOutstanding
  <2>8. parent'.status = "REFUND_PENDING"
    BY <1>4 DEF Inserts, UpdateParent
  <2>9. QED
    BY <2>7, <2>8 DEF OutstandingPending
<1>5. CASE Advances(w)
  <2>1. PICK x \in RefundRow : refunds' = [refunds EXCEPT ![id] = x] /\ x.status \in Outstanding
    BY Zenon, <1>5 DEF Advances
  <2>2. id \in Refunds /\ refunds[id].status \in Outstanding /\ parent' = parent /\ hook' = hook
    BY <1>5 DEF Advances
  <2>3. \A r \in Refunds : refunds'[r].status \in Outstanding <=> refunds[r].status \in Outstanding
    <3>1. \A r \in Refunds : refunds'[r] = IF r = id THEN x ELSE refunds[r]
      BY <1>0, <2>1
    <3>2. QED
      BY <2>1, <2>2, <3>1
  <2>4. QED
    BY <2>2, <2>3 DEF OneOutstanding, OutstandingPending
<1>6. CASE Closes(w)
  <2>1. PICK x \in RefundRow : refunds' = [refunds EXCEPT ![id] = x] /\ x.status \in Closed
    BY Zenon, <1>6 DEF Closes, ClosesAs
  <2>2. id \in Refunds /\ refunds[id].status \in Outstanding /\ x.status \notin Outstanding
    BY <1>6, <2>1 DEF Closes, Closed, Outstanding
  <2>3. \A r \in Refunds : refunds'[r] = IF r = id THEN x ELSE refunds[r]
    BY <1>0, <2>1
  <2>4. \A r \in Refunds : refunds'[r].status \notin Outstanding
    BY <2>2, <2>3 DEF OneOutstanding
  <2>5. QED
    BY <2>4 DEF OneOutstanding, OutstandingPending
<1>7. QED
  BY <1>1, <1>2, <1>3, <1>4, <1>5, <1>6 DEF Kinds

(* Both sums, before and after a step.                                      *)
LEMMA SumsAre ==
    /\ Moved = MovedSum(gw, refunds)
    /\ Moved' = MovedSum(gw', refunds')
    /\ SumActiveRefunds = ActiveSum(refunds)
    /\ SumActiveRefunds' = ActiveSum(refunds')
<1>1. Moved = MovedSum(gw, refunds)
  BY MovedSumIs DEF Moved
<1>2. Moved' = MovedSum(gw', refunds')
  BY Zenon, MovedSumIs DEF Moved, MapThenSumSet, MapThenFoldSet
<1>3. SumActiveRefunds = ActiveSum(refunds)
  BY Zenon, ActiveSumIs DEF SumActiveRefunds
<1>4. SumActiveRefunds' = ActiveSum(refunds')
  BY Zenon, ActiveSumIs DEF SumActiveRefunds, MapThenSumSet, MapThenFoldSet
<1>5. QED
  BY <1>1, <1>2, <1>3, <1>4

(* The bound on what is active: an insertion is checked against it, and no  *)
(* other step adds to it.                                                   *)
LEMMA WithinKept ==
    ASSUME Copies, SumActiveRefunds <= Amount, NEW w \in Workers, Kinds(w)
    PROVE  SumActiveRefunds' <= Amount
<1>0. RType /\ refunds \in [Refunds -> RefundRow] /\ gw \in [Refunds -> GatewayRow] /\ Amount \in Nat
  BY RefundConstants DEF Copies, RType
<1> DEFINE id == proc[w].id
<1>1. SumActiveRefunds = ActiveSum(refunds) /\ SumActiveRefunds' = ActiveSum(refunds')
  BY SumsAre
<1>2. ActiveSum(refunds) \in Nat
  BY <1>0, SumTypes
<1>3. CASE Quiet \/ GatewayTurns \/ HookReports \/ WebhookTurns(w)
  <2>1. refunds' = refunds
    BY <1>3 DEF Quiet, GatewayTurns, HookReports, WebhookTurns
  <2>2. QED
    BY <1>1, <2>1
<1>4. CASE Inserts(w)
  <2>1. /\ Inserted(w) \in RefundRow /\ Inserted(w).status = "REFUND_INITIATED" /\ id \in Refunds
        /\ refunds' = [refunds EXCEPT ![id] = Inserted(w)] /\ refunds[id].status = "none"
    BY <1>4, InsertedRow
  <2>2. Inserted(w).amount = proc[w].rf.amount /\ Inserted(w).amount \in Nat
    BY <2>1 DEF Inserted, RefundRow
  <2>3. New(proc[w].rf.amount, SumActiveRefunds)
    BY <1>4 DEF Inserts
  <2>4. refunds[id].status \notin Active /\ Inserted(w).status \in Active
    BY <2>1 DEF Active, Outstanding
  <2>5. ActiveSum(refunds') = Inserted(w).amount + ActiveSum(refunds)
    <3>1. /\ refunds' \in [Refunds -> RefundRow] /\ refunds'[id] = Inserted(w)
          /\ \A r \in Refunds : r # id => refunds'[r] = refunds[r]
      BY <1>0, <2>1, RowChanges
    <3>2. refunds[id].status \notin Active /\ refunds'[id].status \in Active
      BY <2>4, <3>1
    <3>3. ActiveSum(refunds') = refunds'[id].amount + ActiveSum(refunds)
      BY Zenon, <1>0, <2>1, <3>1, <3>2, ActiveSumSteps
    <3>4. QED
      BY <3>1, <3>3
  <2>6. ActiveSum(refunds) + Inserted(w).amount <= Amount
    BY <1>1, <2>2, <2>3 DEF New
  <2> DEFINE s == ActiveSum(refunds)
             a == Inserted(w).amount
  <2>7. s \in Nat /\ a \in Nat /\ s + a <= Amount /\ SumActiveRefunds' = a + s
    BY <1>1, <1>2, <2>2, <2>5, <2>6
  <2> HIDE DEF s, a
  <2>8. QED
    BY <1>0, <2>7
<1>5. CASE Advances(w)
  <2>1. PICK x \in RefundRow : /\ refunds' = [refunds EXCEPT ![id] = x] /\ x.status \in Outstanding
                               /\ x.amount = refunds[id].amount
    BY Zenon, <1>5 DEF Advances
  <2>2. id \in Refunds /\ refunds[id].status \in Active /\ x.status \in Active
    BY <1>5, <2>1 DEF Advances, Active
  <2>3. ActiveSum(refunds') = ActiveSum(refunds)
    BY Zenon, <1>0, <2>1, <2>2, RowChanges, ActiveSumSteps
  <2>4. QED
    BY <1>1, <2>3
<1>6. CASE Closes(w)
  <2>1. PICK x \in RefundRow : /\ refunds' = [refunds EXCEPT ![id] = x] /\ x.status \in Closed
                               /\ x.amount = refunds[id].amount
    BY Zenon, <1>6 DEF Closes, ClosesAs
  <2>2. id \in Refunds /\ refunds[id].status \in Active /\ refunds[id].amount \in Nat
    BY <1>0, <1>6 DEF Closes, Active, RefundRow
  <2>3. refunds' \in [Refunds -> RefundRow]
    BY Zenon, <1>0, <2>1
  <2>4. ActiveSum(refunds') \in Nat
    BY <1>0, <2>3, SumTypes
  <2>5. CASE x.status \in Active
    <3>1. ActiveSum(refunds') = ActiveSum(refunds)
      BY Zenon, <1>0, <2>1, <2>2, <2>5, RowChanges, ActiveSumSteps
    <3>2. QED
      BY <1>1, <3>1
  <2>6. CASE x.status \notin Active
    <3>1. ActiveSum(refunds) = refunds[id].amount + ActiveSum(refunds')
      <4>1. refunds'[id] = x /\ \A r \in Refunds : r # id => refunds'[r] = refunds[r]
        BY <1>0, <2>1, <2>2, RowChanges
      <4>2. refunds[id].status \in Active /\ refunds'[id].status \notin Active
        BY <2>2, <2>6, <4>1
      <4>3. QED
        BY <1>0, <2>2, <2>3, <4>1, <4>2, ActiveSumSteps
    <3> DEFINE s == ActiveSum(refunds')
               a == refunds[id].amount
    <3>2. s \in Nat /\ a \in Nat /\ SumActiveRefunds' = s /\ a + s <= Amount
      BY <1>1, <2>2, <2>4, <3>1
    <3> HIDE DEF s, a
    <3>3. QED
      BY <1>0, <3>2
  <2>7. QED
    BY <2>5, <2>6
<1>7. QED
  BY <1>3, <1>4, <1>5, <1>6 DEF Kinds

(* Products of naturals grow with a factor.                                 *)
LEMMA TimesGrows ==
    ASSUME NEW t \in Nat, NEW u \in Nat, NEW a \in Nat, t <= u
    PROVE  t * a <= u * a
<1>1. PICK d \in Nat : u = t + d
  <2>1. u - t \in Nat /\ u = t + (u - t)
    OBVIOUS
  <2>2. QED
    BY <2>1
<1>2. u * a = t * a + d * a
  BY <1>1
<1>3. t * a \in Nat /\ d * a \in Nat
  OBVIOUS
<1>4. QED
  BY <1>2, <1>3

(* No money comes back: an amount is fixed before the gateway hears of it.  *)
LEMMA MovedGrows ==
    ASSUME Copies, RType', GatewaySteps, NEW w \in Workers, Kinds(w)
    PROVE  Moved \in Nat /\ Moved' \in Nat /\ Moved <= Moved'
<1>0. /\ RType /\ refunds \in [Refunds -> RefundRow] /\ gw \in [Refunds -> GatewayRow]
      /\ refunds' \in [Refunds -> RefundRow] /\ gw' \in [Refunds -> GatewayRow]
  BY DEF Copies, RType
<1>1. ASSUME NEW r \in Refunds
      PROVE  refunds'[r].amount = refunds[r].amount \/ gw[r].times = 0
  <2>1. CASE Quiet \/ GatewayTurns \/ HookReports \/ WebhookTurns(w)
    BY <2>1 DEF Quiet, GatewayTurns, HookReports, WebhookTurns
  <2>2. CASE Inserts(w)
    <3>1. /\ proc[w].id \in Refunds /\ refunds[proc[w].id].status = "none"
          /\ Inserted(w) \in RefundRow /\ refunds' = [refunds EXCEPT ![proc[w].id] = Inserted(w)]
      BY <2>2, InsertedRow
    <3>2. gw[proc[w].id].times = 0
      <4>1. RefundOK(proc[w].id)
        BY <3>1 DEF Copies
      <4> DEFINE g == gw[proc[w].id]
      <4>2. g = [status |-> "none", times |-> 0]
        BY <3>1, <4>1 DEF RefundOK
      <4> HIDE DEF g
      <4>3. g.times = 0
        BY <4>2
      <4>4. QED
        BY <4>3 DEF g
    <3>3. QED
      BY <1>0, <3>1, <3>2, RowChanges
  <2>3. CASE Advances(w) \/ Closes(w)
    <3>1. PICK x \in RefundRow : /\ refunds' = [refunds EXCEPT ![proc[w].id] = x]
                                 /\ x.amount = refunds[proc[w].id].amount
      BY <2>3 DEF Advances, Closes, ClosesAs
    <3>2. QED
      BY <1>0, <3>1
  <2>4. QED
    BY <2>1, <2>2, <2>3 DEF Kinds
<1>2. ASSUME NEW r \in Refunds
      PROVE  gw[r].times * refunds[r].amount <= gw'[r].times * refunds'[r].amount
  <2> DEFINE t == gw[r].times
             u == gw'[r].times
             a == refunds[r].amount
             b == refunds'[r].amount
  <2>1. t \in Nat /\ u \in Nat /\ a \in Nat /\ b \in Nat
    BY <1>0 DEF RefundRow, GatewayRow
  <2>2. t <= u
    BY <2>1 DEF GatewaySteps
  <2>3. b = a \/ t = 0
    BY <1>1
  <2> HIDE DEF t, u, a, b
  <2>4. t * a <= u * b
    <3>1. CASE b = a
      BY <2>1, <2>2, <3>1, TimesGrows
    <3>2. CASE t = 0
      <4>1. t * a = 0 /\ u * b \in Nat
        BY <2>1, <3>2
      <4>2. QED
        BY <4>1
    <3>3. QED
      BY <2>3, <3>1, <3>2
  <2>5. QED
    BY <2>4 DEF t, u, a, b
<1>3. /\ \A r \in Refunds : Shares(gw, refunds)[r] = gw[r].times * refunds[r].amount /\ Shares(gw, refunds)[r] \in Nat
      /\ MovedSum(gw, refunds) \in Nat /\ IsFiniteSet(Refunds)
  BY <1>0, SumTypes
<1>4. /\ \A r \in Refunds : /\ Shares(gw', refunds')[r] = gw'[r].times * refunds'[r].amount
                            /\ Shares(gw', refunds')[r] \in Nat
      /\ MovedSum(gw', refunds') \in Nat
  BY <1>0, SumTypes
<1>5. \A r \in Refunds : Shares(gw, refunds)[r] <= Shares(gw', refunds')[r]
  BY <1>2, <1>3, <1>4
<1>6. MovedSum(gw, refunds) <= MovedSum(gw', refunds')
  <2>1. Refunds \subseteq Refunds
    OBVIOUS
  <2>2. SumOver(Shares(gw, refunds), Refunds) <= SumOver(Shares(gw', refunds'), Refunds)
    BY <1>3, <1>4, <1>5, <2>1, SumMonotone
  <2>3. QED
    BY <2>2 DEF MovedSum
<1>7. QED
  BY <1>3, <1>4, <1>6, SumsAre

(* When no refund is outstanding, what is active has been moved.            *)
LEMMA ActiveMoved ==
    ASSUME NEW rs \in [Refunds -> RefundRow], NEW g \in [Refunds -> GatewayRow],
           \A r \in Refunds : rs[r].status \notin Outstanding,
           \A r \in Refunds : rs[r].status = "REFUNDED" => g[r].times > 0
    PROVE  ActiveSum(rs) <= MovedSum(g, rs)
<1>1. /\ \A r \in Refunds : Amounts(rs)[r] = rs[r].amount /\ rs[r].amount \in Nat
      /\ \A r \in Refunds : Shares(g, rs)[r] = g[r].times * rs[r].amount /\ Shares(g, rs)[r] \in Nat
      /\ ActiveIn(rs) \subseteq Refunds /\ IsFiniteSet(Refunds)
  BY SumTypes
<1>2. \A r \in ActiveIn(rs) : r \in Refunds /\ g[r].times > 0
  BY DEF ActiveIn, Active
<1>3. ASSUME NEW r \in ActiveIn(rs)
      PROVE  Amounts(rs)[r] \in Nat /\ Amounts(rs)[r] <= Shares(g, rs)[r]
  <2> DEFINE t == g[r].times
             a == rs[r].amount
  <2>1. t \in Nat /\ a \in Nat /\ 1 <= t
    <3>1. r \in Refunds /\ t > 0
      BY <1>2
    <3>2. g[r] \in GatewayRow /\ a \in Nat
      BY <1>1, <3>1
    <3>3. t \in Nat
      BY <3>2 DEF GatewayRow
    <3> HIDE DEF t
    <3>4. QED
      BY <3>1, <3>2, <3>3
  <2> HIDE DEF t, a
  <2>2. 1 * a <= t * a /\ 1 * a = a
    BY <2>1, TimesGrows
  <2>3. Amounts(rs)[r] = a /\ Shares(g, rs)[r] = t * a
    BY <1>1, <1>2 DEF t, a
  <2>4. QED
    BY <2>1, <2>2, <2>3
<1>4. SumOver(Amounts(rs), ActiveIn(rs)) <= SumOver(Shares(g, rs), Refunds)
  BY <1>1, <1>3, SumMonotone
<1>5. QED
  BY <1>4 DEF ActiveSum, MovedSum

(* A webhook is sent when all the money has been moved.                     *)
HookBacked == hook \in {"sent", "recorded"} => Moved >= Amount

RefundedBacked == parent.status = "REFUNDED" => Moved >= Amount

(* The parent becomes REFUNDED only when all the money has been moved.      *)
LEMMA BackedKept ==
    ASSUME Copies, RType', GatewaySteps, OneOutstanding, \A r \in Refunds : RefundOK(r)',
           HookBacked, NEW w \in Workers, Kinds(w)
    PROVE  /\ HookBacked'
           /\ parent'.status = "REFUNDED" => parent.status = "REFUNDED" \/ Moved' >= Amount
           /\ Moved' >= Moved
<1>0. /\ RType /\ WorkOK(w) /\ Amount \in Nat
      /\ refunds \in [Refunds -> RefundRow] /\ gw \in [Refunds -> GatewayRow]
      /\ refunds' \in [Refunds -> RefundRow] /\ gw' \in [Refunds -> GatewayRow]
  BY RefundConstants DEF Copies, RType
<1>1. Moved \in Nat /\ Moved' \in Nat /\ Moved <= Moved'
  BY MovedGrows
<1>2. hook \in {"sent", "recorded"} => Moved' >= Amount
  BY <1>0, <1>1 DEF HookBacked
<1>3. HookBacked'
  <2>1. CASE hook' = hook
    BY <1>2, <2>1 DEF HookBacked
  <2>2. CASE HookReports
    BY <1>0, <1>1, <2>2 DEF HookReports, HookBacked
  <2>3. CASE WebhookTurns(w)
    <3>1. hook \in {"sent", "recorded"}
      BY <1>0, <2>3 DEF WebhookTurns, WorkOK
    <3>2. QED
      BY <1>2, <3>1 DEF HookBacked
  <2>4. hook' = hook \/ HookReports \/ WebhookTurns(w)
    BY DEF Kinds, Inserts, Advances, Closes, GatewayTurns, Quiet
  <2>5. QED
    BY <2>1, <2>2, <2>3, <2>4
<1>4. ASSUME parent'.status = "REFUNDED", parent.status # "REFUNDED"
      PROVE  Moved' >= Amount
  <2>1. CASE parent' = parent
    BY <1>4, <2>1
  <2>2. CASE Inserts(w)
    BY <1>4, <2>2 DEF Inserts, UpdateParent
  <2>3. CASE WebhookTurns(w)
    <3>1. hook \in {"sent", "recorded"}
      BY <1>0, <2>3 DEF WebhookTurns, WorkOK
    <3>2. QED
      BY <1>2, <3>1
  <2>4. CASE Closes(w)
    <3> DEFINE id == proc[w].id
    <3>1. PICK x \in RefundRow : ClosesAs(w, x)
      BY <2>4 DEF Closes
    <3>2. /\ id \in Refunds /\ refunds[id].status \in Outstanding /\ gw' = gw
          /\ refunds' = [refunds EXCEPT ![id] = x] /\ x.status \in Closed
          /\ x.amount = refunds[id].amount
      BY Zenon, <2>4, <3>1 DEF Closes, ClosesAs
    <3>3. transitionParentOnRefundResult(id, x.status, parent.status) = "REFUNDED"
      BY <1>4, <3>1 DEF ClosesAs
    <3>4. x.status = "REFUNDED" /\ SumActiveRefunds >= Amount
      BY <1>0, <1>4, <3>3, SumsAre, SumTypes DEF transitionParentOnRefundResult
    <3>5. refunds'[id] = x /\ \A r \in Refunds : r # id => refunds'[r] = refunds[r]
      BY <1>0, <3>2, RowChanges
    <3>6. /\ refunds[id].status \in Active /\ refunds'[id].status \in Active
          /\ refunds'[id].amount = refunds[id].amount
      BY <3>2, <3>4, <3>5 DEF Active
    <3>7. ActiveSum(refunds') = ActiveSum(refunds)
      BY Zenon, <1>0, <3>2, <3>5, <3>6, ActiveSumSteps
    <3>8. \A r \in Refunds : refunds'[r].status \notin Outstanding
      BY <3>2, <3>4, <3>5 DEF OneOutstanding, Outstanding
    <3>9. \A r \in Refunds : refunds'[r].status = "REFUNDED" => gw'[r].times > 0
      BY DEF RefundOK
    <3>10. ActiveSum(refunds') <= MovedSum(gw', refunds')
      BY <1>0, <3>8, <3>9, ActiveMoved
    <3>11. ActiveSum(refunds) \in Nat
      BY <1>0, SumTypes
    <3>12. QED
      BY <1>0, <1>1, <3>4, <3>7, <3>10, <3>11, SumsAre
  <2>5. parent' = parent \/ Inserts(w) \/ WebhookTurns(w) \/ Closes(w)
    BY DEF Kinds, Advances, GatewayTurns, HookReports, Quiet
  <2>6. QED
    BY <2>1, <2>2, <2>3, <2>4, <2>5
<1>5. QED
  BY <1>1, <1>3, <1>4

-----------------------------------------------------------------------------
(* The inductive invariant and the theorems. *)

RInv ==
    /\ Copies
    /\ OneOutstanding
    /\ OutstandingPending
    /\ SumActiveRefunds <= Amount
    /\ AnnouncedWithResult
    /\ HookBacked
    /\ RefundedBacked

(* Every step keeps the copies in agreement.                                *)
LEMMA CopiesKept ==
    ASSUME Copies, [RNext]_rvars
    PROVE  Copies' /\ GatewaySteps /\ ParentSteps
<1>1. PICK w \in Workers : Moves(w)
  BY NextMoves
<1>2. RType /\ (\A v \in Workers : WorkOK(v))
  BY DEF Copies
<1>3. /\ RType' /\ ParentSteps /\ RefundSteps(w) /\ GatewaySteps /\ HookSteps /\ WorkerMoves(w)
      /\ WorkOK(w)'
      /\ cache' # NoRow => AgreesWith(cache', parent')
  BY <1>1 DEF Moves
<1>4. ASSUME NEW v \in Workers
      PROVE  WorkOK(v)'
  BY <1>2, <1>3, OthersKeep
<1>5. PICK u \in Workers : Kinds(u)
  BY StepKinds
<1>6. ASSUME NEW r \in Refunds
      PROVE  RefundOK(r)'
  BY <1>5, RefundOKKept
<1>7. QED
  BY <1>3, <1>4, <1>6 DEF Copies

(* The invariant holds at first.                                             *)
LEMMA InitRInv ==
    ASSUME RInit
    PROVE  RInv
<1>1. RType
  <2>1. parent \in Transaction
    <3>1. PICK s \in Starts : parent = [status |-> s, version |-> 1]
      BY DEF RInit
    <3>2. s \in Status
      BY RefundConstants DEF Status
    <3>3. QED
      BY <3>1, <3>2 DEF Transaction
  <2>2. refunds \in [Refunds -> RefundRow] /\ proc \in [Workers -> Work]
    BY IdleTypes DEF RInit
  <2>3. gw \in [Refunds -> GatewayRow]
    BY DEF RInit, GatewayRow
  <2>4. evt \in [Refunds -> [status : {"none", "pending", "published", "dead"}, failures : Nat]]
    BY DEF RInit
  <2>5. QED
    BY <2>1, <2>2, <2>3, <2>4 DEF RInit, RType
<1>2. \A r \in Refunds : refunds[r] = NoRefund /\ gw[r] = [status |-> "none", times |-> 0]
  BY DEF RInit
<1>3. NoRefund.status = "none" /\ NoRefund.version = 0 /\ NoRefund.amount = 0
  BY DEF NoRefund
<1>4. \A r \in Refunds : RefundOK(r)
  BY <1>2, <1>3 DEF RefundOK
<1>5. \A w \in Workers : WorkOK(w)
  BY IdleTypes DEF RInit, WorkOK, Drivers, Carrying
<1>6. Copies
  BY <1>1, <1>4, <1>5 DEF Copies, RInit
<1>7. \A r \in Refunds : refunds[r].status \notin Outstanding \cup Closed
  BY <1>2, <1>3 DEF Outstanding, Closed
<1>8. OneOutstanding /\ OutstandingPending
  BY <1>7 DEF OneOutstanding, OutstandingPending
<1>9. SumActiveRefunds <= Amount
  <2>1. ActiveIn(refunds) = {}
    BY <1>2, <1>3 DEF ActiveIn, Active, Outstanding
  <2>2. IsFiniteSet({})
    BY FS_EmptySet
  <2>3. SumOver(Amounts(refunds), {}) = 0
    BY <2>2, SumStep
  <2>4. SumActiveRefunds = 0
    BY <2>1, <2>3, SumsAre DEF ActiveSum
  <2>5. QED
    BY <2>4, RefundConstants
<1>10. AnnouncedWithResult
  BY <1>7 DEF RInit, AnnouncedWithResult, Closed
<1>11. HookBacked /\ RefundedBacked
  BY RefundConstants DEF RInit, HookBacked, RefundedBacked
<1>12. QED
  BY <1>6, <1>8, <1>9, <1>10, <1>11 DEF RInv

(* Every step keeps it.                                                      *)
LEMMA NextRInv ==
    ASSUME RInv, [RNext]_rvars
    PROVE  RInv'
<1>0. /\ Copies /\ OneOutstanding /\ OutstandingPending /\ SumActiveRefunds <= Amount
      /\ AnnouncedWithResult /\ HookBacked /\ RefundedBacked
  BY DEF RInv
<1>1. Copies' /\ GatewaySteps
  BY <1>0, CopiesKept
<1>2. RType' /\ \A r \in Refunds : RefundOK(r)'
  BY <1>1 DEF Copies
<1>3. PICK w \in Workers : Kinds(w)
  BY <1>0, StepKinds
<1>4. OneOutstanding' /\ OutstandingPending'
  BY <1>0, <1>3, OutstandingKept
<1>5. SumActiveRefunds' <= Amount
  BY <1>0, <1>3, WithinKept
<1>6. AnnouncedWithResult'
  BY <1>0, <1>3, AnnouncedKept
<1>7. /\ HookBacked'
      /\ parent'.status = "REFUNDED" => parent.status = "REFUNDED" \/ Moved' >= Amount
      /\ Moved' >= Moved
  BY <1>0, <1>1, <1>2, <1>3, BackedKept
<1>8. RefundedBacked'
  <2>1. Moved \in Nat /\ Moved' \in Nat /\ Amount \in Nat
    BY <1>0, <1>1, <1>2, <1>3, MovedGrows, RefundConstants
  <2>2. QED
    BY <1>0, <1>7, <2>1 DEF RefundedBacked
<1>9. QED
  BY <1>1, <1>4, <1>5, <1>6, <1>7, <1>8 DEF RInv

(* The invariant holds in every behaviour of the refund flow.               *)
THEOREM RefundInvariant == RSpec => []RInv
<1>1. RInit => RInv
  BY InitRInv
<1>2. RInv /\ [RNext]_rvars => RInv'
  BY NextRInv
<1>3. QED
  BY <1>1, <1>2, PTL DEF RSpec

(* The refunds that are not failed never add up to more than the payment,   *)
(* and one at a time is outstanding: the sum that InitiateRefund takes and  *)
(* the version check of the parent suffice, for any number of requests.     *)
THEOREM RefundsStayWithin == RSpec => []RefundsWithinAmount
<1>1. RInv => RefundsWithinAmount
  BY DEF RInv, RefundsWithinAmount, OneOutstanding
<1>2. QED
  BY <1>1, RefundInvariant, PTL

(* One result is announced for each closed refund, the one recorded.        *)
THEOREM ResultsAnnouncedOnce == RSpec => []AnnouncedWithResult
<1>1. RInv => AnnouncedWithResult
  BY DEF RInv
<1>2. QED
  BY <1>1, RefundInvariant, PTL

(* The parent stays REFUND_PENDING while a refund is outstanding, unless    *)
(* the gateway's webhook closed it, and is REFUNDED only when the gateway   *)
(* has moved the whole amount.                                              *)
THEOREM ParentAgrees == RSpec => []ParentFollowsRefunds
<1>1. RInv => ParentFollowsRefunds
  BY DEF RInv, ParentFollowsRefunds, OutstandingPending, RefundedBacked
<1>2. QED
  BY <1>1, RefundInvariant, PTL

(* At a gateway that looks a repeated refund id up, a refund is recorded    *)
(* REFUNDED only if its money was moved, and REFUND_FAILED only if not.     *)
THEOREM RefundRecordsTrue ==
    ASSUME KeyedRefunds
    PROVE  RSpec => []RefundTruth
<1>1. RInv => RefundTruth
  <2>1. SUFFICES ASSUME RInv, NEW r \in Refunds
                 PROVE  /\ refunds[r].status = "REFUNDED" => gw[r].times > 0
                        /\ refunds[r].status = "REFUND_FAILED" => gw[r].times = 0
    BY DEF RefundTruth
  <2>2. RefundOK(r)
    BY <2>1 DEF RInv, Copies
  <2>3. QED
    BY <2>2 DEF RefundOK
<1>2. QED
  BY <1>1, RefundInvariant, PTL
=============================================================================
