----------------------------- MODULE SumTheorems -----------------------------
(***************************************************************************)
(* Laws of SumFunction and SumFunctionOnSet (community module Functions),  *)
(* for every function from a finite set to the integers: the sum of the    *)
(* sizes of a queue's parts and that of the numbers of a datastore's       *)
(* backup groups are such sums.                                            *)
(*                                                                         *)
(* A sum is defined by recursion over the subsets of its domain, so every  *)
(* law is proved by looking at a smallest subset for which it fails.       *)
(* Laws of folds over sequences, which cut batches up and follow aliases,  *)
(* come last; they are proved by looking at a least index.                 *)
(***************************************************************************)
EXTENDS Functions, FiniteSetTheorems, TLAPS
-----------------------------------------------------------------------------
(* Smallest elements *)

(* A non-empty set of numbers has a least one. *)
LEMMA LeastNat ==
  ASSUME NEW T \in SUBSET Nat, T # {}
  PROVE  \E x \in T : \A y \in T : x <= y
<1> DEFINE R == OpToRel(<, Nat)
<1>1. IsWellFoundedOn(R, Nat)
  BY NatLessThanWellFounded
<1>2. \A x, y \in Nat : x < y => <<x, y>> \in R
  BY DEF OpToRel
<1> HIDE DEF R
<1>3. PICK x \in T : \A y \in T : <<y, x>> \notin R
  BY <1>1, WFMin
<1>4. \A y \in T : ~(y < x)
  BY <1>2, <1>3
<1>5. \A y \in T : x <= y
  BY <1>4, SMT
<1> QED BY <1>5

(* A non-empty set of subsets of a finite set has a smallest one. *)
LEMMA SmallestSubset ==
  ASSUME NEW S, IsFiniteSet(S), NEW F \in SUBSET (SUBSET S), F # {}
  PROVE  \E s \in F : \A t \in F : t \subseteq s => t = s
<1>1. FiniteSubsetsOf(S) = SUBSET S
  BY FS_FiniteSubsetsOfFinite
<1>2. IsWellFoundedOn(StrictSubsetOrdering(S), SUBSET S)
  BY <1>1, FS_StrictSubsetOrderingWellFounded
<1>3. PICK s \in F : \A t \in F : <<t, s>> \notin StrictSubsetOrdering(S)
  BY <1>2, WFMin
<1> QED BY <1>3 DEF StrictSubsetOrdering
-----------------------------------------------------------------------------
(* Folds in general *)

(* pick has a member of each subset of D but the empty one. *)
Picks(pick, D) == \A s \in SUBSET D : s # {} => pick[s] \in s

(* g folds step over the subsets of D, starting with base, and takes what  *)
(* pick picks last.                                                        *)
FoldsUp(g, base, step, pick, D) ==
  \A s \in SUBSET D :
    g[s] = IF s = {} THEN base ELSE step[pick[s]][g[s \ {pick[s]}]]

(* Two such functions agree where both are defined. *)
LEMMA FoldsAgree ==
  ASSUME NEW D, IsFiniteSet(D), NEW E \in SUBSET D, NEW base, NEW step, NEW pick,
         Picks(pick, E), NEW g, NEW h, FoldsUp(g, base, step, pick, D), FoldsUp(h, base, step, pick, E)
  PROVE  \A s \in SUBSET E : g[s] = h[s]
<1> DEFINE Bad == {s \in SUBSET E : g[s] # h[s]}
<1>1. SUFFICES ASSUME Bad # {} PROVE FALSE
  OBVIOUS
<1>2. IsFiniteSet(E)
  BY FS_Subset
<1>3. PICK s \in Bad : \A t \in Bad : t \subseteq s => t = s
  <2>1. Bad \in SUBSET (SUBSET E)
    OBVIOUS
  <2> HIDE DEF Bad
  <2> QED BY <1>1, <1>2, <2>1, SmallestSubset
<1>4. s # {}
  BY <1>3 DEF FoldsUp
<1>5. pick[s] \in s
  BY <1>3, <1>4 DEF Picks
<1>6. g[s \ {pick[s]}] = h[s \ {pick[s]}]
  BY <1>3, <1>5
<1>7. /\ g[s] = step[pick[s]][g[s \ {pick[s]}]]
      /\ h[s] = step[pick[s]][h[s \ {pick[s]}]]
  BY <1>3, <1>4 DEF FoldsUp
<1> QED BY <1>3, <1>6, <1>7

(* There is such a function. *)
LEMMA FoldsExist ==
  ASSUME NEW D, IsFiniteSet(D), NEW V, NEW base \in V, NEW step \in [D -> [V -> V]],
         NEW pick, Picks(pick, D)
  PROVE  \E g \in [SUBSET D -> V] : FoldsUp(g, base, step, pick, D)
<1> DEFINE Good(E) == \E g \in [SUBSET E -> V] : FoldsUp(g, base, step, pick, E)
           Bad == {E \in SUBSET D : ~Good(E)}
<1>1. SUFFICES ASSUME Bad # {} PROVE FALSE
  OBVIOUS
<1>2. PICK E \in Bad : \A t \in Bad : t \subseteq E => t = E
  <2>1. Bad \in SUBSET (SUBSET D)
    OBVIOUS
  <2> HIDE DEF Bad
  <2> QED BY <1>1, <2>1, SmallestSubset
<1>3. \A t \in SUBSET E : t # E => Good(t)
  BY <1>2
<1> DEFINE h(t) == CHOOSE g : g \in [SUBSET t -> V] /\ FoldsUp(g, base, step, pick, t)
<1>4. \A t \in SUBSET E : t # E => h(t) \in [SUBSET t -> V] /\ FoldsUp(h(t), base, step, pick, t)
  BY <1>3
<1> HIDE DEF h
<1> DEFINE g == [s \in SUBSET E |-> IF s = {} THEN base
                                    ELSE step[pick[s]][h(s \ {pick[s]})[s \ {pick[s]}]]]
<1>5. ASSUME NEW s \in SUBSET E, s # {}
      PROVE  /\ pick[s] \in D /\ s \ {pick[s]} \in SUBSET E
             /\ s \ {pick[s]} # E /\ s \ {pick[s]} # s
  BY <1>2, <1>5 DEF Picks
<1>6. g \in [SUBSET E -> V]
  <2>1. ASSUME NEW s \in SUBSET E, s # {}
        PROVE  step[pick[s]][h(s \ {pick[s]})[s \ {pick[s]}]] \in V
    <3>1. ASSUME NEW t \in SUBSET E, t # E
          PROVE  h(t)[t] \in V
      <4>1. h(t) \in [SUBSET t -> V]
        BY <1>4, <3>1
      <4> QED BY <4>1
    <3>2. s \ {pick[s]} \in SUBSET E /\ s \ {pick[s]} # E
      BY <1>5, <2>1
    <3>3. step[pick[s]] \in [V -> V]
      BY <1>5, <2>1
    <3> QED BY <3>1, <3>2, <3>3
  <2> QED BY <2>1
<1>7. FoldsUp(g, base, step, pick, E)
  <2>1. ASSUME NEW t \in SUBSET E, t # E
        PROVE  g[t] = h(t)[t]
    <3>1. CASE t = {}
      BY <1>4, <2>1, <3>1 DEF FoldsUp
    <3>2. CASE t # {}
      <4> DEFINE u == t \ {pick[t]}
      <4>1. u \in SUBSET t /\ u \in SUBSET E /\ u # E
        BY <1>5, <3>2
      <4>2. h(t)[t] = step[pick[t]][h(t)[u]]
        BY <1>4, <2>1, <3>2 DEF FoldsUp
      <4>3. h(t)[u] = h(u)[u]
        <5>1. FoldsUp(h(t), base, step, pick, t) /\ FoldsUp(h(u), base, step, pick, u)
          BY <1>4, <2>1, <4>1
        <5>2. IsFiniteSet(t)
          BY <1>2, FS_Subset
        <5>3. Picks(pick, u)
          BY <1>2, <4>1 DEF Picks
        <5> HIDE DEF u
        <5>4. \A s \in SUBSET u : h(t)[s] = h(u)[s]
          BY <4>1, <5>1, <5>2, <5>3, FoldsAgree
        <5> QED BY <5>4
      <4>4. g[t] = step[pick[t]][h(u)[u]]
        BY <3>2
      <4> QED BY <4>2, <4>3, <4>4
    <3> QED BY <3>1, <3>2
  <2>2. ASSUME NEW s \in SUBSET E, s # {}
        PROVE  g[s] = step[pick[s]][g[s \ {pick[s]}]]
    <3>1. g[s \ {pick[s]}] = h(s \ {pick[s]})[s \ {pick[s]}]
      BY <1>5, <2>1, <2>2
    <3>2. g[s] = step[pick[s]][h(s \ {pick[s]})[s \ {pick[s]}]]
      BY <2>2
    <3> QED BY <3>1, <3>2
  <2>3. g[{}] = base
    OBVIOUS
  <2> HIDE DEF g
  <2> QED BY <2>2, <2>3 DEF FoldsUp
<1>8. Good(E)
  BY <1>6, <1>7
<1> QED BY <1>2, <1>8
-----------------------------------------------------------------------------
(* The function a sum recurs over *)

Pick(s) == CHOOSE x \in s : TRUE

(* g adds up f over the subsets of D, as MapThenFoldSet does. *)
AddsUp(g, f, D) ==
  \A s \in SUBSET D : g[s] = IF s = {} THEN 0 ELSE f[Pick(s)] + g[s \ {Pick(s)}]

LEMMA PickIn == \A s : s # {} => Pick(s) \in s
  BY DEF Pick

(* Two such functions agree where both are defined. *)
LEMMA SumsAgree ==
  ASSUME NEW D, IsFiniteSet(D), NEW E \in SUBSET D, NEW f, NEW g, NEW h,
         AddsUp(g, f, D), AddsUp(h, f, E)
  PROVE  \A s \in SUBSET E : g[s] = h[s]
<1> DEFINE Bad == {s \in SUBSET E : g[s] # h[s]}
<1>1. SUFFICES ASSUME Bad # {} PROVE FALSE
  OBVIOUS
<1>2. IsFiniteSet(E)
  BY FS_Subset
<1>3. PICK s \in Bad : \A t \in Bad : t \subseteq s => t = s
  <2>1. Bad \in SUBSET (SUBSET E)
    OBVIOUS
  <2> HIDE DEF Bad
  <2> QED BY <1>1, <1>2, <2>1, SmallestSubset
<1>4. s # {}
  BY <1>3 DEF AddsUp
<1>5. Pick(s) \in s
  BY <1>4, PickIn
<1>6. g[s \ {Pick(s)}] = h[s \ {Pick(s)}]
  BY <1>3, <1>5
<1>7. /\ g[s] = f[Pick(s)] + g[s \ {Pick(s)}]
      /\ h[s] = f[Pick(s)] + h[s \ {Pick(s)}]
  BY <1>3, <1>4 DEF AddsUp
<1> QED BY <1>3, <1>6, <1>7

(* There is such a function. *)
LEMMA SumsExist ==
  ASSUME NEW D, IsFiniteSet(D), NEW f \in [D -> Int]
  PROVE  \E g \in [SUBSET D -> Int] : AddsUp(g, f, D)
<1> DEFINE step == [x \in D |-> [v \in Int |-> f[x] + v]]
           pick == [s \in SUBSET D |-> Pick(s)]
<1>1. step \in [D -> [Int -> Int]]
  OBVIOUS
<1>2. Picks(pick, D)
  BY PickIn DEF Picks
<1>3. PICK g \in [SUBSET D -> Int] : FoldsUp(g, 0, step, pick, D)
  <2> DEFINE V == Int
  <2>1. 0 \in V /\ step \in [D -> [V -> V]]
    BY <1>1
  <2> HIDE DEF V, step, pick
  <2>2. \E g \in [SUBSET D -> V] : FoldsUp(g, 0, step, pick, D)
    BY <1>2, <2>1, FoldsExist
  <2> QED BY <2>2 DEF V
<1>4. ASSUME NEW s \in SUBSET D, s # {}
      PROVE  g[s] = f[Pick(s)] + g[s \ {Pick(s)}]
  <2>1. Pick(s) \in D /\ g[s \ {Pick(s)}] \in Int
    BY <1>3, <1>4, PickIn
  <2>2. pick[s] = Pick(s)
    OBVIOUS
  <2>3. step[Pick(s)][g[s \ {Pick(s)}]] = f[Pick(s)] + g[s \ {Pick(s)}]
    BY <2>1
  <2> HIDE DEF step, pick
  <2> QED BY <1>3, <1>4, <2>2, <2>3 DEF FoldsUp
<1>5. g[{}] = 0
  BY <1>3 DEF FoldsUp
<1> QED BY <1>4, <1>5 DEF AddsUp

(* The sum over a set is the value of such a function. *)
LEMMA SumAddsUp ==
  ASSUME NEW D, IsFiniteSet(D), NEW f \in [D -> Int], NEW S \in SUBSET D,
         NEW g, AddsUp(g, f, D)
  PROVE  SumFunctionOnSet(f, S) = g[S]
<1> DEFINE Unfold(i) == [s \in SUBSET S |-> IF s = {} THEN 0
                                            ELSE f[Pick(s)] + i[s \ {Pick(s)}]]
           iter == CHOOSE i : i = Unfold(i)
<1>1. SumFunctionOnSet(f, S) = iter[S]
  BY DEF SumFunctionOnSet, FoldFunctionOnSet, MapThenFoldSet, Pick
<1>2. \E i : i = Unfold(i)
  <2> DEFINE i == [s \in SUBSET S |-> g[s]]
  <2>1. ASSUME NEW s \in SUBSET S, s # {}
        PROVE  i[s] = f[Pick(s)] + i[s \ {Pick(s)}]
    BY <2>1 DEF AddsUp
  <2>2. i[{}] = 0
    BY DEF AddsUp
  <2>3. i = Unfold(i)
    BY <2>1, <2>2
  <2> QED BY <2>3
<1>3. iter = Unfold(iter)
  <2> HIDE DEF Unfold
  <2> QED BY <1>2
<1>4. AddsUp(iter, f, S)
  <2> HIDE DEF iter
  <2>1. ASSUME NEW s \in SUBSET S
        PROVE  iter[s] = IF s = {} THEN 0 ELSE f[Pick(s)] + iter[s \ {Pick(s)}]
    BY <1>3
  <2> QED BY <2>1 DEF AddsUp
<1> HIDE DEF iter
<1> QED BY <1>1, <1>4, SumsAgree
-----------------------------------------------------------------------------
(* The laws *)

(* The sum over no index is zero. *)
LEMMA SumNothing ==
  ASSUME NEW D, IsFiniteSet(D), NEW f \in [D -> Int]
  PROVE  SumFunctionOnSet(f, {}) = 0
<1>1. PICK g \in [SUBSET D -> Int] : AddsUp(g, f, D)
  BY SumsExist
<1>2. SumFunctionOnSet(f, {}) = g[{}]
  BY <1>1, SumAddsUp
<1> QED BY <1>1, <1>2 DEF AddsUp

(* A sum is an integer. *)
LEMMA SumIsInt ==
  ASSUME NEW D, IsFiniteSet(D), NEW f \in [D -> Int], NEW S \in SUBSET D
  PROVE  SumFunctionOnSet(f, S) \in Int
<1>1. PICK g \in [SUBSET D -> Int] : AddsUp(g, f, D)
  BY SumsExist
<1>2. SumFunctionOnSet(f, S) = g[S]
  BY <1>1, SumAddsUp
<1> QED BY <1>1, <1>2

(* Any index can be added last. *)
LEMMA SumAddOne ==
  ASSUME NEW D, IsFiniteSet(D), NEW f \in [D -> Int], NEW S \in SUBSET D, NEW x \in S
  PROVE  SumFunctionOnSet(f, S) = f[x] + SumFunctionOnSet(f, S \ {x})
<1>1. PICK g \in [SUBSET D -> Int] : AddsUp(g, f, D)
  BY SumsExist
<1> DEFINE Law(s) == \A y \in s : g[s] = f[y] + g[s \ {y}]
           Bad == {s \in SUBSET D : ~Law(s)}
<1>2. Bad = {}
  <2>1. SUFFICES ASSUME Bad # {} PROVE FALSE
    OBVIOUS
  <2>2. PICK s \in Bad : \A t \in Bad : t \subseteq s => t = s
    <3>1. Bad \in SUBSET (SUBSET D)
      OBVIOUS
    <3> HIDE DEF Bad
    <3> QED BY <2>1, <3>1, SmallestSubset
  <2>3. PICK y \in s : g[s] # f[y] + g[s \ {y}]
    BY <2>2
  <2> DEFINE c == Pick(s)
             u == (s \ {c}) \ {y}
  <2>4. c \in s /\ c \in D /\ y \in D /\ s \in SUBSET D
    BY <2>2, <2>3, PickIn
  <2>5. g[s] = f[c] + g[s \ {c}]
    BY <2>3, <2>4, <1>1 DEF AddsUp
  <2>6. c # y
    BY <2>3, <2>5
  <2> HIDE DEF c
  <2>7. \A t \in SUBSET s : t # s => Law(t)
    BY <2>2, <2>4
  <2>8. g[s \ {c}] = f[y] + g[u]
    BY <2>3, <2>4, <2>6, <2>7
  <2>9. g[s \ {y}] = f[c] + g[u]
    <3>1. (s \ {y}) \ {c} = u
      OBVIOUS
    <3>2. c \in s \ {y} /\ s \ {y} \in SUBSET s /\ s \ {y} # s
      BY <2>3, <2>4, <2>6
    <3> QED BY <2>7, <3>1, <3>2
  <2>10. g[u] \in Int /\ f[c] \in Int /\ f[y] \in Int
    BY <1>1, <2>4
  <2> QED BY <2>3, <2>5, <2>8, <2>9, <2>10
<1>3. g[S] = f[x] + g[S \ {x}]
  BY <1>2
<1>4. SumFunctionOnSet(f, S) = g[S] /\ SumFunctionOnSet(f, S \ {x}) = g[S \ {x}]
  BY <1>1, SumAddsUp
<1> QED BY <1>3, <1>4

(* A sum depends only on what is summed. *)
LEMMA SumDependsOn ==
  ASSUME NEW D, IsFiniteSet(D), NEW e \in [D -> Int], NEW f \in [D -> Int], NEW S \in SUBSET D,
         \A x \in S : e[x] = f[x]
  PROVE  SumFunctionOnSet(e, S) = SumFunctionOnSet(f, S)
<1>1. PICK g \in [SUBSET D -> Int] : AddsUp(g, e, D)
  BY SumsExist
<1>2. PICK h \in [SUBSET D -> Int] : AddsUp(h, f, D)
  BY SumsExist
<1>3. AddsUp(h, e, S)
  <2>1. \A s \in SUBSET S : s # {} => Pick(s) \in S
    BY PickIn
  <2> QED BY <1>2, <2>1 DEF AddsUp
<1>4. g[S] = h[S]
  BY <1>1, <1>3, SumsAgree
<1> QED BY <1>1, <1>2, <1>4, SumAddsUp

(* An assignment changes a sum by the difference. *)
LEMMA SumExcept ==
  ASSUME NEW D, IsFiniteSet(D), NEW f \in [D -> Int], NEW x \in D, NEW v \in Int
  PROVE  SumFunctionOnSet([f EXCEPT ![x] = v], D) = SumFunctionOnSet(f, D) - f[x] + v
<1> DEFINE e == [f EXCEPT ![x] = v]
<1>1. e \in [D -> Int] /\ e[x] = v /\ \A y \in D \ {x} : e[y] = f[y]
  OBVIOUS
<1> HIDE DEF e
<1>2. SumFunctionOnSet(e, D) = v + SumFunctionOnSet(e, D \ {x})
  BY <1>1, SumAddOne
<1>3. SumFunctionOnSet(f, D) = f[x] + SumFunctionOnSet(f, D \ {x})
  BY SumAddOne
<1>4. SumFunctionOnSet(e, D \ {x}) = SumFunctionOnSet(f, D \ {x})
  BY <1>1, SumDependsOn
<1>5. SumFunctionOnSet(f, D \ {x}) \in Int
  BY SumIsInt
<1> QED BY <1>2, <1>3, <1>4, <1>5 DEF e

(* Zeros sum to zero. *)
LEMMA SumOfZeros ==
  ASSUME NEW D, IsFiniteSet(D), NEW f \in [D -> Int], \A x \in D : f[x] = 0
  PROVE  SumFunctionOnSet(f, D) = 0
<1> DEFINE Bad == {s \in SUBSET D : SumFunctionOnSet(f, s) # 0}
<1>1. SUFFICES ASSUME Bad # {} PROVE FALSE
  OBVIOUS
<1>2. PICK s \in Bad : \A t \in Bad : t \subseteq s => t = s
  <2>1. Bad \in SUBSET (SUBSET D)
    OBVIOUS
  <2> HIDE DEF Bad
  <2> QED BY <1>1, <2>1, SmallestSubset
<1>3. PICK x \in s : TRUE
  BY <1>2, SumNothing
<1>4. SumFunctionOnSet(f, s) = f[x] + SumFunctionOnSet(f, s \ {x})
  BY <1>2, <1>3, SumAddOne
<1>5. s \ {x} \in SUBSET D /\ s \ {x} \subseteq s /\ s \ {x} # s
  BY <1>2, <1>3
<1>6. SumFunctionOnSet(f, s \ {x}) = 0
  BY <1>2, <1>5
<1> QED BY <1>2, <1>3, <1>4, <1>6

(* A sum of natural numbers grows with the set. *)
LEMMA SumGrows ==
  ASSUME NEW D, IsFiniteSet(D), NEW f \in [D -> Nat], NEW S \in SUBSET D, NEW T \in SUBSET S
  PROVE  SumFunctionOnSet(f, T) <= SumFunctionOnSet(f, S)
<1> DEFINE sum(s) == SumFunctionOnSet(f, s)
<1>1. f \in [D -> Int] /\ \A x \in D : f[x] \in Nat
  OBVIOUS
<1>2. \A s \in SUBSET D : sum(s) \in Int
  BY <1>1, SumIsInt
<1> DEFINE Bad == {s \in SUBSET S : T \subseteq s /\ ~(sum(T) <= sum(s))}
<1> HIDE DEF sum
<1>3. SUFFICES ASSUME Bad # {} PROVE FALSE
  BY DEF sum
<1>4. PICK s \in Bad : \A t \in Bad : t \subseteq s => t = s
  <2>1. Bad \in SUBSET (SUBSET D)
    OBVIOUS
  <2> HIDE DEF Bad
  <2> QED BY <1>3, <2>1, SmallestSubset
<1>5. PICK x \in s : x \notin T
  <2>1. T \in SUBSET D
    OBVIOUS
  <2>2. sum(T) <= sum(T)
    BY <1>2, <2>1
  <2>3. s # T
    BY <1>4, <2>2
  <2> QED BY <1>4, <2>3
<1>6. s \in SUBSET D /\ sum(s) = f[x] + sum(s \ {x})
  BY <1>1, <1>4, <1>5, SumAddOne DEF sum
<1>7. s \ {x} \in SUBSET S /\ T \subseteq s \ {x} /\ s \ {x} \subseteq s /\ s \ {x} # s
  BY <1>4, <1>5
<1>8. sum(T) <= sum(s \ {x})
  BY <1>4, <1>7
<1>9. f[x] \in Nat /\ sum(s \ {x}) \in Int /\ sum(s) \in Int /\ sum(T) \in Int
  BY <1>1, <1>2, <1>5, <1>6
<1> QED BY <1>4, <1>6, <1>8, <1>9

(* A sum over a sequence by its beginnings: the last of the partial sums.  *)
PartialSums(sums, f, n) ==
  /\ sums \in [0 .. n -> Int] /\ sums[0] = 0
  /\ \A i \in 1 .. n : sums[i] = sums[i - 1] + f[i]

LEMMA SumOfPartialSums ==
  ASSUME NEW n \in Nat, NEW f \in [1 .. n -> Int], NEW sums, PartialSums(sums, f, n)
  PROVE  SumFunction(f) = sums[n]
<1>1. IsFiniteSet(1 .. n)
  BY FS_Interval
<1> DEFINE Bad == {k \in 0 .. n : SumFunctionOnSet(f, 1 .. k) # sums[k]}
<1>2. Bad = {}
  <2>1. SUFFICES ASSUME Bad # {} PROVE FALSE
    OBVIOUS
  <2>2. PICK k \in Bad : \A j \in Bad : k <= j
    <3>1. Bad \in SUBSET Nat
      OBVIOUS
    <3> HIDE DEF Bad
    <3> QED BY <2>1, <3>1, LeastNat
  <2>3. CASE k = 0
    <3>1. 1 .. 0 = {}
      OBVIOUS
    <3>2. SumFunctionOnSet(f, {}) = 0
      BY <1>1, SumNothing
    <3> QED BY <2>2, <2>3, <3>1, <3>2 DEF PartialSums
  <2>4. CASE k # 0
    <3>1. k \in 1 .. n /\ k - 1 \in 0 .. n /\ k \in 1 .. k /\ 1 .. k \in SUBSET (1 .. n)
      BY <2>2, <2>4
    <3>2. (1 .. k) \ {k} = 1 .. k - 1
      BY <3>1
    <3>3. SumFunctionOnSet(f, 1 .. k) = f[k] + SumFunctionOnSet(f, (1 .. k) \ {k})
      BY <1>1, <3>1, SumAddOne
    <3>4. k - 1 \notin Bad
      <4>1. ~(k <= k - 1)
        BY <3>1
      <4> QED BY <2>2, <4>1
    <3>5. SumFunctionOnSet(f, 1 .. k - 1) = sums[k - 1]
      BY <3>1, <3>4
    <3>6. sums[k] = sums[k - 1] + f[k] /\ sums[k - 1] \in Int /\ f[k] \in Int
      BY <3>1 DEF PartialSums
    <3>7. SumFunctionOnSet(f, 1 .. k) = sums[k]
      <4>1. f[k] + sums[k - 1] = sums[k]
        BY <3>6
      <4> QED BY <3>2, <3>3, <3>5, <4>1, Zenon
    <3> QED BY <2>2, <3>7
  <2> QED BY <2>3, <2>4
<1>3. SumFunctionOnSet(f, 1 .. n) = sums[n]
  BY <1>2
<1>4. DOMAIN f = 1 .. n
  OBVIOUS
<1> QED BY <1>3, <1>4 DEF SumFunction

(* There are partial sums, and the last of them is the sum. *)
LEMMA PartialSumsOfSum ==
  ASSUME NEW n \in Nat, NEW f \in [1 .. n -> Int]
  PROVE  \E sums : PartialSums(sums, f, n) /\ SumFunction(f) = sums[n]
<1> DEFINE sums == [k \in 0 .. n |-> SumFunctionOnSet(f, 1 .. k)]
<1>1. IsFiniteSet(1 .. n)
  BY FS_Interval
<1>2. \A k \in 0 .. n : 1 .. k \in SUBSET (1 .. n)
  OBVIOUS
<1>3. sums \in [0 .. n -> Int]
  BY <1>1, <1>2, SumIsInt
<1>4. sums[0] = 0
  <2>1. 1 .. 0 = {} /\ 0 \in 0 .. n
    OBVIOUS
  <2> QED BY <1>1, <2>1, SumNothing
<1>5. ASSUME NEW i \in 1 .. n
      PROVE  sums[i] = sums[i - 1] + f[i]
  <2>1. i \in 1 .. i /\ (1 .. i) \ {i} = 1 .. i - 1 /\ i \in 0 .. n /\ i - 1 \in 0 .. n
    OBVIOUS
  <2>2. SumFunctionOnSet(f, 1 .. i) = f[i] + SumFunctionOnSet(f, 1 .. i - 1)
    BY <1>1, <1>2, <2>1, SumAddOne
  <2>3. sums[i - 1] \in Int /\ f[i] \in Int
    BY <1>3, <2>1
  <2>4. sums[i] = SumFunctionOnSet(f, 1 .. i) /\ sums[i - 1] = SumFunctionOnSet(f, 1 .. i - 1)
    BY <2>1
  <2> HIDE DEF sums
  <2> QED BY <2>2, <2>3, <2>4
<1>6. sums[n] = SumFunction(f)
  BY DEF SumFunction
<1> HIDE DEF sums
<1>7. PartialSums(sums, f, n)
  BY <1>3, <1>4, <1>5 DEF PartialSums
<1> QED BY <1>6, <1>7
-----------------------------------------------------------------------------
(* Folds over a sequence *)

Greatest(s) == CHOOSE x \in s : \A y \in s : x >= y

(* h holds what a fold over the first elements of a sequence gives: step,  *)
(* for the next element, of what came before.                              *)
Steps(h, base, step, n) ==
  h[0] = base /\ \A k \in 1 .. n : h[k] = step[k][h[k - 1]]

(* g is the function that a fold over a sequence of n elements recurs over. *)
FoldsOver(g, base, step, n) ==
  \A s \in SUBSET (1 .. n) :
    g[s] = IF s = {} THEN base ELSE step[Greatest(s)][g[s \ {Greatest(s)}]]

LEMMA GreatestIn ==
  ASSUME NEW n \in Nat, NEW s \in SUBSET (1 .. n), s # {}
  PROVE  Greatest(s) \in s
<1> DEFINE T == {n - x : x \in s}
<1>1. T \in SUBSET Nat /\ T # {}
  <2>1. \A x \in 1 .. n : n - x \in Nat
    OBVIOUS
  <2>2. \A x \in s : n - x \in Nat
    BY <2>1
  <2> QED BY <2>2
<1>2. PICK t \in T : \A u \in T : t <= u
  <2> HIDE DEF T
  <2> QED BY <1>1, LeastNat
<1>3. PICK x \in s : t = n - x
  BY <1>2
<1>4. ASSUME NEW y \in s PROVE x >= y
  <2>1. n - x <= n - y
    BY <1>2, <1>3
  <2>2. x \in 1 .. n /\ y \in 1 .. n
    OBVIOUS
  <2> QED BY <2>1, <2>2
<1> QED BY <1>3, <1>4 DEF Greatest

LEMMA GreatestOf == ASSUME NEW k \in Nat, k # 0 PROVE Greatest(1 .. k) = k
<1>1. Greatest(1 .. k) \in 1 .. k
  <2> DEFINE s == 1 .. k
  <2>1. s \in SUBSET (1 .. k) /\ s # {}
    OBVIOUS
  <2> HIDE DEF s
  <2>2. Greatest(s) \in s
    BY <2>1, GreatestIn
  <2> QED BY <2>2 DEF s
<1>2. k \in 1 .. k /\ \A y \in 1 .. k : k >= y
  OBVIOUS
<1>3. \A y \in 1 .. k : Greatest(1 .. k) >= y
  BY <1>2 DEF Greatest
<1> QED BY <1>1, <1>2, <1>3

(* Two folds that take the same steps agree. *)
LEMMA StepsAgree ==
  ASSUME NEW n \in Nat, NEW base, NEW step, NEW other,
         \A k \in 1 .. n : step[k] = other[k],
         NEW g, NEW h, Steps(g, base, step, n), Steps(h, base, other, n)
  PROVE  \A k \in 0 .. n : g[k] = h[k]
<1> DEFINE Bad == {k \in 0 .. n : g[k] # h[k]}
<1>1. SUFFICES ASSUME Bad # {} PROVE FALSE
  OBVIOUS
<1>2. PICK k \in Bad : \A j \in Bad : k <= j
  <2>1. Bad \in SUBSET Nat
    OBVIOUS
  <2> HIDE DEF Bad
  <2> QED BY <1>1, <2>1, LeastNat
<1>3. k # 0
  BY <1>2 DEF Steps
<1>4. k \in 1 .. n /\ k - 1 \in 0 .. n /\ ~(k <= k - 1)
  BY <1>2, <1>3
<1>5. g[k - 1] = h[k - 1]
  BY <1>2, <1>4
<1> QED BY <1>2, <1>4, <1>5 DEF Steps

(* There is such a function. *)
LEMMA FoldOver ==
  ASSUME NEW n \in Nat, NEW V, NEW base \in V, NEW step \in [1 .. n -> [V -> V]]
  PROVE  \E g \in [SUBSET (1 .. n) -> V] : FoldsOver(g, base, step, n)
<1> DEFINE D == 1 .. n
           pick == [s \in SUBSET D |-> Greatest(s)]
<1>1. IsFiniteSet(D)
  BY FS_Interval
<1>2. \A s \in SUBSET D : s # {} => Greatest(s) \in s
  BY GreatestIn
<1>3. Picks(pick, D)
  BY <1>2 DEF Picks
<1>4. PICK g \in [SUBSET D -> V] : FoldsUp(g, base, step, pick, D)
  <2> HIDE DEF D, pick
  <2>1. step \in [D -> [V -> V]]
    BY DEF D
  <2> QED BY <1>1, <1>3, <2>1, FoldsExist
<1>5. \A s \in SUBSET D : g[s] = IF s = {} THEN base ELSE step[Greatest(s)][g[s \ {Greatest(s)}]]
  <2>1. ASSUME NEW s \in SUBSET D PROVE pick[s] = Greatest(s)
    OBVIOUS
  <2> HIDE DEF pick
  <2> QED BY <1>4, <2>1 DEF FoldsUp
<1> QED BY <1>5 DEF FoldsOver

(* What it gives for the beginnings of the sequence. *)
Beginnings(i, n) == [k \in 0 .. n |-> i[1 .. k]]

(* i recurs like a fold wherever what it has folded is in V. *)
Recurs(i, base, step, V, n) ==
  /\ i[{}] = base
  /\ \A s \in SUBSET (1 .. n) :
       s # {} /\ i[s \ {Greatest(s)}] \in V => i[s] = step[Greatest(s)][i[s \ {Greatest(s)}]]

(* Then it takes a fold's steps. *)
LEMMA StepsTaken ==
  ASSUME NEW n \in Nat, NEW V, NEW base \in V, NEW step \in [1 .. n -> [V -> V]],
         NEW i, Recurs(i, base, step, V, n)
  PROVE  Beginnings(i, n) \in [0 .. n -> V] /\ Steps(Beginnings(i, n), base, step, n)
<1> DEFINE h == Beginnings(i, n)
<1>1. h[0] = base
  <2>1. 1 .. 0 = {} /\ 0 \in 0 .. n
    OBVIOUS
  <2>2. h[0] = i[{}]
    BY <2>1 DEF Beginnings
  <2> QED BY <2>2 DEF Recurs
<1>2. ASSUME NEW k \in 1 .. n
      PROVE  k - 1 \in 0 .. n /\ (h[k - 1] \in V => h[k] = step[k][h[k - 1]])
  <2>1. k \in 0 .. n /\ k - 1 \in 0 .. n /\ k \in Nat /\ k # 0
    OBVIOUS
  <2>2. (1 .. k) \ {k} = 1 .. k - 1 /\ 1 .. k # {} /\ 1 .. k \in SUBSET (1 .. n)
    <3>1. (1 .. k) \ {k} = 1 .. k - 1
      BY <2>1
    <3>2. k \in 1 .. k
      BY <2>1
    <3>3. \A j \in 1 .. k : j \in 1 .. n
      OBVIOUS
    <3> QED BY <3>1, <3>2, <3>3
  <2>3. Greatest(1 .. k) = k
    BY <2>1, GreatestOf
  <2>4. i[1 .. k - 1] \in V => i[1 .. k] = step[k][i[1 .. k - 1]]
    <3> DEFINE s == 1 .. k
    <3>1. s # {} /\ s \in SUBSET (1 .. n) /\ s \ {Greatest(s)} = 1 .. k - 1 /\ Greatest(s) = k
      BY <2>2, <2>3
    <3> HIDE DEF s
    <3>2. i[s \ {Greatest(s)}] \in V => i[s] = step[Greatest(s)][i[s \ {Greatest(s)}]]
      BY <3>1 DEF Recurs
    <3>3. i[1 .. k - 1] \in V => i[s] = step[k][i[1 .. k - 1]]
      BY <3>1, <3>2
    <3> QED BY <3>3 DEF s
  <2>5. h[k] = i[1 .. k] /\ h[k - 1] = i[1 .. k - 1]
    BY <2>1 DEF Beginnings
  <2> HIDE DEF h
  <2> QED BY <2>1, <2>4, <2>5
<1> DEFINE Bad == {k \in 0 .. n : h[k] \notin V}
<1>3. Bad = {}
  <2> HIDE DEF h
  <2>1. SUFFICES ASSUME Bad # {} PROVE FALSE
    OBVIOUS
  <2>2. PICK k \in Bad : \A j \in Bad : k <= j
    <3>1. Bad \in SUBSET Nat
      OBVIOUS
    <3> HIDE DEF Bad
    <3> QED BY <2>1, <3>1, LeastNat
  <2>3. k \in 1 .. n /\ k - 1 \in 0 .. n /\ ~(k <= k - 1)
    BY <1>1, <2>2
  <2>4. h[k - 1] \in V
    BY <2>2, <2>3
  <2>5. step[k] \in [V -> V]
    BY <2>3
  <2> QED BY <1>2, <2>2, <2>3, <2>4, <2>5
<1>4. \A k \in 0 .. n : h[k] \in V
  BY <1>3
<1>5. h \in [0 .. n -> V]
  <2>1. h = [k \in 0 .. n |-> i[1 .. k]]
    BY DEF Beginnings
  <2>2. \A k \in 0 .. n : h[k] = i[1 .. k]
    BY <2>1
  <2>3. \A k \in 0 .. n : i[1 .. k] \in V
    BY <1>4, <2>2
  <2> HIDE DEF h
  <2> QED BY <2>1, <2>3
<1>6. Steps(h, base, step, n)
  <2> HIDE DEF h
  <2> QED BY <1>1, <1>2, <1>4 DEF Steps
<1> QED BY <1>5, <1>6
=============================================================================
