----------------------------- MODULE StatsProofs -----------------------------
(***************************************************************************)
(* The counter get_memory_stats reports is the sum of the recorded sizes,  *)
(* for every vector of blocks.                                             *)
(*                                                                         *)
(* RuntimeProofs keeps the books balanced (Balanced: some running total of *)
(* the sizes ends at the counter).  The property adds the sizes up with a  *)
(* fold, which takes the positions in an order CHOOSE picks.  The lemmas   *)
(* here show that the fold exists, that the order does not matter, and     *)
(* that it ends where the running total does, by induction on the number   *)
(* of positions.                                                           *)
(***************************************************************************)
EXTENDS RuntimeProofs, FiniteSetTheorems

(* A set of numbers that has 0 and, with every number, the next one, has   *)
(* them all: Nat has no infinite descent.  This is induction with a set in *)
(* the place of the predicate.                                             *)
LEMMA SetInduction ==
  ASSUME NEW P, 0 \in P, \A n \in Nat : n \in P => n + 1 \in P
  PROVE  Nat \subseteq P
<1> DEFINE Bad == {n \in Nat : n \notin P}
           R == OpToRel(<, Nat)
<1>1. SUFFICES ASSUME Bad # {}
               PROVE  FALSE
  OBVIOUS
<1>2. IsWellFoundedOn(R, Nat) /\ Bad \subseteq Nat
  BY NatLessThanWellFounded
<1>3. \A x, y \in Nat : x < y => << x, y >> \in R
  BY DEF OpToRel
<1> HIDE DEF Bad, R
<1>4. PICK n \in Bad : \A k \in Bad : << k, n >> \notin R
  BY <1>1, <1>2, WFMin
<1>5. n \in Nat /\ n \notin P /\ n # 0
  BY <1>4 DEF Bad
<1>6. n - 1 \in Nat /\ n - 1 < n /\ (n - 1) + 1 = n
  BY <1>5
<1>7. n - 1 \notin P
  BY <1>5, <1>6
<1>8. n - 1 \in Bad /\ << n - 1, n >> \in R
  BY <1>3, <1>5, <1>6, <1>7 DEF Bad
<1> QED BY <1>4, <1>8

(* The element a fold over T takes first. *)
Pick(T) == CHOOSE x \in T : TRUE

(* h adds up the values of f over the sets in D, as a fold does.           *)
AddsUp(h, f, D) ==
  h = [T \in D |-> IF T = {} THEN 0 ELSE f[Pick(T)] + h[T \ {Pick(T)}]]

(* The subsets of S of at most n elements. *)
Small(S, n) == {T \in SUBSET S : Cardinality(T) <= n}

(* Taking an element out of a finite set leaves a smaller one.             *)
LEMMA PickFacts ==
  ASSUME NEW S, IsFiniteSet(S), NEW T \in SUBSET S, T # {}
  PROVE  /\ Pick(T) \in T /\ Pick(T) \in S
         /\ T \ {Pick(T)} \in SUBSET S
         /\ Cardinality(T) \in Nat \ {0}
         /\ Cardinality(T \ {Pick(T)}) = Cardinality(T) - 1
<1>1. Pick(T) \in T
  BY DEF Pick
<1>2. IsFiniteSet(T)
  BY FS_Subset
<1>3. Cardinality(T) \in Nat /\ Cardinality(T) # 0
  BY <1>2, FS_CardinalityType, FS_EmptySet
<1>4. Cardinality(T \ {Pick(T)}) = Cardinality(T) - 1
  BY <1>1, <1>2, FS_RemoveElement
<1> QED BY <1>1, <1>3, <1>4

(* The recursive definition of a sum has a solution: built for the sets of *)
(* at most n elements, n going up to the size of S.                        *)
LEMMA SumExists ==
  ASSUME NEW S, IsFiniteSet(S), NEW f
  PROVE  \E h : AddsUp(h, f, SUBSET S)
<1> DEFINE P == {n \in Nat : \E h : AddsUp(h, f, Small(S, n))}
<1>1. 0 \in P
  <2> DEFINE h == [T \in Small(S, 0) |-> 0]
  <2>1. \A T \in Small(S, 0) : T = {}
    <3> TAKE T \in Small(S, 0)
    <3>1. T \in SUBSET S /\ Cardinality(T) <= 0
      BY DEF Small
    <3>2. Cardinality(T) \in Nat /\ IsFiniteSet(T)
      BY <3>1, FS_Subset, FS_CardinalityType
    <3>3. Cardinality(T) = 0
      BY <3>1, <3>2
    <3> QED BY <3>2, <3>3, FS_EmptySet
  <2>2. AddsUp(h, f, Small(S, 0))
    BY <2>1 DEF AddsUp
  <2> QED BY <2>2
<1>2. ASSUME NEW n \in Nat, n \in P
      PROVE  n + 1 \in P
  <2>1. PICK h : AddsUp(h, f, Small(S, n))
    BY <1>2
  <2> DEFINE Sum(g, T) == IF T = {} THEN 0 ELSE f[Pick(T)] + g[T \ {Pick(T)}]
             g == [T \in Small(S, n + 1) |-> Sum(h, T)]
  <2>2. h = [T \in Small(S, n) |-> Sum(h, T)]
    BY <2>1 DEF AddsUp
  <2>3. ASSUME NEW T \in Small(S, n + 1), T # {}
        PROVE  T \ {Pick(T)} \in Small(S, n) /\ T \ {Pick(T)} \in Small(S, n + 1)
    <3>1. T \in SUBSET S /\ Cardinality(T) <= n + 1
      BY DEF Small
    <3>2. T \ {Pick(T)} \in SUBSET S /\ Cardinality(T) \in Nat
          /\ Cardinality(T \ {Pick(T)}) = Cardinality(T) - 1
      BY <2>3, <3>1, PickFacts
    <3>3. \A c \in Nat : c <= n + 1 => c - 1 <= n /\ c - 1 <= n + 1
      BY <1>2
    <3> QED BY <3>1, <3>2, <3>3 DEF Small
  <2>4. \A T \in Small(S, n) : g[T] = h[T]
    <3> TAKE T \in Small(S, n)
    <3>1. T \in Small(S, n + 1)
      <4>1. T \in SUBSET S /\ Cardinality(T) <= n
        BY DEF Small
      <4>2. Cardinality(T) \in Nat
        BY <4>1, FS_Subset, FS_CardinalityType
      <4> QED BY <1>2, <4>1, <4>2 DEF Small
    <3>2. g[T] = Sum(h, T)
      BY <3>1
    <3>3. h[T] = Sum(h, T)
      <4> HIDE DEF Sum
      <4> QED BY <2>2
    <3> QED BY <3>2, <3>3
  <2>5. ASSUME NEW T \in Small(S, n + 1)
        PROVE  Sum(h, T) = Sum(g, T)
    <3> HIDE DEF g
    <3>1. CASE T = {}
      BY <3>1
    <3>2. CASE T # {}
      BY <2>3, <2>4, <3>2
    <3> QED BY <3>1, <3>2
  <2>6. g = [T \in Small(S, n + 1) |-> Sum(g, T)]
    <3> DEFINE k == [T \in Small(S, n + 1) |-> Sum(g, T)]
    <3>1. \A T \in Small(S, n + 1) : g[T] = Sum(h, T) /\ k[T] = Sum(g, T)
      <4> HIDE DEF Sum
      <4> QED OBVIOUS
    <3>2. \A T \in Small(S, n + 1) : g[T] = k[T]
      <4> HIDE DEF g, k, Sum
      <4> QED BY <2>5, <3>1
    <3>3. DOMAIN g = Small(S, n + 1) /\ DOMAIN k = Small(S, n + 1)
      OBVIOUS
    <3>4. g = [T \in DOMAIN g |-> g[T]] /\ k = [T \in DOMAIN k |-> k[T]]
      OBVIOUS
    <3> HIDE DEF g, k
    <3>5. g = k
      BY <3>2, <3>3, <3>4
    <3> QED BY <3>5 DEF k
  <2>7. AddsUp(g, f, Small(S, n + 1))
    <3> HIDE DEF g
    <3> QED BY <2>6 DEF AddsUp
  <2> QED BY <1>2, <2>7
<1>3. Cardinality(S) \in P
  <2> HIDE DEF P
  <2>1. Nat \subseteq P
    BY <1>1, <1>2, SetInduction
  <2> QED BY <2>1, FS_CardinalityType
<1>4. Small(S, Cardinality(S)) = SUBSET S
  BY FS_Subset DEF Small
<1> QED BY <1>3, <1>4

(* What the definition says of the empty set and of the others.            *)
LEMMA SumFacts ==
  ASSUME NEW S, NEW f, NEW h, AddsUp(h, f, SUBSET S)
  PROVE  /\ h[{}] = 0
         /\ \A T \in SUBSET S : T # {} => h[T] = f[Pick(T)] + h[T \ {Pick(T)}]
<1>1. \A T \in SUBSET S : h[T] = IF T = {} THEN 0 ELSE f[Pick(T)] + h[T \ {Pick(T)}]
  BY DEF AddsUp
<1>2. {} \in SUBSET S
  OBVIOUS
<1> QED BY <1>1, <1>2

(* A sum of naturals is a natural. *)
LEMMA SumNat ==
  ASSUME NEW S, IsFiniteSet(S), NEW f \in [S -> Nat], NEW h, AddsUp(h, f, SUBSET S)
  PROVE  h \in [SUBSET S -> Nat]
<1> DEFINE P == {n \in Nat : \A T \in SUBSET S : Cardinality(T) = n => h[T] \in Nat}
<1>0. /\ h[{}] = 0
      /\ \A T \in SUBSET S : T # {} => h[T] = f[Pick(T)] + h[T \ {Pick(T)}]
  <2>1. h[{}] = 0
    BY SumFacts
  <2>2. \A T \in SUBSET S : T # {} => h[T] = f[Pick(T)] + h[T \ {Pick(T)}]
    BY SumFacts
  <2> QED BY <2>1, <2>2
<1>1. 0 \in P
  <2>1. \A T \in SUBSET S : Cardinality(T) = 0 => T = {}
    BY FS_Subset, FS_EmptySet
  <2>2. \A T \in SUBSET S : Cardinality(T) = 0 => h[T] = 0
    BY <1>0, <2>1
  <2> QED BY <2>2
<1>2. ASSUME NEW n \in Nat, n \in P
      PROVE  n + 1 \in P
  <2>1. SUFFICES ASSUME NEW T \in SUBSET S, Cardinality(T) = n + 1
                 PROVE  h[T] \in Nat
    OBVIOUS
  <2>2. T # {}
    BY <2>1, FS_EmptySet
  <2>3. Pick(T) \in S /\ T \ {Pick(T)} \in SUBSET S /\ Cardinality(T \ {Pick(T)}) = n
    BY <2>1, <2>2, PickFacts
  <2>4. h[T \ {Pick(T)}] \in Nat
    BY <1>2, <2>3
  <2>5. h[T] = f[Pick(T)] + h[T \ {Pick(T)}] /\ f[Pick(T)] \in Nat
    BY <1>0, <2>2, <2>3
  <2> QED BY <2>4, <2>5
<1>3. Nat \subseteq P
  <2> HIDE DEF P
  <2> QED BY <1>1, <1>2, SetInduction
<1>4. \A T \in SUBSET S : h[T] \in Nat
  <2> TAKE T \in SUBSET S
  <2>1. Cardinality(T) \in Nat
    BY FS_Subset, FS_CardinalityType
  <2> QED BY <1>3, <2>1
<1>5. h = [T \in SUBSET S |-> h[T]]
  BY DEF AddsUp
<1> QED BY <1>4, <1>5

(* Any element of a set may be the one that is added last: what Pick takes *)
(* first does not matter.                                                  *)
LEMMA SumAnyOrder ==
  ASSUME NEW S, IsFiniteSet(S), NEW f \in [S -> Nat], NEW h, AddsUp(h, f, SUBSET S),
         NEW T \in SUBSET S, NEW x \in T
  PROVE  h[T] = f[x] + h[T \ {x}]
<1> DEFINE P == {n \in Nat : \A U \in SUBSET S : Cardinality(U) = n =>
                               \A y \in U : h[U] = f[y] + h[U \ {y}]}
<1>0. /\ \A U \in SUBSET S : U # {} => h[U] = f[Pick(U)] + h[U \ {Pick(U)}]
      /\ \A U \in SUBSET S : h[U] \in Nat
      /\ \A y \in S : f[y] \in Nat
  <2>1. h \in [SUBSET S -> Nat]
    BY SumNat
  <2>2. \A U \in SUBSET S : U # {} => h[U] = f[Pick(U)] + h[U \ {Pick(U)}]
    BY SumFacts
  <2> QED BY <2>1, <2>2
<1>1. 0 \in P
  <2>1. \A U \in SUBSET S : Cardinality(U) = 0 => U = {}
    BY FS_Subset, FS_EmptySet
  <2> QED BY <2>1
<1>2. ASSUME NEW n \in Nat, n \in P
      PROVE  n + 1 \in P
  <2>1. SUFFICES ASSUME NEW U \in SUBSET S, Cardinality(U) = n + 1, NEW y \in U
                 PROVE  h[U] = f[y] + h[U \ {y}]
    OBVIOUS
  <2> DEFINE c == Pick(U)
  <2>2. /\ c \in U /\ U \ {c} \in SUBSET S /\ Cardinality(U \ {c}) = n
        /\ h[U] = f[c] + h[U \ {c}]
    BY <1>0, <2>1, PickFacts
  <2>3. CASE y = c
    BY <2>2, <2>3
  <2>4. CASE y # c
    <3> HIDE DEF c
    <3> DEFINE V == (U \ {c}) \ {y}
    <3>1. y \in U \ {c} /\ h[U \ {c}] = f[y] + h[V]
      BY <1>2, <2>2, <2>4
    <3>2. IsFiniteSet(U) /\ U \ {y} \in SUBSET S
      BY FS_Subset
    <3>3. Cardinality(U \ {y}) = n /\ c \in U \ {y}
      BY <2>1, <2>2, <2>4, <3>2, FS_RemoveElement
    <3>4. (U \ {y}) \ {c} = V
      OBVIOUS
    <3>5. h[U \ {y}] = f[c] + h[(U \ {y}) \ {c}]
      BY <1>2, <3>2, <3>3
    <3>6. f[c] \in Nat /\ f[y] \in Nat /\ h[V] \in Nat
      BY <1>0, <2>2
    <3> HIDE DEF V
    <3>7. h[U] = f[c] + (f[y] + h[V])
      BY <2>2, <3>1
    <3>8. h[U \ {y}] = f[c] + h[V]
      BY <3>4, <3>5
    <3> QED BY <3>6, <3>7, <3>8
  <2> QED BY <2>3, <2>4
<1>3. Nat \subseteq P
  <2> HIDE DEF P
  <2> QED BY <1>1, <1>2, SetInduction
<1>4. Cardinality(T) \in Nat
  BY FS_Subset, FS_CardinalityType
<1> QED BY <1>3, <1>4

(* FoldSeq over the sizes of a sequence of blocks is the sum over all its  *)
(* positions.                                                              *)
LEMMA FoldIsSum ==
  ASSUME NEW E, NEW s \in Seq(E), NEW f, f = [i \in 1 .. Len(s) |-> s[i].size]
  PROVE  \E h : /\ AddsUp(h, f, SUBSET (1 .. Len(s)))
                /\ FoldSeq(LAMBDA b, total : b.size + total, 0, s) = h[1 .. Len(s)]
<1> DEFINE D == 1 .. Len(s)
<1>1. DOMAIN s = D /\ Len(s) \in Nat
  OBVIOUS
<1> DEFINE Body(g) == [T \in SUBSET D |->
                         IF T = {} THEN 0
                         ELSE s[CHOOSE x \in T : TRUE].size
                              + g[T \ {CHOOSE x \in T : TRUE}]]
           h == CHOOSE g : g = Body(g)
<1>2. FoldSeq(LAMBDA b, total : b.size + total, 0, s) = h[D]
  BY <1>1 DEF FoldSeq, FoldFunction, FoldFunctionOnSet, MapThenFoldSet
<1>3. IsFiniteSet(D)
  BY <1>1, FS_Interval
<1>4. PICK g : AddsUp(g, f, SUBSET D)
  <2> HIDE DEF D
  <2> QED BY <1>3, SumExists
<1>5. \A k : AddsUp(k, f, SUBSET D) <=> k = Body(k)
  <2> TAKE k
  <2>1. ASSUME NEW T \in SUBSET D, T # {}
        PROVE  f[Pick(T)] = s[CHOOSE x \in T : TRUE].size
    BY <2>1 DEF Pick
  <2>2. \A T \in SUBSET D :
          (IF T = {} THEN 0 ELSE f[Pick(T)] + k[T \ {Pick(T)}])
          = (IF T = {} THEN 0 ELSE s[CHOOSE x \in T : TRUE].size
                                   + k[T \ {CHOOSE x \in T : TRUE}])
    <3> HIDE DEF D
    <3> QED BY <2>1 DEF Pick
  <2>3. [T \in SUBSET D |-> IF T = {} THEN 0 ELSE f[Pick(T)] + k[T \ {Pick(T)}]]
        = Body(k)
    <3> HIDE DEF D
    <3> QED BY <2>2
  <2> QED BY <2>3 DEF AddsUp
<1>6. h = Body(h)
  <2> HIDE DEF Body
  <2> QED BY <1>4, <1>5
<1>7. AddsUp(h, f, SUBSET D)
  <2> HIDE DEF h, Body
  <2> QED BY <1>5, <1>6
<1> QED BY <1>2, <1>7

(* Taken from the last position down, that sum is the running total.       *)
LEMMA FoldIsRunningTotal ==
  ASSUME NEW E, NEW s \in Seq(E), \A i \in 1 .. Len(s) : s[i].size \in Nat,
         NEW R, R[0] = 0, \A i \in 1 .. Len(s) : R[i] = R[i - 1] + s[i].size
  PROVE  FoldSeq(LAMBDA b, total : b.size + total, 0, s) = R[Len(s)]
<1> DEFINE L == Len(s)
           f == [i \in 1 .. L |-> s[i].size]
<1>1. L \in Nat
  OBVIOUS
<1>2. PICK h : /\ AddsUp(h, f, SUBSET (1 .. L))
               /\ FoldSeq(LAMBDA b, total : b.size + total, 0, s) = h[1 .. L]
  BY FoldIsSum
<1>3. f \in [1 .. L -> Nat] /\ \A i \in 1 .. L : f[i] = s[i].size
  OBVIOUS
<1>4. IsFiniteSet(1 .. L)
  BY <1>1, FS_Interval
<1> DEFINE P == {n \in Nat : n <= L => h[1 .. n] = R[n]}
<1> HIDE DEF f, L
<1>5. 0 \in P
  <2>1. 1 .. 0 = {}
    OBVIOUS
  <2>2. h[{}] = 0
    BY <1>2, SumFacts
  <2>3. h[1 .. 0] = R[0]
    BY <2>1, <2>2
  <2> QED BY <2>3
<1>6. ASSUME NEW n \in Nat, n \in P
      PROVE  n + 1 \in P
  <2>1. SUFFICES ASSUME n + 1 <= L
                 PROVE  h[1 .. n + 1] = R[n + 1]
    BY <1>6
  <2>2. /\ 1 .. n + 1 \in SUBSET (1 .. L) /\ n + 1 \in 1 .. n + 1 /\ n + 1 \in 1 .. L
        /\ (1 .. n + 1) \ {n + 1} = 1 .. n
    BY <1>1, <1>6, <2>1
  <2>3. h[1 .. n + 1] = f[n + 1] + h[(1 .. n + 1) \ {n + 1}]
    <3> DEFINE D == 1 .. L
               U == 1 .. n + 1
               y == n + 1
    <3>1. /\ IsFiniteSet(D) /\ f \in [D -> Nat] /\ AddsUp(h, f, SUBSET D)
          /\ U \in SUBSET D /\ y \in U
      BY <1>2, <1>3, <1>4, <2>2
    <3> HIDE DEF D, U, y
    <3>2. h[U] = f[y] + h[U \ {y}]
      BY <3>1, SumAnyOrder
    <3> QED BY <3>2 DEF U, y
  <2>4. h[1 .. n + 1] = f[n + 1] + h[1 .. n]
    BY <2>2, <2>3
  <2>5. h[1 .. n] = R[n]
    BY <1>1, <1>6, <2>1
  <2>6. R[n + 1] = R[n] + s[n + 1].size
    <3>1. R[n + 1] = R[(n + 1) - 1] + s[n + 1].size
      BY <2>2 DEF L
    <3> QED BY <1>6, <3>1
  <2>7. h[1 .. n] \in Nat /\ f[n + 1] \in Nat
    <3>1. h \in [SUBSET (1 .. L) -> Nat]
      BY <1>2, <1>3, <1>4, SumNat
    <3>2. 1 .. n \in SUBSET (1 .. L)
      BY <1>1, <1>6, <2>1
    <3> QED BY <1>3, <2>2, <3>1, <3>2
  <2>8. f[n + 1] = s[n + 1].size
    BY <1>3, <2>2
  <2> QED BY <2>4, <2>5, <2>6, <2>7, <2>8
<1>7. Nat \subseteq P
  <2> HIDE DEF P
  <2> QED BY <1>5, <1>6, SetInduction
<1>8. h[1 .. L] = R[L]
  BY <1>1, <1>7
<1> QED BY <1>2, <1>8 DEF L

(* Balanced books: the fold of the recorded sizes is the counter.          *)
LEMMA CounterIsFold ==
  ASSUME NEW m, Consistent(m)
  PROVE  FoldSeq(LAMBDA b, total : b.size + total, 0, m.allocations) = m.allocated
<1> DEFINE s == m.allocations
<1>1. /\ s \in Seq([ptr : Addr, size : Bytes])
      /\ Balanced(m)
  BY DEF Consistent, Manager
<1>2. \A i \in 1 .. Len(s) : s[i].size \in Nat
  <2> TAKE i \in 1 .. Len(s)
  <2>1. s[i] \in [ptr : Addr, size : Bytes]
    <3> HIDE DEF s
    <3> QED BY <1>1, ElementOfSeq
  <2>2. s[i].size \in Bytes
    BY <2>1
  <2> QED BY <2>2, WidthAssumption DEF Bytes
<1>3. PICK R : /\ R[0] = 0
               /\ \A i \in 1 .. Len(s) : R[i] = R[i - 1] + s[i].size
               /\ R[Len(s)] = m.allocated
  BY <1>1 DEF Balanced, IsRunningTotal
<1>4. FoldSeq(LAMBDA b, total : b.size + total, 0, s) = R[Len(s)]
  BY <1>1, <1>2, <1>3, FoldIsRunningTotal
<1> QED BY <1>3, <1>4

(* The allocated_bytes of get_memory_stats are the sum of the sizes in the *)
(* manager's vector, whatever was nested, refused or thrown.               *)
THEOREM StatsAreSums == Spec => []StatsAddUp
<1>1. IInv => StatsAddUp
  <2>1. SUFFICES ASSUME IInv, mgr # NULL
                 PROVE  MemoryStats.allocated
                          = FoldSeq(LAMBDA b, total : b.size + total, 0, mgr.allocations)
    BY DEF StatsAddUp
  <2>2. Consistent(mgr)
    BY <2>1 DEF IInv, ManagerInv
  <2>3. MemoryStats.allocated = mgr.allocated
    BY <2>1 DEF MemoryStats
  <2> QED BY <2>2, <2>3, CounterIsFold
<1> QED BY <1>1, SpecIInv, PTL
=============================================================================
