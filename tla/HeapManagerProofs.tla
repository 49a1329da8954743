-------------------------- MODULE HeapManagerProofs --------------------------
EXTENDS HeapManager, SequenceTheorems, TLAPS

(***************************************************************************)
(* What HeapManager's operators preserve, for every width, budget, heap    *)
(* bound and address set.  MemoryManagerProofs and RuntimeProofs rest on   *)
(* NewManagerConsistent, GuardExact, TrackConsistent, UntrackConsistent.   *)
(***************************************************************************)

(* uint64_t addition of the code is integer addition below 2^64. *)
LEMMA PlusSmall ==
  ASSUME NEW a \in Nat, NEW b \in Nat, a + b < Width
  PROVE  Plus(a, b) = a + b
BY WidthAssumption DEF Plus

(* uint64_t subtraction is integer subtraction when it does not borrow. *)
LEMMA MinusSmall ==
  ASSUME NEW a \in Nat, NEW b \in Nat, b <= a, a < Width
  PROVE  Minus(a, b) = a - b
BY WidthAssumption DEF Minus

(* vector::erase: one element fewer, the later ones moved down by one. *)
LEMMA RemoveAtFacts ==
  ASSUME NEW T, NEW s \in Seq(T), NEW k \in 1 .. Len(s)
  PROVE  /\ RemoveAt(s, k) \in Seq(T)
         /\ Len(RemoveAt(s, k)) = Len(s) - 1
         /\ \A i \in 1 .. Len(s) - 1 :
              RemoveAt(s, k)[i] = IF i < k THEN s[i] ELSE s[i+1]
<1> DEFINE A == SubSeq(s, 1, k - 1)
            B == SubSeq(s, k + 1, Len(s))
<1>1. A \in Seq(T) /\ Len(A) = k - 1 /\ \A i \in 1 .. k - 1 : A[i] = s[i]
  OBVIOUS
<1>2. /\ B \in Seq(T) /\ Len(B) = Len(s) - k
      /\ \A i \in 1 .. Len(s) - k : B[i] = s[k + i]
  OBVIOUS
<1>3. RemoveAt(s, k) = A \o B
  BY DEF RemoveAt
<1>4. /\ A \o B \in Seq(T)
      /\ Len(A \o B) = Len(s) - 1
      /\ \A i \in 1 .. Len(s) - 1 :
           (A \o B)[i] = IF i < k THEN A[i] ELSE B[i - (k - 1)]
  <2> HIDE DEF A, B
  <2>1. A \in Seq(T) /\ B \in Seq(T) /\ Len(A) = k - 1 /\ Len(B) = Len(s) - k
    BY <1>1, <1>2
  <2>2. /\ A \o B \in Seq(T)
        /\ Len(A \o B) = Len(A) + Len(B)
        /\ \A i \in 1 .. Len(A) + Len(B) :
             (A \o B)[i] = IF i <= Len(A) THEN A[i] ELSE B[i - Len(A)]
    BY <2>1, ConcatProperties
  <2>3. k \in Int /\ Len(s) \in Nat
    OBVIOUS
  <2> QED BY <2>1, <2>2, <2>3
<1>5. \A i \in 1 .. Len(s) - 1 : i < k => A[i] = s[i]
  BY <1>1
<1>6. \A i \in 1 .. Len(s) - 1 : ~(i < k) => B[i - (k - 1)] = s[i + 1]
  <2> HIDE DEF A, B
  <2> QED BY <1>2
<1> HIDE DEF A, B
<1> QED BY <1>3, <1>4, <1>5, <1>6

(* A call under way is put on top of a stack. *)
LEMMA PushFacts ==
  ASSUME NEW T, NEW s \in Seq(T), NEW x \in T
  PROVE  /\ Append(s, x) \in Seq(T)
         /\ Len(Append(s, x)) = Len(s) + 1
         /\ Append(s, x)[Len(s) + 1] = x
         /\ \A i \in 1 .. Len(s) : Append(s, x)[i] = s[i]
         /\ DOMAIN Append(s, x) = 1 .. Len(s) + 1
         /\ DOMAIN s = 1 .. Len(s) /\ Len(s) \in Nat
BY AppendProperties

(* Ending the innermost call removes it and nothing else. *)
LEMMA PopFacts ==
  ASSUME NEW T, NEW s \in Seq(T), s # << >>
  PROVE  /\ Front(s) \in Seq(T)
         /\ Len(Front(s)) = Len(s) - 1
         /\ \A i \in 1 .. Len(s) - 1 : Front(s)[i] = s[i]
         /\ Last(s) = s[Len(s)] /\ Last(s) \in T
         /\ DOMAIN Front(s) = 1 .. Len(s) - 1
         /\ DOMAIN s = 1 .. Len(s) /\ Len(s) \in Nat \ {0}
<1>1. Len(s) \in Nat \ {0} /\ DOMAIN s = 1 .. Len(s)
  BY EmptySeq
<1>2. /\ Front(s) \in Seq(T) /\ Len(Front(s)) = Len(s) - 1
      /\ \A i \in 1 .. Len(s) - 1 : Front(s)[i] = s[i]
  BY <1>1 DEF Front
<1>3. Last(s) = s[Len(s)] /\ Last(s) \in T
  BY <1>1 DEF Last
<1> QED BY <1>1, <1>2, <1>3

-----------------------------------------------------------------------------
(* A freshly constructed manager. *)
LEMMA NewManagerConsistent ==
  ASSUME NEW b \in Budgets
  PROVE  /\ Consistent(NewManager(b))
         /\ Tracked(NewManager(b)) = {}
<1> DEFINE m == NewManager(b)
           S == [i \in 0 .. 0 |-> 0]
<1>1. b \in 0 .. Width - 1
  BY WidthAssumption
<1>2. m \in Manager /\ m.max = b /\ m.allocated = 0 /\ m.allocations = << >>
  <2>1. 0 \in Bytes /\ b \in Bytes
    BY <1>1, WidthAssumption DEF Bytes
  <2>2. << >> \in Seq([ptr : Addr, size : Bytes])
    OBVIOUS
  <2> QED BY <2>1, <2>2 DEF NewManager, Manager
<1>3. Len(m.allocations) = 0 /\ DOMAIN m.allocations = {}
  BY <1>2
<1>4. S \in [0 .. 0 -> 0 .. 0] /\ S[0] = 0
  OBVIOUS
<1> HIDE DEF m, S
<1>5. Balanced(m)
  <2>1. IsRunningTotal(S, m.allocations)
    BY <1>3, <1>4 DEF IsRunningTotal
  <2> QED BY <1>2, <1>3, <1>4, <2>1 DEF Balanced
<1>6. Distinct(m) /\ Tracked(m) = {}
  BY <1>3 DEF Distinct, Tracked
<1>7. Consistent(m)
  BY <1>1, <1>2, <1>5, <1>6 DEF Consistent
<1> QED BY <1>6, <1>7 DEF m

(* The wrapping guard is the real one for every size the heap can give.    *)
LEMMA GuardExact ==
  ASSUME NEW m, Consistent(m), NEW n \in 0 .. HeapMax
  PROVE  /\ m.allocated + n < Width
         /\ Refuses(m, n) <=> m.allocated + n > m.max
<1>1. m.max \in Budgets /\ m.allocated \in Nat /\ m.allocated <= m.max
  BY DEF Consistent, Manager, Bytes
<1>2. m.max \in Nat /\ m.max + HeapMax < Width /\ HeapMax \in Nat /\ Width \in Nat
  BY <1>1, WidthAssumption
<1>3. m.allocated + n < Width
  BY <1>1, <1>2
<1>4. Plus(m.allocated, n) = m.allocated + n
  BY <1>1, <1>2, <1>3, PlusSmall
<1> QED BY <1>3, <1>4 DEF Refuses

(* An admitted block keeps the record consistent: the counter still is the *)
(* sum of the sizes, within the budget.                                    *)
LEMMA TrackConsistent ==
  ASSUME NEW m, Consistent(m), NEW p \in Addr, p \notin Tracked(m),
         NEW n \in 0 .. HeapMax, ~ Refuses(m, n)
  PROVE  /\ Consistent(Track(m, p, n))
         /\ Tracked(Track(m, p, n)) = Tracked(m) \cup {p}
         /\ Track(m, p, n).allocated = m.allocated + n
         /\ Track(m, p, n).max = m.max
<1> DEFINE t == Track(m, p, n)
           e == [ptr |-> p, size |-> n]
           E == [ptr : Addr, size : Bytes]
           L == Len(m.allocations)
<1>1. /\ m \in Manager /\ m.max \in Budgets /\ m.allocated \in Nat
      /\ m.allocations \in Seq(E) /\ L \in Nat /\ m.max \in Bytes
  BY DEF Consistent, Manager, Bytes
<1>2. m.allocated + n < Width /\ m.allocated + n <= m.max
  BY <1>1, GuardExact, WidthAssumption DEF Bytes
<1>3. n \in Bytes /\ n \in Nat /\ e \in E
  BY <1>1, <1>2, WidthAssumption DEF Bytes
<1>4. Plus(m.allocated, n) = m.allocated + n
  BY <1>1, <1>2, <1>3, PlusSmall
<1>5. /\ t.allocations = Append(m.allocations, e)
      /\ t.allocated = m.allocated + n /\ t.max = m.max
  BY <1>1, <1>4 DEF Track
<1>6. t = [max |-> m.max, allocated |-> m.allocated + n,
           allocations |-> Append(m.allocations, e)]
  BY <1>1, <1>4 DEF Track
<1>7. /\ Append(m.allocations, e) \in Seq(E)
      /\ Len(t.allocations) = L + 1
      /\ t.allocations[L + 1] = e
      /\ \A i \in 1 .. L : t.allocations[i] = m.allocations[i]
      /\ DOMAIN t.allocations = 1 .. L + 1 /\ DOMAIN m.allocations = 1 .. L
  <2> HIDE DEF t, e, E
  <2> QED BY <1>1, <1>3, <1>5, AppendProperties
<1>8. t \in Manager
  <2>1. m.allocated + n \in Bytes
    BY <1>1, <1>2, <1>3, WidthAssumption DEF Bytes
  <2> QED BY <1>1, <1>6, <1>7, <2>1 DEF Manager
<1>9. e.ptr = p /\ e.size = n
  OBVIOUS
<1> HIDE DEF t, e, E
<1>10. Tracked(t) = Tracked(m) \cup {p}
  <2>1. \A i \in 1 .. L + 1 : i \in 1 .. L \/ i = L + 1
    BY <1>1
  <2>2. \A i \in 1 .. L : i \in 1 .. L + 1
    BY <1>1
  <2>3. L + 1 \in 1 .. L + 1
    BY <1>1
  <2> QED BY <1>7, <1>9, <2>1, <2>2, <2>3 DEF Tracked
<1>11. Distinct(t)
  <2>1. \A i \in 1 .. L : m.allocations[i].ptr # p
    BY <1>7 DEF Tracked
  <2>2. \A i, j \in 1 .. L : m.allocations[i].ptr = m.allocations[j].ptr => i = j
    BY <1>7 DEF Consistent, Distinct
  <2>3. \A i \in 1 .. L + 1 : i \in 1 .. L \/ i = L + 1
    BY <1>1
  <2> QED BY <1>7, <1>9, <2>1, <2>2, <2>3 DEF Distinct
<1>12. Balanced(t)
  <2>1. PICK S \in [0 .. L -> 0 .. m.allocated] :
          IsRunningTotal(S, m.allocations) /\ S[L] = m.allocated
    BY DEF Consistent, Balanced
  <2> DEFINE R == [i \in 0 .. L + 1 |-> IF i <= L THEN S[i] ELSE m.allocated + n]
  <2>2. R \in [0 .. L + 1 -> 0 .. m.allocated + n]
    BY <1>1, <1>3
  <2>3. /\ \A i \in 0 .. L : R[i] = S[i]
        /\ R[L + 1] = m.allocated + n
    BY <1>1
  <2> HIDE DEF R
  <2>4. R[0] = 0
    BY <1>1, <2>1, <2>3 DEF IsRunningTotal
  <2>5. \A i \in 1 .. L + 1 : R[i] = R[i - 1] + t.allocations[i].size
    <3> TAKE i \in 1 .. L + 1
    <3>1. CASE i \in 1 .. L
      <4>1. i - 1 \in 0 .. L /\ i \in 0 .. L
        BY <1>1, <3>1
      <4>2. S[i] = S[i - 1] + m.allocations[i].size
        BY <2>1, <3>1 DEF IsRunningTotal
      <4> QED BY <1>7, <2>3, <3>1, <4>1, <4>2
    <3>2. CASE i = L + 1
      <4>1. i - 1 = L /\ L \in 0 .. L
        BY <1>1, <3>2
      <4> QED BY <1>7, <1>9, <2>1, <2>3, <3>2, <4>1
    <3> QED BY <1>1, <3>1, <3>2
  <2>6. \A i, j \in 0 .. L + 1 : i <= j => R[i] <= R[j]
    <3>1. \A i, j \in 0 .. L : i <= j => S[i] <= S[j]
      BY <2>1 DEF IsRunningTotal
    <3>2. \A i \in 0 .. L : S[i] \in 0 .. m.allocated
      BY <2>1
    <3>3. SUFFICES ASSUME NEW i \in 0 .. L + 1, NEW j \in 0 .. L + 1, i <= j
                   PROVE  R[i] <= R[j]
      OBVIOUS
    <3>4. CASE j \in 0 .. L
      <4>1. i \in 0 .. L
        BY <1>1, <3>3, <3>4
      <4> QED BY <2>3, <3>1, <3>3, <3>4, <4>1
    <3>5. CASE j = L + 1 /\ i \in 0 .. L
      <4>1. S[i] <= m.allocated + n /\ R[i] = S[i]
        BY <1>1, <1>3, <2>3, <3>2, <3>5
      <4> QED BY <2>3, <3>5, <4>1
    <3>6. CASE j = L + 1 /\ i = L + 1
      BY <1>1, <1>3, <2>3, <3>6
    <3> QED BY <1>1, <3>4, <3>5, <3>6
  <2>7. IsRunningTotal(R, t.allocations)
    BY <1>7, <2>4, <2>5, <2>6 DEF IsRunningTotal
  <2> QED BY <1>5, <1>7, <2>2, <2>3, <2>7 DEF Balanced
<1>13. Consistent(t)
  BY <1>1, <1>2, <1>5, <1>8, <1>11, <1>12 DEF Consistent
<1> QED BY <1>5, <1>10, <1>13 DEF t

(* Freeing any pointer, on record or not, keeps the record consistent.     *)
LEMMA UntrackConsistent ==
  ASSUME NEW m, Consistent(m), NEW p
  PROVE  /\ Consistent(Untrack(m, p))
         /\ Tracked(Untrack(m, p)) = Tracked(m) \ {p}
         /\ Untrack(m, p).max = m.max
         /\ Untrack(m, p).allocated <= m.allocated
         /\ p \in Tracked(m) =>
              Untrack(m, p).allocated = m.allocated - m.allocations[IndexOf(m, p)].size
<1>1. CASE p \notin Tracked(m)
  <2>1. Untrack(m, p) = m
    BY <1>1 DEF Untrack
  <2>2. m.allocated \in Nat
    BY DEF Consistent, Manager, Bytes
  <2> QED BY <1>1, <2>1, <2>2
<1>2. CASE p \in Tracked(m)
  <2> DEFINE u == Untrack(m, p)
             k == IndexOf(m, p)
             z == m.allocations[k].size
             E == [ptr : Addr, size : Bytes]
             L == Len(m.allocations)
             q == RemoveAt(m.allocations, k)
  <2>1. /\ m \in Manager /\ m.max \in Budgets /\ m.allocated \in Nat
        /\ m.allocations \in Seq(E) /\ L \in Nat /\ m.max \in Bytes
        /\ DOMAIN m.allocations = 1 .. L /\ m.allocated <= m.max
    BY DEF Consistent, Manager, Bytes
  <2>2. \A i, j \in 1 .. L : m.allocations[i].ptr = m.allocations[j].ptr => i = j
    BY <2>1 DEF Consistent, Distinct
  <2>3. k \in 1 .. L /\ m.allocations[k].ptr = p
    <3>1. PICK i \in 1 .. L : m.allocations[i].ptr = p
      BY <1>2, <2>1 DEF Tracked
    <3>2. \A j \in 1 .. L : m.allocations[j].ptr = p => i <= j
      BY <2>1, <2>2, <3>1
    <3> QED BY <2>1, <3>1, <3>2 DEF IndexOf
  <2> HIDE DEF k
  <2>4. /\ \A i \in 1 .. L : m.allocations[i].size \in Nat
        /\ z \in Nat
    <3> HIDE DEF E
    <3>0. m.allocations \in Seq(E) /\ L = Len(m.allocations)
      BY <2>1
    <3> HIDE DEF L
    <3>1. \A i \in 1 .. L : m.allocations[i] \in E
      BY <3>0, ElementOfSeq
    <3>2. \A x \in Bytes : x \in Nat
      BY WidthAssumption DEF Bytes
    <3>3. \A x \in E : x.size \in Bytes
      BY DEF E
    <3> QED BY <2>3, <3>1, <3>2, <3>3
  <2> HIDE DEF E
  <2>5. /\ q \in Seq(E)
        /\ Len(q) = L - 1
        /\ \A i \in 1 .. L - 1 :
             q[i] = IF i < k THEN m.allocations[i] ELSE m.allocations[i + 1]
    BY <2>1, <2>3, RemoveAtFacts
  <2>5a. k \in 1 .. L /\ L \in Nat /\ k \in Nat
    BY <2>1, <2>3
  <2>6. PICK S \in [0 .. L -> 0 .. m.allocated] :
          IsRunningTotal(S, m.allocations) /\ S[L] = m.allocated
    BY DEF Consistent, Balanced
  <2> HIDE DEF L
  <2>7. /\ S[0] = 0
        /\ \A i \in 1 .. L : S[i] = S[i - 1] + m.allocations[i].size
        /\ \A i, j \in 0 .. L : i <= j => S[i] <= S[j]
        /\ \A i \in 0 .. L : S[i] \in 0 .. m.allocated
    <3>1. IsRunningTotal(S, m.allocations) /\ L = Len(m.allocations)
      BY <2>6 DEF L
    <3>2. /\ S[0] = 0
          /\ \A i \in 1 .. L : S[i] = S[i - 1] + m.allocations[i].size
          /\ \A i, j \in 0 .. L : i <= j => S[i] <= S[j]
      BY <3>1 DEF IsRunningTotal
    <3>3. \A i \in 0 .. L : S[i] \in 0 .. m.allocated
      BY <2>6
    <3> QED BY <3>2, <3>3
  <2>7a. \A i \in 0 .. L : S[i] \in Nat /\ S[i] <= m.allocated
    BY <2>1, <2>7
  <2>8. S[k] = S[k - 1] + z /\ S[k - 1] \in Nat /\ z <= m.allocated
    <3>1. k - 1 \in 0 .. L /\ k \in 0 .. L
      BY <2>1, <2>3
    <3> QED BY <2>1, <2>3, <2>4, <2>7, <3>1
  <2>9. Minus(m.allocated, z) = m.allocated - z /\ m.allocated - z \in 0 .. m.allocated
    <3>1. m.allocated < Width
      BY <2>1, WidthAssumption DEF Bytes
    <3> QED BY <2>1, <2>4, <2>8, <3>1, MinusSmall
  <2>10. u = [max |-> m.max, allocated |-> m.allocated - z, allocations |-> q]
    BY <1>2, <2>9 DEF Untrack, k
  <2> HIDE DEF q, u, z
  <2>11. /\ u.max = m.max /\ u.allocated = m.allocated - z /\ u.allocations = q
         /\ Len(u.allocations) = L - 1 /\ DOMAIN u.allocations = 1 .. L - 1
    BY <2>5, <2>10
  <2>12. u \in Manager
    <3>1. m.allocated - z \in Bytes
      BY <2>1, <2>9, WidthAssumption DEF Bytes
    <3> QED BY <2>1, <2>5, <2>10, <3>1 DEF Manager, E
  <2>13. \A i \in 1 .. L - 1 : \E j \in 1 .. L \ {k} :
           /\ q[i] = m.allocations[j]
           /\ j = IF i < k THEN i ELSE i + 1
    <3> TAKE i \in 1 .. L - 1
    <3>1. CASE i < k
      <4>1. i \in 1 .. L \ {k}
        BY <2>5a, <3>1
      <4>2. q[i] = m.allocations[i]
        BY <2>5, <3>1
      <4> QED BY <3>1, <4>1, <4>2
    <3>2. CASE ~(i < k)
      <4>1. i + 1 \in 1 .. L \ {k}
        BY <2>5a, <3>2
      <4>2. q[i] = m.allocations[i + 1]
        BY <2>5, <3>2
      <4> QED BY <3>2, <4>1, <4>2
    <3> QED BY <3>1, <3>2
  <2>14. \A j \in 1 .. L \ {k} : \E i \in 1 .. L - 1 : q[i] = m.allocations[j]
    <3> TAKE j \in 1 .. L \ {k}
    <3>1. CASE j < k
      <4>1. j \in 1 .. L - 1
        BY <2>5a, <3>1
      <4>2. q[j] = m.allocations[j]
        BY <2>5, <3>1, <4>1
      <4> QED BY <4>1, <4>2
    <3>2. CASE ~(j < k)
      <4>1. j - 1 \in 1 .. L - 1 /\ ~(j - 1 < k) /\ (j - 1) + 1 = j
        BY <2>5a, <3>2
      <4>2. q[j - 1] = m.allocations[j]
        BY <2>5, <4>1
      <4> QED BY <4>1, <4>2
    <3> QED BY <3>1, <3>2
  <2>15. Tracked(u) = Tracked(m) \ {p}
    <3>1. \A i \in 1 .. L - 1 : q[i].ptr \in Tracked(m) \ {p}
      <4> TAKE i \in 1 .. L - 1
      <4>1. PICK j \in 1 .. L \ {k} : q[i] = m.allocations[j]
        BY <2>13
      <4>2. m.allocations[j].ptr \in Tracked(m)
        BY <2>1 DEF Tracked
      <4>3. m.allocations[j].ptr # p
        BY <2>2, <2>3
      <4> QED BY <4>1, <4>2, <4>3
    <3>2. \A x \in Tracked(m) \ {p} : \E i \in 1 .. L - 1 : q[i].ptr = x
      <4> TAKE x \in Tracked(m) \ {p}
      <4>1. PICK j \in 1 .. L : m.allocations[j].ptr = x
        BY <2>1 DEF Tracked
      <4>2. j \in 1 .. L \ {k}
        BY <2>3, <4>1
      <4> QED BY <2>14, <4>1, <4>2
    <3>3. Tracked(u) = {q[i].ptr : i \in 1 .. L - 1}
      BY <2>11 DEF Tracked
    <3> QED BY <3>1, <3>2, <3>3
  <2>16. Distinct(u)
    <3>1. SUFFICES ASSUME NEW i \in 1 .. L - 1, NEW j \in 1 .. L - 1,
                          q[i].ptr = q[j].ptr
                   PROVE  i = j
      BY <2>11 DEF Distinct
    <3>2. PICK a \in 1 .. L \ {k} : q[i] = m.allocations[a]
                                    /\ a = IF i < k THEN i ELSE i + 1
      BY <2>13
    <3>3. PICK b \in 1 .. L \ {k} : q[j] = m.allocations[b]
                                    /\ b = IF j < k THEN j ELSE j + 1
      BY <2>13
    <3>4. a = b
      BY <2>2, <3>1, <3>2, <3>3
    <3> QED BY <2>1, <2>3, <3>2, <3>3, <3>4
  <2>17. Balanced(u)
    <3> DEFINE R == [i \in 0 .. L - 1 |-> IF i < k THEN S[i] ELSE S[i + 1] - z]
    <3>1. \A i \in 0 .. L - 1 : R[i] = IF i < k THEN S[i] ELSE S[i + 1] - z
      OBVIOUS
    <3>2. \A i \in 0 .. L - 1 : i < k => S[i] \in 0 .. m.allocated - z
      <4> TAKE i \in 0 .. L - 1
      <4> HAVE i < k
      <4>0. k - 1 \in 0 .. L /\ i \in 0 .. L /\ i <= k - 1 /\ k \in 0 .. L
        BY <2>1, <2>3
      <4>1. S[i] <= S[k - 1]
        BY <2>7, <4>0
      <4>2. S[k] <= m.allocated /\ S[i] \in Nat
        BY <2>1, <2>3, <2>7
      <4> QED BY <2>1, <2>4, <2>8, <4>1, <4>2
    <3>3. \A i \in 0 .. L - 1 : ~(i < k) => S[i + 1] - z \in 0 .. m.allocated - z
      <4> TAKE i \in 0 .. L - 1
      <4> HAVE ~(i < k)
      <4>0. k \in 0 .. L /\ i + 1 \in 0 .. L /\ k <= i + 1
        BY <2>5a
      <4>1. S[k] <= S[i + 1] /\ S[i + 1] \in Nat /\ S[i + 1] <= m.allocated
        BY <2>7, <2>7a, <4>0
      <4>2. z \in Nat /\ S[k - 1] \in Nat /\ S[k] = S[k - 1] + z /\ m.allocated \in Nat
        BY <2>1, <2>4, <2>8
      <4> QED BY <4>1, <4>2
    <3>4. R \in [0 .. L - 1 -> 0 .. m.allocated - z]
      BY <3>2, <3>3
    <3> HIDE DEF R
    <3>5. R[0] = 0
      <4>1. 0 \in 0 .. L - 1 /\ 0 < k
        BY <2>1, <2>3
      <4> QED BY <2>7, <3>1, <4>1
    <3>6. \A i \in 1 .. L - 1 : R[i] = R[i - 1] + q[i].size
      <4> TAKE i \in 1 .. L - 1
      <4>0. i \in 1 .. L /\ i + 1 \in 1 .. L /\ i \in 0 .. L - 1 /\ i - 1 \in 0 .. L - 1
            /\ (i + 1) - 1 = i /\ (i - 1) + 1 = i
        BY <2>1
      <4>1. CASE i < k
        <5>1. S[i] = S[i - 1] + m.allocations[i].size
          BY <2>7, <4>0
        <5>2. q[i] = m.allocations[i]
          BY <2>5, <4>1
        <5>3. i - 1 < k
          BY <2>5a, <4>1
        <5>4. R[i] = S[i] /\ R[i - 1] = S[i - 1]
          BY <3>1, <4>0, <4>1, <5>3
        <5> QED BY <5>1, <5>2, <5>4
      <4>2. CASE i = k
        <5>1. S[i + 1] = S[i] + m.allocations[i + 1].size
          BY <2>7, <4>0
        <5>0. ~(i < k) /\ i - 1 < k
          BY <2>5a, <4>2
        <5>2. /\ q[i] = m.allocations[i + 1]
              /\ R[i] = S[i + 1] - z /\ R[i - 1] = S[i - 1]
          BY <2>5, <3>1, <4>0, <5>0
        <5>3. m.allocations[i + 1].size \in Nat
          BY <2>4, <4>0
        <5> QED BY <2>4, <2>8, <4>2, <5>1, <5>2, <5>3
      <4>3. CASE i > k
        <5>1. S[i + 1] = S[i] + m.allocations[i + 1].size
          BY <2>7, <4>0
        <5>0. ~(i < k) /\ ~(i - 1 < k) /\ i \in 0 .. L
          BY <2>5a, <4>3
        <5>2. /\ q[i] = m.allocations[i + 1]
              /\ R[i] = S[i + 1] - z /\ R[i - 1] = S[i] - z
          BY <2>5, <3>1, <4>0, <5>0
        <5>3. m.allocations[i + 1].size \in Nat /\ S[i] \in Nat
          BY <2>4, <2>7a, <4>0, <5>0
        <5> QED BY <2>4, <5>1, <5>2, <5>3
      <4> QED BY <2>1, <2>3, <4>1, <4>2, <4>3
    <3>7. \A i, j \in 0 .. L - 1 : i <= j => R[i] <= R[j]
      <4>1. SUFFICES ASSUME NEW i \in 0 .. L - 1, NEW j \in 0 .. L - 1, i <= j
                     PROVE  R[i] <= R[j]
        OBVIOUS
      <4>2. CASE j < k
        <5>1. i < k /\ i \in 0 .. L /\ j \in 0 .. L
          BY <2>5a, <4>1, <4>2
        <5>2. R[i] = S[i] /\ R[j] = S[j]
          BY <3>1, <4>2, <5>1
        <5>3. S[i] <= S[j]
          BY <2>7, <4>1, <5>1
        <5> QED BY <5>2, <5>3
      <4>3. CASE i < k /\ ~(j < k)
        <5>1. R[i] = S[i] /\ R[j] = S[j + 1] - z
          BY <3>1, <4>3
        <5>0. /\ i \in 0 .. L /\ k - 1 \in 0 .. L /\ k \in 0 .. L /\ j + 1 \in 0 .. L
              /\ i <= k - 1 /\ k <= j + 1
          BY <2>5a, <4>1, <4>3
        <5>2. S[i] <= S[k - 1] /\ S[k] <= S[j + 1]
          BY <2>7, <5>0
        <5>3. S[i] \in Nat /\ S[j + 1] \in Nat
          BY <2>7a, <5>0
        <5> QED BY <2>4, <2>8, <5>1, <5>2, <5>3
      <4>4. CASE ~(i < k)
        <5>0. /\ ~(j < k) /\ i + 1 \in 0 .. L /\ j + 1 \in 0 .. L
              /\ i + 1 <= j + 1
          BY <2>5a, <4>1, <4>4
        <5>1. R[i] = S[i + 1] - z /\ R[j] = S[j + 1] - z
          BY <3>1, <4>4, <5>0
        <5>2. S[i + 1] <= S[j + 1] /\ S[i + 1] \in Nat /\ S[j + 1] \in Nat
          BY <2>7, <2>7a, <5>0
        <5> QED BY <2>4, <5>1, <5>2
      <4> QED BY <4>2, <4>3, <4>4
    <3>8. R[L - 1] = m.allocated - z
      <4>1. CASE k = L
        <5>1. L - 1 \in 0 .. L - 1 /\ L - 1 < k
          BY <2>1, <2>3, <4>1
        <5>2. R[L - 1] = S[k - 1] /\ S[k] = m.allocated
          BY <2>6, <3>1, <4>1, <5>1
        <5> QED BY <2>1, <2>4, <2>8, <5>2
      <4>2. CASE k < L
        <5>1. L - 1 \in 0 .. L - 1 /\ ~(L - 1 < k) /\ (L - 1) + 1 = L
          BY <2>1, <2>3, <4>2
        <5>2. R[L - 1] = S[L] - z
          BY <3>1, <5>1
        <5> QED BY <2>6, <5>2
      <4> QED BY <2>1, <2>3, <4>1, <4>2
    <3>9. IsRunningTotal(R, u.allocations)
      BY <2>11, <3>5, <3>6, <3>7 DEF IsRunningTotal
    <3> QED BY <2>11, <3>4, <3>8, <3>9 DEF Balanced
  <2>18. Consistent(u)
    <3>1. u.max \in Budgets
      BY <2>1, <2>11
    <3>2. u.allocated <= u.max
      <4>1. m.allocated - z <= m.allocated
        BY <2>1, <2>4
      <4>2. m.max \in Nat
        BY <2>1, WidthAssumption DEF Bytes
      <4> QED BY <2>1, <2>4, <2>11, <4>1, <4>2
    <3> QED BY <2>12, <2>16, <2>17, <3>1, <3>2 DEF Consistent
  <2> QED BY <2>1, <2>9, <2>11, <2>15, <2>18 DEF u, z, k
<1> QED BY <1>1, <1>2

-----------------------------------------------------------------------------
(* find_if finds the one entry a recorded block has. *)
LEMMA IndexOfUnique ==
  ASSUME NEW m, Consistent(m), NEW i \in DOMAIN m.allocations
  PROVE  IndexOf(m, m.allocations[i].ptr) = i
<1>1. DOMAIN m.allocations = 1 .. Len(m.allocations)
  BY DEF Consistent, Manager
<1>2. \A j \in DOMAIN m.allocations :
        m.allocations[j].ptr = m.allocations[i].ptr => i = j
  BY DEF Consistent, Distinct
<1>3. \A j \in DOMAIN m.allocations :
        m.allocations[j].ptr = m.allocations[i].ptr => i <= j
  BY <1>1, <1>2
<1> QED BY <1>2, <1>3 DEF IndexOf

(* Every recorded block has an entry. *)
LEMMA IndexOfTracked ==
  ASSUME NEW m, Consistent(m), NEW q \in Tracked(m)
  PROVE  /\ IndexOf(m, q) \in DOMAIN m.allocations
         /\ m.allocations[IndexOf(m, q)].ptr = q
<1>1. PICK i \in DOMAIN m.allocations : m.allocations[i].ptr = q
  BY DEF Tracked
<1> QED BY <1>1, IndexOfUnique

(* Recording a block leaves the entries of the others alone. *)
LEMMA TrackEntries ==
  ASSUME NEW m, Consistent(m), NEW p \in Addr, p \notin Tracked(m),
         NEW n \in 0 .. HeapMax, ~ Refuses(m, n), NEW t, t = Track(m, p, n)
  PROVE  /\ t.allocations[IndexOf(t, p)].size = n
         /\ \A q \in Tracked(m) :
              t.allocations[IndexOf(t, q)] = m.allocations[IndexOf(m, q)]
<1> DEFINE e == [ptr |-> p, size |-> n]
           E == [ptr : Addr, size : Bytes]
           L == Len(m.allocations)
<1>1. /\ m.allocations \in Seq(E) /\ L \in Nat
      /\ DOMAIN m.allocations = 1 .. L /\ m.allocated \in Nat /\ m.allocated < Width
  BY WidthAssumption DEF Consistent, Manager, Bytes
<1>2. e \in E
  <2>1. m.allocated + n < Width /\ n \in Nat
    BY GuardExact, WidthAssumption
  <2> QED BY <1>1, <2>1, WidthAssumption DEF Bytes
<1>3. Consistent(t)
  BY TrackConsistent
<1> HIDE DEF E
<1>4. /\ t.allocations = Append(m.allocations, e)
      /\ DOMAIN t.allocations = 1 .. L + 1
      /\ t.allocations[L + 1] = e
      /\ \A i \in 1 .. L : t.allocations[i] = m.allocations[i]
  <2>1. t.allocations = Append(m.allocations, e)
    BY DEF Track
  <2> HIDE DEF e
  <2> QED BY <1>1, <1>2, <2>1, AppendProperties
<1>5. L + 1 \in DOMAIN t.allocations /\ \A i \in 1 .. L : i \in DOMAIN t.allocations
  BY <1>1, <1>4
<1>6. IndexOf(t, p) = L + 1
  BY <1>3, <1>4, <1>5, IndexOfUnique
<1>7. ASSUME NEW q \in Tracked(m)
      PROVE  t.allocations[IndexOf(t, q)] = m.allocations[IndexOf(m, q)]
  <2>1. IndexOf(m, q) \in 1 .. L /\ m.allocations[IndexOf(m, q)].ptr = q
    BY <1>1, IndexOfTracked
  <2>2. IndexOf(t, q) = IndexOf(m, q)
    BY <1>3, <1>4, <1>5, <2>1, IndexOfUnique
  <2> QED BY <1>4, <2>1, <2>2
<1>8. e.size = n
  OBVIOUS
<1> QED BY <1>4, <1>6, <1>7, <1>8

(* Freeing a block leaves the entries of the others alone. *)
LEMMA UntrackEntries ==
  ASSUME NEW m, Consistent(m), NEW p, NEW u, u = Untrack(m, p),
         NEW q \in Tracked(m) \ {p}
  PROVE  u.allocations[IndexOf(u, q)] = m.allocations[IndexOf(m, q)]
<1>1. CASE p \notin Tracked(m)
  BY <1>1 DEF Untrack
<1>2. CASE p \in Tracked(m)
  <2> DEFINE E == [ptr : Addr, size : Bytes]
             L == Len(m.allocations)
             k == IndexOf(m, p)
             j == IndexOf(m, q)
  <2>1. /\ m.allocations \in Seq(E) /\ L \in Nat
        /\ DOMAIN m.allocations = 1 .. L
    BY DEF Consistent, Manager
  <2>2. k \in 1 .. L /\ m.allocations[k].ptr = p
    BY <1>2, <2>1, IndexOfTracked
  <2>3. j \in 1 .. L /\ m.allocations[j].ptr = q
    BY <2>1, IndexOfTracked
  <2>4. u.allocations = RemoveAt(m.allocations, k)
    BY <1>2 DEF Untrack
  <2> HIDE DEF E, k, j
  <2>5. /\ u.allocations \in Seq(E)
        /\ Len(u.allocations) = L - 1
        /\ \A i \in 1 .. L - 1 : u.allocations[i] =
             IF i < k THEN m.allocations[i] ELSE m.allocations[i + 1]
    <3> DEFINE s == m.allocations
    <3>1. s \in Seq(E) /\ k \in 1 .. Len(s)
      BY <2>1, <2>2
    <3> HIDE DEF s
    <3>2. /\ RemoveAt(s, k) \in Seq(E)
          /\ Len(RemoveAt(s, k)) = Len(s) - 1
          /\ \A i \in 1 .. Len(s) - 1 :
               RemoveAt(s, k)[i] = IF i < k THEN s[i] ELSE s[i + 1]
      BY <3>1, RemoveAtFacts
    <3> QED BY <2>4, <3>2 DEF s
  <2>6. DOMAIN u.allocations = 1 .. L - 1
    BY <2>5
  <2>7. Consistent(u)
    BY UntrackConsistent
  <2>8. PICK i \in 1 .. L - 1 : u.allocations[i] = m.allocations[j]
    <3>1. j # k
      BY <2>2, <2>3
    <3>2. CASE j < k
      <4>1. j \in 1 .. L - 1 /\ u.allocations[j] = m.allocations[j]
        BY <2>1, <2>2, <2>3, <2>5, <3>2
      <4> QED BY <4>1
    <3>3. CASE j > k
      <4>1. j - 1 \in 1 .. L - 1 /\ ~(j - 1 < k) /\ (j - 1) + 1 = j
        BY <2>1, <2>2, <2>3, <3>3
      <4>2. u.allocations[j - 1] = m.allocations[j]
        BY <2>5, <4>1
      <4> QED BY <4>1, <4>2
    <3> QED BY <2>2, <2>3, <3>1, <3>2, <3>3
  <2>9. IndexOf(u, q) = i
    BY <2>3, <2>6, <2>7, <2>8, IndexOfUnique
  <2> QED BY <2>8, <2>9 DEF j
<1> QED BY <1>1, <1>2

(* A manager with no block on record has charged nothing. *)
LEMMA EmptyIsUncharged ==
  ASSUME NEW m, Consistent(m), Tracked(m) = {}
  PROVE  m.allocated = 0
<1>1. m.allocations \in Seq([ptr : Addr, size : Bytes])
  BY DEF Consistent, Manager
<1>2. DOMAIN m.allocations = 1 .. Len(m.allocations) /\ Len(m.allocations) \in Nat
  BY <1>1
<1>3. DOMAIN m.allocations = {}
  BY DEF Tracked
<1>4. Len(m.allocations) = 0
  <2>1. \A n \in Nat : 1 .. n = {} => n = 0
    <3>1. SUFFICES ASSUME NEW n \in Nat, n # 0
                   PROVE  1 .. n # {}
      OBVIOUS
    <3>2. 1 \in 1 .. n
      BY <3>1
    <3> QED BY <3>2
  <2> QED BY <1>2, <1>3, <2>1
<1> QED BY <1>4 DEF Consistent, Balanced, IsRunningTotal
=============================================================================
