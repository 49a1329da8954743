------------------------- MODULE MemoryManagerProofs -------------------------
(***************************************************************************)
(* MemoryManager keeps its books for every word width, heap bound, set of  *)
(* budgets, sizes and addresses, and any depth of nested callbacks.        *)
(*                                                                         *)
(* The inductive invariant is the conjunction of the invariants the runs   *)
(* check.  LedgerSound needs HoldersAreBacked (a fresh address is not on   *)
(* record because every recorded block is live), and HoldersAreBacked      *)
(* needs LedgerSound (freeing p removes p and nothing else because no      *)
(* block is recorded twice).                                               *)
(***************************************************************************)
EXTENDS MemoryManager, HeapManagerProofs

IInv == TypeOK /\ LedgerSound /\ HoldersAreBacked /\ LossNeedsFault

(* calculate_pressure always returns one of the four levels. *)
LEMMA PressureIsLevel ==
  ASSUME NEW m
  PROVE  Pressure(m) \in Levels
BY DEF Pressure, Levels

(* The three facts of an inductive invariant: it holds initially, every    *)
(* step keeps it, it implies the properties.                               *)
LEMMA InitIInv == Init => IInv
<1> SUFFICES ASSUME Init PROVE IInv
  OBVIOUS
<1>1. PICK b \in Budgets : mgr = NewManager(b)
  BY DEF Init
<1>2. Consistent(mgr) /\ Tracked(mgr) = {}
  BY <1>1, NewManagerConsistent
<1>3. Pending = {} /\ DOMAIN stack = {}
  BY DEF Init, Pending
<1>4. TypeOK
  <2>1. stack \in Seq(Addr \cup {NULL})
    BY DEF Init
  <2> QED BY <1>2, <2>1 DEF TypeOK, Init, Consistent, Levels
<1>5. LedgerSound /\ HoldersAreBacked /\ LossNeedsFault
  BY <1>2, <1>3 DEF Init, LedgerSound, HoldersAreBacked, LossNeedsFault
<1> QED BY <1>4, <1>5 DEF IInv

(* A block that is new on the heap, recorded and charged. *)
LEMMA AllocateIInv ==
  ASSUME IInv, NEW n \in Sizes, Allocate(n)
  PROVE  IInv'
<1>1. PICK p \in Addr \ heap :
        /\ heap' = heap \cup {p}
        /\ mgr' = Track(mgr, p, n)
        /\ IF hooked
           THEN told' = Pressure(mgr') /\ stack' = Append(stack, p) /\ owned' = owned
           ELSE owned' = owned \cup {p} /\ told' = told /\ stack' = stack
  BY DEF Allocate
<1>2. n \in Nat /\ n \in 0 .. HeapMax /\ ~ Refuses(mgr, n)
  BY SizesAssumption, WidthAssumption DEF Allocate
<1>3. p \notin Tracked(mgr) /\ p \notin owned /\ p \notin Pending /\ p # NULL
  BY NullAssumption DEF IInv, HoldersAreBacked
<1>4. Consistent(mgr') /\ Tracked(mgr') = Tracked(mgr) \cup {p}
  BY <1>1, <1>2, <1>3, TrackConsistent DEF IInv, LedgerSound
<1>5. stack' \in Seq(Addr \cup {NULL})
  BY <1>1, PushFacts DEF IInv, TypeOK
<1>6. TypeOK'
  <2>1. told' \in Levels \cup {"none"}
    BY <1>1, PressureIsLevel DEF IInv, TypeOK
  <2>2. answer' \in [amount : Sizes \cup {0},
                     result : {"none", "reserved", "refused", "failed"}]
    BY DEF Allocate
  <2> QED BY <1>1, <1>4, <1>5, <2>1, <2>2 DEF IInv, TypeOK, Allocate, Consistent
<1>7. /\ Pending' \cup owned' = Pending \cup owned \cup {p}
      /\ Pending' \cap owned' = {}
      /\ \A i, j \in DOMAIN stack' :
           stack'[i] = stack'[j] /\ stack'[i] # NULL => i = j
  <2>1. CASE hooked
    <3>1. stack' = Append(stack, p) /\ owned' = owned /\ stack \in Seq(Addr \cup {NULL})
      BY <1>1, <2>1 DEF IInv, TypeOK
    <3>2. /\ stack'[Len(stack) + 1] = p
          /\ \A i \in 1 .. Len(stack) : stack'[i] = stack[i]
          /\ DOMAIN stack' = 1 .. Len(stack) + 1
          /\ DOMAIN stack = 1 .. Len(stack) /\ Len(stack) \in Nat
      BY <3>1, PushFacts
    <3>3. Pending' = Pending \cup {p}
      BY <1>3, <3>2 DEF Pending
    <3>4. \A i \in 1 .. Len(stack) : stack[i] # p
      BY <1>3, <3>2 DEF Pending
    <3>5. \A i \in 1 .. Len(stack) + 1 : i \in 1 .. Len(stack) \/ i = Len(stack) + 1
      BY <3>2
    <3>6. \A i, j \in DOMAIN stack' :
            stack'[i] = stack'[j] /\ stack'[i] # NULL => i = j
      BY <3>2, <3>4, <3>5 DEF IInv, HoldersAreBacked
    <3> QED BY <1>3, <3>1, <3>3, <3>6 DEF IInv, HoldersAreBacked
  <2>2. CASE ~ hooked
    <3>1. stack' = stack /\ owned' = owned \cup {p} /\ Pending' = Pending
      BY <1>1, <2>2 DEF Pending
    <3> QED BY <1>3, <3>1 DEF IInv, HoldersAreBacked
  <2> QED BY <2>1, <2>2
<1>8. HoldersAreBacked'
  BY <1>1, <1>4, <1>7 DEF IInv, HoldersAreBacked
<1>9. LossNeedsFault'
  BY <1>1, <1>4, <1>7 DEF IInv, LossNeedsFault, Allocate
<1> QED BY <1>4, <1>6, <1>8, <1>9 DEF IInv, LedgerSound

(* A block given back by its owner. *)
LEMMA DeallocateIInv ==
  ASSUME IInv, NEW p \in Addr, Deallocate(p)
  PROVE  IInv'
<1>1. /\ p \in owned /\ mgr' = Untrack(mgr, p) /\ heap' = heap \ {p}
      /\ owned' = owned \ {p} /\ p # NULL /\ p \notin Pending
  BY NullAssumption DEF Deallocate, IInv, HoldersAreBacked
<1>2. Consistent(mgr') /\ Tracked(mgr') = Tracked(mgr) \ {p}
  BY <1>1, UntrackConsistent DEF IInv, LedgerSound
<1>3. stack' = stack \/ stack' = Append(stack, NULL)
  BY DEF Deallocate
<1>4. /\ stack' \in Seq(Addr \cup {NULL})
      /\ Pending' = Pending
      /\ \A i, j \in DOMAIN stack' :
           stack'[i] = stack'[j] /\ stack'[i] # NULL => i = j
  <2>1. CASE stack' = stack
    BY <2>1 DEF IInv, TypeOK, HoldersAreBacked, Pending
  <2>2. CASE stack' = Append(stack, NULL)
    <3>1. /\ stack' \in Seq(Addr \cup {NULL})
          /\ stack'[Len(stack) + 1] = NULL
          /\ \A i \in 1 .. Len(stack) : stack'[i] = stack[i]
          /\ DOMAIN stack' = 1 .. Len(stack) + 1
          /\ DOMAIN stack = 1 .. Len(stack) /\ Len(stack) \in Nat
      <4>1. stack \in Seq(Addr \cup {NULL}) /\ NULL \in Addr \cup {NULL}
        BY DEF IInv, TypeOK
      <4> QED BY <2>2, <4>1, PushFacts
    <3>2. \A i \in 1 .. Len(stack) + 1 : i \in 1 .. Len(stack) \/ i = Len(stack) + 1
      BY <3>1
    <3>3. \A i \in 1 .. Len(stack) : i \in 1 .. Len(stack) + 1
      BY <3>1
    <3>4. Pending' = Pending
      BY <3>1, <3>2, <3>3 DEF Pending
    <3>5. \A i, j \in DOMAIN stack' :
            stack'[i] = stack'[j] /\ stack'[i] # NULL => i = j
      BY <3>1, <3>2 DEF IInv, HoldersAreBacked
    <3> QED BY <3>1, <3>4, <3>5
  <2> QED BY <1>3, <2>1, <2>2
<1>5. TypeOK'
  <2>1. told' \in Levels \cup {"none"}
    BY PressureIsLevel DEF IInv, TypeOK, Deallocate
  <2> QED BY <1>1, <1>2, <1>4, <2>1 DEF IInv, TypeOK, Deallocate, Consistent
<1>6. HoldersAreBacked'
  BY <1>1, <1>2, <1>4 DEF IInv, HoldersAreBacked
<1>7. LossNeedsFault'
  BY <1>1, <1>2, <1>4 DEF IInv, LossNeedsFault, Deallocate
<1> QED BY <1>2, <1>5, <1>6, <1>7 DEF IInv, LedgerSound

(* The innermost callback ends, by returning or by throwing. *)
LEMMA CallbackEndsIInv ==
  ASSUME IInv, CallbackReturns \/ CallbackThrows
  PROVE  IInv'
<1> DEFINE top == Last(stack)
<1>1. /\ stack # << >> /\ stack \in Seq(Addr \cup {NULL}) /\ stack' = Front(stack)
      /\ mgr' = mgr /\ heap' = heap
  BY DEF IInv, TypeOK, CallbackReturns, CallbackThrows
<1>2. /\ stack' \in Seq(Addr \cup {NULL})
      /\ DOMAIN stack' = 1 .. Len(stack) - 1 /\ DOMAIN stack = 1 .. Len(stack)
      /\ Len(stack) \in Nat \ {0}
      /\ \A i \in 1 .. Len(stack) - 1 : stack'[i] = stack[i]
      /\ top = stack[Len(stack)] /\ top \in Addr \cup {NULL}
  BY <1>1, PopFacts
<1>3. /\ \A i \in 1 .. Len(stack) - 1 : i \in 1 .. Len(stack) /\ i # Len(stack)
      /\ \A i \in 1 .. Len(stack) : i \in 1 .. Len(stack) - 1 \/ i = Len(stack)
      /\ Len(stack) \in 1 .. Len(stack)
  <2>1. \A k \in Nat \ {0} :
          /\ \A i \in 1 .. k - 1 : i \in 1 .. k /\ i # k
          /\ \A i \in 1 .. k : i \in 1 .. k - 1 \/ i = k
          /\ k \in 1 .. k
    OBVIOUS
  <2> QED BY <1>2, <2>1
<1>4. \A i, j \in 1 .. Len(stack) : stack[i] = stack[j] /\ stack[i] # NULL => i = j
  BY <1>2 DEF IInv, HoldersAreBacked
<1> HIDE DEF top
<1>5. Pending' = Pending \ {top}
  <2>1. \A i \in 1 .. Len(stack) - 1 : stack[i] # NULL => stack[i] # top
    BY <1>2, <1>3, <1>4
  <2> QED BY <1>2, <1>3, <2>1 DEF Pending
<1>6. top # NULL => top \in Pending
  BY <1>2, <1>3 DEF Pending
<1>7. \A i, j \in DOMAIN stack' :
        stack'[i] = stack'[j] /\ stack'[i] # NULL => i = j
  BY <1>2, <1>3, <1>4
<1>8. owned' = owned \cup ({top} \ {NULL}) \/ owned' = owned
  BY DEF CallbackReturns, CallbackThrows, top
<1>9. TypeOK'
  BY <1>1, <1>2, <1>8 DEF IInv, TypeOK, CallbackReturns, CallbackThrows
<1>10. HoldersAreBacked'
  BY <1>1, <1>5, <1>6, <1>7, <1>8 DEF IInv, HoldersAreBacked
<1>11. LossNeedsFault'
  <2>1. CASE CallbackReturns
    <3>1. owned' = owned \cup ({top} \ {NULL}) /\ faults' = faults
      BY <2>1 DEF CallbackReturns, top
    <3>2. NULL \notin Pending
      BY DEF Pending
    <3>3. owned' \cup Pending' = owned \cup Pending
      BY <1>5, <1>6, <3>1, <3>2
    <3> QED BY <1>1, <3>1, <3>3 DEF IInv, LossNeedsFault
  <2>2. CASE CallbackThrows
    <3>1. CASE top = NULL
      <4>1. Pending' = Pending /\ owned' = owned /\ faults' = faults
        BY <1>5, <2>2, <3>1 DEF Pending, CallbackThrows, top
      <4> QED BY <1>1, <4>1 DEF IInv, LossNeedsFault
    <3>2. CASE top # NULL
      <4>1. faults' = faults \cup {"callback"}
        BY <2>2, <3>2 DEF CallbackThrows, top
      <4> QED BY <1>1, <4>1 DEF IInv, LossNeedsFault
    <3> QED BY <3>1, <3>2
  <2> QED BY <2>1, <2>2
<1>12. LedgerSound'
  BY <1>1 DEF IInv, LedgerSound
<1> QED BY <1>9, <1>10, <1>11, <1>12 DEF IInv

(* Every step keeps the invariant. *)
LEMMA NextIInv == IInv /\ [Next]_vars => IInv'
<1> SUFFICES ASSUME IInv, [Next]_vars PROVE IInv'
  OBVIOUS
<1>1. CASE Register
  BY <1>1 DEF IInv, TypeOK, LedgerSound, HoldersAreBacked, LossNeedsFault,
              Pending, Register
<1>2. ASSUME NEW n \in Sizes, AllocateRefused(n) \/ NewThrows(n)
      PROVE  IInv'
  <2>1. answer' \in [amount : Sizes \cup {0},
                     result : {"none", "reserved", "refused", "failed"}]
    BY <1>2 DEF AllocateRefused, NewThrows
  <2>2. UNCHANGED << mgr, hooked, heap, stack, owned, told, faults >>
    BY <1>2 DEF AllocateRefused, NewThrows
  <2> QED BY <2>1, <2>2 DEF IInv, TypeOK, LedgerSound, HoldersAreBacked,
                            LossNeedsFault, Pending
<1>3. ASSUME NEW n \in Sizes, PushBackThrows(n)
      PROVE  IInv'
  <2>1. answer' \in [amount : Sizes \cup {0},
                     result : {"none", "reserved", "refused", "failed"}]
    BY <1>3 DEF PushBackThrows
  <2>2. PICK p \in Addr \ heap : heap' = heap \cup {p}
    BY <1>3 DEF PushBackThrows
  <2>3. /\ faults' = faults \cup {"push_back"}
        /\ UNCHANGED << mgr, hooked, stack, owned, told >>
    BY <1>3 DEF PushBackThrows
  <2> QED BY <2>1, <2>2, <2>3 DEF IInv, TypeOK, LedgerSound, HoldersAreBacked,
                                  LossNeedsFault, Pending
<1>4. ASSUME NEW n \in Sizes, Allocate(n)
      PROVE  IInv'
  BY <1>4, AllocateIInv
<1>5. ASSUME NEW p \in Addr, Deallocate(p)
      PROVE  IInv'
  BY <1>5, DeallocateIInv
<1>6. CASE CallbackReturns \/ CallbackThrows
  BY <1>6, CallbackEndsIInv
<1>7. CASE UNCHANGED vars
  BY <1>7 DEF IInv, TypeOK, LedgerSound, HoldersAreBacked, LossNeedsFault,
              Pending, vars
<1> QED BY <1>1, <1>2, <1>3, <1>4, <1>5, <1>6, <1>7 DEF Next, EvictOrCompress

-----------------------------------------------------------------------------
(* The invariant holds in every reachable state. *)
LEMMA SpecIInv == Spec => []IInv
<1>1. Init => IInv
  BY InitIInv
<1>2. IInv /\ [Next]_vars => IInv'
  BY NextIInv
<1> QED BY <1>1, <1>2, PTL DEF Spec

(* Type correctness of the manager's state machine. *)
THEOREM TypeCorrect == Spec => []TypeOK
<1>1. IInv => TypeOK
  BY DEF IInv
<1> QED BY <1>1, SpecIInv, PTL

(* In every reachable state the byte counter is the sum of the recorded    *)
(* sizes and within the budget, and no block is recorded twice: although   *)
(* the guard of allocate_weights adds in uint64_t, its wrap-around never   *)
(* corrupts the books.                                                     *)
THEOREM LedgerIsSound == Spec => []LedgerSound
<1>1. IInv => LedgerSound
  BY DEF IInv
<1> QED BY <1>1, SpecIInv, PTL

(* Every pointer a caller holds or is about to receive is live, charged,   *)
(* and held once, however deep the callbacks nest.                         *)
THEOREM HoldersBacked == Spec => []HoldersAreBacked
<1>1. IInv => HoldersAreBacked
  BY DEF IInv
<1> QED BY <1>1, SpecIInv, PTL

(* Only a failed push_back or a throwing callback loses memory. *)
THEOREM LossNeedsAFault == Spec => []LossNeedsFault
<1>1. IInv => LossNeedsFault
  BY DEF IInv
<1> QED BY <1>1, SpecIInv, PTL

-----------------------------------------------------------------------------
(* The level a callback heard last.  Without a callback nothing was heard. *)
ToldInv == ToldIsCurrent /\ (~ hooked => told = "none")

(* A callback is always told the level its own call has produced.          *)
LEMMA NextToldInv == ToldInv /\ [Next]_vars => ToldInv'
<1> SUFFICES ASSUME ToldInv, [Next]_vars PROVE ToldInv'
  OBVIOUS
<1> USE DEF ToldInv, ToldIsCurrent
<1>1. CASE Register
  BY <1>1 DEF Register
<1>2. ASSUME NEW n \in Sizes, AllocateRefused(n) \/ NewThrows(n) \/ PushBackThrows(n)
      PROVE  ToldInv'
  BY <1>2 DEF AllocateRefused, NewThrows, PushBackThrows
<1>3. ASSUME NEW n \in Sizes, Allocate(n)
      PROVE  ToldInv'
  <2>1. hooked' = hooked /\ (hooked => told' = Pressure(mgr'))
        /\ (~ hooked => told' = told)
    BY <1>3 DEF Allocate
  <2> QED BY <2>1
<1>4. ASSUME NEW p \in Addr, Deallocate(p)
      PROVE  ToldInv'
  <2>1. hooked' = hooked /\ (hooked => told' = Pressure(mgr'))
        /\ (~ hooked => told' = told)
    BY <1>4 DEF Deallocate
  <2> QED BY <2>1
<1>5. CASE CallbackReturns \/ CallbackThrows
  BY <1>5 DEF CallbackReturns, CallbackThrows
<1>6. CASE UNCHANGED vars
  BY <1>6 DEF vars
<1> QED BY <1>1, <1>2, <1>3, <1>4, <1>5, <1>6 DEF Next, EvictOrCompress

(* The last level delivered is the current one, also when the callback     *)
(* itself called the manager and was notified again in the middle.         *)
THEOREM ToldCurrent == Spec => []ToldIsCurrent
<1>1. Init => ToldInv
  BY DEF Init, ToldInv, ToldIsCurrent
<1>2. ToldInv => ToldIsCurrent
  BY DEF ToldInv
<1> QED BY <1>1, <1>2, NextToldInv, PTL DEF Spec

-----------------------------------------------------------------------------
(* What one step does to the record: nothing, one entry more, or one entry *)
(* less, which was its owner's.                                            *)
LEMMA StepOnRecord ==
  ASSUME IInv, [Next]_vars
  PROVE  \/ mgr' = mgr
         \/ \E n \in Sizes, p \in Addr :
              /\ n \in 0 .. HeapMax /\ ~ Refuses(mgr, n)
              /\ p \notin Tracked(mgr) /\ mgr' = Track(mgr, p, n)
              /\ answer' = [amount |-> n, result |-> "reserved"]
         \/ \E p \in owned :
              /\ mgr' = Untrack(mgr, p) /\ heap' = heap \ {p}
              /\ p \in Tracked(mgr) /\ UNCHANGED answer
<1>1. CASE Register \/ CallbackReturns \/ CallbackThrows \/ UNCHANGED vars
  BY <1>1 DEF Register, CallbackReturns, CallbackThrows, vars
<1>2. ASSUME NEW n \in Sizes, AllocateRefused(n) \/ NewThrows(n) \/ PushBackThrows(n)
      PROVE  mgr' = mgr
  BY <1>2 DEF AllocateRefused, NewThrows, PushBackThrows
<1>3. ASSUME NEW n \in Sizes, Allocate(n)
      PROVE  \E p \in Addr :
               /\ n \in 0 .. HeapMax /\ ~ Refuses(mgr, n)
               /\ p \notin Tracked(mgr) /\ mgr' = Track(mgr, p, n)
               /\ answer' = [amount |-> n, result |-> "reserved"]
  <2>1. PICK p \in Addr \ heap : mgr' = Track(mgr, p, n)
    BY <1>3 DEF Allocate
  <2>2. p \notin Tracked(mgr)
    BY DEF IInv, HoldersAreBacked
  <2>3. n \in 0 .. HeapMax
    BY <1>3, SizesAssumption, WidthAssumption DEF Allocate
  <2> QED BY <1>3, <2>1, <2>2, <2>3 DEF Allocate
<1>4. ASSUME NEW p \in Addr, Deallocate(p)
      PROVE  /\ p \in owned /\ mgr' = Untrack(mgr, p) /\ heap' = heap \ {p}
             /\ p \in Tracked(mgr) /\ UNCHANGED answer
  BY <1>4 DEF Deallocate, IInv, HoldersAreBacked
<1> QED BY <1>1, <1>2, <1>3, <1>4 DEF Next, EvictOrCompress

(* No step changes or drops the entry of a block whose owner has not freed *)
(* it: vector::erase takes out the right element.                          *)
THEOREM OwnersFree == Spec => OnlyOwnersFree
<1> DEFINE Safe ==
      \A p \in Tracked(mgr) :
        IF p \in Tracked(mgr')
        THEN mgr'.allocations[IndexOf(mgr', p)] = mgr.allocations[IndexOf(mgr, p)]
        ELSE p \in owned \ heap'
<1>1. ASSUME IInv, [Next]_vars
      PROVE  Safe
  <2>1. CASE mgr' = mgr
    BY <2>1
  <2>2. ASSUME NEW n \in Sizes, NEW q \in Addr, n \in 0 .. HeapMax,
               ~ Refuses(mgr, n), q \notin Tracked(mgr), mgr' = Track(mgr, q, n)
        PROVE  Safe
    <3>1. Consistent(mgr)
      BY <1>1 DEF IInv, LedgerSound
    <3>2. Tracked(mgr') = Tracked(mgr) \cup {q}
      BY <2>2, <3>1, TrackConsistent
    <3>3. \A p \in Tracked(mgr) :
            mgr'.allocations[IndexOf(mgr', p)] = mgr.allocations[IndexOf(mgr, p)]
      BY <2>2, <3>1, TrackEntries
    <3> QED BY <3>2, <3>3
  <2>3. ASSUME NEW q \in owned, mgr' = Untrack(mgr, q), heap' = heap \ {q}
        PROVE  Safe
    <3>1. Consistent(mgr)
      BY <1>1 DEF IInv, LedgerSound
    <3>2. Tracked(mgr') = Tracked(mgr) \ {q}
      BY <2>3, <3>1, UntrackConsistent
    <3>3. \A p \in Tracked(mgr) \ {q} :
            mgr'.allocations[IndexOf(mgr', p)] = mgr.allocations[IndexOf(mgr, p)]
      BY <2>3, <3>1, UntrackEntries
    <3> QED BY <2>3, <3>2, <3>3
  <2> QED BY <1>1, <2>1, <2>2, <2>3, StepOnRecord
<1>2. IInv /\ [Next]_vars => [Safe]_vars
  BY <1>1
<1>3. Spec => []IInv
  BY SpecIInv
<1> QED BY <1>2, <1>3, PTL DEF Spec, OnlyOwnersFree

-----------------------------------------------------------------------------
(* The initial states of the manager are initial states of the ledger.     *)
LEMMA LedgerInit == Init => Ledger!Init
<1> SUFFICES ASSUME Init PROVE Ledger!Init
  OBVIOUS
<1>1. PICK b \in Budgets : mgr = NewManager(b)
  BY DEF Init
<1>2. Tracked(mgr) = {}
  BY <1>1, NewManagerConsistent
<1>3. mgr.max - mgr.allocated = b
  BY <1>1, WidthAssumption DEF NewManager
<1> QED BY <1>2, <1>3 DEF Init, Ledger!Init

(* Every step of the manager is a step of the ledger or leaves it alone.   *)
LEMMA LedgerStep == IInv /\ [Next]_vars => [Ledger!Next]_(Ledger!vars)
<1> SUFFICES ASSUME IInv, [Next]_vars
             PROVE  [Ledger!Next]_(Ledger!vars)
  OBVIOUS
<1> DEFINE SizeOf(m) == [p \in Tracked(m) |-> m.allocations[IndexOf(m, p)].size]
<1>0. /\ Consistent(mgr) /\ mgr.max \in Nat /\ mgr.allocated \in Nat
      /\ mgr.allocated <= mgr.max /\ mgr.max < Width /\ Width \in Nat
  <2>1. Consistent(mgr)
    BY DEF IInv, LedgerSound
  <2> QED BY <2>1, WidthAssumption DEF Consistent, Manager, Bytes
<1>1. CASE Register \/ CallbackReturns \/ CallbackThrows \/ UNCHANGED vars
  BY <1>1 DEF Register, CallbackReturns, CallbackThrows, vars, Ledger!vars
<1>2. ASSUME NEW n \in Sizes, AllocateRefused(n)
      PROVE  Ledger!Next
  <2>1. n > mgr.max - mgr.allocated
    <3>1. n \in Nat /\ Plus(mgr.allocated, n) > mgr.max
      BY <1>2, SizesAssumption DEF AllocateRefused, Refuses
    <3>2. CASE mgr.allocated + n < Width
      BY <1>0, <3>1, <3>2, PlusSmall
    <3>3. CASE ~(mgr.allocated + n < Width)
      BY <1>0, <3>1, <3>3
    <3> QED BY <3>2, <3>3
  <2>2. Ledger!Refuse(n)
    BY <1>2, <2>1 DEF AllocateRefused, Ledger!Refuse
  <2> QED BY <2>2 DEF Ledger!Next
<1>3. ASSUME NEW n \in Sizes, NewThrows(n) \/ PushBackThrows(n)
      PROVE  Ledger!Next
  <2>1. Ledger!Fail(n)
    BY <1>3 DEF NewThrows, PushBackThrows, Ledger!Fail
  <2> QED BY <2>1 DEF Ledger!Next
<1>4. ASSUME NEW n \in Sizes, Allocate(n)
      PROVE  Ledger!Next
  <2>1. PICK p \in Addr \ heap : mgr' = Track(mgr, p, n)
    BY <1>4 DEF Allocate
  <2>2. p \in Addr /\ p \notin Tracked(mgr)
    BY DEF IInv, HoldersAreBacked
  <2>3. n \in 0 .. HeapMax /\ n \in Nat /\ ~ Refuses(mgr, n)
    BY <1>4, SizesAssumption, WidthAssumption DEF Allocate
  <2>4. /\ Tracked(mgr') = Tracked(mgr) \cup {p}
        /\ mgr'.allocated = mgr.allocated + n
        /\ mgr'.max = mgr.max
    BY <1>0, <2>1, <2>2, <2>3, TrackConsistent
  <2>5. n <= mgr.max - mgr.allocated
    BY <1>0, <2>3, GuardExact
  <2>6. /\ mgr'.allocations[IndexOf(mgr', p)].size = n
        /\ \A q \in Tracked(mgr) :
             mgr'.allocations[IndexOf(mgr', q)] = mgr.allocations[IndexOf(mgr, q)]
    BY <1>0, <2>1, <2>2, <2>3, TrackEntries
  <2>7. SizeOf(mgr') = [g \in Tracked(mgr) \cup {p} |->
                          IF g = p THEN n ELSE SizeOf(mgr)[g]]
    BY <2>2, <2>4, <2>6
  <2>8. mgr'.max - mgr'.allocated = (mgr.max - mgr.allocated) - n
    BY <1>0, <2>3, <2>4
  <2>9. answer' = [amount |-> n, result |-> "reserved"]
    BY <1>4 DEF Allocate
  <2>10. Ledger!Reserve(p, n)
    BY <2>2, <2>5, <2>7, <2>8, <2>9 DEF Ledger!Reserve
  <2> QED BY <2>2, <2>10 DEF Ledger!Next
<1>5. ASSUME NEW p \in Addr, Deallocate(p)
      PROVE  Ledger!Next
  <2>1. p \in Tracked(mgr) /\ mgr' = Untrack(mgr, p) /\ answer' = answer
    BY <1>5 DEF Deallocate, IInv, HoldersAreBacked
  <2>2. /\ Tracked(mgr') = Tracked(mgr) \ {p}
        /\ mgr'.max = mgr.max
        /\ mgr'.allocated = mgr.allocated - mgr.allocations[IndexOf(mgr, p)].size
    BY <1>0, <2>1, UntrackConsistent
  <2>3. \A q \in Tracked(mgr) \ {p} :
          mgr'.allocations[IndexOf(mgr', q)] = mgr.allocations[IndexOf(mgr, q)]
    BY <1>0, <2>1, UntrackEntries
  <2>4. mgr.allocations[IndexOf(mgr, p)].size \in Int
    <3> DEFINE E == [ptr : Addr, size : Bytes]
    <3>1. IndexOf(mgr, p) \in DOMAIN mgr.allocations
      BY <1>0, <2>1, IndexOfTracked
    <3>2. mgr.allocations \in Seq(E)
      BY <1>0 DEF Consistent, Manager
    <3> HIDE DEF E
    <3>3. IndexOf(mgr, p) \in 1 .. Len(mgr.allocations)
      BY <3>1, <3>2
    <3>4. mgr.allocations[IndexOf(mgr, p)] \in E
      BY <3>2, <3>3, ElementOfSeq
    <3> QED BY <3>4, WidthAssumption DEF E, Bytes
  <2>5. SizeOf(mgr') = [g \in Tracked(mgr) \ {p} |-> SizeOf(mgr)[g]]
    BY <2>2, <2>3
  <2>6. mgr'.max - mgr'.allocated = (mgr.max - mgr.allocated) + SizeOf(mgr)[p]
    BY <1>0, <2>1, <2>2, <2>4
  <2>7. Ledger!Release(p)
    BY <2>1, <2>5, <2>6 DEF Ledger!Release
  <2> QED BY <2>7 DEF Ledger!Next
<1> QED BY <1>1, <1>2, <1>3, <1>4, <1>5 DEF Next, EvictOrCompress

(* The manager implements the ledger: it reserves exactly what the free    *)
(* bytes cover and gives back exactly what was reserved.                   *)
THEOREM RefinesLedger == Spec => ImplementsLedger
<1>1. Init => Ledger!Init
  BY LedgerInit
<1>2. IInv /\ [Next]_vars => [Ledger!Next]_(Ledger!vars)
  BY LedgerStep
<1>3. Spec => []IInv
  BY SpecIInv
<1> QED BY <1>1, <1>2, <1>3, PTL DEF Spec, ImplementsLedger, Ledger!Spec
=============================================================================
