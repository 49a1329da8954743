---------------------------- MODULE RuntimeProofs ----------------------------
(***************************************************************************)
(* Runtime's memory safety for every set of machines, tier sizes, word     *)
(* width and heap bound, whatever on_token does and whatever fails.        *)
(*                                                                         *)
(* NothingLost and ServingHoldsAll need to know what a loading call holds  *)
(* before each statement (LoadInv) and that all calls but the innermost    *)
(* are inside on_token (StackInv); NoDangling needs that a fresh address   *)
(* is neither held nor on record, which is NoDangling itself; the books    *)
(* are HeapManager's Consistent, kept by its lemmas (ManagerInv).          *)
(***************************************************************************)
EXTENDS Runtime, HeapManagerProofs

Pcs == Loading \cup Tokens \cup {"unload"}

(* The pcs of the loading statements are not on_token's. *)
LEMMA PcFacts ==
  /\ \A pc \in Tokens : pc \notin {"weights", "kv", "create", "init", "unload"}
  /\ \A pc \in Tokens \cup {"weights", "kv", "create", "init", "unload"} : pc \in Pcs
BY DEF Tokens, Loading, Pcs

(* No manager is the null pointer. *)
LEMMA ManagerNotNull ==
  ASSUME NEW m, Consistent(m)
  PROVE  m # NULL
BY NullPointerAssumption DEF Consistent

(* The innermost call moves on to another statement. *)
LEMMA GotoStack ==
  ASSUME stack \in Seq(Frame), stack # << >>, NEW pc \in Pcs, Goto(pc)
  PROVE  /\ stack' \in Seq(Frame) /\ stack' # << >>
         /\ Len(stack') = Len(stack)
         /\ Last(stack').pc = pc
         /\ Last(stack').on_token = Last(stack).on_token
         /\ \A i \in 1 .. Len(stack) - 1 : stack'[i] = stack[i]
<1> DEFINE L == Len(stack)
           f == [stack[L] EXCEPT !.pc = pc]
<1>1. L \in Nat \ {0} /\ DOMAIN stack = 1 .. L /\ L \in 1 .. L
  BY EmptySeq
<1>2. stack[L] \in Frame
  BY <1>1, ElementOfSeq
<1>3. f \in Frame /\ f.pc = pc /\ f.on_token = stack[L].on_token
  BY <1>2 DEF Frame, Pcs
<1>4. stack' = [stack EXCEPT ![L] = f]
  BY DEF Goto
<1> HIDE DEF f
<1>5. /\ stack' \in Seq(Frame) /\ Len(stack') = L
      /\ stack'[L] = f
      /\ \A i \in 1 .. L - 1 : stack'[i] = stack[i]
  <2>1. \A j \in 1 .. L : stack'[j] = IF L = j THEN f ELSE stack[j]
    BY <1>1, <1>3, <1>4, ExceptSeq
  <2>2. stack' \in Seq(Frame) /\ Len(stack') = L
    BY <1>1, <1>3, <1>4, ExceptSeq
  <2>3. \A j \in 1 .. L - 1 : j \in 1 .. L /\ L # j
    <3>1. \A k \in Nat : \A j \in 1 .. k - 1 : j \in 1 .. k /\ k # j
      OBVIOUS
    <3> QED BY <1>1, <3>1
  <2> QED BY <1>1, <2>1, <2>2, <2>3
<1>6. stack' # << >>
  BY <1>1, <1>5
<1>7. Last(stack') = f /\ Last(stack) = stack[L]
  BY <1>5 DEF Last
<1> QED BY <1>3, <1>5, <1>6, <1>7

(* The innermost call ends; the one below it, if any, is inside on_token.  *)
LEMMA ReturnStack ==
  ASSUME TypeOK, StackInv, stack # << >>, stack' = Front(stack), upset \subseteq upset'
  PROVE  /\ stack' \in Seq(Frame)
         /\ StackInv'
         /\ stack' # << >> => Last(stack').pc \in Tokens
         /\ "reentry" \notin upset' => stack' = << >>
<1> DEFINE L == Len(stack)
<1>1. /\ stack' \in Seq(Frame)
      /\ L \in Nat \ {0} /\ Len(stack') = L - 1
      /\ \A i \in 1 .. L - 1 : stack'[i] = stack[i]
  BY PopFacts DEF TypeOK
<1>2. \A i \in 1 .. Len(stack') - 1 : stack'[i].pc \in Tokens
  <2>1. \A i \in 1 .. Len(stack') - 1 : i \in 1 .. L - 1
    BY <1>1
  <2> QED BY <1>1, <2>1 DEF StackInv
<1>3. "reentry" \notin upset' => stack' = << >> /\ Len(stack') <= 1
  <2>1. SUFFICES ASSUME "reentry" \notin upset'
                 PROVE  stack' = << >> /\ Len(stack') <= 1
    OBVIOUS
  <2>2. L <= 1
    BY <2>1 DEF StackInv
  <2>3. Len(stack') = 0
    BY <1>1, <2>2
  <2>4. stack' = << >>
    BY <1>1, <2>3, EmptySeq
  <2> QED BY <2>3, <2>4
<1>4. stack' # << >> => Last(stack').pc \in Tokens
  <2>1. SUFFICES ASSUME stack' # << >>
                 PROVE  Last(stack').pc \in Tokens
    OBVIOUS
  <2>2. L - 1 \in 1 .. L - 1
    BY <1>1, <2>1, EmptySeq
  <2>3. Last(stack') = stack[L - 1]
    BY <1>1, <2>2 DEF Last
  <2> QED BY <2>2, <2>3 DEF StackInv
<1> QED BY <1>1, <1>2, <1>3, <1>4 DEF StackInv

(* What remains to be shown for a step that ends the innermost call.       *)
LEMMA ReturnIInv ==
  ASSUME IInv, stack # << >>, stack' = Front(stack), upset \subseteq upset',
         phase' = phase, TypeOK', NoDangling', ManagerInv', NothingLost',
         upset' \cap Losing = {} =>
           /\ backend' => kv' # NULL
           /\ stack' = << >> /\ "throw" \notin upset' => Held' = {}
  PROVE  IInv'
<1>1. /\ StackInv'
      /\ stack' # << >> => Last(stack').pc \in Tokens
      /\ "reentry" \notin upset' => stack' = << >>
  BY ReturnStack DEF IInv
<1>2. LoadInv'
  BY <1>1, PcFacts DEF LoadInv
<1>3. ServingHoldsAll'
  BY <1>1 DEF ServingHoldsAll
<1>4. CrashNeedsMisuse'
  BY DEF IInv, CrashNeedsMisuse
<1> QED BY <1>1, <1>2, <1>3, <1>4 DEF IInv

(* unload_backend_resources gives back exactly what the runtime points to  *)
(* and the current manager has on record.                                  *)
LEMMA ReleaseFacts ==
  ASSUME IInv, mgr # NULL, Release
  PROVE  /\ Consistent(mgr')
         /\ Tracked(mgr') = Tracked(mgr) \ {ram, kv}
         /\ heap' = heap \ ({ram, kv} \cap Tracked(mgr))
         /\ Held' = {} /\ ram' = NULL /\ kv' = NULL /\ backend' = FALSE
<1>1. Consistent(mgr)
  BY DEF IInv, ManagerInv
<1>2. Consistent(Untrack(mgr, ram)) /\ Tracked(Untrack(mgr, ram)) = Tracked(mgr) \ {ram}
  BY <1>1, UntrackConsistent
<1>3. /\ Consistent(Untrack(Untrack(mgr, ram), kv))
      /\ Tracked(Untrack(Untrack(mgr, ram), kv)) = (Tracked(mgr) \ {ram}) \ {kv}
  BY <1>2, UntrackConsistent
<1> QED BY <1>3 DEF Release, Held

(* A call that releases everything and ends. *)
LEMMA ReleaseIInv ==
  ASSUME IInv, stack # << >>, stack' = Front(stack), Release,
         upset' = upset \/ upset' = upset \cup {"backend"},
         phase' = phase, tier' = tier,
         reply' \in {"none", "ok", "error", "threw", "shutdown"}
  PROVE  IInv'
<1>0. mgr # NULL
  BY DEF IInv, ManagerInv
<1>1. /\ Consistent(mgr')
      /\ Tracked(mgr') = Tracked(mgr) \ {ram, kv}
      /\ heap' = heap \ ({ram, kv} \cap Tracked(mgr))
      /\ Held' = {} /\ ram' = NULL /\ kv' = NULL /\ backend' = FALSE
  BY <1>0, ReleaseFacts
<1>2. mgr' # NULL
  BY <1>1, ManagerNotNull
<1>3. TypeOK'
  <2>1. stack' \in Seq(Frame)
    BY ReturnStack DEF IInv
  <2>2. mgr' \in Manager
    BY <1>1 DEF Consistent
  <2>3. /\ phase' \in {"alive", "crashed", "destroyed"}
        /\ tier' \in Tiers \cup {NULL}
        /\ heap' \subseteq Addr
        /\ upset' \subseteq {"early", "reentry", "backend", "throw"} \cup Losing
    BY <1>1 DEF IInv, TypeOK
  <2> QED BY <1>1, <2>1, <2>2, <2>3 DEF TypeOK
<1>4. NoDangling'
  BY <1>0, <1>1 DEF NoDangling, IInv
<1>5. ManagerInv'
  BY <1>0, <1>1, <1>2 DEF ManagerInv, IInv
<1>6. NothingLost'
  <2>1. SUFFICES ASSUME upset' \cap Losing = {}
                 PROVE  heap' = Held' /\ Tracked(mgr') = Held'
    BY DEF NothingLost
  <2>2. heap = Held /\ Tracked(mgr) = Held
    BY <1>0, <2>1 DEF IInv, NothingLost
  <2> QED BY <1>1, <2>2 DEF Held
<1> QED BY <1>1, <1>3, <1>4, <1>5, <1>6, ReturnIInv

(* An allocation that is admitted: ram or kv gets a fresh, charged block.  *)
LEMMA AllocateFacts ==
  ASSUME IInv, mgr # NULL, NEW n \in Nat, n <= HeapMax, ~ Refuses(mgr, n),
         NEW p \in Addr \ heap, mgr' = Track(mgr, p, n), heap' = heap \cup {p}
  PROVE  /\ Consistent(mgr') /\ mgr' # NULL /\ mgr' \in Manager
         /\ Tracked(mgr') = Tracked(mgr) \cup {p}
         /\ Tracked(mgr') \subseteq heap'
         /\ p \notin Tracked(mgr) /\ p \notin Held /\ p # NULL
<1>1. Consistent(mgr) /\ Tracked(mgr) \subseteq heap /\ Held \subseteq heap
  BY DEF IInv, ManagerInv, NoDangling
<1>2. p \notin Tracked(mgr) /\ p \notin Held /\ p # NULL
  BY <1>1, NullAssumption
<1>3. n \in 0 .. HeapMax
  BY WidthAssumption
<1>4. Consistent(mgr') /\ Tracked(mgr') = Tracked(mgr) \cup {p}
  BY <1>1, <1>2, <1>3, TrackConsistent
<1>5. mgr' # NULL /\ mgr' \in Manager
  BY <1>4, ManagerNotNull DEF Consistent
<1> QED BY <1>1, <1>2, <1>4, <1>5

(* The weights are allocated: ram gets a fresh block. *)
LEMMA WeightsAllocatedIInv ==
  ASSUME IInv, WeightsAllocated
  PROVE  IInv'
<1>0. /\ stack # << >> /\ Last(stack).pc = "weights" /\ stack \in Seq(Frame)
      /\ mgr # NULL /\ tier \in Tiers /\ "kv" \in Pcs /\ phase = "alive"
  BY PcFacts DEF WeightsAllocated, At, IInv, TypeOK, ManagerInv
<1>1. PICK p \in Addr \ heap :
        /\ mgr' = Track(mgr, p, WeightSize[tier])
        /\ heap' = heap \cup {p} /\ ram' = p
  BY DEF WeightsAllocated
<1>2. /\ Goto("kv")
      /\ UNCHANGED << phase, tier, kv, backend, reply, upset >>
  BY DEF WeightsAllocated
<1>3. /\ Consistent(mgr') /\ mgr' # NULL /\ mgr' \in Manager
      /\ Tracked(mgr') = Tracked(mgr) \cup {p}
      /\ Tracked(mgr') \subseteq heap'
      /\ p \notin Tracked(mgr) /\ p \notin Held /\ p # NULL
  <2>1. WeightSize[tier] \in Nat /\ WeightSize[tier] <= HeapMax
        /\ ~ Refuses(mgr, WeightSize[tier])
    BY <1>0, SizesAssumption DEF WeightsAllocated
  <2> QED BY <1>0, <1>1, <2>1, AllocateFacts
<1>4. /\ stack' \in Seq(Frame) /\ stack' # << >> /\ Len(stack') = Len(stack)
      /\ Last(stack').pc = "kv"
      /\ \A i \in 1 .. Len(stack) - 1 : stack'[i] = stack[i]
  BY <1>0, <1>2, GotoStack
<1>5. TypeOK'
  BY <1>1, <1>2, <1>3, <1>4 DEF IInv, TypeOK
<1>6. NoDangling'
  BY <1>1, <1>2, <1>3 DEF IInv, NoDangling, Held
<1>7. ManagerInv'
  BY <1>0, <1>2, <1>3 DEF ManagerInv
<1>8. StackInv'
  BY <1>2, <1>4 DEF IInv, StackInv
<1>9. LoadInv'
  BY <1>0, <1>2, <1>4 DEF IInv, LoadInv, Held
<1>10. NothingLost'
  BY <1>0, <1>1, <1>2, <1>3 DEF IInv, NothingLost, LoadInv, Held
<1>11. ServingHoldsAll'
  BY <1>1, <1>3, <1>4, PcFacts DEF ServingHoldsAll
<1>12. CrashNeedsMisuse'
  BY <1>2 DEF IInv, CrashNeedsMisuse
<1> QED BY <1>5, <1>6, <1>7, <1>8, <1>9, <1>10, <1>11, <1>12 DEF IInv

(* The KV cache is allocated: kv gets a fresh block. *)
LEMMA KvAllocatedIInv ==
  ASSUME IInv, KvAllocated
  PROVE  IInv'
<1>0. /\ stack # << >> /\ Last(stack).pc = "kv" /\ stack \in Seq(Frame)
      /\ mgr # NULL /\ tier \in Tiers /\ "create" \in Pcs /\ phase = "alive"
  BY PcFacts DEF KvAllocated, At, IInv, TypeOK, ManagerInv
<1>1. PICK p \in Addr \ heap :
        /\ mgr' = Track(mgr, p, KvSize[tier])
        /\ heap' = heap \cup {p} /\ kv' = p
  BY DEF KvAllocated
<1>2. /\ Goto("create")
      /\ UNCHANGED << phase, tier, ram, backend, reply, upset >>
  BY DEF KvAllocated
<1>3. /\ Consistent(mgr') /\ mgr' # NULL /\ mgr' \in Manager
      /\ Tracked(mgr') = Tracked(mgr) \cup {p}
      /\ Tracked(mgr') \subseteq heap'
      /\ p \notin Tracked(mgr) /\ p \notin Held /\ p # NULL
  <2>1. KvSize[tier] \in Nat /\ KvSize[tier] <= HeapMax
        /\ ~ Refuses(mgr, KvSize[tier])
    BY <1>0, SizesAssumption DEF KvAllocated
  <2> QED BY <1>0, <1>1, <2>1, AllocateFacts
<1>4. /\ stack' \in Seq(Frame) /\ stack' # << >> /\ Len(stack') = Len(stack)
      /\ Last(stack').pc = "create"
      /\ \A i \in 1 .. Len(stack) - 1 : stack'[i] = stack[i]
  BY <1>0, <1>2, GotoStack
<1>5. TypeOK'
  BY <1>1, <1>2, <1>3, <1>4 DEF IInv, TypeOK
<1>6. NoDangling'
  BY <1>1, <1>2, <1>3 DEF IInv, NoDangling, Held
<1>7. ManagerInv'
  BY <1>0, <1>2, <1>3 DEF ManagerInv
<1>8. StackInv'
  BY <1>2, <1>4 DEF IInv, StackInv
<1>9. LoadInv'
  BY <1>1, <1>2, <1>3, <1>4 DEF LoadInv
<1>10. NothingLost'
  BY <1>0, <1>1, <1>2, <1>3 DEF IInv, NothingLost, LoadInv, Held
<1>11. ServingHoldsAll'
  BY <1>0, <1>1, <1>2, <1>3, <1>4, PcFacts DEF IInv, ServingHoldsAll
<1>12. CrashNeedsMisuse'
  BY <1>2 DEF IInv, CrashNeedsMisuse
<1> QED BY <1>5, <1>6, <1>7, <1>8, <1>9, <1>10, <1>11, <1>12 DEF IInv

(* The weights do not fit: nothing was allocated and the call ends. *)
LEMMA WeightsRefusedIInv ==
  ASSUME IInv, WeightsRefused
  PROVE  IInv'
<1>1. /\ stack # << >> /\ Last(stack).pc = "weights"
      /\ stack' = Front(stack) /\ reply' = "error" /\ ram' = NULL
      /\ UNCHANGED << phase, tier, mgr, heap, kv, backend, upset >>
  BY DEF WeightsRefused, At, Return
<1>2. stack' \in Seq(Frame)
  BY <1>1, ReturnStack DEF IInv
<1>3. TypeOK'
  BY <1>1, <1>2 DEF IInv, TypeOK
<1>4. NoDangling' /\ ManagerInv'
  BY <1>1 DEF IInv, NoDangling, ManagerInv, Held
<1>5. upset \cap Losing = {} => Held = {} /\ Held' = {} /\ ~ backend
  BY <1>1 DEF IInv, LoadInv, Held
<1>6. NothingLost'
  BY <1>1, <1>5 DEF IInv, NothingLost
<1> QED BY <1>1, <1>3, <1>4, <1>5, <1>6, ReturnIInv

(* The KV cache does not fit: the weights go back and the call ends. *)
LEMMA KvRefusedIInv ==
  ASSUME IInv, KvRefused
  PROVE  IInv'
<1>1. /\ stack # << >> /\ Last(stack).pc = "kv"
      /\ stack' = Front(stack) /\ reply' = "error" /\ ram' = NULL /\ kv' = NULL
      /\ mgr' = Untrack(mgr, ram) /\ heap' = heap \ ({ram} \cap Tracked(mgr))
      /\ UNCHANGED << phase, tier, backend, upset >> /\ Held' = {}
  BY DEF KvRefused, At, Return, Held
<1>2. mgr # NULL /\ Consistent(mgr)
  BY <1>1 DEF IInv, ManagerInv
<1>3. /\ Consistent(mgr') /\ Tracked(mgr') = Tracked(mgr) \ {ram}
      /\ mgr' # NULL /\ mgr' \in Manager
  BY <1>1, <1>2, UntrackConsistent, ManagerNotNull DEF Consistent
<1>4. stack' \in Seq(Frame)
  BY <1>1, ReturnStack DEF IInv
<1>5. TypeOK'
  BY <1>1, <1>3, <1>4 DEF IInv, TypeOK
<1>6. NoDangling' /\ ManagerInv'
  BY <1>1, <1>2, <1>3 DEF IInv, NoDangling, ManagerInv
<1>7. upset \cap Losing = {} => kv = NULL /\ ~ backend
  BY <1>1 DEF IInv, LoadInv
<1>8. NothingLost'
  BY <1>1, <1>2, <1>3, <1>7 DEF IInv, NothingLost, Held
<1> QED BY <1>1, <1>5, <1>6, <1>7, <1>8, ReturnIInv

(* new[] or push_back throws out of the call. *)
LEMMA AllocationThrowsIInv ==
  ASSUME IInv, WeightsThrow \/ KvThrows
  PROVE  IInv'
<1>1. /\ stack # << >> /\ stack' = Front(stack) /\ reply' = "threw"
      /\ UNCHANGED << phase, tier, mgr, ram, kv, backend >>
  BY DEF WeightsThrow, KvThrows, AllocationThrows, At, Return
<1>2. /\ upset \subseteq upset'
      /\ upset' \subseteq upset \cup {"throw", "push_back"}
      /\ heap' = heap \/ "push_back" \in upset'
      /\ heap \subseteq heap' /\ heap' \subseteq Addr
      /\ KvThrows => "throw" \in upset'
  BY DEF WeightsThrow, KvThrows, AllocationThrows, IInv, TypeOK
<1>3. mgr # NULL
  BY <1>1 DEF IInv, ManagerInv
<1>4. stack' \in Seq(Frame)
  BY <1>1, <1>2, ReturnStack DEF IInv
<1>5. TypeOK'
  BY <1>1, <1>2, <1>4 DEF IInv, TypeOK, Losing
<1>6. NoDangling' /\ ManagerInv'
  BY <1>1, <1>2, <1>3 DEF IInv, NoDangling, ManagerInv, Held
<1>7. NothingLost'
  BY <1>1, <1>2 DEF IInv, NothingLost, Held, Losing
<1>8. upset' \cap Losing = {} =>
        /\ backend' => kv' # NULL
        /\ stack' = << >> /\ "throw" \notin upset' => Held' = {}
  <2>1. SUFFICES ASSUME upset' \cap Losing = {}
                 PROVE  /\ backend' => kv' # NULL
                        /\ stack' = << >> /\ "throw" \notin upset' => Held' = {}
    OBVIOUS
  <2>2. upset \cap Losing = {}
    BY <1>2, <2>1
  <2>3. WeightsThrow => Held = {}
    BY <1>1, <2>2 DEF IInv, LoadInv, WeightsThrow, At
  <2> QED BY <1>1, <1>2, <2>2, <2>3 DEF IInv, LoadInv, Held
<1> QED BY <1>1, <1>2, <1>5, <1>6, <1>7, <1>8, ReturnIInv

(* on_token throws out of generate_streaming. *)
LEMMA TokenThrowsIInv ==
  ASSUME IInv, TokenThrows
  PROVE  IInv'
<1>1. /\ stack # << >> /\ stack' = Front(stack) /\ reply' = "threw"
      /\ upset' = upset \cup {"throw"}
      /\ UNCHANGED << phase, tier, mgr, heap, ram, kv, backend >>
  BY DEF TokenThrows, At, Return
<1>2. stack' \in Seq(Frame) /\ mgr # NULL
  BY <1>1, ReturnStack DEF IInv, ManagerInv
<1>3. TypeOK'
  BY <1>1, <1>2 DEF IInv, TypeOK
<1>4. NoDangling' /\ ManagerInv' /\ NothingLost'
  BY <1>1, <1>2 DEF IInv, NoDangling, ManagerInv, NothingLost, Held
<1>5. upset' \cap Losing = {} => (backend' => kv' # NULL)
  BY <1>1 DEF IInv, LoadInv
<1> QED BY <1>1, <1>3, <1>4, <1>5, ReturnIInv

(* The innermost call goes on to the next statement.                       *)
LEMMA AdvanceIInv ==
  ASSUME IInv, CreateBackend \/ InitBackend \/ TokenReturns
  PROVE  IInv'
<1>1. /\ stack # << >> /\ stack \in Seq(Frame) /\ mgr # NULL /\ phase = "alive"
      /\ UNCHANGED << phase, tier, mgr, heap, ram, kv, reply, upset >>
  BY DEF CreateBackend, InitBackend, TokenReturns, At, IInv, TypeOK, ManagerInv
<1>2. PICK pc \in {"init", "unload"} \cup Tokens : Goto(pc)
  BY DEF CreateBackend, InitBackend, TokenReturns, Tokens
<1>3. /\ stack' \in Seq(Frame) /\ stack' # << >> /\ Len(stack') = Len(stack)
      /\ Last(stack').pc = pc
      /\ \A i \in 1 .. Len(stack) - 1 : stack'[i] = stack[i]
  BY <1>1, <1>2, PcFacts, GotoStack
<1>4. pc \notin {"weights", "kv", "create"}
  BY <1>2, PcFacts
<1>5. /\ backend' \in BOOLEAN
      /\ backend => backend'
      /\ backend' # backend => Last(stack).pc = "create" /\ CreateBackend
  BY DEF CreateBackend, InitBackend, TokenReturns, At, IInv, TypeOK
<1>6. TypeOK'
  BY <1>1, <1>3, <1>5 DEF IInv, TypeOK
<1>7. NoDangling' /\ NothingLost' /\ ManagerInv' /\ StackInv' /\ CrashNeedsMisuse'
  BY <1>1, <1>3 DEF IInv, NoDangling, NothingLost, ManagerInv, StackInv,
                    CrashNeedsMisuse, Held
<1>8. LoadInv'
  BY <1>1, <1>3, <1>4, <1>5 DEF IInv, LoadInv
<1>9. ServingHoldsAll'
  <2>1. SUFFICES ASSUME "reentry" \notin upset
                 PROVE  ram # NULL /\ kv # NULL /\ backend'
    BY <1>1, <1>3 DEF ServingHoldsAll
  <2>2. Last(stack).pc \notin {"weights", "kv"}
    BY PcFacts DEF CreateBackend, InitBackend, TokenReturns, At, Tokens
  <2>3. ram # NULL /\ kv # NULL
    BY <1>1, <2>1, <2>2 DEF IInv, ServingHoldsAll
  <2>4. CASE CreateBackend
    BY <2>3, <2>4 DEF CreateBackend
  <2>5. CASE InitBackend \/ TokenReturns
    <3>1. Last(stack).pc \in Tokens \cup {"init"}
      BY <2>5 DEF InitBackend, TokenReturns, At, Tokens
    <3>2. backend
      BY <1>1, <2>1, <3>1 DEF IInv, ServingHoldsAll
    <3> QED BY <1>5, <2>3, <3>2
  <2> QED BY <2>4, <2>5
<1> QED BY <1>6, <1>7, <1>8, <1>9 DEF IInv

(* Nothing exists before initialize. *)
LEMMA InitIInv ==
  ASSUME Init
  PROVE  IInv
<1>1. TypeOK
  <2>1. stack \in Seq(Frame)
    BY EmptySeq DEF Init
  <2> QED BY <2>1 DEF Init, TypeOK
<1>2. NoDangling /\ ManagerInv /\ NothingLost
  BY DEF Init, NoDangling, ManagerInv, NothingLost, Held
<1>3. LoadInv /\ ServingHoldsAll /\ CrashNeedsMisuse
  BY DEF Init, LoadInv, ServingHoldsAll, CrashNeedsMisuse, Held
<1>4. StackInv
  BY DEF Init, StackInv
<1> QED BY <1>1, <1>2, <1>3, <1>4 DEF IInv

(* initialize installs an empty manager; blocks that were live are marked. *)
LEMMA InitializeIInv ==
  ASSUME IInv, Initialize
  PROVE  IInv'
<1>0. PICK m \in Machines : InitializeOn(m)
  BY DEF Initialize
<1>1. tier' = m.tier /\ mgr' = NewManager(m.available)
  BY <1>0 DEF InitializeOn
<1>2. /\ reply' = "none"
      /\ upset' = upset \cup Nested \cup IF heap = {} THEN {} ELSE {"reinit"}
      /\ UNCHANGED << phase, heap, ram, kv, backend, stack >>
  BY <1>0 DEF InitializeOn
<1>3. m.tier \in Tiers /\ m.available \in Budgets
  BY MachinesAssumption
<1>4. /\ Consistent(mgr') /\ Tracked(mgr') = {} /\ mgr' # NULL
      /\ mgr' \in Manager
  BY <1>1, <1>3, NewManagerConsistent, ManagerNotNull DEF Consistent
<1>5. upset \subseteq upset' /\ upset' \subseteq upset \cup {"reentry", "reinit"}
  BY <1>2 DEF Nested
<1>6. upset' \cap Losing = {} => heap = {} /\ Held = {} /\ Held' = {}
  BY <1>2 DEF Losing, IInv, NoDangling, Held
<1>7. TypeOK'
  BY <1>1, <1>2, <1>3, <1>4, <1>5 DEF IInv, TypeOK, Losing
<1>8. NoDangling' /\ ManagerInv'
  BY <1>1, <1>2, <1>3, <1>4 DEF IInv, NoDangling, ManagerInv, Held
<1>9. NothingLost'
  BY <1>2, <1>4, <1>6 DEF NothingLost
<1>10. LoadInv'
  BY <1>2, <1>5 DEF IInv, LoadInv, Held
<1>11. stack # << >> => "reentry" \in upset'
  BY <1>2 DEF Nested
<1>12. StackInv' /\ ServingHoldsAll' /\ CrashNeedsMisuse'
  BY <1>2, <1>5, <1>11 DEF IInv, StackInv, ServingHoldsAll, CrashNeedsMisuse
<1> QED BY <1>7, <1>8, <1>9, <1>10, <1>12 DEF IInv

(* A call begins, on an idle runtime or inside on_token. *)
LEMMA CallIInv ==
  ASSUME IInv, NEW op \in Ops, Call(op)
  PROVE  IInv'
<1>1. PICK f \in [op : {op}, pc : {"weights"}, on_token : BOOLEAN] :
        stack' = Append(stack, f)
  BY DEF Call
<1>2. /\ mgr # NULL /\ phase = "alive" /\ stack \in Seq(Frame)
      /\ stack # << >> => Last(stack).pc \in Tokens
      /\ upset' = upset \cup Nested \cup IF Held = {} THEN {} ELSE {"unclean"}
      /\ UNCHANGED << phase, tier, mgr, heap, ram, kv, backend, reply >>
  BY DEF Call, MayEnter, IInv, TypeOK
<1>3. f \in Frame /\ f.pc = "weights"
  BY <1>1 DEF Frame, Loading
<1> DEFINE L == Len(stack)
<1>4. /\ stack' \in Seq(Frame) /\ Len(stack') = L + 1 /\ stack'[L + 1] = f
      /\ \A i \in 1 .. L : stack'[i] = stack[i]
      /\ L \in Nat
  BY <1>1, <1>2, <1>3, PushFacts
<1>5. stack' # << >> /\ Last(stack') = f
  BY <1>4, EmptySeq DEF Last
<1>6. /\ upset \subseteq upset' /\ upset' \subseteq upset \cup {"reentry", "unclean"}
      /\ upset' \cap Losing = {} => Held = {} /\ Held' = {}
      /\ stack # << >> => "reentry" \in upset'
  BY <1>2 DEF Nested, Losing, Held
<1>7. TypeOK'
  BY <1>2, <1>4, <1>6 DEF IInv, TypeOK, Losing
<1>8. NoDangling' /\ ManagerInv' /\ NothingLost'
  BY <1>2, <1>6 DEF IInv, NoDangling, ManagerInv, NothingLost, Held
<1>9. StackInv'
  <2>1. \A i \in 1 .. L : stack[i].pc \in Tokens
    <3>1. SUFFICES ASSUME NEW i \in 1 .. L
                   PROVE  stack[i].pc \in Tokens
      OBVIOUS
    <3>2. CASE i = L
      <4>1. stack # << >>
        BY <1>4, <3>1
      <4> QED BY <1>2, <3>2, <4>1 DEF Last
    <3>3. CASE i # L
      <4>1. i \in 1 .. L - 1
        BY <1>4, <3>1, <3>3
      <4> QED BY <4>1 DEF IInv, StackInv
    <3> QED BY <3>2, <3>3
  <2>2. \A i \in 1 .. Len(stack') - 1 : stack'[i].pc \in Tokens
    <3>1. Len(stack') - 1 = L
      BY <1>4
    <3> QED BY <1>4, <2>1, <3>1
  <2>3. "reentry" \notin upset' => Len(stack') <= 1
    BY <1>4, <1>6, EmptySeq
  <2> QED BY <2>2, <2>3 DEF StackInv
<1>10. LoadInv'
  BY <1>2, <1>3, <1>5, <1>6 DEF IInv, LoadInv
<1>11. ServingHoldsAll' /\ CrashNeedsMisuse'
  BY <1>2, <1>3, <1>5, PcFacts DEF ServingHoldsAll, CrashNeedsMisuse
<1> QED BY <1>7, <1>8, <1>9, <1>10, <1>11 DEF IInv

(* shutdown, from outside a call or from inside on_token. *)
LEMMA ShutdownIInv ==
  ASSUME IInv, Shutdown
  PROVE  IInv'
<1>1. /\ Release /\ reply' = "shutdown" /\ upset' = upset \cup Nested
      /\ UNCHANGED << phase, tier, stack >>
      /\ phase = "alive"
      /\ stack # << >> => Last(stack).pc \in Tokens
  BY DEF Shutdown, MayEnter
<1>2. /\ upset \subseteq upset' /\ upset' \subseteq upset \cup {"reentry"}
      /\ stack # << >> => "reentry" \in upset'
      /\ Held' = {} /\ ram' = NULL /\ kv' = NULL /\ backend' = FALSE
  BY <1>1 DEF Nested, Release, Held
<1>3. CASE mgr = NULL
  <2>1. mgr' = NULL /\ heap' = {} /\ heap = {} /\ stack = << >>
    BY <1>1, <1>3 DEF IInv, ManagerInv, Release
  <2>2. TypeOK'
    BY <1>1, <1>2, <2>1 DEF IInv, TypeOK
  <2> QED BY <1>1, <1>2, <2>1, <2>2
          DEF IInv, NoDangling, ManagerInv, NothingLost, StackInv, LoadInv,
              ServingHoldsAll, CrashNeedsMisuse
<1>4. CASE mgr # NULL
  <2>1. /\ Consistent(mgr') /\ Tracked(mgr') = Tracked(mgr) \ {ram, kv}
        /\ heap' = heap \ ({ram, kv} \cap Tracked(mgr))
    BY <1>1, <1>4, ReleaseFacts
  <2>2. mgr' # NULL /\ mgr' \in Manager
    BY <2>1, ManagerNotNull DEF Consistent
  <2>3. TypeOK'
    BY <1>1, <1>2, <2>1, <2>2 DEF IInv, TypeOK
  <2>4. NoDangling' /\ ManagerInv'
    BY <1>1, <1>2, <1>4, <2>1, <2>2 DEF IInv, NoDangling, ManagerInv
  <2>5. NothingLost'
    BY <1>2, <1>4, <2>1 DEF IInv, NothingLost, Held
  <2>6. LoadInv'
    BY <1>1, <1>2, PcFacts DEF LoadInv
  <2>7. StackInv' /\ ServingHoldsAll' /\ CrashNeedsMisuse'
    BY <1>1, <1>2 DEF IInv, StackInv, ServingHoldsAll, CrashNeedsMisuse
  <2> QED BY <2>3, <2>4, <2>5, <2>6, <2>7 DEF IInv
<1> QED BY <1>3, <1>4

(* A call before initialize dereferences the null memory manager.          *)
LEMMA CallTooEarlyIInv ==
  ASSUME IInv, NEW op \in Ops, CallTooEarly(op)
  PROVE  IInv'
<1>1. /\ phase' = "crashed" /\ upset' = upset \cup {"early"}
      /\ UNCHANGED << tier, mgr, heap, ram, kv, backend, stack, reply >>
  BY DEF CallTooEarly
<1>2. TypeOK'
  BY <1>1 DEF IInv, TypeOK
<1>3. NoDangling' /\ ManagerInv' /\ NothingLost' /\ LoadInv'
  BY <1>1 DEF IInv, NoDangling, ManagerInv, NothingLost, LoadInv, Held
<1>4. StackInv' /\ ServingHoldsAll' /\ CrashNeedsMisuse'
  BY <1>1 DEF IInv, StackInv, ServingHoldsAll, CrashNeedsMisuse
<1> QED BY <1>2, <1>3, <1>4 DEF IInv

(* The third token finds no backend: some nested call has unloaded it.     *)
LEMMA ThirdTokenCrashesIInv ==
  ASSUME IInv, ThirdTokenCrashes
  PROVE  IInv'
<1>1. /\ stack # << >> /\ Last(stack).pc = "token2" /\ ~ backend
      /\ phase' = "crashed"
      /\ UNCHANGED << tier, mgr, heap, ram, kv, backend, stack, reply, upset >>
  BY DEF ThirdTokenCrashes, At
<1>2. "reentry" \in upset
  BY <1>1 DEF IInv, ServingHoldsAll, Tokens
<1>3. TypeOK'
  BY <1>1 DEF IInv, TypeOK
<1>4. NoDangling' /\ ManagerInv' /\ NothingLost' /\ LoadInv'
  BY <1>1 DEF IInv, NoDangling, ManagerInv, NothingLost, LoadInv, Held
<1>5. StackInv' /\ ServingHoldsAll' /\ CrashNeedsMisuse'
  BY <1>1, <1>2 DEF IInv, StackInv, ServingHoldsAll, CrashNeedsMisuse
<1> QED BY <1>3, <1>4, <1>5 DEF IInv

(* The owner destroys an idle runtime, or nothing happens.                 *)
LEMMA DestroyIInv ==
  ASSUME IInv, Destroy \/ UNCHANGED vars
  PROVE  IInv'
<1>1. /\ phase' = "destroyed" \/ phase' = phase
      /\ UNCHANGED << tier, mgr, heap, ram, kv, backend, stack, reply, upset >>
  BY DEF Destroy, vars
<1>2. TypeOK'
  BY <1>1 DEF IInv, TypeOK
<1>3. NoDangling' /\ ManagerInv' /\ NothingLost' /\ LoadInv'
  BY <1>1 DEF IInv, NoDangling, ManagerInv, NothingLost, LoadInv, Held
<1>4. StackInv' /\ ServingHoldsAll' /\ CrashNeedsMisuse'
  BY <1>1 DEF IInv, StackInv, ServingHoldsAll, CrashNeedsMisuse
<1> QED BY <1>2, <1>3, <1>4 DEF IInv

(* Every step of a call in progress preserves the invariant.               *)
LEMMA StepIInv ==
  ASSUME IInv, Step
  PROVE  IInv'
<1>1. CASE WeightsAllocated
  BY <1>1, WeightsAllocatedIInv
<1>2. CASE WeightsRefused
  BY <1>2, WeightsRefusedIInv
<1>3. CASE KvAllocated
  BY <1>3, KvAllocatedIInv
<1>4. CASE KvRefused
  BY <1>4, KvRefusedIInv
<1>5. CASE WeightsThrow \/ KvThrows
  BY <1>5, AllocationThrowsIInv
<1>6. CASE CreateBackend \/ InitBackend \/ TokenReturns
  BY <1>6, AdvanceIInv
<1>7. CASE CreateFails \/ InitFails \/ Unload
  <2>1. /\ stack # << >> /\ Release /\ stack' = Front(stack)
        /\ upset' = upset \/ upset' = upset \cup {"backend"}
        /\ phase' = phase /\ tier' = tier
        /\ reply' \in {"none", "ok", "error", "threw", "shutdown"}
    BY <1>7 DEF CreateFails, InitFails, Unload, At, Return
  <2> QED BY <2>1, ReleaseIInv
<1>8. CASE ThirdTokenCrashes
  BY <1>8, ThirdTokenCrashesIInv
<1>9. CASE TokenThrows
  BY <1>9, TokenThrowsIInv
<1> QED BY <1>1, <1>2, <1>3, <1>4, <1>5, <1>6, <1>7, <1>8, <1>9 DEF Step

(* Every step of the runtime and its client does. *)
LEMMA NextIInv ==
  ASSUME IInv, [Next]_vars
  PROVE  IInv'
<1>1. CASE Initialize
  BY <1>1, InitializeIInv
<1>2. ASSUME NEW op \in Ops, Call(op) \/ CallTooEarly(op)
      PROVE  IInv'
  BY <1>2, CallIInv, CallTooEarlyIInv
<1>3. CASE Step
  BY <1>3, StepIInv
<1>4. CASE Shutdown
  BY <1>4, ShutdownIInv
<1>5. CASE Destroy \/ UNCHANGED vars
  BY <1>5, DestroyIInv
<1> QED BY <1>1, <1>2, <1>3, <1>4, <1>5 DEF Next

(* The invariant holds throughout. *)
LEMMA SpecIInv == Spec => []IInv
<1>1. Init => IInv
  BY InitIInv
<1>2. IInv /\ [Next]_vars => IInv'
  BY NextIInv
<1> QED BY <1>1, <1>2, PTL DEF Spec

-----------------------------------------------------------------------------
(* Only initialize changes the tier and the budget. *)
LEMMA MachineUnchanged ==
  ASSUME IInv, IInv',
         \/ \E op \in Ops : Call(op) \/ CallTooEarly(op)
         \/ Step \/ Shutdown \/ Destroy
  PROVE  /\ tier' = tier
         /\ mgr # NULL <=> mgr' # NULL
         /\ mgr # NULL => mgr'.max = mgr.max
<1>1. \A m, p : Untrack(m, p).max = m.max
  BY DEF Untrack
<1>2. \A m, p, n : Track(m, p, n).max = m.max
  BY DEF Track
<1>3. Step => stack # << >> /\ mgr # NULL /\ stack \in Seq(Frame)
  BY DEF Step, WeightsAllocated, WeightsRefused, WeightsThrow, KvAllocated,
         KvRefused, KvThrows, CreateBackend, CreateFails, InitBackend,
         InitFails, TokenReturns, ThirdTokenCrashes, TokenThrows, Unload, At,
         IInv, ManagerInv, TypeOK
<1>4. ASSUME Release
      PROVE  (mgr # NULL <=> mgr' # NULL) /\ (mgr # NULL => mgr'.max = mgr.max)
  <2>1. mgr # NULL => mgr' # NULL
    BY <1>4, ReleaseFacts, ManagerNotNull
  <2> QED BY <1>1, <1>4, <2>1 DEF Release
<1>5. CASE \E op \in Ops : Call(op) \/ CallTooEarly(op)
  BY <1>5 DEF Call, CallTooEarly
<1>6. CASE WeightsAllocated \/ KvAllocated
  <2>1. PICK pc \in Pcs : Goto(pc)
    BY <1>6 DEF WeightsAllocated, KvAllocated, Pcs, Loading
  <2>2. stack' # << >>
    BY <1>3, <1>6, <2>1, GotoStack DEF Step
  <2>3. mgr' # NULL
    BY <2>2 DEF IInv, ManagerInv
  <2> QED BY <1>2, <1>3, <1>6, <2>3 DEF WeightsAllocated, KvAllocated, Step
<1>7. CASE KvRefused
  <2>1. mgr # NULL /\ Consistent(mgr) /\ mgr' = Untrack(mgr, ram) /\ tier' = tier
    BY <1>3, <1>7 DEF KvRefused, Step, IInv, ManagerInv
  <2>2. mgr' # NULL
    BY <2>1, UntrackConsistent, ManagerNotNull
  <2> QED BY <1>1, <2>1, <2>2
<1>8. CASE CreateFails \/ InitFails \/ Unload \/ Shutdown
  BY <1>4, <1>8 DEF CreateFails, InitFails, Unload, Shutdown
<1>9. CASE UNCHANGED << tier, mgr >>
  BY <1>9
<1> QED BY <1>5, <1>6, <1>7, <1>8, <1>9
        DEF Step, WeightsRefused, WeightsThrow, KvThrows, AllocationThrows,
            CreateBackend, InitBackend, TokenReturns, ThirdTokenCrashes,
            TokenThrows, Destroy

(* A refusal means that the bytes charged and the bytes asked for do not   *)
(* fit, wrapped or not.                                                    *)
LEMMA RefusalTells ==
  ASSUME NEW m, Consistent(m), NEW n \in Nat, Refuses(m, n)
  PROVE  m.allocated + n > m.max
<1>1. /\ m.allocated \in Nat /\ m.max \in Nat /\ Width \in Nat \ {0}
  BY WidthAssumption DEF Consistent, Manager, Bytes
<1>2. \A k \in Nat : k % Width <= k
  BY <1>1
<1>3. (m.allocated + n) % Width <= m.allocated + n
  BY <1>1, <1>2
<1>4. (m.allocated + n) % Width \in Nat
  BY <1>1
<1> QED BY <1>1, <1>3, <1>4 DEF Refuses, Plus

(* Demands are natural numbers, and they split into weights and KV cache.  *)
LEMMA DemandFacts ==
  ASSUME NEW t \in Tiers
  PROVE  /\ WeightSize[t] \in Nat /\ KvSize[t] \in Nat
         /\ Demand(t) = WeightSize[t] + KvSize[t] /\ Demand(t) \in Nat
BY SizesAssumption DEF Demand

(* Disturbances are never forgotten. *)
LEMMA UpsetGrows ==
  ASSUME [Next]_vars
  PROVE  upset \subseteq upset'
BY DEF Next, Initialize, InitializeOn, Call, CallTooEarly, Shutdown, Destroy,
   Step, WeightsAllocated, WeightsRefused, WeightsThrow, KvAllocated,
   KvRefused, KvThrows, AllocationThrows, CreateBackend, CreateFails,
   InitBackend, InitFails, TokenReturns, ThirdTokenCrashes, TokenThrows,
   Unload, vars

(* Without re-entry the call that ends is the only one.                    *)
LEMMA ReturnEmpties ==
  ASSUME IInv, [Next]_vars, ~ Voided', stack # << >>, stack' = Front(stack)
  PROVE  stack' = << >>
<1>1. upset \subseteq upset'
  BY UpsetGrows
<1>2. "reentry" \notin upset'
  BY DEF Voided
<1> QED BY <1>1, <1>2, ReturnStack DEF IInv

(* A runtime with no blocks and none lost has charged nothing.             *)
LEMMA UnchargedWhenEmpty ==
  ASSUME IInv, ~ Voided, mgr # NULL, Held = {} \/ heap = {}
  PROVE  heap = {} /\ Held = {} /\ mgr.allocated = 0
<1>1. heap = Held /\ Tracked(mgr) = Held
  BY DEF IInv, NothingLost, Voided
<1>2. Consistent(mgr)
  BY DEF IInv, ManagerInv
<1> QED BY <1>1, <1>2, EmptyIsUncharged

(* The two allocations of a load: the charge grows by the whole size.      *)
LEMMA AllocationCharge ==
  ASSUME IInv, ChargeInv, ~ Voided, WeightsAllocated \/ KvAllocated
  PROVE  /\ WeightsAllocated => mgr'.allocated = WeightSize[tier]
         /\ KvAllocated => mgr'.allocated = Demand(tier)
<1>1. /\ stack # << >> /\ mgr # NULL /\ Consistent(mgr) /\ tier \in Tiers
      /\ Tracked(mgr) \subseteq heap
  BY DEF WeightsAllocated, KvAllocated, At, IInv, ManagerInv, NoDangling
<1>2. WeightSize[tier] \in Nat /\ KvSize[tier] \in Nat
      /\ Demand(tier) = WeightSize[tier] + KvSize[tier]
  BY <1>1, DemandFacts
<1>3. ASSUME NEW n \in Nat, n <= HeapMax, ~ Refuses(mgr, n), NEW p \in Addr \ heap,
             mgr' = Track(mgr, p, n)
      PROVE  mgr'.allocated = mgr.allocated + n
  <2>1. n \in 0 .. HeapMax /\ p \notin Tracked(mgr)
    BY <1>1, <1>3, WidthAssumption
  <2> QED BY <1>1, <1>3, <2>1, TrackConsistent
<1>4. CASE WeightsAllocated
  <2>1. mgr.allocated = 0
    BY <1>1, <1>4 DEF WeightsAllocated, At, ChargeInv
  <2>2. mgr'.allocated = mgr.allocated + WeightSize[tier]
    BY <1>2, <1>3, <1>4 DEF WeightsAllocated
  <2>3. ~ KvAllocated
    BY <1>4 DEF WeightsAllocated, KvAllocated, At
  <2> QED BY <1>2, <2>1, <2>2, <2>3
<1>5. CASE KvAllocated
  <2>1. mgr.allocated = WeightSize[tier]
    BY <1>1, <1>5 DEF KvAllocated, At, ChargeInv
  <2>2. mgr'.allocated = mgr.allocated + KvSize[tier]
    BY <1>2, <1>3, <1>5 DEF KvAllocated
  <2>3. ~ WeightsAllocated
    BY <1>5 DEF WeightsAllocated, KvAllocated, At
  <2> QED BY <1>2, <2>1, <2>2, <2>3
<1> QED BY <1>4, <1>5

(* The charge of a loading call, also after exceptions and failed backends. *)
LEMMA ChargeStep ==
  ASSUME IInv, IInv', ChargeInv, [Next]_vars
  PROVE  ChargeInv'
<1>1. SUFFICES ASSUME ~ Voided', stack' # << >>
               PROVE  ChargeInv'
  BY DEF ChargeInv
<1>2. ~ Voided /\ "reentry" \notin upset' /\ mgr' # NULL
  BY <1>1, UpsetGrows DEF Voided, IInv, ManagerInv
<1>3. ~ (stack # << >> /\ stack' = Front(stack))
  BY <1>1, ReturnEmpties
<1>4. CASE UNCHANGED << mgr, tier, stack >>
  BY <1>1, <1>2, <1>4 DEF ChargeInv
<1>5. CASE Initialize \/ Shutdown
  <2>1. Nested = {} /\ stack' = stack
    BY <1>2, <1>5 DEF Initialize, InitializeOn, Shutdown, Nested
  <2> QED BY <1>1, <2>1 DEF Nested
<1>6. ASSUME NEW op \in Ops, Call(op)
      PROVE  ChargeInv'
  <2>1. stack = << >> /\ Held = {} /\ mgr' = mgr /\ mgr # NULL
    BY <1>1, <1>2, <1>6 DEF Call, Nested, Voided, Losing
  <2>2. mgr.allocated = 0
    BY <1>2, <2>1, UnchargedWhenEmpty
  <2>3. Last(stack').pc = "weights"
    BY <1>6, <2>1 DEF Call, Last
  <2> QED BY <2>1, <2>2, <2>3 DEF ChargeInv
<1>7. ASSUME NEW pc \in Pcs, Goto(pc), stack # << >>, tier' = tier, pc # "weights",
             mgr'.allocated = IF pc = "kv" THEN WeightSize[tier] ELSE Demand(tier)
      PROVE  ChargeInv'
  <2>1. Last(stack').pc = pc
    BY <1>7, GotoStack DEF IInv, TypeOK
  <2> QED BY <1>7, <2>1 DEF ChargeInv
<1>8. CASE WeightsAllocated \/ KvAllocated
  <2>1. /\ WeightsAllocated => mgr'.allocated = WeightSize[tier]
        /\ KvAllocated => mgr'.allocated = Demand(tier)
    BY <1>2, <1>8, AllocationCharge
  <2>2. /\ stack # << >> /\ tier' = tier
        /\ WeightsAllocated => Goto("kv")
        /\ KvAllocated => Goto("create")
        /\ "kv" \in Pcs /\ "create" \in Pcs
    BY <1>8, PcFacts DEF WeightsAllocated, KvAllocated, At
  <2> QED BY <1>7, <1>8, <2>1, <2>2
<1>9. CASE CreateBackend \/ InitBackend \/ TokenReturns
  <2>1. /\ stack # << >> /\ UNCHANGED << tier, mgr >>
        /\ Last(stack).pc \notin {"weights", "kv"}
    BY <1>9, PcFacts DEF CreateBackend, InitBackend, TokenReturns, At, Tokens
  <2>2. mgr'.allocated = Demand(tier)
    BY <1>2, <2>1 DEF ChargeInv
  <2>3. PICK pc \in {"init", "unload"} \cup Tokens : Goto(pc)
    BY <1>9 DEF CreateBackend, InitBackend, TokenReturns, Tokens
  <2> QED BY <1>7, <2>1, <2>2, <2>3, PcFacts
<1> QED BY <1>3, <1>4, <1>5, <1>6, <1>8, <1>9
        DEF Next, Step, CallTooEarly, WeightsRefused, WeightsThrow, KvRefused,
            KvThrows, AllocationThrows, CreateFails, InitFails,
            ThirdTokenCrashes, TokenThrows, Unload, Destroy, Return, At, vars

(* A refusal: weights and KV cache do not fit the budget together.         *)
LEMMA RefusedForWant ==
  ASSUME IInv, ChargeInv, ~ Voided, WeightsRefused \/ KvRefused
  PROVE  mgr.max < Demand(tier)
<1>1. stack # << >> /\ mgr # NULL /\ Consistent(mgr) /\ tier \in Tiers
  BY DEF WeightsRefused, KvRefused, At, IInv, ManagerInv
<1>2. /\ WeightsRefused => mgr.allocated = 0 /\ Refuses(mgr, WeightSize[tier])
      /\ KvRefused => mgr.allocated = WeightSize[tier] /\ Refuses(mgr, KvSize[tier])
  BY <1>1 DEF WeightsRefused, KvRefused, At, ChargeInv
<1>3. WeightSize[tier] \in Nat /\ KvSize[tier] \in Nat
      /\ Demand(tier) = WeightSize[tier] + KvSize[tier]
  BY <1>1, DemandFacts
<1>4. mgr.max \in Nat
  BY <1>1, WidthAssumption DEF Consistent
<1>5. CASE WeightsRefused
  <2>1. mgr.allocated + WeightSize[tier] > mgr.max
    BY <1>1, <1>2, <1>3, <1>5, RefusalTells
  <2> QED BY <1>2, <1>3, <1>4, <1>5, <2>1
<1>6. CASE KvRefused
  <2>1. mgr.allocated + KvSize[tier] > mgr.max
    BY <1>1, <1>2, <1>3, <1>6, RefusalTells
  <2> QED BY <1>2, <1>3, <1>4, <1>6, <2>1
<1> QED BY <1>5, <1>6

(* The verdict a call comes to. *)
LEMMA OutcomeStep ==
  ASSUME IInv, IInv', ChargeInv, OutcomeInv, [Next]_vars
  PROVE  OutcomeInv'
<1>1. SUFFICES ASSUME upset' = {}, mgr' # NULL
               PROVE  OutcomeInv'
  BY DEF OutcomeInv
<1>2. upset = {} /\ ~ Voided
  BY <1>1, UpsetGrows DEF Voided
<1>3. CASE Initialize
  BY <1>3 DEF Initialize, InitializeOn, OutcomeInv
<1>4. CASE UNCHANGED vars
  BY <1>4 DEF OutcomeInv, vars
<1>5. CASE \/ \E op \in Ops : Call(op) \/ CallTooEarly(op)
           \/ Step \/ Shutdown \/ Destroy
  <2>1. mgr # NULL /\ tier' = tier /\ mgr'.max = mgr.max
    BY <1>1, <1>5, MachineUnchanged
  <2>2. CASE reply' = reply \/ reply' \notin {"ok", "error"}
    BY <1>2, <2>1, <2>2 DEF OutcomeInv
  <2>3. CASE WeightsRefused \/ KvRefused
    <3>1. mgr.max < Demand(tier) /\ reply' = "error"
      BY <1>2, <2>3, RefusedForWant DEF WeightsRefused, KvRefused, Return
    <3> QED BY <2>1, <3>1 DEF OutcomeInv
  <2>4. CASE Unload
    <3>1. /\ Last(stack).pc = "unload" /\ stack # << >> /\ reply' = "ok"
          /\ mgr.allocated <= mgr.max
      BY <2>1, <2>4 DEF Unload, At, Return, IInv, ManagerInv, Consistent
    <3>2. mgr.allocated = Demand(tier)
      BY <1>2, <3>1 DEF ChargeInv
    <3> QED BY <2>1, <3>1, <3>2 DEF OutcomeInv
  <2>5. CASE CreateFails \/ InitFails
    BY <1>1, <2>5 DEF CreateFails, InitFails
  <2>6. CASE \/ \E op \in Ops : Call(op) \/ CallTooEarly(op)
             \/ WeightsAllocated \/ KvAllocated \/ WeightsThrow \/ KvThrows
             \/ CreateBackend \/ InitBackend
             \/ TokenReturns \/ ThirdTokenCrashes \/ TokenThrows
             \/ Shutdown \/ Destroy
    <3>1. reply' = reply \/ reply' \in {"threw", "shutdown"}
      BY <2>6 DEF Call, CallTooEarly, WeightsAllocated, KvAllocated,
         WeightsThrow, KvThrows, AllocationThrows, CreateBackend, InitBackend,
         TokenReturns, ThirdTokenCrashes, TokenThrows, Shutdown, Destroy, Return
    <3> QED BY <2>2, <3>1
  <2> QED BY <1>5, <2>3, <2>4, <2>5, <2>6 DEF Step
<1> QED BY <1>3, <1>4, <1>5 DEF Next

(* What calls are charged, and what undisturbed calls answer. *)
LEMMA SpecCharged == Spec => []ChargedInv
<1>1. Init => ChargedInv
  BY DEF Init, ChargedInv, ChargeInv, OutcomeInv
<1>2. IInv /\ IInv' /\ ChargedInv /\ [Next]_vars => ChargedInv'
  BY ChargeStep, OutcomeStep DEF ChargedInv
<1> QED BY <1>1, <1>2, SpecIInv, PTL DEF Spec

-----------------------------------------------------------------------------
(* Every variable keeps its type; in particular only modelled disturbances *)
(* and replies ever happen.                                                *)
THEOREM TypeCorrect == Spec => []TypeOK
<1>1. IInv => TypeOK
  BY DEF IInv
<1> QED BY <1>1, SpecIInv, PTL

(* allocated_ram_ptr_ and allocated_kv_ptr_ never dangle or coincide, and  *)
(* the current manager records live blocks only: unload, shutdown and the  *)
(* error paths never free a block twice.                                   *)
THEOREM NeverDangling == Spec => []NoDangling
<1>1. IInv => NoDangling
  BY DEF IInv
<1> QED BY <1>1, SpecIInv, PTL

(* No sequence of loads, failures and nested calls goes over the budget,   *)
(* and the free_bytes the stats report never wraps around.                 *)
THEOREM WithinBudget == Spec => []BudgetKept
<1>1. IInv => BudgetKept
  <2>1. SUFFICES ASSUME IInv, mgr # NULL
                 PROVE  mgr.allocated <= mgr.max
                        /\ MemoryStats.free = mgr.max - mgr.allocated
    BY DEF BudgetKept
  <2>2. Consistent(mgr)
    BY <2>1 DEF IInv, ManagerInv
  <2>3. mgr.allocated \in Nat /\ mgr.max \in Nat /\ mgr.max < Width
        /\ mgr.allocated <= mgr.max
    BY <2>2, WidthAssumption DEF Consistent, Manager, Bytes
  <2>4. Minus(mgr.max, mgr.allocated) = mgr.max - mgr.allocated
    BY <2>3, MinusSmall
  <2> QED BY <2>1, <2>3, <2>4 DEF MemoryStats, FreeBytes
<1> QED BY <1>1, SpecIInv, PTL

(* Short of re-entry with blocks held, a failed push_back and an           *)
(* initialize over live blocks, every live block is pointed to by the      *)
(* runtime and charged to its budget.                                      *)
THEOREM NoBlockLost == Spec => []NothingLost
<1>1. IInv => NothingLost
  BY DEF IInv
<1> QED BY <1>1, SpecIInv, PTL

(* What nobody disturbed leaves nothing: the invariant between calls. *)
LEMMA IdleFacts == IInv => IdleHoldsNothing
<1>1. SUFFICES ASSUME IInv, stack = << >>, upset \cap (Losing \cup {"throw"}) = {}
               PROVE  heap = {} /\ Held = {} /\ ~ backend /\ MemoryStats.allocated = 0
  BY DEF IdleHoldsNothing
<1>2. upset \cap Losing = {} /\ "throw" \notin upset
  BY <1>1
<1>3. Held = {} /\ kv = NULL
  BY <1>1, <1>2 DEF IInv, LoadInv, TypeOK, Held
<1>4. ~ backend
  BY <1>1, <1>2, <1>3 DEF IInv, LoadInv
<1>5. heap = {} /\ (mgr # NULL => Tracked(mgr) = {})
  BY <1>1, <1>2, <1>3 DEF IInv, NothingLost
<1>6. MemoryStats.allocated = 0
  <2>1. CASE mgr = NULL
    BY <2>1 DEF MemoryStats
  <2>2. CASE mgr # NULL
    <3>1. Consistent(mgr)
      BY <1>1, <2>2 DEF IInv, ManagerInv
    <3>2. mgr.allocated = 0
      BY <1>5, <2>2, <3>1, EmptyIsUncharged
    <3> QED BY <2>2, <3>2 DEF MemoryStats
  <2> QED BY <2>1, <2>2
<1> QED BY <1>3, <1>4, <1>5, <1>6

(* Lazy allocation: an idle runtime no exception has visited holds no      *)
(* block, no pointer and no backend, and reports zero bytes.               *)
THEOREM IdleIsEmpty == Spec => []IdleHoldsNothing
BY IdleFacts, SpecIInv, PTL

(* Undisturbed, a call fails when the weights and the KV cache exceed the  *)
(* budget, and only then: nothing earlier calls did counts against it.     *)
THEOREM RepliesTellBudget == Spec => []ReplyTellsBudget
<1>1. ChargedInv => ReplyTellsBudget
  BY DEF ChargedInv, OutcomeInv, ReplyTellsBudget
<1> QED BY <1>1, SpecCharged, PTL

(* A call that answers has weights, KV cache and backend, unless on_token  *)
(* has called the runtime.                                                 *)
THEOREM ServesWithAll == Spec => []ServingHoldsAll
<1>1. IInv => ServingHoldsAll
  BY DEF IInv
<1> QED BY <1>1, SpecIInv, PTL

(* The null dereferences of the runtime need a call before initialize or   *)
(* one from inside on_token.                                               *)
THEOREM CrashesNeedMisuse == Spec => []CrashNeedsMisuse
<1>1. IInv => CrashNeedsMisuse
  BY DEF IInv
<1> QED BY <1>1, SpecIInv, PTL

-----------------------------------------------------------------------------
(* The steps left in the statements of a call are from 1 to 8. *)
LEMMA StepsLeftFacts ==
  /\ \A pc \in Pcs : StepsLeft[pc] \in 1 .. 8
  /\ \A pc \in Tokens : StepsLeft[pc] \in 1 .. 4
BY DEF StepsLeft, Pcs, Loading, Tokens

(* What is left of the calls in progress. *)
LEMMA RemainingFacts ==
  ASSUME IInv
  PROVE  /\ Remaining \in Nat
         /\ stack # << >> => Remaining > 8
         /\ stack # << >> /\ Len(stack) = 1 => Remaining <= 16
<1>1. CASE stack = << >>
  BY <1>1 DEF Remaining
<1>2. CASE stack # << >>
  <2>1. Last(stack) \in Frame /\ Len(stack) \in Nat \ {0}
    BY <1>2, PopFacts DEF IInv, TypeOK
  <2>2. StepsLeft[Last(stack).pc] \in 1 .. 8
    BY <2>1, StepsLeftFacts DEF Frame, Pcs
  <2>3. Remaining = 8 * Len(stack) + StepsLeft[Last(stack).pc]
    BY <1>2 DEF Remaining
  <2>4. \A l \in Nat \ {0}, a \in 1 .. 8 :
          /\ 8 * l + a \in Nat /\ 8 * l + a > 8
          /\ l = 1 => 8 * l + a <= 16
    OBVIOUS
  <2> QED BY <1>2, <2>1, <2>2, <2>3, <2>4
<1> QED BY <1>1, <1>2

(* A call that ends leaves less to do, whichever statement it was at.      *)
LEMMA ReturnAdvances ==
  ASSUME IInv, [Next]_vars, stack # << >>, stack' = Front(stack)
  PROVE  Remaining' < Remaining
<1>1. /\ stack \in Seq(Frame) /\ Len(stack) \in Nat \ {0}
      /\ Len(stack') = Len(stack) - 1
      /\ Last(stack) \in Frame
  BY PopFacts DEF IInv, TypeOK
<1>2. Last(stack).pc \in Pcs
  BY <1>1 DEF Frame, Pcs
<1>3. stack' # << >> => Last(stack').pc \in Tokens
  BY UpsetGrows, ReturnStack DEF IInv
<1>4. Remaining = 8 * Len(stack) + StepsLeft[Last(stack).pc]
  BY DEF Remaining
<1>5. StepsLeft[Last(stack).pc] \in 1 .. 8
  BY <1>2, StepsLeftFacts
<1>6. CASE stack' = << >>
  BY <1>1, <1>4, <1>5, <1>6 DEF Remaining
<1>7. CASE stack' # << >>
  <2>1. StepsLeft[Last(stack').pc] \in 1 .. 4
    BY <1>3, <1>7, StepsLeftFacts
  <2>2. Remaining' = 8 * (Len(stack) - 1) + StepsLeft[Last(stack').pc]
    BY <1>1, <1>7 DEF Remaining
  <2>3. \A l \in Nat, a \in 1 .. 8, b \in 1 .. 4 : 8 * (l - 1) + b < 8 * l + a
    OBVIOUS
  <2> QED BY <1>1, <1>4, <1>5, <2>1, <2>2, <2>3
<1> QED BY <1>6, <1>7

(* Every step of a call in progress brings it nearer to its end. *)
LEMMA StepAdvances ==
  ASSUME IInv, Step
  PROVE  Remaining' < Remaining \/ phase' = "crashed"
<1>1. /\ stack # << >> /\ stack \in Seq(Frame) /\ Len(stack) \in Nat
      /\ [Next]_vars
  BY EmptySeq
     DEF Next, Step, WeightsAllocated, WeightsRefused, WeightsThrow,
         KvAllocated, KvRefused, KvThrows, CreateBackend, CreateFails,
         InitBackend, InitFails, TokenReturns, ThirdTokenCrashes, TokenThrows,
         Unload, At, IInv, TypeOK
<1>2. CASE stack' = Front(stack)
  BY <1>1, <1>2, ReturnAdvances
<1>3. CASE \E pc \in Pcs : Goto(pc) /\ StepsLeft[pc] < StepsLeft[Last(stack).pc]
  <2>1. PICK pc \in Pcs : Goto(pc) /\ StepsLeft[pc] < StepsLeft[Last(stack).pc]
    BY <1>3
  <2>2. stack' # << >> /\ Len(stack') = Len(stack) /\ Last(stack').pc = pc
    BY <1>1, <2>1, GotoStack
  <2>3. StepsLeft[pc] \in Nat /\ StepsLeft[Last(stack).pc] \in Nat
    <3>1. Last(stack) \in Frame
      BY <1>1, PopFacts
    <3>2. Last(stack).pc \in Pcs
      BY <3>1 DEF Frame, Pcs
    <3> QED BY <3>2, StepsLeftFacts
  <2> QED BY <1>1, <2>1, <2>2, <2>3 DEF Remaining
<1>4. CASE WeightsAllocated \/ KvAllocated \/ CreateBackend \/ InitBackend \/ TokenReturns
  <2>1. \E pc \in Pcs : Goto(pc) /\ StepsLeft[pc] < StepsLeft[Last(stack).pc]
    BY <1>4 DEF WeightsAllocated, KvAllocated, CreateBackend, InitBackend,
       TokenReturns, At, StepsLeft, Pcs, Loading, Tokens
  <2> QED BY <1>3, <2>1
<1>5. CASE ThirdTokenCrashes
  BY <1>5 DEF ThirdTokenCrashes
<1> QED BY <1>2, <1>4, <1>5
        DEF Step, WeightsRefused, WeightsThrow, KvRefused, KvThrows,
            AllocationThrows, CreateFails, InitFails, TokenThrows, Unload, Return

(* Calls cannot go on for ever: each has at most eight statements left,    *)
(* and each statement leaves fewer.                                        *)
THEOREM CallsGetNearer == Spec => CallsAdvance
<1>1. IInv => [Step => Remaining' < Remaining \/ phase' = "crashed"]_vars
  BY StepAdvances
<1> QED BY <1>1, SpecIInv, PTL DEF CallsAdvance

(* A client whose callbacks return and do not call back, on a heap that    *)
(* does not run out: only early calls and missing backends upset it.       *)
Calm == upset \subseteq {"early", "backend"}

LEMMA CalmStep ==
  ASSUME Reentry = {}, Faults \subseteq {"create", "init"},
         IInv, Calm, [Next]_vars
  PROVE  Calm'
<1>1. stack = << >> => heap = {} /\ Held = {}
  <2>1. upset \cap (Losing \cup {"throw"}) = {}
    BY DEF Calm, Losing
  <2> QED BY <2>1, IdleFacts DEF IdleHoldsNothing
<1>2. CASE Initialize
  BY <1>1, <1>2 DEF Initialize, InitializeOn, MayEnter, Nested, Calm
<1>3. CASE \E op \in Ops : Call(op) \/ CallTooEarly(op)
  BY <1>1, <1>3 DEF Call, CallTooEarly, MayEnter, Nested, Calm
<1>4. CASE Step
  <2>1. ~ WeightsThrow /\ ~ KvThrows /\ ~ TokenThrows
    BY DEF WeightsThrow, KvThrows, AllocationThrows, TokenThrows
  <2>2. upset' \subseteq upset \cup {"backend"}
    BY <1>4, <2>1
       DEF Step, WeightsAllocated, WeightsRefused, KvAllocated, KvRefused,
           CreateBackend, CreateFails, InitBackend, InitFails, TokenReturns,
           ThirdTokenCrashes, Unload
  <2> QED BY <2>2 DEF Calm
<1>5. CASE Shutdown
  BY <1>5 DEF Shutdown, MayEnter, Nested, Calm
<1>6. CASE Destroy
  BY <1>6 DEF Destroy, Calm
<1>7. CASE UNCHANGED vars
  BY <1>7 DEF vars, Calm
<1> QED BY <1>2, <1>3, <1>4, <1>5, <1>6, <1>7 DEF Next

(* Memory comes back because calls end: for such a client there is no      *)
(* other way a block could stay, whatever the backend does.                *)
THEOREM MemoryFollowsCalls ==
  ASSUME Reentry = {}, Faults \subseteq {"create", "init"}
  PROVE  Spec /\ CallsEnd => MemoryComesBack
<1>1. Init => Calm
  BY DEF Init, Calm
<1>2. IInv /\ Calm /\ [Next]_vars => Calm'
  BY CalmStep
<1>3. Spec => []Calm
  BY <1>1, <1>2, SpecIInv, PTL DEF Spec
<1>4. IInv /\ Calm => (stack = << >> => heap = {})
  <2>1. Calm => upset \cap (Losing \cup {"throw"}) = {}
    BY DEF Calm, Losing
  <2> QED BY <2>1, IdleFacts DEF IdleHoldsNothing
<1>5. heap # {} <=> ~ (heap = {})
  OBVIOUS
<1>6. stack # << >> <=> ~ (stack = << >>)
  OBVIOUS
<1> QED BY <1>3, <1>4, <1>5, <1>6, SpecIInv, PTL DEF CallsEnd, MemoryComesBack
=============================================================================
