---------------------------- MODULE MemoryManager ----------------------------
(***************************************************************************)
(* HeapMemoryManager (src/memory/memory_manager.cpp) and the code that     *)
(* calls it.                                                               *)
(*                                                                         *)
(* Everything runs on the caller's thread, so the steps that interleave    *)
(* are the ones around the pressure callback: it is called before          *)
(* allocate and deallocate return, it may call the manager again, and it   *)
(* may throw.  `stack' holds the calls that are waiting for it.            *)
(*                                                                         *)
(* new[] may throw (the code catches nothing), and so may push_back, after *)
(* new[] has already handed out the block.                                 *)
(***************************************************************************)
EXTENDS HeapManager, FiniteSets

CONSTANTS
  Sizes,     \* sizes the clients ask for
  MaxDepth   \* bound: callbacks in progress at once

ASSUME SizesAssumption == Sizes \subseteq Nat
ASSUME DepthAssumption == MaxDepth \in Nat

VARIABLES
  mgr,       \* max_memory_, allocated_ and allocations_
  hooked,    \* pressure_callback_ is not empty
  heap,      \* addresses of the live blocks
  stack,     \* calls whose callback runs now: the pointer each will return,
             \* NULL for a deallocate; the last one is the innermost
  owned,     \* pointers that were returned and not given back
  told,      \* the level the registered callback got last
  answer,    \* the last allocation request and how it ended
  faults     \* history: which of "push_back", "callback" have ever thrown

vars == << mgr, hooked, heap, stack, owned, told, answer, faults >>

Pending == {stack[i] : i \in DOMAIN stack} \ {NULL}

Init ==
  /\ \E b \in Budgets : mgr = NewManager(b)
  /\ hooked = FALSE
  /\ heap = {}
  /\ stack = << >>
  /\ owned = {}
  /\ told = "none"
  /\ answer = [amount |-> 0, result |-> "none"]
  /\ faults = {}

(* register_pressure_callback, of a callback or of an empty function.  The *)
(* running callback may replace or remove itself, which destroys its       *)
(* function object: what its body still does with its captures is          *)
(* undefined, but it may end there, and the manager does not look at       *)
(* pressure_callback_ again in that call.                                  *)
Register ==
  /\ hooked' \in BOOLEAN
  /\ told' = "none"
  /\ UNCHANGED << mgr, heap, stack, owned, answer, faults >>

(* allocate_weights, allocate_temp, allocate_kv_cache: not enough budget.  *)
AllocateRefused(n) ==
  /\ Refuses(mgr, n)
  /\ answer' = [amount |-> n, result |-> "refused"]
  /\ UNCHANGED << mgr, hooked, heap, stack, owned, told, faults >>

(* new uint8_t[size] throws before anything was changed. *)
NewThrows(n) ==
  /\ ~ Refuses(mgr, n)
  /\ answer' = [amount |-> n, result |-> "failed"]
  /\ UNCHANGED << mgr, hooked, heap, stack, owned, told, faults >>

(* push_back throws: the block is live and nobody has its address.         *)
PushBackThrows(n) ==
  /\ ~ Refuses(mgr, n)
  /\ n <= HeapMax
  /\ \E p \in Addr \ heap : heap' = heap \cup {p}
  /\ answer' = [amount |-> n, result |-> "failed"]
  /\ faults' = faults \cup {"push_back"}
  /\ UNCHANGED << mgr, hooked, stack, owned, told >>

(* The block is recorded and charged.  Without a callback the pointer is   *)
(* returned at once; with one, the callback starts first.                  *)
Allocate(n) ==
  /\ ~ Refuses(mgr, n)
  /\ n <= HeapMax
  /\ hooked => Len(stack) < MaxDepth
  /\ \E p \in Addr \ heap :
       /\ heap' = heap \cup {p}
       /\ mgr' = Track(mgr, p, n)
       /\ IF hooked
          THEN /\ told' = Pressure(mgr')
               /\ stack' = Append(stack, p)
               /\ UNCHANGED owned
          ELSE /\ owned' = owned \cup {p}
               /\ UNCHANGED << told, stack >>
  /\ answer' = [amount |-> n, result |-> "reserved"]
  /\ UNCHANGED << hooked, faults >>

(* Faulty variants: no delete[]; no notification after a free.             *)
DeallocateKeepingBlock(p) ==
  /\ p \in owned
  /\ hooked => Len(stack) < MaxDepth
  /\ mgr' = Untrack(mgr, p)
  /\ owned' = owned \ {p}
  /\ IF hooked
     THEN told' = Pressure(mgr') /\ stack' = Append(stack, NULL)
     ELSE UNCHANGED << told, stack >>
  /\ UNCHANGED << hooked, heap, answer, faults >>

DeallocateSilently(p) ==
  /\ p \in owned
  /\ mgr' = Untrack(mgr, p)
  /\ heap' = heap \ {p}
  /\ owned' = owned \ {p}
  /\ UNCHANGED << hooked, told, stack, answer, faults >>

(* deallocate of a pointer its caller owns. *)
Deallocate(p) ==
  /\ p \in owned
  /\ hooked => Len(stack) < MaxDepth
  /\ mgr' = Untrack(mgr, p)
  /\ heap' = heap \ {p}
  /\ owned' = owned \ {p}
  /\ IF hooked
     THEN told' = Pressure(mgr') /\ stack' = Append(stack, NULL)
     ELSE UNCHANGED << told, stack >>
  /\ UNCHANGED << hooked, answer, faults >>

(* Faulty variant: a deallocate would also return a pointer, nullptr.      *)
CallbackReturnsAnything ==
  /\ stack # << >>
  /\ stack' = Front(stack)
  /\ owned' = owned \cup {Last(stack)}
  /\ UNCHANGED << mgr, hooked, heap, told, answer, faults >>

(* The callback returns: its call ends, and an allocation hands over its   *)
(* pointer.                                                                *)
CallbackReturns ==
  /\ stack # << >>
  /\ stack' = Front(stack)
  /\ owned' = owned \cup ({Last(stack)} \ {NULL})
  /\ UNCHANGED << mgr, hooked, heap, told, answer, faults >>

(* The callback throws through allocate or deallocate, which have no       *)
(* handler: an allocation's pointer is gone with the call.                 *)
CallbackThrows ==
  /\ stack # << >>
  /\ stack' = Front(stack)
  /\ faults' = IF Last(stack) = NULL THEN faults ELSE faults \cup {"callback"}
  /\ UNCHANGED << mgr, hooked, heap, owned, told, answer >>

(* evict_inactive_modules and compress_kv_cache are stubs: no module is    *)
(* evicted and nothing compressed, and the answers are 0 and true.         *)
EvictOrCompress == UNCHANGED vars

Next ==
  \/ Register
  \/ \E n \in Sizes :
       AllocateRefused(n) \/ NewThrows(n) \/ PushBackThrows(n) \/ Allocate(n)
  \/ \E p \in Addr : Deallocate(p)
  \/ CallbackReturns
  \/ CallbackThrows
  \/ EvictOrCompress

Spec == Init /\ [][Next]_vars

-----------------------------------------------------------------------------
TypeOK ==
  /\ mgr \in Manager
  /\ hooked \in BOOLEAN
  /\ heap \subseteq Addr
  /\ stack \in Seq(Addr \cup {NULL})
  /\ owned \subseteq Addr
  /\ told \in Levels \cup {"none"}
  /\ answer \in [amount : Sizes \cup {0},
                 result : {"none", "reserved", "refused", "failed"}]
  /\ faults \subseteq {"push_back", "callback"}

(* However calls nest in callbacks, fail half way or wrap around, the      *)
(* byte counter is the sum of the recorded sizes, no block is recorded     *)
(* twice, and the budget is kept: what lets free_bytes be max - allocated. *)
LedgerSound == Consistent(mgr)

(* A pointer a caller has, or is about to be given, is a live block that   *)
(* is still charged to the budget; nothing recorded was freed already; and *)
(* no two callers get the same block.                                      *)
HoldersAreBacked ==
  /\ owned \cup Pending \subseteq Tracked(mgr)
  /\ Tracked(mgr) \subseteq heap
  /\ owned \cap Pending = {}
  /\ \A i, j \in DOMAIN stack : stack[i] = stack[j] /\ stack[i] # NULL => i = j

(* Memory is lost in two ways only: a block whose push_back failed is live *)
(* and off the books; a block whose callback threw is on the books and     *)
(* nobody can free it.                                                     *)
LossNeedsFault ==
  /\ "push_back" \notin faults => heap = Tracked(mgr)
  /\ "callback"  \notin faults => Tracked(mgr) = owned \cup Pending

(* The level a registered callback heard last is the level of the budget   *)
(* now, even when the callback itself allocated or freed.                  *)
ToldIsCurrent == told \in {"none", Pressure(mgr)}

(* A block stays charged, at its size, until its owner frees it: nothing   *)
(* the manager does for one block changes the entry of another.            *)
OnlyOwnersFree ==
  [][\A p \in Tracked(mgr) :
       IF p \in Tracked(mgr')
       THEN mgr'.allocations[IndexOf(mgr', p)] = mgr.allocations[IndexOf(mgr, p)]
       ELSE p \in owned \ heap']_vars

-----------------------------------------------------------------------------
(* The manager seen as a ledger: the tracked blocks are the reservations.  *)
Ledger ==
  INSTANCE BudgetLedger
  WITH Handle <- Addr, Amount <- Sizes,
       free   <- mgr.max - mgr.allocated,
       held   <- [p \in Tracked(mgr) |-> mgr.allocations[IndexOf(mgr, p)].size]

(* The manager implements the ledger: no reservation the free bytes do not *)
(* cover (the guard wraps at 2^64), no refusal of one they do cover, and   *)
(* every release gives back what was charged.                              *)
ImplementsLedger == Ledger!Spec
=============================================================================
