----------------------------- MODULE HeapManager -----------------------------
(***************************************************************************)
(* The data of HeapMemoryManager (src/memory/memory_manager.{h,cpp}) and   *)
(* what each of its methods does to it: the budget, the byte counter and   *)
(* the vector of blocks.  The state machines MemoryManager (the manager    *)
(* alone, with its pressure callback) and Runtime (the manager inside      *)
(* LLMRuntimeImpl) are both built from these operators.                    *)
(*                                                                         *)
(* Byte counts are uint64_t in the code: they live in 0 .. Width-1 here    *)
(* and every sum and difference wraps at Width.                            *)
(***************************************************************************)
EXTENDS Integers, Sequences, SequencesExt

CONSTANTS
  Width,    \* number of values of uint64_t (2^64 in the code)
  HeapMax,  \* largest n for which operator new[](n) can succeed
  Budgets,  \* values of max_memory_bytes a manager is constructed with
  Addr,     \* addresses the heap hands out
  NULL      \* nullptr

(* The only assumption on sizes: a budget and the largest object the heap  *)
(* can give do not add up to 2^64.  A budget is an amount of RAM, and no   *)
(* allocator returns an object of PTRDIFF_MAX (2^63 - 1) bytes or more.    *)
ASSUME WidthAssumption ==
  /\ Width \in Nat \ {0}
  /\ HeapMax \in Nat
  /\ Budgets \subseteq Nat
  /\ \A b \in Budgets : b + HeapMax < Width

ASSUME NullAssumption == NULL \notin Addr

Bytes == 0 .. Width - 1

Plus(a, b)  == (a + b) % Width
MinusSwapped(a, b) == b - a     \* faulty variant, for the model checker
Minus(a, b) == (a - b) % Width

Levels == {"NORMAL", "MODERATE", "HIGH", "CRITICAL"}

Manager ==
  [max         : Bytes,
   allocated   : Bytes,
   allocations : Seq([ptr : Addr, size : Bytes])]

NewManager(budget) ==
  [max |-> budget, allocated |-> 0, allocations |-> << >>]

(* The blocks the manager has on record. *)
Tracked(m) == {m.allocations[i].ptr : i \in DOMAIN m.allocations}

(* Faulty variants the model checker must tell from the code. *)
RefusesWhenFull(m, n)    == m.allocated >= m.max
RefusesExactFit(m, n)    == Plus(m.allocated, n) >= m.max
IndexOfLatest(m, p)      == Len(m.allocations)
TrackUncharged(m, p, n)  ==
  [m EXCEPT !.allocations = Append(@, [ptr |-> p, size |-> n])]

(* The guard of every allocation, computed in uint64_t as the code does.   *)
Refuses(m, n) == Plus(m.allocated, n) > m.max

(* What allocate_weights does to the record once new[] has returned p.     *)
(* allocate_temp and allocate_kv_cache are calls of allocate_weights.      *)
Track(m, p, n) ==
  [max         |-> m.max,
   allocated   |-> Plus(m.allocated, n),
   allocations |-> Append(m.allocations, [ptr |-> p, size |-> n])]

(* std::find_if: the first entry whose pointer is p. *)
IndexOf(m, p) ==
  CHOOSE i \in DOMAIN m.allocations :
    /\ m.allocations[i].ptr = p
    /\ \A j \in DOMAIN m.allocations : m.allocations[j].ptr = p => i <= j

(* deallocate: a pointer that is not on record leaves the record alone.    *)
Untrack(m, p) ==
  IF p \in Tracked(m)
  THEN [max         |-> m.max,
        allocated   |-> Minus(m.allocated, m.allocations[IndexOf(m, p)].size),
        allocations |-> RemoveAt(m.allocations, IndexOf(m, p))]
  ELSE m

(* calculate_pressure: allocated/max compared with 0.5, 0.7 and 0.9.  A    *)
(* zero budget divides 0 by 0: NaN fails every comparison, hence CRITICAL. *)
(* Exact ratios stand for the float ones (README, "Bounds").               *)
Pressure(m) ==
  CASE m.max = 0                       -> "CRITICAL"
    [] m.max # 0 /\ 10 * m.allocated < 5 * m.max -> "NORMAL"
    [] m.max # 0 /\ 10 * m.allocated \in 5 * m.max .. 7 * m.max - 1 -> "MODERATE"
    [] m.max # 0 /\ 10 * m.allocated \in 7 * m.max .. 9 * m.max - 1 -> "HIGH"
    [] OTHER                           -> "CRITICAL"

(* get_stats().free_bytes *)
FreeBytes(m) == Minus(m.max, m.allocated)

(* S is the running total of the sizes in the first i entries.             *)
IsRunningTotal(S, entries) ==
  /\ S[0] = 0
  /\ \A i \in 1 .. Len(entries) : S[i] = S[i-1] + entries[i].size
  /\ \A i, j \in 0 .. Len(entries) : i <= j => S[i] <= S[j]

(* The counter is the sum of the sizes on record (as integers: no wrapping *)
(* has happened).                                                          *)
Balanced(m) ==
  \E S \in [0 .. Len(m.allocations) -> 0 .. m.allocated] :
    /\ IsRunningTotal(S, m.allocations)
    /\ S[Len(m.allocations)] = m.allocated

Distinct(m) ==
  \A i, j \in DOMAIN m.allocations :
    m.allocations[i].ptr = m.allocations[j].ptr => i = j

(* What a manager's record must satisfy between any two calls.             *)
Consistent(m) ==
  /\ m \in Manager
  /\ m.max \in Budgets
  /\ m.allocated <= m.max
  /\ Distinct(m)
  /\ Balanced(m)
=============================================================================
