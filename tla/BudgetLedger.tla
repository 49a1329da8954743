---------------------------- MODULE BudgetLedger ----------------------------
(***************************************************************************)
(* What a memory manager promises its clients, without its vector, its     *)
(* counter, its callback or its machine arithmetic: a reservation is made  *)
(* exactly when the free bytes cover it, and a release gives back exactly  *)
(* what that handle reserved.                                              *)
(***************************************************************************)
EXTENDS Integers

CONSTANTS Handle, Amount, Budgets

VARIABLES
  free,    \* bytes not reserved
  held,    \* handle -> bytes, for the handles in use
  answer   \* the last reservation attempt and how it ended

vars == << free, held, answer >>

Init ==
  /\ free \in Budgets
  /\ held = [h \in {} |-> 0]
  /\ answer = [amount |-> 0, result |-> "none"]

Reserve(h, n) ==
  /\ h \notin DOMAIN held
  /\ n <= free
  /\ free' = free - n
  /\ held' = [g \in DOMAIN held \cup {h} |-> IF g = h THEN n ELSE held[g]]
  /\ answer' = [amount |-> n, result |-> "reserved"]

Refuse(n) ==
  /\ n > free
  /\ answer' = [amount |-> n, result |-> "refused"]
  /\ UNCHANGED << free, held >>

(* The memory itself could not be had: nothing is reserved. *)
Fail(n) ==
  /\ answer' = [amount |-> n, result |-> "failed"]
  /\ UNCHANGED << free, held >>

Release(h) ==
  /\ h \in DOMAIN held
  /\ free' = free + held[h]
  /\ held' = [g \in DOMAIN held \ {h} |-> held[g]]
  /\ UNCHANGED answer

Next ==
  \/ \E n \in Amount : Refuse(n) \/ Fail(n) \/ \E h \in Handle : Reserve(h, n)
  \/ \E h \in Handle : Release(h)

Spec == Init /\ [][Next]_vars
=============================================================================
