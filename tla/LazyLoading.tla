----------------------------- MODULE LazyLoading -----------------------------
(***************************************************************************)
(* What the runtime promises its client about memory, without its manager, *)
(* its pointers, its nested calls or the order it loads things in: a call  *)
(* takes all the memory the machine's tier needs or is refused for want of *)
(* it, answers only while it has all of it, and gives it back.  A call     *)
(* that an exception ends may leave its blocks behind, until a shutdown.   *)
(*                                                                         *)
(* The promise is given up for good (Void) when a block is lost or the     *)
(* runtime is called from inside a call.  The budget is kept even then.    *)
(***************************************************************************)
EXTENDS Integers

CONSTANTS Block, Budgets, Needs

VARIABLES
  stage,   \* "new", "idle", "loading", "serving", "abandoned" or "void"
  budget,  \* bytes there are for calls
  need,    \* bytes a call takes
  used,    \* bytes charged to the budget
  blocks,  \* the blocks in use
  reply    \* how the last operation ended

vars == << stage, budget, need, used, blocks, reply >>

Init ==
  /\ stage = "new"
  /\ budget = 0
  /\ need = 0
  /\ used = 0
  /\ blocks = {}
  /\ reply = "none"

(* A machine is chosen while nothing is in use. *)
Configure ==
  /\ stage \in {"new", "idle"}
  /\ stage' = "idle"
  /\ budget' \in Budgets
  /\ need' \in Needs
  /\ reply' = "none"
  /\ UNCHANGED << used, blocks >>

Begin ==
  /\ stage = "idle"
  /\ stage' = "loading"
  /\ UNCHANGED << budget, need, used, blocks, reply >>

(* One more block, within the budget and within what a call needs. *)
Reserve ==
  /\ stage = "loading"
  /\ \E b \in Block \ blocks : blocks' = blocks \cup {b}
  /\ used' \in used .. need
  /\ used' <= budget
  /\ UNCHANGED << stage, budget, need, reply >>

(* Everything a call needs is there, no more and no less. *)
Serve ==
  /\ stage = "loading"
  /\ used = need
  /\ stage' = "serving"
  /\ UNCHANGED << budget, need, used, blocks, reply >>

(* The call or the client gives everything back. *)
GiveBack(r) ==
  /\ stage' = "idle"
  /\ used' = 0
  /\ blocks' = {}
  /\ reply' = r
  /\ UNCHANGED << budget, need >>

Finish == stage = "serving" /\ GiveBack("ok")

(* The machine is too small for any call, whatever was called before.      *)
Refuse == stage = "loading" /\ need > budget /\ GiveBack("error")

(* The memory is there, the backend is not. *)
Unavailable == stage = "loading" /\ used = need /\ GiveBack("error")

(* An exception ends the call; what is in use stays so. *)
Throw ==
  /\ stage \in {"loading", "serving"}
  /\ stage' = IF blocks = {} THEN "idle" ELSE "abandoned"
  /\ reply' = "threw"
  /\ UNCHANGED << budget, need, used, blocks >>

Shutdown ==
  \/ /\ stage = "new"
     /\ reply' = "shutdown"
     /\ UNCHANGED << stage, budget, need, used, blocks >>
  \/ stage \in {"idle", "abandoned"} /\ GiveBack("shutdown")

Void ==
  /\ stage' = "void"
  /\ budget' \in Budgets
  /\ need' \in Needs
  /\ used' \in 0 .. budget'
  /\ blocks' \subseteq Block
  /\ reply' \in {"none", "ok", "error", "threw", "shutdown"}

Next ==
  \/ Configure
  \/ Begin \/ Reserve \/ Serve \/ Finish
  \/ Refuse \/ Unavailable \/ Throw
  \/ Shutdown
  \/ Void

Spec == Init /\ [][Next]_vars
=============================================================================
