----------------------------- MODULE WaitingLine -----------------------------
(***************************************************************************)
(* What a server that takes one customer at a time promises to those who   *)
(* come: a line that grows at its end, and whose head is answered.         *)
(***************************************************************************)
EXTENDS Sequences, SequencesExt

CONSTANT Customers

VARIABLES
  line,      \* the customers waiting, in the order in which they came
  answered,  \* the customers that have been answered
  door       \* "shut" before the first may come, "open", and "closed" for good

lineVars == << line, answered, door >>

Init ==
  /\ line = << >>
  /\ answered = {}
  /\ door = "shut"

Open ==
  /\ door = "shut"
  /\ door' = "open"
  /\ UNCHANGED << line, answered >>

Join(c) ==
  /\ door = "open"
  /\ c \notin answered \cup ToSet(line)
  /\ line' = Append(line, c)
  /\ UNCHANGED << answered, door >>

Answer ==
  /\ door = "open"
  /\ line # << >>
  /\ answered' = answered \cup {Head(line)}
  /\ line' = Tail(line)
  /\ UNCHANGED door

(* Those who still wait are left where they are. *)
Close ==
  /\ door # "closed"
  /\ door' = "closed"
  /\ UNCHANGED << line, answered >>

Next == Open \/ (\E c \in Customers : Join(c)) \/ Answer \/ Close

Spec == Init /\ [][Next]_lineVars
=============================================================================
