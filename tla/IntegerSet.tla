------------------------------ MODULE IntegerSet ------------------------------
(* What intSet.js promises: a set of integers; each call of its              *)
(* subtractInterval() takes the interval given from the set, and only that. *)
EXTENDS Integers

CONSTANT Bound    \* the integers are 0 .. Bound

VARIABLES
  members,
  start, end    \* the interval of the last call

vars == <<members, start, end>>

TypeOK ==
  /\ members \subseteq 0 .. Bound
  /\ start \in 0 .. Bound /\ end \in 0 .. Bound

Init ==
  /\ members \in SUBSET (0 .. Bound)
  /\ start = 0 /\ end = 0

Subtract(from, to) ==
  /\ start' = from /\ end' = to
  /\ members' = members \ (from .. to)

Next == \E from, to \in 0 .. Bound : Subtract(from, to)

Spec == Init /\ [][Next]_vars

===============================================================================
