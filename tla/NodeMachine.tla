---------------------------- MODULE NodeMachine ----------------------------
(***************************************************************************)
(* What the runtime promises of a task node, whatever its callers do: it   *)
(* is created as todo and then moves along the allowed transitions only,   *)
(* so that stale and done nodes never move again.                          *)
(***************************************************************************)
EXTENDS NodeStatus

CONSTANT Node

VARIABLE status

Init == status \in [Node -> Status \cup {Absent}]

Create(n) == /\ status[n] = Absent
             /\ status' = [status EXCEPT ![n] = "todo"]

Move(n, to) == /\ status[n] \in Status
               /\ Allowed(status[n], to)
               /\ status' = [status EXCEPT ![n] = to]

Next == \E n \in Node : Create(n) \/ \E to \in Status : Move(n, to)

Spec == Init /\ [][Next]_status
=============================================================================
