------------------------------- MODULE Facade -------------------------------
(***************************************************************************)
(* Operations of the runtime facade (runtime.py) and of the lead's engines *)
(* (lead_decision.py, decisions.py) that are made of several commits: a    *)
(* row and the events about it, a dry run that reads one node after the    *)
(* other, and the recovery of running nodes.  Others move the nodes in     *)
(* between (NodeService), and any append may raise (EventStore).           *)
(***************************************************************************)
EXTENDS Naturals, SequencesExt, NodeStatus

CONSTANTS Clerk,    \* processes
          Node,
          Plan,     \* the change sets that are validated: sequences of [op, node]
          Target,   \* the statuses that others move nodes to
          MaxCalls, \* bound: calls
          MaxInterrupts  \* bound: calls that raise or die

\* Any change set, an empty one too.
Operations == UNION {Range(plan) : plan \in Plan}
ASSUME FacadeAssumption == IsFiniteSet(Node) /\ Node \cap Nat = {} /\ Plan \subseteq Seq(Operations)

VARIABLES nodes,
          rows,   \* the runs and directives, by kind
          events, \* the events: their type and what they are about
          job,    \* what each process does
          calls, interrupts

facadeVars == <<nodes, rows, events, job, calls, interrupts>>

\* seen and left are history: the nodes a call has found done or running, and those that
\* have left running since.
NoJob == [at |-> "idle", row |-> 0, plan |-> <<>>, todo |-> <<>>, errors |-> {},
          seen |-> {}, left |-> {}]

FacadeInit == /\ nodes \in [Node -> {"running", "pass"}]
              /\ rows = <<>> /\ events = <<>>
              /\ job = [p \in Clerk |-> NoJob]
              /\ calls = 0 /\ interrupts = 0

Busy(p) == job[p].at \notin {"idle", "returned", "accepted", "rejected", "recovered"}
Enter(p, j) == ~Busy(p) /\ calls < MaxCalls /\ calls' = calls + 1 /\ job' = [job EXCEPT ![p] = j]
Continue(p, j) == job' = [job EXCEPT ![p] = j] /\ UNCHANGED calls

Left(n) == [p \in Clerk |-> IF n \in job[p].seen /\ job[p].at \in {"check", "update", "event"}
                            THEN [job[p] EXCEPT !.left = @ \cup {n}] ELSE job[p]]

\* Anybody else moves a node.
MoveNode(n, to) ==
    /\ Allowed(nodes[n], to)
    /\ nodes' = [nodes EXCEPT ![n] = to]
    /\ job' = IF nodes[n] = "running" THEN Left(n) ELSE job
    /\ UNCHANGED <<rows, events, calls, interrupts>>
-----------------------------------------------------------------------------
(***************************************************************************)
(* create_run(), record_directive() and apply_directive(): a row, and then *)
(* its events one by one.                                                  *)
(***************************************************************************)
\* Mutant: what was decided is recorded before the attempt to get around the gates.
TrailDecidedFirst(kind) ==
    CASE kind = "run" -> <<"run_created">>
      [] kind = "directive" -> <<"directive_recorded", "decision_applied">>
      [] kind = "bypass" -> <<"directive_recorded", "decision_applied", "gate_bypass_attempt">>
Trail(kind) ==
    CASE kind = "run" -> <<"run_created">>
      [] kind = "directive" -> <<"directive_recorded", "decision_applied">>
      [] kind = "bypass" -> <<"directive_recorded", "gate_bypass_attempt", "decision_applied">>

InsertRow(p, kind) ==
    /\ Enter(p, [NoJob EXCEPT !.at = "trail", !.row = Len(rows) + 1, !.todo = Trail(kind)])
    /\ rows' = Append(rows, kind)
    /\ UNCHANGED <<nodes, events, interrupts>>

AppendTrail(p) ==
    LET j == job[p] IN
    /\ j.at = "trail"
    /\ events' = Append(events, [type |-> Head(j.todo), about |-> j.row])
    /\ Continue(p, [j EXCEPT !.todo = Tail(@), !.at = IF Len(j.todo) = 1 THEN "returned" ELSE "trail"])
    /\ UNCHANGED <<nodes, rows, interrupts>>
-----------------------------------------------------------------------------
(***************************************************************************)
(* DecisionDryRun.validate(): one operation after the other, each against  *)
(* the node of the moment.                                                 *)
(***************************************************************************)
Validate(p, plan) ==
    /\ Enter(p, [NoJob EXCEPT !.at = IF plan = <<>> THEN "accepted" ELSE "validate",
                              !.plan = plan, !.todo = plan,
                              !.seen = {n \in Node : nodes[n] = "done"}])
    /\ UNCHANGED <<nodes, rows, events, interrupts>>

Protected == {"mark_stale", "update_node", "reroute"}
ErrorsOf(o) == IF o.node \notin Node THEN {"unknown_node"}
               ELSE IF nodes[o.node] = "done" /\ o.op \in Protected THEN {"done_node_protected"} ELSE {}

\* Mutant: the errors of the last operation are the errors.
WithErrorsOfLast(j) == ErrorsOf(Head(j.todo))
WithErrors(j) == j.errors \cup ErrorsOf(Head(j.todo))

CheckOperation(p) ==
    LET j == job[p]
        errors == WithErrors(j)
    IN
    /\ j.at = "validate"
    /\ Continue(p, [j EXCEPT !.todo = Tail(@), !.errors = errors,
                             !.at = IF Len(j.todo) > 1 THEN "validate"
                                    ELSE IF errors = {} THEN "accepted" ELSE "reject"])
    /\ UNCHANGED <<nodes, rows, events, interrupts>>

Reject(p) ==
    /\ job[p].at = "reject"
    /\ events' = Append(events, [type |-> "decision_rejected", about |-> 0])
    /\ Continue(p, [job[p] EXCEPT !.at = "rejected"])
    /\ UNCHANGED <<nodes, rows, interrupts>>
-----------------------------------------------------------------------------
(***************************************************************************)
(* recover_running_dispatches(): the nodes are listed once.  The           *)
(* transition compares the status when it reads the node and again in its  *)
(* UPDATE; in the first case it raises, and what is left is not recovered. *)
(***************************************************************************)
Running == {n \in Node : nodes[n] = "running"}
Onward(j) == [j EXCEPT !.at = IF j.todo = <<>> THEN "recovered" ELSE "check"]

RecoverRunningDispatches(p) ==
    /\ \E order \in SetToSeqs(Running) : Enter(p, Onward([NoJob EXCEPT !.todo = order, !.seen = Running]))
    /\ UNCHANGED <<nodes, rows, events, interrupts>>

CheckRunning(p) ==
    LET j == job[p] IN
    /\ j.at = "check"
    /\ IF nodes[Head(j.todo)] = "running"
       THEN Continue(p, [j EXCEPT !.at = "update"]) /\ UNCHANGED events
       ELSE /\ Continue(p, NoJob)
            /\ events' = Append(events, [type |-> "transition_conflict", about |-> Head(j.todo)])
    /\ UNCHANGED <<nodes, rows, interrupts>>

\* UPDATE ... WHERE status = running, and the rest of the transition.
UpdateRunning(p) ==
    LET n == Head(job[p].todo) IN
    /\ job[p].at = "update"
    /\ nodes' = [nodes EXCEPT ![n] = IF @ = "running" THEN "agent_unavailable" ELSE @]
    /\ job' = [Left(n) EXCEPT ![p].at = "event"]
    /\ UNCHANGED <<rows, events, calls, interrupts>>

AppendRecovery(p) ==
    LET j == job[p] IN
    /\ j.at = "event"
    /\ events' = Append(events, [type |-> "server_restart_dispatch_recovery", about |-> Head(j.todo)])
    /\ Continue(p, Onward([j EXCEPT !.todo = Tail(@)]))
    /\ UNCHANGED <<nodes, rows, interrupts>>
-----------------------------------------------------------------------------
\* A call dies, or an append of its raises.
Interrupt(p) ==
    /\ Busy(p)
    /\ interrupts < MaxInterrupts /\ interrupts' = interrupts + 1
    /\ Continue(p, NoJob)
    /\ UNCHANGED <<nodes, rows, events>>

FacadeNext ==
    \/ \E n \in Node, to \in Target : MoveNode(n, to)
    \/ \E p \in Clerk :
        \/ \E kind \in {"run", "directive", "bypass"} : InsertRow(p, kind)
        \/ \E plan \in Plan : Validate(p, plan)
        \/ AppendTrail(p) \/ CheckOperation(p) \/ Reject(p)
        \/ RecoverRunningDispatches(p) \/ CheckRunning(p) \/ UpdateRunning(p) \/ AppendRecovery(p)
        \/ Interrupt(p)

FacadeSpec == FacadeInit /\ [][FacadeNext]_facadeVars
-----------------------------------------------------------------------------
\* The events about a row are the first n of its trail, in this order.
OnRecord(r, trail, n) ==
    \E place \in [1..n -> DOMAIN events] :
        /\ \A i, j \in 1..n : i < j => place[i] < place[j]
        /\ \A i \in 1..n : events[place[i]] = [type |-> trail[i], about |-> r]
        /\ {k \in DOMAIN events : events[k].about = r} = Range(place)
WholeTrail(r, trail) == OnRecord(r, trail, Len(trail))

\* What a directive has led to is never on record without what came first: a decision not
\* without the attempt to get around the gates, neither without the directive itself and
\* its row; and all of it is when the call returns (lead_decision.py:23-42).
TrailsInOrder ==
    /\ \A r \in DOMAIN rows :
           LET decided == \E k \in DOMAIN events : events[k] = [type |-> "decision_applied", about |-> r]
           IN  rows[r] = "bypass" /\ decided =>
                   WholeTrail(r, <<"directive_recorded", "gate_bypass_attempt", "decision_applied">>)
    /\ \A p \in Clerk : job[p].at = "returned" => WholeTrail(job[p].row, Trail(rows[job[p].row]))

\* Why: each row has one call that writes its trail, and the call has what is not there yet.
Pending(j, trail, n) ==
    /\ j.at = "trail" => /\ n < Len(trail) /\ Len(j.todo) = Len(trail) - n
                         /\ \A i \in DOMAIN j.todo : j.todo[i] = trail[n + i]
    /\ j.at = "returned" => n = Len(trail)
TrailInv ==
    /\ \A k \in DOMAIN events : events[k].about \in Node \cup 0..Len(rows)
    /\ \A p \in Clerk : job[p].at \in {"trail", "returned"} => job[p].row \in DOMAIN rows
    /\ \A p, q \in Clerk :
           job[p].at = "trail" /\ job[q].at = "trail" /\ job[p].row = job[q].row => p = q
    /\ \A r \in DOMAIN rows :
           \E n \in 0..Len(Trail(rows[r])) :
               /\ OnRecord(r, Trail(rows[r]), n)
               /\ \A p \in Clerk : job[p].row = r => Pending(job[p], Trail(rows[r]), n)

\* A change set that is accepted touches no node that was done when its validation began,
\* though every operation is checked against another moment (decisions.py:34-66).
AcceptedSparesDone ==
    \A p \in Clerk : job[p].at = "accepted" =>
        \A i \in DOMAIN job[p].plan :
            job[p].plan[i].op \in Protected => job[p].plan[i].node \notin job[p].seen

\* When a recovery returns, every node it has found running has left running since -- by
\* itself or by the dispatch command that is still at work (runtime.py:270-282).
RecoveryClears == \A p \in Clerk : job[p].at = "recovered" => job[p].seen \subseteq job[p].left

\* What a call has concluded from nodes it read one by one holds when it returns.
AnswersHold == AcceptedSparesDone /\ RecoveryClears

\* Why: a node that is done stays done, so that the operations before those still to be
\* checked spare what was done at the beginning; and a recovery still has in its list
\* what has not left running yet.
Validated(j) ==
    LET checked == Len(j.plan) - Len(j.todo) IN
    j.at \in {"validate", "accepted"} =>
        /\ Len(j.todo) <= Len(j.plan)
        /\ \A i \in DOMAIN j.todo : j.todo[i] = j.plan[checked + i]
        /\ j.errors = {} =>
               \A i \in 1..checked : j.plan[i].op \in Protected => j.plan[i].node \notin j.seen
        /\ IF j.at = "validate" THEN j.todo # <<>> /\ \A n \in j.seen : nodes[n] = "done"
           ELSE j.todo = <<>> /\ j.errors = {}
Recovering(j) ==
    /\ j.at \in {"check", "update", "event"} =>
           /\ j.todo # <<>> /\ Range(j.todo) \subseteq j.seen
           /\ j.seen \subseteq j.left \cup Range(j.todo)
           /\ j.at = "event" => Head(j.todo) \in j.left
    /\ j.at = "recovered" => j.seen \subseteq j.left
AnswersInv == \A p \in Clerk : Validated(job[p]) /\ Recovering(job[p])
=============================================================================
