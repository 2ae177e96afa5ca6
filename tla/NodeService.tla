---------------------------- MODULE NodeService ----------------------------
(***************************************************************************)
(* squad_runtime/services/node_service.py and the two repositories under   *)
(* it, for the nodes of one run: create_node and transition_node, called   *)
(* by several processes at once.                                           *)
(*                                                                         *)
(* transition_node reads the node, reads the run, and then commits three   *)
(* times: the status (guarded by WHERE status = from, whose row count is   *)
(* not looked at), the run's version, and the event.  A process may be     *)
(* preempted or killed between any two of them.                            *)
(*                                                                         *)
(* The event log is its length here: EventStore shows that an append reads *)
(* the next sequence number in one step, and in another either takes it or *)
(* raises IntegrityError because somebody else has.                        *)
(***************************************************************************)
EXTENDS NodeStatus, Integers, FiniteSets

CONSTANTS Proc,        \* processes with a Runtime of their own
          Node,        \* the task nodes of the run
          MaxCalls,    \* bound: no call starts once MaxCalls calls have ended
          MaxDeaths    \* bound: processes that die in a call

ASSUME NodeAssumption == Node # {} /\ MaxCalls \in Nat /\ MaxDeaths \in Nat

VARIABLES status,      \* task_nodes.status
          reason,      \* whether task_nodes.blocked_reason_code is set
          version,     \* squad_runs.version, from where the model starts
          length,      \* number of events of the run, likewise
          call,        \* the call each process is in
          audit,       \* history: the node_status_changed events of the log
          moved,       \* history: the changes of status that took place
          deaths       \* how many calls ended by death or IntegrityError

vars == <<status, reason, version, length, call, audit, moved, deaths>>

NoVersion == -1         \* expected_run_version=None

At == {"idle", "get_node", "get_run", "update", "bump", "read_seq", "insert"}
Moves == Node \X Status \X Status

Call == [at : At, node : Node, from : Status, to : Status, coded : BOOLEAN,
         expected : Nat \cup {NoVersion}, seen : Status,
         event : {"node_created", "node_status_changed", "transition_conflict"}, seq : Nat]

Idle == [at |-> "idle", node |-> CHOOSE n \in Node : TRUE, from |-> "todo", to |-> "ready",
         coded |-> FALSE, expected |-> NoVersion, seen |-> "todo",
         event |-> "node_created", seq |-> 0]

\* A run at any point of its life, with no call in progress.
Init == /\ status \in [Node -> Status \cup {Absent}]
        /\ reason = [n \in Node |-> status[n] = "blocked"]
        /\ version = 0
        /\ length = 0
        /\ call = [p \in Proc |-> Idle]
        /\ audit = {}
        /\ moved = {}
        /\ deaths = 0
-----------------------------------------------------------------------------
\* INSERT INTO task_nodes, then the node_created event
CreateNode(p, n) ==
    /\ call[p].at = "idle"
    /\ length + deaths < MaxCalls
    /\ status[n] = Absent
    /\ status' = [status EXCEPT ![n] = "todo"]
    /\ call' = [call EXCEPT ![p] = [Idle EXCEPT !.at = "read_seq", !.node = n]]
    /\ UNCHANGED <<reason, version, length, audit, moved, deaths>>

\* The checks that need no read.  A call that fails them changes nothing.
TransitionNode(p, n, from, to, coded, expected) ==
    /\ call[p].at = "idle"
    /\ length + deaths < MaxCalls
    /\ status[n] # Absent
    /\ to = "blocked" => coded
    /\ Allowed(from, to)
    /\ call' = [call EXCEPT ![p] =
                  [Idle EXCEPT !.at = "get_node", !.node = n, !.from = from, !.to = to,
                               !.coded = coded, !.expected = expected]]
    /\ UNCHANGED <<status, reason, version, length, audit, moved, deaths>>

GetNode(p) ==
    /\ call[p].at = "get_node"
    /\ call' = [call EXCEPT ![p] = [@ EXCEPT !.seen = status[call[p].node], !.at = "get_run"]]
    /\ UNCHANGED <<status, reason, version, length, audit, moved, deaths>>

\* Mutant: only the version is compared.
ConflictOfVersion(c) == c.expected # NoVersion /\ c.expected # version

\* Both conflicts append a transition_conflict event and raise.
Conflict(c) == \/ c.expected # NoVersion /\ c.expected # version
               \/ c.seen # c.from

GetRun(p) ==
    /\ call[p].at = "get_run"
    /\ IF Conflict(call[p])
       THEN call' = [call EXCEPT ![p] = [@ EXCEPT !.at = "read_seq", !.event = "transition_conflict"]]
       ELSE call' = [call EXCEPT ![p] = [@ EXCEPT !.at = "update", !.expected = NoVersion]]
    /\ UNCHANGED <<status, reason, version, length, audit, moved, deaths>>

\* Mutant: no AND status = from.
MatchesAlways(c) == TRUE

\* UPDATE task_nodes SET status = to WHERE id = node AND status = from
Matches(c) == status[c.node] = c.from

UpdateStatus(p) ==
    LET c == call[p] IN
    /\ c.at = "update"
    /\ IF Matches(c)
       THEN /\ status' = [status EXCEPT ![c.node] = c.to]
            /\ reason' = [reason EXCEPT ![c.node] = c.coded]
            /\ moved' = moved \cup {<<c.node, c.from, c.to>>}
       ELSE UNCHANGED <<status, reason, moved>>
    /\ call' = [call EXCEPT ![p].at = "bump"]
    /\ UNCHANGED <<version, length, audit, deaths>>

\* Mutant: the event is forgotten.
IncrementVersionSilently(p) ==
    /\ call[p].at = "bump"
    /\ version' = version + 1
    /\ call' = [call EXCEPT ![p] = Idle]
    /\ UNCHANGED <<status, reason, length, audit, moved, deaths>>

IncrementVersion(p) ==
    /\ call[p].at = "bump"
    /\ version' = version + 1
    /\ call' = [call EXCEPT ![p] = [@ EXCEPT !.at = "read_seq", !.event = "node_status_changed"]]
    /\ UNCHANGED <<status, reason, length, audit, moved, deaths>>

ReadSequence(p) ==
    /\ call[p].at = "read_seq"
    /\ call' = [call EXCEPT ![p] = [@ EXCEPT !.seq = length + 1, !.at = "insert"]]
    /\ UNCHANGED <<status, reason, version, length, audit, moved, deaths>>

InsertEvent(p) ==
    LET c == call[p] IN
    /\ c.at = "insert"
    /\ c.seq = length + 1
    /\ length' = length + 1
    /\ audit' = IF c.event = "node_status_changed"
                THEN audit \cup {<<c.node, c.from, c.to>>} ELSE audit
    /\ call' = [call EXCEPT ![p] = Idle]
    /\ UNCHANGED <<status, reason, version, moved, deaths>>

InsertFails(p) ==
    /\ call[p].at = "insert"
    /\ call[p].seq <= length
    /\ deaths' = deaths + 1
    /\ call' = [call EXCEPT ![p] = Idle]
    /\ UNCHANGED <<status, reason, version, length, audit, moved>>

Crash(p) ==
    /\ call[p].at # "idle"
    /\ deaths < MaxDeaths
    /\ deaths' = deaths + 1
    /\ call' = [call EXCEPT ![p] = Idle]
    /\ UNCHANGED <<status, reason, version, length, audit, moved>>

\* Callers pass the status and the version they have read, which may be stale
\* by the time of the call's own reads, and a reason code for blocked only; the
\* acceptance runner takes the nodes that it has created for todo.
Request(p, n) ==
    \/ \E to \in Status, expected \in {NoVersion, version} : \E coded \in {to = "blocked", FALSE} :
           TransitionNode(p, n, status[n], to, coded, expected)
    \/ TransitionNode(p, n, "todo", "ready", FALSE, NoVersion)

Next == \E p \in Proc :
    \/ \E n \in Node : CreateNode(p, n) \/ Request(p, n)
    \/ GetNode(p) \/ GetRun(p) \/ UpdateStatus(p) \/ IncrementVersion(p)
    \/ ReadSequence(p) \/ InsertEvent(p) \/ InsertFails(p) \/ Crash(p)

Spec == Init /\ [][Next]_vars
-----------------------------------------------------------------------------
(***************************************************************************)
(* Properties                                                              *)
(***************************************************************************)

\* Every variable holds values of its type.
TypeOK ==
    /\ status \in [Node -> Status \cup {Absent}]
    /\ reason \in [Node -> BOOLEAN]
    /\ version \in Nat
    /\ length \in Nat
    /\ call \in [Proc -> Call]
    /\ audit \subseteq Moves
    /\ moved \subseteq Moves
    /\ deaths \in Nat

\* However the reads and commits of concurrent calls interleave, a node only
\* ever moves along an allowed transition; stale and done nodes stay so.
Machine == INSTANCE NodeMachine
ImplementsMachine == Machine!Spec

\* The checks of a call in progress have been made, and its node has a row.
CallChecked ==
    \A p \in Proc :
        /\ call[p].at \in {"get_node", "get_run", "update"} =>
             /\ Allowed(call[p].from, call[p].to)
             /\ call[p].to = "blocked" => call[p].coded
        /\ call[p].at = "get_node" => status[call[p].node] # Absent

MachineInv == TypeOK /\ CallChecked

\* A node never waits as blocked without a reason code.
BlockedHasReason == \A n \in Node : status[n] = "blocked" => reason[n]

\* A node_status_changed event always names a status that the node had and
\* left.  (It need not name where the node went: the loser of two concurrent
\* transitions records its own target.)
AuditNamesRealSource ==
    \A e \in audit : \E m \in moved : m[1] = e[1] /\ m[2] = e[2]

\* Some call has moved the node of c out of the status that c names.
Left(c) == \E m \in moved : m[1] = c.node /\ m[2] = c.from

\* c has passed its version bump and is about to append node_status_changed.
Announces(c) == c.at \in {"read_seq", "insert"} /\ c.event = "node_status_changed"

\* Why the events name real sources: a call that has read its node in the
\* status it names finds it there, or somebody else has moved it from there.
SourceInv ==
    /\ AuditNamesRealSource
    /\ \A p \in Proc : LET c == call[p] IN
         /\ c.at = "update" \/ (c.at = "get_run" /\ c.seen = c.from) =>
              status[c.node] = c.from \/ Left(c)
         /\ c.at = "bump" \/ Announces(c) => Left(c)

\* Once no call is in progress, and none has died, every change of status has
\* its node_status_changed event, nor is one lost to the version that
\* optimistic callers compare: the three are committed one after the other.
Quiet == deaths = 0 /\ \A p \in Proc : call[p].at = "idle"
MovesRecorded == Quiet => moved \subseteq audit /\ version >= Cardinality(moved)

\* Why no change goes unrecorded: while nobody has died, the call that made a
\* change still carries it, and a change whose version is still to be counted
\* has a call of its own.
Bumping == {p \in Proc : call[p].at = "bump"}
Carries(c, m) == (c.at = "bump" \/ Announces(c)) /\ m = <<c.node, c.from, c.to>>
MovesInv ==
    /\ IsFiniteSet(moved) /\ IsFiniteSet(Bumping)
    /\ deaths = 0 =>
         /\ \A m \in moved : m \in audit \/ \E p \in Proc : Carries(call[p], m)
         /\ version + Cardinality(Bumping) >= Cardinality(moved)
=============================================================================
