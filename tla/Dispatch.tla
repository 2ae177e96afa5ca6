------------------------------ MODULE Dispatch ------------------------------
(***************************************************************************)
(* `squad dispatch` (cli.py): the scheduler's selection, the adapter with  *)
(* its fallback, the session of a provider (LocalCliProvider runs a real   *)
(* CLI, FakeCliProvider answers "pass" at once), and what happens to the   *)
(* agent's result (agent_result_service.py).                               *)
(*                                                                         *)
(* A command selects its candidates from one snapshot and then works them  *)
(* off one after the other, for minutes each, while operators, other       *)
(* commands and the API move the same nodes.  transition_node is the check *)
(* and the guarded UPDATE of NodeService, with the event after it.  The    *)
(* nodes' owners and checkpoints never change.                             *)
(***************************************************************************)
EXTENDS NodeStatus, Naturals, FiniteSets

CONSTANTS Proc,          \* the processes that run `squad dispatch`
          Node,          \* the run's nodes
          Rank,          \* Rank[n] is the place of n in what list_nodes returns
          Owner,         \* Owner[n] is the agent that owns node n
          Automatic,     \* nodes whose owner's profile has fallback_mode automatic
                         \* (none of AgentRegistry.default(), which the command uses)
          InitialStatus, \* the statuses the nodes may have when the model starts
          Limits,        \* the values of the scheduler's global_limit
          AgentLimit,    \* per_agent_type_limit
          Outcome,       \* what may come of the provider's CLI
          MaxSessions,   \* bound: no selection once MaxSessions have started
          MaxMoves,      \* bound: transitions by anybody but the dispatchers
          MaxFaults      \* bound: deaths, and appends that raise IntegrityError

Verdict  == {"pass", "fail", "blocked"}
Outcomes == Verdict \cup {"unavailable", "invalid", "malformed"}
Provider == {"local_cli", "fake_cli"}

ASSUME DispatchAssumption ==
    /\ Node # {} /\ IsFiniteSet(Node)
    /\ Rank \in [Node -> Nat] /\ \A m, n \in Node : Rank[m] = Rank[n] => m = n
    /\ Automatic \subseteq Node
    /\ InitialStatus \subseteq Status \ {"pass", "fail"}
    /\ Outcome \subseteq Outcomes
    /\ Limits \subseteq Nat /\ Limits # {} /\ AgentLimit \in Nat
    /\ MaxSessions \in Nat /\ MaxMoves \in Nat /\ MaxFaults \in Nat

VARIABLES status,     \* task_nodes.status
          results,    \* agent_results
          started,    \* number of llm_session_started events; they name the sessions
          completed,  \* the sessions that have an llm_session_completed event
          task,       \* the work each dispatching process is in
          claims,     \* history: how often each node has become running
          raised,     \* history: the claims whose command an answer ended by raising
          moves, faults

vars == <<status, results, started, completed, task, claims, raised, moves, faults>>

Phase == {"idle", "open", "look", "check", "update", "log", "work", "settle",
          "persist", "submit", "apply", "complete", "gates"}

Task == [at : Phase, queue : SUBSET Node, node : Node, provider : Provider,
         fallback : BOOLEAN, session : Nat, from : Status, to : Status, claim : Nat]
Idle == [at |-> "idle", queue |-> {}, node |-> CHOOSE n \in Node : TRUE,
         provider |-> "local_cli", fallback |-> FALSE, session |-> 0,
         from |-> "ready", to |-> "running", claim |-> 0]
Result == [node : Node, status : Verdict, session : Nat]

Count(S, a) == Cardinality({n \in S : Owner[n] = a})
Running == {n \in Node : status[n] = "running"}

First(S) == CHOOSE n \in S : \A m \in S : Rank[n] <= Rank[m]

\* Work off the queue in the order of the list; an empty one ends the command.
Proceed(queue, provider) ==
    IF queue = {} THEN Idle
    ELSE [Idle EXCEPT !.at = "open", !.node = First(queue),
                      !.queue = queue \ {First(queue)}, !.provider = provider]

\* What an exception that leaves provider.execute leads to: the fallback
\* provider if the profile says so, and the end of the command otherwise.
Raised(t) ==
    IF t.node \in Automatic /\ ~t.fallback
    THEN [t EXCEPT !.at = "open", !.fallback = TRUE]
    ELSE Idle

\* The fallback is for one node: the next one has the command's provider again.
Using(t) == IF t.fallback THEN "fake_cli" ELSE t.provider

\* The answer of the session raises.
AnswerRaises(t) ==
    raised' = IF Raised(t) = Idle THEN raised \cup {<<t.node, t.claim>>} ELSE raised
-----------------------------------------------------------------------------
Init == /\ status \in [Node -> InitialStatus]
        /\ results = {}
        /\ started = 0
        /\ completed = {}
        /\ task = [p \in Proc |-> Idle]
        /\ claims = [n \in Node |-> 0]
        /\ raised = {}
        /\ moves = 0
        /\ faults = 0

(***************************************************************************)
(* select_dispatch_candidates(): the ready nodes whose owner is below its  *)
(* limit, counting those before them in the list; and of these, again in   *)
(* the order of the list, as many as there are slots.                      *)
(***************************************************************************)
Ready == {n \in Node : status[n] = "ready"}
Before(S, n) == {m \in S : Rank[m] < Rank[n]}
Eligible == {n \in Ready : Count(Running \cup Before(Ready, n), Owner[n]) < AgentLimit}

\* Mutants: a running node is a candidate; running nodes take no slot.
CandidatesAlsoRunning(limit) == Ready \cup Running
CandidatesOfEmptySlots(limit) == {n \in Ready : Cardinality(Before(Ready, n)) < limit}

Candidates(limit) ==
    {n \in Eligible : Cardinality(Running) + Cardinality(Before(Eligible, n)) < limit}

Do(p, t) == task' = [task EXCEPT ![p] = t]

Select(p, limit, provider) ==
    /\ task[p].at = "idle"
    /\ started < MaxSessions
    /\ Candidates(limit) # {}
    /\ Do(p, Proceed(Candidates(limit), provider))
    /\ UNCHANGED <<status, results, started, completed, claims, raised, moves, faults>>

(***************************************************************************)
(* The session.                                                            *)
(***************************************************************************)
StartSession(p) ==
    /\ task[p].at = "open"
    /\ started' = started + 1
    /\ Do(p, [task[p] EXCEPT !.at = "look", !.session = started + 1])
    /\ UNCHANGED <<status, results, completed, claims, raised, moves, faults>>

\* A node that is not ready any more is not claimed; its agent works anyway.
Look(p) ==
    LET t == task[p] IN
    /\ t.at = "look"
    /\ Do(p, IF status[t.node] = "ready"
             THEN [t EXCEPT !.at = "check", !.from = "ready", !.to = "running"]
             ELSE [t EXCEPT !.at = "work"])
    /\ UNCHANGED <<status, results, started, completed, claims, raised, moves, faults>>

\* The check of transition_node raises InvalidTransition.
Check(p) ==
    LET t == task[p] IN
    /\ t.at = "check"
    /\ Do(p, IF status[t.node] = t.from THEN [t EXCEPT !.at = "update"] ELSE Raised(t))
    /\ UNCHANGED <<status, results, started, completed, claims, raised, moves, faults>>

\* Mutant: no AND status = from.
MatchesAlways(t) == TRUE

Matches(t) == status[t.node] = t.from

Update(p) ==
    LET t == task[p] IN
    /\ t.at = "update"
    /\ IF Matches(t)
       THEN /\ status' = [status EXCEPT ![t.node] = t.to]
            /\ claims' = IF t.to = "running" THEN [claims EXCEPT ![t.node] = @ + 1] ELSE claims
       ELSE UNCHANGED <<status, claims>>
    /\ Do(p, [t EXCEPT !.at = "log",
                       !.claim = IF Matches(t) /\ t.to = "running" THEN claims[t.node] + 1 ELSE @])
    /\ UNCHANGED <<results, started, completed, raised, moves, faults>>

LogTransition(p) ==
    LET t == task[p] IN
    /\ t.at = "log"
    /\ Do(p, [t EXCEPT !.at = IF t.to = "running" THEN "work" ELSE "complete"])
    /\ UNCHANGED <<status, results, started, completed, claims, raised, moves, faults>>

\* The health check, the wait, the CLI itself (which a timeout ends) and the
\* reading of what it said.  An answer is malformed when validating it raises
\* TypeError or KeyError, as a confidence that is a string does.
Work(p, o) ==
    LET t == task[p] IN
    /\ t.at = "work"
    /\ Using(t) = "fake_cli" => o = "pass"
    /\ Do(p, CASE o = "unavailable" -> [t EXCEPT !.at = "settle", !.to = "agent_unavailable"]
               [] o = "invalid"     -> [t EXCEPT !.at = "settle", !.to = "blocked"]
               [] o = "malformed"   -> Raised(t)
               [] OTHER             -> [t EXCEPT !.at = "persist", !.to = o])
    /\ IF o = "malformed" THEN AnswerRaises(t) ELSE UNCHANGED raised
    /\ UNCHANGED <<status, results, started, completed, claims, moves, faults>>

\* Mutant: the node is left as it is.
MoveIfRunningNever(t) == [t EXCEPT !.at = "complete"]

\* A node that is running is moved on from there; any other is left alone.
MoveIfRunning(t) ==
    IF status[t.node] = "running" THEN [t EXCEPT !.at = "check", !.from = "running"]
    ELSE [t EXCEPT !.at = "complete"]

\* _mark_unavailable and _block_node
Settle(p) ==
    /\ task[p].at = "settle"
    /\ Do(p, MoveIfRunning(task[p]))
    /\ UNCHANGED <<status, results, started, completed, claims, raised, moves, faults>>

\* Mutant: the result is only handed on.
PersistNothing(p) ==
    /\ task[p].at = "persist"
    /\ Do(p, [task[p] EXCEPT !.at = "submit"])
    /\ UNCHANGED <<status, results, started, completed, claims, raised, moves, faults>>

\* persist_agent_result: the row, and then the agent_result_submitted event
Persist(p) ==
    LET t == task[p] IN
    /\ t.at = "persist"
    /\ results' = results \cup {[node |-> t.node, status |-> t.to, session |-> t.session]}
    /\ Do(p, [t EXCEPT !.at = "submit"])
    /\ UNCHANGED <<status, started, completed, claims, raised, moves, faults>>

\* The row is committed by itself: evidence or artifacts that are no dictionaries
\* raise after it.
PersistRaises(p) ==
    LET t == task[p] IN
    /\ t.at = "persist"
    /\ Using(t) = "local_cli" /\ "malformed" \in Outcome
    /\ results' = results \cup {[node |-> t.node, status |-> t.to, session |-> t.session]}
    /\ Do(p, Raised(t))
    /\ AnswerRaises(t)
    /\ UNCHANGED <<status, started, completed, claims, moves, faults>>

SubmitEvent(p) ==
    /\ task[p].at = "submit"
    /\ Do(p, [task[p] EXCEPT !.at = "apply"])
    /\ UNCHANGED <<status, results, started, completed, claims, raised, moves, faults>>

\* apply_agent_result: a result for a node that is not running is advisory.
\* The result has been validated against the same checkpoint before.
ApplyResult(p) ==
    /\ task[p].at = "apply"
    /\ Do(p, MoveIfRunning(task[p]))
    /\ UNCHANGED <<status, results, started, completed, claims, raised, moves, faults>>

CompleteSession(p) ==
    /\ task[p].at = "complete"
    /\ completed' = completed \cup {task[p].session}
    /\ Do(p, [task[p] EXCEPT !.at = "gates"])
    /\ UNCHANGED <<status, results, started, claims, raised, moves, faults>>

\* evaluate_all, the subject of GateEngine; then the next candidate.
EvaluateGates(p) ==
    /\ task[p].at = "gates"
    /\ Do(p, Proceed(task[p].queue, task[p].provider))
    /\ UNCHANGED <<status, results, started, completed, claims, raised, moves, faults>>

(***************************************************************************)
(* What may go wrong, and what others do.                                  *)
(***************************************************************************)
\* An append finds its sequence number taken (EventStore) and raises.
LoseAppend(p) ==
    LET t == task[p] IN
    /\ t.at \in {"open", "log", "submit", "complete", "gates"}
    /\ faults < MaxFaults
    /\ faults' = faults + 1
    /\ Do(p, IF t.at = "gates" THEN Idle ELSE Raised(t))
    /\ UNCHANGED <<status, results, started, completed, claims, raised, moves>>

Die(p) ==
    /\ task[p].at # "idle"
    /\ faults < MaxFaults
    /\ faults' = faults + 1
    /\ Do(p, Idle)
    /\ UNCHANGED <<status, results, started, completed, claims, raised, moves>>

\* Operators cancel, retry, block and recover; mark_progress_timeout gives up
\* on a node; nobody but a dispatcher makes a node running or gives a verdict.
MoveNode(n, to) ==
    /\ moves < MaxMoves
    /\ to \notin {"running", "pass", "fail"}
    /\ Allowed(status[n], to)
    /\ moves' = moves + 1
    /\ status' = [status EXCEPT ![n] = to]
    /\ UNCHANGED <<results, started, completed, task, claims, raised, faults>>

SessionStep(p) ==
    \/ StartSession(p) \/ Look(p) \/ Check(p) \/ Update(p) \/ LogTransition(p)
    \/ \E o \in Outcome \cup {"pass"} : Work(p, o)
    \/ Settle(p) \/ Persist(p) \/ PersistRaises(p) \/ SubmitEvent(p) \/ ApplyResult(p)
    \/ CompleteSession(p) \/ EvaluateGates(p)

Next == \/ \E p \in Proc :
              \/ \E limit \in Limits, provider \in Provider : Select(p, limit, provider)
              \/ SessionStep(p)
              \/ LoseAppend(p) \/ Die(p)
        \/ \E n \in Node, to \in Status : MoveNode(n, to)

Spec == Init /\ [][Next]_vars

\* A process that is not killed runs on, and a CLI that does not answer is
\* ended by its timeout.  Nobody is obliged to run `squad dispatch`.
FairSpec == Spec /\ \A p \in Proc : WF_vars(SessionStep(p))
-----------------------------------------------------------------------------
(***************************************************************************)
(* Properties                                                              *)
(***************************************************************************)

\* Every variable holds values of its type.
TypeOK ==
    /\ status \in [Node -> Status]
    /\ results \subseteq Result
    /\ started \in Nat
    /\ completed \subseteq Nat
    /\ task \in [Proc -> Task]
    /\ claims \in [Node -> Nat]
    /\ raised \subseteq Node \X Nat
    /\ moves \in Nat
    /\ faults \in Nat

\* Whoever dies or raises where, a node that has passed or failed has a stored
\* result that says so: the result is persisted before it is applied.
HasResult(n, s) == \E r \in results : r.node = n /\ r.status = s
VerdictHasResult == \A n \in Node : status[n] \in {"pass", "fail"} => HasResult(n, status[n])

\* A node that is canceled, stale or done while its agent works never comes
\* back, whatever the agent answers and however late: between the read and the
\* UPDATE there is time for it to be canceled.
Closed == {"canceled", "stale", "done"}
ClosedStaysClosed == [][\A n \in Node : status[n] \in Closed => status'[n] \in Closed]_vars

\* For dispatch as a whole: what moves a node does so along an allowed transition only,
\* although the check of transition_node is older than its UPDATE.
Machine == INSTANCE NodeMachine
ImplementsMachine == Machine!Spec

(***************************************************************************)
(* Why: a transition in progress is an allowed one, and one that is to     *)
(* pass or fail its node comes after the result.                           *)
(***************************************************************************)
TaskInv(t) ==
    /\ t.at \in {"check", "update"} => Allowed(t.from, t.to)
    /\ t.at \in {"check", "update", "submit", "apply"} /\ t.to \in {"pass", "fail"}
       => HasResult(t.node, t.to)
    /\ t.at = "settle" => t.to \in {"agent_unavailable", "blocked"}
    /\ t.at \in {"persist", "submit", "apply"} => t.to \in Verdict

DispatchInv == TypeOK /\ VerdictHasResult /\ \A p \in Proc : TaskInv(task[p])

\* One process at a time, however often it dies and is run again and whatever
\* operators do, never has more nodes running than the scheduler's limits.
\* (Meant for one process and nodes none of which starts as running.)
WithinLimits(S) ==
    /\ \E limit \in Limits : Cardinality(S) <= limit
    /\ \A n \in Node : Count(S, Owner[n]) <= AgentLimit
LimitsHold == WithinLimits(Running)

\* With one process at a time, a node only ever gets the verdict of the session
\* that claimed it: no answer counts for a claim that came after it.
VerdictOfOwnClaim ==
    [][\A p \in Proc :
         task[p].at = "update" /\ task'[p].at = "log" /\ status' # status
         /\ task[p].to \in Verdict
         => task[p].claim = claims[task[p].node] /\ status[task[p].node] = "running"]_vars

(***************************************************************************)
(* Why the last two hold: the candidates of a command are within the       *)
(* limits together with what runs, and nothing else becomes running until  *)
(* it ends; a node it has yet to open is not running, and the one it works *)
(* on is running only by a claim of its own.                               *)
(***************************************************************************)
Taken(t) == IF t.at = "idle" THEN {} ELSE t.queue \cup {t.node}
LimitInv == LimitsHold /\ \A p \in Proc : WithinLimits(Running \cup Taken(task[p]))

ClaimInv(t) ==
    t.at # "idle" =>
        /\ t.node \notin t.queue
        /\ \A n \in t.queue : status[n] # "running"
        /\ status[t.node] = "running" => t.claim = claims[t.node]
        /\ t.at \in {"check", "update"} => t.from = "running" \/ t.to = "running"
OwnClaims == \A p \in Proc : ClaimInv(task[p])

\* Where nothing dies and no append is lost, a node stays running for ever only if
\* the answer of the session that claimed it has raised (nobody calls
\* recover_running_dispatches after that): whatever two dispatchers and the operators
\* do to each other, and whatever else the CLI says or does not say, somebody who has
\* claimed a node moves it on, or has it taken away.
LeftByAnswer(n) == <<n, claims[n]>> \in raised
RunningEnds ==
    \A n \in Node :
        status[n] = "running" ~> status[n] # "running" \/ LeftByAnswer(n) \/ faults > 0

\* providers/impl.py:324: "Guarantee llm_session_completed is always emitted
\* after llm_session_started."  Once all commands have ended and nothing has
\* died, every session that was started is completed.
SessionsComplete ==
    faults = 0 /\ (\A p \in Proc : task[p].at = "idle") => completed = 1 .. started
=============================================================================
