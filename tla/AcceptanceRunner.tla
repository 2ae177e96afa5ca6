-------------------------- MODULE AcceptanceRunner --------------------------
(***************************************************************************)
(* scripts/acceptance/run_real_llm_acceptance.py and the conclusion of     *)
(* squad_runtime/acceptance.py: one scenario, which gives every agent of a *)
(* team its turn, runs the agent if all before it have passed, retries it  *)
(* when the provider was rate limited, and reports PASS or FAIL.           *)
(*                                                                         *)
(* The runner is one thread, but the nodes are everybody's: operators move *)
(* them and others evaluate the gates between any two of its steps.  An    *)
(* agent has one node, named after it.  A session of the provider is that  *)
(* of Dispatch without its fallback, which no profile of the team has; an  *)
(* evaluation of the gates is one step here, and many in GateEngine.       *)
(***************************************************************************)
EXTENDS NodeStatus, Naturals, Sequences

CONSTANTS Order,        \* the agents in the order of their turns
          RetryLimit,   \* rate_limit_retry_limit()
          Target,       \* the statuses to which operators move nodes
          MaxMoves      \* bound: moves by operators

Team == {Order[i] : i \in DOMAIN Order}
Releaser == "git-workflow-master"
Verdict == {"pass", "fail", "blocked"}
Outcome == Verdict \cup {"unavailable", "rate_limited", "invalid"}
None == "none"

ASSUME RunnerAssumption ==
    /\ Order \in Seq(STRING) /\ Order # << >>
    /\ \A i, j \in DOMAIN Order : Order[i] = Order[j] => i = j
    /\ RetryLimit \in Nat /\ MaxMoves \in Nat
    /\ Target \subseteq Status \ {"running", "pass", "fail"}

VARIABLES at,          \* what the runner does next
          turn,        \* whose turn it is, as a place in Order
          upstreamOk,  \* upstream_ok
          retries,     \* retries of the agent whose turn it is
          answer,      \* the outcome of the agent's last session
          move,        \* the transition in progress and what comes after it
          outcome,     \* the outcomes of dispatch_records
          conclusion,  \* the report's conclusion
          status,      \* task_nodes.status
          results,     \* agent_results
          gates,       \* gate_states.status
          troubled,    \* agents with an event that the report takes for a risk
          sessions,    \* history: the number of sessions of each agent
          moves

local == <<at, turn, upstreamOk, retries, answer, move, outcome, conclusion>>
vars  == <<at, turn, upstreamOk, retries, answer, move, outcome, conclusion,
           status, results, gates, troubled, sessions, moves>>

Phase == {"turn", "gate", "block", "blocked", "check", "update", "claim", "work", "settle",
          "notice", "retry", "record", "evaluate", "report", "done", "raised"}
Recorded == {"PASS", "FAIL", "BLOCKED", "UNAVAILABLE", "INVALID", "DEPENDENCY_BLOCKED"}

Rules == INSTANCE GateRules WITH Node <- Team, Role <- [a \in Team |-> a]
Gate == Rules!Prerequisite \cup {"release_gate"}

Agent == Order[turn]
Result(a, v) == [agent |-> a, status |-> v, source |-> "real"]
HasResult(a) == \E v \in Verdict : Result(a, v) \in results
HasPass(a) == Result(a, "pass") \in results

\* What a legacy evaluation makes of the results and nodes.
Decision(g) ==
    LET agent == Rules!AgentOf[g]
        found == Rules!FactsFor(results, agent)
    IN  Rules!Rule(g, IF found # {} THEN Rules!StatusesOf(found)
                      ELSE {status[n] : n \in Rules!ActiveNodes(status, agent)})
RealityDecision == IF Decision("test_gate") = "pass" THEN Decision("reality_checker_gate")
                   ELSE "blocked"
Decisions ==
    LET three == [g \in Rules!Prerequisite |->
                    IF g = "reality_checker_gate" THEN RealityDecision ELSE Decision(g)]
    IN  [g \in Gate |-> IF g = "release_gate" THEN Rules!ReleaseRule(three, Rules!Prerequisite)
                        ELSE three[g]]

Goto(phase) == at' = phase /\ UNCHANGED move

\* transition_node, as in NodeService: a check that may raise, then an UPDATE
\* that may match nothing.
Move(from, to, then) == at' = "check" /\ move' = [from |-> from, to |-> to, then |-> then]
-----------------------------------------------------------------------------
Init == /\ at = "turn" /\ turn = 1
        /\ upstreamOk = TRUE /\ retries = 0 /\ answer = None
        /\ move = [from |-> "todo", to |-> "ready", then |-> "claim"]
        /\ outcome = [a \in Team |-> None]
        /\ conclusion = None
        /\ status = [a \in Team |-> "todo"]
        /\ results = {}
        /\ gates = [g \in Gate |-> None]
        /\ troubled = {}
        /\ sessions = [a \in Team |-> 0]
        /\ moves = 0

(***************************************************************************)
(* The runner's loop.                                                      *)
(***************************************************************************)
DispatchOrBlock(ok) == IF ok THEN Move("todo", "ready", "claim") ELSE Goto("block")

\* The agent that releases is preceded by one more evaluation.
BeginTurn ==
    /\ at = "turn" /\ turn <= Len(Order)
    /\ IF Agent = Releaser
       THEN Goto("gate") /\ gates' = Decisions
       ELSE DispatchOrBlock(upstreamOk) /\ UNCHANGED gates
    /\ UNCHANGED <<turn, upstreamOk, retries, answer, outcome, conclusion,
                   status, results, troubled, sessions, moves>>

\* Mutant: only a failed gate holds the agent up, whoever has not passed.
LookAtReleaseForFail ==
    /\ at = "gate"
    /\ upstreamOk' = (gates["release_gate"] # "fail")
    /\ DispatchOrBlock(upstreamOk')
    /\ UNCHANGED <<turn, retries, answer, outcome, conclusion,
                   status, results, gates, troubled, sessions, moves>>

LookAtRelease ==
    /\ at = "gate"
    /\ upstreamOk' = (upstreamOk /\ gates["release_gate"] = "pass")
    /\ DispatchOrBlock(upstreamOk')
    /\ UNCHANGED <<turn, retries, answer, outcome, conclusion,
                   status, results, gates, troubled, sessions, moves>>

\* _dependency_block
Block ==
    /\ at = "block"
    /\ IF status[Agent] = "todo" THEN Move("todo", "blocked", "blocked") ELSE Goto("blocked")
    /\ UNCHANGED <<turn, upstreamOk, retries, answer, outcome, conclusion,
                   status, results, gates, troubled, sessions, moves>>

\* Mutant: the loop does not go on to the next agent.
RecordBlockedAgain ==
    /\ at = "blocked"
    /\ troubled' = troubled \cup {Agent}
    /\ outcome' = [outcome EXCEPT ![Agent] = "DEPENDENCY_BLOCKED"]
    /\ Goto("turn")
    /\ UNCHANGED <<turn, upstreamOk, retries, answer, conclusion,
                   status, results, gates, sessions, moves>>

RecordBlocked ==
    /\ at = "blocked"
    /\ troubled' = troubled \cup {Agent}
    /\ outcome' = [outcome EXCEPT ![Agent] = "DEPENDENCY_BLOCKED"]
    /\ turn' = turn + 1
    /\ Goto("turn")
    /\ UNCHANGED <<upstreamOk, retries, answer, conclusion,
                   status, results, gates, sessions, moves>>

CheckMove ==
    /\ at = "check"
    /\ Goto(IF status[Agent] = move.from THEN "update" ELSE "raised")
    /\ UNCHANGED <<turn, upstreamOk, retries, answer, outcome, conclusion,
                   status, results, gates, troubled, sessions, moves>>

UpdateMove ==
    /\ at = "update"
    /\ status' = IF status[Agent] = move.from THEN [status EXCEPT ![Agent] = move.to] ELSE status
    /\ Goto(move.then)
    /\ UNCHANGED <<turn, upstreamOk, retries, answer, outcome, conclusion,
                   results, gates, troubled, sessions, moves>>
-----------------------------------------------------------------------------
(***************************************************************************)
(* _dispatch_node: a session, and the decision whether it is retried.      *)
(***************************************************************************)
Claim ==
    /\ at = "claim"
    /\ sessions' = [sessions EXCEPT ![Agent] = @ + 1]
    /\ answer' = None
    /\ IF status[Agent] = "ready" THEN Move("ready", "running", "work") ELSE Goto("work")
    /\ UNCHANGED <<turn, upstreamOk, retries, outcome, conclusion,
                   status, results, gates, troubled, moves>>

\* The result is stored before the node is moved.
Work(o) ==
    /\ at = "work"
    /\ answer' = o
    /\ results' = IF o \in Verdict THEN results \cup {Result(Agent, o)} ELSE results
    /\ Goto("settle")
    /\ UNCHANGED <<turn, upstreamOk, retries, outcome, conclusion,
                   status, gates, troubled, sessions, moves>>

SettledAs(o) == CASE o \in {"unavailable", "rate_limited"} -> "agent_unavailable"
                  [] o = "invalid" -> "blocked"
                  [] OTHER -> o

\* Mutant: a node whose agent is unavailable stays running.
SettleVerdictOnly ==
    /\ at = "settle"
    /\ IF status[Agent] = "running" /\ answer \in Verdict
       THEN Move("running", SettledAs(answer), "notice") ELSE Goto("notice")
    /\ UNCHANGED <<turn, upstreamOk, retries, answer, outcome, conclusion,
                   status, results, gates, troubled, sessions, moves>>

Settle ==
    /\ at = "settle"
    /\ IF status[Agent] = "running" THEN Move("running", SettledAs(answer), "notice")
       ELSE Goto("notice")
    /\ UNCHANGED <<turn, upstreamOk, retries, answer, outcome, conclusion,
                   status, results, gates, troubled, sessions, moves>>

\* provider_blocked, agent_timeout, provider_rate_limited, invalid_agent_result
Notice ==
    /\ at = "notice"
    /\ troubled' = IF answer \in Verdict THEN troubled ELSE troubled \cup {Agent}
    /\ Goto("retry")
    /\ UNCHANGED <<turn, upstreamOk, retries, answer, outcome, conclusion,
                   status, results, gates, sessions, moves>>

MayRetry == /\ status[Agent] = "agent_unavailable" /\ answer = "rate_limited"
            /\ retries < RetryLimit

Retry ==
    /\ at = "retry"
    /\ IF MayRetry THEN retries' = retries + 1 /\ Move("agent_unavailable", "ready", "claim")
       ELSE Goto("record") /\ UNCHANGED retries
    /\ UNCHANGED <<turn, upstreamOk, answer, outcome, conclusion,
                   status, results, gates, troubled, sessions, moves>>

\* Mutant: what has no result and no bad status has passed.
OutcomeForHopeful(a) == CASE answer = "fail" -> "FAIL"
                          [] answer = "blocked" -> "BLOCKED"
                          [] answer \notin Verdict /\ status[a] = "agent_unavailable" -> "UNAVAILABLE"
                          [] answer \notin Verdict /\ status[a] = "blocked" -> "INVALID"
                          [] OTHER -> "PASS"

\* _outcome_for, with a timeout counted as UNAVAILABLE
OutcomeFor(a) == CASE answer = "pass" -> "PASS"
                   [] answer = "fail" -> "FAIL"
                   [] answer \notin Verdict /\ status[a] = "agent_unavailable" -> "UNAVAILABLE"
                   [] answer \notin Verdict /\ status[a] = "blocked" -> "INVALID"
                   [] OTHER -> "BLOCKED"

Record ==
    /\ at = "record"
    /\ outcome' = [outcome EXCEPT ![Agent] = OutcomeFor(Agent)]
    /\ upstreamOk' = (OutcomeFor(Agent) = "PASS")
    /\ retries' = 0
    /\ Goto("evaluate")
    /\ UNCHANGED <<turn, answer, conclusion,
                   status, results, gates, troubled, sessions, moves>>

Evaluate ==
    /\ at = "evaluate"
    /\ gates' = Decisions
    /\ turn' = turn + 1
    /\ Goto("turn")
    /\ UNCHANGED <<upstreamOk, retries, answer, outcome, conclusion,
                   status, results, troubled, sessions, moves>>
-----------------------------------------------------------------------------
(***************************************************************************)
(* The report.                                                             *)
(***************************************************************************)
LastEvaluate ==
    /\ at = "turn" /\ turn > Len(Order)
    /\ gates' = Decisions
    /\ Goto("report")
    /\ UNCHANGED <<turn, upstreamOk, retries, answer, outcome, conclusion,
                   status, results, troubled, sessions, moves>>

Terminal == {"pass", "fail", "blocked", "agent_unavailable", "canceled", "stale", "done"}

\* Mutant: what went wrong on the way is no risk.
RisksOfTheEnd == \/ \E a \in Team : status[a] \notin Terminal
                 \/ \E a \in Team : ~HasResult(a) /\ a \notin troubled
                 \/ \E g \in Gate : gates[g] # "pass"

Risks == \/ \E a \in Team : status[a] \notin Terminal
         \/ \E a \in Team : ~HasResult(a) /\ a \notin troubled
         \/ \E g \in Gate : gates[g] # "pass"
         \/ troubled # {}

\* others: coverage, evidence and index, which the scenario is started with
Report(others) ==
    /\ at = "report"
    /\ conclusion' = IF Risks \/ others THEN "FAIL" ELSE "PASS"
    /\ Goto("done")
    /\ UNCHANGED <<turn, upstreamOk, retries, answer, outcome,
                   status, results, gates, troubled, sessions, moves>>

(***************************************************************************)
(* What may go wrong, and what others do.                                  *)
(***************************************************************************)
\* An append that loses its number, or an answer that cannot be validated,
\* ends the scenario.
Raise ==
    /\ at \notin {"done", "raised"}
    /\ Goto("raised")
    /\ UNCHANGED <<turn, upstreamOk, retries, answer, outcome, conclusion,
                   status, results, gates, troubled, sessions, moves>>

MoveNode(a, to) ==
    /\ moves < MaxMoves
    /\ Allowed(status[a], to)
    /\ moves' = moves + 1
    /\ status' = [status EXCEPT ![a] = to]
    /\ UNCHANGED <<local, results, gates, troubled, sessions>>

OthersEvaluate ==
    /\ gates' = Decisions
    /\ UNCHANGED <<local, status, results, troubled, sessions, moves>>

RunnerStep ==
    \/ BeginTurn \/ LookAtRelease \/ Block \/ RecordBlocked \/ CheckMove \/ UpdateMove
    \/ Claim \/ (\E o \in Outcome : Work(o)) \/ Settle \/ Notice \/ Retry \/ Record \/ Evaluate
    \/ LastEvaluate \/ \E others \in BOOLEAN : Report(others)

Next == \/ RunnerStep \/ Raise \/ OthersEvaluate
        \/ \E a \in Team, to \in Target : MoveNode(a, to)

Spec == Init /\ [][Next]_vars

\* The runner's thread goes on; a provider's CLI is ended by its timeout.
FairSpec == Spec /\ WF_vars(RunnerStep)
-----------------------------------------------------------------------------
(***************************************************************************)
(* Properties                                                              *)
(***************************************************************************)

\* Every variable holds values of its type.
TypeOK ==
    /\ at \in Phase
    /\ turn \in 1 .. Len(Order) + 1
    /\ at \in {"turn", "report", "done", "raised"} \/ turn <= Len(Order)
    /\ upstreamOk \in BOOLEAN
    /\ retries \in Nat
    /\ answer \in Outcome \cup {None}
    /\ move \in [from : Status, to : Status, then : Phase]
    /\ outcome \in [Team -> Recorded \cup {None}]
    /\ conclusion \in {"PASS", "FAIL", None}
    /\ status \in [Team -> Status]
    /\ results \subseteq {Result(a, v) : a \in Team, v \in Verdict}
    /\ gates \in [Gate -> Verdict \cup {None}]
    /\ troubled \subseteq Team
    /\ sessions \in [Team -> Nat]
    /\ moves \in Nat

\* An agent is only run when every agent before it has a stored pass, whatever
\* operators have done to their nodes and however often one was retried.
Heading == IF at \in {"check", "update"} THEN move.then ELSE at
InSession == Heading \in {"claim", "work", "settle", "notice", "retry", "record"}
SessionNeedsPasses == InSession => \A i \in 1 .. turn - 1 : HasPass(Order[i])

\* docs/llm-agent-runtime-hardening.md:43: "Git Workflow Master running only
\* after Release Gate PASS".  And while it runs the gate is still deserved:
\* nobody has stored a result since that an evaluation would count against it.
ReleaserRunsReleased ==
    InSession /\ Agent = Releaser => Decisions["release_gate"] = "pass"

(***************************************************************************)
(* Why it holds: upstream_ok stands for the passes of all agents before    *)
(* the one whose turn it is, nothing but a stored pass keeps it, and who   *)
(* is blocked finds it FALSE; the retries count the sessions of this turn. *)
(***************************************************************************)
PassesBehind ==
    /\ at \in {"check", "update"} => move.then \in {"claim", "work", "notice", "blocked"}
    /\ upstreamOk => \A i \in 1 .. turn - 1 : HasPass(Order[i])
    /\ InSession => upstreamOk
    /\ Heading \in {"block", "blocked"} => ~upstreamOk
    /\ Heading \in {"settle", "notice", "retry", "record"} =>
           answer # None /\ (answer = "pass" => HasPass(Agent))
    /\ at = "evaluate" /\ upstreamOk => HasPass(Agent)

SessionsCounted ==
    /\ retries <= RetryLimit
    /\ \A a \in Team : sessions[a] <= RetryLimit + 1
    /\ \A i \in DOMAIN Order : i > turn => sessions[Order[i]] = 0
    /\ Heading \in {"turn", "gate", "block", "blocked"} =>
           retries = 0 /\ (turn <= Len(Order) => sessions[Agent] = 0)
    /\ Heading = "claim" => sessions[Agent] = retries
    /\ Heading \in {"work", "settle", "notice", "retry", "record"} => sessions[Agent] = retries + 1
    /\ at = "evaluate" => retries = 0

\* While nothing that counts as a risk has happened, every agent so far has
\* been run once and all but the last of them have passed.
UntroubledSoFar ==
    /\ Heading \in {"settle", "notice", "retry", "record"} /\ answer \in Verdict => HasResult(Agent)
    /\ Heading \in {"retry", "record"} /\ answer \notin Verdict => troubled # {}
    /\ retries > 0 => troubled # {}
    /\ troubled = {} =>
           /\ \A i \in 1 .. turn - 1 : sessions[Order[i]] = 1 /\ HasResult(Order[i])
           /\ \A i \in 1 .. turn - 2 : HasPass(Order[i])
           /\ at = "evaluate" => sessions[Agent] = 1 /\ HasResult(Agent)
    /\ at = "evaluate" => \A i \in 1 .. turn - 1 : HasPass(Order[i])
    /\ at = "report" \/ conclusion # None => turn = Len(Order) + 1
    /\ conclusion # None => at = "done"
    /\ conclusion = "PASS" => troubled = {}

RunnerInv == TypeOK /\ PassesBehind /\ SessionsCounted /\ UntroubledSoFar

(***************************************************************************)
(* An agent whose turn has not come has no result, and neither has one     *)
(* that is about to be run or run again; a node passes only with a result. *)
(* So a pass of the release gate rests on results alone, of agents that    *)
(* give no other: once deserved, it stays so.                              *)
(***************************************************************************)
ReleaseInv ==
    /\ \A i \in DOMAIN Order : i > turn => ~HasResult(Order[i])
    /\ Heading \in {"turn", "gate", "block", "blocked", "claim", "work"} =>
           (turn <= Len(Order) => ~HasResult(Agent))
    /\ Heading \in {"settle", "notice", "retry", "record"} =>
           (answer \notin Verdict => ~HasResult(Agent))
    /\ \A a \in Team : status[a] = "pass" => HasPass(a)
    /\ at \in {"check", "update"} /\ move.to = "pass" => HasPass(Agent)
    /\ gates["release_gate"] = "pass" => Decisions["release_gate"] = "pass"
    /\ InSession /\ Agent = Releaser => Decisions["release_gate"] = "pass"

\* The runner moves its agents' nodes along allowed transitions only, whatever operators have
\* done since it looked: why, the transition in progress is an allowed one.
Machine == INSTANCE NodeMachine WITH Node <- Team
ImplementsMachine == Machine!Spec
MoveAllowed == at \in {"check", "update"} => Allowed(move.from, move.to)

\* Where the node of each agent is while no operator moves any.
SettledInv ==
    /\ at = "done" => turn = Len(Order) + 1
    /\ moves = 0 =>
           /\ \A i \in DOMAIN Order : i < turn => status[Order[i]] \in Terminal
           /\ \A i \in DOMAIN Order : i > turn => status[Order[i]] = "todo"
           /\ at \in {"turn", "gate", "block"} /\ turn <= Len(Order) => status[Agent] = "todo"
           /\ at = "claim" => status[Agent] = "ready"
           /\ at \in {"work", "settle"} => status[Agent] = "running"
           /\ at \in {"blocked", "notice", "retry", "record", "evaluate"} =>
                  status[Agent] \in Terminal
           /\ at \in {"check", "update"} =>
                  /\ status[Agent] = move.from
                  /\ CASE move.then = "claim" -> move.to = "ready"
                       [] move.then = "work"  -> move.to = "running"
                       [] OTHER               -> move.to \in Terminal

\* A report that says PASS: every agent has been run exactly once, every agent
\* but the last has passed, and the last has given a result.  (A last agent
\* that fails does not make the report FAIL.)
PassIsDeserved ==
    conclusion = "PASS" =>
        /\ \A a \in Team : sessions[a] = 1 /\ HasResult(a)
        /\ \A i \in 1 .. Len(Order) - 1 : HasPass(Order[i])

\* No agent is run more often than the retry limit allows.
RetriesBounded == \A a \in Team : sessions[a] <= RetryLimit + 1

\* A scenario that ends with a report, and whose nodes nobody else has moved,
\* leaves no node todo, ready or running.
EveryNodeSettled == at = "done" /\ moves = 0 => \A a \in Team : status[a] \in Terminal

\* Every scenario ends, with a report or an exception.
Terminates == <>(at \in {"done", "raised"})
=============================================================================
