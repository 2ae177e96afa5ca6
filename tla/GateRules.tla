----------------------------- MODULE GateRules -----------------------------
(***************************************************************************)
(* squad_runtime/gate_engine.py: which results and nodes a gate looks at,  *)
(* and what the legacy gates make of them.                                 *)
(***************************************************************************)
EXTENDS NodeStatus

CONSTANTS Node, Role     \* the run's nodes; Role[n] is node n's owner and type

Agent    == {"test-engineer", "code-reviewer", "reality-checker"}
Source   == {"real", "fake", "synthetic"}
Verdict  == {"pass", "fail", "blocked"}
Fact     == [agent : Agent, status : Verdict, source : Source]

Prerequisite == {"test_gate", "code_review_gate", "reality_checker_gate"}
-----------------------------------------------------------------------------
(***************************************************************************)
(* The rules of the gates, over the set of statuses that a gate finds.     *)
(* They are the same for results and for nodes.                            *)
(***************************************************************************)
\* Mutant: one pass is enough, as for a review.
TestRuleAnyPass(found) ==
    IF "pass" \in found THEN "pass" ELSE IF "fail" \in found THEN "fail" ELSE "blocked"

TestRule(found) ==
    IF found = {} THEN "blocked"
    ELSE IF found = {"pass"} THEN "pass"
    ELSE IF "fail" \in found THEN "fail" ELSE "blocked"

\* Mutant: a blocked review does not count against the gate.
ReviewRuleFailOnly(found) ==
    IF "fail" \in found THEN "fail" ELSE IF "pass" \in found THEN "pass" ELSE "blocked"

ReviewRule(found) ==
    IF found \cap {"fail", "blocked"} # {} THEN "fail"
    ELSE IF "pass" \in found THEN "pass" ELSE "blocked"

RealityRule(found) == IF "pass" \in found THEN "pass" ELSE "blocked"

AgentOf == [g \in Prerequisite |-> CASE g = "test_gate" -> "test-engineer"
                                     [] g = "code_review_gate" -> "code-reviewer"
                                     [] OTHER -> "reality-checker"]

Rule(g, found) == CASE g = "test_gate" -> TestRule(found)
                    [] g = "code_review_gate" -> ReviewRule(found)
                    [] OTHER -> RealityRule(found)

FactsFor(fs, agent) == {f \in fs : f.agent = agent /\ f.source # "synthetic"}
StatusesOf(fs) == {f.status : f \in fs}

\* Nothing in the runtime sets replaced_by_node_id.
ActiveNodes(st, agent) == {n \in Node : Role[n] = agent /\ st[n] \notin {"stale", "canceled"}}

ReleaseRule(decided, others) ==
    IF \A g \in others : decided[g] = "pass" THEN "pass" ELSE "blocked"
=============================================================================
