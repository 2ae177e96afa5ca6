----------------------------- MODULE GateEngine -----------------------------
(***************************************************************************)
(* squad_runtime/gate_engine.py over the agent_results, task_nodes, events *)
(* and gate_states tables of one run.                                      *)
(*                                                                         *)
(* evaluate_all() decides every gate and then writes the decisions one     *)
(* after the other.  It holds no transaction: each legacy gate reads the   *)
(* tables again, a strict one reads them four or five times, and every     *)
(* write commits by itself, while agents submit results, nodes move and    *)
(* other processes (the dispatch loop, eval-gates, the HTTP API) evaluate. *)
(*                                                                         *)
(* A decision is its status.  A result ("fact") is what the gates look at: *)
(* whose it is, its status and where it comes from.                        *)
(***************************************************************************)
EXTENDS GateRules, Naturals, Sequences

CONSTANTS Proc,          \* processes that evaluate gates
          InitialStatus, \* statuses, results and evidence that the run may have
          InitialFacts, InitialEvidence, \* ... when the model starts
          NewFacts, NewEvidence, \* results and evidence that may come later
          Mode,          \* the modes evaluated, of "legacy" and "strict"
          MaxChanges,    \* bound: results, moves and recorded events
          MaxDeaths      \* bound: evaluations that end before their last write

\* What the strict gates look for among the events of the run.
Evidence == {"test artifact", "review artifact", "release archive", "ui_smoke passed",
             "coverage passed", "hash chain sealed", "chain graph sealed",
             "hash mismatch", "path out of bounds"}

ASSUME GateAssumption ==
    /\ Role \in [Node -> Agent]
    /\ InitialStatus \subseteq Status
    /\ InitialFacts \subseteq SUBSET Fact
    /\ InitialEvidence \subseteq SUBSET Evidence
    /\ NewFacts \subseteq Fact /\ NewEvidence \subseteq Evidence
    /\ Mode \subseteq {"legacy", "strict"}
    /\ MaxChanges \in Nat /\ MaxDeaths \in Nat

Unknown == "unknown"     \* no row, or not decided yet

StrictOnly   == {"provider_authenticity_gate", "evidence_authenticity_gate", "coverage_gate",
                 "chain_completeness_gate", "boundary_gate"}
Gate         == Prerequisite \cup StrictOnly \cup {"release_gate"}

\* The order in which the decisions are made, and then written.
WriteOrder(mode) ==
    IF mode = "legacy"
    THEN <<"test_gate", "code_review_gate", "reality_checker_gate", "release_gate">>
    ELSE <<"test_gate", "code_review_gate", "provider_authenticity_gate",
           "evidence_authenticity_gate", "coverage_gate", "chain_completeness_gate",
           "boundary_gate", "reality_checker_gate", "release_gate">>

VARIABLES facts,     \* agent_results
          evidence,  \* what the run's events have recorded
          status,    \* task_nodes.status
          gates,     \* gate_states.status
          announced, \* the status in the last gate_status_changed of each gate
          eval,      \* the evaluation each process is in
          changes, deaths

world == <<facts, evidence, status>>
vars  == <<facts, evidence, status, gates, announced, eval, changes, deaths>>

Phase == {"idle", "facts", "nodes", "events", "results", "chain", "release", "upsert", "announce"}
Undecided == [g \in Gate |-> Unknown]
Eval == [at : Phase, mode : {"legacy", "strict"}, gate : Prerequisite,
         decided : [Gate -> Verdict \cup {Unknown}], evidence : SUBSET Evidence,
         next : Nat, began : SUBSET Fact, disturbed : BOOLEAN]
Idle == [at |-> "idle", mode |-> "legacy", gate |-> "test_gate", decided |-> Undecided,
         evidence |-> {}, next |-> 1, began |-> {}, disturbed |-> TRUE]
-----------------------------------------------------------------------------
(***************************************************************************)
(* The strict gates, over the events and then the results that make up one *)
(* GateEvidenceContext.                                                    *)
(***************************************************************************)
StrictTestRule(fs, ev) ==
    IF "pass" \notin StatusesOf(FactsFor(fs, "test-engineer")) THEN "blocked"
    ELSE IF {"test artifact", "ui_smoke passed"} \subseteq ev THEN "pass" ELSE "fail"

StrictReviewRule(fs, ev) ==
    IF "pass" \notin StatusesOf(FactsFor(fs, "code-reviewer")) THEN "blocked"
    ELSE IF "review artifact" \in ev THEN "pass" ELSE "fail"

PassIf(condition) == IF condition THEN "pass" ELSE "fail"

\* Mutants: only what is marked synthetic counts; either seal is enough.
ProviderRuleSyntheticOnly(fs) == PassIf(\A f \in fs : f.source # "synthetic")
ChainRuleEither(ev) == PassIf({"hash chain sealed", "chain graph sealed"} \cap ev # {})

ProviderRule(fs) == PassIf(\A f \in fs : f.source = "real")
ChainRule(ev) == PassIf({"hash chain sealed", "chain graph sealed"} \subseteq ev)

ContextDecisions(fs, ev) ==
    [Undecided EXCEPT
        !["test_gate"] = StrictTestRule(fs, ev),
        !["code_review_gate"] = StrictReviewRule(fs, ev),
        !["provider_authenticity_gate"] = ProviderRule(fs),
        !["evidence_authenticity_gate"] = PassIf("hash mismatch" \notin ev),
        !["coverage_gate"] = PassIf("coverage passed" \in ev),
        !["boundary_gate"] = PassIf("path out of bounds" \notin ev)]

StrictReleaseRule(decided, ev) ==
    IF ReleaseRule(decided, Prerequisite \cup StrictOnly) # "pass" THEN "blocked"
    ELSE PassIf("release archive" \in ev)
-----------------------------------------------------------------------------
Init == /\ facts \in InitialFacts
        /\ evidence \in InitialEvidence
        /\ status \in [Node -> InitialStatus]
        /\ gates = Undecided
        /\ announced = Undecided
        /\ eval = [p \in Proc |-> Idle]
        /\ changes = 0
        /\ deaths = 0

(***************************************************************************)
(* What goes on around the evaluations.                                    *)
(***************************************************************************)
Change == /\ changes < MaxChanges
          /\ changes' = changes + 1
          /\ eval' = [p \in Proc |-> [eval[p] EXCEPT !.disturbed = TRUE]]
          /\ UNCHANGED <<gates, announced, deaths>>

\* persist_agent_result() inserts a row; rows of agent_results never change.
SubmitResult(f) ==
    /\ Change
    /\ f \notin facts
    /\ facts' = facts \cup {f}
    /\ UNCHANGED <<evidence, status>>

MoveNode(n, to) ==
    /\ Change
    /\ Allowed(status[n], to)
    /\ status' = [status EXCEPT ![n] = to]
    /\ UNCHANGED <<facts, evidence>>

RecordEvent(e) ==
    /\ Change
    /\ evidence' = evidence \cup {e}
    /\ UNCHANGED <<facts, status>>
-----------------------------------------------------------------------------
(***************************************************************************)
(* evaluate_all()                                                          *)
(***************************************************************************)
Step(p, e) == /\ eval' = [eval EXCEPT ![p] = e]
              /\ UNCHANGED <<facts, evidence, status, changes>>
Read(p, e) == Step(p, e) /\ UNCHANGED <<gates, announced, deaths>>

Begin(p, mode) ==
    /\ eval[p].at = "idle"
    /\ Read(p, [Idle EXCEPT !.at = IF mode = "legacy" THEN "facts" ELSE "events", !.mode = mode,
                            !.began = facts, !.disturbed = FALSE])

\* The gate that follows a decided one.  The reality gate is not looked into
\* before the test gate has passed.
After(e) ==
    CASE e.gate = "test_gate" -> [e EXCEPT !.at = "facts", !.gate = "code_review_gate"]
      [] e.gate = "code_review_gate" ->
           IF e.decided["test_gate"] = "pass"
           THEN [e EXCEPT !.at = "facts", !.gate = "reality_checker_gate"]
           ELSE [e EXCEPT !.at = "release", !.decided["reality_checker_gate"] = "blocked"]
      [] OTHER -> [e EXCEPT !.at = "release"]

Decide(e, found) == After([e EXCEPT !.decided[e.gate] = Rule(e.gate, found)])

\* One SELECT over agent_results; only when it finds nothing, one over nodes.
ReadFacts(p) ==
    LET e == eval[p]
        found == FactsFor(facts, AgentOf[e.gate])
    IN  /\ e.at = "facts"
        /\ Read(p, IF found = {} THEN [e EXCEPT !.at = "nodes"] ELSE Decide(e, StatusesOf(found)))

ReadNodes(p) ==
    LET e == eval[p] IN
    /\ e.at = "nodes"
    /\ Read(p, Decide(e, {status[n] : n \in ActiveNodes(status, AgentOf[e.gate])}))

\* The two halves of a strict evaluation's GateEvidenceContext.
ReadEvents(p) ==
    /\ eval[p].at = "events"
    /\ Read(p, [eval[p] EXCEPT !.at = "results", !.evidence = evidence])

ReadResults(p) ==
    LET e == eval[p] IN
    /\ e.at = "results"
    /\ Read(p, [e EXCEPT !.at = "chain", !.decided = ContextDecisions(facts, e.evidence)])

\* The chain gate queries the events anew; the reality gate is the legacy one.
ReadChain(p) ==
    LET e == eval[p] IN
    /\ e.at = "chain"
    /\ Read(p, After([e EXCEPT !.decided["chain_completeness_gate"] = ChainRule(evidence),
                               !.gate = "code_review_gate"]))

DecideRelease(p) ==
    LET e == eval[p] IN
    /\ e.at = "release"
    /\ Read(p, [e EXCEPT !.at = "upsert", !.decided["release_gate"] =
                    IF e.mode = "legacy" THEN ReleaseRule(e.decided, Prerequisite)
                    ELSE StrictReleaseRule(e.decided, e.evidence)])

Writing(e) == WriteOrder(e.mode)[e.next]

\* Mutant: ON CONFLICT DO NOTHING.
UpsertGateOnce(p) ==
    LET e == eval[p] IN
    /\ e.at = "upsert"
    /\ gates' = [gates EXCEPT ![Writing(e)] = IF @ = Unknown THEN e.decided[Writing(e)] ELSE @]
    /\ Step(p, [e EXCEPT !.at = "announce"])
    /\ UNCHANGED <<announced, deaths>>

UpsertGate(p) ==
    LET e == eval[p] IN
    /\ e.at = "upsert"
    /\ gates' = [gates EXCEPT ![Writing(e)] = e.decided[Writing(e)]]
    /\ Step(p, [e EXCEPT !.at = "announce"])
    /\ UNCHANGED <<announced, deaths>>

\* The gate_status_changed and gate_decision events of the gate just written.
AppendEvents(p) ==
    LET e == eval[p] IN
    /\ e.at = "announce"
    /\ announced' = [announced EXCEPT ![Writing(e)] = e.decided[Writing(e)]]
    /\ Step(p, IF e.next = Len(WriteOrder(e.mode)) THEN Idle
               ELSE [e EXCEPT !.at = "upsert", !.next = e.next + 1])
    /\ UNCHANGED <<gates, deaths>>

\* The process dies, or an append loses its sequence number to another one.
Die(p) ==
    /\ eval[p].at # "idle"
    /\ deaths < MaxDeaths
    /\ deaths' = deaths + 1
    /\ Step(p, Idle)
    /\ UNCHANGED <<gates, announced>>

Next == \/ \E f \in NewFacts : SubmitResult(f)
        \/ \E n \in Node, to \in Status : MoveNode(n, to)
        \/ \E e \in NewEvidence : RecordEvent(e)
        \/ \E p \in Proc :
              \/ \E mode \in Mode : Begin(p, mode)
              \/ ReadFacts(p) \/ ReadNodes(p)
              \/ ReadEvents(p) \/ ReadResults(p) \/ ReadChain(p)
              \/ DecideRelease(p) \/ UpsertGate(p) \/ AppendEvents(p) \/ Die(p)

Spec == Init /\ [][Next]_vars
-----------------------------------------------------------------------------
(***************************************************************************)
(* Properties                                                              *)
(***************************************************************************)

\* Every variable holds values of its type.
TypeOK ==
    /\ facts \subseteq Fact
    /\ evidence \subseteq Evidence
    /\ status \in [Node -> Status]
    /\ gates \in [Gate -> Verdict \cup {Unknown}]
    /\ announced \in [Gate -> Verdict \cup {Unknown}]
    /\ eval \in [Proc -> Eval]
    /\ changes \in Nat
    /\ deaths \in Nat

\* A result of the test engineer other than a pass, once stored, keeps the
\* test gate and the release gate of every later legacy evaluation shut,
\* whatever else is stored, retried or moved while it runs.
FailedTestHoldsRelease ==
    \A p \in Proc :
        /\ eval[p].mode = "legacy"
        /\ \E f \in FactsFor(eval[p].began, "test-engineer") : f.status # "pass"
        => eval[p].decided["test_gate"] # "pass" /\ eval[p].decided["release_gate"] # "pass"

\* A strict evaluation never releases a run in which, when it began,
\* one result of any agent did not come from the real, verified provider.
FakeResultHoldsStrictRelease ==
    \A p \in Proc :
        /\ eval[p].mode = "strict"
        /\ \E f \in eval[p].began : f.source # "real"
        => eval[p].decided["release_gate"] # "pass"

(***************************************************************************)
(* Why both hold: results are only ever added, so the results that an      *)
(* evaluation found when it began are among those of each later SELECT; it *)
(* turns to the nodes only when there were none; and only the strict       *)
(* evaluation goes through the phases of the strict one.                   *)
(***************************************************************************)
EvalInv(e) ==
    /\ e.began \subseteq facts
    /\ e.at \in {"events", "results", "chain"} => e.mode = "strict"
    /\ e.at = "nodes" => FactsFor(e.began, AgentOf[e.gate]) = {}
    /\ e.mode = "legacy" /\ (\E f \in FactsFor(e.began, "test-engineer") : f.status # "pass")
       => e.decided["test_gate"] # "pass" /\ e.decided["release_gate"] # "pass"
    /\ e.mode = "strict" /\ (\E f \in e.began : f.source # "real")
       => /\ e.decided["release_gate"] # "pass"
          /\ e.at \in {"events", "results"} \/ e.decided["provider_authenticity_gate"] # "pass"

GateInv == TypeOK /\ \A p \in Proc : EvalInv(eval[p])

(***************************************************************************)
(* What the gates promise, stated without the order of the evaluation: a   *)
(* gate looks at the results of its agent, or at the agent's active nodes  *)
(* when there are none.                                                    *)
(***************************************************************************)
Counted(agent) ==
    IF FactsFor(facts, agent) # {} THEN StatusesOf(FactsFor(facts, agent))
    ELSE {status[n] : n \in ActiveNodes(status, agent)}

TestOpen    == Counted("test-engineer") = {"pass"}
ReviewOpen  == /\ "pass" \in Counted("code-reviewer")
               /\ {"fail", "blocked"} \cap Counted("code-reviewer") = {}
RealityOpen == TestOpen /\ "pass" \in Counted("reality-checker")
ReleaseOpen == TestOpen /\ ReviewOpen /\ RealityOpen

\* The statuses a gate should have now, of the gates of a legacy evaluation.
Expected(g) == CASE g = "test_gate" -> TestOpen
                 [] g = "code_review_gate" -> ReviewOpen
                 [] g = "reality_checker_gate" -> RealityOpen
                 [] g = "release_gate" -> ReleaseOpen

\* A legacy evaluation during which nothing changed has decided exactly that,
\* though it read the tables three to six times.
UndisturbedIsExact ==
    \A p \in Proc :
        eval[p].mode = "legacy" /\ ~eval[p].disturbed /\ eval[p].at \in {"upsert", "announce"}
        => \A g \in Prerequisite \cup {"release_gate"} :
               eval[p].decided[g] = "pass" <=> Expected(g)

\* A strict release decided while nothing changed: every result is real, the
\* tester, the reviewer and the reality checker have passed, and every piece
\* of evidence is there and none against it.
StrictReleaseOpen ==
    /\ \A f \in facts : f.source = "real"
    /\ \A a \in {"test-engineer", "code-reviewer"} : \E f \in facts : f.agent = a /\ f.status = "pass"
    /\ "pass" \in Counted("reality-checker")
    /\ evidence = Evidence \ {"hash mismatch", "path out of bounds"}
UndisturbedStrictIsExact ==
    \A p \in Proc :
        eval[p].mode = "strict" /\ ~eval[p].disturbed /\ eval[p].at \in {"upsert", "announce"}
        => (eval[p].decided["release_gate"] = "pass" <=> StrictReleaseOpen)

(***************************************************************************)
(* Why both hold: as long as nothing changes, every gate that an           *)
(* evaluation has decided is open exactly when the tables say so, and the  *)
(* nodes are turned to only where there are no results.                    *)
(***************************************************************************)
\* The gates that a strict context decides by itself.
ContextGates == Gate \ {"release_gate", "reality_checker_gate", "chain_completeness_gate"}

\* The gates decided where the evaluation stands.
Decided(e) ==
    IF e.at \in {"upsert", "announce"} THEN Gate
    ELSE IF e.at = "release" THEN Gate \ {"release_gate"}
    ELSE IF e.mode = "legacy"
    THEN CASE e.gate = "test_gate" -> {}
           [] e.gate = "code_review_gate" -> {"test_gate"}
           [] OTHER -> {"test_gate", "code_review_gate"}
    ELSE CASE e.at \in {"facts", "nodes"} -> Gate \ {"release_gate", "reality_checker_gate"}
           [] e.at = "chain" -> ContextGates
           [] OTHER -> {}

\* Whether gate g of a strict evaluation is to open.
ExpectedStrict(g) ==
    CASE g = "chain_completeness_gate" -> ChainRule(evidence) = "pass"
      [] g = "reality_checker_gate" -> /\ StrictTestRule(facts, evidence) = "pass"
                                       /\ "pass" \in Counted("reality-checker")
      [] g = "release_gate" -> StrictReleaseOpen
      [] OTHER -> ContextDecisions(facts, evidence)[g] = "pass"

ExactInv(e) ==
    ~e.disturbed =>
        /\ e.at = "nodes" => FactsFor(facts, AgentOf[e.gate]) = {}
        /\ e.at \in {"results", "chain", "facts", "nodes", "release"} /\ e.mode = "strict"
           => e.evidence = evidence
        /\ e.at \in {"facts", "nodes"} =>
              /\ e.mode = "strict" => e.gate = "reality_checker_gate"
              /\ e.gate = "reality_checker_gate" => e.decided["test_gate"] = "pass"
        /\ e.mode = "legacy" =>
              \A g \in Decided(e) \ StrictOnly : e.decided[g] = "pass" <=> Expected(g)
        /\ e.mode = "strict" => \A g \in Decided(e) : e.decided[g] = "pass" <=> ExpectedStrict(g)

\* A sole evaluator has written, of what it decided, all that comes before the
\* place it has reached.
Written(e, gs, as) ==
    /\ e.next \in 1 .. Len(WriteOrder(e.mode))
    /\ e.at \notin {"upsert", "announce"} => e.next = 1
    /\ \A i \in 1 .. e.next - 1 : LET g == WriteOrder(e.mode)[i] IN
          gs[g] = e.decided[g] /\ as[g] = e.decided[g]
    /\ e.at = "announce" => gs[Writing(e)] = e.decided[Writing(e)]

AllExact == \A p \in Proc : ExactInv(eval[p])
AllWritten == \A p \in Proc : Written(eval[p], gates, announced)

\* When an evaluation ends with its last events, no other is going on and nothing
\* changed since it began, the rows of gate_states and the last gate_status_changed
\* events are what the run deserves now, even if earlier evaluations died half-way,
\* and whether or not the statuses it has announced differ from those before.
LastWriteIsCurrent ==
    [][\A p \in Proc :
         /\ AppendEvents(p) /\ eval'[p] = Idle
         /\ eval[p].mode = "legacy" /\ ~eval[p].disturbed
         => \A g \in Prerequisite \cup {"release_gate"} :
                /\ gates'[g] = "pass" <=> Expected(g)
                /\ announced'[g] = gates'[g]]_vars

\* docs/architecture.md:86: "release_gate - requires all three prerequisite
\* gates to pass".  When no evaluation is in progress and none has died, the
\* rows of gate_states say so.
ReleaseBehindGates ==
    deaths = 0 /\ (\A p \in Proc : eval[p].at = "idle") /\ gates["release_gate"] = "pass"
    => \A g \in Prerequisite : gates[g] = "pass"
=============================================================================
