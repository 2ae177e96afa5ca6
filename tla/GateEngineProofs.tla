-------------------------- MODULE GateEngineProofs --------------------------
(***************************************************************************)
(* Proofs about GateEngine: for any number of evaluating processes, nodes  *)
(* and results, and however results, moves, deaths and other evaluations   *)
(* fall between its reads, an evaluation never opens a gate that a result  *)
(* stored before it began keeps shut.                                      *)
(***************************************************************************)
EXTENDS GateEngine, TLAPS

\* Every rule answers with a verdict.
LEMMA RulesDecide ==
    /\ \A g \in Prerequisite : \A found : Rule(g, found) \in Verdict
    /\ \A d, others : ReleaseRule(d, others) \in Verdict
    /\ \A d, ev : StrictReleaseRule(d, ev) \in Verdict
    /\ \A ev : ChainRule(ev) \in Verdict
BY DEF Rule, TestRule, ReviewRule, RealityRule, ReleaseRule, StrictReleaseRule, ChainRule,
       PassIf, Verdict

\* The decisions made from a strict context are verdicts, and the release
\* gate is not among them.
LEMMA ContextDecides ==
    ASSUME NEW fs, NEW ev
    PROVE  /\ ContextDecisions(fs, ev) \in [Gate -> Verdict \cup {Unknown}]
           /\ ContextDecisions(fs, ev)["release_gate"] = Unknown
           /\ ContextDecisions(fs, ev)["provider_authenticity_gate"] = ProviderRule(fs)
BY DEF ContextDecisions, StrictTestRule, StrictReviewRule, ProviderRule, PassIf, Undecided,
       Gate, Prerequisite, StrictOnly, Verdict, Unknown

\* An idle process satisfies the invariant of an evaluation.
LEMMA IdleFine == Idle \in Eval /\ EvalInv(Idle)
BY DEF Idle, Eval, EvalInv, Undecided, Phase, Prerequisite, FactsFor, Unknown, Verdict

\* Moving on to the next gate changes nothing but the place and, at most, the
\* verdict of the reality gate, which it decides as blocked.
LEMMA AfterIs ==
    ASSUME NEW e \in Eval
    PROVE  /\ After(e) \in Eval
           /\ After(e).at \in {"facts", "release"}
           /\ After(e).mode = e.mode /\ After(e).began = e.began
           /\ \A g \in Gate \ {"reality_checker_gate"} : After(e).decided[g] = e.decided[g]
<1>1. "reality_checker_gate" \in Gate  BY DEF Gate, Prerequisite
<1>2. [e.decided EXCEPT !["reality_checker_gate"] = "blocked"] \in [Gate -> Verdict \cup {Unknown}]
  BY <1>1 DEF Eval, Verdict
<1>3. CASE e.gate = "test_gate"
  BY <1>3 DEF After, Eval, Phase, Prerequisite
<1>4. CASE e.gate = "code_review_gate"
  BY <1>4, <1>2 DEF After, Eval, Phase, Prerequisite
<1>5. CASE e.gate = "reality_checker_gate"
  BY <1>5 DEF After, Eval, Phase, Prerequisite
<1> QED BY <1>3, <1>4, <1>5 DEF Eval, Prerequisite

\* A gate decided from what it found.
LEMMA DecideIs ==
    ASSUME NEW e \in Eval, NEW found
    PROVE  /\ Decide(e, found) \in Eval
           /\ Decide(e, found).at \in {"facts", "release"}
           /\ Decide(e, found).mode = e.mode /\ Decide(e, found).began = e.began
           /\ \A g \in Gate \ {"reality_checker_gate", e.gate} :
                 Decide(e, found).decided[g] = e.decided[g]
           /\ e.gate = "test_gate" => Decide(e, found).decided["test_gate"] = TestRule(found)
<1> DEFINE d == [e EXCEPT !.decided[e.gate] = Rule(e.gate, found)]
<1>1. e.gate \in Prerequisite /\ e.gate \in Gate  BY DEF Eval, Gate
<1>2. Rule(e.gate, found) \in Verdict  BY <1>1, RulesDecide
<1>3. [e.decided EXCEPT ![e.gate] = Rule(e.gate, found)] \in [Gate -> Verdict \cup {Unknown}]
  BY <1>1, <1>2 DEF Eval
<1>4. d \in Eval  BY <1>3 DEF Eval
<1>5. d.mode = e.mode /\ d.began = e.began /\ d.at = e.at /\ d.gate = e.gate  BY DEF Eval
<1>6. \A g \in Gate : d.decided[g] = IF g = e.gate THEN Rule(e.gate, found) ELSE e.decided[g]
  BY <1>1 DEF Eval
<1>7. Decide(e, found) = After(d)  BY DEF Decide
<1>8. e.gate = "test_gate" => Rule(e.gate, found) = TestRule(found)  BY DEF Rule
<1>9. "test_gate" \in Gate \ {"reality_checker_gate"}  BY DEF Gate, Prerequisite
<1> HIDE DEF d
<1> QED BY <1>4, <1>5, <1>6, <1>7, <1>8, <1>9, AfterIs

\* A process whose evaluation is replaced by e keeps GateInv when e is one the
\* invariant allows; reading changes nothing else.
LEMMA StepKeeps ==
    ASSUME GateInv, NEW p \in Proc, NEW e \in Eval, EvalInv(e), Step(p, e),
           gates' \in [Gate -> Verdict \cup {Unknown}],
           announced' \in [Gate -> Verdict \cup {Unknown}], deaths' \in Nat
    PROVE  GateInv'
<1>1. eval' \in [Proc -> Eval] /\ \A q \in Proc : eval'[q] = IF q = p THEN e ELSE eval[q]
  BY DEF Step, GateInv, TypeOK
<1>2. UNCHANGED <<facts, evidence, status, changes>>  BY DEF Step
<1>3. \A q \in Proc : EvalInv(eval[q])  BY DEF GateInv
<1>4. \A q \in Proc : EvalInv(eval'[q])  BY <1>1, <1>3
<1>5. \A q \in Proc : EvalInv(eval[q])'  BY <1>2, <1>4 DEF EvalInv
<1>6. TypeOK'  BY <1>1, <1>2 DEF GateInv, TypeOK
<1> QED BY <1>5, <1>6 DEF GateInv

\* The note that an evaluation has been disturbed changes nothing else of it.
LEMMA DisturbedIs ==
    ASSUME NEW e \in Eval, NEW d, d = [e EXCEPT !.disturbed = TRUE]
    PROVE  /\ d \in Eval
           /\ d.at = e.at /\ d.mode = e.mode /\ d.gate = e.gate
           /\ d.began = e.began /\ d.decided = e.decided
BY DEF Eval

\* Results that arrive, nodes that move and events that are recorded leave
\* every evaluation as it is, but for the note that it has been disturbed.
LEMMA ChangeKeeps ==
    ASSUME GateInv, Change, facts \subseteq facts', facts' \subseteq Fact,
           evidence' \subseteq Evidence, status' \in [Node -> Status]
    PROVE  GateInv'
<1>1. \A q \in Proc : eval[q] \in Eval /\ EvalInv(eval[q])  BY DEF GateInv, TypeOK
<1>2. \A q \in Proc : /\ eval'[q] = [eval[q] EXCEPT !.disturbed = TRUE]
                      /\ eval'[q] \in Eval
  BY <1>1, DisturbedIs DEF Change
<1>3. eval' \in [Proc -> Eval]  BY <1>2 DEF Change
<1>4. ASSUME NEW q \in Proc PROVE EvalInv(eval[q])'
  <2>1. /\ eval'[q].at = eval[q].at /\ eval'[q].mode = eval[q].mode
        /\ eval'[q].gate = eval[q].gate /\ eval'[q].began = eval[q].began
        /\ eval'[q].decided = eval[q].decided
    BY <1>1, <1>2, DisturbedIs
  <2> QED BY <2>1, <1>1 DEF EvalInv
<1>5. TypeOK'  BY <1>3 DEF GateInv, TypeOK, Change
<1> QED BY <1>4, <1>5 DEF GateInv
-----------------------------------------------------------------------------
\* The initial states satisfy the invariant.
LEMMA GateInvInit == Init => GateInv
<1> SUFFICES ASSUME Init PROVE GateInv  OBVIOUS
<1>1. Undecided \in [Gate -> Verdict \cup {Unknown}]  BY DEF Undecided
<1>2. TypeOK  BY <1>1, IdleFine, GateAssumption DEF Init, TypeOK
<1>3. \A p \in Proc : eval[p] = Idle  BY DEF Init
<1> QED BY <1>2, <1>3, IdleFine DEF GateInv

\* Where a process evaluates, its evaluation has its type and is as the
\* invariant says; a read leaves the tables that evaluations write alone.
LEMMA ReadKeeps ==
    ASSUME GateInv, NEW p \in Proc, NEW e \in Eval, EvalInv(e), Read(p, e)
    PROVE  GateInv'
<1>1. /\ gates' \in [Gate -> Verdict \cup {Unknown}]
      /\ announced' \in [Gate -> Verdict \cup {Unknown}]
      /\ deaths' \in Nat
  BY DEF Read, GateInv, TypeOK
<1> QED BY <1>1, StepKeeps DEF Read

\* A SELECT over agent_results.  It finds every result that the evaluation
\* found when it began, so a failing test result shuts the test gate.
LEMMA ReadFactsKeeps == ASSUME GateInv, NEW p \in Proc, ReadFacts(p) PROVE GateInv'
<1> DEFINE e == eval[p]
           found == FactsFor(facts, AgentOf[e.gate])
           wait == [e EXCEPT !.at = "nodes"]
           d == Decide(e, StatusesOf(found))
<1>1. e \in Eval /\ EvalInv(e) /\ e.at = "facts"  BY DEF GateInv, TypeOK, ReadFacts
<1>2. FactsFor(e.began, AgentOf[e.gate]) \subseteq found  BY <1>1 DEF EvalInv, FactsFor
<1>3. CASE found = {}
  <2>1. /\ wait \in Eval /\ wait.at = "nodes" /\ wait.mode = e.mode /\ wait.gate = e.gate
        /\ wait.began = e.began /\ wait.decided = e.decided
    BY <1>1 DEF Eval, Phase
  <2>2. Read(p, wait)  BY <1>3 DEF ReadFacts
  <2>3. EvalInv(wait)
    <3> HIDE DEF wait, e
    <3> QED BY <1>1, <1>2, <1>3, <2>1 DEF EvalInv
  <2> HIDE DEF wait
  <2> QED BY <2>1, <2>2, <2>3, ReadKeeps
<1>4. CASE found # {}
  <2>1. Read(p, d)  BY <1>4 DEF ReadFacts
  <2>2. /\ d \in Eval /\ d.at \in {"facts", "release"} /\ d.mode = e.mode /\ d.began = e.began
        /\ \A g \in Gate \ {"reality_checker_gate", e.gate} : d.decided[g] = e.decided[g]
        /\ e.gate = "test_gate" => d.decided["test_gate"] = TestRule(StatusesOf(found))
    BY <1>1, DecideIs
  <2>3. e.gate \in Prerequisite  BY <1>1 DEF Eval
  <2>4. /\ d.decided["release_gate"] = e.decided["release_gate"]
        /\ d.decided["provider_authenticity_gate"] = e.decided["provider_authenticity_gate"]
        /\ e.gate # "test_gate" => d.decided["test_gate"] = e.decided["test_gate"]
    BY <2>2, <2>3 DEF Gate, Prerequisite, StrictOnly
  <2>5. ASSUME e.gate = "test_gate", NEW f \in FactsFor(e.began, "test-engineer"), f.status # "pass"
        PROVE  d.decided["test_gate"] # "pass"
    <3>1. AgentOf[e.gate] = "test-engineer"  BY <2>5 DEF AgentOf, Prerequisite
    <3>2. f.status \in StatusesOf(found)  BY <1>2, <2>5, <3>1 DEF StatusesOf
    <3>3. TestRule(StatusesOf(found)) # "pass"  BY <3>2, <2>5 DEF TestRule
    <3> QED BY <3>3, <2>2, <2>5
  <2>6. EvalInv(d)
    <3> HIDE DEF d, e
    <3> QED BY <1>1, <2>2, <2>4, <2>5 DEF EvalInv
  <2> HIDE DEF d
  <2> QED BY <2>1, <2>2, <2>6, ReadKeeps
<1> QED BY <1>3, <1>4

\* A SELECT over the nodes, which happens only when there were no results, so
\* none that could have shut the test gate when the evaluation began.
LEMMA ReadNodesKeeps == ASSUME GateInv, NEW p \in Proc, ReadNodes(p) PROVE GateInv'
<1> DEFINE e == eval[p]
           found == {status[n] : n \in ActiveNodes(status, AgentOf[e.gate])}
           d == Decide(e, found)
<1>1. e \in Eval /\ EvalInv(e) /\ e.at = "nodes"  BY DEF GateInv, TypeOK, ReadNodes
<1>2. Read(p, d)  BY DEF ReadNodes
<1>3. /\ d \in Eval /\ d.at \in {"facts", "release"} /\ d.mode = e.mode /\ d.began = e.began
      /\ \A g \in Gate \ {"reality_checker_gate", e.gate} : d.decided[g] = e.decided[g]
  BY <1>1, DecideIs
<1>4. e.gate \in Prerequisite  BY <1>1 DEF Eval
<1>5. /\ d.decided["release_gate"] = e.decided["release_gate"]
      /\ d.decided["provider_authenticity_gate"] = e.decided["provider_authenticity_gate"]
      /\ e.gate # "test_gate" => d.decided["test_gate"] = e.decided["test_gate"]
  BY <1>3, <1>4 DEF Gate, Prerequisite, StrictOnly
<1>6. e.gate = "test_gate" => FactsFor(e.began, "test-engineer") = {}
  BY <1>1 DEF EvalInv, AgentOf, Prerequisite
<1>7. EvalInv(d)
  <2> HIDE DEF d, e
  <2> QED BY <1>1, <1>3, <1>5, <1>6 DEF EvalInv
<1> HIDE DEF d
<1> QED BY <1>2, <1>3, <1>7, ReadKeeps

\* An evaluation that begins has decided nothing and takes note of every
\* result there is.
LEMMA BeginKeeps == ASSUME GateInv, NEW p \in Proc, NEW mode \in Mode, Begin(p, mode) PROVE GateInv'
<1> DEFINE e == [Idle EXCEPT !.at = IF mode = "legacy" THEN "facts" ELSE "events", !.mode = mode,
                            !.began = facts, !.disturbed = FALSE]
<1>1. mode \in {"legacy", "strict"}  BY GateAssumption
<1>2. facts \subseteq Fact  BY DEF GateInv, TypeOK
<1>3. /\ e \in Eval /\ e.decided = Undecided /\ e.began = facts /\ e.mode = mode
      /\ e.at = IF mode = "legacy" THEN "facts" ELSE "events"
  BY <1>1, <1>2, IdleFine DEF Idle, Eval, Phase
<1>4. Undecided["test_gate"] # "pass" /\ Undecided["release_gate"] # "pass"
  BY DEF Undecided, Gate, Prerequisite, Unknown
<1>5. EvalInv(e)
  <2> HIDE DEF e
  <2> QED BY <1>1, <1>3, <1>4 DEF EvalInv
<1>6. Read(p, e)  BY DEF Begin
<1> HIDE DEF e
<1> QED BY <1>3, <1>5, <1>6, ReadKeeps

\* The events of a strict context come first and decide nothing by themselves.
LEMMA ReadEventsKeeps == ASSUME GateInv, NEW p \in Proc, ReadEvents(p) PROVE GateInv'
<1> DEFINE e == eval[p]
           d == [e EXCEPT !.at = "results", !.evidence = evidence]
<1>1. e \in Eval /\ EvalInv(e) /\ e.at = "events" /\ evidence \subseteq Evidence
  BY DEF GateInv, TypeOK, ReadEvents
<1>2. /\ d \in Eval /\ d.at = "results" /\ d.mode = e.mode /\ d.gate = e.gate
      /\ d.began = e.began /\ d.decided = e.decided
  BY <1>1 DEF Eval, Phase
<1>3. EvalInv(d)
  <2> HIDE DEF d, e
  <2> QED BY <1>1, <1>2 DEF EvalInv
<1>4. Read(p, d)  BY DEF ReadEvents
<1> HIDE DEF d
<1> QED BY <1>2, <1>3, <1>4, ReadKeeps

\* The results of a strict context include those stored when the evaluation
\* began, so one that is not real fails the provider gate.
LEMMA ReadResultsKeeps == ASSUME GateInv, NEW p \in Proc, ReadResults(p) PROVE GateInv'
<1> DEFINE e == eval[p]
           c == ContextDecisions(facts, e.evidence)
           d == [e EXCEPT !.at = "chain", !.decided = c]
<1>1. e \in Eval /\ EvalInv(e) /\ e.at = "results"  BY DEF GateInv, TypeOK, ReadResults
<1>2. /\ c \in [Gate -> Verdict \cup {Unknown}]
      /\ c["release_gate"] = Unknown
      /\ c["provider_authenticity_gate"] = ProviderRule(facts)
  BY ContextDecides
<1> HIDE DEF c
<1>3. /\ d \in Eval /\ d.at = "chain" /\ d.mode = e.mode /\ d.began = e.began /\ d.decided = c
  BY <1>1, <1>2 DEF Eval, Phase
<1>4. (\E f \in e.began : f.source # "real") => ProviderRule(facts) # "pass"
  BY <1>1 DEF EvalInv, ProviderRule, PassIf
<1>5. e.mode = "strict"  BY <1>1 DEF EvalInv
<1>6. EvalInv(d)
  <2> HIDE DEF d, e
  <2> QED BY <1>1, <1>2, <1>3, <1>4, <1>5 DEF EvalInv, Unknown
<1>7. Read(p, d)  BY DEF ReadResults, c
<1> HIDE DEF d
<1> QED BY <1>3, <1>6, <1>7, ReadKeeps

\* The chain gate is decided without touching the provider gate's verdict.
LEMMA ReadChainKeeps == ASSUME GateInv, NEW p \in Proc, ReadChain(p) PROVE GateInv'
<1> DEFINE e == eval[p]
           c == [e EXCEPT !.decided["chain_completeness_gate"] = ChainRule(evidence),
                          !.gate = "code_review_gate"]
           d == After(c)
<1>1. e \in Eval /\ EvalInv(e) /\ e.at = "chain"  BY DEF GateInv, TypeOK, ReadChain
<1>2. "chain_completeness_gate" \in Gate  BY DEF Gate, StrictOnly
<1>3. [e.decided EXCEPT !["chain_completeness_gate"] = ChainRule(evidence)]
        \in [Gate -> Verdict \cup {Unknown}]
  BY <1>1, <1>2, RulesDecide DEF Eval
<1>4. /\ c \in Eval /\ c.mode = e.mode /\ c.began = e.began
      /\ c.decided = [e.decided EXCEPT !["chain_completeness_gate"] = ChainRule(evidence)]
  BY <1>1, <1>3 DEF Eval, Prerequisite
<1>5. /\ c.decided["release_gate"] = e.decided["release_gate"]
      /\ c.decided["provider_authenticity_gate"] = e.decided["provider_authenticity_gate"]
  BY <1>1, <1>2, <1>4 DEF Eval, Gate, StrictOnly
<1> HIDE DEF c
<1>6. /\ d \in Eval /\ d.at \in {"facts", "release"} /\ d.mode = e.mode /\ d.began = e.began
      /\ d.decided["release_gate"] = e.decided["release_gate"]
      /\ d.decided["provider_authenticity_gate"] = e.decided["provider_authenticity_gate"]
  BY <1>4, <1>5, AfterIs DEF Gate, StrictOnly, Prerequisite
<1>7. e.mode = "strict"  BY <1>1 DEF EvalInv
<1>8. EvalInv(d)
  <2> HIDE DEF d, e
  <2> QED BY <1>1, <1>6, <1>7 DEF EvalInv
<1>9. Read(p, d)  BY DEF ReadChain, c
<1> HIDE DEF d
<1> QED BY <1>6, <1>8, <1>9, ReadKeeps

\* The release gate opens only behind the gates it depends on, among them the
\* test gate and, in a strict evaluation, the provider gate.
LEMMA DecideReleaseKeeps == ASSUME GateInv, NEW p \in Proc, DecideRelease(p) PROVE GateInv'
<1> DEFINE e == eval[p]
           v == IF e.mode = "legacy" THEN ReleaseRule(e.decided, Prerequisite)
                ELSE StrictReleaseRule(e.decided, e.evidence)
           d == [e EXCEPT !.at = "upsert", !.decided["release_gate"] = v]
<1>1. e \in Eval /\ EvalInv(e) /\ e.at = "release"  BY DEF GateInv, TypeOK, DecideRelease
<1>2. v \in Verdict  BY RulesDecide
<1>3. e.mode = "legacy" /\ v = "pass" => e.decided["test_gate"] = "pass"
  BY DEF ReleaseRule, Prerequisite
<1>4. e.mode = "strict" /\ v = "pass" => e.decided["provider_authenticity_gate"] = "pass"
  BY DEF StrictReleaseRule, ReleaseRule, StrictOnly
<1> HIDE DEF v
<1>5. "release_gate" \in Gate  BY DEF Gate
<1>6. [e.decided EXCEPT !["release_gate"] = v] \in [Gate -> Verdict \cup {Unknown}]
  BY <1>1, <1>2, <1>5 DEF Eval
<1>7. /\ d \in Eval /\ d.at = "upsert" /\ d.mode = e.mode /\ d.began = e.began
      /\ d.decided = [e.decided EXCEPT !["release_gate"] = v]
  BY <1>1, <1>6 DEF Eval, Phase
<1>8. /\ d.decided["release_gate"] = v
      /\ d.decided["test_gate"] = e.decided["test_gate"]
      /\ d.decided["provider_authenticity_gate"] = e.decided["provider_authenticity_gate"]
  BY <1>1, <1>5, <1>7 DEF Eval, Gate, Prerequisite, StrictOnly
<1>9. EvalInv(d)
  <2> HIDE DEF d, e
  <2> QED BY <1>1, <1>3, <1>4, <1>7, <1>8 DEF EvalInv
<1>10. Read(p, d)  BY DEF DecideRelease, v
<1> HIDE DEF d
<1> QED BY <1>7, <1>9, <1>10, ReadKeeps

\* Writing a decided gate, announcing it and dying change no evaluation but
\* the place it has reached, or end it.
LEMMA WriteKeeps ==
    ASSUME GateInv, NEW p \in Proc, UpsertGate(p) \/ AppendEvents(p) \/ Die(p)
    PROVE  GateInv'
<1> DEFINE e == eval[p]
           g == Writing(e)
           k == e.next + 1
           said == [e EXCEPT !.at = "announce"]
           more == [e EXCEPT !.at = "upsert", !.next = k]
<1>1. e \in Eval /\ EvalInv(e)  BY DEF GateInv, TypeOK
<1>2. \A x \in Gate : e.decided[x] \in Verdict \cup {Unknown}  BY <1>1 DEF Eval
<1>3. /\ [gates EXCEPT ![g] = e.decided[g]] \in [Gate -> Verdict \cup {Unknown}]
      /\ [announced EXCEPT ![g] = e.decided[g]] \in [Gate -> Verdict \cup {Unknown}]
  <2> HIDE DEF g, e
  <2> QED BY <1>2 DEF GateInv, TypeOK
<1>4. /\ gates \in [Gate -> Verdict \cup {Unknown}]
      /\ announced \in [Gate -> Verdict \cup {Unknown}]
      /\ deaths \in Nat /\ deaths + 1 \in Nat
  BY DEF GateInv, TypeOK
<1>5. CASE UpsertGate(p)
  <2>1. /\ said \in Eval /\ said.at = "announce" /\ said.mode = e.mode /\ said.gate = e.gate
        /\ said.began = e.began /\ said.decided = e.decided
    BY <1>1 DEF Eval, Phase
  <2>2. e.at = "upsert"  BY <1>5 DEF UpsertGate
  <2>3. EvalInv(said)
    <3> HIDE DEF said, e
    <3> QED BY <1>1, <2>1, <2>2 DEF EvalInv
  <2>4. Step(p, said) /\ gates' = [gates EXCEPT ![g] = e.decided[g]] /\ UNCHANGED <<announced, deaths>>
    BY <1>5 DEF UpsertGate
  <2> HIDE DEF said
  <2> QED BY <1>3, <1>4, <2>1, <2>3, <2>4, StepKeeps
<1>6. CASE AppendEvents(p)
  <2>0. k \in Nat  BY <1>1 DEF Eval
  <2> HIDE DEF k
  <2>1. /\ more \in Eval /\ more.at = "upsert" /\ more.mode = e.mode /\ more.gate = e.gate
        /\ more.began = e.began /\ more.decided = e.decided
    BY <1>1, <2>0 DEF Eval, Phase
  <2>2. e.at = "announce"  BY <1>6 DEF AppendEvents
  <2>3. EvalInv(more)
    <3> HIDE DEF more, e
    <3> QED BY <1>1, <2>1, <2>2 DEF EvalInv
  <2>4. /\ Step(p, Idle) \/ Step(p, more)
        /\ announced' = [announced EXCEPT ![g] = e.decided[g]] /\ UNCHANGED <<gates, deaths>>
    BY <1>6 DEF AppendEvents, k
  <2> HIDE DEF more
  <2>5. CASE Step(p, Idle)  BY <2>5, <2>4, <1>3, <1>4, IdleFine, StepKeeps
  <2>6. CASE Step(p, more)  BY <2>6, <2>1, <2>3, <2>4, <1>3, <1>4, StepKeeps
  <2> QED BY <2>4, <2>5, <2>6
<1>7. CASE Die(p)
  <2>1. Step(p, Idle) /\ deaths' = deaths + 1 /\ UNCHANGED <<gates, announced>>
    BY <1>7 DEF Die
  <2> QED BY <2>1, <1>4, IdleFine, StepKeeps
<1> QED BY <1>5, <1>6, <1>7

\* Every step keeps the invariant.
LEMMA GateInvNext == GateInv /\ [Next]_vars => GateInv'
<1> SUFFICES ASSUME GateInv, [Next]_vars PROVE GateInv'  OBVIOUS
<1>1. /\ facts \subseteq Fact /\ evidence \subseteq Evidence /\ status \in [Node -> Status]
      /\ NewFacts \subseteq Fact /\ NewEvidence \subseteq Evidence
  BY GateAssumption DEF GateInv, TypeOK
<1>2. ASSUME NEW f \in NewFacts, SubmitResult(f) PROVE GateInv'
  BY <1>1, <1>2, ChangeKeeps DEF SubmitResult
<1>3. ASSUME NEW n \in Node, NEW to \in Status, MoveNode(n, to) PROVE GateInv'
  BY <1>1, <1>3, ChangeKeeps DEF MoveNode
<1>4. ASSUME NEW e \in NewEvidence, RecordEvent(e) PROVE GateInv'
  BY <1>1, <1>4, ChangeKeeps DEF RecordEvent
<1>5. ASSUME NEW p \in Proc, NEW mode \in Mode, Begin(p, mode) PROVE GateInv'
  BY <1>5, BeginKeeps
<1>6. ASSUME NEW p \in Proc,
             \/ ReadFacts(p) \/ ReadNodes(p) \/ ReadEvents(p) \/ ReadResults(p)
             \/ ReadChain(p) \/ DecideRelease(p)
      PROVE  GateInv'
  BY <1>6, ReadFactsKeeps, ReadNodesKeeps, ReadEventsKeeps, ReadResultsKeeps,
     ReadChainKeeps, DecideReleaseKeeps
<1>7. ASSUME NEW p \in Proc, UpsertGate(p) \/ AppendEvents(p) \/ Die(p) PROVE GateInv'
  BY <1>7, WriteKeeps
<1>8. CASE UNCHANGED vars
  BY <1>8 DEF vars, GateInv, TypeOK, EvalInv
<1> QED BY <1>2, <1>3, <1>4, <1>5, <1>6, <1>7, <1>8 DEF Next
-----------------------------------------------------------------------------
\* The evaluations of evaluate_all, whatever goes on around them, satisfy the
\* inductive invariant (gate_engine.py).
THEOREM GateInvariant == Spec => []GateInv
BY GateInvInit, GateInvNext, PTL DEF Spec

\* Every variable of the gate engine's tables and evaluations has its type.
THEOREM GateTypeCorrect == Spec => []TypeOK
<1>1. GateInv => TypeOK  BY DEF GateInv
<1> QED BY <1>1, GateInvariant, PTL

\* A failed or blocked result of the test engineer shuts the test gate and the
\* release gate of every legacy evaluation that begins after it was stored.
THEOREM FailedTestAlwaysHolds == Spec => []FailedTestHoldsRelease
<1>1. GateInv => FailedTestHoldsRelease  BY DEF GateInv, EvalInv, FailedTestHoldsRelease
<1> QED BY <1>1, GateInvariant, PTL

\* A result that does not come from the real, verified provider shuts the
\* release gate of every strict evaluation that begins after it was stored.
THEOREM FakeResultAlwaysHolds == Spec => []FakeResultHoldsStrictRelease
<1>1. GateInv => FakeResultHoldsStrictRelease  BY DEF GateInv, EvalInv, FakeResultHoldsStrictRelease
<1> QED BY <1>1, GateInvariant, PTL

-----------------------------------------------------------------------------
(***************************************************************************)
(* What an evaluation decides while nothing changes.                       *)
(***************************************************************************)
\* After, case by case: where it leads and what it has decided by then.
LEMMA AfterCases ==
    ASSUME NEW e \in Eval
    PROVE  /\ After(e).disturbed = e.disturbed /\ After(e).evidence = e.evidence
           /\ After(e).next = e.next
           /\ e.gate = "test_gate" =>
                 /\ After(e).at = "facts" /\ After(e).gate = "code_review_gate"
                 /\ After(e).decided = e.decided
           /\ e.gate = "code_review_gate" /\ e.decided["test_gate"] = "pass" =>
                 /\ After(e).at = "facts" /\ After(e).gate = "reality_checker_gate"
                 /\ After(e).decided = e.decided
           /\ e.gate = "code_review_gate" /\ e.decided["test_gate"] # "pass" =>
                 /\ After(e).at = "release"
                 /\ After(e).decided["reality_checker_gate"] = "blocked"
           /\ e.gate = "reality_checker_gate" =>
                 After(e).at = "release" /\ After(e).decided = e.decided
<1>1. "reality_checker_gate" \in Gate  BY DEF Gate, Prerequisite
<1>2. CASE e.gate = "test_gate"
  BY <1>2 DEF After, Eval
<1>3. CASE e.gate = "code_review_gate" /\ e.decided["test_gate"] = "pass"
  BY <1>3 DEF After, Eval
<1>4. CASE e.gate = "code_review_gate" /\ e.decided["test_gate"] # "pass"
  <2> DEFINE r == [e EXCEPT !.at = "release", !.decided["reality_checker_gate"] = "blocked"]
  <2>1. After(e) = r  BY <1>4 DEF After
  <2>2. /\ r.disturbed = e.disturbed /\ r.evidence = e.evidence /\ r.next = e.next
        /\ r.at = "release"
    BY DEF Eval
  <2>3. r.decided["reality_checker_gate"] = "blocked"  BY <1>1 DEF Eval
  <2> HIDE DEF r
  <2> QED BY <1>4, <2>1, <2>2, <2>3
<1>5. CASE e.gate = "reality_checker_gate"
  BY <1>5 DEF After, Eval
<1> QED BY <1>2, <1>3, <1>4, <1>5 DEF Eval, Prerequisite

\* As long as the tables stay as they are, so does what the gates deserve.
LEMMA ExactStays ==
    ASSUME UNCHANGED <<facts, evidence, status>>, NEW e, ExactInv(e)
    PROVE  ExactInv(e)'
<1>1. ASSUME NEW a PROVE Counted(a)' = Counted(a)
  BY DEF Counted, ActiveNodes
<1>2. ASSUME NEW g PROVE Expected(g)' <=> Expected(g)
  BY <1>1 DEF Expected, TestOpen, ReviewOpen, RealityOpen, ReleaseOpen
<1>3. StrictReleaseOpen' <=> StrictReleaseOpen
  BY <1>1 DEF StrictReleaseOpen
<1>4. ASSUME NEW g PROVE ExpectedStrict(g)' <=> ExpectedStrict(g)
  BY <1>1, <1>3 DEF ExpectedStrict
<1> QED BY <1>2, <1>4 DEF ExactInv

\* An idle process, and one that has been disturbed, have nothing to account
\* for.
LEMMA DisturbedExact == ASSUME NEW e, e.disturbed PROVE ExactInv(e)
BY DEF ExactInv

\* A process whose evaluation is replaced by an exact one keeps all exact.
LEMMA ExactStep ==
    ASSUME GateInv, AllExact, NEW p \in Proc, NEW e, ExactInv(e), Step(p, e)
    PROVE  AllExact'
<1>1. /\ UNCHANGED <<facts, evidence, status>>
      /\ \A q \in Proc : eval'[q] = IF q = p THEN e ELSE eval[q]
  BY DEF Step, GateInv, TypeOK
<1>2. ASSUME NEW q \in Proc PROVE ExactInv(eval[q])'
  <2>1. ExactInv(eval'[q])  BY <1>1 DEF AllExact
  <2>2. \A d : d = eval'[q] /\ ExactInv(d) => ExactInv(d)'
    BY <1>1, ExactStays
  <2> QED BY <2>1, <2>2 DEF ExactInv
<1> QED BY <1>2 DEF AllExact

\* A gate opens on exactly the statuses that its promise names.
LEMMA RulesAreExact ==
    /\ TestRule(Counted("test-engineer")) = "pass" <=> TestOpen
    /\ ReviewRule(Counted("code-reviewer")) = "pass" <=> ReviewOpen
    /\ \A found : RealityRule(found) = "pass" <=> "pass" \in found
BY DEF TestRule, ReviewRule, RealityRule, TestOpen, ReviewOpen

\* A legacy gate, or the strict reality gate, decided from what it counts.
LEMMA DecideExact ==
    ASSUME NEW e \in Eval, ExactInv(e), e.at \in {"facts", "nodes"}, ~e.disturbed,
           NEW found, found = Counted(AgentOf[e.gate])
    PROVE  ExactInv(Decide(e, found))
<1> DEFINE v == Rule(e.gate, found)
           d == [e EXCEPT !.decided[e.gate] = v]
           a == After(d)
<1>1. e.gate \in Prerequisite /\ e.gate \in Gate /\ e.mode \in {"legacy", "strict"}
  BY DEF Eval, Gate
<1>2. v \in Verdict  BY <1>1, RulesDecide
<1> HIDE DEF v
<1>3. d \in Eval
  <2>1. [e.decided EXCEPT ![e.gate] = v] \in [Gate -> Verdict \cup {Unknown}]
    BY <1>1, <1>2 DEF Eval
  <2> QED BY <2>1 DEF Eval
<1>4. /\ d.mode = e.mode /\ d.at = e.at /\ d.gate = e.gate /\ d.evidence = e.evidence
      /\ d.disturbed = e.disturbed /\ d.next = e.next
  BY DEF Eval
<1>5. \A g \in Gate : d.decided[g] = IF g = e.gate THEN v ELSE e.decided[g]
  BY <1>1 DEF Eval
<1> HIDE DEF d
<1>6. /\ a.mode = e.mode /\ a.evidence = e.evidence /\ a.disturbed = e.disturbed
      /\ \A g \in Gate \ {"reality_checker_gate"} : a.decided[g] = d.decided[g]
  BY <1>3, <1>4, AfterIs, AfterCases
<1>7. Decide(e, found) = a  BY DEF Decide, d, v
<1> DEFINE Legacy(g) == e.decided[g] = "pass" <=> Expected(g)
<1>8. Gate = Prerequisite \cup StrictOnly \cup {"release_gate"}  BY DEF Gate
<1>9. CASE e.gate = "test_gate"
  <2>1. e.mode = "legacy" /\ v = TestRule(found) /\ AgentOf[e.gate] = "test-engineer"
    BY <1>1, <1>9 DEF ExactInv, v, Rule, AgentOf, Prerequisite
  <2>2. a.at = "facts" /\ a.gate = "code_review_gate"
    BY <1>3, <1>4, <1>9, AfterCases
  <2>3. a.decided["test_gate"] = v
    BY <1>5, <1>6, <1>9 DEF Gate, Prerequisite
  <2>4. v = "pass" <=> TestOpen  BY <2>1, RulesAreExact
  <2>5. Decided(a) = {"test_gate"} /\ Expected("test_gate") = TestOpen
    BY <1>6, <2>1, <2>2 DEF Decided, Expected
  <2> HIDE DEF a
  <2> QED BY <1>6, <1>7, <2>1, <2>2, <2>3, <2>4, <2>5 DEF ExactInv
<1>10. CASE e.gate = "code_review_gate"
  <2>1. e.mode = "legacy" /\ v = ReviewRule(found) /\ AgentOf[e.gate] = "code-reviewer"
    BY <1>1, <1>10 DEF ExactInv, v, Rule, AgentOf, Prerequisite
  <2>2. Decided(e) = {"test_gate"} /\ "test_gate" \notin StrictOnly
    BY <1>10, <2>1 DEF Decided, StrictOnly
  <2>3. e.decided["test_gate"] = "pass" <=> TestOpen
    BY <2>1, <2>2 DEF ExactInv, Expected
  <2>4. v = "pass" <=> ReviewOpen  BY <2>1, RulesAreExact
  <2>5. a.decided["test_gate"] = e.decided["test_gate"] /\ a.decided["code_review_gate"] = v
    BY <1>5, <1>6, <1>10 DEF Gate, Prerequisite
  <2>6. d.decided["test_gate"] = e.decided["test_gate"]
    BY <1>5, <1>10 DEF Gate, Prerequisite
  <2>7. /\ Expected("test_gate") = TestOpen /\ Expected("code_review_gate") = ReviewOpen
        /\ Expected("reality_checker_gate") = RealityOpen
    BY DEF Expected
  <2>8. CASE e.decided["test_gate"] = "pass"
    <3>1. a.at = "facts" /\ a.gate = "reality_checker_gate"
      BY <1>3, <1>4, <1>10, <2>6, <2>8, AfterCases
    <3>2. Decided(a) = {"test_gate", "code_review_gate"}
      BY <1>6, <2>1, <3>1 DEF Decided
    <3>3. \A g \in Decided(a) \ StrictOnly : a.decided[g] = "pass" <=> Expected(g)
      BY <2>3, <2>4, <2>5, <2>7, <3>2
    <3>4. a.decided["test_gate"] = "pass" /\ a.mode = "legacy"
      BY <1>6, <2>1, <2>5, <2>8
    <3> HIDE DEF a
    <3> QED BY <1>7, <3>1, <3>3, <3>4 DEF ExactInv
  <2>9. CASE e.decided["test_gate"] # "pass"
    <3>1. a.at = "release" /\ a.decided["reality_checker_gate"] = "blocked"
      BY <1>3, <1>4, <1>10, <2>6, <2>9, AfterCases
    <3>2. Decided(a) \ StrictOnly = {"test_gate", "code_review_gate", "reality_checker_gate"}
      BY <3>1 DEF Decided, Gate, StrictOnly, Prerequisite
    <3>3. ~ RealityOpen  BY <2>3, <2>9 DEF RealityOpen
    <3> HIDE DEF a
    <3> QED BY <1>6, <1>7, <2>1, <2>3, <2>4, <2>5, <2>7, <2>9, <3>1, <3>2, <3>3 DEF ExactInv
  <2> QED BY <2>8, <2>9
<1>11. CASE e.gate = "reality_checker_gate"
  <2>1. v = RealityRule(found) /\ AgentOf[e.gate] = "reality-checker"
    BY <1>1, <1>11 DEF v, Rule, AgentOf, Prerequisite
  <2>2. v = "pass" <=> "pass" \in Counted("reality-checker")  BY <2>1, RulesAreExact
  <2>3. a.at = "release" /\ a.decided = d.decided
    BY <1>3, <1>4, <1>11, AfterCases
  <2>4. /\ a.decided["reality_checker_gate"] = v
        /\ \A g \in Gate \ {"reality_checker_gate"} : a.decided[g] = e.decided[g]
    BY <1>5, <1>11, <2>3 DEF Gate, Prerequisite
  <2>5. e.decided["test_gate"] = "pass"
    BY <1>11 DEF ExactInv
  <2>6. Decided(a) = Gate \ {"release_gate"}
    BY <2>3 DEF Decided
  <2>7. CASE e.mode = "legacy"
    <3>1. Decided(e) = {"test_gate", "code_review_gate"}
      BY <1>11, <2>7 DEF Decided
    <3>2. /\ e.decided["test_gate"] = "pass" <=> TestOpen
          /\ e.decided["code_review_gate"] = "pass" <=> ReviewOpen
      BY <2>7, <3>1 DEF ExactInv, Expected, StrictOnly
    <3>3. RealityOpen <=> v = "pass"
      BY <2>2, <2>5, <3>2 DEF RealityOpen
    <3>4. Decided(a) \ StrictOnly = {"test_gate", "code_review_gate", "reality_checker_gate"}
      BY <2>6 DEF Gate, StrictOnly, Prerequisite
    <3>5. /\ Expected("test_gate") = TestOpen /\ Expected("code_review_gate") = ReviewOpen
          /\ Expected("reality_checker_gate") = RealityOpen
          /\ {"test_gate", "code_review_gate"} \subseteq Gate \ {"reality_checker_gate"}
      BY DEF Expected, Gate, Prerequisite
    <3> HIDE DEF a
    <3> QED BY <1>6, <1>7, <2>3, <2>4, <2>7, <3>2, <3>3, <3>4, <3>5 DEF ExactInv
  <2>8. CASE e.mode = "strict"
    <3>1. Decided(e) = Gate \ {"release_gate", "reality_checker_gate"}
      BY <2>8 DEF Decided
    <3>2. \A g \in Gate \ {"release_gate", "reality_checker_gate"} :
             e.decided[g] = "pass" <=> ExpectedStrict(g)
      BY <2>8, <3>1 DEF ExactInv
    <3>3. e.evidence = evidence  BY <2>8 DEF ExactInv
    <3>4. ExpectedStrict("test_gate") <=> ContextDecisions(facts, evidence)["test_gate"] = "pass"
      BY DEF ExpectedStrict
    <3>5. ContextDecisions(facts, evidence)["test_gate"] = StrictTestRule(facts, evidence)
      BY DEF ContextDecisions, Undecided, Gate, Prerequisite
    <3>6. "test_gate" \in Gate \ {"release_gate", "reality_checker_gate"}
      BY DEF Gate, Prerequisite
    <3>7. ExpectedStrict("reality_checker_gate") <=> v = "pass"
      BY <2>2, <2>5, <3>2, <3>4, <3>5, <3>6 DEF ExpectedStrict
    <3>8. \A g \in Decided(a) : a.decided[g] = "pass" <=> ExpectedStrict(g)
      BY <2>4, <2>6, <3>2, <3>7
    <3> HIDE DEF a
    <3> QED BY <1>6, <1>7, <2>3, <2>8, <3>3, <3>8 DEF ExactInv
  <2> QED BY <1>1, <2>7, <2>8
<1> QED BY <1>1, <1>9, <1>10, <1>11 DEF Prerequisite

\* A step in which process p decides from the world as it is.
LEMMA DecidingExact ==
    ASSUME GateInv, AllExact, NEW p \in Proc, eval[p].at \in {"facts", "nodes"},
           NEW found, Read(p, Decide(eval[p], found)),
           ~ eval[p].disturbed => found = Counted(AgentOf[eval[p].gate])
    PROVE  AllExact'
<1> DEFINE e == eval[p]
           d == Decide(e, found)
<1>1. e \in Eval /\ ExactInv(e)  BY DEF GateInv, TypeOK, AllExact
<1>2. ExactInv(d)
  <2>1. CASE e.disturbed
    <3> DEFINE c == [e EXCEPT !.decided[e.gate] = Rule(e.gate, found)]
    <3>1. e.gate \in Prerequisite /\ e.gate \in Gate  BY <1>1 DEF Eval, Gate
    <3>2. [e.decided EXCEPT ![e.gate] = Rule(e.gate, found)] \in [Gate -> Verdict \cup {Unknown}]
      BY <1>1, <3>1, RulesDecide DEF Eval
    <3>3. c \in Eval /\ c.disturbed = e.disturbed  BY <1>1, <3>2 DEF Eval
    <3>4. d = After(c)  BY DEF Decide
    <3> HIDE DEF c, d
    <3>5. d.disturbed  BY <2>1, <3>3, <3>4, AfterCases
    <3> QED BY <3>5, DisturbedExact
  <2>2. CASE ~e.disturbed
    BY <1>1, <2>2, DecideExact
  <2> QED BY <2>1, <2>2
<1> HIDE DEF d
<1> QED BY <1>2, ExactStep DEF Read, d

\* A SELECT over the results decides from what the gate is to count, or leads
\* on to the nodes.
LEMMA ReadFactsExact == ASSUME GateInv, AllExact, NEW p \in Proc, ReadFacts(p) PROVE AllExact'
<1> DEFINE e == eval[p]
           found == FactsFor(facts, AgentOf[e.gate])
           wait == [e EXCEPT !.at = "nodes"]
<1>1. e \in Eval /\ ExactInv(e) /\ e.at = "facts"  BY DEF GateInv, TypeOK, AllExact, ReadFacts
<1>2. CASE found = {}
  <2>1. /\ wait.at = "nodes" /\ wait.mode = e.mode /\ wait.gate = e.gate /\ wait.decided = e.decided
        /\ wait.evidence = e.evidence /\ wait.disturbed = e.disturbed
    BY <1>1 DEF Eval
  <2>2. Read(p, wait)  BY <1>2 DEF ReadFacts
  <2> HIDE DEF wait
  <2>3. Decided(wait) = Decided(e)
    BY <1>1, <2>1 DEF Decided
  <2>4. ExactInv(wait)
    BY <1>1, <1>2, <2>1, <2>3 DEF ExactInv
  <2> QED BY <2>2, <2>4, ExactStep DEF Read
<1>3. CASE found # {}
  <2>1. Read(p, Decide(e, StatusesOf(found)))  BY <1>3 DEF ReadFacts
  <2>2. StatusesOf(found) = Counted(AgentOf[e.gate])  BY <1>3 DEF Counted
  <2> QED BY <1>1, <2>1, <2>2, DecidingExact
<1> QED BY <1>2, <1>3

\* The nodes are what the gate is to count when there are no results.
LEMMA ReadNodesExact == ASSUME GateInv, AllExact, NEW p \in Proc, ReadNodes(p) PROVE AllExact'
<1> DEFINE e == eval[p]
           found == {status[n] : n \in ActiveNodes(status, AgentOf[e.gate])}
<1>1. ExactInv(e) /\ e.at = "nodes"  BY DEF AllExact, ReadNodes
<1>2. Read(p, Decide(e, found))  BY DEF ReadNodes
<1>3. ~e.disturbed => found = Counted(AgentOf[e.gate])
  BY <1>1 DEF ExactInv, Counted
<1> QED BY <1>1, <1>2, <1>3, DecidingExact

\* An evaluation that begins has decided nothing yet.
LEMMA BeginExact ==
    ASSUME GateInv, AllExact, NEW p \in Proc, NEW mode \in Mode, Begin(p, mode)
    PROVE  AllExact'
<1> DEFINE e == [Idle EXCEPT !.at = IF mode = "legacy" THEN "facts" ELSE "events", !.mode = mode,
                            !.began = facts, !.disturbed = FALSE]
<1>1. mode \in {"legacy", "strict"}  BY GateAssumption
<1>2. /\ e.mode = mode /\ e.gate = "test_gate" /\ e.at = IF mode = "legacy" THEN "facts" ELSE "events"
  BY DEF Idle
<1>3. Read(p, e)  BY DEF Begin
<1> HIDE DEF e
<1>4. Decided(e) = {}
  BY <1>1, <1>2 DEF Decided
<1>5. ExactInv(e)
  BY <1>1, <1>2, <1>4 DEF ExactInv
<1> QED BY <1>3, <1>5, ExactStep DEF Read

\* The two halves of a strict context are of the same world.
LEMMA ContextExact ==
    ASSUME GateInv, AllExact, NEW p \in Proc, ReadEvents(p) \/ ReadResults(p)
    PROVE  AllExact'
<1> DEFINE e == eval[p]
           read == [e EXCEPT !.at = "results", !.evidence = evidence]
           c == ContextDecisions(facts, e.evidence)
           done == [e EXCEPT !.at = "chain", !.decided = c]
<1>1. e \in Eval /\ ExactInv(e) /\ EvalInv(e)  BY DEF GateInv, TypeOK, AllExact
<1>2. CASE ReadEvents(p)
  <2>1. /\ read.at = "results" /\ read.mode = e.mode /\ read.evidence = evidence
    BY <1>1 DEF Eval
  <2>2. Read(p, read) /\ e.mode = "strict"  BY <1>1, <1>2 DEF ReadEvents, EvalInv
  <2> HIDE DEF read
  <2>3. Decided(read) = {}  BY <2>1, <2>2 DEF Decided
  <2>4. ExactInv(read)  BY <2>1, <2>2, <2>3 DEF ExactInv
  <2> QED BY <2>2, <2>4, ExactStep DEF Read
<1>3. CASE ReadResults(p)
  <2>1. Read(p, done) /\ e.mode = "strict" /\ e.at = "results"
    BY <1>1, <1>3 DEF ReadResults, EvalInv
  <2>2. /\ done.at = "chain" /\ done.mode = e.mode /\ done.decided = c
        /\ done.evidence = e.evidence /\ done.disturbed = e.disturbed
    BY <1>1 DEF Eval
  <2> HIDE DEF done, c
  <2>3. Decided(done) = ContextGates  BY <2>1, <2>2 DEF Decided
  <2>4. ExactInv(done)
    <3> SUFFICES ASSUME ~done.disturbed PROVE ExactInv(done)
      BY DEF ExactInv
    <3>1. e.evidence = evidence  BY <1>1, <2>1, <2>2 DEF ExactInv
    <3>2. \A g \in ContextGates : done.decided[g] = "pass" <=> ExpectedStrict(g)
      BY <2>2, <3>1 DEF ExpectedStrict, ContextGates, c
    <3> QED BY <2>1, <2>2, <2>3, <3>1, <3>2 DEF ExactInv
  <2> QED BY <2>1, <2>4, ExactStep DEF Read
<1> QED BY <1>2, <1>3

\* The chain gate looks at the events anew and finds the same ones.
LEMMA ReadChainExact == ASSUME GateInv, AllExact, NEW p \in Proc, ReadChain(p) PROVE AllExact'
<1> DEFINE e == eval[p]
           v == ChainRule(evidence)
           c == [e EXCEPT !.decided["chain_completeness_gate"] = v, !.gate = "code_review_gate"]
           d == After(c)
<1>1. e \in Eval /\ ExactInv(e) /\ e.at = "chain" /\ e.mode = "strict"
  BY DEF GateInv, EvalInv, TypeOK, AllExact, ReadChain
<1>2. Read(p, d)  BY DEF ReadChain
<1>3. "chain_completeness_gate" \in Gate  BY DEF Gate, StrictOnly
<1>4. [e.decided EXCEPT !["chain_completeness_gate"] = v] \in [Gate -> Verdict \cup {Unknown}]
  BY <1>1, <1>3, RulesDecide DEF Eval
<1>5. /\ c \in Eval /\ c.mode = e.mode /\ c.gate = "code_review_gate"
      /\ c.evidence = e.evidence /\ c.disturbed = e.disturbed
      /\ c.decided = [e.decided EXCEPT !["chain_completeness_gate"] = v]
  BY <1>1, <1>4 DEF Eval, Prerequisite
<1>6. \A g \in Gate : c.decided[g] = IF g = "chain_completeness_gate" THEN v ELSE e.decided[g]
  BY <1>1, <1>3, <1>5 DEF Eval
<1> HIDE DEF c
<1>7. /\ d.mode = e.mode /\ d.evidence = e.evidence /\ d.disturbed = e.disturbed
      /\ \A g \in Gate \ {"reality_checker_gate"} : d.decided[g] = c.decided[g]
  BY <1>5, AfterIs, AfterCases
<1>8. ExactInv(d)
  <2> SUFFICES ASSUME ~e.disturbed PROVE ExactInv(d)
    BY <1>7 DEF ExactInv
  <2>1. /\ e.evidence = evidence
        /\ \A g \in ContextGates : e.decided[g] = "pass" <=> ExpectedStrict(g)
    BY <1>1 DEF ExactInv, Decided
  <2>2. \A g \in Gate \ {"release_gate", "reality_checker_gate"} :
           d.decided[g] = "pass" <=> ExpectedStrict(g)
    BY <1>6, <1>7, <2>1 DEF ContextGates, ExpectedStrict
  <2>3. /\ "test_gate" \in Gate \ {"release_gate", "reality_checker_gate"}
        /\ c.decided["test_gate"] = d.decided["test_gate"]
    BY <1>7 DEF Gate, Prerequisite
  <2>4. ExpectedStrict("test_gate") <=> StrictTestRule(facts, evidence) = "pass"
    BY DEF ExpectedStrict, ContextDecisions, Undecided, Gate, Prerequisite
  <2>5. CASE c.decided["test_gate"] = "pass"
    <3>1. d.at = "facts" /\ d.gate = "reality_checker_gate"
      BY <1>5, <2>5, AfterCases
    <3>2. Decided(d) = Gate \ {"release_gate", "reality_checker_gate"}
      BY <1>1, <1>7, <3>1 DEF Decided
    <3> HIDE DEF d
    <3> QED BY <1>1, <1>7, <2>1, <2>2, <2>3, <2>5, <3>1, <3>2 DEF ExactInv
  <2>6. CASE c.decided["test_gate"] # "pass"
    <3>1. d.at = "release" /\ d.decided["reality_checker_gate"] = "blocked"
      BY <1>5, <2>6, AfterCases
    <3>2. Decided(d) = Gate \ {"release_gate"}
      BY <3>1 DEF Decided
    <3>3. ~ ExpectedStrict("reality_checker_gate")
      BY <2>2, <2>3, <2>4, <2>6 DEF ExpectedStrict
    <3> HIDE DEF d
    <3>4. \A g \in Decided(d) : d.decided[g] = "pass" <=> ExpectedStrict(g)
      BY <2>2, <3>1, <3>2, <3>3
    <3> QED BY <1>1, <1>7, <2>1, <3>1, <3>4 DEF ExactInv
  <2> QED BY <2>5, <2>6
<1> HIDE DEF d
<1> QED BY <1>2, <1>8, ExactStep DEF Read

\* The strict release gate asks for all that its promise names and no more.
LEMMA StrictReleaseIsExact ==
    ASSUME facts \subseteq Fact, evidence \subseteq Evidence, NEW decided,
           \A g \in Prerequisite \cup StrictOnly : decided[g] = "pass" <=> ExpectedStrict(g)
    PROVE  StrictReleaseRule(decided, evidence) = "pass" <=> StrictReleaseOpen
<1> DEFINE c == ContextDecisions(facts, evidence)
           all == \A g \in Prerequisite \cup StrictOnly : ExpectedStrict(g)
<1>1. StrictReleaseRule(decided, evidence) = "pass" <=> all /\ "release archive" \in evidence
  BY DEF StrictReleaseRule, ReleaseRule, PassIf
<1>2. /\ c["test_gate"] = StrictTestRule(facts, evidence)
      /\ c["code_review_gate"] = StrictReviewRule(facts, evidence)
      /\ c["provider_authenticity_gate"] = ProviderRule(facts)
      /\ c["evidence_authenticity_gate"] = PassIf("hash mismatch" \notin evidence)
      /\ c["coverage_gate"] = PassIf("coverage passed" \in evidence)
      /\ c["boundary_gate"] = PassIf("path out of bounds" \notin evidence)
  BY DEF ContextDecisions, Undecided, Gate, Prerequisite, StrictOnly
<1>3. /\ ExpectedStrict("test_gate") <=> c["test_gate"] = "pass"
      /\ ExpectedStrict("code_review_gate") <=> c["code_review_gate"] = "pass"
      /\ ExpectedStrict("provider_authenticity_gate") <=> c["provider_authenticity_gate"] = "pass"
      /\ ExpectedStrict("evidence_authenticity_gate") <=> c["evidence_authenticity_gate"] = "pass"
      /\ ExpectedStrict("coverage_gate") <=> c["coverage_gate"] = "pass"
      /\ ExpectedStrict("boundary_gate") <=> c["boundary_gate"] = "pass"
      /\ ExpectedStrict("chain_completeness_gate") <=> ChainRule(evidence) = "pass"
      /\ ExpectedStrict("reality_checker_gate") <=>
            c["test_gate"] = "pass" /\ "pass" \in Counted("reality-checker")
  BY <1>2 DEF ExpectedStrict
<1> HIDE DEF c
<1>4. all <=> /\ ExpectedStrict("test_gate") /\ ExpectedStrict("code_review_gate")
              /\ ExpectedStrict("provider_authenticity_gate")
              /\ ExpectedStrict("evidence_authenticity_gate") /\ ExpectedStrict("coverage_gate")
              /\ ExpectedStrict("boundary_gate") /\ ExpectedStrict("chain_completeness_gate")
              /\ ExpectedStrict("reality_checker_gate")
  BY DEF Prerequisite, StrictOnly
<1> HIDE DEF all
<1>5. all <=> /\ "pass" \in StatusesOf(FactsFor(facts, "test-engineer"))
              /\ "pass" \in StatusesOf(FactsFor(facts, "code-reviewer"))
              /\ \A f \in facts : f.source = "real"
              /\ "pass" \in Counted("reality-checker")
              /\ {"test artifact", "ui_smoke passed", "review artifact", "coverage passed",
                  "hash chain sealed", "chain graph sealed"} \subseteq evidence
              /\ "hash mismatch" \notin evidence /\ "path out of bounds" \notin evidence
  BY <1>2, <1>3, <1>4 DEF StrictTestRule, StrictReviewRule, ProviderRule, ChainRule, PassIf
<1>6. ASSUME NEW agent, \A f \in facts : f.source = "real"
      PROVE  "pass" \in StatusesOf(FactsFor(facts, agent)) <=>
                \E f \in facts : f.agent = agent /\ f.status = "pass"
  BY <1>6 DEF StatusesOf, FactsFor
<1>7. /\ {"test artifact", "ui_smoke passed", "review artifact", "coverage passed",
          "hash chain sealed", "chain graph sealed"} \subseteq evidence
      /\ "release archive" \in evidence
      /\ "hash mismatch" \notin evidence /\ "path out of bounds" \notin evidence
      <=> evidence = Evidence \ {"hash mismatch", "path out of bounds"}
  BY DEF Evidence
<1> QED BY <1>1, <1>5, <1>6, <1>7 DEF StrictReleaseOpen

\* The release gate is decided from the gates decided before it.
LEMMA DecideReleaseExact ==
    ASSUME GateInv, AllExact, NEW p \in Proc, DecideRelease(p) PROVE AllExact'
<1> DEFINE e == eval[p]
           v == IF e.mode = "legacy" THEN ReleaseRule(e.decided, Prerequisite)
                ELSE StrictReleaseRule(e.decided, e.evidence)
           d == [e EXCEPT !.at = "upsert", !.decided["release_gate"] = v]
<1>1. e \in Eval /\ ExactInv(e) /\ e.at = "release" /\ e.mode \in {"legacy", "strict"}
  BY DEF GateInv, TypeOK, AllExact, DecideRelease, Eval
<1>2. Read(p, d)  BY DEF DecideRelease
<1> HIDE DEF v
<1>3. /\ d.at = "upsert" /\ d.mode = e.mode /\ d.disturbed = e.disturbed
      /\ d.decided = [e.decided EXCEPT !["release_gate"] = v]
  BY <1>1 DEF Eval
<1> HIDE DEF d
<1>4. \A g \in Gate : d.decided[g] = IF g = "release_gate" THEN v ELSE e.decided[g]
  BY <1>1, <1>3 DEF Eval
<1>5. Decided(d) = Gate /\ Decided(e) = Gate \ {"release_gate"}
  BY <1>1, <1>3 DEF Decided
<1>6. ExactInv(d)
  <2> SUFFICES ASSUME ~e.disturbed PROVE ExactInv(d)
    BY <1>3 DEF ExactInv
  <2>1. CASE e.mode = "legacy"
    <3>1. \A g \in Prerequisite : e.decided[g] = "pass" <=> Expected(g)
      BY <1>1, <1>5, <2>1 DEF ExactInv, Gate, StrictOnly, Prerequisite
    <3>2. /\ Expected("test_gate") <=> TestOpen
          /\ Expected("code_review_gate") <=> ReviewOpen
          /\ Expected("reality_checker_gate") <=> RealityOpen
          /\ Expected("release_gate") <=> ReleaseOpen
      BY DEF Expected
    <3>3. v = "pass" <=> \A g \in Prerequisite : e.decided[g] = "pass"
      BY <2>1 DEF v, ReleaseRule
    <3>4. v = "pass" <=> ReleaseOpen
      BY <3>1, <3>2, <3>3 DEF Prerequisite, ReleaseOpen
    <3>5. \A g \in Decided(d) \ StrictOnly : d.decided[g] = "pass" <=> Expected(g)
      BY <1>4, <1>5, <3>1, <3>2, <3>4 DEF Gate
    <3> QED BY <1>3, <2>1, <3>5 DEF ExactInv
  <2>2. CASE e.mode = "strict"
    <3>1. \A g \in Gate \ {"release_gate"} : e.decided[g] = "pass" <=> ExpectedStrict(g)
      BY <1>1, <1>5, <2>2 DEF ExactInv
    <3>2. e.evidence = evidence /\ facts \subseteq Fact /\ evidence \subseteq Evidence
      BY <1>1, <2>2 DEF ExactInv, GateInv, TypeOK
    <3>3. Prerequisite \cup StrictOnly \subseteq Gate \ {"release_gate"}
      BY DEF Gate, Prerequisite, StrictOnly
    <3>4. StrictReleaseRule(e.decided, evidence) = "pass" <=> StrictReleaseOpen
      BY <3>1, <3>2, <3>3, StrictReleaseIsExact
    <3>5. ExpectedStrict("release_gate") <=> v = "pass"
      BY <2>2, <3>2, <3>4 DEF ExpectedStrict, v
    <3>6. \A g \in Decided(d) : d.decided[g] = "pass" <=> ExpectedStrict(g)
      BY <1>4, <1>5, <3>1, <3>5
    <3> QED BY <1>3, <2>2, <3>6 DEF ExactInv
  <2> QED BY <1>1, <2>1, <2>2
<1> QED BY <1>2, <1>6, ExactStep DEF Read

\* Writing and announcing decide nothing, and dying ends the evaluation.
LEMMA WriteExact ==
    ASSUME GateInv, AllExact, NEW p \in Proc, UpsertGate(p) \/ AppendEvents(p) \/ Die(p)
    PROVE  AllExact'
<1> DEFINE e == eval[p]
           said == [e EXCEPT !.at = "announce"]
           more == [e EXCEPT !.at = "upsert", !.next = e.next + 1]
<1>1. e \in Eval /\ ExactInv(e)  BY DEF GateInv, TypeOK, AllExact
<1>2. /\ said.at = "announce" /\ said.mode = e.mode /\ said.disturbed = e.disturbed
      /\ said.decided = e.decided
      /\ more.at = "upsert" /\ more.mode = e.mode /\ more.disturbed = e.disturbed
      /\ more.decided = e.decided
  BY <1>1 DEF Eval
<1>3. \/ Step(p, Idle)
      \/ e.at \in {"upsert", "announce"} /\ (Step(p, said) \/ Step(p, more))
  BY DEF UpsertGate, AppendEvents, Die
<1>4. Idle.disturbed  BY DEF Idle
<1> HIDE DEF said, more
<1>5. /\ Decided(said) = Gate /\ Decided(more) = Gate
      /\ e.at \in {"upsert", "announce"} => Decided(e) = Gate
  BY <1>2 DEF Decided
<1>6. e.at \in {"upsert", "announce"} => ExactInv(said) /\ ExactInv(more)
  BY <1>1, <1>2, <1>5 DEF ExactInv
<1> QED BY <1>3, <1>4, <1>6, DisturbedExact, ExactStep

\* Every step keeps every undisturbed evaluation exact.
LEMMA AllExactNext == GateInv /\ AllExact /\ [Next]_vars => AllExact'
<1> SUFFICES ASSUME GateInv, AllExact, [Next]_vars PROVE AllExact'  OBVIOUS
<1>1. ASSUME Change PROVE AllExact'
  <2>1. \A q \in Proc : eval[q] \in Eval  BY DEF GateInv, TypeOK
  <2>2. \A q \in Proc : eval'[q].disturbed  BY <1>1, <2>1, DisturbedIs DEF Change, Eval
  <2> QED BY <2>2 DEF AllExact, ExactInv
<1>2. ASSUME NEW p \in Proc, NEW mode \in Mode, Begin(p, mode) PROVE AllExact'
  BY <1>2, BeginExact
<1>3. ASSUME NEW p \in Proc,
             \/ ReadFacts(p) \/ ReadNodes(p) \/ ReadEvents(p) \/ ReadResults(p)
             \/ ReadChain(p) \/ DecideRelease(p)
      PROVE  AllExact'
  BY <1>3, ReadFactsExact, ReadNodesExact, ContextExact, ReadChainExact, DecideReleaseExact
<1>4. ASSUME NEW p \in Proc, UpsertGate(p) \/ AppendEvents(p) \/ Die(p) PROVE AllExact'
  BY <1>4, WriteExact
<1>5. CASE UNCHANGED vars
  <2>1. \A q \in Proc : ExactInv(eval[q]) /\ eval'[q] = eval[q]  BY <1>5 DEF vars, AllExact
  <2>2. UNCHANGED <<facts, evidence, status>>  BY <1>5 DEF vars
  <2>3. \A e : ExactInv(e) => ExactInv(e)'  BY <2>2, ExactStays
  <2> QED BY <2>1, <2>3 DEF AllExact, ExactInv
<1> QED BY <1>1, <1>2, <1>3, <1>4, <1>5 DEF Next, SubmitResult, MoveNode, RecordEvent

\* While nothing changes, every decision of every evaluation is exact.
LEMMA AlwaysExact == Spec => []AllExact
<1>1. Init => AllExact
  <2>1. Idle.disturbed  BY DEF Idle
  <2> QED BY <2>1, DisturbedExact DEF Init, AllExact
<1> QED BY <1>1, AllExactNext, GateInvariant, PTL DEF Spec

\* A legacy evaluation during which nothing changed opens exactly the gates
\* that the results and the active nodes deserve, in however many SELECTs.
THEOREM UndisturbedAlwaysExact == Spec => []UndisturbedIsExact
<1>1. AllExact => UndisturbedIsExact
  BY DEF AllExact, ExactInv, Decided, UndisturbedIsExact, Gate, Prerequisite, StrictOnly
<1> QED BY <1>1, AlwaysExact, PTL

\* A strict evaluation during which nothing changed releases exactly the runs
\* that have everything and nothing against them.
THEOREM UndisturbedStrictAlwaysExact == Spec => []UndisturbedStrictIsExact
<1>1. AllExact => UndisturbedStrictIsExact
  BY DEF AllExact, ExactInv, Decided, UndisturbedStrictIsExact, ExpectedStrict, Gate
<1> QED BY <1>1, AlwaysExact, PTL

-----------------------------------------------------------------------------
(***************************************************************************)
(* What one evaluator has written.                                         *)
(***************************************************************************)
\* Deciding goes nowhere near the writes.
LEMMA ReadingWrites ==
    ASSUME NEW e \in Eval, NEW found, Written(e, gates, announced), e.at \in {"facts", "nodes"}
    PROVE  /\ Decide(e, found).next = 1 /\ Decide(e, found).at \in {"facts", "release"}
           /\ Decide(e, found).mode = e.mode
<1> DEFINE c == [e EXCEPT !.decided[e.gate] = Rule(e.gate, found)]
<1>1. e.gate \in Prerequisite /\ e.gate \in Gate  BY DEF Eval, Gate
<1>2. [e.decided EXCEPT ![e.gate] = Rule(e.gate, found)] \in [Gate -> Verdict \cup {Unknown}]
  BY <1>1, RulesDecide DEF Eval
<1>3. c \in Eval /\ c.next = e.next /\ c.mode = e.mode  BY <1>2 DEF Eval
<1>4. Decide(e, found) = After(c)  BY DEF Decide
<1> HIDE DEF c
<1> QED BY <1>3, <1>4, AfterIs, AfterCases DEF Written

\* An evaluation that has written nothing has nothing to account for.
LEMMA NothingWritten ==
    ASSUME NEW e, e.next = 1, e.mode \in {"legacy", "strict"}, e.at # "announce"
    PROVE  Written(e, gates, announced)
<1>1. Len(WriteOrder(e.mode)) \in {4, 9}
  BY DEF WriteOrder
<1>2. \A k \in {4, 9} : 1 \in 1 .. k
  OBVIOUS
<1>3. \A i \in 1 .. 1 - 1 : FALSE
  OBVIOUS
<1> QED BY <1>1, <1>2, <1>3 DEF Written

\* What is written are gates.
LEMMA OrderIsOfGates ==
    ASSUME NEW mode \in {"legacy", "strict"}
    PROVE  /\ Len(WriteOrder(mode)) = IF mode = "legacy" THEN 4 ELSE 9
           /\ \A i \in 1 .. Len(WriteOrder(mode)) : WriteOrder(mode)[i] \in Gate
BY DEF WriteOrder, Gate, Prerequisite, StrictOnly

\* An evaluation that only reads keeps its account.
LEMMA ReadWrites ==
    ASSUME GateInv, AllWritten, NEW p \in Proc,
           \/ (\E mode \in Mode : Begin(p, mode)) \/ ReadFacts(p) \/ ReadNodes(p) \/ ReadEvents(p)
           \/ ReadResults(p) \/ ReadChain(p) \/ DecideRelease(p) \/ Die(p)
    PROVE  \E e : /\ Step(p, e) /\ Written(e, gates, announced)
                  /\ UNCHANGED <<gates, announced>>
<1> DEFINE e == eval[p]
<1>1. e \in Eval /\ Written(e, gates, announced) /\ e.mode \in {"legacy", "strict"}
  BY DEF GateInv, TypeOK, AllWritten, Eval
<1>2. ASSUME NEW mode \in Mode, Begin(p, mode)
      PROVE  \E d : Step(p, d) /\ UNCHANGED <<gates, announced>> /\ Written(d, gates, announced)
  <2> DEFINE d == [Idle EXCEPT !.at = IF mode = "legacy" THEN "facts" ELSE "events",
                               !.mode = mode, !.began = facts, !.disturbed = FALSE]
  <2>1. d.next = 1 /\ d.mode = mode /\ d.at # "announce"  BY DEF Idle
  <2>2. Step(p, d) /\ UNCHANGED <<gates, announced>>  BY <1>2 DEF Begin, Read
  <2>3. mode \in {"legacy", "strict"}  BY GateAssumption
  <2> HIDE DEF d
  <2> QED BY <2>1, <2>2, <2>3, NothingWritten
<1>3. CASE ReadFacts(p) \/ ReadNodes(p)
  <2> DEFINE wait == [e EXCEPT !.at = "nodes"]
  <2>1. e.at \in {"facts", "nodes"} /\ UNCHANGED <<gates, announced>>
    BY <1>3 DEF ReadFacts, ReadNodes, Read
  <2>2. (\E found : Step(p, Decide(e, found))) \/ Step(p, wait)
    BY <1>3 DEF ReadFacts, ReadNodes, Read
  <2>3. wait.next = e.next /\ wait.mode = e.mode /\ wait.at = "nodes"  BY <1>1 DEF Eval
  <2> HIDE DEF wait
  <2>4. Written(wait, gates, announced)  BY <1>1, <2>1, <2>3, NothingWritten DEF Written
  <2>5. ASSUME NEW found PROVE Written(Decide(e, found), gates, announced)
    BY <1>1, <2>1, ReadingWrites, NothingWritten
  <2> QED BY <2>1, <2>2, <2>4, <2>5
<1>4. CASE ReadEvents(p)
  <2> DEFINE d == [e EXCEPT !.at = "results", !.evidence = evidence]
  <2>1. d.next = e.next /\ d.mode = e.mode /\ d.at = "results"  BY <1>1 DEF Eval
  <2>2. Step(p, d) /\ UNCHANGED <<gates, announced>> /\ e.at = "events"
    BY <1>4 DEF ReadEvents, Read
  <2> HIDE DEF d
  <2> QED BY <1>1, <2>1, <2>2, NothingWritten DEF Written
<1>5. CASE ReadResults(p)
  <2> DEFINE d == [e EXCEPT !.at = "chain", !.decided = ContextDecisions(facts, e.evidence)]
  <2>1. d.next = e.next /\ d.mode = e.mode /\ d.at = "chain"  BY <1>1 DEF Eval
  <2>2. Step(p, d) /\ UNCHANGED <<gates, announced>> /\ e.at = "results"
    BY <1>5 DEF ReadResults, Read
  <2> HIDE DEF d
  <2> QED BY <1>1, <2>1, <2>2, NothingWritten DEF Written
<1>6. CASE ReadChain(p)
  <2> DEFINE c == [e EXCEPT !.decided["chain_completeness_gate"] = ChainRule(evidence),
                            !.gate = "code_review_gate"]
             d == After(c)
  <2>1. "chain_completeness_gate" \in Gate  BY DEF Gate, StrictOnly
  <2>2. [e.decided EXCEPT !["chain_completeness_gate"] = ChainRule(evidence)]
          \in [Gate -> Verdict \cup {Unknown}]
    BY <1>1, <2>1, RulesDecide DEF Eval
  <2>3. c \in Eval /\ c.next = e.next /\ c.mode = e.mode
    BY <1>1, <2>2 DEF Eval, Prerequisite
  <2> HIDE DEF c
  <2>4. d.next = e.next /\ d.mode = e.mode /\ d.at \in {"facts", "release"}
    BY <2>3, AfterIs, AfterCases
  <2>5. Step(p, d) /\ UNCHANGED <<gates, announced>> /\ e.at = "chain"
    BY <1>6 DEF ReadChain, Read, c
  <2> HIDE DEF d
  <2> QED BY <1>1, <2>4, <2>5, NothingWritten DEF Written
<1>7. CASE DecideRelease(p)
  <2> DEFINE v == IF e.mode = "legacy" THEN ReleaseRule(e.decided, Prerequisite)
                  ELSE StrictReleaseRule(e.decided, e.evidence)
             d == [e EXCEPT !.at = "upsert", !.decided["release_gate"] = v]
  <2> HIDE DEF v
  <2>1. d.next = e.next /\ d.mode = e.mode /\ d.at = "upsert"  BY <1>1 DEF Eval
  <2>2. Step(p, d) /\ UNCHANGED <<gates, announced>> /\ e.at = "release"
    BY <1>7 DEF DecideRelease, Read, v
  <2> HIDE DEF d
  <2> QED BY <1>1, <2>1, <2>2, NothingWritten DEF Written
<1>8. CASE Die(p)
  <2>1. Step(p, Idle) /\ UNCHANGED <<gates, announced>>  BY <1>8 DEF Die
  <2>2. Idle.next = 1 /\ Idle.mode = "legacy" /\ Idle.at = "idle"  BY DEF Idle
  <2> QED BY <2>1, <2>2, NothingWritten
<1> QED BY <1>2, <1>3, <1>4, <1>5, <1>6, <1>7, <1>8

\* Where the only evaluator stands after a step.
LEMMA SoleStep ==
    ASSUME GateInv, \A p, q \in Proc : p = q, NEW p \in Proc,
           NEW e, Step(p, e), Written(e, gates', announced')
    PROVE  AllWritten'
<1>1. eval'[p] = e /\ \A q \in Proc : q = p
  BY DEF Step, GateInv, TypeOK
<1> QED BY <1>1 DEF AllWritten, Written, Writing

\* A sole evaluator writes each gate, announces it, and goes on to the next.
LEMMA AllWrittenNext ==
    ASSUME \A p, q \in Proc : p = q, GateInv, AllWritten, [Next]_vars
    PROVE  AllWritten'
<1>1. \A q \in Proc : eval[q] \in Eval /\ Written(eval[q], gates, announced)  BY DEF GateInv, TypeOK, AllWritten
<1>2. ASSUME Change PROVE AllWritten'
  <2>1. ASSUME NEW q \in Proc PROVE Written(eval'[q], gates', announced')
    <3>1. eval'[q] = [eval[q] EXCEPT !.disturbed = TRUE]  BY <1>2 DEF Change
    <3>2. /\ eval'[q].at = eval[q].at /\ eval'[q].mode = eval[q].mode
          /\ eval'[q].decided = eval[q].decided /\ eval'[q].next = eval[q].next
      BY <1>1, <3>1 DEF Eval
    <3>3. UNCHANGED <<gates, announced>>  BY <1>2 DEF Change
    <3> QED BY <1>1, <3>2, <3>3 DEF Written, Writing
  <2> QED BY <2>1 DEF AllWritten
<1>3. ASSUME NEW p \in Proc,
             \/ (\E mode \in Mode : Begin(p, mode)) \/ ReadFacts(p) \/ ReadNodes(p) \/ ReadEvents(p)
             \/ ReadResults(p) \/ ReadChain(p) \/ DecideRelease(p) \/ Die(p)
      PROVE  AllWritten'
  <2>1. PICK e : Step(p, e) /\ UNCHANGED <<gates, announced>> /\ Written(e, gates, announced)
    BY <1>3, ReadWrites
  <2>2. Written(e, gates', announced')  BY <2>1 DEF Written, Writing
  <2> QED BY <2>1, <2>2, SoleStep
<1>4. ASSUME NEW p \in Proc, UpsertGate(p) PROVE AllWritten'
  <2> DEFINE e == eval[p]
             g == Writing(e)
             said == [e EXCEPT !.at = "announce"]
  <2>1. /\ said.at = "announce" /\ said.mode = e.mode /\ said.next = e.next
        /\ said.decided = e.decided
    BY <1>1 DEF Eval
  <2>2. /\ Step(p, said) /\ announced' = announced
        /\ gates' = [gates EXCEPT ![g] = e.decided[g]]
    BY <1>4 DEF UpsertGate
  <2>3. g \in Gate /\ gates \in [Gate -> Verdict \cup {Unknown}]
    BY <1>1, OrderIsOfGates DEF Writing, Written, Eval, GateInv, TypeOK
  <2>4. Written(e, gates, announced)  BY <1>1
  <2>5. Writing(said) = g  BY <2>1 DEF Writing
  <2> HIDE DEF said, g
  <2>6. Written(said, gates', announced')
    <3>1. gates'[g] = e.decided[g]  BY <2>2, <2>3
    <3>2. \A x : gates[x] = e.decided[x] => gates'[x] = e.decided[x]
      BY <2>2, <2>3
    <3>3. \A i \in 1 .. said.next - 1 : LET x == WriteOrder(said.mode)[i] IN
             gates'[x] = said.decided[x] /\ announced'[x] = said.decided[x]
      BY <2>1, <2>2, <2>4, <3>2 DEF Written
    <3> QED BY <2>1, <2>4, <2>5, <3>1, <3>3 DEF Written, Writing
  <2> QED BY <2>2, <2>6, SoleStep
<1>5. ASSUME NEW p \in Proc, AppendEvents(p) PROVE AllWritten'
  <2> DEFINE e == eval[p]
             g == Writing(e)
             k == e.next + 1
             more == [e EXCEPT !.at = "upsert", !.next = k]
  <2>1. /\ Written(e, gates, announced) /\ e.at = "announce"
        /\ e.next \in Nat /\ e.mode \in {"legacy", "strict"}
    BY <1>1, <1>5 DEF AppendEvents, Eval
  <2>2. /\ gates' = gates /\ announced' = [announced EXCEPT ![g] = e.decided[g]]
        /\ \/ e.next = Len(WriteOrder(e.mode)) /\ Step(p, Idle)
           \/ e.next # Len(WriteOrder(e.mode)) /\ Step(p, more)
    BY <1>5 DEF AppendEvents
  <2>3. g \in Gate /\ announced \in [Gate -> Verdict \cup {Unknown}]
    BY <2>1, OrderIsOfGates DEF Writing, Written, GateInv, TypeOK
  <2>4. gates[g] = e.decided[g] /\ announced'[g] = e.decided[g]
    BY <2>1, <2>2, <2>3 DEF Written
  <2>5. CASE Step(p, Idle)
    <3>1. Idle.next = 1 /\ Idle.mode = "legacy" /\ Idle.at = "idle"  BY DEF Idle
    <3>2. Written(Idle, gates', announced')
      <4>1. Len(WriteOrder("legacy")) = 4  BY OrderIsOfGates
      <4>2. 1 \in 1 .. 4 /\ 1 .. 1 - 1 = {}  OBVIOUS
      <4> QED BY <3>1, <4>1, <4>2 DEF Written
    <3> QED BY <2>5, <3>2, SoleStep
  <2>6. CASE e.next # Len(WriteOrder(e.mode)) /\ Step(p, more)
    <3> HIDE DEF k
    <3>1. more.at = "upsert" /\ more.mode = e.mode /\ more.next = k /\ more.decided = e.decided
      BY <1>1 DEF Eval
    <3> HIDE DEF more
    <3>2. k \in 1 .. Len(WriteOrder(e.mode))
      BY <2>1, <2>6, OrderIsOfGates DEF k, Written
    <3>3. ASSUME NEW i \in 1 .. k - 1
          PROVE  /\ gates'[WriteOrder(e.mode)[i]] = e.decided[WriteOrder(e.mode)[i]]
                 /\ announced'[WriteOrder(e.mode)[i]] = e.decided[WriteOrder(e.mode)[i]]
      <4>1. i \in 1 .. e.next - 1 \/ i = e.next  BY <2>1 DEF k
      <4>2. CASE i = e.next  BY <2>2, <2>4, <4>2 DEF Writing
      <4>3. CASE i \in 1 .. e.next - 1
        <5> DEFINE x == WriteOrder(e.mode)[i]
        <5>1. gates[x] = e.decided[x] /\ announced[x] = e.decided[x]
          BY <2>1, <4>3 DEF Written
        <5> HIDE DEF x, g
        <5>2. announced'[x] = e.decided[x]  BY <2>2, <2>3, <5>1
        <5> QED BY <2>2, <5>1, <5>2 DEF x
      <4> QED BY <4>1, <4>2, <4>3
    <3>4. Written(more, gates', announced')
      BY <3>1, <3>2, <3>3 DEF Written
    <3> QED BY <2>6, <3>4, SoleStep
  <2> QED BY <2>2, <2>5, <2>6
<1>6. CASE UNCHANGED vars
  BY <1>6 DEF vars, AllWritten, Written, Writing
<1> QED BY <1>2, <1>3, <1>4, <1>5, <1>6 DEF Next, SubmitResult, MoveNode, RecordEvent

\* When a legacy evaluation of the only evaluator ends and nothing changed
\* since it began, the rows of gate_states and the last events are what the
\* run deserves, whatever evaluations that died half-way had left there.
THEOREM LastWriteAlwaysCurrent ==
    ASSUME \A p, q \in Proc : p = q
    PROVE  Spec => LastWriteIsCurrent
<1> DEFINE Ends(p) == /\ AppendEvents(p) /\ eval'[p] = Idle
                      /\ eval[p].mode = "legacy" /\ ~eval[p].disturbed
           Current == \A g \in Prerequisite \cup {"release_gate"} :
                          /\ gates'[g] = "pass" <=> Expected(g)
                          /\ announced'[g] = gates'[g]
<1>1. Init => AllWritten
  <2>1. Idle.next = 1 /\ Idle.mode = "legacy" /\ Idle.at = "idle"  BY DEF Idle
  <2> QED BY <2>1, NothingWritten DEF Init, AllWritten
<1>2. GateInv /\ AllWritten /\ [Next]_vars => AllWritten'
  BY AllWrittenNext
<1>3. ASSUME GateInv, AllExact, AllWritten, [Next]_vars, NEW p \in Proc, Ends(p) PROVE Current
  <2> DEFINE e == eval[p]
             d == e.decided
  <2>1. /\ e \in Eval /\ ExactInv(e) /\ Written(e, gates, announced)
        /\ announced \in [Gate -> Verdict \cup {Unknown}]
    BY <1>3 DEF GateInv, TypeOK, AllExact, AllWritten
  <2>2. AppendEvents(p)
    BY <1>3
  <2>3. /\ e.mode = "legacy" /\ e.at = "announce" /\ ~e.disturbed
        /\ gates' = gates /\ announced' = [announced EXCEPT ![Writing(e)] = d[Writing(e)]]
    BY <1>3, <2>2 DEF AppendEvents
  <2>4. e.next = 4
    <3> DEFINE more == [e EXCEPT !.at = "upsert", !.next = e.next + 1]
    <3>1. more.at = "upsert" /\ Idle.at = "idle"  BY <2>1 DEF Eval, Idle
    <3>2. more # Idle  BY <3>1
    <3> HIDE DEF more
    <3>3. e.next = Len(WriteOrder(e.mode)) \/ eval' = [eval EXCEPT ![p] = more]
      BY <2>2 DEF AppendEvents, Step, more
    <3>4. e.next = Len(WriteOrder(e.mode))
      BY <1>3, <3>2, <3>3 DEF GateInv, TypeOK
    <3> QED BY <2>3, <3>4, OrderIsOfGates
  <2>5. /\ WriteOrder("legacy")[1] = "test_gate" /\ WriteOrder("legacy")[2] = "code_review_gate"
        /\ WriteOrder("legacy")[3] = "reality_checker_gate"
        /\ WriteOrder("legacy")[4] = "release_gate"
    BY DEF WriteOrder
  <2>6. 1 \in 1 .. 4 - 1 /\ 2 \in 1 .. 4 - 1 /\ 3 \in 1 .. 4 - 1
    OBVIOUS
  <2>7. \A g \in Prerequisite : gates[g] = d[g] /\ announced[g] = d[g]
    BY <2>1, <2>3, <2>4, <2>5, <2>6 DEF Written, Prerequisite
  <2>8. Writing(e) = "release_gate" /\ gates["release_gate"] = d["release_gate"]
    BY <2>1, <2>3, <2>4, <2>5 DEF Written, Writing
  <2>9. \A g \in Prerequisite \cup {"release_gate"} : gates'[g] = d[g] /\ announced'[g] = d[g]
    BY <2>1, <2>3, <2>7, <2>8 DEF Gate
  <2>10. \A g \in Prerequisite \cup {"release_gate"} : d[g] = "pass" <=> Expected(g)
    BY <2>1, <2>3 DEF ExactInv, Decided, Gate, Prerequisite, StrictOnly
  <2> QED BY <2>9, <2>10
<1>4. GateInv /\ AllExact /\ AllWritten /\ [Next]_vars => [\A p \in Proc : Ends(p) => Current]_vars
  BY <1>3
<1> QED
  BY <1>1, <1>2, <1>4, GateInvariant, AlwaysExact, PTL DEF Spec, LastWriteIsCurrent
=============================================================================
