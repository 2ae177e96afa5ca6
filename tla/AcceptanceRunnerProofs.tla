----------------------- MODULE AcceptanceRunnerProofs -----------------------
(***************************************************************************)
(* Proofs about AcceptanceRunner: for any team, any order of its turns and *)
(* any retry limit, and whatever operators do to the nodes meanwhile.      *)
(***************************************************************************)
EXTENDS AcceptanceRunner, TLAPS

\* The agents' places.
LEMMA Places ==
    /\ Len(Order) \in Nat /\ Len(Order) >= 1
    /\ DOMAIN Order = 1 .. Len(Order)
    /\ \A i \in 1 .. Len(Order) : Order[i] \in Team
    /\ \A i, j \in 1 .. Len(Order) : Order[i] = Order[j] => i = j
BY RunnerAssumption DEF Team

\* An evaluation of the gates gives each of them a verdict.
LEMMA DecisionsAreVerdicts == Decisions \in [Gate -> Verdict]
<1>1. \A g, found : Rules!Rule(g, found) \in Verdict
  BY DEF Rules!Rule, Rules!TestRule, Rules!ReviewRule, Rules!RealityRule, Verdict
<1>2. \A d, others : Rules!ReleaseRule(d, others) \in Verdict
  BY DEF Rules!ReleaseRule, Verdict
<1>3. \A g : Decision(g) \in Verdict
  BY <1>1 DEF Decision
<1>4. RealityDecision \in Verdict
  BY <1>3 DEF RealityDecision, Verdict
<1> QED BY <1>2, <1>3, <1>4 DEF Decisions, Gate

LEMMA InitInv == Init => RunnerInv
<1> SUFFICES ASSUME Init PROVE RunnerInv
  OBVIOUS
<1>1. TypeOK
  BY Places DEF Init, TypeOK, Phase, Status, None
<1>2. PassesBehind
  BY DEF Init, PassesBehind, Heading, InSession, None
<1>3. SessionsCounted
  BY Places, RunnerAssumption DEF Init, SessionsCounted, Heading, Agent
<1>4. UntroubledSoFar
  BY Places DEF Init, UntroubledSoFar, Heading, None
<1> QED BY <1>1, <1>2, <1>3, <1>4 DEF RunnerInv

\* Every step keeps the types.
LEMMA TypeStep ==
    ASSUME TypeOK, PassesBehind, [Next]_vars
    PROVE  TypeOK'
<1> USE Places DEF TypeOK, Goto, Move, Phase, Agent
<1>1. CASE BeginTurn
  BY <1>1, DecisionsAreVerdicts DEF BeginTurn, DispatchOrBlock, Status
<1>2. CASE LookAtRelease
  BY <1>2 DEF LookAtRelease, DispatchOrBlock, Status
<1>3. CASE Block
  BY <1>3 DEF Block, Status
<1>4. CASE RecordBlocked
  BY <1>4 DEF RecordBlocked, Recorded
<1>5. CASE CheckMove
  BY <1>5 DEF CheckMove
<1>6. CASE UpdateMove
  BY <1>6 DEF UpdateMove
<1>7. CASE Claim
  BY <1>7 DEF Claim, Status, None
<1>8. ASSUME NEW o \in Outcome, Work(o) PROVE TypeOK'
  BY <1>8 DEF Work, Outcome, Verdict, Result
<1>9. CASE Settle
  <2>1. answer \in Outcome
    BY <1>9 DEF Settle, TypeOK, PassesBehind, Heading, None
  <2>2. SettledAs(answer) \in Status
    BY <2>1 DEF SettledAs, Outcome, Verdict, Status
  <2> QED BY <1>9, <2>2, Places DEF Settle, Status
<1>10. CASE Notice
  BY <1>10 DEF Notice
<1>11. CASE Retry
  BY <1>11 DEF Retry, Status
<1>12. CASE Record
  BY <1>12 DEF Record, OutcomeFor, Recorded
<1>13. CASE Evaluate
  BY <1>13, DecisionsAreVerdicts DEF Evaluate
<1>14. CASE LastEvaluate
  BY <1>14, DecisionsAreVerdicts DEF LastEvaluate
<1>15. ASSUME NEW others \in BOOLEAN, Report(others) PROVE TypeOK'
  BY <1>15 DEF Report
<1>16. CASE Raise
  BY <1>16 DEF Raise
<1>17. ASSUME NEW a \in Team, NEW to \in Target, MoveNode(a, to) PROVE TypeOK'
  BY <1>17, RunnerAssumption DEF MoveNode, local
<1>18. CASE OthersEvaluate
  BY <1>18, DecisionsAreVerdicts DEF OthersEvaluate, local
<1>19. CASE UNCHANGED vars
  BY <1>19 DEF vars
<1> QED BY <1>1, <1>2, <1>3, <1>4, <1>5, <1>6, <1>7, <1>8, <1>9,
           <1>10, <1>11, <1>12, <1>13, <1>14, <1>15, <1>16, <1>17, <1>18, <1>19
           DEF Next, RunnerStep

\* Every step keeps the passes behind it.
LEMMA PassesStep ==
    ASSUME TypeOK, PassesBehind, [Next]_vars
    PROVE  PassesBehind'
<1> USE Places DEF TypeOK, PassesBehind, Goto, Move, Heading, InSession, Agent, HasPass
<1>1. CASE BeginTurn
  BY <1>1 DEF BeginTurn, DispatchOrBlock
<1>2. CASE LookAtRelease
  BY <1>2 DEF LookAtRelease, DispatchOrBlock
<1>3. CASE Block
  BY <1>3 DEF Block
<1>4. CASE RecordBlocked
  BY <1>4 DEF RecordBlocked
<1>5. CASE CheckMove
  BY <1>5 DEF CheckMove
<1>6. CASE UpdateMove
  BY <1>6 DEF UpdateMove
<1>7. CASE Claim
  BY <1>7 DEF Claim, None
<1>8. ASSUME NEW o \in Outcome, Work(o) PROVE PassesBehind'
  BY <1>8 DEF Work, Outcome, Verdict, None
<1>9. CASE Settle
  BY <1>9 DEF Settle
<1>10. CASE Notice
  BY <1>10 DEF Notice
<1>11. CASE Retry
  BY <1>11 DEF Retry
<1>12. CASE Record
  BY <1>12 DEF Record, OutcomeFor
<1>13. CASE Evaluate
  BY <1>13 DEF Evaluate
<1>14. CASE LastEvaluate
  BY <1>14 DEF LastEvaluate
<1>15. ASSUME NEW others \in BOOLEAN, Report(others) PROVE PassesBehind'
  BY <1>15 DEF Report
<1>16. CASE Raise
  BY <1>16 DEF Raise
<1>17. ASSUME NEW a \in Team, NEW to \in Target, MoveNode(a, to) PROVE PassesBehind'
  BY <1>17 DEF MoveNode, local
<1>18. CASE OthersEvaluate
  BY <1>18 DEF OthersEvaluate, local
<1>19. CASE UNCHANGED vars
  BY <1>19 DEF vars
<1> QED BY <1>1, <1>2, <1>3, <1>4, <1>5, <1>6, <1>7, <1>8, <1>9,
           <1>10, <1>11, <1>12, <1>13, <1>14, <1>15, <1>16, <1>17, <1>18, <1>19
           DEF Next, RunnerStep

\* Every step keeps the count of the sessions.
LEMMA SessionsStep ==
    ASSUME TypeOK, PassesBehind, SessionsCounted, [Next]_vars
    PROVE  SessionsCounted'
<1> USE Places, RunnerAssumption DEF TypeOK, SessionsCounted, Goto, Move, Heading, Agent
<1>1. CASE BeginTurn
  BY <1>1 DEF BeginTurn, DispatchOrBlock
<1>2. CASE LookAtRelease
  BY <1>2 DEF LookAtRelease, DispatchOrBlock
<1>3. CASE Block
  BY <1>3 DEF Block
<1>4. CASE RecordBlocked
  BY <1>4 DEF RecordBlocked
<1>5. CASE CheckMove
  BY <1>5 DEF CheckMove
<1>6. CASE UpdateMove
  BY <1>6 DEF UpdateMove, PassesBehind
<1>7. CASE Claim
  BY <1>7 DEF Claim
<1>8. ASSUME NEW o \in Outcome, Work(o) PROVE SessionsCounted'
  BY <1>8 DEF Work
<1>9. CASE Settle
  BY <1>9 DEF Settle
<1>10. CASE Notice
  BY <1>10 DEF Notice
<1>11. CASE Retry
  BY <1>11 DEF Retry, MayRetry
<1>12. CASE Record
  BY <1>12 DEF Record
<1>13. CASE Evaluate
  BY <1>13 DEF Evaluate, PassesBehind
<1>14. CASE LastEvaluate
  BY <1>14 DEF LastEvaluate
<1>15. ASSUME NEW others \in BOOLEAN, Report(others) PROVE SessionsCounted'
  BY <1>15 DEF Report
<1>16. CASE Raise
  BY <1>16 DEF Raise
<1>17. ASSUME NEW a \in Team, NEW to \in Target, MoveNode(a, to) PROVE SessionsCounted'
  BY <1>17 DEF MoveNode, local
<1>18. CASE OthersEvaluate
  BY <1>18 DEF OthersEvaluate, local
<1>19. CASE UNCHANGED vars
  BY <1>19 DEF vars
<1> QED BY <1>1, <1>2, <1>3, <1>4, <1>5, <1>6, <1>7, <1>8, <1>9,
           <1>10, <1>11, <1>12, <1>13, <1>14, <1>15, <1>16, <1>17, <1>18, <1>19
           DEF Next, RunnerStep

\* Every step keeps what an untroubled scenario has behind it.
LEMMA UntroubledStep ==
    ASSUME TypeOK, PassesBehind, SessionsCounted, UntroubledSoFar, [Next]_vars
    PROVE  UntroubledSoFar'
<1> USE Places DEF TypeOK, UntroubledSoFar, Goto, Move, Heading, Agent, HasPass, HasResult
<1>1. CASE BeginTurn
  BY <1>1 DEF BeginTurn, DispatchOrBlock
<1>2. CASE LookAtRelease
  BY <1>2 DEF LookAtRelease, DispatchOrBlock
<1>3. CASE Block
  BY <1>3 DEF Block
<1>4. CASE RecordBlocked
  <2>1. Agent \in troubled' /\ turn <= Len(Order)
    BY <1>4 DEF RecordBlocked, TypeOK
  <2>2. conclusion = None /\ retries = 0
    BY <1>4 DEF RecordBlocked, SessionsCounted, UntroubledSoFar, Heading
  <2> QED BY <1>4, <2>1, <2>2, Places
             DEF RecordBlocked, TypeOK, UntroubledSoFar, Goto, Heading, None
<1>5. CASE CheckMove
  BY <1>5 DEF CheckMove
<1>6. CASE UpdateMove
  BY <1>6 DEF UpdateMove, PassesBehind
<1>7. CASE Claim
  BY <1>7 DEF Claim
<1>8. ASSUME NEW o \in Outcome, Work(o) PROVE UntroubledSoFar'
  BY <1>8 DEF Work
<1>9. CASE Settle
  BY <1>9 DEF Settle
<1>10. CASE Notice
  <2>1. troubled' = {} => troubled = {} /\ answer \in Verdict
    BY <1>10 DEF Notice
  <2>2. conclusion = None
    BY <1>10 DEF Notice, UntroubledSoFar
  <2> QED BY <1>10, <2>1, <2>2, Places DEF Notice, TypeOK, UntroubledSoFar, Goto, Heading, Agent,
             HasPass, HasResult, None
<1>11. CASE Retry
  <2>1. MayRetry => troubled # {}
    BY <1>11 DEF Retry, MayRetry, UntroubledSoFar, Heading, Verdict
  <2> QED BY <1>11, <2>1 DEF Retry, TypeOK, UntroubledSoFar, Goto, Move,
             Heading, Agent, HasPass, HasResult
<1>12. CASE Record
  BY <1>12 DEF Record, PassesBehind, InSession, SessionsCounted
<1>13. CASE Evaluate
  BY <1>13 DEF Evaluate
<1>14. CASE LastEvaluate
  BY <1>14 DEF LastEvaluate
<1>15. ASSUME NEW others \in BOOLEAN, Report(others) PROVE UntroubledSoFar'
  <2>1. conclusion' = "PASS" => troubled = {}
    BY <1>15 DEF Report, Risks
  <2>2. turn = Len(Order) + 1
    BY <1>15 DEF Report, UntroubledSoFar
  <2> QED BY <1>15, <2>1, <2>2, Places DEF Report, TypeOK, UntroubledSoFar, Goto, Heading, Agent,
             HasPass, HasResult
<1>16. CASE Raise
  BY <1>16 DEF Raise
<1>17. ASSUME NEW a \in Team, NEW to \in Target, MoveNode(a, to) PROVE UntroubledSoFar'
  BY <1>17 DEF MoveNode, local
<1>18. CASE OthersEvaluate
  BY <1>18 DEF OthersEvaluate, local
<1>19. CASE UNCHANGED vars
  BY <1>19 DEF vars
<1> QED BY <1>1, <1>2, <1>3, <1>4, <1>5, <1>6, <1>7, <1>8, <1>9,
           <1>10, <1>11, <1>12, <1>13, <1>14, <1>15, <1>16, <1>17, <1>18, <1>19
           DEF Next, RunnerStep

\* The inductive invariant holds always.
THEOREM RunnerInvariant == Spec => []RunnerInv
<1>1. RunnerInv /\ [Next]_vars => RunnerInv'
  BY TypeStep, PassesStep, SessionsStep, UntroubledStep DEF RunnerInv
<1> QED BY InitInv, <1>1, PTL DEF Spec

\* The types are right, for any team.
THEOREM TypeCorrect == Spec => []TypeOK
<1>1. RunnerInv => TypeOK
  BY DEF RunnerInv
<1> QED BY RunnerInvariant, <1>1, PTL

\* No agent is run unless each one before it has a stored pass, whatever
\* operators and other evaluations do in between.
THEOREM SessionAlwaysNeedsPasses == Spec => []SessionNeedsPasses
<1>1. RunnerInv => SessionNeedsPasses
  BY DEF RunnerInv, PassesBehind, SessionNeedsPasses
<1> QED BY RunnerInvariant, <1>1, PTL

\* Whatever the provider answers, no agent is run more often than the retry
\* limit allows.
THEOREM RetriesAlwaysBounded == Spec => []RetriesBounded
<1>1. RunnerInv => RetriesBounded
  BY DEF RunnerInv, SessionsCounted, RetriesBounded
<1> QED BY RunnerInvariant, <1>1, PTL

\* A report says PASS only when each agent has been run exactly once, and
\* all but the last have passed.
THEOREM PassAlwaysDeserved == Spec => []PassIsDeserved
<1>1. ASSUME RunnerInv, conclusion = "PASS"
      PROVE  /\ \A a \in Team : sessions[a] = 1 /\ HasResult(a)
             /\ \A i \in 1 .. Len(Order) - 1 : HasPass(Order[i])
  <2>1. troubled = {} /\ turn = Len(Order) + 1
    BY <1>1 DEF RunnerInv, UntroubledSoFar, None
  <2>2. \A a \in Team : \E i \in 1 .. turn - 1 : a = Order[i]
    BY <2>1, Places DEF Team
  <2> QED BY <1>1, <2>1, <2>2, Places DEF RunnerInv, UntroubledSoFar
<1>2. RunnerInv => PassIsDeserved
  BY <1>1 DEF PassIsDeserved
<1> QED BY RunnerInvariant, <1>2, PTL

\* Every step keeps the nodes where the turns have left them, unless somebody
\* else moves one.
LEMMA SettledStep ==
    ASSUME TypeOK, PassesBehind, UntroubledSoFar, SettledInv, [Next]_vars
    PROVE  SettledInv'
<1> USE Places DEF TypeOK, SettledInv, Goto, Move, Agent
<1>1. CASE BeginTurn
  BY <1>1 DEF BeginTurn, DispatchOrBlock
<1>2. CASE LookAtRelease
  BY <1>2 DEF LookAtRelease, DispatchOrBlock
<1>3. CASE Block
  BY <1>3 DEF Block, Terminal
<1>4. CASE RecordBlocked
  BY <1>4 DEF RecordBlocked, Terminal
<1>5. CASE CheckMove
  BY <1>5 DEF CheckMove
<1>6. CASE UpdateMove
  BY <1>6 DEF UpdateMove, PassesBehind, Terminal
<1>7. CASE Claim
  BY <1>7 DEF Claim
<1>8. ASSUME NEW o \in Outcome, Work(o) PROVE SettledInv'
  BY <1>8 DEF Work
<1>9. CASE Settle
  <2>1. answer \in Outcome
    BY <1>9 DEF Settle, PassesBehind, Heading, None
  <2>2. SettledAs(answer) \in Terminal
    BY <2>1 DEF SettledAs, Outcome, Verdict, Terminal
  <2> QED BY <1>9, <2>2 DEF Settle
<1>10. CASE Notice
  BY <1>10 DEF Notice
<1>11. CASE Retry
  BY <1>11 DEF Retry, MayRetry
<1>12. CASE Record
  BY <1>12 DEF Record
<1>13. CASE Evaluate
  BY <1>13 DEF Evaluate
<1>14. CASE LastEvaluate
  BY <1>14 DEF LastEvaluate
<1>15. ASSUME NEW others \in BOOLEAN, Report(others) PROVE SettledInv'
  BY <1>15 DEF Report, UntroubledSoFar
<1>16. CASE Raise
  BY <1>16 DEF Raise
<1>17. ASSUME NEW a \in Team, NEW to \in Target, MoveNode(a, to) PROVE SettledInv'
  BY <1>17 DEF MoveNode, local
<1>18. CASE OthersEvaluate
  BY <1>18 DEF OthersEvaluate, local
<1>19. CASE UNCHANGED vars
  BY <1>19 DEF vars
<1> QED BY <1>1, <1>2, <1>3, <1>4, <1>5, <1>6, <1>7, <1>8, <1>9,
           <1>10, <1>11, <1>12, <1>13, <1>14, <1>15, <1>16, <1>17, <1>18, <1>19
           DEF Next, RunnerStep

\* A node that is left alone is settled when the report is given.
THEOREM NodesAlwaysSettled == Spec => []EveryNodeSettled
<1>1. Init => SettledInv
  BY Places DEF Init, SettledInv, Agent
<1>2. RunnerInv /\ SettledInv /\ [Next]_vars => SettledInv'
  BY SettledStep DEF RunnerInv
<1>3. RunnerInv /\ SettledInv => EveryNodeSettled
  BY Places DEF RunnerInv, TypeOK, SettledInv, EveryNodeSettled, Team
<1> QED BY RunnerInvariant, <1>1, <1>2, <1>3, PTL DEF Spec

-----------------------------------------------------------------------------
(***************************************************************************)
(* The agent that releases.                                                *)
(***************************************************************************)

\* The release gate passes when the three before it do.
LEMMA ReleaseIsAllThree ==
    /\ Decisions["release_gate"] = "pass" <=> \A g \in Rules!Prerequisite : Decision(g) = "pass"
    /\ Decisions'["release_gate"] = "pass" <=> \A g \in Rules!Prerequisite : Decision(g)' = "pass"
<1> USE DEF Rules!Prerequisite, Rules!ReleaseRule, Gate, RealityDecision
<1>1. Decisions["release_gate"] = "pass" <=> \A g \in Rules!Prerequisite : Decision(g) = "pass"
  BY DEF Decisions
<1>2. Decisions'["release_gate"] = "pass" <=> \A g \in Rules!Prerequisite : Decision(g)' = "pass"
  BY DEF Decisions
<1> QED BY <1>1, <1>2

\* A gate that passes has a pass among the statuses it finds.
LEMMA RulePassNeedsPass ==
    ASSUME NEW g, NEW found, Rules!Rule(g, found) = "pass"
    PROVE  "pass" \in found
BY DEF Rules!Rule, Rules!TestRule, Rules!ReviewRule, Rules!RealityRule

\* A gate that passes goes by results: a node alone never makes it pass.
LEMMA PassGoesByResults ==
    ASSUME NEW g \in Rules!Prerequisite, Decision(g) = "pass",
           \A a \in Team : status[a] = "pass" => HasPass(a)
    PROVE  Rules!FactsFor(results, Rules!AgentOf[g]) # {}
<1> DEFINE agent == Rules!AgentOf[g]
<1> SUFFICES ASSUME Rules!FactsFor(results, agent) = {} PROVE FALSE
  OBVIOUS
<1>1. "pass" \in {status[n] : n \in Rules!ActiveNodes(status, agent)}
  BY RulePassNeedsPass DEF Decision
<1>2. PICK n \in Rules!ActiveNodes(status, agent) : status[n] = "pass"
  BY <1>1
<1>3. n \in Team /\ n = agent
  BY <1>2 DEF Rules!ActiveNodes
<1>4. Result(n, "pass") \in results
  BY <1>2, <1>3 DEF HasPass
<1>5. Result(n, "pass") \in Rules!FactsFor(results, agent)
  BY <1>3, <1>4 DEF Rules!FactsFor, Result
<1> QED BY <1>5

\* A release gate that deserves to pass goes on to, when the only results that
\* come in are of an agent that had none.
LEMMA DeservedStays ==
    ASSUME Decisions["release_gate"] = "pass",
           \A a \in Team : status[a] = "pass" => HasPass(a),
           \A r \in results : r.agent \in Team /\ HasResult(r.agent),
           results \subseteq results',
           \A r \in results' \ results : ~HasResult(r.agent)
    PROVE  Decisions'["release_gate"] = "pass"
<1> SUFFICES ASSUME NEW g \in Rules!Prerequisite PROVE Decision(g)' = "pass"
  BY ReleaseIsAllThree
<1> DEFINE agent == Rules!AgentOf[g]
<1>1. Decision(g) = "pass"
  BY ReleaseIsAllThree
<1>2. Rules!FactsFor(results, agent) # {}
  BY <1>1, PassGoesByResults
<1>3. HasResult(agent)
  BY <1>2 DEF Rules!FactsFor
<1>4. Rules!FactsFor(results', agent) = Rules!FactsFor(results, agent)
  BY <1>3 DEF Rules!FactsFor
<1> QED BY <1>1, <1>2, <1>4 DEF Decision

\* Who has a result, and what a step adds to the results.
LEMMA ResultsOfTeam ==
    ASSUME TypeOK
    PROVE  \A r \in results : r.agent \in Team /\ HasResult(r.agent)
BY DEF TypeOK, Result, HasResult

\* Every step keeps the release as deserved as it was.
LEMMA ReleaseStep ==
    ASSUME TypeOK, PassesBehind, ReleaseInv, [Next]_vars
    PROVE  ReleaseInv'
<1> DEFINE Deserved == Decisions["release_gate"] = "pass"
<1>1. ASSUME UNCHANGED results PROVE Deserved => Decisions'["release_gate"] = "pass"
  BY <1>1, DeservedStays, ResultsOfTeam DEF ReleaseInv
<1>2. ASSUME NEW o \in Outcome, Work(o) PROVE ReleaseInv'
  <2>1. ~HasResult(Agent) /\ Agent \in Team /\ turn \in 1 .. Len(Order)
    BY <1>2, Places DEF Work, ReleaseInv, Heading, TypeOK, Agent
  <2>2. \/ results' = results
        \/ o \in Verdict /\ results' = results \cup {Result(Agent, o)}
    BY <1>2 DEF Work
  <2>3. Deserved => Decisions'["release_gate"] = "pass"
    BY <2>1, <2>2, DeservedStays, ResultsOfTeam DEF ReleaseInv, Result
  <2>4. ASSUME NEW i \in DOMAIN Order, i > turn PROVE ~HasResult(Order[i])'
    <3>1. ~HasResult(Order[i]) /\ Order[i] # Agent
      BY <2>1, <2>4, Places DEF ReleaseInv, Agent
    <3> QED BY <2>2, <3>1 DEF HasResult, Result
  <2>5. \A a \in Team : HasPass(a) => HasPass(a)'
    BY <2>2 DEF HasPass
  <2>6. o \notin Verdict => ~HasResult(Agent)'
    BY <2>1, <1>2 DEF Work, HasResult, Agent
  <2> QED BY <1>2, <2>1, <2>3, <2>4, <2>5, <2>6
          DEF Work, Goto, ReleaseInv, Heading, InSession, Agent, TypeOK
<1>3. ASSUME UNCHANGED results, Next PROVE ReleaseInv'
  <2>stays. Decisions["release_gate"] = "pass" => Decisions'["release_gate"] = "pass"
    BY <1>1, <1>3
  <2>settled. Settle /\ SettledAs(answer) = "pass" => HasPass(Agent)
    <3>1. SUFFICES ASSUME Settle, SettledAs(answer) = "pass" PROVE HasPass(Agent)
      OBVIOUS
    <3>2. answer \in Outcome /\ (answer = "pass" => HasPass(Agent))
      BY <3>1 DEF Settle, TypeOK, PassesBehind, Heading, None
    <3>3. SettledAs(answer) = "pass" => answer = "pass"
      BY <3>2 DEF SettledAs, Outcome, Verdict
    <3> QED BY <3>1, <3>2, <3>3
  <2>looked. LookAtRelease =>
           /\ at = "gate" /\ UNCHANGED <<turn, answer, status, results, gates>>
           /\ \/ at' = "block" /\ move' = move
              \/ /\ at' = "check" /\ move'.then = "claim" /\ move'.to = "ready"
                 /\ gates["release_gate"] = "pass"
    <3>1. LookAtRelease /\ upstreamOk' => gates["release_gate"] = "pass"
      BY DEF LookAtRelease
    <3> QED BY <3>1 DEF LookAtRelease, DispatchOrBlock, Goto, Move
  <2>passedOn. RecordBlocked \/ Evaluate => ReleaseInv'
    <3>1. SUFFICES ASSUME RecordBlocked \/ Evaluate PROVE ReleaseInv'
      OBVIOUS
    <3>2. /\ at' = "turn" /\ turn' = turn + 1 /\ turn \in 1 .. Len(Order)
          /\ UNCHANGED <<answer, status, results>> /\ (gates' = gates \/ gates' = Decisions)
      BY <3>1, Places DEF RecordBlocked, Evaluate, TypeOK, Goto
    <3>3. \A i \in DOMAIN Order : i > turn => ~HasResult(Order[i])'
      BY <3>2 DEF ReleaseInv, HasResult
    <3>4. \A a \in Team : status'[a] = "pass" => HasPass(a)'
      BY <3>2 DEF ReleaseInv, HasPass
    <3> QED BY <2>stays, <3>2, <3>3, <3>4, Places DEF ReleaseInv, Heading, InSession, Agent
  <2> USE <1>3, Places
          DEF TypeOK, ReleaseInv, Goto, Move, Heading, InSession, Agent, HasPass, HasResult
  <2>1. CASE BeginTurn
    BY <2>1, <2>stays DEF BeginTurn, DispatchOrBlock
  <2>2. CASE LookAtRelease
    BY <2>2, <2>stays, <2>looked
  <2>3. CASE Block
    BY <2>3, <2>stays DEF Block
  <2>4. CASE RecordBlocked
    BY <2>4, <2>passedOn
  <2>5. CASE CheckMove
    BY <2>5, <2>stays DEF CheckMove
  <2>6. CASE UpdateMove
    BY <2>6, <2>stays DEF UpdateMove, PassesBehind
  <2>7. CASE Claim
    BY <2>7, <2>stays DEF Claim
  <2>8. CASE Settle
    BY <2>8, <2>stays, <2>settled DEF Settle
  <2>9. CASE Notice
    BY <2>9, <2>stays DEF Notice
  <2>10. CASE Retry
    BY <2>10, <2>stays DEF Retry, MayRetry, Verdict
  <2>11. CASE Record
    BY <2>11, <2>stays DEF Record
  <2>12. CASE Evaluate
    BY <2>12, <2>passedOn
  <2>13. CASE LastEvaluate
    BY <2>13, <2>stays DEF LastEvaluate
  <2>14. ASSUME NEW others \in BOOLEAN, Report(others) PROVE ReleaseInv'
    BY <2>14, <2>stays DEF Report
  <2>15. CASE Raise
    BY <2>15, <2>stays DEF Raise
  <2>16. ASSUME NEW a \in Team, NEW to \in Target, MoveNode(a, to) PROVE ReleaseInv'
    BY <2>16, <2>stays, RunnerAssumption DEF MoveNode, local
  <2>17. CASE OthersEvaluate
    BY <2>17, <2>stays DEF OthersEvaluate, local
  <2> QED BY <1>2, <2>1, <2>2, <2>3, <2>4, <2>5, <2>6, <2>7, <2>8, <2>9, <2>10,
             <2>11, <2>12, <2>13, <2>14, <2>15, <2>16, <2>17 DEF Next, RunnerStep
<1>4. CASE UNCHANGED vars
  BY <1>1, <1>4 DEF vars, ReleaseInv, Heading, InSession, HasResult, HasPass, Agent
<1>5. Next => UNCHANGED results \/ \E o \in Outcome : Work(o)
  BY DEF Next, RunnerStep, BeginTurn, LookAtRelease, Block, RecordBlocked, CheckMove, UpdateMove,
         Claim, Settle, Notice, Retry, Record, Evaluate, LastEvaluate, Report, Raise, MoveNode,
         OthersEvaluate
<1> QED BY <1>2, <1>3, <1>4, <1>5

\* The agent that releases is run only while the release gate deserves to pass,
\* for any order of the turns and whoever evaluates the gates and moves nodes.
THEOREM ReleaserAlwaysRunsReleased == Spec => []ReleaserRunsReleased
<1>1. Init => ReleaseInv
  BY Places DEF Init, ReleaseInv, Heading, InSession, HasResult, HasPass, Gate, None
<1>2. RunnerInv /\ ReleaseInv /\ [Next]_vars => ReleaseInv'
  BY ReleaseStep DEF RunnerInv
<1>3. ReleaseInv => ReleaserRunsReleased
  BY DEF ReleaseInv, ReleaserRunsReleased
<1> QED BY RunnerInvariant, <1>1, <1>2, <1>3, PTL DEF Spec

-----------------------------------------------------------------------------
(***************************************************************************)
(* The runner's nodes.                                                     *)
(***************************************************************************)

\* NodeMachine's table is this module's.
LEMMA SameTable ==
    /\ Machine!Status = Status
    /\ \A from, to : Machine!Allowed(from, to) <=> Allowed(from, to)
<1>1. Machine!Status = Status
  BY DEF Machine!Status, Status
<1>2. Machine!AllowedTransitions = AllowedTransitions
  BY <1>1 DEF Machine!AllowedTransitions, AllowedTransitions
<1> QED
  BY <1>1, <1>2 DEF Machine!Allowed, Allowed

\* Whatever transition the runner begins is an allowed one, once the agent has answered.
LEMMA MoveAllowedStep ==
    ASSUME RunnerInv, MoveAllowed, [Next]_vars
    PROVE  MoveAllowed'
<1>1. /\ Allowed("todo", "ready") /\ Allowed("todo", "blocked") /\ Allowed("ready", "running")
      /\ Allowed("agent_unavailable", "ready")
  BY DEF Allowed, AllowedTransitions, Status
<1>2. ASSUME Settle
      PROVE  MoveAllowed'
  <2>1. answer \in Outcome
    BY <1>2 DEF Settle, RunnerInv, TypeOK, PassesBehind, Heading, None
  <2>2. SettledAs(answer) \in {"agent_unavailable", "blocked", "pass", "fail"}
    BY <2>1 DEF SettledAs, Outcome, Verdict
  <2>3. Allowed("running", SettledAs(answer))
    BY <2>2 DEF Allowed, AllowedTransitions, Status
  <2> QED
    BY <1>2, <2>3 DEF Settle, Goto, Move, MoveAllowed
<1>3. ASSUME BeginTurn \/ LookAtRelease \/ Block \/ Claim \/ Retry
      PROVE  MoveAllowed'
  BY <1>1, <1>3 DEF BeginTurn, LookAtRelease, Block, Claim, Retry, DispatchOrBlock, Goto, Move, MoveAllowed
<1>4. CASE CheckMove
  BY <1>4 DEF CheckMove, Goto, MoveAllowed
<1>5. CASE UpdateMove
  BY <1>5 DEF UpdateMove, Goto, MoveAllowed, RunnerInv, PassesBehind
<1>6. ASSUME RecordBlocked \/ (\E o \in Outcome : Work(o)) \/ Notice \/ Record \/ Evaluate \/ LastEvaluate
             \/ (\E others \in BOOLEAN : Report(others)) \/ Raise
      PROVE  MoveAllowed'
  BY <1>6 DEF RecordBlocked, Work, Notice, Record, Evaluate, LastEvaluate, Report, Raise, Goto, MoveAllowed
<1>7. ASSUME OthersEvaluate \/ (\E a \in Team, to \in Target : MoveNode(a, to)) \/ UNCHANGED vars
      PROVE  MoveAllowed'
  BY <1>7 DEF OthersEvaluate, MoveNode, local, vars, MoveAllowed
<1> QED
  BY <1>2, <1>3, <1>4, <1>5, <1>6, <1>7 DEF Next, RunnerStep

\* However old the runner's look at a node is when it moves it, and whatever operators have
\* done since, the nodes of a scenario move along allowed transitions only.
THEOREM RunnerImplementsMachine == Spec => ImplementsMachine
<1>1. Init => Machine!Init /\ MoveAllowed
  BY SameTable DEF Init, Machine!Init, MoveAllowed, Status
<1>2. RunnerInv /\ MoveAllowed /\ [Next]_vars => MoveAllowed'
  BY MoveAllowedStep
<1>3. RunnerInv /\ MoveAllowed /\ [Next]_vars => [Machine!Next]_status
  <2> SUFFICES ASSUME RunnerInv, MoveAllowed, [Next]_vars
               PROVE  Machine!Next \/ UNCHANGED status
    OBVIOUS
  <2>1. status \in [Team -> Status]
    BY DEF RunnerInv, TypeOK
  <2>2. ASSUME NEW a \in Team, NEW to \in Status, Allowed(status[a], to),
               status' = [status EXCEPT ![a] = to]
        PROVE  Machine!Next
    <3>1. Machine!Move(a, to)
      BY <2>1, <2>2, SameTable DEF Machine!Move
    <3> QED
      BY <3>1, SameTable DEF Machine!Next
  <2>3. ASSUME UpdateMove
        PROVE  Machine!Next \/ UNCHANGED status
    <3>1. Agent \in Team /\ move.to \in Status /\ Allowed(move.from, move.to)
      BY <2>3, Places DEF UpdateMove, RunnerInv, TypeOK, MoveAllowed, Agent
    <3> QED
      BY <2>2, <2>3, <3>1 DEF UpdateMove
  <2>4. ASSUME NEW a \in Team, NEW to \in Target, MoveNode(a, to)
        PROVE  Machine!Next
    BY <2>2, <2>4, RunnerAssumption DEF MoveNode
  <2>5. UpdateMove \/ (\E a \in Team, to \in Target : MoveNode(a, to)) \/ UNCHANGED status
    BY DEF Next, RunnerStep, BeginTurn, LookAtRelease, Block, RecordBlocked, CheckMove, Claim, Work, Settle,
       Notice, Retry, Record, Evaluate, LastEvaluate, Report, Raise, OthersEvaluate, vars
  <2> QED
    BY <2>3, <2>4, <2>5
<1> QED
  BY <1>1, <1>2, <1>3, RunnerInvariant, PTL DEF Spec, ImplementsMachine, Machine!Spec
=============================================================================
