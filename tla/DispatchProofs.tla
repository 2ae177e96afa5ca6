--------------------------- MODULE DispatchProofs ---------------------------
(***************************************************************************)
(* Proofs about Dispatch: for any number of dispatching processes and      *)
(* nodes, and however deaths, lost appends, fallbacks and the moves of     *)
(* others fall between their steps, verdicts have results, closed nodes    *)
(* stay closed and nodes move along allowed transitions; and, of one       *)
(* dispatcher at a time, that claims and limits hold.                      *)
(***************************************************************************)
EXTENDS Dispatch, TLAPS, FiniteSetTheorems, WellFoundedInduction

\* A set of numbers has a least one.
LEMMA LeastNumber ==
    ASSUME NEW T \in SUBSET Nat, T # {}
    PROVE  \E k \in T : \A j \in T : k <= j
<1> DEFINE R == {ss \in Nat \X Nat : ss[1] < ss[2]}
<1>1. IsWellFoundedOn(R, Nat)
  BY NatLessThanWellFounded, Zenon DEF OpToRel
<1>2. PICK k \in T : \A j \in T : ~ (<<j, k>> \in R)
  <2> HIDE DEF R
  <2> QED
    BY <1>1, WFMin
<1>3. ASSUME NEW j \in T PROVE k <= j
  <2>1. CASE j < k
    <3>1. <<j, k>> \in R
      BY <2>1
    <3> QED
      BY <1>2, <3>1
  <2> QED
    BY <2>1
<1> QED
  BY <1>3

\* Every set of nodes has a first one in the order of the list.
LEMMA FirstIsMember ==
    ASSUME NEW S \in SUBSET Node, S # {}
    PROVE  First(S) \in S
<1> DEFINE T == {Rank[n] : n \in S}
<1>1. T \in SUBSET Nat /\ T # {}
  BY DispatchAssumption
<1>2. PICK k \in T : \A j \in T : k <= j
  <2> HIDE DEF T
  <2> QED
    BY <1>1, LeastNumber
<1>3. \E n \in S : \A m \in S : Rank[n] <= Rank[m]
  BY <1>2
<1> QED
  BY <1>3 DEF First

\* And a last one: the one with the fewest after it.
LEMMA LastExists ==
    ASSUME NEW S \in SUBSET Node, S # {}
    PROVE  \E m \in S : \A n \in S : Rank[n] <= Rank[m]
<1> DEFINE After(n) == {x \in S : Rank[x] > Rank[n]}
           T == {Cardinality(After(n)) : n \in S}
<1>1. IsFiniteSet(S)
  BY FS_Subset, DispatchAssumption
<1>2. \A n \in S : IsFiniteSet(After(n)) /\ Cardinality(After(n)) \in Nat
  BY <1>1, FS_Subset, FS_CardinalityType
<1>3. T \in SUBSET Nat /\ T # {}
  BY <1>2
<1>4. PICK k \in T : \A j \in T : k <= j
  <2> HIDE DEF T
  <2> QED
    BY <1>3, LeastNumber
<1>5. PICK m \in S : k = Cardinality(After(m))
  BY <1>4
<1>6. ASSUME NEW n \in S, Rank[n] > Rank[m] PROVE FALSE
  <2>1. /\ Rank[n] \in Nat /\ Rank[m] \in Nat
        /\ \A x \in S : Rank[x] \in Nat
    BY DispatchAssumption
  <2>2. After(n) \in SUBSET After(m) /\ n \in After(m) /\ n \notin After(n)
    BY <1>6, <2>1
  <2>3. Cardinality(After(n)) < Cardinality(After(m))
    <3> HIDE DEF After
    <3>1. /\ Cardinality(After(n)) <= Cardinality(After(m))
          /\ Cardinality(After(m)) = Cardinality(After(n)) => After(m) = After(n)
      BY <1>2, <2>2, FS_Subset
    <3> QED
      BY <1>2, <2>2, <3>1
  <2>4. k <= Cardinality(After(n))
    BY <1>4
  <2> QED
    BY <1>2, <1>5, <2>3, <2>4
<1> QED
  BY <1>6, DispatchAssumption

\* The idle task is a task about which nothing is claimed.
LEMMA IdleFine == Idle \in Task /\ TaskInv(Idle)
<1>1. (CHOOSE n \in Node : TRUE) \in Node
  BY DispatchAssumption
<1> QED
  BY <1>1 DEF Idle, Task, TaskInv, Phase, Provider, Status

\* So is the task of a command that goes on with its queue.
LEMMA ProceedFine ==
    ASSUME NEW queue \in SUBSET Node, NEW provider \in Provider
    PROVE  Proceed(queue, provider) \in Task /\ TaskInv(Proceed(queue, provider))
<1>1. CASE queue = {}
  BY <1>1, IdleFine DEF Proceed
<1>2. CASE queue # {}
  <2>1. First(queue) \in Node
    BY <1>2, FirstIsMember
  <2>2. Proceed(queue, provider) =
          [Idle EXCEPT !.at = "open", !.node = First(queue),
                       !.queue = queue \ {First(queue)}, !.provider = provider]
    BY <1>2 DEF Proceed
  <2> DEFINE t == Proceed(queue, provider)
  <2>3. t \in Task
    BY <2>1, <2>2, IdleFine DEF Task, Phase
  <2>4. t.at = "open"
    BY <2>2, IdleFine DEF Task
  <2> QED
    BY <2>3, <2>4 DEF TaskInv
<1> QED
  BY <1>1, <1>2

\* So is what an exception leaves, the fallback provider's task included.
LEMMA RaisedFine ==
    ASSUME NEW t \in Task, TaskInv(t)
    PROVE  Raised(t) \in Task /\ TaskInv(Raised(t))
<1>1. CASE t.node \in Automatic /\ ~t.fallback
  BY <1>1 DEF Raised, Task, TaskInv, Phase, Provider
<1>2. CASE ~(t.node \in Automatic /\ ~t.fallback)
  BY <1>2, IdleFine DEF Raised
<1> QED
  BY <1>1, <1>2

\* A task that is to move its node on from running has everything it needs.
LEMMA MoveIfRunningFine ==
    ASSUME NEW t \in Task, TaskInv(t), t.at \in {"settle", "apply"}
    PROVE  MoveIfRunning(t) \in Task /\ TaskInv(MoveIfRunning(t))
<1>1. t.to \in {"agent_unavailable", "blocked", "pass", "fail"}
  BY DEF TaskInv, Verdict
<1>2. t.to \in {"pass", "fail"} => HasResult(t.node, t.to)
  BY DEF TaskInv
<1>3. Allowed("running", t.to)
  BY <1>1 DEF Allowed, AllowedTransitions, Status
<1>4. CASE status[t.node] = "running"
  BY <1>2, <1>3, <1>4 DEF MoveIfRunning, Task, TaskInv, Phase, Status
<1>5. CASE status[t.node] # "running"
  BY <1>5 DEF MoveIfRunning, Task, TaskInv, Phase
<1> QED
  BY <1>4, <1>5

\* A step that only gives one process a new task, and counts what it counts,
\* keeps the invariant if the new task satisfies it.
LEMMA DoFine ==
    ASSUME DispatchInv, NEW p \in Proc, NEW t \in Task, TaskInv(t), Do(p, t),
           UNCHANGED <<status, results, claims, moves>>,
           started' \in Nat, completed' \subseteq Nat, faults' \in Nat,
           raised' \subseteq Node \X Nat
    PROVE  DispatchInv'
<1>1. TypeOK'
  BY DEF DispatchInv, TypeOK, Do
<1>2. VerdictHasResult'
  BY DEF DispatchInv, VerdictHasResult, HasResult
<1>3. ASSUME NEW q \in Proc PROVE TaskInv(task[q])'
  <2>1. task'[q] = IF q = p THEN t ELSE task[q]
    BY DEF Do, DispatchInv, TypeOK
  <2>2. TaskInv(task[q]) /\ TaskInv(t)
    BY DEF DispatchInv
  <2> QED
    BY <2>1, <2>2 DEF TaskInv, HasResult
<1> QED
  BY <1>1, <1>2, <1>3 DEF DispatchInv

\* So does one that also stores a result.
LEMMA ResultFine ==
    ASSUME DispatchInv, NEW p \in Proc, NEW t \in Task, TaskInv(t)', Do(p, t),
           NEW r \in Result, results' = results \cup {r},
           UNCHANGED <<status, started, completed, claims, moves, faults>>,
           raised' \subseteq Node \X Nat
    PROVE  DispatchInv'
<1>1. TypeOK'
  BY DEF DispatchInv, TypeOK, Do
<1>2. VerdictHasResult'
  BY DEF DispatchInv, VerdictHasResult, HasResult
<1>3. ASSUME NEW q \in Proc PROVE TaskInv(task[q])'
  <2>1. task'[q] = IF q = p THEN t ELSE task[q]
    BY DEF Do, DispatchInv, TypeOK
  <2>2. TaskInv(task[q])
    BY DEF DispatchInv
  <2> QED
    BY <2>1, <2>2 DEF TaskInv, HasResult
<1> QED
  BY <1>1, <1>2, <1>3 DEF DispatchInv

\* What an answer that raises leaves behind is a set of claims.
LEMMA AnswerRaisesFine ==
    ASSUME DispatchInv, NEW t \in Task, AnswerRaises(t)
    PROVE  raised' \subseteq Node \X Nat
BY DEF DispatchInv, TypeOK, AnswerRaises, Task

\* A step that moves one node, to a status that is no verdict of pass or fail
\* or for which there is a result, and gives a process a task in which nothing
\* is left to be shown, keeps the invariant.
LEMMA MoveFine ==
    ASSUME DispatchInv, NEW n \in Node, NEW to \in Status,
           to \in {"pass", "fail"} => HasResult(n, to),
           status' = [status EXCEPT ![n] = to], UNCHANGED results
    PROVE  status' \in [Node -> Status] /\ VerdictHasResult'
BY DEF DispatchInv, TypeOK, VerdictHasResult, HasResult

\* The initial states satisfy the invariant.
LEMMA DispatchInvInit == Init => DispatchInv
<1> SUFFICES ASSUME Init PROVE DispatchInv
  OBVIOUS
<1>1. TypeOK
  BY DispatchAssumption, IdleFine DEF Init, TypeOK
<1>2. VerdictHasResult
  BY DispatchAssumption DEF Init, VerdictHasResult
<1>3. \A p \in Proc : TaskInv(task[p])
  BY IdleFine DEF Init
<1> QED
  BY <1>1, <1>2, <1>3 DEF DispatchInv

\* Every step keeps the invariant.
LEMMA DispatchInvNext == DispatchInv /\ [Next]_vars => DispatchInv'
<1> SUFFICES ASSUME DispatchInv, [Next]_vars PROVE DispatchInv'
  OBVIOUS
<1>t. /\ \A p \in Proc : task[p] \in Task /\ TaskInv(task[p])
      /\ started \in Nat /\ completed \subseteq Nat /\ faults \in Nat
      /\ status \in [Node -> Status] /\ results \subseteq Result
      /\ claims \in [Node -> Nat] /\ moves \in Nat /\ task \in [Proc -> Task]
      /\ raised \subseteq Node \X Nat
  BY DEF DispatchInv, TypeOK
<1>1. ASSUME NEW p \in Proc, NEW limit \in Limits, NEW provider \in Provider,
             Select(p, limit, provider)
      PROVE  DispatchInv'
  <2>1. PICK queue \in SUBSET Node : queue = Candidates(limit)
    BY DEF Candidates, Eligible, Ready
  <2>2. PICK t \in Task : t = Proceed(queue, provider) /\ TaskInv(t)
    BY ProceedFine
  <2>3. Do(p, t)
    BY <1>1, <2>1, <2>2 DEF Select
  <2> QED
    BY <1>1, <1>t, <2>2, <2>3, DoFine DEF Select
<1>2. ASSUME NEW p \in Proc, StartSession(p) PROVE DispatchInv'
  <2>1. PICK k \in Nat : k = started + 1
    BY <1>t
  <2>2. PICK t \in Task : t = [task[p] EXCEPT !.at = "look", !.session = k]
    BY <1>t DEF Task, Phase
  <2>3. TaskInv(t)
    BY <1>t, <2>2 DEF TaskInv, Task
  <2>4. Do(p, t)
    BY <1>2, <2>1, <2>2 DEF StartSession
  <2> QED
    BY <1>2, <1>t, <2>3, <2>4, DoFine DEF StartSession
<1>3. ASSUME NEW p \in Proc, Look(p) PROVE DispatchInv'
  <2>1. PICK t \in Task : t = [task[p] EXCEPT !.at = "check", !.from = "ready", !.to = "running"]
    <3>1. task[p] \in Task
      BY <1>t
    <3>2. "check" \in Phase /\ "ready" \in Status /\ "running" \in Status
      BY DEF Phase, Status
    <3> QED
      BY <3>1, <3>2 DEF Task
  <2>2. PICK w \in Task : w = [task[p] EXCEPT !.at = "work"]
    BY <1>t DEF Task, Phase
  <2>3. TaskInv(t)
    BY <1>t, <2>1 DEF TaskInv, Task, Allowed, AllowedTransitions, Status
  <2>4. TaskInv(w)
    BY <1>t, <2>2 DEF TaskInv, Task
  <2>5. Do(p, t) \/ Do(p, w)
    BY <1>3, <2>1, <2>2 DEF Look
  <2> QED
    BY <1>3, <1>t, <2>3, <2>4, <2>5, DoFine DEF Look
<1>4. ASSUME NEW p \in Proc, Check(p) PROVE DispatchInv'
  <2>1. PICK u \in Task : u = Raised(task[p]) /\ TaskInv(u)
    BY <1>t, RaisedFine
  <2>2. PICK w \in Task : w = [task[p] EXCEPT !.at = "update"]
    BY <1>t DEF Task, Phase
  <2>3. TaskInv(w)
    BY <1>4, <1>t, <2>2 DEF Check, TaskInv, Task
  <2>4. Do(p, w) \/ Do(p, u)
    BY <1>4, <2>1, <2>2 DEF Check
  <2> QED
    BY <1>4, <1>t, <2>1, <2>3, <2>4, DoFine DEF Check
<1>5. ASSUME NEW p \in Proc, Update(p) PROVE DispatchInv'
  <2> DEFINE n == task[p].node
             to == task[p].to
             claim == IF Matches(task[p]) /\ to = "running" THEN claims[n] + 1 ELSE task[p].claim
  <2>1. n \in Node /\ to \in Status /\ claim \in Nat
    BY <1>t DEF Task
  <2>2. PICK t \in Task : t = [task[p] EXCEPT !.at = "log", !.claim = claim]
    <3> HIDE DEF claim
    <3> QED
      BY <1>t, <2>1 DEF Task, Phase
  <2>3. TaskInv(t) /\ Do(p, t)
    BY <1>5, <1>t, <2>2 DEF Update, TaskInv, Task
  <2>4. to \in {"pass", "fail"} => HasResult(n, to)
    BY <1>5, <1>t DEF Update, TaskInv
  <2>5. status' \in [Node -> Status] /\ VerdictHasResult'
    <3>1. CASE Matches(task[p])
      BY <1>5, <2>1, <2>4, <3>1, MoveFine DEF Update
    <3>2. CASE ~Matches(task[p])
      BY <1>5, <1>t, <3>2 DEF Update, DispatchInv, VerdictHasResult, HasResult
    <3> QED
      BY <3>1, <3>2
  <2>6. claims' \in [Node -> Nat]
    BY <1>5, <1>t, <2>1 DEF Update
  <2>7. TypeOK'
    BY <1>5, <1>t, <2>3, <2>5, <2>6 DEF Update, TypeOK, Do
  <2>8. ASSUME NEW q \in Proc PROVE TaskInv(task[q])'
    <3>1. task'[q] = IF q = p THEN t ELSE task[q]
      BY <1>t, <2>3 DEF Do
    <3> QED
      BY <1>5, <1>t, <2>3, <3>1 DEF Update, TaskInv, HasResult
  <2> QED
    BY <2>5, <2>7, <2>8 DEF DispatchInv
<1>6. ASSUME NEW p \in Proc, LogTransition(p) PROVE DispatchInv'
  <2>1. PICK t \in Task :
           t = [task[p] EXCEPT !.at = IF task[p].to = "running" THEN "work" ELSE "complete"]
    BY <1>t DEF Task, Phase
  <2>2. TaskInv(t)
    BY <1>t, <2>1 DEF TaskInv, Task
  <2> QED
    BY <1>6, <1>t, <2>1, <2>2, DoFine DEF LogTransition
<1>7. ASSUME NEW p \in Proc, NEW o \in Outcome \cup {"pass"}, Work(p, o) PROVE DispatchInv'
  <2>r. raised' \subseteq Node \X Nat
    BY <1>7, <1>t, AnswerRaisesFine DEF Work
  <2>1. PICK u \in Task : u = Raised(task[p]) /\ TaskInv(u)
    BY <1>t, RaisedFine
  <2>2. PICK w \in Task : w = [task[p] EXCEPT !.at = "settle", !.to = "agent_unavailable"]
    BY <1>t DEF Task, Phase, Status
  <2>3. PICK x \in Task : x = [task[p] EXCEPT !.at = "settle", !.to = "blocked"]
    BY <1>t DEF Task, Phase, Status
  <2>4. TaskInv(w) /\ TaskInv(x)
    BY <1>t, <2>2, <2>3 DEF TaskInv, Task
  <2>5. CASE o \in {"unavailable", "invalid", "malformed"}
    <3>1. Do(p, u) \/ Do(p, w) \/ Do(p, x)
      BY <1>7, <2>1, <2>2, <2>3, <2>5 DEF Work
    <3> QED
      BY <1>7, <1>t, <2>r, <2>1, <2>4, <3>1, DoFine DEF Work
  <2>6. CASE o \notin {"unavailable", "invalid", "malformed"}
    <3>1. o \in Verdict
      BY <2>6, DispatchAssumption DEF Outcomes, Verdict
    <3>2. PICK y \in Task : y = [task[p] EXCEPT !.at = "persist", !.to = o]
      BY <1>t, <3>1 DEF Task, Phase, Status, Verdict
    <3>3. TaskInv(y)
      BY <1>t, <3>1, <3>2 DEF TaskInv, Task
    <3>4. Do(p, y)
      BY <1>7, <2>6, <3>2 DEF Work
    <3> QED
      BY <1>7, <1>t, <2>r, <3>3, <3>4, DoFine DEF Work
  <2> QED
    BY <2>5, <2>6
<1>8. ASSUME NEW p \in Proc, Settle(p) \/ ApplyResult(p) PROVE DispatchInv'
  <2>1. task[p].at \in {"settle", "apply"}
    BY <1>8 DEF Settle, ApplyResult
  <2>2. PICK t \in Task : t = MoveIfRunning(task[p]) /\ TaskInv(t)
    BY <1>t, <2>1, MoveIfRunningFine
  <2> QED
    BY <1>8, <1>t, <2>2, DoFine DEF Settle, ApplyResult
<1>9. ASSUME NEW p \in Proc, Persist(p) \/ PersistRaises(p) PROVE DispatchInv'
  <2>1. task[p].to \in Verdict
    BY <1>9, <1>t DEF Persist, PersistRaises, TaskInv
  <2>2. PICK r \in Result : r = [node |-> task[p].node, status |-> task[p].to,
                                 session |-> task[p].session]
    BY <1>t, <2>1 DEF Task, Result
  <2>3. /\ results' = results \cup {r}
        /\ UNCHANGED <<status, started, completed, claims, moves, faults>>
    BY <1>9, <2>2 DEF Persist, PersistRaises
  <2>4. CASE Persist(p)
    <3>1. PICK t \in Task : t = [task[p] EXCEPT !.at = "submit"]
      BY <1>t DEF Task, Phase
    <3>2. t.node = r.node /\ t.to = r.status /\ t.at = "submit"
      BY <1>t, <2>2, <3>1 DEF Task
    <3>3. TaskInv(t)'
      BY <2>1, <2>2, <2>3, <3>2 DEF TaskInv, HasResult
    <3> QED
      BY <1>t, <2>3, <2>4, <3>1, <3>3, ResultFine DEF Persist
  <2>5. CASE PersistRaises(p)
    <3>1. PICK u \in Task : u = Raised(task[p]) /\ TaskInv(u)
      BY <1>t, RaisedFine
    <3>2. TaskInv(u)'
      BY <2>3, <3>1 DEF TaskInv, HasResult
    <3>3. Do(p, u) /\ raised' \subseteq Node \X Nat
      BY <1>t, <2>5, <3>1, AnswerRaisesFine DEF PersistRaises
    <3> QED
      BY <2>3, <3>2, <3>3, ResultFine
  <2> QED
    BY <1>9, <2>4, <2>5
<1>10. ASSUME NEW p \in Proc, SubmitEvent(p) PROVE DispatchInv'
  <2>1. PICK t \in Task : t = [task[p] EXCEPT !.at = "apply"]
    BY <1>t DEF Task, Phase
  <2>2. TaskInv(t)
    BY <1>10, <1>t, <2>1 DEF SubmitEvent, TaskInv, Task
  <2> QED
    BY <1>10, <1>t, <2>1, <2>2, DoFine DEF SubmitEvent
<1>11. ASSUME NEW p \in Proc, CompleteSession(p) PROVE DispatchInv'
  <2>1. PICK t \in Task : t = [task[p] EXCEPT !.at = "gates"]
    BY <1>t DEF Task, Phase
  <2>2. TaskInv(t)
    BY <1>t, <2>1 DEF TaskInv, Task
  <2>3. task[p].session \in Nat
    BY <1>t DEF Task
  <2> QED
    BY <1>11, <1>t, <2>1, <2>2, <2>3, DoFine DEF CompleteSession
<1>12. ASSUME NEW p \in Proc, EvaluateGates(p) PROVE DispatchInv'
  <2>1. PICK t \in Task : t = Proceed(task[p].queue, task[p].provider) /\ TaskInv(t)
    BY <1>t, ProceedFine DEF Task
  <2> QED
    BY <1>12, <1>t, <2>1, DoFine DEF EvaluateGates
<1>13. ASSUME NEW p \in Proc, LoseAppend(p) \/ Die(p) PROVE DispatchInv'
  <2>1. PICK u \in Task : u = Raised(task[p]) /\ TaskInv(u)
    BY <1>t, RaisedFine
  <2>2. PICK w \in Task : w = Idle /\ TaskInv(w)
    BY IdleFine
  <2>3. Do(p, u) \/ Do(p, w)
    BY <1>13, <2>1, <2>2 DEF LoseAppend, Die
  <2>4. /\ UNCHANGED <<status, results, started, completed, claims, raised, moves>>
        /\ faults' = faults + 1
    BY <1>13 DEF LoseAppend, Die
  <2> QED
    BY <1>t, <2>1, <2>2, <2>3, <2>4, DoFine
<1>14. ASSUME NEW n \in Node, NEW to \in Status, MoveNode(n, to) PROVE DispatchInv'
  <2>1. status' \in [Node -> Status] /\ VerdictHasResult'
    BY <1>14, MoveFine DEF MoveNode
  <2>2. TypeOK'
    BY <1>14, <1>t, <2>1 DEF MoveNode, TypeOK
  <2>3. \A q \in Proc : TaskInv(task[q])'
    BY <1>14, <1>t DEF MoveNode, TaskInv, HasResult
  <2> QED
    BY <2>1, <2>2, <2>3 DEF DispatchInv
<1>15. CASE UNCHANGED vars
  BY <1>15 DEF vars, DispatchInv, TypeOK, VerdictHasResult, TaskInv, HasResult
<1> QED
  BY <1>1, <1>2, <1>3, <1>4, <1>5, <1>6, <1>7, <1>8, <1>9, <1>10, <1>11, <1>12, <1>13, <1>14,
     <1>15 DEF Next, SessionStep

\* Where tasks stand, and that verdicts have results, holds for any number of
\* dispatchers and nodes.
THEOREM DispatchInvariant == Spec => []DispatchInv
<1>1. Init => DispatchInv
  BY DispatchInvInit
<1>2. DispatchInv /\ [Next]_vars => DispatchInv'
  BY DispatchInvNext
<1> QED
  BY <1>1, <1>2, PTL DEF Spec

\* A node that has passed or failed always has a stored result that says so:
\* persist_agent_result comes before apply_agent_result.
THEOREM VerdictAlwaysHasResult == Spec => []VerdictHasResult
<1>1. DispatchInv => VerdictHasResult
  BY DEF DispatchInv
<1> QED
  BY <1>1, DispatchInvariant, PTL

\* A step never reopens a canceled, stale or done node.
LEMMA ClosedStaysClosedNext ==
    DispatchInv /\ [Next]_vars
    => [\A n \in Node : status[n] \in Closed => status'[n] \in Closed]_vars
<1> SUFFICES ASSUME DispatchInv, Next, NEW n \in Node, status[n] \in Closed
             PROVE  status'[n] \in Closed
  OBVIOUS
<1>1. \A to \in Status : Allowed(status[n], to) => to \in Closed
  BY DEF Allowed, AllowedTransitions, Closed, Status
<1>2. status \in [Node -> Status] /\ \A p \in Proc : task[p] \in Task /\ TaskInv(task[p])
  BY DEF DispatchInv, TypeOK
<1>3. CASE \E p \in Proc : Update(p)
  <2>1. PICK p \in Proc : Update(p)
    BY <1>3
  <2>2. task[p].to \in Status /\ Allowed(task[p].from, task[p].to)
    BY <1>2, <2>1 DEF Update, TaskInv, Task
  <2>3. task[p].node = n /\ Matches(task[p]) => task[p].from = status[n]
    BY DEF Matches
  <2> QED
    BY <1>1, <1>2, <2>1, <2>2, <2>3 DEF Update
<1>4. CASE \E m \in Node, to \in Status : MoveNode(m, to)
  BY <1>1, <1>2, <1>4 DEF MoveNode
<1>5. CASE UNCHANGED status
  BY <1>5
<1>6. (\E p \in Proc : Update(p)) \/ (\E m \in Node, to \in Status : MoveNode(m, to))
      \/ UNCHANGED status
  BY DEF Next, SessionStep, Select, StartSession, Look, Check, LogTransition, Work, Settle,
         Persist, PersistRaises, SubmitEvent, ApplyResult, CompleteSession, EvaluateGates, LoseAppend, Die
<1> QED
  BY <1>3, <1>4, <1>5, <1>6

\* However late an agent answers, a node that was canceled, made stale or done
\* in the meantime stays so, for any number of dispatchers and nodes.
THEOREM ClosedNodesStayClosed == Spec => ClosedStaysClosed
<1>1. DispatchInv /\ [Next]_vars
      => [\A n \in Node : status[n] \in Closed => status'[n] \in Closed]_vars
  BY ClosedStaysClosedNext
<1> QED
  BY <1>1, DispatchInvariant, PTL DEF Spec, ClosedStaysClosed

\* NodeMachine's table is this module's.
LEMMA SameTable ==
    /\ Machine!Status = Status
    /\ \A from, to : Machine!Allowed(from, to) <=> Allowed(from, to)
<1>1. Machine!Status = Status
  BY DEF Machine!Status, Status
<1>2. Machine!AllowedTransitions = AllowedTransitions
  BY <1>1 DEF Machine!AllowedTransitions, AllowedTransitions
<1> QED
  BY <1>1, <1>2 DEF Machine!Allowed, Allowed

\* Dispatchers, fallbacks, late answers and operators together never move a node but along an
\* allowed transition: what a dispatcher has looked at may be old, what its UPDATE asks for is
\* what the transition was checked for (node_repository.py).
THEOREM DispatchImplementsMachine == Spec => ImplementsMachine
<1>1. Init => Machine!Init
  BY SameTable, DispatchAssumption DEF Init, Machine!Init
<1>2. DispatchInv /\ [Next]_vars => [Machine!Next]_status
  <2> SUFFICES ASSUME DispatchInv, [Next]_vars
               PROVE  Machine!Next \/ UNCHANGED status
    OBVIOUS
  <2>1. status \in [Node -> Status] /\ \A p \in Proc : task[p] \in Task /\ TaskInv(task[p])
    BY DEF DispatchInv, TypeOK
  <2>2. ASSUME NEW n \in Node, NEW to \in Status, Allowed(status[n], to),
               status' = [status EXCEPT ![n] = to]
        PROVE  Machine!Next
    <3>1. Machine!Move(n, to)
      BY <2>1, <2>2, SameTable DEF Machine!Move
    <3> QED
      BY <3>1, SameTable DEF Machine!Next
  <2>3. ASSUME NEW p \in Proc, Update(p)
        PROVE  Machine!Next \/ UNCHANGED status
    <3>1. /\ task[p].node \in Node /\ task[p].to \in Status
          /\ Allowed(task[p].from, task[p].to)
      BY <2>1, <2>3 DEF Update, TaskInv, Task
    <3>2. CASE Matches(task[p])
      <4>1. status[task[p].node] = task[p].from
        BY <3>2 DEF Matches
      <4>2. status' = [status EXCEPT ![task[p].node] = task[p].to]
        BY <2>3, <3>2 DEF Update
      <4> QED
        BY <2>2, <3>1, <4>1, <4>2
    <3>3. CASE ~Matches(task[p])
      BY <2>3, <3>3 DEF Update
    <3> QED
      BY <3>2, <3>3
  <2>4. ASSUME NEW n \in Node, NEW to \in Status, MoveNode(n, to)
        PROVE  Machine!Next
    BY <2>2, <2>4 DEF MoveNode
  <2>5. (\E p \in Proc : Update(p)) \/ (\E n \in Node, to \in Status : MoveNode(n, to))
        \/ UNCHANGED status
    BY DEF Next, SessionStep, Select, StartSession, Look, Check, LogTransition, Work, Settle, Persist,
       PersistRaises, SubmitEvent, ApplyResult, CompleteSession, EvaluateGates, LoseAppend, Die, vars
  <2> QED
    BY <2>3, <2>4, <2>5
<1> QED
  BY <1>1, <1>2, DispatchInvariant, PTL DEF Spec, ImplementsMachine, Machine!Spec

-----------------------------------------------------------------------------
(***************************************************************************)
(* One process at a time.                                                  *)
(***************************************************************************)

\* Fewer nodes are within the limits if more are.
LEMMA FewerWithinLimits ==
    ASSUME NEW T \in SUBSET Node, NEW S \in SUBSET T, WithinLimits(T)
    PROVE  WithinLimits(S)
<1>1. \A U \in SUBSET Node : IsFiniteSet(U) /\ Cardinality(U) \in Nat
  BY DispatchAssumption, FS_Subset, FS_CardinalityType
<1>2. \A U \in SUBSET Node : \A V \in SUBSET U : Cardinality(V) <= Cardinality(U)
  BY <1>1, FS_Subset
<1>3. \E limit \in Limits : Cardinality(S) <= limit
  <2>1. PICK limit \in Limits : Cardinality(T) <= limit
    BY DEF WithinLimits
  <2> QED
    BY <1>1, <1>2, <2>1, DispatchAssumption
<1>4. ASSUME NEW n \in Node PROVE Count(S, Owner[n]) <= AgentLimit
  <2>1. /\ {m \in S : Owner[m] = Owner[n]} \in SUBSET {m \in T : Owner[m] = Owner[n]}
        /\ {m \in T : Owner[m] = Owner[n]} \in SUBSET Node
    OBVIOUS
  <2>2. Count(S, Owner[n]) <= Count(T, Owner[n])
    BY <1>2, <2>1 DEF Count
  <2>3. Count(T, Owner[n]) <= AgentLimit
    BY DEF WithinLimits
  <2>4. Count(S, Owner[n]) \in Nat /\ Count(T, Owner[n]) \in Nat
    BY <1>1, <2>1 DEF Count
  <2> QED
    BY <2>2, <2>3, <2>4, DispatchAssumption
<1> QED
  BY <1>3, <1>4 DEF WithinLimits

\* The candidates of a command are within the limits together with the nodes
\* that run when it selects them.
LEMMA CandidatesFit ==
    ASSUME LimitsHold, NEW limit \in Limits, Candidates(limit) # {}
    PROVE  WithinLimits(Running \cup Candidates(limit))
<1> DEFINE C == Candidates(limit)
<1>1. C \subseteq Eligible /\ Eligible \subseteq Ready /\ Ready \subseteq Node /\ Running \subseteq Node
  BY DEF Candidates, Eligible, Ready, Running
<1>2. \A U \in SUBSET Node : IsFiniteSet(U) /\ Cardinality(U) \in Nat
  BY DispatchAssumption, FS_Subset, FS_CardinalityType
<1>3. \A U \in SUBSET Node : \A V \in SUBSET U : Cardinality(V) <= Cardinality(U)
  BY <1>2, FS_Subset
<1>4. ASSUME NEW U \in SUBSET Node, NEW x \in Node
      PROVE  Cardinality(U \cup {x}) <= Cardinality(U) + 1
  <2>1. IsFiniteSet(U) /\ Cardinality(U) \in Nat
    BY <1>2
  <2>2. Cardinality(U \cup {x}) = IF x \in U THEN Cardinality(U) ELSE Cardinality(U) + 1
    BY <2>1, FS_AddElement
  <2> QED
    BY <2>1, <2>2
<1>5. \A m, n \in Node : Rank[n] <= Rank[m] => n = m \/ Rank[n] < Rank[m]
  BY DispatchAssumption
<1>6. Cardinality(Running \cup C) <= limit
  <2>1. PICK m \in C : \A n \in C : Rank[n] <= Rank[m]
    BY <1>1, LastExists
  <2> DEFINE B == Before(Eligible, m)
  <2>2. B \in SUBSET Node /\ C \subseteq B \cup {m}
    BY <1>1, <1>5, <2>1 DEF Before
  <2>3. Cardinality(Running) + Cardinality(B) < limit
    BY DEF Candidates
  <2> HIDE DEF B, C
  <2>4. Cardinality(Running \cup B) <= Cardinality(Running) + Cardinality(B)
    <3>1. Cardinality(Running \cup B) =
            Cardinality(Running) + Cardinality(B) - Cardinality(Running \cap B)
      BY <1>1, <1>2, <2>2, FS_Union
    <3>2. Running \cap B \in SUBSET Node
      BY <1>1
    <3> QED
      BY <1>1, <1>2, <2>2, <3>1, <3>2
  <2>5. Running \cup B \in SUBSET Node /\ m \in Node
        /\ Running \cup C \in SUBSET (Running \cup B \cup {m})
    BY <1>1, <2>1, <2>2 DEF C
  <2>6. /\ Cardinality(Running \cup C) <= Cardinality(Running \cup B \cup {m})
        /\ Cardinality(Running \cup B \cup {m}) <= Cardinality(Running \cup B) + 1
    BY <1>3, <1>4, <2>5
  <2>7. /\ Cardinality(Running) \in Nat /\ Cardinality(B) \in Nat /\ limit \in Nat
        /\ Cardinality(Running \cup B) \in Nat /\ Cardinality(Running \cup C) \in Nat
        /\ Cardinality(Running \cup B \cup {m}) \in Nat
    BY <1>1, <1>2, <2>2, <2>5, DispatchAssumption
  <2> HIDE DEF Running
  <2> QED
    BY <2>3, <2>4, <2>6, <2>7
<1>7. ASSUME NEW o \in Node PROVE Count(Running \cup C, Owner[o]) <= AgentLimit
  <2> DEFINE Of(S) == {n \in S : Owner[n] = Owner[o]}
  <2>1. CASE Of(C) = {}
    <3>1. Of(Running \cup C) = Of(Running)
      BY <2>1
    <3> QED
      BY <3>1 DEF Count, LimitsHold, WithinLimits
  <2>2. CASE Of(C) # {}
    <3>1. Of(C) \in SUBSET Node
      BY <1>1
    <3>2. PICK m \in Of(C) : \A n \in Of(C) : Rank[n] <= Rank[m]
      <4> HIDE DEF Of
      <4> QED
        BY <2>2, <3>1, LastExists
    <3> DEFINE B == Running \cup Before(Ready, m)
    <3>3. Count(B, Owner[o]) < AgentLimit
      BY <1>1, <3>2 DEF Eligible
    <3>4. B \in SUBSET Node /\ m \in Node /\ m \in C
      BY <1>1, <3>2 DEF Before
    <3>5. ASSUME NEW n \in Of(Running \cup C), n # m PROVE n \in Of(B)
      <4>1. CASE n \in C
        BY <1>1, <1>5, <3>2, <3>5, <4>1 DEF Before
      <4> QED
        BY <3>5, <4>1
    <3>6. Of(Running \cup C) \in SUBSET (Of(B) \cup {m})
      BY <3>5
    <3>7. Of(B) \in SUBSET Node /\ Of(B) \cup {m} \in SUBSET Node /\ Of(Running \cup C) \in SUBSET Node
      BY <1>1, <3>4
    <3>8. Count(B, Owner[o]) = Cardinality(Of(B))
          /\ Count(Running \cup C, Owner[o]) = Cardinality(Of(Running \cup C))
      BY DEF Count
    <3> HIDE DEF Of, B, C
    <3>9. /\ Cardinality(Of(Running \cup C)) <= Cardinality(Of(B) \cup {m})
          /\ Cardinality(Of(B) \cup {m}) <= Cardinality(Of(B)) + 1
      BY <1>3, <1>4, <3>4, <3>6, <3>7
    <3> QED
      BY <1>2, <3>3, <3>7, <3>8, <3>9, DispatchAssumption
  <2> QED
    BY <2>1, <2>2
<1> QED
  BY <1>6, <1>7 DEF WithinLimits

\* What a step makes of a process's work when it neither selects nor updates:
\* the command ends, goes on to the next candidate, or stays with its node.
Continues(t, u) ==
    /\ t.at # "idle"
    /\ \/ u = Idle
       \/ u = Proceed(t.queue, t.provider)
       \/ /\ u.at # "idle"
          /\ u.node = t.node /\ u.queue = t.queue /\ u.claim = t.claim
          /\ u.at \in {"check", "update"} =>
                \/ u.from = "running" \/ u.to = "running"
                \/ t.at = "check" /\ u.from = t.from /\ u.to = t.to

\* Every step is a selection, an UPDATE, somebody else's, or one of those.
LEMMA StepShape ==
    ASSUME DispatchInv, Next
    PROVE  \/ \E p \in Proc, limit \in Limits, provider \in Provider : Select(p, limit, provider)
           \/ \E p \in Proc : Update(p)
           \/ \E n \in Node, to \in Status : MoveNode(n, to)
           \/ /\ UNCHANGED <<status, claims>>
              /\ \E p \in Proc : \E u : Do(p, u) /\ Continues(task[p], u)
<1> DEFINE Goes(p) == UNCHANGED <<status, claims>> /\ \E u : Do(p, u) /\ Continues(task[p], u)
<1>t. \A p \in Proc : task[p] \in Task
  BY DEF DispatchInv, TypeOK
<1>r. ASSUME NEW t \in Task, t.at # "idle" PROVE Continues(t, Raised(t))
  BY <1>r DEF Continues, Raised, Task
<1>m. ASSUME NEW t \in Task, t.at # "idle" PROVE Continues(t, MoveIfRunning(t))
  BY <1>m DEF Continues, MoveIfRunning, Task
<1>1. ASSUME NEW p \in Proc, StartSession(p) PROVE Goes(p)
  <2> DEFINE u == [task[p] EXCEPT !.at = "look", !.session = started + 1]
  <2>1. Continues(task[p], u)
    BY <1>1, <1>t DEF StartSession, Continues, Task
  <2> QED
    BY <1>1, <2>1 DEF StartSession
<1>2. ASSUME NEW p \in Proc, Look(p) PROVE Goes(p)
  <2> DEFINE u == [task[p] EXCEPT !.at = "check", !.from = "ready", !.to = "running"]
             w == [task[p] EXCEPT !.at = "work"]
  <2>1. Continues(task[p], u) /\ Continues(task[p], w)
    BY <1>2, <1>t DEF Look, Continues, Task
  <2>2. Do(p, u) \/ Do(p, w)
    BY <1>2 DEF Look
  <2> HIDE DEF u, w
  <2> QED
    BY <1>2, <2>1, <2>2 DEF Look
<1>3. ASSUME NEW p \in Proc, Check(p) PROVE Goes(p)
  <2>1. CASE status[task[p].node] = task[p].from
    BY <1>3, <1>t, <2>1 DEF Check, Continues, Task
  <2>2. CASE status[task[p].node] # task[p].from
    BY <1>3, <1>t, <1>r, <2>2 DEF Check
  <2> QED
    BY <2>1, <2>2
<1>4. ASSUME NEW p \in Proc, LogTransition(p) PROVE Goes(p)
  BY <1>4, <1>t DEF LogTransition, Continues, Task
<1>5. ASSUME NEW p \in Proc, NEW o \in Outcome \cup {"pass"}, Work(p, o) PROVE Goes(p)
  <2>1. CASE o = "malformed"
    BY <1>5, <1>t, <1>r, <2>1 DEF Work
  <2>2. CASE o # "malformed"
    <3> DEFINE Goal(at, to) == [task[p] EXCEPT !.at = at, !.to = to]
    <3>1. \A at \in {"settle", "persist"}, to \in Status : Continues(task[p], Goal(at, to))
      BY <1>5, <1>t DEF Work, Continues, Task
    <3>2. o \in {"unavailable", "invalid"} \cup Verdict
      BY <2>2, DispatchAssumption DEF Outcomes, Verdict
    <3>3. \E at \in {"settle", "persist"}, to \in Status : Do(p, Goal(at, to))
      BY <1>5, <2>2, <3>2 DEF Work, Verdict, Status
    <3> HIDE DEF Goal
    <3> QED
      BY <1>5, <3>1, <3>3 DEF Work
  <2> QED
    BY <2>1, <2>2
<1>6. ASSUME NEW p \in Proc, Settle(p) \/ ApplyResult(p) PROVE Goes(p)
  BY <1>6, <1>t, <1>m DEF Settle, ApplyResult
<1>7. ASSUME NEW p \in Proc, Persist(p) \/ SubmitEvent(p) \/ CompleteSession(p) PROVE Goes(p)
  BY <1>7, <1>t DEF Persist, SubmitEvent, CompleteSession, Continues, Task
<1>8. ASSUME NEW p \in Proc, PersistRaises(p) PROVE Goes(p)
  BY <1>8, <1>t, <1>r DEF PersistRaises
<1>9. ASSUME NEW p \in Proc, EvaluateGates(p) PROVE Goes(p)
  BY <1>9 DEF EvaluateGates, Continues
<1>10. ASSUME NEW p \in Proc, LoseAppend(p) \/ Die(p) PROVE Goes(p)
  <2>1. task[p].at # "idle" /\ UNCHANGED <<status, claims>>
    BY <1>10 DEF LoseAppend, Die
  <2>2. Do(p, Raised(task[p])) \/ Do(p, Idle)
    BY <1>10 DEF LoseAppend, Die
  <2>3. Continues(task[p], Idle)
    BY <2>1 DEF Continues
  <2> QED
    BY <1>t, <1>r, <2>1, <2>2, <2>3
<1> HIDE DEF Goes
<1>11. \/ \E p \in Proc, limit \in Limits, provider \in Provider : Select(p, limit, provider)
       \/ \E p \in Proc : Update(p)
       \/ \E n \in Node, to \in Status : MoveNode(n, to)
       \/ \E p \in Proc : Goes(p)
  BY <1>1, <1>2, <1>3, <1>4, <1>5, <1>6, <1>7, <1>8, <1>9, <1>10 DEF Next, SessionStep
<1> QED
  BY <1>11 DEF Goes

\* The work of a command that goes on with its queue.
LEMMA ProceedShape ==
    ASSUME NEW queue \in SUBSET Node, NEW provider \in Provider
    PROVE  LET u == Proceed(queue, provider)
           IN  /\ queue = {} => u.at = "idle"
               /\ queue # {} => /\ u.at = "open" /\ u.node = First(queue) /\ u.node \in queue
                                /\ u.queue = queue \ {First(queue)}
               /\ Taken(u) = queue
<1>1. Idle \in Task /\ Idle.at = "idle"
  BY IdleFine DEF Idle
<1>2. CASE queue = {}
  BY <1>1, <1>2 DEF Proceed, Taken
<1>3. CASE queue # {}
  <2>1. First(queue) \in queue
    BY <1>3, FirstIsMember
  <2> DEFINE u == [Idle EXCEPT !.at = "open", !.node = First(queue),
                               !.queue = queue \ {First(queue)}, !.provider = provider]
  <2>2. Proceed(queue, provider) = u
    BY <1>3 DEF Proceed
  <2>3. u.at = "open" /\ u.node = First(queue) /\ u.queue = queue \ {First(queue)}
    BY <1>1 DEF Task
  <2> HIDE DEF u
  <2> QED
    BY <1>3, <2>1, <2>2, <2>3 DEF Taken
<1> QED
  BY <1>2, <1>3

\* A step of one process at a time keeps what it claims.
LEMMA OwnClaimsStep ==
    ASSUME \A p, q \in Proc : p = q, DispatchInv, OwnClaims, [Next]_vars
    PROVE  OwnClaims'
<1>t. /\ task \in [Proc -> Task] /\ status \in [Node -> Status] /\ claims \in [Node -> Nat]
      /\ \A p \in Proc : task[p].queue \in SUBSET Node /\ task[p].node \in Node
                         /\ task[p].provider \in Provider
  BY DEF DispatchInv, TypeOK, Task
<1>s. ASSUME NEW p \in Proc, NEW u, Do(p, u), ClaimInv(u)' PROVE OwnClaims'
  BY <1>t, <1>s DEF Do, OwnClaims
<1>1. ASSUME NEW queue \in SUBSET Node, NEW provider \in Provider, UNCHANGED status,
             \A n \in queue : status[n] # "running"
      PROVE  ClaimInv(Proceed(queue, provider))'
  <2> DEFINE u == Proceed(queue, provider)
  <2>1. /\ queue = {} => u.at = "idle"
        /\ queue # {} => /\ u.at = "open" /\ u.node = First(queue) /\ u.node \in queue
                         /\ u.queue = queue \ {First(queue)}
    BY ProceedShape
  <2> HIDE DEF u
  <2>2. ClaimInv(u)'
    BY <1>1, <2>1 DEF ClaimInv
  <2> QED
    BY <2>2 DEF u
<1>2. ASSUME NEW p \in Proc, NEW limit \in Limits, NEW provider \in Provider,
             Select(p, limit, provider)
      PROVE  OwnClaims'
  <2>1. PICK queue \in SUBSET Node : queue = Candidates(limit)
    BY DEF Candidates, Eligible, Ready
  <2>2. \A n \in queue : status[n] # "running"
    BY <2>1 DEF Candidates, Eligible, Ready
  <2>3. UNCHANGED status /\ Do(p, Proceed(queue, provider))
    BY <1>2, <2>1 DEF Select
  <2>4. ClaimInv(Proceed(queue, provider))'
    BY <1>1, <2>2, <2>3
  <2> QED
    BY <1>s, <2>3, <2>4
<1>3. ASSUME NEW p \in Proc, Update(p) PROVE OwnClaims'
  <2>1. PICK t \in Task : t = task[p]
    BY <1>t DEF DispatchInv, TypeOK
  <2>2. PICK claim : claim = IF Matches(t) /\ t.to = "running" THEN claims[t.node] + 1 ELSE t.claim
    OBVIOUS
  <2>3. PICK u : u = [t EXCEPT !.at = "log", !.claim = claim]
    OBVIOUS
  <2>4. t.at = "update" /\ ClaimInv(t) /\ Do(p, u)
    BY <1>3, <1>t, <2>1, <2>2, <2>3 DEF Update, OwnClaims
  <2>5. u.at = "log" /\ u.node = t.node /\ u.queue = t.queue /\ u.claim = claim
    BY <2>3 DEF Task
  <2>6. /\ t.node \notin t.queue /\ t.node \in Node /\ t.queue \in SUBSET Node
        /\ \A n \in t.queue : status[n] # "running"
        /\ status[t.node] = "running" => t.claim = claims[t.node]
    BY <1>t, <2>1, <2>4 DEF ClaimInv
  <2>7. \A n \in t.queue : status'[n] # "running"
    BY <1>3, <1>t, <2>1, <2>6 DEF Update
  <2>8. status'[t.node] = "running" => claim = claims'[t.node]
    BY <1>3, <1>t, <2>1, <2>2, <2>6 DEF Update
  <2>9. ClaimInv(u)'
    BY <2>5, <2>6, <2>7, <2>8 DEF ClaimInv
  <2> QED
    BY <1>s, <2>4, <2>9
<1>4. ASSUME NEW n \in Node, NEW to \in Status, MoveNode(n, to) PROVE OwnClaims'
  BY <1>4, <1>t DEF MoveNode, OwnClaims, ClaimInv
<1>5. ASSUME NEW p \in Proc, NEW u, Do(p, u), Continues(task[p], u), UNCHANGED <<status, claims>>
      PROVE  OwnClaims'
  <2>1. ClaimInv(task[p]) /\ task[p].at # "idle"
    BY <1>5 DEF OwnClaims, Continues
  <2>2. CASE u = Idle
    BY <1>s, <1>5, <2>2 DEF ClaimInv, Idle
  <2>3. CASE u = Proceed(task[p].queue, task[p].provider)
    <3>1. PICK queue \in SUBSET Node, provider \in Provider :
             queue = task[p].queue /\ provider = task[p].provider
      BY <1>t
    <3>2. \A n \in queue : status[n] # "running"
      BY <2>1, <3>1 DEF ClaimInv
    <3>3. ClaimInv(Proceed(queue, provider))'
      BY <1>1, <1>5, <3>2
    <3>4. Do(p, Proceed(queue, provider))
      BY <1>5, <2>3, <3>1
    <3> QED
      BY <1>s, <3>3, <3>4
  <2>4. CASE u # Idle /\ u # Proceed(task[p].queue, task[p].provider)
    <3>1. ClaimInv(u)'
      BY <1>5, <2>1, <2>4 DEF Continues, ClaimInv
    <3> QED
      BY <1>s, <1>5, <3>1
  <2> QED
    BY <2>2, <2>3, <2>4
<1>6. CASE UNCHANGED vars
  BY <1>6 DEF vars, OwnClaims, ClaimInv
<1>7. CASE Next
  BY <1>7, <1>2, <1>3, <1>4, <1>5, StepShape
<1> QED
  BY <1>6, <1>7

\* Every node gets its verdict from the session that claimed it last, when one
\* process works at a time, however late its answer and whoever else moves it.
THEOREM VerdictsOfOwnClaims ==
    ASSUME \A p, q \in Proc : p = q
    PROVE  Spec => VerdictOfOwnClaim
<1> DEFINE Own(p) ==
      task[p].at = "update" /\ task'[p].at = "log" /\ status' # status /\ task[p].to \in Verdict
      => task[p].claim = claims[task[p].node] /\ status[task[p].node] = "running"
<1>1. Init => OwnClaims
  BY DEF Init, OwnClaims, ClaimInv, Idle
<1>2. DispatchInv /\ OwnClaims /\ [Next]_vars => OwnClaims'
  BY OwnClaimsStep
<1>3. DispatchInv /\ OwnClaims /\ [Next]_vars => [\A p \in Proc : Own(p)]_vars
  <2> SUFFICES ASSUME DispatchInv, OwnClaims, Next, NEW p \in Proc,
                      task[p].at = "update", task'[p].at = "log", status' # status,
                      task[p].to \in Verdict
               PROVE  task[p].claim = claims[task[p].node] /\ status[task[p].node] = "running"
    OBVIOUS
  <2>1. Update(p)
    BY StepShape DEF Select, MoveNode
  <2>2. ClaimInv(task[p]) /\ status[task[p].node] = task[p].from
    BY <2>1 DEF OwnClaims, Update, Matches
  <2> QED
    BY <2>2 DEF ClaimInv, Verdict
<1> QED
  BY <1>1, <1>2, <1>3, DispatchInvariant, PTL DEF Spec, VerdictOfOwnClaim

\* A step of one process at a time keeps what runs, or is about to, within the
\* limits.
LEMMA LimitStep ==
    ASSUME \A p, q \in Proc : p = q, DispatchInv, LimitInv, [Next]_vars
    PROVE  LimitInv'
<1>t. /\ task \in [Proc -> Task] /\ status \in [Node -> Status]
      /\ \A p \in Proc : task[p].queue \in SUBSET Node /\ task[p].node \in Node
                         /\ task[p].provider \in Provider
  BY DEF DispatchInv, TypeOK, Task
<1>k. \A p \in Proc : Taken(task[p]) \in SUBSET Node
  BY <1>t DEF Taken
<1>r. Running \in SUBSET Node /\ Running' \in SUBSET Node
  BY DEF Running
<1>s. ASSUME NEW p \in Proc, NEW S \in SUBSET Node, WithinLimits(S),
             Running' \subseteq S, Taken(task'[p]) \subseteq S
      PROVE  LimitInv'
  <2>1. Running' \in SUBSET S /\ Running' \cup Taken(task'[p]) \in SUBSET S
    BY <1>s
  <2>2. WithinLimits(Running') /\ WithinLimits(Running' \cup Taken(task'[p]))
    BY <1>s, <2>1, FewerWithinLimits
  <2>3. \A q \in Proc : q = p
    OBVIOUS
  <2> QED
    BY <2>2, <2>3 DEF LimitInv, LimitsHold, WithinLimits, Count
<1>1. ASSUME NEW p \in Proc, NEW limit \in Limits, NEW provider \in Provider,
             Select(p, limit, provider)
      PROVE  LimitInv'
  <2>1. PICK queue \in SUBSET Node : queue = Candidates(limit)
    BY DEF Candidates, Eligible, Ready
  <2>2. UNCHANGED status /\ Do(p, Proceed(queue, provider)) /\ queue # {}
    BY <1>1, <2>1 DEF Select
  <2>3. WithinLimits(Running \cup queue)
    BY <2>1, <2>2, CandidatesFit DEF LimitInv
  <2>4. task'[p] = Proceed(queue, provider) /\ Running' = Running
    BY <1>t, <2>2 DEF Do, Running
  <2>5. Taken(task'[p]) = queue
    BY <2>4, ProceedShape
  <2> QED
    BY <1>s, <1>r, <2>3, <2>4, <2>5
<1>2. ASSUME NEW p \in Proc, Update(p) PROVE LimitInv'
  <2>1. task[p].at = "update" /\ task[p] \in Task
    BY <1>2, <1>t DEF Update
  <2>2. task'[p].at = "log" /\ task'[p].queue = task[p].queue /\ task'[p].node = task[p].node
    BY <1>2, <1>t, <2>1 DEF Update, Do, Task
  <2>3. Taken(task'[p]) = Taken(task[p]) /\ task[p].node \in Taken(task[p])
    BY <2>1, <2>2 DEF Taken
  <2>4. Running' \subseteq Running \cup {task[p].node}
    BY <1>2, <1>t DEF Update, Running
  <2> QED
    BY <1>s, <1>r, <1>k, <2>3, <2>4 DEF LimitInv
<1>3. ASSUME NEW n \in Node, NEW to \in Status, MoveNode(n, to) PROVE LimitInv'
  <2>1. Running' \in SUBSET Running /\ task' = task
    BY <1>3, <1>t DEF MoveNode, Running
  <2>2. WithinLimits(Running')
    BY <1>r, <2>1, FewerWithinLimits DEF LimitInv, LimitsHold
  <2>3. ASSUME NEW p \in Proc PROVE LimitInv'
    BY <1>s, <1>r, <1>k, <2>1 DEF LimitInv
  <2> QED
    BY <2>2, <2>3 DEF LimitInv, LimitsHold, WithinLimits, Count
<1>4. ASSUME NEW p \in Proc, NEW u, Do(p, u), Continues(task[p], u), UNCHANGED <<status, claims>>
      PROVE  LimitInv'
  <2>1. task[p].at # "idle" /\ task'[p] = u /\ Running' = Running
    BY <1>4, <1>t DEF Continues, Do, Running
  <2>2. Taken(u) \subseteq Taken(task[p])
    <3>1. Taken(Idle) = {}
      BY DEF Taken, Idle
    <3>2. Taken(Proceed(task[p].queue, task[p].provider)) \subseteq Taken(task[p])
      BY <1>t, <2>1, ProceedShape DEF Taken
    <3> QED
      BY <1>4, <2>1, <3>1, <3>2 DEF Continues, Taken
  <2> QED
    BY <1>s, <1>r, <1>k, <2>1, <2>2 DEF LimitInv
<1>5. CASE UNCHANGED vars
  BY <1>5 DEF vars, LimitInv, LimitsHold, WithinLimits, Count, Running, Taken
<1>6. CASE Next
  BY <1>6, <1>1, <1>2, <1>3, <1>4, StepShape
<1> QED
  BY <1>5, <1>6

\* One process at a time, which may die and be run again, never has more nodes
\* running than the limits of the scheduler, for any order of the list.
THEOREM LimitsAlwaysHold ==
    ASSUME \A p, q \in Proc : p = q, "running" \notin InitialStatus
    PROVE  Spec => []LimitsHold
<1>1. Init => LimitInv
  <2> SUFFICES ASSUME Init PROVE LimitInv
    OBVIOUS
  <2>1. Running = {} /\ \A p \in Proc : Taken(task[p]) = {}
    BY DEF Init, Running, Taken, Idle
  <2>2. WithinLimits({})
    <3>1. \A a : Count({}, a) = 0
      BY FS_EmptySet DEF Count
    <3>2. PICK limit \in Limits : limit \in Nat
      BY DispatchAssumption
    <3>3. Cardinality({}) <= limit
      BY <3>2, FS_EmptySet
    <3> QED
      BY <3>1, <3>3, DispatchAssumption DEF WithinLimits
  <2> QED
    BY <2>1, <2>2 DEF LimitInv, LimitsHold
<1>2. DispatchInv /\ LimitInv /\ [Next]_vars => LimitInv'
  BY LimitStep
<1>3. LimitInv => LimitsHold
  BY DEF LimitInv
<1> QED
  BY <1>1, <1>2, <1>3, DispatchInvariant, PTL DEF Spec
=============================================================================
