------------------------- MODULE NodeServiceProofs -------------------------
(***************************************************************************)
(* Nodes move only along allowed transitions, blocked nodes have a reason, *)
(* every node_status_changed event names a status its node has left, and   *)
(* no change of status goes unrecorded while nobody dies, for every number *)
(* of processes and nodes.                                                 *)
(***************************************************************************)
EXTENDS NodeService, FiniteSetTheorems, TLAPS

\* The idle call is a call.
LEMMA IdleIsCall == Idle \in Call
<1>1. (CHOOSE n \in Node : TRUE) \in Node
  BY NodeAssumption
<1> QED
  BY <1>1 DEF Idle, Call, At, Status, NoVersion

\* The initial states satisfy the invariant.
LEMMA MachineInvInit == Init => MachineInv
<1> SUFFICES ASSUME Init PROVE MachineInv
  OBVIOUS
<1>1. TypeOK
  BY IdleIsCall DEF Init, TypeOK
<1>2. CallChecked
  BY DEF Init, CallChecked, Idle
<1> QED
  BY <1>1, <1>2 DEF MachineInv

\* A step that writes one call writes it and no other.
LEMMA OneCall ==
  ASSUME TypeOK, NEW p \in Proc, NEW c, call' = [call EXCEPT ![p] = c]
  PROVE  /\ call'[p] = c
         /\ \A q \in Proc : q # p => call'[q] = call[q]
         /\ c \in Call => call' \in [Proc -> Call]
BY DEF TypeOK

\* Only CreateNode and UpdateStatus change a status.
LEMMA OtherSteps ==
  ASSUME [Next]_vars,
         ~ \E p \in Proc : UpdateStatus(p) \/ \E n \in Node : CreateNode(p, n)
  PROVE  UNCHANGED <<status, reason>>
BY DEF Next, vars, Request, TransitionNode, GetNode, GetRun, IncrementVersion,
       ReadSequence, InsertEvent, InsertFails, Crash

\* A node that has a row keeps it.
LEMMA CreatedStays ==
  ASSUME MachineInv, [Next]_vars
  PROVE  \A n \in Node : status[n] # Absent => status'[n] # Absent
<1>1. ASSUME NEW p \in Proc, NEW m \in Node, CreateNode(p, m)
      PROVE  \A n \in Node : status[n] # Absent => status'[n] # Absent
  BY <1>1 DEF CreateNode, MachineInv, TypeOK
<1>2. ASSUME NEW p \in Proc, UpdateStatus(p)
      PROVE  \A n \in Node : status[n] # Absent => status'[n] # Absent
  <2>1. call[p].to \in Status /\ call[p].to # Absent
    BY DEF MachineInv, TypeOK, Call, Status, Absent
  <2> QED
    BY <1>2, <2>1 DEF UpdateStatus, MachineInv, TypeOK
<1> QED
  BY <1>1, <1>2, OtherSteps

\* Every step keeps the types.
LEMMA TypeOKNext == MachineInv /\ [Next]_vars => TypeOK'
<1> SUFFICES ASSUME MachineInv, [Next]_vars PROVE TypeOK'
  OBVIOUS
<1> USE DEF MachineInv, TypeOK
<1>1. ASSUME NEW p \in Proc, NEW n \in Node, CreateNode(p, n) PROVE TypeOK'
  <2> DEFINE next == [Idle EXCEPT !.at = "read_seq", !.node = n]
  <2>1. next \in Call
    BY IdleIsCall DEF Call, At
  <2>2. call' = [call EXCEPT ![p] = next] /\ status' = [status EXCEPT ![n] = "todo"]
    BY <1>1 DEF CreateNode
  <2>3. call' \in [Proc -> Call] /\ status' \in [Node -> Status \cup {Absent}]
    <3> HIDE DEF next
    <3> QED
      BY <2>1, <2>2 DEF Status
  <2> QED
    BY <1>1, <2>3 DEF CreateNode
<1>2. ASSUME NEW p \in Proc, NEW n \in Node, Request(p, n) PROVE TypeOK'
  <2>1. PICK from \in {status[n], "todo"}, to \in Status, expected \in {NoVersion, version},
             coded \in BOOLEAN : TransitionNode(p, n, from, to, coded, expected)
    BY <1>2 DEF Request, Status
  <2>2. from \in Status
    BY <2>1 DEF TransitionNode, Status
  <2>3. call' \in [Proc -> Call]
    BY <2>1, <2>2, IdleIsCall DEF TransitionNode, Call, At
  <2> QED
    BY <2>1, <2>3 DEF TransitionNode
<1>3. ASSUME NEW p \in Proc, GetNode(p) PROVE TypeOK'
  <2> DEFINE next == [call[p] EXCEPT !.seen = status[call[p].node], !.at = "get_run"]
  <2>1. status[call[p].node] \in Status
    BY <1>3 DEF GetNode, CallChecked, Call
  <2>2. next \in Call
    <3>1. call[p] \in Call
      OBVIOUS
    <3> QED
      BY <2>1, <3>1 DEF Call, At
  <2>3. call' = [call EXCEPT ![p] = next]
    BY <1>3 DEF GetNode
  <2>4. call' \in [Proc -> Call]
    <3> HIDE DEF next
    <3> QED
      BY <2>2, <2>3, OneCall
  <2> QED
    BY <1>3, <2>4 DEF GetNode
<1>4. ASSUME NEW p \in Proc, GetRun(p) PROVE TypeOK'
  <2> DEFINE fails == [call[p] EXCEPT !.at = "read_seq", !.event = "transition_conflict"]
             goes == [call[p] EXCEPT !.at = "update", !.expected = NoVersion]
  <2>1. fails \in Call /\ goes \in Call
    BY DEF Call, At
  <2>2. call' = [call EXCEPT ![p] = fails] \/ call' = [call EXCEPT ![p] = goes]
    BY <1>4 DEF GetRun
  <2>3. call' \in [Proc -> Call]
    <3> HIDE DEF fails, goes
    <3> QED
      BY <2>1, <2>2
  <2> QED
    BY <1>4, <2>3 DEF GetRun
<1>5. ASSUME NEW p \in Proc, UpdateStatus(p) PROVE TypeOK'
  BY <1>5 DEF UpdateStatus, Call, At, Moves
<1>6. ASSUME NEW p \in Proc, IncrementVersion(p) PROVE TypeOK'
  <2>1. call' \in [Proc -> Call]
    <3> DEFINE next == [call[p] EXCEPT !.at = "read_seq", !.event = "node_status_changed"]
    <3>1. call[p] \in Call
      OBVIOUS
    <3>2. next \in Call
      BY <3>1 DEF Call, At
    <3>3. call' = [call EXCEPT ![p] = next]
      BY <1>6 DEF IncrementVersion
    <3> QED
      BY <3>2, <3>3
  <2> QED
    BY <1>6, <2>1 DEF IncrementVersion
<1>7. ASSUME NEW p \in Proc, ReadSequence(p) PROVE TypeOK'
  <2> DEFINE next == [call[p] EXCEPT !.seq = length + 1, !.at = "insert"]
  <2>1. next \in Call
    <3>1. call[p] \in Call /\ length + 1 \in Nat
      OBVIOUS
    <3> QED
      BY <3>1 DEF Call, At
  <2>2. call' = [call EXCEPT ![p] = next]
    BY <1>7 DEF ReadSequence
  <2>3. call' \in [Proc -> Call]
    <3> HIDE DEF next
    <3> QED
      BY <2>1, <2>2
  <2> QED
    BY <1>7, <2>3 DEF ReadSequence
<1>8. ASSUME NEW p \in Proc, InsertEvent(p) PROVE TypeOK'
  BY <1>8, IdleIsCall DEF InsertEvent, Call, Moves
<1>9. ASSUME NEW p \in Proc, InsertFails(p) \/ Crash(p) PROVE TypeOK'
  BY <1>9, IdleIsCall DEF InsertFails, Crash
<1>10. CASE UNCHANGED vars
  BY <1>10 DEF vars
<1> QED
  BY <1>1, <1>2, <1>3, <1>4, <1>5, <1>6, <1>7, <1>8, <1>9, <1>10 DEF Next

\* Every step keeps the checks that transition_node has made.
LEMMA CallCheckedNext == MachineInv /\ [Next]_vars => CallChecked'
<1> SUFFICES ASSUME MachineInv, [Next]_vars PROVE CallChecked'
  OBVIOUS
<1> DEFINE Fine(c, st) ==
      /\ c.at \in {"get_node", "get_run", "update"} =>
           Allowed(c.from, c.to) /\ (c.to = "blocked" => c.coded)
      /\ c.at = "get_node" => st[c.node] # Absent
<1>1. \A p \in Proc : call[p] \in Call /\ Fine(call[p], status)
  BY DEF MachineInv, TypeOK, CallChecked
<1>2. SUFFICES ASSUME NEW q \in Proc PROVE Fine(call'[q], status')
  BY DEF CallChecked
<1>3. \A n \in Node : status[n] # Absent => status'[n] # Absent
  BY CreatedStays
<1>4. ASSUME NEW p \in Proc, NEW c, call' = [call EXCEPT ![p] = c], Fine(c, status')
      PROVE  Fine(call'[q], status')
  <2>1. CASE q = p
    BY <1>4, <2>1, OneCall DEF MachineInv
  <2>2. CASE q # p
    <3>1. call'[q] = call[q] /\ call[q].node \in Node
      BY <1>4, <1>1, <2>2, OneCall DEF MachineInv, Call
    <3> QED
      BY <1>1, <1>3, <3>1
  <2> QED
    BY <2>1, <2>2
<1>5. ASSUME NEW p \in Proc, NEW n \in Node, CreateNode(p, n) PROVE Fine(call'[q], status')
  <2> DEFINE c == [Idle EXCEPT !.at = "read_seq", !.node = n]
  <2>1. c.at = "read_seq"
    BY DEF Idle
  <2>2. call' = [call EXCEPT ![p] = c]
    BY <1>5 DEF CreateNode
  <2> HIDE DEF c
  <2> QED
    BY <1>4, <2>1, <2>2
<1>6. ASSUME NEW p \in Proc, NEW n \in Node, Request(p, n) PROVE Fine(call'[q], status')
  <2>1. PICK from, to, expected, coded : TransitionNode(p, n, from, to, coded, expected)
    BY <1>6 DEF Request
  <2> DEFINE c == [Idle EXCEPT !.at = "get_node", !.node = n, !.from = from, !.to = to,
                               !.coded = coded, !.expected = expected]
  <2>2. c.from = from /\ c.to = to /\ c.coded = coded /\ c.node = n
    BY DEF Idle
  <2>3. call' = [call EXCEPT ![p] = c] /\ Fine(c, status')
    BY <2>1, <2>2 DEF TransitionNode
  <2> HIDE DEF c
  <2> QED
    BY <1>4, <2>3
<1>7. ASSUME NEW p \in Proc, GetNode(p) PROVE Fine(call'[q], status')
  <2> DEFINE c == [call[p] EXCEPT !.seen = status[call[p].node], !.at = "get_run"]
  <2>1. /\ call[p].at = "get_node" /\ c.at = "get_run"
        /\ c.from = call[p].from /\ c.to = call[p].to /\ c.coded = call[p].coded
    BY <1>1, <1>7 DEF GetNode, Call
  <2>2. call' = [call EXCEPT ![p] = c]
    BY <1>7 DEF GetNode
  <2> HIDE DEF c
  <2> QED
    BY <1>1, <1>4, <2>1, <2>2
<1>8. ASSUME NEW p \in Proc, GetRun(p) PROVE Fine(call'[q], status')
  <2> DEFINE fails == [call[p] EXCEPT !.at = "read_seq", !.event = "transition_conflict"]
             goes == [call[p] EXCEPT !.at = "update", !.expected = NoVersion]
  <2>1. /\ call[p].at = "get_run" /\ fails.at = "read_seq" /\ goes.at = "update"
        /\ goes.from = call[p].from /\ goes.to = call[p].to /\ goes.coded = call[p].coded
    BY <1>1, <1>8 DEF GetRun, Call
  <2>2. call' = [call EXCEPT ![p] = fails] \/ call' = [call EXCEPT ![p] = goes]
    BY <1>8 DEF GetRun
  <2> HIDE DEF fails, goes
  <2>3. Fine(fails, status') /\ Fine(goes, status')
    BY <1>1, <2>1
  <2> QED
    BY <1>4, <2>2, <2>3
<1>9. ASSUME NEW p \in Proc, UpdateStatus(p) PROVE Fine(call'[q], status')
  <2> DEFINE c == [call[p] EXCEPT !.at = "bump"]
  <2>1. c.at = "bump"
    BY <1>1 DEF Call
  <2>2. call' = [call EXCEPT ![p] = c]
    BY <1>9 DEF UpdateStatus
  <2> HIDE DEF c
  <2> QED
    BY <1>4, <2>1, <2>2
<1>10. ASSUME NEW p \in Proc, IncrementVersion(p) PROVE Fine(call'[q], status')
  <2> DEFINE c == [call[p] EXCEPT !.at = "read_seq", !.event = "node_status_changed"]
  <2>1. c.at = "read_seq"
    BY <1>1 DEF Call
  <2>2. call' = [call EXCEPT ![p] = c]
    BY <1>10 DEF IncrementVersion
  <2> HIDE DEF c
  <2> QED
    BY <1>4, <2>1, <2>2
<1>11. ASSUME NEW p \in Proc, ReadSequence(p) PROVE Fine(call'[q], status')
  <2> DEFINE c == [call[p] EXCEPT !.seq = length + 1, !.at = "insert"]
  <2>1. c.at = "insert"
    BY <1>1 DEF Call
  <2>2. call' = [call EXCEPT ![p] = c]
    BY <1>11 DEF ReadSequence
  <2> HIDE DEF c
  <2> QED
    BY <1>4, <2>1, <2>2
<1>12. ASSUME NEW p \in Proc, InsertEvent(p) \/ InsertFails(p) \/ Crash(p)
       PROVE  Fine(call'[q], status')
  <2>1. Idle.at = "idle"
    BY DEF Idle
  <2>2. call' = [call EXCEPT ![p] = Idle]
    BY <1>12 DEF InsertEvent, InsertFails, Crash
  <2> QED
    BY <1>4, <2>1, <2>2
<1>13. CASE UNCHANGED vars
  BY <1>1, <1>13 DEF vars
<1> QED
  BY <1>5, <1>6, <1>7, <1>8, <1>9, <1>10, <1>11, <1>12, <1>13 DEF Next

\* The invariant holds of node_service.py for any number of processes and nodes.
THEOREM MachineInvariant == Spec => []MachineInv
<1>1. MachineInv /\ [Next]_vars => MachineInv'
  BY TypeOKNext, CallCheckedNext DEF MachineInv
<1> QED
  BY <1>1, MachineInvInit, PTL DEF Spec

\* Every variable always holds values of its type.
THEOREM TypeCorrect == Spec => []TypeOK
<1>1. MachineInv => TypeOK
  BY DEF MachineInv
<1> QED
  BY <1>1, MachineInvariant, PTL

-----------------------------------------------------------------------------
\* NodeMachine's table is this module's.
LEMMA SameTable ==
  /\ Machine!Status = Status /\ Machine!Absent = Absent
  /\ \A from, to : Machine!Allowed(from, to) <=> Allowed(from, to)
<1>1. Machine!Status = Status
  BY DEF Machine!Status, Status
<1>2. Machine!AllowedTransitions = AllowedTransitions
  BY <1>1 DEF Machine!AllowedTransitions, AllowedTransitions
<1> QED
  BY <1>1, <1>2 DEF Machine!Absent, Absent, Machine!Allowed, Allowed

\* However concurrent calls interleave and die, a node only moves along an
\* allowed transition: the WHERE clause rechecks the status for which
\* ensure_transition_allowed was asked.
THEOREM ServiceImplementsMachine == Spec => ImplementsMachine
<1>1. Init => Machine!Init
  BY SameTable DEF Init, Machine!Init
<1>2. MachineInv /\ [Next]_vars => [Machine!Next]_status
  <2> SUFFICES ASSUME MachineInv, [Next]_vars PROVE [Machine!Next]_status
    OBVIOUS
  <2>1. ASSUME NEW p \in Proc, NEW n \in Node, CreateNode(p, n) PROVE Machine!Next
    <3>1. Machine!Create(n)
      BY <2>1, SameTable DEF CreateNode, Machine!Create
    <3> QED
      BY <3>1 DEF Machine!Next
  <2>2. ASSUME NEW p \in Proc, UpdateStatus(p) PROVE [Machine!Next]_status
    <3> DEFINE c == call[p]
    <3>1. /\ c.at = "update" /\ c.node \in Node
          /\ c.from \in Status /\ c.to \in Status /\ Allowed(c.from, c.to)
      BY <2>2 DEF UpdateStatus, MachineInv, TypeOK, CallChecked, Call
    <3>2. CASE Matches(c)
      <4>1. Machine!Move(c.node, c.to)
        BY <2>2, <3>1, <3>2, SameTable DEF UpdateStatus, Matches, Machine!Move
      <4> QED
        BY <3>1, <4>1, SameTable DEF Machine!Next
    <3>3. CASE ~Matches(c)
      BY <2>2, <3>3 DEF UpdateStatus
    <3> QED
      BY <3>2, <3>3
  <2> QED
    BY <2>1, <2>2, OtherSteps
<1> QED
  BY <1>1, <1>2, MachineInvariant, PTL DEF Spec, ImplementsMachine, Machine!Spec

\* A blocked node has a reason code, whichever call blocked it.
THEOREM BlockedAlwaysHasReason == Spec => []BlockedHasReason
<1>1. Init => BlockedHasReason
  BY DEF Init, BlockedHasReason
<1>2. MachineInv /\ BlockedHasReason /\ [Next]_vars => BlockedHasReason'
  <2> SUFFICES ASSUME MachineInv, BlockedHasReason, [Next]_vars PROVE BlockedHasReason'
    OBVIOUS
  <2>1. ASSUME NEW p \in Proc, NEW n \in Node, CreateNode(p, n) PROVE BlockedHasReason'
    BY <2>1 DEF CreateNode, BlockedHasReason, MachineInv, TypeOK
  <2>2. ASSUME NEW p \in Proc, UpdateStatus(p) PROVE BlockedHasReason'
    BY <2>2 DEF UpdateStatus, Matches, BlockedHasReason, MachineInv, TypeOK, CallChecked, Call
  <2> QED
    BY <2>1, <2>2, OtherSteps DEF BlockedHasReason
<1> QED
  BY <1>1, <1>2, MachineInvariant, PTL DEF Spec

-----------------------------------------------------------------------------
\* What has moved stays on record, and a node leaves a status by a move.
LEMMA LeavingIsMoved ==
  ASSUME MachineInv, [Next]_vars
  PROVE  /\ moved \subseteq moved'
         /\ \A n \in Node, s \in Status : status[n] = s =>
              status'[n] = s \/ \E m \in moved' : m[1] = n /\ m[2] = s
<1>1. moved \subseteq moved'
  <2>1. ASSUME NEW p \in Proc, UpdateStatus(p) PROVE moved \subseteq moved'
    BY <2>1 DEF UpdateStatus
  <2>2. (\E p \in Proc : UpdateStatus(p)) \/ moved' = moved
    BY Zenon DEF Next, vars, CreateNode, Request, TransitionNode, GetNode, GetRun,
                 IncrementVersion, ReadSequence, InsertEvent, InsertFails, Crash
  <2> QED
    BY <2>1, <2>2
<1>2. SUFFICES ASSUME NEW n \in Node, NEW s \in Status, status[n] = s, status'[n] # s
               PROVE  \E m \in moved' : m[1] = n /\ m[2] = s
  BY <1>1
<1>3. ~ \E p \in Proc, k \in Node : CreateNode(p, k)
  BY <1>2 DEF CreateNode, MachineInv, TypeOK, Status, Absent
<1>4. PICK p \in Proc : UpdateStatus(p)
  BY <1>2, <1>3, OtherSteps
<1>5. call[p].node = n /\ Matches(call[p])
  BY <1>2, <1>4 DEF UpdateStatus, MachineInv, TypeOK
<1>6. <<n, s, call[p].to>> \in moved'
  BY <1>2, <1>4, <1>5 DEF UpdateStatus, Matches
<1> QED
  BY <1>6

\* Every step keeps the sources of calls and events real.
LEMMA SourceInvNext == MachineInv /\ SourceInv /\ [Next]_vars => SourceInv'
<1> SUFFICES ASSUME MachineInv, SourceInv, [Next]_vars PROVE SourceInv'
  OBVIOUS
<1> DEFINE Out(c, mv) == \E m \in mv : m[1] = c.node /\ m[2] = c.from
           Src(c, st, mv) ==
             /\ c.at = "update" \/ (c.at = "get_run" /\ c.seen = c.from) =>
                  st[c.node] = c.from \/ Out(c, mv)
             /\ c.at = "bump" \/ Announces(c) => Out(c, mv)
           Sound(e, mv) == \E m \in mv : m[1] = e[1] /\ m[2] = e[2]
<1>1. \A p \in Proc : call[p] \in Call /\ Src(call[p], status, moved)
  BY DEF MachineInv, TypeOK, SourceInv, Left
<1>2. \A e \in audit : Sound(e, moved)
  BY DEF SourceInv, AuditNamesRealSource
<1>3. \A c \in Call : /\ Out(c, moved) => Out(c, moved')
                      /\ Src(c, status, moved) => Src(c, status', moved')
  <2>1. ASSUME NEW c \in Call, Out(c, moved) PROVE Out(c, moved')
    BY <2>1, LeavingIsMoved
  <2>2. ASSUME NEW c \in Call, status[c.node] = c.from
        PROVE  status'[c.node] = c.from \/ Out(c, moved')
    BY <2>2, LeavingIsMoved DEF Call
  <2> QED
    BY <2>1, <2>2
<1> HIDE DEF Out
<1>4. /\ \A q \in Proc : Src(call'[q], status', moved')
      /\ \A e \in audit' : Sound(e, moved')
      => SourceInv'
  BY DEF SourceInv, AuditNamesRealSource, Left, Out
<1>5. ASSUME NEW p \in Proc, NEW c, call' = [call EXCEPT ![p] = c], Src(c, status', moved')
      PROVE  \A q \in Proc : Src(call'[q], status', moved')
  <2>1. TAKE q \in Proc
  <2>2. CASE q = p
    <3>1. call'[q] = c
      BY <1>5, <2>2, OneCall DEF MachineInv
    <3> QED
      BY <1>5, <3>1
  <2>3. CASE q # p
    <3>1. call'[q] = call[q]
      BY <1>5, <2>3, OneCall DEF MachineInv
    <3> QED
      BY <1>1, <1>3, <3>1
  <2> QED
    BY <2>2, <2>3
<1>6. audit' = audit => \A e \in audit' : Sound(e, moved')
  BY <1>2, LeavingIsMoved
<1>7. ASSUME NEW p \in Proc, NEW n \in Node, CreateNode(p, n) PROVE SourceInv'
  <2> DEFINE c == [Idle EXCEPT !.at = "read_seq", !.node = n]
  <2>1. c.at = "read_seq" /\ c.event = "node_created"
    BY DEF Idle
  <2>2. call' = [call EXCEPT ![p] = c] /\ audit' = audit
    BY <1>7 DEF CreateNode
  <2> HIDE DEF c
  <2>3. Src(c, status', moved')
    BY <2>1 DEF Announces
  <2> QED
    BY <1>4, <1>5, <1>6, <2>2, <2>3
<1>8. ASSUME NEW p \in Proc, NEW n \in Node, Request(p, n) PROVE SourceInv'
  <2>1. PICK from, to, expected, coded : TransitionNode(p, n, from, to, coded, expected)
    BY <1>8 DEF Request
  <2> DEFINE c == [Idle EXCEPT !.at = "get_node", !.node = n, !.from = from, !.to = to,
                               !.coded = coded, !.expected = expected]
  <2>2. c.at = "get_node"
    BY DEF Idle
  <2>3. call' = [call EXCEPT ![p] = c] /\ audit' = audit
    BY <2>1 DEF TransitionNode
  <2> HIDE DEF c
  <2>4. Src(c, status', moved')
    BY <2>2 DEF Announces
  <2> QED
    BY <1>4, <1>5, <1>6, <2>3, <2>4
<1>9. ASSUME NEW p \in Proc, GetNode(p) PROVE SourceInv'
  <2> DEFINE c == [call[p] EXCEPT !.seen = status[call[p].node], !.at = "get_run"]
  <2>1. /\ c.at = "get_run" /\ c.node = call[p].node /\ c.from = call[p].from
        /\ c.seen = status[call[p].node]
    BY <1>1 DEF Call
  <2>2. call' = [call EXCEPT ![p] = c] /\ audit' = audit /\ status' = status
    BY <1>9 DEF GetNode
  <2> HIDE DEF c
  <2>3. Src(c, status', moved')
    BY <2>1, <2>2 DEF Announces
  <2> QED
    BY <1>4, <1>5, <1>6, <2>2, <2>3
<1>10. ASSUME NEW p \in Proc, GetRun(p) PROVE SourceInv'
  <2> DEFINE fails == [call[p] EXCEPT !.at = "read_seq", !.event = "transition_conflict"]
             goes == [call[p] EXCEPT !.at = "update", !.expected = NoVersion]
  <2>1. /\ fails.at = "read_seq" /\ fails.event = "transition_conflict"
        /\ goes.at = "update" /\ goes.node = call[p].node /\ goes.from = call[p].from
    BY <1>1 DEF Call
  <2>2. /\ call[p].at = "get_run"
        /\ \/ call' = [call EXCEPT ![p] = fails]
           \/ call' = [call EXCEPT ![p] = goes] /\ call[p].seen = call[p].from
        /\ audit' = audit /\ status' = status /\ moved' = moved
    BY <1>10 DEF GetRun, Conflict
  <2> HIDE DEF fails, goes
  <2>3. Src(fails, status', moved')
    BY <2>1 DEF Announces
  <2>4. call[p].seen = call[p].from => Src(goes, status', moved')
    BY <1>1, <2>1, <2>2 DEF Announces, Out
  <2> QED
    BY <1>4, <1>5, <1>6, <2>2, <2>3, <2>4
<1>11. ASSUME NEW p \in Proc, UpdateStatus(p) PROVE SourceInv'
  <2> DEFINE c == [call[p] EXCEPT !.at = "bump"]
  <2>1. c.at = "bump" /\ c.node = call[p].node /\ c.from = call[p].from
    BY <1>1 DEF Call
  <2>2. call' = [call EXCEPT ![p] = c] /\ audit' = audit
    BY <1>11 DEF UpdateStatus
  <2>3. Out(call[p], moved')
    <3>1. CASE Matches(call[p])
      <4>1. <<call[p].node, call[p].from, call[p].to>> \in moved'
        BY <1>11, <3>1 DEF UpdateStatus
      <4> QED
        BY <4>1 DEF Out
    <3>2. CASE ~ Matches(call[p])
      BY <1>1, <1>3, <1>11, <3>2 DEF UpdateStatus, Matches
    <3> QED
      BY <3>1, <3>2
  <2> HIDE DEF c
  <2>4. Src(c, status', moved')
    BY <2>1, <2>3 DEF Out
  <2> QED
    BY <1>4, <1>5, <1>6, <2>2, <2>4
<1>12. ASSUME NEW p \in Proc, IncrementVersion(p) PROVE SourceInv'
  <2> DEFINE c == [call[p] EXCEPT !.at = "read_seq", !.event = "node_status_changed"]
  <2>1. c.at = "read_seq" /\ c.node = call[p].node /\ c.from = call[p].from
    BY <1>1 DEF Call
  <2>2. call' = [call EXCEPT ![p] = c] /\ audit' = audit /\ call[p].at = "bump"
    BY <1>12 DEF IncrementVersion
  <2> HIDE DEF c
  <2>3. Src(c, status', moved')
    BY <1>1, <1>3, <2>1, <2>2 DEF Out
  <2> QED
    BY <1>4, <1>5, <1>6, <2>2, <2>3
<1>13. ASSUME NEW p \in Proc, ReadSequence(p) PROVE SourceInv'
  <2> DEFINE c == [call[p] EXCEPT !.seq = length + 1, !.at = "insert"]
  <2>1. /\ c.at = "insert" /\ c.node = call[p].node /\ c.from = call[p].from
        /\ c.event = call[p].event
    BY <1>1 DEF Call
  <2>2. call' = [call EXCEPT ![p] = c] /\ audit' = audit /\ call[p].at = "read_seq"
    BY <1>13 DEF ReadSequence
  <2> HIDE DEF c
  <2>3. Src(c, status', moved')
    BY <1>1, <1>3, <2>1, <2>2 DEF Out, Announces
  <2> QED
    BY <1>4, <1>5, <1>6, <2>2, <2>3
<1>14. ASSUME NEW p \in Proc, InsertEvent(p) \/ InsertFails(p) \/ Crash(p) PROVE SourceInv'
  <2>1. Idle.at = "idle"
    BY DEF Idle
  <2>2. call' = [call EXCEPT ![p] = Idle]
    BY <1>14 DEF InsertEvent, InsertFails, Crash
  <2>3. Src(Idle, status', moved')
    BY <2>1 DEF Announces
  <2>4. \A e \in audit' : Sound(e, moved')
    <3>1. CASE audit' = audit
      BY <1>6, <3>1
    <3>2. CASE audit' # audit
      <4>1. /\ audit' = audit \cup {<<call[p].node, call[p].from, call[p].to>>}
            /\ Announces(call[p])
        BY <1>14, <3>2 DEF InsertEvent, InsertFails, Crash, Announces
      <4>2. Out(call[p], moved')
        BY <1>1, <1>3, <4>1
      <4> QED
        BY <1>2, <4>1, <4>2, LeavingIsMoved DEF Out
    <3> QED
      BY <3>1, <3>2
  <2> QED
    BY <1>4, <1>5, <2>2, <2>3, <2>4
<1>15. CASE UNCHANGED vars
  BY <1>15 DEF vars, SourceInv, AuditNamesRealSource, Left
<1> QED
  BY <1>7, <1>8, <1>9, <1>10, <1>11, <1>12, <1>13, <1>14, <1>15 DEF Next

\* The log never claims that a node left a status it did not have, whichever
\* of several concurrent transitions wrote the event: transition_node compares
\* what it read with what its caller named before it commits anything.
THEOREM AuditNamesSources == Spec => []AuditNamesRealSource
<1>1. Init => SourceInv
  <2>1. Idle.at = "idle"
    BY DEF Idle
  <2> QED
    BY <2>1 DEF Init, SourceInv, AuditNamesRealSource, Announces
<1>2. SourceInv => AuditNamesRealSource
  BY DEF SourceInv
<1> QED
  BY <1>1, <1>2, SourceInvNext, MachineInvariant, PTL DEF Spec

-----------------------------------------------------------------------------
\* A step that writes one call changes the calls that wait for their version
\* bump by that call at most.
LEMMA BumpingChange ==
  ASSUME TypeOK, NEW p \in Proc, NEW c, call' = [call EXCEPT ![p] = c]
  PROVE  Bumping' = IF c.at = "bump" THEN Bumping \cup {p} ELSE Bumping \ {p}
<1>1. call'[p] = c /\ \A q \in Proc : q # p => call'[q] = call[q]
  BY OneCall
<1>2. \A q : q \in Bumping' <=> q \in Proc /\ call'[q].at = "bump"
  BY DEF Bumping
<1>3. \A q : q \in Bumping <=> q \in Proc /\ call[q].at = "bump"
  BY DEF Bumping
<1>4. CASE c.at = "bump"
  BY <1>1, <1>2, <1>3, <1>4
<1>5. CASE c.at # "bump"
  BY <1>1, <1>2, <1>3, <1>5
<1> QED
  BY <1>4, <1>5

\* Every step keeps account of the changes not yet recorded.
LEMMA MovesInvNext == MachineInv /\ MovesInv /\ [Next]_vars => MovesInv'
<1> SUFFICES ASSUME MachineInv, MovesInv, [Next]_vars PROVE MovesInv'
  OBVIOUS
<1> DEFINE Kept == \A m \in moved : m \in audit \/ \E p \in Proc : Carries(call[p], m)
<1>1. /\ TypeOK
      /\ \A p \in Proc : call[p] \in Call
  BY DEF MachineInv, TypeOK
<1>2. /\ IsFiniteSet(moved) /\ IsFiniteSet(Bumping)
      /\ deaths = 0 => Kept /\ version + Cardinality(Bumping) >= Cardinality(moved)
  BY DEF MovesInv
\* A step that leaves moved alone and does not touch a version bump.
<1>3. ASSUME NEW p \in Proc, NEW c, call' = [call EXCEPT ![p] = c],
             UNCHANGED <<moved, version, deaths>>, audit \subseteq audit',
             call[p].at # "bump", c.at # "bump",
             \A m : Carries(call[p], m) => Carries(c, m) \/ m \in audit'
      PROVE  MovesInv'
  <2>1. Bumping' = Bumping
    BY <1>1, <1>3, BumpingChange DEF Bumping
  <2>2. ASSUME deaths = 0 PROVE Kept'
    <3>1. SUFFICES ASSUME NEW m \in moved, m \notin audit' PROVE \E q \in Proc : Carries(call'[q], m)
      BY <1>3
    <3>2. PICK q \in Proc : Carries(call[q], m)
      BY <1>2, <1>3, <2>2, <3>1
    <3> QED
      BY <1>1, <1>3, <3>1, <3>2, OneCall
  <2> HIDE DEF Kept
  <2> QED
    BY <1>2, <1>3, <2>1, <2>2 DEF MovesInv, Kept
\* A step of a process that dies.
<1>4. ASSUME NEW p \in Proc, call' = [call EXCEPT ![p] = Idle], UNCHANGED moved, deaths' # 0
      PROVE  MovesInv'
  <2>1. Idle.at = "idle"
    BY DEF Idle
  <2>2. Bumping' = Bumping \ {p}
    BY <1>1, <1>4, <2>1, BumpingChange
  <2>3. IsFiniteSet(Bumping')
    BY <1>2, <2>2, FS_RemoveElement
  <2> QED
    BY <1>2, <1>4, <2>3 DEF MovesInv
<1>5. ASSUME NEW p \in Proc, NEW n \in Node, CreateNode(p, n) PROVE MovesInv'
  <2> DEFINE c == [Idle EXCEPT !.at = "read_seq", !.node = n]
  <2>1. c.at = "read_seq"
    BY DEF Idle
  <2>2. /\ call' = [call EXCEPT ![p] = c] /\ call[p].at = "idle"
        /\ UNCHANGED <<moved, version, deaths, audit>>
    BY <1>5 DEF CreateNode
  <2> HIDE DEF c
  <2> QED
    BY <1>3, <2>1, <2>2 DEF Carries, Announces
<1>6. ASSUME NEW p \in Proc, NEW n \in Node, Request(p, n) PROVE MovesInv'
  <2>1. PICK from, to, expected, coded : TransitionNode(p, n, from, to, coded, expected)
    BY <1>6 DEF Request
  <2> DEFINE c == [Idle EXCEPT !.at = "get_node", !.node = n, !.from = from, !.to = to,
                               !.coded = coded, !.expected = expected]
  <2>2. c.at = "get_node"
    BY DEF Idle
  <2>3. /\ call' = [call EXCEPT ![p] = c] /\ call[p].at = "idle"
        /\ UNCHANGED <<moved, version, deaths, audit>>
    BY <2>1 DEF TransitionNode
  <2> HIDE DEF c
  <2> QED
    BY <1>3, <2>2, <2>3 DEF Carries, Announces
<1>7. ASSUME NEW p \in Proc, GetNode(p) PROVE MovesInv'
  <2> DEFINE c == [call[p] EXCEPT !.seen = status[call[p].node], !.at = "get_run"]
  <2>1. c.at = "get_run"
    BY <1>1 DEF Call
  <2>2. /\ call' = [call EXCEPT ![p] = c] /\ call[p].at = "get_node"
        /\ UNCHANGED <<moved, version, deaths, audit>>
    BY <1>7 DEF GetNode
  <2> HIDE DEF c
  <2> QED
    BY <1>3, <2>1, <2>2 DEF Carries, Announces
<1>8. ASSUME NEW p \in Proc, GetRun(p) PROVE MovesInv'
  <2> DEFINE fails == [call[p] EXCEPT !.at = "read_seq", !.event = "transition_conflict"]
             goes == [call[p] EXCEPT !.at = "update", !.expected = NoVersion]
  <2>1. fails.at = "read_seq" /\ goes.at = "update"
    BY <1>1 DEF Call
  <2>2. /\ call[p].at = "get_run" /\ UNCHANGED <<moved, version, deaths, audit>>
        /\ call' = [call EXCEPT ![p] = fails] \/ call' = [call EXCEPT ![p] = goes]
    BY <1>8 DEF GetRun
  <2> HIDE DEF fails, goes
  <2> QED
    BY <1>3, <2>1, <2>2 DEF Carries, Announces
<1>9. ASSUME NEW p \in Proc, UpdateStatus(p) PROVE MovesInv'
  <2> DEFINE c == [call[p] EXCEPT !.at = "bump"]
             move == <<call[p].node, call[p].from, call[p].to>>
  <2>1. c.at = "bump" /\ <<c.node, c.from, c.to>> = move
    BY <1>1 DEF Call
  <2>2. /\ call[p].at = "update" /\ call' = [call EXCEPT ![p] = c]
        /\ moved' = moved \/ moved' = moved \cup {move}
        /\ UNCHANGED <<version, deaths, audit>>
    BY <1>9 DEF UpdateStatus
  <2> HIDE DEF c, move
  <2>3. call'[p] = c /\ \A q \in Proc : q # p => call'[q] = call[q]
    BY <1>1, <2>2, OneCall
  <2>4. Bumping' = Bumping \cup {p} /\ p \notin Bumping
    BY <1>1, <2>1, <2>2, BumpingChange DEF Bumping
  <2>5. IsFiniteSet(Bumping') /\ Cardinality(Bumping') = Cardinality(Bumping) + 1
    BY <1>2, <2>4, FS_AddElement
  <2>6. IsFiniteSet(moved') /\ Cardinality(moved') \in {Cardinality(moved), Cardinality(moved) + 1}
    BY <1>2, <2>2, FS_AddElement
  <2>7. ASSUME deaths = 0 PROVE Kept'
    <3>1. SUFFICES ASSUME NEW m \in moved', m \notin audit PROVE \E q \in Proc : Carries(call'[q], m)
      BY <2>2
    <3>2. CASE m = move
      BY <2>1, <2>3, <3>2 DEF Carries
    <3>3. CASE m \in moved
      <4>1. PICK q \in Proc : Carries(call[q], m)
        BY <1>2, <2>7, <3>1, <3>3
      <4>2. q # p
        BY <2>2, <4>1 DEF Carries, Announces
      <4> QED
        BY <2>3, <4>1, <4>2
    <3> QED
      BY <2>2, <3>2, <3>3
  <2>8. deaths = 0 => version + Cardinality(Bumping') >= Cardinality(moved')
    BY <1>1, <1>2, <2>5, <2>6, FS_CardinalityType DEF TypeOK
  <2> HIDE DEF Kept
  <2> QED
    BY <2>2, <2>5, <2>6, <2>7, <2>8 DEF MovesInv, Kept
<1>10. ASSUME NEW p \in Proc, IncrementVersion(p) PROVE MovesInv'
  <2> DEFINE c == [call[p] EXCEPT !.at = "read_seq", !.event = "node_status_changed"]
  <2>1. /\ c.at = "read_seq" /\ c.event = "node_status_changed"
        /\ <<c.node, c.from, c.to>> = <<call[p].node, call[p].from, call[p].to>>
    BY <1>1 DEF Call
  <2>2. /\ call[p].at = "bump" /\ call' = [call EXCEPT ![p] = c]
        /\ version' = version + 1 /\ UNCHANGED <<moved, deaths, audit>>
    BY <1>10 DEF IncrementVersion
  <2> HIDE DEF c
  <2>3. call'[p] = c /\ \A q \in Proc : q # p => call'[q] = call[q]
    BY <1>1, <2>2, OneCall
  <2>4. Bumping' = Bumping \ {p} /\ p \in Bumping
    BY <1>1, <2>1, <2>2, BumpingChange DEF Bumping
  <2>5. IsFiniteSet(Bumping') /\ Cardinality(Bumping') = Cardinality(Bumping) - 1
    BY <1>2, <2>4, FS_RemoveElement
  <2>6. deaths = 0 => version' + Cardinality(Bumping') >= Cardinality(moved)
    BY <1>1, <1>2, <2>2, <2>5, FS_CardinalityType DEF TypeOK
  <2>7. ASSUME deaths = 0 PROVE Kept'
    <3>1. SUFFICES ASSUME NEW m \in moved, m \notin audit PROVE \E q \in Proc : Carries(call'[q], m)
      BY <2>2
    <3>2. PICK q \in Proc : Carries(call[q], m)
      BY <1>2, <2>7, <3>1
    <3>3. Carries(call[p], m) => Carries(c, m)
      BY <2>1 DEF Carries, Announces
    <3> QED
      BY <2>3, <3>2, <3>3
  <2> HIDE DEF Kept
  <2> QED
    BY <1>2, <2>2, <2>5, <2>6, <2>7 DEF MovesInv, Kept
<1>11. ASSUME NEW p \in Proc, ReadSequence(p) PROVE MovesInv'
  <2> DEFINE c == [call[p] EXCEPT !.seq = length + 1, !.at = "insert"]
  <2>1. /\ c.at = "insert" /\ c.event = call[p].event
        /\ <<c.node, c.from, c.to>> = <<call[p].node, call[p].from, call[p].to>>
    BY <1>1 DEF Call
  <2>2. /\ call[p].at = "read_seq" /\ call' = [call EXCEPT ![p] = c]
        /\ UNCHANGED <<moved, version, deaths, audit>>
    BY <1>11 DEF ReadSequence
  <2> HIDE DEF c
  <2>3. \A m : Carries(call[p], m) => Carries(c, m)
    BY <2>1, <2>2 DEF Carries, Announces
  <2> QED
    BY <1>3, <2>1, <2>2, <2>3
<1>12. ASSUME NEW p \in Proc, InsertEvent(p) PROVE MovesInv'
  <2>1. Idle.at = "idle"
    BY DEF Idle
  <2>2. /\ call[p].at = "insert" /\ call' = [call EXCEPT ![p] = Idle]
        /\ audit \subseteq audit' /\ UNCHANGED <<moved, version, deaths>>
    BY <1>12 DEF InsertEvent
  <2>3. \A m : Carries(call[p], m) => m \in audit'
    BY <1>12 DEF InsertEvent, Carries, Announces
  <2> QED
    BY <1>3, <2>1, <2>2, <2>3
<1>13. ASSUME NEW p \in Proc, InsertFails(p) \/ Crash(p) PROVE MovesInv'
  <2>1. call' = [call EXCEPT ![p] = Idle] /\ UNCHANGED moved /\ deaths' = deaths + 1
    BY <1>13 DEF InsertFails, Crash
  <2>2. deaths' # 0
    BY <1>1, <2>1 DEF TypeOK
  <2> QED
    BY <1>4, <2>1, <2>2
<1>14. CASE UNCHANGED vars
  <2>1. Bumping' = Bumping
    BY <1>14 DEF vars, Bumping
  <2> QED
    BY <1>14, <2>1 DEF vars, MovesInv
<1> QED
  BY <1>5, <1>6, <1>7, <1>8, <1>9, <1>10, <1>11, <1>12, <1>13, <1>14 DEF Next

\* Once every call has ended and none has died, every change of status has its
\* event and the version has counted at least as many: update, bump and append
\* are three commits, and a call that has made the first makes the others.
THEOREM MovesAreRecorded == Spec => []MovesRecorded
<1>1. Init => MovesInv
  <2> SUFFICES ASSUME Init PROVE MovesInv
    OBVIOUS
  <2>1. Idle.at = "idle"
    BY DEF Idle
  <2>2. moved = {} /\ Bumping = {} /\ version = 0
    BY <2>1 DEF Init, Bumping
  <2> QED
    BY <2>2, FS_EmptySet DEF MovesInv
<1>2. MachineInv /\ MovesInv => MovesRecorded
  <2> SUFFICES ASSUME MachineInv, MovesInv, Quiet
               PROVE  moved \subseteq audit /\ version >= Cardinality(moved)
    BY DEF MovesRecorded
  <2>1. Bumping = {}
    BY DEF Quiet, Bumping
  <2>2. version + 0 >= Cardinality(moved)
    BY <2>1, FS_EmptySet DEF MovesInv, Quiet
  <2>3. \A p \in Proc, m \in moved : ~ Carries(call[p], m)
    BY DEF Quiet, Carries, Announces
  <2> QED
    BY <2>2, <2>3 DEF MovesInv, Quiet, MachineInv, TypeOK
<1> QED
  BY <1>1, <1>2, MovesInvNext, MachineInvariant, PTL DEF Spec
=============================================================================
