-------------------------- MODULE EventStoreProofs --------------------------
(***************************************************************************)
(* The chain of a run verifies, and its log only grows, for every number   *)
(* of processes, runs and events.                                          *)
(***************************************************************************)
EXTENDS EventStore, SequenceTheorems, FiniteSetTheorems, TLAPS

\* The maximum of the sequence numbers 1 .. n is n.
LEMMA MaxOfInterval ==
  ASSUME NEW n \in Nat, n > 0
  PROVE  Max(1 .. n) = n
<1>1. n \in 1 .. n /\ \A y \in 1 .. n : n >= y
  OBVIOUS
<1>2. \A x \in 1 .. n : (\A y \in 1 .. n : x >= y) => x = n
  OBVIOUS
<1> QED
  BY <1>1, <1>2 DEF Max

\* In a table without holes _next_sequence() is one more than the number of
\* rows, and the last hash is that of the last row if that one has a hash.
LEMMA DenseTable ==
  ASSUME NEW r \in Run, rows \in [Run -> Seq(Row)]
  PROVE  /\ DOMAIN rows[r] = 1 .. Len(rows[r])
         /\ Len(rows[r]) \in Nat
         /\ NextSequence(r) = Len(rows[r]) + 1
         /\ LastEventHash(r) = HashBefore(rows[r], Len(rows[r]) + 1)
<1>1. Len(rows[r]) \in Nat /\ DOMAIN rows[r] = 1 .. Len(rows[r])
  OBVIOUS
<1>2. CASE Len(rows[r]) = 0
  <2>1. DOMAIN rows[r] = {}
    BY <1>1, <1>2
  <2> QED
    BY <1>1, <1>2, <2>1 DEF NextSequence, LastEventHash, HashBefore
<1>3. CASE Len(rows[r]) > 0
  <2>1. DOMAIN rows[r] # {} /\ Max(DOMAIN rows[r]) = Len(rows[r])
    BY <1>1, <1>3, MaxOfInterval
  <2>2. Len(rows[r]) + 1 # 1 /\ (Len(rows[r]) + 1) - 1 = Len(rows[r])
    BY <1>1, <1>3
  <2> QED
    BY <1>1, <2>1, <2>2 DEF NextSequence, LastEventHash, HashBefore
<1> QED
  BY <1>1, <1>2, <1>3

\* Inserting at the next sequence number appends.
LEMMA AddRowAppends ==
  ASSUME NEW t \in Seq(Row), NEW d \in Draft, d.seq = Len(t) + 1
  PROVE  /\ NewRow(d) \in Row
         /\ AddRow(t, d) = Append(t, NewRow(d))
<1>1. NewRow(d) \in Row
  BY DEF NewRow, Row, Draft, Hash
<1>2. DOMAIN t \cup {d.seq} = 1 .. Len(t) + 1
  OBVIOUS
<1>3. AddRow(t, d) \in Seq(Row)
  BY <1>1, <1>2 DEF AddRow
<1>4. Append(t, NewRow(d)) \in Seq(Row) /\ Len(Append(t, NewRow(d))) = Len(t) + 1
  BY <1>1
<1>5. Len(AddRow(t, d)) = Len(t) + 1
  BY <1>1, <1>2, <1>3 DEF AddRow
<1>6. ASSUME NEW i \in 1 .. Len(t) + 1
      PROVE  AddRow(t, d)[i] = Append(t, NewRow(d))[i]
  <2>1. AddRow(t, d)[i] = IF i = Len(t) + 1 THEN NewRow(d) ELSE t[i]
    BY <1>2 DEF AddRow
  <2>2. Append(t, NewRow(d))[i] = IF i = Len(t) + 1 THEN NewRow(d) ELSE t[i]
    BY <1>1, AppendProperties
  <2> QED
    BY <2>1, <2>2
<1> QED
  BY <1>1, <1>3, <1>4, <1>5, <1>6, SeqEqual

-----------------------------------------------------------------------------
\* The chain of a table stays linked when the appended row links to its end.
LEMMA AppendKeepsLinks ==
  ASSUME NEW t \in Seq(Row), NEW d \in Draft,
         d.prev = HashBefore(t, Len(t) + 1),
         Linked(t), HashedLast(t)
  PROVE  /\ Linked(Append(t, NewRow(d)))
         /\ HashedLast(Append(t, NewRow(d)))
<1> DEFINE u == Append(t, NewRow(d))
<1>1. NewRow(d) \in Row
  BY DEF NewRow, Row, Draft, Hash
<1>2. /\ u \in Seq(Row) /\ DOMAIN u = 1 .. Len(t) + 1 /\ Len(t) \in Nat
      /\ \A i \in 1 .. Len(t) : u[i] = t[i]
      /\ u[Len(t) + 1] = NewRow(d)
  BY <1>1, AppendProperties
<1>3. \A i \in 1 .. Len(t) + 1 : HashBefore(u, i) = HashBefore(t, i)
  <2> SUFFICES ASSUME NEW i \in 1 .. Len(t) + 1, i # 1
               PROVE  u[i - 1] = t[i - 1]
    BY DEF HashBefore
  <2> QED
    BY <1>2
<1>4. Linked(u)
  <2> SUFFICES ASSUME NEW i \in 1 .. Len(t) + 1, u[i].hashed
               PROVE  /\ u[i].prev = HashBefore(t, i)
                      /\ u[i].hash = Hash(HashBefore(t, i), u[i].payload)
    BY <1>2, <1>3 DEF Linked
  <2>1. CASE i = Len(t) + 1
    BY <1>2, <2>1 DEF NewRow
  <2>2. CASE i \in 1 .. Len(t)
    BY <1>2, <2>2 DEF Linked
  <2> QED
    BY <1>2, <2>1, <2>2
<1>5. HashedLast(u)
  <2>1. u[Len(t) + 1].hashed
    BY <1>2 DEF NewRow
  <2> QED
    BY <1>2, <2>1 DEF HashedLast
<1> QED
  BY <1>4, <1>5

\* A table that an older version may have left satisfies the invariant.
LEMMA ChainInvInit == Init => ChainInv
<1> SUFFICES ASSUME Init PROVE ChainInv
  OBVIOUS
<1>1. ASSUME NEW r \in Run
      PROVE  /\ rows[r] \in Seq(Row)
             /\ \A i \in DOMAIN rows[r] : ~rows[r][i].hashed
  <2>1. PICK n \in 0 .. MaxLegacy : rows[r] \in [1 .. n -> {LegacyRow(e) : e \in Payload}]
    BY StoreAssumption DEF Init
  <2>2. {LegacyRow(e) : e \in Payload} \subseteq Row
    <3> SUFFICES ASSUME NEW e \in Payload PROVE LegacyRow(e) \in Row
      OBVIOUS
    <3>1. << >> \in Seq(Event)
      OBVIOUS
    <3>2. e \in Event
      BY DEF Event
    <3> QED
      BY <3>1, <3>2 DEF LegacyRow, Row, Genesis
  <2>3. rows[r] \in [1 .. n -> Row]
    BY <2>1, <2>2
  <2>4. rows[r] \in Seq(Row)
    BY <2>3
  <2>5. \A i \in DOMAIN rows[r] : ~rows[r][i].hashed
    BY <2>1 DEF LegacyRow
  <2> QED
    BY <2>4, <2>5
<1>2. rows \in [Run -> Seq(Row)]
  <2>1. rows = [r \in Run |-> rows[r]]
    BY DEF Init
  <2> QED
    BY <1>1, <2>1
<1>3. pc \in [Proc -> Phase] /\ draft \in [Proc -> Draft]
  BY StoreAssumption DEF Init, Phase, Draft, NoDraft, Event, Genesis
<1>4. \A r \in Run : Linked(rows[r]) /\ HashedLast(rows[r])
  BY <1>1 DEF Linked, HashedLast
<1>5. \A p \in Proc : DraftCurrent(p)
  BY DEF Init, DraftCurrent
<1> QED
  BY <1>2, <1>3, <1>4, <1>5 DEF ChainInv

-----------------------------------------------------------------------------
\* A step that leaves the table alone disturbs only the drafts.
LEMMA TableUnchanged ==
  ASSUME ChainInv, UNCHANGED rows,
         pc' \in [Proc -> Phase], draft' \in [Proc -> Draft],
         \A p \in Proc : DraftCurrent(p)'
  PROVE  ChainInv'
BY DEF ChainInv, Linked, HashedLast, HashBefore

\* The drafts of the processes a step does not concern.
LEMMA OtherDrafts ==
  ASSUME ChainInv, UNCHANGED rows, NEW q \in Proc,
         pc'[q] = pc[q], draft'[q] = draft[q]
  PROVE  DraftCurrent(q)'
BY DEF ChainInv, DraftCurrent, Vacant, LastEventHash

\* The INSERT of append() keeps the invariant: the draft that finds its place
\* vacant has read the hash of the last row.
LEMMA InsertKeepsInv ==
  ASSUME ChainInv, NEW p \in Proc, InsertRow(p)
  PROVE  ChainInv'
<1> DEFINE d == draft[p]
           t == rows[d.run]
<1>1. /\ d \in Draft /\ d.run \in Run /\ t \in Seq(Row)
      /\ rows \in [Run -> Seq(Row)]
  BY DEF ChainInv, Draft
<1>2. /\ DOMAIN t = 1 .. Len(t) /\ Len(t) \in Nat
      /\ LastEventHash(d.run) = HashBefore(t, Len(t) + 1)
  BY <1>1, DenseTable
<1>3. d.seq = Len(t) + 1 /\ d.prev = HashBefore(t, Len(t) + 1)
  <2>1. d.seq \in 1 .. Len(t) + 1 /\ d.seq \notin 1 .. Len(t)
    BY <1>2 DEF ChainInv, DraftCurrent, InsertRow, Vacant
  <2>2. d.prev = LastEventHash(d.run)
    BY DEF ChainInv, DraftCurrent, InsertRow
  <2> QED
    BY <1>2, <2>1, <2>2
<1>4. /\ NewRow(d) \in Row
      /\ rows' = [rows EXCEPT ![d.run] = Append(t, NewRow(d))]
      /\ Append(t, NewRow(d)) \in Seq(Row)
      /\ Len(Append(t, NewRow(d))) = Len(t) + 1
  <2>1. NewRow(d) \in Row /\ AddRow(t, d) = Append(t, NewRow(d))
    BY <1>1, <1>3, AddRowAppends
  <2>2. rows' = [rows EXCEPT ![d.run] = AddRow(t, d)]
    BY DEF InsertRow
  <2> QED
    BY <1>1, <2>1, <2>2, AppendProperties
<1>5. rows' \in [Run -> Seq(Row)]
  BY <1>1, <1>4
<1>6. ASSUME NEW r \in Run PROVE Linked(rows'[r]) /\ HashedLast(rows'[r])
  <2>1. CASE r = d.run
    <3>1. Linked(t) /\ HashedLast(t)
      BY <1>1 DEF ChainInv
    <3> QED
      BY <1>1, <1>3, <1>4, <2>1, <3>1, AppendKeepsLinks
  <2>2. CASE r # d.run
    BY <1>1, <1>4, <2>2 DEF ChainInv
  <2> QED
    BY <2>1, <2>2
<1>7. pc' \in [Proc -> Phase] /\ draft' = draft
  BY DEF InsertRow, Goto, ChainInv, Phase
<1>8. ASSUME NEW q \in Proc PROVE DraftCurrent(q)'
  <2> DEFINE e == draft[q]
  <2>1. e \in Draft /\ e.run \in Run
    BY DEF ChainInv, Draft
  <2>2. CASE q = p
    BY <2>2 DEF InsertRow, Goto, ChainInv, DraftCurrent
  <2>3. CASE q # p /\ e.run # d.run
    <3>1. pc'[q] = pc[q] /\ draft'[q] = e /\ rows'[e.run] = rows[e.run]
      BY <1>1, <1>4, <1>7, <2>1, <2>3 DEF InsertRow, Goto, ChainInv
    <3> QED
      BY <3>1 DEF ChainInv, DraftCurrent, Vacant, LastEventHash
  <2>4. CASE q # p /\ e.run = d.run
    <3>1. pc'[q] = pc[q] /\ draft'[q] = e
      BY <1>7, <2>4 DEF InsertRow, Goto, ChainInv
    <3>2. Len(rows'[e.run]) = Len(t) + 1 /\ DOMAIN rows'[e.run] = 1 .. Len(t) + 1
      BY <1>1, <1>4, <2>1, <2>4
    <3>3. pc[q] \in {"read_hash", "insert"} => e.seq \in 1 .. Len(t) + 1
      BY <2>4 DEF ChainInv, DraftCurrent
    <3> QED
      BY <1>2, <3>1, <3>2, <3>3 DEF DraftCurrent, Vacant
  <2> QED
    BY <2>2, <2>3, <2>4
<1> QED
  BY <1>5, <1>6, <1>7, <1>8 DEF ChainInv

\* Every step keeps the invariant.
LEMMA ChainInvNext == ChainInv /\ [Next]_vars => ChainInv'
<1> SUFFICES ASSUME ChainInv, [Next]_vars PROVE ChainInv'
  OBVIOUS
<1>0. /\ pc \in [Proc -> Phase] /\ draft \in [Proc -> Draft]
      /\ rows \in [Run -> Seq(Row)]
  BY DEF ChainInv
<1>n. NoDraft \in Draft
  BY StoreAssumption DEF NoDraft, Draft, Event, Genesis
<1>1. ASSUME NEW p \in Proc, OpenCountRows(p) PROVE ChainInv'
  <2>1. UNCHANGED rows /\ pc' \in [Proc -> Phase] /\ draft' \in [Proc -> Draft]
    BY <1>0, <1>1 DEF OpenCountRows, Goto, Phase
  <2>2. ASSUME NEW q \in Proc PROVE DraftCurrent(q)'
    BY <1>0, <1>1, OtherDrafts DEF OpenCountRows, Goto, DraftCurrent
  <2> QED
    BY <2>1, <2>2, TableUnchanged
<1>2. ASSUME NEW p \in Proc, OpenCountLines(p) PROVE ChainInv'
  <2>1. UNCHANGED rows /\ pc' \in [Proc -> Phase] /\ draft' \in [Proc -> Draft]
    BY <1>0, <1>n, <1>2 DEF OpenCountLines, Goto, Phase
  <2>2. ASSUME NEW q \in Proc PROVE DraftCurrent(q)'
    BY <1>0, <1>2, OtherDrafts DEF OpenCountLines, Goto, DraftCurrent
  <2> QED
    BY <2>1, <2>2, TableUnchanged
<1>3. ASSUME NEW p \in Proc, NEW r \in Run \ {System}, NEW e \in Payload,
             BeginAppend(p, r, e)
      PROVE  ChainInv'
  <2>1. UNCHANGED rows /\ pc' \in [Proc -> Phase] /\ draft' \in [Proc -> Draft]
    BY <1>0, <1>n, <1>3 DEF BeginAppend, Goto, Phase, NoDraft, Draft, Event
  <2>2. ASSUME NEW q \in Proc PROVE DraftCurrent(q)'
    BY <1>0, <1>3, OtherDrafts DEF BeginAppend, Goto, DraftCurrent
  <2> QED
    BY <2>1, <2>2, TableUnchanged
<1>4. ASSUME NEW p \in Proc, ReadSequence(p) PROVE ChainInv'
  <2>0. draft[p].run \in Run
    BY <1>0 DEF Draft
  <2>1. /\ NextSequence(draft[p].run) = Len(rows[draft[p].run]) + 1
        /\ Len(rows[draft[p].run]) \in Nat
    BY <1>0, <2>0, DenseTable
  <2>2. UNCHANGED rows /\ pc' \in [Proc -> Phase] /\ draft' \in [Proc -> Draft]
    <3>1. [draft[p] EXCEPT !.seq = NextSequence(draft[p].run)] \in Draft
      <4>1. NextSequence(draft[p].run) \in Nat /\ draft[p] \in Draft
        BY <1>0, <2>1
      <4> QED
        BY <4>1 DEF Draft
    <3>2. draft' = [draft EXCEPT ![p] = [draft[p] EXCEPT !.seq = NextSequence(draft[p].run)]]
      BY <1>4 DEF ReadSequence
    <3>3. draft' \in [Proc -> Draft]
      BY <1>0, <3>1, <3>2
    <3> QED
      BY <1>0, <1>4, <3>3 DEF ReadSequence, Goto, Phase
  <2>3. ASSUME NEW q \in Proc PROVE DraftCurrent(q)'
    <3>1. CASE q = p
      <4>1. /\ pc'[p] = "read_hash" /\ rows' = rows
            /\ draft'[p].run = draft[p].run
            /\ draft'[p].seq = Len(rows[draft[p].run]) + 1
        BY <1>0, <1>4, <2>1 DEF ReadSequence, Goto, Draft
      <4> QED
        BY <2>1, <3>1, <4>1 DEF DraftCurrent
    <3>2. CASE q # p
      BY <1>0, <1>4, <3>2, OtherDrafts DEF ReadSequence, Goto
    <3> QED
      BY <3>1, <3>2
  <2> QED
    BY <2>2, <2>3, TableUnchanged
<1>5. ASSUME NEW p \in Proc, ReadHash(p) PROVE ChainInv'
  <2>0. draft[p].run \in Run
    BY <1>0 DEF Draft
  <2>1. LastEventHash(draft[p].run) \in Seq(Event)
    <3>1. Genesis \in Seq(Event)
      BY DEF Genesis
    <3>2. /\ DOMAIN rows[draft[p].run] = 1 .. Len(rows[draft[p].run])
          /\ Len(rows[draft[p].run]) \in Nat
          /\ LastEventHash(draft[p].run)
               = HashBefore(rows[draft[p].run], Len(rows[draft[p].run]) + 1)
      BY <1>0, <2>0, DenseTable
    <3>3. \A i \in 1 .. Len(rows[draft[p].run]) : rows[draft[p].run][i].hash \in Seq(Event)
      <4> SUFFICES ASSUME NEW i \in 1 .. Len(rows[draft[p].run])
                   PROVE  rows[draft[p].run][i].hash \in Seq(Event)
        OBVIOUS
      <4>1. rows[draft[p].run] \in Seq(Row)
        BY <1>0, <2>0
      <4>2. rows[draft[p].run][i] \in Row
        BY <4>1, ElementOfSeq
      <4> QED
        BY <4>2 DEF Row
    <3> QED
      BY <3>1, <3>2, <3>3 DEF HashBefore
  <2>2. UNCHANGED rows /\ pc' \in [Proc -> Phase] /\ draft' \in [Proc -> Draft]
    BY <1>0, <1>5, <2>1 DEF ReadHash, Goto, Phase, Draft
  <2>3. ASSUME NEW q \in Proc PROVE DraftCurrent(q)'
    <3>1. CASE q = p
      <4>1. /\ pc'[p] = "insert" /\ rows' = rows
            /\ draft'[p].run = draft[p].run
            /\ draft'[p].seq = draft[p].seq
            /\ draft'[p].prev = LastEventHash(draft[p].run)
        BY <1>0, <1>5 DEF ReadHash, Goto, Draft
      <4>2. draft[p].seq \in 1 .. Len(rows[draft[p].run]) + 1
        BY <1>5 DEF ReadHash, ChainInv, DraftCurrent
      <4> QED
        BY <3>1, <4>1, <4>2 DEF DraftCurrent, LastEventHash
    <3>2. CASE q # p
      BY <1>0, <1>5, <3>2, OtherDrafts DEF ReadHash, Goto
    <3> QED
      BY <3>1, <3>2
  <2> QED
    BY <2>2, <2>3, TableUnchanged
<1>6. ASSUME NEW p \in Proc, InsertRow(p) PROVE ChainInv'
  BY <1>6, InsertKeepsInv
<1>7. ASSUME NEW p \in Proc, InsertFails(p) PROVE ChainInv'
  <2>1. UNCHANGED rows /\ pc' \in [Proc -> Phase] /\ draft' \in [Proc -> Draft]
    BY <1>0, <1>n, <1>7 DEF InsertFails, Fail, Goto, Phase
  <2>2. ASSUME NEW q \in Proc PROVE DraftCurrent(q)'
    BY <1>0, <1>7, OtherDrafts DEF InsertFails, Fail, Goto, DraftCurrent
  <2> QED
    BY <2>1, <2>2, TableUnchanged
<1>8. ASSUME NEW p \in Proc, WriteLine(p) \/ WriteLineFails(p) PROVE ChainInv'
  <2>1. UNCHANGED rows /\ pc' \in [Proc -> Phase] /\ draft' \in [Proc -> Draft]
    BY <1>0, <1>n, <1>8 DEF WriteLine, WriteLineFails, Fail, Goto, Phase
  <2>2. ASSUME NEW q \in Proc PROVE DraftCurrent(q)'
    BY <1>0, <1>8, OtherDrafts DEF WriteLine, WriteLineFails, Fail, Goto, DraftCurrent
  <2> QED
    BY <2>1, <2>2, TableUnchanged
<1>9. ASSUME NEW p \in Proc, RebuildSelect(p) \/ RebuildTruncate(p)
                               \/ RebuildWrite(p) \/ RebuildCut(p)
      PROVE  ChainInv'
  <2>1. UNCHANGED rows /\ pc' \in [Proc -> Phase] /\ draft' \in [Proc -> Draft]
    BY <1>0, <1>9 DEF RebuildSelect, RebuildTruncate, RebuildWrite, RebuildCut, Goto, Phase
  <2>2. ASSUME NEW q \in Proc PROVE DraftCurrent(q)'
    BY <1>0, <1>9, OtherDrafts
       DEF RebuildSelect, RebuildTruncate, RebuildWrite, RebuildCut, Goto, DraftCurrent
  <2> QED
    BY <2>1, <2>2, TableUnchanged
<1>10. ASSUME NEW p \in Proc, Close(p) PROVE ChainInv'
  <2>1. UNCHANGED rows /\ pc' \in [Proc -> Phase] /\ draft' \in [Proc -> Draft]
    BY <1>0, <1>n, <1>10 DEF Close, Goto, Phase
  <2>2. ASSUME NEW q \in Proc PROVE DraftCurrent(q)'
    BY <1>0, <1>10, OtherDrafts DEF Close, Goto, DraftCurrent
  <2> QED
    BY <2>1, <2>2, TableUnchanged
<1>11. CASE UNCHANGED vars
  <2>1. ASSUME NEW q \in Proc PROVE DraftCurrent(q)'
    BY <1>11, OtherDrafts DEF vars
  <2> QED
    BY <1>0, <1>11, <2>1, TableUnchanged DEF vars
<1> QED
  BY <1>1, <1>2, <1>3, <1>4, <1>5, <1>6, <1>7, <1>8, <1>9, <1>10, <1>11 DEF Next

\* The chain invariant holds of event_store.py for every number of processes,
\* runs, payloads and rows.
THEOREM ChainInvariant == Spec => []ChainInv
  BY ChainInvInit, ChainInvNext, PTL DEF Spec

\* The table of event_store.py:34-43 and the drafts of all appends keep their types.
THEOREM TableTypeCorrect == Spec => []TableTypeOK
<1>1. ASSUME ChainInv
      PROVE  TableTypeOK
  <2>1. /\ pc \in [Proc -> Phase] /\ draft \in [Proc -> Draft]
        /\ rows \in [Run -> Seq(Row)]
    BY <1>1 DEF ChainInv
  <2>2. ASSUME NEW r \in Run
        PROVE  /\ DOMAIN rows[r] \subseteq Nat \ {0}
               /\ \A i \in DOMAIN rows[r] : rows[r][i] \in Row
    <3>1. rows[r] \in Seq(Row)
      BY <2>1
    <3>2. DOMAIN rows[r] = 1 .. Len(rows[r]) /\ Len(rows[r]) \in Nat
      BY <3>1
    <3>3. \A i \in 1 .. Len(rows[r]) : rows[r][i] \in Row
      BY <3>1, ElementOfSeq
    <3> QED  BY <3>2, <3>3
  <2> QED  BY <2>1, <2>2 DEF TableTypeOK
<1> QED  BY <1>1, ChainInvariant, PTL

-----------------------------------------------------------------------------
\* What _verify_rows reads as the previous hash, the hash of the last hashed
\* row before i, is that of the row at i - 1, since hashed rows come last.
LEMMA PreviousIsBefore ==
  ASSUME ChainInv, NEW r \in Run, NEW i \in DOMAIN rows[r]
  PROVE  PreviousHash(r, i) = HashBefore(rows[r], i)
<1> DEFINE t == rows[r]
           hashed == {j \in DOMAIN t : j < i /\ t[j].hashed}
<1>1. DOMAIN t = 1 .. Len(t) /\ Len(t) \in Nat
  BY DEF ChainInv
<1>2. CASE i = 1 \/ ~t[i - 1].hashed
  <2>1. ASSUME NEW j \in hashed PROVE FALSE
    <3>1. j \in 1 .. Len(t) /\ j < i /\ t[j].hashed
      BY <1>1
    <3>2. i # 1 /\ i - 1 \in DOMAIN t /\ j <= i - 1
      BY <1>1, <3>1
    <3>3. t[i - 1].hashed
      BY <1>1, <3>1, <3>2 DEF ChainInv, HashedLast
    <3> QED
      BY <1>2, <3>2, <3>3
  <2>2. hashed = {}
    BY <2>1
  <2> QED
    BY <1>2, <2>2 DEF PreviousHash, HashBefore
<1>3. CASE i # 1 /\ t[i - 1].hashed
  <2>1. i - 1 \in hashed /\ \A j \in hashed : i - 1 >= j
    BY <1>1, <1>3
  <2>2. \A x \in hashed : (\A y \in hashed : x >= y) => x = i - 1
    BY <1>1, <2>1
  <2>3. Max(hashed) = i - 1
    BY <2>1, <2>2 DEF Max
  <2> QED
    BY <1>3, <2>1, <2>3 DEF PreviousHash, HashBefore
<1> QED
  BY <1>2, <1>3

\* verify_chain() never reports a row that was appended with hashes, however
\* many processes append at once and wherever they die.
THEOREM ChainAlwaysVerifies == Spec => []ChainVerifies
<1>1. ChainInv => ChainVerifies
  <2> SUFFICES ASSUME ChainInv, NEW r \in Run, NEW i \in DOMAIN rows[r], rows[r][i].hashed
               PROVE  LinkHolds(r, i)
    BY DEF ChainVerifies, VerifyErrors
  <2> QED
    BY PreviousIsBefore DEF LinkHolds, ChainInv, Linked
<1> QED
  BY <1>1, ChainInvariant, PTL

\* The sequence numbers of a run are always 1, 2, ... without a hole.
THEOREM SequencesGapFree == Spec => []GapFree
<1>1. ChainInv => GapFree
  <2> SUFFICES ASSUME ChainInv, NEW r \in Run
               PROVE  DOMAIN rows[r] = 1 .. Cardinality(DOMAIN rows[r])
    BY DEF GapFree
  <2>1. DOMAIN rows[r] = 1 .. Len(rows[r]) /\ Len(rows[r]) \in Nat
    BY DEF ChainInv
  <2>2. Cardinality(1 .. Len(rows[r])) = Len(rows[r])
    BY <2>1, FS_Interval
  <2> QED
    BY <2>1, <2>2
<1> QED
  BY <1>1, ChainInvariant, PTL

-----------------------------------------------------------------------------
\* The log of a run is a sequence, one payload per row.
LEMMA LogOfDense ==
  ASSUME NEW r \in Run, rows \in [Run -> Seq(Row)]
  PROVE  LogOf(r) \in Seq(Event) /\ Len(LogOf(r)) = Len(rows[r])
<1>1. DOMAIN rows[r] = 1 .. Len(rows[r]) /\ Len(rows[r]) \in Nat
  OBVIOUS
<1>2. ASSUME NEW i \in 1 .. Len(rows[r]) PROVE rows[r][i].payload \in Event
  <2>1. rows[r][i] \in Row
    BY ElementOfSeq
  <2> QED
    BY <2>1 DEF Row
<1> QED
  BY <1>1, <1>2 DEF LogOf

\* An insert appends one event to the log of its run.
LEMMA InsertExtendsLog ==
  ASSUME ChainInv, NEW p \in Proc, InsertRow(p)
  PROVE  /\ draft[p].run \in Run /\ draft[p].payload \in Event
         /\ \A r \in Run : LogOf(r)' = IF r = draft[p].run
                                       THEN Append(LogOf(r), draft[p].payload)
                                       ELSE LogOf(r)
<1> DEFINE d == draft[p]
           t == rows[d.run]
           L == LogOf(d.run)
<1>1. /\ d \in Draft /\ d.run \in Run /\ d.payload \in Event /\ t \in Seq(Row)
      /\ rows \in [Run -> Seq(Row)] /\ rows' \in [Run -> Seq(Row)]
  BY InsertKeepsInv DEF ChainInv, Draft
<1>2. DOMAIN t = 1 .. Len(t) /\ Len(t) \in Nat
  BY <1>1
<1>3. d.seq = Len(t) + 1
  <2>1. d.seq \in 1 .. Len(t) + 1 /\ d.seq \notin 1 .. Len(t)
    BY <1>2 DEF ChainInv, DraftCurrent, InsertRow, Vacant
  <2> QED
    BY <1>2, <2>1
<1>4. rows' = [rows EXCEPT ![d.run] = AddRow(t, d)]
  BY DEF InsertRow
<1>5. DOMAIN AddRow(t, d) = 1 .. Len(t) + 1
  BY <1>2, <1>3 DEF AddRow
<1>6. ASSUME NEW r \in Run, r = d.run
      PROVE  LogOf(r)' = Append(LogOf(r), d.payload)
  <2>1. rows'[d.run] = AddRow(t, d)
    BY <1>1, <1>4
  <2>2. L \in Seq(Event) /\ Len(L) = Len(t)
    BY <1>1, LogOfDense
  <2>3. LogOf(r)' = [i \in 1 .. Len(t) + 1 |-> AddRow(t, d)[i].payload]
    BY <1>5, <1>6, <2>1 DEF LogOf
  <2>4. L = [i \in 1 .. Len(t) |-> t[i].payload]
    BY <1>2 DEF LogOf
  <2>5. /\ Append(L, d.payload) \in Seq(Event) /\ Len(Append(L, d.payload)) = Len(t) + 1
        /\ \A i \in 1 .. Len(t) : Append(L, d.payload)[i] = t[i].payload
        /\ Append(L, d.payload)[Len(t) + 1] = d.payload
    BY <1>1, <2>2, <2>4, AppendProperties
  <2>6. ASSUME NEW i \in 1 .. Len(t) + 1
        PROVE  AddRow(t, d)[i].payload = Append(L, d.payload)[i]
    <3>1. CASE i = Len(t) + 1
      BY <1>2, <1>3, <2>5, <3>1 DEF AddRow, NewRow
    <3>2. CASE i \in 1 .. Len(t)
      BY <1>2, <1>3, <2>5, <3>2 DEF AddRow
    <3>3. i = Len(t) + 1 \/ i \in 1 .. Len(t)
      BY <1>2
    <3> QED
      BY <3>1, <3>2, <3>3
  <2>7. Append(L, d.payload) = [i \in 1 .. Len(t) + 1 |-> Append(L, d.payload)[i]]
    BY <1>2, <2>5
  <2> QED
    BY <1>6, <2>3, <2>6, <2>7
<1>7. ASSUME NEW r \in Run \ {d.run} PROVE LogOf(r)' = LogOf(r)
  BY <1>1, <1>4, <1>7 DEF LogOf
<1> QED
  BY <1>1, <1>6, <1>7

\* The store implements one append-only log per run: no step of any process
\* changes or removes an event, or adds one anywhere but at the end.
THEOREM StoreImplementsLog == Spec => ImplementsLog
<1> DEFINE log == [r \in Run |-> LogOf(r)]
<1>1. Init => Log!Init
  <2> SUFFICES ASSUME Init PROVE Log!Init
    OBVIOUS
  <2>1. rows \in [Run -> Seq(Row)]
    BY ChainInvInit DEF ChainInv
  <2>2. log \in [Run -> Seq(Event)]
    BY <2>1, LogOfDense
  <2>3. ASSUME NEW r \in Run PROVE Len(log[r]) <= MaxLegacy
    <3>1. PICK n \in 0 .. MaxLegacy : rows[r] \in [1 .. n -> {LegacyRow(e) : e \in Payload}]
      BY StoreAssumption DEF Init
    <3>2. DOMAIN rows[r] = 1 .. n /\ DOMAIN rows[r] = 1 .. Len(rows[r])
      BY <2>1, <3>1
    <3>3. Len(rows[r]) <= MaxLegacy
      BY <2>1, <3>1, <3>2, StoreAssumption
    <3> QED
      BY <2>1, <3>3, LogOfDense
  <2> QED
    BY <2>2, <2>3 DEF Log!Init
<1>2. ChainInv /\ [Next]_vars => [Log!Next]_log
  <2> SUFFICES ASSUME ChainInv, [Next]_vars PROVE [Log!Next]_log
    OBVIOUS
  <2>1. CASE UNCHANGED rows
    BY <2>1 DEF LogOf
  <2>2. ASSUME NEW p \in Proc, InsertRow(p) PROVE Log!Next
    <3>1. log' = [log EXCEPT ![draft[p].run] = Append(@, draft[p].payload)]
      <4> DEFINE d == draft[p]
      <4>1. log' = [r \in Run |-> LogOf(r)']
        OBVIOUS
      <4>2. \A r \in Run : LogOf(r)' = IF r = d.run THEN Append(LogOf(r), d.payload) ELSE LogOf(r)
        BY <2>2, InsertExtendsLog
      <4>3. [log EXCEPT ![d.run] = Append(@, d.payload)]
              = [r \in Run |-> IF r = d.run THEN Append(LogOf(r), d.payload) ELSE LogOf(r)]
        BY <2>2, InsertExtendsLog
      <4> QED
        BY <4>1, <4>2, <4>3
    <3> QED
      BY <2>2, <3>1, InsertExtendsLog DEF Log!Next, Log!Extend
  <2>3. (\E p \in Proc : InsertRow(p)) \/ UNCHANGED rows
    BY DEF Next, vars, OpenCountRows, OpenCountLines, BeginAppend, ReadSequence, ReadHash,
           InsertFails, WriteLine, WriteLineFails, RebuildSelect, RebuildTruncate,
           RebuildWrite, RebuildCut, Close
  <2> QED
    BY <2>1, <2>2, <2>3
<1> QED
  BY <1>1, <1>2, ChainInvariant, PTL DEF Spec, ImplementsLog, Log!Spec

-----------------------------------------------------------------------------
\* The rows of the table are finitely many, since those of a run are a sequence.
LEMMA KeysAreFinite ==
  ASSUME rows \in [Run -> Seq(Row)]
  PROVE  /\ IsFiniteSet(Keys) /\ RowCount \in Nat /\ Keys \subseteq Key
         /\ \A k : k \in Keys <=> (\E r \in Run : \E i \in DOMAIN rows[r] : k = <<r, i>>)
<1>1. IsFiniteSet(Run)
  <2>1. DOMAIN RunOrder = 1 .. Len(RunOrder) /\ Len(RunOrder) \in Nat
    BY StoreAssumption
  <2>2. RunOrder \in Surjection(DOMAIN RunOrder, Run)
    BY StoreAssumption DEF Surjection, Run, Range
  <2> QED  BY <2>1, <2>2, FS_Interval, FS_Surjection
<1> DEFINE of == [r \in Run |-> {r} \X DOMAIN rows[r]]
           all == {{r} \X DOMAIN rows[r] : r \in Run}
<1>2. IsFiniteSet(all)
  <2>1. of \in Surjection(Run, all)
    BY DEF Surjection
  <2> QED  BY <1>1, <2>1, FS_Surjection
<1>3. ASSUME NEW r \in Run
      PROVE  IsFiniteSet({r} \X DOMAIN rows[r]) /\ DOMAIN rows[r] \subseteq Nat
  <2>1. DOMAIN rows[r] = 1 .. Len(rows[r]) /\ Len(rows[r]) \in Nat
    OBVIOUS
  <2>2. IsFiniteSet(DOMAIN rows[r])
    BY <2>1, FS_Interval
  <2>3. IsFiniteSet({r})
    BY FS_Singleton
  <2>4. IsFiniteSet({r} \X DOMAIN rows[r])
    BY <2>2, <2>3, FS_Product
  <2> QED  BY <2>1, <2>4
<1>4. IsFiniteSet(Keys)
  <2>1. \A T \in all : IsFiniteSet(T)
    BY <1>3
  <2>2. IsFiniteSet(UNION all)
    <3> HIDE DEF all
    <3> QED  BY <1>2, <2>1, FS_UNION
  <2> QED  BY <2>2 DEF Keys
<1>5. \A k : k \in Keys <=> (\E r \in Run : \E i \in DOMAIN rows[r] : k = <<r, i>>)
  BY DEF Keys
<1> QED  BY <1>3, <1>4, <1>5, FS_CardinalityType DEF RowCount, Key

\* SELECT ... ORDER BY run_id, sequence_number returns every row, and none twice: the number
\* of rows up to a row is its place, since the order is total.
LEMMA EveryRowSelected ==
  ASSUME rows \in [Run -> Seq(Row)]
  PROVE  /\ AllKeys \in Seq(Key) /\ Len(AllKeys) = RowCount
         /\ ToSet(AllKeys) = Keys /\ IsInjective(AllKeys)
<1> DEFINE Rank(k) == Cardinality(UpTo(k))
<1>1. /\ IsFiniteSet(Keys) /\ RowCount \in Nat /\ Keys \subseteq Key
      /\ \A k : k \in Keys <=> (\E r \in Run : \E i \in DOMAIN rows[r] : k = <<r, i>>)
  BY KeysAreFinite
<1>2. ASSUME NEW r \in Run
      PROVE  Place(r) \in Nat /\ RunOrder[Place(r)] = r
  <2>1. DOMAIN RunOrder \subseteq Nat
    BY StoreAssumption
  <2>2. \E n \in DOMAIN RunOrder : RunOrder[n] = r
    BY DEF Run, Range
  <2> QED  BY <2>1, <2>2 DEF Place
<1>3. ASSUME NEW k \in Keys
      PROVE  /\ k = <<k[1], k[2]>> /\ k[1] \in Run /\ k[2] \in Nat /\ Place(k[1]) \in Nat
             /\ k \in UpTo(k) /\ UpTo(k) \subseteq Keys
             /\ IsFiniteSet(UpTo(k)) /\ Rank(k) \in 1 .. RowCount
  <2>1. k = <<k[1], k[2]>> /\ k[1] \in Run /\ k[2] \in Nat
    BY <1>1 DEF Key
  <2>2. k \in UpTo(k) /\ UpTo(k) \subseteq Keys
    BY <2>1 DEF UpTo
  <2>3. IsFiniteSet(UpTo(k)) /\ Rank(k) <= RowCount
    BY <1>1, <2>2, FS_Subset DEF RowCount
  <2>4. Rank(k) \in Nat /\ Rank(k) # 0
    BY <2>2, <2>3, FS_CardinalityType, FS_EmptySet
  <2> HIDE DEF Rank
  <2> QED  BY <1>1, <1>2, <2>1, <2>2, <2>3, <2>4
<1>4. ASSUME NEW k \in Keys, NEW l \in Keys, Rank(k) = Rank(l)
      PROVE  k = l
  <2>1. UpTo(k) \subseteq UpTo(l) \/ UpTo(l) \subseteq UpTo(k)
    <3>1. \/ Place(k[1]) < Place(l[1]) \/ Place(l[1]) < Place(k[1])
          \/ Place(k[1]) = Place(l[1])
      BY <1>3
    <3>2. CASE Place(k[1]) < Place(l[1])
      <4>1. ASSUME NEW x \in UpTo(k)
            PROVE  x \in UpTo(l)
        <5>1. x \in Keys /\ Place(x[1]) \in Nat /\ Place(k[1]) \in Nat /\ Place(l[1]) \in Nat
          BY <1>3
        <5>2. Place(x[1]) <= Place(k[1])
          BY <5>1 DEF UpTo
        <5>3. Place(x[1]) < Place(l[1])
          BY <3>2, <5>1, <5>2
        <5> QED  BY <5>1, <5>3 DEF UpTo
      <4> QED  BY <4>1
    <3>3. CASE Place(l[1]) < Place(k[1])
      <4>1. ASSUME NEW x \in UpTo(l)
            PROVE  x \in UpTo(k)
        <5>1. x \in Keys /\ Place(x[1]) \in Nat /\ Place(k[1]) \in Nat /\ Place(l[1]) \in Nat
          BY <1>3
        <5>2. Place(x[1]) <= Place(l[1])
          BY <5>1 DEF UpTo
        <5>3. Place(x[1]) < Place(k[1])
          BY <3>3, <5>1, <5>2
        <5> QED  BY <5>1, <5>3 DEF UpTo
      <4> QED  BY <4>1
    <3>4. CASE Place(k[1]) = Place(l[1])
      <4>1. k[1] = l[1]
        <5>1. RunOrder[Place(k[1])] = k[1]
          BY <1>2, <1>3
        <5>2. RunOrder[Place(l[1])] = l[1]
          BY <1>2, <1>3
        <5> QED  BY <3>4, <5>1, <5>2
      <4>2. k[2] \in Nat /\ l[2] \in Nat /\ \A x \in Keys : x[2] \in Nat
        BY <1>3
      <4>3. CASE k[2] <= l[2]
        BY <4>1, <4>2, <4>3 DEF UpTo
      <4>4. CASE l[2] <= k[2]
        BY <4>1, <4>2, <4>4 DEF UpTo
      <4> QED  BY <4>2, <4>3, <4>4
    <3> QED  BY <3>1, <3>2, <3>3, <3>4
  <2>2. UpTo(k) = UpTo(l)
    BY <1>3, <1>4, <2>1, FS_Subset
  <2>3. /\ Place(l[1]) < Place(k[1]) \/ (l[1] = k[1] /\ l[2] <= k[2])
        /\ Place(k[1]) < Place(l[1]) \/ (k[1] = l[1] /\ k[2] <= l[2])
    BY <1>3, <2>2 DEF UpTo
  <2>4. k[1] = l[1] /\ k[2] = l[2]
    BY <1>3, <2>3
  <2> QED  BY <1>3, <2>4
<1> DEFINE rank == [k \in Keys |-> Rank(k)]
<1> HIDE DEF Rank
<1>5. rank \in Surjection(Keys, 1 .. RowCount)
  <2>1. rank \in Injection(Keys, 1 .. RowCount)
    BY <1>3, <1>4 DEF Injection, IsInjective
  <2>2. IsFiniteSet(1 .. RowCount) /\ Cardinality(1 .. RowCount) = RowCount
    <3>1. \A n \in Nat : IsFiniteSet(1 .. n) /\ Cardinality(1 .. n) = n
      BY FS_Interval
    <3> QED  BY <1>1, <3>1
  <2> QED  BY <2>1, <2>2, FS_Injection DEF RowCount
<1>6. \A i \in 1 .. RowCount : \E k \in Keys : Rank(k) = i
  BY <1>5 DEF Surjection
<1>7. /\ DOMAIN AllKeys = 1 .. RowCount
      /\ \A i \in 1 .. RowCount : AllKeys[i] \in Keys /\ Rank(AllKeys[i]) = i
  BY <1>6 DEF AllKeys, Rank
<1>8. AllKeys \in Seq(Key) /\ Len(AllKeys) = RowCount
  <2>1. AllKeys \in [1 .. RowCount -> Key]
    BY <1>1, <1>7 DEF AllKeys
  <2> QED  BY <1>1, <2>1
<1>9. IsInjective(AllKeys)
  BY <1>7 DEF IsInjective
<1>10. ASSUME NEW k \in Keys
       PROVE  k \in ToSet(AllKeys)
  <2>1. Rank(k) \in 1 .. RowCount
    BY <1>3
  <2>2. AllKeys[Rank(k)] = k
    BY <1>4, <1>7, <2>1
  <2> QED  BY <1>7, <2>1, <2>2 DEF ToSet
<1> QED  BY <1>7, <1>8, <1>9, <1>10 DEF ToSet

\* What a sequence of lines holds: when none is there twice, it has as many lines as lines
\* that differ.
LEMMA LinesOf ==
  ASSUME NEW S, NEW s \in Seq(S)
  PROVE  /\ Len(s) \in Nat /\ DOMAIN s = 1 .. Len(s)
         /\ IsInjective(s) => Cardinality(ToSet(s)) = Len(s)
<1>1. Len(s) \in Nat /\ DOMAIN s = 1 .. Len(s)
  OBVIOUS
<1>2. IsFiniteSet(1 .. Len(s)) /\ Cardinality(1 .. Len(s)) = Len(s)
  BY <1>1, FS_Interval
<1>3. s \in Surjection(1 .. Len(s), ToSet(s))
  BY <1>1 DEF Surjection, ToSet
<1>4. ASSUME IsInjective(s)
      PROVE  Cardinality(ToSet(s)) = Len(s)
  <2>1. s \in Injection(1 .. Len(s), ToSet(s))
    BY <1>1, <1>4 DEF Injection, IsInjective, ToSet
  <2> QED  BY <1>2, <1>3, <2>1, FS_Surjection
<1> QED  BY <1>1, <1>4

\* Damaged lines are not the lines of rows.
LEMMA DamagedIsNoKey ==
  /\ Damaged \cap Key = {} /\ Torn # Garbled
  /\ \A line : Remnant(line) \in Damaged
BY StoreAssumption DEF Damaged, Key, Remnant

\* What is joined from lines of a set that has the damaged ones is lines of that set.
LEMMA JoinWithin ==
  ASSUME NEW S, Damaged \subseteq S, NEW file \in Seq(S), NEW more \in Seq(S)
  PROVE  Join(file, more) \in Seq(S)
<1>1. CASE file # << >> /\ file[Len(file)] = Torn /\ more # << >>
  <2>1. SubSeq(file, 1, Len(file) - 1) \in Seq(S)
    <3>1. Len(file) \in Nat /\ Len(file) # 0
      BY <1>1
    <3>2. \A i \in 1 .. Len(file) - 1 : file[i] \in S
      BY <3>1, ElementOfSeq
    <3> QED  BY <3>1, <3>2, SubSeqProperties
  <2>2. <<Remnant(more[1])>> \in Seq(S)
    <3>1. Remnant(more[1]) \in S
      BY DamagedIsNoKey
    <3> QED  BY <3>1
  <2>3. Tail(more) \in Seq(S)
    BY <1>1
  <2>4. SubSeq(file, 1, Len(file) - 1) \o <<Remnant(more[1])>> \in Seq(S)
    BY <2>1, <2>2
  <2>5. SubSeq(file, 1, Len(file) - 1) \o <<Remnant(more[1])>> \o Tail(more) \in Seq(S)
    BY <2>3, <2>4
  <2> QED  BY <1>1, <2>5 DEF Join
<1>2. CASE ~(file # << >> /\ file[Len(file)] = Torn /\ more # << >>)
  <2>1. file \o more \in Seq(S)
    OBVIOUS
  <2> QED  BY <1>2, <2>1 DEF Join
<1> QED  BY <1>1, <1>2

\* What a rebuild writes, wherever its handle stands, leaves no line but the one it writes,
\* those that were there, and damaged ones.
LEMMA WrittenWithin ==
  ASSUME NEW S, Damaged \subseteq S, NEW file \in Seq(S), NEW n \in Nat, NEW line \in S,
         NEW result \in Written(file, n, line)
  PROVE  result \in Seq(S)
<1>1. CASE n >= Len(file)
  <2>1. result = Join(file, <<IF n = Len(file) THEN line ELSE Remnant(line)>>)
    BY <1>1 DEF Written
  <2>2. <<IF n = Len(file) THEN line ELSE Remnant(line)>> \in Seq(S)
    <3>1. (IF n = Len(file) THEN line ELSE Remnant(line)) \in S
      BY DamagedIsNoKey
    <3> QED  BY <3>1
  <2> QED  BY <2>1, <2>2, JoinWithin
<1>2. CASE ~(n >= Len(file))
  <2> DEFINE after == SubSeq(file, n + 1, Len(file))
  <2>1. /\ after \in Seq(S) /\ after # << >>
        /\ SubSeq(file, 1, n) \in Seq(S)
    <3>1. Len(file) \in Nat /\ n < Len(file)
      BY <1>2
    <3>2. \A i \in 1 .. Len(file) : file[i] \in S
      BY ElementOfSeq
    <3>3. after \in Seq(S) /\ Len(after) = Len(file) - n
      <4>1. n + 1 \in Int /\ Len(file) \in Int /\ \A i \in n + 1 .. Len(file) : file[i] \in S
        BY <3>1, <3>2
      <4>2. /\ after \in Seq(S)
            /\ Len(after) = IF n + 1 <= Len(file) THEN Len(file) - (n + 1) + 1 ELSE 0
        BY <4>1, SubSeqProperties
      <4> HIDE DEF after
      <4> QED  BY <3>1, <4>2
    <3>4. SubSeq(file, 1, n) \in Seq(S)
      BY <3>1, <3>2, SubSeqProperties
    <3> HIDE DEF after
    <3> QED  BY <3>1, <3>3, <3>4
  <2> HIDE DEF after
  <2>2. PICK rest \in Beyond(after) : result = Join(Append(SubSeq(file, 1, n), line), rest)
    BY <1>2 DEF Written, after
  <2>3. rest \in Seq(S)
    <3>1. Tail(after) \in Seq(S)
      BY <2>1
    <3>2. <<Remnant(after[1])>> \o Tail(after) \in Seq(S)
      <4>1. Remnant(after[1]) \in S
        BY DamagedIsNoKey
      <4>2. <<Remnant(after[1])>> \in Seq(S)
        BY <4>1
      <4> QED  BY <3>1, <4>2
    <3>3. ASSUME Len(after) > 1
          PROVE  [Tail(after) EXCEPT ![1] = Remnant(@)] \in Seq(S)
      <4>1. Remnant(Tail(after)[1]) \in S
        BY DamagedIsNoKey
      <4>2. 1 \in 1 .. Len(Tail(after))
        BY <2>1, <3>3
      <4>3. \A x \in S : [Tail(after) EXCEPT ![1] = x] \in Seq(S)
        BY <3>1, <4>2, ExceptSeq
      <4> QED  BY <4>1, <4>3
    <3>4. \/ rest = Tail(after)
          \/ rest = <<Remnant(after[1])>> \o Tail(after)
          \/ Len(after) > 1 /\ rest = [Tail(after) EXCEPT ![1] = Remnant(@)]
      BY <2>2 DEF Beyond
    <3> QED  BY <3>1, <3>2, <3>3, <3>4
  <2>4. Append(SubSeq(file, 1, n), line) \in Seq(S)
    BY <2>1
  <2> QED  BY <2>2, <2>3, <2>4, JoinWithin
<1> QED  BY <1>1, <1>2

\* One line joined to the mirror: it is behind what was there, or has made a piece of a line
\* into one that nobody can read.
LEMMA LineJoined ==
  ASSUME mirror \in Seq(Line), NEW line \in Line, mirror' = Join(mirror, <<line>>)
  PROVE  /\ NothingTwice /\ line \notin Shown => NothingTwice'
         /\ Whole' => /\ Whole /\ mirror' = Append(mirror, line)
                      /\ line \in Key => Shown' = Shown \cup {line}
         /\ Shown' \subseteq Shown \cup {line}
<1> DEFINE n == Len(mirror)
<1>1. n \in Nat /\ DOMAIN mirror = 1 .. n
  OBVIOUS
<1>2. /\ <<line>> # << >> /\ <<line>>[1] = line /\ Tail(<<line>>) = << >>
      /\ mirror \o <<line>> = Append(mirror, line)
  OBVIOUS
<1>3. CASE mirror # << >> /\ mirror[n] = Torn
  <2> DEFINE before == SubSeq(mirror, 1, n - 1)
  <2>1. n # 0
    BY <1>1, <1>3
  <2>2. /\ before \in Seq(Line) /\ Len(before) = n - 1
        /\ \A i \in 1 .. n - 1 : before[i] = mirror[i]
    <3>1. \A i \in 1 .. n - 1 : mirror[i] \in Line
      BY <1>1, ElementOfSeq
    <3> QED  BY <1>1, <2>1, <3>1, SubSeqProperties
  <2> HIDE DEF before
  <2>3. mirror' = before \o <<Remnant(line)>> \o << >>
    BY <1>2, <1>3 DEF Join, before
  <2>4. Remnant(line) \in Line
    BY DamagedIsNoKey DEF Line
  <2>5. mirror' = Append(before, Remnant(line))
    <3>1. Append(before, Remnant(line)) = before \o <<Remnant(line)>>
      BY <2>2, <2>4, AppendIsConcat
    <3>2. Append(before, Remnant(line)) \in Seq(Line)
      BY <2>2, <2>4, AppendProperties
    <3>3. Append(before, Remnant(line)) \o << >> = Append(before, Remnant(line))
      BY <3>2, ConcatEmptySeq
    <3> QED  BY <2>3, <3>1, <3>3
  <2>6. /\ DOMAIN mirror' = 1 .. n /\ mirror'[n] = Remnant(line)
        /\ \A i \in 1 .. n - 1 : mirror'[i] = mirror[i]
    <3> DEFINE all == Append(before, Remnant(line))
    <3>1. /\ all \in Seq(Line) /\ Len(all) = Len(before) + 1
          /\ \A i \in 1 .. Len(before) : all[i] = before[i]
          /\ all[Len(before) + 1] = Remnant(line)
      BY <2>2, <2>4, AppendProperties
    <3>2. DOMAIN all = 1 .. Len(all)
      BY <3>1
    <3>3. mirror' = all
      BY <2>5
    <3> HIDE DEF all
    <3>4. Len(before) + 1 = n
      BY <1>1, <2>2
    <3>5. DOMAIN all = 1 .. n /\ all[n] = Remnant(line)
      BY <3>1, <3>2, <3>4
    <3>6. \A i \in 1 .. n - 1 : all[i] = mirror[i]
      BY <2>2, <3>1
    <3> QED  BY <3>3, <3>5, <3>6
  <2>7. Remnant(line) \in Damaged /\ Remnant(line) \notin Key
    BY DamagedIsNoKey
  <2>8. \A i \in 1 .. n : i = n \/ i \in 1 .. n - 1
    <3> HIDE DEF n
    <3> QED  BY <1>1
  <2>9. ~Whole'
    BY <1>1, <2>1, <2>6, <2>7 DEF Whole
  <2>10. Shown' \subseteq Shown
    BY <1>1, <2>6, <2>7, <2>8 DEF Shown, ToSet
  <2>11. ASSUME NothingTwice PROVE NothingTwice'
    <3> SUFFICES ASSUME NEW i \in 1 .. n, NEW j \in 1 .. n, mirror'[i] = mirror'[j],
                        mirror'[i] \in Key
                 PROVE  i = j
      BY <2>6 DEF NothingTwice
    <3>1. i \in 1 .. n - 1 /\ j \in 1 .. n - 1
      BY <2>6, <2>7, <2>8
    <3> QED  BY <1>1, <2>6, <2>11, <3>1 DEF NothingTwice
  <2> QED  BY <2>9, <2>10, <2>11
<1>4. CASE ~(mirror # << >> /\ mirror[n] = Torn)
  <2>1. mirror' = Append(mirror, line)
    BY <1>2, <1>4 DEF Join
  <2>2. /\ DOMAIN mirror' = 1 .. n + 1 /\ mirror'[n + 1] = line
        /\ \A i \in 1 .. n : mirror'[i] = mirror[i]
    BY <1>1, <2>1, AppendProperties
  <2>3. \A i \in 1 .. n + 1 : i = n + 1 \/ i \in 1 .. n
    BY <1>1
  <2>4. Shown' = (Shown \cup {line}) \cap Key
    <3>1. ToSet(mirror') \subseteq ToSet(mirror) \cup {line}
      BY <1>1, <2>2, <2>3 DEF ToSet
    <3>2. ToSet(mirror) \subseteq ToSet(mirror')
      <4>1. ASSUME NEW i \in 1 .. n PROVE mirror[i] \in ToSet(mirror')
        <5>1. i \in DOMAIN mirror' /\ mirror'[i] = mirror[i]
          BY <1>1, <2>2
        <5> QED  BY <5>1 DEF ToSet
      <4> QED  BY <1>1, <4>1 DEF ToSet
    <3>3. line \in ToSet(mirror')
      <4>1. n + 1 \in DOMAIN mirror'
        BY <1>1, <2>2
      <4> QED  BY <2>2, <4>1 DEF ToSet
    <3> QED  BY <3>1, <3>2, <3>3 DEF Shown
  <2>5. ASSUME Whole' PROVE Whole
    BY <1>1, <2>2, <2>5 DEF Whole
  <2>6. ASSUME NothingTwice, line \notin Shown PROVE NothingTwice'
    <3> SUFFICES ASSUME NEW i \in 1 .. n + 1, NEW j \in 1 .. n + 1, mirror'[i] = mirror'[j],
                        mirror'[i] \in Key
                 PROVE  i = j
      BY <2>2 DEF NothingTwice
    <3>1. \A m \in 1 .. n : mirror[m] \in Key => mirror[m] # line
      BY <1>1, <2>6 DEF Shown, ToSet
    <3>2. \/ i = n + 1 /\ j = n + 1
          \/ i \in 1 .. n /\ j \in 1 .. n
      BY <2>2, <2>3, <3>1
    <3> QED  BY <1>1, <2>2, <2>6, <3>2 DEF NothingTwice
  <2>7. line \in Key => Shown' = Shown \cup {line}
    BY <2>4 DEF Shown
  <2>8. Shown' \subseteq Shown \cup {line}
    BY <2>4
  <2> QED  BY <2>1, <2>5, <2>6, <2>7, <2>8
<1> QED  BY <1>3, <1>4

-----------------------------------------------------------------------------
\* The line of a row is a key.
LEMMA LineIsKey ==
  ASSUME draft \in [Proc -> Draft], NEW p \in Proc
  PROVE  LineOf(p) \in Key
BY DEF LineOf, Draft, Key

\* The rows that an insert adds to: the one of the draft, which was not there.
LEMMA InsertAddsKey ==
  ASSUME ChainInv, NEW p \in Proc, InsertRow(p)
  PROVE  /\ rows' \in [Run -> Seq(Row)]
         /\ Keys' = Keys \cup {LineOf(p)} /\ LineOf(p) \notin Keys
         /\ LineOf(p)' = LineOf(p)
<1> DEFINE d == draft[p]
<1>1. /\ rows \in [Run -> Seq(Row)] /\ rows' \in [Run -> Seq(Row)]
      /\ d \in Draft /\ d.run \in Run
  BY InsertKeepsInv DEF ChainInv, Draft
<1>2. /\ rows' = [rows EXCEPT ![d.run] = AddRow(rows[d.run], d)]
      /\ d.seq \notin DOMAIN rows[d.run] /\ draft' = draft
  BY DEF InsertRow, Vacant
<1>3. /\ DOMAIN rows'[d.run] = DOMAIN rows[d.run] \cup {d.seq}
      /\ \A r \in Run \ {d.run} : rows'[r] = rows[r]
  BY <1>1, <1>2 DEF AddRow
<1>4. LineOf(p) = <<d.run, d.seq>> /\ LineOf(p)' = LineOf(p)
  BY <1>2 DEF LineOf
<1>5. Keys' = UNION {{r} \X DOMAIN rows'[r] : r \in Run}
  BY DEF Keys
<1>6. \A k : k \in Keys' <=> k \in Keys \/ k = <<d.run, d.seq>>
  <2>1. \A k : k \in Keys <=> (\E r \in Run : \E i \in DOMAIN rows[r] : k = <<r, i>>)
    BY DEF Keys
  <2>2. \A k : k \in Keys' <=> (\E r \in Run : \E i \in DOMAIN rows'[r] : k = <<r, i>>)
    BY <1>5
  <2>3. \A k : k \in Keys' => k \in Keys \/ k = <<d.run, d.seq>>
    BY <1>3, <2>1, <2>2
  <2>4. \A k : k \in Keys => k \in Keys'
    BY <1>3, <2>1, <2>2
  <2>5. <<d.run, d.seq>> \in Keys'
    BY <1>1, <1>3, <2>2
  <2> QED  BY <2>3, <2>4, <2>5
<1>7. <<d.run, d.seq>> \notin Keys
  BY <1>2 DEF Keys
<1> QED  BY <1>1, <1>4, <1>6, <1>7

\* Equal rows: equal keys, counted and selected alike.
LEMMA SameRowsSameKeys ==
  ASSUME rows' = rows
  PROVE  Keys' = Keys /\ RowCount' = RowCount /\ AllKeys' = AllKeys
<1>1. Keys' = Keys
  BY DEF Keys
<1>2. RowCount' = RowCount
  BY <1>1 DEF RowCount
<1>3. ASSUME NEW k
      PROVE  UpTo(k)' = UpTo(k)
  BY <1>1 DEF UpTo
<1>4. AllKeys' = AllKeys
  BY <1>1, <1>2, <1>3 DEF AllKeys
<1> QED  BY <1>1, <1>2, <1>4

\* A store is only not shared while a process is alone in it.
LEMMA AloneAfterGoto ==
  ASSUME pc \in [Proc -> Phase], MirrorTypeOK, NEW p \in Proc, NEW phase \in Phase,
         Goto(p, phase), ~shared', Lone
  PROVE  /\ ~shared /\ pc'[p] = phase
         /\ \A q \in Proc \ {p} : pc'[q] = pc[q] /\ (phase # "closed" => pc'[q] = "closed")
         /\ \A q, q2 \in Proc : pc'[q] # "closed" /\ pc'[q2] # "closed" => q = q2
BY DEF Goto, Lone, MirrorTypeOK

\* A process that is alone in the store has only its own step to answer for.
LEMMA LoneKept ==
  ASSUME pc \in [Proc -> Phase], MirrorTypeOK, NEW p \in Proc, NEW phase \in Phase,
         Goto(p, phase), ~shared', Lone, pc[p] # "closed" \/ phase # "closed",
         NothingTwice', phase # "closed" => LoneStep(p)'
  PROVE  Lone'
<1>1. /\ pc'[p] = phase
      /\ \A q \in Proc \ {p} : pc'[q] = pc[q] /\ (phase # "closed" => pc'[q] = "closed")
      /\ \A q, q2 \in Proc : pc'[q] # "closed" /\ pc'[q2] # "closed" => q = q2
  BY AloneAfterGoto
<1>2. ASSUME NEW q \in Proc
      PROVE  LoneStep(q)'
  <2>1. CASE pc'[q] = "closed"
    BY <2>1 DEF LoneStep
  <2>2. CASE pc'[q] # "closed" /\ q # p
    BY <1>1, <2>2 DEF Lone
  <2>3. CASE pc'[q] # "closed" /\ q = p
    BY <1>1, <2>3
  <2> QED  BY <2>1, <2>2, <2>3
<1> QED  BY <1>1, <1>2 DEF Lone

\* The mirror and the table, seen through equal rows and an equal file.
LEMMA SameFileSameLines ==
  ASSUME mirror' = mirror
  PROVE  Shown' = Shown /\ Whole' = Whole /\ NothingTwice' = NothingTwice
<1>1. Shown' = Shown
  BY DEF Shown
<1> QED  BY <1>1 DEF Whole, NothingTwice

LEMMA MirrorInvInit == Init => MirrorInv
<1> SUFFICES ASSUME Init PROVE MirrorInv
  OBVIOUS
<1>1. rows \in [Run -> Seq(Row)]
  BY ChainInvInit DEF ChainInv
<1>2. /\ mirror \in Seq(Key) /\ ToSet(mirror) = Keys /\ IsInjective(mirror)
      /\ DOMAIN mirror = 1 .. Len(mirror)
  BY <1>1, EveryRowSelected DEF Init
<1>3. mirror \in Seq(Line) /\ mirror \in Seq(Keys \cup Damaged)
  <2>1. \A i \in 1 .. Len(mirror) : mirror[i] \in Keys
    BY <1>2 DEF ToSet
  <2>2. mirror = [i \in 1 .. Len(mirror) |-> mirror[i]] /\ Len(mirror) \in Nat
    BY <1>2
  <2>3. mirror \in Seq(Keys \cup Damaged)
    BY <2>1, <2>2
  <2> QED  BY <1>2, <2>3, SeqMonotonic DEF Line
<1>4. MirrorTypeOK
  <2>1. << >> \in Seq(Key)
    OBVIOUS
  <2> QED  BY <1>3, <2>1 DEF Init, MirrorTypeOK
<1>5. Committed
  <2>1. << >> \in Seq(Keys)
    OBVIOUS
  <2> QED  BY <1>3, <2>1 DEF Init, Committed
<1>6. NothingTwice
  BY <1>2 DEF NothingTwice, IsInjective
<1>7. Lone
  BY <1>6 DEF Init, Lone, LoneStep
<1> QED  BY <1>4, <1>5, <1>7 DEF MirrorInv

\* Drafts and dumps keep to committed rows when the table stays and only p goes elsewhere.
LEMMA CommittedKept ==
  ASSUME ChainInv, MirrorInv, rows' = rows, NEW p \in Proc, NEW phase \in Phase,
         Goto(p, phase), phase # "write_line", \A q \in Proc \ {p} : draft'[q] = draft[q],
         mirror' \in Seq(Keys \cup Damaged),
         \A q \in Proc : dump'[q] = dump[q] \/ dump'[q] \in Seq(Keys)
  PROVE  Committed'
<1>1. pc \in [Proc -> Phase] /\ Committed
  BY DEF ChainInv, MirrorInv
<1>2. Keys' = Keys
  BY SameRowsSameKeys
<1>3. ASSUME NEW q \in Proc
      PROVE  dump'[q] \in Seq(Keys)
  BY <1>1 DEF Committed
<1>4. ASSUME NEW q \in Proc, pc'[q] = "write_line"
      PROVE  LineOf(q)' \in Keys
  <2>1. q # p /\ pc[q] = "write_line"
    BY <1>1, <1>4 DEF Goto
  <2>2. LineOf(q)' = LineOf(q)
    BY <2>1 DEF LineOf
  <2> QED  BY <1>1, <2>1, <2>2 DEF Committed
<1> QED  BY <1>2, <1>3, <1>4 DEF Committed

\* A step that leaves the rows and the mirror alone keeps the mirror's invariant if what it
\* reads or selects is what there is.
LEMMA MirrorUntouched ==
  ASSUME ChainInv, MirrorInv, UNCHANGED <<rows, mirror>>, NEW p \in Proc, NEW phase \in Phase,
         Goto(p, phase), pc[p] # "closed" \/ phase # "closed",
         phase # "write_line", \A q \in Proc \ {p} : draft'[q] = draft[q],
         seen' \in [Proc -> Nat], dump' \in [Proc -> Seq(Key)],
         wrote' \in [Proc -> Nat], failed' \subseteq Proc,
         \A q \in Proc : dump'[q] = dump[q] \/ dump'[q] \in Seq(Keys),
         ~shared /\ ~shared' /\ LoneStep(p) /\ phase # "closed" => LoneStep(p)'
  PROVE  MirrorInv'
<1>1. pc \in [Proc -> Phase] /\ MirrorTypeOK /\ Committed
  BY DEF ChainInv, MirrorInv
<1>2. MirrorTypeOK'
  BY <1>1 DEF MirrorTypeOK, Goto
<1>3. Committed'
  <2>1. mirror' \in Seq(Keys \cup Damaged)
    BY <1>1 DEF Committed
  <2> QED  BY <2>1, CommittedKept
<1>4. ASSUME ~shared'
      PROVE  Lone'
  <2>1. ~shared
    BY <1>4 DEF Goto
  <2>2. Lone
    BY <2>1 DEF MirrorInv
  <2>3. NothingTwice'
    BY <2>2, SameFileSameLines DEF Lone
  <2>4. phase # "closed" => LoneStep(p)'
    BY <1>4, <2>1, <2>2 DEF Lone
  <2> QED  BY <1>1, <1>4, <2>2, <2>3, <2>4, LoneKept
<1> QED  BY <1>2, <1>3, <1>4 DEF MirrorInv

\* The end of a process or of an append: closed, the mirror's invariant asks nothing of it
\* but that it left whole or damaged lines of rows, none of them twice.
LEMMA MirrorAfterEnd ==
  ASSUME ChainInv, MirrorInv, rows' = rows, NEW p \in Proc, Goto(p, "closed"),
         pc[p] # "closed", \A q \in Proc \ {p} : draft'[q] = draft[q],
         seen' \in [Proc -> Nat], dump' \in [Proc -> Seq(Key)],
         wrote' \in [Proc -> Nat], failed' \subseteq Proc,
         \A q \in Proc : dump'[q] = dump[q] \/ dump'[q] \in Seq(Keys),
         mirror' \in Seq(Keys \cup Damaged),
         Lone /\ ~shared /\ ~shared' => NothingTwice'
  PROVE  MirrorInv'
<1>1. /\ pc \in [Proc -> Phase] /\ MirrorTypeOK /\ Committed /\ "closed" \in Phase
      /\ "closed" # "write_line"
  BY DEF ChainInv, MirrorInv, Phase
<1>2. Committed'
  BY <1>1, CommittedKept
<1>3. MirrorTypeOK'
  <2>1. Keys \subseteq Key
    BY KeysAreFinite DEF ChainInv
  <2>2. mirror' \in Seq(Line)
    BY <2>1, SeqMonotonic DEF Line
  <2> QED  BY <1>1, <2>2 DEF MirrorTypeOK, Goto
<1>4. ASSUME ~shared'
      PROVE  Lone'
  <2>1. ~shared
    BY <1>4 DEF Goto
  <2>2. Lone
    BY <2>1 DEF MirrorInv
  <2> QED  BY <1>1, <1>4, <2>1, <2>2, LoneKept
<1> QED  BY <1>2, <1>3, <1>4 DEF MirrorInv

\* The line of an event, or a piece of it, behind the mirror.
LEMMA LineWritten ==
  ASSUME ChainInv, MirrorInv, NEW p \in Proc, pc[p] = "write_line", NEW line \in {LineOf(p), Torn},
         mirror' = Join(mirror, <<line>>)
  PROVE  /\ mirror' \in Seq(Keys \cup Damaged)
         /\ Lone => NothingTwice'
         /\ Whole' => Whole /\ line = LineOf(p) /\ Shown' = Shown \cup {line}
<1>1. /\ pc \in [Proc -> Phase] /\ MirrorTypeOK /\ Committed /\ rows \in [Run -> Seq(Row)]
      /\ mirror \in Seq(Line) /\ mirror \in Seq(Keys \cup Damaged)
  BY DEF ChainInv, MirrorInv, MirrorTypeOK, Committed
<1>2. Keys \subseteq Key
  BY <1>1, KeysAreFinite
<1>3. LineOf(p) \in Keys /\ line \in Keys \cup Damaged /\ line \in Line
  BY <1>1, <1>2 DEF Committed, Damaged, Line
<1>4. mirror' \in Seq(Keys \cup Damaged)
  <2>1. <<line>> \in Seq(Keys \cup Damaged)
    BY <1>3
  <2> QED  BY <1>1, <2>1, JoinWithin
<1>5. /\ NothingTwice /\ line \notin Shown => NothingTwice'
      /\ Whole' => /\ Whole /\ mirror' = Append(mirror, line)
                   /\ line \in Key => Shown' = Shown \cup {line}
  BY <1>1, <1>3, LineJoined
<1>6. Lone => line \notin Shown
  <2>1. line = Torn => line \notin Shown
    BY DamagedIsNoKey DEF Shown, Damaged
  <2>2. line = LineOf(p) /\ Lone => line \notin Shown
    BY DEF Lone, LoneStep
  <2> QED  BY <2>1, <2>2
<1>7. Whole' => line # Torn
  <2> SUFFICES ASSUME mirror' = Append(mirror, Torn) PROVE ~Whole'
    BY <1>5
  <2>1. Len(mirror) + 1 \in DOMAIN mirror' /\ mirror'[Len(mirror) + 1] = Torn
    BY <1>1, AppendProperties
  <2> QED  BY <2>1 DEF Whole, Damaged
<1> QED  BY <1>2, <1>3, <1>4, <1>5, <1>6, <1>7 DEF Lone

\* Every step keeps the mirror's invariant.
LEMMA MirrorInvNext == ChainInv /\ MirrorInv /\ [Next]_vars => MirrorInv'
<1> SUFFICES ASSUME ChainInv, MirrorInv, [Next]_vars PROVE MirrorInv'
  OBVIOUS
<1>0. /\ pc \in [Proc -> Phase] /\ draft \in [Proc -> Draft] /\ rows \in [Run -> Seq(Row)]
      /\ mirror \in Seq(Line) /\ seen \in [Proc -> Nat] /\ dump \in [Proc -> Seq(Key)]
      /\ wrote \in [Proc -> Nat] /\ failed \subseteq Proc
      /\ mirror \in Seq(Keys \cup Damaged)
      /\ MirrorTypeOK /\ Committed
  BY DEF ChainInv, MirrorInv, MirrorTypeOK, Committed
<1>k. IsFiniteSet(Keys) /\ RowCount \in Nat /\ Keys \subseteq Key
  BY <1>0, KeysAreFinite
<1>e. << >> \in Seq(Key) /\ << >> \in Seq(Keys) /\ << >> \in Seq(Keys \cup Damaged)
      /\ << >> \in Seq(Line)
  OBVIOUS
<1>1. ASSUME NEW p \in Proc, OpenCountRows(p) PROVE MirrorInv'
  <2>1. "count_lines" \in Phase
    BY DEF Phase
  <2>2. /\ UNCHANGED <<rows, mirror, wrote, failed>> /\ Goto(p, "count_lines")
        /\ draft' = draft /\ dump' = dump
        /\ seen' \in [Proc -> Nat] /\ seen'[p] = RowCount
    BY <1>0, <1>k, <1>1 DEF OpenCountRows
  <2>3. LoneStep(p)'
    <3>1. pc'[p] = "count_lines"
      BY <1>0, <2>2 DEF Goto
    <3>2. RowCount' = RowCount
      BY <2>2, SameRowsSameKeys
    <3> QED  BY <2>2, <3>1, <3>2 DEF LoneStep
  <2> QED  BY <1>0, <2>1, <2>2, <2>3, MirrorUntouched
<1>2. ASSUME NEW p \in Proc, OpenCountLines(p) PROVE MirrorInv'
  <2>1. /\ UNCHANGED <<rows, mirror, wrote, failed>> /\ dump' = dump /\ seen' \in [Proc -> Nat]
        /\ \A q \in Proc \ {p} : draft'[q] = draft[q]
    BY <1>0, <1>2 DEF OpenCountLines
  <2>2. CASE seen[p] = Len(mirror)
    <3>1. Goto(p, "open") /\ "open" \in Phase /\ pc'[p] = "open"
      BY <1>0, <1>2, <2>2 DEF OpenCountLines, Goto, Phase
    <3>2. ASSUME ~shared, ~shared', LoneStep(p)
          PROVE  LoneStep(p)'
      <4>1. ASSUME Whole PROVE Shown = Keys
        <5>1. seen[p] = RowCount /\ NothingTwice
          BY <1>2, <3>2 DEF OpenCountLines, LoneStep, MirrorInv, Lone
        <5>2. DOMAIN mirror = 1 .. Len(mirror)
          BY <1>0
        <5>3. \A i \in DOMAIN mirror : mirror[i] \in Keys
          <6>1. \A i \in 1 .. Len(mirror) : mirror[i] \in Keys \cup Damaged
            BY <1>0, ElementOfSeq
          <6> QED  BY <4>1, <5>2, <6>1 DEF Whole
        <5>4. IsInjective(mirror) /\ Shown = ToSet(mirror) /\ Shown \in SUBSET Keys
          BY <1>k, <5>1, <5>3 DEF NothingTwice, IsInjective, Shown, ToSet
        <5>5. Cardinality(Shown) = Cardinality(Keys)
          BY <1>0, <2>2, <5>1, <5>4, LinesOf DEF RowCount
        <5> QED  BY <1>k, <5>4, <5>5, FS_Subset
      <4>2. Whole' => Shown' = Keys'
        BY <2>1, <4>1, SameRowsSameKeys, SameFileSameLines
      <4> QED  BY <3>1, <4>2 DEF LoneStep
    <3> QED  BY <1>0, <2>1, <3>1, <3>2, MirrorUntouched
  <2>3. CASE seen[p] # Len(mirror)
    <3>1. /\ Goto(p, "read_seq") /\ "read_seq" \in Phase /\ pc'[p] = "read_seq"
          /\ draft'[p].payload = Warning
      BY <1>0, <1>2, <2>3 DEF OpenCountLines, Goto, Phase, NoDraft
    <3>2. LoneStep(p)'
      BY <3>1 DEF LoneStep
    <3> QED  BY <1>0, <2>1, <3>1, <3>2, MirrorUntouched
  <2> QED  BY <2>2, <2>3
<1>3. ASSUME NEW p \in Proc, NEW r \in Run \ {System}, NEW e \in Payload, BeginAppend(p, r, e)
      PROVE  MirrorInv'
  <2>1. /\ UNCHANGED <<rows, mirror, wrote, failed>> /\ dump' = dump /\ seen' = seen
        /\ pc[p] = "open"
        /\ \A q \in Proc \ {p} : draft'[q] = draft[q]
        /\ Goto(p, "read_seq") /\ "read_seq" \in Phase /\ pc'[p] = "read_seq"
    BY <1>0, <1>3 DEF BeginAppend, Goto, Phase
  <2>2. ASSUME LoneStep(p)
        PROVE  LoneStep(p)'
    <3>1. p \notin failed' /\ Whole' => Shown' = Keys'
      BY <2>1, <2>2, SameRowsSameKeys, SameFileSameLines DEF LoneStep
    <3> QED  BY <2>1, <3>1 DEF LoneStep
  <2> QED  BY <1>0, <2>1, <2>2, MirrorUntouched
<1>4. ASSUME NEW p \in Proc, ReadSequence(p) \/ ReadHash(p) PROVE MirrorInv'
  <2>1. /\ UNCHANGED <<rows, mirror, wrote, failed>> /\ dump' = dump /\ seen' = seen
        /\ \A q \in Proc \ {p} : draft'[q] = draft[q]
        /\ pc[p] \in {"read_seq", "read_hash"} /\ draft'[p].payload = draft[p].payload
    BY <1>0, <1>4 DEF ReadSequence, ReadHash, Draft
  <2>2. PICK phase \in {"read_hash", "insert"} : Goto(p, phase) /\ pc'[p] = phase
    BY <1>0, <1>4 DEF ReadSequence, ReadHash, Goto
  <2>3. phase \in Phase /\ phase # "closed" /\ phase # "write_line"
    BY <2>2 DEF Phase
  <2>4. ASSUME LoneStep(p)
        PROVE  LoneStep(p)'
    <3>1. draft[p].payload # Warning /\ p \notin failed' /\ Whole' => Shown' = Keys'
      BY <2>1, <2>4, SameRowsSameKeys, SameFileSameLines DEF LoneStep
    <3> QED  BY <2>1, <2>2, <3>1 DEF LoneStep
  <2> QED  BY <1>0, <2>1, <2>2, <2>3, <2>4, MirrorUntouched
<1>5. ASSUME NEW p \in Proc, InsertRow(p) PROVE MirrorInv'
  <2>1. /\ UNCHANGED <<mirror, draft, dump, seen, wrote, failed>> /\ pc[p] = "insert"
        /\ Goto(p, "write_line") /\ "write_line" \in Phase /\ pc'[p] = "write_line"
    BY <1>0, <1>5 DEF InsertRow, Goto, Phase
  <2>2. /\ Keys' = Keys \cup {LineOf(p)} /\ LineOf(p) \notin Keys
        /\ \A q \in Proc : LineOf(q)' = LineOf(q)
    BY <1>5, <2>1, InsertAddsKey DEF LineOf
  <2>3. MirrorTypeOK'
    BY <1>0, <2>1 DEF MirrorTypeOK, Goto
  <2>4. Committed'
    <3>1. ASSUME NEW q \in Proc, pc'[q] = "write_line"
          PROVE  LineOf(q) \in Keys \cup {LineOf(p)}
      BY <1>0, <2>1, <3>1 DEF Goto, Committed
    <3>2. Keys \subseteq Keys' /\ Keys \cup Damaged \subseteq Keys' \cup Damaged
      BY <2>2
    <3>3. mirror' \in Seq(Keys' \cup Damaged)
      BY <1>0, <2>1, <3>2, SeqMonotonic
    <3>4. ASSUME NEW q \in Proc PROVE dump'[q] \in Seq(Keys')
      <4>1. dump[q] \in Seq(Keys)
        BY <1>0 DEF Committed
      <4> QED  BY <2>1, <3>2, <4>1, SeqMonotonic
    <3> QED  BY <2>2, <3>1, <3>3, <3>4 DEF Committed, Damaged
  <2>5. ASSUME ~shared'
        PROVE  Lone'
    <3>1. Lone
      BY <2>1, <2>5 DEF Goto, MirrorInv
    <3>2. LineOf(p) \notin Shown
      <4>1. \A i \in 1 .. Len(mirror) : mirror[i] \in Keys \cup Damaged
        BY <1>0, ElementOfSeq
      <4>2. DOMAIN mirror = 1 .. Len(mirror)
        BY <1>0
      <4> QED  BY <2>2, <4>1, <4>2, DamagedIsNoKey DEF Shown, ToSet
    <3>3. draft[p].payload # Warning /\ p \notin failed /\ Whole => Shown = Keys
      BY <2>1, <3>1 DEF Lone, LoneStep
    <3>4. LoneStep(p)'
      BY <2>1, <2>2, <3>2, <3>3, SameFileSameLines DEF LoneStep
    <3>5. NothingTwice'
      BY <2>1, <3>1, SameFileSameLines DEF Lone
    <3> QED  BY <1>0, <2>1, <2>5, <3>1, <3>4, <3>5, LoneKept
  <2> QED  BY <2>3, <2>4, <2>5 DEF MirrorInv
<1>6. ASSUME NEW p \in Proc, InsertFails(p) PROVE MirrorInv'
  <2>1. /\ UNCHANGED <<rows, mirror, seen, dump, wrote, failed>> /\ pc[p] = "insert"
        /\ \A q \in Proc \ {p} : draft'[q] = draft[q]
    BY <1>0, <1>6 DEF InsertFails, Fail
  <2>2. CASE draft[p].payload = Warning
    <3>1. Goto(p, "closed")
      BY <1>6, <2>2 DEF InsertFails, Fail
    <3>2. Lone => NothingTwice'
      BY <2>1, SameFileSameLines DEF Lone
    <3> QED  BY <1>0, <2>1, <3>1, <3>2, MirrorAfterEnd
  <2>3. CASE draft[p].payload # Warning
    <3>1. Goto(p, "open") /\ pc'[p] = "open" /\ "open" \in Phase
      BY <1>0, <1>6, <2>3 DEF InsertFails, Fail, Goto, Phase
    <3>2. ASSUME LoneStep(p)
          PROVE  LoneStep(p)'
      <4>1. p \notin failed' /\ Whole' => Shown' = Keys'
        BY <2>1, <2>3, <3>2, SameRowsSameKeys, SameFileSameLines DEF LoneStep
      <4> QED  BY <3>1, <4>1 DEF LoneStep
    <3> QED  BY <1>0, <2>1, <3>1, <3>2, MirrorUntouched
  <2> QED  BY <2>2, <2>3
<1>7. ASSUME NEW p \in Proc, WriteLine(p) PROVE MirrorInv'
  <2>1. /\ UNCHANGED <<rows, seen, dump, wrote, failed>> /\ pc[p] = "write_line"
        /\ mirror' = Join(mirror, <<LineOf(p)>>)
        /\ \A q \in Proc \ {p} : draft'[q] = draft[q]
    BY <1>0, <1>7 DEF WriteLine
  <2>2. PICK phase \in {"rebuild_select", "open"} :
          /\ phase = IF draft[p].payload = Warning THEN "rebuild_select" ELSE "open"
          /\ Goto(p, phase) /\ pc'[p] = phase
    BY <1>0, <1>7 DEF WriteLine, Goto
  <2>3. phase \in Phase /\ phase # "closed" /\ phase # "write_line"
    BY <2>2 DEF Phase
  <2>4. /\ mirror' \in Seq(Keys \cup Damaged)
        /\ Lone => NothingTwice'
        /\ Whole' => Whole /\ Shown' = Shown \cup {LineOf(p)}
    BY <2>1, LineWritten
  <2>5. Keys' = Keys
    BY <2>1, SameRowsSameKeys
  <2>6. MirrorTypeOK'
    <3>1. Keys \cup Damaged \subseteq Line
      BY <1>k DEF Line
    <3>2. mirror' \in Seq(Line)
      BY <2>4, <3>1, SeqMonotonic
    <3> QED  BY <1>0, <2>1, <2>2, <3>2 DEF MirrorTypeOK, Goto
  <2>7. Committed'
    BY <2>1, <2>2, <2>3, <2>4, CommittedKept
  <2>8. ASSUME ~shared'
        PROVE  Lone'
    <3>1. Lone
      BY <2>2, <2>8 DEF Goto, MirrorInv
    <3>2. draft[p].payload # Warning /\ p \notin failed /\ Whole => Keys = Shown \cup {LineOf(p)}
      BY <2>1, <3>1 DEF Lone, LoneStep
    <3>3. LoneStep(p)'
      <4>1. phase = "open" /\ p \notin failed' /\ Whole' => Shown' = Keys'
        BY <2>1, <2>2, <2>4, <2>5, <3>2
      <4> QED  BY <2>2, <4>1 DEF LoneStep
    <3> QED  BY <1>0, <2>2, <2>3, <2>4, <2>8, <3>1, <3>3, LoneKept
  <2> QED  BY <2>6, <2>7, <2>8 DEF MirrorInv
<1>8. ASSUME NEW p \in Proc, WriteLineFails(p) PROVE MirrorInv'
  <2>1. /\ UNCHANGED <<rows, seen, dump, wrote>> /\ pc[p] = "write_line"
        /\ mirror' = mirror \/ mirror' = Join(mirror, <<Torn>>)
        /\ \A q \in Proc \ {p} : draft'[q] = draft[q]
        /\ failed' \subseteq Proc /\ (draft[p].payload # Warning => p \in failed')
    BY <1>0, <1>8 DEF WriteLineFails, Fail
  <2>2. /\ mirror' \in Seq(Keys \cup Damaged)
        /\ Lone => NothingTwice'
    <3>1. CASE mirror' = mirror
      BY <1>0, <3>1, SameFileSameLines DEF Lone
    <3>2. CASE mirror' = Join(mirror, <<Torn>>)
      BY <2>1, <3>2, LineWritten
    <3> QED  BY <2>1, <3>1, <3>2
  <2>3. CASE draft[p].payload = Warning
    <3>1. Goto(p, "closed")
      BY <1>8, <2>3 DEF WriteLineFails, Fail
    <3> QED  BY <1>0, <2>1, <2>2, <3>1, MirrorAfterEnd
  <2>4. CASE draft[p].payload # Warning
    <3>1. Goto(p, "open") /\ pc'[p] = "open" /\ "open" \in Phase /\ "open" # "write_line"
      BY <1>0, <1>8, <2>4 DEF WriteLineFails, Fail, Goto, Phase
    <3>2. MirrorTypeOK'
      <4>1. Keys \cup Damaged \subseteq Line
        BY <1>k DEF Line
      <4>2. mirror' \in Seq(Line)
        BY <2>2, <4>1, SeqMonotonic
      <4> QED  BY <1>0, <2>1, <3>1, <4>2 DEF MirrorTypeOK, Goto
    <3>3. Committed'
      BY <2>1, <2>2, <3>1, CommittedKept
    <3>4. ASSUME ~shared'
          PROVE  Lone'
      <4>1. Lone
        BY <3>1, <3>4 DEF Goto, MirrorInv
      <4>2. LoneStep(p)'
        BY <2>1, <2>4, <3>1 DEF LoneStep
      <4> QED  BY <1>0, <2>2, <3>1, <3>4, <4>1, <4>2, LoneKept
    <3> QED  BY <3>2, <3>3, <3>4 DEF MirrorInv
  <2> QED  BY <2>3, <2>4
<1>9. ASSUME NEW p \in Proc, RebuildSelect(p) PROVE MirrorInv'
  <2>1. AllKeys \in Seq(Key) /\ AllKeys \in Seq(Keys) /\ AllKeys' = AllKeys
    <3>1. AllKeys \in Seq(Key) /\ ToSet(AllKeys) = Keys /\ AllKeys' = AllKeys
      BY <1>0, <1>9, EveryRowSelected, SameRowsSameKeys DEF RebuildSelect
    <3>2. AllKeys = [i \in 1 .. Len(AllKeys) |-> AllKeys[i]] /\ Len(AllKeys) \in Nat
      BY <3>1
    <3>3. \A i \in 1 .. Len(AllKeys) : AllKeys[i] \in Keys
      <4>1. DOMAIN AllKeys = 1 .. Len(AllKeys)
        BY <3>1
      <4> HIDE DEF AllKeys
      <4> QED  BY <3>1, <4>1 DEF ToSet
    <3> QED  BY <3>1, <3>2, <3>3
  <2>2. /\ UNCHANGED <<rows, mirror, wrote, failed>> /\ draft' = draft /\ seen' = seen
        /\ Goto(p, "rebuild_truncate") /\ "rebuild_truncate" \in Phase
        /\ pc'[p] = "rebuild_truncate"
        /\ dump' \in [Proc -> Seq(Key)] /\ dump'[p] = AllKeys
        /\ \A q \in Proc \ {p} : dump'[q] = dump[q]
    BY <1>0, <1>9, <2>1 DEF RebuildSelect, Goto, Phase
  <2>3. LoneStep(p)'
    BY <2>1, <2>2 DEF LoneStep
  <2>4. \A q \in Proc : dump'[q] = dump[q] \/ dump'[q] \in Seq(Keys)
    BY <2>1, <2>2
  <2> QED  BY <1>0, <2>2, <2>3, <2>4, MirrorUntouched
<1>10. ASSUME NEW p \in Proc, RebuildTruncate(p) PROVE MirrorInv'
  <2>1. /\ UNCHANGED <<rows, draft, seen, dump, failed>> /\ mirror' = << >>
        /\ pc[p] = "rebuild_truncate" /\ wrote' \in [Proc -> Nat] /\ wrote'[p] = 0
        /\ Goto(p, "rebuild_write") /\ "rebuild_write" \in Phase /\ pc'[p] = "rebuild_write"
        /\ "rebuild_write" # "write_line"
    BY <1>0, <1>10 DEF RebuildTruncate, Goto, Phase
  <2>2. AllKeys' = AllKeys
    BY <2>1, SameRowsSameKeys
  <2>3. MirrorTypeOK'
    BY <1>0, <1>e, <2>1 DEF MirrorTypeOK, Goto
  <2>4. Committed'
    BY <1>e, <2>1, CommittedKept
  <2>5. ASSUME ~shared'
        PROVE  Lone'
    <3>1. Lone
      BY <2>1, <2>5 DEF Goto, MirrorInv
    <3>2. dump[p] = AllKeys
      BY <2>1, <3>1 DEF Lone, LoneStep
    <3>3. LoneStep(p)'
      <4>1. Len(dump[p]) \in Nat /\ SubSeq(dump[p], 1, 0) = << >>
        BY <1>0
      <4> QED  BY <2>1, <2>2, <3>2, <4>1 DEF LoneStep
    <3>4. NothingTwice'
      BY <2>1 DEF NothingTwice
    <3> QED  BY <1>0, <2>1, <2>5, <3>1, <3>3, <3>4, LoneKept
  <2> QED  BY <2>3, <2>4, <2>5 DEF MirrorInv
<1>11. ASSUME NEW p \in Proc, RebuildWrite(p) PROVE MirrorInv'
  <2> DEFINE n == wrote[p]
             lines == dump[p]
             more == n + 1 < Len(lines)
  <2>1. /\ UNCHANGED <<rows, draft, seen, failed>> /\ pc[p] = "rebuild_write"
        /\ n \in Nat /\ n < Len(lines) /\ lines \in Seq(Keys) /\ lines \in Seq(Key)
        /\ mirror' \in Written(mirror, n, lines[n + 1])
    BY <1>0, <1>11 DEF RebuildWrite, Committed
  <2>2. PICK phase \in {"rebuild_write", "open"} :
          /\ phase = IF more THEN "rebuild_write" ELSE "open"
          /\ Goto(p, phase) /\ pc'[p] = phase
    BY <1>0, <1>11 DEF RebuildWrite, Goto
  <2>3. phase \in Phase /\ phase # "closed" /\ phase # "write_line"
    BY <2>2 DEF Phase
  <2>4. /\ dump' \in [Proc -> Seq(Key)] /\ wrote' \in [Proc -> Nat]
        /\ \A q \in Proc : dump'[q] = dump[q] \/ dump'[q] \in Seq(Keys)
        /\ more => dump'[p] = lines /\ wrote'[p] = n + 1
    <3>1. CASE more
      BY <1>0, <1>11, <2>1, <3>1 DEF RebuildWrite
    <3>2. CASE ~more
      <4>1. /\ dump' = [dump EXCEPT ![p] = << >>]
            /\ wrote' = [wrote EXCEPT ![p] = 0]
        BY <1>11, <3>2 DEF RebuildWrite
      <4>2. dump' \in [Proc -> Seq(Key)] /\ wrote' \in [Proc -> Nat]
        BY <1>0, <1>e, <4>1
      <4>3. ASSUME NEW q \in Proc
            PROVE  dump'[q] = dump[q] \/ dump'[q] = << >>
        BY <1>0, <4>1
      <4> QED  BY <1>e, <3>2, <4>2, <4>3
    <3> QED  BY <3>1, <3>2
  <2>5. lines[n + 1] \in Keys
    BY <2>1, ElementOfSeq
  <2>6. mirror' \in Seq(Keys \cup Damaged)
    BY <1>0, <2>1, <2>5, WrittenWithin
  <2>7. MirrorTypeOK'
    <3>1. Keys \cup Damaged \subseteq Line
      BY <1>k DEF Line
    <3>2. mirror' \in Seq(Line)
      BY <2>6, <3>1, SeqMonotonic
    <3> QED  BY <1>0, <2>1, <2>2, <2>4, <3>2 DEF MirrorTypeOK, Goto
  <2>8. Committed'
    BY <2>1, <2>2, <2>3, <2>4, <2>6, CommittedKept
  <2>9. ASSUME ~shared'
        PROVE  Lone'
    <3>1. Lone
      BY <2>2, <2>9 DEF Goto, MirrorInv
    <3>2. mirror = SubSeq(lines, 1, n) /\ lines = AllKeys
      BY <2>1, <3>1 DEF Lone, LoneStep
    <3>3. mirror' = SubSeq(lines, 1, n + 1)
      <4>1. Len(mirror) = n /\ (n # 0 => mirror[n] \in Key)
        <5>1. \A i \in 1 .. n : lines[i] \in Key
          BY <2>1, ElementOfSeq
        <5> QED  BY <2>1, <3>2, <5>1, SubSeqProperties
      <4>2. mirror' = Join(mirror, <<lines[n + 1]>>)
        BY <2>1, <4>1 DEF Written
      <4>3. ~(mirror # << >> /\ mirror[Len(mirror)] = Torn)
        BY <1>0, <4>1, DamagedIsNoKey DEF Damaged
      <4>4. mirror' = mirror \o <<lines[n + 1]>>
        BY <4>2, <4>3 DEF Join
      <4>5. SubSeq(lines, 1, n + 1) = SubSeq(lines, 1, n) \o <<lines[n + 1]>>
        <5> DEFINE m == n + 1
        <5>1. 1 \in 1 .. Len(lines) /\ m \in 1 .. Len(lines) /\ m \in 1 .. m /\ m - 1 = n
          BY <2>1
        <5> HIDE DEF m
        <5>2. m \in 1 .. Len(lines) /\ SubSeq(lines, 1, m) = SubSeq(lines, 1, m - 1) \o <<lines[m]>>
          BY <2>1, <5>1, SubSeqRecursiveSecond
        <5>3. SubSeq(lines, 1, m) = SubSeq(lines, 1, n) \o <<lines[m]>>
          BY <5>1, <5>2
        <5> QED  BY <5>3 DEF m
      <4> HIDE DEF n, lines
      <4> QED  BY <3>2, <4>4, <4>5
    <3>4. NothingTwice'
      <4>1. IsInjective(lines)
        BY <1>0, <3>2, EveryRowSelected
      <4>2. DOMAIN mirror' = 1 .. n + 1 /\ \A i \in 1 .. n + 1 : mirror'[i] = lines[i]
        <5>1. \A i \in 1 .. n + 1 : lines[i] \in Key
          BY <2>1, ElementOfSeq
        <5> QED  BY <2>1, <3>3, <5>1, SubSeqProperties
      <4>3. 1 .. n + 1 \subseteq DOMAIN lines
        BY <2>1
      <4> QED  BY <4>1, <4>2, <4>3 DEF NothingTwice, IsInjective
    <3>5. LoneStep(p)'
      <4>1. CASE more
        <5>1. AllKeys' = AllKeys
          BY <2>1, SameRowsSameKeys
        <5>2. n + 1 <= Len(lines)
          BY <2>1
        <5> QED  BY <2>2, <2>4, <3>2, <3>3, <4>1, <5>1, <5>2 DEF LoneStep
      <4>2. CASE ~more
        <5>1. Len(lines) \in Nat /\ n + 1 = Len(lines)
          BY <2>1, <4>2
        <5>2. mirror' = AllKeys
          BY <2>1, <3>2, <3>3, <5>1, SubSeqFull
        <5>3. Shown' = Keys'
          <6>1. ToSet(AllKeys) = Keys /\ Keys' = Keys
            BY <1>0, <2>1, EveryRowSelected, SameRowsSameKeys
          <6>2. Shown' = ToSet(mirror') \cap Key
            BY DEF Shown, Key
          <6> QED  BY <1>k, <5>2, <6>1, <6>2
        <5> QED  BY <2>2, <4>2, <5>3 DEF LoneStep
      <4> QED  BY <4>1, <4>2
    <3> QED  BY <1>0, <2>2, <2>3, <2>9, <3>1, <3>4, <3>5, LoneKept
  <2> QED  BY <2>7, <2>8, <2>9 DEF MirrorInv
<1>12. ASSUME NEW p \in Proc, RebuildCut(p) PROVE MirrorInv'
  <2>1. /\ UNCHANGED <<rows, draft, seen, failed>> /\ pc[p] = "rebuild_write"
        /\ wrote[p] \in Nat /\ mirror' \in Written(mirror, wrote[p], Torn)
        /\ wrote' \in [Proc -> Nat] /\ dump' \in [Proc -> Seq(Key)]
        /\ \A q \in Proc : dump'[q] = dump[q] \/ dump'[q] \in Seq(Keys)
        /\ Goto(p, "closed")
    BY <1>0, <1>e, <1>12 DEF RebuildCut
  <2>2. mirror' \in Seq(Keys \cup Damaged)
    <3>1. Torn \in Keys \cup Damaged
      BY DEF Damaged
    <3> QED  BY <1>0, <2>1, <3>1, WrittenWithin
  <2>3. ASSUME Lone
        PROVE  NothingTwice'
    <3>1. mirror = SubSeq(dump[p], 1, wrote[p]) /\ wrote[p] <= Len(dump[p])
      BY <2>1, <2>3 DEF Lone, LoneStep
    <3>2. Len(mirror) = wrote[p]
      <4>1. dump[p] \in Seq(Key)
        BY <1>0
      <4>2. \A i \in 1 .. wrote[p] : dump[p][i] \in Key
        BY <2>1, <3>1, <4>1, ElementOfSeq
      <4> QED  BY <2>1, <3>1, <4>1, <4>2, SubSeqProperties
    <3>3. mirror' = Join(mirror, <<Torn>>)
      BY <2>1, <3>2 DEF Written
    <3>4. Torn \in Line /\ Torn \notin Shown
      BY DamagedIsNoKey DEF Line, Damaged, Shown
    <3> QED  BY <1>0, <2>3, <3>3, <3>4, LineJoined DEF Lone
  <2> QED  BY <1>0, <2>1, <2>2, <2>3, MirrorAfterEnd
<1>13. ASSUME NEW p \in Proc, Close(p) PROVE MirrorInv'
  <2>1. /\ UNCHANGED <<rows, mirror>> /\ pc[p] # "closed" /\ Goto(p, "closed")
        /\ \A q \in Proc \ {p} : draft'[q] = draft[q]
        /\ seen' \in [Proc -> Nat] /\ dump' \in [Proc -> Seq(Key)]
        /\ wrote' \in [Proc -> Nat] /\ failed' \subseteq Proc
        /\ \A q \in Proc : dump'[q] = dump[q] \/ dump'[q] \in Seq(Keys)
    BY <1>0, <1>e, <1>13 DEF Close
  <2>2. Lone => NothingTwice'
    BY <2>1, SameFileSameLines DEF Lone
  <2> QED  BY <1>0, <2>1, <2>2, MirrorAfterEnd
<1>14. CASE UNCHANGED vars
  <2>1. UNCHANGED <<rows, mirror, pc, draft, seen, dump, wrote, failed, shared>>
    BY <1>14 DEF vars
  <2>2. Keys' = Keys /\ RowCount' = RowCount /\ AllKeys' = AllKeys
    BY <2>1, SameRowsSameKeys
  <2>3. \A q \in Proc : LineOf(q)' = LineOf(q)
    BY <2>1 DEF LineOf
  <2>4. Shown' = Shown /\ Whole' = Whole /\ NothingTwice' = NothingTwice
    BY <2>1, SameFileSameLines
  <2>5. MirrorTypeOK' /\ Committed'
    BY <1>0, <2>1, <2>2, <2>3 DEF MirrorTypeOK, Committed
  <2>6. Lone' = Lone
    BY <2>1, <2>2, <2>3, <2>4 DEF Lone, LoneStep
  <2> QED  BY <2>1, <2>5, <2>6 DEF MirrorInv
<1> QED
  BY <1>1, <1>2, <1>3, <1>4, <1>5, <1>6, <1>7, <1>8, <1>9, <1>10, <1>11, <1>12, <1>13, <1>14
     DEF Next

\* What events.ndjson shows (event_store.py:231-304), for any number of processes and of
\* runs, wherever they die or fail: no line but those of committed rows and damaged ones; and
\* of a store that was never shared, whenever it is open, no line is damaged and the process
\* in it could write all of its own, exactly one line for each row.
THEOREM MirrorAlwaysShowsTable == Spec => []MirrorShowsTable
<1>1. Spec => []MirrorInv
  BY ChainInvariant, MirrorInvInit, MirrorInvNext, PTL DEF Spec
<1>2. ChainInv /\ MirrorInv => MirrorShowsTable
  <2> SUFFICES ASSUME ChainInv, MirrorInv
               PROVE  MirrorShowsTable
    OBVIOUS
  <2>1. /\ rows \in [Run -> Seq(Row)] /\ mirror \in Seq(Line) /\ MirrorTypeOK
        /\ mirror \in Seq(Keys \cup Damaged) /\ DOMAIN mirror = 1 .. Len(mirror)
    BY DEF ChainInv, MirrorInv, MirrorTypeOK, Committed
  <2>2. Keys \subseteq Key /\ \A n \in DOMAIN mirror : mirror[n] \in Keys \cup Damaged
    BY <2>1, KeysAreFinite, ElementOfSeq
  <2>3. MirrorIsCommitted
    <3>1. ASSUME NEW n \in DOMAIN mirror, mirror[n] \in Key
          PROVE  mirror[n][2] \in DOMAIN rows[mirror[n][1]]
      <4>1. mirror[n] \in Keys
        BY <2>2, <3>1, DamagedIsNoKey
      <4>2. PICK r \in Run : \E i \in DOMAIN rows[r] : mirror[n] = <<r, i>>
        BY <2>1, <4>1, KeysAreFinite
      <4> QED  BY <4>2
    <3> QED  BY <3>1 DEF MirrorIsCommitted
  <2>4. LoneRuntimeMirrorExact
    <3>1. ASSUME NEW p \in Proc, pc[p] = "open", ~shared, p \notin failed, Whole
          PROVE  MirrorExact
      <4>1. Shown = Keys /\ NothingTwice
        BY <3>1 DEF MirrorInv, Lone, LoneStep
      <4>2. \A n \in DOMAIN mirror : mirror[n] \in Key
        BY <2>2, <3>1 DEF Whole
      <4>3. ToSet(mirror) = Keys /\ IsInjective(mirror)
        BY <4>1, <4>2 DEF Shown, NothingTwice, IsInjective, ToSet
      <4> QED  BY <2>1, <4>3, LinesOf DEF MirrorExact, RowCount
    <3> QED  BY <3>1 DEF LoneRuntimeMirrorExact
  <2> QED  BY <2>1, <2>3, <2>4 DEF MirrorShowsTable
<1> QED  BY <1>1, <1>2, ChainInvariant, PTL
=============================================================================
