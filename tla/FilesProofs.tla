---------------------------- MODULE FilesProofs ----------------------------
(***************************************************************************)
(* What is proved of the modules about files that several processes write: *)
(* archives, starts on one database, smoke tests, replays of a log; and    *)
(* the types of the first three.                                           *)
(***************************************************************************)
EXTENDS Records, FiniteSetTheorems, SequenceTheorems, WellFoundedInduction, TLAPS

(***************************************************************************)
(* Sequences.                                                              *)
(***************************************************************************)
LEMMA PrefixFact ==
    ASSUME NEW S, NEW s \in Seq(S), NEW u \in Seq(S)
    PROVE  IsPrefix(s, u) <=> Len(s) <= Len(u) /\ \A i \in 1..Len(s) : s[i] = u[i]
<1>1. Len(s) \in Nat /\ Len(u) \in Nat /\ DOMAIN s = 1..Len(s) /\ DOMAIN u = 1..Len(u)
  OBVIOUS
<1>2. SubSeq(s, 1, Len(s)) = [i \in 1..Len(s) |-> s[i]]
  BY <1>1
<1>3. Len(s) <= Len(u) => SubSeq(u, 1, Len(s)) = [i \in 1..Len(s) |-> u[i]]
  BY <1>1
<1>4. [i \in 1..Len(s) |-> s[i]] = [i \in 1..Len(s) |-> u[i]] <=> \A i \in 1..Len(s) : s[i] = u[i]
  BY Zenon
<1> QED  BY <1>2, <1>3, <1>4 DEF IsPrefix

LEMMA LongerFact ==
    ASSUME NEW S, NEW u \in Seq(S), NEW e \in S
    PROVE  /\ Append(u, e) \in Seq(S) /\ Len(Append(u, e)) = Len(u) + 1 /\ Len(u) \in Nat
           /\ \A i \in 1..Len(u) : Append(u, e)[i] = u[i]
           /\ Append(u, e)[Len(u) + 1] = e
           /\ \A s \in Seq(S) : IsPrefix(s, u) => IsPrefix(s, Append(u, e))
           /\ Contains(Append(u, e), e) /\ Last(Append(u, e)) = e
           /\ \A x : Contains(u, x) => Contains(Append(u, e), x)
<1>1. /\ Append(u, e) \in Seq(S) /\ Len(Append(u, e)) = Len(u) + 1 /\ Len(u) \in Nat
      /\ \A i \in 1..Len(u) : Append(u, e)[i] = u[i]
      /\ Append(u, e)[Len(u) + 1] = e
  OBVIOUS
<1>2. PICK v \in Seq(S) : v = Append(u, e)
  BY <1>1
<1>3. \A i \in 1..Len(u) : i \in 1..Len(v)
  BY <1>1, <1>2
<1>4. ASSUME NEW s \in Seq(S), IsPrefix(s, u)
      PROVE  IsPrefix(s, v)
  <2>1. Len(s) \in Nat /\ Len(s) <= Len(u) /\ \A i \in 1..Len(s) : s[i] = u[i]
    BY <1>4, PrefixFact
  <2>2. Len(s) <= Len(v) /\ \A i \in 1..Len(s) : s[i] = v[i]
    BY <1>1, <1>2, <2>1
  <2> QED  BY <2>2, PrefixFact
<1>5. Contains(v, e) /\ Last(v) = e
  BY <1>1, <1>2 DEF Contains, Last
<1>6. ASSUME NEW x, Contains(u, x)
      PROVE  Contains(v, x)
  BY <1>1, <1>2, <1>3, <1>6 DEF Contains
<1> QED  BY <1>1, <1>2, <1>4, <1>5, <1>6
-----------------------------------------------------------------------------
(***************************************************************************)
(* Archives and exports.                                                   *)
(***************************************************************************)
Task == [at : {"idle", "announce", "read", "events", "write", "manifest"}, kind : Kind,
         read : 0..Len(TableOrder), rows : Rows, events : Seq(Event), disturbed : BOOLEAN, alone : BOOLEAN]

CopyTypes ==
    /\ table \in Rows /\ log \in Seq(Event) /\ task \in [Proc -> Task]
    /\ archive \in [rows : Rows, events : Seq(Event), written : BOOLEAN]
    /\ torn \in BOOLEAN

FilesInv == CopyTypes /\ CopyInv

LEMMA OrderFact ==
    /\ Len(TableOrder) \in Nat \ {0} /\ DOMAIN TableOrder = 1..Len(TableOrder)
    /\ \A i \in 1..Len(TableOrder) : TableOrder[i] \in Table
    /\ \A x \in Table : \E i \in 1..Len(TableOrder) : TableOrder[i] = x
<1>1. PICK n : n = Len(TableOrder)
  OBVIOUS
<1>2. n \in Nat /\ DOMAIN TableOrder = 1..n
  BY <1>1, ArchiveAssumption
<1>3. n # 0
  BY <1>1, ArchiveAssumption
<1> QED  BY <1>1, <1>2, <1>3 DEF Table, Range

LEMMA IdleFact ==
    /\ Idle \in Task /\ Idle.at = "idle" /\ Idle.read = 0 /\ Idle.disturbed = FALSE
    /\ Copied(Idle) /\ Archived(Idle) /\ FinalInv(Idle)
<1>1. <<>> \in Seq(Event) /\ Len(TableOrder) \in Nat
  BY OrderFact
<1>2. Idle \in Task
  BY <1>1 DEF Idle, Task, Kind, Rows
<1>3. Idle.at = "idle" /\ Idle.read = 0 /\ Idle.disturbed = FALSE /\ Idle.kind = "archive"
  BY DEF Idle
<1>4. Copied(Idle)
  BY <1>3 DEF Copied
<1>5. Archived(Idle) /\ FinalInv(Idle)
  BY <1>3 DEF Archived, FinalInv
<1> QED  BY <1>2, <1>3, <1>4, <1>5

LEMMA TaskFact ==
    ASSUME FilesInv, NEW p \in Proc
    PROVE  /\ task \in [Proc -> Task] /\ task[p] \in Task
           /\ Copied(task[p]) /\ Archived(task[p]) /\ FinalInv(task[p])
           /\ \A q \in Proc : q # p /\ task[p].at # "idle" /\ task[p].kind = "archive"
                              /\ task[q].at # "idle" /\ task[q].kind = "archive" => ~task[q].alone
<1>1. task \in [Proc -> Task] /\ Copied(task[p]) /\ Archived(task[p]) /\ FinalInv(task[p])
  BY DEF FilesInv, CopyTypes, CopyInv
<1>2. \A q, r \in Archiving : q # r => ~task[q].alone
  BY DEF FilesInv, CopyInv
<1>3. \A q \in Proc : task[q].at # "idle" /\ task[q].kind = "archive" => q \in Archiving
  BY DEF Archiving
<1>4. task[p] \in Task
  BY <1>1
<1>5. \A q \in Proc : q # p /\ task[p].at # "idle" /\ task[p].kind = "archive"
                      /\ task[q].at # "idle" /\ task[q].kind = "archive" => ~task[q].alone
  BY <1>2, <1>3, Zenon
<1> QED  BY <1>1, <1>4, <1>5

\* A step of one process that writes no file: the others' tasks stay as they are.
LEMMA OneTask ==
    ASSUME FilesInv, NEW p \in Proc, NEW j \in Task, task' = [task EXCEPT ![p] = j],
           UNCHANGED <<table, log, archive, manifest, torn>>,
           Copied(j), Archived(j), FinalInv(j),
           j.at # "idle" /\ j.kind = "archive" =>
               task[p].at # "idle" /\ task[p].kind = "archive" /\ j.alone = task[p].alone
    PROVE  FilesInv'
<1>1. task \in [Proc -> Task]
  BY DEF FilesInv, CopyTypes
<1>2. task' \in [Proc -> Task] /\ task'[p] = j /\ \A q \in Proc : q # p => task'[q] = task[q]
  BY <1>1
<1>3. CopyTypes'
  BY <1>2 DEF FilesInv, CopyTypes
<1>4. PairAgrees'
  BY DEF FilesInv, CopyInv, PairAgrees
<1>5. (\A q, r \in Archiving : q # r => ~task[q].alone)'
  <2>1. \A q \in Proc : task'[q].at # "idle" /\ task'[q].kind = "archive" =>
           task[q].at # "idle" /\ task[q].kind = "archive" /\ task'[q].alone = task[q].alone
    BY <1>2
  <2>2. \A q, r \in Archiving : q # r => ~task[q].alone
    BY DEF FilesInv, CopyInv
  <2> QED  BY <2>1, <2>2 DEF Archiving
<1>6. ASSUME NEW q \in Proc
      PROVE  (Copied(task[q]) /\ Archived(task[q]) /\ FinalInv(task[q]))'
  <2>1. PICK u : u = task'[q]
    OBVIOUS
  <2>2. Copied(u) /\ Archived(u) /\ FinalInv(u)
    BY <1>2, <2>1 DEF FilesInv, CopyInv
  <2>3. Copied(u)' /\ Archived(u)' /\ FinalInv(u)'
    BY <2>2 DEF Copied, Archived, FinalInv, Files, SaysFinal
  <2>4. Copied(task[q])' /\ Archived(task[q])'
    BY <2>1, <2>3 DEF Copied, Archived, Files
  <2> QED  BY <2>1, <2>3, <2>4 DEF FinalInv, SaysFinal
<1> QED  BY <1>3, <1>4, <1>5, <1>6 DEF FilesInv, CopyInv

\* Somebody changes the run, and everybody at work is disturbed.
LEMMA DisturbedFact ==
    ASSUME NEW t \in Task
    PROVE  /\ Disturbed(t) \in Task /\ Disturbed(t).at = t.at /\ Disturbed(t).kind = t.kind
           /\ Disturbed(t).read = t.read /\ Disturbed(t).rows = t.rows
           /\ Disturbed(t).events = t.events /\ Disturbed(t).alone = t.alone
           /\ Disturbed(t).disturbed = (t.at # "idle")
<1>1. PICK d \in BOOLEAN : d = (t.at # "idle")
  OBVIOUS
<1>2. PICK u \in Task : u = [t EXCEPT !.disturbed = d]
  BY DEF Task
<1>3. /\ u.at = t.at /\ u.kind = t.kind /\ u.read = t.read /\ u.rows = t.rows /\ u.events = t.events
      /\ u.alone = t.alone /\ u.disturbed = d
  BY <1>2 DEF Task
<1>4. Disturbed(t) = u
  BY <1>1, <1>2 DEF Disturbed
<1> QED  BY <1>1, <1>3, <1>4

LEMMA DisturbedKeeps ==
    ASSUME CopyTypes, NEW t \in Task, Copied(t), Archived(t), FinalInv(t),
           log' = log \/ \E e \in Event : log' = Append(log, e), archive' = archive
    PROVE  (Copied(Disturbed(t)) /\ Archived(Disturbed(t)) /\ FinalInv(Disturbed(t)))'
<1>1. PICK u \in Task :
          /\ u = Disturbed(t) /\ u.at = t.at /\ u.kind = t.kind /\ u.read = t.read /\ u.rows = t.rows
          /\ u.events = t.events /\ u.alone = t.alone /\ u.disturbed = (t.at # "idle")
  BY DisturbedFact
<1>2. log \in Seq(Event) /\ t.events \in Seq(Event)
  BY DEF CopyTypes, Task
<1>3. /\ IsPrefix(t.events, log) => IsPrefix(t.events, log')
      /\ \A x : Contains(log, x) => Contains(log', x)
      /\ Len(log) > ExportLimit => Len(log') > ExportLimit
  <2>1. CASE log' = log
    BY <2>1
  <2>2. ASSUME NEW e \in Event, log' = Append(log, e)
        PROVE  /\ IsPrefix(t.events, log) => IsPrefix(t.events, log')
               /\ \A x : Contains(log, x) => Contains(log', x)
               /\ Len(log) > ExportLimit => Len(log') > ExportLimit
    <3>1. Len(log) \in Nat /\ Len(log') = Len(log) + 1 /\ ExportLimit \in Nat
      BY <1>2, <2>2, ArchiveAssumption
    <3>2. Len(log) > ExportLimit => Len(log') > ExportLimit
      BY <3>1
    <3> QED  BY <1>2, <2>2, <3>2, LongerFact
  <2> QED  BY <2>1, <2>2
<1>4. Copied(u)'
  BY <1>1 DEF Copied
<1>5. Archived(u)'
  BY <1>1, <1>3 DEF Archived, Files
<1>6. FinalInv(u)'
  BY <1>1, <1>3 DEF FinalInv, SaysFinal
<1> QED  BY <1>1, <1>4, <1>5, <1>6 DEF Disturbed, Copied, Archived, FinalInv, Files, SaysFinal

\* No archive ends, begins or writes: those that are alone are so still.
LEMMA SameArchives ==
    ASSUME FilesInv,
           \A q \in Proc : task'[q].at # "idle" /\ task'[q].kind = "archive" =>
               task[q].at # "idle" /\ task[q].kind = "archive" /\ task'[q].alone = task[q].alone
    PROVE  (\A q, r \in Archiving : q # r => ~task[q].alone)'
BY DEF FilesInv, CopyInv, Archiving

LEMMA ChangeKeeps ==
    ASSUME FilesInv, Disturb, UNCHANGED <<archive, manifest, torn>>, table' \in Rows,
           log' = log \/ \E e \in Event : log' = Append(log, e)
    PROVE  FilesInv'
<1>0. CopyTypes /\ \A q \in Proc : task[q] \in Task
  BY DEF FilesInv, CopyTypes
<1>1. \A q \in Proc : task'[q] = Disturbed(task[q])
  BY DEF Disturb
<1>2. \A q \in Proc : /\ task'[q] \in Task /\ task'[q].at = task[q].at /\ task'[q].kind = task[q].kind
                      /\ task'[q].alone = task[q].alone
  BY <1>0, <1>1, DisturbedFact
<1>3. CopyTypes'
  <2>1. log' \in Seq(Event)
    BY <1>0, LongerFact DEF CopyTypes
  <2>2. task' \in [Proc -> Task]
    BY <1>2 DEF Disturb
  <2> QED  BY <1>0, <2>1, <2>2 DEF CopyTypes
<1>4. PairAgrees'
  BY DEF FilesInv, CopyInv, PairAgrees
<1>5. (\A q, r \in Archiving : q # r => ~task[q].alone)'
  BY <1>2, SameArchives
<1>6. ASSUME NEW q \in Proc
      PROVE  (Copied(task[q]) /\ Archived(task[q]) /\ FinalInv(task[q]))'
  <2>1. PICK t \in Task : t = task[q] /\ Copied(t) /\ Archived(t) /\ FinalInv(t)
    BY TaskFact
  <2>2. (Copied(Disturbed(t)) /\ Archived(Disturbed(t)) /\ FinalInv(Disturbed(t)))'
    BY <1>0, <2>1, DisturbedKeeps
  <2>3. task'[q] = Disturbed(t)
    BY <1>1, <2>1
  <2>4. Copied(task[q])' /\ Archived(task[q])'
    BY <2>2, <2>3 DEF Disturbed, Copied, Archived, Files
  <2> QED  BY <2>2, <2>3, <2>4 DEF Disturbed, FinalInv, SaysFinal
<1> QED  BY <1>3, <1>4, <1>5, <1>6 DEF FilesInv, CopyInv

LEMMA ChangeTableKeeps ==
    ASSUME FilesInv, NEW x \in Table, ChangeTable(x)
    PROVE  FilesInv'
<1>1. table \in Rows /\ table' = [table EXCEPT ![x] = @ + 1]
  BY DEF FilesInv, CopyTypes, ChangeTable
<1>2. table' \in Rows
  BY <1>1 DEF Rows
<1> QED  BY <1>2, ChangeKeeps DEF ChangeTable

LEMMA AppendEventKeeps ==
    ASSUME FilesInv, NEW e \in Change, AppendEvent(e)
    PROVE  FilesInv'
<1>1. table' \in Rows /\ e \in Event
  BY DEF FilesInv, CopyTypes, AppendEvent, Event
<1> QED  BY <1>1, ChangeKeeps DEF AppendEvent

LEMMA BeginKeeps ==
    ASSUME FilesInv, NEW p \in Proc, NEW kind \in Kind, Begin(p, kind)
    PROVE  FilesInv'
<1>1. PICK a \in {"announce", "read"} : a = FirstStep(kind)
  BY DEF FirstStep
<1>2. PICK alone \in BOOLEAN : alone = (Archiving = {})
  OBVIOUS
<1>3. PICK j \in Task : j = [Idle EXCEPT !.at = a, !.kind = kind, !.alone = alone]
  BY IdleFact DEF Task
<1>4. j.at = a /\ j.kind = kind /\ j.alone = alone /\ j.read = 0
  BY <1>3, IdleFact DEF Task
<1>5. task[p].at = "idle" /\ UNCHANGED <<table, log, archive, manifest, torn>>
  BY DEF Begin
<1>6. \A q \in Proc :
         task'[q] = IF q = p THEN j
                    ELSE [task[q] EXCEPT !.alone = task[q].alone /\ (kind # "archive" \/ q \notin Archiving)]
  BY <1>1, <1>2, <1>3 DEF Begin
<1>7. task'[p] = j
  BY <1>6
<1>8. ASSUME NEW q \in Proc, q # p
      PROVE  /\ task'[q] \in Task /\ task'[q].at = task[q].at /\ task'[q].kind = task[q].kind
             /\ task'[q].read = task[q].read /\ task'[q].rows = task[q].rows
             /\ task'[q].events = task[q].events /\ task'[q].disturbed = task[q].disturbed
             /\ task'[q].alone => task[q].alone
             /\ q \in Archiving /\ kind = "archive" => ~task'[q].alone
  <2>1. PICK t \in Task : t = task[q]
    BY TaskFact
  <2>2. PICK d \in BOOLEAN : d = (t.alone /\ (kind # "archive" \/ q \notin Archiving))
    BY DEF Task
  <2>3. PICK u \in Task : u = [t EXCEPT !.alone = d]
    BY DEF Task
  <2>4. task'[q] = u
    BY <1>6, <1>8, <2>1, <2>2, <2>3
  <2>5. /\ u.at = t.at /\ u.kind = t.kind /\ u.read = t.read /\ u.rows = t.rows /\ u.events = t.events
        /\ u.disturbed = t.disturbed /\ u.alone = d
    BY <2>3 DEF Task
  <2>6. d => t.alone /\ (kind # "archive" \/ q \notin Archiving)
    BY <2>2
  <2> QED  BY <2>1, <2>4, <2>5, <2>6
<1>9. CopyTypes'
  <2>1. \A q \in Proc : task'[q] \in Task
    BY <1>7, <1>8
  <2>2. task' \in [Proc -> Task]
    BY <2>1 DEF Begin
  <2> QED  BY <1>5, <2>2 DEF FilesInv, CopyTypes
<1>10. PairAgrees'
  BY <1>5 DEF FilesInv, CopyInv, PairAgrees
<1>11. (\A q, r \in Archiving : q # r => ~task[q].alone)'
  <2> SUFFICES ASSUME NEW q \in Proc, NEW r \in Proc, q # r,
                      task'[q].at # "idle", task'[q].kind = "archive",
                      task'[r].at # "idle", task'[r].kind = "archive"
               PROVE  ~task'[q].alone
    BY DEF Archiving
  <2>1. CASE q = p
    <3>1. r \in Archiving
      BY <1>8, <2>1 DEF Archiving
    <3> QED  BY <1>2, <1>4, <1>7, <2>1, <3>1
  <2>2. CASE r = p
    <3>1. q \in Archiving /\ kind = "archive"
      BY <1>4, <1>7, <1>8, <2>2 DEF Archiving
    <3> QED  BY <1>8, <2>2, <3>1
  <2>3. CASE q # p /\ r # p
    <3>1. q \in Archiving /\ r \in Archiving
      BY <1>8, <2>3 DEF Archiving
    <3>2. ~task[q].alone
      BY <3>1 DEF FilesInv, CopyInv
    <3> QED  BY <1>8, <2>3, <3>2
  <2> QED  BY <2>1, <2>2, <2>3
<1>12. ASSUME NEW q \in Proc
       PROVE  (Copied(task[q]) /\ Archived(task[q]) /\ FinalInv(task[q]))'
  <2>1. PICK u : u = task'[q]
    OBVIOUS
  <2>2. Copied(u) /\ Archived(u) /\ FinalInv(u)
    <3>1. CASE q = p
      <4>1. u = j
        BY <1>7, <2>1, <3>1
      <4>2. Len(TableOrder) \in Nat \ {0} /\ (a = "announce" => kind = "final export")
        BY <1>1, OrderFact DEF FirstStep
      <4>3. Copied(j)
        <5>1. \A i \in 1..j.read : FALSE
          BY <1>4
        <5>2. j.at \in {"announce", "read"} /\ (j.at = "announce" => j.kind = "final export")
          BY <1>4, <4>2
        <5>3. j.read < Len(TableOrder)
          <6>1. PICK n \in Nat \ {0} : n = Len(TableOrder)
            BY <4>2
          <6>2. 0 < n
            OBVIOUS
          <6> QED  BY <1>4, <6>1, <6>2
        <5> QED  BY <1>4, <5>1, <5>2, <5>3 DEF Copied
      <4>4. Archived(j)
        BY <1>4, <4>2 DEF Archived
      <4>5. FinalInv(j)
        BY <1>1, <1>4 DEF FinalInv, FirstStep
      <4> QED  BY <4>1, <4>3, <4>4, <4>5
    <3>2. CASE q # p
      <4>1. Copied(task[q]) /\ Archived(task[q]) /\ FinalInv(task[q])
        BY TaskFact
      <4>2. Copied(u)
        BY <1>8, <2>1, <3>2, <4>1 DEF Copied
      <4>3. Archived(u)
        BY <1>8, <2>1, <3>2, <4>1 DEF Archived, Files
      <4>4. FinalInv(u)
        BY <1>8, <2>1, <3>2, <4>1 DEF FinalInv, SaysFinal
      <4> QED  BY <4>2, <4>3, <4>4
    <3> QED  BY <3>1, <3>2
  <2>3. Copied(u)' /\ Archived(u)' /\ FinalInv(u)'
    BY <1>5, <2>2 DEF Copied, Archived, FinalInv, Files, SaysFinal
  <2> QED  BY <2>1, <2>3 DEF Copied, Archived, FinalInv, Files, SaysFinal
<1> QED  BY <1>9, <1>10, <1>11, <1>12 DEF FilesInv, CopyInv

\* What a query asks for of a log, and gets.
LEMMA VisibleFact ==
    ASSUME NEW u \in Seq(Event), NEW limit \in Nat
    PROVE  /\ Visible(u, limit) \in Seq(Event) /\ IsPrefix(Visible(u, limit), u)
           /\ Len(u) <= limit => Visible(u, limit) = u
<1>1. Len(u) \in Nat /\ \A i \in 1..Len(u) : u[i] \in Event
  OBVIOUS
<1>2. PICK n \in 0..Len(u) : n = IF Len(u) < limit THEN Len(u) ELSE limit
  BY <1>1
<1>3. PICK s : s = SubSeq(u, 1, n)
  OBVIOUS
<1>4. s = [i \in 1..n |-> u[i]]
  BY <1>1, <1>2, <1>3
<1>5. s \in Seq(Event) /\ Len(s) = n
  BY <1>1, <1>4
<1>6. IsPrefix(s, u)
  <2>1. Len(s) <= Len(u) /\ \A i \in 1..Len(s) : s[i] = u[i]
    BY <1>1, <1>2, <1>4, <1>5
  <2> QED  BY <1>5, <2>1, PrefixFact
<1>7. n = Len(u) => s = u
  BY <1>1, <1>4
<1>8. Len(u) <= limit => n = Len(u)
  BY <1>1, <1>2
<1> QED  BY <1>2, <1>3, <1>5, <1>6, <1>7, <1>8 DEF Visible

LEMMA AfterFact ==
    ASSUME NEW kind
    PROVE  /\ EventsFrom(kind) \in 1..Len(TableOrder)
           /\ kind = "archive" => EventsFrom(kind) = Len(TableOrder) /\ LimitOf(kind) = Limit
           /\ kind # "archive" => EventsFrom(kind) = 1 /\ LimitOf(kind) = ExportLimit
<1>1. PICK m \in Nat \ {0} : m = Len(TableOrder)
  BY OrderFact
<1>2. 1 \in 1..m /\ m \in 1..m
  OBVIOUS
<1> QED  BY <1>1, <1>2 DEF EventsFrom, LimitOf

LEMMA ReadTableKeeps ==
    ASSUME FilesInv, NEW p \in Proc, ReadTable(p)
    PROVE  FilesInv'
<1>1. PICK t \in Task : t = task[p] /\ Copied(t) /\ Archived(t) /\ FinalInv(t)
  BY TaskFact
<1>2. PICK m \in Nat \ {0} : m = Len(TableOrder)
  BY OrderFact
<1>3. t.at = "read" /\ t.read \in 0..m /\ t.rows \in Rows /\ table \in Rows /\ t.read < m
  BY <1>1, <1>2 DEF ReadTable, Task, Copied, FilesInv, CopyTypes
<1>4. PICK n \in 1..m : n = t.read + 1
  BY <1>3
<1>5. PICK x \in Table : x = TableOrder[n]
  BY <1>2, OrderFact
<1>6. PICK rs \in Rows : rs = [t.rows EXCEPT ![x] = table[x]]
  BY <1>3 DEF Rows
<1>0. EventsFrom(t.kind) \in 1..m /\ (t.kind = "archive" => EventsFrom(t.kind) = m)
      /\ (t.kind # "archive" => EventsFrom(t.kind) = 1)
  BY <1>2, AfterFact
<1>7. PICK a \in {"events", "write", "read"} :
          a = IF n = EventsFrom(t.kind) THEN "events" ELSE IF n = m THEN "write" ELSE "read"
  OBVIOUS
<1>8. PICK j \in Task : j = [t EXCEPT !.read = n, !.rows = rs, !.at = a]
  <2>1. n \in 0..Len(TableOrder)
    BY <1>2
  <2> QED  BY <2>1 DEF Task
<1>9. /\ j.at = a /\ j.read = n /\ j.rows = rs /\ j.kind = t.kind /\ j.events = t.events
      /\ j.disturbed = t.disturbed /\ j.alone = t.alone
  BY <1>8 DEF Task
<1>10. task' = [task EXCEPT ![p] = j] /\ UNCHANGED <<table, log, archive, manifest, torn>>
  BY <1>1, <1>2, <1>4, <1>5, <1>6, <1>7, <1>8 DEF ReadTable, Do
<1>11. Copied(j)
  <2>1. /\ a = "read" => n < m
        /\ a = "write" => n = m
        /\ a = "events" => n = EventsFrom(t.kind)
    BY <1>7
  <2>2. ASSUME ~t.disturbed, NEW i \in 1..n
        PROVE  rs[TableOrder[i]] = table[TableOrder[i]]
    <3>1. TableOrder[i] \in Table
      BY <1>2, <1>4, OrderFact
    <3>2. CASE TableOrder[i] = x
      BY <1>3, <1>6, <3>1, <3>2 DEF Rows
    <3>3. CASE TableOrder[i] # x
      <4>1. i \in 1..t.read
        BY <1>3, <1>4, <1>5, <3>3
      <4>2. t.rows[TableOrder[i]] = table[TableOrder[i]]
        BY <1>1, <1>3, <2>2, <4>1 DEF Copied
      <4> QED  BY <1>3, <1>6, <3>1, <3>3, <4>2 DEF Rows
    <3> QED  BY <3>2, <3>3
  <2> QED  BY <1>2, <1>9, <2>1, <2>2 DEF Copied
<1>12. Archived(j)
  <2>1. t.kind = "archive" => a # "write"
    BY <1>0, <1>7
  <2> QED  BY <1>7, <1>9, <2>1 DEF Archived
<1>13. t.kind # "archive" => IF t.read = 0 THEN a = "events" ELSE t.read > 0 /\ a # "events"
  <2>1. EventsFrom(t.kind) = 1 /\ t.kind # "archive" => IF t.read = 0 THEN n = 1 ELSE n > 1
    BY <1>2, <1>3, <1>4
  <2> QED  BY <1>0, <1>2, <1>3, <1>4, <1>7, <2>1
<1>14. n > 0 /\ n # 0
  BY <1>2, <1>4
<1>15. FinalInv(j)
  <2>1. CASE t.kind = "final export"
    <3>1. IF t.read = 0 THEN a = "events" ELSE t.read > 0 /\ a # "events"
      BY <1>13, <2>1
    <3>2. t.read = 0 => SaysFinal(log, t)
      BY <1>1, <1>3, <2>1 DEF FinalInv
    <3>3. t.read # 0 => Len(log) > ExportLimit \/ SaysFinal(t.events, t)
      BY <1>1, <1>3, <2>1, <3>1 DEF FinalInv
    <3> QED  BY <1>9, <1>14, <3>1, <3>2, <3>3 DEF FinalInv, SaysFinal
  <2>2. CASE t.kind # "final export"
    BY <1>9, <2>2 DEF FinalInv
  <2> QED  BY <2>1, <2>2
<1> QED  BY <1>1, <1>3, <1>9, <1>10, <1>11, <1>12, <1>15, OneTask

LEMMA ReadEventsKeeps ==
    ASSUME FilesInv, NEW p \in Proc, ReadEvents(p)
    PROVE  FilesInv'
<1>1. PICK t \in Task : t = task[p] /\ Copied(t) /\ Archived(t) /\ FinalInv(t)
  BY TaskFact
<1>2. t.at = "events" /\ log \in Seq(Event) /\ t.read = EventsFrom(t.kind)
  BY <1>1 DEF ReadEvents, FilesInv, CopyTypes, Copied
<1>3. PICK limit \in Nat : limit = LimitOf(t.kind)
  BY ArchiveAssumption DEF LimitOf
<1>4. PICK es \in Seq(Event) : es = Visible(log, limit)
  BY <1>2, VisibleFact
<1>5. PICK m \in Nat \ {0} : m = Len(TableOrder)
  BY OrderFact
<1>6. PICK a \in {"write", "read"} : a = IF t.read = m THEN "write" ELSE "read"
  OBVIOUS
<1>7. PICK j \in Task : j = [t EXCEPT !.at = a, !.events = es]
  BY DEF Task
<1>8. /\ j.at = a /\ j.read = t.read /\ j.rows = t.rows /\ j.kind = t.kind /\ j.events = es
      /\ j.disturbed = t.disturbed /\ j.alone = t.alone
  BY <1>7 DEF Task
<1>9. task' = [task EXCEPT ![p] = j] /\ UNCHANGED <<table, log, archive, manifest, torn>>
  BY <1>1, <1>3, <1>4, <1>5, <1>6, <1>7 DEF ReadEvents, Do
<1>10. Copied(j)
  <2>1. t.read \in 0..m
    BY <1>5 DEF Task
  <2>2. (a = "read" => t.read < m) /\ (a = "write" => t.read = m)
    BY <1>6, <2>1
  <2> QED  BY <1>1, <1>2, <1>5, <1>8, <2>2 DEF Copied
<1>11. Archived(j)
  <2>1. CASE t.kind = "archive"
    <3>1. limit = Limit
      BY <1>3, <2>1 DEF LimitOf
    <3>2. IsPrefix(es, log) /\ es = Visible(log, Limit)
      BY <1>2, <1>4, <3>1, VisibleFact
    <3> QED  BY <1>8, <2>1, <3>2 DEF Archived
  <2>2. CASE t.kind # "archive"
    BY <1>8, <2>2 DEF Archived
  <2> QED  BY <2>1, <2>2
<1>11a. t.kind # "archive" => t.read > 0 /\ t.read # 0 /\ (Len(log) > ExportLimit \/ es = log)
  <2> SUFFICES ASSUME t.kind # "archive"
               PROVE  t.read > 0 /\ t.read # 0 /\ (Len(log) > ExportLimit \/ es = log)
    OBVIOUS
  <2>1. limit = ExportLimit /\ t.read = 1 /\ Len(log) \in Nat
    BY <1>2, <1>3, AfterFact
  <2> QED  BY <1>2, <1>3, <1>4, <2>1, VisibleFact
<1>12. FinalInv(j)
  <2>1. CASE t.kind = "final export"
    <3>0. t.kind # "archive"
      BY <2>1
    <3>1. t.read > 0 /\ t.read # 0 /\ (Len(log) > ExportLimit \/ es = log)
      BY <1>11a, <3>0, Zenon
    <3>2. SaysFinal(log, t)
      BY <1>1, <1>2, <2>1 DEF FinalInv
    <3> QED  BY <1>6, <1>8, <2>1, <3>1, <3>2 DEF FinalInv, SaysFinal
  <2>2. CASE t.kind # "final export"
    BY <1>8, <2>2 DEF FinalInv
  <2> QED  BY <2>1, <2>2
<1> QED  BY <1>1, <1>2, <1>8, <1>9, <1>10, <1>11, <1>12, OneTask

LEMMA WriteExportKeeps ==
    ASSUME FilesInv, NEW p \in Proc, WriteExport(p) \/ Die(p)
    PROVE  FilesInv'
<1>1. PICK t \in Task : t = task[p] /\ Copied(t) /\ Archived(t) /\ FinalInv(t)
  BY TaskFact
<1>2. UNCHANGED <<table, log, archive, manifest, torn>>
  BY DEF WriteExport, Die
<1>3. CASE task' = [task EXCEPT ![p] = Idle]
  BY <1>2, <1>3, IdleFact, OneTask
<1>4. CASE task' # [task EXCEPT ![p] = Idle]
  <2>1. t.at = "write" /\ t.kind # "archive" /\ t.kind # "final export"
    BY <1>1, <1>4 DEF WriteExport, Die, Do
  <2>2. PICK j \in Task : j = [t EXCEPT !.at = "announce"]
    BY DEF Task
  <2>3. /\ j.at = "announce" /\ j.read = t.read /\ j.rows = t.rows /\ j.kind = t.kind
        /\ j.events = t.events /\ j.disturbed = t.disturbed /\ j.alone = t.alone
    BY <2>2 DEF Task
  <2>4. task' = [task EXCEPT ![p] = j]
    BY <1>1, <1>4, <2>1, <2>2 DEF WriteExport, Die, Do
  <2>5. Copied(j)
    BY <1>1, <2>1, <2>3 DEF Copied
  <2>6. Archived(j) /\ FinalInv(j)
    BY <2>1, <2>3 DEF Archived, FinalInv
  <2> QED  BY <1>2, <2>1, <2>3, <2>4, <2>5, <2>6, OneTask
<1> QED  BY <1>3, <1>4

\* The files are replaced: who is alone at it has his own, the others know of nobody's.
LEMMA WriteArchiveKeeps ==
    ASSUME FilesInv, NEW p \in Proc, WriteArchive(p)
    PROVE  FilesInv'
<1>1. PICK t \in Task : t = task[p] /\ Copied(t) /\ Archived(t) /\ FinalInv(t)
  BY TaskFact
<1>2. /\ t.at = "write" /\ t.kind = "archive" /\ torn' = TRUE
      /\ archive' = [rows |-> t.rows, events |-> t.events, written |-> TRUE]
      /\ table' = table /\ log' = log /\ manifest' = manifest /\ task \in [Proc -> Task]
  BY <1>1 DEF WriteArchive, FilesInv, CopyTypes
<1>3. PICK j \in Task : j = [t EXCEPT !.at = "manifest"]
  BY DEF Task
<1>4. /\ j.at = "manifest" /\ j.read = t.read /\ j.rows = t.rows /\ j.kind = t.kind
      /\ j.events = t.events /\ j.disturbed = t.disturbed /\ j.alone = t.alone
  BY <1>3 DEF Task
<1>5. task' = [task EXCEPT ![p] = j]
  BY <1>1, <1>3 DEF WriteArchive, Do
<1>6. task'[p] = j /\ \A q \in Proc : q # p => task'[q] = task[q]
  BY <1>2, <1>5
<1>7. CopyTypes'
  <2>1. archive' \in [rows : Rows, events : Seq(Event), written : BOOLEAN]
    BY <1>2 DEF Task
  <2> QED  BY <1>2, <1>5, <2>1 DEF FilesInv, CopyTypes
<1>8. PairAgrees'
  BY <1>2 DEF PairAgrees
<1>9. (\A q, r \in Archiving : q # r => ~task[q].alone)'
  BY <1>1, <1>2, <1>4, <1>6, SameArchives
<1>10. ASSUME NEW q \in Proc
       PROVE  (Copied(task[q]) /\ Archived(task[q]) /\ FinalInv(task[q]))'
  <2>1. PICK u \in Task : u = task'[q]
    BY <1>2, <1>5
  <2>2. Copied(u)'
    <3>1. Copied(j)
      BY <1>1, <1>2, <1>4 DEF Copied
    <3>2. Copied(u)
      BY <1>6, <2>1, <3>1, TaskFact
    <3> QED  BY <1>2, <3>2 DEF Copied
  <2>3. FinalInv(u)'
    <3>1. FinalInv(u)
      BY <1>1, <1>2, <1>4, <1>6, <2>1, TaskFact DEF FinalInv
    <3> QED  BY <1>2, <3>1 DEF FinalInv, SaysFinal
  <2>4. Archived(u)'
    <3>1. CASE q = p
      <4>1. u = j
        BY <1>6, <2>1, <3>1
      <4>2. IsPrefix(t.events, log) /\ (~t.disturbed => t.events = Visible(log, Limit))
        BY <1>1, <1>2 DEF Archived
      <4>3. Files(u)'
        BY <1>2, <1>4, <4>1 DEF Files
      <4> QED  BY <1>2, <1>4, <4>1, <4>2, <4>3 DEF Archived
    <3>2. CASE q # p
      <4>1. u = task[q] /\ Archived(u)
        BY <1>6, <2>1, <3>2, TaskFact
      <4>2. u.at # "idle" /\ u.kind = "archive" => ~u.alone
        BY <1>1, <1>2, <3>2, <4>1, TaskFact
      <4> QED  BY <1>2, <4>1, <4>2 DEF Archived
    <3> QED  BY <3>1, <3>2
  <2> QED  BY <2>1, <2>2, <2>3, <2>4 DEF Copied, Archived, FinalInv, Files, SaysFinal
<1> QED  BY <1>7, <1>8, <1>9, <1>10 DEF FilesInv, CopyInv

LEMMA WriteManifestKeeps ==
    ASSUME FilesInv, NEW p \in Proc, WriteManifest(p)
    PROVE  FilesInv'
<1>1. PICK t \in Task : t = task[p] /\ Copied(t) /\ Archived(t) /\ FinalInv(t)
  BY TaskFact
<1>2. /\ t.at = "manifest" /\ t.kind = "archive" /\ torn' = ~t.alone
      /\ manifest'.final = log /\ manifest'.timeline = t.events /\ manifest'.written
      /\ table' = table /\ log' = log /\ archive' = archive /\ task \in [Proc -> Task]
  BY <1>1 DEF WriteManifest, FilesInv, CopyTypes, ManifestOf, ManifestWith, FinalHash, Copied
<1>3. PICK j \in Task : j = [t EXCEPT !.at = "announce"]
  BY DEF Task
<1>4. /\ j.at = "announce" /\ j.read = t.read /\ j.rows = t.rows /\ j.kind = t.kind
      /\ j.events = t.events /\ j.disturbed = t.disturbed /\ j.alone = t.alone
  BY <1>3 DEF Task
<1>5. task' = [task EXCEPT ![p] = j]
  BY <1>1, <1>3 DEF WriteManifest, Do
<1>6. task'[p] = j /\ \A q \in Proc : q # p => task'[q] = task[q]
  BY <1>2, <1>5
<1>7. CopyTypes'
  BY <1>2, <1>5 DEF FilesInv, CopyTypes, Task
<1>8. PairAgrees'
  <2> SUFFICES ASSUME t.alone
               PROVE  PairAgrees'
    BY <1>2 DEF PairAgrees
  <2>1. Files(t) /\ IsPrefix(t.events, log)
    BY <1>1, <1>2 DEF Archived
  <2> QED  BY <1>2, <2>1 DEF PairAgrees, Files
<1>9. (\A q, r \in Archiving : q # r => ~task[q].alone)'
  BY <1>1, <1>2, <1>4, <1>6, SameArchives
<1>10. ASSUME NEW q \in Proc
       PROVE  (Copied(task[q]) /\ Archived(task[q]) /\ FinalInv(task[q]))'
  <2>1. PICK u \in Task : u = task'[q]
    BY <1>2, <1>5
  <2>2. Copied(u)'
    <3>1. Copied(j)
      BY <1>1, <1>2, <1>4 DEF Copied
    <3>2. Copied(u)
      BY <1>6, <2>1, <3>1, TaskFact
    <3> QED  BY <1>2, <3>2 DEF Copied
  <2>3. FinalInv(u)'
    <3>1. FinalInv(u)
      BY <1>1, <1>2, <1>4, <1>6, <2>1, TaskFact DEF FinalInv
    <3> QED  BY <1>2, <3>1 DEF FinalInv, SaysFinal
  <2>4. Archived(u)'
    <3>1. CASE q = p
      <4>1. u = j
        BY <1>6, <2>1, <3>1
      <4>2. IsPrefix(t.events, log) /\ (~t.disturbed => t.events = Visible(log, Limit))
            /\ (t.alone => Files(t))
        BY <1>1, <1>2 DEF Archived
      <4>3. t.alone => Files(u)'
        BY <1>2, <1>4, <4>1, <4>2 DEF Files
      <4> QED  BY <1>2, <1>4, <4>1, <4>2, <4>3 DEF Archived
    <3>2. CASE q # p
      <4>1. u = task[q] /\ Archived(u)
        BY <1>6, <2>1, <3>2, TaskFact
      <4>2. u.at # "idle" /\ u.kind = "archive" => ~u.alone
        BY <1>1, <1>2, <3>2, <4>1, TaskFact
      <4> QED  BY <1>2, <4>1, <4>2 DEF Archived
    <3> QED  BY <3>1, <3>2
  <2> QED  BY <2>1, <2>2, <2>3, <2>4 DEF Copied, Archived, FinalInv, Files, SaysFinal
<1> QED  BY <1>7, <1>8, <1>9, <1>10 DEF FilesInv, CopyInv

LEMMA AnnounceKeeps ==
    ASSUME FilesInv, NEW p \in Proc, Announce(p)
    PROVE  FilesInv'
<1>0. CopyTypes /\ \A q \in Proc : task[q] \in Task
  BY DEF FilesInv, CopyTypes
<1>1. PICK t \in Task : t = task[p] /\ Copied(t) /\ Archived(t) /\ FinalInv(t)
  BY TaskFact
<1>2. PICK e \in Event : e = Announcement(t.kind)
  BY DEF Announcement, Event
<1>3. /\ t.at = "announce" /\ log' = Append(log, e) /\ log \in Seq(Event) /\ log' \in Seq(Event)
      /\ UNCHANGED <<table, archive, manifest, torn>>
  BY <1>0, <1>1, <1>2, LongerFact DEF Announce, CopyTypes
<1>4. PICK j \in Task : j = IF t.kind = "final export" THEN [t EXCEPT !.at = "read"] ELSE Idle
  BY IdleFact DEF Task
<1>5. task'[p] = j /\ \A q \in Proc : q # p => task'[q] = Disturbed(task[q])
  BY <1>1, <1>4 DEF Announce
<1>6. \A q \in Proc : q # p =>
         /\ task'[q] \in Task /\ task'[q].at = task[q].at /\ task'[q].kind = task[q].kind
         /\ task'[q].alone = task[q].alone
  BY <1>0, <1>5, DisturbedFact
<1>7. t.kind = "final export" =>
         /\ j.at = "read" /\ j.read = t.read /\ j.rows = t.rows /\ j.kind = t.kind
         /\ j.events = t.events /\ j.disturbed = t.disturbed
  BY <1>4 DEF Task
<1>8. CopyTypes'
  <2>1. \A q \in Proc : task'[q] \in Task
    BY <1>5, <1>6
  <2>2. task' \in [Proc -> Task]
    BY <2>1 DEF Announce
  <2> QED  BY <1>0, <1>3, <2>2 DEF CopyTypes
<1>9. PairAgrees'
  BY <1>3 DEF FilesInv, CopyInv, PairAgrees
<1>10. (\A q, r \in Archiving : q # r => ~task[q].alone)'
  <2>1. j.at # "idle" => j.kind # "archive"
    BY <1>4, <1>7, IdleFact
  <2> QED  BY <1>5, <1>6, <2>1, SameArchives
<1>11. ASSUME NEW q \in Proc
       PROVE  (Copied(task[q]) /\ Archived(task[q]) /\ FinalInv(task[q]))'
  <2>1. CASE q = p
    <3>1. CASE t.kind = "final export"
      <4>1. t.read = 0 /\ e = "log_exported"
        BY <1>1, <1>2, <1>3, <3>1 DEF Copied, Announcement
      <4>2. Contains(log', "log_exported") /\ Last(log') = "log_exported"
        BY <1>3, <4>1, LongerFact
      <4>3. Copied(j)'
        <5>1. PICK m \in Nat \ {0} : m = Len(TableOrder)
          BY OrderFact
        <5>2. 0 < m /\ \A i \in 1..0 : FALSE
          OBVIOUS
        <5> QED  BY <1>7, <3>1, <4>1, <5>1, <5>2 DEF Copied
      <4>4. ~(t.read > 0)
        BY <4>1
      <4>5. Archived(j)' /\ FinalInv(j)'
        BY <1>7, <3>1, <4>2, <4>4 DEF Archived, FinalInv, SaysFinal
      <4> QED  BY <1>5, <2>1, <4>3, <4>5 DEF Copied, Archived, FinalInv, Files, SaysFinal
    <3>2. CASE t.kind # "final export"
      <4>1. j.at = "idle" /\ j.kind = "archive"
        BY <1>4, <3>2, IdleFact DEF Idle
      <4>2. Copied(j)' /\ Archived(j)' /\ FinalInv(j)'
        BY <4>1 DEF Copied, Archived, FinalInv
      <4> QED  BY <1>5, <2>1, <4>2 DEF Copied, Archived, FinalInv, Files, SaysFinal
    <3> QED  BY <3>1, <3>2
  <2>2. CASE q # p
    <3>1. PICK s \in Task : s = task[q] /\ Copied(s) /\ Archived(s) /\ FinalInv(s)
      BY TaskFact
    <3>2. (Copied(Disturbed(s)) /\ Archived(Disturbed(s)) /\ FinalInv(Disturbed(s)))'
      BY <1>0, <1>3, <3>1, DisturbedKeeps
    <3>3. task'[q] = Disturbed(s)
      BY <1>5, <2>2, <3>1
    <3>4. Copied(task[q])' /\ Archived(task[q])'
      BY <3>2, <3>3 DEF Disturbed, Copied, Archived, Files
    <3> QED  BY <3>2, <3>3, <3>4 DEF Disturbed, FinalInv, SaysFinal
  <2> QED  BY <2>1, <2>2
<1> QED  BY <1>8, <1>9, <1>10, <1>11 DEF FilesInv, CopyInv

LEMMA FilesStep ==
    ASSUME FilesInv, [Next]_vars
    PROVE  FilesInv'
<1>1. CASE UNCHANGED vars
  BY <1>1 DEF vars, FilesInv, CopyTypes, CopyInv, PairAgrees, Archiving, Copied, Archived, FinalInv,
              Files, SaysFinal
<1>2. CASE Next
  BY <1>2, ChangeTableKeeps, AppendEventKeeps, BeginKeeps, ReadTableKeeps, ReadEventsKeeps,
     WriteArchiveKeeps, WriteManifestKeeps, WriteExportKeeps, AnnounceKeeps DEF Next, ArchiveStep
<1> QED  BY <1>1, <1>2

LEMMA FilesInvariant == Spec => []FilesInv
<1>1. Init => FilesInv
  <2> SUFFICES ASSUME Init
               PROVE  FilesInv
    OBVIOUS
  <2>1. \A p \in Proc : task[p] = Idle
    BY DEF Init
  <2>2. <<>> \in Seq(Event) /\ [t \in Table |-> 0] \in Rows
    BY DEF Rows
  <2>3. CopyTypes
    BY <2>2, IdleFact DEF Init, CopyTypes, NoFile, Rows
  <2>4. PairAgrees
    BY DEF Init, NoFile, PairAgrees
  <2>5. Archiving = {}
    BY <2>1, IdleFact DEF Archiving
  <2> QED  BY <2>1, <2>3, <2>4, <2>5, IdleFact DEF FilesInv, CopyInv
<1> QED  BY <1>1, FilesStep, PTL DEF Spec

\* However archives overlap or die: the last one that was completed alone has left a pair
\* of files that belong together (archive_service.py:60-62).
THEOREM PairAlwaysAgrees == Spec => []PairAgrees
<1>1. FilesInv => PairAgrees
  BY DEF FilesInv, CopyInv
<1> QED  BY <1>1, FilesInvariant, PTL

\* Whatever others do at other times: an archive or a final export in whose time nobody has
\* done anything is the run, to the last event its query asks for (archive_service.py:58, 70-73, 194-196).
THEOREM CopiesAlwaysExact == Spec => []CopiesExact
<1>1. FilesInv => CopiesExact
  <2> SUFFICES ASSUME FilesInv
               PROVE  CopiesExact
    OBVIOUS
  <2>1. ASSUME NEW p \in Proc, task[p].at = "announce", task[p].kind = "archive", task[p].alone,
               ~task[p].disturbed
        PROVE  /\ archive.rows = table /\ manifest.final = log
               /\ archive.events = manifest.final \/ Len(log) > Limit
    <3>1. PICK t \in Task : t = task[p] /\ Copied(t) /\ Archived(t)
      BY TaskFact
    <3>2. /\ archive.rows = t.rows /\ archive.events = t.events /\ manifest.final = log
          /\ t.events = Visible(log, Limit)
      BY <2>1, <3>1 DEF Archived, Files
    <3>3. t.rows = table
      <4>1. t.rows \in Rows /\ table \in Rows
        BY <3>1 DEF Task, FilesInv, CopyTypes
      <4>2. \A i \in 1..Len(TableOrder) : t.rows[TableOrder[i]] = table[TableOrder[i]]
        BY <2>1, <3>1 DEF Copied
      <4>3. \A x \in Table : t.rows[x] = table[x]
        BY <4>2, OrderFact
      <4> QED  BY <4>1, <4>3 DEF Rows
    <3>4. log \in Seq(Event) /\ Limit \in Nat /\ Len(log) \in Nat
      BY ArchiveAssumption DEF FilesInv, CopyTypes
    <3>5. Len(log) <= Limit \/ Len(log) > Limit
      BY <3>4
    <3> QED  BY <3>2, <3>3, <3>4, <3>5, VisibleFact
  <2>2. ASSUME NEW p \in Proc, task[p].at = "write", task[p].kind = "final export"
        PROVE  Len(log) > ExportLimit \/ SaysFinal(task[p].events, task[p])
    <3>1. FinalInv(task[p])
      BY TaskFact
    <3> QED  BY <2>2, <3>1 DEF FinalInv, SaysFinal
  <2> QED  BY <2>1, <2>2 DEF CopiesExact, UndisturbedArchiveExact, FinalExportIsMarked
<1> QED  BY <1>1, FilesInvariant, PTL
-----------------------------------------------------------------------------
(***************************************************************************)
(* Starts on one database.                                                 *)
(***************************************************************************)
BootPhase == {"off", "failed", "dead", "version_table", "read", "create", "insert_001", "look",
              "alter_results", "insert_002", "events", "hash_look", "alter_events", "up"}
Boot == [at : BootPhase, applied : SUBSET Migration, todo : Seq(Complete), open : BOOLEAN,
         draft : SUBSET Columns, versions : SUBSET Migration, alone : BOOLEAN]

BootTypes == schema \subseteq Complete /\ versions \subseteq Migration /\ boot \in [Starter -> Boot]
StartsGood == BootTypes /\ SchemaInv /\ StartsInv

LEMMA OffFact == /\ Off \in Boot /\ Off.at = "off" /\ Off.open = FALSE /\ Off.alone = TRUE /\ Off.draft = {}
                 /\ Off.versions = {} /\ Off.applied = {} /\ Off.todo = <<>>
<1>1. <<>> \in Seq(Complete)
  OBVIOUS
<1>2. Off \in Boot
  BY <1>1 DEF Off, Boot, BootPhase
<1> QED  BY <1>2 DEF Off

LEMMA BootFact ==
    ASSUME StartsGood, NEW p \in Starter
    PROVE  /\ boot \in [Starter -> Boot] /\ boot[p] \in Boot /\ Made(boot[p], Sees(p), versions)
           /\ Listed(boot[p]) /\ Ordered(ProviderColumns, Sees(p))
           /\ ~boot[p].open => Sees(p) = schema
           /\ schema \subseteq Sees(p) /\ Sees(p) \subseteq Complete
           /\ boot[p].todo \in Seq(Complete)
<1>1. boot \in [Starter -> Boot] /\ boot[p] \in Boot /\ schema \subseteq Complete
  BY DEF StartsGood, BootTypes
<1>2. Made(boot[p], Sees(p), versions) /\ Listed(boot[p]) /\ Ordered(ProviderColumns, Sees(p))
  BY DEF StartsGood, SchemaInv, StartsInv
<1>3. ~boot[p].open => boot[p].draft = {}
  BY <1>2 DEF Made
<1>4. boot[p].draft \subseteq Complete /\ boot[p].todo \in Seq(Complete)
  BY <1>1 DEF Boot, Complete
<1> QED  BY <1>1, <1>2, <1>3, <1>4 DEF Sees

\* More tables, columns and versions undo nothing.
LEMMA MadeGrows ==
    ASSUME NEW b, NEW S, NEW S2, NEW V, NEW V2, Made(b, S, V), S \subseteq S2, V \subseteq V2
    PROVE  Made(b, S2, V2)
BY DEF Made

\* What a step of one start has to keep for all of them.
LEMMA OneStart ==
    ASSUME StartsGood, NEW p \in Booting, NEW j \in Boot, boot' = [boot EXCEPT ![p] = j],
           NEW S, schema' = S, schema \subseteq S, S \subseteq Complete,
           NEW V, versions' = V, versions \subseteq V, V \subseteq Migration,
           "001_initial_schema" \in V => Range(CoreTables) \subseteq S,
           "002_add_provider_fields" \in V => Columns \subseteq S /\ "001_initial_schema" \in V,
           Made(j, S \cup j.draft, V), Listed(j),
           j.open => boot[p].open \/ MayWrite(p),
           j.at # "dead" => j.alone = boot[p].alone,
           Unhindered(boot[p], Sees(p), versions) => Survives(j, S \cup j.draft, V),
           \/ Survives(j, S \cup j.draft, V)
           \/ \A q \in Starter \ {p} : Survives(boot[q], Sees(q), versions)
                                        => Survives(boot[q], S \cup boot[q].draft, V),
           Ordered(HashColumns, S), Ordered(ProviderColumns, S), Ordered(ProviderColumns, S \cup j.draft),
           \A q \in Starter \ {p} : Ordered(ProviderColumns, S \cup boot[q].draft)
    PROVE  StartsGood'
<1>0. p \in Starter /\ boot[p].at \notin {"off", "up", "failed", "dead"}
  BY DEF Booting
<1>1. boot \in [Starter -> Boot]
  BY DEF StartsGood, BootTypes
<1>2. boot' \in [Starter -> Boot] /\ boot'[p] = j /\ \A q \in Starter : q # p => boot'[q] = boot[q]
  BY <1>0, <1>1
<1>3. BootTypes'
  BY <1>2 DEF BootTypes
<1>4. SchemaInv'
  <2>1. VersionsHaveSchema'
    BY DEF VersionsHaveSchema
  <2>2. ("002_add_provider_fields" \in versions => "001_initial_schema" \in versions)'
    OBVIOUS
  <2>3. (\A q, r \in Starter : boot[q].open /\ boot[r].open => q = r)'
    <3>1. \A q, r \in Starter : boot[q].open /\ boot[r].open => q = r
      BY DEF StartsGood, SchemaInv
    <3>2. \A q \in Starter : q # p /\ j.open => ~boot[q].open
      BY <1>0, <3>1 DEF MayWrite
    <3> QED  BY <1>2, <3>1, <3>2
  <2>4. ASSUME NEW q \in Starter
        PROVE  Made(boot[q], Sees(q), versions)'
    <3>1. CASE q = p
      <4>1. Made(boot'[q], S \cup boot'[q].draft, V)
        BY <1>2, <3>1
      <4> QED  BY <4>1 DEF Made, Sees
    <3>2. CASE q # p
      <4>1. Made(boot[q], Sees(q), versions)
        BY DEF StartsGood, SchemaInv
      <4>2. Made(boot[q], S \cup boot[q].draft, V)
        BY <4>1, MadeGrows DEF Sees
      <4> QED  BY <1>2, <3>2, <4>2 DEF Made, Sees
    <3> QED  BY <3>1, <3>2
  <2> QED  BY <2>1, <2>2, <2>3, <2>4 DEF SchemaInv
<1>5. StartsInv'
  <2>1. (\A q \in Starter : boot'[q].at = "off")
        \/ \E q \in Starter : Survives(boot'[q], S \cup boot'[q].draft, V)
    <3>1. CASE Survives(j, S \cup j.draft, V)
      BY <1>0, <1>2, <3>1
    <3>2. CASE ~Survives(j, S \cup j.draft, V)
      <4>1. PICK q \in Starter : Survives(boot[q], Sees(q), versions)
        BY <1>0 DEF StartsGood, StartsInv
      <4>2. q # p
        BY <1>0, <3>2, <4>1 DEF Survives
      <4>3. Survives(boot[q], S \cup boot[q].draft, V)
        BY <3>2, <4>1, <4>2
      <4> QED  BY <1>2, <4>2, <4>3
    <3> QED  BY <3>1, <3>2
  <2>2. ASSUME NEW q \in Booting', boot'[q].alone
        PROVE  Booting' = {q} /\ Survives(boot'[q], S \cup boot'[q].draft, V)
    <3>1. \A r \in Booting' : r \in Booting
      BY <1>0, <1>2 DEF Booting
    <3>2. CASE q = p
      <4>1. boot[p].alone
        BY <1>2, <2>2, <3>2 DEF Booting
      <4>2. Booting = {p} /\ Unhindered(boot[p], Sees(p), versions)
        BY <4>1 DEF StartsGood, StartsInv
      <4> QED  BY <1>2, <2>2, <3>1, <3>2, <4>2
    <3>3. CASE q # p
      <4>1. q \in Booting /\ boot[q].alone
        BY <1>2, <2>2, <3>1, <3>3 DEF Booting
      <4>2. Booting = {q}
        BY <4>1 DEF StartsGood, StartsInv
      <4> QED  BY <3>3, <4>2
    <3> QED  BY <3>2, <3>3
  <2>3. ASSUME NEW q \in Starter, boot'[q].at = "failed"
        PROVE  ~boot'[q].alone
    <3>1. CASE q = p
      <4>1. ~Survives(j, S \cup j.draft, V)
        BY <1>2, <2>3, <3>1 DEF Survives, Unhindered
      <4>2. ~boot[p].alone
        BY <4>1 DEF StartsGood, StartsInv
      <4> QED  BY <1>2, <2>3, <3>1, <4>2
    <3>2. CASE q # p
      BY <1>2, <2>3, <3>2 DEF StartsGood, StartsInv, LoneStartSucceeds
    <3> QED  BY <3>1, <3>2
  <2>4. ASSUME NEW q \in Starter
        PROVE  Ordered(ProviderColumns, S \cup boot'[q].draft) /\ Listed(boot'[q])
    <3>1. Listed(boot[q])
      BY DEF StartsGood, StartsInv
    <3> QED  BY <1>2, <3>1
  <2>5. (\A q \in Starter : boot[q].at = "off")' \/ (\E q \in Starter : Survives(boot[q], Sees(q), versions))'
    BY <2>1 DEF Survives, Unhindered, Sees
  <2>6. (\A q \in Booting : boot[q].alone => Booting = {q} /\ Unhindered(boot[q], Sees(q), versions))'
    BY <2>2 DEF Survives, Unhindered, Sees, Booting
  <2>7. LoneStartSucceeds'
    BY <2>3 DEF LoneStartSucceeds
  <2>8. (\A q \in Starter : Ordered(ProviderColumns, Sees(q)) /\ Listed(boot[q]))'
    BY <2>4 DEF Ordered, Listed, Sees
  <2>9. (Ordered(HashColumns, schema) /\ Ordered(ProviderColumns, schema))'
    BY DEF Ordered
  <2> QED  BY <2>5, <2>6, <2>7, <2>8, <2>9 DEF StartsInv
<1> QED  BY <1>3, <1>4, <1>5 DEF StartsGood

\* The lists of columns.
LEMMA ColumnsFact ==
    /\ \A columns \in {ProviderColumns, HashColumns} :
          /\ columns \in Seq(Range(columns)) /\ Len(columns) \in Nat /\ DOMAIN columns = 1..Len(columns)
          /\ \A i, j \in DOMAIN columns : i # j => columns[i] # columns[j]
          /\ IsFiniteSet(Range(columns)) /\ Range(columns) \subseteq Complete
    /\ Columns = Range(ProviderColumns) /\ Columns \cap Range(HashColumns) = {}
    /\ ({"schema_version", "squad_events"} \cup Range(CoreTables)) \cap (Columns \cup Range(HashColumns)) = {}
    /\ CoreTables \in Seq(Range(CoreTables)) /\ CoreTables # <<>> /\ Range(CoreTables) \subseteq Complete
<1>1. ASSUME NEW columns \in {ProviderColumns, HashColumns}
      PROVE  /\ columns \in Seq(Range(columns)) /\ Len(columns) \in Nat /\ DOMAIN columns = 1..Len(columns)
             /\ \A i, j \in DOMAIN columns : i # j => columns[i] # columns[j]
             /\ IsFiniteSet(Range(columns)) /\ Range(columns) \subseteq Complete
  <2>1. columns \in Seq(Range(columns)) /\ IsInjective(columns)
    BY StartupAssumption
  <2>2. Len(columns) \in Nat /\ DOMAIN columns = 1..Len(columns)
    BY <2>1
  <2>3. \A i, j \in DOMAIN columns : i # j => columns[i] # columns[j]
    BY <2>1 DEF IsInjective
  <2>4. columns \in Surjection(1..Len(columns), Range(columns))
    <3>1. columns \in [1..Len(columns) -> Range(columns)]
      BY <2>1
    <3>2. \A x \in Range(columns) : \E i \in 1..Len(columns) : columns[i] = x
      BY <2>2 DEF Range
    <3> QED  BY <3>1, <3>2 DEF Surjection
  <2>5. IsFiniteSet(Range(columns))
    BY <2>2, <2>4, FS_Interval, FS_Surjection
  <2> QED  BY <2>1, <2>2, <2>3, <2>5 DEF Complete, Columns
<1> QED  BY <1>1, StartupAssumption DEF Columns, Complete

LEMMA ListFact ==
    ASSUME NEW S, IsFiniteSet(S), NEW todo \in SetToSeqs(S)
    PROVE  todo \in Seq(S) /\ Range(todo) = S
<1> DEFINE n == Cardinality(S)
<1>1. n \in Nat
  BY FS_CardinalityType
<1>2. todo \in [1..n -> S] /\ \A i, k \in 1..n : i # k => todo[i] # todo[k]
  BY DEF SetToSeqs
<1>3. todo \in Injection(1..n, S)
  BY <1>2 DEF Injection, IsInjective
<1>4. Cardinality(1..n) = n
  BY <1>1, FS_Interval
<1>5. todo \in Surjection(1..n, S)
  BY <1>3, <1>4, FS_Injection
<1>6. \A x \in S : \E i \in 1..n : todo[i] = x
  BY <1>5 DEF Surjection
<1>7. Range(todo) = S
  BY <1>2, <1>6 DEF Range
<1> HIDE DEF n
<1>8. todo \in Seq(S)
  BY <1>1, <1>2
<1> QED  BY <1>7, <1>8

\* What is left of a list when its first element is done.
LEMMA RestFact ==
    ASSUME NEW S, NEW s \in Seq(S), s # <<>>
    PROVE  /\ Len(s) \in Nat \ {0} /\ Head(s) = s[1] /\ Head(s) \in Range(s) /\ Tail(s) \in Seq(S)
           /\ DOMAIN s = 1..Len(s) /\ DOMAIN Tail(s) = 1..(Len(s) - 1)
           /\ \A i \in 1..(Len(s) - 1) : Tail(s)[i] = s[i + 1]
           /\ (Tail(s) = <<>>) <=> (Len(s) = 1)
           /\ Range(s) = {Head(s)} \cup Range(Tail(s))
<1>1. /\ Len(s) \in Nat \ {0} /\ DOMAIN s = 1..Len(s) /\ Head(s) = s[1] /\ 1 \in DOMAIN s
      /\ Tail(s) \in Seq(S) /\ Len(Tail(s)) = Len(s) - 1
  OBVIOUS
<1>2. \A i \in 1..(Len(s) - 1) : Tail(s)[i] = s[i + 1]
  OBVIOUS
<1>3. PICK u \in Seq(S) : u = Tail(s)
  BY <1>1
<1>4. /\ Len(u) = Len(s) - 1 /\ DOMAIN u = 1..(Len(s) - 1)
      /\ \A i \in 1..(Len(s) - 1) : u[i] = s[i + 1]
  BY <1>1, <1>2, <1>3
<1>5. (u = <<>>) <=> (Len(s) = 1)
  <2>1. (u = <<>>) <=> (Len(u) = 0)
    OBVIOUS
  <2> QED  BY <1>1, <1>4, <2>1
<1>6. Range(s) \subseteq {s[1]} \cup Range(u)
  <2>1. ASSUME NEW i \in 1..Len(s), i # 1
        PROVE  s[i] \in Range(u)
    <3>1. i - 1 \in 1..(Len(s) - 1) /\ (i - 1) + 1 = i
      BY <1>1, <2>1
    <3>2. i - 1 \in DOMAIN u /\ u[i - 1] = s[i]
      BY <1>4, <3>1
    <3> QED  BY <3>2 DEF Range
  <2> QED  BY <1>1, <2>1 DEF Range
<1>7. {s[1]} \cup Range(u) \subseteq Range(s)
  <2>1. \A i \in 1..(Len(s) - 1) : i + 1 \in 1..Len(s)
    BY <1>1
  <2> QED  BY <1>1, <1>4, <2>1 DEF Range
<1>8. Head(s) \in Range(s) /\ Range(s) = {Head(s)} \cup Range(u)
  BY <1>1, <1>6, <1>7 DEF Range
<1> QED  BY <1>1, <1>2, <1>3, <1>4, <1>5, <1>8

\* Who adds the first column on its list adds the next one of all, and the rest of its list
\* is not there.
LEMMA NextColumn ==
    ASSUME NEW columns \in {ProviderColumns, HashColumns}, NEW T, NEW todo \in Seq(T), todo # <<>>,
           Follow(columns, todo), Range(todo) \subseteq Range(columns),
           NEW S, Range(columns) \ Range(todo) \subseteq S, Ordered(columns, S)
    PROVE  /\ Follow(columns, Tail(todo))
           /\ Range(Tail(todo)) \subseteq Range(columns)
           /\ Range(columns) \ Range(Tail(todo)) \subseteq S \cup {Head(todo)}
           /\ Ordered(columns, S \cup {Head(todo)})
           /\ Head(todo) \notin S => Range(Tail(todo)) \cap (S \cup {Head(todo)}) = {}
<1>1. PICK rest \in Seq(T) : rest = Tail(todo)
  BY RestFact
<1>2. PICK h : h = Head(todo)
  OBVIOUS
<1>3. PICK n \in Nat \ {0} : n = Len(todo)
  BY RestFact
<1>4. /\ h = todo[1] /\ h \in Range(todo) /\ DOMAIN todo = 1..n /\ DOMAIN rest = 1..(n - 1)
      /\ \A i \in 1..(n - 1) : rest[i] = todo[i + 1]
      /\ Range(todo) = {h} \cup Range(rest)
  BY <1>1, <1>2, <1>3, RestFact
<1>5. /\ DOMAIN columns = 1..Len(columns) /\ Len(columns) \in Nat
      /\ \A i, j \in DOMAIN columns : i # j => columns[i] # columns[j]
  BY ColumnsFact
<1>6. \A i, j \in 1..n : i < j => Precedes(columns, todo[i], todo[j])
  BY <1>4 DEF Follow
<1>7. Follow(columns, rest)
  <2> SUFFICES ASSUME NEW i \in 1..(n - 1), NEW j \in 1..(n - 1), i < j
               PROVE  Precedes(columns, rest[i], rest[j])
    BY <1>4 DEF Follow
  <2>1. i + 1 \in 1..n /\ j + 1 \in 1..n /\ i + 1 < j + 1
    OBVIOUS
  <2>2. Precedes(columns, todo[i + 1], todo[j + 1])
    BY <1>6, <2>1
  <2> QED  BY <1>4, <2>2
<1>8. \A d \in Range(rest) : Precedes(columns, h, d)
  <2> SUFFICES ASSUME NEW i \in 1..(n - 1)
               PROVE  Precedes(columns, h, rest[i])
    BY <1>4 DEF Range
  <2>1. i + 1 \in 1..n /\ 1 \in 1..n /\ 1 < i + 1
    OBVIOUS
  <2>2. Precedes(columns, todo[1], todo[i + 1])
    BY <1>6, <2>1
  <2> QED  BY <1>4, <2>2
<1>9. Ordered(columns, S \cup {h})
  <2> SUFFICES ASSUME NEW i \in DOMAIN columns, NEW j \in DOMAIN columns, i < j, columns[j] \in S \cup {h}
               PROVE  columns[i] \in S \cup {h}
    BY DEF Ordered
  <2>1. CASE columns[j] \in S
    BY <2>1 DEF Ordered
  <2>2. CASE columns[j] = h /\ columns[i] \notin S
    <3>1. columns[i] \in Range(todo)
      BY <2>2 DEF Range
    <3>2. CASE columns[i] \in Range(rest)
      <4>1. PICK a \in DOMAIN columns, b \in DOMAIN columns : a < b /\ columns[a] = h /\ columns[b] = columns[i]
        BY <1>8, <3>2 DEF Precedes
      <4>2. a = j /\ b = i
        BY <1>5, <2>2, <4>1
      <4> QED  BY <1>5, <4>1, <4>2
    <3> QED  BY <1>4, <3>1, <3>2
  <2> QED  BY <2>1, <2>2
<1>10. ASSUME h \notin S, NEW d \in Range(rest)
       PROVE  d \notin S \cup {h}
  <2>1. PICK a \in DOMAIN columns, b \in DOMAIN columns : a < b /\ columns[a] = h /\ columns[b] = d
    BY <1>8 DEF Precedes
  <2>2. a # b
    BY <1>5, <2>1
  <2>3. d # h
    BY <1>5, <2>1, <2>2
  <2>4. d \notin S
    BY <1>10, <2>1 DEF Ordered
  <2> QED  BY <2>3, <2>4
<1> QED  BY <1>1, <1>2, <1>4, <1>7, <1>9, <1>10

LEMMA OrderedApart ==
    ASSUME NEW columns, NEW S, NEW O, Ordered(columns, S),
           Range(columns) \cap O = {} \/ Range(columns) \subseteq O
    PROVE  Ordered(columns, S \cup O)
BY DEF Ordered, Range

\* A statement that changes the schema: what is new is drafted in the transaction, or
\* committed while nobody has one.
LEMMA ApplyStep ==
    ASSUME StartsGood, NEW p \in Booting, NEW next \in Boot, NEW O \in SUBSET Complete, Apply(p, O, next),
           next.draft = boot[p].draft, next.open = boot[p].open, next.alone = boot[p].alone,
           boot[p].open => O \subseteq Columns,
           Made(next, Sees(p) \cup O, versions), Listed(next), next.at # "dead",
           Unhindered(boot[p], Sees(p), versions) => Survives(next, Sees(p) \cup O, versions),
           \/ Survives(next, Sees(p) \cup O, versions)
           \/ \A q \in Starter \ {p} : Survives(boot[q], Sees(q), versions)
                                        => Survives(boot[q], Sees(q) \cup O, versions),
           Ordered(ProviderColumns, Sees(p) \cup O), Ordered(HashColumns, schema \cup O)
    PROVE  StartsGood'
<1>0. p \in Starter
  BY DEF Booting
<1>1. /\ boot[p] \in Boot /\ Made(boot[p], Sees(p), versions)
      /\ ~boot[p].open => Sees(p) = schema
      /\ schema \subseteq Complete /\ versions \subseteq Migration
      /\ Ordered(HashColumns, schema) /\ Ordered(ProviderColumns, schema)
      /\ VersionsHaveSchema
      /\ "002_add_provider_fields" \in versions => "001_initial_schema" \in versions
  BY <1>0, BootFact DEF StartsGood, BootTypes, StartsInv, SchemaInv
<1>2. \A q \in Starter : Ordered(ProviderColumns, schema \cup boot[q].draft) /\ Sees(q) = schema \cup boot[q].draft
  BY BootFact DEF Sees
<1>3. versions' = versions
  BY DEF Apply
<1>4. CASE boot[p].open
  <2>1. PICK d \in SUBSET Columns : d = next.draft \cup O
    BY <1>4 DEF Boot
  <2>2. PICK j \in Boot : j = [next EXCEPT !.draft = d]
    BY DEF Boot
  <2>3. /\ j.at = next.at /\ j.applied = next.applied /\ j.todo = next.todo /\ j.open = next.open
        /\ j.draft = d /\ j.versions = next.versions /\ j.alone = next.alone
    BY <2>2 DEF Boot
  <2>4. boot' = [boot EXCEPT ![p] = j] /\ schema' = schema
    BY <1>4, <2>1, <2>2 DEF Apply, Go
  <2>5. schema \cup j.draft = Sees(p) \cup O
    BY <2>1, <2>3 DEF Sees
  <2>6. Made(j, schema \cup j.draft, versions)
    BY <1>4, <2>3, <2>5 DEF Made
  <2>7. Listed(j)
    BY <2>3 DEF Listed
  <2>8. Survives(next, Sees(p) \cup O, versions) => Survives(j, schema \cup j.draft, versions)
    BY <2>3, <2>5 DEF Survives, Unhindered
  <2>9. \A q \in Starter \ {p} : Survives(boot[q], Sees(q), versions)
                                => Survives(boot[q], schema \cup boot[q].draft, versions)
    BY DEF Sees
  <2>10. /\ "001_initial_schema" \in versions => Range(CoreTables) \subseteq schema
         /\ "002_add_provider_fields" \in versions =>
                Columns \subseteq schema /\ "001_initial_schema" \in versions
    BY <1>1 DEF VersionsHaveSchema
  <2> QED  BY <1>1, <1>2, <1>3, <1>4, <2>3, <2>4, <2>5, <2>6, <2>7, <2>8, <2>9, <2>10, OneStart
<1>5. CASE ~boot[p].open
  <2>1. boot' = [boot EXCEPT ![p] = next] /\ schema' = schema \cup O
    BY <1>5 DEF Apply, Go
  <2>2. next.draft = {} /\ Sees(p) = schema /\ schema \cup O \cup next.draft = Sees(p) \cup O
    BY <1>1, <1>5 DEF Made
  <2>3. PICK S : S = schema \cup O
    OBVIOUS
  <2>4. schema \subseteq S /\ S \subseteq Complete /\ S \cup next.draft = Sees(p) \cup O /\ schema' = S
    BY <1>1, <2>1, <2>2, <2>3
  <2>5. ASSUME NEW q \in Starter \ {p}
        PROVE  S \cup boot[q].draft = Sees(q) \/ S \cup boot[q].draft = Sees(p) \cup O
    <3>1. CASE O \subseteq schema
      BY <2>3, <3>1 DEF Sees
    <3>2. CASE ~(O \subseteq schema)
      <4>1. ~boot[q].open
        BY <2>2, <3>2 DEF Apply, MayWrite
      <4>2. boot[q].draft = {}
        BY <4>1, BootFact DEF Made
      <4> QED  BY <2>2, <2>3, <4>2
    <3> QED  BY <3>1, <3>2
  <2>6. \A q \in Starter \ {p} : Ordered(ProviderColumns, S \cup boot[q].draft)
    BY <1>2, <2>5
  <2>7. \/ Survives(next, S \cup next.draft, versions)
        \/ \A q \in Starter \ {p} : Survives(boot[q], Sees(q), versions)
                                     => Survives(boot[q], S \cup boot[q].draft, versions)
    <3>1. ASSUME NEW q \in Starter \ {p}, Survives(boot[q], Sees(q), versions),
                 Survives(boot[q], Sees(q) \cup O, versions)
          PROVE  Survives(boot[q], S \cup boot[q].draft, versions)
      <4>1. S \cup boot[q].draft = Sees(q) \cup O
        BY <2>3 DEF Sees
      <4> QED  BY <3>1, <4>1
    <3> QED  BY <2>4, <3>1
  <2>8. /\ "001_initial_schema" \in versions => Range(CoreTables) \subseteq S
        /\ "002_add_provider_fields" \in versions =>
               Columns \subseteq S /\ "001_initial_schema" \in versions
    BY <1>1, <2>4 DEF VersionsHaveSchema
  <2>9. /\ Made(next, S \cup next.draft, versions) /\ Ordered(ProviderColumns, S \cup next.draft)
        /\ Ordered(ProviderColumns, S) /\ Ordered(HashColumns, S)
        /\ Unhindered(boot[p], Sees(p), versions) => Survives(next, S \cup next.draft, versions)
    BY <2>2, <2>3, <2>4
  <2> QED  BY <1>1, <1>3, <1>5, <2>1, <2>4, <2>6, <2>7, <2>8, <2>9, OneStart
<1> QED  BY <1>4, <1>5

\* A step that leaves the schema and the versions as they are.
LEMMA QuietStart ==
    ASSUME StartsGood, NEW p \in Booting, NEW j \in Boot, boot' = [boot EXCEPT ![p] = j],
           schema' = schema, versions' = versions,
           Made(j, schema \cup j.draft, versions), Listed(j), j.draft \subseteq boot[p].draft,
           j.draft = {} \/ j.draft = boot[p].draft,
           j.open => boot[p].open \/ MayWrite(p), j.at # "dead" => j.alone = boot[p].alone,
           Unhindered(boot[p], Sees(p), versions) => Survives(j, schema \cup j.draft, versions)
    PROVE  StartsGood'
<1>0. p \in Starter
  BY DEF Booting
<1>1. /\ schema \subseteq Complete /\ versions \subseteq Migration
      /\ Ordered(HashColumns, schema) /\ Ordered(ProviderColumns, schema)
      /\ VersionsHaveSchema
      /\ "002_add_provider_fields" \in versions => "001_initial_schema" \in versions
  BY DEF StartsGood, BootTypes, StartsInv, SchemaInv
<1>2. \A q \in Starter : Ordered(ProviderColumns, schema \cup boot[q].draft) /\ Sees(q) = schema \cup boot[q].draft
  BY BootFact DEF Sees
<1>3. schema \cup j.draft = schema \/ schema \cup j.draft = schema \cup boot[p].draft
  OBVIOUS
<1>4. Ordered(ProviderColumns, schema \cup j.draft)
  BY <1>0, <1>1, <1>2, <1>3
<1>5. \A q \in Starter \ {p} : Survives(boot[q], Sees(q), versions)
                               => Survives(boot[q], schema \cup boot[q].draft, versions)
  BY DEF Sees
<1>6. /\ "001_initial_schema" \in versions => Range(CoreTables) \subseteq schema
      /\ "002_add_provider_fields" \in versions =>
             Columns \subseteq schema /\ "001_initial_schema" \in versions
  BY <1>1 DEF VersionsHaveSchema
<1> QED  BY <1>1, <1>2, <1>4, <1>5, <1>6, OneStart

\* What the start that takes a step has been through.
LEMMA StartFact ==
    ASSUME StartsGood, NEW p \in Booting
    PROVE  /\ p \in Starter /\ boot[p] \in Boot /\ Made(boot[p], Sees(p), versions) /\ Listed(boot[p])
           /\ Sees(p) = schema \cup boot[p].draft /\ Sees(p) \subseteq Complete
           /\ schema \subseteq Complete /\ versions \subseteq Migration
           /\ Ordered(HashColumns, schema) /\ Ordered(ProviderColumns, schema)
           /\ Ordered(ProviderColumns, Sees(p))
           /\ ~boot[p].open => boot[p].draft = {} /\ boot[p].versions = {} /\ Sees(p) = schema
           /\ "001_initial_schema" \in versions => Range(CoreTables) \subseteq schema
           /\ "002_add_provider_fields" \in versions =>
                  Columns \subseteq schema /\ "001_initial_schema" \in versions
<1>1. p \in Starter
  BY DEF Booting
<1>2. /\ boot[p] \in Boot /\ Made(boot[p], Sees(p), versions) /\ Listed(boot[p])
      /\ Sees(p) \subseteq Complete /\ Ordered(ProviderColumns, Sees(p))
      /\ ~boot[p].open => Sees(p) = schema
  BY <1>1, BootFact
<1>3. ~boot[p].open => boot[p].draft = {} /\ boot[p].versions = {}
  BY <1>2 DEF Made
<1>4. Sees(p) = schema \cup boot[p].draft
  BY DEF Sees
<1> QED  BY <1>1, <1>2, <1>3, <1>4
         DEF StartsGood, BootTypes, StartsInv, SchemaInv, VersionsHaveSchema

LEMMA BreakKeeps ==
    ASSUME StartsGood, NEW p \in Booting, Break(p), schema' = schema, versions' = versions,
           ~Unhindered(boot[p], Sees(p), versions)
    PROVE  StartsGood'
<1>1. boot[p] \in Boot
  BY StartFact
<1>2. PICK j \in Boot : j = [Off EXCEPT !.at = "failed", !.alone = boot[p].alone]
  BY <1>1, OffFact DEF Boot, BootPhase
<1>3. /\ j.at = "failed" /\ j.alone = boot[p].alone /\ j.open = FALSE /\ j.draft = {}
      /\ j.versions = {} /\ j.applied = {}
  BY <1>2, OffFact DEF Boot
<1>4. boot' = [boot EXCEPT ![p] = j]
  BY <1>2 DEF Break, Go
<1>5. Made(j, schema \cup j.draft, versions) /\ Listed(j)
  BY <1>3 DEF Made, Listed, WithTables, WithColumns
<1> QED  BY <1>3, <1>4, <1>5, QuietStart

LEMMA AbortKeeps ==
    ASSUME StartsGood, NEW p \in Starter, Abort(p)
    PROVE  StartsGood'
<1>1. p \in Booting
  BY DEF Abort
<1>2. PICK j \in Boot : j = [Off EXCEPT !.at = "dead"]
  BY OffFact DEF Boot, BootPhase
<1>3. j.at = "dead" /\ j.open = FALSE /\ j.draft = {} /\ j.versions = {} /\ j.applied = {}
  BY <1>2, OffFact DEF Boot
<1>4. boot' = [boot EXCEPT ![p] = j] /\ schema' = schema /\ versions' = versions
  BY <1>2 DEF Abort, Go
<1>5. Made(j, schema \cup j.draft, versions) /\ Listed(j)
  BY <1>3 DEF Made, Listed, WithTables, WithColumns
<1>6. Survives(j, schema \cup j.draft, versions)
  BY <1>3 DEF Survives
<1> QED  BY <1>1, <1>3, <1>4, <1>5, <1>6, QuietStart

LEMMA EnsureVersionTableKeeps ==
    ASSUME StartsGood, NEW p \in Booting, EnsureVersionTable(p)
    PROVE  StartsGood'
<1>1. boot[p] \in Boot /\ Made(boot[p], Sees(p), versions) /\ boot[p].at = "version_table"
  BY StartFact DEF EnsureVersionTable
<1>2. PICK next \in Boot : next = [boot[p] EXCEPT !.at = "read"]
  BY <1>1 DEF Boot, BootPhase
<1>3. /\ next.at = "read" /\ next.applied = boot[p].applied /\ next.open = boot[p].open
      /\ next.draft = boot[p].draft /\ next.versions = boot[p].versions /\ next.alone = boot[p].alone
  BY <1>1, <1>2 DEF Boot
<1>4. Apply(p, {"schema_version"}, next)
  BY <1>2 DEF EnsureVersionTable
<1>5. ~boot[p].open
  BY <1>1 DEF Made
<1>6. {"schema_version"} \in SUBSET Complete
  BY DEF Complete
<1>7. Made(next, Sees(p) \cup {"schema_version"}, versions) /\ Listed(next)
  BY <1>1, <1>3, <1>5 DEF Made, Listed, WithTables, WithColumns
<1>8. Survives(next, Sees(p) \cup {"schema_version"}, versions)
  BY <1>3 DEF Survives, Unhindered
<1>9. \A columns \in {ProviderColumns, HashColumns} : Range(columns) \cap {"schema_version"} = {}
  BY ColumnsFact
<1>10. /\ Ordered(ProviderColumns, Sees(p) \cup {"schema_version"})
       /\ Ordered(HashColumns, schema \cup {"schema_version"})
  BY <1>9, StartFact, OrderedApart
<1>11. next.at # "dead"
  BY <1>3
<1> QED  BY <1>3, <1>4, <1>5, <1>6, <1>7, <1>8, <1>10, <1>11, ApplyStep

LEMMA ReadAppliedKeeps ==
    ASSUME StartsGood, NEW p \in Booting, ReadApplied(p)
    PROVE  StartsGood'
<1>1. /\ boot[p] \in Boot /\ Made(boot[p], Sees(p), versions) /\ boot[p].at = "read"
      /\ schema' = schema /\ versions' = versions /\ versions \subseteq Migration
  BY StartFact DEF ReadApplied
<1>2. ~boot[p].open
  BY <1>1 DEF Made
<1>3. PICK b \in Boot : b = [boot[p] EXCEPT !.applied = versions]
  BY <1>1 DEF Boot
<1>4. /\ b.at = "read" /\ b.applied = versions /\ b.open = FALSE /\ b.draft = {} /\ b.versions = {}
      /\ b.alone = boot[p].alone /\ boot[p].draft = {} /\ Sees(p) = schema
  BY <1>1, <1>2, <1>3, StartFact DEF Boot
<1>5. "schema_version" \in schema
  BY <1>1, <1>4 DEF Made
<1>6. CASE "001_initial_schema" \in versions
  <2> DEFINE a == IF "002_add_provider_fields" \in versions THEN "events" ELSE "look"
  <2>1. PICK j \in Boot : j = [b EXCEPT !.at = a]
    BY DEF Boot, BootPhase
  <2>2. /\ j.at = a /\ j.applied = versions /\ j.open = FALSE /\ j.draft = {} /\ j.versions = {}
        /\ j.alone = boot[p].alone
    BY <1>4, <2>1 DEF Boot
  <2>3. boot' = [boot EXCEPT ![p] = j]
    BY <1>3, <1>4, <1>6, <2>1 DEF ReadApplied, Go, AfterFirst
  <2>4. Made(j, schema \cup j.draft, versions) /\ Listed(j)
    BY <1>5, <1>6, <2>2, StartFact DEF Made, Listed, WithTables, WithColumns
  <2>5. Survives(j, schema \cup j.draft, versions)
    BY <2>2 DEF Survives, Unhindered
  <2>6. j.at # "dead"
    BY <2>2
  <2> QED  BY <1>1, <1>4, <2>2, <2>3, <2>4, <2>5, QuietStart
<1>7. CASE "001_initial_schema" \notin versions
  <2>1. CoreTables \in Seq(Complete) /\ CoreTables # <<>>
    BY ColumnsFact
  <2>2. PICK j \in Boot : j = [b EXCEPT !.at = "create", !.todo = CoreTables]
    BY <2>1 DEF Boot, BootPhase
  <2>3. /\ j.at = "create" /\ j.applied = versions /\ j.open = FALSE /\ j.draft = {} /\ j.versions = {}
        /\ j.alone = boot[p].alone /\ j.todo = CoreTables
    BY <1>4, <2>2 DEF Boot
  <2>4. boot' = [boot EXCEPT ![p] = j]
    BY <1>3, <1>7, <2>2 DEF ReadApplied, Go
  <2>5. Made(j, schema \cup j.draft, versions) /\ Listed(j)
    BY <1>5, <2>1, <2>3 DEF Made, Listed, WithTables, WithColumns
  <2>6. Survives(j, schema \cup j.draft, versions)
    BY <1>7, <2>3 DEF Survives, Unhindered
  <2> QED  BY <1>1, <1>4, <2>3, <2>4, <2>5, <2>6, QuietStart
<1> QED  BY <1>6, <1>7

LEMMA CreateTableKeeps ==
    ASSUME StartsGood, NEW p \in Booting, CreateTable(p)
    PROVE  StartsGood'
<1>1. boot[p] \in Boot /\ Made(boot[p], Sees(p), versions) /\ boot[p].at = "create"
  BY StartFact DEF CreateTable
<1>2. PICK todo \in Seq(Complete) : todo = boot[p].todo
  BY <1>1 DEF Boot
<1>3. /\ todo # <<>> /\ Range(todo) \subseteq Range(CoreTables) /\ ~boot[p].open
      /\ Range(CoreTables) \ Range(todo) \subseteq Sees(p)
      /\ "schema_version" \in Sees(p) /\ boot[p].applied \subseteq versions
  BY <1>1, <1>2 DEF Made
<1>4. PICK t : t = Head(todo)
  OBVIOUS
<1>5. /\ t \in Range(CoreTables) /\ Range(todo) = {t} \cup Range(Tail(todo)) /\ Tail(todo) \in Seq(Complete)
      /\ (Tail(todo) = <<>>) <=> (Len(todo) = 1)
  BY <1>3, <1>4, RestFact
<1>6. PICK rest \in Seq(Complete) : rest = Tail(todo)
  BY <1>5
<1>7. PICK a \in {"insert_001", "create"} : a = IF Len(todo) = 1 THEN "insert_001" ELSE "create"
  OBVIOUS
<1>8. PICK next \in Boot : next = [boot[p] EXCEPT !.todo = rest, !.at = a]
  BY <1>1, <1>7 DEF Boot, BootPhase
<1>9. /\ next.at = a /\ next.applied = boot[p].applied /\ next.open = boot[p].open
      /\ next.draft = boot[p].draft /\ next.versions = boot[p].versions /\ next.alone = boot[p].alone
      /\ next.todo = rest
  BY <1>1, <1>8 DEF Boot
<1>10. PICK O : O = Created(p, t)
  OBVIOUS
<1>11. /\ O \subseteq {t} \cup Columns /\ t \in Sees(p) \cup O
       /\ Columns \cap O = {} \/ Columns \subseteq O
       /\ t \in Sees(p) => O = {}
  <2>1. t \notin Columns
    BY <1>5, ColumnsFact
  <2> QED  BY <1>10, <2>1 DEF Created
<1>12. Apply(p, O, next)
  BY <1>2, <1>4, <1>6, <1>7, <1>8, <1>10 DEF CreateTable
<1>13. O \in SUBSET Complete
  BY <1>5, <1>11 DEF Complete
<1>14. Range(CoreTables) \ Range(rest) \subseteq Sees(p) \cup O
  BY <1>3, <1>5, <1>6, <1>11
<1>15. Made(next, Sees(p) \cup O, versions) /\ Listed(next)
  <2>1. boot[p].versions = {} /\ boot[p].draft = {}
    BY <1>3, StartFact
  <2>2. CASE a = "create"
    <3>1. rest # <<>> /\ Range(rest) \subseteq Range(CoreTables)
      BY <1>3, <1>5, <1>6, <1>7, <2>2
    <3> QED  BY <1>3, <1>9, <1>14, <2>1, <2>2, <3>1 DEF Made, Listed, WithTables, WithColumns
  <2>3. CASE a = "insert_001"
    <3>1. Range(rest) = {}
      BY <1>5, <1>6, <1>7, <2>3 DEF Range
    <3>2. Range(CoreTables) \subseteq Sees(p) \cup O
      BY <1>14, <3>1
    <3> QED  BY <1>3, <1>9, <2>1, <2>3, <3>2 DEF Made, Listed, WithTables, WithColumns
  <2> QED  BY <2>2, <2>3
<1>16. "001_initial_schema" \notin versions => Survives(next, Sees(p) \cup O, versions)
  BY <1>7, <1>9 DEF Survives, Unhindered
<1>17. Unhindered(boot[p], Sees(p), versions) => "001_initial_schema" \notin versions
  BY <1>1 DEF Unhindered
<1>18. "001_initial_schema" \in versions => \A q \in Starter : Sees(q) \cup O = Sees(q)
  BY <1>5, <1>11, StartFact
<1>19. Ordered(ProviderColumns, Sees(p) \cup O) /\ Ordered(HashColumns, schema \cup O)
  <2>1. Range(HashColumns) \cap O = {}
    BY <1>5, <1>11, ColumnsFact
  <2>2. Range(ProviderColumns) \cap O = {} \/ Range(ProviderColumns) \subseteq O
    BY <1>11 DEF Columns
  <2>3. Ordered(ProviderColumns, Sees(p)) /\ Ordered(HashColumns, schema)
    BY StartFact
  <2> QED  BY <2>1, <2>2, <2>3, OrderedApart
<1>20. next.at # "dead"
  BY <1>7, <1>9
<1>21. \/ Survives(next, Sees(p) \cup O, versions)
       \/ \A q \in Starter \ {p} : Survives(boot[q], Sees(q), versions)
                                    => Survives(boot[q], Sees(q) \cup O, versions)
  BY <1>16, <1>18
<1> QED  BY <1>3, <1>9, <1>12, <1>13, <1>15, <1>16, <1>17, <1>19, <1>20, <1>21, ApplyStep

\* The columns somebody finds lacking.
LEMMA LackingFact ==
    ASSUME StartsGood, NEW p \in Starter, NEW columns \in {ProviderColumns, HashColumns},
           NEW todo \in Lacking(p, columns)
    PROVE  /\ todo \in Seq(Complete) /\ Range(todo) = Range(columns) \ Sees(p) /\ Follow(columns, todo)
           /\ todo = <<>> => Range(columns) \subseteq Sees(p)
<1>1. IsFiniteSet(Range(columns)) /\ Range(columns) \subseteq Complete
  BY ColumnsFact
<1>2. PICK S : S = Range(columns) \ Sees(p)
  OBVIOUS
<1>3. IsFiniteSet(S) /\ S \subseteq Complete
  BY <1>1, <1>2, FS_Subset
<1>4. todo \in SetToSeqs(S) /\ Follow(columns, todo)
  BY <1>2 DEF Lacking, InOrder
<1>5. todo \in Seq(S) /\ Range(todo) = S
  BY <1>3, <1>4, ListFact
<1>6. todo \in Seq(Complete)
  BY <1>3, <1>5
<1>7. todo = <<>> => Range(todo) = {}
  BY DEF Range
<1> QED  BY <1>2, <1>4, <1>5, <1>6, <1>7

LEMMA AddProviderFieldsKeeps ==
    ASSUME StartsGood, NEW p \in Booting, AddProviderFields(p)
    PROVE  StartsGood'
<1>1. /\ boot[p] \in Boot /\ Made(boot[p], Sees(p), versions) /\ boot[p].at = "look"
      /\ schema' = schema /\ versions' = versions
  BY StartFact DEF AddProviderFields
<1>2. PICK todo \in Lacking(p, ProviderColumns) :
          Go(p, [boot[p] EXCEPT !.todo = todo,
                                !.at = IF todo = <<>> THEN "insert_002" ELSE "alter_results"])
  BY DEF AddProviderFields
<1>3. /\ todo \in Seq(Complete) /\ Range(todo) = Columns \ Sees(p) /\ Follow(ProviderColumns, todo)
      /\ todo = <<>> => Columns \subseteq Sees(p)
  BY <1>2, StartFact, LackingFact DEF Columns
<1>4. PICK a \in {"insert_002", "alter_results"} : a = IF todo = <<>> THEN "insert_002" ELSE "alter_results"
  OBVIOUS
<1>5. PICK j \in Boot : j = [boot[p] EXCEPT !.todo = todo, !.at = a]
  BY <1>1, <1>3, <1>4 DEF Boot, BootPhase
<1>6. /\ j.at = a /\ j.applied = boot[p].applied /\ j.open = boot[p].open
      /\ j.draft = boot[p].draft /\ j.versions = boot[p].versions /\ j.alone = boot[p].alone
      /\ j.todo = todo
  BY <1>1, <1>5 DEF Boot
<1>7. boot' = [boot EXCEPT ![p] = j]
  BY <1>2, <1>4, <1>5 DEF Go
<1>8. schema \cup j.draft = Sees(p)
  BY <1>6 DEF Sees
<1>9. Made(j, Sees(p), versions) /\ Listed(j)
  <2>1. CASE a = "insert_002"
    BY <1>1, <1>3, <1>4, <1>6, <2>1 DEF Made, Listed, WithTables, WithColumns
  <2>2. CASE a = "alter_results"
    BY <1>1, <1>3, <1>4, <1>6, <2>2 DEF Made, Listed, WithTables, WithColumns
  <2> QED  BY <2>1, <2>2
<1>10. Unhindered(boot[p], Sees(p), versions) => Survives(j, Sees(p), versions)
  BY <1>1, <1>3, <1>4, <1>6 DEF Survives, Unhindered
<1>11. j.at # "dead"
  BY <1>6
<1> QED  BY <1>1, <1>6, <1>7, <1>8, <1>9, <1>10, <1>11, QuietStart

\* ALTER TABLE in one of its two places.
LEMMA AddColumnKeeps ==
    ASSUME StartsGood, NEW p \in Booting,
           NEW at, NEW next, NEW columns,
           \/ at = "alter_results" /\ next = "insert_002" /\ columns = ProviderColumns
           \/ at = "alter_events" /\ next = "up" /\ columns = HashColumns,
           AddColumn(p, at, next)
    PROVE  StartsGood'
<1>1. boot[p] \in Boot /\ Made(boot[p], Sees(p), versions) /\ Listed(boot[p]) /\ boot[p].at = at
  BY StartFact DEF AddColumn
<1>2. PICK todo \in Seq(Complete) : todo = boot[p].todo
  BY <1>1 DEF Boot
<1>3. /\ todo # <<>> /\ Range(todo) \subseteq Range(columns) /\ Range(columns) \ Range(todo) \subseteq Sees(p)
      /\ Follow(columns, todo)
  BY <1>1, <1>2 DEF Made, Listed, Columns
<1>4. PICK c : c = Head(todo)
  OBVIOUS
<1>5. /\ c \in Range(todo) /\ Tail(todo) \in Seq(Complete)
      /\ (Tail(todo) = <<>>) <=> (Len(todo) = 1)
  BY <1>3, <1>4, RestFact
<1>6. CASE c \in Sees(p)
  <2>1. Break(p) /\ schema' = schema /\ versions' = versions
    BY <1>2, <1>4, <1>6 DEF AddColumn
  <2>2. ~Unhindered(boot[p], Sees(p), versions)
    BY <1>1, <1>2, <1>5, <1>6 DEF Unhindered
  <2> QED  BY <2>1, <2>2, BreakKeeps
<1>7. CASE c \notin Sees(p)
  <2>1. PICK rest \in Seq(Complete) : rest = Tail(todo)
    BY <1>5
  <2>2. PICK a \in {"insert_002", "up", "alter_results", "alter_events"} :
            a = IF Len(todo) = 1 THEN next ELSE at
    OBVIOUS
  <2>3. PICK b \in Boot : b = [boot[p] EXCEPT !.todo = rest, !.at = a]
    BY <1>1, <2>2 DEF Boot, BootPhase
  <2>4. /\ b.at = a /\ b.applied = boot[p].applied /\ b.open = boot[p].open
        /\ b.draft = boot[p].draft /\ b.versions = boot[p].versions /\ b.alone = boot[p].alone
        /\ b.todo = rest
    BY <1>1, <2>3 DEF Boot
  <2>5. Apply(p, {c}, b)
    BY <1>2, <1>4, <1>7, <2>1, <2>2, <2>3 DEF AddColumn
  <2>6. columns \in {ProviderColumns, HashColumns}
    OBVIOUS
  <2>7. {c} \in SUBSET Complete /\ c \in Range(columns)
    BY <1>3, <1>5, <2>6, ColumnsFact
  <2>8. at = "alter_events" => ~boot[p].open
    BY <1>1 DEF Made
  <2>9. Ordered(columns, Sees(p))
    BY <2>6, <2>8, StartFact
  <2>10. /\ Follow(columns, rest) /\ Range(rest) \subseteq Range(columns)
         /\ Range(columns) \ Range(rest) \subseteq Sees(p) \cup {c}
         /\ Ordered(columns, Sees(p) \cup {c})
         /\ Range(rest) \cap (Sees(p) \cup {c}) = {}
    BY <1>3, <1>4, <1>7, <2>1, <2>6, <2>9, NextColumn
  <2>11. rest = <<>> => Range(columns) \subseteq Sees(p) \cup {c}
    <3>1. rest = <<>> => Range(rest) = {}
      BY DEF Range
    <3> QED  BY <2>10, <3>1
  <2>12. (rest = <<>>) <=> (Len(todo) = 1)
    BY <1>5, <2>1
  <2>13. CASE at = "alter_results"
    <3>1. columns = ProviderColumns /\ next = "insert_002" /\ Range(columns) = Columns
      BY <2>13 DEF Columns
    <3>2. "002_add_provider_fields" \notin versions
      BY <1>7, <2>7, <3>1, StartFact
    <3>3. Made(b, Sees(p) \cup {c}, versions) /\ Listed(b)
      <4>1. CASE a = "insert_002"
        BY <1>1, <2>2, <2>4, <2>10, <2>11, <2>12, <2>13, <3>1, <4>1
           DEF Made, Listed, WithTables, WithColumns
      <4>2. CASE a = "alter_results"
        BY <1>1, <2>2, <2>4, <2>10, <2>12, <2>13, <3>1, <4>2
           DEF Made, Listed, WithTables, WithColumns
      <4> QED  BY <2>2, <2>13, <3>1, <4>1, <4>2
    <3>4. Survives(b, Sees(p) \cup {c}, versions)
      BY <2>2, <2>4, <2>10, <2>13, <3>1, <3>2 DEF Survives, Unhindered
    <3>5. Ordered(HashColumns, schema \cup {c})
      <4>1. Range(HashColumns) \cap {c} = {}
        BY <2>7, <3>1, ColumnsFact
      <4> QED  BY <4>1, StartFact, OrderedApart
    <3>6. Ordered(ProviderColumns, Sees(p) \cup {c}) /\ {c} \subseteq Columns /\ b.at # "dead"
      BY <2>4, <2>7, <2>10, <3>1
    <3> QED  BY <2>4, <2>5, <2>7, <3>3, <3>4, <3>5, <3>6, ApplyStep
  <2>14. CASE at = "alter_events"
    <3>1. columns = HashColumns /\ next = "up" /\ ~boot[p].open /\ Sees(p) = schema
      BY <2>8, <2>14, StartFact
    <3>2. Made(b, Sees(p) \cup {c}, versions) /\ Listed(b)
      <4>1. CASE a = "up"
        BY <1>1, <2>2, <2>4, <2>10, <2>11, <2>12, <2>14, <3>1, <4>1
           DEF Made, Listed, WithTables, WithColumns
      <4>2. CASE a = "alter_events"
        BY <1>1, <2>2, <2>4, <2>10, <2>12, <2>14, <3>1, <4>2
           DEF Made, Listed, WithTables, WithColumns
      <4> QED  BY <2>2, <2>14, <3>1, <4>1, <4>2
    <3>3. Survives(b, Sees(p) \cup {c}, versions)
      BY <2>2, <2>4, <2>10, <2>14, <3>1 DEF Survives, Unhindered
    <3>4. Ordered(ProviderColumns, Sees(p) \cup {c})
      <4>1. Range(ProviderColumns) \cap {c} = {}
        BY <2>7, <3>1, ColumnsFact DEF Columns
      <4> QED  BY <4>1, StartFact, OrderedApart
    <3>5. Ordered(HashColumns, schema \cup {c}) /\ b.at # "dead"
      BY <2>4, <2>10, <3>1
    <3> QED  BY <2>4, <2>5, <2>7, <3>1, <3>2, <3>3, <3>4, <3>5, ApplyStep
  <2> QED  BY <2>13, <2>14
<1> QED  BY <1>6, <1>7

LEMMA InsertFirstKeeps ==
    ASSUME StartsGood, NEW p \in Booting, InsertVersion(p, "insert_001", "001_initial_schema")
    PROVE  StartsGood'
<1>1. /\ boot[p] \in Boot /\ Made(boot[p], Sees(p), versions) /\ boot[p].at = "insert_001"
      /\ schema' = schema /\ versions' = versions /\ versions \subseteq Migration
  BY StartFact DEF InsertVersion
<1>2. CASE "001_initial_schema" \in versions
  <2>1. Break(p)
    BY <1>2 DEF InsertVersion
  <2>2. ~Unhindered(boot[p], Sees(p), versions)
    BY <1>1, <1>2 DEF Unhindered
  <2> QED  BY <1>1, <2>1, <2>2, BreakKeeps
<1>3. CASE "001_initial_schema" \notin versions
  <2>1. "002_add_provider_fields" \notin versions
    BY <1>3, StartFact
  <2>2. ~boot[p].open /\ boot[p].applied \subseteq versions
    BY <1>1 DEF Made
  <2>3. boot[p].versions = {} /\ boot[p].draft = {} /\ Sees(p) = schema
    BY <2>2, StartFact
  <2>4. PICK b \in Boot : b = [boot[p] EXCEPT !.open = TRUE, !.versions = {"001_initial_schema"}]
    BY <1>1 DEF Boot, Migration
  <2>5. /\ b.applied = boot[p].applied /\ b.open = TRUE /\ b.draft = {} /\ b.todo = boot[p].todo
        /\ b.versions = {"001_initial_schema"} /\ b.alone = boot[p].alone
    BY <1>1, <2>3, <2>4 DEF Boot
  <2>6. PICK j \in Boot : j = [b EXCEPT !.at = "look"]
    BY DEF Boot, BootPhase
  <2>7. /\ j.at = "look" /\ j.applied = boot[p].applied /\ j.open = TRUE /\ j.draft = {}
        /\ j.versions = {"001_initial_schema"} /\ j.alone = boot[p].alone
    BY <2>5, <2>6 DEF Boot
  <2>8. "002_add_provider_fields" \notin b.applied
    BY <2>1, <2>2, <2>5
  <2>9. [boot[p] EXCEPT !.open = TRUE, !.versions = @ \cup {"001_initial_schema"}] = b
    BY <2>3, <2>4
  <2>10. AfterFirst(b) = j
    BY <2>6, <2>8 DEF AfterFirst
  <2>11. Go(p, AfterFirst([boot[p] EXCEPT !.open = TRUE, !.versions = @ \cup {"001_initial_schema"}]))
         /\ MayWrite(p)
    BY <1>3 DEF InsertVersion
  <2>12. boot' = [boot EXCEPT ![p] = j]
    BY <2>9, <2>10, <2>11 DEF Go
  <2>13. Made(j, schema \cup j.draft, versions) /\ Listed(j)
    BY <1>1, <2>2, <2>3, <2>7 DEF Made, Listed, WithTables, WithColumns
  <2>14. Survives(j, schema \cup j.draft, versions)
    BY <2>1, <2>7 DEF Survives, Unhindered
  <2> QED  BY <1>1, <2>3, <2>7, <2>11, <2>12, <2>13, <2>14, QuietStart
<1> QED  BY <1>2, <1>3

LEMMA InsertSecondKeeps ==
    ASSUME StartsGood, NEW p \in Booting, InsertVersion(p, "insert_002", "002_add_provider_fields")
    PROVE  StartsGood'
<1>1. /\ boot[p] \in Boot /\ Made(boot[p], Sees(p), versions) /\ boot[p].at = "insert_002"
      /\ schema' = schema /\ versions' = versions
  BY StartFact DEF InsertVersion
<1>2. CASE "002_add_provider_fields" \in versions
  <2>1. Break(p)
    BY <1>2 DEF InsertVersion
  <2>2. ~Unhindered(boot[p], Sees(p), versions)
    BY <1>1, <1>2 DEF Unhindered
  <2> QED  BY <1>1, <2>1, <2>2, BreakKeeps
<1>3. CASE "002_add_provider_fields" \notin versions
  <2>1. PICK v \in SUBSET Migration : v = boot[p].versions \cup {"002_add_provider_fields"}
    BY <1>1 DEF Boot, Migration
  <2>2. PICK b \in Boot : b = [boot[p] EXCEPT !.open = TRUE, !.versions = v]
    BY <1>1 DEF Boot
  <2>3. /\ b.applied = boot[p].applied /\ b.open = TRUE /\ b.draft = boot[p].draft
        /\ b.versions = v /\ b.alone = boot[p].alone
    BY <1>1, <2>2 DEF Boot
  <2>4. PICK j \in Boot : j = [b EXCEPT !.at = "events"]
    BY DEF Boot, BootPhase
  <2>5. /\ j.at = "events" /\ j.applied = boot[p].applied /\ j.open = TRUE /\ j.draft = boot[p].draft
        /\ j.versions = v /\ j.alone = boot[p].alone
    BY <2>3, <2>4 DEF Boot
  <2>6. [boot[p] EXCEPT !.open = TRUE, !.versions = @ \cup {"002_add_provider_fields"}] = b
    BY <2>1, <2>2
  <2>7. Go(p, [[boot[p] EXCEPT !.open = TRUE, !.versions = @ \cup {"002_add_provider_fields"}]
               EXCEPT !.at = "events"]) /\ MayWrite(p)
    BY <1>3 DEF InsertVersion
  <2>8. boot' = [boot EXCEPT ![p] = j]
    BY <2>4, <2>6, <2>7 DEF Go
  <2>9. schema \cup j.draft = Sees(p)
    BY <2>5 DEF Sees
  <2>10. Made(j, Sees(p), versions) /\ Listed(j)
    BY <1>1, <2>1, <2>5 DEF Made, Listed, WithTables, WithColumns
  <2>11. Survives(j, Sees(p), versions) /\ j.at # "dead"
    BY <2>5 DEF Survives, Unhindered
  <2> QED  BY <1>1, <2>5, <2>7, <2>8, <2>9, <2>10, <2>11, QuietStart
<1> QED  BY <1>2, <1>3

LEMMA OpenEventsKeeps ==
    ASSUME StartsGood, NEW p \in Booting, OpenEvents(p)
    PROVE  StartsGood'
<1>1. boot[p] \in Boot /\ Made(boot[p], Sees(p), versions) /\ boot[p].at = "events" /\ p \in Starter
  BY StartFact DEF OpenEvents
<1>2. PICK j \in Boot : j = [boot[p] EXCEPT !.at = "hash_look", !.open = FALSE, !.draft = {}, !.versions = {}]
  BY <1>1 DEF Boot, BootPhase
<1>3. /\ j.at = "hash_look" /\ j.open = FALSE /\ j.draft = {} /\ j.versions = {}
      /\ j.applied = boot[p].applied /\ j.alone = boot[p].alone
  BY <1>1, <1>2 DEF Boot
<1>4. PICK S : S = Sees(p) \cup {"squad_events"}
  OBVIOUS
<1>5. PICK V : V = versions \cup boot[p].versions
  OBVIOUS
<1>6. boot' = [boot EXCEPT ![p] = j] /\ schema' = S /\ versions' = V
  BY <1>2, <1>4, <1>5 DEF OpenEvents, Go
<1>7. /\ schema \subseteq S /\ S \subseteq Complete /\ versions \subseteq V /\ V \subseteq Migration
      /\ S \cup j.draft = S
  BY <1>1, <1>3, <1>4, <1>5, StartFact DEF Complete, Boot
<1>8. /\ "schema_version" \in Sees(p) /\ Range(CoreTables) \subseteq Sees(p) /\ Columns \subseteq Sees(p)
      /\ boot[p].applied \subseteq versions
      /\ "001_initial_schema" \in V
  BY <1>1, <1>5 DEF Made, WithTables, WithColumns
<1>9. Made(j, S, V) /\ Listed(j)
  BY <1>3, <1>4, <1>7, <1>8 DEF Made, Listed, WithTables, WithColumns
<1>10. Survives(j, S, V)
  BY <1>3 DEF Survives, Unhindered
<1>11. Range(HashColumns) \cap {"squad_events"} = {} /\ Range(ProviderColumns) \cap {"squad_events"} = {}
  BY ColumnsFact
<1>12. Ordered(ProviderColumns, S)
  BY <1>4, <1>11, StartFact, OrderedApart
<1>13. Ordered(HashColumns, S)
  <2>1. PICK O : O = boot[p].draft \cup {"squad_events"}
    OBVIOUS
  <2>2. Range(HashColumns) \cap O = {}
    BY <1>1, <1>11, <2>1, ColumnsFact DEF Boot
  <2>3. S = schema \cup O
    BY <1>4, <2>1 DEF Sees
  <2> QED  BY <2>2, <2>3, StartFact, OrderedApart
<1>14. ASSUME NEW q \in Starter \ {p}
       PROVE  Ordered(ProviderColumns, S \cup boot[q].draft)
  <2>1. CASE boot[q].open
    <3>1. ~boot[p].open
      BY <1>1, <2>1 DEF StartsGood, SchemaInv
    <3>2. S \cup boot[q].draft = Sees(q) \cup {"squad_events"}
      BY <1>4, <3>1, StartFact DEF Sees
    <3>3. Ordered(ProviderColumns, Sees(q))
      BY BootFact
    <3> QED  BY <1>11, <3>2, <3>3, OrderedApart
  <2>2. CASE ~boot[q].open
    <3>1. boot[q].draft = {}
      BY <2>2, BootFact DEF Made
    <3> QED  BY <1>12, <3>1
  <2> QED  BY <2>1, <2>2
<1>15. /\ "001_initial_schema" \in V => Range(CoreTables) \subseteq S
       /\ "002_add_provider_fields" \in V => Columns \subseteq S /\ "001_initial_schema" \in V
  BY <1>4, <1>8
<1>16. /\ Made(j, S \cup j.draft, V) /\ Survives(j, S \cup j.draft, V)
       /\ Ordered(ProviderColumns, S \cup j.draft)
  BY <1>7, <1>9, <1>10, <1>12
<1>17. j.open = FALSE /\ j.alone = boot[p].alone
  BY <1>3
<1> QED  BY <1>6, <1>7, <1>9, <1>12, <1>13, <1>14, <1>15, <1>16, <1>17, OneStart

LEMMA EnsureHashColumnsKeeps ==
    ASSUME StartsGood, NEW p \in Booting, EnsureHashColumns(p)
    PROVE  StartsGood'
<1>1. CASE AddColumn(p, "alter_events", "up")
  BY <1>1, AddColumnKeeps
<1>2. CASE /\ boot[p].at = "hash_look"
           /\ \E todo \in Lacking(p, HashColumns) :
                  Go(p, [boot[p] EXCEPT !.todo = todo, !.at = IF todo = <<>> THEN "up" ELSE "alter_events"])
           /\ UNCHANGED <<schema, versions, starts>>
  <2>1. boot[p] \in Boot /\ Made(boot[p], Sees(p), versions) /\ schema' = schema /\ versions' = versions
    BY <1>2, StartFact
  <2>2. PICK todo \in Lacking(p, HashColumns) :
            Go(p, [boot[p] EXCEPT !.todo = todo, !.at = IF todo = <<>> THEN "up" ELSE "alter_events"])
    BY <1>2
  <2>3. /\ todo \in Seq(Complete) /\ Range(todo) = Range(HashColumns) \ Sees(p) /\ Follow(HashColumns, todo)
        /\ todo = <<>> => Range(HashColumns) \subseteq Sees(p)
    BY <2>2, StartFact, LackingFact
  <2>4. PICK a \in {"up", "alter_events"} : a = IF todo = <<>> THEN "up" ELSE "alter_events"
    OBVIOUS
  <2>5. PICK j \in Boot : j = [boot[p] EXCEPT !.todo = todo, !.at = a]
    BY <2>1, <2>3, <2>4 DEF Boot, BootPhase
  <2>6. /\ j.at = a /\ j.applied = boot[p].applied /\ j.open = boot[p].open
        /\ j.draft = boot[p].draft /\ j.versions = boot[p].versions /\ j.alone = boot[p].alone
        /\ j.todo = todo
    BY <2>1, <2>5 DEF Boot
  <2>7. boot' = [boot EXCEPT ![p] = j]
    BY <2>2, <2>4, <2>5 DEF Go
  <2>8. schema \cup j.draft = Sees(p)
    BY <2>6 DEF Sees
  <2>9. Made(j, Sees(p), versions) /\ Listed(j)
    <3>1. CASE a = "up"
      BY <1>2, <2>1, <2>3, <2>4, <2>6, <3>1 DEF Made, Listed, WithTables, WithColumns
    <3>2. CASE a = "alter_events"
      BY <1>2, <2>1, <2>3, <2>4, <2>6, <3>2 DEF Made, Listed, WithTables, WithColumns
    <3> QED  BY <3>1, <3>2
  <2>10. Survives(j, Sees(p), versions)
    BY <2>3, <2>4, <2>6 DEF Survives, Unhindered
  <2>11. j.at # "dead"
    BY <2>6
  <2> QED  BY <2>1, <2>6, <2>7, <2>8, <2>9, <2>10, <2>11, QuietStart
<1> QED  BY <1>1, <1>2 DEF EnsureHashColumns

\* Somebody starts: nobody is alone from now on, unless nobody else is at it.
LEMMA StartKeeps ==
    ASSUME StartsGood, NEW p \in Starter, Start(p)
    PROVE  StartsGood'
<1>0. p \notin Booting /\ schema' = schema /\ versions' = versions
  BY DEF Start, Booting
<1>1. boot \in [Starter -> Boot] /\ \A q \in Starter : boot[q] \in Boot
  BY DEF StartsGood, BootTypes
<1>2. PICK n \in Boot : n = [Off EXCEPT !.at = "version_table", !.alone = Booting = {}]
  BY OffFact DEF Boot, BootPhase
<1>3. /\ n.at = "version_table" /\ n.alone = (Booting = {}) /\ n.open = FALSE /\ n.draft = {}
      /\ n.versions = {} /\ n.applied = {}
  BY <1>2, OffFact DEF Boot
<1>4. /\ boot'[p] = n
      /\ \A q \in Starter \ {p} : boot'[q] = IF q \in Booting THEN [boot[q] EXCEPT !.alone = FALSE] ELSE boot[q]
      /\ boot' = [q \in Starter |-> boot'[q]]
  BY <1>2 DEF Start, Begun
<1>5. ASSUME NEW q \in Starter \ {p}
      PROVE  /\ boot'[q] \in Boot /\ boot'[q].at = boot[q].at /\ boot'[q].applied = boot[q].applied
             /\ boot'[q].todo = boot[q].todo /\ boot'[q].open = boot[q].open
             /\ boot'[q].draft = boot[q].draft /\ boot'[q].versions = boot[q].versions
             /\ q \in Booting => ~boot'[q].alone
             /\ q \notin Booting => boot'[q].alone = boot[q].alone
  <2>1. CASE q \in Booting
    <3>1. PICK j \in Boot : j = [boot[q] EXCEPT !.alone = FALSE]
      BY <1>1 DEF Boot
    <3>2. /\ j.at = boot[q].at /\ j.applied = boot[q].applied /\ j.todo = boot[q].todo
          /\ j.open = boot[q].open /\ j.draft = boot[q].draft /\ j.versions = boot[q].versions
          /\ j.alone = FALSE
      BY <1>1, <3>1 DEF Boot
    <3>3. boot'[q] = j
      BY <1>4, <2>1, <3>1
    <3> QED  BY <2>1, <3>2, <3>3
  <2>2. CASE q \notin Booting
    BY <1>1, <1>4, <2>2
  <2> QED  BY <2>1, <2>2
<1>6. BootTypes'
  <2>1. \A q \in Starter : boot'[q] \in Boot
    BY <1>3, <1>4, <1>5
  <2> QED  BY <1>0, <1>4, <2>1 DEF StartsGood, BootTypes
<1>7. ASSUME NEW q \in Starter
      PROVE  Made(boot[q], Sees(q), versions)' /\ Listed(boot[q])' /\ Ordered(ProviderColumns, Sees(q))'
  <2>1. CASE q = p
    <3>1. Made(n, schema \cup n.draft, versions) /\ Listed(n) /\ Ordered(ProviderColumns, schema \cup n.draft)
      <4>1. Ordered(ProviderColumns, schema) /\ schema \cup n.draft = schema
        BY <1>3 DEF StartsGood, StartsInv
      <4> QED  BY <1>3, <4>1 DEF Made, Listed, WithTables, WithColumns
    <3> QED  BY <1>0, <1>4, <2>1, <3>1 DEF Made, Listed, Ordered, Sees
  <2>2. CASE q # p
    <3>1. Made(boot[q], Sees(q), versions) /\ Listed(boot[q]) /\ Ordered(ProviderColumns, Sees(q))
      BY BootFact
    <3>2. Sees(q)' = Sees(q)
      BY <1>0, <1>5, <2>2 DEF Sees
    <3>3. Made(boot'[q], Sees(q), versions) /\ Listed(boot'[q])
      BY <1>5, <2>2, <3>1 DEF Made, Listed
    <3> QED  BY <1>0, <3>1, <3>2, <3>3 DEF Made, Listed, Ordered
  <2> QED  BY <2>1, <2>2
<1>8. SchemaInv'
  <2>1. \A q, r \in Starter : boot'[q].open /\ boot'[r].open => q = r
    BY <1>3, <1>4, <1>5 DEF StartsGood, SchemaInv
  <2> QED  BY <1>0, <1>7, <2>1 DEF StartsGood, SchemaInv, VersionsHaveSchema
<1>9. Booting' = Booting \cup {p}
  <2>1. \A q \in Starter \ {p} : (q \in Booting') <=> (q \in Booting)
    BY <1>5 DEF Booting
  <2>2. p \in Booting'
    BY <1>3, <1>4 DEF Booting
  <2> QED  BY <2>1, <2>2 DEF Booting
<1>10. (\E q \in Starter : Survives(boot[q], Sees(q), versions))'
  BY <1>3, <1>4 DEF Survives, Unhindered
<1>11. (\A q \in Booting : boot[q].alone => Booting = {q} /\ Unhindered(boot[q], Sees(q), versions))'
  <2> SUFFICES ASSUME NEW q \in Booting', boot'[q].alone
               PROVE  Booting' = {q} /\ Unhindered(boot'[q], Sees(q)', versions')
    BY DEF Unhindered
  <2>1. q = p
    BY <1>5, <1>9 DEF Booting
  <2>2. Booting = {}
    BY <1>3, <1>4, <2>1
  <2> QED  BY <1>3, <1>4, <1>9, <2>1, <2>2 DEF Unhindered
<1>12. LoneStartSucceeds'
  <2> SUFFICES ASSUME NEW q \in Starter, boot'[q].at = "failed"
               PROVE  ~boot'[q].alone
    BY DEF LoneStartSucceeds
  <2>1. q # p
    BY <1>3, <1>4
  <2>2. boot[q].at = "failed" /\ boot'[q].alone = boot[q].alone
    BY <1>5, <2>1 DEF Booting
  <2> QED  BY <2>2 DEF StartsGood, StartsInv, LoneStartSucceeds
<1>13. (Ordered(HashColumns, schema) /\ Ordered(ProviderColumns, schema))'
  BY <1>0 DEF StartsGood, StartsInv, Ordered
<1>14. StartsInv'
  BY <1>7, <1>10, <1>11, <1>12, <1>13 DEF StartsInv
<1> QED  BY <1>6, <1>8, <1>14 DEF StartsGood

LEMMA StartsInvariant == StartupSpec => []StartsGood
<1>1. StartupInit => StartsGood
  <2> SUFFICES ASSUME StartupInit
               PROVE  StartsGood
    OBVIOUS
  <2>1. boot = [p \in Starter |-> Off] /\ versions = {}
    BY DEF StartupInit
  <2>2. schema = {} \/ schema = Range(CoreTables) \cup {"squad_events"}
    BY DEF StartupInit
  <2>3. \A p \in Starter : boot[p] = Off /\ Sees(p) = schema
    BY <2>1, OffFact DEF Sees
  <2>4. BootTypes
    BY <2>1, <2>2, OffFact DEF BootTypes, Complete
  <2>5. SchemaInv
    BY <2>1, <2>3, OffFact DEF SchemaInv, VersionsHaveSchema, Made, WithTables, WithColumns
  <2>6. \A columns \in {ProviderColumns, HashColumns} : Range(columns) \cap schema = {}
    BY <2>2, ColumnsFact
  <2>7. Ordered(HashColumns, schema) /\ Ordered(ProviderColumns, schema)
    BY <2>6 DEF Ordered, Range
  <2>8. \A p \in Starter : boot[p].at = "off" /\ Listed(boot[p]) /\ Ordered(ProviderColumns, Sees(p))
    BY <2>3, <2>7, OffFact DEF Listed
  <2>9. Booting = {} /\ LoneStartSucceeds
    BY <2>8 DEF Booting, LoneStartSucceeds
  <2> QED  BY <2>4, <2>5, <2>7, <2>8, <2>9 DEF StartsGood, StartsInv
<1>2. StartsGood /\ [StartupNext]_startupVars => StartsGood'
  <2> SUFFICES ASSUME StartsGood, [StartupNext]_startupVars
               PROVE  StartsGood'
    OBVIOUS
  <2>1. ASSUME NEW p \in Starter, Start(p)
        PROVE  StartsGood'
    BY <2>1, StartKeeps
  <2>2. ASSUME NEW p \in Starter, RunMigrations(p)
        PROVE  StartsGood'
    <3>1. p \in Booting
      BY <2>2 DEF RunMigrations, EnsureVersionTable, ReadApplied, CreateTable, InsertVersion,
                  AddProviderFields, AddColumn, Booting
    <3> QED  BY <2>2, <3>1, EnsureVersionTableKeeps, ReadAppliedKeeps, CreateTableKeeps, InsertFirstKeeps,
                AddProviderFieldsKeeps, AddColumnKeeps, InsertSecondKeeps DEF RunMigrations
  <2>3. ASSUME NEW p \in Starter, OpenEvents(p) \/ EnsureHashColumns(p)
        PROVE  StartsGood'
    <3>1. p \in Booting
      BY <2>3 DEF OpenEvents, EnsureHashColumns, AddColumn, Booting
    <3> QED  BY <2>3, <3>1, OpenEventsKeeps, EnsureHashColumnsKeeps
  <2>4. ASSUME NEW p \in Starter, Abort(p)
        PROVE  StartsGood'
    BY <2>4, AbortKeeps
  <2>5. CASE UNCHANGED startupVars
    <3>1. schema' = schema /\ versions' = versions /\ boot' = boot
      BY <2>5 DEF startupVars
    <3>2. /\ BootTypes' = BootTypes /\ Booting' = Booting /\ VersionsHaveSchema' = VersionsHaveSchema
          /\ LoneStartSucceeds' = LoneStartSucceeds
      BY <3>1 DEF BootTypes, Booting, VersionsHaveSchema, LoneStartSucceeds
    <3>3. \A p \in Starter :
              /\ Sees(p)' = Sees(p) /\ Made(boot[p], Sees(p), versions)' = Made(boot[p], Sees(p), versions)
              /\ Listed(boot[p])' = Listed(boot[p])
              /\ Survives(boot[p], Sees(p), versions)' = Survives(boot[p], Sees(p), versions)
              /\ Unhindered(boot[p], Sees(p), versions)' = Unhindered(boot[p], Sees(p), versions)
              /\ Ordered(ProviderColumns, Sees(p))' = Ordered(ProviderColumns, Sees(p))
      BY <3>1 DEF Made, Sees, Listed, Survives, Unhindered, Ordered
    <3>4. (Ordered(HashColumns, schema) /\ Ordered(ProviderColumns, schema))'
      BY <3>1 DEF StartsGood, StartsInv, Ordered
    <3>5. SchemaInv'
      BY <3>1, <3>2, <3>3 DEF StartsGood, SchemaInv
    <3>6. StartsInv'
      BY <3>1, <3>2, <3>3, <3>4 DEF StartsGood, StartsInv, Booting
    <3> QED  BY <3>2, <3>5, <3>6 DEF StartsGood
  <2> QED  BY <2>1, <2>2, <2>3, <2>4, <2>5 DEF StartupNext
<1> QED  BY <1>1, <1>2, PTL DEF StartupSpec

\* Wherever a start dies and whatever others do meanwhile, a version is on record only with
\* the tables and columns its migration makes, and a runtime that is up finds all of them
\* (migrations.py:168-226, event_store.py).
THEOREM SchemaAlwaysComplete == StartupSpec => []SchemaComplete
<1>1. StartsGood => SchemaComplete
  <2> SUFFICES ASSUME StartsGood
               PROVE  SchemaComplete
    OBVIOUS
  <2>1. ASSUME NEW p \in Starter, boot[p].at = "up"
        PROVE  Complete \subseteq schema
    <3>1. Made(boot[p], Sees(p), versions)
      BY BootFact
    <3>2. ~boot[p].open
      BY <2>1, <3>1 DEF Made
    <3>3. Sees(p) = schema
      BY <3>2, BootFact
    <3> QED  BY <2>1, <3>1, <3>3 DEF Made, WithTables, WithColumns, Complete
  <2> QED  BY <2>1 DEF SchemaComplete, UpHasSchema, StartsGood, SchemaInv
<1> QED  BY <1>1, StartsInvariant, PTL

\* A start that no other overlaps never fails, whatever an earlier one has left half-way,
\* and of starts at once one at least gets through (migrations.py:168-190).
THEOREM StartsAlwaysSucceed == StartupSpec => []StartsSucceed
<1>1. StartsGood => StartsSucceed
  <2> SUFFICES ASSUME StartsGood
               PROVE  StartsSucceed
    OBVIOUS
  <2>1. ASSUME \A p \in Starter : boot[p].at \in {"off", "failed"}, NEW q \in Starter
        PROVE  boot[q].at = "off"
    <3>1. \A p \in Starter : ~Survives(boot[p], Sees(p), versions)
      BY <2>1 DEF Survives, Unhindered
    <3> QED  BY <3>1 DEF StartsGood, StartsInv
  <2> QED  BY <2>1 DEF StartsSucceed, SomeStartSucceeds, StartsGood, StartsInv
<1> QED  BY <1>1, StartsInvariant, PTL
-----------------------------------------------------------------------------
(***************************************************************************)
(* The smoke test.                                                         *)
(***************************************************************************)
Finished == {"summary", "passed", "skipped", "failed", "quit", "dead"}
ExecPhase == {"off", "preflight", "blocked", "team", "check", "report", "create", "fill", "judge", "scan"}
             \cup Failing \cup Finished
Exec == [at : ExecPhase, set : Setting, round : 1..MaxRounds, agent : Nat, tries : Nat,
         rerun : BOOLEAN, risks : SUBSET Risk]
SmokeTypes == /\ exec \in [Execution -> Exec]
              /\ run = [i \in RunId |-> run[i]] /\ status = [n \in Names |-> status[n]]
              /\ baseline \in Nat /\ first \in Nat /\ clash \in BOOLEAN
SmokeGood == SmokeTypes /\ SmokeInv

LEMMA ExecFact ==
    ASSUME SmokeGood, NEW e \in Execution
    PROVE  /\ exec[e] \in Exec /\ exec[e].set \in Setting /\ exec[e].round \in 1..MaxRounds
           /\ exec[e].set.rounds \in 1..MaxRounds /\ exec[e].set.coverage \in Nat \ {Torn}
           /\ exec[e].set.provider \in {"fake_cli", "claude_cli"}
           /\ Id(e) \in RunId /\ Name(e) \in Names /\ Name(e)[1] = exec[e].set.scenario
           /\ \A i \in 1..MaxRounds : NameOf(exec[e].set, i) \in Names
                                      /\ NameOf(exec[e].set, i)[1] = exec[e].set.scenario
           /\ <<exec[e].set.scenario, 0>> \in Names
           /\ RoundInv(e) /\ ExitInv(e) /\ RerunInv(e)
<1>1. exec[e] \in Exec /\ RoundInv(e) /\ ExitInv(e) /\ RerunInv(e)
  BY DEF SmokeGood, SmokeTypes, SmokeInv
<1>2. exec[e].set \in Setting /\ exec[e].round \in 1..MaxRounds
  BY <1>1 DEF Exec
<1>3. /\ exec[e].set.rounds \in 1..MaxRounds /\ exec[e].set.coverage \in Nat \ {Torn}
      /\ exec[e].set.provider \in {"fake_cli", "claude_cli"}
  BY <1>2, SmokeAssumption
<1>4. exec[e].set.scenario \in {s.scenario : s \in Setting}
  BY <1>2
<1>5. \A i \in 0..MaxRounds : <<exec[e].set.scenario, i>> \in Names
  BY <1>4 DEF Names
<1>6. \A i \in 1..MaxRounds : i \in 0..MaxRounds /\ 0 \in 0..MaxRounds
  BY DEF MaxRounds
<1>7. \A i \in 1..MaxRounds : NameOf(exec[e].set, i) \in Names
                              /\ NameOf(exec[e].set, i)[1] = exec[e].set.scenario
  BY <1>5, <1>6 DEF NameOf
<1>8. <<exec[e].set.scenario, 0>> \in Names /\ <<exec[e].set.scenario, 0>>[1] = exec[e].set.scenario
  BY <1>2, <1>5, <1>6
<1>9. Name(e) \in Names /\ Name(e)[1] = exec[e].set.scenario
  BY <1>2, <1>7, <1>8 DEF Name
<1> QED  BY <1>1, <1>2, <1>3, <1>7, <1>8, <1>9 DEF Id, RunId

\* What a step of one execution has to keep for all of them.
LEMMA OneExecution ==
    ASSUME SmokeGood, NEW e \in Execution, NEW x \in Exec, exec' = [exec EXCEPT ![e] = x], SmokeTypes',
           \/ x.set = exec[e].set
           \/ exec[e].at = "off",
           exec[e].round <= x.round,
           exec[e].at \in Finished => x.at \in Finished,
           \A i \in RunId : i # Id(e) \/ exec[e].at # "team" => run'[i] = run[i],
           \A n \in Names : status[n] # NoStatus => status'[n] # NoStatus,
           \A n \in Names : Settled(n) => Settled(n)',
           raced \subseteq raced',
           \A n \in About(e) : status'[n] = status[n] \/ status'[n].word = "fail" \/ n \in raced',
           \A n \in Names : status'[n].word = "pass" =>
               status'[n] = status[n] \/ \E i \in 1..MaxRounds : PassOf(n, e, i)',
           baseline # Missing => baseline' # Missing,
           clash => clash',
           ~clash' /\ first # Missing => first' = first,
           RoundInv(e)', ExitInv(e)', RerunInv(e)', BaselineInv', SummaryNeverFails'
    PROVE  SmokeGood'
<1>1. exec'[e] = x /\ \A g \in Execution : g # e => exec'[g] = exec[g]
  BY DEF SmokeGood, SmokeTypes
<1>2. ASSUME NEW g \in Execution, g # e
      PROVE  RoundInv(g)' /\ ExitInv(g)' /\ RerunInv(g)'
  <2>1. RoundInv(g) /\ ExitInv(g) /\ RerunInv(g) /\ Id(g) \in RunId
    BY ExecFact
  <2>2. exec'[g] = exec[g] /\ Id(g)' = Id(g) /\ Id(g) # Id(e)
    BY <1>1, <1>2 DEF Id
  <2>3. run'[Id(g)] = run[Id(g)]
    BY <2>1, <2>2
  <2>4. RoundInv(g)'
    BY <2>1, <2>2, <2>3 DEF RoundInv, SceneD, GatesPass, Claude, Id
  <2>5. ExitInv(g)'
    <3>1. \A i \in 1..exec[g].set.rounds : NameOf(exec[g].set, i) \in Names
      <4>1. exec[g].set.rounds \in 1..2
        BY ExecFact DEF MaxRounds
      <4>2. \A i \in 1..exec[g].set.rounds : i \in 1..MaxRounds
        BY <4>1 DEF MaxRounds
      <4> QED  BY <4>2, ExecFact
    <3>2. <<exec[g].set.scenario, 0>> \in Names
      BY ExecFact
    <3>3. Claude(g)' = Claude(g) /\ Name(g)' = Name(g) /\ Name(g) \in Names
      BY <2>2, ExecFact DEF Claude, Name
    <3>4. exec[g].at \in Failing => status'[Name(g)].word \in {"none", "fail"} \/ Name(g) \in raced'
      <4> SUFFICES ASSUME exec[g].at \in Failing
                   PROVE  status'[Name(g)].word \in {"none", "fail"} \/ Name(g) \in raced'
        OBVIOUS
      <4>1. Name(g) \in About(e)
        BY <1>2 DEF About
      <4>2. status[Name(g)].word \in {"none", "fail"} \/ Name(g) \in raced
        BY <2>1 DEF ExitInv
      <4> QED  BY <4>1, <4>2
    <3> DEFINE Kept(n) == status'[n].word \in {"pass", "environment_blocked"} \/ n \in raced'
    <3>5. \A n \in Names : Settled(n) => Kept(n)
      BY DEF Settled
    <3>6. \A n : Kept(n) <=> Settled(n)'
      BY DEF Settled
    <3> HIDE DEF Kept
    <3>7. /\ Claude(g) => \A i \in 1..exec[g].set.rounds :
               i < exec[g].round \/ exec[g].at \in {"summary", "passed"} => Kept(NameOf(exec[g].set, i))
          /\ exec[g].at \in {"blocked", "skipped"} => Kept(<<exec[g].set.scenario, 0>>)
          /\ exec[g].at = "failed" /\ Claude(g) =>
                 \E n \in Names : n[1] = exec[g].set.scenario /\ status'[n] # NoStatus
      BY <2>1, <3>1, <3>2, <3>5 DEF ExitInv
    <3> QED  BY <2>2, <3>3, <3>4, <3>7 DEF ExitInv, Settled, Kept
  <2>6. RerunInv(g)'
    BY <2>1, <2>2 DEF RerunInv, Given, Claude, HighEnough
  <2> QED  BY <2>4, <2>5, <2>6
<1>3. ASSUME NEW n \in Names, status'[n].word = "pass"
      PROVE  \E g \in Execution, i \in 1..MaxRounds : PassOf(n, g, i)'
  <2>1. CASE \E i \in 1..MaxRounds : PassOf(n, e, i)'
    BY <2>1
  <2>2. CASE status'[n] = status[n]
    <3>1. PICK g \in Execution, i \in 1..MaxRounds : PassOf(n, g, i)
      BY <1>3, <2>2 DEF SmokeGood, SmokeInv
    <3>2. <<g, i>> \in RunId
      BY DEF RunId
    <3>3. exec[g].round \in 1..MaxRounds /\ RoundInv(g) /\ x.round \in 1..MaxRounds
      BY ExecFact DEF Exec
    <3>4. exec[g].at # "off"
      BY <3>1, <3>3 DEF PassOf, Over, RoundInv
    <3>5. run'[<<g, i>>] = run[<<g, i>>]
      <4>1. <<g, i>> = Id(e) => exec[e].at # "team"
        BY <3>1, <3>3 DEF PassOf, Over, Id
      <4> QED  BY <3>2, <4>1
    <3>6. Over(g, i)'
      <4>1. CASE g = e
        BY <1>1, <3>1, <3>3, <4>1 DEF PassOf, Over, Finished, MaxRounds
      <4>2. CASE g # e
        BY <1>1, <3>1, <4>2 DEF PassOf, Over
      <4> QED  BY <4>1, <4>2
    <3>7. exec'[g].set = exec[g].set
      BY <1>1, <3>4
    <3>8. (clash \/ HighEnough(g))'
      BY <3>1, <3>7 DEF PassOf, HighEnough
    <3>9. PassOf(n, g, i)'
      BY <2>2, <3>1, <3>5, <3>6, <3>8 DEF PassOf, Clean
    <3> QED  BY <3>9
  <2> QED  BY <1>3, <2>1, <2>2
<1>4. (\A g \in Execution : RoundInv(g) /\ ExitInv(g) /\ RerunInv(g))'
  BY <1>2
<1>5. (\A n \in Names : status[n].word = "pass" =>
           \E g \in Execution, i \in 1..MaxRounds : PassOf(n, g, i))'
  BY <1>3
<1>6. SmokeInv'
  BY <1>4, <1>5 DEF SmokeInv
<1> QED  BY <1>6 DEF SmokeGood

\* What a status file keeps.
LEMMA StatusFact ==
    ASSUME SmokeGood, NEW name \in Names, NEW id, NEW w \in {"pass", "environment_blocked"}, NEW about,
           status' = [status EXCEPT ![name] = [word |-> w, run |-> id]],
           raced' = raced \cup ({name} \cap about)
    PROVE  /\ status' = [n \in Names |-> status'[n]]
           /\ \A n \in Names : status[n] # NoStatus => status'[n] # NoStatus
           /\ raced \subseteq raced'
           /\ \A n \in Names : Settled(n) => Settled(n)'
           /\ \A n \in about : status'[n] = status[n] \/ n \in raced'
           /\ status'[name] = [word |-> w, run |-> id]
           /\ \A n \in Names : status'[n].word = "pass" =>
                  status'[n] = status[n] \/ (w = "pass" /\ n = name)
<1>1. status = [n \in Names |-> status[n]]
  BY DEF SmokeGood, SmokeTypes
<1>2. PICK c : c = [word |-> w, run |-> id]
  OBVIOUS
<1>3. c.word = w /\ c # NoStatus
  BY <1>2 DEF NoStatus
<1>4. status' = [status EXCEPT ![name] = c] /\ raced' = raced \cup ({name} \cap about)
  BY <1>2
<1>5. status'[name] = c /\ \A n : n # name => status'[n] = status[n]
  BY <1>1, <1>4
<1>6. status' = [n \in Names |-> status'[n]]
  BY <1>1, <1>4
<1>7. raced \subseteq raced' /\ (name \in about => name \in raced')
  BY <1>4
<1> QED  BY <1>2, <1>3, <1>5, <1>6, <1>7 DEF Settled

\* Who is creating the baseline or has been, and is so no longer.
LEMMA BaselineSame ==
    ASSUME SmokeGood, NEW e \in Execution, NEW x \in Exec, exec' = [exec EXCEPT ![e] = x],
           x.at \notin {"create", "fill"}, baseline' = baseline, first' = first,
           clash => clash', exec[e].at = "fill" => clash'
    PROVE  BaselineInv'
<1>1. exec'[e] = x /\ \A g \in Execution : g # e => exec'[g] = exec[g]
  BY DEF SmokeGood, SmokeTypes
<1>2. SUFFICES ASSUME ~clash'
               PROVE  /\ \A g, h \in Creating' : g = h
                      /\ \A g \in Execution :
                             /\ exec'[g].at = "create" => baseline = Missing /\ first = Missing
                             /\ exec'[g].at = "fill" => baseline = Torn /\ first = Given(g)'
                      /\ (\A g \in Execution : exec'[g].at # "fill") => baseline = first /\ first # Torn
  BY DEF BaselineInv
<1>3. ~clash /\ exec[e].at # "fill" /\ BaselineInv
  BY <1>2 DEF SmokeGood, SmokeInv
<1>4. \A g \in Creating' : g \in Creating
  BY <1>1 DEF Creating
<1>5. ASSUME NEW g \in Execution, exec'[g].at \in {"create", "fill"}
      PROVE  exec'[g] = exec[g] /\ Given(g)' = Given(g)
  <2>1. exec'[g] = exec[g]
    BY <1>1, <1>5
  <2> QED  BY <2>1 DEF Given, Claude
<1>6. (\A g \in Execution : exec'[g].at # "fill") => \A g \in Execution : exec[g].at # "fill"
  BY <1>1, <1>3
<1> QED  BY <1>3, <1>4, <1>5, <1>6 DEF BaselineInv

\* A step of which nobody else sees anything but the clash.
LEMMA QuietExecution ==
    ASSUME SmokeGood, NEW e \in Execution, NEW x \in Exec, exec' = [exec EXCEPT ![e] = x],
           \/ x.set = exec[e].set
           \/ exec[e].at = "off",
           exec[e].round <= x.round,
           exec[e].at \in Finished => x.at \in Finished,
           status' = status, raced' = raced, baseline' = baseline, first' = first,
           run' = [i \in RunId |-> run'[i]],
           \A i \in RunId : i # Id(e) \/ exec[e].at # "team" => run'[i] = run[i],
           clash' \in BOOLEAN, clash => clash',
           RoundInv(e)', ExitInv(e)', RerunInv(e)', BaselineInv', SummaryNeverFails'
    PROVE  SmokeGood'
<1>1. SmokeTypes'
  BY DEF SmokeGood, SmokeTypes
<1>2. \A n \in Names : Settled(n) => Settled(n)'
  BY DEF Settled
<1> QED  BY <1>1, <1>2, OneExecution

\* Steps that only say where an execution goes on.
LEMMA GotoFact ==
    ASSUME SmokeGood, NEW e \in Execution, NEW a \in ExecPhase, Goto(e, a)
    PROVE  \E x \in Exec : /\ exec' = [exec EXCEPT ![e] = x] /\ exec'[e] = x
                           /\ x.at = a /\ x.set = exec[e].set /\ x.round = exec[e].round
                           /\ x.rerun = exec[e].rerun /\ x.risks = exec[e].risks
<1>1. exec[e] \in Exec
  BY ExecFact
<1>2. PICK x \in Exec : x = [exec[e] EXCEPT !.at = a]
  BY <1>1 DEF Exec
<1>3. /\ x.at = a /\ x.set = exec[e].set /\ x.round = exec[e].round
      /\ x.rerun = exec[e].rerun /\ x.risks = exec[e].risks
  BY <1>1, <1>2 DEF Exec
<1>4. exec' = [exec EXCEPT ![e] = x] /\ exec'[e] = x
  BY <1>2 DEF Goto, Move, SmokeGood, SmokeTypes
<1> QED  BY <1>3, <1>4

LEMMA FailKeeps ==
    ASSUME SmokeGood, NEW e \in Execution, NEW at \in Failing, Fail(e, at),
           at = "refuse" <=> exec[e].at = "preflight", exec[e].at \notin Ended \cup Failing \cup {"summary"},
           run' = run, summary' = summary,
           baseline' = baseline, first' = first, clash' \in BOOLEAN, clash => clash',
           exec[e].at = "fill" => clash'
    PROVE  SmokeGood'
<1>1. /\ exec[e] \in Exec /\ RoundInv(e) /\ ExitInv(e) /\ RerunInv(e) /\ Name(e) \in Names
      /\ Name(e)[1] = exec[e].set.scenario
  BY ExecFact
<1>2. PICK a \in {"failed", at} : a = IF ~Claude(e) \/ Stays(Name(e), "fail") THEN "failed" ELSE at
  OBVIOUS
<1>3. a \in ExecPhase /\ a \in Failing \cup {"failed"} /\ Goto(e, a)
  BY <1>2 DEF Fail, ExecPhase, Finished
<1>4. PICK x \in Exec : /\ exec' = [exec EXCEPT ![e] = x] /\ exec'[e] = x
                        /\ x.at = a /\ x.set = exec[e].set /\ x.round = exec[e].round
                        /\ x.rerun = exec[e].rerun
  BY <1>3, GotoFact
<1>5. status' = status /\ raced' = raced /\ run' = [i \in RunId |-> run'[i]]
  BY DEF Fail, statusVars, SmokeGood, SmokeTypes
<1>6. RoundInv(e)'
  BY <1>1, <1>3, <1>4 DEF RoundInv, Failing
<1>7. ExitInv(e)'
  <2>1. Claude(e)' = Claude(e)
    BY <1>4 DEF Claude
  <2>2. \A n : Settled(n)' = Settled(n)
    BY <1>5 DEF Settled
  <2>3. a = "failed" /\ Claude(e) => status[Name(e)] # NoStatus
    BY <1>2 DEF Stays, Failing
  <2>4. a \in Failing => status[Name(e)].word = "none" /\ Name(e)' = Name(e)
    <3> SUFFICES ASSUME a \in Failing
                 PROVE  status[Name(e)].word = "none" /\ Name(e)' = Name(e)
      OBVIOUS
    <3>1. ~Stays(Name(e), "fail") /\ a = at
      BY <1>2 DEF Failing
    <3>2. status[Name(e)].word = "none"
      BY <3>1 DEF Stays, NoStatus
    <3>3. at = "refuse" <=> exec[e].at \in {"preflight", "refuse"}
      BY DEF Failing
    <3>4. Name(e)' = Name(e)
      BY <1>4, <3>1, <3>3 DEF Name, Failing
    <3> QED  BY <3>2, <3>4
  <2>5. a \notin {"summary", "passed", "blocked", "skipped"}
    BY <1>3 DEF Failing
  <2>6. Claude(e) => \A i \in 1..exec[e].set.rounds : i < exec[e].round => Settled(NameOf(exec[e].set, i))
    BY <1>1 DEF ExitInv
  <2> HIDE DEF Settled
  <2> QED  BY <1>1, <1>4, <1>5, <2>1, <2>2, <2>3, <2>4, <2>5, <2>6 DEF ExitInv
<1>8. RerunInv(e)'
  BY <1>1, <1>3, <1>4 DEF RerunInv, Failing
<1>9. BaselineInv'
  BY <1>3, <1>4, BaselineSame DEF Failing
<1>10. SummaryNeverFails'
  BY <1>5 DEF SmokeGood, SmokeInv, SummaryNeverFails
<1>11. exec[e].round <= x.round /\ exec[e].at \notin Finished
  BY <1>1, <1>4 DEF Exec, MaxRounds, Finished, Ended
<1> QED  BY <1>4, <1>5, <1>6, <1>7, <1>8, <1>9, <1>10, <1>11, QuietExecution

LEMMA ExecuteKeeps ==
    ASSUME SmokeGood, NEW e \in Execution, NEW set \in Setting, Execute(e, set)
    PROVE  SmokeGood'
<1>1. exec[e] \in Exec /\ RoundInv(e) /\ ExitInv(e) /\ RerunInv(e) /\ exec[e].at = "off"
  BY ExecFact DEF Execute
<1>2. PICK a \in {"team", "preflight"} : a = IF set.provider = "fake_cli" THEN "team" ELSE "preflight"
  OBVIOUS
<1>3. PICK x \in Exec : x = [exec[e] EXCEPT !.set = set, !.at = a]
  BY <1>1, <1>2 DEF Exec, ExecPhase
<1>4. x.at = a /\ x.set = set /\ x.round = exec[e].round /\ x.rerun = exec[e].rerun /\ x.round \in 1..MaxRounds
  BY <1>1, <1>3 DEF Exec
<1>5. /\ exec' = [exec EXCEPT ![e] = x] /\ exec'[e] = x
      /\ run' = run /\ status' = status /\ raced' = raced /\ summary' = summary /\ baseline' = baseline
      /\ first' = first /\ clash' = clash
  BY <1>2, <1>3 DEF Execute, Move, SmokeGood, SmokeTypes
<1>6. x.round = 1
  BY <1>1, <1>4 DEF RoundInv
<1>7. set.rounds \in 1..2
  BY SmokeAssumption DEF MaxRounds
<1>8. RoundInv(e)'
  BY <1>2, <1>4, <1>5, <1>6, <1>7 DEF RoundInv
<1>9. ExitInv(e)'
  BY <1>2, <1>4, <1>5, <1>6, <1>7 DEF ExitInv, Failing
<1>10. RerunInv(e)'
  BY <1>1, <1>2, <1>4, <1>5 DEF RerunInv
<1>11. BaselineInv'
  BY <1>2, <1>4, <1>5, <1>1, BaselineSame
<1>12. SummaryNeverFails' /\ run' = [i \in RunId |-> run'[i]] /\ clash' \in BOOLEAN
  BY <1>5 DEF SmokeGood, SmokeInv, SmokeTypes, SummaryNeverFails
<1>13. exec[e].round <= x.round /\ exec[e].at \notin Finished
  BY <1>1, <1>4 DEF MaxRounds, Finished
<1> QED  BY <1>1, <1>5, <1>8, <1>9, <1>10, <1>11, <1>12, <1>13, QuietExecution

LEMMA PreflightKeeps ==
    ASSUME SmokeGood, NEW e \in Execution, Preflight(e)
    PROVE  SmokeGood'
<1>1. /\ exec[e] \in Exec /\ RoundInv(e) /\ ExitInv(e) /\ RerunInv(e) /\ exec[e].at = "preflight"
      /\ run' = run /\ summary' = summary /\ baseline' = baseline /\ first' = first /\ clash' = clash
      /\ clash \in BOOLEAN
  BY ExecFact DEF Preflight, SmokeGood, SmokeTypes
<1>2. CASE Fail(e, "refuse")
  BY <1>1, <1>2, FailKeeps DEF Failing, Ended
<1>3. CASE \E a \in {"team", "blocked"} :
              /\ Goto(e, a)
              /\ IF a = "team" THEN UNCHANGED statusVars ELSE WriteStatus(e, Name(e), "environment_blocked", <<>>)
  <2>1. PICK a \in {"team", "blocked"} :
                /\ Goto(e, a)
                /\ IF a = "team" THEN UNCHANGED statusVars ELSE WriteStatus(e, Name(e), "environment_blocked", <<>>)
    BY <1>3
  <2>2. PICK x \in Exec : x = [exec[e] EXCEPT !.at = a]
    BY <1>1 DEF Exec, ExecPhase
  <2>3. x.at = a /\ x.set = exec[e].set /\ x.round = exec[e].round /\ x.rerun = exec[e].rerun
    BY <1>1, <2>2 DEF Exec
  <2>4. exec' = [exec EXCEPT ![e] = x] /\ exec'[e] = x /\ exec' \in [Execution -> Exec]
    BY <2>1, <2>2 DEF Goto, Move, SmokeGood, SmokeTypes
  <2>5. PICK name \in Names : name = <<exec[e].set.scenario, 0>> /\ name = Name(e)
    BY <1>1, ExecFact DEF Name
  <2>6. /\ status' = [n \in Names |-> status'[n]]
        /\ \A n \in Names : status[n] # NoStatus => status'[n] # NoStatus
        /\ \A n \in Names : Settled(n) => Settled(n)'
        /\ raced \subseteq raced'
        /\ \A n \in About(e) : status'[n] = status[n] \/ n \in raced'
        /\ \A n \in Names : status'[n].word = "pass" => status'[n] = status[n]
        /\ a = "blocked" => Settled(name)'
    <3>1. CASE a = "team"
      <4>1. status' = status /\ raced' = raced
        BY <2>1, <3>1 DEF statusVars
      <4> QED  BY <3>1, <4>1 DEF SmokeGood, SmokeTypes, Settled
    <3>2. CASE a = "blocked"
      <4>0. WriteStatus(e, Name(e), "environment_blocked", <<>>)
        BY <2>1, <3>2
      <4>1. /\ status' = [status EXCEPT ![name] = [word |-> "environment_blocked", run |-> <<>>]]
            /\ raced' = raced \cup ({name} \cap About(e))
        BY <2>5, <4>0 DEF WriteStatus, Write
      <4>2. status'[name] = [word |-> "environment_blocked", run |-> <<>>]
        BY <4>1, StatusFact
      <4>3. Settled(name)'
        BY <4>1, <4>2 DEF Settled
      <4> QED  BY <3>2, <4>1, <4>3, StatusFact
    <3> QED  BY <3>1, <3>2
  <2>7. SmokeTypes'
    BY <1>1, <2>4, <2>6 DEF SmokeGood, SmokeTypes
  <2>8. RoundInv(e)'
    BY <1>1, <2>1, <2>3, <2>4 DEF RoundInv
  <2>9. ExitInv(e)'
    <3>1. Claude(e)' = Claude(e)
      BY <2>3, <2>4 DEF Claude
    <3>2. \A i \in 1..exec[e].set.rounds : NameOf(exec[e].set, i) \in Names
      <4>1. exec[e].set.rounds \in 1..2 /\ 1..MaxRounds = 1..2
        BY ExecFact DEF MaxRounds
      <4>2. \A i \in 1..exec[e].set.rounds : i \in 1..MaxRounds
        BY <4>1
      <4> QED  BY <4>2, ExecFact
    <3> DEFINE Kept(n) == status'[n].word \in {"pass", "environment_blocked"} \/ n \in raced'
    <3>3. \A i \in 1..exec[e].set.rounds : i < exec[e].round /\ Claude(e) => Kept(NameOf(exec[e].set, i))
      BY <1>1, <2>6, <3>2 DEF ExitInv, Settled
    <3>4. a \notin {"summary", "passed", "skipped", "failed"} \cup Failing
      BY <2>1 DEF Failing
    <3>5. a = "blocked" => Kept(<<exec[e].set.scenario, 0>>)
      BY <2>5, <2>6 DEF Settled
    <3>6. exec'[e].at = a /\ exec'[e].set = exec[e].set /\ exec'[e].round = exec[e].round
      BY <2>3, <2>4
    <3> HIDE DEF Kept
    <3>7. /\ Claude(e)' => \A i \in 1..exec'[e].set.rounds :
               i < exec'[e].round \/ exec'[e].at \in {"summary", "passed"} => Kept(NameOf(exec'[e].set, i))
          /\ exec'[e].at \in {"blocked", "skipped"} => Kept(<<exec'[e].set.scenario, 0>>)
          /\ exec'[e].at \notin {"failed"} \cup Failing
      BY <3>1, <3>3, <3>4, <3>5, <3>6
    <3> QED  BY <3>7 DEF ExitInv, Settled, Kept, Failing
  <2>10. RerunInv(e)'
    BY <1>1, <2>1, <2>3, <2>4 DEF RerunInv
  <2>11. BaselineInv'
    BY <1>1, <2>1, <2>3, <2>4, BaselineSame
  <2>12. SummaryNeverFails'
    BY <1>1, <2>6 DEF SmokeGood, SmokeInv, SummaryNeverFails
  <2>13. exec[e].round <= x.round /\ exec[e].at \notin Finished
    BY <1>1, <2>3 DEF Exec, MaxRounds, Finished
  <2> QED  BY <1>1, <2>3, <2>4, <2>6, <2>7, <2>8, <2>9, <2>10, <2>11, <2>12, <2>13, OneExecution
<1> QED  BY <1>2, <1>3 DEF Preflight

LEMMA DispatchKeeps ==
    ASSUME SmokeGood, NEW e \in Execution, NEW o \in Outcome, Dispatch(e, o)
    PROVE  SmokeGood'
<1>1. /\ exec[e] \in Exec /\ RoundInv(e) /\ ExitInv(e) /\ RerunInv(e) /\ exec[e].at = "team"
      /\ status' = status /\ raced' = raced /\ summary' = summary /\ baseline' = baseline
      /\ first' = first /\ clash' = clash /\ clash \in BOOLEAN /\ Id(e) \in RunId
  BY ExecFact DEF Dispatch, SmokeGood, SmokeTypes
<1>2. exec[e].agent \in Nat /\ exec[e].tries \in Nat
  BY <1>1 DEF Exec
<1>3. PICK x \in Exec : /\ exec' = [exec EXCEPT ![e] = x] /\ x.at \in {"team", "check"}
                        /\ x.set = exec[e].set /\ x.round = exec[e].round /\ x.rerun = exec[e].rerun
  <2>1. CASE Again(e, o)
    <3>0. PICK n \in Nat : n = exec[e].tries + 1
      BY <1>2
    <3>1. PICK x \in Exec : x = [exec[e] EXCEPT !.tries = n]
      BY <1>1 DEF Exec
    <3>2. exec' = [exec EXCEPT ![e] = x]
      BY <2>1, <3>0, <3>1 DEF Dispatch, Move
    <3> QED  BY <1>1, <3>1, <3>2 DEF Exec
  <2>2. CASE ~Again(e, o) /\ exec[e].agent < Len(Team)
    <3>0. PICK n \in Nat : n = exec[e].agent + 1
      BY <1>2
    <3>1. PICK x \in Exec : x = [exec[e] EXCEPT !.agent = n, !.tries = 0]
      BY <1>1 DEF Exec
    <3>2. exec' = [exec EXCEPT ![e] = x]
      BY <2>2, <3>0, <3>1 DEF Dispatch, Move
    <3> QED  BY <1>1, <3>1, <3>2 DEF Exec
  <2>3. CASE ~Again(e, o) /\ ~(exec[e].agent < Len(Team))
    <3>1. PICK x \in Exec : x = [exec[e] EXCEPT !.at = "check", !.agent = 1, !.tries = 0]
      BY <1>1 DEF Exec, ExecPhase
    <3>2. exec' = [exec EXCEPT ![e] = x]
      BY <2>3, <3>1 DEF Dispatch, Move
    <3> QED  BY <1>1, <3>1, <3>2 DEF Exec
  <2> QED  BY <2>1, <2>2, <2>3
<1>4. exec'[e] = x
  BY <1>3 DEF SmokeGood, SmokeTypes
<1>5. run' = [i \in RunId |-> run'[i]] /\ \A i \in RunId : i # Id(e) => run'[i] = run[i]
  <2>1. PICK r : run' = [run EXCEPT ![Id(e)] = r]
    BY DEF Dispatch
  <2> QED  BY <2>1 DEF SmokeGood, SmokeTypes
<1>6. RoundInv(e)'
  BY <1>1, <1>3, <1>4 DEF RoundInv
<1>7. ExitInv(e)'
  BY <1>1, <1>3, <1>4 DEF ExitInv, Claude, Settled, Failing
<1>8. RerunInv(e)'
  BY <1>1, <1>3, <1>4 DEF RerunInv
<1>9. BaselineInv'
  BY <1>1, <1>3, BaselineSame
<1>10. SummaryNeverFails'
  BY <1>1 DEF SmokeGood, SmokeInv, SummaryNeverFails
<1>11. exec[e].round <= x.round /\ exec[e].at \notin Finished
  BY <1>1, <1>3 DEF Exec, MaxRounds, Finished
<1> QED  BY <1>1, <1>3, <1>5, <1>6, <1>7, <1>8, <1>9, <1>10, <1>11, QuietExecution

LEMMA CheckRunKeeps ==
    ASSUME SmokeGood, NEW e \in Execution, CheckRun(e)
    PROVE  SmokeGood'
<1>1. /\ exec[e] \in Exec /\ RoundInv(e) /\ ExitInv(e) /\ RerunInv(e) /\ exec[e].at = "check"
      /\ run' = run /\ summary' = summary /\ baseline' = baseline /\ first' = first /\ clash' = clash
      /\ clash \in BOOLEAN /\ run' = [i \in RunId |-> run'[i]]
  BY ExecFact DEF CheckRun, SmokeGood, SmokeTypes
<1>2. CASE ~SceneD(e)
  <2>1. Fail(e, "fail")
    BY <1>2 DEF CheckRun
  <2> QED  BY <1>1, <2>1, FailKeeps DEF Failing, Ended
<1>3. CASE SceneD(e)
  <2>1. Goto(e, "report") /\ status' = status /\ raced' = raced
    BY <1>3 DEF CheckRun, statusVars
  <2>2. PICK x \in Exec : /\ exec' = [exec EXCEPT ![e] = x] /\ exec'[e] = x
                          /\ x.at = "report" /\ x.set = exec[e].set /\ x.round = exec[e].round
                          /\ x.rerun = exec[e].rerun
    BY <2>1, GotoFact DEF ExecPhase
  <2>3. RoundInv(e)'
    BY <1>1, <1>3, <2>2 DEF RoundInv, SceneD, GatesPass, Id
  <2>4. ExitInv(e)'
    BY <1>1, <2>1, <2>2 DEF ExitInv, Claude, Settled, Failing
  <2>5. RerunInv(e)'
    BY <1>1, <2>2 DEF RerunInv
  <2>6. BaselineInv'
    BY <1>1, <2>2, BaselineSame
  <2>7. SummaryNeverFails'
    BY <1>1, <2>1 DEF SmokeGood, SmokeInv, SummaryNeverFails
  <2>8. exec[e].round <= x.round /\ exec[e].at \notin Finished
    BY <1>1, <2>2 DEF Exec, MaxRounds, Finished
  <2> QED  BY <1>1, <2>1, <2>2, <2>3, <2>4, <2>5, <2>6, <2>7, <2>8, QuietExecution
<1> QED  BY <1>2, <1>3

LEMMA EvaluateCoverageKeeps ==
    ASSUME SmokeGood, NEW e \in Execution, EvaluateCoverage(e)
    PROVE  SmokeGood'
<1>1. /\ exec[e] \in Exec /\ RoundInv(e) /\ ExitInv(e) /\ RerunInv(e) /\ exec[e].at = "report"
      /\ run' = run /\ summary' = summary /\ baseline' = baseline /\ first' = first
      /\ clash' = (clash \/ (Given(e) # 0 /\ Creating # {}))
      /\ clash' \in BOOLEAN /\ clash \in BOOLEAN /\ run' = [i \in RunId |-> run'[i]]
      /\ baseline \in Nat /\ first \in Nat /\ exec[e].set.coverage \in Nat \ {Torn}
      /\ exec[e].round <= exec[e].round
  <2>0. exec[e].round \in 1..2
    BY ExecFact DEF MaxRounds
  <2>1. exec[e].round <= exec[e].round
    BY <2>0
  <2>2. clash' = (clash \/ (Given(e) # 0 /\ Creating # {}))
    BY DEF EvaluateCoverage
  <2>3. clash' \in BOOLEAN
    BY <2>2
  <2> QED  BY <2>1, <2>2, <2>3, ExecFact DEF EvaluateCoverage, SmokeGood, SmokeTypes
<1>2. CASE Fail(e, "fail")
  BY <1>1, <1>2, FailKeeps DEF Failing, Ended
<1>3. ASSUME NEW x \in Exec, exec' = [exec EXCEPT ![e] = x], UNCHANGED statusVars,
             x.at \in {"create", "judge"}, x.set = exec[e].set, x.round = exec[e].round,
             x.rerun = exec[e].rerun, RerunInv(e)', BaselineInv'
      PROVE  SmokeGood'
  <2>1. exec'[e] = x /\ status' = status /\ raced' = raced
    BY <1>3 DEF SmokeGood, SmokeTypes, statusVars
  <2>2. RoundInv(e)'
    BY <1>1, <1>3, <2>1 DEF RoundInv, SceneD, GatesPass, Id
  <2>3. ExitInv(e)'
    BY <1>1, <1>3, <2>1 DEF ExitInv, Claude, Settled, Failing
  <2>4. SummaryNeverFails'
    BY <1>1, <2>1 DEF SmokeGood, SmokeInv, SummaryNeverFails
  <2>5. exec[e].round <= x.round /\ exec[e].at \notin Finished
    BY <1>1, <1>3 DEF Finished
  <2>6. clash => clash'
    BY <1>1
  <2> QED  BY <1>1, <1>3, <2>1, <2>2, <2>3, <2>4, <2>5, <2>6, QuietExecution
<1>4. ASSUME ~clash', Given(e) # 0
      PROVE  /\ ~clash /\ Creating = {} /\ baseline = first /\ first # Torn
             /\ Given(e) = exec[e].set.coverage
  <2>1. ~clash /\ Creating = {}
    BY <1>1, <1>4
  <2>2. \A g \in Execution : exec[g].at \notin {"create", "fill"}
    BY <2>1 DEF Creating
  <2>3. baseline = first /\ first # Torn
    BY <2>1, <2>2 DEF SmokeGood, SmokeInv, BaselineInv
  <2> QED  BY <1>4, <2>1, <2>3 DEF Given
<1>5. CASE Goto(e, "create") /\ UNCHANGED statusVars /\ Given(e) # 0 /\ baseline = Missing
  <2>1. PICK x \in Exec : /\ exec' = [exec EXCEPT ![e] = x] /\ exec'[e] = x
                          /\ x.at = "create" /\ x.set = exec[e].set /\ x.round = exec[e].round
                          /\ x.rerun = exec[e].rerun
    BY <1>5, GotoFact DEF ExecPhase
  <2>2. Given(e)' = Given(e)
    BY <2>1 DEF Given, Claude
  <2>3. RerunInv(e)'
    BY <1>1, <1>5, <2>1, <2>2 DEF RerunInv
  <2>4. BaselineInv'
    <3>1. SUFFICES ASSUME ~clash'
                   PROVE  BaselineInv'
      BY DEF BaselineInv
    <3>2. \A g \in Execution : exec'[g].at \in {"create", "fill"} => g = e
      BY <1>4, <1>5, <2>1, <3>1 DEF Creating, SmokeGood, SmokeTypes
    <3>3. first = Missing /\ first # Torn
      BY <1>4, <1>5, <3>1
    <3>4. \A g, h \in Creating' : g = h
      BY <3>2 DEF Creating
    <3> QED  BY <1>1, <1>5, <2>1, <3>2, <3>3, <3>4 DEF BaselineInv
  <2> QED  BY <1>3, <1>5, <2>1, <2>3, <2>4
<1>6. ASSUME NEW risks \in SUBSET Risk, Move(e, Reported(e, risks)), UNCHANGED statusVars,
             \/ risks = {"coverage_blocked_by_environment"}
             \/ /\ Given(e) # 0 /\ baseline # Missing /\ baseline # Torn
                /\ risks = IF Below(e) THEN {"coverage_below_baseline"} ELSE {}
      PROVE  SmokeGood'
  <2>1. PICK x \in Exec : x = [exec[e] EXCEPT !.at = "judge", !.risks = risks]
    BY <1>1 DEF Exec, ExecPhase
  <2>2. /\ x.at = "judge" /\ x.set = exec[e].set /\ x.round = exec[e].round
        /\ x.rerun = exec[e].rerun /\ x.risks = risks
    BY <1>1, <2>1 DEF Exec
  <2>3. exec' = [exec EXCEPT ![e] = x] /\ exec'[e] = x
    BY <1>6, <2>1 DEF Move, Reported, SmokeGood, SmokeTypes
  <2>4. risks = {} => (clash \/ HighEnough(e))'
    <3>1. SUFFICES ASSUME risks = {}, ~clash'
                   PROVE  HighEnough(e)'
      OBVIOUS
    <3>2. Given(e) # 0 /\ baseline # Missing /\ ~(Given(e) < baseline)
      BY <1>6, <3>1 DEF Below
    <3>3. first # Missing /\ exec[e].set.coverage >= first
      BY <1>1, <1>4, <3>1, <3>2
    <3> QED  BY <1>1, <2>2, <2>3, <3>3 DEF HighEnough
  <2>5. "coverage_baseline_created_requires_rerun" \notin risks
    BY <1>6
  <2>6. baseline # Missing \/ "coverage_blocked_by_environment" \in risks
    BY <1>6
  <2>7. RerunInv(e)'
    BY <1>1, <2>2, <2>3, <2>4, <2>5, <2>6 DEF RerunInv
  <2>8. BaselineInv'
    BY <1>1, <2>2, <2>3, BaselineSame
  <2> QED  BY <1>3, <1>6, <2>2, <2>3, <2>7, <2>8
<1>7. CASE Given(e) = 0
  <2>1. /\ Move(e, Reported(e, {"coverage_blocked_by_environment"})) /\ UNCHANGED statusVars
        /\ {"coverage_blocked_by_environment"} \in SUBSET Risk
    BY <1>7 DEF EvaluateCoverage, Risk
  <2> QED  BY <1>6, <2>1
<1>8. CASE Given(e) # 0 /\ baseline # Missing /\ baseline # Torn
  <2>1. PICK risks \in SUBSET Risk : risks = IF Below(e) THEN {"coverage_below_baseline"} ELSE {}
    BY DEF Risk
  <2>2. Move(e, Reported(e, risks)) /\ UNCHANGED statusVars
    BY <1>8, <2>1 DEF EvaluateCoverage
  <2> QED  BY <1>6, <1>8, <2>1, <2>2
<1>9. CASE Given(e) # 0 /\ (baseline = Missing \/ baseline = Torn)
  <2>1. Fail(e, "fail") \/ (Goto(e, "create") /\ UNCHANGED statusVars /\ baseline = Missing)
    BY <1>9 DEF EvaluateCoverage
  <2> QED  BY <1>2, <1>5, <1>9, <2>1
<1> QED  BY <1>7, <1>8, <1>9

LEMMA CreateBaselineKeeps ==
    ASSUME SmokeGood, NEW e \in Execution, CreateBaseline(e)
    PROVE  SmokeGood'
<1>1. /\ exec[e] \in Exec /\ RoundInv(e) /\ ExitInv(e) /\ RerunInv(e) /\ exec[e].at = "create"
      /\ run' = run /\ status' = status /\ raced' = raced /\ summary' = summary /\ clash' = clash /\ baseline' = Torn
      /\ clash \in BOOLEAN /\ first \in Nat /\ exec[e].set.coverage \in Nat
      /\ first' = IF first = Missing THEN Given(e) ELSE first
  BY ExecFact DEF CreateBaseline, SmokeGood, SmokeTypes
<1>2. PICK x \in Exec : /\ exec' = [exec EXCEPT ![e] = x] /\ exec'[e] = x
                        /\ x.at = "fill" /\ x.set = exec[e].set /\ x.round = exec[e].round
                        /\ x.rerun = exec[e].rerun
  <2>1. Goto(e, "fill")
    BY DEF CreateBaseline
  <2> QED  BY <2>1, GotoFact DEF ExecPhase
<1>3. Given(e)' = Given(e) /\ Given(e) \in Nat
  BY <1>1, <1>2 DEF Given, Claude
<1>4. first' \in Nat /\ baseline' \in Nat /\ baseline' # Missing
  BY <1>1, <1>3 DEF Torn, Missing
<1>5. SmokeTypes'
  BY <1>1, <1>2, <1>4 DEF SmokeGood, SmokeTypes
<1>6. RoundInv(e)'
  BY <1>1, <1>2 DEF RoundInv, SceneD, GatesPass, Id
<1>7. ExitInv(e)'
  BY <1>1, <1>2 DEF ExitInv, Claude, Settled, Failing
<1>8. RerunInv(e)'
  BY <1>1, <1>2, <1>3, <1>4 DEF RerunInv
<1>9. BaselineInv'
  <2>1. SUFFICES ASSUME ~clash'
                 PROVE  BaselineInv'
    BY DEF BaselineInv
  <2>2. (\A g, h \in Creating : g = h) /\ first = Missing
    BY <1>1, <2>1 DEF SmokeGood, SmokeInv, BaselineInv
  <2>3. \A g \in Execution : exec'[g].at \in {"create", "fill"} => g = e
    BY <1>1, <1>2, <2>2 DEF Creating, SmokeGood, SmokeTypes
  <2>4. first' = Given(e)'
    BY <1>1, <1>3, <2>2
  <2>5. \A g, h \in Creating' : g = h
    BY <2>3 DEF Creating
  <2> QED  BY <1>1, <1>2, <2>3, <2>4, <2>5 DEF BaselineInv
<1>10. SummaryNeverFails'
  BY <1>1 DEF SmokeGood, SmokeInv, SummaryNeverFails
<1>11. exec[e].round <= x.round /\ exec[e].at \notin Finished
  BY <1>1, <1>2 DEF Exec, MaxRounds, Finished
<1>12. \A n \in Names : Settled(n) => Settled(n)'
  BY <1>1 DEF Settled
<1>13. first # Missing => first' = first
  BY <1>1
<1> QED  BY <1>1, <1>2, <1>4, <1>5, <1>6, <1>7, <1>8, <1>9, <1>10, <1>11, <1>12, <1>13, OneExecution

LEMMA FillBaselineKeeps ==
    ASSUME SmokeGood, NEW e \in Execution, FillBaseline(e)
    PROVE  SmokeGood'
<1>1. /\ exec[e] \in Exec /\ RoundInv(e) /\ ExitInv(e) /\ RerunInv(e) /\ exec[e].at = "fill"
      /\ run' = run /\ status' = status /\ raced' = raced /\ summary' = summary /\ clash' = clash /\ first' = first
      /\ clash \in BOOLEAN /\ first \in Nat /\ exec[e].set.coverage \in Nat \ {Torn}
      /\ baseline' = Given(e)
  BY ExecFact DEF FillBaseline, Filled, SmokeGood, SmokeTypes
<1>2. PICK x \in Exec : x = [exec[e] EXCEPT !.at = "judge",
                                            !.risks = {"coverage_baseline_created_requires_rerun"}]
  BY <1>1 DEF Exec, ExecPhase, Risk
<1>3. /\ x.at = "judge" /\ x.set = exec[e].set /\ x.round = exec[e].round
      /\ x.rerun = exec[e].rerun /\ x.risks = {"coverage_baseline_created_requires_rerun"}
  BY <1>1, <1>2 DEF Exec
<1>4. exec' = [exec EXCEPT ![e] = x] /\ exec'[e] = x
  BY <1>2 DEF FillBaseline, Move, Reported, SmokeGood, SmokeTypes
<1>5. Given(e) \in Nat \ {Torn} /\ Given(e) # Missing /\ ~exec[e].rerun
  BY <1>1 DEF Given, RerunInv, Missing, Torn
<1>6. SmokeTypes'
  BY <1>1, <1>4, <1>5 DEF SmokeGood, SmokeTypes
<1>7. RoundInv(e)'
  BY <1>1, <1>3, <1>4 DEF RoundInv, SceneD, GatesPass, Id
<1>8. ExitInv(e)'
  BY <1>1, <1>3, <1>4 DEF ExitInv, Claude, Settled, Failing
<1>9. RerunInv(e)'
  BY <1>1, <1>3, <1>4, <1>5 DEF RerunInv
<1>10. BaselineInv'
  <2>1. SUFFICES ASSUME ~clash'
                 PROVE  BaselineInv'
    BY DEF BaselineInv
  <2>2. (\A g, h \in Creating : g = h) /\ first = Given(e)
    BY <1>1, <2>1 DEF SmokeGood, SmokeInv, BaselineInv
  <2>3. \A g \in Execution : exec'[g].at \notin {"create", "fill"}
    BY <1>1, <1>3, <1>4, <2>2 DEF Creating, SmokeGood, SmokeTypes
  <2>4. \A g, h \in Creating' : g = h
    BY <2>3 DEF Creating
  <2> QED  BY <1>1, <1>5, <2>2, <2>3, <2>4 DEF BaselineInv
<1>11. SummaryNeverFails'
  BY <1>1 DEF SmokeGood, SmokeInv, SummaryNeverFails
<1>12. exec[e].round <= x.round /\ exec[e].at \notin Finished
  BY <1>1, <1>3 DEF Exec, MaxRounds, Finished
<1>13. (\A n \in Names : Settled(n) => Settled(n)') /\ baseline' # Missing
  BY <1>1, <1>5 DEF Settled
<1> QED  BY <1>1, <1>3, <1>4, <1>6, <1>7, <1>8, <1>9, <1>10, <1>11, <1>12, <1>13, OneExecution

\* The next round, or the end.
LEMMA NextRoundFact ==
    ASSUME SmokeGood, NEW e \in Execution, NextRound(e), exec[e].at \in {"judge", "scan"}
    PROVE  \E x \in Exec :
               /\ exec' = [exec EXCEPT ![e] = x] /\ exec'[e] = x /\ x.set = exec[e].set
               /\ exec[e].round <= x.round /\ exec[e].at \notin Finished
               /\ x.rerun => exec[e].rerun
               /\ \/ x.at = "team" /\ x.round = exec[e].round + 1 /\ exec[e].round < exec[e].set.rounds
                  \/ /\ x.at = IF Claude(e) THEN "summary" ELSE "passed"
                     /\ x.round = exec[e].round /\ exec[e].round = exec[e].set.rounds
<1>1. exec[e] \in Exec /\ exec[e].round \in 1..2 /\ exec[e].set.rounds \in 1..2 /\ exec[e].round <= exec[e].set.rounds
  BY ExecFact DEF RoundInv, MaxRounds
<1>2. exec[e].at \notin Finished
  BY DEF Finished
<1>3. CASE exec[e].round < exec[e].set.rounds
  <2>1. PICK n \in 1..MaxRounds : n = exec[e].round + 1
    BY <1>1, <1>3 DEF MaxRounds
  <2>2. PICK x \in Exec : x = [exec[e] EXCEPT !.at = "team", !.round = n, !.rerun = FALSE, !.risks = {}]
    BY <1>1 DEF Exec, ExecPhase
  <2>3. x.at = "team" /\ x.set = exec[e].set /\ x.round = n /\ x.rerun = FALSE
    BY <1>1, <2>2 DEF Exec
  <2>4. exec' = [exec EXCEPT ![e] = x] /\ exec'[e] = x
    BY <1>3, <2>1, <2>2 DEF NextRound, Move, SmokeGood, SmokeTypes
  <2>5. exec[e].round <= n
    BY <1>1, <2>1
  <2> QED  BY <1>2, <1>3, <2>1, <2>3, <2>4, <2>5
<1>4. CASE ~(exec[e].round < exec[e].set.rounds)
  <2>1. PICK a \in {"summary", "passed"} : a = IF Claude(e) THEN "summary" ELSE "passed"
    OBVIOUS
  <2>2. PICK x \in Exec : x = [exec[e] EXCEPT !.at = a, !.risks = {}]
    BY <1>1, <2>1 DEF Exec, ExecPhase, Finished
  <2>3. x.at = a /\ x.set = exec[e].set /\ x.round = exec[e].round /\ x.rerun = exec[e].rerun
    BY <1>1, <2>2 DEF Exec
  <2>4. exec' = [exec EXCEPT ![e] = x] /\ exec'[e] = x
    BY <1>4, <2>1, <2>2 DEF NextRound, Move, SmokeGood, SmokeTypes
  <2>5. exec[e].round = exec[e].set.rounds /\ exec[e].round <= x.round
    BY <1>1, <1>4, <2>3
  <2> QED  BY <1>2, <2>1, <2>3, <2>4, <2>5
<1> QED  BY <1>3, <1>4

LEMMA JudgeKeeps ==
    ASSUME SmokeGood, NEW e \in Execution, Judge(e)
    PROVE  SmokeGood'
<1>1. /\ exec[e] \in Exec /\ RoundInv(e) /\ ExitInv(e) /\ RerunInv(e) /\ exec[e].at = "judge"
      /\ run' = run /\ summary' = summary /\ baseline' = baseline /\ first' = first /\ clash' = clash
      /\ clash \in BOOLEAN /\ run' = [i \in RunId |-> run'[i]]
      /\ exec[e].round \in 1..2 /\ exec[e].set.rounds \in 1..2
  BY ExecFact DEF Judge, SmokeGood, SmokeTypes, MaxRounds
<1>2. CASE Fail(e, "fail")
  BY <1>1, <1>2, FailKeeps DEF Failing, Ended
<1>3. ASSUME NEW x \in Exec, exec' = [exec EXCEPT ![e] = x], exec'[e] = x, status' = status, raced' = raced,
             x.at \notin {"create", "fill"}, x.set = exec[e].set, exec[e].round <= x.round,
             RoundInv(e)', ExitInv(e)', RerunInv(e)'
      PROVE  SmokeGood'
  <2>1. BaselineInv'
    BY <1>1, <1>3, BaselineSame
  <2>2. SummaryNeverFails'
    BY <1>1, <1>3 DEF SmokeGood, SmokeInv, SummaryNeverFails
  <2>3. exec[e].at \notin Finished
    BY <1>1 DEF Finished
  <2> QED  BY <1>1, <1>3, <2>1, <2>2, <2>3, QuietExecution
<1>4. CASE ~Claude(e) /\ NextRound(e) /\ status' = status /\ raced' = raced
  <2>1. PICK x \in Exec :
               /\ exec' = [exec EXCEPT ![e] = x] /\ exec'[e] = x /\ x.set = exec[e].set
               /\ exec[e].round <= x.round
               /\ x.rerun => exec[e].rerun
               /\ \/ x.at = "team" /\ x.round = exec[e].round + 1 /\ exec[e].round < exec[e].set.rounds
                  \/ x.at = "passed" /\ x.round = exec[e].round /\ exec[e].round = exec[e].set.rounds
    BY <1>1, <1>4, NextRoundFact
  <2>2. ~Claude(e)'
    BY <1>4, <2>1 DEF Claude
  <2>3. x.round <= x.set.rounds
    BY <1>1, <2>1
  <2>4. RoundInv(e)'
    BY <2>1, <2>3 DEF RoundInv
  <2>5. ExitInv(e)'
    BY <2>1, <2>2 DEF ExitInv, Failing
  <2>6. RerunInv(e)'
    BY <1>1, <2>1 DEF RerunInv
  <2>7. x.at \notin {"create", "fill"}
    BY <2>1
  <2> QED  BY <1>3, <1>4, <2>1, <2>4, <2>5, <2>6, <2>7
<1>5. CASE Claude(e) /\ Risks(e) = {} /\ Goto(e, "scan") /\ status' = status /\ raced' = raced
  <2>1. PICK x \in Exec : /\ exec' = [exec EXCEPT ![e] = x] /\ exec'[e] = x
                          /\ x.at = "scan" /\ x.set = exec[e].set /\ x.round = exec[e].round
                          /\ x.rerun = exec[e].rerun
    BY <1>5, GotoFact DEF ExecPhase
  <2>2. exec[e].risks = {} /\ run[Id(e)].events = {}
    BY <1>5 DEF Risks, RunRisks
  <2>3. Claude(e)' = Claude(e) /\ Id(e)' = Id(e)
    BY <2>1 DEF Claude, Id
  <2>4. RoundInv(e)'
    BY <1>1, <1>5, <2>1, <2>2, <2>3 DEF RoundInv, SceneD, GatesPass
  <2>5. ExitInv(e)'
    BY <1>1, <1>5, <2>1, <2>3 DEF ExitInv, Settled, Failing
  <2>6. RerunInv(e)'
    BY <1>1, <2>1, <2>2 DEF RerunInv, HighEnough
  <2>7. exec[e].round <= x.round
    BY <1>1, <2>1
  <2> QED  BY <1>3, <1>5, <2>1, <2>4, <2>5, <2>6, <2>7
<1>6. CASE /\ Claude(e) /\ Risks(e) = {"coverage_baseline_created_requires_rerun"}
           /\ Move(e, [exec[e] EXCEPT !.at = "report", !.rerun = TRUE, !.risks = {}])
           /\ status' = status /\ raced' = raced
  <2>1. PICK x \in Exec : x = [exec[e] EXCEPT !.at = "report", !.rerun = TRUE, !.risks = {}]
    BY <1>1 DEF Exec, ExecPhase
  <2>2. x.at = "report" /\ x.set = exec[e].set /\ x.round = exec[e].round /\ x.rerun = TRUE
    BY <1>1, <2>1 DEF Exec
  <2>3. exec' = [exec EXCEPT ![e] = x] /\ exec'[e] = x
    BY <1>6, <2>1 DEF Move, SmokeGood, SmokeTypes
  <2>4. "coverage_blocked_by_environment" \notin exec[e].risks
    BY <1>6 DEF Risks
  <2>5. baseline # Missing
    BY <1>1, <2>4 DEF RerunInv
  <2>6. Claude(e)' = Claude(e) /\ Id(e)' = Id(e)
    BY <2>2, <2>3 DEF Claude, Id
  <2>7. RoundInv(e)'
    BY <1>1, <2>2, <2>3, <2>6 DEF RoundInv, SceneD, GatesPass
  <2>8. ExitInv(e)'
    BY <1>1, <1>6, <2>2, <2>3, <2>6 DEF ExitInv, Settled, Failing
  <2>9. RerunInv(e)'
    BY <1>1, <2>2, <2>3, <2>5 DEF RerunInv
  <2>10. exec[e].round <= x.round
    BY <1>1, <2>2
  <2> QED  BY <1>3, <1>6, <2>2, <2>3, <2>7, <2>8, <2>9, <2>10
<1> QED  BY <1>2, <1>4, <1>5, <1>6 DEF Judge, statusVars

LEMMA ScanKeeps ==
    ASSUME SmokeGood, NEW e \in Execution, Scan(e)
    PROVE  SmokeGood'
<1>1. /\ exec[e] \in Exec /\ RoundInv(e) /\ ExitInv(e) /\ RerunInv(e) /\ exec[e].at = "scan"
      /\ run' = run /\ summary' = summary /\ baseline' = baseline /\ first' = first /\ clash' = clash
      /\ clash \in BOOLEAN /\ exec[e].round \in 1..2 /\ exec[e].set.rounds \in 1..2
      /\ Id(e) \in RunId
  BY ExecFact DEF Scan, SmokeGood, SmokeTypes, MaxRounds
<1>2. CASE Fail(e, "fail")
  BY <1>1, <1>2, FailKeeps DEF Failing, Ended
<1>3. CASE NextRound(e) /\ WriteStatus(e, Name(e), "pass", Id(e))
  <2>1. Claude(e) /\ run[Id(e)].events = {} /\ SceneD(e) /\ (clash \/ HighEnough(e))
    BY <1>1 DEF RoundInv, RerunInv
  <2>2. PICK x \in Exec :
               /\ exec' = [exec EXCEPT ![e] = x] /\ exec'[e] = x /\ x.set = exec[e].set
               /\ exec[e].round <= x.round /\ exec[e].at \notin Finished
               /\ x.rerun => exec[e].rerun
               /\ \/ x.at = "team" /\ x.round = exec[e].round + 1 /\ exec[e].round < exec[e].set.rounds
                  \/ x.at = "summary" /\ x.round = exec[e].round /\ exec[e].round = exec[e].set.rounds
    BY <1>1, <1>3, <2>1, NextRoundFact
  <2>3. PICK name \in Names : name = Name(e) /\ name = NameOf(exec[e].set, exec[e].round)
    BY <1>1, ExecFact DEF Name
  <2>4. PICK id : id = Id(e) /\ id = <<e, exec[e].round>>
    BY DEF Id
  <2>5. /\ status' = [status EXCEPT ![name] = [word |-> "pass", run |-> id]]
        /\ raced' = raced \cup ({name} \cap About(e))
    BY <1>3, <2>3, <2>4 DEF WriteStatus, Write
  <2>6. /\ status' = [n \in Names |-> status'[n]]
        /\ \A n \in Names : status[n] # NoStatus => status'[n] # NoStatus
        /\ \A n \in Names : Settled(n) => Settled(n)'
        /\ raced \subseteq raced'
        /\ \A n \in About(e) : status'[n] = status[n] \/ n \in raced'
        /\ status'[name] = [word |-> "pass", run |-> id]
        /\ \A n \in Names : status'[n].word = "pass" => status'[n] = status[n] \/ n = name
    BY <2>5, StatusFact
  <2>7. SmokeTypes'
    BY <1>1, <2>2, <2>6 DEF SmokeGood, SmokeTypes
  <2>9. PICK i \in 1..MaxRounds : i = exec[e].round
    BY <1>1 DEF MaxRounds
  <2>10. PassOf(name, e, i)'
    <3>1. status'[name].run = <<e, i>>
      BY <2>4, <2>6, <2>9
    <3>2. Over(e, i)'
      BY <1>1, <2>2, <2>9 DEF Over
    <3>3. Clean(run[<<e, i>>])
      BY <2>1, <2>4, <2>9 DEF Clean, SceneD, Claude
    <3>4. (clash \/ HighEnough(e))'
      BY <1>1, <2>1, <2>2 DEF HighEnough
    <3> QED  BY <1>1, <3>1, <3>2, <3>3, <3>4 DEF PassOf, Clean
  <2>11. \A n \in Names : status'[n].word = "pass" =>
             status'[n] = status[n] \/ \E k \in 1..MaxRounds : PassOf(n, e, k)'
    BY <2>6, <2>10
  <2>12. RoundInv(e)'
    <3>1. x.round <= x.set.rounds
      BY <1>1, <2>2
    <3>2. Claude(e)'
      BY <2>1, <2>2 DEF Claude
    <3> QED  BY <2>2, <3>1, <3>2 DEF RoundInv
  <2>13. ExitInv(e)'
    <3>1. Settled(name)'
      BY <2>6 DEF Settled
    <3>2. \A k \in 1..x.set.rounds : NameOf(x.set, k) \in Names
      <4>1. \A k \in 1..x.set.rounds : k \in 1..MaxRounds
        BY <1>1, <2>2 DEF MaxRounds
      <4> QED  BY <2>2, <4>1, ExecFact
    <3>3. ASSUME NEW k \in 1..x.set.rounds, k < x.round \/ x.at \in {"summary", "passed"}
          PROVE  Settled(NameOf(x.set, k))'
      <4>1. k < exec[e].round \/ k = exec[e].round
        BY <1>1, <2>2, <3>3
      <4>2. CASE k < exec[e].round
        <5>1. Settled(NameOf(x.set, k))
          BY <1>1, <2>1, <2>2, <4>2 DEF ExitInv
        <5>2. NameOf(x.set, k) \in Names
          BY <3>2
        <5> HIDE DEF Settled
        <5> QED  BY <2>6, <5>1, <5>2
      <4>3. CASE k = exec[e].round
        <5>1. NameOf(x.set, k) = name
          BY <2>2, <2>3, <4>3
        <5> QED  BY <3>1, <5>1
      <4> QED  BY <4>1, <4>2, <4>3
    <3>4. x.at \notin {"blocked", "skipped", "failed"} \cup Failing
      BY <2>2 DEF Failing
    <3> HIDE DEF Settled
    <3> QED  BY <2>2, <3>3, <3>4 DEF ExitInv
  <2>14. RerunInv(e)'
    BY <1>1, <2>2 DEF RerunInv
  <2>15. BaselineInv'
    BY <1>1, <2>2, BaselineSame
  <2>16. SummaryNeverFails'
    BY <1>1, <2>6 DEF SmokeGood, SmokeInv, SummaryNeverFails
  <2> QED  BY <1>1, <2>2, <2>6, <2>7, <2>11, <2>12, <2>13, <2>14, <2>15, <2>16, OneExecution
<1> QED  BY <1>2, <1>3 DEF Scan

LEMMA WriteSummaryKeeps ==
    ASSUME SmokeGood, NEW e \in Execution, WriteSummary(e)
    PROVE  SmokeGood'
<1>1. /\ exec[e] \in Exec /\ RoundInv(e) /\ ExitInv(e) /\ RerunInv(e) /\ exec[e].at \in {"blocked", "summary"}
      /\ run' = run /\ status' = status /\ raced' = raced /\ baseline' = baseline /\ first' = first
      /\ clash' = clash /\ clash \in BOOLEAN /\ run' = [i \in RunId |-> run'[i]]
      /\ exec[e].round \in 1..2 /\ exec[e].set.rounds \in 1..2
  BY ExecFact DEF WriteSummary, SmokeGood, SmokeTypes, MaxRounds
<1>2. PICK a \in {"skipped", "passed"} : a = IF exec[e].at = "blocked" THEN "skipped" ELSE "passed"
  OBVIOUS
<1>3. PICK x \in Exec : /\ exec' = [exec EXCEPT ![e] = x] /\ exec'[e] = x
                        /\ x.at = a /\ x.set = exec[e].set /\ x.round = exec[e].round
                        /\ x.rerun = exec[e].rerun
  <2>1. Goto(e, a)
    BY <1>2 DEF WriteSummary
  <2> QED  BY <1>2, <2>1, GotoFact DEF ExecPhase, Finished
<1>4. Claude(e)' = Claude(e)
  BY <1>3 DEF Claude
<1>5. RoundInv(e)'
  BY <1>1, <1>2, <1>3 DEF RoundInv
<1>6. ExitInv(e)'
  <2>1. CASE exec[e].at = "blocked"
    BY <1>1, <1>2, <1>3, <1>4, <2>1 DEF ExitInv, Settled, Failing
  <2>2. CASE exec[e].at = "summary"
    BY <1>1, <1>2, <1>3, <1>4, <2>2 DEF ExitInv, Settled, Failing
  <2> QED  BY <1>1, <2>1, <2>2
<1>7. RerunInv(e)'
  BY <1>1, <1>2, <1>3 DEF RerunInv
<1>8. BaselineInv'
  BY <1>1, <1>2, <1>3, BaselineSame
<1>9. \A n \in Covered(e) : Settled(n)
  <2>1. CASE exec[e].at = "blocked"
    BY <1>1, <2>1 DEF Covered, ExitInv
  <2>2. CASE exec[e].at = "summary"
    BY <1>1, <2>2 DEF Covered, ExitInv, RoundInv
  <2> QED  BY <1>1, <2>1, <2>2
<1>10. SummaryNeverFails'
  <2>1. summary' = [n \in {m \in Covered(e) : status[m] # NoStatus} |-> status[n].word]
    BY DEF WriteSummary
  <2> QED  BY <1>1, <1>9, <2>1 DEF SummaryNeverFails, Settled
<1>11. exec[e].round <= x.round /\ x.at \in Finished
  BY <1>1, <1>2, <1>3 DEF Finished
<1> QED  BY <1>1, <1>3, <1>5, <1>6, <1>7, <1>8, <1>10, <1>11, QuietExecution

LEMMA LeaveKeeps ==
    ASSUME SmokeGood, NEW e \in Execution, NEW a \in {"quit", "dead"}, Goto(e, a), UNCHANGED statusVars,
           run' = run, summary' = summary, baseline' = baseline, first' = first,
           clash' \in BOOLEAN, clash => clash', exec[e].at = "fill" => clash', exec[e].at \notin Ended
    PROVE  SmokeGood'
<1>1. /\ exec[e] \in Exec /\ RoundInv(e) /\ ExitInv(e) /\ RerunInv(e)
      /\ status' = status /\ raced' = raced
      /\ run' = [i \in RunId |-> run'[i]] /\ exec[e].round \in 1..2
  BY ExecFact DEF statusVars, SmokeGood, SmokeTypes, MaxRounds
<1>2. PICK x \in Exec : /\ exec' = [exec EXCEPT ![e] = x] /\ exec'[e] = x
                        /\ x.at = a /\ x.set = exec[e].set /\ x.round = exec[e].round
                        /\ x.rerun = exec[e].rerun
  BY GotoFact DEF ExecPhase, Finished
<1>3. RoundInv(e)'
  BY <1>1, <1>2 DEF RoundInv
<1>4. ExitInv(e)'
  BY <1>1, <1>2 DEF ExitInv, Claude, Settled, Failing
<1>5. RerunInv(e)'
  BY <1>1, <1>2 DEF RerunInv
<1>6. BaselineInv'
  BY <1>2, BaselineSame
<1>7. SummaryNeverFails'
  BY <1>1 DEF SmokeGood, SmokeInv, SummaryNeverFails
<1>8. exec[e].round <= x.round /\ x.at \in Finished
  BY <1>1, <1>2 DEF Finished
<1> QED  BY <1>1, <1>2, <1>3, <1>4, <1>5, <1>6, <1>7, <1>8, QuietExecution

LEMMA WriteFailureKeeps ==
    ASSUME SmokeGood, NEW e \in Execution, WriteFailure(e)
    PROVE  SmokeGood'
<1>1. /\ exec[e] \in Exec /\ RoundInv(e) /\ ExitInv(e) /\ RerunInv(e) /\ exec[e].at \in Failing
      /\ run' = run /\ summary' = summary /\ baseline' = baseline /\ first' = first /\ clash' = clash
      /\ raced' = raced /\ clash \in BOOLEAN /\ Name(e) \in Names /\ Name(e)[1] = exec[e].set.scenario
      /\ exec[e].set.rounds \in 1..2 /\ exec[e].round \in 1..2
  BY ExecFact DEF WriteFailure, SmokeGood, SmokeTypes, MaxRounds
<1>2. PICK x \in Exec : /\ exec' = [exec EXCEPT ![e] = x] /\ exec'[e] = x
                        /\ x.at = "failed" /\ x.set = exec[e].set /\ x.round = exec[e].round
                        /\ x.rerun = exec[e].rerun
  <2>1. Goto(e, "failed")
    BY DEF WriteFailure
  <2> QED  BY <2>1, GotoFact DEF ExecPhase, Finished
<1>3. PICK name \in Names : name = Name(e)
  BY <1>1
<1>4. PICK c : c = [word |-> "fail", run |-> Id(e)]
  OBVIOUS
<1>5. c.word = "fail" /\ c # NoStatus
  BY <1>4 DEF NoStatus
<1>6. status' = [status EXCEPT ![name] = c] /\ status = [n \in Names |-> status[n]]
  BY <1>3, <1>4 DEF WriteFailure, Write, SmokeGood, SmokeTypes
<1>7. status'[name] = c /\ (\A n : n # name => status'[n] = status[n]) /\ status' = [n \in Names |-> status'[n]]
  BY <1>6
<1>8. status[name].word \in {"none", "fail"} \/ name \in raced
  BY <1>1, <1>3 DEF ExitInv
<1>9. \A n \in Names : Settled(n) => Settled(n)'
  BY <1>1, <1>7, <1>8 DEF Settled
<1>10. SmokeTypes'
  BY <1>1, <1>2, <1>7 DEF SmokeGood, SmokeTypes
<1>11. RoundInv(e)'
  BY <1>1, <1>2 DEF RoundInv
<1>12. ExitInv(e)'
  <2>1. Claude(e)' = Claude(e)
    BY <1>2 DEF Claude
  <2>2. \A i \in 1..exec[e].set.rounds : NameOf(exec[e].set, i) \in Names
    <3>1. \A i \in 1..exec[e].set.rounds : i \in 1..MaxRounds
      BY <1>1 DEF MaxRounds
    <3> QED  BY <3>1, ExecFact
  <2> DEFINE Kept(n) == status'[n].word \in {"pass", "environment_blocked"} \/ n \in raced'
  <2>3. \A i \in 1..exec[e].set.rounds : i < exec[e].round /\ Claude(e) => Kept(NameOf(exec[e].set, i))
    BY <1>1, <1>9, <2>2 DEF ExitInv, Settled
  <2>4. name[1] = exec[e].set.scenario /\ status'[name] # NoStatus
    BY <1>1, <1>3, <1>5, <1>7
  <2> QED  BY <1>2, <2>1, <2>3, <2>4 DEF ExitInv, Failing, Settled
<1>13. RerunInv(e)'
  BY <1>1, <1>2 DEF RerunInv
<1>14. BaselineInv'
  BY <1>1, <1>2, BaselineSame DEF Failing
<1>15. SummaryNeverFails'
  BY <1>1 DEF SmokeGood, SmokeInv, SummaryNeverFails
<1>16. exec[e].round <= x.round /\ x.at \in Finished
  BY <1>1, <1>2 DEF Finished
<1>17. \A n \in Names : status[n] # NoStatus => status'[n] # NoStatus
  BY <1>5, <1>7
<1>18. /\ \A n \in Names : status'[n].word = "pass" => status'[n] = status[n]
       /\ \A n \in About(e) : status'[n] = status[n] \/ status'[n].word = "fail" \/ n \in raced'
  BY <1>5, <1>7
<1> QED  BY <1>1, <1>2, <1>9, <1>10, <1>11, <1>12, <1>13, <1>14, <1>15, <1>16, <1>17, <1>18, OneExecution

LEMMA RaiseKeeps ==
    ASSUME SmokeGood, NEW e \in Execution, Raise(e)
    PROVE  SmokeGood'
<1>1. clash' = (clash \/ exec[e].at = "fill")
  BY DEF Raise
<1>2. clash' \in BOOLEAN /\ (clash => clash') /\ (exec[e].at = "fill" => clash')
  BY <1>1
<1>3. run' = run /\ summary' = summary /\ baseline' = baseline /\ first' = first /\ exec[e].at \notin Ended
  BY DEF Raise
<1>4. CASE exec[e].at \in {"preflight", "blocked", "summary"} \cup Failing
  <2>1. Goto(e, "quit") /\ UNCHANGED statusVars
    BY <1>4 DEF Raise
  <2> QED  BY <1>2, <1>3, <2>1, LeaveKeeps
<1>5. CASE exec[e].at \notin {"preflight", "blocked", "summary"} \cup Failing
  <2>1. Fail(e, "fail") /\ "fail" \in Failing
    BY <1>5 DEF Raise, Failing
  <2> QED  BY <1>2, <1>3, <1>5, <2>1, FailKeeps
<1> QED  BY <1>4, <1>5

LEMMA KillKeeps ==
    ASSUME SmokeGood, NEW e \in Execution, Kill(e)
    PROVE  SmokeGood'
<1>1. clash' = (clash \/ exec[e].at = "fill")
  BY DEF Kill
<1>2. clash' \in BOOLEAN /\ (clash => clash') /\ (exec[e].at = "fill" => clash')
  BY <1>1
<1>3. /\ Goto(e, "dead") /\ UNCHANGED statusVars /\ exec[e].at \notin Ended
      /\ run' = run /\ summary' = summary /\ baseline' = baseline /\ first' = first
  BY DEF Kill, statusVars
<1> QED  BY <1>2, <1>3, LeaveKeeps

LEMMA WrongDirectoryKeeps ==
    ASSUME SmokeGood, NEW e \in Execution, WrongDirectory(e)
    PROVE  SmokeGood'
<1>1. /\ Goto(e, "quit") /\ UNCHANGED statusVars /\ exec[e].at = "preflight"
      /\ run' = run /\ summary' = summary /\ baseline' = baseline /\ first' = first
      /\ clash' = clash /\ clash \in BOOLEAN
  BY DEF WrongDirectory, statusVars, SmokeGood, SmokeTypes
<1> QED  BY <1>1, LeaveKeeps DEF Ended

LEMMA SmokeInvariant == SmokeSpec => []SmokeGood
<1>1. SmokeInit => SmokeGood
  <2> SUFFICES ASSUME SmokeInit
               PROVE  SmokeGood
    OBVIOUS
  <2>1. PICK s \in Setting : NotBegun = [at |-> "off", set |-> s, round |-> 1, agent |-> 1, tries |-> 0,
                                         rerun |-> FALSE, risks |-> {}]
    <3>1. \E s \in Setting : s = CHOOSE t \in Setting : TRUE
      BY SmokeAssumption
    <3> QED  BY <3>1 DEF NotBegun
  <2>2. PICK x \in Exec : x = NotBegun
    <3>1. 1 \in 1..MaxRounds /\ "off" \in ExecPhase
      BY DEF MaxRounds, ExecPhase
    <3> QED  BY <2>1, <3>1 DEF Exec
  <2>3. x.at = "off" /\ x.set = s /\ x.round = 1 /\ x.rerun = FALSE /\ x.risks = {}
    BY <2>1, <2>2
  <2>4. exec = [e \in Execution |-> x] /\ \A e \in Execution : exec[e] = x
    BY <2>2 DEF SmokeInit
  <2>5. \A n \in Names : status[n] = NoStatus /\ status[n].word = "none"
    BY DEF SmokeInit, NoStatus
  <2>6. SmokeTypes
    BY <2>4 DEF SmokeInit, SmokeTypes, Missing
  <2>7. s.rounds \in 1..2
    BY SmokeAssumption DEF MaxRounds
  <2>8. ASSUME NEW e \in Execution
        PROVE  RoundInv(e) /\ ExitInv(e) /\ RerunInv(e)
    BY <2>3, <2>4, <2>7 DEF RoundInv, ExitInv, RerunInv, Failing
  <2>9. BaselineInv
    BY <2>3, <2>4 DEF BaselineInv, Creating, SmokeInit, Missing, Torn
  <2>10. SummaryNeverFails
    BY DEF SummaryNeverFails, SmokeInit
  <2> QED  BY <2>5, <2>6, <2>8, <2>9, <2>10 DEF SmokeGood, SmokeInv
<1>2. SmokeGood /\ [SmokeNext]_smokeVars => SmokeGood'
  <2> SUFFICES ASSUME SmokeGood, [SmokeNext]_smokeVars
               PROVE  SmokeGood'
    OBVIOUS
  <2>1. CASE SmokeNext
    BY <2>1, ExecuteKeeps, PreflightKeeps, DispatchKeeps, CheckRunKeeps, EvaluateCoverageKeeps,
       CreateBaselineKeeps, FillBaselineKeeps, JudgeKeeps, ScanKeeps, WriteSummaryKeeps, RaiseKeeps,
       KillKeeps, WriteFailureKeeps, WrongDirectoryKeeps DEF SmokeNext
  <2>2. CASE UNCHANGED smokeVars
    <3>1. /\ exec' = exec /\ run' = run /\ status' = status /\ raced' = raced /\ summary' = summary
          /\ baseline' = baseline /\ first' = first /\ clash' = clash
      BY <2>2 DEF smokeVars
    <3>2. SmokeTypes' /\ SummaryNeverFails'
      BY <3>1 DEF SmokeGood, SmokeInv, SmokeTypes, SummaryNeverFails
    <3>3. BaselineInv'
      BY <3>1 DEF SmokeGood, SmokeInv, BaselineInv, Creating, Given, Claude
    <3>4. ASSUME NEW e \in Execution
          PROVE  RoundInv(e)' /\ ExitInv(e)' /\ RerunInv(e)'
      <4>1. RoundInv(e) /\ ExitInv(e) /\ RerunInv(e)
        BY ExecFact
      <4> QED  BY <3>1, <4>1 DEF RoundInv, ExitInv, RerunInv, SceneD, GatesPass, Claude, Id, Settled,
                                 Given, HighEnough, Name
    <3>5. ASSUME NEW n \in Names, status'[n].word = "pass"
          PROVE  \E e \in Execution, i \in 1..MaxRounds : PassOf(n, e, i)'
      <4>1. PICK e \in Execution, i \in 1..MaxRounds : PassOf(n, e, i)
        BY <3>1, <3>5 DEF SmokeGood, SmokeInv
      <4>2. PassOf(n, e, i)'
        BY <3>1, <4>1 DEF PassOf, Over, Clean, HighEnough
      <4> QED  BY <4>2
    <3> QED  BY <3>2, <3>3, <3>4, <3>5 DEF SmokeGood, SmokeInv
  <2> QED  BY <2>1, <2>2
<1> QED  BY <1>1, <1>2, PTL DEF SmokeSpec

\* What a reader of a smoke test's files concludes has happened: a pass is that of a round
\* in which everything passed, an execution that exits with 0 leaves no failure behind but
\* one that was about to be written, and one that fails in a round or by its arguments leaves
\* a word (smoke_dispatch.py:140-185, 372-620).
THEOREM StatusAlwaysHonest == SmokeSpec => []StatusIsHonest
<1>1. SmokeGood => StatusIsHonest
  <2> SUFFICES ASSUME SmokeGood
               PROVE  StatusIsHonest
    OBVIOUS
  <2>1. PassIsClean
    <3> SUFFICES ASSUME NEW n \in Names, status[n].word = "pass"
                 PROVE  Clean(run[status[n].run])
      BY DEF PassIsClean, Clean
    <3>1. PICK e \in Execution, i \in 1..MaxRounds : PassOf(n, e, i)
      BY DEF SmokeGood, SmokeInv
    <3> QED  BY <3>1 DEF PassOf
  <2>2. ExitAgreesWithStatus
    <3> SUFFICES ASSUME NEW e \in Execution, Claude(e)
                 PROVE  /\ exec[e].at = "passed" =>
                               \A i \in 1..exec[e].round : Settled(NameOf(exec[e].set, i))
                        /\ exec[e].at = "skipped" => Settled(<<exec[e].set.scenario, 0>>)
                        /\ exec[e].at = "failed" =>
                               \E n \in Names : n[1] = exec[e].set.scenario /\ status[n] # NoStatus
      BY DEF ExitAgreesWithStatus, Settled
    <3>1. RoundInv(e) /\ ExitInv(e) /\ exec[e].round \in 1..2 /\ exec[e].set.rounds \in 1..2
      BY ExecFact DEF MaxRounds
    <3>2. \A i \in 1..exec[e].round : i \in 1..exec[e].set.rounds
      BY <3>1 DEF RoundInv
    <3> QED  BY <3>1, <3>2 DEF ExitInv
  <2> QED  BY <2>1, <2>2 DEF StatusIsHonest, SmokeGood, SmokeInv
<1> QED  BY <1>1, SmokeInvariant, PTL

\* The first report sets the bar for good, and the second finds the baseline that the first
\* has created (acceptance.py:150-158, smoke_dispatch.py:454-500).
THEOREM BaselineAlwaysHolds == SmokeSpec => []BaselineHolds
<1>1. SmokeGood => BaselineHolds
  <2> SUFFICES ASSUME SmokeGood
               PROVE  BaselineHolds
    OBVIOUS
  <2>1. FirstReportSetsBar
    <3> SUFFICES ASSUME ~clash, NEW n \in Names, status[n].word = "pass"
                 PROVE  exec[status[n].run[1]].set.coverage >= first
      BY DEF FirstReportSetsBar
    <3>1. PICK e \in Execution, i \in 1..MaxRounds : PassOf(n, e, i)
      BY DEF SmokeGood, SmokeInv
    <3>2. status[n].run[1] = e
      BY <3>1 DEF PassOf
    <3> QED  BY <3>1, <3>2 DEF PassOf, HighEnough
  <2>2. RerunSettles
    <3> SUFFICES ASSUME NEW e \in Execution, exec[e].at = "judge", exec[e].rerun
                 PROVE  "coverage_baseline_created_requires_rerun" \notin exec[e].risks
      BY DEF RerunSettles
    <3> QED  BY ExecFact DEF RerunInv
  <2> QED  BY <2>1, <2>2 DEF BaselineHolds
<1> QED  BY <1>1, SmokeInvariant, PTL

-----------------------------------------------------------------------------
\* Cutting an event out before the last one leaves the last one where the file ends.
LEMMA CutLeavesLast ==
  ASSUME NEW S, NEW s \in Seq(S), NEW n \in 1..(Len(s) - 1)
  PROVE  /\ RemoveAt(s, n) \in Seq(S) /\ Len(RemoveAt(s, n)) = Len(s) - 1
         /\ RemoveAt(s, n)[Len(s) - 1] = s[Len(s)]
         /\ \A j \in 1..(Len(s) - 1) : \E k \in 1..Len(s) : RemoveAt(s, n)[j] = s[k]
<1> DEFINE head == SubSeq(s, 1, n - 1)
           tail == SubSeq(s, n + 1, Len(s))
           all == head \o tail
<1>1. Len(s) \in Nat /\ n \in Nat /\ n >= 1 /\ n < Len(s)
  OBVIOUS
<1>2. /\ head \in Seq(S) /\ Len(head) = n - 1 /\ \A j \in 1..(n - 1) : head[j] = s[j]
  <2>1. \A j \in 1..(n - 1) : j \in 1..Len(s)
    BY <1>1
  <2> QED  BY <1>1, <2>1
<1>3. /\ tail \in Seq(S) /\ Len(tail) = Len(s) - n
      /\ \A j \in 1..(Len(s) - n) : tail[j] = s[n + j]
  <2>1. /\ tail \in Seq(S)
        /\ Len(tail) = IF n + 1 <= Len(s) THEN Len(s) - (n + 1) + 1 ELSE 0
        /\ \A j \in 1..(Len(s) - (n + 1) + 1) : tail[j] = s[n + 1 + j - 1]
    BY <1>1, SubSeqProperties
  <2>2. ASSUME NEW j \in 1..(Len(s) - n)
        PROVE  tail[j] = s[n + j]
    <3>1. j \in 1..(Len(s) - (n + 1) + 1) /\ n + 1 + j - 1 = n + j
      BY <1>1
    <3> QED  BY <2>1, <3>1
  <2> QED  BY <1>1, <2>1, <2>2
<1> HIDE DEF head, tail
<1>4. /\ all \in Seq(S) /\ Len(all) = Len(head) + Len(tail)
      /\ \A j \in 1..Len(all) : all[j] = IF j <= Len(head) THEN head[j] ELSE tail[j - Len(head)]
  <2>1. head \in Seq(S) /\ tail \in Seq(S)
    BY <1>2, <1>3
  <2> QED  BY <2>1, ConcatProperties
<1>5. Len(all) = Len(s) - 1
  BY <1>1, <1>2, <1>3, <1>4
<1>6. ASSUME NEW j \in 1..(Len(s) - 1)
      PROVE  all[j] = IF j < n THEN s[j] ELSE s[j + 1]
  <2>1. j \in 1..Len(all)
    BY <1>5
  <2>2. CASE j < n
    <3>1. j <= Len(head) /\ j \in 1..(n - 1)
      BY <1>1, <1>2, <2>2
    <3> QED  BY <1>2, <1>4, <2>1, <2>2, <3>1
  <2>3. CASE ~(j < n)
    <3>1. ~(j <= Len(head)) /\ j - Len(head) \in 1..(Len(s) - n) /\ n + (j - Len(head)) = j + 1
      BY <1>1, <1>2, <2>3
    <3>2. all[j] = tail[j - Len(head)]
      BY <1>4, <2>1, <3>1
    <3>3. tail[j - Len(head)] = s[n + (j - Len(head))]
      BY <1>3, <3>1
    <3> QED  BY <2>3, <3>1, <3>2, <3>3
  <2> QED  BY <2>2, <2>3
<1>7. \A j \in 1..(Len(s) - 1) : \E k \in 1..Len(s) : all[j] = s[k]
  <2> SUFFICES ASSUME NEW j \in 1..(Len(s) - 1)
               PROVE  \E k \in 1..Len(s) : all[j] = s[k]
    OBVIOUS
  <2>1. j \in 1..Len(s) /\ j + 1 \in 1..Len(s)
    BY <1>1
  <2> QED  BY <1>6, <2>1
<1>8. all[Len(s) - 1] = s[Len(s)]
  <2>1. Len(s) - 1 \in 1..(Len(s) - 1) /\ ~(Len(s) - 1 < n) /\ (Len(s) - 1) + 1 = Len(s)
    BY <1>1
  <2> QED  BY <1>6, <2>1
<1> QED  BY <1>4, <1>5, <1>7, <1>8 DEF RemoveAt, head, tail

\* The hashes of the events of a log, and that they are hashes.
LEMMA HashesFact ==
  ASSUME NEW s \in Seq(Payload), NEW i \in 1..Len(s)
  PROVE  /\ SubSeq(s, 1, i) \in HashOf /\ SubSeq(s, 1, i - 1) \in HashOf
         /\ SubSeq(s, 1, i) # NoHash /\ SubSeq(s, 1, Len(s)) = s
<1>1. PICK n \in Nat : n = Len(s) /\ s \in [1..n -> Payload] /\ i \in 1..n /\ n >= 1
  OBVIOUS
<1>2. s \in Seq(Payload \cup {None})
  <2>1. s \in [1..n -> Payload \cup {None}]
    BY <1>1
  <2> QED  BY <1>1, <2>1
<1>3. \A q \in Seq(Payload \cup {None}), k \in Nat :
         k <= Len(q) => SubSeq(q, 1, k) \in Seq(Payload \cup {None})
  <2>1. ASSUME NEW q \in Seq(Payload \cup {None}), NEW k \in Nat, k <= Len(q)
        PROVE  SubSeq(q, 1, k) \in Seq(Payload \cup {None})
    <3>1. \A j \in 1..k : q[j] \in Payload \cup {None}
      BY <2>1
    <3> QED  BY <2>1, <3>1
  <2> QED  BY <2>1
<1>4. i \in Nat /\ i - 1 \in Nat /\ i <= Len(s) /\ i - 1 <= Len(s)
  BY <1>1
<1>5. SubSeq(s, 1, i)[1] = s[1] /\ s[1] \in Payload
  <2>1. 1 \in 1..i /\ 1 \in 1..n /\ \A j \in 1..i : j \in 1..n
    BY <1>1
  <2> QED  BY <1>1, <2>1
<1>6. NoHash[1] = None
  BY DEF NoHash
<1>7. SubSeq(s, 1, Len(s)) = s
  BY <1>1
<1> QED  BY <1>2, <1>3, <1>4, <1>5, <1>6, <1>7, ReplayAssumption DEF HashOf

LEMMA HashedPartFact ==
  ASSUME logged \in Seq(Payload), legacy \in 0..Len(logged)
  PROVE  /\ HashedPart \in Seq(Payload) /\ Len(HashedPart) = Len(logged) - legacy
         /\ legacy = 0 => HashedPart = logged
<1>1. PICK n \in Nat, l \in Nat : n = Len(logged) /\ l = legacy /\ l <= n
  OBVIOUS
<1>2. l + 1 \in Nat /\ l + 1 \in 1..(n + 1) /\ n \in l..n
  BY <1>1
<1>3. /\ SubSeq(logged, l + 1, n) \in Seq(Payload)
      /\ Len(SubSeq(logged, l + 1, n)) = IF l + 1 <= n THEN n - (l + 1) + 1 ELSE 0
  BY <1>1, <1>2, SubSeqProperties
<1>4. Len(SubSeq(logged, l + 1, n)) = n - l
  BY <1>2, <1>3
<1>5. l = 0 => SubSeq(logged, l + 1, n) = logged
  BY <1>1
<1> QED  BY <1>1, <1>3, <1>4, <1>5 DEF HashedPart

LEMMA ReplayInvInit == ReplayInit => ReplayInv
<1> SUFFICES ASSUME ReplayInit PROVE ReplayInv
  OBVIOUS
<1>1. /\ logged \in BoundedSeq(Payload, MaxLogged) /\ legacy \in 0..Len(logged)
      /\ file.events = Lines /\ file.version \in {"none", "1.0"} /\ file.spelling \in Spelling
      /\ file = [events |-> file.events, version |-> file.version, spelling |-> file.spelling]
      /\ file.version = "none" => legacy = Len(logged)
  <2>1. CASE file = Export /\ legacy = Len(logged)
    BY <2>1 DEF ReplayInit, Export, Spelling
  <2>2. ASSUME NEW sp \in Spelling, file = [Export EXCEPT !.version = "1.0", !.spelling = sp]
        PROVE  <1>1!:
    <3>1. file = [events |-> Lines, version |-> "1.0", spelling |-> sp]
      BY <2>2 DEF Export
    <3> QED  BY <3>1 DEF ReplayInit
  <2> QED  BY <2>1, <2>2 DEF ReplayInit
<1>2. PICK n \in 0..MaxLogged : logged \in [1..n -> Payload]
  BY <1>1 DEF BoundedSeq, SeqOf
<1>3. n \in Nat /\ logged \in Seq(Payload) /\ Len(logged) = n /\ DOMAIN logged = 1..n
      /\ legacy \in 0..n
  BY <1>1, <1>2
<1>4. NoHash \in HashOf
  BY DEF HashOf, NoHash
<1>5. /\ HashedPart \in Seq(Payload) /\ Len(HashedPart) = n - legacy
      /\ legacy = 0 => HashedPart = logged
  BY <1>3, HashedPartFact
<1>6. ASSUME NEW i \in 1..n
      PROVE  /\ Lines[i] \in LogEvent /\ (HasHash(Lines[i]) <=> i > legacy)
             /\ i > legacy => /\ Lines[i].hash = SubSeq(HashedPart, 1, i - legacy)
                              /\ Lines[i].prev = SubSeq(HashedPart, 1, i - legacy - 1)
  <2>1. Lines[i] = IF i <= legacy THEN Plain(logged[i]) ELSE Hashed(HashedPart, i - legacy)
    BY <1>3 DEF Lines
  <2>2. CASE i <= legacy
    <3>1. Lines[i] = Plain(logged[i]) /\ logged[i] \in Payload /\ ~(i > legacy)
      BY <1>2, <1>3, <2>1, <2>2
    <3> QED  BY <1>4, <3>1 DEF Plain, LogEvent, HasHash
  <2>3. CASE ~(i <= legacy)
    <3>1. PICK k \in 1..Len(HashedPart) : k = i - legacy /\ i > legacy
      BY <1>3, <1>5, <2>3
    <3>2. Lines[i] = Hashed(HashedPart, k) /\ HashedPart[k] \in Payload
      BY <1>5, <2>1, <2>3, <3>1
    <3>3. /\ SubSeq(HashedPart, 1, k) \in HashOf /\ SubSeq(HashedPart, 1, k - 1) \in HashOf
          /\ SubSeq(HashedPart, 1, k) # NoHash
      BY <1>5, HashesFact
    <3>4. /\ Lines[i] \in LogEvent /\ HasHash(Lines[i])
          /\ Lines[i].hash = SubSeq(HashedPart, 1, k) /\ Lines[i].prev = SubSeq(HashedPart, 1, k - 1)
      BY <3>2, <3>3 DEF Hashed, LogEvent, HasHash
    <3> QED  BY <3>1, <3>4
  <2> QED  BY <2>2, <2>3
<1>7. Lines \in [1..n -> LogEvent]
  BY <1>3, <1>6 DEF Lines
<1>8. Lines \in Seq(LogEvent) /\ DOMAIN Lines = 1..n /\ Len(Lines) = n
  BY <1>3, <1>7
<1>9. file \in LogFile
  BY <1>1, <1>8 DEF LogFile
<1>10. KeepsHashes => Digested(file.events)
  <2> SUFFICES ASSUME legacy < n
               PROVE  Digested(Lines)
    BY <1>1, <1>3 DEF KeepsHashes
  <2>1. n \in 1..n /\ n > legacy /\ n - legacy = Len(HashedPart) /\ Lines # <<>>
    BY <1>3, <1>5, <1>8
  <2>2. Lines[n].hash = HashedPart
    <3>1. Len(HashedPart) \in 1..Len(HashedPart)
      BY <1>3, <1>5, <2>1
    <3>2. SubSeq(HashedPart, 1, Len(HashedPart)) = HashedPart
      BY <1>5, <3>1, HashesFact
    <3> QED  BY <1>6, <2>1, <3>2
  <2>3. ASSUME legacy = 0, NEW i \in 1..n
        PROVE  /\ HasHash(Lines[i]) /\ Lines[i].prev = SubSeq(logged, 1, i - 1)
               /\ Lines[i].hash = SubSeq(logged, 1, i)
    <3>1. i > legacy /\ i - legacy = i /\ HashedPart = logged
      BY <1>5, <2>3
    <3> QED  BY <1>6, <3>1
  <2> QED  BY <1>3, <1>8, <2>1, <2>2, <2>3 DEF Digested
<1>11. ~KeepsHashes => \A i \in DOMAIN file.events : ~HasHash(file.events[i])
  <2> SUFFICES ASSUME ~KeepsHashes, NEW i \in 1..n
               PROVE  ~HasHash(Lines[i])
    BY <1>1, <1>8
  <2>1. legacy = n
    BY <1>1, <1>3 DEF KeepsHashes
  <2> QED  BY <1>6, <2>1
<1> QED  BY <1>1, <1>3, <1>9, <1>10, <1>11 DEF ReplayInv

LEMMA ReplayInvNext == ReplayInv /\ [ReplayNext]_replayVars => ReplayInv'
<1> SUFFICES ASSUME ReplayInv, [ReplayNext]_replayVars PROVE ReplayInv'
  OBVIOUS
<1> DEFINE lines == file.events
<1>1. /\ file \in LogFile /\ logged \in Seq(Payload) /\ lines \in Seq(LogEvent)
      /\ Len(lines) \in Nat /\ DOMAIN lines = 1..Len(lines) /\ legacy \in 0..Len(logged)
      /\ KeepsHashes => Digested(lines)
      /\ ~KeepsHashes => \A i \in DOMAIN lines : ~HasHash(lines[i])
  BY DEF ReplayInv, LogFile
<1>2. ASSUME Alter PROVE ReplayInv'
  <2>1. PICK i \in DOMAIN lines, p \in Payload : Edit([lines EXCEPT ![i].payload = p])
    BY <1>2 DEF Alter
  <2>2. PICK e \in LogEvent : e = [lines[i] EXCEPT !.payload = p]
    <3>1. lines[i] \in LogEvent
      BY <1>1
    <3> QED  BY <3>1 DEF LogEvent
  <2>3. e.prev = lines[i].prev /\ e.hash = lines[i].hash
    <3>1. lines[i] \in LogEvent
      BY <1>1
    <3> QED  BY <2>2, <3>1 DEF LogEvent
  <2>4. PICK new \in Seq(LogEvent) : new = [lines EXCEPT ![i] = e]
    <3>1. ASSUME NEW S, NEW q \in Seq(S), NEW n \in DOMAIN q, NEW x \in S
          PROVE  [q EXCEPT ![n] = x] \in Seq(S)
      OBVIOUS
    <3>2. [lines EXCEPT ![i] = e] \in Seq(LogEvent)
      BY <1>1, <3>1
    <3> QED  BY <3>2, Zenon
  <2>5. file' = [file EXCEPT !.events = new] /\ logged' = logged /\ legacy' = legacy
    BY <2>1, <2>2, <2>4 DEF Edit
  <2>6. /\ file' \in LogFile /\ file'.events = new
        /\ file'.version = file.version /\ file'.spelling = file.spelling
        /\ KeepsHashes' = KeepsHashes
    BY <1>1, <2>5 DEF LogFile, KeepsHashes
  <2>7. /\ Len(new) = Len(lines) /\ DOMAIN new = DOMAIN lines
        /\ \A j \in DOMAIN lines : /\ new[j].prev = lines[j].prev
                                    /\ new[j].hash = lines[j].hash
    BY <1>1, <2>3, <2>4
  <2>8. (new = <<>> <=> lines = <<>>) /\ HashedPart' = HashedPart
    BY <1>1, <2>5, <2>7 DEF HashedPart
  <2>9. KeepsHashes => Digested(new)'
    <3> SUFFICES ASSUME KeepsHashes
                 PROVE  Digested(new)'
      OBVIOUS
    <3>1. Digested(lines)
      BY <1>1
    <3>2. legacy = 0 => \A j \in DOMAIN new : HasHash(new[j])
      BY <2>7, <3>1 DEF Digested, HasHash
    <3>3. new # <<>> /\ new[Len(new)].hash = HashedPart
      <4>1. Len(lines) \in DOMAIN lines /\ lines # <<>>
        BY <1>1, <3>1 DEF Digested
      <4> QED  BY <2>7, <2>8, <3>1, <4>1 DEF Digested
    <3> QED  BY <2>5, <2>7, <2>8, <3>1, <3>2, <3>3 DEF Digested
  <2>10. ~KeepsHashes => \A j \in DOMAIN new : ~HasHash(new[j])
    BY <1>1, <2>7 DEF HasHash
  <2> QED  BY <1>1, <2>5, <2>6, <2>9, <2>10 DEF ReplayInv
<1>3. ASSUME CutOut PROVE ReplayInv'
  <2>1. PICK i \in 1..(Len(lines) - 1) : Edit(RemoveAt(lines, i))
    BY <1>3 DEF CutOut
  <2>2. PICK new \in Seq(LogEvent) : new = RemoveAt(lines, i)
    <3>1. RemoveAt(lines, i) \in Seq(LogEvent)
      BY <1>1, CutLeavesLast
    <3> QED  BY <3>1, Zenon
  <2>3. /\ Len(new) = Len(lines) - 1 /\ new[Len(lines) - 1] = lines[Len(lines)]
        /\ \A j \in 1..(Len(lines) - 1) : \E k \in 1..Len(lines) : new[j] = lines[k]
    <3>1. /\ Len(RemoveAt(lines, i)) = Len(lines) - 1
          /\ RemoveAt(lines, i)[Len(lines) - 1] = lines[Len(lines)]
          /\ \A j \in 1..(Len(lines) - 1) :
               \E k \in 1..Len(lines) : RemoveAt(lines, i)[j] = lines[k]
      <4>1. lines \in Seq(LogEvent)
        BY <1>1
      <4> HIDE DEF lines
      <4> QED  BY <4>1, CutLeavesLast, Zenon
    <3> QED  BY <2>2, <3>1, Zenon
  <2>4. file' = [file EXCEPT !.events = new] /\ logged' = logged /\ legacy' = legacy
    BY <2>1, <2>2 DEF Edit
  <2>5. /\ file' \in LogFile /\ file'.events = new
        /\ file'.version = file.version /\ file'.spelling = file.spelling
        /\ KeepsHashes' = KeepsHashes
    BY <1>1, <2>4 DEF LogFile, KeepsHashes
  <2>6. DOMAIN new = 1..(Len(lines) - 1) /\ Len(lines) > 1 /\ new # <<>> /\ lines # <<>>
    BY <1>1, <2>3
  <2>7. KeepsHashes => Digested(new)'
    <3> SUFFICES ASSUME KeepsHashes
                 PROVE  Digested(new)'
      OBVIOUS
    <3>1. Digested(lines) /\ HashedPart' = HashedPart
      BY <1>1, <2>4 DEF HashedPart
    <3>2. legacy = 0 => \A j \in DOMAIN new : HasHash(new[j])
      BY <1>1, <2>3, <2>6, <3>1 DEF Digested
    <3>3. new[Len(new)].hash = HashedPart
      BY <2>3, <2>6, <3>1 DEF Digested
    <3>4. Len(logged) \in Nat /\ Len(new) < Len(logged)
      BY <1>1, <2>3, <3>1 DEF Digested
    <3> QED  BY <1>1, <2>3, <2>4, <2>6, <3>1, <3>2, <3>3, <3>4 DEF Digested
  <2>8. ~KeepsHashes => \A j \in DOMAIN new : ~HasHash(new[j])
    BY <1>1, <2>3, <2>6
  <2> QED  BY <1>1, <2>4, <2>5, <2>7, <2>8 DEF ReplayInv
<1>4. ASSUME Migrate, file.spelling = "camel" PROVE ReplayInv'
  <2> DEFINE bare == [i \in DOMAIN lines |-> Strip(lines[i])]
  <2>1. ASSUME NEW i \in DOMAIN lines
        PROVE  bare[i] \in LogEvent /\ ~HasHash(bare[i])
    <3>a. lines[i] \in LogEvent
      BY <1>1
    <3>1. bare[i] = Plain(lines[i].payload) /\ lines[i].payload \in Payload
      BY <3>a DEF Strip, LogEvent
    <3>2. NoHash \in HashOf
      BY DEF NoHash, HashOf
    <3> HIDE DEF bare
    <3> QED  BY <3>1, <3>2 DEF Plain, LogEvent, HasHash
  <2>2. bare \in [1..Len(lines) -> LogEvent]
    BY <1>1, <2>1
  <2>3. PICK new \in Seq(LogEvent) : new = bare
    <3>1. \A u \in [1..Len(lines) -> LogEvent] : u \in Seq(LogEvent)
      BY <1>1
    <3> QED  BY <2>2, <3>1
  <2>4. DOMAIN new = DOMAIN lines /\ \A j \in DOMAIN new : ~HasHash(new[j])
    BY <2>1, <2>3
  <2>5. /\ logged' = logged /\ legacy' = legacy
        /\ file' = [file EXCEPT !.version = "2.0", !.events = new]
    BY <1>4, <2>3 DEF Migrate, StripHashes
  <2>6. file' \in LogFile /\ file'.events = new /\ file'.version = "2.0" /\ file'.spelling = "camel"
    BY <1>1, <1>4, <2>5 DEF LogFile
  <2> QED  BY <1>1, <2>4, <2>5, <2>6 DEF ReplayInv, KeepsHashes
<1>5. ASSUME Migrate, file.spelling # "camel" PROVE ReplayInv'
  <2>1. /\ logged' = logged /\ legacy' = legacy
        /\ file' = [file EXCEPT !.version = "2.0", !.events = lines]
    BY <1>5 DEF Migrate, StripHashes
  <2>2. file' \in LogFile /\ file'.events = lines /\ file'.spelling = file.spelling
    BY <1>1, <2>1 DEF LogFile
  <2>3. KeepsHashes' = KeepsHashes /\ (Digested(lines) => Digested(lines)')
    BY <1>5, <2>1, <2>2 DEF KeepsHashes, Digested, HashedPart
  <2>4. KeepsHashes' => Digested(file.events)'
    BY <1>1, <2>2, <2>3 DEF Digested
  <2> QED  BY <1>1, <2>1, <2>2, <2>3, <2>4 DEF ReplayInv
<1>6. CASE UNCHANGED replayVars
  BY <1>6 DEF replayVars, ReplayInv, Digested, KeepsHashes, HashedPart
<1> QED  BY <1>2, <1>3, <1>4, <1>5, <1>6 DEF ReplayNext

\* What a prefix becomes with one more element of the sequence.
LEMMA PrefixGrows ==
  ASSUME NEW S, NEW s \in Seq(S), NEW n \in 1..Len(s)
  PROVE  /\ Append(SubSeq(s, 1, n - 1), s[n]) = SubSeq(s, 1, n)
         /\ SubSeq(s, 1, 0) = <<>> /\ SubSeq(s, 1, Len(s)) = s
<1>1. Len(s) \in Nat /\ n \in Nat /\ n - 1 \in Nat /\ n <= Len(s) /\ s[n] \in S
  OBVIOUS
<1>2. \A k \in Nat : k <= Len(s) =>
         /\ SubSeq(s, 1, k) \in Seq(S) /\ Len(SubSeq(s, 1, k)) = k
         /\ \A j \in 1..k : SubSeq(s, 1, k)[j] = s[j]
  <2> SUFFICES ASSUME NEW k \in Nat, k <= Len(s)
               PROVE  /\ SubSeq(s, 1, k) \in Seq(S) /\ Len(SubSeq(s, 1, k)) = k
                      /\ \A j \in 1..k : SubSeq(s, 1, k)[j] = s[j]
    OBVIOUS
  <2>1. \A j \in 1..k : s[j] \in S
    BY <1>1
  <2> QED  BY <1>1, <2>1
<1>a. SubSeq(s, 1, n - 1) \in Seq(S) /\ SubSeq(s, 1, n) \in Seq(S)
  <2>1. n - 1 <= Len(s)
    BY <1>1
  <2> QED  BY <1>1, <1>2, <2>1
<1>3. PICK a \in Seq(S) : a = SubSeq(s, 1, n - 1)
  BY <1>a, Zenon
<1>4. PICK b \in Seq(S) : b = SubSeq(s, 1, n)
  BY <1>a, Zenon
<1>5. /\ Len(a) = n - 1 /\ \A j \in 1..(n - 1) : a[j] = s[j]
      /\ Len(b) = n /\ \A j \in 1..n : b[j] = s[j]
  BY <1>1, <1>2, <1>3, <1>4
<1>6. /\ Append(a, s[n]) \in Seq(S) /\ Len(Append(a, s[n])) = n
      /\ \A j \in 1..(n - 1) : Append(a, s[n])[j] = s[j]
      /\ Append(a, s[n])[n] = s[n]
  BY <1>1, <1>5, AppendProperties
<1>7. \A j \in 1..n : Append(a, s[n])[j] = b[j]
  BY <1>1, <1>5, <1>6
<1>8. Append(a, s[n]) = b
  BY <1>5, <1>6, <1>7, SeqEqual
<1> QED  BY <1>1, <1>3, <1>4, <1>8

\* Of events that all have a hash, the previous hash is that of the event before.
LEMMA PreviousOfHashed ==
  ASSUME NEW lines \in Seq(LogEvent), \A j \in DOMAIN lines : HasHash(lines[j]),
         NEW n \in DOMAIN lines
  PROVE  PrevHash(lines, n) = IF n = 1 THEN Genesis ELSE lines[n - 1].hash
<1> DEFINE before == {j \in 1..(n - 1) : HasHash(lines[j])}
<1>1. n \in Nat /\ n >= 1 /\ \A j \in 1..(n - 1) : HasHash(lines[j])
  OBVIOUS
<1>2. before = 1..(n - 1)
  BY <1>1
<1>3. CASE n = 1
  BY <1>2, <1>3 DEF PrevHash, SelectLastInSubSeq
<1>4. CASE n # 1
  <2>1. n - 1 \in 1..(n - 1) /\ \A y \in 1..(n - 1) : n - 1 >= y
    BY <1>1, <1>4
  <2>2. \A x \in 1..(n - 1) : (\A y \in 1..(n - 1) : x >= y) => x = n - 1
    BY <1>1, <2>1
  <2>3. Max(before) = n - 1 /\ before # {}
    BY <1>2, <2>1, <2>2 DEF Max
  <2> QED  BY <1>1, <1>4, <2>3 DEF PrevHash, SelectLastInSubSeq
<1> QED  BY <1>3, <1>4

LEMMA PayloadsAreOf ==
  ASSUME NEW lines \in Seq(LogEvent)
  PROVE  /\ Payloads(lines) \in Seq(Payload) /\ Len(Payloads(lines)) = Len(lines)
         /\ \A j \in DOMAIN lines : Payloads(lines)[j] = lines[j].payload
<1>1. Len(lines) \in Nat /\ DOMAIN lines = 1..Len(lines)
  OBVIOUS
<1>2. \A j \in DOMAIN lines : lines[j].payload \in Payload
  <2> SUFFICES ASSUME NEW j \in DOMAIN lines
               PROVE  lines[j].payload \in Payload
    OBVIOUS
  <2>1. lines[j] \in LogEvent
    OBVIOUS
  <2> QED  BY <2>1 DEF LogEvent
<1> QED  BY <1>1, <1>2 DEF Payloads

\* Of a chain that verifies, each hash digests the payloads up to its event: the first event
\* of which that is not true would follow one of which it is.
LEMMA ChainDigests ==
  ASSUME NEW lines \in Seq(LogEvent), VerifyEventChain(lines)
  PROVE  \A n \in DOMAIN lines : lines[n].hash = SubSeq(Payloads(lines), 1, n)
<1> DEFINE wrong == {n \in DOMAIN lines : lines[n].hash # SubSeq(Payloads(lines), 1, n)}
           less == {pair \in Nat \X Nat : pair[1] < pair[2]}
<1>1. SUFFICES ASSUME wrong # {} PROVE FALSE
  OBVIOUS
<1>2. Len(lines) \in Nat /\ DOMAIN lines = 1..Len(lines) /\ wrong \subseteq Nat
  OBVIOUS
<1>3. PICK n \in wrong : \A m \in wrong : ~(<<m, n>> \in less)
  <2>1. IsWellFoundedOn(less, Nat)
    BY NatLessThanWellFounded, Zenon DEF OpToRel
  <2> HIDE DEF less, wrong
  <2> QED  BY <1>1, <1>2, <2>1, WFMin
<1>4. n \in DOMAIN lines /\ n \in Nat /\ n >= 1 /\ \A m \in wrong : ~(m < n)
  <2>1. n \in Nat
    BY <1>2, <1>3
  <2>2. ASSUME NEW m \in wrong, m < n
        PROVE  FALSE
    <3>1. m \in Nat
      BY <1>2
    <3>2. <<m, n>> \in less
      <4> HIDE DEF wrong
      <4> QED  BY <2>1, <2>2, <3>1
    <3> QED  BY <1>3, <3>2
  <2> QED  BY <1>2, <1>3, <2>1, <2>2
<1>5. /\ Payloads(lines) \in Seq(Payload) /\ Len(Payloads(lines)) = Len(lines)
      /\ Payloads(lines)[n] = lines[n].payload
  BY <1>4, PayloadsAreOf
<1>6. PrevHash(lines, n) = IF n = 1 THEN Genesis ELSE lines[n - 1].hash
  BY <1>4, PreviousOfHashed DEF VerifyEventChain
<1>7. n \in 1..Len(Payloads(lines))
  BY <1>2, <1>4, <1>5
<1>8. PrevHash(lines, n) = SubSeq(Payloads(lines), 1, n - 1)
  <2>1. CASE n = 1
    <3>1. SubSeq(Payloads(lines), 1, 0) = <<>>
      BY <1>5, <1>7, PrefixGrows
    <3> QED  BY <1>6, <2>1, <3>1 DEF Genesis
  <2>2. CASE n # 1
    <3>1. n - 1 \in DOMAIN lines /\ n - 1 < n
      BY <1>2, <1>4, <2>2
    <3> QED  BY <1>4, <1>6, <2>2, <3>1
  <2> QED  BY <2>1, <2>2
<1>9. lines[n].hash = Append(SubSeq(Payloads(lines), 1, n - 1), Payloads(lines)[n])
  BY <1>4, <1>5, <1>8 DEF VerifyEventChain, Follows, ComputeHash
<1>10. lines[n].hash = SubSeq(Payloads(lines), 1, n)
  BY <1>5, <1>7, <1>9, PrefixGrows
<1> QED  BY <1>3, <1>10

\* replay.py:13-83 and schema_migration.py:37-67, for any log and any number of
\* alterations: one that verifies has the payloads that were logged with a hash; one
\* without hashes is reconstructed, and never verifies.
THEOREM ReplayAlwaysSound == ReplaySpec => []ReplayIsSound
<1>1. ReplaySpec => []ReplayInv
  BY ReplayInvInit, ReplayInvNext, PTL DEF ReplaySpec
<1>2. ReplayInv => ReplayIsSound
  <2> SUFFICES ASSUME ReplayInv
               PROVE  ReplayIsSound
    OBVIOUS
  <2> DEFINE lines == file.events
  <2>1. /\ file \in LogFile /\ logged \in Seq(Payload) /\ lines \in Seq(LogEvent)
        /\ Len(lines) \in Nat /\ DOMAIN lines = 1..Len(lines)
    BY DEF ReplayInv, LogFile
  <2>2. /\ Payloads(lines) \in Seq(Payload) /\ Len(Payloads(lines)) = Len(lines)
        /\ \A j \in DOMAIN lines : Payloads(lines)[j] = lines[j].payload
    BY <2>1, PayloadsAreOf
  <2>3. legacy \in 0..Len(logged) /\ Len(logged) \in Nat /\ (KeepsHashes => Digested(lines))
    BY DEF ReplayInv
  <2>4. ASSUME KeepsHashes, VerifyEventChain(lines)
        PROVE  Payloads(lines) = HashedPart
    <3>1. lines # <<>> /\ lines[Len(lines)].hash = HashedPart
      BY <2>3, <2>4 DEF Digested
    <3>2. Len(lines) \in DOMAIN lines
      BY <2>1, <3>1
    <3>3. lines[Len(lines)].hash = SubSeq(Payloads(lines), 1, Len(lines))
      BY <2>1, <2>4, <3>2, ChainDigests
    <3>4. SubSeq(Payloads(lines), 1, Len(Payloads(lines))) = Payloads(lines)
      BY <2>1, <2>2, <3>2, PrefixGrows
    <3> QED  BY <2>2, <3>1, <3>3, <3>4
  <2>5. ASSUME KeepsHashes, legacy = 0, Payloads(lines) = logged
        PROVE  VerifyEventChain(lines)
    <3>1. /\ \A j \in DOMAIN lines : HasHash(lines[j])
          /\ \A j \in DOMAIN lines : /\ lines[j].prev = SubSeq(logged, 1, j - 1)
                                      /\ lines[j].hash = SubSeq(logged, 1, j)
      BY <2>2, <2>3, <2>5 DEF Digested
    <3>2. ASSUME NEW n \in DOMAIN lines
          PROVE  Follows(lines, n)
      <4>1. PrevHash(lines, n) = IF n = 1 THEN Genesis ELSE lines[n - 1].hash
        BY <2>1, <3>1, PreviousOfHashed
      <4>2. n \in 1..Len(logged) /\ n \in Nat /\ lines[n].payload = logged[n]
        BY <2>1, <2>2, <2>5
      <4>3. /\ Append(SubSeq(logged, 1, n - 1), logged[n]) = SubSeq(logged, 1, n)
            /\ SubSeq(logged, 1, 0) = <<>>
        BY <2>1, <4>2, PrefixGrows
      <4>4. PrevHash(lines, n) = SubSeq(logged, 1, n - 1)
        <5>1. CASE n = 1
          BY <4>1, <4>3, <5>1 DEF Genesis
        <5>2. CASE n # 1
          <6>1. n - 1 \in DOMAIN lines
            BY <2>1, <5>2
          <6> QED  BY <3>1, <4>1, <5>2, <6>1
        <5> QED  BY <5>1, <5>2
      <4> QED  BY <3>1, <4>2, <4>3, <4>4 DEF Follows, ComputeHash
    <3> QED  BY <3>1, <3>2 DEF VerifyEventChain
  <2>6. ASSUME KeepsHashes, file.spelling = "camel"
        PROVE  Reconstructs(file) <=> VerifyEventChain(lines)
    <3>1. lines # <<>> /\ lines[Len(lines)].hash = HashedPart
      BY <2>3, <2>6 DEF Digested
    <3>2. Len(lines) \in DOMAIN lines
      BY <2>1, <3>1
    <3>3. HashedPart # NoHash
      <4>1. legacy < Len(logged)
        BY <2>6 DEF KeepsHashes
      <4>2. HashedPart \in Seq(Payload) /\ Len(HashedPart) \in 1..Len(HashedPart)
        BY <2>1, <2>3, <4>1, HashedPartFact
      <4> QED  BY <4>2, HashesFact
    <3>4. HasAnyHash(file)
      BY <2>6, <3>1, <3>2, <3>3 DEF HasAnyHash, HasHash
    <3> QED  BY <3>4 DEF Reconstructs
  <2>7. AlteredLogRejected
    BY <2>4, <2>5, <2>6 DEF AlteredLogRejected
  <2>8. NothingFabricated
    <3> SUFFICES ASSUME ~KeepsHashes, lines # <<>>
                 PROVE  ~VerifyEventChain(lines) /\ Reconstructs(file)
      BY DEF NothingFabricated
    <3>1. \A j \in DOMAIN lines : ~HasHash(lines[j])
      BY DEF ReplayInv
    <3>2. 1 \in DOMAIN lines
      BY <2>1
    <3> QED  BY <3>1, <3>2 DEF VerifyEventChain, Reconstructs, HasAnyHash
  <2> QED  BY <2>7, <2>8 DEF ReplayIsSound
<1> QED  BY <1>1, <1>2, PTL
-----------------------------------------------------------------------------
(***************************************************************************)
(* Types, of all that the steps above leave out.                           *)
(***************************************************************************)
ManifestTypes ==
    /\ manifest \in [final : Seq(Event), timeline : Seq(Event), failures : SUBSET Nat,
                     graph : Nat, written : BOOLEAN]
    /\ jobs \in 0..MaxJobs

LEMMA LastOfFact ==
    ASSUME NEW u \in Seq(Event), NEW type
    PROVE  LastOf(u, type) \in Nat
<1>1. PICK n \in Nat : n = Len(u)
  OBVIOUS
<1>2. PICK I : I = {i \in 1..n : u[i] = type}
  OBVIOUS
<1>3. LastOf(u, type) = IF I # {} THEN Max(I) ELSE 0
  BY <1>1, <1>2 DEF LastOf, SelectLastInSeq
<1>4. ASSUME I # {}
      PROVE  \E m \in I : \A j \in I : m >= j
  <2> DEFINE back == {n - i : i \in I}
             less == {pair \in Nat \X Nat : pair[1] < pair[2]}
  <2>1. back \subseteq Nat /\ back # {}
    BY <1>1, <1>2, <1>4
  <2>2. IsWellFoundedOn(less, Nat)
    BY NatLessThanWellFounded, Zenon DEF OpToRel
  <2>3. PICK d \in back : \A c \in back : ~(<<c, d>> \in less)
    <3> HIDE DEF less, back
    <3> QED  BY <2>1, <2>2, WFMin
  <2>4. PICK m \in I : d = n - m
    BY <2>3
  <2>5. ASSUME NEW j \in I
        PROVE  m >= j
    <3>1. n - j \in back /\ n - j \in Nat /\ n - m \in Nat /\ m \in Nat /\ j \in Nat
      BY <1>1, <1>2
    <3>2. ~(n - j < n - m)
      <4> HIDE DEF back
      <4> QED  BY <2>3, <2>4, <3>1
    <3> QED  BY <1>1, <3>1, <3>2
  <2> QED  BY <2>5
<1>5. ASSUME I # {}
      PROVE  Max(I) \in I
  BY <1>4, <1>5 DEF Max
<1>6. I \subseteq Nat
  BY <1>2
<1>7. CASE I = {}
  BY <1>3, <1>7
<1>8. CASE I # {}
  BY <1>3, <1>5, <1>6, <1>8
<1> QED  BY <1>7, <1>8

LEMMA ManifestStep ==
    ASSUME FilesInv, ManifestTypes, [Next]_vars
    PROVE  ManifestTypes'
<1>1. CASE \E p \in Proc : WriteManifest(p)
  <2>1. PICK p \in Proc : WriteManifest(p)
    BY <1>1
  <2>2. PICK u \in Seq(Event) : u = task[p].events
    BY TaskFact DEF Task
  <2>3. manifest' = ManifestOf(u) /\ jobs' = jobs
    BY <2>1, <2>2 DEF WriteManifest
  <2>4. log \in Seq(Event)
    BY DEF FilesInv, CopyTypes
  <2>5. FailureRecords(u) \subseteq Nat
    BY DEF FailureRecords
  <2>6. LastOf(u, "runtime_chain_graph_sealed") \in Nat
    BY LastOfFact
  <2> QED  BY <2>3, <2>4, <2>5, <2>6 DEF ManifestTypes, ManifestOf, ManifestWith, FinalHash
<1>2. CASE manifest' = manifest /\ (jobs' = jobs \/ (jobs < MaxJobs /\ jobs' = jobs + 1))
  BY <1>2, ArchiveAssumption DEF ManifestTypes
<1> QED
  BY <1>1, <1>2 DEF Next, ArchiveStep, Begin, ReadTable, ReadEvents, WriteArchive, WriteExport, Announce, Die,
     ChangeTable, AppendEvent, vars

\* What archives and exports keep and write has its types, for any number of processes,
\* tables and events.
LEMMA FilesTyped == Spec => []TypeOK
<1>1. Init => ManifestTypes
  <2>1. <<>> \in Seq(Event)
    OBVIOUS
  <2> QED  BY <2>1, ArchiveAssumption DEF Init, NoManifest, ManifestTypes
<1>2. FilesInv /\ ManifestTypes => TypeOK
  BY DEF FilesInv, CopyTypes, Task, ManifestTypes, TypeOK
<1> QED  BY <1>1, <1>2, ManifestStep, FilesInvariant, PTL DEF Spec

StartsBounded == starts \in 0..MaxStarts

\* No more than the bound of starts; the uncommitted are of the one open transaction.
LEMMA StartsTyped == StartupSpec => []StartupTypeOK
<1>1. StartupInit => StartsBounded
  BY StartupAssumption DEF StartupInit, StartsBounded
<1>2. ASSUME StartsBounded, [StartupNext]_startupVars
      PROVE  StartsBounded'
  <2>1. starts' = starts \/ (starts < MaxStarts /\ starts' = starts + 1)
    BY <1>2 DEF StartupNext, Start, RunMigrations, EnsureVersionTable, ReadApplied, CreateTable, AddProviderFields,
       AddColumn, InsertVersion, OpenEvents, EnsureHashColumns, Abort, Apply, startupVars
  <2> QED  BY <1>2, <2>1, StartupAssumption DEF StartsBounded
<1>3. StartsGood /\ StartsBounded => StartupTypeOK
  <2> SUFFICES ASSUME StartsGood, StartsBounded
               PROVE  StartupTypeOK
    OBVIOUS
  <2>1. /\ schema \subseteq Complete /\ versions \subseteq Migration
        /\ \A p, q \in Starter : boot[p].open /\ boot[q].open => p = q
    BY DEF StartsGood, BootTypes, SchemaInv
  <2>2. ASSUME NEW p \in Starter
        PROVE  /\ boot[p].draft \subseteq Complete /\ boot[p].versions \subseteq Migration
               /\ boot[p].draft \cup boot[p].versions # {} => boot[p].open
    <3>1. boot[p] \in Boot /\ Made(boot[p], Sees(p), versions)
      BY BootFact
    <3> QED  BY <3>1 DEF Boot, Made, Complete
  <2> QED  BY <2>1, <2>2 DEF StartupTypeOK, StartsBounded
<1> QED  BY <1>1, <1>2, <1>3, StartsInvariant, PTL DEF StartupSpec

\* What the smoke test's steps leave out of SmokeTypes: whose turn it is, what the runs and
\* the status files hold, and how much may go wrong.
TurnsTyped == \A e \in Execution : exec[e].agent \in DOMAIN Team /\ exec[e].tries \in 0..RetryLimit
RunTyped(r) == r \in [node : [Agents -> {"todo", "ready", "pass", "fail", "agent_unavailable"}],
                      events : SUBSET Trouble, usage : SUBSET {"claude_cli", "fake_cli"}]
PapersTyped == /\ run \in [RunId -> [node : [Agents -> {"todo", "ready", "pass", "fail", "agent_unavailable"}],
                                     events : SUBSET Trouble, usage : SUBSET {"claude_cli", "fake_cli"}]]
               /\ status \in [Names -> [word : {"none", "pass", "fail", "environment_blocked"},
                                        run : RunId \cup {<<>>}]]
               /\ DOMAIN summary \subseteq Names /\ raced \subseteq Names
               /\ faults \in 0..MaxFaults
RestTyped == TurnsTyped /\ PapersTyped

LEMMA TeamFact ==
    /\ Len(Team) \in Nat \ {0} /\ DOMAIN Team = 1..Len(Team)
    /\ \A i \in DOMAIN Team : Team[i] \in Agents
<1>1. Team \in Seq(Agents) /\ Team # <<>>
  BY SmokeAssumption
<1> HIDE DEF Agents
<1> QED  BY <1>1

LEMMA SameTurn ==
    ASSUME SmokeGood, TurnsTyped, NEW e \in Execution, NEW x, exec' = [exec EXCEPT ![e] = x],
           x.agent \in DOMAIN Team, x.tries \in 0..RetryLimit
    PROVE  TurnsTyped'
BY DEF TurnsTyped, SmokeGood, SmokeTypes

\* A session of an execution and its result.
LEMMA ResultTyped ==
    ASSUME NEW e \in Execution, NEW o, exec[e].set.provider \in {"fake_cli", "claude_cli"}
    PROVE  /\ NodeAfter(o) \in {"todo", "ready", "pass", "fail", "agent_unavailable"}
           /\ EventsAfter(o) \subseteq Trouble
           /\ UsageAfter(e, o) \subseteq {"claude_cli", "fake_cli"}
<1>1. EventsAfter(o) \subseteq Trouble
  <2>1. CASE o = "rate_limited"
    <3>1. EventsAfter(o) = {"provider_rate_limited", "provider_blocked"}
      BY <2>1 DEF EventsAfter
    <3> QED  BY <3>1 DEF Trouble
  <2>2. CASE o = "timeout"
    <3>1. EventsAfter(o) = {"agent_timeout"}
      BY <2>2 DEF EventsAfter
    <3> QED  BY <3>1 DEF Trouble
  <2>3. CASE o \notin {"rate_limited", "timeout"}
    <3>1. EventsAfter(o) = {}
      BY <2>3 DEF EventsAfter
    <3> QED  BY <3>1
  <2> QED  BY <2>1, <2>2, <2>3
<1>2. NodeAfter(o) \in {"todo", "ready", "pass", "fail", "agent_unavailable"}
  BY DEF NodeAfter
<1>3. UsageAfter(e, o) \subseteq {"claude_cli", "fake_cli"}
  BY DEF UsageAfter
<1> QED  BY <1>1, <1>2, <1>3

LEMMA DispatchTyped ==
    ASSUME SmokeGood, RestTyped, NEW e \in Execution, NEW o \in Outcome, Dispatch(e, o)
    PROVE  RestTyped'
<1> DEFINE x == exec[e]
           a == Team[x.agent]
           r == run[Id(e)]
           word == IF Again(e, o) THEN "ready" ELSE NodeAfter(o)
           node == [r.node EXCEPT ![a] = word]
           events2 == r.events \cup EventsAfter(o)
           usage2 == r.usage \cup UsageAfter(e, o)
           new == [r EXCEPT !.node = node, !.events = events2, !.usage = usage2]
<1>1. /\ x \in Exec /\ Id(e) \in RunId /\ x.set.provider \in {"fake_cli", "claude_cli"}
      /\ x.agent \in DOMAIN Team /\ x.tries \in 0..RetryLimit /\ RetryLimit \in Nat
  BY ExecFact, SmokeAssumption DEF RestTyped, TurnsTyped
<1>2. RunTyped(r) /\ a \in Agents
  BY <1>1, TeamFact DEF RestTyped, PapersTyped, RunTyped
<1>3. run' = [run EXCEPT ![Id(e)] = new] /\ UNCHANGED <<status, raced, summary, faults>>
  BY DEF Dispatch
<1>4. EventsAfter(o) \subseteq Trouble /\ UsageAfter(e, o) \subseteq {"claude_cli", "fake_cli"}
  BY <1>1, ResultTyped
<1>5. word \in {"todo", "ready", "pass", "fail", "agent_unavailable"}
  <2>1. CASE Again(e, o)
    BY <2>1
  <2>2. CASE ~Again(e, o)
    <3>1. word = NodeAfter(o)
      BY <2>2
    <3> HIDE DEF word
    <3> QED  BY <1>1, <3>1, ResultTyped
  <2> QED  BY <2>1, <2>2
<1>6. RunTyped(new)
  <2> HIDE DEF r, a, x, word
  <2>1. node \in [Agents -> {"todo", "ready", "pass", "fail", "agent_unavailable"}]
    BY <1>2, <1>5 DEF RunTyped
  <2>2. events2 \subseteq Trouble /\ usage2 \subseteq {"claude_cli", "fake_cli"}
    BY <1>2, <1>4 DEF RunTyped
  <2> HIDE DEF node, events2, usage2
  <2> QED  BY <1>2, <2>1, <2>2 DEF RunTyped
<1>7. PapersTyped'
  <2> HIDE DEF new
  <2> QED  BY <1>1, <1>3, <1>6 DEF RestTyped, PapersTyped, RunTyped
<1>8. PICK m \in Nat : m = x.tries + 1
  BY <1>1
<1>9. PICK n \in Nat : n = x.agent + 1
  BY <1>1, TeamFact
<1>10. 0 \in 0..RetryLimit /\ 1 \in DOMAIN Team
  BY <1>1, TeamFact
<1>11. PICK y : /\ exec' = [exec EXCEPT ![e] = y]
                /\ y.agent \in DOMAIN Team /\ y.tries \in 0..RetryLimit
  <2>1. CASE Again(e, o)
    <3>1. PICK y : y = [x EXCEPT !.tries = m]
      OBVIOUS
    <3>2. exec' = [exec EXCEPT ![e] = y]
      BY <2>1, <1>8, <3>1 DEF Dispatch, Move
    <3>3. m \in 0..RetryLimit
      BY <1>1, <1>8, <2>1 DEF Again
    <3>4. y.agent = x.agent /\ y.tries = m
      BY <1>1, <3>1 DEF Exec
    <3> QED  BY <1>1, <3>2, <3>3, <3>4
  <2>2. CASE ~Again(e, o) /\ x.agent < Len(Team)
    <3>1. PICK y : y = [x EXCEPT !.agent = n, !.tries = 0]
      OBVIOUS
    <3>2. exec' = [exec EXCEPT ![e] = y]
      BY <2>2, <1>9, <3>1 DEF Dispatch, Move
    <3>3. n \in DOMAIN Team
      BY <1>1, <1>9, <2>2, TeamFact
    <3>4. y.agent = n /\ y.tries = 0
      BY <1>1, <3>1 DEF Exec
    <3> HIDE DEF x
    <3> QED  BY <1>10, <3>2, <3>3, <3>4
  <2>3. CASE ~Again(e, o) /\ ~(x.agent < Len(Team))
    <3>1. PICK y : y = [x EXCEPT !.at = "check", !.agent = 1, !.tries = 0]
      OBVIOUS
    <3>2. exec' = [exec EXCEPT ![e] = y]
      BY <2>3, <3>1 DEF Dispatch, Move
    <3>3. y.agent = 1 /\ y.tries = 0
      BY <1>1, <3>1 DEF Exec
    <3> HIDE DEF x
    <3> QED  BY <1>10, <3>2, <3>3
  <2> QED  BY <2>1, <2>2, <2>3
<1>12. TurnsTyped'
  BY <1>11, SameTurn DEF RestTyped
<1> QED  BY <1>7, <1>12 DEF RestTyped

\* A status file: who wrote it, and what it says.
LEMMA WriteTyped ==
    ASSUME SmokeGood, PapersTyped, NEW name \in Names, NEW id \in RunId \cup {<<>>},
           NEW w \in {"pass", "fail", "environment_blocked"}, Write(name, w, id), raced' \subseteq Names,
           run' = run, summary' = summary, faults' \in 0..MaxFaults
    PROVE  PapersTyped'
<1>1. PICK c : c = [word |-> w, run |-> id]
  OBVIOUS
<1>2. c \in [word : {"none", "pass", "fail", "environment_blocked"}, run : RunId \cup {<<>>}]
  BY <1>1
<1>3. status' = [status EXCEPT ![name] = c]
  BY <1>1 DEF Write
<1> QED  BY <1>2, <1>3 DEF PapersTyped

\* A step that only says where an execution goes on.
LEMMA GotoTyped ==
    ASSUME SmokeGood, TurnsTyped, NEW e \in Execution, NEW at, Goto(e, at)
    PROVE  TurnsTyped'
<1>1. exec[e] \in Exec /\ exec[e].agent \in DOMAIN Team /\ exec[e].tries \in 0..RetryLimit
  BY ExecFact DEF TurnsTyped
<1>2. PICK x : x = [exec[e] EXCEPT !.at = at]
  OBVIOUS
<1>3. exec' = [exec EXCEPT ![e] = x]
  BY <1>2 DEF Goto, Move
<1>4. x.agent = exec[e].agent /\ x.tries = exec[e].tries
  BY <1>1, <1>2 DEF Exec
<1> QED  BY <1>1, <1>3, <1>4, SameTurn

LEMMA FailTyped ==
    ASSUME SmokeGood, RestTyped, NEW e \in Execution, NEW at, Fail(e, at),
           run' = run, summary' = summary, faults' \in 0..MaxFaults
    PROVE  RestTyped'
<1>1. PICK a : a = IF ~Claude(e) \/ Stays(Name(e), "fail") THEN "failed" ELSE at
  OBVIOUS
<1>2. Goto(e, a) /\ status' = status /\ raced' = raced
  BY <1>1 DEF Fail, statusVars
<1>3. TurnsTyped'
  BY <1>2, GotoTyped DEF RestTyped
<1> QED  BY <1>2, <1>3 DEF RestTyped, PapersTyped

LEMMA WriteFailureTyped ==
    ASSUME SmokeGood, RestTyped, NEW e \in Execution, WriteFailure(e)
    PROVE  RestTyped'
<1>1. /\ Goto(e, "failed") /\ Write(Name(e), "fail", Id(e)) /\ raced' = raced
      /\ run' = run /\ summary' = summary /\ faults' = faults
  BY DEF WriteFailure
<1>2. TurnsTyped'
  BY <1>1, GotoTyped DEF RestTyped
<1>3. Name(e) \in Names /\ Id(e) \in RunId \cup {<<>>}
  BY ExecFact
<1>4. PapersTyped /\ raced \subseteq Names /\ faults \in 0..MaxFaults
  BY DEF RestTyped, PapersTyped
<1>5. PapersTyped'
  BY <1>1, <1>3, <1>4, WriteTyped
<1> QED  BY <1>2, <1>5 DEF RestTyped

\* A step after which the execution's record differs, but not in whose turn it is.
LEMMA OtherTyped ==
    ASSUME SmokeGood, RestTyped, NEW e \in Execution, NEW x, Move(e, x), x.agent = exec[e].agent,
           x.tries = exec[e].tries, run' = run, UNCHANGED statusVars, summary' = summary, faults' = faults
    PROVE  RestTyped'
<1>1. exec' = [exec EXCEPT ![e] = x] /\ exec[e].agent \in DOMAIN Team /\ exec[e].tries \in 0..RetryLimit
  BY DEF Move, RestTyped, TurnsTyped
<1>2. TurnsTyped'
  BY <1>1, SameTurn DEF RestTyped
<1>3. PapersTyped'
  BY DEF RestTyped, PapersTyped, statusVars
<1> QED  BY <1>2, <1>3 DEF RestTyped

\* A step to the next round, or out of the last one.
LEMMA NextRoundTyped ==
    ASSUME SmokeGood, TurnsTyped, NEW e \in Execution, NextRound(e)
    PROVE  \E x : /\ Move(e, x) /\ x.agent = exec[e].agent /\ x.tries = exec[e].tries
<1>1. exec[e] \in Exec 
  BY ExecFact
<1>2. PICK n : n = exec[e].round + 1
  OBVIOUS
<1>3. PICK at : at = IF Claude(e) THEN "summary" ELSE "passed"
  OBVIOUS
<1>4. CASE exec[e].round < exec[e].set.rounds
  <2>1. PICK x : x = [exec[e] EXCEPT !.at = "team", !.round = n, !.rerun = FALSE, !.risks = {}]
    OBVIOUS
  <2>2. Move(e, x)
    BY <1>2, <1>4, <2>1 DEF NextRound, Move
  <2>3. x.agent = exec[e].agent /\ x.tries = exec[e].tries
    BY <1>1, <2>1 DEF Exec
  <2> QED  BY <2>2, <2>3
<1>5. CASE ~(exec[e].round < exec[e].set.rounds)
  <2>1. PICK x : x = [exec[e] EXCEPT !.at = at, !.risks = {}]
    OBVIOUS
  <2>2. Move(e, x)
    BY <1>3, <1>5, <2>1 DEF NextRound, Move
  <2>3. x.agent = exec[e].agent /\ x.tries = exec[e].tries
    BY <1>1, <2>1 DEF Exec
  <2> QED  BY <2>2, <2>3
<1> QED  BY <1>4, <1>5

LEMMA PreflightTyped ==
    ASSUME SmokeGood, RestTyped, NEW e \in Execution, Preflight(e)
    PROVE  RestTyped'
<1>1. run' = run /\ summary' = summary /\ faults' = faults /\ faults \in 0..MaxFaults
  BY DEF Preflight, RestTyped, PapersTyped
<1>2. CASE Fail(e, "refuse")
  BY <1>1, <1>2, FailTyped
<1>3. CASE Goto(e, "team") /\ UNCHANGED statusVars
  <2>1. TurnsTyped'
    BY <1>3, GotoTyped DEF RestTyped
  <2> QED  BY <1>1, <1>3, <2>1 DEF RestTyped, PapersTyped, statusVars
<1>4. CASE Goto(e, "blocked") /\ WriteStatus(e, Name(e), "environment_blocked", <<>>)
  <2>1. TurnsTyped'
    BY <1>4, GotoTyped DEF RestTyped
  <2>2. PapersTyped'
    <3>1. Name(e) \in Names /\ <<>> \in RunId \cup {<<>>}
      BY ExecFact
    <3>2. Write(Name(e), "environment_blocked", <<>>) /\ PapersTyped
      BY <1>4 DEF WriteStatus, RestTyped
    <3>3. raced' \subseteq Names
      BY <1>4, <3>1 DEF WriteStatus, RestTyped, PapersTyped
    <3> QED  BY <1>1, <3>1, <3>2, <3>3, WriteTyped
  <2> QED  BY <2>1, <2>2 DEF RestTyped
<1> QED  BY <1>2, <1>3, <1>4 DEF Preflight

\* The steps of a report, and what the script makes of it.
LEMMA ReportTyped ==
    ASSUME SmokeGood, RestTyped, NEW e \in Execution,
           CheckRun(e) \/ EvaluateCoverage(e) \/ CreateBaseline(e) \/ FillBaseline(e) \/ Judge(e)
    PROVE  RestTyped'
<1>1. /\ run' = run /\ summary' = summary /\ faults' = faults /\ faults \in 0..MaxFaults
      /\ exec[e] \in Exec
  BY ExecFact DEF CheckRun, EvaluateCoverage, CreateBaseline, FillBaseline, Judge, RestTyped, PapersTyped
<1>2. CASE Fail(e, "fail")
  BY <1>1, <1>2, FailTyped
<1>3. ASSUME NEW at, Goto(e, at), UNCHANGED statusVars
      PROVE  RestTyped'
  <2>1. TurnsTyped'
    BY <1>3, GotoTyped DEF RestTyped
  <2> QED  BY <1>1, <1>3, <2>1 DEF RestTyped, PapersTyped, statusVars
<1>4. ASSUME NEW risks, Move(e, Reported(e, risks)), UNCHANGED statusVars
      PROVE  RestTyped'
  <2>1. PICK x : x = [exec[e] EXCEPT !.at = "judge", !.risks = risks]
    OBVIOUS
  <2>2. Move(e, x)
    BY <1>4, <2>1 DEF Move, Reported
  <2>3. x.agent = exec[e].agent /\ x.tries = exec[e].tries
    BY <1>1, <2>1 DEF Exec
  <2> QED  BY <1>1, <1>4, <2>2, <2>3, OtherTyped
<1>5. CASE NextRound(e) /\ UNCHANGED statusVars
  <2>1. PICK x : Move(e, x) /\ x.agent = exec[e].agent /\ x.tries = exec[e].tries
    BY <1>5, NextRoundTyped DEF RestTyped
  <2> QED  BY <1>1, <1>5, <2>1, OtherTyped
<1>6. CASE /\ Move(e, [exec[e] EXCEPT !.at = "report", !.rerun = TRUE, !.risks = {}])
           /\ UNCHANGED statusVars
  <2>1. PICK x : x = [exec[e] EXCEPT !.at = "report", !.rerun = TRUE, !.risks = {}]
    OBVIOUS
  <2>2. Move(e, x)
    BY <1>6, <2>1 DEF Move
  <2>3. x.agent = exec[e].agent /\ x.tries = exec[e].tries
    BY <1>1, <2>1 DEF Exec
  <2> QED  BY <1>1, <1>6, <2>2, <2>3, OtherTyped
<1>7. CASE CheckRun(e)
  BY <1>2, <1>3, <1>7 DEF CheckRun
<1>8. CASE EvaluateCoverage(e)
  BY <1>2, <1>3, <1>4, <1>8 DEF EvaluateCoverage
<1>9. CASE CreateBaseline(e)
  BY <1>3, <1>9 DEF CreateBaseline, statusVars
<1>10. CASE FillBaseline(e)
  BY <1>4, <1>10 DEF FillBaseline, statusVars
<1>11. CASE Judge(e)
  BY <1>2, <1>3, <1>5, <1>6, <1>11 DEF Judge
<1> QED  BY <1>7, <1>8, <1>9, <1>10, <1>11

LEMMA ScanTyped ==
    ASSUME SmokeGood, RestTyped, NEW e \in Execution, Scan(e)
    PROVE  RestTyped'
<1>1. run' = run /\ summary' = summary /\ faults' = faults /\ faults \in 0..MaxFaults
  BY DEF Scan, RestTyped, PapersTyped
<1>2. CASE Fail(e, "fail")
  BY <1>1, <1>2, FailTyped
<1>3. CASE NextRound(e) /\ WriteStatus(e, Name(e), "pass", Id(e))
  <2>1. PICK x : Move(e, x) /\ x.agent = exec[e].agent /\ x.tries = exec[e].tries
    BY <1>3, NextRoundTyped DEF RestTyped
  <2>2. TurnsTyped'
    <3>1. exec' = [exec EXCEPT ![e] = x] /\ exec[e].agent \in DOMAIN Team /\ exec[e].tries \in 0..RetryLimit
      BY <2>1 DEF Move, RestTyped, TurnsTyped
    <3> QED  BY <2>1, <3>1, SameTurn DEF RestTyped
  <2>3. Name(e) \in Names /\ Id(e) \in RunId \cup {<<>>}
    BY ExecFact
  <2>4. PapersTyped'
    <3>1. Write(Name(e), "pass", Id(e)) /\ PapersTyped
      BY <1>3 DEF WriteStatus, RestTyped
    <3>2. raced' \subseteq Names
      BY <1>3, <2>3 DEF WriteStatus, RestTyped, PapersTyped
    <3> QED  BY <1>1, <2>3, <3>1, <3>2, WriteTyped
  <2> QED  BY <2>2, <2>4 DEF RestTyped
<1> QED  BY <1>2, <1>3 DEF Scan

\* The summary has names of status files only.
LEMMA SummaryTyped ==
    ASSUME SmokeGood, RestTyped, NEW e \in Execution, WriteSummary(e)
    PROVE  RestTyped'
<1>1. PICK at : Goto(e, at)
  BY DEF WriteSummary
<1>2. TurnsTyped'
  BY <1>1, GotoTyped DEF RestTyped
<1>3. Covered(e) \subseteq Names
  <2>1. exec[e].set.rounds \in 1..2 /\ 1..MaxRounds = 1..2
    BY ExecFact DEF MaxRounds
  <2>2. \A i \in 1..exec[e].set.rounds : i \in 1..MaxRounds
    BY <2>1
  <2>3. \A i \in 1..exec[e].set.rounds : NameOf(exec[e].set, i) \in Names
    BY <2>2, ExecFact
  <2>4. <<exec[e].set.scenario, 0>> \in Names
    BY ExecFact
  <2> QED  BY <2>3, <2>4 DEF Covered
<1>4. DOMAIN summary' \subseteq Names
  <2>1. DOMAIN summary' = {m \in Covered(e) : status[m] # NoStatus}
    BY DEF WriteSummary
  <2> QED  BY <1>3, <2>1
<1>5. run' = run /\ status' = status /\ raced' = raced /\ faults' = faults
  BY DEF WriteSummary
<1> QED  BY <1>2, <1>4, <1>5 DEF RestTyped, PapersTyped

LEMMA FaultTyped ==
    ASSUME SmokeGood, RestTyped, NEW e \in Execution, Raise(e) \/ Kill(e) \/ WrongDirectory(e)
    PROVE  RestTyped'
<1>1. run' = run /\ summary' = summary
  BY DEF Raise, Kill, WrongDirectory
<1>2. faults' \in 0..MaxFaults
  <2>1. /\ faults \in 0..MaxFaults /\ MaxFaults \in Nat
        /\ faults' = faults \/ (faults < MaxFaults /\ faults' = faults + 1)
    BY SmokeAssumption DEF Raise, Kill, WrongDirectory, RestTyped, PapersTyped
  <2> QED  BY <2>1
<1>3. CASE Fail(e, "fail")
  BY <1>1, <1>2, <1>3, FailTyped
<1>4. CASE \E at : Goto(e, at) /\ UNCHANGED statusVars
  <2>1. TurnsTyped'
    BY <1>4, GotoTyped DEF RestTyped
  <2> QED  BY <1>1, <1>2, <1>4, <2>1 DEF RestTyped, PapersTyped, statusVars
<1> QED  BY <1>3, <1>4 DEF Raise, Kill, WrongDirectory, statusVars

LEMMA ExecuteTyped ==
    ASSUME SmokeGood, RestTyped, NEW e \in Execution, NEW set \in Setting, Execute(e, set)
    PROVE  RestTyped'
<1>1. /\ run' = run /\ UNCHANGED statusVars /\ summary' = summary /\ faults' = faults
      /\ exec[e] \in Exec
  BY ExecFact DEF Execute, statusVars
<1>2. PICK at : at = IF set.provider = "fake_cli" THEN "team" ELSE "preflight"
  OBVIOUS
<1>3. PICK x : x = [exec[e] EXCEPT !.set = set, !.at = at]
  OBVIOUS
<1>4. Move(e, x)
  BY <1>2, <1>3 DEF Execute, Move
<1>5. x.agent = exec[e].agent /\ x.tries = exec[e].tries
  BY <1>1, <1>3 DEF Exec
<1> QED  BY <1>1, <1>4, <1>5, OtherTyped

\* The smoke test's records have their types, for any number of executions, agents and faults.
LEMMA SmokeTyped == SmokeSpec => []SmokeTypeOK
<1>1. SmokeInit => RestTyped
  <2> SUFFICES ASSUME SmokeInit
               PROVE  RestTyped
    OBVIOUS
  <2>1. NotBegun.agent = 1 /\ NotBegun.tries = 0
    BY DEF NotBegun
  <2>2. 1 \in DOMAIN Team /\ 0 \in 0..RetryLimit /\ 0 \in 0..MaxFaults
    BY TeamFact, SmokeAssumption
  <2>3. TurnsTyped
    <3> HIDE DEF NotBegun
    <3> QED  BY <2>1, <2>2 DEF SmokeInit, TurnsTyped
  <2>4. DOMAIN summary = {}
    <3>1. summary = <<>>
      BY DEF SmokeInit
    <3> QED  BY <3>1
  <2>5. RunTyped(NewRun)
    BY DEF RunTyped, NewRun
  <2>6. NoStatus \in [word : {"none", "pass", "fail", "environment_blocked"}, run : RunId \cup {<<>>}]
    BY DEF NoStatus
  <2>7. PapersTyped
    BY <2>2, <2>4, <2>5, <2>6 DEF SmokeInit, PapersTyped, RunTyped
  <2> QED  BY <2>3, <2>7 DEF RestTyped
<1>2. SmokeGood /\ RestTyped /\ [SmokeNext]_smokeVars => RestTyped'
  <2> SUFFICES ASSUME SmokeGood, RestTyped, [SmokeNext]_smokeVars
               PROVE  RestTyped'
    OBVIOUS
  <2>1. CASE SmokeNext
    BY <2>1, ExecuteTyped, PreflightTyped, DispatchTyped, ReportTyped, ScanTyped, SummaryTyped, FaultTyped,
       WriteFailureTyped DEF SmokeNext
  <2>2. CASE UNCHANGED smokeVars
    BY <2>2 DEF smokeVars, RestTyped, TurnsTyped, PapersTyped
  <2> QED  BY <2>1, <2>2
<1>3. SmokeGood /\ RestTyped => SmokeTypeOK
  <2> SUFFICES ASSUME SmokeGood, RestTyped
               PROVE  SmokeTypeOK
    OBVIOUS
  <2> DEFINE Phases == Ended \cup Failing \cup {"preflight", "blocked", "team", "check", "report", "create",
                                   "fill", "judge", "scan", "summary"}
             Row == [at : Phases, set : Setting, round : 1..MaxRounds, agent : DOMAIN Team,
                     tries : 0..RetryLimit, rerun : BOOLEAN, risks : SUBSET Risk]
  <2>1. ExecPhase \subseteq Phases
    BY DEF ExecPhase, Finished, Ended
  <2>2. ASSUME NEW e \in Execution
        PROVE  exec[e] \in Row
    <3>1. exec[e] \in Exec /\ exec[e].agent \in DOMAIN Team /\ exec[e].tries \in 0..RetryLimit
      BY <2>2, ExecFact DEF RestTyped, TurnsTyped
    <3> HIDE DEF Phases
    <3> QED  BY <2>1, <3>1 DEF Exec
  <2>3. exec \in [Execution -> Row]
    <3> HIDE DEF Row
    <3>1. exec = [e \in Execution |-> exec[e]]
      BY DEF SmokeGood, SmokeTypes
    <3> QED  BY <2>2, <3>1
  <2>4. baseline \in Nat /\ first \in Nat /\ clash \in BOOLEAN
    BY DEF SmokeGood, SmokeTypes
  <2> QED  BY <2>3, <2>4 DEF SmokeTypeOK, RestTyped, PapersTyped
<1> QED  BY <1>1, <1>2, <1>3, SmokeInvariant, PTL DEF SmokeSpec

\* Archives and manifests, the database's schema and who starts on it, and the files of the
\* smoke test have their types in every state, for any number of processes, starts and
\* executions, whichever of the modules' steps come between.
THEOREM RecordsAlwaysTyped == PartsSpec => []RecordsTypeOK
<1>1. PartsInit => Init /\ StartupInit /\ SmokeInit
  BY DEF PartsInit
<1>2. [PartsNext]_partsVars => [Next]_vars /\ [StartupNext]_startupVars /\ [SmokeNext]_smokeVars
  <2>1. ASSUME UNCHANGED partsVars
        PROVE  UNCHANGED vars /\ UNCHANGED startupVars /\ UNCHANGED smokeVars
    BY <2>1 DEF partsVars
  <2>2. ASSUME PartsNext
        PROVE  (Next \/ UNCHANGED vars) /\ (StartupNext \/ UNCHANGED startupVars)
               /\ (SmokeNext \/ UNCHANGED smokeVars)
    BY <2>2 DEF PartsNext, Others
  <2> QED  BY <2>1, <2>2
<1>3. PartsSpec => Spec /\ StartupSpec /\ SmokeSpec
  BY <1>1, <1>2, PTL DEF PartsSpec, Spec, StartupSpec, SmokeSpec
<1>4. TypeOK /\ StartupTypeOK /\ SmokeTypeOK => RecordsTypeOK
  BY DEF RecordsTypeOK
<1> QED  BY <1>3, <1>4, FilesTyped, StartsTyped, SmokeTyped, PTL
=============================================================================
