----------------------------- MODULE EventStore -----------------------------
(***************************************************************************)
(* squad_runtime/event_store.py: the SQLite event table with its per-run   *)
(* hash chain, and the NDJSON file that mirrors it.                        *)
(*                                                                         *)
(* Every CLI command and every API request builds a Runtime, hence an      *)
(* EventStore with a connection of its own, so several processes run these *)
(* steps at once, and each may be killed between any two of them.  A step  *)
(* is one SQL statement or one file operation.                             *)
(*                                                                         *)
(* Hashes are taken to be collision free: the hash of a payload is the     *)
(* payload, and the hash of (previous hash, payload) is the sequence that  *)
(* extends the previous one.  A line of the mirror is the key of its row,  *)
(* or damaged: a piece of a line at the end of the file, where a write was *)
(* cut short, or a line that nobody can read.                              *)
(***************************************************************************)
EXTENDS Naturals, Sequences, FiniteSets, SequencesExt

CONSTANTS Proc,       \* processes and threads that open the store
          RunOrder,   \* the run identifiers in the order SQLite sorts them
          System,     \* the run "system", which receives consistency warnings
          Payload,    \* payloads of ordinary events
          Warning,    \* payload of an event_store_consistency_warning
          Torn,       \* a piece of a line, without the newline that ends it
          Garbled,    \* a line that is not the line of a row
          MaxSeq,     \* bound: no append starts on a run with MaxSeq events
          MaxLegacy   \* bound: rows an older version may have left per run

Run     == Range(RunOrder)
Event   == Payload \cup {Warning}
Genesis == << >>

ASSUME StoreAssumption ==
    /\ RunOrder \in Seq(Run)
    /\ System \in Run
    /\ Warning \notin Payload
    /\ Torn \notin Run \X Nat /\ Garbled \notin Run \X Nat /\ Torn # Garbled
    /\ MaxSeq \in Nat
    /\ MaxLegacy \in Nat

VARIABLES rows,    \* rows[r] maps the sequence numbers of run r to its rows
          mirror,  \* events.ndjson, as the sequence of its lines
          pc,      \* what each process does next
          draft,   \* the event each process is appending
          seen,    \* the COUNT of the table that a starting process has read
          dump,    \* the lines a rebuilding process has selected from the table
          wrote,   \* how many of them it has written
          failed,  \* history: the processes that live on without a line they owe
          shared   \* history: whether two processes have ever had the store at once

vars == <<rows, mirror, pc, draft, seen, dump, wrote, failed, shared>>

Hash(prev, payload) == Append(prev, payload)

\* A row of an older version has NULL in its hash columns: hashed is FALSE.
LegacyRow(e) == [payload |-> e, hashed |-> FALSE, prev |-> Genesis, hash |-> Genesis]
NewRow(d) == [payload |-> d.payload, hashed |-> TRUE,
              prev |-> d.prev, hash |-> Hash(d.prev, d.payload)]
Row == [payload : Event, hashed : BOOLEAN, prev : Seq(Event), hash : Seq(Event)]

NoDraft == [run |-> System, payload |-> Warning, seq |-> 0, prev |-> Genesis]
Draft == [run : Run, payload : Event, seq : Nat, prev : Seq(Event)]
Key == Run \X Nat
Damaged == {Torn, Garbled}
Line == Key \cup Damaged

Phase == {"closed", "count_lines", "open", "read_seq", "read_hash", "insert",
          "write_line", "rebuild_select", "rebuild_truncate", "rebuild_write"}

-----------------------------------------------------------------------------
\* The keys of the rows of the table, and SELECT COUNT(*).
Keys == UNION {{r} \X DOMAIN rows[r] : r \in Run}
RowCount == Cardinality(Keys)

NextSequence(r) == IF DOMAIN rows[r] = {} THEN 1 ELSE Max(DOMAIN rows[r]) + 1

\* Mutant: the column before the one meant.
LastEventHashOfPrevious(r) ==
    IF DOMAIN rows[r] = {} THEN Genesis ELSE rows[r][Max(DOMAIN rows[r])].prev

LastEventHash(r) ==
    IF DOMAIN rows[r] = {} THEN Genesis
    ELSE LET last == rows[r][Max(DOMAIN rows[r])]
         IN  IF last.hashed THEN last.hash ELSE Genesis

\* SELECT ... ORDER BY run_id ASC, sequence_number ASC: the i-th row selected is the one
\* that has i rows up to and including itself.
Place(r) == CHOOSE n \in DOMAIN RunOrder : RunOrder[n] = r
UpTo(k) == {l \in Keys : \/ Place(l[1]) < Place(k[1])
                         \/ l[1] = k[1] /\ l[2] <= k[2]}
AllKeys == [i \in 1 .. RowCount |-> CHOOSE k \in Keys : Cardinality(UpTo(k)) = i]

(***************************************************************************)
(* Files.  Bytes that come after a piece of a line continue it, and bytes  *)
(* that lie over the beginning of a line leave a piece of it.              *)
(***************************************************************************)
Remnant(line) == IF line = Torn THEN Torn ELSE Garbled

\* The lines of one file, and after them those of another.
Join(file, more) ==
    IF file # << >> /\ file[Len(file)] = Torn /\ more # << >>
    THEN SubSeq(file, 1, Len(file) - 1) \o <<Remnant(more[1])>> \o Tail(more)
    ELSE file \o more

\* What may be left of lines when another is written over the first: as long as it, shorter
\* or longer, but not by more than a line.
Beyond(lines) ==
    {Tail(lines), <<Remnant(lines[1])>> \o Tail(lines)}
      \cup (IF Len(lines) > 1 THEN {[Tail(lines) EXCEPT ![1] = Remnant(@)]} ELSE {})

\* The files that may result when a handle that has written n lines writes another: at the
\* end, beyond the end, so that the line begins with a hole, or over the lines of others.
Written(file, n, line) ==
    IF n >= Len(file)
    THEN {Join(file, <<IF n = Len(file) THEN line ELSE Remnant(line)>>)}
    ELSE {Join(Append(SubSeq(file, 1, n), line), rest) :
             rest \in Beyond(SubSeq(file, n + 1, Len(file)))}

Goto(p, phase) ==
    /\ pc' = [pc EXCEPT ![p] = phase]
    /\ shared' = (shared \/ (phase # "closed" /\ \E q \in Proc \ {p} : pc[q] # "closed"))
-----------------------------------------------------------------------------
Init == /\ rows \in [Run -> UNION {[1 .. n -> {LegacyRow(e) : e \in Payload}] : n \in 0 .. MaxLegacy}]
        /\ mirror = AllKeys
        /\ pc = [p \in Proc |-> "closed"]
        /\ draft = [p \in Proc |-> NoDraft]
        /\ seen = [p \in Proc |-> 0]
        /\ dump = [p \in Proc |-> << >>]
        /\ wrote = [p \in Proc |-> 0]
        /\ failed = {}
        /\ shared = FALSE

(***************************************************************************)
(* Opening the store: compare the two counts, and when they differ append  *)
(* a warning to the run "system" and then rebuild the mirror.              *)
(***************************************************************************)
OpenCountRows(p) ==
    /\ pc[p] = "closed"
    /\ NextSequence(System) <= MaxSeq
    /\ seen' = [seen EXCEPT ![p] = RowCount]
    /\ Goto(p, "count_lines")
    /\ UNCHANGED <<rows, mirror, draft, dump, wrote, failed>>

OpenCountLines(p) ==
    /\ pc[p] = "count_lines"
    /\ IF seen[p] = Len(mirror)
       THEN Goto(p, "open") /\ UNCHANGED draft
       ELSE /\ draft' = [draft EXCEPT ![p] = NoDraft]
            /\ Goto(p, "read_seq")
    /\ seen' = [seen EXCEPT ![p] = 0]
    /\ UNCHANGED <<rows, mirror, dump, wrote, failed>>

(***************************************************************************)
(* append(): read the next sequence number, read the last hash, insert,    *)
(* and only then write the line of the mirror.                             *)
(***************************************************************************)
BeginAppend(p, r, e) ==
    /\ pc[p] = "open"
    /\ NextSequence(r) <= MaxSeq
    /\ draft' = [draft EXCEPT ![p] = [NoDraft EXCEPT !.run = r, !.payload = e]]
    /\ Goto(p, "read_seq")
    /\ UNCHANGED <<rows, mirror, seen, dump, wrote, failed>>

ReadSequence(p) ==
    /\ pc[p] = "read_seq"
    /\ draft' = [draft EXCEPT ![p].seq = NextSequence(draft[p].run)]
    /\ Goto(p, "read_hash")
    /\ UNCHANGED <<rows, mirror, seen, dump, wrote, failed>>

ReadHash(p) ==
    /\ pc[p] = "read_hash"
    /\ draft' = [draft EXCEPT ![p].prev = LastEventHash(draft[p].run)]
    /\ Goto(p, "insert")
    /\ UNCHANGED <<rows, mirror, seen, dump, wrote, failed>>

AddRow(table, d) == [i \in DOMAIN table \cup {d.seq} |->
                        IF i = d.seq THEN NewRow(d) ELSE table[i]]

\* Mutant: a table without the constraint.
VacantAlways(d) == TRUE

\* UNIQUE(run_id, sequence_number)
Vacant(d) == d.seq \notin DOMAIN rows[d.run]

InsertRow(p) ==
    /\ pc[p] = "insert"
    /\ Vacant(draft[p])
    /\ rows' = [rows EXCEPT ![draft[p].run] = AddRow(@, draft[p])]
    /\ Goto(p, "write_line")
    /\ UNCHANGED <<mirror, draft, seen, dump, wrote, failed>>

\* An exception in append(): it ends a start; the caller of another append may live on
\* (as a tool session does) or not (Close).
Fail(p) ==
    /\ Goto(p, IF draft[p].payload = Warning THEN "closed" ELSE "open")
    /\ draft' = [draft EXCEPT ![p] = NoDraft]

\* IntegrityError
InsertFails(p) ==
    /\ pc[p] = "insert"
    /\ ~Vacant(draft[p])
    /\ Fail(p)
    /\ UNCHANGED <<rows, mirror, seen, dump, wrote, failed>>

LineOf(p) == <<draft[p].run, draft[p].seq>>

\* Mutant: the warning is recorded, the rebuild forgotten.
WriteLineNoRebuild(p) ==
    /\ pc[p] = "write_line"
    /\ mirror' = Join(mirror, <<LineOf(p)>>)
    /\ Goto(p, "open")
    /\ draft' = [draft EXCEPT ![p] = NoDraft]
    /\ UNCHANGED <<rows, seen, dump, wrote, failed>>

WriteLine(p) ==
    /\ pc[p] = "write_line"
    /\ mirror' = Join(mirror, <<LineOf(p)>>)
    /\ Goto(p, IF draft[p].payload = Warning THEN "rebuild_select" ELSE "open")
    /\ draft' = [draft EXCEPT ![p] = NoDraft]
    /\ UNCHANGED <<rows, seen, dump, wrote, failed>>

\* The row is committed when the file cannot be opened or written: no line, or a piece.
WriteLineFails(p) ==
    /\ pc[p] = "write_line"
    /\ mirror' \in {mirror, Join(mirror, <<Torn>>)}
    /\ failed' = IF draft[p].payload = Warning THEN failed ELSE failed \cup {p}
    /\ Fail(p)
    /\ UNCHANGED <<rows, seen, dump, wrote>>

(***************************************************************************)
(* _rebuild_ndjson_from_sqlite(): fetch every row, open the file for       *)
(* writing, which empties it, and write the fetched lines from its start.  *)
(* The handle is buffered: what is written is in the file some lines, and  *)
(* a piece of one, at a time.  A piece that the process goes on to         *)
(* complete is taken to come with the rest of its line.                    *)
(***************************************************************************)
RebuildSelect(p) ==
    /\ pc[p] = "rebuild_select"
    /\ dump' = [dump EXCEPT ![p] = AllKeys]
    /\ Goto(p, "rebuild_truncate")
    /\ UNCHANGED <<rows, mirror, draft, seen, wrote, failed>>

RebuildTruncate(p) ==
    /\ pc[p] = "rebuild_truncate"
    /\ mirror' = << >>
    /\ wrote' = [wrote EXCEPT ![p] = 0]
    /\ Goto(p, "rebuild_write")
    /\ UNCHANGED <<rows, draft, seen, dump, failed>>

RebuildWrite(p) ==
    /\ pc[p] = "rebuild_write"
    /\ wrote[p] < Len(dump[p])
    /\ mirror' \in Written(mirror, wrote[p], dump[p][wrote[p] + 1])
    /\ IF wrote[p] + 1 < Len(dump[p])
       THEN /\ wrote' = [wrote EXCEPT ![p] = @ + 1]
            /\ Goto(p, "rebuild_write")
            /\ UNCHANGED dump
       ELSE /\ wrote' = [wrote EXCEPT ![p] = 0]
            /\ dump' = [dump EXCEPT ![p] = << >>]
            /\ Goto(p, "open")
    /\ UNCHANGED <<rows, draft, seen, failed>>

\* The constructor raises, or its process dies, with a piece of the next line written.
RebuildCut(p) ==
    /\ pc[p] = "rebuild_write"
    /\ mirror' \in Written(mirror, wrote[p], Torn)
    /\ wrote' = [wrote EXCEPT ![p] = 0]
    /\ dump' = [dump EXCEPT ![p] = << >>]
    /\ Goto(p, "closed")
    /\ UNCHANGED <<rows, draft, seen, failed>>

\* The end of a command or request, or the death of its process at any step; also a start
\* that raises, as it does when a damaged line is no UTF-8 text.
Close(p) ==
    /\ pc[p] # "closed"
    /\ Goto(p, "closed")
    /\ draft' = [draft EXCEPT ![p] = NoDraft]
    /\ seen' = [seen EXCEPT ![p] = 0]
    /\ dump' = [dump EXCEPT ![p] = << >>]
    /\ wrote' = [wrote EXCEPT ![p] = 0]
    /\ failed' = failed \ {p}
    /\ UNCHANGED <<rows, mirror>>

Next == \E p \in Proc :
    \/ OpenCountRows(p) \/ OpenCountLines(p)
    \/ \E r \in Run \ {System}, e \in Payload : BeginAppend(p, r, e)
    \/ ReadSequence(p) \/ ReadHash(p) \/ InsertRow(p) \/ InsertFails(p)
    \/ WriteLine(p) \/ WriteLineFails(p)
    \/ RebuildSelect(p) \/ RebuildTruncate(p) \/ RebuildWrite(p) \/ RebuildCut(p)
    \/ Close(p)

Spec == Init /\ [][Next]_vars
-----------------------------------------------------------------------------
(***************************************************************************)
(* Properties                                                              *)
(***************************************************************************)

\* Types: of the table and the appends, which ChainInv implies, and of the mirror and
\* what start-up and rebuild have read.
TableTypeOK ==
    /\ DOMAIN rows = Run
    /\ \A r \in Run : /\ DOMAIN rows[r] \subseteq Nat \ {0}
                      /\ \A i \in DOMAIN rows[r] : rows[r][i] \in Row
    /\ pc \in [Proc -> Phase]
    /\ draft \in [Proc -> Draft]
MirrorTypeOK ==
    /\ mirror \in Seq(Line)
    /\ seen \in [Proc -> Nat]
    /\ dump \in [Proc -> Seq(Key)]
    /\ wrote \in [Proc -> Nat]
    /\ failed \subseteq Proc
    /\ shared \in BOOLEAN

\* The rows of a run that _verify_rows reports: those without hashes, and
\* those whose hashes do not follow from the hashed row before them.
PreviousHash(r, i) ==
    LET hashed == {j \in DOMAIN rows[r] : j < i /\ rows[r][j].hashed}
    IN  IF hashed = {} THEN Genesis ELSE rows[r][Max(hashed)].hash

LinkHolds(r, i) ==
    /\ rows[r][i].prev = PreviousHash(r, i)
    /\ rows[r][i].hash = Hash(PreviousHash(r, i), rows[r][i].payload)

VerifyErrors(r) ==
    {i \in DOMAIN rows[r] : ~rows[r][i].hashed \/ ~LinkHolds(r, i)}

\* Whatever processes append at once, and wherever they die, verify_chain
\* reports nothing but the rows that an older version left without hashes:
\* the sequence number and the hash are read by two statements, and only the
\* UNIQUE constraint makes them belong together.
ChainVerifies ==
    \A r \in Run : \A i \in VerifyErrors(r) : ~rows[r][i].hashed

\* No run has a hole or a repetition in its sequence numbers, so a reader
\* that pages by sequence number misses nothing.
GapFree == \A r \in Run : DOMAIN rows[r] = 1 .. Cardinality(DOMAIN rows[r])

(***************************************************************************)
(* Why the chain verifies.  The table of a run is dense; its rows without  *)
(* hashes come first; every hashed row extends the row before it; and a    *)
(* draft whose place is still vacant when it is about to be inserted has   *)
(* read the hash of what is still the last row, because nobody can have    *)
(* inserted since without taking that place.                               *)
(***************************************************************************)
HashBefore(t, i) == IF i = 1 \/ ~t[i - 1].hashed THEN Genesis ELSE t[i - 1].hash

Linked(t) ==
    \A i \in DOMAIN t : t[i].hashed =>
        /\ t[i].prev = HashBefore(t, i)
        /\ t[i].hash = Hash(HashBefore(t, i), t[i].payload)

HashedLast(t) == \A i, j \in DOMAIN t : i <= j /\ t[i].hashed => t[j].hashed

DraftCurrent(p) ==
    LET d == draft[p] IN
    /\ pc[p] \in {"read_hash", "insert"} => d.seq \in 1 .. Len(rows[d.run]) + 1
    /\ pc[p] = "insert" /\ Vacant(d) => d.prev = LastEventHash(d.run)

ChainInv ==
    /\ rows \in [Run -> Seq(Row)]
    /\ pc \in [Proc -> Phase]
    /\ draft \in [Proc -> Draft]
    /\ \A r \in Run : Linked(rows[r]) /\ HashedLast(rows[r])
    /\ \A p \in Proc : DraftCurrent(p)

\* A line of the mirror that can be read is always the line of a committed row: append()
\* writes it after the commit, and a rebuild writes what it selected.
MirrorIsCommitted ==
    \A i \in DOMAIN mirror : mirror[i] \in Key => mirror[i][2] \in DOMAIN rows[mirror[i][1]]

\* The store is an append-only log per run.
LogOf(r) == [i \in DOMAIN rows[r] |-> rows[r][i].payload]
Log == INSTANCE AppendOnlyLog WITH log <- [r \in Run |-> LogOf(r)], First <- MaxLegacy
ImplementsLog == Log!Spec

MirrorExact == /\ Len(mirror) = RowCount
               /\ ToSet(mirror) = Keys

Whole == \A i \in DOMAIN mirror : mirror[i] \notin Damaged

\* A store that no two processes have ever had at once repairs, when it is opened, whatever
\* their deaths did to the mirror: an open store has exactly one line per row.  Two things
\* are excepted: a damaged line, which counts for the one it should be, so that start-up
\* sees nothing; and a process that lives on after the line of its event could not be
\* written, until the next start.
LoneRuntimeMirrorExact ==
    \A p \in Proc : pc[p] = "open" /\ ~shared /\ p \notin failed /\ Whole => MirrorExact

\* What events.ndjson shows: no line of a row that is not committed, whoever writes and dies
\* where; and of a store that was never shared, every row.
MirrorShowsTable == MirrorTypeOK /\ MirrorIsCommitted /\ LoneRuntimeMirrorExact

(***************************************************************************)
(* Why the mirror shows the table.  Whatever happens, a line is written    *)
(* after its row.  Of a store that was never shared at most one process is *)
(* in it, no line is there twice, and what that process has counted,       *)
(* selected, written or has still to write says what the mirror lacks.     *)
(***************************************************************************)
Shown == ToSet(mirror) \cap Key

Committed == /\ mirror \in Seq(Keys \cup Damaged)
             /\ \A p \in Proc : /\ dump[p] \in Seq(Keys)
                                /\ pc[p] = "write_line" => LineOf(p) \in Keys

NothingTwice ==
    \A i, j \in DOMAIN mirror : mirror[i] = mirror[j] /\ mirror[i] \in Key => i = j

LoneStep(p) ==
    /\ pc[p] = "count_lines" => seen[p] = RowCount
    /\ pc[p] = "open" /\ p \notin failed /\ Whole => Shown = Keys
    /\ pc[p] \in {"read_seq", "read_hash", "insert"} /\ draft[p].payload # Warning
         /\ p \notin failed /\ Whole
         => Shown = Keys
    /\ pc[p] = "write_line" => LineOf(p) \notin Shown
    /\ pc[p] = "write_line" /\ draft[p].payload # Warning /\ p \notin failed /\ Whole
         => Keys = Shown \cup {LineOf(p)}
    /\ pc[p] \in {"rebuild_truncate", "rebuild_write"} => dump[p] = AllKeys
    /\ pc[p] = "rebuild_write" => /\ wrote[p] <= Len(dump[p])
                                  /\ mirror = SubSeq(dump[p], 1, wrote[p])

Lone == /\ \A p, q \in Proc : pc[p] # "closed" /\ pc[q] # "closed" => p = q
        /\ NothingTwice
        /\ \A p \in Proc : LoneStep(p)

MirrorInv == MirrorTypeOK /\ Committed /\ (~shared => Lone)

\* docs/architecture.md:74: "On startup, if the two diverge, the NDJSON is
\* rebuilt from SQLite".  A start-up that finds every other process gone, the
\* table as it has counted it and no damaged line, ends with one line per row.
AloneSinceItRead(p) ==
    /\ \A q \in Proc \ {p} : pc[q] = "closed"
    /\ pc[p] = "count_lines" /\ seen[p] = RowCount /\ Whole
StartupRepairsMirror ==
    [][\A p \in Proc : AloneSinceItRead(p) /\ pc'[p] = "open" => MirrorExact']_vars
=============================================================================
