------------------------------ MODULE Archive ------------------------------
(***************************************************************************)
(* Archives and exports of a run (services/archive_service.py).            *)
(*                                                                         *)
(* An archive is put together from a dozen reads and three files while     *)
(* others go on with the run.  A table is the number of its changes, an    *)
(* event its type, and the hash of an event, which digests all payloads up *)
(* to it (EventStore), the sequence of these events.                       *)
(***************************************************************************)
EXTENDS Naturals, Sequences, SequencesExt

CONSTANTS Proc,       \* processes that archive and export
          TableOrder, \* the tables, in the order they are read, with the run's own first
          Limit,      \* the limit of the query for an archive's events
          ExportLimit, \* and for an export's
          MaxEvents,  \* bound: events in the log
          MaxChanges, \* bound: changes of one table
          MaxJobs     \* bound: archives and exports that are begun

ASSUME ArchiveAssumption ==
    TableOrder \in Seq(Range(TableOrder)) /\ TableOrder # <<>> /\ MaxJobs \in Nat
    /\ Limit \in Nat /\ ExportLimit \in Nat

VARIABLES table, log,
          task,       \* the archive or export each process is at
          archive,    \* archive.json
          manifest,   \* archive-manifest.json, and README.md after it
          torn,       \* history: an archive has died half-way, or two were written at once
          jobs

vars == <<table, log, task, archive, manifest, torn, jobs>>

Table == Range(TableOrder)
Failure == {"tool_permission_denied"}
Change == {"runtime_chain_graph_sealed", "tool_permission_denied"}
Event == Change \cup {"run_archived", "log_exported"}

Rows == [Table -> Nat]
NoFile == [rows |-> [t \in Table |-> 0], events |-> <<>>, written |-> FALSE]
NoManifest == [final |-> <<>>, timeline |-> <<>>, failures |-> {}, graph |-> 0, written |-> FALSE]

Idle == [at |-> "idle", kind |-> "archive", read |-> 0, rows |-> [t \in Table |-> 0],
         events |-> <<>>, disturbed |-> FALSE, alone |-> TRUE]

Init == /\ table = [t \in Table |-> 0]
        /\ log = <<>>
        /\ task = [p \in Proc |-> Idle]
        /\ archive = NoFile
        /\ manifest = NoManifest
        /\ torn = FALSE /\ jobs = 0

Do(p, t) == task' = [task EXCEPT ![p] = t]
Disturbed(t) == [t EXCEPT !.disturbed = t.at # "idle"]
Disturb == task' = [p \in Proc |-> Disturbed(task[p])]

\* Anybody else: a table changes, or an event is appended to the log.
ChangeTable(t) ==
    /\ table[t] < MaxChanges
    /\ table' = [table EXCEPT ![t] = @ + 1]
    /\ Disturb
    /\ UNCHANGED <<log, archive, manifest, torn, jobs>>

AppendEvent(e) ==
    /\ Len(log) < MaxEvents
    /\ log' = Append(log, e)
    /\ Disturb
    /\ UNCHANGED <<table, archive, manifest, torn, jobs>>
-----------------------------------------------------------------------------
\* EventStore.query() without a cursor, and the cursor it returns if there is more.
Visible(events, limit) == SubSeq(events, 1, IF Len(events) < limit THEN Len(events) ELSE limit)

\* get_chain_info(): the hash of the last row, read after the events and without a limit.
HashOfPage(events) == Visible(events, 1)     \* mutant: the hash of a page
FinalHash(events) == events

Archiving == {p \in Proc : task[p].at # "idle" /\ task[p].kind = "archive"}

\* With include_export_event an export records itself before it reads.
FirstStep(kind) == IF kind = "final export" THEN "announce" ELSE "read"

Begin(p, kind) ==
    /\ task[p].at = "idle"
    /\ jobs < MaxJobs /\ jobs' = jobs + 1
    /\ task' = [q \in Proc |->
                 IF q = p THEN [Idle EXCEPT !.at = FirstStep(kind), !.kind = kind,
                                            !.alone = Archiving = {}]
                 ELSE [task[q] EXCEPT !.alone = @ /\ (kind # "archive" \/ q \notin Archiving)]]
    /\ UNCHANGED <<table, log, archive, manifest, torn>>

\* An archive reads the events last, an export after the run and before the other tables.
EventsFrom(kind) == IF kind = "archive" THEN Len(TableOrder) ELSE 1

ReadTable(p) ==
    /\ task[p].at = "read"
    /\ LET n == task[p].read + 1
           t == TableOrder[n]
       IN  Do(p, [task[p] EXCEPT !.read = n, !.rows = [@ EXCEPT ![t] = table[t]],
                                 !.at = IF n = EventsFrom(task[p].kind) THEN "events"
                                        ELSE IF n = Len(TableOrder) THEN "write" ELSE "read"])
    /\ UNCHANGED <<table, log, archive, manifest, torn, jobs>>

\* A query without a cursor has a limit, and nobody asks for the rest.
LimitOf(kind) == IF kind = "archive" THEN Limit ELSE ExportLimit

ReadEvents(p) ==
    /\ task[p].at = "events"
    /\ Do(p, [task[p] EXCEPT !.at = IF task[p].read = Len(TableOrder) THEN "write" ELSE "read",
                             !.events = Visible(log, LimitOf(task[p].kind))])
    /\ UNCHANGED <<table, log, archive, manifest, torn, jobs>>

WriteArchive(p) ==
    /\ task[p].at = "write" /\ task[p].kind = "archive"
    /\ archive' = [rows |-> task[p].rows, events |-> task[p].events, written |-> TRUE]
    /\ torn' = TRUE
    /\ Do(p, [task[p] EXCEPT !.at = "manifest"])
    /\ UNCHANGED <<table, log, manifest, jobs>>

\* _last_event_payload(): which of the events of this type is the last one.
LastOf(events, type) == SelectLastInSeq(events, LAMBDA e : e = type)

\* _build_archive_manifest() reads the chain, and takes the rest from the archive; which of
\* the events are failures.
FailureRecords(events) == {i \in DOMAIN events : events[i] \in Failure}
ManifestWith(final, events) ==
    [final |-> final, timeline |-> events, failures |-> FailureRecords(events),
     graph |-> LastOf(events, "runtime_chain_graph_sealed"), written |-> TRUE]
ManifestOfLog(events) == ManifestWith(FinalHash(log), log)     \* mutant: the events are read again
ManifestOf(events) == ManifestWith(FinalHash(log), events)

WriteManifest(p) ==
    /\ task[p].at = "manifest"
    /\ manifest' = ManifestOf(task[p].events)
    /\ torn' = ~task[p].alone
    /\ Do(p, [task[p] EXCEPT !.at = "announce"])
    /\ UNCHANGED <<table, log, archive, jobs>>

WriteExport(p) ==
    /\ task[p].at = "write" /\ task[p].kind # "archive"
    /\ Do(p, IF task[p].kind = "final export" THEN Idle ELSE [task[p] EXCEPT !.at = "announce"])
    /\ UNCHANGED <<table, log, archive, manifest, torn, jobs>>

\* run_archived and log_exported; a final export records itself before it reads.
Announcement(kind) == IF kind = "archive" THEN "run_archived" ELSE "log_exported"
Announce(p) ==
    /\ task[p].at = "announce"
    /\ log' = Append(log, Announcement(task[p].kind))
    /\ task' = [q \in Proc |->
                 IF q # p THEN Disturbed(task[q])
                 ELSE IF task[p].kind = "final export" THEN [task[p] EXCEPT !.at = "read"] ELSE Idle]
    /\ UNCHANGED <<table, archive, manifest, torn, jobs>>

\* The process is killed, or an append of its own raises.
Die(p) ==
    /\ task[p].at # "idle"
    /\ Do(p, Idle)
    /\ UNCHANGED <<table, log, archive, manifest, torn, jobs>>
-----------------------------------------------------------------------------
Kind == {"archive", "export", "final export"}
ArchiveStep(p) == \/ \E kind \in Kind : Begin(p, kind)
                  \/ ReadTable(p) \/ ReadEvents(p) \/ WriteArchive(p) \/ WriteManifest(p)
                  \/ WriteExport(p) \/ Announce(p) \/ Die(p)

Next == \/ \E p \in Proc : ArchiveStep(p)
        \/ \E t \in Table : ChangeTable(t)
        \/ \E e \in Change : AppendEvent(e)

Spec == Init /\ [][Next]_vars
-----------------------------------------------------------------------------
\* Types.
TypeOK ==
    /\ table \in Rows /\ log \in Seq(Event)
    /\ task \in [Proc -> [at : {"idle", "announce", "read", "events", "write", "manifest"}, kind : Kind,
                          read : 0..Len(TableOrder), rows : Rows, events : Seq(Event),
                          disturbed : BOOLEAN, alone : BOOLEAN]]
    /\ archive \in [rows : Rows, events : Seq(Event), written : BOOLEAN]
    /\ manifest \in [final : Seq(Event), timeline : Seq(Event), failures : SUBSET Nat,
                     graph : Nat, written : BOOLEAN]
    /\ torn \in BOOLEAN /\ jobs \in 0..MaxJobs

\* archive.json and the manifest beside it belong together: the timeline is that of the
\* archived events, and these are the beginning of what finalEventHash digests -- unless
\* two archives were written at once, or one died between the two files, and no archive
\* has been completed alone since (archive_service.py:60-62).
PairAgrees ==
    archive.written /\ ~torn =>
        /\ manifest.written
        /\ manifest.timeline = archive.events
        /\ IsPrefix(archive.events, manifest.final)

\* An archive in whose time nothing else has happened is exact; only when the run has
\* more events than the query asks for does finalEventHash belong to another event than
\* the last one archived (archive_service.py:58, 194-196).
UndisturbedArchiveExact ==
    \A p \in Proc :
        task[p].at = "announce" /\ task[p].kind = "archive" /\ task[p].alone /\ ~task[p].disturbed =>
            /\ archive.rows = table /\ manifest.final = log
            /\ archive.events = manifest.final \/ Len(log) > Limit

\* The same of exports: one that is to be final contains the event that says so, at its end unless
\* somebody has appended another since, and unless the run has more events than the query
\* asks for: then it lacks the last ones, its own among them (archive_service.py:70-73).
SaysFinal(events, t) == Contains(events, "log_exported")
                     /\ (t.disturbed \/ Last(events) = "log_exported")
FinalExportIsMarked ==
    \A p \in Proc :
        task[p].at = "write" /\ task[p].kind = "final export" =>
            Len(log) > ExportLimit \/ SaysFinal(task[p].events, task[p])

\* A copy of a run that nobody disturbs is the run.
CopiesExact == UndisturbedArchiveExact /\ FinalExportIsMarked

\* Why: of archives at the same time none counts itself alone, so that one that does has
\* its own files; a task that nobody has disturbed has what it read as it still is; and a
\* log only gets longer.
Files(t) == archive.written /\ archive.rows = t.rows /\ archive.events = t.events
Copied(t) ==
    /\ t.at = "read" => t.read < Len(TableOrder)
    /\ t.at = "events" => t.read = EventsFrom(t.kind)
    /\ t.at \in {"write", "manifest"} => t.read = Len(TableOrder)
    /\ t.at = "announce" => t.read = IF t.kind = "final export" THEN 0 ELSE Len(TableOrder)
    /\ t.at = "manifest" => t.kind = "archive"
    /\ t.at # "idle" /\ ~t.disturbed =>
           \A i \in 1..t.read : t.rows[TableOrder[i]] = table[TableOrder[i]]
Archived(t) ==
    t.kind = "archive" =>
        /\ t.at \in {"write", "manifest", "announce"} =>
               IsPrefix(t.events, log) /\ (~t.disturbed => t.events = Visible(log, Limit))
        /\ t.at \in {"manifest", "announce"} /\ t.alone => Files(t)
        /\ t.at = "announce" /\ t.alone /\ ~t.disturbed => manifest.final = log
FinalInv(t) ==
    t.kind = "final export" =>
        /\ t.at = "events" \/ (t.at = "read" /\ t.read = 0) => SaysFinal(log, t)
        /\ t.at = "write" \/ (t.at = "read" /\ t.read > 0) =>
               Len(log) > ExportLimit \/ SaysFinal(t.events, t)
CopyInv == /\ PairAgrees
           /\ \A p, q \in Archiving : p # q => ~task[p].alone
           /\ \A p \in Proc : Copied(task[p]) /\ Archived(task[p]) /\ FinalInv(task[p])
=============================================================================
