------------------------------ MODULE Startup ------------------------------
(***************************************************************************)
(* Starts of runtimes on one database: the migrations                      *)
(* (infrastructure/migrations.py) and the columns of the event table       *)
(* (event_store.py), statement by statement, from a database that is new,  *)
(* of an older version, or left half-way by an earlier start.              *)
(*                                                                         *)
(* Outside a transaction every CREATE and ALTER is committed at once.  The *)
(* first INSERT of a start opens a transaction, which holds the write lock *)
(* and to which everything belongs until the event store commits.          *)
(***************************************************************************)
EXTENDS Naturals, SequencesExt

CONSTANTS Starter,         \* processes
          CoreTables,      \* the tables of the first migration, agent_results one of them
          ProviderColumns, \* the columns of agent_results that the second one adds, in order
          HashColumns,     \* the columns of the event table that the store adds, in order
          MaxStarts        \* bound: starts

\* A column has the name of its table, and no two have the same.
ASSUME StartupAssumption ==
    /\ CoreTables \in Seq(Range(CoreTables)) /\ CoreTables # <<>> /\ MaxStarts \in Nat
    /\ \A columns \in {ProviderColumns, HashColumns} :
           columns \in Seq(Range(columns)) /\ IsInjective(columns)
    /\ LET tables == {"schema_version", "squad_events"} \cup Range(CoreTables)
       IN  /\ tables \cap (Range(ProviderColumns) \cup Range(HashColumns)) = {}
           /\ Range(ProviderColumns) \cap Range(HashColumns) = {}

VARIABLES schema,   \* the tables and columns that are committed
          versions, \* the rows of schema_version that are committed
          boot,     \* where each process is in its start
          starts

startupVars == <<schema, versions, boot, starts>>

Columns == Range(ProviderColumns)
Migration == {"001_initial_schema", "002_add_provider_fields"}
Complete == {"schema_version", "squad_events"} \cup Range(CoreTables)
            \cup Columns \cup Range(HashColumns)

Off == [at |-> "off", applied |-> {}, todo |-> <<>>, open |-> FALSE,
        draft |-> {}, versions |-> {}, alone |-> TRUE]

\* No file; and one of the time before there were migrations, providers and hashes.
StartupInit == /\ schema \in {{}, Range(CoreTables) \cup {"squad_events"}}
               /\ versions = {}
               /\ boot = [p \in Starter |-> Off]
               /\ starts = 0

Booting == {p \in Starter : boot[p].at \notin {"off", "up", "failed", "dead"}}
Go(p, b) == boot' = [boot EXCEPT ![p] = b]
Begun(p) == boot' = [q \in Starter |->
    CASE q = p -> [Off EXCEPT !.at = "version_table", !.alone = Booting = {}]
      [] q \in Booting \ {p} -> [boot[q] EXCEPT !.alone = FALSE]
      [] OTHER -> boot[q]]

\* Somebody else's transaction keeps a writer waiting, for less than the busy_timeout.
MayWrite(p) == \A q \in Starter \ {p} : ~boot[q].open
Sees(p) == schema \cup boot[p].draft

\* Mutant: nothing is committed before the event store commits.
ApplyLater(p, objects, next) ==
    /\ Go(p, [next EXCEPT !.draft = @ \cup objects])
    /\ UNCHANGED <<schema, versions, starts>>

\* A statement that changes the schema, unless all is there, and where the start goes on.
Apply(p, objects, next) ==
    /\ objects \subseteq Sees(p) \/ MayWrite(p)
    /\ IF boot[p].open
       THEN Go(p, [next EXCEPT !.draft = @ \cup objects]) /\ UNCHANGED schema
       ELSE Go(p, next) /\ schema' = schema \cup objects
    /\ UNCHANGED <<versions, starts>>

\* An exception, or the death of the process: the transaction is rolled back.
Break(p) == Go(p, [Off EXCEPT !.at = "failed", !.alone = boot[p].alone])

Start(p) ==
    /\ boot[p].at \in {"off", "failed", "dead"}
    /\ starts < MaxStarts
    /\ starts' = starts + 1
    /\ Begun(p)
    /\ UNCHANGED <<schema, versions>>
-----------------------------------------------------------------------------
(***************************************************************************)
(* run_migrations()                                                        *)
(***************************************************************************)
EnsureVersionTable(p) ==
    /\ boot[p].at = "version_table"
    /\ Apply(p, {"schema_version"}, [boot[p] EXCEPT !.at = "read"])

AfterFirst(b) == [b EXCEPT !.at = IF "002_add_provider_fields" \in b.applied THEN "events" ELSE "look"]

ReadApplied(p) ==
    /\ boot[p].at = "read"
    /\ LET b == [boot[p] EXCEPT !.applied = versions] IN
       Go(p, IF "001_initial_schema" \in versions THEN AfterFirst(b)
             ELSE [b EXCEPT !.at = "create", !.todo = CoreTables])
    /\ UNCHANGED <<schema, versions, starts>>

\* CREATE TABLE IF NOT EXISTS: a table that is there keeps the columns it has.
Created(p, t) == IF t \in Sees(p) THEN {} ELSE {t} \cup (IF t = "agent_results" THEN Columns ELSE {})

CreateTable(p) ==
    LET b == boot[p] IN
    /\ b.at = "create"
    /\ Apply(p, Created(p, Head(b.todo)),
              [b EXCEPT !.todo = Tail(@), !.at = IF Len(b.todo) = 1 THEN "insert_001" ELSE "create"])

\* Some of these columns, one after the other.
Precedes(columns, c, d) ==
    \E i, j \in DOMAIN columns : i < j /\ columns[i] = c /\ columns[j] = d
Follow(columns, todo) == \A i, j \in DOMAIN todo : i < j => Precedes(columns, todo[i], todo[j])
InOrder(columns, S) == {todo \in SetToSeqs(S) : Follow(columns, todo)}

\* Mutants: the columns are not looked at; the last one is forgotten.
LackingUnseen(p, columns) == {columns}
LackingButLast(p, columns) == InOrder(columns, Range(Front(columns)) \ Sees(p))
Lacking(p, columns) == InOrder(columns, Range(columns) \ Sees(p))

AddProviderFields(p) ==
    /\ boot[p].at = "look"
    /\ \E todo \in Lacking(p, ProviderColumns) :
           Go(p, [boot[p] EXCEPT !.todo = todo,
                                 !.at = IF todo = <<>> THEN "insert_002" ELSE "alter_results"])
    /\ UNCHANGED <<schema, versions, starts>>

\* ALTER TABLE ... ADD COLUMN, which raises if the column is there by now.
AddColumn(p, at, next) ==
    LET b == boot[p] IN
    /\ b.at = at
    /\ IF Head(b.todo) \in Sees(p)
       THEN Break(p) /\ UNCHANGED <<schema, versions, starts>>
       ELSE Apply(p, {Head(b.todo)},
                  [b EXCEPT !.todo = Tail(@), !.at = IF Len(b.todo) = 1 THEN next ELSE at])

\* The version is the primary key: a second INSERT raises.  The first one of a start
\* opens its transaction.
InsertVersion(p, at, version) ==
    LET b == [boot[p] EXCEPT !.open = TRUE, !.versions = @ \cup {version}] IN
    /\ boot[p].at = at
    /\ MayWrite(p)
    /\ IF version \in versions THEN Break(p)
       ELSE Go(p, IF version = "001_initial_schema" THEN AfterFirst(b) ELSE [b EXCEPT !.at = "events"])
    /\ UNCHANGED <<schema, versions, starts>>

RunMigrations(p) ==
    \/ EnsureVersionTable(p) \/ ReadApplied(p) \/ CreateTable(p)
    \/ InsertVersion(p, "insert_001", "001_initial_schema")
    \/ AddProviderFields(p)
    \/ AddColumn(p, "alter_results", "insert_002")
    \/ InsertVersion(p, "insert_002", "002_add_provider_fields")
-----------------------------------------------------------------------------
\* EventStore(): its table, the commit of everything so far, and the hash columns.
OpenEvents(p) ==
    LET b == boot[p] IN
    /\ b.at = "events"
    /\ "squad_events" \in Sees(p) \/ MayWrite(p)
    /\ schema' = Sees(p) \cup {"squad_events"}
    /\ versions' = versions \cup b.versions
    /\ Go(p, [b EXCEPT !.at = "hash_look", !.open = FALSE, !.draft = {}, !.versions = {}])
    /\ UNCHANGED starts

EnsureHashColumns(p) ==
    \/ /\ boot[p].at = "hash_look"
       /\ \E todo \in Lacking(p, HashColumns) :
              Go(p, [boot[p] EXCEPT !.todo = todo, !.at = IF todo = <<>> THEN "up" ELSE "alter_events"])
       /\ UNCHANGED <<schema, versions, starts>>
    \/ AddColumn(p, "alter_events", "up")

Abort(p) == p \in Booting /\ Go(p, [Off EXCEPT !.at = "dead"]) /\ UNCHANGED <<schema, versions, starts>>

StartupNext == \E p \in Starter :
    Start(p) \/ RunMigrations(p) \/ OpenEvents(p) \/ EnsureHashColumns(p) \/ Abort(p)

StartupSpec == StartupInit /\ [][StartupNext]_startupVars
-----------------------------------------------------------------------------
\* Types.
StartupTypeOK ==
    /\ schema \subseteq Complete /\ versions \subseteq Migration /\ starts \in 0..MaxStarts
    /\ \A p \in Starter :
           /\ boot[p].draft \subseteq Complete /\ boot[p].versions \subseteq Migration
           /\ boot[p].draft \cup boot[p].versions # {} => boot[p].open
    /\ \A p, q \in Starter : boot[p].open /\ boot[q].open => p = q

\* Whoever dies where, a version is on record only when all that its migration makes is
\* there (migrations.py:221-226).
VersionsHaveSchema ==
    /\ "001_initial_schema" \in versions => Range(CoreTables) \subseteq schema
    /\ "002_add_provider_fields" \in versions => Columns \subseteq schema

\* A runtime that is up finds every table and column, whoever has made them.
UpHasSchema == \A p \in Starter : boot[p].at = "up" => Complete \subseteq schema

\* What later commands rely on, a version or a runtime that is up, has its tables and
\* columns behind it.
SchemaComplete == VersionsHaveSchema /\ UpHasSchema

\* A start that nobody else's overlaps never fails, whatever an earlier one has left
\* behind half-way: migrations can be repeated (migrations.py:168-190).
LoneStartSucceeds == \A p \in Starter : boot[p].at = "failed" => ~boot[p].alone

\* Of starts at once -- two commands on a new project -- all but one may fail on a table,
\* a column or a version that another has made; they never all fail.
SomeStartSucceeds ==
    (\A p \in Starter : boot[p].at \in {"off", "failed"}) => \A p \in Starter : boot[p].at = "off"

\* Starting again helps: alone it succeeds, and of several somebody does.
StartsSucceed == LoneStartSucceeds /\ SomeStartSucceeds

\* Why the schema is complete: what a start has been through is there for it to see, and
\* only one at a time has a transaction, of nothing but columns and versions.
WithTables == {"look", "alter_results", "insert_002", "events", "hash_look", "alter_events", "up"}
WithColumns == {"insert_002", "events", "hash_look", "alter_events", "up"}
Made(b, seen, recorded) ==
    LET lacks(S) == S \ Range(b.todo)
    IN
    /\ b.at \notin {"off", "failed", "dead", "version_table"} => "schema_version" \in seen
    /\ b.at = "create" => lacks(Range(CoreTables)) \subseteq seen /\ Range(b.todo) \subseteq Range(CoreTables)
    /\ b.at \in WithTables \cup {"insert_001"} => Range(CoreTables) \subseteq seen
    /\ b.at = "alter_results" => lacks(Columns) \subseteq seen /\ Range(b.todo) \subseteq Columns
    /\ b.at \in WithColumns => Columns \subseteq seen
    /\ b.at \in {"hash_look", "alter_events", "up"} => "squad_events" \in seen
    /\ b.at = "alter_events" => /\ lacks(Range(HashColumns)) \subseteq seen
                               /\ Range(b.todo) \subseteq Range(HashColumns)
    /\ b.at = "up" => Range(HashColumns) \subseteq seen
    /\ b.at \in {"create", "alter_results", "alter_events"} => b.todo # <<>>
    /\ b.open => b.at \in {"look", "alter_results", "insert_002", "events"}
    /\ ~b.open => b.draft = {} /\ b.versions = {}
    /\ b.applied \subseteq recorded
    /\ b.at \in WithTables => "001_initial_schema" \in recorded \cup b.versions
    /\ "001_initial_schema" \in b.versions => Range(CoreTables) \subseteq seen
    /\ "002_add_provider_fields" \in b.versions =>
           Columns \subseteq seen /\ "001_initial_schema" \in recorded \cup b.versions
SchemaInv ==
    /\ VersionsHaveSchema
    /\ "002_add_provider_fields" \in versions => "001_initial_schema" \in versions
    /\ \A p, q \in Starter : boot[p].open /\ boot[q].open => p = q
    /\ \A p \in Starter : Made(boot[p], Sees(p), versions)

\* Why somebody succeeds: columns are added in one order, so that whoever adds one that
\* others still have on their lists is ahead of all of them, and has nothing in its way.
Ordered(columns, S) == \A i, j \in DOMAIN columns : i < j /\ columns[j] \in S => columns[i] \in S
Listed(b) == /\ b.at = "alter_results" => Follow(ProviderColumns, b.todo)
             /\ b.at = "alter_events" => Follow(HashColumns, b.todo)
Unhindered(b, seen, recorded) ==
    \/ b.at \in {"version_table", "read", "events", "hash_look"}
    \/ b.at \in {"create", "insert_001"} /\ "001_initial_schema" \notin recorded
    \/ b.at \in {"look", "insert_002"} /\ "002_add_provider_fields" \notin recorded
    \/ b.at = "alter_results" /\ Range(b.todo) \cap seen = {} /\ "002_add_provider_fields" \notin recorded
    \/ b.at = "alter_events" /\ Range(b.todo) \cap seen = {}
Survives(b, seen, recorded) == b.at \in {"up", "dead"} \/ Unhindered(b, seen, recorded)
StartsInv ==
    /\ (\A p \in Starter : boot[p].at = "off") \/ \E p \in Starter : Survives(boot[p], Sees(p), versions)
    /\ \A p \in Booting : boot[p].alone => Booting = {p} /\ Unhindered(boot[p], Sees(p), versions)
    /\ LoneStartSucceeds
    /\ Ordered(HashColumns, schema) /\ Ordered(ProviderColumns, schema)
    /\ \A p \in Starter : Ordered(ProviderColumns, Sees(p)) /\ Listed(boot[p])
=============================================================================
