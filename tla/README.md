# Verification of the Squad runtime

TLA+ models of `src/squad_runtime`: the runtime that keeps a run's task nodes,
events, agent results and gates in one SQLite database, dispatches nodes to LLM
agents, and decides from their results whether a run may be released. TLC checks
the models on small instances, TLAPS proves the main results for every value of
the constants.

The question behind every module is the same. README.md:7 of the repository says
"Runtime is the only writer of node, gate, and database state", but a `Runtime` is
an object of one process: every CLI command (`cli.py`) and every HTTP request
(`api.py:39-44`) builds its own, with its own SQLite connections, and no operation
of more than one statement holds a transaction. So the processes of the models are
these Runtimes, a step is one SQL statement (or one file operation), and a process
may be killed between any two steps. What still holds then?

## 1. The system

| component | state | operations | what is hard about it | correct when |
|---|---|---|---|---|
| Event store (`event_store.py`, `canonicalization.py`) | `squad_events` rows with sequence numbers and hashes per run; `events.ndjson`, its mirror | open (compare counts, warn, rebuild), `append`, `verify_chain`, `query`, rebuild | the sequence number and the last hash are read by two statements before the insert; the mirror is written after the commit, which may fail, and rewritten by rebuilds, which may be cut short | the log only grows, numbers have no holes, the chain verifies, the mirror shows committed rows and start-up repairs what it can see is missing |
| Node state machine and service (`state.py`, `services/node_service.py`, `repositories/node_repository.py`, `run_repository.py`) | status and reason of a node, version of the run | `create_node`, `transition_node` | two reads, then three commits; the guarded UPDATE's row count is ignored; the append may raise | nodes follow the allowed transitions, a blocked node has a reason, events and version account for the moves |
| Gate engine (`gate_engine.py`, `repositories/gate_repository.py`) | `gate_states` rows | `evaluate_all`, legacy and strict | the tables are read again for each gate and the decisions written one by one | a release never outruns a bad result; an undisturbed evaluation is exact |
| Dispatch (`scheduler.py`, `adapter.py`, `providers/impl.py`, `cli.py dispatch`) | node statuses, sessions (events) | selection, session of a provider, fallback, exceptions | a selection is minutes old when it is used; answers arrive after a node was canceled or retried | limits hold, verdicts have results, closed nodes stay closed, running nodes leave running unless their answer raises |
| Agent results (`services/agent_result_service.py`, `artifact_repository.py`, `agent_contracts.py`) | `agent_results`, evidence items, artifacts | `persist_agent_result`, `apply_agent_result` | persisted before applied, by commits of their own | a node that passed or failed has a result that says so |
| Rate limiter (`providers/rate_limiter.py`) | time of the last dispatch and end of the cooldown, in the memory of one process | wait before a dispatch, record an error | every process has its own | calls keep their distance and respect a cooldown, waits do not add up |
| Acceptance runner (`scripts/acceptance/run_real_llm_acceptance.py`) | a run with one node per agent, retries, records | run the team in order, retry the rate-limited, block dependants, check gates, report | its status reads are stale when it transitions; exceptions half-way | nobody runs after a failure, the release agent last, a PASS is deserved |
| Tool adapter and sessions (`tool_adapter.py`, `tool_permissions.py`, `snapshot.py`) | rounds and status of a session, in memory; its events; the workspace and the snapshots of all sessions | start, call, complete; read, patch, write, register, seal | an append that raises between a call and its count, with its event in the log or without; two adapters on one file; writes and copies that are cut short; nobody looks at the status of a session that is over | no effect beyond the budget, events that agree with what was done, one end per session |
| Archive, export, replay (`services/archive_service.py`, `replay.py`) | `archive.json`, `archive-manifest.json`, exports; the `run_archived` and `log_exported` events | archive, export, verify, reconstruct | the parts are read one after the other while others write, by queries with limits; two files per archive; exports and old rows have no hashes | the files belong together, an undisturbed archive is exact, an altered log is rejected |
| Start-up and migrations (`infrastructure/migrations.py`, the columns in `event_store.py`, `schema_migration.py`) | tables, columns, `schema_version` | run migrations, add columns; migrate a log | a start that dies half-way is repeated on what it has left; two first starts | a version on record has its schema, a lone start succeeds |
| Facade: runs, directives, decisions, recovery (`runtime.py`, `lead_decision.py`, `decisions.py`) | rows of runs and directives, events | create, record, apply, validate, recover | a row and its events are separate commits; a dry run reads node after node; a recovery works through an old list | events in their order, accepted changes spare done nodes, a recovery leaves nothing running |
| Review findings (`runtime.py`) | findings with their successors, and their history | create, supersede | supersede does not look at what is superseded already | the history has everything, replacements lead to an active finding |
| Evidence policy (`evidence_policy.py`, `profile_registry.py`) | none: facts of the run | evaluate, under three profiles | facts arrive in any order, some twice and with other verdicts; of some the last counts | no way back from a result that is not real, and none from a pass but by a loss: of a file, or of the chain's hash |
| Smoke and end-to-end scripts (`smoke_dispatch.py`, `phase7_tool_loop_e2e.py`, reports and baseline of `acceptance.py`) | status files, summary, coverage baseline | run rounds, report, judge, scan | old files of other executions, a look at a file before it is written, a baseline created by two, checks that look at a whole run | a pass is deserved, the exit code agrees with the files, a baseline is a bar |
| Checkpoints, backup (`checkpoints.py`, `services/backup_service.py`) | one file each | write, restore | - | - |
| API, auth, CLI (`api.py`, `security/auth.py`, `cli.py`) | none of their own | parse, call, print | they bring the concurrency | - |
| Registry, profiles, prompts, paths, redaction, analytics, web UI | static or derived | - | - | - |

How they interact: `squad dispatch` selects candidates (scheduler), opens a session
(adapter and provider), moves the node (node service), runs the agent, persists and
applies its result (agent results, node service again) and evaluates the gates
(gate engine). All of them report to the event store. Tool sessions, archives and
reports read and write files beside the database. Nothing else is shared: there are
no callbacks and no in-memory state between processes.

## 2. The modules

| module | models | lives with |
|---|---|---|
| `AppendOnlyLog` | abstract: one log per run that grows by one event at its end | implemented by `EventStore` |
| `NodeMachine` | abstract: a node is created as todo and moves along allowed transitions | implemented by `NodeService`, `Dispatch` and `AcceptanceRunner` |
| `NodeStatus` | `state.py`: statuses and `ALLOWED_TRANSITIONS` | extended by those below that move nodes |
| `EventStore` | `event_store.py`, statement by statement | `MCEventStore`, `EventStoreProofs` |
| `NodeService` | `node_service.py` and the repositories under it | `MCNodeService`, `NodeServiceProofs` |
| `GateRules` | `gate_engine.py`: what a gate looks at and makes of it, as operators | extended by `GateEngine`, instantiated by `AcceptanceRunner` |
| `GateEngine` | `gate_engine.py`, read by read and write by write | `MCGateEngine`, `GateEngineProofs` |
| `Dispatch` | `cli.py dispatch`, scheduler, adapter, both providers, agent results | `MCDispatch`, `DispatchProofs` |
| `AcceptanceRunner` | `run_real_llm_acceptance.py`, conclusion of `acceptance.py` | `MCAcceptanceRunner`, `AcceptanceRunnerProofs` |
| `ToolSession` | `tool_adapter.py`, `tool_permissions.py`, `seal_snapshot` of `snapshot.py` | `ToolLoop`, `MCToolSession`, `ToolSessionProofs` |
| `ToolLoop` | `phase7_tool_loop_e2e.py`, which drives tool sessions | `MCToolSession`, `ToolSessionProofs` |
| `Archive` | `archive_service.py`, read by read and file by file | `MCRecords`, `FilesProofs` |
| `Replay` | `replay.py` and the log migration of `schema_migration.py` | `MCRecords`, `FilesProofs` |
| `Startup` | `migrations.py` and the event store's columns, statement by statement | `MCRecords`, `FilesProofs` |
| `Facade` | operations of `runtime.py`, `lead_decision.py`, `decisions.py` that are several commits | `MCRecords`, `RecordsProofs` |
| `Findings` | review findings in `runtime.py` | `MCRecords`, `RecordsProofs` |
| `RateLimiter` | `rate_limiter.py` | `MCRecords`, `RecordsProofs` |
| `Smoke` | `smoke_dispatch.py`, coverage baseline and risks of `acceptance.py` | `MCRecords`, `FilesProofs` |
| `EvidencePolicy` | `evidence_policy.py`, `profile_registry.py`, the facts of `acceptance.py` | `MCRecords`, `RecordsProofs` |
| `Records` | the eight modules from `Archive` to here, side by side | `MCRecords`, `FilesProofs` |

`MC*` modules only give values to constants. `Records` puts modules that share nothing
side by side: a behaviour of its specification is one of a single module, chosen at the
beginning. The definitions marked `Mutant` are
plausible bugs of the definition that follows them; no specification uses them.
They show that a property can fail: with the mutant in place of the definition TLC
finds the property violated (the pairs are listed in `PROJECT.json`).

### EventStore

`rows[r]` is the table of run `r`, a function from sequence numbers to rows;
`mirror` is `events.ndjson`, a sequence of lines: row keys, or damaged lines; `pc`,
`draft`, `seen`, `dump` and `wrote` are the local variables of each process: where it is,
the event it appends, the count it compared, the lines it selected for a rebuild and how
many of them it has written. `shared` (whether two processes have ever had the store open
at once) and `failed` (the processes that live on without a line they owe) are history.

| action | code |
|---|---|
| `OpenCountRows`, `OpenCountLines` | `_record_consistency_warning_if_needed` (264-279); a difference appends a warning to run `system`, then rebuilds |
| `BeginAppend`, `ReadSequence`, `ReadHash`, `InsertRow`, `WriteLine` | `append` (154-193) and `_append_ndjson` |
| `InsertFails` | the `IntegrityError` of `UNIQUE(run_id, sequence_number)`, which `append` does not catch |
| `WriteLineFails` | the file cannot be opened or written (192, 261) although the row is committed: no line, or a piece of one |
| `RebuildSelect`, `RebuildTruncate`, `RebuildWrite` | `_rebuild_ndjson_from_sqlite` (281-301): SELECT, open with "w", write one line after the other |
| `RebuildCut` | the rebuild ends, by a death or an exception, with a piece of its next line in the file |
| `Close` | the end of a command, or the death of its process at any step |

A hash is modelled as what it digests: `Hash(prev, payload) == Append(prev, payload)`, so
equal hashes mean equal histories (collision freedom is assumed). Rows without hashes are
those `_ensure_hash_columns` finds in a database of an older version. A line of the mirror
is its row's key, or damaged: `Torn` has no newline, so that what comes next continues it
(`Join`), `Garbled` has one and cannot be read. Both count as lines at start-up. The
rebuild's `ORDER BY run_id, sequence_number` puts each key at its rank (`Place`, `UpTo`,
`AllKeys`). A rebuild writes from the start of the file: over lines that others have
appended since the truncation, of which it leaves pieces, or, if another rebuild has
truncated the file again, beyond its end (`Written`). There an abstraction is made: a line
is longer or shorter than the one it overwrites by less than a line (`Beyond`). Buffered
bytes reach the file a line at a time, and a piece only where the process does not go on.

### NodeService

One run's nodes. `call[p]` is the call process `p` is in, with what it has read;
`audit` and `moved` are history variables: the `node_status_changed` events in the
log and the changes that took place. `TransitionNode` holds the checks that need no
read, `GetNode` and `GetRun` the reads and the conflict check, `UpdateStatus` the
`UPDATE ... WHERE status = from` that may match nothing, `IncrementVersion` the
version, `ReadSequence`/`InsertEvent`/`InsertFails` the append, reduced to what
`EventStore` shows of it. The model starts from a run at any point of its life.

### GateEngine

`facts` is `agent_results` (agent, status, source), `evidence` what the strict
gates look for among the events, `gates` the rows of `gate_states`, `announced` the
last `gate_status_changed` event per gate. `Begin`, `ReadFacts`, `ReadNodes`,
`ReadEvents`, `ReadResults`, `ReadChain`, `DecideRelease` are the reads of
`evaluate_all`, `UpsertGate` and `AppendEvents` its writes. `SubmitResult`,
`MoveNode` and `RecordEvent` are everybody else. Two fields of an evaluation are
history: `began` (the results when it began) and `disturbed` (whether anything has
changed since). The metadata of a decision (reason text, counts) is left out.

### Dispatch

`task[p]` is the work of one `squad dispatch` command: its queue of candidates and
the session of the node at its head. `Select` is `select_dispatch_candidates`;
`StartSession`, `Look`, `Check`, `Update`, `LogTransition` claim the node (a node
found not ready any more is *not* claimed, but its agent is run all the same);
`Work` is the CLI with its health check, timeout and parsing, whose outcome is a
verdict, `unavailable`, `invalid` (parsed, but rejected) or `malformed` (validation
itself raises); `Settle` is `_mark_unavailable`/`_block_node`; `Persist`,
`SubmitEvent`, `ApplyResult` are the agent result service; `CompleteSession`,
`EvaluateGates` end the session. `Raised` is what an exception leads to: one
fallback to `fake_cli`, for this node only (`Using`), where the profile asks for it,
otherwise the end of the command. `LoseAppend` and `Die` may strike at every step;
`MoveNode` is operators, API and `mark_progress_timeout`. `claims`, the `claim` of a
task and `raised` (the claims whose command an answer ended by raising) are history.
`Automatic` is empty for `AgentRegistry.default()`, which the command uses; other
registries may fall back.

### AcceptanceRunner

One scenario. `at`, `turn`, `upstreamOk`, `retries`, `answer` and `move` are the
runner's local variables; `status`, `results` and `gates` are the tables; `troubled`
are the agents with an event that the report counts as a risk; `sessions` is history.
`BeginTurn`, `LookAtRelease`, `Record`, `Evaluate`, `LastEvaluate` are
`_run_scenario`; `Block` and `RecordBlocked` are `_dependency_block`; `Claim`, `Work`,
`Settle`, `Notice` are a session as in `Dispatch`, and `Retry` the loop around it;
`Report` is `write_report`. Every transition is a `CheckMove` that may raise and an
`UpdateMove` that may match nothing, and `Raise` is any other exception. `MoveNode`
and `OthersEvaluate` are operators, the API and `eval-gates`.

Two parts are coarser than in their own modules: an evaluation of the gates is one
step here (its reads and writes are `GateEngine`'s), and nobody else dispatches the
scenario's nodes while it runs (`Dispatch` has that). The report's other checks, of
coverage, evidence and the code index, are one free choice: they can only turn a PASS
into a FAIL.

### ToolSession and ToolLoop

`sess[s]` is a session object and the place its process is at; `log` counts the events
of each session by type; `file` is the workspace, a file being the set of its
passages; `stored` the snapshots. `StartSession`, `BeginCall` (time, budget),
`Request`, `Refuse`, `Allow`, `Run` (permissions and the tool up to its effect),
`Deny`, `Write`, `Fill`, `CollectFiles`, `CopyFiles`, `Record`, `Register`, `ReportCall`,
`Complete`, `EndSession` are `call_tool_in_session` and `call_tool` in the order of
the code. Every append may raise, before its row is committed or after it (`Raises`:
`event_store.py:171-192`), so that the log may have the event all the same. A write empties
the file (`Write`) and then fills it (`Fill`); a snapshot hashes and copies file by file,
to the directory of the id it has computed (`Directory`, `Keep`), over what is there. A
tool that raises does so before its effect (`Break`), in the middle of a write (`BreakFill`)
or of a copy (`BreakCopy`), and leaves some of the new and of the old contents. A
snapshot's id is what its manifest was computed from. `executed`, `botched` (reports whose
append raised), `patched`, `spoiled` (paths of which two writes overlapped or one was cut
short), the `shaken` of a session and the `sound` of a copy are history. `ToolLoop` adds the driver: a
scenario at a time (`Open`, `AskNext`, `Work`, `Hear`, `CompleteMine`, `Check`), and
the report. Its behaviours are those of the script, or of free sessions.

### Archive, Replay

`task[p]` is an archive or export in progress. A table is the number of its changes, an
event its type. `ReadTable`, `ReadEvents`, `WriteArchive`, `WriteManifest`,
`WriteExport`, `Announce` are the steps of `archive_run` and `export_run_log`;
`ChangeTable`, `AppendEvent` everybody else. The two have a limit each for their query of
the events (`LimitOf`), which an archive makes last and an export right after it has read
the run (`EventsFrom`). `torn`, `disturbed` and `alone` are history.

`Replay` begins with an export, or with a log that says "1.0": the rows' hashes in it, in
either of the two spellings that `verify_event_chain` knows, after any number of legacy
rows without (all of them in the fixture of `test_schema_migration_v1_to_v2.py`). It lets
somebody alter payloads and cut events out (`Alter`, `CutOut`), migrates (`Migrate`), and
asks of every file what `verify_event_chain` and `reconstruct_state` say. `logged`
and `legacy` are history: the payloads before anybody touched the file, and how many of
them had no hash then. `HasHash` is the verifier's test, for both spellings; `HasAnyHash`
and `StripHashes` know camelCase only, as `replay.py:20` and `schema_migration.py:13` do. `CutOut` spares the last event: no
hash can tell a log that lost its end from one that has not got there yet.

### Startup, Facade, Findings

`Startup`: `boot[p]` is where a start is. SQLite commits every CREATE and ALTER at once
until the first INSERT of a start opens a transaction (`open`, with its `draft`), which
`OpenEvents` commits. `Break` is an exception, `Abort` a death.

`Facade`: `InsertRow` and `AppendTrail` are `create_run`, `record_directive` and
`apply_directive`; `Validate`, `CheckOperation`, `Reject` the dry run;
`RecoverRunningDispatches`, `CheckRunning`, `UpdateRunning`, `AppendRecovery` the
recovery. `Interrupt` is an append that raises, or a death.

`Findings`: `GetReviewFinding` is the read before the transaction
`SupersedeReviewFinding`.

### RateLimiter, Smoke, EvidencePolicy

`RateLimiter`: `WaitBeforeDispatch` computes the wait and sleeps or calls; `Wake` may be
late; `Answer` and `RecordProviderError` end the call. `called` and `limited` are
history.

`Smoke`: `exec[e]` is an execution of the script, `run` the run of each of its rounds.
`WrongDirectory`, `Preflight`, `Dispatch` (with its retries), `CheckRun`,
`EvaluateCoverage`, `CreateBaseline`, `FillBaseline`, `Judge`, `Scan`, `WriteSummary` are
its steps, `Fail` what an exception leads to, `Raise` and `Kill` where it comes from. A
failure looks for the status file (`Fail`) and writes it in a step of its own
(`WriteFailure`); `raced` is history: the names of which another execution has written a
status in between. An exception outside a round ends the script without a status
("quit"), as the wrong directory does. Status files and the summary are taken to be
written at once or not at all.

`EvidencePolicy`: actions add facts one at a time, in any order; a seal of the chain counts
by its last event, which may have no hash (`SealChain`). `Evaluate(p)` is the gate under
profile `p`.

## 3. What the runs check

| run | instance | question and answer |
|---|---|---|
| `chain` | 2 processes, 2 runs (`system` and one other), 2 rows per run, up to 1 of them without hashes, 2 payloads | Is each run's table a gap-free verifiable log under concurrent appends, rebuilds and deaths? Yes: the UNIQUE constraint is what makes the two reads belong together. Does opening repair the mirror, wherever a write or a rebuild was cut short? Yes, as long as no two processes have ever had the store at once, but for damaged lines, which count as lines. |
| `startup` | 2 processes | The same with two processes: **violated**, see findings. |
| `race` | 2 processes, 1 node in any status, 2 calls that end, 1 death | Do concurrent transitions respect the state machine, and do events and version account for them? Yes. |
| `legacy` | 1 evaluator, 3 nodes, 2 changes, 1 death | Do decisions made of several reads stay safe, and are undisturbed ones exact? Yes. |
| `strict` | 1 strict evaluator, runs that are nearly releasable, 2 changes | The same for the strict gates. Yes. |
| `release` | 2 evaluators | Does release=pass imply that the other rows say pass? **Violated.** |
| `dispatch_race` | 2 fair commands, 1 node, the default profiles, malformed answers, 2 operator moves, no fault | Do closed nodes stay closed, and does every node that is running leave running, whatever two dispatchers and an operator do to each other? Yes, unless the answer of the session that claimed it raises: that one runs for ever. |
| `dispatch_lone` | 1 command at a time, 3 nodes of 2 owners, limits 1 and 2, 2 operator moves, 2 faults | Do the limits hold, does every verdict have its result, and does an answer count for its own claim only? Yes. |
| `dispatch_session` | 1 command, malformed answers | Is every started session completed? **Violated.** |
| `runner_team` | 5 agents: one that stands for all before the gates', the three of the gates, the one that releases; 1 retry, 2 moves (to ready or canceled) | Does an agent run only when those before it have passed, is a PASS deserved, is every node settled, and does every scenario end? Yes. |
| `tools` | a session with up to 3 calls that patch the two passages of a file beside one that writes it anew, or the script with 5 sessions, which reads, lists, registers and calls an unknown tool; budgets 2 and 5, 1 append, tool, write or copy that raises | Do budgets, counts and ends agree with what took effect, do patches survive each other, are snapshots what their ids say, and is the script's verdict right? Yes; writes that overlap or are cut short, and copies broken off, are named in the properties. |
| `records` | 8 modules, each by itself; see below | Are archives exact, altered logs rejected, starts repeatable, events in order, findings traceable, calls paced, smoke tests honest and evidence sound? Yes. |

The instances in `records`: 2 processes archive 2 tables, with 2 jobs, 1 event and 1
change per table by others, and query limits of 1 for archives and 2 for exports, so that
both are met; logs of up to 3 events over 2 payloads, in two spellings and with any number
of legacy rows, 3 alterations; 3 starters that start 4 times, from a new and from
an old database; 2 clerks with 2 calls on 2 nodes, 1 interrupt; 2 reviewers, 5 findings;
an interval of 2, cooldowns of 3 and 1 (longer and shorter than it), a clock up to 8 and
sleeps that end 1 late; 2 executions of 4 command lines, 2 agents, 2 rounds, 1 retry, 1
fault; all sets of facts.

Bounds. Two processes are enough for a race between a read and a write, and the proofs
below lift the safety results to any number. `MaxSeq = 2` has a hashed row after one of an
older version, and one after a hashed one; it also lets start-up append two warnings. One
death per instance leaves a half-done operation, and the survivor or a successor meets it.
Three starters are two that race and a third that finds what they left. Two moves let an
operator take a running node away and give it back (blocked, then ready), which is what a
late answer needs; two sessions per node are then the claim that is late and the one that
came after it. Symmetry is used over processes and, in the event store, over payloads,
never in a run with liveness. Deadlock checking is off where a bound ends every behaviour.

Fairness. `dispatch_race` assumes weak fairness of each command's own steps, and
`runner_team` that of the runner's. The code justifies it: a process that is not
killed runs on, an agent's CLI is ended by its timeout (`process_runner.py`), and
nothing in a session waits for another process. Nobody is obliged to run `squad
dispatch` again, so `Select` is not fair. `RunningEnds` is about every node, and names
what it excepts, because with it the claim is false: deaths, lost appends, and the node
whose own session was ended by an answer that raises (`LeftByAnswer`). Nothing falls back
then (no default profile is automatic, and `dispatch_race` has none), and
`recover_running_dispatches` (`runtime.py:270`) is called by tests only. An
`InvalidTransition` that ends a command, an answer that comes too late, and one that
raises in a session that has not claimed the node are not excepted. No other run states
fairness; what they check is safety.

## 4. What is proved

TLAPS proves, for any finite or infinite sets of processes and payloads, any number of
runs, and any bounds that satisfy the named assumptions. `StoreAssumption`,
`NodeAssumption`, `GateAssumption`, `DispatchAssumption`, `RunnerAssumption`,
`LimiterAssumption`, `ToolAssumption`, `ScenarioAssumption`, `ArchiveAssumption`,
`ReplayAssumption`, `StartupAssumption`, `SmokeAssumption` and `FacadeAssumption` are no
more than the types of the constants and these: `RunOrder` is the finite sequence of the
runs, in `Dispatch` and `Facade` a run has finitely many nodes, and no node is a number
where events are about nodes or rows, `Rank` is injective, no agent has two turns, a limit
is given, operators do not set a node to running, pass or fail, every path a write may go
to is one of the workspace, tables, provider and hash columns are distinct names, a team
and the settings of smoke tests are not empty, and `None` is no payload. For the script,
`MainAssumption` says of its scenarios what `phase7_tool_loop_e2e.py` sets up: each has a
session of its own, those with agents come first, every agent may read `hello.txt`, and
the rounds are enough for the calls, or the two that the scenario `max_rounds` is about.

Every safety property that a passing run checks, whether of states or of steps, is proved.

| theorem | says |
|---|---|
| `ChainInvariant` | `Spec => []ChainInv` |
| `TableTypeCorrect`, `ChainAlwaysVerifies`, `SequencesGapFree` | types of the table and the appends; `verify_chain` reports only rows of older versions; no holes |
| `StoreImplementsLog` | `EventStore` implements `AppendOnlyLog` |
| `MirrorAlwaysShowsTable` | no readable line without its row, whoever dies where; an open store that was never shared has exactly one line per row, unless a line is damaged or its process has failed to write one |
| `MachineInvariant`, `TypeCorrect`, `BlockedAlwaysHasReason` | types, checked calls, reasons of `NodeService` |
| `ServiceImplementsMachine` | `NodeService` implements `NodeMachine` |
| `AuditNamesSources`, `MovesAreRecorded` | events name statuses the node had and left; every move has its event and its version |
| `GateInvariant`, `GateTypeCorrect` | `Spec => []GateInv` |
| `FailedTestAlwaysHolds`, `FakeResultAlwaysHolds` | no release, legacy or strict, over a bad result stored before the evaluation began |
| `UndisturbedAlwaysExact`, `UndisturbedStrictAlwaysExact` | an evaluation in whose time nothing changed has decided what the tables say, by up to six reads |
| `LastWriteAlwaysCurrent` | *one evaluator:* at the end of such a legacy evaluation, whatever status it announces, rows and events are what the run deserves now |
| `DispatchInvariant` | `Spec => []DispatchInv` |
| `VerdictAlwaysHasResult`, `ClosedNodesStayClosed` | verdicts have results; no late answer reopens a closed node |
| `DispatchImplementsMachine` | `Dispatch` implements `NodeMachine`: no selection, answer or fallback, however late, moves a node along a transition that is not allowed |
| `VerdictsOfOwnClaims` | *one dispatcher:* a node gets the verdict of the session that claimed it |
| `LimitsAlwaysHold` | *one dispatcher, no node running at first:* never more nodes running than the limits allow |
| `RunnerInvariant`, `TypeCorrect`, `SessionAlwaysNeedsPasses`, `RetriesAlwaysBounded` | for any team, order and retry limit: whom a session has behind it, and how often there is one |
| `PassAlwaysDeserved` | a PASS means one session for every agent, and a pass of all but the last |
| `NodesAlwaysSettled` | a scenario in which operators move nothing leaves no node open |
| `ReleaserAlwaysRunsReleased` | while the releasing agent runs, the release gate is deserved |
| `RunnerImplementsMachine` | `AcceptanceRunner` implements `NodeMachine`, the team being the nodes |
| `ToolInvariant`, `ToolTypeCorrect`, `BudgetAlwaysHolds`, `RoundsAlwaysAccountedFor`, `EndsAlwaysOnce`, together `AccountsAlwaysAgree`; `SpentAlwaysStaysSpent` | for any sessions, budgets, profiles, calls and faults, also of appends that raise after their commit: effects within the budget, rounds and reports accounted for, one end, nothing after the end of time or budget |
| `PatchesAlwaysLast`, `QuietSnapshotsAlwaysExact` | a patch stays, unless writes overlap or are cut short; a snapshot is what its id says once a copy of a quiet workspace is complete and none of another, or broken off, came after |
| `LoopImplementsSession`, `LoopAccountsAgree` | `ToolLoop` implements `ToolSession`, and inherits the accounts |
| `VerdictAlwaysRight` | for any number of scenarios of each kind and any faults: a PASS of the script is earned by what every session did and where it ended, a FAIL has a fault or a time that ran out |
| `PairAlwaysAgrees`, `CopiesAlwaysExact` | archive and manifest belong together; an undisturbed copy is the run, up to the limits of the queries |
| `ReplayAlwaysSound` | for logs of any length, spelling and age and any number of alterations: what verifies has the payloads logged with a hash, in camelCase nothing else that has hashes is reconstructed, and what has none never verifies |
| `SchemaAlwaysComplete`, `StartsAlwaysSucceed` | for any starters that race and die: a version has its schema, a lone start succeeds, and of several not all fail |
| `StatusAlwaysHonest`, `BaselineAlwaysHolds` | for any settings, teams and executions at once: a pass is clean, exits and summary agree with the files but for raced names, the baseline is a bar |
| `TrailsAlwaysInOrder`, `AnswersAlwaysHold` | for any clerks, nodes and plans: events in their order, accepted changes spare done nodes, a recovery clears |
| `FindingsInvariant`, `HistoryAlwaysTellsAll`, `ChainsAlwaysEndActive` | for any number of reviewers: no finding without origin, rows show their latest replacement, chains end at an active finding |
| `PacingInvariant`, `CallsAlwaysPaced`, `WaitsAlwaysBounded`, together `PacingAlwaysHolds` | for any settings and however late sleeps end: calls keep their distance and no cooldown is broken, and no wait exceeds the longest setting |
| `GateAlwaysMonotone` | for all facts in any order: a result that is not real shuts the gate for good, and only such a result, a missing file or a seal without hash takes a pass back |
| `RecordsAlwaysTyped` | the types of archives, starts and smoke tests, whatever the modules beside them do |

The italics are hypotheses of the theorem (`ASSUME \A p, q \in Proc : p = q`). They are
what the property is claimed for: with two processes it fails. An instance with one
process still has every death, restart and operator in it.

The arguments. The strengthened invariants stand in the components' modules, after the
property they are for, where TLC can check them too.

* *Chain.* That the chain verifies is not inductive: it must be known what a
  process in the middle of an append has read. `ChainInv` adds that each table is a
  sequence, that rows without hashes come first, and that a draft about to be
  inserted **whose place is still vacant** has read the hash of what is still the
  last row. The last part is the heart: somebody else's insert makes the draft's
  hash wrong, but takes its place at the same time.
* *Mirror.* `MirrorInv` is in two parts. `Committed` holds with any number of processes:
  a line, also one that waits in a rebuild's selection, is written after its row, and
  wherever it is written, over others or beyond the end, what is left of these is a line
  or damaged (`JoinWithin`, `WrittenWithin`). `Lone` holds while the store was never
  shared: no readable line stands in the mirror twice, and the one process that is in the
  store says by its place what the mirror lacks -- nothing, the row it has just inserted,
  or what its rebuild has selected and not yet written (`LoneStep`). Rebuilds and writes
  that are cut short leave a count that differs, or a damaged line. That equal counts of a
  whole mirror mean equal sets is then a matter of finite sets (`KeysAreFinite`). That the rebuild selects
  every row once (`EveryRowSelected`) comes from ranks: `UpTo` maps the keys one-to-one
  into the numbers up to their count.
* *Node service.* A call in progress has passed `ensure_transition_allowed`
  (`CallChecked`); the guarded UPDATE then makes the change a legal one whatever
  the stale reads were. An UPDATE that matches nothing is a stutter. For the audit,
  `SourceInv` says of a call that has read its node: the node is still there, or somebody
  has moved it from there; both make the event true. `MovesInv` finds for every move
  without an event the call that still carries it, and counts those whose version is
  outstanding.
* *Gates.* Results are never removed, so those found at the beginning are among
  those of every later read; `EvalInv` carries the consequences for the decisions
  made so far. `ExactInv` says of an undisturbed evaluation that every gate it *has*
  decided is what the tables say, the release gate being decided from the others; a
  change of the tables disturbs every evaluation in progress. `Written` follows a sole
  evaluator through the rows and events behind the place it has reached, those included
  that an earlier evaluation had left right.
* *Dispatch.* `TaskInv` says of each task that a transition under way is an allowed
  one, and that one to pass or fail comes after the stored result. `Closed` is
  closed under allowed transitions, and the UPDATE is guarded; so every change of a status
  is a step of `NodeMachine`, whoever has moved the node in between. For the limits, what runs
  together with *what is still in the queue* is within them (`LimitInv`), although some
  of the queue may never be claimed; operators only take away. For claims, no node of the
  queue is running, and the node at its head is running only by the command's own claim
  (`ClaimInv`).
* *Acceptance runner.* `upstream_ok` is overwritten after every session, so it
  must be shown to stand for *all* earlier agents (`PassesBehind`): a session starts
  only while it is true, and only a stored pass keeps it so. `SessionsCounted` ties
  the retries to the sessions of the turn. That a PASS is deserved is shown from
  what the events record (`UntroubledSoFar`): a block, a retry or a failed session
  leaves an event that the report counts, so a scenario without one has gone straight
  through. `SettledInv` is the place of every node in a scenario nobody meddles with.
  `ReleaseInv` says that agents later in the order have no result yet: the gates rest on
  results of agents that give no other, so a release that was deserved stays so.
  For `NodeMachine`, `MoveAllowed` is what the check leaves for the UPDATE.
* *Tool sessions.* The budget is checked before the call, the round is taken at one of
  several exits, and a report that raises after a success takes a second one, whether it is
  in the log or not: the events of a session are between its calls and its rounds. The
  invariant is one of each session (`Good`): between check and exit the rounds are
  below the budget, after an effect they are one behind, and only a session that is
  `idle` may be out of time or rounds. `EmitKeepsInv` reduces every event to two
  objects, the one after it and the one after it has raised. `ReadInv` and `HashInv` add
  what a session has read, hashed or copied: it is still there, unless another write was;
  a directory stays sound as long as what is copied to it is what its id says.
* *Tool loop.* A step of the script is a step of one session with arguments of the
  scenario, or a stutter; that the arguments are the session's calls needs `LoopInv`, that
  the driver is at a scenario that exists and never asks beyond its calls.
* *The script's verdict.* `VerdictInv` divides the scenarios. Those to come have untouched
  sessions (`UntouchedInv`). Those that are over have gone as they should or are remembered
  in `failed`, and a failure had a reason (`OverInv`). Of the one under way `RunsRight`
  says, call by call, which call the session is in (`CallRight`), how rounds, effects and
  reports go with the calls as long as nothing has raised (`CountsRight`), and what becomes
  of it if the time is as it should be (`Smooth`). `DeniedInv` is needed because the
  script counts denials over *all* sessions: until the last kind of scenario there are none.
* *Archive.* `CopyInv`: of archives at the same time none counts itself alone, so one that
  does has its own two files; a task nobody has disturbed has what it read as it still is.
  A final export's own event is at the end of the log when it is recorded, and within the
  query's limit unless the log is longer than that (`FinalInv`).
* *Replay.* `ReplayInv` (`Digested`): the last event's hash digests all that was logged,
  whatever was altered before it. A chain that verifies has, by `ChainDigests`, a last
  hash that digests exactly the payloads in the file; so these are the payloads that were
  logged with a hash, and legacy rows before them make it fail. The chain
  is as long as the file, and `ChainDigests` is shown without induction over it: of the
  places where it fails there would be a least (`WFMin`), and the one before it holds.
* *Start-up.* `SchemaInv` says what a start that has come so far *sees*, its transaction
  included, and that at most one has a transaction. For success it must be known who is
  unhindered: columns are added in one order, so whoever adds one that is still on the
  lists of others is ahead of all of them (`StartsInv`).
* *Smoke.* `SmokeInv` ties a status to its round, which nobody returns to once it is over,
  and the first report's coverage to every pass since. `ExitInv` says of a failure that is
  about to be written that it has found no file, or that its name is in `raced`; only then
  can it replace a word that another execution relies on.
* *Facade.* A row has one call that writes its trail (`TrailInv`), and that call has in
  hand what is not on record yet. A node that is done stays done, so the operations checked
  so far spare what was done at the beginning (`Validated`); a recovery's list still
  has what has not left running (`Recovering`).
* *Findings.* `CHOOSE` of the latest entry is replaced by its existence
  (`ShowsLatest`): an entry appended at the end is the latest of its finding and
  changes nothing for the others. A row that is new has no entry yet because
  entries name rows that exist (`EntriesNameRows`). A replacement is younger than what it
  replaces (`Forward`): following `n` of them from one of `n` findings would pass the
  youngest, so the chain has ended before, at one that is active; again the least
  counterexample stands for induction.
* *Rate limiter.* The limiter keeps two times, the property speaks of all calls and
  limits. `LastIsLatest` and `UntilIsLatest` say that the two stand for all of them,
  and `SleepIsEnough` that a sleeper need not look at them again.
* *Evidence.* Facts only grow, but for the hash of the last seal, so each requirement that
  was met stays met (`FactsGrow`); the exceptions are the three the property names.
* *Types of the records.* A step of `PartsSpec` is a step of each module's own
  specification or a stutter of it, so what is shown of `Archive`, `Startup` and `Smoke`
  holds of it too. Their invariants imply most types; `ManifestTypes` and `RestTyped` are
  the rest, shown on top of them.

What the proofs have corrected in the models. `AlteredLogRejected` was about one
alteration. Two can undo each other, and the property is now stated for any number of
them: it compares the file with what was logged. An order of keys computed by `SelectSeq`
or a sort could not be reasoned about, nor was it what the code says: `ORDER BY` is now a
rank, and the columns a start finds missing (`Lacking`) are those missing, in the order of
the list. A `CASE` with overlapping guards in `Facade` left the answer to a choice. Change
sets may be empty. The types of a call's plan and of a scenario's calls have become named
assumptions. A manifest's failures are the positions of the failed events, a set: that is
what `archive_service.py` finds, and no `SelectSeq` is needed. The risks and
troubles of smoke tests are the named ones (`Risk`, `Trouble`) and not any string.

## 5. What is only model-checked

The liveness properties `RunningEnds` and `Terminates`: liveness under fairness, and the
`ENABLED` in it, are beyond the prover.

The properties of the runs that expect a violation (`StartupRepairsMirror`,
`ReleaseBehindGates`, `SessionsComplete`) are false, see findings.

`LoneRuntimeMirrorExact` (a part of `MirrorShowsTable`), `LimitsHold`,
`VerdictOfOwnClaim` and `LastWriteIsCurrent` are claims about one process at a time (the
first says so in its condition, the others by the hypothesis of their theorem and by
their instances); with two they fail. One at a time is how the code is documented to be
used (runbook.md:132: "Ensure single Runtime instance").

Several of the checked properties are conjunctions of named parts, each with a comment
of its own: `MirrorShowsTable`, `SessionAccounts` (`BudgetHolds`, `RoundsAccountedFor`,
`EndsOnce`), `VerdictIsRight`, `CopiesExact` (archives and exports), `ReplayIsSound`,
`SchemaComplete`, `StartsSucceed`, `AnswersHold`, `PacingHolds`, `StatusIsHonest`,
`BaselineHolds`, `GateIsMonotone`. What is proved of every instance and implied by the
inductive invariants (types, `CallChecked`, `BlockedHasReason`, `RetriesBounded`,
`GapFree`) is not checked again by a run.

## 6. Findings

* `startup`: start-up compares the *number* of rows and lines. An append that races
  a rebuild can write its line twice while a killed process leaves another line
  missing; the counts agree and the mirror stays wrong. architecture.md:74 promises
  a rebuild whenever the two diverge.
* `release`: two overlapping evaluations leave `test_gate = fail` from one and
  `release_gate = pass` from the other. architecture.md:86 says the release gate
  requires all three.
* `dispatch_session`: validation of an answer with a field of another type raises
  outside the `try`, so the session has no `llm_session_completed` event
  (impl.py:324 guarantees one) and its node stays running.

What the models show besides, without a line that promises otherwise or without a run
of its own:

* A stored result counts for the gates even if its node has been canceled or made stale
  since, although llm-agent-runtime-hardening.md:18 defines the active path as what
  gates use.
* The runner looks at the release gate and at `upstream_ok` before the release agent's
  turn; either alone would do (`ReleaserRunsReleased` fails only when both are
  weakened). And a report says PASS although the last agent has answered "fail" or
  "blocked": its result is in no gate and is no risk, which is why `PassIsDeserved`
  excepts it.
* An export has no hashes, so `replay` can show its events but never verify it
  (known-limitations.md:12 speaks of new archives, not of exports).
* An export beyond 100000 events is cut at its own limit: a final one then lacks the event
  that says so (`FinalExportIsMarked`).
* The verifier of a log knows two spellings of the hash fields, `has_any_hash` and the
  migration one: a snake_case log is reconstructed although it was altered, and keeps its
  hashes through the migration. A camelCase log of legacy rows followed by hashed ones, the
  mirror of an upgraded store, is rejected although nobody has touched it
  (`AlteredLogRejected` claims the converse for logs hashed throughout only).
* An append raises after its row is committed when the line of the mirror cannot be
  written. A tool call may then be reported twice, as a success and as an error, and take
  two rounds; and the process that lives on works with a mirror that lacks a line.
* A piece of a line that a killed writer left in the mirror counts as a line: the next
  start finds as many lines as rows and repairs nothing (`Whole` excepts this case).
* A `write_text` that fails has emptied its file before, and takes all earlier patches with
  it; a copy that fails leaves a partial snapshot under the id of the whole one, even over
  an earlier, complete copy.
* Of two first starts at once one may fail on a column or a version the other has just
  made; the next start repairs whatever is left.
* Beyond 10000 events an archive's `finalEventHash` belongs to an event that is not in
  it (`UndisturbedArchiveExact`, a part of `CopiesExact`, excepts this case).
* In one process calls come one after the other and each has waited for the cooldown
  there is, so the `max` with which the limiter stores the next one never decides.
* A status file may say pass after an execution that failed; the code means to keep it
  (`overwrite`). And one may say fail after an execution that passed: the failing one has
  looked for the file before and writes after it (`raced`).
* A smoke test may exit with 1 without any status: with a directory that is not called
  .squad, or when its preflight raises.
* `recover_running_dispatches` also moves nodes whose dispatch command is at work.
* `event_hash_chain_sealed`, which the evidence policy of a real acceptance asks for, is
  recorded by `phase6_real_project_runtime.py`, by tests and by `log-event` only; a later
  one without a `finalEventHash` takes a passed gate back.

## 7. Not modelled

JSON, hashing, prompts, workspaces, redaction, path checks, argument parsing, HTTP,
the web UI and analytics: they turn single values into others and keep no state.
SQLite is taken to serialise statements (WAL mode, `busy_timeout`); "database is
locked" would be one more way for a statement to raise, and each is already allowed
to be a process's last. Evidence items and artifacts are stored but decide nothing
in the legacy gates; the strict gates see them as events. Registry, profiles and
prompts are static. Checkpoint records and backups are one file each, written once by
one command. `schema.py` is no longer called. The remaining scripts
(`phase6_real_project_runtime.py`, `smoke_edge_cases.py`, `smoke_gate_deps.py`,
`phase7_collect_quality.py`, `fix_manifest.py`) are straight-line programs of the
modelled operations on a database of their own. The cursor of a second page of
`query` is used by the HTTP API and a script only; `GapFree` is what it relies on.

## 8. Plan

The runs are kept to a dozen, each with its liveness and its refinement in it where the
instance allows. What is left, in the order of what it would add:

1. Composition of `GateEngine` with the results that `Dispatch` produces, so that
   verdicts, late answers and gates meet in one state.
2. An abstract archive -- a prefix of the log, and a moment for each table -- that
   `Archive` implements when nothing dies.
3. Proofs of the two liveness properties, once a prover handles `ENABLED`.
