---------------------------- MODULE ToolSession ----------------------------
(***************************************************************************)
(* Tool sessions of agents (tool_adapter.py) on one workspace, and the     *)
(* snapshots their writes seal (snapshot.py).                              *)
(*                                                                         *)
(* A session is an object of one process: its rounds, status and list of   *)
(* calls are in memory, and what it does is appended event by event to the *)
(* run's log, where any append may raise before its row is committed or    *)
(* after (EventStore has the reasons).  The workspace and the checkpoint   *)
(* directory belong to all sessions.  A process that dies is a session     *)
(* that takes no further step.                                             *)
(*                                                                         *)
(* The contents of a file are the set of its passages: a patch replaces    *)
(* one by another, write_file replaces all of them.  The id of a snapshot, *)
(* a hash of its manifest, is what the manifest was computed from;         *)
(* contents that differ in line ends or Unicode form count as equal.       *)
(***************************************************************************)
EXTENDS Naturals, FiniteSets

CONSTANTS Session,
          Budget,    \* Budget[s] is max_tool_rounds of the session
          Profile,   \* [tools, read, write]: what the session's agent may use, read and write
          Outside,   \* paths that leave the workspace, or are in .squad
          Command,   \* ids of the registered test, build, lint and scan commands
          Workspace, \* the contents of the files at the beginning
          Call,      \* Call[s] are the calls the session's agent makes
          MaxCalls,  \* bound: MaxCalls[s] calls in the session
          MaxFaults  \* bound: appends and tools that raise

VARIABLES sess,     \* the session objects, and where their processes are
          log,      \* number of a session's events in the run's log, by type
          expired,  \* whether a session's time is over
          file,     \* the workspace
          stored,   \* .squad/checkpoints: the copy kept under each snapshot id
          executed, \* history: tools that took effect
          botched,  \* history: appends of tool_call_completed that raised
          patched,  \* history: passages patched in, and not replaced since
          spoiled,  \* history: paths of which two writes were in progress at once, or one
                    \* was cut short
          faults

vars == <<sess, log, expired, file, stored, executed, botched, patched, spoiled, faults>>
files == <<file, stored, patched, spoiled>>

Path == DOMAIN Workspace
Reads    == {"read_file", "list_files", "register_artifact", "request_snapshot_seal"}
Writes   == {"write_file", "apply_patch"}
Commands == {"run_test", "run_build", "run_lint", "run_scan"}
Tools    == Reads \cup Writes \cup Commands \cup {"register_verification", "seal_snapshot"}

Capability(tool) == CASE tool \in Reads -> "read" [] tool \in Writes -> "write" [] OTHER -> "test"

\* The types of events that are counted.
Event == {"tool_call_denied", "tool_call_allowed", "tool_call_completed", "tool_session_completed"}
Status == {"none", "active", "success", "denied", "timeout", "max_rounds_exceeded"}
Phase == {"idle", "request", "refuse", "allow", "run", "deny", "write", "fill", "seal", "copy",
          "record", "register", "report", "end"}
Outcome == {"success", "denied", "error"}

Calls == UNION {Call[s] : s \in Session}
NoCall == CHOOSE c \in Calls : TRUE

\* Every path a write may go to is one of the workspace, if only as an empty file.
ASSUME ToolAssumption ==
    /\ Calls # {} /\ Budget \in [Session -> Nat] /\ MaxFaults \in Nat
    /\ Workspace \in [Path -> SUBSET UNION {Workspace[p] : p \in Path}]
    /\ \A c \in Calls : c.tool \in Writes /\ c.arg \notin Outside => c.arg \in Path

Fresh == [at |-> "idle", status |-> "none", rounds |-> 0, calls |-> 0, begun |-> 0,
          call |-> NoCall, outcome |-> "success",
          seen |-> {}, todo |-> {}, id |-> Workspace, shaken |-> FALSE]

Init == /\ sess = [s \in Session |-> Fresh]
        /\ log = [s \in Session |-> [e \in Event |-> 0]]
        /\ expired = [s \in Session |-> FALSE]
        /\ file = Workspace
        /\ stored = {}
        /\ executed = [s \in Session |-> 0]
        /\ botched = [s \in Session |-> 0]
        /\ patched = {}
        /\ spoiled = {}
        /\ faults = 0
-----------------------------------------------------------------------------
Do(s, t) == sess' = [sess EXCEPT ![s] = t]

\* record_event(): the event is in the log; or the append raises, before the row of the event
\* is committed or, while the line of the mirror is written, after.
Counted(s, event) == IF event \in Event THEN [log EXCEPT ![s][event] = @ + 1] ELSE log
Fault == /\ faults < MaxFaults
         /\ faults' = faults + 1

Logged(s, event, next) ==
    /\ log' = Counted(s, event)
    /\ Do(s, next)
    /\ UNCHANGED faults
Raises(s, event, raised) ==
    /\ Fault
    /\ log' \in {log, Counted(s, event)}
    /\ Do(s, raised)
Emit(s, event, next, raised) ==
    /\ Logged(s, event, next) \/ Raises(s, event, raised)
    /\ UNCHANGED <<expired, files, executed, botched>>

\* The call is over: it has returned, or raised ToolPermissionError or something else.
Leave(t, outcome) == [Fresh EXCEPT !.status = t.status, !.rounds = t.rounds, !.calls = t.calls,
                                   !.begun = t.begun, !.outcome = outcome]

\* _complete_tool_session(): only an active session ends, and its event comes after.
\* Mutant: an end readies a session for another use.
EndReset(t, status) == IF t.status = "active" THEN [t EXCEPT !.status = status, !.at = "end", !.rounds = 0]
                       ELSE Leave(t, t.outcome)
End(t, status) ==
    IF t.status = "active" THEN [t EXCEPT !.status = status, !.at = "end"] ELSE Leave(t, t.outcome)

StartSession(s) ==
    /\ sess[s].status = "none"
    /\ Emit(s, "tool_session_started", [sess[s] EXCEPT !.status = "active"], sess[s])

\* complete_tool_session().
Complete(s) ==
    /\ sess[s].at = "idle" /\ sess[s].status # "none"
    /\ Do(s, End([sess[s] EXCEPT !.outcome = "success"], "success"))
    /\ UNCHANGED <<log, expired, files, executed, botched, faults>>

(***************************************************************************)
(* call_tool_in_session(): the time, the budget, the three events before   *)
(* the tool is called.  Nobody looks at the session's status.              *)
(***************************************************************************)
Spent(s) == sess[s].rounds >= Budget[s]

\* `late`: whether the session's time is over by now.
BeginCall(s, c, late) ==
    /\ sess[s].at = "idle" /\ sess[s].status # "none"
    /\ sess[s].begun < MaxCalls[s]
    /\ LET t == [sess[s] EXCEPT !.begun = @ + 1, !.call = c, !.outcome = "denied"]
       IN  Do(s, IF late THEN End(t, "timeout")
                 ELSE IF Spent(s) THEN End(t, "max_rounds_exceeded")
                 ELSE [t EXCEPT !.at = "request"])
    /\ expired[s] => late
    /\ expired' = [expired EXCEPT ![s] = late]
    /\ UNCHANGED <<log, files, executed, botched, faults>>

Request(s) ==
    /\ sess[s].at = "request"
    /\ Emit(s, "tool_call_requested",
            [sess[s] EXCEPT !.at = IF sess[s].call.tool \in Tools THEN "allow" ELSE "refuse"],
            Leave(sess[s], "error"))

Refuse(s) ==
    /\ sess[s].at = "refuse"
    /\ Emit(s, "tool_call_denied", End(sess[s], "denied"), Leave(sess[s], "error"))

Allow(s) ==
    /\ sess[s].at = "allow"
    /\ Emit(s, "tool_call_allowed", [sess[s] EXCEPT !.at = "run"], Leave(sess[s], "error"))

EndSession(s) ==
    /\ sess[s].at = "end"
    /\ Emit(s, "tool_session_completed", Leave(sess[s], sess[s].outcome), Leave(sess[s], "error"))
-----------------------------------------------------------------------------
(***************************************************************************)
(* call_tool() and the tools.  Whatever they raise, the call takes a round *)
(* and its outcome is reported; only a success may be reported twice.      *)
(***************************************************************************)
RequireTool(s, tool) ==
    /\ tool # "seal_snapshot"
    /\ {tool, Capability(tool)} \cap Profile[s].tools # {}

AuthorizePath(s, c) ==
    /\ c.arg \notin Outside
    /\ c.arg \in IF Capability(c.tool) = "read" THEN Profile[s].read ELSE Profile[s].write

Permitted(s, c) ==
    /\ RequireTool(s, c.tool)
    /\ c.tool \in {"read_file", "register_artifact"} \cup Writes => AuthorizePath(s, c)
    /\ c.tool \in Writes => c.base = "checkpoint"
    /\ c.tool \in Commands => c.arg \in Command
    /\ c.tool = "apply_patch" => c.old \in file[c.arg]

ReportUncounted(t, outcome) ==     \* mutant: an error takes no round
    [t EXCEPT !.at = "report", !.outcome = outcome,
              !.rounds = IF outcome = "error" THEN @ ELSE @ + 1]
Report(t, outcome) == [t EXCEPT !.at = "report", !.outcome = outcome, !.rounds = @ + 1]

TakeEffect(s) == executed' = [executed EXCEPT ![s] = @ + 1]

Filling(path) == {s \in Session : sess[s].at = "fill" /\ sess[s].call.arg = path}
Writing(path) == {s \in Session : sess[s].at = "write" /\ sess[s].call.arg = path} \cup Filling(path)

\* Everything up to the effect of the tool; a write has read the file by then.
Run(s) ==
    LET c == sess[s].call IN
    /\ sess[s].at = "run"
    /\ IF ~Permitted(s, c)
       THEN /\ Do(s, [sess[s] EXCEPT !.at = "deny"])
            /\ UNCHANGED <<executed, spoiled>>
       ELSE IF c.tool \in Writes
       THEN /\ Do(s, [sess[s] EXCEPT !.at = "write", !.seen = file[c.arg]])
            /\ spoiled' = IF Writing(c.arg) = {} THEN spoiled ELSE spoiled \cup {c.arg}
            /\ UNCHANGED executed
       ELSE /\ Do(s, [sess[s] EXCEPT !.at = "record"])
            /\ TakeEffect(s)
            /\ UNCHANGED spoiled
    /\ UNCHANGED <<log, expired, file, stored, patched, botched, faults>>

Deny(s) ==
    /\ sess[s].at = "deny"
    /\ Emit(s, "tool_permission_denied", Report(sess[s], "denied"), Report(sess[s], "error"))

PatchedBase(seen, c) ==     \* mutant: the patch is applied to the base snapshot
    (Workspace[c.arg] \ {c.old}) \cup {c.new}
Patched(seen, c) == (seen \ {c.old}) \cup {c.new}
NewContents(seen, c) == IF c.tool = "apply_patch" THEN Patched(seen, c) ELSE {c.new}

\* A change of the workspace shakes the snapshots that others are taking.
DoShaking(s, t, Others(_)) ==
    sess' = [x \in Session |-> IF x = s THEN t ELSE [sess[x] EXCEPT !.shaken = @ \/ Others(x)]]
Sealing(x) == sess[x].at \in {"seal", "copy"}

\* write_text() opens the file, which empties it, and then writes.
Write(s) ==
    /\ sess[s].at = "write"
    /\ file' = [file EXCEPT ![sess[s].call.arg] = {}]
    /\ DoShaking(s, [sess[s] EXCEPT !.at = "fill"], Sealing)
    /\ UNCHANGED <<log, expired, stored, spoiled, patched, executed, botched, faults>>

\* What another has written meanwhile is overwritten, but for what lies beyond.
Fill(s) ==
    LET c == sess[s].call IN
    /\ sess[s].at = "fill"
    /\ \E rest \in SUBSET file[c.arg] :
          file' = [file EXCEPT ![c.arg] = NewContents(sess[s].seen, c) \cup rest]
    /\ patched' = IF c.tool = "apply_patch"
                  THEN (patched \ {<<c.arg, c.old>>}) \cup {<<c.arg, c.new>>}
                  ELSE {p \in patched : p[1] # c.arg}
    /\ DoShaking(s, [sess[s] EXCEPT !.at = "seal", !.seen = {}, !.todo = Path], Sealing)
    /\ TakeEffect(s)
    /\ UNCHANGED <<log, expired, stored, spoiled, botched, faults>>

(***************************************************************************)
(* seal_snapshot(): hash the files one after the other; then copy them, in *)
(* the same order, to where the hash says, over what an earlier snapshot   *)
(* has left there.                                                         *)
(***************************************************************************)
NextFile(s) == CHOOSE p \in sess[s].todo : TRUE
LastFile(s) == sess[s].todo = {NextFile(s)}

CollectFiles(s) ==
    LET p == NextFile(s) IN
    /\ sess[s].at = "seal"
    /\ Do(s, [sess[s] EXCEPT !.id = [@ EXCEPT ![p] = file[p]],
                             !.at = IF LastFile(s) THEN "copy" ELSE "seal",
                             !.todo = IF LastFile(s) THEN Path ELSE @ \ {p}])
    /\ UNCHANGED <<log, expired, files, executed, botched, faults>>

\* The directory of an id: a copy is sound once one has been made of a quiet workspace, and
\* nothing else has been written over it since.
Empty == [p \in Path |-> {}]
Directory(id) == IF \E e \in stored : e.id = id THEN CHOOSE e \in stored : e.id = id
                 ELSE [id |-> id, copy |-> Empty, sound |-> FALSE]
Keep(e) == stored' = {d \in stored : d.id # e.id} \cup {e}

\* Mutant: what has been copied to the directory before is not copied again.
CopyOnce(s, p) == LET e == Directory(sess[s].id) IN IF e.copy[p] # {} THEN e.copy[p] ELSE file[p]
CopyOf(s, p) == file[p]

CopyFiles(s) ==
    LET p == NextFile(s)
        e == Directory(sess[s].id)
    IN
    /\ sess[s].at = "copy"
    /\ Keep([e EXCEPT !.copy = [@ EXCEPT ![p] = CopyOf(s, p)],
                      !.sound = (LastFile(s) \/ @) /\ ~sess[s].shaken])
    /\ Do(s, IF LastFile(s)
             THEN [sess[s] EXCEPT !.at = "record", !.todo = {}, !.id = Workspace, !.shaken = FALSE]
             ELSE [sess[s] EXCEPT !.todo = @ \ {p}])
    /\ UNCHANGED <<log, expired, file, patched, spoiled, executed, botched, faults>>

\* The tool's own event; register_* record a second one for the run.
Registered(tool) == CASE tool = "register_artifact" -> "artifact_produced"
                      [] tool = "register_verification" -> "verification_result"
                      [] OTHER -> "none"

Record(s) ==
    /\ sess[s].at = "record"
    /\ Emit(s, "tool_call",
            IF Registered(sess[s].call.tool) = "none" THEN Report(sess[s], "success")
            ELSE [sess[s] EXCEPT !.at = "register"],
            Report(sess[s], "error"))

Register(s) ==
    /\ sess[s].at = "register"
    /\ Emit(s, Registered(sess[s].call.tool), Report(sess[s], "success"), Report(sess[s], "error"))

(***************************************************************************)
(* The tool raises: a file that is not there or no text, a command that    *)
(* runs out of time, a disk that is full.  A file that is being written or *)
(* copied has lost what it had, and has some of what it was to have.       *)
(***************************************************************************)
Break(s) ==
    /\ sess[s].at \in {"run", "write", "seal", "copy"}
    /\ sess[s].at = "run" => Permitted(s, sess[s].call)
    /\ Fault
    /\ Do(s, Report(sess[s], "error"))
    /\ UNCHANGED <<log, expired, files, executed, botched>>

BreakFill(s) ==
    LET c == sess[s].call IN
    /\ sess[s].at = "fill"
    /\ \E some \in SUBSET (NewContents(sess[s].seen, c) \cup file[c.arg]) :
          file' = [file EXCEPT ![c.arg] = some]
    /\ spoiled' = spoiled \cup {c.arg}
    /\ Fault
    /\ DoShaking(s, Report(sess[s], "error"), Sealing)
    /\ UNCHANGED <<log, expired, stored, patched, executed, botched>>

BreakCopy(s) ==
    LET p == NextFile(s)
        e == Directory(sess[s].id)
        Beside(x) == sess[x].at = "copy" /\ sess[x].id = sess[s].id
    IN
    /\ sess[s].at = "copy"
    /\ \E some \in SUBSET file[p] : Keep([e EXCEPT !.copy = [@ EXCEPT ![p] = some], !.sound = FALSE])
    /\ Fault
    /\ DoShaking(s, Report(sess[s], "error"), Beside)
    /\ UNCHANGED <<log, expired, file, patched, spoiled, executed, botched>>

\* tool_call_completed.  When the one of a success raises, in the log or not, the except
\* clause takes another round and reports an error.
ReportCall(s) ==
    LET t == sess[s] IN
    /\ t.at = "report"
    /\ \/ /\ Logged(s, "tool_call_completed", Leave([t EXCEPT !.calls = @ + 1], t.outcome))
          /\ UNCHANGED botched
       \/ /\ Raises(s, "tool_call_completed",
                    IF t.outcome = "success" THEN Report(t, "error") ELSE Leave(t, "error"))
          /\ botched' = [botched EXCEPT ![s] = @ + 1]
    /\ UNCHANGED <<expired, files, executed>>

SessionStep(s) ==
    \/ Request(s) \/ Refuse(s) \/ Allow(s) \/ EndSession(s)
    \/ Run(s) \/ Deny(s) \/ Write(s) \/ Fill(s) \/ CollectFiles(s) \/ CopyFiles(s)
    \/ Record(s) \/ Register(s) \/ Break(s) \/ BreakFill(s) \/ BreakCopy(s) \/ ReportCall(s)

Next == \E s \in Session :
            \/ StartSession(s) \/ Complete(s)
            \/ \E c \in Call[s], late \in BOOLEAN : BeginCall(s, c, late)
            \/ SessionStep(s)

Spec == Init /\ [][Next]_vars
-----------------------------------------------------------------------------
Contents == SUBSET ({c.old : c \in Calls} \cup {c.new : c \in Calls} \cup UNION {Workspace[p] : p \in Path})
Snapshot == [id : [Path -> Contents], copy : [Path -> Contents], sound : BOOLEAN]

\* Types.
TypeOK ==
    /\ sess \in [Session -> [at : Phase, status : Status, rounds : Nat, calls : Nat, begun : Nat,
                            call : Calls, outcome : Outcome, seen : Contents, todo : SUBSET Path,
                            id : [Path -> Contents], shaken : BOOLEAN]]
    /\ log \in [Session -> [Event -> Nat]]
    /\ expired \in [Session -> BOOLEAN]
    /\ file \in [Path -> Contents]
    /\ stored \subseteq Snapshot
    /\ executed \in [Session -> Nat] /\ botched \in [Session -> Nat]
    /\ patched \subseteq {c.arg : c \in Calls} \X UNION Contents
    /\ spoiled \subseteq {c.arg : c \in Calls}
    /\ faults \in 0..MaxFaults

\* A session's tools take effect at most as often as its budget allows, and never
\* without a tool_call_allowed of their own, whatever raises on the way
\* (tool_adapter.py:306-309, 361-376).
BudgetHolds ==
    \A s \in Session : /\ executed[s] <= Budget[s] /\ sess[s].rounds <= Budget[s] + 1
                       /\ executed[s] <= log[s]["tool_call_allowed"]

\* Between two calls, the rounds of a session are the calls in its list and the reports whose
\* append raised: such a call takes two rounds, and the log may have two tool_call_completed
\* of it, one, or none (tool_adapter.py:381, 414-416; event_store.py:171-192).
RoundsAccountedFor ==
    \A s \in Session :
        sess[s].at = "idle" => /\ sess[s].rounds = sess[s].calls + botched[s]
                               /\ log[s]["tool_call_completed"] \in sess[s].calls .. sess[s].rounds

\* However often a session is completed, denied or found spent, it has at most one
\* tool_session_completed, and only if it has ended (tool_adapter.py:437-441).
EndsOnce ==
    \A s \in Session :
        /\ log[s]["tool_session_completed"] <= 1
        /\ log[s]["tool_session_completed"] = 1 => sess[s].status \notin {"none", "active"}

\* The books of a session agree: its budget, its rounds, its events and its one end.
SessionAccounts == BudgetHolds /\ RoundsAccountedFor /\ EndsOnce

\* The passages that calls have patched in are there, while nobody is writing the file anew,
\* unless two writes of it have overlapped or one was cut short: no patch is undone by
\* another (tool_adapter.py:117-120).
PatchesLast == \A p \in patched : p[1] \notin spoiled /\ Filling(p[1]) = {} => p[2] \in file[p[1]]

\* What is stored under a snapshot's id, while nobody copies to it, has the contents that the
\* id was computed from, if the last copy of a workspace that nobody wrote to between hash
\* and copy was completed and none has been begun since of another, or broken off
\* (snapshot.py:36-47, 120-126).
Copying(id) == {s \in Session : sess[s].at = "copy" /\ sess[s].id = id}
QuietSnapshotsExact == \A e \in stored : e.sound /\ Copying(e.id) = {} => e.copy = e.id

\* Why the last two hold: what a session has read of a file is still there when it writes,
\* and what it has hashed when it copies, unless another write was in between.
ReadInv ==
    /\ \A s \in Session : sess[s].at \in {"write", "fill"} => sess[s].call.arg \in Path
    /\ \A p \in patched : p[1] \in Path
    /\ \A s, x \in Session :
          /\ sess[s].at \in {"write", "fill"} /\ sess[x].at \in {"write", "fill"}
          /\ sess[s].call.arg = sess[x].call.arg /\ sess[s].call.arg \notin spoiled
          => s = x
    /\ \A s \in Session :
          LET path == sess[s].call.arg IN
          path \notin spoiled =>
              /\ sess[s].at = "write" => sess[s].seen = file[path]
              /\ sess[s].at = "fill" => \A p \in patched : p[1] = path => p[2] \in sess[s].seen
    /\ PatchesLast

\* Of a quiet workspace: what has been hashed, and what has been copied.
HashInv ==
    /\ \A d, e \in stored : d.id = e.id => d = e
    /\ \A e \in stored : e.sound => e.copy = e.id
    /\ \A s \in Session : ~sess[s].shaken =>
          /\ sess[s].at = "seal" => \A p \in Path \ sess[s].todo : sess[s].id[p] = file[p]
          /\ sess[s].at = "copy" =>
                /\ sess[s].id = file
                /\ \A p \in Path \ sess[s].todo :
                      \E e \in stored : e.id = sess[s].id /\ e.copy[p] = e.id[p]
    /\ \A s \in Session : sess[s].at \in {"seal", "copy"} => sess[s].todo # {}

\* A session that has run out of time or rounds never has a tool take effect again,
\* although nobody looks at its status.
SpentStaysSpent ==
    [][\A s \in Session : sess[s].status \in {"timeout", "max_rounds_exceeded"}
                            => executed'[s] = executed[s]]_vars
=============================================================================
