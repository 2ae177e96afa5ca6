------------------------------- MODULE Smoke -------------------------------
(***************************************************************************)
(* scripts/smoke_dispatch.py: executions of the full-team smoke test, each *)
(* of one or more rounds, on one .squad directory and one output directory *)
(* -- one after the other, or at once -- and the acceptance report         *)
(* (acceptance.py) that each round has written by a command of its own.    *)
(*                                                                         *)
(* A round has a run for itself.  What executions share are files: the     *)
(* coverage baseline in .squad/acceptance, the status file of each         *)
(* scenario and the summary.  Truncating the baseline and filling it are   *)
(* two steps; the other files are taken to be written at once, or, if that *)
(* raises, not at all.                                                     *)
(***************************************************************************)
EXTENDS Naturals, Sequences

CONSTANTS Execution,
          Setting,   \* the command lines: [provider, scenario, rounds, coverage, complete];
                     \* a coverage of 0 stands for none given
          Team,      \* the agents, in FULL_TEAM_ORDER
          Gated,     \* the agents whose results the gates look at
          Outcome,   \* what may come of a session of claude_cli
          RetryLimit,
          MaxFaults  \* bound: executions or commands that die or raise

VARIABLES exec, run, status, summary, baseline,
          first,  \* history: the coverage of the first report that created the baseline
          clash,  \* history: a baseline was created twice, or not completely
          raced,  \* history: names whose status was written while a failure was about to be
          faults

statusVars == <<status, raced>>
smokeVars == <<exec, run, status, summary, baseline, first, clash, raced, faults>>

Missing == 0
Torn == 1     \* a baseline of no bytes; coverages are larger numbers
Agents == {Team[i] : i \in DOMAIN Team}
MaxRounds == 2
\* At least one round, of a provider that the parser lets through.
ASSUME SmokeAssumption ==
    /\ Setting # {} /\ Team \in Seq(Agents) /\ Team # <<>> /\ RetryLimit \in Nat /\ MaxFaults \in Nat
    /\ \A s \in Setting : /\ s.provider \in {"fake_cli", "claude_cli"}
                          /\ s.rounds \in 1..MaxRounds /\ s.coverage \in Nat \ {Torn}

RunId == Execution \X (1..MaxRounds)

NewRun == [node |-> [a \in Agents |-> "todo"], events |-> {}, usage |-> {}]
NoStatus == [word |-> "none", run |-> <<>>]
Names == {s.scenario : s \in Setting} \X (0..MaxRounds)

NotBegun == [at |-> "off", set |-> CHOOSE s \in Setting : TRUE, round |-> 1, agent |-> 1, tries |-> 0,
         rerun |-> FALSE, risks |-> {}]

SmokeInit == /\ exec = [e \in Execution |-> NotBegun]
             /\ run = [i \in RunId |-> NewRun]
             /\ status = [n \in Names |-> NoStatus]
             /\ summary = <<>>
             /\ baseline = Missing /\ first = Missing
             /\ clash = FALSE /\ raced = {} /\ faults = 0

Move(e, x) == exec' = [exec EXCEPT ![e] = x]
Goto(e, at) == Move(e, [exec[e] EXCEPT !.at = at])
Id(e) == <<e, exec[e].round>>
Claude(e) == exec[e].set.provider = "claude_cli"

\* A scenario of several rounds has a name for each; the preflight uses the plain one.
NameOf(set, round) == <<set.scenario, IF set.rounds > 1 THEN round ELSE 0>>
Name(e) == IF exec[e].at \in {"preflight", "refuse"} THEN <<exec[e].set.scenario, 0>>
           ELSE NameOf(exec[e].set, exec[e].round)
-----------------------------------------------------------------------------
(***************************************************************************)
(* write_scene_f_status().  A failure leaves the file of an earlier        *)
(* execution as it is; that it is missing is seen before it is written.    *)
(* Other words are written without a look at the file.                     *)
(***************************************************************************)
Stays(name, word) == status[name] # NoStatus /\ word = "fail"

Failing == {"refuse", "fail"}
About(e) == {Name(f) : f \in {g \in Execution \ {e} : exec[g].at \in Failing}}

Write(name, word, id) == status' = [status EXCEPT ![name] = [word |-> word, run |-> id]]
WriteStatus(e, name, word, id) ==
    /\ Write(name, word, id)
    /\ raced' = raced \cup ({name} \cap About(e))

\* Whatever raises in a round: with claude_cli a failure is written, and the script ends.  The
\* handlers write it up to three times, but the first time leaves a file.
Fail(e, at) ==
    /\ Goto(e, IF ~Claude(e) \/ Stays(Name(e), "fail") THEN "failed" ELSE at)
    /\ UNCHANGED statusVars

WriteFailure(e) ==
    /\ exec[e].at \in Failing
    /\ Write(Name(e), "fail", Id(e))
    /\ Goto(e, "failed")
    /\ UNCHANGED <<run, summary, baseline, first, clash, raced, faults>>

Execute(e, set) ==
    /\ exec[e].at = "off"
    /\ Move(e, [exec[e] EXCEPT !.set = set,
                               !.at = IF set.provider = "fake_cli" THEN "team" ELSE "preflight"])
    /\ UNCHANGED <<run, status, summary, baseline, first, clash, raced, faults>>

\* The directory, which may not be one called .squad; the other arguments; and then `agents
\* doctor`, which may find the provider unusable.
WrongDirectory(e) ==
    /\ exec[e].at = "preflight"
    /\ Goto(e, "quit")
    /\ UNCHANGED <<run, status, summary, baseline, first, clash, raced, faults>>

Preflight(e) ==
    /\ exec[e].at = "preflight"
    /\ IF exec[e].set.coverage = 0 \/ ~exec[e].set.complete THEN Fail(e, "refuse")
       ELSE \/ Goto(e, "team") /\ UNCHANGED statusVars
            \/ Goto(e, "blocked") /\ WriteStatus(e, Name(e), "environment_blocked", <<>>)
    /\ UNCHANGED <<run, summary, baseline, first, clash, faults>>

(***************************************************************************)
(* run_scenario(): one agent after the other, whatever the earlier ones    *)
(* have answered; a session that was rate limited is repeated.             *)
(***************************************************************************)
NodeAfter(o) == CASE o \in {"pass", "fell_back"} -> "pass"
                  [] o = "fail" -> "fail"
                  [] OTHER -> "agent_unavailable"
EventsAfter(o) == CASE o = "rate_limited" -> {"provider_rate_limited", "provider_blocked"}
                    [] o = "timeout" -> {"agent_timeout"}
                    [] OTHER -> {}
UsageAfter(e, o) == CASE o = "fell_back" -> {"fake_cli"}
                      [] o \in {"pass", "fail"} -> {exec[e].set.provider}
                      [] OTHER -> {}

\* dispatch_with_rate_limit_retry(): by the node and by the events counted before and after.
Again(e, o) == o = "rate_limited" /\ exec[e].tries < RetryLimit

Dispatch(e, o) ==
    LET x == exec[e]
        a == Team[x.agent]
        r == run[Id(e)]
    IN
    /\ x.at = "team"
    /\ Claude(e) \/ o = "pass"
    /\ run' = [run EXCEPT ![Id(e)] = [r EXCEPT !.node = [@ EXCEPT ![a] = IF Again(e, o) THEN "ready" ELSE NodeAfter(o)],
                                               !.events = @ \cup EventsAfter(o),
                                               !.usage = @ \cup UsageAfter(e, o)]]
    /\ Move(e, IF Again(e, o) THEN [x EXCEPT !.tries = @ + 1]
               ELSE IF x.agent < Len(Team) THEN [x EXCEPT !.agent = @ + 1, !.tries = 0]
               ELSE [x EXCEPT !.at = "check", !.agent = 1, !.tries = 0])
    /\ UNCHANGED <<status, summary, baseline, first, clash, raced, faults>>

\* The exported and archived run, its nodes, gates and providers.
GatesPass(r) == \A a \in Gated : r.node[a] = "pass"
SceneDByGates(e) == GatesPass(run[Id(e)]) /\ run[Id(e)].usage = {exec[e].set.provider}     \* mutant
SceneD(e) == /\ \A a \in Agents : run[Id(e)].node[a] = "pass"
             /\ GatesPass(run[Id(e)])
             /\ run[Id(e)].usage = {exec[e].set.provider}

CheckRun(e) ==
    /\ exec[e].at = "check"
    /\ IF SceneD(e) THEN Goto(e, "report") /\ UNCHANGED statusVars ELSE Fail(e, "fail")
    /\ UNCHANGED <<run, summary, baseline, first, clash, faults>>
-----------------------------------------------------------------------------
(***************************************************************************)
(* The acceptance-report command.  _evaluate_coverage() creates the        *)
(* baseline if there is none, and nothing ever changes it.                 *)
(***************************************************************************)
Given(e) == IF Claude(e) THEN exec[e].set.coverage ELSE 0
Creating == {e \in Execution : exec[e].at \in {"create", "fill"}}

Reported(e, risks) == [exec[e] EXCEPT !.at = "judge", !.risks = risks]

Below(e) == Given(e) < baseline

EvaluateCoverage(e) ==
    /\ exec[e].at = "report"
    /\ clash' = (clash \/ (Given(e) # 0 /\ Creating # {}))
    /\ IF Given(e) = 0 THEN Move(e, Reported(e, {"coverage_blocked_by_environment"})) /\ UNCHANGED statusVars
       ELSE IF baseline = Missing THEN Goto(e, "create") /\ UNCHANGED statusVars
       ELSE IF baseline = Torn THEN Fail(e, "fail")
       ELSE /\ Move(e, Reported(e, IF Below(e) THEN {"coverage_below_baseline"} ELSE {}))
            /\ UNCHANGED statusVars
    /\ UNCHANGED <<run, summary, baseline, first, faults>>

CreateBaseline(e) ==
    /\ exec[e].at = "create"
    /\ baseline' = Torn
    /\ first' = IF first = Missing THEN Given(e) ELSE first
    /\ Goto(e, "fill")
    /\ UNCHANGED <<run, status, summary, clash, raced, faults>>

FilledNothing(e) == Missing     \* mutant: the file is not kept
Filled(e) == Given(e)

FillBaseline(e) ==
    /\ exec[e].at = "fill"
    /\ baseline' = Filled(e)
    /\ Move(e, Reported(e, {"coverage_baseline_created_requires_rerun"}))
    /\ UNCHANGED <<run, status, summary, first, clash, raced, faults>>

\* The rest of write_report(), about a run nobody else touches; the evidence gate of a
\* smoke profile only asks for the provider.
RunRisks(e) ==
    LET r == run[Id(e)] IN
    r.events
    \cup (IF GatesPass(r) THEN {} ELSE {"gate_not_pass"})
    \cup (IF r.usage = {"claude_cli"} THEN {}
          ELSE {"required_provider_not_claude_cli", "evidence_gate_failed"})
    \cup (IF Claude(e) THEN {} ELSE {"codebase_memory_not_indexed"})
Risks(e) == exec[e].risks \cup RunRisks(e)

NextRound(e) ==
    Move(e, IF exec[e].round < exec[e].set.rounds
            THEN [exec[e] EXCEPT !.at = "team", !.round = @ + 1, !.rerun = FALSE, !.risks = {}]
            ELSE [exec[e] EXCEPT !.at = IF Claude(e) THEN "summary" ELSE "passed", !.risks = {}])

\* What the script makes of the report: a new baseline asks for another one, once.
Judge(e) ==
    /\ exec[e].at = "judge"
    /\ IF ~Claude(e)
       THEN IF "required_provider_not_claude_cli" \in Risks(e)
            THEN NextRound(e) /\ UNCHANGED statusVars ELSE Fail(e, "fail")
       ELSE IF Risks(e) = {} THEN Goto(e, "scan") /\ UNCHANGED statusVars
       ELSE IF Risks(e) = {"coverage_baseline_created_requires_rerun"} /\ ~exec[e].rerun
       THEN Move(e, [exec[e] EXCEPT !.at = "report", !.rerun = TRUE, !.risks = {}]) /\ UNCHANGED statusVars
       ELSE Fail(e, "fail")
    /\ UNCHANGED <<run, summary, baseline, first, clash, faults>>

\* structured_risk_scan() of the events; it does not know of provider_rate_limited.
Scanned(e) == run[Id(e)].events \ {"provider_rate_limited"}

Scan(e) ==
    /\ exec[e].at = "scan"
    /\ IF Scanned(e) = {} THEN NextRound(e) /\ WriteStatus(e, Name(e), "pass", Id(e)) ELSE Fail(e, "fail")
    /\ UNCHANGED <<run, summary, baseline, first, clash, faults>>

\* write_scene_f_summary(): the status files there are, of this execution's names.
Covered(e) == IF exec[e].at = "blocked" THEN {<<exec[e].set.scenario, 0>>}
              ELSE {NameOf(exec[e].set, i) : i \in 1..exec[e].set.rounds}
WriteSummary(e) ==
    /\ exec[e].at \in {"blocked", "summary"}
    /\ summary' = [n \in {m \in Covered(e) : status[m] # NoStatus} |-> status[n].word]
    /\ Goto(e, IF exec[e].at = "blocked" THEN "skipped" ELSE "passed")
    /\ UNCHANGED <<run, status, baseline, first, clash, raced, faults>>
-----------------------------------------------------------------------------
Ended == {"off", "passed", "skipped", "failed", "quit", "dead"}

\* Something raises: a session, a check, a command that exits with an error; and outside of
\* a round, or while the failure is written, the script ends as it is.
Raise(e) ==
    /\ exec[e].at \notin Ended
    /\ faults < MaxFaults /\ faults' = faults + 1
    /\ clash' = (clash \/ exec[e].at = "fill")
    /\ IF exec[e].at \in {"preflight", "blocked", "summary"} \cup Failing
       THEN Goto(e, "quit") /\ UNCHANGED statusVars
       ELSE Fail(e, "fail")
    /\ UNCHANGED <<run, summary, baseline, first>>

Kill(e) ==
    /\ exec[e].at \notin Ended
    /\ faults < MaxFaults /\ faults' = faults + 1
    /\ clash' = (clash \/ exec[e].at = "fill")
    /\ Goto(e, "dead")
    /\ UNCHANGED <<run, status, summary, baseline, first, raced>>

SmokeNext == \E e \in Execution :
    \/ \E set \in Setting : Execute(e, set)
    \/ WrongDirectory(e) \/ Preflight(e) \/ WriteFailure(e)
    \/ \E o \in Outcome : Dispatch(e, o)
    \/ CheckRun(e) \/ EvaluateCoverage(e) \/ CreateBaseline(e) \/ FillBaseline(e)
    \/ Judge(e) \/ Scan(e) \/ WriteSummary(e) \/ Raise(e) \/ Kill(e)

SmokeSpec == SmokeInit /\ [][SmokeNext]_smokeVars
-----------------------------------------------------------------------------
\* Types.
Trouble == {"provider_rate_limited", "provider_blocked", "agent_timeout"}
Risk == {"coverage_blocked_by_environment", "coverage_below_baseline",
         "coverage_baseline_created_requires_rerun"}
SmokeTypeOK ==
    /\ exec \in [Execution -> [at : Ended \cup Failing \cup {"preflight", "blocked", "team", "check", "report",
                                                "create", "fill", "judge", "scan", "summary"},
                               set : Setting, round : 1..MaxRounds, agent : DOMAIN Team,
                               tries : 0..RetryLimit, rerun : BOOLEAN, risks : SUBSET Risk]]
    /\ run \in [RunId -> [node : [Agents -> {"todo", "ready", "pass", "fail", "agent_unavailable"}],
                          events : SUBSET Trouble, usage : SUBSET {"claude_cli", "fake_cli"}]]
    /\ status \in [Names -> [word : {"none", "pass", "fail", "environment_blocked"},
                             run : RunId \cup {<<>>}]]
    /\ DOMAIN summary \subseteq Names
    /\ baseline \in Nat /\ first \in Nat /\ clash \in BOOLEAN /\ raced \subseteq Names
    /\ faults \in 0..MaxFaults

\* A status file that says pass names a run in which every agent passed in its first
\* session, with claude_cli itself, and nothing was blocked, limited or timed out.
PassIsClean ==
    \A n \in Names :
        status[n].word = "pass" =>
            LET r == run[status[n].run] IN
            /\ \A a \in Agents : r.node[a] = "pass"
            /\ r.events = {} /\ r.usage = {"claude_cli"}

\* An execution that exits with 0 leaves no status that says fail, whatever was there
\* before and whoever fails after it -- unless that one had already seen that there was
\* no file; and one that fails in a round or by its arguments leaves a status -- its own,
\* or that of an earlier one, which may even say pass (smoke_dispatch.py:156-163).
Settled(name) == status[name].word \in {"pass", "environment_blocked"} \/ name \in raced
ExitAgreesWithStatus ==
    \A e \in Execution :
        Claude(e) =>
            /\ exec[e].at = "passed" => \A i \in 1..exec[e].round : Settled(NameOf(exec[e].set, i))
            /\ exec[e].at = "skipped" => Settled(<<exec[e].set.scenario, 0>>)
            /\ exec[e].at = "failed" => \E n \in Names : n[1] = exec[e].set.scenario /\ status[n] # NoStatus

\* The summary never shows a failure: executions that fail do not write one, and their
\* failure does not replace the status that another is about to sum up, with the same
\* exception.
SummaryNeverFails == \A n \in DOMAIN summary : summary[n] = "fail" => n \in raced

\* What a reader concludes from status files, exit codes and the summary has happened.
StatusIsHonest == PassIsClean /\ ExitAgreesWithStatus /\ SummaryNeverFails

\* The report that creates the baseline sets the bar for good, even if its scenario fails:
\* no execution passes with less coverage, unless two reports have found none at once or
\* one died while it wrote (acceptance.py:150-158).
FirstReportSetsBar ==
    ~clash => \A n \in Names : status[n].word = "pass" => exec[status[n].run[1]].set.coverage >= first

\* The second report finds the baseline that the first one has created, also when others
\* create or replace it in between: it never asks for a third.
RerunSettles ==
    \A e \in Execution :
        exec[e].at = "judge" /\ exec[e].rerun =>
            "coverage_baseline_created_requires_rerun" \notin exec[e].risks

\* The baseline is there for the second report, and no report lowers it.
BaselineHolds == FirstReportSetsBar /\ RerunSettles

\* Why a pass is clean: from the report on, an execution's round is one in which every
\* agent passed, and nobody goes back to a round that is over.
Clean(r) == /\ \A a \in Agents : r.node[a] = "pass"
            /\ r.events = {} /\ r.usage = {"claude_cli"}
RoundInv(e) ==
    LET x == exec[e] IN
    /\ x.round <= x.set.rounds
    /\ x.at = "off" => x.round = 1
    /\ x.at \in {"report", "create", "fill", "judge", "scan"} => SceneD(e)
    /\ x.at = "scan" => Claude(e) /\ run[Id(e)].events = {}
    /\ x.at = "summary" => Claude(e) /\ x.round = x.set.rounds
ExitInv(e) ==
    LET x == exec[e] IN
    /\ Claude(e) => \A i \in 1..x.set.rounds :
                        i < x.round \/ x.at \in {"summary", "passed"} => Settled(NameOf(x.set, i))
    /\ x.at \in {"blocked", "skipped"} => Settled(<<x.set.scenario, 0>>)
    /\ x.at = "failed" /\ Claude(e) =>
           \E n \in Names : n[1] = x.set.scenario /\ status[n] # NoStatus
    /\ x.at \in Failing => status[Name(e)].word \in {"none", "fail"} \/ Name(e) \in raced

\* Why the bar holds: one at a time creates the baseline, and it is the first report's.
HighEnough(e) == first # Missing /\ exec[e].set.coverage >= first
BaselineInv ==
    ~clash => /\ \A e, f \in Creating : e = f
              /\ \A e \in Execution :
                     /\ exec[e].at = "create" => baseline = Missing /\ first = Missing
                     /\ exec[e].at = "fill" => baseline = Torn /\ first = Given(e)
              /\ (\A e \in Execution : exec[e].at # "fill") => baseline = first /\ first # Torn
RerunInv(e) ==
    LET x == exec[e] IN
    /\ x.at \in {"create", "fill"} => Given(e) # 0 /\ ~x.rerun
    /\ x.rerun => baseline # Missing
    /\ x.at = "judge" => baseline # Missing \/ "coverage_blocked_by_environment" \in x.risks
    /\ x.at = "judge" /\ "coverage_baseline_created_requires_rerun" \in x.risks => ~x.rerun
    /\ (x.at = "judge" /\ x.risks = {}) \/ x.at = "scan" => clash \/ HighEnough(e)

\* A status that says pass is that of a round that is over.
Over(e, i) == i < exec[e].round \/ exec[e].at \in {"summary", "passed", "skipped", "failed", "quit", "dead"}
PassOf(n, e, i) == /\ status[n].run = <<e, i>> /\ Over(e, i) /\ Clean(run[<<e, i>>])
                   /\ clash \/ HighEnough(e)
SmokeInv ==
    /\ \A e \in Execution : RoundInv(e) /\ ExitInv(e) /\ RerunInv(e)
    /\ \A n \in Names : status[n].word = "pass" =>
           \E e \in Execution, i \in 1..MaxRounds : PassOf(n, e, i)
    /\ BaselineInv
    /\ SummaryNeverFails
=============================================================================
