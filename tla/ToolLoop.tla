------------------------------ MODULE ToolLoop ------------------------------
(***************************************************************************)
(* scripts/phase7_tool_loop_e2e.py: one process that takes tool sessions   *)
(* through four scenarios, one after the other, and reports whether what   *)
(* it saw of them is as it should be.                                      *)
(***************************************************************************)
EXTENDS ToolSession, Sequences

CONSTANT Scenario   \* what main() goes through: a sequence of [kind, session]

VARIABLES driver

loopVars == <<vars, driver>>

Kinds == {"agent", "max_rounds", "timeout", "illegal"}
Ask(tool, arg) == [tool |-> tool, arg |-> arg, old |-> "", new |-> "", base |-> "checkpoint"]
ReadHello == Ask("read_file", "hello.txt")
Script(kind) ==
    CASE kind = "agent" -> <<ReadHello, Ask("list_files", "**/*.txt"),
                             Ask("register_artifact", "hello.txt")>>
      [] kind = "max_rounds" -> <<ReadHello, ReadHello, ReadHello>>
      [] kind = "timeout" -> <<ReadHello>>
      [] kind = "illegal" -> <<Ask("shell", "whoami")>>

\* main() has something to go through, and its sessions' agents make the calls of the script.
ASSUME ScenarioAssumption ==
    /\ Scenario \in Seq([kind : Kinds, session : Session]) /\ Scenario # <<>>
    /\ \A i \in DOMAIN Scenario :
         \A j \in DOMAIN Script(Scenario[i].kind) :
            Script(Scenario[i].kind)[j] \in Call[Scenario[i].session]

\* Each scenario has a session of its own, the agents' come first, every agent of the registry
\* may read hello.txt, and the rounds are enough, or the two that max_rounds is about.
ASSUME MainAssumption ==
    \A i \in DOMAIN Scenario :
        LET kind == Scenario[i].kind
            s == Scenario[i].session
        IN  /\ "read" \in Profile[s].tools /\ "hello.txt" \in Profile[s].read \ Outside
            /\ kind = "agent" => Budget[s] >= 3
            /\ kind = "max_rounds" => Budget[s] = 2
            /\ kind = "illegal" => Budget[s] >= 1
            /\ \A j \in DOMAIN Scenario :
                  /\ Scenario[j].session = s => j = i
                  /\ j < i /\ kind = "agent" => Scenario[j].kind = "agent"

Off == [at |-> "off", turn |-> 1, asked |-> 0, made |-> 0, failed |-> {}, report |-> "none"]

Driver == [at : {"off", "open", "ask", "wait", "complete", "check", "report", "dead"},
           turn : DOMAIN Scenario, asked : Nat, made : Nat, failed : SUBSET Kinds,
           report : {"none", "PASS", "FAIL"}]

LoopInit == Init /\ driver \in {Off, [Off EXCEPT !.at = "open"]}

Kind == Scenario[driver.turn].kind
Mine == Scenario[driver.turn].session

\* The scenario is over; what is not as expected is remembered.
Close(ok) == [driver EXCEPT !.at = IF driver.turn = Len(Scenario) THEN "report" ELSE "open",
                            !.turn = IF @ = Len(Scenario) THEN @ ELSE @ + 1,
                            !.asked = 0, !.made = 0,
                            !.failed = IF ok THEN @ ELSE @ \cup {Kind}]

\* Only the agents' scenarios are in a try block.
Raise == IF Kind = "agent" THEN Close(FALSE) ELSE [driver EXCEPT !.at = "dead"]

Open == /\ driver.at = "open"
        /\ StartSession(Mine)
        /\ driver' = IF sess'[Mine].status = "active" THEN [driver EXCEPT !.at = "ask"] ELSE Raise

AskNext(late) ==
    /\ driver.at = "ask"
    /\ BeginCall(Mine, Script(Kind)[driver.asked + 1], late)
    /\ driver' = [driver EXCEPT !.at = "wait", !.asked = @ + 1]

\* The session's own steps: of a call, or of its completion.
Work == /\ driver.at \in {"wait", "check"}
        /\ SessionStep(Mine)
        /\ UNCHANGED driver

(***************************************************************************)
(* A call has come back.  An agent's scenario notes a denial and goes on;  *)
(* the others expect one of their last call, and of no other.              *)
(***************************************************************************)
Last == driver.asked = Len(Script(Kind))
Made == IF sess[Mine].outcome = "success" THEN driver.made + 1 ELSE driver.made

Expected == [max_rounds |-> "max_rounds_exceeded", timeout |-> "timeout", illegal |-> "denied"]
AsExpected == /\ sess[Mine].status = Expected[Kind]
              /\ Kind = "illegal" => log[Mine]["tool_call_denied"] > 0
                                     /\ log[Mine]["tool_session_completed"] > 0

Hear ==
    /\ driver.at = "wait" /\ sess[Mine].at = "idle"
    /\ LET outcome == sess[Mine].outcome IN
       driver' = IF outcome = "error" THEN Raise
                 ELSE IF Kind = "agent"
                 THEN [driver EXCEPT !.at = IF Last THEN "complete" ELSE "ask", !.made = Made]
                 ELSE IF Last THEN Close(outcome = "denied" /\ AsExpected)
                 ELSE IF outcome = "denied" THEN Close(FALSE)
                 ELSE [driver EXCEPT !.at = "ask"]
    /\ UNCHANGED vars

CompleteMine ==
    /\ driver.at = "complete"
    /\ Complete(Mine)
    /\ driver' = [driver EXCEPT !.at = "check"]

\* The four channels: the run's events, the session's status, its rounds, no denial.
InRun(event) == \E s \in Session : log[s][event] > 0
\* Mutant: the events alone.
FourChannelsByEvents == InRun("tool_call_completed") /\ ~InRun("tool_call_denied")
FourChannels ==
    /\ \A e \in {"tool_call_allowed", "tool_call_completed", "tool_session_completed"} : InRun(e)
    /\ sess[Mine].status = "success"
    /\ sess[Mine].rounds = driver.made
    /\ ~InRun("tool_call_denied")

Check ==
    /\ driver.at = "check" /\ sess[Mine].at = "idle"
    /\ driver' = IF sess[Mine].outcome = "error" THEN Raise ELSE Close(FourChannels)
    /\ UNCHANGED vars

WriteReport ==
    /\ driver.at = "report" /\ driver.report = "none"
    /\ driver' = [driver EXCEPT !.report = IF driver.failed = {} THEN "PASS" ELSE "FAIL"]
    /\ UNCHANGED vars

Drive == \/ Open \/ Work \/ Hear \/ CompleteMine \/ Check \/ WriteReport
         \/ \E late \in BOOLEAN : AskNext(late)

\* The script runs in a directory of its own: either it, or sessions of agents.
Driven == {Scenario[i].session : i \in DOMAIN Scenario}
Free == \E s \in Session \ Driven :
            \/ StartSession(s) \/ Complete(s) \/ SessionStep(s)
            \/ \E c \in Call[s], late \in BOOLEAN : BeginCall(s, c, late)

LoopNext == \/ Drive
            \/ driver.at = "off" /\ Free /\ UNCHANGED driver

LoopSpec == LoopInit /\ [][LoopNext]_loopVars
-----------------------------------------------------------------------------
\* PASS means that every scenario has gone the way it should: all tools of the agents
\* took effect and are reported, with one session end each; no tool took effect beyond
\* the rounds, after the time, or outside the permitted ones
\* (phase7_tool_loop_e2e.py:104-135, 299-301).
Earned(i) ==
    LET s == Scenario[i].session IN
    /\ executed[s] = [agent |-> 3, max_rounds |-> 2, timeout |-> 0, illegal |-> 0][Scenario[i].kind]
    /\ log[s]["tool_call_completed"] = executed[s]
    /\ log[s]["tool_session_completed"] = 1
    /\ sess[s].status = [agent |-> "success", max_rounds |-> "max_rounds_exceeded",
                         timeout |-> "timeout", illegal |-> "denied"][Scenario[i].kind]
PassIsEarned == driver.report = "PASS" => \A i \in DOMAIN Scenario : Earned(i)

\* A FAIL has a reason outside the adapter: an append or a tool that raised, an agent
\* that was too slow, or a clock too coarse to see a session of no seconds expire.
Mistimed(i) == expired[Scenario[i].session] # (Scenario[i].kind = "timeout")
FailHasReason ==
    driver.report = "FAIL" => faults > 0 \/ \E i \in DOMAIN Scenario : Mistimed(i)

\* The report says what has happened, in either direction.
VerdictIsRight == PassIsEarned /\ FailHasReason

\* Why the script takes steps of the adapter only: it is at one of its scenarios, and
\* never asks for more than the scenario's calls.
LoopInv ==
    /\ driver \in Driver
    /\ driver.asked <= Len(Script(Kind))
    /\ driver.at = "open" => driver.asked = 0
    /\ driver.at = "ask" => driver.asked < Len(Script(Kind))
-----------------------------------------------------------------------------
(***************************************************************************)
(* Why the verdict is right.  What is known of the scenarios that are      *)
(* over, of those to come, and, call by call, of the one under way.        *)
(***************************************************************************)
UnderWay == driver.at \in {"ask", "wait", "complete", "check"}
Over(i) == i < driver.turn \/ (i = driver.turn /\ driver.at = "report")

\* The sessions of scenarios to come have not been touched.
UntouchedInv ==
    \A i \in DOMAIN Scenario :
        i > driver.turn \/ (i = driver.turn /\ driver.at = "open") =>
            LET s == Scenario[i].session IN
            /\ sess[s].at = "idle" /\ sess[s].status = "none" /\ sess[s].rounds = 0
            /\ sess[s].outcome = "success" /\ executed[s] = 0 /\ botched[s] = 0 /\ ~expired[s]

\* A scenario that is over has gone as it should or is remembered, and that has a reason.
OverInv ==
    /\ driver.at = "report" => driver.turn = Len(Scenario)
    /\ driver.at = "open" => driver.made = 0
    /\ driver.report # "none" => (driver.report = "PASS" <=> driver.failed = {})
    /\ \A i \in DOMAIN Scenario : Over(i) => Earned(i) \/ Scenario[i].kind \in driver.failed
    /\ driver.failed # {} => faults > 0 \/ \E i \in DOMAIN Scenario : Over(i) /\ Mistimed(i)

\* Nothing but the shell of the last scenario is ever denied.
DeniedInv ==
    \A s \in Session :
        log[s]["tool_call_denied"] = 0
        \/ \E i \in 1..driver.turn : Scenario[i].session = s /\ Scenario[i].kind = "illegal"

\* The call the driver waits for is the one it has asked for, and no write.  Of a scenario
\* of kind k under way: the driver, the session, and whether anything has raised.
CallRight(k, d, t, f) ==
    /\ t.status # "none" /\ t.at \notin {"write", "fill", "seal", "copy"}
    /\ d.at \in {"ask", "complete"} => t.at = "idle"
    /\ d.at = "check" => t.at \in {"end", "idle"} /\ t.outcome # "denied"
    /\ d.at \in {"complete", "check"} => k = "agent" /\ d.asked = 3
    /\ d.at = "wait" => d.asked > 0
    /\ t.at \in {"request", "allow", "run"} => t.call = Script(k)[d.asked]
    /\ t.at = "refuse" => k = "illegal"
    /\ t.at \notin {"report", "idle"} /\ d.at = "wait" => t.outcome = "denied"
    /\ t.outcome = "error" => f > 0 /\ t.at \in {"report", "idle"} /\ d.at \in {"wait", "check"}

\* As long as nothing has raised: rounds, effects and reports go with the calls.
InEffect(t) == \/ t.at \in {"record", "register"}
               \/ t.at \in {"report", "idle"} /\ t.outcome = "success"
CountsRight(k, d, t, l, ex, un) ==
    LET before == IF k = "agent" THEN d.made ELSE IF d.at = "wait" THEN d.asked - 1 ELSE d.asked
        inCall == d.at = "wait" /\ t.at \notin {"report", "idle"}
    IN
    t.outcome # "error" =>
        /\ un = 0
        /\ ex = IF d.at = "wait" /\ InEffect(t) THEN before + 1 ELSE before
        /\ t.status \in {"active", "success"} => t.rounds = IF inCall THEN d.asked - 1 ELSE d.asked
        /\ t.status \notin {"active", "success"} =>
              /\ t.at \in {"end", "idle"}
              /\ IF k = "agent" THEN t.status = "timeout"
                 ELSE d.at = "wait" /\ t.outcome = "denied" /\ t.rounds = d.asked - 1
        /\ t.status = "success" => d.at = "check"
        /\ t.status # "active" /\ t.at = "idle" => l["tool_session_completed"] = 1

\* And as long as the time is as it should be: what the scenario expects is what happens.
Ended(t, status) == t.status = status /\ t.at \in {"end", "idle"} /\ t.outcome = "denied"
Going(t) == /\ t.status = "active"
            /\ t.at \in {"request", "allow", "run", "record", "register", "report", "idle"}
            /\ t.at \in {"report", "idle"} => t.outcome = "success"
Smooth(k, d, t, l) ==
    /\ k = "agent" =>
          IF d.at = "wait" THEN d.made = d.asked - 1 /\ Going(t)
          ELSE d.made = d.asked /\ t.status = IF d.at = "check" THEN "success" ELSE "active"
    /\ d.at = "wait" =>
          /\ k = "max_rounds" => IF d.asked < 3 THEN Going(t) ELSE Ended(t, "max_rounds_exceeded")
          /\ k = "timeout" => Ended(t, "timeout")
          /\ k = "illegal" => \/ t.status = "active" /\ t.at \in {"request", "refuse"}
                              \/ Ended(t, "denied") /\ l["tool_call_denied"] > 0

RunsRight(k, d, t, l, x, ex, un, f) ==
    /\ CallRight(k, d, t, f) /\ CountsRight(k, d, t, l, ex, un)
    /\ f = 0 /\ x = (k = "timeout") => Smooth(k, d, t, l)

VerdictInv ==
    /\ driver.report # "none" => driver.at = "report"
    /\ driver.at # "off" =>
          /\ UntouchedInv /\ OverInv /\ DeniedInv
          /\ UnderWay => RunsRight(Kind, driver, sess[Mine], log[Mine], expired[Mine],
                                   executed[Mine], botched[Mine], faults)
=============================================================================
