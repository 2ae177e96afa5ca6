--------------------------- MODULE MCToolSession ---------------------------
(***************************************************************************)
(* Values for the constants of ToolLoop: two sessions of agents on one     *)
(* file of two passages, of which one makes up to three calls to patch it  *)
(* and the other one to write it anew; and the script with two agents.     *)
(***************************************************************************)
EXTENDS ToolLoop

CONSTANTS free1, free2, agent1, agent2, maxed, timed, denied

MCScenario == <<[kind |-> "agent", session |-> agent1], [kind |-> "agent", session |-> agent2],
                [kind |-> "max_rounds", session |-> maxed], [kind |-> "timeout", session |-> timed],
                [kind |-> "illegal", session |-> denied]>>

MCBudget == [s \in Session |-> CASE s \in {agent1, agent2} -> 5 [] OTHER -> 2]
MCMaxCalls == [s \in Session |-> CASE s = free1 -> 3 [] s = free2 -> 1 [] OTHER -> 3]

MCProfile == [s \in Session |-> [tools |-> {"read", "write", "register_artifact"},
                                 read |-> {"f", "g", "hello.txt"}, write |-> {"f"}]]
MCWorkspace == [p \in {"f", "hello.txt"} |-> IF p = "f" THEN {"x", "y"} ELSE {}]

Plain(tool, arg) == [tool |-> tool, arg |-> arg, old |-> "x", new |-> "z", base |-> "checkpoint"]
Patches == {Plain("apply_patch", "f"), [Plain("apply_patch", "f") EXCEPT !.old = "y", !.new = "w"]}
MCCall == [s \in Session |->
    CASE s = free1 -> Patches
      [] s = free2 -> {Plain("write_file", "f")}
      [] OTHER -> UNION {{Script(k)[j] : j \in DOMAIN Script(k)} : k \in Kinds}]
=============================================================================
