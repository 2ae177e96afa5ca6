----------------------------- MODULE MCRecords -----------------------------
(***************************************************************************)
(* Values for the modules about what is written down, and by whom.         *)
(***************************************************************************)
EXTENDS Records

CONSTANTS n1, n2

MCTableOrder == <<"squad_runs", "task_nodes">>
MCCoreTables == <<"squad_runs", "agent_results">>
MCProviderColumns == <<"provider_type", "synthetic">>
MCHashColumns == <<"previous_event_hash", "event_hash">>

Operation(o, n) == [op |-> o, node |-> n]
MCPlan == {<<Operation("reroute", n1), Operation("cancel_node", n2)>>,
           <<Operation("mark_stale", n1), Operation("update_node", n2)>>,
           <<Operation("reroute", "nobody")>>, <<>>}

Command(p, n, c, k) == [provider |-> p, scenario |-> "F", rounds |-> n, coverage |-> c, complete |-> k]
MCSetting == {Command("claude_cli", 1, 2, TRUE), Command("claude_cli", 2, 3, TRUE),
              Command("claude_cli", 1, 3, FALSE), Command("fake_cli", 1, 0, FALSE)}
MCTeam == <<"maker", "tester">>
=============================================================================
