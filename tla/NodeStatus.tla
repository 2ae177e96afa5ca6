----------------------------- MODULE NodeStatus -----------------------------
(***************************************************************************)
(* squad_runtime/state.py: the statuses of a task node and the transitions *)
(* the runtime allows between them.                                        *)
(***************************************************************************)
Status == {"todo", "ready", "running", "pass", "fail", "blocked",
           "agent_unavailable", "progress_timeout", "canceled", "stale", "done"}

Absent == "absent"      \* a node that has no row yet; not a status of the code

AllowedTransitions ==
    [s \in Status |->
       CASE s = "todo"              -> {"ready", "blocked", "canceled", "stale"}
         [] s = "ready"             -> {"running", "blocked", "canceled", "stale"}
         [] s = "running"           -> {"pass", "fail", "blocked", "canceled",
                                        "agent_unavailable", "progress_timeout", "stale"}
         [] s = "agent_unavailable" -> {"ready", "canceled"}
         [] s = "progress_timeout"  -> {"ready", "canceled"}
         [] s = "blocked"           -> {"ready", "canceled", "stale"}
         [] s = "fail"              -> {"ready", "canceled", "stale"}
         [] s = "pass"              -> {"stale", "done"}
         [] s = "canceled"          -> {"done"}
         [] OTHER                   -> {}]

\* ensure_transition_allowed
Allowed(from, to) == to \in AllowedTransitions[from]
=============================================================================
