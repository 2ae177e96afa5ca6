------------------------- MODULE MCAcceptanceRunner -------------------------
\* Values for the constants of AcceptanceRunner.
EXTENDS AcceptanceRunner

\* The full team with one agent for the five that come before the gates'.
MCTeam == <<"squad-lead", "test-engineer", "code-reviewer", "reality-checker",
            "git-workflow-master">>
=============================================================================
