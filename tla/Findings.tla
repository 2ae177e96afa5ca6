------------------------------ MODULE Findings ------------------------------
(***************************************************************************)
(* Review findings (runtime.py): processes of reviewers create findings    *)
(* and supersede them.  A call reads the finding, and then adds its        *)
(* replacement, marks the finding and records the change in one            *)
(* transaction, whatever has become of the finding in between.             *)
(***************************************************************************)
EXTENDS Naturals, Sequences

CONSTANTS Reviewer,
          MaxFindings \* bound: findings

VARIABLES finding, \* the rows, in the order of their insertion
          history, \* review_findings_history
          holds    \* the finding each reviewer has read and not yet replaced

findingVars == <<finding, history, holds>>

Nobody == 0
Active == [status |-> "active", by |-> Nobody]

FindingsInit == finding = <<>> /\ history = <<>> /\ holds = [r \in Reviewer |-> Nobody]

Full == Len(finding) = MaxFindings

CreateReviewFinding(r) ==
    /\ holds[r] = Nobody /\ ~Full
    /\ finding' = Append(finding, Active)
    /\ history' = Append(history, [finding |-> Len(finding) + 1, action |-> "created", by |-> Nobody])
    /\ UNCHANGED holds

\* Any finding there is, superseded or not.
GetReviewFinding(r, i) ==
    /\ holds[r] = Nobody /\ ~Full
    /\ holds' = [holds EXCEPT ![r] = i]
    /\ UNCHANGED <<finding, history>>

\* Mutants: only an active finding is marked; the row names itself.
MarkedIfActive(rows, i, j) ==
    IF rows[i].status = "active" THEN [rows EXCEPT ![i] = [status |-> "superseded", by |-> j]] ELSE rows
MarkedByItself(rows, i, j) == [rows EXCEPT ![i] = [status |-> "superseded", by |-> i]]
Marked(rows, i, j) == [rows EXCEPT ![i] = [status |-> "superseded", by |-> j]]

SupersedeReviewFinding(r) ==
    LET i == holds[r]
        j == Len(finding) + 1
    IN
    /\ i # Nobody /\ ~Full
    /\ finding' = Marked(Append(finding, Active), i, j)
    /\ history' = Append(history, [finding |-> i, action |-> "superseded", by |-> j])
    /\ holds' = [holds EXCEPT ![r] = Nobody]

\* The process dies before its transaction has been committed.
GiveUp(r) == holds[r] # Nobody /\ holds' = [holds EXCEPT ![r] = Nobody] /\ UNCHANGED <<finding, history>>

FindingsNext == \E r \in Reviewer :
    \/ CreateReviewFinding(r) \/ SupersedeReviewFinding(r) \/ GiveUp(r)
    \/ \E i \in DOMAIN finding : GetReviewFinding(r, i)

FindingsSpec == FindingsInit /\ [][FindingsNext]_findingVars
-----------------------------------------------------------------------------
\* Where a reader who follows superseded_by_id arrives, at most one step for each row.
Current(i) ==
    LET follow[k \in 0..Len(finding)] ==
            IF k = 0 THEN i
            ELSE LET f == follow[k - 1] IN IF finding[f].by = Nobody THEN f ELSE finding[f].by
    IN follow[Len(finding)]

\* However often findings are superseded, by several reviewers at once and again after
\* they have been: whoever follows the replacements arrives at a finding that is active.
ChainsEndActive == \A i \in DOMAIN finding : finding[Current(i)].status = "active"

\* When two reviewers replace the same finding the row keeps the second replacement only;
\* the history has both, in order, so that no finding is without origin (runtime.py:206-225).
HistoryTellsAll ==
    /\ \A j \in DOMAIN finding : \E k \in DOMAIN history :
           IF history[k].action = "created" THEN history[k].finding = j ELSE history[k].by = j
    /\ \A i \in DOMAIN finding :
           LET replaced == {k \in DOMAIN history : history[k].action = "superseded"
                                                   /\ history[k].finding = i}
           IN  finding[i].by = IF replaced = {} THEN Nobody
                               ELSE history[CHOOSE k \in replaced : \A l \in replaced : l <= k].by

\* Why they do: a replacement is younger than what it replaces.
Forward ==
    \A i \in DOMAIN finding :
        IF finding[i].by = Nobody THEN finding[i].status = "active"
        ELSE finding[i].by \in DOMAIN finding /\ i < finding[i].by
=============================================================================
