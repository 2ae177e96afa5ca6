--------------------------- MODULE EvidencePolicy ---------------------------
(***************************************************************************)
(* The evidence gate of the acceptance report: what the run's facts, which *)
(* agents and operators add one at a time (acceptance.py), are worth under *)
(* each of the evidence profiles (evidence_policy.py, profile_registry.py).*)
(***************************************************************************)
EXTENDS Naturals

VARIABLES facts, \* what _collect_runtime_facts() collects
          there  \* the files that are there

evidenceVars == <<facts, there>>

Profile == {"smoke", "mvp", "real_acceptance"}
Grade   == {"real", "other"}     \* a result by claude_cli itself; by another, fallen back, synthetic
Type    == {"mvp", "review"}
Path    == {"p", "q"}
Verdict == {"pass", "fail"}

NoFacts == [agentResults |-> {}, artifacts |-> {}, reviewArtifacts |-> FALSE, verificationResults |-> {},
            coverageLanes |-> {}, skillUsage |-> FALSE, eventHashChain |-> FALSE]

EvidenceInit == facts = NoFacts /\ there = {}

Learn(f) == facts' = f /\ UNCHANGED there

SubmitResult(g)      == Learn([facts EXCEPT !.agentResults = @ \cup {g}])
InsertArtifact(t, p) == Learn([facts EXCEPT !.artifacts = @ \cup {<<t, p>>}])
RecordReview         == Learn([facts EXCEPT !.reviewArtifacts = TRUE])
Verify(v)            == Learn([facts EXCEPT !.verificationResults = @ \cup {<<"ui_smoke", v>>}])
UpdateLane(v)        == Learn([facts EXCEPT !.coverageLanes = @ \cup {v}])
UseSkill             == Learn([facts EXCEPT !.skillUsage = TRUE])
\* The last event that says the chain is sealed counts, whether it has a hash or not.
SealChain(h)         == Learn([facts EXCEPT !.eventHashChain = h])
MoveFile(p)          == there' = (there \ {p}) \cup ({p} \ there) /\ UNCHANGED facts

EvidenceNext == \/ \E g \in Grade : SubmitResult(g)
                \/ \E t \in Type, p \in Path : InsertArtifact(t, p)
                \/ \E p \in Path : MoveFile(p)
                \/ \E v \in Verdict : Verify(v) \/ UpdateLane(v)
                \/ \E h \in BOOLEAN : SealChain(h)
                \/ RecordReview \/ UseSkill

EvidenceSpec == EvidenceInit /\ [][EvidenceNext]_evidenceVars
-----------------------------------------------------------------------------
Nothing == [artifacts |-> {}, verifications |-> {}, lane |-> FALSE, skill |-> FALSE, review |-> FALSE,
            chain |-> FALSE, provider |-> TRUE]
Mvp == [Nothing EXCEPT !.artifacts = {"mvp"}, !.verifications = {"ui_smoke"},
                       !.skill = TRUE, !.review = TRUE]

Requirements(p) == CASE p = "smoke" -> Nothing
                     [] p = "mvp" -> Mvp
                     [] p = "real_acceptance" -> [Mvp EXCEPT !.lane = TRUE, !.chain = TRUE]

ProviderIssues(results) == results \ {"real"}

\* Mutant: no verification of the kind may have failed.
VerifiedAlways(k) == /\ <<k, "pass">> \in facts.verificationResults
                     /\ <<k, "fail">> \notin facts.verificationResults
Verified(k) == <<k, "pass">> \in facts.verificationResults

PathsOf(t) == {p \in Path : <<t, p>> \in facts.artifacts}
HasReviewArtifact == facts.reviewArtifacts \/ PathsOf("review") # {}

\* evaluate(): artifacts count by the table and by the files, the rest by the events.
Incomplete(r) ==
    \/ \E t \in r.artifacts : PathsOf(t) = {} \/ ~PathsOf(t) \subseteq there
    \/ \E k \in r.verifications : ~Verified(k)
    \/ r.lane /\ "pass" \notin facts.coverageLanes
    \/ r.skill /\ ~facts.skillUsage
    \/ r.review /\ ~HasReviewArtifact
TamperedWith(r) == r.chain /\ ~facts.eventHashChain
Evaluate(p) ==
    LET r == Requirements(p)
        invalid == r.provider /\ ProviderIssues(facts.agentResults) # {}
    IN  IF Incomplete(r) \/ invalid \/ TamperedWith(r) THEN "fail" ELSE "pass"
-----------------------------------------------------------------------------
\* One result that is not real taints its run for good, under every profile: results are
\* never taken back (evidence_policy.py:126-140).
TaintIsForever ==
    [][facts.agentResults \ {"real"} # {} => \A p \in Profile : Evaluate(p)' = "fail"]_evidenceVars

\* A gate that passes is only lost with a first result that is not real, an artifact that
\* has no file or no longer one, or a seal without a hash after one that had it
\* (acceptance.py:224-230): no further real result, and no later verification or coverage
\* lane, not even one that failed, takes it back (evidence_policy.py:75-115).
WithoutFile == {a \in facts.artifacts : a[2] \notin there}
OnlyLossHurts ==
    [][/\ facts'.agentResults \ {"real"} = facts.agentResults \ {"real"}
       /\ WithoutFile' \subseteq WithoutFile
       /\ facts.eventHashChain => facts'.eventHashChain
       => \A p \in Profile : Evaluate(p) = "pass" => Evaluate(p)' = "pass"]_evidenceVars

\* A run's way through the gate, and the only ways back.
GateIsMonotone == TaintIsForever /\ OnlyLossHurts
=============================================================================
