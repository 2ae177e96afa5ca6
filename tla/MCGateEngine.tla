---------------------------- MODULE MCGateEngine ----------------------------
\* Values for the constants of GateEngine.
EXTENDS GateEngine, TLC

CONSTANTS p1, p2, t1, t2, r1, g1

MCRole == [n \in Node |-> CASE n \in {t1, t2} -> "test-engineer"
                            [] n = r1 -> "code-reviewer"
                            [] OTHER -> "reality-checker"]

NoFacts == {{}}
NoEvidence == {{}}

\* A synthetic result behaves like none: one of them is enough.
LegacyFacts == {f \in Fact : \/ f.source = "fake"
                             \/ f.source = "synthetic" /\ f.agent = "test-engineer" /\ f.status = "pass"}

Passed(source) == [agent : Agent, status : {"pass"}, source : {source}]

\* A run whose agents have all passed; one that lacks the reality check; one
\* whose results are those of the fake provider.
RipeFacts == {Passed("real"), {f \in Passed("real") : f.agent # "reality-checker"}, Passed("fake")}
Complete == Evidence \ {"hash mismatch", "path out of bounds"}
RipeEvidence == {Complete} \cup {Complete \ {e} : e \in {"release archive", "chain graph sealed"}}
StrictFacts == {f \in Fact : f.source # "synthetic" /\ f.status # "blocked"}

Symmetry == Permutations({p1, p2})
=============================================================================
