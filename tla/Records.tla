------------------------------ MODULE Records ------------------------------
(***************************************************************************)
(* The modules about what is written down, and by whom, beside each other. *)
(* They share no variable: a behaviour is one of a single module, its      *)
(* part, and what the other modules say of their variables does not matter *)
(* in it.                                                                  *)
(***************************************************************************)
EXTENDS Archive, Replay, Startup, Facade, Findings, RateLimiter, Smoke, EvidencePolicy

VARIABLE part

partsVars == <<part, vars, replayVars, startupVars, facadeVars, findingVars, limiterVars, smokeVars, evidenceVars>>

Parts == {"archive", "replay", "startup", "facade", "findings", "limiter", "smoke", "evidence"}
PartsInit == /\ part \in Parts
             /\ Init /\ ReplayInit /\ StartupInit /\ FacadeInit /\ FindingsInit /\ LimiterInit
             /\ SmokeInit /\ EvidenceInit
             /\ part # "replay" => logged = <<>> /\ file = Export
             /\ part # "startup" => schema = {}
             /\ part # "facade" => \A n \in Node : nodes[n] = "pass"

Others(p) == /\ UNCHANGED part
             /\ p # "archive" => UNCHANGED vars
             /\ p # "replay" => UNCHANGED replayVars
             /\ p # "startup" => UNCHANGED startupVars
             /\ p # "facade" => UNCHANGED facadeVars
             /\ p # "findings" => UNCHANGED findingVars
             /\ p # "limiter" => UNCHANGED limiterVars
             /\ p # "smoke" => UNCHANGED smokeVars
             /\ p # "evidence" => UNCHANGED evidenceVars

PartsNext == \/ part = "archive"  /\ Next         /\ Others("archive")
             \/ part = "replay"   /\ ReplayNext   /\ Others("replay")
             \/ part = "startup"  /\ StartupNext  /\ Others("startup")
             \/ part = "facade"   /\ FacadeNext   /\ Others("facade")
             \/ part = "findings" /\ FindingsNext /\ Others("findings")
             \/ part = "limiter"  /\ LimiterNext  /\ Others("limiter")
             \/ part = "smoke"    /\ SmokeNext    /\ Others("smoke")
             \/ part = "evidence" /\ EvidenceNext /\ Others("evidence")
PartsSpec == PartsInit /\ [][PartsNext]_partsVars
-----------------------------------------------------------------------------
\* The types of the parts that have more than counters and sets.
RecordsTypeOK == TypeOK /\ StartupTypeOK /\ SmokeTypeOK
=============================================================================
