--------------------------- MODULE MCCoordination ---------------------------
(* Coordination with the workers that DynamicScheduler has by default.       *)
EXTENDS Coordination

MCCandidates ==
  [t \in Tasks |->
     CASE t \in {timeline, configAudit} -> <<"timeline#01", "timeline#02">>
       [] t = baseline -> <<"universe#01">>
       [] t = hypotheses -> <<"scientist#01", "scientist#02">>
       [] t = tournament -> <<"verifier#01", "verifier#02">>
       [] t = riskGate -> <<"auditor#01">>]

MCWorkers == UNION {{MCCandidates[t][n] : n \in DOMAIN MCCandidates[t]} : t \in Tasks}
=============================================================================
