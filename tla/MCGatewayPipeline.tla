-------------------------- MODULE MCGatewayPipeline --------------------------
(* The instances of GatewayPipeline that TLC checks: no policies, requests  *)
(* that are benign or hostile.                                              *)
EXTENDS GatewayPipeline, TLC

CONSTANTS r1, r2, a1, noOne

MCPolicies == [p \in PolicyIds |-> {}]

Ask(patterns, production) ==
  [patterns |-> patterns, url |-> FALSE, holds |-> {}, production |-> production,
   external |-> production, gemini |-> "none"]

MCBenign == {Ask({}, FALSE)}
MCInputs == MCBenign \cup {Ask({"data_exfiltration"}, TRUE)}

MCSymmetry == Permutations(Requests)
=============================================================================
