---------------------------- MODULE MCAgentRuntime ----------------------------
(* The instance of AgentRuntime that TLC checks: three policies that share  *)
(* their conditions and disagree, benign and hostile requests.              *)
EXTENDS AgentRuntime

CONSTANTS payroll, night, allowPayroll, blockBoth, quarantineNight

MCPolicies ==
  [p \in PolicyIds |->
     CASE p = allowPayroll ->
            [enabled |-> TRUE, match |-> "any", conditions |-> {payroll}, action |-> "ALLOW"]
       [] p = blockBoth ->
            [enabled |-> TRUE, match |-> "all", conditions |-> {payroll, night},
             action |-> "BLOCK"]
       [] OTHER ->
            [enabled |-> FALSE, match |-> "any", conditions |-> {night},
             action |-> "QUARANTINE"]]

\* Requests without findings come from every context and with every level.
MCClean ==
  {i \in [patterns : {{}}, url : {FALSE}, holds : {{}}, production : BOOLEAN,
          external : BOOLEAN, gemini : {"none", "LOW", "HIGH", "CRITICAL"}] :
     i.gemini = "HIGH" => i.production = i.external}

MCInputs ==
  MCClean \cup
  {i \in [patterns : {{}, {"suspicious_api_access"}, {"prompt_injection", "data_exfiltration"}},
          url : BOOLEAN, holds : {{}, {payroll}, {payroll, night}},
          production : BOOLEAN, external : BOOLEAN, gemini : {"none", "HIGH"}] :
     /\ i.url => i.patterns = {} /\ i.production
     /\ i.external => i.production /\ i.holds # {payroll}
     /\ i.gemini = "HIGH" => i.holds = {} /\ i.patterns # {} /\ ~i.production}

MCProfiles ==
  {[requests |-> 1, blocked |-> 0, external |-> 1, risky |-> FALSE],
   [requests |-> 40, blocked |-> 3, external |-> 4, risky |-> TRUE]}
=============================================================================
