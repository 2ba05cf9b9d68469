-------------------------- MODULE MCWebSocketManager --------------------------
(* The instances of WebSocketManager that TLC checks.                      *)
EXTENDS WebSocketManager, TLC

CONSTANTS s1, s2, c1, k1, o1

MCAllowedOne == [s \in Sockets |-> {c1}]
MCOrg == [s \in Sockets |-> o1]
=============================================================================
