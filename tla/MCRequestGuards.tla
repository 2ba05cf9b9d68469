--------------------------- MODULE MCRequestGuards ---------------------------
(* The instance of RequestGuards that TLC checks: two users behind one       *)
(* address, and a dashboard.                                                *)
EXTENDS RequestGuards

CONSTANTS ann, bob, board

MCKeysOf ==
  [c \in Clients |->
     CASE c \in {ann, bob} -> <<"ip">>
       [] c = board -> <<"ws:ip", "ws:org">>]
=============================================================================
