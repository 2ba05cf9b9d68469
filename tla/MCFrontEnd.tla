----------------------------- MODULE MCFrontEnd -----------------------------
(***************************************************************************)
(* Instance of FrontEnd for TLC.                                           *)
(***************************************************************************)
EXTENDS FrontEnd

CONSTANTS r1, r2

MCIds == {r1, r2}

\* No rows, one, or two that a filter tells apart.
MCRows ==
  {<<>>, <<[id |-> r1, tag |-> "on"]>>, <<[id |-> r1, tag |-> "on"], [id |-> r2, tag |-> "off"]>>}
=============================================================================
