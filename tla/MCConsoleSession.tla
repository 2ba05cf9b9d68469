-------------------------- MODULE MCConsoleSession --------------------------
(***************************************************************************)
(* Instance of ConsoleSession for TLC.                                     *)
(***************************************************************************)
EXTENDS ConsoleSession

CONSTANTS u1, u2, t1, t2

MCUsers == {u1, u2}
\* The two users are alike.
MCStored == {u1}
MCTabs == {t1, t2}
=============================================================================
