------------------------------ MODULE MCTimer ------------------------------
(***************************************************************************)
(* A counter of six values, bytes of three, a sleep of three ticks.        *)
(***************************************************************************)
EXTENDS Timer
=============================================================================
