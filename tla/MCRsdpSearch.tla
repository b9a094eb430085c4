---------------------------- MODULE MCRsdpSearch ----------------------------
(***************************************************************************)
(* Every table of up to five entries.                                      *)
(***************************************************************************)
EXTENDS RsdpSearch
=============================================================================
