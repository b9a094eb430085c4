---------------------------- MODULE MCPciConfig -----------------------------
(***************************************************************************)
(* The ends of each part of an address and a value in between.             *)
(***************************************************************************)
EXTENDS PciConfig
=============================================================================
