-------------------------- MODULE MCAccreditation --------------------------
(***************************************************************************)
(* Three requests over three leaves and a tree of two, so that the third   *)
(* can repeat a leaf, find the tree full or follow a failure.              *)
(***************************************************************************)
EXTENDS Accreditation

CONSTANTS a, b, c

MCSeeded == <<c>>

MCConsoleRosters == {<<b>>}
=============================================================================
