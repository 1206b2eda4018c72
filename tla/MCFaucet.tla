------------------------------ MODULE MCFaucet ------------------------------
(***************************************************************************)
(* Two addresses over two cooldowns.                                       *)
(***************************************************************************)
EXTENDS Faucet, TLC

CONSTANTS x, y

Symmetry == Permutations({x, y})
=============================================================================
