---------------------------- MODULE MCDeployment ----------------------------
(***************************************************************************)
(* One pool on the marketplace beside the demo pool, whose investor is     *)
(* minted twice what the trial subscribes.                                 *)
(***************************************************************************)
EXTENDS Deployment

MCMarket == <<"open">>
MCAmount == [p \in {"demo", "open"} |-> 1]
MCTarget == [p \in {"demo", "open"} |-> IF p = "demo" THEN 2 ELSE 1]
=============================================================================
