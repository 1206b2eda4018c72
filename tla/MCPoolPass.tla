----------------------------- MODULE MCPoolPass -----------------------------
(***************************************************************************)
(* A small pool: two investors, two secrets, a circuit for trees of two    *)
(* leaves, amounts up to 3 in a field of order 11, three words for a       *)
(* nullifier, of which the host takes two, epochs 0 to 2 and balances up   *)
(* to 3.                                                                   *)
(***************************************************************************)
EXTENDS PoolPass, TLC

CONSTANTS i1, i2, s1, s2

Leaf(secret, cap) == [secret |-> secret, cap |-> cap]

\* A padded roster, a full one, one that is too deep for the circuit, and one
\* that fills no tree.
MCSubmissions ==
  {<<Leaf(s1, 1), ZeroLeaf>>, <<Leaf(s1, 2), Leaf(s2, 1)>>,
   <<Leaf(s1, 1), Leaf(s2, 1), ZeroLeaf, ZeroLeaf>>, <<Leaf(s2, 2)>>}

MCDepths  == {0, 1, 2, 17}
MCAmounts == -1..2

(***************************************************************************)
(* Statements anyone could try: for every root of the circuit's depth,     *)
(* amounts within u64, one wider than u64 and the field element -1, epochs *)
(* up to one wider than u32, nullifiers of that epoch or the one before,   *)
(* one of them in its other words too, with the amount 1 on the full       *)
(* roster; one kind of statement for the other roots, which no proof is    *)
(* about.                                                                  *)
(***************************************************************************)
MCInputs ==
  {s \in [root : {r \in Roots : Len(r) # 1}, amount : {1, 2, 4, 10},
          nullifier : [element : Secrets \X (0..U32Max + 1), wraps : Wraps],
          epoch : 0..(U32Max + 1)] :
     /\ s.nullifier.element[2] \in {s.epoch, s.epoch - 1}
     /\ s.amount \in {4, 10} => s.nullifier.element[2] = s.epoch
     /\ s.nullifier.wraps # 0 =>
          s.amount = 1 /\ s.nullifier.element = <<s1, 1>> /\ ZeroLeaf \notin Range(s.root)
     /\ Len(s.root) # 2 => s.amount = 1 /\ s.epoch = 1}

Symmetry == Permutations({i1, i2})
=============================================================================
