----------------------------- MODULE MerkleTree -----------------------------
(***************************************************************************)
(* The accreditation tree: eight leaves, three levels of pairwise hashes.  *)
(* It is built in the service (src/merkle/tree.ts), in the browser         *)
(* (web/lib/zk/merkle.ts) and in the contract (recompute_root); paths are  *)
(* cut by the first two and climbed by the circuit.  All must agree on     *)
(* which sibling comes first.                                              *)
(*                                                                         *)
(* Poseidon is collision free, so a hash stands for the pair it was        *)
(* computed from, and a leaf for the three fields of its record.  Levels   *)
(* and paths are sequences, counted from 1; leaf indices are the code's,   *)
(* from 0.                                                                 *)
(***************************************************************************)
EXTENDS Integers, Sequences, Functions

CONSTANT ZeroLeaf          \* the leaf that pads a short roster

Depth   == 3
Slots   == 8
Indices == 0..(Slots - 1)

Hash(left, right) == <<left, right>>

\* Neighbours are hashed in pairs, the even one first.
Up(level, width) ==
  [i \in 1..width |-> Hash(level[2 * i - 1], level[2 * i])]

Levels(leaves) ==
  LET pairs    == Up(leaves, 4)
      quarters == Up(pairs, 2)
  IN  <<leaves, pairs, quarters, Up(quarters, 1)>>

Root(leaves) == Levels(leaves)[4][1]

Padded(roster) ==
  [i \in 1..Slots |-> IF i \in DOMAIN roster THEN roster[i] ELSE ZeroLeaf]

\* The node above the leaf, level - 1 levels up: index >> (level - 1).
Cursor(index, level) ==
  CASE level = 1 -> index
    [] level = 2 -> index \div 2
    [] level = 3 -> index \div 4

NextNode(cursor) == cursor + 1

\* cursor ^ 1
Sibling(cursor) == IF cursor % 2 = 0 THEN cursor + 1 ELSE cursor - 1

PathFor(leaves, index) ==
  [siblings |-> [level \in 1..Depth |->
                   Levels(leaves)[level][Sibling(Cursor(index, level)) + 1]],
   indices  |-> [level \in 1..Depth |-> Cursor(index, level) % 2]]

\* One level of the walk: index 1 says the node is the right one of its pair.
Climb(node, sibling, bit) ==
  IF bit = 0 THEN Hash(node, sibling) ELSE Hash(sibling, node)

VerifyPath(leaf, path) ==
  LET first  == Climb(leaf, path.siblings[1], path.indices[1])
      second == Climb(first, path.siblings[2], path.indices[2])
  IN  Climb(second, path.siblings[3], path.indices[3])

-----------------------------------------------------------------------------
\* A row of the issuer's CSV file, and the leaf it becomes.
Records(Fields) ==
  [investorId : Fields, cap : Fields, investorSecret : Fields]

RecordLeaf(record) == <<record.investorId, record.cap, record.investorSecret>>

RecordLeaves(records) == [i \in DOMAIN records |-> RecordLeaf(records[i])]

\* buildTree returns a tree and does not throw: in the scripts, ...
BuildsTree(records) ==
  /\ Len(records) = Slots
  /\ IsInjective([i \in DOMAIN records |-> records[i].investorId])
  /\ IsInjective(RecordLeaves(records))

\* ... and in the browser.
BuildsTreeInBrowser(records) ==
  /\ Len(records) = Slots
  /\ IsInjective(RecordLeaves(records))

\* generate_path.js: the path of the first slot that holds the leaf.
SlotOf(leaves, leaf) ==
  CHOOSE index \in Indices :
    /\ leaves[index + 1] = leaf
    /\ \A earlier \in 0..(index - 1) : leaves[earlier + 1] # leaf

GeneratedPath(leaves, leaf) == PathFor(leaves, SlotOf(leaves, leaf))
=============================================================================
