------------------------- MODULE InvestorFlowProofs -------------------------
(***************************************************************************)
(* What the paths of packages prove, and what the pages around one pool do *)
(* with them, for any number of accounts, identities, packages, amounts    *)
(* and epochs. The path cut for a leaf leads back to the root, and to that *)
(* root it leads from no other leaf; in a tree that buildTree returned, it *)
(* belongs to one record only.                                             *)
(***************************************************************************)
EXTENDS InvestorFlow, TLAPS

(***************************************************************************)
(* One level: hashed with the sibling of slot c, a node gives the parent   *)
(* of c if, and only if, it is the node in slot c.                         *)
(***************************************************************************)
LEMMA ClimbMeetsParent ==
  ASSUME NEW level, NEW width \in Nat, NEW c \in 0..(2 * width - 1), NEW node
  PROVE  Climb(node, level[Sibling(c) + 1], c % 2) = Up(level, width)[c \div 2 + 1]
           <=> node = level[c + 1]
<1> DEFINE k == c \div 2
<1>1. k + 1 \in 1..width
  OBVIOUS
<1>2. Up(level, width)[k + 1] = <<level[2 * (k + 1) - 1], level[2 * (k + 1)]>>
  BY <1>1 DEF Up, Hash
<1>3. CASE c % 2 = 0
  <2>1. c + 1 = 2 * (k + 1) - 1 /\ Sibling(c) + 1 = 2 * (k + 1)
    BY <1>3 DEF Sibling
  <2>2. Climb(node, level[Sibling(c) + 1], c % 2) = <<node, level[2 * (k + 1)]>>
    BY <1>3, <2>1 DEF Climb, Hash
  <2> QED
    BY <1>2, <2>1, <2>2
<1>4. CASE c % 2 = 1
  <2>1. Sibling(c) + 1 = 2 * (k + 1) - 1 /\ c + 1 = 2 * (k + 1)
    BY <1>4 DEF Sibling
  <2>2. Climb(node, level[Sibling(c) + 1], c % 2) = <<level[2 * (k + 1) - 1], node>>
    BY <1>4, <2>1 DEF Climb, Hash
  <2> QED
    BY <1>2, <2>1, <2>2
<1> QED
  BY <1>3, <1>4

(***************************************************************************)
(* The whole walk, one level after the other.                              *)
(***************************************************************************)
LEMMA WalkMeetsRoot ==
  ASSUME NEW leaves, NEW index \in Indices, NEW leaf
  PROVE  VerifyPath(leaf, PathFor(leaves, index)) = Root(leaves)
           <=> leaf = leaves[index + 1]
<1> DEFINE pairs    == Up(leaves, 4)
           quarters == Up(pairs, 2)
           top      == Up(quarters, 1)
           path     == PathFor(leaves, index)
           first    == Climb(leaf, leaves[Sibling(index) + 1], index % 2)
           second   == Climb(first, pairs[Sibling(index \div 2) + 1],
                             (index \div 2) % 2)
           third    == Climb(second, quarters[Sibling(index \div 4) + 1],
                             (index \div 4) % 2)
<1>1. Levels(leaves) = <<leaves, pairs, quarters, top>>
  BY DEF Levels
<1>2. Root(leaves) = top[1]
  BY <1>1 DEF Root
<1>3. /\ path.siblings[1] = leaves[Sibling(index) + 1]
      /\ path.siblings[2] = pairs[Sibling(index \div 2) + 1]
      /\ path.siblings[3] = quarters[Sibling(index \div 4) + 1]
      /\ path.indices[1] = index % 2
      /\ path.indices[2] = (index \div 2) % 2
      /\ path.indices[3] = (index \div 4) % 2
  <2> HIDE DEF pairs, quarters, top
  <2> QED
    BY <1>1 DEF PathFor, Depth, Cursor
<1>4. VerifyPath(leaf, path) = third
  <2> HIDE DEF pairs, quarters, top, path
  <2> QED
    BY <1>3 DEF VerifyPath
<1>5. /\ index \in 0..(2 * 4 - 1)
      /\ index \div 2 \in 0..(2 * 2 - 1)
      /\ index \div 4 \in 0..(2 * 1 - 1)
      /\ (index \div 2) \div 2 = index \div 4
      /\ (index \div 4) \div 2 = 0
  BY DEF Indices, Slots
<1>6. first = pairs[index \div 2 + 1] <=> leaf = leaves[index + 1]
  <2>1. \A c \in 0..(2 * 4 - 1) :
           Climb(leaf, leaves[Sibling(c) + 1], c % 2) = Up(leaves, 4)[c \div 2 + 1]
             <=> leaf = leaves[c + 1]
    BY ZenonT(60), ClimbMeetsParent, 4 \in Nat
  <2> QED
    BY <1>5, <2>1
<1>7. second = quarters[index \div 4 + 1] <=> first = pairs[index \div 2 + 1]
  <2> HIDE DEF pairs, first
  <2>1. \A c \in 0..(2 * 2 - 1) :
           Climb(first, pairs[Sibling(c) + 1], c % 2) = Up(pairs, 2)[c \div 2 + 1]
             <=> first = pairs[c + 1]
    BY ZenonT(60), ClimbMeetsParent, 2 \in Nat
  <2> QED
    BY <1>5, <2>1
<1>8. third = top[1] <=> second = quarters[index \div 4 + 1]
  <2> HIDE DEF quarters, second
  <2>1. \A c \in 0..(2 * 1 - 1) :
           Climb(second, quarters[Sibling(c) + 1], c % 2) = Up(quarters, 1)[c \div 2 + 1]
             <=> second = quarters[c + 1]
    BY ZenonT(60), ClimbMeetsParent, 1 \in Nat
  <2> QED
    BY <1>5, <2>1
<1> HIDE DEF pairs, quarters, top, path, first, second, third
<1>9. Root(leaves) = VerifyPath(leaf, path) <=> leaf = leaves[index + 1]
  BY <1>2, <1>4, <1>6, <1>7, <1>8
<1> QED
  BY <1>9 DEF path

(***************************************************************************)
(* Parity of the implementations: the path that the service or the browser *)
(* cuts for a slot, walked by the circuit from the leaf in that slot, ends *)
(* at the root the contract recomputes.                                    *)
(***************************************************************************)
THEOREM PathVerifies ==
  ASSUME NEW leaves, NEW index \in Indices
  PROVE  VerifyPath(leaves[index + 1], PathFor(leaves, index)) = Root(leaves)
BY WalkMeetsRoot

(***************************************************************************)
(* A path binds its leaf: walked from any other leaf it misses the root,   *)
(* so a package proves membership of its own identity only.                *)
(***************************************************************************)
THEOREM PathBinds ==
  ASSUME NEW leaves, NEW index \in Indices, NEW leaf,
         VerifyPath(leaf, PathFor(leaves, index)) = Root(leaves)
  PROVE  leaf = leaves[index + 1]
BY WalkMeetsRoot

-----------------------------------------------------------------------------
(***************************************************************************)
(* The tool that cuts a path from a tree file looks the leaf up and takes  *)
(* the first slot: whether or not others hold the same leaf, the path it   *)
(* writes leads from that leaf to the root (generate_path.js).             *)
(***************************************************************************)
THEOREM GeneratedPathVerifies ==
  ASSUME NEW leaves, NEW leaf, \E index \in Indices : leaves[index + 1] = leaf
  PROVE  VerifyPath(leaf, GeneratedPath(leaves, leaf)) = Root(leaves)
<1> DEFINE holds(index) == leaves[index + 1] = leaf
           first(index) == /\ holds(index)
                           /\ \A earlier \in 0..(index - 1) : ~holds(earlier)
<1>1. \E index \in Indices : first(index)
  <2> SUFFICES ASSUME \A index \in 0..7 : ~first(index)
               PROVE  \A index \in 0..7 : ~holds(index)
    BY DEF Indices, Slots
  <2> HIDE DEF holds
  <2>0. ~holds(0)
    OBVIOUS
  <2>1. ~holds(1)
    BY <2>0
  <2>2. ~holds(2)
    BY <2>0, <2>1
  <2>3. ~holds(3)
    BY <2>0, <2>1, <2>2
  <2>4. ~holds(4)
    BY <2>0, <2>1, <2>2, <2>3
  <2>5. ~holds(5)
    BY <2>0, <2>1, <2>2, <2>3, <2>4
  <2>6. ~holds(6)
    BY <2>0, <2>1, <2>2, <2>3, <2>4, <2>5
  <2>7. ~holds(7)
    BY <2>0, <2>1, <2>2, <2>3, <2>4, <2>5, <2>6
  <2> QED
    BY <2>0, <2>1, <2>2, <2>3, <2>4, <2>5, <2>6, <2>7
<1>2. SlotOf(leaves, leaf) \in Indices /\ leaves[SlotOf(leaves, leaf) + 1] = leaf
  BY <1>1, Zenon DEF SlotOf
<1> QED
  BY <1>2, WalkMeetsRoot DEF GeneratedPath

(***************************************************************************)
(* The scripts and the browser build a tree from the same records whenever *)
(* the investors differ; the scripts' second check, of the leaves, refuses *)
(* nothing that the first, of the investors, let through (tree.ts).        *)
(***************************************************************************)
THEOREM DistinctInvestorsSuffice ==
  ASSUME NEW records, Len(records) = Slots,
         IsInjective([i \in DOMAIN records |-> records[i].investorId])
  PROVE  BuildsTree(records) /\ BuildsTreeInBrowser(records)
<1>1. ASSUME NEW i \in DOMAIN records, NEW j \in DOMAIN records,
             RecordLeaf(records[i]) = RecordLeaf(records[j])
      PROVE  i = j
  <2>1. records[i].investorId = records[j].investorId
    BY <1>1 DEF RecordLeaf
  <2> QED
    BY <2>1 DEF IsInjective
<1>2. IsInjective(RecordLeaves(records))
  BY <1>1 DEF IsInjective, RecordLeaves
<1> QED
  BY <1>2 DEF BuildsTree, BuildsTreeInBrowser

(***************************************************************************)
(* A path of a built tree proves one record: walked from the leaf of       *)
(* record j it meets the root only if it was cut for slot j, so nobody     *)
(* subscribes under the cap of another record.                             *)
(***************************************************************************)
THEOREM PathBelongsToOneRecord ==
  ASSUME NEW records, DOMAIN records = 1..Slots, BuildsTreeInBrowser(records),
         NEW i \in Indices, NEW j \in Indices,
         VerifyPath(RecordLeaf(records[j + 1]), PathFor(RecordLeaves(records), i))
           = Root(RecordLeaves(records))
  PROVE  i = j
<1> DEFINE leaves == RecordLeaves(records)
<1>1. i \in Int /\ j \in Int /\ i + 1 \in DOMAIN records /\ j + 1 \in DOMAIN records
  BY DEF Indices, Slots
<1>2. RecordLeaf(records[j + 1]) = leaves[i + 1]
  BY PathBinds
<1>3. leaves[i + 1] = leaves[j + 1] /\ DOMAIN leaves = DOMAIN records
  BY <1>1, <1>2 DEF RecordLeaves
<1>4. i + 1 = j + 1
  BY <1>1, <1>3 DEF BuildsTreeInBrowser, IsInjective
<1> QED
  BY <1>1, <1>4

-----------------------------------------------------------------------------
(***************************************************************************)
(* The types of what the browsers, the service and the chain keep.         *)
(***************************************************************************)
Proofs == [pkg : Packages, amount : Amounts, verified : BOOLEAN]

Ops ==
  [kind : {"subscribe"}, proof : Proofs, amount : Amounts]
  \cup [kind : {"commit"}, leaves : Trees]
  \cup [kind : {"advance"}]

Txs == [n : Nat, source : Accounts, seq : Nat, op : Ops]

ChainTyped ==
  /\ chain \in [rosters : Seq(Trees), spent : SUBSET (Identities \X (1..MaxEpoch)),
                seq : [Accounts -> Nat], pending : SUBSET Txs,
                applied : SUBSET Txs, failed : SUBSET Txs]
  /\ Epoch \in 1..MaxEpoch
  /\ \A tx \in chain.pending : tx.seq = chain.seq[tx.source] + 1

Steps == {"account", "simulate", "sign", "send", "poll"}

Calls == {Idle} \cup [step : Steps, polls : Nat, signer : Accounts, tx : Txs]

CallTyped ==
  /\ budget \in [Tasks -> Nat]
  /\ budget["accredit"] <= Len(Generated)
  /\ call \in [Callers -> Calls]

ConsoleTyped ==
  /\ console \in [rows : Rows, committedEpoch : Nat, poolEpoch : Nat,
                  refetching : BOOLEAN, raced : BOOLEAN, excused : BOOLEAN]
  /\ console.committedEpoch <= Epoch
  /\ console.poolEpoch <= Epoch
  /\ files \subseteq Packages

Runs     == [id : Nat, prover : {"browser", "fallback"}, step : {"assembling", "proving"},
             pkg : Packages, amount : Amounts]
Requests == [identity : Known, pkg : Packages \cup {NoPackage}, shown : BOOLEAN]

ModalTyped ==
  /\ modal \in [open : BOOLEAN, timer : BOOLEAN, tab : {"accredit", "prove", "subscribe"},
                pkg : Packages \cup {NoPackage}, amount : Amounts,
                handle : Proofs \cup {NoProof}, result : Txs \cup {NoResult},
                reading : SUBSET Packages]
  /\ prover \in [out : BOOLEAN, busy : BOOLEAN, runs : SUBSET Runs]
  /\ accreditation \in [filed : Seq(Known), requests : SUBSET Requests]

WalletTyped ==
  /\ wallet \in [address : Investors \cup {NoAddress},
                 asking : SUBSET [by : {"init", "connect"},
                                  address : Investors \cup {NoAddress}]]
  /\ extension \in [selected : Investors, allowed : BOOLEAN]

Typed == ChainTyped /\ CallTyped /\ ConsoleTyped /\ ModalTyped /\ WalletTyped

(***************************************************************************)
(* What is applied was paid for by a nullifier of its own, and is what the *)
(* success panel shows.                                                    *)
(***************************************************************************)
PaidOnce ==
  /\ NotPaidTwice
  /\ \A tx \in Subscriptions(chain.applied) :
       NullifierOf(tx.op.proof) \in chain.spent /\ Valid(tx)

(***************************************************************************)
(* The running proofs are those of the form's amount, and will do.         *)
(***************************************************************************)
RunsOfTheForm ==
  \A run \in prover.runs : run.amount = modal.amount /\ Provable(run.pkg, run.amount)

(***************************************************************************)
(* Between a commit and its answer: transactions of earlier commits have a *)
(* number by which they are told from the running one, whose roster stays  *)
(* the current one once it is applied.                                     *)
(***************************************************************************)
IsCommit(tx) == tx.op.kind = "commit"

OneCommit ==
  /\ \A c \in Callers : call[c] # Idle /\ IsCommit(call[c].tx) => c = "commit"
  /\ call["commit"] # Idle =>
       /\ IsCommit(call["commit"].tx)
       /\ call["commit"].tx.source = Issuer
       /\ call["commit"].tx.n = budget["commit"] + 1
       /\ ~console.refetching

EarlierCommits ==
  \A tx \in chain.pending \cup chain.applied : IsCommit(tx) =>
    /\ tx.source = Issuer
    /\ tx.n > budget["commit"]
    /\ call["commit"] # Idle /\ call["commit"].step # "poll" => tx.n > budget["commit"] + 1

CommitApplied ==
  console.refetching \/ (call["commit"].step = "poll" /\ call["commit"].tx \in chain.applied)

CommitStands ==
  /\ call["commit"] # Idle /\ ~console.raced => call["commit"].tx.op.leaves = Tree
  /\ CommitApplied =>
       /\ \A tx \in chain.pending : ~IsCommit(tx)
       /\ console.raced \/ Roster = Tree
  /\ CommittedEpochIsOfTheTree

(***************************************************************************)
(* What the verify page has taken up is the subscription it was opened     *)
(* for.                                                                    *)
(***************************************************************************)
IsOf(key, txs, tx) == tx = NoTx \/ (tx \in Subscriptions(txs) /\ Matches(tx, key))

PageFits(p, txs) ==
  /\ p = [key |-> p.key, sub |-> p.sub, proofs |-> p.proofs, checks |-> p.checks,
          verifying |-> p.verifying, verdict |-> p.verdict]
  /\ p.verdict = [via \in Vias |-> p.verdict[via]]
  /\ IsOf(p.key, txs, p.sub)
  /\ \A tx \in p.proofs : IsOf(p.key, txs, tx)
  /\ \A check \in p.checks : check.via \in Vias /\ IsOf(p.key, txs, check.tx)
  /\ \A via \in Vias : IsOf(p.key, txs, p.verdict[via])

PageIsOfItsKey == page # NoPage => PageFits(page, chain.applied)
-----------------------------------------------------------------------------
(***************************************************************************)
(* Records of the types above, field by field.                             *)
(***************************************************************************)
LEMMA TxFields ==
  ASSUME NEW tx \in Txs
  PROVE  /\ tx.n \in Nat /\ tx.source \in Accounts /\ tx.seq \in Nat /\ tx.op \in Ops
         /\ tx.op.kind \in {"subscribe", "commit", "advance"}
         /\ tx.op.kind = "subscribe" => tx.op.proof \in Proofs /\ tx.op.amount \in Amounts
         /\ tx.op.kind = "commit" => tx.op.leaves \in Trees
<1>1. tx.n \in Nat /\ tx.source \in Accounts /\ tx.seq \in Nat /\ tx.op \in Ops
  BY DEF Txs
<1> QED
  BY <1>1 DEF Ops

(***************************************************************************)
(* A proof that was made is of a package and an amount.                    *)
(***************************************************************************)
LEMMA ProofFields ==
  ASSUME NEW proof \in Proofs
  PROVE  proof.pkg \in Packages /\ proof.amount \in Amounts /\ proof.verified \in BOOLEAN
  BY DEF Proofs

(***************************************************************************)
(* A package names a leaf of its tree, and its own if it has an identity.  *)
(***************************************************************************)
LEMMA PackageFields ==
  ASSUME NEW p \in Packages
  PROVE  /\ p.identity \in Identities /\ p.tree \in Trees /\ p.index \in Indices
         /\ p.epoch \in 1..MaxEpoch /\ p.amount \in Amounts \cup {NoAmount}
         /\ p.identity # Unknown => p.tree[p.index + 1] = p.identity
  BY DEF Packages

(***************************************************************************)
(* The chain's current epoch is the number of its rosters.                 *)
(***************************************************************************)
LEMMA ChainFields ==
  ASSUME ChainTyped
  PROVE  /\ chain.rosters \in Seq(Trees)
         /\ chain.spent \subseteq Identities \X (1..MaxEpoch)
         /\ chain.seq \in [Accounts -> Nat]
         /\ chain.pending \subseteq Txs
         /\ chain.applied \subseteq Txs
         /\ chain.failed \subseteq Txs
         /\ Epoch \in Nat /\ Epoch \in 1..MaxEpoch /\ Epoch = Len(chain.rosters)
         /\ Roster \in Trees
<1>1. /\ chain.rosters \in Seq(Trees)
      /\ chain.spent \subseteq Identities \X (1..MaxEpoch)
      /\ chain.seq \in [Accounts -> Nat]
      /\ chain.pending \subseteq Txs
      /\ chain.applied \subseteq Txs
      /\ chain.failed \subseteq Txs
  BY DEF ChainTyped
<1>2. Epoch \in Nat /\ Epoch \in 1..MaxEpoch /\ Epoch = Len(chain.rosters)
  BY BoundAssumption DEF ChainTyped, Epoch
<1>3. Roster \in Trees
  BY <1>1, <1>2 DEF Roster
<1> QED
  BY <1>1, <1>2, <1>3

(***************************************************************************)
(* A call under way has a transaction.                                     *)
(***************************************************************************)
LEMMA CallFields ==
  ASSUME CallTyped, NEW c \in Callers, call[c] # Idle
  PROVE  /\ call[c].step \in Steps /\ call[c].polls \in Nat
         /\ call[c].signer \in Accounts /\ call[c].tx \in Txs
         /\ call[c] = [step |-> call[c].step, polls |-> call[c].polls,
                       signer |-> call[c].signer, tx |-> call[c].tx]
<1>1. call[c] \in [step : Steps, polls : Nat, signer : Accounts, tx : Txs]
  BY DEF CallTyped, Calls
<1> QED
  BY <1>1

(***************************************************************************)
(* The handlers of the two pages are callers.                              *)
(***************************************************************************)
LEMMA TheCallers == {"subscribe", "commit", "advance"} \subseteq Callers
  BY ActorAssumption

(***************************************************************************)
(* A list of leaves, padded, is a tree.                                    *)
(***************************************************************************)
LEMMA PaddedIsTree ==
  ASSUME NEW roster \in Seq(Known)
  PROVE  Padded(roster) \in Trees
  BY DEF Padded, Trees, LeafSlots

-----------------------------------------------------------------------------
(***************************************************************************)
(* What a step can do to the chain: a transaction lands, one is sent, or   *)
(* the service commits a roster of its own.                                *)
(***************************************************************************)
Lands ==
  \E tx \in chain.pending, fits \in BOOLEAN : Land(tx, fits) /\ UNCHANGED consoleVars

Sends(c) ==
  /\ call[c].step = "send"
  /\ IsAccepted(c)
  /\ chain' = [chain EXCEPT !.pending = @ \cup {call[c].tx}]
  /\ call'[c] = Idle \/ call'[c].step = "poll"

Serves ==
  \E r \in accreditation.requests : AccreditationCommitted(r) /\ ConsoleOvertaken

(***************************************************************************)
(* A call that is rejected while its answer is awaited may have been sent. *)
(***************************************************************************)
LEMMA RejectionSends ==
  ASSUME ChainTyped, CallTyped, NEW c \in Callers, EndByRejection(c)
  PROVE  UNCHANGED chain \/ Sends(c)
<1>1. CASE ~IsAccepted(c)
  BY <1>1 DEF EndByRejection, Accepted, ChainTyped
<1>2. CASE IsAccepted(c)
  <2>1. call'[c] = Idle
    BY DEF EndByRejection, EndCall, CallTyped
  <2> QED
    BY <1>2, <2>1 DEF EndByRejection, Accepted, Sends
<1> QED
  BY <1>1, <1>2

(***************************************************************************)
(* There are three ways for the chain to move: a transaction lands, one is *)
(* sent, the service commits.                                              *)
(***************************************************************************)
LEMMA ChainMoves ==
  ASSUME ChainTyped, CallTyped, [Next]_vars
  PROVE  UNCHANGED chain \/ Lands \/ (\E c \in Callers : Sends(c)) \/ Serves
<1>1. CASE Network
  <2>1. CASE \E tx \in chain.pending, fits \in BOOLEAN : Land(tx, fits)
    BY <1>1, <2>1 DEF Network, Lands
  <2>2. ASSUME NEW c \in Callers, GetAccount(c) \/ Simulate(c) \/ Send(c) \/ PollOn(c)
        PROVE  UNCHANGED chain \/ Sends(c)
    <3>1. CASE GetAccount(c) \/ Simulate(c) \/ PollOn(c)
      BY <3>1 DEF GetAccount, Simulate, PollOn
    <3>2. CASE Send(c)
      <4>1. call' = [call EXCEPT ![c].step = "poll"] /\ call[c].step = "send"
        BY <3>2 DEF Send, Advance
      <4>2. call'[c] = [call[c] EXCEPT !.step = "poll"]
        BY <4>1 DEF CallTyped
      <4>3. call[c] # Idle
        BY <4>1 DEF Idle
      <4>4. call'[c].step = "poll"
        BY <4>2, <4>3, CallFields
      <4> QED
        BY <3>2, <4>1, <4>4 DEF Send, Sends, Accepted
    <3> QED
      BY <2>2, <3>1, <3>2
  <2> QED
    BY <1>1, <2>1, <2>2 DEF Network, NetworkNext
<1>2. CASE Console
  <2>1. CASE CommitThrows \/ AdvanceEnds
    BY <2>1, TheCallers, RejectionSends DEF CommitThrows, AdvanceEnds, EndPolling
  <2> QED
    BY <1>2, <2>1
    DEF Console, ConsoleNext, ParseCsv, OnCommit, IssuerSigns, CommitReturns,
        CommitRefetched, PoolRefetched, OnAdvance, DownloadPackage, Sign, EndPolling,
        callVars
<1>3. CASE Investor
  <2>1. CASE SubmitThrows
    BY <2>1, TheCallers, RejectionSends DEF SubmitThrows, EndPolling
  <2>2. CASE WalletNext
    BY <2>2 DEF WalletNext, PageAsks, Connect, Disconnect, ExtensionAnswers, SetAddress,
       AskingFails, SelectAccount, callVars
  <2>3. CASE ModalNext
    BY <2>1, <2>2, <2>3
    DEF ModalNext, OpenModal, CloseModal, Done, Reset, SelectTab, EnterAmount,
        RequestAccreditation, OnAccredited, AccreditationFails, RunInBrowser,
        Generate, RunFallback, GenerateAgain, ProofArrives, ProofFails, FileArrives, FileFails,
        OnSubmit, SubmitReturns,
        EndPolling, SignXdr, Sign, callVars
  <2> QED
    BY <1>3, <2>3 DEF Investor, PastePackage, ChooseFile, Serves
<1>4. CASE Anyone
  BY <1>4 DEF Anyone, PageNext, OpenPage, EventsArrive, TxProofArrives, RunCheck,
     VerdictArrives, CheckFails, callVars
<1>5. CASE UNCHANGED vars
  BY <1>5 DEF vars, callVars
<1> QED
  BY <1>1, <1>2, <1>3, <1>4, <1>5 DEF Next

(***************************************************************************)
(* What a transaction that lands leaves.                                   *)
(***************************************************************************)
LEMMA LandResult ==
  ASSUME ChainTyped, NEW tx \in chain.pending, NEW fits \in BOOLEAN, Land(tx, fits)
  PROVE  /\ chain' = [rosters |-> chain'.rosters, spent |-> chain'.spent,
                      seq |-> chain'.seq, pending |-> chain'.pending,
                      applied |-> chain'.applied, failed |-> chain'.failed]
         /\ chain'.seq = [chain.seq EXCEPT ![tx.source] = tx.seq]
         /\ chain'.pending = StillPending(tx.source, tx.seq)
         /\ chain'.applied = IF fits THEN chain.applied \cup {tx} ELSE chain.applied
         /\ chain'.failed = IF fits THEN chain.failed ELSE chain.failed \cup {tx}
         /\ chain'.spent = IF fits /\ tx.op.kind = "subscribe"
                           THEN chain.spent \cup {NullifierOf(tx.op.proof)}
                           ELSE chain.spent
         /\ chain'.rosters = IF fits /\ tx.op.kind = "commit"
                             THEN Append(chain.rosters, tx.op.leaves)
                             ELSE IF fits /\ tx.op.kind = "advance"
                             THEN Append(chain.rosters, Roster)
                             ELSE chain.rosters
<1> DEFINE after == IF fits THEN AfterApplying(tx) ELSE chain
<1>1. tx \in Txs /\ tx.op.kind \in {"subscribe", "commit", "advance"}
  BY ChainFields, TxFields
<1>2. chain = [rosters |-> chain.rosters, spent |-> chain.spent,
               seq |-> chain.seq, pending |-> chain.pending,
               applied |-> chain.applied, failed |-> chain.failed]
  BY DEF ChainTyped
<1>3. after = [rosters |-> IF fits /\ tx.op.kind = "commit"
                           THEN Append(chain.rosters, tx.op.leaves)
                           ELSE IF fits /\ tx.op.kind = "advance"
                           THEN Append(chain.rosters, Roster)
                           ELSE chain.rosters,
               spent |-> IF fits /\ tx.op.kind = "subscribe"
                         THEN chain.spent \cup {NullifierOf(tx.op.proof)}
                         ELSE chain.spent,
               seq |-> chain.seq, pending |-> chain.pending,
               applied |-> chain.applied, failed |-> chain.failed]
  <2>1. CASE ~fits
    BY <2>1, <1>2
  <2>2. CASE fits /\ tx.op.kind = "subscribe"
    BY <2>2, <1>2 DEF AfterApplying
  <2>3. CASE fits /\ tx.op.kind = "commit"
    BY <2>3, <1>2 DEF AfterApplying
  <2>4. CASE fits /\ tx.op.kind = "advance"
    BY <2>4, <1>2 DEF AfterApplying
  <2> QED
    BY <1>1, <2>1, <2>2, <2>3, <2>4
<1>4. chain' = [after EXCEPT
                  !.seq[tx.source] = tx.seq,
                  !.pending = StillPending(tx.source, tx.seq),
                  !.applied = IF fits THEN @ \cup {tx} ELSE @,
                  !.failed  = IF fits THEN @ ELSE @ \cup {tx}]
  BY DEF Land
<1> HIDE DEF after
<1> QED
  BY <1>3, <1>4

(***************************************************************************)
(* What the service's commit leaves.                                       *)
(***************************************************************************)
LEMMA ServeResult ==
  ASSUME ChainTyped, NEW roster, ServiceCommits(roster)
  PROVE  /\ chain' = [rosters |-> chain'.rosters, spent |-> chain'.spent,
                      seq |-> chain'.seq, pending |-> chain'.pending,
                      applied |-> chain'.applied, failed |-> chain'.failed]
         /\ chain'.seq = [chain.seq EXCEPT ![Issuer] = @ + 1]
         /\ chain'.pending = StillPending(Issuer, chain.seq[Issuer] + 1)
         /\ chain'.rosters = Append(chain.rosters, Padded(roster))
         /\ chain'.applied = chain.applied /\ chain'.failed = chain.failed
         /\ chain'.spent = chain.spent
<1>1. chain = [rosters |-> chain.rosters, spent |-> chain.spent,
               seq |-> chain.seq, pending |-> chain.pending,
               applied |-> chain.applied, failed |-> chain.failed]
  BY DEF ChainTyped
<1> QED
  BY <1>1 DEF ServiceCommits

(***************************************************************************)
(* What is sent is pending, and nothing else is changed.                   *)
(***************************************************************************)
LEMMA SendResult ==
  ASSUME ChainTyped, NEW c \in Callers, Sends(c)
  PROVE  /\ chain' = [rosters |-> chain.rosters, spent |-> chain.spent,
                      seq |-> chain.seq, pending |-> chain.pending \cup {call[c].tx},
                      applied |-> chain.applied, failed |-> chain.failed]
<1>1. chain = [rosters |-> chain.rosters, spent |-> chain.spent,
               seq |-> chain.seq, pending |-> chain.pending,
               applied |-> chain.applied, failed |-> chain.failed]
  BY DEF ChainTyped
<1> QED
  BY <1>1 DEF Sends

-----------------------------------------------------------------------------
(***************************************************************************)
(* The types hold at the start.                                            *)
(***************************************************************************)
LEMMA TypedInit == Init => Typed
<1> SUFFICES ASSUME Init PROVE Typed
  OBVIOUS
<1>1. ChainTyped
  <2>1. Padded(Seeded) \in Trees
    BY PaddedIsTree, DataAssumption
  <2>2. /\ chain.rosters = <<Padded(Seeded)>> /\ chain.pending = {}
        /\ chain = [rosters |-> <<Padded(Seeded)>>, spent |-> {},
                    seq |-> [a \in Accounts |-> 0], pending |-> {}, applied |-> {},
                    failed |-> {}]
    BY DEF Init, CallsInit
  <2>3. chain.rosters \in Seq(Trees) /\ Len(chain.rosters) = 1
    BY <2>1, <2>2
  <2>4. Epoch \in 1..MaxEpoch
    BY <2>3, BoundAssumption DEF Epoch
  <2>5. chain \in [rosters : Seq(Trees), spent : SUBSET (Identities \X (1..MaxEpoch)),
                   seq : [Accounts -> Nat], pending : SUBSET Txs,
                   applied : SUBSET Txs, failed : SUBSET Txs]
    <3> DEFINE no == [a \in Accounts |-> 0]
    <3>1. no \in [Accounts -> Nat]
      OBVIOUS
    <3> HIDE DEF no
    <3> QED
      BY <2>1, <2>2, <3>1 DEF no
  <2> QED
    BY <2>2, <2>4, <2>5 DEF ChainTyped
<1>2. CallTyped
  BY BoundAssumption DEF Init, CallsInit, CallTyped, Calls
<1>3. ConsoleTyped
  <2>1. << >> \in Rows /\ 0 \in Nat
    BY DEF Rows, Slots
  <2>2. Epoch \in Nat
    BY <1>1, ChainFields
  <2> QED
    BY <2>1, <2>2 DEF Init, ConsoleInit, ConsoleTyped, NoEpoch
<1>4. ModalTyped
  BY DataAssumption DEF Init, ModalInit, ModalTyped, Fresh
<1>5. WalletTyped
  BY ActorAssumption DEF Init, WalletInit, WalletTyped
<1> QED
  BY <1>1, <1>2, <1>3, <1>4, <1>5 DEF Typed

(***************************************************************************)
(* Rosters are trees; a transaction that is pending has its account's next *)
(* number; a nullifier that is spent was of the epoch it was spent in.     *)
(***************************************************************************)
LEMMA LandKeepsChainTyped ==
  ASSUME ChainTyped, NEW tx \in chain.pending, NEW fits \in BOOLEAN, Land(tx, fits)
  PROVE  ChainTyped'
<1>a. tx \in Txs /\ tx.source \in Accounts /\ tx.seq \in Nat
  BY ChainFields, TxFields
<1>1. chain'.seq \in [Accounts -> Nat]
  <2>1. chain'.seq = [chain.seq EXCEPT ![tx.source] = tx.seq]
    BY LandResult
  <2> QED
    BY <1>a, <2>1, ChainFields
<1>2. /\ chain'.pending \subseteq Txs
      /\ \A other \in chain'.pending : other.seq = chain'.seq[other.source] + 1
  <2>1. chain'.pending \subseteq Txs
    BY LandResult, ChainFields DEF StillPending
  <2>2. ASSUME NEW other \in chain'.pending
        PROVE  other.seq = chain'.seq[other.source] + 1
    <3>1. /\ other \in chain.pending
          /\ other.source # tx.source \/ other.seq > tx.seq
      BY <2>2, LandResult DEF StillPending
    <3>2. /\ other.seq = chain.seq[other.source] + 1 /\ tx.seq = chain.seq[tx.source] + 1
          /\ other.source \in Accounts /\ other.seq \in Nat
      BY <3>1, ChainFields, TxFields DEF ChainTyped
    <3>3. other.source # tx.source
      BY <1>a, <3>1, <3>2
    <3>4. chain'.seq[other.source] = chain.seq[other.source]
      BY <3>2, <3>3, LandResult, ChainFields
    <3> QED
      BY <3>2, <3>4
  <2> QED
    BY <2>1, <2>2
<1>3. chain'.applied \subseteq Txs /\ chain'.failed \subseteq Txs
  <2>1. /\ chain'.applied = IF fits THEN chain.applied \cup {tx} ELSE chain.applied
        /\ chain'.failed = IF fits THEN chain.failed ELSE chain.failed \cup {tx}
    BY LandResult
  <2>2. chain.applied \subseteq Txs /\ chain.failed \subseteq Txs
    BY ChainFields
  <2> QED
    BY <1>a, <2>1, <2>2
<1>4. chain'.spent \subseteq Identities \X (1..MaxEpoch)
  <2>1. CASE fits /\ tx.op.kind = "subscribe"
    <3>1. tx.op.proof \in Proofs /\ tx.op.proof.pkg \in Packages
      BY <1>a, <2>1, TxFields, ProofFields
    <3>2. NullifierOf(tx.op.proof) \in Identities \X (1..MaxEpoch)
      BY <3>1, PackageFields DEF NullifierOf
    <3>3. chain'.spent = chain.spent \cup {NullifierOf(tx.op.proof)}
      BY <2>1, LandResult
    <3>4. chain.spent \subseteq Identities \X (1..MaxEpoch)
      BY ChainFields
    <3> HIDE DEF NullifierOf
    <3> QED
      BY <3>2, <3>3, <3>4
  <2>2. CASE ~(fits /\ tx.op.kind = "subscribe")
    BY <2>2, LandResult, ChainFields
  <2> QED
    BY <2>1, <2>2
<1>5. chain'.rosters \in Seq(Trees) /\ Epoch' \in 1..MaxEpoch
  <2> DEFINE grown == fits /\ tx.op.kind # "subscribe"
  <2>1. CASE ~grown
    <3>1. chain'.rosters = chain.rosters
      BY <2>1, LandResult
    <3> QED
      BY <3>1, ChainFields DEF Epoch
  <2>2. CASE grown
    <3>1. PICK tree \in Trees : chain'.rosters = Append(chain.rosters, tree)
      BY <1>a, <2>2, LandResult, ChainFields, TxFields
    <3>2. Epoch < MaxEpoch
      BY <2>2 DEF Land
    <3>3. chain'.rosters \in Seq(Trees) /\ Len(chain'.rosters) = Len(chain.rosters) + 1
      BY <3>1, ChainFields
    <3> QED
      BY <3>2, <3>3, ChainFields, BoundAssumption DEF Epoch
  <2> QED
    BY <2>1, <2>2
<1>6. chain' = [rosters |-> chain'.rosters, spent |-> chain'.spent,
                seq |-> chain'.seq, pending |-> chain'.pending,
                applied |-> chain'.applied, failed |-> chain'.failed]
  BY LandResult
<1> QED
  BY <1>1, <1>2, <1>3, <1>4, <1>5, <1>6 DEF ChainTyped

(***************************************************************************)
(* The service's commit outdates the issuer's pending transactions.        *)
(***************************************************************************)
LEMMA ServeKeepsChainTyped ==
  ASSUME Typed, Serves
  PROVE  ChainTyped'
<1>a. ChainTyped
  BY DEF Typed
<1> DEFINE filed == accreditation.filed
<1>1. PICK r \in accreditation.requests : AccreditationCommitted(r)
  BY DEF Serves
<1>2. filed \in Seq(Known) /\ r.identity \in Known
  BY <1>1 DEF Typed, ModalTyped, Requests
<1> DEFINE roster == Append(filed, r.identity)
<1>3. ServiceCommits(roster) /\ Epoch < MaxEpoch
  BY <1>1 DEF AccreditationCommitted, ServiceCommits
<1>4. roster \in Seq(Known)
  BY <1>2
<1>5. Padded(roster) \in Trees
  BY <1>4, PaddedIsTree
<1> HIDE DEF roster
<1>6. /\ chain' = [rosters |-> chain'.rosters, spent |-> chain'.spent,
                   seq |-> chain'.seq, pending |-> chain'.pending,
                   applied |-> chain'.applied, failed |-> chain'.failed]
      /\ chain'.seq = [chain.seq EXCEPT ![Issuer] = @ + 1]
      /\ chain'.pending = StillPending(Issuer, chain.seq[Issuer] + 1)
      /\ chain'.rosters = Append(chain.rosters, Padded(roster))
      /\ chain'.applied = chain.applied /\ chain'.failed = chain.failed
      /\ chain'.spent = chain.spent
  BY <1>a, <1>3, ServeResult
<1>7. chain'.rosters \in Seq(Trees) /\ Epoch' \in 1..MaxEpoch
  <2>1. chain'.rosters \in Seq(Trees) /\ Len(chain'.rosters) = Len(chain.rosters) + 1
    BY <1>a, <1>5, <1>6, ChainFields
  <2> QED
    BY <1>a, <1>3, <2>1, ChainFields, BoundAssumption DEF Epoch
<1>8. chain'.seq \in [Accounts -> Nat]
  BY <1>a, <1>6, ChainFields, ActorAssumption
<1>9. /\ chain'.pending \subseteq Txs
      /\ \A other \in chain'.pending : other.seq = chain'.seq[other.source] + 1
  <2>1. chain'.pending \subseteq Txs
    BY <1>a, <1>6, ChainFields DEF StillPending
  <2>2. ASSUME NEW other \in chain'.pending
        PROVE  other.seq = chain'.seq[other.source] + 1
    <3>1. /\ other \in chain.pending
          /\ other.source # Issuer \/ other.seq > chain.seq[Issuer] + 1
      BY <1>6 DEF StillPending
    <3>2. /\ other.seq = chain.seq[other.source] + 1
          /\ other.source \in Accounts /\ other.seq \in Nat
      BY <1>a, <3>1, ChainFields, TxFields DEF ChainTyped
    <3>3. other.source # Issuer
      BY <3>1, <3>2
    <3>4. chain'.seq[other.source] = chain.seq[other.source]
      BY <1>a, <1>6, <3>2, <3>3, ChainFields
    <3> QED
      BY <3>2, <3>4
  <2> QED
    BY <2>1, <2>2
<1> QED
  BY <1>a, <1>6, <1>7, <1>8, <1>9, ChainFields DEF ChainTyped

(***************************************************************************)
(* Every step keeps the chain's types.                                     *)
(***************************************************************************)
LEMMA ChainTypedNext ==
  ASSUME Typed, [Next]_vars
  PROVE  ChainTyped'
<1>a. ChainTyped /\ CallTyped
  BY DEF Typed
<1>1. CASE UNCHANGED chain
  BY <1>a, <1>1 DEF ChainTyped, Epoch
<1>2. CASE Lands
  BY <1>a, <1>2, LandKeepsChainTyped DEF Lands
<1>3. CASE Serves
  BY <1>3, ServeKeepsChainTyped
<1>4. ASSUME NEW c \in Callers, Sends(c)
      PROVE  ChainTyped'
  <2>1. call[c] # Idle
    BY <1>4 DEF Sends, Idle
  <2>2. call[c].tx \in Txs
    BY <1>a, <2>1, CallFields
  <2>3. /\ chain' = [rosters |-> chain.rosters, spent |-> chain.spent,
                     seq |-> chain.seq, pending |-> chain.pending \cup {call[c].tx},
                     applied |-> chain.applied, failed |-> chain.failed]
    BY <1>a, <1>4, SendResult
  <2>4. call[c].tx.seq = chain.seq[call[c].tx.source] + 1
    BY <1>4 DEF Sends, IsAccepted
  <2>5. \A tx \in chain'.pending : tx.seq = chain'.seq[tx.source] + 1
    BY <1>a, <2>3, <2>4 DEF ChainTyped
  <2>6. Epoch' \in 1..MaxEpoch
    BY <1>a, <2>3, ChainFields DEF Epoch
  <2> QED
    BY <1>a, <2>2, <2>3, <2>5, <2>6, ChainFields DEF ChainTyped
<1> QED
  BY <1>a, <1>1, <1>2, <1>3, <1>4, ChainMoves

(***************************************************************************)
(* Epochs only go forward, and each keeps its roster.                      *)
(***************************************************************************)
LEMMA RostersStay ==
  ASSUME Typed, [Next]_vars
  PROVE  /\ Epoch <= Epoch' /\ Epoch' \in Nat
         /\ \A e \in 1..Epoch : chain'.rosters[e] = chain.rosters[e]
<1>a. ChainTyped /\ CallTyped
  BY DEF Typed
<1>0. ChainTyped' /\ Epoch' \in 1..MaxEpoch /\ MaxEpoch \in Nat
  BY ChainTypedNext, BoundAssumption DEF ChainTyped
<1>1. chain'.rosters = chain.rosters \/ \E tree : chain'.rosters = Append(chain.rosters, tree)
  <2>1. CASE UNCHANGED chain
    BY <2>1
  <2>2. CASE Lands
    BY <1>a, <2>2, LandResult DEF Lands
  <2>3. CASE Serves
    <3>1. PICK roster : ServiceCommits(roster)
      BY <2>3 DEF Serves, AccreditationCommitted
    <3> QED
      BY <1>a, <3>1, ServeResult
  <2>4. ASSUME NEW c \in Callers, Sends(c)
        PROVE  chain'.rosters = chain.rosters
    BY <1>a, <2>4, SendResult
  <2> QED
    BY <1>a, <2>1, <2>2, <2>3, <2>4, ChainMoves
<1>2. CASE chain'.rosters = chain.rosters
  BY <1>a, <1>0, <1>2, ChainFields DEF Epoch
<1>3. ASSUME NEW tree, chain'.rosters = Append(chain.rosters, tree)
      PROVE  /\ Epoch <= Epoch' /\ Epoch' \in Nat
             /\ \A e \in 1..Epoch : chain'.rosters[e] = chain.rosters[e]
  BY <1>a, <1>0, <1>3, ChainFields DEF Epoch
<1> QED
  BY <1>1, <1>2, <1>3

-----------------------------------------------------------------------------
(***************************************************************************)
(* What a step can do to the calls and to the budget.                      *)
(***************************************************************************)
Ends(c) == c \in Callers /\ call' = [call EXCEPT ![c] = Idle]

Asks(c) == GetAccount(c) \/ Simulate(c) \/ Send(c) \/ PollOn(c)

(***************************************************************************)
(* What a step does to the calls: one ends, asks the network or the        *)
(* wallet, or starts.                                                      *)
(***************************************************************************)
LEMMA CallMoves ==
  ASSUME [Next]_vars
  PROVE  \/ UNCHANGED call
         \/ \E c \in Callers : Ends(c)
         \/ \E c \in Callers : Asks(c)
         \/ \E c \in {"commit", "advance"} : Sign(c, Issuer)
         \/ SignXdr("subscribe")
         \/ OnSubmit
         \/ OnCommit
         \/ OnAdvance
<1>1. CASE Network
  BY <1>1 DEF Network, NetworkNext, Land, Asks
<1>2. CASE Console
  BY <1>2, TheCallers
  DEF Console, ConsoleNext, ParseCsv, IssuerSigns, CommitReturns, CommitThrows,
      CommitRefetched, PoolRefetched, AdvanceEnds, DownloadPackage, EndPolling,
      EndByRejection, EndCall, Ends, callVars
<1>3. CASE Investor
  <2>1. CASE SubmitThrows
    BY <2>1, TheCallers DEF SubmitThrows, EndPolling, EndByRejection, EndCall, Ends
  <2>2. CASE WalletNext
    BY <2>2 DEF WalletNext, PageAsks, Connect, Disconnect, ExtensionAnswers, SetAddress,
       AskingFails, SelectAccount, callVars
  <2>3. CASE ModalNext
    BY <2>1, <2>2, <2>3, TheCallers
    DEF ModalNext, OpenModal, CloseModal, Done, Reset, SelectTab, EnterAmount,
        RequestAccreditation, OnAccredited, AccreditationFails, RunInBrowser,
        Generate, RunFallback, GenerateAgain, ProofArrives, ProofFails, FileArrives, FileFails,
        SubmitReturns,
        EndPolling, EndCall, Ends, callVars
  <2> QED
    BY <1>3, <2>3 DEF Investor, PastePackage, ChooseFile, AccreditationCommitted
<1>4. CASE Anyone
  BY <1>4 DEF Anyone, PageNext, OpenPage, EventsArrive, TxProofArrives, RunCheck,
     VerdictArrives, CheckFails, callVars
<1>5. CASE UNCHANGED vars
  BY <1>5 DEF vars, callVars
<1> QED
  BY <1>1, <1>2, <1>3, <1>4, <1>5 DEF Next

(***************************************************************************)
(* The budget is only ever spent.                                          *)
(***************************************************************************)
LEMMA BudgetMoves ==
  ASSUME [Next]_vars
  PROVE  UNCHANGED budget \/ \E what \in Tasks : Spend(what)
<1>1. CASE Network
  BY <1>1 DEF Network, NetworkNext, Land, GetAccount, Simulate, Send, PollOn
<1>2. CASE Console
  BY <1>2
  DEF Console, ConsoleNext, ParseCsv, OnCommit, OnAdvance, Start, IssuerSigns, Sign,
      CommitReturns, CommitThrows, CommitRefetched, PoolRefetched, AdvanceEnds,
      DownloadPackage, EndPolling, EndByRejection, EndCall, Tasks, callVars
<1>3. CASE Investor
  <2>1. CASE SubmitThrows
    BY <2>1 DEF SubmitThrows, EndPolling, EndByRejection, EndCall
  <2>2. CASE WalletNext
    BY <2>2 DEF WalletNext, PageAsks, Connect, Disconnect, ExtensionAnswers, SetAddress,
       AskingFails, SelectAccount, Tasks, callVars
  <2>3. CASE ModalNext
    BY <2>1, <2>2, <2>3
    DEF ModalNext, OpenModal, CloseModal, Done, Reset, SelectTab, EnterAmount,
        RequestAccreditation, OnAccredited, AccreditationFails, RunInBrowser,
        Generate, RunFallback, GenerateAgain, ProofArrives, ProofFails, FileArrives, FileFails,
        OnSubmit, Start,
        SubmitReturns, EndPolling, EndCall, SignXdr, Sign, Tasks, callVars
  <2> QED
    BY <1>3, <2>3 DEF Investor, PastePackage, ChooseFile, AccreditationCommitted, Tasks
<1>4. CASE Anyone
  BY <1>4 DEF Anyone, PageNext, OpenPage, EventsArrive, TxProofArrives, RunCheck,
     VerdictArrives, CheckFails, Tasks, callVars
<1>5. CASE UNCHANGED vars
  BY <1>5 DEF vars, callVars
<1> QED
  BY <1>1, <1>2, <1>3, <1>4, <1>5 DEF Next

(***************************************************************************)
(* A call that starts, moves on or ends is still one.                      *)
(***************************************************************************)
LEMMA StartTyped ==
  ASSUME CallTyped, NEW c \in Callers, c \in Tasks, NEW source \in Accounts,
         NEW op \in Ops, Start(c, source, op)
  PROVE  call' \in [Callers -> Calls]
<1> DEFINE tx  == [n |-> budget[c], source |-> source, seq |-> 0, op |-> op]
           new == [step |-> "account", polls |-> 0, signer |-> source, tx |-> tx]
<1>1. tx \in Txs
  BY DEF Txs, CallTyped
<1>2. new \in Calls
  BY <1>1 DEF Calls, Steps
<1>3. call' = [call EXCEPT ![c] = new]
  BY DEF Start
<1> HIDE DEF new
<1> QED
  BY <1>2, <1>3 DEF CallTyped

(***************************************************************************)
(* A call that moves on keeps its type.                                    *)
(***************************************************************************)
LEMMA AskTyped ==
  ASSUME ChainTyped, CallTyped, NEW c \in Callers,
         Asks(c) \/ \E signer \in Accounts : Sign(c, signer)
  PROVE  call' \in [Callers -> Calls]
<1>1. call[c] # Idle
  BY DEF Asks, GetAccount, Simulate, Send, PollOn, Advance, Sign, Idle
<1> DEFINE old == call[c]
<1>2. /\ old \in [step : Steps, polls : Nat, signer : Accounts, tx : Txs]
      /\ old.tx \in Txs /\ old.tx.source \in Accounts
  BY <1>1, CallFields, TxFields DEF CallTyped, Calls
<1>3. call \in [Callers -> Calls]
  BY DEF CallTyped
<1>4. ASSUME NEW new \in Calls, call' = [call EXCEPT ![c] = new]
      PROVE  call' \in [Callers -> Calls]
  BY <1>3, <1>4
<1>5. CASE GetAccount(c)
  <2> DEFINE seq == chain.seq[old.tx.source] + 1
             tx  == [old.tx EXCEPT !.seq = seq]
             new == [old EXCEPT !.step = "simulate", !.tx = tx]
  <2>1. seq \in Nat
    BY <1>2, ChainFields
  <2>2. tx \in Txs
    <3> HIDE DEF seq, old
    <3> QED
      BY <1>2, <2>1 DEF Txs
  <2>3. new \in Calls
    <3> HIDE DEF tx, old
    <3> QED
      BY <1>2, <2>2 DEF Calls, Steps
  <2>4. call' = [call EXCEPT ![c] = new]
    BY <1>5, <1>2, <1>3 DEF GetAccount
  <2> HIDE DEF new
  <2> QED
    BY <1>4, <2>3, <2>4
<1>6. CASE Simulate(c) \/ Send(c)
  <2>1. PICK step \in Steps : call' = [call EXCEPT ![c] = [old EXCEPT !.step = step]]
    BY <1>6, <1>3 DEF Simulate, Send, Advance, Steps
  <2>2. [old EXCEPT !.step = step] \in Calls
    <3> HIDE DEF old
    <3> QED
      BY <1>2 DEF Calls
  <2> QED
    BY <1>4, <2>1, <2>2
<1>7. CASE PollOn(c)
  <2>1. call' = [call EXCEPT ![c] = [old EXCEPT !.polls = @ + 1]]
    BY <1>7, <1>3 DEF PollOn
  <2>2. [old EXCEPT !.polls = @ + 1] \in Calls
    <3> HIDE DEF old
    <3> QED
      BY <1>2 DEF Calls
  <2> QED
    BY <1>4, <2>1, <2>2
<1>8. ASSUME NEW signer \in Accounts, Sign(c, signer)
      PROVE  call' \in [Callers -> Calls]
  <2>1. call' = [call EXCEPT ![c] = [old EXCEPT !.step = "send", !.signer = signer]]
    BY <1>8, <1>3 DEF Sign
  <2>2. [old EXCEPT !.step = "send", !.signer = signer] \in Calls
    <3> HIDE DEF old
    <3> QED
      BY <1>2 DEF Calls, Steps
  <2> QED
    BY <1>4, <2>1, <2>2
<1> QED
  BY <1>5, <1>6, <1>7, <1>8 DEF Asks

(***************************************************************************)
(* What the handlers send.                                                 *)
(***************************************************************************)
LEMMA TreeIsTree == ConsoleTyped => Tree \in Trees
<1> SUFFICES ASSUME ConsoleTyped PROVE Tree \in Trees
  OBVIOUS
<1>1. console.rows \in Rows
  BY DEF ConsoleTyped
<1>2. LeavesOf(console.rows) \in Seq(Known)
  <2> DEFINE rows == console.rows
             n    == Len(rows)
  <2>1. rows \in Seq(RowType)
    BY <1>1 DEF Rows
  <2> HIDE DEF rows
  <2>2. n \in Nat /\ DOMAIN rows = 1..n /\ \A i \in 1..n : rows[i] \in RowType
    BY <2>1
  <2> HIDE DEF n
  <2>3. LeavesOf(rows) = [i \in 1..n |-> rows[i].leaf]
    BY <2>2 DEF LeavesOf
  <2>4. [i \in 1..n |-> rows[i].leaf] \in Seq(Known)
    BY <2>2 DEF RowType
  <2> QED
    BY <2>3, <2>4 DEF rows
<1> QED
  BY <1>2, PaddedIsTree DEF Tree

(***************************************************************************)
(* Every step keeps the types of the calls.                                *)
(***************************************************************************)
LEMMA CallTypedNext ==
  ASSUME Typed, [Next]_vars
  PROVE  CallTyped'
<1>a. ChainTyped /\ CallTyped /\ ConsoleTyped /\ ModalTyped /\ WalletTyped
  BY DEF Typed
<1>1. budget' \in [Tasks -> Nat] /\ budget'["accredit"] <= Len(Generated)
  <2>1. CASE UNCHANGED budget
    BY <1>a, <2>1 DEF CallTyped
  <2>2. ASSUME NEW what \in Tasks, Spend(what)
        PROVE  budget' \in [Tasks -> Nat] /\ budget'["accredit"] <= Len(Generated)
    <3>1. /\ budget \in [Tasks -> Nat] /\ budget[what] > 0
          /\ budget' = [budget EXCEPT ![what] = @ - 1]
          /\ budget["accredit"] <= Len(Generated) /\ "accredit" \in Tasks
      BY <1>a, <2>2 DEF CallTyped, Spend, Tasks
    <3>2. Len(Generated) \in Nat
      BY DataAssumption
    <3> QED
      BY <3>1, <3>2
  <2> QED
    BY <2>1, <2>2, BudgetMoves
<1>2. call' \in [Callers -> Calls]
  <2>0. call \in [Callers -> Calls] /\ Idle \in Calls
    BY <1>a DEF CallTyped, Calls
  <2>1. CASE UNCHANGED call
    BY <2>0, <2>1
  <2>2. ASSUME NEW c \in Callers, Ends(c)
        PROVE  call' \in [Callers -> Calls]
    BY <2>0, <2>2 DEF Ends
  <2>3. ASSUME NEW c \in Callers, Asks(c)
        PROVE  call' \in [Callers -> Calls]
    BY <1>a, <2>3, AskTyped
  <2>4. ASSUME NEW c \in {"commit", "advance"}, Sign(c, Issuer)
        PROVE  call' \in [Callers -> Calls]
    BY <1>a, <2>4, AskTyped, TheCallers, ActorAssumption
  <2>5. CASE SignXdr("subscribe")
    <3>1. wallet.address \in Accounts /\ Sign("subscribe", wallet.address)
      BY <1>a, <2>5, ActorAssumption DEF SignXdr, WalletTyped
    <3> QED
      BY <1>a, <3>1, AskTyped, TheCallers
  <2>6. CASE OnSubmit
    <3> DEFINE op == [kind |-> "subscribe", proof |-> modal.handle, amount |-> modal.amount]
    <3>1. /\ wallet.address \in Accounts /\ modal.handle \in Proofs /\ modal.amount \in Amounts
          /\ Start("subscribe", wallet.address, op)
      BY <1>a, <2>6, ActorAssumption DEF OnSubmit, CanSubmit, WalletTyped, ModalTyped
    <3>2. op \in Ops
      BY <3>1 DEF Ops
    <3> HIDE DEF op
    <3> QED
      BY <1>a, <3>1, <3>2, StartTyped, TheCallers DEF Tasks
  <2>7. CASE OnCommit
    <3> DEFINE op == [kind |-> "commit", leaves |-> Tree]
    <3>1. Start("commit", Issuer, op)
      BY <2>7 DEF OnCommit
    <3>2. op \in Ops
      BY <1>a, TreeIsTree DEF Ops
    <3> HIDE DEF op
    <3> QED
      BY <1>a, <3>1, <3>2, StartTyped, TheCallers, ActorAssumption DEF Tasks
  <2>8. CASE OnAdvance
    <3> DEFINE op == [kind |-> "advance"]
    <3>1. Start("advance", Issuer, op)
      BY <2>8 DEF OnAdvance
    <3>2. op \in Ops
      BY DEF Ops
    <3> HIDE DEF op
    <3> QED
      BY <1>a, <3>1, <3>2, StartTyped, TheCallers, ActorAssumption DEF Tasks
  <2> QED
    BY <2>1, <2>2, <2>3, <2>4, <2>5, <2>6, <2>7, <2>8, CallMoves
<1> QED
  BY <1>1, <1>2 DEF CallTyped

-----------------------------------------------------------------------------
(***************************************************************************)
(* The issuer's page.                                                      *)
(***************************************************************************)
LEMMA PackageOfRow ==
  ASSUME Typed, NEW i \in DOMAIN console.rows
  PROVE  PackageOf(console.rows[i], i - 1) \in Packages
<1> DEFINE row == console.rows[i]
           rows == console.rows
           p == PackageOf(row, i - 1)
<1>0. rows \in Seq(RowType) /\ Len(rows) <= 8
  BY DEF Typed, ConsoleTyped, Rows, Slots
<1>1. /\ row \in RowType
      /\ i \in 1..Len(rows) /\ i \in 1..Slots /\ i \in Nat
  <2> HIDE DEF rows
  <2>1. i \in 1..Len(rows) /\ Len(rows) \in Nat
    BY <1>0 DEF rows
  <2>2. rows[i] \in RowType
    BY <1>0, <2>1
  <2> QED
    BY <1>0, <2>1, <2>2 DEF rows, Slots
<1>2. Tree \in Trees
  BY TreeIsTree DEF Typed
<1>3. PackageEpoch \in 1..MaxEpoch
  <2>1. /\ console.committedEpoch \in Nat /\ console.committedEpoch <= Epoch
        /\ console.poolEpoch \in Nat /\ console.poolEpoch <= Epoch
        /\ Epoch \in 1..MaxEpoch /\ MaxEpoch \in Nat \ {0}
    BY ChainFields, BoundAssumption DEF Typed, ConsoleTyped
  <2> QED
    BY <2>1 DEF PackageEpoch, NoEpoch
<1>4. Tree[i] = row.leaf
  BY <1>1 DEF Tree, Padded, LeavesOf
<1>5. /\ row.leaf \in Known /\ row.known \in BOOLEAN
      /\ i - 1 \in Indices /\ (i - 1) + 1 = i
  BY <1>1 DEF Indices, Slots, RowType
<1>6. /\ p = [identity |-> p.identity, tree |-> Tree, index |-> i - 1,
              epoch |-> PackageEpoch, amount |-> NoAmount]
      /\ p.identity = IF row.known THEN row.leaf ELSE Unknown
  BY DEF PackageOf
<1>7. p.identity \in Identities /\ (p.identity # Unknown => p.identity = Tree[i])
  BY <1>4, <1>5, <1>6, DataAssumption DEF Known
<1> HIDE DEF p, row, rows
<1>8. p \in [identity : Identities, tree : Trees, index : Indices,
             epoch : 1..MaxEpoch, amount : Amounts \cup {NoAmount}]
  BY <1>2, <1>3, <1>5, <1>6, <1>7
<1>9. p.identity # Unknown => p.tree[p.index + 1] = p.identity
  BY <1>5, <1>6, <1>7
<1>10. p \in Packages
  BY <1>8, <1>9 DEF Packages
<1> QED
  BY <1>10 DEF p, row

(***************************************************************************)
(* What a step does to the issuer's page.                                  *)
(***************************************************************************)
LEMMA ConsoleMoves ==
  ASSUME [Next]_vars
  PROVE  \/ UNCHANGED consoleVars
         \/ \E rows \in Csvs : ParseCsv(rows)
         \/ OnCommit
         \/ CommitReturns
         \/ \E fresh \in BOOLEAN : CommitRefetched(fresh)
         \/ PoolRefetched
         \/ \E i \in DOMAIN console.rows : DownloadPackage(i)
         \/ ConsoleOvertaken /\ UNCHANGED files
<1>1. CASE Network
  BY <1>1 DEF Network
<1>2. CASE Console
  BY <1>2 DEF Console, ConsoleNext, IssuerSigns, CommitThrows, OnAdvance, AdvanceEnds,
     consoleVars
<1>3. CASE Investor
  BY <1>3 DEF Investor
<1>4. CASE Anyone
  BY <1>4 DEF Anyone
<1>5. CASE UNCHANGED vars
  BY <1>5 DEF vars
<1> QED
  BY <1>1, <1>2, <1>3, <1>4, <1>5 DEF Next

(***************************************************************************)
(* Every step keeps the types of the issuer's page: the epochs that it     *)
(* shows have been reached.                                                *)
(***************************************************************************)
LEMMA ConsoleTypedNext ==
  ASSUME Typed, [Next]_vars
  PROVE  ConsoleTyped'
<1>a. ChainTyped /\ ConsoleTyped /\ Epoch \in Nat
  BY ChainFields DEF Typed
<1>b. Epoch <= Epoch' /\ Epoch' \in Nat
  BY RostersStay
<1>1. /\ console = [rows |-> console.rows, committedEpoch |-> console.committedEpoch,
                     poolEpoch |-> console.poolEpoch, refetching |-> console.refetching,
                     raced |-> console.raced, excused |-> console.excused]
      /\ console.rows \in Rows
      /\ console.committedEpoch \in Nat /\ console.committedEpoch <= Epoch
      /\ console.poolEpoch \in Nat /\ console.poolEpoch <= Epoch
      /\ console.refetching \in BOOLEAN /\ console.raced \in BOOLEAN
      /\ console.excused \in BOOLEAN
      /\ files \subseteq Packages
  BY <1>a DEF ConsoleTyped
<1>2. ASSUME NEW rows \in Rows, NEW committed \in Nat, NEW pool \in Nat,
             NEW refetching \in BOOLEAN, NEW raced \in BOOLEAN, NEW excused \in BOOLEAN,
             committed <= Epoch, pool <= Epoch, files' \subseteq Packages,
             console' = [rows |-> rows, committedEpoch |-> committed, poolEpoch |-> pool,
                         refetching |-> refetching, raced |-> raced, excused |-> excused]
      PROVE  ConsoleTyped'
  BY <1>2, <1>a, <1>b DEF ConsoleTyped
<1>3. CASE UNCHANGED consoleVars
  <2>1. UNCHANGED <<console, files>>
    BY <1>3 DEF consoleVars
  <2> QED
    BY <2>1, <1>a, <1>b DEF ConsoleTyped
<1> DEFINE raced == console.raced \/ Committing
<1>c. raced \in BOOLEAN
  OBVIOUS
<1>4. ASSUME NEW rows \in Csvs, ParseCsv(rows)
      PROVE  ConsoleTyped'
  <2>1. /\ console' = [console EXCEPT !.rows = rows, !.committedEpoch = 0,
                                     !.raced = raced, !.excused = FALSE]
        /\ UNCHANGED files /\ rows \in Rows
    BY <1>4, DataAssumption DEF ParseCsv, AfterCsv, NoEpoch
  <2> HIDE DEF raced
  <2>2. console' = [rows |-> rows, committedEpoch |-> 0, poolEpoch |-> console.poolEpoch,
                    refetching |-> console.refetching, raced |-> raced, excused |-> FALSE]
    BY <1>1, <2>1
  <2>3. 0 \in Nat /\ 0 <= Epoch /\ FALSE \in BOOLEAN /\ files' \subseteq Packages
    BY <1>a, <1>1, <2>1
  <2> QED
    BY ZenonT(60), <1>1, <1>2, <1>c, <2>1, <2>2, <2>3
<1>8. CASE OnCommit \/ CommitReturns \/ PoolRefetched \/ (ConsoleOvertaken /\ UNCHANGED files)
  <2>1. UNCHANGED files /\
        \/ console' = [console EXCEPT !.raced = FALSE]
        \/ console' = [console EXCEPT !.refetching = TRUE]
        \/ console' = [console EXCEPT !.poolEpoch = Epoch]
        \/ console' = [console EXCEPT !.raced = raced]
    BY <1>8 DEF OnCommit, CommitReturns, PoolRefetched, ConsoleOvertaken
  <2> HIDE DEF raced
  <2> DEFINE Holding(pool, refetching, now) ==
               [rows |-> console.rows, committedEpoch |-> console.committedEpoch,
                poolEpoch |-> pool, refetching |-> refetching,
                raced |-> now, excused |-> console.excused]
  <2>2. \/ console' = Holding(console.poolEpoch, console.refetching, FALSE)
        \/ console' = Holding(console.poolEpoch, TRUE, console.raced)
        \/ console' = Holding(Epoch, console.refetching, console.raced)
        \/ console' = Holding(console.poolEpoch, console.refetching, raced)
    BY <1>1, <2>1
  <2>3. ASSUME NEW pool \in Nat, pool <= Epoch, NEW refetching \in BOOLEAN,
               NEW now \in BOOLEAN, console' = Holding(pool, refetching, now)
        PROVE  ConsoleTyped'
    BY <1>1, <1>2, <2>1, <2>3
  <2>4. FALSE \in BOOLEAN /\ TRUE \in BOOLEAN /\ Epoch <= Epoch
    BY <1>a
  <2> HIDE DEF Holding
  <2> QED
    BY <1>1, <1>a, <1>c, <2>2, <2>3, <2>4, Zenon
<1>6. ASSUME NEW fresh \in BOOLEAN, CommitRefetched(fresh)
      PROVE  ConsoleTyped'
  <2> DEFINE epoch == IF fresh THEN Epoch ELSE console.poolEpoch
             excused == console.raced \/ ~fresh
  <2>1. /\ console' = [console EXCEPT !.refetching = FALSE, !.poolEpoch = epoch,
                                     !.committedEpoch = epoch, !.excused = excused]
        /\ UNCHANGED files
    BY <1>6 DEF CommitRefetched
  <2>2. epoch \in Nat /\ epoch <= Epoch /\ excused \in BOOLEAN
    BY <1>1, <1>a
  <2> HIDE DEF epoch, excused
  <2>3. console' = [rows |-> console.rows, committedEpoch |-> epoch, poolEpoch |-> epoch,
                    refetching |-> FALSE, raced |-> console.raced, excused |-> excused]
    BY <1>1, <2>1
  <2>4. FALSE \in BOOLEAN /\ files' \subseteq Packages
    BY <1>1, <2>1
  <2> QED
    BY <1>1, <1>2, <2>2, <2>3, <2>4
<1>7. ASSUME NEW i \in DOMAIN console.rows, DownloadPackage(i)
      PROVE  ConsoleTyped'
  <2>1. /\ files' = files \cup {PackageOf(console.rows[i], i - 1)}
        /\ UNCHANGED console
    BY <1>7 DEF DownloadPackage
  <2>2. files' \subseteq Packages
    BY <1>1, <2>1, PackageOfRow
  <2> QED
    BY <1>1, <1>2, <2>1, <2>2
<1> QED
  BY <1>3, <1>4, <1>6, <1>7, <1>8, ConsoleMoves

-----------------------------------------------------------------------------
(***************************************************************************)
(* The investor's wallet.                                                  *)
(***************************************************************************)
LEMMA WalletMoves ==
  ASSUME [Next]_vars
  PROVE  UNCHANGED walletVars \/ WalletNext
<1>1. CASE Network
  BY <1>1 DEF Network, browserVars
<1>2. CASE Console
  BY <1>2 DEF Console, browserVars
<1>3. CASE Investor
  BY <1>3
  DEF Investor, PastePackage, ChooseFile, AccreditationCommitted, ModalNext,
      OpenModal, CloseModal, Done, Reset, SelectTab, EnterAmount, RequestAccreditation, OnAccredited,
      AccreditationFails, FileArrives, FileFails, RunInBrowser, Generate, RunFallback,
      GenerateAgain, ProofArrives, ProofFails, OnSubmit, SubmitReturns, SubmitThrows, SignXdr
<1>4. CASE Anyone
  BY <1>4 DEF Anyone
<1>5. CASE UNCHANGED vars
  BY <1>5 DEF vars, browserVars
<1> QED
  BY <1>1, <1>2, <1>3, <1>4, <1>5 DEF Next

(***************************************************************************)
(* Every step keeps the types of the wallet.                               *)
(***************************************************************************)
LEMMA WalletTypedNext ==
  ASSUME WalletTyped, [Next]_vars
  PROVE  WalletTyped'
<1>1. CASE UNCHANGED walletVars
  BY <1>1 DEF walletVars, WalletTyped
<1> DEFINE AskingOf == [by : {"init", "connect"}, address : Investors \cup {NoAddress}]
<1>2. ASSUME NEW ask \in AskingOf
      PROVE  [ask EXCEPT !.address = extension.selected] \in AskingOf
  BY DEF WalletTyped
<1>3. ASSUME NEW ask \in wallet.asking
      PROVE  ask \in AskingOf
  BY DEF WalletTyped
<1>4. Ask("init") \in AskingOf /\ Ask("connect") \in AskingOf
  BY DEF Ask
<1>5. CASE PageAsks \/ Connect \/ Disconnect
  BY <1>4, <1>5 DEF PageAsks, Connect, Disconnect, WalletTyped
<1>6. ASSUME NEW ask \in wallet.asking,
             ExtensionAnswers(ask) \/ SetAddress(ask) \/ AskingFails(ask)
      PROVE  WalletTyped'
  <2>1. ask \in AskingOf
    BY <1>3
  <2>2. CASE ExtensionAnswers(ask)
    <3> DEFINE new == [ask EXCEPT !.address = extension.selected]
    <3>1. new \in AskingOf
      BY <1>2, <2>1
    <3>2. /\ wallet' = [wallet EXCEPT !.asking = (@ \ {ask}) \cup {new}]
          /\ extension' = [extension EXCEPT !.allowed = TRUE]
      BY <2>2 DEF ExtensionAnswers
    <3> HIDE DEF new
    <3> QED
      BY <3>1, <3>2 DEF WalletTyped
  <2>3. CASE SetAddress(ask)
    BY <2>1, <2>3 DEF SetAddress, WalletTyped
  <2>4. CASE AskingFails(ask)
    BY <2>4 DEF AskingFails, WalletTyped
  <2> QED
    BY <1>6, <2>2, <2>3, <2>4
<1>7. ASSUME NEW account \in Investors, SelectAccount(account)
      PROVE  WalletTyped'
  BY <1>7 DEF SelectAccount, WalletTyped
<1> QED
  BY <1>1, <1>5, <1>6, <1>7, WalletMoves DEF WalletNext

-----------------------------------------------------------------------------
(***************************************************************************)
(* The dialog, the proof console and the accreditation panel.              *)
(***************************************************************************)
Modals ==
  [open : BOOLEAN, timer : BOOLEAN, tab : {"accredit", "prove", "subscribe"},
   pkg : Packages \cup {NoPackage}, amount : Amounts,
   handle : Proofs \cup {NoProof}, result : Txs \cup {NoResult},
   reading : SUBSET Packages]

Provers == [out : BOOLEAN, busy : BOOLEAN, runs : SUBSET Runs]

Services == [filed : Seq(Known), requests : SUBSET Requests]

(***************************************************************************)
(* The type of the dialog is the types of its three parts.                 *)
(***************************************************************************)
LEMMA ModalIs == ModalTyped <=> /\ modal \in Modals
                                /\ prover \in Provers
                                /\ accreditation \in Services
  BY DEF ModalTyped, Modals, Provers, Services

(***************************************************************************)
(* A proof console that was just mounted has its type.                     *)
(***************************************************************************)
LEMMA FreshIsProver == Fresh \in Provers
  BY DEF Fresh, Provers

(***************************************************************************)
(* What follows a change of the dialog has its type.                       *)
(***************************************************************************)
LEMMA BecomesTyped ==
  ASSUME ModalTyped, NEW next \in Modals, Becomes(next)
  PROVE  ModalTyped'
<1>1. prover' \in Provers
  BY ModalIs, FreshIsProver DEF Becomes, ProverAfter
<1>2. accreditation' \in Services
  <2>1. ASSUME NEW r \in accreditation.requests
        PROVE  [r EXCEPT !.shown = FALSE] \in Requests
    <3>1. r \in Requests
      BY ModalIs DEF Services
    <3> QED
      BY <3>1 DEF Requests
  <2>2. CASE accreditation' = accreditation
    BY <2>2, ModalIs
  <2>3. CASE accreditation' = [accreditation EXCEPT !.requests =
                                 {[r EXCEPT !.shown = FALSE] : r \in @}]
    BY <2>1, <2>3, ModalIs DEF Services
  <2> QED
    BY <2>2, <2>3 DEF Becomes, AccreditationAfter
<1> QED
  BY <1>1, <1>2, ModalIs DEF Becomes, ModalTyped, Modals, Provers, Services

(***************************************************************************)
(* What the dialog's handlers make of it.                                  *)
(***************************************************************************)
LEMMA ModalMoves ==
  ASSUME [Next]_vars
  PROVE  \/ UNCHANGED modalVars
         \/ ModalNext
         \/ \E pkg \in files \cup Published : PastePackage(pkg) \/ ChooseFile(pkg)
         \/ Serves
<1>1. CASE Network
  BY <1>1 DEF Network, browserVars
<1>2. CASE Console
  BY <1>2 DEF Console, browserVars
<1>3. CASE Investor
  BY <1>3 DEF Investor, Serves
<1>4. CASE Anyone
  BY <1>4 DEF Anyone
<1>5. CASE UNCHANGED vars
  BY <1>5 DEF vars, browserVars
<1> QED
  BY <1>1, <1>2, <1>3, <1>4, <1>5 DEF Next

(***************************************************************************)
(* A proof is started of the package and the amount of the form.           *)
(***************************************************************************)
LEMMA RunTyped ==
  ASSUME ModalTyped, CallTyped, CanProve, NEW by \in {"browser", "fallback"},
         NEW step \in {"assembling", "proving"}
  PROVE  NewRun(by, step) \in Runs
<1>1. modal.pkg \in Packages /\ modal.amount \in Amounts
  BY DEF CanProve, Mounted, ModalTyped
<1>2. budget["prove"] \in Nat
  BY DEF CallTyped, Tasks
<1> QED
  BY <1>1, <1>2 DEF NewRun, Runs

(***************************************************************************)
(* The proof console's own handlers keep its type.                         *)
(***************************************************************************)
LEMMA ProverTypedNext ==
  ASSUME ModalTyped, CallTyped, UNCHANGED <<modal, accreditation>>,
         \/ RunInBrowser \/ RunFallback \/ GenerateAgain
         \/ \E run \in prover.runs : Generate(run) \/ ProofFails(run)
  PROVE  ModalTyped'
<1>a. /\ prover = [out |-> prover.out, busy |-> prover.busy, runs |-> prover.runs]
      /\ prover.out \in BOOLEAN /\ prover.busy \in BOOLEAN /\ prover.runs \subseteq Runs
  BY DEF ModalTyped
<1>1. ASSUME NEW out \in BOOLEAN, NEW busy \in BOOLEAN, NEW runs \in SUBSET Runs,
             prover' = [out |-> out, busy |-> busy, runs |-> runs]
      PROVE  ModalTyped'
  BY <1>1 DEF ModalTyped
<1>2. CASE RunInBrowser
  <2>1. NewRun("browser", "assembling") \in Runs
    BY <1>2, RunTyped DEF RunInBrowser
  <2>2. prover' = [out |-> prover.out, busy |-> prover.busy,
                   runs |-> prover.runs \cup {NewRun("browser", "assembling")}]
    BY <1>2, <1>a DEF RunInBrowser
  <2> QED
    BY <1>1, <1>a, <2>1, <2>2
<1>3. CASE RunFallback
  <2>1. NewRun("fallback", "proving") \in Runs
    BY <1>3, RunTyped DEF RunFallback
  <2>2. prover' = [out |-> prover.out, busy |-> prover.busy,
                   runs |-> prover.runs \cup {NewRun("fallback", "proving")}]
    BY <1>3, <1>a DEF RunFallback
  <2> QED
    BY <1>1, <1>a, <2>1, <2>2
<1>6. ASSUME NEW run \in prover.runs, Generate(run)
      PROVE  ModalTyped'
  <2> DEFINE proving == [run EXCEPT !.step = "proving"]
             runs    == (prover.runs \ {run}) \cup {proving}
  <2>1. proving \in Runs
    BY <1>a DEF Runs
  <2>2. prover' = [prover EXCEPT !.busy = TRUE, !.runs = runs]
    BY <1>6 DEF Generate
  <2> HIDE DEF proving
  <2>3. runs \in SUBSET Runs /\ TRUE \in BOOLEAN
    BY <1>a, <2>1
  <2> HIDE DEF runs
  <2>4. prover' = [out |-> prover.out, busy |-> TRUE, runs |-> runs]
    BY <1>a, <2>2
  <2> QED
    BY <1>1, <1>a, <2>3, <2>4
<1>4. CASE GenerateAgain
  <2>1. prover' = [out |-> FALSE, busy |-> FALSE, runs |-> prover.runs]
    BY <1>4, <1>a DEF GenerateAgain
  <2> QED
    BY <1>1, <1>a, <2>1
<1>5. ASSUME NEW run \in prover.runs, ProofFails(run)
      PROVE  ModalTyped'
  <2> DEFINE busy == BusyAfter(run)
  <2>1. busy \in BOOLEAN
    BY DEF BusyAfter
  <2>2. prover' = [prover EXCEPT !.busy = busy, !.runs = @ \ {run}]
    BY <1>5 DEF ProofFails
  <2> HIDE DEF busy
  <2>3. prover' = [out |-> prover.out, busy |-> busy, runs |-> prover.runs \ {run}]
    BY <1>a, <2>2
  <2> QED
    BY <1>1, <1>a, <2>1, <2>3
<1> QED
  BY <1>2, <1>3, <1>4, <1>5, <1>6

(***************************************************************************)
(* A proof that arrives has its type, and so has the dialog with it.       *)
(***************************************************************************)
LEMMA ProofArrivesTyped ==
  ASSUME ModalTyped, NEW run \in prover.runs, NEW verified \in BOOLEAN,
         ProofArrives(run, verified)
  PROVE  ModalTyped'
<1> DEFINE proof == [pkg |-> run.pkg, amount |-> run.amount, verified |-> verified]
           tab   == IF verified THEN "subscribe" ELSE modal.tab
           busy  == BusyAfter(run)
<1>1. run \in Runs /\ run.pkg \in Packages /\ run.amount \in Amounts
  BY DEF ModalTyped, Runs
<1>2. proof \in Proofs
  BY <1>1 DEF Proofs
<1>3. tab \in {"accredit", "prove", "subscribe"}
  BY DEF ModalTyped
<1>4. busy \in BOOLEAN
  BY DEF BusyAfter
<1>5. /\ modal' = [modal EXCEPT !.handle = proof, !.tab = tab]
      /\ prover' = IF verified THEN Fresh
                   ELSE [out |-> TRUE, busy |-> busy, runs |-> prover.runs \ {run}]
      /\ UNCHANGED accreditation
  BY DEF ProofArrives
<1> HIDE DEF proof, tab, busy
<1>6. modal' \in Modals
  BY <1>2, <1>3, <1>5 DEF ModalTyped, Modals
<1>7. prover' \in Provers
  BY <1>4, <1>5, FreshIsProver DEF ModalTyped, Provers
<1> QED
  BY <1>5, <1>6, <1>7 DEF ModalTyped, Modals, Provers

(***************************************************************************)
(* The service's answers.                                                  *)
(***************************************************************************)
LEMMA ServiceTyped ==
  ASSUME Typed, NEW r \in accreditation.requests, AccreditationCommitted(r)
  PROVE  ModalTyped'
<1> DEFINE filed  == accreditation.filed
           leaves == Append(filed, r.identity)
           pkg    == [identity |-> r.identity, tree |-> Padded(leaves),
                      index |-> Len(filed), epoch |-> Epoch + 1, amount |-> NoAmount]
           reply  == [r EXCEPT !.pkg = pkg]
<1>1. /\ filed \in Seq(Known) /\ Len(filed) \in Nat /\ r \in Requests
      /\ r.identity \in Known /\ Epoch \in Nat /\ MaxEpoch \in Nat
  BY ChainFields, BoundAssumption DEF Typed, ModalTyped, Requests
<1>2. /\ Len(filed) < Slots /\ Epoch < MaxEpoch
      /\ accreditation' = [filed |-> leaves,
                           requests |-> (accreditation.requests \ {r}) \cup {reply}]
      /\ UNCHANGED <<modal, prover>>
  BY DEF AccreditationCommitted, ServiceCommits
<1>3. leaves \in Seq(Known) /\ Padded(leaves) \in Trees
  <2>1. leaves \in Seq(Known)
    BY <1>1
  <2> HIDE DEF leaves
  <2> QED
    BY <2>1, PaddedIsTree
<1>4. Padded(leaves)[Len(filed) + 1] = r.identity
  <2>1. Len(filed) + 1 \in 1..Slots /\ Len(filed) + 1 \in DOMAIN leaves
        /\ leaves[Len(filed) + 1] = r.identity
    BY <1>1, <1>2 DEF Slots
  <2> QED
    BY <2>1 DEF Padded
<1>5. Len(filed) \in Indices /\ Epoch + 1 \in 1..MaxEpoch /\ r.identity \in Identities
  <2>1. r.identity \in Identities
    BY <1>1 DEF Known
  <2> HIDE DEF filed, leaves, pkg
  <2>2. Len(filed) \in Indices
    <3> DEFINE n == Len(filed)
    <3>1. n \in Nat /\ n < 8
      BY <1>1, <1>2 DEF Slots
    <3> HIDE DEF n
    <3>2. n \in 0..(8 - 1)
      BY <3>1
    <3> QED
      BY <3>2 DEF Indices, Slots, n
  <2>3. Epoch + 1 \in 1..MaxEpoch
    BY <1>1, <1>2
  <2> QED
    BY <2>1, <2>2, <2>3
<1>6. pkg \in Packages
  <2>1. /\ pkg.identity = r.identity /\ pkg.tree = Padded(leaves)
        /\ pkg.index = Len(filed)
    OBVIOUS
  <2>2. pkg \in [identity : Identities, tree : Trees, index : Indices,
                 epoch : 1..MaxEpoch, amount : Amounts \cup {NoAmount}]
    BY <1>3, <1>5
  <2> HIDE DEF pkg, leaves, filed
  <2> QED
    BY <1>4, <2>1, <2>2 DEF Packages
<1> HIDE DEF pkg, leaves
<1>7. reply \in Requests
  BY <1>1, <1>6 DEF Requests
<1> HIDE DEF reply
<1>8. accreditation' \in Services
  BY <1>2, <1>3, <1>7 DEF Services, Typed, ModalTyped
<1> QED
  BY <1>2, <1>8 DEF Typed, ModalTyped, Services

(***************************************************************************)
(* The accreditation panel's handlers keep the types.                      *)
(***************************************************************************)
LEMMA RequestTyped ==
  ASSUME Typed,
         \/ RequestAccreditation
         \/ \E r \in accreditation.requests : OnAccredited(r) \/ AccreditationFails(r)
  PROVE  ModalTyped'
<1>a. modal \in Modals /\ prover \in Provers /\ accreditation \in Services
  BY ModalIs DEF Typed
<1>1. CASE RequestAccreditation
  <2> DEFINE r == [identity |-> Generated[budget["accredit"]], pkg |-> NoPackage,
                   shown |-> TRUE]
  <2>1. budget["accredit"] \in 1..Len(Generated)
    <3>1. budget \in [Tasks -> Nat] /\ budget["accredit"] <= Len(Generated)
      BY DEF Typed, CallTyped
    <3>2. budget["accredit"] \in Nat
      BY <3>1 DEF Tasks
    <3>3. budget["accredit"] > 0
      BY <1>1 DEF RequestAccreditation, Spend
    <3>4. Len(Generated) \in Nat
      BY DataAssumption
    <3> QED
      BY <3>1, <3>2, <3>3, <3>4
  <2>2. Generated[budget["accredit"]] \in Known
    BY <2>1, DataAssumption
  <2>3. r \in Requests
    BY <2>2 DEF Requests
  <2>4. /\ accreditation' = [accreditation EXCEPT !.requests = @ \cup {r}]
        /\ UNCHANGED <<modal, prover>>
    BY <1>1 DEF RequestAccreditation
  <2> HIDE DEF r
  <2>5. accreditation' \in Services
    BY <1>a, <2>3, <2>4 DEF Services
  <2> QED
    BY <1>a, <2>4, <2>5 DEF ModalTyped, Modals, Provers, Services
<1>2. ASSUME NEW r \in accreditation.requests, AccreditationFails(r)
      PROVE  ModalTyped'
  <2>1. accreditation' \in Services
    BY <1>a, <1>2 DEF AccreditationFails, Without, Services
  <2> QED
    BY <1>a, <1>2, <2>1 DEF AccreditationFails, ModalTyped, Modals, Provers, Services
<1>3. ASSUME NEW r \in accreditation.requests, OnAccredited(r)
      PROVE  ModalTyped'
  <2> DEFINE next == [modal EXCEPT !.pkg = r.pkg, !.handle = NoProof, !.tab = "prove"]
  <2>1. r.pkg \in Packages
    BY <1>a, <1>3 DEF OnAccredited, Services, Requests
  <2>2. next \in Modals
    BY <1>a, <2>1 DEF Modals
  <2>3. /\ modal' = next /\ prover' = ProverAfter(next)
        /\ accreditation' = [accreditation EXCEPT !.requests =
                               {[s EXCEPT !.shown = FALSE] : s \in @ \ {r}}]
    BY <1>3 DEF OnAccredited
  <2> HIDE DEF next
  <2>4. prover' \in Provers
    BY <1>a, <2>3, FreshIsProver DEF ProverAfter
  <2>5. accreditation' \in Services
    <3>1. \A s \in accreditation.requests : [s EXCEPT !.shown = FALSE] \in Requests
      BY <1>a DEF Services, Requests
    <3> QED
      BY <1>a, <2>3, <3>1 DEF Services
  <2> QED
    BY <2>2, <2>3, <2>4, <2>5 DEF ModalTyped, Modals, Provers, Services
<1> QED
  BY <1>1, <1>2, <1>3

(***************************************************************************)
(* Every step keeps the types of the dialog.                               *)
(***************************************************************************)
LEMMA ModalTypedNext ==
  ASSUME Typed, [Next]_vars
  PROVE  ModalTyped'
<1>a. modal \in Modals /\ ModalTyped
  BY ModalIs DEF Typed
<1>1. CASE UNCHANGED modalVars
  BY <1>1, <1>a DEF modalVars, ModalTyped
<1>2. ASSUME NEW next \in Modals, Becomes(next)
      PROVE  ModalTyped'
  BY <1>a, <1>2, BecomesTyped
<1>3. CASE OpenModal
  <2>1. [modal EXCEPT !.open = TRUE, !.amount = DefaultAmount] \in Modals
    BY <1>a, DataAssumption DEF Modals
  <2> QED
    BY <1>2, <1>3, <2>1 DEF OpenModal
<1>4. CASE CloseModal \/ Done
  <2>1. /\ [modal EXCEPT !.open = FALSE, !.timer = TRUE] \in Modals
        /\ [modal EXCEPT !.open = FALSE] \in Modals
    BY <1>a DEF Modals
  <2> QED
    BY <1>2, <1>4, <2>1 DEF CloseModal, Done
<1>5. CASE Reset
  <2>1. AfterReset \in Modals
    BY <1>a, DataAssumption DEF Modals, AfterReset
  <2> QED
    BY <1>2, <1>5, <2>1 DEF Reset
<1>6. ASSUME NEW tab \in {"accredit", "prove", "subscribe"}, SelectTab(tab)
      PROVE  ModalTyped'
  <2>1. [modal EXCEPT !.tab = tab] \in Modals
    BY <1>a DEF Modals
  <2> QED
    BY <1>2, <1>6, <2>1 DEF SelectTab
<1>7. ASSUME NEW amount \in Amounts, EnterAmount(amount)
      PROVE  ModalTyped'
  <2>1. AfterAmount(amount) \in Modals
    BY <1>a DEF Modals, AfterAmount
  <2> QED
    BY <1>2, <1>7, <2>1 DEF EnterAmount
<1>8. ASSUME NEW pkg \in Packages
      PROVE  WithPackage(pkg) \in Modals
  <2> DEFINE amount == IF pkg.amount = NoAmount THEN modal.amount ELSE pkg.amount
  <2>1. amount \in Amounts
    BY <1>a, PackageFields DEF Modals
  <2>2. WithPackage(pkg) = [modal EXCEPT !.pkg = pkg, !.amount = amount, !.tab = "prove"]
    BY DEF WithPackage
  <2> HIDE DEF amount
  <2> QED
    BY <1>a, <2>1, <2>2 DEF Modals
<1>16. ASSUME NEW pkg \in files \cup Published, PastePackage(pkg) \/ ChooseFile(pkg)
       PROVE  ModalTyped'
  <2>1. pkg \in Packages
    BY DataAssumption DEF Typed, ConsoleTyped
  <2>2. [modal EXCEPT !.reading = @ \cup {pkg}] \in Modals
    BY <1>a, <2>1 DEF Modals
  <2> QED
    BY <1>2, <1>8, <1>16, <2>1, <2>2 DEF PastePackage, ChooseFile
<1>17. ASSUME NEW pkg \in modal.reading, FileArrives(pkg) \/ FileFails(pkg)
       PROVE  ModalTyped'
  <2>1. WithPackage(pkg) \in Modals
    BY <1>a, <1>8 DEF Modals
  <2>2. /\ [WithPackage(pkg) EXCEPT !.reading = @ \ {pkg}] \in Modals
        /\ [modal EXCEPT !.reading = @ \ {pkg}] \in Modals
    BY <1>a, <2>1 DEF Modals
  <2> QED
    BY <1>2, <1>17, <2>2 DEF FileArrives, FileFails
<1>9. CASE SubmitReturns
  <2>1. call["subscribe"] # Idle
    BY <1>9 DEF SubmitReturns, Returns, Idle
  <2>2. call["subscribe"].tx \in Txs
    BY <2>1, CallFields, TheCallers DEF Typed
  <2>3. [modal EXCEPT !.result = call["subscribe"].tx] \in Modals
    BY <1>a, <2>2 DEF Modals
  <2> QED
    BY <1>2, <1>9, <2>3 DEF SubmitReturns
<1>10. CASE Serves
  BY <1>10, ServiceTyped DEF Serves
<1>11. ASSUME NEW run \in prover.runs, NEW verified \in BOOLEAN, ProofArrives(run, verified)
       PROVE  ModalTyped'
  BY <1>a, <1>11, ProofArrivesTyped
<1>12. CASE \/ RunInBrowser \/ RunFallback \/ GenerateAgain
            \/ \E run \in prover.runs : Generate(run) \/ ProofFails(run)
  <2>1. UNCHANGED <<modal, accreditation>>
    BY <1>12 DEF RunInBrowser, RunFallback, GenerateAgain, Generate, ProofFails
  <2> QED
    BY <1>a, <1>12, <2>1, ProverTypedNext DEF Typed
<1>13. CASE \/ RequestAccreditation
            \/ \E r \in accreditation.requests : OnAccredited(r) \/ AccreditationFails(r)
  BY <1>13, RequestTyped
<1>14. CASE OnSubmit \/ SubmitThrows
  BY <1>1, <1>14 DEF OnSubmit, SubmitThrows
<1>15. CASE ModalNext
  BY <1>1, <1>3, <1>4, <1>5, <1>6, <1>7, <1>9, <1>11, <1>12, <1>13, <1>14, <1>15, <1>17
  DEF ModalNext
<1> QED
  BY <1>1, <1>10, <1>15, <1>16, ModalMoves

(***************************************************************************)
(* Every stored value keeps its type, whatever the users do and however    *)
(* late the answers are.                                                   *)
(***************************************************************************)
LEMMA TypedNext == Typed /\ [Next]_vars => Typed'
  BY ChainTypedNext, CallTypedNext, ConsoleTypedNext, ModalTypedNext, WalletTypedNext
  DEF Typed

(***************************************************************************)
(* The types that the proofs carry imply those that the runs check.        *)
(***************************************************************************)
LEMMA TypedIsTypeOK == Typed => TypeOK
<1> SUFFICES ASSUME Typed PROVE TypeOK
  OBVIOUS
<1>a. ChainTyped /\ CallTyped /\ ConsoleTyped /\ ModalTyped /\ WalletTyped
  BY DEF Typed
<1>0. \A p \in Packages : IsPackage(p)
  BY PackageFields DEF IsPackage
<1>1. /\ \A e \in DOMAIN chain.rosters : chain.rosters[e] \in Trees
      /\ Epoch \in 1..MaxEpoch /\ Epoch \in Nat
      /\ chain.spent \subseteq Identities \X (1..MaxEpoch)
      /\ \A tx \in chain.pending : tx.seq = chain.seq[tx.source] + 1
  BY <1>a, ChainFields DEF ChainTyped
<1>2. \A c \in Callers : call[c].step \in
        {"idle", "account", "simulate", "sign", "send", "poll"}
  <2> TAKE c \in Callers
  <2>1. CASE call[c] = Idle
    BY <2>1 DEF Idle
  <2>2. CASE call[c] # Idle
    <3>1. call[c].step \in Steps
      BY <1>a, <2>2, CallFields
    <3> QED
      BY <3>1 DEF Steps
  <2> QED
    BY <2>1, <2>2
<1>3. /\ console.committedEpoch \in 0..Epoch
      /\ console.poolEpoch \in 0..Epoch
      /\ \A p \in files : IsPackage(p)
  BY <1>a, <1>0, <1>1 DEF ConsoleTyped
<1>4. /\ modal.pkg = NoPackage \/ IsPackage(modal.pkg)
      /\ \A p \in modal.reading : IsPackage(p)
      /\ modal.handle = NoProof \/ modal.handle.amount \in Amounts
  BY <1>a, <1>0, ProofFields DEF ModalTyped
<1>5. \A run \in prover.runs : IsPackage(run.pkg) /\ run.amount \in Amounts
  BY <1>a, <1>0 DEF ModalTyped, Runs
<1>6. wallet.address \in Investors \cup {NoAddress}
  BY <1>a DEF WalletTyped
<1> QED
  BY <1>1, <1>2, <1>3, <1>4, <1>5, <1>6 DEF TypeOK

(***************************************************************************)
(* Rosters, packages, proofs, transactions and what the pages keep of them *)
(* have their types, for any number of accounts, identities, files and     *)
(* epochs.                                                                 *)
(***************************************************************************)
THEOREM FlowTypeCorrect == Spec => []TypeOK
  BY TypedInit, TypedNext, TypedIsTypeOK, PTL DEF Spec

-----------------------------------------------------------------------------
(***************************************************************************)
(* Only a transaction that lands is applied; a subscription among them was *)
(* admitted, and spends its nullifier.                                     *)
(***************************************************************************)
LEMMA AppliedMoves ==
  ASSUME Typed, [Next]_vars
  PROVE  \/ chain'.applied = chain.applied /\ chain'.spent = chain.spent
         \/ \E tx \in chain.pending :
              /\ chain'.applied = chain.applied \cup {tx}
              /\ IF tx.op.kind = "subscribe"
                 THEN /\ AdmitsSubscription(tx.op)
                      /\ chain'.spent = chain.spent \cup {NullifierOf(tx.op.proof)}
                 ELSE chain'.spent = chain.spent
<1>a. ChainTyped /\ CallTyped
  BY DEF Typed
<1>1. CASE UNCHANGED chain
  BY <1>1
<1>2. ASSUME NEW tx \in chain.pending, NEW fits \in BOOLEAN, Land(tx, fits)
      PROVE  \/ chain'.applied = chain.applied /\ chain'.spent = chain.spent
             \/ /\ chain'.applied = chain.applied \cup {tx}
                /\ IF tx.op.kind = "subscribe"
                   THEN /\ AdmitsSubscription(tx.op)
                        /\ chain'.spent = chain.spent \cup {NullifierOf(tx.op.proof)}
                   ELSE chain'.spent = chain.spent
  <2>1. CASE ~fits
    BY <1>a, <1>2, <2>1, LandResult
  <2>2. CASE fits
    <3>1. /\ chain'.applied = chain.applied \cup {tx}
          /\ chain'.spent = IF tx.op.kind = "subscribe"
                            THEN chain.spent \cup {NullifierOf(tx.op.proof)}
                            ELSE chain.spent
      BY <1>a, <1>2, <2>2, LandResult
    <3>2. tx.op.kind = "subscribe" => AdmitsSubscription(tx.op)
      BY <1>2, <2>2 DEF Land, Admits
    <3> QED
      BY <3>1, <3>2
  <2> QED
    BY <2>1, <2>2
<1>3. CASE Serves
  <2>1. PICK roster : ServiceCommits(roster)
    BY <1>3 DEF Serves, AccreditationCommitted
  <2> QED
    BY <1>a, <2>1, ServeResult
<1>4. ASSUME NEW c \in Callers, Sends(c)
      PROVE  chain'.applied = chain.applied /\ chain'.spent = chain.spent
  BY <1>a, <1>4, SendResult
<1> QED
  BY <1>a, <1>1, <1>2, <1>3, <1>4, ChainMoves DEF Lands

(***************************************************************************)
(* Nothing is paid at the start.                                           *)
(***************************************************************************)
LEMMA PaidOnceInit == Init => PaidOnce
  BY DEF Init, CallsInit, PaidOnce, NotPaidTwice, Subscriptions

(***************************************************************************)
(* What is applied was admitted, and a nullifier is admitted once.         *)
(***************************************************************************)
LEMMA PaidOnceNext == Typed /\ PaidOnce /\ [Next]_vars => PaidOnce'
<1> SUFFICES ASSUME Typed, PaidOnce, [Next]_vars PROVE PaidOnce'
  OBVIOUS
<1>a. /\ \A tx \in chain.applied : tx.op.kind = "subscribe" =>
           NullifierOf(tx.op.proof) \in chain.spent /\ tx.op.proof.verified
      /\ \A s, t \in chain.applied :
           s.op.kind = "subscribe" /\ t.op.kind = "subscribe"
             /\ NullifierOf(s.op.proof) = NullifierOf(t.op.proof) => s = t
  BY DEF PaidOnce, NotPaidTwice, Subscriptions, Valid
<1>1. SUFFICES
        /\ \A tx \in chain'.applied : tx.op.kind = "subscribe" =>
             NullifierOf(tx.op.proof) \in chain'.spent /\ tx.op.proof.verified
        /\ \A s, t \in chain'.applied :
             s.op.kind = "subscribe" /\ t.op.kind = "subscribe"
               /\ NullifierOf(s.op.proof) = NullifierOf(t.op.proof) => s = t
  BY DEF PaidOnce, NotPaidTwice, Subscriptions, Valid, NullifierOf
<1>2. CASE chain'.applied = chain.applied /\ chain'.spent = chain.spent
  BY <1>a, <1>2
<1>3. ASSUME NEW tx \in chain.pending, chain'.applied = chain.applied \cup {tx},
             IF tx.op.kind = "subscribe"
             THEN /\ AdmitsSubscription(tx.op)
                  /\ chain'.spent = chain.spent \cup {NullifierOf(tx.op.proof)}
             ELSE chain'.spent = chain.spent
      PROVE  /\ \A s \in chain'.applied : s.op.kind = "subscribe" =>
                  NullifierOf(s.op.proof) \in chain'.spent /\ s.op.proof.verified
             /\ \A s, t \in chain'.applied :
                  s.op.kind = "subscribe" /\ t.op.kind = "subscribe"
                    /\ NullifierOf(s.op.proof) = NullifierOf(t.op.proof) => s = t
  <2>1. tx.op.kind = "subscribe" =>
          NullifierOf(tx.op.proof) \notin chain.spent /\ tx.op.proof.verified
    BY <1>3 DEF AdmitsSubscription, NotSpent
  <2>2. chain.spent \subseteq chain'.spent
        /\ (tx.op.kind = "subscribe" => NullifierOf(tx.op.proof) \in chain'.spent)
    BY <1>3
  <2> QED
    BY <1>a, <1>3, <2>1, <2>2
<1> QED
  BY <1>2, <1>3, AppliedMoves

(***************************************************************************)
(* An investor who submits again after a submission that was reported as   *)
(* failed, from whatever account and with whatever proof of the same       *)
(* identity in the same epoch, pays once.                                  *)
(***************************************************************************)
THEOREM PaysOnce == Spec => []NotPaidTwice
<1>1. Typed /\ PaidOnce /\ [Next]_vars => (Typed /\ PaidOnce)'
  BY TypedNext, PaidOnceNext
<1>2. PaidOnce => NotPaidTwice
  BY DEF PaidOnce
<1> QED
  BY TypedInit, PaidOnceInit, <1>1, <1>2, PTL DEF Spec

-----------------------------------------------------------------------------
(***************************************************************************)
(* What a step can do to the dialog.                                       *)
(***************************************************************************)
LEMMA DialogMoves ==
  ASSUME [Next]_vars
  PROVE  \/ UNCHANGED modal
         \/ Becomes([modal EXCEPT !.open = TRUE, !.amount = DefaultAmount])
              /\ ~modal.open
         \/ Becomes([modal EXCEPT !.open = FALSE, !.timer = TRUE])
         \/ Becomes([modal EXCEPT !.open = FALSE])
         \/ Becomes(AfterReset)
         \/ \E tab \in {"accredit", "prove", "subscribe"} : Becomes([modal EXCEPT !.tab = tab])
         \/ \E amount \in Amounts : Becomes(AfterAmount(amount))
         \/ \E r \in accreditation.requests : OnAccredited(r)
         \/ \E pkg \in files \cup Published : PastePackage(pkg) \/ ChooseFile(pkg)
         \/ \E pkg \in modal.reading : FileArrives(pkg) \/ FileFails(pkg)
         \/ \E run \in prover.runs, verified \in BOOLEAN : ProofArrives(run, verified)
         \/ SubmitReturns
<1>1. CASE UNCHANGED modalVars
  BY <1>1 DEF modalVars
<1>2. CASE ModalNext
  BY <1>2
  DEF ModalNext, OpenModal, CloseModal, Done, Reset, SelectTab, EnterAmount,
      RequestAccreditation, AccreditationFails, RunInBrowser, Generate, RunFallback,
      GenerateAgain, ProofFails, OnSubmit, SubmitThrows, modalVars
<1>3. CASE Serves
  BY <1>3 DEF Serves, AccreditationCommitted
<1> QED
  BY <1>1, <1>2, <1>3, ModalMoves

(***************************************************************************)
(* Loading a package changes the form's package, amount and tab; choosing  *)
(* a file changes nothing that is on the form.                             *)
(***************************************************************************)
LEMMA PackageMoves ==
  ASSUME modal \in Modals, NEW pkg,
         \/ PastePackage(pkg) \/ ChooseFile(pkg) \/ FileArrives(pkg) \/ FileFails(pkg)
  PROVE  /\ \E next : Becomes(next)
         /\ modal'.result = modal.result
         /\ modal'.handle = modal.handle
         /\ \/ modal'.amount = modal.amount
            \/ modal'.tab = "prove"
                 /\ (modal.tab = "accredit" \/ modal'.reading # modal.reading)
<1>1. CASE PastePackage(pkg)
  BY <1>1 DEF PastePackage, PanelMounted, WithPackage, Becomes, Modals
<1>2. CASE ChooseFile(pkg)
  BY <1>2 DEF ChooseFile, Becomes, Modals
<1>3. CASE FileArrives(pkg)
  <2> DEFINE next == [WithPackage(pkg) EXCEPT !.reading = @ \ {pkg}]
  <2>1. Becomes(next) /\ modal' = next /\ pkg \in modal.reading
    BY <1>3 DEF FileArrives, Becomes
  <2>2. /\ next.result = modal.result /\ next.handle = modal.handle
        /\ next.tab = "prove" /\ next.reading = modal.reading \ {pkg}
    BY DEF WithPackage, Modals
  <2> HIDE DEF next
  <2> QED
    BY <2>1, <2>2
<1>4. CASE FileFails(pkg)
  BY <1>4 DEF FileFails, Becomes, Modals
<1> QED
  BY <1>1, <1>2, <1>3, <1>4

(***************************************************************************)
(* A result is put down when its transaction was seen to be applied.       *)
(***************************************************************************)
LEMMA ConfirmedNext ==
  Typed /\ ConfirmedIsApplied /\ [Next]_vars => ConfirmedIsApplied'
<1> SUFFICES ASSUME Typed, ConfirmedIsApplied, [Next]_vars, modal'.result # NoResult
             PROVE  modal'.result \in chain'.applied
  BY DEF ConfirmedIsApplied
<1>1. chain.applied \subseteq chain'.applied
  BY AppliedMoves
<1>a. modal \in Modals
  BY ModalIs DEF Typed
<1>2. CASE modal'.result = modal.result
  BY <1>1, <1>2 DEF ConfirmedIsApplied
<1>3. CASE Becomes(AfterReset)
  BY <1>3, <1>a DEF Becomes, AfterReset, Modals
<1>4. CASE SubmitReturns
  BY <1>1, <1>4, <1>a DEF SubmitReturns, Becomes, Returns, Modals
<1>5. CASE UNCHANGED modal
  BY <1>2, <1>5
<1>6. ASSUME \/ Becomes([modal EXCEPT !.open = TRUE, !.amount = DefaultAmount])
             \/ Becomes([modal EXCEPT !.open = FALSE, !.timer = TRUE])
             \/ Becomes([modal EXCEPT !.open = FALSE])
             \/ \E tab \in {"accredit", "prove", "subscribe"} : Becomes([modal EXCEPT !.tab = tab])
             \/ \E amount \in Amounts : Becomes(AfterAmount(amount))
      PROVE  modal'.result = modal.result
  BY <1>6, <1>a DEF Becomes, AfterAmount, Modals
<1>7. ASSUME \/ \E r \in accreditation.requests : OnAccredited(r)
             \/ \E run \in prover.runs, verified \in BOOLEAN : ProofArrives(run, verified)
      PROVE  modal'.result = modal.result
  BY ZenonT(60), <1>7, <1>a DEF OnAccredited, ProofArrives, Becomes, Modals
<1>8. ASSUME NEW pkg, \/ PastePackage(pkg) \/ ChooseFile(pkg)
                      \/ FileArrives(pkg) \/ FileFails(pkg)
      PROVE  modal'.result = modal.result
  BY <1>8, <1>a, PackageMoves
<1> QED
  BY <1>2, <1>3, <1>4, <1>5, <1>6, <1>7, <1>8, DialogMoves

(***************************************************************************)
(* What the success panel confirms was applied, whether the answer found   *)
(* the dialog open or closed.                                              *)
(***************************************************************************)
THEOREM ConfirmedWasApplied == Spec => []ConfirmedIsApplied
<1>1. Init => ConfirmedIsApplied
  BY DEF Init, ModalInit, ConfirmedIsApplied
<1> QED
  BY TypedInit, TypedNext, <1>1, ConfirmedNext, PTL DEF Spec

-----------------------------------------------------------------------------
(***************************************************************************)
(* The proof console's runs are of the amount on the form, and are such as *)
(* the circuit accepts.                                                    *)
(***************************************************************************)
LEMMA FreshRuns == Fresh.runs = {}
  BY DEF Fresh

(***************************************************************************)
(* The runs of a console that stays are of the amount of the form, and one *)
(* that goes takes its runs with it.                                       *)
(***************************************************************************)
LEMMA KeptRuns ==
  ASSUME RunsOfTheForm, NEW next, modal' = next, prover' = ProverAfter(next)
  PROVE  RunsOfTheForm'
<1>1. CASE Mounted(modal) /\ Mounted(next) /\ next.amount = modal.amount
  <2>1. prover' = prover /\ modal'.amount = modal.amount
    BY <1>1 DEF ProverAfter
  <2> QED
    BY <2>1 DEF RunsOfTheForm, Provable
<1>2. CASE ~(Mounted(modal) /\ Mounted(next) /\ next.amount = modal.amount)
  <2>1. prover' = Fresh
    BY <1>2 DEF ProverAfter
  <2> QED
    BY <2>1, FreshRuns DEF RunsOfTheForm
<1> QED
  BY <1>1, <1>2

(***************************************************************************)
(* A package that the form lets through to the prover has an identity, and *)
(* the path of its leaf leads to its root.                                 *)
(***************************************************************************)
LEMMA MountedProves ==
  ASSUME ModalTyped, Mounted(modal)
  PROVE  Provable(modal.pkg, modal.amount)
<1> DEFINE pkg == modal.pkg
<1>1. pkg \in Packages /\ modal.amount \in Nat /\ modal.amount > 0
  BY DataAssumption DEF Mounted, ModalTyped
<1>2. /\ pkg.identity \in Identities /\ pkg.index \in Indices
      /\ pkg.identity # Unknown => pkg.tree[pkg.index + 1] = pkg.identity
  BY <1>1, PackageFields
<1>3. Cap[pkg.identity] \in Nat /\ modal.amount <= Cap[pkg.identity]
  BY <1>1, <1>2, DataAssumption DEF Mounted, CapExceeded
<1>4. pkg.identity # Unknown
  BY <1>1, <1>3, DataAssumption
<1>5. VerifyPath(pkg.tree[pkg.index + 1], PathFor(pkg.tree, pkg.index)) = Root(pkg.tree)
  BY <1>2, PathVerifies
<1>6. VerifyPath(pkg.identity, PathFor(pkg.tree, pkg.index)) = Root(pkg.tree)
  BY <1>2, <1>4, <1>5
<1> QED
  BY <1>3, <1>6 DEF Provable

(***************************************************************************)
(* Every step keeps the running proofs those of the form.                  *)
(***************************************************************************)
LEMMA RunsNext == Typed /\ RunsOfTheForm /\ [Next]_vars => RunsOfTheForm'
<1> SUFFICES ASSUME Typed, RunsOfTheForm, [Next]_vars PROVE RunsOfTheForm'
  OBVIOUS
<1>a. modal \in Modals /\ prover \in Provers /\ ModalTyped
  BY ModalIs DEF Typed
<1>1. CASE UNCHANGED <<modal, prover>>
  BY <1>1 DEF RunsOfTheForm, Provable
<1>2. ASSUME NEW next, Becomes(next)
      PROVE  RunsOfTheForm'
  BY <1>2, KeptRuns DEF Becomes
<1>3. ASSUME NEW r \in accreditation.requests, OnAccredited(r)
      PROVE  RunsOfTheForm'
  BY <1>3, KeptRuns DEF OnAccredited
<1>4. ASSUME UNCHANGED modal, NEW new, prover'.runs \subseteq prover.runs \cup {new},
             new.amount = modal.amount /\ Provable(new.pkg, new.amount)
      PROVE  RunsOfTheForm'
  BY <1>4 DEF RunsOfTheForm, Provable
<1>5. ASSUME NEW by \in {"browser", "fallback"}, NEW step, CanProve, UNCHANGED modal,
             prover'.runs = prover.runs \cup {NewRun(by, step)}
      PROVE  RunsOfTheForm'
  <2>1. Provable(modal.pkg, modal.amount)
    BY <1>a, <1>5, MountedProves DEF CanProve
  <2>2. NewRun(by, step).amount = modal.amount /\ NewRun(by, step).pkg = modal.pkg
    BY DEF NewRun
  <2> QED
    BY <1>4, <1>5, <2>1, <2>2
<1>6. CASE RunInBrowser \/ RunFallback
  BY <1>5, <1>6, <1>a DEF RunInBrowser, RunFallback, Provers
<1>7. ASSUME modal'.amount = modal.amount, prover'.runs \subseteq prover.runs
      PROVE  RunsOfTheForm'
  BY <1>7 DEF RunsOfTheForm, Provable
<1>8. CASE GenerateAgain \/ \E run \in prover.runs : ProofFails(run)
  BY <1>7, <1>8, <1>a DEF GenerateAgain, ProofFails, Provers
<1>9. ASSUME NEW run \in prover.runs, NEW verified \in BOOLEAN, ProofArrives(run, verified)
      PROVE  RunsOfTheForm'
  <2>1. modal'.amount = modal.amount
    BY <1>9, <1>a DEF ProofArrives, Modals
  <2>2. prover'.runs \subseteq prover.runs
    BY <1>9, FreshRuns DEF ProofArrives
  <2> QED
    BY <1>7, <2>1, <2>2
<1>10. CASE UNCHANGED modalVars
  BY <1>1, <1>10 DEF modalVars
<1>11. CASE Serves
  BY <1>1, <1>11 DEF Serves, AccreditationCommitted
<1>12. ASSUME NEW pkg, \/ PastePackage(pkg) \/ ChooseFile(pkg)
                       \/ FileArrives(pkg) \/ FileFails(pkg)
       PROVE  RunsOfTheForm'
  BY <1>2, <1>12, <1>a, PackageMoves
<1>14. ASSUME NEW run \in prover.runs, Generate(run)
       PROVE  RunsOfTheForm'
  <2> DEFINE proving == [run EXCEPT !.step = "proving"]
  <2>1. run \in Runs
    BY <1>a DEF Provers
  <2>2. proving.amount = run.amount /\ proving.pkg = run.pkg
    BY <2>1 DEF Runs
  <2>3. UNCHANGED modal /\ prover'.runs \subseteq prover.runs \cup {proving}
    BY <1>14, <1>a DEF Generate, Provers
  <2>4. run.amount = modal.amount /\ Provable(run.pkg, run.amount)
    BY DEF RunsOfTheForm
  <2> HIDE DEF proving
  <2>5. proving.amount = modal.amount /\ Provable(proving.pkg, proving.amount)
    BY <2>2, <2>4
  <2> QED
    BY <1>4, <2>3, <2>5
<1>13. CASE ModalNext
  <2>1. CASE OpenModal \/ CloseModal \/ Done \/ Reset \/ SubmitReturns
    BY <1>2, <2>1 DEF OpenModal, CloseModal, Done, Reset, SubmitReturns
  <2>2. CASE \/ \E tab \in {"accredit", "prove", "subscribe"} : SelectTab(tab)
             \/ \E amount \in Amounts : EnterAmount(amount)
    BY <1>2, <2>2 DEF SelectTab, EnterAmount
  <2>3. CASE RequestAccreditation \/ OnSubmit \/ SubmitThrows
             \/ \E r \in accreditation.requests : AccreditationFails(r)
    BY <1>1, <2>3 DEF RequestAccreditation, OnSubmit, SubmitThrows, AccreditationFails,
       modalVars
  <2> QED
    BY <1>3, <1>6, <1>8, <1>9, <1>10, <1>12, <1>13, <1>14, <2>1, <2>2, <2>3 DEF ModalNext
<1> QED
  BY <1>10, <1>11, <1>12, <1>13, ModalMoves

FormInv == Typed /\ RunsOfTheForm

(***************************************************************************)
(* The types and the running proofs, in every reachable state.             *)
(***************************************************************************)
LEMMA FormInvHolds == Spec => []FormInv
<1>1. Init => RunsOfTheForm
  BY FreshRuns DEF Init, ModalInit, RunsOfTheForm
<1>2. FormInv /\ [Next]_vars => FormInv'
  BY TypedNext, RunsNext DEF FormInv
<1> QED
  BY TypedInit, <1>1, <1>2, PTL DEF Spec, FormInv

(***************************************************************************)
(* The prover is never started on inputs that the circuit refuses,         *)
(* wherever the package came from: the service, the issuer's page or a     *)
(* file.                                                                   *)
(***************************************************************************)
THEOREM StartedProofsProve == Spec => []PackagesProve
<1>1. FormInv => PackagesProve
  BY DEF FormInv, RunsOfTheForm, PackagesProve
<1> QED
  BY FormInvHolds, <1>1, PTL

-----------------------------------------------------------------------------
(***************************************************************************)
(* What a step does to the amount on the form and to the proof at hand.    *)
(***************************************************************************)
LEMMA HandleMoves ==
  ASSUME FormInv, [Next]_vars
  PROVE  \/ modal'.handle = modal.handle /\ modal'.amount = modal.amount
         \/ modal'.handle = NoProof
         \/ modal'.handle.amount = modal'.amount
         \/ modal'.handle = modal.handle /\ modal'.open # modal.open
         \/ /\ modal'.handle = modal.handle
            /\ modal'.tab = "prove"
            /\ (modal.tab = "accredit" \/ modal'.reading # modal.reading)
<1>a. modal \in Modals
  BY ModalIs DEF FormInv, Typed
<1>1. CASE UNCHANGED modal
  BY <1>1
<1>2. CASE Becomes([modal EXCEPT !.open = TRUE, !.amount = DefaultAmount]) /\ ~modal.open
  BY <1>2, <1>a DEF Becomes, Modals
<1>3. CASE \/ Becomes([modal EXCEPT !.open = FALSE, !.timer = TRUE])
           \/ Becomes([modal EXCEPT !.open = FALSE])
           \/ \E tab \in {"accredit", "prove", "subscribe"} : Becomes([modal EXCEPT !.tab = tab])
           \/ SubmitReturns
  BY <1>3, <1>a DEF Becomes, SubmitReturns, Modals
<1>4. CASE \/ Becomes(AfterReset)
           \/ \E amount \in Amounts : Becomes(AfterAmount(amount))
           \/ \E r \in accreditation.requests : OnAccredited(r)
  BY <1>4, <1>a DEF Becomes, AfterReset, AfterAmount, OnAccredited, Modals
<1>5. ASSUME NEW pkg, \/ PastePackage(pkg) \/ ChooseFile(pkg)
                      \/ FileArrives(pkg) \/ FileFails(pkg)
      PROVE  /\ modal'.handle = modal.handle
             /\ \/ modal'.amount = modal.amount
                \/ modal'.tab = "prove"
                     /\ (modal.tab = "accredit" \/ modal'.reading # modal.reading)
  BY <1>5, <1>a, PackageMoves
<1>6. ASSUME NEW run \in prover.runs, NEW verified \in BOOLEAN, ProofArrives(run, verified)
      PROVE  modal'.handle.amount = modal'.amount
  <2>1. run.amount = modal.amount
    BY DEF FormInv, RunsOfTheForm
  <2> DEFINE proof == [pkg |-> run.pkg, amount |-> run.amount, verified |-> verified]
             tab   == IF verified THEN "subscribe" ELSE modal.tab
  <2>2. modal' = [modal EXCEPT !.handle = proof, !.tab = tab] /\ proof.amount = run.amount
    BY <1>6 DEF ProofArrives
  <2> HIDE DEF proof, tab
  <2> QED
    BY <1>a, <2>1, <2>2 DEF Modals
<1> QED
  BY <1>1, <1>2, <1>3, <1>4, <1>5, <1>6, DialogMoves DEF FormInv

(***************************************************************************)
(* A proof that finishes late is never taken for one of another amount.    *)
(***************************************************************************)
THEOREM LateProofsAreOfTheForm == Spec => ProofArrivesForItsAmount
<1>1. FormInv /\ [Next]_vars =>
        [modal'.handle \notin {NoProof, modal.handle} =>
           modal'.handle.amount = modal'.amount]_modal
  BY HandleMoves
<1> QED
  BY FormInvHolds, <1>1, PTL DEF Spec, ProofArrivesForItsAmount

(***************************************************************************)
(* The form comes to keep a proof of another amount only by a package that *)
(* is loaded or by the dialog that reopens.                                *)
(***************************************************************************)
THEOREM EditsNeverLeaveAProof == Spec => StaleOnlyByPackage
<1>1. FormInv /\ [Next]_vars =>
        [Stale(modal') /\ ~Stale(modal) =>
           \/ modal'.tab = "prove"
                /\ (modal.tab = "accredit" \/ modal'.reading # modal.reading)
           \/ modal'.open # modal.open]_modal
  BY HandleMoves DEF Stale
<1> QED
  BY FormInvHolds, <1>1, PTL DEF Spec, StaleOnlyByPackage

-----------------------------------------------------------------------------
(***************************************************************************)
(* The issuer's commit and its answer.                                     *)
(***************************************************************************)
CommitInv == Typed /\ OneCommit /\ EarlierCommits /\ CommitStands

(***************************************************************************)
(* Nothing is committed from the page at the start.                        *)
(***************************************************************************)
LEMMA CommitInvInit == Init => CommitInv
<1> SUFFICES ASSUME Init PROVE CommitInv
  OBVIOUS
<1>1. /\ call["commit"] = Idle /\ \A c \in Callers : call[c] = Idle
      /\ chain.pending = {} /\ chain.applied = {}
      /\ console.committedEpoch = NoEpoch /\ ~console.refetching
  BY TheCallers DEF Init, CallsInit, ConsoleInit
<1>2. OneCommit /\ EarlierCommits
  BY <1>1 DEF OneCommit, EarlierCommits
<1>3. CommitStands
  BY <1>1 DEF CommitStands, CommitApplied, CommittedEpochIsOfTheTree, Idle
<1> QED
  BY <1>2, <1>3, TypedInit DEF CommitInv

(***************************************************************************)
(* Which calls there are, and whose.                                       *)
(***************************************************************************)
LEMMA SpentBudget ==
  ASSUME CallTyped, [Next]_vars
  PROVE  budget'["commit"] \in Nat /\ budget["commit"] \in Nat
         /\ budget'["commit"] <= budget["commit"]
<1>1. budget \in [Tasks -> Nat] /\ "commit" \in Tasks
  BY DEF CallTyped, Tasks
<1>2. CASE UNCHANGED budget
  BY <1>1, <1>2
<1>3. ASSUME NEW what \in Tasks, Spend(what)
      PROVE  budget'["commit"] \in Nat /\ budget["commit"] \in Nat
             /\ budget'["commit"] <= budget["commit"]
  <2>1. /\ budget[what] \in Nat /\ budget[what] > 0 /\ budget["commit"] \in Nat
        /\ budget' = [budget EXCEPT ![what] = @ - 1]
    BY <1>1, <1>3 DEF Spend
  <2> QED
    BY <1>1, <2>1
<1> QED
  BY <1>2, <1>3, BudgetMoves

(***************************************************************************)
(* The budget for commits goes down with a commit only.                    *)
(***************************************************************************)
LEMMA CommitsCounted ==
  ASSUME CallTyped, [Next]_vars
  PROVE  budget'["commit"] = budget["commit"] \/ OnCommit
<1>a. budget \in [Tasks -> Nat] /\ "commit" \in Tasks
  BY DEF CallTyped, Tasks
<1>0. ASSUME NEW what \in Tasks \ {"commit"}, Spend(what)
      PROVE  budget'["commit"] = budget["commit"]
  BY <1>0, <1>a DEF Spend
<1>1. CASE Network
  BY <1>1 DEF Network, NetworkNext, Land, GetAccount, Simulate, Send, PollOn
<1>2. CASE Console
  BY <1>0, <1>2
  DEF Console, ConsoleNext, ParseCsv, OnAdvance, Start, IssuerSigns, Sign,
      CommitReturns, CommitThrows, CommitRefetched, PoolRefetched, AdvanceEnds,
      DownloadPackage, EndPolling, EndByRejection, EndCall, Tasks, callVars
<1>3. CASE Investor
  <2>1. CASE SubmitThrows
    BY <2>1 DEF SubmitThrows, EndPolling, EndByRejection, EndCall
  <2>2. CASE WalletNext
    BY <1>0, <2>2 DEF WalletNext, PageAsks, Connect, Disconnect, ExtensionAnswers,
       SetAddress, AskingFails, SelectAccount, Tasks, callVars
  <2>3. CASE ModalNext
    BY <1>0, <2>1, <2>2, <2>3
    DEF ModalNext, OpenModal, CloseModal, Done, Reset, SelectTab, EnterAmount,
        RequestAccreditation, OnAccredited, AccreditationFails, RunInBrowser,
        Generate, RunFallback, GenerateAgain, ProofArrives, ProofFails, FileArrives, FileFails,
        OnSubmit, Start,
        SubmitReturns, EndPolling, EndCall, SignXdr, Sign, Tasks, callVars
  <2> QED
    BY <1>0, <1>3, <2>3 DEF Investor, PastePackage, ChooseFile, AccreditationCommitted, Tasks
<1>4. CASE Anyone
  BY <1>0, <1>4 DEF Anyone, PageNext, OpenPage, EventsArrive, TxProofArrives, RunCheck,
     VerdictArrives, CheckFails, Tasks, callVars
<1>5. CASE UNCHANGED vars
  BY <1>5 DEF vars, callVars
<1> QED
  BY <1>1, <1>2, <1>3, <1>4, <1>5 DEF Next

(***************************************************************************)
(* A call is over, or goes on with what it was started for, or was just    *)
(* started.                                                                *)
(***************************************************************************)
GoesOn(c) ==
  /\ call[c] # Idle
  /\ call'[c].tx.op = call[c].tx.op
  /\ call'[c].tx.n = call[c].tx.n
  /\ call'[c].tx.source = call[c].tx.source
  /\ call'[c].step = "poll" => call'[c].tx = call[c].tx
  /\ call[c].step = "poll" => call'[c].step = "poll"

(***************************************************************************)
(* A call that a step does not touch goes on.                              *)
(***************************************************************************)
LEMMA UntouchedGoesOn ==
  ASSUME NEW c \in Callers, call'[c] = call[c]
  PROVE  call'[c] = Idle \/ GoesOn(c)
  BY DEF GoesOn

(***************************************************************************)
(* A call that asks the network or the wallet goes on, and the others are  *)
(* untouched.                                                              *)
(***************************************************************************)
LEMMA StepGoesOn ==
  ASSUME CallTyped, NEW c \in Callers, Asks(c) \/ \E signer \in Accounts : Sign(c, signer)
  PROVE  GoesOn(c) /\ \A other \in Callers \ {c} : call'[other] = call[other]
<1>1. call[c] # Idle
  BY DEF Asks, GetAccount, Simulate, Send, PollOn, Advance, Sign, Idle
<1> DEFINE old == call[c]
<1>2. /\ old = [step |-> old.step, polls |-> old.polls, signer |-> old.signer, tx |-> old.tx]
      /\ old.tx = [n |-> old.tx.n, source |-> old.tx.source, seq |-> old.tx.seq,
                   op |-> old.tx.op]
  <2>1. old.tx \in Txs
    BY <1>1, CallFields
  <2> QED
    BY <1>1, <2>1, CallFields DEF Txs
<1>3. call \in [Callers -> Calls]
  BY DEF CallTyped
<1>4. CASE GetAccount(c)
  <2> DEFINE seq == chain.seq[old.tx.source] + 1
             tx  == [old.tx EXCEPT !.seq = seq]
             new == [old EXCEPT !.step = "simulate", !.tx = tx]
  <2>1. call' = [call EXCEPT ![c] = new] /\ old.step = "account"
    BY <1>3, <1>4 DEF GetAccount
  <2>2. /\ tx.op = old.tx.op /\ tx.n = old.tx.n /\ tx.source = old.tx.source
    <3> HIDE DEF seq, old
    <3> QED
      BY <1>2
  <2>3. new.tx = tx /\ new.step = "simulate"
    <3> HIDE DEF tx, old
    <3> QED
      BY <1>2
  <2> HIDE DEF tx, new
  <2>4. call'[c] = new /\ \A other \in Callers \ {c} : call'[other] = call[other]
    BY <1>3, <2>1
  <2> QED
    BY <1>1, <2>1, <2>2, <2>3, <2>4 DEF GoesOn
<1>5. CASE Simulate(c) \/ Send(c) \/ \E signer \in Accounts : Sign(c, signer)
  <2> DEFINE Moved(step, signer) ==
               /\ call' = [call EXCEPT ![c] = [old EXCEPT !.step = step, !.signer = signer]]
               /\ old.step # "poll"
  <2>1. PICK step \in {"sign", "poll", "send"} : \E signer : Moved(step, signer)
    <3>1. CASE Simulate(c)
      <4>1. Moved("sign", old.signer)
        BY <1>2, <1>3, <3>1 DEF Simulate, Advance
      <4> HIDE DEF Moved
      <4> QED
        BY <4>1
    <3>2. CASE Send(c)
      <4>1. Moved("poll", old.signer)
        BY <1>2, <1>3, <3>2 DEF Send, Advance
      <4> HIDE DEF Moved
      <4> QED
        BY <4>1
    <3>3. ASSUME NEW signer \in Accounts, Sign(c, signer)
          PROVE  Moved("send", signer)
      BY <1>3, <3>3 DEF Sign
    <3> HIDE DEF Moved
    <3> QED
      BY <1>5, <3>1, <3>2, <3>3
  <2>4. PICK signer : Moved(step, signer)
    BY <2>1
  <2> DEFINE new == [old EXCEPT !.step = step, !.signer = signer]
  <2>2. new.tx = old.tx
    BY <1>2
  <2> HIDE DEF new
  <2>3. call'[c] = new /\ \A other \in Callers \ {c} : call'[other] = call[other]
    BY <1>3, <2>4 DEF new
  <2> QED
    BY <1>1, <2>4, <2>2, <2>3 DEF GoesOn
<1>6. CASE PollOn(c)
  <2> DEFINE new == [old EXCEPT !.polls = @ + 1]
  <2>1. call' = [call EXCEPT ![c] = new] /\ old.step = "poll"
    BY <1>3, <1>6 DEF PollOn
  <2>2. new.tx = old.tx /\ new.step = old.step
    <3> HIDE DEF old
    <3> QED
      BY <1>2
  <2> HIDE DEF new
  <2>3. call'[c] = new /\ \A other \in Callers \ {c} : call'[other] = call[other]
    BY <1>3, <2>1
  <2> QED
    BY <1>1, <2>1, <2>2, <2>3 DEF GoesOn
<1> QED
  BY <1>4, <1>5, <1>6 DEF Asks

(***************************************************************************)
(* What a call that starts was idle before, and what it is after.          *)
(***************************************************************************)
LEMMA StartLeaves ==
  ASSUME CallTyped, NEW c \in Callers, NEW source, NEW op, Start(c, source, op)
  PROVE  /\ call'[c] = [step |-> "account", polls |-> 0, signer |-> source,
                        tx |-> [n |-> budget[c], source |-> source, seq |-> 0, op |-> op]]
         /\ call'[c].tx.op = op
         /\ \A other \in Callers \ {c} : call'[other] = call[other]
         /\ call[c] = Idle
  BY DEF Start, CallTyped

(***************************************************************************)
(* What a step makes of a call.                                            *)
(***************************************************************************)
LEMMA CallGoes ==
  ASSUME Typed, [Next]_vars, NEW c \in Callers
  PROVE  \/ call'[c] = Idle
         \/ GoesOn(c)
         \/ c = "subscribe" /\ OnSubmit
         \/ c = "commit" /\ OnCommit
         \/ c = "advance" /\ OnAdvance
<1>a. CallTyped /\ call \in [Callers -> Calls]
  BY DEF Typed, CallTyped
<1>b. wallet.address # NoAddress => wallet.address \in Accounts
  BY ActorAssumption DEF Typed, WalletTyped
<1>1. CASE UNCHANGED call
  BY <1>1, UntouchedGoesOn
<1>2. ASSUME NEW d \in Callers, Ends(d)
      PROVE  call'[c] = Idle \/ GoesOn(c)
  <2>1. call'[c] = Idle \/ call'[c] = call[c]
    BY <1>2, <1>a DEF Ends
  <2> QED
    BY <2>1, UntouchedGoesOn
<1>3. ASSUME NEW d \in Callers, Asks(d) \/ \E signer \in Accounts : Sign(d, signer)
      PROVE  call'[c] = Idle \/ GoesOn(c)
  <2>1. GoesOn(d) /\ \A other \in Callers \ {d} : call'[other] = call[other]
    BY <1>a, <1>3, StepGoesOn
  <2> QED
    BY <2>1, UntouchedGoesOn
<1>4. CASE \E d \in {"commit", "advance"} : Sign(d, Issuer)
  BY <1>3, <1>4, TheCallers, ActorAssumption
<1>5. CASE SignXdr("subscribe")
  BY <1>3, <1>5, <1>b, TheCallers DEF SignXdr
<1>6. ASSUME NEW d \in Callers, NEW source, NEW op, Start(d, source, op)
      PROVE  c = d \/ call'[c] = Idle \/ GoesOn(c)
  BY ZenonT(60), <1>a, <1>6, StartLeaves, UntouchedGoesOn
<1>7. CASE OnSubmit
  BY <1>6, <1>7, TheCallers DEF OnSubmit
<1>8. CASE OnCommit
  BY <1>6, <1>8, TheCallers DEF OnCommit
<1>9. CASE OnAdvance
  BY <1>6, <1>9, TheCallers DEF OnAdvance
<1> QED
  BY <1>1, <1>2, <1>3, <1>4, <1>5, <1>7, <1>8, <1>9, CallMoves

(***************************************************************************)
(* There is one commit at a time, and its number is above the budget that  *)
(* is left.                                                                *)
(***************************************************************************)
LEMMA CommitStarts ==
  ASSUME Typed, OnCommit
  PROVE  /\ call["commit"] = Idle /\ ~console.refetching
         /\ call'["commit"].step = "account"
         /\ call'["commit"].tx.op.kind = "commit" /\ call'["commit"].tx.op.leaves = Tree
         /\ call'["commit"].tx.source = Issuer
         /\ call'["commit"].tx.n = budget["commit"]
         /\ budget'["commit"] = budget["commit"] - 1 /\ budget["commit"] \in Nat
         /\ UNCHANGED chain
         /\ console' = [console EXCEPT !.raced = FALSE]
<1>a. CallTyped /\ budget \in [Tasks -> Nat] /\ "commit" \in Tasks
  BY DEF Typed, CallTyped, Tasks
<1>1. Start("commit", Issuer, [kind |-> "commit", leaves |-> Tree])
  BY DEF OnCommit
<1>2. call'["commit"] = [step |-> "account", polls |-> 0, signer |-> Issuer,
                         tx |-> [n |-> budget["commit"], source |-> Issuer, seq |-> 0,
                                 op |-> [kind |-> "commit", leaves |-> Tree]]]
      /\ call["commit"] = Idle
  BY <1>a, <1>1, StartLeaves, TheCallers
<1>3. budget'["commit"] = budget["commit"] - 1 /\ budget["commit"] \in Nat
  BY <1>a, <1>1 DEF Start, Spend
<1> QED
  BY <1>2, <1>3 DEF OnCommit, Committing

(***************************************************************************)
(* Every step keeps the commits one at a time.                             *)
(***************************************************************************)
LEMMA OneCommitNext == Typed /\ OneCommit /\ [Next]_vars => OneCommit'
<1> SUFFICES ASSUME Typed, OneCommit, [Next]_vars PROVE OneCommit'
  OBVIOUS
<1>a. CallTyped /\ "commit" \in Callers
  BY TheCallers DEF Typed
<1>1. ASSUME NEW c \in Callers, call'[c] # Idle, call'[c].tx.op.kind = "commit"
      PROVE  c = "commit"
  <2>1. CASE GoesOn(c)
    BY <1>1, <2>1 DEF GoesOn, OneCommit, IsCommit
  <2>2. CASE c = "subscribe" /\ OnSubmit
    <3> DEFINE op == [kind |-> "subscribe", proof |-> modal.handle, amount |-> modal.amount]
    <3>0. Start(c, wallet.address, op) /\ op.kind = "subscribe"
      BY <2>2 DEF OnSubmit
    <3> HIDE DEF op
    <3>2. call'[c].tx.op = op
      BY <1>a, <1>1, <3>0, StartLeaves
    <3>1. call'[c].tx.op.kind = "subscribe"
      BY <3>0, <3>2
    <3> QED
      BY <1>1, <3>1
  <2>3. CASE c = "advance" /\ OnAdvance
    <3> DEFINE op == [kind |-> "advance"]
    <3>0. Start(c, Issuer, op) /\ op.kind = "advance"
      BY <2>3 DEF OnAdvance
    <3> HIDE DEF op
    <3>2. call'[c].tx.op = op
      BY <1>a, <1>1, <3>0, StartLeaves
    <3>1. call'[c].tx.op.kind = "advance"
      BY <3>0, <3>2
    <3> QED
      BY <1>1, <3>1
  <2> QED
    BY <1>1, <2>1, <2>2, <2>3, CallGoes
<1>2. ASSUME call'["commit"] # Idle
      PROVE  /\ call'["commit"].tx.op.kind = "commit"
             /\ call'["commit"].tx.source = Issuer
             /\ call'["commit"].tx.n = budget'["commit"] + 1
             /\ ~console'.refetching
  <2>1. CASE OnCommit
    <3>1. ~console'.refetching
      BY <2>1, CommitStarts DEF Typed, ConsoleTyped
    <3> QED
      BY <2>1, <3>1, CommitStarts
  <2>2. CASE GoesOn("commit")
    <3>1. /\ call["commit"].tx.op.kind = "commit" /\ call["commit"].tx.source = Issuer
          /\ call["commit"].tx.n = budget["commit"] + 1 /\ ~console.refetching
      BY <2>2 DEF GoesOn, OneCommit, IsCommit
    <3>2. ~OnCommit
      BY <2>2, CommitStarts DEF GoesOn
    <3>3. budget'["commit"] = budget["commit"]
      BY <1>a, <3>2, CommitsCounted
    <3>4. ~CommitReturns
      BY <1>2, <1>a DEF CommitReturns, EndPolling, EndCall, CallTyped
    <3>5. ~console'.refetching
      BY <3>1, <3>2, <3>4, ConsoleMoves
      DEF consoleVars, ParseCsv, AfterCsv, CommitRefetched, PoolRefetched,
          DownloadPackage, ConsoleOvertaken, Typed, ConsoleTyped
    <3> QED
      BY <2>2, <3>1, <3>3, <3>5 DEF GoesOn
  <2> QED
    BY <1>2, <1>a, <2>1, <2>2, CallGoes
<1> QED
  BY <1>1, <1>2 DEF OneCommit, IsCommit

(***************************************************************************)
(* What is sent has the number of its commit, and the running commit a     *)
(* smaller one than those before it until it is sent.                      *)
(***************************************************************************)
LEMMA EarlierCommitsNext ==
  Typed /\ OneCommit /\ EarlierCommits /\ [Next]_vars => EarlierCommits'
<1> SUFFICES ASSUME Typed, OneCommit, EarlierCommits, [Next]_vars,
                    NEW tx \in chain'.pending \cup chain'.applied, tx.op.kind = "commit"
             PROVE  /\ tx.source = Issuer
                    /\ tx.n > budget'["commit"]
                    /\ call'["commit"] # Idle /\ call'["commit"].step # "poll" =>
                         tx.n > budget'["commit"] + 1
  BY DEF EarlierCommits, IsCommit
<1>a. ChainTyped /\ CallTyped /\ "commit" \in Callers
  BY TheCallers DEF Typed
<1>b. budget["commit"] \in Nat /\ budget'["commit"] \in Nat
  BY <1>a, SpentBudget
<1>1. tx \in chain.pending \cup chain.applied \/ \E c \in Callers : Sends(c) /\ tx = call[c].tx
  <2>1. CASE UNCHANGED chain
    BY <2>1
  <2>2. ASSUME NEW other \in chain.pending, NEW fits \in BOOLEAN, Land(other, fits)
        PROVE  tx \in chain.pending \cup chain.applied
    BY <1>a, <2>2, LandResult DEF StillPending
  <2>3. CASE Serves
    <3>1. PICK roster : ServiceCommits(roster)
      BY <2>3 DEF Serves, AccreditationCommitted
    <3> QED
      BY <1>a, <3>1, ServeResult DEF StillPending
  <2>4. ASSUME NEW c \in Callers, Sends(c)
        PROVE  tx \in chain.pending \cup chain.applied \/ tx = call[c].tx
    BY <1>a, <2>4, SendResult
  <2> QED
    BY <1>a, <2>1, <2>2, <2>3, <2>4, ChainMoves DEF Lands
<1>2. CASE tx \in chain.pending \cup chain.applied
  <2>1. /\ tx.source = Issuer /\ tx.n > budget["commit"] /\ tx.n \in Nat
        /\ call["commit"] # Idle /\ call["commit"].step # "poll" => tx.n > budget["commit"] + 1
    BY <1>a, <1>2, ChainFields, TxFields DEF EarlierCommits, IsCommit
  <2>2. CASE OnCommit
    BY <1>b, <2>1, <2>2, CommitStarts
  <2>3. CASE ~OnCommit
    <3>1. budget'["commit"] = budget["commit"]
      BY <1>a, <2>3, CommitsCounted
    <3>2. call'["commit"] = Idle \/ GoesOn("commit")
      BY <1>a, <2>3, CallGoes
    <3> QED
      BY <2>1, <3>1, <3>2 DEF GoesOn
  <2> QED
    BY <2>2, <2>3
<1>3. ASSUME NEW c \in Callers, Sends(c), tx = call[c].tx
      PROVE  /\ tx.source = Issuer
             /\ tx.n > budget'["commit"]
             /\ call'["commit"] = Idle \/ call'["commit"].step = "poll"
  <2>1. call[c] # Idle
    BY <1>3 DEF Sends, Idle
  <2>2. c = "commit"
    BY <1>3, <2>1 DEF OneCommit, IsCommit
  <2>3. ~OnCommit
    BY <2>1, <2>2, CommitStarts
  <2>4. budget'["commit"] = budget["commit"]
    BY <1>a, <2>3, CommitsCounted
  <2>5. tx.source = Issuer /\ tx.n = budget["commit"] + 1
    BY <1>3, <2>1, <2>2 DEF OneCommit
  <2> QED
    BY <1>3, <1>b, <2>2, <2>4, <2>5 DEF Sends
<1> QED
  BY <1>1, <1>2, <1>3

(***************************************************************************)
(* What a step does to the page's tree and to the epoch it shows.          *)
(***************************************************************************)
LEMMA TreeMoves ==
  ASSUME Typed, [Next]_vars
  PROVE  \/ /\ Tree' = Tree
            /\ console'.raced = console.raced \/ console'.raced
            /\ console'.committedEpoch = console.committedEpoch
            /\ console'.excused = console.excused
         \/ /\ console'.committedEpoch = NoEpoch
            /\ console'.raced = (console.raced \/ Committing)
            /\ call' = call
         \/ OnCommit
         \/ \E fresh \in BOOLEAN : CommitRefetched(fresh)
<1>a. console = [rows |-> console.rows, committedEpoch |-> console.committedEpoch,
                 poolEpoch |-> console.poolEpoch, refetching |-> console.refetching,
                 raced |-> console.raced, excused |-> console.excused]
      /\ console.raced \in BOOLEAN
  BY DEF Typed, ConsoleTyped
<1> DEFINE raced == console.raced \/ Committing
<1>b. raced \in BOOLEAN /\ (console.raced => raced)
  OBVIOUS
<1>1. CASE UNCHANGED consoleVars
  BY <1>1 DEF consoleVars, Tree
<1>2. ASSUME NEW rows \in Csvs, ParseCsv(rows)
      PROVE  /\ console'.committedEpoch = NoEpoch /\ console'.raced = raced
             /\ call' = call
  <2>1. console' = [console EXCEPT !.rows = rows, !.committedEpoch = NoEpoch,
                                   !.raced = raced, !.excused = FALSE]
        /\ call' = call
    BY <1>2 DEF ParseCsv, AfterCsv
  <2> HIDE DEF raced
  <2> QED
    BY <1>a, <2>1
<1>3. CASE CommitReturns \/ PoolRefetched \/ (ConsoleOvertaken /\ UNCHANGED files)
  <2>1. \/ console' = [console EXCEPT !.refetching = TRUE]
        \/ console' = [console EXCEPT !.poolEpoch = Epoch]
        \/ console' = [console EXCEPT !.raced = raced]
    BY <1>3 DEF CommitReturns, PoolRefetched, ConsoleOvertaken
  <2> HIDE DEF raced
  <2>2. /\ console'.rows = console.rows
        /\ console'.raced = console.raced \/ console'.raced = raced
        /\ console'.committedEpoch = console.committedEpoch
        /\ console'.excused = console.excused
    BY <1>a, <2>1
  <2>3. console'.raced = console.raced \/ console'.raced
    BY <1>a, <1>b, <2>2
  <2> QED
    BY <2>2, <2>3 DEF Tree
<1>4. ASSUME NEW i \in DOMAIN console.rows, DownloadPackage(i)
      PROVE  console' = console
  BY <1>4 DEF DownloadPackage
<1> QED
  BY <1>1, <1>2, <1>3, <1>4, ConsoleMoves DEF Tree

(***************************************************************************)
(* With no commit pending, the current roster is changed by the service    *)
(* only.                                                                   *)
(***************************************************************************)
LEMMA RosterMoves ==
  ASSUME Typed, [Next]_vars, \A tx \in chain.pending : ~IsCommit(tx)
  PROVE  Roster' = Roster \/ Serves
<1>a. ChainTyped /\ CallTyped
  BY DEF Typed
<1>1. ASSUME chain'.rosters = chain.rosters
      PROVE  Roster' = Roster
  BY <1>1 DEF Roster, Epoch
<1>2. ASSUME chain'.rosters = Append(chain.rosters, Roster)
      PROVE  Roster' = Roster
  BY <1>a, <1>2, ChainFields DEF Roster, Epoch
<1>3. ASSUME NEW tx \in chain.pending, NEW fits \in BOOLEAN, Land(tx, fits)
      PROVE  Roster' = Roster
  <2>1. tx.op.kind # "commit"
    BY DEF IsCommit
  <2>2. chain'.rosters = chain.rosters \/ chain'.rosters = Append(chain.rosters, Roster)
    BY <1>a, <1>3, <2>1, LandResult
  <2> QED
    BY <1>1, <1>2, <2>2
<1>4. ASSUME NEW c \in Callers, Sends(c)
      PROVE  Roster' = Roster
  <2>1. chain'.rosters = chain.rosters
    BY <1>a, <1>4, SendResult
  <2> QED
    BY <1>1, <2>1
<1>5. CASE UNCHANGED chain
  BY <1>5 DEF Roster, Epoch
<1> QED
  BY <1>a, <1>3, <1>4, <1>5, ChainMoves DEF Lands

(***************************************************************************)
(* A commit that was applied stands until its answer: nothing else that    *)
(* the issuer sent can change the roster, and what the service commits is  *)
(* noted.                                                                  *)
(***************************************************************************)
LEMMA AppliedCommitStands ==
  ASSUME CommitInv, [Next]_vars, CommitApplied, CommitApplied'
  PROVE  /\ \A tx \in chain'.pending : ~IsCommit(tx)
         /\ console'.raced \/ Roster' = Tree'
<1>a. /\ Typed /\ ChainTyped /\ CallTyped /\ OneCommit /\ "commit" \in Callers
      /\ \A tx \in chain.pending : ~IsCommit(tx)
      /\ console.raced \/ Roster = Tree
  BY TheCallers DEF CommitInv, CommitStands, Typed
<1>b. console.refetching => call["commit"] = Idle
  BY <1>a DEF OneCommit
<1>c. Committing
  BY DEF CommitApplied, Committing, Idle
<1>d. ~OnCommit
  BY <1>c DEF OnCommit
<1>1. \A tx \in chain'.pending : ~IsCommit(tx)
  <2>1. chain'.pending \subseteq chain.pending
        \/ \E c \in Callers : Sends(c) /\ chain'.pending = chain.pending \cup {call[c].tx}
    <3>1. CASE UNCHANGED chain
      BY <3>1
    <3>2. ASSUME NEW tx \in chain.pending, NEW fits \in BOOLEAN, Land(tx, fits)
          PROVE  chain'.pending \subseteq chain.pending
      BY <1>a, <3>2, LandResult DEF StillPending
    <3>3. CASE Serves
      <4>1. PICK roster : ServiceCommits(roster)
        BY <3>3 DEF Serves, AccreditationCommitted
      <4> QED
        BY <1>a, <4>1, ServeResult DEF StillPending
    <3>4. ASSUME NEW c \in Callers, Sends(c)
          PROVE  chain'.pending = chain.pending \cup {call[c].tx}
      BY <1>a, <3>4, SendResult
    <3> QED
      BY <1>a, <3>1, <3>2, <3>3, <3>4, ChainMoves DEF Lands
  <2>2. ASSUME NEW c \in Callers, Sends(c)
        PROVE  ~IsCommit(call[c].tx)
    <3>1. call[c] # Idle /\ call[c].step = "send"
      BY <2>2 DEF Sends, Idle
    <3>2. c # "commit"
      BY <1>b, <3>1 DEF CommitApplied
    <3> QED
      BY <1>a, <3>1, <3>2 DEF OneCommit
  <2> QED
    BY <1>a, <2>1, <2>2
<1>2. console'.raced \/ Roster' = Tree'
  <2>1. CASE Serves
    <3> DEFINE raced == console.raced \/ Committing
    <3>1. console' = [console EXCEPT !.raced = raced] /\ raced
      BY <1>c, <2>1 DEF Serves, ConsoleOvertaken
    <3> HIDE DEF raced
    <3> QED
      BY <1>a, <3>1 DEF Typed, ConsoleTyped
  <2>2. CASE Roster' = Roster
    <3>1. \A fresh \in BOOLEAN : ~CommitRefetched(fresh)
      <4> SUFFICES ASSUME NEW fresh \in BOOLEAN, CommitRefetched(fresh) PROVE FALSE
        OBVIOUS
      <4>1. console.refetching /\ ~console'.refetching /\ call' = call
        BY <1>a DEF CommitRefetched, callVars, Typed, ConsoleTyped
      <4>2. call'["commit"] = Idle
        BY <1>b, <4>1
      <4> QED
        BY <4>1, <4>2 DEF CommitApplied, Idle
    <3>2. \/ Tree' = Tree /\ (console'.raced = console.raced \/ console'.raced)
          \/ console'.raced = (console.raced \/ Committing)
      BY <1>a, <1>d, <3>1, TreeMoves
    <3> QED
      BY <1>a, <1>c, <2>2, <3>2
  <2> QED
    BY <1>a, <2>1, <2>2, RosterMoves
<1> QED
  BY <1>1, <1>2

(***************************************************************************)
(* A commit that is applied leaves no other pending: each of the issuer's  *)
(* has the number that it took.                                            *)
(***************************************************************************)
LEMMA CommitIsApplied ==
  ASSUME CommitInv, [Next]_vars, ~CommitApplied, CommitApplied'
  PROVE  /\ \A tx \in chain'.pending : ~IsCommit(tx)
         /\ console'.raced \/ Roster' = Tree'
<1>a. /\ Typed /\ ChainTyped /\ CallTyped /\ OneCommit /\ EarlierCommits
      /\ "commit" \in Callers
      /\ call["commit"] # Idle /\ ~console.raced => call["commit"].tx.op.leaves = Tree
  BY TheCallers DEF CommitInv, CommitStands, Typed
<1> DEFINE own == call["commit"].tx
<1>1. ~CommitReturns
  BY DEF CommitReturns, Returns, CommitApplied
<1>2. ~console'.refetching
  <2>1. ~console.refetching
    BY DEF CommitApplied
  <2> QED
    BY <1>a, <1>1, <2>1, ConsoleMoves
    DEF consoleVars, ParseCsv, AfterCsv, OnCommit, CommitRefetched, PoolRefetched,
        DownloadPackage, ConsoleOvertaken, Typed, ConsoleTyped
<1>3. call'["commit"].step = "poll" /\ call'["commit"].tx \in chain'.applied
  BY <1>2 DEF CommitApplied
<1>4. ~OnCommit
  BY <1>a, <1>3, CommitStarts
<1>5. GoesOn("commit") /\ call["commit"] # Idle /\ call'["commit"].tx = own
  <2>1. call'["commit"] # Idle
    BY <1>3 DEF Idle
  <2> QED
    BY <1>a, <1>3, <1>4, <2>1, CallGoes DEF GoesOn
<1>6. own \notin chain.applied
  <2>1. CASE call["commit"].step = "poll"
    BY <2>1 DEF CommitApplied
  <2>2. CASE call["commit"].step # "poll"
    <3>1. own.n = budget["commit"] + 1 /\ IsCommit(own) /\ budget["commit"] \in Nat
      BY <1>a, <1>5, SpentBudget DEF OneCommit
    <3> QED
      BY <1>a, <1>5, <2>2, <3>1 DEF EarlierCommits
  <2> QED
    BY <2>1, <2>2
<1>7. PICK tx \in chain.pending, fits \in BOOLEAN : Land(tx, fits) /\ UNCHANGED consoleVars
  <2>1. chain'.applied # chain.applied
    BY <1>3, <1>5, <1>6
  <2>2. ~Serves
    <3>1. ASSUME NEW roster, ServiceCommits(roster)
          PROVE  FALSE
      BY <1>a, <2>1, <3>1, ServeResult
    <3> QED
      BY <3>1 DEF Serves, AccreditationCommitted
  <2>3. ASSUME NEW c \in Callers, Sends(c)
        PROVE  FALSE
    BY <1>a, <2>1, <2>3, SendResult
  <2> QED
    BY <1>a, <2>1, <2>2, <2>3, ChainMoves DEF Lands
<1>8. tx = own /\ fits
  BY <1>a, <1>3, <1>5, <1>6, <1>7, LandResult
<1>9. own.op.kind = "commit" /\ own.source = Issuer
  BY <1>a, <1>5 DEF OneCommit, IsCommit
<1>10. \A other \in chain'.pending : ~IsCommit(other)
  <2> SUFFICES ASSUME NEW other \in chain'.pending, IsCommit(other) PROVE FALSE
    OBVIOUS
  <2>1. other \in chain.pending /\ (other.source # tx.source \/ other.seq > tx.seq)
    BY <1>a, <1>7, LandResult DEF StillPending
  <2>2. other.source = Issuer
    BY <1>a, <2>1 DEF EarlierCommits
  <2>3. other.seq = chain.seq[Issuer] + 1 /\ tx.seq = chain.seq[Issuer] + 1
    BY <1>a, <1>8, <1>9, <2>1, <2>2 DEF ChainTyped
  <2>4. other.seq \in Nat
    BY <1>a, <2>1, ChainFields, TxFields
  <2> QED
    BY <1>8, <1>9, <2>1, <2>2, <2>3, <2>4
<1>11. Roster' = own.op.leaves
  <2>1. chain'.rosters = Append(chain.rosters, own.op.leaves)
    BY <1>a, <1>7, <1>8, <1>9, LandResult
  <2> QED
    BY <1>a, <2>1, ChainFields DEF Roster, Epoch
<1>12. UNCHANGED console /\ Tree' = Tree
  BY <1>7 DEF consoleVars, Tree
<1> QED
  BY <1>a, <1>5, <1>10, <1>11, <1>12

(***************************************************************************)
(* Every step keeps the epoch on the page one that had the page's tree as  *)
(* its roster.                                                             *)
(***************************************************************************)
LEMMA CommitStandsNext == CommitInv /\ [Next]_vars => CommitStands'
<1> SUFFICES ASSUME CommitInv, [Next]_vars PROVE CommitStands'
  OBVIOUS
<1>a. Typed /\ OneCommit /\ CommitStands /\ "commit" \in Callers /\ ConsoleTyped
      /\ ChainTyped
  BY TheCallers DEF CommitInv, Typed
<1>1. ASSUME call'["commit"] # Idle, ~console'.raced
      PROVE  call'["commit"].tx.op.leaves = Tree'
  <2>1. CASE OnCommit
    <3>1. Tree' = Tree
      BY <1>a, <2>1, CommitStarts DEF ConsoleTyped, Tree
    <3> QED
      BY <1>a, <2>1, <3>1, CommitStarts
  <2>2. CASE ~OnCommit
    <3>1. call["commit"] # Idle /\ call'["commit"].tx.op = call["commit"].tx.op
      BY <1>1, <1>a, <2>2, CallGoes DEF GoesOn
    <3>2. Committing
      BY <3>1 DEF Committing
    <3>3. \A fresh \in BOOLEAN : ~CommitRefetched(fresh)
      BY <1>a, <3>1 DEF CommitRefetched, OneCommit
    <3>4. Tree' = Tree /\ ~console.raced
      BY <1>1, <1>a, <2>2, <3>2, <3>3, TreeMoves
    <3> QED
      BY <1>a, <3>1, <3>4 DEF CommitStands
  <2> QED
    BY <2>1, <2>2
<1>2. ASSUME CommitApplied'
      PROVE  /\ \A tx \in chain'.pending : ~IsCommit(tx)
             /\ console'.raced \/ Roster' = Tree'
  BY <1>2, AppliedCommitStands, CommitIsApplied
<1>3. ASSUME console'.committedEpoch # NoEpoch, ~console'.excused
      PROVE  chain'.rosters[console'.committedEpoch] = Tree'
  <2>1. \A e \in 1..Epoch : chain'.rosters[e] = chain.rosters[e]
    BY <1>a, RostersStay
  <2>2. CASE \/ /\ Tree' = Tree
                /\ console'.committedEpoch = console.committedEpoch
                /\ console'.excused = console.excused
             \/ OnCommit
    <3>1. /\ Tree' = Tree /\ console'.committedEpoch = console.committedEpoch
          /\ console'.excused = console.excused
      BY <1>a, <2>2, CommitStarts DEF ConsoleTyped, Tree
    <3>2. console.committedEpoch \in 1..Epoch
      BY <1>3, <1>a, <3>1, ChainFields DEF ConsoleTyped, NoEpoch
    <3>3. chain.rosters[console.committedEpoch] = Tree
      BY <1>3, <1>a, <3>1 DEF CommitStands, CommittedEpochIsOfTheTree
    <3> QED
      BY <2>1, <3>1, <3>2, <3>3
  <2>3. ASSUME NEW fresh \in BOOLEAN, CommitRefetched(fresh)
        PROVE  chain'.rosters[console'.committedEpoch] = Tree'
    <3> DEFINE epoch   == IF fresh THEN Epoch ELSE console.poolEpoch
               excused == console.raced \/ ~fresh
    <3>1. /\ console' = [console EXCEPT !.refetching = FALSE, !.poolEpoch = epoch,
                                        !.committedEpoch = epoch, !.excused = excused]
          /\ console.refetching /\ UNCHANGED chain
      BY <2>3 DEF CommitRefetched, callVars
    <3> HIDE DEF epoch, excused
    <3>2. /\ console'.committedEpoch = epoch /\ console'.excused = excused
          /\ console'.rows = console.rows
      BY <1>a, <3>1 DEF ConsoleTyped
    <3>3. fresh /\ ~console.raced /\ epoch = Epoch
      BY <1>3, <3>2 DEF excused, epoch
    <3>4. Roster = Tree
      BY <1>a, <3>1, <3>3 DEF CommitStands, CommitApplied
    <3> QED
      BY <3>1, <3>2, <3>3, <3>4 DEF Roster, Tree
  <2> QED
    BY <1>3, <1>a, <2>2, <2>3, TreeMoves
<1> QED
  BY <1>1, <1>2, <1>3 DEF CommitStands, CommittedEpochIsOfTheTree

(***************************************************************************)
(* The epoch that the page calls committed had the tree of the page as its *)
(* roster, so that the packages it writes can be used: a commit of which   *)
(* the answer is late, or that was reported as failed, does not change it. *)
(***************************************************************************)
THEOREM CommittedEpochHadTheTree == Spec => []CommittedEpochIsOfTheTree
<1>1. CommitInv /\ [Next]_vars => CommitInv'
  BY TypedNext, OneCommitNext, EarlierCommitsNext, CommitStandsNext DEF CommitInv
<1>2. CommitInv => CommittedEpochIsOfTheTree
  BY DEF CommitInv, CommitStands
<1> QED
  BY CommitInvInit, <1>1, <1>2, PTL DEF Spec

-----------------------------------------------------------------------------
(***************************************************************************)
(* The verify page.  Only its own handlers change it, and none of them     *)
(* touches the chain.                                                      *)
(***************************************************************************)
LEMMA PageMoves ==
  ASSUME [Next]_vars
  PROVE  UNCHANGED page \/ (PageNext /\ UNCHANGED chain)
<1>1. CASE Network
  BY <1>1 DEF Network, browserVars
<1>2. CASE Console
  BY <1>2 DEF Console, browserVars
<1>3. CASE Investor
  BY <1>3 DEF Investor
<1>4. CASE Anyone
  BY <1>4 DEF Anyone, PageNext, OpenPage, EventsArrive, TxProofArrives, RunCheck,
     VerdictArrives, CheckFails, callVars
<1>5. CASE UNCHANGED vars
  BY <1>5 DEF vars, browserVars
<1> QED
  BY <1>1, <1>2, <1>3, <1>4, <1>5 DEF Next

(***************************************************************************)
(* What the page looks at, and what it shows, is of its key.               *)
(***************************************************************************)
LEMMA TargetIsOfTheKey ==
  ASSUME PageFits(page, chain.applied), Found(Target)
  PROVE  IsOf(page.key, chain.applied, Target)
<1>1. CASE page.sub # NoTx
  <2>1. Target = page.sub
    BY <1>1 DEF Target
  <2> QED
    BY <2>1 DEF PageFits
<1>2. CASE page.sub = NoTx /\ page.key.by = "hash"
  <2>1. Target = page.key.of
    BY <1>2 DEF Target
  <2> QED
    BY <1>2, <2>1 DEF IsOf, Found, Matches
<1>3. CASE page.sub = NoTx /\ page.key.by # "hash"
  <2>1. Target = NoTx
    BY <1>3 DEF Target
  <2> QED
    BY <2>1 DEF IsOf
<1> QED
  BY <1>1, <1>2, <1>3

(***************************************************************************)
(* What the page shows is of its key, if it shows anything.                *)
(***************************************************************************)
LEMMA ShownIsOfTheKey ==
  ASSUME PageFits(page, chain.applied)
  PROVE  IsOf(page.key, chain.applied, Shown)
<1>1. CASE Target \in page.proofs
  BY <1>1 DEF Shown, PageFits
<1>2. CASE Target \notin page.proofs
  BY <1>2 DEF Shown, IsOf
<1> QED
  BY <1>1, <1>2

(***************************************************************************)
(* A page stays fit when it takes up something that is of its key, when it *)
(* lets something go, and when more is applied.                            *)
(***************************************************************************)
LEMMA FitsOnward ==
  ASSUME NEW p, NEW txs, NEW more, txs \subseteq more, PageFits(p, txs)
  PROVE  PageFits(p, more)
<1>1. \A tx : IsOf(p.key, txs, tx) => IsOf(p.key, more, tx)
  BY DEF IsOf, Subscriptions
<1> QED
  BY <1>1 DEF PageFits

(***************************************************************************)
(* A page of the same key that holds only what is of that key fits.        *)
(***************************************************************************)
LEMMA FitsWith ==
  ASSUME NEW p, NEW txs, PageFits(p, txs), NEW sub, NEW proofs, NEW checks, NEW verifying,
         NEW verdict,
         IsOf(p.key, txs, sub),
         \A tx \in proofs : IsOf(p.key, txs, tx),
         \A check \in checks : check.via \in Vias /\ IsOf(p.key, txs, check.tx),
         verdict = [via \in Vias |-> verdict[via]],
         \A via \in Vias : IsOf(p.key, txs, verdict[via])
  PROVE  PageFits([key |-> p.key, sub |-> sub, proofs |-> proofs, checks |-> checks,
                   verifying |-> verifying, verdict |-> verdict], txs)
  BY DEF PageFits

(***************************************************************************)
(* Every step keeps what is on the page of the page's key.                 *)
(***************************************************************************)
LEMMA PageIsOfItsKeyNext == Typed /\ PageIsOfItsKey /\ [Next]_vars => PageIsOfItsKey'
<1> SUFFICES ASSUME Typed, PageIsOfItsKey, [Next]_vars, page' # NoPage
             PROVE  PageFits(page', chain'.applied)
  BY DEF PageIsOfItsKey
<1> DEFINE txs == chain.applied
<1>a. txs \subseteq chain'.applied
  BY AppliedMoves
<1>1. CASE page' = page
  BY <1>1, <1>a, FitsOnward DEF PageIsOfItsKey
<1>2. ASSUME NEW key \in Keys, OpenPage(key)
      PROVE  PageFits(page', chain'.applied)
  BY <1>2 DEF OpenPage, PageFits, IsOf
<1>3. ASSUME page # NoPage, PageNext, UNCHANGED chain
      PROVE  PageFits(page', txs)
  <2>0. /\ PageFits(page, txs)
        /\ page = [key |-> page.key, sub |-> page.sub, proofs |-> page.proofs,
                   checks |-> page.checks, verifying |-> page.verifying,
                   verdict |-> page.verdict]
        /\ page.verdict = [via \in Vias |-> page.verdict[via]]
        /\ IsOf(page.key, txs, page.sub)
        /\ \A tx \in page.proofs : IsOf(page.key, txs, tx)
        /\ \A check \in page.checks : check.via \in Vias /\ IsOf(page.key, txs, check.tx)
        /\ \A via \in Vias : IsOf(page.key, txs, page.verdict[via])
    BY <1>3 DEF PageIsOfItsKey, PageFits
  <2> DEFINE With(sub, proofs, checks, verifying, verdict) ==
               [key |-> page.key, sub |-> sub, proofs |-> proofs, checks |-> checks,
                verifying |-> verifying, verdict |-> verdict]
  <2>1. ASSUME NEW sub, EventsArrive(sub)
        PROVE  PageFits(page', txs)
    <3>1. page' = With(sub, page.proofs, page.checks, page.verifying, page.verdict)
      BY <2>0, <2>1 DEF EventsArrive
    <3>2. IsOf(page.key, txs, sub)
      BY <2>1 DEF EventsArrive, IsOf
    <3> QED
      BY <2>0, <3>1, <3>2, FitsWith
  <2>2. CASE TxProofArrives
    <3> DEFINE proofs == page.proofs \cup {Target}
    <3>1. page' = With(page.sub, proofs, page.checks, page.verifying, page.verdict)
      BY <2>0, <2>2 DEF TxProofArrives
    <3>2. \A tx \in proofs : IsOf(page.key, txs, tx)
      BY <2>0, <2>2, TargetIsOfTheKey DEF TxProofArrives
    <3> HIDE DEF proofs
    <3> QED
      BY <2>0, <3>1, <3>2, FitsWith
  <2>3. ASSUME NEW via \in Vias, RunCheck(via)
        PROVE  PageFits(page', txs)
    <3> DEFINE new    == [via |-> via, tx |-> Shown]
               checks == page.checks \cup {new}
    <3>1. page' = With(page.sub, page.proofs, checks, via, page.verdict)
      BY <2>0, <2>3 DEF RunCheck
    <3>2. new.via \in Vias /\ IsOf(page.key, txs, new.tx)
      BY <2>0, <2>3, ShownIsOfTheKey
    <3> HIDE DEF new
    <3>3. \A check \in checks : check.via \in Vias /\ IsOf(page.key, txs, check.tx)
      BY <2>0, <3>2
    <3> HIDE DEF checks
    <3> QED
      BY <2>0, <3>1, <3>3, FitsWith
  <2>4. ASSUME NEW check \in page.checks, VerdictArrives(check) \/ CheckFails(check)
        PROVE  PageFits(page', txs)
    <3> DEFINE checks  == page.checks \ {check}
               verdict == [page.verdict EXCEPT ![check.via] = check.tx]
    <3>1. \/ page' = With(page.sub, page.proofs, checks, "none", verdict)
          \/ page' = With(page.sub, page.proofs, checks, "none", page.verdict)
      BY <2>0, <2>4 DEF VerdictArrives, CheckFails
    <3>2. check.via \in Vias /\ IsOf(page.key, txs, check.tx)
      BY <2>0, <2>4
    <3>3. /\ \A c \in checks : c.via \in Vias /\ IsOf(page.key, txs, c.tx)
          /\ verdict = [via \in Vias |-> verdict[via]]
          /\ \A via \in Vias : IsOf(page.key, txs, verdict[via])
      BY <2>0, <3>2
    <3> HIDE DEF checks, verdict
    <3> QED
      BY <2>0, <3>1, <3>3, FitsWith
  <2>5. \A key : ~OpenPage(key)
    BY <1>3 DEF OpenPage
  <2> QED
    BY <1>3, <2>1, <2>2, <2>3, <2>4, <2>5 DEF PageNext
<1>4. CASE page = NoPage /\ PageNext
  <2>1. \E key \in Keys : OpenPage(key)
    BY <1>4 DEF PageNext, EventsArrive, TxProofArrives, RunCheck
  <2> QED
    BY <1>2, <2>1
<1>5. CASE page # NoPage /\ PageNext /\ UNCHANGED chain
  BY <1>3, <1>5
<1> QED
  BY <1>1, <1>4, <1>5, PageMoves

(***************************************************************************)
(* A verdict is shown with the subscription it was reached for: of one     *)
(* hash there is one, and of one commitment one that was paid.             *)
(***************************************************************************)
LEMMA OneOfThePage ==
  ASSUME PaidOnce, NEW s \in Subscriptions(chain.applied), NEW t \in Subscriptions(chain.applied),
         Matches(s, page.key), Matches(t, page.key)
  PROVE  s = t
<1>1. CASE page.key.by = "hash"
  BY <1>1 DEF Matches
<1>2. CASE page.key.by # "hash"
  <2>1. CommitmentOf(s) = CommitmentOf(t)
    BY <1>2 DEF Matches
  <2>2. NullifierOf(s.op.proof) = NullifierOf(t.op.proof)
    BY <2>1 DEF CommitmentOf
  <2> QED
    BY <2>2 DEF PaidOnce, NotPaidTwice, Subscriptions
<1> QED
  BY <1>1, <1>2

PageInv == Typed /\ PaidOnce /\ PageIsOfItsKey

(***************************************************************************)
(* What the page declares valid is the subscription that it shows, and     *)
(* that subscription was paid for.                                         *)
(***************************************************************************)
THEOREM VerdictsAreOnThePaid == Spec => []VerdictIsOnThePaid
<1>1. Init => PageInv
  BY TypedInit, PaidOnceInit DEF Init, PageInit, PageInv, PageIsOfItsKey
<1>2. PageInv /\ [Next]_vars => PageInv'
  BY TypedNext, PaidOnceNext, PageIsOfItsKeyNext DEF PageInv
<1>3. PageInv => VerdictIsOnThePaid
  <2> SUFFICES ASSUME PageInv, page # NoPage, NEW via \in Vias,
                      page.verdict[via] # NoTx, Shown # NoTx
               PROVE  /\ page.verdict[via] = Shown
                      /\ Shown \in chain.applied
                      /\ Valid(Shown)
    BY DEF VerdictIsOnThePaid
  <2>1. /\ IsOf(page.key, chain.applied, page.verdict[via])
        /\ IsOf(page.key, chain.applied, Shown)
    BY ShownIsOfTheKey DEF PageInv, PageIsOfItsKey, PageFits
  <2>2. page.verdict[via] = Shown
    BY <2>1, OneOfThePage DEF IsOf, PageInv
  <2>3. Shown \in Subscriptions(chain.applied)
    BY <2>1 DEF IsOf
  <2> QED
    BY <2>2, <2>3 DEF PageInv, PaidOnce, Subscriptions
<1> QED
  BY <1>1, <1>2, <1>3, PTL DEF Spec
=============================================================================
