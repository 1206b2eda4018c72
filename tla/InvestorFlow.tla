---------------------------- MODULE InvestorFlow ----------------------------
(***************************************************************************)
(* The web app around one pool: an investor's dialog and the issuer's page *)
(* in two browsers, a page on which anyone verifies a subscription, the    *)
(* accreditation service, and the chain they share.                        *)
(***************************************************************************)
EXTENDS IssuerConsole, SubscribeModal, VerifyPage

CONSTANT Published  \* packages that come from elsewhere, such as the demo's

\* What leaves are computed from; a slot of a tree holds one of them, or none.
Identities == DOMAIN Cap
Known      == Identities \ {Unknown}
LeafSlots  == Known \cup {ZeroLeaf}
Trees      == [1..Slots -> LeafSlots]

\* A package without an identity still has the path of its row.
Packages ==
  {p \in [identity : Identities, tree : Trees, index : Indices,
          epoch : 1..MaxEpoch, amount : Amounts \cup {NoAmount}] :
     p.identity # Unknown => p.tree[p.index + 1] = p.identity}

\* The issuer's page reads eight rows.
RowType == [leaf : Known, known : BOOLEAN]
Rows    == {rows \in Seq(RowType) : Len(rows) <= Slots}

Tasks == {"subscribe", "commit", "advance", "open", "accredit", "import", "edit",
          "prove", "csv", "refetch", "download", "connect", "disconnect", "select",
          "visit", "verify", "check"}

ASSUME ActorAssumption ==
  /\ {"subscribe", "commit", "advance"} \subseteq Callers
  /\ Issuer \in Accounts
  /\ Investors \subseteq Accounts
  /\ FirstSelected \in Investors

\* A package without an identity has no cap to prove an amount below.
ASSUME DataAssumption ==
  /\ Cap \in [Identities -> Nat]
  /\ Unknown \in Identities
  /\ Cap[Unknown] = 0
  /\ Seeded \in Seq(Known)
  /\ Generated \in Seq(Known)
  /\ Csvs \subseteq Rows
  /\ Amounts \subseteq Nat
  /\ DefaultAmount \in Amounts
  /\ PoolCap \in Nat
  /\ Published \subseteq Packages

ASSUME BoundAssumption ==
  /\ MaxPolls \in Nat
  /\ MaxEpoch \in Nat \ {0}
  /\ Budgets \subseteq [Tasks -> Nat]
  /\ \A limits \in Budgets : limits["accredit"] <= Len(Generated)

browserVars == <<modalVars, walletVars, page>>

vars == <<callVars, consoleVars, browserVars>>

Init == CallsInit /\ ConsoleInit /\ ModalInit /\ WalletInit /\ PageInit

Network == NetworkNext /\ UNCHANGED <<consoleVars, browserVars>>

Console == ConsoleNext /\ UNCHANGED browserVars

Investor ==
  /\ UNCHANGED page
  /\ \/ ModalNext /\ UNCHANGED consoleVars
     \/ \E pkg \in files \cup Published :
           (PastePackage(pkg) \/ ChooseFile(pkg)) /\ UNCHANGED consoleVars
     \/ \E r \in accreditation.requests :
           AccreditationCommitted(r) /\ ConsoleOvertaken /\ UNCHANGED files

Anyone == PageNext /\ UNCHANGED <<consoleVars, modalVars, walletVars>>

Next == Network \/ Console \/ Investor \/ Anyone

Spec == Init /\ [][Next]_vars

\* Requests to the network are answered; the wallet may wait for ever, and
\* nothing is assumed of when, or whether, a transaction is applied.
SendIsAnswered == Send("subscribe") /\ UNCHANGED <<consoleVars, browserVars>>
SendFails      == Rejects("subscribe") /\ call["subscribe"].step = "send"
                    /\ SubmitThrows /\ UNCHANGED <<consoleVars, page>>
PollIsAnswered ==
  \/ PollOn("subscribe") /\ UNCHANGED <<consoleVars, browserVars>>
  \/ SubmitReturns /\ UNCHANGED <<consoleVars, page>>
  \/ Throws("subscribe") /\ SubmitThrows /\ UNCHANGED <<consoleVars, page>>

FairSpec == Spec /\ WF_vars(SendIsAnswered \/ SendFails) /\ WF_vars(PollIsAnswered)
-----------------------------------------------------------------------------
(* Properties. *)

IsPackage(p) ==
  /\ p.identity \in Identities
  /\ p.tree \in Trees
  /\ p.index \in Indices
  /\ p.epoch \in 1..MaxEpoch
  /\ p.amount \in Amounts \cup {NoAmount}

TypeOK ==
  /\ \A e \in DOMAIN chain.rosters : chain.rosters[e] \in Trees
  /\ Epoch \in 1..MaxEpoch
  /\ chain.spent \subseteq Identities \X (1..MaxEpoch)
  /\ \A tx \in chain.pending : tx.seq = chain.seq[tx.source] + 1
  /\ \A c \in Callers : call[c].step \in
        {"idle", "account", "simulate", "sign", "send", "poll"}
  /\ console.committedEpoch \in 0..Epoch
  /\ console.poolEpoch \in 0..Epoch
  /\ \A p \in files : IsPackage(p)
  /\ modal.pkg = NoPackage \/ IsPackage(modal.pkg)
  /\ \A p \in modal.reading : IsPackage(p)
  /\ modal.handle = NoProof \/ modal.handle.amount \in Amounts
  /\ \A run \in prover.runs : IsPackage(run.pkg) /\ run.amount \in Amounts
  /\ wallet.address \in Investors \cup {NoAddress}

(***************************************************************************)
(* No proof is started that the circuit would refuse: the path in a        *)
(* package, wherever it was cut, leads from its identity to its root, and  *)
(* packages without an identity never get as far as the prover.            *)
(***************************************************************************)
PackagesProve == \A run \in prover.runs : Provable(run.pkg, run.amount)

(***************************************************************************)
(* An investor who is told that a submission failed, while it may still    *)
(* settle, and submits again, from this account or another, pays once: of  *)
(* the transactions of one identity in one epoch at most one is applied.   *)
(***************************************************************************)
NotPaidTwice ==
  \A s, t \in {tx \in chain.applied : tx.op.kind = "subscribe"} :
     NullifierOf(s.op.proof) = NullifierOf(t.op.proof) => s = t

(***************************************************************************)
(* The success panel shows a transaction that was applied.                 *)
(***************************************************************************)
ConfirmedIsApplied == modal.result # NoResult => modal.result \in chain.applied

(***************************************************************************)
(* A proof that finishes late never becomes the proof of another amount:   *)
(* when one arrives, it is for the amount on the form.                     *)
(***************************************************************************)
ProofArrivesForItsAmount ==
  [][modal'.handle \notin {NoProof, modal.handle} =>
       modal'.handle.amount = modal'.amount]_modal

Stale(m) == m.handle # NoProof /\ m.handle.amount # m.amount

(***************************************************************************)
(* The form keeps a proof of another amount only when a package was pasted *)
(* or a file of one was read, or when the dialog was reopened, never when  *)
(* the amount was edited.  The contract refuses such a proof.              *)
(***************************************************************************)
StaleOnlyByPackage ==
  [][Stale(modal') /\ ~Stale(modal) =>
       \/ modal'.tab = "prove"
            /\ (modal.tab = "accredit" \/ modal'.reading # modal.reading)
       \/ modal'.open # modal.open]_modal

(***************************************************************************)
(* The epoch shown as committed is one in which the tree on the page was   *)
(* the roster, unless another CSV or another roster came between the       *)
(* commit and its answer or the refetch failed.  What the console writes   *)
(* into packages then is a root with an epoch it had.                      *)
(***************************************************************************)
CommittedEpochIsOfTheTree ==
  console.committedEpoch # NoEpoch /\ ~console.excused =>
    chain.rosters[console.committedEpoch] = Tree

(***************************************************************************)
(* A verdict is on the subscription it is shown with, however the events   *)
(* changed their mind while the check ran; and what is shown as valid is   *)
(* a subscription that was paid.                                           *)
(***************************************************************************)
VerdictIsOnThePaid ==
  page # NoPage => \A via \in Vias :
     page.verdict[via] # NoTx /\ Shown # NoTx =>
       /\ page.verdict[via] = Shown
       /\ Shown \in chain.applied
       /\ Valid(Shown)

(***************************************************************************)
(* A submission the wallet has signed ends, with an answer or an error,    *)
(* whatever the network does with its transaction.                         *)
(***************************************************************************)
SignedSubmissionEnds ==
  call["subscribe"].step \in {"send", "poll"} ~> ~Submitting
=============================================================================
