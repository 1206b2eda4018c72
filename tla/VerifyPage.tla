----------------------------- MODULE VerifyPage -----------------------------
(***************************************************************************)
(* The page that checks one subscription again (web/app/verify).  It is    *)
(* opened for a transaction hash or for a commitment, looks the            *)
(* subscription up among the events, takes the proof out of the            *)
(* transaction's arguments, and has it verified by the page's worker, by   *)
(* the service, or by both.  Whether the events know the subscription may  *)
(* change while the page is open, and with it the transaction looked at.   *)
(*                                                                         *)
(* A transaction stands for its hash, its nullifier and amount for its     *)
(* commitment; in an epoch of its own, the nullifier holds the epoch.      *)
(***************************************************************************)
EXTENDS ContractCalls

CONSTANTS
  NoPage,           \* the page is not open
  NoTx              \* null

VARIABLE page

Vias == {"browser", "backend"}

PageInit == page = NoPage

Subscriptions(txs) == {tx \in txs : tx.op.kind = "subscribe"}
Sent               == chain.pending \cup chain.applied \cup chain.failed

CommitmentOf(tx) == <<NullifierOf(tx.op.proof), tx.op.amount>>

Keys ==
  [by : {"hash"}, of : Sent]
    \cup [by : {"commitment"}, of : {CommitmentOf(tx) : tx \in Subscriptions(Sent)}]

Matches(tx, key) ==
  key.of = (IF key.by = "hash" THEN tx ELSE CommitmentOf(tx))

OpenPage(key) ==
  /\ page = NoPage
  /\ Spend("verify")
  /\ page' = [key |-> key, sub |-> NoTx, proofs |-> {}, checks |-> {},
              verifying |-> "none", verdict |-> [via \in Vias |-> NoTx]]
  /\ UNCHANGED <<chain, call>>

\* findSubscription in an answer of the events route, which may hold the
\* subscription or be older than it.
EventsArrive(sub) ==
  /\ page # NoPage
  /\ \/ sub = NoTx
     \/ sub \in Subscriptions(chain.applied) /\ Matches(sub, page.key)
  /\ page' = [page EXCEPT !.sub = sub]
  /\ UNCHANGED callVars

\* sub?.txHash ?? key; a commitment is as long as a hash, but no
\* transaction's.
Target ==
  IF page.sub # NoTx THEN page.sub
  ELSE IF page.key.by = "hash" THEN page.key.of
  ELSE NoTx

FoundWhateverItsStatus(tx) == tx \in Subscriptions(Sent)

\* /api/tx-proof: a transaction that has succeeded, and its arguments; those
\* of the issuer's calls do not decode.
Found(tx) == tx \in Subscriptions(chain.applied)

\* Answers stay in the query cache; an error leaves the page without one.
TxProofArrives ==
  /\ page # NoPage
  /\ Found(Target)
  /\ page' = [page EXCEPT !.proofs = @ \cup {Target}]
  /\ UNCHANGED callVars

\* txProof, and proofObject with it.
Shown == IF Target \in page.proofs THEN Target ELSE NoTx

\* A tile's button waits while the page remembers it as the one pressed last,
\* and is gone once there is a verdict.
HasButton(via) ==
  /\ Shown # NoTx
  /\ page.verdict[via] = NoTx
  /\ page.verifying # via

\* runBrowser, runBackend
RunCheck(via) ==
  /\ page # NoPage
  /\ HasButton(via)
  /\ Spend("check")
  /\ page' = [page EXCEPT !.verifying = via,
                          !.checks = @ \cup {[via |-> via, tx |-> Shown]}]
  /\ UNCHANGED <<chain, call>>

\* What groth16.verify says of the transaction's proof and public inputs.
Valid(tx) == tx.op.proof.verified

VerdictArrives(check) ==
  /\ page # NoPage
  /\ check \in page.checks
  /\ page' = [page EXCEPT !.verifying = "none",
                          !.checks = @ \ {check},
                          !.verdict[check.via] = check.tx]
  /\ UNCHANGED callVars

\* The service or the worker fails; nothing is shown.
CheckFails(check) ==
  /\ page # NoPage
  /\ check \in page.checks
  /\ page' = [page EXCEPT !.verifying = "none", !.checks = @ \ {check}]
  /\ UNCHANGED callVars

PageNext ==
  \/ \E key \in Keys : OpenPage(key)
  \/ \E sub \in chain.applied \cup {NoTx} : EventsArrive(sub)
  \/ TxProofArrives
  \/ \E via \in Vias : RunCheck(via)
  \/ page # NoPage /\ \E check \in page.checks :
        VerdictArrives(check) \/ CheckFails(check)
=============================================================================
