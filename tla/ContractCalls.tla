--------------------------- MODULE ContractCalls ---------------------------
(***************************************************************************)
(* Contract calls as the web app makes them (web/lib/stellar/client.ts):   *)
(* read the account, simulate, have the wallet sign, send, and poll a      *)
(* bounded number of times.  Polling may stop before the network is done   *)
(* with the transaction, so a call reported as failed may still settle.    *)
(*                                                                         *)
(* Of the contract this keeps what an invocation is admitted by and what   *)
(* it leaves; its steps are the subject of PoolPass.  A nullifier is an    *)
(* identity with an epoch.  A transaction is applied with the next         *)
(* sequence number of its account, or never.                               *)
(***************************************************************************)
EXTENDS MerkleTree, FiniteSets

CONSTANTS
  Callers,          \* handlers that may have a call under way
  Accounts,         \* accounts that sign for them
  Issuer,           \* the one of them that the contract takes rosters from
  Seeded,           \* the roster the deployment commits, as epoch 1
  NoPackage,        \* null
  NoAmount,         \* a package that does not fix the amount
  Budgets,          \* bound: how often each thing is done, one of these
  MaxPolls,         \* 30
  MaxEpoch          \* bound: epochs

VARIABLES
  chain,            \* rosters by epoch, spent nullifiers, accounts, transactions
  call,             \* per caller: the running invoke
  budget            \* bound: how often each thing may still be done

callVars == <<chain, call, budget>>

Idle == [step |-> "idle"]

CallsInit ==
  /\ chain = [rosters |-> <<Padded(Seeded)>>,
              spent   |-> {},
              seq     |-> [a \in Accounts |-> 0],
              pending |-> {},
              applied |-> {},
              failed  |-> {}]
  /\ call = [c \in Callers |-> Idle]
  /\ budget \in Budgets

Epoch  == Len(chain.rosters)
Roster == chain.rosters[Epoch]

-----------------------------------------------------------------------------
(* The contract and the network. *)

NullifierOf(proof) == <<proof.pkg.identity, proof.pkg.epoch>>

NotSpentUnchecked(op) == TRUE

NotSpent(op) == NullifierOf(op.proof) \notin chain.spent

\* subscribe's checks; the public amount is compared with the argument.
AdmitsSubscription(op) ==
  /\ op.amount > 0
  /\ op.proof.verified
  /\ Root(op.proof.pkg.tree) = Root(Roster)
  /\ op.proof.amount = op.amount
  /\ op.proof.pkg.epoch = Epoch
  /\ NotSpent(op)

\* update_accredited_set and advance_epoch ask for the issuer's signature only.
Admits(op) == op.kind = "subscribe" => AdmitsSubscription(op)

AfterApplying(tx) ==
  CASE tx.op.kind = "subscribe" ->
         [chain EXCEPT !.spent = @ \cup {NullifierOf(tx.op.proof)}]
    [] tx.op.kind = "commit" ->
         [chain EXCEPT !.rosters = Append(@, tx.op.leaves)]
    [] tx.op.kind = "advance" ->
         [chain EXCEPT !.rosters = Append(@, Roster)]

\* Transactions that can still be applied once number seq of account is used.
StillPending(account, seq) ==
  {tx \in chain.pending : tx.source # account \/ tx.seq > seq}

\* A transaction that fails uses its number up; the payment may be short of
\* balance, or the call out of resources, whatever the simulation said.
Land(tx, fits) ==
  LET account == tx.source
      after   == IF fits THEN AfterApplying(tx) ELSE chain
  IN  /\ tx \in chain.pending
      /\ tx.seq = chain.seq[account] + 1
      /\ fits => Admits(tx.op)
      /\ fits /\ tx.op.kind # "subscribe" => Epoch < MaxEpoch
      /\ chain' = [after EXCEPT
                     !.seq[account] = tx.seq,
                     !.pending = StillPending(account, tx.seq),
                     !.applied = IF fits THEN @ \cup {tx} ELSE @,
                     !.failed  = IF fits THEN @ ELSE @ \cup {tx}]
      /\ UNCHANGED <<call, budget>>

\* The accreditation service commits its own roster with the issuer's key.
ServiceCommits(roster) ==
  /\ Epoch < MaxEpoch
  /\ chain' = [chain EXCEPT
                 !.rosters     = Append(@, Padded(roster)),
                 !.seq[Issuer] = @ + 1,
                 !.pending     = StillPending(Issuer, chain.seq[Issuer] + 1)]

-----------------------------------------------------------------------------
(* invoke *)

Spend(what) ==
  /\ budget[what] > 0
  /\ budget' = [budget EXCEPT ![what] = @ - 1]

Start(c, source, op) ==
  /\ call[c] = Idle
  /\ Spend(c)
  /\ call' = [call EXCEPT ![c] =
                [step |-> "account", polls |-> 0, signer |-> source,
                 tx |-> [n |-> budget[c], source |-> source, seq |-> 0, op |-> op]]]

Advance(c, from, to) ==
  /\ call[c].step = from
  /\ call' = [call EXCEPT ![c].step = to]

GetAccount(c) ==
  /\ call[c].step = "account"
  /\ call' = [call EXCEPT ![c].step = "simulate",
                          ![c].tx.seq = chain.seq[call[c].tx.source] + 1]
  /\ UNCHANGED <<chain, budget>>

\* A simulation error is thrown, see Rejects.
Simulate(c) ==
  /\ Advance(c, "simulate", "sign")
  /\ Admits(call[c].tx.op)
  /\ UNCHANGED <<chain, budget>>

\* The signature may be another account's than the transaction's.
Sign(c, signer) ==
  /\ call[c].step = "sign"
  /\ call' = [call EXCEPT ![c].step = "send", ![c].signer = signer]
  /\ UNCHANGED <<chain, budget>>

\* A network that has moved past the number, or that does not find the
\* account's signature, answers ERROR, see Rejects.
IsAccepted(c) ==
  /\ call[c].signer = call[c].tx.source
  /\ call[c].tx.seq = chain.seq[call[c].tx.source] + 1

Accepted(c) ==
  IF IsAccepted(c) THEN chain.pending \cup {call[c].tx} ELSE chain.pending

Send(c) ==
  /\ Advance(c, "send", "poll")
  /\ IsAccepted(c)
  /\ chain' = [chain EXCEPT !.pending = Accepted(c)]
  /\ UNCHANGED budget

NotFound(c) == call[c].tx \notin chain.applied \cup chain.failed

PollOnWithoutCounting(c) ==
  /\ call[c].step = "poll"
  /\ NotFound(c)
  /\ call[c].polls < MaxPolls
  /\ UNCHANGED <<chain, call, budget>>

PollOn(c) ==
  /\ call[c].step = "poll"
  /\ NotFound(c)
  /\ call[c].polls < MaxPolls
  /\ call' = [call EXCEPT ![c].polls = @ + 1]
  /\ UNCHANGED <<chain, budget>>

ReturnsUnlessFailed(c) ==
  /\ call[c].step = "poll"
  /\ call[c].polls = MaxPolls \/ ~NotFound(c)
  /\ call[c].tx \notin chain.failed

Returns(c) ==
  /\ call[c].step = "poll"
  /\ call[c].polls < MaxPolls
  /\ call[c].tx \in chain.applied

\* The transaction is final and failed, or the last poll has passed; nobody
\* looks again after that one.
Throws(c) ==
  /\ call[c].step = "poll"
  /\ call[c].polls = MaxPolls \/ call[c].tx \in chain.failed

\* An await rejects: the wallet declines, the simulation fails, a request is
\* lost.  A send that is not answered may have reached the network.
Rejects(c) == call[c] # Idle

EndCall(c) ==
  /\ call' = [call EXCEPT ![c] = Idle]
  /\ UNCHANGED budget

EndPolling(c) == EndCall(c) /\ UNCHANGED chain

EndByRejection(c) ==
  /\ Rejects(c)
  /\ EndCall(c)
  /\ \/ UNCHANGED chain
     \/ /\ call[c].step = "send"
        /\ chain' = [chain EXCEPT !.pending = Accepted(c)]

NetworkNext ==
  \/ \E tx \in chain.pending, fits \in BOOLEAN : Land(tx, fits)
  \/ \E c \in Callers :
        GetAccount(c) \/ Simulate(c) \/ Send(c) \/ PollOn(c)
=============================================================================
