------------------------------ MODULE PoolPass ------------------------------
(***************************************************************************)
(* The PoolPass contract (contracts/poolpass) together with the two token  *)
(* contracts it settles in and the circuit its proofs come from            *)
(* (circuits/poolpass.circom).                                             *)
(*                                                                         *)
(* The network executes one invocation at a time, and an invocation that   *)
(* returns an error or traps leaves no trace.  subscribe is the one entry  *)
(* point that calls other contracts and can fail half way, so it runs here *)
(* in steps: call holds the running invocation, with the ledger as it was  *)
(* when it began, and ledger the writes made so far.  Every other entry    *)
(* point either fails before it writes or is one step.                     *)
(*                                                                         *)
(* Abstractions.  Poseidon is collision free, so a root stands for the     *)
(* vector of leaves it was computed from (Merkle paths are the subject of  *)
(* a module of their own) and a nullifier or a commitment for the tuple    *)
(* that was hashed.  A leaf is a secret with a cap: the investor id in it  *)
(* is compared with nothing.  A proof exists exactly for the statements    *)
(* that satisfy the circuit.  An input list that does not hold four        *)
(* elements fails as the amount 0 does, on the same line.                  *)
(*                                                                         *)
(* A public input is a word of 32 bytes, and a field element has several:  *)
(* the verification and the commitment read the element, the replay check  *)
(* compares the bytes.  Only the nullifier keeps the difference.  The root *)
(* must equal the stored word, which is an output of Poseidon; an amount   *)
(* and an epoch with bytes above their integer are refused, as the         *)
(* elements beyond that integer are here.  Which words of a nullifier the  *)
(* host's field functions take is not in this repository: AdmittedWraps.   *)
(***************************************************************************)
EXTENDS TokenOps, Sequences, FiniteSets, Functions

CONSTANTS
  Investors,         \* addresses that subscribe and hold balances
  Pool,              \* the contract's own address
  Issuer,            \* the address the deployment initializes the pool with
  Deployer,          \* first admin of the pool token
  NoIssuer,          \* DataKey::Issuer is not stored yet
  Secrets,           \* investor secrets
  ZeroLeaf,          \* padding in the vector of leaves
  Submissions,       \* leaf vectors passed to update_accredited_set
  Depths,            \* depths passed to initialize
  CircuitDepth,      \* the depth the circuit was compiled for (3)
  Amounts,           \* amounts passed to contract calls
  Inputs,            \* public inputs passed to subscribe
  FieldOrder,        \* order of the scalar field
  Wraps,             \* multiples of the order a word holds on top of an element
  AdmittedWraps,     \* those the host takes where it is given a field element
  U64Max,            \* 2^64 - 1
  U32Max             \* 2^32 - 1: the last epoch

Field      == 0..(FieldOrder - 1)
Leaves     == [secret : Secrets, cap : Field]
LeafSlots  == Leaves \cup {ZeroLeaf}
Callers    == Investors \cup {Issuer, Deployer}
Holders    == Investors \cup {Pool}
Epochs     == 0..U32Max
Nullifiers == Secrets \X Field
Words      == [element : Nullifiers, wraps : Wraps]
ZeroRoot   == << >>            \* thirty-two zero bytes: the root of no vector
Roots      == Submissions \cup {ZeroRoot}

\* What the circuit makes public.
Statements == [root : Roots, amount : Field, nullifier : Words, epoch : Field]

ASSUME AddressAssumption ==
  /\ IsFiniteSet(Investors)
  /\ Pool \notin Callers
  /\ Issuer \notin Investors \cup {Deployer}
  /\ Deployer \notin Investors
  /\ NoIssuer \notin Callers

ASSUME InputAssumption ==
  /\ ZeroLeaf \notin Leaves
  /\ Submissions \subseteq Seq(LeafSlots)
  /\ Depths \subseteq Nat
  /\ CircuitDepth \in Nat
  /\ Amounts \subseteq Int
  /\ Inputs \subseteq Statements

\* The host takes at least the canonical word of an element.
ASSUME WordAssumption ==
  /\ 0 \in AdmittedWraps
  /\ AdmittedWraps \subseteq Wraps
  /\ Wraps \subseteq Nat

\* The order leaves room for Num2Bits(65), and every u64 fits an i128 balance.
ASSUME WidthAssumption ==
  /\ FieldOrder \in Nat
  /\ U64Max \in Nat
  /\ U32Max \in Nat
  /\ FieldOrder > 2 * (U64Max + 1)
  /\ FieldOrder > U32Max
  /\ U64Max <= I128Max

VARIABLES ledger,    \* what the ledger holds, with the running call's writes
          call       \* the running subscribe invocation, or NoCall

vars == <<ledger, call>>

-----------------------------------------------------------------------------
(* The circuit. *)

FieldAdd(x, y) == IF x + y >= FieldOrder THEN x + y - FieldOrder ELSE x + y
FieldSub(x, y) == IF x >= y THEN x - y ELSE x - y + FieldOrder

(***************************************************************************)
(* LessEqThan(64) of circomlib: amount + 2^64 - (cap + 1), computed in the *)
(* field, fits in 65 bits with the top bit clear.  Neither operand is      *)
(* range checked, so an amount just below the field order passes too.      *)
(***************************************************************************)
WithinCap(amount, cap) ==
  FieldSub(FieldAdd(amount, U64Max), cap) <= U64Max

NullifierIgnoringEpoch(secret, epoch) == <<secret, 0>>

Nullifier(secret, epoch) == <<secret, epoch>>

Members(root) == {root[i] : i \in DOMAIN root} \ {ZeroLeaf}

\* The circuit walks paths of its own depth, whatever the pool's depth is.
CircuitHolds(s) ==
  /\ Len(s.root) = 2 ^ CircuitDepth
  /\ \E leaf \in Members(s.root) :
        /\ WithinCap(s.amount, leaf.cap)
        /\ s.nullifier.element = Nullifier(leaf.secret, s.epoch)

CanonicalWord(element) == [element |-> element, wraps |-> 0]

\* The statement an accredited investor proves to subscribe now.
HonestStatement(leaf, amount) ==
  [root |-> ledger.root, amount |-> amount, epoch |-> ledger.epoch,
   nullifier |-> CanonicalWord(Nullifier(leaf.secret, ledger.epoch))]

-----------------------------------------------------------------------------
(* The contract's storage, and the history its events leave. *)

NoCall == [step |-> "idle"]

\* The hash of the element, so that two words of it have one commitment.
Commitment(s) == <<s.nullifier.element, s.amount, s.epoch>>

Init ==
  /\ ledger = [issuer      |-> NoIssuer,
               depth       |-> 0,
               root        |-> ZeroRoot,
               epoch       |-> 0,
               total       |-> 0,
               nullifiers  |-> {},
               commitments |-> {},
               usdc        |-> [h \in Holders |-> 0],
               shares      |-> [h \in Holders |-> 0],
               shareAdmin  |-> Deployer,
               \* Subscribed events, and the root each epoch began with
               events      |-> << >>,
               rootOf      |-> << ZeroRoot >>,
               \* USDC and shares that came to be other than by subscribe
               gifts       |-> 0,
               loose       |-> 0]
  /\ call = NoCall

Initialized == ledger.issuer # NoIssuer

Initialize(issuer, depth) ==
  /\ call = NoCall
  /\ ~Initialized
  /\ depth \in 1..16
  /\ ledger' = [ledger EXCEPT !.issuer = issuer, !.depth = depth]
  /\ UNCHANGED call

RequireIssuer(caller) == Initialized /\ caller = ledger.issuer

SameEpoch(root) == [ledger EXCEPT !.root = root]

\* Storing an epoch: the addition traps at u32::MAX, overflow checks being on.
NewEpoch(root) ==
  [ledger EXCEPT !.root = root,
                 !.epoch = @ + 1,
                 !.rootOf = Append(@, root)]

UpdateAccreditedSet(caller, leaves) ==
  /\ call = NoCall
  /\ RequireIssuer(caller)
  /\ Len(leaves) = 2 ^ ledger.depth
  /\ ledger.epoch < U32Max
  /\ ledger' = NewEpoch(leaves)
  /\ UNCHANGED call

AdvanceEpoch(caller) ==
  /\ call = NoCall
  /\ RequireIssuer(caller)
  /\ ledger.epoch < U32Max
  /\ ledger' = NewEpoch(ledger.root)
  /\ UNCHANGED call

-----------------------------------------------------------------------------
(* subscribe *)

\* Each public input against the ledger; signal_u64 and signal_u32 refuse what
\* is wider than the integer it is read into.
RootMatches(s) == s.root = ledger.root

AmountMatchesModulo(amount, s) == s.amount % (U64Max + 1) = amount

AmountMatches(amount, s) == s.amount <= U64Max /\ s.amount = amount

EpochNotInFuture(s) == s.epoch <= ledger.epoch

EpochMatches(s) == s.epoch <= U32Max /\ s.epoch = ledger.epoch

NullifierNotLast(s) ==
  \/ ledger.events = << >>
  \/ s.nullifier # ledger.events[Len(ledger.events)].nullifier

NullifierFresh(s) == s.nullifier \notin ledger.nullifiers

HostTakesAnyWord(s) == TRUE

\* Bn254Fr::from_bytes in verify and poseidon_hash for the commitment: a word
\* that either does not take ends the invocation.
HostTakes(s) == s.nullifier.wraps \in AdmittedWraps

\* What subscribe answers before it writes anything, in the code's order.
SubscribeError(amount, s) ==
  IF amount <= 0 THEN "AmountInvalid"
  ELSE IF ~Initialized THEN "NotInitialized"
  ELSE IF ~HostTakes(s) THEN "Trap"
  ELSE IF ~CircuitHolds(s) THEN "InvalidProof"
  ELSE IF ~RootMatches(s) THEN "RootMismatch"
  ELSE IF ~AmountMatches(amount, s) THEN "AmountInvalid"
  ELSE IF ~EpochMatches(s) THEN "EpochMismatch"
  ELSE IF ~NullifierFresh(s) THEN "NullifierUsed"
  ELSE "Ok"

SubscribeEnter(investor, amount, s) ==
  /\ call = NoCall
  /\ SubscribeError(amount, s) = "Ok"
  /\ ledger' = [ledger EXCEPT !.nullifiers  = @ \cup {s.nullifier},
                              !.commitments = @ \cup {Commitment(s)}]
  /\ call' = [step |-> "transfer", investor |-> investor, amount |-> amount,
              statement |-> s, saved |-> ledger]

AtStep(step) == call.step = step

SubscribeTransfer ==
  /\ AtStep("transfer")
  /\ CanTransfer(ledger.usdc, call.investor, Pool, call.amount)
  /\ ledger' = [ledger EXCEPT
                  !.usdc = AfterTransfer(@, call.investor, Pool, call.amount)]
  /\ call' = [call EXCEPT !.step = "mint"]

\* The contract is the direct caller of mint, which authorizes it as Pool.
SubscribeMint ==
  /\ AtStep("mint")
  /\ CanMint(ledger.shares, ledger.shareAdmin, Pool, call.investor, call.amount)
  /\ ledger' = [ledger EXCEPT
                  !.shares = AfterMint(@, call.investor, call.amount)]
  /\ call' = [call EXCEPT !.step = "tally"]

AddSubscribedOverwriting(amount) == amount

AddSubscribedTwice(amount) == ledger.total + amount + amount

AddSubscribed(amount) == ledger.total + amount

SubscribeTally ==
  /\ AtStep("tally")
  /\ AddSubscribed(call.amount) <= I128Max
  /\ ledger' = [ledger EXCEPT
                  !.total  = AddSubscribed(call.amount),
                  !.events = Append(@, [investor  |-> call.investor,
                                        amount    |-> call.amount,
                                        nullifier |-> call.statement.nullifier,
                                        epoch     |-> call.statement.epoch])]
  /\ call' = NoCall

RolledBackButNullifier ==
  [call.saved EXCEPT !.nullifiers = ledger.nullifiers]

RolledBackButPayment ==
  [call.saved EXCEPT !.usdc = ledger.usdc]

\* The host drops the writes of an invocation that does not return Ok.
RolledBack == call.saved

\* PaymentFailed, or AmountInvalid from the tally.
SubscribeFails ==
  /\ \/ /\ AtStep("transfer")
        /\ ~CanTransfer(ledger.usdc, call.investor, Pool, call.amount)
     \/ /\ AtStep("mint")
        /\ ~CanMint(ledger.shares, ledger.shareAdmin, Pool,
                    call.investor, call.amount)
     \/ /\ AtStep("tally")
        /\ AddSubscribed(call.amount) > I128Max
  /\ ledger' = RolledBack
  /\ call' = NoCall

\* The host stops an invocation that exceeds its resource limits.
HostAborts ==
  /\ call # NoCall
  /\ ledger' = RolledBack
  /\ call' = NoCall

-----------------------------------------------------------------------------
(* Calls on the two token contracts that do not come from PoolPass. *)

UsdcMint(to, amount) ==
  /\ call = NoCall
  /\ CanMint(ledger.usdc, Issuer, Issuer, to, amount)
  /\ ledger' = [ledger EXCEPT !.usdc = AfterMint(@, to, amount)]
  /\ UNCHANGED call

UsdcTransfer(from, to, amount) ==
  /\ call = NoCall
  /\ CanTransfer(ledger.usdc, from, to, amount)
  /\ ledger' = [ledger EXCEPT
                  !.usdc  = AfterTransfer(@, from, to, amount),
                  !.gifts = IF to = Pool THEN @ + amount ELSE @]
  /\ UNCHANGED call

\* Before the handover the deployer, as admin, may mint shares itself.
ShareMint(to, amount) ==
  /\ call = NoCall
  /\ CanMint(ledger.shares, ledger.shareAdmin, Deployer, to, amount)
  /\ ledger' = [ledger EXCEPT !.shares = AfterMint(@, to, amount),
                              !.loose = @ + amount]
  /\ UNCHANGED call

\* A transfer to oneself leaves the holder with more than before.
ShareTransfer(from, to, amount) ==
  /\ call = NoCall
  /\ CanTransfer(ledger.shares, from, to, amount)
  /\ ledger' = [ledger EXCEPT
                  !.shares = AfterTransfer(@, from, to, amount),
                  !.loose  = IF from = to THEN @ + amount ELSE @]
  /\ UNCHANGED call

\* set_admin: the deployment's last step on the pool token.
ShareSetAdmin ==
  /\ call = NoCall
  /\ ledger.shareAdmin = Deployer
  /\ ledger' = [ledger EXCEPT !.shareAdmin = Pool]
  /\ UNCHANGED call

-----------------------------------------------------------------------------
Next ==
  \/ \E issuer \in {Issuer}, depth \in Depths : Initialize(issuer, depth)
  \/ \E caller \in Callers, leaves \in Submissions :
        UpdateAccreditedSet(caller, leaves)
  \/ \E caller \in Callers : AdvanceEpoch(caller)
  \/ \E investor \in Investors, amount \in Amounts, s \in Inputs :
        SubscribeEnter(investor, amount, s)
  \/ SubscribeTransfer
  \/ SubscribeMint
  \/ SubscribeTally
  \/ SubscribeFails
  \/ HostAborts
  \/ \E to \in Investors, amount \in Amounts : UsdcMint(to, amount)
  \/ \E from \in Investors, to \in Holders, amount \in Amounts :
        UsdcTransfer(from, to, amount)
  \/ \E to \in Investors, amount \in Amounts : ShareMint(to, amount)
  \/ \E from \in Investors, to \in Investors, amount \in Amounts :
        ShareTransfer(from, to, amount)
  \/ ShareSetAdmin

Spec == Init /\ [][Next]_vars
-----------------------------------------------------------------------------
(* Properties. *)

LedgerType ==
  [issuer      : Callers \cup {NoIssuer},
   depth       : Nat,
   root        : Roots,
   epoch       : Epochs,
   total       : Balances,
   nullifiers  : SUBSET Words,
   commitments : SUBSET (Nullifiers \X Field \X Field),
   usdc        : [Holders -> Balances],
   shares      : [Holders -> Balances],
   shareAdmin  : {Deployer, Pool},
   events      : Seq([investor : Investors, amount : Amounts \cap Nat,
                      nullifier : Words, epoch : Field]),
   rootOf      : Seq(Roots),
   gifts       : Nat,
   loose       : Nat]

CallType ==
  [step : {"transfer", "mint", "tally"}, investor : Investors,
   amount : Amounts \cap Nat, statement : Inputs, saved : LedgerType]

TypeOK == ledger \in LedgerType /\ call \in CallType \cup {NoCall}

\* What other transactions and readers see: never a running call's writes.
Committed == IF call = NoCall THEN ledger ELSE call.saved

\* No word settles twice as a nullifier.
SettledOncePerWord ==
  \A i, j \in DOMAIN Committed.events :
    Committed.events[i].nullifier = Committed.events[j].nullifier => i = j

\* What settled was a word the host takes.
SettledWordsAdmitted ==
  \A i \in DOMAIN Committed.events :
    Committed.events[i].nullifier.wraps \in AdmittedWraps

(***************************************************************************)
(* In an epoch a secret settles at most once under each word that the host *)
(* takes for its nullifier, and under no other word, whatever roots,       *)
(* retries and failures come between (the replay check and the rollback of *)
(* subscribe).  Where the host takes the canonical word only, that is once *)
(* in an epoch: OnceInAnEpoch in PoolPassProofs.                           *)
(***************************************************************************)
OneSettlementPerNullifier == SettledOncePerWord /\ SettledWordsAdmitted

(***************************************************************************)
(* A nullifier or commitment is stored exactly when its subscription was   *)
(* paid and announced: a failed payment burns nobody's right to subscribe. *)
(***************************************************************************)
MarkedIffSettled ==
  LET Settled == {Committed.events[i] : i \in DOMAIN Committed.events}
  IN  /\ Committed.nullifiers = {e.nullifier : e \in Settled}
      /\ Committed.commitments =
           {<<e.nullifier.element, e.amount, e.epoch>> : e \in Settled}

(***************************************************************************)
(* The contract holds exactly the USDC it has counted as subscribed and    *)
(* what was sent to it outside of subscribe.                               *)
(***************************************************************************)
EscrowCoversTotal == Committed.usdc[Pool] = Committed.total + Committed.gifts

(***************************************************************************)
(* Every pool share in circulation was issued for a subscription, minted   *)
(* by the deployer before the handover, or made by a self-transfer.        *)
(***************************************************************************)
SharesBacked == SumFunction(Committed.shares) = Committed.total + Committed.loose

(***************************************************************************)
(* What settles was within the cap of a leaf that carries the secret in    *)
(* the root published for that epoch, although the circuit accepts some    *)
(* field elements beyond every cap: the width check of the contract closes *)
(* what the comparator leaves open.                                        *)
(***************************************************************************)
SettledWithinCap ==
  \A i \in DOMAIN Committed.events :
    LET e == Committed.events[i]
    IN  \E leaf \in Members(Committed.rootOf[e.epoch + 1]) :
          /\ e.nullifier.element = <<leaf.secret, e.epoch>>
          /\ e.amount \in 1..leaf.cap

(***************************************************************************)
(* In a pool of the circuit's depth the gate never refuses an accredited   *)
(* investor whose canonical nullifier has not settled in this epoch: not   *)
(* after a failed payment, and not because another investor subscribed.    *)
(***************************************************************************)
EligibleIsAdmitted ==
  (call = NoCall /\ ledger.depth = CircuitDepth) =>
    \A leaf \in Members(ledger.root), amount \in Amounts :
      (/\ amount \in 1..leaf.cap
       /\ leaf.cap <= U64Max
       /\ \A i \in DOMAIN ledger.events :
            ledger.events[i].nullifier #
              CanonicalWord(<<leaf.secret, ledger.epoch>>))
      => SubscribeError(amount, HonestStatement(leaf, amount)) = "Ok"

(***************************************************************************)
(* The overflow check of the tally never fires: a payment large enough to  *)
(* overflow the total has overflowed the escrow balance before.            *)
(***************************************************************************)
TallyNeverOverflows ==
  AtStep("tally") => ledger.total + call.amount <= I128Max

(***************************************************************************)
(* An invocation ends with all of its effects or with none: the payment,   *)
(* the shares, the total, the marks and the event belong together.         *)
(***************************************************************************)
AllOrNothing ==
  [][(call # NoCall /\ call' = NoCall) =>
       LET before == call.saved
           paid   == call.amount
       IN  \/ ledger' = before
           \/ /\ ledger'.usdc[Pool] = before.usdc[Pool] + paid
              /\ ledger'.usdc[call.investor] = before.usdc[call.investor] - paid
              /\ ledger'.shares[call.investor] =
                   before.shares[call.investor] + paid
              /\ ledger'.total = before.total + paid
              /\ call.statement.nullifier \in
                   ledger'.nullifiers \ before.nullifiers
              /\ Len(ledger'.events) = Len(before.events) + 1]_vars

(***************************************************************************)
(* A root is only ever replaced together with the epoch, which moves by    *)
(* one: proofs for an old roster cannot be used under a new one, nor the   *)
(* other way round, and a used nullifier stays used.                       *)
(***************************************************************************)
RosterMovesWithEpoch ==
  [][/\ Committed'.epoch \in {Committed.epoch, Committed.epoch + 1}
     /\ (Committed'.root # Committed.root => Committed'.epoch # Committed.epoch)
     /\ Committed.nullifiers \subseteq Committed'.nullifiers]_vars

\* The contract implements the abstract ledger of subscriptions.
Promise == INSTANCE SubscriptionLedger WITH
  Caps    <- Field,
  Names   <- AdmittedWraps,
  roster  <- {<<leaf.secret, leaf.cap>> : leaf \in Members(Committed.root)},
  epoch   <- Committed.epoch,
  settled <- {[secret |-> Committed.events[i].nullifier.element[1],
               epoch  |-> Committed.events[i].epoch,
               name   |-> Committed.events[i].nullifier.wraps,
               amount |-> Committed.events[i].amount] :
               i \in DOMAIN Committed.events},
  total   <- Committed.total,
  escrow  <- Committed.usdc[Pool]

(***************************************************************************)
(* Every step of the contract, seen between transactions, is a step of     *)
(* SubscriptionLedger or changes nothing there.                            *)
(***************************************************************************)
ImplementsPromise == Promise!Spec
=============================================================================
