--------------------------- MODULE PoolPassProofs ---------------------------
(***************************************************************************)
(* Theorems about PoolPass.tla, for every value of its constants.          *)
(***************************************************************************)
EXTENDS PoolPass, FiniteSetTheorems, WellFoundedInduction, TLAPS

(***************************************************************************)
(* What a token call leaves is a map of balances again: a transfer and a   *)
(* mint that pass their checks keep every balance between 0 and i128::MAX. *)
(***************************************************************************)
LEMMA TransferType ==
  ASSUME NEW balance \in [Holders -> Balances],
         NEW from \in Holders, NEW to \in Holders, NEW amount \in Int,
         CanTransfer(balance, from, to, amount)
  PROVE  AfterTransfer(balance, from, to, amount) \in [Holders -> Balances]
BY I128MaxAssumption DEF CanTransfer, AfterTransfer, Balances

LEMMA MintType ==
  ASSUME NEW balance \in [Holders -> Balances],
         NEW to \in Holders, NEW amount \in Int, NEW admin, NEW signer,
         CanMint(balance, admin, signer, to, amount)
  PROVE  AfterMint(balance, to, amount) \in [Holders -> Balances]
BY I128MaxAssumption DEF CanMint, AfterMint, Balances

(***************************************************************************)
(* The write of update_accredited_set and advance_epoch: the epoch they    *)
(* store is a u32, because the addition traps at the last one.             *)
(***************************************************************************)
LEMMA NewEpochType ==
  ASSUME ledger \in LedgerType, NEW root \in Roots, ledger.epoch < U32Max
  PROVE  NewEpoch(root) \in LedgerType
<1>1. ledger.epoch + 1 \in Epochs
  BY WidthAssumption DEF LedgerType, Epochs
<1>2. Append(ledger.rootOf, root) \in Seq(Roots)
  BY DEF LedgerType
<1> QED
  BY <1>1, <1>2 DEF NewEpoch, LedgerType

(***************************************************************************)
(* The stored values have their types: balances, the total and the epoch   *)
(* stay within the integers the code keeps them in.                        *)
(***************************************************************************)
THEOREM TypeCorrect == Spec => []TypeOK
<1>1. Init => TypeOK
  BY WidthAssumption, I128MaxAssumption
     DEF Init, TypeOK, LedgerType, CallType, NoCall, Balances, Epochs, Roots, Holders
<1>2. TypeOK /\ [Next]_vars => TypeOK'
  <2> SUFFICES ASSUME TypeOK, [Next]_vars PROVE TypeOK'
    OBVIOUS
  <2> USE DEF TypeOK
  <2>1. ASSUME NEW depth \in Depths, Initialize(Issuer, depth) PROVE TypeOK'
    BY <2>1, InputAssumption DEF Initialize, LedgerType, Callers
  <2>2. ASSUME NEW caller \in Callers, NEW leaves \in Submissions,
               UpdateAccreditedSet(caller, leaves)
        PROVE  TypeOK'
    <3>1. leaves \in Roots
      BY DEF Roots
    <3> QED
      BY <2>2, <3>1, NewEpochType DEF UpdateAccreditedSet
  <2>3. ASSUME NEW caller \in Callers, AdvanceEpoch(caller) PROVE TypeOK'
    <3>1. ledger.root \in Roots
      BY DEF LedgerType
    <3> QED
      BY <2>3, <3>1, NewEpochType DEF AdvanceEpoch
  <2>4. ASSUME NEW investor \in Investors, NEW amount \in Amounts,
               NEW s \in Inputs, SubscribeEnter(investor, amount, s)
        PROVE  TypeOK'
    <3>1. amount \in Amounts \cap Nat
      BY <2>4, InputAssumption DEF SubscribeEnter, SubscribeError
    <3>2. s.nullifier \in Words
          /\ Commitment(s) \in Nullifiers \X Field \X Field
      BY InputAssumption DEF Statements, Commitment, Words
    <3>3. ledger' \in LedgerType
      BY <2>4, <3>2 DEF SubscribeEnter, LedgerType, NoCall, CallType
    <3>4. call' \in CallType
      BY <2>4, <3>1 DEF SubscribeEnter, CallType, NoCall
    <3> QED
      BY <3>3, <3>4
  <2>5. CASE SubscribeTransfer
    <3>1. call \in CallType
      BY <2>5 DEF SubscribeTransfer, AtStep, NoCall
    <3>2. AfterTransfer(ledger.usdc, call.investor, Pool, call.amount)
            \in [Holders -> Balances]
      <4>1. call.investor \in Holders /\ Pool \in Holders /\ call.amount \in Int
        BY <3>1 DEF CallType, Holders
      <4>2. ledger.usdc \in [Holders -> Balances]
        BY DEF LedgerType
      <4> QED
        BY <2>5, <4>1, <4>2, TransferType DEF SubscribeTransfer
    <3>3. ledger' \in LedgerType
      BY <2>5, <3>2 DEF SubscribeTransfer, LedgerType
    <3>4. call' \in CallType
      BY <2>5, <3>1 DEF SubscribeTransfer, CallType
    <3> QED
      BY <3>3, <3>4
  <2>6. CASE SubscribeMint
    <3>1. call \in CallType
      BY <2>6 DEF SubscribeMint, AtStep, NoCall
    <3>2. AfterMint(ledger.shares, call.investor, call.amount)
            \in [Holders -> Balances]
      <4>1. call.investor \in Holders /\ call.amount \in Int
        BY <3>1 DEF CallType, Holders
      <4>2. ledger.shares \in [Holders -> Balances]
        BY DEF LedgerType
      <4> QED
        BY <2>6, <4>1, <4>2, MintType DEF SubscribeMint
    <3>3. ledger' \in LedgerType
      BY <2>6, <3>2 DEF SubscribeMint, LedgerType
    <3>4. call' \in CallType
      BY <2>6, <3>1 DEF SubscribeMint, CallType
    <3> QED
      BY <3>3, <3>4
  <2>7. CASE SubscribeTally
    <3>1. call \in CallType
      BY <2>7 DEF SubscribeTally, AtStep, NoCall
    <3>2. AddSubscribed(call.amount) \in Balances
      BY <2>7, <3>1, I128MaxAssumption
         DEF SubscribeTally, AddSubscribed, CallType, LedgerType, Balances
    <3>3. [investor |-> call.investor, amount |-> call.amount,
           nullifier |-> call.statement.nullifier,
           epoch |-> call.statement.epoch]
            \in [investor : Investors, amount : Amounts \cap Nat,
                 nullifier : Words, epoch : Field]
      BY <3>1, InputAssumption DEF CallType, Statements
    <3> DEFINE event == [investor |-> call.investor, amount |-> call.amount,
                         nullifier |-> call.statement.nullifier,
                         epoch |-> call.statement.epoch]
    <3>4. Append(ledger.events, event)
            \in Seq([investor : Investors, amount : Amounts \cap Nat,
                     nullifier : Words, epoch : Field])
      BY <3>3 DEF LedgerType
    <3>5. ledger' = [ledger EXCEPT !.total = AddSubscribed(call.amount),
                                   !.events = Append(ledger.events, event)]
      BY <2>7 DEF SubscribeTally
    <3>6. ledger' \in LedgerType
      BY <3>2, <3>4, <3>5 DEF LedgerType
    <3> QED
      BY <2>7, <3>6 DEF SubscribeTally
  <2>8. CASE SubscribeFails \/ HostAborts
    BY <2>8 DEF SubscribeFails, HostAborts, RolledBack, AtStep, NoCall, CallType
  <2>9. ASSUME NEW to \in Investors, NEW amount \in Amounts, UsdcMint(to, amount)
        PROVE  TypeOK'
    <3>1. AfterMint(ledger.usdc, to, amount) \in [Holders -> Balances]
      BY <2>9, MintType, InputAssumption DEF UsdcMint, LedgerType, Holders
    <3> QED
      BY <2>9, <3>1 DEF UsdcMint, LedgerType
  <2>10. ASSUME NEW from \in Investors, NEW to \in Holders, NEW amount \in Amounts,
                UsdcTransfer(from, to, amount)
         PROVE  TypeOK'
    <3>1. AfterTransfer(ledger.usdc, from, to, amount) \in [Holders -> Balances]
      BY <2>10, TransferType, InputAssumption DEF UsdcTransfer, LedgerType, Holders
    <3>2. (IF to = Pool THEN ledger.gifts + amount ELSE ledger.gifts) \in Nat
      BY <2>10, InputAssumption DEF UsdcTransfer, CanTransfer, LedgerType
    <3> QED
      BY <2>10, <3>1, <3>2 DEF UsdcTransfer, LedgerType
  <2>11. ASSUME NEW to \in Investors, NEW amount \in Amounts, ShareMint(to, amount)
         PROVE  TypeOK'
    <3>1. AfterMint(ledger.shares, to, amount) \in [Holders -> Balances]
      BY <2>11, MintType, InputAssumption DEF ShareMint, LedgerType, Holders
    <3>2. ledger.loose + amount \in Nat
      BY <2>11, InputAssumption DEF ShareMint, CanMint, LedgerType
    <3> QED
      BY <2>11, <3>1, <3>2 DEF ShareMint, LedgerType
  <2>12. ASSUME NEW from \in Investors, NEW to \in Investors, NEW amount \in Amounts,
                ShareTransfer(from, to, amount)
         PROVE  TypeOK'
    <3>1. AfterTransfer(ledger.shares, from, to, amount) \in [Holders -> Balances]
      BY <2>12, TransferType, InputAssumption DEF ShareTransfer, LedgerType, Holders
    <3>2. (IF from = to THEN ledger.loose + amount ELSE ledger.loose) \in Nat
      BY <2>12, InputAssumption DEF ShareTransfer, CanTransfer, LedgerType
    <3> QED
      BY <2>12, <3>1, <3>2 DEF ShareTransfer, LedgerType
  <2>13. CASE ShareSetAdmin
    BY <2>13 DEF ShareSetAdmin, LedgerType
  <2>14. CASE UNCHANGED vars
    BY <2>14 DEF vars
  <2> QED
    BY <2>1, <2>2, <2>3, <2>4, <2>5, <2>6, <2>7, <2>8, <2>9, <2>10, <2>11,
       <2>12, <2>13, <2>14 DEF Next
<1> QED
  BY <1>1, <1>2, PTL DEF Spec
-----------------------------------------------------------------------------
(***************************************************************************)
(* The inductive invariant behind the settlement properties.  They speak   *)
(* of Committed, which a running subscribe does not change; to show that   *)
(* its last step keeps them, InFlight says how far the running invocation  *)
(* has moved the ledger away from what it began with.                      *)
(***************************************************************************)
InFlight ==
  call # NoCall =>
    LET before == call.saved
        s      == call.statement
    IN  /\ s.nullifier \notin before.nullifiers
        /\ s.nullifier.wraps \in AdmittedWraps
        /\ s.amount = call.amount
        /\ ledger.nullifiers = before.nullifiers \cup {s.nullifier}
        /\ ledger.commitments = before.commitments \cup {Commitment(s)}
        /\ ledger.events = before.events
        /\ ledger.total = before.total
        /\ ledger.gifts = before.gifts
        /\ ledger.usdc[Pool] =
             before.usdc[Pool] + (IF call.step = "transfer" THEN 0 ELSE call.amount)

SettlementInv ==
  /\ SettledOncePerWord
  /\ SettledWordsAdmitted
  /\ MarkedIffSettled
  /\ EscrowCoversTotal
  /\ InFlight

\* What the settlement properties read of a committed ledger.
Accounts(l) == <<l.events, l.nullifiers, l.commitments, l.total,
                 l.gifts, l.usdc[Pool]>>

(***************************************************************************)
(* A step that leaves the accounts of the committed ledger alone keeps     *)
(* the settlement properties.                                              *)
(***************************************************************************)
LEMMA AccountsFrame ==
  ASSUME SettlementInv, Accounts(Committed)' = Accounts(Committed)
  PROVE  /\ SettledOncePerWord'
         /\ SettledWordsAdmitted'
         /\ MarkedIffSettled'
         /\ EscrowCoversTotal'
BY DEF SettlementInv, Accounts, SettledOncePerWord, SettledWordsAdmitted,
       MarkedIffSettled, EscrowCoversTotal

(***************************************************************************)
(* The same for a step outside of any invocation.                          *)
(***************************************************************************)
LEMMA IdleFrame ==
  ASSUME SettlementInv, call = NoCall, call' = NoCall,
         Accounts(ledger)' = Accounts(ledger)
  PROVE  SettlementInv'
<1>1. Accounts(Committed)' = Accounts(Committed)
  BY DEF Committed
<1>2. InFlight'
  BY DEF InFlight
<1> QED
  BY <1>1, <1>2, AccountsFrame DEF SettlementInv

(***************************************************************************)
(* And for a step of a running invocation that goes on.                    *)
(***************************************************************************)
LEMMA RunningFrame ==
  ASSUME SettlementInv, call # NoCall, call' # NoCall, call'.saved = call.saved,
         InFlight'
  PROVE  SettlementInv'
<1>1. Accounts(Committed)' = Accounts(Committed)
  BY DEF Committed, Accounts
<1> QED
  BY <1>1, AccountsFrame DEF SettlementInv

(***************************************************************************)
(* A transfer credits the recipient and touches nobody but the two ends.   *)
(***************************************************************************)
LEMMA TransferEffect ==
  ASSUME NEW balance \in [Holders -> Balances],
         NEW from \in Investors, NEW to \in Holders, NEW amount \in Int
  PROVE  AfterTransfer(balance, from, to, amount)[Pool] =
           IF to = Pool THEN balance[Pool] + amount ELSE balance[Pool]
BY AddressAssumption DEF AfterTransfer, Holders, Callers

(***************************************************************************)
(* Appending to a sequence adds one index and changes no other element.    *)
(***************************************************************************)
LEMMA AppendFacts ==
  ASSUME NEW T, NEW seq \in Seq(T), NEW e
  PROVE  /\ DOMAIN Append(seq, e) = DOMAIN seq \cup {Len(seq) + 1}
         /\ \A i \in DOMAIN seq : Append(seq, e)[i] = seq[i]
         /\ Append(seq, e)[Len(seq) + 1] = e
<1>1. seq \in Seq(T \cup {e})
  OBVIOUS
<1>2. /\ Append(seq, e) \in Seq(T \cup {e})
      /\ Len(Append(seq, e)) = Len(seq) + 1
      /\ \A i \in 1..Len(seq) : Append(seq, e)[i] = seq[i]
      /\ Append(seq, e)[Len(seq) + 1] = e
  BY <1>1
<1>3. /\ DOMAIN seq = 1..Len(seq)
      /\ DOMAIN Append(seq, e) = 1..(Len(seq) + 1)
      /\ Len(seq) \in Nat
  BY <1>1, <1>2
<1> QED
  BY <1>2, <1>3

(***************************************************************************)
(* No nullifier is paid for twice, marks and payments coincide, and the    *)
(* escrow holds the total: SettlementInv is an invariant.                  *)
(***************************************************************************)
THEOREM SettlementCorrect == Spec => []SettlementInv
<1>1. Init => SettlementInv
  BY DEF Init, SettlementInv, SettledOncePerWord, SettledWordsAdmitted,
         MarkedIffSettled, EscrowCoversTotal, InFlight, Committed, NoCall, Holders
<1>2. TypeOK /\ SettlementInv /\ [Next]_vars => SettlementInv'
  <2> SUFFICES ASSUME TypeOK, SettlementInv, [Next]_vars PROVE SettlementInv'
    OBVIOUS
  <2>1. ASSUME NEW depth \in Depths, Initialize(Issuer, depth)
        PROVE  SettlementInv'
    <3>1. Accounts(ledger)' = Accounts(ledger)
      BY <2>1 DEF Initialize, Accounts, TypeOK, LedgerType
    <3> QED
      BY <2>1, <3>1, IdleFrame DEF Initialize
  <2>2. ASSUME NEW caller \in Callers, NEW leaves \in Submissions,
               UpdateAccreditedSet(caller, leaves)
        PROVE  SettlementInv'
    <3>1. Accounts(ledger)' = Accounts(ledger)
      BY <2>2 DEF UpdateAccreditedSet, NewEpoch, Accounts, TypeOK, LedgerType
    <3> QED
      BY <2>2, <3>1, IdleFrame DEF UpdateAccreditedSet
  <2>3. ASSUME NEW caller \in Callers, AdvanceEpoch(caller)
        PROVE  SettlementInv'
    <3>1. Accounts(ledger)' = Accounts(ledger)
      BY <2>3 DEF AdvanceEpoch, NewEpoch, Accounts, TypeOK, LedgerType
    <3> QED
      BY <2>3, <3>1, IdleFrame DEF AdvanceEpoch
  <2>4. ASSUME NEW investor \in Investors, NEW amount \in Amounts,
               NEW s \in Inputs, SubscribeEnter(investor, amount, s)
        PROVE  SettlementInv'
    <3>1. /\ call = NoCall
          /\ call' # NoCall
          /\ call'.saved = ledger
          /\ call'.step = "transfer"
          /\ call'.statement = s
          /\ call'.amount = amount
      BY <2>4 DEF SubscribeEnter, NoCall
    <3>2. Accounts(Committed)' = Accounts(Committed)
      BY <3>1 DEF Committed, Accounts
    <3>3. /\ s.amount = amount
          /\ s.nullifier \notin ledger.nullifiers
          /\ s.nullifier.wraps \in AdmittedWraps
      BY <2>4 DEF SubscribeEnter, SubscribeError, AmountMatches, NullifierFresh,
                  HostTakes
    <3>4. /\ ledger'.nullifiers = ledger.nullifiers \cup {s.nullifier}
          /\ ledger'.commitments = ledger.commitments \cup {Commitment(s)}
          /\ UNCHANGED <<ledger.events, ledger.total, ledger.gifts, ledger.usdc>>
      BY <2>4 DEF SubscribeEnter, TypeOK, LedgerType
    <3>5. ledger'.usdc[Pool] = ledger.usdc[Pool] + 0
      BY <3>4 DEF TypeOK, LedgerType, Holders, Balances
    <3>6. InFlight'
      BY <3>1, <3>3, <3>4, <3>5 DEF InFlight
    <3> QED
      BY <3>2, <3>6, AccountsFrame DEF SettlementInv
  <2>5. CASE SubscribeTransfer
    <3>1. call \in CallType /\ call # NoCall
      BY <2>5 DEF SubscribeTransfer, AtStep, NoCall, TypeOK
    <3>2. /\ call.step = "transfer"
          /\ call' = [call EXCEPT !.step = "mint"]
          /\ call' # NoCall
      BY <2>5, <3>1 DEF SubscribeTransfer, AtStep, CallType, NoCall
    <3>3. ledger'.usdc[Pool] = ledger.usdc[Pool] + call.amount
      <4>1. call.investor \in Investors /\ Pool \in Holders /\ call.amount \in Int
        BY <3>1 DEF CallType, Holders
      <4>2. ledger.usdc \in [Holders -> Balances]
        BY DEF TypeOK, LedgerType
      <4>3. ledger'.usdc = AfterTransfer(ledger.usdc, call.investor, Pool, call.amount)
        BY <2>5 DEF SubscribeTransfer, TypeOK, LedgerType
      <4> QED
        BY <4>1, <4>2, <4>3, TransferEffect
    <3>4. UNCHANGED <<ledger.events, ledger.total, ledger.gifts,
                      ledger.nullifiers, ledger.commitments>>
      BY <2>5 DEF SubscribeTransfer, TypeOK, LedgerType
    <3>5. ledger.usdc[Pool] = call.saved.usdc[Pool]
      BY <3>1, <3>2 DEF SettlementInv, InFlight, CallType, LedgerType, Balances,
                        Holders
    <3>6. InFlight'
      BY <3>1, <3>2, <3>3, <3>4, <3>5 DEF SettlementInv, InFlight, CallType
    <3> QED
      BY <3>1, <3>2, <3>6, RunningFrame DEF CallType
  <2>6. CASE SubscribeMint
    <3>1. call \in CallType /\ call # NoCall
      BY <2>6 DEF SubscribeMint, AtStep, NoCall, TypeOK
    <3>2. /\ call.step = "mint"
          /\ call' = [call EXCEPT !.step = "tally"]
          /\ call' # NoCall
      BY <2>6, <3>1 DEF SubscribeMint, AtStep, CallType, NoCall
    <3>3. UNCHANGED <<ledger.events, ledger.total, ledger.gifts, ledger.usdc,
                      ledger.nullifiers, ledger.commitments>>
      BY <2>6 DEF SubscribeMint, TypeOK, LedgerType
    <3>4. InFlight'
      BY <3>1, <3>2, <3>3 DEF SettlementInv, InFlight, CallType
    <3> QED
      BY <3>1, <3>2, <3>4, RunningFrame DEF CallType
  <2>7. CASE SubscribeTally
    <3>1. call \in CallType /\ call # NoCall /\ call' = NoCall
      BY <2>7 DEF SubscribeTally, AtStep, NoCall, TypeOK
    <3> DEFINE before == call.saved
               s      == call.statement
               event  == [investor |-> call.investor, amount |-> call.amount,
                          nullifier |-> s.nullifier, epoch |-> s.epoch]
    <3>2. /\ ledger'.events = Append(before.events, event)
          /\ ledger'.total = before.total + call.amount
          /\ ledger'.nullifiers = before.nullifiers \cup {s.nullifier}
          /\ ledger'.commitments =
               before.commitments \cup
                 {<<s.nullifier.element, call.amount, s.epoch>>}
          /\ ledger'.gifts = before.gifts
          /\ ledger'.usdc[Pool] = before.usdc[Pool] + call.amount
      BY <2>7, <3>1
         DEF SubscribeTally, AddSubscribed, AtStep, SettlementInv, InFlight,
             Commitment, TypeOK, LedgerType
    <3>3. Committed = before /\ Committed' = ledger'
      BY <3>1 DEF Committed
    <3> DEFINE Event == [investor : Investors, amount : Amounts \cap Nat,
                         nullifier : Words, epoch : Field]
    <3>4. before.events \in Seq(Event)
      BY <3>1 DEF CallType, LedgerType
    <3>5. /\ DOMAIN ledger'.events = DOMAIN before.events \cup {Len(before.events) + 1}
          /\ \A i \in DOMAIN before.events : ledger'.events[i] = before.events[i]
          /\ ledger'.events[Len(before.events) + 1] = event
      <4>1. ledger'.events = Append(before.events, event)
        BY <3>2
      <4> HIDE DEF event, Event
      <4> QED
        BY <3>4, <4>1, AppendFacts
    <3>6. \A i \in DOMAIN before.events :
             before.events[i].nullifier \in before.nullifiers
      BY <3>3 DEF SettlementInv, MarkedIffSettled
    <3>7. s.nullifier \notin before.nullifiers
      BY <3>1 DEF SettlementInv, InFlight
    <3>8. SettledOncePerWord'
      BY <3>3, <3>5, <3>6, <3>7 DEF SettlementInv, SettledOncePerWord
    <3>9. MarkedIffSettled'
      <4> DEFINE Old == {before.events[i] : i \in DOMAIN before.events}
                 New == {ledger'.events[i] : i \in DOMAIN ledger'.events}
      <4>1. New = Old \cup {event}
        BY <3>5
      <4>2. /\ before.nullifiers = {e.nullifier : e \in Old}
            /\ before.commitments =
                 {<<e.nullifier.element, e.amount, e.epoch>> : e \in Old}
        BY <3>3 DEF SettlementInv, MarkedIffSettled
      <4>3. {e.nullifier : e \in New} = {e.nullifier : e \in Old} \cup {s.nullifier}
        <5>1. event.nullifier = s.nullifier
          OBVIOUS
        <5> HIDE DEF event, Old, New
        <5> QED
          BY <4>1, <5>1
      <4>4. {<<e.nullifier.element, e.amount, e.epoch>> : e \in New} =
               {<<e.nullifier.element, e.amount, e.epoch>> : e \in Old}
                 \cup {<<s.nullifier.element, call.amount, s.epoch>>}
        <5>1. <<event.nullifier.element, event.amount, event.epoch>> =
                <<s.nullifier.element, call.amount, s.epoch>>
          OBVIOUS
        <5> HIDE DEF event, Old, New
        <5> QED
          BY <4>1, <5>1
      <4>5. /\ ledger'.nullifiers = {e.nullifier : e \in New}
            /\ ledger'.commitments =
                 {<<e.nullifier.element, e.amount, e.epoch>> : e \in New}
        <5> HIDE DEF Old, New, event
        <5> QED
          BY <3>2, <4>2, <4>3, <4>4
      <4> QED
        BY <3>3, <4>5 DEF MarkedIffSettled
    <3>10. EscrowCoversTotal'
      BY <3>1, <3>2, <3>3
         DEF SettlementInv, EscrowCoversTotal, CallType, LedgerType, Balances, Holders
    <3>11. InFlight'
      BY <3>1 DEF InFlight
    <3>12. SettledWordsAdmitted'
      <4>1. event.nullifier.wraps \in AdmittedWraps
        BY <3>1 DEF SettlementInv, InFlight
      <4> HIDE DEF event
      <4> QED
        BY <3>3, <3>5, <4>1 DEF SettlementInv, SettledWordsAdmitted
    <3> QED
      BY <3>8, <3>9, <3>10, <3>11, <3>12 DEF SettlementInv
  <2>8. CASE SubscribeFails \/ HostAborts
    <3>1. call # NoCall /\ call' = NoCall /\ ledger' = call.saved
      BY <2>8 DEF SubscribeFails, HostAborts, RolledBack, AtStep, NoCall
    <3>2. Accounts(Committed)' = Accounts(Committed)
      BY <3>1 DEF Committed, Accounts
    <3>3. InFlight'
      BY <3>1 DEF InFlight
    <3> QED
      BY <3>2, <3>3, AccountsFrame DEF SettlementInv
  <2>9. ASSUME NEW to \in Investors, NEW amount \in Amounts, UsdcMint(to, amount)
        PROVE  SettlementInv'
    <3>1. ledger'.usdc[Pool] = ledger.usdc[Pool]
      BY <2>9, AddressAssumption
         DEF UsdcMint, AfterMint, TypeOK, LedgerType, Holders, Callers
    <3>2. Accounts(ledger)' = Accounts(ledger)
      BY <2>9, <3>1 DEF UsdcMint, Accounts, TypeOK, LedgerType
    <3> QED
      BY <2>9, <3>2, IdleFrame DEF UsdcMint
  <2>10. ASSUME NEW from \in Investors, NEW to \in Holders, NEW amount \in Amounts,
                UsdcTransfer(from, to, amount)
         PROVE  SettlementInv'
    <3>1. call = NoCall /\ call' = NoCall
      BY <2>10 DEF UsdcTransfer
    <3>2. UNCHANGED <<ledger.events, ledger.total, ledger.nullifiers,
                      ledger.commitments>>
      BY <2>10 DEF UsdcTransfer, TypeOK, LedgerType
    <3>3. amount \in Int
      BY InputAssumption
    <3>4. ledger'.usdc[Pool] - ledger'.gifts = ledger.usdc[Pool] - ledger.gifts
      <4>1. ledger'.usdc[Pool] =
              IF to = Pool THEN ledger.usdc[Pool] + amount ELSE ledger.usdc[Pool]
        BY <2>10, <3>3, TransferEffect DEF UsdcTransfer, TypeOK, LedgerType
      <4>2. ledger'.gifts = IF to = Pool THEN ledger.gifts + amount ELSE ledger.gifts
        BY <2>10 DEF UsdcTransfer, TypeOK, LedgerType
      <4> QED
        BY <3>3, <4>1, <4>2 DEF TypeOK, LedgerType, Balances, Holders
    <3>5. Committed = ledger /\ Committed' = ledger'
      BY <3>1 DEF Committed
    <3>6. ledger'.usdc[Pool] \in Int /\ ledger'.gifts \in Int
      <4>1. ledger.usdc[Pool] \in Int /\ ledger.gifts \in Int
        BY DEF TypeOK, LedgerType, Balances, Holders
      <4>2. ledger.usdc \in [Holders -> Balances]
        BY DEF TypeOK, LedgerType
      <4>3. ledger'.usdc = AfterTransfer(ledger.usdc, from, to, amount)
        BY <2>10 DEF UsdcTransfer, TypeOK, LedgerType
      <4>4. ledger'.usdc[Pool] \in Int
        BY <3>3, <4>1, <4>2, <4>3, TransferEffect
      <4>5. ledger'.gifts = IF to = Pool THEN ledger.gifts + amount ELSE ledger.gifts
        BY <2>10 DEF UsdcTransfer, TypeOK, LedgerType
      <4> QED
        BY <3>3, <4>1, <4>4, <4>5
    <3>7. EscrowCoversTotal'
      <4>1. /\ ledger.usdc[Pool] = ledger.total + ledger.gifts
            /\ ledger.usdc[Pool] \in Int /\ ledger.gifts \in Int /\ ledger.total \in Int
        BY <3>5 DEF SettlementInv, EscrowCoversTotal, TypeOK, LedgerType,
                    Balances, Holders
      <4>2. ledger'.usdc[Pool] = ledger'.total + ledger'.gifts
        BY <3>2, <3>4, <3>6, <4>1
      <4> QED
        BY <3>5, <4>2 DEF EscrowCoversTotal
    <3>8. SettledOncePerWord' /\ SettledWordsAdmitted' /\ MarkedIffSettled'
      BY <3>2, <3>5 DEF SettlementInv, SettledOncePerWord,
                        SettledWordsAdmitted, MarkedIffSettled
    <3>9. InFlight'
      BY <3>1 DEF InFlight
    <3> QED
      BY <3>7, <3>8, <3>9 DEF SettlementInv
  <2>11. ASSUME NEW to \in Investors, NEW amount \in Amounts, ShareMint(to, amount)
         PROVE  SettlementInv'
    <3>1. Accounts(ledger)' = Accounts(ledger)
      BY <2>11 DEF ShareMint, Accounts, TypeOK, LedgerType
    <3> QED
      BY <2>11, <3>1, IdleFrame DEF ShareMint
  <2>12. ASSUME NEW from \in Investors, NEW to \in Investors, NEW amount \in Amounts,
                ShareTransfer(from, to, amount)
         PROVE  SettlementInv'
    <3>1. Accounts(ledger)' = Accounts(ledger)
      BY <2>12 DEF ShareTransfer, Accounts, TypeOK, LedgerType
    <3> QED
      BY <2>12, <3>1, IdleFrame DEF ShareTransfer
  <2>13. CASE ShareSetAdmin
    <3>1. Accounts(ledger)' = Accounts(ledger)
      BY <2>13 DEF ShareSetAdmin, Accounts, TypeOK, LedgerType
    <3> QED
      BY <2>13, <3>1, IdleFrame DEF ShareSetAdmin
  <2>14. CASE UNCHANGED vars
    BY <2>14 DEF vars, SettlementInv, SettledOncePerWord,
                 SettledWordsAdmitted, MarkedIffSettled, EscrowCoversTotal,
                 InFlight, Committed
  <2> QED
    BY <2>1, <2>2, <2>3, <2>4, <2>5, <2>6, <2>7, <2>8, <2>9, <2>10, <2>11,
       <2>12, <2>13, <2>14 DEF Next
<1> QED
  BY <1>1, <1>2, TypeCorrect, PTL DEF Spec
-----------------------------------------------------------------------------
(***************************************************************************)
(* In an epoch a secret settles at most once under each word that the host *)
(* takes for its nullifier, and under no other, whichever words it takes.  *)
(***************************************************************************)
THEOREM NoDoubleSettlement == Spec => []OneSettlementPerNullifier
<1>1. SettlementInv => OneSettlementPerNullifier
  BY DEF SettlementInv, OneSettlementPerNullifier
<1> QED
  BY <1>1, SettlementCorrect, PTL

(***************************************************************************)
(* Of one secret, at most one subscription settles in one epoch: what the  *)
(* replay check is for.  It does not hold for every AdmittedWraps.         *)
(***************************************************************************)
OneSettlementPerSecret ==
  \A i, j \in DOMAIN Committed.events :
    Committed.events[i].nullifier.element = Committed.events[j].nullifier.element
      => i = j

(***************************************************************************)
(* It holds if the host takes canonical words only: the contract does not  *)
(* compare the word with the field order, so this is what it has to get    *)
(* from the host.                                                          *)
(***************************************************************************)
THEOREM OnceInAnEpoch ==
  ASSUME AdmittedWraps = {0}
  PROVE  Spec => []OneSettlementPerSecret
<1>1. TypeOK /\ SettlementInv => OneSettlementPerSecret
  <2> SUFFICES ASSUME TypeOK, SettlementInv,
                      NEW i \in DOMAIN Committed.events,
                      NEW j \in DOMAIN Committed.events,
                      Committed.events[i].nullifier.element =
                        Committed.events[j].nullifier.element
               PROVE  i = j
    BY DEF OneSettlementPerSecret
  <2> DEFINE n == Committed.events[i].nullifier
             m == Committed.events[j].nullifier
  <2>1. n \in Words /\ m \in Words
    <3> DEFINE Event == [investor : Investors, amount : Amounts \cap Nat,
                         nullifier : Words, epoch : Field]
    <3>1. Committed.events \in Seq(Event)
      BY DEF Committed, TypeOK, CallType, LedgerType, NoCall
    <3>2. Committed.events[i] \in Event /\ Committed.events[j] \in Event
      <4> HIDE DEF Event
      <4> QED
        BY <3>1
    <3> QED
      BY <3>2
  <2>2. n.wraps = 0 /\ m.wraps = 0
    BY DEF SettlementInv, SettledWordsAdmitted
  <2>3. n = m
    BY <2>1, <2>2 DEF Words
  <2> QED
    BY <2>3 DEF SettlementInv, SettledOncePerWord
<1> QED
  BY <1>1, TypeCorrect, SettlementCorrect, PTL

(***************************************************************************)
(* Nullifiers and commitments are stored exactly for what was paid.        *)
(***************************************************************************)
THEOREM MarksFollowPayment == Spec => []MarkedIffSettled
<1>1. SettlementInv => MarkedIffSettled
  BY DEF SettlementInv
<1> QED
  BY <1>1, SettlementCorrect, PTL

(***************************************************************************)
(* The contract holds what it counted, and what it was given.              *)
(***************************************************************************)
THEOREM EscrowHoldsTotal == Spec => []EscrowCoversTotal
<1>1. SettlementInv => EscrowCoversTotal
  BY DEF SettlementInv
<1> QED
  BY <1>1, SettlementCorrect, PTL

(***************************************************************************)
(* The tally of a subscription that has been paid cannot overflow: the     *)
(* escrow balance, which is at least as large, did not.                    *)
(***************************************************************************)
THEOREM TallyIsSafe == Spec => []TallyNeverOverflows
<1>1. TypeOK /\ SettlementInv => TallyNeverOverflows
  <2> SUFFICES ASSUME TypeOK, SettlementInv, AtStep("tally")
               PROVE  ledger.total + call.amount <= I128Max
    BY DEF TallyNeverOverflows
  <2>1. call \in CallType /\ call # NoCall /\ call.step = "tally"
    BY DEF TypeOK, AtStep, NoCall
  <2> DEFINE before == call.saved
  <2>2. /\ ledger.usdc[Pool] = before.usdc[Pool] + call.amount
        /\ ledger.total = before.total
    BY <2>1 DEF SettlementInv, InFlight
  <2>3. before.usdc[Pool] = before.total + before.gifts
    BY <2>1 DEF SettlementInv, EscrowCoversTotal, Committed
  <2>4. /\ ledger.usdc[Pool] \in 0..I128Max
        /\ before.total \in Nat /\ before.gifts \in Nat /\ call.amount \in Nat
    BY SMTT(30), <2>1 DEF TypeOK, CallType, LedgerType, Balances, Holders
  <2> QED
    BY <2>2, <2>3, <2>4, I128MaxAssumption
<1> QED
  BY <1>1, TypeCorrect, SettlementCorrect, PTL

(***************************************************************************)
(* What LessEqThan(64) means for an amount that the contract accepts: if   *)
(* the amount fits in 64 bits, it really is at most the cap, whatever      *)
(* field element the cap is.                                               *)
(***************************************************************************)
THEOREM ComparatorIsSound ==
  ASSUME NEW amount \in 0..U64Max, NEW cap \in Field, WithinCap(amount, cap)
  PROVE  amount <= cap
BY WidthAssumption DEF WithinCap, FieldAdd, FieldSub, Field

(***************************************************************************)
(* And it refuses no amount within a cap that fits in 64 bits.             *)
(***************************************************************************)
THEOREM ComparatorIsComplete ==
  ASSUME NEW cap \in 0..U64Max, NEW amount \in 0..cap
  PROVE  WithinCap(amount, cap)
BY WidthAssumption DEF WithinCap, FieldAdd, FieldSub

-----------------------------------------------------------------------------
(***************************************************************************)
(* The library's fold over a function: the element that it takes next, and *)
(* the equation that it solves on the subsets of T.                        *)
(***************************************************************************)
Picked(s) == CHOOSE x \in s : TRUE

Sums(g, f, T) ==
  g = [s \in SUBSET T |->
         IF s = {} THEN 0 ELSE f[Picked(s)] + g[s \ {Picked(s)}]]

(***************************************************************************)
(* The library's sum over a function is that fold.                         *)
(***************************************************************************)
LEMMA SumFunctionIs ==
  ASSUME NEW f
  PROVE  SumFunction(f) = (CHOOSE g : Sums(g, f, DOMAIN f))[DOMAIN f]
BY DEF SumFunction, SumFunctionOnSet, FoldFunctionOnSet, MapThenFoldSet, Sums, Picked

(***************************************************************************)
(* Induction over the subsets of a finite set, as a fact about sets: what  *)
(* holds of no smallest set that lacks it holds of every set.              *)
(***************************************************************************)
LEMMA SmallestSubset ==
  ASSUME NEW S, IsFiniteSet(S), NEW Bad \in SUBSET (SUBSET S), Bad # {}
  PROVE  \E s \in Bad : \A t \in SUBSET s : t # s => t \notin Bad
<1>1. IsWellFoundedOn(StrictSubsetOrdering(S), SUBSET S)
  BY FS_StrictSubsetOrderingWellFounded, FS_FiniteSubsetsOfFinite
<1>2. PICK s \in Bad : \A t \in Bad : <<t, s>> \notin StrictSubsetOrdering(S)
  BY <1>1, WFMin
<1>3. ASSUME NEW t \in SUBSET s, t # s PROVE t \notin Bad
  BY <1>2, <1>3 DEF StrictSubsetOrdering
<1> QED
  BY <1>3

(***************************************************************************)
(* There is at most one such function on the subsets of a finite set.      *)
(***************************************************************************)
LEMMA SumsUnique ==
  ASSUME NEW S, IsFiniteSet(S), NEW f, NEW g, NEW h,
         Sums(g, f, S), Sums(h, f, S)
  PROVE  g = h
<1> DEFINE Bad == {s \in SUBSET S : g[s] # h[s]}
<1>1. Bad = {}
  <2> SUFFICES ASSUME Bad # {} PROVE FALSE
    OBVIOUS
  <2>1. PICK s \in Bad : \A t \in SUBSET s : t # s => t \notin Bad
    <3> HIDE DEF Bad
    <3>1. Bad \in SUBSET (SUBSET S)
      BY DEF Bad
    <3> QED
      BY <3>1, SmallestSubset
  <2>2. /\ g[s] = IF s = {} THEN 0 ELSE f[Picked(s)] + g[s \ {Picked(s)}]
        /\ h[s] = IF s = {} THEN 0 ELSE f[Picked(s)] + h[s \ {Picked(s)}]
    BY DEF Sums
  <2>3. s # {}
    BY <2>1, <2>2
  <2>4. Picked(s) \in s
    BY <2>3 DEF Picked
  <2>5. g[s \ {Picked(s)}] = h[s \ {Picked(s)}]
    BY <2>1, <2>4
  <2> QED
    BY <2>1, <2>2, <2>5
<1>2. g = [s \in SUBSET S |-> g[s]] /\ h = [s \in SUBSET S |-> h[s]]
  BY DEF Sums
<1>3. \A s \in SUBSET S : g[s] = h[s]
  BY <1>1
<1> QED
  <2>1. [s \in SUBSET S |-> g[s]] = [s \in SUBSET S |-> h[s]]
    BY <1>3
  <2> QED
    BY <2>1, <1>2

(***************************************************************************)
(* And there is at least one.                                              *)
(***************************************************************************)
LEMMA SumsExist ==
  ASSUME NEW S, IsFiniteSet(S), NEW f
  PROVE  \E g : Sums(g, f, S)
<1> DEFINE Bad == {s \in SUBSET S : ~ \E g : Sums(g, f, s)}
<1>1. Bad = {}
  <2> SUFFICES ASSUME Bad # {} PROVE FALSE
    OBVIOUS
  <2>1. PICK s \in Bad : \A t \in SUBSET s : t # s => t \notin Bad
    <3> HIDE DEF Bad
    <3>1. Bad \in SUBSET (SUBSET S)
      BY DEF Bad
    <3> QED
      BY <3>1, SmallestSubset
  <2> DEFINE Of(t)    == CHOOSE g : Sums(g, f, t)
             Value(t) == IF t = {} THEN 0
                         ELSE f[Picked(t)] + Of(t \ {Picked(t)})[t \ {Picked(t)}]
             h        == [t \in SUBSET s |-> Value(t)]
  <2>2. \A t \in SUBSET s : t # s => Sums(Of(t), f, t)
    <3> TAKE t \in SUBSET s
    <3>1. t # s => \E g : Sums(g, f, t)
      BY <2>1
    <3> HIDE DEF Bad
    <3> QED
      BY <3>1
  <2>3. ASSUME NEW t \in SUBSET s, t # s, NEW u \in SUBSET t
        PROVE  Of(t)[u] = Of(u)[u]
    <3>1. Sums(Of(t), f, t) /\ Sums(Of(u), f, u)
      BY <2>2, <2>3
    <3> DEFINE k == [v \in SUBSET u |-> Of(t)[v]]
    <3> HIDE DEF Of, Bad
    <3>2. Sums(k, f, u)
      <4>1. ASSUME NEW v \in SUBSET u
            PROVE  k[v] = IF v = {} THEN 0
                          ELSE f[Picked(v)] + k[v \ {Picked(v)}]
        <5>1. Of(t)[v] = IF v = {} THEN 0
                         ELSE f[Picked(v)] + Of(t)[v \ {Picked(v)}]
          BY <3>1 DEF Sums
        <5> QED
          BY <5>1
      <4>2. k = [v \in SUBSET u |-> k[v]]
        OBVIOUS
      <4> HIDE DEF k
      <4> QED
        BY <4>1, <4>2 DEF Sums
    <3>3. IsFiniteSet(u)
      BY FS_Subset DEF Bad
    <3>4. k = Of(u)
      <4> HIDE DEF k
      <4> QED
        BY <3>1, <3>2, <3>3, SumsUnique
    <3> QED
      BY <3>4
  <2>4. ASSUME NEW t \in SUBSET s
        PROVE  h[t] = IF t = {} THEN 0 ELSE f[Picked(t)] + h[t \ {Picked(t)}]
    <3>1. CASE t = {}
      BY <3>1
    <3>2. CASE t # {}
      <4> DEFINE u == t \ {Picked(t)}
      <4>1. Picked(t) \in t
        BY <3>2 DEF Picked
      <4>2. u \in SUBSET s /\ u # s
        BY <4>1
      <4>3. h[t] = f[Picked(t)] + Of(u)[u]
        BY <3>2
      <4>4. Sums(Of(u), f, u)
        BY <2>2, <4>2
      <4>5. h[u] = Value(u)
        BY <4>2
      <4>6. Of(u)[u] = IF u = {} THEN 0 ELSE f[Picked(u)] + Of(u)[u \ {Picked(u)}]
        <5> HIDE DEF Of, u
        <5> QED
          BY <4>4 DEF Sums
      <4>7. u # {} => Of(u)[u \ {Picked(u)}] = Of(u \ {Picked(u)})[u \ {Picked(u)}]
        <5>1. u \ {Picked(u)} \in SUBSET u
          OBVIOUS
        <5> HIDE DEF Of, u
        <5> QED
          BY <2>3, <4>2, <5>1
      <4>8. h[u] = Of(u)[u]
        <5> HIDE DEF h, Of, u
        <5> QED
          BY <4>5, <4>6, <4>7
      <4> HIDE DEF h, Of, Value
      <4> QED
        BY <3>2, <4>3, <4>8
    <3> QED
      BY <3>1, <3>2
  <2>5. Sums(h, f, s)
    <3>1. h = [t \in SUBSET s |-> h[t]]
      OBVIOUS
    <3> HIDE DEF h
    <3> QED
      BY <2>4, <3>1 DEF Sums
  <2> HIDE DEF h
  <2> QED
    BY <2>1, <2>5
<1>2. S \notin Bad
  BY <1>1
<1> QED
  BY <1>2

Partial(f) == CHOOSE g : Sums(g, f, DOMAIN f)

IsPartial(g, f, S) ==
  /\ g \in [SUBSET S -> Int]
  /\ g[{}] = 0
  /\ \A s \in SUBSET S : s # {} => g[s] = f[Picked(s)] + g[s \ {Picked(s)}]

(***************************************************************************)
(* The partial sums of a function to the integers are integers.            *)
(***************************************************************************)
LEMMA PartialSums ==
  ASSUME NEW S, IsFiniteSet(S), NEW f \in [S -> Int]
  PROVE  IsPartial(Partial(f), f, S)
<1> DEFINE g == Partial(f)
<1>1. Sums(g, f, S)
  BY SumsExist DEF Partial
<1> HIDE DEF g
<1>2. /\ g[{}] = 0
      /\ \A s \in SUBSET S : s # {} => g[s] = f[Picked(s)] + g[s \ {Picked(s)}]
      /\ g = [s \in SUBSET S |-> g[s]]
  BY <1>1 DEF Sums
<1> DEFINE Bad == {s \in SUBSET S : g[s] \notin Int}
<1>3. Bad = {}
  <2> SUFFICES ASSUME Bad # {} PROVE FALSE
    OBVIOUS
  <2>1. PICK s \in Bad : \A t \in SUBSET s : t # s => t \notin Bad
    <3> HIDE DEF Bad
    <3>1. Bad \in SUBSET (SUBSET S)
      BY DEF Bad
    <3> QED
      BY <3>1, SmallestSubset
  <2>2. /\ s \in SUBSET S /\ g[s] \notin Int
        /\ \A t \in SUBSET s : t # s => g[t] \in Int
    BY <2>1
  <2> HIDE DEF Bad
  <2>3. s # {}
    <3>1. g[{}] \in Int
      BY <1>2
    <3> QED
      BY <2>2, <3>1
  <2>4. Picked(s) \in s
    BY <2>3 DEF Picked
  <2>5. g[s \ {Picked(s)}] \in Int /\ f[Picked(s)] \in Int
    BY <2>2, <2>4
  <2>6. g[s] = f[Picked(s)] + g[s \ {Picked(s)}]
    BY <2>2, <2>3, <1>2
  <2> QED
    BY <2>2, <2>5, <2>6
<1>4. g \in [SUBSET S -> Int]
  <2>1. \A s \in SUBSET S : g[s] \in Int
    BY <1>3
  <2> QED
    BY <2>1, <1>2
<1> QED
  BY <1>2, <1>4 DEF g, IsPartial

(***************************************************************************)
(* The sum of a function is its partial sum over its whole domain.         *)
(***************************************************************************)
LEMMA SumIsPartial ==
  ASSUME NEW S, NEW f \in [S -> Int]
  PROVE  SumFunction(f) = Partial(f)[S]
<1>1. DOMAIN f = S
  OBVIOUS
<1> QED
  BY <1>1, SumFunctionIs DEF Partial

(***************************************************************************)
(* Whatever element is taken next, the sum is the same: addition is        *)
(* commutative and associative, so that the choice the fold makes does not *)
(* matter.                                                                 *)
(***************************************************************************)
LEMMA AnyMayBeNext ==
  ASSUME NEW S, IsFiniteSet(S), NEW f \in [S -> Int],
         NEW s \in SUBSET S, NEW x \in s
  PROVE  Partial(f)[s] = f[x] + Partial(f)[s \ {x}]
<1> DEFINE g   == Partial(f)
           Bad == {t \in SUBSET S : \E y \in t : g[t] # f[y] + g[t \ {y}]}
<1>a. IsPartial(g, f, S)
  BY PartialSums
<1> HIDE DEF g
<1>1. /\ g \in [SUBSET S -> Int]
      /\ \A t \in SUBSET S : t # {} => g[t] = f[Picked(t)] + g[t \ {Picked(t)}]
  BY <1>a DEF IsPartial
<1>2. Bad = {}
  <2> SUFFICES ASSUME Bad # {} PROVE FALSE
    OBVIOUS
  <2>1. PICK t \in Bad : \A u \in SUBSET t : u # t => u \notin Bad
    <3> HIDE DEF Bad
    <3>1. Bad \in SUBSET (SUBSET S)
      BY DEF Bad
    <3> QED
      BY <3>1, SmallestSubset
  <2>2. PICK y \in t : g[t] # f[y] + g[t \ {y}]
    BY <2>1
  <2> DEFINE p    == Picked(t)
             both == (t \ {p}) \ {y}
  <2>3. t \in SUBSET S /\ p \in t
    BY <2>1, <2>2 DEF Picked
  <2>4. g[t] = f[p] + g[t \ {p}]
    <3>1. t # {}
      BY <2>3
    <3> QED
      BY <2>3, <3>1, <1>1
  <2>5. p # y
    BY <2>2, <2>4
  <2>6. \A u \in SUBSET t : u # t => \A z \in u : g[u] = f[z] + g[u \ {z}]
    BY <2>1
  <2> HIDE DEF Bad, p
  <2>7. g[t \ {p}] = f[y] + g[both]
    BY <2>3, <2>5, <2>6
  <2>8. g[t \ {y}] = f[p] + g[both]
    <3>1. (t \ {y}) \ {p} = both
      OBVIOUS
    <3> QED
      BY <2>2, <2>3, <2>5, <2>6, <3>1
  <2>9. f[p] \in Int /\ f[y] \in Int /\ g[both] \in Int
    BY <2>3, <1>1
  <2> QED
    BY <2>2, <2>4, <2>7, <2>8, <2>9
<1> QED
  BY <1>2 DEF g

(***************************************************************************)
(* Adding to one summand adds to the sum.                                  *)
(***************************************************************************)
Adding(f, x, d) == [f EXCEPT ![x] = f[x] + d]

(***************************************************************************)
(* The sum after adding, by the element that is taken next.                *)
(***************************************************************************)
LEMMA SumAfterAdding ==
  ASSUME NEW S, IsFiniteSet(S), NEW f \in [S -> Int], NEW x \in S, NEW d \in Int
  PROVE  SumFunction(Adding(f, x, d)) = SumFunction(f) + d
<1> DEFINE k == Adding(f, x, d)
           g == Partial(f)
           h == Partial(k)
<1>1. k \in [S -> Int] /\ k[x] = f[x] + d /\ \A y \in S : y # x => k[y] = f[y]
  BY DEF Adding
<1> HIDE DEF k
<1>2. IsPartial(g, f, S)
  BY PartialSums
<1>3. IsPartial(h, k, S)
  BY <1>1, PartialSums
<1> DEFINE Bad == {t \in SUBSET (S \ {x}) : g[t] # h[t]}
<1>4. g[S \ {x}] = h[S \ {x}]
  <2> HIDE DEF g, h
  <2> SUFFICES ASSUME Bad # {} PROVE FALSE
    OBVIOUS
  <2>1. PICK t \in Bad : \A u \in SUBSET t : u # t => u \notin Bad
    <3>1. IsFiniteSet(S \ {x})
      BY FS_Subset
    <3> HIDE DEF Bad
    <3>2. Bad \in SUBSET (SUBSET (S \ {x}))
      BY DEF Bad
    <3> QED
      BY <3>1, <3>2, SmallestSubset
  <2>2. t \in SUBSET S /\ t \subseteq S \ {x} /\ g[t] # h[t] /\ t # {}
    BY <2>1, <1>2, <1>3 DEF IsPartial
  <2>3. Picked(t) \in t
    BY <2>2 DEF Picked
  <2>4. g[t \ {Picked(t)}] = h[t \ {Picked(t)}] /\ k[Picked(t)] = f[Picked(t)]
    BY <2>1, <2>2, <2>3, <1>1
  <2> QED
    BY <2>2, <2>4, <1>2, <1>3 DEF IsPartial
<1>5. g[S] = f[x] + g[S \ {x}] /\ h[S] = k[x] + h[S \ {x}]
  BY <1>1, AnyMayBeNext
<1>6. SumFunction(f) = g[S] /\ SumFunction(k) = h[S]
  BY <1>1, SumIsPartial
<1>7. f[x] \in Int /\ g[S \ {x}] \in Int
  BY <1>2 DEF IsPartial
<1> HIDE DEF g, h
<1>8. SumFunction(k) = SumFunction(f) + d
  BY <1>1, <1>4, <1>5, <1>6, <1>7
<1> QED
  BY <1>8 DEF k

(***************************************************************************)
(* The sum of nothing but zeros.                                           *)
(***************************************************************************)
LEMMA SumOfZeros ==
  ASSUME NEW S, IsFiniteSet(S)
  PROVE  SumFunction([x \in S |-> 0]) = 0
<1> DEFINE f == [x \in S |-> 0]
           g == Partial(f)
<1>1. f \in [S -> Int] /\ \A x \in S : f[x] = 0
  OBVIOUS
<1> HIDE DEF f
<1>2. IsPartial(g, f, S)
  BY <1>1, PartialSums
<1> DEFINE Bad == {t \in SUBSET S : g[t] # 0}
<1>3. g[S] = 0
  <2> HIDE DEF g
  <2> SUFFICES ASSUME Bad # {} PROVE FALSE
    OBVIOUS
  <2>1. PICK t \in Bad : \A u \in SUBSET t : u # t => u \notin Bad
    <3> HIDE DEF Bad
    <3>1. Bad \in SUBSET (SUBSET S)
      BY DEF Bad
    <3> QED
      BY <3>1, SmallestSubset
  <2>2. t \in SUBSET S /\ t # {}
    BY <2>1, <1>2 DEF IsPartial
  <2>3. Picked(t) \in t
    BY <2>2 DEF Picked
  <2>4. g[t \ {Picked(t)}] = 0 /\ f[Picked(t)] = 0
    BY <2>1, <2>2, <2>3, <1>1
  <2> QED
    BY <2>1, <2>2, <2>4, <1>2 DEF IsPartial
<1>4. SumFunction(f) = g[S]
  BY <1>1, SumIsPartial
<1> QED
  BY <1>3, <1>4 DEF f

-----------------------------------------------------------------------------
(***************************************************************************)
(* The holders are the addresses and the pool.                             *)
(***************************************************************************)
LEMMA FiniteHolders == IsFiniteSet(Holders)
BY AddressAssumption, FS_AddElement DEF Holders

(***************************************************************************)
(* The balances of a token have a sum, and one of them changed by d        *)
(* changes it by d.                                                        *)
(***************************************************************************)
LEMMA BalanceSum ==
  ASSUME NEW f \in [Holders -> Int]
  PROVE  /\ SumFunction(f) \in Int
         /\ \A x \in Holders, d \in Int : SumFunction(Adding(f, x, d)) = SumFunction(f) + d
<1>1. IsPartial(Partial(f), f, Holders)
  BY FiniteHolders, PartialSums
<1>2. SumFunction(f) = Partial(f)[Holders]
  BY SumIsPartial
<1> QED
  BY <1>1, <1>2, FiniteHolders, SumAfterAdding DEF IsPartial

(***************************************************************************)
(* A mint adds what it mints to the sum of the balances.                   *)
(***************************************************************************)
LEMMA MintAdds ==
  ASSUME NEW balance \in [Holders -> Balances], NEW to \in Holders, NEW amount \in Int
  PROVE  SumFunction(AfterMint(balance, to, amount)) = SumFunction(balance) + amount
<1>1. balance \in [Holders -> Int]
  BY DEF Balances
<1>2. AfterMint(balance, to, amount) = Adding(balance, to, amount)
  BY DEF AfterMint, Adding
<1> QED
  BY <1>1, <1>2, BalanceSum

(***************************************************************************)
(* A transfer between two holders leaves the sum of the balances; one to   *)
(* oneself adds the amount to it, as the recipient's balance is written    *)
(* last.                                                                   *)
(***************************************************************************)
LEMMA TransferMoves ==
  ASSUME NEW balance \in [Holders -> Balances], NEW from \in Holders,
         NEW to \in Holders, NEW amount \in Int
  PROVE  SumFunction(AfterTransfer(balance, from, to, amount))
           = SumFunction(balance) + (IF from = to THEN amount ELSE 0)
<1>1. balance \in [Holders -> Int]
  BY DEF Balances
<1>2. CASE from = to
  <2>1. AfterTransfer(balance, from, to, amount) = Adding(balance, to, amount)
    BY <1>2 DEF AfterTransfer, Adding
  <2> QED
    BY <1>1, <1>2, <2>1, BalanceSum
<1>3. CASE from # to
  <2> DEFINE paid == Adding(balance, from, 0 - amount)
  <2>1. paid \in [Holders -> Int]
    BY <1>1 DEF Adding
  <2>2. AfterTransfer(balance, from, to, amount) = Adding(paid, to, amount)
    <3>1. paid[to] = balance[to] /\ balance[from] - amount = balance[from] + (0 - amount)
      BY <1>1, <1>3 DEF Adding
    <3>2. AfterTransfer(balance, from, to, amount)
            = [[balance EXCEPT ![from] = balance[from] - amount]
                 EXCEPT ![to] = balance[to] + amount]
      BY DEF AfterTransfer
    <3>3. [balance EXCEPT ![from] = balance[from] - amount] = paid
      BY <3>1 DEF Adding
    <3> QED
      BY <3>1, <3>2, <3>3 DEF Adding
  <2>3. SumFunction(paid) = SumFunction(balance) + (0 - amount)
    BY <1>1, BalanceSum
  <2>4. SumFunction(Adding(paid, to, amount)) = SumFunction(paid) + amount
    <3> HIDE DEF paid
    <3> QED
      BY <2>1, BalanceSum
  <2>5. SumFunction(balance) \in Int
    BY <1>1, BalanceSum
  <2> HIDE DEF paid
  <2> QED
    BY <1>3, <2>2, <2>3, <2>4, <2>5
<1> QED
  BY <1>2, <1>3

-----------------------------------------------------------------------------
(***************************************************************************)
(* The inductive invariant: a running subscribe has issued its shares      *)
(* between its mint and its tally, and counts them in the tally.           *)
(***************************************************************************)
SharesInFlight ==
  call # NoCall =>
    LET before == call.saved
    IN  /\ ledger.total = before.total
        /\ ledger.loose = before.loose
        /\ SumFunction(ledger.shares) =
             SumFunction(before.shares) + (IF call.step = "tally" THEN call.amount ELSE 0)

SharesInv == SharesBacked /\ SharesInFlight

Issued(l) == <<l.shares, l.total, l.loose>>

(***************************************************************************)
(* Between invocations, a step that touches no shares keeps the invariant. *)
(***************************************************************************)
LEMMA IssuedIdleFrame ==
  ASSUME SharesInv, call = NoCall, call' = NoCall, Issued(ledger)' = Issued(ledger)
  PROVE  SharesInv'
BY DEF SharesInv, SharesBacked, SharesInFlight, Committed, Issued

(***************************************************************************)
(* Every pool share is accounted for, for every finite set of investors.   *)
(***************************************************************************)
THEOREM SharesAreBacked == Spec => []SharesBacked
<1>1. Init => SharesInv
  <2> SUFFICES ASSUME Init PROVE SharesInv
    OBVIOUS
  <2>1. /\ ledger.shares = [h \in Holders |-> 0] /\ ledger.total = 0 /\ ledger.loose = 0
        /\ call = NoCall
    BY DEF Init
  <2>2. SumFunction(ledger.shares) = 0
    BY <2>1, FiniteHolders, SumOfZeros
  <2> QED
    BY <2>1, <2>2 DEF SharesInv, SharesBacked, SharesInFlight, Committed
<1>2. TypeOK /\ SharesInv /\ [Next]_vars => SharesInv'
  <2> SUFFICES ASSUME TypeOK, SharesInv, [Next]_vars PROVE SharesInv'
    OBVIOUS
  <2>a. /\ ledger \in LedgerType
        /\ ledger.shares \in [Holders -> Balances] /\ ledger.total \in Int
        /\ ledger.loose \in Int /\ SumFunction(ledger.shares) \in Int
    <3>1. ledger.shares \in [Holders -> Balances] /\ ledger \in LedgerType
      BY DEF TypeOK, LedgerType
    <3>2. ledger.shares \in [Holders -> Int] /\ ledger.total \in Int /\ ledger.loose \in Int
      BY <3>1 DEF LedgerType, Balances
    <3> QED
      BY <3>1, <3>2, BalanceSum
  <2>1. ASSUME NEW depth \in Depths, Initialize(Issuer, depth)
        PROVE  SharesInv'
    <3>1. Issued(ledger)' = Issued(ledger)
      BY <2>1, <2>a DEF Initialize, Issued, LedgerType
    <3> QED
      BY <2>1, <3>1, IssuedIdleFrame DEF Initialize
  <2>2. ASSUME NEW root, ledger' = NewEpoch(root), call = NoCall, call' = NoCall
        PROVE  SharesInv'
    <3>1. Issued(ledger)' = Issued(ledger)
      BY <2>2, <2>a DEF NewEpoch, Issued, LedgerType
    <3> QED
      BY <2>2, <3>1, IssuedIdleFrame
  <2>3. ASSUME NEW investor \in Investors, NEW amount \in Amounts,
               NEW s \in Inputs, SubscribeEnter(investor, amount, s)
        PROVE  SharesInv'
    <3>1. /\ call = NoCall /\ call' # NoCall
          /\ call'.saved = ledger /\ call'.step = "transfer"
      BY <2>3 DEF SubscribeEnter, NoCall
    <3>2. UNCHANGED <<ledger.shares, ledger.total, ledger.loose>>
      BY <2>3, <2>a DEF SubscribeEnter, LedgerType
    <3> QED
      BY <2>a, <3>1, <3>2 DEF SharesInv, SharesBacked, SharesInFlight, Committed
  <2>4. ASSUME call \in CallType, call # NoCall
        PROVE  /\ call.saved.shares \in [Holders -> Balances]
               /\ SumFunction(call.saved.shares) \in Int
               /\ call.amount \in Int /\ call.investor \in Holders
               /\ call.saved.total \in Int /\ call.saved.loose \in Int
    <3>1. /\ call.saved.shares \in [Holders -> Balances]
          /\ call.amount \in Int /\ call.investor \in Holders
          /\ call.saved.total \in Int /\ call.saved.loose \in Int
      BY <2>4 DEF CallType, LedgerType, Balances, Holders
    <3>2. call.saved.shares \in [Holders -> Int]
      BY <3>1 DEF Balances
    <3> QED
      BY <3>1, <3>2, BalanceSum
  <2>5. CASE SubscribeTransfer
    <3>1. call \in CallType /\ call # NoCall
      BY <2>5 DEF SubscribeTransfer, AtStep, NoCall, TypeOK
    <3>2. /\ call.step = "transfer" /\ call'.step = "mint"
          /\ call' # NoCall /\ call'.saved = call.saved /\ call'.amount = call.amount
      BY <2>5, <3>1 DEF SubscribeTransfer, AtStep, CallType, NoCall
    <3>3. UNCHANGED <<ledger.shares, ledger.total, ledger.loose>>
      BY <2>5, <2>a DEF SubscribeTransfer, LedgerType
    <3> QED
      BY <3>1, <3>2, <3>3 DEF SharesInv, SharesBacked, SharesInFlight, Committed
  <2>6. CASE SubscribeMint
    <3>1. call \in CallType /\ call # NoCall
      BY <2>6 DEF SubscribeMint, AtStep, NoCall, TypeOK
    <3>2. /\ call.step = "mint" /\ call'.step = "tally"
          /\ call' # NoCall /\ call'.saved = call.saved /\ call'.amount = call.amount
      BY <2>6, <3>1 DEF SubscribeMint, AtStep, CallType, NoCall
    <3>3. /\ ledger'.shares = AfterMint(ledger.shares, call.investor, call.amount)
          /\ UNCHANGED <<ledger.total, ledger.loose>>
      BY <2>6, <2>a DEF SubscribeMint, LedgerType
    <3>4. SumFunction(ledger'.shares) = SumFunction(ledger.shares) + call.amount
      BY <2>a, <2>4, <3>1, <3>3, MintAdds
    <3>5. SumFunction(ledger.shares) = SumFunction(call.saved.shares)
      BY <2>4, <3>1, <3>2 DEF SharesInv, SharesInFlight
    <3> QED
      BY <3>1, <3>2, <3>3, <3>4, <3>5 DEF SharesInv, SharesBacked, SharesInFlight, Committed
  <2>7. CASE SubscribeTally
    <3>1. call \in CallType /\ call # NoCall /\ call' = NoCall /\ call.step = "tally"
      BY <2>7 DEF SubscribeTally, AtStep, NoCall, TypeOK
    <3>2. /\ ledger'.total = ledger.total + call.amount
          /\ UNCHANGED <<ledger.shares, ledger.loose>>
      BY <2>7, <2>a DEF SubscribeTally, AddSubscribed, LedgerType
    <3>3. /\ SumFunction(ledger.shares) = SumFunction(call.saved.shares) + call.amount
          /\ ledger.total = call.saved.total /\ ledger.loose = call.saved.loose
          /\ SumFunction(call.saved.shares) = call.saved.total + call.saved.loose
      BY <3>1 DEF SharesInv, SharesBacked, SharesInFlight, Committed
    <3>4. SumFunction(ledger'.shares) = ledger'.total + ledger'.loose
      BY <2>4, <3>1, <3>2, <3>3
    <3> QED
      BY <3>1, <3>4 DEF SharesInv, SharesBacked, SharesInFlight, Committed
  <2>8. CASE SubscribeFails \/ HostAborts
    <3>1. call # NoCall /\ call' = NoCall /\ ledger' = call.saved
      BY <2>8 DEF SubscribeFails, HostAborts, RolledBack, AtStep, NoCall
    <3> QED
      BY <3>1 DEF SharesInv, SharesBacked, SharesInFlight, Committed
  <2>9. ASSUME NEW to \in Investors, NEW amount \in Amounts, UsdcMint(to, amount)
        PROVE  SharesInv'
    <3>1. Issued(ledger)' = Issued(ledger)
      BY <2>9, <2>a DEF UsdcMint, Issued, LedgerType
    <3> QED
      BY <2>9, <3>1, IssuedIdleFrame DEF UsdcMint
  <2>10. ASSUME NEW from \in Investors, NEW to \in Holders, NEW amount \in Amounts,
                UsdcTransfer(from, to, amount)
         PROVE  SharesInv'
    <3>1. Issued(ledger)' = Issued(ledger)
      BY <2>10, <2>a DEF UsdcTransfer, Issued, LedgerType
    <3> QED
      BY <2>10, <3>1, IssuedIdleFrame DEF UsdcTransfer
  <2>11. ASSUME NEW more \in Int, call = NoCall, call' = NoCall,
                SumFunction(ledger'.shares) = SumFunction(ledger.shares) + more,
                ledger'.loose = ledger.loose + more, ledger'.total = ledger.total
         PROVE  SharesInv'
    <3>1. SumFunction(ledger.shares) = ledger.total + ledger.loose
      BY <2>11 DEF SharesInv, SharesBacked, Committed
    <3>2. SumFunction(ledger'.shares) = ledger'.total + ledger'.loose
      BY <2>a, <2>11, <3>1
    <3> QED
      BY <2>11, <3>2 DEF SharesInv, SharesBacked, SharesInFlight, Committed
  <2>12. ASSUME NEW to \in Investors, NEW amount \in Amounts, ShareMint(to, amount)
         PROVE  SharesInv'
    <3>1. /\ ledger'.shares = AfterMint(ledger.shares, to, amount)
          /\ ledger'.loose = ledger.loose + amount /\ ledger'.total = ledger.total
          /\ call = NoCall /\ call' = NoCall
      BY <2>12, <2>a DEF ShareMint, LedgerType
    <3>2. amount \in Int /\ to \in Holders
      BY InputAssumption DEF Holders
    <3>3. SumFunction(ledger'.shares) = SumFunction(ledger.shares) + amount
      BY <2>a, <3>1, <3>2, MintAdds
    <3> QED
      BY <2>11, <3>1, <3>2, <3>3
  <2>13. ASSUME NEW from \in Investors, NEW to \in Investors, NEW amount \in Amounts,
                ShareTransfer(from, to, amount)
         PROVE  SharesInv'
    <3> DEFINE more == IF from = to THEN amount ELSE 0
    <3>1. /\ ledger'.shares = AfterTransfer(ledger.shares, from, to, amount)
          /\ ledger'.loose = IF from = to THEN ledger.loose + amount ELSE ledger.loose
          /\ ledger'.total = ledger.total
          /\ call = NoCall /\ call' = NoCall
      BY <2>13, <2>a DEF ShareTransfer, LedgerType
    <3>2. amount \in Int /\ from \in Holders /\ to \in Holders
      BY InputAssumption DEF Holders
    <3>3. SumFunction(ledger'.shares) = SumFunction(ledger.shares) + more
      BY <2>a, <3>1, <3>2, TransferMoves
    <3>4. more \in Int /\ ledger'.loose = ledger.loose + more
      BY <2>a, <3>1, <3>2
    <3> HIDE DEF more
    <3> QED
      BY <2>11, <3>1, <3>3, <3>4
  <2>14. CASE ShareSetAdmin
    <3>1. Issued(ledger)' = Issued(ledger)
      BY <2>14, <2>a DEF ShareSetAdmin, Issued, LedgerType
    <3> QED
      BY <2>14, <3>1, IssuedIdleFrame DEF ShareSetAdmin
  <2>15. CASE UNCHANGED vars
    BY <2>15 DEF vars, SharesInv, SharesBacked, SharesInFlight, Committed
  <2> QED
    BY <2>1, <2>2, <2>3, <2>5, <2>6, <2>7, <2>8, <2>9, <2>10, <2>12, <2>13, <2>14, <2>15
       DEF Next, UpdateAccreditedSet, AdvanceEpoch
<1>3. SharesInv => SharesBacked
  BY DEF SharesInv
<1> QED
  BY <1>1, <1>2, <1>3, TypeCorrect, PTL DEF Spec
=============================================================================
