------------------------ MODULE PoolPassRosterProofs ------------------------
(***************************************************************************)
(* More theorems about PoolPass.tla: what settles was within the cap of    *)
(* the roster of its epoch, an invocation ends with all or nothing, roots  *)
(* and epochs move together, the eligible are admitted, and, seen between  *)
(* transactions, the contract's steps are those of SubscriptionLedger.tla. *)
(***************************************************************************)
EXTENDS PoolPassProofs

(***************************************************************************)
(* The inductive invariant behind SettledWithinCap.  The roots of past     *)
(* epochs are only read by the property, so the invariant ties the last of *)
(* them to the stored root, keeps settled epochs in the past, and carries  *)
(* what subscribe checked on entry until the event is announced.           *)
(***************************************************************************)
RootsFollowEpochs ==
  /\ Len(Committed.rootOf) = Committed.epoch + 1
  /\ Committed.rootOf[Committed.epoch + 1] = Committed.root
  /\ \A i \in DOMAIN Committed.events :
        Committed.events[i].epoch \in 0..Committed.epoch

CarriesEntitlement ==
  call # NoCall =>
    LET before == call.saved
        s      == call.statement
    IN  /\ s.epoch = before.epoch
        /\ \E leaf \in Members(before.root) :
              /\ s.nullifier.element = <<leaf.secret, s.epoch>>
              /\ call.amount \in 1..leaf.cap
        /\ ledger.events = before.events
        /\ ledger.rootOf = before.rootOf
        /\ ledger.epoch = before.epoch
        /\ ledger.root = before.root

RosterInv == RootsFollowEpochs /\ SettledWithinCap /\ CarriesEntitlement

\* What RosterInv reads of a committed ledger.
Record(l) == <<l.events, l.rootOf, l.epoch, l.root>>

(***************************************************************************)
(* A step that leaves the record of the committed ledger alone.            *)
(***************************************************************************)
LEMMA RecordFrame ==
  ASSUME RosterInv, Record(Committed)' = Record(Committed)
  PROVE  RootsFollowEpochs' /\ SettledWithinCap'
BY DEF RosterInv, Record, RootsFollowEpochs, SettledWithinCap

(***************************************************************************)
(* The same for a step outside of any invocation.                          *)
(***************************************************************************)
LEMMA RecordIdleFrame ==
  ASSUME RosterInv, call = NoCall, call' = NoCall, Record(ledger)' = Record(ledger)
  PROVE  RosterInv'
<1>1. Record(Committed)' = Record(Committed)
  BY DEF Committed
<1>2. CarriesEntitlement'
  BY DEF CarriesEntitlement
<1> QED
  BY <1>1, <1>2, RecordFrame DEF RosterInv

(***************************************************************************)
(* And for a step of a running invocation that goes on, moving balances.   *)
(***************************************************************************)
LEMMA RecordRunningFrame ==
  ASSUME RosterInv, call # NoCall, call' # NoCall,
         call'.saved = call.saved, call'.statement = call.statement,
         call'.amount = call.amount, Record(ledger)' = Record(ledger)
  PROVE  RosterInv'
<1>1. Record(Committed)' = Record(Committed)
  BY DEF Committed, Record
<1>2. CarriesEntitlement'
  BY DEF RosterInv, CarriesEntitlement, Record
<1> QED
  BY <1>1, <1>2, RecordFrame DEF RosterInv

(***************************************************************************)
(* The members of a root the contract stores are leaves with a cap.        *)
(***************************************************************************)
LEMMA MembersAreLeaves ==
  ASSUME NEW root \in Roots
  PROVE  Members(root) \subseteq Leaves
<1>1. CASE root \in Submissions
  <2>1. root \in Seq(LeafSlots)
    BY <1>1, InputAssumption
  <2> QED
    BY <2>1 DEF Members, LeafSlots
<1>2. CASE root = << >>
  BY <1>2 DEF Members
<1> QED
  BY <1>1, <1>2 DEF Roots, ZeroRoot

(***************************************************************************)
(* What subscribe's checks establish together: the statement names a leaf  *)
(* of the stored root, and the amount is within its cap, because an amount *)
(* that fits in 64 bits leaves the comparator no room to wrap around.      *)
(***************************************************************************)
LEMMA EntryIsEntitled ==
  ASSUME TypeOK, NEW amount \in Amounts, NEW s \in Inputs,
         SubscribeError(amount, s) = "Ok"
  PROVE  /\ s.epoch = ledger.epoch
         /\ \E leaf \in Members(ledger.root) :
               /\ s.nullifier.element = <<leaf.secret, s.epoch>>
               /\ amount \in 1..leaf.cap
<1>1. /\ ~(amount <= 0)
      /\ CircuitHolds(s)
      /\ RootMatches(s)
      /\ AmountMatches(amount, s)
      /\ EpochMatches(s)
  BY DEF SubscribeError
<1>2. PICK leaf \in Members(s.root) :
         /\ WithinCap(s.amount, leaf.cap)
         /\ s.nullifier.element = Nullifier(leaf.secret, s.epoch)
  BY <1>1 DEF CircuitHolds
<1>3. /\ leaf \in Members(ledger.root)
      /\ s.nullifier.element = <<leaf.secret, s.epoch>>
  BY <1>1, <1>2 DEF RootMatches, Nullifier
<1>4. leaf.cap \in Field
  <2>1. ledger.root \in Roots
    BY DEF TypeOK, LedgerType
  <2> QED
    BY <1>3, <2>1, MembersAreLeaves DEF Leaves
<1>5. amount \in 1..leaf.cap
  <2>1. s.amount = amount /\ s.amount \in 0..U64Max /\ amount \in 1..U64Max
    BY <1>1, InputAssumption, WidthAssumption DEF AmountMatches, Statements, Field
  <2>2. s.amount <= leaf.cap
    BY <2>1, <1>2, <1>4, ComparatorIsSound
  <2> QED
    BY <2>1, <2>2, <1>4, WidthAssumption DEF Field
<1> QED
  BY <1>1, <1>3, <1>5 DEF EpochMatches

(***************************************************************************)
(* A new epoch adds a root to the history and leaves those of settled      *)
(* epochs where they were.                                                 *)
(***************************************************************************)
LEMMA NewEpochKeepsRosters ==
  ASSUME TypeOK, RosterInv, NEW root \in Roots,
         call = NoCall, call' = NoCall, ledger' = NewEpoch(root)
  PROVE  RosterInv'
<1>1. Committed = ledger /\ Committed' = ledger'
  BY DEF Committed
<1>2. /\ ledger'.rootOf = Append(ledger.rootOf, root)
      /\ ledger'.epoch = ledger.epoch + 1
      /\ ledger'.root = root
      /\ ledger'.events = ledger.events
  BY DEF NewEpoch, TypeOK, LedgerType
<1>3. /\ Len(ledger.rootOf) = ledger.epoch + 1
      /\ \A i \in DOMAIN ledger.events : ledger.events[i].epoch \in 0..ledger.epoch
      /\ ledger.epoch \in Nat
      /\ ledger.rootOf \in Seq(Roots)
  BY <1>1 DEF RosterInv, RootsFollowEpochs, TypeOK, LedgerType, Epochs
<1>4. /\ \A k \in 0..ledger.epoch : ledger'.rootOf[k + 1] = ledger.rootOf[k + 1]
      /\ ledger'.rootOf[ledger.epoch + 2] = root
      /\ Len(ledger'.rootOf) = ledger.epoch + 2
  <2>1. \A k \in 0..ledger.epoch : k + 1 \in DOMAIN ledger.rootOf
    BY <1>3
  <2>2. Len(ledger.rootOf) + 1 = ledger.epoch + 2
    BY <1>3
  <2>3. Len(Append(ledger.rootOf, root)) = Len(ledger.rootOf) + 1
    BY <1>3
  <2> QED
    BY <1>2, <1>3, <2>1, <2>2, <2>3, AppendFacts
<1>5. RootsFollowEpochs'
  BY <1>1, <1>2, <1>3, <1>4 DEF RootsFollowEpochs
<1>6. SettledWithinCap'
  <2>1. \A i \in DOMAIN ledger.events :
           ledger'.rootOf[ledger.events[i].epoch + 1] =
             ledger.rootOf[ledger.events[i].epoch + 1]
    BY <1>3, <1>4
  <2>2. \A i \in DOMAIN ledger.events :
           \E leaf \in Members(ledger.rootOf[ledger.events[i].epoch + 1]) :
             /\ ledger.events[i].nullifier.element =
                  <<leaf.secret, ledger.events[i].epoch>>
             /\ ledger.events[i].amount \in 1..leaf.cap
    BY <1>1 DEF RosterInv, SettledWithinCap
  <2>3. \A i \in DOMAIN ledger'.events :
           \E leaf \in Members(ledger'.rootOf[ledger'.events[i].epoch + 1]) :
             /\ ledger'.events[i].nullifier.element =
                  <<leaf.secret, ledger'.events[i].epoch>>
             /\ ledger'.events[i].amount \in 1..leaf.cap
    BY <1>2, <2>1, <2>2
  <2> QED
    BY <1>1, <2>3 DEF SettledWithinCap, Members
<1>7. CarriesEntitlement'
  BY DEF CarriesEntitlement
<1> QED
  BY <1>5, <1>6, <1>7 DEF RosterInv

(***************************************************************************)
(* What settles is within the cap of a leaf of its epoch's root: RosterInv *)
(* is an invariant.                                                        *)
(***************************************************************************)
THEOREM RosterCorrect == Spec => []RosterInv
<1>1. Init => RosterInv
  <2> SUFFICES ASSUME Init PROVE RosterInv
    OBVIOUS
  <2>1. /\ Committed = ledger /\ call = NoCall
        /\ ledger.rootOf = << ZeroRoot >>
        /\ ledger.root = ZeroRoot
        /\ ledger.epoch = 0
        /\ ledger.events = << >>
    BY DEF Init, Committed
  <2> QED
    BY <2>1 DEF RosterInv, RootsFollowEpochs, SettledWithinCap, CarriesEntitlement
<1>2. TypeOK /\ RosterInv /\ [Next]_vars => RosterInv'
  <2> SUFFICES ASSUME TypeOK, RosterInv, [Next]_vars PROVE RosterInv'
    OBVIOUS
  <2>1. ASSUME NEW depth \in Depths, Initialize(Issuer, depth) PROVE RosterInv'
    <3>1. Record(ledger)' = Record(ledger)
      BY <2>1 DEF Initialize, Record, TypeOK, LedgerType
    <3> QED
      BY <2>1, <3>1, RecordIdleFrame DEF Initialize
  <2>2. ASSUME NEW caller \in Callers, NEW leaves \in Submissions,
               UpdateAccreditedSet(caller, leaves)
        PROVE  RosterInv'
    <3>1. leaves \in Roots
      BY DEF Roots
    <3> QED
      BY <2>2, <3>1, NewEpochKeepsRosters DEF UpdateAccreditedSet
  <2>3. ASSUME NEW caller \in Callers, AdvanceEpoch(caller) PROVE RosterInv'
    <3>1. ledger.root \in Roots
      BY DEF TypeOK, LedgerType
    <3> QED
      BY <2>3, <3>1, NewEpochKeepsRosters DEF AdvanceEpoch
  <2>4. ASSUME NEW investor \in Investors, NEW amount \in Amounts,
               NEW s \in Inputs, SubscribeEnter(investor, amount, s)
        PROVE  RosterInv'
    <3>1. /\ call = NoCall
          /\ call' # NoCall
          /\ call'.saved = ledger
          /\ call'.statement = s
          /\ call'.amount = amount
      BY <2>4 DEF SubscribeEnter, NoCall
    <3>2. Record(Committed)' = Record(Committed)
      BY <3>1 DEF Committed, Record
    <3>3. UNCHANGED <<ledger.events, ledger.rootOf, ledger.epoch, ledger.root>>
      BY <2>4 DEF SubscribeEnter, TypeOK, LedgerType
    <3>4. /\ s.epoch = ledger.epoch
          /\ \E leaf \in Members(ledger.root) :
                /\ s.nullifier.element = <<leaf.secret, s.epoch>>
                /\ amount \in 1..leaf.cap
      BY <2>4, EntryIsEntitled DEF SubscribeEnter
    <3>5. CarriesEntitlement'
      BY <3>1, <3>3, <3>4 DEF CarriesEntitlement, Members
    <3> QED
      BY <3>2, <3>5, RecordFrame DEF RosterInv
  <2>5. CASE SubscribeTransfer \/ SubscribeMint
    <3>1. call \in CallType /\ call # NoCall
      BY <2>5 DEF SubscribeTransfer, SubscribeMint, AtStep, NoCall, TypeOK
    <3>2. /\ call' # NoCall
          /\ call'.saved = call.saved
          /\ call'.statement = call.statement
          /\ call'.amount = call.amount
      BY <2>5, <3>1 DEF SubscribeTransfer, SubscribeMint, CallType, NoCall
    <3>3. Record(ledger)' = Record(ledger)
      BY <2>5 DEF SubscribeTransfer, SubscribeMint, Record, TypeOK, LedgerType
    <3> QED
      BY <3>1, <3>2, <3>3, RecordRunningFrame
  <2>6. CASE SubscribeTally
    <3>1. call \in CallType /\ call # NoCall /\ call' = NoCall
      BY <2>6 DEF SubscribeTally, AtStep, NoCall, TypeOK
    <3> DEFINE before == call.saved
               s      == call.statement
               event  == [investor |-> call.investor, amount |-> call.amount,
                          nullifier |-> s.nullifier, epoch |-> s.epoch]
    <3>2. Committed = before /\ Committed' = ledger'
      BY <3>1 DEF Committed
    <3>3. /\ ledger'.events = Append(before.events, event)
          /\ ledger'.rootOf = before.rootOf
          /\ ledger'.epoch = before.epoch
          /\ ledger'.root = before.root
      BY <2>6, <3>1
         DEF SubscribeTally, RosterInv, CarriesEntitlement, TypeOK, LedgerType
    <3>4. /\ DOMAIN ledger'.events = DOMAIN before.events \cup {Len(before.events) + 1}
          /\ \A i \in DOMAIN before.events : ledger'.events[i] = before.events[i]
          /\ ledger'.events[Len(before.events) + 1] = event
      <4> DEFINE Event == [investor : Investors, amount : Amounts \cap Nat,
                           nullifier : Words, epoch : Field]
      <4>1. before.events \in Seq(Event)
        BY <3>1 DEF CallType, LedgerType
      <4>2. ledger'.events = Append(before.events, event)
        BY <3>3
      <4> HIDE DEF event, Event
      <4> QED
        BY <4>1, <4>2, AppendFacts
    <3>5. /\ s.epoch = before.epoch
          /\ before.epoch \in Nat
          /\ before.rootOf[before.epoch + 1] = before.root
          /\ \E leaf \in Members(before.root) :
                /\ s.nullifier.element = <<leaf.secret, s.epoch>>
                /\ call.amount \in 1..leaf.cap
      BY <3>1, <3>2 DEF RosterInv, CarriesEntitlement, RootsFollowEpochs,
                        CallType, LedgerType, Epochs
    <3>6. /\ event.epoch = before.epoch
          /\ event.nullifier = s.nullifier
          /\ event.amount = call.amount
      BY <3>5
    <3> HIDE DEF event
    <3>7. RootsFollowEpochs'
      <4>1. /\ Len(before.rootOf) = before.epoch + 1
            /\ \A i \in DOMAIN before.events : before.events[i].epoch \in 0..before.epoch
        BY <3>2 DEF RosterInv, RootsFollowEpochs
      <4>2. event.epoch \in 0..before.epoch
        BY <3>5, <3>6
      <4>3. \A i \in DOMAIN ledger'.events : ledger'.events[i].epoch \in 0..before.epoch
        BY <3>4, <4>1, <4>2
      <4> QED
        BY <3>2, <3>3, <3>5, <4>1, <4>3 DEF RootsFollowEpochs
    <3>8. SettledWithinCap'
      <4> SUFFICES ASSUME NEW i \in DOMAIN ledger'.events
                   PROVE  \E leaf \in Members(ledger'.rootOf[ledger'.events[i].epoch + 1]) :
                            /\ ledger'.events[i].nullifier.element =
                                 <<leaf.secret, ledger'.events[i].epoch>>
                            /\ ledger'.events[i].amount \in 1..leaf.cap
        BY <3>2 DEF SettledWithinCap, Members
      <4>1. CASE i \in DOMAIN before.events
        BY ZenonT(60), <4>1, <3>2, <3>3, <3>4 DEF RosterInv, SettledWithinCap
      <4>2. CASE i = Len(before.events) + 1
        BY <4>2, <3>3, <3>4, <3>5, <3>6
      <4> QED
        BY <3>4, <4>1, <4>2
    <3>9. CarriesEntitlement'
      BY <3>1 DEF CarriesEntitlement
    <3> QED
      BY <3>7, <3>8, <3>9 DEF RosterInv
  <2>7. CASE SubscribeFails \/ HostAborts
    <3>1. call # NoCall /\ call' = NoCall /\ ledger' = call.saved
      BY <2>7 DEF SubscribeFails, HostAborts, RolledBack, AtStep, NoCall
    <3>2. Record(Committed)' = Record(Committed)
      BY <3>1 DEF Committed, Record
    <3>3. CarriesEntitlement'
      BY <3>1 DEF CarriesEntitlement
    <3> QED
      BY <3>2, <3>3, RecordFrame DEF RosterInv
  <2>8. ASSUME NEW to \in Investors, NEW amount \in Amounts,
               UsdcMint(to, amount) \/ ShareMint(to, amount)
        PROVE  RosterInv'
    <3>1. Record(ledger)' = Record(ledger)
      BY <2>8 DEF UsdcMint, ShareMint, Record, TypeOK, LedgerType
    <3> QED
      BY <2>8, <3>1, RecordIdleFrame DEF UsdcMint, ShareMint
  <2>9. ASSUME NEW from \in Investors, NEW to \in Holders, NEW amount \in Amounts,
               UsdcTransfer(from, to, amount) \/ ShareTransfer(from, to, amount)
        PROVE  RosterInv'
    <3>1. Record(ledger)' = Record(ledger)
      BY <2>9 DEF UsdcTransfer, ShareTransfer, Record, TypeOK, LedgerType
    <3> QED
      BY <2>9, <3>1, RecordIdleFrame DEF UsdcTransfer, ShareTransfer
  <2>10. CASE ShareSetAdmin
    <3>1. Record(ledger)' = Record(ledger)
      BY <2>10 DEF ShareSetAdmin, Record, TypeOK, LedgerType
    <3> QED
      BY <2>10, <3>1, RecordIdleFrame DEF ShareSetAdmin
  <2>11. CASE UNCHANGED vars
    BY <2>11 DEF vars, RosterInv, RootsFollowEpochs, SettledWithinCap,
                 CarriesEntitlement, Committed
  <2> QED
    BY <2>1, <2>2, <2>3, <2>4, <2>5, <2>6, <2>7, <2>8, <2>9, <2>10, <2>11
       DEF Next, Holders
<1> QED
  BY <1>1, <1>2, TypeCorrect, PTL DEF Spec

(***************************************************************************)
(* Nobody settles beyond a cap, or without a leaf in the epoch's root.     *)
(***************************************************************************)
THEOREM CapsAreKept == Spec => []SettledWithinCap
<1>1. RosterInv => SettledWithinCap
  BY DEF RosterInv
<1> QED
  BY <1>1, RosterCorrect, PTL
-----------------------------------------------------------------------------
(***************************************************************************)
(* How far a running invocation has moved its investor's balances.         *)
(***************************************************************************)
InvestorInFlight ==
  call # NoCall =>
    LET before == call.saved
    IN  /\ ledger.usdc[call.investor] =
             before.usdc[call.investor]
               - (IF call.step = "transfer" THEN 0 ELSE call.amount)
        /\ ledger.shares[call.investor] =
             before.shares[call.investor]
               + (IF call.step = "tally" THEN call.amount ELSE 0)

(***************************************************************************)
(* A payment debits the investor, and a mint credits it.                   *)
(***************************************************************************)
LEMMA InvestorEffects ==
  ASSUME NEW balance \in [Holders -> Balances], NEW investor \in Investors,
         NEW amount \in Int
  PROVE  /\ AfterTransfer(balance, investor, Pool, amount)[investor] =
              balance[investor] - amount
         /\ AfterMint(balance, investor, amount)[investor] =
              balance[investor] + amount
BY AddressAssumption DEF AfterTransfer, AfterMint, Holders, Callers

(***************************************************************************)
(* InvestorInFlight is an invariant.                                       *)
(***************************************************************************)
THEOREM InvestorCorrect == Spec => []InvestorInFlight
<1>1. Init => InvestorInFlight
  BY DEF Init, InvestorInFlight
<1>2. TypeOK /\ InvestorInFlight /\ [Next]_vars => InvestorInFlight'
  <2> SUFFICES ASSUME TypeOK, InvestorInFlight, [Next]_vars, call' # NoCall
               PROVE  InvestorInFlight'
    BY DEF InvestorInFlight
  <2>1. ASSUME NEW investor \in Investors, NEW amount \in Amounts,
               NEW s \in Inputs, SubscribeEnter(investor, amount, s)
        PROVE  InvestorInFlight'
    <3>1. /\ call'.saved = ledger
          /\ call'.step = "transfer"
          /\ call'.investor = investor
      BY <2>1 DEF SubscribeEnter
    <3>2. UNCHANGED <<ledger.usdc, ledger.shares>>
      BY <2>1 DEF SubscribeEnter, TypeOK, LedgerType
    <3>3. ledger.usdc[investor] \in Int /\ ledger.shares[investor] \in Int
      BY DEF TypeOK, LedgerType, Holders, Balances
    <3> QED
      BY <3>1, <3>2, <3>3 DEF InvestorInFlight
  <2>2. ASSUME call # NoCall
        PROVE  /\ call \in CallType
               /\ call.investor \in Investors /\ call.amount \in Int
               /\ ledger.usdc \in [Holders -> Balances]
               /\ ledger.shares \in [Holders -> Balances]
               /\ call.saved.usdc[call.investor] \in Int
               /\ call.saved.shares[call.investor] \in Int
    <3>1. call \in CallType /\ ledger \in LedgerType
      BY <2>2 DEF TypeOK
    <3>2. /\ call.investor \in Investors /\ call.investor \in Holders
          /\ call.amount \in Int
          /\ call.saved \in LedgerType
      BY <3>1 DEF CallType, Holders
    <3>3. \A l \in LedgerType : /\ l.usdc \in [Holders -> Balances]
                                /\ l.shares \in [Holders -> Balances]
      BY DEF LedgerType
    <3>4. Balances \subseteq Int
      BY I128MaxAssumption DEF Balances
    <3> QED
      BY <3>1, <3>2, <3>3, <3>4
  <2>3. CASE SubscribeTransfer
    <3>1. call # NoCall /\ call.step = "transfer"
      BY <2>3 DEF SubscribeTransfer, AtStep, NoCall
    <3>2. call' = [call EXCEPT !.step = "mint"]
      BY <2>3 DEF SubscribeTransfer
    <3>3. /\ ledger'.usdc = AfterTransfer(ledger.usdc, call.investor, Pool, call.amount)
          /\ ledger'.shares = ledger.shares
      BY <2>3 DEF SubscribeTransfer, TypeOK, LedgerType
    <3>4. ledger'.usdc[call.investor] = ledger.usdc[call.investor] - call.amount
      BY <2>2, <3>1, <3>3, InvestorEffects
    <3>5. /\ call'.investor = call.investor /\ call'.amount = call.amount
          /\ call'.saved = call.saved /\ call'.step = "mint"
      BY <2>2, <3>1, <3>2 DEF CallType
    <3>6. /\ ledger.usdc[call.investor] = call.saved.usdc[call.investor]
          /\ ledger.shares[call.investor] = call.saved.shares[call.investor]
      BY <2>2, <3>1 DEF InvestorInFlight
    <3> QED
      BY <2>2, <3>1, <3>3, <3>4, <3>5, <3>6 DEF InvestorInFlight
  <2>4. CASE SubscribeMint
    <3>1. call # NoCall /\ call.step = "mint"
      BY <2>4 DEF SubscribeMint, AtStep, NoCall
    <3>2. call' = [call EXCEPT !.step = "tally"]
      BY <2>4 DEF SubscribeMint
    <3>3. /\ ledger'.usdc = ledger.usdc
          /\ ledger'.shares = AfterMint(ledger.shares, call.investor, call.amount)
      BY <2>4 DEF SubscribeMint, TypeOK, LedgerType
    <3>4. ledger'.shares[call.investor] = ledger.shares[call.investor] + call.amount
      BY <2>2, <3>1, <3>3, InvestorEffects
    <3>5. /\ call'.investor = call.investor /\ call'.amount = call.amount
          /\ call'.saved = call.saved /\ call'.step = "tally"
      BY <2>2, <3>1, <3>2 DEF CallType
    <3>6. /\ ledger.usdc[call.investor] =
               call.saved.usdc[call.investor] - call.amount
          /\ ledger.shares[call.investor] = call.saved.shares[call.investor]
      BY <2>2, <3>1 DEF InvestorInFlight
    <3> QED
      BY <2>2, <3>1, <3>3, <3>4, <3>5, <3>6 DEF InvestorInFlight
  <2>5. CASE UNCHANGED vars
    BY <2>5 DEF vars, InvestorInFlight
  <2>6. ASSUME [Next]_vars, ~UNCHANGED vars, call' # NoCall
        PROVE  \/ SubscribeTransfer
               \/ SubscribeMint
               \/ \E investor \in Investors, amount \in Amounts, s \in Inputs :
                     SubscribeEnter(investor, amount, s)
    BY <2>6 DEF Next, Initialize, UpdateAccreditedSet, AdvanceEpoch,
       SubscribeTally, SubscribeFails, HostAborts, UsdcMint, UsdcTransfer,
       ShareMint, ShareTransfer, ShareSetAdmin
  <2> QED
    BY <2>1, <2>3, <2>4, <2>5, <2>6
<1> QED
  BY <1>1, <1>2, TypeCorrect, PTL DEF Spec

(***************************************************************************)
(* An invocation of subscribe ends with all of its effects or with none.   *)
(***************************************************************************)
THEOREM SubscribeIsAtomic == Spec => AllOrNothing
<1> DEFINE Settled ==
      LET before == call.saved
          paid   == call.amount
      IN  \/ ledger' = before
          \/ /\ ledger'.usdc[Pool] = before.usdc[Pool] + paid
             /\ ledger'.usdc[call.investor] = before.usdc[call.investor] - paid
             /\ ledger'.shares[call.investor] = before.shares[call.investor] + paid
             /\ ledger'.total = before.total + paid
             /\ call.statement.nullifier \in ledger'.nullifiers \ before.nullifiers
             /\ Len(ledger'.events) = Len(before.events) + 1
<1>1. ASSUME TypeOK, SettlementInv, InvestorInFlight, [Next]_vars,
             call # NoCall, call' = NoCall
      PROVE  Settled
  <2>1. call \in CallType
    BY <1>1 DEF TypeOK
  <2>2. SubscribeTally \/ SubscribeFails \/ HostAborts
    <3>1. ~(SubscribeTransfer \/ SubscribeMint)
      BY <1>1, <2>1 DEF SubscribeTransfer, SubscribeMint, CallType, NoCall
    <3> QED
      BY <1>1, <3>1
         DEF Next, vars, Initialize, UpdateAccreditedSet, AdvanceEpoch,
             SubscribeEnter, UsdcMint, UsdcTransfer, ShareMint, ShareTransfer,
             ShareSetAdmin
  <2>3. CASE SubscribeFails \/ HostAborts
    BY <2>3 DEF SubscribeFails, HostAborts, RolledBack
  <2>4. CASE SubscribeTally
    <3>1. call.step = "tally"
      BY <2>4 DEF SubscribeTally, AtStep
    <3>2. /\ UNCHANGED <<ledger.usdc, ledger.shares, ledger.nullifiers>>
          /\ ledger'.total = ledger.total + call.amount
          /\ Len(ledger'.events) = Len(ledger.events) + 1
      BY <1>1, <2>4 DEF SubscribeTally, AddSubscribed, TypeOK, LedgerType
    <3>3. /\ ledger.usdc[Pool] = call.saved.usdc[Pool] + call.amount
          /\ ledger.total = call.saved.total
          /\ ledger.events = call.saved.events
          /\ call.statement.nullifier \in ledger.nullifiers \ call.saved.nullifiers
      BY <1>1, <3>1 DEF SettlementInv, InFlight
    <3>4. /\ ledger.usdc[call.investor] =
               call.saved.usdc[call.investor] - call.amount
          /\ ledger.shares[call.investor] =
               call.saved.shares[call.investor] + call.amount
      BY <1>1, <3>1 DEF InvestorInFlight
    <3> QED
      BY <3>2, <3>3, <3>4
  <2> QED
    BY <2>2, <2>3, <2>4
<1>2. TypeOK /\ SettlementInv /\ InvestorInFlight /\ [Next]_vars
      => [(call # NoCall /\ call' = NoCall) => Settled]_vars
  BY <1>1
<1> QED
  BY <1>2, TypeCorrect, SettlementCorrect, InvestorCorrect, PTL
     DEF Spec, AllOrNothing

(***************************************************************************)
(* A root is replaced only together with its epoch, the epoch moves by one *)
(* and a used nullifier stays used.                                        *)
(***************************************************************************)
THEOREM RostersMoveWithEpochs == Spec => RosterMovesWithEpoch
<1> DEFINE Moves ==
      /\ Committed'.epoch \in {Committed.epoch, Committed.epoch + 1}
      /\ (Committed'.root # Committed.root => Committed'.epoch # Committed.epoch)
      /\ Committed.nullifiers \subseteq Committed'.nullifiers
<1>1. ASSUME TypeOK, SettlementInv, RosterInv, [Next]_vars PROVE [Moves]_vars
  <2> SUFFICES ASSUME Next PROVE Moves
    BY <1>1
  <2>1. CASE call = NoCall /\ call' = NoCall
    <3>1. Committed = ledger /\ Committed' = ledger'
      BY <2>1 DEF Committed
    <3>2. CASE UNCHANGED <<ledger.epoch, ledger.root, ledger.nullifiers>>
      BY <3>1, <3>2
    <3>3. CASE \E root \in Roots : ledger' = NewEpoch(root)
      <4>1. ledger.epoch \in Nat
        BY <1>1 DEF TypeOK, LedgerType, Epochs
      <4>2. ledger'.epoch = ledger.epoch + 1 /\ ledger'.nullifiers = ledger.nullifiers
        BY <1>1, <3>3 DEF NewEpoch, TypeOK, LedgerType
      <4> QED
        BY <3>1, <4>1, <4>2
    <3>4. \/ UNCHANGED <<ledger.epoch, ledger.root, ledger.nullifiers>>
          \/ \E root \in Roots : ledger' = NewEpoch(root)
      <4>1. CASE \E caller \in Callers, leaves \in Submissions :
                     UpdateAccreditedSet(caller, leaves)
        BY <4>1 DEF UpdateAccreditedSet, Roots
      <4>2. CASE \E caller \in Callers : AdvanceEpoch(caller)
        BY <1>1, <4>2 DEF AdvanceEpoch, TypeOK, LedgerType
      <4>3. CASE \E depth \in Depths : Initialize(Issuer, depth)
        BY <1>1, <4>3 DEF Initialize, TypeOK, LedgerType
      <4>4. CASE \E to \in Investors, amount \in Amounts :
                     UsdcMint(to, amount) \/ ShareMint(to, amount)
        BY <1>1, <4>4 DEF UsdcMint, ShareMint, TypeOK, LedgerType
      <4>5. CASE \E from \in Investors, to \in Holders, amount \in Amounts :
                     UsdcTransfer(from, to, amount) \/ ShareTransfer(from, to, amount)
        BY <1>1, <4>5 DEF UsdcTransfer, ShareTransfer, TypeOK, LedgerType
      <4>6. CASE ShareSetAdmin
        BY <1>1, <4>6 DEF ShareSetAdmin, TypeOK, LedgerType
      <4> QED
        BY <2>1, <4>1, <4>2, <4>3, <4>4, <4>5, <4>6
           DEF Next, SubscribeEnter, SubscribeTransfer, SubscribeMint,
               SubscribeTally, SubscribeFails, HostAborts, AtStep, NoCall, Holders
    <3> QED
      BY <3>2, <3>3, <3>4
  <2>2. CASE call = NoCall /\ call' # NoCall
    <3>1. ~(SubscribeTransfer \/ SubscribeMint)
      BY <2>2 DEF SubscribeTransfer, SubscribeMint, AtStep, NoCall
    <3>2. \E investor \in Investors, amount \in Amounts, s \in Inputs :
             SubscribeEnter(investor, amount, s)
      BY <2>2, <3>1
         DEF Next, Initialize, UpdateAccreditedSet, AdvanceEpoch, SubscribeTally,
             SubscribeFails, HostAborts, UsdcMint, UsdcTransfer, ShareMint,
             ShareTransfer, ShareSetAdmin
    <3>3. call'.saved = ledger
      BY <3>2 DEF SubscribeEnter
    <3> QED
      BY <2>2, <3>3 DEF Committed
  <2>3. CASE call # NoCall /\ call' # NoCall
    <3>1. call \in CallType
      BY <1>1, <2>3 DEF TypeOK
    <3>2. SubscribeTransfer \/ SubscribeMint
      BY <2>3 DEF Next, Initialize, UpdateAccreditedSet, AdvanceEpoch,
         SubscribeEnter, SubscribeTally, SubscribeFails, HostAborts, UsdcMint,
         UsdcTransfer, ShareMint, ShareTransfer, ShareSetAdmin
    <3>3. call'.saved = call.saved
      BY <3>1, <3>2 DEF SubscribeTransfer, SubscribeMint, CallType
    <3> QED
      BY <2>3, <3>3 DEF Committed
  <2>4. CASE call # NoCall /\ call' = NoCall
    <3>1. call \in CallType
      BY <1>1, <2>4 DEF TypeOK
    <3>2. Committed = call.saved /\ Committed' = ledger'
      BY <2>4 DEF Committed
    <3>3. CASE ledger' = call.saved
      BY <3>2, <3>3
    <3>4. CASE SubscribeTally
      <4>1. UNCHANGED <<ledger.epoch, ledger.root, ledger.nullifiers>>
        BY <1>1, <3>4 DEF SubscribeTally, TypeOK, LedgerType
      <4>2. /\ ledger.epoch = call.saved.epoch /\ ledger.root = call.saved.root
            /\ call.saved.nullifiers \subseteq ledger.nullifiers
        BY <1>1, <2>4 DEF RosterInv, CarriesEntitlement, SettlementInv, InFlight
      <4> QED
        BY <3>2, <4>1, <4>2
    <3>5. SubscribeTally \/ ledger' = call.saved
      BY <2>4, <3>1
         DEF CallType, Next, Initialize, UpdateAccreditedSet, AdvanceEpoch,
             SubscribeEnter, SubscribeTransfer, SubscribeMint, SubscribeFails,
             HostAborts, RolledBack, UsdcMint, UsdcTransfer, ShareMint,
             ShareTransfer, ShareSetAdmin, NoCall
    <3> QED
      BY <3>3, <3>4, <3>5
  <2> QED
    BY <2>1, <2>2, <2>3, <2>4
<1>2. TypeOK /\ SettlementInv /\ RosterInv /\ [Next]_vars => [Moves]_vars
  BY <1>1
<1> QED
  BY <1>2, TypeCorrect, SettlementCorrect, RosterCorrect, PTL
     DEF Spec, RosterMovesWithEpoch
-----------------------------------------------------------------------------
(***************************************************************************)
(* A stored root was published by the issuer of an initialized pool, and   *)
(* fills a tree of the pool's depth.                                       *)
(***************************************************************************)
FillsTree(l) ==
  l.root # ZeroRoot => l.issuer # NoIssuer /\ Len(l.root) = 2 ^ l.depth

PublishedRoots ==
  /\ FillsTree(ledger)
  /\ call # NoCall => FillsTree(call.saved)

(***************************************************************************)
(* PublishedRoots is an invariant.                                         *)
(***************************************************************************)
THEOREM RootsArePublished == Spec => []PublishedRoots
<1>1. Init => PublishedRoots
  BY DEF Init, PublishedRoots, FillsTree
<1>2. TypeOK /\ PublishedRoots /\ [Next]_vars => PublishedRoots'
  <2> SUFFICES ASSUME TypeOK, PublishedRoots, [Next]_vars PROVE PublishedRoots'
    OBVIOUS
  <2>1. ASSUME UNCHANGED <<ledger.root, ledger.issuer, ledger.depth>>
        PROVE  FillsTree(ledger)'
    BY <2>1 DEF PublishedRoots, FillsTree
  <2>2. ASSUME call' = NoCall, FillsTree(ledger)' PROVE PublishedRoots'
    BY <2>2 DEF PublishedRoots
  <2>3. ASSUME NEW depth \in Depths, Initialize(Issuer, depth) PROVE PublishedRoots'
    <3>1. ledger.root = ZeroRoot /\ ledger'.root = ledger.root
      BY <2>3 DEF Initialize, Initialized, PublishedRoots, FillsTree, TypeOK, LedgerType
    <3> QED
      BY <2>3, <2>2, <3>1 DEF Initialize, FillsTree
  <2>4. ASSUME NEW caller \in Callers, NEW leaves \in Submissions,
               UpdateAccreditedSet(caller, leaves)
        PROVE  PublishedRoots'
    <3>1. /\ ledger'.root = leaves /\ ledger'.issuer = ledger.issuer
          /\ ledger'.depth = ledger.depth
          /\ ledger.issuer # NoIssuer /\ Len(leaves) = 2 ^ ledger.depth
      BY <2>4 DEF UpdateAccreditedSet, NewEpoch, RequireIssuer, Initialized,
                  TypeOK, LedgerType
    <3>2. FillsTree(ledger)'
      BY <3>1 DEF FillsTree
    <3> QED
      BY <2>4, <2>2, <3>2 DEF UpdateAccreditedSet
  <2>5. ASSUME NEW caller \in Callers, AdvanceEpoch(caller) PROVE PublishedRoots'
    BY <2>5, <2>1, <2>2 DEF AdvanceEpoch, NewEpoch, TypeOK, LedgerType
  <2>6. ASSUME NEW investor \in Investors, NEW amount \in Amounts,
               NEW s \in Inputs, SubscribeEnter(investor, amount, s)
        PROVE  PublishedRoots'
    <3>1. call'.saved = ledger
      BY <2>6 DEF SubscribeEnter
    <3>2. FillsTree(ledger)'
      BY <2>6, <2>1 DEF SubscribeEnter, TypeOK, LedgerType
    <3> QED
      BY <3>1, <3>2 DEF PublishedRoots, FillsTree
  <2>7. CASE SubscribeTransfer \/ SubscribeMint
    <3>1. call \in CallType /\ call # NoCall
      BY <2>7 DEF SubscribeTransfer, SubscribeMint, AtStep, NoCall, TypeOK
    <3>2. call'.saved = call.saved
      BY <2>7, <3>1 DEF SubscribeTransfer, SubscribeMint, CallType
    <3>3. FillsTree(ledger)'
      BY <2>7, <2>1 DEF SubscribeTransfer, SubscribeMint, TypeOK, LedgerType
    <3> QED
      BY <3>1, <3>2, <3>3 DEF PublishedRoots, FillsTree
  <2>8. CASE SubscribeTally
    BY <2>8, <2>1, <2>2 DEF SubscribeTally, TypeOK, LedgerType
  <2>9. CASE SubscribeFails \/ HostAborts
    <3>1. call # NoCall /\ call' = NoCall /\ ledger' = call.saved
      BY <2>9 DEF SubscribeFails, HostAborts, RolledBack, AtStep, NoCall
    <3> QED
      BY <2>2, <3>1 DEF PublishedRoots, FillsTree
  <2>10. ASSUME NEW to \in Investors, NEW amount \in Amounts,
                UsdcMint(to, amount) \/ ShareMint(to, amount)
         PROVE  PublishedRoots'
    BY <2>10, <2>1, <2>2 DEF UsdcMint, ShareMint, TypeOK, LedgerType
  <2>11. ASSUME NEW from \in Investors, NEW to \in Holders, NEW amount \in Amounts,
                UsdcTransfer(from, to, amount) \/ ShareTransfer(from, to, amount)
         PROVE  PublishedRoots'
    BY <2>11, <2>1, <2>2 DEF UsdcTransfer, ShareTransfer, TypeOK, LedgerType
  <2>12. CASE ShareSetAdmin
    BY <2>12, <2>1, <2>2 DEF ShareSetAdmin, TypeOK, LedgerType
  <2>13. CASE UNCHANGED vars
    BY <2>13 DEF vars, PublishedRoots, FillsTree
  <2> QED
    BY <2>3, <2>4, <2>5, <2>6, <2>7, <2>8, <2>9, <2>10, <2>11, <2>12, <2>13
       DEF Next, Holders
<1> QED
  BY <1>1, <1>2, TypeCorrect, PTL DEF Spec

(***************************************************************************)
(* The gate refuses no accredited investor who has not settled yet: every  *)
(* check of subscribe passes for the statement such an investor proves.    *)
(***************************************************************************)
THEOREM EligibleAreAdmitted == Spec => []EligibleIsAdmitted
<1>1. TypeOK /\ SettlementInv /\ PublishedRoots => EligibleIsAdmitted
  <2> SUFFICES ASSUME TypeOK, SettlementInv, PublishedRoots,
                      call = NoCall, ledger.depth = CircuitDepth,
                      NEW leaf \in Members(ledger.root), NEW amount \in Amounts,
                      amount \in 1..leaf.cap, leaf.cap <= U64Max,
                      \A i \in DOMAIN ledger.events :
                        ledger.events[i].nullifier #
                          CanonicalWord(<<leaf.secret, ledger.epoch>>)
               PROVE  SubscribeError(amount, HonestStatement(leaf, amount)) = "Ok"
    BY DEF EligibleIsAdmitted, Members
  <2> DEFINE s == HonestStatement(leaf, amount)
  <2>1. /\ s.root = ledger.root /\ s.amount = amount /\ s.epoch = ledger.epoch
        /\ s.nullifier = CanonicalWord(<<leaf.secret, ledger.epoch>>)
        /\ s.nullifier.element = Nullifier(leaf.secret, s.epoch)
    BY DEF HonestStatement, CanonicalWord, Nullifier
  <2>2. leaf.cap \in 0..U64Max /\ amount \in 0..leaf.cap /\ amount > 0
        /\ amount <= U64Max
    <3>1. leaf.cap \in Field
      BY MembersAreLeaves DEF TypeOK, LedgerType, Leaves
    <3> QED
      BY <3>1, WidthAssumption DEF Field
  <2>3. ledger.root # ZeroRoot
    BY DEF Members, ZeroRoot
  <2>4. Initialized /\ Len(ledger.root) = 2 ^ CircuitDepth
    BY <2>3 DEF PublishedRoots, FillsTree, Initialized
  <2>5. CircuitHolds(s)
    BY <2>1, <2>2, <2>4, ComparatorIsComplete DEF CircuitHolds, Members
  <2>6. RootMatches(s) /\ AmountMatches(amount, s) /\ EpochMatches(s)
    BY <2>1, <2>2, WidthAssumption
       DEF RootMatches, AmountMatches, EpochMatches, TypeOK, LedgerType, Epochs
  <2>7. NullifierFresh(s)
    BY <2>1 DEF NullifierFresh, SettlementInv, MarkedIffSettled, Committed
  <2>8. HostTakes(s)
    BY <2>1, WordAssumption DEF HostTakes, CanonicalWord
  <2> HIDE DEF s
  <2> QED
    BY <2>2, <2>4, <2>5, <2>6, <2>7, <2>8 DEF SubscribeError, s
<1> QED
  BY <1>1, TypeCorrect, SettlementCorrect, RootsArePublished, PTL

-----------------------------------------------------------------------------
(***************************************************************************)
(* A step that keeps what the mapping reads of the committed ledger is a   *)
(* stutter of the abstract ledger.                                         *)
(***************************************************************************)
LEMMA AbstractFrame ==
  ASSUME UNCHANGED <<Committed.root, Committed.epoch, Committed.events,
                     Committed.total, Committed.usdc[Pool]>>
  PROVE  UNCHANGED Promise!vars
BY DEF Promise!vars, Members

(***************************************************************************)
(* The contract before its initialization is the abstract ledger's start.  *)
(***************************************************************************)
LEMMA StartImplements == Init => Promise!Init
<1> SUFFICES ASSUME Init PROVE Promise!Init
  OBVIOUS
<1>1. /\ Committed = ledger
      /\ ledger.root = << >> /\ ledger.epoch = 0 /\ ledger.events = << >>
      /\ ledger.total = 0 /\ ledger.usdc[Pool] = 0
  BY DEF Init, Committed, ZeroRoot, Holders
<1>2. Members(Committed.root) = {} /\ DOMAIN Committed.events = {}
  BY <1>1 DEF Members
<1> QED
  BY <1>1, <1>2 DEF Promise!Init

(***************************************************************************)
(* A new epoch is a publication of the root's leaves.                      *)
(***************************************************************************)
LEMMA NewEpochImplements ==
  ASSUME TypeOK, NEW root \in Roots, call = NoCall, call' = NoCall,
         ledger' = NewEpoch(root)
  PROVE  Promise!Accredit
<1>1. Committed = ledger /\ Committed' = ledger'
  BY DEF Committed
<1>2. /\ ledger'.root = root
      /\ ledger'.epoch = ledger.epoch + 1
      /\ UNCHANGED <<ledger.events, ledger.total, ledger.usdc>>
  BY DEF NewEpoch, TypeOK, LedgerType
<1>3. {<<leaf.secret, leaf.cap>> : leaf \in Members(root)} \subseteq Secrets \X Field
  BY MembersAreLeaves DEF Leaves
<1> QED
  BY <1>1, <1>2, <1>3 DEF Promise!Accredit, Members

(***************************************************************************)
(* A transfer of USDC that reaches the pool is a deposit, any other one is *)
(* not seen.                                                               *)
(***************************************************************************)
LEMMA TransferImplements ==
  ASSUME TypeOK, NEW from \in Investors, NEW to \in Holders,
         NEW amount \in Amounts, UsdcTransfer(from, to, amount)
  PROVE  Promise!Deposit \/ UNCHANGED Promise!vars
<1>1. Committed = ledger /\ Committed' = ledger'
  BY DEF Committed, UsdcTransfer
<1>2. UNCHANGED <<ledger.root, ledger.epoch, ledger.events, ledger.total>>
  BY DEF UsdcTransfer, TypeOK, LedgerType
<1>3. ledger'.usdc[Pool] =
        IF to = Pool THEN ledger.usdc[Pool] + amount ELSE ledger.usdc[Pool]
  <2>1. ledger.usdc \in [Holders -> Balances] /\ amount \in Int
    BY InputAssumption DEF TypeOK, LedgerType
  <2>2. ledger'.usdc = AfterTransfer(ledger.usdc, from, to, amount)
    BY DEF UsdcTransfer, TypeOK, LedgerType
  <2> QED
    BY <2>1, <2>2, TransferEffect
<1>4. CASE to = Pool
  <2>1. ledger'.usdc[Pool] > ledger.usdc[Pool]
    <3>1. amount > 0 /\ amount \in Int
      BY InputAssumption DEF UsdcTransfer, CanTransfer
    <3>2. ledger.usdc[Pool] \in Int
      BY I128MaxAssumption DEF TypeOK, LedgerType, Holders, Balances
    <3> QED
      BY <1>3, <1>4, <3>1, <3>2
  <2> QED
    BY <1>1, <1>2, <2>1 DEF Promise!Deposit, Members
<1>5. CASE to # Pool
  BY <1>1, <1>2, <1>3, <1>5, AbstractFrame
<1> QED
  BY <1>4, <1>5

(***************************************************************************)
(* The last step of subscribe settles an entry of the roster.  That the    *)
(* entry has not settled in this epoch under this word's name follows from *)
(* the stored nullifiers: they are the words of the events, and each word  *)
(* is that of its secret with its epoch under its name.                    *)
(***************************************************************************)
LEMMA TallyImplements ==
  ASSUME TypeOK, SettlementInv, RosterInv, SubscribeTally
  PROVE  Promise!Settle
<1>1. call \in CallType /\ call # NoCall /\ call' = NoCall /\ call.step = "tally"
  BY DEF SubscribeTally, AtStep, NoCall, TypeOK
<1> DEFINE before == call.saved
           s      == call.statement
           event  == [investor |-> call.investor, amount |-> call.amount,
                      nullifier |-> s.nullifier, epoch |-> s.epoch]
           new    == [secret |-> s.nullifier.element[1], epoch |-> s.epoch,
                      name |-> s.nullifier.wraps, amount |-> call.amount]
           Settled(events) == {[secret |-> events[i].nullifier.element[1],
                                epoch  |-> events[i].epoch,
                                name   |-> events[i].nullifier.wraps,
                                amount |-> events[i].amount] : i \in DOMAIN events}
<1>2. Committed = before /\ Committed' = ledger'
  BY <1>1 DEF Committed
<1>3. /\ ledger'.events = Append(before.events, event)
      /\ ledger'.total = before.total + call.amount
      /\ ledger'.usdc[Pool] = before.usdc[Pool] + call.amount
      /\ ledger'.root = before.root
      /\ ledger'.epoch = before.epoch
  BY <1>1 DEF SubscribeTally, AddSubscribed, SettlementInv, InFlight, RosterInv,
              CarriesEntitlement, TypeOK, LedgerType
<1> DEFINE Event == [investor : Investors, amount : Amounts \cap Nat,
                     nullifier : Words, epoch : Field]
<1>4. /\ before.total \in Int /\ call.amount \in Int
      /\ before.events \in Seq(Event)
  BY <1>1, I128MaxAssumption DEF CallType, LedgerType, Balances
<1>5. ledger'.total - before.total = call.amount
  BY <1>3, <1>4
<1>6. PICK leaf \in Members(before.root) :
         /\ s.nullifier.element = <<leaf.secret, s.epoch>>
         /\ call.amount \in 1..leaf.cap
  BY <1>1 DEF RosterInv, CarriesEntitlement
<1>7. s.epoch = before.epoch
  BY <1>1 DEF RosterInv, CarriesEntitlement
<1>8. Settled(ledger'.events) = Settled(before.events) \cup {new}
  <2>1. /\ DOMAIN ledger'.events = DOMAIN before.events \cup {Len(before.events) + 1}
        /\ \A i \in DOMAIN before.events : ledger'.events[i] = before.events[i]
        /\ ledger'.events[Len(before.events) + 1] = event
    <3>1. before.events \in Seq(Event) /\ ledger'.events = Append(before.events, event)
      BY <1>3, <1>4
    <3> HIDE DEF event, Event
    <3> QED
      BY <3>1, AppendFacts
  <2>2. /\ event.nullifier = s.nullifier /\ event.epoch = s.epoch
        /\ event.amount = call.amount
    OBVIOUS
  <2> HIDE DEF event
  <2> QED
    BY <2>1, <2>2
<1>9. new = [secret |-> leaf.secret, epoch |-> before.epoch,
             name |-> s.nullifier.wraps, amount |-> call.amount]
  BY <1>6, <1>7
<1>10. \A past \in Settled(before.events) :
          \/ past.secret # leaf.secret
          \/ past.epoch # before.epoch
          \/ past.name # s.nullifier.wraps
  <2> SUFFICES ASSUME NEW i \in DOMAIN before.events,
                      before.events[i].nullifier.element[1] = leaf.secret,
                      before.events[i].epoch = before.epoch,
                      before.events[i].nullifier.wraps = s.nullifier.wraps
               PROVE  FALSE
    OBVIOUS
  <2>1. PICK other \in Members(before.rootOf[before.events[i].epoch + 1]) :
           before.events[i].nullifier.element =
             <<other.secret, before.events[i].epoch>>
    BY <1>2 DEF RosterInv, SettledWithinCap
  <2>2. before.events[i].nullifier = s.nullifier
    <3>1. before.events[i].nullifier.element = s.nullifier.element
      BY <2>1, <1>6, <1>7
    <3>2. before.events[i].nullifier \in Words
      <4>1. before.events[i] \in Event
        <5> HIDE DEF Event
        <5> QED
          BY <1>4
      <4> QED
        BY <4>1
    <3>3. s.nullifier \in Words
      BY <1>1, InputAssumption DEF CallType, Statements
    <3> QED
      BY <3>1, <3>2, <3>3 DEF Words
  <2>3. before.events[i].nullifier \in before.nullifiers
    BY <1>2 DEF SettlementInv, MarkedIffSettled
  <2>4. s.nullifier \notin before.nullifiers
    BY <1>1 DEF SettlementInv, InFlight
  <2> QED
    BY <2>2, <2>3, <2>4
<1>11. /\ <<leaf.secret, leaf.cap>> \in
            {<<l.secret, l.cap>> : l \in Members(before.root)}
       /\ <<leaf.secret, leaf.cap>>[1] = leaf.secret
       /\ <<leaf.secret, leaf.cap>>[2] = leaf.cap
  OBVIOUS
<1>12. s.nullifier.wraps \in AdmittedWraps
  BY <1>1 DEF SettlementInv, InFlight
<1> HIDE DEF before, new, s
<1>13. \E entry \in {<<l.secret, l.cap>> : l \in Members(before.root)},
           name \in AdmittedWraps :
          /\ ledger'.total - before.total \in 1..entry[2]
          /\ \A past \in Settled(before.events) :
                \/ past.secret # entry[1]
                \/ past.epoch # before.epoch
                \/ past.name # name
          /\ Settled(ledger'.events) =
               Settled(before.events) \cup
                 {[secret |-> entry[1], epoch |-> before.epoch, name |-> name,
                   amount |-> ledger'.total - before.total]}
          /\ ledger'.usdc[Pool] = before.usdc[Pool] + (ledger'.total - before.total)
  <2> HIDE DEF Settled
  <2> WITNESS <<leaf.secret, leaf.cap>> \in
                {<<l.secret, l.cap>> : l \in Members(before.root)},
              s.nullifier.wraps \in AdmittedWraps
  <2> QED
    BY <1>3, <1>5, <1>6, <1>8, <1>9, <1>10, <1>11, <1>12
<1>14. /\ {[secret |-> Committed.events[i].nullifier.element[1],
             epoch  |-> Committed.events[i].epoch,
             name   |-> Committed.events[i].nullifier.wraps,
             amount |-> Committed.events[i].amount] :
               i \in DOMAIN Committed.events} = Settled(before.events)
       /\ {[secret |-> Committed.events[i].nullifier.element[1],
             epoch  |-> Committed.events[i].epoch,
             name   |-> Committed.events[i].nullifier.wraps,
             amount |-> Committed.events[i].amount] :
               i \in DOMAIN Committed.events}' = Settled(ledger'.events)
  BY <1>2
<1>15. /\ {<<l.secret, l.cap>> : l \in Members(Committed.root)} =
             {<<l.secret, l.cap>> : l \in Members(before.root)}
       /\ UNCHANGED {<<l.secret, l.cap>> : l \in Members(Committed.root)}
       /\ UNCHANGED Committed.epoch
       /\ Committed.epoch = before.epoch
  BY <1>2, <1>3 DEF Members
<1>16. /\ Committed.total = before.total /\ Committed.total' = ledger'.total
       /\ Committed.usdc[Pool] = before.usdc[Pool]
       /\ Committed.usdc[Pool]' = ledger'.usdc[Pool]
  BY <1>2
<1> DEFINE roster  == {<<l.secret, l.cap>> : l \in Members(Committed.root)}
           settled == {[secret |-> Committed.events[i].nullifier.element[1],
                        epoch  |-> Committed.events[i].epoch,
                        name   |-> Committed.events[i].nullifier.wraps,
                        amount |-> Committed.events[i].amount] :
                          i \in DOMAIN Committed.events}
           amount  == (Committed.total)' - Committed.total
<1>17. \E entry \in roster, name \in AdmittedWraps :
          /\ amount \in 1..entry[2]
          /\ \A past \in settled : \/ past.secret # entry[1]
                                   \/ past.epoch # Committed.epoch
                                   \/ past.name # name
          /\ settled' = settled \cup
                {[secret |-> entry[1], epoch |-> Committed.epoch,
                  name |-> name, amount |-> amount]}
          /\ (Committed.usdc[Pool])' = Committed.usdc[Pool] + amount
          /\ UNCHANGED <<roster, Committed.epoch>>
  <2>1. roster = {<<l.secret, l.cap>> : l \in Members(before.root)}
    BY <1>15
  <2>2. settled = Settled(before.events) /\ settled' = Settled(ledger'.events)
    BY <1>14
  <2>3. amount = ledger'.total - before.total
    BY <1>16
  <2>4. UNCHANGED <<roster, Committed.epoch>>
    BY <1>15
  <2> HIDE DEF roster, settled, amount, Settled, event
  <2> QED
    BY <1>13, <1>15, <1>16, <2>1, <2>2, <2>3, <2>4
<1> QED
  <2> HIDE DEF Settled, s, event
  <2> QED
    BY <1>17 DEF Promise!Settle

(***************************************************************************)
(* The contract implements the abstract ledger of subscriptions, in which  *)
(* the names of a secret are the words of its nullifier that the host      *)
(* takes: with one of them it settles once in an epoch.                    *)
(***************************************************************************)
THEOREM PoolPassImplementsPromise == Spec => ImplementsPromise
<1>1. ASSUME TypeOK, SettlementInv, RosterInv, [Next]_vars
      PROVE  [Promise!Next]_(Promise!vars)
  <2>1. ASSUME UNCHANGED Committed PROVE UNCHANGED Promise!vars
    BY <2>1, AbstractFrame
  <2>2. ASSUME call = NoCall, call' = NoCall,
               UNCHANGED <<ledger.root, ledger.epoch, ledger.events,
                           ledger.total, ledger.usdc[Pool]>>
        PROVE  UNCHANGED Promise!vars
    BY <2>2, AbstractFrame DEF Committed
  <2>3. ASSUME NEW depth \in Depths, Initialize(Issuer, depth)
        PROVE  UNCHANGED Promise!vars
    BY <1>1, <2>2, <2>3 DEF Initialize, TypeOK, LedgerType
  <2>4. ASSUME NEW caller \in Callers, NEW leaves \in Submissions,
               UpdateAccreditedSet(caller, leaves)
        PROVE  Promise!Accredit
    BY <1>1, <2>4, NewEpochImplements DEF UpdateAccreditedSet, Roots
  <2>5. ASSUME NEW caller \in Callers, AdvanceEpoch(caller) PROVE Promise!Accredit
    <3>1. ledger.root \in Roots
      BY <1>1 DEF TypeOK, LedgerType
    <3> QED
      BY <1>1, <2>5, <3>1, NewEpochImplements DEF AdvanceEpoch
  <2>6. ASSUME NEW investor \in Investors, NEW amount \in Amounts,
               NEW s \in Inputs, SubscribeEnter(investor, amount, s)
        PROVE  UNCHANGED Promise!vars
    BY <2>1, <2>6 DEF SubscribeEnter, Committed, NoCall
  <2>7. CASE SubscribeTransfer \/ SubscribeMint
    <3>1. call \in CallType
      BY <1>1, <2>7 DEF SubscribeTransfer, SubscribeMint, AtStep, NoCall, TypeOK
    <3>2. call # NoCall /\ call' # NoCall /\ call'.saved = call.saved
      BY <2>7, <3>1 DEF SubscribeTransfer, SubscribeMint, AtStep, CallType, NoCall
    <3> QED
      BY <2>1, <3>2 DEF Committed
  <2>8. CASE SubscribeTally
    BY <1>1, <2>8, TallyImplements DEF Promise!Next
  <2>9. CASE SubscribeFails \/ HostAborts
    <3>1. call # NoCall /\ call' = NoCall /\ ledger' = call.saved
      BY <2>9 DEF SubscribeFails, HostAborts, RolledBack, AtStep, NoCall
    <3> QED
      BY <2>1, <3>1 DEF Committed
  <2>10. ASSUME NEW to \in Investors, NEW amount \in Amounts, UsdcMint(to, amount)
         PROVE  UNCHANGED Promise!vars
    <3>1. ledger'.usdc[Pool] = ledger.usdc[Pool]
      BY <1>1, <2>10, AddressAssumption
         DEF UsdcMint, AfterMint, TypeOK, LedgerType, Holders, Callers
    <3> QED
      BY <1>1, <2>2, <2>10, <3>1 DEF UsdcMint, TypeOK, LedgerType
  <2>11. ASSUME NEW from \in Investors, NEW to \in Holders, NEW amount \in Amounts,
                UsdcTransfer(from, to, amount)
         PROVE  Promise!Deposit \/ UNCHANGED Promise!vars
    BY <1>1, <2>11, TransferImplements
  <2>12. ASSUME NEW to \in Investors, NEW amount \in Amounts, ShareMint(to, amount)
         PROVE  UNCHANGED Promise!vars
    BY <1>1, <2>2, <2>12 DEF ShareMint, TypeOK, LedgerType
  <2>13. ASSUME NEW from \in Investors, NEW to \in Investors, NEW amount \in Amounts,
                ShareTransfer(from, to, amount)
         PROVE  UNCHANGED Promise!vars
    BY <1>1, <2>2, <2>13 DEF ShareTransfer, TypeOK, LedgerType
  <2>14. CASE ShareSetAdmin
    BY <1>1, <2>2, <2>14 DEF ShareSetAdmin, TypeOK, LedgerType
  <2>15. CASE UNCHANGED vars
    BY <2>1, <2>15 DEF vars, Committed
  <2> QED
    BY <1>1, <2>3, <2>4, <2>5, <2>6, <2>7, <2>8, <2>9, <2>10, <2>11, <2>12,
       <2>13, <2>14, <2>15 DEF Next, Promise!Next
<1>2. TypeOK /\ SettlementInv /\ RosterInv /\ [Next]_vars
      => [Promise!Next]_(Promise!vars)
  BY <1>1
<1> QED
  BY <1>2, StartImplements, TypeCorrect, SettlementCorrect, RosterCorrect, PTL
     DEF Spec, ImplementsPromise, Promise!Spec
=============================================================================
