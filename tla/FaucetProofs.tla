---------------------------- MODULE FaucetProofs ----------------------------
(***************************************************************************)
(* The faucet's cooldown, for every set of addresses, every cooldown and   *)
(* any number of requests, failures and crashes.                           *)
(***************************************************************************)
EXTENDS Faucet, TLAPS

Request == [address : Addresses, amount : 1..Cap, at : 0..MaxTime,
            status : Statuses, number : Nat]

(***************************************************************************)
(* The type, and what the bounds keep: a request is never of the future,   *)
(* and a crash is recorded with no more requests than were sent.           *)
(***************************************************************************)
Typed ==
  /\ TypeOK
  /\ Len(requests) <= MaxRequests
  /\ \A r \in Ids : requests[r].at <= now
  /\ \A i \in DOMAIN restarts : restarts[i] <= Len(requests)

(***************************************************************************)
(* What the map of claims means.  A request is live when it may mint or    *)
(* has; since the last crash,                                              *)
(*   Covered: a live request in the window has a claim at least as recent, *)
(*   Spaced:  live requests of one address are a cooldown apart,           *)
(*   Backed:  a claim is that of a live request,                           *)
(*   Gone:    what runs was sent after the last crash, what was lost was   *)
(*            sent before it.                                              *)
(***************************************************************************)
Live == Running \cup {"granted"}

Covered ==
  \A r \in Ids :
    (requests[r].status \in Live /\ SinceRestart(r) /\ InWindow(r, now))
    => /\ requests[r].address \in DOMAIN claims
       /\ claims[requests[r].address] >= requests[r].at

Spaced ==
  \A q, r \in Ids :
    (/\ q < r
     /\ requests[q].address = requests[r].address
     /\ requests[q].status \in Live
     /\ SinceRestart(q))
    => requests[q].at + Cooldown <= requests[r].at \/ requests[r].status \notin Live

Backed ==
  \A address \in DOMAIN claims :
    \E r \in Ids : /\ requests[r].address = address
                   /\ requests[r].at = claims[address]
                   /\ requests[r].status \in Live

Gone ==
  \A r \in Ids : /\ requests[r].status = "lost" => ~SinceRestart(r)
                 /\ requests[r].status \in Running => SinceRestart(r)

IInv == Typed /\ Covered /\ Spaced /\ Backed /\ Gone

-----------------------------------------------------------------------------
(***************************************************************************)
(* The map operations.                                                     *)
(***************************************************************************)
LEMMA ClaimedIs ==
  ASSUME NEW address
  PROVE  /\ DOMAIN Claimed(address) = DOMAIN claims \cup {address}
         /\ Claimed(address)[address] = now
         /\ \A a \in DOMAIN claims : a # address => Claimed(address)[a] = claims[a]
  BY DEF Claimed

LEMMA ReleasedIs ==
  ASSUME NEW address
  PROVE  /\ DOMAIN Released(address) = DOMAIN claims \ {address}
         /\ \A a \in DOMAIN claims : a # address => Released(address)[a] = claims[a]
  BY DEF Released, Restrict

LEMMA SentIs ==
  ASSUME NEW r, Sent(r), Range(network) \subseteq {"pending", "applied"}
  PROVE  /\ DOMAIN network' = DOMAIN network \cup {r}
         /\ Range(network') \subseteq {"pending", "applied"}
  BY DEF Sent, Range

-----------------------------------------------------------------------------
(***************************************************************************)
(* Every stored value keeps its type and its bounds.                       *)
(***************************************************************************)
LEMMA TypedInit == Init => Typed
  BY FaucetAssumption DEF Init, Typed, TypeOK, Ids, Range

LEMMA TypedNext == Typed /\ [Next]_vars => Typed'
<1> SUFFICES ASSUME Typed, [Next]_vars PROVE Typed'
  OBVIOUS
<1>a. /\ requests \in Seq(Request) /\ Len(requests) <= MaxRequests
      /\ now \in 0..MaxTime /\ sequence \in Nat
      /\ restarts \in Seq(0..MaxRequests)
      /\ DOMAIN claims \subseteq Addresses
      /\ \A address \in DOMAIN claims : claims[address] \in 0..now
      /\ DOMAIN network \subseteq Ids /\ Range(network) \subseteq {"pending", "applied"}
      /\ \A r \in Ids : requests[r].at <= now
      /\ \A i \in DOMAIN restarts : restarts[i] <= Len(requests)
  BY DEF Typed, TypeOK, Request
<1>b. Ids = 1..Len(requests) /\ Len(requests) \in Nat
  BY <1>a DEF Ids
<1>c. \A r \in Ids : requests[r] \in Request
  BY <1>a, <1>b
<1>1. CASE Tick
  <2>1. now' \in 0..MaxTime /\ now' >= now
    BY <1>a, <1>1, FaucetAssumption DEF Tick
  <2>2. UNCHANGED <<claims, requests, sequence, network, restarts>>
    BY <1>1 DEF Tick
  <2>3. \A r \in Ids' : requests'[r].at <= now'
    <3> SUFFICES ASSUME NEW r \in Ids PROVE requests[r].at <= now'
      BY <2>2 DEF Ids
    <3>1. requests[r].at \in 0..MaxTime /\ requests[r].at <= now
      BY <1>a, <1>c DEF Request
    <3> QED
      BY <3>1, <2>1, <1>a, FaucetAssumption
  <2>4. \A address \in DOMAIN claims' : claims'[address] \in 0..now'
    BY <2>1, <2>2, <1>a, FaucetAssumption
  <2> QED
    BY <2>1, <2>2, <2>3, <2>4, <1>a DEF Typed, TypeOK, Ids, Request
<1>2. ASSUME NEW address \in Addresses, NEW amount \in Amounts,
             NEW status \in {"refused", "signing"},
             Len(requests) < MaxRequests, WithinLimit(amount), Ask(address, amount, status),
             UNCHANGED <<now, sequence, network, restarts>>,
             claims' \in {claims, Claimed(address)}
      PROVE  Typed'
  <2> DEFINE new == [address |-> address, amount |-> amount, at |-> now,
                     status |-> status, number |-> 0]
  <2>1. new \in Request
    BY <1>2, <1>a, FaucetAssumption DEF Request, WithinLimit, Statuses, Running
  <2>2. requests' = Append(requests, new)
    BY <1>2 DEF Ask
  <2>3. new.at = now
    OBVIOUS
  <2> HIDE DEF new
  <2>4. /\ requests' \in Seq(Request) /\ Len(requests') = Len(requests) + 1
        /\ Ids' = 1..(Len(requests) + 1)
        /\ requests'[Len(requests) + 1] = new
        /\ \A r \in Ids : requests'[r] = requests[r]
    BY <1>a, <2>1, <2>2 DEF Ids
  <2>5. Len(requests') <= MaxRequests
    BY <1>2, <2>4, <1>b, FaucetAssumption
  <2>6. \A r \in Ids' : requests'[r].at <= now'
    <3> TAKE r \in Ids'
    <3>1. CASE r \in Ids
      BY <3>1, <2>4, <1>a, <1>2
    <3>2. CASE r = Len(requests) + 1
      BY <3>2, <2>3, <2>4, <1>a, <1>2, FaucetAssumption
    <3> QED
      BY <3>1, <3>2, <2>4, <1>b
  <2>7. /\ DOMAIN claims' \subseteq Addresses
        /\ \A a \in DOMAIN claims' : claims'[a] \in 0..now'
    <3>1. CASE claims' = claims
      BY <3>1, <1>a, <1>2
    <3>2. CASE claims' = Claimed(address)
      <4>1. /\ DOMAIN Claimed(address) = DOMAIN claims \cup {address}
            /\ Claimed(address)[address] = now
            /\ \A a \in DOMAIN claims :
                 a # address => Claimed(address)[a] = claims[a]
        BY ClaimedIs
      <4>2. now \in 0..now /\ now' = now
        BY <1>a, <1>2, FaucetAssumption
      <4> QED
        BY <3>2, <4>1, <4>2, <1>a
    <3> QED
      BY <3>1, <3>2, <1>2
  <2>8. \A i \in DOMAIN restarts' : restarts'[i] <= Len(requests')
    BY <1>a, <1>b, <1>2, <2>4, FaucetAssumption
  <2> QED
    BY <2>4, <2>5, <2>6, <2>7, <2>8, <1>a, <1>b, <1>2 DEF Typed, TypeOK, Request
<1>3. ASSUME NEW r \in Ids, NEW new \in Request,
             requests' = [requests EXCEPT ![r] = new],
             new.at = requests[r].at,
             UNCHANGED <<now, sequence, restarts>>,
             claims' = claims \/ claims' = Released(requests[r].address),
             network' = network \/ Sent(r)
      PROVE  Typed'
  <2>1. /\ requests' \in Seq(Request) /\ Len(requests') = Len(requests) /\ Ids' = Ids
        /\ \A q \in Ids : requests'[q].at = requests[q].at
    BY <1>3, <1>a DEF Ids
  <2>2. /\ DOMAIN claims' \subseteq Addresses
        /\ \A a \in DOMAIN claims' : claims'[a] \in 0..now'
    <3>1. CASE claims' = claims
      BY <3>1, <1>a, <1>3
    <3>2. CASE claims' = Released(requests[r].address)
      BY <3>2, <1>a, <1>3, ReleasedIs
    <3> QED
      BY <3>1, <3>2, <1>3
  <2>3. DOMAIN network' \subseteq Ids /\ Range(network') \subseteq {"pending", "applied"}
    BY <1>a, <1>3, SentIs
  <2> QED
    BY <2>1, <2>2, <2>3, <1>a, <1>3 DEF Typed, TypeOK, Request
<1>4. ASSUME NEW address \in Addresses, NEW amount \in Amounts,
             Refuse(address, amount) \/ Accept(address, amount)
      PROVE  Typed'
  BY <1>2, <1>4 DEF Refuse, Accept
<1>5. ASSUME NEW r \in Ids, Sign(r) PROVE Typed'
  <2> DEFINE new == [requests[r] EXCEPT !.status = "sending", !.number = sequence + 1]
  <2>1. new \in Request /\ new.at = requests[r].at
    <3>1. sequence + 1 \in Nat /\ "sending" \in Statuses
      BY <1>a DEF Statuses, Running
    <3> QED
      BY <3>1, <1>c DEF Request
  <2>2. requests' = [requests EXCEPT ![r] = new]
    BY <1>5 DEF Sign
  <2> HIDE DEF new
  <2> QED
    BY <2>1, <2>2, <1>3, <1>5 DEF Sign
<1>6. ASSUME NEW r \in Ids, Send(r) PROVE Typed'
  <2> DEFINE new == [requests[r] EXCEPT !.status = "polling"]
  <2>1. new \in Request /\ new.at = requests[r].at
    BY <1>c DEF Request, Statuses, Running
  <2>2. requests' = [requests EXCEPT ![r] = new]
    BY <1>6 DEF Send
  <2> HIDE DEF new
  <2> QED
    BY <2>1, <2>2, <1>3, <1>6 DEF Send
<1>7. ASSUME NEW r \in Ids, Grant(r) PROVE Typed'
  <2> DEFINE new == [requests[r] EXCEPT !.status = "granted"]
  <2>1. new \in Request /\ new.at = requests[r].at
    BY <1>c DEF Request, Statuses
  <2>2. requests' = [requests EXCEPT ![r] = new]
    BY <1>7 DEF Grant
  <2> HIDE DEF new
  <2> QED
    BY <2>1, <2>2, <1>3, <1>7 DEF Grant
<1>8. ASSUME NEW r \in Ids, Fail(r) PROVE Typed'
  <2> DEFINE new == [requests[r] EXCEPT !.status = "failed"]
  <2>1. new \in Request /\ new.at = requests[r].at
    BY <1>c DEF Request, Statuses
  <2>2. requests' = [requests EXCEPT ![r] = new]
    BY <1>8 DEF Fail
  <2> HIDE DEF new
  <2> QED
    BY <2>1, <2>2, <1>3, <1>8 DEF Fail, ClaimsAfterFailure
<1>9. ASSUME NEW r \in DOMAIN network, Apply(r) \/ Expire(r) PROVE Typed'
  <2>1. /\ UNCHANGED <<now, claims, requests, restarts>>
        /\ sequence' \in Nat
        /\ DOMAIN network' \subseteq DOMAIN network
        /\ Range(network') \subseteq {"pending", "applied"}
    <3>1. CASE Apply(r)
      <4>1. network' = [network EXCEPT ![r] = "applied"]
        BY <3>1 DEF Apply
      <4>2. \A q \in DOMAIN network : network[q] \in {"pending", "applied"}
        BY <1>a DEF Range
      <4>3. /\ DOMAIN network' = DOMAIN network
            /\ \A q \in DOMAIN network : network'[q] \in {"pending", "applied"}
        BY <4>1, <4>2
      <4> QED
        BY <3>1, <4>3, <1>a DEF Apply, Range
    <3>2. CASE Expire(r)
      BY <3>2, <1>a DEF Expire, Restrict, Range
    <3> QED
      BY <3>1, <3>2, <1>9
  <2> QED
    BY <2>1, <1>a DEF Typed, TypeOK, Ids, Request
<1>10. CASE Crash
  <2> DEFINE after(r) == IF requests[r].status \in Running
                         THEN [requests[r] EXCEPT !.status = "lost"] ELSE requests[r]
  <2>a. \A r \in Ids : after(r) \in Request /\ after(r).at = requests[r].at
    BY <1>c DEF Request, Statuses
  <2>b. requests' = [r \in Ids |-> after(r)]
    BY <1>10 DEF Crash
  <2> HIDE DEF after
  <2>1. /\ requests' \in Seq(Request) /\ Len(requests') = Len(requests) /\ Ids' = Ids
        /\ \A r \in Ids : requests'[r].at = requests[r].at
    BY <2>a, <2>b, <1>b DEF Ids
  <2>2. restarts' \in Seq(0..MaxRequests)
    BY <1>a, <1>b, <1>10, FaucetAssumption DEF Crash
  <2>3. \A i \in DOMAIN restarts' : restarts'[i] <= Len(requests')
    BY <1>a, <1>b, <1>10, <2>1 DEF Crash
  <2>4. DOMAIN claims' = {} /\ UNCHANGED <<now, sequence, network>>
    BY <1>10 DEF Crash
  <2>5. \A r \in Ids' : requests'[r].at <= now'
    BY <2>1, <2>4, <1>a
  <2> QED
    BY <2>1, <2>2, <2>3, <2>4, <2>5, <1>a DEF Typed, TypeOK, Request
<1>11. CASE UNCHANGED vars
  BY <1>11, <1>a DEF vars, Typed, TypeOK, Ids, Request
<1> QED
  BY <1>1, <1>4, <1>5, <1>6, <1>7, <1>8, <1>9, <1>10, <1>11 DEF Next

-----------------------------------------------------------------------------
LEMMA Facts ==
  ASSUME Typed
  PROVE  /\ requests \in Seq(Request) /\ Ids = 1..Len(requests) /\ Len(requests) \in Nat
         /\ now \in Nat
         /\ \A r \in Ids : requests[r] \in Request /\ requests[r].at \in 0..now
         /\ \A address \in DOMAIN claims : claims[address] \in 0..now
         /\ restarts \in Seq(Nat)
         /\ \A i \in DOMAIN restarts : restarts[i] <= Len(requests)
<1>1. requests \in Seq(Request) /\ now \in 0..MaxTime
  BY DEF Typed, TypeOK, Request
<1>2. Ids = 1..Len(requests) /\ Len(requests) \in Nat /\ now \in Nat
  BY <1>1, FaucetAssumption DEF Ids
<1>3. \A r \in Ids : requests[r] \in Request
  BY <1>1, <1>2
<1>4. \A r \in Ids : requests[r].at \in 0..now
  <2> TAKE r \in Ids
  <2>1. requests[r].at \in 0..MaxTime /\ requests[r].at <= now
    BY <1>3 DEF Typed, Request
  <2> QED
    BY <2>1, <1>1, FaucetAssumption
<1>5. restarts \in Seq(Nat)
  BY FaucetAssumption DEF Typed, TypeOK
<1> QED
  BY <1>1, <1>2, <1>3, <1>4, <1>5 DEF Typed, TypeOK

(***************************************************************************)
(* Where no request comes to life or dies and no claim changes, and a      *)
(* later clock only narrows the windows.                                   *)
(***************************************************************************)
SameRequests ==
  /\ Ids' = Ids
  /\ \A r \in Ids :
       /\ requests'[r].address = requests[r].address
       /\ requests'[r].at = requests[r].at
       /\ (requests'[r].status \in Live) = (requests[r].status \in Live)
       /\ requests'[r].status = "lost" => requests[r].status = "lost"
       /\ requests'[r].status \in Running => requests[r].status \in Running

LEMMA SameLife ==
  ASSUME Typed, Covered, Spaced, Backed, Gone, SameRequests,
         claims' = claims, restarts' = restarts, now' \in Nat, now' >= now
  PROVE  Covered' /\ Spaced' /\ Backed' /\ Gone'
<1>1. \A r \in Ids : SinceRestart(r)' <=> SinceRestart(r)
  BY DEF SinceRestart
<1>2. \A r \in Ids : InWindow(r, now)' => InWindow(r, now)
  <2> SUFFICES ASSUME NEW r \in Ids, InWindow(r, now)' PROVE InWindow(r, now)
    OBVIOUS
  <2>1. requests[r].at \in Nat /\ now \in Nat
    BY Facts
  <2>2. requests[r].at + Cooldown > now'
    BY DEF InWindow, SameRequests
  <2> QED
    BY <2>1, <2>2, FaucetAssumption DEF InWindow
<1>3. Covered'
  BY <1>1, <1>2 DEF Covered, SameRequests
<1>4. Spaced'
  BY <1>1 DEF Spaced, SameRequests
<1>5. Backed'
  BY DEF Backed, SameRequests
<1>6. Gone'
  BY <1>1 DEF Gone, SameRequests
<1> QED
  BY <1>3, <1>4, <1>5, <1>6

(***************************************************************************)
(* A claim is set: by then the address has no live request in the window.  *)
(***************************************************************************)
LEMMA AcceptKeeps ==
  ASSUME Typed, Covered, Spaced, Backed, Gone,
         NEW address \in Addresses, NEW amount \in Amounts, Accept(address, amount)
  PROVE  Covered' /\ Spaced' /\ Backed' /\ Gone'
<1> DEFINE n == Len(requests) + 1
<1>a. /\ Ids = 1..Len(requests) /\ Len(requests) \in Nat /\ now \in Nat
      /\ \A r \in Ids : requests[r] \in Request /\ requests[r].at \in 0..now
      /\ \A a \in DOMAIN claims : claims[a] \in 0..now
      /\ restarts \in Seq(Nat)
      /\ \A i \in DOMAIN restarts : restarts[i] <= Len(requests)
  BY Facts
<1>1. /\ Ids' = Ids \cup {n}
      /\ \A r \in Ids : r # n /\ r < n /\ requests'[r] = requests[r]
      /\ requests'[n].address = address /\ requests'[n].at = now
      /\ requests'[n].status = "signing"
  <2> DEFINE new == [address |-> address, amount |-> amount, at |-> now,
                     status |-> "signing", number |-> 0]
  <2>1. requests' = Append(requests, new) /\ requests \in Seq(Request)
    BY Facts DEF Accept, Ask
  <2>2. new.address = address /\ new.at = now /\ new.status = "signing"
    OBVIOUS
  <2> HIDE DEF new
  <2>3. /\ DOMAIN requests' = 1..n /\ requests'[n] = new
        /\ \A r \in 1..Len(requests) : requests'[r] = requests[r]
    BY <2>1, <1>a
  <2> QED
    BY <2>2, <2>3, <1>a DEF Ids
<1>2. UNCHANGED <<now, restarts>> /\ claims' = Claimed(address) /\ ~CoolingDown(address)
  BY DEF Accept
<1>3. \A r \in Ids' : SinceRestart(r)' <=> SinceRestart(r)
  BY <1>2 DEF SinceRestart
<1>4. \A r \in Ids : InWindow(r, now)' <=> InWindow(r, now)
  BY <1>1, <1>2 DEF InWindow
<1>5. /\ DOMAIN claims' = DOMAIN claims \cup {address}
      /\ claims'[address] = now
      /\ \A a \in DOMAIN claims : a # address => claims'[a] = claims[a]
  BY <1>2, ClaimedIs
<1>6. ASSUME NEW r \in Ids, requests[r].address = address,
             requests[r].status \in Live, SinceRestart(r)
      PROVE  requests[r].at + Cooldown <= now
  <2> SUFFICES ASSUME ~(requests[r].at + Cooldown <= now) PROVE FALSE
    OBVIOUS
  <2>1. InWindow(r, now)
    BY <1>a, FaucetAssumption DEF InWindow
  <2>2. address \in DOMAIN claims /\ claims[address] >= requests[r].at
    BY <2>1, <1>6 DEF Covered
  <2>3. claims[address] \in Nat /\ requests[r].at \in Nat /\ now \in Nat
    BY <1>a, <2>2
  <2> QED
    BY <2>2, <2>3, <1>2, FaucetAssumption DEF CoolingDown
<1> HIDE DEF n
<1>7. Covered'
  <2> SUFFICES ASSUME NEW r \in Ids', requests'[r].status \in Live,
                      SinceRestart(r)', InWindow(r, now)'
               PROVE  /\ requests'[r].address \in DOMAIN claims'
                      /\ claims'[requests'[r].address] >= requests'[r].at
    BY DEF Covered
  <2>1. CASE r = n
    BY <2>1, <1>1, <1>5, <1>a
  <2>2. CASE r \in Ids
    <3>1. /\ requests[r].address \in DOMAIN claims
          /\ claims[requests[r].address] >= requests[r].at
      BY <2>2, <1>1, <1>3, <1>4 DEF Covered
    <3>2. CASE requests[r].address = address
      BY <3>2, <2>2, <1>1, <1>5, <1>a
    <3>3. CASE requests[r].address # address
      BY <3>1, <3>3, <2>2, <1>1, <1>5
    <3> QED
      BY <3>2, <3>3
  <2> QED
    BY <2>1, <2>2, <1>1
<1>8. Spaced'
  <2> SUFFICES ASSUME NEW q \in Ids', NEW r \in Ids', q < r,
                      requests'[q].address = requests'[r].address,
                      requests'[q].status \in Live, SinceRestart(q)'
               PROVE  \/ requests'[q].at + Cooldown <= requests'[r].at
                      \/ requests'[r].status \notin Live
    BY <1>2 DEF Spaced
  <2>1. q \in Ids
    BY <1>1, <1>a DEF n
  <2>2. CASE r = n
    BY <2>1, <2>2, <1>1, <1>3, <1>6
  <2>3. CASE r \in Ids
    BY <2>1, <2>3, <1>1, <1>3 DEF Spaced
  <2> QED
    BY <2>2, <2>3, <1>1
<1>9. Backed'
  <2> SUFFICES ASSUME NEW a \in DOMAIN claims'
               PROVE  \E r \in Ids' : /\ requests'[r].address = a
                                      /\ requests'[r].at = claims'[a]
                                      /\ requests'[r].status \in Live
    BY DEF Backed
  <2>1. CASE a = address
    BY <2>1, <1>1, <1>5 DEF Live, Running
  <2>2. CASE a # address
    <3>1. a \in DOMAIN claims /\ claims'[a] = claims[a]
      BY <2>2, <1>5
    <3>2. PICK r \in Ids : /\ requests[r].address = a
                           /\ requests[r].at = claims[a]
                           /\ requests[r].status \in Live
      BY <3>1 DEF Backed
    <3> QED
      BY <3>1, <3>2, <1>1
  <2> QED
    BY <2>1, <2>2
<1>10. Gone'
  <2>1. \A i \in DOMAIN restarts : n > restarts[i]
    <3> TAKE i \in DOMAIN restarts
    <3>1. restarts[i] \in Nat /\ restarts[i] <= Len(requests)
      BY <1>a
    <3> QED
      BY <3>1, <1>a DEF n
  <2>2. SinceRestart(n)
    BY <2>1 DEF SinceRestart
  <2> QED
    BY <1>1, <1>3, <2>2 DEF Gone
<1> QED
  BY <1>7, <1>8, <1>9, <1>10

LEMMA RefuseKeeps ==
  ASSUME Typed, Covered, Spaced, Backed, Gone,
         NEW address \in Addresses, NEW amount \in Amounts, Refuse(address, amount)
  PROVE  Covered' /\ Spaced' /\ Backed' /\ Gone'
<1> DEFINE n == Len(requests) + 1
<1>1. /\ Ids = 1..Len(requests) /\ Len(requests) \in Nat
      /\ Ids' = Ids \cup {n} /\ requests'[n].status = "refused"
      /\ \A r \in Ids : r # n /\ r < n /\ requests'[r] = requests[r]
  <2> DEFINE new == [address |-> address, amount |-> amount, at |-> now,
                     status |-> "refused", number |-> 0]
  <2>1. requests' = Append(requests, new) /\ requests \in Seq(Request)
    BY Facts DEF Refuse, Ask
  <2>2. new.status = "refused"
    OBVIOUS
  <2> HIDE DEF new
  <2>3. /\ DOMAIN requests' = 1..n /\ requests'[n] = new
        /\ \A r \in 1..Len(requests) : requests'[r] = requests[r]
    BY <2>1, Facts
  <2> QED
    BY <2>2, <2>3, Facts DEF Ids
<1>2. UNCHANGED <<now, restarts, claims>>
  BY DEF Refuse
<1> HIDE DEF n
<1>3. \A r \in Ids' : SinceRestart(r)' <=> SinceRestart(r)
  BY <1>2 DEF SinceRestart
<1>4. \A r \in Ids : InWindow(r, now)' <=> InWindow(r, now)
  BY <1>1, <1>2 DEF InWindow
<1>5. requests'[n].status \notin Live
  BY <1>1 DEF Live, Running
<1>6. Covered'
  <2> SUFFICES ASSUME NEW r \in Ids', requests'[r].status \in Live,
                      SinceRestart(r)', InWindow(r, now)'
               PROVE  /\ requests'[r].address \in DOMAIN claims'
                      /\ claims'[requests'[r].address] >= requests'[r].at
    BY DEF Covered
  <2>1. r \in Ids
    BY <1>1, <1>5
  <2> QED
    BY <2>1, <1>1, <1>2, <1>3, <1>4 DEF Covered
<1>7. Spaced'
  <2> SUFFICES ASSUME NEW q \in Ids', NEW r \in Ids', q < r,
                      requests'[q].address = requests'[r].address,
                      requests'[q].status \in Live, SinceRestart(q)',
                      requests'[r].status \in Live
               PROVE  requests'[q].at + Cooldown <= requests'[r].at
    BY <1>2 DEF Spaced
  <2>1. q \in Ids /\ r \in Ids
    BY <1>1, <1>5
  <2> QED
    BY <2>1, <1>1, <1>3 DEF Spaced
<1>8. Backed'
  <2> SUFFICES ASSUME NEW a \in DOMAIN claims
               PROVE  \E r \in Ids' : /\ requests'[r].address = a
                                      /\ requests'[r].at = claims[a]
                                      /\ requests'[r].status \in Live
    BY <1>2 DEF Backed
  <2>1. PICK r \in Ids : /\ requests[r].address = a
                         /\ requests[r].at = claims[a]
                         /\ requests[r].status \in Live
    BY DEF Backed
  <2> QED
    BY <2>1, <1>1
<1>9. Gone'
  BY <1>1, <1>3 DEF Gone, Running
<1> QED
  BY <1>6, <1>7, <1>8, <1>9

(***************************************************************************)
(* A mint fails.  The claim that is taken back, if one is, covers no other *)
(* live request in the window: those are a cooldown apart.                 *)
(***************************************************************************)
LEMMA FailKeeps ==
  ASSUME Typed, Covered, Spaced, Backed, Gone, NEW r \in Ids, Fail(r)
  PROVE  Covered' /\ Spaced' /\ Backed' /\ Gone'
<1> DEFINE address == requests[r].address
<1>a. /\ Ids = 1..Len(requests) /\ Len(requests) \in Nat /\ now \in Nat
      /\ \A q \in Ids : requests[q] \in Request /\ requests[q].at \in 0..now
      /\ \A a \in DOMAIN claims : claims[a] \in 0..now
  BY Facts
<1>1. /\ Ids' = Ids /\ requests'[r].status = "failed"
      /\ \A q \in Ids : q # r => requests'[q] = requests[q]
      /\ \A q \in Ids : /\ requests'[q].address = requests[q].address
                        /\ requests'[q].at = requests[q].at
  <2>1. requests' = [requests EXCEPT ![r] = [requests[r] EXCEPT !.status = "failed"]]
    BY DEF Fail
  <2>2. [requests[r] EXCEPT !.status = "failed"].status = "failed"
    BY <1>a DEF Request
  <2> QED
    BY <2>1, <2>2, <1>a, Facts DEF Ids, Request
<1>2. /\ UNCHANGED <<now, restarts>>
      /\ requests[r].status \in Running
      /\ claims' = IF HoldsClaim(r) THEN Released(address) ELSE claims
  BY DEF Fail, ClaimsAfterFailure
<1>3. \A q \in Ids : SinceRestart(q)' <=> SinceRestart(q)
  BY <1>2 DEF SinceRestart
<1>4. \A q \in Ids : InWindow(q, now)' <=> InWindow(q, now)
  BY <1>1, <1>2 DEF InWindow
<1>5. "failed" \notin Live /\ requests[r].status \in Live
  BY <1>2 DEF Live, Running
<1>6. Covered'
  <2> SUFFICES ASSUME NEW q \in Ids', requests'[q].status \in Live,
                      SinceRestart(q)', InWindow(q, now)'
               PROVE  /\ requests'[q].address \in DOMAIN claims'
                      /\ claims'[requests'[q].address] >= requests'[q].at
    BY DEF Covered
  <2>1. q \in Ids /\ q # r /\ requests'[q] = requests[q]
    BY <1>1, <1>5
  <2>2. SinceRestart(q) /\ InWindow(q, now) /\ requests[q].status \in Live
    BY <2>1, <1>3, <1>4
  <2>3. /\ requests[q].address \in DOMAIN claims
        /\ claims[requests[q].address] >= requests[q].at
    BY <2>1, <2>2 DEF Covered
  <2>4. CASE ~HoldsClaim(r) \/ requests[q].address # address
    <3>1. DOMAIN Released(address) = DOMAIN claims \ {address}
      BY ReleasedIs
    <3>2. \A a \in DOMAIN claims : a # address => Released(address)[a] = claims[a]
      BY ReleasedIs
    <3> HIDE DEF address
    <3> QED
      BY <2>1, <2>3, <2>4, <1>2, <3>1, <3>2
  <2>5. CASE HoldsClaim(r) /\ requests[q].address = address
    <3>1. requests[r].at >= requests[q].at
      BY <2>3, <2>5 DEF HoldsClaim
    <3>2. /\ requests[q].at \in Nat /\ requests[r].at \in Nat /\ requests[r].at <= now
          /\ Cooldown \in Nat \ {0} /\ now \in Nat /\ q \in Nat /\ r \in Nat
      BY <1>a, <2>1, FaucetAssumption
    <3>3. requests[q].at + Cooldown > now
      BY <2>2 DEF InWindow
    <3>4. CASE q < r
      <4>1. requests[q].at + Cooldown <= requests[r].at
        BY <3>4, <2>1, <2>2, <2>5, <1>5 DEF Spaced
      <4> QED
        BY <4>1, <3>2, <3>3
    <3>5. CASE r < q
      <4>1. SinceRestart(r)
        BY <1>2 DEF Gone
      <4>2. requests[r].at + Cooldown <= requests[q].at
        BY <3>5, <4>1, <2>1, <2>2, <2>5, <1>5 DEF Spaced
      <4> QED
        BY <4>2, <3>1, <3>2
    <3> QED
      BY <3>2, <3>4, <3>5, <2>1
  <2> QED
    BY <2>4, <2>5
<1>7. Spaced'
  <2> SUFFICES ASSUME NEW q \in Ids, NEW s \in Ids, q < s,
                      requests'[q].address = requests'[s].address,
                      requests'[q].status \in Live, SinceRestart(q)',
                      requests'[s].status \in Live
               PROVE  requests'[q].at + Cooldown <= requests'[s].at
    BY <1>1, <1>2 DEF Spaced
  <2>1. q # r /\ s # r
    BY <1>1, <1>5
  <2> QED
    BY <2>1, <1>1, <1>3 DEF Spaced
<1>8. Backed'
  <2> SUFFICES ASSUME NEW a \in DOMAIN claims'
               PROVE  \E q \in Ids : /\ requests'[q].address = a
                                     /\ requests'[q].at = claims'[a]
                                     /\ requests'[q].status \in Live
    BY <1>1 DEF Backed
  <2>1. /\ a \in DOMAIN claims /\ claims'[a] = claims[a]
        /\ ~(a = address /\ claims[a] = requests[r].at)
    <3>1. CASE HoldsClaim(r)
      <4>1. /\ DOMAIN Released(address) = DOMAIN claims \ {address}
            /\ \A b \in DOMAIN claims : b # address => Released(address)[b] = claims[b]
        BY ReleasedIs
      <4> HIDE DEF address
      <4> QED
        BY <3>1, <4>1, <1>2
    <3>2. CASE ~HoldsClaim(r)
      BY <3>2, <1>2 DEF HoldsClaim
    <3> QED
      BY <3>1, <3>2
  <2>2. PICK q \in Ids : /\ requests[q].address = a
                         /\ requests[q].at = claims[a]
                         /\ requests[q].status \in Live
    BY <2>1 DEF Backed
  <2>3. q # r
    BY <2>1, <2>2
  <2> QED
    BY <2>1, <2>2, <2>3, <1>1
<1>9. Gone'
  BY <1>1, <1>3 DEF Gone, Running
<1> QED
  BY <1>6, <1>7, <1>8, <1>9

(***************************************************************************)
(* The process dies: the claims are gone, and so is what they were for.    *)
(***************************************************************************)
LEMMA CrashKeeps ==
  ASSUME Typed, Covered, Spaced, Backed, Gone, Crash
  PROVE  Covered' /\ Spaced' /\ Backed' /\ Gone'
<1>a. Ids = 1..Len(requests) /\ Len(requests) \in Nat /\ restarts \in Seq(Nat)
  BY Facts
<1>1. /\ Ids' = Ids
      /\ \A r \in Ids : requests'[r].status \notin Running
  <2> DEFINE after(r) == IF requests[r].status \in Running
                         THEN [requests[r] EXCEPT !.status = "lost"] ELSE requests[r]
  <2>1. requests' = [r \in Ids |-> after(r)]
    BY DEF Crash
  <2>2. \A r \in Ids : after(r).status \notin Running
    BY Facts DEF Running, Request
  <2> HIDE DEF after
  <2> QED
    BY <2>1, <2>2 DEF Ids
<1>2. DOMAIN claims' = {}
  BY DEF Crash
<1>3. \A r \in Ids : ~SinceRestart(r)'
  <2> SUFFICES ASSUME NEW r \in Ids PROVE ~SinceRestart(r)'
    OBVIOUS
  <2>1. restarts' = Append(restarts, Len(requests))
    BY DEF Crash
  <2>2. /\ Len(restarts) + 1 \in DOMAIN restarts'
        /\ restarts'[Len(restarts) + 1] = Len(requests)
    BY <2>1, <1>a
  <2>3. ~(r > Len(requests))
    BY <1>a
  <2> QED
    BY <2>2, <2>3 DEF SinceRestart
<1> QED
  BY <1>1, <1>2, <1>3 DEF Covered, Spaced, Backed, Gone

-----------------------------------------------------------------------------
(***************************************************************************)
(* Everything together is kept by every step.                              *)
(***************************************************************************)
LEMMA IInvInit == Init => IInv
<1> SUFFICES ASSUME Init PROVE IInv
  OBVIOUS
<1>1. Typed
  BY TypedInit
<1>2. Ids = {} /\ DOMAIN claims = {}
  BY DEF Init, Ids
<1> QED
  BY <1>1, <1>2 DEF IInv, Covered, Spaced, Backed, Gone

LEMMA IInvNext == IInv /\ [Next]_vars => IInv'
<1> SUFFICES ASSUME IInv, [Next]_vars PROVE IInv'
  OBVIOUS
<1>a. Typed /\ Covered /\ Spaced /\ Backed /\ Gone
  BY DEF IInv
<1>b. Typed'
  BY <1>a, TypedNext
<1>c. now \in Nat
  BY <1>a, Facts
<1> SUFFICES Covered' /\ Spaced' /\ Backed' /\ Gone'
  BY <1>b DEF IInv
<1>1. CASE Tick
  <2>1. SameRequests
    BY <1>1 DEF Tick, SameRequests, Ids
  <2>2. claims' = claims /\ restarts' = restarts /\ now' \in Nat /\ now' >= now
    BY <1>1, <1>c DEF Tick
  <2> QED
    BY <1>a, <2>1, <2>2, SameLife
<1>2. ASSUME NEW r \in Ids, NEW status \in Live, requests[r].status \in Running,
             Ids' = Ids,
             \A q \in Ids : /\ requests'[q].address = requests[q].address
                            /\ requests'[q].at = requests[q].at
                            /\ q # r => requests'[q].status = requests[q].status,
             requests'[r].status = status,
             UNCHANGED <<claims, restarts, now>>
      PROVE  Covered' /\ Spaced' /\ Backed' /\ Gone'
  <2>1. SameRequests
    BY <1>2 DEF SameRequests, Live, Running
  <2> QED
    BY <1>2, <1>a, <1>c, <2>1, SameLife
<1>3. ASSUME NEW r \in Ids, Sign(r) \/ Send(r) \/ Grant(r)
      PROVE  Covered' /\ Spaced' /\ Backed' /\ Gone'
  <2>a. requests[r] \in Request /\ requests \in Seq(Request)
    BY <1>a, Facts
  <2>b. ASSUME NEW new, requests' = [requests EXCEPT ![r] = new],
               new.address = requests[r].address, new.at = requests[r].at,
               new.status \in Live, requests[r].status \in Running,
               UNCHANGED <<claims, restarts, now>>
        PROVE  Covered' /\ Spaced' /\ Backed' /\ Gone'
    <3>1. /\ Ids' = Ids /\ requests'[r] = new
          /\ \A q \in Ids : q # r => requests'[q] = requests[q]
      BY <2>a, <2>b DEF Ids
    <3> QED
      BY <3>1, <2>b, <1>2
  <2>1. CASE Sign(r)
    <3> DEFINE new == [requests[r] EXCEPT !.status = "sending", !.number = sequence + 1]
    <3>1. /\ requests' = [requests EXCEPT ![r] = new]
          /\ requests[r].status \in Running /\ UNCHANGED <<claims, restarts, now>>
      BY <2>1 DEF Sign, Running
    <3>2. /\ new.address = requests[r].address /\ new.at = requests[r].at
          /\ new.status = "sending" /\ new.status \in Live
      BY <2>a DEF Request, Live, Running
    <3> HIDE DEF new
    <3> QED
      BY <2>b, <3>1, <3>2
  <2>2. CASE Send(r)
    <3> DEFINE new == [requests[r] EXCEPT !.status = "polling"]
    <3>1. /\ requests' = [requests EXCEPT ![r] = new]
          /\ requests[r].status \in Running /\ UNCHANGED <<claims, restarts, now>>
      BY <2>2 DEF Send, Running
    <3>2. /\ new.address = requests[r].address /\ new.at = requests[r].at
          /\ new.status \in Live
      BY <2>a DEF Request, Live, Running
    <3> HIDE DEF new
    <3> QED
      BY <2>b, <3>1, <3>2
  <2>3. CASE Grant(r)
    <3> DEFINE new == [requests[r] EXCEPT !.status = "granted"]
    <3>1. /\ requests' = [requests EXCEPT ![r] = new]
          /\ requests[r].status \in Running /\ UNCHANGED <<claims, restarts, now>>
      BY <2>3 DEF Grant, Running
    <3>2. /\ new.address = requests[r].address /\ new.at = requests[r].at
          /\ new.status \in Live
      BY <2>a DEF Request, Live
    <3> HIDE DEF new
    <3> QED
      BY <2>b, <3>1, <3>2
  <2> QED
    BY <2>1, <2>2, <2>3, <1>3
<1>4. ASSUME NEW r \in DOMAIN network, Apply(r) \/ Expire(r)
      PROVE  Covered' /\ Spaced' /\ Backed' /\ Gone'
  <2>1. UNCHANGED <<now, claims, requests, restarts>>
    BY <1>4 DEF Apply, Expire
  <2>2. SameRequests
    BY <2>1 DEF SameRequests, Ids
  <2> QED
    BY <1>a, <1>c, <2>1, <2>2, SameLife
<1>5. CASE UNCHANGED vars
  <2>1. SameRequests
    BY <1>5 DEF vars, SameRequests, Ids
  <2> QED
    BY <1>5, <1>a, <1>c, <2>1, SameLife DEF vars
<1> QED
  BY <1>a, <1>1, <1>3, <1>4, <1>5, AcceptKeeps, RefuseKeeps, FailKeeps, CrashKeeps
  DEF Next

(***************************************************************************)
(* Every stored value keeps its type.                                      *)
(***************************************************************************)
THEOREM TypeCorrect == Spec => []TypeOK
<1>1. IInv => TypeOK
  BY DEF IInv, Typed
<1> QED
  BY IInvInit, IInvNext, <1>1, PTL DEF Spec

(***************************************************************************)
(* Requests come from clients only.                                        *)
(***************************************************************************)
LEMMA Comers ==
  ASSUME Typed, [Next]_vars, Len(requests') > Len(requests)
  PROVE  \E address \in Addresses, amount \in Amounts :
            Refuse(address, amount) \/ Accept(address, amount)
<1>a. requests \in Seq(Request) /\ Len(requests) \in Nat /\ Ids = 1..Len(requests)
  BY Facts
<1>1. ASSUME NEW r \in Ids, Sign(r) \/ Send(r) \/ Grant(r) \/ Fail(r) PROVE FALSE
  <2>1. \E new : requests' = [requests EXCEPT ![r] = new]
    BY <1>1 DEF Sign, Send, Grant, Fail
  <2>2. Len(requests') = Len(requests)
    BY <1>a, <2>1
  <2> QED
    BY <2>2, <1>a
<1>2. ASSUME Crash PROVE FALSE
  <2>1. Len(requests') = Len(requests)
    BY <1>a, <1>2 DEF Crash
  <2> QED
    BY <2>1, <1>a
<1>3. ASSUME requests' = requests PROVE FALSE
  BY <1>3, <1>a
<1> QED
  BY <1>1, <1>2, <1>3 DEF Next, vars, Tick, Apply, Expire

(***************************************************************************)
(* One mint per address and cooldown, between two crashes.                 *)
(***************************************************************************)
THEOREM CooldownHolds == Spec => OneGrantPerWindow
<1>1. IInv /\ [Next]_vars => [MintsAlone]_vars
  <2> SUFFICES ASSUME IInv, [Next]_vars, Came("signing"),
                      NEW r \in Ids, requests[r].address = Client,
                      InWindow(r, now), SinceRestart(r)
               PROVE  requests[r].status \in {"failed", "refused"}
    BY DEF MintsAlone
  <2>a. requests \in Seq(Request) /\ requests[r] \in Request /\ now \in Nat
    BY Facts DEF IInv
  <2>1. PICK address \in Addresses, amount \in Amounts :
               Refuse(address, amount) \/ Accept(address, amount)
    BY Comers DEF IInv, Came
  <2>2. PICK status \in {"refused", "signing"} :
               /\ status = "refused" <=> Refuse(address, amount)
               /\ Ask(address, amount, status)
    BY <2>1 DEF Refuse, Accept, CoolingDown
  <2>3. requests'[Len(requests')].status = status /\ Client = address
    BY <2>2, <2>a DEF Ask, Client
  <2>4. Accept(address, amount)
    BY <2>1, <2>2, <2>3 DEF Came
  <2>5. requests[r].status \notin Live
    <3> SUFFICES ASSUME requests[r].status \in Live PROVE FALSE
      OBVIOUS
    <3>1. address \in DOMAIN claims /\ claims[address] >= requests[r].at
      BY <2>3 DEF IInv, Covered
    <3>2. claims[address] \in Nat /\ requests[r].at \in Nat
      BY <3>1, Facts DEF IInv
    <3>3. requests[r].at + Cooldown > now
      BY DEF InWindow
    <3>4. claims[address] + Cooldown > now
      BY <3>1, <3>2, <3>3, <2>a, FaucetAssumption
    <3> QED
      BY <3>1, <3>4, <2>4 DEF Accept, CoolingDown
  <2>6. requests[r].status # "lost"
    BY DEF IInv, Gone
  <2> QED
    BY <2>a, <2>5, <2>6 DEF Request, Statuses, Live
<1> QED
  BY IInvInit, IInvNext, <1>1, PTL DEF Spec, OneGrantPerWindow

(***************************************************************************)
(* No refusal without a mint that was granted or still runs.               *)
(***************************************************************************)
THEOREM RefusalsHaveACause == Spec => RefusedForAReason
<1>1. IInv /\ [Next]_vars => [RefusedForAMint]_vars
  <2> SUFFICES ASSUME IInv, [Next]_vars, Came("refused")
               PROVE  \E r \in Ids : /\ requests[r].address = Client
                                     /\ InWindow(r, now)
                                     /\ requests[r].status \in Running \cup {"granted"}
    BY DEF RefusedForAMint
  <2>a. requests \in Seq(Request)
    BY Facts DEF IInv
  <2>1. PICK address \in Addresses, amount \in Amounts :
               Refuse(address, amount) \/ Accept(address, amount)
    BY Comers DEF IInv, Came
  <2>2. PICK status \in {"refused", "signing"} :
               /\ status = "signing" <=> Accept(address, amount)
               /\ Ask(address, amount, status)
    BY <2>1 DEF Refuse, Accept, CoolingDown
  <2>3. requests'[Len(requests')].status = status /\ Client = address
    BY <2>2, <2>a DEF Ask, Client
  <2>4. CoolingDown(address)
    BY <2>1, <2>2, <2>3 DEF Came, Refuse
  <2>5. PICK r \in Ids : /\ requests[r].address = address
                         /\ requests[r].at = claims[address]
                         /\ requests[r].status \in Live
    BY <2>4 DEF IInv, Backed, CoolingDown
  <2> QED
    BY <2>3, <2>4, <2>5 DEF CoolingDown, InWindow, Live
<1> QED
  BY IInvInit, IInvNext, <1>1, PTL DEF Spec, RefusedForAReason
=============================================================================
