------------------------------- MODULE Faucet -------------------------------
(***************************************************************************)
(* POST /faucet of the issuer API (services/api/server.ts): one claim per  *)
(* address in memory, set before the mint is awaited and taken back if it  *)
(* rejects, and the mint as the contract writer sends it (stellar.ts).     *)
(*                                                                         *)
(* Time counts in units of which the cooldown holds a few.  The mint's     *)
(* steps are the writer's: reading the issuer account's sequence number,   *)
(* sending, polling.  Any of them may reject (a poll does at the first     *)
(* read that fails), and a transaction that was sent may be applied as     *)
(* long as its time bound lets it, whatever the request was answered.      *)
(***************************************************************************)
EXTENDS Integers, Sequences, Functions

CONSTANTS
  Addresses,
  Amounts,          \* amounts that requests ask for
  Cap,              \* 100,000,000,000: the most one request is granted
  Cooldown,         \* faucetCooldownMs
  MaxTime,          \* bound: the clock stops
  MaxRequests,      \* bound: requests clients send
  MaxCrashes        \* bound: times the process dies

ASSUME FaucetAssumption ==
  /\ Amounts \subseteq Nat
  /\ Cap \in Nat
  /\ Cooldown \in Nat \ {0}
  /\ MaxTime \in Nat
  /\ MaxRequests \in Nat
  /\ MaxCrashes \in Nat

VARIABLES
  now,
  claims,           \* faucetClaims: address -> requestedAt
  requests,         \* every well-formed request, in order, with its answer
  sequence,         \* sequence number of the faucet's account
  network,          \* requests whose mint was sent: "pending" or "applied"
  restarts          \* for each crash, the requests sent before it

vars == <<now, claims, requests, sequence, network, restarts>>

Ids == DOMAIN requests

Init ==
  /\ now = 0
  /\ claims = << >>
  /\ requests = << >>
  /\ sequence = 0
  /\ network = << >>
  /\ restarts = << >>

Tick ==
  /\ now < MaxTime
  /\ now' = now + 1
  /\ UNCHANGED <<claims, requests, sequence, network, restarts>>

\* set and delete of the map
Claimed(address) ==
  [a \in DOMAIN claims \cup {address} |->
     IF a = address THEN now ELSE claims[a]]

Released(address) == Restrict(claims, DOMAIN claims \ {address})

WithoutLimit(amount) == amount > 0

WithinLimit(amount) == amount > 0 /\ amount <= Cap

CoolingDown(address) ==
  address \in DOMAIN claims /\ claims[address] + Cooldown > now

Ask(address, amount, status) ==
  requests' = Append(requests, [address |-> address, amount |-> amount,
                                at |-> now, status |-> status,
                                number |-> 0])

Refuse(address, amount) ==
  /\ Len(requests) < MaxRequests
  /\ WithinLimit(amount)
  /\ CoolingDown(address)
  /\ Ask(address, amount, "refused")
  /\ UNCHANGED <<now, claims, sequence, network, restarts>>

Accept(address, amount) ==
  /\ Len(requests) < MaxRequests
  /\ WithinLimit(amount)
  /\ ~CoolingDown(address)
  /\ Ask(address, amount, "signing")
  /\ claims' = Claimed(address)
  /\ UNCHANGED <<now, sequence, network, restarts>>

Sent(r) ==
  network' = [q \in DOMAIN network \cup {r} |->
                IF q = r THEN "pending" ELSE network[q]]

Sign(r) ==
  /\ requests[r].status = "signing"
  /\ requests' = [requests EXCEPT ![r].status = "sending",
                                  ![r].number = sequence + 1]
  /\ UNCHANGED <<now, claims, sequence, network, restarts>>

Send(r) ==
  /\ requests[r].status = "sending"
  /\ Sent(r)
  /\ requests' = [requests EXCEPT ![r].status = "polling"]
  /\ UNCHANGED <<now, claims, sequence, restarts>>

\* Only the transaction with the account's next number applies.
Apply(r) ==
  /\ network[r] = "pending"
  /\ requests[r].number = sequence + 1
  /\ sequence' = sequence + 1
  /\ network' = [network EXCEPT ![r] = "applied"]
  /\ UNCHANGED <<now, claims, requests, restarts>>

\* The number is taken, or the time bound passes.
Expire(r) ==
  /\ network[r] = "pending"
  /\ network' = Restrict(network, DOMAIN network \ {r})
  /\ UNCHANGED <<now, claims, requests, sequence, restarts>>

Grant(r) ==
  /\ requests[r].status = "polling"
  /\ r \in DOMAIN network
  /\ network[r] = "applied"
  /\ requests' = [requests EXCEPT ![r].status = "granted"]
  /\ UNCHANGED <<now, claims, sequence, network, restarts>>

HoldsAnyClaim(r) == requests[r].address \in DOMAIN claims

HoldsClaim(r) ==
  /\ requests[r].address \in DOMAIN claims
  /\ claims[requests[r].address] = requests[r].at

ClaimsKept(r) == claims

\* The catch block: only a claim of this very request is taken back.
ClaimsAfterFailure(r) ==
  IF HoldsClaim(r) THEN Released(requests[r].address) ELSE claims

Running == {"signing", "sending", "polling"}

\* A send that rejects may have reached the network.
Fail(r) ==
  /\ requests[r].status \in Running
  /\ requests' = [requests EXCEPT ![r].status = "failed"]
  /\ claims' = ClaimsAfterFailure(r)
  /\ \/ UNCHANGED network
     \/ requests[r].status = "sending" /\ Sent(r)
  /\ UNCHANGED <<now, sequence, restarts>>

Crash ==
  /\ Len(restarts) < MaxCrashes
  /\ restarts' = Append(restarts, Len(requests))
  /\ claims' = << >>
  /\ requests' = [r \in Ids |->
                    IF requests[r].status \in Running
                    THEN [requests[r] EXCEPT !.status = "lost"] ELSE requests[r]]
  /\ UNCHANGED <<now, sequence, network>>

Next ==
  \/ Tick
  \/ \E address \in Addresses, amount \in Amounts :
        Refuse(address, amount) \/ Accept(address, amount)
  \/ \E r \in Ids : Sign(r) \/ Send(r) \/ Grant(r) \/ Fail(r)
  \/ \E r \in DOMAIN network : Apply(r) \/ Expire(r)
  \/ Crash

Spec == Init /\ [][Next]_vars
-----------------------------------------------------------------------------
(* Properties. *)

Statuses == Running \cup {"refused", "granted", "failed", "lost"}

TypeOK ==
  /\ now \in 0..MaxTime
  /\ DOMAIN claims \subseteq Addresses
  /\ \A address \in DOMAIN claims : claims[address] \in 0..now
  /\ requests \in Seq([address : Addresses, amount : 1..Cap, at : 0..MaxTime,
                       status : Statuses, number : Nat])
  /\ sequence \in Nat
  /\ DOMAIN network \subseteq Ids
  /\ Range(network) \subseteq {"pending", "applied"}
  /\ restarts \in Seq(0..MaxRequests)

InWindow(r, time) == requests[r].at + Cooldown > time

SinceRestart(r) == \A i \in DOMAIN restarts : r > restarts[i]

\* A request came in, and from whom.
Came(status) ==
  /\ Len(requests') > Len(requests)
  /\ requests'[Len(requests')].status = status

Client == requests'[Len(requests')].address

MintsAlone ==
  Came("signing") =>
    \A r \in Ids :
      (requests[r].address = Client /\ InWindow(r, now) /\ SinceRestart(r))
      => requests[r].status \in {"failed", "refused"}

RefusedForAMint ==
  Came("refused") =>
    \E r \in Ids :
      /\ requests[r].address = Client
      /\ InWindow(r, now)
      /\ requests[r].status \in Running \cup {"granted"}

(***************************************************************************)
(* Until the process dies, an address gets a second mint under way within  *)
(* the cooldown only when the first one was answered with an error,        *)
(* however requests that outlast the cooldown and fail late are ordered.   *)
(***************************************************************************)
OneGrantPerWindow == [][MintsAlone]_vars

(***************************************************************************)
(* Nobody is turned away for nothing: behind each refusal there is a       *)
(* request of that address in the window that was granted or is still      *)
(* running, so a failed mint costs no waiting.                             *)
(***************************************************************************)
RefusedForAReason == [][RefusedForAMint]_vars

Minted(address, time) ==
  {r \in DOMAIN network :
     /\ network[r] = "applied"
     /\ requests[r].address = address
     /\ requests[r].at <= time
     /\ InWindow(r, time)}

(***************************************************************************)
(* What is minted to an address for requests of one window stays within    *)
(* the cap (the frontend guide's promise).                                 *)
(***************************************************************************)
MintedWithinCap ==
  \A address \in Addresses, time \in 0..now :
    FoldFunctionOnSet(+, 0, [r \in Ids |-> requests[r].amount],
                      Minted(address, time)) <= Cap
=============================================================================
