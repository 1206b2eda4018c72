--------------------------- MODULE Accreditation ---------------------------
(***************************************************************************)
(* POST /accredit of the issuer API for one pool: the queue and the steps  *)
(* of AccreditationService (services/api/accreditation.ts), the chain      *)
(* adapter and the contract writer beneath it (config.ts, stellar.ts), the *)
(* issuer's account on the network, and the issuer's own console.          *)
(*                                                                         *)
(* The API builds one service without a poolId and one per pool; the first *)
(* pool is reached through both, and both use the same file and the same   *)
(* issuer account (config.ts).  Services is the set of them.               *)
(*                                                                         *)
(* A roster is the sequence of leaves before padding: the service pads it  *)
(* to the full tree and the contract computes the same root from the same  *)
(* leaves, so the comparison of roots in the service cannot fail and the   *)
(* root stands for the roster.  Any await may reject; a poll gives up      *)
(* after 40 attempts of 1.5 s, while the network may apply the transaction *)
(* for 180 s, so giving up says nothing about what happens to it.          *)
(***************************************************************************)
EXTENDS Naturals, Sequences, FiniteSets, Functions

CONSTANTS
  Services,          \* the AccreditationService objects over the pool's file
  Leaves,            \* leaf hashes that clients send
  Capacity,          \* leaves in the demo tree (8)
  Seeded,            \* the roster the deployment committed
  ConsoleRosters,    \* rosters the issuer commits from the console
  MaxRequests,       \* bound: requests clients send
  MaxConsole,        \* bound: transactions the issuer's console sends
  MaxCrashes         \* bound: times the API process dies

Rosters == UNION {[1..n -> Leaves] : n \in 0..Capacity}

ASSUME RosterAssumption ==
  /\ Capacity \in Nat
  /\ Seeded \in Rosters
  /\ ConsoleRosters \subseteq Rosters

ASSUME BoundAssumption ==
  /\ MaxRequests \in Nat
  /\ MaxConsole \in Nat
  /\ MaxCrashes \in Nat

VARIABLES
  chain,      \* issuer account's sequence number, and the roster of each epoch
  pending,    \* signed transactions the network may still apply
  file,       \* the accreditation file: survives a crash
  queue,      \* per service: requests behind the running one
  job,        \* per service: the running addSerialized
  client,     \* every request sent, in order, with its answer
  crashes

vars == <<chain, pending, file, queue, job, client, crashes>>

Requests == 1..MaxRequests
Outside  == 0           \* a roster committed by other than a request
NoJob    == [step |-> "none"]

Epoch  == Len(chain.history) - 1
Roster == chain.history[Len(chain.history)].leaves

Landed(r) == \E e \in DOMAIN chain.history : chain.history[e].by = r

Init ==
  /\ chain = [seq     |-> 0,
              history |-> << [leaves |-> << >>, by |-> Outside],
                             [leaves |-> Seeded, by |-> Outside] >>]
  /\ pending = {}
  /\ file = << >>
  /\ queue = [s \in Services |-> << >>]
  /\ job = [s \in Services |-> NoJob]
  /\ client = << >>
  /\ crashes = 0

-----------------------------------------------------------------------------
(* The network. *)

Commit(leaves, by) ==
  chain' = [chain EXCEPT !.seq = @ + 1,
                         !.history = Append(@, [leaves |-> leaves, by |-> by])]

\* Only the transaction with the account's next number applies.
Land(tx) ==
  /\ tx \in pending
  /\ tx.seq = chain.seq + 1
  /\ Commit(tx.leaves, tx.by)
  /\ pending' = pending \ {tx}
  /\ UNCHANGED <<file, queue, job, client, crashes>>

\* The call traps: the number is used up, the roster stays.
LandFailing(tx) ==
  /\ tx \in pending
  /\ tx.seq = chain.seq + 1
  /\ chain' = [chain EXCEPT !.seq = @ + 1]
  /\ pending' = pending \ {tx}
  /\ UNCHANGED <<file, queue, job, client, crashes>>

\* The time bound passes, or a mempool drops it.
Expire(tx) ==
  /\ tx \in pending
  /\ pending' = pending \ {tx}
  /\ UNCHANGED <<chain, file, queue, job, client, crashes>>

ConsoleMayAct ==
  Cardinality({e \in DOMAIN chain.history : chain.history[e].by = Outside})
    < MaxConsole + 2

\* The issuer's wallet: advance_epoch and update_accredited_set.
ConsoleAdvance ==
  /\ ConsoleMayAct
  /\ Commit(Roster, Outside)
  /\ UNCHANGED <<pending, file, queue, job, client, crashes>>

ConsoleCommit(leaves) ==
  /\ ConsoleMayAct
  /\ Commit(leaves, Outside)
  /\ UNCHANGED <<pending, file, queue, job, client, crashes>>

-----------------------------------------------------------------------------
(* The service. *)

Post(leaf, s) ==
  /\ Len(client) < MaxRequests
  /\ client' = Append(client, [leaf |-> leaf, status |-> "waiting"])
  /\ queue' = [queue EXCEPT ![s] = Append(@, Len(client) + 1)]
  /\ UNCHANGED <<chain, pending, file, job, crashes>>

Answer(r, status) == client' = [client EXCEPT ![r].status = status]

CanStart(s) == job[s] = NoJob /\ queue[s] # << >>

IsFullOffByOne == Len(file) > Capacity

IsFull == Len(file) >= Capacity

NextRosterPrepending(leaf) == <<leaf>> \o file

NextRoster(leaf) == Append(file, leaf)

\* The head of the queue reads the file; refusals are answered 409.
Start(s) ==
  /\ CanStart(s)
  /\ queue' = [queue EXCEPT ![s] = Tail(@)]
  /\ LET r    == Head(queue[s])
         leaf == client[r].leaf
     IN  \/ /\ leaf \in Range(file)
            /\ Answer(r, "duplicate")
            /\ UNCHANGED job
         \/ /\ leaf \notin Range(file)
            /\ IsFull
            /\ Answer(r, "full")
            /\ UNCHANGED job
         \/ /\ leaf \notin Range(file)
            /\ ~IsFull
            /\ job' = [job EXCEPT ![s] = [step |-> "account", request |-> r,
                                          next |-> NextRoster(leaf)]]
            /\ UNCHANGED client
  /\ UNCHANGED <<chain, pending, file, crashes>>

GetAccount(s) ==
  /\ job[s].step = "account"
  /\ job' = [job EXCEPT ![s] = [step |-> "send", request |-> @.request,
                                next |-> @.next, seq |-> chain.seq + 1]]
  /\ UNCHANGED <<chain, pending, file, queue, client, crashes>>

Signed(s) == [seq |-> job[s].seq, leaves |-> job[s].next, by |-> job[s].request]

Polling(s) == [step |-> "poll", request |-> job[s].request, next |-> job[s].next]

\* Accepted, or answered TRY_AGAIN_LATER, which the writer polls for as well.
Send(s) ==
  /\ job[s].step = "send"
  /\ \/ /\ job[s].seq = chain.seq + 1
        /\ pending' = pending \cup {Signed(s)}
     \/ UNCHANGED pending
  /\ job' = [job EXCEPT ![s] = Polling(s)]
  /\ UNCHANGED <<chain, file, queue, client, crashes>>

PollSucceedsAnyway(s) == job[s].step = "poll"

PollSucceeds(s) == job[s].step = "poll" /\ Landed(job[s].request)

Poll(s) ==
  /\ PollSucceeds(s)
  /\ job' = [job EXCEPT ![s].step = "info"]
  /\ UNCHANGED <<chain, pending, file, queue, client, crashes>>

\* The epoch comes from a read of its own, after the update is final.
ReadInfo(s) ==
  /\ job[s].step = "info"
  /\ job' = [job EXCEPT ![s] = [step |-> "save", request |-> @.request,
                                next |-> @.next, epoch |-> Epoch]]
  /\ UNCHANGED <<chain, pending, file, queue, client, crashes>>

SavedLeavesOfBase(s) == file

SavedLeaves(s) == job[s].next

Save(s) ==
  /\ job[s].step = "save"
  /\ file' = SavedLeaves(s)
  /\ job' = [job EXCEPT ![s].step = "reply"]
  /\ UNCHANGED <<chain, pending, queue, client, crashes>>

Reply(s) ==
  /\ job[s].step = "reply"
  /\ client' = [client EXCEPT ![job[s].request] =
                  [leaf   |-> @.leaf,
                   status |-> "accredited",
                   root   |-> job[s].next,
                   epoch  |-> job[s].epoch,
                   index  |-> Len(job[s].next)]]
  /\ job' = [job EXCEPT ![s] = NoJob]
  /\ UNCHANGED <<chain, pending, file, queue, crashes>>

AfterFailureKeepingJob(s) == Polling(s)

AfterFailure(s) == NoJob

\* An await rejects, a poll gives up or finds the call failed: answered 500,
\* and the queue goes on.  A rejected send may have reached the network.
Fail(s) ==
  /\ job[s].step \in {"account", "send", "poll", "info", "save"}
  /\ Answer(job[s].request, "failed")
  /\ job' = [job EXCEPT ![s] = AfterFailure(s)]
  /\ \/ UNCHANGED pending
     \/ /\ job[s].step = "send"
        /\ job[s].seq = chain.seq + 1
        /\ pending' = pending \cup {Signed(s)}
  /\ UNCHANGED <<chain, file, queue, crashes>>

\* The process dies and starts again: connections, queues and jobs are gone.
Crash ==
  /\ crashes < MaxCrashes
  /\ crashes' = crashes + 1
  /\ client' = [r \in DOMAIN client |->
                  IF client[r].status = "waiting"
                  THEN [client[r] EXCEPT !.status = "lost"] ELSE client[r]]
  /\ queue' = [s \in Services |-> << >>]
  /\ job' = [s \in Services |-> NoJob]
  /\ UNCHANGED <<chain, pending, file>>

-----------------------------------------------------------------------------
ServiceStep(s) ==
  Start(s) \/ GetAccount(s) \/ Send(s) \/ Poll(s) \/ ReadInfo(s) \/ Save(s)
  \/ Reply(s) \/ Fail(s)

Next ==
  \/ \E leaf \in Leaves, s \in Services : Post(leaf, s)
  \/ \E s \in Services : ServiceStep(s)
  \/ \E tx \in pending : Land(tx) \/ LandFailing(tx) \/ Expire(tx)
  \/ ConsoleAdvance
  \/ \E leaves \in ConsoleRosters : ConsoleCommit(leaves)
  \/ Crash

Spec == Init /\ [][Next]_vars

\* Every await settles and polling is bounded, so the process never stands
\* still; nothing is assumed of the network.
FairSpec == Spec /\ \A s \in Services : WF_vars(ServiceStep(s))
-----------------------------------------------------------------------------
(* Properties. *)

Transactions == [seq : Nat, leaves : Rosters, by : Requests]

Jobs ==
  {NoJob}
  \cup [step : {"account", "poll", "info"}, request : Requests, next : Rosters]
  \cup [step : {"send"}, request : Requests, next : Rosters, seq : Nat]
  \cup [step : {"save", "reply"}, request : Requests, next : Rosters, epoch : Nat]

Clients ==
  [leaf   : Leaves,
   status : {"waiting", "duplicate", "full", "failed", "lost"}]
  \cup [leaf : Leaves, status : {"accredited"}, root : Rosters, epoch : Nat,
        index : 1..Capacity]

TypeOK ==
  /\ chain.seq \in Nat
  /\ chain.history \in Seq([leaves : Rosters, by : Requests \cup {Outside}])
  /\ pending \subseteq Transactions
  /\ file \in Rosters
  /\ queue \in [Services -> Seq(Requests)]
  /\ job \in [Services -> Jobs]
  /\ client \in Seq(Clients)
  /\ crashes \in 0..MaxCrashes

Accredited == {r \in DOMAIN client : client[r].status = "accredited"}

(***************************************************************************)
(* What a client was told stays true in the file: its leaf is where its    *)
(* reply says, through failures, crashes and later requests.               *)
(***************************************************************************)
AcknowledgedStaysFiled ==
  \A r \in Accredited :
    /\ client[r].index \in DOMAIN file
    /\ file[client[r].index] = client[r].leaf

(***************************************************************************)
(* A roster the service commits holds every leaf acknowledged before it    *)
(* lands: not even a transaction the writer gave up on long ago takes an   *)
(* investor off the roster.                                                *)
(***************************************************************************)
KeepsAcknowledged ==
  \A tx \in pending :
    (Len(chain'.history) > Len(chain.history)
      /\ chain'.history[Len(chain'.history)].by = tx.by)
    => \A r \in Accredited : client[r].leaf \in Range(tx.leaves)

CommitKeepsAcknowledged == [][KeepsAcknowledged]_vars

(***************************************************************************)
(* A reply follows the commit of its own roster, and only the issuer's     *)
(* console can come between that commit and the epoch in the reply.        *)
(***************************************************************************)
ReplyFollowsOwnCommit ==
  \A r \in Accredited :
    \E e \in 1..(client[r].epoch + 1) :
      /\ chain.history[e] = [leaves |-> client[r].root, by |-> r]
      /\ \A later \in (e + 1)..(client[r].epoch + 1) :
           chain.history[later].by = Outside

(***************************************************************************)
(* The file never runs ahead of the chain: what a restart reads is a       *)
(* roster that was committed for a request.                                *)
(***************************************************************************)
FileWasCommitted ==
  file # << >> =>
    \E e \in DOMAIN chain.history :
      chain.history[e].leaves = file /\ chain.history[e].by # Outside

(***************************************************************************)
(* Every request is answered, or its connection breaks with the process,   *)
(* whatever became of the requests before it in the queue.                 *)
(***************************************************************************)
EveryRequestIsAnswered ==
  \A r \in Requests :
    r \in DOMAIN client ~> (r \in DOMAIN client /\ client[r].status # "waiting")

(***************************************************************************)
(* The root in a response was the pool's root in the epoch of the response *)
(* (the backend design's promise for concurrent requests).                 *)
(***************************************************************************)
ResponseMatchesCommittedEpoch ==
  \A r \in Accredited :
    chain.history[client[r].epoch + 1].leaves = client[r].root

(***************************************************************************)
(* An accredited investor whose path is out of date gets a fresh one: no   *)
(* request is refused as duplicate unless a reply for that leaf is for the *)
(* roster the pool has now (what the message for RootMismatch advises).    *)
(***************************************************************************)
StalePathIsRefreshed ==
  [][\A r \in DOMAIN client :
       (client[r].status = "waiting" /\ client'[r].status = "duplicate") =>
         \E q \in Accredited :
           client[q].leaf = client[r].leaf /\ client[q].root = Roster]_vars
=============================================================================
