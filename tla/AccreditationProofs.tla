------------------------ MODULE AccreditationProofs ------------------------
(***************************************************************************)
(* What clients of POST /accredit are promised, for every tree, any number *)
(* of requests, failures, lost answers, crashes and transactions of the    *)
(* issuer's own: the types however many services share the file, the rest  *)
(* for one service, as two of them break it (see the runs of two).         *)
(***************************************************************************)
EXTENDS Accreditation, TLAPS

-----------------------------------------------------------------------------
(***************************************************************************)
(* Types, and whose turn it is: requests in a queue or a job wait for an   *)
(* answer, and none is in two places.                                      *)
(***************************************************************************)
Working(s) == job[s].step # "none"

Waiting(r) == r \in DOMAIN client /\ client[r].status = "waiting"

Typed ==
  /\ TypeOK
  /\ Len(client) <= MaxRequests
  /\ chain.history # << >>
  /\ \A s \in Services : Working(s) => job[s].next # << >>

Waits ==
  /\ \A s \in Services : \A i \in DOMAIN queue[s] : Waiting(queue[s][i])
  /\ \A s \in Services : Working(s) => Waiting(job[s].request)

Apart ==
  /\ \A s, t \in Services : \A i \in DOMAIN queue[s], j \in DOMAIN queue[t] :
       queue[s][i] = queue[t][j] => s = t /\ i = j
  /\ \A s, t \in Services : \A i \in DOMAIN queue[s] :
       Working(t) => queue[s][i] # job[t].request
  /\ \A s, t \in Services :
       Working(s) /\ Working(t) /\ job[s].request = job[t].request => s = t

LEMMA RosterIs ==
  \A r : r \in Rosters <=> r \in Seq(Leaves) /\ Len(r) \in 0..Capacity
<1> SUFFICES ASSUME NEW r
             PROVE  r \in Rosters <=> r \in Seq(Leaves) /\ Len(r) \in 0..Capacity
  OBVIOUS
<1>1. ASSUME r \in Rosters PROVE r \in Seq(Leaves) /\ Len(r) \in 0..Capacity
  BY <1>1, RosterAssumption DEF Rosters
<1>2. ASSUME r \in Seq(Leaves), Len(r) \in 0..Capacity PROVE r \in Rosters
  <2>1. r \in [1..Len(r) -> Leaves]
    BY <1>2
  <2> QED
    BY <2>1, <1>2 DEF Rosters
<1> QED
  BY <1>1, <1>2

LEMMA Facts ==
  ASSUME Typed
  PROVE  /\ client \in Seq(Clients) /\ Len(client) \in Nat /\ Len(client) <= MaxRequests
         /\ DOMAIN client = 1..Len(client) /\ DOMAIN client \subseteq Requests
         /\ \A r \in DOMAIN client : client[r] \in Clients /\ client[r].leaf \in Leaves
         /\ chain.seq \in Nat
         /\ chain.history \in Seq([leaves : Rosters, by : Requests \cup {Outside}])
         /\ DOMAIN chain.history = 1..Len(chain.history)
         /\ Len(chain.history) \in Nat \ {0}
         /\ pending \subseteq Transactions
         /\ file \in Rosters /\ file \in Seq(Leaves)
         /\ queue \in [Services -> Seq(Requests)]
         /\ job \in [Services -> Jobs]
         /\ \A s \in Services : job[s] \in Jobs /\ queue[s] \in Seq(Requests)
<1>1. client \in Seq(Clients) /\ Len(client) \in Nat /\ Len(client) <= MaxRequests
  BY DEF Typed, TypeOK
<1>2. DOMAIN client = 1..Len(client) /\ DOMAIN client \subseteq Requests
  BY <1>1, BoundAssumption DEF Requests
<1>3. \A r \in DOMAIN client : client[r] \in Clients
  BY <1>1, <1>2
<1>4. \A r \in DOMAIN client : client[r].leaf \in Leaves
  BY <1>3 DEF Clients
<1>5. chain.history \in Seq([leaves : Rosters, by : Requests \cup {Outside}])
  BY DEF Typed, TypeOK
<1>6. /\ DOMAIN chain.history = 1..Len(chain.history)
      /\ Len(chain.history) \in Nat \ {0}
  <2> DEFINE h == chain.history
  <2>1. h \in Seq([leaves : Rosters, by : Requests \cup {Outside}]) /\ h # << >>
    BY <1>5 DEF Typed
  <2> HIDE DEF h
  <2>2. DOMAIN h = 1..Len(h) /\ Len(h) \in Nat \ {0}
    BY <2>1
  <2> QED
    BY <2>2 DEF h
<1>7. file \in Rosters /\ file \in Seq(Leaves)
  BY RosterIs DEF Typed, TypeOK
<1> QED
  BY <1>1, <1>2, <1>3, <1>4, <1>5, <1>6, <1>7 DEF Typed, TypeOK

(***************************************************************************)
(* What a job holds, read off its type.                                    *)
(***************************************************************************)
LEMMA JobIs ==
  ASSUME Typed, NEW s \in Services, Working(s)
  PROVE  /\ job[s].request \in Requests /\ job[s].next \in Rosters
         /\ job[s].next \in Seq(Leaves) /\ Len(job[s].next) \in 1..Capacity
         /\ job[s].step = "send" => job[s].seq \in Nat
         /\ job[s].step \in {"save", "reply"} => job[s].epoch \in Nat
         /\ job[s].step \in {"account", "send", "poll", "info", "save", "reply"}
<1>1. job[s] \in Jobs /\ job[s].next # << >>
  BY Facts DEF Typed
<1>2. job[s].request \in Requests /\ job[s].next \in Rosters
  BY <1>1 DEF Working, Jobs, NoJob
<1>3. /\ job[s].step = "send" => job[s].seq \in Nat
      /\ job[s].step \in {"save", "reply"} => job[s].epoch \in Nat
      /\ job[s].step \in {"account", "send", "poll", "info", "save", "reply"}
  BY <1>1 DEF Working, Jobs, NoJob
<1>4. job[s].next \in Seq(Leaves) /\ Len(job[s].next) \in 0..Capacity
  BY <1>2, RosterIs
<1>5. Len(job[s].next) # 0
  <2> DEFINE next == job[s].next
  <2>1. next \in Seq(Leaves) /\ next # << >>
    BY <1>1, <1>4
  <2> HIDE DEF next
  <2>2. Len(next) # 0
    BY <2>1
  <2> QED
    BY <2>2 DEF next
<1> QED
  BY <1>2, <1>3, <1>4, <1>5, RosterAssumption

-----------------------------------------------------------------------------
(***************************************************************************)
(* What one step does to the clients, the queues and the jobs.             *)
(***************************************************************************)
LEMMA ClientSet ==
  ASSUME Typed, NEW r \in DOMAIN client, NEW new \in Clients,
         client' = [client EXCEPT ![r] = new]
  PROVE  /\ client' \in Seq(Clients) /\ Len(client') = Len(client)
         /\ DOMAIN client' = DOMAIN client
         /\ client'[r] = new
         /\ \A q \in DOMAIN client : q # r => client'[q] = client[q]
  BY Facts

LEMMA Answered ==
  ASSUME Typed, NEW r, Waiting(r), NEW status \in {"duplicate", "full", "failed"},
         Answer(r, status)
  PROVE  /\ client' \in Seq(Clients) /\ Len(client') = Len(client)
         /\ DOMAIN client' = DOMAIN client
         /\ client'[r].status = status /\ client'[r].leaf = client[r].leaf
         /\ \A q \in DOMAIN client : q # r => client'[q] = client[q]
<1> DEFINE new == [client[r] EXCEPT !.status = status]
<1>1. client[r] \in Clients /\ client[r].status = "waiting" /\ r \in DOMAIN client
  BY Facts DEF Waiting
<1>2. new \in Clients /\ new.status = status /\ new.leaf = client[r].leaf
  BY <1>1 DEF Clients
<1>3. client' = [client EXCEPT ![r] = new]
  BY DEF Answer
<1> HIDE DEF new
<1> QED
  BY <1>1, <1>2, <1>3, ClientSet

LEMMA Posted ==
  ASSUME Typed, NEW leaf \in Leaves, NEW s \in Services, Post(leaf, s)
  PROVE  LET n == Len(client) + 1
         IN  /\ client' \in Seq(Clients) /\ Len(client') = n /\ n <= MaxRequests
             /\ n \in Requests /\ n \notin DOMAIN client
             /\ DOMAIN client' = DOMAIN client \cup {n}
             /\ client'[n].status = "waiting"
             /\ \A r \in DOMAIN client : client'[r] = client[r]
             /\ queue' \in [Services -> Seq(Requests)]
             /\ queue'[s] = Append(queue[s], n)
             /\ \A t \in Services : t # s => queue'[t] = queue[t]
             /\ UNCHANGED <<chain, pending, file, job, crashes>>
<1> DEFINE n == Len(client) + 1
           new == [leaf |-> leaf, status |-> "waiting"]
<1>1. new \in Clients /\ new.status = "waiting"
  BY DEF Clients
<1>2. client' = Append(client, new) /\ Len(client) < MaxRequests
  BY DEF Post
<1> HIDE DEF new
<1>3. /\ client' \in Seq(Clients) /\ Len(client') = n /\ n <= MaxRequests
      /\ n \in Requests /\ n \notin DOMAIN client
      /\ DOMAIN client' = DOMAIN client \cup {n}
      /\ client'[n] = new
      /\ \A r \in DOMAIN client : client'[r] = client[r]
  BY <1>1, <1>2, Facts, BoundAssumption DEF Requests
<1>4. queue' = [queue EXCEPT ![s] = Append(queue[s], n)]
  BY Facts DEF Post
<1>5. Append(queue[s], n) \in Seq(Requests)
  BY <1>3, Facts
<1> QED
  BY <1>1, <1>3, <1>4, <1>5, Facts DEF Post

LEMMA Started ==
  ASSUME Typed, Waits, NEW s \in Services, Start(s)
  PROVE  LET r == Head(queue[s])
         IN  /\ queue[s] # << >> /\ r = queue[s][1] /\ r \in Requests /\ Waiting(r)
             /\ queue' \in [Services -> Seq(Requests)]
             /\ queue'[s] = Tail(queue[s])
             /\ \A t \in Services : t # s => queue'[t] = queue[t]
             /\ ~Working(s)
             /\ UNCHANGED <<chain, pending, file, crashes>>
             /\ \/ /\ UNCHANGED job
                   /\ \E status \in {"duplicate", "full"} : Answer(r, status)
                \/ /\ UNCHANGED client
                   /\ job' = [job EXCEPT ![s] = [step |-> "account", request |-> r,
                                                 next |-> Append(file, client[r].leaf)]]
                   /\ Append(file, client[r].leaf) \in Rosters
<1> DEFINE r == Head(queue[s])
<1>1. queue[s] \in Seq(Requests) /\ queue[s] # << >> /\ job[s] = NoJob
  BY Facts DEF Start, CanStart
<1>2. r = queue[s][1] /\ r \in Requests /\ 1 \in DOMAIN queue[s]
  BY <1>1
<1>3. Waiting(r)
  BY <1>2 DEF Waits
<1>4. ~Working(s)
  BY <1>1 DEF Working, NoJob
<1>5. /\ queue' \in [Services -> Seq(Requests)]
      /\ queue'[s] = Tail(queue[s])
      /\ \A t \in Services : t # s => queue'[t] = queue[t]
  <2>1. queue' = [queue EXCEPT ![s] = Tail(queue[s])]
    BY Facts DEF Start
  <2>2. Tail(queue[s]) \in Seq(Requests)
    BY <1>1
  <2> QED
    BY <2>1, <2>2, Facts
<1>6. ASSUME ~IsFull PROVE Append(file, client[r].leaf) \in Rosters
  <2> DEFINE leaf == client[r].leaf
  <2>1. file \in Seq(Leaves) /\ leaf \in Leaves /\ Len(file) < Capacity
    BY <1>3, <1>6, Facts, RosterIs, RosterAssumption DEF Waiting, IsFull
  <2> HIDE DEF leaf
  <2>2. Append(file, leaf) \in Seq(Leaves) /\ Len(Append(file, leaf)) \in 0..Capacity
    BY <2>1, RosterAssumption
  <2> QED
    BY <2>2, RosterIs DEF leaf
<1>7. \/ /\ UNCHANGED job
         /\ \E status \in {"duplicate", "full"} : Answer(r, status)
      \/ /\ UNCHANGED client /\ ~IsFull
         /\ job' = [job EXCEPT ![s] = [step |-> "account", request |-> r,
                                       next |-> Append(file, client[r].leaf)]]
  BY DEF Start, NextRoster
<1>8. UNCHANGED <<chain, pending, file, crashes>>
  BY DEF Start
<1> HIDE DEF r
<1>9. \/ /\ UNCHANGED job
         /\ \E status \in {"duplicate", "full"} : Answer(r, status)
      \/ /\ UNCHANGED client
         /\ job' = [job EXCEPT ![s] = [step |-> "account", request |-> r,
                                       next |-> Append(file, client[r].leaf)]]
         /\ Append(file, client[r].leaf) \in Rosters
  BY <1>6, <1>7
<1> QED
  BY <1>1, <1>2, <1>3, <1>4, <1>5, <1>8, <1>9 DEF r

(***************************************************************************)
(* A job goes on: which step follows which, and what it carries over.      *)
(***************************************************************************)
LEMMA WentOn ==
  ASSUME Typed, NEW s \in Services,
         GetAccount(s) \/ Send(s) \/ Poll(s) \/ ReadInfo(s) \/ Save(s)
  PROVE  /\ Working(s) /\ Working(s)'
         /\ job' \in [Services -> Jobs]
         /\ \A t \in Services : t # s => job'[t] = job[t]
         /\ job'[s].request = job[s].request /\ job'[s].next = job[s].next
         /\ UNCHANGED <<chain, queue, client, crashes>>
         /\ \/ /\ GetAccount(s) /\ job[s].step = "account" /\ job'[s].step = "send"
               /\ job'[s].seq = chain.seq + 1 /\ UNCHANGED <<pending, file>>
            \/ /\ Send(s) /\ job[s].step = "send" /\ job'[s].step = "poll"
               /\ UNCHANGED file
            \/ /\ Poll(s) /\ job[s].step = "poll" /\ job'[s].step = "info"
               /\ Landed(job[s].request) /\ UNCHANGED <<pending, file>>
            \/ /\ ReadInfo(s) /\ job[s].step = "info" /\ job'[s].step = "save"
               /\ job'[s].epoch = Epoch /\ UNCHANGED <<pending, file>>
            \/ /\ Save(s) /\ job[s].step = "save" /\ job'[s].step = "reply"
               /\ job'[s].epoch = job[s].epoch
               /\ file' = job[s].next /\ UNCHANGED pending
<1>a. job \in [Services -> Jobs]
  BY Facts
<1>b. ASSUME NEW new \in Jobs, job' = [job EXCEPT ![s] = new]
      PROVE  /\ job' \in [Services -> Jobs] /\ job'[s] = new
             /\ \A t \in Services : t # s => job'[t] = job[t]
  BY <1>a, <1>b
<1>1. CASE GetAccount(s)
  <2> DEFINE new == [step |-> "send", request |-> job[s].request,
                     next |-> job[s].next, seq |-> chain.seq + 1]
  <2>1. job[s].step = "account" /\ Working(s)
    BY <1>1 DEF GetAccount, Working
  <2>2. chain.seq + 1 \in Nat
    BY Facts
  <2>3. new \in Jobs
    BY <2>1, <2>2, JobIs DEF Jobs
  <2>4. job' = [job EXCEPT ![s] = new]
    BY <1>1, <1>a DEF GetAccount
  <2>5. /\ new.step = "send" /\ new.request = job[s].request
        /\ new.next = job[s].next /\ new.seq = chain.seq + 1
    OBVIOUS
  <2> HIDE DEF new
  <2>6. job' \in [Services -> Jobs] /\ job'[s] = new
        /\ \A t \in Services : t # s => job'[t] = job[t]
    BY <1>b, <2>3, <2>4
  <2> QED
    BY <1>1, <2>1, <2>5, <2>6 DEF GetAccount, Working
<1>2. CASE Send(s)
  <2> DEFINE new == Polling(s)
  <2>1. job[s].step = "send" /\ Working(s)
    BY <1>2 DEF Send, Working
  <2>2. new \in Jobs
    BY <2>1, JobIs DEF Jobs, Polling
  <2>3. /\ new.step = "poll" /\ new.request = job[s].request
        /\ new.next = job[s].next
    BY DEF Polling
  <2> HIDE DEF new
  <2>4. job' \in [Services -> Jobs] /\ job'[s] = new
        /\ \A t \in Services : t # s => job'[t] = job[t]
    BY <1>2, <1>b, <2>2 DEF Send, new
  <2> QED
    BY <1>2, <2>1, <2>3, <2>4 DEF Send, Working
<1>3. CASE Poll(s)
  <2> DEFINE new == [job[s] EXCEPT !.step = "info"]
  <2>1. job[s].step = "poll" /\ Working(s) /\ Landed(job[s].request)
    BY <1>3 DEF Poll, PollSucceeds, Working
  <2>2. job[s] \in [step : {"account", "poll", "info"}, request : Requests, next : Rosters]
    <3>1. job[s] \in Jobs
      BY Facts
    <3> QED
      BY <2>1, <3>1 DEF Jobs, NoJob
  <2>3. /\ new \in Jobs /\ new.step = "info" /\ new.request = job[s].request
        /\ new.next = job[s].next
    BY <2>2 DEF Jobs
  <2>4. job' = [job EXCEPT ![s] = new]
    BY <1>3 DEF Poll
  <2> HIDE DEF new
  <2>5. job' \in [Services -> Jobs] /\ job'[s] = new
        /\ \A t \in Services : t # s => job'[t] = job[t]
    BY <1>b, <2>3, <2>4
  <2> QED
    BY <1>3, <2>1, <2>3, <2>5 DEF Poll, Working
<1>4. CASE ReadInfo(s)
  <2> DEFINE new == [step |-> "save", request |-> job[s].request,
                     next |-> job[s].next, epoch |-> Epoch]
  <2>1. job[s].step = "info" /\ Working(s)
    BY <1>4 DEF ReadInfo, Working
  <2>2. Epoch \in Nat
    BY Facts DEF Epoch
  <2>3. new \in Jobs
    BY <2>1, <2>2, JobIs DEF Jobs
  <2>4. job' = [job EXCEPT ![s] = new]
    BY <1>4, <1>a DEF ReadInfo
  <2>5. /\ new.step = "save" /\ new.request = job[s].request
        /\ new.next = job[s].next /\ new.epoch = Epoch
    OBVIOUS
  <2> HIDE DEF new
  <2>6. job' \in [Services -> Jobs] /\ job'[s] = new
        /\ \A t \in Services : t # s => job'[t] = job[t]
    BY <1>b, <2>3, <2>4
  <2> QED
    BY <1>4, <2>1, <2>5, <2>6 DEF ReadInfo, Working
<1>5. CASE Save(s)
  <2> DEFINE new == [job[s] EXCEPT !.step = "reply"]
  <2>1. job[s].step = "save" /\ Working(s)
    BY <1>5 DEF Save, Working
  <2>2. job[s] \in [step : {"save", "reply"}, request : Requests, next : Rosters, epoch : Nat]
    <3>1. job[s] \in Jobs
      BY Facts
    <3> QED
      BY <2>1, <3>1 DEF Jobs, NoJob
  <2>3. /\ new \in Jobs /\ new.step = "reply" /\ new.request = job[s].request
        /\ new.next = job[s].next /\ new.epoch = job[s].epoch
    BY <2>2 DEF Jobs
  <2>4. job' = [job EXCEPT ![s] = new]
    BY <1>5 DEF Save
  <2> HIDE DEF new
  <2>5. job' \in [Services -> Jobs] /\ job'[s] = new
        /\ \A t \in Services : t # s => job'[t] = job[t]
    BY <1>b, <2>3, <2>4
  <2> QED
    BY <1>5, <2>1, <2>3, <2>5 DEF Save, SavedLeaves, Working
<1> QED
  BY <1>1, <1>2, <1>3, <1>4, <1>5

LEMMA Replied ==
  ASSUME Typed, Waits, NEW s \in Services, Reply(s)
  PROVE  LET r == job[s].request
         IN  /\ Working(s) /\ job[s].step = "reply" /\ Waiting(r)
             /\ job' \in [Services -> Jobs] /\ job'[s].step = "none"
             /\ \A t \in Services : t # s => job'[t] = job[t]
             /\ client' \in Seq(Clients) /\ Len(client') = Len(client)
             /\ DOMAIN client' = DOMAIN client
             /\ client'[r].status = "accredited" /\ client'[r].leaf = client[r].leaf
             /\ client'[r].root = job[s].next /\ client'[r].epoch = job[s].epoch
             /\ client'[r].index = Len(job[s].next)
             /\ \A q \in DOMAIN client : q # r => client'[q] = client[q]
             /\ UNCHANGED <<chain, pending, file, queue, crashes>>
<1> DEFINE r   == job[s].request
           new == [leaf |-> client[r].leaf, status |-> "accredited",
                   root |-> job[s].next, epoch |-> job[s].epoch,
                   index |-> Len(job[s].next)]
<1>1. job[s].step = "reply" /\ Working(s)
  BY DEF Reply, Working
<1>2. Waiting(r)
  BY <1>1 DEF Waits
<1>3. job[s].next \in Rosters /\ Len(job[s].next) \in 1..Capacity /\ job[s].epoch \in Nat
  BY <1>1, JobIs
<1>4. new \in Clients
  BY <1>2, <1>3, Facts DEF Clients, Waiting
<1>5. client' = [client EXCEPT ![r] = new]
  BY <1>2, Facts DEF Reply, Waiting
<1>6. /\ new.status = "accredited" /\ new.leaf = client[r].leaf
      /\ new.root = job[s].next /\ new.epoch = job[s].epoch
      /\ new.index = Len(job[s].next)
  OBVIOUS
<1>7. /\ job' \in [Services -> Jobs] /\ job'[s].step = "none"
      /\ \A t \in Services : t # s => job'[t] = job[t]
  <2>1. job' = [job EXCEPT ![s] = NoJob] /\ NoJob \in Jobs /\ NoJob.step = "none"
    BY DEF Reply, Jobs, NoJob
  <2> QED
    BY <2>1, Facts
<1>8. UNCHANGED <<chain, pending, file, queue, crashes>>
  BY DEF Reply
<1> HIDE DEF r, new
<1>9. /\ client' \in Seq(Clients) /\ Len(client') = Len(client)
      /\ DOMAIN client' = DOMAIN client /\ client'[r] = new
      /\ \A q \in DOMAIN client : q # r => client'[q] = client[q]
  BY <1>2, <1>4, <1>5, ClientSet DEF Waiting
<1> QED
  BY <1>1, <1>2, <1>6, <1>7, <1>8, <1>9 DEF r

LEMMA Failed ==
  ASSUME Typed, Waits, NEW s \in Services, Fail(s)
  PROVE  LET r == job[s].request
         IN  /\ Working(s) /\ Waiting(r) /\ Answer(r, "failed")
             /\ job' \in [Services -> Jobs] /\ job'[s].step = "none"
             /\ \A t \in Services : t # s => job'[t] = job[t]
             /\ UNCHANGED <<chain, file, queue, crashes>>
             /\ \/ UNCHANGED pending
                \/ /\ job[s].step = "send" /\ job[s].seq = chain.seq + 1
                   /\ pending' = pending \cup {Signed(s)}
<1>1. Working(s)
  BY DEF Fail, Working
<1>2. Waiting(job[s].request)
  BY <1>1 DEF Waits
<1>3. /\ job' \in [Services -> Jobs] /\ job'[s].step = "none"
      /\ \A t \in Services : t # s => job'[t] = job[t]
  <2>1. job' = [job EXCEPT ![s] = NoJob] /\ NoJob \in Jobs /\ NoJob.step = "none"
    BY DEF Fail, AfterFailure, Jobs, NoJob
  <2> QED
    BY <2>1, Facts
<1> QED
  BY <1>1, <1>2, <1>3 DEF Fail

LEMMA Crashed ==
  ASSUME Typed, Crash
  PROVE  /\ client' \in Seq(Clients) /\ Len(client') = Len(client)
         /\ DOMAIN client' = DOMAIN client
         /\ \A r \in DOMAIN client :
              \/ client'[r] = client[r] /\ client[r].status # "waiting"
              \/ client'[r].status = "lost" /\ client[r].status = "waiting"
         /\ queue' = [s \in Services |-> << >>]
         /\ job' \in [Services -> Jobs]
         /\ \A s \in Services : ~Working(s)' /\ DOMAIN queue'[s] = {}
         /\ UNCHANGED <<chain, pending, file>>
<1> DEFINE after(r) == IF client[r].status = "waiting"
                       THEN [client[r] EXCEPT !.status = "lost"] ELSE client[r]
<1>1. \A r \in DOMAIN client :
        /\ after(r) \in Clients
        /\ \/ after(r) = client[r] /\ client[r].status # "waiting"
           \/ after(r).status = "lost" /\ client[r].status = "waiting"
  <2> TAKE r \in DOMAIN client
  <2>1. client[r] \in Clients
    BY Facts
  <2>2. CASE client[r].status = "waiting"
    <3>1. client[r] \in [leaf : Leaves,
                         status : {"waiting", "duplicate", "full", "failed", "lost"}]
      BY <2>1, <2>2 DEF Clients
    <3> QED
      BY <2>2, <3>1 DEF Clients
  <2>3. CASE client[r].status # "waiting"
    BY <2>1, <2>3
  <2> QED
    BY <2>2, <2>3
<1>2. client' = [r \in DOMAIN client |-> after(r)]
  BY DEF Crash
<1> HIDE DEF after
<1>3. /\ client' \in Seq(Clients) /\ Len(client') = Len(client)
      /\ DOMAIN client' = DOMAIN client
      /\ \A r \in DOMAIN client : client'[r] = after(r)
  BY <1>1, <1>2, Facts
<1>4. /\ queue' = [s \in Services |-> << >>]
      /\ job' = [s \in Services |-> NoJob]
      /\ UNCHANGED <<chain, pending, file>>
  BY DEF Crash
<1>5. job' \in [Services -> Jobs] /\ \A s \in Services : ~Working(s)' /\ DOMAIN queue'[s] = {}
  BY <1>4 DEF Jobs, NoJob, Working
<1> QED
  BY <1>1, <1>3, <1>4, <1>5

(***************************************************************************)
(* A step of the network or of the issuer's console.                       *)
(***************************************************************************)
NetworkStep ==
  \/ \E tx \in pending : Land(tx) \/ LandFailing(tx) \/ Expire(tx)
  \/ ConsoleAdvance
  \/ \E leaves \in ConsoleRosters : ConsoleCommit(leaves)

LEMMA Commits ==
  ASSUME Typed, NEW leaves \in Rosters, NEW by \in Requests \cup {Outside},
         Commit(leaves, by)
  PROVE  /\ chain'.seq = chain.seq + 1 /\ chain'.seq \in Nat
         /\ chain'.history \in Seq([leaves : Rosters, by : Requests \cup {Outside}])
         /\ Len(chain'.history) = Len(chain.history) + 1
         /\ chain'.history # << >>
         /\ chain'.history[Len(chain.history) + 1] = [leaves |-> leaves, by |-> by]
         /\ \A e \in 1..Len(chain.history) : chain'.history[e] = chain.history[e]
<1> DEFINE h   == chain.history
           new == [leaves |-> leaves, by |-> by]
<1>1. h \in Seq([leaves : Rosters, by : Requests \cup {Outside}]) /\ Len(h) \in Nat
  BY Facts
<1>2. new \in [leaves : Rosters, by : Requests \cup {Outside}]
  OBVIOUS
<1>3. chain.seq \in Nat
  BY Facts
<1>4. chain'.seq = chain.seq + 1 /\ chain'.history = Append(h, new)
  BY DEF Commit
<1> HIDE DEF h, new
<1>5. /\ Append(h, new) \in Seq([leaves : Rosters, by : Requests \cup {Outside}])
      /\ Len(Append(h, new)) = Len(h) + 1
      /\ Append(h, new)[Len(h) + 1] = new
      /\ \A e \in 1..Len(h) : Append(h, new)[e] = h[e]
      /\ Append(h, new) # << >>
  BY <1>1, <1>2
<1> QED
  BY <1>3, <1>4, <1>5 DEF h, new

NetworkEffect ==
  /\ UNCHANGED <<file, queue, job, client, crashes>>
  /\ pending' \subseteq pending
  /\ chain'.seq \in {chain.seq, chain.seq + 1} /\ chain'.seq \in Nat
  /\ chain'.history \in Seq([leaves : Rosters, by : Requests \cup {Outside}])
  /\ chain'.history # << >>
  /\ \/ chain'.history = chain.history
     \/ /\ Len(chain'.history) = Len(chain.history) + 1
        /\ \A e \in 1..Len(chain.history) : chain'.history[e] = chain.history[e]
        /\ chain'.seq = chain.seq + 1
        /\ \/ chain'.history[Len(chain.history) + 1].by = Outside
           \/ \E tx \in pending :
                /\ tx.seq = chain.seq + 1 /\ pending' = pending \ {tx}
                /\ chain'.history[Len(chain.history) + 1]
                     = [leaves |-> tx.leaves, by |-> tx.by]

LEMMA Networked ==
  ASSUME Typed, NetworkStep
  PROVE  NetworkEffect
<1>a. /\ pending \subseteq Transactions
      /\ chain.seq \in Nat
      /\ chain.history \in Seq([leaves : Rosters, by : Requests \cup {Outside}])
      /\ chain.history # << >>
  BY Facts DEF Typed
<1>1. ASSUME NEW tx \in pending, Land(tx) PROVE NetworkEffect
  <2>1. tx.leaves \in Rosters /\ tx.by \in Requests \cup {Outside}
    BY <1>a DEF Transactions
  <2>2. Commit(tx.leaves, tx.by)
    BY <1>1 DEF Land
  <2>3. /\ chain'.seq = chain.seq + 1 /\ chain'.seq \in Nat
        /\ chain'.history \in Seq([leaves : Rosters, by : Requests \cup {Outside}])
        /\ Len(chain'.history) = Len(chain.history) + 1
        /\ chain'.history # << >>
        /\ chain'.history[Len(chain.history) + 1] = [leaves |-> tx.leaves, by |-> tx.by]
        /\ \A e \in 1..Len(chain.history) : chain'.history[e] = chain.history[e]
    BY <2>1, <2>2, Commits
  <2>4. /\ tx.seq = chain.seq + 1 /\ pending' = pending \ {tx}
        /\ UNCHANGED <<file, queue, job, client, crashes>>
    BY <1>1 DEF Land
  <2> QED
    BY <2>3, <2>4 DEF NetworkEffect
<1>2. ASSUME NEW tx \in pending, LandFailing(tx) PROVE NetworkEffect
  <2>1. chain'.seq = chain.seq + 1 /\ chain'.history = chain.history
    BY <1>2 DEF LandFailing
  <2>2. pending' \subseteq pending /\ UNCHANGED <<file, queue, job, client, crashes>>
    BY <1>2 DEF LandFailing
  <2> QED
    BY <1>a, <2>1, <2>2 DEF NetworkEffect
<1>3. ASSUME NEW tx \in pending, Expire(tx) PROVE NetworkEffect
  BY <1>a, <1>3 DEF Expire, NetworkEffect
<1>4. ASSUME NEW leaves \in Rosters, Commit(leaves, Outside),
             UNCHANGED <<pending, file, queue, job, client, crashes>>
      PROVE  NetworkEffect
  <2>1. /\ chain'.seq = chain.seq + 1 /\ chain'.seq \in Nat
        /\ chain'.history \in Seq([leaves : Rosters, by : Requests \cup {Outside}])
        /\ Len(chain'.history) = Len(chain.history) + 1
        /\ chain'.history # << >>
        /\ chain'.history[Len(chain.history) + 1] = [leaves |-> leaves, by |-> Outside]
        /\ \A e \in 1..Len(chain.history) : chain'.history[e] = chain.history[e]
    BY <1>4, Commits
  <2> QED
    BY <1>4, <2>1 DEF NetworkEffect
<1>5. Roster \in Rosters
  <2> DEFINE h == chain.history
  <2>1. h \in Seq([leaves : Rosters, by : Requests \cup {Outside}]) /\ h # << >>
    BY <1>a
  <2> HIDE DEF h
  <2>2. h[Len(h)] \in [leaves : Rosters, by : Requests \cup {Outside}]
    <3>1. ASSUME NEW S, NEW q \in Seq(S), q # << >> PROVE q[Len(q)] \in S
      BY <3>1
    <3> QED
      BY <2>1, <3>1, Zenon
  <2>3. h[Len(h)].leaves \in Rosters
    BY <2>2
  <2> QED
    BY <2>3 DEF h, Roster
<1>6. CASE ConsoleAdvance
  BY <1>4, <1>5, <1>6 DEF ConsoleAdvance
<1>7. ASSUME NEW leaves \in ConsoleRosters, ConsoleCommit(leaves) PROVE NetworkEffect
  BY <1>4, <1>7, RosterAssumption DEF ConsoleCommit
<1> QED
  BY <1>1, <1>2, <1>3, <1>6, <1>7 DEF NetworkStep

(***************************************************************************)
(* Every step is one of these.                                             *)
(***************************************************************************)
LEMMA Steps ==
  ASSUME Next
  PROVE  \/ NetworkStep
         \/ \E leaf \in Leaves, s \in Services : Post(leaf, s)
         \/ \E s \in Services : Start(s)
         \/ \E s \in Services :
              GetAccount(s) \/ Send(s) \/ Poll(s) \/ ReadInfo(s) \/ Save(s)
         \/ \E s \in Services : Reply(s)
         \/ \E s \in Services : Fail(s)
         \/ Crash
  BY DEF Next, ServiceStep, NetworkStep

-----------------------------------------------------------------------------
Base == Typed /\ Waits /\ Apart

LEMMA BaseInit ==
  ASSUME Init
  PROVE  Base
<1> DEFINE H   == [leaves : Rosters, by : Requests \cup {Outside}]
           fst == [leaves |-> << >>, by |-> Outside]
           snd == [leaves |-> Seeded, by |-> Outside]
<1>1. << >> \in Rosters
  <2>1. << >> \in Seq(Leaves) /\ Len(<< >>) \in 0..Capacity
    BY RosterAssumption
  <2> QED
    BY <2>1, RosterIs, Zenon
<1>2. fst \in H /\ snd \in H
  BY <1>1, RosterAssumption
<1>3. chain.history = <<fst, snd>> /\ chain.seq = 0
  BY DEF Init
<1> HIDE DEF H, fst, snd
<1>4. chain.history \in Seq(H) /\ chain.history # << >>
  BY <1>2, <1>3
<1>5. job \in [Services -> Jobs] /\ \A s \in Services : ~Working(s)
  BY DEF Init, Jobs, NoJob, Working
<1>6. queue \in [Services -> Seq(Requests)] /\ \A s \in Services : DOMAIN queue[s] = {}
  BY DEF Init
<1>7. client \in Seq(Clients) /\ Len(client) <= MaxRequests
  BY BoundAssumption DEF Init
<1>8. /\ pending \subseteq Transactions /\ file \in Rosters
      /\ crashes \in 0..MaxCrashes /\ chain.seq \in Nat
  BY <1>1, <1>3, BoundAssumption DEF Init
<1>9. Typed
  BY <1>4, <1>5, <1>6, <1>7, <1>8 DEF Typed, TypeOK, H
<1> QED
  BY <1>5, <1>6, <1>9 DEF Base, Waits, Apart

(***************************************************************************)
(* The types, from the effect of each step.                                *)
(***************************************************************************)
LEMMA TypedNext ==
  ASSUME Base, [Next]_vars
  PROVE  Typed'
<1>b. Typed /\ Waits
  BY DEF Base
<1>c. crashes \in 0..MaxCrashes
  BY <1>b DEF Typed, TypeOK
<1>1. CASE NetworkStep
  BY <1>1, <1>b, Networked DEF NetworkEffect, Typed, TypeOK, Working
<1>2. ASSUME NEW leaf \in Leaves, NEW s \in Services, Post(leaf, s)
      PROVE  Typed'
  BY <1>2, <1>b, Posted DEF Typed, TypeOK, Working
<1>3. ASSUME NEW s \in Services, Start(s)
      PROVE  Typed'
  <2>1. /\ queue' \in [Services -> Seq(Requests)]
        /\ UNCHANGED <<chain, pending, file, crashes>>
        /\ \/ /\ UNCHANGED job
              /\ \E status \in {"duplicate", "full"} : Answer(Head(queue[s]), status)
           \/ /\ UNCHANGED client
              /\ job' = [job EXCEPT ![s] = [step |-> "account", request |-> Head(queue[s]),
                                            next |-> Append(file, client[Head(queue[s])].leaf)]]
              /\ Append(file, client[Head(queue[s])].leaf) \in Rosters
        /\ Waiting(Head(queue[s])) /\ Head(queue[s]) \in Requests
    BY <1>3, <1>b, Started
  <2>2. ASSUME NEW status \in {"duplicate", "full"}, Answer(Head(queue[s]), status),
               UNCHANGED job
        PROVE  Typed'
    <3>1. client' \in Seq(Clients) /\ Len(client') = Len(client)
      BY <1>b, <2>1, <2>2, Answered
    <3> QED
      BY <1>b, <2>1, <2>2, <3>1 DEF Typed, TypeOK, Working
  <2>3. ASSUME UNCHANGED client,
               Append(file, client[Head(queue[s])].leaf) \in Rosters,
               job' = [job EXCEPT ![s] = [step |-> "account", request |-> Head(queue[s]),
                                          next |-> Append(file, client[Head(queue[s])].leaf)]]
        PROVE  Typed'
    <3> DEFINE next == Append(file, client[Head(queue[s])].leaf)
               new  == [step |-> "account", request |-> Head(queue[s]), next |-> next]
    <3>1. next # << >>
      <4>1. file \in Seq(Leaves) /\ client[Head(queue[s])].leaf \in Leaves
        BY <1>b, <2>1, Facts DEF Waiting
      <4> QED
        BY <4>1
    <3>2. next \in Rosters
      BY <2>3
    <3> HIDE DEF next
    <3>3. new \in Jobs /\ new.next = next
      BY <2>1, <3>2 DEF Jobs
    <3>4. job' = [job EXCEPT ![s] = new]
      BY <2>3 DEF next
    <3> HIDE DEF new
    <3>5. /\ job' \in [Services -> Jobs] /\ job'[s].next # << >>
          /\ \A t \in Services : t # s => job'[t] = job[t]
      BY <3>1, <3>3, <3>4, <1>b, Facts
    <3> QED
      BY <1>b, <2>1, <2>3, <3>5 DEF Typed, TypeOK, Working
  <2> QED
    BY <2>1, <2>2, <2>3
<1>4. ASSUME NEW s \in Services,
             GetAccount(s) \/ Send(s) \/ Poll(s) \/ ReadInfo(s) \/ Save(s)
      PROVE  Typed'
  <2>1. /\ Working(s) /\ Working(s)'
        /\ job' \in [Services -> Jobs]
        /\ \A t \in Services : t # s => job'[t] = job[t]
        /\ job'[s].next = job[s].next
        /\ UNCHANGED <<chain, queue, client, crashes>>
    BY <1>4, <1>b, WentOn
  <2>2. /\ pending' = pending \/ (Send(s) /\ job[s].step = "send")
        /\ file' = file \/ file' = job[s].next
    BY <1>4, <1>b, WentOn
  <2>3. file' \in Rosters
    BY <1>b, <2>1, <2>2, JobIs, Facts
  <2>4. pending' \subseteq Transactions
    <3>1. ASSUME Send(s), job[s].step = "send" PROVE pending' \subseteq Transactions
      <4>1. Signed(s) \in Transactions
        BY <1>b, <2>1, <3>1, JobIs DEF Signed, Transactions
      <4>2. pending' \subseteq pending \cup {Signed(s)}
        BY <3>1 DEF Send
      <4> QED
        BY <1>b, <4>1, <4>2, Facts
    <3> QED
      BY <1>b, <2>2, <3>1, Facts
  <2> QED
    BY <1>b, <2>1, <2>3, <2>4 DEF Typed, TypeOK, Working
<1>5. ASSUME NEW s \in Services, Reply(s)
      PROVE  Typed'
  BY <1>5, <1>b, Replied DEF Typed, TypeOK, Working
<1>6. ASSUME NEW s \in Services, Fail(s)
      PROVE  Typed'
  <2>1. /\ Working(s) /\ Waiting(job[s].request) /\ Answer(job[s].request, "failed")
        /\ job' \in [Services -> Jobs] /\ job'[s].step = "none"
        /\ \A t \in Services : t # s => job'[t] = job[t]
        /\ UNCHANGED <<chain, file, queue, crashes>>
        /\ \/ UNCHANGED pending
           \/ job[s].step = "send" /\ pending' = pending \cup {Signed(s)}
    BY <1>6, <1>b, Failed
  <2>2. client' \in Seq(Clients) /\ Len(client') = Len(client)
    BY <1>b, <2>1, Answered
  <2>3. pending' \subseteq Transactions
    <3>1. job[s].step = "send" => Signed(s) \in Transactions
      BY <1>b, <2>1, JobIs DEF Signed, Transactions
    <3> QED
      BY <1>b, <2>1, <3>1, Facts
  <2> QED
    BY <1>b, <2>1, <2>2, <2>3 DEF Typed, TypeOK, Working
<1>7. CASE Crash
  <2>1. crashes' \in 0..MaxCrashes
    BY <1>7, <1>c, BoundAssumption DEF Crash
  <2>2. queue' \in [Services -> Seq(Requests)]
    BY <1>7 DEF Crash
  <2> QED
    BY <1>7, <1>b, <2>1, <2>2, Crashed DEF Typed, TypeOK, Working
<1>8. CASE UNCHANGED vars
  BY <1>8, <1>b DEF vars, Typed, TypeOK, Working
<1> QED
  BY <1>1, <1>2, <1>3, <1>4, <1>5, <1>6, <1>7, <1>8, Steps

(***************************************************************************)
(* A place is given up by answering its request, and a new one is for a    *)
(* request nobody has: so requests stay in one place.                      *)
(***************************************************************************)
LEMMA PlacesNext ==
  ASSUME Base, [Next]_vars
  PROVE  Waits' /\ Apart'
<1>b. Typed /\ Waits /\ Apart
  BY DEF Base
<1>q. \A s \in Services : queue[s] \in Seq(Requests)
  BY <1>b, Facts
<1>1. CASE NetworkStep
  <2>1. UNCHANGED <<queue, job, client>>
    BY <1>1, <1>b, Networked DEF NetworkEffect
  <2> QED
    BY <2>1, <1>b DEF Waits, Apart, Working, Waiting
<1>2. ASSUME NEW leaf \in Leaves, NEW s \in Services, Post(leaf, s)
      PROVE  Waits' /\ Apart'
  <2>0. PICK n : n = Len(client) + 1
    OBVIOUS
  <2>1. /\ n \notin DOMAIN client /\ DOMAIN client' = DOMAIN client \cup {n}
        /\ client'[n].status = "waiting"
        /\ \A r \in DOMAIN client : client'[r] = client[r]
        /\ queue'[s] = Append(queue[s], n)
        /\ \A t \in Services : t # s => queue'[t] = queue[t]
        /\ UNCHANGED job
    BY <1>2, <1>b, <2>0, Posted
  <2>2. /\ DOMAIN queue'[s] = DOMAIN queue[s] \cup {Len(queue[s]) + 1}
        /\ Len(queue[s]) + 1 \notin DOMAIN queue[s]
        /\ queue'[s][Len(queue[s]) + 1] = n
        /\ \A i \in DOMAIN queue[s] : queue'[s][i] = queue[s][i]
    <3>1. ASSUME NEW q \in Seq(Requests)
          PROVE  /\ DOMAIN Append(q, n) = DOMAIN q \cup {Len(q) + 1}
                 /\ Len(q) + 1 \notin DOMAIN q
                 /\ Append(q, n)[Len(q) + 1] = n
                 /\ \A i \in DOMAIN q : Append(q, n)[i] = q[i]
      OBVIOUS
    <3> QED
      BY <1>q, <2>1, <3>1
  <2>3. \A r : Waiting(r) => Waiting(r)' /\ r # n
    BY <2>1 DEF Waiting
  <2>4. Waiting(n)'
    BY <2>1 DEF Waiting
  <2>5. \A t \in Services : Working(t)' = Working(t)
    BY <2>1 DEF Working
  <2>6. Waits'
    BY <1>b, <2>1, <2>2, <2>3, <2>4, <2>5 DEF Waits
  <2>7. \A t \in Services : \A i \in DOMAIN queue'[t] :
          \/ i \in DOMAIN queue[t] /\ queue'[t][i] = queue[t][i] /\ queue'[t][i] # n
          \/ t = s /\ i = Len(queue[s]) + 1 /\ queue'[t][i] = n
    BY <1>b, <2>1, <2>2, <2>3 DEF Waits
  <2>8. \A t \in Services : Working(t) => job[t].request # n
    BY <1>b, <2>3 DEF Waits
  <2>9. Apart'
    <3>1. \A t, u \in Services : \A i \in DOMAIN queue'[t], j \in DOMAIN queue'[u] :
            queue'[t][i] = queue'[u][j] => t = u /\ i = j
      BY <1>b, <2>7 DEF Apart
    <3>2. \A t, u \in Services : \A i \in DOMAIN queue'[t] :
            Working(u)' => queue'[t][i] # job'[u].request
      BY <1>b, <2>1, <2>5, <2>7, <2>8 DEF Apart
    <3>3. \A t, u \in Services :
            Working(t)' /\ Working(u)' /\ job'[t].request = job'[u].request => t = u
      BY <1>b, <2>1, <2>5 DEF Apart
    <3> QED
      BY <3>1, <3>2, <3>3 DEF Apart
  <2> QED
    BY <2>6, <2>9
<1>3. ASSUME NEW s \in Services, Start(s)
      PROVE  Waits' /\ Apart'
  <2>0. PICK r : r = Head(queue[s])
    OBVIOUS
  <2>1. /\ queue[s] # << >> /\ r = queue[s][1] /\ Waiting(r)
        /\ queue'[s] = Tail(queue[s])
        /\ \A t \in Services : t # s => queue'[t] = queue[t]
        /\ ~Working(s)
    BY <1>3, <1>b, <2>0, Started
  <2>2. \/ /\ UNCHANGED job
           /\ \E status \in {"duplicate", "full"} : Answer(r, status)
        \/ /\ UNCHANGED client
           /\ job' = [job EXCEPT ![s] = [step |-> "account", request |-> r,
                                         next |-> Append(file, client[r].leaf)]]
    BY <1>3, <1>b, <2>0, Started
  <2>3. /\ 1 \in DOMAIN queue[s]
        /\ \A i \in DOMAIN queue'[s] :
             /\ i + 1 \in DOMAIN queue[s] /\ i + 1 # 1 /\ i \in Nat
             /\ queue'[s][i] = queue[s][i + 1]
    <3>1. ASSUME NEW q \in Seq(Requests), q # << >>
          PROVE  /\ 1 \in DOMAIN q
                 /\ \A i \in DOMAIN Tail(q) :
                      /\ i + 1 \in DOMAIN q /\ i + 1 # 1 /\ i \in Nat
                      /\ Tail(q)[i] = q[i + 1]
      BY <3>1
    <3> QED
      BY <1>q, <2>1, <3>1
  <2>4. \A t \in Services : \A i \in DOMAIN queue'[t] :
          \E k \in DOMAIN queue[t] :
            /\ queue'[t][i] = queue[t][k] /\ (t = s => k = i + 1 /\ i \in Nat)
            /\ (t # s => k = i)
            /\ queue'[t][i] # r /\ Waiting(queue'[t][i])
    <3> SUFFICES ASSUME NEW t \in Services, NEW i \in DOMAIN queue'[t]
                 PROVE  \E k \in DOMAIN queue[t] :
                          /\ queue'[t][i] = queue[t][k]
                          /\ (t = s => k = i + 1 /\ i \in Nat) /\ (t # s => k = i)
                          /\ queue'[t][i] # r /\ Waiting(queue'[t][i])
      OBVIOUS
    <3>1. CASE t = s
      <4>1. /\ i + 1 \in DOMAIN queue[t] /\ i + 1 # 1 /\ i \in Nat
            /\ queue'[t][i] = queue[t][i + 1]
        BY <2>3, <3>1
      <4>2. queue[t][i + 1] # r
        BY <1>b, <2>1, <2>3, <3>1, <4>1 DEF Apart
      <4> QED
        BY <1>b, <3>1, <4>1, <4>2 DEF Waits
    <3>2. CASE t # s
      <4>1. queue'[t] = queue[t] /\ i \in DOMAIN queue[t]
        BY <2>1, <3>2
      <4>2. queue[t][i] # r
        BY <1>b, <2>1, <2>3, <3>2, <4>1 DEF Apart
      <4> QED
        BY <1>b, <3>2, <4>1, <4>2 DEF Waits
    <3> QED
      BY <3>1, <3>2
  <2>5. \A t, u \in Services : \A i \in DOMAIN queue'[t], j \in DOMAIN queue'[u] :
          queue'[t][i] = queue'[u][j] => t = u /\ i = j
    <3> SUFFICES ASSUME NEW t \in Services, NEW u \in Services,
                        NEW i \in DOMAIN queue'[t], NEW j \in DOMAIN queue'[u],
                        queue'[t][i] = queue'[u][j]
                 PROVE  t = u /\ i = j
      OBVIOUS
    <3>1. PICK k \in DOMAIN queue[t] :
            queue'[t][i] = queue[t][k] /\ (t = s => k = i + 1 /\ i \in Nat) /\ (t # s => k = i)
      BY <2>4
    <3>2. PICK l \in DOMAIN queue[u] :
            queue'[u][j] = queue[u][l] /\ (u = s => l = j + 1 /\ j \in Nat) /\ (u # s => l = j)
      BY <2>4
    <3>3. queue[t][k] = queue[u][l]
      BY <3>1, <3>2
    <3>4. t = u /\ k = l
      BY <1>b, <3>3 DEF Apart
    <3> QED
      BY <3>1, <3>2, <3>4
  <2>6. CASE UNCHANGED job /\ \E status \in {"duplicate", "full"} : Answer(r, status)
    <3>1. DOMAIN client' = DOMAIN client /\ \A q \in DOMAIN client : q # r => client'[q] = client[q]
      BY <1>b, <2>1, <2>6, Answered
    <3>2. \A q : Waiting(q) /\ q # r => Waiting(q)'
      BY <3>1 DEF Waiting
    <3>3. \A t \in Services : Working(t)' = Working(t) /\ job'[t] = job[t]
      BY <2>6 DEF Working
    <3>4. \A t \in Services : Working(t) => job[t].request # r
      BY <1>b, <2>1, <2>3 DEF Apart
    <3>5. Waits'
      BY <1>b, <2>4, <3>2, <3>3, <3>4 DEF Waits
    <3>6. \A t, u \in Services : \A i \in DOMAIN queue'[t] :
            Working(u)' => queue'[t][i] # job'[u].request
      BY <1>b, <2>4, <3>3 DEF Apart
    <3> QED
      BY <1>b, <2>5, <3>3, <3>5, <3>6 DEF Apart
  <2>7. CASE /\ UNCHANGED client
             /\ job' = [job EXCEPT ![s] = [step |-> "account", request |-> r,
                                           next |-> Append(file, client[r].leaf)]]
    <3>1. /\ job'[s].request = r /\ Working(s)'
          /\ \A t \in Services : t # s => job'[t] = job[t]
      BY <1>b, <2>7, Facts DEF Working
    <3>2. \A q : Waiting(q)' = Waiting(q)
      BY <2>7 DEF Waiting
    <3>3. \A t \in Services : t # s => Working(t)' = Working(t) /\ job'[t].request = job[t].request
      BY <3>1 DEF Working
    <3>4. \A t \in Services : Working(t) => job[t].request # r
      BY <1>b, <2>1, <2>3 DEF Apart
    <3>5. Waits'
      BY <1>b, <2>1, <2>4, <3>1, <3>2, <3>3 DEF Waits
    <3>6. \A t, u \in Services : \A i \in DOMAIN queue'[t] :
            Working(u)' => queue'[t][i] # job'[u].request
      BY <1>b, <2>4, <3>1, <3>3 DEF Apart
    <3>7. \A t, u \in Services :
            Working(t)' /\ Working(u)' /\ job'[t].request = job'[u].request => t = u
      BY <1>b, <3>1, <3>3, <3>4 DEF Apart
    <3> QED
      BY <2>5, <3>5, <3>6, <3>7 DEF Apart
  <2> QED
    BY <2>2, <2>6, <2>7
<1>4. ASSUME NEW s \in Services,
             GetAccount(s) \/ Send(s) \/ Poll(s) \/ ReadInfo(s) \/ Save(s)
      PROVE  Waits' /\ Apart'
  <2>1. /\ Working(s) /\ Working(s)' /\ job'[s].request = job[s].request
        /\ \A t \in Services : t # s => job'[t] = job[t]
        /\ UNCHANGED <<queue, client>>
    BY <1>4, <1>b, WentOn
  <2>2. \A t \in Services : Working(t)' = Working(t) /\ job'[t].request = job[t].request
    BY <2>1 DEF Working
  <2> QED
    BY <1>b, <2>1, <2>2 DEF Waits, Apart, Waiting
<1>5. ASSUME NEW s \in Services, Working(s), job'[s].step = "none", UNCHANGED queue,
             \A t \in Services : t # s => job'[t] = job[t],
             DOMAIN client' = DOMAIN client,
             \A q \in DOMAIN client : q # job[s].request => client'[q] = client[q]
      PROVE  Waits' /\ Apart'
  <2>1. \A t \in Services : Working(t)' => Working(t) /\ t # s /\ job'[t] = job[t]
    BY <1>5 DEF Working
  <2>2. \A q : Waiting(q) /\ q # job[s].request => Waiting(q)'
    BY <1>5 DEF Waiting
  <2>3. \A t \in Services : \A i \in DOMAIN queue[t] : queue[t][i] # job[s].request
    BY <1>b, <1>5 DEF Apart
  <2>4. \A t \in Services : Working(t)' => job[t].request # job[s].request
    BY <1>b, <1>5, <2>1 DEF Apart
  <2> QED
    BY <1>b, <1>5, <2>1, <2>2, <2>3, <2>4 DEF Waits, Apart
<1>6. ASSUME NEW s \in Services, Reply(s)
      PROVE  Waits' /\ Apart'
  BY <1>b, <1>5, <1>6, Replied
<1>7. ASSUME NEW s \in Services, Fail(s)
      PROVE  Waits' /\ Apart'
  <2>1. /\ Working(s) /\ Waiting(job[s].request) /\ Answer(job[s].request, "failed")
        /\ job'[s].step = "none" /\ UNCHANGED queue
        /\ \A t \in Services : t # s => job'[t] = job[t]
    BY <1>b, <1>7, Failed
  <2>2. /\ DOMAIN client' = DOMAIN client
        /\ \A q \in DOMAIN client : q # job[s].request => client'[q] = client[q]
    BY <1>b, <2>1, Answered
  <2> QED
    BY <1>5, <2>1, <2>2
<1>8. CASE Crash
  BY <1>8, <1>b, Crashed DEF Waits, Apart
<1>9. CASE UNCHANGED vars
  BY <1>9, <1>b DEF vars, Waits, Apart, Working, Waiting
<1> QED
  BY <1>1, <1>2, <1>3, <1>4, <1>6, <1>7, <1>8, <1>9, Steps

(***************************************************************************)
(* The types of POST /accredit hold for any set of services.               *)
(***************************************************************************)
THEOREM TypeCorrect == Spec => []TypeOK
<1>1. Init => Base
  BY BaseInit
<1>2. Base /\ [Next]_vars => Base'
  BY TypedNext, PlacesNext DEF Base
<1>3. Base => TypeOK
  BY DEF Base, Typed
<1> QED
  BY <1>1, <1>2, <1>3, PTL DEF Spec

-----------------------------------------------------------------------------
(***************************************************************************)
(* What one service keeps.  A request that has not been sent is nowhere on *)
(* the chain or the network; the numbers of unsettled transactions are     *)
(* used up once a job's own has landed; a job works on the file and on     *)
(* nothing else; and between its commit and its reply only the issuer's    *)
(* console commits.                                                        *)
(***************************************************************************)
Quiet(r) ==
  /\ \A tx \in pending : tx.by # r
  /\ \A e \in DOMAIN chain.history : chain.history[e].by # r

Unsent(s) == job[s].step \in {"account", "send"}

Sent ==
  /\ \A tx \in pending : tx.by \in DOMAIN client
  /\ \A tx, ux \in pending : tx.by = ux.by => tx = ux
  /\ \A e \in DOMAIN chain.history : chain.history[e].by \in DOMAIN client \cup {Outside}
  /\ \A s \in Services : \A i \in DOMAIN queue[s] : Quiet(queue[s][i])
  /\ \A s \in Services : Unsent(s) => Quiet(job[s].request)

Numbered ==
  /\ \A tx \in pending : tx.seq <= chain.seq + 1
  /\ \A s \in Services : job[s].step = "send" => job[s].seq <= chain.seq + 1
  /\ \A s \in Services :
       Working(s) /\ Landed(job[s].request) => \A tx \in pending : tx.seq <= chain.seq
  /\ \A s \in Services :
       job[s].step \in {"info", "save", "reply"} => Landed(job[s].request)

Works ==
  \A s \in Services : Working(s) =>
    /\ job[s].step # "reply" => job[s].next = Append(file, client[job[s].request].leaf)
    /\ job[s].step = "reply" =>
         /\ job[s].next = file
         /\ file[Len(file)] = client[job[s].request].leaf
    /\ \A tx \in pending : tx.by = job[s].request => tx.leaves = job[s].next
    /\ \A e \in DOMAIN chain.history :
         chain.history[e].by = job[s].request => chain.history[e].leaves = job[s].next

Holding ==
  \A tx \in pending : tx.seq = chain.seq + 1 =>
    \A r \in Accredited : client[r].leaf \in Range(tx.leaves)

CommittedUpTo(leaves, r, n) ==
  /\ n \in 1..Len(chain.history)
  /\ \E e \in 1..n :
       /\ chain.history[e] = [leaves |-> leaves, by |-> r]
       /\ \A later \in (e + 1)..n : chain.history[later].by = Outside

Committed ==
  /\ \A s \in Services :
       job[s].step \in {"poll", "info"} /\ Landed(job[s].request)
         => CommittedUpTo(job[s].next, job[s].request, Len(chain.history))
  /\ \A s \in Services :
       job[s].step \in {"save", "reply"}
         => CommittedUpTo(job[s].next, job[s].request, job[s].epoch + 1)
  /\ \A r \in Accredited : CommittedUpTo(client[r].root, r, client[r].epoch + 1)

IInv ==
  /\ Base /\ Sent /\ Numbered /\ Works
  /\ AcknowledgedStaysFiled /\ Holding /\ Committed /\ FileWasCommitted

OneService == \E s : Services = {s}

(***************************************************************************)
(* Which transactions wait after a step of a service: those before it, and *)
(* at most the one it sends, whether or not it learns of that.             *)
(***************************************************************************)
Sending(s) ==
  /\ job[s].step = "send" /\ job[s].seq = chain.seq + 1
  /\ pending' = pending \cup {Signed(s)}

LEMMA Sends ==
  ASSUME Base, NEW s \in Services, Send(s) \/ Fail(s)
  PROVE  /\ UNCHANGED <<chain, file, queue, crashes>>
         /\ UNCHANGED pending \/ Sending(s)
         /\ Working(s) /\ Waiting(job[s].request) /\ job[s].request \in Requests
         /\ job'[s].step \in {"poll", "none"}
         /\ \A t \in Services : t # s => job'[t] = job[t]
         /\ DOMAIN client' = DOMAIN client
<1>b. Typed /\ Waits
  BY DEF Base
<1>1. CASE Send(s)
  <2>1. /\ Working(s) /\ job[s].step = "send" /\ job'[s].step = "poll"
        /\ \A t \in Services : t # s => job'[t] = job[t]
        /\ UNCHANGED <<chain, file, queue, client, crashes>>
    <3>1. job[s].step = "send"
      BY <1>1 DEF Send
    <3> QED
      BY <3>1, <1>1, <1>b, WentOn
  <2>2. UNCHANGED pending \/ Sending(s)
    BY <1>1 DEF Send, Sending
  <2>3. Waiting(job[s].request)
    BY <2>1, <1>b DEF Waits
  <2>4. job[s].request \in Requests
    BY <2>1, <1>b, JobIs
  <2> QED
    BY <2>1, <2>2, <2>3, <2>4
<1>2. CASE Fail(s)
  <2>1. /\ Working(s) /\ Waiting(job[s].request) /\ Answer(job[s].request, "failed")
        /\ job'[s].step = "none"
        /\ \A t \in Services : t # s => job'[t] = job[t]
        /\ UNCHANGED <<chain, file, queue, crashes>>
        /\ UNCHANGED pending \/ Sending(s)
    BY <1>2, <1>b, Failed DEF Sending
  <2>2. DOMAIN client' = DOMAIN client
    BY <1>b, <2>1, Answered
  <2>3. job[s].request \in Requests
    BY <2>1, <1>b, JobIs
  <2> QED
    BY <2>1, <2>2, <2>3
<1> QED
  BY <1>1, <1>2

LEMMA Grew ==
  ASSUME Base, NetworkStep
  PROVE  /\ UNCHANGED <<file, queue, job, client, crashes>>
         /\ pending' \subseteq pending
         /\ Len(chain.history) \in Nat \ {0} /\ DOMAIN chain.history = 1..Len(chain.history)
         /\ Len(chain'.history) \in Nat /\ DOMAIN chain'.history = 1..Len(chain'.history)
         /\ chain.seq \in Nat
         /\ \/ chain'.history = chain.history /\ chain'.seq \in {chain.seq, chain.seq + 1}
            \/ /\ Len(chain'.history) = Len(chain.history) + 1
               /\ chain'.seq = chain.seq + 1
               /\ \A e \in DOMAIN chain.history : chain'.history[e] = chain.history[e]
               /\ \/ chain'.history[Len(chain.history) + 1].by = Outside
                  \/ \E tx \in pending :
                       /\ tx.seq = chain.seq + 1 /\ pending' = pending \ {tx}
                       /\ chain'.history[Len(chain.history) + 1]
                            = [leaves |-> tx.leaves, by |-> tx.by]
                       /\ chain'.history[Len(chain.history) + 1].by = tx.by
                       /\ chain'.history[Len(chain.history) + 1].leaves = tx.leaves
<1>b. Typed
  BY DEF Base
<1>1. NetworkEffect
  BY <1>b, Networked
<1>2. /\ Len(chain.history) \in Nat \ {0} /\ DOMAIN chain.history = 1..Len(chain.history)
      /\ chain.seq \in Nat
  BY <1>b, Facts
<1>3. Len(chain'.history) \in Nat /\ DOMAIN chain'.history = 1..Len(chain'.history)
  <2> DEFINE h == chain'.history
  <2>1. h \in Seq([leaves : Rosters, by : Requests \cup {Outside}])
    BY <1>1 DEF NetworkEffect
  <2> HIDE DEF h
  <2>2. Len(h) \in Nat /\ DOMAIN h = 1..Len(h)
    BY <2>1
  <2> QED
    BY <2>2 DEF h
<1>4. ASSUME NEW new, NEW tx, new = [leaves |-> tx.leaves, by |-> tx.by]
      PROVE  new.by = tx.by /\ new.leaves = tx.leaves
  BY <1>4
<1>5. ASSUME NEW tx \in pending,
             chain'.history[Len(chain.history) + 1] = [leaves |-> tx.leaves, by |-> tx.by]
      PROVE  /\ chain'.history[Len(chain.history) + 1].by = tx.by
             /\ chain'.history[Len(chain.history) + 1].leaves = tx.leaves
  BY <1>4, <1>5, Zenon
<1>6. CASE chain'.history = chain.history
  BY <1>1, <1>2, <1>3, <1>6 DEF NetworkEffect
<1>7. CASE chain'.history # chain.history
  <2>1. /\ Len(chain'.history) = Len(chain.history) + 1
        /\ \A e \in DOMAIN chain.history : chain'.history[e] = chain.history[e]
        /\ chain'.seq = chain.seq + 1
    BY <1>1, <1>2, <1>7 DEF NetworkEffect
  <2>2. \/ chain'.history[Len(chain.history) + 1].by = Outside
        \/ \E tx \in pending :
             /\ tx.seq = chain.seq + 1 /\ pending' = pending \ {tx}
             /\ chain'.history[Len(chain.history) + 1]
                  = [leaves |-> tx.leaves, by |-> tx.by]
    BY <1>1, <1>7, Zenon DEF NetworkEffect
  <2>3. \/ chain'.history[Len(chain.history) + 1].by = Outside
        \/ \E tx \in pending :
             /\ tx.seq = chain.seq + 1 /\ pending' = pending \ {tx}
             /\ chain'.history[Len(chain.history) + 1]
                  = [leaves |-> tx.leaves, by |-> tx.by]
             /\ chain'.history[Len(chain.history) + 1].by = tx.by
             /\ chain'.history[Len(chain.history) + 1].leaves = tx.leaves
    BY <2>2, <1>5, Zenon
  <2>4. UNCHANGED <<file, queue, job, client, crashes>> /\ pending' \subseteq pending
    BY <1>1 DEF NetworkEffect
  <2> QED
    BY <1>2, <1>3, <2>1, <2>3, <2>4, Zenon
<1> QED
  BY <1>6, <1>7

LEMMA QuietKept ==
  ASSUME UNCHANGED <<chain, pending>>
  PROVE  \A r : Quiet(r)' = Quiet(r) /\ Landed(r)' = Landed(r)
  BY DEF Quiet, Landed

(***************************************************************************)
(* A request is sent once, and only while its job runs.                    *)
(***************************************************************************)
LEMMA SentNext ==
  ASSUME Base, Sent, [Next]_vars
  PROVE  Sent'
<1>b. Typed /\ Waits /\ Apart
  BY DEF Base
<1>f. /\ DOMAIN client = 1..Len(client) /\ DOMAIN client \subseteq Requests
      /\ Outside \notin Requests /\ Len(client) \in Nat
  BY <1>b, Facts, BoundAssumption DEF Requests, Outside
<1>1. CASE NetworkStep
  <2>1. UNCHANGED <<queue, job, client>> /\ pending' \subseteq pending
    BY <1>1, Grew
  <2>2. \A e \in DOMAIN chain'.history :
          \/ e \in DOMAIN chain.history /\ chain'.history[e] = chain.history[e]
          \/ chain'.history[e].by = Outside
          \/ \E tx \in pending : chain'.history[e].by = tx.by
    <3> DEFINE n == Len(chain.history)
               m == Len(chain'.history)
    <3>1. /\ n \in Nat /\ m \in Nat
          /\ DOMAIN chain.history = 1..n /\ DOMAIN chain'.history = 1..m
          /\ \/ chain'.history = chain.history
             \/ /\ m = n + 1
                /\ \A e \in DOMAIN chain.history : chain'.history[e] = chain.history[e]
                /\ \/ chain'.history[n + 1].by = Outside
                   \/ \E tx \in pending : chain'.history[n + 1].by = tx.by
      BY <1>1, Grew
    <3> HIDE DEF n, m
    <3> QED
      BY <3>1
  <2>3. \A r \in Requests : Quiet(r) => Quiet(r)'
    BY <1>f, <2>1, <2>2 DEF Quiet
  <2>4. \A t \in Services : \A i \in DOMAIN queue[t] : queue[t][i] \in Requests
    BY <1>b, <1>f DEF Waits, Waiting
  <2>5. \A t \in Services : Unsent(t) => job[t].request \in Requests
    BY <1>b, JobIs DEF Unsent, Working
  <2>6. \A e \in DOMAIN chain'.history : chain'.history[e].by \in DOMAIN client \cup {Outside}
    BY <2>2 DEF Sent
  <2> QED
    BY <2>1, <2>3, <2>4, <2>5, <2>6 DEF Sent, Unsent
<1>2. ASSUME NEW leaf \in Leaves, NEW s \in Services, Post(leaf, s)
      PROVE  Sent'
  <2>0. PICK n : n = Len(client) + 1
    OBVIOUS
  <2>1. /\ n \notin DOMAIN client /\ DOMAIN client' = DOMAIN client \cup {n}
        /\ n \in Requests
        /\ queue'[s] = Append(queue[s], n)
        /\ \A t \in Services : t # s => queue'[t] = queue[t]
        /\ UNCHANGED <<chain, pending, job>>
    BY <1>2, <1>b, <2>0, Posted
  <2>2. Quiet(n)
    BY <1>f, <2>1 DEF Sent, Quiet
  <2>3. \A r : Quiet(r)' = Quiet(r)
    BY <2>1, QuietKept
  <2>4. \A i \in DOMAIN queue'[s] :
          queue'[s][i] = n \/ (i \in DOMAIN queue[s] /\ queue'[s][i] = queue[s][i])
    <3>1. queue[s] \in Seq(Requests)
      BY <1>b, Facts
    <3>2. ASSUME NEW q \in Seq(Requests), NEW i \in DOMAIN Append(q, n)
          PROVE  Append(q, n)[i] = n \/ (i \in DOMAIN q /\ Append(q, n)[i] = q[i])
      OBVIOUS
    <3> QED
      BY <2>1, <3>1, <3>2
  <2>5. \A t \in Services : \A i \in DOMAIN queue'[t] : Quiet(queue'[t][i])
    BY <2>1, <2>2, <2>4 DEF Sent
  <2> QED
    BY <2>1, <2>3, <2>5 DEF Sent, Unsent
<1>3. ASSUME NEW s \in Services, Start(s)
      PROVE  Sent'
  <2>0. PICK r : r = Head(queue[s])
    OBVIOUS
  <2>1. /\ queue[s] # << >> /\ r = queue[s][1] /\ Waiting(r)
        /\ queue'[s] = Tail(queue[s])
        /\ \A t \in Services : t # s => queue'[t] = queue[t]
        /\ UNCHANGED <<chain, pending>>
        /\ \/ /\ UNCHANGED job
              /\ \E status \in {"duplicate", "full"} : Answer(r, status)
           \/ /\ UNCHANGED client
              /\ job' = [job EXCEPT ![s] = [step |-> "account", request |-> r,
                                            next |-> Append(file, client[r].leaf)]]
    BY <1>3, <1>b, <2>0, Started
  <2>2. /\ 1 \in DOMAIN queue[s]
        /\ \A i \in DOMAIN queue'[s] :
             i + 1 \in DOMAIN queue[s] /\ queue'[s][i] = queue[s][i + 1]
    <3>1. queue[s] \in Seq(Requests)
      BY <1>b, Facts
    <3>2. ASSUME NEW q \in Seq(Requests), q # << >>
          PROVE  /\ 1 \in DOMAIN q
                 /\ \A i \in DOMAIN Tail(q) : i + 1 \in DOMAIN q /\ Tail(q)[i] = q[i + 1]
      BY <3>2
    <3> QED
      BY <2>1, <3>1, <3>2
  <2>3. Quiet(r)
    BY <2>1, <2>2 DEF Sent
  <2>4. \A q : Quiet(q)' = Quiet(q)
    BY <2>1, QuietKept
  <2>5. \A t \in Services : \A i \in DOMAIN queue'[t] : Quiet(queue'[t][i])
    <3> TAKE t \in Services
    <3>1. CASE t = s
      BY <2>2, <3>1 DEF Sent
    <3>2. CASE t # s
      BY <2>1, <3>2 DEF Sent
    <3> QED
      BY <3>1, <3>2
  <2>6. DOMAIN client' = DOMAIN client
    BY <1>b, <2>1, Answered
  <2>7. \A t \in Services : Unsent(t)' => Quiet(job'[t].request)
    <3>1. ASSUME UNCHANGED job PROVE \A t \in Services : Unsent(t)' => Quiet(job'[t].request)
      BY <3>1 DEF Sent, Unsent
    <3>2. ASSUME job' = [job EXCEPT ![s] = [step |-> "account", request |-> r,
                                            next |-> Append(file, client[r].leaf)]]
          PROVE  \A t \in Services : Unsent(t)' => Quiet(job'[t].request)
      <4>1. job'[s].request = r /\ \A t \in Services : t # s => job'[t] = job[t]
        BY <1>b, <3>2, Facts
      <4> QED
        BY <2>3, <4>1 DEF Sent, Unsent
    <3> QED
      BY <2>1, <3>1, <3>2
  <2> QED
    BY <2>1, <2>4, <2>5, <2>6, <2>7 DEF Sent
<1>4. ASSUME NEW s \in Services, Send(s) \/ Fail(s)
      PROVE  Sent'
  <2> DEFINE r == job[s].request
  <2>1. /\ UNCHANGED <<chain, queue>>
        /\ UNCHANGED pending \/ Sending(s)
        /\ Working(s) /\ Waiting(r) /\ r \in Requests
        /\ job'[s].step \in {"poll", "none"}
        /\ \A t \in Services : t # s => job'[t] = job[t]
        /\ DOMAIN client' = DOMAIN client
    BY <1>4, Sends
  <2>2. \A t \in Services : Unsent(t)' => t # s /\ Unsent(t) /\ job'[t] = job[t]
    BY <2>1 DEF Unsent
  <2>3. CASE UNCHANGED pending
    <3>1. \A q : Quiet(q)' = Quiet(q)
      BY <2>1, <2>3, QuietKept
    <3> QED
      BY <2>1, <2>2, <2>3, <3>1 DEF Sent
  <2>4. CASE Sending(s)
    <3>1. Quiet(r)
      BY <2>4 DEF Sent, Unsent, Sending
    <3>2. PICK new : new = Signed(s) /\ new.by = r /\ pending' = pending \cup {new}
      BY <2>4 DEF Sending, Signed
    <3> HIDE DEF r
    <3>3. \A q : Quiet(q) /\ q # r => Quiet(q)'
      BY <2>1, <3>2 DEF Quiet
    <3>4. \A t \in Services : \A i \in DOMAIN queue[t] : queue[t][i] # r
      BY <1>b, <2>1 DEF Apart, r
    <3>5. \A t \in Services : Unsent(t)' => job'[t].request # r
      BY <1>b, <2>1, <2>2 DEF Apart, r, Unsent, Working
    <3>6. \A tx \in pending' : tx.by \in DOMAIN client'
      BY <2>1, <3>2 DEF Sent, Waiting
    <3>7. \A tx, ux \in pending' : tx.by = ux.by => tx = ux
      BY <3>1, <3>2 DEF Sent, Quiet
    <3> QED
      BY <2>1, <2>2, <3>3, <3>4, <3>5, <3>6, <3>7 DEF Sent
  <2> QED
    BY <2>1, <2>3, <2>4
<1>5. ASSUME NEW s \in Services,
             GetAccount(s) \/ Poll(s) \/ ReadInfo(s) \/ Save(s)
      PROVE  Sent'
  <2>1. /\ Working(s) /\ job'[s].request = job[s].request
        /\ \A t \in Services : t # s => job'[t] = job[t]
        /\ UNCHANGED <<chain, queue, client>>
    BY <1>5, <1>b, WentOn
  <2>2. UNCHANGED pending /\ (Unsent(s)' => Unsent(s))
    BY <1>5, <1>b, WentOn DEF Unsent, Poll, PollSucceeds, ReadInfo, Save, GetAccount
  <2>3. \A q : Quiet(q)' = Quiet(q)
    BY <2>1, <2>2, QuietKept
  <2>4. \A t \in Services : Unsent(t)' => Unsent(t) /\ job'[t].request = job[t].request
    BY <2>1, <2>2 DEF Unsent
  <2> QED
    BY <2>1, <2>2, <2>3, <2>4 DEF Sent
<1>6. ASSUME NEW s \in Services, Reply(s)
      PROVE  Sent'
  <2>1. /\ job'[s].step = "none" /\ UNCHANGED <<chain, pending, queue>>
        /\ \A t \in Services : t # s => job'[t] = job[t]
        /\ DOMAIN client' = DOMAIN client
    BY <1>6, <1>b, Replied
  <2>2. \A q : Quiet(q)' = Quiet(q)
    BY <2>1, QuietKept
  <2>3. \A t \in Services : Unsent(t)' => Unsent(t) /\ job'[t].request = job[t].request
    BY <2>1 DEF Unsent
  <2> QED
    BY <2>1, <2>2, <2>3 DEF Sent
<1>7. CASE Crash
  <2>1. /\ DOMAIN client' = DOMAIN client /\ UNCHANGED <<chain, pending>>
        /\ \A s \in Services : ~Working(s)' /\ DOMAIN queue'[s] = {}
    BY <1>7, <1>b, Crashed
  <2> QED
    BY <2>1 DEF Sent, Unsent, Working
<1>8. CASE UNCHANGED vars
  <2>1. \A q : Quiet(q)' = Quiet(q)
    BY <1>8, QuietKept DEF vars
  <2> QED
    BY <1>8, <2>1 DEF vars, Sent, Unsent
<1> QED
  BY <1>1, <1>2, <1>3, <1>4, <1>5, <1>6, <1>7, <1>8, Steps

LEMMA StaysLanded ==
  ASSUME Base, NetworkStep
  PROVE  /\ \A r : Landed(r) => Landed(r)'
         /\ \A r : Landed(r)' /\ chain'.history = chain.history => Landed(r)
<1> DEFINE n == Len(chain.history)
           m == Len(chain'.history)
<1>1. /\ n \in Nat /\ m \in Nat
      /\ DOMAIN chain.history = 1..n /\ DOMAIN chain'.history = 1..m
      /\ \/ chain'.history = chain.history
         \/ /\ m = n + 1
            /\ \A e \in DOMAIN chain.history : chain'.history[e] = chain.history[e]
  BY Grew
<1> HIDE DEF n, m
<1> QED
  BY <1>1 DEF Landed

(***************************************************************************)
(* Once a job's own transaction has landed no other can: their numbers are *)
(* used up, and the one service sends the next only after this job.        *)
(***************************************************************************)
LEMMA NumberedNext ==
  ASSUME OneService, Base, Sent, Sent', Numbered, [Next]_vars
  PROVE  Numbered'
<1>b. Typed /\ Waits
  BY DEF Base
<1>t. /\ chain.seq \in Nat /\ \A tx \in pending : tx.seq \in Nat
      /\ \A t \in Services : job[t].step = "send" => job[t].seq \in Nat
  BY <1>b, Facts, JobIs DEF Transactions, Working
<1>n. \A t \in Services : Unsent(t) => ~Landed(job[t].request)
  BY DEF Sent, Quiet, Landed
<1>n2. \A t \in Services : Unsent(t)' => ~Landed(job[t].request)'
  BY DEF Sent, Quiet, Landed
<1>1. CASE NetworkStep
  <2>1. /\ UNCHANGED job /\ pending' \subseteq pending
        /\ chain'.seq \in {chain.seq, chain.seq + 1}
        /\ chain'.history = chain.history \/ chain'.seq = chain.seq + 1
    BY <1>1, Grew
  <2>2. \A t \in Services : Working(t)' = Working(t)
    BY <2>1 DEF Working
  <2>3. \A tx \in pending' : tx.seq <= chain'.seq + 1
    BY <1>t, <2>1 DEF Numbered
  <2>4. \A t \in Services : job'[t].step = "send" => job'[t].seq <= chain'.seq + 1
    BY <1>t, <2>1 DEF Numbered
  <2>5. \A t \in Services :
          Working(t) /\ Landed(job[t].request)' => \A tx \in pending' : tx.seq <= chain'.seq
    <3> SUFFICES ASSUME NEW t \in Services, Working(t), Landed(job[t].request)',
                        NEW tx \in pending'
                 PROVE  tx.seq <= chain'.seq
      BY <2>1
    <3>1. CASE chain'.seq = chain.seq + 1
      BY <1>t, <2>1, <3>1 DEF Numbered
    <3>2. CASE chain'.history = chain.history
      <4>1. Landed(job[t].request)
        BY <2>1, <3>2 DEF Landed
      <4>2. tx.seq <= chain.seq
        BY <2>1, <4>1 DEF Numbered
      <4> QED
        BY <1>t, <2>1, <4>2
    <3> QED
      BY <2>1, <3>1, <3>2
  <2>6. \A t \in Services :
          job[t].step \in {"info", "save", "reply"} => Landed(job[t].request)'
    BY <1>1, <2>1, StaysLanded DEF Numbered
  <2> QED
    BY <2>1, <2>2, <2>3, <2>4, <2>5, <2>6 DEF Numbered
<1>2. ASSUME NEW s \in Services, Services = {s}, Send(s) \/ Fail(s)
      PROVE  Numbered'
  <2>1. /\ UNCHANGED chain
        /\ UNCHANGED pending \/ Sending(s)
        /\ Working(s) /\ job'[s].step \in {"poll", "none"}
    BY <1>2, Sends
  <2>2. \A tx \in pending' : tx.seq <= chain.seq + 1
    <3>1. CASE UNCHANGED pending
      BY <3>1 DEF Numbered
    <3>2. CASE Sending(s)
      <4>1. Signed(s).seq = chain.seq + 1
        BY <3>2 DEF Sending, Signed
      <4> QED
        BY <1>t, <3>2, <4>1 DEF Sending, Numbered
    <3> QED
      BY <2>1, <3>1, <3>2
  <2>3. Working(s)' /\ Landed(job'[s].request) => \A tx \in pending' : tx.seq <= chain.seq
    <3> SUFFICES ASSUME Working(s)', Landed(job'[s].request)
                 PROVE  \A tx \in pending' : tx.seq <= chain.seq
      OBVIOUS
    <3>1. job[s].step = "send" /\ job'[s].request = job[s].request
      <4>1. job'[s].step # "none"
        BY DEF Working
      <4>2. Send(s)
        BY <1>2, <1>b, <4>1, Failed
      <4> QED
        BY <4>2, <1>b, WentOn DEF Send
    <3>2. ~Landed(job[s].request)
      BY <1>n, <3>1 DEF Unsent
    <3> QED
      BY <3>1, <3>2
  <2> QED
    BY <1>2, <2>1, <2>2, <2>3 DEF Numbered, Landed, Working
<1>3. ASSUME NEW s \in Services, Services = {s}, UNCHANGED <<chain, pending>>,
             \/ ~Working(s)' \/ Unsent(s)'
             \/ UNCHANGED job
             \/ /\ Working(s) /\ job'[s].request = job[s].request
                /\ Landed(job[s].request) /\ job'[s].step # "send",
             job'[s].step = "send" => UNCHANGED job \/ job'[s].seq = chain.seq + 1
      PROVE  Numbered'
  <2>1. job'[s].step = "send" => job'[s].seq <= chain.seq + 1
    BY <1>t, <1>3 DEF Numbered
  <2>2. Working(s)' /\ Landed(job'[s].request) => \A tx \in pending : tx.seq <= chain.seq
    <3>1. \A r : Landed(r)' = Landed(r)
      BY <1>3, QuietKept
    <3> QED
      BY <1>3, <1>n2, <3>1 DEF Numbered, Working, Unsent
  <2>3. job'[s].step \in {"info", "save", "reply"} => Landed(job'[s].request)
    BY <1>3 DEF Numbered, Working, Unsent
  <2> QED
    BY <1>3, <2>1, <2>2, <2>3 DEF Numbered, Landed, Working
<1>4. ASSUME NEW s \in Services, Services = {s},
             \/ \E leaf \in Leaves : Post(leaf, s)
             \/ Start(s) \/ GetAccount(s) \/ Poll(s) \/ ReadInfo(s) \/ Save(s) \/ Reply(s)
             \/ Crash
      PROVE  Numbered'
  <2>1. ASSUME NEW leaf \in Leaves, Post(leaf, s) PROVE Numbered'
    <3>1. UNCHANGED <<chain, pending, job>>
      BY <2>1 DEF Post
    <3> QED
      BY <3>1, <1>3, <1>4
  <2>2. CASE Start(s)
    <3>1. UNCHANGED <<chain, pending>>
      BY <2>2 DEF Start
    <3>2. UNCHANGED job \/ job'[s].step = "account"
      BY <1>b, <2>2, Facts DEF Start
    <3> QED
      BY <3>1, <3>2, <1>3, <1>4 DEF Unsent
  <2>3. CASE GetAccount(s)
    BY <2>3, <1>b, <1>3, <1>4, WentOn DEF Unsent, GetAccount
  <2>4. CASE Poll(s)
    BY <2>4, <1>b, <1>3, <1>4, WentOn DEF Poll, PollSucceeds
  <2>5. CASE ReadInfo(s) \/ Save(s)
    <3>1. job[s].step \in {"info", "save"} /\ UNCHANGED <<chain, pending>>
      BY <2>5 DEF ReadInfo, Save
    <3>2. /\ Working(s) /\ job'[s].request = job[s].request
          /\ job'[s].step \in {"save", "reply"}
      BY <2>5, <3>1, <1>b, WentOn
    <3>3. Landed(job[s].request)
      BY <3>1 DEF Numbered
    <3> QED
      BY <3>1, <3>2, <3>3, <1>3, <1>4
  <2>6. CASE Reply(s)
    BY <2>6, <1>b, <1>3, <1>4, Replied DEF Working
  <2>7. CASE Crash
    BY <2>7, <1>b, <1>3, <1>4, Crashed DEF Working
  <2> QED
    BY <1>4, <2>1, <2>2, <2>3, <2>4, <2>5, <2>6, <2>7
<1>5. CASE UNCHANGED vars
  BY <1>5 DEF vars, Numbered, Landed, Working
<1>6. PICK s : Services = {s} /\ s \in Services
  BY DEF OneService
<1> QED
  BY <1>1, <1>2, <1>4, <1>5, <1>6, Steps

(***************************************************************************)
(* Only a reply adds to the accredited, and nothing takes from them.       *)
(***************************************************************************)
SameAccredited ==
  Accredited' = Accredited /\ \A r \in Accredited : client'[r] = client[r]

LEMMA AccreditedKept ==
  ASSUME Base, [Next]_vars, ~ \E s \in Services : Reply(s)
  PROVE  SameAccredited
<1>b. Typed /\ Waits
  BY DEF Base
<1>a. ASSUME NEW r, Waiting(r), NEW status \in {"duplicate", "full", "failed"}, Answer(r, status)
      PROVE  SameAccredited
  <2>1. /\ DOMAIN client' = DOMAIN client /\ client'[r].status = status
        /\ \A q \in DOMAIN client : q # r => client'[q] = client[q]
    BY <1>a, <1>b, Answered
  <2> QED
    BY <1>a, <2>1 DEF SameAccredited, Accredited, Waiting
<1>u. ASSUME UNCHANGED client PROVE SameAccredited
  BY <1>u DEF SameAccredited, Accredited
<1>1. CASE NetworkStep
  BY <1>1, <1>u, Grew
<1>2. ASSUME NEW leaf \in Leaves, NEW s \in Services, Post(leaf, s)
      PROVE  SameAccredited
  <2>0. PICK n : n = Len(client) + 1
    OBVIOUS
  <2>1. /\ n \notin DOMAIN client /\ DOMAIN client' = DOMAIN client \cup {n}
        /\ client'[n].status = "waiting"
        /\ \A r \in DOMAIN client : client'[r] = client[r]
    BY <1>2, <1>b, <2>0, Posted
  <2> QED
    BY <2>1 DEF SameAccredited, Accredited
<1>3. ASSUME NEW s \in Services, Start(s)
      PROVE  SameAccredited
  <2>0. PICK r : r = Head(queue[s])
    OBVIOUS
  <2>1. /\ Waiting(r)
        /\ \/ UNCHANGED client
           \/ \E status \in {"duplicate", "full"} : Answer(r, status)
    BY <1>3, <1>b, <2>0, Started
  <2> QED
    BY <2>1, <1>a, <1>u
<1>4. ASSUME NEW s \in Services,
             GetAccount(s) \/ Send(s) \/ Poll(s) \/ ReadInfo(s) \/ Save(s)
      PROVE  SameAccredited
  BY <1>4, <1>b, <1>u, WentOn
<1>5. ASSUME NEW s \in Services, Fail(s)
      PROVE  SameAccredited
  BY <1>5, <1>a, <1>b, Failed
<1>6. CASE Crash
  <2>1. /\ DOMAIN client' = DOMAIN client
        /\ \A r \in DOMAIN client :
             \/ client'[r] = client[r] /\ client[r].status # "waiting"
             \/ client'[r].status = "lost" /\ client[r].status = "waiting"
    BY <1>6, <1>b, Crashed
  <2> QED
    BY <2>1 DEF SameAccredited, Accredited
<1>7. CASE UNCHANGED vars
  BY <1>7, <1>u DEF vars
<1> QED
  BY <1>1, <1>2, <1>3, <1>4, <1>5, <1>6, <1>7, Steps

(***************************************************************************)
(* A job's roster is the file and its own leaf, and what it sends is its   *)
(* roster.                                                                 *)
(***************************************************************************)
WorksAt(s) ==
  Working(s) =>
    /\ job[s].step # "reply" => job[s].next = Append(file, client[job[s].request].leaf)
    /\ job[s].step = "reply" =>
         /\ job[s].next = file
         /\ file[Len(file)] = client[job[s].request].leaf
    /\ \A tx \in pending : tx.by = job[s].request => tx.leaves = job[s].next
    /\ \A e \in DOMAIN chain.history :
         chain.history[e].by = job[s].request => chain.history[e].leaves = job[s].next

LEMMA WorksNext ==
  ASSUME OneService, Base, Sent, Sent', Works, [Next]_vars
  PROVE  Works'
<1>b. Typed /\ Waits
  BY DEF Base
<1>0. PICK s \in Services : Services = {s}
  BY DEF OneService
<1>w. WorksAt(s)
  BY DEF Works, WorksAt
<1> SUFFICES WorksAt(s)'
  BY <1>0 DEF Works, WorksAt
<1>n. ~Working(s)' => WorksAt(s)'
  BY DEF WorksAt
<1>1. CASE NetworkStep
  <2> SUFFICES ASSUME Working(s)'
               PROVE  WorksAt(s)'
    BY <1>n
  <2> DEFINE n == Len(chain.history)
             m == Len(chain'.history)
             r == job[s].request
  <2>1. /\ UNCHANGED <<file, job, client>> /\ pending' \subseteq pending
        /\ n \in Nat /\ m \in Nat
        /\ DOMAIN chain.history = 1..n /\ DOMAIN chain'.history = 1..m
        /\ \/ chain'.history = chain.history
           \/ /\ m = n + 1
              /\ \A e \in DOMAIN chain.history : chain'.history[e] = chain.history[e]
              /\ \/ chain'.history[n + 1].by = Outside
                 \/ \E tx \in pending : /\ chain'.history[n + 1].by = tx.by
                                        /\ chain'.history[n + 1].leaves = tx.leaves
    BY <1>1, Grew
  <2>2. Working(s) /\ r \in Requests /\ r # Outside
    BY <1>b, <2>1, JobIs, BoundAssumption DEF Working, Requests, Outside
  <2>3. /\ \A tx \in pending : tx.by = r => tx.leaves = job[s].next
        /\ \A e \in DOMAIN chain.history :
             chain.history[e].by = r => chain.history[e].leaves = job[s].next
    BY <1>w, <2>2 DEF WorksAt
  <2> HIDE DEF n, m, r
  <2>4. \A e \in DOMAIN chain'.history :
          chain'.history[e].by = r => chain'.history[e].leaves = job[s].next
    BY <2>1, <2>2, <2>3
  <2>5. \A tx \in pending' : tx.by = r => tx.leaves = job[s].next
    BY <2>1, <2>3
  <2> QED
    BY <1>w, <2>1, <2>2, <2>4, <2>5 DEF WorksAt, r
<1>2. ASSUME NEW leaf \in Leaves, Post(leaf, s)
      PROVE  WorksAt(s)'
  <2> SUFFICES ASSUME Working(s)'
               PROVE  WorksAt(s)'
    BY <1>n
  <2>1. /\ \A r \in DOMAIN client : client'[r] = client[r]
        /\ UNCHANGED <<chain, pending, file, job>>
    BY <1>2, <1>b, Posted
  <2>2. Working(s) /\ job[s].request \in DOMAIN client
    BY <1>b, <2>1 DEF Working, Waits, Waiting
  <2>3. client'[job[s].request] = client[job[s].request]
    BY <2>1, <2>2
  <2> QED
    BY <1>w, <2>1, <2>2, <2>3 DEF WorksAt
<1>3. CASE Start(s)
  <2> SUFFICES ASSUME Working(s)'
               PROVE  WorksAt(s)'
    BY <1>n
  <2>0. PICK r : r = Head(queue[s])
    OBVIOUS
  <2>1. /\ ~Working(s) /\ UNCHANGED <<file, chain, pending>>
        /\ \/ UNCHANGED job
           \/ /\ UNCHANGED client
              /\ job' = [job EXCEPT ![s] = [step |-> "account", request |-> r,
                                            next |-> Append(file, client[r].leaf)]]
    BY <1>3, <1>b, <2>0, Started
  <2>2. /\ UNCHANGED client
        /\ job' = [job EXCEPT ![s] = [step |-> "account", request |-> r,
                                      next |-> Append(file, client[r].leaf)]]
    BY <2>1 DEF Working
  <2>3. /\ job'[s].step = "account" /\ job'[s].request = r
        /\ job'[s].next = Append(file, client[r].leaf)
    BY <1>b, <2>2, Facts
  <2>4. Quiet(r)'
    BY <2>3 DEF Sent, Unsent
  <2> QED
    BY <2>1, <2>2, <2>3, <2>4 DEF WorksAt, Quiet
<1>4. ASSUME GetAccount(s) \/ Send(s) \/ Poll(s) \/ ReadInfo(s)
      PROVE  WorksAt(s)'
  <2>1. /\ Working(s) /\ job'[s].request = job[s].request /\ job'[s].next = job[s].next
        /\ job[s].step # "reply" /\ job'[s].step # "reply"
        /\ UNCHANGED <<chain, client, file>>
    BY <1>4, <1>b, WentOn DEF GetAccount, Send, Poll, PollSucceeds, ReadInfo
  <2>2. UNCHANGED pending \/ pending' = pending \cup {Signed(s)}
    BY <1>4 DEF GetAccount, Send, Poll, ReadInfo
  <2>3. Signed(s).leaves = job[s].next
    BY DEF Signed
  <2> QED
    BY <1>w, <2>1, <2>2, <2>3 DEF WorksAt
<1>5. CASE Save(s)
  <2>1. /\ Working(s) /\ job'[s].request = job[s].request /\ job'[s].next = job[s].next
        /\ job[s].step = "save" /\ job'[s].step = "reply" /\ file' = job[s].next
        /\ UNCHANGED <<chain, client, pending>>
    <3>1. job[s].step = "save"
      BY <1>5 DEF Save
    <3> QED
      BY <1>5, <1>b, <3>1, WentOn DEF Save, SavedLeaves
  <2> DEFINE leaf == client[job[s].request].leaf
  <2>2. file' = Append(file, leaf)
    BY <1>w, <2>1 DEF WorksAt
  <2>3. file \in Seq(Leaves) /\ leaf \in Leaves
    BY <1>b, <2>1, Facts DEF Waits, Waiting
  <2> HIDE DEF leaf
  <2>4. file'[Len(file')] = leaf
    <3>1. Append(file, leaf)[Len(Append(file, leaf))] = leaf
      BY <2>3
    <3> QED
      BY <2>2, <3>1
  <2> QED
    BY <1>w, <2>1, <2>4 DEF WorksAt, leaf
<1>6. CASE Reply(s) \/ Fail(s) \/ Crash
  BY <1>6, <1>b, <1>n, Replied, Failed, Crashed DEF Working
<1>7. CASE UNCHANGED vars
  BY <1>7, <1>w DEF vars, WorksAt, Working
<1> QED
  BY <1>0, <1>1, <1>2, <1>3, <1>4, <1>5, <1>6, <1>7, Steps

LEMMA OnlySaveWrites ==
  ASSUME Base, [Next]_vars, ~ \E s \in Services : Save(s)
  PROVE  UNCHANGED file
<1>b. Typed /\ Waits
  BY DEF Base
<1>1. ASSUME NEW s \in Services, GetAccount(s) \/ Send(s) \/ Poll(s) \/ ReadInfo(s)
      PROVE  UNCHANGED file
  BY <1>1 DEF GetAccount, Send, Poll, ReadInfo
<1> QED
  BY <1>1, <1>b, Grew, Steps DEF vars, Post, Start, Reply, Fail, Crash

(***************************************************************************)
(* A save appends to the file a roster that was committed for its request, *)
(* and a reply tells where in the file the leaf is.                        *)
(***************************************************************************)
LEMMA FiledNext ==
  ASSUME OneService, Base, Works, AcknowledgedStaysFiled, [Next]_vars
  PROVE  AcknowledgedStaysFiled'
<1>b. Typed /\ Waits
  BY DEF Base
<1>f. file \in Seq(Leaves)
  BY <1>b, Facts
<1>1. ASSUME NEW s \in Services, Save(s) PROVE AcknowledgedStaysFiled'
  <2> DEFINE leaf == client[job[s].request].leaf
  <2>1. Working(s) /\ job[s].step = "save"
    BY <1>1 DEF Save, Working
  <2>2. UNCHANGED client
    BY <1>1 DEF Save
  <2>3. leaf \in Leaves
    BY <1>b, <2>1, Facts DEF Waits, Waiting
  <2>4. file' = Append(file, leaf)
    BY <1>1, <2>1 DEF Save, SavedLeaves, Works
  <2> HIDE DEF leaf
  <2>5. \A i \in DOMAIN file : i \in DOMAIN file' /\ file'[i] = file[i]
    BY <1>f, <2>3, <2>4
  <2> QED
    BY <2>2, <2>5 DEF AcknowledgedStaysFiled, Accredited
<1>2. ASSUME NEW s \in Services, Reply(s) PROVE AcknowledgedStaysFiled'
  <2> DEFINE r == job[s].request
  <2>1. /\ Working(s) /\ job[s].step = "reply" /\ Waiting(r)
        /\ DOMAIN client' = DOMAIN client
        /\ client'[r].leaf = client[r].leaf /\ client'[r].index = Len(job[s].next)
        /\ \A q \in DOMAIN client : q # r => client'[q] = client[q]
        /\ UNCHANGED file
    BY <1>2, <1>b, Replied
  <2>2. job[s].next = file /\ file[Len(file)] = client[r].leaf
    BY <2>1 DEF Works
  <2>3. Len(file) \in 1..Len(file)
    BY <1>b, <1>f, <2>1, <2>2, JobIs
  <2>4. Len(file) \in DOMAIN file
    BY <1>f, <2>3
  <2> HIDE DEF r
  <2>5. \A q \in Accredited' : q = r \/ (q \in Accredited /\ client'[q] = client[q])
    BY <2>1 DEF Accredited
  <2> QED
    BY <2>1, <2>2, <2>4, <2>5 DEF AcknowledgedStaysFiled
<1>3. ASSUME ~ \E s \in Services : Save(s) \/ Reply(s)
      PROVE  AcknowledgedStaysFiled'
  <2>1. UNCHANGED file /\ SameAccredited
    BY <1>3, OnlySaveWrites, AccreditedKept
  <2> QED
    BY <2>1 DEF SameAccredited, AcknowledgedStaysFiled
<1> QED
  BY <1>1, <1>2, <1>3

(***************************************************************************)
(* A transaction that can still land holds every leaf acknowledged so far. *)
(***************************************************************************)
LEMMA HoldingNext ==
  ASSUME OneService, Base, Sent, Numbered, Works, AcknowledgedStaysFiled, Holding,
         [Next]_vars
  PROVE  Holding'
<1>b. Typed /\ Waits
  BY DEF Base
<1>t. chain.seq \in Nat /\ \A tx \in pending : tx.seq \in Nat
  BY <1>b, Facts DEF Transactions
<1>1. CASE NetworkStep
  <2>1. /\ UNCHANGED client /\ pending' \subseteq pending
        /\ chain'.seq \in {chain.seq, chain.seq + 1}
    BY <1>1, Grew
  <2>2. Accredited' = Accredited
    BY <2>1 DEF Accredited
  <2>3. \A tx \in pending' : tx.seq = chain'.seq + 1 => tx.seq = chain.seq + 1
    BY <1>t, <2>1 DEF Numbered
  <2> QED
    BY <2>1, <2>2, <2>3 DEF Holding
<1>2. ASSUME NEW s \in Services, Reply(s) PROVE Holding'
  <2>1. job[s].step = "reply" /\ Working(s) /\ UNCHANGED <<chain, pending>>
    BY <1>2, <1>b, Replied
  <2>2. \A tx \in pending : tx.seq <= chain.seq
    BY <2>1 DEF Numbered
  <2> QED
    BY <1>t, <2>1, <2>2 DEF Holding
<1>3. ASSUME NEW s \in Services, Send(s) \/ Fail(s) PROVE Holding'
  <2>1. /\ UNCHANGED <<chain, file>>
        /\ UNCHANGED pending \/ Sending(s)
        /\ Working(s) /\ Waiting(job[s].request)
    BY <1>3, Sends
  <2>2. ~ \E t \in Services : Reply(t)
    <3>1. job[s].step # "reply"
      BY <1>3 DEF Send, Fail
    <3> QED
      BY <3>1 DEF Reply, OneService
  <2>3. SameAccredited
    BY <2>2, AccreditedKept
  <2>4. CASE UNCHANGED pending
    BY <2>1, <2>3, <2>4 DEF Holding, SameAccredited
  <2>5. CASE Sending(s)
    <3> DEFINE leaf == client[job[s].request].leaf
    <3>1. PICK new : new = Signed(s) /\ new.leaves = job[s].next
                     /\ pending' = pending \cup {new}
      BY <2>5 DEF Sending, Signed
    <3>2. new.leaves = Append(file, leaf)
      BY <2>1, <2>5, <3>1 DEF Works, Sending
    <3>3. file \in Seq(Leaves) /\ leaf \in Leaves
      BY <1>b, <2>1, Facts DEF Waiting
    <3> HIDE DEF leaf
    <3>4. \A i \in DOMAIN file : file[i] \in Range(new.leaves)
      <4>1. \A i \in DOMAIN file :
              i \in DOMAIN Append(file, leaf) /\ Append(file, leaf)[i] = file[i]
        BY <3>3
      <4> QED
        BY <3>2, <4>1 DEF Range
    <3>5. \A r \in Accredited : client[r].leaf \in Range(new.leaves)
      BY <3>4 DEF AcknowledgedStaysFiled
    <3> QED
      BY <2>1, <2>3, <3>1, <3>5 DEF Holding, SameAccredited
  <2> QED
    BY <2>1, <2>4, <2>5
<1>4. ASSUME ~NetworkStep, ~ \E s \in Services : Reply(s) \/ Send(s) \/ Fail(s)
      PROVE  Holding'
  <2>1. UNCHANGED <<chain, pending>>
    BY <1>4, Steps DEF Post, Start, GetAccount, Poll, ReadInfo, Save, Crash, vars
  <2>2. SameAccredited
    BY <1>4, AccreditedKept
  <2> QED
    BY <2>1, <2>2 DEF Holding, SameAccredited
<1> QED
  BY <1>1, <1>2, <1>3, <1>4

(***************************************************************************)
(* Between a commit and its reply only the issuer's console commits.       *)
(***************************************************************************)
LEMMA CommittedStays ==
  ASSUME Base, UNCHANGED chain \/ NetworkStep,
         NEW leaves, NEW r, NEW n, CommittedUpTo(leaves, r, n)
  PROVE  CommittedUpTo(leaves, r, n)'
<1>1. CASE UNCHANGED chain
  BY <1>1 DEF CommittedUpTo
<1>2. CASE NetworkStep
  <2> DEFINE k == Len(chain.history)
             m == Len(chain'.history)
  <2>1. /\ k \in Nat /\ m \in Nat /\ k <= m /\ DOMAIN chain.history = 1..k
        /\ \A e \in DOMAIN chain.history : chain'.history[e] = chain.history[e]
    BY <1>2, Grew
  <2>2. n \in 1..k
    BY DEF CommittedUpTo
  <2> HIDE DEF k, m
  <2>3. PICK e \in 1..n :
          /\ chain.history[e] = [leaves |-> leaves, by |-> r]
          /\ \A later \in (e + 1)..n : chain.history[later].by = Outside
    BY DEF CommittedUpTo
  <2>4. e \in 1..k /\ \A later \in (e + 1)..n : later \in 1..k
    BY <2>1, <2>2
  <2>5. /\ chain'.history[e] = [leaves |-> leaves, by |-> r]
        /\ \A later \in (e + 1)..n : chain'.history[later].by = Outside
    BY <2>1, <2>3, <2>4
  <2>6. n \in 1..m
    BY <2>1, <2>2
  <2> QED
    BY <2>3, <2>5, <2>6 DEF CommittedUpTo, m
<1> QED
  BY <1>1, <1>2

LEMMA CommittedNow ==
  ASSUME OneService, Base, Sent, Numbered, Works, Committed, NetworkStep,
         NEW s \in Services, job[s].step \in {"poll", "info"}, Landed(job[s].request)'
  PROVE  CommittedUpTo(job[s].next, job[s].request, Len(chain.history))'
<1> DEFINE k == Len(chain.history)
           m == Len(chain'.history)
           r == job[s].request
           leaves == job[s].next
<1>b. Typed
  BY DEF Base
<1>1. /\ k \in Nat \ {0} /\ m \in Nat
      /\ DOMAIN chain.history = 1..k /\ DOMAIN chain'.history = 1..m
      /\ \/ chain'.history = chain.history
         \/ /\ m = k + 1
            /\ \A e \in DOMAIN chain.history : chain'.history[e] = chain.history[e]
            /\ \/ chain'.history[k + 1].by = Outside
               \/ \E tx \in pending :
                    /\ tx.seq = chain.seq + 1
                    /\ chain'.history[k + 1] = [leaves |-> tx.leaves, by |-> tx.by]
                    /\ chain'.history[k + 1].by = tx.by
  BY Grew
<1>2. UNCHANGED job
  BY Grew
<1>3. Working(s) /\ r \in Requests /\ r # Outside
  BY <1>b, JobIs, BoundAssumption DEF Working, Requests, Outside
<1>4. /\ \A tx \in pending : tx.by = r => tx.leaves = leaves
      /\ Landed(r) => CommittedUpTo(leaves, r, k)
      /\ Landed(r) => \A tx \in pending : tx.seq <= chain.seq
  BY <1>3 DEF Works, Committed, Numbered
<1>5. Landed(r)'
  BY <1>2
<1>t. chain.seq \in Nat /\ \A tx \in pending : tx.seq \in Nat
  BY <1>b, Facts DEF Transactions
<1>6. CASE chain'.history = chain.history
  <2>0. Landed(r)
    BY <1>2, <1>5, <1>6 DEF Landed
  <2>1. CommittedUpTo(leaves, r, k)
    BY <1>4, <2>0
  <2> QED
    BY <1>2, <1>6, <2>1 DEF CommittedUpTo
<1>7. CASE chain'.history # chain.history
  <2>1. /\ m = k + 1
        /\ \A e \in DOMAIN chain.history : chain'.history[e] = chain.history[e]
        /\ \/ chain'.history[k + 1].by = Outside
           \/ \E tx \in pending :
                /\ tx.seq = chain.seq + 1
                /\ chain'.history[k + 1] = [leaves |-> tx.leaves, by |-> tx.by]
                /\ chain'.history[k + 1].by = tx.by
    BY <1>1, <1>7
  <2>2. \E e \in 1..m :
          /\ chain'.history[e] = [leaves |-> leaves, by |-> r]
          /\ \A later \in (e + 1)..m : chain'.history[later].by = Outside
    <3>1. CASE Landed(r)
      <4>1. CommittedUpTo(leaves, r, k) /\ \A tx \in pending : tx.seq <= chain.seq
        BY <1>4, <3>1
      <4>a. \A tx \in pending : tx.seq # chain.seq + 1
        BY <1>t, <4>1
      <4>2. chain'.history[k + 1].by = Outside
        BY <2>1, <4>a, Zenon
      <4> HIDE DEF m, r, leaves
      <4>3. PICK e \in 1..k :
              /\ chain.history[e] = [leaves |-> leaves, by |-> r]
              /\ \A later \in (e + 1)..k : chain.history[later].by = Outside
        BY <4>1 DEF CommittedUpTo
      <4> HIDE DEF k
      <4>4. \A later \in (e + 1)..m : later \in (e + 1)..k \/ later = k + 1
        BY <1>1, <2>1
      <4>5. \A later \in (e + 1)..k : later \in 1..k
        BY <1>1
      <4>6. \A later \in (e + 1)..m : chain'.history[later].by = Outside
        BY <1>1, <2>1, <4>2, <4>3, <4>4, <4>5
      <4>7. e \in 1..m /\ chain'.history[e] = chain.history[e]
        BY <1>1, <2>1
      <4> QED
        BY <4>3, <4>6, <4>7
    <3>2. CASE ~Landed(r)
      <4> HIDE DEF k, m, r, leaves
      <4>1. chain'.history[k + 1].by = r
        <5>1. PICK e \in DOMAIN chain'.history : chain'.history[e].by = r
          BY <1>5, <1>2 DEF Landed, r
        <5>2. e \notin DOMAIN chain.history
          BY <2>1, <3>2, <5>1 DEF Landed
        <5>3. e = k + 1
          BY <1>1, <2>1, <5>1, <5>2
        <5> QED
          BY <5>1, <5>3
      <4>2. chain'.history[k + 1] = [leaves |-> leaves, by |-> r]
        <5>1. PICK tx \in pending :
                /\ chain'.history[k + 1] = [leaves |-> tx.leaves, by |-> tx.by]
                /\ chain'.history[k + 1].by = tx.by
          BY <1>3, <2>1, <4>1
        <5>2. tx.by = r /\ tx.leaves = leaves
          BY <1>4, <4>1, <5>1
        <5> QED
          BY <5>1, <5>2
      <4>3. m \in 1..m /\ \A later \in (m + 1)..m : FALSE
        BY <1>1, <2>1
      <4> QED
        BY <2>1, <4>2, <4>3
    <3> QED
      BY <3>1, <3>2
  <2>3. m \in 1..m
    BY <1>1, <2>1
  <2> QED
    BY <1>2, <2>2, <2>3 DEF CommittedUpTo
<1> QED
  BY <1>6, <1>7

LEMMA CommittedNext ==
  ASSUME OneService, Base, Base', Sent, Sent', Numbered, Works, Committed, [Next]_vars
  PROVE  Committed'
<1>b. Typed /\ Waits
  BY DEF Base
<1>0. PICK s \in Services : Services = {s}
  BY DEF OneService
<1>1. CASE NetworkStep
  <2>1. UNCHANGED <<job, client>>
    BY <1>1, Grew
  <2>2. \A t \in Services :
          job[t].step \in {"poll", "info"} /\ Landed(job[t].request)'
            => CommittedUpTo(job[t].next, job[t].request, Len(chain.history))'
    BY <1>1, CommittedNow
  <2>3. \A leaves, r, n : CommittedUpTo(leaves, r, n) => CommittedUpTo(leaves, r, n)'
    BY <1>1, CommittedStays
  <2>4. /\ \A t \in Services :
             job[t].step \in {"save", "reply"}
               => CommittedUpTo(job[t].next, job[t].request, job[t].epoch + 1)
        /\ \A r \in Accredited : CommittedUpTo(client[r].root, r, client[r].epoch + 1)
    BY DEF Committed
  <2>5. Accredited' = Accredited
    BY <2>1 DEF Accredited
  <2> QED
    BY <2>1, <2>2, <2>3, <2>4, <2>5 DEF Committed, CommittedUpTo, Landed
<1>2. CASE ~NetworkStep
  <2>1. UNCHANGED chain
    BY <1>2, Steps DEF Post, Start, GetAccount, Send, Poll, ReadInfo, Save, Reply,
                       Fail, Crash, vars
  <2>2. \A leaves, r, n : CommittedUpTo(leaves, r, n)' = CommittedUpTo(leaves, r, n)
    BY <2>1 DEF CommittedUpTo
  <2>3. \A r : Landed(r)' = Landed(r)
    BY <2>1 DEF Landed
  <2>4. /\ job'[s].step \in {"poll", "info"} /\ Landed(job'[s].request)
             => CommittedUpTo(job'[s].next, job'[s].request, Len(chain.history))
        /\ job'[s].step \in {"save", "reply"}
             => CommittedUpTo(job'[s].next, job'[s].request, job'[s].epoch + 1)
    <3>1. CASE UNCHANGED job[s]
      BY <3>1 DEF Committed
    <3>2. CASE job'[s].step \in {"none", "account", "send"}
      BY <3>2
    <3>3. CASE Send(s)
      <4>1. job[s].step = "send"
        BY <3>3 DEF Send
      <4>2. job'[s].request = job[s].request /\ job'[s].step = "poll"
        BY <3>3, <4>1, <1>b, WentOn
      <4>3. ~Landed(job[s].request)
        BY <4>1 DEF Sent, Unsent, Quiet, Landed
      <4> QED
        BY <4>2, <4>3
    <3>4. CASE Poll(s)
      <4>1. job[s].step = "poll"
        BY <3>4 DEF Poll, PollSucceeds
      <4>2. /\ job'[s].request = job[s].request /\ job'[s].next = job[s].next
            /\ job'[s].step = "info" /\ Landed(job[s].request)
        BY <3>4, <4>1, <1>b, WentOn
      <4> QED
        BY <4>1, <4>2 DEF Committed
    <3>5. CASE ReadInfo(s)
      <4>1. job[s].step = "info"
        BY <3>5 DEF ReadInfo
      <4>2. /\ job'[s].request = job[s].request /\ job'[s].next = job[s].next
            /\ job'[s].step = "save" /\ job'[s].epoch = Epoch
        BY <3>5, <4>1, <1>b, WentOn
      <4>3. Epoch + 1 = Len(chain.history)
        BY <1>b, Facts DEF Epoch
      <4>4. CommittedUpTo(job[s].next, job[s].request, Len(chain.history))
        BY <4>1 DEF Committed, Numbered
      <4> QED
        BY <4>2, <4>3, <4>4
    <3>6. CASE Save(s)
      <4>1. job[s].step = "save"
        BY <3>6 DEF Save
      <4>2. /\ job'[s].request = job[s].request /\ job'[s].next = job[s].next
            /\ job'[s].step = "reply" /\ job'[s].epoch = job[s].epoch
        BY <3>6, <4>1, <1>b, WentOn
      <4> QED
        BY <4>1, <4>2 DEF Committed
    <3>7. CASE GetAccount(s)
      BY <3>2, <3>7, <1>b, WentOn DEF GetAccount
    <3>8. CASE Start(s)
      <4>1. UNCHANGED job \/ job'[s].step = "account"
        BY <1>b, <3>8, Facts DEF Start
      <4> QED
        BY <3>1, <3>2, <4>1
    <3>9. CASE Reply(s) \/ Fail(s) \/ Crash
      BY <1>b, <3>2, <3>9, Replied, Failed DEF Crash, NoJob
    <3>10. CASE UNCHANGED vars \/ \E leaf \in Leaves, t \in Services : Post(leaf, t)
      BY <3>1, <3>10 DEF vars, Post
    <3> QED
      BY <1>0, <1>2, <3>3, <3>4, <3>5, <3>6, <3>7, <3>8, <3>9, <3>10, Steps
  <2>5. \A r \in Accredited' : CommittedUpTo(client'[r].root, r, client'[r].epoch + 1)
    <3>1. CASE Reply(s)
      <4> DEFINE q == job[s].request
      <4>1. /\ job[s].step = "reply" /\ DOMAIN client' = DOMAIN client
            /\ client'[q].root = job[s].next /\ client'[q].epoch = job[s].epoch
            /\ \A r \in DOMAIN client : r # q => client'[r] = client[r]
        BY <3>1, <1>b, Replied
      <4>2. CommittedUpTo(job[s].next, q, job[s].epoch + 1)
        BY <4>1 DEF Committed
      <4> HIDE DEF q
      <4>3. \A r \in Accredited' : r = q \/ (r \in Accredited /\ client'[r] = client[r])
        BY <4>1 DEF Accredited
      <4> QED
        BY <4>1, <4>2, <4>3 DEF Committed
    <3>2. CASE ~Reply(s)
      <4>1. SameAccredited
        BY <1>0, <3>2, AccreditedKept
      <4> QED
        BY <4>1 DEF SameAccredited, Committed
    <3> QED
      BY <3>1, <3>2
  <2> QED
    BY <1>0, <2>1, <2>2, <2>3, <2>4, <2>5 DEF Committed
<1> QED
  BY <1>1, <1>2

LEMMA FileNext ==
  ASSUME Base, Committed, FileWasCommitted, [Next]_vars
  PROVE  FileWasCommitted'
<1>b. Typed
  BY DEF Base
<1>1. ASSUME NEW s \in Services, Save(s) PROVE FileWasCommitted'
  <2>1. /\ job[s].step = "save" /\ file' = job[s].next /\ UNCHANGED chain
    BY <1>1 DEF Save, SavedLeaves
  <2>2. Working(s) /\ job[s].request # Outside
    BY <1>b, <2>1, JobIs DEF Working, Requests, Outside
  <2>3. CommittedUpTo(job[s].next, job[s].request, job[s].epoch + 1)
    BY <2>1 DEF Committed
  <2>4. DOMAIN chain.history = 1..Len(chain.history) /\ Len(chain.history) \in Nat
    BY <1>b, Facts
  <2> DEFINE r == job[s].request
             leaves == job[s].next
             n == job[s].epoch + 1
             k == Len(chain.history)
  <2>5. /\ n \in 1..k
        /\ \E e \in 1..n : chain.history[e] = [leaves |-> leaves, by |-> r]
    BY <2>3 DEF CommittedUpTo
  <2>6. DOMAIN chain.history = 1..k /\ k \in Nat /\ r # Outside
    BY <2>2, <2>4
  <2> HIDE DEF r, leaves, n, k
  <2>7. \E e \in DOMAIN chain.history : chain.history[e] = [leaves |-> leaves, by |-> r]
    BY <2>5, <2>6
  <2>8. \E e \in DOMAIN chain.history :
          chain.history[e].leaves = leaves /\ chain.history[e].by # Outside
    BY <2>6, <2>7
  <2> QED
    BY <2>1, <2>8 DEF FileWasCommitted, leaves
<1>2. ASSUME ~ \E s \in Services : Save(s) PROVE FileWasCommitted'
  <2>1. UNCHANGED file
    BY <1>2, OnlySaveWrites
  <2>2. CASE NetworkStep
    <3> DEFINE k == Len(chain.history)
               m == Len(chain'.history)
    <3>1. /\ k \in Nat /\ m \in Nat /\ k <= m /\ DOMAIN chain.history = 1..k
          /\ DOMAIN chain'.history = 1..m
          /\ \A e \in DOMAIN chain.history : chain'.history[e] = chain.history[e]
      BY <2>2, Grew
    <3> HIDE DEF k, m
    <3> QED
      BY <2>1, <3>1 DEF FileWasCommitted
  <2>3. CASE ~NetworkStep
    <3>1. UNCHANGED chain
      BY <2>3, Steps DEF Post, Start, GetAccount, Send, Poll, ReadInfo, Save, Reply,
                         Fail, Crash, vars
    <3> QED
      BY <2>1, <3>1 DEF FileWasCommitted
  <2> QED
    BY <2>2, <2>3
<1> QED
  BY <1>1, <1>2

-----------------------------------------------------------------------------
LEMMA IInvInit ==
  ASSUME Init
  PROVE  IInv
<1>1. Base
  BY BaseInit
<1>2. /\ pending = {} /\ file = << >> /\ client = << >>
      /\ \A s \in Services : job[s].step = "none" /\ DOMAIN queue[s] = {}
  BY DEF Init, NoJob
<1>3. \A e \in DOMAIN chain.history : chain.history[e].by = Outside
  <2> DEFINE fst == [leaves |-> << >>, by |-> Outside]
             snd == [leaves |-> Seeded, by |-> Outside]
  <2>1. fst.by = Outside /\ snd.by = Outside
    OBVIOUS
  <2>2. chain.history = <<fst, snd>>
    BY DEF Init
  <2> HIDE DEF fst, snd
  <2> QED
    BY <2>1, <2>2
<1>4. Accredited = {}
  BY <1>2 DEF Accredited
<1>5. Sent
  BY <1>2, <1>3 DEF Sent, Unsent
<1>6. Numbered /\ Works /\ Holding /\ Committed
  BY <1>2, <1>4 DEF Numbered, Works, Holding, Committed, Working
<1>7. AcknowledgedStaysFiled /\ FileWasCommitted
  BY <1>2, <1>4 DEF AcknowledgedStaysFiled, FileWasCommitted
<1> QED
  BY <1>1, <1>5, <1>6, <1>7 DEF IInv

LEMMA IInvNext ==
  ASSUME OneService, IInv, [Next]_vars
  PROVE  IInv'
<1>1. Base'
  BY TypedNext, PlacesNext DEF Base, IInv
<1>2. Sent'
  BY SentNext DEF IInv
<1>3. Numbered' /\ Works' /\ AcknowledgedStaysFiled' /\ Holding'
  BY <1>2, NumberedNext, WorksNext, FiledNext, HoldingNext DEF IInv
<1>4. Committed' /\ FileWasCommitted'
  BY <1>1, <1>2, CommittedNext, FileNext DEF IInv
<1> QED
  BY <1>1, <1>2, <1>3, <1>4 DEF IInv

(***************************************************************************)
(* What a client was told stays true in the file, for any number of        *)
(* requests, failures, crashes and late answers, with one service.         *)
(***************************************************************************)
THEOREM FiledStays ==
  ASSUME OneService
  PROVE  Spec => []AcknowledgedStaysFiled
<1>1. Init => IInv
  BY IInvInit
<1>2. IInv /\ [Next]_vars => IInv'
  BY IInvNext
<1>3. IInv => AcknowledgedStaysFiled
  BY DEF IInv
<1> QED
  BY <1>1, <1>2, <1>3, PTL DEF Spec

(***************************************************************************)
(* A reply follows the commit of its own roster, and only the console      *)
(* comes between that commit and the epoch of the reply.                   *)
(***************************************************************************)
THEOREM RepliesFollowCommits ==
  ASSUME OneService
  PROVE  Spec => []ReplyFollowsOwnCommit
<1>1. Init => IInv
  BY IInvInit
<1>2. IInv /\ [Next]_vars => IInv'
  BY IInvNext
<1>3. IInv => ReplyFollowsOwnCommit
  BY DEF IInv, Committed, CommittedUpTo, ReplyFollowsOwnCommit
<1> QED
  BY <1>1, <1>2, <1>3, PTL DEF Spec

(***************************************************************************)
(* The file never runs ahead of the chain: what a restart reads is a       *)
(* roster that was committed for a request.                                *)
(***************************************************************************)
THEOREM FileNeverAhead ==
  ASSUME OneService
  PROVE  Spec => []FileWasCommitted
<1>1. Init => IInv
  BY IInvInit
<1>2. IInv /\ [Next]_vars => IInv'
  BY IInvNext
<1>3. IInv => FileWasCommitted
  BY DEF IInv
<1> QED
  BY <1>1, <1>2, <1>3, PTL DEF Spec

LEMMA StepKeepsAcknowledged ==
  ASSUME IInv, [Next]_vars
  PROVE  KeepsAcknowledged
<1>b. Base /\ Typed /\ Sent /\ Holding
  BY DEF IInv, Base
<1>1. CASE NetworkStep
  <2> SUFFICES ASSUME NEW tx \in pending,
                      Len(chain'.history) > Len(chain.history),
                      chain'.history[Len(chain'.history)].by = tx.by
               PROVE  \A r \in Accredited : client[r].leaf \in Range(tx.leaves)
    BY DEF KeepsAcknowledged
  <2> DEFINE k == Len(chain.history)
             m == Len(chain'.history)
  <2>1. /\ k \in Nat /\ m \in Nat
        /\ \/ chain'.history = chain.history
           \/ /\ m = k + 1
              /\ \/ chain'.history[k + 1].by = Outside
                 \/ \E ux \in pending : /\ ux.seq = chain.seq + 1
                                        /\ chain'.history[k + 1].by = ux.by
    BY <1>1, <1>b, Grew
  <2>2. m > k /\ chain'.history[m].by = tx.by
    OBVIOUS
  <2>3. chain'.history # chain.history
    BY <2>1, <2>2
  <2>4. tx.by # Outside
    BY <1>b, Facts, BoundAssumption DEF Transactions, Requests, Outside
  <2> HIDE DEF k, m
  <2>5. PICK ux \in pending : ux.seq = chain.seq + 1 /\ ux.by = tx.by
    BY <2>1, <2>2, <2>3, <2>4
  <2>6. tx.seq = chain.seq + 1
    BY <1>b, <2>5 DEF Sent
  <2> QED
    BY <1>b, <2>6 DEF Holding
<1>2. CASE ~NetworkStep
  <2>1. UNCHANGED chain
    BY <1>2, Steps DEF Post, Start, GetAccount, Send, Poll, ReadInfo, Save, Reply,
                       Fail, Crash, vars
  <2>2. Len(chain.history) \in Nat
    BY <1>b, Facts
  <2>3. ~(Len(chain'.history) > Len(chain.history))
    BY <2>1, <2>2
  <2> QED
    BY <2>3 DEF KeepsAcknowledged
<1> QED
  BY <1>1, <1>2

(***************************************************************************)
(* A roster the service commits, however late, holds every leaf that was   *)
(* acknowledged before it lands.                                           *)
(***************************************************************************)
THEOREM CommitsKeepAcknowledged ==
  ASSUME OneService
  PROVE  Spec => CommitKeepsAcknowledged
<1>1. Init => IInv
  BY IInvInit
<1>2. IInv /\ [Next]_vars => IInv'
  BY IInvNext
<1>3. IInv /\ [Next]_vars => KeepsAcknowledged
  BY StepKeepsAcknowledged
<1> QED
  BY <1>1, <1>2, <1>3, PTL DEF Spec, CommitKeepsAcknowledged

=============================================================================
