-------------------------- MODULE EventsViewProofs --------------------------
(***************************************************************************)
(* What the indexer's file holds, for every page size, window and lag of   *)
(* the nodes, as long as one command runs at a time; and that an answer of *)
(* the events route, and the page it is shown on, lack nothing of it.      *)
(***************************************************************************)
EXTENDS EventsView, TLAPS

(***************************************************************************)
(* The type, and that no command got further than the ledgers closed.      *)
(***************************************************************************)
Typed ==
  /\ TypeOK
  /\ \A p \in Processes :
       run[p].step \in {"merge", "rename"} => run[p].latest \in 1..Len(log)

(***************************************************************************)
(* What a command that runs alone holds: where the file ended when it      *)
(* started, and what is stored.                                            *)
(***************************************************************************)
Alone ==
  \A p \in Processes :
    /\ run[p].step # "idle" => run[p].start = Start
    /\ run[p].step = "rename" => run[p].base = store.events

OneCommand == \E p : Processes = {p}

-----------------------------------------------------------------------------
(***************************************************************************)
(* Events of closed ledgers: a part of the log gives a part of the events, *)
(* and closing a ledger takes none of them away.                           *)
(***************************************************************************)
LEMMA EventIs ==
  ASSUME NEW first, NEW last, NEW e
  PROVE  e \in EventsIn(first, last) <=>
           \E ledger \in (first..last) \cap DOMAIN log :
             \E i \in DOMAIN log[ledger] : e = <<ledger, i>>
  BY DEF EventsIn

LEMMA EventsOfPart ==
  ASSUME log \in Seq(Contents), NEW first \in Int, NEW last \in Int
  PROVE  EventsIn(first, last) \subseteq AllEvents
<1> SUFFICES ASSUME NEW e \in EventsIn(first, last) PROVE e \in AllEvents
  OBVIOUS
<1>1. PICK ledger \in (first..last) \cap DOMAIN log :
             \E i \in DOMAIN log[ledger] : e = <<ledger, i>>
  BY EventIs
<1>2. ledger \in (1..Len(log)) \cap DOMAIN log
  OBVIOUS
<1> QED
  BY <1>1, <1>2, EventIs DEF AllEvents

LEMMA AllEventsGrow ==
  ASSUME log \in Seq(Contents), NEW content \in Contents, log' = Append(log, content)
  PROVE  AllEvents \subseteq AllEvents'
<1> SUFFICES ASSUME NEW e \in AllEvents PROVE e \in AllEvents'
  OBVIOUS
<1>1. PICK ledger \in (1..Len(log)) \cap DOMAIN log :
             \E i \in DOMAIN log[ledger] : e = <<ledger, i>>
  BY EventIs DEF AllEvents
<1>2. ledger \in (1..Len(log')) \cap DOMAIN log' /\ log'[ledger] = log[ledger]
  OBVIOUS
<1> QED
  BY <1>1, <1>2 DEF AllEvents, EventsIn

(***************************************************************************)
(* The first ledger a command asks for is a ledger.                        *)
(***************************************************************************)
LEMMA ClampedIsNat ==
  ASSUME NEW start \in Nat, NEW latest \in Nat
  PROVE  Clamped(start, latest) \in Nat
<1> DEFINE low == latest - QueryWindow
           S   == {start, low}
<1>1. low \in Int
  BY IndexerAssumption
<1>2. \E m \in S : \A x \in S : m >= x
  <2> HIDE DEF low
  <2>1. CASE start >= low
    BY <2>1, <1>1
  <2>2. CASE low >= start
    BY <2>2, <1>1
  <2> QED
    BY <2>1, <2>2, <1>1
<1>3. Max(S) \in S /\ Max(S) >= start
  BY <1>2 DEF Max
<1> HIDE DEF low
<1>4. Max(S) \in Nat
  BY <1>1, <1>3
<1> QED
  BY <1>4 DEF Clamped, low

-----------------------------------------------------------------------------
(***************************************************************************)
(* Every stored value keeps its type, however many commands run.           *)
(***************************************************************************)
LEMMA TypedInit == Init => Typed
  BY IndexerAssumption DEF Init, Typed, TypeOK, Runs, Idle, AllEvents, EventsIn, NoCursor

LEMMA StartIsNat == store.cursor \in Nat => Start \in Nat
  BY IndexerAssumption DEF Start

LEMMA TypedNext == Typed /\ [Next]_vars => Typed'
<1> SUFFICES ASSUME Typed, [Next]_vars PROVE Typed'
  OBVIOUS
<1>a. /\ log \in Seq(Contents) /\ Len(log) \in Nat
      /\ store.cursor \in 0..Len(log) /\ store.cursor \in Nat
      /\ store.events \subseteq AllEvents /\ passedOver \subseteq AllEvents
      /\ run \in [Processes -> Runs]
      /\ \A p \in Processes :
           run[p].step \in {"merge", "rename"} => run[p].latest \in 1..Len(log)
  BY DEF Typed, TypeOK
<1>b. \A latest \in Seen : latest \in 1..Len(log) /\ latest \in Nat
  BY <1>a, IndexerAssumption DEF Seen
<1>1. ASSUME NEW content \in Contents, CloseLedger(content)
      PROVE  Typed'
  <2>1. /\ log' = Append(log, content) /\ log' \in Seq(Contents)
        /\ Len(log') = Len(log) + 1 /\ UNCHANGED <<store, run, passedOver>>
    BY <1>1, <1>a DEF CloseLedger
  <2>2. AllEvents \subseteq AllEvents'
    BY <1>1, <1>a, <2>1, AllEventsGrow
  <2>3. \A p \in Processes : run[p] \in Runs'
    <3> TAKE p \in Processes
    <3>1. run[p] \in Runs
      BY <1>a
    <3> QED
      BY <3>1, <2>2 DEF Runs, Idle
  <2> QED
    BY <1>a, <2>1, <2>2, <2>3 DEF Typed, TypeOK
<1>2. ASSUME NEW p \in Processes, NEW new \in Runs,
             run' = [run EXCEPT ![p] = new],
             new.step \in {"merge", "rename"} => new.latest \in 1..Len(log),
             UNCHANGED <<log, store, passedOver>>
      PROVE  Typed'
  <2>1. AllEvents' = AllEvents /\ Runs' = Runs
    BY <1>2 DEF Runs, AllEvents, EventsIn
  <2>2. run' \in [Processes -> Runs]
    BY <1>a, <1>2
  <2>3. \A q \in Processes :
          run'[q].step \in {"merge", "rename"} => run'[q].latest \in 1..Len(log)
    BY <1>a, <1>2
  <2> QED
    BY <1>a, <1>2, <2>1, <2>2, <2>3 DEF Typed, TypeOK
<1>3. ASSUME NEW p \in Processes, RunOnce(p) \/ Die(p)
      PROVE  Typed'
  <2>1. Start \in Nat
    BY <1>a, StartIsNat
  <2>2. Idle \in Runs /\ Idle.step = "idle"
    BY DEF Idle, Runs
  <2>3. CASE RunOnce(p)
    <3> DEFINE new == [step |-> "latest", start |-> Start]
    <3>1. new \in Runs /\ new.step = "latest"
      BY <2>1 DEF Runs
    <3>2. run' = [run EXCEPT ![p] = new] /\ UNCHANGED <<log, store, passedOver>>
      BY <2>3 DEF RunOnce
    <3> HIDE DEF new
    <3> QED
      BY <1>2, <3>1, <3>2
  <2>4. CASE Die(p)
    BY <1>2, <2>2, <2>4 DEF Die
  <2> QED
    BY <1>3, <2>3, <2>4
<1>4. ASSUME NEW p \in Processes, run[p].step # "idle"
      PROVE  run[p].start \in Nat
  <2>1. run[p] \in Runs
    BY <1>a
  <2> QED
    BY <1>4, <2>1 DEF Runs, Idle
<1>5. ASSUME NEW p \in Processes, NEW events \in SUBSET AllEvents,
             NEW latest \in 1..Len(log), run[p].step # "idle"
      PROVE  Page(p, events, latest) \in Runs
             /\ Page(p, events, latest).step = "merge"
             /\ Page(p, events, latest).latest = latest
  BY <1>4, <1>5, <1>a DEF Page, Runs
<1>6. ASSUME NEW p \in Processes, GetLatest(p)
      PROVE  Typed'
  <2>1. run[p].step = "latest" /\ UNCHANGED <<log, store, passedOver>>
    BY <1>6 DEF GetLatest
  <2>2. PICK latest \in Seen :
           LET first == Clamped(run[p].start, latest)
           IN  run' = [run EXCEPT ![p] =
                         IF first > latest THEN Page(p, {}, latest)
                         ELSE [step |-> "fetch", start |-> run[p].start, first |-> first]]
    BY <1>6, <1>a DEF GetLatest
  <2> DEFINE first == Clamped(run[p].start, latest)
             fetch == [step |-> "fetch", start |-> run[p].start, first |-> first]
  <2>3. first \in Nat
    BY <1>4, <1>b, <2>1, ClampedIsNat
  <2>4. fetch \in Runs /\ fetch.step = "fetch"
    BY <1>4, <2>1, <2>3 DEF Runs
  <2>5. /\ Page(p, {}, latest) \in Runs
        /\ Page(p, {}, latest).latest \in 1..Len(log)
    BY <1>5, <1>b, <2>1
  <2>6. run' = [run EXCEPT ![p] = Page(p, {}, latest)] \/ run' = [run EXCEPT ![p] = fetch]
    BY <2>2
  <2> HIDE DEF fetch
  <2> QED
    BY <1>2, <2>1, <2>4, <2>5, <2>6
<1>7. ASSUME NEW p \in Processes, GetEvents(p)
      PROVE  Typed'
  <2>1. run[p].step = "fetch" /\ UNCHANGED <<log, store, passedOver>>
    BY <1>7 DEF GetEvents
  <2>2. PICK latest \in Seen :
           run' = [run EXCEPT ![p] =
                     Page(p, FirstPage(EventsIn(run[p].first, latest)), latest)]
    BY <1>7 DEF GetEvents
  <2>3. run[p].first \in Nat
    <3>1. run[p] \in Runs
      BY <1>a
    <3> QED
      BY <2>1, <3>1 DEF Runs, Idle
  <2>4. FirstPage(EventsIn(run[p].first, latest)) \subseteq AllEvents
    BY <1>a, <1>b, <2>3, EventsOfPart DEF FirstPage
  <2>5. /\ Page(p, FirstPage(EventsIn(run[p].first, latest)), latest) \in Runs
        /\ Page(p, FirstPage(EventsIn(run[p].first, latest)), latest).latest \in 1..Len(log)
    BY <1>5, <1>b, <2>1, <2>4
  <2> QED
    BY <1>2, <2>1, <2>2, <2>5
<1>8. ASSUME NEW p \in Processes, LoadAgain(p)
      PROVE  Typed'
  <2> DEFINE new == [step |-> "rename", start |-> run[p].start,
                     events |-> run[p].events, latest |-> run[p].latest,
                     base |-> store.events]
  <2>1. run[p].step = "merge" /\ UNCHANGED <<log, store, passedOver>>
    BY <1>8 DEF LoadAgain
  <2>2. run' = [run EXCEPT ![p] = new]
    BY <1>8, <1>a DEF LoadAgain
  <2>3. run[p].start \in Nat /\ run[p].events \subseteq AllEvents /\ run[p].latest \in Nat
    <3>1. run[p] \in Runs
      BY <1>a
    <3> QED
      BY <2>1, <3>1 DEF Runs, Idle
  <2>4. new \in Runs /\ new.latest = run[p].latest
    BY <2>3, <1>a DEF Runs
  <2> HIDE DEF new
  <2> QED
    BY <1>2, <1>a, <2>1, <2>2, <2>4
<1>9. ASSUME NEW p \in Processes, Rename(p)
      PROVE  Typed'
  <2>1. /\ run[p].step = "rename" /\ UNCHANGED log /\ run' = [run EXCEPT ![p] = Idle]
        /\ store' = [cursor |-> run[p].latest,
                     events |-> Merged(run[p].base, Kept(run[p].events))]
        /\ passedOver' = passedOver \cup
                           (EventsIn(run[p].start, run[p].latest) \ run[p].events)
    BY <1>9 DEF Rename
  <2>2. /\ run[p].start \in Nat /\ run[p].events \subseteq AllEvents
        /\ run[p].latest \in Nat /\ run[p].base \subseteq AllEvents
    <3>1. run[p] \in Runs
      BY <1>a
    <3> QED
      BY <2>1, <3>1 DEF Runs, Idle
  <2>3. AllEvents' = AllEvents /\ Runs' = Runs
    BY <2>1 DEF Runs, AllEvents, EventsIn
  <2>4. store'.cursor \in 0..Len(log)
    BY <2>1, <1>a
  <2>5. store'.events \subseteq AllEvents
    BY <2>1, <2>2 DEF Merged, Kept
  <2>6. passedOver' \subseteq AllEvents
    BY <2>1, <2>2, <1>a, EventsOfPart
  <2>7. /\ run' \in [Processes -> Runs]
        /\ \A q \in Processes :
             run'[q].step \in {"merge", "rename"} => run'[q].latest \in 1..Len(log)
    <3>1. Idle \in Runs /\ Idle.step = "idle"
      BY DEF Idle, Runs
    <3> QED
      BY <2>1, <3>1, <1>a
  <2> QED
    BY <1>a, <2>1, <2>3, <2>4, <2>5, <2>6, <2>7 DEF Typed, TypeOK
<1>10. CASE UNCHANGED vars
  <2>1. UNCHANGED <<log, store, run, passedOver>>
    BY <1>10 DEF vars
  <2>2. AllEvents' = AllEvents /\ Runs' = Runs
    BY <2>1 DEF Runs, AllEvents, EventsIn
  <2> QED
    BY <2>1, <2>2, <1>a DEF Typed, TypeOK
<1> QED
  BY <1>1, <1>3, <1>6, <1>7, <1>8, <1>9, <1>10 DEF Next, IndexerNext

(***************************************************************************)
(* Cursor, file, ledgers and the variables of each command keep their      *)
(* types, for any number of commands at once.                              *)
(***************************************************************************)
THEOREM TypeCorrect == Spec => []TypeOK
<1>1. Typed => TypeOK
  BY DEF Typed
<1> QED
  BY TypedInit, TypedNext, <1>1, PTL DEF Spec

-----------------------------------------------------------------------------
(***************************************************************************)
(* A command that runs alone finds the file as it left it.                 *)
(***************************************************************************)
LEMMA AloneInit == Init => Alone
  BY DEF Init, Alone, Idle

LEMMA AloneNext ==
  ASSUME OneCommand, Typed, Alone, [Next]_vars
  PROVE  Alone'
<1>a. PICK c : Processes = {c}
  BY DEF OneCommand
<1>b. run \in [Processes -> Runs]
  BY DEF Typed, TypeOK
<1>1. ASSUME NEW p \in Processes, NEW new,
             run' = [run EXCEPT ![p] = new], UNCHANGED store,
             new.step # "idle" => new.start = Start,
             new.step = "rename" => new.base = store.events
      PROVE  Alone'
  <2>1. \A q \in Processes : run'[q] = new
    BY <1>1, <1>a, <1>b
  <2> QED
    BY <2>1, <1>1 DEF Alone, Start
<1>2. ASSUME NEW content \in Contents, CloseLedger(content)
      PROVE  Alone'
  BY <1>2 DEF CloseLedger, Alone, Start
<1>3. ASSUME NEW p \in Processes, RunOnce(p)
      PROVE  Alone'
  <2> DEFINE new == [step |-> "latest", start |-> Start]
  <2>1. new.step = "latest" /\ new.start = Start
    OBVIOUS
  <2>2. run' = [run EXCEPT ![p] = new] /\ UNCHANGED store
    BY <1>3 DEF RunOnce
  <2> HIDE DEF new
  <2> QED
    BY <1>1, <2>1, <2>2
<1>4. ASSUME NEW p \in Processes, run[p].step # "idle", NEW events, NEW latest
      PROVE  /\ Page(p, events, latest).start = Start
             /\ Page(p, events, latest).step = "merge"
  BY <1>4 DEF Page, Alone
<1>5. ASSUME NEW p \in Processes, GetLatest(p)
      PROVE  Alone'
  <2>1. run[p].step = "latest" /\ UNCHANGED store
    BY <1>5 DEF GetLatest
  <2>2. PICK latest \in Seen :
           LET first == Clamped(run[p].start, latest)
           IN  run' = [run EXCEPT ![p] =
                         IF first > latest THEN Page(p, {}, latest)
                         ELSE [step |-> "fetch", start |-> run[p].start, first |-> first]]
    BY <1>5, <1>b DEF GetLatest
  <2> DEFINE fetch == [step |-> "fetch", start |-> run[p].start,
                       first |-> Clamped(run[p].start, latest)]
  <2>3. fetch.step = "fetch" /\ fetch.start = Start
    BY <2>1 DEF Alone
  <2>4. run' = [run EXCEPT ![p] = Page(p, {}, latest)] \/ run' = [run EXCEPT ![p] = fetch]
    BY <2>2
  <2> HIDE DEF fetch
  <2>5. Page(p, {}, latest).start = Start /\ Page(p, {}, latest).step = "merge"
    BY <1>4, <2>1
  <2> QED
    BY <1>1, <2>1, <2>3, <2>4, <2>5
<1>6. ASSUME NEW p \in Processes, GetEvents(p)
      PROVE  Alone'
  <2>1. run[p].step = "fetch" /\ UNCHANGED store
    BY <1>6 DEF GetEvents
  <2>2. PICK latest \in Seen :
           run' = [run EXCEPT ![p] =
                     Page(p, FirstPage(EventsIn(run[p].first, latest)), latest)]
    BY <1>6 DEF GetEvents
  <2> DEFINE new == Page(p, FirstPage(EventsIn(run[p].first, latest)), latest)
  <2>3. new.start = Start /\ new.step = "merge"
    BY <1>4, <2>1
  <2>4. run' = [run EXCEPT ![p] = new]
    BY <2>2
  <2> HIDE DEF new
  <2> QED
    BY <1>1, <2>1, <2>3, <2>4
<1>7. ASSUME NEW p \in Processes, LoadAgain(p)
      PROVE  Alone'
  <2> DEFINE new == [step |-> "rename", start |-> run[p].start,
                     events |-> run[p].events, latest |-> run[p].latest,
                     base |-> store.events]
  <2>1. run' = [run EXCEPT ![p] = new] /\ UNCHANGED store /\ run[p].step = "merge"
    BY <1>7, <1>b DEF LoadAgain
  <2>2. new.start = Start /\ new.base = store.events
    BY <2>1 DEF Alone
  <2> HIDE DEF new
  <2> QED
    BY <1>1, <2>1, <2>2
<1>8. ASSUME NEW p \in Processes, run' = [run EXCEPT ![p] = Idle]
      PROVE  Alone'
  <2>1. \A q \in Processes : run'[q] = Idle
    BY <1>8, <1>a, <1>b
  <2> QED
    BY <2>1 DEF Alone, Idle
<1>9. CASE UNCHANGED vars
  BY <1>9 DEF vars, Alone, Start
<1> QED
  BY <1>2, <1>3, <1>5, <1>6, <1>7, <1>8, <1>9 DEF Next, IndexerNext, Rename, Die

(***************************************************************************)
(* A rename moves the cursor to the last ledger asked for, with every      *)
(* event since the old cursor either kept or passed over.                  *)
(***************************************************************************)
LEMMA RenameKeeps ==
  ASSUME Typed, Alone, KeptUnlessPassedOver, NEW p \in Processes, Rename(p)
  PROVE  KeptUnlessPassedOver' /\ store.events \subseteq store'.events
<1>a. /\ log \in Seq(Contents) /\ store.cursor \in Nat
      /\ store.cursor <= Len(log) /\ Len(log) \in Nat
  BY DEF Typed, TypeOK
<1>1. /\ run[p].step = "rename" /\ UNCHANGED log
      /\ store' = [cursor |-> run[p].latest,
                   events |-> Merged(run[p].base, Kept(run[p].events))]
      /\ passedOver' = passedOver \cup
                         (EventsIn(run[p].start, run[p].latest) \ run[p].events)
  BY DEF Rename
<1>2. run[p].start = Start /\ run[p].base = store.events
  BY <1>1 DEF Alone
<1>3. run[p].latest \in 1..Len(log)
  BY <1>1 DEF Typed
<1>4. /\ store'.cursor = run[p].latest
      /\ store'.events = store.events \cup Kept(run[p].events)
  BY <1>1, <1>2 DEF Merged
<1>5. ASSUME NEW e \in Kept(EventsIn(StartLedger, store'.cursor))
      PROVE  e \in store'.events \cup passedOver'
  <2>1. Succeeded(e) /\ e \in EventsIn(StartLedger, run[p].latest)
    BY <1>4, <1>5 DEF Kept
  <2>2. PICK ledger \in (StartLedger..run[p].latest) \cap DOMAIN log :
               \E i \in DOMAIN log[ledger] : e = <<ledger, i>>
    BY <2>1, EventIs
  <2>3. CASE ledger <= store.cursor
    <3>1. ledger \in (StartLedger..store.cursor) \cap DOMAIN log
      BY <2>2, <2>3, <1>a
    <3>2. e \in EventsIn(StartLedger, store.cursor)
      BY <2>2, <3>1, EventIs
    <3> QED
      BY <3>2, <2>1, <1>1, <1>4 DEF KeptUnlessPassedOver, Kept
  <2>4. CASE ledger > store.cursor
    <3>1. Start <= ledger /\ Start \in Nat
      BY <2>2, <2>4, <1>a, IndexerAssumption DEF Start, NoCursor
    <3>2. ledger \in (run[p].start..run[p].latest) \cap DOMAIN log
      BY <2>2, <3>1, <1>2, <1>3, <1>a
    <3>3. e \in EventsIn(run[p].start, run[p].latest)
      BY <2>2, <3>2, EventIs
    <3> QED
      BY <3>3, <2>1, <1>1, <1>4 DEF Kept
  <2> QED
    BY <2>2, <2>3, <2>4, <1>a
<1>6. Kept(EventsIn(StartLedger, store'.cursor))
        = Kept(EventsIn(StartLedger, store.cursor))'
  BY <1>1 DEF Kept, EventsIn, Succeeded
<1> QED
  BY <1>4, <1>5, <1>6 DEF KeptUnlessPassedOver

IInv == Typed /\ Alone /\ KeptUnlessPassedOver

LEMMA IInvInit == Init => IInv
<1> SUFFICES ASSUME Init PROVE KeptUnlessPassedOver
  BY TypedInit, AloneInit DEF IInv
<1>1. EventsIn(StartLedger, store.cursor) = {}
  BY DEF Init, EventsIn
<1> QED
  BY <1>1 DEF KeptUnlessPassedOver, Kept

LEMMA IInvNext ==
  ASSUME OneCommand
  PROVE  IInv /\ [Next]_vars => IInv'
<1> SUFFICES ASSUME IInv, [Next]_vars PROVE IInv'
  OBVIOUS
<1>1. Typed' /\ Alone'
  BY TypedNext, AloneNext DEF IInv
<1>2. KeptUnlessPassedOver'
  <2>a. log \in Seq(Contents) /\ store.cursor \in 0..Len(log) /\ Len(log) \in Nat
    BY DEF IInv, Typed, TypeOK
  <2>1. ASSUME NEW content \in Contents, CloseLedger(content)
        PROVE  KeptUnlessPassedOver'
    <3>1. log' = Append(log, content) /\ UNCHANGED <<store, passedOver>>
      BY <2>1 DEF CloseLedger
    <3>2. StartLedger \in Int /\ store.cursor \in Int /\ store.cursor <= Len(log)
      BY <2>a, IndexerAssumption
    <3>3. /\ EventsIn(StartLedger, store.cursor)' = EventsIn(StartLedger, store.cursor)
          /\ \A e \in EventsIn(StartLedger, store.cursor) : Succeeded(e)' = Succeeded(e)
      <4>1. store'.cursor = store.cursor
        BY <3>1
      <4>2. /\ \A ledger \in DOMAIN log : log'[ledger] = log[ledger]
            /\ (StartLedger..store.cursor) \cap DOMAIN log'
                 = (StartLedger..store.cursor) \cap DOMAIN log
        BY <2>a, <3>1, <3>2
      <4>3. EventsIn(StartLedger, store.cursor)' = EventsIn(StartLedger, store.cursor)
        BY <4>1, <4>2 DEF EventsIn
      <4>4. ASSUME NEW e \in EventsIn(StartLedger, store.cursor)
            PROVE  Succeeded(e)' = Succeeded(e)
        <5>1. PICK ledger \in (StartLedger..store.cursor) \cap DOMAIN log :
                     \E i \in DOMAIN log[ledger] : e = <<ledger, i>>
          BY EventIs
        <5> QED
          BY <5>1, <4>2 DEF Succeeded
      <4> QED
        BY <4>3, <4>4
    <3> QED
      BY <3>1, <3>3 DEF IInv, KeptUnlessPassedOver, Kept
  <2>2. ASSUME NEW p \in Processes, Rename(p)
        PROVE  KeptUnlessPassedOver'
    BY <2>2, RenameKeeps DEF IInv
  <2>3. CASE UNCHANGED <<log, store, passedOver>>
    BY <2>3 DEF IInv, KeptUnlessPassedOver, Kept, EventsIn, Succeeded
  <2> QED
    BY <2>1, <2>2, <2>3
    DEF Next, IndexerNext, vars, RunOnce, GetLatest, GetEvents, LoadAgain, Die
<1> QED
  BY <1>1, <1>2 DEF IInv

(***************************************************************************)
(* A command that runs alone loses nothing but what a full page or a       *)
(* narrow window passes over.                                              *)
(***************************************************************************)
THEOREM NothingIsLost ==
  ASSUME OneCommand
  PROVE  Spec => []KeptUnlessPassedOver
<1>1. IInv /\ [Next]_vars => IInv'
  BY IInvNext
<1>2. IInv => KeptUnlessPassedOver
  BY DEF IInv
<1> QED
  BY IInvInit, <1>1, <1>2, PTL DEF Spec

(***************************************************************************)
(* A command that runs alone takes no event out of the file.               *)
(***************************************************************************)
THEOREM FileOnlyGrows ==
  ASSUME OneCommand
  PROVE  Spec => EventsOnlyGrow
<1>1. IInv /\ [Next]_vars => IInv'
  BY IInvNext
<1>2. IInv /\ [Next]_vars => [store.events \subseteq store'.events]_store
  <2> SUFFICES ASSUME IInv, [Next]_vars, store' # store
               PROVE  store.events \subseteq store'.events
    OBVIOUS
  <2>1. PICK p \in Processes : Rename(p)
    BY DEF Next, IndexerNext, vars, CloseLedger, RunOnce, GetLatest, GetEvents,
           LoadAgain, Die
  <2> QED
    BY <2>1, RenameKeeps DEF IInv
<1> QED
  BY IInvInit, <1>1, <1>2, PTL DEF Spec, EventsOnlyGrow

-----------------------------------------------------------------------------
(***************************************************************************)
(* What a copy of the file, a request under way and an answer hold: every  *)
(* subscription up to a ledger that is closed, but for what a command      *)
(* passed over.                                                            *)
(***************************************************************************)
CoveredUpTo(cursor, events) ==
  /\ cursor \in 0..Len(log)
  /\ Kept(EventsIn(StartLedger, cursor)) \subseteq events \cup passedOver

QueryCovers ==
  /\ query.step \in {"events", "api"} =>
       /\ query.first \in Nat
       /\ CoveredUpTo(query.base.cursor, query.base.events)
       /\ CoveredUpTo(query.first - 1, query.base.events \cup query.missed)
  /\ query.step = "answer" => CoveredUpTo(query.cursor, query.events \cup query.missed)

ViewInv ==
  /\ IInv
  /\ CoveredUpTo(snapshot.cursor, snapshot.events)
  /\ QueryCovers

(***************************************************************************)
(* The ledgers closed stay as they are, and what was passed over stays so. *)
(***************************************************************************)
LogGrows ==
  /\ log' = log \/ \E content \in Contents : log' = Append(log, content)
  /\ passedOver \subseteq passedOver'

(***************************************************************************)
(* What was emitted up to a ledger that is closed is settled.              *)
(***************************************************************************)
LEMMA ClosedLedgersStay ==
  ASSUME Typed, LogGrows, NEW last \in 0..Len(log)
  PROVE  /\ last \in 0..Len(log')
         /\ Kept(EventsIn(StartLedger, last))' = Kept(EventsIn(StartLedger, last))
<1>1. log \in Seq(Contents) /\ Len(log) \in Nat
  BY DEF Typed, TypeOK
<1>2. /\ last \in 0..Len(log')
      /\ \A ledger \in DOMAIN log : log'[ledger] = log[ledger]
      /\ (StartLedger..last) \cap DOMAIN log' = (StartLedger..last) \cap DOMAIN log
  BY <1>1, IndexerAssumption DEF LogGrows
<1>3. EventsIn(StartLedger, last)' = EventsIn(StartLedger, last)
  BY <1>2 DEF EventsIn
<1>4. ASSUME NEW e \in EventsIn(StartLedger, last)
      PROVE  Succeeded(e)' = Succeeded(e)
  <2>1. PICK ledger \in (StartLedger..last) \cap DOMAIN log :
               \E i \in DOMAIN log[ledger] : e = <<ledger, i>>
    BY EventIs
  <2> QED
    BY <2>1, <1>2 DEF Succeeded
<1> QED
  BY <1>2, <1>3, <1>4 DEF Kept

(***************************************************************************)
(* What covers the ledgers up to one that is closed goes on covering them. *)
(***************************************************************************)
LEMMA CoverStays ==
  ASSUME Typed, LogGrows
  PROVE  \A cursor, events : CoveredUpTo(cursor, events) => CoveredUpTo(cursor, events)'
  BY ClosedLedgersStay DEF CoveredUpTo, LogGrows

-----------------------------------------------------------------------------
(***************************************************************************)
(* The actions of the chain and of the indexer move no variable of the     *)
(* view.                                                                   *)
(***************************************************************************)
LEMMA CoverNextIdle ==
  ASSUME ViewInv, LogGrows, IInv', UNCHANGED viewVars
  PROVE  ViewInv'
<1>1. \A cursor, events : CoveredUpTo(cursor, events) => CoveredUpTo(cursor, events)'
  BY CoverStays DEF ViewInv, IInv
<1>2. UNCHANGED <<snapshot, query>>
  BY DEF viewVars
<1>3. CoveredUpTo(snapshot.cursor, snapshot.events)'
  BY <1>1, <1>2 DEF ViewInv
<1>4. QueryCovers'
  BY <1>1, <1>2 DEF ViewInv, QueryCovers
<1> QED
  BY <1>3, <1>4 DEF ViewInv

(***************************************************************************)
(* The chain and the indexer only add to the log and to what is passed     *)
(* over.                                                                   *)
(***************************************************************************)
LEMMA IndexerGrows ==
  ASSUME Typed, [Next]_vars
  PROVE  LogGrows
<1>1. ASSUME NEW content \in Contents, CloseLedger(content)
      PROVE  LogGrows
  BY <1>1 DEF CloseLedger, LogGrows
<1>2. ASSUME NEW p \in Processes, Rename(p)
      PROVE  LogGrows
  BY <1>2 DEF Rename, LogGrows
<1>3. CASE UNCHANGED <<log, passedOver>>
  BY <1>3 DEF LogGrows
<1> QED
  BY <1>1, <1>2, <1>3 DEF Next, IndexerNext, vars, RunOnce, GetLatest, GetEvents,
     LoadAgain, Die

(***************************************************************************)
(* The steps of the view leave the chain and the indexer as they are.      *)
(***************************************************************************)
LEMMA CoverSame ==
  ASSUME UNCHANGED vars
  PROVE  /\ \A cursor, events : CoveredUpTo(cursor, events)' <=> CoveredUpTo(cursor, events)
         /\ IInv => IInv'
<1>1. UNCHANGED <<log, store, run, passedOver>>
  BY DEF vars
<1>2. \A cursor, events : CoveredUpTo(cursor, events)' <=> CoveredUpTo(cursor, events)
  BY <1>1 DEF CoveredUpTo, Kept, EventsIn, Succeeded
<1>3. IInv => IInv'
  BY <1>1 DEF IInv, Typed, TypeOK, Alone, KeptUnlessPassedOver, Runs, AllEvents, EventsIn,
     Kept, Succeeded, Start
<1> QED
  BY <1>2, <1>3

(***************************************************************************)
(* A node's latest ledger is a closed one.                                 *)
(***************************************************************************)
LEMMA SeenIsClosed ==
  ASSUME Typed, NEW latest \in Seen
  PROVE  latest \in 1..Len(log) /\ latest \in Nat /\ Len(log) \in Nat
  BY IndexerAssumption DEF Typed, TypeOK, Seen

(***************************************************************************)
(* The larger of two numbers.                                              *)
(***************************************************************************)
LEMMA MaxOfTwo ==
  ASSUME NEW a \in Int, NEW b \in Int
  PROVE  Max({a, b}) = IF a >= b THEN a ELSE b
<1>1. \E m \in {a, b} : \A x \in {a, b} : m >= x
  <2>1. CASE a >= b
    BY <2>1
  <2>2. CASE b >= a
    BY <2>2
  <2> QED
    BY <2>1, <2>2
<1>2. Max({a, b}) \in {a, b} /\ Max({a, b}) >= a /\ Max({a, b}) >= b
  BY <1>1 DEF Max
<1> QED
  BY <1>2

(***************************************************************************)
(* What a request that starts at the file's end, or at the window's,       *)
(* leaves out was missed.                                                  *)
(***************************************************************************)
LEMMA MissedCovers ==
  ASSUME Typed, NEW cursor, NEW events, CoveredUpTo(cursor, events),
         NEW first \in Nat, first - 1 \in 0..Len(log),
         NEW low \in Int, first <= cursor + 1 \/ first = low
  PROVE  CoveredUpTo(first - 1, events \cup EventsIn(cursor + 1, low - 1))
<1>1. SUFFICES ASSUME NEW e \in Kept(EventsIn(StartLedger, first - 1))
               PROVE  e \in events \cup passedOver \cup EventsIn(cursor + 1, low - 1)
  BY DEF CoveredUpTo
<1>2. cursor \in 0..Len(log) /\ Len(log) \in Nat /\ cursor \in Nat
  BY DEF CoveredUpTo, Typed, TypeOK
<1>3. Succeeded(e) /\ e \in EventsIn(StartLedger, first - 1)
  BY DEF Kept
<1>4. PICK ledger \in (StartLedger..first - 1) \cap DOMAIN log :
             \E i \in DOMAIN log[ledger] : e = <<ledger, i>>
  BY <1>3, EventIs
<1>5. CASE ledger <= cursor
  <2>1. ledger \in (StartLedger..cursor) \cap DOMAIN log
    BY <1>4, <1>5, <1>2
  <2>2. e \in Kept(EventsIn(StartLedger, cursor))
    BY <1>3, <1>4, <2>1, EventIs DEF Kept
  <2> QED
    BY <2>2 DEF CoveredUpTo
<1>6. CASE ledger > cursor
  <2>1. ledger \in (cursor + 1..low - 1) \cap DOMAIN log
    BY <1>4, <1>6, <1>2
  <2> QED
    BY <1>4, <2>1, EventIs
<1> QED
  BY <1>4, <1>5, <1>6, <1>2

(***************************************************************************)
(* A page from the first ledger asked for to the node's latest one: what   *)
(* it does not hold is missed.                                             *)
(***************************************************************************)
LEMMA PageCovers ==
  ASSUME Typed, NEW first \in Nat, NEW latest \in 1..Len(log),
         NEW base, NEW missed, NEW page, NEW taken, CoveredUpTo(first - 1, base \cup missed),
         Kept(page) \subseteq taken
  PROVE  CoveredUpTo(latest, base \cup taken \cup missed
                             \cup (EventsIn(first, latest) \ page))
<1>1. SUFFICES ASSUME NEW e \in Kept(EventsIn(StartLedger, latest))
               PROVE  e \in base \cup taken \cup missed \cup passedOver
                            \cup (EventsIn(first, latest) \ page)
  <2>1. latest \in 0..Len(log)
    BY DEF Typed, TypeOK
  <2> QED
    BY <2>1 DEF CoveredUpTo
<1>2. Succeeded(e) /\ e \in EventsIn(StartLedger, latest)
  BY DEF Kept
<1>3. PICK ledger \in (StartLedger..latest) \cap DOMAIN log :
             \E i \in DOMAIN log[ledger] : e = <<ledger, i>>
  BY <1>2, EventIs
<1>4. CASE ledger < first
  <2>1. ledger \in (StartLedger..first - 1) \cap DOMAIN log
    BY <1>3, <1>4
  <2>2. e \in Kept(EventsIn(StartLedger, first - 1))
    BY <1>2, <1>3, <2>1, EventIs DEF Kept
  <2> QED
    BY <2>2 DEF CoveredUpTo
<1>5. CASE ledger >= first
  <2>1. ledger \in (first..latest) \cap DOMAIN log
    BY <1>3, <1>5
  <2>2. e \in EventsIn(first, latest)
    BY <1>3, <2>1, EventIs
  <2> QED
    BY <2>2, <1>2 DEF Kept
<1> QED
  BY <1>3, <1>4, <1>5

(***************************************************************************)
(* The view starts from the empty file.                                    *)
(***************************************************************************)
LEMMA ViewInvInit == ViewInit => ViewInv
<1> SUFFICES ASSUME ViewInit PROVE ViewInv
  OBVIOUS
<1>1. IInv /\ snapshot = store /\ query = NoQuery
  BY IInvInit DEF ViewInit
<1>2. CoveredUpTo(snapshot.cursor, snapshot.events)
  BY <1>1 DEF CoveredUpTo, IInv, KeptUnlessPassedOver, Typed, TypeOK
<1>3. QueryCovers
  BY <1>1 DEF QueryCovers, NoQuery
<1> QED
  BY <1>1, <1>2, <1>3 DEF ViewInv

(***************************************************************************)
(* A step that ends a request, or answers it with what it began with.      *)
(***************************************************************************)
LEMMA QueryEnds ==
  ASSUME ViewInv, UNCHANGED <<vars, snapshot>>,
         \/ query' = query
         \/ query' = NoQuery
         \/ /\ query.step \in {"events", "api"}
            /\ \E page : query' = Answer(page, query.base, {}, FALSE)
  PROVE  ViewInv'
<1>1. /\ \A cursor, events : CoveredUpTo(cursor, events)' <=> CoveredUpTo(cursor, events)
      /\ IInv'
  BY CoverSame DEF ViewInv
<1>2. CoveredUpTo(snapshot.cursor, snapshot.events)'
  BY <1>1 DEF ViewInv
<1>3. QueryCovers'
  <2>1. CASE query' = query
    BY <1>1, <2>1 DEF ViewInv, QueryCovers
  <2>2. CASE query' = NoQuery
    BY <2>2 DEF QueryCovers, NoQuery
  <2>3. ASSUME query.step \in {"events", "api"},
               NEW page, query' = Answer(page, query.base, {}, FALSE)
        PROVE  QueryCovers'
    <3>1. /\ query'.step = "answer" /\ query'.cursor = query.base.cursor
          /\ query'.events \cup query'.missed = query.base.events
      BY <2>3 DEF Answer
    <3>2. CoveredUpTo(query.base.cursor, query.base.events)
      BY <2>3 DEF ViewInv, QueryCovers
    <3>3. CoveredUpTo(query'.cursor, query'.events \cup query'.missed)
      BY <3>1, <3>2
    <3> QED
      BY <1>1, <3>1, <3>3 DEF QueryCovers
  <2> QED
    BY <2>1, <2>2, <2>3
<1> QED
  BY <1>1, <1>2, <1>3 DEF ViewInv

(***************************************************************************)
(* A request that begins.                                                  *)
(***************************************************************************)
LEMMA QueryBegins ==
  ASSUME ViewInv, UNCHANGED <<vars, snapshot>>, NEW latest \in Seen,
         NEW base, CoveredUpTo(base.cursor, base.events),
         NEW page, NEW first \in Nat, NEW tip, NEW step \in {"events", "api"},
         first - 1 \in 0..Len(log),
         first <= base.cursor + 1 \/ first = latest - QueryWindow,
         query' = [step |-> step, page |-> page, base |-> base, first |-> first,
                   tip |-> tip,
                   missed |-> EventsIn(base.cursor + 1, latest - QueryWindow - 1)]
  PROVE  ViewInv'
<1>1. /\ \A cursor, events : CoveredUpTo(cursor, events)' <=> CoveredUpTo(cursor, events)
      /\ IInv'
  BY CoverSame DEF ViewInv
<1>2. CoveredUpTo(snapshot.cursor, snapshot.events)'
  BY <1>1 DEF ViewInv
<1>3. Typed /\ latest - QueryWindow \in Int
  BY SeenIsClosed, IndexerAssumption DEF ViewInv, IInv
<1>4. CoveredUpTo(first - 1, base.events \cup EventsIn(base.cursor + 1,
                                                     latest - QueryWindow - 1))
  BY <1>3, MissedCovers
<1>5. /\ query'.step = step /\ query'.base = base /\ query'.first = first
      /\ query'.missed = EventsIn(base.cursor + 1, latest - QueryWindow - 1)
  OBVIOUS
<1>6. /\ CoveredUpTo(query'.base.cursor, query'.base.events)
      /\ CoveredUpTo(query'.first - 1, query'.base.events \cup query'.missed)
  BY <1>4, <1>5
<1>7. QueryCovers'
  BY <1>1, <1>5, <1>6 DEF QueryCovers
<1> QED
  BY <1>1, <1>2, <1>7 DEF ViewInv

(***************************************************************************)
(* A request that is answered with a page.                                 *)
(***************************************************************************)
LEMMA QueryIsAnswered ==
  ASSUME ViewInv, UNCHANGED <<vars, snapshot>>, NEW latest \in Seen,
         query.step \in {"events", "api"},
         NEW page, NEW taken, NEW to, NEW tip, Kept(page) \subseteq taken,
         query' = Answer(to, [cursor |-> latest, events |-> query.base.events \cup taken],
                         query.missed \cup (EventsIn(query.first, latest) \ page), tip)
  PROVE  ViewInv'
<1>1. /\ \A cursor, events : CoveredUpTo(cursor, events)' <=> CoveredUpTo(cursor, events)
      /\ IInv'
  BY CoverSame DEF ViewInv
<1>2. CoveredUpTo(snapshot.cursor, snapshot.events)'
  BY <1>1 DEF ViewInv
<1>3. Typed /\ latest \in 1..Len(log)
  BY SeenIsClosed DEF ViewInv, IInv
<1>4. query.first \in Nat /\ CoveredUpTo(query.first - 1, query.base.events \cup query.missed)
  BY DEF ViewInv, QueryCovers
<1>5. CoveredUpTo(latest, query.base.events \cup taken \cup query.missed
                          \cup (EventsIn(query.first, latest) \ page))
  BY <1>3, <1>4, PageCovers
<1>6. /\ query'.step = "answer" /\ query'.cursor = latest
      /\ query'.events = query.base.events \cup taken
      /\ query'.missed = query.missed \cup (EventsIn(query.first, latest) \ page)
  BY DEF Answer
<1>7. query'.events \cup query'.missed =
        query.base.events \cup taken \cup query.missed
          \cup (EventsIn(query.first, latest) \ page)
  BY <1>6
<1>8. CoveredUpTo(query'.cursor, query'.events \cup query'.missed)
  BY <1>5, <1>6, <1>7
<1>9. QueryCovers'
  BY <1>1, <1>6, <1>8 DEF QueryCovers
<1> QED
  BY <1>1, <1>2, <1>9 DEF ViewInv

(***************************************************************************)
(* Every step keeps the invariant of the view.                             *)
(***************************************************************************)
LEMMA ViewInvNext ==
  ASSUME OneCommand
  PROVE  ViewInv /\ [ViewNext]_<<vars, viewVars>> => ViewInv'
<1> SUFFICES ASSUME ViewInv, [ViewNext]_<<vars, viewVars>> PROVE ViewInv'
  OBVIOUS
<1>a. IInv /\ Typed /\ log \in Seq(Contents) /\ Len(log) \in Nat
  BY DEF ViewInv, IInv, Typed, TypeOK
<1>1. CASE [Next]_vars /\ UNCHANGED viewVars
  <2>1. IInv' /\ LogGrows
    BY <1>1, <1>a, IInvNext, IndexerGrows
  <2> QED
    BY <1>1, <2>1, CoverNextIdle
<1>2. CASE SyncConfig
  <2>1. snapshot' = store /\ UNCHANGED <<vars, query>>
    BY <1>2 DEF SyncConfig
  <2>2. /\ \A cursor, events : CoveredUpTo(cursor, events)' <=> CoveredUpTo(cursor, events)
        /\ IInv'
    BY <1>a, <2>1, CoverSame
  <2>3. CoveredUpTo(store.cursor, store.events)
    BY <1>a DEF IInv, CoveredUpTo, KeptUnlessPassedOver, Typed, TypeOK
  <2>4. CoveredUpTo(snapshot.cursor, snapshot.events)'
    BY <2>1, <2>2, <2>3
  <2>5. QueryCovers'
    BY <2>1, <2>2 DEF ViewInv, QueryCovers
  <2> QED
    BY <2>2, <2>4, <2>5 DEF ViewInv
<1>3. ASSUME NEW page, NEW latest \in Seen, Fetch(page, latest)
      PROVE  ViewInv'
  <2> DEFINE first == SafeStart(snapshot.cursor, latest)
             tip   == latest = Len(log)
  <2>1. /\ UNCHANGED <<vars, snapshot>>
        /\ query' = IF first >= latest THEN Answer(page, snapshot, {}, tip)
                    ELSE [step |-> "events", page |-> page, base |-> snapshot,
                          first |-> first, tip |-> tip,
                          missed |-> EventsIn(snapshot.cursor + 1,
                                              latest - QueryWindow - 1)]
    BY <1>3 DEF Fetch
  <2>2. /\ latest \in 1..Len(log) /\ latest \in Nat
        /\ snapshot.cursor \in 0..Len(log) /\ snapshot.cursor \in Nat
    BY <1>a, SeenIsClosed DEF ViewInv, CoveredUpTo
  <2>3. /\ first \in Nat /\ first - 1 \in 0..Len(log)
        /\ first <= snapshot.cursor + 1 \/ first = latest - QueryWindow
    <3>1. snapshot.cursor + 1 \in Int /\ latest - QueryWindow \in Int
      BY <2>2, IndexerAssumption
    <3>2. first = IF snapshot.cursor + 1 >= latest - QueryWindow
                  THEN snapshot.cursor + 1 ELSE latest - QueryWindow
      BY <3>1, MaxOfTwo DEF SafeStart
    <3> HIDE DEF first
    <3> QED
      BY SMTT(30), <2>2, <3>2, <1>a, IndexerAssumption
  <2> HIDE DEF first, tip
  <2>4. CASE first >= latest
    <3>1. query' = Answer(page, snapshot, {}, tip)
      BY <2>1, <2>4
    <3>2. /\ \A cursor, events : CoveredUpTo(cursor, events)' <=> CoveredUpTo(cursor, events)
          /\ IInv'
      BY <1>a, <2>1, CoverSame
    <3>3. /\ query'.step = "answer" /\ query'.cursor = snapshot.cursor
          /\ query'.events \cup query'.missed = snapshot.events
      BY <3>1 DEF Answer
    <3>4. CoveredUpTo(query'.cursor, query'.events \cup query'.missed)
      BY <3>3 DEF ViewInv
    <3>5. QueryCovers'
      BY <3>2, <3>3, <3>4 DEF QueryCovers
    <3> QED
      BY <2>1, <3>2, <3>5 DEF ViewInv
  <2>5. CASE ~(first >= latest)
    <3>1. query' = [step |-> "events", page |-> page, base |-> snapshot,
                    first |-> first, tip |-> tip,
                    missed |-> EventsIn(snapshot.cursor + 1, latest - QueryWindow - 1)]
      BY <2>1, <2>5
    <3>2. CoveredUpTo(snapshot.cursor, snapshot.events)
      BY DEF ViewInv
    <3> QED
      BY <2>1, <2>3, <3>1, <3>2, QueryBegins
  <2> QED
    BY <2>4, <2>5
<1>4. ASSUME NEW latest \in Seen, ApiReads(latest)
      PROVE  ViewInv'
  <2> DEFINE first == ApiStart(latest)
  <2>1. /\ UNCHANGED <<vars, snapshot>>
        /\ query' = [step |-> "api", page |-> "market", base |-> store,
                     first |-> first, tip |-> FALSE,
                     missed |-> EventsIn(store.cursor + 1, latest - QueryWindow - 1)]
    BY <1>4 DEF ApiReads
  <2>2. CoveredUpTo(store.cursor, store.events)
    BY <1>a DEF IInv, CoveredUpTo, KeptUnlessPassedOver, Typed, TypeOK
  <2>3. /\ latest \in 1..Len(log) /\ latest \in Nat
        /\ store.cursor \in 0..Len(log) /\ store.cursor \in Nat
    BY <1>a, <2>2, SeenIsClosed DEF CoveredUpTo
  <2>4. /\ first \in Nat /\ first - 1 \in 0..Len(log)
        /\ first <= store.cursor + 1 \/ first = latest - QueryWindow
    <3>1. latest - QueryWindow \in Int
      BY <2>3, IndexerAssumption
    <3>2. first = IF 1 >= latest - QueryWindow THEN 1 ELSE latest - QueryWindow
      BY <3>1, MaxOfTwo DEF ApiStart
    <3> HIDE DEF first
    <3> QED
      BY <2>3, <3>2, <1>a, IndexerAssumption
  <2> HIDE DEF first
  <2> QED
    BY <2>1, <2>2, <2>4, QueryBegins
<1>5. ASSUME NEW latest \in Seen, RouteEvents(latest)
      PROVE  ViewInv'
  <2> DEFINE page == FirstPage(EventsIn(query.first, latest))
             tip  == query.tip /\ latest = Len(log)
  <2>1. /\ query.step = "events" /\ UNCHANGED <<vars, snapshot>>
        /\ query' = Answer(query.page,
                       [cursor |-> latest, events |-> query.base.events \cup Kept(page)],
                       query.missed \cup (EventsIn(query.first, latest) \ page), tip)
    BY <1>5 DEF RouteEvents, Merged
  <2> HIDE DEF page, tip
  <2> QED
    BY <2>1, QueryIsAnswered
<1>6. ASSUME NEW latest \in Seen, ApiEvents(latest)
      PROVE  ViewInv'
  <2> DEFINE page == FirstPage(EventsIn(query.first, latest))
  <2>1. /\ query.step = "api" /\ UNCHANGED <<vars, snapshot>>
        /\ query' = Answer("market",
                       [cursor |-> latest, events |-> query.base.events \cup page],
                       query.missed \cup (EventsIn(query.first, latest) \ page), FALSE)
    BY <1>6 DEF ApiEvents, MergeLiveSubscriptions, Merged
  <2>2. Kept(page) \subseteq page
    BY DEF Kept
  <2> HIDE DEF page
  <2> QED
    BY <2>1, <2>2, QueryIsAnswered
<1>7. CASE RouteFails \/ ApiFallsBack
  BY <1>7, QueryEnds DEF RouteFails, ApiFallsBack
<1>8. CASE Receive \/ MarketReceives \/ GiveUp
  BY <1>8, QueryEnds DEF Receive, MarketReceives, GiveUp
<1>9. ASSUME NEW event, ShowOptimistic(event)
      PROVE  ViewInv'
  BY <1>9, QueryEnds DEF ShowOptimistic
<1>10. CASE UNCHANGED <<vars, viewVars>>
  BY <1>10, QueryEnds DEF viewVars
<1> QED
  BY <1>1, <1>2, <1>3, <1>4, <1>5, <1>6, <1>7, <1>8, <1>9, <1>10
  DEF ViewNext, LedgersClose, Next

(***************************************************************************)
(* The route's and the API's answers hold every subscription up to their   *)
(* cursor, but for what a page was too short for or a window too narrow,   *)
(* for every page size, window and lag of the nodes.                       *)
(***************************************************************************)
THEOREM AnswersAreComplete ==
  ASSUME OneCommand
  PROVE  ViewSpec => []AnswerIsComplete
<1>1. ViewInv /\ [ViewNext]_<<vars, viewVars>> => ViewInv'
  BY ViewInvNext
<1>2. ViewInv => AnswerIsComplete
  BY DEF ViewInv, QueryCovers, CoveredUpTo, AnswerIsComplete
<1> QED
  BY ViewInvInit, <1>1, <1>2, PTL DEF ViewSpec

-----------------------------------------------------------------------------
(***************************************************************************)
(* The browser's cache is a record of its two parts.                       *)
(***************************************************************************)
CacheTyped == cache = [events |-> cache.events, optimistic |-> cache.optimistic]

(***************************************************************************)
(* Every step keeps the type of the page's cache.                          *)
(***************************************************************************)
LEMMA CacheNext == CacheTyped /\ [ViewNext]_<<vars, viewVars>> => CacheTyped'
<1> SUFFICES ASSUME CacheTyped, [ViewNext]_<<vars, viewVars>> PROVE CacheTyped'
  OBVIOUS
<1>1. CASE UNCHANGED cache
  BY <1>1 DEF CacheTyped
<1>2. CASE Receive
  BY <1>2 DEF Receive, CacheTyped
<1>3. ASSUME NEW event, ShowOptimistic(event)
      PROVE  CacheTyped'
  BY <1>3 DEF ShowOptimistic, CacheTyped
<1> QED
  BY <1>1, <1>2, <1>3
  DEF ViewNext, viewVars, LedgersClose, SyncConfig, Fetch, RouteEvents, RouteFails,
      ApiReads, ApiEvents, ApiFallsBack, MarketReceives, GiveUp

(***************************************************************************)
(* A subscription just made stays in the list until the answer that holds  *)
(* its event; only the verify page's answer takes it away, whatever the    *)
(* indexer and the nodes do.                                               *)
(***************************************************************************)
THEOREM RowsStay == ViewSpec => RowStaysUntilIndexed
<1>1. ViewInit => CacheTyped
  BY DEF ViewInit, CacheTyped
<1>2. CacheTyped /\ [ViewNext]_<<vars, viewVars>> =>
        [\A event \in Rows : event \notin Rows' =>
            event \in cache.events \/ query.page = "verify"]_cache
  <2> SUFFICES ASSUME CacheTyped, [ViewNext]_<<vars, viewVars>>, cache' # cache,
                      NEW event \in Rows, event \notin Rows'
               PROVE  event \in cache.events \/ query.page = "verify"
    OBVIOUS
  <2>1. CASE Receive
    <3>1. /\ cache'.events = query.events
          /\ cache'.optimistic = IF query.page = "verify" THEN {}
                                 ELSE cache.optimistic \ query.events
      BY <2>1 DEF Receive, MergeOptimisticEvents
    <3> QED
      BY <3>1 DEF Rows
  <2>2. ASSUME NEW new, ShowOptimistic(new)
        PROVE  event \in cache.events
    <3>1. /\ cache'.events = cache.events
          /\ cache'.optimistic = cache.optimistic \cup {new}
      BY <2>2 DEF ShowOptimistic, CacheTyped
    <3> QED
      BY <3>1 DEF Rows
  <2> QED
    BY <2>1, <2>2
    DEF ViewNext, viewVars, LedgersClose, SyncConfig, Fetch, RouteEvents, RouteFails,
        ApiReads, ApiEvents, ApiFallsBack, MarketReceives, GiveUp
<1> QED
  BY <1>1, <1>2, CacheNext, PTL DEF ViewSpec, RowStaysUntilIndexed
=============================================================================
