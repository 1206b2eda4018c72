------------------------------ MODULE Indexer ------------------------------
(***************************************************************************)
(* The event indexer (services/indexer): a command that loads its file,    *)
(* asks an RPC node for the latest ledger and then for one page of events, *)
(* and merges the page into the file, which it loads again and replaces by *)
(* a rename.  Nothing keeps two commands from running at once.             *)
(*                                                                         *)
(* An event is a ledger and its place in it; the log says of each whether  *)
(* its contract call succeeded.  The nodes behind one RPC address may be   *)
(* some ledgers behind each other, so two requests in a row may see the    *)
(* chain shrink.  Merging by id and sorting make the stored events a set.  *)
(***************************************************************************)
EXTENDS Integers, Sequences, FiniteSets, FiniteSetsExt

CONSTANTS
  Processes,        \* indexer commands that may run at the same time
  Contents,         \* what one ledger may hold: sequences of success flags
  StartLedger,      \* ledger of the first deployment
  PageLimit,        \* 100
  QueryWindow,      \* RPC_EVENT_QUERY_LEDGERS
  MaxLag,           \* bound: ledgers a node may be behind
  MaxLedger         \* bound: ledgers closed

ASSUME IndexerAssumption ==
  /\ Contents \subseteq Seq(BOOLEAN)
  /\ StartLedger \in Nat \ {0}
  /\ PageLimit \in Nat \ {0}
  /\ QueryWindow \in Nat \ {0}
  /\ MaxLag \in Nat
  /\ MaxLedger \in Nat

VARIABLES
  log,              \* the ledgers closed so far
  store,            \* the indexer's file
  run,              \* per process: the running command
  passedOver        \* events a command asked for and was not given

vars == <<log, store, run, passedOver>>

NoCursor == 0       \* the file does not exist yet
Idle     == [step |-> "idle"]

EventsIn(first, last) ==
  UNION {{<<ledger, i>> : i \in DOMAIN log[ledger]} :
           ledger \in (first..last) \cap DOMAIN log}

Succeeded(event) == log[event[1]][event[2]]

Before(d, e) == d[1] < e[1] \/ (d[1] = e[1] /\ d[2] < e[2])

FirstPage(events) ==
  {e \in events : Cardinality({d \in events : Before(d, e)}) < PageLimit}

Init ==
  /\ log = << >>
  /\ store = [cursor |-> NoCursor, events |-> {}]
  /\ run = [p \in Processes |-> Idle]
  /\ passedOver = {}

\* The contracts have no events before they are deployed.
CloseLedger(content) ==
  /\ Len(log) < MaxLedger
  /\ Len(log) + 1 < StartLedger => content = << >>
  /\ log' = Append(log, content)
  /\ UNCHANGED <<store, run, passedOver>>

\* What some node calls its latest ledger.
Seen == {n \in (Len(log) - MaxLag)..Len(log) : n > 0}

StartOverlooking == IF store.cursor = NoCursor THEN StartLedger ELSE store.cursor + 2

Start == IF store.cursor = NoCursor THEN StartLedger ELSE store.cursor + 1

RunOnce(p) ==
  /\ run[p] = Idle
  /\ run' = [run EXCEPT ![p] = [step |-> "latest", start |-> Start]]
  /\ UNCHANGED <<log, store, passedOver>>

Clamped(start, latest) == Max({start, latest - QueryWindow})

PageOfNextStart(p, events, latest) ==
  [step |-> "merge", start |-> run[p].start, events |-> events,
   latest |-> latest + 1]

Page(p, events, latest) ==
  [step |-> "merge", start |-> run[p].start, events |-> events, latest |-> latest]

\* getLatestLedger; a start beyond it is an empty page.
GetLatest(p) ==
  /\ run[p].step = "latest"
  /\ \E latest \in Seen :
        LET first == Clamped(run[p].start, latest)
        IN  run' = [run EXCEPT ![p] =
                      IF first > latest THEN Page(p, {}, latest)
                      ELSE [step |-> "fetch", start |-> @.start, first |-> first]]
  /\ UNCHANGED <<log, store, passedOver>>

\* getEvents; a node that is not as far as the start refuses, see Die.
GetEvents(p) ==
  /\ run[p].step = "fetch"
  /\ \E latest \in Seen :
        /\ run[p].first <= latest
        /\ run' = [run EXCEPT ![p] =
                     Page(p, FirstPage(EventsIn(run[p].first, latest)), latest)]
  /\ UNCHANGED <<log, store, passedOver>>

\* The second load, in EventStore.merge.
LoadAgain(p) ==
  /\ run[p].step = "merge"
  /\ run' = [run EXCEPT ![p] = [step |-> "rename", start |-> @.start,
                                events |-> @.events, latest |-> @.latest,
                                base |-> store.events]]
  /\ UNCHANGED <<log, store, passedOver>>

Kept(events) == {e \in events : Succeeded(e)}

MergedAnew(base, events) == events

Merged(base, events) == base \cup events

Rename(p) ==
  /\ run[p].step = "rename"
  /\ store' = [cursor |-> run[p].latest,
               events |-> Merged(run[p].base, Kept(run[p].events))]
  /\ passedOver' = passedOver \cup
                     (EventsIn(run[p].start, run[p].latest) \ run[p].events)
  /\ run' = [run EXCEPT ![p] = Idle]
  /\ UNCHANGED log

\* A request fails, the node refuses, or the process dies.
Die(p) ==
  /\ run[p] # Idle
  /\ run' = [run EXCEPT ![p] = Idle]
  /\ UNCHANGED <<log, store, passedOver>>

IndexerNext ==
  \E p \in Processes :
     \/ RunOnce(p) \/ GetLatest(p) \/ GetEvents(p)
     \/ LoadAgain(p) \/ Rename(p) \/ Die(p)

Next == (\E content \in Contents : CloseLedger(content)) \/ IndexerNext

Spec == Init /\ [][Next]_vars
-----------------------------------------------------------------------------
(* Properties. *)

AllEvents == EventsIn(1, Len(log))

Runs ==
  {Idle}
  \cup [step : {"latest"}, start : Nat]
  \cup [step : {"fetch"}, start : Nat, first : Nat]
  \cup [step : {"merge"}, start : Nat, events : SUBSET AllEvents, latest : Nat]
  \cup [step : {"rename"}, start : Nat, events : SUBSET AllEvents, latest : Nat,
        base : SUBSET AllEvents]

TypeOK ==
  /\ log \in Seq(Contents)
  /\ store.cursor \in 0..Len(log)
  /\ store.events \subseteq AllEvents
  /\ run \in [Processes -> Runs]
  /\ passedOver \subseteq AllEvents

(***************************************************************************)
(* Every successful event up to the cursor is in the file, unless a page   *)
(* was too short for it or the window too narrow: crashes, lagging nodes   *)
(* and empty pages lose nothing.                                           *)
(***************************************************************************)
KeptUnlessPassedOver ==
  Kept(EventsIn(StartLedger, store.cursor)) \subseteq store.events \cup passedOver

(***************************************************************************)
(* No command takes out of the file what an earlier one put there, even    *)
(* when a lagging node moves the cursor back.                              *)
(***************************************************************************)
EventsOnlyGrow == [][store.events \subseteq store'.events]_store

(***************************************************************************)
(* The indexer keeps the successful contract calls: each one up to its     *)
(* cursor is in the file (the frontend guide's description).               *)
(***************************************************************************)
KeepsSuccessfulCalls ==
  Kept(EventsIn(StartLedger, store.cursor)) \subseteq store.events
=============================================================================
