----------------------------- MODULE EventsView -----------------------------
(***************************************************************************)
(* Events as a browser shows them.  The web app is built with a copy of    *)
(* the indexer's file; its route tops the copy up with one page from an    *)
(* RPC node per request; the browser asks the route every few seconds and  *)
(* keeps the answer in a query cache.  A subscription made in this browser *)
(* is put into the cache at once, as an optimistic row, and stays there    *)
(* until an answer holds its event.                                        *)
(*                                                                         *)
(* The market's cards count what the API finds, in the indexer's file as it *)
(* is and in one page from a node, or else what the route finds.           *)
(*                                                                         *)
(* Every event here is taken for a subscription: other names only take up  *)
(* room in the page.  A row is its event, which stands for its transaction *)
(* hash.                                                                   *)
(***************************************************************************)
EXTENDS Indexer

CONSTANTS
  MaxRows,          \* bound: subscriptions made in this browser
  MaxBuilds         \* bound: builds of the web app

VARIABLES
  snapshot,         \* web/lib/events-snapshot.json
  cache,            \* the browser's query ["indexer"]
  query,            \* the request under way
  told,             \* subscriptions this browser has made
  builds            \* bound: builds so far

viewVars == <<snapshot, cache, query, told, builds>>

NoQuery == [step |-> "none"]

ViewInit ==
  /\ Init
  /\ snapshot = store
  /\ cache = [events |-> {}, optimistic |-> {}]
  /\ query = NoQuery
  /\ told = {}
  /\ builds = 0

\* predev and prebuild copy the indexer's file.  It changes by a rename only,
\* so that a command under way may as well not have been started.
SyncConfig ==
  /\ builds < MaxBuilds
  /\ \A p \in Processes : run[p] = Idle
  /\ builds' = builds + 1
  /\ snapshot' = store
  /\ UNCHANGED <<vars, cache, query, told>>

-----------------------------------------------------------------------------
(* GET /api/events *)

FirstOverlooking(cursor, latest) == Max({cursor + 2, latest - QueryWindow})

\* safeEventStartLedger; the retention is longer than the window.
SafeStart(cursor, latest) == Max({cursor + 1, latest - QueryWindow})

\* Only the model keeps what the window or the page left out, and whether all
\* nodes that were asked were up to date.
Answer(page, state, missed, tip) ==
  [step |-> "answer", page |-> page, cursor |-> state.cursor,
   events |-> state.events, missed |-> missed, tip |-> tip]

\* The request, up to the route's first await.  Unlike the indexer, the route
\* does not ask for the latest ledger alone.  The pages with the list of
\* subscriptions merge what they get; the verify page has a query of its own
\* by the same key, which does not.
Fetch(page, latest) ==
  LET first == SafeStart(snapshot.cursor, latest)
  IN  /\ builds > 0
      /\ query = NoQuery
      /\ query' = IF first >= latest THEN Answer(page, snapshot, {}, latest = Len(log))
                  ELSE [step |-> "events", page |-> page, base |-> snapshot,
                        first |-> first, tip |-> latest = Len(log),
                        missed |-> EventsIn(snapshot.cursor + 1,
                                            latest - QueryWindow - 1)]
      /\ UNCHANGED <<vars, snapshot, cache, told, builds>>

\* liveMerge
RouteEvents(latest) ==
  LET asked  == EventsIn(query.first, latest)
      page   == FirstPage(asked)
      merged == [cursor |-> latest, events |-> Merged(query.base.events, Kept(page))]
  IN  /\ query.step = "events"
      /\ query.first <= latest
      /\ query' = Answer(query.page, merged, query.missed \cup (asked \ page),
                         query.tip /\ latest = Len(log))
      /\ UNCHANGED <<vars, snapshot, cache, told, builds>>

\* staleEventsResponse: the snapshot as it is.
RouteFails ==
  /\ query.step = "events"
  /\ query' = Answer(query.page, query.base, {}, FALSE)
  /\ UNCHANGED <<vars, snapshot, cache, told, builds>>

-----------------------------------------------------------------------------
(* GET /pools *)

\* What the events server is asked for does not depend on the file.
ApiStart(latest) == Max({1, latest - QueryWindow})

\* readIndexedEvents, after getLatestLedger.  The model bounds the time of
\* the API's requests, to before the last build.
ApiReads(latest) ==
  /\ builds < MaxBuilds
  /\ query = NoQuery
  /\ query' = [step |-> "api", page |-> "market", base |-> store,
               first |-> ApiStart(latest), tip |-> FALSE,
               missed |-> EventsIn(store.cursor + 1, latest - QueryWindow - 1)]
  /\ UNCHANGED <<vars, snapshot, cache, told, builds>>

\* mergeLiveSubscriptions: a pool, a transaction and a name make an event, as
\* the id does; calls that failed are not left out.
MergeLiveSubscriptions(base, live) == Merged(base, live)

\* The answer has no cursor of its own.
ApiEvents(latest) ==
  LET asked  == EventsIn(query.first, latest)
      page   == FirstPage(asked)
      merged == [cursor |-> latest,
                 events |-> MergeLiveSubscriptions(query.base.events, page)]
  IN  /\ query.step = "api"
      /\ query.first <= latest
      /\ query' = Answer("market", merged, query.missed \cup (asked \ page), FALSE)
      /\ UNCHANGED <<vars, snapshot, cache, told, builds>>

\* The answer of readSnapshotEvents.
ApiFallsBack ==
  /\ query.step = "api"
  /\ query' = Answer("market", query.base, {}, FALSE)
  /\ UNCHANGED <<vars, snapshot, cache, told, builds>>

-----------------------------------------------------------------------------
(* The query cache. *)

MergedKeepingAll(current) == cache.optimistic

ReplacedAtOnce(current) == {}

\* mergeOptimisticEvents
MergeOptimisticEvents(current) == cache.optimistic \ current

Receive ==
  /\ query.step = "answer"
  /\ query.page # "market"
  /\ cache' = [events |-> query.events,
               optimistic |-> IF query.page = "verify" THEN {}
                              ELSE MergeOptimisticEvents(query.events)]
  /\ query' = NoQuery
  /\ UNCHANGED <<vars, snapshot, told, builds>>

\* fetchPools, readPoolsOnChain: the cards count the answer, and keep nothing.
MarketReceives ==
  /\ query.step = "answer"
  /\ query.page = "market"
  /\ query' = NoQuery
  /\ UNCHANGED <<vars, snapshot, cache, told, builds>>

\* The request fails, or is cancelled by the next one; the data stay.  The
\* market then shows pools without subscriptions.
GiveUp ==
  /\ query # NoQuery
  /\ query' = NoQuery
  /\ UNCHANGED <<vars, snapshot, cache, told, builds>>

\* onSubmit, after the transaction is final.
ShowOptimistic(event) ==
  /\ builds > 0
  /\ event \notin told
  /\ Cardinality(told) < MaxRows
  /\ told' = told \cup {event}
  /\ cache' = [cache EXCEPT !.optimistic = @ \cup {event}]
  /\ UNCHANGED <<vars, snapshot, query, builds>>

\* subscriptions: of two rows with one hash, the optimistic one comes first.
Rows == cache.optimistic \cup cache.events

-----------------------------------------------------------------------------
AllSubscriptions == Kept(EventsIn(1, Len(log)))

LedgersClose == (\E content \in Contents : CloseLedger(content))
                  /\ UNCHANGED viewVars

\* After the last build nobody reads the indexer's file any more.
ViewNext ==
  \/ LedgersClose
  \/ builds < MaxBuilds /\ IndexerNext /\ UNCHANGED viewVars
  \/ SyncConfig
  \/ \E latest \in Seen :
        \/ \E page \in {"list", "verify", "market"} : Fetch(page, latest)
        \/ RouteEvents(latest)
        \/ ApiReads(latest)
        \/ ApiEvents(latest)
  \/ RouteFails \/ ApiFallsBack \/ Receive \/ MarketReceives \/ GiveUp
  \/ \E event \in AllSubscriptions : ShowOptimistic(event)

ViewSpec == ViewInit /\ [][ViewNext]_<<vars, viewVars>>

\* Ledgers close and requests end; the list asks again and again, and
\* infinitely many of its requests are answered, from nodes that are up to
\* date.
RequestEnds   == Receive \/ MarketReceives \/ GiveUp
TipIsAsked    == Fetch("list", Len(log))
TipAnswers    == query # NoQuery /\ query.page = "list" /\ query.tip /\ RouteEvents(Len(log))
AnswerIsTaken == query # NoQuery /\ query.page = "list" /\ query.tip /\ Receive

FairViewSpec ==
  /\ ViewSpec
  /\ WF_<<vars, viewVars>>(LedgersClose)
  /\ WF_<<vars, viewVars>>(RequestEnds)
  /\ SF_<<vars, viewVars>>(TipIsAsked)
  /\ SF_<<vars, viewVars>>(TipAnswers)
  /\ SF_<<vars, viewVars>>(AnswerIsTaken)
-----------------------------------------------------------------------------
(* Properties. *)

(***************************************************************************)
(* An answer holds every subscription up to its cursor, but for what some  *)
(* page was too short for or some window too narrow: the file or its copy, *)
(* the page of the route or of the API, and the indexer's pages fit        *)
(* together whatever each of them was told to be the latest ledger.        *)
(***************************************************************************)
AnswerIsComplete ==
  query.step = "answer" =>
    Kept(EventsIn(StartLedger, query.cursor))
      \subseteq query.events \cup passedOver \cup query.missed

(***************************************************************************)
(* A subscription just made stays in the list until its event is there, on *)
(* stale and on late answers too; only the verify page forgets it.         *)
(***************************************************************************)
RowStaysUntilIndexed ==
  [][\A event \in Rows : event \notin Rows' =>
        event \in cache.events \/ query.page = "verify"]_cache

\* In the copy, or in a page that an up to date node gives the route.
Reached(event) ==
  \/ event \in snapshot.events
  \/ LET first == SafeStart(snapshot.cursor, Len(log))
     IN  /\ first < Len(log)
         /\ event \in FirstPage(EventsIn(first, Len(log)))

PossibleEvents ==
  (StartLedger..MaxLedger) \X (1..Max({Len(content) : content \in Contents}))

(***************************************************************************)
(* "Reconcile when the indexer catches up": an optimistic row becomes an   *)
(* indexed one, if its event stays within a page of the copy and of the    *)
(* chain's end.                                                            *)
(***************************************************************************)
OptimisticIsReplaced ==
  \A event \in PossibleEvents :
     <>[]Reached(event) =>
       (event \in cache.optimistic ~> event \notin cache.optimistic)
=============================================================================
