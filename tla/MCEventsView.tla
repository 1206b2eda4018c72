---------------------------- MODULE MCEventsView ----------------------------
(***************************************************************************)
(* Four ledgers, pages of one event, a window of two ledgers.           *)
(***************************************************************************)
EXTENDS EventsView

MCContents == {<< >>, <<TRUE>>, <<FALSE, TRUE>>}
=============================================================================
