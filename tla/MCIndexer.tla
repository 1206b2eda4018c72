----------------------------- MODULE MCIndexer -----------------------------
(***************************************************************************)
(* Five ledgers of at most two events; see the cfg files for page and      *)
(* window.                                                                 *)
(***************************************************************************)
EXTENDS Indexer

MCContents == {<< >>, <<TRUE>>, <<TRUE, FALSE>>, <<TRUE, TRUE>>}
=============================================================================
