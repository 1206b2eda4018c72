--------------------------- MODULE IssuerConsole ---------------------------
(***************************************************************************)
(* The issuer's page (web/app/issuer/page.tsx): a CSV becomes a tree in    *)
(* the browser, its leaves are committed from the issuer's wallet, and a   *)
(* package per row is downloaded for the investors.  Nothing is disabled   *)
(* while a commit runs but its own button.                                 *)
(*                                                                         *)
(* A package stands for its path by the tree it was cut from and the index *)
(* of its leaf.  A leaf is the identity it was computed from.              *)
(***************************************************************************)
EXTENDS ContractCalls

CONSTANTS
  Csvs,             \* files the issuer may choose: rows, parsed
  Unknown           \* the identity of a row that gives a leaf hash only

VARIABLES
  console,          \* the page's state
  files             \* packages downloaded so far

consoleVars == <<console, files>>

NoEpoch == 0        \* committedEpoch is null, or the pool is not loaded

ConsoleInit ==
  /\ console = [rows           |-> << >>,
                committedEpoch |-> NoEpoch,
                poolEpoch      |-> NoEpoch,
                refetching     |-> FALSE,
                \* Whether something came between the running commit and its
                \* answer, and whether that happened to the shown epoch.
                raced          |-> FALSE,
                excused        |-> FALSE]
  /\ files = {}

LeavesOf(rows) == [i \in DOMAIN rows |-> rows[i].leaf]
Tree           == Padded(LeavesOf(console.rows))

Committing == call["commit"] # Idle \/ console.refetching

CsvKeepingEpoch(rows) ==
  [console EXCEPT !.rows = rows, !.raced = @ \/ Committing, !.excused = FALSE]

AfterCsv(rows) ==
  [console EXCEPT !.rows = rows, !.committedEpoch = NoEpoch,
                  !.raced = @ \/ Committing, !.excused = FALSE]

ParseCsv(rows) ==
  /\ Spend("csv")
  /\ console' = AfterCsv(rows)
  /\ UNCHANGED <<files, chain, call>>

OnCommit ==
  /\ console.rows # << >>
  /\ ~Committing
  /\ Start("commit", Issuer, [kind |-> "commit", leaves |-> Tree])
  /\ console' = [console EXCEPT !.raced = FALSE]
  /\ UNCHANGED <<chain, files>>

\* The issuer's wallet stays connected: to anybody else the page shows no
\* controls.
IssuerSigns ==
  /\ \E c \in {"commit", "advance"} : Sign(c, Issuer)
  /\ UNCHANGED consoleVars

\* The page goes on to refetch the pool.
CommitReturns ==
  /\ Returns("commit")
  /\ EndPolling("commit")
  /\ console' = [console EXCEPT !.refetching = TRUE]
  /\ UNCHANGED files

CommitThrows ==
  /\ \/ Throws("commit") /\ EndPolling("commit")
     \/ EndByRejection("commit")
  /\ UNCHANGED <<console, files>>

\* A refetch that fails resolves with the data it had.
CommitRefetched(fresh) ==
  LET epoch == IF fresh THEN Epoch ELSE console.poolEpoch
  IN  /\ console.refetching
      /\ console' = [console EXCEPT !.refetching = FALSE,
                                    !.poolEpoch = epoch,
                                    !.committedEpoch = epoch,
                                    !.excused = console.raced \/ ~fresh]
      /\ UNCHANGED <<files, callVars>>

\* The query refreshes by itself.
PoolRefetched ==
  /\ Spend("refetch")
  /\ console' = [console EXCEPT !.poolEpoch = Epoch]
  /\ UNCHANGED <<files, chain, call>>

OnAdvance ==
  /\ Start("advance", Issuer, [kind |-> "advance"])
  /\ UNCHANGED <<chain, consoleVars>>

AdvanceEnds ==
  /\ \/ (Returns("advance") \/ Throws("advance")) /\ EndPolling("advance")
     \/ EndByRejection("advance")
  /\ UNCHANGED consoleVars

EpochOfPool ==
  IF console.committedEpoch # NoEpoch THEN console.committedEpoch
  ELSE console.poolEpoch

\* committedEpoch ?? pool?.epoch ?? 1
PackageEpoch ==
  IF console.committedEpoch # NoEpoch THEN console.committedEpoch
  ELSE IF console.poolEpoch # NoEpoch THEN console.poolEpoch
  ELSE 1

PackageOf(row, index) ==
  [identity |-> IF row.known THEN row.leaf ELSE Unknown,
   tree     |-> Tree,
   index    |-> index,
   epoch    |-> PackageEpoch,
   amount   |-> NoAmount]

DownloadPackage(i) ==
  /\ i \in DOMAIN console.rows
  /\ Spend("download")
  /\ files' = files \cup {PackageOf(console.rows[i], i - 1)}
  /\ UNCHANGED <<console, chain, call>>

ConsoleNext ==
  \/ \E rows \in Csvs : ParseCsv(rows)
  \/ OnCommit
  \/ IssuerSigns
  \/ CommitReturns
  \/ CommitThrows
  \/ \E fresh \in BOOLEAN : CommitRefetched(fresh)
  \/ PoolRefetched
  \/ OnAdvance
  \/ AdvanceEnds
  \/ \E i \in DOMAIN console.rows : DownloadPackage(i)

\* A roster other than the console's comes to be current while it commits.
ConsoleOvertaken ==
  console' = [console EXCEPT !.raced = @ \/ Committing]
=============================================================================
