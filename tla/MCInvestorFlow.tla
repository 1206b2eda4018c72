--------------------------- MODULE MCInvestorFlow ---------------------------
(***************************************************************************)
(* Three identities: two generated by the investor, one in the issuer's    *)
(* CSV; the investor has two accounts.                                     *)
(* A budget gives the calls either to the investor or to both sides.       *)
(***************************************************************************)
EXTENDS InvestorFlow

CONSTANTS self, again, row, unknown

MCGenerated == <<self, again>>
MCSeeded  == <<row>>
MCCap     == [i \in {self, again, row, unknown} |->
                CASE i \in {self, again} -> 2 [] i = row -> 1 [] i = unknown -> 0]
MCCsvs    == {<<[leaf |-> row, known |-> TRUE]>>,
              <<[leaf |-> self, known |-> FALSE], [leaf |-> row, known |-> TRUE]>>}

\* An investor who tries twice, one who changes package and amount, one who
\* gets the package from the issuer, an issuer in a hurry, one whom the
\* service overtakes, an investor who asks twice, one who changes accounts,
\* and one whose subscriptions are verified.
Nothing == [what \in {"subscribe", "commit", "advance", "open", "accredit", "import",
                      "edit", "prove", "csv", "refetch", "download", "connect",
                      "disconnect", "select", "visit", "verify", "check"} |-> 0]
Retrying  == [Nothing EXCEPT !["subscribe"] = 2, !["open"] = 2, !["accredit"] = 1,
                             !["prove"] = 2]
Changing  == [Nothing EXCEPT !["subscribe"] = 1, !["open"] = 2, !["accredit"] = 1,
                             !["import"] = 1, !["edit"] = 2, !["prove"] = 2]
HandedOver ==
  [Nothing EXCEPT !["subscribe"] = 1, !["open"] = 1, !["import"] = 1, !["edit"] = 1,
                  !["prove"] = 1, !["csv"] = 1, !["commit"] = 1, !["refetch"] = 1, !["download"] = 1]
BusyIssuer ==
  [Nothing EXCEPT !["csv"] = 2, !["commit"] = 2, !["advance"] = 1, !["refetch"] = 1]
OvertakenIssuer ==
  [Nothing EXCEPT !["open"] = 1, !["accredit"] = 1, !["csv"] = 1, !["commit"] = 1,
                  !["refetch"] = 1]
Accrediting ==
  [Nothing EXCEPT !["open"] = 2, !["accredit"] = 2, !["prove"] = 2, !["subscribe"] = 1]
Switching ==
  [Nothing EXCEPT !["subscribe"] = 2, !["open"] = 1, !["import"] = 1, !["prove"] = 1,
                  !["connect"] = 2, !["disconnect"] = 1, !["select"] = 1, !["visit"] = 1]
Verifying ==
  [Nothing EXCEPT !["subscribe"] = 2, !["open"] = 1, !["import"] = 1, !["prove"] = 1,
                  !["verify"] = 1, !["check"] = 2]
MCBudgets == {Retrying, Changing, HandedOver, BusyIssuer, OvertakenIssuer,
              Accrediting, Switching, Verifying}
MCPublished ==
  {[identity |-> row, tree |-> Padded(<<row>>), index |-> 0, epoch |-> 1,
    amount |-> 1]}
=============================================================================
