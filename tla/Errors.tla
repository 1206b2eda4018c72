------------------------------- MODULE Errors -------------------------------
(***************************************************************************)
(* What the pages and e2e.ts make of an error: decodeError of              *)
(* web/lib/errors.ts, and contractErrorCode of src/stellar/e2e.ts.         *)
(*                                                                         *)
(* A text is what these look for in it: the marks, in order, that may name *)
(* a contract's error, and the words.  The host writes Error(Contract, #N),*)
(* for the contract that was called first and for those it called after    *)
(* it; "named" is ContractError(N), and "bare" any other #N.               *)
(***************************************************************************)
EXTENDS Integers, Sequences

CONSTANT Words             \* parts of words, in lower case

Marks == [form : {"host", "named", "bare"}, code : Nat]
Texts == [marks : Seq(Marks), words : SUBSET Words]

NoCode == -1

\* CONTRACT_ERRORS
ContractErrors ==
  [code \in 1..8 |->
     <<"Unauthorized", "InvalidProof", "RootMismatch", "EpochMismatch",
       "NullifierUsed", "AmountInvalid", "PaymentFailed", "NotInitialized">>[code]]

\* A regular expression finds the leftmost place.
IsFirst(text, i, forms) ==
  /\ i \in DOMAIN text.marks
  /\ text.marks[i].form \in forms
  /\ \A j \in 1..(i - 1) : text.marks[j].form \notin forms

Has(text, forms) == \E i \in DOMAIN text.marks : text.marks[i].form \in forms

FirstCode(text, forms) ==
  text.marks[CHOOSE i \in DOMAIN text.marks : IsFirst(text, i, forms)].code

\* The three patterns one after the other, each over the whole text.
ExtractContractCode(text) ==
  LET forms == IF Has(text, {"host"}) THEN {"host"}
               ELSE IF Has(text, {"named"}) THEN {"named"} ELSE {"bare"}
  IN  IF Has(text, forms) /\ FirstCode(text, forms) \in DOMAIN ContractErrors
      THEN FirstCode(text, forms) ELSE NoCode

\* Titles of the other failures, by the words in the text.
TitleByWords(words) ==
  IF words \cap {"user declined", "rejected", "denied"} # {} THEN "Signature declined"
  ELSE IF {"freighter", "not"} \subseteq words THEN "Freighter not found"
  ELSE IF "auth" \in words /\ words \cap {"invalid", "fail"} # {}
       THEN "Authorization failed"
  ELSE IF words \cap {"insufficient", "underfunded"} # {} THEN "Insufficient balance"
  ELSE IF words \cap {"network", "fetch", "timeout"} # {} THEN "Network error"
  ELSE "Something went wrong"

DecodeError(text) ==
  LET code == ExtractContractCode(text)
  IN  IF code # NoCode THEN ContractErrors[code] ELSE TitleByWords(text.words)

\* One pattern for both forms; any number will do.
ContractErrorCode(text) ==
  IF Has(text, {"host", "named"}) THEN FirstCode(text, {"host", "named"}) ELSE NoCode
=============================================================================
