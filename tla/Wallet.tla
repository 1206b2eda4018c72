------------------------------- MODULE Wallet -------------------------------
(***************************************************************************)
(* The investor's wallet as the page keeps it (web/lib/stellar/wallet.ts), *)
(* and the browser extension it asks.  Pages ask once when they are shown; *)
(* buttons ask again.  An answer is put down after one more question, so   *)
(* that it may be out of date by then, or follow a disconnect.  The        *)
(* network the extension is set to is for display: signatures are asked    *)
(* for the configured one.                                                 *)
(***************************************************************************)
EXTENDS ContractCalls

CONSTANTS
  Investors,        \* the accounts in the investor's extension
  FirstSelected,    \* the one of them that is selected first
  NoAddress         \* null

VARIABLES
  wallet,           \* the address the page keeps, and what it is asking
  extension         \* the selected account, and whether the site is allowed

walletVars == <<wallet, extension>>

\* An investor who is not going to connect has done so before.
WalletInit ==
  /\ extension = [selected |-> FirstSelected, allowed |-> budget["connect"] = 0]
  /\ wallet = [address |-> IF extension.allowed THEN FirstSelected ELSE NoAddress,
               asking |-> {}]

Ask(by) == [by |-> by, address |-> NoAddress]

\* init, called by each page and by the wallet button on it; questions that
\* have had the same answers count as one.
PageAsks ==
  /\ Spend("visit")
  /\ wallet' = [wallet EXCEPT !.asking = @ \cup {Ask("init")}]
  /\ UNCHANGED <<extension, chain, call>>

\* connect: there is a button on each page and one in the dialog.
Connect ==
  /\ wallet.address = NoAddress
  /\ Spend("connect")
  /\ wallet' = [wallet EXCEPT !.asking = @ \cup {Ask("connect")}]
  /\ UNCHANGED <<extension, chain, call>>

\* init asks whether the site is allowed and stops if not; requestAccess asks
\* the user to allow it.
ExtensionAnswers(ask) ==
  /\ ask \in wallet.asking
  /\ ask.address = NoAddress
  /\ ask.by = "init" => extension.allowed
  /\ wallet' = [wallet EXCEPT
                  !.asking = (@ \ {ask})
                    \cup {[ask EXCEPT !.address = extension.selected]}]
  /\ extension' = [extension EXCEPT !.allowed = TRUE]
  /\ UNCHANGED callVars

\* After getNetwork.
SetAddress(ask) ==
  /\ ask \in wallet.asking
  /\ ask.address # NoAddress
  /\ wallet' = [address |-> ask.address, asking |-> wallet.asking \ {ask}]
  /\ UNCHANGED <<extension, callVars>>

\* Not installed, not allowed, declined, or an error.
AskingFails(ask) ==
  /\ ask \in wallet.asking
  /\ wallet' = [wallet EXCEPT !.asking = @ \ {ask}]
  /\ UNCHANGED <<extension, callVars>>

\* The page forgets; the extension still allows the site.
Disconnect ==
  /\ wallet.address # NoAddress
  /\ Spend("disconnect")
  /\ wallet' = [wallet EXCEPT !.address = NoAddress]
  /\ UNCHANGED <<extension, chain, call>>

SelectAccount(account) ==
  /\ account # extension.selected
  /\ Spend("select")
  /\ extension' = [extension EXCEPT !.selected = account]
  /\ UNCHANGED <<wallet, chain, call>>

\* signXdr: the extension is asked for the address of now, which need not be
\* the one the transaction was built for.
SignXdr(c) ==
  /\ wallet.address # NoAddress
  /\ Sign(c, wallet.address)
  /\ UNCHANGED walletVars

WalletNext ==
  \/ PageAsks \/ Connect \/ Disconnect
  \/ \E ask \in wallet.asking :
        ExtensionAnswers(ask) \/ SetAddress(ask) \/ AskingFails(ask)
  \/ \E account \in Investors : SelectAccount(account)
=============================================================================
