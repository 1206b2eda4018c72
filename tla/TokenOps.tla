------------------------------ MODULE TokenOps ------------------------------
(***************************************************************************)
(* Balance arithmetic of contracts/mock-token, the token contract that     *)
(* plays both mock USDC and the pool share token.  These operators say     *)
(* when a call succeeds and what balance map it leaves; a call that does   *)
(* not succeed leaves the map alone.  They have no state of their own:     *)
(* PoolPass.tla holds the two balance maps, MockToken.tla one.             *)
(***************************************************************************)
EXTENDS Integers

CONSTANT I128Max          \* i128::MAX, the limit of every checked_add

ASSUME I128MaxAssumption == I128Max \in Nat \ {0}

Balances == 0..I128Max

(***************************************************************************)
(* transfer: the amount is positive, the sender covers it, and the         *)
(* recipient's balance, read before anything is written, does not overflow.*)
(***************************************************************************)
CanTransferOverdrawn(balance, from, to, amount) ==
  /\ amount > 0
  /\ balance[to] + amount <= I128Max

CanTransfer(balance, from, to, amount) ==
  /\ amount > 0
  /\ balance[from] >= amount
  /\ balance[to] + amount <= I128Max

(***************************************************************************)
(* Both balances are read first and written afterwards, the recipient's    *)
(* last: with from = to the second write wins.                             *)
(***************************************************************************)
AfterTransfer(balance, from, to, amount) ==
  [balance EXCEPT ![from] = balance[from] - amount,
                  ![to]   = balance[to] + amount]

(***************************************************************************)
(* mint: signed by the stored admin, whoever asks.                         *)
(***************************************************************************)
CanMint(balance, admin, signer, to, amount) ==
  /\ amount > 0
  /\ signer = admin
  /\ balance[to] + amount <= I128Max

AfterMintOverwriting(balance, to, amount) == [balance EXCEPT ![to] = amount]

AfterMint(balance, to, amount) == [balance EXCEPT ![to] = @ + amount]
=============================================================================
