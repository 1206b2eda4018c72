------------------------- MODULE SubscriptionLedger -------------------------
(***************************************************************************)
(* What a pool promises, without proofs, tokens or contract calls.  The    *)
(* issuer publishes a roster of accredited secrets with their caps; each   *)
(* publication, and each explicit advance, opens a new epoch.  In an epoch *)
(* a secret on the roster settles at most one subscription under each name *)
(* it has for that epoch, for an amount within its cap, and that amount    *)
(* enters the pool's escrow and its total in the same step.  Other         *)
(* deposits may raise the escrow alone.  Where a secret has one name for   *)
(* an epoch, it settles once in it.                                        *)
(*                                                                         *)
(* PoolPass.tla implements this module.                                    *)
(***************************************************************************)
EXTENDS Integers

CONSTANTS Secrets,        \* the secrets accredited investors hold
          Names,          \* the names of a secret in one epoch
          Caps            \* the caps the issuer may give them

VARIABLES roster,         \* set of <<secret, cap>> pairs accredited now
          epoch,
          settled,        \* the subscriptions settled so far
          total,          \* their amounts, added up
          escrow          \* what the pool holds

vars == <<roster, epoch, settled, total, escrow>>

Init ==
  /\ roster = {}
  /\ epoch = 0
  /\ settled = {}
  /\ total = 0
  /\ escrow = 0

Accredit ==
  /\ roster' \in SUBSET (Secrets \X Caps)
  /\ epoch' = epoch + 1
  /\ UNCHANGED <<settled, total, escrow>>

Advance ==
  /\ epoch' = epoch + 1
  /\ UNCHANGED <<roster, settled, total, escrow>>

Settle ==
  LET amount == total' - total
  IN  \E entry \in roster, name \in Names :
        /\ amount \in 1..entry[2]
        /\ \A past \in settled :
              past.secret # entry[1] \/ past.epoch # epoch \/ past.name # name
        /\ settled' = settled \cup {[secret |-> entry[1], epoch |-> epoch,
                                     name |-> name, amount |-> amount]}
        /\ escrow' = escrow + amount
        /\ UNCHANGED <<roster, epoch>>

Deposit ==
  /\ escrow' > escrow
  /\ UNCHANGED <<roster, epoch, settled, total>>

Next == Accredit \/ Advance \/ Settle \/ Deposit

Spec == Init /\ [][Next]_vars
=============================================================================
