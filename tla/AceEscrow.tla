----------------------------- MODULE AceEscrow -----------------------------
(***************************************************************************)
(* The on-chain program implements Escrow.  The free funds of an owner are *)
(* what the four buckets of the vault hold, the locked amounts are the     *)
(* unpaid payments.  What a wallet has outside is its balance and the rent *)
(* it has put into its accounts; what a vault PDA has outside is what it   *)
(* holds beyond rent and recorded total, sent to it by others.             *)
(***************************************************************************)
EXTENDS AceProgram

CONSTANT Nobody  \* marks a slot that locks nothing

ASSUME NobodyAssumption == Nobody \notin Address

(* The rent a wallet has locked in the configuration, its vault and its    *)
(* payment accounts.                                                       *)
RentPaidBy(w) ==
  (IF config.open /\ config.admin = w THEN CONFIG_RENT ELSE 0)
  + (IF w \in Owners /\ vault[w].open THEN VAULT_RENT ELSE 0)
  + PAYMENT_RENT * Cardinality({x \in OpenPayments : x[1] = w})

Worth(a) ==
  IF a \in Wallets THEN lamports[a] + RentPaidBy(a)
  ELSE LET v == vault[a[2]]
       IN lamports[a] - (IF v.open THEN VAULT_RENT + v.total ELSE 0)

LockedBy(p) ==
  IF p.open /\ p.status \in LiveStatuses
  THEN [amount |-> p.amount, for |-> p.recipient]
  ELSE [amount |-> 0, for |-> Nobody]

E == INSTANCE Escrow WITH
       Owner <- Owners, Slot <- PaymentIds, Holder <- Address, Amount <- Amounts,
       free <- [o \in Owners |-> Buckets(vault[o])],
       locked <- [o \in Owners |-> [id \in PaymentIds |-> LockedBy(payment[o][id])]],
       outside <- [a \in Address |-> Worth(a)]

(* Every behaviour of the program, seen through the mapping above, is one  *)
(* of the abstract escrow: deposits, withdrawals, locks, releases and      *)
(* settlements of the exact amounts, each locked amount settled at most    *)
(* once and to the recipient it was locked for.                            *)
ImplementsEscrow == E!Spec

(* What an unpaid payment has reserved stays reserved, to the lamport,     *)
(* until execute_payment pays its recipient or cancel_payment gives it     *)
(* back; no other instruction, and no other payment's, touches it.         *)
ReservationsKept == E!PromisesKept

=============================================================================
