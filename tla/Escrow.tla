------------------------------- MODULE Escrow -------------------------------
(***************************************************************************)
(* What the treasury program promises, with nothing of how it keeps its    *)
(* books: an owner's funds are either free or locked for one named         *)
(* recipient; only the owner's own deposits make funds; a locked amount    *)
(* goes exactly once either back to the owner's free funds or, in full,    *)
(* to its recipient.                                                       *)
(***************************************************************************)
EXTENDS Integers

CONSTANTS
  Owner,      \* who keeps funds here; some of the holders
  Slot,       \* the names an owner gives to locked amounts
  Holder,     \* everyone who holds value outside, the owners among them
  Amount,     \* the amounts that move
  Nobody      \* not a holder

VARIABLES
  free,     \* unlocked funds of each owner
  locked,   \* per owner and slot: an amount and whom it is for
  outside   \* the value each holder has outside

escrowVars == <<free, locked, outside>>

Empty == [amount |-> 0, for |-> Nobody]

Init ==
  /\ free = [o \in Owner |-> 0]
  /\ locked = [o \in Owner |-> [s \in Slot |-> Empty]]
  /\ outside \in [Holder -> Nat]

Deposit(o, a) ==
  /\ outside[o] >= a
  /\ outside' = [outside EXCEPT ![o] = @ - a]
  /\ free' = [free EXCEPT ![o] = @ + a]
  /\ UNCHANGED locked

Withdraw(o, a) ==
  /\ free[o] >= a
  /\ free' = [free EXCEPT ![o] = @ - a]
  /\ outside' = [outside EXCEPT ![o] = @ + a]
  /\ UNCHANGED locked

Lock(o, s, a, h) ==
  /\ locked[o][s] = Empty
  /\ free[o] >= a
  /\ free' = [free EXCEPT ![o] = @ - a]
  /\ locked' = [locked EXCEPT ![o][s] = [amount |-> a, for |-> h]]
  /\ UNCHANGED outside

Release(o, s) ==
  /\ locked[o][s] # Empty
  /\ free' = [free EXCEPT ![o] = @ + locked[o][s].amount]
  /\ locked' = [locked EXCEPT ![o][s] = Empty]
  /\ UNCHANGED outside

Settle(o, s) ==
  /\ locked[o][s] # Empty
  /\ outside' = [outside EXCEPT ![locked[o][s].for] = @ + locked[o][s].amount]
  /\ locked' = [locked EXCEPT ![o][s] = Empty]
  /\ UNCHANGED free

(* Value outside moves as its holders please.                              *)
Trade(g, h, a) ==
  /\ g # h
  /\ outside[g] >= a
  /\ outside' = [outside EXCEPT ![g] = @ - a, ![h] = @ + a]
  /\ UNCHANGED <<free, locked>>

Next ==
  \/ \E o \in Owner, a \in Amount : Deposit(o, a) \/ Withdraw(o, a)
  \/ \E o \in Owner, s \in Slot, a \in Amount, h \in Holder : Lock(o, s, a, h)
  \/ \E o \in Owner, s \in Slot : Release(o, s) \/ Settle(o, s)
  \/ \E g, h \in Holder : \E a \in 0..outside[g] : Trade(g, h, a)

Spec == Init /\ [][Next]_escrowVars

(* A locked amount is neither changed nor passed on: it ends by going      *)
(* back, as it is, to its owner's free funds, or to the one recipient it   *)
(* was locked for, and nothing else moves with it.                         *)
KeepsPromises ==
  \A o \in Owner, s \in Slot :
    locked[o][s] # Empty /\ locked'[o][s] # locked[o][s]
      => /\ locked' = [locked EXCEPT ![o][s] = Empty]
         /\ \/ /\ free' = [free EXCEPT ![o] = @ + locked[o][s].amount]
               /\ UNCHANGED outside
            \/ /\ outside' = [outside EXCEPT ![locked[o][s].for] = @ + locked[o][s].amount]
               /\ UNCHANGED free

PromisesKept == [][KeepsPromises]_escrowVars

=============================================================================
