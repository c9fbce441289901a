-------------------------- MODULE AceProgram_proofs --------------------------
(***************************************************************************)
(* What holds of AceProgram for all values of its constants: the types,    *)
(* the books of the vaults, what a step may do to a vault and what it may  *)
(* do to a payment.                                                        *)
(***************************************************************************)
EXTENDS AceProgram, SumLemmas

-----------------------------------------------------------------------------
(* Constants and arithmetic.                                               *)

(* Every owner has a vault address, which is no wallet and no other        *)
(* owner's.                                                                *)
LEMMA VaultPdas ==
  /\ Wallets \subseteq Address
  /\ \A o \in Owners : /\ o \in Wallets /\ o \in Address
                       /\ VaultPda(o) \in Address /\ VaultPda(o) \notin Wallets
  /\ \A o, p \in Owners : VaultPda(o) = VaultPda(p) => o = p
BY WalletsAssumption DEF Address, VaultPda

(* The records that stand for absent accounts have their types.            *)
LEMMA ConstantTypes ==
  /\ AnyWallet \in Wallets
  /\ NoConfig \in Config /\ NoVault \in Vault /\ NoPayment \in Payment
<1>1. AnyWallet \in Wallets
  BY WalletsAssumption DEF AnyWallet
<1>2. AnyWallet \in Address
  BY <1>1, VaultPdas
<1>3. 0 \in U64 /\ 0 \in Percent
  BY LimitsAssumption DEF U64, Percent
<1>4. QED
  BY <1>1, <1>2, <1>3
  DEF NoConfig, Config, NoVault, Vault, Allocation, MODE_SAFE,
      NoPayment, Payment, Statuses, STATUS_PENDING

(* A bucket receives at most its percentage of a deposit.                  *)
LEMMA ShareBounds ==
  ASSUME NEW amount \in Nat, NEW pct \in Percent
  PROVE  Share(amount, pct) \in Nat /\ 100 * Share(amount, pct) <= amount * pct
BY Z3 DEF Share, Percent

(* The shares of the three rounded buckets together do not exceed the      *)
(* deposit, so that the remainder given to the liquid bucket is not        *)
(* negative and the four shares add up to the deposit.                     *)
LEMMA SharesFit ==
  ASSUME NEW amount \in Nat, NEW a \in Allocation, SumsTo100(a)
  PROVE  Share(amount, a.yield) + Share(amount, a.reserve) + Share(amount, a.payments)
           <= amount
<1>0. /\ a.yield \in Percent /\ a.reserve \in Percent
      /\ a.payments \in Percent /\ a.liquid \in Percent
  BY DEF Allocation
<1> DEFINE y == a.yield
           r == a.reserve
           l == a.liquid
           p == a.payments
<1>1. y + r + l + p = 100
  BY DEF SumsTo100
<1>2. y \in 0..100 /\ r \in 0..100 /\ l \in 0..100 /\ p \in 0..100
  BY <1>0 DEF Percent
<1>3. /\ Share(amount, y) \in Nat /\ 100 * Share(amount, y) <= amount * y
      /\ Share(amount, r) \in Nat /\ 100 * Share(amount, r) <= amount * r
      /\ Share(amount, p) \in Nat /\ 100 * Share(amount, p) <= amount * p
  BY <1>0, ShareBounds
<1> HIDE DEF y, r, l, p
<1>3b. y + r + p <= 100
  BY <1>1, <1>2
<1>4. amount * y + amount * r + amount * p = amount * (y + r + p)
  BY <1>2, Z3
<1>5. amount * (y + r + p) <= amount * 100
  BY <1>2, <1>3b, Z3
<1>6. /\ amount * y \in Nat /\ amount * r \in Nat /\ amount * p \in Nat
  BY <1>2, Z3
<1>7. 100 * (Share(amount, y) + Share(amount, r) + Share(amount, p)) <= 100 * amount
  BY <1>3, <1>4, <1>5, <1>6, Z3
<1>8. QED
  BY <1>3, <1>7, Z3 DEF y, r, p

-----------------------------------------------------------------------------
(* Types.                                                                  *)

(* A transfer between two addresses keeps every balance a u64.             *)
LEMMA MovedType ==
  ASSUME lamports \in [Address -> U64],
         NEW from \in Address, NEW to \in Address, from # to, NEW amount \in Nat,
         lamports[from] >= amount, Fits(lamports[to] + amount)
  PROVE  Moved(from, to, amount) \in [Address -> U64]
<1>1. lamports[from] - amount \in U64
  BY LimitsAssumption DEF U64
<1>2. lamports[to] + amount \in U64
  BY LimitsAssumption DEF U64, Fits
<1>3. QED
  BY <1>1, <1>2 DEF Moved

(* Init establishes the types and every step keeps them.                   *)
LEMMA InitType == Init => TypeOK
<1> SUFFICES ASSUME Init PROVE TypeOK
  OBVIOUS
<1>1. lamports \in [Address -> U64]
  <2>1. 0 \in U64
    BY LimitsAssumption DEF U64
  <2> QED BY <2>1, WalletsAssumption DEF Init
<1>2. QED
  BY <1>1, ConstantTypes DEF Init, TypeOK

(* Every step keeps the types: what is stored was checked to fit a u64 or  *)
(* is at most something that did.                                          *)
LEMMA NextType == TypeOK /\ [Next]_vars => TypeOK'
<1> SUFFICES ASSUME TypeOK, [Next]_vars PROVE TypeOK'
  OBVIOUS
<1> USE DEF TypeOK
<1>1. ASSUME NEW w \in Wallets, initialize_protocol(w)
      PROVE  TypeOK'
  <2>1. lamports' \in [Address -> U64]
    <3>1. w \in Address BY VaultPdas
    <3>2. lamports[w] - CONFIG_RENT \in U64
      BY <1>1, <3>1, LimitsAssumption DEF initialize_protocol, U64
    <3> QED BY <1>1, <3>2 DEF initialize_protocol
  <2> QED BY <1>1, <2>1 DEF initialize_protocol, Config
<1>2. ASSUME NEW w \in Wallets, NEW paused \in BOOLEAN, set_protocol_paused(w, paused)
      PROVE  TypeOK'
  BY <1>2 DEF set_protocol_paused, Config
<1>3. ASSUME NEW o \in Owners, NEW alloc \in Allocations, initialize_vault(o, alloc)
      PROVE  TypeOK'
  <2>1. lamports' \in [Address -> U64]
    <3> DEFINE topUp == TopUp(o)
    <3>1. o \in Address /\ VaultPda(o) \in Address /\ o # VaultPda(o)
      BY VaultPdas
    <3>2. topUp \in Nat /\ Fits(lamports[VaultPda(o)] + topUp)
      BY <3>1, LimitsAssumption DEF TopUp, SatSub, U64, Fits
    <3>3. lamports[o] >= topUp /\ lamports' = Moved(o, VaultPda(o), topUp)
      BY <1>3 DEF initialize_vault
    <3> HIDE DEF topUp
    <3> QED BY <3>1, <3>2, <3>3, MovedType
  <2>2. vault' \in [Owners -> Vault]
    <3>1. [NoVault EXCEPT !.open = TRUE, !.alloc = alloc,
                          !.mode = MODE_SAFE, !.cap = DEFAULT_AI_CAP] \in Vault
      BY ConstantTypes, InputsAssumption, LimitsAssumption DEF Vault, MODE_SAFE
    <3> QED BY <1>3, <3>1 DEF initialize_vault
  <2> QED BY <1>3, <2>1, <2>2 DEF initialize_vault
<1>4. ASSUME NEW o \in Owners, NEW amount \in Amounts, deposit(o, amount)
      PROVE  TypeOK'
  <2>0. amount \in U64 /\ amount \in Nat
    BY InputsAssumption DEF U64
  <2>1. lamports' \in [Address -> U64]
    BY <1>4, <2>0, VaultPdas, MovedType DEF deposit, MoveOk
  <2>2. vault' \in [Owners -> Vault]
    <3> DEFINE v == vault[o]
               y == Share(amount, v.alloc.yield)
               r == Share(amount, v.alloc.reserve)
               p == Share(amount, v.alloc.payments)
               l == SatSub(SatSub(SatSub(amount, y), r), p)
    <3>1. v \in Vault
      OBVIOUS
    <3>2. y \in Nat /\ r \in Nat /\ p \in Nat
      BY <2>0, <3>1, ShareBounds DEF Vault, Allocation
    <3>3. l \in Nat
      <4> HIDE DEF y, r, p
      <4> QED BY <2>0, <3>2 DEF SatSub
    <3>4. /\ Fits(v.total + amount) /\ Fits(v.yield + y) /\ Fits(v.reserve + r)
          /\ Fits(v.liquid + l) /\ Fits(v.payments + p)
      BY <1>4 DEF deposit
    <3>5. vault' = [vault EXCEPT ![o] = [v EXCEPT !.total = v.total + amount,
                   !.yield = v.yield + y, !.reserve = v.reserve + r,
                   !.liquid = v.liquid + l, !.payments = v.payments + p]]
      BY <1>4 DEF deposit
    <3> HIDE DEF v, y, r, p, l
    <3>6. /\ v.total + amount \in U64 /\ v.yield + y \in U64 /\ v.reserve + r \in U64
          /\ v.liquid + l \in U64 /\ v.payments + p \in U64
      BY <2>0, <3>1, <3>2, <3>3, <3>4, LimitsAssumption DEF Vault, U64, Fits
    <3>7. [v EXCEPT !.total = v.total + amount,
                   !.yield = v.yield + y, !.reserve = v.reserve + r,
                   !.liquid = v.liquid + l, !.payments = v.payments + p] \in Vault
      BY <3>1, <3>6 DEF Vault
    <3> QED BY <3>5, <3>7
  <2> QED BY <1>4, <2>1, <2>2 DEF deposit
<1>5. ASSUME NEW o \in Owners, NEW amount \in Amounts, withdraw(o, amount)
      PROVE  TypeOK'
  <2>0. amount \in U64 /\ amount \in Nat
    BY InputsAssumption DEF U64
  <2>1. lamports' \in [Address -> U64]
    BY <1>5, <2>0, VaultPdas, MovedType DEF withdraw, MoveOk
  <2>2. vault' \in [Owners -> Vault]
    <3> DEFINE v == vault[o]
    <3>1. v \in Vault
      OBVIOUS
    <3>2. vault' = [vault EXCEPT ![o] = [v EXCEPT !.total = SatSub(v.total, amount),
                                                  !.liquid = SatSub(v.liquid, amount)]]
      BY <1>5 DEF withdraw
    <3> HIDE DEF v
    <3>3. SatSub(v.total, amount) \in U64 /\ SatSub(v.liquid, amount) \in U64
      BY <2>0, <3>1, LimitsAssumption DEF SatSub, Vault, U64
    <3>4. [v EXCEPT !.total = SatSub(v.total, amount), !.liquid = SatSub(v.liquid, amount)] \in Vault
      BY <3>1, <3>3 DEF Vault
    <3> QED BY <3>2, <3>4
  <2> QED BY <1>5, <2>1, <2>2 DEF withdraw
<1>6. ASSUME NEW o \in Owners, NEW mode \in Modes, NEW cap \in Caps, NEW alloc \in Allocations,
             update_vault_config(o, mode, cap, alloc)
      PROVE  TypeOK'
  <2>1. [vault[o] EXCEPT !.mode = mode, !.cap = cap, !.alloc = alloc] \in Vault
    <3>1. vault[o] \in Vault /\ mode \in Nat /\ cap \in U64 /\ alloc \in Allocation
      BY InputsAssumption
    <3> QED BY <3>1 DEF Vault
  <2> QED BY <1>6, <2>1 DEF update_vault_config
<1>7. ASSUME NEW o \in Owners, NEW id \in PaymentIds, NEW recipient \in Recipients,
             NEW amount \in Amounts, NEW kind \in Kinds, NEW priority \in Priorities,
             schedule_payment(o, id, recipient, amount, kind, priority)
      PROVE  TypeOK'
  <2>0. amount \in U64 /\ amount \in Nat
    BY InputsAssumption DEF U64
  <2>1. lamports' \in [Address -> U64]
    <3>1. o \in Address BY VaultPdas
    <3>2. lamports[o] - PAYMENT_RENT \in U64
      BY <1>7, <3>1, LimitsAssumption DEF schedule_payment, U64
    <3> QED BY <1>7, <3>2 DEF schedule_payment
  <2>2. vault' \in [Owners -> Vault]
    <3>1. ReserveFunds(vault[o], amount) \in Vault
      <4> DEFINE v == vault[o]
      <4>1. v \in Vault
        OBVIOUS
      <4> HIDE DEF v
      <4>2. SatSub(v.payments, amount) \in U64 /\ SatSub(v.liquid, amount) \in U64
        BY <2>0, <4>1, LimitsAssumption DEF SatSub, Vault, U64
      <4>3. ReserveFunds(v, amount) \in Vault
        BY <4>1, <4>2 DEF ReserveFunds, Vault
      <4> QED BY <4>3 DEF v
    <3> QED BY <1>7, <3>1 DEF schedule_payment
  <2>3. payment' \in [Owners -> [PaymentIds -> Payment]]
    <3> DEFINE needed == RequiresApproval(vault[o], amount)
               new == [open |-> TRUE, recipient |-> recipient, amount |-> amount,
                       status |-> IF needed THEN STATUS_PENDING ELSE STATUS_SCHEDULED,
                       kind |-> kind, priority |-> priority,
                       approved |-> ~needed]
    <3>1. payment' = [payment EXCEPT ![o][id] = new]
      BY <1>7 DEF schedule_payment
    <3>2. recipient \in Address /\ kind \in Nat /\ priority \in Nat
      BY InputsAssumption
    <3>3. STATUS_PENDING \in Statuses /\ STATUS_SCHEDULED \in Statuses
      BY DEF Statuses
    <3> HIDE DEF needed
    <3>4. new \in Payment
      <4>1. CASE needed
        <5>1. new = [open |-> TRUE, recipient |-> recipient, amount |-> amount,
                     status |-> STATUS_PENDING, kind |-> kind, priority |-> priority,
                     approved |-> FALSE]
          BY <4>1, Zenon
        <5> HIDE DEF new
        <5> QED BY <2>0, <3>2, <3>3, <5>1 DEF Payment
      <4>2. CASE ~needed
        <5>1. new = [open |-> TRUE, recipient |-> recipient, amount |-> amount,
                     status |-> STATUS_SCHEDULED, kind |-> kind, priority |-> priority,
                     approved |-> TRUE]
          BY <4>2, Zenon
        <5> HIDE DEF new
        <5> QED BY <2>0, <3>2, <3>3, <5>1 DEF Payment
      <4> QED BY <4>1, <4>2
    <3> HIDE DEF new
    <3> QED BY <3>1, <3>4
  <2> QED BY <1>7, <2>1, <2>2, <2>3 DEF schedule_payment
<1>8. ASSUME NEW o \in Owners, NEW id \in PaymentIds, approve_payment(o, id)
      PROVE  TypeOK'
  <2>1. payment' \in [Owners -> [PaymentIds -> Payment]]
    <3>1. [payment[o][id] EXCEPT !.approved = TRUE, !.status = STATUS_SCHEDULED] \in Payment
      <4>1. payment[o][id] \in Payment /\ STATUS_SCHEDULED \in Statuses
        BY DEF Statuses
      <4> QED BY <4>1 DEF Payment
    <3> QED BY <1>8, <3>1 DEF approve_payment
  <2> QED BY <1>8, <2>1 DEF approve_payment
<1>9. ASSUME NEW o \in Owners, NEW id \in PaymentIds, execute_payment(o, id)
      PROVE  TypeOK'
  <2>0. payment[o][id] \in Payment /\ payment[o][id].amount \in Nat
    BY DEF Payment, U64
  <2>1. lamports' \in [Address -> U64]
    BY <1>9, <2>0, VaultPdas, MovedType DEF execute_payment, MoveOk, Payment
  <2>2. vault' \in [Owners -> Vault]
    <3>1. SatSub(vault[o].total, payment[o][id].amount) \in U64
      BY <2>0, LimitsAssumption DEF SatSub, Vault, U64
    <3> QED BY <1>9, <3>1 DEF execute_payment, Vault
  <2>3. payment' \in [Owners -> [PaymentIds -> Payment]]
    <3>1. [payment[o][id] EXCEPT !.status = STATUS_COMPLETED] \in Payment
      <4>1. STATUS_COMPLETED \in Statuses
        BY DEF Statuses
      <4> QED BY <2>0, <4>1 DEF Payment
    <3> QED BY <1>9, <3>1 DEF execute_payment
  <2> QED BY <1>9, <2>1, <2>2, <2>3 DEF execute_payment
<1>10. ASSUME NEW o \in Owners, NEW id \in PaymentIds, cancel_payment(o, id)
       PROVE  TypeOK'
  <2>0. payment[o][id] \in Payment /\ payment[o][id].amount \in Nat
    BY DEF Payment, U64
  <2>1. lamports' \in [Address -> U64]
    <3>1. o \in Address BY VaultPdas
    <3>2. lamports[o] + PAYMENT_RENT \in U64
      BY <1>10, <3>1, LimitsAssumption DEF cancel_payment, U64, Fits
    <3> QED BY <1>10, <3>2 DEF cancel_payment
  <2>2. vault' \in [Owners -> Vault]
    <3>1. vault[o].liquid + payment[o][id].amount \in U64
      BY <1>10, <2>0, LimitsAssumption DEF cancel_payment, Vault, U64, Fits
    <3> QED BY <1>10, <3>1 DEF cancel_payment, Vault
  <2>3. payment' \in [Owners -> [PaymentIds -> Payment]]
    BY <1>10, ConstantTypes DEF cancel_payment
  <2> QED BY <1>10, <2>1, <2>2, <2>3 DEF cancel_payment
<1>11. ASSUME NEW from \in Wallets, NEW o \in Owners, NEW amount \in Gifts,
              SystemTransfer(from, VaultPda(o), amount)
       PROVE  TypeOK'
  <2>0. amount \in Nat
    BY InputsAssumption DEF U64
  <2>1. lamports' \in [Address -> U64]
    BY <1>11, <2>0, VaultPdas, MovedType DEF SystemTransfer, MoveOk
  <2> QED BY <1>11, <2>1 DEF SystemTransfer
<1>12. CASE UNCHANGED vars
  BY <1>12 DEF vars
<1>13. QED
  BY <1>1, <1>2, <1>3, <1>4, <1>5, <1>6, <1>7, <1>8, <1>9, <1>10, <1>11, <1>12
  DEF Next, ProtocolStep, VaultStep, PaymentStep

(* Every reachable state has its types: every stored amount is a u64.      *)
THEOREM TypeCorrect == Spec => []TypeOK
BY InitType, NextType, PTL DEF Spec

-----------------------------------------------------------------------------
(* The books of the vaults: the recorded total of every vault is what its  *)
(* buckets and its unpaid payments hold, and the PDA holds that total and  *)
(* its rent.  Both follow from VaultInv, which is inductive.               *)

-----------------------------------------------------------------------------
(* Sums of held amounts.                                                   *)

(* What a payment holds is a natural number, so is what all of an owner's  *)
(* payments hold together, and no payment holds more than all.             *)
LEMMA HeldType ==
  ASSUME TypeOK, NEW o \in Owners
  PROVE  /\ \A id \in PaymentIds : HeldBy(o)[id] = Held(payment[o][id])
         /\ \A id \in PaymentIds : Held(payment[o][id]) \in Nat
         /\ Reserved(o) \in Nat
         /\ \A id \in PaymentIds : Held(payment[o][id]) <= Reserved(o)
<1>1. \A id \in PaymentIds : HeldBy(o)[id] = Held(payment[o][id])
  BY DEF HeldBy
<1>2. \A id \in PaymentIds : Held(payment[o][id]) \in Nat
  <2> SUFFICES ASSUME NEW id \in PaymentIds PROVE Held(payment[o][id]) \in Nat
    OBVIOUS
  <2>1. payment[o][id] \in Payment
    BY DEF TypeOK
  <2>2. payment[o][id].amount \in Nat
    BY <2>1 DEF Payment, U64
  <2> QED BY <2>2 DEF Held
<1>3. Reserved(o) \in Nat
  BY <1>1, <1>2, InputsAssumption, SumNat DEF Reserved
<1>4. \A id \in PaymentIds : HeldBy(o)[id] <= Reserved(o)
  BY <1>1, <1>2, InputsAssumption, SumBoundsMember DEF Reserved
<1>5. QED
  BY <1>1, <1>2, <1>3, <1>4

(* An owner whose payments do not change has the same amount reserved.     *)
LEMMA ReservedFrame ==
  ASSUME NEW o \in Owners, payment'[o] = payment[o]
  PROVE  Reserved(o)' = Reserved(o)
BY DEF Reserved, HeldBy

(* When one payment becomes q, the amount its owner has reserved changes   *)
(* by the difference of what the two hold, and no one else's does.         *)
LEMMA ReservedStep ==
  ASSUME TypeOK, NEW o \in Owners, NEW id \in PaymentIds, NEW q \in Payment,
         payment' = [payment EXCEPT ![o][id] = q]
  PROVE  /\ Reserved(o)' + Held(payment[o][id]) = Reserved(o) + Held(q)
         /\ Reserved(o)' \in Nat
         /\ \A x \in Owners \ {o} : Reserved(x)' = Reserved(x)
<1> DEFINE f == HeldBy(o)
           g == [i \in PaymentIds |-> Held(payment'[o][i])]
<1>1. \A i \in PaymentIds : payment'[o][i] = IF i = id THEN q ELSE payment[o][i]
  BY DEF TypeOK
<1>2. Held(q) \in Nat
  <2>1. q.amount \in Nat BY DEF Payment, U64
  <2> QED BY <2>1 DEF Held
<1>3. \A i \in PaymentIds : f[i] \in Nat /\ f[i] = Held(payment[o][i])
  BY HeldType
<1>4. \A i \in PaymentIds : g[i] = IF i = id THEN Held(q) ELSE f[i]
  BY <1>1, <1>3
<1>5. Reserved(o)' = SumFunctionOnSet(g, PaymentIds)
  BY DEF Reserved, HeldBy
<1>6. Reserved(o) = SumFunctionOnSet(f, PaymentIds)
  BY DEF Reserved
<1> HIDE DEF f, g
<1>7. SumFunctionOnSet(g, PaymentIds) + f[id] = SumFunctionOnSet(f, PaymentIds) + g[id]
  <2>1. \A i \in PaymentIds : f[i] \in Int /\ g[i] \in Int
    BY <1>2, <1>3, <1>4
  <2>2. \A i \in PaymentIds \ {id} : f[i] = g[i]
    BY <1>4
  <2> QED BY <2>1, <2>2, InputsAssumption, SumUpdate
<1>8. SumFunctionOnSet(g, PaymentIds) \in Nat
  BY <1>2, <1>3, <1>4, InputsAssumption, SumNat
<1>9. \A x \in Owners \ {o} : payment'[x] = payment[x]
  BY DEF TypeOK
<1>10. QED
  BY <1>3, <1>4, <1>5, <1>6, <1>7, <1>8, <1>9, ReservedFrame

-----------------------------------------------------------------------------
(* The invariant, owner by owner.                                          *)

WellFormed(o) ==
  IF vault[o].open
  THEN SumsTo100(vault[o].alloc)
  ELSE vault[o] = NoVault /\ \A id \in PaymentIds : ~payment[o][id].open
Balanced(o) == vault[o].total = Buckets(vault[o]) + Reserved(o)
Solvent(o) == vault[o].open => lamports[VaultPda(o)] >= VAULT_RENT + vault[o].total
OwnerInv(o) == WellFormed(o) /\ Balanced(o) /\ Solvent(o)

(* The invariant is one fact per owner, which is how the instructions are  *)
(* proved to keep it.                                                      *)
LEMMA VaultInvByOwner == VaultInv <=> TypeOK /\ \A o \in Owners : OwnerInv(o)
BY DEF VaultInv, VaultsWellFormed, VaultAccounting, VaultSolvent,
       OwnerInv, WellFormed, Balanced, Solvent

(* The values in a vault and its PDA are natural numbers.                  *)
LEMMA VaultTypes ==
  ASSUME TypeOK, NEW o \in Owners
  PROVE  /\ vault[o] \in Vault
         /\ vault[o].total \in Nat /\ vault[o].yield \in Nat /\ vault[o].reserve \in Nat
         /\ vault[o].liquid \in Nat /\ vault[o].payments \in Nat
         /\ lamports[VaultPda(o)] \in Nat /\ VAULT_RENT \in Nat /\ U64_MAX \in Nat
<1>1. vault[o] \in Vault
  BY DEF TypeOK
<1>2. lamports[VaultPda(o)] \in U64
  BY VaultPdas DEF TypeOK
<1> QED BY <1>1, <1>2, LimitsAssumption DEF Vault, U64

(* An owner whose vault and payments do not change and whose PDA loses     *)
(* nothing keeps the invariant.                                            *)
LEMMA OwnerFrame ==
  ASSUME TypeOK, NEW o \in Owners, OwnerInv(o),
         vault'[o] = vault[o], payment'[o] = payment[o],
         lamports'[VaultPda(o)] \in Nat,
         lamports'[VaultPda(o)] >= lamports[VaultPda(o)]
  PROVE  OwnerInv(o)'
<1>1. Reserved(o)' = Reserved(o)
  BY ReservedFrame
<1>2. WellFormed(o)'
  BY DEF OwnerInv, WellFormed
<1>3. Balanced(o)'
  BY <1>1 DEF OwnerInv, Balanced
<1>4. Solvent(o)'
  BY VaultTypes DEF OwnerInv, Solvent
<1> QED BY <1>2, <1>3, <1>4 DEF OwnerInv

(* What a transfer does to the PDA of an owner who is not the sender.      *)
LEMMA PdaMoved ==
  ASSUME TypeOK, NEW from \in Address, NEW to \in Address, NEW amount \in Nat,
         lamports' = Moved(from, to, amount),
         NEW o \in Owners, VaultPda(o) # from
  PROVE  /\ lamports'[VaultPda(o)] \in Nat
         /\ lamports'[VaultPda(o)] >= lamports[VaultPda(o)]
<1>1. VaultPda(o) \in Address /\ lamports[VaultPda(o)] \in Nat
  BY VaultPdas, VaultTypes
<1>2. lamports'[VaultPda(o)] = lamports[VaultPda(o)]
        \/ lamports'[VaultPda(o)] = lamports[VaultPda(o)] + amount
  BY <1>1 DEF Moved, TypeOK
<1> QED BY <1>1, <1>2

-----------------------------------------------------------------------------
(* Each instruction keeps the invariant of every owner.                    *)

(* The instructions on the protocol configuration touch no vault, payment  *)
(* or PDA.                                                                 *)
LEMMA ProtocolKeepsBooks ==
  ASSUME TypeOK, \A x \in Owners : OwnerInv(x), NEW w \in Wallets,
         initialize_protocol(w) \/ \E paused \in BOOLEAN : set_protocol_paused(w, paused)
  PROVE  \A x \in Owners : OwnerInv(x)'
<1> SUFFICES ASSUME NEW x \in Owners PROVE OwnerInv(x)'
  OBVIOUS
<1>1. vault' = vault /\ payment' = payment
  BY DEF initialize_protocol, set_protocol_paused
<1>2. lamports'[VaultPda(x)] = lamports[VaultPda(x)]
  BY VaultPdas DEF initialize_protocol, set_protocol_paused, TypeOK
<1> QED BY <1>1, <1>2, VaultTypes, OwnerFrame

(* A new vault is blank, so the amount reserved stays the 0 it was, and    *)
(* the top-up lifts the PDA to its rent.                                   *)
LEMMA InitializeVaultKeepsBooks ==
  ASSUME TypeOK, \A x \in Owners : OwnerInv(x), NEW o \in Owners,
         NEW alloc \in Allocations, initialize_vault(o, alloc)
  PROVE  \A x \in Owners : OwnerInv(x)'
<1> DEFINE pda == VaultPda(o)
           topUp == TopUp(o)
<1>1. topUp \in Nat /\ lamports[pda] + topUp >= VAULT_RENT
  BY VaultTypes DEF TopUp, SatSub
<1>2. o \in Address /\ pda \in Address /\ o # pda
  BY VaultPdas
<1>3. lamports' = Moved(o, pda, topUp) /\ payment' = payment
  BY DEF initialize_vault
<1>4. ASSUME NEW x \in Owners, x # o PROVE OwnerInv(x)'
  <2>1. vault'[x] = vault[x]
    BY <1>4 DEF initialize_vault, TypeOK
  <2>2. lamports'[VaultPda(x)] \in Nat /\ lamports'[VaultPda(x)] >= lamports[VaultPda(x)]
    <3> HIDE DEF topUp
    <3> QED BY <1>1, <1>2, <1>3, VaultPdas, PdaMoved
  <2> QED BY <1>3, <2>1, <2>2, OwnerFrame
<1>5. OwnerInv(o)'
  <2> DEFINE new == [NoVault EXCEPT !.open = TRUE, !.alloc = alloc,
                                    !.mode = MODE_SAFE, !.cap = DEFAULT_AI_CAP]
  <2>1. vault'[o] = new /\ SumsTo100(alloc) /\ ~vault[o].open
    BY DEF initialize_vault, TypeOK
  <2>2. /\ new.open /\ new.alloc = alloc /\ new.total = 0
        /\ new.yield = 0 /\ new.reserve = 0 /\ new.liquid = 0 /\ new.payments = 0
    BY DEF NoVault
  <2>3. Reserved(o)' = Reserved(o)
    BY <1>3, ReservedFrame
  <2>4. vault[o] = NoVault /\ vault[o].total = Buckets(vault[o]) + Reserved(o)
    BY <2>1 DEF OwnerInv, WellFormed, Balanced
  <2>5. Reserved(o) = 0
    BY <2>4, HeldType DEF NoVault, Buckets
  <2> HIDE DEF new
  <2>6. WellFormed(o)'
    BY <2>1, <2>2 DEF WellFormed
  <2>7. Balanced(o)'
    BY <2>1, <2>2, <2>3, <2>5 DEF Balanced, Buckets
  <2>8. Solvent(o)'
    <3>1. lamports'[pda] = lamports[pda] + topUp
      <4> HIDE DEF topUp
      <4> QED BY <1>2, <1>3 DEF Moved, TypeOK
    <3> QED BY <1>1, <2>1, <2>2, <3>1, VaultTypes DEF Solvent
  <2> QED BY <2>6, <2>7, <2>8 DEF OwnerInv
<1> QED BY <1>4, <1>5

(* The shares of a deposit add up to it, since those of the three rounded  *)
(* buckets do not exceed it and the liquid bucket takes the rest.          *)
LEMMA DepositKeepsBooks ==
  ASSUME TypeOK, \A x \in Owners : OwnerInv(x), NEW o \in Owners,
         NEW amount \in Amounts, deposit(o, amount)
  PROVE  \A x \in Owners : OwnerInv(x)'
<1> DEFINE v == vault[o]
           y == Share(amount, v.alloc.yield)
           r == Share(amount, v.alloc.reserve)
           p == Share(amount, v.alloc.payments)
           l == SatSub(SatSub(SatSub(amount, y), r), p)
           new == [v EXCEPT !.total = v.total + amount, !.yield = v.yield + y,
                            !.reserve = v.reserve + r, !.liquid = v.liquid + l,
                            !.payments = v.payments + p]
<1>1. amount \in Nat /\ v \in Vault /\ v.alloc \in Allocation
  BY InputsAssumption, VaultTypes DEF U64, Vault
<1>2. v.open /\ SumsTo100(v.alloc)
  BY DEF deposit, OwnerInv, WellFormed
<1>3. y \in Nat /\ r \in Nat /\ p \in Nat /\ y + r + p <= amount
  <2>1. v.alloc.yield \in Percent /\ v.alloc.reserve \in Percent
          /\ v.alloc.payments \in Percent
    BY <1>1 DEF Allocation
  <2> QED BY <1>1, <1>2, <2>1, ShareBounds, SharesFit
<1>4. vault' = [vault EXCEPT ![o] = new] /\ payment' = payment
        /\ lamports' = Moved(o, VaultPda(o), amount)
  BY DEF deposit
<1>5. o \in Address /\ VaultPda(o) \in Address /\ o # VaultPda(o)
  BY VaultPdas
<1> HIDE DEF y, r, p
<1>6. l \in Nat /\ y + r + p + l = amount
  BY <1>1, <1>3 DEF SatSub
<1> HIDE DEF l, v
<1>7. ASSUME NEW x \in Owners, x # o PROVE OwnerInv(x)'
  <2>1. vault'[x] = vault[x]
    BY <1>4, <1>7 DEF TypeOK
  <2>2. lamports'[VaultPda(x)] \in Nat /\ lamports'[VaultPda(x)] >= lamports[VaultPda(x)]
    BY <1>1, <1>4, <1>5, VaultPdas, PdaMoved
  <2> QED BY <1>4, <2>1, <2>2, OwnerFrame
<1>8. OwnerInv(o)'
  <2>1. vault'[o] = new
    BY <1>4 DEF TypeOK
  <2>2. /\ new.open = v.open /\ new.alloc = v.alloc
        /\ new.total = v.total + amount /\ new.yield = v.yield + y
        /\ new.reserve = v.reserve + r /\ new.liquid = v.liquid + l
        /\ new.payments = v.payments + p
    BY <1>1 DEF Vault
  <2> HIDE DEF new
  <2>3. WellFormed(o)'
    BY <1>2, <2>1, <2>2 DEF WellFormed
  <2>4. Balanced(o)'
    <3>1. v.total = v.yield + v.reserve + v.liquid + v.payments + Reserved(o)
      BY DEF v, OwnerInv, Balanced, Buckets
    <3>2. Reserved(o)' = Reserved(o) /\ Reserved(o) \in Nat
      BY <1>4, ReservedFrame, HeldType
    <3>3. /\ v.total \in Nat /\ v.yield \in Nat /\ v.reserve \in Nat
          /\ v.liquid \in Nat /\ v.payments \in Nat
      BY VaultTypes DEF v
    <3>4. v.total + amount = (v.yield + y) + (v.reserve + r) + (v.liquid + l)
                               + (v.payments + p) + Reserved(o)
      BY <1>3, <1>6, <3>1, <3>2, <3>3, Z3
    <3> QED BY <2>1, <2>2, <3>2, <3>4 DEF Balanced, Buckets
  <2>5. Solvent(o)'
    <3>1. lamports'[VaultPda(o)] = lamports[VaultPda(o)] + amount
      BY <1>4, <1>5 DEF Moved, TypeOK
    <3>2. lamports[VaultPda(o)] >= VAULT_RENT + v.total
      BY <1>2 DEF v, OwnerInv, Solvent
    <3>3. v.total \in Nat
      BY VaultTypes DEF v
    <3> QED BY <1>1, <2>1, <2>2, <3>1, <3>2, <3>3, VaultTypes DEF Solvent
  <2> QED BY <2>3, <2>4, <2>5 DEF OwnerInv
<1> QED BY <1>7, <1>8

(* A withdrawal takes the same amount off the liquid bucket, the total and *)
(* the PDA; the total covers it because it covers the bucket.              *)
LEMMA WithdrawKeepsBooks ==
  ASSUME TypeOK, \A x \in Owners : OwnerInv(x), NEW o \in Owners,
         NEW amount \in Amounts, withdraw(o, amount)
  PROVE  \A x \in Owners : OwnerInv(x)'
<1> DEFINE v == vault[o]
           new == [v EXCEPT !.total = SatSub(v.total, amount),
                            !.liquid = SatSub(v.liquid, amount)]
<1>1. amount \in Nat /\ v \in Vault
  BY InputsAssumption, VaultTypes DEF U64
<1>2. v.open /\ v.liquid >= amount /\ lamports[VaultPda(o)] >= amount
  BY DEF withdraw, MoveOk
<1>3. vault' = [vault EXCEPT ![o] = new] /\ payment' = payment
        /\ lamports' = Moved(VaultPda(o), o, amount)
  BY DEF withdraw
<1>4. o \in Address /\ VaultPda(o) \in Address /\ o # VaultPda(o)
  BY VaultPdas
<1>5. /\ v.total \in Nat /\ v.yield \in Nat /\ v.reserve \in Nat
      /\ v.liquid \in Nat /\ v.payments \in Nat
  BY VaultTypes
<1>6. SumsTo100(v.alloc)
  BY <1>2 DEF OwnerInv, WellFormed
<1>7. v.total = v.yield + v.reserve + v.liquid + v.payments + Reserved(o)
  BY DEF OwnerInv, Balanced, Buckets
<1>8. lamports[VaultPda(o)] >= VAULT_RENT + v.total
  BY <1>2 DEF OwnerInv, Solvent
<1> HIDE DEF v
<1>9. ASSUME NEW x \in Owners, x # o PROVE OwnerInv(x)'
  <2>1. vault'[x] = vault[x]
    BY <1>3, <1>9 DEF TypeOK
  <2>2. lamports'[VaultPda(x)] \in Nat /\ lamports'[VaultPda(x)] >= lamports[VaultPda(x)]
    BY <1>1, <1>3, <1>4, <1>9, VaultPdas, PdaMoved
  <2> QED BY <1>3, <2>1, <2>2, OwnerFrame
<1>10. OwnerInv(o)'
  <2>1. vault'[o] = new
    BY <1>3 DEF TypeOK
  <2>2. Reserved(o)' = Reserved(o) /\ Reserved(o) \in Nat
    BY <1>3, ReservedFrame, HeldType
  <2>3. SatSub(v.total, amount) = v.total - amount
          /\ SatSub(v.liquid, amount) = v.liquid - amount
    BY <1>1, <1>2, <1>5, <1>7, <2>2 DEF SatSub
  <2>4. /\ new.open = v.open /\ new.alloc = v.alloc
        /\ new.total = v.total - amount /\ new.yield = v.yield
        /\ new.reserve = v.reserve /\ new.liquid = v.liquid - amount
        /\ new.payments = v.payments
    BY <1>1, <2>3 DEF Vault
  <2> HIDE DEF new
  <2>5. WellFormed(o)'
    BY <1>2, <1>6, <2>1, <2>4 DEF WellFormed
  <2>6. Balanced(o)'
    <3>1. v.total - amount = v.yield + v.reserve + (v.liquid - amount)
                               + v.payments + Reserved(o)
      BY <1>1, <1>5, <1>7, <2>2
    <3> QED BY <2>1, <2>2, <2>4, <3>1 DEF Balanced, Buckets
  <2>7. Solvent(o)'
    <3>1. lamports'[VaultPda(o)] = lamports[VaultPda(o)] - amount
      BY <1>3, <1>4 DEF Moved, TypeOK
    <3> QED BY <1>1, <1>5, <1>8, <2>1, <2>4, <3>1, VaultTypes DEF Solvent
  <2> QED BY <2>5, <2>6, <2>7 DEF OwnerInv
<1> QED BY <1>9, <1>10

(* New percentages still add up to 100; the buckets stay.                  *)
LEMMA UpdateVaultConfigKeepsBooks ==
  ASSUME TypeOK, \A x \in Owners : OwnerInv(x), NEW o \in Owners,
         NEW mode \in Modes, NEW cap \in Caps, NEW alloc \in Allocations,
         update_vault_config(o, mode, cap, alloc)
  PROVE  \A x \in Owners : OwnerInv(x)'
<1> DEFINE v == vault[o]
           new == [v EXCEPT !.mode = mode, !.cap = cap, !.alloc = alloc]
<1>1. /\ vault' = [vault EXCEPT ![o] = new] /\ payment' = payment /\ lamports' = lamports
      /\ v.open /\ SumsTo100(alloc)
  BY DEF update_vault_config
<1>2. ASSUME NEW x \in Owners, x # o PROVE OwnerInv(x)'
  <2>1. vault'[x] = vault[x]
    BY <1>1, <1>2 DEF TypeOK
  <2> QED BY <1>1, <2>1, VaultTypes, OwnerFrame
<1>3. OwnerInv(o)'
  <2>1. vault'[o] = new
    BY <1>1 DEF TypeOK
  <2>2. /\ new.open = v.open /\ new.alloc = alloc /\ new.total = v.total
        /\ new.yield = v.yield /\ new.reserve = v.reserve
        /\ new.liquid = v.liquid /\ new.payments = v.payments
    <3>1. v \in Vault
      BY VaultTypes
    <3> HIDE DEF v
    <3> QED BY <3>1 DEF Vault
  <2>3. Reserved(o)' = Reserved(o)
    BY <1>1, ReservedFrame
  <2> HIDE DEF new
  <2>4. WellFormed(o)'
    BY <1>1, <2>1, <2>2 DEF WellFormed
  <2>5. Balanced(o)'
    BY <2>1, <2>2, <2>3 DEF OwnerInv, Balanced, Buckets
  <2>6. Solvent(o)'
    BY <1>1, <2>1, <2>2 DEF OwnerInv, Solvent
  <2> QED BY <2>4, <2>5, <2>6 DEF OwnerInv
<1> QED BY <1>2, <1>3

(* Scheduling moves the amount from a bucket to the new payment.           *)
LEMMA SchedulePaymentKeepsBooks ==
  ASSUME TypeOK, \A x \in Owners : OwnerInv(x), payment' \in [Owners -> [PaymentIds -> Payment]],
         NEW o \in Owners, NEW id \in PaymentIds, NEW recipient \in Recipients,
         NEW amount \in Amounts, NEW kind \in Kinds, NEW priority \in Priorities,
         schedule_payment(o, id, recipient, amount, kind, priority)
  PROVE  \A x \in Owners : OwnerInv(x)'
<1> DEFINE v == vault[o]
           new == ReserveFunds(v, amount)
           q == payment'[o][id]
<1>1. amount \in Nat /\ v \in Vault
  BY InputsAssumption, VaultTypes DEF U64
<1>2. /\ v.open /\ ~payment[o][id].open
      /\ v.payments >= amount \/ v.liquid >= amount
      /\ vault' = [vault EXCEPT ![o] = new]
      /\ lamports' = [lamports EXCEPT ![o] = lamports[o] - PAYMENT_RENT]
  BY DEF schedule_payment
<1>3. /\ payment' = [payment EXCEPT ![o][id] = q]
      /\ q.open /\ q.amount = amount /\ q.status \in {STATUS_PENDING, STATUS_SCHEDULED}
  <2> DEFINE needed == RequiresApproval(v, amount)
             p == [open |-> TRUE, recipient |-> recipient, amount |-> amount,
                   status |-> IF needed THEN STATUS_PENDING ELSE STATUS_SCHEDULED,
                   kind |-> kind, priority |-> priority,
                   approved |-> ~needed]
  <2>1. payment' = [payment EXCEPT ![o][id] = p]
    BY DEF schedule_payment
  <2>2. p.open /\ p.amount = amount /\ p.status \in {STATUS_PENDING, STATUS_SCHEDULED}
    BY Zenon
  <2> HIDE DEF p
  <2>3. q = p
    BY <2>1 DEF TypeOK
  <2> QED BY <2>1, <2>2, <2>3
<1>4. q \in Payment
  OBVIOUS
<1> HIDE DEF q
<1>5. Held(payment[o][id]) = 0 /\ Held(q) = amount
  BY <1>2, <1>3 DEF Held, LiveStatuses
<1>6. Reserved(o)' = Reserved(o) + amount /\ Reserved(o) \in Nat
        /\ \A x \in Owners \ {o} : Reserved(x)' = Reserved(x)
  <2>1. /\ Reserved(o)' + Held(payment[o][id]) = Reserved(o) + Held(q)
        /\ Reserved(o)' \in Nat
        /\ \A x \in Owners \ {o} : Reserved(x)' = Reserved(x)
    BY <1>3, <1>4, ReservedStep
  <2>2. Reserved(o) \in Nat
    BY HeldType
  <2> QED BY <1>1, <1>5, <2>1, <2>2
<1>7. \A x \in Owners : lamports'[VaultPda(x)] = lamports[VaultPda(x)]
  BY <1>2, VaultPdas DEF TypeOK
<1>8. ASSUME NEW x \in Owners, x # o PROVE OwnerInv(x)'
  <2>1. vault'[x] = vault[x] /\ payment'[x] = payment[x]
    BY <1>2, <1>3, <1>8 DEF TypeOK
  <2> QED BY <1>7, <2>1, VaultTypes, OwnerFrame
<1>9. OwnerInv(o)'
  <2>1. vault'[o] = new
    BY <1>2 DEF TypeOK
  <2>2. /\ v.total \in Nat /\ v.yield \in Nat /\ v.reserve \in Nat
        /\ v.liquid \in Nat /\ v.payments \in Nat
    BY VaultTypes
  <2>3. SumsTo100(v.alloc)
    BY <1>2 DEF OwnerInv, WellFormed
  <2>4. v.total = v.yield + v.reserve + v.liquid + v.payments + Reserved(o)
    BY DEF OwnerInv, Balanced, Buckets
  <2>5. lamports[VaultPda(o)] >= VAULT_RENT + v.total
    BY <1>2 DEF OwnerInv, Solvent
  <2> HIDE DEF v
  <2>6. /\ new.open = v.open /\ new.alloc = v.alloc /\ new.total = v.total
        /\ new.yield = v.yield /\ new.reserve = v.reserve
        /\ \/ new.payments = v.payments - amount /\ new.liquid = v.liquid
           \/ new.payments = v.payments /\ new.liquid = v.liquid - amount
    <3>1. CASE v.payments >= amount
      <4>1. new = [v EXCEPT !.payments = v.payments - amount]
        BY <3>1 DEF ReserveFunds, SatSub
      <4> QED BY <1>1, <4>1 DEF Vault
    <3>2. CASE ~(v.payments >= amount)
      <4>1. new = [v EXCEPT !.liquid = v.liquid - amount]
        BY <1>2, <3>2 DEF ReserveFunds, SatSub, v
      <4> QED BY <1>1, <4>1 DEF Vault
    <3> QED BY <3>1, <3>2
  <2> HIDE DEF new
  <2>7. WellFormed(o)'
    BY <1>2, <2>1, <2>3, <2>6 DEF WellFormed, v
  <2>8. Balanced(o)'
    <3>1. v.total = new.yield + new.reserve + new.liquid + new.payments
                      + (Reserved(o) + amount)
      BY <1>1, <1>6, <2>2, <2>4, <2>6
    <3> QED BY <1>6, <2>1, <2>6, <3>1 DEF Balanced, Buckets
  <2>9. Solvent(o)'
    BY <1>7, <2>1, <2>5, <2>6 DEF Solvent
  <2> QED BY <2>7, <2>8, <2>9 DEF OwnerInv
<1> QED BY <1>8, <1>9

(* Approval changes the status between two that both hold the amount.      *)
LEMMA ApprovePaymentKeepsBooks ==
  ASSUME TypeOK, \A x \in Owners : OwnerInv(x), payment' \in [Owners -> [PaymentIds -> Payment]],
         NEW o \in Owners, NEW id \in PaymentIds, approve_payment(o, id)
  PROVE  \A x \in Owners : OwnerInv(x)'
<1> DEFINE p == payment[o][id]
           q == [p EXCEPT !.approved = TRUE, !.status = STATUS_SCHEDULED]
<1>1. /\ payment' = [payment EXCEPT ![o][id] = q] /\ vault' = vault /\ lamports' = lamports
      /\ p.open /\ p.status = STATUS_PENDING
  BY DEF approve_payment
<1>2. q \in Payment
  BY <1>1 DEF TypeOK
<1>3. q.open = p.open /\ q.amount = p.amount /\ q.status = STATUS_SCHEDULED
  <2>1. p \in Payment
    BY DEF TypeOK
  <2> HIDE DEF p
  <2> QED BY <2>1 DEF Payment
<1> HIDE DEF p, q
<1>4. Held(p) = Held(q)
  BY <1>1, <1>3 DEF Held, LiveStatuses
<1>5. \A x \in Owners : Reserved(x)' = Reserved(x)
  <2>1. Held(q) \in Nat /\ Reserved(o) \in Nat
    BY <1>4, HeldType DEF p
  <2>2. /\ Reserved(o)' + Held(p) = Reserved(o) + Held(q)
        /\ Reserved(o)' \in Nat
        /\ \A x \in Owners \ {o} : Reserved(x)' = Reserved(x)
    BY <1>1, <1>2, ReservedStep DEF p
  <2>3. Reserved(o)' = Reserved(o)
    BY <1>4, <2>1, <2>2
  <2> QED BY <2>2, <2>3
<1> SUFFICES ASSUME NEW x \in Owners PROVE OwnerInv(x)'
  OBVIOUS
<1>6. WellFormed(x)'
  <2>1. x = o => vault[x].open
    BY <1>1 DEF OwnerInv, WellFormed, p
  <2>2. x # o => payment'[x] = payment[x]
    BY <1>1 DEF TypeOK
  <2> QED BY <1>1, <2>1, <2>2 DEF OwnerInv, WellFormed
<1>7. Balanced(x)'
  BY <1>1, <1>5 DEF OwnerInv, Balanced
<1>8. Solvent(x)'
  BY <1>1 DEF OwnerInv, Solvent
<1> QED BY <1>6, <1>7, <1>8 DEF OwnerInv

(* Execution takes the amount off the total and the PDA and pays it to     *)
(* someone else; the payment no longer holds it.                           *)
LEMMA ExecutePaymentKeepsBooks ==
  ASSUME TypeOK, \A x \in Owners : OwnerInv(x), payment' \in [Owners -> [PaymentIds -> Payment]],
         NEW o \in Owners, NEW id \in PaymentIds, execute_payment(o, id)
  PROVE  \A x \in Owners : OwnerInv(x)'
<1> DEFINE v == vault[o]
           p == payment[o][id]
           q == [p EXCEPT !.status = STATUS_COMPLETED]
           new == [v EXCEPT !.total = SatSub(v.total, p.amount)]
<1>0. v \in Vault /\ p \in Payment
  BY VaultTypes DEF TypeOK
<1>1. /\ v.open /\ p.open /\ p.status = STATUS_SCHEDULED
      /\ payment' = [payment EXCEPT ![o][id] = q] /\ vault' = [vault EXCEPT ![o] = new]
      /\ VaultPda(o) # p.recipient /\ lamports' = Moved(VaultPda(o), p.recipient, p.amount)
      /\ lamports[VaultPda(o)] >= p.amount
  BY DEF execute_payment, Runnable, MoveOk
<1>2. q \in Payment
  BY <1>1 DEF TypeOK
<1>3. /\ v.total \in Nat /\ v.yield \in Nat /\ v.reserve \in Nat
      /\ v.liquid \in Nat /\ v.payments \in Nat
  BY VaultTypes
<1>4. SumsTo100(v.alloc)
  BY <1>1 DEF OwnerInv, WellFormed
<1>5. v.total = v.yield + v.reserve + v.liquid + v.payments + Reserved(o)
  BY DEF OwnerInv, Balanced, Buckets
<1>6. lamports[VaultPda(o)] >= VAULT_RENT + v.total
  BY <1>1 DEF OwnerInv, Solvent
<1>7. p.amount \in Nat /\ p.recipient \in Address
  <2> HIDE DEF p
  <2> QED BY <1>0 DEF Payment, U64
<1>8. q.status = STATUS_COMPLETED
  <2> HIDE DEF p
  <2> QED BY <1>0 DEF Payment
<1>9. Held(p) <= Reserved(o) /\ Reserved(o) \in Nat
  BY HeldType
<1>10. /\ Reserved(o)' + Held(p) = Reserved(o) + Held(q)
       /\ Reserved(o)' \in Nat
       /\ \A x \in Owners \ {o} : Reserved(x)' = Reserved(x)
  BY <1>1, <1>2, ReservedStep
<1> HIDE DEF v, p, q
<1>11. Held(p) = p.amount /\ Held(q) = 0
  BY <1>1, <1>8 DEF Held, LiveStatuses, STATUS_PENDING, STATUS_SCHEDULED,
                    STATUS_QUEUED, STATUS_COMPLETED
<1>12. ASSUME NEW x \in Owners, x # o PROVE OwnerInv(x)'
  <2>1. vault'[x] = vault[x] /\ payment'[x] = payment[x]
    BY <1>1, <1>12 DEF TypeOK
  <2>2. lamports'[VaultPda(x)] \in Nat /\ lamports'[VaultPda(x)] >= lamports[VaultPda(x)]
    BY <1>1, <1>7, <1>12, VaultPdas, PdaMoved
  <2> QED BY <2>1, <2>2, OwnerFrame
<1>13. OwnerInv(o)'
  <2>1. vault'[o] = new
    BY <1>1 DEF TypeOK
  <2>2. SatSub(v.total, p.amount) = v.total - p.amount
    BY <1>3, <1>5, <1>7, <1>9, <1>11 DEF SatSub
  <2>3. /\ new.open = v.open /\ new.alloc = v.alloc /\ new.total = v.total - p.amount
        /\ new.yield = v.yield /\ new.reserve = v.reserve
        /\ new.liquid = v.liquid /\ new.payments = v.payments
    BY <1>0, <2>2 DEF Vault
  <2> HIDE DEF new
  <2>4. WellFormed(o)'
    BY <1>1, <1>4, <2>1, <2>3 DEF WellFormed
  <2>5. Balanced(o)'
    <3>1. Reserved(o)' = Reserved(o) - p.amount
      BY <1>7, <1>9, <1>10, <1>11
    <3>2. v.total - p.amount = v.yield + v.reserve + v.liquid + v.payments
                                 + (Reserved(o) - p.amount)
      BY <1>3, <1>5, <1>7, <1>9
    <3> QED BY <2>1, <2>3, <3>1, <3>2 DEF Balanced, Buckets
  <2>6. Solvent(o)'
    <3>1. lamports'[VaultPda(o)] = lamports[VaultPda(o)] - p.amount
      BY <1>1, <1>7, VaultPdas DEF Moved, TypeOK
    <3> QED BY <1>3, <1>6, <1>7, <2>1, <2>3, <3>1, VaultTypes DEF Solvent
  <2> QED BY <2>4, <2>5, <2>6 DEF OwnerInv
<1> QED BY <1>12, <1>13

(* Cancelling moves what the payment holds to the liquid bucket.           *)
LEMMA CancelPaymentKeepsBooks ==
  ASSUME TypeOK, \A x \in Owners : OwnerInv(x), payment' \in [Owners -> [PaymentIds -> Payment]],
         NEW o \in Owners, NEW id \in PaymentIds, cancel_payment(o, id)
  PROVE  \A x \in Owners : OwnerInv(x)'
<1> DEFINE v == vault[o]
           p == payment[o][id]
           new == [v EXCEPT !.liquid = v.liquid + p.amount]
<1>0. v \in Vault /\ p \in Payment
  BY VaultTypes DEF TypeOK
<1>1. /\ p.open /\ p.status \in LiveStatuses
      /\ payment' = [payment EXCEPT ![o][id] = NoPayment] /\ vault' = [vault EXCEPT ![o] = new]
      /\ lamports' = [lamports EXCEPT ![o] = lamports[o] + PAYMENT_RENT]
  BY DEF cancel_payment, Cancellable
<1>2. v.open /\ SumsTo100(v.alloc)
  BY <1>1 DEF OwnerInv, WellFormed
<1>3. /\ v.total \in Nat /\ v.yield \in Nat /\ v.reserve \in Nat
      /\ v.liquid \in Nat /\ v.payments \in Nat
  BY VaultTypes
<1>4. v.total = v.yield + v.reserve + v.liquid + v.payments + Reserved(o)
  BY DEF OwnerInv, Balanced, Buckets
<1>5. lamports[VaultPda(o)] >= VAULT_RENT + v.total
  BY <1>2 DEF OwnerInv, Solvent
<1>6. /\ Reserved(o)' + Held(p) = Reserved(o) + Held(NoPayment)
      /\ Reserved(o)' \in Nat /\ Reserved(o) \in Nat
      /\ \A x \in Owners \ {o} : Reserved(x)' = Reserved(x)
  BY <1>1, ConstantTypes, ReservedStep, HeldType
<1> HIDE DEF v, p
<1>7. p.amount \in Nat /\ Held(p) = p.amount /\ Held(NoPayment) = 0
  <2>1. p.amount \in Nat
    BY <1>0 DEF Payment, U64
  <2>2. ~NoPayment.open
    BY DEF NoPayment
  <2> QED BY <1>1, <2>1, <2>2 DEF Held
<1>8. \A x \in Owners : lamports'[VaultPda(x)] = lamports[VaultPda(x)]
  BY <1>1, VaultPdas DEF TypeOK
<1>9. ASSUME NEW x \in Owners, x # o PROVE OwnerInv(x)'
  <2>1. vault'[x] = vault[x] /\ payment'[x] = payment[x]
    BY <1>1, <1>9 DEF TypeOK
  <2> QED BY <1>8, <2>1, VaultTypes, OwnerFrame
<1>10. OwnerInv(o)'
  <2>1. vault'[o] = new
    BY <1>1 DEF TypeOK
  <2>2. /\ new.open = v.open /\ new.alloc = v.alloc /\ new.total = v.total
        /\ new.yield = v.yield /\ new.reserve = v.reserve
        /\ new.liquid = v.liquid + p.amount /\ new.payments = v.payments
    BY <1>0 DEF Vault
  <2> HIDE DEF new
  <2>3. WellFormed(o)'
    BY <1>2, <2>1, <2>2 DEF WellFormed
  <2>4. Balanced(o)'
    <3>1. Reserved(o)' + p.amount = Reserved(o)
      BY <1>6, <1>7
    <3>2. v.total = v.yield + v.reserve + (v.liquid + p.amount) + v.payments + Reserved(o)'
      BY <1>3, <1>4, <1>6, <1>7, <3>1
    <3> QED BY <2>1, <2>2, <3>2 DEF Balanced, Buckets
  <2>5. Solvent(o)'
    BY <1>5, <1>8, <2>1, <2>2 DEF Solvent
  <2> QED BY <2>3, <2>4, <2>5 DEF OwnerInv
<1> QED BY <1>9, <1>10

(* Lamports sent to a PDA from outside leave the books alone and make the  *)
(* PDA richer than they say.                                               *)
LEMMA SystemTransferKeepsBooks ==
  ASSUME TypeOK, \A x \in Owners : OwnerInv(x), NEW from \in Wallets, NEW o \in Owners,
         NEW amount \in Gifts, SystemTransfer(from, VaultPda(o), amount)
  PROVE  \A x \in Owners : OwnerInv(x)'
<1> SUFFICES ASSUME NEW x \in Owners PROVE OwnerInv(x)'
  OBVIOUS
<1>1. vault' = vault /\ payment' = payment /\ lamports' = Moved(from, VaultPda(o), amount)
  BY DEF SystemTransfer
<1>2. amount \in Nat /\ from \in Address /\ VaultPda(o) \in Address /\ VaultPda(x) # from
  BY InputsAssumption, VaultPdas DEF U64
<1>3. lamports'[VaultPda(x)] \in Nat /\ lamports'[VaultPda(x)] >= lamports[VaultPda(x)]
  BY <1>1, <1>2, PdaMoved
<1> QED BY <1>1, <1>3, OwnerFrame

-----------------------------------------------------------------------------
(* VaultInv is inductive.                                                  *)

(* At the start there is no vault and no payment.                          *)
LEMMA InitBooks == Init => VaultInv
<1> SUFFICES ASSUME Init PROVE VaultInv
  OBVIOUS
<1>1. TypeOK
  BY InitType
<1>2. ASSUME NEW o \in Owners PROVE OwnerInv(o)
  <2>1. vault[o] = NoVault /\ \A id \in PaymentIds : payment[o][id] = NoPayment
    BY DEF Init
  <2>2. ~NoPayment.open /\ ~NoVault.open
    BY DEF NoPayment, NoVault
  <2>3. Reserved(o) = 0
    <3>1. \A id \in PaymentIds : HeldBy(o)[id] = 0
      BY <2>1, <2>2 DEF HeldBy, Held
    <3> QED BY <3>1, InputsAssumption, SumZero DEF Reserved
  <2>4. Balanced(o)
    BY <2>1, <2>3 DEF Balanced, Buckets, NoVault
  <2> QED BY <2>1, <2>2, <2>4 DEF OwnerInv, WellFormed, Solvent
<1> QED BY <1>1, <1>2, VaultInvByOwner

(* VaultInv is inductive: every step keeps it.                             *)
LEMMA NextBooks == VaultInv /\ [Next]_vars => VaultInv'
<1> SUFFICES ASSUME VaultInv, [Next]_vars PROVE VaultInv'
  OBVIOUS
<1>1. TypeOK /\ \A x \in Owners : OwnerInv(x)
  BY VaultInvByOwner
<1>2. TypeOK'
  BY <1>1, NextType
<1>3. payment' \in [Owners -> [PaymentIds -> Payment]]
  BY <1>2 DEF TypeOK
<1>4. \A x \in Owners : OwnerInv(x)'
  <2>1. CASE ProtocolStep
    BY <1>1, <2>1, ProtocolKeepsBooks DEF ProtocolStep
  <2>2. ASSUME NEW o \in Owners, VaultStep(o) PROVE \A x \in Owners : OwnerInv(x)'
    BY <1>1, <2>2, InitializeVaultKeepsBooks, DepositKeepsBooks, WithdrawKeepsBooks,
       UpdateVaultConfigKeepsBooks DEF VaultStep
  <2>3. ASSUME NEW o \in Owners, NEW id \in PaymentIds, PaymentStep(o, id)
        PROVE  \A x \in Owners : OwnerInv(x)'
    BY <1>1, <1>3, <2>3, SchedulePaymentKeepsBooks, ApprovePaymentKeepsBooks,
       ExecutePaymentKeepsBooks, CancelPaymentKeepsBooks DEF PaymentStep
  <2>4. ASSUME NEW from \in Wallets, NEW o \in Owners, NEW amount \in Gifts,
               SystemTransfer(from, VaultPda(o), amount)
        PROVE  \A x \in Owners : OwnerInv(x)'
    BY <1>1, <2>4, SystemTransferKeepsBooks
  <2>5. ASSUME vault' = vault, payment' = payment, lamports' = lamports
        PROVE  \A x \in Owners : OwnerInv(x)'
    BY <1>1, <2>5, VaultTypes, OwnerFrame
  <2> QED BY <2>1, <2>2, <2>3, <2>4, <2>5 DEF Next, vars
<1> QED BY <1>2, <1>4 DEF VaultInv, VaultsWellFormed, VaultAccounting, VaultSolvent,
                           OwnerInv, WellFormed, Balanced, Solvent

(* Every reachable state has balanced books and solvent vaults.            *)
LEMMA BooksInvariant == Spec => []VaultInv
BY InitBooks, NextBooks, PTL DEF Spec

(* In every reachable state the recorded total of each vault is what its   *)
(* buckets and its unpaid payments hold.                                   *)
THEOREM VaultsBalanced == Spec => []VaultAccounting
<1>1. VaultInv => VaultAccounting
  BY DEF VaultInv
<1> QED BY <1>1, BooksInvariant, PTL

(* In every reachable state the PDA of each vault holds its rent and the   *)
(* recorded total, so the deposits behind the books are really there.      *)
THEOREM VaultsSolvent == Spec => []VaultSolvent
<1>1. VaultInv => VaultSolvent
  BY DEF VaultInv
<1> QED BY <1>1, BooksInvariant, PTL

-----------------------------------------------------------------------------
(* What a step may do to a vault, for all values of the constants: nothing *)
(* takes lamports out of the yield and reserve buckets, a paused protocol  *)
(* freezes the vaults, and outflows respect the reserve floor.             *)

(* No step lowers the yield or the reserve bucket of a vault: opening one  *)
(* starts from nothing, a deposit adds shares, and every other instruction *)
(* touches only the liquid and payments buckets.                           *)
LEMMA BucketsGrow ==
  ASSUME VaultInv, Next, NEW x \in Owners
  PROVE  vault'[x].reserve >= vault[x].reserve /\ vault'[x].yield >= vault[x].yield
<1> DEFINE Grows == vault'[x].reserve >= vault[x].reserve /\ vault'[x].yield >= vault[x].yield
<1>0. TypeOK
  BY DEF VaultInv
<1>1. /\ vault \in [Owners -> Vault]
      /\ vault[x].reserve \in Nat /\ vault[x].yield \in Nat
  BY <1>0 DEF TypeOK, Vault, U64
<1>2. ASSUME vault' = vault PROVE Grows
  BY <1>1, <1>2
<1>3. ASSUME NEW o \in Owners, NEW new,
             vault' = [vault EXCEPT ![o] = new],
             new.reserve >= vault[o].reserve, new.yield >= vault[o].yield
      PROVE  Grows
  <2>1. CASE o = x
    BY <1>1, <1>3, <2>1
  <2>2. CASE o # x
    <3>1. vault'[x] = vault[x]
      BY <1>1, <1>3, <2>2
    <3> QED BY <1>1, <3>1
  <2> QED BY <2>1, <2>2
<1>4. CASE ProtocolStep
  BY <1>2, <1>4 DEF ProtocolStep, initialize_protocol, set_protocol_paused
<1>5. ASSUME NEW o \in Owners, VaultStep(o) PROVE Grows
  <2> DEFINE v == vault[o]
  <2>0. v \in Vault /\ v.reserve \in Nat /\ v.yield \in Nat
    BY <1>1 DEF Vault, U64
  <2>1. ASSUME NEW alloc \in Allocations, initialize_vault(o, alloc) PROVE Grows
    <3> DEFINE new == [NoVault EXCEPT !.open = TRUE, !.alloc = alloc,
                                      !.mode = MODE_SAFE, !.cap = DEFAULT_AI_CAP]
    <3>1. v = NoVault
      BY <2>1 DEF initialize_vault, VaultInv, VaultsWellFormed
    <3>2. new.reserve = NoVault.reserve /\ new.yield = NoVault.yield
      BY DEF NoVault
    <3>3. vault' = [vault EXCEPT ![o] = new]
      BY <2>1 DEF initialize_vault
    <3>4. new.reserve >= v.reserve /\ new.yield >= v.yield
      BY <2>0, <3>1, <3>2
    <3> HIDE DEF new, Grows
    <3> QED BY <1>3, <3>3, <3>4
  <2>2. ASSUME NEW amount \in Amounts, deposit(o, amount) PROVE Grows
    <3> DEFINE y == Share(amount, v.alloc.yield)
               r == Share(amount, v.alloc.reserve)
               p == Share(amount, v.alloc.payments)
               l == SatSub(SatSub(SatSub(amount, y), r), p)
               new == [v EXCEPT !.total = v.total + amount, !.yield = v.yield + y,
                           !.reserve = v.reserve + r, !.liquid = v.liquid + l,
                           !.payments = v.payments + p]
    <3>1. y \in Nat /\ r \in Nat
      BY <2>0, ShareBounds, InputsAssumption DEF Vault, Allocation, U64
    <3>2. vault' = [vault EXCEPT ![o] = new]
      BY <2>2 DEF deposit
    <3>3. new.reserve = v.reserve + r /\ new.yield = v.yield + y
      BY <2>0 DEF Vault
    <3>4. v.reserve + r >= v.reserve /\ v.yield + y >= v.yield
      <4> HIDE DEF y, r
      <4> QED BY <2>0, <3>1
    <3> HIDE DEF new
    <3> QED BY <1>3, <3>2, <3>3, <3>4
  <2>3. ASSUME NEW amount \in Amounts, withdraw(o, amount) PROVE Grows
    <3> DEFINE new == [v EXCEPT !.total = SatSub(v.total, amount), !.liquid = SatSub(v.liquid, amount)]
    <3>1. vault' = [vault EXCEPT ![o] = new]
      BY <2>3 DEF withdraw
    <3>2. new.reserve = v.reserve /\ new.yield = v.yield
      BY <2>0 DEF Vault
    <3>3. new.reserve >= v.reserve /\ new.yield >= v.yield
      BY <2>0, <3>2
    <3> HIDE DEF new, Grows
    <3> QED BY <1>3, <3>1, <3>3
  <2>4. ASSUME NEW mode \in Modes, NEW cap \in Caps, NEW alloc \in Allocations,
               update_vault_config(o, mode, cap, alloc)
        PROVE  Grows
    <3> DEFINE new == [v EXCEPT !.mode = mode, !.cap = cap, !.alloc = alloc]
    <3>1. vault' = [vault EXCEPT ![o] = new]
      BY <2>4 DEF update_vault_config
    <3>2. new.reserve = v.reserve /\ new.yield = v.yield
      BY <2>0 DEF Vault
    <3>3. new.reserve >= v.reserve /\ new.yield >= v.yield
      BY <2>0, <3>2
    <3> HIDE DEF new, Grows
    <3> QED BY <1>3, <3>1, <3>3
  <2> QED BY <1>5, <2>1, <2>2, <2>3, <2>4 DEF VaultStep
<1>6. ASSUME NEW o \in Owners, NEW id \in PaymentIds, PaymentStep(o, id) PROVE Grows
  <2> DEFINE v == vault[o]
             p == payment[o][id]
  <2>0. v \in Vault /\ v.reserve \in Nat /\ v.yield \in Nat
    BY <1>1 DEF Vault, U64
  <2>1. ASSUME NEW recipient \in Recipients, NEW amount \in Amounts, NEW kind \in Kinds,
               NEW priority \in Priorities,
               schedule_payment(o, id, recipient, amount, kind, priority)
        PROVE  Grows
    <3> DEFINE new == ReserveFunds(v, amount)
    <3>1. vault' = [vault EXCEPT ![o] = new]
      BY <2>1 DEF schedule_payment
    <3>2. new.reserve = v.reserve /\ new.yield = v.yield
      BY <2>0 DEF Vault, ReserveFunds
    <3>3. new.reserve >= v.reserve /\ new.yield >= v.yield
      BY <2>0, <3>2
    <3> HIDE DEF new, Grows
    <3> QED BY <1>3, <3>1, <3>3
  <2>2. CASE approve_payment(o, id)
    BY <1>2, <2>2 DEF approve_payment
  <2>3. CASE execute_payment(o, id)
    <3> DEFINE new == [v EXCEPT !.total = SatSub(v.total, p.amount)]
    <3>1. vault' = [vault EXCEPT ![o] = new]
      BY <2>3 DEF execute_payment
    <3>2. new.reserve = v.reserve /\ new.yield = v.yield
      BY <2>0 DEF Vault
    <3>3. new.reserve >= v.reserve /\ new.yield >= v.yield
      BY <2>0, <3>2
    <3> HIDE DEF new, Grows
    <3> QED BY <1>3, <3>1, <3>3
  <2>4. CASE cancel_payment(o, id)
    <3> DEFINE new == [v EXCEPT !.liquid = v.liquid + p.amount]
    <3>1. vault' = [vault EXCEPT ![o] = new]
      BY <2>4 DEF cancel_payment
    <3>2. new.reserve = v.reserve /\ new.yield = v.yield
      BY <2>0 DEF Vault
    <3>3. new.reserve >= v.reserve /\ new.yield >= v.yield
      BY <2>0, <3>2
    <3> HIDE DEF new, Grows
    <3> QED BY <1>3, <3>1, <3>3
  <2> QED BY <1>6, <2>1, <2>2, <2>3, <2>4 DEF PaymentStep
<1>7. ASSUME NEW from \in Wallets, NEW o \in Owners, NEW amount \in Gifts,
             SystemTransfer(from, VaultPda(o), amount)
      PROVE  Grows
  BY <1>2, <1>7 DEF SystemTransfer
<1> QED BY <1>4, <1>5, <1>6, <1>7 DEF Next

(* What has entered the yield and reserve buckets of a vault never leaves  *)
(* them: the program has no instruction that spends or moves it.           *)
THEOREM ReserveIsNeverSpent == Spec => ReserveNeverSpent
<1> DEFINE Kept == \A o \in Owners : /\ vault'[o].reserve >= vault[o].reserve
                                     /\ vault'[o].yield >= vault[o].yield
<1>1. VaultInv /\ [Next]_vars => [Kept]_vars
  BY BucketsGrow
<1> QED BY <1>1, BooksInvariant, PTL DEF Spec, ReserveNeverSpent

(* In a pause only the configuration, approvals, cancellations and gifts   *)
(* from outside go through: none takes lamports from a PDA, changes a      *)
(* total or opens a payment.                                               *)
LEMMA PausedStep ==
  ASSUME TypeOK, Next, config.is_paused, NEW x \in Owners
  PROVE  /\ lamports'[VaultPda(x)] >= lamports[VaultPda(x)]
         /\ vault'[x].total = vault[x].total
         /\ \A id \in PaymentIds : payment'[x][id].open => payment[x][id].open
<1> DEFINE Frozen == /\ lamports'[VaultPda(x)] >= lamports[VaultPda(x)]
                     /\ vault'[x].total = vault[x].total
                     /\ \A id \in PaymentIds : payment'[x][id].open => payment[x][id].open
<1>1. ~NotPaused
  BY DEF NotPaused
<1>2. /\ VaultPda(x) \in Address /\ VaultPda(x) \notin Wallets
      /\ lamports \in [Address -> U64] /\ lamports[VaultPda(x)] \in Nat
  BY VaultPdas, VaultTypes DEF TypeOK
<1>3. ASSUME NEW w \in Wallets, NEW balance,
             lamports' = [lamports EXCEPT ![w] = balance]
      PROVE  lamports'[VaultPda(x)] >= lamports[VaultPda(x)]
  BY <1>2, <1>3
<1>4. CASE ProtocolStep
  <2>1. vault' = vault /\ payment' = payment
    BY <1>4 DEF ProtocolStep, initialize_protocol, set_protocol_paused
  <2>2. lamports'[VaultPda(x)] >= lamports[VaultPda(x)]
    BY <1>2, <1>3, <1>4 DEF ProtocolStep, initialize_protocol, set_protocol_paused
  <2> QED BY <2>1, <2>2
<1>5. ASSUME NEW o \in Owners, VaultStep(o) PROVE Frozen
  <2>1. PICK mode \in Modes, cap \in Caps, alloc \in Allocations :
          update_vault_config(o, mode, cap, alloc)
    BY <1>1, <1>5 DEF VaultStep, initialize_vault, deposit, withdraw
  <2>2. lamports' = lamports /\ payment' = payment
    BY <2>1 DEF update_vault_config
  <2>3. vault'[x].total = vault[x].total
    BY <2>1 DEF update_vault_config, TypeOK, Vault
  <2> QED BY <1>2, <2>2, <2>3
<1>6. ASSUME NEW o \in Owners, NEW id \in PaymentIds, PaymentStep(o, id) PROVE Frozen
  <2>1. CASE approve_payment(o, id)
    <3>1. lamports' = lamports /\ vault' = vault
      BY <2>1 DEF approve_payment
    <3>2. \A i \in PaymentIds : payment'[x][i].open => payment[x][i].open
      BY <2>1 DEF approve_payment, TypeOK, Payment
    <3> QED BY <1>2, <3>1, <3>2
  <2>2. CASE cancel_payment(o, id)
    <3>1. lamports'[VaultPda(x)] >= lamports[VaultPda(x)]
      BY <1>3, <2>2, VaultPdas DEF cancel_payment
    <3>2. vault'[x].total = vault[x].total
      BY <2>2 DEF cancel_payment, TypeOK, Vault
    <3>3. \A i \in PaymentIds : payment'[x][i].open => payment[x][i].open
      BY <2>2 DEF cancel_payment, TypeOK, Payment, NoPayment
    <3> QED BY <3>1, <3>2, <3>3
  <2> QED BY <1>1, <1>6, <2>1, <2>2 DEF PaymentStep, schedule_payment, execute_payment
<1>7. ASSUME NEW from \in Wallets, NEW o \in Owners, NEW amount \in Gifts,
             SystemTransfer(from, VaultPda(o), amount)
      PROVE  Frozen
  <2>1. vault' = vault /\ payment' = payment
    BY <1>7 DEF SystemTransfer
  <2>2. amount \in Nat /\ from \in Address /\ VaultPda(o) \in Address /\ VaultPda(x) # from
    BY <1>2, VaultPdas, InputsAssumption DEF U64
  <2>3. lamports'[VaultPda(x)] >= lamports[VaultPda(x)]
    BY <1>7, <2>2, PdaMoved DEF SystemTransfer
  <2> QED BY <2>1, <2>3
<1> QED BY <1>4, <1>5, <1>6, <1>7 DEF Next

(* While the protocol is paused no vault loses lamports and none promises  *)
(* more of them to payments.                                               *)
THEOREM PauseFreezes == Spec => PauseFreezesVaults
<1> DEFINE Frozen ==
      config.is_paused =>
        \A o \in Owners : /\ lamports'[VaultPda(o)] >= lamports[VaultPda(o)]
                          /\ vault'[o].total = vault[o].total
                          /\ \A id \in PaymentIds :
                               payment'[o][id].open => payment[o][id].open
<1>1. TypeOK /\ [Next]_vars => [Frozen]_vars
  BY PausedStep
<1> QED BY <1>1, TypeCorrect, PTL DEF Spec, PauseFreezesVaults

-----------------------------------------------------------------------------
(* The reserve floor.                                                      *)

(* A rounded-down, possibly saturated ratio that reaches the floor means   *)
(* that the exact ratio does.                                              *)
LEMMA RatioBound ==
  ASSUME NEW r \in Nat, NEW t \in Nat, t > 0, NEW m \in Nat, SatMul(r, 10000) \div t >= m
  PROVE  r * 10000 >= m * t
<1> DEFINE x == SatMul(r, 10000)
           q == x \div t
<1>1. x \in Nat /\ x <= r * 10000
  BY LimitsAssumption DEF SatMul, Fits
<1> HIDE DEF x
<1>2. q \in Nat /\ x >= q * t
  BY <1>1
<1>3. q >= m
  BY DEF x
<1> HIDE DEF q
<1>4. q * t >= m * t
  BY <1>2, <1>3
<1>5. q * t \in Nat /\ m * t \in Nat
  BY <1>2
<1> QED BY <1>1, <1>2, <1>4, <1>5

(* Only a withdrawal or the execution of a payment lowers a total.         *)
LEMMA OnlyOutflowsLower ==
  ASSUME VaultInv, Next, NEW x \in Owners, vault'[x].total < vault[x].total
  PROVE  \/ \E amount \in Amounts : withdraw(x, amount)
         \/ \E id \in PaymentIds : execute_payment(x, id)
<1> DEFINE Outflow == \/ \E amount \in Amounts : withdraw(x, amount)
                      \/ \E id \in PaymentIds : execute_payment(x, id)
<1>0. TypeOK'
  BY NextType DEF VaultInv
<1>1. /\ vault \in [Owners -> Vault]
      /\ vault[x].total \in Nat
      /\ vault'[x].total \in Nat
  BY <1>0 DEF VaultInv, TypeOK, Vault, U64
<1>2. vault' # vault
  BY <1>1
<1>3. ASSUME NEW o \in Owners, NEW new,
             vault' = [vault EXCEPT ![o] = new],
             new.total >= vault[o].total \/ (o = x => Outflow)
      PROVE  Outflow
  <2>1. CASE o = x
    <3>1. vault'[x] = new
      BY <1>1, <1>3, <2>1
    <3>2. ~(new.total >= vault[x].total)
      BY <1>1, <3>1
    <3> QED BY <1>3, <2>1, <3>2
  <2>2. CASE o # x
    <3>1. vault'[x] = vault[x]
      BY <1>1, <1>3, <2>2
    <3> QED BY <1>1, <3>1
  <2> QED BY <2>1, <2>2
<1>4. ~ProtocolStep
  BY <1>2 DEF ProtocolStep, initialize_protocol, set_protocol_paused
<1>5. ASSUME NEW o \in Owners, VaultStep(o) PROVE Outflow
  <2> DEFINE v == vault[o]
  <2>0. v \in Vault /\ v.total \in Nat
    BY <1>1 DEF Vault, U64
  <2>1. ASSUME NEW alloc \in Allocations, initialize_vault(o, alloc) PROVE Outflow
    <3> DEFINE new == [NoVault EXCEPT !.open = TRUE, !.alloc = alloc,
                                      !.mode = MODE_SAFE, !.cap = DEFAULT_AI_CAP]
    <3>1. v = NoVault
      BY <2>1 DEF initialize_vault, VaultInv, VaultsWellFormed
    <3>2. new.total = NoVault.total
      BY DEF NoVault
    <3>3. vault' = [vault EXCEPT ![o] = new]
      BY <2>1 DEF initialize_vault
    <3>4. new.total >= v.total
      BY <2>0, <3>1, <3>2
    <3> HIDE DEF new, Outflow
    <3> QED BY <1>3, <3>3, <3>4
  <2>2. ASSUME NEW amount \in Amounts, deposit(o, amount) PROVE Outflow
    <3> DEFINE y == Share(amount, v.alloc.yield)
               r == Share(amount, v.alloc.reserve)
               p == Share(amount, v.alloc.payments)
               l == SatSub(SatSub(SatSub(amount, y), r), p)
               new == [v EXCEPT !.total = v.total + amount, !.yield = v.yield + y,
                           !.reserve = v.reserve + r, !.liquid = v.liquid + l,
                           !.payments = v.payments + p]
    <3>1. vault' = [vault EXCEPT ![o] = new]
      BY <2>2 DEF deposit
    <3>2. new.total = v.total + amount
      BY <2>0 DEF Vault
    <3>3. amount \in Nat
      BY InputsAssumption DEF U64
    <3> HIDE DEF new, Outflow
    <3>4. new.total >= v.total
      BY <2>0, <3>2, <3>3
    <3> QED BY <1>3, <3>1, <3>4
  <2>3. ASSUME NEW amount \in Amounts, withdraw(o, amount) PROVE Outflow
    <3> DEFINE new == [v EXCEPT !.total = SatSub(v.total, amount), !.liquid = SatSub(v.liquid, amount)]
    <3>1. vault' = [vault EXCEPT ![o] = new]
      BY <2>3 DEF withdraw
    <3>2. o = x => Outflow
      BY <2>3
    <3> HIDE DEF new, Outflow
    <3> QED BY <1>3, <3>1, <3>2
  <2>4. ASSUME NEW mode \in Modes, NEW cap \in Caps, NEW alloc \in Allocations,
               update_vault_config(o, mode, cap, alloc)
        PROVE  Outflow
    <3> DEFINE new == [v EXCEPT !.mode = mode, !.cap = cap, !.alloc = alloc]
    <3>1. vault' = [vault EXCEPT ![o] = new]
      BY <2>4 DEF update_vault_config
    <3>2. new.total = v.total
      BY <2>0 DEF Vault
    <3> HIDE DEF new, Outflow
    <3>3. new.total >= v.total
      BY <2>0, <3>2
    <3> QED BY <1>3, <3>1, <3>3
  <2> QED BY <1>5, <2>1, <2>2, <2>3, <2>4 DEF VaultStep
<1>6. ASSUME NEW o \in Owners, NEW id \in PaymentIds, PaymentStep(o, id) PROVE Outflow
  <2> DEFINE v == vault[o]
             p == payment[o][id]
  <2>0. v \in Vault /\ v.total \in Nat
    BY <1>1 DEF Vault, U64
  <2>1. ASSUME NEW recipient \in Recipients, NEW amount \in Amounts, NEW kind \in Kinds,
               NEW priority \in Priorities,
               schedule_payment(o, id, recipient, amount, kind, priority)
        PROVE  Outflow
    <3> DEFINE new == ReserveFunds(v, amount)
    <3>1. vault' = [vault EXCEPT ![o] = new]
      BY <2>1 DEF schedule_payment
    <3>2. new.total = v.total
      BY <2>0 DEF Vault, ReserveFunds
    <3> HIDE DEF new, Outflow
    <3>3. new.total >= v.total
      BY <2>0, <3>2
    <3> QED BY <1>3, <3>1, <3>3
  <2>2. ~approve_payment(o, id)
    BY <1>2 DEF approve_payment
  <2>3. CASE execute_payment(o, id)
    <3> DEFINE new == [v EXCEPT !.total = SatSub(v.total, p.amount)]
    <3>1. vault' = [vault EXCEPT ![o] = new]
      BY <2>3 DEF execute_payment
    <3>2. o = x => Outflow
      BY <2>3
    <3> HIDE DEF new, Outflow
    <3> QED BY <1>3, <3>1, <3>2
  <2>4. CASE cancel_payment(o, id)
    <3> DEFINE new == [v EXCEPT !.liquid = v.liquid + p.amount]
    <3>1. vault' = [vault EXCEPT ![o] = new]
      BY <2>4 DEF cancel_payment
    <3>2. new.total = v.total
      BY <2>0 DEF Vault
    <3> HIDE DEF new, Outflow
    <3>3. new.total >= v.total
      BY <2>0, <3>2
    <3> QED BY <1>3, <3>1, <3>3
  <2> QED BY <1>6, <2>1, <2>2, <2>3, <2>4 DEF PaymentStep
<1>7. ASSUME NEW from, NEW to, NEW amount PROVE ~SystemTransfer(from, to, amount)
  BY <1>2 DEF SystemTransfer
<1> QED BY <1>4, <1>5, <1>6, <1>7 DEF Next

(* A withdrawal checks the floor against what remains, a payment of low    *)
(* priority against what is there, which is more.                          *)
LEMMA OutflowKeepsFloor ==
  ASSUME VaultInv, Next, NEW o \in Owners, vault'[o].total < vault[o].total,
         \A id \in PaymentIds : ~RunsUrgent(o, id)
  PROVE  \/ vault'[o].total = 0
         \/ vault'[o].reserve * 10000 >= MIN_RESERVE_BPS * vault'[o].total
<1> DEFINE v == vault[o]
           Kept == \/ vault'[o].total = 0
                   \/ vault'[o].reserve * 10000 >= MIN_RESERVE_BPS * vault'[o].total
<1>1. /\ v \in Vault /\ v.total \in Nat /\ v.reserve \in Nat
      /\ vault \in [Owners -> Vault] /\ MIN_RESERVE_BPS \in Nat
  BY LimitsAssumption DEF VaultInv, TypeOK, Vault, U64
<1>2. ASSUME NEW amount \in Amounts, withdraw(o, amount) PROVE Kept
  <2> DEFINE t == SatSub(v.total, amount)
             new == [v EXCEPT !.total = t, !.liquid = SatSub(v.liquid, amount)]
  <2>1. /\ vault' = [vault EXCEPT ![o] = new]
        /\ t > 0 => SatMul(v.reserve, 10000) \div t >= MIN_RESERVE_BPS
    BY <1>2 DEF withdraw
  <2>2. vault'[o] = new
    BY <1>1, <2>1
  <2>3. new.total = t /\ new.reserve = v.reserve
    BY <1>1 DEF Vault
  <2>4. t \in Nat
    BY <1>1, InputsAssumption DEF SatSub, U64
  <2> HIDE DEF t, new
  <2>5. t > 0 => v.reserve * 10000 >= MIN_RESERVE_BPS * t
    BY <1>1, <2>1, <2>4, RatioBound
  <2> QED BY <2>2, <2>3, <2>4, <2>5
<1>3. ASSUME NEW id \in PaymentIds, execute_payment(o, id) PROVE Kept
  <2> DEFINE p == payment[o][id]
             t == SatSub(v.total, p.amount)
             new == [v EXCEPT !.total = t]
             paid == [p EXCEPT !.status = STATUS_COMPLETED]
  <2>1. /\ vault' = [vault EXCEPT ![o] = new]
        /\ payment' = [payment EXCEPT ![o][id] = paid]
        /\ p.status = STATUS_SCHEDULED
        /\ p.priority = PRIORITY_LOW => reserve_ratio_bps(v) >= MIN_RESERVE_BPS
    BY <1>3 DEF execute_payment, Runnable
  <2>2. vault'[o] = new /\ payment'[o][id] = paid
    BY <1>1, <2>1 DEF VaultInv, TypeOK
  <2>3. new.total = t /\ new.reserve = v.reserve
    BY <1>1 DEF Vault
  <2>4. p \in Payment /\ p.amount \in Nat
    BY DEF VaultInv, TypeOK, Payment, U64
  <2>5. paid.status = STATUS_COMPLETED
    <3> HIDE DEF p
    <3> QED BY <2>4 DEF Payment
  <2>6. p.priority = PRIORITY_LOW
    <3> HIDE DEF paid
    <3> QED BY <2>1, <2>2, <2>5 DEF RunsUrgent
  <2>7. t \in Nat /\ t <= v.total
    <3> HIDE DEF p
    <3> QED BY <1>1, <2>4 DEF SatSub
  <2> HIDE DEF t, new, paid
  <2>8. v.total > 0
    BY <1>1, <2>2, <2>3, <2>7
  <2>9. SatMul(v.reserve, 10000) \div v.total >= MIN_RESERVE_BPS
    BY <2>1, <2>6, <2>8 DEF reserve_ratio_bps
  <2>10. v.reserve * 10000 >= MIN_RESERVE_BPS * v.total
    BY <1>1, <2>8, <2>9, RatioBound
  <2>11. MIN_RESERVE_BPS * v.total >= MIN_RESERVE_BPS * t
    BY <1>1, <2>7
  <2>12. v.reserve * 10000 >= MIN_RESERVE_BPS * t
    BY <1>1, <2>7, <2>10, <2>11
  <2> QED BY <2>2, <2>3, <2>12
<1> QED BY <1>2, <1>3, OnlyOutflowsLower

(* Whatever leaves a vault by a withdrawal or by a low-priority payment    *)
(* leaves at least the minimum reserve ratio of what remains.              *)
THEOREM FloorHolds == Spec => FloorGatesOptionalOutflow
<1> DEFINE Gated ==
      \A o \in Owners :
        vault'[o].total < vault[o].total /\ (\A id \in PaymentIds : ~RunsUrgent(o, id))
        => \/ vault'[o].total = 0
           \/ vault'[o].reserve * 10000 >= MIN_RESERVE_BPS * vault'[o].total
<1>1. VaultInv /\ [Next]_vars => [Gated]_vars
  BY OutflowKeepsFloor
<1> QED BY <1>1, BooksInvariant, PTL DEF Spec, FloorGatesOptionalOutflow

-----------------------------------------------------------------------------
(* The life of a payment: approvals of large payments, finality and the    *)
(* limits of the autopilot, proved for all values of the constants.        *)

(* What each instruction does to the payments: at most one of them         *)
(* changes, and in one of four ways.                                       *)
Schedules(o, id) ==
  /\ ~payment[o][id].open
  /\ payment'[o][id].open
  /\ \/ payment'[o][id].status = STATUS_PENDING
     \/ /\ payment'[o][id].status = STATUS_SCHEDULED
        /\ payment'[o][id].amount < MANUAL_APPROVAL_THRESHOLD_LAMPORTS
  /\ signedOff' = signedOff
Approves(o, id) ==
  /\ payment[o][id].open /\ payment[o][id].status = STATUS_PENDING
  /\ payment'[o][id].open
  /\ signedOff' = signedOff \cup {<<o, id>>}
Executes(o, id) ==
  /\ payment[o][id].open /\ payment[o][id].status = STATUS_SCHEDULED
  /\ payment'[o][id].open /\ payment'[o][id].amount = payment[o][id].amount
  /\ signedOff' = signedOff
Cancels(o, id) ==
  /\ payment[o][id].open /\ payment[o][id].status \in LiveStatuses
  /\ ~payment'[o][id].open
  /\ signedOff' = signedOff \ {<<o, id>>}
Changes(o, id) ==
  Schedules(o, id) \/ Approves(o, id) \/ Executes(o, id) \/ Cancels(o, id)

(* An instruction changes at most one payment, and in one of those ways.   *)
LEMMA PaymentSteps ==
  ASSUME TypeOK, Next
  PROVE  \/ payment' = payment /\ signedOff' = signedOff
         \/ \E o \in Owners, id \in PaymentIds :
              /\ Changes(o, id)
              /\ \A x \in Owners, y \in PaymentIds :
                   <<x, y>> # <<o, id>> => payment'[x][y] = payment[x][y]
<1> DEFINE Goal == \/ payment' = payment /\ signedOff' = signedOff
                   \/ \E o \in Owners, id \in PaymentIds :
                        /\ Changes(o, id)
                        /\ \A x \in Owners, y \in PaymentIds :
                             <<x, y>> # <<o, id>> => payment'[x][y] = payment[x][y]
<1>1. ASSUME NEW o \in Owners, NEW id \in PaymentIds, NEW q,
             payment' = [payment EXCEPT ![o][id] = q]
      PROVE  /\ payment'[o][id] = q
             /\ \A x \in Owners, y \in PaymentIds :
                  <<x, y>> # <<o, id>> => payment'[x][y] = payment[x][y]
  BY <1>1 DEF TypeOK
<1>2. CASE ProtocolStep
  BY <1>2 DEF ProtocolStep, initialize_protocol, set_protocol_paused
<1>3. ASSUME NEW o \in Owners, VaultStep(o) PROVE Goal
  BY <1>3 DEF VaultStep, initialize_vault, deposit, withdraw, update_vault_config
<1>4. ASSUME NEW o \in Owners, NEW id \in PaymentIds, PaymentStep(o, id) PROVE Goal
  <2> DEFINE p == payment[o][id]
  <2>0. p \in Payment /\ p.amount \in Nat /\ MANUAL_APPROVAL_THRESHOLD_LAMPORTS \in Nat
    BY LimitsAssumption DEF TypeOK, Payment, U64
  <2>1. ASSUME NEW recipient \in Recipients, NEW amount \in Amounts, NEW kind \in Kinds,
               NEW priority \in Priorities,
               schedule_payment(o, id, recipient, amount, kind, priority)
        PROVE  Goal
    <3> DEFINE needed == RequiresApproval(vault[o], amount)
               q == [open |-> TRUE, recipient |-> recipient, amount |-> amount,
                     status |-> IF needed THEN STATUS_PENDING ELSE STATUS_SCHEDULED,
                     kind |-> kind, priority |-> priority,
                     approved |-> ~needed]
    <3>1. payment' = [payment EXCEPT ![o][id] = q] /\ ~p.open /\ signedOff' = signedOff
      BY <2>1 DEF schedule_payment
    <3>2. amount \in Nat
      BY InputsAssumption DEF U64
    <3>3. q.open /\ q.amount = amount
      BY Zenon
    <3>4. \/ q.status = STATUS_PENDING
          \/ q.status = STATUS_SCHEDULED /\ amount < MANUAL_APPROVAL_THRESHOLD_LAMPORTS
      <4>1. CASE needed
        <5>1. q.status = STATUS_PENDING
          BY <4>1, Zenon
        <5> HIDE DEF q
        <5> QED BY <5>1
      <4>2. CASE ~needed
        <5>1. q.status = STATUS_SCHEDULED
          BY <4>2, Zenon
        <5> HIDE DEF q
        <5>2. amount < MANUAL_APPROVAL_THRESHOLD_LAMPORTS
          BY <2>0, <3>2, <4>2 DEF RequiresApproval
        <5> QED BY <5>1, <5>2
      <4> HIDE DEF q, needed
      <4> QED BY <4>1, <4>2
    <3> HIDE DEF q
    <3>5. /\ payment'[o][id] = q
          /\ \A x \in Owners, y \in PaymentIds :
               <<x, y>> # <<o, id>> => payment'[x][y] = payment[x][y]
      BY <1>1, <3>1
    <3>6. Schedules(o, id)
      BY <3>1, <3>3, <3>4, <3>5 DEF Schedules
    <3> QED BY <3>5, <3>6 DEF Changes
  <2>2. CASE approve_payment(o, id)
    <3> DEFINE q == [p EXCEPT !.approved = TRUE, !.status = STATUS_SCHEDULED]
    <3>1. /\ payment' = [payment EXCEPT ![o][id] = q] /\ p.open /\ p.status = STATUS_PENDING
          /\ signedOff' = signedOff \cup {<<o, id>>}
      BY <2>2 DEF approve_payment
    <3> HIDE DEF p
    <3>2. q.open = p.open
      BY <2>0 DEF Payment
    <3> HIDE DEF q
    <3>3. /\ payment'[o][id] = q
          /\ \A x \in Owners, y \in PaymentIds :
               <<x, y>> # <<o, id>> => payment'[x][y] = payment[x][y]
      BY <1>1, <3>1
    <3>4. Approves(o, id)
      BY <3>1, <3>2, <3>3 DEF Approves, p
    <3> QED BY <3>3, <3>4 DEF Changes
  <2>3. CASE execute_payment(o, id)
    <3> DEFINE q == [p EXCEPT !.status = STATUS_COMPLETED]
    <3>1. /\ payment' = [payment EXCEPT ![o][id] = q] /\ p.open /\ p.status = STATUS_SCHEDULED
          /\ signedOff' = signedOff
      BY <2>3 DEF execute_payment, Runnable
    <3> HIDE DEF p
    <3>2. q.open = p.open /\ q.amount = p.amount
      BY <2>0 DEF Payment
    <3> HIDE DEF q
    <3>3. /\ payment'[o][id] = q
          /\ \A x \in Owners, y \in PaymentIds :
               <<x, y>> # <<o, id>> => payment'[x][y] = payment[x][y]
      BY <1>1, <3>1
    <3>4. Executes(o, id)
      BY <3>1, <3>2, <3>3 DEF Executes, p
    <3> QED BY <3>3, <3>4 DEF Changes
  <2>4. CASE cancel_payment(o, id)
    <3>1. /\ payment' = [payment EXCEPT ![o][id] = NoPayment]
          /\ p.open /\ p.status \in LiveStatuses
          /\ signedOff' = signedOff \ {<<o, id>>}
      BY <2>4 DEF cancel_payment, Cancellable
    <3>2. ~NoPayment.open
      BY DEF NoPayment
    <3>3. /\ payment'[o][id] = NoPayment
          /\ \A x \in Owners, y \in PaymentIds :
               <<x, y>> # <<o, id>> => payment'[x][y] = payment[x][y]
      BY <1>1, <3>1
    <3>4. Cancels(o, id)
      BY <3>1, <3>2, <3>3 DEF Cancels
    <3> QED BY <3>3, <3>4 DEF Changes
  <2> QED BY <1>4, <2>1, <2>2, <2>3, <2>4 DEF PaymentStep
<1>5. ASSUME NEW from \in Wallets, NEW o \in Owners, NEW amount \in Gifts,
             SystemTransfer(from, VaultPda(o), amount)
      PROVE  Goal
  BY <1>5 DEF SystemTransfer
<1> QED BY <1>2, <1>3, <1>4, <1>5 DEF Next

-----------------------------------------------------------------------------
(* Approvals and finality.                                                 *)

(* A payment at or above the manual approval threshold becomes ready only  *)
(* by approve_payment: scheduling one leaves it pending, and running or    *)
(* cancelling one takes no approval over to another.                       *)
LEMMA NextSignedOff ==
  TypeOK /\ LargePaymentsSignedOff /\ [Next]_vars => LargePaymentsSignedOff'
<1> SUFFICES ASSUME TypeOK, LargePaymentsSignedOff, [Next]_vars,
                    NEW o \in Owners, NEW id \in PaymentIds,
                    payment'[o][id].open,
                    payment'[o][id].status \in {STATUS_SCHEDULED, STATUS_COMPLETED},
                    payment'[o][id].amount >= MANUAL_APPROVAL_THRESHOLD_LAMPORTS
             PROVE  <<o, id>> \in signedOff'
  BY DEF LargePaymentsSignedOff
<1>1. payment[o][id].open
        /\ payment[o][id].status \in {STATUS_SCHEDULED, STATUS_COMPLETED}
        /\ payment[o][id].amount >= MANUAL_APPROVAL_THRESHOLD_LAMPORTS
        => <<o, id>> \in signedOff
  BY DEF LargePaymentsSignedOff
<1>2. CASE payment' = payment /\ signedOff' = signedOff
  BY <1>1, <1>2
<1>3. ASSUME NEW x \in Owners, NEW y \in PaymentIds, Changes(x, y),
             \A a \in Owners, b \in PaymentIds :
               <<a, b>> # <<x, y>> => payment'[a][b] = payment[a][b]
      PROVE  <<o, id>> \in signedOff'
  <2>1. CASE <<o, id>> # <<x, y>>
    <3>1. payment'[o][id] = payment[o][id]
      BY <1>3, <2>1
    <3>2. <<o, id>> \in signedOff
      BY <1>1, <3>1
    <3> QED BY <1>3, <2>1, <3>2 DEF Changes, Schedules, Approves, Executes, Cancels
  <2>2. CASE <<o, id>> = <<x, y>>
    <3>1. x = o /\ y = id
      BY <2>2
    <3>2. CASE Schedules(o, id)
      <4>1. payment'[o][id].amount \in Nat /\ MANUAL_APPROVAL_THRESHOLD_LAMPORTS \in Nat
        <5>1. payment'[o][id] \in Payment
          BY NextType DEF TypeOK
        <5> QED BY <5>1, LimitsAssumption DEF Payment, U64
      <4> QED BY <3>2, <4>1 DEF Schedules, STATUS_PENDING, STATUS_SCHEDULED, STATUS_COMPLETED
    <3>3. CASE Approves(o, id)
      BY <3>3 DEF Approves
    <3>4. CASE Executes(o, id)
      BY <1>1, <3>4 DEF Executes
    <3>5. CASE Cancels(o, id)
      BY <3>5 DEF Cancels
    <3> QED BY <1>3, <3>1, <3>2, <3>3, <3>4, <3>5 DEF Changes
  <2> QED BY <2>1, <2>2
<1>4. CASE UNCHANGED vars
  BY <1>2, <1>4 DEF vars
<1> QED BY <1>2, <1>3, <1>4, PaymentSteps

(* Whatever mode the vault was in and however often its id was used, a     *)
(* large payment runs only if its owner approved this very scheduling.     *)
THEOREM LargePaymentsAreSignedOff == Spec => []LargePaymentsSignedOff
<1>1. Init => LargePaymentsSignedOff
  BY DEF Init, LargePaymentsSignedOff, NoPayment
<1> QED BY <1>1, NextSignedOff, TypeCorrect, PTL DEF Spec

(* A completed payment never changes again, so it is paid exactly once.    *)
THEOREM PaidPaymentsAreFinal == Spec => PaidIsFinal
<1> DEFINE Final == \A o \in Owners, id \in PaymentIds :
                      payment[o][id].open /\ payment[o][id].status = STATUS_COMPLETED
                      => payment'[o][id] = payment[o][id]
<1>1. TypeOK /\ [Next]_vars => [Final]_vars
  <2> SUFFICES ASSUME TypeOK, Next, NEW o \in Owners, NEW id \in PaymentIds,
                      payment[o][id].open, payment[o][id].status = STATUS_COMPLETED
               PROVE  payment'[o][id] = payment[o][id]
    OBVIOUS
  <2>1. ~Changes(o, id)
    BY DEF Changes, Schedules, Approves, Executes, Cancels, LiveStatuses,
           STATUS_PENDING, STATUS_SCHEDULED, STATUS_QUEUED, STATUS_COMPLETED
  <2>2. ASSUME NEW x \in Owners, NEW y \in PaymentIds, Changes(x, y),
               \A a \in Owners, b \in PaymentIds :
                 <<a, b>> # <<x, y>> => payment'[a][b] = payment[a][b]
        PROVE  payment'[o][id] = payment[o][id]
    BY <2>1, <2>2
  <2> QED BY <2>2, PaymentSteps
<1> QED BY <1>1, TypeCorrect, PTL DEF Spec, PaidIsFinal

(* Only execute_payment turns an unpaid payment into a paid one.           *)
LEMMA OnlyExecutionPays ==
  ASSUME TypeOK, Next, NEW o \in Owners, NEW id \in PaymentIds, Runs(o, id)
  PROVE  execute_payment(o, id)
<1>1. ASSUME NEW x \in Owners, NEW y \in PaymentIds, NEW q,
             payment' = [payment EXCEPT ![x][y] = q],
             q.open /\ q.status = STATUS_COMPLETED => execute_payment(x, y)
      PROVE  execute_payment(o, id)
  <2>1. CASE x = o /\ y = id
    <3>1. payment'[o][id] = q
      BY <1>1, <2>1 DEF TypeOK
    <3> QED BY <1>1, <2>1, <3>1 DEF Runs
  <2>2. CASE ~(x = o /\ y = id)
    <3>1. payment'[o][id] = payment[o][id]
      BY <1>1, <2>2 DEF TypeOK
    <3> QED BY <3>1 DEF Runs
  <2> QED BY <2>1, <2>2
<1>2. payment' # payment
  BY DEF Runs
<1>3. PICK x \in Owners, y \in PaymentIds : PaymentStep(x, y)
  <2>1. ~ProtocolStep
    BY <1>2 DEF ProtocolStep, initialize_protocol, set_protocol_paused
  <2>2. ASSUME NEW x \in Owners PROVE ~VaultStep(x)
    BY <1>2 DEF VaultStep, initialize_vault, deposit, withdraw, update_vault_config
  <2>3. ASSUME NEW from, NEW to, NEW amount PROVE ~SystemTransfer(from, to, amount)
    BY <1>2 DEF SystemTransfer
  <2> QED BY <2>1, <2>2, <2>3 DEF Next
<1>4. payment[x][y] \in Payment
  BY DEF TypeOK
<1>5. ASSUME NEW recipient \in Recipients, NEW amount \in Amounts, NEW kind \in Kinds,
             NEW priority \in Priorities,
             schedule_payment(x, y, recipient, amount, kind, priority)
      PROVE  execute_payment(o, id)
  <2> DEFINE q == [open |-> TRUE, recipient |-> recipient, amount |-> amount,
                   status |-> IF RequiresApproval(vault[x], amount)
                              THEN STATUS_PENDING ELSE STATUS_SCHEDULED,
                   kind |-> kind, priority |-> priority,
                   approved |-> ~RequiresApproval(vault[x], amount)]
  <2>1. payment' = [payment EXCEPT ![x][y] = q]
    BY <1>5 DEF schedule_payment
  <2>2. q.status # STATUS_COMPLETED
    <3>1. q.status \in {STATUS_PENDING, STATUS_SCHEDULED}
      BY Zenon
    <3> HIDE DEF q
    <3> QED BY <3>1 DEF STATUS_PENDING, STATUS_SCHEDULED, STATUS_COMPLETED
  <2> HIDE DEF q
  <2> QED BY <1>1, <2>1, <2>2
<1>6. CASE approve_payment(x, y)
  <2> DEFINE q == [payment[x][y] EXCEPT !.approved = TRUE, !.status = STATUS_SCHEDULED]
  <2>1. payment' = [payment EXCEPT ![x][y] = q]
    BY <1>6 DEF approve_payment
  <2>2. q.status # STATUS_COMPLETED
    BY <1>4 DEF Payment, STATUS_SCHEDULED, STATUS_COMPLETED
  <2> HIDE DEF q
  <2> QED BY <1>1, <2>1, <2>2
<1>7. CASE execute_payment(x, y)
  <2> DEFINE q == [payment[x][y] EXCEPT !.status = STATUS_COMPLETED]
  <2>1. payment' = [payment EXCEPT ![x][y] = q]
    BY <1>7 DEF execute_payment
  <2> HIDE DEF q
  <2> QED BY <1>1, <1>7, <2>1
<1>8. CASE cancel_payment(x, y)
  <2>1. payment' = [payment EXCEPT ![x][y] = NoPayment] /\ ~NoPayment.open
    BY <1>8 DEF cancel_payment, NoPayment
  <2> QED BY <1>1, <2>1
<1> QED BY <1>3, <1>5, <1>6, <1>7, <1>8 DEF PaymentStep

(* What runs unsigned in autopilot is within the cap in force when it runs *)
(* and below the approval threshold, whatever mode and cap it was          *)
(* scheduled under.                                                        *)
THEOREM AutopilotIsLimited == Spec => AutopilotSpendsWithinLimits
<1> DEFINE Limited ==
      \A o \in Owners, id \in PaymentIds :
        Runs(o, id) /\ vault[o].mode = MODE_AUTOPILOT /\ <<o, id>> \notin signedOff
        => /\ payment[o][id].amount <= vault[o].cap
           /\ payment[o][id].amount < MANUAL_APPROVAL_THRESHOLD_LAMPORTS
<1>1. TypeOK /\ LargePaymentsSignedOff /\ [Next]_vars => [Limited]_vars
  <2> SUFFICES ASSUME TypeOK, LargePaymentsSignedOff, Next,
                      NEW o \in Owners, NEW id \in PaymentIds, Runs(o, id),
                      vault[o].mode = MODE_AUTOPILOT, <<o, id>> \notin signedOff
               PROVE  /\ payment[o][id].amount <= vault[o].cap
                      /\ payment[o][id].amount < MANUAL_APPROVAL_THRESHOLD_LAMPORTS
    OBVIOUS
  <2>1. execute_payment(o, id)
    BY OnlyExecutionPays
  <2>2. payment[o][id].amount <= vault[o].cap
    BY <2>1 DEF execute_payment, WithinCap
  <2>3. payment[o][id].open /\ payment[o][id].status = STATUS_SCHEDULED
    BY <2>1 DEF execute_payment, Runnable
  <2>4. ~(payment[o][id].amount >= MANUAL_APPROVAL_THRESHOLD_LAMPORTS)
    BY <2>3 DEF LargePaymentsSignedOff
  <2>5. payment[o][id].amount \in Nat /\ MANUAL_APPROVAL_THRESHOLD_LAMPORTS \in Nat
    BY LimitsAssumption DEF TypeOK, Payment, U64
  <2>6. payment[o][id].amount < MANUAL_APPROVAL_THRESHOLD_LAMPORTS
    BY <2>4, <2>5
  <2> QED BY <2>2, <2>6
<1> QED BY <1>1, TypeCorrect, LargePaymentsAreSignedOff, PTL DEF Spec, AutopilotSpendsWithinLimits

=============================================================================
