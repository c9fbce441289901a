-------------------------- MODULE AceEscrow_proofs --------------------------
(***************************************************************************)
(* Where the lamports of AceProgram are, for all values of its constants:  *)
(* none are created or lost, funds held for a payment can be released, and *)
(* the program implements the abstract escrow, whose promises it inherits. *)
(***************************************************************************)
EXTENDS AceEscrow, AceProgram_proofs

-----------------------------------------------------------------------------
(* The open payment accounts.                                              *)

OpenOf(w) == {x \in OpenPayments : x[1] = w}

(* There are finitely many addresses and payment accounts.                 *)
LEMMA Finite ==
  /\ IsFiniteSet(Address)
  /\ IsFiniteSet(OpenPayments) /\ Cardinality(OpenPayments) \in Nat
  /\ \A w : IsFiniteSet(OpenOf(w)) /\ Cardinality(OpenOf(w)) \in Nat
<1> DEFINE Pdas == {VaultPda(o) : o \in Owners}
           pda == [o \in Owners |-> VaultPda(o)]
<1>1. IsFiniteSet(Owners)
  BY WalletsAssumption, FS_Subset
<1>2. IsFiniteSet(Pdas)
  <2>1. pda \in Surjection(Owners, Pdas)
    BY DEF Surjection
  <2> HIDE DEF pda, Pdas
  <2> QED BY <1>1, <2>1, FS_Surjection
<1>3. IsFiniteSet(Address)
  BY <1>2, WalletsAssumption, FS_Union DEF Address
<1>4. IsFiniteSet(Owners \X PaymentIds)
  BY <1>1, InputsAssumption, FS_Product
<1>5. IsFiniteSet(OpenPayments)
  BY <1>4, FS_Subset DEF OpenPayments
<1>6. \A w : IsFiniteSet(OpenOf(w))
  BY <1>5, FS_Subset DEF OpenOf
<1> QED BY <1>3, <1>5, <1>6, FS_CardinalityType

(* Payments that are open before and after a step.                         *)
LEMMA OpenSame ==
  ASSUME \A o \in Owners, id \in PaymentIds : payment'[o][id].open = payment[o][id].open
  PROVE  OpenPayments' = OpenPayments /\ \A w : OpenOf(w)' = OpenOf(w)
<1>1. \A x \in Owners \X PaymentIds : x[1] \in Owners /\ x[2] \in PaymentIds
  OBVIOUS
<1>2. OpenPayments' = OpenPayments
  BY <1>1 DEF OpenPayments
<1> QED BY <1>2 DEF OpenOf

(* One account more.                                                       *)
LEMMA OpenOne ==
  ASSUME NEW o \in Owners, NEW id \in PaymentIds, TypeOK, NEW q,
         payment' = [payment EXCEPT ![o][id] = q], q.open, ~payment[o][id].open
  PROVE  /\ Cardinality(OpenPayments') = Cardinality(OpenPayments) + 1
         /\ Cardinality(OpenOf(o)') = Cardinality(OpenOf(o)) + 1
         /\ \A w : w # o => OpenOf(w)' = OpenOf(w)
<1>1. \A x \in Owners \X PaymentIds :
        payment'[x[1]][x[2]] = IF x = <<o, id>> THEN q ELSE payment[x[1]][x[2]]
  BY DEF TypeOK
<1>2. OpenPayments' = OpenPayments \cup {<<o, id>>} /\ <<o, id>> \notin OpenPayments
  BY <1>1 DEF OpenPayments
<1>3. OpenOf(o)' = OpenOf(o) \cup {<<o, id>>} /\ <<o, id>> \notin OpenOf(o)
  BY <1>2 DEF OpenOf
<1>4. \A w : w # o => OpenOf(w)' = OpenOf(w)
  BY <1>2 DEF OpenOf
<1> QED BY <1>2, <1>3, <1>4, Finite, FS_AddElement

(* One account less.                                                       *)
LEMMA CloseOne ==
  ASSUME NEW o \in Owners, NEW id \in PaymentIds, TypeOK, NEW q,
         payment' = [payment EXCEPT ![o][id] = q], ~q.open, payment[o][id].open
  PROVE  /\ Cardinality(OpenPayments') = Cardinality(OpenPayments) - 1
         /\ Cardinality(OpenOf(o)') = Cardinality(OpenOf(o)) - 1
         /\ \A w : w # o => OpenOf(w)' = OpenOf(w)
<1>1. \A x \in Owners \X PaymentIds :
        payment'[x[1]][x[2]] = IF x = <<o, id>> THEN q ELSE payment[x[1]][x[2]]
  BY DEF TypeOK
<1>2. OpenPayments' = OpenPayments \ {<<o, id>>} /\ <<o, id>> \in OpenPayments
  BY <1>1 DEF OpenPayments
<1>3. OpenOf(o)' = OpenOf(o) \ {<<o, id>>} /\ <<o, id>> \in OpenOf(o)
  BY <1>2 DEF OpenOf
<1>4. \A w : w # o => OpenOf(w)' = OpenOf(w)
  BY <1>2 DEF OpenOf
<1> QED BY <1>2, <1>3, <1>4, Finite, FS_RemoveElement

(* Which accounts are open after an instruction, and what it leaves as it  *)
(* was of a payment it does not close.                                     *)
LEMMA Payments ==
  ASSUME TypeOK, NEW o \in Owners, NEW id \in PaymentIds
  PROVE  /\ \A recipient \in Recipients, amount \in Amounts, kind \in Kinds, priority \in Priorities :
              schedule_payment(o, id, recipient, amount, kind, priority) =>
                \E q : /\ payment' = [payment EXCEPT ![o][id] = q]
                       /\ q.open /\ q.amount = amount /\ q.recipient = recipient
                       /\ q.status \in LiveStatuses
         /\ approve_payment(o, id) =>
              \E q : /\ payment' = [payment EXCEPT ![o][id] = q]
                     /\ q.open /\ q.amount = payment[o][id].amount
                     /\ q.recipient = payment[o][id].recipient /\ q.status \in LiveStatuses
         /\ execute_payment(o, id) =>
              \E q : /\ payment' = [payment EXCEPT ![o][id] = q]
                     /\ q.open /\ q.status \notin LiveStatuses
<1> DEFINE p == payment[o][id]
<1>1. p \in Payment
  BY DEF TypeOK
<1>2. ASSUME NEW recipient \in Recipients, NEW amount \in Amounts, NEW kind \in Kinds,
             NEW priority \in Priorities,
             schedule_payment(o, id, recipient, amount, kind, priority)
      PROVE  \E q : /\ payment' = [payment EXCEPT ![o][id] = q]
                    /\ q.open /\ q.amount = amount /\ q.recipient = recipient
                    /\ q.status \in LiveStatuses
  <2> DEFINE needed == RequiresApproval(vault[o], amount)
             q == [open |-> TRUE, recipient |-> recipient, amount |-> amount,
                   status |-> IF needed THEN STATUS_PENDING ELSE STATUS_SCHEDULED,
                   kind |-> kind, priority |-> priority, approved |-> ~needed]
  <2>1. payment' = [payment EXCEPT ![o][id] = q]
    BY <1>2 DEF schedule_payment
  <2>2. q.open /\ q.amount = amount /\ q.recipient = recipient
          /\ q.status \in {STATUS_PENDING, STATUS_SCHEDULED}
    BY Zenon
  <2> HIDE DEF q
  <2>3. q.status \in LiveStatuses
    BY <2>2 DEF LiveStatuses
  <2> QED BY <2>1, <2>2, <2>3
<1>3. ASSUME approve_payment(o, id)
      PROVE  \E q : /\ payment' = [payment EXCEPT ![o][id] = q]
                    /\ q.open /\ q.amount = p.amount
                    /\ q.recipient = p.recipient /\ q.status \in LiveStatuses
  <2> DEFINE q == [p EXCEPT !.approved = TRUE, !.status = STATUS_SCHEDULED]
  <2>1. payment' = [payment EXCEPT ![o][id] = q] /\ p.open
    BY <1>3 DEF approve_payment
  <2>2. q.open = p.open /\ q.amount = p.amount /\ q.recipient = p.recipient
          /\ q.status = STATUS_SCHEDULED
    <3> HIDE DEF p
    <3> QED BY <1>1 DEF Payment
  <2> HIDE DEF p, q
  <2> QED BY <2>1, <2>2 DEF LiveStatuses
<1>4. ASSUME execute_payment(o, id)
      PROVE  \E q : /\ payment' = [payment EXCEPT ![o][id] = q]
                    /\ q.open /\ q.status \notin LiveStatuses
  <2> DEFINE q == [p EXCEPT !.status = STATUS_COMPLETED]
  <2>1. payment' = [payment EXCEPT ![o][id] = q] /\ p.open
    BY <1>4 DEF execute_payment, Runnable
  <2>2. q.open = p.open /\ q.status = STATUS_COMPLETED
    <3> HIDE DEF p
    <3> QED BY <1>1 DEF Payment
  <2>3. STATUS_COMPLETED \notin LiveStatuses
    BY DEF LiveStatuses, STATUS_PENDING, STATUS_SCHEDULED, STATUS_QUEUED, STATUS_COMPLETED
  <2> HIDE DEF p, q
  <2> QED BY <2>1, <2>2, <2>3
<1> QED BY <1>2, <1>3, <1>4

-----------------------------------------------------------------------------
(* The lamport supply.                                                     *)

(* The lamports of all addresses, and of all wallets at the start.         *)
Circulating == SumFunctionOnSet(lamports, Address)
Supply == SumFunctionOnSet(InitialLamports, Wallets)

(* One balance more or less by an amount.                                  *)
LEMMA OneBalance ==
  ASSUME TypeOK, TypeOK', NEW a \in Address, NEW b \in Int,
         lamports' = [lamports EXCEPT ![a] = lamports[a] + b]
  PROVE  Circulating' = Circulating + b
<1> DEFINE f == lamports
           g == lamports'
<1>1. g[a] = f[a] + b
  BY DEF TypeOK
<1>2. \A c \in Address : f[c] \in Int /\ g[c] \in Int
  BY DEF TypeOK, U64
<1>3. \A c \in Address \ {a} : f[c] = g[c]
  BY DEF TypeOK
<1>4. Circulating = SumFunctionOnSet(f, Address) /\ Circulating' = SumFunctionOnSet(g, Address)
  BY DEF Circulating
<1> HIDE DEF f, g
<1>5. SumFunctionOnSet(g, Address) + f[a] = SumFunctionOnSet(f, Address) + g[a]
  BY <1>2, <1>3, Finite, SumUpdate
<1>6. SumFunctionOnSet(g, Address) \in Int /\ SumFunctionOnSet(f, Address) \in Int
  BY <1>2, Finite, SumInt
<1> QED BY <1>1, <1>2, <1>4, <1>5, <1>6

(* A transfer changes no sum of balances.                                  *)
LEMMA TransferKeepsSum ==
  ASSUME TypeOK, TypeOK', NEW from \in Address, NEW to \in Address, from # to,
         NEW amount \in Nat, lamports' = Moved(from, to, amount), lamports[from] >= amount
  PROVE  SumFunctionOnSet(lamports, Address)' = SumFunctionOnSet(lamports, Address)
<1> DEFINE mid == [lamports EXCEPT ![from] = @ - amount]
<1>1. \A c \in Address : lamports[c] \in Nat /\ lamports'[c] \in Nat
  BY DEF TypeOK, U64
<1>2. /\ mid[from] = lamports[from] - amount /\ mid[to] = lamports[to]
      /\ \A c \in Address \ {from} : mid[c] = lamports[c]
      /\ lamports'[from] = lamports[from] - amount /\ lamports'[to] = lamports[to] + amount
      /\ \A c \in Address \ {from, to} : lamports'[c] = lamports[c]
  BY DEF TypeOK, Moved
<1> HIDE DEF mid
<1>3. /\ \A c \in Address : lamports[c] \in Int /\ mid[c] \in Int /\ lamports'[c] \in Int
      /\ \A c \in Address \ {from} : lamports[c] = mid[c]
      /\ \A c \in Address \ {to} : mid[c] = lamports'[c]
  BY <1>1, <1>2
<1>4. SumFunctionOnSet(mid, Address) + lamports[from] = SumFunctionOnSet(lamports, Address) + mid[from]
  BY <1>3, Finite, SumUpdate
<1>5. SumFunctionOnSet(lamports', Address) + mid[to] = SumFunctionOnSet(mid, Address) + lamports'[to]
  BY <1>3, Finite, SumUpdate
<1>6. /\ SumFunctionOnSet(mid, Address) \in Int /\ SumFunctionOnSet(lamports, Address) \in Int
      /\ SumFunctionOnSet(lamports', Address) \in Int
  BY <1>3, Finite, SumInt
<1>7. SumFunctionOnSet(lamports', Address) = SumFunctionOnSet(lamports, Address)
  BY <1>1, <1>2, <1>4, <1>5, <1>6
<1> QED BY <1>7

(* At the start the wallets hold everything.                               *)
LEMMA InitSupply == Init => SupplyConserved
<1> SUFFICES ASSUME Init PROVE SupplyConserved
  OBVIOUS
<1>1. OpenPayments = {}
  BY DEF Init, OpenPayments, NoPayment
<1>2. /\ \A c \in Address : lamports[c] \in Int
      /\ \A w \in Wallets : lamports[w] = InitialLamports[w]
      /\ \A c \in Address \ Wallets : lamports[c] = 0
  <2>1. \A c \in Address : lamports[c] \in Nat
    BY InitType DEF TypeOK, U64
  <2> QED BY <2>1, VaultPdas DEF Init
<1>3. SumFunctionOnSet(lamports, Address) = SumFunctionOnSet(InitialLamports, Wallets)
  BY <1>2, Finite, VaultPdas, SumExtend
<1>4. SumFunctionOnSet(lamports, Address) \in Int
  BY <1>2, Finite, SumInt
<1>5. PAYMENT_RENT * Cardinality(OpenPayments) = 0
  BY <1>1, FS_EmptySet, LimitsAssumption DEF U64
<1>6. ~config.open
  BY DEF Init, NoConfig
<1> QED BY <1>3, <1>4, <1>5, <1>6 DEF SupplyConserved

(* Every instruction puts into the accounts what it takes from the         *)
(* balances.                                                               *)
LEMMA NextSupply == TypeOK /\ TypeOK' /\ SupplyConserved /\ [Next]_vars => SupplyConserved'
<1> SUFFICES ASSUME TypeOK, TypeOK', SupplyConserved, [Next]_vars PROVE SupplyConserved'
  OBVIOUS
<1> DEFINE n == Cardinality(OpenPayments)
           rent == IF config.open THEN CONFIG_RENT ELSE 0
<1>1. /\ PAYMENT_RENT \in Nat /\ CONFIG_RENT \in Nat /\ n \in Nat /\ rent \in Nat
      /\ Circulating \in Nat /\ Supply = Circulating + PAYMENT_RENT * n + rent
  <2>1. PAYMENT_RENT \in Nat /\ CONFIG_RENT \in Nat
    BY LimitsAssumption DEF U64
  <2>2. Circulating \in Nat
    <3>1. \A c \in Address : lamports[c] \in Nat
      BY DEF TypeOK, U64
    <3> QED BY <3>1, Finite, SumNat DEF Circulating
  <2> QED BY <2>1, <2>2, Finite DEF SupplyConserved, Circulating, Supply
<1>2. SupplyConserved' <=>
        Circulating' + PAYMENT_RENT * n' + rent' = Supply
  BY DEF SupplyConserved, Circulating, Supply
<1>3. ASSUME Circulating' = Circulating, n' = n, rent' = rent PROVE SupplyConserved'
  BY <1>1, <1>2, <1>3
<1>4. ASSUME OpenPayments' = OpenPayments PROVE n' = n
  BY <1>4
<1>5. payment' = payment => OpenPayments' = OpenPayments
  BY OpenSame
<1>6. ASSUME NEW w \in Wallets, initialize_protocol(w) PROVE SupplyConserved'
  <2>1. Circulating' = Circulating - CONFIG_RENT
    <3>1. w \in Address /\ lamports[w] \in Nat /\ -CONFIG_RENT \in Int
      BY <1>1, VaultPdas DEF TypeOK, U64
    <3>2. lamports' = [lamports EXCEPT ![w] = lamports[w] + (-CONFIG_RENT)]
      BY <1>1, <1>6, <3>1 DEF initialize_protocol
    <3>3. Circulating' = Circulating + (-CONFIG_RENT)
      BY <3>1, <3>2, OneBalance
    <3> QED BY <1>1, <3>3
  <2>2. n' = n
    BY <1>4, <1>5, <1>6 DEF initialize_protocol
  <2>3. rent' = CONFIG_RENT /\ rent = 0
    BY <1>6 DEF initialize_protocol
  <2> QED BY <1>1, <1>2, <2>1, <2>2, <2>3
<1>7. ASSUME NEW w \in Wallets, NEW paused \in BOOLEAN, set_protocol_paused(w, paused)
      PROVE  SupplyConserved'
  <2>1. config'.open = config.open
    BY <1>7 DEF set_protocol_paused, TypeOK, Config
  <2> QED BY <1>3, <1>4, <1>5, <1>7, <2>1 DEF set_protocol_paused, Circulating
<1>8. ASSUME NEW o \in Owners, VaultStep(o) PROVE SupplyConserved'
  <2>1. payment' = payment /\ config' = config
    BY <1>8 DEF VaultStep, initialize_vault, deposit, withdraw, update_vault_config
  <2>2. Circulating' = Circulating
    <3>0. o \in Address /\ VaultPda(o) \in Address /\ o # VaultPda(o) /\ VaultPda(o) # o
      BY VaultPdas
    <3>1. ASSUME NEW alloc \in Allocations, initialize_vault(o, alloc)
          PROVE  Circulating' = Circulating
      <4>1. TopUp(o) \in Nat
        BY VaultTypes DEF TopUp, SatSub
      <4> QED BY <3>0, <3>1, <4>1, TransferKeepsSum DEF initialize_vault, Circulating
    <3>2. ASSUME NEW amount \in Amounts, deposit(o, amount) \/ withdraw(o, amount)
          PROVE  Circulating' = Circulating
      <4>1. amount \in Nat
        BY InputsAssumption DEF U64
      <4> QED BY <3>0, <3>2, <4>1, TransferKeepsSum DEF deposit, withdraw, MoveOk, Circulating
    <3>3. ASSUME NEW mode \in Modes, NEW cap \in Caps, NEW alloc \in Allocations,
                 update_vault_config(o, mode, cap, alloc)
          PROVE  Circulating' = Circulating
      BY <3>3 DEF update_vault_config, Circulating
    <3> QED BY <1>8, <3>1, <3>2, <3>3 DEF VaultStep
  <2> QED BY <1>3, <1>4, <1>5, <2>1, <2>2
<1>9. ASSUME NEW o \in Owners, NEW id \in PaymentIds, PaymentStep(o, id) PROVE SupplyConserved'
  <2>0. o \in Address /\ config' = config
    BY <1>9, VaultPdas DEF PaymentStep, schedule_payment, approve_payment, execute_payment,
                           cancel_payment
  <2>1. ASSUME NEW recipient \in Recipients, NEW amount \in Amounts, NEW kind \in Kinds,
               NEW priority \in Priorities,
               schedule_payment(o, id, recipient, amount, kind, priority)
        PROVE  SupplyConserved'
    <3>1. Circulating' = Circulating - PAYMENT_RENT
      <4>1. lamports[o] \in Nat /\ -PAYMENT_RENT \in Int
        BY <1>1, <2>0 DEF TypeOK, U64
      <4>2. lamports' = [lamports EXCEPT ![o] = lamports[o] + (-PAYMENT_RENT)]
        BY <1>1, <2>1, <4>1 DEF schedule_payment
      <4>3. Circulating' = Circulating + (-PAYMENT_RENT)
        BY <2>0, <4>1, <4>2, OneBalance
      <4> QED BY <1>1, <4>3
    <3>2. n' = n + 1
      <4>1. ~payment[o][id].open
        BY <2>1 DEF schedule_payment
      <4> QED BY <2>1, <4>1, Payments, OpenOne
    <3>3. PAYMENT_RENT * (n + 1) = PAYMENT_RENT * n + PAYMENT_RENT
      BY <1>1
    <3> QED BY <1>1, <1>2, <2>0, <3>1, <3>2, <3>3
  <2>2. ASSUME approve_payment(o, id) \/ execute_payment(o, id) PROVE SupplyConserved'
    <3>1. n' = n
      <4>1. payment[o][id].open
        BY <2>2 DEF approve_payment, execute_payment, Runnable
      <4>2. PICK q : payment' = [payment EXCEPT ![o][id] = q] /\ q.open
        BY <2>2, Payments
      <4>2a. payment[o][id].open \in BOOLEAN /\ q.open \in BOOLEAN
        <5>1. payment[o][id] \in Payment /\ payment'[o][id] \in Payment /\ payment'[o][id] = q
          BY <4>2 DEF TypeOK
        <5> QED BY <5>1 DEF Payment
      <4>3. \A p \in Owners, i \in PaymentIds : payment'[p][i].open = payment[p][i].open
        <5>1. \A p \in Owners, i \in PaymentIds :
                payment'[p][i] = IF p = o /\ i = id THEN q ELSE payment[p][i]
          BY <4>2 DEF TypeOK
        <5>2. q.open = payment[o][id].open
          BY <4>1, <4>2, <4>2a
        <5> QED BY <5>1, <5>2
      <4> QED BY <1>4, <4>3, OpenSame
    <3>2. Circulating' = Circulating
      <4>1. CASE approve_payment(o, id)
        BY <4>1 DEF approve_payment, Circulating
      <4>2. CASE execute_payment(o, id)
        <5>1. payment[o][id].amount \in Nat /\ payment[o][id].recipient \in Address
          BY DEF TypeOK, Payment, U64
        <5>2. VaultPda(o) \in Address
          BY VaultPdas
        <5> QED BY <4>2, <5>1, <5>2, TransferKeepsSum DEF execute_payment, MoveOk, Circulating
      <4> QED BY <2>2, <4>1, <4>2
    <3> QED BY <1>3, <2>0, <3>1, <3>2
  <2>3. ASSUME cancel_payment(o, id) PROVE SupplyConserved'
    <3>1. Circulating' = Circulating + PAYMENT_RENT
      <4>1. lamports' = [lamports EXCEPT ![o] = lamports[o] + PAYMENT_RENT] /\ PAYMENT_RENT \in Int
        BY <1>1, <2>3 DEF cancel_payment
      <4> QED BY <2>0, <4>1, OneBalance
    <3>2. n' = n - 1
      <4>1. payment[o][id].open /\ payment' = [payment EXCEPT ![o][id] = NoPayment]
        BY <2>3 DEF cancel_payment, Cancellable
      <4>2. ~NoPayment.open
        BY DEF NoPayment
      <4> QED BY <4>1, <4>2, CloseOne
    <3>3. PAYMENT_RENT * (n - 1) = PAYMENT_RENT * n - PAYMENT_RENT
      BY <1>1
    <3> QED BY <1>1, <1>2, <2>0, <3>1, <3>2, <3>3
  <2> QED BY <1>9, <2>1, <2>2, <2>3 DEF PaymentStep
<1>10. ASSUME NEW from \in Wallets, NEW o \in Owners, NEW amount \in Gifts,
              SystemTransfer(from, VaultPda(o), amount)
       PROVE  SupplyConserved'
  <2>1. amount \in Nat /\ from \in Address /\ VaultPda(o) \in Address
    BY InputsAssumption, VaultPdas DEF U64
  <2>2. Circulating' = Circulating
    BY <1>10, <2>1, TransferKeepsSum DEF SystemTransfer, MoveOk, Circulating
  <2> QED BY <1>3, <1>4, <1>5, <1>10, <2>2 DEF SystemTransfer
<1>11. CASE UNCHANGED vars
  BY <1>3, <1>4, <1>5, <1>11 DEF vars, Circulating
<1> QED BY <1>6, <1>7, <1>8, <1>9, <1>10, <1>11 DEF Next, ProtocolStep

(* In every reachable state the balances and the rent locked in accounts   *)
(* add up to the supply the wallets started with.                          *)
THEOREM SupplyIsConserved == Spec => []SupplyConserved
<1>1. TypeOK /\ TypeOK' /\ SupplyConserved /\ [Next]_vars => SupplyConserved'
  BY NextSupply
<1> QED BY <1>1, InitSupply, TypeCorrect, PTL DEF Spec

(* The conditions of cancel_payment: what the code checks before it gives  *)
(* the amount back, beside the signature of the owner.                     *)
CancelAccepted(o, id) ==
  /\ Cancellable(payment[o][id])
  /\ Fits(vault[o].liquid + payment[o][id].amount) /\ Fits(lamports[o] + PAYMENT_RENT)

(* These are all the conditions it has.                                    *)
LEMMA CancelGuard ==
  ASSUME NEW o \in Owners, NEW id \in PaymentIds
  PROVE  cancel_payment(o, id) <=>
           /\ CancelAccepted(o, id)
           /\ vault' = [vault EXCEPT ![o] = [vault[o] EXCEPT !.liquid = vault[o].liquid + payment[o][id].amount]]
           /\ lamports' = [lamports EXCEPT ![o] = lamports[o] + PAYMENT_RENT]
           /\ payment' = [payment EXCEPT ![o][id] = NoPayment]
           /\ signedOff' = signedOff \ {<<o, id>>}
           /\ UNCHANGED config
BY DEF cancel_payment, CancelAccepted

(* As long as a payment holds funds, cancel_payment accepts to release     *)
(* them: the amount fits into the liquid bucket because the total of the   *)
(* vault counts it, and the rent into the wallet because the lamport       *)
(* supply does.                                                            *)
THEOREM RefundIsAccepted ==
  Spec => [](\A o \in Owners, id \in PaymentIds :
               Held(payment[o][id]) > 0 => CancelAccepted(o, id))
<1>1. ASSUME VaultInv, SupplyConserved, NEW o \in Owners, NEW id \in PaymentIds,
             Held(payment[o][id]) > 0
      PROVE  CancelAccepted(o, id)
  <2>0. TypeOK
    BY <1>1 DEF VaultInv
  <2> DEFINE v == vault[o]
             p == payment[o][id]
             n == Cardinality(OpenPayments)
  <2>1. Cancellable(p) /\ Held(p) = p.amount
    BY <1>1 DEF Held, Cancellable
  <2>2. Fits(v.liquid + p.amount)
    <3>1. v.total = v.yield + v.reserve + v.liquid + v.payments + Reserved(o)
      BY <1>1 DEF VaultInv, VaultAccounting, Buckets
    <3>2. p.amount <= Reserved(o) /\ Reserved(o) \in Nat /\ p.amount \in Nat
      <4>1. Held(p) \in Nat /\ Held(p) <= Reserved(o) /\ Reserved(o) \in Nat
        BY <2>0, HeldType
      <4> HIDE DEF p
      <4> QED BY <2>1, <4>1
    <3>3. v.total <= U64_MAX
      BY <2>0, VaultTypes DEF Vault, U64
    <3>4. /\ v.total \in Nat /\ v.yield \in Nat /\ v.reserve \in Nat
          /\ v.liquid \in Nat /\ v.payments \in Nat
      BY <2>0, VaultTypes
    <3> HIDE DEF v, p
    <3> QED BY <3>1, <3>2, <3>3, <3>4, LimitsAssumption DEF Fits
  <2>3. Fits(lamports[o] + PAYMENT_RENT)
    <3>1. lamports[o] \in Nat /\ lamports[o] <= Circulating /\ Circulating \in Nat
      <4>1. \A c \in Address : lamports[c] \in Nat
        BY <2>0 DEF TypeOK, U64
      <4> QED BY <4>1, Finite, VaultPdas, SumBoundsMember, SumNat DEF Circulating
    <3>2. n \in Nat /\ n >= 1
      <4>1. <<o, id>> \in OpenPayments
        BY <2>1 DEF Cancellable, OpenPayments
      <4>2. n # 0
        BY <4>1, Finite, FS_EmptySet
      <4> QED BY <4>2, Finite
    <3>3. PAYMENT_RENT \in Nat /\ CONFIG_RENT \in Nat
      BY LimitsAssumption DEF U64
    <3> HIDE DEF n
    <3>4. PAYMENT_RENT * n >= PAYMENT_RENT /\ PAYMENT_RENT * n \in Nat
      BY <3>2, <3>3, Z3
    <3>5. Circulating + PAYMENT_RENT * n + (IF config.open THEN CONFIG_RENT ELSE 0) <= U64_MAX
      BY <1>1, SupplyAssumption DEF SupplyConserved, Circulating, n
    <3> DEFINE rents == PAYMENT_RENT * n
    <3>6. rents >= PAYMENT_RENT /\ rents \in Nat
            /\ Circulating + rents + (IF config.open THEN CONFIG_RENT ELSE 0) <= U64_MAX
      BY <3>4, <3>5
    <3> HIDE DEF rents
    <3> QED BY <3>1, <3>3, <3>6, LimitsAssumption DEF Fits
  <2> QED BY <2>1, <2>2, <2>3 DEF CancelAccepted
<1>2. VaultInv /\ SupplyConserved => \A o \in Owners, id \in PaymentIds :
        Held(payment[o][id]) > 0 => CancelAccepted(o, id)
  BY <1>1
<1> QED BY <1>2, BooksInvariant, SupplyIsConserved, PTL

-----------------------------------------------------------------------------
(* The refinement.  What the abstract escrow sees of a state.              *)

free == [o \in Owners |-> Buckets(vault[o])]
locked == [o \in Owners |-> [id \in PaymentIds |-> LockedBy(payment[o][id])]]
outside == [a \in Address |-> Worth(a)]

(* The steps of the escrow, over what it sees.                             *)
LEMMA EscrowSteps ==
  /\ E!Init <=> /\ free = [o \in Owners |-> 0]
                /\ locked = [o \in Owners |-> [s \in PaymentIds |-> [amount |-> 0, for |-> Nobody]]]
                /\ outside \in [Address -> Nat]
  /\ \A o, a : E!Deposit(o, a) <=>
       /\ outside[o] >= a
       /\ outside' = [outside EXCEPT ![o] = @ - a]
       /\ free' = [free EXCEPT ![o] = @ + a]
       /\ locked' = locked
  /\ \A o, a : E!Withdraw(o, a) <=>
       /\ free[o] >= a
       /\ free' = [free EXCEPT ![o] = @ - a]
       /\ outside' = [outside EXCEPT ![o] = @ + a]
       /\ locked' = locked
  /\ \A o, s, a, h : E!Lock(o, s, a, h) <=>
       /\ locked[o][s] = [amount |-> 0, for |-> Nobody]
       /\ free[o] >= a
       /\ free' = [free EXCEPT ![o] = @ - a]
       /\ locked' = [locked EXCEPT ![o][s] = [amount |-> a, for |-> h]]
       /\ outside' = outside
  /\ \A o, s : E!Release(o, s) <=>
       /\ locked[o][s] # [amount |-> 0, for |-> Nobody]
       /\ free' = [free EXCEPT ![o] = @ + locked[o][s].amount]
       /\ locked' = [locked EXCEPT ![o][s] = [amount |-> 0, for |-> Nobody]]
       /\ outside' = outside
  /\ \A o, s : E!Settle(o, s) <=>
       /\ locked[o][s] # [amount |-> 0, for |-> Nobody]
       /\ outside' = [outside EXCEPT ![locked[o][s].for] = @ + locked[o][s].amount]
       /\ locked' = [locked EXCEPT ![o][s] = [amount |-> 0, for |-> Nobody]]
       /\ free' = free
  /\ \A g, h, a : E!Trade(g, h, a) <=>
       /\ g # h
       /\ outside[g] >= a
       /\ outside' = [outside EXCEPT ![g] = @ - a, ![h] = @ + a]
       /\ free' = free /\ locked' = locked
  /\ E!escrowVars = <<free, locked, outside>>
BY DEF E!Init, E!Deposit, E!Withdraw, E!Lock, E!Release, E!Settle, E!Trade, E!Empty,
       E!escrowVars, free, locked, outside

-----------------------------------------------------------------------------
(* What an address is worth.                                               *)

(* Wallets and vault PDAs are all the addresses there are.                 *)
LEMMA WorthOf ==
  /\ \A a \in Address : a \in Wallets \/ \E o \in Owners : a = VaultPda(o)
  /\ \A w \in Wallets : Worth(w) = lamports[w] + RentPaidBy(w)
  /\ \A o \in Owners :
       Worth(VaultPda(o)) =
         lamports[VaultPda(o)] - (IF vault[o].open THEN VAULT_RENT + vault[o].total ELSE 0)
<1>1. \A a \in Address : a \in Wallets \/ \E o \in Owners : a = VaultPda(o)
  BY DEF Address
<1>2. \A o \in Owners : VaultPda(o) \notin Wallets /\ VaultPda(o)[2] = o
  BY WalletsAssumption DEF VaultPda
<1> QED BY <1>1, <1>2 DEF Worth

(* The same after a step.                                                  *)
LEMMA WorthOfNext ==
  /\ \A w \in Wallets : Worth(w)' = lamports'[w] + RentPaidBy(w)'
  /\ \A o \in Owners :
       Worth(VaultPda(o))' =
         lamports'[VaultPda(o)] - (IF vault'[o].open THEN VAULT_RENT + vault'[o].total ELSE 0)
<1>1. \A o \in Owners : VaultPda(o) \notin Wallets /\ VaultPda(o)[2] = o
  BY WalletsAssumption DEF VaultPda
<1> QED BY <1>1 DEF Worth

(* Rent is a natural number, in three parts.                               *)
RentOfVault(w) == IF w \in Owners /\ vault[w].open THEN VAULT_RENT ELSE 0
RentOfConfig(w) == IF config.open /\ config.admin = w THEN CONFIG_RENT ELSE 0
RentOfPayments(w) == PAYMENT_RENT * Cardinality(OpenOf(w))
LEMMA RentParts ==
  \A w : /\ RentPaidBy(w) = RentOfConfig(w) + RentOfVault(w) + RentOfPayments(w)
         /\ RentOfConfig(w) \in Nat /\ RentOfVault(w) \in Nat /\ RentOfPayments(w) \in Nat
         /\ RentPaidBy(w)' = RentOfConfig(w)' + RentOfVault(w)' + RentOfPayments(w)'
<1>1. /\ PAYMENT_RENT \in Nat /\ VAULT_RENT \in Nat /\ CONFIG_RENT \in Nat
      /\ \A w : Cardinality(OpenOf(w)) \in Nat
  BY LimitsAssumption, Finite DEF U64
<1>2. \A w : RentOfConfig(w) \in Nat /\ RentOfVault(w) \in Nat /\ RentOfPayments(w) \in Nat
  BY <1>1 DEF RentOfConfig, RentOfVault, RentOfPayments
<1>3. \A w : RentPaidBy(w) = RentOfConfig(w) + RentOfVault(w) + RentOfPayments(w)
  BY DEF RentPaidBy, RentOfConfig, RentOfVault, RentOfPayments, OpenOf
<1>4. \A w : RentPaidBy(w)' = RentOfConfig(w)' + RentOfVault(w)' + RentOfPayments(w)'
  BY DEF RentPaidBy, RentOfConfig, RentOfVault, RentOfPayments, OpenOf
<1> QED BY <1>2, <1>3, <1>4

(* Rent stays when no account is opened or closed.                         *)
LEMMA RentFrame ==
  ASSUME NEW w, config'.open = config.open, config'.admin = config.admin,
         w \in Owners => vault'[w].open = vault[w].open, OpenOf(w)' = OpenOf(w)
  PROVE  RentPaidBy(w)' = RentPaidBy(w)
<1>1. RentOfConfig(w)' = RentOfConfig(w) /\ RentOfVault(w)' = RentOfVault(w)
        /\ RentOfPayments(w)' = RentOfPayments(w)
  BY DEF RentOfConfig, RentOfVault, RentOfPayments
<1> QED BY <1>1, RentParts

(* No address is worth less than nothing.                                  *)
LEMMA WorthType ==
  ASSUME VaultInv
  PROVE  \A a \in Address : Worth(a) \in Nat
<1>1. TypeOK /\ VAULT_RENT \in Nat /\ \A a \in Address : lamports[a] \in Nat
  BY LimitsAssumption DEF VaultInv, TypeOK, U64
<1>2. \A w \in Wallets : Worth(w) \in Nat
  <2> SUFFICES ASSUME NEW w \in Wallets PROVE Worth(w) \in Nat
    OBVIOUS
  <2>1. lamports[w] \in Nat
    BY <1>1, VaultPdas
  <2>2. RentPaidBy(w) \in Nat
    BY RentParts
  <2> QED BY <2>1, <2>2, WorthOf
<1>3. \A o \in Owners : Worth(VaultPda(o)) \in Nat
  <2> SUFFICES ASSUME NEW o \in Owners PROVE Worth(VaultPda(o)) \in Nat
    OBVIOUS
  <2>1. lamports[VaultPda(o)] \in Nat /\ vault[o].total \in Nat
    BY <1>1, VaultTypes
  <2>2. vault[o].open => lamports[VaultPda(o)] >= VAULT_RENT + vault[o].total
    BY DEF VaultInv, VaultSolvent
  <2> QED BY <1>1, <2>1, <2>2, WorthOf
<1> QED BY <1>2, <1>3, WorthOf

(* The free funds of an owner are what the total does not hold for         *)
(* payments.                                                               *)
LEMMA FreeIs ==
  ASSUME VaultInv
  PROVE  \A o \in Owners : /\ vault[o].total = Buckets(vault[o]) + Reserved(o)
                           /\ Buckets(vault[o]) \in Nat /\ Reserved(o) \in Nat
                           /\ vault[o].total \in Nat
<1> SUFFICES ASSUME NEW o \in Owners
             PROVE  /\ vault[o].total = Buckets(vault[o]) + Reserved(o)
                    /\ Buckets(vault[o]) \in Nat /\ Reserved(o) \in Nat
                    /\ vault[o].total \in Nat
  OBVIOUS
<1>1. TypeOK
  BY DEF VaultInv
<1>2. Buckets(vault[o]) \in Nat /\ vault[o].total \in Nat
  BY <1>1, VaultTypes DEF Buckets
<1>3. Reserved(o) \in Nat
  BY <1>1, HeldType
<1> QED BY <1>2, <1>3 DEF VaultInv, VaultAccounting

(* The same after a step.                                                  *)
LEMMA FreeIsNext ==
  ASSUME VaultInv'
  PROVE  \A o \in Owners : /\ vault'[o].total = Buckets(vault'[o]) + Reserved(o)'
                           /\ Buckets(vault'[o]) \in Nat /\ vault'[o].total \in Nat
<1>1. \A o \in Owners : vault'[o] \in Vault
  BY DEF VaultInv, TypeOK
<1>2. \A o \in Owners : Buckets(vault'[o]) \in Nat /\ vault'[o].total \in Nat
  BY <1>1 DEF Buckets, Vault, U64
<1> QED BY <1>2 DEF VaultInv, VaultAccounting

(* A step that the escrow does not see.                                    *)
LEMMA Unseen ==
  ASSUME \A o \in Owners : Buckets(vault'[o]) = Buckets(vault[o]),
         \A o \in Owners, id \in PaymentIds : LockedBy(payment'[o][id]) = LockedBy(payment[o][id]),
         \A a \in Address : Worth(a)' = Worth(a)
  PROVE  E!escrowVars' = E!escrowVars
<1>1. free' = free /\ locked' = locked /\ outside' = outside
  BY DEF free, locked, outside
<1> QED BY <1>1 DEF E!escrowVars, free, locked, outside

(* At the start nothing is in escrow.                                      *)
LEMMA InitEscrow == Init => E!Init
<1> SUFFICES ASSUME Init PROVE E!Init
  OBVIOUS
<1>1. \A o \in Owners : Buckets(vault[o]) = 0
  BY DEF Init, Buckets, NoVault
<1>2. \A o \in Owners, id \in PaymentIds :
        LockedBy(payment[o][id]) = [amount |-> 0, for |-> Nobody]
  BY DEF Init, LockedBy, NoPayment
<1>3. \A a \in Address : Worth(a) \in Nat
  BY InitBooks, WorthType
<1> QED BY <1>1, <1>2, <1>3, EscrowSteps DEF free, locked, outside

-----------------------------------------------------------------------------
(* Each instruction is a step of the escrow or is not seen by it.          *)

(* The worth of every address after a transfer from one to another that    *)
(* opens and closes no account: a PDA's is also less what its total grows. *)
LEMMA WorthMoved ==
  ASSUME VaultInv, VaultInv', NEW from \in Address, NEW to \in Address, from # to,
         NEW amount \in Nat, lamports' = Moved(from, to, amount),
         config' = config, OpenPayments' = OpenPayments,
         \A o \in Owners : vault'[o].open = vault[o].open,
         NEW a \in Address
  PROVE  LET received == IF a = to THEN amount ELSE IF a = from THEN -amount ELSE 0 IN
         /\ a \in Wallets => Worth(a)' = Worth(a) + received
         /\ \A o \in Owners : a = VaultPda(o) =>
              Worth(a)' = Worth(a) + received - (vault'[o].total - vault[o].total)
<1> DEFINE received == IF a = to THEN amount ELSE IF a = from THEN -amount ELSE 0
<1>1. TypeOK /\ TypeOK' /\ VAULT_RENT \in Nat
  BY LimitsAssumption DEF VaultInv, U64
<1>2. lamports'[a] = lamports[a] + received /\ lamports[a] \in Nat /\ lamports'[a] \in Nat
        /\ received \in Int
  BY <1>1 DEF TypeOK, Moved, U64
<1>3. \A w : OpenOf(w)' = OpenOf(w)
  BY DEF OpenOf
<1> HIDE DEF received
<1>4. ASSUME a \in Wallets PROVE Worth(a)' = Worth(a) + received
  <2>1. RentPaidBy(a)' = RentPaidBy(a)
    BY <1>3, RentFrame
  <2>2. RentPaidBy(a) \in Nat
    BY RentParts
  <2> QED BY <1>2, <1>4, <2>1, <2>2, WorthOf, WorthOfNext
<1>5. ASSUME NEW o \in Owners, a = VaultPda(o)
      PROVE  Worth(a)' = Worth(a) + received - (vault'[o].total - vault[o].total)
  <2>1. vault[o].total \in Nat /\ vault'[o].total \in Nat
    BY <1>1 DEF TypeOK, Vault, U64
  <2>2. ~vault[o].open => vault[o].total = 0 /\ vault'[o].total = 0
    BY DEF VaultInv, VaultsWellFormed, NoVault
  <2>3. /\ Worth(a) = lamports[a] - (IF vault[o].open THEN VAULT_RENT + vault[o].total ELSE 0)
        /\ Worth(a)' = lamports'[a] - (IF vault'[o].open THEN VAULT_RENT + vault'[o].total ELSE 0)
    BY <1>5, WorthOf, WorthOfNext
  <2>4. CASE vault[o].open
    <3>1. Worth(a) = lamports[a] - (VAULT_RENT + vault[o].total)
            /\ Worth(a)' = lamports'[a] - (VAULT_RENT + vault'[o].total)
      BY <2>3, <2>4
    <3> QED BY <1>1, <1>2, <2>1, <3>1
  <2>5. CASE ~vault[o].open
    <3>1. Worth(a) = lamports[a] - 0 /\ Worth(a)' = lamports'[a] - 0
      BY <2>3, <2>5
    <3> QED BY <1>1, <1>2, <2>1, <2>2, <2>5, <3>1
  <2> QED BY <2>4, <2>5
<1> QED BY <1>4, <1>5 DEF received

(* A deposit.                                                              *)
LEMMA DepositEscrow ==
  ASSUME VaultInv, VaultInv', NEW o \in Owners, NEW amount \in Amounts, deposit(o, amount)
  PROVE  E!Deposit(o, amount)
<1> DEFINE pda == VaultPda(o)
<1>1. TypeOK /\ TypeOK' /\ amount \in Nat
  BY InputsAssumption DEF VaultInv, U64
<1>2. o \in Wallets /\ o \in Address /\ pda \in Address /\ o # pda
  BY VaultPdas
<1>3. /\ payment' = payment /\ config' = config /\ lamports' = Moved(o, pda, amount)
      /\ lamports[o] >= amount
  BY DEF deposit, MoveOk
<1>4. /\ vault'[o].total = vault[o].total + amount
      /\ \A x \in Owners : vault'[x].open = vault[x].open
      /\ \A x \in Owners : x # o => vault'[x] = vault[x]
  <2>1. PICK y, r, l, p : vault' = [vault EXCEPT ![o] = [vault[o] EXCEPT
            !.total = vault[o].total + amount, !.yield = vault[o].yield + y,
            !.reserve = vault[o].reserve + r, !.liquid = vault[o].liquid + l,
            !.payments = vault[o].payments + p]]
    BY DEF deposit
  <2> QED BY <1>1, <2>1 DEF TypeOK, Vault
<1>5. \A x \in Owners : Reserved(x)' = Reserved(x)
  BY <1>3, ReservedFrame
<1>6. OpenPayments' = OpenPayments
  BY <1>3, OpenSame
<1> HIDE DEF pda
<1>7. \A x \in Owners : Buckets(vault'[x]) = IF x = o THEN Buckets(vault[o]) + amount ELSE Buckets(vault[x])
  <2> SUFFICES ASSUME NEW x \in Owners
               PROVE  Buckets(vault'[x]) = IF x = o THEN Buckets(vault[o]) + amount ELSE Buckets(vault[x])
    OBVIOUS
  <2> QED BY <1>1, <1>4, <1>5, FreeIs, FreeIsNext
<1>8. \A a \in Address : Worth(a)' = IF a = o THEN Worth(o) - amount ELSE Worth(a)
  <2> SUFFICES ASSUME NEW a \in Address
               PROVE  Worth(a)' = IF a = o THEN Worth(o) - amount ELSE Worth(a)
    OBVIOUS
  <2>1. Worth(a) \in Nat
    BY WorthType
  <2>2. CASE a \in Wallets
    <3>1. a # pda
      BY <2>2, VaultPdas DEF pda
    <3> QED BY <1>1, <1>2, <1>3, <1>4, <1>6, <2>1, <2>2, <3>1, WorthMoved
  <2>3. ASSUME NEW x \in Owners, a = VaultPda(x)
        PROVE  Worth(a)' = IF a = o THEN Worth(o) - amount ELSE Worth(a)
    <3>1. a # o /\ (a = pda <=> x = o)
      BY <1>2, <2>3, VaultPdas DEF pda
    <3>2. Worth(a)' = Worth(a) + (IF a = pda THEN amount ELSE 0) - (vault'[x].total - vault[x].total)
      BY <1>1, <1>2, <1>3, <1>4, <1>6, <2>3, <3>1, WorthMoved
    <3>3. vault[x].total \in Nat
      BY FreeIs
    <3> QED BY <1>1, <1>4, <2>1, <3>1, <3>2, <3>3
  <2> QED BY <2>2, <2>3, WorthOf
<1>9. Worth(o) >= amount
  BY <1>1, <1>2, <1>3, WorthOf, RentParts DEF TypeOK, U64
<1>10. /\ free' = [free EXCEPT ![o] = @ + amount]
       /\ outside' = [outside EXCEPT ![o] = @ - amount]
       /\ locked' = locked
  BY <1>2, <1>3, <1>7, <1>8 DEF free, outside, locked
<1>11. outside[o] >= amount
  BY <1>2, <1>9 DEF outside
<1> QED BY <1>10, <1>11, EscrowSteps

(* A withdrawal.                                                           *)
LEMMA WithdrawEscrow ==
  ASSUME VaultInv, VaultInv', NEW o \in Owners, NEW amount \in Amounts, withdraw(o, amount)
  PROVE  E!Withdraw(o, amount)
<1> DEFINE pda == VaultPda(o)
<1>1. TypeOK /\ TypeOK' /\ amount \in Nat
  BY InputsAssumption DEF VaultInv, U64
<1>2. o \in Wallets /\ o \in Address /\ pda \in Address /\ o # pda
  BY VaultPdas
<1>3. /\ payment' = payment /\ config' = config /\ lamports' = Moved(pda, o, amount)
      /\ vault[o].liquid >= amount
      /\ vault' = [vault EXCEPT ![o] = [vault[o] EXCEPT
            !.total = SatSub(vault[o].total, amount), !.liquid = SatSub(vault[o].liquid, amount)]]
  BY DEF withdraw
<1>4. Buckets(vault[o]) >= amount /\ vault[o].total >= amount
  <2>1. Buckets(vault[o]) >= vault[o].liquid
    BY <1>1, VaultTypes DEF Buckets
  <2>2. vault[o].liquid \in Nat
    BY <1>1, VaultTypes
  <2> QED BY <1>1, <1>3, <2>1, <2>2, FreeIs
<1>5. /\ vault'[o].total = vault[o].total - amount
      /\ \A x \in Owners : vault'[x].open = vault[x].open
      /\ \A x \in Owners : x # o => vault'[x] = vault[x]
  <2>1. vault'[o].total = SatSub(vault[o].total, amount)
    BY <1>1, <1>3 DEF TypeOK, Vault
  <2>2. SatSub(vault[o].total, amount) = vault[o].total - amount
    BY <1>4 DEF SatSub
  <2>3. /\ \A x \in Owners : vault'[x].open = vault[x].open
        /\ \A x \in Owners : x # o => vault'[x] = vault[x]
    BY <1>1, <1>3 DEF TypeOK, Vault
  <2> QED BY <2>1, <2>2, <2>3
<1>6. \A x \in Owners : Reserved(x)' = Reserved(x)
  BY <1>3, ReservedFrame
<1>7. OpenPayments' = OpenPayments
  BY <1>3, OpenSame
<1> HIDE DEF pda
<1>8. \A x \in Owners : Buckets(vault'[x]) = IF x = o THEN Buckets(vault[o]) - amount ELSE Buckets(vault[x])
  <2> SUFFICES ASSUME NEW x \in Owners
               PROVE  Buckets(vault'[x]) = IF x = o THEN Buckets(vault[o]) - amount ELSE Buckets(vault[x])
    OBVIOUS
  <2> QED BY <1>1, <1>5, <1>6, FreeIs, FreeIsNext
<1>9. \A a \in Address : Worth(a)' = IF a = o THEN Worth(o) + amount ELSE Worth(a)
  <2> SUFFICES ASSUME NEW a \in Address
               PROVE  Worth(a)' = IF a = o THEN Worth(o) + amount ELSE Worth(a)
    OBVIOUS
  <2>1. Worth(a) \in Nat
    BY WorthType
  <2>2. CASE a \in Wallets
    <3>1. a # pda
      BY <2>2, VaultPdas DEF pda
    <3> QED BY <1>1, <1>2, <1>3, <1>5, <1>7, <2>1, <2>2, <3>1, WorthMoved
  <2>3. ASSUME NEW x \in Owners, a = VaultPda(x)
        PROVE  Worth(a)' = IF a = o THEN Worth(o) + amount ELSE Worth(a)
    <3>1. a # o /\ (a = pda <=> x = o)
      BY <1>2, <2>3, VaultPdas DEF pda
    <3>2. Worth(a)' = Worth(a) + (IF a = pda THEN -amount ELSE 0) - (vault'[x].total - vault[x].total)
      BY <1>1, <1>2, <1>3, <1>5, <1>7, <2>3, <3>1, WorthMoved
    <3>3. vault[x].total \in Nat
      BY FreeIs
    <3> QED BY <1>1, <1>5, <2>1, <3>1, <3>2, <3>3
  <2> QED BY <2>2, <2>3, WorthOf
<1>10. /\ free' = [free EXCEPT ![o] = @ - amount]
       /\ outside' = [outside EXCEPT ![o] = @ + amount]
       /\ locked' = locked
  BY <1>2, <1>3, <1>8, <1>9 DEF free, outside, locked
<1>11. free[o] >= amount
  BY <1>4 DEF free
<1> QED BY <1>10, <1>11, EscrowSteps

(* Value that others sent to the PDA of a vault before it was opened: the  *)
(* owner needs not pay that much of its rent.                              *)
LEMMA InitializeEscrow ==
  ASSUME VaultInv, VaultInv', NEW o \in Owners, NEW alloc \in Allocations,
         initialize_vault(o, alloc)
  PROVE  \E a \in 0..Worth(VaultPda(o)) : E!Trade(VaultPda(o), o, a)
<1> DEFINE pda == VaultPda(o)
           topUp == TopUp(o)
           gift == VAULT_RENT - topUp
           new == [NoVault EXCEPT !.open = TRUE, !.alloc = alloc,
                                  !.mode = MODE_SAFE, !.cap = DEFAULT_AI_CAP]
<1>1. TypeOK /\ TypeOK' /\ VAULT_RENT \in Nat
  BY LimitsAssumption DEF VaultInv, U64
<1>2. o \in Wallets /\ o \in Address /\ pda \in Address /\ o # pda /\ pda \notin Wallets
  BY VaultPdas
<1>3. /\ payment' = payment /\ config' = config /\ lamports' = Moved(o, pda, topUp)
      /\ ~vault[o].open /\ vault' = [vault EXCEPT ![o] = new]
  BY DEF initialize_vault
<1>4. /\ vault'[o].open /\ vault'[o].total = 0 /\ Buckets(vault'[o]) = 0
      /\ \A x \in Owners : x # o => vault'[x] = vault[x]
  <2>1. new.open /\ new.total = 0 /\ Buckets(new) = 0
    BY DEF NoVault, Buckets
  <2> HIDE DEF new
  <2> QED BY <1>1, <1>3, <2>1 DEF TypeOK
<1>5. vault[o] = NoVault /\ vault[o].total = 0 /\ Buckets(vault[o]) = 0
  <2>1. vault[o] = NoVault
    BY <1>3 DEF VaultInv, VaultsWellFormed
  <2> QED BY <2>1 DEF NoVault, Buckets
<1>6. topUp \in Nat /\ gift \in Nat /\ gift <= lamports[pda] /\ lamports[pda] \in Nat
  BY <1>1, <1>2 DEF TopUp, SatSub, TypeOK, U64
<1>7. \A w : OpenOf(w)' = OpenOf(w)
  BY <1>3, OpenSame
<1>8. \A a \in Address : /\ lamports[a] \in Nat
                         /\ lamports'[a] = lamports[a] + (IF a = pda THEN topUp ELSE IF a = o THEN -topUp ELSE 0)
  <2> HIDE DEF topUp, pda
  <2> QED BY <1>1, <1>2, <1>3, <1>6 DEF TypeOK, Moved, U64
<1> HIDE DEF topUp, new
<1>9. Worth(pda) = lamports[pda] /\ Worth(pda)' = Worth(pda) - gift
  <2>1. Worth(pda) = lamports[pda] - 0
    BY <1>3, WorthOf
  <2>2. Worth(pda)' = lamports'[pda] - (VAULT_RENT + 0)
    BY <1>4, WorthOfNext
  <2> QED BY <1>1, <1>2, <1>6, <1>8, <2>1, <2>2
<1>10. Worth(o)' = Worth(o) + gift
  <2>1. RentOfVault(o) = 0 /\ RentOfVault(o)' = VAULT_RENT
    BY <1>3, <1>4 DEF RentOfVault
  <2>2. RentOfConfig(o)' = RentOfConfig(o) /\ RentOfPayments(o)' = RentOfPayments(o)
    BY <1>3, <1>7 DEF RentOfConfig, RentOfPayments
  <2>3. Worth(o) = lamports[o] + RentPaidBy(o) /\ Worth(o)' = lamports'[o] + RentPaidBy(o)'
    BY <1>2, WorthOf, WorthOfNext
  <2>4. lamports'[o] = lamports[o] - topUp /\ lamports[o] \in Nat
    BY <1>2, <1>6, <1>8
  <2> QED BY <1>1, <1>6, <2>1, <2>2, <2>3, <2>4, RentParts
<1> HIDE DEF gift
<1>11. ASSUME NEW a \in Address, a # o, a # pda PROVE Worth(a)' = Worth(a)
  <2>1. lamports'[a] = lamports[a]
    BY <1>8, <1>11
  <2>2. CASE a \in Wallets
    <3>1. a \in Owners => vault'[a].open = vault[a].open
      BY <1>4, <1>11
    <3>2. RentPaidBy(a)' = RentPaidBy(a)
      BY <1>3, <1>7, <3>1, RentFrame
    <3> QED BY <2>1, <2>2, <3>2, WorthOf, WorthOfNext
  <2>3. ASSUME NEW x \in Owners, a = VaultPda(x) PROVE Worth(a)' = Worth(a)
    <3>1. vault'[x] = vault[x]
      BY <1>4, <1>11, <2>3
    <3> QED BY <2>1, <2>3, <3>1, WorthOf, WorthOfNext
  <2> QED BY <2>2, <2>3, WorthOf
<1> HIDE DEF pda
<1>12. /\ outside' = [outside EXCEPT ![pda] = @ - gift, ![o] = @ + gift]
       /\ free' = free /\ locked' = locked
  <2>1. \A a \in Address : Worth(a)' = IF a = pda THEN Worth(pda) - gift
                                       ELSE IF a = o THEN Worth(o) + gift ELSE Worth(a)
    BY <1>2, <1>9, <1>10, <1>11
  <2>2. outside' = [a \in Address |-> Worth(a)']
    BY DEF outside
  <2>3. outside' = [outside EXCEPT ![pda] = @ - gift, ![o] = @ + gift]
    BY <1>2, <2>1, <2>2 DEF outside
  <2>4. \A x \in Owners : Buckets(vault'[x]) = Buckets(vault[x])
    BY <1>4, <1>5
  <2>5. free' = free
    BY <2>4 DEF free
  <2>6. locked' = locked
    BY <1>3 DEF locked
  <2> QED BY <2>3, <2>5, <2>6
<1>13. outside[pda] >= gift /\ gift \in 0..Worth(pda)
  BY <1>2, <1>6, <1>9 DEF outside
<1> QED BY <1>2, <1>12, <1>13, EscrowSteps DEF pda

(* Value sent to the PDA of a vault from outside.                          *)
LEMMA TransferEscrow ==
  ASSUME VaultInv, VaultInv', NEW from \in Wallets, NEW o \in Owners, NEW amount \in Gifts,
         SystemTransfer(from, VaultPda(o), amount)
  PROVE  \E a \in 0..Worth(from) : E!Trade(from, VaultPda(o), a)
<1> DEFINE pda == VaultPda(o)
<1>1. TypeOK /\ TypeOK' /\ amount \in Nat
  BY InputsAssumption DEF VaultInv, U64
<1>2. from \in Address /\ pda \in Address /\ from # pda
  BY VaultPdas
<1>3. /\ payment' = payment /\ config' = config /\ vault' = vault
      /\ lamports' = Moved(from, pda, amount) /\ lamports[from] >= amount
  BY DEF SystemTransfer, MoveOk
<1>4. OpenPayments' = OpenPayments
  BY <1>3, OpenSame
<1> HIDE DEF pda
<1>5. \A a \in Address :
        Worth(a)' = Worth(a) + (IF a = pda THEN amount ELSE IF a = from THEN -amount ELSE 0)
  <2> SUFFICES ASSUME NEW a \in Address
               PROVE  Worth(a)' = Worth(a) + (IF a = pda THEN amount ELSE IF a = from THEN -amount ELSE 0)
    OBVIOUS
  <2>1. CASE a \in Wallets
    BY <1>1, <1>2, <1>3, <1>4, <2>1, WorthMoved
  <2>2. ASSUME NEW x \in Owners, a = VaultPda(x)
        PROVE  Worth(a)' = Worth(a) + (IF a = pda THEN amount ELSE IF a = from THEN -amount ELSE 0)
    <3>1. Worth(a)' = Worth(a) + (IF a = pda THEN amount ELSE IF a = from THEN -amount ELSE 0)
                        - (vault[x].total - vault[x].total)
      BY <1>1, <1>2, <1>3, <1>4, <2>2, WorthMoved
    <3>2. vault[x].total \in Nat /\ Worth(a) \in Nat
      BY FreeIs, WorthType
    <3> QED BY <1>1, <3>1, <3>2
  <2> QED BY <2>1, <2>2, WorthOf
<1>6. /\ outside' = [outside EXCEPT ![from] = @ - amount, ![pda] = @ + amount]
      /\ free' = free /\ locked' = locked
  <2>1. \A a \in Address : Worth(a)' = IF a = from THEN Worth(from) - amount
                                       ELSE IF a = pda THEN Worth(pda) + amount ELSE Worth(a)
    BY <1>1, <1>2, <1>5, WorthType
  <2>2. outside' = [a \in Address |-> Worth(a)']
    BY DEF outside
  <2>3. outside' = [outside EXCEPT ![from] = @ - amount, ![pda] = @ + amount]
    BY <1>2, <2>1, <2>2 DEF outside
  <2> QED BY <1>3, <2>3 DEF free, locked
<1>7. outside[from] >= amount /\ amount \in 0..Worth(from)
  <2>1. Worth(from) >= amount /\ Worth(from) \in Nat
    BY <1>1, <1>2, <1>3, WorthOf, WorthType, RentParts DEF TypeOK, U64
  <2> QED BY <1>1, <1>2, <2>1 DEF outside
<1> QED BY <1>2, <1>6, <1>7, EscrowSteps DEF pda

(* The rent of a payment account that an instruction opens or closes is    *)
(* moved between the wallet of its owner and the account.                  *)
LEMMA WorthRented ==
  ASSUME VaultInv, VaultInv', NEW o \in Owners, NEW n \in {-1, 1},
         lamports' = [lamports EXCEPT ![o] = lamports[o] - n * PAYMENT_RENT],
         Cardinality(OpenOf(o)') = Cardinality(OpenOf(o)) + n,
         \A w : w # o => OpenOf(w)' = OpenOf(w), config' = config,
         \A x \in Owners : vault'[x].open = vault[x].open /\ vault'[x].total = vault[x].total
  PROVE  \A a \in Address : Worth(a)' = Worth(a)
<1>1. TypeOK /\ PAYMENT_RENT \in Nat
  BY LimitsAssumption DEF VaultInv, U64
<1>2. o \in Wallets /\ o \in Address
  BY VaultPdas
<1>3. \A a \in Address : a # o => lamports'[a] = lamports[a]
  BY <1>1 DEF TypeOK
<1>4. Worth(o)' = Worth(o)
  <2>1. RentOfVault(o)' = RentOfVault(o) /\ RentOfConfig(o)' = RentOfConfig(o)
    BY DEF RentOfVault, RentOfConfig
  <2>2. RentOfPayments(o)' = RentOfPayments(o) + n * PAYMENT_RENT
    <3>1. Cardinality(OpenOf(o)) \in Nat
      BY Finite
    <3>2. PAYMENT_RENT * (Cardinality(OpenOf(o)) + n) = PAYMENT_RENT * Cardinality(OpenOf(o)) + n * PAYMENT_RENT
      BY <1>1, <3>1
    <3> QED BY <3>2 DEF RentOfPayments
  <2>3. lamports'[o] = lamports[o] - n * PAYMENT_RENT /\ lamports[o] \in Nat /\ n * PAYMENT_RENT \in Int
    BY <1>1, <1>2 DEF TypeOK, U64
  <2>4. Worth(o) = lamports[o] + RentPaidBy(o) /\ Worth(o)' = lamports'[o] + RentPaidBy(o)'
    BY <1>2, WorthOf, WorthOfNext
  <2> DEFINE r == n * PAYMENT_RENT
  <2> HIDE DEF r
  <2>5. RentOfPayments(o)' = RentOfPayments(o) + r /\ lamports'[o] = lamports[o] - r /\ r \in Int
    BY <2>2, <2>3 DEF r
  <2> QED BY <2>1, <2>3, <2>4, <2>5, RentParts
<1>5. ASSUME NEW a \in Address, a # o PROVE Worth(a)' = Worth(a)
  <2>1. CASE a \in Wallets
    <3>1. RentPaidBy(a)' = RentPaidBy(a)
      BY <1>5, RentFrame
    <3> QED BY <1>3, <1>5, <2>1, <3>1, WorthOf, WorthOfNext
  <2>2. ASSUME NEW x \in Owners, a = VaultPda(x) PROVE Worth(a)' = Worth(a)
    BY <1>3, <1>5, <2>2, WorthOf, WorthOfNext
  <2> QED BY <2>1, <2>2, WorthOf
<1> QED BY <1>4, <1>5

(* A payment that is scheduled locks its amount for its recipient.         *)
LEMMA ScheduleEscrow ==
  ASSUME VaultInv, VaultInv', NEW o \in Owners, NEW id \in PaymentIds,
         NEW recipient \in Recipients, NEW amount \in Amounts, NEW kind \in Kinds,
         NEW priority \in Priorities,
         schedule_payment(o, id, recipient, amount, kind, priority)
  PROVE  E!Lock(o, id, amount, recipient)
<1> DEFINE new == ReserveFunds(vault[o], amount)
<1>1. TypeOK /\ TypeOK' /\ amount \in Nat /\ PAYMENT_RENT \in Nat
  BY InputsAssumption, LimitsAssumption DEF VaultInv, U64
<1>2. /\ config' = config /\ ~payment[o][id].open /\ amount > 0
      /\ lamports' = [lamports EXCEPT ![o] = lamports[o] - PAYMENT_RENT]
      /\ vault' = [vault EXCEPT ![o] = new]
      /\ vault[o].payments >= amount \/ vault[o].liquid >= amount
  BY DEF schedule_payment
<1>3. PICK q : /\ payment' = [payment EXCEPT ![o][id] = q]
               /\ q.open /\ q.amount = amount /\ q.recipient = recipient
               /\ q.status \in LiveStatuses
  BY <1>1, Payments
<1>4. \A x \in Owners : vault'[x].open = vault[x].open /\ vault'[x].total = vault[x].total
  <2>1. vault[o] \in Vault
    BY <1>1, VaultTypes
  <2>2. new.open = vault[o].open /\ new.total = vault[o].total
    BY <2>1 DEF ReserveFunds, Vault
  <2> HIDE DEF new
  <2> QED BY <1>1, <1>2, <2>2 DEF TypeOK
<1> HIDE DEF new
<1>5. \A a \in Address : Worth(a)' = Worth(a)
  <2>1. Cardinality(OpenOf(o)') = Cardinality(OpenOf(o)) + 1 /\ \A w : w # o => OpenOf(w)' = OpenOf(w)
    BY <1>1, <1>2, <1>3, OpenOne
  <2>2. lamports' = [lamports EXCEPT ![o] = lamports[o] - 1 * PAYMENT_RENT]
    <3>1. 1 * PAYMENT_RENT = PAYMENT_RENT
      BY <1>1
    <3> QED BY <1>2, <3>1
  <2> QED BY <1>2, <1>4, <2>1, <2>2, WorthRented
<1>6. q \in Payment /\ payment[o][id] \in Payment
  <2>1. payment'[o][id] = q
    BY <1>1, <1>3 DEF TypeOK
  <2> QED BY <1>1, <2>1 DEF TypeOK
<1>7. \A x \in Owners : Reserved(x)' = IF x = o THEN Reserved(o) + amount ELSE Reserved(x)
  <2>1. Held(payment[o][id]) = 0 /\ Held(q) = amount
    BY <1>2, <1>3 DEF Held
  <2>2. /\ Reserved(o)' + Held(payment[o][id]) = Reserved(o) + Held(q)
        /\ Reserved(o)' \in Nat
        /\ \A x \in Owners \ {o} : Reserved(x)' = Reserved(x)
    BY <1>1, <1>3, <1>6, ReservedStep
  <2> QED BY <1>1, <2>1, <2>2, FreeIs
<1>8. \A x \in Owners : Buckets(vault'[x]) = IF x = o THEN Buckets(vault[o]) - amount ELSE Buckets(vault[x])
  <2> SUFFICES ASSUME NEW x \in Owners
               PROVE  Buckets(vault'[x]) = IF x = o THEN Buckets(vault[o]) - amount ELSE Buckets(vault[x])
    OBVIOUS
  <2> QED BY <1>1, <1>4, <1>7, FreeIs, FreeIsNext
<1>9. Buckets(vault[o]) >= amount
  BY <1>1, <1>2, VaultTypes DEF Buckets
<1>10. \A x \in Owners, i \in PaymentIds :
         LockedBy(payment'[x][i]) = IF x = o /\ i = id THEN [amount |-> amount, for |-> recipient]
                                    ELSE LockedBy(payment[x][i])
  <2>1. \A x \in Owners, i \in PaymentIds :
          payment'[x][i] = IF x = o /\ i = id THEN q ELSE payment[x][i]
    BY <1>1, <1>3 DEF TypeOK
  <2>2. LockedBy(q) = [amount |-> amount, for |-> recipient]
    BY <1>3 DEF LockedBy
  <2> QED BY <2>1, <2>2
<1>11. LockedBy(payment[o][id]) = [amount |-> 0, for |-> Nobody]
  BY <1>2 DEF LockedBy
<1>12. /\ free' = [free EXCEPT ![o] = @ - amount]
       /\ locked' = [locked EXCEPT ![o][id] = [amount |-> amount, for |-> recipient]]
       /\ outside' = outside
  <2>1. free' = [free EXCEPT ![o] = @ - amount]
    BY <1>8 DEF free
  <2>2. locked' = [locked EXCEPT ![o][id] = [amount |-> amount, for |-> recipient]]
    BY <1>10 DEF locked
  <2>3. outside' = outside
    BY <1>5 DEF outside
  <2> QED BY <2>1, <2>2, <2>3
<1>13. free[o] >= amount /\ locked[o][id] = [amount |-> 0, for |-> Nobody]
  BY <1>9, <1>11 DEF free, locked
<1> QED BY <1>12, <1>13, EscrowSteps

(* A payment that is cancelled releases its amount.                        *)
LEMMA CancelEscrow ==
  ASSUME VaultInv, VaultInv', NEW o \in Owners, NEW id \in PaymentIds, cancel_payment(o, id)
  PROVE  E!Release(o, id)
<1> DEFINE p == payment[o][id]
<1>1. TypeOK /\ TypeOK' /\ PAYMENT_RENT \in Nat /\ p \in Payment
  BY LimitsAssumption DEF VaultInv, U64, TypeOK
<1>2. /\ config' = config /\ p.open /\ p.status \in LiveStatuses
      /\ lamports' = [lamports EXCEPT ![o] = lamports[o] + PAYMENT_RENT]
      /\ vault' = [vault EXCEPT ![o] = [vault[o] EXCEPT !.liquid = vault[o].liquid + p.amount]]
      /\ payment' = [payment EXCEPT ![o][id] = NoPayment]
  BY DEF cancel_payment, Cancellable
<1>3. ~NoPayment.open
  BY DEF NoPayment
<1>4. \A x \in Owners : vault'[x].open = vault[x].open /\ vault'[x].total = vault[x].total
  BY <1>1, <1>2 DEF TypeOK, Vault
<1>5. \A a \in Address : Worth(a)' = Worth(a)
  <2>1. Cardinality(OpenOf(o)') = Cardinality(OpenOf(o)) - 1 /\ \A w : w # o => OpenOf(w)' = OpenOf(w)
    BY <1>1, <1>2, <1>3, CloseOne
  <2>2. lamports' = [lamports EXCEPT ![o] = lamports[o] - (-1) * PAYMENT_RENT]
    <3>1. lamports[o] \in Nat
      BY <1>1, VaultPdas DEF TypeOK, U64
    <3>2. lamports[o] - (-1) * PAYMENT_RENT = lamports[o] + PAYMENT_RENT
      BY <1>1, <3>1
    <3> QED BY <1>2, <3>2
  <2>3. Cardinality(OpenOf(o)') = Cardinality(OpenOf(o)) + (-1)
    BY <2>1, Finite
  <2> QED BY <1>2, <1>4, <2>1, <2>2, <2>3, WorthRented
<1>6. p.amount \in Nat /\ p.recipient \in Address
  <2> HIDE DEF p
  <2> QED BY <1>1 DEF Payment, U64
<1>7. \A x \in Owners : Reserved(x) = IF x = o THEN Reserved(o)' + p.amount ELSE Reserved(x)'
  <2>1. Held(p) = p.amount /\ Held(NoPayment) = 0
    BY <1>2, <1>3 DEF Held
  <2>2. /\ Reserved(o)' + Held(p) = Reserved(o) + Held(NoPayment)
        /\ Reserved(o)' \in Nat
        /\ \A x \in Owners \ {o} : Reserved(x)' = Reserved(x)
    BY <1>1, <1>2, ConstantTypes, ReservedStep
  <2> HIDE DEF p
  <2> QED BY <1>6, <2>1, <2>2, FreeIs
<1> HIDE DEF p
<1>8. \A x \in Owners : Buckets(vault'[x]) = IF x = o THEN Buckets(vault[o]) + p.amount ELSE Buckets(vault[x])
  <2> SUFFICES ASSUME NEW x \in Owners
               PROVE  Buckets(vault'[x]) = IF x = o THEN Buckets(vault[o]) + p.amount ELSE Buckets(vault[x])
    OBVIOUS
  <2>1. /\ vault[x].total = Buckets(vault[x]) + Reserved(x) /\ Buckets(vault[x]) \in Nat
        /\ vault'[x].total = Buckets(vault'[x]) + Reserved(x)' /\ Buckets(vault'[x]) \in Nat
        /\ Reserved(x) \in Nat
    BY FreeIs, FreeIsNext
  <2>2. Reserved(x)' \in Int
    <3>1. vault'[x] \in Vault /\ payment'[x] \in [PaymentIds -> Payment]
      BY <1>1 DEF TypeOK
    <3>2. CASE x = o
      <4>1. Reserved(o)' \in Nat
        <5>1. p = payment[o][id]
          BY DEF p
        <5> QED BY <1>1, <1>2, ConstantTypes, ReservedStep
      <4> QED BY <3>2, <4>1
    <3>3. CASE x # o
      BY <1>7, <2>1, <3>3
    <3> QED BY <3>2, <3>3
  <2> QED BY <1>4, <1>6, <1>7, <2>1, <2>2
<1>9. \A x \in Owners, i \in PaymentIds :
        LockedBy(payment'[x][i]) = IF x = o /\ i = id THEN [amount |-> 0, for |-> Nobody]
                                   ELSE LockedBy(payment[x][i])
  <2>1. \A x \in Owners, i \in PaymentIds :
          payment'[x][i] = IF x = o /\ i = id THEN NoPayment ELSE payment[x][i]
    BY <1>1, <1>2 DEF TypeOK
  <2>2. LockedBy(NoPayment) = [amount |-> 0, for |-> Nobody]
    BY <1>3 DEF LockedBy
  <2> QED BY <2>1, <2>2
<1>10. LockedBy(payment[o][id]) = [amount |-> p.amount, for |-> p.recipient]
  BY <1>2 DEF LockedBy, p
<1>11. LockedBy(payment[o][id]) # [amount |-> 0, for |-> Nobody]
  BY <1>6, <1>10, NobodyAssumption
<1>12. /\ free' = [free EXCEPT ![o] = @ + locked[o][id].amount]
       /\ locked' = [locked EXCEPT ![o][id] = [amount |-> 0, for |-> Nobody]]
       /\ outside' = outside
  <2>1. locked[o][id].amount = p.amount
    BY <1>10 DEF locked
  <2>2. free' = [free EXCEPT ![o] = @ + locked[o][id].amount]
    BY <1>8, <2>1 DEF free
  <2>3. locked' = [locked EXCEPT ![o][id] = [amount |-> 0, for |-> Nobody]]
    BY <1>9 DEF locked
  <2>4. outside' = outside
    BY <1>5 DEF outside
  <2> QED BY <2>2, <2>3, <2>4
<1>13. locked[o][id] # [amount |-> 0, for |-> Nobody]
  BY <1>11 DEF locked
<1> QED BY <1>12, <1>13, EscrowSteps

(* A payment that runs settles its amount with its recipient.              *)
LEMMA ExecuteEscrow ==
  ASSUME VaultInv, VaultInv', NEW o \in Owners, NEW id \in PaymentIds, execute_payment(o, id)
  PROVE  E!Settle(o, id)
<1> DEFINE p == payment[o][id]
           pda == VaultPda(o)
<1>1. TypeOK /\ TypeOK' /\ p \in Payment
  BY DEF VaultInv, TypeOK
<1>2. /\ config' = config /\ p.open /\ p.status = STATUS_SCHEDULED
      /\ lamports' = Moved(pda, p.recipient, p.amount) /\ pda # p.recipient
      /\ vault' = [vault EXCEPT ![o] = [vault[o] EXCEPT !.total = SatSub(vault[o].total, p.amount)]]
  BY DEF execute_payment, Runnable, MoveOk
<1>3. PICK q : payment' = [payment EXCEPT ![o][id] = q] /\ q.open /\ q.status \notin LiveStatuses
  BY <1>1, Payments
<1>4. p.amount \in Nat /\ p.recipient \in Address /\ pda \in Address
  <2>1. pda \in Address
    BY VaultPdas
  <2> HIDE DEF p
  <2> QED BY <1>1, <2>1 DEF Payment, U64
<1>5. p.status \in LiveStatuses
  BY <1>2 DEF LiveStatuses
<1>6. vault[o].total >= p.amount
  <2>1. Held(p) = p.amount
    BY <1>2, <1>5 DEF Held
  <2>2. Held(p) <= Reserved(o)
    BY <1>1, HeldType
  <2> HIDE DEF p
  <2> QED BY <1>4, <2>1, <2>2, FreeIs
<1>7. \A x, y \in Owners, i \in PaymentIds :
        payment'[x][i].open = payment[x][i].open
  <2>1. \A x \in Owners, i \in PaymentIds :
          payment'[x][i] = IF x = o /\ i = id THEN q ELSE payment[x][i]
    BY <1>1, <1>3 DEF TypeOK
  <2>2. q.open = p.open
    <3>1. q \in Payment
      BY <1>1, <2>1 DEF TypeOK
    <3>2. q.open \in BOOLEAN /\ p.open \in BOOLEAN
      BY <1>1, <3>1 DEF Payment
    <3> QED BY <1>2, <1>3, <3>2
  <2> QED BY <2>1, <2>2
<1>8. OpenPayments' = OpenPayments
  BY <1>7, OpenSame
<1> HIDE DEF p
<1>9. /\ vault'[o].total = vault[o].total - p.amount
      /\ \A x \in Owners : vault'[x].open = vault[x].open
      /\ \A x \in Owners : x # o => vault'[x] = vault[x]
      /\ \A x \in Owners : Buckets(vault'[x]) = Buckets(vault[x])
  <2>1. SatSub(vault[o].total, p.amount) = vault[o].total - p.amount
    BY <1>6 DEF SatSub
  <2>2. vault[o] \in Vault
    BY <1>1, VaultTypes
  <2>3. /\ vault'[o].total = vault[o].total - p.amount /\ vault'[o].open = vault[o].open
        /\ Buckets(vault'[o]) = Buckets(vault[o])
    BY <1>1, <1>2, <2>1, <2>2 DEF TypeOK, Vault, Buckets
  <2>4. \A x \in Owners : x # o => vault'[x] = vault[x]
    BY <1>1, <1>2 DEF TypeOK
  <2> QED BY <2>3, <2>4
<1> HIDE DEF pda
<1>10. \A a \in Address : Worth(a)' = IF a = p.recipient THEN Worth(a) + p.amount ELSE Worth(a)
  <2> SUFFICES ASSUME NEW a \in Address
               PROVE  Worth(a)' = IF a = p.recipient THEN Worth(a) + p.amount ELSE Worth(a)
    OBVIOUS
  <2>1. Worth(a) \in Nat
    BY WorthType
  <2>2. CASE a \in Wallets
    <3>1. a # pda
      BY <2>2, VaultPdas DEF pda
    <3> QED BY <1>2, <1>4, <1>8, <1>9, <2>1, <2>2, <3>1, WorthMoved
  <2>3. ASSUME NEW x \in Owners, a = VaultPda(x)
        PROVE  Worth(a)' = IF a = p.recipient THEN Worth(a) + p.amount ELSE Worth(a)
    <3>1. a = pda <=> x = o
      BY <2>3, VaultPdas DEF pda
    <3>2. Worth(a)' = Worth(a) + (IF a = p.recipient THEN p.amount ELSE IF a = pda THEN -p.amount ELSE 0)
                        - (vault'[x].total - vault[x].total)
      BY <1>2, <1>4, <1>8, <1>9, <2>3, WorthMoved
    <3>3. vault[x].total \in Nat
      BY FreeIs
    <3> QED BY <1>2, <1>4, <1>9, <2>1, <3>1, <3>2, <3>3
  <2> QED BY <2>2, <2>3, WorthOf
<1>11. \A x \in Owners, i \in PaymentIds :
         LockedBy(payment'[x][i]) = IF x = o /\ i = id THEN [amount |-> 0, for |-> Nobody]
                                    ELSE LockedBy(payment[x][i])
  <2>1. \A x \in Owners, i \in PaymentIds :
          payment'[x][i] = IF x = o /\ i = id THEN q ELSE payment[x][i]
    BY <1>1, <1>3 DEF TypeOK
  <2>2. LockedBy(q) = [amount |-> 0, for |-> Nobody]
    BY <1>3 DEF LockedBy
  <2> QED BY <2>1, <2>2
<1>12. LockedBy(payment[o][id]) = [amount |-> p.amount, for |-> p.recipient]
  BY <1>2, <1>5 DEF LockedBy, p
<1>13. LockedBy(payment[o][id]) # [amount |-> 0, for |-> Nobody]
  BY <1>4, <1>12, NobodyAssumption
<1>14. /\ outside' = [outside EXCEPT ![locked[o][id].for] = @ + locked[o][id].amount]
       /\ locked' = [locked EXCEPT ![o][id] = [amount |-> 0, for |-> Nobody]]
       /\ free' = free
  <2>1. locked[o][id].amount = p.amount /\ locked[o][id].for = p.recipient
    BY <1>12 DEF locked
  <2>2. outside' = [a \in Address |-> Worth(a)']
    BY DEF outside
  <2>3. outside' = [outside EXCEPT ![p.recipient] = @ + p.amount]
    BY <1>4, <1>10, <2>2 DEF outside
  <2>4. locked' = [locked EXCEPT ![o][id] = [amount |-> 0, for |-> Nobody]]
    BY <1>11 DEF locked
  <2>5. free' = free
    BY <1>9 DEF free
  <2> QED BY <2>1, <2>3, <2>4, <2>5
<1>15. locked[o][id] # [amount |-> 0, for |-> Nobody]
  BY <1>13 DEF locked
<1> QED BY <1>14, <1>15, EscrowSteps

(* The instructions on the configuration, on the settings of a vault and   *)
(* the approval of a payment move nothing.                                 *)
LEMMA InitializeProtocolUnseen ==
  ASSUME VaultInv, NEW w \in Wallets, initialize_protocol(w)
  PROVE  E!escrowVars' = E!escrowVars
<1>1. TypeOK /\ CONFIG_RENT \in Nat
  BY LimitsAssumption DEF VaultInv, U64
<1>2. /\ ~config.open /\ lamports' = [lamports EXCEPT ![w] = lamports[w] - CONFIG_RENT]
      /\ config'.open /\ config'.admin = w /\ vault' = vault /\ payment' = payment
  BY DEF initialize_protocol
<1>3. \A v : OpenOf(v)' = OpenOf(v)
  BY <1>2, OpenSame
<1>4. \A a \in Address : Worth(a)' = Worth(a)
  <2> SUFFICES ASSUME NEW a \in Address PROVE Worth(a)' = Worth(a)
    OBVIOUS
  <2>1. lamports'[a] = lamports[a] - (IF a = w THEN CONFIG_RENT ELSE 0) /\ lamports[a] \in Nat
    BY <1>1, <1>2 DEF TypeOK, U64
  <2>2. CASE a \in Wallets
    <3>1. /\ RentOfConfig(a) = 0 /\ RentOfConfig(a)' = IF a = w THEN CONFIG_RENT ELSE 0
          /\ RentOfVault(a)' = RentOfVault(a) /\ RentOfPayments(a)' = RentOfPayments(a)
      BY <1>2, <1>3 DEF RentOfConfig, RentOfVault, RentOfPayments
    <3>2. Worth(a) = lamports[a] + RentPaidBy(a) /\ Worth(a)' = lamports'[a] + RentPaidBy(a)'
      BY <2>2, WorthOf, WorthOfNext
    <3> QED BY <1>1, <2>1, <3>1, <3>2, RentParts
  <2>3. ASSUME NEW x \in Owners, a = VaultPda(x) PROVE Worth(a)' = Worth(a)
    <3>1. a # w
      BY <2>3, VaultPdas
    <3>2. lamports'[a] = lamports[a]
      BY <2>1, <3>1
    <3> QED BY <1>2, <2>3, <3>2, WorthOf, WorthOfNext
  <2> QED BY <2>2, <2>3, WorthOf
<1> QED BY <1>2, <1>4, Unseen

(* A step that moves no money and no rent leaves the escrow as it is.      *)
LEMMA SettingsUnseen ==
  ASSUME VaultInv, lamports' = lamports,
         config'.open = config.open, config'.admin = config.admin,
         \A o \in Owners : /\ vault'[o].open = vault[o].open /\ vault'[o].total = vault[o].total
                           /\ Buckets(vault'[o]) = Buckets(vault[o]),
         \A o \in Owners, id \in PaymentIds :
           /\ payment'[o][id].open = payment[o][id].open
           /\ LockedBy(payment'[o][id]) = LockedBy(payment[o][id])
  PROVE  E!escrowVars' = E!escrowVars
<1>1. \A v : OpenOf(v)' = OpenOf(v)
  BY OpenSame
<1>2. \A a \in Address : Worth(a)' = Worth(a)
  <2> SUFFICES ASSUME NEW a \in Address PROVE Worth(a)' = Worth(a)
    OBVIOUS
  <2>1. CASE a \in Wallets
    <3>1. RentPaidBy(a)' = RentPaidBy(a)
      BY <1>1, RentFrame
    <3> QED BY <2>1, <3>1, WorthOf, WorthOfNext
  <2>2. ASSUME NEW x \in Owners, a = VaultPda(x) PROVE Worth(a)' = Worth(a)
    BY <2>2, WorthOf, WorthOfNext
  <2> QED BY <2>1, <2>2, WorthOf
<1> QED BY <1>2, Unseen

(* Pausing, changing settings and approving are such steps.                *)
LEMMA OthersUnseen ==
  ASSUME VaultInv, VaultInv',
         \/ \E w \in Wallets, paused \in BOOLEAN : set_protocol_paused(w, paused)
         \/ \E o \in Owners, mode \in Modes, cap \in Caps, alloc \in Allocations :
              update_vault_config(o, mode, cap, alloc)
         \/ \E o \in Owners, id \in PaymentIds : approve_payment(o, id)
         \/ UNCHANGED vars
  PROVE  E!escrowVars' = E!escrowVars
<1>1. TypeOK /\ TypeOK'
  BY DEF VaultInv
<1>2. ASSUME NEW w \in Wallets, NEW paused \in BOOLEAN, set_protocol_paused(w, paused)
      PROVE  E!escrowVars' = E!escrowVars
  <2>1. config'.open = config.open /\ config'.admin = config.admin
    BY <1>1, <1>2 DEF set_protocol_paused, TypeOK, Config
  <2> QED BY <1>2, <2>1, SettingsUnseen DEF set_protocol_paused
<1>3. ASSUME NEW o \in Owners, NEW mode \in Modes, NEW cap \in Caps, NEW alloc \in Allocations,
             update_vault_config(o, mode, cap, alloc)
      PROVE  E!escrowVars' = E!escrowVars
  <2>1. \A x \in Owners : /\ vault'[x].open = vault[x].open /\ vault'[x].total = vault[x].total
                          /\ Buckets(vault'[x]) = Buckets(vault[x])
    <3>1. vault[o] \in Vault
      BY <1>1, VaultTypes
    <3>2. vault' = [vault EXCEPT ![o] = [vault[o] EXCEPT !.mode = mode, !.cap = cap, !.alloc = alloc]]
      BY <1>3 DEF update_vault_config
    <3>3. \A x \in Owners : x # o => vault'[x] = vault[x]
      BY <1>1, <3>2 DEF TypeOK
    <3>4. /\ vault'[o].open = vault[o].open /\ vault'[o].total = vault[o].total
          /\ Buckets(vault'[o]) = Buckets(vault[o])
      BY <1>1, <3>1, <3>2 DEF TypeOK, Vault, Buckets
    <3> QED BY <3>3, <3>4
  <2> QED BY <1>3, <2>1, SettingsUnseen DEF update_vault_config
<1>4. ASSUME NEW o \in Owners, NEW id \in PaymentIds, approve_payment(o, id)
      PROVE  E!escrowVars' = E!escrowVars
  <2>1. payment[o][id].open /\ payment[o][id].status \in LiveStatuses
    BY <1>4 DEF approve_payment, LiveStatuses
  <2>2. PICK q : /\ payment' = [payment EXCEPT ![o][id] = q]
                 /\ q.open /\ q.amount = payment[o][id].amount
                 /\ q.recipient = payment[o][id].recipient /\ q.status \in LiveStatuses
    BY <1>1, <1>4, Payments
  <2>3. \A x \in Owners, i \in PaymentIds :
          payment'[x][i] = IF x = o /\ i = id THEN q ELSE payment[x][i]
    BY <1>1, <2>2 DEF TypeOK
  <2>4. q.open = payment[o][id].open
    <3>1. q \in Payment /\ payment[o][id] \in Payment
      BY <1>1, <2>3 DEF TypeOK
    <3>2. q.open \in BOOLEAN /\ payment[o][id].open \in BOOLEAN
      BY <3>1 DEF Payment
    <3> QED BY <2>1, <2>2, <3>2
  <2>5. LockedBy(q) = LockedBy(payment[o][id])
    BY <2>1, <2>2 DEF LockedBy
  <2>6. config' = config /\ vault' = vault /\ lamports' = lamports
    BY <1>4 DEF approve_payment
  <2>7. \A x \in Owners, i \in PaymentIds :
          /\ payment'[x][i].open = payment[x][i].open
          /\ LockedBy(payment'[x][i]) = LockedBy(payment[x][i])
    BY <2>3, <2>4, <2>5
  <2> QED BY <2>6, <2>7, SettingsUnseen
<1>5. CASE UNCHANGED vars
  <2>1. vault' = vault /\ payment' = payment /\ config' = config /\ lamports' = lamports
    BY <1>5 DEF vars
  <2>2. \A x \in Owners : /\ vault'[x].open = vault[x].open /\ vault'[x].total = vault[x].total
                          /\ Buckets(vault'[x]) = Buckets(vault[x])
    BY <2>1
  <2>3. \A x \in Owners, i \in PaymentIds :
          /\ payment'[x][i].open = payment[x][i].open
          /\ LockedBy(payment'[x][i]) = LockedBy(payment[x][i])
    BY <2>1
  <2>4. config'.open = config.open /\ config'.admin = config.admin
    BY <2>1
  <2> QED BY <2>1, <2>2, <2>3, <2>4, SettingsUnseen
<1> QED BY <1>2, <1>3, <1>4, <1>5

(* Every step of the program is one of the escrow.                         *)
LEMMA NextEscrow == VaultInv /\ VaultInv' /\ [Next]_vars => [E!Next]_(E!escrowVars)
<1> SUFFICES ASSUME VaultInv, VaultInv', [Next]_vars
             PROVE  E!Next \/ E!escrowVars' = E!escrowVars
  OBVIOUS
<1>1. CASE UNCHANGED vars
  BY <1>1, OthersUnseen
<1>2. CASE ProtocolStep
  BY <1>2, InitializeProtocolUnseen, OthersUnseen DEF ProtocolStep
<1>3. ASSUME NEW o \in Owners, VaultStep(o) PROVE E!Next \/ E!escrowVars' = E!escrowVars
  <2>1. CASE \E alloc \in Allocations : initialize_vault(o, alloc)
    <3>1. PICK a \in 0..Worth(VaultPda(o)) : E!Trade(VaultPda(o), o, a)
      BY <2>1, InitializeEscrow
    <3>2. outside[VaultPda(o)] = Worth(VaultPda(o)) /\ o \in Address /\ VaultPda(o) \in Address
      BY VaultPdas DEF outside
    <3> QED BY <3>1, <3>2 DEF E!Next, outside
  <2>2. CASE \E amount \in Amounts : deposit(o, amount) \/ withdraw(o, amount)
    BY <2>2, DepositEscrow, WithdrawEscrow DEF E!Next
  <2>3. CASE \E mode \in Modes, cap \in Caps, alloc \in Allocations :
               update_vault_config(o, mode, cap, alloc)
    BY <2>3, OthersUnseen
  <2> QED BY <1>3, <2>1, <2>2, <2>3 DEF VaultStep
<1>4. ASSUME NEW o \in Owners, NEW id \in PaymentIds, PaymentStep(o, id)
      PROVE  E!Next \/ E!escrowVars' = E!escrowVars
  <2>1. CASE \E recipient \in Recipients, amount \in Amounts, kind \in Kinds, priority \in Priorities :
               schedule_payment(o, id, recipient, amount, kind, priority)
    <3>1. \E amount \in Amounts, recipient \in Address : E!Lock(o, id, amount, recipient)
      BY <2>1, ScheduleEscrow, InputsAssumption
    <3> QED BY <3>1 DEF E!Next
  <2>2. CASE approve_payment(o, id)
    BY <2>2, OthersUnseen
  <2>3. CASE execute_payment(o, id)
    BY <2>3, ExecuteEscrow DEF E!Next
  <2>4. CASE cancel_payment(o, id)
    BY <2>4, CancelEscrow DEF E!Next
  <2> QED BY <1>4, <2>1, <2>2, <2>3, <2>4 DEF PaymentStep
<1>5. ASSUME NEW from \in Wallets, NEW o \in Owners, NEW amount \in Gifts,
             SystemTransfer(from, VaultPda(o), amount)
      PROVE  E!Next \/ E!escrowVars' = E!escrowVars
  <2>1. PICK a \in 0..Worth(from) : E!Trade(from, VaultPda(o), a)
    BY <1>5, TransferEscrow
  <2>2. from \in Address /\ VaultPda(o) \in Address
    BY VaultPdas
  <2> QED BY <2>1, <2>2 DEF E!Next
<1> QED BY <1>1, <1>2, <1>3, <1>4, <1>5 DEF Next

(* The program implements the escrow: whatever the instructions do, funds  *)
(* are free or locked for one recipient, and a locked amount goes once, in *)
(* full, to him or back.                                                   *)
THEOREM ProgramIsAnEscrow == Spec => ImplementsEscrow
<1>1. Init => E!Init
  BY InitEscrow
<1>2. VaultInv /\ VaultInv' /\ [Next]_vars => [E!Next]_(E!escrowVars)
  BY NextEscrow
<1> QED BY <1>1, <1>2, BooksInvariant, PTL DEF Spec, ImplementsEscrow, E!Spec

(* The steps of the escrow keep its promises: no step but Release and      *)
(* Settle empties a slot, and these empty one.                             *)
LEMMA EscrowKeepsPromises == [E!Next]_(E!escrowVars) => [E!KeepsPromises]_(E!escrowVars)
<1> DEFINE empty == [amount |-> 0, for |-> Nobody]
           Kept(o, s) ==
             /\ locked' = [locked EXCEPT ![o][s] = empty]
             /\ \/ /\ free' = [free EXCEPT ![o] = @ + locked[o][s].amount]
                   /\ outside' = outside
                \/ /\ outside' = [outside EXCEPT ![locked[o][s].for] = @ + locked[o][s].amount]
                   /\ free' = free
           Ends(o, s) == locked[o][s] # empty /\ locked'[o][s] # locked[o][s]
<1>1. E!KeepsPromises <=> \A o \in Owners, s \in PaymentIds : Ends(o, s) => Kept(o, s)
  BY DEF E!KeepsPromises, E!Empty, free, locked, outside
<1>2. \A o \in Owners, s \in PaymentIds : \A q : \A x \in Owners, t \in PaymentIds :
        <<x, t>> # <<o, s>> => [locked EXCEPT ![o][s] = q][x][t] = locked[x][t]
  BY DEF locked
<1> SUFFICES ASSUME E!Next, NEW o \in Owners, NEW s \in PaymentIds, Ends(o, s)
             PROVE  Kept(o, s)
  BY <1>1
<1>3. ~\E x \in Owners, a \in Amounts : E!Deposit(x, a) \/ E!Withdraw(x, a)
  BY EscrowSteps
<1>4. ~\E x \in Owners, t \in PaymentIds, a \in Amounts, h \in Address : E!Lock(x, t, a, h)
  <2> SUFFICES ASSUME NEW x \in Owners, NEW t \in PaymentIds, NEW a \in Amounts,
                      NEW h \in Address, E!Lock(x, t, a, h)
               PROVE  FALSE
    OBVIOUS
  <2>1. locked[x][t] = empty /\ locked' = [locked EXCEPT ![x][t] = [amount |-> a, for |-> h]]
    BY EscrowSteps
  <2>2. <<o, s>> # <<x, t>>
    BY <2>1
  <2> QED BY <1>2, <2>1, <2>2
<1>5. ~\E g, h \in Address : \E a \in 0..outside[g] : E!Trade(g, h, a)
  BY EscrowSteps
<1>6. PICK x \in Owners, t \in PaymentIds : E!Release(x, t) \/ E!Settle(x, t)
  BY <1>3, <1>4, <1>5 DEF E!Next, outside
<1>7. locked' = [locked EXCEPT ![x][t] = empty]
  BY <1>6, EscrowSteps
<1>8. o = x /\ s = t
  BY <1>2, <1>7
<1> QED BY <1>6, <1>7, <1>8, EscrowSteps

(* A payment's funds stay reserved until they are paid in full to its      *)
(* recipient or returned: inherited from the escrow.                       *)
THEOREM ReservationsAreKept == Spec => ReservationsKept
<1>1. [E!Next]_(E!escrowVars) => [E!KeepsPromises]_(E!escrowVars)
  BY EscrowKeepsPromises
<1> QED BY <1>1, ProgramIsAnEscrow, PTL DEF ImplementsEscrow, E!Spec, ReservationsKept, E!PromisesKept

=============================================================================
