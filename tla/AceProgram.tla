----------------------------- MODULE AceProgram -----------------------------
(***************************************************************************)
(* The on-chain program ace_protocol: the protocol configuration, one      *)
(* treasury vault per owner wallet and the payment accounts scheduled out  *)
(* of it.  Every instruction is one action: a Solana transaction is atomic *)
(* and an error undoes it, so an instruction that fails is a step that is  *)
(* not taken.                                                              *)
(*                                                                         *)
(* An account that does not exist is a record whose field "open" is FALSE. *)
(* Amounts are unsigned integers of at most U64_MAX; where the code uses   *)
(* checked arithmetic the action is guarded by Fits, where it saturates    *)
(* the action uses SatMul and SatSub.                                      *)
(*                                                                         *)
(* Left out: transaction fees, the runtime's refusal to leave a wallet     *)
(* with a balance below its own rent, gifts to addresses other than vault  *)
(* PDAs, the fee basis points (stored, never used), the risk level, the    *)
(* creation and rebalance times, the clock, and of a payment next_due,     *)
(* recurrence and max_spend_lamports (stored, never read), and the emitted *)
(* events.                                                                 *)
(*                                                                         *)
(* An operator whose name begins with Bug_ is the operator after it with a *)
(* plausible mistake; the properties are tried against these mutated       *)
(* forms, and nothing in the specification uses them.                      *)
(***************************************************************************)
EXTENDS Integers, FiniteSets, Functions

CONSTANTS
  Wallets,       \* keys that sign transactions
  Owners,        \* the wallets that may open a vault
  PaymentIds,    \* the 32-byte payment ids the owners use
  Recipients,    \* the addresses payments are made out to
  Amounts,       \* the amounts passed to the instructions
  Gifts,         \* the amounts others send to vault PDAs on their own
  Allocations,   \* the percentages passed to the instructions
  Modes,         \* the operation_mode bytes passed to update_vault_config
  Caps,          \* the ai_payment_cap_lamports passed to update_vault_config
  Kinds,         \* the payment kinds passed to schedule_payment
  Priorities,    \* the payment priorities passed to schedule_payment
  InitialLamports,  \* lamports of each wallet at the start
  CONFIG_RENT, VAULT_RENT, PAYMENT_RENT,  \* rent-exempt balances of accounts
  U64_MAX,                                \* 2^64 - 1 in the code
  MIN_RESERVE_BPS,                        \* 1500 in the code
  MANUAL_APPROVAL_THRESHOLD_LAMPORTS,     \* 500_000_000 in the code
  DEFAULT_AI_CAP                          \* 500_000_000 in the code

MODE_SAFE == 0
MODE_AUTOPILOT == 1
KIND_X402 == 4
PRIORITY_LOW == 0

(* The statuses of a payment the handlers test or assign.                  *)
STATUS_PENDING   == 0
STATUS_SCHEDULED == 1
STATUS_COMPLETED == 3
STATUS_QUEUED    == 6
Statuses == {STATUS_PENDING, STATUS_SCHEDULED, STATUS_COMPLETED, STATUS_QUEUED}
LiveStatuses == {STATUS_PENDING, STATUS_SCHEDULED, STATUS_QUEUED}

(* The program-derived address of an owner's vault: never a signer's key.  *)
VaultPda(o) == <<"vault", o>>
Address == Wallets \cup {VaultPda(o) : o \in Owners}

U64 == 0..U64_MAX
Percent == 0..100
Allocation == [yield : Percent, reserve : Percent, liquid : Percent, payments : Percent]

ASSUME WalletsAssumption ==
  /\ IsFiniteSet(Wallets) /\ Wallets # {} /\ Owners \subseteq Wallets
  /\ \A o \in Owners : VaultPda(o) \notin Wallets
  /\ InitialLamports \in [Wallets -> U64]
ASSUME InputsAssumption ==
  /\ IsFiniteSet(PaymentIds)
  /\ Recipients \subseteq Address
  /\ Amounts \subseteq U64 /\ Gifts \subseteq U64 /\ Caps \subseteq U64 /\ Modes \subseteq Nat
  /\ Kinds \subseteq Nat /\ Priorities \subseteq Nat
  /\ Allocations \subseteq Allocation
ASSUME LimitsAssumption ==
  /\ U64_MAX \in Nat /\ MIN_RESERVE_BPS \in Nat
  /\ CONFIG_RENT \in U64 /\ VAULT_RENT \in U64 /\ PAYMENT_RENT \in U64
  /\ MANUAL_APPROVAL_THRESHOLD_LAMPORTS \in U64 /\ DEFAULT_AI_CAP \in U64
(* The whole lamport supply of the cluster is itself a u64.                *)
ASSUME SupplyAssumption == SumFunctionOnSet(InitialLamports, Wallets) <= U64_MAX

VARIABLES
  config,    \* the ProtocolConfig account
  vault,     \* the Vault account of each owner
  payment,   \* the Payment account of each owner and payment id
  lamports,  \* the lamport balance of every wallet and vault PDA
  signedOff  \* history: the open payments their owner approved by signature

vars == <<config, vault, payment, lamports, signedOff>>

Config == [open : BOOLEAN, admin : Wallets, is_paused : BOOLEAN]
Vault ==
  [open : BOOLEAN, total : U64, yield : U64, reserve : U64, liquid : U64,
   payments : U64, alloc : Allocation, mode : Nat, cap : U64]
Payment ==
  [open : BOOLEAN, recipient : Address, amount : U64, status : Statuses,
   kind : Nat, priority : Nat, approved : BOOLEAN]

AnyWallet == CHOOSE w \in Wallets : TRUE
NoConfig == [open |-> FALSE, admin |-> AnyWallet, is_paused |-> FALSE]
NoVault ==
  [open |-> FALSE, total |-> 0, yield |-> 0, reserve |-> 0, liquid |-> 0,
   payments |-> 0, mode |-> MODE_SAFE, cap |-> 0,
   alloc |-> [yield |-> 0, reserve |-> 0, liquid |-> 0, payments |-> 0]]
NoPayment ==
  [open |-> FALSE, recipient |-> AnyWallet, amount |-> 0,
   status |-> STATUS_PENDING, kind |-> 0, priority |-> 0,
   approved |-> FALSE]

-----------------------------------------------------------------------------
(* u64 arithmetic.                                                         *)

Fits(n) == n <= U64_MAX
SatMul(m, n) == IF Fits(m * n) THEN m * n ELSE U64_MAX
SatSub(m, n) == IF m >= n THEN m - n ELSE 0

Bug_liquid_counted(v) ==
  IF v.total = 0 THEN 10000 ELSE SatMul(v.reserve + v.liquid, 10000) \div v.total

(* Reserve ratio of a vault in basis points, rounded down.                 *)
reserve_ratio_bps(v) ==
  IF v.total = 0 THEN 10000 ELSE SatMul(v.reserve, 10000) \div v.total

(* The four percentages add up to 100.                                     *)
SumsTo100(a) == a.yield + a.reserve + a.liquid + a.payments = 100

(* What a bucket with the given percentage receives of a deposit.          *)
Share(amount, pct) == (amount * pct) \div 100

Bug_not_debited(from, to, amount) == [lamports EXCEPT ![to] = @ + amount]

(* The move of an amount from one address to another: both balances are    *)
(* borrowed mutably, so they are two accounts, and both results fit.       *)
Moved(from, to, amount) ==
  [lamports EXCEPT ![from] = @ - amount, ![to] = @ + amount]
Bug_not_funded(from, to, amount) == from # to /\ Fits(lamports[to] + amount)
MoveOk(from, to, amount) ==
  from # to /\ lamports[from] >= amount /\ Fits(lamports[to] + amount)

-----------------------------------------------------------------------------
(* ProtocolConfig                                                          *)

initialize_protocol(admin) ==
  /\ ~config.open
  /\ lamports[admin] >= CONFIG_RENT
  /\ lamports' = [lamports EXCEPT ![admin] = @ - CONFIG_RENT]
  /\ config' = [open |-> TRUE, admin |-> admin, is_paused |-> FALSE]
  /\ UNCHANGED <<vault, payment, signedOff>>

set_protocol_paused(admin, paused) ==
  /\ config.open /\ config.admin = admin
  /\ config' = [config EXCEPT !.is_paused = paused]
  /\ UNCHANGED <<vault, payment, lamports, signedOff>>

NotPaused == config.open /\ ~config.is_paused

-----------------------------------------------------------------------------
(* Vault                                                                   *)

Bug_rent_if_empty(o) == IF lamports[VaultPda(o)] = 0 THEN VAULT_RENT ELSE 0

(* The owner pays what the PDA lacks of its rent-exempt balance.           *)
TopUp(o) == SatSub(VAULT_RENT, lamports[VaultPda(o)])

initialize_vault(o, alloc) ==
  /\ NotPaused
  /\ ~vault[o].open
  /\ SumsTo100(alloc)
  /\ lamports[o] >= TopUp(o)
  /\ lamports' = Moved(o, VaultPda(o), TopUp(o))
  /\ vault' = [vault EXCEPT ![o] =
                 [NoVault EXCEPT !.open = TRUE, !.alloc = alloc,
                                 !.mode = MODE_SAFE, !.cap = DEFAULT_AI_CAP]]
  /\ UNCHANGED <<config, payment, signedOff>>

deposit(o, amount) ==
  LET v == vault[o]
      y == Share(amount, v.alloc.yield)
      r == Share(amount, v.alloc.reserve)
      p == Share(amount, v.alloc.payments)
      l == SatSub(SatSub(SatSub(amount, y), r), p)
  IN
  /\ NotPaused
  /\ v.open
  /\ amount > 0
  /\ MoveOk(o, VaultPda(o), amount)
  /\ Fits(amount * v.alloc.yield) /\ Fits(amount * v.alloc.reserve)
  /\ Fits(amount * v.alloc.payments)
  /\ Fits(v.total + amount)
  /\ Fits(v.yield + y) /\ Fits(v.reserve + r) /\ Fits(v.liquid + l) /\ Fits(v.payments + p)
  /\ lamports' = Moved(o, VaultPda(o), amount)
  /\ vault' = [vault EXCEPT ![o] =
                 [v EXCEPT !.total = v.total + amount, !.yield = v.yield + y,
                           !.reserve = v.reserve + r, !.liquid = v.liquid + l,
                           !.payments = v.payments + p]]
  /\ UNCHANGED <<config, payment, signedOff>>

withdraw(o, amount) ==
  LET v == vault[o]
      newTotal == SatSub(v.total, amount)
  IN
  /\ NotPaused
  /\ v.open
  /\ amount > 0
  /\ v.liquid >= amount
  /\ newTotal > 0 => SatMul(v.reserve, 10000) \div newTotal >= MIN_RESERVE_BPS
  /\ MoveOk(VaultPda(o), o, amount)
  /\ lamports' = Moved(VaultPda(o), o, amount)
  /\ vault' = [vault EXCEPT ![o] =
                 [v EXCEPT !.total = newTotal, !.liquid = SatSub(v.liquid, amount)]]
  /\ UNCHANGED <<config, payment, signedOff>>

update_vault_config(o, mode, cap, alloc) ==
  /\ vault[o].open
  /\ SumsTo100(alloc)
  /\ vault' = [vault EXCEPT ![o] =
                 [vault[o] EXCEPT !.mode = mode, !.cap = cap, !.alloc = alloc]]
  /\ UNCHANGED <<config, payment, lamports, signedOff>>

-----------------------------------------------------------------------------
(* Payments                                                                *)

Bug_above_threshold(v, amount) ==
  v.mode = MODE_SAFE \/ amount > MANUAL_APPROVAL_THRESHOLD_LAMPORTS
RequiresApproval(v, amount) ==
  v.mode = MODE_SAFE \/ amount >= MANUAL_APPROVAL_THRESHOLD_LAMPORTS

Bug_no_fallback(v, amount) == [v EXCEPT !.payments = SatSub(v.payments, amount)]
Bug_reserve_spent(v, amount) ==
  IF v.payments >= amount
  THEN [v EXCEPT !.payments = SatSub(v.payments, amount)]
  ELSE [v EXCEPT !.reserve = SatSub(v.reserve, amount)]

(* Funds are taken from the payments bucket if it covers the amount, else  *)
(* from the liquid bucket; the total keeps counting them.                  *)
ReserveFunds(v, amount) ==
  IF v.payments >= amount
  THEN [v EXCEPT !.payments = SatSub(v.payments, amount)]
  ELSE [v EXCEPT !.liquid = SatSub(v.liquid, amount)]

Bug_default_cap(v, amount) == v.mode = MODE_AUTOPILOT => amount <= DEFAULT_AI_CAP

(* The spend cap, which binds in autopilot only.                           *)
WithinCap(v, amount) == v.mode = MODE_AUTOPILOT => amount <= v.cap

schedule_payment(o, id, recipient, amount, kind, priority) ==
  LET v == vault[o]
      needed == RequiresApproval(v, amount)
  IN
  /\ NotPaused
  /\ v.open
  /\ ~payment[o][id].open
  /\ amount > 0
  /\ kind = KIND_X402 => WithinCap(v, amount)
  /\ v.payments >= amount \/ v.liquid >= amount
  /\ lamports[o] >= PAYMENT_RENT
  /\ lamports' = [lamports EXCEPT ![o] = @ - PAYMENT_RENT]
  /\ vault' = [vault EXCEPT ![o] = ReserveFunds(v, amount)]
  /\ payment' = [payment EXCEPT ![o][id] =
       [open |-> TRUE, recipient |-> recipient, amount |-> amount,
        status |-> IF needed THEN STATUS_PENDING ELSE STATUS_SCHEDULED,
        kind |-> kind, priority |-> priority,
        approved |-> ~needed]]
  /\ UNCHANGED <<config, signedOff>>

approve_payment(o, id) ==
  /\ payment[o][id].open
  /\ payment[o][id].status = STATUS_PENDING
  /\ payment' = [payment EXCEPT ![o][id] =
                   [payment[o][id] EXCEPT !.approved = TRUE, !.status = STATUS_SCHEDULED]]
  /\ signedOff' = signedOff \cup {<<o, id>>}
  /\ UNCHANGED <<config, vault, lamports>>

Bug_run_in_any_status(p) == p.open /\ p.approved
Runnable(p) == p.open /\ p.status = STATUS_SCHEDULED /\ p.approved

execute_payment(o, id) ==
  LET v == vault[o]
      p == payment[o][id]
  IN
  /\ NotPaused
  /\ v.open /\ Runnable(p)
  /\ p.priority = PRIORITY_LOW => reserve_ratio_bps(v) >= MIN_RESERVE_BPS
  /\ WithinCap(v, p.amount)
  /\ MoveOk(VaultPda(o), p.recipient, p.amount)
  /\ lamports' = Moved(VaultPda(o), p.recipient, p.amount)
  /\ vault' = [vault EXCEPT ![o] = [v EXCEPT !.total = SatSub(v.total, p.amount)]]
  /\ payment' = [payment EXCEPT ![o][id] = [p EXCEPT !.status = STATUS_COMPLETED]]
  /\ UNCHANGED <<config, signedOff>>

Bug_cancel_in_any_status(p) == p.open
Bug_no_cancel_in_pause(p) == NotPaused /\ p.open /\ p.status \in LiveStatuses
Cancellable(p) == p.open /\ p.status \in LiveStatuses

(* The account is closed: its rent returns to the owner and the id can be  *)
(* used again.                                                             *)
cancel_payment(o, id) ==
  LET v == vault[o]
      p == payment[o][id]
  IN
  /\ Cancellable(p)
  /\ Fits(v.liquid + p.amount) /\ Fits(lamports[o] + PAYMENT_RENT)
  /\ vault' = [vault EXCEPT ![o] = [v EXCEPT !.liquid = v.liquid + p.amount]]
  /\ lamports' = [lamports EXCEPT ![o] = @ + PAYMENT_RENT]
  /\ payment' = [payment EXCEPT ![o][id] = NoPayment]
  /\ signedOff' = signedOff \ {<<o, id>>}
  /\ UNCHANGED config

-----------------------------------------------------------------------------
(* The environment: the System Program, through which any wallet can send  *)
(* lamports to any address, a vault PDA among them.                        *)

SystemTransfer(from, to, amount) ==
  /\ amount > 0
  /\ MoveOk(from, to, amount)
  /\ lamports' = Moved(from, to, amount)
  /\ UNCHANGED <<config, vault, payment, signedOff>>

Init ==
  /\ config = NoConfig
  /\ vault = [o \in Owners |-> NoVault]
  /\ payment = [o \in Owners |-> [id \in PaymentIds |-> NoPayment]]
  /\ lamports = [a \in Address |-> IF a \in Wallets THEN InitialLamports[a] ELSE 0]
  /\ signedOff = {}

ProtocolStep ==
  \E w \in Wallets :
    \/ initialize_protocol(w)
    \/ \E paused \in BOOLEAN : set_protocol_paused(w, paused)

VaultStep(o) ==
  \/ \E alloc \in Allocations : initialize_vault(o, alloc)
  \/ \E amount \in Amounts : deposit(o, amount)
  \/ \E amount \in Amounts : withdraw(o, amount)
  \/ \E mode \in Modes, cap \in Caps, alloc \in Allocations :
       update_vault_config(o, mode, cap, alloc)

PaymentStep(o, id) ==
  \/ \E recipient \in Recipients, amount \in Amounts, kind \in Kinds,
        priority \in Priorities :
       schedule_payment(o, id, recipient, amount, kind, priority)
  \/ approve_payment(o, id)
  \/ execute_payment(o, id)
  \/ cancel_payment(o, id)

Next ==
  \/ ProtocolStep
  \/ \E o \in Owners : VaultStep(o)
  \/ \E o \in Owners, id \in PaymentIds : PaymentStep(o, id)
  \/ \E from \in Wallets, o \in Owners, amount \in Gifts :
       SystemTransfer(from, VaultPda(o), amount)

Spec == Init /\ [][Next]_vars

-----------------------------------------------------------------------------
(* What the program promises.                                              *)

(* The lamports a payment account holds back from the buckets, and those   *)
(* held back in a vault by all of its payments.                            *)
Held(p) == IF p.open /\ p.status \in LiveStatuses THEN p.amount ELSE 0
HeldBy(o) == [id \in PaymentIds |-> Held(payment[o][id])]
Reserved(o) == SumFunctionOnSet(HeldBy(o), PaymentIds)
Buckets(v) == v.yield + v.reserve + v.liquid + v.payments

(* Every variable has its type and every stored amount is a u64.           *)
TypeOK ==
  /\ config \in Config
  /\ vault \in [Owners -> Vault]
  /\ payment \in [Owners -> [PaymentIds -> Payment]]
  /\ lamports \in [Address -> U64]
  /\ signedOff \subseteq Owners \X PaymentIds

(* The total of a vault is what its four buckets hold plus the amounts of  *)
(* its unpaid payments: scheduling takes the amount out of a bucket and    *)
(* leaves the total, execution takes it off the total, cancelling puts it  *)
(* into a bucket, and no saturating subtraction ever clips.                *)
VaultAccounting == \A o \in Owners : vault[o].total = Buckets(vault[o]) + Reserved(o)

(* The PDA always holds its rent and the recorded total (the comment at    *)
(* vault.rs:194-197), whoever sends it lamports from outside.              *)
VaultSolvent ==
  \A o \in Owners : vault[o].open => lamports[VaultPda(o)] >= VAULT_RENT + vault[o].total

(* The strengthening these invariants need: a vault that does not exist is *)
(* blank and has no payments, and the percentages of one that does add up  *)
(* to 100, so that the shares of a deposit never exceed it.                *)
VaultsWellFormed ==
  \A o \in Owners :
    IF vault[o].open
    THEN SumsTo100(vault[o].alloc)
    ELSE vault[o] = NoVault /\ \A id \in PaymentIds : ~payment[o][id].open
VaultInv == TypeOK /\ VaultsWellFormed /\ VaultAccounting /\ VaultSolvent

(* No instruction creates or loses lamports: balances and the rent locked  *)
(* in the accounts of the program add up to the initial supply.            *)
OpenPayments == {x \in Owners \X PaymentIds : payment[x[1]][x[2]].open}
SupplyConserved ==
  SumFunctionOnSet(lamports, Address) + PAYMENT_RENT * Cardinality(OpenPayments)
    + (IF config.open THEN CONFIG_RENT ELSE 0)
  = SumFunctionOnSet(InitialLamports, Wallets)

(* A payment at or above the manual approval threshold is ready to run, or *)
(* has run, only if its owner signed approve_payment for this very         *)
(* scheduling, in whatever mode the vault was and however often the id was *)
(* cancelled and used again.                                               *)
LargePaymentsSignedOff ==
  \A o \in Owners, id \in PaymentIds :
    /\ payment[o][id].open
    /\ payment[o][id].status \in {STATUS_SCHEDULED, STATUS_COMPLETED}
    /\ payment[o][id].amount >= MANUAL_APPROVAL_THRESHOLD_LAMPORTS
    => <<o, id>> \in signedOff

(* Funds reserved for a payment that has not run can always be released:   *)
(* cancel_payment never fails on it, the protocol paused or not.           *)
RefundAlwaysPossible ==
  \A o \in Owners, id \in PaymentIds :
    Held(payment[o][id]) > 0 => ENABLED cancel_payment(o, id)

(* A paid payment account never changes again: it is not run twice, not    *)
(* refunded and its id is never reused.                                    *)
PaidIsFinal ==
  [][\A o \in Owners, id \in PaymentIds :
       payment[o][id].open /\ payment[o][id].status = STATUS_COMPLETED
       => payment'[o][id] = payment[o][id]]_vars

(* Nothing on chain takes lamports out of the yield and reserve buckets,   *)
(* so neither ever shrinks: withdrawals and payments only raise the        *)
(* reserve ratio, and what enters these buckets stays.                     *)
ReserveNeverSpent ==
  [][\A o \in Owners : /\ vault'[o].reserve >= vault[o].reserve
                       /\ vault'[o].yield >= vault[o].yield]_vars

(* While the protocol is paused no vault loses lamports and none promises  *)
(* more of them to payments.                                               *)
PauseFreezesVaults ==
  [][config.is_paused =>
       \A o \in Owners : /\ lamports'[VaultPda(o)] >= lamports[VaultPda(o)]
                         /\ vault'[o].total = vault[o].total
                         /\ \A id \in PaymentIds : payment'[o][id].open => payment[o][id].open]_vars

(* Whatever leaves a vault by a withdrawal or by a low-priority payment    *)
(* leaves at least the minimum reserve ratio of what remains, rounding and *)
(* saturation of the ratio included.                                       *)
RunsUrgent(o, id) ==
  /\ payment[o][id].status = STATUS_SCHEDULED /\ payment'[o][id].status = STATUS_COMPLETED
  /\ payment[o][id].priority # PRIORITY_LOW
FloorGatesOptionalOutflow ==
  [][\A o \in Owners :
       vault'[o].total < vault[o].total /\ (\A id \in PaymentIds : ~RunsUrgent(o, id))
       => \/ vault'[o].total = 0
          \/ vault'[o].reserve * 10000 >= MIN_RESERVE_BPS * vault'[o].total]_vars

(* What runs in autopilot without the owner's signature is within the cap  *)
(* in force when it runs and below the approval threshold, however the     *)
(* mode and the cap were changed since the payment was scheduled.          *)
Runs(o, id) ==
  /\ payment[o][id].open /\ payment'[o][id].open
  /\ payment[o][id].status # STATUS_COMPLETED
  /\ payment'[o][id].status = STATUS_COMPLETED
AutopilotSpendsWithinLimits ==
  [][\A o \in Owners, id \in PaymentIds :
       Runs(o, id) /\ vault[o].mode = MODE_AUTOPILOT
          /\ <<o, id>> \notin signedOff
       => /\ payment[o][id].amount <= vault[o].cap
          /\ payment[o][id].amount < MANUAL_APPROVAL_THRESHOLD_LAMPORTS]_vars

-----------------------------------------------------------------------------
(* What the documents say and the program does not keep.                   *)

(* "Safe mode - every outbound transaction needs your approval"            *)
(* (README.md:31): a payment that runs while the vault is in safe mode was *)
(* approved by its owner.                                                  *)
SafeModeNeedsApproval ==
  [][\A o \in Owners, id \in PaymentIds :
       Runs(o, id) /\ vault[o].mode = MODE_SAFE => <<o, id>> \in signedOff]_vars

(* "Autopilot mode - [...] Anything over the cap comes back to you for a   *)
(* one-time signature" (README.md:33): a payment above the cap accepted in *)
(* autopilot waits for approval.                                           *)
OverCapWaitsForSignature ==
  [][\A o \in Owners, id \in PaymentIds :
       /\ ~payment[o][id].open /\ payment'[o][id].open
       /\ vault[o].mode = MODE_AUTOPILOT /\ payment'[o][id].amount > vault[o].cap
       => payment'[o][id].status = STATUS_PENDING]_vars

(* "Reserve bucket - never falls below min_reserve_ratio" (state.rs:49).   *)
ReserveFloorKept ==
  \A o \in Owners : vault[o].reserve * 10000 >= MIN_RESERVE_BPS * vault[o].total

=============================================================================
