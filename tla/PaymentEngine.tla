--------------------------- MODULE PaymentEngine ---------------------------
(***************************************************************************)
(* The off-chain treasury service and payment engine for one wallet: the   *)
(* profile row, the payments and the transactions kept in SQLite, and the  *)
(* request handlers that the Next.js server and the Fastify backend run    *)
(* against the same database file.                                         *)
(*                                                                         *)
(* One SQL statement is one step.  No handler opens a transaction, so the  *)
(* statements of two servers interleave freely; the handlers of one server *)
(* (a single JavaScript thread) interleave only where one of them awaits.  *)
(* A server may die between two statements.                                *)
(*                                                                         *)
(* Amounts are whole numbers of cents.  Abstracted: the policy and the     *)
(* router's verdict where it depends on the hour, the fees and the number  *)
(* of other payments (either outcome), failure reasons and retry counts,   *)
(* the reads that only build the answer to the client, and the second in   *)
(* which a transaction id is made (two of one payment may share it).       *)
(*                                                                         *)
(* An operator whose name begins with Bug_ is the operator after it with a *)
(* plausible mistake; the properties are tried against these mutated       *)
(* forms, and nothing in the specification uses them.                      *)
(***************************************************************************)
EXTENDS Integers, FiniteSets, Functions

CONSTANTS
  Requests,      \* the slots in which requests are handled
  Servers,       \* the processes that share the database
  server,        \* the process that handles the requests of each slot
  Payments,      \* the ids of payments
  info,          \* what is fixed of each payment
  Existing,      \* the payments entered before the behaviour starts
  TopUps,        \* the amounts of demo deposits
  Stakes,        \* the amounts staked
  Allocation,    \* the percentages of the profile
  OpeningTotal,  \* what the profile starts with
  HourlyYield,   \* interest of an hour on a yield bucket that is not empty
  MANUAL_APPROVAL_ABOVE,  \* 500 USD in the code
  NoPayment,     \* a call about no payment
  MaxHour, MaxCalls, MaxCrashes  \* bounds

ASSUME SlotsAssumption == IsFiniteSet(Requests) /\ server \in [Requests -> Servers]
ASSUME PaymentsAssumption ==
  /\ IsFiniteSet(Payments) /\ Existing \subseteq Payments /\ NoPayment \notin Payments
  /\ info \in [Payments -> [amount : Nat, kind : {"bill", "x402"},
                            priority : {"low", "normal", "high"},
                            allowlisted : BOOLEAN, maxSpend : Nat]]
ASSUME AmountsAssumption ==
  /\ TopUps \subseteq Nat /\ Stakes \subseteq Nat
  /\ Allocation \in [yield : 0..100, reserve : 0..100, liquid : 0..100, payments : 0..100]
  /\ Allocation.yield + Allocation.reserve + Allocation.liquid + Allocation.payments = 100
  /\ OpeningTotal \in Nat /\ HourlyYield \in Nat /\ MANUAL_APPROVAL_ABOVE \in Nat
ASSUME BoundsAssumption == MaxHour \in Nat /\ MaxCalls \in Nat /\ MaxCrashes \in Nat

VARIABLES
  row,          \* the wallet_profiles row
  status,       \* the status of each payments row
  settlements,  \* the settled x402_settlements rows of each payment, counted
  payouts,      \* the transactions rows of type payout or fee, counted
  deposited,    \* the sum of the transactions rows of type deposit
  staked,       \* the sum of the transactions rows of type yield_harvest
  hour,         \* the clock
  job,          \* the handler in each slot
  calls,        \* how many calls have been made
  crashes,      \* how many times a server died
  completions,  \* history: how often each payment was marked completed
  earned,       \* history: the interest written to the row
  overlapped,   \* history: two handlers were active at once
  mixed,        \* history: as MixedNow, or an hour passed under a handler
  collided      \* history: a transactions row was refused for its id

db == <<row, status, settlements, payouts, deposited, staked>>
history == <<completions, earned, overlapped, mixed, collided>>
vars == <<db, hour, job, calls, crashes, history>>

Statuses == {"none", "scheduled", "queued", "failed", "completed"}
Row == [total : Int, yield : Int, reserve : Int, liquid : Nat, payments : Int,
        accruedAt : 0..MaxHour]
Ops == {"view", "execute", "topup", "stake"}
Call == [op : Ops, payment : Payments \cup {NoPayment}, amount : Nat]
Pcs == {"idle", "select", "profile", "reselect", "loaded", "refuse", "pay", "debit",
        "write", "record"}
Job == [pc : Pcs, call : Call, snap : Row, current : Row]

-----------------------------------------------------------------------------
(* Balances.                                                               *)

Max0(n) == IF n > 0 THEN n ELSE 0
(* Number(x.toFixed(2)) of a percentage of n cents.                        *)
Rounded(n, pct) == (n * pct + 50) \div 100

(* A total divided anew into the buckets; the liquid one gets the rest.    *)
Divided(r, total) ==
  LET y == Rounded(total, Allocation.yield)
      s == Rounded(total, Allocation.reserve)
      p == Rounded(total, Allocation.payments)
  IN [r EXCEPT !.total = total, !.yield = y, !.reserve = s, !.payments = p,
               !.liquid = Max0(total - y - s - p)]

(* What patchVault makes of the current row: the columns of the patch are  *)
(* computed from the row the handler read first, the others are kept.      *)
Bug_total_forgotten(c, snap, cur) ==
  IF snap.reserve >= c.amount
  THEN [cur EXCEPT !.total = cur.total, !.reserve = snap.reserve - c.amount,
                   !.liquid = snap.liquid]
  ELSE [cur EXCEPT !.total = cur.total, !.reserve = 0,
                   !.liquid = Max0(snap.liquid - (c.amount - snap.reserve))]
PaidFrom(c, snap, cur) ==
  IF snap.reserve >= c.amount
  THEN [cur EXCEPT !.total = snap.total - c.amount, !.reserve = snap.reserve - c.amount,
                   !.liquid = snap.liquid]
  ELSE [cur EXCEPT !.total = snap.total - c.amount, !.reserve = 0,
                   !.liquid = Max0(snap.liquid - (c.amount - snap.reserve))]
Patched(c, snap, cur) ==
  CASE c.op = "execute" -> PaidFrom(c, snap, cur)
    [] c.op = "topup"   -> Divided(cur, snap.total + c.amount)
    [] c.op = "stake"   -> [cur EXCEPT !.total = snap.total - c.amount,
                                       !.yield = snap.yield - c.amount]

Interest(r, hours) == IF r.yield > 0 THEN HourlyYield * hours ELSE 0

(* Reserve ratio below the given percentage; an empty vault's is 0.        *)
RatioBelow(r, pct) == r.total <= 0 \/ r.reserve * 100 < pct * r.total

-----------------------------------------------------------------------------
(* Scheduling.                                                             *)

NoCall == [op |-> "view", payment |-> NoPayment, amount |-> 0]
OpeningRow ==
  Divided([total |-> 0, yield |-> 0, reserve |-> 0, liquid |-> 0, payments |-> 0,
           accruedAt |-> 0], OpeningTotal)
Idle == [pc |-> "idle", call |-> NoCall, snap |-> OpeningRow, current |-> OpeningRow]

Active(r) == job[r].pc # "idle"
Quiet == \A r \in Requests : ~Active(r)
(* A handler that awaits leaves its server to others.                      *)
Awaiting(r) == job[r].pc \in {"idle", "profile", "loaded"}
At(r, pc) ==
  /\ job[r].pc = pc
  /\ \A q \in Requests \ {r} : server[q] = server[r] => Awaiting(q)
Goes(r, pc) == job' = [job EXCEPT ![r].pc = pc]
Ends(r) == job' = [job EXCEPT ![r] = Idle]

(* Two writers that patch different columns at once, or two handlers one   *)
(* of which may have interest to write.                                    *)
Writes(r) == Active(r) /\ job[r].call.op # "view"
MixedNow ==
  \E q, r \in Requests :
    /\ q # r /\ Active(q) /\ Active(r)
    /\ \/ hour > row.accruedAt
       \/ Writes(q) /\ Writes(r) /\ job[q].call.op # job[r].call.op

(* Keeps the history of overlaps along every step.                         *)
Watch ==
  /\ overlapped' = (overlapped \/ Cardinality({r \in Requests : Active(r)'}) > 1)
  /\ mixed' = (mixed \/ MixedNow' \/ (hour' # hour /\ ~Quiet))

-----------------------------------------------------------------------------
(* The handlers.                                                           *)

(* A request reaches its server.  The x402 route inserts its payment first *)
(* and then executes it; the other routes execute existing ones.           *)
Arrive(r, c) ==
  /\ At(r, "idle")
  /\ calls < MaxCalls /\ calls' = calls + 1
  /\ job' = [job EXCEPT ![r] = [Idle EXCEPT !.pc = "select", !.call = c]]
  /\ UNCHANGED <<hour, crashes, completions, earned, collided>>

execute(r, p) ==
  /\ Arrive(r, [op |-> "execute", payment |-> p, amount |-> info[p].amount])
  /\ status[p] # "none"
  /\ UNCHANGED db
  /\ Watch
x402(r, p) ==
  /\ Arrive(r, [op |-> "execute", payment |-> p, amount |-> info[p].amount])
  /\ info[p].kind = "x402" /\ info[p].priority = "high" /\ status[p] = "none"
  /\ status' = [status EXCEPT ![p] = "scheduled"]
  /\ UNCHANGED <<row, settlements, payouts, deposited, staked>>
  /\ Watch
topup(r, amount) ==
  /\ Arrive(r, [op |-> "topup", payment |-> NoPayment, amount |-> amount])
  /\ amount > 0
  /\ UNCHANGED db
  /\ Watch
stake(r, amount) ==
  /\ Arrive(r, [op |-> "stake", payment |-> NoPayment, amount |-> amount])
  /\ amount > 0
  /\ UNCHANGED db
  /\ Watch
view(r) ==
  /\ Arrive(r, NoCall)
  /\ UNCHANGED db
  /\ Watch

(* createPayment, for a payment entered by hand: one INSERT.               *)
createPayment(p) ==
  /\ status[p] = "none"
  /\ status' = [status EXCEPT ![p] = "scheduled"]
  /\ UNCHANGED <<row, settlements, payouts, deposited, staked,
                 hour, job, calls, crashes, completions, earned, collided>>
  /\ Watch

(* ensureWalletProfile finds the profile; its caller awaits the answer.    *)
ensureWalletProfile(r) ==
  /\ At(r, "select")
  /\ job' = [job EXCEPT ![r].pc = "profile", ![r].snap = row]
  /\ UNCHANGED <<db, hour, calls, crashes, completions, earned, collided>>
  /\ Watch

(* accrueYieldOnProfile writes the interest due since the row it was given *)
(* was last accrued, on top of the balances in that row, and reads again.  *)
Accrues(r) == job[r].call.op # "topup" /\ hour > job[r].snap.accruedAt
accrueYield(r) ==
  LET snap == job[r].snap
      interest == Interest(snap, hour - snap.accruedAt)
  IN
  /\ At(r, "profile") /\ Accrues(r)
  /\ row' = [row EXCEPT !.yield = snap.yield + interest, !.total = snap.total + interest,
                        !.accruedAt = hour]
  /\ earned' = earned + interest
  /\ Goes(r, "reselect")
  /\ UNCHANGED <<status, settlements, payouts, deposited, staked,
                 hour, calls, crashes, completions, collided>>
  /\ Watch

(* The state handed to the caller, who awaits it: the row as first read    *)
(* or, after an accrual, as read again.                                    *)
getProtocolState(r) ==
  /\ \/ At(r, "profile") /\ ~Accrues(r) /\ job[r].call.op # "topup"
        /\ job' = [job EXCEPT ![r].pc = "loaded"]
     \/ At(r, "reselect")
        /\ job' = [job EXCEPT ![r].pc = "loaded", ![r].snap = row]
  /\ UNCHANGED <<db, hour, calls, crashes, completions, earned, collided>>
  /\ Watch

(* A request that only reads is answered.                                  *)
Answer(r) ==
  /\ At(r, "loaded") /\ job[r].call.op = "view"
  /\ Ends(r)
  /\ UNCHANGED <<db, hour, calls, crashes, completions, earned, collided>>
  /\ Watch

(* demo-topup needs only the profile, the staking route enough yield.      *)
Bug_unchecked_stake(c, snap) == TRUE
Stakeable(c, snap) == c.amount <= snap.yield
Deposits(r) ==
  /\ At(r, "profile") /\ job[r].call.op = "topup"
  /\ Goes(r, "debit")
  /\ UNCHANGED <<db, hour, calls, crashes, completions, earned, collided>>
  /\ Watch
StakesOrRefuses(r) ==
  /\ At(r, "loaded") /\ job[r].call.op = "stake"
  /\ IF Stakeable(job[r].call, job[r].snap) THEN Goes(r, "debit") ELSE Ends(r)
  /\ UNCHANGED <<db, hour, calls, crashes, completions, earned, collided>>
  /\ Watch

-----------------------------------------------------------------------------
(* executePaymentForWallet, from the state it awaited on.  It reads the    *)
(* payment's amount, kind and priority, never its status.                  *)

Executing(r) == At(r, "loaded") /\ job[r].call.op = "execute"
pay(r) == job[r].call.payment
snapshot(r) == job[r].snap

(* The policy may ask for manual approval of a payment above the limit.    *)
MayRequireApproval(p) == info[p].amount > MANUAL_APPROVAL_ABOVE
(* routeExecution: what is optional waits below a reserve of 12 percent;   *)
(* what is urgent does not wait otherwise; the rest may go either way.     *)
MustWait(p, s) == RatioBelow(s, 12) /\ info[p].priority # "high"
MayWait(p, s) == info[p].priority # "high"
Short(p, s) == info[p].amount > s.reserve + s.liquid
(* settleX402Payment                                                       *)
Blocked(p, s) ==
  \/ ~info[p].allowlisted
  \/ info[p].amount > info[p].maxSpend
  \/ RatioBelow(s, 15)
(* The settlement's verdict decides whether the payment goes on.           *)
Bug_verdict_ignored(p, s) == "pay"
AfterSettlement(p, s) == IF Blocked(p, s) THEN "refuse" ELSE "pay"

RequireApproval(r) ==
  /\ Executing(r) /\ MayRequireApproval(pay(r))
  /\ Ends(r)
  /\ UNCHANGED <<db, hour, calls, crashes, completions, earned, collided>>
  /\ Watch

Queue(r) ==
  /\ Executing(r) /\ MayWait(pay(r), snapshot(r))
  /\ status' = [status EXCEPT ![pay(r)] = "queued"]
  /\ Ends(r)
  /\ UNCHANGED <<row, settlements, payouts, deposited, staked,
                 hour, calls, crashes, completions, earned, collided>>
  /\ Watch

Proceeds(r) == Executing(r) /\ ~MustWait(pay(r), snapshot(r))

FailShort(r) ==
  /\ Proceeds(r) /\ Short(pay(r), snapshot(r))
  /\ status' = [status EXCEPT ![pay(r)] = "failed"]
  /\ Ends(r)
  /\ UNCHANGED <<row, settlements, payouts, deposited, staked,
                 hour, calls, crashes, completions, earned, collided>>
  /\ Watch

(* recordX402Settlement, the verdict settled or blocked.                   *)
recordX402Settlement(r) ==
  LET p == pay(r) IN
  /\ Proceeds(r) /\ ~Short(p, snapshot(r)) /\ info[p].kind = "x402"
  /\ settlements' = IF Blocked(p, snapshot(r)) THEN settlements
                    ELSE [settlements EXCEPT ![p] = @ + 1]
  /\ Goes(r, AfterSettlement(p, snapshot(r)))
  /\ UNCHANGED <<row, status, payouts, deposited, staked,
                 hour, calls, crashes, completions, earned, collided>>
  /\ Watch

Refuse(r) ==
  /\ At(r, "refuse")
  /\ status' = [status EXCEPT ![pay(r)] = "failed"]
  /\ Ends(r)
  /\ UNCHANGED <<row, settlements, payouts, deposited, staked,
                 hour, calls, crashes, completions, earned, collided>>
  /\ Watch

(* patchPayment marks the payment completed before anything is debited.    *)
Complete(r) ==
  /\ \/ At(r, "pay")
     \/ Proceeds(r) /\ ~Short(pay(r), snapshot(r)) /\ info[pay(r)].kind # "x402"
  /\ status' = [status EXCEPT ![pay(r)] = "completed"]
  /\ completions' = [completions EXCEPT ![pay(r)] = @ + 1]
  /\ Goes(r, "debit")
  /\ UNCHANGED <<row, settlements, payouts, deposited, staked,
                 hour, calls, crashes, earned, collided>>
  /\ Watch

-----------------------------------------------------------------------------
(* patchVault and recordTransaction, shared by the writing handlers.       *)

patchVaultReads(r) ==
  /\ At(r, "debit")
  /\ job' = [job EXCEPT ![r].pc = "write", ![r].current = row]
  /\ UNCHANGED <<db, hour, calls, crashes, completions, earned, collided>>
  /\ Watch

(* The UPDATE sets every balance and leaves last_yield_accrual_at alone.   *)
Bug_unrecorded(op) == IF op = "execute" THEN "idle" ELSE "record"
AfterWrite(op) == "record"
patchVaultWrites(r) ==
  LET j == job[r] IN
  /\ At(r, "write")
  /\ row' = [Patched(j.call, j.snap, j.current) EXCEPT !.accruedAt = row.accruedAt]
  /\ Goes(r, AfterWrite(j.call.op))
  /\ UNCHANGED <<status, settlements, payouts, deposited, staked,
                 hour, calls, crashes, completions, earned, collided>>
  /\ Watch

(* A deposit or a stake is answered with the state read afresh; a payout's *)
(* id holds only the payment and the second, so its row may be refused.    *)
recordTransaction(r) ==
  LET c == job[r].call IN
  /\ At(r, "record")
  /\ \/ /\ c.op = "execute"
        /\ payouts' = [payouts EXCEPT ![c.payment] = @ + 1]
        /\ Ends(r)
        /\ UNCHANGED <<deposited, staked, collided>>
     \/ /\ c.op = "execute" /\ payouts[c.payment] > 0
        /\ Ends(r)
        /\ collided' = TRUE
        /\ UNCHANGED <<payouts, deposited, staked>>
     \/ /\ c.op = "topup"
        /\ deposited' = deposited + c.amount
        /\ job' = [job EXCEPT ![r] = [Idle EXCEPT !.pc = "select"]]
        /\ UNCHANGED <<payouts, staked, collided>>
     \/ /\ c.op = "stake"
        /\ staked' = staked + c.amount
        /\ job' = [job EXCEPT ![r] = [Idle EXCEPT !.pc = "select"]]
        /\ UNCHANGED <<payouts, deposited, collided>>
  /\ UNCHANGED <<row, status, settlements, hour, calls, crashes, completions, earned>>
  /\ Watch

-----------------------------------------------------------------------------
(* The environment.                                                        *)

(* A server dies: what its handlers had still to do is never done.         *)
Crash(s) ==
  /\ crashes < MaxCrashes /\ crashes' = crashes + 1
  /\ \E r \in Requests : server[r] = s /\ Active(r)
  /\ job' = [r \in Requests |-> IF server[r] = s THEN Idle ELSE job[r]]
  /\ UNCHANGED <<db, hour, calls, completions, earned, collided>>
  /\ Watch

Tick ==
  /\ hour < MaxHour /\ hour' = hour + 1
  /\ UNCHANGED <<db, job, calls, crashes, completions, earned, collided>>
  /\ Watch

Init ==
  /\ row = OpeningRow
  /\ status = [p \in Payments |-> IF p \in Existing THEN "scheduled" ELSE "none"]
  /\ settlements = [p \in Payments |-> 0]
  /\ payouts = [p \in Payments |-> 0]
  /\ deposited = 0 /\ staked = 0
  /\ hour = 0
  /\ job = [r \in Requests |-> Idle]
  /\ calls = 0 /\ crashes = 0
  /\ completions = [p \in Payments |-> 0]
  /\ earned = 0
  /\ overlapped = FALSE /\ mixed = FALSE /\ collided = FALSE

Request(r) ==
  \/ \E p \in Payments : execute(r, p) \/ x402(r, p)
  \/ \E amount \in TopUps : topup(r, amount)
  \/ \E amount \in Stakes : stake(r, amount)
  \/ view(r)

Handler(r) ==
  \/ ensureWalletProfile(r) \/ accrueYield(r) \/ getProtocolState(r) \/ Answer(r)
  \/ Deposits(r) \/ StakesOrRefuses(r)
  \/ RequireApproval(r) \/ Queue(r) \/ FailShort(r)
  \/ recordX402Settlement(r) \/ Refuse(r) \/ Complete(r)
  \/ patchVaultReads(r) \/ patchVaultWrites(r) \/ recordTransaction(r)

Next ==
  \/ \E r \in Requests : Request(r) \/ Handler(r)
  \/ \E p \in Payments : createPayment(p)
  \/ \E s \in Servers : Crash(s)
  \/ Tick

Spec == Init /\ [][Next]_vars

-----------------------------------------------------------------------------
(* What the service promises.                                              *)

PaidOut ==
  SumFunctionOnSet([p \in Payments |-> payouts[p] * info[p].amount], Payments)

(* Every variable has its type; in particular a patch never stores a       *)
(* negative liquid balance, and no other bucket is overdrawn while only    *)
(* handlers of one kind overlap and no interest is due.  (When they do not,*)
(* the total can become negative, and a deposit then divides it.)          *)
EngineTypeOK ==
  /\ row \in Row
  /\ ~mixed => row.yield >= 0 /\ row.reserve >= 0 /\ row.payments >= 0
  /\ status \in [Payments -> Statuses]
  /\ settlements \in [Payments -> Nat] /\ payouts \in [Payments -> Nat]
  /\ deposited \in Nat /\ staked \in Nat
  /\ hour \in 0..MaxHour /\ calls \in 0..MaxCalls /\ crashes \in 0..MaxCrashes
  /\ job \in [Requests -> Job]
  /\ completions \in [Payments -> Nat] /\ earned \in Nat
  /\ overlapped \in BOOLEAN /\ mixed \in BOOLEAN /\ collided \in BOOLEAN

(* An x402 payment is marked completed only after the settlement that      *)
(* allowed it was recorded, a settlement of its own for each time it is    *)
(* completed, whatever overlaps or dies in between.                        *)
SettledBeforeCompleted ==
  \A p \in Payments : info[p].kind = "x402" => completions[p] <= settlements[p]

(* Unless a server died or an id collided, a payment that shows completed  *)
(* when no handler runs has a transaction on the books for every time it   *)
(* was completed.                                                          *)
CompletedIsRecorded ==
  Quiet /\ crashes = 0 /\ ~collided
  => \A p \in Payments : payouts[p] = completions[p]

(* Handlers may overlap and overwrite each other's debits, and a server    *)
(* may die anywhere, but as long as only handlers of one kind overlap and  *)
(* no interest is due, the buckets hold the total and at most a cent more, *)
(* to which the shares are rounded up: an update is lost as a whole.       *)
Balanced(r) == r.yield + r.reserve + r.liquid + r.payments - r.total \in {0, 1}
RowBalanced == ~mixed => Balanced(row)

(* Without overlap, crash or collision the total is the opening balance,   *)
(* the deposits and the interest, less every payout and stake on record.   *)
AuditTrail ==
  Quiet /\ ~overlapped /\ crashes = 0 /\ ~collided
  => row.total = OpeningTotal + deposited + earned - PaidOut - staked

(* "Check idempotency [...] Payment has already been executed (duplicate   *)
(* prevention)" (src/lib/paymentAdapter.ts:44-46): a payment is paid once. *)
PaidOnce == \A p \in Payments : payouts[p] <= 1

=============================================================================
