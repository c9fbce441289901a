------------------------ MODULE PaymentEngine_proofs ------------------------
(***************************************************************************)
(* Proofs about PaymentEngine, for any slots, servers and payments, any    *)
(* amounts and allocation, any number of calls, crashes and hours.         *)
(***************************************************************************)
EXTENDS PaymentEngine, SumLemmas

-----------------------------------------------------------------------------
(* Rounding a share to the cent, and dividing a total anew.                *)

LEMMA RoundedIsNumber ==
  ASSUME NEW n \in Int, NEW pct \in 0..100
  PROVE  Rounded(n, pct) \in Int
<1>1. n * pct \in Int
  BY Z3
<1>2. ASSUME NEW x \in Int PROVE (x + 50) \div 100 \in Int
  BY Z3
<1> QED
  BY <1>1, <1>2 DEF Rounded

LEMMA RoundedBounds ==
  ASSUME NEW n \in Nat, NEW pct \in 0..100
  PROVE  /\ n * pct \in Nat /\ Rounded(n, pct) \in Nat
         /\ 100 * Rounded(n, pct) <= n * pct + 50
<1>1. n * pct \in Nat
  BY Z3
<1>2. ASSUME NEW x \in Nat
      PROVE  (x + 50) \div 100 \in Nat /\ 100 * ((x + 50) \div 100) <= x + 50
  BY Z3
<1> QED
  BY <1>1, <1>2 DEF Rounded

LEMMA SharesOfWhole ==
  ASSUME NEW n \in Nat, NEW y \in Nat, NEW s \in Nat, NEW p \in Nat, y + s + p <= 100
  PROVE  n * y + n * s + n * p <= 100 * n
<1>1. n * y + n * s + n * p = n * (y + s + p)
  BY Z3
<1>2. n * (y + s + p) <= n * 100
  BY Z3
<1> QED
  BY <1>1, <1>2, Z3

(* Three shares that are rounded up by half a cent each exceed the total   *)
(* by one cent at most.                                                    *)
LEMMA SharesFit ==
  ASSUME NEW total \in Nat
  PROVE  Rounded(total, Allocation.yield) + Rounded(total, Allocation.reserve)
           + Rounded(total, Allocation.payments) <= total + 1
<1> DEFINE a == Allocation.yield
           b == Allocation.reserve
           c == Allocation.payments
<1>1. a \in 0..100 /\ b \in 0..100 /\ c \in 0..100 /\ a + b + c <= 100
  <2> DEFINE d == Allocation.liquid
  <2>1. a \in 0..100 /\ b \in 0..100 /\ c \in 0..100 /\ d \in 0..100
    BY AmountsAssumption
  <2>2. a + b + d + c = 100
    BY AmountsAssumption
  <2> HIDE DEF a, b, c, d
  <2> QED BY <2>1, <2>2
<1> HIDE DEF a, b, c
<1> DEFINE y == Rounded(total, a)
           s == Rounded(total, b)
           p == Rounded(total, c)
<1>2. /\ y \in Nat /\ 100 * y <= total * a + 50 /\ total * a \in Nat
      /\ s \in Nat /\ 100 * s <= total * b + 50 /\ total * b \in Nat
      /\ p \in Nat /\ 100 * p <= total * c + 50 /\ total * c \in Nat
  BY <1>1, RoundedBounds
<1>3. total * a + total * b + total * c <= 100 * total
  BY <1>1, SharesOfWhole
<1>4. y + s + p <= total + 1
  <2> HIDE DEF y, s, p
  <2>1. ASSUME NEW u \in Nat, NEW v \in Nat, NEW w \in Nat, u + v + w <= 100 * total,
               100 * y <= u + 50, 100 * s <= v + 50, 100 * p <= w + 50
        PROVE  y + s + p <= total + 1
    BY <1>2, <2>1
  <2> QED BY <1>2, <1>3, <2>1
<1> QED
  BY <1>4 DEF a, b, c

(* The buckets hold the total, and none of them is overdrawn.              *)
Sound(r) == Balanced(r) /\ r.yield >= 0 /\ r.reserve >= 0 /\ r.payments >= 0

LEMMA Columns ==
  ASSUME NEW r \in Row
  PROVE  /\ r.total \in Int /\ r.yield \in Int /\ r.reserve \in Int /\ r.payments \in Int
         /\ r.liquid \in Nat /\ r.accruedAt \in 0..MaxHour
BY DEF Row

LEMMA DivisionIsSound ==
  ASSUME NEW r \in Row, NEW total \in Int
  PROVE  /\ Divided(r, total) \in Row /\ Divided(r, total).total = total
         /\ Divided(r, total).accruedAt = r.accruedAt
         /\ total >= 0 => Sound(Divided(r, total))
<1> DEFINE y == Rounded(total, Allocation.yield)
           s == Rounded(total, Allocation.reserve)
           p == Rounded(total, Allocation.payments)
           l == Max0(total - y - s - p)
           t == Divided(r, total)
<1>1. /\ Allocation.yield \in 0..100 /\ Allocation.reserve \in 0..100
      /\ Allocation.payments \in 0..100
  BY AmountsAssumption
<1>2. y \in Int /\ s \in Int /\ p \in Int
  BY <1>1, RoundedIsNumber
<1>3. t = [r EXCEPT !.total = total, !.yield = y, !.reserve = s, !.payments = p, !.liquid = l]
  BY DEF Divided
<1>4. total >= 0 => y >= 0 /\ s >= 0 /\ p >= 0 /\ y + s + p <= total + 1
  <2> SUFFICES ASSUME total >= 0 PROVE y >= 0 /\ s >= 0 /\ p >= 0 /\ y + s + p <= total + 1
    OBVIOUS
  <2>1. total \in Nat
    OBVIOUS
  <2>2. y \in Nat /\ s \in Nat /\ p \in Nat
    BY <1>1, <2>1, RoundedBounds
  <2>3. y + s + p <= total + 1
    BY <2>1, SharesFit
  <2> HIDE DEF y, s, p
  <2> QED BY <2>2, <2>3
<1>5. l \in Nat /\ (total >= 0 => y + s + l + p - total \in {0, 1})
  <2> HIDE DEF y, s, p
  <2> QED BY <1>2, <1>4 DEF Max0
<1> HIDE DEF y, s, p, l, t
<1>6. /\ t \in Row /\ t.total = total /\ t.yield = y /\ t.reserve = s /\ t.payments = p
      /\ t.liquid = l /\ t.accruedAt = r.accruedAt
  BY <1>2, <1>3, <1>5 DEF Row
<1>7. total >= 0 => Sound(t)
  BY <1>2, <1>4, <1>5, <1>6 DEF Sound, Balanced
<1> QED
  BY <1>6, <1>7 DEF t

-----------------------------------------------------------------------------
(* What a patch makes of a row.  Each writer leaves some columns as it     *)
(* finds them, and takes the others from what it read first.               *)

Kept(op, a, b) ==
  /\ op = "execute" => a.yield = b.yield /\ a.payments = b.payments
  /\ op = "stake"   => a.reserve = b.reserve /\ a.liquid = b.liquid /\ a.payments = b.payments
Affordable(c, snap) ==
  /\ c.op = "execute" => c.amount <= snap.reserve + snap.liquid
  /\ c.op = "stake"   => c.amount <= snap.yield
  /\ c.op = "topup"   => c.amount > 0
Change(c) == IF c.op = "topup" THEN c.amount ELSE 0 - c.amount

LEMMA CallFields ==
  ASSUME NEW c \in Call
  PROVE  c.op \in Ops /\ c.payment \in Payments \cup {NoPayment} /\ c.amount \in Nat
BY DEF Call

LEMMA PaymentPatch ==
  ASSUME NEW c \in Call, NEW snap \in Row, NEW cur \in Row, c.op = "execute"
  PROVE  /\ PaidFrom(c, snap, cur) \in Row
         /\ PaidFrom(c, snap, cur).total = snap.total - c.amount
         /\ Kept("execute", PaidFrom(c, snap, cur), cur)
         /\ Sound(snap) /\ Kept("execute", snap, cur) /\ c.amount <= snap.reserve + snap.liquid
              => Sound(PaidFrom(c, snap, cur))
<1> DEFINE t == PaidFrom(c, snap, cur)
           total == snap.total - c.amount
<1>0. c.amount \in Nat
  BY CallFields
<1>c. /\ snap.total \in Int /\ snap.yield \in Int /\ snap.reserve \in Int /\ snap.payments \in Int
      /\ snap.liquid \in Nat /\ cur.yield \in Int /\ cur.payments \in Int
  BY Columns
<1>1. CASE snap.reserve >= c.amount
  <2> DEFINE reserve == snap.reserve - c.amount
             liquid == snap.liquid
  <2>1. t = [cur EXCEPT !.total = total, !.reserve = reserve, !.liquid = liquid]
    BY <1>1 DEF PaidFrom
  <2>2. total \in Int /\ reserve \in Int /\ liquid \in Nat
    BY <1>0, <1>c
  <2> HIDE DEF t, total, reserve, liquid
  <2>3. /\ t \in Row /\ t.total = total /\ t.yield = cur.yield /\ t.reserve = reserve
        /\ t.payments = cur.payments /\ t.liquid = liquid
    BY <2>1, <2>2 DEF Row
  <2>4. Sound(snap) /\ Kept("execute", snap, cur) => Sound(t)
    BY <1>0, <1>1, <1>c, <2>3 DEF Sound, Balanced, Kept, total, reserve, liquid
  <2> QED BY <2>3, <2>4 DEF t, total, Kept
<1>2. CASE ~(snap.reserve >= c.amount)
  <2> DEFINE reserve == 0
             liquid == Max0(snap.liquid - (c.amount - snap.reserve))
  <2>1. t = [cur EXCEPT !.total = total, !.reserve = reserve, !.liquid = liquid]
    BY <1>2 DEF PaidFrom
  <2>2. total \in Int /\ reserve \in Int /\ liquid \in Nat
    BY <1>0, <1>c DEF Max0
  <2>5. c.amount <= snap.reserve + snap.liquid => liquid = snap.liquid - (c.amount - snap.reserve)
    BY <1>0, <1>c DEF Max0
  <2> HIDE DEF t, total, liquid
  <2>3. /\ t \in Row /\ t.total = total /\ t.yield = cur.yield /\ t.reserve = reserve
        /\ t.payments = cur.payments /\ t.liquid = liquid
    BY <2>1, <2>2 DEF Row
  <2>4. Sound(snap) /\ Kept("execute", snap, cur) /\ c.amount <= snap.reserve + snap.liquid
          => Sound(t)
    BY <1>0, <1>2, <1>c, <2>3, <2>5 DEF Sound, Balanced, Kept, total
  <2> QED BY <2>3, <2>4 DEF t, total, Kept
<1> QED
  BY <1>1, <1>2

LEMMA PatchOfCall ==
  ASSUME NEW c \in Call, NEW snap \in Row, NEW cur \in Row, c.op # "view"
  PROVE  /\ Patched(c, snap, cur) \in Row
         /\ Patched(c, snap, cur).total = snap.total + Change(c)
         /\ Kept(c.op, Patched(c, snap, cur), cur)
         /\ Sound(snap) /\ Kept(c.op, snap, cur) /\ Affordable(c, snap)
              => Sound(Patched(c, snap, cur))
<1>0. c.amount \in Nat /\ c.op \in {"execute", "topup", "stake"}
  BY CallFields DEF Ops
<1>c. /\ snap.total \in Int /\ snap.yield \in Int /\ snap.reserve \in Int /\ snap.payments \in Int
      /\ snap.liquid \in Nat /\ cur.reserve \in Int /\ cur.payments \in Int /\ cur.liquid \in Nat
  BY Columns
<1>1. CASE c.op = "execute"
  <2>1. Patched(c, snap, cur) = PaidFrom(c, snap, cur)
    BY <1>1 DEF Patched
  <2>2. snap.total - c.amount = snap.total + Change(c)
    BY <1>0, <1>1, <1>c DEF Change
  <2>3. Affordable(c, snap) => c.amount <= snap.reserve + snap.liquid
    BY <1>1 DEF Affordable
  <2> QED BY <1>1, <2>1, <2>2, <2>3, PaymentPatch
<1>2. CASE c.op = "topup"
  <2> DEFINE total == snap.total + c.amount
  <2>1. Patched(c, snap, cur) = Divided(cur, total)
    BY <1>2 DEF Patched
  <2>2. total \in Int /\ total = snap.total + Change(c)
    BY <1>0, <1>2, <1>c DEF Change
  <2>3. Sound(snap) /\ Affordable(c, snap) => total >= 0
    BY <1>0, <1>2, <1>c DEF Sound, Balanced, Affordable
  <2>4. Kept("topup", Patched(c, snap, cur), cur)
    BY DEF Kept
  <2> HIDE DEF total
  <2> QED BY <1>2, <2>1, <2>2, <2>3, <2>4, DivisionIsSound
<1>3. CASE c.op = "stake"
  <2> DEFINE t == Patched(c, snap, cur)
             total == snap.total - c.amount
             yield == snap.yield - c.amount
  <2>1. t = [cur EXCEPT !.total = total, !.yield = yield]
    BY <1>3 DEF Patched
  <2>2. total \in Int /\ yield \in Int /\ total = snap.total + Change(c)
    BY <1>0, <1>3, <1>c DEF Change
  <2> HIDE DEF t, total, yield
  <2>3. /\ t \in Row /\ t.total = total /\ t.yield = yield /\ t.reserve = cur.reserve
        /\ t.payments = cur.payments /\ t.liquid = cur.liquid
    BY <2>1, <2>2 DEF Row
  <2>4. Sound(snap) /\ Kept("stake", snap, cur) /\ c.amount <= snap.yield => Sound(t)
    BY <1>0, <1>c, <2>3 DEF Sound, Balanced, Kept, total, yield
  <2>5. Kept("stake", t, cur)
    BY <2>3 DEF Kept
  <2>6. Affordable(c, snap) => c.amount <= snap.yield
    BY <1>3 DEF Affordable
  <2> QED BY <1>3, <2>2, <2>3, <2>4, <2>5, <2>6 DEF t
<1> QED
  BY <1>0, <1>1, <1>2, <1>3

-----------------------------------------------------------------------------
(* Types, and what a handler is bound to at each of its statements.        *)

Typed ==
  /\ row \in Row /\ status \in [Payments -> Statuses]
  /\ settlements \in [Payments -> Nat] /\ payouts \in [Payments -> Nat]
  /\ deposited \in Nat /\ staked \in Nat
  /\ hour \in 0..MaxHour /\ calls \in 0..MaxCalls /\ crashes \in 0..MaxCrashes
  /\ job \in [Requests -> Job]
  /\ completions \in [Payments -> Nat] /\ earned \in Nat
  /\ overlapped \in BOOLEAN /\ mixed \in BOOLEAN /\ collided \in BOOLEAN

Fit(j) ==
  /\ j.call.op = "execute" =>
       j.call.payment \in Payments /\ j.call.amount = info[j.call.payment].amount
  /\ j.call.op = "topup" => j.call.amount > 0
  /\ j.pc \in {"refuse", "pay"} => j.call.op = "execute"
  /\ j.pc \in {"debit", "write", "record"} => j.call.op # "view"
  /\ j.pc \in {"refuse", "pay", "debit", "write"} => Affordable(j.call, j.snap)

TypeInv == Typed /\ \A r \in Requests : Fit(job[r])

LEMMA IdleJob ==
  /\ OpeningRow \in Row /\ OpeningRow.total = OpeningTotal /\ Sound(OpeningRow)
  /\ OpeningRow.accruedAt = 0
  /\ NoCall \in Call /\ NoCall.op = "view"
  /\ Idle \in Job /\ Idle.pc = "idle" /\ Idle.call = NoCall /\ Fit(Idle)
<1> DEFINE zero == [total |-> 0, yield |-> 0, reserve |-> 0, liquid |-> 0, payments |-> 0,
                    accruedAt |-> 0]
<1>1. zero \in Row /\ zero.accruedAt = 0 /\ OpeningTotal \in Nat
  BY AmountsAssumption, BoundsAssumption DEF Row
<1>2. OpeningRow = Divided(zero, OpeningTotal)
  BY DEF OpeningRow
<1> HIDE DEF zero
<1>3. /\ OpeningRow \in Row /\ OpeningRow.total = OpeningTotal /\ Sound(OpeningRow)
      /\ OpeningRow.accruedAt = 0
  BY <1>1, <1>2, DivisionIsSound
<1>4. NoCall \in Call /\ NoCall.op = "view"
  BY DEF NoCall, Call, Ops
<1>5. Idle \in Job /\ Idle.pc = "idle" /\ Idle.call = NoCall
  BY <1>3, <1>4 DEF Idle, Job, Pcs
<1>6. Fit(Idle)
  BY <1>4, <1>5 DEF Fit
<1> QED
  BY <1>3, <1>4, <1>5, <1>6

LEMMA JobFields ==
  ASSUME NEW j \in Job
  PROVE  j.pc \in Pcs /\ j.call \in Call /\ j.snap \in Row /\ j.current \in Row
BY DEF Job

(* A handler goes on to its next statement.                                *)
LEMMA Going ==
  ASSUME job \in [Requests -> Job], NEW r \in Requests, NEW pc \in Pcs, NEW j,
         j = [job[r] EXCEPT !.pc = pc]
  PROVE  /\ j \in Job /\ j.pc = pc /\ j.call = job[r].call /\ j.snap = job[r].snap
         /\ j.current = job[r].current
         /\ [job EXCEPT ![r].pc = pc] = [job EXCEPT ![r] = j]
<1>1. job[r] \in Job
  OBVIOUS
<1>2. /\ j \in Job /\ j.pc = pc /\ j.call = job[r].call /\ j.snap = job[r].snap
      /\ j.current = job[r].current
  BY <1>1 DEF Job
<1> QED
  BY <1>2

LEMMA Starting ==
  ASSUME NEW c \in Call, NEW j, j = [Idle EXCEPT !.pc = "select", !.call = c]
  PROVE  j \in Job /\ j.pc = "select" /\ j.call = c
BY IdleJob DEF Job, Pcs

-----------------------------------------------------------------------------
(* The shapes of a step: what it does to the handlers and to the books.    *)

Ledger == <<row, settlements, payouts, deposited, staked, completions, earned>>
Steady == UNCHANGED <<hour, crashes, collided>>
Passes(r, j) == j \in Job /\ Fit(j) /\ job' = [job EXCEPT ![r] = j]
Onward(r, j) == Passes(r, j) /\ j.call = job[r].call /\ j.snap = job[r].snap

(* Past the first read, and still nothing on the books.                    *)
Pending(j) == j.pc \in {"loaded", "refuse"} \/ (j.pc = "debit" /\ j.call.op # "execute")

Arrives(r) ==
  /\ UNCHANGED Ledger /\ Steady /\ job[r].pc = "idle"
  /\ \E j \in Job : Passes(r, j) /\ j.pc = "select"
Loads(r) ==
  /\ UNCHANGED Ledger /\ Steady /\ job[r].pc \in {"select", "reselect"}
  /\ \E j \in Job : Passes(r, j) /\ j.pc \in {"profile", "loaded"} /\ j.snap = row
Advances(r) ==
  /\ UNCHANGED Ledger /\ Steady /\ job[r].pc \in {"profile", "loaded"}
  /\ \E j \in Job : Onward(r, j) /\ Pending(j)
Leaves(r) ==
  /\ UNCHANGED Ledger /\ UNCHANGED <<hour, crashes>>
  /\ collided' \/ (collided' = collided /\ job[r].pc \in {"loaded", "refuse"})
  /\ Passes(r, Idle)
Earns(r) ==
  /\ UNCHANGED <<settlements, payouts, deposited, staked, completions>> /\ Steady
  /\ job[r].pc = "profile" /\ hour > job[r].snap.accruedAt
  /\ row' \in Row /\ (job[r].snap = row /\ Sound(row) => Sound(row'))
  /\ \E i \in Nat : earned' = earned + i /\ (row').total = job[r].snap.total + i
  /\ \E j \in Job : Onward(r, j) /\ j.pc = "reselect"
Settles(r) ==
  /\ UNCHANGED <<row, payouts, deposited, staked, completions, earned>> /\ Steady
  /\ job[r].pc = "loaded" /\ job[r].call.op = "execute" /\ job[r].call.payment \in Payments
  /\ settlements' = [settlements EXCEPT ![job[r].call.payment] = @ + 1]
  /\ \E j \in Job : Onward(r, j) /\ j.pc = "pay"
Completes(r) ==
  /\ UNCHANGED <<row, settlements, payouts, deposited, staked, earned>> /\ Steady
  /\ job[r].call.op = "execute" /\ job[r].call.payment \in Payments
  /\ \/ job[r].pc = "pay"
     \/ job[r].pc = "loaded" /\ info[job[r].call.payment].kind # "x402"
  /\ completions' = [completions EXCEPT ![job[r].call.payment] = @ + 1]
  /\ \E j \in Job : Onward(r, j) /\ j.pc = "debit"
Reads(r) ==
  /\ UNCHANGED Ledger /\ Steady /\ job[r].pc = "debit"
  /\ \E j \in Job : Onward(r, j) /\ j.pc = "write" /\ j.current = row
Stores(r) ==
  LET old == job[r] IN
  /\ UNCHANGED <<settlements, payouts, deposited, staked, completions, earned>> /\ Steady
  /\ old.pc = "write"
  /\ row' \in Row /\ (row').accruedAt = row.accruedAt
  /\ (row').total = old.snap.total + Change(old.call) /\ Kept(old.call.op, row', old.current)
  /\ Sound(old.snap) /\ Kept(old.call.op, old.snap, old.current) => Sound(row')
  /\ \E j \in Job : Onward(r, j) /\ j.pc = "record"
Records(r) ==
  LET c == job[r].call IN
  /\ UNCHANGED <<row, settlements, completions, earned>> /\ Steady
  /\ job[r].pc = "record"
  /\ \/ /\ c.op = "execute" /\ payouts' = [payouts EXCEPT ![c.payment] = @ + 1]
        /\ UNCHANGED <<deposited, staked>>
     \/ c.op = "topup" /\ deposited' = deposited + c.amount /\ UNCHANGED <<payouts, staked>>
     \/ c.op = "stake" /\ staked' = staked + c.amount /\ UNCHANGED <<payouts, deposited>>
  /\ \E j \in Job : Passes(r, j) /\ j.pc \in {"idle", "select"}
Dies ==
  /\ UNCHANGED Ledger /\ UNCHANGED <<hour, collided>> /\ crashes' = crashes + 1
  /\ job' \in [Requests -> Job] /\ \A q \in Requests : job'[q] = job[q] \/ job'[q] = Idle
Ticks == UNCHANGED Ledger /\ UNCHANGED <<crashes, collided, job>> /\ hour' # hour
Rests == UNCHANGED Ledger /\ Steady /\ UNCHANGED job

Shape ==
  \/ \E r \in Requests :
       \/ Arrives(r) \/ Loads(r) \/ Advances(r) \/ Leaves(r) \/ Earns(r) \/ Settles(r)
       \/ Completes(r) \/ Reads(r) \/ Stores(r) \/ Records(r)
  \/ Dies \/ Ticks \/ Rests

(* The variables no shape speaks of.                                       *)
Side ==
  /\ status \in [Payments -> Statuses] /\ hour \in 0..MaxHour /\ calls \in 0..MaxCalls
  /\ crashes \in 0..MaxCrashes /\ collided \in BOOLEAN

LEMMA SideStays ==
  ASSUME Typed
  PROVE  /\ UNCHANGED <<status, hour, calls, crashes, collided>> => Side'
         /\ \A p \in Payments, s \in Statuses :
              status' = [status EXCEPT ![p] = s] /\ UNCHANGED <<hour, calls, crashes, collided>>
                => Side'
BY DEF Typed, Side

LEMMA PaymentsHaveInfo ==
  ASSUME NEW p \in Payments
  PROVE  info[p].amount \in Nat /\ info[p].kind \in {"bill", "x402"}
BY PaymentsAssumption

LEMMA ArrivalShape ==
  ASSUME TypeInv, NEW r \in Requests, NEW c \in Call, Arrive(r, c),
         row' = row, settlements' = settlements, payouts' = payouts, deposited' = deposited,
         staked' = staked,
         c.op = "execute" => c.payment \in Payments /\ c.amount = info[c.payment].amount,
         c.op = "topup" => c.amount > 0
  PROVE  Arrives(r) /\ hour' \in 0..MaxHour /\ calls' \in 0..MaxCalls /\ crashes' \in 0..MaxCrashes
         /\ collided' \in BOOLEAN
<1> DEFINE j == [Idle EXCEPT !.pc = "select", !.call = c]
<1>1. job' = [job EXCEPT ![r] = j] /\ job[r].pc = "idle"
  BY DEF Arrive, At
<1>2. j = [Idle EXCEPT !.pc = "select", !.call = c]
  OBVIOUS
<1> HIDE DEF j
<1>3. j \in Job /\ j.pc = "select" /\ j.call = c
  BY <1>2, Starting
<1>4. Fit(j)
  BY <1>3 DEF Fit
<1>5. UNCHANGED Ledger /\ Steady
  BY DEF Arrive, Ledger, Steady
<1>6. hour' \in 0..MaxHour /\ crashes' \in 0..MaxCrashes /\ collided' \in BOOLEAN
  BY DEF Arrive, TypeInv, Typed
<1>7. calls' \in 0..MaxCalls
  BY BoundsAssumption DEF Arrive, TypeInv, Typed
<1> QED
  BY <1>1, <1>3, <1>4, <1>5, <1>6, <1>7 DEF Arrives, Passes

LEMMA RequestShape ==
  ASSUME TypeInv, NEW r \in Requests, Request(r)
  PROVE  Arrives(r) /\ Side'
<1>s. status \in [Payments -> Statuses]
  BY DEF TypeInv, Typed
<1>1. ASSUME NEW p \in Payments, execute(r, p) \/ x402(r, p) PROVE Arrives(r) /\ Side'
  <2> DEFINE c == [op |-> "execute", payment |-> p, amount |-> info[p].amount]
  <2>1. /\ Arrive(r, c) /\ row' = row /\ settlements' = settlements /\ payouts' = payouts
        /\ deposited' = deposited /\ staked' = staked
        /\ (status' = status \/ status' = [status EXCEPT ![p] = "scheduled"])
    BY <1>1 DEF execute, x402, db
  <2>2. c \in Call /\ c.op = "execute" /\ c.payment = p /\ c.amount = info[p].amount
    BY PaymentsHaveInfo DEF Call, Ops
  <2> HIDE DEF c
  <2>3. /\ Arrives(r) /\ hour' \in 0..MaxHour /\ calls' \in 0..MaxCalls
        /\ crashes' \in 0..MaxCrashes /\ collided' \in BOOLEAN
    BY <2>1, <2>2, ArrivalShape
  <2>4. status' \in [Payments -> Statuses]
    BY <1>s, <2>1 DEF Statuses
  <2> QED BY <2>3, <2>4 DEF Side
<1>2. ASSUME NEW amount \in Nat, topup(r, amount) \/ stake(r, amount) \/ view(r)
      PROVE  Arrives(r) /\ Side'
  <2>1. PICK c \in Call : /\ Arrive(r, c) /\ c.op # "execute" /\ (c.op = "topup" => c.amount > 0)
    <3>1. CASE topup(r, amount)
      <4> DEFINE c == [op |-> "topup", payment |-> NoPayment, amount |-> amount]
      <4>1. c \in Call /\ c.op = "topup" /\ c.amount = amount
        BY DEF Call, Ops
      <4> QED BY <3>1, <4>1 DEF topup
    <3>2. CASE stake(r, amount)
      <4> DEFINE c == [op |-> "stake", payment |-> NoPayment, amount |-> amount]
      <4>1. c \in Call /\ c.op = "stake"
        BY DEF Call, Ops
      <4> QED BY <3>2, <4>1 DEF stake
    <3>3. CASE view(r)
      BY <3>3, IdleJob DEF view
    <3> QED BY <1>2, <3>1, <3>2, <3>3
  <2>2. UNCHANGED db
    BY <1>2 DEF topup, stake, view
  <2>3. /\ Arrives(r) /\ hour' \in 0..MaxHour /\ calls' \in 0..MaxCalls
        /\ crashes' \in 0..MaxCrashes /\ collided' \in BOOLEAN
    BY <2>1, <2>2, ArrivalShape DEF db
  <2> QED BY <1>s, <2>2, <2>3 DEF Side, db
<1>3. TopUps \subseteq Nat /\ Stakes \subseteq Nat /\ 0 \in Nat
  BY AmountsAssumption
<1> QED
  BY <1>1, <1>2, <1>3 DEF Request

-----------------------------------------------------------------------------
(* The handlers' statements have these shapes.                             *)

LEMMA StillFits ==
  ASSUME NEW old \in Job, Fit(old), NEW j \in Job, j.call = old.call, j.snap = old.snap,
         j.pc \in {"refuse", "pay"} => old.call.op = "execute",
         j.pc \in {"debit", "write", "record"} => old.call.op # "view",
         j.pc \in {"refuse", "pay", "debit", "write"} => Affordable(old.call, old.snap)
  PROVE  Fit(j)
BY DEF Fit

LEMMA AtFields ==
  ASSUME TypeInv, NEW r \in Requests
  PROVE  /\ job \in [Requests -> Job] /\ job[r] \in Job /\ Fit(job[r]) /\ job[r].call \in Call
         /\ job[r].snap \in Row /\ job[r].current \in Row /\ row \in Row /\ Typed
         /\ hour \in Int /\ job[r].pc \in Pcs
BY JobFields, BoundsAssumption DEF TypeInv, Typed

LEMMA ReadShapes ==
  ASSUME TypeInv, NEW r \in Requests, ensureWalletProfile(r) \/ getProtocolState(r)
  PROVE  (Loads(r) \/ Advances(r)) /\ Side'
<1>1. Side' /\ UNCHANGED Ledger /\ Steady
  BY AtFields, SideStays DEF ensureWalletProfile, getProtocolState, db, Ledger, Steady
<1>2. CASE ensureWalletProfile(r) \/ (At(r, "reselect") /\ getProtocolState(r))
  <2>1. PICK pc \in {"profile", "loaded"} :
          /\ job[r].pc \in {"select", "reselect"}
          /\ job' = [job EXCEPT ![r].pc = pc, ![r].snap = row]
    BY <1>2 DEF ensureWalletProfile, getProtocolState, At
  <2> DEFINE j == [job[r] EXCEPT !.pc = pc, !.snap = row]
  <2>2. pc \in Pcs
    BY DEF Pcs
  <2>3. j = [job[r] EXCEPT !.pc = pc, !.snap = row]
    OBVIOUS
  <2> HIDE DEF j
  <2>4. /\ j \in Job /\ j.pc = pc /\ j.call = job[r].call /\ j.snap = row
        /\ job' = [job EXCEPT ![r] = j]
    <3>1. row \in Row /\ job \in [Requests -> Job] /\ job[r] \in Job
      BY AtFields
    <3>2. j \in Job /\ j.pc = pc /\ j.call = job[r].call /\ j.snap = row
      BY <2>2, <2>3, <3>1 DEF Job
    <3>3. [job EXCEPT ![r].pc = pc, ![r].snap = row] = [job EXCEPT ![r] = j]
      BY <2>3, <3>1 DEF Job
    <3> QED BY <2>1, <3>2, <3>3, Zenon
  <2>5. Fit(j)
    BY <2>4, AtFields DEF Fit
  <2> QED BY <1>1, <2>1, <2>4, <2>5 DEF Loads, Passes
<1>3. CASE getProtocolState(r) /\ ~At(r, "reselect")
  <2>1. job[r].pc = "profile" /\ job' = [job EXCEPT ![r].pc = "loaded"]
    BY <1>3 DEF getProtocolState, At
  <2> DEFINE j == [job[r] EXCEPT !.pc = "loaded"]
  <2>2. "loaded" \in Pcs
    BY DEF Pcs
  <2>3. j = [job[r] EXCEPT !.pc = "loaded"]
    OBVIOUS
  <2> HIDE DEF j
  <2>4. /\ j \in Job /\ j.pc = "loaded" /\ j.call = job[r].call /\ j.snap = job[r].snap
        /\ job' = [job EXCEPT ![r] = j]
    BY <2>1, <2>2, <2>3, AtFields, Going
  <2>5. Fit(j)
    BY <2>4, AtFields, StillFits
  <2>6. Onward(r, j) /\ Pending(j)
    BY <2>4, <2>5 DEF Onward, Passes, Pending
  <2> QED BY <1>1, <2>1, <2>4, <2>6 DEF Advances
<1> QED
  BY <1>2, <1>3

LEMMA InterestIsNumber ==
  ASSUME NEW v \in Row, NEW n \in Int, n > 0
  PROVE  Interest(v, n) \in Nat
<1>1. HourlyYield * n \in Nat
  BY AmountsAssumption, Z3
<1> QED
  BY <1>1 DEF Interest

LEMMA EarningShape ==
  ASSUME TypeInv, NEW r \in Requests, accrueYield(r)
  PROVE  Earns(r) /\ Side'
<1> DEFINE snap == job[r].snap
           i == Interest(snap, hour - snap.accruedAt)
           yield == snap.yield + i
           total == snap.total + i
           w == [row EXCEPT !.yield = yield, !.total = total, !.accruedAt = hour]
           j == [job[r] EXCEPT !.pc = "reselect"]
<1>1. /\ job[r].pc = "profile" /\ hour > snap.accruedAt /\ row' = w /\ earned' = earned + i
      /\ job' = [job EXCEPT ![r].pc = "reselect"]
      /\ UNCHANGED <<status, settlements, payouts, deposited, staked, hour, calls, crashes,
                     completions, collided>>
  BY DEF accrueYield, At, Accrues, Goes
<1>2. /\ snap \in Row /\ row \in Row /\ hour \in 0..MaxHour /\ hour \in Int
      /\ snap.accruedAt \in Int
  BY AtFields, Columns, BoundsAssumption DEF Typed
<1>3. i \in Nat
  <2> HIDE DEF snap
  <2>1. hour - snap.accruedAt \in Int /\ hour - snap.accruedAt > 0
    BY <1>1, <1>2
  <2> QED BY <1>2, <2>1, InterestIsNumber
<1>4. /\ w \in Row /\ w.total = total /\ w.yield = yield /\ w.reserve = row.reserve
      /\ w.liquid = row.liquid /\ w.payments = row.payments
  <2>1. yield \in Int /\ total \in Int
    <3> HIDE DEF i, snap
    <3> QED BY <1>2, <1>3, Columns
  <2>2. w = [row EXCEPT !.yield = yield, !.total = total, !.accruedAt = hour]
    OBVIOUS
  <2> HIDE DEF yield, total, w
  <2> QED BY <1>2, <2>1, <2>2 DEF Row
<1>5. snap = row /\ Sound(row) => Sound(w)
  <2> HIDE DEF i, snap, w
  <2> QED BY <1>2, <1>3, <1>4, Columns DEF Sound, Balanced
<1>6. "reselect" \in Pcs /\ j = [job[r] EXCEPT !.pc = "reselect"]
  BY DEF Pcs
<1> HIDE DEF j
<1>7. /\ j \in Job /\ j.pc = "reselect" /\ j.call = job[r].call /\ j.snap = job[r].snap
      /\ job' = [job EXCEPT ![r] = j]
  BY <1>1, <1>6, AtFields, Going
<1>8. Fit(j)
  BY <1>7, AtFields, StillFits
<1>9. Side'
  BY <1>1, AtFields, SideStays
<1> HIDE DEF w, i
<1> QED
  BY <1>1, <1>3, <1>4, <1>5, <1>7, <1>8, <1>9 DEF Earns, Steady, Onward, Passes

(* A handler that stops here without having changed the books.             *)
LEMMA LeavingShape ==
  ASSUME TypeInv, NEW r \in Requests, Ends(r), job[r].pc \in {"loaded", "refuse"},
         UNCHANGED <<row, settlements, payouts, deposited, staked, hour, calls, crashes,
                     completions, earned, collided>>,
         status' = status \/ \E p \in Payments, s \in Statuses : status' = [status EXCEPT ![p] = s]
  PROVE  Leaves(r) /\ Side'
<1>1. Side'
  BY AtFields, SideStays
<1>2. Passes(r, Idle)
  BY IdleJob DEF Ends, Passes
<1> QED
  BY <1>1, <1>2 DEF Leaves, Ledger

LEMMA AdvancingShape ==
  ASSUME TypeInv, NEW r \in Requests, NEW pc \in {"debit", "refuse"}, Goes(r, pc),
         job[r].pc \in {"profile", "loaded"},
         pc = "debit" => job[r].call.op \notin {"execute", "view"},
         pc = "refuse" => job[r].call.op = "execute", Affordable(job[r].call, job[r].snap),
         UNCHANGED <<row, status, settlements, payouts, deposited, staked, hour, calls, crashes,
                     completions, earned, collided>>
  PROVE  Advances(r) /\ Side'
<1> DEFINE j == [job[r] EXCEPT !.pc = pc]
<1>1. pc \in Pcs /\ j = [job[r] EXCEPT !.pc = pc]
  BY DEF Pcs
<1> HIDE DEF j
<1>2. /\ j \in Job /\ j.pc = pc /\ j.call = job[r].call /\ j.snap = job[r].snap
      /\ job' = [job EXCEPT ![r] = j]
  BY <1>1, AtFields, Going DEF Goes
<1>3. Fit(j)
  BY <1>2, AtFields, StillFits
<1>4. Side'
  BY AtFields, SideStays
<1> QED
  <2>1. Onward(r, j) /\ Pending(j)
    BY <1>2, <1>3 DEF Onward, Passes, Pending
  <2>2. UNCHANGED Ledger /\ Steady
    BY DEF Ledger, Steady
  <2> QED BY <1>2, <1>4, <2>1, <2>2 DEF Advances

LEMMA AnswerShape ==
  ASSUME TypeInv, NEW r \in Requests, Answer(r) \/ Deposits(r) \/ StakesOrRefuses(r)
  PROVE  (Leaves(r) \/ Advances(r)) /\ Side'
<1>1. UNCHANGED <<row, status, settlements, payouts, deposited, staked, hour, calls, crashes,
                  completions, earned, collided>>
  BY DEF Answer, Deposits, StakesOrRefuses, db
<1>2. CASE Answer(r) \/ (StakesOrRefuses(r) /\ ~Stakeable(job[r].call, job[r].snap))
  <2>1. job[r].pc = "loaded" /\ Ends(r)
    BY <1>2 DEF Answer, StakesOrRefuses, At
  <2> QED BY <1>1, <2>1, LeavingShape
<1>3. CASE Deposits(r)
  <2>1. job[r].pc = "profile" /\ job[r].call.op = "topup" /\ Goes(r, "debit")
    BY <1>3 DEF Deposits, At
  <2>2. Affordable(job[r].call, job[r].snap)
    BY <2>1, AtFields DEF Affordable, Fit
  <2> QED BY <1>1, <2>1, <2>2, AdvancingShape
<1>4. CASE StakesOrRefuses(r) /\ Stakeable(job[r].call, job[r].snap)
  <2>1. job[r].pc = "loaded" /\ job[r].call.op = "stake" /\ Goes(r, "debit")
    BY <1>4 DEF StakesOrRefuses, At
  <2>2. Affordable(job[r].call, job[r].snap)
    BY <1>4, <2>1 DEF Affordable, Stakeable
  <2> QED BY <1>1, <2>1, <2>2, AdvancingShape
<1> QED
  BY <1>2, <1>3, <1>4

(* The payment being executed.                                             *)
LEMMA ExecutedPayment ==
  ASSUME TypeInv, NEW r \in Requests, job[r].call.op = "execute"
  PROVE  /\ pay(r) \in Payments /\ pay(r) = job[r].call.payment
         /\ job[r].call.amount = info[pay(r)].amount
         /\ ~Short(pay(r), snapshot(r)) => Affordable(job[r].call, job[r].snap)
<1>1. pay(r) \in Payments /\ pay(r) = job[r].call.payment /\ job[r].call.amount = info[pay(r)].amount
  BY AtFields DEF Fit, pay
<1>2. /\ job[r].snap.reserve \in Int /\ job[r].snap.liquid \in Int /\ info[pay(r)].amount \in Int
  BY <1>1, AtFields, Columns, PaymentsHaveInfo
<1> QED
  BY <1>1, <1>2 DEF Short, snapshot, Affordable

LEMMA RefusingShape ==
  ASSUME TypeInv, NEW r \in Requests, RequireApproval(r) \/ Queue(r) \/ FailShort(r) \/ Refuse(r)
  PROVE  Leaves(r) /\ Side'
<1>1. /\ Ends(r) /\ job[r].pc \in {"loaded", "refuse"}
      /\ UNCHANGED <<row, settlements, payouts, deposited, staked, hour, calls, crashes,
                     completions, earned, collided>>
  BY DEF RequireApproval, Queue, FailShort, Refuse, Proceeds, Executing, At, db
<1>2. job[r].call.op = "execute"
  BY AtFields DEF RequireApproval, Queue, FailShort, Refuse, Proceeds, Executing, At, Fit
<1>3. status' = status \/ \E s \in Statuses : status' = [status EXCEPT ![pay(r)] = s]
  BY DEF RequireApproval, Queue, FailShort, Refuse, db, Statuses
<1> QED
  BY <1>1, <1>2, <1>3, ExecutedPayment, LeavingShape

LEMMA SettlingShape ==
  ASSUME TypeInv, NEW r \in Requests, recordX402Settlement(r)
  PROVE  (Settles(r) \/ Advances(r)) /\ Side'
<1>1. /\ job[r].pc = "loaded" /\ job[r].call.op = "execute" /\ ~Short(pay(r), snapshot(r))
      /\ UNCHANGED <<row, status, payouts, deposited, staked, hour, calls, crashes,
                     completions, earned, collided>>
  BY DEF recordX402Settlement, Proceeds, Executing, At
<1>2. pay(r) \in Payments /\ pay(r) = job[r].call.payment /\ Affordable(job[r].call, job[r].snap)
  BY <1>1, ExecutedPayment
<1>3. CASE Blocked(pay(r), snapshot(r))
  <2>1. settlements' = settlements /\ Goes(r, "refuse")
    BY <1>3 DEF recordX402Settlement, AfterSettlement
  <2> QED BY <1>1, <1>2, <2>1, AdvancingShape
<1>4. CASE ~Blocked(pay(r), snapshot(r))
  <2> DEFINE j == [job[r] EXCEPT !.pc = "pay"]
  <2>1. settlements' = [settlements EXCEPT ![pay(r)] = @ + 1] /\ Goes(r, "pay")
    BY <1>4 DEF recordX402Settlement, AfterSettlement
  <2>2. "pay" \in Pcs /\ j = [job[r] EXCEPT !.pc = "pay"]
    BY DEF Pcs
  <2> HIDE DEF j
  <2>3. /\ j \in Job /\ j.pc = "pay" /\ j.call = job[r].call /\ j.snap = job[r].snap
        /\ job' = [job EXCEPT ![r] = j]
    BY <2>1, <2>2, AtFields, Going DEF Goes
  <2>4. Fit(j)
    BY <1>1, <1>2, <2>3, AtFields, StillFits
  <2>5. Side'
    BY <1>1, AtFields, SideStays
  <2> QED BY <1>1, <1>2, <2>1, <2>3, <2>4, <2>5 DEF Settles, Steady, Onward, Passes
<1> QED
  BY <1>3, <1>4

LEMMA CompletingShape ==
  ASSUME TypeInv, NEW r \in Requests, Complete(r)
  PROVE  Completes(r) /\ Side'
<1> DEFINE j == [job[r] EXCEPT !.pc = "debit"]
<1>1. /\ status' = [status EXCEPT ![pay(r)] = "completed"]
      /\ completions' = [completions EXCEPT ![pay(r)] = @ + 1] /\ Goes(r, "debit")
      /\ UNCHANGED <<row, settlements, payouts, deposited, staked, hour, calls, crashes, earned,
                     collided>>
  BY DEF Complete
<1>2. \/ job[r].pc = "pay"
      \/ job[r].pc = "loaded" /\ job[r].call.op = "execute" /\ ~Short(pay(r), snapshot(r))
         /\ info[pay(r)].kind # "x402"
  BY DEF Complete, Proceeds, Executing, At
<1>3. job[r].call.op = "execute" /\ Affordable(job[r].call, job[r].snap)
  BY <1>2, AtFields, ExecutedPayment DEF Fit
<1>4. pay(r) \in Payments /\ pay(r) = job[r].call.payment
  BY <1>3, ExecutedPayment
<1>5. "debit" \in Pcs /\ j = [job[r] EXCEPT !.pc = "debit"]
  BY DEF Pcs
<1> HIDE DEF j
<1>6. /\ j \in Job /\ j.pc = "debit" /\ j.call = job[r].call /\ j.snap = job[r].snap
      /\ job' = [job EXCEPT ![r] = j]
  BY <1>1, <1>5, AtFields, Going DEF Goes
<1>7. Fit(j)
  BY <1>3, <1>6, AtFields, StillFits
<1>8. Side'
  BY <1>1, <1>4, AtFields, SideStays DEF Statuses
<1> QED
  BY <1>1, <1>2, <1>3, <1>4, <1>6, <1>7, <1>8 DEF Completes, Steady, Onward, Passes

LEMMA ReadingShape ==
  ASSUME TypeInv, NEW r \in Requests, patchVaultReads(r)
  PROVE  Reads(r) /\ Side'
<1> DEFINE j == [job[r] EXCEPT !.pc = "write", !.current = row]
<1>1. /\ job[r].pc = "debit" /\ job' = [job EXCEPT ![r].pc = "write", ![r].current = row]
      /\ UNCHANGED <<db, hour, calls, crashes, completions, earned, collided>>
  BY DEF patchVaultReads, At
<1>2. "write" \in Pcs /\ j = [job[r] EXCEPT !.pc = "write", !.current = row]
  BY DEF Pcs
<1> HIDE DEF j
<1>3. /\ j \in Job /\ j.pc = "write" /\ j.call = job[r].call /\ j.snap = job[r].snap
      /\ j.current = row /\ job' = [job EXCEPT ![r] = j]
  <2>1. row \in Row /\ job \in [Requests -> Job] /\ job[r] \in Job
    BY AtFields
  <2>2. /\ j \in Job /\ j.pc = "write" /\ j.call = job[r].call /\ j.snap = job[r].snap
        /\ j.current = row
    BY <1>2, <2>1 DEF Job
  <2>3. [job EXCEPT ![r].pc = "write", ![r].current = row] = [job EXCEPT ![r] = j]
    BY <1>2, <2>1 DEF Job
  <2> QED BY <1>1, <2>2, <2>3, Zenon
<1>4. Fit(j)
  BY <1>1, <1>3, AtFields, StillFits DEF Fit
<1>5. Side'
  BY <1>1, AtFields, SideStays DEF db
<1> QED
  BY <1>1, <1>3, <1>4, <1>5 DEF Reads, Ledger, db, Steady, Onward, Passes

LEMMA StoringShape ==
  ASSUME TypeInv, NEW r \in Requests, patchVaultWrites(r)
  PROVE  Stores(r) /\ Side'
<1> DEFINE old == job[r]
           w == Patched(old.call, old.snap, old.current)
           v == [w EXCEPT !.accruedAt = row.accruedAt]
           j == [job[r] EXCEPT !.pc = "record"]
<1>1. /\ old.pc = "write" /\ row' = v /\ Goes(r, "record")
      /\ UNCHANGED <<status, settlements, payouts, deposited, staked, hour, calls, crashes,
                     completions, earned, collided>>
  BY DEF patchVaultWrites, At, AfterWrite
<1>2. /\ old \in Job /\ old.call \in Call /\ old.snap \in Row /\ old.current \in Row
      /\ old.call.op # "view" /\ Affordable(old.call, old.snap)
  BY <1>1, AtFields DEF Fit
<1>3. /\ w \in Row /\ w.total = old.snap.total + Change(old.call)
      /\ Kept(old.call.op, w, old.current)
      /\ Sound(old.snap) /\ Kept(old.call.op, old.snap, old.current) => Sound(w)
  <2> HIDE DEF old
  <2> QED BY <1>2, PatchOfCall
<1>4. /\ v \in Row /\ v.accruedAt = row.accruedAt /\ v.total = w.total /\ v.yield = w.yield
      /\ v.reserve = w.reserve /\ v.liquid = w.liquid /\ v.payments = w.payments
  <2>1. row.accruedAt \in 0..MaxHour
    BY AtFields, Columns
  <2>2. v = [w EXCEPT !.accruedAt = row.accruedAt]
    OBVIOUS
  <2> HIDE DEF w, v
  <2> QED BY <1>3, <2>1, <2>2 DEF Row
<1>5. Kept(old.call.op, v, old.current) /\ (Sound(w) => Sound(v))
  <2> HIDE DEF w, v, old
  <2> QED BY <1>3, <1>4 DEF Kept, Sound, Balanced
<1>6. "record" \in Pcs /\ j = [job[r] EXCEPT !.pc = "record"]
  BY DEF Pcs
<1> HIDE DEF j, w, v
<1>7. /\ j \in Job /\ j.pc = "record" /\ j.call = job[r].call /\ j.snap = job[r].snap
      /\ job' = [job EXCEPT ![r] = j]
  BY <1>1, <1>6, AtFields, Going DEF Goes
<1>8. Fit(j)
  BY <1>2, <1>7, AtFields, StillFits
<1>9. Side'
  BY <1>1, AtFields, SideStays
<1> QED
  BY <1>1, <1>3, <1>4, <1>5, <1>7, <1>8, <1>9 DEF Stores, Steady, Onward, Passes

LEMMA RecordingShape ==
  ASSUME TypeInv, NEW r \in Requests, recordTransaction(r)
  PROVE  (Records(r) \/ Leaves(r)) /\ Side'
<1> DEFINE c == job[r].call
           j == [Idle EXCEPT !.pc = "select"]
<1>1. /\ job[r].pc = "record"
      /\ UNCHANGED <<row, status, settlements, hour, calls, crashes, completions, earned>>
  BY DEF recordTransaction, At
<1>2. /\ [Idle EXCEPT !.pc = "select"] = [Idle EXCEPT !.pc = "select", !.call = NoCall]
  BY IdleJob DEF Idle
<1>3. j \in Job /\ j.pc = "select" /\ j.call = NoCall
  BY <1>2, IdleJob, Starting
<1> HIDE DEF j
<1>4. Fit(j)
  BY <1>3, IdleJob DEF Fit
<1>5. CASE /\ c.op = "execute" /\ payouts' = [payouts EXCEPT ![c.payment] = @ + 1] /\ Ends(r)
           /\ UNCHANGED <<deposited, staked, collided>>
  <2>1. Passes(r, Idle) /\ Idle.pc = "idle" /\ Idle \in Job
    BY <1>5, IdleJob DEF Ends, Passes
  <2>2. Side'
    BY <1>1, <1>5, AtFields, SideStays
  <2> QED BY <1>1, <1>5, <2>1, <2>2 DEF Records, Steady
<1>6. CASE /\ Ends(r) /\ collided' = TRUE /\ UNCHANGED <<payouts, deposited, staked>>
  <2>1. Passes(r, Idle)
    BY <1>6, IdleJob DEF Ends, Passes
  <2>2. Side'
    BY <1>1, <1>6, AtFields DEF Side, Typed
  <2> QED BY <1>1, <1>6, <2>1, <2>2 DEF Leaves, Ledger
<1>7. CASE /\ \/ c.op = "topup" /\ deposited' = deposited + c.amount /\ UNCHANGED <<payouts, staked>>
              \/ c.op = "stake" /\ staked' = staked + c.amount /\ UNCHANGED <<payouts, deposited>>
           /\ job' = [job EXCEPT ![r] = j] /\ collided' = collided
  <2>1. Passes(r, j)
    BY <1>3, <1>4, <1>7 DEF Passes
  <2>2. Side'
    BY <1>1, <1>7, AtFields, SideStays
  <2> QED BY <1>1, <1>3, <1>7, <2>1, <2>2 DEF Records, Steady
<1>8. \/ /\ c.op = "execute" /\ payouts' = [payouts EXCEPT ![c.payment] = @ + 1] /\ Ends(r)
         /\ UNCHANGED <<deposited, staked, collided>>
      \/ Ends(r) /\ collided' = TRUE /\ UNCHANGED <<payouts, deposited, staked>>
      \/ /\ \/ c.op = "topup" /\ deposited' = deposited + c.amount /\ UNCHANGED <<payouts, staked>>
            \/ c.op = "stake" /\ staked' = staked + c.amount /\ UNCHANGED <<payouts, deposited>>
         /\ job' = [job EXCEPT ![r] = j] /\ collided' = collided
  BY DEF recordTransaction, j
<1> QED
  BY <1>5, <1>6, <1>7, <1>8

(* A server dies, the clock moves, or a payment is entered by hand.        *)
LEMMA EnvironmentShape ==
  ASSUME TypeInv,
         (\E s \in Servers : Crash(s)) \/ Tick \/ (\E p \in Payments : createPayment(p))
  PROVE  (Dies \/ Ticks \/ Rests) /\ Side'
<1>0. job \in [Requests -> Job] /\ Typed /\ hour \in Int
  BY BoundsAssumption DEF TypeInv, Typed
<1>1. ASSUME NEW s \in Servers, Crash(s) PROVE Dies /\ Side'
  <2>1. /\ crashes < MaxCrashes /\ crashes' = crashes + 1
        /\ job' = [r \in Requests |-> IF server[r] = s THEN Idle ELSE job[r]]
        /\ UNCHANGED <<row, status, settlements, payouts, deposited, staked, hour, calls,
                       completions, earned, collided>>
    BY <1>1 DEF Crash, db
  <2>2. job' \in [Requests -> Job] /\ \A q \in Requests : job'[q] = job[q] \/ job'[q] = Idle
    BY <1>0, <2>1, IdleJob
  <2>3. crashes' \in 0..MaxCrashes
    BY <1>0, <2>1, BoundsAssumption DEF Typed
  <2>4. Side'
    BY <1>0, <2>1, <2>3 DEF Side, Typed
  <2> QED BY <2>1, <2>2, <2>4 DEF Dies, Ledger
<1>2. CASE Tick
  <2>1. /\ hour < MaxHour /\ hour' = hour + 1
        /\ UNCHANGED <<row, status, settlements, payouts, deposited, staked, job, calls, crashes,
                       completions, earned, collided>>
    BY <1>2 DEF Tick, db
  <2>2. hour' \in 0..MaxHour /\ hour' # hour
    BY <1>0, <2>1, BoundsAssumption DEF Typed
  <2>3. Side'
    BY <1>0, <2>1, <2>2 DEF Side, Typed
  <2> QED BY <2>1, <2>2, <2>3 DEF Ticks, Ledger
<1>3. ASSUME NEW p \in Payments, createPayment(p) PROVE Rests /\ Side'
  <2>1. /\ status' = [status EXCEPT ![p] = "scheduled"]
        /\ UNCHANGED <<row, settlements, payouts, deposited, staked, hour, job, calls, crashes,
                       completions, earned, collided>>
    BY <1>3 DEF createPayment
  <2>2. Side'
    BY <1>0, <2>1, SideStays DEF Statuses
  <2> QED BY <2>1, <2>2 DEF Rests, Ledger, Steady
<1> QED
  BY <1>1, <1>2, <1>3

LEMMA StepShape ==
  ASSUME TypeInv, [Next]_vars
  PROVE  Shape /\ Side' /\ (Watch \/ UNCHANGED vars)
<1>1. ASSUME NEW r \in Requests, Request(r) PROVE Shape /\ Side' /\ Watch
  <2>1. Watch
    BY <1>1 DEF Request, execute, x402, topup, stake, view
  <2> QED BY <1>1, <2>1, RequestShape DEF Shape
<1>2. ASSUME NEW r \in Requests, Handler(r) PROVE Shape /\ Side' /\ Watch
  <2>1. Watch
    BY <1>2 DEF Handler, ensureWalletProfile, accrueYield, getProtocolState, Answer, Deposits,
                StakesOrRefuses, RequireApproval, Queue, FailShort, recordX402Settlement, Refuse,
                Complete, patchVaultReads, patchVaultWrites, recordTransaction
  <2>2. /\ \/ Arrives(r) \/ Loads(r) \/ Advances(r) \/ Leaves(r) \/ Earns(r) \/ Settles(r)
           \/ Completes(r) \/ Reads(r) \/ Stores(r) \/ Records(r)
        /\ Side'
    BY <1>2, ReadShapes, EarningShape, AnswerShape, RefusingShape, SettlingShape, CompletingShape,
       ReadingShape, StoringShape, RecordingShape, Zenon DEF Handler
  <2> QED BY <2>1, <2>2 DEF Shape
<1>3. CASE (\E s \in Servers : Crash(s)) \/ Tick \/ (\E p \in Payments : createPayment(p))
  <2>1. Watch
    BY <1>3 DEF Crash, Tick, createPayment
  <2> QED BY <1>3, <2>1, EnvironmentShape DEF Shape
<1>4. CASE UNCHANGED vars
  <2>1. Side'
    BY <1>4 DEF TypeInv, Typed, Side, vars, db, history
  <2>2. Rests
    BY <1>4 DEF Rests, Ledger, Steady, vars, db, history
  <2> QED BY <1>4, <2>1, <2>2 DEF Shape
<1> QED
  BY <1>1, <1>2, <1>3, <1>4 DEF Next

-----------------------------------------------------------------------------
(* The types are kept.                                                     *)

(* Every shape but the environment's moves one handler.                    *)
Moves(r) ==
  \/ Arrives(r) \/ Loads(r) \/ Advances(r) \/ Leaves(r) \/ Earns(r) \/ Settles(r)
  \/ Completes(r) \/ Reads(r) \/ Stores(r) \/ Records(r)

LEMMA MovesOne ==
  ASSUME NEW r \in Requests, Moves(r)
  PROVE  \E j \in Job : Passes(r, j)
BY IdleJob DEF Moves, Arrives, Loads, Advances, Leaves, Earns, Settles, Completes, Reads, Stores,
               Records, Onward

LEMMA AfterPassing ==
  ASSUME TypeInv, NEW r \in Requests, NEW j \in Job, Passes(r, j)
  PROVE  /\ job' \in [Requests -> Job] /\ job'[r] = j
         /\ \A q \in Requests \ {r} : job'[q] = job[q]
         /\ \A q \in Requests : Fit(job[q])'
<1>1. /\ job' \in [Requests -> Job] /\ job'[r] = j
      /\ \A q \in Requests \ {r} : job'[q] = job[q]
  BY DEF Passes, TypeInv, Typed
<1>2. \A q \in Requests : Fit(job'[q])
  BY <1>1 DEF Passes, TypeInv
<1> QED
  BY <1>1, <1>2 DEF Fit

LEMMA BooksAreTyped ==
  ASSUME TypeInv, Shape
  PROVE  /\ row' \in Row /\ settlements' \in [Payments -> Nat] /\ payouts' \in [Payments -> Nat]
         /\ deposited' \in Nat /\ staked' \in Nat /\ completions' \in [Payments -> Nat]
         /\ earned' \in Nat
<1>0. /\ row \in Row /\ settlements \in [Payments -> Nat] /\ payouts \in [Payments -> Nat]
      /\ deposited \in Nat /\ staked \in Nat /\ completions \in [Payments -> Nat]
      /\ earned \in Nat
  BY DEF TypeInv, Typed
<1>1. CASE UNCHANGED Ledger
  BY <1>0, <1>1 DEF Ledger
<1>2. ASSUME NEW r \in Requests, Earns(r) \/ Settles(r) \/ Completes(r) \/ Stores(r)
      PROVE  /\ row' \in Row /\ settlements' \in [Payments -> Nat]
             /\ payouts' \in [Payments -> Nat]
             /\ deposited' \in Nat /\ staked' \in Nat /\ completions' \in [Payments -> Nat]
             /\ earned' \in Nat
  BY <1>0, <1>2 DEF Earns, Settles, Completes, Stores
<1>3. ASSUME NEW r \in Requests, Records(r)
      PROVE  /\ row' \in Row /\ settlements' \in [Payments -> Nat]
             /\ payouts' \in [Payments -> Nat]
             /\ deposited' \in Nat /\ staked' \in Nat /\ completions' \in [Payments -> Nat]
             /\ earned' \in Nat
  <2>1. job[r].call.amount \in Nat /\ (job[r].call.op = "execute" => job[r].call.payment \in Payments)
    BY AtFields, CallFields DEF Fit
  <2> QED BY <1>0, <1>3, <2>1 DEF Records
<1> QED
  BY <1>1, <1>2, <1>3 DEF Shape, Arrives, Loads, Advances, Leaves, Reads, Dies, Ticks, Rests

LEMMA TypeStep ==
  ASSUME TypeInv, [Next]_vars
  PROVE  TypeInv'
<1>1. Shape /\ Side' /\ (Watch \/ UNCHANGED vars)
  BY StepShape
<1>2. overlapped' \in BOOLEAN /\ mixed' \in BOOLEAN
  <2>1. CASE Watch
    BY <2>1, Zenon DEF Watch, TypeInv, Typed
  <2>2. CASE UNCHANGED vars
    BY <2>2 DEF vars, history, TypeInv, Typed
  <2> QED BY <1>1, <2>1, <2>2
<1>3. job' \in [Requests -> Job] /\ \A q \in Requests : Fit(job[q])'
  <2>1. CASE \E r \in Requests : Moves(r)
    BY <2>1, MovesOne, AfterPassing
  <2>2. CASE Dies
    BY <2>2, IdleJob DEF Dies, TypeInv, Fit
  <2>3. CASE Ticks \/ Rests
    BY <2>3 DEF Ticks, Rests, TypeInv, Typed, Fit
  <2> QED BY <1>1, <2>1, <2>2, <2>3 DEF Shape, Moves
<1> QED
  BY <1>1, <1>2, <1>3, BooksAreTyped DEF TypeInv, Typed, Side

LEMMA TypeStart ==
  ASSUME Init
  PROVE  TypeInv
<1>1. /\ row \in Row /\ status \in [Payments -> Statuses]
      /\ settlements \in [Payments -> Nat] /\ payouts \in [Payments -> Nat]
      /\ deposited \in Nat /\ staked \in Nat
      /\ completions \in [Payments -> Nat] /\ earned \in Nat
      /\ overlapped \in BOOLEAN /\ mixed \in BOOLEAN /\ collided \in BOOLEAN
  BY IdleJob DEF Init, Statuses
<1>2. hour \in 0..MaxHour /\ calls \in 0..MaxCalls /\ crashes \in 0..MaxCrashes
  BY BoundsAssumption DEF Init
<1>3. job \in [Requests -> Job] /\ \A r \in Requests : job[r] = Idle
  BY IdleJob DEF Init
<1>4. \A r \in Requests : Fit(job[r])
  BY <1>3, IdleJob
<1> QED
  BY <1>1, <1>2, <1>3, <1>4 DEF TypeInv, Typed

LEMMA TypesHold == Spec => []TypeInv
<1>1. Init => TypeInv
  BY TypeStart
<1>2. TypeInv /\ [Next]_vars => TypeInv'
  BY TypeStep
<1> QED
  BY <1>1, <1>2, PTL DEF Spec

-----------------------------------------------------------------------------
(* Handlers counted by what they have left to do.                          *)

LEMMA CountChanges ==
  ASSUME NEW A \in SUBSET Requests, NEW B \in SUBSET Requests, NEW r \in Requests,
         \A q \in Requests \ {r} : q \in A <=> q \in B
  PROVE  /\ Cardinality(A) \in Nat /\ Cardinality(B) \in Nat
         /\ (r \in A <=> r \in B) => Cardinality(B) = Cardinality(A)
         /\ r \notin A /\ r \in B => Cardinality(B) = Cardinality(A) + 1
         /\ r \in A /\ r \notin B => Cardinality(A) = Cardinality(B) + 1
<1>1. IsFiniteSet(A) /\ IsFiniteSet(B)
  BY SlotsAssumption, FS_Subset
<1>2. Cardinality(A) \in Nat /\ Cardinality(B) \in Nat
  BY <1>1, FS_CardinalityType
<1>3. CASE r \in A <=> r \in B
  <2>1. A = B
    BY <1>3
  <2> QED BY <1>2, <1>3, <2>1
<1>4. CASE r \notin A /\ r \in B
  <2>1. B = A \cup {r}
    BY <1>4
  <2>2. Cardinality(B) = Cardinality(A) + 1
    BY <1>1, <1>4, <2>1, FS_AddElement
  <2> QED BY <1>2, <1>4, <2>2
<1>5. CASE r \in A /\ r \notin B
  <2>1. A = B \cup {r}
    BY <1>5
  <2>2. Cardinality(A) = Cardinality(B) + 1
    BY <1>1, <1>5, <2>1, FS_AddElement
  <2> QED BY <1>2, <1>5, <2>2
<1> QED
  BY <1>3, <1>4, <1>5

LEMMA FewerCounted ==
  ASSUME NEW A \in SUBSET Requests, NEW B \in SUBSET Requests, B \subseteq A
  PROVE  /\ Cardinality(A) \in Nat /\ Cardinality(B) \in Nat
         /\ Cardinality(B) <= Cardinality(A)
<1>1. IsFiniteSet(A) /\ IsFiniteSet(B)
  BY SlotsAssumption, FS_Subset
<1> QED
  BY <1>1, FS_CardinalityType, FS_Subset

Pays(j, p) == j.pc = "pay" /\ j.call.payment = p
Paying(p) == {r \in Requests : Pays(job[r], p)}
Owes(j, p) ==
  j.call.op = "execute" /\ j.call.payment = p /\ j.pc \in {"debit", "write", "record"}
Owing(p) == {r \in Requests : Owes(job[r], p)}

LEMMA PayingChanges ==
  ASSUME TypeInv, NEW r \in Requests, NEW j \in Job, Passes(r, j), NEW p
  PROVE  /\ Cardinality(Paying(p)) \in Nat /\ Cardinality(Paying(p)') \in Nat
         /\ (Pays(job[r], p) <=> Pays(j, p)) => Cardinality(Paying(p)') = Cardinality(Paying(p))
         /\ ~Pays(job[r], p) /\ Pays(j, p)
              => Cardinality(Paying(p)') = Cardinality(Paying(p)) + 1
         /\ Pays(job[r], p) /\ ~Pays(j, p)
              => Cardinality(Paying(p)) = Cardinality(Paying(p)') + 1
<1> DEFINE A == Paying(p)
           B == Paying(p)'
<1>1. A \in SUBSET Requests /\ B \in SUBSET Requests
  BY DEF Paying
<1>2. job'[r] = j /\ \A q \in Requests \ {r} : job'[q] = job[q]
  BY AfterPassing
<1>3. \A q \in Requests \ {r} : q \in A <=> q \in B
  BY <1>2 DEF Paying, Pays
<1>4. (r \in A <=> Pays(job[r], p)) /\ (r \in B <=> Pays(j, p))
  BY <1>2 DEF Paying, Pays
<1> HIDE DEF A, B
<1>5. /\ Cardinality(A) \in Nat /\ Cardinality(B) \in Nat
      /\ (Pays(job[r], p) <=> Pays(j, p)) => Cardinality(B) = Cardinality(A)
      /\ ~Pays(job[r], p) /\ Pays(j, p) => Cardinality(B) = Cardinality(A) + 1
      /\ Pays(job[r], p) /\ ~Pays(j, p) => Cardinality(A) = Cardinality(B) + 1
  BY <1>1, <1>3, <1>4, CountChanges
<1> QED
  BY <1>5 DEF A, B

LEMMA OwingChanges ==
  ASSUME TypeInv, NEW r \in Requests, NEW j \in Job, Passes(r, j), NEW p
  PROVE  /\ Cardinality(Owing(p)) \in Nat /\ Cardinality(Owing(p)') \in Nat
         /\ (Owes(job[r], p) <=> Owes(j, p)) => Cardinality(Owing(p)') = Cardinality(Owing(p))
         /\ ~Owes(job[r], p) /\ Owes(j, p)
              => Cardinality(Owing(p)') = Cardinality(Owing(p)) + 1
         /\ Owes(job[r], p) /\ ~Owes(j, p)
              => Cardinality(Owing(p)) = Cardinality(Owing(p)') + 1
<1> DEFINE A == Owing(p)
           B == Owing(p)'
<1>1. A \in SUBSET Requests /\ B \in SUBSET Requests
  BY DEF Owing
<1>2. job'[r] = j /\ \A q \in Requests \ {r} : job'[q] = job[q]
  BY AfterPassing
<1>3. \A q \in Requests \ {r} : q \in A <=> q \in B
  BY <1>2 DEF Owing, Owes
<1>4. (r \in A <=> Owes(job[r], p)) /\ (r \in B <=> Owes(j, p))
  BY <1>2 DEF Owing, Owes
<1> HIDE DEF A, B
<1>5. /\ Cardinality(A) \in Nat /\ Cardinality(B) \in Nat
      /\ (Owes(job[r], p) <=> Owes(j, p)) => Cardinality(B) = Cardinality(A)
      /\ ~Owes(job[r], p) /\ Owes(j, p) => Cardinality(B) = Cardinality(A) + 1
      /\ Owes(job[r], p) /\ ~Owes(j, p) => Cardinality(A) = Cardinality(B) + 1
  BY <1>1, <1>3, <1>4, CountChanges
<1> QED
  BY <1>5 DEF A, B

-----------------------------------------------------------------------------
(* A settlement for every completion, those still to come included.        *)

SettledInv ==
  \A p \in Payments : info[p].kind = "x402" =>
    completions[p] + Cardinality(Paying(p)) <= settlements[p]

LEMMA SettledStep ==
  ASSUME TypeInv, SettledInv, [Next]_vars
  PROVE  SettledInv'
<1> SUFFICES ASSUME NEW p \in Payments, info[p].kind = "x402"
             PROVE  completions'[p] + Cardinality(Paying(p)') <= settlements'[p]
  BY DEF SettledInv
<1>1. Shape
  BY StepShape
<1>2. completions[p] + Cardinality(Paying(p)) <= settlements[p]
  BY DEF SettledInv
<1>3. /\ completions \in [Payments -> Nat] /\ settlements \in [Payments -> Nat]
      /\ job \in [Requests -> Job]
  BY DEF TypeInv, Typed
<1>4. ASSUME NEW r \in Requests, Settles(r)
      PROVE  completions'[p] + Cardinality(Paying(p)') <= settlements'[p]
  <2>1. PICK j \in Job : Onward(r, j) /\ j.pc = "pay"
    BY <1>4 DEF Settles
  <2>2. /\ ~Pays(job[r], p) /\ (Pays(j, p) <=> job[r].call.payment = p) /\ Passes(r, j)
        /\ completions' = completions
        /\ settlements' = [settlements EXCEPT ![job[r].call.payment] = @ + 1]
    BY <1>4, <2>1 DEF Settles, Pays, Onward
  <2>3. CASE job[r].call.payment = p
    <3>1. settlements'[p] = settlements[p] + 1 /\ completions'[p] = completions[p]
      BY <1>3, <2>2, <2>3
    <3>2. Cardinality(Paying(p)') = Cardinality(Paying(p)) + 1 /\ Cardinality(Paying(p)) \in Nat
      BY <2>2, <2>3, PayingChanges
    <3>3. completions[p] \in Nat /\ settlements[p] \in Nat
      BY <1>3
    <3> QED BY <1>2, <3>1, <3>2, <3>3
  <2>4. CASE job[r].call.payment # p
    <3>1. settlements'[p] = settlements[p] /\ completions'[p] = completions[p]
      BY <1>3, <2>2, <2>4
    <3>2. Cardinality(Paying(p)') = Cardinality(Paying(p))
      BY <2>2, <2>4, PayingChanges
    <3> QED BY <1>2, <3>1, <3>2
  <2> QED BY <2>3, <2>4
<1>5. ASSUME NEW r \in Requests, Completes(r)
      PROVE  completions'[p] + Cardinality(Paying(p)') <= settlements'[p]
  <2>1. PICK j \in Job : Onward(r, j) /\ j.pc = "debit"
    BY <1>5 DEF Completes
  <2>2. /\ ~Pays(j, p) /\ Passes(r, j) /\ settlements' = settlements
        /\ completions' = [completions EXCEPT ![job[r].call.payment] = @ + 1]
        /\ job[r].call.payment = p => job[r].pc = "pay"
        /\ Pays(job[r], p) => job[r].call.payment = p
    BY <1>5, <2>1 DEF Completes, Pays, Onward
  <2>3. CASE job[r].call.payment = p
    <3>1. completions'[p] = completions[p] + 1 /\ settlements'[p] = settlements[p]
      BY <1>3, <2>2, <2>3
    <3>2. Pays(job[r], p)
      BY <2>2, <2>3 DEF Pays
    <3>3. /\ Cardinality(Paying(p)) = Cardinality(Paying(p)') + 1
          /\ Cardinality(Paying(p)') \in Nat
      BY <2>2, <3>2, PayingChanges
    <3>4. completions[p] \in Nat /\ settlements[p] \in Nat
      BY <1>3
    <3> QED BY <1>2, <3>1, <3>3, <3>4
  <2>4. CASE job[r].call.payment # p
    <3>1. settlements'[p] = settlements[p] /\ completions'[p] = completions[p]
      BY <1>3, <2>2, <2>4
    <3>2. Cardinality(Paying(p)') = Cardinality(Paying(p))
      BY <2>2, <2>4, PayingChanges
    <3> QED BY <1>2, <3>1, <3>2
  <2> QED BY <2>3, <2>4
<1>6. CASE Paying(p)' \subseteq Paying(p) /\ UNCHANGED <<completions, settlements>>
  <2>1. Paying(p) \in SUBSET Requests /\ Paying(p)' \in SUBSET Requests
    BY DEF Paying
  <2>2. /\ Cardinality(Paying(p)') <= Cardinality(Paying(p))
        /\ Cardinality(Paying(p)) \in Nat /\ Cardinality(Paying(p)') \in Nat
    BY <1>6, <2>1, FewerCounted
  <2>3. completions[p] \in Nat /\ settlements[p] \in Nat
    BY <1>3
  <2> QED BY <1>2, <1>6, <2>2, <2>3
<1>7. ASSUME NEW r \in Requests, NEW j \in Job, Passes(r, j), j.pc # "pay"
      PROVE  Paying(p)' \subseteq Paying(p)
  <2>1. job'[r] = j /\ \A q \in Requests \ {r} : job'[q] = job[q]
    BY <1>7, AfterPassing
  <2> QED BY <1>7, <2>1 DEF Paying, Pays
<1>8. ASSUME NEW r \in Requests, Arrives(r) \/ Loads(r) \/ Advances(r) \/ Leaves(r) \/ Earns(r)
                                 \/ Reads(r) \/ Stores(r) \/ Records(r)
      PROVE  Paying(p)' \subseteq Paying(p) /\ UNCHANGED <<completions, settlements>>
  <2>1. UNCHANGED <<completions, settlements>>
    BY <1>8 DEF Arrives, Loads, Advances, Leaves, Earns, Reads, Stores, Records, Ledger
  <2>2. \E j \in Job : Passes(r, j) /\ j.pc # "pay"
    BY <1>8, IdleJob DEF Arrives, Loads, Advances, Leaves, Earns, Reads, Stores, Records,
                         Onward, Pending
  <2> QED BY <1>7, <2>1, <2>2
<1>9. ASSUME Dies \/ Ticks \/ Rests
      PROVE  Paying(p)' \subseteq Paying(p) /\ UNCHANGED <<completions, settlements>>
  BY <1>9, IdleJob DEF Dies, Ticks, Rests, Ledger, Paying, Pays
<1> QED
  BY <1>1, <1>4, <1>5, <1>6, <1>8, <1>9 DEF Shape

LEMMA SettledStart ==
  ASSUME Init
  PROVE  SettledInv
<1> SUFFICES ASSUME NEW p \in Payments PROVE completions[p] + Cardinality(Paying(p)) <= settlements[p]
  BY DEF SettledInv
<1>1. Paying(p) = {}
  BY IdleJob DEF Init, Paying, Pays
<1>2. Cardinality(Paying(p)) = 0
  BY <1>1, FS_EmptySet
<1> QED
  BY <1>2 DEF Init

(* An x402 payment is completed only after a settlement of its own was     *)
(* recorded (executePaymentForWallet marks it after recordX402Settlement). *)
THEOREM CompletionsAreSettled == Spec => []SettledBeforeCompleted
<1>1. Init => SettledInv
  BY SettledStart
<1>2. TypeInv /\ SettledInv /\ [Next]_vars => SettledInv'
  BY SettledStep
<1>3. TypeInv /\ SettledInv => SettledBeforeCompleted
  <2> SUFFICES ASSUME TypeInv, SettledInv, NEW p \in Payments, info[p].kind = "x402"
               PROVE  completions[p] <= settlements[p]
    BY DEF SettledBeforeCompleted
  <2>1. completions[p] + Cardinality(Paying(p)) <= settlements[p]
    BY DEF SettledInv
  <2>2. completions[p] \in Nat /\ settlements[p] \in Nat
    BY DEF TypeInv, Typed
  <2>3. Cardinality(Paying(p)) \in Nat
    <3>1. Paying(p) \in SUBSET Requests
      BY DEF Paying
    <3> QED BY <3>1, FewerCounted
  <2> QED BY <2>1, <2>2, <2>3
<1> QED
  BY <1>1, <1>2, <1>3, TypesHold, PTL DEF Spec

-----------------------------------------------------------------------------
(* What was completed is on record or still owed by a handler.             *)

RecordedInv ==
  crashes = 0 /\ ~collided =>
    \A p \in Payments : completions[p] = payouts[p] + Cardinality(Owing(p))

LEMMA RecordedStep ==
  ASSUME TypeInv, RecordedInv, [Next]_vars
  PROVE  RecordedInv'
<1> SUFFICES ASSUME crashes' = 0, ~collided', NEW p \in Payments
             PROVE  completions'[p] = payouts'[p] + Cardinality(Owing(p)')
  BY DEF RecordedInv
<1>1. Shape
  BY StepShape
<1>3. /\ completions \in [Payments -> Nat] /\ payouts \in [Payments -> Nat]
      /\ job \in [Requests -> Job] /\ completions[p] \in Nat /\ payouts[p] \in Nat
      /\ crashes \in Nat /\ collided \in BOOLEAN
  BY BoundsAssumption DEF TypeInv, Typed
<1>0. ~Dies
  <2>1. crashes + 1 # 0
    BY <1>3
  <2> QED BY <2>1 DEF Dies
<1>2. crashes = 0 /\ ~collided
  BY <1>0, <1>1 DEF Shape, Arrives, Loads, Advances, Leaves, Earns, Settles, Completes, Reads,
                    Stores, Records, Ticks, Rests, Steady
<1>4. completions[p] = payouts[p] + Cardinality(Owing(p))
  BY <1>2 DEF RecordedInv
<1>5. ASSUME NEW r \in Requests, Completes(r)
      PROVE  completions'[p] = payouts'[p] + Cardinality(Owing(p)')
  <2>1. PICK j \in Job : Onward(r, j) /\ j.pc = "debit"
    BY <1>5 DEF Completes
  <2>2. /\ ~Owes(job[r], p) /\ (Owes(j, p) <=> job[r].call.payment = p) /\ Passes(r, j)
        /\ payouts' = payouts
        /\ completions' = [completions EXCEPT ![job[r].call.payment] = @ + 1]
    BY <1>5, <2>1 DEF Completes, Owes, Onward
  <2>3. CASE job[r].call.payment = p
    <3>1. completions'[p] = completions[p] + 1 /\ payouts'[p] = payouts[p]
      BY <1>3, <2>2, <2>3
    <3>2. Cardinality(Owing(p)') = Cardinality(Owing(p)) + 1 /\ Cardinality(Owing(p)) \in Nat
      BY <2>2, <2>3, OwingChanges
    <3> QED BY <1>3, <1>4, <3>1, <3>2
  <2>4. CASE job[r].call.payment # p
    <3>1. completions'[p] = completions[p] /\ payouts'[p] = payouts[p]
      BY <1>3, <2>2, <2>4
    <3>2. Cardinality(Owing(p)') = Cardinality(Owing(p))
      BY <2>2, <2>4, OwingChanges
    <3> QED BY <1>4, <3>1, <3>2
  <2> QED BY <2>3, <2>4
<1>6. ASSUME NEW r \in Requests, Records(r)
      PROVE  completions'[p] = payouts'[p] + Cardinality(Owing(p)')
  <2>1. PICK j \in Job : Passes(r, j) /\ j.pc \in {"idle", "select"}
    BY <1>6 DEF Records
  <2>2. ~Owes(j, p) /\ completions' = completions /\ job[r].pc = "record"
    BY <1>6, <2>1 DEF Records, Owes
  <2>3. CASE job[r].call.op = "execute" /\ job[r].call.payment = p
    <3>0. payouts' = [payouts EXCEPT ![p] = @ + 1]
      BY <1>6, <2>3 DEF Records
    <3>1. completions'[p] = completions[p] /\ payouts'[p] = payouts[p] + 1
      BY <1>3, <2>2, <3>0
    <3>2. Owes(job[r], p)
      BY <2>2, <2>3 DEF Owes
    <3>3. Cardinality(Owing(p)) = Cardinality(Owing(p)') + 1 /\ Cardinality(Owing(p)') \in Nat
      BY <2>1, <2>2, <3>2, OwingChanges
    <3> QED BY <1>3, <1>4, <3>1, <3>3
  <2>4. CASE ~(job[r].call.op = "execute" /\ job[r].call.payment = p)
    <3>0. payouts' = payouts \/ (/\ job[r].call.payment # p
                                 /\ payouts' = [payouts EXCEPT ![job[r].call.payment] = @ + 1])
      BY <1>6, <2>4 DEF Records
    <3>1. completions'[p] = completions[p] /\ payouts'[p] = payouts[p]
      BY <1>3, <2>2, <3>0
    <3>2. ~Owes(job[r], p)
      BY <2>4 DEF Owes
    <3>3. Cardinality(Owing(p)') = Cardinality(Owing(p))
      BY <2>1, <2>2, <3>2, OwingChanges
    <3> QED BY <1>4, <3>1, <3>3
  <2> QED BY <2>3, <2>4
<1>7. ASSUME NEW r \in Requests, NEW j \in Job, Passes(r, j), Owes(job[r], p) <=> Owes(j, p),
             UNCHANGED <<completions, payouts>>
      PROVE  completions'[p] = payouts'[p] + Cardinality(Owing(p)')
  <2>1. Cardinality(Owing(p)') = Cardinality(Owing(p))
    BY <1>7, OwingChanges
  <2> QED BY <1>4, <1>7, <2>1
<1>8. ASSUME NEW r \in Requests, Arrives(r) \/ Loads(r) \/ Advances(r) \/ Leaves(r) \/ Earns(r)
                                 \/ Settles(r)
      PROVE  completions'[p] = payouts'[p] + Cardinality(Owing(p)')
  <2>1. UNCHANGED <<completions, payouts>>
    BY <1>8 DEF Arrives, Loads, Advances, Leaves, Earns, Settles, Ledger
  <2>2. \E j \in Job : Passes(r, j) /\ ~Owes(job[r], p) /\ ~Owes(j, p)
    <3>1. CASE Leaves(r)
      BY <3>1, IdleJob DEF Leaves, Owes
    <3>2. CASE Advances(r)
      BY <3>2 DEF Advances, Onward, Pending, Owes
    <3>3. CASE Arrives(r) \/ Loads(r) \/ Earns(r) \/ Settles(r)
      BY <3>3 DEF Arrives, Loads, Earns, Settles, Onward, Owes
    <3> QED BY <1>8, <3>1, <3>2, <3>3
  <2> QED BY <1>7, <2>1, <2>2
<1>9. ASSUME NEW r \in Requests, Reads(r) \/ Stores(r)
      PROVE  completions'[p] = payouts'[p] + Cardinality(Owing(p)')
  <2>1. UNCHANGED <<completions, payouts>>
    BY <1>9 DEF Reads, Stores, Ledger
  <2>2. \E j \in Job : Passes(r, j) /\ (Owes(job[r], p) <=> Owes(j, p))
    BY <1>9 DEF Reads, Stores, Onward, Owes
  <2> QED BY <1>7, <2>1, <2>2
<1>10. ASSUME Ticks \/ Rests
       PROVE  completions'[p] = payouts'[p] + Cardinality(Owing(p)')
  <2>1. Owing(p)' = Owing(p) /\ UNCHANGED <<completions, payouts>>
    BY <1>10 DEF Ticks, Rests, Ledger, Owing, Owes
  <2> QED BY <1>4, <2>1
<1> QED
  BY <1>0, <1>1, <1>5, <1>6, <1>8, <1>9, <1>10 DEF Shape

LEMMA RecordedStart ==
  ASSUME Init
  PROVE  RecordedInv
<1> SUFFICES ASSUME NEW p \in Payments PROVE completions[p] = payouts[p] + Cardinality(Owing(p))
  BY DEF RecordedInv
<1>1. Owing(p) = {}
  BY IdleJob DEF Init, Owing, Owes
<1>2. Cardinality(Owing(p)) = 0
  BY <1>1, FS_EmptySet
<1> QED
  BY <1>2 DEF Init

(* Unless a server died or an id collided, what shows completed when no    *)
(* handler runs is on the books (patchPayment comes before                 *)
(* recordTransaction).                                                     *)
THEOREM CompletionsAreRecorded == Spec => []CompletedIsRecorded
<1>1. Init => RecordedInv
  BY RecordedStart
<1>2. TypeInv /\ RecordedInv /\ [Next]_vars => RecordedInv'
  BY RecordedStep
<1>3. TypeInv /\ RecordedInv => CompletedIsRecorded
  <2> SUFFICES ASSUME TypeInv, RecordedInv, Quiet, crashes = 0, ~collided, NEW p \in Payments
               PROVE  payouts[p] = completions[p]
    BY DEF CompletedIsRecorded
  <2>1. completions[p] = payouts[p] + Cardinality(Owing(p)) /\ payouts[p] \in Nat
    BY DEF RecordedInv, TypeInv, Typed
  <2>2. Owing(p) = {}
    BY DEF Quiet, Active, Owing, Owes
  <2>3. Cardinality(Owing(p)) = 0
    BY <2>2, FS_EmptySet
  <2> QED BY <2>1, <2>3
<1> QED
  BY <1>1, <1>2, <1>3, TypesHold, PTL DEF Spec

-----------------------------------------------------------------------------
(* The books balance while only handlers of one kind overlap.  Such        *)
(* handlers leave the same columns alone: what one of them read first, and *)
(* what it read again before it writes, agree with the row on these.       *)

Good(j, v, h) ==
  /\ j.pc \notin {"idle", "select"} => Sound(j.snap)
  /\ j.pc = "profile" /\ h > j.snap.accruedAt => h > v.accruedAt /\ j.snap = v
  /\ j.pc \in {"profile", "loaded", "refuse", "pay", "debit", "write"}
       => Kept(j.call.op, j.snap, v)
  /\ j.pc = "write" => Kept(j.call.op, j.current, v)

BooksInv ==
  /\ MixedNow => mixed
  /\ ~mixed => Sound(row) /\ \A r \in Requests : Good(job[r], row, hour)

LEMMA Watched ==
  ASSUME TypeInv, [Next]_vars
  PROVE  /\ mixed => mixed'
         /\ overlapped => overlapped'
         /\ (MixedNow => mixed) => (MixedNow' => mixed')
         /\ hour' # hour /\ ~Quiet => mixed'
         /\ \/ Cardinality({r \in Requests : Active(r)'}) > 1 => overlapped'
            \/ UNCHANGED vars
<1>1. CASE Watch
  BY <1>1, Zenon DEF Watch
<1>2. CASE UNCHANGED vars
  <2>1. UNCHANGED <<mixed, overlapped, hour, row, job>>
    BY <1>2 DEF vars, db, history
  <2>2. MixedNow' = MixedNow
    BY <2>1 DEF MixedNow, Active, Writes
  <2> QED BY <1>2, <2>1, <2>2, Zenon
<1> QED
  BY <1>1, <1>2, StepShape

LEMMA KeptIsTransitive ==
  ASSUME NEW op, NEW a, NEW b, NEW c, Kept(op, a, b), Kept(op, b, c)
  PROVE  Kept(op, a, c)
BY DEF Kept

LEMMA KeptIsSymmetric ==
  ASSUME NEW op, NEW a, NEW b, Kept(op, a, b)
  PROVE  Kept(op, b, a) /\ Kept(op, a, a)
BY DEF Kept

(* Two active handlers that write nothing unlike each other.               *)
LEMMA Alike ==
  ASSUME BooksInv, ~mixed, NEW q \in Requests, NEW r \in Requests, q # r,
         job[q].pc # "idle", job[r].pc # "idle"
  PROVE  /\ ~(hour > row.accruedAt)
         /\ job[q].call.op # "view" /\ job[r].call.op # "view"
              => job[q].call.op = job[r].call.op
BY DEF BooksInv, MixedNow, Active, Writes

LEMMA IdleIsGood ==
  ASSUME NEW j, j.pc \in {"idle", "select"}, NEW v, NEW h
  PROVE  Good(j, v, h)
BY DEF Good

(* A handler that moves while the row stands still.                        *)
LEMMA MovingStaysGood ==
  ASSUME BooksInv, ~mixed, NEW r \in Requests,
         \/ Arrives(r) \/ Loads(r) \/ Advances(r) \/ Leaves(r) \/ Settles(r) \/ Completes(r)
         \/ Reads(r) \/ Records(r)
  PROVE  \E j \in Job : Passes(r, j) /\ Good(j, row, hour)
<1>1. Sound(row) /\ Good(job[r], row, hour)
  BY DEF BooksInv
<1>2. CASE Arrives(r) \/ Leaves(r) \/ Records(r)
  <2>1. \E j \in Job : Passes(r, j) /\ j.pc \in {"idle", "select"}
    BY <1>2, IdleJob DEF Arrives, Leaves, Records
  <2> QED BY <2>1, IdleIsGood
<1>3. CASE Loads(r)
  <2>1. PICK j \in Job : Passes(r, j) /\ j.pc \in {"profile", "loaded"} /\ j.snap = row
    BY <1>3 DEF Loads
  <2>2. Good(j, row, hour)
    BY <1>1, <2>1 DEF Good, Kept
  <2> QED BY <2>1, <2>2
<1>4. CASE Advances(r) \/ Settles(r) \/ Completes(r)
  <2>1. PICK j \in Job : Onward(r, j) /\ j.pc \in {"loaded", "refuse", "pay", "debit"}
    BY <1>4 DEF Advances, Pending, Settles, Completes
  <2>2. job[r].pc \in {"profile", "loaded", "pay"}
    BY <1>4 DEF Advances, Settles, Completes
  <2>3. Good(j, row, hour)
    BY <1>1, <2>1, <2>2 DEF Good, Onward
  <2> QED BY <2>1, <2>3 DEF Onward
<1>5. CASE Reads(r)
  <2>1. PICK j \in Job : Onward(r, j) /\ j.pc = "write" /\ j.current = row
    BY <1>5 DEF Reads
  <2>2. job[r].pc = "debit"
    BY <1>5 DEF Reads
  <2>3. Good(j, row, hour)
    BY <1>1, <2>1, <2>2 DEF Good, Onward, Kept
  <2> QED BY <2>1, <2>3 DEF Onward
<1> QED
  BY <1>2, <1>3, <1>4, <1>5

(* An accrual finds no other handler active.                               *)
LEMMA EarningStaysGood ==
  ASSUME TypeInv, BooksInv, ~mixed, NEW r \in Requests, Earns(r)
  PROVE  Sound(row') /\ \A q \in Requests : Good(job'[q], row', hour)
<1>1. Sound(row) /\ Good(job[r], row, hour) /\ job[r].pc = "profile"
  BY DEF BooksInv, Earns
<1>2. job[r].snap = row /\ hour > row.accruedAt
  BY <1>1 DEF Good, Earns
<1>3. PICK j \in Job : Onward(r, j) /\ j.pc = "reselect"
  BY DEF Earns
<1>4. job'[r] = j /\ \A q \in Requests \ {r} : job'[q] = job[q]
  BY <1>3, AfterPassing DEF Onward
<1>5. Good(j, row', hour)
  BY <1>1, <1>2, <1>3 DEF Good, Onward
<1>6. \A q \in Requests \ {r} : job[q].pc = "idle"
  BY <1>1, <1>2, Alike
<1>7. Sound(row')
  BY <1>1, <1>2 DEF Earns
<1> QED
  BY <1>4, <1>5, <1>6, <1>7, IdleIsGood

(* A patch leaves what its kind leaves alone, to all that overlap it.      *)
LEMMA StoringStaysGood ==
  ASSUME TypeInv, BooksInv, ~mixed, NEW r \in Requests, Stores(r)
  PROVE  Sound(row') /\ \A q \in Requests : Good(job'[q], row', hour)
<1> DEFINE old == job[r]
           op == job[r].call.op
<1>1. Sound(row) /\ Good(old, row, hour) /\ old.pc = "write" /\ Fit(old)
  BY DEF BooksInv, Stores, TypeInv
<1>2. Sound(old.snap) /\ Kept(op, old.snap, row) /\ Kept(op, old.current, row) /\ op # "view"
  BY <1>1 DEF Good, Fit
<1>3. Kept(op, row', old.current)
      /\ (Sound(old.snap) /\ Kept(op, old.snap, old.current) => Sound(row'))
      /\ \E j \in Job : Onward(r, j) /\ j.pc = "record"
  BY DEF Stores
<1>4. Kept(op, old.snap, old.current) /\ Kept(op, row, row')
  BY <1>2, <1>3 DEF Kept
<1>5. PICK j \in Job : Onward(r, j) /\ j.pc = "record"
  BY <1>3
<1>6. job'[r] = j /\ \A q \in Requests \ {r} : job'[q] = job[q]
  BY <1>5, AfterPassing DEF Onward
<1>7. Good(j, row', hour)
  BY <1>2, <1>5 DEF Good, Onward
<1>8. ASSUME NEW q \in Requests \ {r} PROVE Good(job[q], row', hour)
  <2>1. CASE job[q].pc = "idle"
    BY <2>1, IdleIsGood
  <2>2. CASE job[q].pc # "idle"
    <3>1. Good(job[q], row, hour)
      BY DEF BooksInv
    <3>2. ~(hour > row.accruedAt) /\ (job[q].call.op # "view" => job[q].call.op = op)
      BY <1>1, <1>2, <2>2, Alike
    <3>3. ~(job[q].pc = "profile" /\ hour > job[q].snap.accruedAt)
      BY <3>1, <3>2 DEF Good
    <3>4. CASE job[q].call.op = "view"
      BY <3>1, <3>3, <3>4 DEF Good, Kept
    <3>5. CASE job[q].call.op # "view"
      <4>1. job[q].call.op = op
        BY <3>2, <3>5
      <4>2. ASSUME NEW a, Kept(op, a, row) PROVE Kept(op, a, row')
        BY <1>4, <4>2, KeptIsTransitive
      <4> HIDE DEF op
      <4> QED BY <3>1, <3>3, <4>1, <4>2 DEF Good
    <3> QED BY <3>4, <3>5
  <2> QED BY <2>1, <2>2
<1> QED
  BY <1>2, <1>3, <1>4, <1>6, <1>7, <1>8

LEMMA BooksStep ==
  ASSUME TypeInv, BooksInv, [Next]_vars
  PROVE  BooksInv'
<1>0. Shape /\ (mixed => mixed') /\ (MixedNow' => mixed') /\ (hour' # hour /\ ~Quiet => mixed')
  BY StepShape, Watched DEF BooksInv
<1> SUFFICES ASSUME ~mixed'
             PROVE  Sound(row') /\ \A q \in Requests : Good(job'[q], row', hour')
  BY <1>0 DEF BooksInv, Good, Sound, Balanced, Kept
<1>1. ~mixed /\ Sound(row) /\ \A r \in Requests : Good(job[r], row, hour)
  BY <1>0 DEF BooksInv
<1>2. ASSUME NEW r \in Requests,
             \/ Arrives(r) \/ Loads(r) \/ Advances(r) \/ Leaves(r) \/ Settles(r) \/ Completes(r)
             \/ Reads(r) \/ Records(r)
      PROVE  Sound(row') /\ \A q \in Requests : Good(job'[q], row', hour')
  <2>1. row' = row /\ hour' = hour
    BY <1>2 DEF Arrives, Loads, Advances, Leaves, Settles, Completes, Reads, Records, Ledger, Steady
  <2>2. PICK j \in Job : Passes(r, j) /\ Good(j, row, hour)
    BY <1>1, <1>2, MovingStaysGood
  <2>3. job'[r] = j /\ \A q \in Requests \ {r} : job'[q] = job[q]
    BY <2>2, AfterPassing
  <2> QED BY <1>1, <2>1, <2>2, <2>3
<1>3. ASSUME NEW r \in Requests, Earns(r) \/ Stores(r)
      PROVE  Sound(row') /\ \A q \in Requests : Good(job'[q], row', hour')
  <2>1. hour' = hour
    BY <1>3 DEF Earns, Stores, Steady
  <2> QED BY <1>1, <1>3, <2>1, EarningStaysGood, StoringStaysGood
<1>4. CASE Dies
  <2>1. \A q \in Requests : Good(job'[q], row, hour)
    BY <1>1, <1>4, IdleJob, IdleIsGood DEF Dies
  <2> QED BY <1>1, <1>4, <2>1 DEF Dies, Ledger
<1>5. CASE Ticks
  <2>1. Quiet /\ job' = job /\ row' = row
    BY <1>0, <1>5 DEF Ticks, Ledger
  <2> QED BY <1>1, <2>1, IdleIsGood DEF Quiet, Active
<1>6. CASE Rests
  BY <1>1, <1>6 DEF Rests, Ledger, Steady
<1> QED
  BY <1>0, <1>2, <1>3, <1>4, <1>5, <1>6 DEF Shape

LEMMA BooksStart ==
  ASSUME Init
  PROVE  BooksInv
<1>1. Sound(row) /\ \A r \in Requests : job[r] = Idle
  BY IdleJob DEF Init
<1>2. \A r \in Requests : Good(job[r], row, hour)
  BY <1>1, IdleJob, IdleIsGood
<1>3. ~MixedNow
  BY <1>1, IdleJob DEF MixedNow, Active
<1> QED
  BY <1>1, <1>2, <1>3 DEF BooksInv

LEMMA BooksHold == Spec => []BooksInv
<1>1. Init => BooksInv
  BY BooksStart
<1>2. TypeInv /\ BooksInv /\ [Next]_vars => BooksInv'
  BY BooksStep
<1> QED
  BY <1>1, <1>2, TypesHold, PTL DEF Spec

(* While only handlers of one kind overlap and no interest is due, the     *)
(* buckets of the row hold its total and at most a cent more, however many *)
(* updates patchVault loses.                                               *)
THEOREM RowsAreBalanced == Spec => []RowBalanced
<1>1. BooksInv => RowBalanced
  BY DEF BooksInv, RowBalanced, Sound
<1> QED
  BY <1>1, BooksHold, PTL

(* Every variable keeps its type: no patch stores a negative liquid        *)
(* balance, and no bucket is overdrawn while only handlers of one kind     *)
(* overlap and no interest is due.                                         *)
THEOREM EngineIsTyped == Spec => []EngineTypeOK
<1>1. TypeInv /\ BooksInv => EngineTypeOK
  BY DEF TypeInv, Typed, BooksInv, Sound, EngineTypeOK
<1> QED
  BY <1>1, TypesHold, BooksHold, PTL

-----------------------------------------------------------------------------
(* Without overlap the total follows the transactions rows.                *)

Booked == OpeningTotal + deposited + earned - PaidOut - staked

AuditInv ==
  ~overlapped /\ crashes = 0 /\ ~collided =>
    /\ \A q, r \in Requests : Active(q) /\ Active(r) => q = r
    /\ \A r \in Requests :
         job[r].pc \in {"profile", "loaded", "refuse", "pay", "debit", "write"}
           => job[r].snap.total = row.total
    /\ (\A r \in Requests : job[r].pc # "record") => row.total = Booked
    /\ \A r \in Requests :
         job[r].pc = "record" => row.total = Booked + Change(job[r].call)

LEMMA AtMostOne ==
  ASSUME NEW A \in SUBSET Requests, ~(Cardinality(A) > 1), NEW a \in A, NEW b \in A
  PROVE  a = b
<1> SUFFICES ASSUME a # b PROVE FALSE
  OBVIOUS
<1>1. IsFiniteSet({a}) /\ Cardinality({a}) = 1
  BY FS_Singleton
<1>2. Cardinality({a} \cup {b}) = 2
  <2> DEFINE S == {a}
  <2>1. b \notin S /\ IsFiniteSet(S) /\ Cardinality(S) = 1
    BY <1>1
  <2> HIDE DEF S
  <2>2. Cardinality(S \cup {b}) = Cardinality(S) + 1
    BY <2>1, FS_AddElement
  <2> QED BY <2>1, <2>2 DEF S
<1>3. Cardinality({a} \cup {b}) <= Cardinality(A) /\ Cardinality(A) \in Nat
  BY FewerCounted
<1> QED
  BY <1>2, <1>3

LEMMA ProductIsNat ==
  ASSUME NEW n \in Nat, NEW a \in Nat
  PROVE  n * a \in Int /\ (n + 1) * a = n * a + a
BY Z3

LEMMA PaidOutIsNumber ==
  ASSUME TypeInv
  PROVE  PaidOut \in Int
<1> DEFINE f == [p \in Payments |-> payouts[p] * info[p].amount]
<1>1. \A p \in Payments : f[p] \in Int
  <2> SUFFICES ASSUME NEW p \in Payments PROVE payouts[p] * info[p].amount \in Int
    OBVIOUS
  <2>1. payouts[p] \in Nat /\ info[p].amount \in Nat
    BY PaymentsHaveInfo DEF TypeInv, Typed
  <2> QED BY <2>1, ProductIsNat
<1> HIDE DEF f
<1>2. SumFunctionOnSet(f, Payments) \in Int
  BY <1>1, SumInt, PaymentsAssumption
<1> QED
  BY <1>2 DEF PaidOut, f

(* One more payout adds the amount of its payment.                         *)
LEMMA PaidOutGrows ==
  ASSUME TypeInv, NEW q \in Payments, payouts' = [payouts EXCEPT ![q] = @ + 1]
  PROVE  PaidOut' = PaidOut + info[q].amount
<1> DEFINE f == [p \in Payments |-> payouts[p] * info[p].amount]
           g == [p \in Payments |-> payouts'[p] * info[p].amount]
           a == info[q].amount
<1>1. \A p \in Payments : payouts[p] \in Nat /\ payouts'[p] \in Nat /\ info[p].amount \in Nat
  BY PaymentsHaveInfo DEF TypeInv, Typed
<1>2. \A p \in Payments \ {q} : payouts'[p] = payouts[p]
  BY DEF TypeInv, Typed
<1>3. payouts'[q] = payouts[q] + 1
  BY DEF TypeInv, Typed
<1>4. \A p \in Payments : f[p] \in Int /\ g[p] \in Int
  BY <1>1, ProductIsNat
<1>5. \A p \in Payments \ {q} : f[p] = g[p]
  BY <1>2
<1>6. g[q] = f[q] + a /\ f[q] \in Int /\ a \in Int
  <2>1. payouts[q] \in Nat /\ a \in Nat
    BY <1>1
  <2>2. (payouts[q] + 1) * a = payouts[q] * a + a
    BY <2>1, ProductIsNat
  <2>3. f[q] = payouts[q] * a /\ g[q] = payouts'[q] * a
    OBVIOUS
  <2> QED BY <1>3, <1>4, <2>1, <2>2, <2>3
<1> HIDE DEF f, g, a
<1>7. SumFunctionOnSet(g, Payments) + f[q] = SumFunctionOnSet(f, Payments) + g[q]
  BY <1>4, <1>5, SumUpdate, PaymentsAssumption
<1>8. SumFunctionOnSet(f, Payments) \in Int /\ SumFunctionOnSet(g, Payments) \in Int
  BY <1>4, SumInt, PaymentsAssumption
<1>9. SumFunctionOnSet(g, Payments) = SumFunctionOnSet(f, Payments) + a
  <2> DEFINE F == SumFunctionOnSet(f, Payments)
             G == SumFunctionOnSet(g, Payments)
  <2>1. G + f[q] = F + g[q] /\ F \in Int /\ G \in Int
    BY <1>7, <1>8
  <2> HIDE DEF F, G
  <2>2. G = F + a
    BY <1>6, <2>1
  <2> QED BY <2>2 DEF F, G
<1>10. PaidOut' = SumFunctionOnSet(g, Payments) /\ PaidOut = SumFunctionOnSet(f, Payments)
  BY DEF PaidOut, f, g
<1> QED
  BY <1>9, <1>10 DEF a

LEMMA BookedStays ==
  ASSUME UNCHANGED <<deposited, earned, payouts, staked>>
  PROVE  Booked' = Booked
BY DEF Booked, PaidOut

LEMMA BookedIsNumber ==
  ASSUME TypeInv
  PROVE  /\ Booked \in Int /\ OpeningTotal \in Int /\ deposited \in Int /\ earned \in Int
         /\ staked \in Int /\ PaidOut \in Int
<1>1. /\ OpeningTotal \in Int /\ deposited \in Int /\ earned \in Int /\ staked \in Int
      /\ PaidOut \in Int
  BY AmountsAssumption, PaidOutIsNumber DEF TypeInv, Typed
<1> QED
  BY <1>1 DEF Booked

(* What a handler records is the change it made.                           *)
LEMMA BookedByRecord ==
  ASSUME TypeInv, NEW r \in Requests, Records(r)
  PROVE  Booked' = Booked + Change(job[r].call)
<1>1. /\ OpeningTotal \in Int /\ deposited \in Int /\ earned \in Int /\ staked \in Int
      /\ PaidOut \in Int
  BY BookedIsNumber
<1>2. /\ job[r].call.amount \in Nat /\ earned' = earned
      /\ job[r].call.op = "execute" =>
           job[r].call.payment \in Payments /\ job[r].call.amount = info[job[r].call.payment].amount
  BY AtFields, CallFields DEF Fit, Records
<1> DEFINE a == job[r].call.amount
<1>3. CASE /\ job[r].call.op = "execute"
           /\ payouts' = [payouts EXCEPT ![job[r].call.payment] = @ + 1]
           /\ UNCHANGED <<deposited, staked>>
  <2>1. PaidOut' = PaidOut + a
    BY <1>2, <1>3, PaidOutGrows
  <2>2. Change(job[r].call) = 0 - a
    BY <1>3 DEF Change
  <2>3. Booked' = OpeningTotal + deposited + earned - PaidOut' - staked
    BY <1>2, <1>3 DEF Booked
  <2>4. a \in Nat
    BY <1>2
  <2> HIDE DEF a
  <2> QED BY <1>1, <2>1, <2>2, <2>3, <2>4 DEF Booked
<1>4. CASE /\ job[r].call.op = "topup" /\ deposited' = deposited + a
           /\ UNCHANGED <<payouts, staked>>
  <2>1. PaidOut' = PaidOut /\ Change(job[r].call) = a
    BY <1>4 DEF PaidOut, Change
  <2>2. Booked' = OpeningTotal + (deposited + a) + earned - PaidOut - staked
    BY <1>2, <1>4, <2>1 DEF Booked
  <2>3. a \in Nat
    BY <1>2
  <2> HIDE DEF a
  <2> QED BY <1>1, <2>1, <2>2, <2>3 DEF Booked
<1>5. CASE /\ job[r].call.op = "stake" /\ staked' = staked + a
           /\ UNCHANGED <<payouts, deposited>>
  <2>1. PaidOut' = PaidOut /\ Change(job[r].call) = 0 - a
    BY <1>5 DEF PaidOut, Change
  <2>2. Booked' = OpeningTotal + deposited + earned - PaidOut - (staked + a)
    BY <1>2, <1>5, <2>1 DEF Booked
  <2>3. a \in Nat
    BY <1>2
  <2> HIDE DEF a
  <2> QED BY <1>1, <2>1, <2>2, <2>3 DEF Booked
<1> QED
  BY <1>3, <1>4, <1>5 DEF Records

LEMMA AuditStep ==
  ASSUME TypeInv, AuditInv, [Next]_vars
  PROVE  AuditInv'
<1>0. Shape /\ (overlapped => overlapped')
  BY StepShape, Watched
<1> SUFFICES ASSUME ~overlapped', crashes' = 0, ~collided'
             PROVE  /\ \A q, r \in Requests :
                         job'[q].pc # "idle" /\ job'[r].pc # "idle" => q = r
                    /\ \A r \in Requests :
                         job'[r].pc \in {"profile", "loaded", "refuse", "pay", "debit", "write"}
                           => job'[r].snap.total = (row').total
                    /\ (\A r \in Requests : job'[r].pc # "record") => (row').total = Booked'
                    /\ \A r \in Requests :
                         job'[r].pc = "record" => (row').total = Booked' + Change(job'[r].call)
  BY DEF AuditInv, Active, Change
<1>1. crashes \in Nat /\ collided \in BOOLEAN /\ job \in [Requests -> Job] /\ row \in Row
  BY BoundsAssumption DEF TypeInv, Typed
<1>2. ~Dies
  <2>1. crashes + 1 # 0
    BY <1>1
  <2> QED BY <2>1 DEF Dies
<1>3. ~overlapped /\ crashes = 0 /\ ~collided
  BY <1>0, <1>2 DEF Shape, Arrives, Loads, Advances, Leaves, Earns, Settles, Completes, Reads,
                    Stores, Records, Ticks, Rests, Steady
<1>4. /\ \A q, r \in Requests : job[q].pc # "idle" /\ job[r].pc # "idle" => q = r
      /\ \A r \in Requests :
           job[r].pc \in {"profile", "loaded", "refuse", "pay", "debit", "write"}
             => job[r].snap.total = row.total
      /\ (\A r \in Requests : job[r].pc # "record") => row.total = Booked
      /\ \A r \in Requests : job[r].pc = "record" => row.total = Booked + Change(job[r].call)
  BY <1>3 DEF AuditInv, Active
<1>5. \A q, r \in Requests : job'[q].pc # "idle" /\ job'[r].pc # "idle" => q = r
  <2>1. CASE UNCHANGED vars
    BY <1>4, <2>1 DEF vars
  <2>2. CASE Cardinality({r \in Requests : Active(r)'}) > 1 => overlapped'
    <3> DEFINE A == {r \in Requests : Active(r)'}
    <3>1. A \in SUBSET Requests /\ ~(Cardinality(A) > 1)
      BY <2>2
    <3>2. \A r \in Requests : job'[r].pc # "idle" => r \in A
      BY DEF Active
    <3> HIDE DEF A
    <3> QED BY <3>1, <3>2, AtMostOne
  <2> QED BY <2>1, <2>2, Watched
<1>6. ASSUME NEW r \in Requests, NEW j \in Job, Passes(r, j), row' = row, Booked' = Booked,
             job[r].pc # "record", j.pc # "record",
             j.pc \in {"profile", "loaded", "refuse", "pay", "debit", "write"}
               => j.snap.total = row.total
      PROVE  AuditInv'
  <2>1. job'[r] = j /\ \A q \in Requests \ {r} : job'[q] = job[q]
    BY <1>6, AfterPassing
  <2>2. \A q \in Requests :
          job'[q].pc \in {"profile", "loaded", "refuse", "pay", "debit", "write"}
            => job'[q].snap.total = (row').total
    BY <1>4, <1>6, <2>1
  <2>3. (\A q \in Requests : job'[q].pc # "record") => \A q \in Requests : job[q].pc # "record"
    BY <1>6, <2>1
  <2>4. \A q \in Requests :
          job'[q].pc = "record" => (row').total = Booked' + Change(job'[q].call)
    BY <1>4, <1>6, <2>1
  <2> QED BY <1>4, <1>5, <1>6, <2>2, <2>3, <2>4 DEF AuditInv, Active, Change
<1>7. ASSUME NEW r \in Requests, Arrives(r) \/ Loads(r) \/ Advances(r) \/ Leaves(r) \/ Settles(r)
                                 \/ Completes(r) \/ Reads(r)
      PROVE  AuditInv'
  <2>1. row' = row /\ Booked' = Booked /\ job[r].pc # "record"
    <3>1. UNCHANGED <<row, deposited, earned, payouts, staked>> /\ job[r].pc # "record"
      BY <1>7 DEF Arrives, Loads, Advances, Leaves, Settles, Completes, Reads, Ledger
    <3> QED BY <3>1, BookedStays
  <2>2. CASE Arrives(r) \/ Leaves(r)
    <3>1. \E j \in Job : Passes(r, j) /\ j.pc \in {"idle", "select"}
      BY <2>2, IdleJob DEF Arrives, Leaves
    <3> QED BY <1>6, <2>1, <3>1
  <2>3. CASE Loads(r)
    <3>1. \E j \in Job : Passes(r, j) /\ j.pc # "record" /\ j.snap = row
      BY <2>3 DEF Loads
    <3> QED BY <1>6, <2>1, <3>1
  <2>4. CASE Advances(r) \/ Settles(r) \/ Completes(r) \/ Reads(r)
    <3>1. /\ job[r].pc \in {"profile", "loaded", "pay", "debit"}
          /\ \E j \in Job : Onward(r, j) /\ j.pc # "record"
      BY <2>4 DEF Advances, Pending, Settles, Completes, Reads
    <3>2. job[r].snap.total = row.total
      BY <1>4, <3>1
    <3> QED BY <1>6, <2>1, <3>1, <3>2 DEF Onward
  <2> QED BY <1>7, <2>2, <2>3, <2>4
<1>8. ASSUME NEW r \in Requests, job[r].pc # "idle", NEW j \in Job, Passes(r, j)
      PROVE  /\ job'[r] = j /\ \A q \in Requests \ {r} : job'[q].pc = "idle" /\ job[q].pc = "idle"
  BY <1>4, <1>8, AfterPassing
<1>9. ASSUME NEW r \in Requests, Earns(r)
      PROVE  AuditInv'
  <2>1. PICK j \in Job : Passes(r, j) /\ j.pc = "reselect"
    BY <1>9 DEF Earns, Onward
  <2>2. job[r].pc = "profile" /\ UNCHANGED <<deposited, payouts, staked>>
    BY <1>9 DEF Earns
  <2>3. PICK i \in Nat : earned' = earned + i /\ (row').total = job[r].snap.total + i
    BY <1>9 DEF Earns
  <2>4. job'[r] = j /\ \A q \in Requests \ {r} : job'[q].pc = "idle" /\ job[q].pc = "idle"
    BY <1>8, <2>1, <2>2
  <2>5. job[r].snap.total = row.total /\ row.total = Booked
    BY <1>4, <2>2, <2>4
  <2>6. PaidOut' = PaidOut
    BY <2>2 DEF PaidOut
  <2>7. Booked' = Booked + i
    <3>1. Booked' = OpeningTotal + deposited + (earned + i) - PaidOut - staked
      BY <2>2, <2>3, <2>6 DEF Booked
    <3> QED BY <3>1, BookedIsNumber DEF Booked
  <2>8. (row').total = Booked'
    BY <2>3, <2>5, <2>7
  <2>9. \A q \in Requests : job'[q].pc \in {"idle", "reselect"}
    BY <2>1, <2>4
  <2> QED BY <1>5, <2>8, <2>9 DEF AuditInv, Active
<1>10. ASSUME NEW r \in Requests, Stores(r)
       PROVE  AuditInv'
  <2>1. PICK j \in Job : Onward(r, j) /\ j.pc = "record"
    BY <1>10 DEF Stores
  <2>2. /\ job[r].pc = "write" /\ UNCHANGED <<deposited, earned, payouts, staked>>
        /\ (row').total = job[r].snap.total + Change(job[r].call)
    BY <1>10 DEF Stores
  <2>3. job'[r] = j /\ \A q \in Requests \ {r} : job'[q].pc = "idle" /\ job[q].pc = "idle"
    BY <1>8, <2>1, <2>2 DEF Onward
  <2>4. job[r].snap.total = row.total /\ row.total = Booked /\ Booked' = Booked
    BY <1>4, <2>2, <2>3, BookedStays
  <2>5. j.call = job[r].call
    BY <2>1 DEF Onward
  <2>6. (row').total = Booked' + Change(job'[r].call)
    BY <2>2, <2>3, <2>4, <2>5
  <2>7. \A q \in Requests : q = r \/ job'[q].pc = "idle"
    BY <2>3
  <2>8. job'[r].pc = "record"
    BY <2>1, <2>3
  <2> QED BY <1>5, <2>6, <2>7, <2>8 DEF AuditInv, Active, Change
<1>11. ASSUME NEW r \in Requests, Records(r)
       PROVE  AuditInv'
  <2>1. PICK j \in Job : Passes(r, j) /\ j.pc \in {"idle", "select"}
    BY <1>11 DEF Records
  <2>2. job[r].pc = "record" /\ row' = row
    BY <1>11 DEF Records
  <2>3. job'[r] = j /\ \A q \in Requests \ {r} : job'[q].pc = "idle" /\ job[q].pc = "idle"
    BY <1>8, <2>1, <2>2
  <2>4. row.total = Booked + Change(job[r].call)
    BY <1>4, <2>2
  <2>5. (row').total = Booked'
    BY <1>11, <2>2, <2>4, BookedByRecord
  <2>6. \A q \in Requests : job'[q].pc \in {"idle", "select"}
    BY <2>1, <2>3
  <2> QED BY <1>5, <2>5, <2>6 DEF AuditInv, Active
<1>12. ASSUME Ticks \/ Rests
       PROVE  AuditInv'
  <2>1. UNCHANGED <<row, job, deposited, earned, payouts, staked>>
    BY <1>12 DEF Ticks, Rests, Ledger
  <2>2. Booked' = Booked
    BY <2>1, BookedStays
  <2> QED BY <1>4, <2>1, <2>2 DEF AuditInv, Active, Change
<1>13. AuditInv'
  BY <1>0, <1>2, <1>7, <1>9, <1>10, <1>11, <1>12 DEF Shape
<1> QED
  BY <1>3, <1>13 DEF AuditInv, Active, Change

LEMMA AuditStart ==
  ASSUME Init
  PROVE  AuditInv
<1>1. \A r \in Requests : job[r] = Idle
  BY DEF Init
<1>2. row.total = Booked
  <2>1. PaidOut = 0
    <3> DEFINE f == [p \in Payments |-> payouts[p] * info[p].amount]
    <3>1. \A p \in Payments : f[p] = 0
      <4> SUFFICES ASSUME NEW p \in Payments PROVE payouts[p] * info[p].amount = 0
        OBVIOUS
      <4>1. payouts[p] = 0 /\ info[p].amount \in Nat
        BY PaymentsHaveInfo DEF Init
      <4> QED BY <4>1
    <3> HIDE DEF f
    <3>2. SumFunctionOnSet(f, Payments) = 0
      BY <3>1, SumZero, PaymentsAssumption
    <3> QED BY <3>2 DEF PaidOut, f
  <2>2. row.total = OpeningTotal /\ deposited = 0 /\ earned = 0 /\ staked = 0
    BY IdleJob DEF Init
  <2> QED BY <2>1, <2>2, AmountsAssumption DEF Booked
<1> QED
  BY <1>1, <1>2, IdleJob DEF AuditInv, Active

(* Without overlap, crash or collision the total is the opening balance,   *)
(* the deposits and the interest, less every payout and stake on record.   *)
THEOREM TotalsAreAudited == Spec => []AuditTrail
<1>1. Init => AuditInv
  BY AuditStart
<1>2. TypeInv /\ AuditInv /\ [Next]_vars => AuditInv'
  BY AuditStep
<1>3. AuditInv => AuditTrail
  BY DEF AuditInv, AuditTrail, Quiet, Active, Booked
<1> QED
  BY <1>1, <1>2, <1>3, TypesHold, PTL DEF Spec
=============================================================================
