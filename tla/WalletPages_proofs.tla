------------------------- MODULE WalletPages_proofs -------------------------
(***************************************************************************)
(* Proofs about WalletPages, for any queue, any inputs and amounts, any    *)
(* number of chains, stays and acts.                                       *)
(***************************************************************************)
EXTENDS WalletPages, FiniteSetTheorems, TLAPS

(* Only the clock changes the day, and it changes nothing else.            *)
LEMMA OnlyTimePasses == today' # today /\ [Next]_vars => TimePasses
BY DEF Next, User, ChainStep, ListStep, vars, Open, Refresh, openModal, closeModal, handleSave,
       handlePayNow, handleStake, handleDeposit, handleWithdraw, handleSend, Starts, Signed, Rejected,
       Prepared, Confirmed, Served, Told, Breaks, Withdrawn, PrivateServed, PrivateLanded, ListServed,
       ListLanded, refreshVault, patchVault

LEMMA DaysAreDays == Spec => [](today \in Days)
<1>1. Init => today \in Days
  BY PagesAssumption DEF Init
<1>2. today \in Days /\ [Next]_vars => (today \in Days)'
  BY OnlyTimePasses DEF TimePasses
<1> QED
  BY <1>1, <1>2, PTL DEF Spec

(* A day nearer the due date, with the same row and the same statuses.     *)
LEMMA LaterDay ==
  ASSUME today \in Days, TimePasses
  PROVE  /\ today \in Int /\ today' \in Int /\ today' > today
         /\ row' = row /\ status' = status
BY PagesAssumption DEF TimePasses, server

(* An item's days run down or, for an event, stand still.                  *)
LEMMA DaysRunDown ==
  ASSUME today \in Days, TimePasses, NEW i \in Items
  PROVE  /\ daysUntil(i, today) \in Int /\ daysUntil(i, today') \in Int
         /\ daysUntil(i, today') <= daysUntil(i, today)
BY LaterDay, PagesAssumption DEF daysUntil

(* An item is classified, and fewer days never classify it worse.          *)
Rank(class) ==
  CASE class = "ready_to_pay" -> 0 [] class = "ready_soon" -> 1 [] class = "scheduled" -> 2
    [] class = "predicted" -> 3 [] class = "detected" -> 4 [] class = "blocked_by_policy" -> 5

LEMMA Ranks ==
  /\ Rank("ready_to_pay") = 0 /\ Rank("ready_soon") = 1 /\ Rank("scheduled") = 2
  /\ Rank("predicted") = 3 /\ Rank("detected") = 4 /\ Rank("blocked_by_policy") = 5
BY DEF Rank

LEMMA FewerDaysRankNoWorse ==
  ASSUME NEW d \in Int, NEW e \in Int, e <= d, NEW c \in 0..100,
         NEW healthy \in BOOLEAN, NEW allowed \in BOOLEAN,
         NEW D, D = classifyStatus(d, c, healthy, allowed),
         NEW E, E = classifyStatus(e, c, healthy, allowed)
  PROVE  Rank(D) \in 0..5 /\ Rank(E) \in 0..5 /\ Rank(E) <= Rank(D)
<1>1. /\ ~allowed \/ (~healthy /\ d > 3) => D = "blocked_by_policy"
      /\ allowed /\ (healthy \/ d <= 3) =>
           /\ c < 50 => D = "detected"
           /\ c \in 50..64 => D = "predicted"
           /\ c >= 65 /\ d <= 7 => D = "ready_to_pay"
           /\ c >= 65 /\ d \in 8..14 => D = "ready_soon"
           /\ c >= 65 /\ d > 14 => D = "scheduled"
  BY DEF classifyStatus
<1>2. /\ ~allowed \/ (~healthy /\ e > 3) => E = "blocked_by_policy"
      /\ allowed /\ (healthy \/ e <= 3) =>
           /\ c < 50 => E = "detected"
           /\ c \in 50..64 => E = "predicted"
           /\ c >= 65 /\ e <= 7 => E = "ready_to_pay"
           /\ c >= 65 /\ e \in 8..14 => E = "ready_soon"
           /\ c >= 65 /\ e > 14 => E = "scheduled"
  BY DEF classifyStatus
<1> QED
  BY <1>1, <1>2, Ranks

LEMMA NoDemotion ==
  ASSUME today \in Days, TimePasses, NEW i \in Items
  PROVE  Place(i)' <= Place(i)
<1> DEFINE d == daysUntil(i, today)
           e == daysUntil(i, today')
           healthy == reserveHealthy(row)
           allowed == policyAllows(i, row)
           c == Confidence(i)
<1>1. row' = row /\ status' = status
  BY LaterDay
<1>2. d \in Int /\ e \in Int /\ e <= d
  BY DaysRunDown
<1>3. c \in 0..100 /\ healthy \in BOOLEAN /\ allowed \in BOOLEAN
  BY PagesAssumption DEF Confidence, reserveHealthy, policyAllows
<1>4. QueueStatus(i) = classifyStatus(d, c, healthy, allowed)
      /\ QueueStatus(i)' = classifyStatus(e, c, healthy, allowed)
  BY <1>1 DEF QueueStatus
<1>5. i \in queue => i \in queue'
  BY <1>1, <1>2 DEF queue, Listed
<1> HIDE DEF d, e, c, healthy, allowed
<1>6. /\ Rank(QueueStatus(i)) \in 0..5
      /\ Rank(QueueStatus(i)') <= Rank(QueueStatus(i))
      /\ Rank(QueueStatus(i)') \in 0..5
  BY <1>2, <1>3, <1>4, FewerDaysRankNoWorse
<1>7. Place(i) = (IF i \notin queue THEN 6 ELSE Rank(QueueStatus(i)))
      /\ Place(i)' = (IF i \notin queue' THEN 6 ELSE Rank(QueueStatus(i)'))
  BY DEF Place, Rank
<1> QED
  BY <1>5, <1>6, <1>7

(* The surcharge for urgency falls as the hours grow.                      *)
LEMMA SurchargeMonotone ==
  ASSUME NEW h \in Int, NEW k \in Int, k <= h
  PROVE  /\ urgencySurcharge(h) \in 0..60 /\ urgencySurcharge(k) \in 0..60
         /\ urgencySurcharge(k) >= urgencySurcharge(h)
BY DEF urgencySurcharge

(* A clamp keeps the order and the band.                                   *)
LEMMA ClampMonotone ==
  ASSUME NEW n \in Int, NEW m \in Int, n <= m
  PROVE  Clamped(25, n, 200) \in 25..200 /\ Clamped(25, m, 200) >= Clamped(25, n, 200)
BY DEF Clamped

LEMMA DiscountIsNumber ==
  ASSUME NEW amount \in Nat
  PROVE  sizeDiscount(amount) \in Int
BY SMT DEF sizeDiscount

LEMMA FeeMonotone ==
  ASSUME NEW amount \in Nat, NEW h \in Int, NEW k \in Int, k <= h, NEW recurring \in BOOLEAN
  PROVE  /\ computeProtocolFee(amount, h, recurring, 15, 10) \in 25..200
         /\ computeProtocolFee(amount, k, recurring, 15, 10)
              >= computeProtocolFee(amount, h, recurring, 15, 10)
<1> DEFINE rest == Scored(15, 50) + Scored(10, 40) - (IF recurring THEN 10 ELSE 0) - sizeDiscount(amount)
           n == 40 + urgencySurcharge(h) + rest
           m == 40 + urgencySurcharge(k) + rest
<1>1. Scored(15, 50) \in Int /\ Scored(10, 40) \in Int
  BY DEF Scored
<1>2. sizeDiscount(amount) \in Int
  BY DiscountIsNumber
<1>3. rest \in Int
  BY <1>1, <1>2
<1>4. computeProtocolFee(amount, h, recurring, 15, 10) = Clamped(25, n, 200)
      /\ computeProtocolFee(amount, k, recurring, 15, 10) = Clamped(25, m, 200)
  <2>1. n = 40 + urgencySurcharge(h) + Scored(15, 50) + Scored(10, 40)
            - (IF recurring THEN 10 ELSE 0) - sizeDiscount(amount)
        /\ m = 40 + urgencySurcharge(k) + Scored(15, 50) + Scored(10, 40)
            - (IF recurring THEN 10 ELSE 0) - sizeDiscount(amount)
    BY <1>1, <1>2, SurchargeMonotone
  <2> HIDE DEF n, m
  <2> QED BY <2>1 DEF computeProtocolFee
<1>5. n \in Int /\ m \in Int /\ n <= m
  <2> HIDE DEF rest
  <2> QED BY <1>3, SurchargeMonotone
<1> HIDE DEF n, m
<1> QED
  BY <1>4, <1>5, ClampMonotone

LEMMA NoDiscount ==
  ASSUME today \in Days, TimePasses, NEW i \in Items
  PROVE  QueueFee(i)' >= QueueFee(i)
<1> DEFINE d == daysUntil(i, today)
           e == daysUntil(i, today')
           recurring == Info[i].source \in {"pattern", "event"} \/ Info[i].recurring
<1>1. d \in Int /\ e \in Int /\ e <= d
  BY DaysRunDown
<1>2. Info[i].amount \in Nat /\ recurring \in BOOLEAN
  BY PagesAssumption
<1>3. QueueFee(i) = computeProtocolFee(Info[i].amount, d * 24, recurring, 15, 10)
      /\ QueueFee(i)' = computeProtocolFee(Info[i].amount, e * 24, recurring, 15, 10)
  BY DEF QueueFee
<1> HIDE DEF d, e, recurring
<1>4. d * 24 \in Int /\ e * 24 \in Int /\ e * 24 <= d * 24
  BY <1>1
<1> QED
  BY <1>2, <1>3, <1>4, FeeMonotone

(* As a due date comes near, or passes, an item never loses its place and  *)
(* never becomes cheaper to pay.                                           *)
THEOREM NearerIsNeverBehind == Spec => TimeOnlyPresses
<1>1. today \in Days /\ [Next]_vars
        => [today' # today =>
              \A i \in Items : Place(i)' <= Place(i) /\ QueueFee(i)' >= QueueFee(i)]_vars
  BY OnlyTimePasses, NoDemotion, NoDiscount
<1> QED
  BY <1>1, DaysAreDays, PTL DEF Spec, TimeOnlyPresses

-----------------------------------------------------------------------------
(* Rounding a share to the cent, and dividing a total anew.                *)

LEMMA RoundedBounds ==
  ASSUME NEW n \in Nat, NEW pct \in 0..100
  PROVE  /\ n * pct \in Nat /\ Rounded(n, pct) \in Nat
         /\ 100 * Rounded(n, pct) <= n * pct + 50
<1>1. n * pct \in Nat
  BY Z3
<1>2. ASSUME NEW x \in Nat
      PROVE  (x + 50) \div 100 \in Nat /\ 100 * ((x + 50) \div 100) <= x + 50
  BY Z3
<1> QED
  BY <1>1, <1>2 DEF Rounded

LEMMA SharesOfWhole ==
  ASSUME NEW n \in Nat, NEW y \in Nat, NEW s \in Nat, NEW p \in Nat, y + s + p <= 100
  PROVE  n * y + n * s + n * p <= 100 * n
<1>1. n * y + n * s + n * p = n * (y + s + p)
  BY Z3
<1>2. n * (y + s + p) <= n * 100
  BY Z3
<1> QED
  BY <1>1, <1>2, Z3

LEMMA TopUpBalances ==
  ASSUME NEW r \in Row, NEW amount \in Int, r.total + amount >= 0
  PROVE  ToppedUp(r, amount) \in Row /\ Balanced(ToppedUp(r, amount))
<1> DEFINE total == r.total + amount
           y == Rounded(total, r.alloc.yield)
           s == Rounded(total, r.alloc.reserve)
           p == Rounded(total, r.alloc.payments)
           l == Max0(total - y - s - p)
           t == ToppedUp(r, amount)
<1>1. total \in Nat /\ r.alloc \in Shares
  BY DEF Row
<1>2. /\ r.alloc.yield \in 0..100 /\ r.alloc.reserve \in 0..100 /\ r.alloc.payments \in 0..100
      /\ r.alloc.yield + r.alloc.reserve + r.alloc.payments <= 100
  BY <1>1 DEF Shares
<1>3. /\ y \in Nat /\ 100 * y <= total * r.alloc.yield + 50
      /\ s \in Nat /\ 100 * s <= total * r.alloc.reserve + 50
      /\ p \in Nat /\ 100 * p <= total * r.alloc.payments + 50
      /\ total * r.alloc.yield \in Nat /\ total * r.alloc.reserve \in Nat
      /\ total * r.alloc.payments \in Nat
  <2> HIDE DEF total
  <2> QED BY <1>1, <1>2, RoundedBounds
<1>4. total * r.alloc.yield + total * r.alloc.reserve + total * r.alloc.payments <= 100 * total
  <2> DEFINE a == r.alloc.yield
             b == r.alloc.reserve
             c == r.alloc.payments
  <2>1. a \in Nat /\ b \in Nat /\ c \in Nat /\ a + b + c <= 100
    BY <1>2
  <2> HIDE DEF total, a, b, c
  <2>2. total * a + total * b + total * c <= 100 * total
    BY <1>1, <2>1, SharesOfWhole
  <2> QED BY <2>2 DEF a, b, c
<1>5. y + s + p <= total + 1
  <2> HIDE DEF total, y, s, p
  <2>1. ASSUME NEW a \in Nat, NEW b \in Nat, NEW c \in Nat, a + b + c <= 100 * total,
               100 * y <= a + 50, 100 * s <= b + 50, 100 * p <= c + 50
        PROVE  y + s + p <= total + 1
    BY <1>1, <1>3, <2>1
  <2> QED BY <1>3, <1>4, <2>1
<1>6. l \in Nat /\ y + s + l + p - total \in {0, 1}
  <2> HIDE DEF total, y, s, p
  <2> QED BY <1>1, <1>3, <1>5 DEF Max0
<1>7. t = [r EXCEPT !.total = total, !.yield = y, !.reserve = s, !.payments = p, !.liquid = l]
  BY DEF ToppedUp
<1> HIDE DEF total, y, s, p, l, t
<1>8. /\ t \in Row /\ t.total = total /\ t.yield = y /\ t.reserve = s /\ t.payments = p /\ t.liquid = l
  <2>1. total \in Int /\ y \in Int /\ s \in Int /\ p \in Int /\ l \in Int
    BY <1>1, <1>3, <1>6
  <2> QED BY <1>7, <2>1 DEF Row
<1>9. Balanced(t)
  BY <1>1, <1>3, <1>6, <1>8 DEF Balanced
<1> QED
  BY <1>8, <1>9 DEF t

LEMMA StakeBalances ==
  ASSUME NEW r \in Row, NEW amount \in Nat
  PROVE  /\ Staked(r, amount) \in Row
         /\ Balanced(r) /\ amount <= r.yield => Balanced(Staked(r, amount))
<1> DEFINE t == Staked(r, amount)
<1> DEFINE yield == r.yield - amount
           total == r.total - amount
<1>1. t = [r EXCEPT !.yield = yield, !.total = total]
  BY DEF Staked
<1>5. yield \in Int /\ total \in Int
  BY DEF Row
<1> HIDE DEF t, yield, total
<1>2. /\ t \in Row /\ t.total = total /\ t.yield = yield /\ t.reserve = r.reserve
      /\ t.payments = r.payments /\ t.liquid = r.liquid
  BY <1>1, <1>5 DEF Row
<1>3. r.total \in Int /\ r.yield \in Int /\ r.reserve \in Int /\ r.payments \in Int /\ r.liquid \in Int
  BY DEF Row
<1>4. Balanced(r) /\ amount <= r.yield => Balanced(t)
  BY <1>2, <1>3 DEF Balanced, yield, total
<1> QED
  BY <1>2, <1>4 DEF t

LEMMA PaymentBalances ==
  ASSUME NEW r \in Row, NEW amount \in Nat
  PROVE  /\ PaidFrom(r, amount) \in Row
         /\ Balanced(r) /\ amount <= r.reserve + r.liquid => Balanced(PaidFrom(r, amount))
<1> DEFINE t == PaidFrom(r, amount)
<1>0. r.total \in Int /\ r.yield \in Int /\ r.reserve \in Int /\ r.payments \in Int /\ r.liquid \in Int
  BY DEF Row
<1>1. CASE r.reserve >= amount
  <2> DEFINE total == r.total - amount
             reserve == r.reserve - amount
  <2>1. t = [r EXCEPT !.total = total, !.reserve = reserve]
    BY <1>1 DEF PaidFrom
  <2>4. total \in Int /\ reserve \in Int
    BY <1>0
  <2> HIDE DEF t, total, reserve
  <2>2. /\ t \in Row /\ t.total = total /\ t.yield = r.yield /\ t.reserve = reserve
        /\ t.payments = r.payments /\ t.liquid = r.liquid
    BY <2>1, <2>4 DEF Row
  <2>3. Balanced(r) => Balanced(t)
    BY <1>0, <1>1, <2>2 DEF Balanced, total, reserve
  <2> QED BY <2>2, <2>3 DEF t
<1>2. CASE ~(r.reserve >= amount)
  <2> DEFINE total == r.total - amount
             reserve == 0
             liquid == r.liquid - (amount - r.reserve)
  <2>1. t = [r EXCEPT !.total = total, !.reserve = reserve, !.liquid = liquid]
    BY <1>2 DEF PaidFrom
  <2>4. total \in Int /\ reserve \in Int /\ liquid \in Int
    BY <1>0
  <2> HIDE DEF t, total, reserve, liquid
  <2>2. /\ t \in Row /\ t.total = total /\ t.yield = r.yield /\ t.reserve = reserve
        /\ t.payments = r.payments /\ t.liquid = liquid
    BY <2>1, <2>4 DEF Row
  <2>3. Balanced(r) /\ amount <= r.reserve + r.liquid => Balanced(t)
    BY <1>0, <1>2, <2>2 DEF Balanced, total, reserve, liquid
  <2> QED BY <2>2, <2>3 DEF t
<1> QED
  BY <1>1, <1>2

(* A withdrawal's patch on the balances it was made from.                  *)
Withdrawal(e) ==
  \E amount \in Nat :
    amount <= e.from.liquid
    /\ e.to = [e.from EXCEPT !.total = @ - amount, !.liquid = @ - amount]

LEMMA PatchBalances ==
  ASSUME NEW r \in Row, NEW e \in [kind : {"withdrawal", "settings"}, from : Row, to : Row]
  PROVE  /\ Patched(r, e) \in Row
         /\ e.kind = "settings" /\ Balanced(r) => Balanced(Patched(r, e))
         /\ e.kind = "withdrawal" /\ Withdrawal(e) /\ Balanced(r)
              /\ (\A c \in Money : e.from[c] = r[c]) => Balanced(Patched(r, e))
<1> DEFINE t == Patched(r, e)
           from == e.from
           to == e.to
<1>0. /\ r.total \in Int /\ r.yield \in Int /\ r.reserve \in Int /\ r.payments \in Int /\ r.liquid \in Int
      /\ from \in Row /\ to \in Row /\ from.total \in Int /\ from.liquid \in Int
  BY DEF Row
<1>1. CASE e.kind = "settings"
  <2>1. t = [r EXCEPT !.alloc = to.alloc, !.cap = to.cap]
    BY <1>1 DEF Patched
  <2> HIDE DEF t, to
  <2>2. /\ t \in Row /\ t.total = r.total /\ t.yield = r.yield /\ t.reserve = r.reserve
        /\ t.payments = r.payments /\ t.liquid = r.liquid
    BY <1>0, <2>1 DEF Row
  <2>3. Balanced(r) => Balanced(t)
    BY <2>2 DEF Balanced
  <2> QED BY <1>1, <2>2, <2>3 DEF t
<1>2. CASE e.kind = "withdrawal"
  <2>1. t = [r EXCEPT !.total = to.total, !.liquid = to.liquid]
    BY <1>2 DEF Patched
  <2>2. /\ t \in Row /\ t.total = to.total /\ t.yield = r.yield /\ t.reserve = r.reserve
        /\ t.payments = r.payments /\ t.liquid = to.liquid
    <3> HIDE DEF t, to
    <3> QED BY <1>0, <2>1 DEF Row
  <2>3. ASSUME Withdrawal(e), Balanced(r), \A c \in Money : e.from[c] = r[c]
        PROVE  Balanced(t)
    <3>1. PICK amount \in Nat : amount <= from.liquid
            /\ to = [from EXCEPT !.total = from.total - amount, !.liquid = from.liquid - amount]
      BY <2>3 DEF Withdrawal
    <3>2. from.total = r.total /\ from.liquid = r.liquid
      BY <2>3 DEF Money
    <3> HIDE DEF t, to, from
    <3>3. to.total = from.total - amount /\ to.liquid = from.liquid - amount
      BY <1>0, <3>1 DEF Row
    <3> QED BY <1>0, <2>2, <2>3, <3>1, <3>2, <3>3 DEF Balanced
  <2> QED BY <1>2, <2>2, <2>3 DEF t
<1> QED
  BY <1>1, <1>2

-----------------------------------------------------------------------------
(* Types.  A chain that moves money has its purpose and an amount, one     *)
(* that shields a transfer has its number, and a withdrawal was covered by *)
(* the balances of the click.                                              *)

MovesMoney == {"prepare", "prompt", "confirm", "record", "told"}
Shields == {"sending", "taken", "refused"}
Still == {"idle", "asked", "answered"}
Tied(c) ==
  /\ c.pc \in MovesMoney => c.purpose \in Purposes /\ c.amount >= 1
  /\ c.pc \in Shields => c.send \in Sends
  /\ c.pc \notin Shields => c.send = 0
  /\ c.pc = "pause" => c.amount <= c.seen.liquid

TypeInv == PagesTypeOK /\ \A s \in Slots : Tied(slot[s])

LEMMA SomeSends == Sends \subseteq 1..MaxActs /\ MaxActs \in Nat /\ MaxMounts \in Nat
BY PagesAssumption DEF Sends

LEMMA ChainChanges ==
  ASSUME slot \in [Slots -> Chain], \A q \in Slots : Tied(slot[q]),
         NEW s \in Slots, NEW c \in Chain, Tied(c), slot' = [slot EXCEPT ![s] = c]
  PROVE  slot' \in [Slots -> Chain] /\ \A q \in Slots : Tied(slot'[q])
BY DEF Tied

LEMMA IdleTypes ==
  Idle \in Chain /\ Idle.pc = "idle" /\ Idle.mount = 0 /\ Idle.send = 0 /\ Tied(Idle)
<1>1. Opening \in Row /\ 0 \in 0..MaxMounts /\ 0 \in 0..MaxActs /\ 0 \in Nat
  BY OpeningAssumption, SomeSends
<1>2. Idle \in Chain /\ Idle.pc = "idle" /\ Idle.send = 0 /\ Idle.mount = 0
  BY <1>1 DEF Idle, Chain, Pcs
<1> QED
  BY <1>2 DEF Tied, MovesMoney, Shields

LEMMA FetchingTypes ==
  ASSUME (view').mount \in 0..MaxMounts
  PROVE  /\ Fetching \in Chain /\ Fetching.pc = "asked" /\ Fetching.mount = (view').mount
         /\ Fetching.send = 0 /\ Tied(Fetching)
<1> DEFINE m == (view').mount
           c == Fetching
<1>1. c = [Idle EXCEPT !.pc = "asked", !.mount = m]
  BY DEF Fetching
<1> HIDE DEF m, c
<1>2. c \in Chain /\ c.pc = "asked" /\ c.mount = m /\ c.send = 0
  BY <1>1, IdleTypes DEF Chain, Pcs, m
<1>3. Tied(c)
  BY <1>2 DEF Tied, MovesMoney, Shields
<1> QED
  BY <1>2, <1>3 DEF m, c

LEMMA GoingTypes ==
  ASSUME TypeInv, NEW s \in Slots, NEW pc \in Pcs, Goes(s, pc),
         pc \in MovesMoney => slot[s].pc \in MovesMoney,
         pc \in Shields <=> slot[s].pc \in Shields, pc # "pause"
  PROVE  /\ slot' \in [Slots -> Chain] /\ \A q \in Slots : Tied(slot'[q])
         /\ \E c \in Chain : /\ slot' = [slot EXCEPT ![s] = c] /\ c.pc = pc
                             /\ c.mount = slot[s].mount /\ c.send = slot[s].send
                             /\ c.purpose = slot[s].purpose
<1> DEFINE c == [slot[s] EXCEPT !.pc = pc]
<1>1. slot[s] \in Chain /\ Tied(slot[s]) /\ slot \in [Slots -> Chain]
  BY DEF TypeInv, PagesTypeOK
<1>2. slot' = [slot EXCEPT ![s] = c]
  BY DEF Goes
<1>3. /\ c \in Chain /\ c.pc = pc /\ c.mount = slot[s].mount /\ c.send = slot[s].send
      /\ c.purpose = slot[s].purpose /\ c.amount = slot[s].amount
  BY <1>1 DEF Chain
<1> HIDE DEF c
<1>4. Tied(c)
  BY <1>1, <1>3 DEF Tied
<1> QED
  BY <1>1, <1>2, <1>3, <1>4, ChainChanges DEF TypeInv

(* The end of a chain.                                                     *)
LEMMA OverTypes ==
  ASSUME view \in View, NEW result \in {"ok", "failed"}
  PROVE  /\ Over(view, result) \in View /\ Over(view, result).mount = view.mount
         /\ Over(view, result).busy = FALSE /\ Over(view, result).loading = view.loading
         /\ Over(view, result).transfers = view.transfers
BY DEF Over, View

LEMMA FinishTypes ==
  ASSUME TypeInv, NEW s \in Slots, NEW result \in {"ok", "failed"}, Finish(s, result)
  PROVE  /\ slot' \in [Slots -> Chain] /\ view' \in View /\ \A q \in Slots : Tied(slot'[q])
         /\ view'.mount = view.mount /\ view'.transfers = view.transfers
         /\ Here(s) => view'.busy = FALSE
         /\ ~Here(s) => view' = view
         /\ \E c \in Chain : slot' = [slot EXCEPT ![s] = c] /\ c.pc \in Still /\ c.send = 0
                             /\ c.mount \in 0..view.mount
<1>1. view \in View /\ slot \in [Slots -> Chain] /\ \A q \in Slots : Tied(slot[q])
  BY DEF TypeInv, PagesTypeOK
<1>2. view.mount \in 0..MaxMounts /\ view.mount \in Nat /\ view.loading \in BOOLEAN
  BY <1>1, SomeSends DEF View
<1>3. /\ view' \in View /\ view'.mount = view.mount /\ view'.transfers = view.transfers
      /\ Here(s) => view'.busy = FALSE
      /\ ~Here(s) => view' = view
  <2>1. CASE ~Here(s)
    <3>1. view' = view
      BY <2>1 DEF Finish
    <3> QED BY <1>1, <2>1, <3>1
  <2>2. CASE Here(s)
    <3> DEFINE o == Over(view, result)
               loading == o.loading \/ Relists(s, result)
    <3>1. o \in View /\ o.mount = view.mount /\ o.busy = FALSE /\ o.transfers = view.transfers
      BY <1>1, OverTypes
    <3>2. view' = [o EXCEPT !.loading = loading]
      BY <2>2 DEF Finish
    <3>3. loading \in BOOLEAN
      OBVIOUS
    <3> HIDE DEF o, loading
    <3>4. view' \in View /\ view'.mount = o.mount /\ view'.busy = o.busy /\ view'.transfers = o.transfers
      BY <3>1, <3>2, <3>3 DEF View
    <3> QED BY <2>2, <3>1, <3>4
  <2> QED BY <2>1, <2>2
<1>4. PICK c \in {Idle, Fetching} : slot' = [slot EXCEPT ![s] = c]
  BY DEF Finish
<1>5. c \in Chain /\ Tied(c) /\ c.pc \in Still /\ c.send = 0 /\ c.mount \in 0..view.mount
  BY <1>2, <1>3, IdleTypes, FetchingTypes DEF Still
<1>6. slot' \in [Slots -> Chain] /\ \A q \in Slots : Tied(slot'[q])
  BY <1>1, <1>4, <1>5, ChainChanges
<1> QED
  BY <1>3, <1>4, <1>5, <1>6

LEMMA OffersTypes == \A page : Offered(page) \subseteq Items \cup {Stake}
<1>1. Payable \subseteq Items
  BY DEF Payable, queue
<1> QED
  BY <1>1 DEF Offered

(* What a row can become.                                                  *)
LEMMA RowTypes ==
  ASSUME NEW r \in Row, NEW amount \in Nat
  PROVE  /\ ToppedUp(r, amount) \in Row
         /\ Staked(r, amount) \in Row /\ PaidFrom(r, amount) \in Row
<1> DEFINE total == r.total + amount
           y == Rounded(total, r.alloc.yield)
           s == Rounded(total, r.alloc.reserve)
           p == Rounded(total, r.alloc.payments)
           l == Max0(total - y - s - p)
<1>1. total \in Int /\ r.alloc \in Shares
  BY DEF Row
<1>2. r.alloc.yield \in Int /\ r.alloc.reserve \in Int /\ r.alloc.payments \in Int
  BY <1>1 DEF Shares
<1>3. ASSUME NEW n \in Int, NEW pct \in Int
      PROVE  Rounded(n, pct) \in Int
  <2>1. n * pct \in Int
    BY Z3
  <2>2. ASSUME NEW x \in Int PROVE (x + 50) \div 100 \in Int
    OBVIOUS
  <2> QED BY <2>1, <2>2 DEF Rounded
<1>4. y \in Int /\ s \in Int /\ p \in Int
  <2> HIDE DEF total
  <2> QED BY <1>1, <1>2, <1>3
<1>5. l \in Int
  <2> HIDE DEF total, y, s, p
  <2> QED BY <1>1, <1>4 DEF Max0
<1>6. ToppedUp(r, amount) = [r EXCEPT !.total = total, !.yield = y, !.reserve = s, !.payments = p, !.liquid = l]
  BY DEF ToppedUp
<1>7. ToppedUp(r, amount) \in Row
  <2> HIDE DEF total, y, s, p, l
  <2> QED BY <1>1, <1>4, <1>5, <1>6 DEF Row
<1> QED
  BY <1>7, StakeBalances, PaymentBalances

-----------------------------------------------------------------------------
(* What a step does to the chains and to the page, in six shapes.          *)

Steady == view'.mount = view.mount /\ view'.busy = view.busy /\ view'.transfers = view.transfers
Quiet == slot' = slot /\ Steady /\ accepted' = accepted
Leave ==
  /\ view'.mount = view.mount + 1 /\ view'.busy = FALSE /\ accepted' = accepted
  /\ view'.transfers = [n \in Sends |-> "none"]
  /\ \/ slot' = slot
     \/ \E s \in Slots, c \in Chain : /\ slot[s].pc \in Still /\ slot' = [slot EXCEPT ![s] = c]
                                      /\ c.pc \in Still /\ c.mount \in 0..view'.mount
Listing(s) ==
  /\ slot[s].pc \in Still /\ Steady /\ accepted' = accepted
  /\ \E c \in Chain : /\ slot' = [slot EXCEPT ![s] = c] /\ c.pc \in Still
                      /\ c.mount \in 0..view.mount \cup {slot[s].mount}
Begin(s) ==
  /\ slot[s].pc \in Still /\ ~view.busy /\ view'.busy = TRUE
  /\ view'.mount = view.mount /\ accepted' = accepted
  /\ \E c \in Chain :
       /\ slot' = [slot EXCEPT ![s] = c] /\ c.pc \notin Still /\ c.pc # "taken" /\ c.mount = view.mount
       /\ view'.transfers = IF c.send = 0 THEN view.transfers
                            ELSE [view.transfers EXCEPT ![c.send] = "shielding"]
Go(s) ==
  /\ slot[s].pc \notin Still /\ Steady /\ accepted \subseteq accepted'
  /\ \E c \in Chain :
       /\ slot' = [slot EXCEPT ![s] = c] /\ c.pc \notin Still
       /\ c.mount = slot[s].mount /\ c.send = slot[s].send
       /\ c.pc = "taken" => <<c.mount, c.send>> \in accepted'
End(s) ==
  /\ slot[s].pc \notin Still /\ accepted' = accepted /\ view'.mount = view.mount
  /\ \E c \in Chain : slot' = [slot EXCEPT ![s] = c] /\ c.pc \in Still /\ c.mount \in 0..view.mount
  /\ ~Here(s) => view' = view
  /\ Here(s) =>
       /\ view'.busy = FALSE
       /\ \/ slot[s].send = 0 /\ view'.transfers = view.transfers
          \/ \E outcome \in {"complete", "failed"} :
               /\ slot[s].send \in Sends
               /\ outcome = "complete" => slot[s].pc = "taken"
               /\ view'.transfers = [view.transfers EXCEPT ![slot[s].send] = outcome]
Shape == Quiet \/ Leave \/ \E s \in Slots : Listing(s) \/ Begin(s) \/ Go(s) \/ End(s)

LEMMA TypeFacts ==
  ASSUME TypeInv
  PROVE  /\ view \in View /\ slot \in [Slots -> Chain] /\ \A s \in Slots : Tied(slot[s])
         /\ row \in Row /\ vault \in Row /\ acts \in 0..MaxActs /\ today \in Days
         /\ status \in [Items -> {"scheduled", "queued", "failed", "completed"}]
         /\ refreshing \in BOOLEAN /\ blurred \in BOOLEAN
         /\ edits \subseteq [kind : {"withdrawal", "settings"}, from : Row, to : Row]
         /\ sent \in [Purposes -> Nat] /\ effects \in [Purposes -> Nat]
         /\ accepted \subseteq (0..MaxMounts) \X Sends
         /\ view.mount \in 0..MaxMounts /\ view.mount \in Nat
BY SomeSends DEF TypeInv, PagesTypeOK, View

(* Steps that leave most of the types alone.                               *)
LEMMA TypesFollow ==
  ASSUME TypeInv, view' \in View, slot' \in [Slots -> Chain], \A s \in Slots : Tied(slot'[s]),
         UNCHANGED <<today, row, status, effects, accepted, vault, edits, sent, blurred>>,
         refreshing' \in BOOLEAN, acts' \in 0..MaxActs
  PROVE  TypeInv'
BY DEF TypeInv, PagesTypeOK, Tied

LEMMA OpenShape ==
  ASSUME TypeInv, NEW page \in {"vault", "payments", "staking", "private", "settings"}, Open(page)
  PROVE  TypeInv' /\ Shape
<1> USE TypeFacts
<1> DEFINE mount == view.mount + 1
           loading == Lists(page)
           w == [NoView EXCEPT !.page = page, !.mount = mount, !.loading = loading]
<1>1. mount \in 0..MaxMounts /\ mount \in Nat /\ loading \in BOOLEAN
  BY SomeSends DEF Open, Lists
<1>2. view' = w
  BY DEF Open
<1>3. NoView \in View /\ NoView.busy = FALSE /\ NoView.transfers = [n \in Sends |-> "none"]
  BY SomeSends DEF NoView, View
<1>4. /\ view' \in View /\ view'.mount = mount /\ view'.busy = FALSE
      /\ view'.transfers = [n \in Sends |-> "none"]
  <2>1. w = [NoView EXCEPT !.page = page, !.mount = mount, !.loading = loading]
    OBVIOUS
  <2> HIDE DEF mount, loading, w
  <2> QED BY <1>1, <1>2, <1>3, <2>1 DEF View
<1>5. Fetching \in Chain /\ Tied(Fetching) /\ Fetching.pc \in Still /\ Fetching.mount = view'.mount
  BY <1>1, <1>4, FetchingTypes DEF Still
<1>6. slot' = slot \/ \E s \in Slots : Free(s) /\ slot' = [slot EXCEPT ![s] = Fetching]
  BY DEF Open
<1>7. slot' \in [Slots -> Chain] /\ \A s \in Slots : Tied(slot'[s])
  BY <1>5, <1>6, ChainChanges
<1>8. TypeInv'
  BY <1>4, <1>7, TypesFollow DEF Open, server
<1>9. Leave
  <2>1. \A s \in Slots : Free(s) => slot[s].pc \in Still
    BY IdleTypes DEF Free, Still
  <2>2. accepted' = accepted
    BY DEF Open, server
  <2>3. Fetching.mount \in 0..view'.mount
    BY <1>1, <1>4, <1>5
  <2> QED BY <1>4, <1>5, <1>6, <2>1, <2>2, <2>3 DEF Leave
<1> QED
  BY <1>8, <1>9 DEF Shape

(* The lists: they touch neither the busy flag nor a moving chain.         *)
LEMMA ListShape ==
  ASSUME TypeInv, NEW s \in Slots, Refresh(s) \/ ListServed(s) \/ ListLanded(s)
  PROVE  TypeInv' /\ Shape
<1> USE TypeFacts
<1>1. CASE Refresh(s)
  <2>1. view' = [view EXCEPT !.loading = TRUE] /\ slot' = [slot EXCEPT ![s] = Fetching] /\ Free(s)
    BY <1>1 DEF Refresh
  <2>2. view' \in View /\ Steady
    BY <2>1 DEF View, Steady
  <2>3. Fetching \in Chain /\ Tied(Fetching) /\ Fetching.pc \in Still /\ Fetching.mount \in 0..view.mount
    BY <2>2, FetchingTypes DEF Steady, Still
  <2>4. slot' \in [Slots -> Chain] /\ \A q \in Slots : Tied(slot'[q])
    BY <2>1, <2>3, ChainChanges
  <2>5. TypeInv'
    BY <1>1, <2>2, <2>4, TypesFollow DEF Refresh, server
  <2>6. slot[s].pc \in Still
    BY <2>1, IdleTypes DEF Free, Still
  <2>7. Listing(s)
    BY <1>1, <2>1, <2>2, <2>3, <2>6 DEF Listing, Refresh, server
  <2> QED BY <2>5, <2>7 DEF Shape
<1>2. CASE ListServed(s)
  <2> DEFINE answer == IF Here(s) THEN Offered(view.page) ELSE {}
             c == [slot[s] EXCEPT !.pc = "answered", !.answer = answer]
  <2>1. slot' = [slot EXCEPT ![s] = c] /\ slot[s].pc = "asked" /\ view' = view
    BY <1>2 DEF ListServed
  <2>2. answer \in SUBSET (Items \cup {Stake})
    BY OffersTypes
  <2>3. c = [slot[s] EXCEPT !.pc = "answered", !.answer = answer] /\ slot[s] \in Chain /\ Tied(slot[s])
    OBVIOUS
  <2> HIDE DEF answer, c
  <2>4. c \in Chain /\ c.pc = "answered" /\ c.send = slot[s].send /\ c.mount = slot[s].mount
    BY <2>2, <2>3 DEF Chain, Pcs
  <2>5. Tied(c)
    BY <2>1, <2>3, <2>4 DEF Tied, MovesMoney, Shields
  <2>6. slot' \in [Slots -> Chain] /\ \A q \in Slots : Tied(slot'[q])
    BY <2>1, <2>4, <2>5, ChainChanges
  <2>7. TypeInv'
    BY <1>2, <2>1, <2>6, TypesFollow DEF ListServed, server
  <2>8. UNCHANGED <<view, accepted>>
    BY <1>2 DEF ListServed, server
  <2>9. Listing(s)
    BY <2>1, <2>4, <2>8 DEF Listing, Still, Steady
  <2> QED BY <2>7, <2>9 DEF Shape
<1>3. CASE ListLanded(s)
  <2>1. slot' = [slot EXCEPT ![s] = Idle] /\ slot[s].pc \in Still
    BY <1>3 DEF ListLanded, Still
  <2>2. view' \in View /\ Steady
    <3>1. CASE view' = view
      BY <3>1 DEF Steady
    <3>2. CASE view' = [view EXCEPT !.loading = FALSE]
      BY <3>2 DEF View, Steady
    <3>3. CASE view' = [view EXCEPT !.loading = FALSE, !.shown = slot[s].answer]
      <4>1. slot[s].answer \in SUBSET (Items \cup {Stake})
        BY DEF Chain
      <4> QED BY <3>3, <4>1 DEF View, Steady
    <3> QED BY <1>3, <3>1, <3>2, <3>3 DEF ListLanded
  <2>3. slot' \in [Slots -> Chain] /\ \A q \in Slots : Tied(slot'[q])
    BY <2>1, IdleTypes, ChainChanges
  <2>4. TypeInv'
    BY <1>3, <2>2, <2>3, TypesFollow DEF ListLanded, server
  <2>5. Idle.pc \in Still /\ Idle.mount \in 0..view.mount
    BY IdleTypes DEF Still
  <2>6. Listing(s)
    BY <1>3, <2>1, <2>2, <2>5, IdleTypes DEF Listing, ListLanded, server
  <2> QED BY <2>4, <2>6 DEF Shape
<1> QED
  BY <1>1, <1>2, <1>3

(* A chain begins: the page was not busy, now it is.                       *)
LEMMA BeginShape ==
  ASSUME TypeInv, NEW s \in Slots, NEW pc \in Pcs \ (Still \cup {"taken"}),
         NEW purpose \in Purposes \cup {NoItem},
         NEW amount \in Nat, NEW send \in 0..MaxActs, Starts(s, pc, purpose, amount, send),
         ~view.busy,
         pc \in MovesMoney => purpose \in Purposes /\ amount >= 1,
         pc \in Shields => send \in Sends, pc \notin Shields => send = 0,
         pc = "pause" => amount <= vault.liquid
  PROVE  TypeInv' /\ Shape
<1>1. /\ view \in View /\ slot \in [Slots -> Chain] /\ \A q \in Slots : Tied(slot[q])
      /\ vault \in Row /\ acts \in 0..MaxActs
  BY DEF TypeInv, PagesTypeOK
<1>2. acts' \in 0..MaxActs /\ slot[s] = Idle /\ ~view.busy
  BY <1>1, SomeSends DEF Starts, Acts, Free
<1>3. send # 0 => send \in Sends
  OBVIOUS
<1>4. /\ view' \in View /\ view'.busy = TRUE /\ view'.mount = view.mount
      /\ view'.transfers = IF send = 0 THEN view.transfers
                           ELSE [view.transfers EXCEPT ![send] = "shielding"]
  <2> DEFINE transfers == IF send = 0 THEN view.transfers
                          ELSE [view.transfers EXCEPT ![send] = "shielding"]
  <2>1. view' = [view EXCEPT !.busy = TRUE, !.result = "none", !.transfers = transfers]
    BY DEF Starts
  <2>2. view.transfers \in [Sends -> {"none", "shielding", "complete", "failed"}]
    BY <1>1 DEF View
  <2>3. transfers \in [Sends -> {"none", "shielding", "complete", "failed"}]
    BY <1>3, <2>2
  <2> HIDE DEF transfers
  <2>4. view' \in View /\ view'.busy = TRUE /\ view'.mount = view.mount /\ view'.transfers = transfers
    BY <1>1, <2>1, <2>3 DEF View
  <2> QED BY <2>4 DEF transfers
<1>5. \E c \in Chain : /\ slot' = [slot EXCEPT ![s] = c] /\ c.pc = pc /\ c.mount = view.mount
                       /\ c.send = send /\ Tied(c)
  <2> DEFINE seen == IF pc = "pause" THEN vault ELSE Opening
             mount == view.mount
             c == [Idle EXCEPT !.pc = pc, !.mount = mount, !.purpose = purpose,
                               !.amount = amount, !.send = send, !.seen = seen]
  <2>1. slot' = [slot EXCEPT ![s] = c]
    BY DEF Starts
  <2>2. seen \in Row /\ (pc = "pause" => seen = vault) /\ mount \in 0..MaxMounts
    BY <1>1, OpeningAssumption DEF View
  <2>3. c = [Idle EXCEPT !.pc = pc, !.mount = mount, !.purpose = purpose,
                         !.amount = amount, !.send = send, !.seen = seen]
    OBVIOUS
  <2> HIDE DEF seen, mount, c
  <2>4. /\ c \in Chain /\ c.pc = pc /\ c.mount = mount /\ c.send = send /\ c.purpose = purpose
        /\ c.amount = amount /\ c.seen = seen
    BY <2>2, <2>3, IdleTypes DEF Chain
  <2>5. Tied(c)
    BY <2>2, <2>4 DEF Tied
  <2> QED BY <2>1, <2>4, <2>5 DEF mount
<1>6. slot' \in [Slots -> Chain] /\ \A q \in Slots : Tied(slot'[q])
  BY <1>1, <1>5, ChainChanges
<1>7. TypeInv'
  BY <1>2, <1>4, <1>6, TypeFacts, TypesFollow DEF Starts, server
<1>8. slot[s].pc \in Still /\ accepted' = accepted
  BY <1>2, IdleTypes DEF Starts, server, Still
<1>9. Begin(s)
  BY <1>2, <1>4, <1>5, <1>8 DEF Begin
<1> QED
  BY <1>7, <1>9 DEF Shape

(* The five buttons that start a chain.                                    *)
LEMMA ButtonShape ==
  ASSUME TypeInv, NEW s \in Slots,
         \/ handlePayNow(s)
         \/ \E a \in Stakes : handleStake(s, a)
         \/ \E a \in Deposits : handleDeposit(s, a)
         \/ \E a \in Withdrawals : handleWithdraw(s, a)
         \/ \E n \in Sends : handleSend(s, n)
  PROVE  TypeInv' /\ Shape
<1>1. /\ "prepare" \in Pcs \ (Still \cup {"taken"}) /\ "pause" \in Pcs \ (Still \cup {"taken"})
      /\ "sending" \in Pcs \ (Still \cup {"taken"})
      /\ "prepare" \notin Shields /\ "pause" \notin Shields /\ "pause" \notin MovesMoney
      /\ "sending" \notin MovesMoney /\ "sending" \in Shields
  BY DEF Pcs, Still, Shields, MovesMoney
<1>2. 0 \in 0..MaxActs /\ Sends \subseteq 0..MaxActs /\ 0 \in Nat
  BY SomeSends
<1>3. Items \subseteq Purposes /\ Stake \in Purposes /\ Deposit \in Purposes
  BY DEF Purposes
<1>4. CASE handlePayNow(s)
  <2>1. ~view.busy /\ view.chosen \in Items /\ Info[view.chosen].amount \in Nat /\ Info[view.chosen].amount >= 1
        /\ Starts(s, "prepare", view.chosen, Info[view.chosen].amount, 0)
    BY <1>4, PagesAssumption DEF handlePayNow, PayNow, Dialog
  <2> QED BY <1>1, <1>2, <1>3, <2>1, BeginShape
<1>5. CASE \E a \in Stakes : handleStake(s, a)
  <2>1. PICK a \in Stakes : handleStake(s, a)
    BY <1>5
  <2>2. ~view.busy /\ a \in Nat /\ a >= 1 /\ Starts(s, "prepare", Stake, a, 0)
    BY <2>1, PagesAssumption DEF handleStake, StakeNow, Dialog
  <2> QED BY <1>1, <1>2, <1>3, <2>2, BeginShape
<1>6. CASE \E a \in Deposits : handleDeposit(s, a)
  <2>1. PICK a \in Deposits : handleDeposit(s, a)
    BY <1>6
  <2>2. ~view.busy /\ a \in Nat /\ a >= 1 /\ Starts(s, "prepare", Deposit, a, 0)
    BY <2>1, PagesAssumption DEF handleDeposit, MoveFunds
  <2> QED BY <1>1, <1>2, <1>3, <2>2, BeginShape
<1>7. CASE \E a \in Withdrawals : handleWithdraw(s, a)
  <2>1. PICK a \in Withdrawals : handleWithdraw(s, a)
    BY <1>7
  <2>2. ~view.busy /\ a \in Nat /\ a <= vault.liquid /\ Starts(s, "pause", NoItem, a, 0)
    BY <2>1, PagesAssumption DEF handleWithdraw, MoveFunds
  <2> QED BY <1>1, <1>2, <2>2, BeginShape
<1>8. CASE \E n \in Sends : handleSend(s, n)
  <2>1. PICK n \in Sends : handleSend(s, n)
    BY <1>8
  <2>2. ~view.busy /\ n \in Sends /\ n \in 0..MaxActs /\ Starts(s, "sending", NoItem, 0, n)
    BY <1>2, <2>1 DEF handleSend, SendPrivately
  <2>3. ASSUME NEW pc, NEW purpose, pc = "sending", purpose = NoItem, Starts(s, pc, purpose, 0, n)
        PROVE  TypeInv' /\ Shape
    BY <1>1, <1>2, <2>2, <2>3, BeginShape
  <2> QED BY <2>2, <2>3
<1> QED
  BY <1>4, <1>5, <1>6, <1>7, <1>8

(* A chain goes on, or ends.                                               *)
LEMMA GoShape ==
  ASSUME TypeInv, NEW s \in Slots, NEW pc \in Pcs \ (Still \cup {"taken"}), Goes(s, pc),
         slot[s].pc \notin Still, view' = view, accepted \subseteq accepted',
         pc \in MovesMoney => slot[s].pc \in MovesMoney,
         pc \in Shields <=> slot[s].pc \in Shields, pc # "pause"
  PROVE  /\ slot' \in [Slots -> Chain] /\ \A q \in Slots : Tied(slot'[q])
         /\ Shape
<1>1. /\ slot' \in [Slots -> Chain] /\ \A q \in Slots : Tied(slot'[q])
      /\ \E c \in Chain : /\ slot' = [slot EXCEPT ![s] = c] /\ c.pc = pc
                          /\ c.mount = slot[s].mount /\ c.send = slot[s].send
  BY GoingTypes
<1>2. Go(s)
  BY <1>1 DEF Go, Steady
<1> QED
  BY <1>1, <1>2 DEF Shape

LEMMA EndShape ==
  ASSUME TypeInv, NEW s \in Slots, NEW result \in {"ok", "failed"}, Finish(s, result),
         slot[s].pc \notin Still \cup Shields, accepted' = accepted
  PROVE  /\ slot' \in [Slots -> Chain] /\ view' \in View /\ \A q \in Slots : Tied(slot'[q])
         /\ Shape
<1>1. /\ slot' \in [Slots -> Chain] /\ view' \in View /\ \A q \in Slots : Tied(slot'[q])
      /\ view'.mount = view.mount /\ view'.transfers = view.transfers
      /\ Here(s) => view'.busy = FALSE
      /\ ~Here(s) => view' = view
      /\ \E c \in Chain : slot' = [slot EXCEPT ![s] = c] /\ c.pc \in Still /\ c.send = 0
                          /\ c.mount \in 0..view.mount
  BY FinishTypes
<1>2. slot[s].send = 0
  BY TypeFacts DEF Tied
<1>3. End(s)
  BY <1>1, <1>2 DEF End
<1> QED
  BY <1>1, <1>3 DEF Shape

(* The steps of the chains, in the same shapes.                            *)
LEMMA ChainShape ==
  ASSUME TypeInv, NEW s \in Slots,
         \/ Prepared(s) \/ Signed(s) \/ Rejected(s) \/ Confirmed(s) \/ Told(s) \/ Breaks(s)
         \/ Served(s) \/ Withdrawn(s)
  PROVE  TypeInv' /\ Shape
<1> USE TypeFacts
<1>0. /\ {"prompt", "confirm", "record", "told"} \subseteq Pcs \ (Still \cup {"taken"})
      /\ {"prompt", "confirm", "record", "told"} \subseteq MovesMoney
      /\ \A pc \in {"prepare", "prompt", "confirm", "record", "told", "pause"} :
           pc \notin Still \cup Shields
      /\ {"prepare", "prompt", "confirm", "record", "told"} = MovesMoney
  BY DEF Pcs, Still, Shields, MovesMoney
<1>1. ASSUME NEW pc, pc \in {"prompt", "confirm", "record", "told"}, Goes(s, pc), view' = view,
             accepted' = accepted, slot[s].pc \in MovesMoney
      PROVE  slot' \in [Slots -> Chain] /\ Shape /\ \A q \in Slots : Tied(slot'[q])
  <2>1. pc \in Pcs \ (Still \cup {"taken"}) /\ pc # "pause" /\ pc \notin Shields
    BY <1>0, <1>1
  <2>2. slot[s].pc \notin Still /\ slot[s].pc \notin Shields
    BY <1>1 DEF MovesMoney, Still, Shields
  <2>3. accepted \subseteq accepted'
    BY <1>1
  <2> QED BY <1>1, <2>1, <2>2, <2>3, GoShape
<1>2. ASSUME NEW result \in {"ok", "failed"}, Finish(s, result), slot[s].pc \in MovesMoney \cup {"pause"},
             accepted' = accepted
      PROVE  slot' \in [Slots -> Chain] /\ view' \in View /\ Shape /\ \A q \in Slots : Tied(slot'[q])
  <2>1. slot[s].pc \notin Still \cup Shields
    BY <1>2 DEF MovesMoney, Still, Shields
  <2> QED BY <1>2, <2>1, EndShape
<1>3. CASE Prepared(s)
  <2>1. UNCHANGED <<today, server, vault, refreshing, edits, view, sent, blurred, acts>>
        /\ slot[s].pc = "prepare" /\ Goes(s, "prompt")
    BY <1>3 DEF Prepared
  <2>2. slot' \in [Slots -> Chain] /\ Shape /\ \A q \in Slots : Tied(slot'[q])
    BY <1>1, <2>1 DEF server, MovesMoney
  <2> QED BY <2>1, <2>2, TypesFollow DEF server
<1>4. CASE Signed(s)
  <2>1. UNCHANGED <<today, server, vault, refreshing, edits, view, blurred, acts>>
        /\ slot[s].pc = "prompt" /\ Goes(s, "confirm")
        /\ sent' = [sent EXCEPT ![slot[s].purpose] = @ + 1]
    BY <1>4 DEF Signed
  <2>2. slot' \in [Slots -> Chain] /\ Shape /\ \A q \in Slots : Tied(slot'[q])
    BY <1>1, <2>1 DEF server, MovesMoney
  <2>3. sent' \in [Purposes -> Nat]
    <3> DEFINE x == slot[s].purpose
    <3>1. x \in Purposes /\ sent' = [sent EXCEPT ![x] = @ + 1]
      BY <2>1 DEF Tied, MovesMoney
    <3> HIDE DEF x
    <3> QED BY <3>1
  <2>4. PagesTypeOK'
    BY <2>1, <2>2, <2>3 DEF server, PagesTypeOK
  <2> QED BY <2>2, <2>4 DEF TypeInv, Tied
<1>5. CASE Rejected(s) \/ Breaks(s)
  <2>1. UNCHANGED <<today, server, vault, refreshing, edits, sent, blurred, acts>>
        /\ slot[s].pc \in MovesMoney /\ Finish(s, "failed")
    BY <1>5 DEF Rejected, Refused, Breaks, MovesMoney
  <2>2. slot' \in [Slots -> Chain] /\ view' \in View /\ Shape /\ \A q \in Slots : Tied(slot'[q])
    BY <1>2, <2>1 DEF server
  <2> QED BY <2>1, <2>2, TypesFollow DEF server
<1>6. CASE Told(s)
  <2>1. UNCHANGED <<today, server, vault, edits, sent, blurred, acts>> /\ refreshing' = TRUE
        /\ slot[s].pc \in MovesMoney /\ Finish(s, "ok")
    BY <1>6 DEF Told, MovesMoney
  <2>2. slot' \in [Slots -> Chain] /\ view' \in View /\ Shape /\ \A q \in Slots : Tied(slot'[q])
    BY <1>2, <2>1 DEF server
  <2> QED BY <2>1, <2>2, TypesFollow DEF server
<1>7. CASE Confirmed(s)
  <2>1. UNCHANGED <<today, server, vault, edits, sent, blurred, acts>> /\ slot[s].pc \in MovesMoney
        /\ \/ Goes(s, "record") /\ UNCHANGED <<view, refreshing>>
           \/ Finish(s, "ok") /\ refreshing' = TRUE
    BY <1>7 DEF Confirmed, MovesMoney
  <2>2. /\ slot' \in [Slots -> Chain] /\ view' \in View /\ refreshing' \in BOOLEAN
        /\ Shape /\ \A q \in Slots : Tied(slot'[q])
    <3>1. CASE Goes(s, "record") /\ UNCHANGED <<view, refreshing>>
      BY <1>1, <2>1, <3>1 DEF server
    <3>2. CASE Finish(s, "ok") /\ refreshing' = TRUE
      BY <1>2, <2>1, <3>2 DEF server
    <3> QED BY <2>1, <3>1, <3>2
  <2> QED BY <2>1, <2>2, TypesFollow DEF server
<1>8. CASE Served(s)
  <2>1. /\ UNCHANGED <<today, accepted, vault, refreshing, edits, view, sent, blurred, acts>>
        /\ slot[s].pc = "record" /\ Goes(s, "told") /\ slot[s].amount \in Nat
    BY <1>8 DEF Served, Chain
  <2>2. slot' \in [Slots -> Chain] /\ Shape /\ \A q \in Slots : Tied(slot'[q])
    BY <1>1, <2>1 DEF MovesMoney
  <2>3. /\ row' \in Row /\ effects' \in [Purposes -> Nat]
        /\ status' \in [Items -> {"scheduled", "queued", "failed", "completed"}]
    <3>0. ASSUME NEW x, x = slot[s].purpose, effects' = [effects EXCEPT ![x] = @ + 1]
          PROVE  effects' \in [Purposes -> Nat]
      <4>1. x \in Purposes
        BY <2>1, <3>0 DEF Tied, MovesMoney
      <4> QED BY <3>0, <4>1
    <3>1. CASE slot[s].purpose \in Items /\ executePayment(s, slot[s].purpose)
      <4>1. Info[slot[s].purpose].amount \in Nat
        BY <3>1, PagesAssumption
      <4>2. PaidFrom(row, Info[slot[s].purpose].amount) \in Row
        BY <4>1, RowTypes
      <4> QED BY <3>0, <3>1, <4>2 DEF executePayment, Acted
    <3>2. CASE stakeRoute(s)
      <4>1. Staked(row, slot[s].amount) \in Row
        BY <2>1, RowTypes
      <4> QED BY <3>0, <3>2, <4>1 DEF stakeRoute, Acted
    <3>3. CASE topupRoute(s)
      <4>1. ToppedUp(row, slot[s].amount) \in Row
        BY <2>1, RowTypes
      <4> QED BY <3>0, <3>3, <4>1 DEF topupRoute, Acted
    <3> QED BY <1>8, <3>1, <3>2, <3>3 DEF Served
  <2>4. PagesTypeOK'
    BY <2>1, <2>2, <2>3 DEF PagesTypeOK
  <2> QED BY <2>2, <2>4 DEF TypeInv, Tied
<1>9. CASE Withdrawn(s)
  <2> DEFINE seen == slot[s].seen
             total == seen.total - slot[s].amount
             liquid == seen.liquid - slot[s].amount
             to == [seen EXCEPT !.total = total, !.liquid = liquid]
             e == Edit("withdrawal", seen, to)
  <2>1. /\ UNCHANGED <<today, server, refreshing, sent, blurred, acts>>
        /\ slot[s].pc = "pause" /\ Finish(s, "ok")
        /\ vault' = Patched(vault, e) /\ edits' = edits \cup {e}
    BY <1>9 DEF Withdrawn
  <2>2. seen \in Row /\ total \in Int /\ liquid \in Int
    <3>1. seen \in Row /\ slot[s].amount \in Nat
      BY DEF Chain
    <3> QED BY <3>1 DEF Row
  <2>3. to \in Row
    <3> HIDE DEF seen, total, liquid
    <3> QED BY <2>2 DEF Row
  <2>4. e \in [kind : {"withdrawal", "settings"}, from : Row, to : Row]
    <3> HIDE DEF seen, to
    <3> QED BY <2>2, <2>3 DEF Edit
  <2> HIDE DEF e
  <2>5. vault' \in Row
    BY <2>1, <2>4, PatchBalances
  <2>6. slot' \in [Slots -> Chain] /\ view' \in View /\ Shape /\ \A q \in Slots : Tied(slot'[q])
    BY <1>2, <2>1 DEF server
  <2>7. PagesTypeOK'
    BY <2>1, <2>4, <2>5, <2>6 DEF server, PagesTypeOK
  <2> QED BY <2>6, <2>7 DEF TypeInv, Tied
<1> QED
  BY <1>3, <1>4, <1>5, <1>6, <1>7, <1>8, <1>9

(* The private transfer route and its answer.                              *)
LEMMA PrivateShape ==
  ASSUME TypeInv, NEW s \in Slots, PrivateServed(s) \/ PrivateLanded(s)
  PROVE  TypeInv' /\ Shape
<1> USE TypeFacts
<1>0. slot[s].pc \in Shields /\ slot[s].pc \notin Still /\ slot[s].send \in Sends
      /\ slot[s].mount \in 0..MaxMounts
  <2>1. slot[s].pc \in Shields
    BY DEF PrivateServed, PrivateLanded, Shields
  <2> QED BY <2>1 DEF Tied, Shields, Still, Chain
<1>1. CASE PrivateServed(s)
  <2>1. PICK pc \in {"taken", "refused"} :
          /\ Goes(s, pc)
          /\ pc = "taken" => accepted' = accepted \cup {<<slot[s].mount, slot[s].send>>}
          /\ pc = "refused" => accepted' = accepted
    BY <1>1 DEF PrivateServed
  <2>2. pc \in Pcs /\ pc \in Shields /\ pc \notin Still /\ pc \notin MovesMoney /\ pc # "pause"
    BY DEF Pcs, Still, Shields, MovesMoney
  <2>3. PICK c \in Chain : /\ slot' = [slot EXCEPT ![s] = c] /\ c.pc = pc
                           /\ c.mount = slot[s].mount /\ c.send = slot[s].send
    BY <1>0, <2>1, <2>2, GoingTypes
  <2>4. slot' \in [Slots -> Chain] /\ \A q \in Slots : Tied(slot'[q])
    BY <1>0, <2>1, <2>2, GoingTypes
  <2>5. accepted' \subseteq (0..MaxMounts) \X Sends /\ accepted \subseteq accepted'
    BY <1>0, <2>1
  <2>6. UNCHANGED <<today, row, status, effects, vault, refreshing, edits, view, sent, blurred, acts>>
    BY <1>1 DEF PrivateServed
  <2>7. c.pc = "taken" => <<c.mount, c.send>> \in accepted'
    BY <2>1, <2>3
  <2>8. Go(s)
    BY <1>0, <2>2, <2>3, <2>5, <2>6, <2>7 DEF Go, Steady
  <2>9. PagesTypeOK'
    BY <2>4, <2>5, <2>6 DEF PagesTypeOK
  <2> QED BY <2>4, <2>8, <2>9 DEF TypeInv, Tied, Shape
<1>2. CASE PrivateLanded(s)
  <2>1. PICK outcome \in {"complete", "failed"} :
          Lands(s, outcome) /\ (outcome = "complete" => slot[s].pc = "taken")
    BY <1>2 DEF PrivateLanded
  <2>2. slot' = [slot EXCEPT ![s] = Idle]
    BY <2>1 DEF Lands
  <2>3. slot' \in [Slots -> Chain] /\ \A q \in Slots : Tied(slot'[q])
    BY <2>2, IdleTypes, ChainChanges
  <2>4. UNCHANGED <<today, server, vault, refreshing, edits, sent, blurred, acts>>
    BY <1>2 DEF PrivateLanded
  <2>5. /\ view' \in View /\ view'.mount = view.mount
        /\ ~Here(s) => view' = view
        /\ Here(s) => view'.busy = FALSE
                      /\ view'.transfers = [view.transfers EXCEPT ![slot[s].send] = outcome]
    <3>1. CASE ~Here(s)
      <4>1. view' = view
        BY <2>1, <3>1 DEF Lands
      <4> QED BY <3>1, <4>1
    <3>2. CASE Here(s)
      <4> DEFINE result == IF outcome = "complete" THEN "ok" ELSE "failed"
                 o == Over(view, result)
                 transfers == [view.transfers EXCEPT ![slot[s].send] = outcome]
      <4>1. view' = [o EXCEPT !.transfers = Settled(@, slot[s].send, outcome)]
        BY <2>1, <3>2 DEF Lands
      <4>2. o \in View /\ o.mount = view.mount /\ o.busy = FALSE /\ o.transfers = view.transfers
        BY OverTypes
      <4>3. view' = [o EXCEPT !.transfers = transfers]
        <5> HIDE DEF o
        <5> QED BY <4>1, <4>2 DEF Settled
      <4>4. transfers \in [Sends -> {"none", "shielding", "complete", "failed"}]
        <5>1. view.transfers \in [Sends -> {"none", "shielding", "complete", "failed"}]
          BY DEF View
        <5> QED BY <1>0, <5>1
      <4> HIDE DEF o, transfers
      <4>5. view' \in View /\ view'.mount = o.mount /\ view'.busy = o.busy /\ view'.transfers = transfers
        BY <4>2, <4>3, <4>4 DEF View
      <4> QED BY <3>2, <4>2, <4>5 DEF transfers
    <3> QED BY <3>1, <3>2
  <2>6. Idle \in Chain /\ Idle.pc \in Still /\ Idle.mount \in 0..view.mount
    BY IdleTypes DEF Still
  <2>7. End(s)
    BY <1>0, <2>1, <2>2, <2>4, <2>5, <2>6 DEF End, server
  <2>8. TypeInv'
    BY <2>3, <2>4, <2>5, TypesFollow DEF server
  <2> QED BY <2>7, <2>8 DEF Shape
<1> QED
  BY <1>1, <1>2

(* What neither starts nor ends a chain.                                   *)
LEMMA AllocationTypes ==
  ASSUME NEW t \in Inputs, Valid(t), NEW payments \in 0..5
  PROVE  Allocation(t, payments) \in Shares /\ t.cap \in Nat
<1> DEFINE rest == 100 - t.reserve - t.yield - payments
           liquid == IF rest > 5 THEN rest ELSE 5
           a == [reserve |-> t.reserve, yield |-> t.yield, payments |-> payments, liquid |-> liquid]
<1>1. /\ t.reserve \in Int /\ t.reserve >= 5 /\ t.reserve <= 50
      /\ t.yield \in Int /\ t.yield >= 0 /\ t.yield <= 85 /\ t.reserve + t.yield <= 95
  BY InputsAssumption, SMT DEF Valid
<1>2. t.cap \in Nat
  BY InputsAssumption, SMT DEF Valid
<1>3. liquid \in 0..100
  BY <1>1
<1>4. a.reserve + a.yield + a.payments <= 100
  BY <1>1
<1>5. a \in [reserve : 0..100, yield : 0..100, liquid : 0..100, payments : 0..5]
  <2> HIDE DEF liquid
  <2> QED BY <1>1, <1>3
<1>6. Allocation(t, payments) = a
  BY DEF Allocation
<1> QED
  BY <1>2, <1>4, <1>5, <1>6 DEF Shares

LEMMA QuietShape ==
  ASSUME TypeInv,
         \/ closeModal \/ TimePasses \/ refreshVault \/ UNCHANGED vars
         \/ \E i \in Items \cup {Stake} : openModal(i)
         \/ \E t \in Inputs : handleSave(t)
         \/ \E e \in edits : patchVault(e)
  PROVE  TypeInv' /\ Shape
<1> USE TypeFacts
<1>1. slot' = slot /\ accepted' = accepted /\ effects' = effects /\ sent' = sent /\ status' = status
  BY DEF closeModal, TimePasses, refreshVault, vars, openModal, handleSave, patchVault, server
<1>2. view' \in View /\ Steady
  <2>1. CASE view' = view
    BY <2>1 DEF Steady
  <2>2. CASE \E i \in Items \cup {Stake} : view' = [view EXCEPT !.chosen = i, !.result = "none"]
    BY <2>2 DEF View, Steady
  <2>3. CASE view' = [view EXCEPT !.chosen = NoItem, !.result = "none"]
    BY <2>3 DEF View, Steady
  <2> QED
    BY <2>1, <2>2, <2>3
       DEF closeModal, Closed, TimePasses, refreshVault, vars, openModal, handleSave, patchVault
<1>3. Shape
  BY <1>1, <1>2 DEF Shape, Quiet
<1>4. CASE \/ closeModal \/ TimePasses \/ refreshVault \/ UNCHANGED vars
           \/ \E i \in Items \cup {Stake} : openModal(i)
  <2>1. /\ today' \in Days /\ row' = row /\ edits' = edits /\ acts' = acts /\ blurred' = blurred
        /\ refreshing' \in BOOLEAN /\ vault' \in Row
    BY <1>4 DEF closeModal, TimePasses, refreshVault, vars, openModal, server
  <2>2. PagesTypeOK'
    BY <1>1, <1>2, <2>1 DEF PagesTypeOK
  <2> QED BY <1>1, <1>3, <2>2 DEF TypeInv, Tied
<1>5. CASE \E t \in Inputs : handleSave(t)
  <2>1. PICK t \in Inputs : handleSave(t)
    BY <1>5
  <2> DEFINE alloc == Allocation(t, vault.alloc.payments)
             cap == t.cap
             to == [vault EXCEPT !.alloc = alloc, !.cap = cap]
             e == Edit("settings", vault, to)
  <2>2. /\ UNCHANGED <<today, row, refreshing, blurred>> /\ acts' \in 0..MaxActs
        /\ vault' = to /\ edits' = edits \cup {e} /\ Valid(t)
    <3>1. acts' = acts + 1 /\ acts < MaxActs
      BY <2>1 DEF handleSave, Acts
    <3>2. acts' \in 0..MaxActs
      BY <3>1, SomeSends
    <3>3. vault' = to /\ edits' = edits \cup {e} /\ Valid(t)
      BY <2>1 DEF handleSave
    <3>4. UNCHANGED <<today, row, refreshing, blurred>>
      BY <2>1 DEF handleSave, server
    <3> QED BY <3>2, <3>3, <3>4
  <2>3. alloc \in Shares /\ cap \in Nat
    <3>1. vault.alloc.payments \in 0..5
      BY DEF Row, Shares
    <3> QED BY <2>2, <3>1, AllocationTypes
  <2>4. to \in Row
    <3> HIDE DEF alloc, cap
    <3> QED BY <2>3 DEF Row
  <2>5. e \in [kind : {"withdrawal", "settings"}, from : Row, to : Row]
    <3> HIDE DEF to
    <3> QED BY <2>4 DEF Edit
  <2> HIDE DEF to, e
  <2>6. PagesTypeOK'
    BY <1>1, <1>2, <2>2, <2>4, <2>5 DEF PagesTypeOK
  <2> QED BY <1>1, <1>3, <2>6 DEF TypeInv, Tied
<1>6. CASE \E e \in edits : patchVault(e)
  <2>1. PICK e \in edits : patchVault(e)
    BY <1>6
  <2>2. Patched(row, e) \in Row
    BY PatchBalances
  <2>3. blurred' \in BOOLEAN
    BY <2>1 DEF patchVault
  <2>4. /\ UNCHANGED <<today, vault, refreshing, acts>> /\ row' \in Row /\ edits' \subseteq edits
    BY <2>1, <2>2 DEF patchVault
  <2>5. PagesTypeOK'
    BY <1>1, <1>2, <2>3, <2>4 DEF PagesTypeOK
  <2> QED BY <1>1, <1>3, <2>5 DEF TypeInv, Tied
<1> QED
  BY <1>4, <1>5, <1>6

LEMMA StepShape ==
  ASSUME TypeInv, [Next]_vars
  PROVE  TypeInv' /\ Shape
BY OpenShape, ListShape, ButtonShape, ChainShape, PrivateShape, QuietShape
   DEF Next, User, ChainStep, ListStep

LEMMA StartsTyped == Init => TypeInv
<1> SUFFICES ASSUME Init PROVE TypeInv
  OBVIOUS
<1>1. NoView \in View
  BY SomeSends DEF NoView, View
<1>2. Opening \in Row /\ 0 \in 0..MaxActs /\ 0 \in Days
  BY OpeningAssumption, PagesAssumption
<1>3. PagesTypeOK
  BY <1>1, <1>2, IdleTypes DEF Init, PagesTypeOK
<1> QED
  BY <1>3, IdleTypes DEF Init, TypeInv

(* Every variable of the pages stays within its type, for any queue,       *)
(* inputs, number of chains, stays and acts.                               *)
THEOREM PagesAreTyped == Spec => []PagesTypeOK
<1>1. TypeInv /\ [Next]_vars => TypeInv'
  BY StepShape
<1>2. TypeInv => PagesTypeOK
  BY DEF TypeInv
<1> QED
  BY StartsTyped, <1>1, <1>2, PTL DEF Spec

-----------------------------------------------------------------------------
(* What the server has acted on, together with the chains that will still  *)
(* tell it of a signed transfer, is covered by the transfers signed.       *)

Covering == {"confirm", "record"}
Paid(c, p) == c.pc \in Covering /\ c.purpose = p
Paying(p) == {s \in Slots : Paid(slot[s], p)}
Covered == \A p \in Purposes : effects[p] + Cardinality(Paying(p)) <= sent[p]

LEMMA PayingIsFinite ==
  ASSUME NEW p
  PROVE  IsFiniteSet(Paying(p)) /\ Cardinality(Paying(p)) \in Nat
<1>1. IsFiniteSet(Slots) /\ Paying(p) \in SUBSET Slots
  BY PagesAssumption DEF Paying
<1>2. IsFiniteSet(Paying(p))
  BY <1>1, FS_Subset
<1> QED
  BY <1>2, FS_CardinalityType

LEMMA OneMoreOrLess ==
  ASSUME NEW S, IsFiniteSet(S), NEW x
  PROVE  /\ Cardinality(S \cup {x}) \in Nat /\ Cardinality(S \cup {x}) <= Cardinality(S) + 1
         /\ Cardinality(S \ {x}) \in Nat /\ Cardinality(S \ {x}) <= Cardinality(S)
<1>1. Cardinality(S) \in Nat
  BY FS_CardinalityType
<1>2. IsFiniteSet(S \cup {x}) /\ IsFiniteSet(S \ {x})
  BY FS_AddElement, FS_RemoveElement
<1>3. Cardinality(S \cup {x}) \in Nat /\ Cardinality(S \ {x}) \in Nat
  BY <1>2, FS_CardinalityType
<1>4. Cardinality(S \cup {x}) \in {Cardinality(S), Cardinality(S) + 1}
  BY FS_AddElement
<1>5. Cardinality(S \ {x}) \in {Cardinality(S), Cardinality(S) - 1}
  BY FS_RemoveElement
<1> QED
  BY <1>1, <1>3, <1>4, <1>5

(* One chain changes: the others are paying for what they did before.      *)
LEMMA OneChainChanges ==
  ASSUME slot \in [Slots -> Chain], NEW s \in Slots, NEW c, slot' = [slot EXCEPT ![s] = c], NEW p
  PROVE  /\ Paid(c, p) => Paying(p)' = Paying(p) \cup {s}
         /\ ~Paid(c, p) => Paying(p)' = Paying(p) \ {s}
<1>1. slot'[s] = c /\ \A q \in Slots : q # s => slot'[q] = slot[q]
  OBVIOUS
<1>2. Paying(p)' = {q \in Slots : Paid(slot'[q], p)}
  BY DEF Paying, Paid
<1> QED
  BY <1>1, <1>2 DEF Paying

(* A chain that is not paying, or keeps paying for the same, disturbs      *)
(* nothing.                                                                *)
LEMMA QuietChange ==
  ASSUME TypeInv, Covered, UNCHANGED <<sent, effects>>, NEW s \in Slots, NEW c,
         slot' = [slot EXCEPT ![s] = c],
         c.pc \in Covering => slot[s].pc \in Covering /\ slot[s].purpose = c.purpose
  PROVE  Covered'
<1> USE TypeFacts
<1>1. ASSUME NEW p \in Purposes
      PROVE  Cardinality(Paying(p)') <= Cardinality(Paying(p)) /\ Cardinality(Paying(p)') \in Nat
  <2>1. Paid(c, p) => s \in Paying(p)
    BY DEF Paying, Paid
  <2>2. Paying(p)' \in SUBSET Paying(p)
    <3>1. /\ Paid(c, p) => Paying(p)' = Paying(p) \cup {s}
          /\ ~Paid(c, p) => Paying(p)' = Paying(p) \ {s}
      BY OneChainChanges
    <3> QED
      BY <2>1, <3>1
  <2>3. IsFiniteSet(Paying(p))
    BY PayingIsFinite
  <2>4. IsFiniteSet(Paying(p)') /\ Cardinality(Paying(p)') <= Cardinality(Paying(p))
    BY <2>2, <2>3, FS_Subset
  <2> QED
    BY <2>4, FS_CardinalityType
<1>2. SUFFICES ASSUME NEW p \in Purposes
               PROVE  effects[p]' + Cardinality(Paying(p)') <= sent[p]'
  BY DEF Covered
<1>3. effects[p] \in Nat /\ sent[p] \in Nat /\ effects[p] + Cardinality(Paying(p)) <= sent[p]
  BY DEF Covered
<1>4. Cardinality(Paying(p)) \in Nat
  BY PayingIsFinite
<1> QED
  BY <1>1, <1>3, <1>4

(* A chain that starts is not yet paying, nor is one that ends.            *)
LEMMA StartsUnpaid ==
  ASSUME TypeInv, Covered, NEW s \in Slots, NEW pc, NEW purpose, NEW amount, NEW send,
         pc \in {"prepare", "pause", "sending"}, Starts(s, pc, purpose, amount, send)
  PROVE  Covered'
<1> DEFINE seen == IF pc = "pause" THEN vault ELSE Opening
           mount == view.mount
           c == [Idle EXCEPT !.pc = pc, !.mount = mount, !.purpose = purpose,
                             !.amount = amount, !.send = send, !.seen = seen]
<1>1. slot' = [slot EXCEPT ![s] = c] /\ UNCHANGED <<sent, effects>>
  BY DEF Starts, server
<1>2. c = [Idle EXCEPT !.pc = pc, !.mount = mount, !.purpose = purpose,
                       !.amount = amount, !.send = send, !.seen = seen]
  OBVIOUS
<1> HIDE DEF seen, mount, c
<1>3. c.pc = pc
  BY <1>2, IdleTypes DEF Chain
<1> QED
  BY <1>1, <1>3, QuietChange DEF Covering

LEMMA FinishUnpaid ==
  ASSUME TypeInv, Covered, NEW s \in Slots, NEW result \in {"ok", "failed"}, Finish(s, result),
         UNCHANGED <<sent, effects>>
  PROVE  Covered'
<1>1. PICK c \in Chain : slot' = [slot EXCEPT ![s] = c] /\ c.pc \in Still
  BY FinishTypes
<1>2. c.pc \notin Covering
  BY <1>1 DEF Still, Covering
<1> QED
  BY <1>1, <1>2, QuietChange

(* A chain goes on.                                                        *)
LEMMA Going ==
  ASSUME TypeInv, NEW s \in Slots, NEW pc, Goes(s, pc)
  PROVE  \E c : slot' = [slot EXCEPT ![s] = c] /\ c.pc = pc /\ c.purpose = slot[s].purpose
<1> DEFINE c == [slot[s] EXCEPT !.pc = pc]
<1>1. slot' = [slot EXCEPT ![s] = c] /\ slot[s] \in Chain
  BY TypeFacts DEF Goes
<1>2. c.pc = pc /\ c.purpose = slot[s].purpose
  BY <1>1 DEF Chain
<1> HIDE DEF c
<1> QED
  BY <1>1, <1>2

LEMMA GoesUnpaid ==
  ASSUME TypeInv, Covered, NEW s \in Slots, NEW pc, Goes(s, pc), UNCHANGED <<sent, effects>>,
         pc \in Covering => slot[s].pc \in Covering
  PROVE  Covered'
<1>1. PICK c : slot' = [slot EXCEPT ![s] = c] /\ c.pc = pc /\ c.purpose = slot[s].purpose
  BY Going
<1> QED
  BY <1>1, QuietChange

(* A signed transfer covers its chain from now on.                         *)
LEMMA SignedCovers ==
  ASSUME TypeInv, Covered, NEW s \in Slots, Signed(s)
  PROVE  Covered'
<1> USE TypeFacts
<1> DEFINE x == slot[s].purpose
<1>0. x \in Purposes /\ Goes(s, "confirm") /\ sent' = [sent EXCEPT ![x] = @ + 1] /\ effects' = effects
  <2>1. slot[s].pc \in MovesMoney
    BY DEF Signed, MovesMoney
  <2> QED BY <2>1 DEF Signed, Tied, server
<1>1. PICK c : slot' = [slot EXCEPT ![s] = c] /\ c.pc = "confirm" /\ c.purpose = x
  BY <1>0, Going
<1> HIDE DEF x
<1>3. ASSUME NEW p \in Purposes
      PROVE  effects[p]' + Cardinality(Paying(p)') <= sent[p]'
  <2>0. effects[p] \in Nat /\ sent[p] \in Nat /\ effects[p] + Cardinality(Paying(p)) <= sent[p]
    BY DEF Covered
  <2>1. IsFiniteSet(Paying(p)) /\ Cardinality(Paying(p)) \in Nat
    BY PayingIsFinite
  <2>2. /\ Paid(c, p) => Paying(p)' = Paying(p) \cup {s}
        /\ ~Paid(c, p) => Paying(p)' = Paying(p) \ {s}
    BY <1>1, OneChainChanges
  <2>3. CASE p = x
    <3>1. Paying(p)' = Paying(p) \cup {s}
      BY <1>1, <2>2, <2>3 DEF Paid, Covering
    <3>2. Cardinality(Paying(p)') <= Cardinality(Paying(p)) + 1 /\ Cardinality(Paying(p)') \in Nat
      BY <2>1, <3>1, OneMoreOrLess
    <3>3. sent'[p] = sent[p] + 1 /\ effects'[p] = effects[p]
      BY <1>0, <2>3
    <3> QED BY <2>0, <2>1, <3>2, <3>3
  <2>4. CASE p # x
    <3>1. Paying(p)' = Paying(p) \ {s}
      BY <1>1, <2>2, <2>4 DEF Paid
    <3>2. Cardinality(Paying(p)') <= Cardinality(Paying(p)) /\ Cardinality(Paying(p)') \in Nat
      BY <2>1, <3>1, OneMoreOrLess
    <3>3. sent'[p] = sent[p] /\ effects'[p] = effects[p]
      BY <1>0, <2>4
    <3> QED BY <2>0, <2>1, <3>2, <3>3
  <2> QED BY <2>3, <2>4
<1> QED
  BY <1>3 DEF Covered

(* The server acts at most once for a chain it is told of, which ends its  *)
(* cover.                                                                  *)
LEMMA ServedIsCovered ==
  ASSUME TypeInv, Covered, NEW s \in Slots, Served(s)
  PROVE  Covered'
<1> USE TypeFacts
<1> DEFINE x == slot[s].purpose
<1>0. /\ slot[s].pc = "record" /\ Goes(s, "told") /\ sent' = sent /\ x \in Purposes
      /\ effects' = effects \/ effects' = [effects EXCEPT ![x] = @ + 1]
  <2>1. slot[s].pc \in MovesMoney
    BY DEF Served, MovesMoney
  <2> QED BY <2>1 DEF Served, executePayment, stakeRoute, topupRoute, Acted, Tied
<1>1. PICK c : slot' = [slot EXCEPT ![s] = c] /\ c.pc = "told" /\ c.purpose = x
  BY <1>0, Going
<1>3. ASSUME NEW p \in Purposes
      PROVE  effects[p]' + Cardinality(Paying(p)') <= sent[p]'
  <2>0. effects[p] \in Nat /\ sent[p] \in Nat /\ effects[p] + Cardinality(Paying(p)) <= sent[p]
    BY DEF Covered
  <2>1. IsFiniteSet(Paying(p)) /\ Cardinality(Paying(p)) \in Nat
    BY PayingIsFinite
  <2>2. Paying(p)' = Paying(p) \ {s}
    <3>1. ~Paid(c, p)
      BY <1>1 DEF Paid, Covering
    <3>2. ~Paid(c, p) => Paying(p)' = Paying(p) \ {s}
      BY <1>1, OneChainChanges
    <3> QED BY <3>1, <3>2
  <2>3. CASE p = x
    <3>1. s \in Paying(p)
      BY <1>0, <2>3 DEF Paying, Paid, Covering
    <3>2. Cardinality(Paying(p)') = Cardinality(Paying(p)) - 1
      BY <2>1, <2>2, <3>1, FS_RemoveElement
    <3>3. sent'[p] = sent[p] /\ effects'[p] \in {effects[p], effects[p] + 1}
      BY <1>0, <2>3
    <3> HIDE DEF x
    <3> QED BY <2>0, <2>1, <3>2, <3>3
  <2>4. CASE p # x
    <3>2. Cardinality(Paying(p)') <= Cardinality(Paying(p)) /\ Cardinality(Paying(p)') \in Nat
      BY <2>1, <2>2, OneMoreOrLess
    <3>3. sent'[p] = sent[p] /\ effects'[p] = effects[p]
      BY <1>0, <2>4
    <3> HIDE DEF x
    <3> QED BY <2>0, <2>1, <3>2, <3>3
  <2> QED BY <2>3, <2>4
<1> QED
  BY <1>3 DEF Covered

(* Each step keeps the cover.                                              *)
LEMMA StepKeepsCover ==
  ASSUME TypeInv, Covered, [Next]_vars
  PROVE  Covered'
<1>0. ASSUME UNCHANGED <<slot, sent, effects>>
      PROVE  Covered'
  BY <1>0 DEF Covered, Paying
<1>1. CASE \E page \in {"vault", "payments", "staking", "private", "settings"} : Open(page)
  <2>1. PICK page \in {"vault", "payments", "staking", "private", "settings"} : Open(page)
    BY <1>1
  <2>2. UNCHANGED <<sent, effects>> /\ Fetching.pc \notin Covering
    <3>1. TypeInv'
      BY <2>1, OpenShape
    <3>2. Fetching.pc = "asked"
      BY <3>1, FetchingTypes DEF TypeInv, PagesTypeOK, View
    <3> QED BY <2>1, <3>2 DEF Open, server, Covering
  <2>3. CASE slot' = slot
    BY <2>2, <2>3, <1>0
  <2>4. CASE \E s \in Slots : slot' = [slot EXCEPT ![s] = Fetching]
    BY <2>2, <2>4, QuietChange
  <2> QED BY <2>1, <2>3, <2>4 DEF Open
<1>2. CASE \E s \in Slots : Refresh(s) \/ ListServed(s) \/ ListLanded(s) \/ PrivateLanded(s) \/ PrivateServed(s)
  <2>1. PICK s \in Slots : Refresh(s) \/ ListServed(s) \/ ListLanded(s) \/ PrivateLanded(s) \/ PrivateServed(s)
    BY <1>2
  <2>2. UNCHANGED <<sent, effects>>
    BY <2>1 DEF Refresh, ListServed, ListLanded, PrivateLanded, Lands, PrivateServed, server
  <2>3. CASE Refresh(s)
    <3>1. slot' = [slot EXCEPT ![s] = Fetching] /\ view' = [view EXCEPT !.loading = TRUE]
      BY <2>3 DEF Refresh
    <3>2. (view').mount \in 0..MaxMounts
      BY <3>1, TypeFacts DEF View
    <3>3. Fetching.pc \notin Covering
      BY <3>2, FetchingTypes DEF Covering
    <3> QED BY <2>2, <3>1, <3>3, QuietChange
  <2>4. CASE ListServed(s)
    <3> DEFINE answer == IF Here(s) THEN Offered(view.page) ELSE {}
               c == [slot[s] EXCEPT !.pc = "answered", !.answer = answer]
    <3>1. slot' = [slot EXCEPT ![s] = c]
      BY <2>4 DEF ListServed
    <3>2. c = [slot[s] EXCEPT !.pc = "answered", !.answer = answer] /\ slot[s] \in Chain
      BY TypeFacts
    <3> HIDE DEF answer, c
    <3>3. c.pc = "answered"
      BY <3>2 DEF Chain
    <3> QED BY <2>2, <3>1, <3>3, QuietChange DEF Covering
  <2>5. CASE ListLanded(s) \/ PrivateLanded(s)
    <3>1. slot' = [slot EXCEPT ![s] = Idle] /\ Idle.pc \notin Covering
      BY <2>5, IdleTypes DEF ListLanded, PrivateLanded, Lands, Covering
    <3> QED BY <2>2, <3>1, QuietChange
  <2>6. CASE PrivateServed(s)
    <3>1. Goes(s, "taken") \/ Goes(s, "refused")
      BY <2>6 DEF PrivateServed
    <3> QED BY <2>2, <3>1, GoesUnpaid DEF Covering
  <2> QED BY <2>1, <2>3, <2>4, <2>5, <2>6
<1>3. CASE \E s \in Slots : handlePayNow(s) \/ (\E a \in Stakes : handleStake(s, a))
             \/ (\E a \in Deposits : handleDeposit(s, a)) \/ (\E a \in Withdrawals : handleWithdraw(s, a))
             \/ (\E n \in Sends : handleSend(s, n))
  BY <1>3, StartsUnpaid DEF handlePayNow, handleStake, handleDeposit, handleWithdraw, handleSend
<1>4. CASE \E s \in Slots : Signed(s)
  BY <1>4, SignedCovers
<1>5. CASE \E s \in Slots : Served(s)
  BY <1>5, ServedIsCovered
<1>6. CASE \E s \in Slots : Prepared(s)
  BY <1>6, GoesUnpaid DEF Prepared, Covering, server
<1>7. CASE \E s \in Slots : Rejected(s) \/ Told(s) \/ Breaks(s) \/ Withdrawn(s)
  <2>1. PICK s \in Slots : Rejected(s) \/ Told(s) \/ Breaks(s) \/ Withdrawn(s)
    BY <1>7
  <2>2. UNCHANGED <<sent, effects>> /\ \E result \in {"ok", "failed"} : Finish(s, result)
    BY <2>1 DEF Rejected, Refused, Told, Breaks, Withdrawn, server
  <2> QED BY <2>2, FinishUnpaid
<1>8. CASE \E s \in Slots : Confirmed(s)
  <2>1. PICK s \in Slots : Confirmed(s)
    BY <1>8
  <2>2. UNCHANGED <<sent, effects>> /\ slot[s].pc = "confirm"
        /\ (Goes(s, "record") \/ Finish(s, "ok"))
    BY <2>1 DEF Confirmed, server
  <2>3. CASE Goes(s, "record")
    BY <2>2, <2>3, GoesUnpaid DEF Covering
  <2>4. CASE Finish(s, "ok")
    BY <2>2, <2>4, FinishUnpaid
  <2> QED BY <2>2, <2>3, <2>4
<1>9. CASE \/ closeModal \/ TimePasses \/ refreshVault \/ UNCHANGED vars
           \/ (\E i \in Items \cup {Stake} : openModal(i)) \/ (\E t \in Inputs : handleSave(t))
           \/ (\E e \in edits : patchVault(e))
  <2>1. UNCHANGED <<slot, sent, effects>>
    BY <1>9 DEF closeModal, TimePasses, refreshVault, vars, openModal, handleSave, patchVault, server
  <2> QED BY <2>1, <1>0
<1> QED
  BY <1>1, <1>2, <1>3, <1>4, <1>5, <1>6, <1>7, <1>8, <1>9
     DEF Next, User, ChainStep, ListStep

LEMMA StartsCovered == Init => Covered
<1> SUFFICES ASSUME Init, NEW p \in Purposes PROVE effects[p] + Cardinality(Paying(p)) <= sent[p]
  BY DEF Covered
<1>1. slot = [s \in Slots |-> Idle] /\ sent[p] = 0 /\ effects[p] = 0
  BY DEF Init
<1>2. Paying(p) = {}
  BY <1>1, IdleTypes DEF Paying, Paid, Covering
<1>3. Cardinality(Paying(p)) = 0
  BY <1>2, FS_EmptySet
<1> QED
  BY <1>1, <1>3

(* The server never acts on a deposit, a stake or a payment more often     *)
(* than the owner signed a transfer for it.                                *)
THEOREM BookingsAreBacked == Spec => []BackedByTransfers
<1>1. ASSUME TypeInv, Covered, NEW p \in Purposes
      PROVE  effects[p] + Cardinality({s \in Slots : slot[s].pc = "record" /\ slot[s].purpose = p}) <= sent[p]
  <2> DEFINE telling == {s \in Slots : slot[s].pc = "record" /\ slot[s].purpose = p}
  <2>1. telling \in SUBSET Paying(p)
    BY DEF Paying, Paid, Covering
  <2>2. IsFiniteSet(Paying(p)) /\ Cardinality(Paying(p)) \in Nat
    BY PayingIsFinite
  <2> HIDE DEF telling
  <2>3. IsFiniteSet(telling) /\ Cardinality(telling) <= Cardinality(Paying(p))
    BY <2>1, <2>2, FS_Subset
  <2>4. Cardinality(telling) \in Nat
    BY <2>3, FS_CardinalityType
  <2>5. effects[p] \in Nat /\ sent[p] \in Nat /\ effects[p] + Cardinality(Paying(p)) <= sent[p]
    BY <1>1, TypeFacts DEF Covered
  <2>6. effects[p] + Cardinality(telling) <= sent[p]
    BY <2>2, <2>3, <2>4, <2>5
  <2> QED BY <2>6 DEF telling
<1>2. TypeInv /\ Covered => BackedByTransfers
  BY <1>1 DEF BackedByTransfers
<1>3. TypeInv /\ Covered /\ [Next]_vars => TypeInv' /\ Covered'
  BY StepShape, StepKeepsCover
<1> QED
  BY <1>2, <1>3, StartsTyped, StartsCovered, PTL DEF Spec

-----------------------------------------------------------------------------
(* One chain at a time: a page is busy exactly while one of its chains is  *)
(* under way, and a transfer is shielding exactly while its chain is.  No  *)
(* chain belongs to a page that has not been opened yet.                   *)

Active(s) == Here(s) /\ slot[s].pc \notin Still
OneChain ==
  /\ \A s \in Slots : slot[s].mount <= view.mount
  /\ \A s \in Slots : Active(s) => view.busy
  /\ view.busy => \E s \in Slots : Active(s)
  /\ \A s, t \in Slots : Active(s) /\ Active(t) => s = t
Shielded ==
  /\ \A n \in Sends : view.transfers[n] = "shielding" <=> \E s \in Slots : Active(s) /\ slot[s].send = n
  /\ \A n \in Sends : view.transfers[n] = "complete" => <<view.mount, n>> \in accepted
  /\ \A s \in Slots : slot[s].pc = "taken" => <<slot[s].mount, slot[s].send>> \in accepted
OneInv == TypeInv /\ OneChain /\ Shielded

LEMMA OneFacts ==
  ASSUME OneInv
  PROVE  /\ slot \in [Slots -> Chain] /\ view.busy \in BOOLEAN /\ view.mount \in Nat
         /\ view.transfers \in [Sends -> {"none", "shielding", "complete", "failed"}]
         /\ \A s \in Slots : slot[s].mount \in Nat
         /\ "taken" \notin Still
<1>1. view \in View /\ slot \in [Slots -> Chain] /\ view.mount \in Nat
  BY TypeFacts DEF OneInv
<1> QED
  BY <1>1, SomeSends DEF View, Chain, Still

(* The other chains stay as they are.                                      *)
LEMMA OthersStay ==
  ASSUME slot \in [Slots -> Chain], NEW s \in Slots, NEW c, slot' = [slot EXCEPT ![s] = c]
  PROVE  slot'[s] = c /\ \A q \in Slots : q # s => slot'[q] = slot[q]
OBVIOUS

LEMMA QuietOne ==
  ASSUME OneInv, Quiet
  PROVE  OneChain' /\ Shielded'
<1>1. /\ slot' = slot /\ view'.mount = view.mount /\ view'.busy = view.busy
      /\ view'.transfers = view.transfers /\ accepted' = accepted
  BY DEF Quiet, Steady
<1> QED
  BY <1>1 DEF OneInv, OneChain, Shielded, Active, Here

LEMMA LeaveOne ==
  ASSUME OneInv, Leave
  PROVE  OneChain' /\ Shielded'
<1> USE OneFacts
<1>1. /\ view'.mount = view.mount + 1 /\ view'.busy = FALSE /\ accepted' = accepted
      /\ view'.transfers = [n \in Sends |-> "none"]
  BY DEF Leave
<1>2. ASSUME NEW q \in Slots
      PROVE  /\ slot'[q].mount <= view'.mount /\ slot'[q].mount \in Nat
             /\ slot'[q].pc \in Still \/ (slot'[q] = slot[q] /\ slot'[q].mount <= view.mount)
  <2>1. slot[q].mount <= view.mount /\ slot[q].mount \in Nat
    BY DEF OneInv, OneChain
  <2>2. CASE slot' = slot
    BY <1>1, <2>1, <2>2
  <2>3. CASE \E s \in Slots, c \in Chain : /\ slot[s].pc \in Still /\ slot' = [slot EXCEPT ![s] = c]
                                          /\ c.pc \in Still /\ c.mount \in 0..view'.mount
    <3>1. PICK s \in Slots, c \in Chain : /\ slot' = [slot EXCEPT ![s] = c]
                                          /\ c.pc \in Still /\ c.mount \in 0..view'.mount
      BY <2>3
    <3>2. slot'[s] = c /\ \A r \in Slots : r # s => slot'[r] = slot[r]
      BY <3>1, OthersStay
    <3> QED BY <1>1, <2>1, <3>1, <3>2
  <2> QED BY <2>2, <2>3 DEF Leave
<1>3. \A q \in Slots : ~Active(q)'
  BY <1>1, <1>2 DEF Active, Here
<1>4. \A q \in Slots : slot'[q].pc = "taken" => <<slot'[q].mount, slot'[q].send>> \in accepted'
  BY <1>1, <1>2 DEF OneInv, Shielded
<1>5. OneChain'
  BY <1>1, <1>2, <1>3 DEF OneChain
<1>6. Shielded'
  BY <1>1, <1>3, <1>4 DEF Shielded
<1> QED
  BY <1>5, <1>6

LEMMA ListingOne ==
  ASSUME OneInv, NEW s \in Slots, Listing(s)
  PROVE  OneChain' /\ Shielded'
<1> USE OneFacts
<1>1. /\ view'.mount = view.mount /\ view'.busy = view.busy /\ view'.transfers = view.transfers
      /\ accepted' = accepted /\ slot[s].pc \in Still
  BY DEF Listing, Steady
<1>2. PICK c \in Chain : /\ slot' = [slot EXCEPT ![s] = c] /\ c.pc \in Still
                         /\ c.mount \in 0..view.mount \cup {slot[s].mount}
  BY DEF Listing
<1>3. slot'[s] = c /\ \A q \in Slots : q # s => slot'[q] = slot[q]
  BY <1>2, OthersStay
<1>4. c.mount <= view.mount
  BY <1>2 DEF OneInv, OneChain
<1>5. \A q \in Slots : Active(q)' <=> Active(q)
  BY <1>1, <1>2, <1>3 DEF Active, Here
<1>6. ~Active(s)
  BY <1>1 DEF Active
<1>7. OneChain'
  BY <1>1, <1>3, <1>4, <1>5 DEF OneInv, OneChain
<1>8. Shielded'
  <2>1. \A q \in Slots : Active(q) => slot'[q].send = slot[q].send
    BY <1>3, <1>6
  <2>2. \A q \in Slots : slot'[q].pc = "taken" => slot'[q] = slot[q]
    BY <1>2, <1>3
  <2> QED BY <1>1, <1>5, <2>1, <2>2 DEF OneInv, Shielded
<1> QED
  BY <1>7, <1>8

LEMMA BeginOne ==
  ASSUME OneInv, NEW s \in Slots, Begin(s)
  PROVE  OneChain' /\ Shielded'
<1> USE OneFacts
<1>1. /\ slot[s].pc \in Still /\ ~view.busy /\ view'.busy = TRUE
      /\ view'.mount = view.mount /\ accepted' = accepted
  BY DEF Begin
<1>2. PICK c \in Chain :
        /\ slot' = [slot EXCEPT ![s] = c] /\ c.pc \notin Still /\ c.pc # "taken" /\ c.mount = view.mount
        /\ view'.transfers = IF c.send = 0 THEN view.transfers
                             ELSE [view.transfers EXCEPT ![c.send] = "shielding"]
  BY DEF Begin
<1>3. slot'[s] = c /\ \A q \in Slots : q # s => slot'[q] = slot[q]
  BY <1>2, OthersStay
<1>4. \A q \in Slots : ~Active(q)
  BY <1>1 DEF OneInv, OneChain
<1>5. \A q \in Slots : Active(q)' <=> q = s
  BY <1>1, <1>2, <1>3, <1>4 DEF Active, Here
<1>6. OneChain'
  BY <1>1, <1>2, <1>3, <1>5 DEF OneInv, OneChain
<1>7. \A n \in Sends : view.transfers[n] # "shielding"
  BY <1>4 DEF OneInv, Shielded
<1>8. ASSUME NEW n \in Sends
      PROVE  /\ view'.transfers[n] = "shielding" <=> c.send = n
             /\ view'.transfers[n] = "complete" => view.transfers[n] = "complete"
  <2>1. n # 0
    BY SomeSends
  <2>2. CASE c.send = 0
    BY <1>2, <1>7, <2>1, <2>2
  <2>3. CASE c.send # 0
    BY <1>2, <1>7, <2>3
  <2> QED BY <2>2, <2>3
<1>9. Shielded'
  <2>1. \A q \in Slots : slot'[q].pc = "taken" => slot'[q] = slot[q]
    BY <1>2, <1>3
  <2> QED BY <1>1, <1>3, <1>5, <1>8, <2>1 DEF OneInv, Shielded
<1> QED
  BY <1>6, <1>9

LEMMA GoOne ==
  ASSUME OneInv, NEW s \in Slots, Go(s)
  PROVE  OneChain' /\ Shielded'
<1> USE OneFacts
<1>1. /\ view'.mount = view.mount /\ view'.busy = view.busy /\ view'.transfers = view.transfers
      /\ accepted \subseteq accepted' /\ slot[s].pc \notin Still
  BY DEF Go, Steady
<1>2. PICK c \in Chain : /\ slot' = [slot EXCEPT ![s] = c] /\ c.pc \notin Still
                         /\ c.mount = slot[s].mount /\ c.send = slot[s].send
                         /\ c.pc = "taken" => <<c.mount, c.send>> \in accepted'
  BY DEF Go
<1>3. slot'[s] = c /\ \A q \in Slots : q # s => slot'[q] = slot[q]
  BY <1>2, OthersStay
<1>4. \A q \in Slots : slot'[q].mount = slot[q].mount /\ slot'[q].send = slot[q].send
  BY <1>2, <1>3
<1>5. \A q \in Slots : Active(q)' <=> Active(q)
  BY <1>1, <1>2, <1>3, <1>4 DEF Active, Here
<1>6. OneChain'
  BY <1>1, <1>4, <1>5 DEF OneInv, OneChain
<1>7. Shielded'
  <2>1. \A q \in Slots : slot'[q].pc = "taken" => <<slot'[q].mount, slot'[q].send>> \in accepted'
    BY <1>1, <1>2, <1>3 DEF OneInv, Shielded
  <2>2. \A n \in Sends : view'.transfers[n] = "complete" => <<view'.mount, n>> \in accepted'
    BY <1>1 DEF OneInv, Shielded
  <2>3. \A n \in Sends : view'.transfers[n] = "shielding"
                           <=> \E q \in Slots : Active(q)' /\ slot'[q].send = n
    BY <1>1, <1>4, <1>5 DEF OneInv, Shielded
  <2> QED BY <2>1, <2>2, <2>3 DEF Shielded
<1> QED
  BY <1>6, <1>7

LEMMA EndOne ==
  ASSUME OneInv, NEW s \in Slots, End(s)
  PROVE  OneChain' /\ Shielded'
<1> USE OneFacts
<1>1. /\ slot[s].pc \notin Still /\ accepted' = accepted /\ view'.mount = view.mount
  BY DEF End
<1>2. PICK c \in Chain : slot' = [slot EXCEPT ![s] = c] /\ c.pc \in Still /\ c.mount \in 0..view.mount
  BY DEF End
<1>3. slot'[s] = c /\ \A q \in Slots : q # s => slot'[q] = slot[q]
  BY <1>2, OthersStay
<1>4. c.mount <= view.mount
  BY <1>2
<1>5. \A q \in Slots : Active(q)' <=> Active(q) /\ q # s
  BY <1>1, <1>2, <1>3 DEF Active, Here
<1>6. \A q \in Slots : slot'[q].pc = "taken" => slot'[q] = slot[q]
  BY <1>2, <1>3
<1>7. CASE ~Here(s)
  <2>1. view' = view /\ ~Active(s)
    BY <1>7 DEF End, Active
  <2>2. \A q \in Slots : Active(q)' <=> Active(q)
    BY <1>5, <2>1
  <2>3. \A q \in Slots : Active(q) => slot'[q].send = slot[q].send
    BY <1>3, <2>1
  <2>4. OneChain'
    BY <1>3, <1>4, <2>1, <2>2 DEF OneInv, OneChain
  <2>5. Shielded'
    BY <1>1, <1>6, <2>1, <2>2, <2>3 DEF OneInv, Shielded
  <2> QED BY <2>4, <2>5
<1>8. CASE Here(s)
  <2>1. Active(s) /\ view'.busy = FALSE
    BY <1>1, <1>8 DEF Active, End
  <2>2. \A q \in Slots : ~Active(q)' /\ (Active(q) => q = s)
    BY <1>5, <2>1 DEF OneInv, OneChain
  <2>3. OneChain'
    BY <1>1, <1>3, <1>4, <2>1, <2>2 DEF OneInv, OneChain
  <2>4. \A n \in Sends : view.transfers[n] = "shielding" <=> slot[s].send = n
    BY <2>1, <2>2 DEF OneInv, Shielded
  <2>5. ASSUME NEW n \in Sends
        PROVE  /\ view'.transfers[n] # "shielding"
               /\ view'.transfers[n] = "complete" => <<view'.mount, n>> \in accepted'
    <3>0. view.transfers[n] = "complete" => <<view.mount, n>> \in accepted
      BY DEF OneInv, Shielded
    <3>1. CASE slot[s].send = 0 /\ view'.transfers = view.transfers
      <4>1. n # 0
        BY SomeSends
      <4> QED BY <1>1, <2>4, <3>0, <3>1, <4>1
    <3>2. CASE \E outcome \in {"complete", "failed"} :
               /\ slot[s].send \in Sends
               /\ outcome = "complete" => slot[s].pc = "taken"
               /\ view'.transfers = [view.transfers EXCEPT ![slot[s].send] = outcome]
      <4>1. PICK outcome \in {"complete", "failed"} :
               /\ slot[s].send \in Sends
               /\ outcome = "complete" => slot[s].pc = "taken"
               /\ view'.transfers = [view.transfers EXCEPT ![slot[s].send] = outcome]
        BY <3>2
      <4>2. outcome = "complete" => <<view.mount, slot[s].send>> \in accepted
        BY <1>8, <4>1 DEF OneInv, Shielded, Here
      <4>3. n = slot[s].send => view'.transfers[n] = outcome
        BY <4>1
      <4>4. n # slot[s].send => view'.transfers[n] = view.transfers[n]
        BY <4>1
      <4> QED BY <1>1, <2>4, <3>0, <4>2, <4>3, <4>4
    <3> QED BY <1>8, <3>1, <3>2 DEF End
  <2>6. \A q \in Slots : slot'[q].pc = "taken" => <<slot'[q].mount, slot'[q].send>> \in accepted'
    BY <1>1, <1>6 DEF OneInv, Shielded
  <2>7. Shielded'
    BY <2>2, <2>5, <2>6 DEF Shielded
  <2> QED BY <2>3, <2>7
<1> QED
  BY <1>7, <1>8

LEMMA OneInvHolds == Spec => []OneInv
<1>1. Init => OneInv
  <2> SUFFICES ASSUME Init PROVE OneChain /\ Shielded
    BY StartsTyped DEF OneInv
  <2>1. /\ slot = [s \in Slots |-> Idle] /\ view.mount = 0 /\ view.busy = FALSE
        /\ view.transfers = [n \in Sends |-> "none"]
    BY DEF Init, NoView
  <2>2. \A s \in Slots : ~Active(s) /\ slot[s].pc # "taken" /\ slot[s].mount = 0
    BY <2>1, IdleTypes DEF Active, Still
  <2> QED BY <2>1, <2>2 DEF OneChain, Shielded
<1>2. OneInv /\ [Next]_vars => OneInv'
  <2> SUFFICES ASSUME OneInv, [Next]_vars PROVE OneInv'
    OBVIOUS
  <2>1. TypeInv' /\ Shape
    BY StepShape DEF OneInv
  <2>2. OneChain' /\ Shielded'
    BY <2>1, QuietOne, LeaveOne, ListingOne, BeginOne, GoOne, EndOne DEF Shape
  <2> QED BY <2>1, <2>2 DEF OneInv
<1> QED
  BY <1>1, <1>2, PTL DEF Spec

(* While a page is busy exactly one of its chains is under way, and none   *)
(* while it is not.                                                        *)
THEOREM BusyMeansOneChain == Spec => []BusyIsOneChain
<1>1. ASSUME OneInv PROVE BusyIsOneChain
  <2> DEFINE under == {s \in Slots : Here(s) /\ Moving(s)}
  <2>1. \A s \in Slots : s \in under <=> Active(s)
    BY DEF Moving, Active, Still
  <2>2. Cardinality(under) = IF view.busy THEN 1 ELSE 0
    <3>1. CASE view.busy
      <4>1. PICK s \in Slots : Active(s)
        BY <1>1, <3>1 DEF OneInv, OneChain
      <4>2. \A t \in Slots : Active(t) <=> t = s
        BY <1>1, <4>1 DEF OneInv, OneChain
      <4>3. under = {} \cup {s}
        BY <2>1, <4>2
      <4>4. Cardinality({} \cup {s}) = 1
        <5>1. IsFiniteSet({}) /\ Cardinality({}) = 0
          BY FS_EmptySet
        <5> QED BY <5>1, FS_AddElement
      <4> QED BY <3>1, <4>3, <4>4
    <3>2. CASE ~view.busy
      <4>1. under = {}
        BY <1>1, <2>1, <3>2 DEF OneInv, OneChain
      <4> QED BY <3>2, <4>1, FS_EmptySet
    <3> QED BY <3>1, <3>2
  <2> QED BY <2>2 DEF BusyIsOneChain
<1> QED
  BY <1>1, OneInvHolds, PTL

(* A private transfer is shown as shielding as long as its request is      *)
(* under way and no longer, and as complete only if the server took it.    *)
THEOREM TransfersAreShownAsTheyAre == Spec => []ShieldingIsUnderWay
<1>1. ASSUME OneInv PROVE ShieldingIsUnderWay
  <2>1. \A s \in Slots : Active(s) <=> Here(s) /\ Moving(s)
    BY DEF Moving, Active, Still
  <2> QED BY <1>1, <2>1 DEF ShieldingIsUnderWay, OneInv, Shielded
<1> QED
  BY <1>1, OneInvHolds, PTL

-----------------------------------------------------------------------------
(* The buckets.  Every route keeps them in balance, and so does a patch    *)
(* that lands on the balances it was made from; what is left of a deposit  *)
(* that rounding took a cent too much for is at least nothing again, as a  *)
(* deposit is at least a cent.                                             *)

BooksInv ==
  /\ TypeInv
  /\ ~blurred => Balanced(row)
  /\ \A e \in edits : e.kind = "withdrawal" => Withdrawal(e)

LEMMA ServedBalances ==
  ASSUME TypeInv, Balanced(row), NEW s \in Slots, Served(s)
  PROVE  Balanced(row')
<1> USE TypeFacts
<1>1. slot[s].amount \in Nat /\ slot[s].amount >= 1
  <2>1. slot[s].pc \in MovesMoney
    BY DEF Served, MovesMoney
  <2> QED BY <2>1 DEF Tied, Chain
<1>2. CASE \E i \in Items : executePayment(s, i)
  <2>1. PICK i \in Items : executePayment(s, i)
    BY <1>2
  <2>2. Info[i].amount \in Nat
    BY PagesAssumption
  <2>3. \/ row' = row
        \/ Info[i].amount <= row.reserve + row.liquid /\ row' = PaidFrom(row, Info[i].amount)
    BY <2>1 DEF executePayment, Acted
  <2> QED BY <2>2, <2>3, PaymentBalances
<1>3. CASE stakeRoute(s)
  <2>1. row' = row \/ (slot[s].amount <= row.yield /\ row' = Staked(row, slot[s].amount))
    BY <1>3 DEF stakeRoute, Acted, Stakeable
  <2> QED BY <1>1, <2>1, StakeBalances
<1>4. CASE topupRoute(s)
  <2>1. row' = ToppedUp(row, slot[s].amount)
    BY <1>4 DEF topupRoute, Acted
  <2>2. row.total \in Int /\ row.yield \in Int /\ row.reserve \in Int /\ row.liquid \in Int /\ row.payments \in Int
    BY DEF Row
  <2>3. row.total + slot[s].amount >= 0
    BY <1>1, <2>2 DEF Balanced
  <2>4. Balanced(ToppedUp(row, slot[s].amount))
    BY <1>1, <2>3, TopUpBalances
  <2> QED BY <2>1, <2>4
<1> QED
  BY <1>2, <1>3, <1>4 DEF Served

LEMMA PatchKeepsBalance ==
  ASSUME BooksInv, NEW e \in edits, patchVault(e)
  PROVE  ~blurred' => Balanced(row')
<1> USE TypeFacts DEF BooksInv
<1> SUFFICES ASSUME ~blurred' PROVE Balanced(row')
  OBVIOUS
<1>1. CASE UNCHANGED <<row, blurred>>
  BY <1>1
<1>2. CASE row' = Patched(row, e) /\ blurred' = (blurred \/ Stale(e))
  <2>1. Balanced(row) /\ ~Stale(e)
    BY <1>2
  <2>2. e.kind \in {"withdrawal", "settings"}
    OBVIOUS
  <2>3. e.kind = "withdrawal" => Withdrawal(e) /\ \A c \in Money : e.from[c] = row[c]
    BY <2>1 DEF Stale
  <2> QED BY <1>2, <2>1, <2>2, <2>3, PatchBalances
<1> QED
  BY <1>1, <1>2 DEF patchVault

LEMMA NewWithdrawal ==
  ASSUME TypeInv, NEW s \in Slots, Withdrawn(s)
  PROVE  \E e : edits' = edits \cup {e} /\ Withdrawal(e)
<1> USE TypeFacts
<1> DEFINE seen == slot[s].seen
           amount == slot[s].amount
           to == [seen EXCEPT !.total = @ - amount, !.liquid = @ - amount]
           e == Edit("withdrawal", seen, to)
<1>1. edits' = edits \cup {e} /\ slot[s].pc = "pause"
  BY DEF Withdrawn
<1>2. amount \in Nat /\ amount <= seen.liquid
  BY <1>1 DEF Tied, Chain
<1>3. e.from = seen /\ e.to = to
  BY DEF Edit
<1>4. Withdrawal(e)
  BY <1>2, <1>3 DEF Withdrawal
<1> QED
  BY <1>1, <1>4

LEMMA BooksStep ==
  ASSUME BooksInv, [Next]_vars
  PROVE  BooksInv'
<1>1. TypeInv'
  BY StepShape DEF BooksInv
<1>2. CASE \E s \in Slots : Served(s)
  <2>1. PICK s \in Slots : Served(s)
    BY <1>2
  <2>2. edits' = edits /\ blurred' = blurred
    BY <2>1 DEF Served
  <2>3. Balanced(row) => Balanced(row')
    BY <2>1, ServedBalances DEF BooksInv
  <2> QED BY <1>1, <2>2, <2>3 DEF BooksInv, Withdrawal
<1>3. CASE \E e \in edits : patchVault(e)
  <2>1. PICK e \in edits : patchVault(e)
    BY <1>3
  <2>2. edits' \subseteq edits
    BY <2>1 DEF patchVault
  <2>3. ~blurred' => Balanced(row')
    BY <2>1, PatchKeepsBalance
  <2> QED BY <1>1, <2>2, <2>3 DEF BooksInv, Withdrawal
<1>4. CASE \E s \in Slots : Withdrawn(s)
  <2>1. PICK s \in Slots : Withdrawn(s)
    BY <1>4
  <2>2. row' = row /\ blurred' = blurred
    BY <2>1 DEF Withdrawn, server
  <2>3. \E e : edits' = edits \cup {e} /\ Withdrawal(e)
    BY <2>1, NewWithdrawal DEF BooksInv
  <2> QED BY <1>1, <2>2, <2>3 DEF BooksInv, Withdrawal
<1>5. CASE \E t \in Inputs : handleSave(t)
  <2>1. PICK t \in Inputs : handleSave(t)
    BY <1>5
  <2>2. row' = row /\ blurred' = blurred
    BY <2>1 DEF handleSave, server
  <2>3. \E e : edits' = edits \cup {e} /\ e.kind = "settings"
    <3> DEFINE to == [vault EXCEPT !.alloc = Allocation(t, vault.alloc.payments), !.cap = t.cap]
               e == Edit("settings", vault, to)
    <3>1. edits' = edits \cup {e}
      BY <2>1 DEF handleSave
    <3> HIDE DEF to
    <3>2. e.kind = "settings"
      BY DEF Edit
    <3> HIDE DEF e
    <3> QED BY <3>1, <3>2
  <2>4. "settings" # "withdrawal"
    OBVIOUS
  <2> QED BY <1>1, <2>2, <2>3, <2>4 DEF BooksInv, Withdrawal
<1>6. ASSUME UNCHANGED <<row, blurred, edits>>
      PROVE  BooksInv'
  BY <1>1, <1>6 DEF BooksInv, Withdrawal
<1>7. CASE UNCHANGED vars \/ TimePasses \/ refreshVault \/ closeModal
           \/ (\E i \in Items \cup {Stake} : openModal(i))
           \/ (\E page \in {"vault", "payments", "staking", "private", "settings"} : Open(page))
  <2>1. UNCHANGED <<row, blurred, edits>>
    BY <1>7 DEF vars, TimePasses, refreshVault, closeModal, openModal, Open, server
  <2> QED BY <2>1, <1>6
<1>8. CASE \E s \in Slots :
        \/ Refresh(s) \/ handlePayNow(s) \/ Signed(s) \/ Rejected(s)
        \/ \E a \in Stakes : handleStake(s, a)
        \/ \E a \in Deposits : handleDeposit(s, a)
        \/ \E a \in Withdrawals : handleWithdraw(s, a)
        \/ \E n \in Sends : handleSend(s, n)
  <2>1. UNCHANGED <<row, blurred, edits>>
    BY <1>8 DEF Refresh, handlePayNow, Signed, Rejected, handleStake, handleDeposit, handleWithdraw,
                handleSend, Starts, server
  <2> QED BY <2>1, <1>6
<1>9. CASE \E s \in Slots :
        \/ Prepared(s) \/ Confirmed(s) \/ Told(s) \/ Breaks(s) \/ PrivateServed(s) \/ PrivateLanded(s)
        \/ ListStep(s)
  <2>1. UNCHANGED <<row, blurred, edits>>
    BY <1>9 DEF Prepared, Confirmed, Told, Breaks, PrivateServed, PrivateLanded, ListStep, ListServed,
                ListLanded, server
  <2> QED BY <2>1, <1>6
<1> QED
  BY <1>2, <1>3, <1>4, <1>5, <1>7, <1>8, <1>9 DEF Next, User, ChainStep

(* Whatever targets the user sets and whatever happens at the same time,   *)
(* the buckets hold the total and at most a cent more, and none is         *)
(* overdrawn, until a patch lands on other balances than it was made from. *)
THEOREM BucketsAddUp == Spec => []BucketsHoldTotal
<1>1. Init => BooksInv
  BY StartsTyped, OpeningAssumption DEF Init, BooksInv
<1>2. BooksInv => BucketsHoldTotal
  BY DEF BooksInv, BucketsHoldTotal
<1> QED
  BY <1>1, <1>2, BooksStep, PTL DEF Spec
=============================================================================
