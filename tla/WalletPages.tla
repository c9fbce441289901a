---------------------------- MODULE WalletPages ----------------------------
(***************************************************************************)
(* The pages on which a user moves money, and what they ask of the server: *)
(* the payment queue, the vault page (deposit and withdraw), staking,      *)
(* private transfers and the settings.                                     *)
(*                                                                         *)
(* A page starts one async chain at a time: a slot holds a chain, and each *)
(* await ends a step.  Leaving a page forgets its state and ends nothing:  *)
(* the chain goes on, and what it sets is dropped.  A mount is one stay on *)
(* a page.  Each handler of the server is one step here (PaymentEngine has *)
(* them statement by statement), and so is a reload of the context's vault *)
(* (Client has the loads).  Money is in cents, confidence in percent.      *)
(*                                                                         *)
(* An operator whose name begins with Bug_ is the operator after it with a *)
(* plausible mistake; nothing in the specification uses them.              *)
(***************************************************************************)
EXTENDS Integers, FiniteSets

CONSTANTS
  Items, Info,          \* what the queue may list, and its data
  NoItem, Stake, Deposit,
  Opening,              \* the vault row at the start
  Inputs,               \* what the user types into the settings
  Deposits, Withdrawals, Stakes,
  Days,                 \* the days on which something happens
  Slots,                \* bounds how many chains are under way
  MaxActs, MaxMounts    \* bound what the user does

Sources == {"pattern", "event", "x402", "manual"}

ASSUME PagesAssumption ==
  /\ Info \in [Items -> [source : Sources, due : Int, confidence : 0..100,
                         amount : Nat \ {0}, recurring : BOOLEAN, confirmed : BOOLEAN]]
  /\ NoItem \notin Items /\ Stake \notin Items /\ Deposit \notin Items
  /\ NoItem # Stake /\ NoItem # Deposit /\ Stake # Deposit
  /\ Deposits \subseteq Nat \ {0} /\ Withdrawals \subseteq Nat \ {0}
  /\ Stakes \subseteq Nat \ {0}
  /\ Slots \subseteq Nat /\ IsFiniteSet(Slots)
  /\ 0 \in Days /\ Days \subseteq Nat /\ MaxActs \in Nat /\ MaxMounts \in Nat

VARIABLES
  today,       \* the clock
  row,         \* server: the vault columns of the wallet's profile
  status,      \* server: the status of each payment
  vault,       \* the context's copy of the vault
  refreshing,  \* the context is loading it anew
  edits,       \* vault patches under way to the server
  view,        \* the page on screen
  slot,        \* the chains under way
  sent,        \* how many transfers the wallet signed for each purpose
  effects,     \* how often the server has acted on each purpose
  accepted,    \* private transfers the server took, by mount and number
  blurred,     \* history: a patch replaced other balances than it was made from
  acts         \* what the user has done so far

server == <<row, status, effects, accepted>>
vars == <<today, server, vault, refreshing, edits, view, slot, sent, blurred, acts>>

Purposes == Items \cup {Stake, Deposit}
Money == {"total", "yield", "reserve", "liquid", "payments"}

(* A vault row: the total and its buckets, the cap of the autopilot and    *)
(* the shares by which a deposit is divided.  Whatever the settings page   *)
(* accepts, reserve, yield and payments are never more than the whole.     *)
Shares == {a \in [reserve : 0..100, yield : 0..100, liquid : 0..100, payments : 0..5] :
             a.reserve + a.yield + a.payments <= 100}
Row == [total : Int, yield : Int, reserve : Int, liquid : Int, payments : Int,
        cap : Nat, alloc : Shares]

(* The buckets hold the total and at most a cent more, and none is         *)
(* overdrawn.                                                              *)
Balanced(r) ==
  /\ r.yield >= 0 /\ r.reserve >= 0 /\ r.liquid >= 0 /\ r.payments >= 0
  /\ r.yield + r.reserve + r.liquid + r.payments - r.total \in {0, 1}

(* ensureWalletProfile divides the balance on the chain as a top-up does.  *)
ASSUME OpeningAssumption == Opening \in Row /\ Balanced(Opening)
ASSUME InputsAssumption == Inputs \subseteq [reserve : Int, yield : Int, cap : Int]
Sends == 1..MaxActs

-----------------------------------------------------------------------------
(* The queue route.                                                        *)

daysUntil(i, day) == IF Info[i].source = "event" THEN Info[i].due ELSE Info[i].due - day

Confidence(i) ==
  CASE Info[i].source = "x402"   -> 95
    [] Info[i].source = "manual" -> IF Info[i].recurring THEN 80 ELSE 70
    [] OTHER                     -> Info[i].confidence

reserveHealthy(r) == r.total > 0 /\ r.reserve * 100 >= 8 * r.total

policyAllows(i, r) ==
  Info[i].source = "pattern" => Info[i].amount <= r.cap \/ Info[i].confirmed

classifyStatus(days, confidence, healthy, allowed) ==
  CASE ~allowed \/ (~healthy /\ days > 3) -> "blocked_by_policy"
    [] allowed /\ (healthy \/ days <= 3) ->
         CASE confidence < 50                    -> "detected"
           [] confidence \in 50..64              -> "predicted"
           [] confidence >= 65 /\ days <= 7      -> "ready_to_pay"
           [] confidence >= 65 /\ days \in 8..14 -> "ready_soon"
           [] confidence >= 65 /\ days > 14      -> "scheduled"

Bug_overdue_dropped(i, day) ==
  CASE Info[i].source = "pattern" -> Info[i].confidence >= 55 /\ daysUntil(i, day) \in 0..21
    [] Info[i].source = "event"   -> TRUE
    [] OTHER                      -> status[i] \notin {"completed", "failed"}
Listed(i, day) ==
  CASE Info[i].source = "pattern" -> Info[i].confidence >= 55 /\ daysUntil(i, day) <= 21
    [] Info[i].source = "event"   -> TRUE
    [] OTHER                      -> status[i] \notin {"completed", "failed"}

QueueStatus(i) ==
  classifyStatus(daysUntil(i, today), Confidence(i), reserveHealthy(row), policyAllows(i, row))
queue == {i \in Items : Listed(i, today)}

(* The rows with a button that opens the payment dialog.                   *)
Payable == {i \in queue : QueueStatus(i) \in {"ready_to_pay", "ready_soon"}}

(* computeProtocolFee, in basis points; a score is in percent and what it  *)
(* adds is rounded.                                                        *)
Bug_overdue_unnoticed(hours) ==
  CASE hours \in 1..5 -> 45 [] hours \in 6..23 -> 30 [] hours \in 24..47 -> 15
    [] OTHER -> 0
urgencySurcharge(hours) ==
  CASE hours <= 0 -> 60 [] hours \in 1..5 -> 45 [] hours \in 6..23 -> 30
    [] hours \in 24..47 -> 15 [] hours > 47 -> 0
Scored(score, points) == (score * points + 50) \div 100
sizeDiscount(amount) ==
  CASE amount >= 1000000 -> 15 [] amount < 1000000 /\ amount >= 100000 -> 8
    [] amount < 100000 -> 0
Clamped(low, n, high) == IF n < low THEN low ELSE IF n > high THEN high ELSE n
computeProtocolFee(amount, hours, recurring, congestion, volatility) ==
  Clamped(25, 40 + urgencySurcharge(hours) + Scored(congestion, 50) + Scored(volatility, 40)
              - (IF recurring THEN 10 ELSE 0) - sizeDiscount(amount), 200)

QueueFee(i) ==
  computeProtocolFee(Info[i].amount, daysUntil(i, today) * 24,
                     Info[i].source \in {"pattern", "event"} \/ Info[i].recurring, 15, 10)

-----------------------------------------------------------------------------
(* What the server makes of the row.                                       *)

Rounded(n, pct) == (n * pct + 50) \div 100
Max0(n) == IF n > 0 THEN n ELSE 0

(* The demo-topup route: the total is divided anew, liquid gets the rest.  *)
Bug_liquid_by_share(r, amount) ==
  LET total == r.total + amount
  IN [r EXCEPT !.total = total, !.yield = Rounded(total, r.alloc.yield),
       !.reserve = Rounded(total, r.alloc.reserve), !.payments = Rounded(total, r.alloc.payments),
       !.liquid = Rounded(total, r.alloc.liquid)]
ToppedUp(r, amount) ==
  LET total == r.total + amount
      y == Rounded(total, r.alloc.yield)
      s == Rounded(total, r.alloc.reserve)
      p == Rounded(total, r.alloc.payments)
  IN [r EXCEPT !.total = total, !.yield = y, !.reserve = s, !.payments = p,
               !.liquid = Max0(total - y - s - p)]

Staked(r, amount) == [r EXCEPT !.yield = @ - amount, !.total = @ - amount]
PaidFrom(r, amount) ==
  IF r.reserve >= amount THEN [r EXCEPT !.total = @ - amount, !.reserve = @ - amount]
  ELSE [r EXCEPT !.total = @ - amount, !.reserve = 0, !.liquid = @ - (amount - r.reserve)]

(* A vault patch sets the columns it names to values computed from the     *)
(* vault of a render: a withdrawal the total and liquid, the settings the  *)
(* shares and the cap.                                                     *)
Edit(kind, from, to) == [kind |-> kind, from |-> from, to |-> to]
Patched(r, e) ==
  IF e.kind = "withdrawal" THEN [r EXCEPT !.total = e.to.total, !.liquid = e.to.liquid]
  ELSE [r EXCEPT !.alloc = e.to.alloc, !.cap = e.to.cap]

(* The settings page, from the typed reserve and yield targets.            *)
Bug_unbounded_sum(t) ==
  t.cap > 0 /\ t.cap <= 1000000 /\ t.reserve \in 5..50 /\ t.yield \in 0..85
Valid(t) ==
  /\ t.cap > 0 /\ t.cap <= 1000000 /\ t.reserve \in 5..50 /\ t.yield \in 0..85
  /\ t.reserve + t.yield <= 95
Allocation(t, payments) ==
  LET rest == 100 - t.reserve - t.yield - payments
  IN [reserve |-> t.reserve, yield |-> t.yield, payments |-> payments,
      liquid |-> IF rest > 5 THEN rest ELSE 5]

-----------------------------------------------------------------------------
(* The pages.                                                              *)

NoView == [page |-> "none", mount |-> 0, busy |-> FALSE, chosen |-> NoItem,
           result |-> "none", loading |-> FALSE, shown |-> {},
           transfers |-> [n \in Sends |-> "none"]]
Idle == [pc |-> "idle", mount |-> 0, purpose |-> NoItem, amount |-> 0, send |-> 0,
         seen |-> Opening, answer |-> {}]

Acts == acts < MaxActs /\ acts' = acts + 1
(* A new chain takes the first free slot: which one is no matter.          *)
Free(s) == slot[s] = Idle /\ \A q \in Slots : q < s => slot[q] # Idle
Here(s) == slot[s].mount = view.mount
Goes(s, pc) == slot' = [slot EXCEPT ![s].pc = pc]
Fetching == [Idle EXCEPT !.pc = "asked", !.mount = view'.mount]
Lists(page) == page \in {"payments", "staking"}

(* The links; the one to the page on screen leads nowhere new.             *)
Sidebar(page) == page # view.page

(* The pages with a list ask for it at once.                               *)
Open(page) ==
  /\ Sidebar(page) /\ view.mount < MaxMounts
  /\ view' = [NoView EXCEPT !.page = page, !.mount = view.mount + 1, !.loading = Lists(page)]
  /\ IF Lists(page) THEN \E s \in Slots : Free(s) /\ slot' = [slot EXCEPT ![s] = Fetching]
     ELSE UNCHANGED slot
  /\ UNCHANGED <<today, server, vault, refreshing, edits, sent, blurred, acts>>

(* The Refresh button, disabled while a list is loading.                   *)
Refresh(s) ==
  /\ Lists(view.page) /\ ~view.loading /\ Free(s)
  /\ view' = [view EXCEPT !.loading = TRUE]
  /\ slot' = [slot EXCEPT ![s] = Fetching]
  /\ UNCHANGED <<today, server, vault, refreshing, edits, sent, blurred, acts>>

(* What the list offers: payable items, or the stake that is recommended   *)
(* for an idle yield of ten dollars and more.                              *)
Offered(page) ==
  CASE page = "payments" -> Payable
    [] page = "staking"  -> IF row.yield >= 1000 THEN {Stake} ELSE {}
    [] OTHER             -> {}

ListServed(s) ==
  /\ slot[s].pc = "asked"
  /\ slot' = [slot EXCEPT ![s].pc = "answered",
                          ![s].answer = IF Here(s) THEN Offered(view.page) ELSE {}]
  /\ UNCHANGED <<today, server, vault, refreshing, edits, view, sent, blurred, acts>>

(* The answer arrives, or an error does and the list stays as it is.       *)
ListLanded(s) ==
  /\ slot[s].pc \in {"asked", "answered"}
  /\ slot' = [slot EXCEPT ![s] = Idle]
  /\ IF ~Here(s) THEN UNCHANGED view
     ELSE \/ slot[s].pc = "answered"
             /\ view' = [view EXCEPT !.loading = FALSE, !.shown = slot[s].answer]
          \/ view' = [view EXCEPT !.loading = FALSE]
  /\ UNCHANGED <<today, server, vault, refreshing, edits, sent, blurred, acts>>

openModal(i) ==
  /\ view.chosen = NoItem /\ i \in view.shown
  /\ view' = [view EXCEPT !.chosen = i, !.result = "none"]
  /\ UNCHANGED <<today, server, vault, refreshing, edits, slot, sent, blurred, acts>>

(* The dialog can be closed at any time, also over a payment under way.    *)
Bug_idle_when_closed(v) == [v EXCEPT !.chosen = NoItem, !.result = "none", !.busy = FALSE]
Closed(v) == [v EXCEPT !.chosen = NoItem, !.result = "none"]
closeModal ==
  /\ view.chosen # NoItem
  /\ view' = Closed(view)
  /\ UNCHANGED <<today, server, vault, refreshing, edits, slot, sent, blurred, acts>>

-----------------------------------------------------------------------------
(* The chains that move money.                                             *)

(* What the dialog over a list shows: an offer with a button to sign, the  *)
(* offer of a page that is busy, or the outcome of the last chain to end.  *)
Dialog ==
  CASE view.chosen = NoItem -> "closed"
    [] view.chosen # NoItem /\ view.result # "none" -> "outcome"
    [] view.chosen # NoItem /\ view.result = "none" -> IF view.busy THEN "signing" ELSE "offer"

(* The buttons, each disabled while its page is busy.                      *)
PayNow == view.chosen \in Items /\ Dialog = "offer"
StakeNow(amount) == view.chosen = Stake /\ Dialog = "offer" /\ amount > 0
MoveFunds == view.page = "vault" /\ ~view.busy
SendPrivately == view.page = "private" /\ ~view.busy

Starts(s, pc, purpose, amount, send) ==
  /\ Free(s) /\ Acts
  /\ view' = [view EXCEPT !.busy = TRUE, !.result = "none",
                          !.transfers = IF send = 0 THEN @ ELSE [@ EXCEPT ![send] = "shielding"]]
  /\ slot' = [slot EXCEPT ![s] = [Idle EXCEPT !.pc = pc, !.mount = view.mount, !.purpose = purpose,
                                   !.amount = amount, !.send = send,
                                   !.seen = IF pc = "pause" THEN vault ELSE Opening]]
  /\ UNCHANGED <<today, server, vault, refreshing, edits, sent, blurred>>

handlePayNow(s) ==
  /\ PayNow
  /\ Starts(s, "prepare", view.chosen, Info[view.chosen].amount, 0)
handleStake(s, amount) ==
  /\ StakeNow(amount)
  /\ Starts(s, "prepare", Stake, amount, 0)
handleDeposit(s, amount) ==
  /\ MoveFunds
  /\ Starts(s, "prepare", Deposit, amount, 0)
handleWithdraw(s, amount) ==
  /\ MoveFunds /\ amount <= vault.liquid
  /\ Starts(s, "pause", NoItem, amount, 0)
handleSend(s, n) ==
  /\ SendPrivately /\ \E amount \in Withdrawals : amount <= vault.liquid
  /\ view.transfers[n] = "none" /\ \A k \in 1..n - 1 : view.transfers[k] # "none"
  /\ Starts(s, "sending", NoItem, 0, n)

(* The chain ends: the page stops being busy and shows the result; after a *)
(* success a list is fetched again.                                        *)
Bug_busy_after_failure(v, result) == [v EXCEPT !.busy = (result = "failed"), !.result = result]
Over(v, result) == [v EXCEPT !.busy = FALSE, !.result = result]
Relists(s, result) == Here(s) /\ Lists(view.page) /\ result = "ok"
Finish(s, result) ==
  /\ view' = IF Here(s) THEN [Over(view, result) EXCEPT !.loading = @ \/ Relists(s, result)]
             ELSE view
  /\ slot' = [slot EXCEPT ![s] = IF Relists(s, result) THEN Fetching ELSE Idle]

(* Price, balance and blockhash; then the wallet shows its prompt.         *)
Prepared(s) ==
  /\ slot[s].pc = "prepare" /\ Goes(s, "prompt")
  /\ UNCHANGED <<today, server, vault, refreshing, edits, view, sent, blurred, acts>>

Signed(s) ==
  /\ slot[s].pc = "prompt" /\ Goes(s, "confirm")
  /\ sent' = [sent EXCEPT ![slot[s].purpose] = @ + 1]
  /\ UNCHANGED <<today, server, vault, refreshing, edits, view, blurred, acts>>

(* The user rejects the transfer: nothing is recorded.                     *)
Bug_recorded_anyway(s) == Goes(s, "record") /\ UNCHANGED view
Refused(s) == Finish(s, "failed")
Rejected(s) ==
  /\ slot[s].pc = "prompt" /\ Refused(s)
  /\ UNCHANGED <<today, server, vault, refreshing, edits, sent, blurred, acts>>

(* Deposits, stakes and payments entered by hand are told to the server;   *)
(* what the treasury analysis detected is not, and is over.                *)
Recorded(purpose) == purpose \in Items => Info[purpose].source = "manual"
Confirmed(s) ==
  /\ slot[s].pc = "confirm"
  /\ IF Recorded(slot[s].purpose) THEN Goes(s, "record") /\ UNCHANGED <<view, refreshing>>
     ELSE Finish(s, "ok") /\ refreshing' = TRUE
  /\ UNCHANGED <<today, server, vault, edits, sent, blurred, acts>>

(* The routes.  The engine may also queue a payment, or fail a short one;  *)
(* the stake route refuses what the yield does not cover.                  *)
Acted(s, r) ==
  row' = r /\ effects' = [effects EXCEPT ![slot[s].purpose] = @ + 1]
executePayment(s, i) ==
  \/ /\ Info[i].amount <= row.reserve + row.liquid
     /\ Acted(s, PaidFrom(row, Info[i].amount))
     /\ status' = [status EXCEPT ![i] = "completed"]
  \/ /\ status' = [status EXCEPT ![i] = IF Info[i].amount > row.reserve + row.liquid
                                        THEN "failed" ELSE "queued"]
     /\ UNCHANGED <<row, effects>>
  \/ UNCHANGED <<row, status, effects>>
Stakeable(amount) == amount <= row.yield
stakeRoute(s) ==
  /\ IF Stakeable(slot[s].amount) THEN Acted(s, Staked(row, slot[s].amount))
     ELSE UNCHANGED <<row, effects>>
  /\ UNCHANGED status
topupRoute(s) == Acted(s, ToppedUp(row, slot[s].amount)) /\ UNCHANGED status

Served(s) ==
  /\ slot[s].pc = "record" /\ Goes(s, "told")
  /\ LET p == slot[s].purpose IN
       \/ p \in Items /\ executePayment(s, p)
       \/ p = Stake /\ stakeRoute(s)
       \/ p = Deposit /\ topupRoute(s)
  /\ UNCHANGED <<today, accepted, vault, refreshing, edits, view, sent, blurred, acts>>

(* Whatever the answer says, the page reports a success.                   *)
Told(s) ==
  /\ slot[s].pc = "told" /\ Finish(s, "ok") /\ refreshing' = TRUE
  /\ UNCHANGED <<today, server, vault, edits, sent, blurred, acts>>

(* A call throws, or the balance is short: a failure, whatever was sent.   *)
Breaks(s) ==
  /\ slot[s].pc \in {"prepare", "confirm", "record", "told"}
  /\ Finish(s, "failed")
  /\ UNCHANGED <<today, server, vault, refreshing, edits, sent, blurred, acts>>

(* 700 ms after the click the page sets balances computed from the vault   *)
(* of the click, in its copy and, by a patch nobody waits for, at the      *)
(* server.                                                                 *)
Withdrawn(s) ==
  LET to == [slot[s].seen EXCEPT !.total = @ - slot[s].amount, !.liquid = @ - slot[s].amount]
      e == Edit("withdrawal", slot[s].seen, to)
  IN /\ slot[s].pc = "pause" /\ Finish(s, "ok")
     /\ vault' = Patched(vault, e) /\ edits' = edits \cup {e}
     /\ UNCHANGED <<today, server, refreshing, sent, blurred, acts>>

handleSave(t) ==
  LET to == [vault EXCEPT !.alloc = Allocation(t, vault.alloc.payments), !.cap = t.cap]
      e == Edit("settings", vault, to)
  IN /\ view.page = "settings" /\ Valid(t) /\ Acts
     /\ vault' = to /\ edits' = edits \cup {e}
     /\ UNCHANGED <<today, server, refreshing, view, slot, sent, blurred>>

Stale(e) == e.kind = "withdrawal" /\ \E c \in Money : e.from[c] # row[c]
patchVault(e) ==
  /\ edits' = edits \ {e}
  /\ \/ row' = Patched(row, e) /\ blurred' = (blurred \/ Stale(e))
     \/ UNCHANGED <<row, blurred>>
  /\ UNCHANGED <<today, status, effects, accepted, vault, refreshing, view, slot, sent, acts>>

refreshVault ==
  /\ refreshing /\ refreshing' = FALSE /\ vault' = row
  /\ UNCHANGED <<today, server, edits, view, slot, sent, blurred, acts>>

(* The private transfer route takes the transfer or refuses its address.   *)
PrivateServed(s) ==
  /\ slot[s].pc = "sending"
  /\ \/ Goes(s, "taken") /\ accepted' = accepted \cup {<<slot[s].mount, slot[s].send>>}
     \/ Goes(s, "refused") /\ UNCHANGED accepted
  /\ UNCHANGED <<today, row, status, effects, vault, refreshing, edits, view, sent, blurred, acts>>

Bug_forgotten(transfers, n, outcome) == transfers
Settled(transfers, n, outcome) == [transfers EXCEPT ![n] = outcome]
Lands(s, outcome) ==
  LET result == IF outcome = "complete" THEN "ok" ELSE "failed" IN
  /\ view' = IF Here(s)
             THEN [Over(view, result) EXCEPT !.transfers = Settled(@, slot[s].send, outcome)]
             ELSE view
  /\ slot' = [slot EXCEPT ![s] = Idle]
PrivateLanded(s) ==
  /\ \/ slot[s].pc = "taken" /\ Lands(s, "complete")
     \/ slot[s].pc \in {"sending", "taken", "refused"} /\ Lands(s, "failed")
  /\ UNCHANGED <<today, server, vault, refreshing, edits, sent, blurred, acts>>

-----------------------------------------------------------------------------

TimePasses ==
  /\ today' \in {d \in Days : d > today}
  /\ UNCHANGED <<server, vault, refreshing, edits, view, slot, sent, blurred, acts>>

Init ==
  /\ today = 0 /\ row = Opening /\ vault = Opening /\ refreshing = FALSE
  /\ status = [i \in Items |-> "scheduled"]
  /\ edits = {} /\ view = NoView /\ slot = [s \in Slots |-> Idle]
  /\ sent = [p \in Purposes |-> 0] /\ effects = [p \in Purposes |-> 0]
  /\ accepted = {} /\ blurred = FALSE /\ acts = 0

User ==
  \/ \E page \in {"vault", "payments", "staking", "private", "settings"} : Open(page)
  \/ \E i \in Items \cup {Stake} : openModal(i)
  \/ closeModal
  \/ \E t \in Inputs : handleSave(t)
  \/ \E s \in Slots :
       \/ Refresh(s) \/ handlePayNow(s) \/ Signed(s) \/ Rejected(s)
       \/ \E a \in Stakes : handleStake(s, a)
       \/ \E a \in Deposits : handleDeposit(s, a)
       \/ \E a \in Withdrawals : handleWithdraw(s, a)
       \/ \E n \in Sends : handleSend(s, n)

ChainStep(s) ==
  \/ Prepared(s) \/ Confirmed(s) \/ Served(s) \/ Told(s) \/ Breaks(s) \/ Withdrawn(s)
  \/ PrivateServed(s) \/ PrivateLanded(s)
ListStep(s) == ListServed(s) \/ ListLanded(s)

Next ==
  \/ User \/ TimePasses \/ refreshVault
  \/ \E s \in Slots : ChainStep(s) \/ ListStep(s)
  \/ \E e \in edits : patchVault(e)

(* Requests are answered or rejected, a confirmation comes or its block    *)
(* height passes, timers fire.  The user is bound to nothing.              *)
Fairness == \A s \in Slots : WF_vars(ChainStep(s)) /\ WF_vars(ListStep(s))

Spec == Init /\ [][Next]_vars /\ Fairness

-----------------------------------------------------------------------------

Pcs == {"idle", "asked", "answered", "prepare", "prompt", "confirm", "record", "told",
        "pause", "sending", "taken", "refused"}

View == [page : {"none", "vault", "payments", "staking", "private", "settings"},
         mount : 0..MaxMounts, busy : BOOLEAN, chosen : Items \cup {Stake, NoItem},
         result : {"none", "ok", "failed"}, loading : BOOLEAN, shown : SUBSET (Items \cup {Stake}),
         transfers : [Sends -> {"none", "shielding", "complete", "failed"}]]
Chain == [pc : Pcs, mount : 0..MaxMounts, purpose : Purposes \cup {NoItem}, amount : Nat,
          send : 0..MaxActs, seen : Row, answer : SUBSET (Items \cup {Stake})]

(* Every variable stays within its type; in particular the shares that a   *)
(* top-up rounds by themselves never add up to more than the whole.        *)
PagesTypeOK ==
  /\ today \in Days /\ row \in Row /\ vault \in Row
  /\ status \in [Items -> {"scheduled", "queued", "failed", "completed"}]
  /\ refreshing \in BOOLEAN /\ blurred \in BOOLEAN /\ acts \in 0..MaxActs
  /\ edits \subseteq [kind : {"withdrawal", "settings"}, from : Row, to : Row]
  /\ view \in View /\ slot \in [Slots -> Chain]
  /\ sent \in [Purposes -> Nat] /\ effects \in [Purposes -> Nat]
  /\ accepted \subseteq (0..MaxMounts) \X Sends

Moving(s) == slot[s].pc \notin {"idle", "asked", "answered"}

(* While a page is busy exactly one of its chains is under way, and none   *)
(* while it is not: closing the dialog over a payment and opening another  *)
(* one does not let the user pay twice at once, and no early return leaves *)
(* the button disabled.                                                    *)
BusyIsOneChain ==
  Cardinality({s \in Slots : Here(s) /\ Moving(s)}) = IF view.busy THEN 1 ELSE 0

(* The server never acts on a deposit, a stake or a payment more often     *)
(* than the owner signed a transfer for it: a chain that was rejected, that*)
(* threw or whose page was left never reaches the server unpaid.           *)
BackedByTransfers ==
  \A p \in Purposes :
    effects[p] + Cardinality({s \in Slots : slot[s].pc = "record" /\ slot[s].purpose = p}) <= sent[p]

(* A private transfer is shown as shielding as long as its request is      *)
(* under way and no longer, and as complete only if the server took it.    *)
ShieldingIsUnderWay ==
  \A n \in Sends :
    /\ view.transfers[n] = "shielding" <=>
         \E s \in Slots : Here(s) /\ Moving(s) /\ slot[s].send = n
    /\ view.transfers[n] = "complete" => <<view.mount, n>> \in accepted

(* Whatever targets the user sets, whatever is deposited, withdrawn,       *)
(* staked and paid at the same time, and although each bucket is rounded by*)
(* itself and liquid clipped at zero, no bucket is overdrawn and together  *)
(* they hold the total and at most a cent more, as long as no patch lands  *)
(* on other balances than it was made from.                                *)
BucketsHoldTotal == ~blurred => Balanced(row)

Place(i) ==
  IF i \notin queue THEN 6
  ELSE CASE QueueStatus(i) = "ready_to_pay" -> 0 [] QueueStatus(i) = "ready_soon" -> 1
         [] QueueStatus(i) = "scheduled" -> 2 [] QueueStatus(i) = "predicted" -> 3
         [] QueueStatus(i) = "detected" -> 4 [] QueueStatus(i) = "blocked_by_policy" -> 5

(* As a due date comes near, or passes, and nothing else changes, an item  *)
(* never loses its place in the queue (it is not dropped, nor blocked, nor *)
(* put behind where it was), and it never becomes cheaper to pay.          *)
TimeOnlyPresses ==
  [][today' # today =>
       \A i \in Items : Place(i)' <= Place(i) /\ QueueFee(i)' >= QueueFee(i)]_vars

Prompting == \E s \in Slots : Here(s) /\ slot[s].pc = "prompt"
(* A page does not stay busy, unless the wallet's prompt is left open.     *)
BusyEnds == []<>(~view.busy \/ Prompting)
=============================================================================
