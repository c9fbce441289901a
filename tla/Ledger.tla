------------------------------- MODULE Ledger -------------------------------
(***************************************************************************)
(* What treasury intelligence computes: a row from the transfers of a      *)
(* transaction, patterns from the rows of a counterparty, the figures of   *)
(* an analysis, and what the two pages draw from them.  No state.          *)
(*                                                                         *)
(* Signatures are numbers in the order of the chain.  Now is fixed: an     *)
(* analysis takes seconds and histories span months.  Money and rates are  *)
(* rounded down to the unit, as they are only shown and compared.          *)
(***************************************************************************)
EXTENDS Integers, FiniteSets, FiniteSetsExt

CONSTANTS
  Wallets, Addresses,     \* wallets analysed, among the addresses of transfers
  NoWallet,
  MaxSig, Raw, Time,      \* the chain: transfers and block time of each transaction
  Prices, SolPrice,       \* mints with a known price; the price of a SOL
  Stablecoins,            \* mints of stablecoins
  MinSol, MinUsd,         \* MIN_SOL_AMOUNT and MIN_USD_AMOUNT
  Now, Day,               \* the time of the analyses; a day
  Ranges, Days,           \* time ranges; the days of each, 0 for all history
  Buckets,                \* the bars of a range's chart and the days of a bar
  MaxBars,                \* about how many bars all history gets (20 in the code)
  Tags                    \* what a user may tag an address or a transaction with

Sigs == 1..MaxSig

(* The transfers of a transaction: a list of amounts, none negative.       *)
Amounts(list) ==
  /\ IsFiniteSet(DOMAIN list) /\ DOMAIN list \subseteq Nat
  /\ \A i \in DOMAIN list : list[i].amount \in Nat

ASSUME LedgerAssumption ==
  /\ IsFiniteSet(Addresses) /\ SolPrice \in Nat /\ \A m \in DOMAIN Prices : Prices[m] \in Nat
  /\ \A s \in Sigs : Amounts(Raw[s].native) /\ Amounts(Raw[s].token)
  /\ Wallets \subseteq Addresses /\ NoWallet \notin Wallets
  /\ MaxSig \in Nat \ {0} /\ Time \in [Sigs -> 1..Now] /\ {Now, Day, MaxBars} \subseteq Nat \ {0}
  /\ \A s, t \in Sigs : s < t => Time[s] <= Time[t]
  /\ Days \in [Ranges -> Nat] /\ \A range \in Ranges : Days[range] * Day < Now
  /\ \A range \in Ranges : Days[range] > 0 =>
       /\ {Buckets[range].bars, Buckets[range].days} \subseteq Nat \ {0}
       /\ Buckets[range].bars * Buckets[range].days <= Days[range]
  /\ IsFiniteSet(Tags) /\ Tags \cap {"swap", "transfer", "unknown"} = {}

-----------------------------------------------------------------------------
(* normalizeTx, by the amounts and parties of a transaction's transfers.   *)

Touches(t, w) == t.from = w \/ t.to = w
OtherEnd(t, w) == IF t.from = w THEN t.to ELSE t.from
Usd(t) == IF t.mint \in DOMAIN Prices THEN t.amount * Prices[t.mint] ELSE 0

(* The first of the transfers whose size is largest.                       *)
Largest(size) ==
  CHOOSE i \in DOMAIN size : \A j \in DOMAIN size :
    size[j] < size[i] \/ (size[j] = size[i] /\ i <= j)

(* The verdict by type and source; then by what was transferred.           *)
classifyByType(raw) == IF raw.type = "swap" THEN "swap" ELSE "unknown"

normalizeTx(raw, w) ==
  LET native == {i \in DOMAIN raw.native : Touches(raw.native[i], w) /\ raw.native[i].amount > 0}
      token  == {i \in DOMAIN raw.token :
                   (Touches(raw.token[i], w) \/ raw.token[i].mint = w) /\ raw.token[i].amount > 0}
      priced == {i \in token : Usd(raw.token[i]) > 0}
      sol    == raw.native[Largest([i \in native |-> raw.native[i].amount])]
      best   == raw.token[IF priced # {} THEN Largest([i \in priced |-> Usd(raw.token[i])])
                          ELSE Largest([i \in token |-> raw.token[i].amount])]
      known  == IF token = {} THEN native # {} ELSE best.mint \in DOMAIN Prices
      usd    == IF token # {} THEN Usd(best)
                ELSE IF native # {} THEN sol.amount * SolPrice ELSE 0
      sent   == \/ \E i \in DOMAIN raw.native : raw.native[i].from = w
                \/ \E i \in DOMAIN raw.token : raw.token[i].from = w
      got    == \E i \in DOMAIN raw.native : raw.native[i].to = w
  IN [usd          |-> usd,
      category     |-> IF classifyByType(raw) # "unknown" THEN "swap"
                       ELSE IF native # {} \/ (token # {} /\ best.mint \in Stablecoins)
                            THEN "transfer" ELSE "unknown",
      counterparty |-> CASE token # {} /\ ~Touches(best, w) -> {best.to}
                         [] token # {} /\ Touches(best, w)  -> {OtherEnd(best, w)}
                         [] token = {} /\ native # {}       -> {OtherEnd(sol, w)}
                         [] OTHER                           -> {},
      is_outgoing  |-> sent /\ ~got,
      is_noise     |-> /\ token = {} \/ known
                       /\ \/ raw.type = "fee"
                          \/ token = {} /\ native # {} /\ sol.amount < MinSol
                          \/ known /\ usd < MinUsd]

Normal == [w \in Wallets |-> [s \in Sigs |-> normalizeTx(Raw[s], w)]]

(* Helius lists a transaction under every address it mentions.             *)
Party == [w \in Wallets |-> {s \in Sigs :
  \/ \E i \in DOMAIN Raw[s].native : Touches(Raw[s].native[i], w)
  \/ \E i \in DOMAIN Raw[s].token : Touches(Raw[s].token[i], w)}]

With(S, w, a) == {s \in S : a \in Normal[w][s].counterparty}
Since(range) == IF Days[range] = 0 THEN 0 ELSE Now - Days[range] * Day
InRange(S, range) == {s \in S : Time[s] >= Since(range)}
Newest(S, n) == {s \in S : Cardinality({t \in S : t >= s}) <= n}
Total(w, S) == SumFunctionOnSet([s \in Sigs |-> Normal[w][s].usd], S)

-----------------------------------------------------------------------------
(* Patterns: the rows S of one counterparty.  The confidence is 8 percent  *)
(* for each of up to five rows and up to 60 for the regularity of the      *)
(* intervals, 1 less their standard deviation over their mean.  Without    *)
(* any interval it is not a number, which "confidence < 0.25" does not     *)
(* refuse and "confidence >= 0.4" does not accept.                         *)

Span(S) == Time[Max(S)] - Time[Min(S)]
Regular(S, percent) ==
  LET n == Cardinality(S)
      least == 60 + 8 * (IF n < 5 THEN n ELSE 5) - percent
      Gap(s) == Time[Min({t \in S : t > s})] - Time[s]
      squares == MapThenSumSet(LAMBDA s : Gap(s) * Gap(s), S \ {Max(S)}) IN
  least >= 60 \/ 3600 * ((n - 1) * squares - Span(S) * Span(S)) <= least * least * Span(S) * Span(S)
Recurs(S) == Cardinality(S) > 1 /\ Regular(S, 25)
NeedsTag(S) == Span(S) > 0 /\ Regular(S, 40)

nextPredicted(S) == Time[Max(S)] + Span(S) \div (Cardinality(S) - 1)
avgAmount(w, S) ==
  LET paid == {s \in S : Normal[w][s].usd > 0} IN
  IF paid = {} THEN 0 ELSE Total(w, paid) \div Cardinality(paid)
(* Whole days, rounded half up, until the next occurrence.                 *)
daysUntil(S) == (2 * (nextPredicted(S) - Now) + Day) \div (2 * Day)

-----------------------------------------------------------------------------
(* The figures of an analysis.                                             *)

(* A month's share of what went out since the cut-off, or in the last 30   *)
(* days.                                                                   *)
BurnSince(range) == IF Days[range] = 0 THEN Now - 30 * Day ELSE Since(range)
getMonthlyBurnUsd(w, S, range) ==
  IF Days[range] = 0 THEN Total(w, S) ELSE (Total(w, S) * 30) \div Days[range]

(* "none" for an endless runway.                                           *)
calculateRunway(vaultUsd, burn) == IF burn = 0 THEN "none" ELSE <<(vaultUsd * 30) \div burn>>

(* What is due within 30 days, and at least four fifths of the burn.       *)
DueSoon(S) == nextPredicted(S) >= Now /\ nextPredicted(S) <= Now + 30 * Day
predictedSpend(due, burn) == IF 10 * due > 8 * burn THEN due ELSE (8 * burn) \div 10

reserveHealthScore(vaultUsd, predicted) ==
  IF vaultUsd = 0 THEN 100
  ELSE LET used == (150 * predicted) \div vaultUsd IN IF used > 100 THEN 0 ELSE 100 - used

-----------------------------------------------------------------------------
(* What is drawn of an analysis: found lists its rows, newest first.       *)

CeilDiv(a, b) == (a + b - 1) \div b

(* All history is divided by the age of the last row of the list.          *)
Chart(found, range) ==
  IF Days[range] > 0 THEN Buckets[range]
  ELSE LET age == Now - Time[Min(found)]
           span == IF age < Day THEN Day ELSE age
           days == CeilDiv(span, MaxBars * Day) IN
       [days |-> days, bars |-> CeilDiv(span, days * Day)]

(* The rows in each bar, oldest bar first.                                 *)
buildTimeline(found, range) ==
  IF found = {} THEN <<>>
  ELSE LET chart == Chart(found, range)
           Bar(s) == chart.bars - (Now - Time[s]) \div (chart.days * Day) IN
       [i \in 1..chart.bars |-> {s \in found : Bar(s) = i}]

(* A row of the treasury page takes what has a price for outgoing and can  *)
(* be classified unless it has a category; a row of the scanner does       *)
(* neither.                                                                *)
TxRow(w, s, category) ==
  [out |-> Normal[w][s].usd > 0, usd |-> Normal[w][s].usd, classify |-> category = "unknown"]
TxPreviewRow(w, s) == [out |-> Normal[w][s].is_outgoing, usd |-> Normal[w][s].usd]

(* A pattern as a bill; the treasury page asks to review what the user has *)
(* not confirmed.                                                          *)
BillRow(S) ==
  [days |-> daysUntil(S), text |-> IF daysUntil(S) <= 0 THEN "Overdue" ELSE "Due"]
RecurringRow(S, isConfirmed) == [bill |-> BillRow(S), classify |-> ~isConfirmed]

(* The n categories most is spent on.                                      *)
TopCategories(w, spend, n) ==
  LET value == [c \in {d \in DOMAIN spend : Total(w, spend[d]) > 0} |-> Total(w, spend[c])] IN
  [c \in {d \in DOMAIN value : Cardinality({e \in DOMAIN value : value[e] > value[d]}) < n} |-> value[c]]
=============================================================================
