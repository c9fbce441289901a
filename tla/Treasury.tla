------------------------------ MODULE Treasury ------------------------------
(***************************************************************************)
(* Treasury intelligence: the ingestion of mainnet transactions page by    *)
(* page into one table shared by all wallets, the counterparties, patterns *)
(* and user tags kept beside it, and the two clients that drive it: the    *)
(* useTreasury hook of the treasury page and the landing page's scanner    *)
(* for any wallet.  What is computed from the rows is in Ledger.           *)
(*                                                                         *)
(* A run is one async chain of a client with the request it has at the     *)
(* server: an ingestion, then an analysis; or a tag, then an analysis.     *)
(* Runs overlap at every await.  A crash of the server fails the runs it   *)
(* was serving; each page is a database transaction.                       *)
(*                                                                         *)
(* The ages of a row are 0 (under 5 minutes), 1 (under 10) and 2.  A       *)
(* summed or sampled group of transactions is kept as the set of its       *)
(* signatures: counts, totals and dates are functions of it.  The cut-off  *)
(* of a range moves by seconds while histories span months: it is fixed.   *)
(*                                                                         *)
(* An operator whose name begins with Bug_ is the operator after it with a *)
(* plausible mistake; nothing in the specification uses them.              *)
(***************************************************************************)
EXTENDS Ledger

CONSTANTS
  UserWallet, UserVaultUsd, \* the wallet of the signed-in user, and its vault
  Month,                  \* the range '30d', the only one the server caches
  All,                    \* the range 'all'
  Short, Longer,          \* ranges for which the page suggests a longer one
  ScanRange,              \* the one range of the scanner
  PageSize, Pages, PublicPages, MaxRetries,
  RowLimit, SampleLimit,  \* rows listed, rows sampled for patterns
  Runs,                   \* slots for runs
  MaxActs                 \* bounds what users and the clock do

ASSUME TreasuryAssumption ==
  /\ UserWallet \in Wallets /\ UserVaultUsd \in Nat
  /\ MaxActs \in Nat /\ MaxRetries \in Nat
  /\ PageSize \in Nat \ {0} /\ Pages \in Nat \ {0} /\ PublicPages \in Nat \ {0}
  /\ RowLimit \in Nat /\ SampleLimit \in Nat /\ Runs \subseteq Nat
  /\ {Month, All, Longer, ScanRange} \cup Short \subseteq Ranges
  /\ Days[Month] > 0 /\ Days[All] = 0

VARIABLES
  landed,     \* the newest signature on chain
  table,      \* mainnet_transactions, by signature (UNIQUE)
  book,       \* counterparties: what each row sums up
  patterns,   \* recurring_patterns
  tags,       \* user_tags: the oldest tag of each address
  run,        \* the runs under way
  user,       \* the state of useTreasury
  scan,       \* the state of WalletScanner
  acts        \* what users and the clock have done so far

database == <<table, book, patterns, tags>>
vars == <<landed, database, run, user, scan, acts>>

-----------------------------------------------------------------------------
(* The table and what is derived from it.                                  *)

NoRow == [wallet |-> NoWallet, age |-> 2, category |-> "derived"]
Rows(t, w) == {s \in Sigs : t[s].wallet = w}
Meaningful(t, w) == {s \in Rows(t, w) : ~Normal[w][s].is_noise}
Category(t, w, s) ==
  IF t[s].category = "derived" THEN Normal[w][s].category ELSE t[s].category
Outflows(t, w) == {s \in Meaningful(t, w) : Normal[w][s].is_outgoing /\ Normal[w][s].usd > 0}

(* getLastIngestedAt: the age of the wallet's youngest row.                *)
IngestedWithin(w, age) == \E s \in Rows(table, w) : table[s].age <= age

(* upsertMany: INSERT OR REPLACE, by the signature.                        *)
upsertMany(t, w, S) ==
  [s \in Sigs |-> IF s \in S THEN [wallet |-> w, age |-> 0, category |-> "derived"] ELSE t[s]]

(* Counterparties with a transaction are replaced, the others stay.        *)
Bug_insert_or_ignore(t, w) ==
  [a \in Addresses |-> IF book[w][a] = {} THEN With(Meaningful(t, w), w, a) ELSE book[w][a]]
rebuildCounterparties(t, w) ==
  [a \in Addresses |-> LET S == With(Meaningful(t, w), w, a) IN
                       IF S = {} THEN book[w][a] ELSE S]

NoPattern == [of |-> {}, tag |-> "derived", isConfirmed |-> FALSE]
Bug_from_row(w, a, S) ==
  [of |-> S, tag |-> table[Max(S)].category, isConfirmed |-> table[Max(S)].category # "derived"]
PatternOf(w, a, S) ==
  [of |-> S,
   tag |-> IF tags[w][a] # "none" THEN tags[w][a] ELSE table[Max(S)].category,
   isConfirmed |-> tags[w][a] # "none"]

(* getStoredTransactions: the newest rows, up to the LIMIT.                *)
Bug_strictly_after(w, range, limit) ==
  Newest({s \in Meaningful(table, w) : Time[s] > Since(range)}, limit)
Stored(w, range, limit) == Newest(InRange(Meaningful(table, w), range), limit)

(* Groups that recur are replaced, the other patterns stay.               *)
Sample(w, range, a) == With(Stored(w, range, SampleLimit), w, a)
Recurring(w, range) == {a \in Addresses : Recurs(Sample(w, range, a))}
detectRecurringPatterns(w, range) ==
  [a \in Addresses |-> IF a \in Recurring(w, range) THEN PatternOf(w, a, Sample(w, range, a))
                        ELSE patterns[w][a]]

(* What went out, by category; what counts as burn.                        *)
SpendCategories == Tags \cup {"transfer", "unknown"}
Bug_noise_counted(w, range) ==
  [c \in SpendCategories |->
     {s \in InRange({t \in Rows(table, w) : Normal[w][t].is_outgoing /\ Normal[w][t].usd > 0}, range) :
        Category(table, w, s) = c}]
getSpendByCategory(w, range) ==
  [c \in SpendCategories |->
     {s \in InRange(Outflows(table, w), range) : Category(table, w, s) = c}]
Burned(w, range) ==
  {s \in Outflows(table, w) : Time[s] >= BurnSince(range) /\ Category(table, w, s) \in SpendCategories}

-----------------------------------------------------------------------------
(* What the clients keep, and what a run tells its client.                 *)

NoPatterns == [a \in {} |-> {}]
(* Of an analysis: the rows listed, spent and burned; the addresses that   *)
(* recur, with their rows, and those confirmed; and what falls due.        *)
NoResult == [wallet |-> NoWallet, range |-> Month, found |-> {}, spend |-> [c \in SpendCategories |-> {}],
             burn |-> {}, recurring |-> NoPatterns, confirmed |-> {}, due |-> 0]
(* top is the newest signature when the first page was fetched (0 when the *)
(* ingestion was spared); the code does not keep it.                       *)
NoScan == [phase |-> "idle", scanned |-> NoWallet, analysis |-> NoResult, top |-> 0]
NoRun == [client |-> "none", gone |-> FALSE, pc |-> "idle", wallet |-> NoWallet, range |-> Month,
          before |-> 0, pages |-> 0, tries |-> 0, top |-> 0, result |-> NoResult]

isLoading == user.isIngesting \/ user.isAnalyzing
For(r, client) == run[r].client = client /\ ~run[r].gone
Scanning == scan.phase \in {"ingesting", "analyzing"}
Acts == acts < MaxActs /\ acts' = acts + 1
Starts(r, client, pc, w, range) ==
  /\ run[r] = NoRun /\ \A q \in Runs : q < r => run[q] # NoRun
  /\ run' = [run EXCEPT ![r] = [NoRun EXCEPT !.client = client, !.pc = pc,
                                             !.wallet = w, !.range = range]]

(* A rejected or failed request.                                           *)
Stopped(pc) ==
  [user EXCEPT !.isIngesting = IF pc \in {"ingest", "fetch"} THEN FALSE ELSE @,
               !.isAnalyzing = IF pc \in {"analyze", "insights", "answered"} THEN FALSE ELSE @]
Bug_scan_not_told(r) ==
  /\ user' = IF For(r, "user") THEN Stopped(run[r].pc) ELSE user
  /\ scan' = scan
Told(r) ==
  /\ user' = IF For(r, "user") THEN Stopped(run[r].pc) ELSE user
  /\ scan' = IF For(r, "scan") THEN [scan EXCEPT !.phase = "error"] ELSE scan
Fails(r) ==
  /\ run' = [run EXCEPT ![r] = NoRun] /\ Told(r)
  /\ UNCHANGED <<landed, database, acts>>

(* The client goes on to the analysis of the same wallet and range.        *)
Analyses(r, top) ==
  IF run[r].gone
  THEN run' = [run EXCEPT ![r] = NoRun] /\ UNCHANGED <<user, scan>>
  ELSE /\ run' = [run EXCEPT ![r] = [NoRun EXCEPT !.client = run[r].client, !.pc = "analyze",
                                       !.wallet = run[r].wallet, !.range = run[r].range]]
       /\ user' = IF run[r].client = "user"
                  THEN [user EXCEPT !.isIngesting = IF run[r].pc = "tag" THEN @ ELSE FALSE,
                                    !.isAnalyzing = TRUE]
                  ELSE user
       /\ scan' = IF run[r].client = "scan"
                  THEN [scan EXCEPT !.phase = "analyzing", !.top = top]
                  ELSE scan

-----------------------------------------------------------------------------
(* The ingest routes and ingestMainnetTransactions.                        *)

(* The public route spares any wallet fetched lately, by whomever; the     *)
(* user's only the month.                                                  *)
PublicIngest(w) == [cached |-> IngestedWithin(w, 1), pages |-> PublicPages]
Ingest(w, range) == [cached |-> range = Month /\ IngestedWithin(w, 0), pages |-> Pages]
Route(r) ==
  IF run[r].client = "scan" THEN PublicIngest(run[r].wallet) ELSE Ingest(run[r].wallet, run[r].range)
ingest(r) ==
  /\ run[r].pc = "ingest"
  /\ IF Route(r).cached
     THEN Analyses(r, 0)
     ELSE /\ run' = [run EXCEPT ![r] = [@ EXCEPT !.pc = "fetch", !.before = MaxSig + 1]]
          /\ UNCHANGED <<user, scan>>
  /\ UNCHANGED <<landed, database, acts>>

(* fetchWithRetry: three more attempts, then the error is the answer.      *)
Bug_one_more(r) == run[r].tries > MaxRetries
GivesUp(r) == run[r].tries = MaxRetries
RateLimited(r) ==
  /\ run[r].pc = "fetch"
  /\ IF GivesUp(r) THEN Fails(r)
     ELSE /\ run' = [run EXCEPT ![r].tries = @ + 1]
          /\ UNCHANGED <<landed, database, user, scan, acts>>

(* The page below the cursor.  The last one is followed by the rebuilding  *)
(* of the counterparties without an await in between.                      *)
PageBelow(w, before) == Newest({s \in Party[w] : s < before /\ s <= landed}, PageSize)
Bug_skips_one(page) == Min(page) - 1
Cursor(page) == Min(page)
fetchPage(r) ==
  LET w    == run[r].wallet
      page == PageBelow(w, run[r].before)
      kept == InRange(page, run[r].range)
      top  == IF run[r].pages = 0 THEN landed ELSE run[r].top
  IN /\ run[r].pc = "fetch"
     /\ table' = upsertMany(table, w, kept)
     /\ IF page # kept \/ Cardinality(page) < PageSize \/ run[r].pages + 1 >= Route(r).pages
        THEN /\ book' = [book EXCEPT ![w] = rebuildCounterparties(table', w)]
             /\ Analyses(r, top)
        ELSE /\ run' = [run EXCEPT ![r] = [run[r] EXCEPT !.before = Cursor(page), !.tries = 0,
                                                         !.pages = @ + 1, !.top = top]]
             /\ UNCHANGED <<book, user, scan>>
     /\ UNCHANGED <<landed, patterns, tags, acts>>

-----------------------------------------------------------------------------
(* The analysis routes, and what their answers change.                     *)

(* Patterns, rows and sums in one go; then the insights are awaited, from  *)
(* the model or from the database; then the forecast, from the patterns    *)
(* as they are by then.                                                    *)
runFullTreasuryAnalysis(r) ==
  LET w == run[r].wallet
      range == run[r].range
      found == detectRecurringPatterns(w, range)
      recurring == Recurring(w, range) IN
  /\ run[r].pc = "analyze"
  /\ UNCHANGED <<landed, table, book, tags, user, scan, acts>>
  /\ patterns' = [patterns EXCEPT ![w] = found]
  /\ run' = [run EXCEPT ![r].pc = "insights", ![r].result =
       [wallet |-> w, range |-> range, found |-> Stored(w, range, RowLimit),
        spend |-> getSpendByCategory(w, range), burn |-> Burned(w, range),
        recurring |-> [a \in recurring |-> found[a].of],
        confirmed |-> {a \in recurring : found[a].isConfirmed}, due |-> 0]]

generateForecast(r) ==
  LET w == run[r].wallet
      soon == {a \in Addresses : patterns[w][a] # NoPattern /\ DueSoon(patterns[w][a].of)} IN
  /\ run[r].pc = "insights"
  /\ UNCHANGED <<landed, database, user, scan, acts>>
  /\ run' = [run EXCEPT ![r].pc = "answered",
                         ![r].result.due =
       SumFunctionOnSet([a \in Addresses |-> avgAmount(w, patterns[w][a].of)], soon)]

setAnalysis(r) ==
  /\ run[r].pc = "answered"
  /\ run' = [run EXCEPT ![r] = NoRun]
  /\ user' = IF For(r, "user")
             THEN [user EXCEPT !.analysis = run[r].result, !.isAnalyzing = FALSE] ELSE user
  /\ scan' = IF For(r, "scan")
             THEN [scan EXCEPT !.analysis = run[r].result, !.phase = "done"] ELSE scan
  /\ UNCHANGED <<landed, database, acts>>

(* applyUserTag, for an address or for one transaction: one that an        *)
(* analysis offered to classify, as the dialog may have been open for long.*)
Tagged(w, S, tag) ==
  table' = [s \in Sigs |-> IF s \in S /\ table[s].wallet = w
                           THEN [table[s] EXCEPT !.category = tag] ELSE table[s]]
Classifiable(w) ==
  [addresses |-> {a \in Addresses : patterns[w][a] # NoPattern},
   rows      |-> {s \in Rows(table, w) : TxRow(w, s, Normal[w][s].category).classify}]
applyUserTag(r) ==
  LET w == run[r].wallet IN
  /\ run[r].pc = "tag"
  /\ \E tag \in Tags :
       \/ \E a \in Classifiable(w).addresses :
            /\ tags' = [tags EXCEPT ![w][a] = IF @ = "none" THEN tag ELSE @]
            /\ Tagged(w, With(Sigs, w, a), tag)
       \/ \E s \in Classifiable(w).rows : Tagged(w, {s}, tag) /\ UNCHANGED tags
  /\ Analyses(r, 0)
  /\ UNCHANGED <<landed, book, patterns, acts>>

-----------------------------------------------------------------------------
(* The user, the visitor, the chain and the clock.                         *)

(* The rows of the recurring tab, and those above the tabs.                *)
RecurringRows(a) == [x \in DOMAIN a.recurring |-> RecurringRow(a.recurring[x], x \in a.confirmed)]
Untagged(a) == {x \in DOMAIN a.recurring : RecurringRows(a)[x].classify /\ NeedsTag(a.recurring[x])}

(* What the page draws of the analysis, with the range selected by now.    *)
Spent(a) == UNION {a.spend[c] : c \in SpendCategories}
Vault(client) == IF client = "user" THEN UserVaultUsd ELSE 0
Kpis(a, client) ==
  LET burn == getMonthlyBurnUsd(a.wallet, a.burn, a.range)
      predicted == predictedSpend(a.due, burn) IN
  [burn |-> burn, patterns |-> Cardinality(DOMAIN a.recurring), unclassified |-> Cardinality(Untagged(a)),
   predicted |-> predicted, runway |-> calculateRunway(Vault(client), burn),
   score |-> reserveHealthScore(Vault(client), predicted)]
chartData == TopCategories(user.analysis.wallet, user.analysis.spend, 8)
timelineData == buildTimeline(user.analysis.found, user.range)
(* The activity chart, when there is a bar to draw, and the total above it.*)
ActivityChart ==
  LET total == SumFunctionOnSet([i \in DOMAIN timelineData |-> Total(user.analysis.wallet, timelineData[i])],
                               DOMAIN timelineData) IN
  [hasTimelineData |-> total > 0, total |-> total]
(* The ranges that panels with nothing to show offer.                      *)
Expansions ==
  LET a == user.analysis IN
  {range \in {All} \ {user.range} : DOMAIN chartData = {} \/ (a.found = {} /\ ~user.isAnalyzing)}
    \cup {range \in {Longer} : a.recurring = NoPatterns /\ user.range \in Short}

(* The effect on the session, the range selector and the button, which are *)
(* disabled while a run loads; and the empty panels, which are not.        *)
runFullAnalysis(r, range) ==
  /\ ~isLoading \/ (user.analysis # NoResult /\ range \in Expansions)
  /\ Acts
  /\ Starts(r, "user", "ingest", UserWallet, range)
  /\ user' = [user EXCEPT !.range = range, !.isIngesting = TRUE]
  /\ UNCHANGED <<landed, database, scan>>

(* The dialog can be opened and closed at any time; its analysis is for    *)
(* the range of the render it was submitted in.  (Advisors has the dialog, *)
(* which allows fewer tags than this.)                                     *)
submitTag(r) ==
  /\ user.analysis # NoResult /\ Acts
  /\ UNION {Classifiable(UserWallet).addresses, Classifiable(UserWallet).rows} # {}
  /\ Starts(r, "user", "tag", UserWallet, user.range)
  /\ UNCHANGED <<landed, database, user, scan>>

(* The scanner's input and button are disabled while it scans; Enter needs *)
(* an idle one.                                                            *)
Enabled == ~Scanning
runScan(r, w) ==
  /\ Enabled /\ Acts
  /\ Starts(r, "scan", "ingest", w, ScanRange)
  /\ scan' = [NoScan EXCEPT !.phase = "ingesting", !.scanned = w]
  /\ UNCHANGED <<landed, database, user>>

(* Another address typed, or "Scan different wallet".                      *)
reset ==
  /\ Enabled /\ scan.phase # "idle" /\ Acts
  /\ scan' = [scan EXCEPT !.phase = "idle", !.analysis = NoResult]
  /\ UNCHANGED <<landed, database, run, user>>

(* Below the scanner's input.  The results are the figures, or the advice  *)
(* to scan a wallet that is a person's, or that there is nothing.          *)
topCategories == TopCategories(scan.analysis.wallet, scan.analysis.spend, 4)
totalSpend == SumFunctionOnSet(topCategories, DOMAIN topCategories)
OnlyAdvice ==
  LET a == scan.analysis IN
  a.found # {} /\ Kpis(a, "scan").burn = 0 /\ a.recurring = NoPatterns /\ totalSpend = 0
Results ==
  CASE scan.analysis.found = {} -> "nothing"
    [] OnlyAdvice -> "advice"
    [] scan.analysis.found # {} /\ ~OnlyAdvice -> "figures"
Below ==
  CASE Scanning -> "progress" [] scan.phase = "error" -> "error"
    [] scan.phase = "done" -> Results [] scan.phase = "idle" -> "hint"
(* The panels of the figures, each drawn when it has a row; of the bills   *)
(* four are shown.                                                         *)
SpendPanel == [total |-> totalSpend, bars |-> topCategories]
Bills == [x \in DOMAIN scan.analysis.recurring |-> BillRow(scan.analysis.recurring[x])]
RecentActivity ==
  [s \in Newest(scan.analysis.found, 5) |-> TxPreviewRow(scan.scanned, s)]

(* A request whose answer is lost, or whose page is left, goes on.         *)
Abandoned(r) ==
  /\ run[r].pc # "idle" /\ ~run[r].gone /\ Told(r)
  /\ run' = [run EXCEPT ![r].gone = TRUE]
  /\ UNCHANGED <<landed, database, acts>>

Land ==
  /\ landed < MaxSig /\ landed' = landed + 1
  /\ UNCHANGED <<database, run, user, scan, acts>>

TimePasses ==
  /\ Acts
  /\ table' = [s \in Sigs |-> [table[s] EXCEPT !.age = IF @ = 2 THEN 2 ELSE @ + 1]]
  /\ UNCHANGED <<landed, book, patterns, tags, run, user, scan>>

-----------------------------------------------------------------------------

Init ==
  /\ landed = MaxSig - 1
  /\ table = [s \in Sigs |-> NoRow]
  /\ book = [w \in Wallets |-> [a \in Addresses |-> {}]]
  /\ patterns = [w \in Wallets |-> [a \in Addresses |-> NoPattern]]
  /\ tags = [w \in Wallets |-> [a \in Addresses |-> "none"]]
  /\ run = [r \in Runs |-> NoRun]
  /\ user = [range |-> Month, isIngesting |-> FALSE, isAnalyzing |-> FALSE,
             analysis |-> NoResult]
  /\ scan = NoScan
  /\ acts = 0

RunStep(r) ==
  \/ run[r].pc # "idle" /\ Fails(r)
  \/ ingest(r) \/ RateLimited(r) \/ fetchPage(r)
  \/ runFullTreasuryAnalysis(r) \/ generateForecast(r) \/ setAnalysis(r) \/ applyUserTag(r)

People ==
  \/ reset
  \/ \E r \in Runs :
       \/ submitTag(r) \/ Abandoned(r)
       \/ \E range \in Ranges : runFullAnalysis(r, range)
       \/ \E w \in Wallets : runScan(r, w)

Next == People \/ (\E r \in Runs : RunStep(r)) \/ Land \/ TimePasses

(* Every request is answered or fails; nothing else is sure to happen.     *)
Spec == Init /\ [][Next]_vars /\ \A r \in Runs : WF_vars(RunStep(r))

-----------------------------------------------------------------------------

Result == [wallet : Wallets \cup {NoWallet}, range : Ranges, found : SUBSET Sigs,
           spend : [SpendCategories -> SUBSET Sigs], burn : SUBSET Sigs,
           recurring : UNION {[S -> SUBSET Sigs] : S \in SUBSET Addresses}, confirmed : SUBSET Addresses, due : Nat]
StoredCategories == Tags \cup {"derived"}

(* Every variable stays within its type.                                   *)
TreasuryTypeOK ==
  /\ landed \in 0..MaxSig /\ acts \in 0..MaxActs
  /\ table \in [Sigs -> [wallet : Wallets \cup {NoWallet}, age : 0..2, category : StoredCategories]]
  /\ book \in [Wallets -> [Addresses -> SUBSET Sigs]]
  /\ patterns \in [Wallets -> [Addresses ->
                    [of : SUBSET Sigs, tag : StoredCategories, isConfirmed : BOOLEAN]]]
  /\ tags \in [Wallets -> [Addresses -> Tags \cup {"none"}]]
  /\ run \in [Runs -> [client : {"none", "user", "scan"}, gone : BOOLEAN,
                       pc : {"idle", "tag", "ingest", "fetch", "analyze", "insights", "answered"},
                       wallet : Wallets \cup {NoWallet}, range : Ranges, before : 0..MaxSig + 1,
                       pages : Nat, tries : 0..MaxRetries, top : 0..MaxSig,
                       result : Result]]
  /\ user \in [range : Ranges, isIngesting : BOOLEAN, isAnalyzing : BOOLEAN,
               analysis : Result]
  /\ scan \in [phase : {"idle", "ingesting", "analyzing", "done", "error"},
               scanned : Wallets \cup {NoWallet}, analysis : Result, top : 0..MaxSig]

(* Transactions no other analysed wallet takes part in.                    *)
Own == [w \in Wallets |-> {s \in Party[w] : \A v \in Wallets \ {w} : s \notin Party[v]}]

(* While an ingestion pages backwards, everything in its range between its *)
(* cursor and where it began is stored for its wallet, whatever lands on   *)
(* chain and whatever other ingestions do meanwhile.  (A transaction two   *)
(* wallets share belongs to whichever ingested it last.)                   *)
NoHoles ==
  \A r \in Runs : run[r].pc = "fetch" =>
    \A s \in InRange(Own[run[r].wallet], run[r].range) :
      run[r].before <= s /\ s <= run[r].top => table[s].wallet = run[r].wallet

(* The scanner never shows one wallet's analysis as another's, and when it *)
(* was not spared the ingestion, it shows every meaningful transaction     *)
(* within its pages and range, as far as the list of the newest rows       *)
(* reaches.                                                                *)
ScanComplete ==
  LET w == scan.scanned IN
  scan.phase = "done" =>
    /\ scan.analysis.wallet = w
    /\ \A s \in Newest({t \in Party[w] : t <= scan.top}, PageSize * PublicPages) :
         s \in InRange(Own[w], ScanRange) /\ ~Normal[w][s].is_noise =>
           \/ s \in scan.analysis.found
           \/ Cardinality({t \in scan.analysis.found : t > s}) >= RowLimit

(* The figures of an analysis are about the same rows, although each comes *)
(* of a query of its own: burn is what was spent lately; what was spent is *)
(* listed, unless the list is full; the bars of the chart and its total are*)
(* of the listed rows that are younger than the chart is long, whatever    *)
(* range is selected meanwhile; and so are the scanner's panels.           *)
Listed(a) == \A s \in Spent(a) :
  s \in a.found \/ (Cardinality(a.found) = RowLimit /\ \A t \in a.found : t > s)
Lately(a) == a.burn = {s \in Spent(a) : Time[s] >= BurnSince(a.range)}
Charted(found, range) ==
  found # {} =>
    LET chart == Chart(found, range)
        young == {s \in found : Now - Time[s] < chart.bars * chart.days * Day} IN
    /\ UNION {timelineData[i] : i \in DOMAIN timelineData} = young
    /\ ActivityChart.total = Total(user.analysis.wallet, young)
(* A bill shown as due within a month is in the forecast and one overdue   *)
(* is not, up to the rounding of the days shown.                           *)
BillsAgree(S, row) ==
  /\ (row.text = "Overdue" /\ row.days # 0) \/ row.days > 30 => ~DueSoon(S)
  /\ row.text = "Due" /\ row.days < 30 => DueSoon(S)
(* The scanner says that nothing was paid only if nothing listed was, with *)
(* a burn it shows where it went, and what is listed is the wallet's own.  *)
PanelsAgree ==
  /\ Below = "advice" =>
       \A s \in scan.analysis.found :
         LET row == TxPreviewRow(scan.scanned, s) IN
         row.out /\ row.usd > 0 => Normal[scan.scanned][s].category = "swap"
  /\ Below = "figures" =>
       /\ Kpis(scan.analysis, "scan").burn > 0 => SpendPanel.total > 0 /\ DOMAIN SpendPanel.bars # {}
       /\ DOMAIN RecentActivity # {} /\ DOMAIN RecentActivity \subseteq Party[scan.scanned]
       /\ \A x \in DOMAIN Bills : BillsAgree(scan.analysis.recurring[x], Bills[x])
ReportAgrees ==
  /\ \A a \in {user.analysis, scan.analysis} :
       Lately(a) /\ Listed(a)
  /\ \A x \in DOMAIN user.analysis.recurring :
       BillsAgree(user.analysis.recurring[x], RecurringRows(user.analysis)[x].bill)
  /\ Charted(user.analysis.found, user.range) /\ PanelsAgree

(* An ingestion that ends leaves exact sums for every counterparty that    *)
(* has transactions, also after runs that stored pages and then failed.    *)
SumsAreExact ==
  [][\A w \in Wallets :
       book'[w] # book[w] =>
         \A a \in Addresses :
           LET S == With(Meaningful(table', w), w, a) IN S # {} => book'[w][a] = S]_vars

(* A pattern the user has confirmed stays confirmed with the tag he gave   *)
(* first, although ingesting its transactions again drops their tags.      *)
TagSurvives ==
  [][\A w \in Wallets, a \in Addresses :
       patterns[w][a].isConfirmed =>
         patterns'[w][a].isConfirmed /\ patterns'[w][a].tag = patterns[w][a].tag]_vars

(* Whatever the chain service answers, the spinners end.                   *)
SpinnersEnd == (isLoading ~> ~isLoading) /\ (Scanning ~> ~Scanning)
=============================================================================
