------------------------------ MODULE Advisors ------------------------------
(***************************************************************************)
(* The pages that explain and quote and never move funds: the assistant's  *)
(* chat, the analysis of uploaded statements (QVAC), the activity page     *)
(* with its log and its insight, the swap page, and the treasury page with *)
(* its insights and its dialog for tags; with the routes of the server     *)
(* that answer them.  (What an analysis finds is in Treasury.)             *)
(*                                                                         *)
(* One page is mounted at a time.  Its state and everything it waits for   *)
(* is gone when it is left, since nobody sees what an unmounted component  *)
(* is told; the log and the vault of the context outlive it.               *)
(*                                                                         *)
(* Text is left out: an answer is known by what it answers and by who      *)
(* wrote it.  Whether the deployment has keys for the models, and what a   *)
(* model or a network does, is a choice at each call.                      *)
(*                                                                         *)
(* An operator whose name begins with Bug_ is the operator after it with a *)
(* plausible mistake; nothing in the specification uses them.              *)
(***************************************************************************)
EXTENDS Naturals, Sequences, FiniteSets, Functions

CONSTANTS
  Files,       \* the statements on the user's disk: names to lines
  Tokens,      \* what can be swapped
  Slippages,   \* in basis points
  Ranges,      \* time ranges of the treasury page
  Month, All,  \* the ranges '30d' and 'all'
  Short, Longer, \* ranges without patterns that offer a longer one, and that one
  MaxRows,     \* rows read of a statement (200 in the code)
  Kept,        \* log entries kept (100 in the code)
  MaxActs,     \* bounds what the user does, and with it what is logged
  MaxVaults,   \* bounds how often the context's vault changes
  MaxLogged    \* bounds the entries written to the log

(* A line of a statement: what can be told from it.                        *)
Line == [readable : BOOLEAN, cats : SUBSET STRING, words : SUBSET STRING, amount : Nat]

(* The entries the log starts with, in the order the code lists them.  An  *)
(* entry is known by its number, in the order of writing; of the clock only *)
(* the order of its seconds matters, and it is not set back.               *)
Seeds == << [no |-> 1, timestamp |-> 1], [no |-> 2, timestamp |-> 2],
            [no |-> 3, timestamp |-> 3], [no |-> 4, timestamp |-> 4] >>

ASSUME AdvisorsAssumption ==
  /\ MaxRows \in Nat /\ Kept \in Nat /\ Kept >= Len(Seeds)
  /\ MaxActs \in Nat /\ MaxVaults \in Nat /\ MaxLogged \in Nat /\ MaxLogged >= Len(Seeds)
  /\ (\E a, b \in Tokens : a # b) /\ Slippages # {}
  /\ {"demo", "none"} \cap DOMAIN Files = {} /\ Files \in [DOMAIN Files -> Seq(Line)]
  /\ {Month, All, Longer} \cup Short \subseteq Ranges

VARIABLES
  page,       \* the page that is mounted
  vault,      \* the context's vault: the number of its version, 0 for null
  versions,   \* how many versions there were
  isLoading,  \* the context loads
  ready,      \* the context has loaded: the gate shows the pages
  log,        \* the activity log, as it is stored
  listeners,  \* how many components subscribeLog has on its list
  chat,       \* the chat panel of the assistant's page
  qvac,       \* the QVAC page
  activity,   \* the activity page
  swap,       \* the swap page
  treasury,   \* the treasury page
  acts        \* how much the user has done so far

context == <<vault, versions, isLoading, ready>>
pages == <<chat, qvac, activity, swap, treasury>>
vars == <<page, context, log, listeners, pages, acts>>

Pages == {"ai", "qvac", "activity", "jupiter", "treasury", "other"}
Acts == acts < MaxActs /\ acts' = acts + 1

-----------------------------------------------------------------------------
(* POST /api/ai/chat and POST /api/insights: what can follow each stage of *)
(* a request, another stage or the author of the answer.  Every call of a  *)
(* model is cut off after 10 or 12 seconds, and the text the route makes   *)
(* itself always remains.                                                  *)

deterministicResponse == "fallback"
Responses == {"model", "completions"}
Completions == {"model", deterministicResponse}
ChatRoute ==
  [route       |-> {deterministicResponse, "responses"},
   responses   |-> Responses,
   completions |-> Completions]

deterministicFallback == "fallback"
Claude == {"model", deterministicFallback}
Gpt == {"model", deterministicFallback}
InsightsRoute ==
  [route |-> {deterministicFallback, "claude", "gpt"},
   claude |-> Claude, gpt |-> Gpt]

(* The insights of the treasury page, by who wrote them: a text for a      *)
(* window without transactions, the local one when OpenAI refuses, or the  *)
(* list found in the model's answer, which may be empty.                   *)
callOpenAI == {"list", "no list", "rejected"}
generateTreasuryInsights ==
  {"canned"} \cup {CASE answer = "list" -> "model" [] answer = "no list" -> "none"
                     [] OTHER -> "local" : answer \in callOpenAI}
getStoredInsights == {"stored", "none"}
(* The analysis goes without the key, the button's request is refused.     *)
AnalysisRoute == generateTreasuryInsights \cup getStoredInsights
InsightsPost == generateTreasuryInsights \cup {"refused"}

(* A request may also be lost, or its answer be unreadable.                *)
Outcomes(route, call) == route[call.stage] \cup {"lost"}
Moves(calls, call, stage) == (calls \ {call}) \cup {[call EXCEPT !.stage = stage]}

-----------------------------------------------------------------------------
(* The statements of the QVAC page.  A line says whether it can be read,   *)
(* which categories' patterns its description matches, which words for a   *)
(* period it contains, and the amount in cents.                            *)

(* In the order of their confidence and, where it is equal, of the list.   *)
Categories == <<"payroll", "infrastructure", "subscription",
                "contractor", "revenue", "transfer", "fee", "unknown">>
Usual == {"payroll", "infrastructure", "subscription"}
Periods == <<"monthly", "weekly", "annual">>

Row(category, period, amount) ==
  [category |-> category, period |-> period, amount |-> amount]

(* The most confident category; the last period named, and a month for     *)
(* what usually recurs.                                                    *)
classifyLocally(line) ==
  LET Best == {i \in DOMAIN Categories : Categories[i] \in line.cats \cup {"unknown"}}
      category == Categories[CHOOSE i \in Best : \A j \in Best : i <= j]
      Named == {i \in DOMAIN Periods : Periods[i] \in line.words} IN
  Row(category,
      IF Named # {} THEN Periods[CHOOSE i \in Named : \A j \in Named : i >= j]
      ELSE IF category \in Usual THEN "monthly" ELSE "never",
      line.amount)

(* The first line is the header; a line that cannot be read still counts   *)
(* among the first MaxRows.  A row is known by the number of its line.     *)
parseCSV(lines) ==
  [i \in {i \in 2..Len(lines) : i <= MaxRows + 1 /\ lines[i].readable} |-> classifyLocally(lines[i])]

Demo == <<
  Row("payroll", "monthly", 1250000), Row("infrastructure", "monthly", 84732),
  Row("subscription", "monthly", 29900), Row("contractor", "never", 320000),
  Row("subscription", "monthly", 2000), Row("infrastructure", "annual", 20000),
  Row("subscription", "monthly", 18000), Row("fee", "never", 12),
  Row("contractor", "monthly", 180000), Row("revenue", "never", 875000) >>
Transactions(source) == IF source = "demo" THEN Demo ELSE parseCSV(Files[source])
Sources == DOMAIN Files \cup {"demo"}

Total(rows, Of) == SumFunctionOnSet([i \in DOMAIN rows |-> rows[i].amount], Of)
Filed(rows, category) == {i \in DOMAIN rows : rows[i].category = category}

(* The cards of the category breakdown.                                    *)
Cards(rows) ==
  {[category |-> c, count |-> Cardinality(Filed(rows, c)), total |-> Total(rows, Filed(rows, c))] :
     c \in {x \in Range(Categories) : Total(rows, Filed(rows, x)) > 0}}

(* Recurring rows of one category whose amounts round to the same multiple *)
(* of 50 dollars make a pattern, named after the first of them.            *)
detectRecurringPatterns(rows) ==
  LET Recurring == {i \in DOMAIN rows : rows[i].period # "never"}
      Key(i) == <<rows[i].category, (rows[i].amount + 2500) \div 5000>>
      Group(k) == {i \in Recurring : Key(i) = k}
      First(S) == CHOOSE i \in S : \A j \in S : i <= j IN
  {[first |-> First(Group(k)), total |-> Total(rows, Group(k)), txCount |-> Cardinality(Group(k)),
    frequency |-> rows[First(Group(k))].period] : k \in {Key(i) : i \in Recurring}}

(* The numbers above them; the obligations add up the averages of `monthly'*)
Kpis(rows) ==
  LET patterns == detectRecurringPatterns(rows) IN
  [transactions |-> Cardinality(DOMAIN rows), recurring |-> Cardinality(patterns),
   monthly |-> {p \in patterns : p.frequency = "monthly"},
   categorized |-> Cardinality(DOMAIN rows \ Filed(rows, "unknown"))]

(* What a question is sent with: the cards and the recurring patterns.     *)
Context(rows) ==
  [count |-> Cardinality(DOMAIN rows), cards |-> Cards(rows), recurring |-> detectRecurringPatterns(rows)]

(* The rows under a filter.                                                *)
Filtered(rows, filter) == {i \in DOMAIN rows : filter = "all" \/ rows[i].category = filter}

-----------------------------------------------------------------------------
(* What each page starts with.                                             *)

Says(role, of, by) == [role |-> role, of |-> of, by |-> by]
NewChat == [turns |-> <<Says("assistant", 0, "greeting")>>, input |-> FALSE,
            loading |-> FALSE, calls |-> {}]
(* Beside what the code keeps, a page numbers what it asks, and an answer  *)
(* on screen carries the number of its ask and, as seen, how many asks     *)
(* there were when it landed.  Other history, which decides nothing:       *)
(* replaced, how many questions there were when the statement on screen    *)
(* came; joined, how many entries when the page began to listen, and 0 once*)
(* it has heard of one; lost and failed, the asks that ended without an    *)
(* answer since the last one landed; drifted, that the form is no longer   *)
(* the one of the last request.                                            *)
NoAnswer == [ask |-> 0, of |-> "demo", by |-> "none", seen |-> 0]
NewQvac == [source |-> "demo", fileName |-> "none", processing |-> FALSE, uploads |-> {},
            filter |-> "all", query |-> FALSE, answer |-> NoAnswer, chatLoading |-> FALSE,
            calls |-> {}, asks |-> 0, replaced |-> 0]
NoInsight == [ask |-> 0, of |-> 0, seen |-> 0]
NewActivity == [feed |-> <<>>, joined |-> 0, subscribed |-> FALSE, effect |-> FALSE, timer |-> 0,
                asks |-> 0, asked |-> 0, insight |-> NoInsight, loadingInsight |-> FALSE,
                calls |-> {}, lost |-> {}]
Form == [from : Tokens, to : Tokens, slippage : Slippages, amount : {"empty", "zero", "some"}]
NoForm == CHOOSE f \in Form : f.from # f.to /\ f.amount = "empty"
NoQuote == [ask |-> 0, form |-> NoForm]
NewSwap == [form |-> NoForm, quote |-> NoQuote, quoteLoading |-> FALSE, asks |-> 0, calls |-> {},
            drifted |-> FALSE,
            priceLoading |-> TRUE, prices |-> "none", loads |-> 0, locks |-> 0, feedback |-> FALSE]
(* An analysis is known by its range, by whether it has transactions and   *)
(* patterns, categorized spend, and insights.  What is asked are the runs; *)
(* a tag and a request for insights carry the number of the last run.      *)
NoAnalysis == [ask |-> 0, seen |-> 0, range |-> Month, found |-> "none", spent |-> FALSE, insights |-> FALSE]
NewTreasury == [range |-> Month, analysis |-> NoAnalysis, isIngesting |-> FALSE, isAnalyzing |-> FALSE,
                isGeneratingInsights |-> FALSE, error |-> FALSE, calls |-> {},
                asks |-> 0, failed |-> {}, tab |-> "transactions",
                target |-> FALSE, selected |-> FALSE, submitting |-> FALSE, done |-> FALSE, closing |-> 0]

(* useTreasury: an ingestion and then an analysis of one range.            *)
runFullAnalysis(state, range) ==
  [state EXCEPT !.range = range, !.isIngesting = TRUE, !.error = FALSE, !.asks = @ + 1,
                !.calls = @ \cup {[ask |-> state.asks + 1, tag |-> FALSE, stage |-> "ingest", range |-> range]}]

-----------------------------------------------------------------------------
(* Moving between the pages, and what the context and the log do meanwhile.*)

(* getLog: the latest second first, by a sort that keeps the stored order  *)
(* of what was written within one second.                                  *)
Before(entries, i, j) ==
  \/ entries[i].timestamp > entries[j].timestamp
  \/ entries[i].timestamp = entries[j].timestamp /\ i < j
Rank(entries, i) == Cardinality({j \in DOMAIN entries : Before(entries, j, i)})
getLog(entries) ==
  [k \in DOMAIN entries |-> entries[CHOOSE i \in DOMAIN entries : Rank(entries, i) = k - 1]]

(* appendLog by a chain that outlives its page: the entry is stored before *)
(* the others, the end of the list is cut off, then the listeners take the *)
(* log as it is.                                                           *)
Written == IF Head(log).no > Len(Seeds) THEN Head(log).no ELSE Len(Seeds)
Seconds ==
  IF Written > Len(Seeds) THEN {Head(log).timestamp, Head(log).timestamp + 1} ELSE {Len(Seeds) + 1}
Stored(entries) == SubSeq(entries, 1, IF Len(entries) < Kept THEN Len(entries) ELSE Kept)
Bug_notified_first(entries) == getLog(log)
Bug_as_stored(entries) == entries
Notified(entries) == getLog(entries)
appendLog ==
  /\ Written < MaxLogged /\ Acts
  /\ \E now \in Seconds : log' = Stored(<<[no |-> Written + 1, timestamp |-> now]>> \o log)
  /\ activity' = IF activity.subscribed
                 THEN [activity EXCEPT !.feed = Notified(log'), !.joined = 0] ELSE activity
  /\ UNCHANGED <<page, context, listeners, chat, qvac, swap, treasury>>

(* The activity page is left: the function subscribeLog returned.          *)
Bug_not_unsubscribed == listeners
Unsubscribed == IF activity.subscribed THEN listeners - 1 ELSE listeners
Mounts(p) ==
  /\ page' = p /\ listeners' = Unsubscribed
  /\ chat' = NewChat /\ qvac' = NewQvac
  /\ activity' = IF p = "activity" THEN [NewActivity EXCEPT !.feed = getLog(log), !.effect = TRUE]
                 ELSE NewActivity
  /\ swap' = IF p = "jupiter" THEN [NewSwap EXCEPT !.loads = 1] ELSE NewSwap
  /\ treasury' = IF p = "treasury" THEN runFullAnalysis(NewTreasury, Month) ELSE NewTreasury
Open(p) ==
  /\ ready /\ p # page /\ Acts /\ Mounts(p)
  /\ UNCHANGED <<context, log>>

(* The activity page renders another vault; the effect comes after that.   *)
Rerendered == IF page = "activity" THEN [activity EXCEPT !.effect = TRUE] ELSE activity

(* loadData empties the vault; the assistant's page shows a spinner instead*)
(* of itself, and the conversation is gone with its panel.                 *)
LoadBegins ==
  /\ versions < MaxVaults
  /\ vault' = 0 /\ isLoading' = TRUE
  /\ chat' = NewChat
  /\ activity' = IF vault = 0 THEN activity ELSE Rerendered
  /\ UNCHANGED <<page, versions, ready, log, listeners, qvac, swap, treasury, acts>>
VaultChanges ==
  /\ versions < MaxVaults
  /\ isLoading \/ vault # 0
  /\ vault' = versions + 1 /\ versions' = versions + 1
  /\ isLoading' = FALSE /\ ready' = TRUE
  /\ activity' = Rerendered
  /\ UNCHANGED <<page, log, listeners, chat, qvac, swap, treasury, acts>>
(* WalletGate shows the error instead of the page.                         *)
LoadFails ==
  /\ isLoading /\ isLoading' = FALSE /\ ready' = FALSE
  /\ Mounts("other")
  /\ UNCHANGED <<vault, versions, log, acts>>

-----------------------------------------------------------------------------
(* TreasuryChatPanel.                                                      *)

AIPage == IF isLoading THEN "spinner" ELSE "panels"
PanelMounted == page = "ai" /\ AIPage = "panels"

(* The bubbles on screen, with three dots for an answer under way.         *)
Bubbles == IF chat.loading THEN Append(chat.turns, Says("assistant", 0, "dots")) ELSE chat.turns

(* The suggestions fill the input also while it is disabled; but they go   *)
(* with the first question.                                                *)
Suggested == Len(chat.turns) <= 1
TypeMessage ==
  /\ PanelMounted /\ (~chat.loading \/ Suggested)
  /\ \E typed \in BOOLEAN \ {chat.input} : chat' = [chat EXCEPT !.input = typed]
  /\ UNCHANGED <<page, context, log, listeners, qvac, activity, swap, treasury, acts>>

Questions(turns) == Cardinality({i \in DOMAIN turns : turns[i].role = "user"})
MaySend == chat.input /\ ~chat.loading
sendMessage ==
  /\ PanelMounted /\ MaySend /\ Acts
  /\ LET n == Questions(chat.turns) + 1 IN
     chat' = [chat EXCEPT !.turns = Append(@, Says("user", n, "user")),
                          !.input = FALSE, !.loading = TRUE,
                          !.calls = @ \cup {[of |-> n, stage |-> "route"]}]
  /\ UNCHANGED <<page, context, log, listeners, qvac, activity, swap, treasury>>

Answered(call, by) ==
  [chat EXCEPT !.turns = Append(@, Says("assistant", call.of, by)),
               !.loading = FALSE, !.calls = @ \ {call}]
ChatStep ==
  /\ \E call \in chat.calls : \E out \in Outcomes(ChatRoute, call) :
       chat' = IF out \in DOMAIN ChatRoute
               THEN [chat EXCEPT !.calls = Moves(@, call, out)]
               ELSE Answered(call, out)
  /\ UNCHANGED <<page, context, log, listeners, qvac, activity, swap, treasury, acts>>

-----------------------------------------------------------------------------
(* QvacPage.                                                               *)

Qvac(state) ==
  /\ page = "qvac" /\ qvac' = state
  /\ UNCHANGED <<page, context, log, listeners, chat, activity, swap, treasury>>

(* The zone takes another statement also while it says "Processing".       *)
UploadZone ==
  IF qvac.processing THEN "processing" ELSE IF qvac.fileName = "none" THEN "demo" ELSE "loaded"
handleFileUpload(file) ==
  /\ Acts
  /\ Qvac([qvac EXCEPT !.processing = TRUE, !.fileName = file,
                       !.uploads = @ \cup {[id |-> acts, file |-> file, read |-> FALSE]}])

(* FileReader calls onload, which waits 800 ms.  It calls nothing that the *)
(* page listens to when the file cannot be read: the spinner stays.        *)
Read(upload) ==
  /\ ~upload.read /\ UNCHANGED acts
  /\ \/ Qvac([qvac EXCEPT !.uploads = (@ \ {upload}) \cup {[upload EXCEPT !.read = TRUE]}])
     \/ Qvac([qvac EXCEPT !.uploads = @ \ {upload}])

(* A statement without a readable row leaves what was there.               *)
Parsed(upload) ==
  /\ upload.read /\ UNCHANGED acts
  /\ LET some == DOMAIN parseCSV(Files[upload.file]) # {} IN
     Qvac([qvac EXCEPT !.uploads = @ \ {upload}, !.processing = FALSE,
                       !.source = IF some THEN upload.file ELSE @,
                       !.replaced = IF some THEN qvac.asks ELSE @])

(* The table under the cards; what is searched for is left out.            *)
TransactionList ==
  [rows |-> Filtered(Transactions(qvac.source), qvac.filter), clear |-> qvac.filter # "all"]

(* A card is pressed, or "Clear"; a new statement leaves the filter.       *)
Offered == [source \in Sources |-> {card.category : card \in Cards(Transactions(source))}]
setFilterCat(category) ==
  /\ category \in Offered[qvac.source] \/ (TransactionList.clear /\ category = qvac.filter)
  /\ Acts
  /\ Qvac([qvac EXCEPT !.filter = IF qvac.filter = category THEN "all" ELSE category])

TypeQuery ==
  /\ UNCHANGED acts
  /\ \E typed \in BOOLEAN \ {qvac.query} : Qvac([qvac EXCEPT !.query = typed])

(* Enter does not look at chatLoading, which disables only the button.     *)
handleLocalChat ==
  /\ qvac.query /\ Acts
  /\ Qvac([qvac EXCEPT !.chatLoading = TRUE, !.asks = @ + 1,
                       !.calls = @ \cup {[ask |-> qvac.asks + 1, of |-> qvac.source, stage |-> "route"]}])

(* A call that is lost is answered from the patterns of when it was made.  *)
Answer(call, by) == [ask |-> call.ask, of |-> call.of, by |-> by, seen |-> qvac.asks]
Bug_silent_catch(call, out) == IF out = "lost" THEN qvac.answer ELSE Answer(call, out)
ChatResponse(call, out) == Answer(call, IF out = "lost" THEN "patterns" ELSE out)
QvacStep ==
  /\ UNCHANGED acts
  /\ \E call \in qvac.calls : \E out \in Outcomes(ChatRoute, call) :
       IF out \in DOMAIN ChatRoute
       THEN Qvac([qvac EXCEPT !.calls = Moves(@, call, out)])
       ELSE Qvac([qvac EXCEPT !.calls = @ \ {call}, !.chatLoading = FALSE,
                              !.answer = ChatResponse(call, out)])

-----------------------------------------------------------------------------
(* ActivityPage.                                                           *)

Activity(state) ==
  /\ page = "activity" /\ activity' = state
  /\ UNCHANGED <<page, context, log, chat, qvac, swap, treasury>>

(* The effects of the last render: the first one subscribes to the log, and*)
(* every one replaces the timer of the previous vault.                     *)
Bug_first_vault_only == IF activity.subscribed THEN activity.timer ELSE vault
Timer == vault
Effects ==
  /\ activity.effect /\ UNCHANGED acts
  /\ Activity([activity EXCEPT !.effect = FALSE, !.timer = Timer, !.subscribed = TRUE,
                 !.joined = IF activity.subscribed THEN @ ELSE Written])
  /\ listeners' = IF activity.subscribed THEN listeners ELSE listeners + 1

(* The panel of the insight, which stays while another is generated.       *)
InsightPanel ==
  [text |-> IF activity.insight # NoInsight THEN "insight" ELSE IF activity.loadingInsight THEN "generating"
            ELSE IF vault = 0 THEN "connect" ELSE "nothing",
   refresh |-> ~activity.loadingInsight /\ vault # 0]

fetchInsight(version) ==
  [activity EXCEPT !.loadingInsight = TRUE, !.asked = version, !.asks = @ + 1,
     !.calls = @ \cup {[ask |-> activity.asks + 1, of |-> version, stage |-> "route"]}]
TimerFires ==
  /\ activity.timer # 0 /\ UNCHANGED <<listeners, acts>>
  /\ Activity([fetchInsight(activity.timer) EXCEPT !.timer = 0])
Refresh ==
  /\ InsightPanel.refresh /\ Acts
  /\ Activity(fetchInsight(vault)) /\ UNCHANGED listeners

(* What is lost is not mentioned.                                          *)
Shown(call, by) ==
  [activity EXCEPT !.calls = @ \ {call}, !.loadingInsight = FALSE,
     !.insight = IF by = "lost" THEN @ ELSE [ask |-> call.ask, of |-> call.of, seen |-> activity.asks],
     !.lost = IF by = "lost" THEN @ \cup {call.ask} ELSE {}]
InsightStep ==
  /\ UNCHANGED <<listeners, acts>>
  /\ \E call \in activity.calls : \E out \in Outcomes(InsightsRoute, call) :
       Activity(IF out \in DOMAIN InsightsRoute
                THEN [activity EXCEPT !.calls = Moves(@, call, out)] ELSE Shown(call, out))

-----------------------------------------------------------------------------
(* JupiterPage.                                                            *)

Jupiter(state) ==
  /\ page = "jupiter" /\ swap' = state
  /\ UNCHANGED <<page, context, log, listeners, chat, qvac, activity, treasury>>

(* The form can be edited at any time, and an edit leaves the quote.  Only *)
(* the tokens other than the one to sell are offered to buy.               *)
Edit(form) ==
  /\ form # swap.form /\ (form.to # swap.form.to => form.to # form.from)
  /\ Acts /\ Jupiter([swap EXCEPT !.form = form, !.drifted = TRUE])
(* A flip takes the quote off the screen, but not one that is under way.   *)
Flipped == [swap EXCEPT !.form.from = swap.form.to, !.form.to = swap.form.from,
                        !.drifted = swap.quoteLoading]
Bug_flip_keeps == Flipped
FlippedForm == [Flipped EXCEPT !.quote = NoQuote]
Flip == Acts /\ Jupiter(FlippedForm)

Bug_asks_again == swap.form.amount # "empty"
MayQuote == swap.form.amount # "empty" /\ ~swap.quoteLoading
getQuote ==
  /\ MayQuote /\ swap.form.amount = "some" /\ Acts
  /\ Jupiter([swap EXCEPT !.quoteLoading = TRUE, !.quote = NoQuote, !.asks = @ + 1, !.drifted = FALSE,
                          !.calls = @ \cup {[ask |-> swap.asks + 1, form |-> swap.form]}])
(* fetchSwapQuote answers null for everything that goes wrong.             *)
QuoteLands ==
  /\ UNCHANGED acts
  /\ \E call \in swap.calls : \E quote \in {call, NoQuote} :
       Jupiter([swap EXCEPT !.calls = @ \ {call}, !.quoteLoading = FALSE, !.quote = quote])

(* The card labels the quoted amount with the form of now.                 *)
QuoteCard ==
  IF swap.quote = NoQuote THEN {}
  ELSE {[ask |-> swap.quote.ask, quoted |-> swap.quote.form, token |-> swap.form.to, slippage |-> swap.form.slippage]}

(* The message goes after 6 seconds, each press with a timer of its own.   *)
handleSwap ==
  /\ QuoteCard # {} /\ Acts
  /\ Jupiter([swap EXCEPT !.feedback = TRUE, !.locks = @ + 1])
FeedbackEnds ==
  /\ swap.locks > 0 /\ UNCHANGED acts
  /\ Jupiter([swap EXCEPT !.feedback = FALSE, !.locks = @ - 1])

(* The interval of 30 seconds does not look at priceLoading, but a fetch   *)
(* ends within 8; the button does.                                         *)
PriceCards == IF swap.priceLoading THEN "skeletons" ELSE swap.prices
loadPrices ==
  /\ \/ swap.loads < 2 /\ UNCHANGED acts
     \/ ~swap.priceLoading /\ Acts
  /\ Jupiter([swap EXCEPT !.priceLoading = TRUE, !.loads = @ + 1])
PricesLand ==
  /\ swap.loads > 0 /\ UNCHANGED acts
  /\ \E prices \in {"live", "fallback"} :
       Jupiter([swap EXCEPT !.loads = @ - 1, !.priceLoading = FALSE, !.prices = prices])

-----------------------------------------------------------------------------
(* TreasuryPage, useTreasury and TagModal.                                 *)

TreasuryPage(state) ==
  /\ page = "treasury" /\ treasury' = state
  /\ UNCHANGED <<page, context, log, listeners, chat, qvac, activity, swap>>

(* The header: the range selector and "Refresh" are disabled while a run   *)
(* loads, which the calls of a tag or of insights do not.                  *)
isBusy == treasury.isIngesting \/ treasury.isAnalyzing
RangeSelector == IF isBusy THEN {} ELSE Ranges
Header ==
  [ranges   |-> RangeSelector,
   insights |-> treasury.analysis # NoAnalysis /\ ~treasury.isGeneratingInsights,
   refresh  |-> CASE treasury.isIngesting -> "Fetching"
                  [] ~treasury.isIngesting /\ treasury.isAnalyzing -> "Analyzing"
                  [] ~isBusy -> "Refresh"]

(* The ledger card, and the card of the spend beside it.                   *)
Tabs == {"transactions", "recurring", "insights"}
setActiveTab(tab) ==
  /\ treasury.analysis # NoAnalysis /\ tab # treasury.tab /\ Acts
  /\ TreasuryPage([treasury EXCEPT !.tab = tab])
TransactionsTab ==
  IF treasury.isAnalyzing THEN "skeletons"
  ELSE IF treasury.analysis.found = "nothing" THEN "expand" ELSE "rows"
RecurringTab ==
  IF treasury.analysis.found = "patterns" THEN "rows"
  ELSE IF treasury.range \in Short THEN "longer" ELSE "nothing"
InsightsTab ==
  IF treasury.isGeneratingInsights THEN "spinner"
  ELSE IF treasury.analysis.insights THEN "cards" ELSE "generate"
Content ==
  CASE treasury.analysis = NoAnalysis -> "none"
    [] treasury.analysis # NoAnalysis ->
         CASE treasury.tab = "transactions" -> TransactionsTab
           [] treasury.tab = "recurring"    -> RecurringTab
           [] treasury.tab = "insights"     -> InsightsTab
SpendByCategory ==
  IF treasury.analysis = NoAnalysis THEN "none" ELSE IF treasury.analysis.spent THEN "bars" ELSE "expand"

(* The ranges that empty cards offer, also while a run loads.              *)
EmptyStates ==
  {range \in {All} \ {treasury.range} : "expand" \in {Content, SpendByCategory}}
    \cup {range \in {Longer} : Content = "longer"}
handleRangeChange(range) ==
  /\ range \in Header.ranges \cup EmptyStates /\ Acts
  /\ TreasuryPage(runFullAnalysis(treasury, range))

(* Asking for insights takes an error off the screen.                      *)
generateInsights ==
  /\ Header.insights \/ Content = "generate"
  /\ Acts
  /\ TreasuryPage([treasury EXCEPT !.isGeneratingInsights = TRUE, !.error = FALSE,
       !.calls = @ \cup {[ask |-> treasury.asks, tag |-> FALSE, stage |-> "insights", range |-> treasury.range]}])

(* What the rows, those of transactions under their tab, and the prompt    *)
(* above the tabs offer to classify.  For which of them the dialog is open  *)
(* (the keyboard can change it) is left out.                               *)
TxRows == IF Content = "rows" /\ treasury.tab = "transactions" THEN {"row"} ELSE {}
Items == TxRows \cup (IF treasury.analysis.found = "patterns" THEN {"pattern"} ELSE {})
setTagTarget ==
  /\ Items # {} /\ ~treasury.target /\ Acts
  /\ TreasuryPage([treasury EXCEPT !.target = TRUE])
TagModal == IF ~treasury.target THEN "closed" ELSE IF treasury.done THEN "saved" ELSE "form"
setSelected ==
  /\ TagModal = "form" /\ ~treasury.selected /\ UNCHANGED acts
  /\ TreasuryPage([treasury EXCEPT !.selected = TRUE])
onClose ==
  /\ TagModal # "closed" /\ UNCHANGED acts
  /\ TreasuryPage([treasury EXCEPT !.target = FALSE])
(* The dialog goes on when it is closed over a tag under way; what it has  *)
(* selected and that it is done it keeps for the next item.                *)
Bug_first_range == Month
ActiveRange == treasury.range
handleSubmit ==
  /\ TagModal = "form" /\ treasury.selected /\ ~treasury.submitting /\ Acts
  /\ TreasuryPage([treasury EXCEPT !.submitting = TRUE,
       !.calls = @ \cup {[ask |-> treasury.asks, tag |-> TRUE, stage |-> "tag", range |-> ActiveRange]}])
ModalTimer ==
  /\ treasury.closing > 0 /\ UNCHANGED acts
  /\ TreasuryPage([treasury EXCEPT !.closing = @ - 1, !.target = FALSE])

(* submitTag says nothing of a failure: "Tag saved" follows either way.    *)
submitTagEnds(state, call) ==
  IF call.tag
  THEN [state EXCEPT !.target = FALSE, !.done = TRUE, !.closing = @ + 1, !.submitting = FALSE]
  ELSE state
Ended(call) == [treasury EXCEPT !.calls = @ \ {call}]
Proceeds(call) ==
  [treasury EXCEPT !.calls = (@ \ {call}) \cup {[call EXCEPT !.stage = "analyze"]},
                   !.isIngesting = IF call.tag THEN @ ELSE FALSE, !.isAnalyzing = TRUE,
                   !.error = FALSE]
Listed(authors) == {by # "none" : by \in authors}
AnalysisLands(call, found, spent, insights) ==
  submitTagEnds([Ended(call) EXCEPT !.isAnalyzing = FALSE, !.failed = {},
                   !.analysis = [ask |-> call.ask, seen |-> treasury.asks, range |-> call.range,
                                 found |-> found, spent |-> spent, insights |-> insights]], call)
Failed(state) == [state EXCEPT !.error = TRUE]
CallFails(call) ==
  IF call.stage = "insights" THEN [Failed(Ended(call)) EXCEPT !.isGeneratingInsights = FALSE]
  ELSE submitTagEnds([Failed(Ended(call)) EXCEPT
                        !.failed = IF call.tag THEN @ ELSE @ \cup {call.ask},
                        !.isIngesting = IF call.stage = "ingest" THEN FALSE ELSE @,
                        !.isAnalyzing = IF call.stage = "analyze" THEN FALSE ELSE @], call)
InsightsLand(call, insights) ==
  [Ended(call) EXCEPT !.isGeneratingInsights = FALSE, !.analysis.insights = insights]
TreasuryStep ==
  /\ UNCHANGED acts
  /\ \E call \in treasury.calls :
       \/ TreasuryPage(CallFails(call))
       \/ call.stage \in {"ingest", "tag"} /\ TreasuryPage(Proceeds(call))
       \/ /\ call.stage = "analyze"
          /\ \E insights \in Listed(AnalysisRoute) :
               \/ TreasuryPage(AnalysisLands(call, "nothing", FALSE, insights))
               \/ \E found \in {"transactions", "patterns"}, spent \in BOOLEAN :
                    TreasuryPage(AnalysisLands(call, found, spent, insights))
       \/ /\ call.stage = "insights"
          /\ \E insights \in Listed(InsightsPost \ {"refused"}) : TreasuryPage(InsightsLand(call, insights))

-----------------------------------------------------------------------------

Init ==
  /\ page = "other" /\ vault = 0 /\ versions = 0 /\ isLoading = FALSE /\ ready = FALSE
  /\ log = Seeds /\ listeners = 0 /\ acts = 0
  /\ chat = NewChat /\ qvac = NewQvac /\ activity = NewActivity /\ swap = NewSwap
  /\ treasury = NewTreasury

User ==
  \/ \E p \in Pages : Open(p)
  \/ TypeMessage \/ sendMessage \/ TypeQuery \/ handleLocalChat
  \/ \E category \in Range(Categories) : setFilterCat(category)
  \/ \E file \in DOMAIN Files : handleFileUpload(file)
  \/ Refresh \/ (\E form \in Form : Edit(form)) \/ Flip \/ getQuote \/ handleSwap
  \/ \E range \in Ranges : handleRangeChange(range)
  \/ generateInsights \/ (\E tab \in Tabs : setActiveTab(tab)) \/ setTagTarget
  \/ setSelected \/ onClose \/ handleSubmit

Next ==
  \/ User \/ appendLog \/ LoadBegins \/ VaultChanges \/ LoadFails
  \/ ChatStep \/ QvacStep \/ InsightStep \/ QuoteLands \/ PricesLand \/ TreasuryStep
  \/ \E upload \in qvac.uploads : Read(upload) \/ Parsed(upload)
  \/ Effects \/ TimerFires \/ loadPrices \/ FeedbackEnds \/ ModalTimer

(* Timers fire and effects run.  A request is answered or rejected: most   *)
(* calls of models and those of Jupiter are aborted after 8 to 12 seconds, *)
(* and what the server awaits besides them is answered or fails.           *)
Fairness ==
  /\ WF_vars(ChatStep) /\ WF_vars(QvacStep) /\ WF_vars(InsightStep)
  /\ WF_vars(QuoteLands) /\ WF_vars(PricesLand) /\ WF_vars(TreasuryStep)
  /\ WF_vars(Effects) /\ WF_vars(TimerFires) /\ WF_vars(FeedbackEnds)

Spec == Init /\ [][Next]_vars /\ Fairness

-----------------------------------------------------------------------------

(* Every variable stays within its type; in particular the log never has   *)
(* more than one listener, however often its page is opened and left.      *)
Turn == [role : {"assistant", "user"}, of : 0..MaxActs,
         by : {"greeting", "user", "model", "fallback", "lost"}]
Quote == [ask : 0..MaxActs, form : Form]
LogEntry == [no : 1..MaxLogged, timestamp : 1..MaxLogged]
AdvisorsTypeOK ==
  /\ page \in Pages /\ vault \in {0, versions} /\ versions \in 0..MaxVaults
  /\ isLoading \in BOOLEAN /\ ready \in BOOLEAN
  /\ log \in Seq(LogEntry) /\ Len(log) \in 1..Kept /\ listeners \in {0, 1}
  /\ chat.turns \in Seq(Turn) /\ {chat.input, chat.loading} \subseteq BOOLEAN
  /\ \A call \in chat.calls : call.of \in 1..MaxActs /\ call.stage \in DOMAIN ChatRoute
  /\ qvac.source \in Sources /\ qvac.fileName \in DOMAIN Files \cup {"none"}
  /\ qvac.filter \in Range(Categories) \cup {"all"} /\ {qvac.processing, qvac.query, qvac.chatLoading} \subseteq BOOLEAN
  /\ qvac.uploads \subseteq [id : 0..MaxActs, file : DOMAIN Files, read : BOOLEAN]
  /\ qvac.answer \in [ask : Nat, of : Sources, by : {"none", "model", "fallback", "patterns"}, seen : Nat]
  /\ qvac.calls \subseteq [ask : Nat, of : Sources, stage : DOMAIN ChatRoute]
  /\ activity.feed \in Seq(LogEntry)
  /\ {activity.timer, activity.asked, activity.insight.of} \subseteq 0..versions
  /\ {activity.subscribed, activity.effect, activity.loadingInsight} \subseteq BOOLEAN
  /\ activity.calls \subseteq [ask : Nat, of : 1..versions, stage : DOMAIN InsightsRoute]
  /\ swap.form \in Form /\ swap.quote \in Quote /\ swap.calls \subseteq Quote
  /\ {swap.quoteLoading, swap.priceLoading, swap.feedback} \subseteq BOOLEAN
  /\ swap.prices \in {"none", "live", "fallback"} /\ swap.loads \in 0..3 /\ swap.locks \in 0..MaxActs
  /\ treasury.range \in Ranges
  /\ treasury.analysis \in [ask : Nat, seen : Nat, range : Ranges, spent : BOOLEAN, insights : BOOLEAN,
                            found : {"none", "nothing", "transactions", "patterns"}]
  /\ treasury.tab \in Tabs
  /\ {treasury.isIngesting, treasury.isAnalyzing, treasury.isGeneratingInsights, treasury.error,
      treasury.selected, treasury.submitting, treasury.done} \subseteq BOOLEAN
  /\ treasury.calls \subseteq [ask : Nat, tag : BOOLEAN, range : Ranges,
                               stage : {"ingest", "tag", "analyze", "insights"}]
  /\ treasury.target \in BOOLEAN /\ treasury.closing \in 0..1
  /\ acts \in 0..MaxActs

(* On screen question and answer alternate, each answer under its own      *)
(* question and the last one possibly still three dots, whatever loads     *)
(* unmounted the panel meanwhile.                                          *)
TurnsMatch ==
  /\ Len(Bubbles) % 2 = 1
  /\ \A i \in DOMAIN Bubbles :
       LET b == Bubbles[i] IN
       IF i % 2 = 0 THEN b.role = "user" /\ b.of = i \div 2
       ELSE b.role = "assistant" /\ (b.by = "dots" \/ b.of = i \div 2)

(* An answer on screen is the one that landed last, so it may be older than*)
(* the last ask.  But whatever was asked after it had landed is either     *)
(* still awaited or was lost: only an ask made while it was under way can  *)
(* have been answered before it.                                           *)
OutrunOnly(shown, asks, awaited, lost) ==
  /\ shown.ask <= shown.seen
  /\ \A n \in 1..asks : n > shown.seen => n \in awaited \cup lost
Awaited(calls) == {call.ask : call \in calls}

(* QVAC's answer is to the last question, but for questions under way and  *)
(* for an older one that overlapped the last and landed after it; an answer*)
(* to whatever was asked since the statement on screen came is about that  *)
(* statement; and the three dots stand for the last question, though they  *)
(* may go before its answer comes.                                         *)
AnswerIsLast ==
  /\ OutrunOnly(qvac.answer, qvac.asks, Awaited(qvac.calls), {})
  /\ qvac.answer.ask > qvac.replaced => qvac.answer.of = qvac.source
  /\ qvac.chatLoading => qvac.asks \in Awaited(qvac.calls)

(* The vault on the activity page has been asked an insight for, or will   *)
(* be; the one on screen is for the last vault asked for, unless that ask  *)
(* is under way, was lost, or was outrun by an older one it overlapped.    *)
InsightIsLast ==
  /\ OutrunOnly(activity.insight, activity.asks, Awaited(activity.calls), activity.lost)
  /\ activity.insight.ask = activity.asks => activity.insight.of = activity.asked
  /\ page = "activity" /\ vault # 0 => activity.effect \/ vault \in {activity.timer, activity.asked}

(* A quote on screen, which is what "Execute Swap" locks, answers the last *)
(* request for one, and no later request is under way; it is for the form  *)
(* it is labelled with, unless the form was edited since, or flipped while *)
(* the quote was under way.                                                *)
QuoteIsLatest ==
  \A card \in QuoteCard :
    /\ card.ask = swap.asks /\ ~swap.quoteLoading /\ swap.calls = {}
    /\ ~swap.drifted => card.quoted = swap.form

(* The cards and patterns QVAC shows and sends account for every cent and  *)
(* every recurring row of the table; the list is empty only under a filter *)
(* left from another statement; and the zone says "demo" only over the     *)
(* demonstration's rows.                                                   *)
Sums(S, Of(_)) == SumFunctionOnSet([x \in S |-> Of(x)], S)
Accounts(rows) ==
  LET told == Context(rows)
      kpis == Kpis(rows)
      Amount(x) == x.total
      Count(x) == x.txCount IN
  /\ Sums(told.cards, Amount) = Total(rows, DOMAIN rows)
  /\ Sums(told.recurring, Count) = Cardinality({i \in DOMAIN rows : rows[i].period # "never"})
  /\ kpis.recurring = Cardinality(told.recurring) /\ kpis.categorized <= kpis.transactions
Accounted == {source \in Sources : Accounts(Transactions(source))}
ContextAccounts ==
  /\ qvac.source \in Accounted
  /\ qvac.filter \in Offered[qvac.source] \cup {"all"} => TransactionList.rows # {}
  /\ UploadZone = "demo" => qvac.source = "demo"

(* The treasury page turns for work that is under way, generates one list  *)
(* of insights at a time and saves one tag.  The analysis it shows has the *)
(* range it is labelled with, unless a later run is under way, failed or   *)
(* was outrun by an older run, or an older tag's, that it overlapped; and  *)
(* while there is none, a run is under way or an error on screen.          *)
Calls(stages) == {call \in treasury.calls : call.stage \in stages}
TagCalls == {call \in treasury.calls : call.tag}
Runs == {call \in Calls({"ingest", "analyze"}) : ~call.tag}
TreasuryWorks ==
  /\ treasury.isIngesting => Calls({"ingest"}) # {}
  /\ treasury.isAnalyzing => Calls({"analyze"}) # {}
  /\ Cardinality(Calls({"insights"})) = IF treasury.isGeneratingInsights THEN 1 ELSE 0
  /\ Cardinality(TagCalls) = IF treasury.submitting THEN 1 ELSE 0
  /\ OutrunOnly(treasury.analysis, treasury.asks, Awaited(Runs), treasury.failed)
  /\ treasury.analysis.ask = treasury.asks => treasury.analysis.range = treasury.range
  /\ page = "treasury" /\ treasury.analysis = NoAnalysis =>
       treasury.error \/ (isBusy /\ Cardinality(treasury.calls) = 1)

(* Asks overlap, are lost, and are interrupted by loads and by leaving; a  *)
(* page that shows the answer that landed last shows an older one only     *)
(* where the asks overlapped, and only as AnswerIsLast, InsightIsLast,     *)
(* QuoteIsLatest and TreasuryWorks say.                                    *)
AnswersMatch ==
  /\ TurnsMatch /\ ContextAccounts
  /\ AnswerIsLast /\ InsightIsLast /\ QuoteIsLatest /\ TreasuryWorks

(* The log holds the newest of what was appended, newest first, and after  *)
(* it as many of its seeds as there is room for, the first of them: of the *)
(* seeds the newest goes first.  Once the activity page listens, its feed  *)
(* has the entries of the log; all it may lack, until the next entry, is   *)
(* what was written between its first render and its effect.  And the feed *)
(* is in the order of writing, newest first, which the log is not, also    *)
(* where several entries were written within one second.                   *)
Appended == Written - Len(Seeds)
FeedFollowsLog ==
  /\ \A i \in 1..Len(log) :
       log[i].no = IF i <= Appended THEN Written - i + 1 ELSE i - Appended
  /\ Len(log) = IF Written < Kept THEN Written ELSE Kept
  /\ listeners = IF activity.subscribed THEN 1 ELSE 0
  /\ activity.subscribed => Range(activity.feed) = Range(log) \/ Written = activity.joined
  /\ \A i, j \in DOMAIN activity.feed : i < j => activity.feed[i].no > activity.feed[j].no

(* Whatever models, networks and the user do, no page waits for ever, and  *)
(* a vault the activity page goes on showing is asked an insight for.      *)
WaitingEnds ==
  /\ chat.loading ~> ~chat.loading
  /\ qvac.chatLoading ~> ~qvac.chatLoading
  /\ activity.loadingInsight ~> ~activity.loadingInsight
  /\ swap.quoteLoading ~> ~swap.quoteLoading
  /\ isBusy ~> ~isBusy
  /\ treasury.isGeneratingInsights ~> ~treasury.isGeneratingInsights
  /\ treasury.submitting ~> ~treasury.submitting
  /\ (page = "jupiter" /\ PriceCards = "skeletons") ~> (page # "jupiter" \/ PriceCards # "skeletons")
  /\ \A v \in 1..MaxVaults :
       (page = "activity" /\ vault = v) ~> (page # "activity" \/ vault # v \/ activity.asked = v)

=============================================================================
