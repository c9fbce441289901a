-------------------------- MODULE Advisors_proofs --------------------------
(***************************************************************************)
(* Proofs about Advisors, page by page: of each page's state an invariant  *)
(* that its own actions keep and that leaving, loading and the log keep    *)
(* too.  The pages share the log, the context's vault and the count of     *)
(* what the user did.                                                      *)
(***************************************************************************)
EXTENDS Advisors, Integers, SumLemmas

-----------------------------------------------------------------------------
(* The states of the pages.                                                *)

ChatStages == {"route", "responses", "completions"}
InsightStages == {"route", "claude", "gpt"}
Authors == {"model", "fallback", "lost"}
ChatState ==
  [turns : Seq(Turn), input : BOOLEAN, loading : BOOLEAN,
   calls : SUBSET [of : 1..MaxActs, stage : ChatStages]]
QvacState ==
  [source : Sources, fileName : DOMAIN Files \cup {"none"}, processing : BOOLEAN,
   uploads : SUBSET [id : 0..MaxActs, file : DOMAIN Files, read : BOOLEAN],
   filter : Range(Categories) \cup {"all"}, query : BOOLEAN,
   answer : [ask : Nat, of : Sources, by : {"none", "model", "fallback", "patterns"}, seen : Nat],
   chatLoading : BOOLEAN, calls : SUBSET [ask : Nat, of : Sources, stage : ChatStages],
   asks : Nat, replaced : Nat]
InsightCall(v) == [ask : Nat, of : 1..v, stage : InsightStages]
ActivityState(v) ==
  [feed : Seq(LogEntry), joined : Nat, subscribed : BOOLEAN, effect : BOOLEAN, timer : 0..v,
   asks : Nat, asked : 0..v, insight : [ask : Nat, of : 0..v, seen : Nat], loadingInsight : BOOLEAN,
   calls : SUBSET InsightCall(v), lost : SUBSET Nat]
SwapState ==
  [form : Form, quote : Quote, quoteLoading : BOOLEAN, asks : Nat, calls : SUBSET Quote, drifted : BOOLEAN,
   priceLoading : BOOLEAN, prices : {"none", "live", "fallback"}, loads : 0..3, locks : Nat,
   feedback : BOOLEAN]
Analysis == [ask : Nat, seen : Nat, range : Ranges, found : {"none", "nothing", "transactions", "patterns"},
             spent : BOOLEAN, insights : BOOLEAN]
TreasuryCall == [ask : Nat, tag : BOOLEAN, stage : {"ingest", "tag", "analyze", "insights"}, range : Ranges]
TreasuryState ==
  [range : Ranges, analysis : Analysis, isIngesting : BOOLEAN, isAnalyzing : BOOLEAN,
   isGeneratingInsights : BOOLEAN, error : BOOLEAN, calls : SUBSET TreasuryCall,
   asks : Nat, failed : SUBSET Nat, tab : Tabs, target : BOOLEAN, selected : BOOLEAN, submitting : BOOLEAN,
   done : BOOLEAN, closing : 0..1]

LEMMA Parameters ==
  /\ MaxRows \in Nat /\ Kept \in Nat /\ Kept >= 4 /\ MaxActs \in Nat /\ MaxVaults \in Nat
  /\ MaxLogged \in Nat /\ MaxLogged >= 4 /\ Len(Seeds) = 4 /\ Month \in Ranges /\ All \in Ranges /\ Longer \in Ranges
BY AdvisorsAssumption DEF Seeds

(* The stages of a request.                                                *)
LEMMA ChatOutcomes ==
  /\ DOMAIN ChatRoute = ChatStages
  /\ \A call : call.stage \in ChatStages => Outcomes(ChatRoute, call) \subseteq ChatStages \cup Authors
BY DEF ChatRoute, Responses, Completions, deterministicResponse, Outcomes, ChatStages, Authors

LEMMA InsightOutcomes ==
  /\ DOMAIN InsightsRoute = InsightStages
  /\ \A call : call.stage \in InsightStages =>
       Outcomes(InsightsRoute, call) \subseteq InsightStages \cup Authors
BY DEF InsightsRoute, Claude, Gpt, deterministicFallback, Outcomes, InsightStages, Authors

LEMMA NoFormIsForm == NoForm \in Form
<1>1. PICK a \in Tokens, b \in Tokens, s \in Slippages : a # b
  BY AdvisorsAssumption
<1> DEFINE f == [from |-> a, to |-> b, slippage |-> s, amount |-> "empty"]
<1>2. f \in Form /\ f.from # f.to /\ f.amount = "empty"
  BY <1>1 DEF Form
<1> HIDE DEF f
<1> QED BY <1>2 DEF NoForm

-----------------------------------------------------------------------------
(* What each step does to each page.                                       *)

(* A page is left or opened.                                               *)
Moved == \E p \in Pages : Mounts(p)

LEMMA ActsGrow ==
  ASSUME [Next]_vars, acts \in 0..MaxActs
  PROVE  acts' \in 0..MaxActs /\ acts <= acts'
<1>1. acts' = acts \/ Acts
  BY DEF Next, User, vars, Open, TypeMessage, sendMessage, TypeQuery, handleLocalChat, setFilterCat,
     handleFileUpload, Refresh, Edit, Flip, getQuote, handleSwap, handleRangeChange, generateInsights,
     setActiveTab, setTagTarget, setSelected, onClose, handleSubmit, appendLog, LoadBegins, VaultChanges,
     LoadFails, ChatStep, QvacStep, InsightStep, QuoteLands, PricesLand, TreasuryStep, Read, Parsed,
     Effects, TimerFires, loadPrices, FeedbackEnds, ModalTimer
<1> QED BY <1>1, Parameters DEF Acts

LEMMA ChatSteps ==
  ASSUME [Next]_vars
  PROVE  chat' = chat \/ chat' = NewChat \/ TypeMessage \/ sendMessage \/ ChatStep
BY DEF Next, User, vars, pages, Open, Mounts, TypeQuery, handleLocalChat, setFilterCat, handleFileUpload,
   Refresh, Edit, Flip, getQuote, handleSwap, handleRangeChange, generateInsights, setActiveTab,
   setTagTarget, setSelected, onClose, handleSubmit, appendLog, LoadBegins, VaultChanges, LoadFails,
   QvacStep, InsightStep, QuoteLands, PricesLand, TreasuryStep, Read, Parsed, Effects, TimerFires,
   loadPrices, FeedbackEnds, ModalTimer, Qvac, Activity, Jupiter, TreasuryPage

LEMMA QvacSteps ==
  ASSUME [Next]_vars
  PROVE  \/ qvac' = qvac \/ qvac' = NewQvac \/ TypeQuery \/ handleLocalChat \/ QvacStep
         \/ \E category \in Range(Categories) : setFilterCat(category)
         \/ \E file \in DOMAIN Files : handleFileUpload(file)
         \/ \E upload \in qvac.uploads : Read(upload) \/ Parsed(upload)
BY DEF Next, User, vars, pages, Open, Mounts, TypeMessage, sendMessage, Refresh, Edit, Flip, getQuote,
   handleSwap, handleRangeChange, generateInsights, setActiveTab, setTagTarget, setSelected, onClose,
   handleSubmit, appendLog, LoadBegins, VaultChanges, LoadFails, ChatStep, InsightStep, QuoteLands,
   PricesLand, TreasuryStep, Effects, TimerFires, loadPrices, FeedbackEnds, ModalTimer, Activity, Jupiter,
   TreasuryPage

LEMMA SwapSteps ==
  ASSUME [Next]_vars
  PROVE  \/ swap' = swap \/ swap' \in {NewSwap, [NewSwap EXCEPT !.loads = 1]}
         \/ \E form \in Form : Edit(form)
         \/ Flip \/ getQuote \/ handleSwap \/ QuoteLands \/ PricesLand \/ loadPrices \/ FeedbackEnds
BY DEF Next, User, vars, pages, Open, Mounts, TypeMessage, sendMessage, TypeQuery, handleLocalChat,
   setFilterCat, handleFileUpload, Refresh, handleRangeChange, generateInsights, setActiveTab,
   setTagTarget, setSelected, onClose, handleSubmit, appendLog, LoadBegins, VaultChanges, LoadFails,
   ChatStep, QvacStep, InsightStep, TreasuryStep, Read, Parsed, Effects, TimerFires, ModalTimer, Qvac,
   Activity, TreasuryPage

LEMMA TreasurySteps ==
  ASSUME [Next]_vars
  PROVE  \/ treasury' = treasury /\ page' = page
         \/ treasury' = NewTreasury /\ page' # "treasury"
         \/ treasury' = runFullAnalysis(NewTreasury, Month)
         \/ \E range \in Ranges : handleRangeChange(range)
         \/ \E tab \in Tabs : setActiveTab(tab)
         \/ generateInsights \/ setTagTarget \/ setSelected \/ onClose \/ handleSubmit \/ TreasuryStep
         \/ ModalTimer
BY DEF Next, User, vars, pages, Open, Mounts, TypeMessage, sendMessage, TypeQuery, handleLocalChat,
   setFilterCat, handleFileUpload, Refresh, Edit, Flip, getQuote, handleSwap, appendLog, LoadBegins,
   VaultChanges, LoadFails, ChatStep, QvacStep, InsightStep, QuoteLands, PricesLand, Read, Parsed, Effects,
   TimerFires, loadPrices, FeedbackEnds, Qvac, Activity, Jupiter

(* The activity page, its log and its listeners, and the context.          *)
Left ==
  /\ listeners' = Unsubscribed /\ log' = log
  /\ \/ activity' = NewActivity /\ page' # "activity"
     \/ activity' = [NewActivity EXCEPT !.feed = getLog(log), !.effect = TRUE]
LEMMA ActivitySteps ==
  ASSUME [Next]_vars
  PROVE  \/ UNCHANGED <<page, activity, log, listeners, vault, versions>>
         \/ Left /\ UNCHANGED <<vault, versions>>
         \/ appendLog \/ LoadBegins \/ VaultChanges \/ Effects \/ TimerFires \/ Refresh \/ InsightStep
BY DEF Next, User, vars, pages, context, Open, Mounts, Left, TypeMessage, sendMessage, TypeQuery,
   handleLocalChat, setFilterCat, handleFileUpload, Edit, Flip, getQuote, handleSwap, handleRangeChange,
   generateInsights, setActiveTab, setTagTarget, setSelected, onClose, handleSubmit, LoadFails, ChatStep,
   QvacStep, QuoteLands, PricesLand, TreasuryStep, Read, Parsed, loadPrices, FeedbackEnds, ModalTimer, Qvac,
   Jupiter, TreasuryPage

-----------------------------------------------------------------------------
(* The chat.                                                               *)

(* There is one call while the chat loads, for the last question asked,    *)
(* and none otherwise; every turn is in its place.                         *)
TurnAt(t, i) ==
  IF i % 2 = 0 THEN t.role = "user" /\ t.of = i \div 2 ELSE t.role = "assistant" /\ t.of = i \div 2
ChatInv ==
  /\ chat \in ChatState
  /\ chat.loading <=> chat.calls # {}
  /\ \A call \in chat.calls : call.of = Questions(chat.turns) /\ chat.calls = {call}
  /\ Len(chat.turns) = 2 * Questions(chat.turns) + (IF chat.loading THEN 0 ELSE 1)
  /\ Questions(chat.turns) \in 0..acts
  /\ \A i \in 1..Len(chat.turns) : TurnAt(chat.turns[i], i)

LEMMA QuestionsIsNat == ASSUME NEW turns \in Seq(Turn) PROVE Questions(turns) \in Nat
<1>1. IsFiniteSet(1..Len(turns))
  BY FS_Interval
<1>2. IsFiniteSet({i \in DOMAIN turns : turns[i].role = "user"})
  BY <1>1, FS_Subset
<1> QED BY <1>2, FS_CardinalityType DEF Questions

LEMMA AnotherTurn ==
  ASSUME NEW turns \in Seq(Turn), NEW t \in Turn
  PROVE  Questions(Append(turns, t)) = Questions(turns) + (IF t.role = "user" THEN 1 ELSE 0)
<1> DEFINE n == Len(turns)
           more == Append(turns, t)
           S == {i \in DOMAIN turns : turns[i].role = "user"}
           T == {i \in DOMAIN more : more[i].role = "user"}
<1>1. n \in Nat /\ DOMAIN turns = 1..n /\ DOMAIN more = 1..(n + 1) /\ more[n + 1] = t
      /\ \A i \in 1..n : more[i] = turns[i]
  OBVIOUS
<1>2. T = S \cup (IF t.role = "user" THEN {n + 1} ELSE {})
  <2> HIDE DEF more, n
  <2> QED BY <1>1
<1>3. IsFiniteSet(S) /\ n + 1 \notin S
  <2>1. IsFiniteSet(1..n)
    BY <1>1, FS_Interval
  <2> HIDE DEF n
  <2> QED BY <1>1, <2>1, FS_Subset
<1>4. Cardinality(S \cup {n + 1}) = Cardinality(S) + 1 /\ Cardinality(S) \in Nat
  <2> HIDE DEF S, n
  <2> QED BY <1>3, FS_AddElement, FS_CardinalityType
<1>5. Questions(turns) = Cardinality(S) /\ Questions(more) = Cardinality(T)
  BY DEF Questions
<1>6. CASE t.role = "user"
  BY <1>2, <1>4, <1>5, <1>6
<1>7. CASE t.role # "user"
  <2>1. T = S
    BY <1>2, <1>7
  <2> HIDE DEF S, T
  <2> QED BY <1>4, <1>5, <1>7, <2>1
<1> QED BY <1>6, <1>7

LEMMA NewChatIs ==
  /\ NewChat \in ChatState /\ NewChat.loading = FALSE /\ NewChat.calls = {}
  /\ Questions(NewChat.turns) = 0 /\ Len(NewChat.turns) = 1
  /\ \A i \in 1..Len(NewChat.turns) : TurnAt(NewChat.turns[i], i)
<1> DEFINE g == Says("assistant", 0, "greeting")
           turns == <<g>>
<1>1. g \in Turn /\ g.role = "assistant" /\ g.of = 0
  BY Parameters DEF Says, Turn
<1>2. turns \in Seq(Turn) /\ Len(turns) = 1 /\ turns[1] = g /\ DOMAIN turns = {1}
  BY <1>1
<1> HIDE DEF g
<1>3. Questions(turns) = 0
  <2>1. {i \in DOMAIN turns : turns[i].role = "user"} = {}
    BY <1>1, <1>2
  <2> QED BY <2>1, FS_EmptySet DEF Questions
<1>4. NewChat = [turns |-> turns, input |-> FALSE, loading |-> FALSE, calls |-> {}]
  BY DEF NewChat, g
<1> HIDE DEF turns
<1>5. NewChat \in ChatState /\ NewChat.turns = turns /\ NewChat.loading = FALSE /\ NewChat.calls = {}
  BY <1>2, <1>4 DEF ChatState
<1>6. \A i \in 1..Len(turns) : TurnAt(turns[i], i)
  BY <1>1, <1>2 DEF TurnAt
<1> QED BY <1>2, <1>3, <1>5, <1>6

LEMMA NewChatInv == ASSUME acts' \in Nat, chat' = NewChat PROVE ChatInv'
BY NewChatIs DEF ChatInv

LEMMA TypeMessageInv == ASSUME ChatInv, acts \in Nat, TypeMessage PROVE ChatInv'
<1>1. PICK typed \in BOOLEAN : chat' = [chat EXCEPT !.input = typed]
  BY DEF TypeMessage
<1>2. chat' \in ChatState /\ chat'.turns = chat.turns /\ chat'.loading = chat.loading /\ chat'.calls = chat.calls
  BY <1>1 DEF ChatInv, ChatState
<1>3. acts' = acts
  BY DEF TypeMessage
<1> QED BY <1>2, <1>3 DEF ChatInv

(* The turns of the question or of the answer that comes next.             *)
LEMMA NextTurn ==
  ASSUME ChatInv, NEW t \in Turn,
         TurnAt(t, Len(chat.turns) + 1)
  PROVE  \A i \in 1..Len(Append(chat.turns, t)) : TurnAt(Append(chat.turns, t)[i], i)
<1> DEFINE turns == chat.turns
<1>1. turns \in Seq(Turn)
  BY DEF ChatInv, ChatState
<1>2. Len(Append(turns, t)) = Len(turns) + 1 /\ Append(turns, t)[Len(turns) + 1] = t
      /\ \A i \in 1..Len(turns) : Append(turns, t)[i] = turns[i]
  BY <1>1
<1>3. Len(turns) \in Nat
  BY <1>1
<1> QED BY <1>2, <1>3 DEF ChatInv

LEMMA sendMessageInv == ASSUME ChatInv, acts \in 0..MaxActs, sendMessage PROVE ChatInv'
<1> DEFINE q == Questions(chat.turns)
           t == Says("user", q + 1, "user")
           call == [of |-> q + 1, stage |-> "route"]
<1>1. ~chat.loading /\ acts < MaxActs /\ acts' = acts + 1 /\ chat \in ChatState
      /\ chat.turns \in Seq(Turn)
  BY DEF sendMessage, MaySend, Acts, ChatInv, ChatState
<1>2. chat' = [chat EXCEPT !.turns = Append(@, t), !.input = FALSE, !.loading = TRUE, !.calls = @ \cup {call}]
  BY DEF sendMessage
<1>3. q \in 0..acts /\ chat.calls = {} /\ Len(chat.turns) = 2 * q + 1
  BY <1>1 DEF ChatInv
<1>4. q + 1 \in 1..MaxActs /\ q \in Nat /\ MaxActs \in Nat /\ acts \in Nat
  <2> HIDE DEF q
  <2> QED BY <1>1, <1>3, Parameters
<1> HIDE DEF q
<1>5. t \in Turn /\ t.role = "user" /\ t.of = q + 1
  BY <1>4 DEF Says, Turn
<1>6. call \in [of : 1..MaxActs, stage : ChatStages] /\ call.of = q + 1
  BY <1>4 DEF ChatStages
<1> HIDE DEF t, call
<1>7. chat' \in ChatState /\ chat'.turns = Append(chat.turns, t) /\ chat'.loading = TRUE /\ chat'.calls = {call}
  <2> DEFINE more == Append(chat.turns, t)
             calls == {call}
  <2>1. more \in Seq(Turn) /\ calls \in SUBSET [of : 1..MaxActs, stage : ChatStages]
    BY <1>1, <1>5, <1>6
  <2>2. chat' = [chat EXCEPT !.turns = more, !.input = FALSE, !.loading = TRUE, !.calls = calls]
    BY <1>2, <1>3
  <2> HIDE DEF more, calls
  <2>3. chat' \in ChatState /\ chat'.turns = more /\ chat'.loading = TRUE /\ chat'.calls = calls
    BY <1>1, <2>1, <2>2 DEF ChatState
  <2> QED BY <2>3 DEF more, calls
<1>8. Questions(Append(chat.turns, t)) = q + 1
  BY <1>1, <1>5, AnotherTurn DEF q
<1>9. TurnAt(t, Len(chat.turns) + 1)
  <2>1. Len(chat.turns) + 1 = 2 * (q + 1) /\ (2 * (q + 1)) % 2 = 0 /\ (2 * (q + 1)) \div 2 = q + 1
    BY <1>3, <1>4
  <2> QED BY <1>5, <2>1 DEF TurnAt
<1>10. Len(Append(chat.turns, t)) = 2 * (q + 1)
  BY <1>1, <1>3, <1>4
<1>11. \A i \in 1..Len(Append(chat.turns, t)) : TurnAt(Append(chat.turns, t)[i], i)
  BY <1>5, <1>9, NextTurn
<1>12. q + 1 \in 0..acts'
  BY <1>1, <1>3, <1>4
<1> QED BY <1>4, <1>6, <1>7, <1>8, <1>10, <1>11, <1>12 DEF ChatInv

LEMMA ChatStepInv == ASSUME ChatInv, acts \in 0..MaxActs, ChatStep PROVE ChatInv'
<1>0. PICK call \in chat.calls : \E out \in Outcomes(ChatRoute, call) :
        chat' = IF out \in DOMAIN ChatRoute THEN [chat EXCEPT !.calls = Moves(@, call, out)]
                ELSE Answered(call, out)
  BY DEF ChatStep
<1>1. PICK out \in Outcomes(ChatRoute, call) :
        chat' = IF out \in DOMAIN ChatRoute THEN [chat EXCEPT !.calls = Moves(@, call, out)]
                ELSE Answered(call, out)
  BY <1>0
<1> DEFINE q == Questions(chat.turns)
<1>2. /\ chat \in ChatState /\ chat.turns \in Seq(Turn) /\ chat.calls = {call} /\ chat.loading
      /\ call \in [of : 1..MaxActs, stage : ChatStages] /\ call.of = q /\ acts' = acts
      /\ q \in 0..acts /\ q \in Nat /\ Len(chat.turns) = 2 * q /\ q \in 0..MaxActs
  <2>1. chat \in ChatState /\ chat.turns \in Seq(Turn) /\ chat.calls = {call} /\ chat.loading
        /\ call.of = q /\ acts' = acts /\ q \in 0..acts
    BY DEF ChatInv, ChatState, ChatStep
  <2>2. call \in [of : 1..MaxActs, stage : ChatStages]
    BY <2>1 DEF ChatState
  <2>3. Len(chat.turns) = 2 * q + 0
    BY <2>1 DEF ChatInv
  <2> HIDE DEF q
  <2> QED BY <2>1, <2>2, <2>3, Parameters
<1>3. out \in ChatStages \cup Authors /\ DOMAIN ChatRoute = ChatStages
  BY <1>1, <1>2, ChatOutcomes
<1>4. CASE out \in ChatStages
  <2> DEFINE next == [call EXCEPT !.stage = out]
  <2>1. next \in [of : 1..MaxActs, stage : ChatStages] /\ next.of = q
    BY <1>2, <1>4
  <2>2. Moves(chat.calls, call, out) = {next}
    BY <1>2 DEF Moves
  <2> HIDE DEF next
  <2>3. chat' = [chat EXCEPT !.calls = {next}]
    BY <1>1, <1>3, <1>4, <2>2
  <2>4. chat' \in ChatState /\ chat'.turns = chat.turns /\ chat'.loading = chat.loading /\ chat'.calls = {next}
    BY <1>2, <2>1, <2>3 DEF ChatState
  <2> QED BY <1>2, <2>1, <2>4 DEF ChatInv
<1>5. CASE out \notin ChatStages
  <2> DEFINE t == Says("assistant", call.of, out)
  <2>1. t \in Turn /\ t.role = "assistant" /\ t.of = q
    BY <1>2, <1>3, <1>5 DEF Says, Turn, Authors
  <2>2. chat' = [chat EXCEPT !.turns = Append(@, t), !.loading = FALSE, !.calls = @ \ {call}]
    BY <1>1, <1>3, <1>5 DEF Answered
  <2> HIDE DEF t
  <2>3. chat' \in ChatState /\ chat'.turns = Append(chat.turns, t) /\ chat'.loading = FALSE /\ chat'.calls = {}
    <3> DEFINE more == Append(chat.turns, t)
    <3>1. more \in Seq(Turn)
      BY <1>2, <2>1
    <3>2. chat' = [chat EXCEPT !.turns = more, !.loading = FALSE, !.calls = {}]
      BY <1>2, <2>2
    <3> HIDE DEF more
    <3>3. chat' \in ChatState /\ chat'.turns = more /\ chat'.loading = FALSE /\ chat'.calls = {}
      BY <1>2, <3>1, <3>2 DEF ChatState
    <3> QED BY <3>3 DEF more
  <2>4. Questions(Append(chat.turns, t)) = q
    BY <1>2, <2>1, AnotherTurn DEF q
  <2> HIDE DEF q
  <2>5. Len(Append(chat.turns, t)) = 2 * q + 1
    BY <1>2, <2>1
  <2>6. TurnAt(t, Len(chat.turns) + 1)
    <3>1. (2 * q + 1) % 2 = 1 /\ (2 * q + 1) \div 2 = q
      BY <1>2
    <3> QED BY <1>2, <2>1, <3>1 DEF TurnAt
  <2>7. \A i \in 1..Len(Append(chat.turns, t)) : TurnAt(Append(chat.turns, t)[i], i)
    BY <2>1, <2>6, NextTurn
  <2> QED BY <1>2, <2>3, <2>4, <2>5, <2>7 DEF ChatInv
<1> QED BY <1>4, <1>5

LEMMA ChatStays ==
  ASSUME ChatInv, acts \in 0..MaxActs, [Next]_vars
  PROVE  ChatInv'
<1>1. acts' \in 0..MaxActs /\ acts' \in Nat /\ acts \in Nat /\ acts <= acts'
  BY ActsGrow, Parameters
<1>2. CASE chat' = chat
  <2>1. Questions(chat.turns) \in 0..acts'
    BY <1>1 DEF ChatInv
  <2> QED BY <1>2, <2>1 DEF ChatInv
<1>3. CASE chat' = NewChat
  BY <1>1, <1>3, NewChatInv
<1> QED BY <1>1, <1>2, <1>3, ChatSteps, TypeMessageInv, sendMessageInv, ChatStepInv

LEMMA TurnsDoMatch == ASSUME ChatInv PROVE TurnsMatch
<1> DEFINE q == Questions(chat.turns)
           turns == chat.turns
           dots == Says("assistant", 0, "dots")
<1>1. q \in Nat /\ chat \in ChatState /\ chat.turns \in Seq(Turn)
  BY QuestionsIsNat DEF ChatInv, ChatState
<1>2. CASE ~chat.loading
  <2>1. Bubbles = turns /\ Len(turns) = 2 * q + 1
    BY <1>2 DEF Bubbles, ChatInv
  <2>2. (2 * q + 1) % 2 = 1
    BY <1>1
  <2>3. DOMAIN turns = 1..Len(turns)
    BY <1>1
  <2> QED BY <2>1, <2>2, <2>3 DEF TurnsMatch, ChatInv, TurnAt
<1>3. CASE chat.loading
  <2>1. Bubbles = Append(turns, dots)
    BY <1>3 DEF Bubbles
  <2>2. Len(turns) = 2 * q
    <3>1. Len(turns) = 2 * q + 0
      BY <1>3 DEF ChatInv
    <3> HIDE DEF q
    <3> QED BY <1>1, <3>1
  <2>3. Len(Bubbles) = 2 * q + 1 /\ (2 * q + 1) % 2 = 1 /\ Bubbles[2 * q + 1] = dots
        /\ DOMAIN Bubbles = 1..(2 * q + 1) /\ \A i \in 1..(2 * q) : Bubbles[i] = turns[i]
    <3> HIDE DEF q
    <3> QED BY <1>1, <2>1, <2>2
  <2>4. dots.role = "assistant" /\ dots.by = "dots"
    BY DEF Says
  <2>5. \A i \in 1..(2 * q) : TurnAt(turns[i], i)
    BY <2>2 DEF ChatInv
  <2> HIDE DEF q, turns, dots
  <2>6. ASSUME NEW i \in DOMAIN Bubbles
        PROVE  IF i % 2 = 0 THEN Bubbles[i].role = "user" /\ Bubbles[i].of = i \div 2
               ELSE Bubbles[i].role = "assistant" /\ (Bubbles[i].by = "dots" \/ Bubbles[i].of = i \div 2)
    <3>1. CASE i = 2 * q + 1
      BY <2>3, <2>4, <3>1
    <3>2. CASE i # 2 * q + 1
      <4>1. i \in 1..(2 * q)
        BY <1>1, <2>3, <3>2
      <4> QED BY <2>3, <2>5, <4>1 DEF TurnAt
    <3> QED BY <3>1, <3>2
  <2> QED BY <2>3, <2>6 DEF TurnsMatch
<1> QED BY <1>2, <1>3

-----------------------------------------------------------------------------
(* The log, the activity page and the context.                             *)

(* The sort of the log.  Of two entries one is before the other, so no two *)
(* have the same rank, and every rank is some entry's.                     *)
Timed(n) == [1..n -> LogEntry]
LEMMA TotalOrder ==
  ASSUME NEW e, NEW n \in Nat, e \in Timed(n)
  PROVE  /\ \A i, j \in 1..n : i # j => (Before(e, i, j) <=> ~Before(e, j, i))
         /\ \A i \in 1..n : ~Before(e, i, i)
         /\ \A i, j, k \in 1..n : Before(e, i, j) /\ Before(e, j, k) => Before(e, i, k)
<1>1. \A i \in 1..n : e[i].timestamp \in Int
  BY Parameters DEF Timed, LogEntry
<1> QED BY <1>1 DEF Before

LEMMA Ranks ==
  ASSUME NEW e, NEW n \in Nat, e \in Timed(n)
  PROVE  /\ \A i \in 1..n : Rank(e, i) \in 0..(n - 1)
         /\ \A i, j \in 1..n : Before(e, i, j) => Rank(e, i) < Rank(e, j)
<1> DEFINE S(i) == {j \in 1..n : Before(e, j, i)}
<1>1. DOMAIN e = 1..n
  BY DEF Timed
<1>2. \A i \in 1..n : Rank(e, i) = Cardinality(S(i))
  BY <1>1 DEF Rank
<1>3. IsFiniteSet(1..n) /\ Cardinality(1..n) = n
  <2>1. 1 \in Int /\ n \in Int
    OBVIOUS
  <2> QED BY <2>1, FS_Interval
<1>4. \A i \in 1..n : IsFiniteSet(S(i)) /\ Cardinality(S(i)) \in Nat
  BY <1>3, FS_Subset, FS_CardinalityType
<1>5. ASSUME NEW i \in 1..n PROVE Cardinality(S(i)) < n
  <2>1. S(i) \in SUBSET (1..n) /\ i \notin S(i)
    BY TotalOrder
  <2> DEFINE T == S(i)
  <2>2. T \in SUBSET (1..n) /\ T # 1..n
    BY <2>1
  <2> HIDE DEF T
  <2>3. Cardinality(T) <= Cardinality(1..n) /\ Cardinality(T) # Cardinality(1..n)
    BY <1>3, <2>2, FS_Subset
  <2>4. Cardinality(T) \in Nat
    BY <1>3, <2>2, FS_Subset, FS_CardinalityType
  <2>5. Cardinality(T) < n
    BY <1>3, <2>3, <2>4
  <2> QED BY <2>5 DEF T
<1>6. ASSUME NEW i \in 1..n, NEW j \in 1..n, Before(e, i, j)
      PROVE  Cardinality(S(i)) < Cardinality(S(j))
  <2> DEFINE T == S(i)
             U == S(j)
  <2>1. T \in SUBSET U /\ i \in U /\ i \notin T
    BY <1>6, TotalOrder
  <2>2. IsFiniteSet(U) /\ Cardinality(U) \in Nat /\ Cardinality(T) \in Nat
    BY <1>4
  <2> HIDE DEF T, U
  <2>3. Cardinality(T) <= Cardinality(U) /\ Cardinality(T) # Cardinality(U)
    BY <2>1, <2>2, FS_Subset
  <2>4. Cardinality(T) < Cardinality(U)
    BY <2>2, <2>3
  <2> QED BY <2>4 DEF T, U
<1> HIDE DEF S
<1>7. \A i \in 1..n : Rank(e, i) \in 0..(n - 1)
  BY <1>2, <1>4, <1>5
<1> QED BY <1>2, <1>6, <1>7

(* What getLog returns: every entry once, each before the next.            *)
LEMMA SortedLog ==
  ASSUME NEW e, NEW n \in Nat, e \in Timed(n)
  PROVE  /\ getLog(e) \in Seq(LogEntry) /\ Len(getLog(e)) = n
         /\ Range(getLog(e)) = Range(e)
         /\ \A k, l \in 1..n : k < l =>
              \E i, j \in 1..n : Before(e, i, j) /\ getLog(e)[k] = e[i] /\ getLog(e)[l] = e[j]
<1> DEFINE D == 1..n
           R == 0..(n - 1)
           f == [i \in D |-> Rank(e, i)]
           at(k) == CHOOSE i \in D : Rank(e, i) = k - 1
<1>1. DOMAIN e = D /\ \A i \in D : e[i] \in LogEntry
  BY DEF Timed
<1>2. \A i, j \in D : i # j => Rank(e, i) # Rank(e, j)
  <2>1. \A i \in D : Rank(e, i) \in Int
    BY Ranks
  <2> QED BY <2>1, TotalOrder, Ranks
<1>3. f \in Injection(D, R)
  BY <1>2, Ranks DEF Injection, IsInjective
<1>4. IsFiniteSet(R) /\ Cardinality(R) = n /\ Cardinality(D) = n
  <2>1. 1 \in Int /\ n \in Int /\ 0 \in Int /\ n - 1 \in Int
    OBVIOUS
  <2> QED BY <2>1, FS_Interval
<1>5. f \in Surjection(D, R)
  <2> HIDE DEF f, D, R
  <2> QED BY <1>3, <1>4, FS_Injection
<1>6. ASSUME NEW k \in D PROVE at(k) \in D /\ Rank(e, at(k)) = k - 1
  <2>1. k - 1 \in R
    OBVIOUS
  <2>2. PICK i \in D : f[i] = k - 1
    BY <1>5, <2>1 DEF Surjection
  <2> QED BY <2>2
<1>7. ASSUME NEW i \in D PROVE Rank(e, i) + 1 \in D /\ at(Rank(e, i) + 1) = i
  <2>1. Rank(e, i) \in 0..(n - 1)
    BY Ranks
  <2>2. Rank(e, i) + 1 \in D /\ (Rank(e, i) + 1) - 1 = Rank(e, i)
    BY <2>1
  <2> DEFINE k == Rank(e, i) + 1
  <2>3. at(k) \in D /\ Rank(e, at(k)) = Rank(e, i)
    BY <1>6, <2>2
  <2> HIDE DEF at
  <2> QED BY <1>2, <2>2, <2>3
<1>8. getLog(e) = [k \in D |-> e[at(k)]]
  BY <1>1 DEF getLog
<1> DEFINE g == getLog(e)
<1> HIDE DEF at, f, R
<1>9. DOMAIN g = D /\ \A k \in D : g[k] = e[at(k)]
  BY <1>8
<1>10. g \in Seq(LogEntry) /\ Len(g) = n
  <2>1. g \in [1..n -> LogEntry]
    BY <1>1, <1>6, <1>8
  <2> HIDE DEF g
  <2> QED BY <2>1
<1>11. Range(g) = Range(e)
  <2>1. \A k \in D : \E i \in D : g[k] = e[i]
    BY <1>6, <1>9
  <2>2. \A i \in D : \E k \in D : g[k] = e[i]
    BY <1>7, <1>9
  <2> HIDE DEF g, D
  <2> QED BY <1>1, <1>9, <2>1, <2>2 DEF Range
<1>12. ASSUME NEW k \in D, NEW l \in D, k < l
       PROVE  \E i, j \in D : Before(e, i, j) /\ g[k] = e[i] /\ g[l] = e[j]
  <2> DEFINE i == at(k)
             j == at(l)
  <2>1. i \in D /\ j \in D /\ Rank(e, i) = k - 1 /\ Rank(e, j) = l - 1
    BY <1>6
  <2>2. g[k] = e[i] /\ g[l] = e[j]
    BY <1>9
  <2> HIDE DEF i, j, g
  <2>3. Rank(e, i) < Rank(e, j) /\ ~(Rank(e, j) < Rank(e, i))
    BY <1>12, <2>1
  <2>4. Before(e, i, j)
    BY <2>1, <2>3, TotalOrder, Ranks
  <2> QED BY <2>1, <2>2, <2>4
<1> QED BY <1>10, <1>11, <1>12

(* The log: what was appended, newest first and without a gap, and then the*)
(* first of the seeds; the seconds grow with the numbers, and those that   *)
(* were written in one second are stored newest first.                     *)
Latest(entries) == IF Head(entries).no > 4 THEN Head(entries).no ELSE 4
LogOK(entries) ==
  /\ entries \in Seq(LogEntry) /\ Len(entries) \in 4..Kept
  /\ \A i \in 1..Len(entries) :
       entries[i].no = IF i <= Latest(entries) - 4 THEN Latest(entries) - i + 1 ELSE i - (Latest(entries) - 4)
  /\ Len(entries) = IF Latest(entries) < Kept THEN Latest(entries) ELSE Kept
  /\ \A i \in 1..Len(entries) : entries[i].timestamp <= entries[i].no
  /\ \A i, j \in 1..Len(entries) : entries[i].no > entries[j].no => Before(entries, i, j)

LEMMA HeadOfLog ==
  ASSUME NEW l, LogOK(l)
  PROVE  /\ Head(l) = l[1] /\ Head(l) \in LogEntry /\ l \in Timed(Len(l))
         /\ Len(l) \in Nat /\ Len(l) >= 4 /\ Len(l) <= Kept
         /\ Latest(l) \in 4..MaxLogged /\ Latest(l) \in Nat
<1>1. l \in Seq(LogEntry) /\ Len(l) \in Nat /\ Len(l) >= 4 /\ Len(l) <= Kept
  BY Parameters DEF LogOK
<1>2. Head(l) = l[1] /\ Head(l) \in LogEntry /\ l \in Timed(Len(l))
  BY <1>1 DEF Timed
<1>3. Latest(l) \in 4..MaxLogged /\ Latest(l) \in Nat
  BY <1>2, Parameters DEF Latest, LogEntry
<1> QED BY <1>1, <1>2, <1>3

LEMMA WrittenIsLatest == Written = Latest(log)
BY Parameters DEF Written, Latest

LEMMA Numbering ==
  \A h, i, j \in Nat :
    /\ h >= 4 /\ i <= h /\ j <= h
    /\ (IF i <= h - 4 THEN h - i + 1 ELSE i - (h - 4)) = (IF j <= h - 4 THEN h - j + 1 ELSE j - (h - 4))
    => i = j
OBVIOUS

(* What the page takes of such a log has every entry, newest first.        *)
NewestFirst(feed) == \A i, j \in DOMAIN feed : i < j => feed[i].no > feed[j].no
LEMMA FeedOfLog ==
  ASSUME NEW l, LogOK(l)
  PROVE  getLog(l) \in Seq(LogEntry) /\ Range(getLog(l)) = Range(l) /\ NewestFirst(getLog(l))
<1> DEFINE n == Len(l)
           g == getLog(l)
           h == Latest(l)
<1>1. n \in Nat /\ l \in Timed(n) /\ h \in Nat /\ h >= 4
  BY HeadOfLog
<1>2. g \in Seq(LogEntry) /\ Len(g) = n /\ Range(g) = Range(l)
  BY <1>1, SortedLog
<1>3. ASSUME NEW i \in 1..n, NEW j \in 1..n, Before(l, i, j)
      PROVE  l[i].no > l[j].no
  <2>1. l[i].no \in Nat /\ l[j].no \in Nat
    BY <1>1, Parameters DEF Timed, LogEntry
  <2>2. ASSUME l[i].no = l[j].no PROVE i = j
    <3>1. l[i].no = IF i <= h - 4 THEN h - i + 1 ELSE i - (h - 4)
      BY DEF LogOK
    <3>2. l[j].no = IF j <= h - 4 THEN h - j + 1 ELSE j - (h - 4)
      BY DEF LogOK
    <3>3. n = IF h < Kept THEN h ELSE Kept
      BY DEF LogOK
    <3>4. i \in Nat /\ j \in Nat /\ i <= h /\ j <= h
      <4> HIDE DEF h, n
      <4> QED BY <1>1, <3>3, Parameters
    <3>5. (IF i <= h - 4 THEN h - i + 1 ELSE i - (h - 4)) = (IF j <= h - 4 THEN h - j + 1 ELSE j - (h - 4))
      BY <2>2, <3>1, <3>2
    <3> HIDE DEF h, n
    <3> QED BY <1>1, <3>4, <3>5, Numbering
  <2>3. l[j].no > l[i].no => Before(l, j, i)
    BY DEF LogOK
  <2>4. ~Before(l, j, i) /\ i # j
    BY <1>1, <1>3, TotalOrder
  <2> HIDE DEF n
  <2> QED BY <2>1, <2>2, <2>3, <2>4
<1>4. ASSUME NEW k \in 1..n, NEW m \in 1..n, k < m
      PROVE  g[k].no > g[m].no
  <2>1. \E i, j \in 1..n : Before(l, i, j) /\ g[k] = l[i] /\ g[m] = l[j]
    BY <1>1, <1>4, SortedLog
  <2> HIDE DEF g, n
  <2> QED BY <1>3, <2>1
<1>5. DOMAIN g = 1..n
  <2> HIDE DEF g
  <2> QED BY <1>2
<1> QED BY <1>2, <1>4, <1>5 DEF NewestFirst

(* An entry more, and the last one gone where there are Kept already.      *)
LEMMA StoredIsLog ==
  ASSUME NEW l, LogOK(l), Latest(l) < MaxLogged,
         NEW now \in IF Latest(l) > 4 THEN {Head(l).timestamp, Head(l).timestamp + 1} ELSE {5}
  PROVE  LogOK(Stored(<<[no |-> Latest(l) + 1, timestamp |-> now]>> \o l))
<1> DEFINE h == Latest(l)
           n == Len(l)
           entry == [no |-> h + 1, timestamp |-> now]
           more == <<entry>> \o l
           m == IF n + 1 < Kept THEN n + 1 ELSE Kept
           kept == SubSeq(more, 1, m)
<1>1. /\ h \in 4..MaxLogged /\ h \in Nat /\ h < MaxLogged /\ MaxLogged \in Nat /\ Kept \in Nat /\ Kept >= 4
      /\ l \in Seq(LogEntry) /\ n \in 4..Kept /\ n \in Nat /\ l[1] = Head(l)
      /\ \A i \in 1..n : l[i] \in LogEntry
  BY HeadOfLog, Parameters DEF LogOK
<1>2. \A i \in 1..n : l[i].no \in Nat /\ l[i].no >= 1 /\ l[i].timestamp \in Nat /\ l[i].timestamp >= 1
  BY <1>1, Parameters DEF LogEntry
<1>3. /\ \A i \in 1..n : l[i].no = IF i <= h - 4 THEN h - i + 1 ELSE i - (h - 4)
      /\ n = IF h < Kept THEN h ELSE Kept
      /\ \A i \in 1..n : l[i].timestamp <= l[i].no
      /\ \A i, j \in 1..n : l[i].no > l[j].no => Before(l, i, j)
  BY DEF LogOK
<1>4. /\ now \in Nat /\ 1 <= now /\ now <= h + 1
      /\ \A i \in 1..n : l[i].timestamp <= now
  <2>1. CASE h > 4
    <3>1. l[1].no = h /\ 1 \in 1..n /\ l[1].timestamp <= h /\ now \in {l[1].timestamp, l[1].timestamp + 1}
          /\ l[1].timestamp \in Nat /\ l[1].timestamp >= 1
      <4>1. 1 \in 1..n /\ 1 <= h - 4 /\ h - 1 + 1 = h
        BY <1>1, <2>1
      <4>2. now \in {l[1].timestamp, l[1].timestamp + 1}
        BY <1>1, <2>1
      <4>3. l[1].no = h
        BY <1>3, <4>1
      <4> QED BY <1>2, <1>3, <4>1, <4>2, <4>3
    <3>2. ASSUME NEW i \in 1..n PROVE l[i].timestamp <= l[1].timestamp
      <4>1. CASE i = 1
        BY <3>1, <4>1
      <4>2. CASE i # 1
        <5>1. l[i].no < h
          <6>1. i \in Nat /\ i > 1 /\ i <= h
            <7>1. n <= h
              BY <1>1, <1>3
            <7> QED BY <1>1, <4>2, <7>1
          <6>2. l[i].no = IF i <= h - 4 THEN h - i + 1 ELSE i - (h - 4)
            BY <1>3
          <6> HIDE DEF h
          <6> QED BY <1>1, <2>1, <6>1, <6>2
        <5>2. Before(l, 1, i)
          BY <1>3, <3>1, <5>1
        <5> QED BY <1>2, <3>1, <5>2 DEF Before
      <4> QED BY <4>1, <4>2
    <3> HIDE DEF h, n
    <3> QED BY <1>1, <1>2, <3>1, <3>2
  <2>2. CASE ~(h > 4)
    <3>1. h = 4 /\ now = 5
      BY <1>1, <2>2
    <3>2. \A i \in 1..n : l[i].no <= 4
      <4>1. SUFFICES ASSUME NEW i \in 1..n PROVE l[i].no <= 4
        OBVIOUS
      <4>2. n = 4 /\ l[i].no = IF i <= 0 THEN 4 - i + 1 ELSE i - 0
        BY <1>1, <1>3, <3>1
      <4> QED BY <4>2
    <3> QED BY <1>2, <1>3, <3>1, <3>2
  <2> QED BY <2>1, <2>2
<1> HIDE DEF h, n
<1>5. entry \in LogEntry /\ entry.no = h + 1 /\ entry.timestamp = now
  BY <1>1, <1>4 DEF LogEntry
<1> HIDE DEF entry
<1>6. more \in Seq(LogEntry) /\ Len(more) = n + 1 /\ more[1] = entry /\ \A i \in 2..(n + 1) : more[i] = l[i - 1]
  BY <1>1, <1>5 DEF n
<1>7. m \in 4..(n + 1) /\ m <= Kept /\ m \in Nat
  BY <1>1
<1>8. Stored(more) = kept
  BY <1>6 DEF Stored
<1> HIDE DEF more
<1>9. kept \in Seq(LogEntry) /\ Len(kept) = m /\ \A i \in 1..m : kept[i] = more[i]
  <2> HIDE DEF m
  <2> QED BY <1>1, <1>6, <1>7
<1> HIDE DEF kept
<1>10. kept[1] = entry /\ \A i \in 2..m : i - 1 \in 1..n /\ kept[i] = l[i - 1]
  <2> HIDE DEF m
  <2> QED BY <1>1, <1>6, <1>7, <1>9
<1>11. Latest(kept) = h + 1
  <2>1. Head(kept) = entry
    <3> HIDE DEF m
    <3> QED BY <1>7, <1>9, <1>10
  <2> QED BY <1>1, <1>5, <2>1 DEF Latest
<1>12. ASSUME NEW i \in 1..m
       PROVE  /\ kept[i].no = IF i <= (h + 1) - 4 THEN (h + 1) - i + 1 ELSE i - ((h + 1) - 4)
              /\ kept[i].timestamp <= kept[i].no
  <2>1. CASE i = 1
    BY <1>1, <1>4, <1>5, <1>10, <2>1
  <2>2. CASE i # 1
    <3>1. i \in 2..m /\ i \in Nat
      <4> HIDE DEF m
      <4> QED BY <1>7, <2>2
    <3>2. i - 1 \in 1..n /\ kept[i] = l[i - 1]
      BY <1>10, <3>1
    <3>3. l[i - 1].no = IF i - 1 <= h - 4 THEN h - (i - 1) + 1 ELSE (i - 1) - (h - 4)
      BY <1>3, <3>2
    <3>4. l[i - 1].timestamp <= l[i - 1].no
      BY <1>3, <3>2
    <3> HIDE DEF m
    <3> QED BY <1>1, <3>1, <3>2, <3>3, <3>4
  <2> QED BY <2>1, <2>2
<1>13. ASSUME NEW i \in 1..m, NEW j \in 1..m, kept[i].no > kept[j].no
       PROVE  Before(kept, i, j)
  <2>0. i \in Nat /\ j \in Nat /\ i >= 1 /\ j >= 1 /\ (i # 1 => i \in 2..m) /\ (j # 1 => j \in 2..m)
    <3> HIDE DEF m
    <3> QED BY <1>7
  <2>1. CASE i = 1
    <3>1. j # 1 /\ j \in 2..m
      <4>1. entry.no \in Nat
        BY <1>1, <1>5
      <4> QED BY <1>10, <1>13, <2>0, <2>1, <4>1
    <3>2. kept[j].timestamp <= now /\ kept[j].timestamp \in Nat
      BY <1>2, <1>4, <1>10, <3>1
    <3>3. kept[1].timestamp = now
      BY <1>5, <1>10
    <3> QED BY <1>4, <2>0, <2>1, <3>1, <3>2, <3>3 DEF Before
  <2>2. CASE i # 1 /\ j = 1
    <3>1. kept[i] = l[i - 1] /\ i - 1 \in 1..n
      BY <1>10, <2>0, <2>2
    <3>2. kept[i].no <= h
      <4>1. l[i - 1].no = IF i - 1 <= h - 4 THEN h - (i - 1) + 1 ELSE (i - 1) - (h - 4)
        BY <1>3, <3>1
      <4>2. n <= h /\ i - 1 >= 1 /\ i - 1 <= n
        BY <1>1, <1>3, <3>1
      <4> HIDE DEF m
      <4> QED BY <1>1, <2>0, <3>1, <4>1, <4>2
    <3>3. kept[j].no = h + 1 /\ kept[i].no \in Nat
      BY <1>2, <1>5, <1>10, <2>2, <3>1
    <3> QED BY <1>1, <1>13, <3>2, <3>3
  <2>3. CASE i # 1 /\ j # 1
    <3>1. kept[i] = l[i - 1] /\ i - 1 \in 1..n /\ kept[j] = l[j - 1] /\ j - 1 \in 1..n
      BY <1>10, <2>0, <2>3
    <3>2. Before(l, i - 1, j - 1)
      BY <1>3, <1>13, <3>1
    <3>3. i - 1 < j - 1 => i < j
      BY <2>0
    <3> QED BY <3>1, <3>2, <3>3 DEF Before
  <2> QED BY <2>1, <2>2, <2>3
<1>14. m = IF h + 1 < Kept THEN h + 1 ELSE Kept
  BY <1>1, <1>3
<1>15. m \in 4..Kept
  <2> HIDE DEF m
  <2> QED BY <1>1, <1>7
<1> HIDE DEF m
<1>16. LogOK(kept)
  BY <1>9, <1>11, <1>12, <1>13, <1>14, <1>15 DEF LogOK
<1> QED BY <1>8, <1>16 DEF more, entry, h

LEMMA SeedsAreLog == LogOK(Seeds)
<1> DEFINE e1 == [no |-> 1, timestamp |-> 1]
           e2 == [no |-> 2, timestamp |-> 2]
           e3 == [no |-> 3, timestamp |-> 3]
           e4 == [no |-> 4, timestamp |-> 4]
<1>1. e1 \in LogEntry /\ e2 \in LogEntry /\ e3 \in LogEntry /\ e4 \in LogEntry
  BY Parameters DEF LogEntry
<1> DEFINE l == <<e1, e2, e3, e4>>
<1>2. Seeds = l
  BY DEF Seeds
<1>3. l \in Seq(LogEntry)
  <2> HIDE DEF e1, e2, e3, e4
  <2> QED BY <1>1
<1>4. Len(l) = 4 /\ l[1] = e1 /\ l[2] = e2 /\ l[3] = e3 /\ l[4] = e4 /\ Head(l) = e1
  OBVIOUS
<1> HIDE DEF l
<1>5. \A i \in 1..4 : l[i].no = i /\ l[i].timestamp = i
  BY <1>4
<1>6. Latest(l) = 4
  BY <1>4 DEF Latest
<1>7. \A i \in 1..4 : l[i].no = IF i <= 4 - 4 THEN 4 - i + 1 ELSE i - (4 - 4)
  BY <1>5
<1>8. \A i, j \in 1..4 : l[i].no > l[j].no => Before(l, i, j)
  BY <1>5 DEF Before
<1>9. 4 \in 4..Kept /\ 4 = IF 4 < Kept THEN 4 ELSE Kept
  BY Parameters
<1>10. \A i \in 1..4 : l[i].timestamp <= l[i].no
  BY <1>5
<1> QED BY <1>2, <1>3, <1>4, <1>6, <1>7, <1>8, <1>9, <1>10 DEF LogOK

(* What was asked after the insight on screen landed is under way or was   *)
(* lost; the last ask, and an insight that answers it, is for the vault    *)
(* asked for last.                                                         *)
InsightAsks(a) ==
  /\ a.insight.ask <= a.insight.seen /\ a.insight.seen <= a.asks
  /\ \A n \in 1..a.asks : n > a.insight.seen => (\E c \in a.calls : c.ask = n) \/ n \in a.lost
  /\ \A c \in a.calls : c.ask \in 1..a.asks /\ (c.ask = a.asks => c.of = a.asked)
  /\ a.insight.ask = a.asks => a.insight.of = a.asked
ContextInv ==
  /\ page \in Pages /\ isLoading \in BOOLEAN /\ ready \in BOOLEAN
  /\ versions \in 0..MaxVaults /\ vault \in {0, versions}
FeedInv ==
  /\ LogOK(log)
  /\ activity \in ActivityState(versions)
  /\ listeners = IF activity.subscribed THEN 1 ELSE 0
  /\ activity.subscribed => Range(activity.feed) = Range(log) \/ Written = activity.joined
  /\ NewestFirst(activity.feed)
  /\ InsightAsks(activity)

(* Once the effects of a render have run, the timer is the vault's, and    *)
(* when it has fired the vault was asked for.                              *)
VaultAsked ==
  page = "activity" /\ ~activity.effect =>
    activity.timer \in {0, vault} /\ (vault # 0 => vault \in {activity.timer, activity.asked})

(* More versions of the vault only widen the page's type.                  *)
LEMMA MoreVersions ==
  ASSUME NEW v \in Nat, NEW w \in Nat, v <= w
  PROVE  ActivityState(v) \subseteq ActivityState(w)
<1>1. 0..v \subseteq 0..w /\ 1..v \subseteq 1..w
  OBVIOUS
<1>2. SUBSET InsightCall(v) \subseteq SUBSET InsightCall(w)
  BY <1>1 DEF InsightCall
<1>3. [ask : Nat, of : 0..v, seen : Nat] \subseteq [ask : Nat, of : 0..w, seen : Nat]
  BY <1>1
<1> QED BY <1>1, <1>2, <1>3 DEF ActivityState

LEMMA ContextStays ==
  ASSUME ContextInv, [Next]_vars
  PROVE  ContextInv' /\ versions <= versions'
<1> USE DEF ContextInv
<1>1. CASE LoadBegins
  BY <1>1, Parameters DEF LoadBegins
<1>2. CASE VaultChanges
  <2>1. /\ versions < MaxVaults /\ vault' = versions + 1 /\ versions' = versions + 1
        /\ isLoading' = FALSE /\ ready' = TRUE /\ page' = page
    BY <1>2, Zenon DEF VaultChanges
  <2>2. versions' \in 0..MaxVaults /\ versions <= versions'
    BY <2>1, Parameters
  <2> QED BY <2>1, <2>2, Zenon
<1>3. CASE LoadFails
  <2>1. isLoading' = FALSE /\ ready' = FALSE /\ page' = "other" /\ vault' = vault /\ versions' = versions
    BY <1>3, Zenon DEF LoadFails, Mounts
  <2>2. versions <= versions /\ "other" \in Pages
    BY Parameters DEF Pages
  <2> QED BY <2>1, <2>2, Zenon
<1>4. ASSUME NEW p \in Pages, Open(p) PROVE ContextInv' /\ versions <= versions'
  BY <1>4, Parameters DEF Open, Mounts, context
<1>5. CASE UNCHANGED <<page, context>>
  BY <1>5, Parameters DEF context
<1>6. \/ UNCHANGED <<page, context>> \/ LoadBegins \/ VaultChanges \/ LoadFails
      \/ \E p \in Pages : Open(p)
  BY DEF Next, User, vars, TypeMessage, sendMessage, TypeQuery, handleLocalChat, setFilterCat,
     handleFileUpload, Refresh, Edit, Flip, getQuote, handleSwap, handleRangeChange, generateInsights,
     setActiveTab, setTagTarget, setSelected, onClose, handleSubmit, appendLog, ChatStep, QvacStep,
     InsightStep, QuoteLands, PricesLand, TreasuryStep, Read, Parsed, Effects, TimerFires, loadPrices,
     FeedbackEnds, ModalTimer, Qvac, Activity, Jupiter, TreasuryPage
<1> QED BY <1>1, <1>2, <1>3, <1>4, <1>5, <1>6

LEMMA VersionsAreNat ==
  ASSUME ContextInv
  PROVE  versions \in Nat /\ vault \in 0..versions /\ 0 \in 0..versions /\ (vault # 0 => vault \in 1..versions)
BY Parameters DEF ContextInv

LEMMA NewActivityIs ==
  ASSUME NEW v \in Nat
  PROVE  /\ NewActivity \in ActivityState(v) /\ NewActivity.subscribed = FALSE
         /\ NewestFirst(NewActivity.feed) /\ InsightAsks(NewActivity)
<1> DEFINE empty == <<>>
           none == [ask |-> 0, of |-> 0, seen |-> 0]
           new == NewActivity
<1>1. empty \in Seq(LogEntry) /\ 0 \in 0..v /\ DOMAIN empty = {} /\ none \in [ask : Nat, of : 0..v, seen : Nat]
      /\ none.ask = 0 /\ none.of = 0 /\ none.seen = 0
  OBVIOUS
<1>2. new = [feed |-> empty, joined |-> 0, subscribed |-> FALSE, effect |-> FALSE, timer |-> 0,
             asks |-> 0, asked |-> 0, insight |-> none, loadingInsight |-> FALSE, calls |-> {}, lost |-> {}]
  BY DEF NewActivity, NoInsight
<1> HIDE DEF empty, none, new
<1>3. new \in ActivityState(v) /\ new.subscribed = FALSE /\ new.feed = empty
      /\ new.asks = 0 /\ new.asked = 0 /\ new.insight = none /\ new.calls = {}
  BY <1>1, <1>2 DEF ActivityState
<1>4. InsightAsks(new) /\ NewestFirst(new.feed)
  BY <1>1, <1>3 DEF InsightAsks, NewestFirst
<1> QED BY <1>3, <1>4 DEF new

LEMMA LeftFeed ==
  ASSUME FeedInv, ContextInv, Left, UNCHANGED <<vault, versions>>
  PROVE  FeedInv'
<1> DEFINE new == NewActivity
           feed == getLog(log)
<1>1. log' = log /\ LogOK(log) /\ LogOK(log') /\ versions \in Nat
  BY VersionsAreNat DEF FeedInv, Left, LogOK, Before, Latest
<1>2. feed \in Seq(LogEntry) /\ NewestFirst(feed)
  BY <1>1, FeedOfLog
<1>3. new \in ActivityState(versions) /\ new.subscribed = FALSE /\ NewestFirst(new.feed) /\ InsightAsks(new)
  BY <1>1, NewActivityIs
<1>4. activity' = new \/ activity' = [new EXCEPT !.feed = feed, !.effect = TRUE]
  BY DEF Left
<1> HIDE DEF new, feed
<1>5. /\ activity' \in ActivityState(versions) /\ activity'.subscribed = FALSE /\ activity'.feed \in {new.feed, feed}
      /\ activity'.asks = new.asks /\ activity'.asked = new.asked /\ activity'.insight = new.insight
      /\ activity'.calls = new.calls /\ activity'.lost = new.lost
  BY <1>2, <1>3, <1>4 DEF ActivityState
<1>6. NewestFirst(activity'.feed) /\ InsightAsks(activity')
  BY <1>2, <1>3, <1>5 DEF InsightAsks
<1>7. listeners' = 0
  BY DEF Left, Unsubscribed, FeedInv
<1> QED BY <1>1, <1>5, <1>6, <1>7 DEF FeedInv

LEMMA appendLogFeed ==
  ASSUME FeedInv, ContextInv, appendLog
  PROVE  FeedInv'
<1> DEFINE feed == getLog(log')
<1>1. LogOK(log) /\ versions' = versions /\ listeners' = listeners /\ activity \in ActivityState(versions)
  BY DEF FeedInv, appendLog, context
<1>2. LogOK(log')
  <2>1. Written = Latest(log) /\ Latest(log) < MaxLogged
    BY WrittenIsLatest DEF appendLog
  <2>2. PICK now \in Seconds : log' = Stored(<<[no |-> Written + 1, timestamp |-> now]>> \o log)
    BY DEF appendLog
  <2>3. now \in IF Latest(log) > 4 THEN {Head(log).timestamp, Head(log).timestamp + 1} ELSE {5}
    BY <2>1, <2>2, Parameters DEF Seconds
  <2> QED BY <1>1, <2>1, <2>2, <2>3, StoredIsLog
<1>3. feed \in Seq(LogEntry) /\ NewestFirst(feed) /\ Range(feed) = Range(log')
  BY <1>2, FeedOfLog
<1> HIDE DEF feed
<1>4. CASE activity.subscribed
  <2>1. activity' = [activity EXCEPT !.feed = feed, !.joined = 0]
    BY <1>4 DEF appendLog, Notified, feed
  <2>2. /\ activity' \in ActivityState(versions) /\ activity'.feed = feed /\ activity'.subscribed = activity.subscribed
        /\ activity'.asks = activity.asks /\ activity'.asked = activity.asked
        /\ activity'.insight = activity.insight /\ activity'.calls = activity.calls /\ activity'.lost = activity.lost
    BY <1>1, <1>3, <2>1 DEF ActivityState
  <2>3. InsightAsks(activity')
    BY <2>2 DEF FeedInv, InsightAsks
  <2> QED BY <1>1, <1>2, <1>3, <1>4, <2>2, <2>3 DEF FeedInv
<1>5. CASE ~activity.subscribed
  <2>1. activity' = activity
    BY <1>5 DEF appendLog
  <2> QED BY <1>1, <1>2, <1>5, <2>1 DEF FeedInv
<1> QED BY <1>4, <1>5

(* The page changes nothing of what it has of the log.                     *)
SameFeed ==
  /\ activity' \in ActivityState(versions')
  /\ activity'.feed = activity.feed /\ activity'.joined = activity.joined
  /\ activity'.subscribed = activity.subscribed
  /\ InsightAsks(activity')
LEMMA SameFeedInv ==
  ASSUME FeedInv, SameFeed, UNCHANGED <<log, listeners>>
  PROVE  FeedInv'
<1>1. LogOK(log') /\ Written' = Written
  BY DEF FeedInv, Written
<1> QED BY <1>1 DEF FeedInv, SameFeed

LEMMA SameInsight ==
  ASSUME NEW a, NEW b, InsightAsks(a),
         /\ b.asks = a.asks /\ b.asked = a.asked /\ b.insight = a.insight /\ b.calls = a.calls /\ b.lost = a.lost
  PROVE  InsightAsks(b)
BY DEF InsightAsks

LEMMA RerenderedFeed ==
  ASSUME FeedInv, ContextInv, ContextInv', versions <= versions',
         activity' \in {activity, Rerendered}, UNCHANGED <<log, listeners>>
  PROVE  FeedInv'
<1>1. activity \in ActivityState(versions')
  <2>1. versions \in Nat /\ versions' \in Nat
    BY Parameters DEF ContextInv
  <2> QED BY <2>1, MoreVersions DEF FeedInv
<1>2. activity' = activity \/ activity' = [activity EXCEPT !.effect = TRUE]
  BY DEF Rerendered
<1>3. /\ activity' \in ActivityState(versions') /\ activity'.feed = activity.feed /\ activity'.joined = activity.joined
      /\ activity'.subscribed = activity.subscribed /\ activity'.asks = activity.asks
      /\ activity'.asked = activity.asked /\ activity'.insight = activity.insight
      /\ activity'.calls = activity.calls /\ activity'.lost = activity.lost
  BY <1>1, <1>2 DEF ActivityState
<1>4. InsightAsks(activity')
  BY <1>3, SameInsight DEF FeedInv
<1> QED BY <1>3, <1>4, SameFeedInv DEF SameFeed

LEMMA EffectsFeed ==
  ASSUME FeedInv, ContextInv, Effects
  PROVE  FeedInv'
<1> DEFINE joined == IF activity.subscribed THEN activity.joined ELSE Written
<1>1. /\ versions' = versions /\ log' = log
      /\ listeners' = IF activity.subscribed THEN listeners ELSE listeners + 1
  BY DEF Effects, Activity, context
<1>2. Written \in Nat /\ Timer \in 0..versions /\ activity \in ActivityState(versions) /\ activity.joined \in Nat
  BY HeadOfLog, WrittenIsLatest, VersionsAreNat DEF FeedInv, Timer, ActivityState
<1>3. activity' = [activity EXCEPT !.effect = FALSE, !.timer = Timer, !.subscribed = TRUE, !.joined = joined]
  BY <1>2 DEF Effects, Activity, ActivityState
<1>4. listeners' = 1
  BY <1>1 DEF FeedInv
<1>5. joined \in Nat /\ (activity.subscribed => joined = activity.joined) /\ (~activity.subscribed => joined = Written)
  BY <1>2
<1> HIDE DEF joined
<1>6. /\ activity' \in ActivityState(versions) /\ activity'.feed = activity.feed /\ activity'.joined = joined
      /\ activity'.subscribed = TRUE /\ activity'.asks = activity.asks
      /\ activity'.asked = activity.asked /\ activity'.insight = activity.insight
      /\ activity'.calls = activity.calls /\ activity'.lost = activity.lost
  BY <1>2, <1>3, <1>5 DEF ActivityState
<1>7. InsightAsks(activity')
  BY <1>6, SameInsight DEF FeedInv
<1>8. LogOK(log') /\ Written' = Written /\ NewestFirst(activity'.feed)
  BY <1>1, <1>6 DEF FeedInv, Written
<1>9. Range(activity'.feed) = Range(log') \/ Written' = activity'.joined
  BY <1>1, <1>5, <1>6, <1>8 DEF FeedInv
<1> QED BY <1>1, <1>4, <1>6, <1>7, <1>8, <1>9 DEF FeedInv

LEMMA AskedFeed ==
  ASSUME FeedInv, ContextInv, NEW version \in 1..versions,
         UNCHANGED <<log, listeners, versions>>,
         \/ activity' = fetchInsight(version)
         \/ activity' = [fetchInsight(version) EXCEPT !.timer = 0]
  PROVE  FeedInv'
<1> DEFINE asks == activity.asks + 1
           call == [ask |-> asks, of |-> version, stage |-> "route"]
           calls == activity.calls \cup {call}
<1>1. activity \in ActivityState(versions) /\ version \in 0..versions /\ 0 \in 0..versions
  BY VersionsAreNat DEF FeedInv
<1>2. activity.asks \in Nat /\ activity.calls \in SUBSET InsightCall(versions)
      /\ activity.insight.ask \in Nat /\ activity.insight.seen \in Nat
  BY <1>1 DEF ActivityState
<1>3. call \in InsightCall(versions) /\ call.ask = asks /\ call.of = version /\ asks \in Nat /\ asks = activity.asks + 1
  BY <1>2 DEF InsightCall, InsightStages
<1>4. fetchInsight(version) =
        [activity EXCEPT !.loadingInsight = TRUE, !.asked = version, !.asks = asks, !.calls = calls]
  BY DEF fetchInsight
<1> HIDE DEF asks, call
<1>5. calls \in SUBSET InsightCall(versions) /\ (\A c \in calls : c \in activity.calls \/ c = call)
      /\ call \in calls /\ \A c \in activity.calls : c \in calls
  BY <1>2, <1>3
<1> HIDE DEF calls
<1> DEFINE next == [activity EXCEPT !.loadingInsight = TRUE, !.asked = version, !.asks = asks, !.calls = calls]
<1>6. /\ next \in ActivityState(versions) /\ next.feed = activity.feed /\ next.joined = activity.joined
      /\ next.subscribed = activity.subscribed /\ next.asks = asks /\ next.asked = version
      /\ next.insight = activity.insight /\ next.calls = calls /\ next.lost = activity.lost
  BY <1>1, <1>3, <1>5 DEF ActivityState
<1>7. activity' = next \/ activity' = [next EXCEPT !.timer = 0]
  BY <1>4
<1> HIDE DEF next
<1>8. /\ activity' \in ActivityState(versions) /\ activity'.feed = activity.feed /\ activity'.joined = activity.joined
      /\ activity'.subscribed = activity.subscribed /\ activity'.asks = asks /\ activity'.asked = version
      /\ activity'.insight = activity.insight /\ activity'.calls = calls /\ activity'.lost = activity.lost
  BY <1>1, <1>6, <1>7 DEF ActivityState
<1>9. InsightAsks(activity')
  <2>1. InsightAsks(activity)
    BY DEF FeedInv
  <2>2. activity.insight.ask <= activity.insight.seen /\ activity.insight.seen <= asks
        /\ activity.insight.ask # asks
    BY <1>2, <1>3, <2>1 DEF InsightAsks
  <2>3. ASSUME NEW n \in 1..asks, n > activity.insight.seen
        PROVE  (\E c \in calls : c.ask = n) \/ n \in activity.lost
    <3>1. CASE n = asks
      BY <1>3, <1>5, <3>1
    <3>2. CASE n # asks
      <4>1. n \in 1..activity.asks
        BY <1>2, <1>3, <3>2
      <4> QED BY <1>5, <2>1, <2>3, <4>1 DEF InsightAsks
    <3> QED BY <3>1, <3>2
  <2>4. ASSUME NEW c \in calls
        PROVE  c.ask \in 1..asks /\ (c.ask = asks => c.of = version)
    <3>1. CASE c = call
      BY <1>2, <1>3, <3>1
    <3>2. CASE c \in activity.calls
      <4>1. c.ask \in 1..activity.asks
        BY <2>1, <3>2 DEF InsightAsks
      <4> QED BY <1>2, <1>3, <4>1
    <3> QED BY <1>5, <3>1, <3>2
  <2> QED BY <1>8, <2>2, <2>3, <2>4 DEF InsightAsks
<1> QED BY <1>8, <1>9, SameFeedInv DEF SameFeed

LEMMA InsightStepFeed ==
  ASSUME FeedInv, ContextInv, InsightStep
  PROVE  FeedInv'
<1>1. PICK call \in activity.calls : \E out \in Outcomes(InsightsRoute, call) :
        activity' = IF out \in DOMAIN InsightsRoute
                    THEN [activity EXCEPT !.calls = Moves(@, call, out)] ELSE Shown(call, out)
  BY DEF InsightStep, Activity
<1>2. PICK out \in Outcomes(InsightsRoute, call) :
        activity' = IF out \in DOMAIN InsightsRoute
                    THEN [activity EXCEPT !.calls = Moves(@, call, out)] ELSE Shown(call, out)
  BY <1>1
<1>3. UNCHANGED <<log, listeners, versions>>
  BY DEF InsightStep, Activity, context
<1> DEFINE Call == InsightCall(versions)
<1>4. activity \in ActivityState(versions) /\ activity.calls \in SUBSET Call /\ call \in Call
      /\ call.stage \in InsightStages /\ call.of \in 0..versions /\ call.ask \in Nat
      /\ activity.asks \in Nat /\ activity.lost \in SUBSET Nat
      /\ activity.insight \in [ask : Nat, of : 0..versions, seen : Nat]
  BY VersionsAreNat DEF FeedInv, ActivityState, InsightCall
<1>5. InsightAsks(activity) /\ call \in activity.calls
  BY DEF FeedInv
<1>6. CASE out \in InsightStages
  <2> DEFINE next == [call EXCEPT !.stage = out]
             calls == (activity.calls \ {call}) \cup {next}
  <2>1. next \in Call /\ next.ask = call.ask /\ next.of = call.of
    BY <1>4, <1>6 DEF InsightCall
  <2>2. activity' = [activity EXCEPT !.calls = calls]
    BY <1>2, <1>6, InsightOutcomes DEF Moves
  <2> HIDE DEF next, Call
  <2>3. calls \in SUBSET Call /\ (\A c \in calls : c \in activity.calls \/ c = next)
        /\ next \in calls /\ \A c \in activity.calls : c \in calls \/ c = call
    BY <1>4, <2>1
  <2> HIDE DEF calls
  <2>4. /\ activity' \in ActivityState(versions) /\ activity'.feed = activity.feed /\ activity'.joined = activity.joined
        /\ activity'.subscribed = activity.subscribed /\ activity'.asks = activity.asks
        /\ activity'.asked = activity.asked /\ activity'.insight = activity.insight
        /\ activity'.calls = calls /\ activity'.lost = activity.lost
    BY <1>4, <2>2, <2>3 DEF ActivityState, Call
  <2>5. ASSUME NEW n \in 1..activity.asks, n > activity.insight.seen
        PROVE  (\E c \in calls : c.ask = n) \/ n \in activity.lost
    BY <1>5, <2>1, <2>3, <2>5 DEF InsightAsks
  <2>6. \A c \in calls : c.ask \in 1..activity.asks /\ (c.ask = activity.asks => c.of = activity.asked)
    BY <1>5, <2>1, <2>3 DEF InsightAsks
  <2>7. InsightAsks(activity')
    BY <1>5, <2>4, <2>5, <2>6 DEF InsightAsks
  <2> QED BY <1>3, <2>4, <2>7, SameFeedInv DEF SameFeed
<1>7. CASE out \notin InsightStages /\ out # "lost"
  <2> DEFINE calls == activity.calls \ {call}
             insight == [ask |-> call.ask, of |-> call.of, seen |-> activity.asks]
             none == {}
  <2>1. calls \in SUBSET Call /\ (\A c \in calls : c \in activity.calls) /\ none \in SUBSET Nat
    BY <1>4
  <2>2. insight \in [ask : Nat, of : 0..versions, seen : Nat]
        /\ insight.ask = call.ask /\ insight.of = call.of /\ insight.seen = activity.asks
    BY <1>4
  <2>3. activity' = [activity EXCEPT !.calls = calls, !.loadingInsight = FALSE, !.insight = insight, !.lost = none]
    BY <1>2, <1>7, InsightOutcomes DEF Shown
  <2> HIDE DEF calls, insight, none
  <2>4. /\ activity' \in ActivityState(versions) /\ activity'.feed = activity.feed /\ activity'.joined = activity.joined
        /\ activity'.subscribed = activity.subscribed /\ activity'.asks = activity.asks
        /\ activity'.asked = activity.asked /\ activity'.insight = insight /\ activity'.calls = calls
    BY <1>4, <2>1, <2>2, <2>3 DEF ActivityState
  <2>5. call.ask \in 1..activity.asks /\ (call.ask = activity.asks => call.of = activity.asked)
    BY <1>5 DEF InsightAsks
  <2>6. InsightAsks(activity')
    BY <1>4, <1>5, <2>1, <2>2, <2>4, <2>5 DEF InsightAsks
  <2> QED BY <1>3, <2>4, <2>6, SameFeedInv DEF SameFeed
<1>8. CASE out \notin InsightStages /\ out = "lost"
  <2> DEFINE calls == activity.calls \ {call}
             lost == activity.lost \cup {call.ask}
  <2>1. calls \in SUBSET Call /\ (\A c \in calls : c \in activity.calls) /\ lost \in SUBSET Nat
        /\ (\A c \in activity.calls : c \in calls \/ c.ask \in lost) /\ activity.lost \in SUBSET lost
    BY <1>4
  <2>2. activity' = [activity EXCEPT !.calls = calls, !.loadingInsight = FALSE, !.lost = lost]
    BY <1>2, <1>4, <1>8, InsightOutcomes DEF Shown, ActivityState
  <2> HIDE DEF calls, lost
  <2>3. /\ activity' \in ActivityState(versions) /\ activity'.feed = activity.feed /\ activity'.joined = activity.joined
        /\ activity'.subscribed = activity.subscribed /\ activity'.asks = activity.asks
        /\ activity'.asked = activity.asked /\ activity'.insight = activity.insight
        /\ activity'.calls = calls /\ activity'.lost = lost
    BY <1>4, <2>1, <2>2 DEF ActivityState
  <2>4. InsightAsks(activity')
    BY <1>5, <2>1, <2>3 DEF InsightAsks
  <2> QED BY <1>3, <2>3, <2>4, SameFeedInv DEF SameFeed
<1> QED BY <1>6, <1>7, <1>8

LEMMA FeedStays ==
  ASSUME FeedInv, ContextInv, [Next]_vars
  PROVE  FeedInv'
<1>1. ContextInv' /\ versions <= versions'
  BY ContextStays
<1>2. CASE UNCHANGED <<page, activity, log, listeners, vault, versions>>
  BY <1>2 DEF FeedInv, LogOK, Written
<1>3. CASE Left /\ UNCHANGED <<vault, versions>>
  BY <1>3, LeftFeed
<1>4. CASE LoadBegins
  BY <1>1, <1>4, RerenderedFeed DEF LoadBegins
<1>5. CASE VaultChanges
  BY <1>1, <1>5, RerenderedFeed DEF VaultChanges
<1>6. CASE TimerFires
  <2>1. activity.timer \in 1..versions
    BY <1>6, VersionsAreNat DEF TimerFires, FeedInv, ActivityState
  <2> QED BY <1>6, <2>1, AskedFeed DEF TimerFires, Activity, context
<1>7. CASE Refresh
  <2>1. vault \in 1..versions
    BY <1>7, VersionsAreNat DEF Refresh, InsightPanel
  <2> QED BY <1>7, <2>1, AskedFeed DEF Refresh, Activity, context
<1> QED BY <1>2, <1>3, <1>4, <1>5, <1>6, <1>7, ActivitySteps, appendLogFeed, EffectsFeed, InsightStepFeed

(* What VaultAsked speaks of, when the vault stays.                        *)
SameTimer ==
  /\ page' = page /\ vault' = vault /\ activity'.effect = activity.effect
  /\ activity'.timer = activity.timer /\ activity'.asked = activity.asked
LEMMA VaultAskedStays ==
  ASSUME VaultAsked, FeedInv, [Next]_vars
  PROVE  VaultAsked'
<1>1. activity \in ActivityState(versions)
  BY DEF FeedInv
<1>2. CASE SameTimer
  BY <1>2 DEF SameTimer, VaultAsked
<1>3. CASE UNCHANGED <<page, activity, log, listeners, vault, versions>>
  BY <1>3 DEF VaultAsked
<1>4. CASE Left
  <2>1. [NewActivity EXCEPT !.feed = getLog(log), !.effect = TRUE].effect = TRUE
    BY DEF NewActivity
  <2> QED BY <1>4, <2>1 DEF Left, VaultAsked
<1>5. CASE appendLog
  <2>1. activity' = activity \/ activity' = [activity EXCEPT !.feed = Notified(log'), !.joined = 0]
    BY <1>5 DEF appendLog
  <2>2. activity'.effect = activity.effect /\ activity'.timer = activity.timer /\ activity'.asked = activity.asked
    BY <1>1, <2>1 DEF ActivityState
  <2> QED BY <1>2, <1>5, <2>2 DEF appendLog, context, SameTimer
<1>6. CASE LoadBegins
  <2>1. vault' = 0 /\ page' = page /\ activity' = IF vault = 0 THEN activity ELSE Rerendered
    BY <1>6 DEF LoadBegins
  <2>2. CASE vault = 0
    BY <2>1, <2>2 DEF VaultAsked
  <2>3. CASE vault # 0
    BY <1>1, <2>1, <2>3 DEF VaultAsked, Rerendered, ActivityState
  <2> QED BY <2>2, <2>3
<1>7. CASE VaultChanges
  BY <1>1, <1>7 DEF VaultChanges, VaultAsked, Rerendered, ActivityState
<1>8. CASE Effects
  <2>1. vault' = vault /\ activity'.timer = vault
    BY <1>1, <1>8 DEF Effects, Activity, context, Timer, ActivityState
  <2> QED BY <2>1 DEF VaultAsked
<1>9. CASE TimerFires
  <2>1. vault' = vault /\ page' = page /\ activity.timer # 0
        /\ activity' = [fetchInsight(activity.timer) EXCEPT !.timer = 0]
    BY <1>9 DEF TimerFires, Activity, context
  <2>2. activity'.timer = 0 /\ activity'.asked = activity.timer /\ activity'.effect = activity.effect
    BY <1>1, <2>1 DEF fetchInsight, ActivityState
  <2> QED BY <2>1, <2>2 DEF VaultAsked
<1>10. CASE Refresh
  <2>1. vault' = vault /\ page' = page /\ activity' = fetchInsight(vault)
    BY <1>10 DEF Refresh, Activity, context
  <2>2. activity'.timer = activity.timer /\ activity'.asked = vault /\ activity'.effect = activity.effect
    BY <1>1, <2>1 DEF fetchInsight, ActivityState
  <2> QED BY <2>1, <2>2 DEF VaultAsked
<1>11. CASE InsightStep
  <2>1. PICK call \in activity.calls : \E out \in Outcomes(InsightsRoute, call) :
          activity' = IF out \in DOMAIN InsightsRoute
                      THEN [activity EXCEPT !.calls = Moves(@, call, out)] ELSE Shown(call, out)
    BY <1>11 DEF InsightStep, Activity
  <2>2. activity'.effect = activity.effect /\ activity'.timer = activity.timer /\ activity'.asked = activity.asked
    BY <1>1, <2>1 DEF Shown, ActivityState
  <2> QED BY <1>2, <1>11, <2>2 DEF InsightStep, Activity, context, SameTimer
<1> QED BY <1>3, <1>4, <1>5, <1>6, <1>7, <1>8, <1>9, <1>10, <1>11, ActivitySteps

LEMMA InsightsAreLast == ASSUME FeedInv, VaultAsked PROVE InsightIsLast
<1>1. OutrunOnly(activity.insight, activity.asks, Awaited(activity.calls), activity.lost)
  BY DEF FeedInv, InsightAsks, OutrunOnly, Awaited
<1> QED BY <1>1 DEF FeedInv, InsightAsks, VaultAsked, InsightIsLast

-----------------------------------------------------------------------------
(* The swap page.                                                          *)

(* The one call there may be is for the last request, and a quote on       *)
(* screen answers it; both are for the form, unless it drifted.            *)
SwapInv ==
  /\ swap \in SwapState /\ swap.asks <= acts /\ swap.locks <= acts
  /\ swap.quoteLoading <=> swap.calls # {}
  /\ \A call \in swap.calls : call.ask = swap.asks /\ swap.calls = {call}
  /\ swap.quote # NoQuote => swap.quote.ask = swap.asks /\ swap.calls = {}
  /\ ~swap.priceLoading => swap.loads <= 2
  /\ ~swap.drifted => /\ \A call \in swap.calls : call.form = swap.form
                      /\ swap.quote # NoQuote => swap.quote.form = swap.form

LEMMA NoQuoteIsQuote == NoQuote \in Quote
BY NoFormIsForm, Parameters DEF NoQuote, Quote

LEMMA NewSwapIs ==
  /\ NewSwap \in SwapState /\ NewSwap.asks = 0 /\ NewSwap.locks = 0 /\ NewSwap.quoteLoading = FALSE
  /\ NewSwap.calls = {} /\ NewSwap.quote = NoQuote /\ NewSwap.priceLoading = TRUE
BY NoFormIsForm, NoQuoteIsQuote DEF NewSwap, SwapState

LEMMA NewSwapInv ==
  ASSUME acts' \in Nat, swap' \in {NewSwap, [NewSwap EXCEPT !.loads = 1]}
  PROVE  SwapInv'
<1>1. swap' \in SwapState /\ swap'.asks = 0 /\ swap'.locks = 0 /\ swap'.quoteLoading = FALSE /\ swap'.calls = {}
      /\ swap'.quote = NoQuote /\ swap'.priceLoading = TRUE
  BY NewSwapIs DEF SwapState
<1> QED BY <1>1 DEF SwapInv

(* What does not touch the quote, its call or its count.                   *)
SameQuote ==
  /\ swap' \in SwapState /\ swap'.locks <= acts' /\ acts <= acts' /\ acts \in Nat /\ acts' \in Nat
  /\ swap'.quote = swap.quote /\ swap'.quoteLoading = swap.quoteLoading
  /\ swap'.asks = swap.asks /\ swap'.calls = swap.calls
  /\ ~swap'.drifted => ~swap.drifted /\ swap'.form = swap.form
  /\ ~swap'.priceLoading => swap'.loads <= 2
LEMMA SameQuoteInv == ASSUME SwapInv, SameQuote PROVE SwapInv'
<1>1. swap'.asks <= acts'
  BY DEF SwapInv, SameQuote, SwapState
<1>2. swap'.quote # NoQuote => swap'.quote.ask = swap'.asks /\ swap'.calls = {}
  BY DEF SwapInv, SameQuote
<1>3. \A call \in swap'.calls : call.ask = swap'.asks /\ swap'.calls = {call}
  BY DEF SwapInv, SameQuote
<1>4. swap'.quoteLoading <=> swap'.calls # {}
  BY DEF SwapInv, SameQuote
<1>5. ~swap'.drifted => /\ \A call \in swap'.calls : call.form = swap'.form
                        /\ swap'.quote # NoQuote => swap'.quote.form = swap'.form
  <2>1. SUFFICES ASSUME ~swap'.drifted
                 PROVE  /\ \A call \in swap'.calls : call.form = swap'.form
                        /\ swap'.quote # NoQuote => swap'.quote.form = swap'.form
    OBVIOUS
  <2>2. swap'.form = swap.form /\ swap'.calls = swap.calls /\ swap'.quote = swap.quote
    BY <2>1 DEF SameQuote
  <2>3. /\ \A call \in swap.calls : call.form = swap.form
        /\ swap.quote # NoQuote => swap.quote.form = swap.form
    BY <2>1 DEF SwapInv, SameQuote
  <2> QED BY <2>2, <2>3
<1>6. swap' \in SwapState /\ swap'.locks <= acts' /\ (~swap'.priceLoading => swap'.loads <= 2)
  BY DEF SameQuote
<1> QED BY <1>1, <1>2, <1>3, <1>4, <1>5, <1>6, Zenon DEF SwapInv

LEMMA EditInv ==
  ASSUME SwapInv, acts \in 0..MaxActs, NEW form \in Form, Edit(form)
  PROVE  SwapInv'
<1>1. swap' = [swap EXCEPT !.form = form, !.drifted = TRUE] /\ acts' = acts + 1 /\ acts \in Nat
  BY Parameters DEF Edit, Jupiter, Acts
<1>2. swap \in SwapState /\ swap.locks \in Nat /\ swap.locks <= acts /\ (~swap.priceLoading => swap.loads <= 2)
  BY DEF SwapInv, SwapState
<1>3. /\ swap' \in SwapState /\ swap'.locks = swap.locks /\ swap'.quote = swap.quote
      /\ swap'.quoteLoading = swap.quoteLoading /\ swap'.asks = swap.asks /\ swap'.calls = swap.calls
      /\ swap'.drifted = TRUE /\ swap'.priceLoading = swap.priceLoading /\ swap'.loads = swap.loads
  BY <1>1, <1>2 DEF SwapState
<1>4. swap'.locks <= acts' /\ acts <= acts' /\ acts' \in Nat
  BY <1>1, <1>2, <1>3
<1>5. SameQuote
  BY <1>1, <1>2, <1>3, <1>4 DEF SameQuote
<1> QED BY <1>5, SameQuoteInv

LEMMA FlipInv ==
  ASSUME SwapInv, acts \in 0..MaxActs, Flip
  PROVE  SwapInv'
<1> DEFINE f == [swap.form EXCEPT !.from = swap.form.to, !.to = swap.form.from]
           drifted == swap.quoteLoading
<1>1. acts' = acts + 1 /\ acts \in Nat /\ swap \in SwapState /\ swap.asks \in Nat /\ swap.locks \in Nat
      /\ swap.form \in Form /\ drifted \in BOOLEAN /\ (~drifted => swap.calls = {})
  BY Parameters DEF Flip, Acts, SwapInv, SwapState
<1>2. Flipped = [swap EXCEPT !.form = f, !.drifted = drifted]
  BY <1>1 DEF Flipped, SwapState, Form
<1>3. f \in Form
  BY <1>1 DEF Form
<1> HIDE DEF f, drifted
<1>4. swap' = [Flipped EXCEPT !.quote = NoQuote] /\ Flipped \in SwapState
  BY <1>1, <1>2, <1>3 DEF Flip, Jupiter, FlippedForm, SwapState
<1>5. swap' \in SwapState /\ swap'.quote = NoQuote /\ swap'.asks = swap.asks /\ swap'.locks = swap.locks
      /\ swap'.calls = swap.calls /\ swap'.quoteLoading = swap.quoteLoading /\ swap'.drifted = drifted
      /\ swap'.loads = swap.loads /\ swap'.priceLoading = swap.priceLoading
  BY <1>1, <1>2, <1>3, <1>4, NoQuoteIsQuote DEF SwapState
<1>6. ~swap'.drifted => \A call \in swap'.calls : call.form = swap'.form
  BY <1>1, <1>5
<1> QED BY <1>1, <1>5, <1>6 DEF SwapInv

LEMMA getQuoteInv ==
  ASSUME SwapInv, acts \in 0..MaxActs, getQuote
  PROVE  SwapInv'
<1> DEFINE asks == swap.asks + 1
           call == [ask |-> asks, form |-> swap.form]
           calls == swap.calls \cup {call}
<1>1. /\ swap' = [swap EXCEPT !.quoteLoading = TRUE, !.quote = NoQuote, !.asks = asks, !.drifted = FALSE,
                              !.calls = calls]
      /\ acts' = acts + 1 /\ acts < MaxActs /\ acts \in Nat /\ MaxActs \in Nat /\ ~swap.quoteLoading
  BY Parameters DEF getQuote, Jupiter, Acts, MayQuote
<1>2. swap \in SwapState /\ swap.asks \in Nat /\ swap.locks \in Nat /\ swap.form \in Form
  BY DEF SwapInv, SwapState
<1>3. swap.calls = {} /\ swap.asks <= acts /\ swap.locks <= acts
  BY <1>1 DEF SwapInv
<1>4. call \in Quote /\ call.ask = asks /\ call.form = swap.form /\ asks \in Nat /\ asks <= acts'
  BY <1>1, <1>2, <1>3 DEF Quote
<1>5. calls = {call} /\ calls \in SUBSET Quote
  BY <1>3, <1>4
<1> HIDE DEF asks, call, calls
<1>6. swap' \in SwapState /\ swap'.quote = NoQuote /\ swap'.asks = asks /\ swap'.locks = swap.locks
      /\ swap'.calls = calls /\ swap'.quoteLoading = TRUE /\ swap'.form = swap.form
      /\ swap'.loads = swap.loads /\ swap'.priceLoading = swap.priceLoading
  BY <1>1, <1>2, <1>4, <1>5, NoQuoteIsQuote DEF SwapState
<1>7. swap'.locks <= acts'
  BY <1>1, <1>2, <1>3, <1>6
<1> QED BY <1>4, <1>5, <1>6, <1>7 DEF SwapInv

LEMMA QuoteLandsInv ==
  ASSUME SwapInv, acts \in 0..MaxActs, QuoteLands
  PROVE  SwapInv'
<1>1. PICK call \in swap.calls : \E quote \in {call, NoQuote} :
        swap' = [swap EXCEPT !.calls = @ \ {call}, !.quoteLoading = FALSE, !.quote = quote]
  BY DEF QuoteLands, Jupiter
<1>2. PICK quote \in {call, NoQuote} :
        swap' = [swap EXCEPT !.calls = @ \ {call}, !.quoteLoading = FALSE, !.quote = quote]
  BY <1>1
<1>3. swap \in SwapState /\ call \in Quote /\ acts' = acts
  BY DEF SwapInv, SwapState, QuoteLands
<1>4. swap.calls = {call} /\ call.ask = swap.asks
  BY DEF SwapInv
<1>5. quote \in Quote
  BY <1>3, NoQuoteIsQuote
<1>6. swap' = [swap EXCEPT !.calls = {}, !.quoteLoading = FALSE, !.quote = quote]
  BY <1>2, <1>4
<1>7. swap' \in SwapState /\ swap'.quote = quote /\ swap'.asks = swap.asks /\ swap'.locks = swap.locks
      /\ swap'.calls = {} /\ swap'.quoteLoading = FALSE
      /\ swap'.form = swap.form /\ swap'.drifted = swap.drifted
      /\ swap'.loads = swap.loads /\ swap'.priceLoading = swap.priceLoading
  BY <1>3, <1>5, <1>6 DEF SwapState
<1>8. quote # NoQuote => quote.ask = swap.asks /\ (~swap.drifted => quote.form = swap.form)
  BY <1>2, <1>4 DEF SwapInv
<1> QED BY <1>3, <1>7, <1>8 DEF SwapInv

LEMMA handleSwapInv ==
  ASSUME SwapInv, acts \in 0..MaxActs, handleSwap
  PROVE  SwapInv'
<1> DEFINE locks == swap.locks + 1
<1>1. swap' = [swap EXCEPT !.feedback = TRUE, !.locks = locks] /\ acts' = acts + 1 /\ acts \in Nat
  BY Parameters DEF handleSwap, Jupiter, Acts
<1>2. swap \in SwapState /\ swap.locks \in Nat /\ swap.locks <= acts
  BY DEF SwapInv, SwapState
<1>3. locks \in Nat /\ locks <= acts' /\ acts <= acts' /\ acts' \in Nat
  BY <1>1, <1>2
<1> HIDE DEF locks
<1>4. SameQuote
  BY <1>1, <1>2, <1>3 DEF SameQuote, SwapInv, SwapState
<1> QED BY <1>4, SameQuoteInv

LEMMA FeedbackEndsInv ==
  ASSUME SwapInv, acts \in 0..MaxActs, FeedbackEnds
  PROVE  SwapInv'
<1> DEFINE locks == swap.locks - 1
<1>1. swap' = [swap EXCEPT !.feedback = FALSE, !.locks = locks] /\ acts' = acts /\ acts \in Nat
      /\ swap.locks > 0
  BY Parameters DEF FeedbackEnds, Jupiter
<1>2. swap \in SwapState /\ swap.locks \in Nat /\ swap.locks <= acts
  BY DEF SwapInv, SwapState
<1>3. locks \in Nat /\ locks <= acts' /\ acts <= acts' /\ acts' \in Nat
  BY <1>1, <1>2
<1> HIDE DEF locks
<1>4. SameQuote
  BY <1>1, <1>2, <1>3 DEF SameQuote, SwapInv, SwapState
<1> QED BY <1>4, SameQuoteInv

LEMMA loadPricesInv ==
  ASSUME SwapInv, acts \in 0..MaxActs, loadPrices
  PROVE  SwapInv'
<1> DEFINE loads == swap.loads + 1
<1>1. /\ swap' = [swap EXCEPT !.priceLoading = TRUE, !.loads = loads]
      /\ acts' \in {acts, acts + 1} /\ acts \in Nat
      /\ swap.loads < 2 \/ ~swap.priceLoading
  BY Parameters DEF loadPrices, Jupiter, Acts
<1>2. swap \in SwapState /\ swap.locks \in Nat /\ swap.locks <= acts /\ swap.loads \in 0..3
  BY DEF SwapInv, SwapState
<1>3. loads \in 0..3 /\ swap.locks <= acts' /\ acts <= acts' /\ acts' \in Nat
  <2>1. swap.loads <= 2
    BY <1>1, <1>2 DEF SwapInv
  <2> QED BY <1>1, <1>2, <2>1
<1> HIDE DEF loads
<1>4. SameQuote
  BY <1>1, <1>2, <1>3 DEF SameQuote, SwapInv, SwapState
<1> QED BY <1>4, SameQuoteInv

LEMMA PricesLandInv ==
  ASSUME SwapInv, acts \in 0..MaxActs, PricesLand
  PROVE  SwapInv'
<1> DEFINE loads == swap.loads - 1
<1>1. PICK prices \in {"live", "fallback"} :
        swap' = [swap EXCEPT !.loads = loads, !.priceLoading = FALSE, !.prices = prices]
  BY DEF PricesLand, Jupiter
<1>2. swap \in SwapState /\ swap.locks \in Nat /\ swap.locks <= acts /\ swap.loads \in 0..3 /\ acts' = acts
      /\ swap.loads > 0 /\ acts \in Nat
  BY Parameters DEF SwapInv, SwapState, PricesLand
<1>3. loads \in 0..2 /\ loads \in 0..3 /\ loads <= 2 /\ acts <= acts'
  BY <1>2
<1> HIDE DEF loads
<1>4. SameQuote
  BY <1>1, <1>2, <1>3 DEF SameQuote, SwapInv, SwapState
<1> QED BY <1>4, SameQuoteInv

LEMMA SwapStays ==
  ASSUME SwapInv, acts \in 0..MaxActs, [Next]_vars
  PROVE  SwapInv'
<1>1. acts' \in Nat /\ acts \in Nat /\ acts <= acts'
  BY ActsGrow, Parameters
<1>2. CASE swap' = swap
  <2>1. swap.asks \in Nat /\ swap.locks \in Nat
    BY DEF SwapInv, SwapState
  <2>2. swap.asks <= acts' /\ swap.locks <= acts'
    BY <1>1, <2>1 DEF SwapInv
  <2> QED BY <1>2, <2>2 DEF SwapInv
<1>3. CASE swap' \in {NewSwap, [NewSwap EXCEPT !.loads = 1]}
  BY <1>1, <1>3, NewSwapInv
<1> QED BY <1>2, <1>3, SwapSteps, EditInv, FlipInv, getQuoteInv, handleSwapInv, QuoteLandsInv, PricesLandInv,
           loadPricesInv, FeedbackEndsInv

LEMMA QuotesAreLatest == ASSUME SwapInv PROVE QuoteIsLatest
BY DEF SwapInv, QuoteIsLatest, QuoteCard

-----------------------------------------------------------------------------
(* The treasury page.                                                      *)

(* The flags are up exactly as long as their calls, and of insights and of *)
(* tags there is one at most.                                              *)
Working(t) ==
  /\ t.isIngesting => \E c \in t.calls : c.stage = "ingest"
  /\ t.isAnalyzing => \E c \in t.calls : c.stage = "analyze"
Generating(t) ==
  /\ t.isGeneratingInsights <=> \E c \in t.calls : c.stage = "insights"
  /\ \A c, d \in t.calls : c.stage = "insights" /\ d.stage = "insights" => c = d
Tagging(t) ==
  /\ t.submitting <=> \E c \in t.calls : c.tag
  /\ \A c, d \in t.calls : c.tag /\ d.tag => c = d
  /\ \A c \in t.calls : c.tag => c.stage \in {"tag", "analyze"}
  /\ t.submitting => ~t.done
  /\ ~t.done => t.closing = 0

(* What was run after the analysis on screen landed is under way or failed;*)
(* what was called after the last run, and an analysis of it, has its      *)
(* range.                                                                  *)
IsRun(c) == ~c.tag /\ c.stage \in {"ingest", "analyze"}
RunsAsked(t) ==
  /\ t.analysis.ask <= t.analysis.seen /\ t.analysis.seen <= t.asks
  /\ \A n \in 1..t.asks : n > t.analysis.seen => (\E c \in t.calls : IsRun(c) /\ c.ask = n) \/ n \in t.failed
  /\ \A c \in t.calls : c.ask <= t.asks /\ (c.ask = t.asks => c.range = t.range)
  /\ t.analysis.ask = t.asks => t.analysis.range = t.range

(* Before the first analysis there is one run at a time and nothing else,  *)
(* and without it an error.                                                *)
FirstRun(t) == \E c \in t.calls :
  /\ t.calls = {c} /\ IsRun(c)
  /\ c.stage = "ingest" => t.isIngesting
  /\ c.stage = "analyze" => t.isAnalyzing
Blank(t) ==
  /\ t.analysis = NoAnalysis => FirstRun(t) \/ (t.calls = {} /\ (t.asks = 0 \/ t.error))
  /\ t.analysis # NoAnalysis => t.analysis.found # "none"
  /\ t.target => t.analysis # NoAnalysis
TreasuryGood(t) ==
  t \in TreasuryState /\ Working(t) /\ Generating(t) /\ Tagging(t) /\ RunsAsked(t) /\ Blank(t)

LEMMA NoAnalysisIs == NoAnalysis \in Analysis /\ NoAnalysis.found = "none"
BY Parameters DEF NoAnalysis, Analysis

(* The types of the parts.                                                 *)
LEMMA TreasuryParts ==
  ASSUME NEW t \in TreasuryState
  PROVE  /\ t.calls \in SUBSET TreasuryCall /\ t.range \in Ranges /\ t.analysis \in Analysis
         /\ t.isIngesting \in BOOLEAN /\ t.isAnalyzing \in BOOLEAN /\ t.asks \in Nat /\ t.failed \in SUBSET Nat
         /\ t.analysis.ask \in Nat /\ t.analysis.seen \in Nat
         /\ \A c \in t.calls : c.ask \in Nat /\ c.tag \in BOOLEAN /\ c.range \in Ranges
BY DEF TreasuryState, TreasuryCall, Analysis

LEMMA NewTreasuryGood ==
  /\ TreasuryGood(NewTreasury)
  /\ NewTreasury.calls = {} /\ NewTreasury.asks = 0
<1> DEFINE t == NewTreasury
<1>1. t \in TreasuryState
  BY NoAnalysisIs, Parameters DEF NewTreasury, TreasuryState, Tabs
<1>2. /\ t.calls = {} /\ t.asks = 0 /\ ~t.isIngesting /\ ~t.isAnalyzing
      /\ ~t.isGeneratingInsights /\ ~t.submitting /\ t.closing = 0 /\ ~t.target
      /\ t.analysis = NoAnalysis /\ t.range = Month
  BY DEF NewTreasury
<1>3. NoAnalysis.range = Month /\ NoAnalysis.ask = 0 /\ NoAnalysis.seen = 0
  BY DEF NoAnalysis
<1> HIDE DEF t
<1>4. RunsAsked(t)
  BY <1>2, <1>3 DEF RunsAsked
<1>5. Blank(t)
  BY <1>2 DEF Blank
<1>6. Working(t) /\ Generating(t) /\ Tagging(t)
  BY <1>2 DEF Working, Generating, Tagging
<1>7. TreasuryGood(t)
  BY <1>1, <1>4, <1>5, <1>6 DEF TreasuryGood
<1> QED BY <1>2, <1>7 DEF t

LEMMA RunGood ==
  ASSUME NEW t, TreasuryGood(t), NEW range \in Ranges, t.analysis = NoAnalysis => t.calls = {}
  PROVE  TreasuryGood(runFullAnalysis(t, range)) /\ runFullAnalysis(t, range).asks = t.asks + 1
<1> DEFINE asks == t.asks + 1
           call == [ask |-> asks, tag |-> FALSE, stage |-> "ingest", range |-> range]
           calls == t.calls \cup {call}
           u == runFullAnalysis(t, range)
<1>1. t \in TreasuryState /\ t.calls \in SUBSET TreasuryCall /\ t.asks \in Nat
      /\ t.analysis.ask \in Nat /\ t.analysis.seen \in Nat
  BY TreasuryParts DEF TreasuryGood
<1>2. call \in TreasuryCall /\ call.tag = FALSE /\ call.stage = "ingest" /\ call.range = range /\ call.ask = asks
      /\ asks \in Nat /\ asks = t.asks + 1
  BY <1>1 DEF TreasuryCall
<1>3. u = [t EXCEPT !.range = range, !.isIngesting = TRUE, !.error = FALSE, !.asks = asks, !.calls = calls]
  BY <1>1 DEF runFullAnalysis, TreasuryState
<1> HIDE DEF asks
<1>4. calls \in SUBSET TreasuryCall
  BY <1>1, <1>2
<1>5. call \in calls /\ (\A c \in calls : c \in t.calls \/ c = call) /\ (\A c \in t.calls : c \in calls)
      /\ (t.calls = {} => calls = {call})
  OBVIOUS
<1> HIDE DEF call, calls, u
<1>6. /\ u \in TreasuryState /\ u.range = range /\ u.isIngesting = TRUE /\ u.asks = asks /\ u.calls = calls
      /\ u.isAnalyzing = t.isAnalyzing /\ u.isGeneratingInsights = t.isGeneratingInsights
      /\ u.submitting = t.submitting /\ u.done = t.done /\ u.closing = t.closing
      /\ u.analysis = t.analysis /\ u.failed = t.failed /\ u.target = t.target
  BY <1>1, <1>2, <1>3, <1>4 DEF TreasuryState
<1>7. Working(u)
  BY <1>2, <1>5, <1>6 DEF TreasuryGood, Working
<1>8. Generating(u)
  BY <1>2, <1>5, <1>6 DEF TreasuryGood, Generating
<1>9. Tagging(u)
  BY <1>2, <1>5, <1>6 DEF TreasuryGood, Tagging
<1>10. RunsAsked(u)
  <2>1. RunsAsked(t)
    BY DEF TreasuryGood
  <2>2. t.analysis.ask <= t.analysis.seen /\ t.analysis.seen <= asks /\ t.analysis.ask # asks
    BY <1>1, <1>2, <2>1 DEF RunsAsked
  <2>3. ASSUME NEW n \in 1..asks, n > t.analysis.seen
        PROVE  (\E c \in calls : IsRun(c) /\ c.ask = n) \/ n \in t.failed
    <3>1. CASE n = asks
      <4>1. IsRun(call)
        BY <1>2 DEF IsRun
      <4> QED BY <1>2, <1>5, <3>1, <4>1
    <3>2. CASE n # asks
      <4>1. n \in 1..t.asks
        BY <1>1, <1>2, <3>2
      <4> QED BY <1>5, <2>1, <2>3, <4>1 DEF RunsAsked
    <3> QED BY <3>1, <3>2
  <2>4. ASSUME NEW c \in calls
        PROVE  c.ask <= asks /\ (c.ask = asks => c.range = range)
    <3>1. CASE c = call
      BY <1>2, <3>1
    <3>2. CASE c \in t.calls
      <4>1. c.ask \in Nat /\ c.ask <= t.asks
        BY <1>1, <2>1, <3>2 DEF RunsAsked, TreasuryCall
      <4> QED BY <1>1, <1>2, <4>1
    <3> QED BY <1>5, <3>1, <3>2
  <2> QED BY <1>6, <2>2, <2>3, <2>4 DEF RunsAsked
<1>11. Blank(u)
  <2>1. ASSUME u.analysis = NoAnalysis PROVE FirstRun(u)
    BY <1>2, <1>5, <1>6, <2>1 DEF FirstRun, IsRun
  <2> QED BY <1>6, <2>1 DEF TreasuryGood, Blank
<1> QED BY <1>2, <1>6, <1>7, <1>8, <1>9, <1>10, <1>11 DEF TreasuryGood, u

(* What touches no call and no flag of one.                                *)
LEMMA QuietGood ==
  ASSUME NEW t, TreasuryGood(t), NEW u \in TreasuryState,
         /\ u.range = t.range /\ u.analysis = t.analysis /\ u.isIngesting = t.isIngesting
         /\ u.isAnalyzing = t.isAnalyzing /\ u.isGeneratingInsights = t.isGeneratingInsights
         /\ u.error = t.error /\ u.calls = t.calls /\ u.asks = t.asks /\ u.failed = t.failed
         /\ u.submitting = t.submitting /\ u.done = t.done,
         ~t.done => u.closing = t.closing,
         u.target => t.target \/ t.analysis # NoAnalysis
  PROVE  TreasuryGood(u)
<1>1. Working(u) /\ Generating(u) /\ Tagging(u)
  BY DEF TreasuryGood, Working, Generating, Tagging
<1>2. RunsAsked(u)
  BY DEF TreasuryGood, RunsAsked
<1>3. Blank(u)
  BY DEF TreasuryGood, Blank, FirstRun
<1> QED BY <1>1, <1>2, <1>3 DEF TreasuryGood

(* A call for insights or a tag, beside an analysis on screen.             *)
LEMMA BesideGood ==
  ASSUME NEW t, TreasuryGood(t), NEW call \in TreasuryCall, t.analysis # NoAnalysis,
         call.ask = t.asks, call.range = t.range,
         NEW u \in TreasuryState,
         /\ u.range = t.range /\ u.analysis = t.analysis /\ u.asks = t.asks /\ u.failed = t.failed
         /\ u.calls = t.calls \cup {call}
  PROVE  RunsAsked(u) /\ Blank(u)
<1>1. (\A c \in u.calls : c \in t.calls \/ c = call) /\ \A c \in t.calls : c \in u.calls
  OBVIOUS
<1>2. t.asks \in Nat /\ RunsAsked(t) /\ Blank(t)
  BY TreasuryParts DEF TreasuryGood
<1>3. ASSUME NEW c \in u.calls PROVE c.ask <= u.asks /\ (c.ask = u.asks => c.range = u.range)
  BY <1>1, <1>2 DEF RunsAsked
<1>4. ASSUME NEW n \in 1..u.asks, n > u.analysis.seen
      PROVE  (\E c \in u.calls : IsRun(c) /\ c.ask = n) \/ n \in u.failed
  BY <1>1, <1>2, <1>4 DEF RunsAsked
<1>5. RunsAsked(u)
  BY <1>2, <1>3, <1>4 DEF RunsAsked
<1>6. Blank(u)
  BY <1>2 DEF Blank
<1> QED BY <1>5, <1>6

LEMMA generateInsightsGood ==
  ASSUME TreasuryGood(treasury), generateInsights
  PROVE  TreasuryGood(treasury')
<1> DEFINE t == treasury
           u == treasury'
           call == [ask |-> t.asks, tag |-> FALSE, stage |-> "insights", range |-> t.range]
           calls == t.calls \cup {call}
<1>1. t \in TreasuryState /\ t.calls \in SUBSET TreasuryCall /\ t.range \in Ranges /\ t.asks \in Nat
  BY TreasuryParts DEF TreasuryGood
<1>2. ~t.isGeneratingInsights /\ t.analysis # NoAnalysis
  <2>1. Header.insights => ~t.isGeneratingInsights /\ t.analysis # NoAnalysis
    BY DEF Header
  <2>2. ASSUME Content = "generate"
        PROVE  ~t.isGeneratingInsights /\ t.analysis # NoAnalysis
    <3>1. t.tab \in {"transactions", "recurring", "insights"}
      BY <1>1 DEF TreasuryState, Tabs
    <3>2. TransactionsTab # "generate" /\ RecurringTab # "generate"
      BY DEF TransactionsTab, RecurringTab
    <3>3. t.analysis # NoAnalysis
      BY <2>2 DEF Content
    <3>4. t.tab = "insights" /\ Content = InsightsTab
      BY <2>2, <3>1, <3>2, <3>3 DEF Content
    <3>5. InsightsTab = "generate"
      BY <2>2, <3>4
    <3> QED BY <3>3, <3>5 DEF InsightsTab
  <2> QED BY <2>1, <2>2 DEF generateInsights
<1>3. call \in TreasuryCall /\ call.tag = FALSE /\ call.stage = "insights" /\ call.ask = t.asks /\ call.range = t.range
  BY <1>1 DEF TreasuryCall
<1>4. u = [t EXCEPT !.isGeneratingInsights = TRUE, !.error = FALSE, !.calls = calls]
  BY <1>1 DEF generateInsights, TreasuryPage, TreasuryState
<1>5. calls \in SUBSET TreasuryCall
  BY <1>1, <1>3
<1>6. call \in calls /\ (\A c \in calls : c \in t.calls \/ c = call) /\ \A c \in t.calls : c \in calls
  OBVIOUS
<1>7. calls = t.calls \cup {call}
  OBVIOUS
<1> HIDE DEF call, calls
<1>8. /\ u \in TreasuryState /\ u.range = t.range /\ u.isIngesting = t.isIngesting /\ u.asks = t.asks
      /\ u.calls = calls /\ u.isAnalyzing = t.isAnalyzing /\ u.isGeneratingInsights = TRUE
      /\ u.submitting = t.submitting /\ u.done = t.done /\ u.closing = t.closing /\ u.analysis = t.analysis
      /\ u.failed = t.failed
  BY <1>1, <1>4, <1>5 DEF TreasuryState
<1> HIDE DEF t, u
<1>9. TreasuryGood(t)
  BY DEF t
<1>10. Working(u)
  BY <1>6, <1>8, <1>9 DEF TreasuryGood, Working
<1>11. Generating(u)
  BY <1>2, <1>3, <1>6, <1>8, <1>9 DEF TreasuryGood, Generating
<1>12. Tagging(u)
  BY <1>3, <1>6, <1>8, <1>9 DEF TreasuryGood, Tagging
<1>13. RunsAsked(u) /\ Blank(u)
  BY <1>2, <1>3, <1>7, <1>8, <1>9, BesideGood
<1>14. TreasuryGood(u)
  BY <1>8, <1>10, <1>11, <1>12, <1>13 DEF TreasuryGood
<1> QED BY <1>14 DEF u

LEMMA handleSubmitGood ==
  ASSUME TreasuryGood(treasury), handleSubmit
  PROVE  TreasuryGood(treasury')
<1> DEFINE t == treasury
           u == treasury'
           call == [ask |-> t.asks, tag |-> TRUE, stage |-> "tag", range |-> t.range]
           calls == t.calls \cup {call}
<1>1. t \in TreasuryState /\ t.calls \in SUBSET TreasuryCall /\ t.range \in Ranges /\ t.asks \in Nat
  BY TreasuryParts DEF TreasuryGood
<1>2. ~t.submitting /\ ~t.done /\ t.analysis # NoAnalysis
  BY DEF handleSubmit, TagModal, TreasuryGood, Blank
<1>3. call \in TreasuryCall /\ call.tag = TRUE /\ call.stage = "tag" /\ call.ask = t.asks /\ call.range = t.range
  BY <1>1 DEF TreasuryCall
<1>4. u = [t EXCEPT !.submitting = TRUE, !.calls = calls]
  BY <1>1 DEF handleSubmit, TreasuryPage, TreasuryState, ActiveRange
<1>5. calls \in SUBSET TreasuryCall
  BY <1>1, <1>3
<1>6. call \in calls /\ (\A c \in calls : c \in t.calls \/ c = call) /\ \A c \in t.calls : c \in calls
  OBVIOUS
<1>7. calls = t.calls \cup {call}
  OBVIOUS
<1> HIDE DEF call, calls
<1>8. /\ u \in TreasuryState /\ u.range = t.range /\ u.isIngesting = t.isIngesting /\ u.asks = t.asks
      /\ u.calls = calls /\ u.isAnalyzing = t.isAnalyzing /\ u.isGeneratingInsights = t.isGeneratingInsights
      /\ u.submitting = TRUE /\ u.done = t.done /\ u.closing = t.closing /\ u.analysis = t.analysis
      /\ u.failed = t.failed
  BY <1>1, <1>4, <1>5 DEF TreasuryState
<1> HIDE DEF t, u
<1>9. TreasuryGood(t)
  BY DEF t
<1>10. Working(u)
  BY <1>6, <1>8, <1>9 DEF TreasuryGood, Working
<1>11. Generating(u)
  BY <1>3, <1>6, <1>8, <1>9 DEF TreasuryGood, Generating
<1>12. Tagging(u)
  BY <1>2, <1>3, <1>6, <1>8, <1>9 DEF TreasuryGood, Tagging
<1>13. RunsAsked(u) /\ Blank(u)
  BY <1>2, <1>3, <1>7, <1>8, <1>9, BesideGood
<1>14. TreasuryGood(u)
  BY <1>8, <1>10, <1>11, <1>12, <1>13 DEF TreasuryGood
<1> QED BY <1>14 DEF u

(* A request for insights is over; there was one only beside an analysis.  *)
LEMMA InsightsEnd ==
  ASSUME NEW t, TreasuryGood(t), NEW call \in t.calls, call.stage = "insights",
         NEW u \in TreasuryState,
         (\A c \in u.calls : c \in t.calls /\ c # call) /\ (\A c \in t.calls : c # call => c \in u.calls),
         /\ u.range = t.range /\ u.isIngesting = t.isIngesting /\ u.asks = t.asks
         /\ u.isAnalyzing = t.isAnalyzing /\ u.isGeneratingInsights = FALSE
         /\ u.submitting = t.submitting /\ u.done = t.done /\ u.closing = t.closing
         /\ u.failed = t.failed /\ u.target = t.target,
         /\ u.analysis.ask = t.analysis.ask /\ u.analysis.seen = t.analysis.seen
         /\ u.analysis.range = t.analysis.range /\ u.analysis.found = t.analysis.found
  PROVE  TreasuryGood(u)
<1>1. ~call.tag
  BY DEF TreasuryGood, Tagging
<1>2. Working(u)
  BY DEF TreasuryGood, Working
<1>3. Generating(u)
  BY DEF TreasuryGood, Generating
<1>4. Tagging(u)
  BY <1>1 DEF TreasuryGood, Tagging
<1>5. RunsAsked(t) /\ Blank(t) /\ ~IsRun(call)
  BY DEF TreasuryGood, IsRun
<1>6. RunsAsked(u)
  BY <1>5 DEF RunsAsked
<1>7. t.analysis # NoAnalysis
  BY <1>5 DEF Blank, FirstRun
<1>8. u.analysis # NoAnalysis /\ u.analysis.found # "none"
  BY <1>5, <1>7, NoAnalysisIs DEF Blank
<1>9. Blank(u)
  BY <1>8 DEF Blank
<1> QED BY <1>2, <1>3, <1>4, <1>6, <1>9 DEF TreasuryGood

(* A run or the run after a tag is over: with an analysis, or with an error*)
(* and, of a run, among those that failed.                                 *)
Analyzed(t, u, call) ==
  u.analysis.ask = call.ask /\ u.analysis.seen = t.asks /\ u.analysis.range = call.range /\ u.analysis.found # "none"
WithError(t, u, call) ==
  u.analysis = t.analysis /\ u.error /\ t.failed \subseteq u.failed /\ (~call.tag => call.ask \in u.failed)
LEMMA RunEnds ==
  ASSUME NEW t, TreasuryGood(t), NEW call \in t.calls, call.stage # "insights",
         NEW u \in TreasuryState,
         /\ u.calls = t.calls \ {call} /\ u.range = t.range /\ u.asks = t.asks
         /\ u.isGeneratingInsights = t.isGeneratingInsights,
         u.isIngesting => t.isIngesting /\ call.stage # "ingest",
         u.isAnalyzing => t.isAnalyzing /\ call.stage # "analyze",
         call.tag => u.done /\ ~u.submitting,
         ~call.tag => u.done = t.done /\ u.submitting = t.submitting /\ u.closing = t.closing,
         u.target => t.target,
         Analyzed(t, u, call) \/ WithError(t, u, call)
  PROVE  TreasuryGood(u)
<1>1. (\A c \in u.calls : c \in t.calls) /\ \A c \in t.calls : c # call => c \in u.calls
  OBVIOUS
<1>2. Working(u)
  BY <1>1 DEF TreasuryGood, Working
<1>3. Generating(u)
  BY <1>1 DEF TreasuryGood, Generating
<1>4. Tagging(u)
  <2>1. CASE call.tag
    <3>1. \A c \in u.calls : ~c.tag
      BY <1>1, <2>1 DEF TreasuryGood, Tagging
    <3> QED BY <2>1, <3>1 DEF Tagging
  <2>2. CASE ~call.tag
    BY <1>1, <2>2 DEF TreasuryGood, Tagging
  <2> QED BY <2>1, <2>2
<1>5. RunsAsked(t) /\ Blank(t) /\ t.asks \in Nat
  BY TreasuryParts DEF TreasuryGood
<1>6. /\ call.ask \in Nat /\ call.ask <= t.asks /\ (call.ask = t.asks => call.range = t.range)
      /\ \A c \in u.calls : c.ask <= t.asks /\ (c.ask = t.asks => c.range = t.range)
  BY <1>1, <1>5, TreasuryParts DEF TreasuryGood, RunsAsked
<1>7. CASE Analyzed(t, u, call)
  <2>1. RunsAsked(u)
    BY <1>5, <1>6, <1>7 DEF Analyzed, RunsAsked
  <2>2. Blank(u)
    BY <1>7, NoAnalysisIs DEF Analyzed, Blank
  <2> QED BY <1>2, <1>3, <1>4, <2>1, <2>2 DEF TreasuryGood
<1>8. CASE WithError(t, u, call)
  <2>1. ASSUME NEW n \in 1..t.asks, n > t.analysis.seen
        PROVE  (\E c \in u.calls : IsRun(c) /\ c.ask = n) \/ n \in u.failed
    <3>1. CASE n \in t.failed
      BY <1>8, <3>1 DEF WithError
    <3>2. CASE n \notin t.failed
      <4>1. PICK c \in t.calls : IsRun(c) /\ c.ask = n
        BY <1>5, <2>1, <3>2 DEF RunsAsked
      <4>2. CASE c = call
        BY <1>8, <4>1, <4>2 DEF WithError, IsRun
      <4>3. CASE c # call
        BY <1>1, <4>1, <4>3
      <4> QED BY <4>2, <4>3
    <3> QED BY <3>1, <3>2
  <2>2. RunsAsked(u)
    BY <1>5, <1>6, <1>8, <2>1 DEF WithError, RunsAsked
  <2>3. Blank(u)
    <3>1. ASSUME u.analysis = NoAnalysis PROVE u.calls = {} /\ u.error
      BY <1>5, <1>8, <3>1 DEF WithError, Blank, FirstRun
    <3> QED BY <1>5, <1>8, <3>1 DEF WithError, Blank
  <2> QED BY <1>2, <1>3, <1>4, <2>2, <2>3 DEF TreasuryGood
<1> QED BY <1>7, <1>8

(* The dialog closes once more only if it is not about to.                 *)
LEMMA DialogCloses ==
  ASSUME NEW t, TreasuryGood(t), NEW call \in t.calls, call.tag
  PROVE  t.closing + 1 \in 0..1
<1>1. t.closing = 0
  BY DEF TreasuryGood, Tagging
<1> QED BY <1>1

LEMMA ProceedsGood ==
  ASSUME TreasuryGood(treasury), NEW call \in treasury.calls, call.stage \in {"ingest", "tag"}
  PROVE  TreasuryGood(Proceeds(call))
<1> DEFINE t == treasury
           u == Proceeds(call)
           next == [call EXCEPT !.stage = "analyze"]
           calls == (t.calls \ {call}) \cup {next}
           ingesting == IF call.tag THEN t.isIngesting ELSE FALSE
<1>1. t \in TreasuryState /\ t.calls \in SUBSET TreasuryCall /\ t.isIngesting \in BOOLEAN
  BY DEF TreasuryGood, TreasuryState
<1>2. next \in TreasuryCall /\ next.tag = call.tag /\ next.stage = "analyze" /\ next.range = call.range
      /\ next.ask = call.ask
  BY <1>1 DEF TreasuryCall
<1>3. u = [t EXCEPT !.calls = calls, !.isIngesting = ingesting, !.isAnalyzing = TRUE, !.error = FALSE]
  BY <1>1 DEF Proceeds, TreasuryState
<1>4. calls \in SUBSET TreasuryCall /\ ingesting \in BOOLEAN
  BY <1>1, <1>2
<1>5. /\ next \in calls /\ \A c \in calls : (c \in t.calls /\ c # call) \/ c = next
      /\ \A c \in t.calls : c # call => c \in calls
      /\ \A c \in t.calls : t.calls = {c} => calls = {next}
  OBVIOUS
<1>6. ingesting => call.tag /\ t.isIngesting
  OBVIOUS
<1> HIDE DEF next, calls, ingesting
<1>7. /\ u \in TreasuryState /\ u.range = t.range /\ u.isIngesting = ingesting /\ u.asks = t.asks
      /\ u.calls = calls /\ u.isAnalyzing = TRUE /\ u.isGeneratingInsights = t.isGeneratingInsights
      /\ u.submitting = t.submitting /\ u.done = t.done /\ u.closing = t.closing
      /\ u.analysis = t.analysis /\ u.failed = t.failed /\ u.target = t.target
  BY <1>1, <1>3, <1>4 DEF TreasuryState
<1>8. TreasuryGood(t) /\ call \in t.calls
  OBVIOUS
<1> HIDE DEF t, u
<1>9. Working(u)
  <2>1. ingesting => call.stage # "ingest" \/ \E c \in t.calls : c.stage = "ingest" /\ c # call
    <3>1. ASSUME call.tag PROVE call.stage = "tag"
      BY <1>8, <3>1 DEF TreasuryGood, Tagging
    <3> QED BY <1>6, <3>1
  <2> QED BY <1>2, <1>5, <1>6, <1>7, <1>8, <2>1 DEF TreasuryGood, Working
<1>10. Generating(u)
  BY <1>2, <1>5, <1>7, <1>8 DEF TreasuryGood, Generating
<1>11. Tagging(u)
  BY <1>2, <1>5, <1>7, <1>8 DEF TreasuryGood, Tagging
<1>12. RunsAsked(t) /\ Blank(t) /\ call.tag \in BOOLEAN
  BY <1>8, TreasuryParts DEF TreasuryGood
<1>13. RunsAsked(u)
  <2>1. ASSUME NEW n \in 1..t.asks, n > t.analysis.seen
        PROVE  (\E c \in calls : IsRun(c) /\ c.ask = n) \/ n \in t.failed
    <3>1. CASE n \in t.failed
      BY <3>1
    <3>2. CASE n \notin t.failed
      <4>1. PICK c \in t.calls : IsRun(c) /\ c.ask = n
        BY <1>12, <2>1, <3>2 DEF RunsAsked
      <4>2. CASE c = call
        <5>1. IsRun(next)
          BY <1>2, <4>1, <4>2 DEF IsRun
        <5> QED BY <1>2, <1>5, <4>1, <4>2, <5>1
      <4>3. CASE c # call
        BY <1>5, <4>1, <4>3
      <4> QED BY <4>2, <4>3
    <3> QED BY <3>1, <3>2
  <2>2. \A c \in calls : c.ask <= t.asks /\ (c.ask = t.asks => c.range = t.range)
    BY <1>2, <1>5, <1>8, <1>12 DEF RunsAsked
  <2> QED BY <1>7, <1>12, <2>1, <2>2 DEF RunsAsked
<1>14. Blank(u)
  <2>1. ASSUME u.analysis = NoAnalysis PROVE FirstRun(u)
    <3>1. PICK c \in t.calls : t.calls = {c} /\ IsRun(c)
      BY <1>7, <1>8, <1>12, <2>1 DEF Blank, FirstRun
    <3>2. calls = {next} /\ IsRun(next)
      BY <1>2, <1>5, <1>8, <3>1 DEF IsRun
    <3> QED BY <1>2, <1>7, <3>2 DEF FirstRun
  <2> QED BY <1>7, <1>12, <2>1 DEF Blank
<1>15. TreasuryGood(u)
  BY <1>7, <1>9, <1>10, <1>11, <1>13, <1>14 DEF TreasuryGood
<1> QED BY <1>15 DEF u

LEMMA AnalysisLandsGood ==
  ASSUME TreasuryGood(treasury), NEW call \in treasury.calls, call.stage = "analyze",
         NEW found \in {"nothing", "transactions", "patterns"}, NEW spent \in BOOLEAN,
         NEW insights \in BOOLEAN
  PROVE  TreasuryGood(AnalysisLands(call, found, spent, insights))
<1> DEFINE t == treasury
           u == AnalysisLands(call, found, spent, insights)
           calls == t.calls \ {call}
           none == {}
           analysis == [ask |-> call.ask, seen |-> t.asks, range |-> call.range,
                        found |-> found, spent |-> spent, insights |-> insights]
           state == [t EXCEPT !.calls = calls, !.isAnalyzing = FALSE, !.failed = none, !.analysis = analysis]
           closing == t.closing + 1
<1>1. t \in TreasuryState /\ t.calls \in SUBSET TreasuryCall /\ call \in TreasuryCall /\ t.asks \in Nat
      /\ none \in SUBSET Nat
  BY DEF TreasuryGood, TreasuryState
<1>2. analysis \in Analysis /\ analysis.range = call.range /\ analysis.ask = call.ask /\ analysis.seen = t.asks
      /\ analysis.found # "none"
  BY <1>1 DEF TreasuryCall, Analysis
<1>3. u = submitTagEnds(state, call)
  BY <1>1 DEF AnalysisLands, Ended, TreasuryState
<1>4. calls \in SUBSET TreasuryCall
  BY <1>1
<1> HIDE DEF calls, analysis, none
<1>5. /\ state \in TreasuryState /\ state.range = t.range /\ state.isIngesting = t.isIngesting
      /\ state.asks = t.asks /\ state.calls = calls /\ state.isAnalyzing = FALSE
      /\ state.isGeneratingInsights = t.isGeneratingInsights /\ state.submitting = t.submitting
      /\ state.done = t.done /\ state.closing = t.closing /\ state.analysis = analysis /\ state.target = t.target
  BY <1>1, <1>2, <1>4 DEF TreasuryState
<1> HIDE DEF state
<1>6. CASE call.tag
  <2>1. closing \in 0..1
    BY <1>6, DialogCloses
  <2>2. u = [state EXCEPT !.target = FALSE, !.done = TRUE, !.closing = closing, !.submitting = FALSE]
    BY <1>3, <1>5, <1>6 DEF submitTagEnds, TreasuryState
  <2> HIDE DEF closing, u
  <2>3. /\ u \in TreasuryState /\ u.range = t.range /\ u.isIngesting = t.isIngesting
        /\ u.asks = t.asks /\ u.calls = calls /\ u.isAnalyzing = FALSE
        /\ u.isGeneratingInsights = t.isGeneratingInsights /\ u.submitting = FALSE
        /\ u.done = TRUE /\ u.analysis = analysis /\ u.target = FALSE
    BY <1>5, <2>1, <2>2 DEF TreasuryState
  <2>4. Analyzed(t, u, call)
    BY <1>2, <2>3 DEF Analyzed
  <2>5. TreasuryGood(u)
    BY <1>6, <2>3, <2>4, RunEnds DEF calls
  <2> QED BY <2>5 DEF u
<1>7. CASE ~call.tag
  <2>1. u = state
    BY <1>3, <1>7 DEF submitTagEnds
  <2> HIDE DEF u
  <2>2. Analyzed(t, u, call)
    BY <1>2, <1>5, <2>1 DEF Analyzed
  <2>3. TreasuryGood(u)
    BY <1>5, <1>7, <2>1, <2>2, RunEnds DEF calls
  <2> QED BY <2>3 DEF u
<1> QED BY <1>6, <1>7

LEMMA CallFailsGood ==
  ASSUME TreasuryGood(treasury), NEW call \in treasury.calls
  PROVE  TreasuryGood(CallFails(call))
<1> DEFINE t == treasury
           u == CallFails(call)
           calls == t.calls \ {call}
           ingesting == IF call.stage = "ingest" THEN FALSE ELSE t.isIngesting
           analyzing == IF call.stage = "analyze" THEN FALSE ELSE t.isAnalyzing
           failed == IF call.tag THEN t.failed ELSE t.failed \cup {call.ask}
           state == [t EXCEPT !.calls = calls, !.error = TRUE, !.failed = failed,
                              !.isIngesting = ingesting, !.isAnalyzing = analyzing]
           closing == t.closing + 1
<1>1. t \in TreasuryState /\ t.calls \in SUBSET TreasuryCall /\ t.isIngesting \in BOOLEAN /\ t.isAnalyzing \in BOOLEAN
      /\ t.failed \in SUBSET Nat /\ call.ask \in Nat
  BY TreasuryParts DEF TreasuryGood
<1>2. calls \in SUBSET TreasuryCall /\ ingesting \in BOOLEAN /\ analyzing \in BOOLEAN /\ failed \in SUBSET Nat
      /\ t.failed \subseteq failed /\ (~call.tag => call.ask \in failed)
  BY <1>1
<1>3. CASE call.stage = "insights"
  <2>1. u = [t EXCEPT !.calls = calls, !.error = TRUE, !.isGeneratingInsights = FALSE]
    BY <1>1, <1>3 DEF CallFails, Failed, Ended, TreasuryState
  <2>2. (\A c \in calls : c \in t.calls /\ c # call) /\ (\A c \in t.calls : c # call => c \in calls)
    OBVIOUS
  <2> HIDE DEF calls, u
  <2>3. /\ u \in TreasuryState /\ u.range = t.range /\ u.isIngesting = t.isIngesting /\ u.asks = t.asks
        /\ u.calls = calls /\ u.isAnalyzing = t.isAnalyzing /\ u.isGeneratingInsights = FALSE
        /\ u.submitting = t.submitting /\ u.done = t.done /\ u.closing = t.closing
        /\ u.analysis = t.analysis /\ u.failed = t.failed /\ u.target = t.target
    BY <1>1, <1>2, <2>1 DEF TreasuryState
  <2>4. TreasuryGood(t) /\ call \in t.calls
    OBVIOUS
  <2> HIDE DEF t
  <2>5. TreasuryGood(u)
    BY <1>3, <2>2, <2>3, <2>4, InsightsEnd
  <2> QED BY <2>5 DEF u
<1>4. CASE call.stage # "insights"
  <2>1. u = submitTagEnds(state, call)
    BY <1>1, <1>4 DEF CallFails, Failed, Ended, TreasuryState
  <2>2. (ingesting => t.isIngesting /\ call.stage # "ingest") /\ (analyzing => t.isAnalyzing /\ call.stage # "analyze")
    OBVIOUS
  <2> HIDE DEF calls, ingesting, analyzing, failed
  <2>3. /\ state \in TreasuryState /\ state.range = t.range /\ state.isIngesting = ingesting
        /\ state.asks = t.asks /\ state.calls = calls /\ state.isAnalyzing = analyzing
        /\ state.isGeneratingInsights = t.isGeneratingInsights /\ state.submitting = t.submitting
        /\ state.done = t.done /\ state.closing = t.closing /\ state.error = TRUE
        /\ state.analysis = t.analysis /\ state.failed = failed /\ state.target = t.target
    BY <1>1, <1>2 DEF TreasuryState
  <2> HIDE DEF state
  <2>4. CASE call.tag
    <3>1. closing \in 0..1
      BY <2>4, DialogCloses
    <3>2. u = [state EXCEPT !.target = FALSE, !.done = TRUE, !.closing = closing, !.submitting = FALSE]
      BY <2>1, <2>3, <2>4 DEF submitTagEnds, TreasuryState
    <3> HIDE DEF closing, u
    <3>3. /\ u \in TreasuryState /\ u.range = t.range /\ u.isIngesting = ingesting
          /\ u.asks = t.asks /\ u.calls = calls /\ u.isAnalyzing = analyzing
          /\ u.isGeneratingInsights = t.isGeneratingInsights /\ u.submitting = FALSE
          /\ u.done = TRUE /\ u.error = TRUE /\ u.analysis = t.analysis /\ u.failed = failed /\ u.target = FALSE
      BY <2>3, <3>1, <3>2 DEF TreasuryState
    <3>4. WithError(t, u, call)
      BY <1>2, <3>3 DEF WithError
    <3>5. TreasuryGood(u)
      BY <1>4, <2>2, <2>4, <3>3, <3>4, RunEnds DEF calls
    <3> QED BY <3>5 DEF u
  <2>5. CASE ~call.tag
    <3>1. u = state
      BY <2>1, <2>5 DEF submitTagEnds
    <3> HIDE DEF u
    <3>2. WithError(t, u, call)
      BY <1>2, <2>3, <3>1 DEF WithError
    <3>3. TreasuryGood(u)
      BY <1>4, <2>2, <2>3, <2>5, <3>1, <3>2, RunEnds DEF calls
    <3> QED BY <3>3 DEF u
  <2> QED BY <2>4, <2>5
<1> QED BY <1>3, <1>4

LEMMA InsightsLandGood ==
  ASSUME TreasuryGood(treasury), NEW call \in treasury.calls, call.stage = "insights",
         NEW insights \in BOOLEAN
  PROVE  TreasuryGood(InsightsLand(call, insights))
<1> DEFINE t == treasury
           u == InsightsLand(call, insights)
           calls == t.calls \ {call}
           analysis == [t.analysis EXCEPT !.insights = insights]
<1>1. t \in TreasuryState /\ t.calls \in SUBSET TreasuryCall /\ t.analysis \in Analysis
  BY DEF TreasuryGood, TreasuryState
<1>2. calls \in SUBSET TreasuryCall /\ analysis \in Analysis /\ analysis.range = t.analysis.range
      /\ analysis.ask = t.analysis.ask /\ analysis.seen = t.analysis.seen /\ analysis.found = t.analysis.found
  BY <1>1 DEF Analysis
<1>3. u = [t EXCEPT !.calls = calls, !.isGeneratingInsights = FALSE, !.analysis = analysis]
  BY <1>1 DEF InsightsLand, Ended, TreasuryState
<1>4. (\A c \in calls : c \in t.calls /\ c # call) /\ (\A c \in t.calls : c # call => c \in calls)
  OBVIOUS
<1> HIDE DEF calls, analysis, u
<1>5. /\ u \in TreasuryState /\ u.range = t.range /\ u.isIngesting = t.isIngesting /\ u.asks = t.asks
      /\ u.calls = calls /\ u.isAnalyzing = t.isAnalyzing /\ u.isGeneratingInsights = FALSE
      /\ u.submitting = t.submitting /\ u.done = t.done /\ u.closing = t.closing
      /\ u.analysis = analysis /\ u.failed = t.failed /\ u.target = t.target
  BY <1>1, <1>2, <1>3 DEF TreasuryState
<1>6. TreasuryGood(t) /\ call \in t.calls
  OBVIOUS
<1> HIDE DEF t
<1>7. TreasuryGood(u)
  BY <1>2, <1>4, <1>5, <1>6, InsightsEnd
<1> QED BY <1>7 DEF u

LEMMA TreasuryStepGood ==
  ASSUME TreasuryGood(treasury), TreasuryStep
  PROVE  TreasuryGood(treasury')
<1>1. PICK call \in treasury.calls :
        \/ treasury' = CallFails(call)
        \/ call.stage \in {"ingest", "tag"} /\ treasury' = Proceeds(call)
        \/ /\ call.stage = "analyze"
           /\ \E insights \in Listed(AnalysisRoute) :
                \/ treasury' = AnalysisLands(call, "nothing", FALSE, insights)
                \/ \E found \in {"transactions", "patterns"}, spent \in BOOLEAN :
                     treasury' = AnalysisLands(call, found, spent, insights)
        \/ /\ call.stage = "insights"
           /\ \E insights \in Listed(InsightsPost \ {"refused"}) : treasury' = InsightsLand(call, insights)
  BY DEF TreasuryStep, TreasuryPage
<1>2. \A authors : Listed(authors) \subseteq BOOLEAN
  BY DEF Listed
<1>3. CASE treasury' = CallFails(call)
  BY <1>3, CallFailsGood
<1>4. CASE call.stage \in {"ingest", "tag"} /\ treasury' = Proceeds(call)
  BY <1>4, ProceedsGood
<1>5. ASSUME call.stage = "analyze", NEW insights \in Listed(AnalysisRoute),
             \/ treasury' = AnalysisLands(call, "nothing", FALSE, insights)
             \/ \E found \in {"transactions", "patterns"}, spent \in BOOLEAN :
                  treasury' = AnalysisLands(call, found, spent, insights)
      PROVE  TreasuryGood(treasury')
  <2>1. insights \in BOOLEAN
    BY <1>2
  <2> QED BY <1>5, <2>1, AnalysisLandsGood
<1>6. ASSUME call.stage = "insights", NEW insights \in Listed(InsightsPost \ {"refused"}),
             treasury' = InsightsLand(call, insights)
      PROVE  TreasuryGood(treasury')
  <2>1. insights \in BOOLEAN
    BY <1>2
  <2> QED BY <1>6, <2>1, InsightsLandGood
<1> QED BY <1>1, <1>3, <1>4, <1>5, <1>6

(* A range is chosen before the first analysis only while nothing runs.    *)
LEMMA RangeChangesQuietly ==
  ASSUME TreasuryGood(treasury), NEW range \in Ranges, handleRangeChange(range), treasury.analysis = NoAnalysis
  PROVE  treasury.calls = {}
<1>1. EmptyStates = {}
  BY DEF EmptyStates, Content, SpendByCategory
<1>2. ~treasury.isIngesting /\ ~treasury.isAnalyzing
  BY <1>1 DEF handleRangeChange, Header, RangeSelector, isBusy
<1> QED BY <1>2 DEF TreasuryGood, Blank, FirstRun, IsRun

LEMMA TreasuryStays ==
  ASSUME TreasuryGood(treasury), [Next]_vars
  PROVE  TreasuryGood(treasury')
<1> DEFINE t == treasury
           u == treasury'
<1>1. t \in TreasuryState /\ t.closing \in 0..1
  BY DEF TreasuryGood, TreasuryState
<1>2. CASE treasury' \in {NewTreasury, runFullAnalysis(NewTreasury, Month)}
  BY <1>2, NewTreasuryGood, RunGood, Parameters
<1>3. ASSUME NEW range \in Ranges, handleRangeChange(range)
      PROVE  TreasuryGood(u)
  <2>1. u = runFullAnalysis(t, range)
    BY <1>3 DEF handleRangeChange, TreasuryPage
  <2> QED BY <1>3, <2>1, RunGood, RangeChangesQuietly
<1>4. ASSUME NEW tab \in Tabs, setActiveTab(tab)
      PROVE  TreasuryGood(u)
  <2>1. u = [t EXCEPT !.tab = tab]
    BY <1>4 DEF setActiveTab, TreasuryPage
  <2>2. u \in TreasuryState
    BY <1>1, <2>1 DEF TreasuryState
  <2> QED BY <1>1, <2>1, <2>2, QuietGood DEF TreasuryState
<1>5. CASE setTagTarget
  <2>1. u = [t EXCEPT !.target = TRUE]
    BY <1>5 DEF setTagTarget, TreasuryPage
  <2>2. u \in TreasuryState
    BY <1>1, <2>1 DEF TreasuryState
  <2>3. t.analysis # NoAnalysis
    BY <1>5, NoAnalysisIs DEF setTagTarget, Items, TxRows, Content
  <2> QED BY <1>1, <2>1, <2>2, <2>3, QuietGood DEF TreasuryState
<1>6. CASE setSelected
  <2>1. u = [t EXCEPT !.selected = TRUE]
    BY <1>6 DEF setSelected, TreasuryPage
  <2>2. u \in TreasuryState
    BY <1>1, <2>1 DEF TreasuryState
  <2> QED BY <1>1, <2>1, <2>2, QuietGood DEF TreasuryState
<1>7. CASE onClose
  <2>1. u = [t EXCEPT !.target = FALSE]
    BY <1>7 DEF onClose, TreasuryPage
  <2>2. u \in TreasuryState
    BY <1>1, <2>1 DEF TreasuryState
  <2> QED BY <1>1, <2>1, <2>2, QuietGood DEF TreasuryState
<1>8. CASE ModalTimer
  <2> DEFINE closing == t.closing - 1
  <2>1. t.closing > 0 /\ closing \in 0..1
    BY <1>1, <1>8 DEF ModalTimer
  <2>2. u = [t EXCEPT !.closing = closing, !.target = FALSE]
    BY <1>8 DEF ModalTimer, TreasuryPage
  <2>3. t.done
    BY <2>1 DEF TreasuryGood, Tagging
  <2> HIDE DEF closing
  <2>4. u \in TreasuryState
    BY <1>1, <2>1, <2>2 DEF TreasuryState
  <2> QED BY <1>1, <2>2, <2>3, <2>4, QuietGood DEF TreasuryState
<1>9. CASE treasury' = treasury
  BY <1>9
<1> QED BY <1>2, <1>3, <1>4, <1>5, <1>6, <1>7, <1>8, <1>9, TreasurySteps, generateInsightsGood,
           handleSubmitGood, TreasuryStepGood

(* The page runs an analysis when it opens.                                *)
RunOnce == page = "treasury" => treasury.asks # 0
LEMMA RunOnceStays ==
  ASSUME RunOnce, TreasuryGood(treasury), [Next]_vars
  PROVE  RunOnce'
<1>1. treasury \in TreasuryState /\ treasury.asks \in Nat
  BY TreasuryParts DEF TreasuryGood
<1>2. CASE treasury' = treasury /\ page' = page
  BY <1>2 DEF RunOnce
<1>3. CASE treasury' = NewTreasury /\ page' # "treasury"
  BY <1>3 DEF RunOnce
<1>4. CASE treasury' = runFullAnalysis(NewTreasury, Month)
  <2>1. treasury'.asks = 0 + 1
    BY <1>4, NewTreasuryGood, RunGood, Parameters
  <2> QED BY <2>1 DEF RunOnce
<1>5. ASSUME NEW range \in Ranges, handleRangeChange(range)
      PROVE  RunOnce'
  <2>1. treasury'.asks = treasury.asks + 1
    BY <1>5, RunGood, RangeChangesQuietly DEF handleRangeChange, TreasuryPage
  <2> QED BY <1>1, <2>1 DEF RunOnce
<1>6. CASE page' = page /\ treasury'.asks = treasury.asks
  BY <1>6 DEF RunOnce
<1>7. ASSUME NEW tab \in Tabs, setActiveTab(tab)
      PROVE  RunOnce'
  BY <1>1, <1>6, <1>7 DEF setActiveTab, TreasuryPage, TreasuryState
<1>8. ASSUME generateInsights \/ setTagTarget \/ setSelected \/ onClose \/ handleSubmit \/ ModalTimer
      PROVE  RunOnce'
  BY <1>1, <1>6, <1>8 DEF generateInsights, setTagTarget, setSelected, onClose, handleSubmit, ModalTimer,
     TreasuryPage, TreasuryState
<1>9. CASE TreasuryStep
  <2>1. page' = page
    BY <1>9 DEF TreasuryStep, TreasuryPage
  <2>2. PICK call \in treasury.calls :
          \/ treasury' = CallFails(call)
          \/ treasury' = Proceeds(call)
          \/ \E found, spent, insights : treasury' = AnalysisLands(call, found, spent, insights)
          \/ \E insights : treasury' = InsightsLand(call, insights)
    BY <1>9 DEF TreasuryStep, TreasuryPage
  <2>3. treasury'.asks = treasury.asks
    BY <1>1, <2>2 DEF CallFails, Proceeds, AnalysisLands, InsightsLand, Ended, Failed, submitTagEnds, TreasuryState
  <2> QED BY <1>6, <2>1, <2>3
<1> QED BY <1>2, <1>3, <1>4, <1>5, <1>7, <1>8, <1>9, TreasurySteps

(* A set whose members are all equal has one member, or none.              *)
LEMMA AtMostOne ==
  ASSUME NEW S, \A c, d \in S : c = d
  PROVE  Cardinality(S) = IF S = {} THEN 0 ELSE 1
<1>1. CASE S = {}
  BY <1>1, FS_EmptySet
<1>2. CASE S # {}
  <2>1. PICK c : c \in S
    BY <1>2
  <2>2. S = {c}
    BY <2>1
  <2> QED BY <1>2, <2>2, FS_Singleton
<1> QED BY <1>1, <1>2

LEMMA TreasuryDoesWork == ASSUME TreasuryGood(treasury), RunOnce PROVE TreasuryWorks
<1>1. (treasury.isIngesting => Calls({"ingest"}) # {}) /\ (treasury.isAnalyzing => Calls({"analyze"}) # {})
  BY DEF TreasuryGood, Working, Calls
<1>2. Cardinality(Calls({"insights"})) = IF treasury.isGeneratingInsights THEN 1 ELSE 0
  <2> DEFINE S == Calls({"insights"})
  <2>1. (\A c, d \in S : c = d) /\ (treasury.isGeneratingInsights <=> S # {})
    BY DEF TreasuryGood, Generating, Calls
  <2> HIDE DEF S
  <2>2. Cardinality(S) = IF treasury.isGeneratingInsights THEN 1 ELSE 0
    BY <2>1, AtMostOne
  <2> QED BY <2>2 DEF S
<1>3. Cardinality(TagCalls) = IF treasury.submitting THEN 1 ELSE 0
  <2>1. (\A c, d \in TagCalls : c = d) /\ (treasury.submitting <=> TagCalls # {})
    BY DEF TreasuryGood, Tagging, TagCalls
  <2> QED BY <2>1, AtMostOne
<1>4. OutrunOnly(treasury.analysis, treasury.asks, Awaited(Runs), treasury.failed)
  <2>1. ASSUME NEW n \in 1..treasury.asks, n > treasury.analysis.seen
        PROVE  n \in Awaited(Runs) \cup treasury.failed
    BY <2>1 DEF TreasuryGood, RunsAsked, IsRun, Awaited, Runs, Calls
  <2> QED BY <2>1 DEF TreasuryGood, RunsAsked, OutrunOnly
<1>5. treasury.analysis.ask = treasury.asks => treasury.analysis.range = treasury.range
  BY DEF TreasuryGood, RunsAsked
<1>6. ASSUME page = "treasury", treasury.analysis = NoAnalysis, ~treasury.error
      PROVE  isBusy /\ Cardinality(treasury.calls) = 1
  <2>1. PICK c \in treasury.calls :
          /\ treasury.calls = {c} /\ IsRun(c)
          /\ c.stage = "ingest" => treasury.isIngesting
          /\ c.stage = "analyze" => treasury.isAnalyzing
    BY <1>6 DEF TreasuryGood, Blank, FirstRun, RunOnce
  <2> QED BY <2>1, FS_Singleton DEF IsRun, isBusy
<1> QED BY <1>1, <1>2, <1>3, <1>4, <1>5, <1>6 DEF TreasuryWorks

-----------------------------------------------------------------------------
(* The statements.                                                         *)

CategoryNames == {"payroll", "infrastructure", "subscription",
                  "contractor", "revenue", "transfer", "fee", "unknown"}
RowsOK(rows) ==
  /\ IsFiniteSet(DOMAIN rows) /\ DOMAIN rows \in SUBSET Nat
  /\ \A i \in DOMAIN rows : rows[i].amount \in Nat /\ rows[i].category \in CategoryNames

LEMMA UpToFinite == \A n \in Nat : IsFiniteSet(1..n)
BY FS_Interval

LEMMA CategoriesAre == Range(Categories) = CategoryNames /\ DOMAIN Categories = 1..8 /\ Categories[8] = "unknown"
BY DEF Range, Categories, CategoryNames

(* Every line that is read is filed under a category.                      *)
LEMMA Classified ==
  ASSUME NEW line \in Line
  PROVE  classifyLocally(line).amount \in Nat /\ classifyLocally(line).category \in CategoryNames
<1> DEFINE Best == {i \in DOMAIN Categories : Categories[i] \in line.cats \cup {"unknown"}}
           best == CHOOSE i \in Best : \A j \in Best : i <= j
<1>1. Best \in SUBSET Nat /\ Best # {} /\ Best \subseteq 1..8
  <2>1. 8 \in Best
    BY CategoriesAre
  <2>2. Best \subseteq 1..8
    BY CategoriesAre
  <2> HIDE DEF Best
  <2> QED BY <2>1, <2>2
<1>2. best \in Best
  <2> HIDE DEF Best
  <2>1. \E i \in Best : \A j \in Best : i <= j
    BY <1>1, LeastNumber
  <2> QED BY <2>1
<1> HIDE DEF Best
<1>3. Categories[best] \in CategoryNames
  <2> HIDE DEF best
  <2>1. best \in DOMAIN Categories
    BY <1>1, <1>2, CategoriesAre
  <2>2. Categories[best] \in Range(Categories)
    BY <2>1 DEF Range
  <2> QED BY <2>2, CategoriesAre
<1>4. classifyLocally(line).category = Categories[best]
  BY DEF classifyLocally, Row, Best
<1>5. classifyLocally(line).amount = line.amount /\ line.amount \in Nat
  BY DEF classifyLocally, Row, Line
<1> QED BY <1>3, <1>4, <1>5

LEMMA DemoOK == RowsOK(Demo)
<1>1. DOMAIN Demo = 1..10
  BY DEF Demo
<1>2. \A i \in 1..10 : Demo[i].amount \in Nat /\ Demo[i].category \in CategoryNames
  BY DEF Demo, Row, CategoryNames
<1>3. IsFiniteSet(1..10)
  <2>1. 10 \in Nat
    OBVIOUS
  <2> QED BY <2>1, UpToFinite, Zenon
<1> QED BY <1>1, <1>2, <1>3 DEF RowsOK

LEMMA ParsedOK == ASSUME NEW lines \in Seq(Line) PROVE RowsOK(parseCSV(lines))
<1> DEFINE D == {i \in 2..Len(lines) : i <= MaxRows + 1 /\ lines[i].readable}
           rows == parseCSV(lines)
<1>1. DOMAIN rows = D /\ \A i \in D : rows[i] = classifyLocally(lines[i])
  BY DEF parseCSV
<1>2. IsFiniteSet(D) /\ D \in SUBSET Nat
  <2>1. IsFiniteSet(2..Len(lines))
    BY FS_Interval
  <2> QED BY <2>1, FS_Subset
<1>3. \A i \in D : lines[i] \in Line
  OBVIOUS
<1> HIDE DEF D, rows
<1>4. RowsOK(rows)
  BY <1>1, <1>2, <1>3, Classified DEF RowsOK
<1> QED BY <1>4 DEF rows

LEMMA TransactionsOK == ASSUME NEW source \in Sources PROVE RowsOK(Transactions(source))
BY DemoOK, ParsedOK, AdvisorsAssumption DEF Transactions, Sources

(* The cards' totals add up to the table's: a category without a card has  *)
(* no cent.                                                                *)
LEMMA CardsAccount ==
  ASSUME NEW rows, RowsOK(rows)
  PROVE  SumFunctionOnSet([x \in Cards(rows) |-> x.total], Cards(rows)) = Total(rows, DOMAIN rows)
<1> DEFINE D == DOMAIN rows
           f == [i \in D |-> rows[i].amount]
           Cats == {x \in Range(Categories) : Total(rows, Filed(rows, x)) > 0}
           card == [c \in Cats |-> [category |-> c, count |-> Cardinality(Filed(rows, c)),
                                    total |-> Total(rows, Filed(rows, c))]]
           I == Cards(rows)
           P == [x \in I |-> Filed(rows, x.category)]
           U == UNION {P[x] : x \in I}
<1>1. IsFiniteSet(D) /\ \A i \in D : f[i] \in Nat /\ f[i] \in Int /\ rows[i].category \in Range(Categories)
  BY CategoriesAre DEF RowsOK
<1>2. \A S : Total(rows, S) = SumFunctionOnSet(f, S)
  BY DEF Total
<1>3. \A c : Filed(rows, c) \in SUBSET D /\ IsFiniteSet(Filed(rows, c))
  BY <1>1, FS_Subset DEF Filed
<1>4. I = {card[c] : c \in Cats}
  BY DEF Cards
<1>5. IsFiniteSet(I)
  <2>1. IsFiniteSet(Cats)
    <3> DEFINE E == 1..8
    <3>1. IsFiniteSet(E)
      <4>1. 8 \in Nat
        OBVIOUS
      <4> QED BY <4>1, UpToFinite, Zenon
    <3>2. Categories \in Surjection(E, Range(Categories))
      <4>1. DOMAIN Categories = E /\ Categories = [i \in E |-> Categories[i]]
        BY CategoriesAre DEF Categories
      <4> HIDE DEF E
      <4> QED BY <4>1 DEF Surjection, Range
    <3>3. IsFiniteSet(Range(Categories))
      <4> HIDE DEF E
      <4> QED BY <3>1, <3>2, FS_Surjection
    <3> QED BY <3>3, FS_Subset
  <2> HIDE DEF Cats
  <2>2. card \in Surjection(Cats, I)
    <3> HIDE DEF I
    <3> QED BY <1>4 DEF Surjection
  <2> HIDE DEF I, card
  <2> QED BY <2>1, <2>2, FS_Surjection
<1>6. \A x \in I : x.category \in Cats /\ x = card[x.category] /\ x.total = SumFunctionOnSet(f, P[x])
  <2>1. SUFFICES ASSUME NEW c \in Cats
        PROVE  /\ card[c].category = c /\ card[c].total = Total(rows, Filed(rows, c))
    <3> HIDE DEF I, Cats, f, card
    <3> QED BY <1>2, <1>4, <2>1
  <2> HIDE DEF Cats
  <2> QED OBVIOUS
<1>7. \A x \in I : P[x] \in SUBSET D
  BY <1>3
<1>8. \A x, y \in I : x # y => P[x] \cap P[y] = {}
  <2>1. SUFFICES ASSUME NEW x \in I, NEW y \in I, NEW i, i \in P[x], i \in P[y] PROVE x = y
    OBVIOUS
  <2>2. rows[i].category = x.category /\ rows[i].category = y.category
    BY <2>1 DEF Filed
  <2> HIDE DEF I, P, card
  <2> QED BY <1>6, <2>2
<1>9. SumFunctionOnSet([x \in I |-> SumFunctionOnSet(f, P[x])], I) = SumFunctionOnSet(f, U)
  <2> HIDE DEF I, P, f, D
  <2> QED BY <1>1, <1>5, <1>7, <1>8, SumParts
<1>10. [x \in I |-> x.total] = [x \in I |-> SumFunctionOnSet(f, P[x])]
  <2> HIDE DEF I, P, f, D
  <2> QED BY <1>6
<1>11. \A i \in D \ U : f[i] = 0
  <2>1. SUFFICES ASSUME NEW i \in D, f[i] # 0 PROVE i \in U
    OBVIOUS
  <2> DEFINE c == rows[i].category
             S == Filed(rows, c)
  <2>2. i \in S /\ S \in SUBSET D /\ IsFiniteSet(S) /\ c \in Range(Categories)
    BY <1>1, <1>3 DEF Filed
  <2>3. f[i] <= SumFunctionOnSet(f, S) /\ SumFunctionOnSet(f, S) \in Nat
    <3> HIDE DEF f, S, D
    <3> QED BY <1>1, <2>2, SumBoundsMember, SumNat
  <2>4. c \in Cats
    <3>1. f[i] \in Nat
      BY <1>1
    <3>2. SumFunctionOnSet(f, S) > 0
      <4> HIDE DEF f, S, c
      <4> QED BY <2>1, <2>3, <3>1
    <3> HIDE DEF f
    <3> QED BY <1>2, <2>2, <3>2
  <2> HIDE DEF Cats
  <2>5. card[c] \in I /\ card[c].category = c
    <3> HIDE DEF I
    <3> QED BY <1>4, <2>4
  <2> HIDE DEF card, I
  <2> QED BY <2>2, <2>5
<1>12. U \in SUBSET D
  <2> HIDE DEF I, P, D
  <2> QED BY <1>7
<1>13. SumFunctionOnSet(f, D) = SumFunctionOnSet(f, U)
  <2> HIDE DEF U, D, f
  <2> QED BY <1>1, <1>11, <1>12, SumExtend
<1> HIDE DEF f, D, U, I, P
<1> QED BY <1>2, <1>9, <1>10, <1>13 DEF I, D

(* Every recurring row is counted by one pattern: the pattern tells its    *)
(* group, since the row it is named after is in it.                        *)
LEMMA PatternsAccount ==
  ASSUME NEW rows, RowsOK(rows)
  PROVE  LET I == detectRecurringPatterns(rows) IN
         SumFunctionOnSet([x \in I |-> x.txCount], I) = Cardinality({i \in DOMAIN rows : rows[i].period # "never"})
<1> DEFINE R == {i \in DOMAIN rows : rows[i].period # "never"}
           Key(i) == <<rows[i].category, (rows[i].amount + 2500) \div 5000>>
           Group(k) == {i \in R : Key(i) = k}
           First(S) == CHOOSE i \in S : \A j \in S : i <= j
           K == {Key(i) : i \in R}
           pattern(k) == [first |-> First(Group(k)), total |-> Total(rows, Group(k)),
                          txCount |-> Cardinality(Group(k)), frequency |-> rows[First(Group(k))].period]
           I == detectRecurringPatterns(rows)
           P == [x \in I |-> Group(Key(x.first))]
           ones == [i \in R |-> 1]
<1>1. I = {pattern(k) : k \in K}
  BY DEF detectRecurringPatterns
<1>2. IsFiniteSet(R) /\ R \in SUBSET Nat
  BY FS_Subset DEF RowsOK
<1>3. IsFiniteSet(I)
  <2> DEFINE made == [i \in R |-> pattern(Key(i))]
  <2>1. I = {made[i] : i \in R}
    <3> HIDE DEF pattern, Key, R, I
    <3> QED BY <1>1
  <2>2. made \in Surjection(R, I)
    <3>1. made = [i \in R |-> made[i]]
      OBVIOUS
    <3> HIDE DEF made, R, I
    <3> QED BY <2>1, <3>1 DEF Surjection
  <2> HIDE DEF made, R, I
  <2> QED BY <1>2, <2>2, FS_Surjection
<1>4. \A k \in K : First(Group(k)) \in Group(k)
  <2>1. SUFFICES ASSUME NEW k \in K PROVE First(Group(k)) \in Group(k)
    OBVIOUS
  <2> DEFINE S == Group(k)
  <2>2. S \in SUBSET Nat /\ S # {}
    BY <1>2
  <2> HIDE DEF S
  <2>3. \E i \in S : \A j \in S : i <= j
    BY <2>2, LeastNumber
  <2>4. First(S) \in S
    BY <2>3
  <2> QED BY <2>4 DEF S
<1>5. \A k \in K : Key(First(Group(k))) = k
  <2>1. SUFFICES ASSUME NEW k \in K PROVE Key(First(Group(k))) = k
    <3> HIDE DEF K, Key, Group, First
    <3> QED OBVIOUS
  <2> DEFINE i == First(Group(k))
  <2>2. i \in Group(k)
    BY <1>4
  <2> HIDE DEF i, Key
  <2>3. Key(i) = k
    BY <2>2
  <2> QED BY <2>3 DEF i
<1>6. \A x \in I : \E k \in K : x = pattern(k) /\ P[x] = Group(k) /\ Key(x.first) = k
                               /\ x.txCount = Cardinality(Group(k))
  <2>1. SUFFICES ASSUME NEW x \in I, NEW k \in K, x = pattern(k)
                 PROVE  P[x] = Group(k) /\ Key(x.first) = k /\ x.txCount = Cardinality(Group(k))
    <3> HIDE DEF P, Key, Group, K, pattern, I
    <3> QED BY <1>1
  <2>2. x.first = First(Group(k)) /\ x.txCount = Cardinality(Group(k))
    <3> HIDE DEF First, Group
    <3> QED BY <2>1
  <2>3. Key(x.first) = k
    <3> HIDE DEF First, Group, Key
    <3> QED BY <1>5, <2>2
  <2> HIDE DEF Key, Group, I, pattern
  <2> QED BY <2>2, <2>3
<1>7. \A x \in I : P[x] \in SUBSET R /\ x.txCount = SumFunctionOnSet(ones, P[x])
  <2>1. SUFFICES ASSUME NEW k \in K
                 PROVE  Group(k) \in SUBSET R /\ Cardinality(Group(k)) = SumFunctionOnSet(ones, Group(k))
    <3> HIDE DEF P, I, K, Group, ones, Key, pattern
    <3> QED BY <1>6, <2>1
  <2> DEFINE S == Group(k)
  <2>2. S \in SUBSET R
    OBVIOUS
  <2>3. IsFiniteSet(S) /\ \A i \in S : ones[i] = 1
    BY <1>2, <2>2, FS_Subset
  <2> HIDE DEF S, ones, R
  <2>4. Cardinality(S) = SumFunctionOnSet(ones, S)
    BY <2>3, SumOfOnes
  <2> QED BY <2>2, <2>4 DEF S
<1>8. \A x, y \in I : x # y => P[x] \cap P[y] = {}
  <2>1. SUFFICES ASSUME NEW x \in I, NEW y \in I, NEW i, i \in P[x], i \in P[y] PROVE x = y
    <3> HIDE DEF P, I
    <3> QED OBVIOUS
  <2>2. PICK k \in K : x = pattern(k) /\ P[x] = Group(k)
    <3> HIDE DEF P, Key, Group, K, pattern, I
    <3> QED BY <1>6
  <2>3. PICK l \in K : y = pattern(l) /\ P[y] = Group(l)
    <3> HIDE DEF P, Key, Group, K, pattern, I
    <3> QED BY <1>6
  <2>4. k = l
    <3>1. i \in Group(k) /\ i \in Group(l)
      <4> HIDE DEF P, Group
      <4> QED BY <2>1, <2>2, <2>3
    <3> HIDE DEF Key, P, I, K, pattern
    <3> QED BY <3>1
  <2> HIDE DEF pattern
  <2> QED BY <2>2, <2>3, <2>4
<1>9. UNION {P[x] : x \in I} = R
  <2>1. SUFFICES ASSUME NEW i \in R PROVE \E x \in I : i \in P[x]
    <3> HIDE DEF P, I, R, ones
    <3> QED BY <1>7, <2>1
  <2>2. Key(i) \in K /\ i \in Group(Key(i))
    OBVIOUS
  <2> DEFINE x == pattern(Key(i))
  <2>3. x \in I
    <3> HIDE DEF pattern, I, Key
    <3> QED BY <1>1, <2>2
  <2>4. x.first = First(Group(Key(i)))
    <3> HIDE DEF First, Group, Key
    <3> QED OBVIOUS
  <2>5. Key(x.first) = Key(i)
    <3> HIDE DEF x, First, Group, K, Key
    <3> QED BY <1>5, <2>2, <2>4
  <2>6. i \in P[x]
    <3> HIDE DEF x, I, Key, Group
    <3> QED BY <2>2, <2>3, <2>5
  <2> HIDE DEF x, P, I
  <2> QED BY <2>3, <2>6
<1>10. SumFunctionOnSet([x \in I |-> SumFunctionOnSet(ones, P[x])], I) = SumFunctionOnSet(ones, R)
  <2>1. \A i \in R : ones[i] \in Int
    OBVIOUS
  <2>2. \A x \in I : P[x] \in SUBSET R
    <3> HIDE DEF P, I, R, ones
    <3> QED BY <1>7
  <2> HIDE DEF P, I, R, ones
  <2> QED BY <1>2, <1>3, <1>8, <1>9, <2>1, <2>2, SumParts
<1>11. [x \in I |-> x.txCount] = [x \in I |-> SumFunctionOnSet(ones, P[x])]
  <2> HIDE DEF P, I, R, ones
  <2> QED BY <1>7
<1>12. SumFunctionOnSet(ones, R) = Cardinality(R)
  <2>1. \A i \in R : ones[i] = 1
    OBVIOUS
  <2> HIDE DEF R, ones
  <2> QED BY <1>2, <2>1, SumOfOnes
<1>13. SumFunctionOnSet([x \in I |-> x.txCount], I) = Cardinality(R)
  <2> HIDE DEF P, I, R, ones
  <2> QED BY <1>10, <1>11, <1>12
<1> HIDE DEF I, R
<1> QED BY <1>13 DEF I, R

LEMMA RowsAccount == ASSUME NEW rows, RowsOK(rows) PROVE Accounts(rows)
<1> DEFINE told == Context(rows)
           kpis == Kpis(rows)
           Amount(x) == x.total
           Count(x) == x.txCount
           I == detectRecurringPatterns(rows)
           C == Cards(rows)
           R == {i \in DOMAIN rows : rows[i].period # "never"}
<1>1. told.cards = C /\ told.recurring = I /\ kpis.recurring = Cardinality(I)
  BY DEF Context, Kpis
<1>2. Sums(C, Amount) = Total(rows, DOMAIN rows)
  <2>1. Sums(C, Amount) = SumFunctionOnSet([x \in C |-> x.total], C)
    BY DEF Sums
  <2> QED BY <2>1, CardsAccount
<1>3. Sums(I, Count) = Cardinality(R)
  <2>1. Sums(I, Count) = SumFunctionOnSet([x \in I |-> x.txCount], I)
    BY DEF Sums
  <2>2. SumFunctionOnSet([x \in I |-> x.txCount], I) = Cardinality(R)
    BY PatternsAccount
  <2> QED BY <2>1, <2>2
<1>4. kpis.categorized <= kpis.transactions
  <2> DEFINE D == DOMAIN rows
             S == D \ Filed(rows, "unknown")
  <2>1. kpis.categorized = Cardinality(S) /\ kpis.transactions = Cardinality(D)
    BY DEF Kpis
  <2>2. IsFiniteSet(D) /\ S \in SUBSET D
    BY DEF RowsOK
  <2> HIDE DEF S, D
  <2>3. Cardinality(S) <= Cardinality(D)
    BY <2>2, FS_Subset
  <2> HIDE DEF kpis
  <2> QED BY <2>1, <2>3
<1> HIDE DEF told, kpis
<1>5. Sums(told.cards, Amount) = Total(rows, DOMAIN rows)
  BY <1>1, <1>2
<1>6. Sums(told.recurring, Count) = Cardinality(R)
  BY <1>1, <1>3
<1>7. kpis.recurring = Cardinality(told.recurring)
  BY <1>1
<1> QED BY <1>4, <1>5, <1>6, <1>7 DEF Accounts, told, kpis

-----------------------------------------------------------------------------
(* The QVAC page.                                                          *)

(* Nothing is read from a file before one was chosen, and a statement      *)
(* without a row is never shown.                                           *)
StatementOK(q) ==
  /\ q.fileName = "none" => q.uploads = {} /\ q.source = "demo"
  /\ DOMAIN Transactions(q.source) # {}

(* What was asked after the answer on screen landed is under way, and what *)
(* was asked since the statement came is about it; the dots stand for the  *)
(* last question.                                                          *)
QuestionsAsked(q) ==
  /\ q.answer.ask <= q.answer.seen /\ q.answer.seen <= q.asks /\ q.replaced <= q.asks
  /\ \A n \in 1..q.asks : n > q.answer.seen => \E c \in q.calls : c.ask = n
  /\ \A c \in q.calls : c.ask \in 1..q.asks /\ (c.ask > q.replaced => c.of = q.source)
  /\ q.answer.ask > q.replaced => q.answer.of = q.source
  /\ q.chatLoading => \E c \in q.calls : c.ask = q.asks
QvacInv == qvac \in QvacState /\ StatementOK(qvac) /\ QuestionsAsked(qvac)

LEMMA NewQvacIs == NewQvac \in QvacState /\ StatementOK(NewQvac) /\ QuestionsAsked(NewQvac)
<1>1. "demo" \in Sources /\ DOMAIN Transactions("demo") # {}
  BY DEF Sources, Transactions, Demo
<1>2. NoAnswer \in [ask : Nat, of : Sources, by : {"none", "model", "fallback", "patterns"}, seen : Nat]
      /\ NoAnswer.ask = 0 /\ NoAnswer.seen = 0
  BY <1>1 DEF NoAnswer
<1>3. NewQvac \in QvacState
  BY <1>1, <1>2 DEF NewQvac, QvacState
<1>4. StatementOK(NewQvac)
  BY <1>1 DEF NewQvac, StatementOK
<1>5. NewQvac.answer = NoAnswer /\ NewQvac.asks = 0 /\ NewQvac.replaced = 0 /\ NewQvac.calls = {} /\ ~NewQvac.chatLoading
  BY DEF NewQvac
<1>6. QuestionsAsked(NewQvac)
  BY <1>2, <1>5 DEF QuestionsAsked
<1> QED BY <1>3, <1>4, <1>6

LEMMA NewQvacInv == ASSUME qvac' = NewQvac PROVE QvacInv'
BY NewQvacIs DEF QvacInv

(* What touches neither the statement nor the files under way.             *)
SameStatement ==
  qvac' \in QvacState /\ qvac'.fileName = qvac.fileName /\ qvac'.uploads = qvac.uploads
  /\ qvac'.source = qvac.source
LEMMA SameStatementInv == ASSUME QvacInv, SameStatement, QuestionsAsked(qvac') PROVE QvacInv'
BY DEF QvacInv, SameStatement, StatementOK

(* What touches no question and no answer.                                 *)
LEMMA SameQuestions ==
  ASSUME NEW q, NEW r, QuestionsAsked(q),
         /\ r.answer = q.answer /\ r.asks = q.asks /\ r.replaced = q.replaced /\ r.calls = q.calls
         /\ r.source = q.source /\ r.chatLoading = q.chatLoading
  PROVE  QuestionsAsked(r)
BY DEF QuestionsAsked

Uploads == [id : 0..MaxActs, file : DOMAIN Files, read : BOOLEAN]
LEMMA UploadInv ==
  ASSUME QvacInv, acts \in 0..MaxActs, NEW file \in DOMAIN Files, handleFileUpload(file)
  PROVE  QvacInv'
<1> DEFINE upload == [id |-> acts, file |-> file, read |-> FALSE]
           uploads == qvac.uploads \cup {upload}
<1>1. qvac' = [qvac EXCEPT !.processing = TRUE, !.fileName = file, !.uploads = uploads]
  BY DEF handleFileUpload, Qvac
<1>2. qvac \in QvacState /\ file # "none" /\ qvac.uploads \in SUBSET Uploads
      /\ DOMAIN Transactions(qvac.source) # {} /\ QuestionsAsked(qvac)
  BY AdvisorsAssumption DEF QvacInv, QvacState, StatementOK, Uploads
<1>3. uploads \in SUBSET Uploads
  <2>1. upload \in Uploads
    BY DEF Uploads
  <2> HIDE DEF upload
  <2> QED BY <1>2, <2>1
<1> HIDE DEF uploads
<1>4. qvac' \in QvacState /\ qvac'.fileName = file /\ qvac'.source = qvac.source /\ qvac'.answer = qvac.answer /\ qvac'.asks = qvac.asks
      /\ qvac'.replaced = qvac.replaced /\ qvac'.calls = qvac.calls /\ qvac'.chatLoading = qvac.chatLoading
  BY <1>1, <1>2, <1>3 DEF QvacState, Uploads
<1>5. QuestionsAsked(qvac')
  BY <1>2, <1>4, SameQuestions
<1> QED BY <1>2, <1>4, <1>5 DEF QvacInv, StatementOK

LEMMA ReadInv ==
  ASSUME QvacInv, NEW upload \in qvac.uploads, Read(upload)
  PROVE  QvacInv'
<1> DEFINE read == [upload EXCEPT !.read = TRUE]
<1>1. qvac \in QvacState /\ qvac.fileName # "none" /\ qvac.uploads \in SUBSET Uploads /\ upload \in Uploads
      /\ DOMAIN Transactions(qvac.source) # {} /\ QuestionsAsked(qvac)
  BY DEF QvacInv, QvacState, StatementOK, Uploads
<1>2. read \in Uploads
  BY <1>1 DEF Uploads
<1>3. PICK uploads : /\ uploads \in SUBSET Uploads
                     /\ qvac' = [qvac EXCEPT !.uploads = uploads]
  <2> DEFINE U == (qvac.uploads \ {upload}) \cup {read}
             V == qvac.uploads \ {upload}
  <2>1. U \in SUBSET Uploads /\ V \in SUBSET Uploads
    <3> HIDE DEF read
    <3> QED BY <1>1, <1>2
  <2>2. qvac' = [qvac EXCEPT !.uploads = U] \/ qvac' = [qvac EXCEPT !.uploads = V]
    BY DEF Read, Qvac
  <2> HIDE DEF U, V
  <2> QED BY <2>1, <2>2
<1>4. qvac' \in QvacState /\ qvac'.fileName = qvac.fileName /\ qvac'.source = qvac.source /\ qvac'.answer = qvac.answer /\ qvac'.asks = qvac.asks
      /\ qvac'.replaced = qvac.replaced /\ qvac'.calls = qvac.calls /\ qvac'.chatLoading = qvac.chatLoading
  BY <1>1, <1>3 DEF QvacState, Uploads
<1>5. QuestionsAsked(qvac')
  BY <1>1, <1>4, SameQuestions
<1> QED BY <1>1, <1>4, <1>5 DEF QvacInv, StatementOK

LEMMA ParsedInv ==
  ASSUME QvacInv, NEW upload \in qvac.uploads, Parsed(upload)
  PROVE  QvacInv'
<1> DEFINE uploads == qvac.uploads \ {upload}
           some == DOMAIN parseCSV(Files[upload.file]) # {}
           source == IF some THEN upload.file ELSE qvac.source
           replaced == IF some THEN qvac.asks ELSE qvac.replaced
<1>1. qvac \in QvacState /\ qvac.fileName # "none" /\ qvac.uploads \in SUBSET Uploads /\ upload \in Uploads
      /\ qvac.source \in Sources /\ QuestionsAsked(qvac) /\ qvac.asks \in Nat /\ qvac.replaced \in Nat
      /\ qvac.answer.ask \in Nat /\ qvac.answer.seen \in Nat
  BY DEF QvacInv, QvacState, StatementOK, Uploads
<1>2. uploads \in SUBSET Uploads /\ upload.file \in DOMAIN Files /\ upload.file # "demo"
  BY <1>1, AdvisorsAssumption DEF Uploads
<1>3. source \in Sources
  <2> HIDE DEF some
  <2> QED BY <1>1, <1>2 DEF Sources
<1>4. DOMAIN Transactions(source) # {}
  <2>1. CASE some
    <3>1. Transactions(upload.file) = parseCSV(Files[upload.file])
      BY <1>2 DEF Transactions
    <3> QED BY <2>1, <3>1
  <2>2. CASE ~some
    BY <2>2 DEF QvacInv, StatementOK
  <2> QED BY <2>1, <2>2
<1>5. qvac' = [qvac EXCEPT !.uploads = uploads, !.processing = FALSE, !.source = source, !.replaced = replaced]
  BY <1>1 DEF Parsed, Qvac, QvacState
<1>6. replaced \in Nat /\ ((source = qvac.source /\ replaced = qvac.replaced) \/ replaced = qvac.asks)
  <2> HIDE DEF some
  <2> QED BY <1>1
<1> HIDE DEF uploads, source, replaced
<1>7. /\ qvac' \in QvacState /\ qvac'.fileName = qvac.fileName /\ qvac'.source = source
      /\ qvac'.answer = qvac.answer /\ qvac'.asks = qvac.asks
      /\ qvac'.replaced = replaced /\ qvac'.calls = qvac.calls /\ qvac'.chatLoading = qvac.chatLoading
  BY <1>1, <1>2, <1>3, <1>5, <1>6 DEF QvacState, Uploads
<1>8. QuestionsAsked(qvac')
  <2>1. CASE source = qvac.source /\ replaced = qvac.replaced
    BY <1>1, <1>7, <2>1, SameQuestions
  <2>2. CASE replaced = qvac.asks
    <3>1. \A c \in qvac.calls : c.ask \in 1..qvac.asks /\ ~(c.ask > qvac.asks)
      BY <1>1 DEF QuestionsAsked
    <3>2. ~(qvac.answer.ask > qvac.asks)
      BY <1>1 DEF QuestionsAsked
    <3> QED BY <1>1, <1>7, <2>2, <3>1, <3>2 DEF QuestionsAsked
  <2> QED BY <1>6, <2>1, <2>2
<1> QED BY <1>1, <1>4, <1>7, <1>8 DEF QvacInv, StatementOK

Questioned == [ask : Nat, of : Sources, stage : ChatStages]
LEMMA QvacStepInv ==
  ASSUME QvacInv, QvacStep
  PROVE  QvacInv'
<1>1. PICK call \in qvac.calls : \E out \in Outcomes(ChatRoute, call) :
        qvac' = IF out \in DOMAIN ChatRoute THEN [qvac EXCEPT !.calls = Moves(@, call, out)]
                ELSE [qvac EXCEPT !.calls = @ \ {call}, !.chatLoading = FALSE, !.answer = ChatResponse(call, out)]
  BY DEF QvacStep, Qvac
<1>2. PICK out \in Outcomes(ChatRoute, call) :
        qvac' = IF out \in DOMAIN ChatRoute THEN [qvac EXCEPT !.calls = Moves(@, call, out)]
                ELSE [qvac EXCEPT !.calls = @ \ {call}, !.chatLoading = FALSE, !.answer = ChatResponse(call, out)]
  BY <1>1
<1>3. qvac \in QvacState /\ qvac.calls \in SUBSET Questioned /\ call \in Questioned /\ qvac.asks \in Nat
      /\ call.ask \in Nat /\ call.of \in Sources
  BY DEF QvacInv, QvacState, Questioned
<1>4. out \in ChatStages \cup Authors /\ DOMAIN ChatRoute = ChatStages
  <2>1. call.stage \in ChatStages
    BY <1>3 DEF Questioned
  <2> QED BY <1>2, <2>1, ChatOutcomes
<1>5. QuestionsAsked(qvac) /\ call \in qvac.calls
  BY DEF QvacInv
<1>6. CASE out \in ChatStages
  <2> DEFINE next == [call EXCEPT !.stage = out]
             calls == (qvac.calls \ {call}) \cup {next}
  <2>1. next \in Questioned /\ next.ask = call.ask /\ next.of = call.of
    BY <1>3, <1>6 DEF Questioned
  <2>2. qvac' = [qvac EXCEPT !.calls = calls]
    BY <1>2, <1>4, <1>6 DEF Moves
  <2> HIDE DEF next
  <2>3. calls \in SUBSET Questioned /\ (\A c \in calls : c \in qvac.calls \/ c = next)
        /\ next \in calls /\ \A c \in qvac.calls : c \in calls \/ c = call
    BY <1>3, <2>1
  <2> HIDE DEF calls
  <2>4. /\ SameStatement /\ qvac'.answer = qvac.answer /\ qvac'.asks = qvac.asks
        /\ qvac'.replaced = qvac.replaced /\ qvac'.calls = calls /\ qvac'.chatLoading = qvac.chatLoading
    BY <1>3, <2>2, <2>3 DEF SameStatement, QvacState, Questioned
  <2>5. QuestionsAsked(qvac')
    <3>1. qvac'.source = qvac.source
      BY <2>4 DEF SameStatement
    <3>2. \A n \in 1..qvac.asks : n > qvac.answer.seen => \E c \in calls : c.ask = n
      BY <1>5, <2>1, <2>3 DEF QuestionsAsked
    <3>3. \A c \in calls : c.ask \in 1..qvac.asks /\ (c.ask > qvac.replaced => c.of = qvac.source)
      BY <1>5, <2>1, <2>3 DEF QuestionsAsked
    <3>4. qvac.chatLoading => \E c \in calls : c.ask = qvac.asks
      BY <1>5, <2>1, <2>3 DEF QuestionsAsked
    <3> QED BY <1>5, <2>4, <3>1, <3>2, <3>3, <3>4 DEF QuestionsAsked
  <2> QED BY <2>4, <2>5, SameStatementInv
<1>7. CASE out \notin ChatStages
  <2> DEFINE calls == qvac.calls \ {call}
             answer == ChatResponse(call, out)
  <2>1. calls \in SUBSET Questioned /\ \A c \in calls : c \in qvac.calls
    BY <1>3
  <2>2. /\ answer \in [ask : Nat, of : Sources, by : {"none", "model", "fallback", "patterns"}, seen : Nat]
        /\ answer.ask = call.ask /\ answer.of = call.of /\ answer.seen = qvac.asks
    BY <1>3, <1>4, <1>7 DEF Authors, ChatResponse, Answer
  <2>3. qvac' = [qvac EXCEPT !.calls = calls, !.chatLoading = FALSE, !.answer = answer]
    BY <1>2, <1>4, <1>7
  <2> HIDE DEF calls, answer
  <2>4. /\ SameStatement /\ qvac'.answer = answer /\ qvac'.asks = qvac.asks
        /\ qvac'.replaced = qvac.replaced /\ qvac'.calls = calls /\ qvac'.chatLoading = FALSE
    BY <1>3, <2>1, <2>2, <2>3 DEF SameStatement, QvacState, Questioned
  <2>5. QuestionsAsked(qvac')
    <3>1. qvac'.source = qvac.source
      BY <2>4 DEF SameStatement
    <3>2. call.ask \in 1..qvac.asks /\ (call.ask > qvac.replaced => call.of = qvac.source)
      BY <1>5 DEF QuestionsAsked
    <3>3. \A c \in calls : c.ask \in 1..qvac.asks /\ (c.ask > qvac.replaced => c.of = qvac.source)
      BY <1>5, <2>1 DEF QuestionsAsked
    <3> QED BY <1>3, <1>5, <2>2, <2>4, <3>1, <3>2, <3>3 DEF QuestionsAsked
  <2> QED BY <2>4, <2>5, SameStatementInv
<1> QED BY <1>6, <1>7

LEMMA handleLocalChatInv ==
  ASSUME QvacInv, handleLocalChat
  PROVE  QvacInv'
<1> DEFINE asks == qvac.asks + 1
           call == [ask |-> asks, of |-> qvac.source, stage |-> "route"]
           calls == qvac.calls \cup {call}
<1>1. /\ qvac \in QvacState /\ qvac.source \in Sources /\ qvac.calls \in SUBSET Questioned /\ qvac.asks \in Nat
      /\ qvac.replaced \in Nat /\ qvac.answer.ask \in Nat /\ qvac.answer.seen \in Nat /\ QuestionsAsked(qvac)
  BY DEF QvacInv, QvacState, Questioned
<1>2. call \in Questioned /\ call.ask = asks /\ call.of = qvac.source /\ asks \in Nat /\ asks = qvac.asks + 1
  BY <1>1 DEF Questioned, ChatStages
<1>3. qvac' = [qvac EXCEPT !.chatLoading = TRUE, !.asks = asks, !.calls = calls]
  BY DEF handleLocalChat, Qvac
<1> HIDE DEF asks, call
<1>4. calls \in SUBSET Questioned /\ (\A c \in calls : c \in qvac.calls \/ c = call)
      /\ call \in calls /\ \A c \in qvac.calls : c \in calls
  BY <1>1, <1>2
<1> HIDE DEF calls
<1>5. /\ SameStatement /\ qvac'.answer = qvac.answer /\ qvac'.asks = asks
      /\ qvac'.replaced = qvac.replaced /\ qvac'.calls = calls
  BY <1>1, <1>2, <1>3, <1>4 DEF SameStatement, QvacState, Questioned
<1>6. ASSUME NEW n \in 1..asks, n > qvac.answer.seen PROVE \E c \in calls : c.ask = n
  <2>1. CASE n = asks
    BY <1>2, <1>4, <2>1
  <2>2. CASE n # asks
    <3>1. n \in 1..qvac.asks
      BY <1>1, <1>2, <2>2
    <3> QED BY <1>1, <1>4, <1>6, <3>1 DEF QuestionsAsked
  <2> QED BY <2>1, <2>2
<1>7. ASSUME NEW c \in calls PROVE c.ask \in 1..asks /\ (c.ask > qvac.replaced => c.of = qvac.source)
  <2>1. CASE c = call
    BY <1>1, <1>2, <2>1
  <2>2. CASE c \in qvac.calls
    <3>1. c.ask \in 1..qvac.asks /\ (c.ask > qvac.replaced => c.of = qvac.source)
      BY <1>1, <2>2 DEF QuestionsAsked
    <3> QED BY <1>1, <1>2, <3>1
  <2> QED BY <1>4, <2>1, <2>2
<1>8. qvac.answer.ask <= qvac.answer.seen /\ qvac.answer.seen <= asks /\ qvac.replaced <= asks
      /\ (qvac.answer.ask > qvac.replaced => qvac.answer.of = qvac.source)
  BY <1>1, <1>2 DEF QuestionsAsked
<1>9. qvac'.source = qvac.source /\ \E c \in calls : c.ask = asks
  BY <1>2, <1>4, <1>5 DEF SameStatement
<1>10. QuestionsAsked(qvac')
  BY <1>5, <1>6, <1>7, <1>8, <1>9 DEF QuestionsAsked
<1> QED BY <1>5, <1>10, SameStatementInv

LEMMA QvacStays ==
  ASSUME QvacInv, acts \in 0..MaxActs, [Next]_vars
  PROVE  QvacInv'
<1>1. qvac \in QvacState /\ qvac.source \in Sources /\ qvac.calls \in SUBSET Questioned /\ QuestionsAsked(qvac)
  BY DEF QvacInv, QvacState, Questioned
<1>2. ASSUME NEW category \in Range(Categories), setFilterCat(category)
      PROVE  QvacInv'
  <2> DEFINE filter == IF qvac.filter = category THEN "all" ELSE category
  <2>1. qvac' = [qvac EXCEPT !.filter = filter] /\ filter \in Range(Categories) \cup {"all"}
    BY <1>2 DEF setFilterCat, Qvac
  <2> HIDE DEF filter
  <2>2. SameStatement
    BY <1>1, <2>1 DEF SameStatement, QvacState
  <2>3. QuestionsAsked(qvac')
    BY <1>1, <2>1, SameQuestions DEF QvacState
  <2> QED BY <2>2, <2>3, SameStatementInv
<1>3. CASE TypeQuery
  <2>1. PICK typed \in BOOLEAN : qvac' = [qvac EXCEPT !.query = typed]
    BY <1>3 DEF TypeQuery, Qvac
  <2>2. SameStatement
    BY <1>1, <2>1 DEF SameStatement, QvacState
  <2>3. QuestionsAsked(qvac')
    BY <1>1, <2>1, SameQuestions DEF QvacState
  <2> QED BY <2>2, <2>3, SameStatementInv
<1>4. CASE qvac' = qvac
  BY <1>4 DEF QvacInv
<1> QED BY <1>2, <1>3, <1>4, QvacSteps, NewQvacInv, UploadInv, ReadInv, ParsedInv, QvacStepInv, handleLocalChatInv

LEMMA AnswersAreLast == ASSUME QvacInv PROVE AnswerIsLast
<1>1. OutrunOnly(qvac.answer, qvac.asks, Awaited(qvac.calls), {})
  BY DEF QvacInv, QuestionsAsked, OutrunOnly, Awaited
<1>2. qvac.chatLoading => qvac.asks \in Awaited(qvac.calls)
  BY DEF QvacInv, QuestionsAsked, Awaited
<1> QED BY <1>1, <1>2 DEF QvacInv, QuestionsAsked, AnswerIsLast

LEMMA ContextDoesAccount == ASSUME QvacInv PROVE ContextAccounts
<1> DEFINE rows == Transactions(qvac.source)
<1>1. qvac \in QvacState /\ qvac.source \in Sources
  BY DEF QvacInv, QvacState
<1>2. qvac.source \in Accounted
  BY <1>1, TransactionsOK, RowsAccount DEF Accounted
<1>3. UploadZone = "demo" => qvac.source = "demo"
  BY DEF UploadZone, QvacInv, StatementOK
<1>4. ASSUME qvac.filter \in Offered[qvac.source] \cup {"all"}
      PROVE  TransactionList.rows # {}
  <2>1. TransactionList.rows = Filtered(rows, qvac.filter)
    BY DEF TransactionList
  <2>2. CASE qvac.filter = "all"
    <3>1. Filtered(rows, "all") = DOMAIN rows
      BY DEF Filtered
    <3> QED BY <2>1, <2>2, <3>1 DEF QvacInv, StatementOK
  <2>3. CASE qvac.filter \in Offered[qvac.source]
    <3> DEFINE c == qvac.filter
    <3>1. Offered[qvac.source] = {card.category : card \in Cards(rows)}
      BY <1>1 DEF Offered
    <3>2. PICK card \in Cards(rows) : c = card.category
      <4> HIDE DEF rows
      <4> QED BY <2>3, <3>1
    <3>3. Total(rows, Filed(rows, c)) > 0
      <4> HIDE DEF rows
      <4> QED BY <3>2 DEF Cards
    <3>4. Filed(rows, c) # {}
      <4>1. SUFFICES ASSUME Filed(rows, c) = {} PROVE FALSE
        OBVIOUS
      <4>2. Total(rows, {}) = 0
        BY FS_EmptySet, SumUnfold DEF Total
      <4> HIDE DEF rows, c
      <4>3. 0 > 0
        BY <3>3, <4>1, <4>2
      <4> QED BY <4>3
    <3>5. Filed(rows, c) \subseteq Filtered(rows, c)
      BY DEF Filed, Filtered
    <3> QED BY <2>1, <3>4, <3>5
  <2> QED BY <1>4, <2>2, <2>3
<1> QED BY <1>2, <1>3, <1>4 DEF ContextAccounts

-----------------------------------------------------------------------------
(* All of it together.                                                     *)

IInv ==
  /\ acts \in 0..MaxActs
  /\ ContextInv /\ FeedInv /\ VaultAsked /\ ChatInv /\ QvacInv /\ SwapInv
  /\ TreasuryGood(treasury) /\ RunOnce

LEMMA InitIInv == Init => IInv
<1>1. SUFFICES ASSUME Init PROVE IInv
  OBVIOUS
<1>2. acts \in 0..MaxActs /\ acts = 0 /\ acts \in Nat
  BY <1>1, Parameters DEF Init
<1>3. ContextInv
  <2>1. page = "other" /\ vault = 0 /\ versions = 0 /\ isLoading = FALSE /\ ready = FALSE
    BY <1>1, Zenon DEF Init
  <2>2. 0 \in 0..MaxVaults /\ "other" \in Pages
    BY Parameters DEF Pages
  <2> QED BY <2>1, <2>2, Zenon DEF ContextInv
<1>4. FeedInv /\ VaultAsked /\ RunOnce
  <2>1. log = Seeds /\ listeners = 0 /\ versions = 0 /\ activity = NewActivity /\ page = "other"
    BY <1>1, Zenon DEF Init
  <2>2. LogOK(log)
    BY <2>1, SeedsAreLog
  <2>3. /\ activity \in ActivityState(versions) /\ activity.subscribed = FALSE
        /\ NewestFirst(activity.feed) /\ InsightAsks(activity)
    BY <2>1, NewActivityIs
  <2>4. FeedInv
    BY <2>1, <2>2, <2>3, SMT DEF FeedInv
  <2> QED BY <2>1, <2>4 DEF VaultAsked, RunOnce
<1>5. ChatInv
  <2>1. chat = NewChat
    BY <1>1 DEF Init
  <2> QED BY <1>2, <2>1, NewChatIs DEF ChatInv
<1>6. QvacInv
  <2>1. qvac = NewQvac
    BY <1>1 DEF Init
  <2> QED BY <2>1, NewQvacIs DEF QvacInv
<1>7. SwapInv
  <2>1. swap = NewSwap
    BY <1>1 DEF Init
  <2> QED BY <1>2, <2>1, NewSwapIs, Parameters DEF SwapInv
<1>8. TreasuryGood(treasury)
  BY <1>1, NewTreasuryGood DEF Init
<1> QED BY <1>2, <1>3, <1>4, <1>5, <1>6, <1>7, <1>8 DEF IInv

LEMMA IInvStays == IInv /\ [Next]_vars => IInv'
BY ActsGrow, ContextStays, FeedStays, VaultAskedStays, ChatStays, QvacStays, SwapStays, TreasuryStays,
   RunOnceStays DEF IInv

LEMMA AlwaysIInv == Spec => []IInv
BY InitIInv, IInvStays, PTL DEF Spec

(* An ask is numbered by its page and its answer carries the number.  What *)
(* QVAC, the activity page and the treasury page show is the answer that   *)
(* landed last: whatever was asked after it had landed is still awaited or *)
(* was lost, so it is older than the last answered ask only where the two  *)
(* overlapped, and it belongs to its statement, vault or range.  A quote is *)
(* that of the last request and of the form as it was left then; question  *)
(* and answer alternate in the chat; the cards of a statement account for  *)
(* every cent; and each flag of the treasury page stands for its work.     *)
THEOREM AnswersDoMatch == Spec => []AnswersMatch
<1>1. IInv => AnswersMatch
  BY TurnsDoMatch, ContextDoesAccount, AnswersAreLast, InsightsAreLast, QuotesAreLatest, TreasuryDoesWork
     DEF IInv, AnswersMatch
<1> QED BY <1>1, AlwaysIInv, PTL

(* From its four seeds on, the log is what was appended, newest first, and *)
(* then the first of the seeds, as many as still fit: the newest seed is   *)
(* dropped before the older ones.  The feed of a page that listens has the *)
(* entries of the log, in the order in which they were written, or lacks   *)
(* only what was written before its effect and none was written since; and *)
(* the log has that one listener at most.                                  *)
THEOREM FeedIsTheLog == Spec => []FeedFollowsLog
<1>1. ASSUME IInv PROVE FeedFollowsLog
  <2>1. LogOK(log) /\ NewestFirst(activity.feed)
        /\ (listeners = IF activity.subscribed THEN 1 ELSE 0)
        /\ (activity.subscribed => Range(activity.feed) = Range(log) \/ Written = activity.joined)
    BY <1>1 DEF IInv, FeedInv
  <2>2. Appended = Latest(log) - 4 /\ Written = Latest(log)
    BY WrittenIsLatest, Parameters DEF Appended
  <2> QED BY <2>1, <2>2, SMT DEF FeedFollowsLog, LogOK, NewestFirst
<1> QED BY <1>1, AlwaysIInv, PTL

(* Every variable stays within its type; the context's vault is the latest *)
(* version or none, and the log has an entry at least and Kept at most.    *)
THEOREM AdvisorsAreTyped == Spec => []AdvisorsTypeOK
<1>1. ASSUME IInv PROVE AdvisorsTypeOK
  <2>1. /\ page \in Pages /\ vault \in {0, versions} /\ versions \in 0..MaxVaults
        /\ isLoading \in BOOLEAN /\ ready \in BOOLEAN /\ acts \in 0..MaxActs
    BY <1>1, Zenon DEF IInv, ContextInv
  <2>2. log \in Seq(LogEntry) /\ Len(log) \in 1..Kept /\ listeners \in {0, 1}
    <3>1. LogOK(log) /\ (listeners = IF activity.subscribed THEN 1 ELSE 0)
      BY <1>1 DEF IInv, FeedInv
    <3> QED BY <3>1, Parameters DEF LogOK
  <2>3. /\ chat.turns \in Seq(Turn) /\ {chat.input, chat.loading} \subseteq BOOLEAN
        /\ \A call \in chat.calls : call.of \in 1..MaxActs /\ call.stage \in DOMAIN ChatRoute
    <3>1. chat \in ChatState
      BY <1>1 DEF IInv, ChatInv
    <3>2. chat.turns \in Seq(Turn) /\ chat.input \in BOOLEAN /\ chat.loading \in BOOLEAN
          /\ chat.calls \in SUBSET [of : 1..MaxActs, stage : ChatStages]
      BY <3>1 DEF ChatState
    <3> QED BY <3>2, ChatOutcomes
  <2>4. /\ qvac.source \in Sources /\ qvac.fileName \in DOMAIN Files \cup {"none"}
        /\ qvac.filter \in Range(Categories) \cup {"all"} /\ {qvac.processing, qvac.query, qvac.chatLoading} \subseteq BOOLEAN
        /\ qvac.uploads \subseteq [id : 0..MaxActs, file : DOMAIN Files, read : BOOLEAN]
        /\ qvac.answer \in [ask : Nat, of : Sources, by : {"none", "model", "fallback", "patterns"}, seen : Nat]
        /\ qvac.calls \subseteq [ask : Nat, of : Sources, stage : DOMAIN ChatRoute]
    <3>1. qvac \in QvacState
      BY <1>1 DEF IInv, QvacInv
    <3> QED BY <3>1, ChatOutcomes DEF QvacState
  <2>5. /\ activity.feed \in Seq(LogEntry)
        /\ {activity.timer, activity.asked, activity.insight.of} \subseteq 0..versions
        /\ {activity.subscribed, activity.effect, activity.loadingInsight} \subseteq BOOLEAN
        /\ activity.calls \subseteq [ask : Nat, of : 1..versions, stage : DOMAIN InsightsRoute]
    <3>1. activity \in ActivityState(versions)
      BY <1>1 DEF IInv, FeedInv
    <3> QED BY <3>1, InsightOutcomes DEF ActivityState, InsightCall
  <2>6. /\ swap.form \in Form /\ swap.quote \in Quote /\ swap.calls \subseteq Quote
        /\ {swap.quoteLoading, swap.priceLoading, swap.feedback} \subseteq BOOLEAN
        /\ swap.prices \in {"none", "live", "fallback"} /\ swap.loads \in 0..3
    <3>1. swap \in SwapState
      BY <1>1 DEF IInv, SwapInv
    <3> QED BY <3>1 DEF SwapState
  <2>7. swap.locks \in 0..MaxActs
    <3>1. swap.locks \in Nat /\ swap.locks <= acts
      BY <1>1 DEF IInv, SwapInv, SwapState
    <3> QED BY <2>1, <3>1, Parameters
  <2>8. /\ treasury.range \in Ranges /\ treasury.analysis \in Analysis
        /\ treasury.tab \in Tabs
        /\ {treasury.isIngesting, treasury.isAnalyzing, treasury.isGeneratingInsights, treasury.error,
            treasury.selected, treasury.submitting, treasury.done} \subseteq BOOLEAN
        /\ treasury.calls \subseteq TreasuryCall
        /\ treasury.target \in BOOLEAN /\ treasury.closing \in 0..1
    <3>1. treasury \in TreasuryState
      BY <1>1 DEF IInv, TreasuryGood
    <3> QED BY <3>1 DEF TreasuryState
  <2>9. /\ TreasuryCall = [ask : Nat, tag : BOOLEAN, range : Ranges,
                           stage : {"ingest", "tag", "analyze", "insights"}]
        /\ Analysis = [ask : Nat, seen : Nat, range : Ranges, spent : BOOLEAN, insights : BOOLEAN,
                       found : {"none", "nothing", "transactions", "patterns"}]
    BY DEF TreasuryCall, Analysis
  <2> QED BY <2>1, <2>2, <2>3, <2>4, <2>5, <2>6, <2>7, <2>8, <2>9, Zenon DEF AdvisorsTypeOK
<1> QED BY <1>1, AlwaysIInv, PTL
=============================================================================
