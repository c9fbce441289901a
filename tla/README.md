# ACE Protocol: TLA+ models and proofs

This directory holds TLA+ specifications of the ACE Protocol treasury: the on-chain Solana
program under `programs/ace_protocol`; the off-chain payment engine with its database
(`engine/`, `services/treasuryService.ts`, `adapters/`, `backend/`, the API routes); the browser's copy of
the treasury (`src/context/AppContext.tsx`); the pages on which a user moves money; the ingestion and
analysis of mainnet transactions (`services/heliusService.ts`, `patternEngine.ts`, `aiTreasuryService.ts`); and the pages
that explain, quote and log. TLC checks
small instances; TLAPS proves every safety property these runs check, and the refinement of two abstract specifications (an escrow on
chain, access by signature off chain), for all values of the constants. Paths are relative to the repository, pages and routes to `src/app`.

## 1. The system

| Part | State | Operations | Talks to |
| --- | --- | --- | --- |
| Protocol configuration (`instructions/protocol.rs`) | one account: admin, pause flag, fee rates | `initialize_protocol`, `set_protocol_paused` | read by five of the other instructions |
| Vaults (`instructions/vault.rs`, `state.rs`) | one PDA per owner: total, four buckets, percentages, mode, cap; its lamports | `initialize_vault`, `deposit`, `withdraw`, `update_vault_config` | System Program, payments |
| Payments (`instructions/payment.rs`) | one PDA per owner and 32-byte id: recipient, amount, status, kind, priority, approved | `schedule_payment`, `approve_payment`, `execute_payment`, `cancel_payment` | vaults, any recipient |
| Payment engine (`engine/paymentEngine.ts`, `executionRouter.ts`, `policyEngine.ts`) | none of its own | `executePaymentForWallet` | treasury service, x402 adapter |
| Treasury service (`services/treasuryService.ts`, `backend/db.ts`) | SQLite: `wallet_profiles`, `payments`, `x402_settlements`, `transactions`, `dismissed_insights` | `ensureWalletProfile`, `accrueYieldOnProfile`, `getProtocolState`, `patchVault`, `createPayment`, `patchPayment`, `recordTransaction`, `recordX402Settlement` | called by two servers |
| API routes (`src/app/api/protocol`) and Fastify (`backend/server.ts`) | none | one handler per route | treasury service, engine |
| Sessions (`services/sessionService.ts`) | none on the server; a token in the browser | challenge, exchange, verification | every route |
| Client (`context/AppContext.tsx`, `WalletGate.tsx`, `useProtocolStore.ts`) | copy of the wallet's state, session, network; the first two also in localStorage | `loadData`, `ensureSession`, `setNetwork`, `disconnectWallet`, `updateVault`, `refreshVault` | state, session and vault routes |
| Pages (vault, payments, staking, private transfers, settings) | what is on screen; nothing survives leaving the page | deposit, withdraw, pay, stake, send, save | wallet, chain, routes, client |
| Queue view (`queue/route.ts`) and fee engine (`feeEngine.ts`) | none | select, classify, price | payments, patterns, profile |
| Ingestion (`services/heliusService.ts`) and patterns (`patternEngine.ts`) | `mainnet_transactions`, `counterparties`, `recurring_patterns`, `user_tags` | page-by-page ingest, rebuild, detect, tag | Helius API |
| Treasury intelligence (`aiTreasuryService.ts`, `useTreasury.ts`, treasury page, `TagModal.tsx`, the landing page's `WalletScanner.tsx`) | analysis and spinners of two clients; tabs, error and dialog of the page; predictions | ingest, analyse, tag, scan, generate insights | ingestion, patterns, models |
| Advisors (pages `ai`, `qvac`, `activity`, `jupiter`; routes `ai/chat`, `insights`) | a conversation; a statement, its filter and an answer; a feed and an insight; a form, a quote and prices | ask, upload, filter, refresh, quote, lock | context's vault, log, models, Jupiter |
| Activity log (`lib/activityLog.ts`) | an array in memory, gone with a reload: four seeds, then what was appended, cut off at 100; a list of listeners | `getLog`, `appendLog`, `subscribeLog` | every page that acts |
| Staking catalogue, adapters under `src/lib`, landing page and other UI | none worth a model | stubs and presentation | |

The on-chain program and the off-chain service keep **separate books**: no code in the repository
calls the program's payment instructions from the engine, and no route reads the vault account
into `wallet_profiles` after the profile exists. They are therefore modelled separately.

### What is hard

*On chain.* A transaction is atomic, so nothing interleaves inside an instruction; what is hard
is long sequences of legal calls by several owners. The total, the buckets, the lamports of the
PDA and the open payments are updated by different instructions with saturating arithmetic.
Approval is decided when a payment is scheduled and trusted when it runs, with the mode and cap
free to change in between. Ids are re-used after a cancel. A recipient may be any account,
another vault among them. The pause does not cover every instruction.

*Off chain.* Two servers run the same handlers on one SQLite file without transactions. A
handler awaits between reading the profile and writing balances computed from it. An execution is
a sequence of independent statements (settle, complete, read row, write row, record), and a server
may die between any two. Requests are retried and payments are executed again.

*Client.* Loads are async functions that capture the wallet, network and session of the render they began in;
nothing cancels one, several overlap, each applies its answer whenever it arrives, and sign-in, a wallet prompt and the
creation of the profile lie in between. A disconnect, a reload or another account may come at any await.

*Pages.* A chain of calls outlives its dialog and its page. A real transfer is signed first and the server told
afterwards, if at all. Withdrawals and settings send absolute values computed from a copy. Buckets are rounded one
by one. The queue classifies by dates, confidence, policy and reserve, in an order with inclusive windows.

*Ingestion.* Pages are committed before a later one may fail, a freshness check then skips the rest, two requests ingest
at once, all wallets share rows by signature, re-ingestion resets derived columns, and tags live in three tables. The figures of one
analysis come of four queries, and of one more after an await.

*Advisors.* Questions overlap and the answer that lands last is shown, answers are lost or come from one of several models or none,
a context that loads unmounts a conversation, timers are replaced by every new vault, and log entries are appended by chains whose
page is gone, to an array that is not in the order in which it is shown.

### What makes each part correct

* Configuration: the pause stops value from leaving or being promised.
* Vaults: total = buckets + unpaid payments; the PDA holds rent + total; no lamport is created or
  lost; optional outflow leaves the reserve floor intact.
* Payments: each is paid at most once, in full, to the recipient it was scheduled for, or
  refunded; large ones only with the owner's signature; a refund never fails.
* Engine: no payment is completed without its settlement; completed means recorded; balances
  explained by the recorded transactions.
* Client: nothing of a wallet is here that did not sign; no load uses a foreign session; errors and data are never shown together; loading ends; a profile is
  created once.
* Pages: nothing is booked without a transfer behind it; busy means exactly one chain under way; the buckets hold the
  total; waiting never worsens an obligation's place nor lowers its price.
* Ingestion and analysis: what is stored has no holes, sums are exact, tags survive, results belong to the wallet and range
  shown, the figures and panels of one analysis speak of the same rows, spinners end.
* Advisors and log: an older answer is shown only where asks overlapped, and stands under what it was asked for; the feed is the
  log in its order; no page waits for ever.

`PROJECT.json` lists the components, and every hazard at its line with the properties meant for it.

## 2. Modules

| Module | Role |
| --- | --- |
| `AceProgram` | The on-chain program. One action per instruction, plus `SystemTransfer` for lamports sent to a vault PDA from outside. All on-chain properties. |
| `Escrow` | What the program promises, abstractly: free funds, locked amounts, value outside. |
| `AceEscrow` | The refinement mapping: `AceProgram` implements `Escrow`. |
| `MCAceProgram` | Instances for TLC. |
| `SumLemmas` | Lemmas on `SumFunctionOnSet` of the community modules: changing, adding or removing a summand, sums over parts and over unions. |
| `AceProgram_proofs` | The program: types, books (`VaultInv`), solvency, approvals, finality, limits of the autopilot, pause, reserve floor. |
| `AceEscrow_proofs` | Conservation of lamports, refunds that are never refused, and the refinement of `Escrow`. |
| `PaymentEngine` | The off-chain engine, treasury service and routes for one wallet, statement by statement. |
| `MCPaymentEngine` | Instances for TLC. |
| `PaymentEngine_proofs` | Types, settlements, records, the buckets and the audit trail of the engine. |
| `Client` | The provider `AppContext`, the gate, sign-in and the creation of a profile. |
| `Access` | What signing in promises, abstractly: tokens only after a signature, rows and data only with a token. |
| `ClientAccess` | The refinement mapping: `Client` implements `Access`. |
| `MCClient`, `Client_proofs` | Instances for TLC; types, sessions, errors, profiles, that a spinner is awaited, and the refinement of `Access`. |
| `Ledger` | What is computed from transactions: rows, patterns, figures, charts and bills. No state. |
| `Treasury` | Ingestion, tables, tags, analysis, the hook and the scanner over one database. |
| `MCTreasury` | An instance for TLC: a small chain with two wallets that share a transaction. |
| `Treasury_proofs` | All safety and action properties of `Treasury`. |
| `Advisors` | The assistant, statements, activity, swap and treasury pages with their routes, and the log. |
| `MCAdvisors`, `Advisors_proofs` | An instance for TLC: two statements, two vaults, two ranges; all its invariants proved. |
| `WalletPages` | The pages that move money, the queue, the fees, and the routes they call. |
| `MCWalletPages`, `WalletPages_proofs` | An instance for TLC; all its safety and action properties proved. |

Operators named `Bug_...` in a component's module are plausible mistakes of the operator they
precede. The specification never uses them; each property is tried against one of them and must fail.

### 2.1 `AceProgram` and the code

* `config`, `vault[o]`, `payment[o][id]` are the three account types; a field `open` says whether the
  account exists (Anchor's `init` and `close`). `lamports` holds the balances of wallets and vault
  PDAs. `signedOff` is a history variable: the open payments whose owner called `approve_payment`.
* A failing instruction is rolled back by Solana, so each `require!`, checked operation and Anchor
  constraint is a guard. The guard `Fits` stands for checked arithmetic; `SatSub` and `SatMul` for saturating
  arithmetic, kept as such so that the models can tell whether they ever clip.
* Signers are the action's parameters: `has_one = owner`, `has_one = admin` and the seeds make a
  vault or a payment reachable only by its owner.
* `MoveOk` requires two different accounts, because the code borrows both balances mutably: a
  payment to the paying vault itself can only be cancelled.
* `TopUp` is Anchor's `init` on an address that already holds lamports.
* `operation_mode` is a raw byte in the code and a number here; mode 2 asks for neither approval nor cap.
* Left out: fee basis points, risk level, timestamps, `recurrence`, `next_due`, `max_spend_lamports`
  (all stored and read by no instruction), events, transaction fees, the runtime's own rent check on wallets.
* Unreachable in the code and so in the model: statuses executing, failed, cancelled and queued; `vault.status`.

### 2.2 `PaymentEngine` and the code

* `row` is the `wallet_profiles` row in cents (`total`, four buckets, hour of the last accrual).
  `status`, `settlements` and `payouts` are the `payments`, settled `x402_settlements` and payout
  rows of each payment; `deposited` and `staked` sum the other transaction rows.
* `job[r]` is the handler in request slot `r`: `pc` names the next statement, `snap` the state it
  awaited, `current` the row `patchVault` read. One SQL statement is one step.
* `server[r]` is the process. `At` is the JavaScript event loop: a handler runs only if every other handler
  of its process is at an `await`. Handlers of different processes interleave at every statement.
* `execute`, `x402`, `topup`, `stake`, `view` are the routes; then `ensureWalletProfile`, `accrueYield`,
  `getProtocolState`; then `RequireApproval`, `Queue`, `FailShort`, `recordX402Settlement`,
  `Refuse`, `Complete`, which are the exits and steps of `executePaymentForWallet` in order; then
  `patchVaultReads`, `patchVaultWrites`, `recordTransaction`, shared by all writing routes.
* `Crash` kills a server and its handlers, `Tick` is an hour passing (yield accrues by the hour).
* Abstracted: the policy (it may or may not ask for approval above the limit), the router's verdict where
  it depends on the hour, on fees and on the number of other payments (either outcome); interest
  is a constant per hour; the second in a transaction id (a later payout of the same
  payment may or may not collide).
* `completions`, `earned`, `overlapped`, `mixed`, `collided` are history variables used by properties only.
* The behaviour starts from an existing profile with some payments entered through `createPayment`.
  The creation of a profile is in `Client`.

`PaymentEngine`, `Client` and `WalletPages` are three views of one system, each precise where the others are coarse:
the engine has the handlers' statements, the client the loads, the pages the chains of calls. What one view keeps as a single step
(a handler in `WalletPages`, the reload of the vault) the other one opens up.

### 2.3 `Client` and the code

* `page` is the provider's state (`data` with owner and network, `isLoading`, `ready`, `error`), `session` the token in
  the store and `storage` the one in localStorage, both named by their wallet; `timer` is the 80 ms debounce, `leaving` the
  awaited logout, `flow` the render that a deposit or payment began in.
* `load[s]` is a call of `loadData`: `SessionOf`, `CheckMemory`, `CheckStored`, `FetchNonce`, `Sign`, `Exchange` are the
  awaits of `ensureSession`; `SelectProfile`, `ReadChain`, `InsertProfile` those of `ensureWalletProfile` on the server;
  `applyProtocolState` the end. `Fails` is the catch: it also gives up the session.
* After the profile's INSERT, `seedPayments` throws because its named parameters are not bound as the driver wants them, so the first
  request of a wallet is answered with a vault of zeros although the row exists; the model has it so.
* `Gate` is what `WalletGate` renders. `updateVault` changes the copy and sends a patch nobody waits for; `patchVault`
  is the route. `Reload` keeps localStorage and the requests the server is already handling.
* The server's side of a session is `issueSessionJwt`, `verifyJwt`, `getSession`, `SignInChallenge` and
  `createSessionFromSignature` of `sessionService.ts`: a challenge names a wallet, some account signs it, and a session is granted only
  if that account is the wallet. The account that answers the prompt is the one selected in the extension by then (`Sign`), which need
  not be the one the load is for. `signed` is a history variable: the wallets that have signed.
* Seen as `Access`: the tokens are those in memory, in localStorage, captured by a flow, and held by loads from their session check on, reloaded
  pages' requests included (`Holding`); shown is the wallet on screen and those of answers not yet applied; the rows are `profile`, the changes
  the patches of `edits` still under way.
* `NetworkToggle`, `OperationModePanel` and `SettingsForm` are the controls that call `setNetwork` and `updateVault`, with what disables them.
* Left out: `dismissInsight` and `addTransaction` (the form of `updateVault`); `executePayment`, `updatePayment` and
  `addPayment` of the provider, which nothing calls; the panel's cap editor. That a token carries a valid HMAC and has not expired is a verdict
  (`verifyJwt`), and so is that a challenge is fresh.

### 2.4 `Ledger`, `Treasury` and the code

* `table`, `book`, `patterns` and `tags` are the four tables; a row of `table` belongs to the wallet that ingested
  it last, because `signature` is UNIQUE over all wallets (`db.ts:119`). `normalizeTx` derives price, category, counterparty, direction and
  noise from the raw transfers of the instance, as the code does. A sum or pattern is kept as the set of its signatures.
* `run[r]` is a chain of one client: `ingest` with the freshness checks of the two routes (`Ingest`, `PublicIngest`), `fetchPage` per
  page with cursor, cut-off and page limit, `RateLimited` for a 429, `runFullTreasuryAnalysis` up to the await of the insights,
  `generateForecast` after it, `setAnalysis`, `applyUserTag`. `Fails` can hit at every step and keeps what was committed.
* `user` is the state of `useTreasury`, `scan` that of the landing page's scanner. `Abandoned` is an answer that never reaches its client.
* `Recurs` is the confidence of the code over the regularity of the intervals, in integers (squared deviations). Without any interval it
  is `NaN` in the code and refused by no comparison, so the pattern is stored; so here.
* The figures and panels: `getSpendByCategory`, `Burned` with `getMonthlyBurnUsd`, `calculateRunway`, `reserveHealthScore`,
  `predictedSpend`; `buildTimeline` and `ActivityChart`, `TxRow`, `RecurringRow`, `Untagged`, `Kpis` of the treasury page;
  `Below`, `SpendPanel`, `Bills`, `RecentActivity` of the scanner. Dollars are rounded down.
* `submitTag` allows more tags than the dialog does (the dialog is in `Advisors`).
* Left out: the text sent to and written by models; the predictions and insights stored, which are append-only; the counterparties
  read for the answer (their table is `book`); a change of wallet under the hook; and `PublicWalletMode` of the treasury page
  (`treasury/page.tsx:500-878`), which `WalletGate` never lets through without a wallet.

### 2.5 `WalletPages` and the code

* `view` is the page on screen with its mount number; `slot[s]` a chain of awaits, with the mount it was started in. `Here` is
  React's rule that what an unmounted component sets is dropped; nothing stops the chain itself.
* `handlePayNow`, `handleStake`, `handleDeposit`, `handleWithdraw`, `handleSend`, `handleSave` are the handlers of the
  pages; `Prepared`, `Signed`, `Rejected`, `Confirmed`, `Served`, `Told`, `Breaks`, `Withdrawn`, `PrivateServed`, `PrivateLanded`
  their steps. `Finish` ends a chain: idle again, result shown, list fetched again.
* `PayNow` and `StakeNow` are the buttons of the two dialogs (`PayConfirmModal`, `StakeModal`), `MoveFunds` and `SendPrivately` those of the
  vault's panel and the transfer form, `Payable` the rows with a button (`QueueRow`), `Sidebar` the links; a `Dialog` shows an offer, an
  offer while its page is busy, or the outcome of the last chain to end.
* `row` is the profile row, `vault` the provider's copy of it; `ToppedUp`, `Staked`, `PaidFrom` are what the three routes
  make of the row, `Patched` what the vault PATCH does. `blurred` remembers that a withdrawal's patch landed on other balances than it
  was made from.
* The queue: `Listed`, `Confidence`, `daysUntil`, `policyAllows`, `reserveHealthy`, `classifyStatus`, and `computeProtocolFee` in basis points.
  The bill's status is the only part of the payments table it needs.
* Left out: guards for a missing session or wallet, the `saving` flag of the settings, a withdrawal's transaction row (the form
  of the patch), yield accrual (in `PaymentEngine`). The price is not modelled: the route answers `priceUsd`, the pages read `price` and
  always use their fallback. Rounding is half up; a float of an exact half may go either way, which no property depends on.

### 2.6 `Advisors` and the code

* `page` is the page that is mounted. Its state and what it awaits is gone when it is left; `vault` and `log` outlive it, until a
  reload of the browser, which is not modelled. A load of the context unmounts the conversation (`ai/page.tsx:196-218`) and, when it
  fails, every page (`WalletGate`).
* `log` is the array `_log`: `Seeds` are its four entries in the order of the code, oldest first, `appendLog` stores before them and
  cuts off the end. An entry is its number, in the order of writing, and its second; within a second several may be written. `getLog` is the
  stable sort by seconds that every reader of the log gets. The clock is taken not to be set back.
* A request is a record with the `stage` its route has come to; `ChatRoute` and `InsightsRoute` give the stages that may follow and
  who may end up the author. The keys of a deployment and the answers of models are choices at each call.
* `chat`: `sendMessage`, `ChatStep`, what is on screen in `Bubbles`. `qvac`: `handleFileUpload`, `Read`, `Parsed`, `setFilterCat`,
  `handleLocalChat`, `QvacStep`; `parseCSV`, `classifyLocally`, `detectRecurringPatterns` as functions of a statement whose lines say which
  patterns they match; a row is known by the number of its line, as in the code's ids. `activity`: `Effects` (subscription and timer of a render), `TimerFires`, `Refresh`, `InsightStep`; `appendLog` is the
  call of a chain that outlives its page, one of the acts. `swap`: `Edit`, `Flip`, `getQuote`, `QuoteLands`, `handleSwap`, `loadPrices`, `PricesLand`.
* `treasury` is the treasury page as its user sees it: `Header`, the tabs with `Content`, the empty states that offer a longer range, the
  error, `generateInsights`, and the dialog (`setTagTarget`, `handleSubmit`, `ModalTimer`). An analysis is known by its range and by what
  of it is empty; what it finds is in `Treasury`.
* History variables, which decide nothing the code does: each page numbers its asks (`asks`; of the treasury page the runs), an answer on
  screen carries its `ask` and, as `seen`, how many asks there were when it landed; `lost` and `failed` are the asks that ended without
  an answer since; `replaced` is how many questions there were when the statement came; `joined` how many entries when the feed's page
  began to listen; `drifted` says that the form of the swap was edited since the last request, or flipped while that was under way.
* Left out: text, the search in a statement, the revenue figures and the ledger of the activity page (copies of the context), which item a tag
  is for, a range in the address of the treasury page when it is opened.

## 3. Runs

| Run | Instance | Shows |
| --- | --- | --- |
| `payments` | one owner, two ids, amounts below and at the threshold, modes 0 to 2, `U64_MAX` of 180, caps on both sides of the amounts | types, books, approvals, refunds, finality, reserve, floor and cap under saturation and overflow |
| `vaults` | two owners, recipients are a wallet and both vault PDAs, gifts to PDAs | solvency, conservation of lamports, refinement of `Escrow` |
| `safe_mode` | one owner, one id | violation: a payment scheduled in autopilot runs in safe mode without a signature |
| `over_cap` | one owner, one id | violation: above the cap nothing waits for a signature |
| `floor` | one owner, one id | violation: the reserve falls below the minimum ratio |
| `engine` | two servers, two slots, three payments, three calls, one crash, one hour | types, settlement before completion, completed is recorded, balance of the row, audit trail |
| `paid_once` | as `engine` | violation: a completed payment is paid again |
| `client` | two wallets, two networks, two loads at a time, four acts of the user | types, sessions only for wallets that signed and only in their own loads, refinement of `Access`, errors, profiles, and that loading ends |
| `network_leak` | as `client`, three acts | violation: at rest the page shows the network that was left |
| `treasury` | five transactions, two wallets, two runs, three acts | no holes, complete and matching scans, figures and panels of the same rows, exact sums, surviving tags, spinners that end |
| `pages` | five pages, two chains, two acts, three stays, days 0 and 8 | busy flags, transfers behind bookings, buckets, private transfers, order and fees as days pass, busy ends |
| `advisors` | five pages, two statements, two vaults, four acts, three entries after the four seeds, five kept | an answer on screen is older than the last answered ask only where the two overlapped, and belongs to its statement, vault, form or range; figures account for the rows; the feed is the sorted log; waiting ends |

### The bounds and why they are enough

On chain, amounts enter the code only through comparisons with buckets, cap and threshold and through
percentages. `payments` takes an amount below the threshold and one equal to it, since the code compares once with `>` and once
with `>=`; caps of zero, which stands for the default, and at the larger amount; and two allocations, so each branch of
`schedule_payment` is taken. Two payment ids let one be live while the other is paid, cancelled or re-used. `U64_MAX` and the
floor are scaled down together so that `reserve * 10000` saturates and `amount * pct` overflows with amounts of one digit.
Nothing else is bounded: the initial lamports bound the total and make the state space finite. `vaults` needs two owners so that a
payment can go to a foreign vault and to the payer's own. `PAYMENT_RENT`, `VAULT_RENT` and `CONFIG_RENT` are 1 or 2: only
their being positive matters. `vaults` and the engine runs disable deadlock checking: with all lamports
spent on rent, or all calls made and answered, nothing further need happen.

Off chain, `MaxCalls = 3` allows two overlapping executions and a third request that observes or disturbs
their outcome; two servers and two slots give every overlap of two handlers. One crash can hit each statement;
one hour puts an accrual before, between or under the handlers. The payments are one that may wait, one
urgent that drains the reserve and reaches into liquid, and one x402 call; with a second execution the funds run short,
so `FailShort`, `Refuse` (ratio below 15) and `Queue` all occur. The two servers are interchangeable together with their slots,
which is the symmetry the cfg uses.

`client`: two loads suffice for an answer that overtakes another; a second wallet and a second network for an answer
that is foreign in either way; four acts for a connect, a change, a retry and an edit in every order. `treasury`: pages of two
on a chain of five give a first, an inner and a last page, with one transaction landing meanwhile; a row exactly at a range's cut-off, a refund beside a
payment, a dust transfer, a swap and an unpriced token reach the branches of `normalizeTx`; the row limit of three is reached and the scanner's two pages
do not reach the oldest row; one retry stands for three. `pages`:
the amounts are chosen at the borders: a withdrawal that leaves a few dollars, a stake most of the yield, a reserve of 5 % (unhealthy)
and targets that add up to 95 % and 96 %; eight days move each item across a window's edge or past its date. Two acts
are what two chains at once need, three mounts let a page be left and come back to. `advisors`: four acts open a page, begin two
things that overlap, and leave; two vaults let a timer be replaced; the statement has a line that cannot be read, two rows whose amounts round
to one pattern and more rows than are read; five of seven entries are kept, so that the newest and the next seed are dropped while older ones
stay, and three appends fall into one second or several. The runs without `CHECK_DEADLOCK` stop when
all acts are spent and all chains over.

### Fairness

The on-chain program and the engine assume none: nothing obliges an owner to act, and a crashed handler is never resumed.
The weaker `RefundAlwaysPossible` says that the way out of a reservation is always open (`ENABLED`).

`Client`: weak fairness of the debounce timer, the logout, and of the awaits of each load other than the
wallet's prompt: timers fire, fetches are answered or rejected. `Treasury`: weak fairness of each run, for
the same reason; `fetchWithRetry` gives up after its retries. `WalletPages`: weak fairness of the steps of each chain and each list
request; a confirmation comes or its block height passes. The user is bound to nothing, not even to
answer a prompt, so `LoadingEnds` and `BusyEnds` make an exception for an open prompt. `Advisors`: weak fairness of timers, effects
and answers; most calls of models and those of Jupiter are aborted after 8 to 12 seconds, and a request that is never answered is
rejected by the browser. Reading an uploaded file has no fairness: the page does not handle a read error, and its spinner then stays.

### What the violations mean

The five violation runs contradict sentences of the repository, quoted in `PROJECT.json`: `README.md:31` and `README.md:33`
on the two modes, `state.rs:49` on the reserve, the duplicate prevention of `src/lib/paymentAdapter.ts:44-46`,
which no route calls, and the comment at `AppContext.tsx:278-279` that nothing leaks between networks.

More facts are visible in the models without contradicting a stated property:

* Value in the yield and reserve buckets can never leave a vault (`ReserveNeverSpent`); cancelling a payment that was
  reserved from the payments bucket returns it to liquid.
* Off chain, overlapping handlers of different kinds leave the row's total out of step with its buckets and even
  negative, and the next deposit then divides a negative total. `EngineTypeOK` and `RowBalanced` therefore speak of the time before such
  an overlap (`mixed`), and all balances but liquid have type `Int`.
* The same happens through the pages: a late withdrawal patch overwrites a deposit's total, a later stake takes it below
  zero. Hence `blurred` in `BucketsHoldTotal`.
* The first request of a wallet is always answered with zeros. A late answer or a late exchange can restore a session or
  another wallet's data after a disconnect or an account change; no sentence of the repository denies it.
* The shares the settings store may add up to 105 %, since liquid gets at least 5 %
  (`settings/page.tsx:57`), although the page says they are 100 %; balances still add up because a top-up ignores liquid's share.
* The payments page says that detected payments were executed without telling the server; the staking page ignores the answer's
  status. A dialog closed over a payment under way and opened for another item shows the first payment's outcome as the
  second's, without a button to pay (`payments/page.tsx:284-294`). The queue lists patterns from a confidence of 0.55 although its header says 0.65.
* A failed ingestion makes the next request "cached": the missing pages are not fetched until the freshness window has passed.
* The activity log says "keep last 100" (`activityLog.ts:60`), but its seeds are stored oldest first (lines 17-46) and cut off at the end:
  with 97 entries more it drops `init-4`, the newest seed, and keeps the three older ones. `FeedFollowsLog` says what is kept.
* Where asks overlap, the answer that lands last stays, also an older one. QVAC's Enter asks again over a question under way
  (`qvac/page.tsx:634`), the dots go with the first answer, and an answer about the statement that was replaced lands under the new one. The insight of an older vault
  can land after that of the newer. `OutrunOnly` says that this takes an overlap: what was asked after an answer had landed is never hidden by it.
* The swap page's card labels the quoted amount with the form of now (`jupiter/page.tsx:394-437`): after an edit the quote is of another form.
  A flip takes a quote off the screen, but one under way lands unflipped under the flipped form.
* The buttons of empty panels ("View all history", "Expand to All History", "Try 180D or 1Y") are not disabled while a run loads, unlike the range
  selector: the analysis of an older range can land last under the label of the newer, and so can that of a tag, whose analysis is for the
  range of its submission although `useTreasury.ts:121` says "keep current range". `TreasuryWorks` limits both to what overlapped. Asking for insights
  takes the error of a failed run off the screen, and puts insights of the range selected now into the analysis of another.
* None of the last four contradicts a property, and no run is made of them; the properties say exactly how far an answer can be from what is on screen.
* The dialog for tags keeps `done` and `selected` while the page is mounted (`TagModal.tsx:42-62`): after the first tag, also one that failed,
  it says "Tag saved" for every item, and its timer closes whatever is open by then.
* The treasury page draws every row with a price as outgoing (`treasury/page.tsx:304`), unlike the scanner; its chart adds up incoming rows under
  "total outflows", covers 360 of the 365 days of a year, and drops a row exactly as old as the chart is long. The forecast's averages count
  incoming rows, tags "ignore" and "internal" still count as burn, and for all history the burn is of the last 30 days though labelled
  "normalized". The scanner's "total" is of its top four categories; with its vault of zero the reserve score is 100; a runway of 0 is shown as a dash.
* A model's answer without a list gives an empty list of insights; only one that cannot be parsed gives the local ones (`aiTreasuryService.ts`).
* `README.md:20` and `qvac/page.tsx:344` speak of work on the device; the statements are indeed parsed there, but a question goes to
  `POST /api/ai/chat` with the cards and patterns. On the swap page `priceError` is never set, and the output amount is divided by
  10^6 for every token.

## 4. Proofs

The theorems about `AceProgram` hold for any finite sets of wallets, owners and ids, any recipients, amounts,
modes, caps and rents, under the assumptions named there: wallets are not vault
PDAs, constants are unsigned integers, and the initial lamports sum to at most `U64_MAX`. Those about `PaymentEngine`
for any finite sets of slots and payments, any allocation that adds up to 100, any amounts and bounds; those about `Client` for any wallets,
networks and slots; those about `WalletPages` for any queue, inputs and amounts and any finite set of chains, under the assumptions
on types and that the opening row is balanced, which `ensureWalletProfile` establishes by dividing the balance on the chain as
a top-up does (`treasuryService.ts:184-188`).

Those about `Treasury` hold for any chain of transactions between finitely many addresses, any wallets, runs, limits and ranges.
`LedgerAssumption` says that time does not run backwards along the chain, that amounts and prices are not negative (`heliusService.ts` converts
unsigned lamports and token amounts), that a range lies within the time there is and its chart within the range, and that a user's tags are not the
derived categories (`TagModal.tsx:12-21`). Those about `Advisors` hold for any statements, limits, tokens and ranges; `AdvisorsAssumption` says that a
line's amount is a natural number of cents, which `Math.abs` sees to (`qvac/page.tsx:127`), and that no file is named as the
demonstration, and that at least the four seeds are kept (`MaxLogged` bounds the model and is no less either). Every assumption is evaluated by TLC on the instance of each run.

| Theorem | Says |
| --- | --- |
| `TypeCorrect` | `Spec => []TypeOK` |
| `VaultsBalanced` | `Spec => []VaultAccounting` |
| `VaultsSolvent` | `Spec => []VaultSolvent` |
| `LargePaymentsAreSignedOff` | `Spec => []LargePaymentsSignedOff` |
| `PaidPaymentsAreFinal` | `Spec => PaidIsFinal` |
| `ReserveIsNeverSpent` | `Spec => ReserveNeverSpent` |
| `PauseFreezes` | `Spec => PauseFreezesVaults` |
| `AutopilotIsLimited` | `Spec => AutopilotSpendsWithinLimits` |
| `FloorHolds` | `Spec => FloorGatesOptionalOutflow` |
| `SupplyIsConserved` | `Spec => []SupplyConserved` |
| `RefundIsAccepted` | `Spec => [](Held(payment[o][id]) > 0 => CancelAccepted(o, id))` |
| `ProgramIsAnEscrow` | `Spec => ImplementsEscrow` |
| `ReservationsAreKept` | `Spec => ReservationsKept` |
| `EngineIsTyped` | `PaymentEngine!Spec => []EngineTypeOK` |
| `CompletionsAreSettled` | `PaymentEngine!Spec => []SettledBeforeCompleted` |
| `CompletionsAreRecorded` | `PaymentEngine!Spec => []CompletedIsRecorded` |
| `RowsAreBalanced` | `PaymentEngine!Spec => []RowBalanced` |
| `TotalsAreAudited` | `PaymentEngine!Spec => []AuditTrail` |
| `ClientIsTyped` | `Client!Spec => []ClientTypeOK` |
| `LoadsUseTheirOwnToken` | `Client!Spec => []OwnToken` |
| `ErrorsStandAlone` | `Client!Spec => []ErrorShowsNothing` |
| `ProfilesAreInsertedOnce` | `Client!Spec => ProfileInsertedOnce` |
| `ClientControlsAccess` | `Client!Spec => ImplementsAccess` |
| `ShownOnlyAfterSigning` | `Client!Spec => []ShownAfterSigning` |
| `SpinnersAreAwaited` | `Client!Spec => []SpinnerIsAwaited` |
| `PagesAreTyped` | `WalletPages!Spec => []PagesTypeOK` |
| `BookingsAreBacked` | `WalletPages!Spec => []BackedByTransfers` |
| `BusyMeansOneChain` | `WalletPages!Spec => []BusyIsOneChain` |
| `TransfersAreShownAsTheyAre` | `WalletPages!Spec => []ShieldingIsUnderWay` |
| `BucketsAddUp` | `WalletPages!Spec => []BucketsHoldTotal` |
| `NearerIsNeverBehind` | `WalletPages!Spec => TimeOnlyPresses` |
| `TreasuryIsTyped` | `Treasury!Spec => []TreasuryTypeOK` |
| `PagesLeaveNoHoles` | `Treasury!Spec => []NoHoles` |
| `ScansAreComplete` | `Treasury!Spec => []ScanComplete` |
| `ReportsAgree` | `Treasury!Spec => []ReportAgrees` |
| `SumsStayExact` | `Treasury!Spec => SumsAreExact` |
| `ConfirmationsLast` | `Treasury!Spec => TagSurvives` |
| `AdvisorsAreTyped` | `Advisors!Spec => []AdvisorsTypeOK` |
| `AnswersDoMatch` | `Advisors!Spec => []AnswersMatch` |
| `FeedIsTheLog` | `Advisors!Spec => []FeedFollowsLog` |

(The prefixes name modules; each theorem is in the module's `_proofs`, those on supply, refunds, reservations and escrow in `AceEscrow_proofs`.)

*On chain.* `TypeOK` is inductive by itself. `VaultAccounting` is not: a deposit splits the amount into shares,
and the shares add up to the amount only if the percentages add up to 100, and a fresh vault balances only
if no payment account survived from before. `VaultsWellFormed` adds both, and
`VaultInv == TypeOK /\ VaultsWellFormed /\ VaultAccounting /\ VaultSolvent` is inductive
(`BooksInvariant`). With it, every `SatSub` in `withdraw` and `execute_payment` is exact: the amount is at most the
total, because total is the buckets plus the open payments. Solvency then follows, since
a debit lowers `lamports` and `total` by the same amount. The sum over the open payments of an owner is
handled by `SumLemmas`: changing one summand changes the sum by the difference.
`LargePaymentsSignedOff` is inductive together with two facts: a payment with a large amount is scheduled
as pending, and a pending payment becomes scheduled only through `approve_payment`. `PaidIsFinal` holds because each instruction that
writes a payment demands a status other than completed. `ReserveNeverSpent` uses the
type of the shares of a deposit; `PauseFreezesVaults` that under a pause only configuration, approval
and cancellation are enabled, besides transfers into PDAs.
`AutopilotSpendsWithinLimits` needs `OnlyExecutionPays` (a payment becomes completed in no other instruction), the cap check of
that instruction, and `LargePaymentsSignedOff` for the payments nobody approved. `FloorGatesOptionalOutflow` rests on two
facts: only a withdrawal or an execution lowers a total (`OnlyOutflowsLower`), and the code's saturated, rounded-down
ratio is never above the exact one (`RatioBound`), so passing the check in the code means that the exact floor holds.

*Lamports and the escrow.* `SupplyConserved` sums over all addresses, and `ProgramIsAnEscrow` compares what every holder is worth before
and after: each instruction moves lamports between two accounts, so both come down to a sum in which two summands change, and to
the number of open payment accounts, whose rent counts as their owner's. The refinement needs `VaultInv` for its guards: free funds suffice because total, buckets and open payments
agree, and a payment is settled in full because no subtraction clips. A run of `initialize_vault` on a PDA that holds lamports is a trade among
holders (`TopUp`). `ReservationsKept` is then a fact about the escrow alone (`EscrowKeepsPromises`): what a payment has reserved is
touched by nothing until it goes, whole, to its recipient or back to the vault. `RefundIsAccepted` is `RefundAlwaysPossible` without `ENABLED`: `CancelAccepted` is the conjunction of
`cancel_payment`'s checks (`CancelGuard` shows that there are no others), and its overflow checks pass because
what they add up is part of a vault's total or of the supply.

*Engine.* Each statement of a handler is first shown to have one of a few shapes (`StepShape`): a handler arrives, loads, advances,
leaves, earns interest, settles, completes, reads, stores or records, or a server dies, or the clock moves. The shape says what becomes of
the books and of the one handler that moves, and each invariant is proved per shape. `TypeInv` adds to the types what a handler is bound to
at each statement (`Fit`: past the checks, its call is affordable in the state it read). `SettledInv` and `RecordedInv` count the handlers
between two statements: completions and the handlers about to complete are at most the settlements; completions are
the payouts and the handlers that still owe theirs. `BooksInv` is why lost updates do no harm to the balance while handlers of one kind
overlap: such handlers leave the same columns alone (`Kept`), so what one read first, what it read again and the row agree on these, and a patch
of a sound row is sound (`PatchOfCall`, which needs that three rounded shares exceed a total by a cent at most). An accrual finds no other handler
active, or the history is `mixed`. `AuditInv` follows the only handler: its total is the row's until it stores, and then the row
is ahead of the records by exactly what it will record (`Change`).

*Client.* `ClientInv` is the types, `ErrorShowsNothing`, and `Tied`: a load past its sign-in holds the token of its own wallet,
and one in sign-in holds none. `OwnToken` alone is not inductive, because the step that begins a load takes the token from memory or
localStorage, and because a reload leaves requests at the server that belong to no load. Its second half, that every token and every
patch is of a wallet that signed a challenge, is `Known`: tokens are copied between memory, localStorage, loads and patches, and enter only
by `createSessionFromSignature`, whose challenge bears the account that signed. `ProfilesAreInsertedOnce`
needs only that an INSERT keeps a row that exists. `ClientControlsAccess` maps each of the client's actions to one of `Access`: the token a load ends up
with was somebody's before (`Holders`, `TokensFrom`), so only `createSessionFromSignature` issues one, an INSERT or an answer happens with a token held
(`GoesHeld`, `AnswerHeld`), and a load's other steps lose what it had or change nothing. `ShownAfterSigning` is an invariant of `Access`, proved there and inherited. `SpinnerIsAwaited` is the part of `LoadingEnds` that no fairness could make good: a spinner
has something under way that can end it. Its invariant, `Waited`, adds that a flow begins with a wallet, for the load at its end would otherwise
empty the page behind the gate's spinner and ask for nothing.

*Pages.* Three invariants. `TypeInv` adds to the types that a chain's fields fit its `pc` (`Tied`). `OneInv` adds that the chains of the page on
screen are at most one, and exactly one when it is busy (`OneChain`), and which transfer it carries (`Shielded`); each action
is first shown to have one of six shapes (`StepShape`: it leaves chains alone, leaves the page, asks for a list, begins, moves on or ends a
chain), and the invariant is proved per shape. `BooksInv` adds that every withdrawal patch under way is covered by the balances it was made from:
a patch that lands on those very balances keeps them balanced, and a top-up's three rounded shares exceed the total by at most
a cent because they are at most the whole. `Covered` counts the chains between signature and booking together with the
bookings. `TimeOnlyPresses` rests on monotonicity lemmas on `classifyStatus` and `computeProtocolFee`, applied to the one action
that moves the clock.

*Ingestion and analysis.* `Typed` adds to the types that a client has at most one chain it still listens to and turns exactly while it has one (`Busy`).
`TagSurvives` needs that a confirmed pattern bears the oldest tag of its address (`TagsConfirm`). `NoHoles` becomes inductive when counted
(`Paging`): after n pages there are at least n pages' worth of the wallet's transactions between the cursor and the start, and all of them that are in range
and shared with nobody are stored; a row once stored for its own wallet stays (`OwnRowsStay`). The same count bounds what a scan has covered when its page limit ends it,
and when its cut-off does: time not running backwards, everything older is out of range too. `Scans` carries that from the last page over the analysis to
what is shown: the row limit may hide a row only behind as many newer ones (`NewestIsFull`). `ReportAgrees` rests on what is true of an analysis when its
queries are made in one step (`Honest`) and on its being passed on unchanged but for the forecast (`KnownIsHonest`). For the chart,
`TimelineParts` shows that the bars share no row and cover exactly the rows younger than the chart is long; the sum of the bars
is then the sum over these rows (`SumParts`).

*Advisors.* `IInv` has one part per page. `ChatInv`: a call is under way exactly while the chat loads, for the last question asked, and every
turn is in its place. `SwapInv`: the one call there may be is for the last request, a quote on screen answers that, and unless `drifted` both
are of the form on screen. For the pages whose asks overlap the part is the same each time: every ask later than `seen` is under way
or lost (`QuestionsAsked`, `InsightAsks`, `RunsAsked`), which a landing keeps since it sets `seen` to the last ask, and every call of the last ask is of
the statement, vault or range on screen. `VaultAsked`: once its effects have run, the vault has a timer or was asked for. `TreasuryGood`: flags are up as long as their calls, of insights and of tags there is one call
at most, and a blank page has its first run or an error; `RunOnce`: an open treasury page has begun a run.

`FeedInv` rests on the log's shape (`LogOK`): numbers fall from the latest one to 5 and then rise from 1, cut off at `Kept`, and of two entries the one with the greater
number sorts `Before` the other, by its second or by its place. `Before` orders the entries of any list (`TotalOrder`, `Ranks`), so that `getLog` is a permutation
of it (`SortedLog`), and of this log one that is newest first (`FeedOfLog`). `ContextAccounts`
is a fact about every statement (`RowsAccount`): a card or a pattern determines the rows it sums up, so the cards are
a partition of the rows, the patterns one of the recurring rows, and their sums add up.

Model-checked only: the liveness properties `LoadingEnds`, `SpinnersEnd`, `BusyEnds`, `WaitingEnds` (under fairness) and
`RefundAlwaysPossible` (`ENABLED`), which are out of the prover's reach.
Proved only: `PauseFreezesVaults`, `SpinnerIsAwaited`, `ReservationsKept`, `ShownAfterSigning` and the formula of `RefundIsAccepted`, which no run checks.

## 5. What is not modelled, and what could follow

* The landing page but for its scanner, the dashboard but for its mode panel, history, architecture and onboarding pages, `ProtocolFlowScene` and the other
  components under `src/components`, the mock data and the seeding script: nearly half of the implementation's lines. They render
  copies of the context and keep no state that outlives a render; there is no control to model.
* The text of insights, prompts and chat (and what a model writes); stored predictions, whose reader (`getStoredPredictions`) nothing calls.
* The decoding of account bytes and the RPC fallback in `src/lib/solana` (pure input and output).
* The raw patch routes of Fastify, the dismissal of insights, the payment PATCH: one unconditional statement each.
* The cryptography of sessions (HMAC, ed25519) and the lifetimes of challenges and tokens; they are verdicts in `Client`.
* The router's and the policy's arithmetic: `PaymentEngine` takes every verdict they can give.

Open: a composition of `Client` with the statement-level engine.
