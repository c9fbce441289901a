------------------------------- MODULE Client -------------------------------
(***************************************************************************)
(* The browser's copy of a wallet's treasury: the provider AppContext with *)
(* its session, its local storage and its debounced loads, the gate before *)
(* the pages, and the part of the server it talks to: sign-in, the state   *)
(* route, the creation of a wallet's profile and the vault route.          *)
(*                                                                         *)
(* A load is an async function: it captures the wallet, the network and    *)
(* the session of the render it was called from, and each await ends a     *)
(* step.  Several loads may be under way, and nothing cancels one.         *)
(*                                                                         *)
(* A session token is represented by the wallet it names.  Whether the     *)
(* server still accepts it (it expires after seven days, the secret may    *)
(* change), whether a challenge is still fresh and whether a request       *)
(* arrives at all is a choice at each call.                                *)
(* Of the vault only its owner, network and operation mode are kept: the   *)
(* mode stands for everything updateVault can change.                      *)
(*                                                                         *)
(* An operator whose name begins with Bug_ is the operator after it with a *)
(* plausible mistake; nothing in the specification uses them.              *)
(***************************************************************************)
EXTENDS Naturals

CONSTANTS
  Wallets, NoWallet,   \* wallets that may be connected; none of them
  Networks,            \* mainnet and devnet
  Slots,               \* bounds how many loads are under way at once
  MaxActs              \* bounds what the user does

ASSUME ClientAssumption ==
  /\ NoWallet \notin Wallets /\ Networks # {} /\ MaxActs \in Nat

VARIABLES
  wallet,     \* the connected wallet
  network,    \* the selected network (persisted)
  session,    \* the wallet of the token in the protocol store
  storage,    \* the wallet of the token in localStorage (persisted)
  page,       \* the state of the provider
  timer,      \* the debounce of 80 ms is running
  leaving,    \* disconnectWallet awaits the logout
  load,       \* the loads under way
  flow,       \* the render a deposit, stake or payment under way began in
  profile,    \* server: the operation mode in each wallet_profiles row
  edits,      \* vault patches under way to the server
  signed,     \* history: the wallets that have signed a challenge
  acts        \* what the user has done so far

screen == <<wallet, network, page, timer, leaving, flow>>
server == <<profile, edits, signed>>
vars == <<screen, session, storage, load, server, acts>>

Modes == {"safe", "autopilot"}
Maybe == Wallets \cup {NoWallet}
NoData == [kind |-> "none", of |-> NoWallet, network |-> CHOOSE n \in Networks : TRUE,
           mode |-> "safe"]
Data == [kind : {"none", "zero", "real"}, of : Maybe, network : Networks, mode : Modes]
Page == [data : Data, isLoading : BOOLEAN, ready : BOOLEAN,
         error : {"none", "retry", "reconnect"}]
Pcs == {"idle", "memory", "stored", "nonce", "sign", "exchange",
        "select", "chain", "insert", "answered"}
Load == [pc : Pcs, wallet : Maybe, network : Networks, token : Maybe, reply : Data]

(* What an async function of a render keeps of it.                         *)
Render == [wallet : Maybe, network : Networks, session : Maybe]
Current == [wallet |-> wallet, network |-> network, session |-> session]
NoFlow == [wallet |-> NoWallet, network |-> NoData.network, session |-> NoWallet]

(* A slot whose wallet is NoWallet holds a request nobody waits for.       *)
NoLoad == [pc |-> "idle", wallet |-> NoWallet, network |-> NoData.network,
           token |-> NoWallet, reply |-> NoData]
DefaultPage == [data |-> NoData, isLoading |-> FALSE, ready |-> FALSE, error |-> "none"]

Acts == acts < MaxActs /\ acts' = acts + 1
Goes(s, pc, token) == load' = [load EXCEPT ![s].pc = pc, ![s].token = token]
Ended(s) == load' = [load EXCEPT ![s] = NoLoad]

-----------------------------------------------------------------------------
(* Sessions on the server, which keeps no record of them.                  *)

issueSessionJwt(w) == w

(* A token verifies if its signature does and it has not expired.          *)
verifyJwt(token) == {token, NoWallet}
getSession(token) == IF token = NoWallet THEN {NoWallet} ELSE verifyJwt(token)

(* A challenge is a message that names the wallet and the time, under a    *)
(* signature of the server; here it has been signed by some account.       *)
SignInChallenge == [wallet : Wallets, signer : Wallets, fresh : BOOLEAN]

(* The message is made anew from the wallet the request names, and the     *)
(* signature checked against that wallet.                                  *)
Bug_any_signer(c) == IF c.fresh THEN issueSessionJwt(c.wallet) ELSE NoWallet
createSessionFromSignature(c) ==
  IF c.fresh /\ c.signer = c.wallet THEN issueSessionJwt(c.wallet) ELSE NoWallet

-----------------------------------------------------------------------------
(* loadData and ensureSession.                                             *)

(* The data is wiped before anything is fetched.                           *)
Wiped == [page EXCEPT !.data = NoData, !.isLoading = TRUE, !.error = "none"]

(* Where ensureSession begins: with the token in memory if it names this   *)
(* wallet, then the one in localStorage, then a new sign-in.               *)
Bug_any_session(w, inMemory) ==
  IF inMemory # NoWallet THEN [pc |-> "memory", token |-> inMemory]
  ELSE IF storage = w THEN [pc |-> "stored", token |-> storage]
  ELSE [pc |-> "nonce", token |-> NoWallet]
SessionOf(w, inMemory) ==
  IF inMemory = w THEN [pc |-> "memory", token |-> inMemory]
  ELSE IF storage = w THEN [pc |-> "stored", token |-> storage]
  ELSE [pc |-> "nonce", token |-> NoWallet]

loadData(s, render) ==
  /\ load[s].pc = "idle"
  /\ IF render.wallet = NoWallet
     THEN /\ session' = NoWallet /\ storage' = NoWallet /\ page' = DefaultPage
          /\ UNCHANGED load
     ELSE /\ page' = Wiped
          /\ LET from == SessionOf(render.wallet, render.session) IN
             load' = [load EXCEPT ![s] =
                        [pc |-> from.pc, wallet |-> render.wallet, network |-> render.network,
                         token |-> from.token, reply |-> NoData]]
          /\ UNCHANGED <<session, storage>>
  /\ UNCHANGED <<wallet, network, leaving, server>>

(* The error path: the session is given up, wherever it came from.         *)
Bug_still_loading(error) == [DefaultPage EXCEPT !.error = error, !.isLoading = page.isLoading]
Failure(error) == [DefaultPage EXCEPT !.error = error]
Fails(s, error) ==
  /\ Ended(s)
  /\ IF load[s].wallet = NoWallet
     THEN UNCHANGED <<session, storage, page>>
     ELSE session' = NoWallet /\ storage' = NoWallet /\ page' = Failure(error)
  /\ UNCHANGED <<wallet, network, timer, leaving, flow, server, acts>>

Proceeds(s, pc, token) ==
  /\ Goes(s, pc, token)
  /\ UNCHANGED <<screen, session, storage, server, acts>>

(* GET /api/auth/session with the token in memory.                         *)
CheckMemory(s) ==
  /\ load[s].pc = "memory"
  /\ \/ \E found \in getSession(load[s].token) :
          IF found # NoWallet THEN Proceeds(s, "select", found)
          ELSE LET from == SessionOf(load[s].wallet, NoWallet) IN Proceeds(s, from.pc, from.token)
     \/ Fails(s, "retry")

(* GET /api/auth/session with the token found in localStorage; a rejected  *)
(* fetch is taken for a broken entry.                                      *)
CheckStored(s) ==
  /\ load[s].pc = "stored"
  /\ \/ \E found \in getSession(load[s].token) :
          /\ IF found # NoWallet THEN Goes(s, "select", load[s].token) /\ session' = load[s].token
             ELSE Goes(s, "nonce", NoWallet) /\ UNCHANGED session
          /\ UNCHANGED storage
     \/ Goes(s, "nonce", NoWallet) /\ storage' = NoWallet /\ UNCHANGED session
  /\ UNCHANGED <<screen, server, acts>>

(* GET /api/auth/nonce; without it, or with a wallet that cannot sign      *)
(* messages, the load ends.                                                *)
FetchNonce(s) ==
  /\ load[s].pc = "nonce"
  /\ \/ Proceeds(s, "sign", NoWallet)
     \/ \E error \in {"retry", "reconnect"} : Fails(s, error)

(* The user signs the message or declines; nothing makes him do either.    *)
(* The account that signs is the one the load is for, or the one selected  *)
(* in the extension by now.                                                *)
Sign(s) ==
  /\ load[s].pc = "sign"
  /\ \/ \E w \in {load[s].wallet, wallet} \ {NoWallet} :
          /\ Goes(s, "exchange", w) /\ signed' = signed \cup {w}
          /\ UNCHANGED <<screen, session, storage, profile, edits, acts>>
     \/ Fails(s, "retry")

(* POST /api/auth/session with the challenge and what was signed of it.    *)
Exchange(s) ==
  /\ load[s].pc = "exchange"
  /\ \/ \E c \in SignInChallenge :
          LET granted == createSessionFromSignature(c) IN
          /\ c.wallet = load[s].wallet /\ c.signer = load[s].token /\ granted # NoWallet
          /\ Goes(s, "select", granted)
          /\ session' = granted /\ storage' = granted
          /\ UNCHANGED <<screen, server, acts>>
     \/ \E error \in {"retry", "reconnect"} : Fails(s, error)

-----------------------------------------------------------------------------
(* GET /api/protocol/state on the server.                                  *)

Answer(s, kind, mode) ==
  IF load[s].wallet = NoWallet THEN Ended(s)
  ELSE load' = [load EXCEPT ![s].pc = "answered",
                  ![s].reply = [kind |-> kind, of |-> load[s].token,
                                network |-> load[s].network, mode |-> mode]]

(* A token that is refused or a request that is lost ends the load.  Else  *)
(* ensureWalletProfile looks for the row of the wallet the token names.    *)
SelectProfile(s) ==
  /\ load[s].pc = "select"
  /\ \/ \E found \in getSession(load[s].token) \ {NoWallet} :
          /\ IF profile[found] # "none" THEN Answer(s, "real", profile[found])
             ELSE Goes(s, "chain", found)
          /\ UNCHANGED <<screen, session, storage, server, acts>>
     \/ Fails(s, "retry")

(* readChainUsd: it answers 0 when the chain does not.                     *)
ReadChain(s) == load[s].pc = "chain" /\ Proceeds(s, "insert", load[s].token)

(* The INSERT is refused when another request has made the row; after it,  *)
(* seedPayments throws on parameters it does not bind.  Either way the     *)
(* route catches the error and answers a vault full of zeros.              *)
Bug_insert_or_replace(old) == "safe"
Inserted(old) == IF old = "none" THEN "safe" ELSE old
InsertProfile(s) ==
  /\ load[s].pc = "insert"
  /\ profile' = [profile EXCEPT ![load[s].token] = Inserted(@)]
  /\ Answer(s, "zero", "safe")
  /\ UNCHANGED <<screen, session, storage, edits, signed, acts>>

(* applyProtocolState, whatever the page shows and selects by now.  The    *)
(* answer may also be lost, or be too broken to read.                      *)
Bug_error_kept(reply) == [data |-> reply, isLoading |-> FALSE, ready |-> TRUE, error |-> page.error]
Applied(reply) == [data |-> reply, isLoading |-> FALSE, ready |-> TRUE, error |-> "none"]
applyProtocolState(s) ==
  /\ load[s].pc = "answered"
  /\ \/ /\ page' = Applied(load[s].reply)
        /\ Ended(s)
        /\ UNCHANGED <<wallet, network, session, storage, timer, leaving, flow, server, acts>>
     \/ Fails(s, "retry")

-----------------------------------------------------------------------------
(* The user, the wallet extension and the browser.                         *)

(* What WalletGate renders: the first of four that applies.                *)
Gate == IF wallet = NoWallet THEN "landing"
        ELSE IF page.ready THEN "pages"
        ELSE IF page.error # "none" THEN "error"
        ELSE "spinner"

(* The effect on the wallet and the network restarts the debounce.         *)
TimerFires ==
  /\ timer /\ timer' = FALSE
  /\ \E s \in Slots : loadData(s, Current)
  /\ UNCHANGED <<flow, acts>>

(* A wallet is connected, or the account in the extension is changed.      *)
Connect(w) ==
  /\ w # wallet /\ Acts
  /\ wallet' = w /\ timer' = TRUE
  /\ UNCHANGED <<network, session, storage, page, leaving, flow, load, server>>

(* The gate's buttons that log out without disconnectWallet, or the        *)
(* extension disconnects.                                                  *)
Logout ==
  /\ wallet # NoWallet /\ Acts
  /\ wallet' = NoWallet /\ timer' = TRUE
  /\ UNCHANGED <<network, session, storage, page, leaving, flow, load, server>>

(* A button of the pages and of the gate's error screen.                   *)
disconnectWallet ==
  /\ Gate \in {"pages", "error"} /\ ~leaving /\ Acts
  /\ session' = NoWallet /\ storage' = NoWallet
  /\ page' = DefaultPage /\ leaving' = TRUE
  /\ UNCHANGED <<wallet, network, timer, flow, load, server>>
LoggedOut ==
  /\ leaving /\ leaving' = FALSE
  /\ wallet' = NoWallet
  /\ timer' = (timer \/ wallet # NoWallet)
  /\ UNCHANGED <<network, session, storage, page, flow, load, server, acts>>

(* The toggle on the pages is disabled while they load, and for the        *)
(* network that is selected.                                               *)
NetworkToggle(n) == Gate = "pages" /\ ~page.isLoading /\ n # network
setNetwork(n) ==
  /\ NetworkToggle(n) /\ Acts
  /\ network' = n /\ page' = Wiped /\ timer' = TRUE
  /\ UNCHANGED <<wallet, session, storage, leaving, flow, load, server>>

(* A button on the pages, or the gate's "Try again" after an error or 30   *)
(* seconds of loading.                                                     *)
refreshVault ==
  /\ \/ Gate = "pages"
     \/ Gate = "error" /\ page.error = "retry"
     \/ Gate = "spinner" /\ page.isLoading
  /\ Acts /\ \E s \in Slots : loadData(s, Current)
  /\ UNCHANGED <<timer, flow>>

(* A deposit, stake or payment ends with refreshVault as it was in the     *)
(* render the flow began in.                                               *)
BeginFlow ==
  /\ Gate = "pages" /\ session # NoWallet /\ flow = NoFlow /\ Acts
  /\ flow' = Current
  /\ UNCHANGED <<wallet, network, page, timer, leaving, session, storage, load, server>>
EndFlow ==
  /\ flow # NoFlow /\ flow' = NoFlow
  /\ \E s \in Slots : loadData(s, flow)
  /\ UNCHANGED <<timer, acts>>

(* The dashboard's panel offers the other mode, the settings page saves    *)
(* whichever is chosen; both need a vault to change.                       *)
SettingsForm == Gate = "pages" /\ page.data.kind # "none"
OperationModePanel(m) == Gate = "pages" /\ page.data.kind # "none" /\ m # page.data.mode

(* The page changes its copy and sends the patch with the session of the   *)
(* store; without one the patch is not sent.  Nobody reads the answer.     *)
Bug_sent_unsigned(m) == {[wallet |-> session, mode |-> m]}
Sent(m) == {[wallet |-> w, mode |-> m] : w \in {session} \ {NoWallet}}
updateVault(m) ==
  /\ OperationModePanel(m) \/ SettingsForm
  /\ Acts
  /\ page' = [page EXCEPT !.data.mode = m]
  /\ edits' = edits \cup Sent(m)
  /\ UNCHANGED <<wallet, network, session, storage, timer, leaving, flow, load, profile, signed>>

(* The vault route, or the loss of the request.                            *)
patchVault(e) ==
  /\ edits' = edits \ {e}
  /\ \/ profile' = [profile EXCEPT ![e.wallet] = IF @ = "none" THEN @ ELSE e.mode]
     \/ UNCHANGED profile
  /\ UNCHANGED <<screen, session, storage, load, signed, acts>>

(* The page is reloaded: what is not in localStorage is gone, and nobody   *)
(* waits for the answers to the requests the server is handling.           *)
Reload ==
  /\ Acts
  /\ wallet' = NoWallet /\ session' = NoWallet /\ flow' = NoFlow
  /\ page' = DefaultPage /\ timer' = TRUE /\ leaving' = FALSE
  /\ load' = [s \in Slots |->
               IF load[s].pc \in {"select", "chain", "insert"}
               THEN [load[s] EXCEPT !.wallet = NoWallet] ELSE NoLoad]
  /\ UNCHANGED <<network, storage, server>>

-----------------------------------------------------------------------------

Init ==
  /\ wallet = NoWallet /\ network \in Networks
  /\ session = NoWallet /\ storage \in Maybe
  /\ page = DefaultPage /\ timer = TRUE /\ leaving = FALSE
  /\ flow = NoFlow /\ load = [s \in Slots |-> NoLoad]
  /\ profile = [w \in Wallets |-> "none"] /\ edits = {} /\ acts = 0
  /\ signed = {storage} \ {NoWallet}

User ==
  \/ \E w \in Wallets : Connect(w)
  \/ Logout \/ disconnectWallet \/ refreshVault \/ BeginFlow \/ Reload
  \/ \E n \in Networks : setNetwork(n)
  \/ \E m \in Modes : updateVault(m)

LoadStep(s) ==
  \/ CheckMemory(s) \/ CheckStored(s) \/ FetchNonce(s) \/ Exchange(s)
  \/ SelectProfile(s) \/ ReadChain(s) \/ InsertProfile(s) \/ applyProtocolState(s)

Next ==
  \/ User \/ TimerFires \/ LoggedOut \/ EndFlow
  \/ \E s \in Slots : LoadStep(s) \/ Sign(s)
  \/ \E e \in edits : patchVault(e)

(* Timers fire, fetches are answered or rejected, and a logout completes.  *)
(* The user is not bound to do anything, not even to answer the wallet.    *)
Fairness ==
  /\ WF_vars(TimerFires) /\ WF_vars(LoggedOut)
  /\ \A s \in Slots : WF_vars(LoadStep(s))

Spec == Init /\ [][Next]_vars /\ Fairness

-----------------------------------------------------------------------------

(* Every variable stays within its type.                                   *)
ClientTypeOK ==
  /\ wallet \in Maybe /\ network \in Networks
  /\ session \in Maybe /\ storage \in Maybe
  /\ page \in Page /\ timer \in BOOLEAN /\ leaving \in BOOLEAN
  /\ flow \in Render /\ load \in [Slots -> Load]
  /\ profile \in [Wallets -> Modes \cup {"none"}]
  /\ edits \subseteq [wallet : Wallets, mode : Modes]
  /\ signed \subseteq Wallets
  /\ acts \in 0..MaxActs

(* A load asks for the state of the wallet it was started for: whichever   *)
(* wallets are connected meanwhile and whatever other loads leave in the   *)
(* store and in localStorage, it never goes on with a foreign token.  And  *)
(* no token is anywhere, nor a patch under way, for a wallet that has not  *)
(* signed: another account that answers the prompt does not sign it in.    *)
OwnToken ==
  /\ \A s \in Slots :
       /\ load[s].wallet # NoWallet
       /\ load[s].pc \in {"memory", "stored", "select", "chain", "insert", "answered"}
       => load[s].token = load[s].wallet
  /\ {session, storage} \cup {load[s].token : s \in Slots} \subseteq signed \cup {NoWallet}
  /\ {e.wallet : e \in edits} \subseteq signed

(* An error and treasury data are never on screen together, in whatever    *)
(* order overlapping loads fail and succeed; and an error screen is not    *)
(* taken for a loading one (WalletGate shows pages before errors).         *)
ErrorShowsNothing ==
  page.error # "none" => page.data.kind = "none" /\ ~page.ready /\ ~page.isLoading

(* A profile is created once: a request that missed it and awaited the     *)
(* chain never resets what the user has set in the meantime.               *)
ProfileInsertedOnce ==
  [][\A w \in Wallets :
       profile[w] # "none" /\ profile'[w] # profile[w]
         => [wallet |-> w, mode |-> profile'[w]] \in edits]_vars

Signing == \E s \in Slots : load[s].pc = "sign"

(* Loading ends: the network toggle does not stay disabled and the pages   *)
(* not empty.  And a connected wallet gets past the gate's spinner, to the *)
(* pages or to an error it can act on.  A prompt of the wallet that is     *)
(* left unanswered is the one exception.                                   *)
LoadingEnds ==
  /\ page.isLoading ~> (~page.isLoading \/ Signing)
  /\ wallet # NoWallet ~> (Gate # "spinner" \/ Signing)

(* What no scheduling could make good: a spinner that nothing will end.    *)
(* While the pages load, or the gate shows its spinner, the debounce, a    *)
(* logout or a load somebody waits for is under way, whichever loads       *)
(* overlap, fail and succeed and whatever the user does meanwhile.         *)
Awaited == timer \/ \E s \in Slots : load[s].pc # "idle" /\ load[s].wallet # NoWallet
SpinnerIsAwaited ==
  /\ page.isLoading => Awaited
  /\ Gate = "spinner" => Awaited \/ leaving

AtRest == ~timer /\ flow = NoFlow /\ \A s \in Slots : load[s].pc = "idle"

(* AppContext.tsx:278-279: wiping the data before each load "ensures no    *)
(* stale balances or analytics leak between networks".  So a page at rest  *)
(* would show the selected network.                                        *)
NoNetworkLeak == AtRest /\ page.data.kind # "none" => page.data.network = network
=============================================================================
