--------------------------- MODULE Client_proofs ---------------------------
(***************************************************************************)
(* Proofs about Client, for any wallets and networks, any number of loads  *)
(* under way at once and any number of acts of the user.                   *)
(*                                                                         *)
(* The inductive invariant adds to the types what ties a load to its       *)
(* wallet: a load somebody waits for has one, and from the moment it holds *)
(* a token the token names that wallet.  Without it a state could hold a   *)
(* load about to ask for the profile of no wallet at all.                  *)
(*                                                                         *)
(* A second invariant, Known, follows every token to where it came from: a *)
(* token in memory, in localStorage, in a load or behind a vault patch     *)
(* names a wallet that has signed a challenge.  A third, Waited, says that *)
(* something is under way that will end a spinner.                         *)
(*                                                                         *)
(* With them, every action is one of Access or hidden from it.             *)
(***************************************************************************)
EXTENDS ClientAccess, TLAPS

Begun == {"memory", "stored", "nonce", "sign", "exchange", "answered"}

(* What ties a load to its wallet and its token.                           *)
Tied(l) ==
  /\ l.pc \in Begun => l.wallet \in Wallets
  /\ l.pc \in Holding => l.token \in Wallets /\ l.wallet \in {NoWallet, l.token}

ClientInv ==
  /\ ClientTypeOK
  /\ \A s \in Slots : Tied(load[s])
  /\ ErrorShowsNothing

-----------------------------------------------------------------------------

(* The values a page, a load and a flow start from have their types.       *)
LEMMA StartTypes ==
  /\ NoData \in Data /\ NoLoad \in Load /\ NoFlow \in Render
  /\ DefaultPage \in Page /\ Tied(NoLoad)
<1>1. (CHOOSE n \in Networks : TRUE) \in Networks
  BY ClientAssumption
<1>2. NoData \in Data
  BY <1>1 DEF NoData, Data, Maybe, Modes
<1>3. NoLoad \in Load /\ NoFlow \in Render
  BY <1>1, <1>2 DEF NoLoad, NoFlow, Load, Render, Pcs, Maybe, NoData
<1>4. DefaultPage \in Page
  BY <1>2 DEF DefaultPage, Page
<1>5. Tied(NoLoad)
  BY DEF Tied, NoLoad, Begun, Holding
<1> QED
  BY <1>2, <1>3, <1>4, <1>5

(* What the server makes of a token names the wallet the token does.       *)
LEMMA GetSession ==
  ASSUME NEW token, NEW found \in getSession(token), found # NoWallet
  PROVE  found = token
BY DEF getSession, verifyJwt

(* A session found for a wallet is that wallet's own.                      *)
LEMMA OwnSession ==
  ASSUME storage \in Maybe, NEW w \in Wallets, NEW m \in Maybe
  PROVE  /\ SessionOf(w, m).pc \in {"memory", "stored", "nonce"}
         /\ SessionOf(w, m).token \in Maybe
         /\ SessionOf(w, m).pc # "nonce" => SessionOf(w, m).token = w
BY ClientAssumption DEF SessionOf, Maybe

(* The page after an error, after an answer and while loading.             *)
LEMMA PageTypes ==
  ASSUME page \in Page
  PROVE  /\ Wiped \in Page /\ Wiped.error = "none"
         /\ \A e \in {"none", "retry", "reconnect"} :
              /\ Failure(e) \in Page /\ Failure(e).data.kind = "none"
              /\ ~Failure(e).ready /\ ~Failure(e).isLoading
         /\ \A r \in Data : Applied(r) \in Page /\ Applied(r).error = "none"
<1>1. Wiped \in Page /\ Wiped.error = "none"
  BY StartTypes DEF Wiped, Page
<1>2. ASSUME NEW e \in {"none", "retry", "reconnect"}
      PROVE  /\ Failure(e) \in Page /\ Failure(e).data.kind = "none"
             /\ ~Failure(e).ready /\ ~Failure(e).isLoading
  <2>1. DefaultPage.data = NoData /\ ~DefaultPage.ready /\ ~DefaultPage.isLoading
    BY DEF DefaultPage
  <2>2. NoData.kind = "none"
    BY DEF NoData
  <2>3. Failure(e) = [DefaultPage EXCEPT !.error = e] /\ DefaultPage \in Page
    BY StartTypes DEF Failure
  <2> QED
    BY <2>1, <2>2, <2>3 DEF Page
<1>3. \A r \in Data : Applied(r) \in Page /\ Applied(r).error = "none"
  BY DEF Applied, Page
<1> QED
  BY <1>1, <1>2, <1>3

(* Changing one load, to one of its type that is tied, keeps all so.       *)
LEMMA LoadChanged ==
  ASSUME load \in [Slots -> Load], \A s \in Slots : Tied(load[s]),
         NEW s \in Slots, NEW l \in Load, Tied(l),
         load' = [load EXCEPT ![s] = l]
  PROVE  load' \in [Slots -> Load] /\ \A q \in Slots : Tied(load'[q])
OBVIOUS

-----------------------------------------------------------------------------

(* A load that goes on to a step with a token it may have.                 *)
LEMMA GoesTied ==
  ASSUME ClientInv, NEW s \in Slots, load[s].pc # "idle", NEW pc \in Pcs \ {"idle"}, NEW token \in Maybe,
         pc \in Begun => load[s].wallet \in Wallets,
         pc \in Holding => token \in Wallets /\ load[s].wallet \in {NoWallet, token},
         Goes(s, pc, token)
  PROVE  load' \in [Slots -> Load] /\ \A q \in Slots : Tied(load'[q])
<1>0. load \in [Slots -> Load] /\ load[s] \in Load /\ \A q \in Slots : Tied(load[q])
  BY DEF ClientInv, ClientTypeOK
<1> DEFINE l == [load[s] EXCEPT !.pc = pc, !.token = token]
<1>1. l \in Load /\ l.pc = pc /\ l.token = token /\ l.wallet = load[s].wallet
  BY <1>0 DEF Load
<1>2. Tied(l)
  BY <1>1 DEF Tied
<1>3. load' = [load EXCEPT ![s] = l]
  BY <1>0 DEF Goes
<1> QED
  <2> HIDE DEF l
  <2> QED BY <1>0, <1>1, <1>2, <1>3, LoadChanged

(* A load that ends.                                                       *)
LEMMA EndedTied ==
  ASSUME ClientInv, NEW s \in Slots, Ended(s)
  PROVE  load' \in [Slots -> Load] /\ \A q \in Slots : Tied(load'[q])
<1>1. load' = [load EXCEPT ![s] = NoLoad]
  BY DEF Ended
<1>2. load \in [Slots -> Load] /\ \A q \in Slots : Tied(load[q])
  BY DEF ClientInv, ClientTypeOK
<1> QED
  BY <1>1, <1>2, StartTypes, LoadChanged

(* A load that fails keeps the invariant.                                  *)
LEMMA FailsInv ==
  ASSUME ClientInv, NEW s \in Slots, NEW e \in {"retry", "reconnect"}, Fails(s, e)
  PROVE  ClientInv'
<1>1. load' \in [Slots -> Load] /\ \A q \in Slots : Tied(load'[q])
  BY EndedTied DEF Fails
<1>2. session' \in Maybe /\ storage' \in Maybe
  BY DEF Fails, ClientInv, ClientTypeOK, Maybe
<1>3. page' \in Page /\ ErrorShowsNothing'
  <2>1. page \in Page
    BY DEF ClientInv, ClientTypeOK
  <2>2. CASE page' = page
    BY <2>1, <2>2 DEF ClientInv, ErrorShowsNothing
  <2>3. CASE page' = Failure(e)
    BY <2>1, <2>3, PageTypes DEF ErrorShowsNothing
  <2> QED
    BY <2>2, <2>3 DEF Fails
<1>4. UNCHANGED <<wallet, network, timer, leaving, flow, profile, edits, signed, acts>>
  BY DEF Fails, server
<1> QED
  BY <1>1, <1>2, <1>3, <1>4 DEF ClientInv, ClientTypeOK

(* A load that begins keeps the invariant, whichever render it is of.      *)
LEMMA LoadDataInv ==
  ASSUME ClientInv, NEW s \in Slots, NEW r \in Render, loadData(s, r),
         timer' \in BOOLEAN, flow' \in Render, acts' \in 0..MaxActs
  PROVE  ClientInv'
<1>0. page \in Page /\ storage \in Maybe /\ session \in Maybe /\ load \in [Slots -> Load]
      /\ \A q \in Slots : Tied(load[q])
  BY DEF ClientInv, ClientTypeOK
<1>1. CASE r.wallet = NoWallet
  <2>1. session' = NoWallet /\ storage' = NoWallet /\ page' = DefaultPage /\ load' = load
    BY <1>1 DEF loadData
  <2>2. session' \in Maybe /\ storage' \in Maybe
    BY <2>1 DEF Maybe
  <2>3. page' \in Page /\ ErrorShowsNothing'
    BY <2>1, StartTypes DEF DefaultPage, ErrorShowsNothing
  <2>4. UNCHANGED <<wallet, network, leaving, profile, edits, signed>>
    BY DEF loadData, server
  <2> QED
    BY <1>0, <2>1, <2>2, <2>3, <2>4 DEF ClientInv, ClientTypeOK
<1>2. CASE r.wallet # NoWallet
  <2> DEFINE from == SessionOf(r.wallet, r.session)
             l == [pc |-> from.pc, wallet |-> r.wallet, network |-> r.network,
                   token |-> from.token, reply |-> NoData]
  <2>1. r.wallet \in Wallets /\ r.session \in Maybe /\ r.network \in Networks
    BY <1>2 DEF Render, Maybe
  <2>2. from.pc \in {"memory", "stored", "nonce"} /\ from.token \in Maybe
        /\ (from.pc # "nonce" => from.token = r.wallet)
    <3> HIDE DEF from
    <3> QED BY <1>0, <2>1, OwnSession DEF from
  <2>3. l \in Load /\ Tied(l)
    <3> HIDE DEF from
    <3>1. l \in Load
      BY <2>1, <2>2, StartTypes DEF Load, Pcs, Maybe
    <3>2. l.pc = from.pc /\ l.wallet = r.wallet /\ l.token = from.token
      OBVIOUS
    <3> HIDE DEF l
    <3> QED BY <2>1, <2>2, <3>1, <3>2 DEF Tied, Begun, Holding
  <2>4. load' = [load EXCEPT ![s] = l] /\ page' = Wiped /\ session' = session /\ storage' = storage
    BY <1>2 DEF loadData
  <2>5. load' \in [Slots -> Load] /\ \A q \in Slots : Tied(load'[q])
    <3> HIDE DEF l
    <3> QED BY <1>0, <2>3, <2>4, LoadChanged
  <2>6. page' \in Page /\ ErrorShowsNothing'
    BY <1>0, <2>4, PageTypes DEF ErrorShowsNothing
  <2>7. UNCHANGED <<wallet, network, leaving, profile, edits, signed>>
    BY DEF loadData, server
  <2> HIDE DEF l, from
  <2> QED
    BY <1>0, <2>4, <2>5, <2>6, <2>7 DEF ClientInv, ClientTypeOK
<1> QED
  BY <1>1, <1>2

-----------------------------------------------------------------------------

LEMMA ClientInvInit == Init => ClientInv
<1> SUFFICES ASSUME Init PROVE ClientInv
  OBVIOUS
<1>1. wallet \in Maybe /\ network \in Networks /\ session \in Maybe /\ storage \in Maybe
  BY DEF Init, Maybe
<1>2. page \in Page /\ ErrorShowsNothing
  BY StartTypes DEF Init, DefaultPage, ErrorShowsNothing
<1>3. flow \in Render /\ load \in [Slots -> Load] /\ \A s \in Slots : Tied(load[s])
  BY StartTypes DEF Init
<1>4. timer \in BOOLEAN /\ leaving \in BOOLEAN
  BY DEF Init
<1>5. profile \in [Wallets -> Modes \cup {"none"}]
      /\ edits \subseteq [wallet : Wallets, mode : Modes] /\ signed \subseteq Wallets
  BY DEF Init, Maybe
<1>6. acts \in 0..MaxActs
  BY ClientAssumption DEF Init
<1> QED
  BY <1>1, <1>2, <1>3, <1>4, <1>5, <1>6 DEF ClientInv, ClientTypeOK

(* The rendered values are of the types a load expects.                    *)
LEMMA CurrentTyped == ClientInv => Current \in Render
BY DEF ClientInv, ClientTypeOK, Current, Render

(* The steps of a load.                                                    *)
LEMMA LoadStepInv ==
  ASSUME ClientInv, NEW s \in Slots, LoadStep(s) \/ Sign(s)
  PROVE  ClientInv'
<1>0. /\ load \in [Slots -> Load] /\ load[s] \in Load /\ Tied(load[s])
      /\ session \in Maybe /\ storage \in Maybe /\ page \in Page
  BY DEF ClientInv, ClientTypeOK
<1>1. load[s].token \in Maybe /\ load[s].wallet \in Maybe /\ load[s].reply \in Data
      /\ load[s].network \in Networks
  BY <1>0 DEF Load
(* A step that changes nothing but the load.                               *)
<1>2. ASSUME NEW pc \in Pcs \ {"idle"}, NEW token \in Maybe, load[s].pc # "idle",
             pc \in Begun => load[s].wallet \in Wallets,
             pc \in Holding => token \in Wallets /\ load[s].wallet \in {NoWallet, token},
             Proceeds(s, pc, token)
      PROVE  ClientInv'
  <2>1. load' \in [Slots -> Load] /\ \A q \in Slots : Tied(load'[q])
    BY <1>2, GoesTied DEF Proceeds
  <2>2. UNCHANGED <<wallet, network, page, timer, leaving, flow, session, storage, profile, edits, signed, acts>>
    BY <1>2 DEF Proceeds, screen, server
  <2> QED
    BY <2>1, <2>2 DEF ClientInv, ClientTypeOK, ErrorShowsNothing
<1>3. CASE CheckMemory(s)
  <2>1. load[s].pc = "memory" /\ load[s].wallet \in Wallets /\ load[s].token = load[s].wallet
    BY <1>0, <1>3, ClientAssumption DEF CheckMemory, Tied, Begun, Holding
  <2>2. ASSUME NEW found \in getSession(load[s].token), found # NoWallet,
               Proceeds(s, "select", found)
        PROVE  ClientInv'
    <3>1. found = load[s].token
      BY <2>2, GetSession
    <3> QED
      BY <1>2, <2>1, <2>2, <1>1, <3>1 DEF Pcs, Begun, Holding
  <2>3. CASE Fails(s, "retry")
    BY <2>3, FailsInv
  <2>4. CASE Proceeds(s, SessionOf(load[s].wallet, NoWallet).pc,
                         SessionOf(load[s].wallet, NoWallet).token)
    <3>1. NoWallet \in Maybe
      BY DEF Maybe
    <3>2. /\ SessionOf(load[s].wallet, NoWallet).pc \in {"memory", "stored", "nonce"}
          /\ SessionOf(load[s].wallet, NoWallet).token \in Maybe
          /\ SessionOf(load[s].wallet, NoWallet).pc # "nonce"
               => SessionOf(load[s].wallet, NoWallet).token = load[s].wallet
      BY <1>0, <2>1, <3>1, OwnSession
    <3> QED
      BY <1>2, <2>1, <2>4, <3>2 DEF Pcs, Begun, Holding
  <2> QED
    BY <1>3, <2>2, <2>3, <2>4 DEF CheckMemory
<1>4. CASE CheckStored(s)
  <2>1. load[s].pc = "stored" /\ load[s].wallet \in Wallets /\ load[s].token = load[s].wallet
    BY <1>0, <1>4, ClientAssumption DEF CheckStored, Tied, Begun, Holding
  <2>2. load' \in [Slots -> Load] /\ \A q \in Slots : Tied(load'[q])
    <3>0. Goes(s, "select", load[s].token) \/ Goes(s, "nonce", NoWallet)
      BY <1>4 DEF CheckStored
    <3>1. CASE Goes(s, "select", load[s].token)
      BY <1>1, <2>1, <3>1, GoesTied DEF Pcs, Begun, Holding
    <3>2. CASE Goes(s, "nonce", NoWallet)
      BY <1>1, <2>1, <3>2, GoesTied DEF Pcs, Begun, Holding, Maybe
    <3> QED
      BY <3>0, <3>1, <3>2
  <2>3. session' \in Maybe /\ storage' \in Maybe
    BY <1>0, <1>1, <1>4 DEF CheckStored, Maybe
  <2>4. UNCHANGED <<wallet, network, page, timer, leaving, flow, profile, edits, signed, acts>>
    BY <1>4 DEF CheckStored, screen, server
  <2> QED
    BY <2>2, <2>3, <2>4 DEF ClientInv, ClientTypeOK, ErrorShowsNothing
<1>5. CASE FetchNonce(s)
  <2>1. load[s].pc = "nonce" /\ load[s].wallet \in Wallets
    BY <1>0, <1>5 DEF FetchNonce, Tied, Begun
  <2>2. CASE Proceeds(s, "sign", NoWallet)
    BY <1>2, <2>1, <2>2 DEF Pcs, Begun, Holding, Maybe
  <2>3. CASE \E e \in {"retry", "reconnect"} : Fails(s, e)
    BY <2>3, FailsInv
  <2> QED
    BY <1>5, <2>2, <2>3 DEF FetchNonce
<1>6. CASE Sign(s)
  <2>1. load[s].pc = "sign" /\ load[s].wallet \in Wallets
    BY <1>0, <1>6 DEF Sign, Tied, Begun
  <2>2. ASSUME NEW w \in {load[s].wallet, wallet} \ {NoWallet},
               Goes(s, "exchange", w), signed' = signed \cup {w},
               UNCHANGED <<screen, session, storage, profile, edits, acts>>
        PROVE  ClientInv'
    <3>1. w \in Wallets
      BY <1>1, <2>2 DEF ClientInv, ClientTypeOK, Maybe
    <3>2. load' \in [Slots -> Load] /\ \A q \in Slots : Tied(load'[q])
      BY <2>1, <2>2, <3>1, GoesTied DEF Pcs, Begun, Holding, Maybe
    <3>3. UNCHANGED <<wallet, network, page, timer, leaving, flow>>
      BY <2>2 DEF screen
    <3>4. signed' \subseteq Wallets
      BY <2>2, <3>1 DEF ClientInv, ClientTypeOK
    <3> QED
      BY <2>2, <3>2, <3>3, <3>4 DEF ClientInv, ClientTypeOK, ErrorShowsNothing
  <2>3. CASE Fails(s, "retry")
    BY <2>3, FailsInv
  <2> QED
    BY <1>6, <2>2, <2>3 DEF Sign
<1>7. CASE Exchange(s)
  <2>1. load[s].pc = "exchange" /\ load[s].wallet \in Wallets
    BY <1>0, <1>7 DEF Exchange, Tied, Begun
  <2>2. CASE \E e \in {"retry", "reconnect"} : Fails(s, e)
    BY <2>2, FailsInv
  <2>3. ASSUME NEW c \in SignInChallenge, c.wallet = load[s].wallet, c.signer = load[s].token,
               createSessionFromSignature(c) # NoWallet,
               Goes(s, "select", createSessionFromSignature(c)),
               session' = createSessionFromSignature(c), storage' = createSessionFromSignature(c),
               UNCHANGED <<screen, server, acts>>
        PROVE  ClientInv'
    <3>0. createSessionFromSignature(c) = load[s].wallet
      BY <2>3 DEF createSessionFromSignature, issueSessionJwt
    <3>1. load' \in [Slots -> Load] /\ \A q \in Slots : Tied(load'[q])
      BY <1>1, <2>1, <2>3, <3>0, GoesTied DEF Pcs, Begun, Holding
    <3>2. UNCHANGED <<wallet, network, page, timer, leaving, flow, profile, edits, signed, acts>>
      BY <2>3 DEF screen, server
    <3> QED
      BY <1>1, <2>3, <3>0, <3>1, <3>2 DEF ClientInv, ClientTypeOK, ErrorShowsNothing
  <2> QED
    BY <1>7, <2>2, <2>3 DEF Exchange
(* What the server answers is of the wallet the token names.               *)
<1>8. ASSUME NEW kind \in {"real", "zero"}, NEW mode \in Modes, Answer(s, kind, mode),
             load[s].pc \in {"select", "insert"}
      PROVE  load' \in [Slots -> Load] /\ \A q \in Slots : Tied(load'[q])
  <2>1. load[s].token \in Wallets /\ load[s].wallet \in {NoWallet, load[s].token}
    BY <1>0, <1>8 DEF Tied, Holding
  <2>2. CASE load[s].wallet = NoWallet
    BY <1>8, <2>2, EndedTied DEF Answer
  <2>3. CASE load[s].wallet # NoWallet
    <3> DEFINE r == [kind |-> kind, of |-> load[s].token, network |-> load[s].network, mode |-> mode]
               l == [load[s] EXCEPT !.pc = "answered", !.reply = r]
    <3>1. r \in Data
      BY <1>1, <1>8 DEF Data
    <3>2. l \in Load /\ l.pc = "answered" /\ l.token = load[s].token /\ l.wallet = load[s].wallet
      <4> HIDE DEF r
      <4> QED BY <1>0, <3>1 DEF Load, Pcs
    <3>3. load' = [load EXCEPT ![s] = l]
      BY <1>0, <1>8, <2>3 DEF Answer
    <3> HIDE DEF l, r
    <3>4. Tied(l)
      BY <2>1, <2>3, <3>2 DEF Tied, Begun, Holding
    <3>5. \A q \in Slots : Tied(load[q])
      BY DEF ClientInv
    <3> QED
      BY <1>0, <3>2, <3>3, <3>4, <3>5, LoadChanged
  <2> QED
    BY <2>2, <2>3
<1>9. CASE SelectProfile(s)
  <2>1. load[s].pc = "select" /\ load[s].token \in Wallets /\ load[s].wallet \in {NoWallet, load[s].token}
    BY <1>0, <1>9 DEF SelectProfile, Tied, Holding
  <2>2. CASE Fails(s, "retry")
    BY <2>2, FailsInv
  <2>3. ASSUME NEW found \in getSession(load[s].token) \ {NoWallet},
               IF profile[found] # "none" THEN Answer(s, "real", profile[found])
               ELSE Goes(s, "chain", found),
               UNCHANGED <<screen, session, storage, server, acts>>
        PROVE  ClientInv'
    <3>0. found = load[s].token
      BY <2>3, GetSession
    <3>1. profile[load[s].token] \in Modes \cup {"none"}
      BY <2>1 DEF ClientInv, ClientTypeOK
    <3>2. load' \in [Slots -> Load] /\ \A q \in Slots : Tied(load'[q])
      <4>1. CASE profile[load[s].token] # "none"
        BY <1>8, <2>1, <2>3, <3>0, <3>1, <4>1
      <4>2. CASE profile[load[s].token] = "none"
        BY <1>1, <2>1, <2>3, <3>0, <4>2, GoesTied DEF Pcs, Begun, Holding
      <4> QED
        BY <4>1, <4>2
    <3>3. UNCHANGED <<wallet, network, page, timer, leaving, flow, session, storage, profile, edits, signed, acts>>
      BY <2>3 DEF screen, server
    <3> QED
      BY <3>2, <3>3 DEF ClientInv, ClientTypeOK, ErrorShowsNothing
  <2> QED
    BY <1>9, <2>2, <2>3 DEF SelectProfile
<1>10. CASE ReadChain(s)
  <2>1. load[s].pc = "chain" /\ load[s].token \in Wallets /\ load[s].wallet \in {NoWallet, load[s].token}
    BY <1>0, <1>10 DEF ReadChain, Tied, Holding
  <2> QED
    BY <1>1, <1>2, <1>10, <2>1 DEF ReadChain, Pcs, Begun, Holding
<1>11. CASE InsertProfile(s)
  <2>1. load' \in [Slots -> Load] /\ \A q \in Slots : Tied(load'[q])
    BY <1>8, <1>11 DEF InsertProfile, Modes
  <2>2. profile' \in [Wallets -> Modes \cup {"none"}]
    BY <1>11 DEF InsertProfile, Inserted, Modes, ClientInv, ClientTypeOK
  <2>3. UNCHANGED <<wallet, network, page, timer, leaving, flow, session, storage, edits, signed, acts>>
    BY <1>11 DEF InsertProfile, screen
  <2> QED
    BY <2>1, <2>2, <2>3 DEF ClientInv, ClientTypeOK, ErrorShowsNothing
<1>12. CASE applyProtocolState(s)
  <2>1. CASE Fails(s, "retry")
    BY <2>1, FailsInv
  <2>2. CASE /\ page' = Applied(load[s].reply) /\ Ended(s)
             /\ UNCHANGED <<wallet, network, session, storage, timer, leaving, flow, server, acts>>
    <3>1. load' \in [Slots -> Load] /\ \A q \in Slots : Tied(load'[q])
      BY <2>2, EndedTied
    <3>2. page' \in Page /\ ErrorShowsNothing'
      BY <1>0, <1>1, <2>2, PageTypes DEF ErrorShowsNothing
    <3>3. UNCHANGED <<wallet, network, timer, leaving, flow, session, storage, profile, edits, signed, acts>>
      BY <2>2 DEF server
    <3> QED
      BY <3>1, <3>2, <3>3 DEF ClientInv, ClientTypeOK
  <2> QED
    BY <1>12, <2>1, <2>2 DEF applyProtocolState
<1> QED
  BY <1>3, <1>4, <1>5, <1>6, <1>7, <1>9, <1>10, <1>11, <1>12 DEF LoadStep

-----------------------------------------------------------------------------

(* The steps of the user, the timer and the wallet extension.              *)
LEMMA UserInv ==
  ASSUME ClientInv, User \/ TimerFires \/ LoggedOut \/ EndFlow
  PROVE  ClientInv'
<1>0. /\ wallet \in Maybe /\ network \in Networks /\ session \in Maybe /\ storage \in Maybe
      /\ page \in Page /\ timer \in BOOLEAN /\ leaving \in BOOLEAN /\ flow \in Render
      /\ load \in [Slots -> Load] /\ (\A s \in Slots : Tied(load[s]))
      /\ profile \in [Wallets -> Modes \cup {"none"}]
      /\ edits \subseteq [wallet : Wallets, mode : Modes] /\ signed \subseteq Wallets
      /\ acts \in 0..MaxActs
      /\ ErrorShowsNothing
  BY DEF ClientInv, ClientTypeOK
<1>1. ASSUME Acts PROVE acts' \in 0..MaxActs
  BY <1>0, <1>1, ClientAssumption DEF Acts
<1>2. DefaultPage.error = "none" /\ NoWallet \in Maybe
  BY DEF DefaultPage, Maybe
<1>3. CASE \E w \in Wallets : Connect(w)
  <2>1. UNCHANGED <<network, session, storage, page, leaving, flow, load, profile, edits, signed>>
        /\ wallet' \in Maybe /\ timer' \in BOOLEAN /\ Acts
    BY <1>3 DEF Connect, server, Maybe
  <2> QED
    BY <1>0, <1>1, <2>1 DEF ClientInv, ClientTypeOK, ErrorShowsNothing
<1>4. CASE Logout
  <2>1. UNCHANGED <<network, session, storage, page, leaving, flow, load, profile, edits, signed>>
        /\ wallet' \in Maybe /\ timer' \in BOOLEAN /\ Acts
    BY <1>2, <1>4 DEF Logout, server
  <2> QED
    BY <1>0, <1>1, <2>1 DEF ClientInv, ClientTypeOK, ErrorShowsNothing
<1>5. CASE disconnectWallet
  <2>1. UNCHANGED <<wallet, network, timer, flow, load, profile, edits, signed>>
        /\ session' \in Maybe /\ storage' \in Maybe /\ leaving' \in BOOLEAN
        /\ page' = DefaultPage /\ Acts
    BY <1>2, <1>5 DEF disconnectWallet, server
  <2> QED
    BY <1>0, <1>1, <1>2, <2>1, StartTypes DEF ClientInv, ClientTypeOK, ErrorShowsNothing
<1>6. CASE refreshVault
  <2>1. PICK s \in Slots : loadData(s, Current)
    BY <1>6 DEF refreshVault
  <2>2. timer' = timer /\ flow' = flow /\ Acts
    BY <1>6 DEF refreshVault
  <2> QED
    BY <1>0, <1>1, <2>1, <2>2, CurrentTyped, LoadDataInv
<1>7. CASE BeginFlow
  <2>1. UNCHANGED <<wallet, network, page, timer, leaving, session, storage, load, profile, edits, signed>>
        /\ flow' \in Render /\ Acts
    BY <1>7, CurrentTyped DEF BeginFlow, server
  <2> QED
    BY <1>0, <1>1, <2>1 DEF ClientInv, ClientTypeOK, ErrorShowsNothing
<1>8. CASE Reload
  <2>1. UNCHANGED <<network, storage, profile, edits, signed>> /\ wallet' \in Maybe /\ session' \in Maybe
        /\ flow' \in Render /\ page' = DefaultPage /\ timer' \in BOOLEAN /\ leaving' \in BOOLEAN /\ Acts
    BY <1>2, <1>8, StartTypes DEF Reload, server
  <2>2. load' \in [Slots -> Load] /\ \A s \in Slots : Tied(load'[s])
    <3>1. load' = [s \in Slots |-> IF load[s].pc \in {"select", "chain", "insert"}
                                   THEN [load[s] EXCEPT !.wallet = NoWallet] ELSE NoLoad]
      BY <1>8 DEF Reload
    <3>2. ASSUME NEW s \in Slots, load[s].pc \in {"select", "chain", "insert"}
          PROVE  [load[s] EXCEPT !.wallet = NoWallet] \in Load /\ Tied([load[s] EXCEPT !.wallet = NoWallet])
      <4>1. load[s] \in Load /\ Tied(load[s])
        BY <1>0
      <4>2. [load[s] EXCEPT !.wallet = NoWallet] \in Load
        BY <1>2, <4>1 DEF Load
      <4> QED
        BY <3>2, <4>1, <4>2 DEF Load, Tied, Begun, Holding
    <3> QED
      BY <3>1, <3>2, StartTypes
  <2> QED
    BY <1>0, <1>1, <1>2, <2>1, <2>2, StartTypes DEF ClientInv, ClientTypeOK, ErrorShowsNothing
<1>9. CASE \E n \in Networks : setNetwork(n)
  <2>1. UNCHANGED <<wallet, session, storage, leaving, flow, load, profile, edits, signed>>
        /\ network' \in Networks /\ page' = Wiped /\ timer' \in BOOLEAN /\ Acts
    BY <1>9 DEF setNetwork, server
  <2> QED
    BY <1>0, <1>1, <2>1, PageTypes DEF ClientInv, ClientTypeOK, ErrorShowsNothing
<1>10. CASE \E m \in Modes : updateVault(m)
  <2>1. PICK m \in Modes : updateVault(m)
    BY <1>10
  <2>2. UNCHANGED <<wallet, network, session, storage, timer, leaving, flow, load, profile, signed>> /\ Acts
        /\ page.data.kind # "none" /\ page' = [page EXCEPT !.data.mode = m]
        /\ edits' = edits \cup Sent(m)
    BY <2>1 DEF updateVault, OperationModePanel, SettingsForm
  <2>3. page' \in Page /\ ErrorShowsNothing'
    <3>1. page.error = "none"
      BY <1>0, <2>2 DEF ErrorShowsNothing
    <3>2. page' \in Page /\ page'.error = page.error
      BY <1>0, <2>2 DEF Page, Data
    <3> QED
      BY <3>1, <3>2 DEF ErrorShowsNothing
  <2>4. edits' \subseteq [wallet : Wallets, mode : Modes]
    BY <1>0, <2>2 DEF Sent, Maybe
  <2> QED
    BY <1>0, <1>1, <2>2, <2>3, <2>4 DEF ClientInv, ClientTypeOK
<1>11. CASE TimerFires
  <2>1. PICK s \in Slots : loadData(s, Current)
    BY <1>11 DEF TimerFires
  <2>2. timer' = FALSE /\ flow' = flow /\ acts' = acts
    BY <1>11 DEF TimerFires
  <2> QED
    BY <1>0, <2>1, <2>2, CurrentTyped, LoadDataInv
<1>12. CASE LoggedOut
  <2>1. UNCHANGED <<network, session, storage, page, flow, load, profile, edits, signed, acts>>
        /\ wallet' \in Maybe /\ timer' \in BOOLEAN /\ leaving' \in BOOLEAN
    BY <1>0, <1>2, <1>12 DEF LoggedOut, server
  <2> QED
    BY <1>0, <2>1 DEF ClientInv, ClientTypeOK, ErrorShowsNothing
<1>13. CASE EndFlow
  <2>1. PICK s \in Slots : loadData(s, flow)
    BY <1>13 DEF EndFlow
  <2>2. timer' = timer /\ flow' = NoFlow /\ acts' = acts
    BY <1>13 DEF EndFlow
  <2> QED
    BY <1>0, <2>1, <2>2, StartTypes, LoadDataInv
<1> QED
  BY <1>3, <1>4, <1>5, <1>6, <1>7, <1>8, <1>9, <1>10, <1>11, <1>12, <1>13 DEF User

(* A patch that reaches the server, or does not.                           *)
LEMMA PatchInv ==
  ASSUME ClientInv, NEW e \in edits, patchVault(e)
  PROVE  ClientInv'
<1>1. /\ UNCHANGED <<wallet, network, page, timer, leaving, flow, session, storage, load, signed, acts>>
      /\ edits' \subseteq edits
  BY DEF patchVault, screen
<1>2. profile' \in [Wallets -> Modes \cup {"none"}]
  BY DEF patchVault, ClientInv, ClientTypeOK
<1> QED
  BY <1>1, <1>2 DEF ClientInv, ClientTypeOK, ErrorShowsNothing

LEMMA ClientInvStep == ClientInv /\ [Next]_vars => ClientInv'
<1> SUFFICES ASSUME ClientInv, [Next]_vars PROVE ClientInv'
  OBVIOUS
<1>1. CASE UNCHANGED vars
  BY <1>1 DEF vars, screen, server, ClientInv, ClientTypeOK, ErrorShowsNothing
<1>2. CASE User \/ TimerFires \/ LoggedOut \/ EndFlow
  BY <1>2, UserInv
<1>3. CASE \E s \in Slots : LoadStep(s) \/ Sign(s)
  BY <1>3, LoadStepInv
<1>4. CASE \E e \in edits : patchVault(e)
  BY <1>4, PatchInv
<1> QED
  BY <1>1, <1>2, <1>3, <1>4 DEF Next

LEMMA ClientInvHolds == Spec => []ClientInv
BY ClientInvInit, ClientInvStep, PTL DEF Spec

-----------------------------------------------------------------------------

(* Every token, wherever it is kept, and every patch under way is of a     *)
(* wallet that has signed a challenge.                                     *)
Known ==
  /\ {session, storage, flow.session} \subseteq signed \cup {NoWallet}
  /\ \A s \in Slots : load[s].token \in signed \cup {NoWallet}
  /\ \A e \in edits : e.wallet \in signed

(* A load that goes on with a known token, or ends, leaves all known.      *)
LEMMA GoesKnown ==
  ASSUME ClientInv, Known, NEW s \in Slots, NEW pc, NEW token \in signed' \cup {NoWallet},
         signed \subseteq signed', Goes(s, pc, token)
  PROVE  \A q \in Slots : load'[q].token \in signed' \cup {NoWallet}
<1>1. load \in [Slots -> Load] /\ \A q \in Slots : load[q].token \in signed \cup {NoWallet}
  BY DEF ClientInv, ClientTypeOK, Known
<1> DEFINE l == [load[s] EXCEPT !.pc = pc, !.token = token]
<1>2. load' = [load EXCEPT ![s] = l] /\ l.token = token
  BY <1>1 DEF Goes, Load
<1> HIDE DEF l
<1> QED
  BY <1>1, <1>2

LEMMA EndedKnown ==
  ASSUME ClientInv, Known, NEW s \in Slots, signed' = signed, Ended(s)
  PROVE  \A q \in Slots : load'[q].token \in signed' \cup {NoWallet}
<1>1. load \in [Slots -> Load] /\ \A q \in Slots : load[q].token \in signed \cup {NoWallet}
  BY DEF ClientInv, ClientTypeOK, Known
<1>2. load' = [load EXCEPT ![s] = NoLoad] /\ NoLoad.token = NoWallet
  BY DEF Ended, NoLoad
<1> QED
  BY <1>1, <1>2

LEMMA FailsKnown ==
  ASSUME ClientInv, Known, NEW s \in Slots, NEW error, Fails(s, error)
  PROVE  Known'
<1>1. UNCHANGED <<flow, edits, signed>> /\ session' \in {session, NoWallet}
      /\ storage' \in {storage, NoWallet}
  BY DEF Fails, server
<1>2. \A q \in Slots : load'[q].token \in signed' \cup {NoWallet}
  BY <1>1, EndedKnown DEF Fails
<1> QED
  BY <1>1, <1>2 DEF Known

(* The session a load begins with is one of those already known.           *)
LEMMA LoadDataKnown ==
  ASSUME ClientInv, Known, NEW s \in Slots, NEW r \in Render, loadData(s, r),
         r.session \in signed \cup {NoWallet}, flow'.session \in signed \cup {NoWallet}
  PROVE  Known'
<1>1. UNCHANGED <<edits, signed>>
  BY DEF loadData, server
<1>2. load \in [Slots -> Load] /\ \A q \in Slots : load[q].token \in signed \cup {NoWallet}
  BY DEF ClientInv, ClientTypeOK, Known
<1>3. CASE r.wallet = NoWallet
  <2>1. session' = NoWallet /\ storage' = NoWallet /\ load' = load
    BY <1>3 DEF loadData
  <2> QED
    BY <1>1, <1>2, <2>1 DEF Known
<1>4. CASE r.wallet # NoWallet
  <2> DEFINE from == SessionOf(r.wallet, r.session)
             l == [pc |-> from.pc, wallet |-> r.wallet, network |-> r.network,
                   token |-> from.token, reply |-> NoData]
  <2>1. from.token \in signed \cup {NoWallet}
    BY DEF SessionOf, Known
  <2>2. load' = [load EXCEPT ![s] = l] /\ session' = session /\ storage' = storage
    BY <1>4 DEF loadData
  <2>3. l.token = from.token
    OBVIOUS
  <2> HIDE DEF l, from
  <2> QED
    BY <1>1, <1>2, <2>1, <2>2, <2>3 DEF Known
<1> QED
  BY <1>3, <1>4

LEMMA KnownStep == ClientInv /\ Known /\ [Next]_vars => Known'
<1> SUFFICES ASSUME ClientInv, Known, [Next]_vars PROVE Known'
  OBVIOUS
<1>0. /\ load \in [Slots -> Load] /\ flow \in Render /\ session \in Maybe
      /\ session \in signed \cup {NoWallet} /\ storage \in signed \cup {NoWallet}
      /\ flow.session \in signed \cup {NoWallet}
      /\ \A q \in Slots : load[q].token \in signed \cup {NoWallet}
      /\ \A e \in edits : e.wallet \in signed
  BY DEF ClientInv, ClientTypeOK, Known
<1>1. CASE UNCHANGED vars
  BY <1>1 DEF vars, screen, server, Known
(* A step of a load that changes nothing else.                             *)
<1>2. ASSUME NEW s \in Slots, NEW pc, NEW token \in signed \cup {NoWallet}, Proceeds(s, pc, token)
      PROVE  Known'
  <2>1. UNCHANGED <<flow, session, storage, edits, signed>>
    BY <1>2 DEF Proceeds, screen, server
  <2>2. \A q \in Slots : load'[q].token \in signed' \cup {NoWallet}
    BY <1>2, <2>1, GoesKnown DEF Proceeds
  <2> QED
    BY <2>1, <2>2 DEF Known
<1>3. ASSUME NEW s \in Slots, NEW kind, NEW mode, Answer(s, kind, mode), signed' = signed
      PROVE  \A q \in Slots : load'[q].token \in signed' \cup {NoWallet}
  <2>1. CASE load[s].wallet = NoWallet
    BY <1>3, <2>1, EndedKnown DEF Answer
  <2>2. CASE load[s].wallet # NoWallet
    <3> DEFINE r == [kind |-> kind, of |-> load[s].token, network |-> load[s].network, mode |-> mode]
               l == [load[s] EXCEPT !.pc = "answered", !.reply = r]
    <3>1. load' = [load EXCEPT ![s] = l]
      BY <1>0, <1>3, <2>2 DEF Answer
    <3>2. l.token = load[s].token
      <4> HIDE DEF r
      <4> QED BY <1>0 DEF Load
    <3> HIDE DEF l
    <3> QED
      BY <1>0, <1>3, <3>1, <3>2
  <2> QED
    BY <2>1, <2>2
<1>4. ASSUME NEW s \in Slots, CheckMemory(s) PROVE Known'
  <2>1. CASE Fails(s, "retry")
    BY <2>1, FailsKnown
  <2>2. ASSUME NEW found \in getSession(load[s].token), found # NoWallet, Proceeds(s, "select", found)
        PROVE  Known'
    BY <1>0, <1>2, <2>2, GetSession
  <2>3. CASE Proceeds(s, SessionOf(load[s].wallet, NoWallet).pc,
                         SessionOf(load[s].wallet, NoWallet).token)
    <3>1. SessionOf(load[s].wallet, NoWallet).token \in signed \cup {NoWallet}
      BY <1>0 DEF SessionOf
    <3> QED
      BY <1>2, <2>3, <3>1
  <2> QED
    BY <1>4, <2>1, <2>2, <2>3 DEF CheckMemory
<1>5. ASSUME NEW s \in Slots, CheckStored(s) PROVE Known'
  <2>1. UNCHANGED <<flow, edits, signed>>
    BY <1>5 DEF CheckStored, screen, server
  <2>2. /\ session' \in {session, load[s].token} /\ storage' \in {storage, NoWallet}
        /\ Goes(s, "select", load[s].token) \/ Goes(s, "nonce", NoWallet)
    BY <1>5 DEF CheckStored
  <2>3. \A q \in Slots : load'[q].token \in signed' \cup {NoWallet}
    BY <1>0, <2>1, <2>2, GoesKnown
  <2> QED
    BY <1>0, <2>1, <2>2, <2>3 DEF Known
<1>6. ASSUME NEW s \in Slots, FetchNonce(s) PROVE Known'
  BY <1>2, <1>6, FailsKnown DEF FetchNonce
(* The account that signs is known from now on.                            *)
<1>7. ASSUME NEW s \in Slots, Sign(s) PROVE Known'
  <2>1. CASE Fails(s, "retry")
    BY <2>1, FailsKnown
  <2>2. ASSUME NEW w \in {load[s].wallet, wallet} \ {NoWallet},
               Goes(s, "exchange", w), signed' = signed \cup {w},
               UNCHANGED <<screen, session, storage, profile, edits, acts>>
        PROVE  Known'
    <3>1. UNCHANGED <<flow, session, storage, edits>>
      BY <2>2 DEF screen
    <3>2. \A q \in Slots : load'[q].token \in signed' \cup {NoWallet}
      BY <2>2, GoesKnown
    <3> QED
      BY <1>0, <2>2, <3>1, <3>2 DEF Known
  <2> QED
    BY <1>7, <2>1, <2>2 DEF Sign
(* A session is granted only to the account that signed.                   *)
<1>8. ASSUME NEW s \in Slots, Exchange(s) PROVE Known'
  <2>1. CASE \E error \in {"retry", "reconnect"} : Fails(s, error)
    BY <2>1, FailsKnown
  <2>2. ASSUME NEW c \in SignInChallenge, c.signer = load[s].token,
               createSessionFromSignature(c) # NoWallet,
               Goes(s, "select", createSessionFromSignature(c)),
               session' = createSessionFromSignature(c), storage' = createSessionFromSignature(c),
               UNCHANGED <<screen, server, acts>>
        PROVE  Known'
    <3>1. createSessionFromSignature(c) = load[s].token
      BY <2>2 DEF createSessionFromSignature, issueSessionJwt
    <3>2. UNCHANGED <<flow, edits, signed>>
      BY <2>2 DEF screen, server
    <3>3. \A q \in Slots : load'[q].token \in signed' \cup {NoWallet}
      BY <1>0, <2>2, <3>1, <3>2, GoesKnown
    <3> QED
      BY <1>0, <2>2, <3>1, <3>2, <3>3 DEF Known
  <2> QED
    BY <1>8, <2>1, <2>2 DEF Exchange
<1>9. ASSUME NEW s \in Slots, SelectProfile(s) PROVE Known'
  <2>1. CASE Fails(s, "retry")
    BY <2>1, FailsKnown
  <2>2. ASSUME NEW found \in getSession(load[s].token) \ {NoWallet},
               IF profile[found] # "none" THEN Answer(s, "real", profile[found])
               ELSE Goes(s, "chain", found),
               UNCHANGED <<screen, session, storage, server, acts>>
        PROVE  Known'
    <3>1. UNCHANGED <<flow, session, storage, edits, signed>>
      BY <2>2 DEF screen, server
    <3>2. \A q \in Slots : load'[q].token \in signed' \cup {NoWallet}
      BY <1>0, <1>3, <2>2, <3>1, GetSession, GoesKnown
    <3> QED
      BY <3>1, <3>2 DEF Known
  <2> QED
    BY <1>9, <2>1, <2>2 DEF SelectProfile
<1>10. ASSUME NEW s \in Slots, ReadChain(s) PROVE Known'
  BY <1>0, <1>2, <1>10 DEF ReadChain
<1>11. ASSUME NEW s \in Slots, InsertProfile(s) PROVE Known'
  <2>1. UNCHANGED <<flow, session, storage, edits, signed>> /\ Answer(s, "zero", "safe")
    BY <1>11 DEF InsertProfile, screen
  <2> QED
    BY <1>3, <2>1 DEF Known
<1>12. ASSUME NEW s \in Slots, applyProtocolState(s) PROVE Known'
  <2>1. CASE Fails(s, "retry")
    BY <2>1, FailsKnown
  <2>2. CASE Ended(s) /\ UNCHANGED <<wallet, network, session, storage, timer, leaving, flow, server, acts>>
    BY <2>2, EndedKnown DEF Known, server
  <2> QED
    BY <1>12, <2>1, <2>2 DEF applyProtocolState
(* The loads that begin keep the session of their render.                  *)
<1>13. ASSUME refreshVault \/ TimerFires PROVE Known'
  <2>1. PICK s \in Slots : loadData(s, Current)
    BY <1>13 DEF refreshVault, TimerFires
  <2>2. Current \in Render /\ Current.session = session /\ flow' = flow
    BY <1>13, CurrentTyped DEF Current, refreshVault, TimerFires
  <2> QED
    BY <1>0, <2>1, <2>2, LoadDataKnown
<1>14. ASSUME EndFlow PROVE Known'
  <2>1. PICK s \in Slots : loadData(s, flow)
    BY <1>14 DEF EndFlow
  <2>2. flow'.session = NoWallet
    BY <1>14 DEF EndFlow, NoFlow
  <2> QED
    BY <1>0, <2>1, <2>2, LoadDataKnown
<1>15. ASSUME BeginFlow PROVE Known'
  <2>1. UNCHANGED <<session, storage, load, edits, signed>> /\ flow'.session = session
    BY <1>15 DEF BeginFlow, server, Current
  <2> QED
    BY <1>0, <2>1 DEF Known
<1>16. ASSUME Reload PROVE Known'
  <2>1. UNCHANGED <<storage, edits, signed>> /\ session' = NoWallet /\ flow'.session = NoWallet
    BY <1>16 DEF Reload, server, NoFlow
  <2>2. load' = [s \in Slots |-> IF load[s].pc \in {"select", "chain", "insert"}
                                 THEN [load[s] EXCEPT !.wallet = NoWallet] ELSE NoLoad]
    BY <1>16 DEF Reload
  <2>3. \A s \in Slots : [load[s] EXCEPT !.wallet = NoWallet].token = load[s].token
    BY <1>0 DEF Load
  <2>4. NoLoad.token = NoWallet
    BY DEF NoLoad
  <2>5. \A q \in Slots : load'[q].token \in signed' \cup {NoWallet}
    BY <1>0, <2>1, <2>2, <2>3, <2>4
  <2> QED
    BY <1>0, <2>1, <2>5 DEF Known
<1>17. ASSUME NEW m \in Modes, updateVault(m) PROVE Known'
  <2>1. UNCHANGED <<session, storage, flow, load, signed>> /\ edits' = edits \cup Sent(m)
    BY <1>17 DEF updateVault
  <2>2. \A e \in Sent(m) : e.wallet \in signed
    BY <1>0 DEF Sent
  <2> QED
    BY <1>0, <2>1, <2>2 DEF Known
(* The steps that keep every token, or drop some.                          *)
<1>18. ASSUME \/ \E w \in Wallets : Connect(w)
              \/ \E n \in Networks : setNetwork(n)
              \/ Logout \/ disconnectWallet \/ LoggedOut
              \/ \E e \in edits : patchVault(e)
       PROVE  Known'
  <2>1. /\ UNCHANGED <<flow, load, signed>> /\ edits' \subseteq edits
        /\ session' \in {session, NoWallet} /\ storage' \in {storage, NoWallet}
    BY <1>18 DEF Connect, setNetwork, Logout, disconnectWallet, LoggedOut, patchVault, server, screen
  <2> QED
    BY <1>0, <2>1 DEF Known
<1>19. CASE User \/ TimerFires \/ LoggedOut \/ EndFlow
  BY <1>13, <1>14, <1>15, <1>16, <1>17, <1>18, <1>19 DEF User
<1>20. CASE \E s \in Slots : LoadStep(s) \/ Sign(s)
  BY <1>4, <1>5, <1>6, <1>7, <1>8, <1>9, <1>10, <1>11, <1>12, <1>20 DEF LoadStep
<1>21. CASE \E e \in edits : patchVault(e)
  BY <1>18, <1>21
<1> QED
  BY <1>1, <1>19, <1>20, <1>21 DEF Next

LEMMA KnownHolds == Spec => []Known
<1>1. Init => Known
  <2> SUFFICES ASSUME Init PROVE Known
    OBVIOUS
  <2>1. flow.session = NoWallet /\ \A s \in Slots : load[s].token = NoWallet
    BY DEF Init, NoFlow, NoLoad
  <2> QED
    BY <2>1 DEF Init, Known
<1> QED
  BY <1>1, ClientInvHolds, KnownStep, PTL DEF Spec

-----------------------------------------------------------------------------

(* A third invariant: what SpinnerIsAwaited says of the page, and that a   *)
(* flow begins with a wallet, so that the load at its end is one that      *)
(* somebody waits for.                                                     *)
Blank == wallet # NoWallet /\ ~page.ready /\ page.error = "none"
Waited ==
  /\ page.isLoading => Awaited
  /\ Blank => Awaited \/ leaving
  /\ flow # NoFlow => flow.wallet # NoWallet

(* The gate without a wallet is the landing page.                          *)
LEMMA GateOpens ==
  /\ Gate = "spinner" => Blank
  /\ Gate = "pages" => wallet # NoWallet
BY DEF Gate, Blank

(* A step that leaves the page, and every load somebody waits for.         *)
LEMMA StaysAwaited ==
  ASSUME Waited, UNCHANGED screen,
         \A s \in Slots : load[s].pc # "idle" /\ load[s].wallet # NoWallet
                            => load'[s].pc # "idle" /\ load'[s].wallet # NoWallet
  PROVE  Waited'
<1>1. UNCHANGED <<wallet, page, timer, leaving, flow>>
  BY DEF screen
<1>2. Awaited => Awaited'
  BY <1>1 DEF Awaited
<1> QED
  BY <1>1, <1>2 DEF Waited, Blank

(* A load that goes on is still awaited, if it was.                        *)
LEMMA GoesAwaited ==
  ASSUME ClientInv, NEW s \in Slots, NEW pc, pc # "idle", NEW token, Goes(s, pc, token)
  PROVE  \A q \in Slots : load[q].pc # "idle" /\ load[q].wallet # NoWallet
                            => load'[q].pc # "idle" /\ load'[q].wallet # NoWallet
<1>1. load \in [Slots -> Load]
  BY DEF ClientInv, ClientTypeOK
<1> DEFINE l == [load[s] EXCEPT !.pc = pc, !.token = token]
<1>2. load' = [load EXCEPT ![s] = l] /\ l.pc = pc /\ l.wallet = load[s].wallet
  BY <1>1 DEF Goes, Load
<1> HIDE DEF l
<1> QED
  BY <1>1, <1>2

(* A load nobody waits for may end.                                        *)
LEMMA EndedAwaited ==
  ASSUME ClientInv, NEW s \in Slots, load[s].wallet = NoWallet, Ended(s)
  PROVE  \A q \in Slots : load[q].pc # "idle" /\ load[q].wallet # NoWallet
                            => load'[q].pc # "idle" /\ load'[q].wallet # NoWallet
<1>1. load \in [Slots -> Load]
  BY DEF ClientInv, ClientTypeOK
<1> QED
  BY <1>1 DEF Ended

LEMMA AnswerAwaited ==
  ASSUME ClientInv, NEW s \in Slots, NEW kind, NEW mode, Answer(s, kind, mode)
  PROVE  \A q \in Slots : load[q].pc # "idle" /\ load[q].wallet # NoWallet
                            => load'[q].pc # "idle" /\ load'[q].wallet # NoWallet
<1>1. load \in [Slots -> Load]
  BY DEF ClientInv, ClientTypeOK
<1>2. CASE load[s].wallet = NoWallet
  BY <1>2, EndedAwaited DEF Answer
<1>3. CASE load[s].wallet # NoWallet
  <2> DEFINE r == [kind |-> kind, of |-> load[s].token, network |-> load[s].network, mode |-> mode]
             l == [load[s] EXCEPT !.pc = "answered", !.reply = r]
  <2>1. load' = [load EXCEPT ![s] = l]
    BY <1>1, <1>3 DEF Answer
  <2>2. l.pc = "answered" /\ l.wallet = load[s].wallet
    <3> HIDE DEF r
    <3> QED BY <1>1 DEF Load
  <2> HIDE DEF l
  <2> QED
    BY <1>1, <1>3, <2>1, <2>2
<1> QED
  BY <1>2, <1>3

(* A load that fails shows its error, unless nobody waits for it.          *)
LEMMA FailsWaited ==
  ASSUME ClientInv, Waited, NEW s \in Slots, NEW e \in {"retry", "reconnect"}, Fails(s, e)
  PROVE  Waited'
<1>1. UNCHANGED <<wallet, timer, leaving, flow>>
  BY DEF Fails
<1>2. CASE load[s].wallet = NoWallet
  <2>1. page' = page /\ Ended(s)
    BY <1>2 DEF Fails
  <2> QED
    BY <1>1, <1>2, <2>1, EndedAwaited, StaysAwaited DEF screen, Fails
<1>3. CASE load[s].wallet # NoWallet
  <2>1. page' = Failure(e)
    BY <1>3 DEF Fails
  <2>2. ~page'.isLoading /\ page'.error = e
    BY <2>1 DEF Failure, DefaultPage
  <2> QED
    BY <1>1, <2>2 DEF Waited, Blank
<1> QED
  BY <1>2, <1>3

(* A load that begins with a wallet is awaited; without one the page is    *)
(* emptied, and shows no spinner unless a wallet is connected after all.   *)
LEMMA LoadDataWaited ==
  ASSUME ClientInv, NEW s \in Slots, NEW r \in Render, loadData(s, r),
         r.wallet = NoWallet => wallet = NoWallet,
         flow' # NoFlow => flow'.wallet # NoWallet
  PROVE  Waited'
<1>1. CASE r.wallet = NoWallet
  <2>1. page' = DefaultPage /\ wallet' = NoWallet
    BY <1>1 DEF loadData
  <2>2. ~page'.isLoading
    BY <2>1 DEF DefaultPage
  <2> QED
    BY <2>1, <2>2 DEF Waited, Blank
<1>2. CASE r.wallet # NoWallet
  <2> DEFINE from == SessionOf(r.wallet, r.session)
             l == [pc |-> from.pc, wallet |-> r.wallet, network |-> r.network,
                   token |-> from.token, reply |-> NoData]
  <2>1. load' = [load EXCEPT ![s] = l]
    BY <1>2 DEF loadData
  <2>2. from.pc # "idle"
    BY DEF SessionOf
  <2>3. l.pc = from.pc /\ l.wallet = r.wallet
    OBVIOUS
  <2>4. load \in [Slots -> Load]
    BY DEF ClientInv, ClientTypeOK
  <2> HIDE DEF l, from
  <2>5. load'[s].pc # "idle" /\ load'[s].wallet # NoWallet
    BY <1>2, <2>1, <2>2, <2>3, <2>4
  <2>6. Awaited'
    BY <2>5 DEF Awaited
  <2> QED
    BY <2>6 DEF Waited
<1> QED
  BY <1>1, <1>2

LEMMA WaitedStep == ClientInv /\ Waited /\ [Next]_vars => Waited'
<1> SUFFICES ASSUME ClientInv, Waited, [Next]_vars PROVE Waited'
  OBVIOUS
<1>0. flow \in Render /\ load \in [Slots -> Load] /\ page \in Page
  BY DEF ClientInv, ClientTypeOK
<1>1. CASE UNCHANGED vars
  <2>1. UNCHANGED screen /\ load' = load
    BY <1>1 DEF vars
  <2> QED
    BY <2>1, StaysAwaited
(* A load that goes on leaves the page alone.                              *)
<1>2. ASSUME NEW s \in Slots, NEW pc, pc # "idle", NEW token, Goes(s, pc, token), UNCHANGED screen
      PROVE  Waited'
  BY <1>2, GoesAwaited, StaysAwaited
<1>3. ASSUME NEW s \in Slots, CheckMemory(s) PROVE Waited'
  <2>1. SessionOf(load[s].wallet, NoWallet).pc # "idle"
    BY DEF SessionOf
  <2>2. CASE Fails(s, "retry")
    BY <2>2, FailsWaited
  <2>3. CASE \/ \E found \in getSession(load[s].token) : Proceeds(s, "select", found)
             \/ Proceeds(s, SessionOf(load[s].wallet, NoWallet).pc,
                            SessionOf(load[s].wallet, NoWallet).token)
    BY <1>2, <2>1, <2>3 DEF Proceeds
  <2> QED
    BY <1>3, <2>2, <2>3 DEF CheckMemory
<1>4. ASSUME NEW s \in Slots, CheckStored(s) PROVE Waited'
  <2>1. UNCHANGED screen /\ (Goes(s, "select", load[s].token) \/ Goes(s, "nonce", NoWallet))
    BY <1>4 DEF CheckStored
  <2> QED
    BY <1>2, <2>1
<1>5. ASSUME NEW s \in Slots, FetchNonce(s) PROVE Waited'
  BY <1>2, <1>5, FailsWaited DEF FetchNonce, Proceeds
<1>6. ASSUME NEW s \in Slots, Sign(s) PROVE Waited'
  <2>1. CASE Fails(s, "retry")
    BY <2>1, FailsWaited
  <2>2. CASE UNCHANGED screen /\ \E w \in {load[s].wallet, wallet} : Goes(s, "exchange", w)
    BY <1>2, <2>2
  <2> QED
    BY <1>6, <2>1, <2>2 DEF Sign
<1>7. ASSUME NEW s \in Slots, Exchange(s) PROVE Waited'
  <2>1. CASE \E error \in {"retry", "reconnect"} : Fails(s, error)
    BY <2>1, FailsWaited
  <2>2. CASE UNCHANGED screen
             /\ \E c \in SignInChallenge : Goes(s, "select", createSessionFromSignature(c))
    BY <1>2, <2>2
  <2> QED
    BY <1>7, <2>1, <2>2 DEF Exchange
<1>8. ASSUME NEW s \in Slots, SelectProfile(s) PROVE Waited'
  <2>1. CASE Fails(s, "retry")
    BY <2>1, FailsWaited
  <2>2. ASSUME NEW found \in getSession(load[s].token) \ {NoWallet}, UNCHANGED screen,
               Answer(s, "real", profile[found]) \/ Goes(s, "chain", found)
        PROVE  Waited'
    BY <1>2, <2>2, AnswerAwaited, StaysAwaited
  <2> QED
    BY <1>8, <2>1, <2>2 DEF SelectProfile
<1>9. ASSUME NEW s \in Slots, ReadChain(s) PROVE Waited'
  BY <1>2, <1>9 DEF ReadChain, Proceeds
<1>10. ASSUME NEW s \in Slots, InsertProfile(s) PROVE Waited'
  <2>1. UNCHANGED screen /\ Answer(s, "zero", "safe")
    BY <1>10 DEF InsertProfile
  <2> QED
    BY <2>1, AnswerAwaited, StaysAwaited
(* An answer that is applied ends the loading, whoever asked for it.       *)
<1>11. ASSUME NEW s \in Slots, applyProtocolState(s) PROVE Waited'
  <2>1. CASE Fails(s, "retry")
    BY <2>1, FailsWaited
  <2>2. CASE page' = Applied(load[s].reply) /\ flow' = flow
    <3>1. ~page'.isLoading /\ page'.ready
      BY <2>2 DEF Applied
    <3> QED
      BY <2>2, <3>1 DEF Waited, Blank
  <2> QED
    BY <1>11, <2>1, <2>2 DEF applyProtocolState
(* A load of the render on screen.                                         *)
<1>12. ASSUME refreshVault \/ TimerFires PROVE Waited'
  <2>1. PICK s \in Slots : loadData(s, Current)
    BY <1>12 DEF refreshVault, TimerFires
  <2>2. Current \in Render /\ Current.wallet = wallet /\ flow' = flow
    BY <1>12, CurrentTyped DEF Current, refreshVault, TimerFires
  <2>3. flow' # NoFlow => flow'.wallet # NoWallet
    BY <2>2 DEF Waited
  <2> QED
    BY <2>1, <2>2, <2>3, LoadDataWaited
(* A load of the render a flow began in, which had a wallet.               *)
<1>13. ASSUME EndFlow PROVE Waited'
  <2>1. PICK s \in Slots : loadData(s, flow)
    BY <1>13 DEF EndFlow
  <2>2. flow # NoFlow /\ flow' = NoFlow
    BY <1>13 DEF EndFlow
  <2>3. flow.wallet # NoWallet
    BY <2>2 DEF Waited
  <2> QED
    BY <1>0, <2>1, <2>2, <2>3, LoadDataWaited
<1>14. ASSUME BeginFlow PROVE Waited'
  <2>1. wallet # NoWallet /\ flow' = Current /\ UNCHANGED <<wallet, page, timer, leaving, load>>
    BY <1>14, GateOpens DEF BeginFlow
  <2>2. flow'.wallet # NoWallet
    BY <2>1 DEF Current
  <2>3. Awaited => Awaited'
    BY <2>1 DEF Awaited
  <2> QED
    BY <2>1, <2>2, <2>3 DEF Waited, Blank
(* The steps that start the debounce.                                      *)
<1>15. ASSUME \/ \E w \in Wallets : Connect(w)
              \/ \E n \in Networks : setNetwork(n)
              \/ Logout \/ Reload
       PROVE  Waited'
  <2>1. timer' = TRUE /\ flow' \in {flow, NoFlow}
    BY <1>15 DEF Connect, setNetwork, Logout, Reload
  <2>2. Awaited'
    BY <2>1 DEF Awaited
  <2> QED
    BY <2>1, <2>2 DEF Waited
(* A logout shows the spinner until it completes.                          *)
<1>16. ASSUME disconnectWallet PROVE Waited'
  <2>1. page' = DefaultPage /\ leaving' = TRUE /\ flow' = flow
    BY <1>16 DEF disconnectWallet
  <2>2. ~page'.isLoading
    BY <2>1 DEF DefaultPage
  <2> QED
    BY <2>1, <2>2 DEF Waited
<1>17. ASSUME LoggedOut PROVE Waited'
  <2>1. wallet' = NoWallet /\ (timer => timer') /\ UNCHANGED <<page, flow, load>>
    BY <1>17 DEF LoggedOut
  <2>2. Awaited => Awaited'
    BY <2>1 DEF Awaited
  <2> QED
    BY <2>1, <2>2 DEF Waited, Blank
<1>18. ASSUME NEW m \in Modes, updateVault(m) PROVE Waited'
  <2>1. UNCHANGED <<wallet, timer, leaving, flow, load>> /\ page' = [page EXCEPT !.data.mode = m]
    BY <1>18 DEF updateVault
  <2>2. page'.isLoading = page.isLoading /\ page'.ready = page.ready /\ page'.error = page.error
    BY <1>0, <2>1 DEF Page
  <2>3. Awaited => Awaited'
    BY <2>1 DEF Awaited
  <2> QED
    BY <2>1, <2>2, <2>3 DEF Waited, Blank
<1>19. ASSUME NEW e \in edits, patchVault(e) PROVE Waited'
  <2>1. UNCHANGED screen /\ load' = load
    BY <1>19 DEF patchVault
  <2> QED
    BY <2>1, StaysAwaited
<1>20. CASE User \/ TimerFires \/ LoggedOut \/ EndFlow
  BY <1>12, <1>13, <1>14, <1>15, <1>16, <1>17, <1>18, <1>20 DEF User
<1>21. CASE \E s \in Slots : LoadStep(s) \/ Sign(s)
  BY <1>3, <1>4, <1>5, <1>6, <1>7, <1>8, <1>9, <1>10, <1>11, <1>21 DEF LoadStep
<1> QED
  BY <1>1, <1>19, <1>20, <1>21 DEF Next

-----------------------------------------------------------------------------

(* The steps of Access, from where each token and each piece of data comes.*)

(* What is held now, by each of its holders.                               *)
LEMMA Holders ==
  /\ session \in Tokens \cup {NoWallet} /\ storage \in Tokens \cup {NoWallet}
  /\ flow.session \in Tokens \cup {NoWallet}
  /\ \A q \in Slots : load[q].pc \in Holding => load[q].token \in Tokens \cup {NoWallet}
  /\ page.data.of \in Shown \cup {NoWallet}
  /\ \A q \in Slots : load[q].reply.of \in Shown \cup {NoWallet}
BY DEF Tokens, Shown

LEMMA TokensFrom ==
  ASSUME NEW X, session' \in X \cup {NoWallet}, storage' \in X \cup {NoWallet},
         flow'.session \in X \cup {NoWallet},
         \A q \in Slots : load'[q].pc \in Holding => load'[q].token \in X \cup {NoWallet}
  PROVE  Tokens' \in SUBSET X
BY DEF Tokens

LEMMA ShownFrom ==
  ASSUME NEW X, page'.data.of \in X \cup {NoWallet},
         \A q \in Slots : load'[q].reply.of \in X \cup {NoWallet}
  PROVE  Shown' \in SUBSET X
BY DEF Shown

(* A step that takes tokens and data from where there are some.            *)
LEMMA ForgetStep ==
  ASSUME UNCHANGED <<signed, profile, edits>>,
         session' \in Tokens \cup {NoWallet}, storage' \in Tokens \cup {NoWallet},
         flow'.session \in Tokens \cup {NoWallet}, page'.data.of \in Shown \cup {NoWallet},
         \A q \in Slots : /\ load'[q].pc \in Holding => load'[q].token \in Tokens \cup {NoWallet}
                          /\ load'[q].reply.of \in Shown \cup {NoWallet}
  PROVE  A!Next
<1>1. Tokens' \in SUBSET Tokens /\ Shown' \in SUBSET Shown
  BY TokensFrom, ShownFrom
<1>2. A!Forget
  BY <1>1 DEF A!Forget
<1> QED
  BY <1>2 DEF A!Next

(* A load that goes on with a token there is, and one that ends.           *)
LEMMA GoesHeld ==
  ASSUME ClientInv, NEW s \in Slots, NEW pc, NEW token,
         pc \in Holding => token \in Tokens \cup {NoWallet}, Goes(s, pc, token)
  PROVE  \A q \in Slots : /\ load'[q].pc \in Holding => load'[q].token \in Tokens \cup {NoWallet}
                          /\ load'[q].reply.of \in Shown \cup {NoWallet}
<1>1. load \in [Slots -> Load]
  BY DEF ClientInv, ClientTypeOK
<1> DEFINE l == [load[s] EXCEPT !.pc = pc, !.token = token]
<1>2. load' = [load EXCEPT ![s] = l] /\ l.pc = pc /\ l.token = token /\ l.reply = load[s].reply
  BY <1>1 DEF Goes, Load
<1> HIDE DEF l
<1> QED
  BY <1>1, <1>2, Holders

LEMMA EndedHeld ==
  ASSUME ClientInv, NEW s \in Slots, Ended(s)
  PROVE  \A q \in Slots : /\ load'[q].pc \in Holding => load'[q].token \in Tokens \cup {NoWallet}
                          /\ load'[q].reply.of \in Shown \cup {NoWallet}
<1>1. load \in [Slots -> Load]
  BY DEF ClientInv, ClientTypeOK
<1>2. NoLoad.token = NoWallet /\ NoLoad.reply.of = NoWallet
  BY DEF NoLoad, NoData
<1>3. load' = [load EXCEPT ![s] = NoLoad]
  BY DEF Ended
<1> QED
  BY <1>1, <1>2, <1>3, Holders

(* A step that leaves the screen and the stores alone.                     *)
LEMMA LoadMoves ==
  ASSUME UNCHANGED <<screen, session, storage, server>>,
         \A q \in Slots : /\ load'[q].pc \in Holding => load'[q].token \in Tokens \cup {NoWallet}
                          /\ load'[q].reply.of \in Shown \cup {NoWallet}
  PROVE  A!Next
<1>1. UNCHANGED <<page, flow, session, storage, signed, profile, edits>>
  BY DEF screen, server
<1> QED
  BY <1>1, Holders, ForgetStep

LEMMA FailsAccess ==
  ASSUME ClientInv, NEW s \in Slots, NEW e, Fails(s, e)
  PROVE  A!Next
<1>1. UNCHANGED <<flow, signed, profile, edits>> /\ Ended(s)
  BY DEF Fails, server
<1>2. Failure(e).data = NoData
  BY DEF Failure, DefaultPage
<1>3. page'.data.of \in {page.data.of, NoWallet}
  BY <1>2 DEF Fails, NoData
<1>4. session' \in {session, NoWallet} /\ storage' \in {storage, NoWallet}
  BY DEF Fails
<1> QED
  BY <1>1, <1>3, <1>4, EndedHeld, Holders, ForgetStep

(* A load begins with a token that memory, its render or storage has.      *)
LEMMA LoadDataAccess ==
  ASSUME ClientInv, NEW s \in Slots, NEW r, loadData(s, r),
         r.session \in Tokens \cup {NoWallet}, flow'.session \in Tokens \cup {NoWallet}
  PROVE  A!Next
<1>1. UNCHANGED <<signed, profile, edits>>
  BY DEF loadData, server
<1>2. load \in [Slots -> Load] /\ page \in Page /\ NoData.of = NoWallet
  BY DEF ClientInv, ClientTypeOK, NoData
<1>3. CASE r.wallet = NoWallet
  <2>1. session' = NoWallet /\ storage' = NoWallet /\ page' = DefaultPage /\ load' = load
    BY <1>3 DEF loadData
  <2>2. page'.data.of = NoWallet
    BY <1>2, <2>1 DEF DefaultPage
  <2> QED
    BY <1>1, <2>1, <2>2, Holders, ForgetStep
<1>4. CASE r.wallet # NoWallet
  <2> DEFINE from == SessionOf(r.wallet, r.session)
             l == [pc |-> from.pc, wallet |-> r.wallet, network |-> r.network,
                   token |-> from.token, reply |-> NoData]
  <2>1. from.token \in Tokens \cup {NoWallet}
    BY Holders DEF SessionOf
  <2>2. /\ load' = [load EXCEPT ![s] = l] /\ page' = Wiped
        /\ session' = session /\ storage' = storage
    BY <1>4 DEF loadData
  <2>3. l.token = from.token /\ l.reply = NoData
    OBVIOUS
  <2>4. page'.data.of = NoWallet
    BY <1>2, <2>2 DEF Wiped, Page
  <2> HIDE DEF l, from
  <2>5. \A q \in Slots : /\ load'[q].pc \in Holding => load'[q].token \in Tokens \cup {NoWallet}
                         /\ load'[q].reply.of \in Shown \cup {NoWallet}
    BY <1>2, <2>1, <2>2, <2>3, Holders
  <2> QED
    BY <1>1, <2>2, <2>4, <2>5, Holders, ForgetStep
<1> QED
  BY <1>3, <1>4

(* What an answer tells is of the wallet the token names.                  *)
LEMMA AnswerHeld ==
  ASSUME ClientInv, NEW s \in Slots, load[s].pc \in {"select", "insert"}, NEW kind, NEW mode,
         Answer(s, kind, mode)
  PROVE  \A q \in Slots : /\ load'[q].pc \in Holding => load'[q].token \in Tokens \cup {NoWallet}
                          /\ load'[q].reply.of \in Shown \cup {load[s].token, NoWallet}
<1>1. load \in [Slots -> Load]
  BY DEF ClientInv, ClientTypeOK
<1>2. CASE load[s].wallet = NoWallet
  BY <1>2, EndedHeld DEF Answer
<1>3. CASE load[s].wallet # NoWallet
  <2> DEFINE r == [kind |-> kind, of |-> load[s].token, network |-> load[s].network, mode |-> mode]
             l == [load[s] EXCEPT !.pc = "answered", !.reply = r]
  <2>1. load' = [load EXCEPT ![s] = l]
    BY <1>1, <1>3 DEF Answer
  <2>2. l.token = load[s].token /\ l.reply = r
    <3> HIDE DEF r
    <3> QED BY <1>1 DEF Load
  <2>3. r.of = load[s].token
    OBVIOUS
  <2>4. load[s].token \in Tokens \cup {NoWallet}
    BY Holders DEF Holding
  <2> HIDE DEF l, r
  <2> QED
    BY <1>1, <2>1, <2>2, <2>3, <2>4, Holders
<1> QED
  BY <1>2, <1>3

(* An answer is read with the token its load holds.                        *)
LEMMA AnswerAccess ==
  ASSUME ClientInv, NEW s \in Slots, load[s].pc \in {"select", "insert"}, NEW kind, NEW mode,
         Answer(s, kind, mode), UNCHANGED <<screen, session, storage, signed, edits>>
  PROVE  Tokens' \in SUBSET Tokens /\ Shown' \in SUBSET (Shown \cup {load[s].token})
         /\ load[s].token \in Tokens /\ load[s].token \in Wallets
<1>1. UNCHANGED <<page, flow, session, storage>>
  BY DEF screen
<1>2. \A q \in Slots : /\ load'[q].pc \in Holding => load'[q].token \in Tokens \cup {NoWallet}
                       /\ load'[q].reply.of \in Shown \cup {load[s].token, NoWallet}
  BY AnswerHeld
<1>3. Tokens' \in SUBSET Tokens
  BY <1>1, <1>2, Holders, TokensFrom
<1>4. Shown' \in SUBSET (Shown \cup {load[s].token})
  BY <1>1, <1>2, Holders, ShownFrom
<1>5. load[s].token \in Wallets
  BY DEF ClientInv, Tied, Holding
<1>6. load[s].token \in Tokens
  BY <1>5, Holders, ClientAssumption DEF Holding
<1> QED
  BY <1>3, <1>4, <1>5, <1>6

(* Every step of the client is one of Access, or changes nothing of it.    *)
LEMMA AccessStep == ClientInv /\ Known /\ [Next]_vars => [A!Next]_(A!accessVars)
<1> SUFFICES ASSUME ClientInv, Known, [Next]_vars
             PROVE  A!Next \/ UNCHANGED <<signed, Tokens, Shown, profile, edits>>
  BY DEF A!accessVars
<1>0. /\ load \in [Slots -> Load] /\ page \in Page /\ edits \subseteq [wallet : Wallets, mode : Modes]
      /\ wallet \in Maybe /\ profile \in [Wallets -> Modes \cup {"none"}] /\ NoData.of = NoWallet
  BY DEF ClientInv, ClientTypeOK, NoData
<1>1. CASE UNCHANGED vars
  BY <1>1 DEF vars, screen, server, Tokens, Shown
(* The steps of a load before its question.                                *)
<1>2. ASSUME NEW s \in Slots, NEW pc, NEW token, pc \in Holding => token \in Tokens \cup {NoWallet},
             Proceeds(s, pc, token)
      PROVE  A!Next
  BY <1>2, GoesHeld, LoadMoves DEF Proceeds
<1>3. ASSUME NEW s \in Slots, CheckMemory(s) PROVE A!Next
  <2>1. CASE Fails(s, "retry")
    BY <2>1, FailsAccess
  <2>2. ASSUME NEW found \in getSession(load[s].token), found # NoWallet, Proceeds(s, "select", found)
        PROVE  A!Next
    <3>1. found \in Tokens \cup {NoWallet}
      BY <1>3, <2>2, GetSession, Holders DEF CheckMemory, Holding
    <3> QED
      BY <1>2, <2>2, <3>1
  <2>3. CASE Proceeds(s, SessionOf(load[s].wallet, NoWallet).pc,
                         SessionOf(load[s].wallet, NoWallet).token)
    <3>1. SessionOf(load[s].wallet, NoWallet).token \in Tokens \cup {NoWallet}
      BY Holders DEF SessionOf
    <3> QED
      BY <1>2, <2>3, <3>1
  <2> QED
    BY <1>3, <2>1, <2>2, <2>3 DEF CheckMemory
<1>4. ASSUME NEW s \in Slots, CheckStored(s) PROVE A!Next
  <2>1. UNCHANGED <<page, flow, signed, profile, edits>> /\ load[s].token \in Tokens \cup {NoWallet}
    BY <1>4, Holders DEF CheckStored, screen, server, Holding
  <2>2. /\ session' \in {session, load[s].token} /\ storage' \in {storage, NoWallet}
        /\ Goes(s, "select", load[s].token) \/ Goes(s, "nonce", NoWallet)
    BY <1>4 DEF CheckStored
  <2>3. \A q \in Slots : /\ load'[q].pc \in Holding => load'[q].token \in Tokens \cup {NoWallet}
                         /\ load'[q].reply.of \in Shown \cup {NoWallet}
    BY <2>1, <2>2, GoesHeld
  <2> QED
    BY <2>1, <2>2, <2>3, Holders, ForgetStep
<1>5. ASSUME NEW s \in Slots, FetchNonce(s) PROVE A!Next
  <2>1. "sign" \notin Holding
    BY DEF Holding
  <2> QED
    BY <1>2, <1>5, <2>1, FailsAccess DEF FetchNonce
(* A signature is no token yet.                                            *)
<1>6. ASSUME NEW s \in Slots, Sign(s) PROVE A!Next
  <2>1. CASE Fails(s, "retry")
    BY <2>1, FailsAccess
  <2>2. ASSUME NEW w \in {load[s].wallet, wallet} \ {NoWallet},
               Goes(s, "exchange", w), signed' = signed \cup {w},
               UNCHANGED <<screen, session, storage, profile, edits, acts>>
        PROVE  A!Next
    <3> DEFINE l == [load[s] EXCEPT !.pc = "exchange", !.token = w]
    <3>1. UNCHANGED <<page, flow, session, storage, profile, edits>>
      BY <2>2 DEF screen
    <3>2. load[s].pc = "sign" /\ load' = [load EXCEPT ![s] = l]
      BY <1>0, <1>6, <2>2 DEF Sign, Goes
    <3>3. l.pc = "exchange" /\ l.reply = load[s].reply
      BY <1>0 DEF Load
    <3> HIDE DEF l
    <3>4. \A q \in Slots : /\ load'[q].pc \in Holding <=> load[q].pc \in Holding
                           /\ load[q].pc \in Holding => load'[q].token = load[q].token
                           /\ load'[q].reply = load[q].reply
      BY <1>0, <3>2, <3>3 DEF Holding
    <3>5. Tokens' = Tokens /\ Shown' = Shown
      BY <3>1, <3>4 DEF Tokens, Shown
    <3>6. w \in Wallets
      BY <1>0, <2>2 DEF Load, Maybe
    <3>7. A!Sign(w)
      BY <2>2, <3>1, <3>5 DEF A!Sign
    <3> QED
      BY <3>6, <3>7 DEF A!Next
  <2> QED
    BY <1>6, <2>1, <2>2 DEF Sign
(* A token is issued to the account that signed.                           *)
<1>7. ASSUME NEW s \in Slots, Exchange(s) PROVE A!Next
  <2>1. CASE \E error \in {"retry", "reconnect"} : Fails(s, error)
    BY <2>1, FailsAccess
  <2>2. ASSUME NEW c \in SignInChallenge, c.signer = load[s].token,
               createSessionFromSignature(c) # NoWallet,
               Goes(s, "select", createSessionFromSignature(c)),
               session' = createSessionFromSignature(c), storage' = createSessionFromSignature(c),
               UNCHANGED <<screen, server, acts>>
        PROVE  A!Next
    <3> DEFINE w == load[s].token
    <3>1. createSessionFromSignature(c) = w /\ w \in Wallets
      BY <2>2 DEF createSessionFromSignature, issueSessionJwt, SignInChallenge
    <3>2. UNCHANGED <<page, flow, signed, profile, edits>>
      BY <2>2 DEF screen, server
    <3>3. w \in signed
      BY <3>1, ClientAssumption DEF Known
    <3> DEFINE l == [load[s] EXCEPT !.pc = "select", !.token = w]
    <3>4. load' = [load EXCEPT ![s] = l]
      BY <1>0, <2>2, <3>1 DEF Goes
    <3>5. l.token = w /\ l.reply = load[s].reply
      BY <1>0 DEF Load
    <3>6. session' = w /\ storage' = w
      BY <2>2, <3>1
    <3> HIDE DEF l, w
    <3>7. \A q \in Slots : /\ load'[q].pc \in Holding => load'[q].token \in Tokens \cup {w} \cup {NoWallet}
                           /\ load'[q].reply = load[q].reply
      BY <1>0, <3>4, <3>5, Holders
    <3>8. Tokens' \in SUBSET (Tokens \cup {w})
      BY <3>2, <3>6, <3>7, Holders, TokensFrom
    <3>9. Shown' = Shown
      BY <3>2, <3>7 DEF Shown
    <3>10. A!Issue(w)
      BY <3>2, <3>3, <3>8, <3>9 DEF A!Issue
    <3> QED
      BY <3>1, <3>10 DEF A!Next
  <2> QED
    BY <1>7, <2>1, <2>2 DEF Exchange
(* The state route, for the wallet of the token.                           *)
<1>8. ASSUME NEW s \in Slots, SelectProfile(s) PROVE A!Next
  <2>1. CASE Fails(s, "retry")
    BY <2>1, FailsAccess
  <2>2. ASSUME NEW found \in getSession(load[s].token) \ {NoWallet},
               IF profile[found] # "none" THEN Answer(s, "real", profile[found])
               ELSE Goes(s, "chain", found),
               UNCHANGED <<screen, session, storage, server, acts>>
        PROVE  A!Next
    <3>1. found = load[s].token /\ load[s].pc = "select"
      BY <1>8, <2>2, GetSession DEF SelectProfile
    <3>2. CASE profile[found] = "none"
      <4>1. found \in Tokens \cup {NoWallet}
        BY <3>1, Holders DEF Holding
      <4> QED
        BY <2>2, <3>2, <4>1, GoesHeld, LoadMoves
    <3>3. CASE profile[found] # "none"
      <4>1. UNCHANGED <<signed, profile, edits>>
        BY <2>2 DEF server
      <4>2. /\ Tokens' \in SUBSET Tokens /\ Shown' \in SUBSET (Shown \cup {found})
            /\ found \in Tokens /\ found \in Wallets
        BY <2>2, <3>1, <3>3, <4>1, AnswerAccess
      <4>3. A!Read(found)
        BY <3>3, <4>1, <4>2 DEF A!Read
      <4> QED
        BY <4>2, <4>3 DEF A!Next
    <3> QED
      BY <3>2, <3>3
  <2> QED
    BY <1>8, <2>1, <2>2 DEF SelectProfile
<1>9. ASSUME NEW s \in Slots, ReadChain(s) PROVE A!Next
  <2>1. load[s].token \in Tokens \cup {NoWallet}
    BY <1>9, Holders DEF ReadChain, Holding
  <2> QED
    BY <1>2, <1>9, <2>1 DEF ReadChain
(* The insert makes the row, or finds that another request has.            *)
<1>10. ASSUME NEW s \in Slots, InsertProfile(s) PROVE A!Next
  <2> DEFINE w == load[s].token
  <2>1. /\ load[s].pc = "insert" /\ Answer(s, "zero", "safe")
        /\ profile' = [profile EXCEPT ![w] = Inserted(profile[w])]
        /\ UNCHANGED <<screen, session, storage, signed, edits>>
    BY <1>10 DEF InsertProfile
  <2>2. /\ Tokens' \in SUBSET Tokens /\ Shown' \in SUBSET (Shown \cup {w})
        /\ w \in Tokens /\ w \in Wallets
    BY <2>1, AnswerAccess
  <2> HIDE DEF w
  <2>3. CASE profile[w] = "none"
    <3>1. profile' = [profile EXCEPT ![w] = "safe"]
      BY <2>1, <2>3 DEF Inserted
    <3>2. A!Create(w)
      BY <2>1, <2>2, <2>3, <3>1 DEF A!Create
    <3> QED
      BY <2>2, <3>2 DEF A!Next
  <2>4. CASE profile[w] # "none"
    <3>1. profile' = profile
      BY <1>0, <2>1, <2>2, <2>4 DEF Inserted
    <3>2. A!Read(w)
      BY <2>1, <2>2, <2>4, <3>1 DEF A!Read
    <3> QED
      BY <2>2, <3>2 DEF A!Next
  <2> QED
    BY <2>3, <2>4
<1>11. ASSUME NEW s \in Slots, applyProtocolState(s) PROVE A!Next
  <2>1. CASE Fails(s, "retry")
    BY <2>1, FailsAccess
  <2>2. CASE /\ page' = Applied(load[s].reply) /\ Ended(s)
             /\ UNCHANGED <<wallet, network, session, storage, timer, leaving, flow, server, acts>>
    <3>1. page'.data.of = load[s].reply.of
      BY <2>2 DEF Applied
    <3>2. UNCHANGED <<session, storage, flow, signed, profile, edits>>
      BY <2>2 DEF server
    <3> QED
      BY <2>2, <3>1, <3>2, EndedHeld, Holders, ForgetStep
  <2> QED
    BY <1>11, <2>1, <2>2 DEF applyProtocolState
(* The loads that begin.                                                   *)
<1>12. ASSUME refreshVault \/ TimerFires PROVE A!Next
  <2>1. PICK s \in Slots : loadData(s, Current)
    BY <1>12 DEF refreshVault, TimerFires
  <2>2. Current.session = session /\ flow' = flow
    BY <1>12 DEF Current, refreshVault, TimerFires
  <2> QED
    BY <2>1, <2>2, Holders, LoadDataAccess
<1>13. ASSUME EndFlow PROVE A!Next
  <2>1. PICK s \in Slots : loadData(s, flow)
    BY <1>13 DEF EndFlow
  <2>2. flow'.session = NoWallet
    BY <1>13 DEF EndFlow, NoFlow
  <2> QED
    BY <2>1, <2>2, Holders, LoadDataAccess
(* The steps of the user that begin none.                                  *)
<1>14. ASSUME \/ \E w \in Wallets : Connect(w)
              \/ \E n \in Networks : setNetwork(n)
              \/ Logout \/ disconnectWallet \/ LoggedOut \/ BeginFlow
       PROVE  A!Next
  <2>1. /\ UNCHANGED <<load, signed, profile, edits>>
        /\ session' \in {session, NoWallet} /\ storage' \in {storage, NoWallet}
        /\ flow' \in {flow, Current} /\ page' \in {page, Wiped, DefaultPage}
    BY <1>14 DEF Connect, setNetwork, Logout, disconnectWallet, LoggedOut, BeginFlow, server
  <2>2. Current.session = session
    BY DEF Current
  <2>3. Wiped.data = NoData /\ DefaultPage.data = NoData
    BY <1>0 DEF Wiped, DefaultPage, Page
  <2> QED
    BY <1>0, <2>1, <2>2, <2>3, Holders, ForgetStep
<1>15. ASSUME Reload PROVE A!Next
  <2>1. /\ UNCHANGED <<storage, signed, profile, edits>> /\ session' = NoWallet
        /\ flow'.session = NoWallet /\ page'.data.of = NoWallet
    BY <1>0, <1>15 DEF Reload, server, NoFlow, DefaultPage
  <2>2. load' = [s \in Slots |-> IF load[s].pc \in {"select", "chain", "insert"}
                                 THEN [load[s] EXCEPT !.wallet = NoWallet] ELSE NoLoad]
    BY <1>15 DEF Reload
  <2>3. \A s \in Slots : /\ [load[s] EXCEPT !.wallet = NoWallet].token = load[s].token
                         /\ [load[s] EXCEPT !.wallet = NoWallet].reply = load[s].reply
                         /\ [load[s] EXCEPT !.wallet = NoWallet].pc = load[s].pc
    BY <1>0 DEF Load
  <2>4. NoLoad.token = NoWallet /\ NoLoad.reply = NoData
    BY DEF NoLoad
  <2>5. \A q \in Slots : /\ load'[q].pc \in Holding => load'[q].token \in Tokens \cup {NoWallet}
                         /\ load'[q].reply.of \in Shown \cup {NoWallet}
    BY <1>0, <2>2, <2>3, <2>4, Holders
  <2> QED
    BY <2>1, <2>5, Holders, ForgetStep
(* A change is sent with the session of the store, or not at all.          *)
<1>16. ASSUME NEW m \in Modes, updateVault(m)
       PROVE  A!Next \/ UNCHANGED <<signed, Tokens, Shown, profile, edits>>
  <2>1. /\ UNCHANGED <<session, storage, flow, load, profile, signed>>
        /\ edits' = edits \cup Sent(m) /\ page' = [page EXCEPT !.data.mode = m]
    BY <1>16 DEF updateVault
  <2>2. page'.data.of = page.data.of
    BY <1>0, <2>1 DEF Page, Data
  <2>3. Tokens' = Tokens /\ Shown' = Shown
    BY <2>1, <2>2 DEF Tokens, Shown
  <2>4. CASE session = NoWallet
    <3>1. edits' = edits
      BY <2>1, <2>4 DEF Sent
    <3> QED
      BY <2>1, <2>3, <3>1
  <2>5. CASE session # NoWallet
    <3>1. edits' = edits \cup {[wallet |-> session, mode |-> m]}
      BY <2>1, <2>5 DEF Sent
    <3>2. session \in Tokens /\ session \in Wallets
      BY <2>5 DEF Tokens, ClientInv, ClientTypeOK, Maybe
    <3>3. A!Send(session, m)
      BY <2>1, <2>3, <3>1, <3>2 DEF A!Send
    <3> QED
      BY <3>2, <3>3 DEF A!Next
  <2> QED
    BY <2>4, <2>5
(* The vault route makes the change, loses it, or finds no row.            *)
<1>17. ASSUME NEW e \in edits, patchVault(e) PROVE A!Next
  <2>1. UNCHANGED <<page, flow, session, storage, load, signed>> /\ edits' = edits \ {e}
    BY <1>17 DEF patchVault, screen
  <2>2. Tokens' = Tokens /\ Shown' = Shown
    BY <2>1 DEF Tokens, Shown
  <2>3. \/ profile' = profile
        \/ profile' = [profile EXCEPT ![e.wallet] = IF profile[e.wallet] = "none" THEN profile[e.wallet]
                                                    ELSE e.mode]
    BY <1>17 DEF patchVault
  <2>4. e.wallet \in Wallets
    BY <1>0
  <2>5. \/ profile' = profile
        \/ profile[e.wallet] # "none" /\ profile' = [profile EXCEPT ![e.wallet] = e.mode]
    BY <1>0, <2>3, <2>4
  <2>6. A!Land(e)
    BY <2>1, <2>2, <2>5 DEF A!Land
  <2> QED
    BY <2>6 DEF A!Next
<1>18. CASE User \/ TimerFires \/ LoggedOut \/ EndFlow
  BY <1>12, <1>13, <1>14, <1>15, <1>16, <1>18 DEF User
<1>19. CASE \E s \in Slots : LoadStep(s) \/ Sign(s)
  BY <1>3, <1>4, <1>5, <1>6, <1>7, <1>8, <1>9, <1>10, <1>11, <1>19 DEF LoadStep
<1> QED
  BY <1>1, <1>17, <1>18, <1>19 DEF Next

(* Before anything is loaded there is at most the token in localStorage.   *)
LEMMA AccessInit == Init => A!Init
<1> SUFFICES ASSUME Init PROVE A!Init
  OBVIOUS
<1>1. /\ NoFlow.session = NoWallet /\ NoLoad.reply.of = NoWallet /\ NoLoad.pc = "idle"
      /\ DefaultPage.data.of = NoWallet
  BY DEF NoFlow, NoLoad, NoData, DefaultPage
<1>2. session = NoWallet /\ flow = NoFlow /\ page = DefaultPage /\ \A s \in Slots : load[s] = NoLoad
  BY DEF Init
<1>3. Tokens = {storage} \ {NoWallet}
  BY <1>1, <1>2 DEF Tokens, Holding
<1>4. Shown = {}
  BY <1>1, <1>2 DEF Shown
<1> QED
  BY <1>3, <1>4 DEF Init, A!Init, Maybe

(* What Access promises of itself: each step needs a wallet that signed.   *)
LEMMA OnlyAfterSigningStep ==
  ClientTypeOK /\ A!OnlyAfterSigning /\ [A!Next]_(A!accessVars) => A!OnlyAfterSigning'
<1> SUFFICES ASSUME ClientTypeOK, A!OnlyAfterSigning, [A!Next]_(A!accessVars)
             PROVE  A!OnlyAfterSigning'
  OBVIOUS
<1>0. profile \in [Wallets -> Modes \cup {"none"}]
  BY DEF ClientTypeOK
<1>1. CASE A!accessVars' = A!accessVars
  BY <1>1 DEF A!accessVars, A!OnlyAfterSigning
<1>2. ASSUME NEW w \in Wallets, A!Sign(w) \/ A!Issue(w) \/ A!Read(w) PROVE A!OnlyAfterSigning'
  BY <1>2 DEF A!Sign, A!Issue, A!Read, A!OnlyAfterSigning
<1>3. ASSUME NEW w \in Wallets, A!Create(w) PROVE A!OnlyAfterSigning'
  <2>1. \A x \in Wallets : profile'[x] # "none" => profile[x] # "none" \/ x = w
    BY <1>0, <1>3 DEF A!Create
  <2> QED
    BY <1>3, <2>1 DEF A!Create, A!OnlyAfterSigning
<1>4. ASSUME NEW w \in Wallets, NEW m \in Modes, A!Send(w, m) PROVE A!OnlyAfterSigning'
  BY <1>4 DEF A!Send, A!OnlyAfterSigning
<1>5. ASSUME NEW c \in edits, A!Land(c) PROVE A!OnlyAfterSigning'
  <2>1. CASE profile' = profile
    BY <1>5, <2>1 DEF A!Land, A!OnlyAfterSigning
  <2>2. CASE profile[c.wallet] # "none" /\ profile' = [profile EXCEPT ![c.wallet] = c.mode]
    <3>1. \A x \in Wallets : profile'[x] # "none" => profile[x] # "none"
      BY <1>0, <2>2
    <3> QED
      BY <1>5, <3>1 DEF A!Land, A!OnlyAfterSigning
  <2> QED
    BY <1>5, <2>1, <2>2 DEF A!Land
<1>6. ASSUME A!Forget PROVE A!OnlyAfterSigning'
  BY <1>6 DEF A!Forget, A!OnlyAfterSigning
<1> QED
  BY <1>1, <1>2, <1>3, <1>4, <1>5, <1>6 DEF A!Next

-----------------------------------------------------------------------------

(* Every variable of the browser and of the server stays within its type,  *)
(* whatever loads, network switches and answers overlap.                   *)
THEOREM ClientIsTyped == Spec => []ClientTypeOK
BY ClientInvHolds, PTL DEF ClientInv

(* No load goes on with the token of another wallet, and there is no token *)
(* and no patch of a wallet that has not signed a challenge.               *)
THEOREM LoadsUseTheirOwnToken == Spec => []OwnToken
<1>1. ClientInv /\ Known => OwnToken
  <2> SUFFICES ASSUME ClientInv, Known PROVE OwnToken
    OBVIOUS
  <2>1. \A s \in Slots : Tied(load[s])
    BY DEF ClientInv
  <2>2. \A s \in Slots :
          load[s].wallet # NoWallet /\ load[s].pc \in Holding => load[s].token = load[s].wallet
    BY <2>1 DEF Tied
  <2> QED
    BY <2>2 DEF OwnToken, Known, Holding
<1> QED
  BY <1>1, ClientInvHolds, KnownHolds, PTL

(* An error and treasury data are never on screen together.                *)
THEOREM ErrorsStandAlone == Spec => []ErrorShowsNothing
BY ClientInvHolds, PTL DEF ClientInv

(* A row of wallet_profiles, once there, changes only by a patch its owner *)
(* sent: the insert of a request that awaited the chain resets nothing.    *)
THEOREM ProfilesAreInsertedOnce == Spec => ProfileInsertedOnce
<1> DEFINE Kept == \A w \in Wallets :
                     profile[w] # "none" /\ profile'[w] # profile[w]
                       => [wallet |-> w, mode |-> profile'[w]] \in edits
<1>1. ClientInv /\ [Next]_vars => Kept
  <2> SUFFICES ASSUME ClientInv, [Next]_vars PROVE Kept
    OBVIOUS
  <2>0. profile \in [Wallets -> Modes \cup {"none"}] /\ edits \subseteq [wallet : Wallets, mode : Modes]
    BY DEF ClientInv, ClientTypeOK
  <2>1. CASE profile' = profile
    BY <2>1
  <2>2. ASSUME NEW s \in Slots, InsertProfile(s) PROVE Kept
    <3>1. profile' = [profile EXCEPT ![load[s].token] = Inserted(profile[load[s].token])]
      BY <2>2 DEF InsertProfile
    <3>2. \A w \in Wallets : profile[w] # "none" => profile'[w] = profile[w]
      BY <2>0, <3>1 DEF Inserted
    <3> QED
      BY <3>2
  <2>3. ASSUME NEW e \in edits, patchVault(e) PROVE Kept
    <3>1. e \in [wallet : Wallets, mode : Modes] /\ e = [wallet |-> e.wallet, mode |-> e.mode]
      BY <2>0
    <3>2. \/ profile' = profile
          \/ profile' = [profile EXCEPT ![e.wallet] = IF profile[e.wallet] = "none" THEN profile[e.wallet]
                                                      ELSE e.mode]
      BY <2>3 DEF patchVault
    <3>3. \A w \in Wallets : profile[w] # "none" /\ profile'[w] # profile[w]
                               => w = e.wallet /\ profile'[w] = e.mode
      BY <2>0, <3>1, <3>2
    <3> QED
      BY <3>1, <3>3
  <2>4. \/ profile' = profile
        \/ \E s \in Slots : InsertProfile(s)
        \/ \E e \in edits : patchVault(e)
    BY DEF Next, User, LoadStep, vars, server, Connect, Logout, disconnectWallet, refreshVault, BeginFlow,
           Reload, setNetwork, updateVault, TimerFires, LoggedOut, EndFlow, loadData, CheckMemory,
           CheckStored, FetchNonce, Sign, Exchange, SelectProfile, ReadChain, applyProtocolState,
           Proceeds, Fails
  <2> QED
    BY <2>1, <2>2, <2>3, <2>4
<1> QED
  BY <1>1, ClientInvHolds, PTL DEF Spec, ProfileInsertedOnce

(* While the pages load, or a connected wallet is kept behind the gate's   *)
(* spinner, the debounce, a logout or a load that will report to the page  *)
(* is under way: no overlap of loads, failures and the user's acts leaves  *)
(* a spinner that nothing can end.                                         *)
THEOREM SpinnersAreAwaited == Spec => []SpinnerIsAwaited
<1>1. Init => Waited
  <2> SUFFICES ASSUME Init PROVE Waited
    OBVIOUS
  <2>1. Awaited /\ flow = NoFlow
    BY DEF Init, Awaited
  <2> QED
    BY <2>1 DEF Waited
<1>2. Waited => SpinnerIsAwaited
  BY GateOpens DEF Waited, SpinnerIsAwaited
<1> QED
  BY <1>1, <1>2, ClientInvHolds, WaitedStep, PTL DEF Spec

(* The client and the routes it calls implement Access: whatever overlaps, *)
(* there are tokens only of wallets that signed, data and rows only of     *)
(* wallets with a token, and rows change only by what their wallets sent.  *)
THEOREM ClientControlsAccess == Spec => ImplementsAccess
BY AccessInit, AccessStep, ClientInvHolds, KnownHolds, PTL DEF Spec, ImplementsAccess, A!Spec

(* So what is on screen or in an answer under way, and what the server has *)
(* of a wallet, is there because the wallet's account signed: a property   *)
(* of Access, which the client inherits.                                   *)
THEOREM ShownOnlyAfterSigning == Spec => []ShownAfterSigning
<1>1. A!Init => A!OnlyAfterSigning
  BY DEF A!Init, A!OnlyAfterSigning
<1> QED
  BY <1>1, OnlyAfterSigningStep, ClientControlsAccess, ClientIsTyped, PTL
     DEF ImplementsAccess, A!Spec, ShownAfterSigning
=============================================================================
