---------------------------- MODULE ClientAccess ----------------------------
(***************************************************************************)
(* The client and its part of the server implement Access.  The tokens are *)
(* those in memory, in localStorage, captured by a flow and held by loads, *)
(* the requests of pages that are gone among them; between the prompt and  *)
(* the exchange a load holds a signature and no token.  What is shown is   *)
(* what is on screen and what the answers not yet applied bring.           *)
(***************************************************************************)
EXTENDS Client

(* From where on a load holds a token.                                     *)
Holding == {"memory", "stored", "select", "chain", "insert", "answered"}

Tokens ==
  ({session, storage, flow.session} \cup {load[s].token : s \in {q \in Slots : load[q].pc \in Holding}})
    \ {NoWallet}
Shown == ({page.data.of} \cup {load[s].reply.of : s \in Slots}) \ {NoWallet}

A == INSTANCE Access WITH
       Wallet <- Wallets, Mode <- Modes, Absent <- "none", Fresh <- "safe",
       signed <- signed, tokens <- Tokens, shown <- Shown, rows <- profile, changes <- edits

(* Every behaviour of loads that overlap, of accounts that change, pages   *)
(* that are reloaded and requests that outlive them is one of Access: no   *)
(* token, no data and no change of a wallet that has not signed, and a row *)
(* changes by nothing but what its wallet sent.                            *)
ImplementsAccess == A!Spec

(* What is on screen, or about to be, and what the server has of a wallet  *)
(* is there because its account signed a challenge in this browser.        *)
ShownAfterSigning == A!OnlyAfterSigning
=============================================================================
