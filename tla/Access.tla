------------------------------- MODULE Access -------------------------------
(***************************************************************************)
(* What signing in promises, with nothing of loads, renders, storage and   *)
(* requests: there are tokens of a wallet only after its account signed a  *)
(* challenge; only with a token is a wallet's row created, read or sent a  *)
(* change; and a row changes by nothing but the changes sent to it.        *)
(* Anything the browser holds may be lost at any time.                     *)
(***************************************************************************)
CONSTANTS
  Wallet,    \* the wallets
  Mode,      \* what a row says
  Absent,    \* what it says where there is none
  Fresh      \* what it says when it is made

VARIABLES
  signed,    \* the wallets whose account has signed a challenge
  tokens,    \* the wallets of which the browser has a token somewhere
  shown,     \* the wallets whose data the browser has, on screen or not
  rows,      \* the row of each wallet
  changes    \* the changes on their way to the rows

accessVars == <<signed, tokens, shown, rows, changes>>

Init ==
  /\ signed \in SUBSET Wallet /\ tokens = signed /\ shown = {}
  /\ rows = [w \in Wallet |-> Absent] /\ changes = {}

Sign(w) ==
  /\ signed' = signed \cup {w}
  /\ UNCHANGED <<tokens, shown, rows, changes>>

(* A new token may take the place of others, and data that of other data.  *)
Issue(w) ==
  /\ w \in signed
  /\ tokens' \in SUBSET (tokens \cup {w})
  /\ UNCHANGED <<signed, shown, rows, changes>>

Read(w) ==
  /\ w \in tokens /\ rows[w] # Absent
  /\ tokens' \in SUBSET tokens /\ shown' \in SUBSET (shown \cup {w})
  /\ UNCHANGED <<signed, rows, changes>>

Create(w) ==
  /\ w \in tokens /\ rows[w] = Absent
  /\ rows' = [rows EXCEPT ![w] = Fresh]
  /\ tokens' \in SUBSET tokens /\ shown' \in SUBSET (shown \cup {w})
  /\ UNCHANGED <<signed, changes>>

Send(w, m) ==
  /\ w \in tokens
  /\ changes' = changes \cup {[wallet |-> w, mode |-> m]}
  /\ UNCHANGED <<signed, tokens, shown, rows>>

(* A change is made, or lost.  It makes no row.                            *)
Land(c) ==
  /\ changes' = changes \ {c}
  /\ \/ UNCHANGED rows
     \/ /\ rows[c.wallet] # Absent
        /\ rows' = [rows EXCEPT ![c.wallet] = c.mode]
  /\ UNCHANGED <<signed, tokens, shown>>

Forget ==
  /\ tokens' \in SUBSET tokens /\ shown' \in SUBSET shown
  /\ UNCHANGED <<signed, rows, changes>>

Next ==
  \/ \E w \in Wallet : Sign(w) \/ Issue(w) \/ Read(w) \/ Create(w)
  \/ \E w \in Wallet, m \in Mode : Send(w, m)
  \/ \E c \in changes : Land(c)
  \/ Forget

Spec == Init /\ [][Next]_accessVars

-----------------------------------------------------------------------------

(* Whatever there is of a wallet, here or at the server, is there because  *)
(* its account signed.                                                     *)
OnlyAfterSigning ==
  /\ tokens \cup shown \cup {c.wallet : c \in changes} \subseteq signed
  /\ \A w \in Wallet : rows[w] # Absent => w \in signed
=============================================================================
