----------------------------- MODULE MCTreasury -----------------------------
(***************************************************************************)
(* An instance of Treasury for TLC: alice sends the shop an unpriced      *)
(* token; exactly at the cut-off of a month dollars, which come with a     *)
(* refund of rent; more dollars; a dust of SOL; and she swaps SOL with     *)
(* bob, which is in both wallets' histories.                               *)
(***************************************************************************)
EXTENDS Treasury, Sequences

CONSTANTS alice, bob, shop, usdc, nft

Pays(from, to, amount) == [from |-> from, to |-> to, amount |-> amount]
Coins(from, to, mint, amount) == [from |-> from, to |-> to, mint |-> mint, amount |-> amount]
Tx(type, native, token) == [type |-> type, native |-> native, token |-> token]

MCRaw == <<
  Tx("transfer", <<>>, <<Coins(alice, shop, nft, 1)>>),
  Tx("transfer", <<Pays(shop, alice, 1)>>, <<Coins(alice, shop, nft, 30), Coins(alice, shop, usdc, 20)>>),
  Tx("transfer", <<>>, <<Coins(alice, shop, usdc, 9)>>),
  Tx("transfer", <<Pays(alice, shop, 1)>>, <<>>),
  Tx("swap", <<Pays(alice, bob, 1), Pays(alice, bob, 7)>>, <<>>)>>
MCTime == <<15, 40, 75, 80, 90>>
MCPrices == [m \in {usdc} |-> 1]
MCDays == [month |-> 30, all |-> 0]
MCBuckets == [month |-> [days |-> 6, bars |-> 5]]
=============================================================================
