------------------------------ MODULE MCClient ------------------------------
(***************************************************************************)
(* Instances of Client for TLC: two wallets, two networks and two loads at *)
(* a time.                                                                 *)
(***************************************************************************)
EXTENDS ClientAccess

CONSTANTS alice, bob, mainnet, devnet, one, two
=============================================================================
