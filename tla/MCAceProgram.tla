---------------------------- MODULE MCAceProgram ----------------------------
(***************************************************************************)
(* Instances of AceProgram for TLC.                                        *)
(***************************************************************************)
EXTENDS AceEscrow

CONSTANTS alice, bob

(* Percentages of yield, reserve, liquid and payments.                     *)
Alloc(y, r, l, p) == [yield |-> y, reserve |-> r, liquid |-> l, payments |-> p]

(* One owner with a funded wallet, one payee who is also the admin.        *)
OneOwnerLamports == [w \in {alice, bob} |-> IF w = alice THEN 14 ELSE 1]
OneOwnerRecipients == {bob}
BalancedAllocations == {Alloc(10, 20, 30, 40), Alloc(0, 0, 100, 0)}
(* Two owners who pay each other's vaults, their own and each other.       *)
TwoOwnersLamports == [w \in {alice, bob} |-> IF w = alice THEN 8 ELSE 5]
TwoOwnersRecipients == {bob, VaultPda(alice), VaultPda(bob)}
TwoOwnersAllocations == {Alloc(0, 50, 0, 50)}
(* Products of amounts and percentages beyond U64_MAX, reserve ratios that *)
(* saturate.                                                               *)
EdgeLamports == [w \in {alice, bob} |-> IF w = alice THEN 12 ELSE 1]
EdgeAllocations == {Alloc(0, 25, 25, 50), Alloc(0, 25, 35, 40)}
=============================================================================
