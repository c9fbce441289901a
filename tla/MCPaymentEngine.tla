-------------------------- MODULE MCPaymentEngine --------------------------
(***************************************************************************)
(* Instances of PaymentEngine for TLC: an ordinary bill, an urgent one     *)
(* that exceeds the reserve, and an x402 call made by the route, handled   *)
(* by two servers.                                                         *)
(***************************************************************************)
EXTENDS PaymentEngine

CONSTANTS next, fastify, r1, r2, bill, rent, agent

OneSlotEach == [r \in {r1, r2} |-> IF r = r1 THEN next ELSE fastify]

Billed(amount, priority) ==
  [amount |-> amount, kind |-> "bill", priority |-> priority,
   allowlisted |-> FALSE, maxSpend |-> 0]
Called(amount) ==
  [amount |-> amount, kind |-> "x402", priority |-> "high",
   allowlisted |-> TRUE, maxSpend |-> 75]
BillsAndCall ==
  [p \in {bill, rent, agent} |->
     CASE p = bill  -> Billed(3, "normal")
       [] p = rent  -> Billed(5, "high")
       [] p = agent -> Called(2)]

(* The servers run the same code: exchanging them and their slots together *)
(* is a symmetry.                                                          *)
Swapped ==
  [x \in {next, fastify, r1, r2} |->
     CASE x = next -> fastify [] x = fastify -> next [] x = r1 -> r2 [] x = r2 -> r1]
EitherServer == {Swapped}

(* DEFAULT_ALLOCATION                                                      *)
DefaultAllocation == [yield |-> 60, reserve |-> 20, liquid |-> 15, payments |-> 5]
=============================================================================
