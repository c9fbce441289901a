--------------------------- MODULE MCWalletPages ---------------------------
(***************************************************************************)
(* An instance of WalletPages for TLC: a bill entered by hand that comes   *)
(* near, a detected pattern that gets overdue and is above one of the      *)
(* caps, one that was seen too seldom and is still out of the window, and  *)
(* a standing event.  The settings include a reserve below the healthy     *)
(* eight percent, targets that add up to more than a whole, and ones the   *)
(* page refuses.                                                           *)
(***************************************************************************)
EXTENDS WalletPages

CONSTANTS bill, rent, hunch, event

Obligations ==
  [i \in {bill, rent, hunch, event} |->
    CASE i = bill  -> [source |-> "manual", due |-> 9, confidence |-> 0, amount |-> 2100,
                       recurring |-> FALSE, confirmed |-> FALSE]
      [] i = rent  -> [source |-> "pattern", due |-> 1, confidence |-> 90, amount |-> 200000,
                       recurring |-> TRUE, confirmed |-> FALSE]
      [] i = hunch -> [source |-> "pattern", due |-> 25, confidence |-> 60, amount |-> 500,
                       recurring |-> TRUE, confirmed |-> FALSE]
      [] i = event -> [source |-> "event", due |-> 18, confidence |-> 98, amount |-> 1200,
                       recurring |-> TRUE, confirmed |-> FALSE]]

(* 100 dollars under DEFAULT_ALLOCATION                                    *)
Hundred == [total |-> 10000, yield |-> 6000, reserve |-> 2000, liquid |-> 1500, payments |-> 500,
            cap |-> 500000,
            alloc |-> [yield |-> 60, reserve |-> 20, liquid |-> 15, payments |-> 5]]

Typed == {[reserve |-> 50, yield |-> 45, cap |-> 100000],
          [reserve |-> 5, yield |-> 60, cap |-> 500000],
          [reserve |-> 50, yield |-> 46, cap |-> 500000]}
=============================================================================
