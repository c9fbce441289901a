----------------------------- MODULE MCAdvisors -----------------------------
(***************************************************************************)
(* An instance of Advisors for TLC: a statement with a line that cannot be *)
(* read, one that recurs twice and more rows than are read; and a statement*)
(* without a readable row.                                                 *)
(***************************************************************************)
EXTENDS Advisors

Entry(cats, words, amount) ==
  [readable |-> TRUE, cats |-> cats, words |-> words, amount |-> amount]
Broken == [Entry({}, {}, 0) EXCEPT !.readable = FALSE]

TwoFiles ==
  [long  |-> << Broken,
                Entry({"contractor", "payroll"}, {}, 10100), Entry({"payroll"}, {}, 9900), Broken,
                Entry({"fee", "transfer"}, {"monthly", "annual"}, 2499),
                Entry({}, {}, 700), Entry({"revenue"}, {}, 5000) >>,
   empty |-> << Broken, Broken >>]
=============================================================================
