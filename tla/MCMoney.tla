------------------------------- MODULE MCMoney -------------------------------
(***************************************************************************)
(* One checkout of two orders, one of them an errand.  Each scope lets one *)
(* part of the story go deep: the charge, its capture and a tax review; a  *)
(* refund with a fault and two attempts; the same with a review; two       *)
(* refunds of one order; a refund while the charge is still coming in; the *)
(* reviews of both orders, one more than the replay reads.                 *)
(***************************************************************************)
EXTENDS LedgerPosting

CONSTANTS o1, o2, r1, r2, p1, p2

Orders == {o1, o2}
Errands == {o1}
Refunds == {r1, r2}
Runners == {p1, p2}
Sums == {2}

Within(paid, refunds, runners, tax, faults) ==
  [paid |-> paid, orders |-> {o1}, ends |-> {"delivered", "cancelled"}, refunds |-> refunds, runners |-> runners,
   tax |-> tax, cases |-> Cardinality(tax), faults |-> faults]
MoneyScopes == {
  Within(FALSE, {}, Runners, {o1}, 1),
  Within(TRUE, {r1}, Runners, {}, 1),
  Within(TRUE, {r1}, {p1}, {o1}, 1),
  [Within(TRUE, Refunds, {p1}, {}, 0) EXCEPT !.ends = {"delivered"}],
  Within(FALSE, {r1}, {p1}, {}, 0),
  [Within(TRUE, {}, {p1}, Orders, 0) EXCEPT !.orders = Orders]}

FairMoneySpec == MoneySpec /\ MoneyFairness
=============================================================================
