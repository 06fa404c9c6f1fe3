----------------------------- MODULE MCCheckout -----------------------------
(***************************************************************************)
(* The checkout of a cart, and the catalog's counters and the ledger's     *)
(* customer credit that it draws on, in one run.  CheckoutSaga takes a     *)
(* call to the catalog or the ledger as one step; CatalogStock and         *)
(* CustomerMoney have their statements, so each behaviour is one of the    *)
(* three, chosen in the first state.  The baskets: two requests for one    *)
(* discounted order, paid in part or in full by credit, which only they    *)
(* cancel; one request for such an order, ended by others meanwhile, with  *)
(* two faults; and one for that and one paid in cash.  The stories of the  *)
(* customer's money each let a few kinds of work meet.                     *)
(***************************************************************************)
EXTENDS CheckoutSaga, CatalogStock, CustomerMoney

CONSTANTS q1, q2, k1, v1, v2, c1, c2, c3, c4, o1, o2, i1, i2, u1, u2, w1, w2, d1, d2, h1, h2

VARIABLE side  \* which of the three this behaviour is about

Requests == {q1, q2}
Keys == {k1}
Vendors == {v1, v2}
Baskets == {
  [vendors |-> {v1}, prepaid |-> {v1}, promoted |-> {v1}, wish |-> 1, requests |-> Requests, ended |-> {}],
  [vendors |-> {v1}, prepaid |-> {v1}, promoted |-> {v1}, wish |-> 1, requests |-> {q1}, ended |-> {v1}],
  [vendors |-> Vendors, prepaid |-> {v1}, promoted |-> Vendors, wish |-> 2, requests |-> {q1}, ended |-> Vendors]}
Callers == {c1, c2, c3, c4}
Buyers == {o1, o2}
Items == {i1, i2}
Quantities == [o \in Buyers |-> [i \in Items |-> IF o = o1 \/ i = i1 THEN 1 ELSE 0]]

Claims == {w1, w2}
Sales == {d1, d2}
Errands == {d2}
Clerks == {h1, h2}
Within(work, sales, steps, faults) == [work |-> work, sales |-> sales, steps |-> steps, faults |-> faults]
Stories == {
  Within({"claim", "qualify", "spend", "expire", "grant"}, {d1}, 4, 0),
  Within({"claim", "qualify", "expire"}, {d1}, 4, 1),
  Within({"claim", "qualify", "block"}, Sales, 4, 1),
  Within({"claim", "qualify", "dispute"}, {d1}, 5, 0),
  Within({"deliver", "redeem", "spend"}, Sales, 4, 0),
  Within({"deliver", "redeem", "spend"}, {d2}, 3, 1),
  Within({"dispute", "chargeback"}, {d1}, 6, 1)}

sides == <<sagaVars, catalogVars, creditVars, side>>

CheckoutInit ==
  /\ side \in {"checkout", "catalog", "credit"}
  /\ SagaInit /\ CatalogInit /\ CreditInit
  /\ (side # "checkout" \/ basket.requests = {q1}) => alike
  /\ side # "checkout" => basket.vendors = Vendors
  /\ side # "credit" => story.sales = Sales /\ story.steps = 4 /\ story.faults = 0
CheckoutNext ==
  \/ /\ side = "checkout" /\ SagaNext
     /\ request'[q2].at # "start" => request'[q1].at # "start"  \* the two are alike: q1 is the first
     /\ sagaFaults' <= IF basket.ended = {v1} THEN 2 ELSE 1
     /\ UNCHANGED <<catalogVars, creditVars, side>>
  \/ side = "catalog" /\ CatalogNext /\ UNCHANGED <<sagaVars, creditVars, side>>
  \/ side = "credit" /\ CreditNext /\ UNCHANGED <<sagaVars, catalogVars, side>>
CheckoutSpec == CheckoutInit /\ [][CheckoutNext]_sides /\ SagaFairness

=============================================================================
