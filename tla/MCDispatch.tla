----------------------------- MODULE MCDispatch -----------------------------
(***************************************************************************)
(* Two orders, two riders and two handlers.  Each scope lets one mix of    *)
(* moves go deep: what riders answer and admins do; answers and a fault;   *)
(* one rider asked for two orders; every kind of move of one rider, and    *)
(* with a fault; answers against releases, pickups and cancellations.  In  *)
(* two of them jobs are kept in one process, in the others by BullMQ.      *)
(***************************************************************************)
EXTENDS DispatchOffers

CONSTANTS o1, o2, d1, d2

Orders == {o1, o2}
Riders == {d1, d2}
Handlers == 1..2

Within(orders, riders, kinds, m, f, bullmq) ==
  [orders |-> orders, riders |-> riders, kinds |-> kinds, moves |-> m, faults |-> f, bullmq |-> bullmq]
Scopes == {
  Within({o1}, Riders, {"answer", "admin"}, 2, 0, FALSE),
  Within({o1}, Riders, {"answer"}, 1, 1, TRUE),
  Within(Orders, {d1}, {"answer"}, 2, 0, TRUE),
  Within({o1}, {d1}, Move, 3, 0, TRUE),
  Within({o1}, {d1}, Move, 2, 1, TRUE),
  Within({o1}, Riders, {"answer", "order", "task"}, 2, 0, FALSE)}

FairDispatchSpec == DispatchSpec /\ DispatchFairness
=============================================================================
