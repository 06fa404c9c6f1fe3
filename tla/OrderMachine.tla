---------------------------- MODULE OrderMachine ----------------------------
(***************************************************************************)
(* The order state machine (apps/order/src/state.ts): the legal            *)
(* transitions of an order's status, and as a specification: the status of *)
(* an order changes along them and in no other way.                        *)
(***************************************************************************)
CONSTANT Initial      \* statuses an order may be created with
VARIABLE status

OrderStatus == {"PENDING_PAYMENT", "CONFIRMED", "ACCEPTED", "PREPARING", "READY_FOR_PICKUP",
                "WAITING_FOR_RIDER", "RIDER_ASSIGNED", "RIDER_EN_ROUTE_TO_VENDOR",
                "RIDER_AT_VENDOR", "PICKED_UP", "OUT_FOR_DELIVERY", "OTP_VERIFIED",
                "DELIVERED", "REJECTED", "CANCELLED", "FAILED_DELIVERY", "AWAITING_RECIPIENT"}

\* TRANSITIONS, the table.
TRANSITIONS == [s \in OrderStatus |->
  CASE s = "AWAITING_RECIPIENT" -> {"PENDING_PAYMENT", "CONFIRMED", "CANCELLED"}
    [] s = "PENDING_PAYMENT"    -> {"CONFIRMED", "CANCELLED", "AWAITING_RECIPIENT"}
    [] s = "CONFIRMED"          -> {"ACCEPTED", "CANCELLED", "REJECTED", "READY_FOR_PICKUP"}
    [] s = "ACCEPTED"           -> {"PREPARING", "CANCELLED"}
    [] s = "PREPARING"          -> {"READY_FOR_PICKUP", "CANCELLED"}
    [] s = "READY_FOR_PICKUP"   -> {"RIDER_ASSIGNED", "WAITING_FOR_RIDER", "CANCELLED",
                                    "FAILED_DELIVERY"}
    [] s = "RIDER_ASSIGNED"     -> {"RIDER_EN_ROUTE_TO_VENDOR", "READY_FOR_PICKUP",
                                    "WAITING_FOR_RIDER", "CANCELLED"}
    [] s = "RIDER_EN_ROUTE_TO_VENDOR" -> {"RIDER_AT_VENDOR", "READY_FOR_PICKUP", "CANCELLED"}
    [] s = "RIDER_AT_VENDOR"    -> {"PICKED_UP", "READY_FOR_PICKUP", "CANCELLED"}
    [] s = "PICKED_UP"          -> {"OUT_FOR_DELIVERY", "FAILED_DELIVERY"}
    [] s = "OUT_FOR_DELIVERY"   -> {"OTP_VERIFIED", "FAILED_DELIVERY", "READY_FOR_PICKUP"}
    [] s = "OTP_VERIFIED"       -> {"DELIVERED"}
    [] s = "WAITING_FOR_RIDER"  -> {"RIDER_ASSIGNED", "CANCELLED"}
    [] s = "FAILED_DELIVERY"    -> {"CANCELLED"}
    [] OTHER                    -> {}]

canTransition(from, to) == to \in TRANSITIONS[from]

\* The statuses confirmOtp steps through, in one transaction, to DELIVERED.
OnTheWay == {"RIDER_ASSIGNED", "RIDER_EN_ROUTE_TO_VENDOR", "RIDER_AT_VENDOR", "PICKED_UP",
             "OUT_FOR_DELIVERY"}

Init == status \in Initial

Move    == \E to \in TRANSITIONS[status] : status' = to
Deliver == status \in OnTheWay /\ status' = "DELIVERED"

Next == Move \/ Deliver
Spec == Init /\ [][Next]_status
=============================================================================
