---------------------------- MODULE CheckoutSaga ----------------------------
(***************************************************************************)
(* The checkout of one cart (apps/cart/src/checkout.service.ts) behind the *)
(* idempotency keys of its requests (libs/core/src/idempotency.ts), and    *)
(* what it calls: orders, promotion, wallet credit and payment.            *)
(*                                                                         *)
(* checkout() calls four services in turn and then saves the cart.  Its    *)
(* transaction is the cart's alone: what the others have done stays done.  *)
(* Only a refused payment is compensated, by cancelling the orders.  A     *)
(* checkout is named by the request that makes it.                         *)
(*                                                                         *)
(* A call may fail without an effect ("error") or with one ("lost"); where *)
(* the code looks at the response only, a failure goes on, where fetch     *)
(* throws (a timeout, an open circuit) the checkout ends.                  *)
(*                                                                         *)
(* Not modelled: the validation of the cart before the orders are made,    *)
(* tips and fees, gifts (nothing is charged), and a second cart.  The      *)
(* catalog's side of a call is one step: CatalogStock has its statements.  *)
(***************************************************************************)
EXTENDS Integers, FiniteSets, Functions

CONSTANTS
  Request,     \* checkout requests of the customer
  Key,         \* idempotency keys
  None,        \* no key, no answer
  Vendor,      \* vendors; each in the cart is an order
  Basket,      \* what is bought: see BasketType
  Price, Discount, \* of each order
  Granted,     \* the customer's wallet credit
  SagaFault,   \* faults that may happen
  MaxSagaFaults \* bound: how many

\* what is bought and how, from which vendors; which requests there are; and,
\* as bounds, whose orders others may end
BasketType == [vendors : SUBSET Vendor, prepaid : SUBSET Vendor, promoted : SUBSET Vendor, wish : Nat,
               requests : SUBSET Request, ended : SUBSET Vendor]
SagaFaults == {"error", "lost", "throws", "dies"}

ASSUME SagaAssumption ==
  /\ Basket \subseteq BasketType /\ \A b \in Basket : b.prepaid \union b.promoted \subseteq b.vendors
  /\ IsFiniteSet(Request) /\ IsFiniteSet(Vendor) /\ None \notin Request \union Key
  /\ Price \in Nat /\ Discount \in Nat /\ Discount < Price /\ Granted \in Nat
  /\ SagaFault \subseteq SagaFaults /\ MaxSagaFaults \in Nat

VARIABLES
  basket,     \* what is bought, and which requests there are
  alike,      \* the requests have the same body
  keyRow,     \* idempotency_keys: status and stored answer
  request,    \* each request: its key, how far it is, what it knows
  cart,       \* status of the cart
  order,      \* each checkout's orders: status, and whether discounted
  saving,     \* <<order, status>> that a transition is about to save
  redemption, \* each order's redemption of the promotion, in the catalog
  balance,    \* wallet credit left
  spent,      \* the credit log: what each checkout spent
  charge,     \* the payment each checkout initialised
  trouble,    \* history: <<what went wrong, checkout>>
  sagaFaults  \* how many faults have happened

sagaVars == <<basket, alike, keyRow, request, cart, order, saving, redemption, balance, spent, charge,
              trouble, sagaFaults>>
orders == <<order, saving, redemption>>
services == <<cart, orders, balance, spent, charge>>

OrderId == Request \X Vendor
NoOrder == [status |-> "none", discounted |-> FALSE]
Open == {"PENDING_PAYMENT", "CONFIRMED"}
Handling == {"readCart", "createOrders", "redeem", "clearPromotion", "spendCredit", "saveCredit",
             "pay", "undo", "saveCart", "complete", "clear"}
NotBegun == [at |-> "start", key |-> None, polled |-> FALSE, answer |-> None,
             discounted |-> {}, todo |-> {}, now |-> {}, seen |-> 0]

SagaTypeOK ==
  /\ basket \in Basket /\ alike \in BOOLEAN
  /\ keyRow \in [Key -> [status : {"none", "in_flight", "completed"}, answer : Request \union {None}]]
  /\ request \in [Request -> [at : Handling \union {"start", "create", "poll", "answered", "refused", "failed", "died"},
                              key : Key \union {None}, polled : BOOLEAN, answer : Request \union {None},
                              discounted : SUBSET Vendor, todo : SUBSET Vendor, now : SUBSET Vendor,
                              seen : 0..Granted]]
  /\ cart \in {"ACTIVE", "CHECKED_OUT"}
  /\ order \in [OrderId -> [status : Open \union {"none", "CANCELLED"}, discounted : BOOLEAN]]
  /\ saving \subseteq OrderId \X {"CONFIRMED", "CANCELLED"}
  /\ redemption \in [OrderId -> {"none", "REDEEMED", "RELEASED"}]
  /\ balance \in 0..Granted /\ spent \in [Request -> 0..Granted] /\ charge \in [Request -> Nat]
  /\ sagaFaults \in 0..MaxSagaFaults

SagaInit ==
  /\ basket \in Basket /\ alike \in BOOLEAN
  /\ keyRow = [k \in Key |-> [status |-> "none", answer |-> None]]
  /\ request = [r \in Request |-> NotBegun]
  /\ cart = "ACTIVE"
  /\ order = [o \in OrderId |-> NoOrder] /\ saving = {}
  /\ redemption = [o \in OrderId |-> "none"]
  /\ balance = Granted
  /\ spent = [r \in Request |-> 0] /\ charge = [r \in Request |-> 0]
  /\ trouble = {} /\ sagaFaults = 0

Fails(f) == f \in SagaFault /\ sagaFaults < MaxSagaFaults /\ sagaFaults' = sagaFaults + 1
Notes(what, r) == trouble' = trouble \union {<<what, r>>}
At(r, where) == request[r].at = where
Goes(r, where) == request' = [request EXCEPT ![r].at = where]

(***************************************************************************)
(* intercept(): before and after the handler.                              *)
(***************************************************************************)
\* a request without a key goes straight to the handler
Arrive(r, k) ==
  /\ At(r, "start") /\ r \in basket.requests
  /\ request' = [request EXCEPT ![r] = [request[r] EXCEPT !.key = k, !.at =
       IF k = None THEN "readCart" ELSE
       CASE keyRow[k].status = "none"          -> "create"
         [] keyRow[k].status = "in_flight"     -> "poll"
         [] keyRow[k].status = "completed"     -> IF alike THEN "answered" ELSE "refused",
       !.answer = IF k # None /\ keyRow[k].status = "completed" /\ alike THEN keyRow[k].answer ELSE None]]
  /\ UNCHANGED <<basket, alike, keyRow, services, trouble, sagaFaults>>

\* Mutant: an insert that does nothing where the key is there.
InsertAnyway(k) == TRUE
\* the key is the table's primary key
Inserts(k) == keyRow[k].status = "none"
Inserted(k) == [keyRow EXCEPT ![k] = [status |-> "in_flight", answer |-> None]]

\* whatever the insert throws, the request is refused and its key left
CreateKey(r) == LET k == request[r].key IN
  /\ At(r, "create")
  /\ \/ Inserts(k) /\ keyRow' = Inserted(k) /\ Goes(r, "readCart") /\ UNCHANGED <<trouble, sagaFaults>>
     \/ ~Inserts(k) /\ Goes(r, "refused") /\ UNCHANGED <<keyRow, trouble, sagaFaults>>
     \/ /\ Inserts(k) /\ Fails("lost")
        /\ keyRow' = Inserted(k) /\ Goes(r, "refused") /\ Notes("stuck", r)
  /\ UNCHANGED <<basket, alike, services>>

\* a look ends the wait when the key is gone or completed; so does the last one
Poll(r) == LET row == keyRow[request[r].key] IN
  /\ At(r, "poll")
  /\ request' = [request EXCEPT ![r] = [request[r] EXCEPT !.polled = TRUE, !.answer = row.answer, !.at =
       IF row.status = "completed" THEN "answered" ELSE "refused"]]
  /\ UNCHANGED <<basket, alike, keyRow, services, trouble, sagaFaults>>

\* the response is stored before it is sent; when that fails the key is cleared
Complete(r) == LET k == request[r].key IN
  /\ At(r, "complete")
  /\ \/ /\ request' = [request EXCEPT ![r].at = "answered", ![r].answer = r]
        /\ keyRow' = IF k = None THEN keyRow
                     ELSE [keyRow EXCEPT ![k] = [status |-> "completed", answer |-> r]]
        /\ UNCHANGED <<trouble, sagaFaults>>
     \/ /\ k # None /\ Fails("throws")
        /\ Goes(r, "clear") /\ Notes("unrecorded", r) /\ UNCHANGED keyRow
  /\ UNCHANGED <<basket, alike, services>>

\* Mutant: a failed handler leaves its key.
ClearNothing(k) == keyRow
Cleared(k) == [keyRow EXCEPT ![k] = [status |-> "none", answer |-> None]]

\* clear().catch(() => undefined)
Clear(r) == LET k == request[r].key IN
  /\ At(r, "clear") /\ Goes(r, "failed")
  /\ \/ keyRow' = (IF k = None THEN keyRow ELSE Cleared(k)) /\ UNCHANGED <<trouble, sagaFaults>>
     \/ k # None /\ Fails("throws") /\ Notes("stuck", r) /\ UNCHANGED keyRow
  /\ UNCHANGED <<basket, alike, services>>

Dies(r) ==
  /\ request[r].at \in Handling /\ Fails("dies")
  /\ Goes(r, "died") /\ Notes("stuck", r)
  /\ UNCHANGED <<basket, alike, keyRow, services>>

(***************************************************************************)
(* checkout().                                                             *)
(***************************************************************************)
ReadCart(r) ==
  /\ At(r, "readCart")
  /\ Goes(r, IF cart = "ACTIVE" THEN "createOrders" ELSE "clear")
  /\ UNCHANGED <<basket, alike, keyRow, services, trouble, sagaFaults>>

\* a prepaid order waits for its payment, cash on delivery is confirmed at once
NewOrder(v) == [status |-> IF v \in basket.prepaid THEN "PENDING_PAYMENT" ELSE "CONFIRMED",
                discounted |-> v \in basket.promoted]
Ordered(r) == order' = [o \in OrderId |-> IF o[1] = r /\ o[2] \in basket.vendors THEN NewOrder(o[2]) ELSE order[o]]

CreateOrders(r) ==
  /\ At(r, "createOrders")
  /\ \/ /\ Ordered(r)
        /\ request' = [request EXCEPT ![r] = [request[r] EXCEPT !.at = "redeem", !.todo = basket.promoted,
                                                       !.discounted = basket.promoted]]
        /\ UNCHANGED <<trouble, sagaFaults>>
     \/ Fails("error") /\ Goes(r, "clear") /\ UNCHANGED <<order, trouble>>
     \/ Fails("lost") /\ Goes(r, "clear") /\ Ordered(r) /\ Notes("abandoned", r)
  /\ UNCHANGED <<basket, alike, keyRow, cart, saving, redemption, balance, spent, charge>>

\* Mutant: an order whose promotion could not be redeemed keeps the discount.
AfterRefusalNext(r, v) == [request[r] EXCEPT !.todo = @ \ {v}]
AfterRefusal(r, v) == [request[r] EXCEPT !.at = "clearPromotion", !.now = {v}]

\* redeemPromotion answers with the redemption there is; the catalog refuses
\* when the promotion is used up or has ended
RedeemPromotion(r, v) == LET o == <<r, v>> IN
  /\ At(r, "redeem") /\ v \in request[r].todo
  /\ \/ /\ redemption' = [redemption EXCEPT ![o] = "REDEEMED"]
        /\ request' = [request EXCEPT ![r].todo = @ \ {v}]
        /\ IF order[o].status \in Open /\ <<o, "CANCELLED">> \notin saving
           THEN UNCHANGED trouble ELSE Notes("late", r)
        /\ UNCHANGED sagaFaults
     \/ /\ request' = [request EXCEPT ![r] = AfterRefusal(r, v)]
        /\ UNCHANGED <<redemption, trouble, sagaFaults>>
     \/ /\ Fails("lost")
        /\ redemption' = [redemption EXCEPT ![o] = "REDEEMED"]
        /\ request' = [request EXCEPT ![r] = AfterRefusal(r, v)]
        /\ Notes("redeemLost", r)
  /\ UNCHANGED <<basket, alike, keyRow, cart, order, saving, balance, spent, charge>>

\* clearOrderPromotion swallows every failure; the order refuses once it is
\* neither open nor waiting.  Without an answer the price known stays discounted
ClearPromotion(r, v) ==
  LET o == <<r, v>>
      known(answered) == request' = [request EXCEPT ![r] = [request[r] EXCEPT !.at = "redeem", !.todo = @ \ {v}, !.now = {},
                           !.discounted = IF answered THEN @ \ {v} ELSE @]]
      full == order' = [order EXCEPT ![o].discounted = FALSE]
  IN
  /\ At(r, "clearPromotion") /\ v \in request[r].now
  /\ \/ order[o].status \in Open /\ full /\ known(TRUE) /\ UNCHANGED <<trouble, sagaFaults>>
     \/ order[o].status \notin Open /\ known(FALSE) /\ UNCHANGED <<order, trouble, sagaFaults>>
     \/ Fails("error") /\ known(FALSE) /\ Notes("unredeemed", r) /\ UNCHANGED order
     \/ order[o].status \in Open /\ Fails("lost") /\ full /\ known(FALSE) /\ Notes("underpriced", r)
  /\ UNCHANGED <<basket, alike, keyRow, cart, saving, redemption, balance, spent, charge>>

PriceOf(discounted) == IF discounted THEN Price - Discount ELSE Price
PrepaidTotal(r) == SumFunctionOnSet([v \in basket.prepaid |-> PriceOf(v \in request[r].discounted)], basket.prepaid)
Least(a, b) == IF a < b THEN a ELSE b

\* spendCustomerCredit reads the balance ...
SpendCredit(r) ==
  /\ At(r, "redeem") /\ request[r].todo = {}
  /\ request' = [request EXCEPT ![r].seen = balance,
       ![r].at = IF basket.prepaid # {} /\ basket.wish > 0 /\ balance > 0 THEN "saveCredit" ELSE "pay"]
  /\ UNCHANGED <<basket, alike, keyRow, services, trouble, sagaFaults>>

\* ... and writes it, with the log; a response that is not ok counts as nothing
\* applied, a fetch that throws ends the checkout
SaveCredit(r) ==
  LET applied == Least(Least(basket.wish, PrepaidTotal(r)), request[r].seen)
      spends == /\ balance' = request[r].seen - applied /\ spent' = [spent EXCEPT ![r] = applied]
      stale == IF balance # request[r].seen THEN {<<"overlapped", r>>} ELSE {}
      goes(where, known) == request' = [request EXCEPT ![r].at = where, ![r].seen = known]
  IN
  /\ At(r, "saveCredit")
  /\ \/ spends /\ goes("pay", applied) /\ trouble' = trouble \union stale /\ UNCHANGED sagaFaults
     \/ Fails("error") /\ goes("pay", 0) /\ UNCHANGED <<balance, spent, trouble>>
     \/ Fails("lost") /\ spends /\ goes("pay", 0) /\ trouble' = trouble \union stale \union {<<"overcharged", r>>}
     \/ Fails("throws") /\ goes("clear", 0)
        /\ \/ spends /\ trouble' = trouble \union stale \union {<<"abandoned", r>>}
           \/ Notes("abandoned", r) /\ UNCHANGED <<balance, spent>>
  /\ UNCHANGED <<basket, alike, keyRow, cart, orders, charge>>

Applied(r) == IF spent[r] > 0 /\ <<"overcharged", r>> \notin trouble THEN spent[r] ELSE 0
Due(r) == PrepaidTotal(r) - Applied(r)

\* Mutant: the credit is spent and the whole price charged.
AmountInFull(r) == PrepaidTotal(r)
Amount(r) == Due(r)

Undoes(r) == request' = [request EXCEPT ![r].at = "undo", ![r].todo = basket.vendors]

\* a payment that cannot be initialised is compensated
InitializePayment(r) ==
  /\ At(r, "pay") /\ Due(r) > 0
  /\ \/ charge' = [charge EXCEPT ![r] = Amount(r)] /\ Goes(r, "saveCart") /\ UNCHANGED sagaFaults
     \/ Fails("error") /\ Undoes(r) /\ UNCHANGED charge
     \/ Fails("lost") /\ Undoes(r) /\ charge' = [charge EXCEPT ![r] = Amount(r)]
  /\ UNCHANGED <<basket, alike, keyRow, cart, orders, balance, spent, trouble>>

(***************************************************************************)
(* What the order service does for them: transition() reads the order,     *)
(* calls the catalog when it ends, and saves the status later.             *)
(***************************************************************************)
Released(o) == [redemption EXCEPT ![o] = IF redemption[o] = "REDEEMED" THEN "RELEASED" ELSE redemption[o]]

\* releaseCatalogPromotion: a call that throws is passed over, and an answer
\* that is not ok ends the transition, whatever the catalog had done
Release(o) ==
  /\ order[o].status \in Open
  /\ \/ /\ saving' = saving \union {<<o, "CANCELLED">>} /\ redemption' = Released(o)
        /\ UNCHANGED <<trouble, sagaFaults>>
     \/ /\ Fails("throws") /\ Notes("unreleased", o[1])
        /\ saving' = saving \union {<<o, "CANCELLED">>} /\ UNCHANGED redemption
     \/ /\ Fails("lost") /\ Notes("unsaved", o[1])
        /\ redemption' = Released(o) /\ UNCHANGED saving
  /\ UNCHANGED order

\* the status is saved whatever became of the order since it was read
SaveStatus(o, status) ==
  /\ <<o, status>> \in saving /\ saving' = saving \ {<<o, status>>}
  /\ \/ /\ order' = [order EXCEPT ![o].status = status] /\ UNCHANGED sagaFaults
        /\ IF order[o].status = "CANCELLED" /\ status = "CONFIRMED" THEN Notes("overwritten", o[1]) ELSE UNCHANGED trouble
     \/ status = "CANCELLED" /\ Fails("error") /\ Notes("unsaved", o[1]) /\ UNCHANGED order
  /\ UNCHANGED <<basket, alike, keyRow, request, cart, redemption, balance, spent, charge>>

\* the payment timeout, the customer or the vendor
EndOrder(o) ==
  /\ o[2] \in basket.ended /\ Release(o)
  /\ UNCHANGED <<basket, alike, keyRow, request, cart, balance, spent, charge>>

\* the charge succeeds
ConfirmOrder(o) ==
  /\ charge[o[1]] > 0 /\ order[o].status = "PENDING_PAYMENT"
  /\ saving' = saving \union {<<o, "CONFIRMED">>}
  /\ UNCHANGED <<basket, alike, keyRow, request, cart, order, redemption, balance, spent, charge, trouble, sagaFaults>>

\* confirm-credit, order by order: the response is not looked at, a fetch that
\* throws ends it
Unpaid(r) == {o \in OrderId : o[1] = r /\ order[o].status = "PENDING_PAYMENT"}
Confirming(r) == {o \in OrderId : o[1] = r /\ <<o, "CONFIRMED">> \in saving}
ConfirmByCredit(r) ==
  /\ At(r, "pay") /\ Due(r) = 0
  /\ \/ \E o \in Unpaid(r) :
          /\ Confirming(r) = {} /\ saving' = saving \union {<<o, "CONFIRMED">>}
          /\ UNCHANGED <<request, trouble, sagaFaults>>
     \/ /\ Unpaid(r) \union Confirming(r) = {}
        /\ Goes(r, "saveCart") /\ UNCHANGED <<saving, trouble, sagaFaults>>
     \/ basket.prepaid # {} /\ Fails("error") /\ Goes(r, "saveCart") /\ UNCHANGED <<saving, trouble>>
     \/ basket.prepaid # {} /\ Fails("throws") /\ Goes(r, "clear") /\ Notes("abandoned", r) /\ UNCHANGED saving
  /\ UNCHANGED <<basket, alike, keyRow, cart, order, redemption, balance, spent, charge>>

\* cancelCreatedOrder for each order in turn, if it is still open: a call that
\* fails, and one whose transition does, are passed over
Undo(r) ==
  LET done(v) == request' = [request EXCEPT ![r] = [request[r] EXCEPT !.todo = @ \ {v}, !.now = {}]]
      open(v) == order[<<r, v>>].status \in Open
  IN
  /\ At(r, "undo")
  /\ \/ \E v \in request[r].todo :
          /\ request[r].now = {}
          /\ \/ Release(<<r, v>>) /\ request' = [request EXCEPT ![r].now = {v}]
             \/ ~open(v) /\ done(v) /\ UNCHANGED <<orders, trouble, sagaFaults>>
             \/ Fails("error") /\ done(v) /\ Notes("abandoned", r) /\ UNCHANGED orders
     \/ \E v \in request[r].now :
          /\ <<<<r, v>>, "CANCELLED">> \notin saving /\ done(v)
          /\ IF open(v) THEN Notes("abandoned", r) ELSE UNCHANGED trouble
          /\ UNCHANGED <<orders, sagaFaults>>
     \/ request[r].todo = {} /\ Goes(r, "clear") /\ UNCHANGED <<orders, trouble, sagaFaults>>
  /\ UNCHANGED <<basket, alike, keyRow, cart, balance, spent, charge>>

\* carts.save, the event in the outbox and the commit, or none of them
SaveCart(r) ==
  /\ At(r, "saveCart")
  /\ \/ cart' = "CHECKED_OUT" /\ Goes(r, "complete") /\ UNCHANGED <<trouble, sagaFaults>>
     \/ Fails("throws") /\ Goes(r, "clear") /\ Notes("abandoned", r) /\ UNCHANGED cart
  /\ UNCHANGED <<basket, alike, keyRow, orders, balance, spent, charge>>

Step(r) ==
  \/ CreateKey(r) \/ Poll(r) \/ ReadCart(r) \/ CreateOrders(r)
  \/ \E v \in Vendor : RedeemPromotion(r, v) \/ ClearPromotion(r, v)
  \/ SpendCredit(r) \/ SaveCredit(r) \/ InitializePayment(r) \/ ConfirmByCredit(r)
  \/ Undo(r) \/ SaveCart(r) \/ Complete(r) \/ Clear(r)

SagaNext ==
  \/ \E r \in Request : Step(r) \/ Dies(r) \/ \E k \in Key \union {None} : Arrive(r, k)
  \/ \E o \in OrderId : EndOrder(o) \/ ConfirmOrder(o) \/ \E status \in {"CONFIRMED", "CANCELLED"} : SaveStatus(o, status)

\* a request that is handled goes on: await by await, until it is answered; so
\* does a transition
SagaFairness ==
  /\ \A r \in Request : WF_sagaVars(Step(r))
  /\ WF_sagaVars(\E o \in OrderId, status \in {"CONFIRMED", "CANCELLED"} : SaveStatus(o, status))
SagaSpec == SagaInit /\ [][SagaNext]_sagaVars /\ SagaFairness

(***************************************************************************)
(* Properties.                                                             *)
(***************************************************************************)
Over(r) == request[r].at \in {"answered", "refused", "failed", "died"}
Trouble(r, kinds) == \E what \in kinds : <<what, r>> \in trouble
Lives(r) == \E v \in Vendor : order[<<r, v>>].status \in Open
Keyed(r, s) == r # s /\ request[r].key = request[s].key /\ request[r].key # None

\* "a replay after this point returns the stored result, not a duplicate side
\* effect": two requests with one key are never handled at the same time, and
\* never leave orders of both, whichever fails and is retried; unless one ended
\* without taking back what it had made, or a confirmation was saved over the
\* cancellation of its order.  A replay is answered with a checkout that was
\* made, for the same body unless it had to wait.
OnePurchasePerKey ==
  \A r, s \in Request :
    /\ Keyed(r, s) => ~(request[r].at \in Handling /\ request[s].at \in Handling)
    /\ Keyed(r, s) /\ Over(r) /\ Over(s) /\ Lives(r) /\ Lives(s)
         => Trouble(r, {"abandoned", "overwritten"}) \/ Trouble(s, {"abandoned", "overwritten"})
    /\ request[r].answer = s /\ r # s => /\ Keyed(r, s) /\ request[s].at = "answered"
                                         /\ alike \/ request[r].polled

\* An order that is alive when its checkout is over is discounted if and only if
\* the promotion was redeemed for it, and a cancelled one has no redemption:
\* unless the redemption's answer was lost, the discount could not be cleared,
\* the order was being cancelled before it was redeemed, or the checkout broke
\* off; or the release failed and the order was cancelled all the same, the
\* order was released and not saved, or a confirmation saved over its end.
DiscountIsRedeemed ==
  \A r \in Request : Over(r) => \A v \in Vendor : LET o == <<r, v>> IN
    /\ redemption[o] = "REDEEMED" =>
         \/ order[o].status \in Open /\ order[o].discounted
         \/ Trouble(r, {"redeemLost", "late", "unreleased"})
    /\ order[o].status \in Open /\ order[o].discounted =>
         \/ redemption[o] = "REDEEMED" \/ <<o, "CANCELLED">> \in saving
         \/ Trouble(r, {"unredeemed", "abandoned", "stuck", "unsaved", "overwritten"})

StoredPrice(r) == SumFunctionOnSet([v \in basket.prepaid |-> PriceOf(order[<<r, v>>].discounted)], basket.prepaid)

\* What is charged and what the wallet gave is the price of the prepaid orders
\* as they are stored, and the wallet's log adds up; unless an answer was lost
\* or two checkouts spent from the same balance.
ChargeMatchesOrders ==
  /\ SagaTypeOK
  /\ \A r \in Request : charge[r] > 0 /\ ~Trouble(r, {"underpriced", "overcharged"}) =>
       charge[r] + spent[r] = StoredPrice(r)
  /\ (\A r \in Request : ~Trouble(r, {"overlapped"})) => balance + SumFunctionOnSet(spent, Request) = Granted

\* "A failed handler clears the key so a retry can succeed": a key does not stay
\* in flight, unless the process died in the handler or the clear failed.
KeySettles ==
  \A k \in Key : keyRow[k].status = "in_flight" ~>
    keyRow[k].status # "in_flight" \/ \E r \in Request : request[r].key = k /\ Trouble(r, {"stuck"})
=============================================================================
