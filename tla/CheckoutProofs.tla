---------------------------- MODULE CheckoutProofs ----------------------------
(***************************************************************************)
(* From the cart to the refund: the checkout's saga, the catalog's stock   *)
(* and promotions, the payment of a checkout and what the ledger posts for *)
(* it. The three share no state; each part proves about one, for every     *)
(* value of its constants.                                                 *)
(*                                                                         *)
(* OnePurchasePerKey. A key in flight has one request that is handled, or  *)
(* none if its process died; a request whose orders live and were not      *)
(* abandoned is that one, or the cart is checked out, so that none after   *)
(* it gets past reading it (BoughtOf, OnePurchase).                        *)
(*                                                                         *)
(* DiscountIsRedeemed. An order that is still to be redeemed has its       *)
(* discount and no redemption, unless an answer was lost; one that has     *)
(* been dealt with has both or neither (DiscountOf), or slides to its end  *)
(* by what a transition of the order service releases and saves (Slides).  *)
(*                                                                         *)
(* ChargeMatchesOrders. Until it pays, a checkout reckons with the prices  *)
(* its orders have, and afterwards no step of it changes a discount; what  *)
(* it spends is what the balance loses (Priced, ChargedFor, LogAddsUp).    *)
(*                                                                         *)
(* CatalogBooks. The rows a reserve call made are written together, and a  *)
(* call that writes knows what it read; unless calls of one order crossed, *)
(* one of them at most holds rows, so each write moves as much between the *)
(* stock and the rows as the rows say (CatalogInv, SumTheorems).           *)
(*                                                                         *)
(* RefundsFollowRows and EscrowBooks. MoneyInv joins what the payment      *)
(* service's rows, calls and attempts say of Paystack (PaymentInv: a       *)
(* webhook comes when its refund is decided, an attempt knows what it      *)
(* read, the one call of an order asks for what the others left) with what *)
(* the ledger has booked (LedgerInv: an event says what happened, a refund *)
(* that failed is on its way to be reversed, what is held for an order     *)
(* that has not ended is not overdrawn). Sums are taken over all refunds,  *)
(* each counting what it adds (Counted, Posted), so that a step changes    *)
(* one term.                                                               *)
(***************************************************************************)
EXTENDS CheckoutSaga, CatalogStock, LedgerPosting, SumTheorems, FiniteSetTheorems, TLAPS

Known == {"at", "key", "polled", "answer", "discounted", "todo", "now", "seen"}
Typed ==
  /\ basket \in BasketType
  /\ keyRow \in [Key -> [status : {"none", "in_flight", "completed"}, answer : Request \union {None}]]
  /\ DOMAIN request = Request
  /\ \A r \in Request : /\ DOMAIN request[r] = Known
                        /\ request[r].at \in Handling \union {"start", "create", "poll", "answered", "refused", "failed", "died"}
                        /\ request[r].key \in Key \union {None} /\ request[r].answer \in Request \union {None}
                        /\ request[r].todo \subseteq Vendor /\ request[r].now \subseteq Vendor
  /\ order \in [OrderId -> [status : Open \union {"none", "CANCELLED"}, discounted : BOOLEAN]]
  /\ redemption \in [OrderId -> {"none", "REDEEMED", "RELEASED"}]
  /\ saving \subseteq OrderId \X {"CONFIRMED", "CANCELLED"}

Handled(r) == request[r].at \in Handling
Abandoned(r) == <<"abandoned", r>> \in trouble \/ <<"overwritten", r>> \in trouble
\* a status of its order is about to be saved
Saves(r, v, status) == <<<<r, v>>, status>> \in saving
Bought(r) == Lives(r) /\ ~Abandoned(r)

\* the key of a request that is handled is in flight; that of one that died stays so
KeyInv ==
  /\ \A r \in Request : /\ request[r].at \in {"create", "poll"} => request[r].key \in Key
                        /\ request[r].at = "start" => request[r].answer = None
                        /\ (Handled(r) \/ request[r].at = "died") /\ request[r].key \in Key =>
                             keyRow[request[r].key].status = "in_flight"
  /\ \A r, s \in Request : Keyed(r, s) /\ Handled(r) => ~Handled(s) /\ request[s].at # "died"

\* an answer that is stored or given is that of a checkout that was made
AnswerInv ==
  /\ \A k \in Key : \A s \in Request : keyRow[k].answer = s =>
       keyRow[k].status = "completed" /\ request[s].key = k /\ request[s].at = "answered"
  /\ \A r, s \in Request : request[r].answer = s /\ r # s =>
       /\ request[r].at = "answered" /\ request[s].at = "answered"
       /\ request[r].key = request[s].key /\ request[r].key # None
       /\ alike \/ request[r].polled

NotOrdered == {"start", "create", "poll", "readCart", "createOrders"}
OrdersOf(r) ==
  /\ request[r].at \in NotOrdered =>
       \A v \in Vendor : order[<<r, v>>].status = "none" /\ redemption[<<r, v>>] = "none"
  /\ \A v \in Vendor : order[<<r, v>>].status # "none" => v \in basket.vendors
  /\ \A v \in Vendor : \A status : Saves(r, v, status) => order[<<r, v>>].status # "none"

\* a purchase keeps others of its key from being made
BoughtOf(r) ==
  /\ request[r].at = "complete" => cart = "CHECKED_OUT"
  /\ request[r].at = "undo" /\ ~Abandoned(r) =>
       \A v \in Vendor \ request[r].todo : order[<<r, v>>].status \notin Open
  /\ request[r].at = "clear" /\ Bought(r) => cart = "CHECKED_OUT"
  /\ Bought(r) => Handled(r) \/ request[r].at = "died" \/ cart = "CHECKED_OUT"
OnePurchase == \A r, s \in Request : Keyed(r, s) /\ Bought(r) =>
  ~Bought(s) /\ (Handled(s) => request[s].at \in {"readCart", "clear"})

\* which discounts and redemptions there are: how a redemption is kept by an
\* order without a discount, and lost by one with it
Kept == {"redeemLost", "late", "unreleased"}
Lost == {"unredeemed", "abandoned", "stuck", "unsaved", "overwritten"}
Redeeming(r, v) == request[r].at \in {"redeem", "clearPromotion"} /\ v \in request[r].todo
DiscountOf(r) ==
  /\ request[r].at = "clearPromotion" => request[r].now \subseteq request[r].todo
  /\ \A v \in Vendor : LET o == <<r, v>> IN
       /\ Redeeming(r, v) =>
            /\ order[o].status # "none" => order[o].discounted
            /\ redemption[o] = "REDEEMED" => Trouble(r, {"redeemLost"})
       /\ redemption[o] = "REDEEMED" =>
            (order[o].status \in Open /\ order[o].discounted /\ ~Saves(r, v, "CANCELLED")) \/ Trouble(r, Kept)
       /\ order[o].status \in Open /\ order[o].discounted =>
            redemption[o] = "REDEEMED" \/ Redeeming(r, v) \/ Saves(r, v, "CANCELLED") \/ Trouble(r, Lost)
Checkouts == \A r \in Request : OrdersOf(r) /\ BoughtOf(r) /\ DiscountOf(r)

SagaInv == Typed /\ KeyInv /\ AnswerInv /\ Checkouts /\ OnePurchase

-----------------------------------------------------------------------------
(* What a step of one request changes *)

RequestOf(r) ==
  /\ DOMAIN request' = Request /\ DOMAIN request'[r] = Known
  /\ \A s \in Request \ {r} : request'[s] = request[s]
SameKey(r) ==
  /\ request'[r].key = request[r].key /\ request'[r].answer = request[r].answer
  /\ request'[r].polled = request[r].polled
SameTodo(r) == request'[r].todo = request[r].todo /\ request'[r].now = request[r].now

LEMMA GoesDoes ==
  ASSUME Typed, NEW r \in Request, NEW where, Goes(r, where)
  PROVE  RequestOf(r) /\ SameKey(r) /\ SameTodo(r) /\ request'[r].at = where
BY DEF Typed, Known, Goes, RequestOf, SameKey, SameTodo

LEMMA ArriveDoes ==
  ASSUME Typed, NEW r \in Request, NEW k \in Key \union {None}, Arrive(r, k)
  PROVE  /\ RequestOf(r) /\ request[r].at = "start" /\ keyRow' = keyRow
         /\ request'[r].key = k /\ request'[r].polled = request[r].polled /\ SameTodo(r)
         /\ \/ k = None /\ request'[r].at = "readCart" /\ request'[r].answer = None
            \/ k \in Key /\ keyRow[k].status = "none" /\ request'[r].at = "create" /\ request'[r].answer = None
            \/ k \in Key /\ keyRow[k].status = "in_flight" /\ request'[r].at = "poll" /\ request'[r].answer = None
            \/ k \in Key /\ ~alike /\ request'[r].at = "refused" /\ request'[r].answer = None
            \/ /\ k \in Key /\ keyRow[k].status = "completed" /\ alike
               /\ request'[r].at = "answered" /\ request'[r].answer = keyRow[k].answer
<1> DEFINE where == IF k = None THEN "readCart" ELSE
                    CASE keyRow[k].status = "none"          -> "create"
                      [] keyRow[k].status = "in_flight"     -> "poll"
                      [] keyRow[k].status = "completed"     -> IF alike THEN "answered" ELSE "refused"
           answer == IF k # None /\ keyRow[k].status = "completed" /\ alike THEN keyRow[k].answer ELSE None
<1>1. request' = [request EXCEPT ![r] = [request[r] EXCEPT !.key = k, !.at = where, !.answer = answer]]
  BY DEF Arrive
<1>2. RequestOf(r) /\ request'[r].key = k /\ request'[r].polled = request[r].polled /\ SameTodo(r)
      /\ request'[r].at = where /\ request'[r].answer = answer
  <2> HIDE DEF where, answer
  <2>1. PICK w, a : w = where /\ a = answer
    OBVIOUS
  <2>2. request' = [request EXCEPT ![r] = [request[r] EXCEPT !.key = k, !.at = w, !.answer = a]]
    BY <1>1, <2>1
  <2>3. RequestOf(r) /\ request'[r].key = k /\ request'[r].polled = request[r].polled /\ SameTodo(r)
        /\ request'[r].at = w /\ request'[r].answer = a
    BY <2>2 DEF Typed, Known, RequestOf, SameTodo
  <2> QED BY <2>1, <2>3
<1>3. None \notin Key
  BY SagaAssumption
<1>4. CASE k = None
  <2>1. where = "readCart" /\ answer = None
    BY <1>3, <1>4
  <2> QED BY <1>2, <1>4, <2>1 DEF Arrive, At
<1>5. CASE k \in Key
  <2>1. k # None /\ keyRow[k].status \in {"none", "in_flight", "completed"}
    BY <1>3, <1>5 DEF Typed
  <2>2. CASE keyRow[k].status = "none"
    <3>1. where = "create" /\ answer = None
      BY <2>1, <2>2
    <3> QED BY <1>2, <1>5, <2>2, <3>1 DEF Arrive, At
  <2>3. CASE keyRow[k].status = "in_flight"
    <3>1. where = "poll" /\ answer = None
      BY <2>1, <2>3
    <3> QED BY <1>2, <1>5, <2>3, <3>1 DEF Arrive, At
  <2>4. CASE keyRow[k].status = "completed"
    <3>1. where = (IF alike THEN "answered" ELSE "refused") /\ answer = (IF alike THEN keyRow[k].answer ELSE None)
      BY <2>1, <2>4
    <3> HIDE DEF where, answer
    <3> QED BY <1>2, <1>5, <2>4, <3>1 DEF Arrive, At
  <2> QED BY <2>1, <2>2, <2>3, <2>4
<1> QED BY <1>4, <1>5

LEMMA PollDoes ==
  ASSUME Typed, NEW r \in Request, Poll(r)
  PROVE  /\ RequestOf(r) /\ request[r].at = "poll" /\ keyRow' = keyRow /\ request'[r].key = request[r].key
         /\ request'[r].polled = TRUE /\ SameTodo(r) /\ request'[r].answer = keyRow[request[r].key].answer
         /\ request'[r].at = IF keyRow[request[r].key].status = "completed" THEN "answered" ELSE "refused"
BY DEF Typed, Known, Poll, At, RequestOf, SameTodo

\* the steps of a request between the insertion of its key and its end
InnerStep(r) ==
  \/ ReadCart(r) \/ CreateOrders(r)
  \/ \E v \in Vendor : RedeemPromotion(r, v) \/ ClearPromotion(r, v)
  \/ SpendCredit(r) \/ SaveCredit(r) \/ InitializePayment(r) \/ ConfirmByCredit(r)
  \/ Undo(r) \/ SaveCart(r) \/ Dies(r)
  \/ (Complete(r) /\ Goes(r, "clear") /\ keyRow' = keyRow)

LEMMA OrdersDoes ==
  ASSUME Typed, NEW r \in Request, CreateOrders(r)
  PROVE  /\ RequestOf(r) /\ SameKey(r)
         /\ \/ Ordered(r) /\ request'[r].at = "redeem" /\ request'[r].todo = basket.promoted /\ trouble' = trouble
            \/ request'[r].at = "clear" /\ order' = order /\ trouble' = trouble
            \/ request'[r].at = "clear" /\ Ordered(r) /\ Notes("abandoned", r)
<1>1. CASE Goes(r, "clear") /\ (UNCHANGED <<order, trouble>> \/ (Ordered(r) /\ Notes("abandoned", r)))
  BY <1>1, GoesDoes
<1>2. CASE /\ Ordered(r) /\ trouble' = trouble
           /\ request' = [request EXCEPT ![r] = [request[r] EXCEPT !.at = "redeem", !.todo = basket.promoted,
                                                       !.discounted = basket.promoted]]
  BY <1>2 DEF Typed, Known, RequestOf, SameKey
<1> QED BY <1>1, <1>2 DEF CreateOrders

Ending(r, v) == <<<<r, v>>, "CANCELLED">> \in saving

LEMMA RedeemDoes ==
  ASSUME Typed, NEW r \in Request, NEW v \in Vendor, RedeemPromotion(r, v)
  PROVE  /\ RequestOf(r) /\ SameKey(r)
         /\ \/ request'[r].at = "redeem" /\ request'[r].todo = request[r].todo \ {v} /\ redemption' = [redemption EXCEPT ![<<r, v>>] = "REDEEMED"]
               /\ IF order[<<r, v>>].status \in Open /\ ~Ending(r, v) THEN trouble' = trouble ELSE Notes("late", r)
            \/ request'[r].at = "clearPromotion" /\ request'[r].todo = request[r].todo /\ request'[r].now = {v}
               /\ redemption' = redemption /\ trouble' = trouble
            \/ request'[r].at = "clearPromotion" /\ request'[r].todo = request[r].todo /\ request'[r].now = {v}
               /\ redemption' = [redemption EXCEPT ![<<r, v>>] = "REDEEMED"] /\ Notes("redeemLost", r)
<1>1. CASE request' = [request EXCEPT ![r] = AfterRefusal(r, v)]
  <2>1. RequestOf(r) /\ SameKey(r) /\ request'[r].at = "clearPromotion" /\ request'[r].todo = request[r].todo /\ request'[r].now = {v}
    BY <1>1 DEF Typed, Known, AfterRefusal, RequestOf, SameKey
  <2>2. CASE UNCHANGED <<redemption, trouble, sagaFaults>>
    BY <2>1, <2>2
  <2>3. CASE redemption' = [redemption EXCEPT ![<<r, v>>] = "REDEEMED"] /\ Notes("redeemLost", r)
    BY <2>1, <2>3
  <2>4. CASE request' = [request EXCEPT ![r].todo = request[r].todo \ {v}]
    <3>1. FALSE
      BY <2>1, <2>4 DEF Typed, Known, RedeemPromotion, At
    <3> QED BY <3>1
  <2> QED BY <2>2, <2>3, <2>4 DEF RedeemPromotion
<1>2. CASE /\ request' = [request EXCEPT ![r].todo = @ \ {v}]
           /\ redemption' = [redemption EXCEPT ![<<r, v>>] = "REDEEMED"]
           /\ IF order[<<r, v>>].status \in Open /\ ~Ending(r, v) THEN UNCHANGED trouble ELSE Notes("late", r)
  <2>1. RequestOf(r) /\ SameKey(r) /\ request'[r].at = "redeem" /\ request'[r].todo = request[r].todo \ {v}
    BY <1>2 DEF Typed, Known, RequestOf, SameKey, RedeemPromotion, At
  <2> QED BY <1>2, <2>1
<1> QED BY <1>1, <1>2 DEF RedeemPromotion, Ending

LEMMA ClearPromotionDoes ==
  ASSUME Typed, NEW r \in Request, NEW v \in Vendor, ClearPromotion(r, v)
  PROVE  /\ RequestOf(r) /\ SameKey(r) /\ request'[r].at = "redeem" /\ request'[r].todo = request[r].todo \ {v}
         /\ \/ order' = [order EXCEPT ![<<r, v>>].discounted = FALSE] /\ (trouble' = trouble \/ Notes("underpriced", r))
            \/ order' = order /\ order[<<r, v>>].status \notin Open /\ trouble' = trouble
            \/ order' = order /\ Notes("unredeemed", r)
<1>1. PICK answered \in BOOLEAN : request' = [request EXCEPT ![r] = [request[r] EXCEPT !.at = "redeem", !.todo = @ \ {v}, !.now = {},
                           !.discounted = IF answered THEN @ \ {v} ELSE @]]
  BY DEF ClearPromotion
<1>2. RequestOf(r) /\ SameKey(r) /\ request'[r].at = "redeem" /\ request'[r].todo = request[r].todo \ {v}
  BY <1>1 DEF Typed, Known, RequestOf, SameKey
<1> QED BY <1>2 DEF ClearPromotion

LEMMA CreditDoes ==
  ASSUME Typed, NEW r \in Request, SpendCredit(r) \/ SaveCredit(r)
  PROVE  /\ RequestOf(r) /\ SameKey(r) /\ SameTodo(r) /\ UNCHANGED <<order, saving, redemption>>
         /\ \/ request'[r].at \in {"saveCredit", "pay"}
            \/ request'[r].at = "clear" /\ <<"abandoned", r>> \in trouble'
<1>1. CASE SpendCredit(r)
  <2>1. PICK where \in {"saveCredit", "pay"} : request' = [request EXCEPT ![r].seen = balance, ![r].at = where]
    BY <1>1 DEF SpendCredit
  <2>2. RequestOf(r) /\ SameKey(r) /\ SameTodo(r) /\ request'[r].at = where
    BY <2>1 DEF Typed, Known, RequestOf, SameKey, SameTodo
  <2> QED BY <1>1, <2>2 DEF SpendCredit, services, orders
<1>2. CASE SaveCredit(r)
  <2>1. PICK where, known : /\ request' = [request EXCEPT ![r].at = where, ![r].seen = known]
                            /\ where = "pay" \/ (where = "clear" /\ <<"abandoned", r>> \in trouble')
    BY <1>2 DEF SaveCredit, Notes
  <2>2. RequestOf(r) /\ SameKey(r) /\ SameTodo(r) /\ request'[r].at = where
    BY <2>1 DEF Typed, Known, RequestOf, SameKey, SameTodo
  <2> QED BY <1>2, <2>1, <2>2 DEF SaveCredit, orders
<1> QED BY <1>1, <1>2

LEMMA UndoesDoes ==
  ASSUME Typed, NEW r \in Request, Undoes(r)
  PROVE  RequestOf(r) /\ SameKey(r) /\ request'[r].at = "undo" /\ request'[r].todo = basket.vendors
BY DEF Typed, Known, Undoes, RequestOf, SameKey

LEMMA UndoDoes ==
  ASSUME Typed, NEW r \in Request, Undo(r)
  PROVE  /\ RequestOf(r) /\ SameKey(r) /\ request[r].at = "undo"
         /\ \/ request[r].todo = {} /\ request'[r].at = "clear" /\ UNCHANGED orders /\ trouble' = trouble
            \/ \E v \in Vendor :
                 /\ Release(<<r, v>>)
                 /\ request'[r].at = "undo" /\ request'[r].todo = request[r].todo
            \/ \E v \in Vendor :
                 /\ request'[r].at = "undo" /\ request'[r].todo = request[r].todo \ {v} /\ UNCHANGED orders
                 /\ (order[<<r, v>>].status \notin Open /\ trouble' = trouble) \/ Notes("abandoned", r)
<1>0. request[r].at = "undo" /\ request[r].todo \subseteq Vendor /\ request[r].now \subseteq Vendor
  BY DEF Undo, At, Typed
<1>1. CASE Goes(r, "clear") /\ request[r].todo = {} /\ UNCHANGED <<orders, trouble, sagaFaults>>
  BY <1>0, <1>1, GoesDoes
<1>2. ASSUME NEW v \in Vendor, request' = [request EXCEPT ![r] = [request[r] EXCEPT !.todo = @ \ {v}, !.now = {}]]
      PROVE  RequestOf(r) /\ SameKey(r) /\ request'[r].at = "undo" /\ request'[r].todo = request[r].todo \ {v}
  BY <1>0, <1>2 DEF Typed, Known, RequestOf, SameKey
<1>3. ASSUME NEW v \in Vendor, request' = [request EXCEPT ![r].now = {v}]
      PROVE  RequestOf(r) /\ SameKey(r) /\ request'[r].at = "undo" /\ request'[r].todo = request[r].todo
  BY <1>0, <1>3 DEF Typed, Known, RequestOf, SameKey
<1>4. CASE \E v \in request[r].todo :
             \/ Release(<<r, v>>) /\ request' = [request EXCEPT ![r].now = {v}]
             \/ /\ request' = [request EXCEPT ![r] = [request[r] EXCEPT !.todo = @ \ {v}, !.now = {}]]
                /\ UNCHANGED orders /\ ((order[<<r, v>>].status \notin Open /\ trouble' = trouble) \/ Notes("abandoned", r))
  BY <1>0, <1>2, <1>3, <1>4
<1>5. CASE \E v \in request[r].now :
             /\ request' = [request EXCEPT ![r] = [request[r] EXCEPT !.todo = @ \ {v}, !.now = {}]]
             /\ UNCHANGED orders /\ ((order[<<r, v>>].status \notin Open /\ trouble' = trouble) \/ Notes("abandoned", r))
  BY <1>0, <1>2, <1>5
<1> QED BY <1>1, <1>4, <1>5 DEF Undo

LEMMA ConfirmDoes ==
  ASSUME Typed, NEW r \in Request, ConfirmByCredit(r)
  PROVE  /\ RequestOf(r) /\ SameKey(r) /\ SameTodo(r) /\ request[r].at = "pay" /\ UNCHANGED <<order, redemption>>
         /\ \/ /\ request'[r].at = "pay" /\ trouble' = trouble
               /\ \E v \in Vendor : /\ order[<<r, v>>].status = "PENDING_PAYMENT"
                                    /\ saving' = saving \union {<<<<r, v>>, "CONFIRMED">>}
            \/ request'[r].at = "saveCart" /\ saving' = saving /\ trouble' = trouble
            \/ request'[r].at = "clear" /\ saving' = saving /\ Notes("abandoned", r)
<1>1. request[r].at = "pay" /\ UNCHANGED <<order, redemption>>
  BY DEF ConfirmByCredit, At
<1>2. ASSUME NEW where, Goes(r, where) PROVE RequestOf(r) /\ SameKey(r) /\ SameTodo(r) /\ request'[r].at = where
  BY <1>2, GoesDoes
<1>3. CASE request' = request /\ trouble' = trouble /\ \E o \in Unpaid(r) : saving' = saving \union {<<o, "CONFIRMED">>}
  <2>1. PICK o \in OrderId : o[1] = r /\ order[o].status = "PENDING_PAYMENT" /\ saving' = saving \union {<<o, "CONFIRMED">>}
    BY <1>3 DEF Unpaid
  <2>2. o[2] \in Vendor /\ o = <<r, o[2]>>
    BY <2>1 DEF OrderId
  <2>3. \E v \in Vendor : order[<<r, v>>].status = "PENDING_PAYMENT" /\ saving' = saving \union {<<<<r, v>>, "CONFIRMED">>}
    BY <2>1, <2>2
  <2> QED BY <1>1, <1>3, <2>3 DEF Typed, RequestOf, SameKey, SameTodo
<1> QED BY <1>1, <1>2, <1>3 DEF ConfirmByCredit

LEMMA InnerDoes ==
  ASSUME Typed, NEW r \in Request, InnerStep(r)
  PROVE  RequestOf(r) /\ SameKey(r) /\ keyRow' = keyRow /\ Handled(r) /\ (Handled(r)' \/ request'[r].at = "died")
<1> USE DEF Handled, Handling
<1>1. ASSUME NEW where \in Handling \union {"died"}, Goes(r, where) PROVE RequestOf(r) /\ SameKey(r) /\ (Handled(r)' \/ request'[r].at = "died")
  BY <1>1, GoesDoes
<1>2. CASE ReadCart(r) \/ SaveCart(r)
  BY <1>1, <1>2 DEF ReadCart, SaveCart, At, services, orders
<1>3. CASE CreateOrders(r)
  BY <1>3, OrdersDoes DEF CreateOrders, At
<1>4. ASSUME NEW v \in Vendor, RedeemPromotion(r, v) \/ ClearPromotion(r, v)
      PROVE  RequestOf(r) /\ SameKey(r) /\ keyRow' = keyRow /\ Handled(r) /\ Handled(r)'
  BY <1>4, RedeemDoes, ClearPromotionDoes DEF RedeemPromotion, ClearPromotion, At
<1>5. CASE SpendCredit(r) \/ SaveCredit(r)
  BY <1>5, CreditDoes DEF SpendCredit, SaveCredit, At
<1>6. CASE InitializePayment(r)
  BY <1>1, <1>6, UndoesDoes DEF InitializePayment, At
<1>7. CASE ConfirmByCredit(r)
  BY <1>1, <1>7, ConfirmDoes DEF ConfirmByCredit, At
<1>8. CASE Undo(r)
  BY <1>8, UndoDoes DEF Undo
<1>9. CASE Dies(r)
  BY <1>1, <1>9 DEF Dies
<1>10. CASE Complete(r) /\ Goes(r, "clear") /\ keyRow' = keyRow
  BY <1>1, <1>10 DEF Complete, At
<1> QED BY <1>2, <1>3, <1>4, <1>5, <1>6, <1>7, <1>8, <1>9, <1>10 DEF InnerStep

\* the response is stored
Stores(r) ==
  /\ Complete(r) /\ UNCHANGED trouble
  /\ request' = [request EXCEPT ![r].at = "answered", ![r].answer = r]
  /\ keyRow' = IF request[r].key = None THEN keyRow ELSE [keyRow EXCEPT ![request[r].key] = [status |-> "completed", answer |-> r]]

RequestMoves(r) == Step(r) \/ Dies(r) \/ \E k \in Key \union {None} : Arrive(r, k)
LEMMA MovesAre ==
  ASSUME NEW r, RequestMoves(r)
  PROVE  InnerStep(r) \/ CreateKey(r) \/ Poll(r) \/ Stores(r) \/ Clear(r) \/ \E k \in Key \union {None} : Arrive(r, k)
<1>1. CASE Complete(r)
  <2>1. CASE Goes(r, "clear") /\ keyRow' = keyRow
    BY <1>1, <2>1 DEF InnerStep
  <2>2. CASE ~(Goes(r, "clear") /\ keyRow' = keyRow)
    <3>1. Stores(r)
      BY <1>1, <2>2 DEF Complete, Stores
    <3> QED BY <3>1
  <2> QED BY <2>1, <2>2
<1>2. CASE \E v \in Vendor : RedeemPromotion(r, v) \/ ClearPromotion(r, v)
  BY <1>2 DEF InnerStep
<1>3. CASE \/ ReadCart(r) \/ CreateOrders(r) \/ SpendCredit(r) \/ SaveCredit(r) \/ InitializePayment(r)
           \/ ConfirmByCredit(r) \/ Undo(r) \/ SaveCart(r) \/ Dies(r)
  BY <1>3 DEF InnerStep
<1> QED BY <1>1, <1>2, <1>3 DEF RequestMoves, Step

LEMMA CreateKeyDoes ==
  ASSUME Typed, NEW r \in Request, CreateKey(r)
  PROVE  /\ RequestOf(r) /\ SameKey(r) /\ request[r].at = "create"
         /\ \/ request'[r].at = "refused" /\ keyRow' = keyRow
            \/ /\ request'[r].at \in {"readCart", "refused"} /\ keyRow[request[r].key].status = "none"
               /\ keyRow' = [keyRow EXCEPT ![request[r].key] = [status |-> "in_flight", answer |-> None]]
BY GoesDoes DEF CreateKey, Inserts, Inserted, At

LEMMA StoresDoes ==
  ASSUME Typed, NEW r \in Request, Stores(r)
  PROVE  /\ RequestOf(r) /\ request'[r].key = request[r].key /\ request[r].at = "complete" /\ request'[r].at = "answered"
         /\ request'[r].answer = r /\ request'[r].polled = request[r].polled
         /\ keyRow' = IF request[r].key = None THEN keyRow ELSE [keyRow EXCEPT ![request[r].key] = [status |-> "completed", answer |-> r]]
BY DEF Typed, Known, Stores, Complete, At, RequestOf

LEMMA ClearDoes ==
  ASSUME Typed, NEW r \in Request, Clear(r)
  PROVE  /\ RequestOf(r) /\ SameKey(r) /\ request[r].at = "clear" /\ request'[r].at = "failed"
         /\ keyRow' = keyRow \/ (request[r].key # None /\ keyRow' = [keyRow EXCEPT ![request[r].key] = [status |-> "none", answer |-> None]])
BY GoesDoes DEF Clear, Cleared, At

-----------------------------------------------------------------------------
(* A key, and its request *)

\* a request that leaves takes its key with it
LEMMA KeyLeaves ==
  ASSUME Typed, KeyInv, NEW r \in Request, Handled(r), RequestOf(r), request'[r].key = request[r].key,
         request'[r].at \in {"answered", "failed"}, \A k \in Key : k # request[r].key => keyRow'[k] = keyRow[k]
  PROVE  KeyInv'
<1>1. ~Handled(r)' /\ request'[r].at \notin {"start", "create", "poll", "died"}
  BY DEF Handled, Handling
<1>2. ASSUME NEW s \in Request, s # r, Handled(s) \/ request[s].at = "died", request[s].key \in Key
      PROVE  request[s].key # request[r].key
  BY <1>2, SagaAssumption DEF KeyInv, Keyed
<1>3. ASSUME NEW s \in Request, (Handled(s) \/ request[s].at = "died")', request'[s].key \in Key
      PROVE  keyRow'[request'[s].key].status = "in_flight"
  <2>1. s # r /\ request'[s] = request[s]
    BY <1>1, <1>3 DEF RequestOf
  <2>2. PICK k \in Key : k = request[s].key
    BY <1>3, <2>1
  <2> QED BY <1>2, <1>3, <2>1, <2>2 DEF KeyInv, Handled
<1>4. ASSUME NEW s \in Request, NEW t \in Request, Keyed(s, t)', Handled(s)' PROVE ~Handled(t)' /\ request'[t].at # "died"
  <2>1. s # r
    BY <1>1, <1>4
  <2> QED BY <1>1, <1>4, <2>1 DEF KeyInv, Keyed, Handled, RequestOf
<1>5. ASSUME NEW s \in Request
      PROVE  (request'[s].at \in {"create", "poll"} => request'[s].key \in Key) /\ (request'[s].at = "start" => request'[s].answer = None)
  BY <1>1 DEF KeyInv, RequestOf
<1> QED BY <1>3, <1>4, <1>5 DEF KeyInv

LEMMA KeyStep == ASSUME Typed, KeyInv, NEW r \in Request, RequestMoves(r) PROVE KeyInv'
<1>0. None \notin Key
  BY SagaAssumption
<1>1. CASE InnerStep(r)
  <2>1. RequestOf(r) /\ SameKey(r) /\ keyRow' = keyRow /\ Handled(r) /\ (Handled(r)' \/ request'[r].at = "died")
    BY <1>1, InnerDoes
  <2> QED BY <2>1 DEF KeyInv, Keyed, Handled, Handling, RequestOf, SameKey
<1>2. ASSUME NEW k \in Key \union {None}, Arrive(r, k) PROVE KeyInv'
  <2>1. /\ RequestOf(r) /\ keyRow' = keyRow /\ request'[r].key = k
        /\ request'[r].at \in {"readCart", "create", "poll", "refused", "answered"}
        /\ request'[r].at = "readCart" => k = None
        /\ request'[r].at \in {"create", "poll"} => k \in Key
    BY <1>2, ArriveDoes
  <2>2. (Handled(r)' => k = None) /\ request'[r].at # "died" /\ request'[r].at # "start"
    BY <2>1 DEF Handled, Handling
  <2> QED BY <1>0, <2>1, <2>2 DEF KeyInv, Keyed, Handled, RequestOf
<1>3. CASE CreateKey(r)
  <2> DEFINE k == request[r].key
  <2>1. /\ RequestOf(r) /\ SameKey(r) /\ k \in Key
        /\ \/ request'[r].at = "refused" /\ keyRow' = keyRow
           \/ /\ request'[r].at \in {"readCart", "refused"} /\ keyRow[k].status = "none"
              /\ keyRow' = [keyRow EXCEPT ![k] = [status |-> "in_flight", answer |-> None]]
    BY <1>3, CreateKeyDoes DEF KeyInv
  <2>2. CASE request'[r].at = "refused" /\ keyRow' = keyRow
    BY <2>1, <2>2 DEF KeyInv, Keyed, Handled, Handling, RequestOf
  <2>3. CASE /\ request'[r].at \in {"readCart", "refused"} /\ keyRow[k].status = "none"
             /\ keyRow' = [keyRow EXCEPT ![k] = [status |-> "in_flight", answer |-> None]]
    <3>1. \A s \in Request : Handled(s) \/ request[s].at = "died" => request[s].key # k
      BY <2>1, <2>3 DEF KeyInv
    <3>2. \A j \in Key : keyRow'[j].status = IF j = k THEN "in_flight" ELSE keyRow[j].status
      BY <2>1, <2>3 DEF Typed
    <3>3. request'[r].key = k /\ request'[r].at # "died" /\ \A s \in Request \ {r} : request'[s] = request[s]
      BY <2>1, <2>3 DEF RequestOf, SameKey
    <3> HIDE DEF k
    <3>4. ASSUME NEW s \in Request, (Handled(s) \/ request[s].at = "died")', request'[s].key \in Key
          PROVE  keyRow'[request'[s].key].status = "in_flight"
      <4>1. CASE s = r
        BY <2>1, <3>2, <3>3, <4>1
      <4>2. CASE s # r
        <5>1. PICK j \in Key : j = request[s].key
          BY <3>3, <3>4, <4>2
        <5> QED BY <3>2, <3>3, <3>4, <4>2, <5>1 DEF KeyInv, Handled
      <4> QED BY <4>1, <4>2
    <3>5. ASSUME NEW s \in Request, NEW t \in Request, Keyed(s, t)', Handled(s)' PROVE ~Handled(t)' /\ request'[t].at # "died"
      <4>1. CASE s = r \/ t = r
        BY <3>1, <3>3, <3>5, <4>1 DEF Keyed, Handled
      <4>2. CASE s # r /\ t # r
        BY <3>3, <3>5, <4>2 DEF KeyInv, Keyed, Handled
      <4> QED BY <4>1, <4>2
    <3>6. ASSUME NEW s \in Request
          PROVE  (request'[s].at \in {"create", "poll"} => request'[s].key \in Key) /\ (request'[s].at = "start" => request'[s].answer = None)
      BY <2>3, <3>3 DEF KeyInv
    <3> QED BY <3>4, <3>5, <3>6 DEF KeyInv
  <2> QED BY <2>1, <2>2, <2>3
<1>4. CASE Poll(r)
  <2>1. RequestOf(r) /\ keyRow' = keyRow /\ request'[r].at \in {"answered", "refused"}
    BY <1>4, PollDoes
  <2> QED BY <2>1 DEF KeyInv, Keyed, Handled, Handling, RequestOf
<1>5. CASE Stores(r)
  <2>1. /\ RequestOf(r) /\ request'[r].key = request[r].key /\ Handled(r) /\ request'[r].at = "answered"
        /\ keyRow' = IF request[r].key = None THEN keyRow ELSE [keyRow EXCEPT ![request[r].key] = [status |-> "completed", answer |-> r]]
    BY <1>5, StoresDoes DEF Handled, Handling
  <2>2. \A k \in Key : k # request[r].key => keyRow'[k] = keyRow[k]
    BY <2>1 DEF Typed
  <2> QED BY <2>1, <2>2, KeyLeaves
<1>6. CASE Clear(r)
  <2>1. /\ RequestOf(r) /\ request'[r].key = request[r].key /\ Handled(r) /\ request'[r].at = "failed"
        /\ keyRow' = keyRow \/ keyRow' = [keyRow EXCEPT ![request[r].key] = [status |-> "none", answer |-> None]]
    BY <1>6, ClearDoes DEF Handled, Handling, SameKey
  <2>2. \A k \in Key : k # request[r].key => keyRow'[k] = keyRow[k]
    BY <2>1 DEF Typed
  <2> QED BY <2>1, <2>2, KeyLeaves
<1> QED BY <1>1, <1>2, <1>3, <1>4, <1>5, <1>6, MovesAre

LEMMA AnswerStep == ASSUME Typed, KeyInv, AnswerInv, NEW r \in Request, RequestMoves(r) PROVE AnswerInv'
<1>0. None \notin Key /\ None \notin Request /\ alike' = alike
  BY SagaAssumption DEF RequestMoves, Step, Arrive, Dies, CreateKey, Poll, ReadCart, CreateOrders, RedeemPromotion,
     ClearPromotion, SpendCredit, SaveCredit, InitializePayment, ConfirmByCredit, Undo, SaveCart, Complete, Clear
\* who is not answered yet answers nobody
<1>1. ASSUME request[r].at # "answered"
      PROVE  /\ \A k \in Key : keyRow[k].answer # r
             /\ \A s \in Request \ {r} : request[s].answer # r /\ request[r].answer # s
  BY <1>1 DEF AnswerInv
<1>2. ASSUME request[r].at # "answered", RequestOf(r), SameKey(r),
             \A k \in Key : keyRow'[k] = keyRow[k] \/ keyRow'[k].answer = None
      PROVE  AnswerInv'
  <2>1. ASSUME NEW k \in Key, NEW s \in Request, keyRow'[k].answer = s
        PROVE  keyRow'[k].status = "completed" /\ request'[s].key = k /\ request'[s].at = "answered"
    BY <1>0, <1>1, <1>2, <2>1 DEF AnswerInv, RequestOf
  <2>2. ASSUME NEW s \in Request, NEW t \in Request, request'[s].answer = t, s # t
        PROVE  /\ request'[s].at = "answered" /\ request'[t].at = "answered"
               /\ request'[s].key = request'[t].key /\ request'[s].key # None
               /\ alike' \/ request'[s].polled
    <3>1. s # r /\ t # r
      BY <1>1, <1>2, <2>2 DEF RequestOf, SameKey
    <3> QED BY <1>0, <1>2, <2>2, <3>1 DEF AnswerInv, RequestOf
  <2> QED BY <2>1, <2>2 DEF AnswerInv
<1>3. CASE InnerStep(r)
  <2>1. RequestOf(r) /\ SameKey(r) /\ keyRow' = keyRow /\ request[r].at # "answered"
    BY <1>3, InnerDoes DEF Handled, Handling
  <2> QED BY <1>2, <2>1
<1>4. CASE CreateKey(r)
  <2>1. /\ RequestOf(r) /\ SameKey(r) /\ request[r].at # "answered"
        /\ keyRow' = keyRow \/ keyRow' = [keyRow EXCEPT ![request[r].key] = [status |-> "in_flight", answer |-> None]]
    BY <1>4, CreateKeyDoes
  <2>2. \A k \in Key : keyRow'[k] = keyRow[k] \/ keyRow'[k].answer = None
    BY <2>1 DEF Typed
  <2> QED BY <1>2, <2>1, <2>2
<1>5. CASE Clear(r)
  <2>1. /\ RequestOf(r) /\ SameKey(r) /\ request[r].at # "answered"
        /\ keyRow' = keyRow \/ keyRow' = [keyRow EXCEPT ![request[r].key] = [status |-> "none", answer |-> None]]
    BY <1>5, ClearDoes
  <2>2. \A k \in Key : keyRow'[k] = keyRow[k] \/ keyRow'[k].answer = None
    BY <2>1 DEF Typed
  <2> QED BY <1>2, <2>1, <2>2
\* an answer that is read
<1>6. ASSUME request[r].at \in {"start", "poll"}, RequestOf(r), keyRow' = keyRow,
             request'[r].answer \in Request =>
               \E k \in Key : /\ keyRow[k].answer = request'[r].answer /\ request'[r].key = k
                              /\ keyRow[k].status = "completed" => request'[r].at = "answered"
                              /\ alike \/ request'[r].polled
      PROVE  AnswerInv'
  <2>1. ASSUME NEW k \in Key, NEW s \in Request, keyRow'[k].answer = s
        PROVE  keyRow'[k].status = "completed" /\ request'[s].key = k /\ request'[s].at = "answered"
    BY <1>1, <1>6, <2>1 DEF AnswerInv, RequestOf
  <2>2. ASSUME NEW s \in Request, NEW t \in Request, request'[s].answer = t, s # t
        PROVE  /\ request'[s].at = "answered" /\ request'[t].at = "answered"
               /\ request'[s].key = request'[t].key /\ request'[s].key # None
               /\ alike' \/ request'[s].polled
    <3>1. CASE s # r
      BY <1>0, <1>1, <1>6, <2>2, <3>1 DEF AnswerInv, RequestOf
    <3>2. CASE s = r
      <4>1. PICK k \in Key : /\ keyRow[k].answer = t /\ request'[r].key = k
                             /\ keyRow[k].status = "completed" => request'[r].at = "answered"
                             /\ alike \/ request'[r].polled
        BY <1>6, <2>2, <3>2
      <4>2. keyRow[k].status = "completed" /\ request[t].key = k /\ request[t].at = "answered"
        BY <4>1 DEF AnswerInv
      <4> QED BY <1>0, <1>6, <2>2, <3>2, <4>1, <4>2 DEF RequestOf
    <3> QED BY <3>1, <3>2
  <2> QED BY <2>1, <2>2 DEF AnswerInv
<1>7. ASSUME NEW k \in Key \union {None}, Arrive(r, k) PROVE AnswerInv'
  BY <1>0, <1>6, <1>7, ArriveDoes
<1>8. CASE Poll(r)
  <2>1. request[r].key \in Key
    BY <1>8 DEF KeyInv, Poll, At
  <2> QED BY <1>6, <1>8, <2>1, PollDoes
<1>9. CASE Stores(r)
  <2>1. /\ RequestOf(r) /\ request'[r].key = request[r].key /\ request[r].at # "answered" /\ request'[r].at = "answered"
        /\ request'[r].answer = r
        /\ keyRow' = IF request[r].key = None THEN keyRow ELSE [keyRow EXCEPT ![request[r].key] = [status |-> "completed", answer |-> r]]
    BY <1>9, StoresDoes
  <2>2. \A k \in Key : keyRow'[k] = IF request[r].key = k THEN [status |-> "completed", answer |-> r] ELSE keyRow[k]
    BY <1>0, <2>1 DEF Typed
  <2>3. ASSUME NEW k \in Key, NEW s \in Request, keyRow'[k].answer = s
        PROVE  keyRow'[k].status = "completed" /\ request'[s].key = k /\ request'[s].at = "answered"
    <3>1. CASE request[r].key = k
      BY <2>1, <2>2, <2>3, <3>1
    <3>2. CASE request[r].key # k
      BY <1>1, <2>1, <2>2, <2>3, <3>2 DEF AnswerInv, RequestOf
    <3> QED BY <3>1, <3>2
  <2>4. ASSUME NEW s \in Request, NEW t \in Request, request'[s].answer = t, s # t
        PROVE  /\ request'[s].at = "answered" /\ request'[t].at = "answered"
               /\ request'[s].key = request'[t].key /\ request'[s].key # None
               /\ alike' \/ request'[s].polled
    <3>1. s # r
      BY <2>1, <2>4
    <3>2. request[s].answer = t /\ t # r
      BY <1>1, <2>1, <2>4, <3>1 DEF RequestOf
    <3> QED BY <1>0, <2>1, <2>4, <3>1, <3>2 DEF AnswerInv, RequestOf
  <2> QED BY <2>3, <2>4 DEF AnswerInv
<1> QED BY <1>3, <1>4, <1>5, <1>7, <1>8, <1>9, MovesAre

-----------------------------------------------------------------------------
(* Orders, their discounts and redemptions *)

Still == order' = order /\ saving' = saving /\ redemption' = redemption
OrdersTyped ==
  /\ order \in [OrderId -> [status : Open \union {"none", "CANCELLED"}, discounted : BOOLEAN]]
  /\ redemption \in [OrderId -> {"none", "REDEEMED", "RELEASED"}]
  /\ saving \subseteq OrderId \X {"CONFIRMED", "CANCELLED"}
\* the moves of a request leave the orders of the others alone
OrderKept(r, v) ==
  /\ order'[<<r, v>>] = order[<<r, v>>] /\ redemption'[<<r, v>>] = redemption[<<r, v>>]
  /\ \A status : Saves(r, v, status)' <=> Saves(r, v, status)
OrdersKept(r) == \A v \in Vendor : OrderKept(r, v)
OthersKept(r) == \A s \in Request \ {r} : OrdersKept(s)
TroubleOf(r) == trouble \subseteq trouble' /\ \A s \in Request \ {r} : \A what : <<what, s>> \in trouble' => <<what, s>> \in trouble

LEMMA SameOrders ==
  ASSUME Typed, Still
  PROVE  OrdersTyped' /\ \A r : OthersKept(r) /\ OrdersKept(r)
BY DEF Typed, Still, OrdersTyped, OthersKept, OrdersKept, OrderKept, Saves

LEMMA OrderedDoes ==
  ASSUME Typed, NEW r \in Request, Ordered(r), redemption' = redemption, saving' = saving
  PROVE  /\ OrdersTyped' /\ OthersKept(r)
         /\ \A v \in Vendor : order'[<<r, v>>] = IF v \in basket.vendors THEN NewOrder(v) ELSE order[<<r, v>>]
<1>1. \A s \in Request : \A v \in Vendor : <<s, v>> \in OrderId
  BY DEF OrderId
<1>2. \A v \in Vendor : NewOrder(v) \in [status : Open \union {"none", "CANCELLED"}, discounted : BOOLEAN]
  BY DEF NewOrder, Open
<1>3. \A o \in OrderId : o[2] \in Vendor
  BY DEF OrderId
<1>4. OrdersTyped'
  BY <1>2, <1>3 DEF Typed, Ordered, OrdersTyped
<1>5. OthersKept(r)
  BY <1>1 DEF Typed, Ordered, OthersKept, OrdersKept, OrderKept, Saves
<1>6. \A v \in Vendor : order'[<<r, v>>] = IF v \in basket.vendors THEN NewOrder(v) ELSE order[<<r, v>>]
  BY <1>1 DEF Ordered
<1> QED BY <1>4, <1>5, <1>6

LEMMA RedeemedDoes ==
  ASSUME Typed, NEW r \in Request, NEW v \in Vendor, order' = order, saving' = saving,
         redemption' = [redemption EXCEPT ![<<r, v>>] = "REDEEMED"]
  PROVE  /\ OrdersTyped' /\ OthersKept(r) /\ redemption'[<<r, v>>] = "REDEEMED"
         /\ \A w \in Vendor \ {v} : redemption'[<<r, w>>] = redemption[<<r, w>>]
<1>1. \A s \in Request : \A w \in Vendor : <<s, w>> \in OrderId
  BY DEF OrderId
<1> QED BY <1>1 DEF Typed, OrdersTyped, OthersKept, OrdersKept, OrderKept, Saves

LEMMA UndiscountedDoes ==
  ASSUME Typed, NEW r \in Request, NEW v \in Vendor, redemption' = redemption, saving' = saving,
         order' = [order EXCEPT ![<<r, v>>].discounted = FALSE]
  PROVE  /\ OrdersTyped' /\ OthersKept(r)
         /\ order'[<<r, v>>].discounted = FALSE /\ order'[<<r, v>>].status = order[<<r, v>>].status
         /\ \A w \in Vendor \ {v} : order'[<<r, w>>] = order[<<r, w>>]
<1>1. \A s \in Request : \A w \in Vendor : <<s, w>> \in OrderId
  BY DEF OrderId
<1> QED BY <1>1 DEF Typed, OrdersTyped, OthersKept, OrdersKept, OrderKept, Saves

LEMMA NotesDoes == ASSUME NEW r, NEW what, Notes(what, r) PROVE TroubleOf(r) /\ <<what, r>> \in trouble'
BY DEF Notes, TroubleOf
LEMMA NoTrouble == ASSUME NEW r, trouble' = trouble PROVE TroubleOf(r)
BY DEF TroubleOf

\* what a request's own move may do to the checkout it makes
OwnMove(r) == OrdersOf(r)' /\ BoughtOf(r)' /\ DiscountOf(r)'

\* a request that has ordered nothing yet
LEMMA NothingOrdered ==
  ASSUME Typed, NEW r \in Request, OrdersOf(r), request[r].at \in NotOrdered, OrdersKept(r), basket' = basket,
         request'[r].at \notin {"redeem", "clearPromotion", "complete"}
  PROVE  OwnMove(r) /\ ~Bought(r)'
<1>1. \A v \in Vendor : /\ order'[<<r, v>>].status = "none" /\ redemption'[<<r, v>>] = "none"
                        /\ \A status : ~Saves(r, v, status)'
  BY DEF OrdersOf, OrdersKept, OrderKept
<1>2. ~Lives(r)'
  BY <1>1 DEF Lives, Open
<1> QED BY <1>1, <1>2 DEF OwnMove, OrdersOf, BoughtOf, DiscountOf, Bought, Open, Redeeming

\* a move that changes no order, by a request that redeems no more
LEMMA OrdersStay ==
  ASSUME Typed, NEW r \in Request, OrdersOf(r), DiscountOf(r), OrdersKept(r), basket' = basket, TroubleOf(r),
         request'[r].at \notin NotOrdered \union {"redeem", "clearPromotion"},
         \A v \in Vendor : Redeeming(r, v) => <<"stuck", r>> \in trouble'
  PROVE  OrdersOf(r)' /\ DiscountOf(r)' /\ (Bought(r)' => Bought(r))
<1>1. OrdersOf(r)'
  BY DEF OrdersOf, OrdersKept, OrderKept
<1>2. \A kinds : Trouble(r, kinds) => Trouble(r, kinds)'
  BY DEF Trouble, TroubleOf
<1>3. \A v \in Vendor : ~Redeeming(r, v)' /\ (Redeeming(r, v) => Trouble(r, Lost)')
  BY DEF Redeeming, Trouble, Lost
<1>4. DiscountOf(r)'
  BY <1>2, <1>3 DEF DiscountOf, OrdersKept, OrderKept
<1>5. Bought(r)' => Bought(r)
  BY DEF Bought, Lives, OrdersKept, OrderKept, Abandoned, TroubleOf
<1> QED BY <1>1, <1>4, <1>5

\* what the order service may do to an order while its checkout goes on
Slides(r, v) == LET o == <<r, v>> IN
  /\ order'[o].discounted = order[o].discounted
  /\ order'[o].status = "none" <=> order[o].status = "none"
  /\ order[o].status = "none" => redemption'[o] = redemption[o] /\ \A status : Saves(r, v, status)' => Saves(r, v, status)
  /\ order'[o].status \in Open => order[o].status \in Open \/ Abandoned(r)'
  /\ redemption'[o] = "REDEEMED" =>
       /\ redemption[o] = "REDEEMED"
       /\ \/ order'[o].status \in Open /\ (Ending(r, v)' => Ending(r, v))
          \/ order[o].status \notin Open \/ Ending(r, v) \/ <<"unreleased", r>> \in trouble'
  /\ order'[o].status \in Open => \/ order[o].status \in Open /\ redemption'[o] = redemption[o] /\ (Ending(r, v) => Ending(r, v)')
                                  \/ Ending(r, v)'
                                  \/ \E what \in {"unsaved", "overwritten"} : <<what, r>> \in trouble'

LEMMA SlideKeeps ==
  ASSUME NEW r \in Request, OrdersOf(r), DiscountOf(r), TroubleOf(r), basket' = basket, \A v \in Vendor : Slides(r, v),
         \A v \in Vendor : Redeeming(r, v)' <=> Redeeming(r, v),
         request'[r].at \in NotOrdered => request[r].at \in NotOrdered,
         request'[r].at = "clearPromotion" => request'[r].now \subseteq request'[r].todo
  PROVE  OrdersOf(r)' /\ DiscountOf(r)' /\ (Bought(r)' => Bought(r))
<1>1. OrdersOf(r)'
  <2>1. ASSUME NEW v \in Vendor, NEW status, Saves(r, v, status)' PROVE order'[<<r, v>>].status # "none"
    BY <2>1 DEF OrdersOf, Slides
  <2>2. ASSUME NEW v \in Vendor, request'[r].at \in NotOrdered
        PROVE  order'[<<r, v>>].status = "none" /\ redemption'[<<r, v>>] = "none"
    BY <2>2 DEF OrdersOf, Slides
  <2>3. ASSUME NEW v \in Vendor, order'[<<r, v>>].status # "none" PROVE v \in basket'.vendors
    BY <2>3 DEF OrdersOf, Slides
  <2> QED BY <2>1, <2>2, <2>3 DEF OrdersOf
<1>2. \A kinds : Trouble(r, kinds) => Trouble(r, kinds)'
  BY DEF Trouble, TroubleOf
<1>3. \A v, status : Ending(r, v) <=> Saves(r, v, "CANCELLED")
  BY DEF Ending, Saves
<1>4. \A v : Ending(r, v)' <=> Saves(r, v, "CANCELLED")'
  BY DEF Ending, Saves
<1>5. ASSUME NEW v \in Vendor, Redeeming(r, v)'
      PROVE  /\ order'[<<r, v>>].status # "none" => order'[<<r, v>>].discounted
             /\ redemption'[<<r, v>>] = "REDEEMED" => Trouble(r, {"redeemLost"})'
  BY <1>2, <1>5 DEF DiscountOf, Slides
<1>6. ASSUME NEW v \in Vendor, redemption'[<<r, v>>] = "REDEEMED"
      PROVE  (order'[<<r, v>>].status \in Open /\ order'[<<r, v>>].discounted /\ ~Saves(r, v, "CANCELLED")') \/ Trouble(r, Kept)'
  <2>1. (order[<<r, v>>].status \in Open /\ order[<<r, v>>].discounted /\ ~Ending(r, v)) \/ Trouble(r, Kept)'
    BY <1>2, <1>3, <1>6 DEF DiscountOf, Slides
  <2>2. <<"unreleased", r>> \in trouble' => Trouble(r, Kept)'
    BY DEF Trouble, Kept
  <2> QED BY <1>4, <1>6, <2>1, <2>2 DEF Slides
<1>7. ASSUME NEW v \in Vendor, order'[<<r, v>>].status \in Open, order'[<<r, v>>].discounted
      PROVE  redemption'[<<r, v>>] = "REDEEMED" \/ Redeeming(r, v)' \/ Saves(r, v, "CANCELLED")' \/ Trouble(r, Lost)'
  <2>1. \A what \in {"unsaved", "overwritten"} : <<what, r>> \in trouble' => Trouble(r, Lost)'
    BY DEF Trouble, Lost
  <2>2. order[<<r, v>>].status \in Open =>
          redemption[<<r, v>>] = "REDEEMED" \/ Redeeming(r, v)' \/ Ending(r, v) \/ Trouble(r, Lost)'
    BY <1>2, <1>3, <1>7 DEF DiscountOf, Slides
  <2> QED BY <1>4, <1>7, <2>1, <2>2 DEF Slides
<1>8. DiscountOf(r)'
  BY <1>5, <1>6, <1>7 DEF DiscountOf
<1>9. Abandoned(r) => Abandoned(r)'
  BY DEF Abandoned, TroubleOf
<1>10. Bought(r)' => Bought(r)
  BY <1>9 DEF Bought, Lives, Slides
<1> QED BY <1>1, <1>8, <1>10

\* transition(), its catalog call and its save
LEMMA ReleaseSlides ==
  ASSUME Typed, NEW r \in Request, NEW v \in Vendor, Release(<<r, v>>)
  PROVE  order' = order /\ OrdersTyped' /\ OthersKept(r) /\ TroubleOf(r) /\ \A w \in Vendor : Slides(r, w)
<1>1. \A s \in Request : \A w \in Vendor : <<s, w>> \in OrderId
  BY DEF OrderId
<1>2. order' = order /\ order[<<r, v>>].status \in Open
  BY DEF Release
<1>3. /\ saving' \in {saving, saving \union {<<<<r, v>>, "CANCELLED">>}}
      /\ redemption' \in {redemption, Released(<<r, v>>)}
      /\ \/ Ending(r, v)' /\ (redemption'[<<r, v>>] # "REDEEMED" \/ <<"unreleased", r>> \in trouble')
         \/ redemption'[<<r, v>>] # "REDEEMED" /\ <<"unsaved", r>> \in trouble'
  <2>1. Released(<<r, v>>)[<<r, v>>] # "REDEEMED"
    BY <1>1 DEF Released, Typed
  <2>2. \A what : Notes(what, <<r, v>>[1]) => <<what, r>> \in trouble'
    BY DEF Notes
  <2> QED BY <2>1, <2>2 DEF Release, Ending
<1>4. TroubleOf(r)
  <2>1. trouble' = trouble \/ \E what : Notes(what, r)
    BY DEF Release
  <2> QED BY <2>1, NotesDoes, NoTrouble
<1>5. /\ redemption' \in [OrderId -> {"none", "REDEEMED", "RELEASED"}]
      /\ \A o \in OrderId : o # <<r, v>> => redemption'[o] = redemption[o]
      /\ redemption'[<<r, v>>] = "REDEEMED" => redemption[<<r, v>>] = "REDEEMED"
  BY <1>1, <1>3 DEF Released, Typed
<1>6. \A s, w, status : <<s, w>> # <<r, v>> => (Saves(s, w, status)' <=> Saves(s, w, status))
  BY <1>3 DEF Saves
<1>7. OrdersTyped'
  BY <1>1, <1>2, <1>3, <1>5 DEF OrdersTyped, Typed
<1>8. OthersKept(r)
  BY <1>1, <1>2, <1>5, <1>6 DEF OthersKept, OrdersKept, OrderKept
<1>9. ASSUME NEW w \in Vendor, w # v PROVE Slides(r, w)
  <2>1. OrderKept(r, w)
    BY <1>1, <1>2, <1>5, <1>6, <1>9 DEF OrderKept
  <2>2. Ending(r, w)' <=> Ending(r, w)
    BY <2>1 DEF OrderKept, Ending, Saves
  <2> QED BY <2>1, <2>2 DEF Slides, OrderKept
<1>10. Slides(r, v)
  BY <1>2, <1>3, <1>5 DEF Slides, Open
<1> QED BY <1>2, <1>4, <1>7, <1>8, <1>9, <1>10

LEMMA ConfirmingSlides ==
  ASSUME Typed, NEW r \in Request, NEW v \in Vendor, UNCHANGED <<order, redemption, trouble>>,
         order[<<r, v>>].status = "PENDING_PAYMENT", saving' = saving \union {<<<<r, v>>, "CONFIRMED">>}
  PROVE  OrdersTyped' /\ OthersKept(r) /\ TroubleOf(r) /\ \A w \in Vendor : Slides(r, w)
<1>1. \A s \in Request : \A w \in Vendor : <<s, w>> \in OrderId
  BY DEF OrderId
<1>2. OrdersTyped'
  BY <1>1 DEF OrdersTyped, Typed
<1>3. \A s, w, status : <<s, w>> # <<r, v>> => (Saves(s, w, status)' <=> Saves(s, w, status))
  BY DEF Saves
<1>4. OthersKept(r)
  BY <1>3 DEF OthersKept, OrdersKept, OrderKept
<1>5. \A w : Ending(r, w)' <=> Ending(r, w)
  BY DEF Ending
<1>6. ASSUME NEW w \in Vendor PROVE Slides(r, w)
  BY <1>3, <1>5 DEF Slides, Open
<1> QED BY <1>2, <1>4, <1>6, NoTrouble

LEMMA SaveSlides ==
  ASSUME Typed, NEW r \in Request, NEW v \in Vendor, NEW status \in {"CONFIRMED", "CANCELLED"}, SaveStatus(<<r, v>>, status),
         OrdersOf(r)
  PROVE  OrdersTyped' /\ OthersKept(r) /\ TroubleOf(r) /\ \A w \in Vendor : Slides(r, w)
<1>1. \A s \in Request : \A w \in Vendor : <<s, w>> \in OrderId
  BY DEF OrderId
<1>2. /\ Saves(r, v, status) /\ saving' = saving \ {<<<<r, v>>, status>>} /\ redemption' = redemption
      /\ order[<<r, v>>].status # "none"
  BY DEF SaveStatus, Saves, OrdersOf
<1>3. TroubleOf(r)
  <2>1. trouble' = trouble \/ \E what : Notes(what, r)
    BY DEF SaveStatus
  <2> QED BY <2>1, NotesDoes, NoTrouble
<1>4. \/ /\ order' = [order EXCEPT ![<<r, v>>].status = status]
         /\ order[<<r, v>>].status = "CANCELLED" /\ status = "CONFIRMED" => <<"overwritten", r>> \in trouble'
      \/ status = "CANCELLED" /\ order' = order /\ <<"unsaved", r>> \in trouble'
  BY DEF SaveStatus, Notes
<1>0. <<r, v>> \in OrderId /\ order[<<r, v>>] \in [status : Open \union {"none", "CANCELLED"}, discounted : BOOLEAN]
  BY <1>1 DEF Typed
<1>5. /\ order'[<<r, v>>].discounted = order[<<r, v>>].discounted
      /\ \A o \in OrderId : o # <<r, v>> => order'[o] = order[o]
      /\ order' \in [OrderId -> [status : Open \union {"none", "CANCELLED"}, discounted : BOOLEAN]]
  <2>1. CASE order' = order
    BY <2>1 DEF Typed
  <2>2. CASE order' = [order EXCEPT ![<<r, v>>].status = status]
    <3>1. status \in Open \union {"none", "CANCELLED"}
      BY DEF Open
    <3>2. order' \in [OrderId -> [status : Open \union {"none", "CANCELLED"}, discounted : BOOLEAN]]
      BY <1>0, <2>2, <3>1 DEF Typed
    <3>3. order'[<<r, v>>].discounted = order[<<r, v>>].discounted
      BY <1>0, <2>2 DEF Typed
    <3>4. \A o \in OrderId : o # <<r, v>> => order'[o] = order[o]
      BY <1>0, <2>2 DEF Typed
    <3> QED BY <3>2, <3>3, <3>4
  <2> QED BY <1>4, <2>1, <2>2
<1>6. \/ /\ order'[<<r, v>>].status = status
         /\ order[<<r, v>>].status = "CANCELLED" /\ status = "CONFIRMED" => <<"overwritten", r>> \in trouble'
      \/ status = "CANCELLED" /\ order' = order /\ <<"unsaved", r>> \in trouble'
  BY <1>1, <1>4 DEF Typed
<1>7. \A s, w, st : <<s, w>> # <<r, v>> => (Saves(s, w, st)' <=> Saves(s, w, st))
  BY <1>2 DEF Saves
<1>8. OrdersTyped'
  BY <1>2, <1>5 DEF OrdersTyped, Typed
<1>9. OthersKept(r)
  BY <1>1, <1>2, <1>5, <1>7 DEF OthersKept, OrdersKept, OrderKept
<1>10. ASSUME NEW w \in Vendor, w # v PROVE Slides(r, w)
  <2>1. OrderKept(r, w)
    BY <1>1, <1>2, <1>5, <1>7, <1>10 DEF OrderKept
  <2>2. Ending(r, w)' <=> Ending(r, w)
    BY <2>1 DEF OrderKept, Ending, Saves
  <2> QED BY <2>1, <2>2 DEF Slides, OrderKept
<1>11. Slides(r, v)
  <2>1. /\ Ending(r, v)' => Ending(r, v)
        /\ status = "CANCELLED" => Ending(r, v)
        /\ status = "CONFIRMED" => (Ending(r, v) => Ending(r, v)')
    BY <1>2 DEF Ending, Saves
  <2>2. order[<<r, v>>].status \in {"PENDING_PAYMENT", "CONFIRMED", "CANCELLED"}
    BY <1>1, <1>2 DEF Typed, Open
  <2>3. CASE status = "CONFIRMED"
    <3>1. order'[<<r, v>>].status = "CONFIRMED" /\ (order[<<r, v>>].status = "CANCELLED" => <<"overwritten", r>> \in trouble')
      BY <1>6, <2>3
    <3>2. CASE order[<<r, v>>].status = "CANCELLED"
      BY <1>2, <1>5, <2>1, <3>1, <3>2 DEF Slides, Open, Abandoned
    <3>3. CASE order[<<r, v>>].status \in Open
      BY <1>2, <1>5, <2>1, <2>3, <3>1, <3>3 DEF Slides, Open
    <3> QED BY <2>2, <3>2, <3>3 DEF Open
  <2>4. CASE status = "CANCELLED"
    BY <1>2, <1>5, <1>6, <2>1, <2>2, <2>4 DEF Slides, Open
  <2> QED BY <2>3, <2>4
<1> QED BY <1>3, <1>8, <1>9, <1>10, <1>11

\* a move, seen from the orders it is about
Fine(r) ==
  /\ OwnMove(r) /\ OthersKept(r) /\ TroubleOf(r) /\ OrdersTyped'
  /\ Bought(r)' => Bought(r) \/ request[r].at = "createOrders"

LEMMA CreateOrdersFine ==
  ASSUME Typed, NEW r \in Request, OrdersOf(r), CreateOrders(r) PROVE Fine(r)
<1>0. request[r].at = "createOrders" /\ redemption' = redemption /\ saving' = saving /\ basket' = basket
  BY DEF CreateOrders, At
<1>1. \A v \in Vendor : /\ order[<<r, v>>].status = "none" /\ redemption'[<<r, v>>] = "none"
                        /\ \A status : ~Saves(r, v, status)'
  BY <1>0 DEF OrdersOf, NotOrdered, Saves
<1>2. CASE request'[r].at = "clear" /\ order' = order /\ trouble' = trouble
  <2>1. OrdersTyped' /\ OthersKept(r) /\ OrdersKept(r) /\ TroubleOf(r)
    BY <1>0, <1>2, SameOrders, NoTrouble DEF Still
  <2>2. OwnMove(r)
    BY <1>0, <1>2, <2>1, NothingOrdered DEF NotOrdered
  <2> QED BY <1>0, <2>1, <2>2 DEF Fine
<1>3. CASE Ordered(r) /\ \/ request'[r].at = "redeem" /\ request'[r].todo = basket.promoted /\ trouble' = trouble
                         \/ request'[r].at = "clear" /\ Notes("abandoned", r)
  <2>1. OrdersTyped' /\ OthersKept(r) /\ TroubleOf(r)
    BY <1>0, <1>3, OrderedDoes, NotesDoes, NoTrouble
  <2>2. \A v \in Vendor : order'[<<r, v>>] = IF v \in basket.vendors THEN NewOrder(v) ELSE order[<<r, v>>]
    BY <1>0, <1>3, OrderedDoes
  <2>3. \A v \in Vendor : /\ order'[<<r, v>>].status # "none" => v \in basket.vendors
                          /\ order'[<<r, v>>].status # "none" => (order'[<<r, v>>].discounted <=> v \in basket.promoted)
    <3>1. \A v \in Vendor : NewOrder(v).status # "none" /\ (NewOrder(v).discounted <=> v \in basket.promoted)
      BY DEF NewOrder
    <3>2. ASSUME NEW v \in Vendor, v \in basket.vendors PROVE order'[<<r, v>>] = NewOrder(v)
      BY <2>2, <3>2
    <3>3. ASSUME NEW v \in Vendor, v \notin basket.vendors PROVE order'[<<r, v>>].status = "none"
      BY <1>1, <2>2, <3>3
    <3> QED BY <3>1, <3>2, <3>3 DEF Open
  <2>4. OrdersOf(r)'
    BY <1>0, <1>1, <1>3, <2>3 DEF OrdersOf, NotOrdered
  <2>5. CASE request'[r].at = "redeem" /\ request'[r].todo = basket.promoted
    <3>1. BoughtOf(r)'
      BY <2>5 DEF BoughtOf, Handled, Handling
    <3>2. DiscountOf(r)'
      BY <1>1, <2>3, <2>5 DEF DiscountOf, Redeeming, Open
    <3> QED BY <1>0, <2>1, <2>4, <3>1, <3>2 DEF Fine, OwnMove
  <2>6. CASE request'[r].at = "clear" /\ <<"abandoned", r>> \in trouble'
    <3>1. BoughtOf(r)'
      BY <2>6 DEF BoughtOf, Bought, Abandoned
    <3>2. DiscountOf(r)'
      BY <1>1, <2>6 DEF DiscountOf, Redeeming, Trouble, Lost
    <3> QED BY <1>0, <2>1, <2>4, <3>1, <3>2 DEF Fine, OwnMove
  <2> QED BY <1>3, <2>5, <2>6, NotesDoes
<1> QED BY <1>2, <1>3, OrdersDoes

LEMMA RedeemFine ==
  ASSUME Typed, NEW r \in Request, OrdersOf(r), DiscountOf(r), NEW v \in Vendor, RedeemPromotion(r, v) PROVE Fine(r)
<1>0. request[r].at = "redeem" /\ Redeeming(r, v) /\ order' = order /\ saving' = saving /\ basket' = basket
  BY DEF RedeemPromotion, At, Redeeming
<1>1. OrdersTyped' /\ OthersKept(r) /\ TroubleOf(r)
  BY <1>0, RedeemDoes, RedeemedDoes, SameOrders, NotesDoes, NoTrouble DEF Still
<1>2. request'[r].at \in {"redeem", "clearPromotion"}
  BY RedeemDoes
<1>3. OrdersOf(r)' /\ BoughtOf(r)' /\ (Bought(r)' => Bought(r))
  BY <1>0, <1>1, <1>2 DEF OrdersOf, BoughtOf, NotOrdered, Handled, Handling, Bought, Lives, Abandoned, TroubleOf, Saves
<1>4. \A kinds : Trouble(r, kinds) => Trouble(r, kinds)'
  BY <1>1 DEF Trouble, TroubleOf
<1>5. CASE /\ request'[r].at = "redeem" /\ request'[r].todo = request[r].todo \ {v} /\ redemption' = [redemption EXCEPT ![<<r, v>>] = "REDEEMED"]
           /\ IF order[<<r, v>>].status \in Open /\ ~Ending(r, v) THEN trouble' = trouble ELSE Notes("late", r)
  <2>1. redemption'[<<r, v>>] = "REDEEMED" /\ \A w \in Vendor \ {v} : redemption'[<<r, w>>] = redemption[<<r, w>>]
    BY <1>0, <1>5, RedeemedDoes
  <2>2. ~Redeeming(r, v)' /\ \A w \in Vendor \ {v} : Redeeming(r, w)' <=> Redeeming(r, w)
    BY <1>0, <1>5 DEF Redeeming
  <2>3. (order'[<<r, v>>].status \in Open /\ order'[<<r, v>>].discounted /\ ~Saves(r, v, "CANCELLED")') \/ Trouble(r, Kept)'
    BY <1>0, <1>5, NotesDoes DEF DiscountOf, Trouble, Kept, Ending, Saves, Open
  <2>4. \A w \in Vendor \ {v} :
          /\ order'[<<r, w>>] = order[<<r, w>>] /\ redemption'[<<r, w>>] = redemption[<<r, w>>]
          /\ Redeeming(r, w)' <=> Redeeming(r, w)
          /\ Saves(r, w, "CANCELLED")' <=> Saves(r, w, "CANCELLED")
    BY <1>0, <2>1, <2>2 DEF Saves
  <2>5. DiscountOf(r)'
    BY <1>4, <1>5, <2>1, <2>2, <2>3, <2>4 DEF DiscountOf
  <2> QED BY <1>1, <1>3, <2>5 DEF Fine, OwnMove
<1>6. CASE /\ request'[r].at = "clearPromotion" /\ request'[r].todo = request[r].todo /\ request'[r].now = {v}
           /\ \/ redemption' = redemption
              \/ redemption' = [redemption EXCEPT ![<<r, v>>] = "REDEEMED"] /\ Notes("redeemLost", r)
  <2>1. \A w \in Vendor : redemption'[<<r, w>>] = redemption[<<r, w>>] \/ Trouble(r, {"redeemLost"})'
    BY <1>0, <1>6, RedeemedDoes, NotesDoes DEF Trouble
  <2>2. \A w \in Vendor : (redemption[<<r, w>>] = "REDEEMED" => redemption'[<<r, w>>] = "REDEEMED")
    BY <1>0, <1>6, RedeemedDoes
  <2>3. \A w \in Vendor : Redeeming(r, w)' <=> Redeeming(r, w)
    BY <1>0, <1>6 DEF Redeeming
  <2>4. v \in request[r].todo
    BY <1>0 DEF Redeeming
  <2>5. (Trouble(r, {"redeemLost"})' => Trouble(r, Kept)') /\ \A w : Saves(r, w, "CANCELLED")' <=> Saves(r, w, "CANCELLED")
    BY <1>0 DEF Trouble, Kept, Saves
  <2>6. DiscountOf(r)'
    BY <1>0, <1>4, <1>6, <2>1, <2>2, <2>3, <2>4, <2>5 DEF DiscountOf
  <2> QED BY <1>1, <1>3, <2>6 DEF Fine, OwnMove
<1> QED BY <1>5, <1>6, RedeemDoes

LEMMA ClearPromotionFine ==
  ASSUME Typed, NEW r \in Request, OrdersOf(r), DiscountOf(r), NEW v \in Vendor, ClearPromotion(r, v) PROVE Fine(r)
<1>0. request[r].at = "clearPromotion" /\ Redeeming(r, v) /\ redemption' = redemption /\ saving' = saving /\ basket' = basket
  BY DEF ClearPromotion, At, Redeeming, DiscountOf
<1>1. OrdersTyped' /\ OthersKept(r) /\ TroubleOf(r)
  BY <1>0, ClearPromotionDoes, UndiscountedDoes, SameOrders, NotesDoes, NoTrouble DEF Still
<1>2. request'[r].at = "redeem" /\ request'[r].todo = request[r].todo \ {v}
  BY ClearPromotionDoes
<1>3. \A w \in Vendor : /\ order'[<<r, w>>].status = order[<<r, w>>].status
                        /\ w # v => order'[<<r, w>>].discounted = order[<<r, w>>].discounted
  <2>1. CASE order' = order
    BY <2>1
  <2>2. CASE order' = [order EXCEPT ![<<r, v>>].discounted = FALSE]
    BY <1>0, <2>2, UndiscountedDoes
  <2> QED BY <2>1, <2>2, ClearPromotionDoes
<1>4. OrdersOf(r)' /\ BoughtOf(r)' /\ (Bought(r)' => Bought(r))
  BY <1>0, <1>1, <1>2, <1>3 DEF OrdersOf, BoughtOf, NotOrdered, Handled, Handling, Bought, Lives, Abandoned, TroubleOf, Saves
<1>5. \A kinds : Trouble(r, kinds) => Trouble(r, kinds)'
  BY <1>1 DEF Trouble, TroubleOf
<1>6. ~Redeeming(r, v)' /\ \A w \in Vendor \ {v} : Redeeming(r, w)' <=> Redeeming(r, w)
  BY <1>0, <1>2 DEF Redeeming
<1>7. redemption'[<<r, v>>] = "REDEEMED" => Trouble(r, Kept)'
  <2>1. redemption'[<<r, v>>] = "REDEEMED" => Trouble(r, {"redeemLost"})'
    BY <1>0, <1>5 DEF DiscountOf
  <2> QED BY <2>1 DEF Trouble, Kept
<1>8. order'[<<r, v>>].status \in Open /\ order'[<<r, v>>].discounted => Trouble(r, Lost)'
  BY <1>0, ClearPromotionDoes, UndiscountedDoes, NotesDoes DEF Trouble, Lost
<1>9. \A w : Saves(r, w, "CANCELLED")' <=> Saves(r, w, "CANCELLED")
  BY <1>0 DEF Saves
<1>10. DiscountOf(r)'
  BY <1>0, <1>2, <1>3, <1>5, <1>6, <1>7, <1>8, <1>9 DEF DiscountOf
<1> QED BY <1>1, <1>4, <1>10 DEF Fine, OwnMove

\* a move that leaves every order alone
LEMMA QuietFine ==
  ASSUME Typed, NEW r \in Request, OrdersOf(r), DiscountOf(r), Still,
         basket' = basket, TroubleOf(r), request'[r].at \notin NotOrdered \union {"redeem", "clearPromotion"},
         \A v \in Vendor : Redeeming(r, v) => <<"stuck", r>> \in trouble',
         Bought(r) => BoughtOf(r)', ~Bought(r)' => BoughtOf(r)'
  PROVE  Fine(r)
<1>1. OrdersTyped' /\ OthersKept(r) /\ OrdersKept(r)
  BY SameOrders
<1>2. OrdersOf(r)' /\ DiscountOf(r)' /\ (Bought(r)' => Bought(r))
  BY <1>1, OrdersStay
<1> QED BY <1>1, <1>2 DEF Fine, OwnMove

LEMMA ConfirmFine ==
  ASSUME Typed, NEW r \in Request, OrdersOf(r), BoughtOf(r), DiscountOf(r), ConfirmByCredit(r) PROVE Fine(r)
<1>0. basket' = basket /\ request[r].at = "pay" /\ UNCHANGED <<order, redemption>> /\ \A v \in Vendor : ~Redeeming(r, v)
  BY DEF ConfirmByCredit, At, Redeeming
<1>1. CASE /\ request'[r].at = "pay" /\ trouble' = trouble
           /\ \E v \in Vendor : /\ order[<<r, v>>].status = "PENDING_PAYMENT"
                                /\ saving' = saving \union {<<<<r, v>>, "CONFIRMED">>}
  <2>1. OrdersTyped' /\ OthersKept(r) /\ TroubleOf(r) /\ \A v \in Vendor : Slides(r, v)
    BY <1>0, <1>1, ConfirmingSlides
  <2>2. \A v \in Vendor : ~Redeeming(r, v)'
    BY <1>1 DEF Redeeming
  <2>3. OrdersOf(r)' /\ DiscountOf(r)' /\ (Bought(r)' => Bought(r))
    BY <1>0, <1>1, <2>1, <2>2, SlideKeeps DEF NotOrdered
  <2>4. BoughtOf(r)'
    BY <1>1 DEF BoughtOf, Handled, Handling
  <2> QED BY <2>1, <2>3, <2>4 DEF Fine, OwnMove
<1>2. CASE /\ saving' = saving
           /\ (request'[r].at = "saveCart" /\ trouble' = trouble) \/ (request'[r].at = "clear" /\ Notes("abandoned", r))
  <2>1. Still /\ TroubleOf(r)
    BY <1>0, <1>2, NotesDoes, NoTrouble DEF Still
  <2>2. BoughtOf(r)'
    BY <1>2, NotesDoes DEF BoughtOf, Handled, Handling, Bought, Abandoned
  <2> QED BY <1>0, <1>2, <2>1, <2>2, QuietFine DEF NotOrdered
<1> QED BY <1>1, <1>2, ConfirmDoes

LEMMA UndoFine ==
  ASSUME Typed, NEW r \in Request, OrdersOf(r), BoughtOf(r), DiscountOf(r), Undo(r) PROVE Fine(r)
<1>0. request[r].at = "undo" /\ basket' = basket /\ cart' = cart /\ \A v \in Vendor : ~Redeeming(r, v)
  BY DEF Undo, At, Redeeming
<1>1. CASE request[r].todo = {} /\ request'[r].at = "clear" /\ Still /\ trouble' = trouble
  <2>1. OrdersTyped' /\ OthersKept(r) /\ OrdersKept(r) /\ TroubleOf(r)
    BY <1>1, SameOrders, NoTrouble
  <2>2. OrdersOf(r)' /\ DiscountOf(r)' /\ (Bought(r)' => Bought(r))
    BY <1>0, <1>1, <2>1, OrdersStay DEF NotOrdered
  <2>3. ~Bought(r)
    BY <1>0, <1>1 DEF BoughtOf, Bought, Lives
  <2> QED BY <1>1, <2>1, <2>2, <2>3 DEF Fine, OwnMove, BoughtOf
<1>2. ASSUME NEW v \in Vendor, request'[r].at = "undo", request'[r].todo = request[r].todo \ {v}, Still,
             \/ order[<<r, v>>].status \notin Open /\ trouble' = trouble
             \/ Notes("abandoned", r)
      PROVE  Fine(r)
  <2>1. OrdersTyped' /\ OthersKept(r) /\ OrdersKept(r) /\ TroubleOf(r)
    BY <1>2, SameOrders, NoTrouble, NotesDoes
  <2>2. OrdersOf(r)' /\ DiscountOf(r)' /\ (Bought(r)' => Bought(r))
    BY <1>0, <1>2, <2>1, OrdersStay DEF NotOrdered
  <2>3. BoughtOf(r)'
    BY <1>0, <1>2, NotesDoes DEF Still, BoughtOf, Handled, Handling, Abandoned
  <2> QED BY <2>1, <2>2, <2>3 DEF Fine, OwnMove
<1>3. ASSUME NEW v \in Vendor, request'[r].at = "undo", request'[r].todo = request[r].todo, Release(<<r, v>>)
      PROVE  Fine(r)
  <2>1. order' = order /\ OrdersTyped' /\ OthersKept(r) /\ TroubleOf(r) /\ \A w \in Vendor : Slides(r, w)
    BY <1>3, ReleaseSlides
  <2>2. \A w \in Vendor : ~Redeeming(r, w)'
    BY <1>3 DEF Redeeming
  <2>3. OrdersOf(r)' /\ DiscountOf(r)' /\ (Bought(r)' => Bought(r))
    BY <1>0, <1>3, <2>1, <2>2, SlideKeeps DEF NotOrdered
  <2>4. Abandoned(r) => Abandoned(r)'
    BY <2>1 DEF Abandoned, TroubleOf
  <2>5. BoughtOf(r)'
    BY <1>0, <1>3, <2>1, <2>4 DEF BoughtOf, Handled, Handling
  <2> QED BY <2>1, <2>3, <2>5 DEF Fine, OwnMove
<1> QED BY <1>1, <1>2, <1>3, UndoDoes DEF Still, orders

LEMMA EarlyFine ==
  ASSUME Typed, NEW r \in Request, OrdersOf(r), request[r].at \in NotOrdered, Still,
         basket' = basket, TroubleOf(r), request'[r].at \notin {"redeem", "clearPromotion", "complete"}
  PROVE  Fine(r) /\ ~Bought(r)'
<1>1. OrdersTyped' /\ OthersKept(r) /\ OrdersKept(r)
  BY SameOrders
<1> QED BY <1>1, NothingOrdered DEF Fine

LEMMA CreditFine ==
  ASSUME Typed, NEW r \in Request, OrdersOf(r), DiscountOf(r), SpendCredit(r) \/ SaveCredit(r) PROVE Fine(r)
<1>1. /\ Still
      /\ \/ request'[r].at \in {"saveCredit", "pay"}
         \/ request'[r].at = "clear" /\ <<"abandoned", r>> \in trouble'
  BY CreditDoes DEF Still
<1>2. basket' = basket /\ TroubleOf(r) /\ \A v \in Vendor : ~Redeeming(r, v)
  BY DEF SpendCredit, SaveCredit, At, Redeeming, TroubleOf, Notes
<1>3. BoughtOf(r)'
  BY <1>1 DEF BoughtOf, Handled, Handling, Bought, Abandoned
<1> QED BY <1>1, <1>2, <1>3, QuietFine DEF NotOrdered

LEMMA PaymentFine ==
  ASSUME Typed, NEW r \in Request, OrdersOf(r), DiscountOf(r), InitializePayment(r) PROVE Fine(r)
<1>1. Still /\ basket' = basket /\ trouble' = trouble /\ \A v \in Vendor : ~Redeeming(r, v)
  BY DEF InitializePayment, At, Redeeming, Still, orders
<1>2. request'[r].at = "saveCart" \/ (request'[r].at = "undo" /\ request'[r].todo = basket.vendors)
  BY GoesDoes, UndoesDoes DEF InitializePayment
<1>3. \A v \in Vendor \ basket.vendors : order'[<<r, v>>].status \notin Open
  BY <1>1 DEF OrdersOf, Open, Still
<1>4. BoughtOf(r)'
  BY <1>2, <1>3 DEF BoughtOf, Handled, Handling
<1> QED BY <1>1, <1>2, <1>4, QuietFine, NoTrouble DEF NotOrdered

\* the moves that only go on
LEMMA EndsFine ==
  ASSUME Typed, NEW r \in Request, OrdersOf(r), BoughtOf(r), DiscountOf(r),
         SaveCart(r) \/ Dies(r) \/ Complete(r) \/ Clear(r)
  PROVE  Fine(r)
<1>1. Still /\ basket' = basket /\ TroubleOf(r)
  BY NotesDoes, NoTrouble DEF SaveCart, Dies, Complete, Clear, services, orders, Still
<1>2. CASE SaveCart(r)
  <2>1. \/ request'[r].at = "complete" /\ cart' = "CHECKED_OUT"
        \/ request'[r].at = "clear" /\ <<"abandoned", r>> \in trouble'
    BY <1>2, GoesDoes, NotesDoes DEF SaveCart
  <2>2. BoughtOf(r)'
    BY <2>1 DEF BoughtOf, Handled, Handling, Bought, Abandoned
  <2>3. \A v \in Vendor : ~Redeeming(r, v)
    BY <1>2 DEF SaveCart, At, Redeeming
  <2> QED BY <1>1, <2>1, <2>2, <2>3, QuietFine DEF NotOrdered
<1>3. CASE Dies(r)
  <2>1. request'[r].at = "died" /\ <<"stuck", r>> \in trouble'
    BY <1>3, GoesDoes, NotesDoes DEF Dies
  <2>2. BoughtOf(r)'
    BY <2>1 DEF BoughtOf
  <2> QED BY <1>1, <2>1, <2>2, QuietFine DEF NotOrdered
<1>4. CASE Complete(r)
  <2>1. request[r].at = "complete" /\ cart' = cart /\ cart = "CHECKED_OUT"
    BY <1>4 DEF Complete, At, services, orders, BoughtOf
  <2>2. request'[r].at \in {"answered", "clear"}
    <3>1. CASE Goes(r, "clear")
      BY <3>1, GoesDoes
    <3>2. CASE request' = [request EXCEPT ![r].at = "answered", ![r].answer = r]
      BY <3>2 DEF Typed, Known
    <3> QED BY <1>4, <3>1, <3>2 DEF Complete
  <2>3. BoughtOf(r)'
    BY <2>1, <2>2 DEF BoughtOf
  <2>4. \A v \in Vendor : ~Redeeming(r, v)
    BY <2>1 DEF Redeeming
  <2> QED BY <1>1, <2>2, <2>3, <2>4, QuietFine DEF NotOrdered
<1>5. CASE Clear(r)
  <2>1. request[r].at = "clear" /\ request'[r].at = "failed" /\ cart' = cart
    BY <1>5, ClearDoes DEF Clear, services, orders
  <2>2. (Bought(r) => BoughtOf(r)') /\ (~Bought(r)' => BoughtOf(r)')
    BY <2>1 DEF BoughtOf
  <2>3. \A v \in Vendor : ~Redeeming(r, v)
    BY <2>1 DEF Redeeming
  <2> QED BY <1>1, <2>1, <2>2, <2>3, QuietFine DEF NotOrdered
<1> QED BY <1>2, <1>3, <1>4, <1>5

\* what every move of a request keeps
Frame(r) == RequestOf(r) /\ basket' = basket /\ cart' \in {cart, "CHECKED_OUT"}
Walks(r) ==
  /\ request'[r].key = request[r].key \/ (request[r].at = "start" /\ ~Bought(r)')
  /\ ~Handled(r) /\ Handled(r)' => request'[r].at = "readCart"
  /\ request[r].at = "clear" => ~Handled(r)'
  /\ request[r].at = "readCart" /\ Handled(r)' => request'[r].at = "clear" \/ cart = "ACTIVE"

LEMMA EarlyMove ==
  ASSUME Typed, NEW r \in Request, OrdersOf(r), CreateKey(r) \/ Poll(r) \/ \E k \in Key \union {None} : Arrive(r, k)
  PROVE  Fine(r) /\ Frame(r) /\ Walks(r)
<1>1. Still /\ basket' = basket /\ cart' = cart /\ request[r].at \in {"start", "create", "poll"}
  BY DEF CreateKey, Poll, Arrive, services, orders, At, Still
<1>5. TroubleOf(r)
  BY NotesDoes, NoTrouble DEF CreateKey, Poll, Arrive
<1>2. RequestOf(r) /\ request'[r].at \in {"readCart", "create", "poll", "refused", "answered"}
  BY CreateKeyDoes, PollDoes, ArriveDoes
<1>3. request'[r].key = request[r].key \/ request[r].at = "start"
  BY CreateKeyDoes, PollDoes, ArriveDoes DEF SameKey
<1>4. Fine(r) /\ ~Bought(r)'
  BY <1>1, <1>2, <1>5, EarlyFine DEF NotOrdered
<1> QED BY <1>1, <1>2, <1>3, <1>4 DEF Frame, Walks, Handled, Handling

LEMMA InnerMove ==
  ASSUME Typed, NEW r \in Request, OrdersOf(r), BoughtOf(r), DiscountOf(r), InnerStep(r)
  PROVE  Fine(r) /\ Frame(r) /\ Walks(r)
<1>1. RequestOf(r) /\ SameKey(r) /\ Handled(r)
  BY InnerDoes
<1>2. CASE ReadCart(r)
  <2>1. Still /\ basket' = basket /\ cart' = cart /\ trouble' = trouble /\ request[r].at = "readCart"
    BY <1>2 DEF ReadCart, services, orders, At, Still
  <2>2. request'[r].at = IF cart = "ACTIVE" THEN "createOrders" ELSE "clear"
    BY <1>2, GoesDoes DEF ReadCart
  <2>3. Fine(r)
    BY <2>1, <2>2, EarlyFine, NoTrouble DEF NotOrdered
  <2> QED BY <1>1, <2>1, <2>2, <2>3 DEF Frame, Walks, SameKey
<1>3. CASE /\ request[r].at \notin {"readCart", "clear"} /\ Fine(r) /\ basket' = basket /\ cart' \in {cart, "CHECKED_OUT"}
  BY <1>1, <1>3 DEF Frame, Walks, SameKey
<1>4. CASE CreateOrders(r)
  BY <1>3, <1>4, CreateOrdersFine DEF CreateOrders, At
<1>5. ASSUME NEW v \in Vendor, RedeemPromotion(r, v) \/ ClearPromotion(r, v) PROVE Fine(r) /\ Frame(r) /\ Walks(r)
  BY <1>3, <1>5, RedeemFine, ClearPromotionFine DEF RedeemPromotion, ClearPromotion, At
<1>6. CASE SpendCredit(r) \/ SaveCredit(r)
  BY <1>3, <1>6, CreditFine DEF SpendCredit, SaveCredit, At, services, orders
<1>7. CASE InitializePayment(r) \/ ConfirmByCredit(r)
  BY <1>3, <1>7, PaymentFine, ConfirmFine DEF InitializePayment, ConfirmByCredit, At
<1>8. CASE Undo(r)
  BY <1>3, <1>8, UndoFine DEF Undo, At
<1>9. CASE SaveCart(r) \/ (Complete(r) /\ Goes(r, "clear") /\ keyRow' = keyRow)
  BY <1>3, <1>9, EndsFine DEF SaveCart, Complete, At, services, orders
<1>10. CASE Dies(r)
  <2>1. Fine(r) /\ basket' = basket /\ cart' = cart
    BY <1>10, EndsFine DEF Dies, services, orders
  <2>2. ~Handled(r)'
    BY <1>10, GoesDoes DEF Dies, Handled, Handling
  <2> QED BY <1>1, <2>1, <2>2 DEF Frame, Walks, SameKey
<1> QED BY <1>2, <1>4, <1>5, <1>6, <1>7, <1>8, <1>9, <1>10 DEF InnerStep

LEMMA MoveIsFine ==
  ASSUME Typed, NEW r \in Request, OrdersOf(r), BoughtOf(r), DiscountOf(r), RequestMoves(r)
  PROVE  Fine(r) /\ Frame(r) /\ Walks(r)
<1>1. CASE Stores(r)
  <2>1. RequestOf(r) /\ request'[r].key = request[r].key /\ request[r].at = "complete" /\ request'[r].at = "answered"
    BY <1>1, StoresDoes
  <2>2. Fine(r) /\ basket' = basket /\ cart' = cart
    BY <1>1, EndsFine DEF Stores, Complete, services, orders
  <2> QED BY <2>1, <2>2 DEF Frame, Walks, Handled, Handling
<1>2. CASE Clear(r)
  <2>1. RequestOf(r) /\ SameKey(r) /\ request[r].at = "clear" /\ request'[r].at = "failed"
    BY <1>2, ClearDoes
  <2>2. Fine(r) /\ basket' = basket /\ cart' = cart
    BY <1>2, EndsFine DEF Clear, services, orders
  <2> QED BY <2>1, <2>2 DEF Frame, Walks, Handled, Handling, SameKey
<1> QED BY <1>1, <1>2, EarlyMove, InnerMove, MovesAre

\* the other checkouts see nothing of it but the cart
LEMMA OthersStay ==
  ASSUME Typed, NEW r \in Request, Fine(r), Frame(r), NEW s \in Request \ {r}, OrdersOf(s), BoughtOf(s), DiscountOf(s)
  PROVE  OrdersOf(s)' /\ BoughtOf(s)' /\ DiscountOf(s)' /\ (Bought(s)' <=> Bought(s))
<1>1. /\ request'[s] = request[s] /\ basket' = basket /\ cart' \in {cart, "CHECKED_OUT"}
      /\ \A v \in Vendor : /\ order'[<<s, v>>] = order[<<s, v>>] /\ redemption'[<<s, v>>] = redemption[<<s, v>>]
                           /\ \A status : Saves(s, v, status)' <=> Saves(s, v, status)
      /\ \A what : <<what, s>> \in trouble' <=> <<what, s>> \in trouble
  BY DEF Fine, Frame, RequestOf, OthersKept, OrdersKept, OrderKept, TroubleOf
<1>2. (Abandoned(s)' <=> Abandoned(s)) /\ \A kinds : Trouble(s, kinds)' <=> Trouble(s, kinds)
  BY <1>1 DEF Abandoned, Trouble
<1>3. (Lives(s)' <=> Lives(s)) /\ (Handled(s)' <=> Handled(s)) /\ \A v \in Vendor : Redeeming(s, v)' <=> Redeeming(s, v)
  BY <1>1 DEF Lives, Handled, Redeeming
<1>4. Bought(s)' <=> Bought(s)
  BY <1>2, <1>3 DEF Bought
<1>5. OrdersOf(s)'
  BY <1>1 DEF OrdersOf
<1>6. BoughtOf(s)'
  BY <1>1, <1>2, <1>3, <1>4 DEF BoughtOf
<1>7. DiscountOf(s)'
  BY <1>1, <1>2, <1>3 DEF DiscountOf
<1> QED BY <1>4, <1>5, <1>6, <1>7

LEMMA CheckoutsStep ==
  ASSUME Typed, Checkouts, NEW r \in Request, RequestMoves(r)
  PROVE  Checkouts'
<1>1. Fine(r) /\ Frame(r)
  BY MoveIsFine DEF Checkouts
<1>2. ASSUME NEW s \in Request PROVE OrdersOf(s)' /\ BoughtOf(s)' /\ DiscountOf(s)'
  <2>1. CASE s = r
    BY <1>1, <2>1 DEF Fine, OwnMove
  <2>2. CASE s # r
    BY <1>1, <2>2, OthersStay DEF Checkouts
  <2> QED BY <2>1, <2>2
<1> QED BY <1>2 DEF Checkouts

LEMMA PurchaseStep ==
  ASSUME Typed, KeyInv, Checkouts, OnePurchase, NEW r \in Request, RequestMoves(r)
  PROVE  OnePurchase'
<1>1. Fine(r) /\ Frame(r) /\ Walks(r)
  BY MoveIsFine DEF Checkouts
<1>2. \A s \in Request \ {r} : request'[s] = request[s] /\ (Bought(s)' <=> Bought(s)) /\ (Handled(s)' <=> Handled(s))
  <2>1. \A s \in Request \ {r} : request'[s] = request[s] /\ (Bought(s)' <=> Bought(s))
    BY <1>1, OthersStay DEF Frame, RequestOf, Checkouts
  <2> QED BY <2>1 DEF Handled
<1>3. /\ Bought(r)' => Bought(r) \/ request[r].at = "createOrders"
      /\ request'[r].key = request[r].key \/ (request[r].at = "start" /\ ~Bought(r)')
  BY <1>1 DEF Fine, Walks
<1>4. ASSUME NEW s \in Request, NEW t \in Request, Keyed(s, t)', Bought(s)'
      PROVE  ~Bought(t)' /\ (Handled(t)' => request'[t].at \in {"readCart", "clear"})
  <2>1. CASE s # r /\ t # r
    <3>1. Keyed(s, t) /\ Bought(s)
      BY <1>2, <1>4, <2>1 DEF Keyed
    <3> QED BY <1>2, <2>1, <3>1 DEF OnePurchase
  <2>2. CASE s = r /\ t # r
    <3>1. Keyed(r, t) /\ Keyed(t, r)
      BY <1>2, <1>3, <1>4, <2>2 DEF Keyed
    <3>2. CASE Bought(r)
      BY <1>2, <2>2, <3>1, <3>2 DEF OnePurchase
    <3>3. CASE request[r].at = "createOrders"
      <4>1. ~Handled(t)
        BY <3>1, <3>3 DEF KeyInv, Handled, Handling
      <4>2. ~Bought(t)
        BY <3>1, <3>3 DEF OnePurchase, Handled, Handling
      <4> QED BY <1>2, <2>2, <4>1, <4>2
    <3> QED BY <1>3, <1>4, <2>2, <3>2, <3>3
  <2>3. CASE s # r /\ t = r
    <3>0. Bought(s)
      BY <1>2, <1>4, <2>3
    <3>1. CASE request'[r].key = request[r].key
      <4>1. Keyed(s, r) /\ Keyed(r, s)
        BY <1>2, <1>4, <2>3, <3>1 DEF Keyed
      <4>2. ~Bought(r) /\ (Handled(r) => request[r].at \in {"readCart", "clear"})
        BY <3>0, <4>1 DEF OnePurchase
      <4>3. ~Bought(r)'
        BY <1>3, <4>2 DEF Handled, Handling
      <4>4. ASSUME Handled(r)' PROVE request'[r].at \in {"readCart", "clear"}
        <5>1. CASE ~Handled(r)
          BY <1>1, <4>4, <5>1 DEF Walks
        <5>2. CASE request[r].at = "clear"
          BY <1>1, <4>4, <5>2 DEF Walks
        <5>3. CASE request[r].at = "readCart"
          <6>1. ~Handled(s) /\ request[s].at # "died"
            BY <4>1, <5>3 DEF KeyInv, Handled, Handling
          <6>2. cart = "CHECKED_OUT"
            BY <3>0, <6>1 DEF Checkouts, BoughtOf
          <6> QED BY <1>1, <4>4, <5>3, <6>2 DEF Walks
        <5> QED BY <4>2, <5>1, <5>2, <5>3
      <4> QED BY <2>3, <4>3, <4>4
    <3>2. CASE request[r].at = "start" /\ ~Bought(r)'
      <4>1. ~Handled(r)
        BY <3>2 DEF Handled, Handling
      <4> QED BY <1>1, <2>3, <3>2, <4>1 DEF Walks
    <3> QED BY <1>3, <3>1, <3>2
  <2> QED BY <1>4, <2>1, <2>2, <2>3 DEF Keyed
<1> QED BY <1>4 DEF OnePurchase

-----------------------------------------------------------------------------
(* Orders meanwhile *)

OrderMoves(o) == EndOrder(o) \/ ConfirmOrder(o) \/ \E status \in {"CONFIRMED", "CANCELLED"} : SaveStatus(o, status)
LEMMA OrderMovesSlide ==
  ASSUME Typed, NEW r \in Request, OrdersOf(r), NEW v \in Vendor, OrderMoves(<<r, v>>)
  PROVE  /\ UNCHANGED <<basket, alike, keyRow, request, cart>>
         /\ OrdersTyped' /\ OthersKept(r) /\ TroubleOf(r) /\ \A w \in Vendor : Slides(r, w)
<1>1. CASE EndOrder(<<r, v>>)
  BY <1>1, ReleaseSlides DEF EndOrder
<1>2. CASE ConfirmOrder(<<r, v>>)
  BY <1>2, ConfirmingSlides DEF ConfirmOrder
<1>3. ASSUME NEW status \in {"CONFIRMED", "CANCELLED"}, SaveStatus(<<r, v>>, status)
      PROVE  /\ UNCHANGED <<basket, alike, keyRow, request, cart>>
             /\ OrdersTyped' /\ OthersKept(r) /\ TroubleOf(r) /\ \A w \in Vendor : Slides(r, w)
  <2>1. UNCHANGED <<basket, alike, keyRow, request, cart>>
    BY <1>3 DEF SaveStatus
  <2> QED BY <1>3, <2>1, SaveSlides
<1> QED BY <1>1, <1>2, <1>3 DEF OrderMoves

LEMMA OrderMovesFine ==
  ASSUME Typed, NEW r \in Request, OrdersOf(r), BoughtOf(r), DiscountOf(r), NEW v \in Vendor, OrderMoves(<<r, v>>)
  PROVE  /\ Fine(r) /\ Frame(r) /\ UNCHANGED <<basket, alike, keyRow, request, cart>>
         /\ Bought(r)' => Bought(r)
<1>1. /\ UNCHANGED <<basket, alike, keyRow, request, cart>>
      /\ OrdersTyped' /\ OthersKept(r) /\ TroubleOf(r) /\ \A w \in Vendor : Slides(r, w)
  BY OrderMovesSlide
<1>2. Frame(r)
  BY <1>1 DEF Frame, RequestOf, Typed
<1>3. (Handled(r)' <=> Handled(r)) /\ (Abandoned(r) => Abandoned(r)') /\ \A w \in Vendor : Redeeming(r, w)' <=> Redeeming(r, w)
  BY <1>1 DEF Handled, Abandoned, TroubleOf, Redeeming
<1>4. OrdersOf(r)' /\ DiscountOf(r)' /\ (Bought(r)' => Bought(r))
  <2>1. request'[r].at = "clearPromotion" => request'[r].now \subseteq request'[r].todo
    BY <1>1 DEF DiscountOf
  <2> QED BY <1>1, <1>3, <2>1, SlideKeeps
<1>5. BoughtOf(r)'
  <2>1. \A w \in Vendor : order'[<<r, w>>].status \in Open => order[<<r, w>>].status \in Open \/ Abandoned(r)'
    BY <1>1 DEF Slides
  <2> QED BY <1>1, <1>3, <1>4, <2>1 DEF BoughtOf
<1> QED BY <1>1, <1>2, <1>4, <1>5 DEF Fine, OwnMove

LEMMA OrderMovesKeep ==
  ASSUME SagaInv, NEW o \in OrderId, OrderMoves(o) PROVE SagaInv'
<1>0. PICK r \in Request, v \in Vendor : o = <<r, v>>
  BY DEF OrderId
<1>1. /\ Fine(r) /\ Frame(r) /\ UNCHANGED <<basket, alike, keyRow, request, cart>>
      /\ Bought(r)' => Bought(r)
  BY <1>0, OrderMovesFine DEF SagaInv, Checkouts
<1>2. ASSUME NEW s \in Request PROVE OrdersOf(s)' /\ BoughtOf(s)' /\ DiscountOf(s)' /\ (Bought(s)' => Bought(s))
  <2>1. CASE s = r
    BY <1>1, <2>1 DEF Fine, OwnMove
  <2>2. CASE s # r
    BY <1>1, <2>2, OthersStay DEF SagaInv, Checkouts
  <2> QED BY <2>1, <2>2
<1>3. Typed'
  BY <1>1 DEF SagaInv, Typed, Fine, OrdersTyped
<1>4. KeyInv' /\ AnswerInv'
  BY <1>1 DEF SagaInv, KeyInv, AnswerInv, Keyed, Handled
<1>5. OnePurchase'
  BY <1>1, <1>2 DEF SagaInv, OnePurchase, Keyed, Handled
<1> QED BY <1>2, <1>3, <1>4, <1>5 DEF SagaInv, Checkouts

-----------------------------------------------------------------------------
(* The invariant *)

SetsTyped(r) == request[r].todo \subseteq Vendor /\ request[r].now \subseteq Vendor

LEMMA SetsMove == ASSUME Typed, NEW r \in Request, RequestMoves(r) PROVE SetsTyped(r)'
<1>0. SetsTyped(r) /\ basket.promoted \subseteq Vendor /\ basket.vendors \subseteq Vendor
  BY DEF Typed, SetsTyped, BasketType
<1>1. ASSUME NEW where, Goes(r, where) PROVE SetsTyped(r)'
  BY <1>0, <1>1, GoesDoes DEF SetsTyped, SameTodo
<1>2. CASE ReadCart(r) \/ SaveCart(r) \/ Dies(r) \/ Clear(r)
  BY <1>1, <1>2 DEF ReadCart, SaveCart, Dies, Clear
<1>3. CASE CreateKey(r) \/ ConfirmByCredit(r)
  BY <1>0, <1>1, <1>3, ConfirmDoes DEF CreateKey, SetsTyped, SameTodo
<1>4. CASE Complete(r)
  <2>1. CASE request' = [request EXCEPT ![r].at = "answered", ![r].answer = r]
    BY <1>0, <2>1 DEF Typed, Known, SetsTyped
  <2> QED BY <1>1, <1>4, <2>1 DEF Complete
<1>5. CASE CreateOrders(r)
  <2>1. CASE request' = [request EXCEPT ![r] = [request[r] EXCEPT !.at = "redeem", !.todo = basket.promoted,
                                                       !.discounted = basket.promoted]]
    BY <1>0, <2>1 DEF Typed, Known, SetsTyped
  <2> QED BY <1>1, <1>5, <2>1 DEF CreateOrders
<1>6. ASSUME NEW v \in Vendor, RedeemPromotion(r, v) PROVE SetsTyped(r)'
  <2>1. CASE request' = [request EXCEPT ![r] = AfterRefusal(r, v)]
    BY <1>0, <2>1 DEF Typed, Known, SetsTyped, AfterRefusal
  <2>2. CASE request' = [request EXCEPT ![r].todo = @ \ {v}]
    BY <1>0, <2>2 DEF Typed, Known, SetsTyped
  <2> QED BY <1>6, <2>1, <2>2 DEF RedeemPromotion
<1>7. ASSUME NEW v \in Vendor, ClearPromotion(r, v) PROVE SetsTyped(r)'
  <2>1. PICK answered \in BOOLEAN : request' = [request EXCEPT ![r] = [request[r] EXCEPT !.at = "redeem", !.todo = @ \ {v}, !.now = {},
                           !.discounted = IF answered THEN @ \ {v} ELSE @]]
    BY <1>7 DEF ClearPromotion
  <2> QED BY <1>0, <2>1 DEF Typed, Known, SetsTyped
<1>8. CASE SpendCredit(r) \/ SaveCredit(r)
  BY <1>0, <1>8, CreditDoes DEF SetsTyped, SameTodo
<1>9. CASE InitializePayment(r)
  <2>1. CASE Undoes(r)
    BY <1>0, <2>1 DEF Typed, Known, Undoes, SetsTyped
  <2> QED BY <1>1, <1>9, <2>1 DEF InitializePayment
<1>10. CASE Undo(r)
  <2>1. ASSUME NEW v, request' = [request EXCEPT ![r] = [request[r] EXCEPT !.todo = @ \ {v}, !.now = {}]] PROVE SetsTyped(r)'
    BY <1>0, <2>1 DEF Typed, Known, SetsTyped
  <2>2. ASSUME NEW v \in request[r].todo, request' = [request EXCEPT ![r].now = {v}] PROVE SetsTyped(r)'
    BY <1>0, <2>2 DEF Typed, Known, SetsTyped
  <2> QED BY <1>1, <1>10, <2>1, <2>2 DEF Undo
<1>11. ASSUME NEW k \in Key \union {None}, Arrive(r, k) PROVE SetsTyped(r)'
  BY <1>0, <1>11, ArriveDoes DEF SetsTyped, SameTodo
<1>12. CASE Poll(r)
  BY <1>0, <1>12, PollDoes DEF SetsTyped, SameTodo
<1> QED BY <1>2, <1>3, <1>4, <1>5, <1>6, <1>7, <1>8, <1>9, <1>10, <1>11, <1>12 DEF RequestMoves, Step

LEMMA TypedMove == ASSUME Typed, KeyInv, Checkouts, NEW r \in Request, RequestMoves(r) PROVE Typed'
<1> DEFINE Places == Handling \union {"start", "create", "poll", "answered", "refused", "failed", "died"}
           KeyRows == [status : {"none", "in_flight", "completed"}, answer : Request \union {None}]
<1>1. Fine(r) /\ Frame(r) /\ SetsTyped(r)'
  BY MoveIsFine, SetsMove DEF Checkouts
<1>2. /\ request'[r].at \in Places /\ request'[r].key \in Key \union {None}
      /\ request'[r].answer \in Request \union {None} /\ keyRow' \in [Key -> KeyRows]
  <2>0. /\ request[r].key \in Key \union {None} /\ request[r].answer \in Request \union {None}
        /\ keyRow \in [Key -> KeyRows]
    BY DEF Typed
  <2>1. CASE InnerStep(r)
    BY <2>0, <2>1, InnerDoes DEF SameKey, Handled
  <2>2. CASE CreateKey(r)
    <3>1. /\ request'[r].at \in {"readCart", "refused"} /\ SameKey(r)
          /\ keyRow' = keyRow \/ keyRow' = [keyRow EXCEPT ![request[r].key] = [status |-> "in_flight", answer |-> None]]
      BY <2>2, CreateKeyDoes
    <3> QED BY <2>0, <3>1 DEF SameKey, Handling
  <2>3. CASE Poll(r)
    <3>1. request[r].key \in Key
      BY <2>3 DEF KeyInv, Poll, At
    <3> QED BY <2>0, <2>3, <3>1, PollDoes
  <2>4. CASE Stores(r)
    <3>1. /\ request'[r].key = request[r].key /\ request'[r].at = "answered" /\ request'[r].answer = r
          /\ keyRow' = keyRow \/ keyRow' = [keyRow EXCEPT ![request[r].key] = [status |-> "completed", answer |-> r]]
      BY <2>4, StoresDoes
    <3> QED BY <2>0, <3>1
  <2>5. CASE Clear(r)
    <3>1. /\ SameKey(r) /\ request'[r].at = "failed"
          /\ keyRow' = keyRow \/ keyRow' = [keyRow EXCEPT ![request[r].key] = [status |-> "none", answer |-> None]]
      BY <2>5, ClearDoes
    <3> QED BY <2>0, <3>1 DEF SameKey
  <2>6. ASSUME NEW k \in Key \union {None}, Arrive(r, k)
        PROVE  /\ request'[r].at \in Places /\ request'[r].key \in Key \union {None}
               /\ request'[r].answer \in Request \union {None} /\ keyRow' \in [Key -> KeyRows]
    BY <2>0, <2>6, ArriveDoes DEF Handling
  <2> QED BY <2>1, <2>2, <2>3, <2>4, <2>5, <2>6, MovesAre
<1>3. ASSUME NEW s \in Request
      PROVE  /\ DOMAIN request'[s] = Known /\ request'[s].at \in Places
             /\ request'[s].key \in Key \union {None} /\ request'[s].answer \in Request \union {None}
             /\ request'[s].todo \subseteq Vendor /\ request'[s].now \subseteq Vendor
  <2>1. CASE s = r
    BY <1>1, <1>2, <2>1 DEF Frame, RequestOf, SetsTyped
  <2>2. CASE s # r
    BY <1>1, <2>2 DEF Frame, RequestOf, Typed
  <2> QED BY <2>1, <2>2
<1>4. basket' \in BasketType /\ DOMAIN request' = Request /\ OrdersTyped'
  BY <1>1 DEF Typed, Frame, RequestOf, Fine
<1> QED BY <1>2, <1>3, <1>4 DEF Typed, OrdersTyped

LEMMA SagaInvInit == SagaInit => SagaInv
<1> SUFFICES ASSUME SagaInit PROVE SagaInv
  OBVIOUS
<1>1. None \notin Request \union Key /\ basket \in BasketType
  BY SagaAssumption DEF SagaInit
<1>2. \A o \in OrderId : order[o] = NoOrder /\ redemption[o] = "none"
  BY DEF SagaInit
<1>3. \A s \in Request : \A v \in Vendor : /\ <<s, v>> \in OrderId
                                           /\ order[<<s, v>>].status = "none" /\ redemption[<<s, v>>] = "none"
  BY <1>2 DEF OrderId, NoOrder
<1>4. \A s \in Request : /\ request[s] = NotBegun /\ request[s].at = "start" /\ request[s].key = None
                         /\ request[s].answer = None /\ ~Handled(s) /\ ~Lives(s)
  BY <1>3 DEF SagaInit, NotBegun, Handled, Handling, Lives, Open
<1>5. Typed
  <2>1. \A s \in Request : DOMAIN request[s] = Known /\ request[s].todo = {} /\ request[s].now = {}
    BY <1>4 DEF NotBegun, Known
  <2>2. /\ order \in [OrderId -> [status : Open \union {"none", "CANCELLED"}, discounted : BOOLEAN]]
        /\ redemption \in [OrderId -> {"none", "REDEEMED", "RELEASED"}]
        /\ keyRow \in [Key -> [status : {"none", "in_flight", "completed"}, answer : Request \union {None}]]
        /\ DOMAIN request = Request /\ saving = {}
    BY DEF SagaInit, NoOrder
  <2> QED BY <1>1, <1>4, <2>1, <2>2 DEF Typed
<1>6. KeyInv
  BY <1>1, <1>4 DEF KeyInv, Keyed
<1>7. AnswerInv
  <2>1. \A k \in Key : keyRow[k].answer = None
    BY DEF SagaInit
  <2> QED BY <1>1, <1>4, <2>1 DEF AnswerInv
<1>8. Checkouts
  <2>1. \A s, v, status : ~Saves(s, v, status)
    BY DEF SagaInit, Saves
  <2> QED BY <1>3, <1>4, <2>1 DEF Checkouts, OrdersOf, BoughtOf, DiscountOf, Bought, Redeeming, Open
<1>9. OnePurchase
  BY <1>4 DEF OnePurchase, Bought
<1> QED BY <1>5, <1>6, <1>7, <1>8, <1>9 DEF SagaInv

LEMMA SagaInvStep == SagaInv /\ [SagaNext]_sagaVars => SagaInv'
<1> SUFFICES ASSUME SagaInv, [SagaNext]_sagaVars PROVE SagaInv'
  OBVIOUS
<1>1. ASSUME NEW r \in Request, RequestMoves(r) PROVE SagaInv'
  BY <1>1, TypedMove, KeyStep, AnswerStep, CheckoutsStep, PurchaseStep DEF SagaInv
<1>2. ASSUME NEW o \in OrderId, OrderMoves(o) PROVE SagaInv'
  BY <1>2, OrderMovesKeep
<1>3. CASE UNCHANGED sagaVars
  <2>1. /\ basket' = basket /\ alike' = alike /\ keyRow' = keyRow /\ request' = request /\ cart' = cart
        /\ order' = order /\ saving' = saving /\ redemption' = redemption /\ trouble' = trouble
    BY <1>3 DEF sagaVars
  <2>2. Typed' /\ KeyInv' /\ AnswerInv'
    BY <2>1 DEF SagaInv, Typed, KeyInv, AnswerInv, Keyed, Handled
  <2>3. ASSUME NEW r \in Request PROVE OrdersOf(r)' /\ BoughtOf(r)' /\ DiscountOf(r)'
    <3>1. OrdersOf(r) /\ BoughtOf(r) /\ DiscountOf(r)
      BY DEF SagaInv, Checkouts
    <3>2. OrdersOf(r)'
      BY <2>1, <3>1 DEF OrdersOf, Saves
    <3>3. BoughtOf(r)'
      BY <2>1, <3>1 DEF BoughtOf, Bought, Lives, Handled, Abandoned
    <3>4. DiscountOf(r)'
      BY <2>1, <3>1 DEF DiscountOf, Redeeming, Trouble, Saves
    <3> QED BY <3>2, <3>3, <3>4
  <2>4. OnePurchase'
    BY <2>1 DEF SagaInv, OnePurchase, Keyed, Bought, Lives, Handled, Abandoned
  <2>5. Checkouts'
    BY <2>3 DEF Checkouts
  <2> QED BY <2>2, <2>4, <2>5 DEF SagaInv
<1> QED BY <1>1, <1>2, <1>3 DEF SagaNext, RequestMoves, OrderMoves

\* What the other theorems rest on: the types, who holds a key, whose the
\* answers are, and what is known of every checkout's orders.
THEOREM SagaInvariant == SagaSpec => []SagaInv
BY SagaInvInit, SagaInvStep, PTL DEF SagaSpec

\* Whichever requests with one key meet, fail, die or are retried, they are
\* never handled at once, never leave orders of two, and a replay is answered
\* with a checkout that was made (IdempotencyInterceptor.intercept).
THEOREM OneCheckout == SagaSpec => []OnePurchasePerKey
<1>1. SagaInv => OnePurchasePerKey
  <2> SUFFICES ASSUME SagaInv, NEW r \in Request, NEW s \in Request
               PROVE  /\ Keyed(r, s) => ~(request[r].at \in Handling /\ request[s].at \in Handling)
                      /\ Keyed(r, s) /\ Over(r) /\ Over(s) /\ Lives(r) /\ Lives(s)
                           => Trouble(r, {"abandoned", "overwritten"}) \/ Trouble(s, {"abandoned", "overwritten"})
                      /\ request[r].answer = s /\ r # s => /\ Keyed(r, s) /\ request[s].at = "answered"
                                                           /\ alike \/ request[r].polled
    BY DEF OnePurchasePerKey
  <2>1. Keyed(r, s) => ~(request[r].at \in Handling /\ request[s].at \in Handling)
    BY DEF SagaInv, KeyInv, Handled
  <2>2. Keyed(r, s) /\ Lives(r) /\ Lives(s) => Abandoned(r) \/ Abandoned(s)
    BY DEF SagaInv, OnePurchase, Bought
  <2>3. request[r].answer = s /\ r # s => /\ Keyed(r, s) /\ request[s].at = "answered"
                                          /\ alike \/ request[r].polled
    BY DEF SagaInv, AnswerInv, Keyed
  <2> QED BY <2>1, <2>2, <2>3 DEF Abandoned, Trouble
<1> QED BY <1>1, SagaInvariant, PTL

\* An order left by a checkout that is over has a discount exactly if its
\* promotion was redeemed, unless an answer was lost, it was being cancelled
\* first, the checkout broke off, or a transition did half of its work or saved
\* over another (CheckoutService.checkout, OrderService.transition).
THEOREM DiscountHasRedemption == SagaSpec => []DiscountIsRedeemed
<1>1. SagaInv => DiscountIsRedeemed
  <2> SUFFICES ASSUME SagaInv, NEW r \in Request, Over(r), NEW v \in Vendor
               PROVE  /\ redemption[<<r, v>>] = "REDEEMED" =>
                           \/ order[<<r, v>>].status \in Open /\ order[<<r, v>>].discounted
                           \/ Trouble(r, {"redeemLost", "late", "unreleased"})
                      /\ order[<<r, v>>].status \in Open /\ order[<<r, v>>].discounted =>
                           \/ redemption[<<r, v>>] = "REDEEMED" \/ <<<<r, v>>, "CANCELLED">> \in saving
                           \/ Trouble(r, {"unredeemed", "abandoned", "stuck", "unsaved", "overwritten"})
    BY DEF DiscountIsRedeemed
  <2>1. ~Redeeming(r, v)
    BY DEF Over, Redeeming
  <2> QED BY <2>1 DEF SagaInv, Checkouts, DiscountOf, Kept, Lost, Saves
<1> QED BY <1>1, SagaInvariant, PTL

-----------------------------------------------------------------------------
(* What is charged, and the wallet's log *)

RequestType == [at : Handling \union {"start", "create", "poll", "answered", "refused", "failed", "died"},
                key : Key \union {None}, polled : BOOLEAN, answer : Request \union {None},
                discounted : SUBSET Vendor, todo : SUBSET Vendor, now : SUBSET Vendor,
                seen : 0..Granted]

BeforeCredit == {"start", "create", "poll", "readCart", "createOrders", "redeem", "clearPromotion", "saveCredit"}
Pricing == {"redeem", "clearPromotion", "saveCredit", "pay"}
\* the price a checkout reckons with is that of the orders it made
Priced(r) == request[r].at \in Pricing /\ ~Trouble(r, {"underpriced"}) =>
  \A v \in basket.prepaid : (v \in request[r].discounted) <=> order[<<r, v>>].discounted
ChargedFor(r) ==
  /\ request[r].at \in BeforeCredit => spent[r] = 0
  /\ request[r].at \in BeforeCredit \union {"pay"} => charge[r] = 0
  /\ charge[r] > 0 /\ ~Trouble(r, {"underpriced", "overcharged"}) => charge[r] + spent[r] = StoredPrice(r)
LogAddsUp == (\A r \in Request : ~Trouble(r, {"overlapped"})) => balance + SumFunctionOnSet(spent, Request) = Granted
ChargeInv == SagaTypeOK /\ (\A r \in Request : Priced(r) /\ ChargedFor(r)) /\ LogAddsUp

LEMMA TypesAreTyped == SagaTypeOK => Typed /\ request \in [Request -> RequestType]
BY SagaAssumption DEF SagaTypeOK, Typed, Known, RequestType

LEMMA RequestMay ==
  ASSUME request \in [Request -> RequestType], NEW r \in Request, NEW x \in RequestType, request' = [request EXCEPT ![r] = x]
  PROVE  request' \in [Request -> RequestType]
OBVIOUS

LEMMA GoesTyped ==
  ASSUME request \in [Request -> RequestType], NEW r \in Request, NEW where \in Handling \union {"start", "create", "poll", "answered", "refused", "failed", "died"},
         Goes(r, where)
  PROVE  request' \in [Request -> RequestType]
BY DEF RequestType, Goes

\* prices are numbers
LEMMA PriceType == \A b : PriceOf(b) \in Nat /\ PriceOf(b) \in Int
BY SagaAssumption DEF PriceOf

LEMMA PrepaidFinite ==
  ASSUME basket \in Basket
  PROVE  IsFiniteSet(basket.prepaid) /\ basket.prepaid \in SUBSET Vendor /\ basket.wish \in Nat
<1>1. basket.prepaid \in SUBSET Vendor /\ basket.wish \in Nat
  BY SagaAssumption DEF BasketType
<1> QED BY <1>1, SagaAssumption, FS_Subset

LEMMA TotalType ==
  ASSUME basket \in Basket, NEW r
  PROVE  PrepaidTotal(r) \in Nat
<1> DEFINE f == [v \in basket.prepaid |-> PriceOf(v \in request[r].discounted)]
<1>1. \A v \in basket.prepaid : f[v] \in Nat
  BY PriceType
<1>2. SumFunctionOnSet(f, basket.prepaid) \in Nat
  <2> HIDE DEF f
  <2> QED BY <1>1, PrepaidFinite, SumType
<1> QED BY <1>2 DEF PrepaidTotal

\* two reckonings of one basket
LEMMA SamePrice ==
  ASSUME basket \in Basket, NEW a, NEW b, \A v \in basket.prepaid : PriceOf(a[v]) = PriceOf(b[v])
  PROVE  SumFunctionOnSet([v \in basket.prepaid |-> PriceOf(a[v])], basket.prepaid)
         = SumFunctionOnSet([v \in basket.prepaid |-> PriceOf(b[v])], basket.prepaid)
<1> DEFINE f == [v \in basket.prepaid |-> PriceOf(a[v])]
           g == [v \in basket.prepaid |-> PriceOf(b[v])]
<1>1. f = g
  OBVIOUS
<1> QED BY <1>1
Places == Handling \union {"start", "create", "poll", "answered", "refused", "failed", "died"}

LEMMA RequestMove ==
  ASSUME SagaTypeOK, KeyInv, NEW r \in Request, RequestMoves(r) PROVE request' \in [Request -> RequestType]
<1>0. /\ request \in [Request -> RequestType] /\ request[r] \in RequestType
      /\ basket.promoted \subseteq Vendor /\ basket.vendors \subseteq Vendor
      /\ balance \in 0..Granted
      /\ \A k \in Key : keyRow[k].answer \in Request \union {None} /\ keyRow[k].status \in {"none", "in_flight", "completed"}
  BY TypesAreTyped, SagaAssumption DEF SagaTypeOK, BasketType
<1>1. ASSUME NEW where \in Places, Goes(r, where) PROVE request' \in [Request -> RequestType]
  BY <1>0, <1>1, GoesTyped DEF Places
<1>2. CASE ReadCart(r) \/ SaveCart(r) \/ Dies(r) \/ Clear(r) \/ CreateKey(r) \/ ConfirmByCredit(r)
  BY <1>0, <1>1, <1>2 DEF ReadCart, SaveCart, Dies, Clear, CreateKey, ConfirmByCredit, Places, Handling
<1>3. CASE Complete(r)
  <2>1. CASE request' = [request EXCEPT ![r].at = "answered", ![r].answer = r]
    BY <1>0, <2>1 DEF RequestType
  <2> QED BY <1>1, <1>3, <2>1 DEF Complete, Places, Handling
<1>4. CASE CreateOrders(r)
  <2>1. CASE request' = [request EXCEPT ![r] = [request[r] EXCEPT !.at = "redeem", !.todo = basket.promoted,
                                                       !.discounted = basket.promoted]]
    BY <1>0, <2>1 DEF RequestType, Handling
  <2> QED BY <1>1, <1>4, <2>1 DEF CreateOrders, Places, Handling
<1>5. ASSUME NEW v \in Vendor, RedeemPromotion(r, v) PROVE request' \in [Request -> RequestType]
  <2>1. CASE request' = [request EXCEPT ![r] = AfterRefusal(r, v)]
    BY <1>0, <2>1 DEF RequestType, AfterRefusal, Handling
  <2>2. CASE request' = [request EXCEPT ![r].todo = @ \ {v}]
    BY <1>0, <2>2 DEF RequestType
  <2> QED BY <1>5, <2>1, <2>2 DEF RedeemPromotion
<1>6. ASSUME NEW v \in Vendor, ClearPromotion(r, v) PROVE request' \in [Request -> RequestType]
  <2>1. ASSUME NEW known \in SUBSET Vendor,
               request' = [request EXCEPT ![r] = [request[r] EXCEPT !.at = "redeem", !.todo = @ \ {v}, !.now = {}, !.discounted = known]]
        PROVE  request' \in [Request -> RequestType]
    BY <1>0, <2>1 DEF RequestType, Handling
  <2>2. PICK answered \in BOOLEAN : request' = [request EXCEPT ![r] = [request[r] EXCEPT !.at = "redeem", !.todo = @ \ {v}, !.now = {},
                           !.discounted = IF answered THEN @ \ {v} ELSE @]]
    BY <1>6 DEF ClearPromotion
  <2>3. request[r].discounted \subseteq Vendor
    BY <1>0 DEF RequestType
  <2>4. CASE answered
    <3>1. request' = [request EXCEPT ![r] = [request[r] EXCEPT !.at = "redeem", !.todo = @ \ {v}, !.now = {}, !.discounted = @ \ {v}]]
      BY <2>2, <2>4
    <3> QED BY <2>1, <2>3, <3>1
  <2>5. CASE ~answered
    <3>1. request' = [request EXCEPT ![r] = [request[r] EXCEPT !.at = "redeem", !.todo = @ \ {v}, !.now = {}, !.discounted = @]]
      BY <2>2, <2>5
    <3> QED BY <2>1, <2>3, <3>1
  <2> QED BY <2>4, <2>5
<1>7. CASE SpendCredit(r)
  <2>1. PICK where \in {"saveCredit", "pay"} : request' = [request EXCEPT ![r].seen = balance, ![r].at = where]
    BY <1>7 DEF SpendCredit
  <2> QED BY <1>0, <2>1 DEF RequestType, Handling
<1>8. CASE SaveCredit(r)
  <2>1. Least(Least(basket.wish, PrepaidTotal(r)), request[r].seen) \in 0..Granted
    BY <1>0, TotalType, PrepaidFinite, SagaAssumption DEF SagaTypeOK, RequestType, Least
  <2>2. PICK where \in {"pay", "clear"}, known \in 0..Granted : request' = [request EXCEPT ![r].at = where, ![r].seen = known]
    BY <1>8, <2>1, SagaAssumption DEF SaveCredit
  <2> QED BY <1>0, <2>2 DEF RequestType, Handling
<1>9. CASE InitializePayment(r)
  <2>1. CASE Undoes(r)
    BY <1>0, <2>1 DEF Undoes, RequestType, Handling
  <2> QED BY <1>1, <1>9, <2>1 DEF InitializePayment, Places, Handling
<1>10. CASE Undo(r)
  <2>1. ASSUME NEW v, request' = [request EXCEPT ![r] = [request[r] EXCEPT !.todo = @ \ {v}, !.now = {}]]
        PROVE  request' \in [Request -> RequestType]
    BY <1>0, <2>1 DEF RequestType
  <2>2. ASSUME NEW v \in request[r].todo, request' = [request EXCEPT ![r].now = {v}] PROVE request' \in [Request -> RequestType]
    BY <1>0, <2>2 DEF RequestType
  <2> QED BY <1>1, <1>10, <2>1, <2>2 DEF Undo, Places, Handling
<1>11. ASSUME NEW k \in Key \union {None}, Arrive(r, k) PROVE request' \in [Request -> RequestType]
  <2>1. PICK where, answer : request' = [request EXCEPT ![r] = [request[r] EXCEPT !.key = k, !.at = where, !.answer = answer]]
    BY <1>11 DEF Arrive
  <2>2. request'[r].at = where /\ request'[r].answer = answer
    BY <1>0, <2>1 DEF RequestType
  <2>3. where \in Places /\ answer \in Request \union {None}
    BY <1>0, <1>11, <2>2, ArriveDoes, TypesAreTyped DEF Places, Handling
  <2> QED BY <1>0, <2>1, <2>3 DEF RequestType, Places
<1>12. CASE Poll(r)
  <2>1. request[r].key \in Key
    BY <1>12 DEF KeyInv, Poll, At
  <2>2. PICK where \in {"answered", "refused"}, answer \in Request \union {None} :
          request' = [request EXCEPT ![r] = [request[r] EXCEPT !.polled = TRUE, !.answer = answer, !.at = where]]
    BY <1>0, <1>12, <2>1 DEF Poll
  <2> QED BY <1>0, <2>2 DEF RequestType
<1> QED BY <1>2, <1>3, <1>4, <1>5, <1>6, <1>7, <1>8, <1>9, <1>10, <1>11, <1>12 DEF RequestMoves, Step
-----------------------------------------------------------------------------
(* What a step leaves to the books of a checkout *)

DiscountsKept(s) == \A v \in Vendor : order'[<<s, v>>].discounted = order[<<s, v>>].discounted
Calm(s) ==
  /\ DiscountsKept(s) /\ spent'[s] = spent[s] /\ charge'[s] = charge[s]
  /\ \/ request'[s] = request[s]
     \/ request'[s].at \notin BeforeCredit \union {"pay"}
     \/ request[s].at \in NotOrdered /\ request'[s].at \in NotOrdered
     \/ /\ request[s].at \in {"redeem", "clearPromotion"} /\ request'[s].at \in Pricing
        /\ request'[s].discounted = request[s].discounted

LEMMA CalmStays ==
  ASSUME SagaTypeOK, NEW s \in Request, Calm(s), Priced(s), ChargedFor(s), basket' = basket, trouble \subseteq trouble'
  PROVE  Priced(s)' /\ ChargedFor(s)'
<1>1. \A kinds : Trouble(s, kinds) => Trouble(s, kinds)'
  BY DEF Trouble
<1>2. \A v \in basket.prepaid : order'[<<s, v>>].discounted = order[<<s, v>>].discounted
  BY PrepaidFinite DEF Calm, DiscountsKept, SagaTypeOK
<1>3. StoredPrice(s)' = StoredPrice(s)
  BY <1>2 DEF StoredPrice
<1>4. Priced(s)'
  BY <1>1, <1>2 DEF Calm, Priced, Pricing, BeforeCredit, NotOrdered
<1>5. ChargedFor(s)'
  BY <1>1, <1>3 DEF Calm, ChargedFor, Pricing, BeforeCredit, NotOrdered
<1> QED BY <1>4, <1>5

CalmMove(r) ==
  \/ CreateKey(r) \/ Poll(r) \/ ReadCart(r) \/ (\E v \in Vendor : RedeemPromotion(r, v))
  \/ SpendCredit(r) \/ ConfirmByCredit(r) \/ Undo(r) \/ SaveCart(r) \/ Complete(r) \/ Clear(r)
  \/ Dies(r) \/ \E k \in Key \union {None} : Arrive(r, k)

LEMMA CalmMoveDoes ==
  ASSUME Typed, NEW r \in Request, CalmMove(r)
  PROVE  Calm(r) /\ UNCHANGED <<balance, spent, charge>>
<1>0. UNCHANGED <<balance, spent, charge>>
  BY DEF CalmMove, CreateKey, Poll, ReadCart, RedeemPromotion, SpendCredit, ConfirmByCredit, Undo, SaveCart, Complete, Clear,
         Dies, Arrive, services, orders
<1> USE DEF BeforeCredit, NotOrdered, Pricing
<1>1. CASE ReadCart(r) \/ SaveCart(r) \/ Dies(r) \/ Clear(r) \/ CreateKey(r)
  <2>1. order' = order
    BY <1>1 DEF ReadCart, SaveCart, Dies, Clear, CreateKey, services, orders
  <2> QED BY <1>0, <1>1, <2>1, GoesDoes DEF ReadCart, SaveCart, Dies, Clear, CreateKey, Calm, DiscountsKept, At
<1>2. CASE Complete(r)
  <2>1. order' = order
    BY <1>2 DEF Complete, services, orders
  <2>2. CASE request' = [request EXCEPT ![r].at = "answered", ![r].answer = r]
    <3>1. request'[r].at = "answered"
      BY <2>2 DEF Typed, Known
    <3> QED BY <1>0, <2>1, <3>1 DEF Calm, DiscountsKept
  <2> QED BY <1>0, <1>2, <2>1, <2>2, GoesDoes DEF Complete, Calm, DiscountsKept
<1>3. CASE ConfirmByCredit(r)
  <2>1. order' = order /\ (request' = request \/ request'[r].at \in {"saveCart", "clear"})
    BY <1>3, GoesDoes DEF ConfirmByCredit
  <2> QED BY <1>0, <2>1 DEF Calm, DiscountsKept
<1>4. CASE Undo(r)
  <2>1. request'[r].at \in {"undo", "clear"}
    BY <1>4, UndoDoes
  <2>2. order' = order
    BY <1>4, UndoDoes DEF orders, Release
  <2> QED BY <1>0, <2>1, <2>2 DEF Calm, DiscountsKept
<1>5. ASSUME NEW v \in Vendor, RedeemPromotion(r, v) PROVE Calm(r)
  <2>1. request[r].at = "redeem" /\ order' = order
    BY <1>5 DEF RedeemPromotion, At
  <2>2. request'[r].at \in {"redeem", "clearPromotion"}
    BY <1>5, RedeemDoes
  <2>3. request'[r].discounted = request[r].discounted
    <3>1. CASE request' = [request EXCEPT ![r] = AfterRefusal(r, v)]
      BY <3>1 DEF AfterRefusal, Typed, Known
    <3>2. CASE request' = [request EXCEPT ![r].todo = @ \ {v}]
      BY <3>2 DEF Typed, Known
    <3> QED BY <1>5, <3>1, <3>2 DEF RedeemPromotion
  <2> QED BY <1>0, <2>1, <2>2, <2>3 DEF Calm, DiscountsKept
<1>6. CASE SpendCredit(r)
  <2>1. request[r].at = "redeem" /\ order' = order
    BY <1>6 DEF SpendCredit, At, services, orders
  <2>2. PICK where \in {"saveCredit", "pay"} : request' = [request EXCEPT ![r].seen = balance, ![r].at = where]
    BY <1>6 DEF SpendCredit
  <2>3. request'[r].discounted = request[r].discounted /\ request'[r].at = where
    BY <2>2 DEF Typed, Known
  <2> QED BY <1>0, <2>1, <2>3 DEF Calm, DiscountsKept
<1>7. CASE Poll(r)
  <2>1. request'[r].at \in {"answered", "refused"}
    BY <1>7, PollDoes
  <2>2. order' = order
    BY <1>7 DEF Poll, services, orders
  <2> QED BY <1>0, <2>1, <2>2 DEF Calm, DiscountsKept
<1>8. ASSUME NEW k \in Key \union {None}, Arrive(r, k) PROVE Calm(r)
  BY <1>0, <1>8, ArriveDoes DEF Arrive, services, orders, Calm, DiscountsKept
<1> QED BY <1>0, <1>1, <1>2, <1>3, <1>4, <1>5, <1>6, <1>7, <1>8 DEF CalmMove
\* the books of a checkout after a move of its own
Booked(r) == Priced(r)' /\ ChargedFor(r)'

LEMMA CreateOrdersBooks ==
  ASSUME SagaTypeOK, Typed, NEW r \in Request, ChargedFor(r), CreateOrders(r) PROVE Booked(r)
<1>1. spent[r] = 0 /\ charge[r] = 0 /\ UNCHANGED <<basket, balance, spent, charge, redemption, saving>>
  BY DEF CreateOrders, At, ChargedFor, BeforeCredit
<1>2. CASE request'[r].at = "clear"
  BY <1>1, <1>2 DEF Booked, Priced, ChargedFor, BeforeCredit, Pricing
<1>3. CASE request'[r].at # "clear"
  <2>1. /\ request' = [request EXCEPT ![r] = [request[r] EXCEPT !.at = "redeem", !.todo = basket.promoted,
                                                       !.discounted = basket.promoted]]
        /\ Ordered(r)
    BY <1>3, GoesDoes DEF CreateOrders
  <2>2. request'[r].at = "redeem" /\ request'[r].discounted = basket.promoted
    BY <2>1 DEF Typed, Known
  <2>3. \A v \in basket.prepaid : v \in Vendor /\ v \in basket.vendors
    BY PrepaidFinite, SagaAssumption DEF SagaTypeOK
  <2>4. \A v \in basket.prepaid : order'[<<r, v>>] = NewOrder(v)
    BY <1>1, <2>1, <2>3, OrderedDoes
  <2>5. \A v : NewOrder(v).discounted = (v \in basket.promoted)
    BY DEF NewOrder
  <2>6. Priced(r)'
    BY <1>1, <2>2, <2>4, <2>5 DEF Priced
  <2> QED BY <1>1, <2>2, <2>6 DEF Booked, ChargedFor, BeforeCredit
<1> QED BY <1>2, <1>3

LEMMA ClearPromotionBooks ==
  ASSUME SagaTypeOK, Typed, NEW r \in Request, Priced(r), ChargedFor(r), NEW v \in Vendor, ClearPromotion(r, v) PROVE Booked(r)
<1>1. /\ request[r].at = "clearPromotion" /\ spent[r] = 0 /\ charge[r] = 0
      /\ UNCHANGED <<basket, balance, spent, charge, redemption, saving>>
  BY DEF ClearPromotion, At, ChargedFor, BeforeCredit
<1>2. PICK answered \in BOOLEAN :
        /\ request' = [request EXCEPT ![r] = [request[r] EXCEPT !.at = "redeem", !.todo = @ \ {v}, !.now = {},
                           !.discounted = IF answered THEN @ \ {v} ELSE @]]
        /\ \/ answered /\ order' = [order EXCEPT ![<<r, v>>].discounted = FALSE] /\ trouble' = trouble
           \/ ~answered /\ order' = order /\ trouble \subseteq trouble'
           \/ ~answered /\ order' = [order EXCEPT ![<<r, v>>].discounted = FALSE] /\ Notes("underpriced", r)
  BY DEF ClearPromotion, Notes
<1>3. request'[r].at = "redeem" /\ request'[r].discounted = IF answered THEN request[r].discounted \ {v} ELSE request[r].discounted
  BY <1>2 DEF Typed, Known
<1>4. ChargedFor(r)'
  BY <1>1, <1>3 DEF ChargedFor, BeforeCredit
<1>5. \A w \in basket.prepaid : w \in Vendor
  BY PrepaidFinite DEF SagaTypeOK
<1>6. CASE answered /\ order' = [order EXCEPT ![<<r, v>>].discounted = FALSE] /\ trouble' = trouble
  <2>1. /\ order'[<<r, v>>].discounted = FALSE
        /\ \A w \in Vendor \ {v} : order'[<<r, w>>] = order[<<r, w>>]
    BY <1>1, <1>6, UndiscountedDoes
  <2>2. Priced(r)'
    BY <1>1, <1>3, <1>5, <1>6, <2>1 DEF Priced, Pricing, Trouble
  <2> QED BY <1>4, <2>2 DEF Booked
<1>7. CASE ~answered /\ order' = order /\ trouble \subseteq trouble'
  <2>1. Priced(r)'
    BY <1>1, <1>3, <1>7 DEF Priced, Pricing, Trouble
  <2> QED BY <1>4, <2>1 DEF Booked
<1>8. CASE Notes("underpriced", r)
  <2>1. Trouble(r, {"underpriced"})'
    BY <1>8, NotesDoes DEF Trouble
  <2> QED BY <1>4, <2>1 DEF Booked, Priced
<1> QED BY <1>2, <1>6, <1>7, <1>8

\* the credit that is saved, or not, is that of a request without any
LEMMA SaveCreditDoes ==
  ASSUME SagaTypeOK, Typed, NEW r \in Request, SaveCredit(r)
  PROVE  /\ request[r].at = "saveCredit" /\ request'[r].at \in {"pay", "clear"} /\ request'[r].discounted = request[r].discounted
         /\ UNCHANGED <<basket, order, redemption, charge, cart>> /\ trouble \subseteq trouble' /\ TroubleOf(r)
         /\ \/ UNCHANGED <<balance, spent>>
            \/ \E applied \in 0..Granted :
                 /\ applied <= request[r].seen /\ balance' = request[r].seen - applied
                 /\ spent' = [spent EXCEPT ![r] = applied]
                 /\ balance = request[r].seen \/ <<"overlapped", r>> \in trouble'
<1> DEFINE applied == Least(Least(basket.wish, PrepaidTotal(r)), request[r].seen)
           stale == IF balance # request[r].seen THEN {<<"overlapped", r>>} ELSE {}
<1>1. applied \in 0..Granted /\ applied <= request[r].seen
  BY TypesAreTyped, TotalType, PrepaidFinite, SagaAssumption DEF SagaTypeOK, RequestType, Least
<1>2. PICK where, known : request' = [request EXCEPT ![r].at = where, ![r].seen = known] /\ where \in {"pay", "clear"}
  BY DEF SaveCredit
<1>3. request'[r].at \in {"pay", "clear"} /\ request'[r].discounted = request[r].discounted
  BY <1>2 DEF Typed, Known
<1>4. request[r].at = "saveCredit" /\ UNCHANGED <<basket, order, redemption, charge, cart>>
  BY DEF SaveCredit, At, orders
<1>5. CASE UNCHANGED <<balance, spent>> /\ (trouble' = trouble \/ Notes("abandoned", r))
  <2>1. trouble \subseteq trouble' /\ TroubleOf(r)
    BY <1>5, NotesDoes, NoTrouble DEF TroubleOf
  <2> QED BY <1>3, <1>4, <1>5, <2>1
<1>6. CASE /\ balance' = request[r].seen - applied /\ spent' = [spent EXCEPT ![r] = applied]
           /\ \E what \in {"overcharged", "abandoned"} :
                trouble' = trouble \union stale \/ trouble' = trouble \union stale \union {<<what, r>>}
  <2>1. trouble \subseteq trouble' /\ TroubleOf(r)
    BY <1>6 DEF TroubleOf
  <2>2. balance = request[r].seen \/ <<"overlapped", r>> \in trouble'
    BY <1>6
  <2> HIDE DEF applied
  <2> QED BY <1>1, <1>3, <1>4, <1>6, <2>1, <2>2
<1> QED BY <1>5, <1>6 DEF SaveCredit

LEMMA SaveCreditBooks ==
  ASSUME SagaTypeOK, Typed, NEW r \in Request, Priced(r), ChargedFor(r), SaveCredit(r) PROVE Booked(r)
<1>1. request[r].at = "saveCredit" /\ request'[r].at \in {"pay", "clear"} /\ request'[r].discounted = request[r].discounted
      /\ basket' = basket /\ order' = order /\ charge' = charge /\ trouble \subseteq trouble'
  BY SaveCreditDoes
<1>2. charge'[r] = 0
  BY <1>1 DEF ChargedFor, BeforeCredit
<1>3. Priced(r)'
  BY <1>1 DEF Priced, Pricing, Trouble
<1> QED BY <1>1, <1>2, <1>3 DEF Booked, ChargedFor, BeforeCredit

\* the amount that is charged
LEMMA PaymentBooks ==
  ASSUME SagaTypeOK, Typed, NEW r \in Request, Priced(r), ChargedFor(r), InitializePayment(r)
  PROVE  Booked(r) /\ charge' \in [Request -> Nat]
<1>1. request[r].at = "pay" /\ charge[r] = 0 /\ Due(r) > 0 /\ UNCHANGED <<basket, order, spent, balance, trouble>>
  BY DEF InitializePayment, At, ChargedFor, orders
<1>2. request'[r].at \in {"saveCart", "undo"}
  BY GoesDoes, UndoesDoes DEF InitializePayment
<1>3. PrepaidTotal(r) \in Nat /\ spent[r] \in Nat /\ charge \in [Request -> Nat]
  BY TotalType DEF SagaTypeOK
<1>4. Due(r) \in Nat /\ Amount(r) = Due(r)
  <2>1. Applied(r) \in Nat
    BY <1>3 DEF Applied
  <2> QED BY <1>1, <1>3, <2>1 DEF Due, Amount
<1>5. charge' \in [Request -> Nat] /\ charge'[r] \in {0, Due(r)}
  BY <1>1, <1>3, <1>4 DEF InitializePayment
<1>6. StoredPrice(r)' = StoredPrice(r)
  BY <1>1 DEF StoredPrice
<1>7. ~Trouble(r, {"underpriced", "overcharged"}) => Due(r) + spent[r] = StoredPrice(r)
  <2> SUFFICES ASSUME ~Trouble(r, {"underpriced", "overcharged"}) PROVE Due(r) + spent[r] = StoredPrice(r)
    OBVIOUS
  <2>1. Applied(r) = spent[r]
    BY <1>3 DEF Applied, Trouble
  <2>2. \A v \in basket.prepaid : PriceOf(v \in request[r].discounted) = PriceOf(order[<<r, v>>].discounted)
    BY <1>1 DEF Priced, Pricing, Trouble, PriceOf
  <2>3. PrepaidTotal(r) = StoredPrice(r)
    BY <2>2 DEF PrepaidTotal, StoredPrice
  <2> QED BY <1>3, <2>1, <2>3 DEF Due
<1>8. Trouble(r, {"underpriced", "overcharged"})' <=> Trouble(r, {"underpriced", "overcharged"})
  BY <1>1 DEF Trouble
<1>9. Priced(r)'
  BY <1>2 DEF Priced, Pricing
<1> QED BY <1>1, <1>2, <1>5, <1>6, <1>7, <1>8, <1>9 DEF Booked, ChargedFor, BeforeCredit
-----------------------------------------------------------------------------
(* The books' invariant *)

Purse ==
  /\ alike \in BOOLEAN /\ cart \in {"ACTIVE", "CHECKED_OUT"} /\ sagaFaults \in 0..MaxSagaFaults
  /\ balance \in 0..Granted /\ spent \in [Request -> 0..Granted] /\ charge \in [Request -> Nat]
Faults == sagaFaults' = sagaFaults \/ (sagaFaults < MaxSagaFaults /\ sagaFaults' = sagaFaults + 1)

LEMMA FaultsOf == ASSUME NEW r \in Request, RequestMoves(r) PROVE Faults
BY DEF RequestMoves, Step, Fails, Faults, Release, Arrive, Dies, CreateKey, Poll, ReadCart, CreateOrders, RedeemPromotion,
     ClearPromotion, SpendCredit, SaveCredit, InitializePayment, ConfirmByCredit, Undo, SaveCart, Complete, Clear

LEMMA BasketKept == ASSUME NEW r \in Request, RequestMoves(r) PROVE basket' = basket /\ alike' = alike /\ cart' \in {cart, "CHECKED_OUT"}
BY DEF RequestMoves, Step, services, orders, Arrive, Dies, CreateKey, Poll, ReadCart, CreateOrders, RedeemPromotion,
     ClearPromotion, SpendCredit, SaveCredit, InitializePayment, ConfirmByCredit, Undo, SaveCart, Complete, Clear

LEMMA TypesFrom ==
  ASSUME basket \in Basket, Typed, request \in [Request -> RequestType], Purse PROVE SagaTypeOK
BY DEF Typed, RequestType, Purse, SagaTypeOK
TypesFromFact == basket \in Basket /\ Typed /\ request \in [Request -> RequestType] /\ Purse => SagaTypeOK
LEMMA TypesBefore == TypesFromFact
BY TypesFrom DEF TypesFromFact
LEMMA TypesAfter == TypesFromFact'
BY TypesBefore, PTL

\* a move leaves the money of the other checkouts alone
LEMMA MoneyMove ==
  ASSUME SagaTypeOK, Typed, NEW r \in Request, Priced(r), ChargedFor(r), RequestMoves(r)
  PROVE  /\ balance' \in 0..Granted /\ spent' \in [Request -> 0..Granted] /\ charge' \in [Request -> Nat]
         /\ \A s \in Request \ {r} : spent'[s] = spent[s] /\ charge'[s] = charge[s]
         /\ CalmMove(r) => Calm(r)
         /\ ~CalmMove(r) => Booked(r)
<1>0. balance \in 0..Granted /\ spent \in [Request -> 0..Granted] /\ charge \in [Request -> Nat]
  BY DEF SagaTypeOK
<1>1. CASE CalmMove(r)
  BY <1>0, <1>1, CalmMoveDoes
<1>2. CASE CreateOrders(r) \/ \E v \in Vendor : ClearPromotion(r, v)
  <2>1. UNCHANGED <<balance, spent, charge>>
    BY <1>2 DEF CreateOrders, ClearPromotion
  <2>2. Booked(r)
    BY <1>2, CreateOrdersBooks, ClearPromotionBooks
  <2> QED BY <1>0, <2>1, <2>2, CalmMoveDoes
<1>3. CASE SaveCredit(r)
  <2>1. request[r].seen \in 0..Granted
    BY TypesAreTyped DEF RequestType
  <2>2. charge' = charge /\ balance' \in 0..Granted /\ spent' \in [Request -> 0..Granted]
        /\ \A s \in Request \ {r} : spent'[s] = spent[s]
    <3>1. charge' = charge
      BY <1>3, SaveCreditDoes
    <3>2. CASE UNCHANGED <<balance, spent>>
      BY <1>0, <3>1, <3>2
    <3>3. ASSUME NEW applied \in 0..Granted, applied <= request[r].seen, balance' = request[r].seen - applied,
                 spent' = [spent EXCEPT ![r] = applied]
          PROVE  balance' \in 0..Granted /\ spent' \in [Request -> 0..Granted] /\ \A s \in Request \ {r} : spent'[s] = spent[s]
      BY <1>0, <2>1, <3>3, SagaAssumption
    <3> QED BY <1>3, <3>1, <3>2, <3>3, SaveCreditDoes
  <2> QED BY <1>0, <1>3, <2>2, SaveCreditBooks, CalmMoveDoes
<1>4. CASE InitializePayment(r)
  <2>1. UNCHANGED <<balance, spent>> /\ \A s \in Request \ {r} : charge'[s] = charge[s]
    BY <1>0, <1>4 DEF InitializePayment
  <2> QED BY <1>0, <1>4, <2>1, PaymentBooks, CalmMoveDoes
<1> QED BY <1>1, <1>2, <1>3, <1>4 DEF RequestMoves, Step, CalmMove

\* what one checkout spends is what the balance loses
LEMMA LogMove ==
  ASSUME SagaTypeOK, Typed, LogAddsUp, NEW r \in Request, ChargedFor(r), RequestMoves(r), trouble \subseteq trouble'
  PROVE  LogAddsUp'
<1> SUFFICES ASSUME \A s \in Request : ~Trouble(s, {"overlapped"})'
             PROVE  balance' + SumFunctionOnSet(spent', Request) = Granted
  BY DEF LogAddsUp
<1>1. \A s \in Request : <<"overlapped", s>> \notin trouble' /\ ~Trouble(s, {"overlapped"})
  BY DEF Trouble
<1>2. balance + SumFunctionOnSet(spent, Request) = Granted
  BY <1>1 DEF LogAddsUp
<1>3. CASE UNCHANGED <<balance, spent>>
  BY <1>2, <1>3
<1>4. CASE SaveCredit(r)
  <2>1. PICK applied \in 0..Granted :
          balance' = balance - applied /\ spent' = [spent EXCEPT ![r] = applied]
    <3>1. CASE UNCHANGED <<balance, spent>>
      <4>1. balance' = balance - 0 /\ spent' = [spent EXCEPT ![r] = 0]
        BY <1>4, <3>1, SagaAssumption DEF SaveCredit, At, ChargedFor, BeforeCredit, SagaTypeOK
      <4>2. 0 \in 0..Granted
        BY SagaAssumption
      <4> QED BY <4>1, <4>2
    <3>2. CASE ~UNCHANGED <<balance, spent>>
      <4>1. PICK applied \in 0..Granted :
                 /\ applied <= request[r].seen /\ balance' = request[r].seen - applied
                 /\ spent' = [spent EXCEPT ![r] = applied]
                 /\ balance = request[r].seen \/ <<"overlapped", r>> \in trouble'
        BY <1>4, <3>2, SaveCreditDoes
      <4>2. balance = request[r].seen
        BY <1>1, <4>1
      <4>3. balance' = balance - applied
        BY <4>1, <4>2
      <4> QED BY <4>1, <4>3
    <3> QED BY <3>1, <3>2
  <2>2. spent[r] = 0
    BY <1>4 DEF SaveCredit, At, ChargedFor, BeforeCredit
  <2>3. /\ \A s \in Request : spent[s] \in Int /\ spent'[s] \in Int
        /\ \A s \in Request \ {r} : spent[s] = spent'[s]
        /\ spent'[r] = applied /\ balance \in Int
    BY <2>1, SagaAssumption DEF SagaTypeOK
  <2>4. SumFunctionOnSet(spent', Request) = SumFunctionOnSet(spent, Request) - spent[r] + spent'[r]
    BY <2>3, SumChange, SagaAssumption
  <2>5. SumFunctionOnSet(spent, Request) \in Int
    BY <2>3, SumType, SagaAssumption
  <2> QED BY <1>2, <2>1, <2>2, <2>3, <2>4, <2>5
<1>5. CASE CalmMove(r)
  BY <1>3, <1>5, CalmMoveDoes
<1>6. CASE CreateOrders(r) \/ InitializePayment(r) \/ \E v \in Vendor : ClearPromotion(r, v)
  BY <1>3, <1>6 DEF CreateOrders, ClearPromotion, InitializePayment
<1> QED BY <1>4, <1>5, <1>6 DEF RequestMoves, Step, CalmMove

LEMMA ChargeMove ==
  ASSUME SagaInv, SagaInv', ChargeInv, NEW r \in Request, RequestMoves(r) PROVE ChargeInv'
<1>1. SagaTypeOK /\ Typed /\ KeyInv /\ Typed' /\ LogAddsUp /\ \A s \in Request : Priced(s) /\ ChargedFor(s)
  BY DEF SagaInv, ChargeInv
<1>2. Fine(r) /\ Frame(r) /\ trouble \subseteq trouble' /\ basket' = basket /\ OthersKept(r)
  BY MoveIsFine, BasketKept DEF SagaInv, Checkouts, Fine, TroubleOf
<1>3. ASSUME NEW s \in Request \ {r} PROVE Booked(s)
  <2>1. request'[s] = request[s]
    BY <1>2 DEF Frame, RequestOf
  <2>2. Calm(s)
    BY <1>1, <1>2, <2>1, MoneyMove DEF Calm, DiscountsKept, OthersKept, OrdersKept, OrderKept
  <2> QED BY <1>1, <1>2, <2>2, CalmStays DEF Booked
<1>4. Booked(r)
  BY <1>1, <1>2, MoneyMove, CalmStays DEF Booked
<1>5. SagaTypeOK'
  <2>1. Purse'
    <3>1. sagaFaults' \in 0..MaxSagaFaults
      BY <1>1, FaultsOf, SagaAssumption DEF SagaTypeOK, Faults
    <3>2. alike' \in BOOLEAN /\ cart' \in {"ACTIVE", "CHECKED_OUT"}
      BY <1>1, BasketKept DEF SagaTypeOK
    <3>3. balance' \in 0..Granted /\ spent' \in [Request -> 0..Granted] /\ charge' \in [Request -> Nat]
      BY <1>1, MoneyMove
    <3> QED BY <3>1, <3>2, <3>3 DEF Purse
  <2>2. basket' \in Basket /\ request' \in [Request -> RequestType]
    BY <1>1, <1>2, RequestMove DEF SagaTypeOK
  <2> QED BY <1>1, <2>1, <2>2, TypesAfter DEF TypesFromFact
<1>6. LogAddsUp'
  BY <1>1, <1>2, LogMove
<1> QED BY <1>3, <1>4, <1>5, <1>6 DEF ChargeInv, Booked

LEMMA ChargeInit == SagaInit => ChargeInv
<1> SUFFICES ASSUME SagaInit PROVE ChargeInv
  OBVIOUS
<1>1. SagaTypeOK
  <2>1. NotBegun \in RequestType
    BY SagaAssumption DEF NotBegun, RequestType
  <2>2. request \in [Request -> RequestType]
    BY <2>1 DEF SagaInit
  <2>3. Typed /\ Purse /\ basket \in Basket
    BY SagaInvInit, SagaAssumption DEF SagaInv, SagaInit, Purse
  <2> QED BY <2>2, <2>3, TypesFrom
<1>2. \A r \in Request : spent[r] = 0 /\ charge[r] = 0 /\ request[r].at = "start"
  BY DEF SagaInit, NotBegun
<1>3. LogAddsUp
  <2>1. SumFunctionOnSet(spent, Request) = SumFunctionOnSet(spent, {})
    BY <1>2, SumSupport, SagaAssumption
  <2> QED BY <2>1, SumEmpty, SagaAssumption DEF LogAddsUp, SagaInit
<1> QED BY <1>1, <1>2, <1>3 DEF ChargeInv, Priced, ChargedFor, Pricing

LEMMA ChargeStep == SagaInv /\ SagaInv' /\ ChargeInv /\ [SagaNext]_sagaVars => ChargeInv'
<1> SUFFICES ASSUME SagaInv, SagaInv', ChargeInv, [SagaNext]_sagaVars PROVE ChargeInv'
  OBVIOUS
<1>1. ASSUME NEW r \in Request, RequestMoves(r) PROVE ChargeInv'
  BY <1>1, ChargeMove
<1>2. ASSUME UNCHANGED <<basket, alike, request, cart, balance, spent, charge>>, trouble \subseteq trouble', Faults,
             \A s \in Request : DiscountsKept(s)
      PROVE  ChargeInv'
  <2>1. SagaTypeOK'
    <3>1. Typed' /\ Purse' /\ basket' \in Basket /\ request' \in [Request -> RequestType]
      BY <1>2, TypesAreTyped, SagaAssumption DEF ChargeInv, SagaInv, SagaTypeOK, Purse, Faults
    <3> QED BY <3>1, TypesAfter DEF TypesFromFact
  <2>2. ASSUME NEW s \in Request PROVE Priced(s)' /\ ChargedFor(s)'
    <3>1. Calm(s)
      BY <1>2 DEF Calm
    <3> QED BY <1>2, <3>1, CalmStays DEF ChargeInv
  <2>3. LogAddsUp'
    BY <1>2 DEF ChargeInv, LogAddsUp, Trouble
  <2> QED BY <2>1, <2>2, <2>3 DEF ChargeInv
<1>3. ASSUME NEW o \in OrderId, OrderMoves(o) PROVE ChargeInv'
  <2>1. UNCHANGED <<basket, alike, request, cart, balance, spent, charge>> /\ Faults
    BY <1>3 DEF OrderMoves, EndOrder, ConfirmOrder, SaveStatus, Release, Fails, Faults
  <2>2. PICK r \in Request, v \in Vendor : o = <<r, v>>
    BY DEF OrderId
  <2>3. OthersKept(r) /\ TroubleOf(r) /\ \A w \in Vendor : Slides(r, w)
    BY <1>3, <2>2, OrderMovesSlide DEF SagaInv, Checkouts
  <2>4. \A s \in Request : DiscountsKept(s)
    BY <2>3 DEF DiscountsKept, Slides, OthersKept, OrdersKept, OrderKept
  <2> QED BY <1>2, <2>1, <2>3, <2>4 DEF TroubleOf
<1>4. CASE UNCHANGED sagaVars
  BY <1>2, <1>4 DEF sagaVars, DiscountsKept, Faults
<1> QED BY <1>1, <1>3, <1>4 DEF SagaNext, RequestMoves, OrderMoves

\* Whichever faults happen and however requests overlap, what is charged and
\* what the wallet gave is the price of the orders as they are stored, and the
\* wallet's log adds up, but for the named reasons.
THEOREM ChargeIsPrice == SagaSpec => []ChargeMatchesOrders
<1>1. ChargeInv => ChargeMatchesOrders
  BY DEF ChargeInv, ChargedFor, LogAddsUp, ChargeMatchesOrders
<1> QED BY <1>1, ChargeInit, ChargeStep, SagaInvariant, PTL DEF SagaSpec

-----------------------------------------------------------------------------
(* The catalog's books *)

CallFields == {"op", "order", "at", "read"}
Serves(c, o) == call[c].order = o
\* the items an order wants
Of(o) == {i \in Item : Quantity[o][i] > 0}
HoldsBy(c, o) == Serves(c, o) /\ \E i \in Item : reservation[<<c, i>>] \in HoldStatus

\* a call that has not begun is for nobody; one that writes knows what it read
CallKnows(c) ==
  /\ call[c].at = "start" => call[c].order = "nobody"
  /\ call[c].at # "start" => call[c].order \in Buyer
  /\ Writes(c, "reserve") => Statuses(call[c].read) \intersect HoldStatus = {}
  /\ Writes(c, "release") => \A d \in Caller, i, j \in Of(call[c].order) : Serves(d, call[c].order) =>
       (<<<<d, i>>, "RESERVED">> \in call[c].read => <<<<d, j>>, "RESERVED">> \in call[c].read)
  /\ Writes(c, "release") => \A row \in RowId : <<row, "RESERVED">> \in call[c].read =>
       Serves(row[1], call[c].order) /\ reservation[row] # "none"
  /\ Writes(c, "releasePromotion") => call[c].read = {"REDEEMED"}

\* a row is that of a reserve call that ended, for an item its order wants
RowsAreReserved ==
  \A row \in RowId : reservation[row] # "none" =>
    /\ call[row[1]].op = "reserve" /\ call[row[1]].at = "ended"
    /\ row[2] \in Of(call[row[1]].order)
\* the rows of one call are written together
RowsTogether ==
  \A c \in Caller : call[c].order \in Buyer =>
    \A i, j \in Of(call[c].order) : reservation[<<c, i>>] = reservation[<<c, j>>]

StockAgrees == \A i \in Item : stock[i] + HeldTotal(i) = Stocked
UsesAgree == used = Cardinality({o \in Buyer : redeemed[o] = "REDEEMED"})

CatalogInv ==
  /\ CatalogTypeOK
  /\ DOMAIN call = Caller /\ \A c \in Caller : DOMAIN call[c] = CallFields /\ CallKnows(c)
  /\ RowsAreReserved /\ RowsTogether
  /\ \A o \in Buyer \ crossed : \A c, d \in Caller : HoldsBy(c, o) /\ HoldsBy(d, o) => c = d
  /\ crossed = {} => StockAgrees /\ UsesAgree

LEMMA RowsOfIs ==
  ASSUME NEW o, NEW row, NEW s
  PROVE  <<row, s>> \in RowsOf(o) <=> row \in RowId /\ Serves(row[1], o) /\ reservation[row] # "none" /\ s = reservation[row]
BY DEF RowsOf, Serves

LEMMA HoldingIs ==
  ASSUME NEW o
  PROVE  /\ Holding(o) = {row \in RowId : Serves(row[1], o) /\ reservation[row] \in HoldStatus}
         /\ \A i : HoldingOf(o, i) = {row \in RowId : row[2] = i /\ Serves(row[1], o) /\ reservation[row] \in HoldStatus}
         /\ \A c \in Caller, i \in Item : <<c, i>> \in Holding(o) <=> Serves(c, o) /\ reservation[<<c, i>>] \in HoldStatus
<1>1. ASSUME NEW row PROVE row \in Holding(o) <=> row \in RowId /\ Serves(row[1], o) /\ reservation[row] \in HoldStatus
  <2>1. row \in Holding(o) <=> \E w \in RowsOf(o) : w[2] \in HoldStatus /\ w[1] = row
    BY DEF Holding
  <2>2. \A w \in RowsOf(o) : w = <<w[1], w[2]>>
    BY DEF RowsOf
  <2>3. row \in Holding(o) <=> \E s \in HoldStatus : <<row, s>> \in RowsOf(o)
    BY <2>1, <2>2
  <2> QED BY <2>3, RowsOfIs DEF HoldStatus
<1>2. Holding(o) = {row \in RowId : Serves(row[1], o) /\ reservation[row] \in HoldStatus}
  BY <1>1
<1>3. \A i : HoldingOf(o, i) = {row \in RowId : row[2] = i /\ Serves(row[1], o) /\ reservation[row] \in HoldStatus}
  BY <1>2 DEF HoldingOf
<1> QED BY <1>2, <1>3 DEF RowId

LEMMA RowIdFinite == IsFiniteSet(RowId) /\ \A T \in SUBSET RowId : IsFiniteSet(T) /\ Cardinality(T) \in Nat
<1>1. IsFiniteSet(RowId)
  BY CatalogAssumption, FS_Product DEF RowId
<1> QED BY <1>1, FS_Subset, FS_CardinalityType

LEMMA HeldTerms ==
  ASSUME NEW i \in Item, NEW o \in Buyer
  PROVE  /\ Quantity[o][i] \in Nat /\ Cardinality(HoldingOf(o, i)) \in Nat
         /\ Quantity[o][i] * Cardinality(HoldingOf(o, i)) \in Nat
<1>1. Quantity[o][i] \in Nat
  BY CatalogAssumption
<1>2. HoldingOf(o, i) \in SUBSET RowId
  BY HoldingIs
<1>3. Cardinality(HoldingOf(o, i)) \in Nat
  BY <1>2, RowIdFinite
<1>4. \A a, b \in Nat : a * b \in Nat
  OBVIOUS
<1> QED BY <1>1, <1>3, <1>4

\* the order's wants are held once or not at all
LEMMA CatalogInvBooks == CatalogInv => CatalogBooks
<1> SUFFICES ASSUME CatalogInv PROVE CatalogBooks
  OBVIOUS
<1>1. ASSUME NEW o \in Buyer \ crossed, Holding(o) # {}, NEW i \in Item, Quantity[o][i] > 0
      PROVE Cardinality(HoldingOf(o, i)) = 1
  <2>1. PICK c \in Caller, j \in Item : Serves(c, o) /\ reservation[<<c, j>>] \in HoldStatus
    BY <1>1, HoldingIs DEF RowId
  <2>2. <<c, j>> \in RowId /\ <<c, j>>[1] = c /\ <<c, j>>[2] = j /\ reservation[<<c, j>>] # "none"
    BY <2>1 DEF RowId, HoldStatus
  <2>3. j \in Of(o) /\ i \in Of(o)
    BY <1>1, <2>1, <2>2 DEF CatalogInv, RowsAreReserved, Serves, Of
  <2>4. reservation[<<c, i>>] \in HoldStatus
    BY <2>1, <2>3 DEF CatalogInv, RowsTogether, Serves
  <2>5. \A d \in Caller : Serves(d, o) /\ reservation[<<d, i>>] \in HoldStatus => d = c
    BY <1>1, <2>1 DEF CatalogInv, HoldsBy
  <2>6. HoldingOf(o, i) = {<<c, i>>}
    BY <2>1, <2>4, <2>5, HoldingIs DEF RowId
  <2> QED BY <2>6, FS_Singleton
<1> QED BY <1>1 DEF CatalogInv, CatalogBooks, StockAgrees, UsesAgree

LEMMA CatalogInitInv == CatalogInit => CatalogInv
<1> SUFFICES ASSUME CatalogInit PROVE CatalogInv
  OBVIOUS
<1> USE DEF CatalogInit
<1>1. CatalogTypeOK
  BY CatalogAssumption DEF CatalogTypeOK, NoCall
<1>2. \A c \in Caller : DOMAIN call[c] = CallFields /\ CallKnows(c)
  BY DEF CallFields, CallKnows, NoCall, Writes
<1>3. RowsAreReserved /\ RowsTogether
  BY CatalogAssumption DEF RowsAreReserved, RowsTogether, NoCall, RowId, Of
<1>4. \A o \in Buyer, c \in Caller : ~HoldsBy(c, o)
  BY DEF HoldsBy, RowId, HoldStatus
<1>5. ASSUME NEW i \in Item PROVE stock[i] + HeldTotal(i) = Stocked
  <2>1. ASSUME NEW o \in Buyer PROVE Quantity[o][i] * Cardinality(HoldingOf(o, i)) = 0
    <3>1. HoldingOf(o, i) = {}
      BY HoldingIs DEF HoldStatus
    <3> QED BY <3>1, FS_EmptySet, CatalogAssumption
  <2> DEFINE f == [o \in Buyer |-> Quantity[o][i] * Cardinality(HoldingOf(o, i))]
  <2>2. \A o \in Buyer : f[o] \in Int /\ f[o] = 0
    BY <2>1
  <2> HIDE DEF f
  <2>3. SumFunctionOnSet(f, Buyer) = SumFunctionOnSet(f, {})
    BY <2>2, CatalogAssumption, SumSupport
  <2>4. HeldTotal(i) = 0
    BY <2>3, SumEmpty DEF HeldTotal, f
  <2> QED BY <2>4, CatalogAssumption
<1>6. UsesAgree
  <2>1. {o \in Buyer : redeemed[o] = "REDEEMED"} = {}
    OBVIOUS
  <2> QED BY <2>1, FS_EmptySet DEF UsesAgree
<1> QED BY <1>1, <1>2, <1>3, <1>4, <1>5, <1>6 DEF CatalogInv, StockAgrees

-----------------------------------------------------------------------------
(* What a step leaves alone *)

HoldingFact == \A o : /\ Holding(o) = {row \in RowId : Serves(row[1], o) /\ reservation[row] \in HoldStatus}
                      /\ \A i : HoldingOf(o, i) = {row \in RowId : row[2] = i /\ Serves(row[1], o) /\ reservation[row] \in HoldStatus}
LEMMA HoldingBefore == HoldingFact
BY HoldingIs DEF HoldingFact
LEMMA HoldingAfter == HoldingFact'
BY HoldingBefore, PTL
HeldTermFact == \A i \in Item, o \in Buyer : /\ Quantity[o][i] \in Nat /\ Cardinality(HoldingOf(o, i)) \in Nat
                                             /\ Quantity[o][i] * Cardinality(HoldingOf(o, i)) \in Nat
LEMMA HeldTermsBefore == HeldTermFact
BY HeldTerms DEF HeldTermFact
LEMMA HeldTermsAfter == HeldTermFact'
BY HeldTermsBefore, PTL

\* the same rows are held for the same orders
LEMMA SameHeld ==
  ASSUME \A o \in Buyer, row \in RowId : (Serves(row[1], o) /\ reservation[row] \in HoldStatus)'
                                         <=> Serves(row[1], o) /\ reservation[row] \in HoldStatus
  PROVE  /\ \A i \in Item : HeldTotal(i)' = HeldTotal(i)
         /\ \A o \in Buyer, c \in Caller : HoldsBy(c, o)' <=> HoldsBy(c, o)
<1>1. ASSUME NEW o \in Buyer, NEW i \in Item PROVE HoldingOf(o, i)' = HoldingOf(o, i)
  BY HoldingBefore, HoldingAfter DEF HoldingFact
<1>2. \A i \in Item : HeldTotal(i)' = HeldTotal(i)
  BY <1>1 DEF HeldTotal
<1>3. \A c \in Caller, i \in Item : <<c, i>> \in RowId /\ <<c, i>>[1] = c
  BY DEF RowId
<1> QED BY <1>2, <1>3 DEF HoldsBy

\* one order holds another number of an item
LEMMA OtherHeld ==
  ASSUME NEW o \in Buyer, NEW i \in Item,
         \A p \in Buyer \ {o} : HoldingOf(p, i)' = HoldingOf(p, i)
  PROVE  /\ HeldTotal(i)' = HeldTotal(i) - Quantity[o][i] * Cardinality(HoldingOf(o, i))
                              + Quantity[o][i] * Cardinality(HoldingOf(o, i)')
         /\ HeldTotal(i) \in Nat
<1> DEFINE f == [p \in Buyer |-> Quantity[p][i] * Cardinality(HoldingOf(p, i))]
           g == [p \in Buyer |-> Quantity[p][i] * Cardinality(HoldingOf(p, i)')]
<1>1. \A p \in Buyer : f[p] \in Nat /\ g[p] \in Nat
  BY HeldTermsBefore, HeldTermsAfter DEF HeldTermFact
<1>2. \A p \in Buyer \ {o} : f[p] = g[p]
  OBVIOUS
<1>3. /\ f[o] = Quantity[o][i] * Cardinality(HoldingOf(o, i)) /\ g[o] = Quantity[o][i] * Cardinality(HoldingOf(o, i)')
      /\ HeldTotal(i) = SumFunctionOnSet(f, Buyer) /\ HeldTotal(i)' = SumFunctionOnSet(g, Buyer)
  BY DEF HeldTotal
<1> HIDE DEF f, g
<1>4. SumFunctionOnSet(g, Buyer) = SumFunctionOnSet(f, Buyer) - f[o] + g[o]
  BY <1>1, <1>2, CatalogAssumption, SumChange
<1>5. SumFunctionOnSet(f, Buyer) \in Nat
  BY <1>1, CatalogAssumption, SumType
<1> QED BY <1>3, <1>4, <1>5

-----------------------------------------------------------------------------
(* A call begins *)

LEMMA BeginsInv ==
  ASSUME CatalogInv, NEW c \in Caller, NEW o \in Buyer, NEW op \in StockCall \union PromotionCall, NEW goesOn, NEW found,
         call[c].at = "start", goesOn \in BOOLEAN, Began(c, op, o, goesOn, found),
         UNCHANGED <<stock, used, redeemed, crossed>>,
         reservation' \in [RowId -> {"none", "RESERVED", "CONSUMED", "RELEASED"}],
         \A row \in RowId : /\ reservation'[row] = "none" <=> reservation[row] = "none"
                            /\ reservation'[row] \in HoldStatus <=> reservation[row] \in HoldStatus,
         \A d \in Caller : call[d].order \in Buyer =>
            \A i, j \in Of(call[d].order) : reservation'[<<d, i>>] = reservation'[<<d, j>>],
         CallKnows(c)'
  PROVE  CatalogInv'
<1>1. /\ DOMAIN call' = Caller /\ call'[c] = [op |-> op, order |-> o, read |-> found, at |-> IF goesOn THEN "write" ELSE "ended"]
      /\ \A d \in Caller \ {c} : call'[d] = call[d]
  BY DEF Began, CatalogInv
<1>2. CatalogTypeOK'
  BY <1>1 DEF CatalogInv, CatalogTypeOK
<1>3. \A row \in RowId : row[1] = c => reservation[row] = "none" /\ reservation'[row] = "none"
  BY DEF CatalogInv, RowsAreReserved
<1>4. \A d \in Caller : call[d].order = "nobody" \/ call'[d].order = call[d].order
  BY <1>1 DEF CatalogInv, CallKnows
<1>5. ASSUME NEW d \in Caller PROVE DOMAIN call'[d] = CallFields /\ CallKnows(d)'
  <2>1. CASE d = c
    BY <1>1, <2>1 DEF CallFields
  <2>2. CASE d # c
    <3>1. call'[d] = call[d] /\ CallKnows(d) /\ DOMAIN call[d] = CallFields
      BY <1>1, <2>2 DEF CatalogInv
    <3>2. ASSUME Writes(d, "release"), NEW e \in Caller, NEW i \in Of(call[d].order), NEW j \in Of(call[d].order),
                 Serves(e, call[d].order)', <<<<e, i>>, "RESERVED">> \in call[d].read
          PROVE  <<<<e, j>>, "RESERVED">> \in call[d].read
      <4>1. <<e, i>> \in RowId /\ <<e, i>>[1] = e
        BY DEF RowId, Of
      <4> QED BY <3>1, <3>2, <4>1 DEF CallKnows
    <3>3. ASSUME Writes(d, "release"), NEW row \in RowId, <<row, "RESERVED">> \in call[d].read
          PROVE  Serves(row[1], call[d].order)' /\ reservation'[row] # "none"
      <4>1. row[1] \in Caller /\ Serves(row[1], call[d].order) /\ reservation[row] # "none"
        BY <3>1, <3>3 DEF CallKnows, RowId
      <4>2. row[1] # c
        BY <1>3, <4>1
      <4> QED BY <1>1, <3>1, <4>1, <4>2 DEF Serves
    <3> QED BY <3>1, <3>2, <3>3 DEF CallKnows, Writes
  <2> QED BY <2>1, <2>2
<1>6. RowsAreReserved'
  <2> SUFFICES ASSUME NEW row \in RowId, reservation'[row] # "none"
               PROVE  /\ call'[row[1]].op = "reserve" /\ call'[row[1]].at = "ended" /\ row[2] \in Of(call'[row[1]].order)
    BY DEF RowsAreReserved, Of
  <2>1. row[1] \in Caller \ {c}
    BY <1>3 DEF RowId
  <2> QED BY <1>1, <2>1 DEF CatalogInv, RowsAreReserved
<1>7. RowsTogether'
  <2> SUFFICES ASSUME NEW d \in Caller, call'[d].order \in Buyer, NEW i \in Of(call'[d].order), NEW j \in Of(call'[d].order)
               PROVE  reservation'[<<d, i>>] = reservation'[<<d, j>>]
    BY DEF RowsTogether, Of
  <2>1. CASE d = c
    <3>1. <<c, i>> \in RowId /\ <<c, j>> \in RowId /\ <<c, i>>[1] = c /\ <<c, j>>[1] = c
      BY DEF RowId, Of
    <3> QED BY <1>3, <2>1, <3>1
  <2>2. CASE d # c
    BY <1>1, <2>2
  <2> QED BY <2>1, <2>2
<1>8. ASSUME NEW p \in Buyer, NEW row \in RowId
      PROVE  (Serves(row[1], p) /\ reservation[row] \in HoldStatus)' <=> Serves(row[1], p) /\ reservation[row] \in HoldStatus
  <2>1. CASE row[1] = c
    BY <1>3, <2>1 DEF HoldStatus
  <2>2. CASE row[1] # c
    BY <1>1, <2>2 DEF Serves, RowId
  <2> QED BY <2>1, <2>2
<1>9. /\ \A i \in Item : HeldTotal(i)' = HeldTotal(i)
      /\ \A p \in Buyer, d \in Caller : HoldsBy(d, p)' <=> HoldsBy(d, p)
  BY <1>8, SameHeld
<1>10. (crossed = {} => StockAgrees /\ UsesAgree)'
  BY <1>9 DEF CatalogInv, StockAgrees, UsesAgree
<1> QED BY <1>1, <1>2, <1>5, <1>6, <1>7, <1>9, <1>10 DEF CatalogInv

LEMMA ReadsInv ==
  ASSUME CatalogInv, NEW c \in Caller, NEW o \in Buyer,
         \/ \E op \in {"reserve", "release"} : ReadReservations(c, op, o)
         \/ ConsumeStock(c, o)
         \/ \E op \in PromotionCall : ReadRedemption(c, op, o)
  PROVE  CatalogInv'
<1>1. reservation \in [RowId -> {"none", "RESERVED", "CONSUMED", "RELEASED"}]
  BY DEF CatalogInv, CatalogTypeOK
<1>2. \A d \in Caller : call[d].order \in Buyer => \A i, j \in Of(call[d].order) : reservation[<<d, i>>] = reservation[<<d, j>>]
  BY DEF CatalogInv, RowsTogether
<1>3. ASSUME NEW op \in {"reserve", "release"}, ReadReservations(c, op, o) PROVE CatalogInv'
  <2>1. /\ call[c].at = "start" /\ Began(c, op, o, Wants(op, o), RowsOf(o)) /\ Wants(op, o) \in BOOLEAN
        /\ UNCHANGED <<stock, reservation, used, redeemed, crossed>>
    BY <1>3 DEF ReadReservations, Wants
  <2>2. call'[c] = [op |-> op, order |-> o, read |-> RowsOf(o), at |-> IF Wants(op, o) THEN "write" ELSE "ended"]
    BY <2>1 DEF Began, CatalogInv
  <2>3. \A row \in RowId : <<row, "RESERVED">> \in RowsOf(o) <=> Serves(row[1], o) /\ reservation[row] = "RESERVED"
    BY RowsOfIs
  <2>4. Writes(c, "reserve")' => Statuses(call'[c].read) \intersect HoldStatus = {}
    BY <2>2 DEF Writes, Wants
  <2>5. \A row \in RowId : row[1] = c => reservation[row] = "none"
    BY <2>1 DEF CatalogInv, RowsAreReserved
  <2>6. ASSUME NEW row \in RowId, <<row, "RESERVED">> \in RowsOf(o) PROVE Serves(row[1], o)' /\ reservation'[row] # "none"
    <3>1. row[1] # c /\ Serves(row[1], o) /\ reservation[row] = "RESERVED" /\ row[1] \in Caller
      BY <2>3, <2>5, <2>6 DEF RowId
    <3>2. call'[row[1]] = call[row[1]]
      BY <2>1, <3>1 DEF Began, CatalogInv
    <3> QED BY <2>1, <3>1, <3>2 DEF Serves
  <2>7. ASSUME NEW d \in Caller, NEW i \in Of(o), NEW j \in Of(o), <<<<d, i>>, "RESERVED">> \in RowsOf(o)
        PROVE  <<<<d, j>>, "RESERVED">> \in RowsOf(o)
    <3>1. <<d, i>> \in RowId /\ <<d, j>> \in RowId /\ <<d, i>>[1] = d /\ <<d, j>>[1] = d
      BY DEF RowId, Of
    <3>2. call[d].order = o
      BY <2>3, <2>7, <3>1 DEF Serves
    <3> QED BY <1>2, <2>3, <2>7, <3>1, <3>2 DEF Serves
  <2>8. CallKnows(c)'
    BY <2>2, <2>4, <2>6, <2>7 DEF CallKnows, Writes
  <2> QED BY <1>1, <1>2, <2>1, <2>8, BeginsInv DEF StockCall
<1>4. ASSUME ConsumeStock(c, o) PROVE CatalogInv'
  <2>1. /\ call[c].at = "start" /\ Began(c, "consume", o, FALSE, {}) /\ UNCHANGED <<stock, used, redeemed, crossed>>
        /\ reservation' = [row \in RowId |-> IF <<row, "RESERVED">> \in RowsOf(o) THEN "CONSUMED" ELSE reservation[row]]
    BY <1>4 DEF ConsumeStock
  <2>2. call'[c].at = "ended" /\ call'[c].order = o
    BY <2>1 DEF Began, CatalogInv
  <2>3. CallKnows(c)'
    BY <2>2 DEF CallKnows, Writes
  <2>4. \A row \in RowId : reservation'[row] = IF Serves(row[1], o) /\ reservation[row] = "RESERVED" THEN "CONSUMED" ELSE reservation[row]
    BY <2>1, RowsOfIs
  <2>5. reservation' \in [RowId -> {"none", "RESERVED", "CONSUMED", "RELEASED"}]
    BY <1>1, <2>1
  <2>6. \A row \in RowId : /\ reservation'[row] = "none" <=> reservation[row] = "none"
                           /\ reservation'[row] \in HoldStatus <=> reservation[row] \in HoldStatus
    BY <2>4 DEF HoldStatus
  <2>7. ASSUME NEW d \in Caller, call[d].order \in Buyer, NEW i \in Of(call[d].order), NEW j \in Of(call[d].order)
        PROVE  reservation'[<<d, i>>] = reservation'[<<d, j>>]
    <3>1. <<d, i>> \in RowId /\ <<d, j>> \in RowId /\ <<d, i>>[1] = d /\ <<d, j>>[1] = d
      BY DEF RowId, Of
    <3>2. reservation[<<d, i>>] = reservation[<<d, j>>]
      BY <1>2, <2>7
    <3> QED BY <2>4, <3>1, <3>2
  <2> QED BY <2>1, <2>3, <2>5, <2>6, <2>7, BeginsInv DEF StockCall
<1>5. ASSUME NEW op \in PromotionCall, ReadRedemption(c, op, o) PROVE CatalogInv'
  <2> DEFINE goesOn == redeemed[o] = (IF op = "redeem" THEN "none" ELSE "REDEEMED")
  <2>1. /\ call[c].at = "start" /\ Began(c, op, o, goesOn, {redeemed[o]}) /\ goesOn \in BOOLEAN
        /\ UNCHANGED <<stock, reservation, used, redeemed, crossed>>
    BY <1>5 DEF ReadRedemption
  <2>2. call'[c] = [op |-> op, order |-> o, read |-> {redeemed[o]}, at |-> IF goesOn THEN "write" ELSE "ended"]
    BY <2>1 DEF Began, CatalogInv
  <2>3. CallKnows(c)'
    BY <2>2 DEF CallKnows, Writes, PromotionCall
  <2> QED BY <1>1, <1>2, <2>1, <2>3, BeginsInv
<1> QED BY <1>3, <1>4, <1>5

-----------------------------------------------------------------------------
(* A call writes *)

LEMMA EndsKnows ==
  ASSUME CatalogInv, NEW c \in Caller, call[c].at = "write", Ends(c),
         \A row \in RowId : reservation[row] # "none" => reservation'[row] # "none"
  PROVE  /\ DOMAIN call' = Caller /\ \A d \in Caller : DOMAIN call'[d] = CallFields /\ CallKnows(d)'
         /\ \A d \in Caller : call'[d].order = call[d].order /\ call'[d].op = call[d].op
                              /\ call'[d].at \in {call[d].at, "ended"}
         /\ call'[c].at = "ended" /\ call[c].order \in Buyer
         /\ \A d \in Caller : /\ call'[d].op \in StockCall \union PromotionCall \union {"none"}
                              /\ call'[d].order \in Buyer \union {"nobody"}
                              /\ call'[d].at \in {"start", "write", "ended"}
<1>1. /\ DOMAIN call' = Caller /\ call' = [call EXCEPT ![c].at = "ended"]
      /\ \A d \in Caller : DOMAIN call[d] = CallFields /\ CallKnows(d)
  BY DEF Ends, CatalogInv
<1>2. /\ call'[c] = [call[c] EXCEPT !.at = "ended"] /\ \A d \in Caller \ {c} : call'[d] = call[d]
  BY <1>1 DEF CatalogInv
<1>3. /\ call'[c].at = "ended" /\ call'[c].order = call[c].order /\ call'[c].op = call[c].op /\ DOMAIN call'[c] = CallFields
  BY <1>1, <1>2 DEF CallFields
<1>4. call[c].order \in Buyer
  BY <1>1 DEF CallKnows
<1>5. \A d \in Caller : call'[d].order = call[d].order /\ call'[d].op = call[d].op /\ call'[d].at \in {call[d].at, "ended"}
  BY <1>2, <1>3
<1>6. ASSUME NEW d \in Caller PROVE DOMAIN call'[d] = CallFields /\ CallKnows(d)'
  <2>1. CASE d = c
    BY <1>3, <1>4, <2>1 DEF CallKnows, Writes
  <2>2. CASE d # c
    <3>1. call'[d] = call[d] /\ CallKnows(d) /\ DOMAIN call[d] = CallFields
      BY <1>1, <1>2, <2>2
    <3>2. \A row \in RowId : \A o : Serves(row[1], o)' <=> Serves(row[1], o)
      BY <1>5 DEF Serves, RowId
    <3>3. \A e \in Caller : \A o : Serves(e, o)' <=> Serves(e, o)
      BY <1>5 DEF Serves
    <3> QED BY <3>1, <3>2, <3>3 DEF CallKnows, Writes
  <2> QED BY <2>1, <2>2
<1>7. \A d \in Caller : /\ call[d].op \in StockCall \union PromotionCall \union {"none"}
                        /\ call[d].order \in Buyer \union {"nobody"} /\ call[d].at \in {"start", "write", "ended"}
  BY DEF CatalogInv, CatalogTypeOK
<1> QED BY <1>1, <1>3, <1>4, <1>5, <1>6, <1>7

\* a write that leaves the rows alone
LEMMA SameRows ==
  ASSUME CatalogInv, NEW c \in Caller, call[c].at = "write", Ends(c), UNCHANGED <<stock, reservation>>, crossed \subseteq crossed',
         CatalogTypeOK', crossed' = {} => UsesAgree'
  PROVE  CatalogInv'
<1>1. /\ DOMAIN call' = Caller /\ \A d \in Caller : DOMAIN call'[d] = CallFields /\ CallKnows(d)'
      /\ \A d \in Caller : call'[d].order = call[d].order /\ call'[d].op = call[d].op
                           /\ call'[d].at \in {call[d].at, "ended"}
  BY EndsKnows
<1>2. RowsAreReserved'
  BY <1>1 DEF CatalogInv, RowsAreReserved, RowId, Of
<1>3. RowsTogether'
  BY <1>1 DEF CatalogInv, RowsTogether, Of
<1>4. /\ \A i \in Item : HeldTotal(i)' = HeldTotal(i)
      /\ \A p \in Buyer, d \in Caller : HoldsBy(d, p)' <=> HoldsBy(d, p)
  <2>1. ASSUME NEW p \in Buyer, NEW row \in RowId
        PROVE  (Serves(row[1], p) /\ reservation[row] \in HoldStatus)' <=> Serves(row[1], p) /\ reservation[row] \in HoldStatus
    BY <1>1 DEF Serves, RowId
  <2> QED BY <2>1, SameHeld
<1> QED BY <1>1, <1>2, <1>3, <1>4 DEF CatalogInv, StockAgrees

LEMMA RedeemInv ==
  ASSUME CatalogInv, NEW c \in Caller, Redeem(c) PROVE CatalogInv'
<1> DEFINE o == call[c].order
<1>1. Ends(c) /\ call[c].at = "write" /\ UNCHANGED <<stock, reservation, crossed>>
  BY DEF Redeem, Writes
<1>2. /\ \A d \in Caller : /\ call'[d].op \in StockCall \union PromotionCall \union {"none"}
                           /\ call'[d].order \in Buyer \union {"nobody"} /\ call'[d].at \in {"start", "write", "ended"}
      /\ o \in Buyer
  BY <1>1, EndsKnows
<1>3. CASE used < RedemptionLimit /\ redeemed[o] = "none"
  <2>1. used' = used + 1 /\ redeemed' = [redeemed EXCEPT ![o] = "REDEEMED"]
    BY <1>3 DEF Redeem
  <2>2. CatalogTypeOK'
    BY <1>1, <1>2, <1>3, <2>1, CatalogAssumption DEF CatalogInv, CatalogTypeOK
  <2>3. ASSUME crossed' = {} PROVE UsesAgree'
    <3> DEFINE R == {p \in Buyer : redeemed[p] = "REDEEMED"}
    <3>1. used = Cardinality(R)
      BY <1>1, <2>3 DEF CatalogInv, UsesAgree
    <3>2. IsFiniteSet(R) /\ o \notin R
      BY <1>3, CatalogAssumption, FS_Subset
    <3>3. {p \in Buyer : redeemed'[p] = "REDEEMED"} = R \union {o}
      BY <1>2, <2>1 DEF CatalogInv, CatalogTypeOK
    <3>4. Cardinality(R \union {o}) = Cardinality(R) + 1
      BY <3>2, FS_AddElement
    <3> QED BY <2>1, <3>1, <3>3, <3>4 DEF UsesAgree
  <2> QED BY <1>1, <2>2, <2>3, SameRows
<1>4. CASE ~(used < RedemptionLimit /\ redeemed[o] = "none")
  <2>1. UNCHANGED <<used, redeemed>>
    BY <1>4 DEF Redeem
  <2>2. CatalogTypeOK' /\ (crossed' = {} => UsesAgree')
    BY <1>1, <1>2, <2>1 DEF CatalogInv, CatalogTypeOK, UsesAgree
  <2> QED BY <1>1, <2>2, SameRows
<1> QED BY <1>3, <1>4

LEMMA ReleasePromotionInv ==
  ASSUME CatalogInv, NEW c \in Caller, ReleasePromotion(c) PROVE CatalogInv'
<1> DEFINE o == call[c].order
<1>1. /\ Ends(c) /\ call[c].at = "write" /\ UNCHANGED <<stock, reservation>> /\ used' = OneFewer(used)
      /\ redeemed' = [redeemed EXCEPT ![o] = "RELEASED"] /\ call[c].read = {"REDEEMED"}
      /\ crossed' = crossed \union (IF {redeemed[o]} # call[c].read THEN {o} ELSE {})
  BY DEF ReleasePromotion, Writes, CatalogInv, CallKnows, Crosses
<1>2. /\ \A d \in Caller : /\ call'[d].op \in StockCall \union PromotionCall \union {"none"}
                           /\ call'[d].order \in Buyer \union {"nobody"} /\ call'[d].at \in {"start", "write", "ended"}
      /\ o \in Buyer
  BY <1>1, EndsKnows
<1>3. CatalogTypeOK'
  <2>1. used' \in 0..RedemptionLimit
    BY <1>1, CatalogAssumption DEF OneFewer, CatalogInv, CatalogTypeOK
  <2>2. redeemed' \in [Buyer -> {"none", "REDEEMED", "RELEASED"}] /\ crossed' \subseteq Buyer
    BY <1>1, <1>2 DEF CatalogInv, CatalogTypeOK
  <2> QED BY <1>1, <1>2, <2>1, <2>2 DEF CatalogInv, CatalogTypeOK
<1>4. ASSUME crossed' = {} PROVE UsesAgree'
  <2> DEFINE R == {p \in Buyer : redeemed[p] = "REDEEMED"}
  <2>1. redeemed[o] = "REDEEMED" /\ crossed = {}
    BY <1>1, <1>4
  <2>2. used = Cardinality(R) /\ IsFiniteSet(R) /\ o \in R
    BY <1>2, <2>1, CatalogAssumption, FS_Subset DEF CatalogInv, UsesAgree
  <2>3. {p \in Buyer : redeemed'[p] = "REDEEMED"} = R \ {o}
    BY <1>1, <1>2 DEF CatalogInv, CatalogTypeOK
  <2> HIDE DEF R
  <2>4. Cardinality(R \ {o}) = Cardinality(R) - 1 /\ IsFiniteSet(R \ {o})
    BY <2>2, FS_RemoveElement
  <2>5. Cardinality(R \ {o}) \in Nat /\ Cardinality(R) \in Nat
    BY <2>2, <2>4, FS_CardinalityType
  <2>6. used' = used - 1
    BY <1>1, <2>2, <2>4, <2>5 DEF OneFewer
  <2> QED BY <2>2, <2>3, <2>4, <2>6 DEF UsesAgree, R
<1> QED BY <1>1, <1>3, <1>4, SameRows

\* what a write makes of the rows of one order
LEMMA WritesRows ==
  ASSUME CatalogInv, NEW c \in Caller, call[c].at = "write", Ends(c), UNCHANGED <<used, redeemed>>,
         crossed' \in SUBSET Buyer, crossed \subseteq crossed',
         stock' \in [Item -> Nat], reservation' \in [RowId -> {"none", "RESERVED", "CONSUMED", "RELEASED"}],
         \A row \in RowId : reservation[row] # "none" => reservation'[row] # "none",
         \A row \in RowId : reservation'[row] # reservation[row] => Serves(row[1], call[c].order),
         RowsAreReserved', RowsTogether',
         call[c].order \notin crossed' => \A d, e \in Caller : HoldsBy(d, call[c].order)' /\ HoldsBy(e, call[c].order)' => d = e,
         crossed' = {} => \A i \in Item : stock[i] - stock'[i] =
             Quantity[call[c].order][i] * Cardinality(HoldingOf(call[c].order, i)')
               - Quantity[call[c].order][i] * Cardinality(HoldingOf(call[c].order, i))
  PROVE  CatalogInv'
<1> DEFINE o == call[c].order
<1>1. /\ DOMAIN call' = Caller /\ \A d \in Caller : DOMAIN call'[d] = CallFields /\ CallKnows(d)'
      /\ \A d \in Caller : call'[d].order = call[d].order
      /\ o \in Buyer
      /\ \A d \in Caller : /\ call'[d].op \in StockCall \union PromotionCall \union {"none"}
                           /\ call'[d].order \in Buyer \union {"nobody"} /\ call'[d].at \in {"start", "write", "ended"}
  BY EndsKnows
<1>2. CatalogTypeOK'
  BY <1>1 DEF CatalogInv, CatalogTypeOK
<1>3. \A d \in Caller, i \in Item : <<d, i>> \in RowId /\ <<d, i>>[1] = d
  BY DEF RowId
<1>4. ASSUME NEW p \in Buyer \ {o}, NEW row \in RowId
      PROVE  (Serves(row[1], p) /\ reservation[row] \in HoldStatus)' <=> Serves(row[1], p) /\ reservation[row] \in HoldStatus
  BY <1>1 DEF Serves, RowId
<1>5. ASSUME NEW p \in Buyer \ crossed', NEW d \in Caller, NEW e \in Caller, HoldsBy(d, p)', HoldsBy(e, p)' PROVE d = e
  <2>1. CASE p = o
    <3>1. call'[c].order = p
      BY <1>1, <2>1
    <3> QED BY <1>5, <2>1, <3>1
  <2>2. CASE p # o
    <3>1. ASSUME NEW a \in Caller, HoldsBy(a, p)' PROVE HoldsBy(a, p)
      <4>1. PICK i \in Item : Serves(a, p)' /\ reservation'[<<a, i>>] \in HoldStatus
        BY <3>1 DEF HoldsBy
      <4>2. Serves(<<a, i>>[1], p) /\ reservation[<<a, i>>] \in HoldStatus
        BY <1>3, <1>4, <2>2, <4>1
      <4> QED BY <1>3, <4>2 DEF HoldsBy
    <3>2. HoldsBy(d, p) /\ HoldsBy(e, p)
      BY <1>5, <3>1
    <3> QED BY <1>5, <3>2 DEF CatalogInv
  <2> QED BY <2>1, <2>2
<1>6. ASSUME crossed' = {}, NEW i \in Item PROVE stock'[i] + HeldTotal(i)' = Stocked
  <2>1. \A p \in Buyer \ {o} : HoldingOf(p, i)' = HoldingOf(p, i)
    BY <1>4, HoldingBefore, HoldingAfter DEF HoldingFact
  <2>2. /\ HeldTotal(i)' = HeldTotal(i) - Quantity[o][i] * Cardinality(HoldingOf(o, i)) + Quantity[o][i] * Cardinality(HoldingOf(o, i)')
        /\ HeldTotal(i) \in Nat
    BY <1>1, <2>1, OtherHeld
  <2>3. /\ Quantity[o][i] * Cardinality(HoldingOf(o, i)) \in Nat /\ Quantity[o][i] * Cardinality(HoldingOf(o, i)') \in Nat
    BY <1>1, HeldTermsBefore, HeldTermsAfter DEF HeldTermFact
  <2>4. stock[i] + HeldTotal(i) = Stocked /\ stock[i] \in Nat /\ stock'[i] \in Nat
    BY <1>6 DEF CatalogInv, CatalogTypeOK, StockAgrees
  <2>5. stock[i] - stock'[i] = Quantity[o][i] * Cardinality(HoldingOf(o, i)') - Quantity[o][i] * Cardinality(HoldingOf(o, i))
    BY <1>6
  <2>6. PICK a, b \in Nat : a = Quantity[o][i] * Cardinality(HoldingOf(o, i)) /\ b = Quantity[o][i] * Cardinality(HoldingOf(o, i)')
    BY <2>3
  <2>7. HeldTotal(i)' = HeldTotal(i) - a + b /\ stock[i] - stock'[i] = b - a
    BY <2>2, <2>5, <2>6
  <2> QED BY <2>2, <2>4, <2>7
<1>7. ASSUME crossed' = {} PROVE UsesAgree'
  BY <1>7 DEF CatalogInv, UsesAgree
<1> QED BY <1>1, <1>2, <1>5, <1>6, <1>7 DEF CatalogInv, StockAgrees

LEMMA ReserveInv ==
  ASSUME CatalogInv, NEW c \in Caller, ReserveStock(c) PROVE CatalogInv'
<1> DEFINE o == call[c].order
           wanted == Quantity[o]
<1>1. /\ Ends(c) /\ call[c].at = "write" /\ call[c].op = "reserve" /\ UNCHANGED <<used, redeemed>>
      /\ Statuses(call[c].read) \intersect HoldStatus = {}
  BY DEF ReserveStock, Writes, CatalogInv, CallKnows
<1>2. CASE UNCHANGED <<stock, reservation, crossed>>
  <2>1. \A d \in Caller : /\ call'[d].op \in StockCall \union PromotionCall \union {"none"}
                          /\ call'[d].order \in Buyer \union {"nobody"} /\ call'[d].at \in {"start", "write", "ended"}
    BY <1>1, <1>2, EndsKnows
  <2>2. CatalogTypeOK' /\ (crossed' = {} => UsesAgree')
    BY <1>1, <1>2, <2>1 DEF CatalogInv, CatalogTypeOK, UsesAgree
  <2> QED BY <1>1, <1>2, <2>2, SameRows
<1>3. CASE ~UNCHANGED <<stock, reservation, crossed>>
  <2>1. /\ \A i \in Item : stock[i] >= wanted[i]
        /\ stock' = [i \in Item |-> stock[i] - wanted[i]]
        /\ reservation' = [row \in RowId |-> IF row[1] = c /\ wanted[row[2]] > 0 THEN "RESERVED" ELSE reservation[row]]
        /\ crossed' = crossed \union (IF Rows(c) # call[c].read THEN {o} ELSE {})
    BY <1>3 DEF ReserveStock, Crosses
  <2>2. \A row \in RowId : row[1] = c => reservation[row] = "none"
    BY <1>1 DEF CatalogInv, RowsAreReserved
  <2>3. reservation' \in [RowId -> {"none", "RESERVED", "CONSUMED", "RELEASED"}]
    BY <2>1 DEF CatalogInv, CatalogTypeOK
  <2>4. \A row \in RowId : reservation[row] # "none" => reservation'[row] # "none"
    BY <2>1
  <2>5. /\ \A d \in Caller : call'[d].order = call[d].order /\ call'[d].op = call[d].op /\ call'[d].at \in {call[d].at, "ended"}
        /\ call'[c].at = "ended" /\ o \in Buyer
    BY <1>1, <2>4, EndsKnows
  <2>6. \A row \in RowId : reservation'[row] # reservation[row] => Serves(row[1], o)
    BY <2>1 DEF Serves
  <2>7. stock' \in [Item -> Nat] /\ crossed' \in SUBSET Buyer /\ crossed \subseteq crossed'
    <3>1. \A i \in Item : stock[i] - wanted[i] \in Nat
      BY <2>1, <2>5, CatalogAssumption DEF CatalogInv, CatalogTypeOK
    <3> QED BY <2>1, <2>5, <3>1 DEF CatalogInv, CatalogTypeOK
  <2>8. RowsAreReserved'
    <3> SUFFICES ASSUME NEW row \in RowId, reservation'[row] # "none"
                 PROVE  /\ call'[row[1]].op = "reserve" /\ call'[row[1]].at = "ended" /\ row[2] \in Of(call'[row[1]].order)
      BY DEF RowsAreReserved, Of
    <3>1. row[1] \in Caller /\ row[2] \in Item
      BY DEF RowId
    <3>2. CASE row[1] = c
      BY <1>1, <2>1, <2>2, <2>5, <3>1, <3>2 DEF Of
    <3>3. CASE row[1] # c
      BY <2>1, <2>5, <3>1, <3>3 DEF CatalogInv, RowsAreReserved
    <3> QED BY <3>2, <3>3
  <2>9. RowsTogether'
    <3> SUFFICES ASSUME NEW d \in Caller, call'[d].order \in Buyer, NEW i \in Of(call'[d].order), NEW j \in Of(call'[d].order)
                 PROVE  reservation'[<<d, i>>] = reservation'[<<d, j>>]
      BY DEF RowsTogether, Of
    <3>1. /\ <<d, i>> \in RowId /\ <<d, j>> \in RowId /\ <<d, i>>[1] = d /\ <<d, j>>[1] = d /\ <<d, i>>[2] = i /\ <<d, j>>[2] = j
          /\ call'[d].order = call[d].order
      BY <2>5 DEF RowId, Of
    <3>2. reservation[<<d, i>>] = reservation[<<d, j>>]
      BY <3>1 DEF CatalogInv, RowsTogether
    <3> QED BY <2>1, <3>1, <3>2 DEF Of
  <2>10. o \notin crossed' => \A row \in RowId : ~(Serves(row[1], o) /\ reservation[row] \in HoldStatus)
    <3> SUFFICES ASSUME o \notin crossed', NEW row \in RowId, Serves(row[1], o), reservation[row] \in HoldStatus PROVE FALSE
      OBVIOUS
    <3>1. RowsOf(o) = call[c].read
      BY <2>1 DEF Rows
    <3>2. <<row, reservation[row]>> \in call[c].read
      BY <3>1, RowsOfIs DEF HoldStatus
    <3> QED BY <1>1, <3>2 DEF Statuses
  <2>11. \A row \in RowId : o \notin crossed' =>
           ((Serves(row[1], o) /\ reservation[row] \in HoldStatus)' <=> row[1] = c /\ wanted[row[2]] > 0)
    <3> SUFFICES ASSUME o \notin crossed', NEW row \in RowId
                 PROVE  (Serves(row[1], o) /\ reservation[row] \in HoldStatus)' <=> row[1] = c /\ wanted[row[2]] > 0
      OBVIOUS
    <3>1. row[1] \in Caller
      BY DEF RowId
    <3>2. Serves(row[1], o)' <=> Serves(row[1], o)
      BY <2>5, <3>1 DEF Serves
    <3> QED BY <2>1, <2>5, <2>10, <3>2 DEF HoldStatus, Serves
  <2>12. o \notin crossed' => \A d, e \in Caller : HoldsBy(d, o)' /\ HoldsBy(e, o)' => d = e
    <3>1. \A d \in Caller, i \in Item : <<d, i>> \in RowId /\ <<d, i>>[1] = d
      BY DEF RowId
    <3> QED BY <2>5, <2>11, <3>1 DEF HoldsBy, Serves
  <2>13. ASSUME crossed' = {}, NEW i \in Item
         PROVE  stock[i] - stock'[i] = wanted[i] * Cardinality(HoldingOf(o, i)') - wanted[i] * Cardinality(HoldingOf(o, i))
    <3>1. HoldingOf(o, i) = {}
      BY <2>10, <2>13, HoldingBefore DEF HoldingFact
    <3>2. HoldingOf(o, i)' = {row \in RowId : row[2] = i /\ row[1] = c /\ wanted[i] > 0}
      <4>1. HoldingOf(o, i)' = {row \in RowId : row[2] = i /\ (Serves(row[1], o) /\ reservation[row] \in HoldStatus)'}
        BY <2>5, HoldingAfter DEF HoldingFact, Serves
      <4> QED BY <2>11, <2>13, <4>1
    <3>3. wanted[i] \in Nat /\ stock[i] \in Nat
      BY <2>5, CatalogAssumption DEF CatalogInv, CatalogTypeOK
    <3>4. CASE wanted[i] = 0
      <4>1. HoldingOf(o, i)' = {}
        BY <3>2, <3>4
      <4> QED BY <2>1, <3>1, <3>3, <3>4, <4>1, FS_EmptySet
    <3>5. CASE wanted[i] > 0
      <4>1. HoldingOf(o, i)' = {<<c, i>>}
        BY <3>2, <3>5 DEF RowId
      <4>2. Cardinality(HoldingOf(o, i)') = 1 /\ Cardinality(HoldingOf(o, i)) = 0
        BY <3>1, <4>1, FS_Singleton, FS_EmptySet
      <4> QED BY <2>1, <3>3, <4>2
    <3> QED BY <3>3, <3>4, <3>5
  <2> QED BY <1>1, <2>3, <2>4, <2>6, <2>7, <2>8, <2>9, <2>12, <2>13, WritesRows
<1> QED BY <1>2, <1>3

LEMMA ReleaseInv ==
  ASSUME CatalogInv, NEW c \in Caller, ReleaseStock(c) PROVE CatalogInv'
<1> DEFINE o == call[c].order
           back(i) == {row \in RowId : row[2] = i /\ <<row, "RESERVED">> \in call[c].read}
<1>1. /\ Ends(c) /\ call[c].at = "write" /\ call[c].op = "release" /\ UNCHANGED <<used, redeemed>>
      /\ stock' = [i \in Item |-> stock[i] + GivenBack(c, i)]
      /\ reservation' = [row \in RowId |-> IF <<row, "RESERVED">> \in call[c].read THEN "RELEASED" ELSE reservation[row]]
      /\ crossed' = crossed \union (IF Rows(c) # call[c].read THEN {o} ELSE {})
  BY DEF ReleaseStock, Writes, Crosses
<1>2. /\ \A d \in Caller, i, j \in Of(o) : Serves(d, o) =>
           (<<<<d, i>>, "RESERVED">> \in call[c].read => <<<<d, j>>, "RESERVED">> \in call[c].read)
      /\ \A row \in RowId : <<row, "RESERVED">> \in call[c].read => Serves(row[1], o) /\ reservation[row] # "none"
  BY <1>1 DEF Writes, CatalogInv, CallKnows
<1>3. /\ reservation' \in [RowId -> {"none", "RESERVED", "CONSUMED", "RELEASED"}]
      /\ \A row \in RowId : reservation[row] # "none" <=> reservation'[row] # "none"
      /\ \A row \in RowId : reservation'[row] # reservation[row] => Serves(row[1], o)
  BY <1>1, <1>2 DEF CatalogInv, CatalogTypeOK
<1>4. /\ \A d \in Caller : call'[d].order = call[d].order /\ call'[d].op = call[d].op /\ call'[d].at \in {call[d].at, "ended"}
      /\ o \in Buyer
  BY <1>1, <1>3, EndsKnows
<1>5. \A i \in Item : /\ GivenBack(c, i) = Quantity[o][i] * Cardinality(back(i)) /\ GivenBack(c, i) \in Nat
                      /\ IsFiniteSet(back(i)) /\ Cardinality(back(i)) \in Nat /\ Quantity[o][i] \in Nat
  <2>1. TAKE i \in Item
  <2>2. back(i) \in SUBSET RowId
    OBVIOUS
  <2>3. IsFiniteSet(back(i)) /\ Cardinality(back(i)) \in Nat
    BY <2>2, RowIdFinite
  <2>4. Quantity[o][i] \in Nat
    BY <1>4, CatalogAssumption
  <2>5. \A a, b \in Nat : a * b \in Nat
    OBVIOUS
  <2>6. GivenBack(c, i) = Quantity[o][i] * Cardinality(back(i))
    BY DEF GivenBack
  <2> QED BY <2>3, <2>4, <2>5, <2>6
<1>6. stock' \in [Item -> Nat] /\ crossed' \in SUBSET Buyer /\ crossed \subseteq crossed'
  <2>1. ASSUME NEW i \in Item PROVE stock[i] + GivenBack(c, i) \in Nat
    <3>1. stock[i] \in Nat
      BY DEF CatalogInv, CatalogTypeOK
    <3>2. GivenBack(c, i) \in Nat
      BY <1>5
    <3> QED BY <3>1, <3>2
  <2> QED BY <1>1, <1>4, <2>1 DEF CatalogInv, CatalogTypeOK
<1>7. RowsAreReserved'
  <2> SUFFICES ASSUME NEW row \in RowId, reservation'[row] # "none"
               PROVE  /\ call'[row[1]].op = "reserve" /\ call'[row[1]].at = "ended" /\ row[2] \in Of(call'[row[1]].order)
    BY DEF RowsAreReserved, Of
  <2>1. row[1] \in Caller /\ reservation[row] # "none"
    BY <1>3 DEF RowId
  <2> QED BY <1>4, <2>1 DEF CatalogInv, RowsAreReserved
<1>8. RowsTogether'
  <2> SUFFICES ASSUME NEW d \in Caller, call'[d].order \in Buyer, NEW i \in Of(call'[d].order), NEW j \in Of(call'[d].order)
               PROVE  reservation'[<<d, i>>] = reservation'[<<d, j>>]
    BY DEF RowsTogether, Of
  <2>1. <<d, i>> \in RowId /\ <<d, j>> \in RowId /\ <<d, i>>[1] = d /\ <<d, j>>[1] = d /\ call'[d].order = call[d].order
    BY <1>4 DEF RowId, Of
  <2>2. reservation[<<d, i>>] = reservation[<<d, j>>]
    BY <2>1 DEF CatalogInv, RowsTogether
  <2>3. <<<<d, i>>, "RESERVED">> \in call[c].read <=> <<<<d, j>>, "RESERVED">> \in call[c].read
    BY <1>2, <2>1 DEF Serves
  <2> QED BY <1>1, <2>1, <2>2, <2>3
<1>9. o \notin crossed' => /\ o \notin crossed
                           /\ \A row \in RowId : <<row, "RESERVED">> \in call[c].read <=> Serves(row[1], o) /\ reservation[row] = "RESERVED"
  <2>1. o \notin crossed' => RowsOf(o) = call[c].read /\ o \notin crossed
    BY <1>1 DEF Rows
  <2> QED BY <2>1, RowsOfIs
<1>10. \A row \in RowId : (Serves(row[1], o) /\ reservation[row] \in HoldStatus)' <=>
                          Serves(row[1], o) /\ reservation[row] \in HoldStatus /\ <<row, "RESERVED">> \notin call[c].read
  <2> SUFFICES ASSUME NEW row \in RowId
               PROVE (Serves(row[1], o) /\ reservation[row] \in HoldStatus)' <=>
                          Serves(row[1], o) /\ reservation[row] \in HoldStatus /\ <<row, "RESERVED">> \notin call[c].read
    OBVIOUS
  <2>1. call'[row[1]].order = call[row[1]].order /\ call'[c].order = o
    BY <1>4 DEF RowId
  <2> QED BY <1>1, <2>1 DEF Serves, HoldStatus
<1>11. ASSUME o \notin crossed', NEW d \in Caller, NEW e \in Caller, HoldsBy(d, call[c].order)', HoldsBy(e, call[c].order)' PROVE d = e
  <2>1. ASSUME NEW a \in Caller, HoldsBy(a, call[c].order)' PROVE HoldsBy(a, o)
    <3>1. PICK i \in Item : Serves(a, o)' /\ reservation'[<<a, i>>] \in HoldStatus
      BY <2>1 DEF HoldsBy
    <3>2. <<a, i>> \in RowId /\ <<a, i>>[1] = a
      BY DEF RowId
    <3> QED BY <1>10, <3>1, <3>2 DEF HoldsBy
  <2>2. HoldsBy(d, o) /\ HoldsBy(e, o)
    BY <1>11, <2>1
  <2> QED BY <1>4, <1>9, <1>11, <2>2 DEF CatalogInv
<1>12. ASSUME crossed' = {}, NEW i \in Item
       PROVE  stock[i] - stock'[i] = Quantity[o][i] * Cardinality(HoldingOf(o, i)') - Quantity[o][i] * Cardinality(HoldingOf(o, i))
  <2> DEFINE A == HoldingOf(o, i)
             B == HoldingOf(o, i)'
  <2>1. call'[c].order = o
    BY <1>4
  <2>2. A = {row \in RowId : row[2] = i /\ Serves(row[1], o) /\ reservation[row] \in HoldStatus}
    BY HoldingBefore DEF HoldingFact
  <2>3. B = {row \in RowId : row[2] = i /\ (Serves(row[1], o) /\ reservation[row] \in HoldStatus)'}
    BY <2>1, HoldingAfter DEF HoldingFact
  <2>4. back(i) \in SUBSET A /\ B = A \ back(i)
    BY <1>9, <1>10, <1>12, <2>2, <2>3 DEF HoldStatus
  <2>5. IsFiniteSet(A) /\ Cardinality(A) \in Nat
    BY <2>2, RowIdFinite
  <2>6. Cardinality(A \ back(i)) = Cardinality(A) - Cardinality(back(i)) /\ IsFiniteSet(A \ back(i))
    <3> HIDE DEF A, B, back
    <3>1. Cardinality(A \ back(i)) = Cardinality(A) - Cardinality(A \cap back(i)) /\ IsFiniteSet(A \ back(i))
      BY <1>5, <2>5, FS_Difference
    <3>2. A \cap back(i) = back(i)
      BY <2>4
    <3> QED BY <3>1, <3>2
  <2>7. PICK a, b, q \in Nat : a = Cardinality(A) /\ b = Cardinality(back(i)) /\ q = Quantity[o][i]
    BY <1>5, <2>5
  <2>8. stock'[i] = stock[i] + q * b /\ stock[i] \in Nat
    BY <1>1, <1>5, <2>7 DEF CatalogInv, CatalogTypeOK
  <2>9. Cardinality(B) = a - b
    BY <2>4, <2>6, <2>7
  <2>10. q * (a - b) = q * a - q * b /\ q * a \in Int /\ q * b \in Int
    BY <2>7
  <2> HIDE DEF A, B, back
  <2>11. stock[i] - stock'[i] = q * Cardinality(B) - q * Cardinality(A)
    BY <2>7, <2>8, <2>9, <2>10
  <2> QED BY <2>7, <2>11 DEF A, B
<1> QED BY <1>1, <1>3, <1>6, <1>7, <1>8, <1>11, <1>12, WritesRows

LEMMA CatalogStep == CatalogInv /\ [CatalogNext]_catalogVars => CatalogInv'
<1> SUFFICES ASSUME CatalogInv, [CatalogNext]_catalogVars PROVE CatalogInv'
  OBVIOUS
<1>1. CASE UNCHANGED catalogVars
  <2>1. CatalogTypeOK' /\ RowsAreReserved' /\ RowsTogether' /\ \A c \in Caller : DOMAIN call'[c] = CallFields /\ CallKnows(c)'
    BY <1>1 DEF catalogVars, CatalogInv, CatalogTypeOK, RowsAreReserved, RowsTogether, CallKnows, Writes, Serves
  <2>2. \A i \in Item : HeldTotal(i)' = HeldTotal(i)
    BY <1>1, SameHeld DEF catalogVars, Serves
  <2>3. \A o \in Buyer, c \in Caller : HoldsBy(c, o)' <=> HoldsBy(c, o)
    BY <1>1 DEF catalogVars, HoldsBy, Serves
  <2> QED BY <1>1, <2>1, <2>2, <2>3 DEF catalogVars, CatalogInv, StockAgrees, UsesAgree
<1>2. CASE CatalogNext
  BY <1>2, ReadsInv, ReserveInv, ReleaseInv, RedeemInv, ReleasePromotionInv DEF CatalogNext
<1> QED BY <1>1, <1>2

\* The catalog's counters agree with its rows for any orders, items, quantities
\* and interleavings of calls, but of those of one order: CatalogBooks
\* (CatalogService.reserveStock, releaseStock, consumeStock, redeemPromotion).
THEOREM CountersAgree == CatalogSpec => []CatalogBooks
<1>1. CatalogSpec => []CatalogInv
  BY CatalogInitInv, CatalogStep, PTL DEF CatalogSpec
<1> QED BY <1>1, CatalogInvBooks, PTL

-----------------------------------------------------------------------------
(* The payment of a checkout and what the ledger posts for it *)

RefundRow == [order : Order \union {"none"}, amount : Nat, status : {"none", "PROCESSING", "PROCESSED", "FAILED"}]
PspRow == [status : {"none", "pending", "processed", "failed"}, amount : Nat]
RefundCall == [order : Order \union {"none"}, amount : Nat, at : {"idle", "read", "processed", "pending"}]
Attempt == [at : {"idle", "run", "commit", "save", "publish", "mark", "fail"}, event : Hook \union {"none", "sweep"}, row : Refund \union {"none"}]
RowsTyped ==
  /\ scope \in Scopes /\ charged \in BOOLEAN /\ pay \in {"INITIATED", "SUCCESS"}
  /\ refund \in [Refund -> RefundRow] /\ pspRefund \in [Refund -> PspRow] /\ asking \in [Refund -> RefundCall]
  /\ notified \subseteq Hook
  /\ hook \in [Hook -> [status : {"none", "open", "processed", "abandoned"}, attempts : 0..MaxAttempts]]
  /\ runner \in [Runner -> Attempt]
  /\ overtook \subseteq Refund /\ mistaken \subseteq Refund /\ unsent \subseteq Refund
  /\ paymentFaults \in 0..scope.faults

Final(r) == refund[r].status \in {"PROCESSED", "FAILED"}
\* a call that is under way has no row yet; a row says what Paystack said, or
\* what it said of another
RefundInv(r) ==
  /\ asking[r].at = "idle" => asking[r] = NotAsking
  /\ asking[r].at # "idle" => refund[r] = NoRefund /\ asking[r].order \in Order
  /\ asking[r].at = "read" => pspRefund[r].status = "none"
  /\ asking[r].at = "processed" => pspRefund[r].status = "processed"
  /\ asking[r].at = "pending" => pspRefund[r].status # "none"
  /\ refund[r].status = "none" => refund[r] = NoRefund
  /\ refund[r].status # "none" => refund[r].order \in Order /\ pspRefund[r].status # "none"
  /\ refund[r].status = "PROCESSED" => pspRefund[r].status = "processed" \/ r \in mistaken
  /\ refund[r].status = "FAILED" => pspRefund[r].status = "failed" \/ r \in mistaken
  /\ r \in mistaken => refund[r].status # "none"
\* a webhook comes when it is decided what it says
WebhookInv ==
  /\ \A r \in Refund : (r \in notified \/ hook[r].status # "none") => pspRefund[r].status \in {"processed", "failed"}
  /\ \A r \in Refund : hook[r].status = "processed" => Final(r) \/ r \in overtook
  /\ "charge" \in notified \/ hook["charge"].status # "none" \/ pay = "SUCCESS" => charged
\* what an attempt took for the refund's row
Found(p) ==
  /\ runner[p].event \in Refund /\ runner[p].row \in Refund
  /\ runner[p].row # runner[p].event => runner[p].row \in mistaken /\ runner[p].event \in overtook
\* an attempt knows what it read
AttemptInv(p) ==
  /\ runner[p].at = "idle" <=> runner[p].event = "none"
  /\ runner[p].event \in Hook => hook[runner[p].event].status # "none"
  /\ runner[p].event = "sweep" => charged
  /\ runner[p].at = "commit" => runner[p].event \in {"charge", "sweep"}
  /\ runner[p].at = "fail" => runner[p].event \in {"charge", "sweep"}
  /\ runner[p].at = "save" => Found(p) /\ refund[runner[p].row].status # "none"
  /\ runner[p].at = "publish" => /\ Found(p) /\ Final(runner[p].row)
                                /\ (refund[runner[p].row].status = "FAILED" \/ runner[p].row \in mistaken)
  /\ runner[p].at = "mark" => runner[p].event \in Hook
  /\ runner[p].at = "mark" /\ runner[p].event \in Refund => Final(runner[p].event) \/ runner[p].event \in overtook

\* one call of an order at a time asks for what the others left, and no row of the
\* order was given another's result
WithinTotal ==
  ~crowded => /\ \A r, q \in Refund : asking[r].order \in Order /\ asking[q].order = asking[r].order => r = q
              /\ \A o \in Order : ~Misattributed(o) =>
                   /\ Outstanding(o) <= Total
                   /\ \A r \in Refund : asking[r].order = o => Outstanding(o) + asking[r].amount <= Total

PaymentInv ==
  /\ RowsTyped /\ WebhookInv
  /\ \A r \in Refund : RefundInv(r)
  /\ \A p \in Runner : AttemptInv(p)
  /\ WithinTotal

-----------------------------------------------------------------------------
(* Sums of refunds *)

\* what a row counts for an order
Counted(o) == [r \in Refund |-> IF refund[r].order = o /\ refund[r].status # "FAILED" THEN refund[r].amount ELSE 0]
Posted(o) == [r \in Refund |-> IF refund[r].order = o /\ r \notin reversed THEN posted[r] ELSE 0]

LEMMA OutstandingIs ==
  ASSUME refund \in [Refund -> RefundRow], NEW o
  PROVE  /\ Outstanding(o) = SumFunctionOnSet(Counted(o), Refund) /\ Outstanding(o) \in Nat
         /\ \A r \in Refund : Counted(o)[r] \in Nat
<1> DEFINE W == {r \in Refund : refund[r].order = o /\ refund[r].status # "FAILED"}
           f == [r \in Refund |-> refund[r].amount]
<1>1. \A r \in Refund : Counted(o)[r] \in Nat /\ f[r] \in Nat
  BY DEF Counted, RefundRow
<1>2. IsFiniteSet(Refund) /\ W \in SUBSET Refund /\ IsFiniteSet(W)
  BY PaymentAssumption, FS_Subset
<1>3. \A r \in Refund \ W : Counted(o)[r] = 0
  BY DEF Counted
<1>4. \A r \in W : Counted(o)[r] = f[r]
  BY DEF Counted
<1>5. Outstanding(o) = SumFunctionOnSet(f, W)
  BY DEF Outstanding
<1> HIDE DEF W, f
<1>6. SumFunctionOnSet(Counted(o), Refund) = SumFunctionOnSet(Counted(o), W)
  BY <1>1, <1>2, <1>3, SumSupport
<1>7. SumFunctionOnSet(Counted(o), W) = SumFunctionOnSet(f, W)
  BY <1>2, <1>4, SumSame
<1>8. SumFunctionOnSet(Counted(o), Refund) \in Nat
  BY <1>1, <1>2, SumType
<1> QED BY <1>1, <1>5, <1>6, <1>7, <1>8

LEMMA HeldIs ==
  ASSUME posted \in [Refund -> Nat], NEW o
  PROVE  /\ Held(o) = Total * (captured[o] - released[o] - escrowed[o]) - SumFunctionOnSet(Posted(o), Refund)
         /\ SumFunctionOnSet(Posted(o), Refund) \in Nat /\ \A r \in Refund : Posted(o)[r] \in Nat
<1> DEFINE W == {r \in Refund : refund[r].order = o} \ reversed
<1>1. \A r \in Refund : Posted(o)[r] \in Nat /\ posted[r] \in Nat
  BY DEF Posted
<1>2. IsFiniteSet(Refund) /\ W \in SUBSET Refund /\ IsFiniteSet(W)
  BY PaymentAssumption, FS_Subset
<1>3. \A r \in Refund \ W : Posted(o)[r] = 0
  BY DEF Posted
<1>4. \A r \in W : Posted(o)[r] = posted[r]
  BY DEF Posted
<1>5. Held(o) = Total * (captured[o] - released[o] - escrowed[o]) - SumFunctionOnSet(posted, W)
  BY DEF Held
<1> HIDE DEF W
<1>6. SumFunctionOnSet(Posted(o), Refund) = SumFunctionOnSet(Posted(o), W)
  BY <1>1, <1>2, <1>3, SumSupport
<1>7. SumFunctionOnSet(Posted(o), W) = SumFunctionOnSet(posted, W)
  BY <1>2, <1>4, SumSame
<1>8. SumFunctionOnSet(Posted(o), Refund) \in Nat
  BY <1>1, <1>2, SumType
<1> QED BY <1>1, <1>5, <1>6, <1>7, <1>8

\* the same facts of the next state
SumFacts ==
  /\ refund \in [Refund -> RefundRow] => \A o \in Order :
       /\ Outstanding(o) = SumFunctionOnSet(Counted(o), Refund) /\ Outstanding(o) \in Nat
       /\ \A r \in Refund : Counted(o)[r] \in Nat
  /\ posted \in [Refund -> Nat] => \A o \in Order :
       /\ Held(o) = Total * (captured[o] - released[o] - escrowed[o]) - SumFunctionOnSet(Posted(o), Refund)
       /\ SumFunctionOnSet(Posted(o), Refund) \in Nat /\ \A r \in Refund : Posted(o)[r] \in Nat
LEMMA SumsNow == SumFacts
BY OutstandingIs, HeldIs DEF SumFacts

LEMMA SumsNext == SumFacts'
BY SumsNow, PTL
-----------------------------------------------------------------------------
(* The payment service *)

LEMMA IdleIs == NotAsking \in RefundCall /\ IdleRunner \in Attempt /\ NoRefund \in RefundRow
BY DEF NotAsking, RefundCall, IdleRunner, Attending, Attempt, NoRefund, RefundRow

LEMMA RunIs ==
  ASSUME NEW e \in Hook \union {"sweep"}
  PROVE  /\ Attending("run", e) \in Attempt /\ Attending("run", e).at = "run" /\ Attending("run", e).event = e
         /\ Attending("run", e).row = "none"
BY DEF Attending, Attempt
LEMMA IdleHas == IdleRunner.at = "idle" /\ IdleRunner.event = "none" /\ IdleRunner.row = "none"
BY DEF IdleRunner, Attending

\* what is found of a refund's result
Finds(p, q) ==
  /\ q \in Refund /\ refund[q].status # "none"
  /\ IF refund[q].status = "PROCESSING"
     THEN /\ runner' = [runner EXCEPT ![p] = [at |-> "save", event |-> runner[p].event, row |-> q]]
          /\ mistaken' = IF q # runner[p].event THEN mistaken \union {q} ELSE mistaken
     ELSE Goto(p, "mark") /\ UNCHANGED mistaken
  /\ overtook' = IF q # runner[p].event THEN overtook \union {runner[p].event} ELSE overtook
FindsNone(p) ==
  /\ refund[runner[p].event].status = "none" /\ Goto(p, "mark") /\ UNCHANGED mistaken
  /\ overtook' = overtook \union {runner[p].event}
LEMMA RunRefundIs ==
  ASSUME NEW p \in Runner, RunRefund(p)
  PROVE  runner[p].at = "run" /\ runner[p].event \in Refund /\ (FindsNone(p) \/ \E q \in Refund : Finds(p, q))
BY DEF RunRefund, Finds, FindsNone

\* the calls of refundOrder
RefundMove(r) ==
  \/ \E o \in scope.orders, n \in RefundSum : BeginRefund(r, o, n)
  \/ CallRefund(r) \/ CommitRefund(r) \/ PspRefundEnds(r)
WebhookMove(p) ==
  \/ \E e \in Hook : HandleWebhook(p, e) \/ RetryStuckWebhook(p, e)
  \/ SweepCharge(p) \/ RunnerStep(p)

LEMMA BeginDoes ==
  ASSUME PaymentInv, NEW r \in Refund, NEW o \in scope.orders, NEW n \in RefundSum, BeginRefund(r, o, n)
  PROVE  /\ o \in Order /\ RefundAmount(o, n) \in Nat /\ RefundAmount(o, n) <= Total - Outstanding(o)
         /\ asking' = [asking EXCEPT ![r] = [order |-> o, amount |-> RefundAmount(o, n), at |-> "read"]]
<1>1. o \in Order /\ n \in Nat
  BY PaymentAssumption DEF PaymentInv, RowsTyped, Scope
<1>2. Outstanding(o) \in Nat /\ Total \in Nat
  BY <1>1, SumsNow, PaymentAssumption DEF SumFacts, PaymentInv, RowsTyped
<1>3. RefundAmount(o, n) > 0
  BY DEF BeginRefund
<1> QED BY <1>1, <1>2, <1>3 DEF RefundAmount, BeginRefund

LEMMA RefundMoveTyped ==
  ASSUME PaymentInv, NEW r \in Refund, RefundMove(r) PROVE RowsTyped'
<1> USE DEF PaymentInv, RowsTyped
<1>1. ASSUME NEW o \in scope.orders, NEW n \in RefundSum, BeginRefund(r, o, n) PROVE RowsTyped'
  <2>1. [order |-> o, amount |-> RefundAmount(o, n), at |-> "read"] \in RefundCall
    BY <1>1, BeginDoes DEF RefundCall
  <2> QED BY <1>1, <2>1, BeginDoes DEF BeginRefund, rows
<1>2. CASE CallRefund(r)
  <2>1. asking' \in [Refund -> RefundCall] /\ pspRefund' \in [Refund -> PspRow] /\ notified' \subseteq Hook
    <3>1. CASE asking' = [asking EXCEPT ![r] = NotAsking] /\ UNCHANGED <<pspRefund, notified>>
      BY <3>1, IdleIs
    <3>2. ASSUME NEW answer \in {"processed", "pending"},
                 pspRefund' = [pspRefund EXCEPT ![r] = [status |-> answer, amount |-> asking[r].amount]],
                 asking' = [asking EXCEPT ![r].at = answer],
                 notified' = IF answer = "processed" THEN notified \union {r} ELSE notified
          PROVE  asking' \in [Refund -> RefundCall] /\ pspRefund' \in [Refund -> PspRow] /\ notified' \subseteq Hook
      <4>1. [status |-> answer, amount |-> asking[r].amount] \in PspRow
        BY DEF RefundCall, PspRow
      <4>2. asking' \in [Refund -> RefundCall]
        BY <3>2 DEF RefundCall
      <4> QED BY <3>2, <4>1, <4>2 DEF Hook
    <3> QED BY <1>2, <3>1, <3>2 DEF CallRefund
  <2> QED BY <1>2, <2>1 DEF CallRefund, rows
<1>3. CASE CommitRefund(r)
  <2>1. [order |-> asking[r].order, amount |-> asking[r].amount,
         status |-> IF asking[r].at = "processed" THEN "PROCESSED" ELSE "PROCESSING"] \in RefundRow
    BY DEF RefundCall, RefundRow
  <2> QED BY <1>3, <2>1, IdleIs DEF CommitRefund
<1>4. CASE PspRefundEnds(r)
  <2>1. pspRefund' \in [Refund -> PspRow] /\ notified' \subseteq Hook
    BY <1>4 DEF PspRefundEnds, PspRow, Hook
  <2> QED BY <1>4, <2>1 DEF PspRefundEnds, rows
<1> QED BY <1>1, <1>2, <1>3, <1>4 DEF RefundMove

LEMMA WebhookMoveTyped ==
  ASSUME PaymentInv, NEW p \in Runner, WebhookMove(p) PROVE RowsTyped'
<1> USE DEF PaymentInv, RowsTyped
<1>0. ASSUME NEW at \in {"idle", "run", "commit", "save", "publish", "mark", "fail"}, Goto(p, at) PROVE runner' \in [Runner -> Attempt]
  BY <1>0 DEF Goto, Attempt
<1>00. ASSUME Done(p) PROVE runner' \in [Runner -> Attempt]
  BY <1>0, <1>00, IdleIs DEF Done
<1>1. ASSUME NEW e \in Hook, HandleWebhook(p, e) \/ RetryStuckWebhook(p, e) PROVE RowsTyped'
  <2>1. runner' \in [Runner -> Attempt]
    BY <1>1, RunIs DEF HandleWebhook, RetryStuckWebhook
  <2>2. notified' \subseteq Hook /\ hook' \in [Hook -> [status : {"none", "open", "processed", "abandoned"}, attempts : 0..MaxAttempts]]
    BY <1>1 DEF HandleWebhook, RetryStuckWebhook, rows
  <2> QED BY <1>1, <2>1, <2>2 DEF HandleWebhook, RetryStuckWebhook, rows
<1>2. CASE SweepCharge(p)
  <2>1. runner' \in [Runner -> Attempt]
    BY <1>2, RunIs DEF SweepCharge
  <2> QED BY <1>2, <2>1 DEF SweepCharge, rows
<1>3. CASE RunCharge(p)
  <2>1. runner' \in [Runner -> Attempt]
    BY <1>0, <1>00, <1>3 DEF RunCharge
  <2>2. scope.faults \in Nat /\ paymentFaults' \in 0..scope.faults
    BY <1>3, PaymentAssumption DEF RunCharge, PaymentFails, Scope
  <2> QED BY <1>3, <2>1, <2>2 DEF RunCharge, rows
<1>4. CASE CommitCharge(p)
  BY <1>00, <1>4 DEF CommitCharge
<1>5. CASE RunRefund(p)
  <2>1. runner[p].event \in Refund /\ (FindsNone(p) \/ \E q \in Refund : Finds(p, q))
    BY <1>5, RunRefundIs
  <2>2. ASSUME FindsNone(p) PROVE runner' \in [Runner -> Attempt] /\ overtook' \subseteq Refund /\ mistaken' \subseteq Refund
    BY <1>0, <2>1, <2>2 DEF FindsNone
  <2>3. ASSUME NEW q \in Refund, Finds(p, q)
        PROVE  runner' \in [Runner -> Attempt] /\ overtook' \subseteq Refund /\ mistaken' \subseteq Refund
    <3>1. overtook' \subseteq Refund
      BY <2>1, <2>3 DEF Finds
    <3>2. CASE refund[q].status = "PROCESSING"
      <4>1. runner' = [runner EXCEPT ![p] = [at |-> "save", event |-> runner[p].event, row |-> q]] /\ mistaken' \subseteq Refund
        BY <2>3, <3>2 DEF Finds
      <4>2. runner' \in [Runner -> Attempt]
        BY <2>1, <4>1 DEF Attempt, Hook
      <4> QED BY <3>1, <4>1, <4>2
    <3>3. CASE refund[q].status # "PROCESSING"
      BY <1>0, <2>3, <3>1, <3>3 DEF Finds
    <3> QED BY <3>2, <3>3
  <2>4. runner' \in [Runner -> Attempt] /\ overtook' \subseteq Refund /\ mistaken' \subseteq Refund
    BY <2>1, <2>2, <2>3
  <2> QED BY <1>5, <2>4 DEF RunRefund, rows
<1>6. CASE SaveRefund(p)
  <2>1. runner' \in [Runner -> Attempt]
    BY <1>0, <1>6 DEF SaveRefund
  <2>2. refund' \in [Refund -> RefundRow]
    <3>1. runner[p].row \in Refund
      BY <1>6 DEF SaveRefund, AttemptInv, Found
    <3>2. PICK e \in Refund, end \in {"FAILED", "PROCESSED"} : refund' = [refund EXCEPT ![e].status = end]
      BY <1>6, <3>1 DEF SaveRefund
    <3> QED BY <3>2 DEF RefundRow
  <2> QED BY <1>6, <2>1, <2>2 DEF SaveRefund
<1>7. CASE PublishRefundFailed(p)
  BY <1>0, <1>7 DEF PublishRefundFailed, rows
<1>8. CASE MarkEventProcessed(p)
  <2>1. hook' \in [Hook -> [status : {"none", "open", "processed", "abandoned"}, attempts : 0..MaxAttempts]]
    BY <1>8 DEF MarkEventProcessed
  <2> QED BY <1>8, <2>1, IdleIs DEF MarkEventProcessed
<1>9. CASE RecordFailure(p)
  <2>1. hook' \in [Hook -> [status : {"none", "open", "processed", "abandoned"}, attempts : 0..MaxAttempts]]
    BY <1>9, PaymentAssumption DEF RecordFailure
  <2> QED BY <1>9, <2>1, IdleIs DEF RecordFailure
<1> QED BY <1>1, <1>2, <1>3, <1>4, <1>5, <1>6, <1>7, <1>8, <1>9 DEF WebhookMove, RunnerStep

LEMMA OtherMoveTyped ==
  ASSUME PaymentInv, Charge \/ PaymentCrash PROVE RowsTyped'
<1> USE DEF PaymentInv, RowsTyped
<1>1. CASE Charge
  BY <1>1 DEF Charge, rows, Hook
<1>2. CASE PaymentCrash
  <2>1. scope.faults \in Nat /\ paymentFaults' \in 0..scope.faults
    BY <1>2, PaymentAssumption DEF PaymentCrash, PaymentFails, Scope
  <2>2. runner' \in [Runner -> Attempt] /\ asking' \in [Refund -> RefundCall] /\ unsent' \subseteq Refund
    BY <1>2, IdleIs DEF PaymentCrash, AttemptInv, Found
  <2> QED BY <1>2, <2>1, <2>2 DEF PaymentCrash, rows
<1> QED BY <1>1, <1>2

\* what the attempts and webhooks rely on is kept
Steady ==
  /\ charged => charged' = TRUE
  /\ \A q \in Refund : /\ pspRefund[q].status \in {"processed", "failed"} => pspRefund'[q].status = pspRefund[q].status
                       /\ refund[q].status # "none" => refund'[q].status # "none"
                       /\ Final(q) => Final(q)' /\ (refund'[q].status = refund[q].status \/ q \in mistaken)
                       /\ q \in overtook => q \in overtook'
                       /\ q \in mistaken => q \in mistaken'

LEMMA AttemptStays ==
  ASSUME PaymentInv, Steady, NEW p \in Runner, runner'[p] = runner[p],
         \A e \in Hook : hook[e].status # "none" => hook'[e].status # "none"
  PROVE  AttemptInv(p)'
<1>1. AttemptInv(p) /\ runner[p] = runner'[p]
  BY DEF PaymentInv
<1>2. \A q \in Refund : Final(q) => Final(q)'
  BY DEF Steady
<1>3. Found(p) => Found(p)'
  BY <1>1 DEF Found, Steady
<1>4. \A q \in Refund : Final(q) /\ (refund[q].status = "FAILED" \/ q \in mistaken) => refund'[q].status = "FAILED" \/ q \in mistaken'
  BY DEF Steady
<1>5. runner[p].at = "publish" => runner[p].row \in Refund /\ Final(runner[p].row)' /\ (refund'[runner[p].row].status = "FAILED" \/ runner[p].row \in mistaken')
  <2>1. ASSUME runner[p].at = "publish" PROVE runner[p].row \in Refund /\ Final(runner[p].row) /\ (refund[runner[p].row].status = "FAILED" \/ runner[p].row \in mistaken)
    BY <1>1, <2>1 DEF AttemptInv, Found
  <2> QED BY <1>2, <1>4, <2>1 DEF Final
<1>6. runner[p].at = "save" => runner[p].row \in Refund /\ refund'[runner[p].row].status # "none"
  BY <1>1 DEF AttemptInv, Found, Steady
<1>7. runner[p].at = "mark" /\ runner[p].event \in Refund => Final(runner[p].event)' \/ runner[p].event \in overtook'
  BY <1>1, <1>2 DEF AttemptInv, Steady, Final
<1> QED BY <1>1, <1>3, <1>5, <1>6, <1>7 DEF AttemptInv, Steady, Final

LEMMA RefundMoveKeeps ==
  ASSUME PaymentInv, NEW r \in Refund, RefundMove(r)
  PROVE  /\ Steady /\ WebhookInv'
         /\ \A q \in Refund : RefundInv(q)' /\ (refund[q].status # "none" => refund'[q] = refund[q])
         /\ \A p \in Runner : AttemptInv(p)'
         /\ topic' \subseteq topic \union {<<"refund", r>>} /\ topic \subseteq topic'
         /\ UNCHANGED <<scope, charged, pay, hook, runner, overtook, mistaken, unsent>>
<1> USE DEF PaymentInv
<1>0. /\ RefundInv(r) /\ asking \in [Refund -> RefundCall] /\ refund \in [Refund -> RefundRow] /\ pspRefund \in [Refund -> PspRow]
      /\ \A q \in Refund : RefundInv(q)
  BY DEF RowsTyped
<1>1. /\ UNCHANGED <<scope, charged, pay, hook, runner, overtook, mistaken, unsent>> /\ topic \subseteq topic'
      /\ topic' \subseteq topic \union {<<"refund", r>>}
  BY DEF RefundMove, BeginRefund, CallRefund, CommitRefund, PspRefundEnds, rows
<1>2. ASSUME NEW o \in scope.orders, NEW n \in RefundSum, BeginRefund(r, o, n)
      PROVE  /\ UNCHANGED <<refund, pspRefund, notified>> /\ \A q \in Refund : RefundInv(q)'
  <2>1. /\ asking[r] = NotAsking /\ refund[r] = NoRefund /\ pspRefund[r].status = "none"
        /\ UNCHANGED <<refund, pspRefund, notified>> /\ o \in Order
        /\ asking' = [asking EXCEPT ![r] = [order |-> o, amount |-> RefundAmount(o, n), at |-> "read"]]
    BY <1>2, BeginDoes DEF BeginRefund, rows
  <2>2. asking'[r].at = "read" /\ asking'[r].order = o /\ \A q \in Refund \ {r} : asking'[q] = asking[q]
    BY <1>0, <2>1
  <2>3. refund[r].status = "none"
    BY <2>1 DEF NoRefund
  <2> QED BY <1>0, <1>1, <2>1, <2>2, <2>3 DEF RefundInv
<1>3. CASE CallRefund(r)
  <2>1. /\ asking[r].at = "read" /\ refund[r] = NoRefund /\ pspRefund[r].status = "none" /\ refund' = refund
        /\ refund[r].status = "none" /\ asking[r].order \in Order
    BY <1>0, <1>3 DEF CallRefund, RefundInv, rows, NoRefund
  <2>2. CASE asking' = [asking EXCEPT ![r] = NotAsking] /\ UNCHANGED <<pspRefund, notified>>
    <3>1. asking'[r] = NotAsking /\ asking'[r].at = "idle" /\ \A q \in Refund \ {r} : asking'[q] = asking[q]
      BY <1>0, <2>2 DEF NotAsking
    <3>2. \A q \in Refund : RefundInv(q)'
      BY <1>0, <1>1, <2>1, <2>2, <3>1 DEF RefundInv
    <3>3. Steady /\ WebhookInv'
      BY <1>1, <2>1, <2>2 DEF Steady, WebhookInv, Final
    <3> QED BY <1>1, <2>1, <3>2, <3>3, AttemptStays
  <2>3. ASSUME NEW answer \in {"processed", "pending"},
               pspRefund' = [pspRefund EXCEPT ![r] = [status |-> answer, amount |-> asking[r].amount]],
               asking' = [asking EXCEPT ![r].at = answer],
               notified' = IF answer = "processed" THEN notified \union {r} ELSE notified
        PROVE  Steady /\ WebhookInv' /\ \A q \in Refund : RefundInv(q)'
    <3>1. /\ asking'[r].at = answer /\ asking'[r].order = asking[r].order /\ pspRefund'[r].status = answer
          /\ \A q \in Refund \ {r} : asking'[q] = asking[q] /\ pspRefund'[q] = pspRefund[q]
      BY <1>0, <2>3 DEF RefundCall
    <3>2. \A q \in Refund : RefundInv(q)'
      BY <1>0, <1>1, <2>1, <3>1 DEF RefundInv
    <3>3. Steady
      BY <1>1, <2>1, <3>1 DEF Steady, Final
    <3>4. "charge" \notin Refund
      BY PaymentAssumption
    <3>5. WebhookInv'
      BY <1>1, <2>1, <2>3, <3>1, <3>4 DEF WebhookInv, Final
    <3> QED BY <3>2, <3>3, <3>5
  <2>4. Steady /\ WebhookInv' /\ \A q \in Refund : RefundInv(q)'
    BY <1>3, <2>2, <2>3 DEF CallRefund
  <2> QED BY <1>1, <2>1, <2>4, AttemptStays
<1>4. CASE CommitRefund(r)
  <2>1. /\ asking[r].at \in {"processed", "pending"} /\ refund[r] = NoRefund /\ refund[r].status = "none" /\ asking[r].order \in Order
        /\ UNCHANGED <<pspRefund, notified>> /\ asking' = [asking EXCEPT ![r] = NotAsking]
        /\ refund' = [refund EXCEPT ![r] = [order |-> asking[r].order, amount |-> asking[r].amount,
                         status |-> IF asking[r].at = "processed" THEN "PROCESSED" ELSE "PROCESSING"]]
    BY <1>0, <1>4 DEF CommitRefund, RefundInv, NoRefund
  <2>2. /\ refund'[r].order = asking[r].order /\ refund'[r].status = IF asking[r].at = "processed" THEN "PROCESSED" ELSE "PROCESSING"
        /\ asking'[r] = NotAsking /\ asking'[r].at = "idle"
        /\ \A q \in Refund \ {r} : asking'[q] = asking[q] /\ refund'[q] = refund[q]
    BY <1>0, <2>1 DEF NotAsking
  <2>3. \A q \in Refund : RefundInv(q)'
    BY <1>0, <1>1, <2>1, <2>2 DEF RefundInv
  <2>4. Steady /\ WebhookInv'
    BY <1>1, <2>1, <2>2 DEF Steady, WebhookInv, Final
  <2> QED BY <1>1, <2>1, <2>2, <2>3, <2>4, AttemptStays
<1>5. CASE PspRefundEnds(r)
  <2>1. PICK end \in {"processed", "failed"} : pspRefund' = [pspRefund EXCEPT ![r].status = end]
    BY <1>5 DEF PspRefundEnds
  <2>2. /\ pspRefund[r].status = "pending" /\ pspRefund'[r].status = end /\ UNCHANGED <<refund, asking>> /\ notified' = notified \union {r}
        /\ \A q \in Refund \ {r} : pspRefund'[q] = pspRefund[q]
    BY <1>0, <1>5, <2>1 DEF PspRefundEnds, rows, PspRow
  <2>3. \A q \in Refund : RefundInv(q)'
    BY <1>0, <1>1, <2>2 DEF RefundInv
  <2>4. "charge" \notin Refund
    BY PaymentAssumption
  <2>5. Steady /\ WebhookInv'
    BY <1>1, <2>2, <2>4 DEF Steady, WebhookInv, Final
  <2> QED BY <1>1, <2>2, <2>3, <2>5, AttemptStays
<1>6. ASSUME NEW o \in scope.orders, NEW n \in RefundSum, BeginRefund(r, o, n)
      PROVE  Steady /\ WebhookInv' /\ refund' = refund /\ \A q \in Refund : RefundInv(q)'
  BY <1>1, <1>2, <1>6 DEF Steady, WebhookInv, Final
<1> QED BY <1>1, <1>3, <1>4, <1>5, <1>6, AttemptStays DEF RefundMove

\* what a webhook move does to the rows of refunds
RowsAfter ==
  \A q \in Refund : /\ refund'[q].order = refund[q].order /\ refund'[q].amount = refund[q].amount
                    /\ refund[q].status \in {"none", "PROCESSED", "FAILED"} => refund'[q] = refund[q] \/ q \in mistaken
                    /\ refund'[q].status = "none" => refund[q].status = "none"
                    /\ refund'[q].status # refund[q].status => Final(q)'
\* a refund whose failure was saved has an attempt that publishes it
Told(q) ==
  \/ \E p \in Runner : runner[p].at = "publish" /\ runner[p].row = q
  \/ q \in unsent
  \/ <<"refundFailed", q>> \in topic

LEMMA GotoDoes ==
  ASSUME PaymentInv, NEW p \in Runner, NEW at, Goto(p, at)
  PROVE  /\ runner'[p].at = at /\ runner'[p].event = runner[p].event /\ runner'[p].row = runner[p].row
         /\ \A q \in Runner \ {p} : runner'[q] = runner[q]
BY DEF PaymentInv, RowsTyped, Attempt, Goto

LEMMA DoneDoes ==
  ASSUME PaymentInv, NEW p \in Runner, Done(p)
  PROVE  /\ \A q \in Runner \ {p} : runner'[q] = runner[q]
         /\ runner[p].event # "sweep" => runner'[p].at = "mark" /\ runner'[p].event = runner[p].event
         /\ runner[p].event = "sweep" => runner'[p] = IdleRunner
BY GotoDoes DEF PaymentInv, RowsTyped, Done

LEMMA SaveRefundDoes ==
  ASSUME PaymentInv, NEW p \in Runner, SaveRefund(p)
  PROVE  /\ RowsAfter /\ (\A q \in Refund : RefundInv(q)') /\ Found(p)
         /\ refund'[runner[p].row].status = IF pspRefund[runner[p].event].status = "failed" THEN "FAILED" ELSE "PROCESSED"
         /\ \A q \in Refund \ {runner[p].row} : refund'[q] = refund[q]
<1> DEFINE e == runner[p].event  x == runner[p].row
<1>1. /\ Found(p) /\ e \in Refund /\ x \in Refund /\ refund[x].status # "none"
      /\ pspRefund[e].status \in {"processed", "failed"} /\ (x = e \/ x \in mistaken)
      /\ refund \in [Refund -> RefundRow] /\ \A q \in Refund : RefundInv(q)
  <2>1. Found(p) /\ e \in Refund /\ x \in Refund /\ refund[x].status # "none" /\ (x = e \/ x \in mistaken)
    BY DEF SaveRefund, PaymentInv, AttemptInv, Found
  <2>2. hook[e].status # "none"
    BY <2>1 DEF PaymentInv, AttemptInv, Hook
  <2> QED BY <2>1, <2>2 DEF PaymentInv, WebhookInv, RowsTyped
<1>2. PICK end : /\ end = (IF pspRefund[e].status = "failed" THEN "FAILED" ELSE "PROCESSED")
                 /\ refund' = [refund EXCEPT ![x].status = end]
  BY DEF SaveRefund
<1>3. UNCHANGED <<asking, pspRefund, mistaken>>
  BY DEF SaveRefund
<1> HIDE DEF e, x
<1>4. /\ refund'[x].status = end /\ refund'[x].order = refund[x].order /\ refund'[x].amount = refund[x].amount
      /\ \A q \in Refund \ {x} : refund'[q] = refund[q]
  BY <1>1, <1>2 DEF RefundRow
<1>5. refund[x].status = end \/ refund[x].status = "PROCESSING" \/ x \in mistaken
  BY <1>1, <1>2 DEF RefundInv, RefundRow
<1>6. asking[x].at = "idle"
  BY <1>1 DEF RefundInv, NoRefund, PaymentInv, RowsTyped, RefundCall
<1>7. RowsAfter
  <2>1. ASSUME refund[x].status = end PROVE refund'[x] = refund[x]
    <3>1. refund'[x] = [refund[x] EXCEPT !.status = end] /\ refund[x] \in RefundRow
      BY <1>1, <1>2
    <3> QED BY <2>1, <3>1 DEF RefundRow
  <2>2. end \in {"PROCESSED", "FAILED"}
    BY <1>2
  <2>3. /\ refund[x].status \in {"none", "PROCESSED", "FAILED"} => refund'[x] = refund[x] \/ x \in mistaken
        /\ refund'[x].status # "none" /\ refund'[x].status \in {"PROCESSED", "FAILED"}
    BY <1>1, <1>4, <1>5, <2>1, <2>2
  <2> QED BY <1>4, <2>3 DEF RowsAfter, Final
<1>8. \A q \in Refund : RefundInv(q)'
  BY <1>1, <1>2, <1>3, <1>4, <1>6 DEF RefundInv
<1>9. e = runner[p].event /\ x = runner[p].row
  BY DEF e, x
<1> QED BY <1>1, <1>2, <1>4, <1>7, <1>8, <1>9

\* what a webhook move keeps
WebhookKeeps(p) ==
  /\ Steady /\ WebhookInv' /\ RowsAfter
  /\ \A q \in Refund : RefundInv(q)'
  /\ AttemptInv(p)' /\ \A q \in Runner \ {p} : runner'[q] = runner[q]
  /\ \A q \in Refund \ {runner[p].row} : refund'[q] = refund[q]
  /\ UNCHANGED <<scope, charged, asking, pspRefund, crowded, unsent>>
  /\ \A e \in Hook : hook[e].status # "none" => hook'[e].status # "none"
  /\ pay = "SUCCESS" => pay' = "SUCCESS"
\* and what it announces
Telling ==
  /\ topic \subseteq topic'
  /\ \A q \in Refund : <<"refundFailed", q>> \in topic' =>
       \/ <<"refundFailed", q>> \in topic \/ refund[q].status = "FAILED" \/ q \in mistaken
  /\ \A kind \in {"delivered", "cancelled"} : \A o : <<kind, o>> \in topic' => <<kind, o>> \in topic
  /\ \A q \in Refund : /\ Told(q) => Told(q)'
                       /\ refund'[q].status = "FAILED" => refund[q].status = "FAILED" \/ Told(q)'

LEMMA ToldStays ==
  ASSUME NEW p \in Runner, \A q \in Runner \ {p} : runner'[q] = runner[q], topic \subseteq topic', unsent \subseteq unsent',
         runner[p].at # "publish" \/ <<"refundFailed", runner[p].row>> \in topic'
  PROVE  \A q \in Refund : Told(q) => Told(q)'
BY DEF Told

LEMMA ReceiptKeeps ==
  ASSUME PaymentInv, NEW p \in Runner,
         (\E e \in Hook : HandleWebhook(p, e) \/ RetryStuckWebhook(p, e)) \/ SweepCharge(p)
  PROVE  WebhookKeeps(p) /\ Telling
<1> USE DEF PaymentInv
<1>0. /\ AttemptInv(p) /\ (\A q \in Refund : RefundInv(q)) /\ RowsTyped /\ WebhookInv
      /\ "charge" \notin Refund /\ "sweep" \notin Refund /\ "sweep" \notin Hook /\ "none" \notin Hook /\ Refund \subseteq Hook
  BY PaymentAssumption DEF Hook
<1>1. /\ UNCHANGED <<scope, charged, asking, pspRefund, crowded, unsent, refund, topic, overtook, mistaken, pay>>
      /\ runner[p] = IdleRunner /\ runner \in [Runner -> Attempt]
      /\ hook \in [Hook -> [status : {"none", "open", "processed", "abandoned"}, attempts : 0..MaxAttempts]]
  BY <1>0 DEF HandleWebhook, RetryStuckWebhook, SweepCharge, rows, RowsTyped
<1>2. /\ \A q \in Runner \ {p} : runner'[q] = runner[q]
      /\ \A e \in Hook : hook[e].status # "none" => hook'[e].status # "none"
  BY <1>1 DEF HandleWebhook, RetryStuckWebhook, SweepCharge, rows
<1>3. (\A q \in Refund : RefundInv(q)') /\ Steady /\ RowsAfter
  BY <1>0, <1>1 DEF RefundInv, Steady, RowsAfter, RowsTyped, Final
<1>4. Telling
  <2>1. runner[p].at # "publish"
    BY <1>1, IdleHas
  <2> QED BY <1>1, <1>2, <2>1, ToldStays DEF Telling
<1>5. WebhookInv' /\ AttemptInv(p)'
  <2>1. ASSUME NEW e \in Hook, HandleWebhook(p, e) PROVE WebhookInv' /\ AttemptInv(p)'
    <3>1. /\ e \in notified /\ notified' = notified \ {e} /\ hook'[e].status = "open" /\ \A f \in Hook \ {e} : hook'[f] = hook[f]
          /\ runner'[p].at = "run" /\ runner'[p].event = e
      BY <1>1, <2>1, RunIs DEF HandleWebhook
    <3>2. WebhookInv'
      BY <1>0, <1>1, <3>1 DEF WebhookInv, Final, Hook
    <3> QED BY <1>0, <3>1, <3>2 DEF AttemptInv
  <2>2. ASSUME NEW e \in Hook, RetryStuckWebhook(p, e) PROVE WebhookInv' /\ AttemptInv(p)'
    <3>1. /\ UNCHANGED <<notified, hook>> /\ hook[e].status = "open" /\ runner'[p].at = "run" /\ runner'[p].event = e
      BY <1>1, <2>2, RunIs DEF RetryStuckWebhook, Stuck, rows
    <3>2. WebhookInv'
      BY <1>0, <1>1, <3>1 DEF WebhookInv, Final
    <3> QED BY <1>0, <3>1, <3>2 DEF AttemptInv
  <2>3. ASSUME SweepCharge(p) PROVE WebhookInv' /\ AttemptInv(p)'
    <3>1. /\ UNCHANGED <<notified, hook>> /\ charged /\ runner'[p].at = "run" /\ runner'[p].event = "sweep"
      BY <1>1, <2>3, RunIs DEF SweepCharge, Stale, rows
    <3>2. WebhookInv'
      BY <1>0, <1>1, <3>1 DEF WebhookInv, Final
    <3> QED BY <1>0, <1>1, <3>1, <3>2 DEF AttemptInv
  <2> QED BY <2>1, <2>2, <2>3
<1> QED BY <1>1, <1>2, <1>3, <1>4, <1>5 DEF WebhookKeeps

LEMMA ChargeRunKeeps ==
  ASSUME PaymentInv, NEW p \in Runner, RunCharge(p) \/ CommitCharge(p) \/ RecordFailure(p)
  PROVE  WebhookKeeps(p) /\ Telling
<1> USE DEF PaymentInv
<1>0. /\ AttemptInv(p) /\ (\A q \in Refund : RefundInv(q)) /\ RowsTyped /\ WebhookInv
      /\ "charge" \notin Refund /\ "sweep" \notin Refund /\ "sweep" \notin Hook /\ "none" \notin Hook
      /\ Refund \subseteq Hook /\ "charge" \in Hook
  BY PaymentAssumption DEF Hook
<1>1. /\ UNCHANGED <<scope, charged, asking, pspRefund, crowded, unsent, refund, overtook, mistaken, notified>>
      /\ runner[p].event \in {"charge", "sweep"} /\ runner[p].at # "publish" /\ runner \in [Runner -> Attempt]
      /\ hook \in [Hook -> [status : {"none", "open", "processed", "abandoned"}, attempts : 0..MaxAttempts]]
      /\ topic \subseteq topic' /\ \A m \in topic' \ topic : m[1] = "charge"
  BY <1>0 DEF RunCharge, CommitCharge, RecordFailure, rows, RowsTyped, AttemptInv
<1>2. /\ \A q \in Runner \ {p} : runner'[q] = runner[q]
      /\ (runner[p].event = "sweep" /\ Done(p)) \/ RecordFailure(p) => runner'[p] = IdleRunner
  BY <1>1, DoneDoes, GotoDoes DEF RunCharge, CommitCharge, RecordFailure
<1>3. (\A q \in Refund : RefundInv(q)') /\ Steady /\ RowsAfter
  BY <1>0, <1>1 DEF RefundInv, Steady, RowsAfter, RowsTyped, Final
<1>4. Telling
  <2>1. \A q \in Refund : Told(q) => Told(q)'
    BY <1>1, <1>2, ToldStays
  <2>2. \A m : m[1] # "charge" /\ m \in topic' => m \in topic
    BY <1>1
  <2>3. \A o : <<"refundFailed", o>>[1] # "charge" /\ <<"delivered", o>>[1] # "charge" /\ <<"cancelled", o>>[1] # "charge"
    OBVIOUS
  <2>4. \A o : /\ <<"refundFailed", o>> \in topic' => <<"refundFailed", o>> \in topic
               /\ <<"delivered", o>> \in topic' => <<"delivered", o>> \in topic
               /\ <<"cancelled", o>> \in topic' => <<"cancelled", o>> \in topic
    BY <2>2, <2>3
  <2> QED BY <1>1, <2>1, <2>4 DEF Telling
<1>5. /\ \A e \in Hook \ {"charge"} : hook'[e] = hook[e]
      /\ hook["charge"].status # "none" => hook'["charge"].status # "none"
      /\ hook'["charge"].status # "none" => hook["charge"].status # "none" \/ charged
  BY <1>0, <1>1 DEF RunCharge, CommitCharge, RecordFailure, rows, AttemptInv
<1>6. charged
  BY <1>0, <1>1 DEF AttemptInv, WebhookInv
<1>7. WebhookInv'
  BY <1>0, <1>1, <1>5, <1>6 DEF WebhookInv, Final
<1>8. AttemptInv(p)'
  <2>1. CASE runner'[p] = IdleRunner
    BY <1>0, <2>1, IdleHas DEF AttemptInv
  <2>2. CASE runner[p].event = "charge" /\ Done(p)
    BY <1>0, <1>5, <2>2, DoneDoes DEF AttemptInv
  <2>3. ASSUME NEW at \in {"commit", "fail"}, Goto(p, at) PROVE AttemptInv(p)'
    BY <1>0, <1>1, <1>5, <2>3, GotoDoes DEF AttemptInv
  <2>4. CASE RunCharge(p)
    BY <1>1, <1>2, <2>1, <2>2, <2>3, <2>4 DEF RunCharge
  <2>5. CASE CommitCharge(p)
    BY <1>1, <1>2, <2>1, <2>2, <2>5 DEF CommitCharge
  <2> QED BY <1>2, <2>1, <2>4, <2>5
<1>9. pay = "SUCCESS" => pay' = "SUCCESS"
  BY DEF RunCharge, CommitCharge, RecordFailure, rows
<1> QED BY <1>1, <1>2, <1>3, <1>4, <1>5, <1>7, <1>8, <1>9 DEF WebhookKeeps

LEMMA FindKeeps ==
  ASSUME PaymentInv, NEW p \in Runner, RunRefund(p)
  PROVE  /\ AttemptInv(p)' /\ (\A q \in Runner \ {p} : runner'[q] = runner[q])
         /\ mistaken \subseteq mistaken' /\ (\A q \in mistaken' \ mistaken : refund[q].status = "PROCESSING")
         /\ overtook \subseteq overtook'
<1> DEFINE e == runner[p].event
<1>0. /\ AttemptInv(p) /\ runner[p].at = "run" /\ e \in Refund /\ (FindsNone(p) \/ \E q \in Refund : Finds(p, q))
      /\ refund' = refund /\ hook' = hook /\ runner \in [Runner -> Attempt] /\ refund \in [Refund -> RefundRow]
      /\ "charge" \notin Refund /\ "sweep" \notin Refund /\ "none" \notin Hook /\ e \in Hook
  BY RunRefundIs, PaymentAssumption DEF PaymentInv, RowsTyped, RunRefund, rows, Hook
<1>1. hook'[e].status # "none"
  BY <1>0 DEF AttemptInv
<1>2. CASE FindsNone(p)
  <2>1. /\ runner'[p].at = "mark" /\ runner'[p].event = e /\ (\A q \in Runner \ {p} : runner'[q] = runner[q])
        /\ mistaken' = mistaken /\ overtook' = overtook \union {e}
    BY <1>2, GotoDoes DEF FindsNone
  <2> QED BY <1>0, <1>1, <2>1 DEF AttemptInv
<1>3. ASSUME NEW q \in Refund, Finds(p, q), refund[q].status = "PROCESSING"
      PROVE  /\ AttemptInv(p)' /\ (\A x \in Runner \ {p} : runner'[x] = runner[x])
             /\ mistaken \subseteq mistaken' /\ (\A x \in mistaken' \ mistaken : refund[x].status = "PROCESSING")
             /\ overtook \subseteq overtook'
  <2>1. /\ runner' = [runner EXCEPT ![p] = [at |-> "save", event |-> runner[p].event, row |-> q]]
        /\ mistaken' = (IF q # e THEN mistaken \union {q} ELSE mistaken)
        /\ overtook' = (IF q # e THEN overtook \union {e} ELSE overtook)
    BY <1>3 DEF Finds
  <2>2. /\ runner'[p].at = "save" /\ runner'[p].event = e /\ runner'[p].row = q
        /\ \A x \in Runner \ {p} : runner'[x] = runner[x]
    BY <1>0, <2>1 DEF Attempt
  <2>3. Found(p)'
    BY <1>0, <2>1, <2>2 DEF Found
  <2>4. AttemptInv(p)'
    BY <1>0, <1>1, <1>3, <2>2, <2>3 DEF AttemptInv
  <2> QED BY <1>3, <2>1, <2>2, <2>4
<1>4. ASSUME NEW q \in Refund, Finds(p, q), refund[q].status # "PROCESSING"
      PROVE  /\ AttemptInv(p)' /\ (\A x \in Runner \ {p} : runner'[x] = runner[x])
             /\ mistaken' = mistaken /\ overtook \subseteq overtook'
  <2>1. /\ runner'[p].at = "mark" /\ runner'[p].event = e /\ (\A x \in Runner \ {p} : runner'[x] = runner[x])
        /\ mistaken' = mistaken /\ overtook' = (IF q # e THEN overtook \union {e} ELSE overtook)
    BY <1>4, GotoDoes DEF Finds
  <2>2. q = e => Final(e)'
    <3>1. refund[q].status \in {"PROCESSED", "FAILED"} /\ refund'[q] = refund[q]
      BY <1>0, <1>4 DEF Finds, RefundRow
    <3> QED BY <2>1, <3>1 DEF Final
  <2>3. Final(e)' \/ e \in overtook'
    BY <2>1, <2>2
  <2>4. AttemptInv(p)'
    BY <1>0, <1>1, <2>1, <2>3 DEF AttemptInv, Final
  <2> QED BY <2>1, <2>4
<1> QED BY <1>0, <1>2, <1>3, <1>4 DEF FindsNone

LEMMA RefundRunKeeps ==
  ASSUME PaymentInv, NEW p \in Runner, RunRefund(p) \/ MarkEventProcessed(p)
  PROVE  WebhookKeeps(p) /\ Telling
<1> USE DEF PaymentInv
<1>0. /\ AttemptInv(p) /\ (\A q \in Refund : RefundInv(q)) /\ RowsTyped /\ WebhookInv
      /\ "charge" \notin Refund /\ "sweep" \notin Refund /\ "sweep" \notin Hook /\ "none" \notin Hook
      /\ Refund \subseteq Hook /\ "charge" \in Hook
  BY PaymentAssumption DEF Hook
<1>1. /\ UNCHANGED <<scope, charged, pay, asking, pspRefund, crowded, unsent, refund, notified, topic>>
      /\ runner[p].event \in Hook /\ runner[p].at # "publish" /\ runner \in [Runner -> Attempt]
      /\ overtook \subseteq overtook' /\ mistaken \subseteq mistaken'
      /\ \A q \in mistaken' \ mistaken : refund[q].status = "PROCESSING"
      /\ hook \in [Hook -> [status : {"none", "open", "processed", "abandoned"}, attempts : 0..MaxAttempts]]
  BY <1>0, FindKeeps DEF RunRefund, MarkEventProcessed, rows, RowsTyped, AttemptInv
<1>2. \A q \in Runner \ {p} : runner'[q] = runner[q]
  BY <1>1, FindKeeps DEF MarkEventProcessed
<1>3. (\A q \in Refund : RefundInv(q)') /\ Steady /\ RowsAfter
  BY <1>0, <1>1 DEF RefundInv, Steady, RowsAfter, RowsTyped, Final
<1>4. Telling
  BY <1>1, <1>2, ToldStays DEF Telling
<1>5. CASE RunRefund(p)
  <2>1. hook' = hook /\ AttemptInv(p)'
    BY <1>5, FindKeeps DEF RunRefund, rows
  <2>2. WebhookInv'
    BY <1>0, <1>1, <2>1 DEF WebhookInv, Final
  <2> QED BY <1>1, <1>2, <1>3, <1>4, <2>1, <2>2 DEF WebhookKeeps
<1>6. CASE MarkEventProcessed(p)
  <2>1. /\ runner[p].at = "mark" /\ runner'[p] = IdleRunner /\ hook'[runner[p].event].status = "processed" /\ overtook' = overtook
        /\ \A e \in Hook \ {runner[p].event} : hook'[e] = hook[e]
    BY <1>1, <1>6 DEF MarkEventProcessed
  <2>2. AttemptInv(p)'
    BY <1>0, <2>1, IdleHas DEF AttemptInv
  <2>3. hook[runner[p].event].status # "none" /\ (runner[p].event \in Refund => Final(runner[p].event) \/ runner[p].event \in overtook)
    BY <1>0, <1>1, <2>1 DEF AttemptInv
  <2>4. WebhookInv'
    BY <1>0, <1>1, <2>1, <2>3 DEF WebhookInv, Final
  <2>5. \A e \in Hook : hook[e].status # "none" => hook'[e].status # "none"
    BY <2>1
  <2> QED BY <1>1, <1>2, <1>3, <1>4, <2>2, <2>4, <2>5 DEF WebhookKeeps
<1> QED BY <1>5, <1>6

LEMMA SaveKeeps ==
  ASSUME PaymentInv, NEW p \in Runner, SaveRefund(p) \/ PublishRefundFailed(p)
  PROVE  WebhookKeeps(p) /\ Telling
<1> USE DEF PaymentInv
<1>0. /\ AttemptInv(p) /\ (\A q \in Refund : RefundInv(q)) /\ RowsTyped /\ WebhookInv
      /\ "charge" \notin Refund /\ "sweep" \notin Refund /\ "sweep" \notin Hook /\ "none" \notin Hook
      /\ Refund \subseteq Hook /\ "charge" \in Hook
  BY PaymentAssumption DEF Hook
<1> DEFINE e == runner[p].event  x == runner[p].row
<1>1. /\ UNCHANGED <<scope, charged, pay, asking, pspRefund, crowded, unsent, notified, hook, overtook, mistaken>>
      /\ e \in Refund /\ x \in Refund /\ Found(p) /\ (x = e \/ e \in overtook)
  BY <1>0 DEF SaveRefund, PublishRefundFailed, rows, AttemptInv, Found
<1>9. ASSUME runner'[p].event = e, runner'[p].row = x, runner'[p].at \in {"publish", "mark"}, Final(x)',
             runner'[p].at = "publish" => refund'[x].status = "FAILED" \/ x \in mistaken
      PROVE  AttemptInv(p)'
  <2>1. hook'[e].status # "none" /\ e \in Hook
    BY <1>0, <1>1 DEF AttemptInv
  <2>2. Found(p)'
    BY <1>1, <1>9 DEF Found
  <2>3. Final(e)' \/ e \in overtook'
    BY <1>1, <1>9
  <2> QED BY <1>0, <1>1, <1>9, <2>1, <2>2, <2>3 DEF AttemptInv, Final
<1>2. CASE SaveRefund(p)
  <2>1. /\ RowsAfter /\ (\A q \in Refund : RefundInv(q)') /\ topic' = topic /\ runner[p].at = "save"
        /\ refund'[x].status = IF pspRefund[e].status = "failed" THEN "FAILED" ELSE "PROCESSED"
        /\ \A q \in Refund \ {x} : refund'[q] = refund[q]
    BY <1>2, SaveRefundDoes DEF SaveRefund
  <2>2. /\ runner'[p].at = (IF pspRefund[e].status = "failed" THEN "publish" ELSE "mark") /\ runner'[p].event = e /\ runner'[p].row = x
        /\ \A q \in Runner \ {p} : runner'[q] = runner[q]
    BY <1>2, GotoDoes DEF SaveRefund
  <2>3. \A q \in Refund : /\ refund[q].status # "none" => refund'[q].status # "none"
                          /\ Final(q) => Final(q)' /\ (refund'[q].status = refund[q].status \/ q \in mistaken)
    BY <2>1 DEF RowsAfter, Final
  <2>4. AttemptInv(p)'
    <3>1. Final(x)'
      BY <2>1, <2>2 DEF Final
    <3> QED BY <1>9, <2>1, <2>2, <3>1
  <2>5. Steady
    BY <1>1, <2>3 DEF Steady
  <2>6. WebhookInv'
    BY <1>0, <1>1, <2>3 DEF WebhookInv
  <2>7. Telling
    <3>1. \A q \in Refund : Told(q) => Told(q)'
      BY <1>1, <2>1, <2>2, ToldStays
    <3>2. \A q \in Refund : q = x /\ refund'[q].status = "FAILED" => Told(q)'
      BY <2>1, <2>2 DEF Told
    <3> QED BY <2>1, <3>1, <3>2 DEF Telling
  <2> QED BY <1>1, <2>1, <2>2, <2>4, <2>5, <2>6, <2>7 DEF WebhookKeeps
<1>3. CASE PublishRefundFailed(p)
  <2>1. /\ refund' = refund /\ topic' = topic \union {<<"refundFailed", x>>} /\ runner[p].at = "publish"
        /\ Final(x) /\ (refund[x].status = "FAILED" \/ x \in mistaken)
    BY <1>0, <1>3 DEF PublishRefundFailed, rows, AttemptInv
  <2>2. /\ runner'[p].at = "mark" /\ runner'[p].event = e /\ runner'[p].row = x
        /\ \A q \in Runner \ {p} : runner'[q] = runner[q]
    BY <1>3, GotoDoes DEF PublishRefundFailed
  <2>3. AttemptInv(p)'
    <3>1. Final(x)'
      BY <2>1, <2>2 DEF Final
    <3> QED BY <1>9, <2>2, <3>1
  <2>4. (\A q \in Refund : RefundInv(q)') /\ Steady /\ RowsAfter /\ WebhookInv'
    BY <1>0, <1>1, <2>1 DEF RefundInv, Steady, RowsAfter, RowsTyped, WebhookInv, Final
  <2>5. Telling
    <3>1. \A q \in Refund : Told(q) => Told(q)'
      BY <1>1, <2>1, <2>2, ToldStays
    <3> QED BY <2>1, <3>1 DEF Telling
  <2> QED BY <1>1, <2>1, <2>2, <2>3, <2>4, <2>5 DEF WebhookKeeps
<1> QED BY <1>2, <1>3

LEMMA WebhookMoveKeeps ==
  ASSUME PaymentInv, NEW p \in Runner, WebhookMove(p)
  PROVE  WebhookKeeps(p) /\ Telling
BY ReceiptKeeps, ChargeRunKeeps, RefundRunKeeps, SaveKeeps DEF WebhookMove, RunnerStep

LEMMA RefundMoveTells ==
  ASSUME PaymentInv, NEW r \in Refund, RefundMove(r)
  PROVE  Telling
<1>1. /\ topic' \subseteq topic \union {<<"refund", r>>} /\ topic \subseteq topic' /\ UNCHANGED <<runner, unsent>>
      /\ \A q \in Refund : refund[q].status # "none" => refund'[q] = refund[q]
  BY RefundMoveKeeps
<1>2. refund'[r].status = "FAILED" => refund[r].status = "FAILED"
  BY DEF RefundMove, BeginRefund, CallRefund, CommitRefund, PspRefundEnds, rows, PaymentInv, RowsTyped
<1>3. \A q \in Refund : refund'[q].status = "FAILED" => refund[q].status = "FAILED"
  <2>1. \A q \in Refund \ {r} : refund'[q] = refund[q]
    BY DEF RefundMove, BeginRefund, CallRefund, CommitRefund, PspRefundEnds, rows, PaymentInv, RowsTyped
  <2> QED BY <1>2, <2>1
<1>4. \A q \in Refund : Told(q) => Told(q)'
  BY <1>1 DEF Told
<1>5. \A m : m \in topic' => m \in topic \/ m = <<"refund", r>>
  BY <1>1
<1>6. \A o : <<"refundFailed", o>> # <<"refund", r>> /\ <<"delivered", o>> # <<"refund", r>> /\ <<"cancelled", o>> # <<"refund", r>>
  OBVIOUS
<1> QED BY <1>1, <1>3, <1>4, <1>5, <1>6 DEF Telling

LEMMA OtherMoveKeeps ==
  ASSUME PaymentInv, Charge \/ PaymentCrash
  PROVE  /\ Steady /\ WebhookInv' /\ Telling
         /\ \A q \in Refund : RefundInv(q)'
         /\ \A p \in Runner : AttemptInv(p)'
         /\ UNCHANGED <<scope, pay, refund, topic, crowded, mistaken>>
         /\ \A q \in Refund : asking'[q] \in {asking[q], NotAsking}
<1> USE DEF PaymentInv
<1>0. /\ (\A q \in Refund : RefundInv(q)) /\ (\A p \in Runner : AttemptInv(p)) /\ RowsTyped /\ WebhookInv /\ "charge" \notin Refund
      /\ refund \in [Refund -> RefundRow] /\ asking \in [Refund -> RefundCall] /\ runner \in [Runner -> Attempt]
  BY PaymentAssumption DEF RowsTyped
<1>1. /\ UNCHANGED <<scope, pay, refund, topic, crowded, hook, pspRefund, overtook, mistaken>> /\ (charged => charged' = TRUE) /\ unsent \subseteq unsent'
      /\ notified \subseteq notified' /\ notified' \subseteq notified \union {"charge"} /\ ("charge" \in notified' \ notified => charged' = TRUE)
  BY DEF Charge, PaymentCrash, rows
<1>2. \A q \in Refund : asking'[q] \in {asking[q], NotAsking}
  BY <1>0 DEF Charge, PaymentCrash
<1>3. \A q \in Refund : RefundInv(q)'
  BY <1>0, <1>1, <1>2 DEF RefundInv, NotAsking
<1>4. Steady /\ WebhookInv'
  BY <1>0, <1>1 DEF Steady, WebhookInv, Final
<1>5. /\ \A p \in Runner : runner'[p] \in {runner[p], IdleRunner}
      /\ \A p \in Runner : runner'[p] # runner[p] /\ runner[p].at = "publish" => runner[p].row \in unsent'
  <2>1. CASE Charge
    BY <2>1 DEF Charge
  <2>2. CASE PaymentCrash
    BY <1>0, <2>2 DEF PaymentCrash
  <2> QED BY <2>1, <2>2
<1>6. \A p \in Runner : AttemptInv(p)'
  <2> TAKE p \in Runner
  <2>1. CASE runner'[p] = runner[p]
    BY <1>1, <1>4, <2>1, AttemptStays
  <2>2. CASE runner'[p] = IdleRunner
    BY <2>2, PaymentAssumption, IdleHas DEF AttemptInv, Hook
  <2> QED BY <1>5, <2>1, <2>2
<1>7. \A q \in Refund : Told(q) => Told(q)'
  BY <1>1, <1>5 DEF Told
<1>8. Telling
  BY <1>1, <1>7 DEF Telling
<1> QED BY <1>1, <1>2, <1>3, <1>4, <1>6, <1>8

\* a step that changes one row changes what is outstanding by that row
LEMMA OneRow ==
  ASSUME RowsTyped, RowsTyped', NEW x \in Refund, \A q \in Refund \ {x} : refund'[q] = refund[q], NEW o \in Order
  PROVE  /\ Outstanding(o)' = Outstanding(o) - Counted(o)[x] + Counted(o)'[x]
         /\ Outstanding(o) \in Nat /\ Outstanding(o)' \in Nat /\ Counted(o)[x] \in Nat /\ Counted(o)'[x] \in Nat
<1>1. /\ Outstanding(o) = SumFunctionOnSet(Counted(o), Refund) /\ Outstanding(o) \in Nat
      /\ \A q \in Refund : Counted(o)[q] \in Nat
  BY SumsNow DEF SumFacts, RowsTyped
<1>2. /\ Outstanding(o)' = SumFunctionOnSet(Counted(o)', Refund) /\ Outstanding(o)' \in Nat
      /\ \A q \in Refund : Counted(o)'[q] \in Nat
  BY SumsNext DEF SumFacts, RowsTyped
<1>3. \A q \in Refund \ {x} : Counted(o)[q] = Counted(o)'[q]
  BY DEF Counted
<1>4. IsFiniteSet(Refund)
  BY PaymentAssumption
<1>5. SumFunctionOnSet(Counted(o)', Refund) = SumFunctionOnSet(Counted(o), Refund) - Counted(o)[x] + Counted(o)'[x]
  <2>1. ASSUME NEW f, NEW g, \A q \in Refund : f[q] \in Nat /\ g[q] \in Nat, \A q \in Refund \ {x} : f[q] = g[q]
        PROVE  SumFunctionOnSet(g, Refund) = SumFunctionOnSet(f, Refund) - f[x] + g[x]
    <3>1. \A q \in Refund : f[q] \in Int /\ g[q] \in Int
      BY <2>1
    <3> QED BY <1>4, <2>1, <3>1, SumChange
  <2> QED BY <1>1, <1>2, <1>3, <2>1
<1> QED BY <1>1, <1>2, <1>5

LEMMA SameRefunds ==
  ASSUME refund' = refund PROVE \A o \in Order : Outstanding(o)' = Outstanding(o)
BY DEF Outstanding

\* an order once given another's result has been
MisledStays == \A o \in Order : Misattributed(o) => Misattributed(o)'

\* a webhook only takes amounts away, but from a row that was given another's result
LEMMA WebhookLowers ==
  ASSUME PaymentInv, NEW p \in Runner, WebhookMove(p)
  PROVE  /\ MisledStays
         /\ \A o \in Order : Misattributed(o)' \/ (Outstanding(o)' \in Nat /\ Outstanding(o)' <= Outstanding(o))
<1> DEFINE e == runner[p].row
<1>1. /\ RowsAfter /\ (\A q \in Refund \ {e} : refund'[q] = refund[q]) /\ mistaken \subseteq mistaken'
      /\ \A q \in Refund : refund'[q].order = refund[q].order
  <2>1. RowsAfter /\ Steady /\ \A q \in Refund \ {e} : refund'[q] = refund[q]
    BY WebhookMoveKeeps DEF WebhookKeeps
  <2>2. mistaken \subseteq Refund
    BY DEF PaymentInv, RowsTyped
  <2> QED BY <2>1, <2>2 DEF RowsAfter, Steady
<1>2. RowsTyped /\ RowsTyped' /\ refund \in [Refund -> RefundRow] /\ refund' \in [Refund -> RefundRow] /\ mistaken \subseteq Refund
  BY WebhookMoveTyped DEF PaymentInv, RowsTyped
<1> HIDE DEF e
<1>6. MisledStays
  BY <1>1, <1>2 DEF MisledStays, Misattributed
<1>7. ASSUME NEW o \in Order PROVE Misattributed(o)' \/ (Outstanding(o)' \in Nat /\ Outstanding(o)' <= Outstanding(o))
  <2>3. Outstanding(o) \in Nat
    BY <1>2, SumsNow DEF SumFacts
  <2>4. CASE e \in Refund /\ ~(e \in mistaken /\ refund[e].order = o)
    <3>1. refund'[e].order = refund[e].order /\ refund'[e].amount = refund[e].amount
          /\ (refund[e].status = "FAILED" => refund'[e] = refund[e] \/ e \in mistaken)
      BY <1>1, <2>4 DEF RowsAfter
    <3>2. Counted(o)'[e] = Counted(o)[e] \/ Counted(o)'[e] = 0
      BY <2>4, <3>1 DEF Counted
    <3>3. /\ Outstanding(o)' = Outstanding(o) - Counted(o)[e] + Counted(o)'[e]
          /\ Outstanding(o)' \in Nat /\ Counted(o)[e] \in Nat /\ Counted(o)'[e] \in Nat
      BY <1>1, <1>2, <2>4, OneRow
    <3> QED BY <2>3, <3>2, <3>3
  <2>5. CASE e \notin Refund
    <3>1. refund' = refund
      BY <1>1, <1>2, <2>5
    <3> QED BY <2>3, <3>1, SameRefunds
  <2>6. CASE e \in Refund /\ e \in mistaken /\ refund[e].order = o
    <3>1. Misattributed(o)
      BY <2>6 DEF Misattributed
    <3> QED BY <1>6, <3>1 DEF MisledStays
  <2> QED BY <2>4, <2>5, <2>6
<1> QED BY <1>6, <1>7

LEMMA WithinTotalStays ==
  ASSUME PaymentInv, crowded => crowded' = TRUE, MisledStays,
         \A o \in Order : Misattributed(o)' \/ (Outstanding(o)' \in Nat /\ Outstanding(o)' <= Outstanding(o)),
         \A q \in Refund : asking'[q].order \in Order => asking'[q].order = asking[q].order /\ asking'[q].amount = asking[q].amount
  PROVE  WithinTotal'
<1> SUFFICES ASSUME ~crowded' PROVE WithinTotal'
  BY DEF WithinTotal
<1>1. /\ ~crowded /\ WithinTotal /\ Total \in Nat /\ asking \in [Refund -> RefundCall]
      /\ \A o \in Order : Outstanding(o) \in Nat
  BY PaymentAssumption, SumsNow DEF PaymentInv, SumFacts, RowsTyped
<1>2. \A r, q \in Refund : asking'[r].order \in Order /\ asking'[q].order = asking'[r].order => r = q
  BY <1>1 DEF WithinTotal
<1>3. ASSUME NEW o \in Order, ~Misattributed(o)'
      PROVE  /\ Outstanding(o)' <= Total
             /\ \A r \in Refund : asking'[r].order = o => Outstanding(o)' + asking'[r].amount <= Total
  <2>0. ~Misattributed(o)
    BY <1>3 DEF MisledStays
  <2>1. Outstanding(o) <= Total /\ Outstanding(o) \in Nat /\ Outstanding(o)' \in Nat /\ Outstanding(o)' <= Outstanding(o)
    BY <1>1, <1>3, <2>0 DEF WithinTotal
  <2>2. ASSUME NEW r \in Refund, asking'[r].order = o PROVE Outstanding(o)' + asking'[r].amount <= Total
    <3>1. asking[r].order = o /\ asking'[r].amount = asking[r].amount /\ asking[r].amount \in Nat
      BY <1>1, <1>3, <2>2 DEF RefundCall
    <3>2. Outstanding(o) + asking[r].amount <= Total
      BY <1>1, <1>3, <2>0, <3>1 DEF WithinTotal
    <3> QED BY <1>1, <2>1, <3>1, <3>2
  <2> QED BY <1>1, <2>1, <2>2
<1> QED BY <1>2, <1>3 DEF WithinTotal

LEMMA RefundMoveWithin ==
  ASSUME PaymentInv, NEW r \in Refund, RefundMove(r)
  PROVE  WithinTotal'
<1>0. /\ RowsTyped /\ RowsTyped' /\ WithinTotal /\ RefundInv(r) /\ Total \in Nat /\ "none" \notin Order
      /\ asking \in [Refund -> RefundCall] /\ refund \in [Refund -> RefundRow]
  BY RefundMoveTyped, PaymentAssumption DEF PaymentInv, RowsTyped
<1>1. \A o \in Order : Outstanding(o) \in Nat
  BY <1>0, SumsNow DEF SumFacts
<1>5. MisledStays
  <2>1. mistaken' = mistaken /\ \A q \in mistaken : refund'[q] = refund[q]
    BY RefundMoveKeeps DEF PaymentInv, RowsTyped, RefundInv
  <2> QED BY <2>1 DEF MisledStays, Misattributed
<1>2. ASSUME NEW o \in scope.orders, NEW n \in RefundSum, BeginRefund(r, o, n) PROVE WithinTotal'
  <2>1. /\ o \in Order /\ RefundAmount(o, n) \in Nat /\ RefundAmount(o, n) <= Total - Outstanding(o)
        /\ asking'[r].order = o /\ asking'[r].amount = RefundAmount(o, n) /\ \A q \in Refund \ {r} : asking'[q] = asking[q]
        /\ refund' = refund
    BY <1>0, <1>2, BeginDoes DEF BeginRefund, rows
  <2> SUFFICES ASSUME ~crowded' PROVE WithinTotal'
    BY DEF WithinTotal
  <2>2. ~crowded /\ \A q \in Refund : asking[q].order # o
    BY <1>2 DEF BeginRefund
  <2>3. \A x, q \in Refund : asking'[x].order \in Order /\ asking'[q].order = asking'[x].order => x = q
    BY <1>0, <2>1, <2>2 DEF WithinTotal
  <2>4. ASSUME NEW y \in Order, ~Misattributed(y)' PROVE Outstanding(y)' <= Total /\ \A q \in Refund : asking'[q].order = y => Outstanding(y)' + asking'[q].amount <= Total
    <3>0. ~Misattributed(y)
      BY <1>5, <2>4 DEF MisledStays
    <3>1. Outstanding(y)' = Outstanding(y) /\ Outstanding(y) <= Total /\ Outstanding(y) \in Nat
      BY <1>0, <1>1, <2>1, <2>2, <2>4, <3>0, SameRefunds DEF WithinTotal
    <3>2. ASSUME NEW q \in Refund, asking'[q].order = y PROVE Outstanding(y)' + asking'[q].amount <= Total
      <4>1. CASE q = r
        BY <1>0, <2>1, <3>1, <3>2, <4>1
      <4>2. CASE q # r
        <5>1. Outstanding(y) + asking[q].amount <= Total
          BY <1>0, <2>1, <2>2, <2>4, <3>0, <3>2, <4>2 DEF WithinTotal
        <5> QED BY <2>1, <3>1, <4>2, <5>1
      <4> QED BY <4>1, <4>2
    <3> QED BY <3>1, <3>2
  <2> QED BY <2>3, <2>4 DEF WithinTotal
<1>3. CASE CallRefund(r) \/ PspRefundEnds(r)
  <2>1. refund' = refund /\ crowded' = crowded
    BY <1>3 DEF CallRefund, PspRefundEnds, rows
  <2>2. \A q \in Refund : asking'[q].order \in Order => asking'[q].order = asking[q].order /\ asking'[q].amount = asking[q].amount
    BY <1>0, <1>3 DEF CallRefund, PspRefundEnds, NotAsking, RefundCall
  <2>3. \A o \in Order : Outstanding(o)' \in Nat /\ Outstanding(o)' <= Outstanding(o)
    BY <1>1, <2>1, SameRefunds
  <2> QED BY <1>5, <2>1, <2>2, <2>3, WithinTotalStays
<1>4. CASE CommitRefund(r)
  <2>1. /\ asking[r].at \in {"processed", "pending"} /\ crowded' = crowded
        /\ refund'[r].order = asking[r].order /\ refund'[r].amount = asking[r].amount
        /\ asking'[r] = NotAsking
        /\ \A q \in Refund \ {r} : asking'[q] = asking[q] /\ refund'[q] = refund[q]
    BY <1>0, <1>4 DEF CommitRefund
  <2>2. refund[r] = NoRefund /\ asking[r].order \in Order /\ asking[r].amount \in Nat
    BY <1>0, <2>1 DEF RefundInv, RefundCall
  <2> SUFFICES ASSUME ~crowded' PROVE WithinTotal'
    BY DEF WithinTotal
  <2>3. ~crowded /\ asking'[r].order = "none"
    BY <2>1 DEF NotAsking
  <2>4. \A x, q \in Refund : asking'[x].order \in Order /\ asking'[q].order = asking'[x].order => x = q
    BY <1>0, <2>1, <2>3 DEF WithinTotal
  <2>5. ASSUME NEW y \in Order, ~Misattributed(y)' PROVE Outstanding(y)' <= Total /\ \A q \in Refund : asking'[q].order = y => Outstanding(y)' + asking'[q].amount <= Total
    <3>0. ~Misattributed(y)
      BY <1>5, <2>5 DEF MisledStays
    <3>1. /\ Outstanding(y)' = Outstanding(y) - Counted(y)[r] + Counted(y)'[r]
          /\ Outstanding(y) \in Nat /\ Outstanding(y)' \in Nat /\ Counted(y)[r] \in Nat /\ Counted(y)'[r] \in Nat
      BY <1>0, <2>1, OneRow
    <3>2. Counted(y)[r] = 0
      BY <1>0, <2>2 DEF Counted, NoRefund
    <3>3. CASE asking[r].order = y
      <4>1. Counted(y)'[r] <= asking[r].amount
        <5>1. Counted(y)'[r] \in {0, refund'[r].amount}
          BY DEF Counted
        <5> QED BY <2>1, <2>2, <5>1
      <4>2. Outstanding(y) + asking[r].amount <= Total
        BY <1>0, <2>3, <2>5, <3>0, <3>3 DEF WithinTotal
      <4>3. \A q \in Refund : asking'[q].order # y
        BY <1>0, <2>1, <2>3, <2>5, <3>3 DEF WithinTotal
      <4> QED BY <1>0, <2>2, <3>1, <3>2, <4>1, <4>2, <4>3
    <3>4. CASE asking[r].order # y
      <4>1. Counted(y)'[r] = 0
        BY <2>1, <3>4 DEF Counted
      <4>2. Outstanding(y)' = Outstanding(y) /\ Outstanding(y) <= Total
        BY <1>0, <2>3, <2>5, <3>0, <3>1, <3>2, <4>1 DEF WithinTotal
      <4>3. ASSUME NEW q \in Refund, asking'[q].order = y PROVE Outstanding(y)' + asking'[q].amount <= Total
        <5>1. q # r
          BY <1>0, <2>3, <2>5, <4>3
        <5>2. asking'[q] = asking[q]
          BY <2>1, <5>1
        <5> QED BY <1>0, <2>3, <2>5, <3>0, <4>2, <4>3, <5>2 DEF WithinTotal
      <4> QED BY <4>2, <4>3
    <3> QED BY <3>3, <3>4
  <2> QED BY <2>4, <2>5 DEF WithinTotal
<1> QED BY <1>2, <1>3, <1>4 DEF RefundMove

\* what a step of the payment service does
PaymentEffect ==
  /\ PaymentInv' /\ scope' = scope /\ Telling
  /\ pay = "SUCCESS" => pay' = "SUCCESS"
  /\ \A q \in Refund : /\ refund[q].status # "none" => refund'[q].order = refund[q].order /\ refund'[q].amount = refund[q].amount
                       /\ refund[q].status # "none" => refund'[q].status # "none"
                       /\ refund[q].status = "FAILED" => refund'[q].status = "FAILED" \/ q \in mistaken'
                       /\ q \in mistaken => q \in mistaken'

LEMMA PaymentMoves ==
  ASSUME PaymentInv, PaymentNext PROVE PaymentEffect
<1>0. RowsTyped /\ "none" \notin Order /\ scope \in Scope /\ \A o \in Order : Outstanding(o) \in Nat
  BY PaymentAssumption, SumsNow DEF PaymentInv, SumFacts, RowsTyped
<1>1. ASSUME NEW r \in Refund, RefundMove(r) PROVE PaymentEffect
  <2>1. PaymentInv'
    BY <1>1, RefundMoveKeeps, RefundMoveTyped, RefundMoveWithin DEF PaymentInv
  <2>2. Telling /\ scope' = scope /\ pay' = pay /\ mistaken' = mistaken /\ \A q \in Refund : refund[q].status # "none" => refund'[q] = refund[q]
    BY <1>1, RefundMoveKeeps, RefundMoveTells
  <2> QED BY <2>1, <2>2 DEF PaymentEffect
<1>2. ASSUME NEW p \in Runner, WebhookMove(p) PROVE PaymentEffect
  <2>1. WebhookKeeps(p) /\ Telling /\ RowsTyped'
    BY <1>2, WebhookMoveKeeps, WebhookMoveTyped
  <2>2. \A q \in Runner : AttemptInv(q)'
    BY <1>2, <2>1, AttemptStays DEF WebhookKeeps
  <2>3. WithinTotal'
    BY <1>2, <2>1, WebhookLowers, WithinTotalStays DEF WebhookKeeps
  <2>4. PaymentInv'
    BY <2>1, <2>2, <2>3 DEF PaymentInv, WebhookKeeps
  <2>5. \A q \in Refund : /\ refund'[q].order = refund[q].order /\ refund'[q].amount = refund[q].amount
                          /\ refund[q].status # "none" => refund'[q].status # "none"
                          /\ refund[q].status = "FAILED" => refund'[q].status = "FAILED" \/ q \in mistaken'
                          /\ q \in mistaken => q \in mistaken'
    BY <2>1 DEF WebhookKeeps, RowsAfter, Steady
  <2> QED BY <2>1, <2>4, <2>5 DEF PaymentEffect, WebhookKeeps
<1>3. ASSUME Charge \/ PaymentCrash PROVE PaymentEffect
  <2>1. /\ UNCHANGED <<scope, pay, refund, topic, crowded, mistaken>> /\ Telling /\ RowsTyped'
        /\ \A q \in Refund : asking'[q] \in {asking[q], NotAsking}
    BY <1>3, OtherMoveKeeps, OtherMoveTyped
  <2>2. \A q \in Refund : asking'[q].order \in Order => asking'[q].order = asking[q].order /\ asking'[q].amount = asking[q].amount
    BY <1>0, <2>1 DEF NotAsking
  <2>3. \A o \in Order : Outstanding(o)' \in Nat /\ Outstanding(o)' <= Outstanding(o)
    BY <1>0, <2>1, SameRefunds
  <2>6. MisledStays
    BY <2>1 DEF MisledStays, Misattributed
  <2>4. WithinTotal'
    BY <2>1, <2>2, <2>3, <2>6, WithinTotalStays
  <2>5. PaymentInv'
    BY <1>3, <2>1, <2>4, OtherMoveKeeps DEF PaymentInv
  <2> QED BY <2>1, <2>5 DEF PaymentEffect
<1>4. scope.refunds \subseteq Refund /\ scope.runners \subseteq Runner
  BY <1>0 DEF Scope
<1>5. (\E r \in Refund : RefundMove(r)) \/ (\E p \in Runner : WebhookMove(p)) \/ Charge \/ PaymentCrash
  BY <1>4 DEF PaymentNext, RefundMove, WebhookMove
<1> QED BY <1>1, <1>2, <1>3, <1>5

-----------------------------------------------------------------------------
(* The ledger *)

LedgerTyped ==
  /\ fate \in [Order -> {"open", "delivered", "cancelled"}]
  /\ captured \in [Order -> 0..1] /\ released \in [Order -> 0..1] /\ escrowed \in [Order -> 0..1]
  /\ posted \in [Refund -> Nat]
  /\ reversed \subseteq Refund /\ reviewed \subseteq Refund /\ raced \subseteq Refund
  /\ posting \in [Refund -> [at : {"idle", "matched", "read"}, held : Int, final : BOOLEAN]]
  /\ taxHold \subseteq Order /\ caseOpen \subseteq Order /\ early \subseteq Order
  /\ resolved \in Seq(Order) /\ Len(resolved) <= scope.cases
  /\ dead \subseteq {"refundFailed", "delivered"} \X (Refund \union Order)
  /\ shared \in BOOLEAN

\* an event says what happened, or what happened to another
TopicInv ==
  /\ \A r \in Refund : <<"refundFailed", r>> \in topic => refund[r].status = "FAILED" \/ r \in mistaken
  /\ \A o \in Order : \A end \in {"delivered", "cancelled"} : <<end, o>> \in topic => fate[o] = end
\* an order is booked once and in its order
OrderInv ==
  /\ \A o \in Order : /\ captured[o] > 0 => pay = "SUCCESS"
                      /\ released[o] > 0 => captured[o] > 0 /\ fate[o] = "delivered"
                      /\ escrowed[o] > 0 => fate[o] = "cancelled"
                      /\ o \in caseOpen => fate[o] = "delivered"
  /\ \A i \in DOMAIN resolved : fate[resolved[i]] = "delivered"
\* a refund is booked once, for a row and for no more than it has, and before
\* the order's release; one that failed is on its way to be reversed
BookedInv(r) ==
  /\ posting[r].at = "idle" => posting[r] = NotPosting
  /\ posting[r].at # "idle" => refund[r].status # "none" /\ posted[r] = 0
  /\ posted[r] > 0 => refund[r].status # "none" /\ posted[r] <= refund[r].amount
  /\ posted[r] > 0 => refund[r].order \in early \/ shared
  /\ r \in reversed => posted[r] > 0 /\ (refund[r].status = "FAILED" \/ r \in mistaken)
  /\ refund[r].status = "FAILED" => Told(r) \/ posted[r] = 0 \/ r \in reversed \/ r \in raced \/ ReversalClash(r)
\* what is held for an order that has not ended is not overdrawn
HeldInv == \A o \in Order : ~shared /\ released[o] = 0 /\ escrowed[o] = 0 => Held(o) >= 0

LedgerInv == LedgerTyped /\ TopicInv /\ OrderInv /\ (\A r \in Refund : BookedInv(r)) /\ HeldInv
MoneyInv == PaymentInv /\ LedgerInv

LEMMA PaymentRests ==
  ASSUME PaymentInv, UNCHANGED paymentState, paymentFaults' \in 0..scope.faults
  PROVE  PaymentInv'
<1>1. UNCHANGED <<scope, charged, pay, refund, hook, pspRefund, asking, notified, runner, crowded, overtook, mistaken, unsent>>
  BY DEF paymentState, rows
<1>2. RowsTyped' /\ WebhookInv' /\ (\A r \in Refund : RefundInv(r)') /\ (\A p \in Runner : AttemptInv(p)')
  BY <1>1 DEF PaymentInv, RowsTyped, WebhookInv, RefundInv, AttemptInv, Found, Final
<1>3. WithinTotal'
  BY <1>1, SameRefunds DEF PaymentInv, WithinTotal, Misattributed
<1> QED BY <1>2, <1>3 DEF PaymentInv

\* the amounts posted for an order do not change with rows that are not booked
LEMMA SamePosted ==
  ASSUME UNCHANGED <<posted, reversed>>, \A r \in Refund : posted[r] = 0 \/ refund'[r].order = refund[r].order
  PROVE  \A o \in Order : Posted(o)' = Posted(o)
BY DEF Posted

LEMMA HeldBySum ==
  ASSUME LedgerTyped, NEW o \in Order
  PROVE  /\ Held(o) = Total * (captured[o] - released[o] - escrowed[o]) - SumFunctionOnSet(Posted(o), Refund)
         /\ SumFunctionOnSet(Posted(o), Refund) \in Nat /\ \A r \in Refund : Posted(o)[r] \in Nat
BY SumsNow DEF SumFacts, LedgerTyped

HeldBySumFact ==
  LedgerTyped => \A o \in Order :
     /\ Held(o) = Total * (captured[o] - released[o] - escrowed[o]) - SumFunctionOnSet(Posted(o), Refund)
     /\ SumFunctionOnSet(Posted(o), Refund) \in Nat /\ \A r \in Refund : Posted(o)[r] \in Nat
LEMMA HeldBySumNow == HeldBySumFact
BY HeldBySum DEF HeldBySumFact

LEMMA HeldBySumNext == HeldBySumFact'
BY HeldBySumNow, PTL

LEMMA PaymentKeepsLedger ==
  ASSUME MoneyInv, PaymentNext, UNCHANGED ledgerVars
  PROVE  MoneyInv'
<1>1. PaymentEffect
  BY PaymentMoves DEF MoneyInv
<1>2. UNCHANGED <<fate, captured, released, escrowed, posted, reversed, reviewed, taxHold, caseOpen, resolved, posting, dead, raced, early, shared>>
  BY DEF ledgerVars, journalVars, reviewVars, postingHistory
<1>3. LedgerTyped' /\ OrderInv'
  BY <1>1, <1>2 DEF MoneyInv, LedgerInv, LedgerTyped, OrderInv, PaymentEffect
<1>4. TopicInv'
  BY <1>1, <1>2 DEF MoneyInv, LedgerInv, TopicInv, PaymentEffect, Telling
<1>5. ASSUME NEW r \in Refund PROVE BookedInv(r)'
  <2>1. BookedInv(r) /\ (\A q \in Refund : BookedInv(q)) /\ posted \in [Refund -> Nat] /\ reversed \subseteq Refund
    BY DEF MoneyInv, LedgerInv, LedgerTyped
  <2>2. /\ refund[r].status # "none" => refund'[r].order = refund[r].order /\ refund'[r].amount = refund[r].amount /\ refund'[r].status # "none"
        /\ refund[r].status = "FAILED" => refund'[r].status = "FAILED" \/ r \in mistaken'
        /\ r \in mistaken => r \in mistaken'
        /\ refund'[r].status = "FAILED" => refund[r].status = "FAILED" \/ Told(r)'
        /\ Told(r) => Told(r)'
    BY <1>1 DEF PaymentEffect, Telling
  <2>3. refund[r].status # "none" /\ ReversalClash(r) => ReversalClash(r)'
    BY <1>1, <1>2, <2>1 DEF ReversalClash, PaymentEffect, BookedInv
  <2>4. /\ posting[r].at = "idle" => posting[r] = NotPosting
        /\ (posting[r].at # "idle" => refund'[r].status # "none" /\ posted[r] = 0)
        /\ (posted[r] > 0 => refund'[r].status # "none" /\ posted[r] <= refund'[r].amount)
        /\ (posted[r] > 0 => refund'[r].order \in early \/ shared)
        /\ (r \in reversed => posted[r] > 0 /\ (refund'[r].status = "FAILED" \/ r \in mistaken'))
    BY <2>1, <2>2 DEF BookedInv
  <2>5. refund'[r].status = "FAILED" => Told(r)' \/ posted[r] = 0 \/ r \in reversed \/ r \in raced \/ ReversalClash(r)'
    BY <2>1, <2>2, <2>3 DEF BookedInv
  <2> QED BY <1>2, <2>4, <2>5 DEF BookedInv
<1>6. HeldInv'
  <2>1. \A r \in Refund : posted[r] = 0 \/ refund'[r].order = refund[r].order
    BY <1>1 DEF MoneyInv, LedgerInv, LedgerTyped, BookedInv, PaymentEffect
  <2>2. \A o \in Order : Posted(o)' = Posted(o)
    BY <1>2, <2>1, SamePosted
  <2>3. \A o \in Order : Held(o)' = Held(o)
    <3>1. LedgerTyped
      BY DEF MoneyInv, LedgerInv
    <3> QED BY <1>2, <1>3, <2>2, <3>1, HeldBySumNow, HeldBySumNext DEF HeldBySumFact
  <2> QED BY <1>2, <2>3 DEF MoneyInv, LedgerInv, HeldInv
<1> QED BY <1>1, <1>3, <1>4, <1>5, <1>6 DEF MoneyInv, LedgerInv, PaymentEffect

\* an order ends, and is captured, released, reviewed or escrowed
OrderMove(o) ==
  \/ \E end \in {"delivered", "cancelled"} : OrderEnds(o, end)
  \/ OnDelivered(o) \/ DecideTax(o) \/ ResolveReview(o) \/ ReplayReview(o) \/ OnAborted(o)
OrderTurns == (\E m \in topic : OnChargeSucceeded(m)) \/ \E o \in Order : o \in scope.orders /\ OrderMove(o)

LEMMA AckDoes ==
  ASSUME NEW m, Ack(m) \/ Nak(m), RowsTyped
  PROVE  /\ topic' \in {topic, topic \ {m}} /\ paymentFaults' \in 0..scope.faults
         /\ Nak(m) => dead' \subseteq dead \union {m}
         /\ Ack(m) => dead' = dead
<1>1. scope.faults \in Nat
  BY PaymentAssumption DEF RowsTyped, Scope
<1> QED BY <1>1 DEF Ack, Nak, PaymentFails, RowsTyped

LEMMA OrderMoveFrame ==
  ASSUME MoneyInv, OrderTurns
  PROVE  /\ UNCHANGED paymentState /\ UNCHANGED <<posted, reversed, posting, raced, early, shared>>
         /\ paymentFaults' \in 0..scope.faults
         /\ \A q : <<"refundFailed", q>> \in topic' <=> <<"refundFailed", q>> \in topic
<1>0. RowsTyped /\ paymentFaults \in 0..scope.faults /\ scope.faults \in Nat
  BY PaymentAssumption DEF MoneyInv, PaymentInv, RowsTyped, Scope
<1>1. ASSUME NEW m \in topic, OnChargeSucceeded(m)
      PROVE  /\ UNCHANGED paymentState /\ UNCHANGED <<posted, reversed, posting, raced, early, shared>>
             /\ paymentFaults' \in 0..scope.faults
             /\ \A q : <<"refundFailed", q>> \in topic' <=> <<"refundFailed", q>> \in topic
  <2>1. topic' \in {topic, topic \ {m}} /\ paymentFaults' \in 0..scope.faults
    BY <1>0, <1>1, AckDoes DEF OnChargeSucceeded, PaymentFails
  <2>2. \A q : <<"refundFailed", q>> # m
    BY <1>1 DEF OnChargeSucceeded
  <2> QED BY <1>1, <2>1, <2>2 DEF OnChargeSucceeded
<1>2. ASSUME NEW o \in Order, OrderMove(o)
      PROVE  /\ UNCHANGED paymentState /\ UNCHANGED <<posted, reversed, posting, raced, early, shared>>
             /\ paymentFaults' \in 0..scope.faults
             /\ \A q : <<"refundFailed", q>> \in topic' <=> <<"refundFailed", q>> \in topic
  <2>1. UNCHANGED paymentState /\ UNCHANGED <<posted, reversed, posting, raced, early, shared>>
    BY <1>2 DEF OrderMove, OrderEnds, OnDelivered, DecideTax, ResolveReview, ReplayReview, OnAborted, paymentVars, paymentState,
                journalVars, postingHistory, rows
  <2>2. \E m : m[1] # "refundFailed" /\ topic' \in {topic, topic \ {m}, topic \union {m}} /\ paymentFaults' \in 0..scope.faults
    <3>1. ASSUME NEW end \in {"delivered", "cancelled"}, OrderEnds(o, end)
          PROVE  topic' = topic \union {<<end, o>>} /\ paymentFaults' \in 0..scope.faults
      BY <1>0, <3>1 DEF OrderEnds
    <3>2. ASSUME OnDelivered(o) PROVE topic' \in {topic, topic \ {<<"delivered", o>>}} /\ paymentFaults' \in 0..scope.faults
      BY <1>0, <3>2, AckDoes DEF OnDelivered
    <3>3. ASSUME OnAborted(o) PROVE topic' \in {topic, topic \ {<<"cancelled", o>>}} /\ paymentFaults' \in 0..scope.faults
      BY <1>0, <3>3, AckDoes DEF OnAborted, PaymentFails
    <3>4. ASSUME DecideTax(o) \/ ResolveReview(o) \/ ReplayReview(o) PROVE topic' = topic /\ paymentFaults' \in 0..scope.faults
      BY <1>0, <3>4 DEF DecideTax, ResolveReview, ReplayReview, paymentVars
    <3>5. <<"delivered", o>>[1] # "refundFailed" /\ <<"cancelled", o>>[1] # "refundFailed"
      OBVIOUS
    <3> QED BY <1>2, <3>1, <3>2, <3>3, <3>4, <3>5 DEF OrderMove
  <2>3. PICK m : m[1] # "refundFailed" /\ topic' \in {topic, topic \ {m}, topic \union {m}}
    BY <2>2
  <2>4. \A q : <<"refundFailed", q>> # m
    BY <2>3
  <2> QED BY <2>1, <2>2, <2>3, <2>4
<1> QED BY <1>1, <1>2 DEF OrderTurns

\* the refunds' books are not touched
LEMMA OrderMoveBooked ==
  ASSUME MoneyInv, OrderTurns
  PROVE  PaymentInv' /\ \A r \in Refund : BookedInv(r)'
<1>1. PaymentInv'
  BY OrderMoveFrame, PaymentRests DEF MoneyInv
<1>2. UNCHANGED <<refund, runner, mistaken, unsent, posted, reversed, posting, raced, early, shared>>
  BY OrderMoveFrame DEF paymentState, rows
<1>3. \A r \in Refund : Told(r)' <=> Told(r)
  BY <1>2, OrderMoveFrame DEF Told
<1> QED BY <1>1, <1>2, <1>3 DEF MoneyInv, LedgerInv, BookedInv, ReversalClash

\* what an order's books may become
OrderBooks ==
  /\ fate' \in [Order -> {"open", "delivered", "cancelled"}]
  /\ captured' \in [Order -> 0..1] /\ released' \in [Order -> 0..1] /\ escrowed' \in [Order -> 0..1]
  /\ taxHold' \subseteq Order /\ caseOpen' \subseteq Order /\ reviewed' = reviewed
  /\ resolved' \in Seq(Order) /\ Len(resolved') <= scope.cases
  /\ dead' \subseteq {"refundFailed", "delivered"} \X (Refund \union Order)
  /\ \A o \in Order : fate[o] # "open" => fate'[o] = fate[o]
  /\ \A o \in Order : /\ captured[o] > 0 => captured'[o] > 0
                      /\ released[o] > 0 => released'[o] > 0
                      /\ escrowed[o] > 0 => escrowed'[o] > 0
  /\ TopicInv' /\ OrderInv'

LEMMA ChargeBooks ==
  ASSUME MoneyInv, NEW m \in topic, OnChargeSucceeded(m) PROVE OrderBooks
<1>1. LedgerTyped /\ TopicInv /\ OrderInv /\ RowsTyped
  BY DEF MoneyInv, LedgerInv, PaymentInv
<1>2. UNCHANGED <<scope, pay, refund, mistaken, fate, released, escrowed, taxHold, caseOpen, resolved, reviewed>> /\ topic' \subseteq topic /\ dead' = dead
  BY <1>1, AckDoes DEF OnChargeSucceeded, paymentState, rows, reviewVars
<1>3. \/ captured' = captured
      \/ captured' = [o \in Order |-> IF pay = "SUCCESS" THEN Capture(o) ELSE captured[o]]
  BY DEF OnChargeSucceeded
<1>4. \A o \in Order : Capture(o) \in 0..1 /\ (captured[o] > 0 => Capture(o) > 0)
  BY <1>1 DEF LedgerTyped, Capture
<1>5. captured' \in [Order -> 0..1] /\ \A o \in Order : (captured[o] > 0 => captured'[o] > 0) /\ (captured'[o] > 0 => pay = "SUCCESS")
  <2>1. CASE captured' = captured
    BY <1>1, <2>1 DEF LedgerTyped, OrderInv
  <2>2. CASE pay = "SUCCESS" /\ captured' = [o \in Order |-> Capture(o)]
    BY <1>4, <2>2
  <2>3. CASE pay # "SUCCESS" /\ captured' = [o \in Order |-> captured[o]]
    <3>1. captured' = captured
      BY <1>1, <2>3 DEF LedgerTyped
    <3> QED BY <2>1, <3>1
  <2> QED BY <1>3, <2>1, <2>2, <2>3
<1>6. OrderInv'
  BY <1>1, <1>2, <1>5 DEF OrderInv
<1>7. TopicInv'
  BY <1>1, <1>2 DEF TopicInv
<1> QED BY <1>1, <1>2, <1>5, <1>6, <1>7 DEF OrderBooks, LedgerTyped

LEMMA EndBooks ==
  ASSUME MoneyInv, NEW o \in Order, NEW end \in {"delivered", "cancelled"}, OrderEnds(o, end) PROVE OrderBooks
<1>1. LedgerTyped /\ TopicInv /\ OrderInv
  BY DEF MoneyInv, LedgerInv
<1>2. /\ UNCHANGED <<scope, pay, refund, mistaken, captured, released, escrowed, taxHold, caseOpen, resolved, reviewed, dead>>
      /\ fate[o] = "open" /\ fate' = [fate EXCEPT ![o] = end] /\ topic' = topic \union {<<end, o>>}
  BY DEF OrderEnds, paymentState, rows, journalVars, reviewVars
<1>3. fate'[o] = end /\ (\A x \in Order \ {o} : fate'[x] = fate[x]) /\ fate' \in [Order -> {"open", "delivered", "cancelled"}]
  BY <1>1, <1>2 DEF LedgerTyped
<1>4. \A x \in Order : fate[x] # "open" => fate'[x] = fate[x]
  BY <1>2, <1>3
<1>5. TopicInv'
  <2>1. ASSUME NEW r \in Refund, <<"refundFailed", r>> \in topic' PROVE refund'[r].status = "FAILED" \/ r \in mistaken'
    <3>1. <<"refundFailed", r>> # <<end, o>>
      OBVIOUS
    <3> QED BY <1>1, <1>2, <2>1, <3>1 DEF TopicInv
  <2>2. ASSUME NEW x \in Order, NEW e \in {"delivered", "cancelled"}, <<e, x>> \in topic' PROVE fate'[x] = e
    <3>1. CASE <<e, x>> \in topic
      <4>1. fate[x] = e
        BY <1>1, <3>1 DEF TopicInv
      <4> QED BY <1>4, <4>1
    <3>2. CASE <<e, x>> = <<end, o>>
      BY <1>3, <3>2
    <3> QED BY <1>2, <2>2, <3>1, <3>2
  <2> QED BY <2>1, <2>2 DEF TopicInv
<1>6. OrderInv'
  <2>1. \A i \in DOMAIN resolved : resolved[i] \in Order
    BY <1>1 DEF LedgerTyped
  <2> QED BY <1>1, <1>2, <1>4, <2>1 DEF OrderInv
<1> QED BY <1>1, <1>2, <1>3, <1>4, <1>5, <1>6 DEF OrderBooks, LedgerTyped

LEMMA ReleaseBooks ==
  ASSUME MoneyInv, NEW o \in Order, OnDelivered(o) \/ ReplayReview(o) PROVE OrderBooks
<1>1. LedgerTyped /\ TopicInv /\ OrderInv /\ RowsTyped
  BY DEF MoneyInv, LedgerInv, PaymentInv
<1>2. /\ UNCHANGED <<scope, pay, refund, mistaken, fate, captured, escrowed, taxHold, resolved, reviewed>>
      /\ topic' \subseteq topic /\ dead' \subseteq dead \union {<<"delivered", o>>}
      /\ PostDelivered(o)
  BY <1>1, AckDoes DEF OnDelivered, ReplayReview, paymentState, paymentVars, rows
<1>3. fate[o] = "delivered"
  <2>1. CASE OnDelivered(o)
    BY <1>1, <2>1 DEF OnDelivered, TopicInv
  <2>2. CASE ReplayReview(o)
    BY <1>1, <2>2 DEF ReplayReview, OrderInv, Replayed
  <2> QED BY <2>1, <2>2
<1>4. Verdict(o) = "post" => released[o] = 0 /\ captured[o] > 0
  BY <1>1 DEF Verdict, LedgerTyped
<1>5. /\ released' \in [Order -> 0..1] /\ \A x \in Order : released[x] > 0 => released'[x] > 0
      /\ \A x \in Order \ {o} : released'[x] = released[x]
      /\ released'[o] > 0 => captured[o] > 0
      /\ caseOpen' \subseteq caseOpen \union {o}
  <2>1. \/ released' = released
        \/ Verdict(o) = "post" /\ released' = [released EXCEPT ![o] = released[o] + 1]
    BY <1>1, <1>2 DEF PostDelivered, LedgerTyped
  <2>2. CASE released' = released
    <3>1. released \in [Order -> 0..1] /\ (released[o] > 0 => captured[o] > 0)
      BY <1>1 DEF LedgerTyped, OrderInv
    <3> QED BY <1>2, <2>2, <3>1 DEF PostDelivered
  <2>3. CASE Verdict(o) = "post" /\ released' = [released EXCEPT ![o] = released[o] + 1]
    <3>1. released[o] = 0 /\ captured[o] > 0
      BY <1>4, <2>3
    <3>2. released' = [released EXCEPT ![o] = 1]
      BY <2>3, <3>1
    <3>3. released \in [Order -> 0..1] /\ 1 \in 0..1 /\ 1 > 0
      BY <1>1 DEF LedgerTyped
    <3> QED BY <1>2, <3>1, <3>2, <3>3 DEF PostDelivered
  <2> QED BY <2>1, <2>2, <2>3
<1>6. OrderInv'
  BY <1>1, <1>2, <1>3, <1>5 DEF OrderInv
<1>7. TopicInv'
  BY <1>1, <1>2 DEF TopicInv
<1>8. dead' \subseteq {"refundFailed", "delivered"} \X (Refund \union Order) /\ caseOpen' \subseteq Order
  BY <1>1, <1>2, <1>5 DEF LedgerTyped
<1> QED BY <1>1, <1>2, <1>5, <1>6, <1>7, <1>8 DEF OrderBooks, LedgerTyped

LEMMA ReviewBooks ==
  ASSUME MoneyInv, NEW o \in Order, DecideTax(o) \/ ResolveReview(o) PROVE OrderBooks
<1>1. LedgerTyped /\ TopicInv /\ OrderInv /\ RowsTyped
  BY DEF MoneyInv, LedgerInv, PaymentInv
<1>2. /\ UNCHANGED <<scope, pay, refund, mistaken, fate, captured, released, escrowed, reviewed, topic, dead>>
      /\ taxHold' \subseteq taxHold /\ caseOpen' \subseteq caseOpen
      /\ resolved' = resolved \/ (o \in caseOpen /\ Len(resolved) < scope.cases /\ resolved' = Append(resolved, o))
  BY DEF DecideTax, ResolveReview, paymentVars, rows, journalVars
<1>3. scope.cases \in Nat
  BY <1>1, PaymentAssumption DEF RowsTyped, Scope
<1>4. /\ resolved' \in Seq(Order) /\ Len(resolved') <= scope.cases
      /\ \A i \in DOMAIN resolved' : (i \in DOMAIN resolved /\ resolved'[i] = resolved[i]) \/ (resolved'[i] = o /\ o \in caseOpen)
  <2>1. resolved \in Seq(Order) /\ Len(resolved) <= scope.cases /\ Len(resolved) \in Nat
    BY <1>1 DEF LedgerTyped
  <2>2. CASE resolved' = resolved
    BY <2>1, <2>2
  <2>3. CASE o \in caseOpen /\ Len(resolved) < scope.cases /\ resolved' = Append(resolved, o)
    <3>1. /\ resolved' \in Seq(Order) /\ Len(resolved') = Len(resolved) + 1
          /\ \A i \in 1..Len(resolved) : resolved'[i] = resolved[i]
          /\ resolved'[Len(resolved) + 1] = o
      BY <2>1, <2>3
    <3>2. DOMAIN resolved = 1..Len(resolved) /\ DOMAIN resolved' = 1..(Len(resolved) + 1)
      BY <2>1, <3>1
    <3>3. Len(resolved') <= scope.cases
      BY <1>3, <2>1, <2>3, <3>1
    <3>4. \A i \in 1..(Len(resolved) + 1) : i \in 1..Len(resolved) \/ i = Len(resolved) + 1
      BY <2>1
    <3> QED BY <2>3, <3>1, <3>2, <3>3, <3>4
  <2> QED BY <1>2, <2>2, <2>3
<1>5. OrderInv' /\ TopicInv'
  BY <1>1, <1>2, <1>4 DEF OrderInv, TopicInv
<1> QED BY <1>1, <1>2, <1>4, <1>5 DEF OrderBooks, LedgerTyped

LEMMA EscrowMoveBooks ==
  ASSUME MoneyInv, NEW o \in Order, OnAborted(o) PROVE OrderBooks
<1>1. LedgerTyped /\ TopicInv /\ OrderInv /\ RowsTyped
  BY DEF MoneyInv, LedgerInv, PaymentInv
<1>2. /\ UNCHANGED <<scope, pay, refund, mistaken, fate, captured, released, taxHold, caseOpen, resolved, reviewed>>
      /\ topic' \subseteq topic /\ dead' = dead
      /\ escrowed' = escrowed \/ (escrowed[o] = 0 /\ escrowed' = [escrowed EXCEPT ![o] = 1])
  <2>1. topic' \subseteq topic /\ dead' = dead
    BY <1>1, AckDoes DEF OnAborted
  <2> QED BY <1>1, <2>1 DEF OnAborted, paymentState, rows, reviewVars, LedgerTyped
<1>3. fate[o] = "cancelled"
  BY <1>1 DEF OnAborted, TopicInv
<1>4. /\ escrowed' \in [Order -> 0..1] /\ (\A x \in Order : escrowed[x] > 0 => escrowed'[x] > 0)
      /\ \A x \in Order \ {o} : escrowed'[x] = escrowed[x]
  <2>1. escrowed \in [Order -> 0..1] /\ 1 \in 0..1 /\ 1 > 0
    BY <1>1 DEF LedgerTyped
  <2> QED BY <1>2, <2>1
<1>5. OrderInv' /\ TopicInv'
  BY <1>1, <1>2, <1>3, <1>4 DEF OrderInv, TopicInv
<1> QED BY <1>1, <1>2, <1>4, <1>5 DEF OrderBooks, LedgerTyped

LEMMA OrderMoveKeeps ==
  ASSUME MoneyInv, OrderTurns PROVE MoneyInv'
<1>1. OrderBooks
  BY ChargeBooks, EndBooks, ReleaseBooks, ReviewBooks, EscrowMoveBooks DEF OrderTurns, OrderMove
<1>2. PaymentInv' /\ (\A r \in Refund : BookedInv(r)') /\ UNCHANGED <<scope, refund, posted, reversed, posting, raced, early, shared>>
  BY OrderMoveBooked, OrderMoveFrame DEF paymentState, rows
<1>3. LedgerTyped /\ HeldInv /\ Total \in Nat
  BY PaymentAssumption DEF MoneyInv, LedgerInv
<1>4. LedgerTyped'
  BY <1>1, <1>2, <1>3 DEF OrderBooks, LedgerTyped
<1>5. ASSUME NEW o \in Order, ~shared', released'[o] = 0, escrowed'[o] = 0 PROVE Held(o)' >= 0
  <2>1. released[o] = 0 /\ escrowed[o] = 0 /\ captured[o] \in 0..1 /\ captured'[o] \in 0..1 /\ (captured[o] > 0 => captured'[o] > 0)
    BY <1>1, <1>3, <1>5 DEF OrderBooks, LedgerTyped
  <2>2. Posted(o)' = Posted(o)
    BY <1>2, SamePosted
  <2>3. PICK n \in Nat : n = SumFunctionOnSet(Posted(o), Refund)
    BY <1>3, HeldBySum
  <2>4. Held(o) = Total * captured[o] - n /\ Held(o)' = Total * captured'[o] - n
    <3>1. Held(o) = Total * (captured[o] - 0 - 0) - n
      BY <1>3, <2>1, <2>3, HeldBySumNow DEF HeldBySumFact
    <3>2. Held(o)' = Total * (captured'[o] - 0 - 0) - n
      BY <1>4, <1>5, <2>2, <2>3, HeldBySumNext DEF HeldBySumFact
    <3> QED BY <2>1, <3>1, <3>2
  <2>5. Held(o) >= 0
    BY <1>2, <1>3, <1>5, <2>1 DEF HeldInv
  <2>6. CASE captured'[o] = captured[o]
    BY <2>4, <2>5, <2>6
  <2>7. CASE captured[o] = 0 /\ captured'[o] = 1
    BY <1>3, <2>4, <2>5, <2>7
  <2> QED BY <2>1, <2>6, <2>7
<1> QED BY <1>1, <1>2, <1>4, <1>5 DEF MoneyInv, LedgerInv, OrderBooks, HeldInv

\* a refund is matched, sized, posted and reversed
RefundPostMove(r) == MatchRefund(r) \/ ReadHeld(r) \/ PostRefund(r) \/ PostingCrash(r) \/ OnRefundFailed(r)

LEMMA RefundPostFrame ==
  ASSUME MoneyInv, NEW r \in Refund, RefundPostMove(r)
  PROVE  /\ PaymentInv' /\ TopicInv' /\ OrderInv'
         /\ UNCHANGED <<scope, pay, refund, runner, mistaken, unsent, fate, captured, released, escrowed, taxHold, caseOpen, resolved>>
         /\ topic' \subseteq topic /\ \A q \in Refund \ {r} : posted'[q] = posted[q] /\ posting'[q] = posting[q]
         /\ dead' \subseteq {"refundFailed", "delivered"} \X (Refund \union Order)
<1>0. RowsTyped /\ paymentFaults \in 0..scope.faults /\ scope.faults \in Nat /\ LedgerTyped /\ TopicInv /\ OrderInv
  BY PaymentAssumption DEF MoneyInv, PaymentInv, RowsTyped, Scope, LedgerInv
<1>1. /\ UNCHANGED paymentState
      /\ UNCHANGED <<scope, pay, refund, runner, mistaken, unsent, fate, captured, released, escrowed, taxHold, caseOpen, resolved>>
  BY DEF RefundPostMove, MatchRefund, ReadHeld, PostRefund, PostingCrash, OnRefundFailed, paymentState, paymentVars, rows,
         journalVars, reviewVars
<1>2. topic' \subseteq topic /\ paymentFaults' \in 0..scope.faults /\ dead' \subseteq dead \union {<<"refundFailed", r>>}
  <2>1. CASE MatchRefund(r)
    BY <1>0, <2>1, AckDoes DEF MatchRefund
  <2>2. CASE ReadHeld(r)
    BY <1>0, <2>2 DEF ReadHeld, paymentVars
  <2>3. CASE PostRefund(r)
    BY <1>0, <2>3, AckDoes DEF PostRefund
  <2>4. CASE PostingCrash(r)
    BY <1>0, <2>4 DEF PostingCrash, PaymentFails
  <2>5. CASE OnRefundFailed(r)
    BY <1>0, <2>5, AckDoes DEF OnRefundFailed
  <2> QED BY <2>1, <2>2, <2>3, <2>4, <2>5 DEF RefundPostMove
<1>3. \A q \in Refund \ {r} : posted'[q] = posted[q] /\ posting'[q] = posting[q]
  BY <1>0 DEF RefundPostMove, MatchRefund, ReadHeld, PostRefund, PostingCrash, OnRefundFailed, journalVars, LedgerTyped
<1>4. PaymentInv'
  BY <1>1, <1>2, PaymentRests DEF MoneyInv
<1>5. TopicInv' /\ OrderInv'
  BY <1>0, <1>1, <1>2 DEF TopicInv, OrderInv
<1>6. dead' \subseteq {"refundFailed", "delivered"} \X (Refund \union Order)
  BY <1>0, <1>2 DEF LedgerTyped
<1> QED BY <1>1, <1>2, <1>3, <1>4, <1>5, <1>6

\* it is matched or read, or its reader ends
LEMMA ReadKeeps ==
  ASSUME MoneyInv, NEW r \in Refund, MatchRefund(r) \/ ReadHeld(r) \/ PostingCrash(r) PROVE MoneyInv'
<1>0. LedgerTyped /\ HeldInv /\ (\A q \in Refund : BookedInv(q)) /\ refund \in [Refund -> RefundRow]
  BY DEF MoneyInv, LedgerInv, PaymentInv, RowsTyped
<1>1. /\ PaymentInv' /\ TopicInv' /\ OrderInv'
      /\ UNCHANGED <<scope, pay, refund, runner, mistaken, unsent, fate, captured, released, escrowed, taxHold, caseOpen, resolved>>
      /\ \A q \in Refund \ {r} : posted'[q] = posted[q] /\ posting'[q] = posting[q]
      /\ dead' \subseteq {"refundFailed", "delivered"} \X (Refund \union Order)
  BY RefundPostFrame DEF RefundPostMove
<1>2. UNCHANGED <<posted, reversed, reviewed, raced, early, shared>>
  BY DEF MatchRefund, ReadHeld, PostingCrash, journalVars, postingHistory, reviewVars
<1>3. /\ posting' \in [Refund -> [at : {"idle", "matched", "read"}, held : Int, final : BOOLEAN]]
      /\ posting'[r].at = "idle" => posting'[r] = NotPosting
      /\ posting'[r].at # "idle" => refund[r].status # "none" /\ posted[r] = 0
  <2>1. CASE MatchRefund(r)
    <3>1. CASE posting' = posting
      BY <1>0, <3>1 DEF LedgerTyped, BookedInv
    <3>2. CASE posted[r] = 0 /\ Matches(r) /\ posting' = [posting EXCEPT ![r].at = "matched"]
      <4>1. posting' \in [Refund -> [at : {"idle", "matched", "read"}, held : Int, final : BOOLEAN]] /\ posting'[r].at = "matched"
        BY <1>0, <3>2 DEF LedgerTyped
      <4> QED BY <3>2, <4>1 DEF Matches
    <3> QED BY <2>1, <3>1, <3>2 DEF MatchRefund
  <2>2. CASE ReadHeld(r)
    <3>1. refund[r].status # "none" /\ posted[r] = 0
      BY <1>0, <2>2 DEF ReadHeld, BookedInv
    <3>2. refund[r].order \in Order
      BY <3>1 DEF MoneyInv, PaymentInv, RefundInv
    <3>3. PICK h \in Int : h = Held(refund[r].order)
      <4>1. \A o \in Order : Held(o) \in Int
        <5> TAKE o \in Order
        <5>1. PICK n \in Nat : n = SumFunctionOnSet(Posted(o), Refund)
          BY <1>0, HeldBySum
        <5>2. PICK c \in Int : c = captured[o] - released[o] - escrowed[o]
          <6>1. captured[o] \in 0..1 /\ released[o] \in 0..1 /\ escrowed[o] \in 0..1
            BY <1>0 DEF LedgerTyped
          <6> QED BY <6>1
        <5>3. Held(o) = Total * c - n /\ Total \in Nat
          BY <1>0, <5>1, <5>2, HeldBySum, PaymentAssumption
        <5>4. Total * c \in Int
          BY <5>2, <5>3
        <5> QED BY <5>1, <5>3, <5>4
      <4> QED BY <3>2, <4>1
    <3>4. posting' = [posting EXCEPT ![r] = [at |-> "read", held |-> h, final |-> released[refund[r].order] > 0]]
      BY <2>2, <3>3 DEF ReadHeld
    <3>5. posting' \in [Refund -> [at : {"idle", "matched", "read"}, held : Int, final : BOOLEAN]] /\ posting'[r].at = "read"
      BY <1>0, <3>3, <3>4 DEF LedgerTyped
    <3> QED BY <3>1, <3>5
  <2>3. CASE PostingCrash(r)
    <3>1. NotPosting \in [at : {"idle", "matched", "read"}, held : Int, final : BOOLEAN] /\ NotPosting.at = "idle"
      BY DEF NotPosting
    <3> QED BY <1>0, <2>3, <3>1 DEF PostingCrash, LedgerTyped
  <2> QED BY <2>1, <2>2, <2>3
<1>4. LedgerTyped'
  BY <1>0, <1>1, <1>2, <1>3 DEF LedgerTyped
<1>5. \A q : <<"refundFailed", q>> \in topic => <<"refundFailed", q>> \in topic'
  <2>1. topic' \in {topic, topic \ {<<"refund", r>>}}
    BY AckDoes DEF MatchRefund, ReadHeld, PostingCrash, paymentVars, MoneyInv, PaymentInv
  <2>2. \A q : <<"refundFailed", q>> # <<"refund", r>>
    OBVIOUS
  <2> QED BY <2>1, <2>2
<1>6. \A q \in Refund : Told(q) => Told(q)'
  BY <1>1, <1>5 DEF Told
<1>7. ASSUME NEW q \in Refund PROVE BookedInv(q)'
  <2>1. /\ posting'[q].at = "idle" => posting'[q] = NotPosting
        /\ posting'[q].at # "idle" => refund[q].status # "none" /\ posted[q] = 0
    BY <1>0, <1>1, <1>3 DEF BookedInv
  <2>2. BookedInv(q)
    BY <1>0
  <2> QED BY <1>1, <1>2, <1>6, <2>1, <2>2 DEF BookedInv, ReversalClash
<1>8. HeldInv'
  BY <1>0, <1>1, <1>2 DEF HeldInv, Held
<1> QED BY <1>1, <1>4, <1>7, <1>8 DEF MoneyInv, LedgerInv

\* a posting changes what is held for one order by its amount
LEMMA OneBooked ==
  ASSUME LedgerTyped, LedgerTyped', NEW r \in Refund, NEW o \in Order,
         UNCHANGED <<refund, captured, released, escrowed>>,
         \A q \in Refund \ {r} : posted'[q] = posted[q], \A q \in Refund \ {r} : q \in reversed' <=> q \in reversed
  PROVE  /\ Held(o) \in Int /\ Held(o)' = Held(o) + Posted(o)[r] - Posted(o)'[r]
         /\ Posted(o)[r] \in Nat /\ Posted(o)'[r] \in Nat
<1>1. /\ Held(o) = Total * (captured[o] - released[o] - escrowed[o]) - SumFunctionOnSet(Posted(o), Refund)
      /\ SumFunctionOnSet(Posted(o), Refund) \in Nat /\ \A q \in Refund : Posted(o)[q] \in Nat
  BY HeldBySumNow DEF HeldBySumFact
<1>2. /\ Held(o)' = Total * (captured[o] - released[o] - escrowed[o]) - SumFunctionOnSet(Posted(o)', Refund)
      /\ SumFunctionOnSet(Posted(o)', Refund) \in Nat /\ \A q \in Refund : Posted(o)'[q] \in Nat
  BY HeldBySumNext DEF HeldBySumFact
<1>3. \A q \in Refund \ {r} : Posted(o)[q] = Posted(o)'[q]
  BY DEF Posted
<1>4. IsFiniteSet(Refund)
  BY PaymentAssumption
<1>5. SumFunctionOnSet(Posted(o)', Refund) = SumFunctionOnSet(Posted(o), Refund) - Posted(o)[r] + Posted(o)'[r]
  <2>1. ASSUME NEW f, NEW g, \A q \in Refund : f[q] \in Nat /\ g[q] \in Nat, \A q \in Refund \ {r} : f[q] = g[q]
        PROVE  SumFunctionOnSet(g, Refund) = SumFunctionOnSet(f, Refund) - f[r] + g[r]
    <3>1. \A q \in Refund : f[q] \in Int /\ g[q] \in Int
      BY <2>1
    <3> QED BY <1>4, <2>1, <3>1, SumChange
  <2> QED BY <1>1, <1>2, <1>3, <2>1
<1>6. PICK c \in Int : c = Total * (captured[o] - released[o] - escrowed[o])
  <2>1. captured[o] \in 0..1 /\ released[o] \in 0..1 /\ escrowed[o] \in 0..1 /\ Total \in Nat
    BY PaymentAssumption DEF LedgerTyped
  <2>2. PICK d \in Int : d = captured[o] - released[o] - escrowed[o]
    BY <2>1
  <2>3. Total * d \in Int
    BY <2>1, <2>2
  <2> QED BY <2>2, <2>3
<1>7. PICK m \in Nat, n \in Nat : m = SumFunctionOnSet(Posted(o), Refund) /\ n = SumFunctionOnSet(Posted(o)', Refund)
  BY <1>1, <1>2
<1>8. Held(o) = c - m /\ Held(o)' = c - n /\ n = m - Posted(o)[r] + Posted(o)'[r] /\ Posted(o)[r] \in Nat /\ Posted(o)'[r] \in Nat
  BY <1>1, <1>2, <1>5, <1>6, <1>7
<1> QED BY <1>6, <1>7, <1>8

\* what a posting read is what is held, or another posting changed it
LEMMA PostKeeps ==
  ASSUME MoneyInv, NEW r \in Refund, PostRefund(r) PROVE MoneyInv'
<1>0. /\ LedgerTyped /\ HeldInv /\ OrderInv /\ (\A q \in Refund : BookedInv(q)) /\ refund \in [Refund -> RefundRow]
      /\ \A q \in Refund : RefundInv(q)
  BY DEF MoneyInv, LedgerInv, PaymentInv, RowsTyped
<1>1. /\ PaymentInv' /\ TopicInv' /\ OrderInv'
      /\ UNCHANGED <<scope, pay, refund, runner, mistaken, unsent, fate, captured, released, escrowed, taxHold, caseOpen, resolved>>
      /\ \A q \in Refund \ {r} : posted'[q] = posted[q] /\ posting'[q] = posting[q]
      /\ dead' \subseteq {"refundFailed", "delivered"} \X (Refund \union Order)
  BY RefundPostFrame DEF RefundPostMove
<1>2. PICK o \in Order : o = refund[r].order
  BY <1>0 DEF PostRefund, BookedInv, RefundInv
<1>3. /\ posting[r].at = "read" /\ posted[r] = 0 /\ refund[r].status # "none" /\ r \notin reversed /\ refund[r].amount \in Nat
      /\ posting[r].held \in Int
  BY <1>0 DEF PostRefund, BookedInv, RefundRow, LedgerTyped
<1>4. PICK n \in Nat : n = RefundPosting(r) /\ n <= refund[r].amount /\ (n > 0 => ~posting[r].final /\ n <= posting[r].held)
  BY <1>3 DEF RefundPosting
<1>5. /\ posting' = [posting EXCEPT ![r] = NotPosting] /\ posted' = [posted EXCEPT ![r] = n] /\ reversed' = reversed
      /\ reviewed' \subseteq reviewed \union {r}
      /\ raced' = (IF ~Matches(r) THEN raced \union {r} ELSE raced)
      /\ early' = (IF n > 0 /\ released[o] = 0 THEN early \union {o} ELSE early)
      /\ shared' = (shared \/ posting[r].held # Held(o))
  BY <1>2, <1>4 DEF PostRefund
<1>6. posted'[r] = n /\ posting'[r] = NotPosting /\ NotPosting.at = "idle"
  BY <1>0, <1>5 DEF LedgerTyped, NotPosting
<1>7. LedgerTyped'
  <2>1. NotPosting \in [at : {"idle", "matched", "read"}, held : Int, final : BOOLEAN]
    BY DEF NotPosting
  <2>2. posting' \in [Refund -> [at : {"idle", "matched", "read"}, held : Int, final : BOOLEAN]] /\ posted' \in [Refund -> Nat]
    BY <1>0, <1>5, <2>1 DEF LedgerTyped
  <2>3. early' \subseteq Order /\ raced' \subseteq Refund /\ reviewed' \subseteq Refund /\ shared' \in BOOLEAN
    BY <1>0, <1>5 DEF LedgerTyped
  <2> QED BY <1>0, <1>1, <1>5, <2>2, <2>3 DEF LedgerTyped
<1>8. \A x \in Order : /\ Held(x) \in Int /\ Held(x)' = Held(x) + Posted(x)[r] - Posted(x)'[r]
                       /\ Posted(x)[r] = 0 /\ Posted(x)'[r] = IF x = o THEN n ELSE 0
  <2> TAKE x \in Order
  <2>1. Held(x) \in Int /\ Held(x)' = Held(x) + Posted(x)[r] - Posted(x)'[r]
    BY <1>0, <1>1, <1>5, <1>7, OneBooked
  <2>2. Posted(x)[r] = 0 /\ Posted(x)'[r] = IF x = o THEN n ELSE 0
    BY <1>1, <1>2, <1>3, <1>5, <1>6 DEF Posted
  <2> QED BY <2>1, <2>2
<1>9. n > 0 /\ ~shared' => released[o] = 0
  <2> SUFFICES ASSUME n > 0, ~shared', released[o] > 0 PROVE FALSE
    BY <1>0 DEF LedgerTyped
  <2>1. Held(o) > 0
    <3>1. posting[r].held = Held(o)
      BY <1>5
    <3> QED BY <1>3, <1>4, <3>1
  <2>2. captured[o] \in 0..1 /\ released[o] \in 0..1 /\ escrowed[o] \in 0..1 /\ Total \in Nat
    BY <1>0, PaymentAssumption DEF LedgerTyped
  <2>3. PICK m \in Nat : m = SumFunctionOnSet(Posted(o), Refund)
    BY <1>0, HeldBySum
  <2>4. Held(o) = Total * (captured[o] - released[o] - escrowed[o]) - m
    BY <1>0, <2>3, HeldBySum
  <2>5. escrowed[o] = 0 /\ released[o] = 1 /\ captured[o] = 1
    BY <1>0, <2>2 DEF OrderInv
  <2>6. Held(o) = Total * 0 - m
    BY <2>4, <2>5
  <2> QED BY <2>1, <2>2, <2>3, <2>6
<1>10. HeldInv'
  <2> SUFFICES ASSUME NEW x \in Order, ~shared', released[x] = 0, escrowed[x] = 0 PROVE Held(x)' >= 0
    BY <1>1 DEF HeldInv
  <2>1. ~shared /\ posting[r].held = Held(o) /\ Held(x) >= 0
    BY <1>0, <1>5 DEF HeldInv
  <2>2. CASE x = o
    <3>1. Held(x)' = Held(x) - n
      BY <1>4, <1>8, <2>2
    <3> QED BY <1>3, <1>4, <1>8, <2>1, <2>2, <3>1
  <2>3. CASE x # o
    BY <1>8, <2>1, <2>3
  <2> QED BY <2>2, <2>3
<1>11. \A q : <<"refundFailed", q>> \in topic => <<"refundFailed", q>> \in topic'
  <2>1. topic' \in {topic, topic \ {<<"refund", r>>}}
    BY AckDoes DEF PostRefund, MoneyInv, PaymentInv
  <2>2. \A q : <<"refundFailed", q>> # <<"refund", r>>
    OBVIOUS
  <2> QED BY <2>1, <2>2
<1>12. \A q \in Refund : Told(q) => Told(q)'
  BY <1>1, <1>11 DEF Told
<1>13. ASSUME NEW q \in Refund PROVE BookedInv(q)'
  <2>1. BookedInv(q) /\ early \subseteq early' /\ raced \subseteq raced' /\ (shared => shared')
    BY <1>0, <1>5
  <2>2. CASE q # r
    BY <1>1, <1>5, <1>12, <2>1, <2>2 DEF BookedInv, ReversalClash
  <2>3. CASE q = r
    <3>1. refund[r].status = "FAILED" => r \in raced'
      BY <1>5 DEF Matches
    <3>2. n > 0 => refund[r].order \in early' \/ shared'
      BY <1>2, <1>5, <1>9
    <3> QED BY <1>1, <1>3, <1>4, <1>5, <1>6, <2>3, <3>1, <3>2 DEF BookedInv
  <2> QED BY <2>2, <2>3
<1> QED BY <1>1, <1>7, <1>10, <1>13 DEF MoneyInv, LedgerInv

LEMMA ReverseKeeps ==
  ASSUME MoneyInv, NEW r \in Refund, OnRefundFailed(r) PROVE MoneyInv'
<1>0. LedgerTyped /\ HeldInv /\ TopicInv /\ (\A q \in Refund : BookedInv(q)) /\ RowsTyped /\ refund \in [Refund -> RefundRow]
  BY DEF MoneyInv, LedgerInv, PaymentInv, RowsTyped
<1>1. /\ PaymentInv' /\ TopicInv' /\ OrderInv'
      /\ UNCHANGED <<scope, pay, refund, runner, mistaken, unsent, fate, captured, released, escrowed, taxHold, caseOpen, resolved>>
      /\ dead' \subseteq {"refundFailed", "delivered"} \X (Refund \union Order)
  BY RefundPostFrame DEF RefundPostMove
<1>2. UNCHANGED <<posted, reviewed, posting, raced, early, shared>> /\ (refund[r].status = "FAILED" \/ r \in mistaken)
  BY <1>0 DEF OnRefundFailed, reviewVars, postingHistory, TopicInv
<1>3. /\ reversed \subseteq reversed' /\ reversed' \subseteq reversed \union {r}
      /\ r \in reversed' \ reversed => posted[r] > 0
      /\ r \in reversed' \/ posted[r] = 0 \/ ReversalClash(r)
  BY <1>0 DEF OnRefundFailed, ToReverse, LedgerTyped
<1>4. \A q \in Refund \ {r} : Told(q) => Told(q)'
  <2>1. topic' \in {topic, topic \ {<<"refundFailed", r>>}}
    BY <1>0, AckDoes DEF OnRefundFailed
  <2>2. \A q \in Refund \ {r} : <<"refundFailed", q>> # <<"refundFailed", r>>
    OBVIOUS
  <2> QED BY <1>1, <2>1, <2>2 DEF Told
<1>5. LedgerTyped'
  BY <1>0, <1>1, <1>2, <1>3 DEF LedgerTyped
<1>6. \A q \in Refund : ReversalClash(q) => ReversalClash(q)'
  BY <1>1, <1>3 DEF ReversalClash
<1>7. ASSUME NEW q \in Refund PROVE BookedInv(q)'
  <2>1. BookedInv(q)
    BY <1>0
  <2>2. CASE q = r
    BY <1>1, <1>2, <1>3, <1>6, <2>1, <2>2 DEF BookedInv
  <2>3. CASE q # r
    BY <1>1, <1>2, <1>3, <1>4, <1>6, <2>1, <2>3 DEF BookedInv
  <2> QED BY <2>2, <2>3
<1>8. HeldInv'
  <2> SUFFICES ASSUME NEW x \in Order, ~shared', released'[x] = 0, escrowed'[x] = 0 PROVE Held(x)' >= 0
    BY DEF HeldInv
  <2>1. Held(x) >= 0
    BY <1>0, <1>1, <1>2 DEF HeldInv
  <2>2. /\ Held(x) \in Int /\ Held(x)' = Held(x) + Posted(x)[r] - Posted(x)'[r]
        /\ Posted(x)[r] \in Nat /\ Posted(x)'[r] \in Nat
    BY <1>0, <1>1, <1>2, <1>3, <1>5, OneBooked
  <2>3. Posted(x)'[r] = Posted(x)[r] \/ Posted(x)'[r] = 0
    BY <1>1, <1>2, <1>3 DEF Posted
  <2> QED BY <2>1, <2>2, <2>3
<1> QED BY <1>1, <1>5, <1>7, <1>8 DEF MoneyInv, LedgerInv

LEMMA MoneyStutters == ASSUME MoneyInv, UNCHANGED moneyVars PROVE MoneyInv'
<1>1. UNCHANGED <<scope, charged, pay, refund, hook, pspRefund, asking, notified, runner, topic, crowded, overtook, mistaken, unsent, paymentFaults>>
  BY DEF moneyVars, paymentVars, rows
<1>2. UNCHANGED <<fate, captured, released, escrowed, posted, reversed, reviewed, taxHold, caseOpen, resolved, posting, dead, raced, early, shared>>
  BY DEF moneyVars, ledgerVars, journalVars, reviewVars, postingHistory
<1>3. PaymentInv'
  BY <1>1, PaymentRests DEF MoneyInv, PaymentInv, RowsTyped, paymentState, rows
<1>4. LedgerTyped' /\ TopicInv' /\ OrderInv' /\ HeldInv'
  BY <1>1, <1>2 DEF MoneyInv, LedgerInv, LedgerTyped, TopicInv, OrderInv, HeldInv, Held
<1>5. \A r \in Refund : BookedInv(r)'
  BY <1>1, <1>2 DEF MoneyInv, LedgerInv, BookedInv, Told, ReversalClash
<1> QED BY <1>3, <1>4, <1>5 DEF MoneyInv, LedgerInv

LEMMA MoneyStarts == ASSUME MoneyInit PROVE MoneyInv
<1> USE DEF MoneyInit, PaymentInit, LedgerInit
<1>0. scope \in Scope /\ scope.faults \in Nat /\ scope.cases \in Nat /\ scope.tax \subseteq Order /\ scope.paid \in BOOLEAN
      /\ "none" \notin Order /\ Total \in Nat /\ "charge" \notin Refund /\ MaxAttempts \in Nat
  BY PaymentAssumption DEF Scope
<1>1. RowsTyped
  <2>1. [order |-> "none", amount |-> 0, status |-> "none"] \in RefundRow /\ [status |-> "none", amount |-> 0] \in PspRow
    BY DEF RefundRow, PspRow
  <2> QED BY <1>0, <2>1, IdleIs DEF RowsTyped, NoRefund
<1>2. WebhookInv /\ (\A r \in Refund : RefundInv(r)) /\ \A p \in Runner : AttemptInv(p)
  BY <1>0, PaymentAssumption, IdleHas DEF WebhookInv, RefundInv, AttemptInv, NoRefund, NotAsking, Hook
<1>3. \A f : (\A r \in Refund : f[r] = 0) => SumFunctionOnSet(f, Refund) = 0
  <2> SUFFICES ASSUME NEW f, \A r \in Refund : f[r] = 0 PROVE SumFunctionOnSet(f, Refund) = 0
    OBVIOUS
  <2>1. IsFiniteSet(Refund) /\ {} \in SUBSET Refund /\ IsFiniteSet({})
    BY PaymentAssumption, FS_EmptySet
  <2>2. SumFunctionOnSet(f, Refund) = SumFunctionOnSet(f, {})
    BY <2>1, SumSupport
  <2> QED BY <2>1, <2>2, SumsOf
<1>4. WithinTotal
  <2>1. \A o \in Order : Outstanding(o) = 0
    <3> TAKE o \in Order
    <3>1. \A r \in Refund : Counted(o)[r] = 0
      BY <1>0 DEF Counted, NoRefund
    <3> QED BY <1>1, <1>3, <3>1, SumsNow DEF SumFacts, RowsTyped
  <2>2. \A r \in Refund : asking[r].order = "none"
    BY DEF NotAsking
  <2> QED BY <1>0, <2>1, <2>2 DEF WithinTotal
<1>5. LedgerTyped
  <2>1. NotPosting \in [at : {"idle", "matched", "read"}, held : Int, final : BOOLEAN]
    BY DEF NotPosting
  <2>2. <<>> \in Seq(Order) /\ Len(<<>>) = 0
    OBVIOUS
  <2>3. captured \in [Order -> 0..1] /\ released \in [Order -> 0..1] /\ escrowed \in [Order -> 0..1]
    <3>1. 0 \in 0..1 /\ 1 \in 0..1
      OBVIOUS
    <3> QED BY <3>1
  <2>4. fate \in [Order -> {"open", "delivered", "cancelled"}] /\ posted \in [Refund -> Nat]
    OBVIOUS
  <2>5. posting \in [Refund -> [at : {"idle", "matched", "read"}, held : Int, final : BOOLEAN]]
    BY <2>1
  <2>6. resolved \in Seq(Order) /\ Len(resolved) <= scope.cases
    BY <1>0, <2>2
  <2> QED BY <1>0, <2>3, <2>4, <2>5, <2>6 DEF LedgerTyped
<1>6. TopicInv /\ OrderInv /\ \A r \in Refund : BookedInv(r)
  BY <1>0 DEF TopicInv, OrderInv, BookedInv, NotPosting, NoRefund
<1>7. HeldInv
  <2> SUFFICES ASSUME NEW o \in Order PROVE Held(o) >= 0
    BY DEF HeldInv
  <2>1. \A r \in Refund : Posted(o)[r] = 0
    BY DEF Posted
  <2>2. SumFunctionOnSet(Posted(o), Refund) = 0
    BY <1>3, <2>1
  <2>3. Held(o) = Total * (captured[o] - 0 - 0) - 0
    BY <1>5, <2>2, HeldBySum
  <2>4. captured[o] = 0 \/ captured[o] = 1
    BY <1>5 DEF LedgerTyped
  <2> QED BY <1>0, <2>3, <2>4
<1> QED BY <1>1, <1>2, <1>4, <1>5, <1>6, <1>7 DEF MoneyInv, PaymentInv, LedgerInv

LEMMA MoneyMoves == ASSUME MoneyInv, [MoneyNext]_moneyVars PROVE MoneyInv'
<1>1. CASE PaymentNext /\ UNCHANGED ledgerVars
  BY <1>1, PaymentKeepsLedger
<1>2. CASE OrderTurns
  BY <1>2, OrderMoveKeeps
<1>3. ASSUME NEW r \in Refund, RefundPostMove(r) PROVE MoneyInv'
  BY <1>3, ReadKeeps, PostKeeps, ReverseKeeps DEF RefundPostMove
<1>4. CASE UNCHANGED moneyVars
  BY <1>4, MoneyStutters
<1>5. scope.orders \subseteq Order /\ scope.ends \subseteq {"delivered", "cancelled"}
  <2>1. scope \in Scope
    BY PaymentAssumption DEF MoneyInv, PaymentInv, RowsTyped
  <2> QED BY <2>1 DEF Scope
<1>6. LedgerNext => OrderTurns \/ \E r \in Refund : RefundPostMove(r)
  BY <1>5 DEF LedgerNext, OrderTurns, OrderMove, RefundPostMove
<1> QED BY <1>1, <1>2, <1>3, <1>4, <1>6 DEF MoneyNext

LEMMA MoneyAlways == MoneySpec => []MoneyInv
<1>1. MoneyInv /\ [MoneyNext]_moneyVars => MoneyInv'
  BY MoneyMoves
<1>2. MoneyInit => MoneyInv
  BY MoneyStarts
<1> QED BY <1>1, <1>2, PTL DEF MoneySpec

\* The journal and Paystack agree on a refund in the end, but in the three ways
\* the property names (handleRefundEvent, onRefundProcessed, onRefundFailed).
THEOREM RefundsReachJournal == MoneySpec => []RefundsFollowRows
<1>1. MoneyInv => RefundsFollowRows
  <2> SUFFICES ASSUME MoneyInv, NEW r \in Refund
               PROVE  /\ posted[r] <= refund[r].amount
                      /\ r \in reversed => posted[r] > 0 /\ (refund[r].status = "FAILED" \/ r \in mistaken)
                      /\ refund[r].status = "PROCESSING" /\ hook[r].status = "processed" => r \in overtook
                      /\ refund[r].status = "FAILED" /\ Quiet(r) /\ hook[r].status = "processed" =>
                           \/ posted[r] = 0 \/ r \in reversed
                           \/ r \in unsent \/ r \in raced \/ r \in mistaken \/ ReversalClash(r)
    BY DEF RefundsFollowRows
  <2>1. BookedInv(r) /\ WebhookInv /\ posted[r] \in Nat /\ refund[r].amount \in Nat
    BY DEF MoneyInv, PaymentInv, LedgerInv, RowsTyped, LedgerTyped, RefundRow
  <2>2. posted[r] <= refund[r].amount
    BY <2>1 DEF BookedInv
  <2>3. refund[r].status = "PROCESSING" /\ hook[r].status = "processed" => r \in overtook
    BY <2>1 DEF WebhookInv, Final
  <2> QED BY <2>1, <2>2, <2>3 DEF BookedInv, Told, Quiet
<1> QED BY <1>1, MoneyAlways, PTL

\* The books of an order's money: every row and posting well typed, each booked
\* once and in its order, and what is held for an order covered.
THEOREM EscrowIsBooked == MoneySpec => []EscrowBooks
<1>1. MoneyInv => MoneyTypeOK
  <2> SUFFICES ASSUME MoneyInv PROVE MoneyTypeOK
    OBVIOUS
  <2>1. PaymentTypeOK
    BY DEF MoneyInv, PaymentInv, RowsTyped, PaymentTypeOK, RefundRow, PspRow, RefundCall, Attempt
  <2>2. captured \in [Order -> Nat] /\ released \in [Order -> Nat] /\ escrowed \in [Order -> Nat]
    <3>1. captured \in [Order -> 0..1] /\ released \in [Order -> 0..1] /\ escrowed \in [Order -> 0..1]
      BY DEF MoneyInv, LedgerInv, LedgerTyped
    <3>2. 0..1 \subseteq Nat
      OBVIOUS
    <3> QED BY <3>1, <3>2
  <2>3. LedgerTypeOK
    BY <2>2 DEF MoneyInv, LedgerInv, LedgerTyped, LedgerTypeOK
  <2> QED BY <2>1, <2>3 DEF MoneyTypeOK
<1>2. MoneyInv => CaptureThenRelease
  <2> SUFFICES ASSUME MoneyInv, NEW o \in Order
               PROVE  /\ captured[o] <= 1 /\ released[o] <= 1 /\ escrowed[o] <= 1
                      /\ captured[o] > 0 => pay = "SUCCESS" /\ charged
                      /\ released[o] > 0 => captured[o] > 0 /\ fate[o] = "delivered"
    BY DEF CaptureThenRelease
  <2>1. captured[o] \in 0..1 /\ released[o] \in 0..1 /\ escrowed[o] \in 0..1
    BY DEF MoneyInv, LedgerInv, LedgerTyped
  <2> QED BY <2>1 DEF MoneyInv, LedgerInv, OrderInv, PaymentInv, WebhookInv
<1>3. MoneyInv => RefundsCovered
  <2> SUFFICES ASSUME MoneyInv, NEW o \in Order
               PROVE  /\ Held(o) < 0 => \/ shared \/ (escrowed[o] > 0 /\ captured[o] = 0)
                                        \/ (o \in early /\ released[o] + escrowed[o] > 0)
                      /\ Outstanding(o) <= Total \/ crowded \/ Misattributed(o)
    BY DEF RefundsCovered
  <2>1. Outstanding(o) <= Total \/ crowded \/ Misattributed(o)
    BY DEF MoneyInv, PaymentInv, WithinTotal
  <2>2. LedgerTyped /\ OrderInv /\ HeldInv /\ (\A q \in Refund : BookedInv(q)) /\ Total \in Nat
    BY PaymentAssumption DEF MoneyInv, LedgerInv
  <2>3. captured[o] \in 0..1 /\ released[o] \in 0..1 /\ escrowed[o] \in 0..1
    BY <2>2 DEF LedgerTyped
  <2>4. ASSUME Held(o) < 0, ~shared, ~(escrowed[o] > 0 /\ captured[o] = 0) PROVE o \in early /\ released[o] + escrowed[o] > 0
    <3>1. PICK n \in Nat : n = SumFunctionOnSet(Posted(o), Refund)
      BY <2>2, HeldBySum
    <3>2. Held(o) = Total * (captured[o] - released[o] - escrowed[o]) - n
      BY <2>2, <3>1, HeldBySum
    <3>3. ~(released[o] = 0 /\ escrowed[o] = 0)
      <4> SUFFICES ASSUME released[o] = 0 /\ escrowed[o] = 0 PROVE FALSE
        OBVIOUS
      <4>1. captured[o] = 0 \/ captured[o] = 1
        BY <2>3
      <4>2. Held(o) = Total * captured[o] - n /\ Total * captured[o] \in Int
        BY <2>2, <2>3, <3>2, <4>1
      <4>3. Held(o) >= 0
        BY <2>2, <2>4 DEF HeldInv
      <4> QED BY <2>4, <3>1, <4>2, <4>3
    <3>4. released[o] + escrowed[o] > 0
      BY <2>3, <3>3
    <3>5. captured[o] = 1 /\ released[o] + escrowed[o] = 1
      BY <2>2, <2>3, <2>4, <3>4 DEF OrderInv
    <3>6. n > 0
      <4>1. captured[o] - released[o] - escrowed[o] = 0
        BY <2>3, <3>5
      <4>2. Held(o) = Total * 0 - n
        BY <3>2, <4>1
      <4> QED BY <2>2, <2>4, <3>1, <4>2
    <3>7. PICK q \in Refund : Posted(o)[q] # 0
      <4> SUFFICES ASSUME \A q \in Refund : Posted(o)[q] = 0 PROVE FALSE
        OBVIOUS
      <4>1. IsFiniteSet(Refund) /\ {} \in SUBSET Refund /\ IsFiniteSet({})
        BY PaymentAssumption, FS_EmptySet
      <4>2. SumFunctionOnSet(Posted(o), Refund) = SumFunctionOnSet(Posted(o), {})
        BY <4>1, SumSupport
      <4>3. SumFunctionOnSet(Posted(o), {}) = 0
        BY <4>1, SumsOf
      <4> QED BY <3>1, <3>6, <4>2, <4>3
    <3>8. refund[q].order = o /\ posted[q] > 0
      BY <2>2, <3>7 DEF Posted, LedgerTyped
    <3>9. o \in early
      BY <2>2, <2>4, <3>8 DEF BookedInv
    <3> QED BY <3>4, <3>9
  <2> QED BY <2>1, <2>4
<1>4. MoneyInv => EscrowBooks
  BY <1>1, <1>2, <1>3 DEF EscrowBooks
<1> QED BY <1>4, MoneyAlways, PTL

================================================================================
