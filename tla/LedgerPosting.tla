---------------------------- MODULE LedgerPosting ----------------------------
(***************************************************************************)
(* What the ledger posts for the orders of a checkout                      *)
(* (apps/ledger/src/ledger.service.ts): the capture when the payment is    *)
(* announced, the release when the order is delivered, the escrow of a     *)
(* failed errand, a refund and the reversal of a failed one; the tax       *)
(* review that holds a release back, and its replay.                       *)
(*                                                                         *)
(* Events come from CheckoutPayment and from the order service, at least   *)
(* once and in any order.  Each posting is a transaction that inserts its  *)
(* business key, so it is one step; what was read before, from another     *)
(* service or to size the posting, is read in a step of its own.  An event *)
(* is acknowledged when its handler returned, or comes again.              *)
(***************************************************************************)
EXTENDS CheckoutPayment, Sequences

CONSTANTS
  Errand,      \* the orders that are errands
  ReplayBatch  \* how many resolved cases the replay reads (200)

ASSUME LedgerAssumption == Errand \subseteq Order /\ ReplayBatch \in Nat \ {0}

VARIABLES
  fate,      \* the order service: "open", "delivered" or "cancelled"
  captured,  \* how often the charge of an order was posted
  released,  \* how often its final allocation was posted
  escrowed,  \* how often a failed errand's escrow was released
  posted,    \* amount posted under a refund's envelope
  reversed,  \* refunds whose posting was reversed
  reviewed,  \* refunds under finance review instead of posted
  posting,   \* onRefundProcessed under way: what it has read
  taxHold,   \* orders whose tax treatment nobody has decided yet
  caseOpen,  \* orders with an open tax review case
  resolved,  \* the orders of the resolved cases, oldest first
  dead,      \* events given up
  missed,    \* history: a charge was consumed with no orders to post
  raced,     \* history: refunds that failed between their check and posting
  early,     \* history: orders refunded before they were released
  shared     \* history: a refund was sized by a hold that changed since

journalVars == <<captured, released, escrowed, posted, reversed>>
reviewVars == <<reviewed, taxHold, caseOpen, resolved>>
postingHistory == <<missed, raced, early, shared>>
ledgerVars == <<fate, journalVars, reviewVars, posting, dead, postingHistory>>
moneyVars == <<paymentVars, ledgerVars>>
\* everything of the payment service but the events it has published
paymentState == <<scope, charged, rows, pspRefund, asking, notified, runner, crowded, overtook, mistaken, unsent>>

NotPosting == [at |-> "idle", held |-> 0, final |-> FALSE]

LedgerTypeOK ==
  /\ fate \in [Order -> {"open", "delivered", "cancelled"}]
  /\ {captured, released, escrowed} \subseteq [Order -> Nat]
  /\ posted \in [Refund -> Nat]
  /\ {reversed, reviewed, raced} \subseteq SUBSET Refund
  /\ \A r \in Refund : posting[r].at \in {"idle", "matched", "read"}
  /\ {taxHold, caseOpen, early} \subseteq SUBSET Order
  /\ resolved \in Seq(Order) /\ Len(resolved) <= scope.cases
  /\ dead \subseteq {"refundFailed", "delivered"} \X (Refund \union Order)

MoneyTypeOK == PaymentTypeOK /\ LedgerTypeOK

LedgerInit ==
  /\ fate = [o \in Order |-> "open"]
  /\ captured = [o \in Order |-> IF scope.paid THEN 1 ELSE 0]
  /\ released = [o \in Order |-> 0]
  /\ escrowed = [o \in Order |-> 0]
  /\ posted = [r \in Refund |-> 0]
  /\ reversed = {} /\ reviewed = {}
  /\ posting = [r \in Refund |-> NotPosting]
  /\ taxHold = scope.tax
  /\ caseOpen = {} /\ resolved = <<>> /\ dead = {}
  /\ missed = FALSE /\ raced = {} /\ early = {} /\ shared = FALSE

\* netCredit of customer_funds_held for one order
Held(o) ==
  Total * (captured[o] - released[o] - escrowed[o])
    - SumFunctionOnSet(posted, {r \in Refund : refund[r].order = o} \ reversed)

\* acknowledged, or the event comes again all the same (ConsumerDelivery)
Ack(m) ==
  /\ \/ topic' = topic \ {m} /\ UNCHANGED paymentFaults
     \/ UNCHANGED topic /\ PaymentFails("twice")
  /\ UNCHANGED dead
\* an error: the event comes again, or was delivered for the last time
Nak(m) ==
  /\ \/ UNCHANGED <<topic, dead>>
     \/ topic' = topic \ {m} /\ dead' = dead \union {m}
  /\ UNCHANGED paymentFaults

(***************************************************************************)
(* The order service: an order ends once, and says so.                     *)
(***************************************************************************)
OrderEnds(o, end) ==
  /\ fate[o] = "open"
  /\ end = "delivered" => pay = "SUCCESS"
  /\ fate' = [fate EXCEPT ![o] = end]
  /\ topic' = topic \union {<<end, o>>}
  /\ UNCHANGED <<paymentState, paymentFaults, journalVars, reviewVars, posting, dead, postingHistory>>

(***************************************************************************)
(* The capture.  A row that is SUCCESS stays so: the check and the posting *)
(* are one step.  An order service that does not answer yields no orders.  *)
(***************************************************************************)
\* the key charge:<order> lets one posting through
Capture(o) == IF captured[o] = 0 THEN 1 ELSE captured[o]

OnChargeSucceeded(m) ==
  /\ m \in topic /\ m[1] = "charge"
  /\ \/ /\ Ack(m)
        /\ captured' = [o \in Order |-> IF pay = "SUCCESS" THEN Capture(o) ELSE captured[o]]
        /\ UNCHANGED missed
     \/ /\ PaymentFails("ordersDown")
        /\ topic' = topic \ {m}
        /\ missed' = TRUE
        /\ UNCHANGED <<captured, dead>>
  /\ UNCHANGED <<paymentState, fate, released, escrowed, posted, reversed, reviewVars, posting, raced, early, shared>>

(***************************************************************************)
(* The release of a delivered order.  An undecided tax treatment and a     *)
(* capture that is not posted open a case; the first is acknowledged, the  *)
(* second is an error.                                                     *)
(***************************************************************************)
Verdict(o) ==
  CASE released[o] > 0 -> "done" [] o \in taxHold -> "deferred"
    [] captured[o] = 0 -> "refused" [] OTHER -> "post"

\* what onDelivered commits
PostDelivered(o) ==
  /\ released' = [released EXCEPT ![o] = IF Verdict(o) = "post" THEN @ + 1 ELSE @]
  /\ caseOpen' = IF Verdict(o) \in {"deferred", "refused"} THEN caseOpen \union {o} ELSE caseOpen

OnDelivered(o) ==
  /\ <<"delivered", o>> \in topic
  /\ PostDelivered(o)
  /\ IF Verdict(o) = "refused" THEN Nak(<<"delivered", o>>) ELSE Ack(<<"delivered", o>>)
  /\ UNCHANGED <<paymentState, fate, captured, escrowed, posted, reversed, reviewed, taxHold,
                 resolved, posting, postingHistory>>

DecideTax(o) ==
  /\ o \in taxHold
  /\ taxHold' = taxHold \ {o}
  /\ UNCHANGED <<paymentVars, fate, journalVars, reviewed, caseOpen, resolved, posting, dead, postingHistory>>

\* resolveReviewCase: the case, and nothing else
ResolveReview(o) ==
  /\ o \in caseOpen /\ Len(resolved) < scope.cases
  /\ caseOpen' = caseOpen \ {o}
  /\ resolved' = Append(resolved, o)
  /\ UNCHANGED <<paymentVars, fate, journalVars, reviewed, taxHold, posting, dead, postingHistory>>

\* Mutant: the case's order is posted by its resolution alone, never replayed.
ReplayedNone == {}
\* resolvedOrderReviews: the oldest resolved cases; a case stays resolved
Replayed == {resolved[i] : i \in {n \in DOMAIN resolved : n <= ReplayBatch}}

ReplayReview(o) ==
  /\ o \in Replayed /\ released[o] = 0
  /\ PostDelivered(o)
  /\ UNCHANGED <<paymentVars, fate, captured, escrowed, posted, reversed, reviewed, taxHold,
                 resolved, posting, dead, postingHistory>>

(***************************************************************************)
(* A cancelled order: an errand's escrow is released, to the rider for     *)
(* what was spent and to the customer's wallet for the rest.  An order     *)
(* that cannot be fetched, and one that is not an errand, move no money.   *)
(***************************************************************************)
OnAborted(o) ==
  /\ <<"cancelled", o>> \in topic
  /\ \/ /\ Ack(<<"cancelled", o>>)
        /\ escrowed' = [escrowed EXCEPT ![o] = IF o \in Errand /\ @ = 0 THEN 1 ELSE @]
        /\ UNCHANGED missed
     \/ /\ PaymentFails("ordersDown")
        /\ topic' = topic \ {<<"cancelled", o>>}
        /\ missed' = TRUE
        /\ UNCHANGED <<escrowed, dead>>
  /\ UNCHANGED <<paymentState, fate, captured, released, posted, reversed, reviewVars, posting, raced, early, shared>>

(***************************************************************************)
(* A refund: matched with the payment service's row, then sized by the     *)
(* hold, then posted or put under review.                                  *)
(***************************************************************************)
\* Mutant: a refund is matched by its row alone, whatever its status.
MatchesAny(r) == refund[r].status # "none"
Matches(r) == refund[r].status \in {"PROCESSED", "PROCESSING"}
MatchRefund(r) ==
  /\ <<"refund", r>> \in topic /\ posting[r] = NotPosting
  /\ IF posted[r] = 0 /\ Matches(r)
     THEN posting' = [posting EXCEPT ![r].at = "matched"] /\ UNCHANGED <<topic, dead, paymentFaults>>
     ELSE UNCHANGED posting /\ Ack(<<"refund", r>>)
  /\ UNCHANGED <<paymentState, fate, journalVars, reviewVars, postingHistory>>

ReadHeld(r) ==
  /\ posting[r].at = "matched"
  /\ posting' = [posting EXCEPT ![r] =
       [at |-> "read", held |-> Held(refund[r].order), final |-> released[refund[r].order] > 0]]
  /\ UNCHANGED <<paymentVars, fate, journalVars, reviewVars, dead, postingHistory>>

\* Mutant: the refund is taken from the order's hold whatever is left of it.
RefundPostingWhole(r) == refund[r].amount
\* nothing once the order is released or when nothing is held; a review then
RefundPosting(r) ==
  IF posting[r].final \/ posting[r].held <= 0 THEN 0
  ELSE IF refund[r].amount < posting[r].held THEN refund[r].amount ELSE posting[r].held

PostRefund(r) ==
  LET o == refund[r].order IN
  /\ posting[r].at = "read"
  /\ Ack(<<"refund", r>>)
  /\ posting' = [posting EXCEPT ![r] = NotPosting]
  /\ posted' = [posted EXCEPT ![r] = RefundPosting(r)]
  /\ reviewed' = IF RefundPosting(r) = 0 THEN reviewed \union {r} ELSE reviewed
  /\ raced' = IF ~Matches(r) THEN raced \union {r} ELSE raced
  /\ early' = IF RefundPosting(r) > 0 /\ released[o] = 0 THEN early \union {o} ELSE early
  /\ shared' = (shared \/ posting[r].held # Held(o))
  /\ UNCHANGED <<paymentState, fate, captured, released, escrowed, reversed, taxHold, caseOpen,
                 resolved, missed>>

\* a process that ends before it has posted has done nothing; its claim of the
\* envelope may keep the event from being handled again (ConsumerDelivery)
PostingCrash(r) ==
  /\ posting[r] # NotPosting
  /\ PaymentFails("crash")
  /\ posting' = [posting EXCEPT ![r] = NotPosting]
  /\ topic' \in {topic, topic \ {<<"refund", r>>}}
  /\ UNCHANGED <<paymentState, fate, journalVars, reviewVars, dead, postingHistory>>

\* what was posted under the refund's envelope, once
ToReverse(r) == posted[r] > 0 /\ r \notin reversed
\* the journal reference of a reversal is the order's, so a second one throws
ReversalClash(r) == \E q \in reversed : refund[q].order = refund[r].order

OnRefundFailed(r) ==
  /\ <<"refundFailed", r>> \in topic
  /\ IF ToReverse(r) /\ ReversalClash(r)
     THEN UNCHANGED reversed /\ Nak(<<"refundFailed", r>>)
     ELSE /\ reversed' = IF ToReverse(r) THEN reversed \union {r} ELSE reversed
          /\ Ack(<<"refundFailed", r>>)
  /\ UNCHANGED <<paymentState, fate, captured, released, escrowed, posted, reviewVars, posting, postingHistory>>

LedgerNext ==
  \/ \E m \in topic : OnChargeSucceeded(m)
  \/ \E o \in scope.orders : \/ \E end \in scope.ends : OrderEnds(o, end)
                             \/ OnDelivered(o) \/ DecideTax(o) \/ ResolveReview(o) \/ ReplayReview(o) \/ OnAborted(o)
  \/ \E r \in Refund : \/ MatchRefund(r) \/ ReadHeld(r) \/ PostRefund(r) \/ PostingCrash(r)
                       \/ OnRefundFailed(r)

MoneyInit == PaymentInit /\ LedgerInit
MoneyNext == (PaymentNext /\ UNCHANGED ledgerVars) \/ LedgerNext
MoneySpec == MoneyInit /\ [][MoneyNext]_moneyVars

\* the intervals come round, a webhook attempt and the replay go on
MoneyFairness ==
  /\ \A p \in Runner : WF_moneyVars((SweepCharge(p) \/ RunnerStep(p)) /\ UNCHANGED ledgerVars)
  /\ \A o \in Order : WF_moneyVars(ReplayReview(o))

(***************************************************************************)
(* Properties.                                                             *)
(***************************************************************************)
\* Nothing of the refund is on its way any more.
Quiet(r) ==
  /\ <<"refund", r>> \notin topic /\ <<"refundFailed", r>> \notin topic
  /\ posting[r] = NotPosting
  /\ \A p \in Runner : r \notin {runner[p].event, runner[p].row}

\* The journal and Paystack agree on a refund in the end ("on failure we mark
\* the row FAILED and publish PAYMENT_REFUND_FAILED so the ledger can
\* reverse").  Once its webhook is processed the row is final, unless the result
\* found no row yet or was written on another refund's; a failed refund stays in
\* the journal in three ways and no other: its failure was saved and the event
\* lost, it failed between the ledger's check and its posting, or another refund
\* of the order was reversed before.  The row that was given another's result is
\* the exception to both.  And no refund is booked that the payment service does
\* not have, for more than it has.
RefundsFollowRows ==
  \A r \in Refund :
    /\ posted[r] <= refund[r].amount
    /\ r \in reversed => posted[r] > 0 /\ (refund[r].status = "FAILED" \/ r \in mistaken)
    /\ refund[r].status = "PROCESSING" /\ hook[r].status = "processed" => r \in overtook
    /\ refund[r].status = "FAILED" /\ Quiet(r) /\ hook[r].status = "processed" =>
         \/ posted[r] = 0 \/ r \in reversed
         \/ r \in unsent \/ r \in raced \/ r \in mistaken \/ ReversalClash(r)

\* Money is booked once and in its order, whichever of the webhook, its retry
\* and the sweeper announced the charge and however often an event comes: a
\* charge is captured once and only when Paystack took it, an order is released
\* once and only after its capture.
CaptureThenRelease ==
  \A o \in Order : /\ captured[o] <= 1 /\ released[o] <= 1 /\ escrowed[o] <= 1
                   /\ captured[o] > 0 => pay = "SUCCESS" /\ charged
                   /\ released[o] > 0 => captured[o] > 0 /\ fate[o] = "delivered"

\* a row of the order was given another refund's result
Misattributed(o) == \E r \in mistaken : refund[r].order = o

\* Funds held for an order are never overdrawn, but by a release or an escrow
\* after a refund (neither looks at it), where two refunds were sized by the
\* same hold, or where a failed errand had never been paid; and, "cumulatively
\* capped", an order's refunds take together at most what it was charged, unless
\* two calls overlapped (each counts the rows there are) or a row of the order was
\* given another's result (its own may bring a failed row back).
RefundsCovered ==
  \A o \in Order : /\ Held(o) < 0 => \/ shared \/ (escrowed[o] > 0 /\ captured[o] = 0)
                                      \/ (o \in early /\ released[o] + escrowed[o] > 0)
                   /\ Outstanding(o) <= Total \/ crowded \/ Misattributed(o)

\* The books of an order's money: booked once and in its order, and covered;
\* and every row and posting well typed, the amounts natural numbers.
EscrowBooks == MoneyTypeOK /\ CaptureThenRelease /\ RefundsCovered

\* Money arrives.  A charge Paystack took is noticed, whether its webhook comes,
\* is retried until it is abandoned, or never comes: the sweeper asks.  And what a
\* case's resolution was waited for is posted when the decision is made
\* (replayResolvedTaxReviews), whatever fails or is repeated before: for the
\* oldest resolved cases, which are all the replay reads.
MoneyArrives ==
  /\ charged ~> pay = "SUCCESS"
  /\ \A o \in Order : ((\E i \in DOMAIN resolved : i <= ReplayBatch /\ resolved[i] = o)
                          /\ o \notin taxHold /\ captured[o] > 0) ~> released[o] > 0

\* "replayResolvedTaxReviews pays the money out once the decision is made"
\* (settleOrDefer): whichever place in the list the case has.
EveryResolvedIsPosted ==
  \A o \in Order : ((\E i \in DOMAIN resolved : resolved[i] = o) /\ o \notin taxHold /\ captured[o] > 0)
                     ~> released[o] > 0
=============================================================================
