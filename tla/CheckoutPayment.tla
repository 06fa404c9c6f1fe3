--------------------------- MODULE CheckoutPayment ---------------------------
(***************************************************************************)
(* The payment of one checkout (apps/payment): its charge, confirmed by    *)
(* Paystack's webhook or by the sweeper; the refunds of its orders, asked  *)
(* for by customers and admins and confirmed or refused by a webhook; the  *)
(* table of webhook events with its retry sweeper.                         *)
(*                                                                         *)
(* A webhook is acknowledged when its row is inserted and is handled after *)
(* that, so a crash leaves an open row; the sweeper runs an open row again *)
(* even when the first attempt is only slow.  Paystack is external: it     *)
(* charges, accepts refunds up to the whole charge, and later says what    *)
(* became of each.                                                         *)
(***************************************************************************)
EXTENDS Integers, FiniteSets, Functions

CONSTANTS
  Order,        \* orders of the checkout, each with one allocation
  Refund,       \* calls of refundOrder
  Runner,       \* webhook attempts and sweeps that may be under way together
  Total,        \* the amount allocated to an order
  RefundSum,    \* amounts a refund may ask for
  PaymentFault, \* faults that may happen, a subset of PaymentFaults
  MaxAttempts,  \* MAX_WEBHOOK_ATTEMPTS
  Scopes        \* bound: what may happen in a behaviour, see Scope

PaymentFaults == {"crash", "verifyDown", "ordersDown", "twice"}

\* A behaviour is bounded by its scope: does it begin with the charge captured,
\* which orders end or are refunded, how an order may end, which calls and
\* attempts are made, which orders have a tax treatment to decide, how many cases
\* are resolved and how many faults happen.
Scope == [paid : BOOLEAN, orders : SUBSET Order, ends : SUBSET {"delivered", "cancelled"},
          refunds : SUBSET Refund, runners : SUBSET Runner, tax : SUBSET Order, cases : Nat, faults : Nat]

ASSUME PaymentAssumption ==
  /\ IsFiniteSet(Order) /\ IsFiniteSet(Refund)
  /\ Total \in Nat \ {0} /\ RefundSum \subseteq Nat \ {0}
  /\ MaxAttempts \in Nat \ {0}
  /\ PaymentFault \subseteq PaymentFaults
  /\ {"charge", "sweep", "none"} \intersect Refund = {} /\ "none" \notin Order
  /\ Scopes \subseteq Scope

VARIABLES
  scope,     \* the bounds of this behaviour; never changes
  charged,   \* Paystack has taken the money
  pay,       \* status of the CheckoutPayment row
  refund,    \* the Refund rows
  pspRefund, \* Paystack's state and amount of each refund
  asking,    \* refundOrder calls under way
  notified,  \* webhooks Paystack has to deliver
  hook,      \* the WebhookEvent rows
  runner,    \* attempts under way
  topic,     \* events published and not yet acknowledged by the ledger
  crowded,   \* history: two refundOrder calls of one order overlapped
  overtook,  \* history: refunds whose result found no row, or another's
  mistaken,  \* history: rows that were given another refund's result
  unsent,    \* history: refunds whose failure was saved and not published
  paymentFaults \* how many faults have happened

rows == <<pay, refund, hook>>
paymentVars == <<scope, charged, pay, refund, pspRefund, asking, notified, hook, runner, topic,
                 crowded, overtook, mistaken, unsent, paymentFaults>>

\* the event id of the charge's webhook, and one of each refund's
Hook == {"charge"} \union Refund
Attending(at, e) == [at |-> at, event |-> e, row |-> "none"]
NoRefund == [order |-> "none", amount |-> 0, status |-> "none"]
NotAsking == [order |-> "none", amount |-> 0, at |-> "idle"]
IdleRunner == Attending("idle", "none")

PaymentTypeOK ==
  /\ scope \in Scopes
  /\ charged \in BOOLEAN
  /\ pay \in {"INITIATED", "SUCCESS"}
  /\ \A r \in Refund : refund[r].status \in {"none", "PROCESSING", "PROCESSED", "FAILED"}
  /\ \A r \in Refund : pspRefund[r].status \in {"none", "pending", "processed", "failed"}
  /\ \A r \in Refund : asking[r].at \in {"idle", "read", "processed", "pending"}
  /\ notified \subseteq Hook
  /\ hook \in [Hook -> [status : {"none", "open", "processed", "abandoned"}, attempts : 0..MaxAttempts]]
  /\ runner \in [Runner -> [at : {"idle", "run", "commit", "save", "publish", "mark", "fail"},
                            event : Hook \union {"none", "sweep"}, row : Refund \union {"none"}]]
  /\ {overtook, mistaken, unsent} \subseteq SUBSET Refund
  /\ paymentFaults \in 0..scope.faults

PaymentInit ==
  /\ scope \in Scopes
  /\ charged = scope.paid
  /\ pay = IF scope.paid THEN "SUCCESS" ELSE "INITIATED"
  /\ refund = [r \in Refund |-> NoRefund]
  /\ pspRefund = [r \in Refund |-> [status |-> "none", amount |-> 0]]
  /\ asking = [r \in Refund |-> NotAsking]
  /\ notified = {}
  /\ hook = [e \in Hook |-> [status |-> "none", attempts |-> 0]]
  /\ runner = [p \in Runner |-> IdleRunner]
  /\ topic = {}
  /\ crowded = FALSE /\ overtook = {} /\ mistaken = {} /\ unsent = {}
  /\ paymentFaults = 0

PaymentFails(kind) ==
  /\ kind \in PaymentFault /\ paymentFaults < scope.faults
  /\ paymentFaults' = paymentFaults + 1

(***************************************************************************)
(* The customer pays.                                                      *)
(***************************************************************************)
Charge ==
  /\ ~charged
  /\ charged' = TRUE
  /\ notified' = notified \union {"charge"}
  /\ UNCHANGED <<scope, rows, pspRefund, asking, runner, topic, crowded, overtook, mistaken, unsent, paymentFaults>>

(***************************************************************************)
(* refundOrder: one transaction that reads the outstanding refunds, calls  *)
(* Paystack, and inserts its row and its event at the end.                 *)
(***************************************************************************)
Outstanding(o) ==
  SumFunctionOnSet([r \in Refund |-> refund[r].amount],
                   {r \in Refund : refund[r].order = o /\ refund[r].status # "FAILED"})

\* what a call that asks for n gets
RefundAmount(o, n) == IF n < Total - Outstanding(o) THEN n ELSE Total - Outstanding(o)

BeginRefund(r, o, n) ==
  /\ asking[r] = NotAsking /\ refund[r] = NoRefund /\ pspRefund[r].status = "none"
  /\ RefundAmount(o, n) > 0
  /\ asking' = [asking EXCEPT ![r] = [order |-> o, amount |-> RefundAmount(o, n), at |-> "read"]]
  /\ crowded' = (crowded \/ \E q \in Refund : asking[q].order = o)
  /\ UNCHANGED <<scope, charged, rows, pspRefund, notified, runner, topic, overtook, mistaken, unsent, paymentFaults>>

PspRefunded == SumFunctionOnSet([r \in Refund |-> pspRefund[r].amount], {r \in Refund : pspRefund[r].status # "failed"})
PspAccepts(r) == charged /\ PspRefunded + asking[r].amount <= Cardinality(Order) * Total

CallRefund(r) ==
  /\ asking[r].at = "read"
  /\ \/ /\ PspAccepts(r)
        /\ \E answer \in {"processed", "pending"} :
             /\ pspRefund' = [pspRefund EXCEPT ![r] = [status |-> answer, amount |-> asking[r].amount]]
             /\ asking' = [asking EXCEPT ![r].at = answer]
             /\ notified' = IF answer = "processed" THEN notified \union {r} ELSE notified
     \/ /\ ~PspAccepts(r)
        /\ asking' = [asking EXCEPT ![r] = NotAsking]
        /\ UNCHANGED <<pspRefund, notified>>
  /\ UNCHANGED <<scope, charged, rows, runner, topic, crowded, overtook, mistaken, unsent, paymentFaults>>

CommitRefund(r) ==
  /\ asking[r].at \in {"processed", "pending"}
  /\ refund' = [refund EXCEPT ![r] =
       [order |-> asking[r].order, amount |-> asking[r].amount,
        status |-> IF asking[r].at = "processed" THEN "PROCESSED" ELSE "PROCESSING"]]
  /\ topic' = topic \union {<<"refund", r>>}
  /\ asking' = [asking EXCEPT ![r] = NotAsking]
  /\ UNCHANGED <<scope, charged, pay, hook, pspRefund, notified, runner, crowded, overtook, mistaken, unsent, paymentFaults>>

PspRefundEnds(r) ==
  /\ pspRefund[r].status = "pending"
  /\ \E end \in {"processed", "failed"} : pspRefund' = [pspRefund EXCEPT ![r].status = end]
  /\ notified' = notified \union {r}
  /\ UNCHANGED <<scope, charged, rows, asking, runner, topic, crowded, overtook, mistaken, unsent, paymentFaults>>

(***************************************************************************)
(* The webhook: insert the row, answer, then process.                      *)
(***************************************************************************)
\* another delivery of the event id is refused by the unique index: no change; so is
\* a notification whose id is that of another, which then is one that never comes
HandleWebhook(p, e) ==
  /\ e \in notified /\ hook[e].status = "none"
  /\ runner[p] = IdleRunner
  /\ notified' = notified \ {e}
  /\ hook' = [hook EXCEPT ![e].status = "open"]
  /\ runner' = [runner EXCEPT ![p] = Attending("run", e)]
  /\ UNCHANGED <<scope, charged, pay, refund, pspRefund, asking, topic, crowded, overtook, mistaken, unsent, paymentFaults>>

Stuck(e) == hook[e].status = "open"
RetryStuckWebhook(p, e) ==
  /\ runner[p] = IdleRunner /\ Stuck(e)
  /\ runner' = [runner EXCEPT ![p] = Attending("run", e)]
  /\ UNCHANGED <<scope, charged, rows, pspRefund, asking, notified, topic, crowded, overtook, mistaken, unsent, paymentFaults>>

Stale == pay = "INITIATED" /\ charged
\* reconcileStale asks Paystack for the payments that stay INITIATED
SweepCharge(p) ==
  /\ runner[p] = IdleRunner /\ Stale
  /\ \A q \in Runner : runner[q].event # "sweep"
  /\ runner' = [runner EXCEPT ![p] = Attending("run", "sweep")]
  /\ UNCHANGED <<scope, charged, rows, pspRefund, asking, notified, topic, crowded, overtook, mistaken, unsent, paymentFaults>>

Goto(p, at) == runner' = [runner EXCEPT ![p].at = at]
\* the sweeper has no row to mark, and leaves a failure for its next turn
Done(p) == IF runner[p].event = "sweep" THEN runner' = [runner EXCEPT ![p] = IdleRunner] ELSE Goto(p, "mark")

\* handleChargeSuccess reads the payment and asks Paystack
RunCharge(p) ==
  /\ runner[p].at = "run" /\ runner[p].event \in {"charge", "sweep"}
  /\ \/ /\ pay = "SUCCESS" /\ Done(p) /\ UNCHANGED paymentFaults
     \/ /\ pay = "INITIATED" /\ Goto(p, "commit") /\ UNCHANGED paymentFaults
     \/ /\ pay = "INITIATED" /\ PaymentFails("verifyDown") /\ Goto(p, "fail")
  /\ UNCHANGED <<scope, charged, rows, pspRefund, asking, notified, topic, crowded, overtook, mistaken, unsent>>

\* the envelope is named after the webhook's event id
CommitCharge(p) ==
  /\ runner[p].at = "commit"
  /\ pay' = "SUCCESS"
  /\ topic' = topic \union {<<"charge", runner[p].event>>}
  /\ Done(p)
  /\ UNCHANGED <<scope, charged, refund, hook, pspRefund, asking, notified, crowded, overtook, mistaken, unsent, paymentFaults>>

\* finalizeRefundFromWebhook: the row with the reference the webhook carries,
\* if there is one, else any refund of the payment with the amount it carries; a
\* webhook may carry neither.  No row, or a final one, is the end of it.
RunRefund(p) ==
  LET r == runner[p].event IN
  /\ runner[p].at = "run" /\ r \in Refund
  /\ \/ /\ refund[r].status = "none"
        /\ Goto(p, "mark")
        /\ overtook' = overtook \union {r}
        /\ UNCHANGED mistaken
     \/ \E q \in Refund :
          /\ refund[q].status # "none"
          /\ IF refund[q].status = "PROCESSING"
             THEN /\ runner' = [runner EXCEPT ![p] = [at |-> "save", event |-> r, row |-> q]]
                  /\ mistaken' = IF q # r THEN mistaken \union {q} ELSE mistaken
             ELSE Goto(p, "mark") /\ UNCHANGED mistaken
          /\ overtook' = IF q # r THEN overtook \union {r} ELSE overtook
  /\ UNCHANGED <<scope, charged, rows, pspRefund, asking, notified, topic, crowded, unsent, paymentFaults>>

\* the row is saved by itself; the failure is published after it
SaveRefund(p) ==
  /\ runner[p].at = "save"
  /\ LET failed == pspRefund[runner[p].event].status = "failed"
     IN /\ refund' = [refund EXCEPT ![runner[p].row].status = IF failed THEN "FAILED" ELSE "PROCESSED"]
        /\ Goto(p, IF failed THEN "publish" ELSE "mark")
  /\ UNCHANGED <<scope, charged, pay, hook, pspRefund, asking, notified, topic, crowded, overtook, mistaken, unsent, paymentFaults>>

PublishRefundFailed(p) ==
  /\ runner[p].at = "publish"
  /\ topic' = topic \union {<<"refundFailed", runner[p].row>>}
  /\ Goto(p, "mark")
  /\ UNCHANGED <<scope, charged, rows, pspRefund, asking, notified, crowded, overtook, mistaken, unsent, paymentFaults>>

MarkEventProcessed(p) ==
  /\ runner[p].at = "mark"
  /\ hook' = [hook EXCEPT ![runner[p].event].status = "processed"]
  /\ runner' = [runner EXCEPT ![p] = IdleRunner]
  /\ UNCHANGED <<scope, charged, pay, refund, pspRefund, asking, notified, topic, crowded, overtook, mistaken, unsent, paymentFaults>>

RecordFailure(p) ==
  /\ runner[p].at = "fail"
  /\ LET e == runner[p].event
     IN IF e = "sweep" THEN UNCHANGED hook
        ELSE hook' = [hook EXCEPT ![e] =
               [status |-> IF @.attempts + 1 >= MaxAttempts /\ @.status = "open" THEN "abandoned" ELSE @.status,
                attempts |-> IF @.attempts < MaxAttempts THEN @.attempts + 1 ELSE @.attempts]]
  /\ runner' = [runner EXCEPT ![p] = IdleRunner]
  /\ UNCHANGED <<scope, charged, pay, refund, pspRefund, asking, notified, topic, crowded, overtook, mistaken, unsent, paymentFaults>>

\* the process ends: an open transaction leaves nothing in the database
PaymentCrash ==
  /\ PaymentFails("crash")
  /\ \/ \E p \in Runner :
          /\ runner[p] # IdleRunner
          /\ runner' = [runner EXCEPT ![p] = IdleRunner]
          /\ unsent' = IF runner[p].at = "publish" THEN unsent \union {runner[p].row} ELSE unsent
          /\ UNCHANGED asking
     \/ \E r \in Refund :
          /\ asking[r] # NotAsking
          /\ asking' = [asking EXCEPT ![r] = NotAsking]
          /\ UNCHANGED <<runner, unsent>>
  /\ UNCHANGED <<scope, charged, rows, pspRefund, notified, topic, crowded, overtook, mistaken>>

RunnerStep(p) ==
  \/ RunCharge(p) \/ CommitCharge(p) \/ RunRefund(p) \/ SaveRefund(p) \/ PublishRefundFailed(p)
  \/ MarkEventProcessed(p) \/ RecordFailure(p)

PaymentNext ==
  \/ Charge
  \/ \E r \in scope.refunds : \/ \E o \in scope.orders, n \in RefundSum : BeginRefund(r, o, n)
                              \/ CallRefund(r) \/ CommitRefund(r) \/ PspRefundEnds(r)
  \/ \E p \in scope.runners : \/ \E e \in Hook : HandleWebhook(p, e) \/ RetryStuckWebhook(p, e)
                              \/ SweepCharge(p) \/ RunnerStep(p)
  \/ PaymentCrash
=============================================================================
