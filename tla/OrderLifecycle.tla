--------------------------- MODULE OrderLifecycle ---------------------------
(***************************************************************************)
(* One order of the order service (apps/order/src/order.service.ts): its   *)
(* row, the handlers that move it (vendor, customer and admin requests,    *)
(* jobs, consumers of payment and dispatch events), its stock reservation  *)
(* in the catalog, and the part of dispatch the order talks to.            *)
(*                                                                         *)
(* A handler reads the order and checks it, and then runs a fixed sequence *)
(* of awaited operations, its plan.  Handlers run concurrently, without a  *)
(* lock or a version column, and interleave at every await: a handler may  *)
(* save a row it read before another handler's save ("overwrite" below).   *)
(* save() of an entity writes every column that differs from the row.      *)
(*                                                                         *)
(* Not modelled: gifts (AWAITING_RECIPIENT), the two legs of a laundry     *)
(* order, the shopping steps of an errand, forced transitions by an admin, *)
(* and wrong OTPs.                                                         *)
(***************************************************************************)
EXTENDS Naturals, Sequences

CONSTANTS
  Handler,   \* handler invocations that may run at the same time
  Rider,     \* riders; each is assigned once at most
  None,      \* no rider, no message
  Kinds,     \* kinds of order, a subset of {"vendor", "request"}; a request is an errand
             \* or a parcel, which no vendor accepts
  Fault      \* faults that may happen, each once

AllFaults == {"crash", "catalogError"}

ASSUME OrderAssumption ==
  /\ None \notin Rider
  /\ Kinds \subseteq {"vendor", "request"}
  /\ Fault \subseteq AllFaults

VARIABLES
  order,     \* the row: its status and riderId
  kind,      \* "vendor" or "request"
  prepaid,   \* paid through the payment service, not cash on delivery
  paid,      \* the payment service says the checkout is SUCCESS
  stock,     \* the reservation in the catalog
  jobs,      \* jobs scheduled and not fired
  announced, \* how often each event was published, up to Cap
  mail,      \* events for the order service it has not consumed
  offered,   \* dispatch has offers of the order out
  assigned,  \* rider of the ACTIVE assignment
  served,    \* riders that have had an assignment
  reported,  \* what the rider has reported: each report once (a bound)
  plan,      \* operations each handler has still to do
  step,      \* within the first of them: "next", "stock" or "save"
  snap,      \* the row as the handler read it
  source,    \* the event the handler consumes
  rescue,    \* the handler releases the stock if it fails (catch block of accept)
  happened   \* faults, "overwrite" and "backInQueue", when they have happened

orderVars    == <<order, kind, prepaid, stock, jobs, announced>>
dispatchVars == <<offered, assigned, served, reported>>
handlerVars  == <<plan, step, snap, source, rescue>>
vars == <<order, kind, prepaid, paid, stock, jobs, announced, mail, offered, assigned, served,
          reported, plan, step, snap, source, rescue, happened>>

Machine == INSTANCE OrderMachine
             WITH status <- order.status, Initial <- {"PENDING_PAYMENT", "CONFIRMED"}

Row == [status : Machine!OrderStatus, rider : Rider \union {None}]
NoRow == [status |-> "CANCELLED", rider |-> None]   \* a snapshot nobody uses

\* Events other services act on (order.confirmed only notifies).
Announcement == {"ACCEPTED", "READY_FOR_PICKUP", "PICKED_UP", "OUT_FOR_DELIVERY",
 "DELIVERED", "CANCELLED", "REJECTED"}
\* Events that transition() and confirmOtp publish, "exactly once".
Lifecycle    == {"PICKED_UP", "OUT_FOR_DELIVERY", "DELIVERED"}
Cap(event)   == IF event \in Lifecycle THEN 2 ELSE 1
Job     == {"payment-timeout", "accept-timeout", "auto-ready"}
Report  == {"rider_at_vendor", "rider_picked_up"}
Message == [about : {"charge_succeeded", "waiting_for_rider"}, rider : {None}]
    \union [about : {"rider_assigned", "rider_en_route", "rider_at_vendor", "rider_picked_up",
                     "rider_unassigned"}, rider : Rider]

-----------------------------------------------------------------------------
(* The operations a plan is made of *)

move(to)        == [do |-> "move", arg |-> to]            \* transition(id, to)
deliver         == [do |-> "deliver", arg |-> "DELIVERED"]
stepOut         == [do |-> "stepOut", arg |-> None]       \* stepToOutForDelivery
cancelActive    == [do |-> "cancelActive", arg |-> None]  \* cancelSystem
save(r)         == [do |-> "save", arg |-> r]             \* orders.save with riderId r
publish(event)  == [do |-> "publish", arg |-> event]
schedule(job)   == [do |-> "schedule", arg |-> job]
cancelJob(job)  == [do |-> "cancelJob", arg |-> job]
reserve         == [do |-> "reserve", arg |-> None]
release         == [do |-> "release", arg |-> None]

Operation == {move(s) : s \in Machine!OrderStatus} \union {save(r) : r \in Rider \union {None}}
    \union {publish(e) : e \in Announcement}
    \union {schedule(j) : j \in Job} \union {cancelJob(j) : j \in Job}
    \union {deliver, stepOut, cancelActive, reserve, release}

TypeOK ==
  /\ order     \in Row
  /\ kind      \in Kinds
  /\ prepaid   \in BOOLEAN
  /\ paid      \in BOOLEAN
  /\ stock     \in {"none", "reserved", "consumed"}
  /\ jobs      \subseteq Job
  /\ \A e \in DOMAIN announced : announced[e] \in 0..Cap(e)
  /\ DOMAIN announced = Announcement
  /\ mail      \subseteq Message
  /\ offered   \in BOOLEAN
  /\ assigned  \in Rider \union {None}
  /\ served    \subseteq Rider
  /\ reported  \subseteq Report
  /\ plan      \in [Handler -> Seq(Operation)]
  /\ step      \in [Handler -> {"next", "stock", "save"}]
  /\ snap      \in [Handler -> Row]
  /\ source    \in [Handler -> Message \union {None}]
  /\ rescue    \in [Handler -> BOOLEAN]
  /\ happened  \subseteq Fault \union {"overwrite", "backInQueue"}
  /\ \A h \in Handler : plan[h] = <<>> => step[h] = "next" /\ source[h] = None

\* A prepaid order waits for its payment, a COD order (vendor orders only) is
\* confirmed; a charge_succeeded event may already be under way, with or
\* without a payment.
Init ==
  /\ kind    \in Kinds
  /\ prepaid \in IF kind = "vendor" THEN BOOLEAN ELSE {TRUE}
  /\ order   = [status |-> IF prepaid THEN "PENDING_PAYMENT" ELSE "CONFIRMED", rider |-> None]
  /\ jobs    = IF prepaid THEN {"payment-timeout"} ELSE {"accept-timeout"}
  /\ mail    \in {{}, {[about |-> "charge_succeeded", rider |-> None]}}
  /\ paid = FALSE /\ stock = "none" /\ offered = FALSE /\ assigned = None /\ served = {}
  /\ reported = {}
  /\ announced = [e \in Announcement |-> 0]
  /\ plan   = [h \in Handler |-> <<>>]
  /\ step   = [h \in Handler |-> "next"]
  /\ snap   = [h \in Handler |-> NoRow]
  /\ source = [h \in Handler |-> None]
  /\ rescue = [h \in Handler |-> FALSE]
  /\ happened = {}

-----------------------------------------------------------------------------
(* Handlers begin *)

Doing(h, what) == plan[h] # <<>> /\ step[h] = "next" /\ Head(plan[h]).do = what
Arg(h) == Head(plan[h]).arg

\* An idle handler reads the row, passes its guard, and has a plan.  The row
\* is kept only for a plan that saves it.
Begin(h, operations) ==
  /\ plan[h] = <<>>
  /\ plan' = [plan EXCEPT ![h] = operations]
  /\ snap' = [snap EXCEPT ![h] = IF operations # <<>> /\ operations[1].do = "save"
                                   THEN order ELSE NoRow]
  /\ UNCHANGED <<step, rescue>>

Request(h, from, operations) ==
  /\ order.status \in from
  /\ Begin(h, operations)
  /\ UNCHANGED <<orderVars, paid, mail, source, dispatchVars, happened>>

Accept(h) ==
  /\ kind = "vendor"
  /\ Request(h, {"CONFIRMED"},
       <<reserve, cancelJob("accept-timeout"), move("ACCEPTED"), move("PREPARING"),
         schedule("auto-ready"), publish("ACCEPTED")>>)

\* cancelByCustomer checks canTransition, cancelByAdmin the active statuses.
ActiveStatus == Machine!OrderStatus \
  {"AWAITING_RECIPIENT", "DELIVERED", "CANCELLED", "REJECTED", "FAILED_DELIVERY"}
Cancellable == {s \in Machine!OrderStatus : Machine!canTransition(s, "CANCELLED")}

Reject(h) ==
  /\ kind = "vendor"
  /\ Request(h, {"CONFIRMED"}, <<cancelJob("accept-timeout"), move("REJECTED"), publish("REJECTED")>>)

MarkReady(h) ==
  Request(h, {"PREPARING", "ACCEPTED"},
    <<cancelJob("auto-ready"), move("READY_FOR_PICKUP"), publish("READY_FOR_PICKUP")>>)

Delay(h) ==
  Request(h, {"PREPARING", "ACCEPTED"},
    <<save(order.rider), cancelJob("auto-ready"), schedule("auto-ready")>>)

Cancel(h) ==
  Request(h, ActiveStatus \union Cancellable, <<move("CANCELLED"), publish("CANCELLED")>>)

ConfirmOtp(h) ==
  /\ order.rider # None
  /\ Request(h, Machine!OrderStatus, <<deliver>>)

\* A job fires once; it leaves the queue whatever becomes of it.
Fire(h, job, from, operations) ==
  /\ job \in jobs
  /\ Begin(h, IF order.status \in from THEN operations ELSE <<>>)
  /\ jobs' = jobs \ {job}
  /\ UNCHANGED <<order, kind, prepaid, stock, announced, paid, mail, source, dispatchVars, happened>>

PaymentTimeout(h) == Fire(h, "payment-timeout", {"PENDING_PAYMENT"}, <<cancelActive>>)
AcceptTimeout(h)  == Fire(h, "accept-timeout", {"CONFIRMED"}, <<cancelActive>>)
AutoReady(h) ==
  Fire(h, "auto-ready", {"PREPARING"}, <<move("READY_FOR_PICKUP"), publish("READY_FOR_PICKUP")>>)

\* Mutant of ConfirmOnPayment: the timeout is scheduled before the order is
\* confirmed.
ScheduleFirst ==
  IF ~paid \/ order.status # "PENDING_PAYMENT" THEN <<>>
  ELSE <<save(order.rider), schedule("accept-timeout"), move("CONFIRMED")>>

\* What the handler of an event does with it, given the row it reads.
ConfirmOnPayment ==
  IF ~paid \/ order.status # "PENDING_PAYMENT" THEN <<>>
  ELSE <<save(order.rider), move("CONFIRMED"), schedule("accept-timeout")>>
       \o IF kind = "request"
            THEN <<cancelJob("accept-timeout"), move("READY_FOR_PICKUP"), publish("READY_FOR_PICKUP")>>
            ELSE <<>>

OnRiderAssigned(r) ==
  <<save(r)>> \o IF order.status \in {"READY_FOR_PICKUP", "WAITING_FOR_RIDER"}
                   THEN <<move("RIDER_ASSIGNED")>> ELSE <<>>

OnRiderEnRoute ==
  IF order.status = "RIDER_ASSIGNED" THEN <<move("RIDER_EN_ROUTE_TO_VENDOR")>> ELSE <<>>

\* Both tests are of the row it read first: one hop at a time.
OnRiderAtVendor ==
  CASE order.status = "RIDER_ASSIGNED"           -> <<move("RIDER_EN_ROUTE_TO_VENDOR")>>
    [] order.status = "RIDER_EN_ROUTE_TO_VENDOR" -> <<move("RIDER_AT_VENDOR")>>
    [] OTHER -> <<>>

OnRiderPickedUp == <<stepOut>>

OnRiderUnassigned ==
  <<save(None)>> \o IF order.status \in {"RIDER_ASSIGNED", "RIDER_EN_ROUTE_TO_VENDOR"}
                      THEN <<move("READY_FOR_PICKUP")>> ELSE <<>>

OnWaitingForRider ==
  IF order.status = "READY_FOR_PICKUP" THEN <<move("WAITING_FOR_RIDER")>> ELSE <<>>

Handle(m) ==
  CASE m.about = "charge_succeeded"  -> ConfirmOnPayment
    [] m.about = "rider_assigned"    -> OnRiderAssigned(m.rider)
    [] m.about = "rider_en_route"    -> OnRiderEnRoute
    [] m.about = "rider_at_vendor"   -> OnRiderAtVendor
    [] m.about = "rider_picked_up"   -> OnRiderPickedUp
    [] m.about = "rider_unassigned"  -> OnRiderUnassigned
    [] m.about = "waiting_for_rider" -> OnWaitingForRider

\* The events of one subject are consumed one at a time, those of different
\* subjects in any order.
Consume(h, m) ==
  /\ m \in mail
  /\ \A q \in Handler : source[q] # None => source[q].about # m.about
  /\ Begin(h, Handle(m))
  /\ mail'   = mail \ {m}
  /\ source' = [source EXCEPT ![h] = IF Handle(m) = <<>> THEN None ELSE m]
  /\ UNCHANGED <<orderVars, paid, dispatchVars, happened>>

-----------------------------------------------------------------------------
(* Handlers run *)

\* The handler goes on with the given operations, or is done.
Continue(h, operations) ==
  /\ plan'   = [plan EXCEPT ![h] = operations]
  /\ step'   = [step EXCEPT ![h] = "next"]
  /\ snap'   = [snap EXCEPT ![h] = NoRow]
  /\ source' = [source EXCEPT ![h] = IF operations = <<>> THEN None ELSE @]
  /\ rescue' = [rescue EXCEPT ![h] = IF operations = <<>> THEN FALSE ELSE @]

Rest(h) == Tail(plan[h])

\* Mutant of Throw: accept has no catch block.
ThrowOnly(h) ==
  /\ Continue(h, <<>>)
  /\ mail' = IF source[h] = None THEN mail ELSE mail \union {source[h]}

\* The handler throws: an event goes back to be delivered again, a request
\* fails, a job is not tried again; accept gives the stock back.
Throw(h) ==
  /\ Continue(h, IF rescue[h] THEN <<release>> ELSE <<>>)
  /\ mail' = IF source[h] = None THEN mail ELSE mail \union {source[h]}

Counted(events) == [e \in Announcement |->
  IF e \in events /\ announced[e] < Cap(e) THEN announced[e] + 1 ELSE announced[e]]

Publish(h) ==
  /\ Doing(h, "publish")
  /\ announced' = Counted({Arg(h)})
  /\ Continue(h, Rest(h))
  /\ UNCHANGED <<order, kind, prepaid, paid, stock, jobs, mail, dispatchVars, happened>>

ScheduleJob(h) ==
  /\ \/ Doing(h, "schedule")  /\ jobs' = jobs \union {Arg(h)}
     \/ Doing(h, "cancelJob") /\ jobs' = jobs \ {Arg(h)}
  /\ Continue(h, Rest(h))
  /\ UNCHANGED <<order, kind, prepaid, paid, stock, announced, mail, dispatchVars, happened>>

\* Writes the row the handler read, with the changes; records it if the row
\* has changed since, or if the order is on its way and goes back to the queue.
Write(h, row) ==
  /\ order'    = row
  /\ happened' = happened
       \union (IF order = snap[h] THEN {} ELSE {"overwrite"})
       \union (IF snap[h].status = "OUT_FOR_DELIVERY" /\ row.status = "READY_FOR_PICKUP"
                 THEN {"backInQueue"} ELSE {})

SaveSnapshot(h) ==
  /\ Doing(h, "save")
  /\ Write(h, [snap[h] EXCEPT !.rider = Arg(h)])
  /\ Continue(h, Rest(h))
  /\ UNCHANGED <<kind, prepaid, paid, stock, jobs, announced, mail, dispatchVars>>

\* The catalog: reserve and consume do nothing to a reservation that is
\* already there or not there; release returns what is reserved.
Reserved == IF stock = "none" THEN "reserved" ELSE stock
Consumed == IF stock = "reserved" THEN "consumed" ELSE stock
Released == IF stock = "reserved" THEN "none" ELSE stock

CatalogError == "catalogError" \in Fault \ happened /\ happened' = happened \union {"catalogError"}

Reserve(h) ==
  /\ Doing(h, "reserve")
  /\ \/ /\ stock'  = Reserved
        /\ plan'   = [plan EXCEPT ![h] = Rest(h)]
        /\ rescue' = [rescue EXCEPT ![h] = TRUE]
        /\ UNCHANGED <<step, snap, source, mail, happened>>
     \/ CatalogError /\ Throw(h) /\ UNCHANGED stock
  /\ UNCHANGED <<order, kind, prepaid, paid, jobs, announced, dispatchVars>>

\* The release of accept's catch block; its failure is swallowed.
ReleaseStock(h) ==
  /\ Doing(h, "release")
  /\ \/ stock' = Released /\ UNCHANGED happened
     \/ CatalogError /\ UNCHANGED stock
  /\ Continue(h, Rest(h))
  /\ UNCHANGED <<order, kind, prepaid, paid, jobs, announced, mail, dispatchVars>>

\* transition() reads the row; so do the transitions of confirmOtp, whose
\* transaction commits them together.
\* Mutant of Allowed: a cancellation is always allowed.
AllowedToCancel(h) == IF Head(plan[h]).do = "deliver" THEN order.status \in Machine!OnTheWay
  ELSE Arg(h) = "CANCELLED" \/ Machine!canTransition(order.status, Arg(h))

Allowed(h) == IF Head(plan[h]).do = "deliver" THEN order.status \in Machine!OnTheWay
                                              ELSE Machine!canTransition(order.status, Arg(h))
Picks(h)  == \/ Arg(h) = "PICKED_UP"
             \/ Arg(h) = "DELIVERED" /\ snap'[h].status \notin {"PICKED_UP", "OUT_FOR_DELIVERY"}
Aborts(h) == Arg(h) \in {"CANCELLED", "REJECTED"}

MoveRead(h) ==
  /\ Doing(h, "move") \/ Doing(h, "deliver")
  /\ IF order.status = Arg(h) /\ Doing(h, "move")
       THEN Continue(h, Rest(h)) /\ UNCHANGED mail
       ELSE IF ~Allowed(h)
       THEN Throw(h)
       ELSE /\ snap' = [snap EXCEPT ![h] = order]
            /\ step' = [step EXCEPT ![h] = IF Picks(h) \/ Aborts(h) THEN "stock" ELSE "save"]
            /\ UNCHANGED <<plan, source, rescue, mail>>
  /\ UNCHANGED <<orderVars, paid, dispatchVars, happened>>

Moved(h) == IF Aborts(h) THEN Released ELSE Consumed

\* ... calls the catalog when it picks up, cancels or rejects; the answer may be lost,
\* or the stock given back and the promotion not ...
MoveStock(h) ==
  /\ step[h] = "stock"
  /\ \/ /\ stock' = Moved(h)
        /\ step'  = [step EXCEPT ![h] = "save"]
        /\ UNCHANGED <<plan, snap, source, rescue, mail, happened>>
     \/ CatalogError /\ Throw(h) /\ stock' \in {stock, Moved(h)}
  /\ UNCHANGED <<order, kind, prepaid, paid, jobs, announced, dispatchVars>>

\* ... and saves it.  The events without a publisher of their own follow.
MoveSave(h) ==
  /\ step[h] = "save" /\ Head(plan[h]).do = "move"
  /\ Write(h, [snap[h] EXCEPT !.status = Arg(h)])
  /\ Continue(h, (IF Arg(h) \in {"PICKED_UP", "OUT_FOR_DELIVERY"} THEN <<publish(Arg(h))>> ELSE <<>>)
                 \o Rest(h))
  /\ UNCHANGED <<kind, prepaid, paid, stock, jobs, announced, mail, dispatchVars>>

\* Mutant of Passed: the events of the whole way.
PassedAll(s) == Lifecycle

\* The commit of confirmOtp: the statuses on the way, and their events.
Passed(s) == {"DELIVERED"}
    \union IF s = "OUT_FOR_DELIVERY" THEN {} ELSE {"OUT_FOR_DELIVERY"}
    \union IF s \in {"OUT_FOR_DELIVERY", "PICKED_UP"} THEN {} ELSE {"PICKED_UP"}

DeliverSave(h) ==
  /\ step[h] = "save" /\ Head(plan[h]).do = "deliver"
  /\ Write(h, [snap[h] EXCEPT !.status = "DELIVERED"])
  /\ announced' = Counted(Passed(snap[h].status))
  /\ Continue(h, Rest(h))
  /\ UNCHANGED <<kind, prepaid, paid, stock, jobs, mail, dispatchVars>>

\* stepToOutForDelivery: one read per round, then the hop it calls for.
Hops(s) ==
  CASE s = "RIDER_ASSIGNED"           -> <<move("RIDER_EN_ROUTE_TO_VENDOR"), stepOut>>
    [] s = "RIDER_EN_ROUTE_TO_VENDOR" -> <<move("RIDER_AT_VENDOR"), stepOut>>
    [] s = "RIDER_AT_VENDOR"          -> <<move("PICKED_UP"), move("OUT_FOR_DELIVERY"), stepOut>>
    [] s = "PICKED_UP"                -> <<move("OUT_FOR_DELIVERY"), stepOut>>
    [] OTHER                          -> <<>>

StepOut(h) ==
  /\ Doing(h, "stepOut")
  /\ Continue(h, Hops(order.status))
  /\ UNCHANGED <<orderVars, paid, mail, dispatchVars, happened>>

\* cancelSystem reads the row again.
CancelActive(h) ==
  /\ Doing(h, "cancelActive")
  /\ Continue(h, IF order.status \in ActiveStatus
                   THEN <<move("CANCELLED"), publish("CANCELLED")>> ELSE <<>>)
  /\ UNCHANGED <<orderVars, paid, mail, dispatchVars, happened>>

\* The process dies in the handler: what it has not done is not done.  The
\* event it consumed is claimed and not delivered again.
Crash(h) ==
  /\ plan[h] # <<>>
  /\ "crash" \in Fault \ happened
  /\ happened' = happened \union {"crash"}
  /\ Continue(h, <<>>)
  /\ UNCHANGED <<orderVars, paid, mail, dispatchVars>>

-----------------------------------------------------------------------------
(* Payment and dispatch *)

Send(about, r) == mail' = mail \union {[about |-> about, rider |-> r]}

\* The charge succeeds: the payment row and its event commit together.
ChargeSucceeds ==
  /\ prepaid /\ ~paid
  /\ paid' = TRUE
  /\ Send("charge_succeeded", None)
  /\ UNCHANGED <<orderVars, dispatchVars, handlerVars, happened>>

\* attemptDispatch, triggered by order.accepted (T-5) or order.ready_for_pickup.
Dispatchable == {"READY_FOR_PICKUP", "WAITING_FOR_RIDER", "CONFIRMED", "PREPARING"}

Offer ==
  /\ announced["ACCEPTED"] + announced["READY_FOR_PICKUP"] > 0
  /\ order.status \in Dispatchable
  /\ assigned = None /\ ~offered
  /\ \/ offered' = TRUE /\ UNCHANGED mail
     \/ Send("waiting_for_rider", None) /\ UNCHANGED offered
  /\ UNCHANGED <<orderVars, paid, assigned, served, reported, handlerVars, happened>>

AcceptOffer(r) ==
  /\ offered /\ r \notin served
  /\ offered'  = FALSE
  /\ assigned' = r
  /\ served'   = served \union {r}
  /\ Send("rider_assigned", r)
  /\ UNCHANGED <<reported, orderVars, paid, handlerVars, happened>>

\* releaseForOrder
ReleaseForOrder ==
  /\ offered' = FALSE
  /\ assigned' = None
  /\ IF assigned = None THEN UNCHANGED mail ELSE Send("rider_unassigned", assigned)
  /\ UNCHANGED <<orderVars, paid, served, reported, handlerVars, happened>>

ReleaseByRider ==
  /\ assigned # None
  /\ order.status \notin {"PICKED_UP", "OUT_FOR_DELIVERY", "OTP_VERIFIED", "DELIVERED"}
  /\ ReleaseForOrder

ReleaseAborted ==
  /\ announced["CANCELLED"] + announced["REJECTED"] > 0
  /\ offered \/ assigned # None
  /\ ReleaseForOrder

Reports(what, messages) ==
  /\ assigned # None /\ what \notin reported
  /\ reported' = reported \union {what}
  /\ mail' = mail \union [about : messages, rider : {assigned}]
  /\ UNCHANGED <<orderVars, paid, offered, assigned, served, handlerVars, happened>>

ConfirmPickup  == Reports("rider_picked_up", {"rider_picked_up", "rider_en_route"})
ArriveAtVendor == Reports("rider_at_vendor", {"rider_at_vendor"})

OnDelivered ==
  /\ announced["DELIVERED"] > 0
  /\ assigned # None
  /\ assigned' = None
  /\ UNCHANGED <<orderVars, paid, mail, offered, served, reported, handlerVars, happened>>

-----------------------------------------------------------------------------
Run(h) ==
  \/ Publish(h) \/ ScheduleJob(h) \/ SaveSnapshot(h) \/ Reserve(h) \/ ReleaseStock(h)
  \/ MoveRead(h) \/ MoveStock(h) \/ MoveSave(h) \/ DeliverSave(h)
  \/ StepOut(h) \/ CancelActive(h)

Start(h) ==
  \/ Accept(h) \/ Reject(h) \/ MarkReady(h) \/ Delay(h) \/ Cancel(h) \/ ConfirmOtp(h)
  \/ PaymentTimeout(h) \/ AcceptTimeout(h) \/ AutoReady(h)
  \/ \E m \in Message : Consume(h, m)

Dispatch ==
  \/ Offer \/ ReleaseByRider \/ ReleaseAborted \/ ConfirmPickup \/ ArriveAtVendor \/ OnDelivered
  \/ \E r \in Rider : AcceptOffer(r)

Next ==
  \/ \E h \in Handler : Start(h) \/ Run(h) \/ Crash(h)
  \/ ChargeSucceeds \/ Dispatch

Spec == Init /\ [][Next]_vars

-----------------------------------------------------------------------------
(* Properties *)

Overwritten == "overwrite" \in happened
BackInQueue == "backInQueue" \in happened
AtRest      == \A h \in Handler : plan[h] = <<>>

\* The status of the row changes along the transition table, whatever
\* handlers run at the same time, as long as no handler has saved a row that
\* changed after it was read (transition()).
LegalUnlessOverwritten == [][order.status' = order.status \/ Machine!Next \/ Overwritten']_vars

\* "the single source of truth for legal transitions" (state.ts): the status
\* changes along the table, without an exception for rows saved from a stale
\* read.
FollowsTheMachine == Machine!Spec

\* An order that is cancelled or rejected holds no stock and has been announced
\* as such to the refund and dispatch services once its handlers are done, also
\* when it was cancelled while the vendor accepted it; unless a handler crashed,
\* the catalog failed or a stale row was saved (accept, transition, cancelBy...).
AbortIsSettled ==
  AtRest /\ order.status \in {"CANCELLED", "REJECTED"} /\ happened = {}
    => stock # "reserved" /\ announced[order.status] > 0

\* An order that waits for its payment or for its vendor has a timeout
\* scheduled that will end the wait; unless a handler crashed, failed or saved
\* a stale row (createOrders, scheduleAcceptTimeout, the cancels of accept and
\* reject).  Only its payment or a cancellation ends a prepaid order's wait,
\* whatever events come (confirmOnPayment), and at every moment each handler
\* has what its place in its plan needs.
WaitIsTimed ==
  /\ TypeOK
  /\ AtRest /\ happened = {} =>
       /\ order.status = "PENDING_PAYMENT" => "payment-timeout" \in jobs
       /\ order.status = "CONFIRMED" => "accept-timeout" \in jobs
  /\ prepaid /\ order.status \notin {"PENDING_PAYMENT", "CANCELLED"} => paid

\* "every path through the machine fires them exactly once" (transition) and
\* "After PICKED_UP the machine forbids CANCELLED" (cancelByCustomer): picked up,
\* out for delivery and delivered, which pay for the order, are announced once at
\* most, and never for an order announced as cancelled, which refunds it, on
\* whichever paths rider events, jobs and the OTP race; unless a stale row was
\* saved or the order went back to the queue.
AnnouncedOnce ==
  ~Overwritten /\ ~BackInQueue =>
    /\ \A e \in Lifecycle : announced[e] <= 1
    /\ announced["CANCELLED"] = 0 \/ \A e \in Lifecycle : announced[e] = 0
=============================================================================
