---------------------------- MODULE DispatchOffers ----------------------------
(***************************************************************************)
(* Competitive dispatch (apps/dispatch/src/dispatch.service.ts): an order  *)
(* that is ready goes out to a wave of riders, each with an offer and a    *)
(* job that expires it; the first to accept gets the assignment; a wave    *)
(* that ends with no winner is followed by the next.                       *)
(*                                                                         *)
(* The handlers await the order service, the vendor and their own tables   *)
(* between a check and what they do about it, and save the entities they   *)
(* read.  Only the claim of an offer is a conditional update, and only the *)
(* index of the active assignments is unique.  A handler is taken in as    *)
(* many steps as another one may fall between.  Grouped orders, distances, *)
(* fees and the other reasons of eligibility are left out: the riders here *)
(* are eligible for both orders.  An order is "ready" as READY_FOR_PICKUP  *)
(* and as WAITING_FOR_RIDER.                                               *)
(***************************************************************************)
EXTENDS Naturals, FiniteSets

CONSTANTS
  Order, Rider,
  Handler,     \* handlers that may be under way together, numbered
  WaveSize,    \* offers of a wave
  MaxAttempt,  \* the attempt after which an empty pool is not retried
  ExcludeTimeouts, \* DISPATCH_EXCLUDE_TIMEOUTS
  MaxOffers,   \* bound: offers made
  DispatchFault, \* faults that may happen, a subset of DispatchFaults
  DispatchScopes \* bound: what may happen in a behaviour, see DispatchScope

DispatchFaults == {"crash", "location", "fetch"}

\* A behaviour is bounded by its scope: the orders that are ready, the riders
\* there are, the kinds of moves that riders, customers and admins make and how
\* many of them, how many faults, whether BullMQ keeps the jobs.
Move == {"answer", "task", "shift", "order", "admin"}
DispatchScope == [orders : SUBSET Order, riders : SUBSET Rider, kinds : SUBSET Move,
                  moves : Nat, faults : Nat, bullmq : BOOLEAN]

ASSUME DispatchAssumption ==
  /\ {WaveSize, MaxAttempt, MaxOffers} \subseteq Nat \ {0} /\ Handler \subseteq Nat
  /\ ExcludeTimeouts \in BOOLEAN
  /\ DispatchFault \subseteq DispatchFaults /\ DispatchScopes \subseteq DispatchScope

VARIABLES
  dispatchScope, \* the bounds of this behaviour; never changes
  order,     \* the order service: where the order is
  news,      \* events of dispatch the order service has yet to handle
  ended,     \* events cancelled and delivered dispatch has yet to handle
  offer,     \* the offers made, by number
  expiry,    \* offers with an expiry job
  retry,     \* dispatch jobs: an order and an attempt
  retried,   \* orders whose retry job was added before
  rider,     \* status of a rider
  active,    \* ACTIVE assignments: an order and a rider
  excluded,  \* riders excluded from an order
  handler,   \* handlers under way
  forgotten, \* history: orders given up, unread, dropped, released or paused away
  lost,      \* history: riders marked ASSIGNED whose assignment was refused
  stale,     \* history: riders whose status a save from a stale read changed
  pressed,   \* history: riders with two accepts under way, or assigned by an admin
  crashed,   \* history: a process ended
  moves, dispatchFaults \* counters of the bounds

tables == <<offer, expiry, retry, retried, rider, active, excluded>>
history == <<forgotten, lost, stale, pressed, crashed>>
bounds == <<dispatchScope, moves, dispatchFaults>>
dispatchVars == <<order, news, ended, tables, handler, history, bounds>>

Offers == 1..MaxOffers
NoOffer == [order |-> "none", rider |-> "none", attempt |-> 0, status |-> "none"]
Idle == [at |-> "idle", order |-> "none", rider |-> "none", offer |-> 0, attempt |-> 0, wave |-> {}]
Busy(at, o, r, i, k) == [at |-> at, order |-> o, rider |-> r, offer |-> i, attempt |-> k, wave |-> {}]

DispatchTypeOK ==
  /\ order \in [Order -> {"ready", "assigned", "out", "over"}]
  /\ news \subseteq {"assigned", "unassigned", "pickedUp"} \X Order
  /\ ended \subseteq {"cancelled", "delivered"} \X Order
  /\ \A i \in Offers : offer[i].status \in
       {"none", "PENDING", "ACCEPTED", "DECLINED", "EXPIRED", "SUPERSEDED"}
  /\ expiry \subseteq Offers
  /\ retry \subseteq Order \X (0..MaxAttempt) /\ retried \subseteq Order
  /\ rider \in [Rider -> {"AVAILABLE", "OFFERED", "ASSIGNED", "PICKED_UP", "PAUSED", "OFFLINE"}]
  /\ {active, excluded} \subseteq SUBSET (Order \X Rider)
  /\ \A h \in Handler : handler[h].at \in
       {"idle", "guard", "offer", "timer", "refuse", "claim", "assign", "lock", "adminLock",
        "supersede", "expire", "release", "next", "saveRider"}
  /\ dispatchScope \in DispatchScopes
  /\ moves \in 0..dispatchScope.moves /\ dispatchFaults \in 0..dispatchScope.faults

DispatchInit ==
  /\ dispatchScope \in DispatchScopes
  /\ order = [o \in Order |-> IF o \in dispatchScope.orders THEN "ready" ELSE "over"]
  /\ news = {} /\ ended = {}
  /\ offer = [i \in Offers |-> NoOffer]
  /\ expiry = {}
  /\ retry = dispatchScope.orders \X {0} /\ retried = {}
  /\ rider = [r \in Rider |-> IF r \in dispatchScope.riders THEN "AVAILABLE" ELSE "OFFLINE"]
  /\ active = {} /\ excluded = {}
  /\ handler = [h \in Handler |-> Idle]
  /\ forgotten = {} /\ lost = {} /\ stale = {} /\ pressed = {} /\ crashed = FALSE
  /\ moves = 0 /\ dispatchFaults = 0

Pending(o) == {i \in Offers : offer[i].status = "PENDING" /\ offer[i].order = o}
PendingOf(r) == {i \in Offers : offer[i].status = "PENDING" /\ offer[i].rider = r}
Assigned(o) == \E r \in Rider : <<o, r>> \in active
OnTask(r) == \E o \in Order : <<o, r>> \in active

Goto(h, at) == handler' = [handler EXCEPT ![h].at = at]
Ends(h) == handler' = [handler EXCEPT ![h] = Idle]
\* handlers are alike: the first that is idle takes the work
Starts(h, work) ==
  /\ handler[h] = Idle /\ \A g \in Handler : g < h => handler[g] # Idle
  /\ handler' = [handler EXCEPT ![h] = work]
Moves(kind) ==
  /\ kind \in dispatchScope.kinds /\ moves < dispatchScope.moves /\ moves' = moves + 1
  /\ UNCHANGED <<dispatchScope, dispatchFaults>>
DispatchFails(kind) ==
  /\ kind \in DispatchFault /\ dispatchFaults < dispatchScope.faults
  /\ dispatchFaults' = dispatchFaults + 1 /\ UNCHANGED <<dispatchScope, moves>>

\* Mutant: the riders of superseded offers are left as they are.
FreedNobody(gone) == rider
\* releaseOfferedRiderIfIdle for the riders of these offers
Freed(gone) ==
  [r \in Rider |-> IF /\ rider[r] = "OFFERED" /\ \E i \in gone : offer[i].rider = r
                      /\ PendingOf(r) \subseteq gone
                   THEN "AVAILABLE" ELSE rider[r]]
Superseded(gone) == [i \in Offers |-> IF i \in gone THEN [offer[i] EXCEPT !.status = "SUPERSEDED"] ELSE offer[i]]
Supersede(gone) ==
  /\ offer' = Superseded(gone)
  /\ expiry' = expiry \ gone

(***************************************************************************)
(* attemptDispatch: the guards and the pool, then rider by rider.          *)
(***************************************************************************)
StartJob(h, o, k) ==
  /\ <<o, k>> \in retry
  /\ retry' = retry \ {<<o, k>>}
  /\ Starts(h, Busy("guard", o, "none", 0, k))
  /\ UNCHANGED <<order, news, ended, offer, expiry, retried, rider, active, excluded, history, bounds>>

Dispatchable(o) == order[o] = "ready" /\ ~Assigned(o) /\ Pending(o) = {}
Pool(o) == {r \in Rider : rider[r] = "AVAILABLE" /\ <<o, r>> \notin excluded /\ ~OnTask(r)}
Waves(o) == {W \in SUBSET Pool(o) : Cardinality(W) =
               IF Cardinality(Pool(o)) < WaveSize THEN Cardinality(Pool(o)) ELSE WaveSize}

\* nobody can be asked: the job is retried up to the last attempt
RetriesEmptyPool(k) == k < MaxAttempt

\* Every retry of an order is scheduled under one job id.  In one process the
\* job replaces the one that waits; BullMQ drops an add whose id it knows, of a
\* job that waits, or runs (this one, perhaps), or is kept though it is done.
Retries(o) == {job \in retry : job[1] = o /\ job[2] > 0}
AddRetry(o, k) ==
  /\ retried' = retried \union {o}
  /\ \/ /\ ~dispatchScope.bullmq
        /\ retry' = (retry \ Retries(o)) \union {<<o, k>>} /\ UNCHANGED forgotten
     \/ /\ dispatchScope.bullmq /\ o \notin retried
        /\ retry' = retry \union {<<o, k>>} /\ UNCHANGED forgotten
     \/ /\ dispatchScope.bullmq /\ o \in retried
        /\ forgotten' = IF Retries(o) = {} THEN forgotten \union {<<"dropped", o>>} ELSE forgotten
        /\ UNCHANGED retry

\* an order that cannot be read is left alone
AttemptDispatch(h) ==
  LET o == handler[h].order k == handler[h].attempt IN
  /\ handler[h].at = "guard"
  /\ \/ /\ DispatchFails("fetch") /\ Ends(h)
        /\ forgotten' = forgotten \union {<<"unread", o>>} /\ UNCHANGED <<retry, retried>>
     \/ /\ ~Dispatchable(o) /\ Ends(h) /\ UNCHANGED <<retry, retried, forgotten, bounds>>
     \/ /\ Dispatchable(o) /\ Pool(o) = {} /\ Ends(h) /\ UNCHANGED bounds
        /\ IF RetriesEmptyPool(k)
           THEN AddRetry(o, k + 1)
           ELSE forgotten' = forgotten \union {<<"gaveUp", o>>} /\ UNCHANGED <<retry, retried>>
     \/ /\ Dispatchable(o) /\ Pool(o) # {}
        /\ \E W \in Waves(o) : handler' = [handler EXCEPT ![h].at = "offer", ![h].wave = W]
        /\ UNCHANGED <<retry, retried, forgotten, bounds>>
  /\ UNCHANGED <<order, news, ended, offer, expiry, rider, active, excluded, lost, stale, pressed, crashed>>

\* the rider read for the pool is saved OFFERED, whatever became of him, and
\* the offer inserted
CreateOffer(h) ==
  LET i == Cardinality({n \in Offers : offer[n] # NoOffer}) + 1 IN
  /\ handler[h].at = "offer" /\ i \in Offers
  /\ \E r \in handler[h].wave :
       /\ stale' = IF rider[r] # "AVAILABLE" THEN stale \union {r} ELSE stale
       /\ rider' = [rider EXCEPT ![r] = "OFFERED"]
       /\ offer' = [offer EXCEPT ![i] = [order |-> handler[h].order, rider |-> r,
                                         attempt |-> handler[h].attempt, status |-> "PENDING"]]
       /\ handler' = [handler EXCEPT ![h].at = "timer", ![h].offer = i, ![h].wave = @ \ {r}]
  /\ UNCHANGED <<order, news, ended, expiry, retry, retried, active, excluded, forgotten, lost, pressed, crashed, bounds>>

ScheduleExpiry(h) ==
  /\ handler[h].at = "timer"
  /\ expiry' = expiry \union {handler[h].offer}
  /\ IF handler[h].wave = {} THEN Ends(h) ELSE Goto(h, "offer")
  /\ UNCHANGED <<order, news, ended, offer, retry, retried, rider, active, excluded, history, bounds>>

(***************************************************************************)
(* acceptOffer: validate, claim the offer, mark the rider, insert the      *)
(* assignment, supersede the other offers.                                 *)
(***************************************************************************)
Eligible(o, r) == rider[r] \in {"AVAILABLE", "OFFERED"} /\ <<o, r>> \notin excluded /\ ~OnTask(r)

Accept(h, i) ==
  LET o == offer[i].order r == offer[i].rider IN
  /\ offer[i].status = "PENDING"
  /\ ~(Eligible(o, r) /\ Assigned(o))
  /\ Starts(h, Busy(IF Eligible(o, r) THEN "claim" ELSE "refuse", o, r, i, offer[i].attempt))
  /\ pressed' = IF \E g \in Handler : handler[g].rider = r /\ handler[g].at \in {"claim", "assign", "lock"}
                THEN pressed \union {r} ELSE pressed
  /\ Moves("answer")
  /\ UNCHANGED <<order, news, ended, tables, forgotten, lost, stale, crashed>>

RefuseAccept(h) ==
  LET i == handler[h].offer IN
  /\ handler[h].at = "refuse"
  /\ offer' = [offer EXCEPT ![i].status = "EXPIRED"]
  /\ expiry' = expiry \ {i}
  /\ rider' = Freed({i})
  /\ Goto(h, "next")
  /\ UNCHANGED <<order, news, ended, retry, retried, active, excluded, history, bounds>>

\* the conditional update found the offer still PENDING
Claimed(i) == offer[i].status = "PENDING"

ClaimOffer(h) ==
  LET i == handler[h].offer IN
  /\ handler[h].at = "claim"
  /\ IF Claimed(i) THEN offer' = [offer EXCEPT ![i].status = "ACCEPTED"] /\ Goto(h, "assign")
                   ELSE UNCHANGED offer /\ Ends(h)
  /\ UNCHANGED <<order, news, ended, expiry, retry, retried, rider, active, excluded, history, bounds>>

MarkAssigned(h) ==
  /\ handler[h].at = "assign"
  /\ rider' = [rider EXCEPT ![handler[h].rider] = "ASSIGNED"]
  /\ Goto(h, "lock")
  /\ UNCHANGED <<order, news, ended, offer, expiry, retry, retried, active, excluded, history, bounds>>

\* the unique index lets one ACTIVE assignment of an order through; the rider
\* who comes second stays ASSIGNED
InsertAssignment(h) ==
  LET o == handler[h].order r == handler[h].rider IN
  /\ handler[h].at \in {"lock", "adminLock"}
  /\ IF Assigned(o)
     THEN Ends(h) /\ lost' = lost \union {r} /\ UNCHANGED <<active, news>>
     ELSE /\ active' = active \union {<<o, r>>}
          /\ UNCHANGED lost
          /\ IF handler[h].at = "lock" THEN Goto(h, "supersede") /\ UNCHANGED news
                                       ELSE Ends(h) /\ news' = news \union {<<"assigned", o>>}
  /\ UNCHANGED <<order, ended, offer, expiry, retry, retried, rider, excluded, forgotten, stale, pressed, crashed, bounds>>

SupersedeOthers(h) ==
  LET o == handler[h].order IN
  /\ handler[h].at = "supersede"
  /\ offer' = Superseded(Pending(o) \ {handler[h].offer})
  /\ expiry' = expiry \ (Pending(o) \union {handler[h].offer})
  /\ rider' = Freed(Pending(o) \ {handler[h].offer})
  /\ news' = news \union {<<"assigned", o>>}
  /\ Ends(h)
  /\ UNCHANGED <<order, ended, retry, retried, active, excluded, history, bounds>>

(***************************************************************************)
(* An offer that is declined, or expires; then the next wave.              *)
(***************************************************************************)
Decline(h, i) ==
  /\ offer[i].status = "PENDING"
  /\ Starts(h, Busy("next", offer[i].order, offer[i].rider, i, offer[i].attempt))
  /\ offer' = [offer EXCEPT ![i].status = "DECLINED"]
  /\ rider' = Freed({i})
  /\ excluded' = excluded \union {<<offer[i].order, offer[i].rider>>}
  /\ Moves("answer")
  /\ UNCHANGED <<order, news, ended, expiry, retry, retried, active, history>>

\* Mutant: an offer whose rider is not OFFERED any more is passed over.
ExpiresIfOffered(i) == offer[i].status = "PENDING" /\ rider[offer[i].rider] = "OFFERED"
Expires(i) == offer[i].status = "PENDING"

OfferExpiry(h, i) ==
  /\ i \in expiry
  /\ expiry' = expiry \ {i}
  /\ IF Expires(i)
     THEN Starts(h, Busy("expire", offer[i].order, offer[i].rider, i, offer[i].attempt))
     ELSE UNCHANGED handler
  /\ UNCHANGED <<order, news, ended, offer, retry, retried, rider, active, excluded, history, bounds>>

\* saved whatever became of it since it was read
SaveExpired(h) ==
  LET i == handler[h].offer IN
  /\ handler[h].at = "expire"
  /\ offer' = [offer EXCEPT ![i].status = "EXPIRED"]
  /\ excluded' = IF ExcludeTimeouts THEN excluded \union {<<offer[i].order, offer[i].rider>>} ELSE excluded
  /\ Goto(h, "release")
  /\ UNCHANGED <<order, news, ended, expiry, retry, retried, rider, active, history, bounds>>

\* Mutant: the next wave goes out only when the attempts are not used up.
NextAttemptBounded(k, o) == Pending(o) = {} /\ ~Assigned(o) /\ k < MaxAttempt
\* maybeNextWave: nobody has the order and nobody is asked
NextAttempt(k, o) == Pending(o) = {} /\ ~Assigned(o)
MaybeNextWave(h) ==
  LET o == handler[h].order k == handler[h].attempt IN
  IF NextAttempt(k, o)
  THEN handler' = [handler EXCEPT ![h] = Busy("guard", o, "none", 0, IF k < MaxAttempt THEN k + 1 ELSE k)]
  ELSE Ends(h)

ReleaseExpired(h) ==
  /\ handler[h].at = "release"
  /\ rider' = Freed({handler[h].offer})
  /\ MaybeNextWave(h)
  /\ UNCHANGED <<order, news, ended, offer, expiry, retry, retried, active, excluded, history, bounds>>

\* after a decline or a refused accept
NextWave(h) ==
  /\ handler[h].at = "next"
  /\ MaybeNextWave(h)
  /\ UNCHANGED <<order, news, ended, tables, history, bounds>>

(***************************************************************************)
(* Releases: by the rider before pickup, by a cancelled order; deliveries. *)
(***************************************************************************)
ReleaseForOrder(o) ==
  LET r == {x \in Rider : <<o, x>> \in active}
      freed == Freed(Pending(o)) IN
  /\ Supersede(Pending(o))
  /\ active' = {a \in active : a[1] # o}
  /\ rider' = [x \in Rider |-> IF x \in r THEN "AVAILABLE" ELSE freed[x]]
  /\ news' = IF r # {} THEN news \union {<<"unassigned", o>>} ELSE news

ReleaseByRider(o, r) ==
  /\ <<o, r>> \in active /\ order[o] # "out"
  /\ ReleaseForOrder(o)
  /\ forgotten' = forgotten \union {<<"released", o>>}
  /\ Moves("task")
  /\ UNCHANGED <<order, ended, retry, retried, excluded, handler, lost, stale, pressed, crashed>>

OnCancelled(o) ==
  /\ <<"cancelled", o>> \in ended
  /\ ended' = ended \ {<<"cancelled", o>>}
  /\ ReleaseForOrder(o)
  /\ UNCHANGED <<order, retry, retried, excluded, handler, history, bounds>>

OnDelivered(o) ==
  /\ <<"delivered", o>> \in ended
  /\ ended' = ended \ {<<"delivered", o>>}
  /\ active' = {a \in active : a[1] # o}
  /\ rider' = [r \in Rider |-> IF <<o, r>> \in active THEN "AVAILABLE" ELSE rider[r]]
  /\ UNCHANGED <<order, news, offer, expiry, retry, retried, excluded, handler, history, bounds>>

ConfirmPickup(o, r) ==
  /\ <<o, r>> \in active
  /\ rider' = [rider EXCEPT ![r] = "PICKED_UP"]
  /\ news' = news \union {<<"pickedUp", o>>}
  /\ Moves("task")
  /\ UNCHANGED <<order, ended, offer, expiry, retry, retried, active, excluded, handler, history>>

\* adminAssign looks at the order's assignment only
AdminAssign(h, o, r) ==
  LET freed == Freed(Pending(o)) IN
  /\ ~Assigned(o)
  /\ Starts(h, Busy("adminLock", o, r, 0, 0))
  /\ Supersede(Pending(o))
  /\ rider' = [freed EXCEPT ![r] = "ASSIGNED"]
  /\ pressed' = pressed \union {r}
  /\ Moves("admin")
  /\ UNCHANGED <<order, news, ended, retry, retried, active, excluded, forgotten, lost, stale, crashed>>

(***************************************************************************)
(* Riders come and go; a location saves the rider it read.                 *)
(***************************************************************************)
GoOffline(r) ==
  /\ ~OnTask(r) /\ rider' = [rider EXCEPT ![r] = "OFFLINE"]
  /\ Moves("shift")
  /\ UNCHANGED <<order, news, ended, offer, expiry, retry, retried, active, excluded, handler, history>>

\* the offers of a rider who pauses end, and no wave follows
PauseRider(r) ==
  /\ ~OnTask(r)
  /\ Supersede(PendingOf(r))
  /\ rider' = [rider EXCEPT ![r] = "PAUSED"]
  /\ forgotten' = forgotten \union {<<"paused", offer[i].order>> : i \in PendingOf(r)}
  /\ Moves("shift")
  /\ UNCHANGED <<order, news, ended, retry, retried, active, excluded, handler, lost, stale, pressed, crashed>>

\* setAvailability asks for nothing but a verified rider
BeAvailable(r) ==
  /\ rider[r] # "AVAILABLE"
  /\ rider' = [rider EXCEPT ![r] = "AVAILABLE"]
  /\ Moves("shift")
  /\ UNCHANGED <<order, news, ended, offer, expiry, retry, retried, active, excluded, handler, history>>

ReadLocation(h, r) ==
  /\ DispatchFails("location")
  /\ Starts(h, [Busy("saveRider", "none", r, 0, 0) EXCEPT !.wave = {rider[r]}])
  /\ UNCHANGED <<order, news, ended, tables, history>>

SaveLocation(h) ==
  LET r == handler[h].rider IN
  /\ handler[h].at = "saveRider"
  /\ \E read \in handler[h].wave : rider' = [rider EXCEPT ![r] = read]
  /\ stale' = IF rider[r] \notin handler[h].wave THEN stale \union {r} ELSE stale
  /\ Ends(h)
  /\ UNCHANGED <<order, news, ended, offer, expiry, retry, retried, active, excluded, forgotten, lost, pressed, crashed, bounds>>

(***************************************************************************)
(* The order service, as far as dispatch sees it (OrderLifecycle).         *)
(***************************************************************************)
Told(o, what) ==
  CASE what = "assigned"   -> IF order[o] = "ready" THEN "assigned" ELSE order[o]
    [] what = "unassigned" -> IF order[o] = "assigned" THEN "ready" ELSE order[o]
    [] what = "pickedUp"   -> IF order[o] = "assigned" THEN "out" ELSE order[o]

HearNews(o, what) ==
  /\ <<what, o>> \in news
  /\ news' = news \ {<<what, o>>}
  /\ order' = [order EXCEPT ![o] = Told(o, what)]
  /\ UNCHANGED <<ended, tables, handler, history, bounds>>

OrderOver(o, how) ==
  /\ IF how = "delivered" THEN order[o] = "out" ELSE order[o] \notin {"out", "over"}
  /\ order' = [order EXCEPT ![o] = "over"]
  /\ ended' = ended \union {<<how, o>>}
  /\ Moves("order")
  /\ UNCHANGED <<news, tables, handler, history>>

\* a crash may fall between the rider's save and the offer's
DispatchCrash(h) ==
  /\ handler[h] # Idle
  /\ DispatchFails("crash")
  /\ Ends(h)
  /\ crashed' = TRUE
  /\ \/ UNCHANGED rider
     \/ /\ handler[h].at = "offer"
        /\ \E r \in handler[h].wave : rider' = [rider EXCEPT ![r] = "OFFERED"]
  /\ UNCHANGED <<order, news, ended, offer, expiry, retry, retried, active, excluded, forgotten, lost, stale, pressed>>

HandlerStep(h) ==
  \/ AttemptDispatch(h) \/ CreateOffer(h) \/ ScheduleExpiry(h)
  \/ RefuseAccept(h) \/ ClaimOffer(h) \/ MarkAssigned(h) \/ InsertAssignment(h) \/ SupersedeOthers(h)
  \/ SaveExpired(h) \/ ReleaseExpired(h) \/ NextWave(h) \/ SaveLocation(h)

DispatchNext ==
  \/ \E h \in Handler :
       \/ HandlerStep(h) \/ DispatchCrash(h)
       \/ \E o \in dispatchScope.orders, k \in 0..MaxAttempt : StartJob(h, o, k)
       \/ \E i \in Offers : Accept(h, i) \/ Decline(h, i) \/ OfferExpiry(h, i)
       \/ \E r \in dispatchScope.riders : ReadLocation(h, r) \/ \E o \in dispatchScope.orders : AdminAssign(h, o, r)
  \/ \E o \in dispatchScope.orders :
       \/ OnCancelled(o) \/ OnDelivered(o)
       \/ \E r \in dispatchScope.riders : ReleaseByRider(o, r) \/ ConfirmPickup(o, r)
       \/ \E what \in {"assigned", "unassigned", "pickedUp"} : HearNews(o, what)
       \/ \E how \in {"cancelled", "delivered"} : OrderOver(o, how)
  \/ \E r \in dispatchScope.riders : GoOffline(r) \/ PauseRider(r) \/ BeAvailable(r)

DispatchSpec == DispatchInit /\ [][DispatchNext]_dispatchVars

\* jobs come due and handlers go on
DispatchFairness ==
  /\ \A h \in Handler : WF_dispatchVars(HandlerStep(h))
  /\ \A i \in Offers : WF_dispatchVars(\E h \in Handler : OfferExpiry(h, i))

(***************************************************************************)
(* Properties.                                                             *)
(***************************************************************************)
At(h, o) == handler[h] # Idle /\ handler[h].order = o

\* An order that is ready is with a rider, out with an offer that will expire,
\* waiting for a job or in a handler's hands: nothing that happens to a wave
\* loses it, but an attempt given up or that could not read the order, a retry
\* under an id BullMQ still knows, a release (which starts no attempt), the
\* pause of a rider (which starts none either), a cancelled or refused offer
\* whose handler died.  No wave is larger, and no attempt later, than they may be.
OrderIsWaitedFor == DispatchTypeOK /\
  \A o \in Order : order[o] = "ready" =>
    \/ Assigned(o) \/ Pending(o) \cap expiry # {} \/ \E h \in Handler : At(h, o)
    \/ \E k \in 0..MaxAttempt : <<o, k>> \in retry
    \/ \E why \in {"gaveUp", "unread", "dropped", "released", "paused"} : <<why, o>> \in forgotten
    \/ crashed

\* "rider unassigned -> re-dispatch": an order a rider gave back is dispatched
\* again.
ReleasedIsRedispatched ==
  \A o \in Order : <<"released", o>> \in forgotten /\ order[o] = "ready" /\ news = {} =>
    \/ Assigned(o) \/ Pending(o) # {} \/ \E h \in Handler : At(h, o)
    \/ \E k \in 0..MaxAttempt : <<o, k>> \in retry

\* A rider is OFFERED only while an offer waits for him, and ASSIGNED only with
\* a task: when no handler has him in hand anything else comes from a save of
\* a rider read before, from an assignment that was refused, or from a crash.
\* And "one rider, one active task": unless an admin assigned him or two of his
\* accepts were under way together.
RiderMeansIt ==
  \A r \in Rider :
    /\ \/ \E h \in Handler : handler[h].rider = r \/ r \in handler[h].wave
       \/ r \in stale \union lost \/ crashed
       \/ /\ rider[r] = "OFFERED" => PendingOf(r) # {}
          /\ rider[r] = "ASSIGNED" => OnTask(r)
    /\ r \in pressed \/ Cardinality({a \in active : a[2] = r}) <= 1

\* Every offer comes to an end: answered, superseded, or expired by its job.
OfferEnds == \A i \in Offers : offer[i].status = "PENDING" ~> (offer[i].status # "PENDING" \/ crashed)
=============================================================================
