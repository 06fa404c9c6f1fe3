---------------------------- MODULE DispatchProofs ----------------------------
(***************************************************************************)
(* Proofs about DispatchOffers: a ready order is always waited for, and a  *)
(* rider's status means what it says, for any orders, riders, handlers and *)
(* scopes.                                                                 *)
(*                                                                         *)
(* The invariant says for every place a handler may have reached what it   *)
(* still has to do there.  An offer that is PENDING has its job, or the    *)
(* handler that will add it or that the job began; so whoever finds an     *)
(* offer PENDING and ends may rely on it.  A handler about to claim does   *)
(* not keep its order going, since it ends when it comes too late; one     *)
(* that has claimed does.                                                  *)
(***************************************************************************)
EXTENDS DispatchOffers, FiniteSetTheorems, TLAPS

RiderStatus == {"AVAILABLE", "OFFERED", "ASSIGNED", "PICKED_UP", "PAUSED", "OFFLINE"}
OfferRow == [order : Order \union {"none"}, rider : Rider \union {"none"}, attempt : 0..MaxAttempt,
             status : {"none", "PENDING", "ACCEPTED", "DECLINED", "EXPIRED", "SUPERSEDED"}]
Work == [at : {"idle", "guard", "offer", "timer", "refuse", "claim", "assign", "lock", "adminLock",
               "supersede", "expire", "release", "next", "saveRider"},
         order : Order \union {"none"}, rider : Rider \union {"none"}, offer : Offers \union {0},
         attempt : 0..MaxAttempt, wave : SUBSET (Rider \union RiderStatus)]

Typed ==
  /\ order \in [Order -> {"ready", "assigned", "out", "over"}]
  /\ news \subseteq {"assigned", "unassigned", "pickedUp"} \X Order
  /\ ended \subseteq {"cancelled", "delivered"} \X Order
  /\ offer \in [Offers -> OfferRow] /\ handler \in [Handler -> Work]
  /\ expiry \subseteq Offers /\ retry \subseteq Order \X (0..MaxAttempt) /\ retried \subseteq Order
  /\ rider \in [Rider -> RiderStatus]
  /\ active \subseteq Order \X Rider /\ excluded \subseteq Order \X Rider
  /\ dispatchScope \in DispatchScopes
  /\ moves \in 0..dispatchScope.moves /\ dispatchFaults \in 0..dispatchScope.faults

\* offers are made in the order of their numbers, for an order and a rider
Made == {i \in Offers : offer[i].status # "none"}
MadeInOrder ==
  /\ \A i \in Offers : offer[i].status = "none" => offer[i] = NoOffer
  /\ \A i \in Made : offer[i].order \in Order /\ offer[i].rider \in Rider
  /\ \E n \in 0..MaxOffers : Made = 1..n

\* what a handler knows of its offer, its order and its rider
Holding == {"timer", "refuse", "claim", "assign", "lock", "supersede", "expire", "release", "next"}
KnowsOffer(h) ==
  handler[h].at \in Holding =>
    /\ handler[h].offer \in Made
    /\ offer[handler[h].offer].order = handler[h].order
    /\ handler[h].at # "timer" => offer[handler[h].offer].rider = handler[h].rider
    /\ handler[h].at \in {"assign", "lock", "supersede"} => offer[handler[h].offer].status # "PENDING"
KnowsWork(h) ==
  /\ handler[h].at \notin {"idle", "saveRider"} => handler[h].order \in Order
  /\ handler[h].at \in {"adminLock", "saveRider"} => handler[h].rider \in Rider
  /\ handler[h].at \in {"offer", "timer"} => handler[h].wave \subseteq Rider
  /\ handler[h].at = "saveRider" => \E status \in RiderStatus : handler[h].wave = {status}
Knows == \A h \in Handler : KnowsOffer(h) /\ KnowsWork(h)

\* an offer that waits has its job, or a handler with the job to add or to do
Times(h, i) == handler[h].at \in {"timer", "expire"} /\ handler[h].offer = i
Timed == \A i \in Offers :
  offer[i].status = "PENDING" => i \in expiry \/ crashed \/ \E h \in Handler : Times(h, i)

\* the handlers that keep an order going until they hand it on
Keeps(h, o) ==
  /\ handler[h].order = o
  /\ \/ handler[h].at \in {"guard", "offer", "refuse", "assign", "lock", "adminLock", "expire", "release", "next"}
     \/ handler[h].at = "timer" /\ (handler[h].wave # {} \/ offer[handler[h].offer].status = "PENDING")
Forgotten(o) == \E why \in {"gaveUp", "unread", "dropped", "released", "paused"} : <<why, o>> \in forgotten
Covered(o) ==
  \/ Assigned(o) \/ Forgotten(o) \/ crashed
  \/ \E i \in expiry : offer[i].status = "PENDING" /\ offer[i].order = o
  \/ \E h \in Handler : Keeps(h, o)
  \/ \E k \in 0..MaxAttempt : <<o, k>> \in retry
Waited == \A o \in Order : order[o] = "ready" => Covered(o)
\* an assignment ends only with its order, or when the rider gives it back
EndedOr(o) == order[o] = "over" \/ <<"released", o>> \in forgotten
NewsIsOf ==
  /\ \A o \in Order : <<"unassigned", o>> \in news => EndedOr(o)
  /\ \A o \in Order, how \in {"cancelled", "delivered"} : <<how, o>> \in ended => order[o] = "over"
  /\ \A h \in Handler : handler[h].at = "supersede" => Assigned(handler[h].order) \/ EndedOr(handler[h].order)

\* where a rider's status comes from
InHand(r, places) == \E h \in Handler : handler[h].at \in places /\ handler[h].rider = r
Excused(r) == r \in stale \/ r \in lost \/ crashed
OfferedInv == \A r \in Rider : rider[r] = "OFFERED" =>
  PendingOf(r) # {} \/ Excused(r) \/ InHand(r, {"assign", "release"})
AssignedInv == \A r \in Rider : rider[r] = "ASSIGNED" =>
  OnTask(r) \/ Excused(r) \/ InHand(r, {"lock", "adminLock"})

\* one rider, one active task, and one accept of his under way
Accepting(h, r) == handler[h].at \in {"claim", "assign", "lock"} /\ handler[h].rider = r
OneTask ==
  /\ \A h \in Handler : handler[h].at = "adminLock" => handler[h].rider \in pressed
  /\ \A r \in Rider \ pressed :
       /\ \A a, b \in Order : <<a, r>> \in active /\ <<b, r>> \in active => a = b
       /\ \A h \in Handler : Accepting(h, r) => ~OnTask(r)
       /\ \A g, h \in Handler : Accepting(g, r) /\ Accepting(h, r) => g = h

DispatchInv == Typed /\ MadeInOrder /\ Knows /\ Timed /\ Waited /\ NewsIsOf /\ OfferedInv /\ AssignedInv /\ OneTask

-----------------------------------------------------------------------------
(* Types *)

\* the actions of a handler, and those of none
HandlerActs(h) ==
  \/ HandlerStep(h) \/ DispatchCrash(h)
  \/ \E o \in dispatchScope.orders, k \in 0..MaxAttempt : StartJob(h, o, k)
  \/ \E i \in Offers : Accept(h, i) \/ Decline(h, i) \/ OfferExpiry(h, i)
  \/ \E r \in dispatchScope.riders : ReadLocation(h, r) \/ \E o \in dispatchScope.orders : AdminAssign(h, o, r)

LEMMA ScopeParts ==
  ASSUME Typed
  PROVE  /\ dispatchScope.orders \subseteq Order /\ dispatchScope.riders \subseteq Rider
         /\ dispatchScope.moves \in Nat /\ dispatchScope.faults \in Nat
BY DispatchAssumption DEF Typed, DispatchScope

LEMMA TypesAreOK == Typed => DispatchTypeOK
BY DEF Typed, DispatchTypeOK, OfferRow, Work, RiderStatus

LEMMA BusyTyped ==
  ASSUME NEW o \in Order \union {"none"}, NEW r \in Rider \union {"none"}, NEW i \in Offers \union {0}, NEW k \in 0..MaxAttempt,
         NEW at \in {"guard", "claim", "refuse", "next", "expire", "adminLock", "saveRider"}
  PROVE  /\ Busy(at, o, r, i, k) \in Work /\ Idle \in Work
         /\ Busy(at, o, r, i, k).at = at /\ Busy(at, o, r, i, k).order = o /\ Busy(at, o, r, i, k).rider = r
         /\ Busy(at, o, r, i, k).offer = i /\ Busy(at, o, r, i, k).attempt = k /\ Busy(at, o, r, i, k).wave = {}
<1>1. Busy(at, o, r, i, k) = [at |-> at, order |-> o, rider |-> r, offer |-> i, attempt |-> k, wave |-> {}]
  BY DEF Busy
<1>2. Busy(at, o, r, i, k) \in Work
  BY <1>1 DEF Work
<1>3. Idle \in Work
  BY DispatchAssumption DEF Idle, Work
<1> QED BY <1>1, <1>2, <1>3

LEMMA IdleTyped == Idle \in Work /\ Idle.at = "idle" /\ Idle.wave = {} /\ Idle.order = "none" /\ Idle.rider = "none"
BY DispatchAssumption DEF Idle, Work

LEMMA FreedTyped == ASSUME Typed, NEW gone PROVE Freed(gone) \in [Rider -> RiderStatus]
BY DEF Typed, Freed, RiderStatus

LEMMA SupersededTyped == ASSUME Typed, NEW gone PROVE Superseded(gone) \in [Offers -> OfferRow]
BY DEF Typed, Superseded, OfferRow

LEMMA BoundsTyped ==
  ASSUME Typed
  PROVE  /\ \A kind : Moves(kind) => /\ dispatchScope' = dispatchScope /\ moves' \in 0..dispatchScope.moves
                                     /\ dispatchFaults' = dispatchFaults
         /\ \A kind : DispatchFails(kind) => /\ dispatchScope' = dispatchScope /\ moves' = moves
                                             /\ dispatchFaults' \in 0..dispatchScope.faults
BY ScopeParts DEF Typed, Moves, DispatchFails

Place == {"idle", "guard", "offer", "timer", "refuse", "claim", "assign", "lock", "adminLock",
          "supersede", "expire", "release", "next", "saveRider"}

\* what a handler's move leaves alone
OnlyOf(h) == \A g \in Handler \ {h} : handler'[g] = handler[g]
StaysAtWork(h) ==
  /\ handler'[h].order = handler[h].order /\ handler'[h].rider = handler[h].rider
  /\ handler'[h].attempt = handler[h].attempt

LEMMA GotoDoes ==
  ASSUME Typed, NEW h \in Handler, NEW at \in Place, Goto(h, at)
  PROVE  /\ handler' \in [Handler -> Work] /\ OnlyOf(h) /\ StaysAtWork(h)
         /\ handler'[h].at = at /\ handler'[h].offer = handler[h].offer /\ handler'[h].wave = handler[h].wave
BY DEF Typed, Goto, Work, Place, OnlyOf, StaysAtWork

LEMMA EndsDoes ==
  ASSUME Typed, NEW h \in Handler, Ends(h)
  PROVE  handler' \in [Handler -> Work] /\ OnlyOf(h) /\ handler'[h] = Idle /\ handler'[h].at = "idle"
BY IdleTyped DEF Typed, Ends, OnlyOf

LEMMA StartsDoes ==
  ASSUME Typed, NEW h \in Handler, NEW w \in Work, Starts(h, w)
  PROVE  handler' \in [Handler -> Work] /\ OnlyOf(h) /\ handler[h].at = "idle" /\ handler'[h] = w
BY IdleTyped DEF Typed, Starts, OnlyOf

LEMMA MaybeNextWaveDoes ==
  ASSUME Typed, NEW h \in Handler, handler[h].order \in Order, MaybeNextWave(h)
  PROVE  /\ handler' \in [Handler -> Work] /\ OnlyOf(h)
         /\ \/ /\ Pending(handler[h].order) = {} /\ ~Assigned(handler[h].order)
               /\ handler'[h].at = "guard" /\ handler'[h].order = handler[h].order
            \/ /\ Pending(handler[h].order) # {} \/ Assigned(handler[h].order)
               /\ handler'[h].at = "idle"
<1> DEFINE o == handler[h].order
           k == handler[h].attempt
           next == IF k < MaxAttempt THEN k + 1 ELSE k
<1>1. k \in 0..MaxAttempt /\ handler[h] \in Work
  BY DEF Typed, Work
<1>2. next \in 0..MaxAttempt
  BY <1>1, DispatchAssumption
<1>3. CASE NextAttempt(k, o)
  <2>1. handler' = [handler EXCEPT ![h] = Busy("guard", o, "none", 0, next)]
    BY <1>3 DEF MaybeNextWave
  <2>2. Busy("guard", o, "none", 0, next) \in Work /\ Busy("guard", o, "none", 0, next).at = "guard"
        /\ Busy("guard", o, "none", 0, next).order = o
    BY <1>2 DEF Busy, Work
  <2> QED BY <1>3, <2>1, <2>2 DEF Typed, OnlyOf, NextAttempt
<1>4. CASE ~NextAttempt(k, o)
  <2>1. Ends(h)
    BY <1>4 DEF MaybeNextWave
  <2> QED BY <1>4, <2>1, EndsDoes DEF NextAttempt
<1> QED BY <1>3, <1>4

LEMMA AttemptDoes ==
  ASSUME Typed, NEW h \in Handler, AttemptDispatch(h)
  PROVE  /\ handler' \in [Handler -> Work] /\ OnlyOf(h)
         /\ \/ handler'[h].at = "idle"
            \/ /\ StaysAtWork(h) /\ handler'[h].at = "offer" /\ handler'[h].wave \subseteq Rider
               /\ retry' = retry /\ retried' = retried /\ forgotten' = forgotten
<1>1. CASE Ends(h)
  BY <1>1, EndsDoes
<1>2. CASE \E W \in Waves(handler[h].order) : handler' = [handler EXCEPT ![h].at = "offer", ![h].wave = W]
           /\ UNCHANGED <<retry, retried, forgotten>>
  <2>1. PICK W \in Waves(handler[h].order) : handler' = [handler EXCEPT ![h].at = "offer", ![h].wave = W]
    BY <1>2
  <2>2. W \subseteq Rider
    BY DEF Waves, Pool
  <2>3. handler[h] \in Work /\ handler \in [Handler -> Work]
    BY DEF Typed
  <2>4. handler' = [handler EXCEPT ![h] = [[handler[h] EXCEPT !.at = "offer"] EXCEPT !.wave = W]]
    BY <2>1, <2>3
  <2>5. [[handler[h] EXCEPT !.at = "offer"] EXCEPT !.wave = W] \in Work
    BY <2>2, <2>3 DEF Work
  <2>6. handler' \in [Handler -> Work] /\ OnlyOf(h)
    BY <2>3, <2>4, <2>5 DEF OnlyOf
  <2>7. StaysAtWork(h) /\ handler'[h].at = "offer" /\ handler'[h].wave = W
    BY <2>3, <2>4 DEF StaysAtWork, Work
  <2> QED BY <1>2, <2>2, <2>6, <2>7
<1> QED BY <1>1, <1>2 DEF AttemptDispatch

LEMMA CreateDoes ==
  ASSUME Typed, NEW h \in Handler, KnowsWork(h), CreateOffer(h)
  PROVE  \E i \in Offers, r \in handler[h].wave :
           /\ i = Cardinality({n \in Offers : offer[n] # NoOffer}) + 1 /\ r \in Rider
           /\ stale' = (IF rider[r] # "AVAILABLE" THEN stale \union {r} ELSE stale)
           /\ rider' = [rider EXCEPT ![r] = "OFFERED"]
           /\ offer' \in [Offers -> OfferRow]
           /\ \A j \in Offers \ {i} : offer'[j] = offer[j]
           /\ offer'[i].order = handler[h].order /\ offer'[i].rider = r /\ offer'[i].status = "PENDING"
           /\ handler' \in [Handler -> Work] /\ OnlyOf(h) /\ StaysAtWork(h)
           /\ handler'[h].at = "timer" /\ handler'[h].offer = i /\ handler'[h].wave = handler[h].wave \ {r}
<1>1. PICK i \in Offers, r \in handler[h].wave :
           /\ i = Cardinality({n \in Offers : offer[n] # NoOffer}) + 1
           /\ stale' = (IF rider[r] # "AVAILABLE" THEN stale \union {r} ELSE stale)
           /\ rider' = [rider EXCEPT ![r] = "OFFERED"]
           /\ offer' = [offer EXCEPT ![i] = [order |-> handler[h].order, rider |-> r,
                                         attempt |-> handler[h].attempt, status |-> "PENDING"]]
           /\ handler' = [handler EXCEPT ![h].at = "timer", ![h].offer = i, ![h].wave = @ \ {r}]
  BY DEF CreateOffer
<1>2. r \in Rider /\ handler[h] \in Work
  BY DEF KnowsWork, CreateOffer, Typed
<1>3. [order |-> handler[h].order, rider |-> r, attempt |-> handler[h].attempt, status |-> "PENDING"] \in OfferRow
  BY <1>2 DEF Work, OfferRow
<1>4. /\ offer' \in [Offers -> OfferRow] /\ \A j \in Offers \ {i} : offer'[j] = offer[j]
      /\ offer'[i].order = handler[h].order /\ offer'[i].rider = r /\ offer'[i].status = "PENDING"
  BY <1>1, <1>3 DEF Typed
<1>5. /\ handler' \in [Handler -> Work] /\ OnlyOf(h) /\ StaysAtWork(h)
      /\ handler'[h].at = "timer" /\ handler'[h].offer = i /\ handler'[h].wave = handler[h].wave \ {r}
  BY <1>1, <1>2 DEF Typed, OnlyOf, StaysAtWork, Work
<1> QED BY <1>1, <1>2, <1>4, <1>5

LEMMA StartsBusy ==
  ASSUME Typed, NEW h \in Handler, NEW at, NEW o, NEW r, NEW i, NEW k,
         Busy(at, o, r, i, k) \in Work, Starts(h, Busy(at, o, r, i, k))
  PROVE  /\ handler' \in [Handler -> Work] /\ OnlyOf(h) /\ handler[h].at = "idle"
         /\ handler'[h].at = at /\ handler'[h].order = o /\ handler'[h].rider = r
         /\ handler'[h].offer = i /\ handler'[h].wave = {}
<1> DEFINE w == Busy(at, o, r, i, k)
<1>1. w.at = at /\ w.order = o /\ w.rider = r /\ w.offer = i /\ w.wave = {}
  BY DEF Busy
<1> HIDE DEF w
<1>2. w \in Work /\ Starts(h, w)
  BY DEF w
<1> QED BY <1>1, <1>2, StartsDoes

LEMMA ReadLocationDoes ==
  ASSUME Typed, NEW h \in Handler, NEW r \in Rider, ReadLocation(h, r)
  PROVE  /\ handler' \in [Handler -> Work] /\ OnlyOf(h) /\ handler[h].at = "idle"
         /\ handler'[h].at = "saveRider" /\ handler'[h].order = "none" /\ handler'[h].rider = r
         /\ handler'[h].wave = {rider[r]}
<1> DEFINE w == [at |-> "saveRider", order |-> "none", rider |-> r, offer |-> 0, attempt |-> 0, wave |-> {rider[r]}]
<1>1. rider[r] \in RiderStatus
  BY DEF Typed
<1>2. w \in Work /\ w.at = "saveRider" /\ w.order = "none" /\ w.rider = r /\ w.wave = {rider[r]}
  BY <1>1, DispatchAssumption DEF Work
<1>3. [Busy("saveRider", "none", r, 0, 0) EXCEPT !.wave = {rider[r]}] = w
  BY DEF Busy
<1>4. Starts(h, w)
  BY <1>3 DEF ReadLocation
<1> HIDE DEF w
<1> QED BY <1>2, <1>4, StartsDoes

-----------------------------------------------------------------------------
(* The offers *)

\* offers that were made end; none comes, and none comes back
OffersOnlyEnd ==
  /\ offer' \in [Offers -> OfferRow]
  /\ \A i \in Offers :
       /\ offer'[i].order = offer[i].order /\ offer'[i].rider = offer[i].rider
       /\ offer'[i] = offer[i] \/ (offer[i].status # "none" /\ offer'[i].status \notin {"none", "PENDING"})

LEMMA NoOfferEnds == ASSUME Typed, offer' = offer PROVE OffersOnlyEnd
BY DEF Typed, OffersOnlyEnd

LEMMA OneOfferEnds ==
  ASSUME Typed, NEW i \in Made, NEW status \in {"ACCEPTED", "DECLINED", "EXPIRED"}, offer' = [offer EXCEPT ![i].status = status]
  PROVE  OffersOnlyEnd /\ offer'[i].status = status /\ \A j \in Offers \ {i} : offer'[j] = offer[j]
<1>1. i \in Offers /\ offer[i].status # "none"
  BY DEF Made
<1> QED BY <1>1 DEF Typed, OffersOnlyEnd, OfferRow

LEMMA OffersSuperseded ==
  ASSUME Typed, NEW gone \in SUBSET Made, offer' = Superseded(gone)
  PROVE  /\ OffersOnlyEnd
         /\ \A i \in gone : offer'[i].status = "SUPERSEDED"
         /\ \A i \in Offers \ gone : offer'[i] = offer[i]
<1>1. \A i \in gone : i \in Offers /\ offer[i].status # "none"
  BY DEF Made
<1> QED BY <1>1 DEF Typed, OffersOnlyEnd, OfferRow, Superseded

LEMMA PendingIsMade ==
  /\ \A o : Pending(o) \subseteq Made
  /\ \A r : PendingOf(r) \subseteq Made
BY DEF Pending, PendingOf, Made

\* what a handler holds is an offer made, and the handlers' moves that end one
LEMMA OffersOfHandler ==
  ASSUME Typed, Knows, NEW h \in Handler, HandlerActs(h), ~CreateOffer(h)
  PROVE  OffersOnlyEnd
<1>1. CASE offer' = offer
  BY <1>1, NoOfferEnds
<1>2. CASE RefuseAccept(h) \/ SaveExpired(h)
  <2>1. handler[h].offer \in Made /\ offer' = [offer EXCEPT ![handler[h].offer].status = "EXPIRED"]
    BY <1>2 DEF RefuseAccept, SaveExpired, Knows, KnowsOffer, Holding
  <2> QED BY <2>1, OneOfferEnds
<1>3. CASE ClaimOffer(h) /\ offer' # offer
  <2>1. handler[h].offer \in Made /\ offer' = [offer EXCEPT ![handler[h].offer].status = "ACCEPTED"]
    BY <1>3 DEF ClaimOffer, Knows, KnowsOffer, Holding
  <2> QED BY <2>1, OneOfferEnds
<1>4. CASE SupersedeOthers(h)
  <2>1. offer' = Superseded(Pending(handler[h].order) \ {handler[h].offer})
    BY <1>4 DEF SupersedeOthers
  <2> QED BY <2>1, PendingIsMade, OffersSuperseded
<1>5. ASSUME NEW i \in Offers, Decline(h, i) PROVE OffersOnlyEnd
  <2>1. i \in Made /\ offer' = [offer EXCEPT ![i].status = "DECLINED"]
    BY <1>5 DEF Decline, Made
  <2> QED BY <2>1, OneOfferEnds
<1>6. ASSUME NEW o, NEW r, AdminAssign(h, o, r) PROVE OffersOnlyEnd
  <2>1. offer' = Superseded(Pending(o))
    BY <1>6 DEF AdminAssign, Supersede
  <2> QED BY <2>1, PendingIsMade, OffersSuperseded
<1>7. ASSUME NEW o, NEW k, StartJob(h, o, k) PROVE offer' = offer
  BY <1>7 DEF StartJob
<1>8. ASSUME NEW i, Accept(h, i) \/ OfferExpiry(h, i) PROVE offer' = offer
  BY <1>8 DEF Accept, OfferExpiry, tables
<1>9. ASSUME NEW r, ReadLocation(h, r) PROVE offer' = offer
  BY <1>9 DEF ReadLocation, tables
<1>10. CASE AttemptDispatch(h) \/ ScheduleExpiry(h) \/ MarkAssigned(h) \/ InsertAssignment(h)
            \/ ReleaseExpired(h) \/ NextWave(h) \/ SaveLocation(h) \/ DispatchCrash(h)
  BY <1>1, <1>10 DEF AttemptDispatch, ScheduleExpiry, MarkAssigned, InsertAssignment, ReleaseExpired, NextWave,
     SaveLocation, DispatchCrash, tables
<1> QED BY <1>1, <1>2, <1>3, <1>4, <1>5, <1>6, <1>7, <1>8, <1>9, <1>10 DEF HandlerActs, HandlerStep

\* the moves that are no handler's
OtherMove ==
  \/ \E o \in dispatchScope.orders :
       \/ OnCancelled(o) \/ OnDelivered(o)
       \/ \E r \in dispatchScope.riders : ReleaseByRider(o, r) \/ ConfirmPickup(o, r)
       \/ \E what \in {"assigned", "unassigned", "pickedUp"} : HearNews(o, what)
       \/ \E how \in {"cancelled", "delivered"} : OrderOver(o, how)
  \/ \E r \in dispatchScope.riders : GoOffline(r) \/ PauseRider(r) \/ BeAvailable(r)

LEMMA NextIs == DispatchNext <=> (\E h \in Handler : HandlerActs(h)) \/ OtherMove
BY DEF DispatchNext, HandlerActs, OtherMove

LEMMA OffersOfOthers == ASSUME Typed, OtherMove PROVE OffersOnlyEnd /\ handler' = handler
<1>1. ASSUME NEW o, OnCancelled(o) \/ \E r : ReleaseByRider(o, r) PROVE OffersOnlyEnd /\ handler' = handler
  <2>1. offer' = Superseded(Pending(o)) /\ handler' = handler
    BY <1>1 DEF OnCancelled, ReleaseByRider, ReleaseForOrder, Supersede
  <2> QED BY <2>1, PendingIsMade, OffersSuperseded
<1>2. ASSUME NEW r, PauseRider(r) PROVE OffersOnlyEnd /\ handler' = handler
  <2>1. offer' = Superseded(PendingOf(r)) /\ handler' = handler
    BY <1>2 DEF PauseRider, Supersede
  <2> QED BY <2>1, PendingIsMade, OffersSuperseded
<1>3. ASSUME NEW o, OnDelivered(o) \/ (\E r : ConfirmPickup(o, r)) \/ (\E what : HearNews(o, what)) \/ (\E how : OrderOver(o, how))
      PROVE  offer' = offer /\ handler' = handler
  BY <1>3 DEF OnDelivered, ConfirmPickup, HearNews, OrderOver, tables
<1>4. ASSUME NEW r, GoOffline(r) \/ BeAvailable(r) PROVE offer' = offer /\ handler' = handler
  BY <1>4 DEF GoOffline, BeAvailable
<1> QED BY <1>1, <1>2, <1>3, <1>4, NoOfferEnds DEF OtherMove

\* the next number is that of no offer
LEMMA NextNumber ==
  ASSUME MadeInOrder
  PROVE  /\ {n \in Offers : offer[n] # NoOffer} = Made
         /\ Made = 1..Cardinality(Made) /\ Cardinality(Made) \in 0..MaxOffers
<1>1. {n \in Offers : offer[n] # NoOffer} = Made
  BY DEF MadeInOrder, Made, NoOffer
<1>2. PICK n \in 0..MaxOffers : Made = 1..n
  BY DEF MadeInOrder
<1>3. MaxOffers \in Nat /\ n \in Nat
  BY <1>2, DispatchAssumption
<1>4. Cardinality(1..n) = n
  BY <1>3, FS_Interval
<1> QED BY <1>1, <1>2, <1>3, <1>4

LEMMA MadeEnds == ASSUME Typed, MadeInOrder, OffersOnlyEnd PROVE MadeInOrder' /\ Made' = Made
<1>1. Made' = Made
  BY DEF OffersOnlyEnd, Made
<1>2. \A i \in Offers : offer'[i].status = "none" => offer'[i] = NoOffer
  BY DEF OffersOnlyEnd, MadeInOrder
<1>3. \A i \in Made : offer'[i].order \in Order /\ offer'[i].rider \in Rider
  BY DEF OffersOnlyEnd, MadeInOrder, Made
<1> QED BY <1>1, <1>2, <1>3 DEF MadeInOrder

LEMMA MadeCreated ==
  ASSUME Typed, MadeInOrder, Knows, NEW h \in Handler, CreateOffer(h)
  PROVE  /\ MadeInOrder'
         /\ \E i \in Offers, r \in handler[h].wave :
              /\ i \notin Made /\ Made' = Made \union {i} /\ r \in Rider
              /\ stale' = (IF rider[r] # "AVAILABLE" THEN stale \union {r} ELSE stale)
              /\ rider' = [rider EXCEPT ![r] = "OFFERED"]
              /\ offer' \in [Offers -> OfferRow]
              /\ \A j \in Offers \ {i} : offer'[j] = offer[j]
              /\ offer'[i].order = handler[h].order /\ offer'[i].rider = r /\ offer'[i].status = "PENDING"
              /\ handler' \in [Handler -> Work] /\ OnlyOf(h) /\ StaysAtWork(h)
              /\ handler'[h].at = "timer" /\ handler'[h].offer = i /\ handler'[h].wave = handler[h].wave \ {r}
<1>1. KnowsWork(h) /\ handler[h].at = "offer" /\ handler[h].order \in Order
  BY DEF Knows, KnowsWork, CreateOffer
<1>2. PICK i \in Offers, r \in handler[h].wave :
           /\ i = Cardinality({n \in Offers : offer[n] # NoOffer}) + 1 /\ r \in Rider
           /\ stale' = (IF rider[r] # "AVAILABLE" THEN stale \union {r} ELSE stale)
           /\ rider' = [rider EXCEPT ![r] = "OFFERED"]
           /\ offer' \in [Offers -> OfferRow]
           /\ \A j \in Offers \ {i} : offer'[j] = offer[j]
           /\ offer'[i].order = handler[h].order /\ offer'[i].rider = r /\ offer'[i].status = "PENDING"
           /\ handler' \in [Handler -> Work] /\ OnlyOf(h) /\ StaysAtWork(h)
           /\ handler'[h].at = "timer" /\ handler'[h].offer = i /\ handler'[h].wave = handler[h].wave \ {r}
  BY <1>1, CreateDoes
<1> DEFINE c == Cardinality(Made)
<1>3. i = c + 1 /\ c \in 0..MaxOffers /\ Made = 1..c /\ MaxOffers \in Nat
  BY <1>2, NextNumber, DispatchAssumption
<1> HIDE DEF c
<1>4. i \notin Made /\ Made \union {i} = 1..(c + 1) /\ c + 1 \in 0..MaxOffers
  <2>1. c \in Nat /\ c + 1 <= MaxOffers
    BY <1>3 DEF Offers
  <2>2. (1..c) \union {c + 1} = 1..(c + 1)
    BY <2>1
  <2>3. c + 1 \notin 1..c
    BY <2>1
  <2> QED BY <1>3, <2>1, <2>2, <2>3
<1>5. Made' = Made \union {i}
  BY <1>2 DEF Made
<1>6. /\ \A j \in Offers : offer'[j].status = "none" => offer'[j] = NoOffer
      /\ \A j \in Made' : offer'[j].order \in Order /\ offer'[j].rider \in Rider
  BY <1>1, <1>2, <1>5 DEF MadeInOrder, Made
<1>7. MadeInOrder'
  BY <1>4, <1>5, <1>6 DEF MadeInOrder
<1> QED BY <1>2, <1>4, <1>5, <1>7

LEMMA MadeStep == ASSUME Typed, MadeInOrder, Knows, DispatchNext PROVE MadeInOrder'
<1>1. ASSUME NEW h \in Handler, HandlerActs(h), ~CreateOffer(h) PROVE MadeInOrder'
  BY <1>1, OffersOfHandler, MadeEnds
<1>2. ASSUME NEW h \in Handler, CreateOffer(h) PROVE MadeInOrder'
  BY <1>2, MadeCreated
<1>3. CASE OtherMove
  BY <1>3, OffersOfOthers, MadeEnds
<1> QED BY <1>1, <1>2, <1>3, NextIs

-----------------------------------------------------------------------------
(* What the handlers know *)

\* a handler at rest knows what it knew, whatever another does
LEMMA KnowledgeKept ==
  ASSUME Typed, MadeInOrder, NEW g \in Handler, KnowsOffer(g), KnowsWork(g), handler'[g] = handler[g],
         \/ OffersOnlyEnd
         \/ \E i \in Offers : /\ i \notin Made /\ Made' = Made \union {i}
                              /\ \A j \in Offers \ {i} : offer'[j] = offer[j]
  PROVE  KnowsOffer(g)' /\ KnowsWork(g)'
<1>1. KnowsWork(g)'
  BY DEF KnowsWork
<1>2. CASE OffersOnlyEnd
  <2>1. Made' = Made
    BY <1>2, MadeEnds
  <2>2. \A i \in Made : /\ i \in Offers /\ offer'[i].order = offer[i].order /\ offer'[i].rider = offer[i].rider
                        /\ offer'[i].status = "PENDING" => offer[i].status = "PENDING"
    BY <1>2 DEF OffersOnlyEnd, Made
  <2> QED BY <1>1, <2>1, <2>2 DEF KnowsOffer
<1>3. ASSUME NEW i \in Offers, i \notin Made, Made' = Made \union {i}, \A j \in Offers \ {i} : offer'[j] = offer[j]
      PROVE  KnowsOffer(g)'
  <2>1. \A j \in Made : j \in Made' /\ offer'[j] = offer[j]
    BY <1>3 DEF Made
  <2> QED BY <2>1 DEF KnowsOffer
<1> QED BY <1>1, <1>2, <1>3

\* what a handler that goes on knows of its offer, if the offer stays as it is
LEMMA KnowledgeGoesOn ==
  ASSUME Typed, MadeInOrder, NEW h \in Handler, KnowsOffer(h), KnowsWork(h), OffersOnlyEnd, StaysAtWork(h),
         handler[h].at \in Holding \ {"timer"}, handler'[h].offer = handler[h].offer,
         handler'[h].at \in Holding \ {"timer", "assign"},
         handler'[h].at \in {"lock", "supersede"} => handler[h].at \in {"assign", "lock"}
  PROVE  KnowsOffer(h)' /\ KnowsWork(h)'
<1>1. Made' = Made
  BY MadeEnds
<1>2. \A i \in Made : /\ i \in Offers /\ offer'[i].order = offer[i].order /\ offer'[i].rider = offer[i].rider
                      /\ offer'[i].status = "PENDING" => offer[i].status = "PENDING"
  BY DEF OffersOnlyEnd, Made
<1>3. KnowsOffer(h)'
  BY <1>1, <1>2 DEF KnowsOffer, StaysAtWork, Holding
<1>4. KnowsWork(h)'
  BY DEF KnowsWork, StaysAtWork, Holding
<1> QED BY <1>3, <1>4

LEMMA IdleKnows == ASSUME NEW h \in Handler, handler'[h].at = "idle" PROVE KnowsOffer(h)' /\ KnowsWork(h)'
BY DEF KnowsOffer, KnowsWork, Holding

\* the work of these handlers is about an order only
LEMMA GuardKnows ==
  ASSUME NEW h \in Handler, handler'[h].at = "guard", handler'[h].order \in Order
  PROVE  KnowsOffer(h)' /\ KnowsWork(h)'
BY DEF KnowsOffer, KnowsWork, Holding

\* the work begun with an offer that was made
LEMMA BegunKnows ==
  ASSUME Typed, MadeInOrder, OffersOnlyEnd, NEW h \in Handler, NEW i \in Made, handler'[h].at \in {"claim", "refuse", "next", "expire"},
         handler'[h].offer = i, handler'[h].order = offer[i].order, handler'[h].rider = offer[i].rider
  PROVE  KnowsOffer(h)' /\ KnowsWork(h)'
<1>1. Made' = Made
  BY MadeEnds
<1>2. /\ offer'[i].order = offer[i].order /\ offer'[i].rider = offer[i].rider
      /\ offer[i].order \in Order
  BY DEF OffersOnlyEnd, Made, MadeInOrder
<1> QED BY <1>1, <1>2 DEF KnowsOffer, KnowsWork, Holding

LEMMA HandlerKnows ==
  ASSUME Typed, MadeInOrder, Knows, NEW h \in Handler, HandlerActs(h)
  PROVE  handler' \in [Handler -> Work] /\ OnlyOf(h) /\ KnowsOffer(h)' /\ KnowsWork(h)'
<1> DEFINE Goal == handler' \in [Handler -> Work] /\ OnlyOf(h) /\ KnowsOffer(h)' /\ KnowsWork(h)'
<1>0. KnowsOffer(h) /\ KnowsWork(h) /\ handler[h] \in Work
  BY DEF Knows, Typed
<1>1. CASE Ends(h)
  BY <1>1, EndsDoes, IdleKnows
<1>2. CASE AttemptDispatch(h)
  <2>1. handler[h].order \in Order
    BY <1>0, <1>2 DEF AttemptDispatch, KnowsWork
  <2>2. CASE handler'[h].at = "idle"
    BY <1>2, <2>2, AttemptDoes, IdleKnows
  <2>3. CASE StaysAtWork(h) /\ handler'[h].at = "offer" /\ handler'[h].wave \subseteq Rider
    <3>1. KnowsOffer(h)' /\ KnowsWork(h)'
      BY <2>1, <2>3 DEF KnowsOffer, KnowsWork, Holding, StaysAtWork
    <3> QED BY <1>2, <3>1, AttemptDoes
  <2> QED BY <1>2, <2>2, <2>3, AttemptDoes
<1>3. CASE CreateOffer(h)
  <2>1. PICK i \in Offers, r \in handler[h].wave :
              /\ i \notin Made /\ Made' = Made \union {i} /\ r \in Rider
              /\ offer'[i].order = handler[h].order /\ offer'[i].rider = r /\ offer'[i].status = "PENDING"
              /\ handler' \in [Handler -> Work] /\ OnlyOf(h) /\ StaysAtWork(h)
              /\ handler'[h].at = "timer" /\ handler'[h].offer = i /\ handler'[h].wave = handler[h].wave \ {r}
    BY <1>3, MadeCreated
  <2>2. handler[h].at = "offer"
    BY <1>3 DEF CreateOffer
  <2> QED BY <1>0, <2>1, <2>2 DEF KnowsOffer, KnowsWork, StaysAtWork, Holding
<1>4. CASE ScheduleExpiry(h)
  <2>1. CASE Ends(h)
    BY <1>1, <2>1
  <2>2. CASE Goto(h, "offer")
    <3>1. handler' \in [Handler -> Work] /\ OnlyOf(h) /\ StaysAtWork(h) /\ handler'[h].at = "offer"
          /\ handler'[h].wave = handler[h].wave
      BY <2>2, GotoDoes DEF Place
    <3> QED BY <1>0, <1>4, <3>1 DEF ScheduleExpiry, KnowsOffer, KnowsWork, StaysAtWork, Holding
  <2> QED BY <1>4, <2>1, <2>2 DEF ScheduleExpiry
<1>5. CASE RefuseAccept(h)
  <2>1. handler[h].at = "refuse" /\ Goto(h, "next") /\ OffersOnlyEnd
    BY <1>5, OffersOfHandler DEF RefuseAccept, CreateOffer
  <2>2. handler' \in [Handler -> Work] /\ OnlyOf(h) /\ StaysAtWork(h) /\ handler'[h].at = "next" /\ handler'[h].offer = handler[h].offer
    BY <2>1, GotoDoes DEF Place
  <2> QED BY <1>0, <2>1, <2>2, KnowledgeGoesOn DEF Holding
<1>6. CASE ClaimOffer(h) /\ ~Ends(h)
  <2> DEFINE i == handler[h].offer
  <2>1. handler[h].at = "claim" /\ Goto(h, "assign") /\ i \in Made /\ offer' = [offer EXCEPT ![i].status = "ACCEPTED"]
    BY <1>0, <1>6 DEF ClaimOffer, KnowsOffer, Holding
  <2>2. OffersOnlyEnd /\ offer'[i].status = "ACCEPTED" /\ Made' = Made /\ i \in Offers
    BY <2>1, OneOfferEnds, MadeEnds DEF Made
  <2>3. handler' \in [Handler -> Work] /\ OnlyOf(h) /\ StaysAtWork(h) /\ handler'[h].at = "assign" /\ handler'[h].offer = i
    BY <2>1, GotoDoes DEF Place
  <2>4. offer'[i].order = offer[i].order /\ offer'[i].rider = offer[i].rider
    BY <2>2 DEF OffersOnlyEnd
  <2> QED BY <1>0, <2>1, <2>2, <2>3, <2>4 DEF KnowsOffer, KnowsWork, StaysAtWork, Holding
<1>7. CASE MarkAssigned(h)
  <2>1. handler[h].at = "assign" /\ Goto(h, "lock") /\ OffersOnlyEnd
    BY <1>7, NoOfferEnds DEF MarkAssigned
  <2>2. handler' \in [Handler -> Work] /\ OnlyOf(h) /\ StaysAtWork(h) /\ handler'[h].at = "lock" /\ handler'[h].offer = handler[h].offer
    BY <2>1, GotoDoes DEF Place
  <2> QED BY <1>0, <2>1, <2>2, KnowledgeGoesOn DEF Holding
<1>8. CASE InsertAssignment(h) /\ ~Ends(h)
  <2>1. handler[h].at = "lock" /\ Goto(h, "supersede") /\ OffersOnlyEnd
    BY <1>8, NoOfferEnds DEF InsertAssignment
  <2>2. handler' \in [Handler -> Work] /\ OnlyOf(h) /\ StaysAtWork(h) /\ handler'[h].at = "supersede" /\ handler'[h].offer = handler[h].offer
    BY <2>1, GotoDoes DEF Place
  <2> QED BY <1>0, <2>1, <2>2, KnowledgeGoesOn DEF Holding
<1>9. CASE SaveExpired(h)
  <2>1. handler[h].at = "expire" /\ Goto(h, "release") /\ OffersOnlyEnd
    BY <1>9, OffersOfHandler DEF SaveExpired, CreateOffer
  <2>2. handler' \in [Handler -> Work] /\ OnlyOf(h) /\ StaysAtWork(h) /\ handler'[h].at = "release" /\ handler'[h].offer = handler[h].offer
    BY <2>1, GotoDoes DEF Place
  <2> QED BY <1>0, <2>1, <2>2, KnowledgeGoesOn DEF Holding
<1>10. CASE ReleaseExpired(h) \/ NextWave(h)
  <2>1. MaybeNextWave(h) /\ handler[h].at \in {"release", "next"} /\ handler[h].order \in Order
    BY <1>0, <1>10 DEF ReleaseExpired, NextWave, KnowsWork
  <2>2. CASE handler'[h].at = "idle"
    BY <2>1, <2>2, MaybeNextWaveDoes, IdleKnows
  <2>3. CASE handler'[h].at = "guard" /\ handler'[h].order = handler[h].order
    BY <2>1, <2>3, MaybeNextWaveDoes, GuardKnows
  <2> QED BY <2>1, <2>2, <2>3, MaybeNextWaveDoes
<1>11. ASSUME NEW o \in dispatchScope.orders, NEW k \in 0..MaxAttempt, StartJob(h, o, k) PROVE Goal
  <2>1. o \in Order /\ Busy("guard", o, "none", 0, k) \in Work /\ Starts(h, Busy("guard", o, "none", 0, k))
    BY <1>11, ScopeParts DEF StartJob, Busy, Work
  <2>2. handler' \in [Handler -> Work] /\ OnlyOf(h) /\ handler'[h].at = "guard" /\ handler'[h].order = o
    BY <2>1, StartsBusy
  <2> QED BY <2>1, <2>2, GuardKnows
<1>12. ASSUME NEW i \in Offers, offer[i].status = "PENDING", NEW at \in {"claim", "refuse", "next", "expire"}, OffersOnlyEnd,
              Starts(h, Busy(at, offer[i].order, offer[i].rider, i, offer[i].attempt))
       PROVE  Goal
  <2>1. i \in Made /\ offer[i] \in OfferRow
    BY <1>12 DEF Made, Typed
  <2>2. Busy(at, offer[i].order, offer[i].rider, i, offer[i].attempt) \in Work
    BY <2>1 DEF OfferRow, Busy, Work
  <2>3. /\ handler' \in [Handler -> Work] /\ OnlyOf(h)
        /\ handler'[h].at = at /\ handler'[h].order = offer[i].order /\ handler'[h].rider = offer[i].rider /\ handler'[h].offer = i
    BY <1>12, <2>2, StartsBusy
  <2> QED BY <1>12, <2>1, <2>3, BegunKnows
<1>13. ASSUME NEW i \in Offers, Accept(h, i) PROVE Goal
  <2>1. offer[i].status = "PENDING" /\ OffersOnlyEnd
    BY <1>13, NoOfferEnds DEF Accept, tables
  <2>2. \E at \in {"claim", "refuse", "next", "expire"} : Starts(h, Busy(at, offer[i].order, offer[i].rider, i, offer[i].attempt))
    BY <1>13 DEF Accept
  <2> QED BY <1>12, <2>1, <2>2
<1>14. ASSUME NEW i \in Offers, Decline(h, i) PROVE Goal
  <2>1. offer[i].status = "PENDING" /\ OffersOnlyEnd
        /\ Starts(h, Busy("next", offer[i].order, offer[i].rider, i, offer[i].attempt))
    BY <1>14, OneOfferEnds DEF Decline, Made
  <2> QED BY <1>12, <2>1
<1>15. ASSUME NEW i \in Offers, OfferExpiry(h, i) PROVE Goal
  <2>1. CASE handler' = handler
    <3>1. handler'[h] = handler[h] /\ OffersOnlyEnd
      BY <1>15, <2>1, NoOfferEnds DEF OfferExpiry
    <3> QED BY <1>0, <2>1, <3>1, KnowledgeKept DEF OnlyOf, Typed
  <2>2. CASE Expires(i)
    <3>1. offer[i].status = "PENDING" /\ OffersOnlyEnd
          /\ Starts(h, Busy("expire", offer[i].order, offer[i].rider, i, offer[i].attempt))
      BY <1>15, <2>2, NoOfferEnds DEF OfferExpiry, Expires
    <3> QED BY <1>12, <3>1
  <2> QED BY <1>15, <2>1, <2>2 DEF OfferExpiry
<1>16. ASSUME NEW r \in dispatchScope.riders, ReadLocation(h, r) PROVE Goal
  <2>1. r \in Rider /\ rider[r] \in RiderStatus
    BY <1>16, ScopeParts DEF Typed
  <2>2. /\ handler' \in [Handler -> Work] /\ OnlyOf(h)
        /\ handler'[h].at = "saveRider" /\ handler'[h].rider = r /\ handler'[h].wave = {rider[r]}
    BY <1>16, <2>1, ReadLocationDoes
  <2> QED BY <2>1, <2>2 DEF KnowsOffer, KnowsWork, Holding
<1>17. ASSUME NEW r \in dispatchScope.riders, NEW o \in dispatchScope.orders, AdminAssign(h, o, r) PROVE Goal
  <2>1. r \in Rider /\ o \in Order /\ Busy("adminLock", o, r, 0, 0) \in Work /\ Starts(h, Busy("adminLock", o, r, 0, 0))
    BY <1>17, ScopeParts, DispatchAssumption DEF AdminAssign, Busy, Work
  <2>2. handler' \in [Handler -> Work] /\ OnlyOf(h) /\ handler'[h].at = "adminLock" /\ handler'[h].order = o /\ handler'[h].rider = r
    BY <2>1, StartsBusy
  <2> QED BY <2>1, <2>2 DEF KnowsOffer, KnowsWork, Holding
<1>18. CASE SupersedeOthers(h) \/ SaveLocation(h) \/ DispatchCrash(h)
  BY <1>1, <1>18 DEF SupersedeOthers, SaveLocation, DispatchCrash
<1> QED BY <1>1, <1>2, <1>3, <1>4, <1>5, <1>6, <1>7, <1>8, <1>9, <1>10, <1>11, <1>13, <1>14, <1>15, <1>16, <1>17, <1>18
  DEF HandlerActs, HandlerStep

LEMMA KnowsStep == ASSUME Typed, MadeInOrder, Knows, DispatchNext PROVE Knows'
<1>1. ASSUME NEW h \in Handler, HandlerActs(h) PROVE Knows'
  <2>1. OnlyOf(h) /\ KnowsOffer(h)' /\ KnowsWork(h)'
    BY <1>1, HandlerKnows
  <2>2. \/ OffersOnlyEnd
        \/ \E i \in Offers : /\ i \notin Made /\ Made' = Made \union {i}
                             /\ \A j \in Offers \ {i} : offer'[j] = offer[j]
    BY <1>1, OffersOfHandler, MadeCreated
  <2>3. ASSUME NEW g \in Handler \ {h} PROVE KnowsOffer(g)' /\ KnowsWork(g)'
    BY <2>1, <2>2, KnowledgeKept DEF Knows, OnlyOf
  <2> QED BY <2>1, <2>3 DEF Knows
<1>2. CASE OtherMove
  BY <1>2, OffersOfOthers, KnowledgeKept DEF Knows
<1> QED BY <1>1, <1>2, NextIs

-----------------------------------------------------------------------------
(* Types, step by step *)

LEMMA HandlerTypes ==
  ASSUME Typed, MadeInOrder, Knows, NEW h \in Handler, HandlerActs(h)
  PROVE  Typed'
<1>0. handler' \in [Handler -> Work]
  BY HandlerKnows
<1>1. offer' \in [Offers -> OfferRow]
  BY OffersOfHandler, MadeCreated DEF OffersOnlyEnd
<1>2. KnowsOffer(h) /\ KnowsWork(h) /\ handler[h] \in Work /\ handler[h].attempt \in 0..MaxAttempt
  BY DEF Knows, Typed, Work
<1>3. Made \subseteq Offers
  BY DEF Made
<1> USE DEF Typed
<1>4. CASE AttemptDispatch(h)
  <2>1. handler[h].order \in Order
    BY <1>2, <1>4 DEF AttemptDispatch, KnowsWork
  <2>2. \A k \in 0..MaxAttempt : k < MaxAttempt => k + 1 \in 0..MaxAttempt
    BY DispatchAssumption
  <2>3. retry' \subseteq Order \X (0..MaxAttempt) /\ retried' \subseteq Order
    <3>1. CASE UNCHANGED <<retry, retried>>
      BY <3>1
    <3>2. CASE AddRetry(handler[h].order, handler[h].attempt + 1) /\ handler[h].attempt < MaxAttempt
      BY <1>2, <2>1, <2>2, <3>2 DEF AddRetry
    <3> QED BY <1>4, <3>1, <3>2 DEF AttemptDispatch, RetriesEmptyPool
  <2> QED BY <1>0, <1>1, <1>4, <2>3, BoundsTyped DEF AttemptDispatch, bounds
<1>5. CASE CreateOffer(h)
  <2>1. rider' \in [Rider -> RiderStatus]
    BY <1>5, MadeCreated DEF RiderStatus
  <2> QED BY <1>0, <1>1, <1>5, <2>1 DEF CreateOffer, bounds
<1>6. CASE ScheduleExpiry(h)
  BY <1>0, <1>1, <1>2, <1>3, <1>6 DEF ScheduleExpiry, bounds, KnowsOffer, Holding
<1>7. CASE RefuseAccept(h) \/ ReleaseExpired(h)
  BY <1>0, <1>1, <1>7, FreedTyped DEF RefuseAccept, ReleaseExpired, bounds
<1>8. CASE ClaimOffer(h) \/ NextWave(h)
  BY <1>0, <1>1, <1>8 DEF ClaimOffer, NextWave, bounds, tables
<1>9. CASE MarkAssigned(h)
  BY <1>0, <1>1, <1>9 DEF MarkAssigned, bounds, RiderStatus
<1>10. CASE InsertAssignment(h)
  <2>1. handler[h].order \in Order /\ handler[h].rider \in Rider
    BY <1>2, <1>10 DEF InsertAssignment, KnowsOffer, KnowsWork, Holding, MadeInOrder
  <2> QED BY <1>0, <1>1, <1>10, <2>1 DEF InsertAssignment, bounds
<1>11. CASE SupersedeOthers(h)
  <2>1. handler[h].order \in Order
    BY <1>2, <1>11 DEF SupersedeOthers, KnowsWork
  <2>2. rider' \in [Rider -> RiderStatus]
    BY <1>11, FreedTyped DEF SupersedeOthers
  <2>3. news' \subseteq {"assigned", "unassigned", "pickedUp"} \X Order /\ expiry' \subseteq Offers
    BY <1>11, <2>1 DEF SupersedeOthers
  <2> QED BY <1>0, <1>1, <1>11, <2>2, <2>3 DEF SupersedeOthers, bounds
<1>12. CASE SaveExpired(h)
  <2>1. offer[handler[h].offer].order \in Order /\ offer[handler[h].offer].rider \in Rider
    BY <1>2, <1>12 DEF SaveExpired, KnowsOffer, Holding, MadeInOrder
  <2> QED BY <1>0, <1>1, <1>12, <2>1 DEF SaveExpired, bounds
<1>13. CASE SaveLocation(h)
  <2>1. rider' \in [Rider -> RiderStatus]
    BY <1>2, <1>13 DEF SaveLocation, KnowsWork
  <2> QED BY <1>0, <1>1, <1>13, <2>1 DEF SaveLocation, bounds
<1>14. CASE DispatchCrash(h)
  <2>1. rider' \in [Rider -> RiderStatus]
    BY <1>2, <1>14 DEF DispatchCrash, KnowsWork, RiderStatus
  <2> QED BY <1>0, <1>1, <1>14, <2>1, BoundsTyped DEF DispatchCrash
<1>15. ASSUME NEW o \in dispatchScope.orders, NEW k \in 0..MaxAttempt, StartJob(h, o, k) PROVE Typed'
  BY <1>0, <1>1, <1>15 DEF StartJob, bounds
<1>16. ASSUME NEW i \in Offers, Accept(h, i) PROVE Typed'
  BY <1>0, <1>1, <1>16, BoundsTyped DEF Accept, tables
<1>17. ASSUME NEW i \in Offers, Decline(h, i) PROVE Typed'
  <2>1. offer[i].order \in Order /\ offer[i].rider \in Rider
    BY <1>17 DEF Decline, Made, MadeInOrder
  <2> QED BY <1>0, <1>1, <1>17, <2>1, BoundsTyped, FreedTyped DEF Decline
<1>18. ASSUME NEW i \in Offers, OfferExpiry(h, i) PROVE Typed'
  BY <1>0, <1>1, <1>18 DEF OfferExpiry, bounds
<1>19. ASSUME NEW r \in dispatchScope.riders, ReadLocation(h, r) PROVE Typed'
  BY <1>0, <1>1, <1>19, BoundsTyped DEF ReadLocation, tables
<1>20. ASSUME NEW r \in dispatchScope.riders, NEW o \in dispatchScope.orders, AdminAssign(h, o, r) PROVE Typed'
  <2>1. rider' \in [Rider -> RiderStatus]
    BY <1>20, FreedTyped DEF AdminAssign, RiderStatus
  <2> QED BY <1>0, <1>1, <1>20, <2>1, BoundsTyped DEF AdminAssign, Supersede
<1> QED BY <1>4, <1>5, <1>6, <1>7, <1>8, <1>9, <1>10, <1>11, <1>12, <1>13, <1>14, <1>15, <1>16, <1>17, <1>18, <1>19, <1>20
  DEF HandlerActs, HandlerStep

LEMMA OtherTypes == ASSUME Typed, OtherMove PROVE Typed'
<1>0. offer' \in [Offers -> OfferRow] /\ handler' = handler
  BY OffersOfOthers DEF OffersOnlyEnd
<1>1. dispatchScope.orders \subseteq Order /\ dispatchScope.riders \subseteq Rider
  BY ScopeParts
<1> USE DEF Typed
<1>2. ASSUME NEW o \in Order, ReleaseForOrder(o)
      PROVE  /\ expiry' \subseteq Offers /\ active' \subseteq Order \X Rider /\ rider' \in [Rider -> RiderStatus]
             /\ news' \subseteq {"assigned", "unassigned", "pickedUp"} \X Order
  <2>1. expiry' \subseteq Offers /\ active' \subseteq Order \X Rider
    BY <1>2 DEF ReleaseForOrder, Supersede
  <2>2. rider' \in [Rider -> RiderStatus]
    BY <1>2, FreedTyped DEF ReleaseForOrder, RiderStatus
  <2>3. news' \subseteq news \union {<<"unassigned", o>>}
    BY <1>2 DEF ReleaseForOrder
  <2> QED BY <2>1, <2>2, <2>3
<1>3. ASSUME NEW o \in Order, OnCancelled(o) PROVE Typed'
  BY <1>0, <1>2, <1>3 DEF OnCancelled, bounds
<1>4. ASSUME NEW o \in Order, OnDelivered(o) PROVE Typed'
  BY <1>0, <1>4 DEF OnDelivered, bounds, RiderStatus
<1>5. ASSUME NEW o \in Order, NEW r \in Rider, ReleaseByRider(o, r) PROVE Typed'
  BY <1>0, <1>2, <1>5, BoundsTyped DEF ReleaseByRider
<1>6. ASSUME NEW o \in Order, NEW r \in Rider, ConfirmPickup(o, r) PROVE Typed'
  BY <1>0, <1>6, BoundsTyped DEF ConfirmPickup, RiderStatus
<1>7. ASSUME NEW o \in Order, NEW what \in {"assigned", "unassigned", "pickedUp"}, HearNews(o, what) PROVE Typed'
  <2>1. Told(o, what) \in {"ready", "assigned", "out", "over"}
    BY DEF Told
  <2> QED BY <1>0, <1>7, <2>1 DEF HearNews, bounds, tables
<1>8. ASSUME NEW o \in Order, NEW how \in {"cancelled", "delivered"}, OrderOver(o, how) PROVE Typed'
  BY <1>0, <1>8, BoundsTyped DEF OrderOver, tables
<1>9. ASSUME NEW r \in Rider, GoOffline(r) \/ PauseRider(r) \/ BeAvailable(r) PROVE Typed'
  BY <1>0, <1>9, BoundsTyped DEF GoOffline, PauseRider, BeAvailable, Supersede, RiderStatus
<1> QED BY <1>1, <1>3, <1>4, <1>5, <1>6, <1>7, <1>8, <1>9 DEF OtherMove

LEMMA TypedStep == ASSUME Typed, MadeInOrder, Knows, DispatchNext PROVE Typed'
BY HandlerTypes, OtherTypes, NextIs

-----------------------------------------------------------------------------
(* Every waiting offer is timed *)

LEMMA TimedBy ==
  ASSUME Timed, NEW h \in Handler, OnlyOf(h), crashed => crashed',
         \A i \in Offers : offer'[i].status = "PENDING" =>
           IF offer[i].status = "PENDING"
           THEN /\ i \in expiry => i \in expiry' \/ Times(h, i)'
                /\ Times(h, i) => i \in expiry' \/ crashed' \/ Times(h, i)'
           ELSE Times(h, i)'
  PROVE  Timed'
<1> SUFFICES ASSUME NEW i \in Offers, offer'[i].status = "PENDING"
             PROVE  i \in expiry' \/ crashed' \/ \E g \in Handler : Times(g, i)'
  BY DEF Timed
<1>1. CASE offer[i].status # "PENDING"
  BY <1>1
<1>2. CASE offer[i].status = "PENDING"
  <2>1. ASSUME NEW g \in Handler \ {h}, Times(g, i) PROVE Times(g, i)'
    BY <2>1 DEF Times, OnlyOf
  <2> QED BY <1>2, <2>1 DEF Timed
<1> QED BY <1>1, <1>2

\* most moves leave the jobs of waiting offers alone
LEMMA TimedAnyhow ==
  ASSUME Timed, NEW h \in Handler, OnlyOf(h), OffersOnlyEnd, handler[h].at \notin {"timer", "expire"}, crashed => crashed',
         \A i \in expiry : offer'[i].status = "PENDING" => i \in expiry'
  PROVE  Timed'
<1>1. \A i \in Offers : offer'[i].status = "PENDING" => offer[i].status = "PENDING" /\ ~Times(h, i)
  BY DEF OffersOnlyEnd, Times
<1> QED BY <1>1, TimedBy

LEMMA TimedHandler ==
  ASSUME Typed, MadeInOrder, Knows, Timed, NEW h \in Handler, HandlerActs(h)
  PROVE  Timed'
<1>0. OnlyOf(h) /\ KnowsOffer(h) /\ expiry \subseteq Offers
  BY HandlerKnows DEF Knows, Typed
<1>1. CASE AttemptDispatch(h) \/ ClaimOffer(h) \/ MarkAssigned(h) \/ InsertAssignment(h)
           \/ ReleaseExpired(h) \/ NextWave(h) \/ SaveLocation(h)
  <2>1. OffersOnlyEnd /\ expiry' = expiry /\ crashed' = crashed /\ handler[h].at \notin {"timer", "expire"}
    BY <1>1, OffersOfHandler
    DEF AttemptDispatch, ClaimOffer, MarkAssigned, InsertAssignment, ReleaseExpired, NextWave, SaveLocation, CreateOffer, history, tables
  <2> QED BY <1>0, <2>1, TimedAnyhow
<1>2. CASE CreateOffer(h)
  <2>1. handler[h].at = "offer" /\ expiry' = expiry /\ crashed' = crashed
    BY <1>2 DEF CreateOffer
  <2>2. PICK i \in Offers : /\ \A j \in Offers \ {i} : offer'[j] = offer[j]
                            /\ i \notin Made /\ handler'[h].at = "timer" /\ handler'[h].offer = i
    BY <1>2, MadeCreated
  <2>3. Times(h, i)' /\ \A j \in Offers : ~Times(h, j)
    BY <2>1, <2>2 DEF Times
  <2> QED BY <1>0, <2>1, <2>2, <2>3, TimedBy DEF Made
<1>3. CASE ScheduleExpiry(h)
  <2>1. offer' = offer /\ expiry' = expiry \union {handler[h].offer} /\ crashed' = crashed
    BY <1>3 DEF ScheduleExpiry, history
  <2> QED BY <1>0, <2>1, TimedBy DEF Times
<1>4. CASE RefuseAccept(h)
  <2> DEFINE i == handler[h].offer
  <2>1. handler[h].at = "refuse" /\ i \in Made /\ offer' = [offer EXCEPT ![i].status = "EXPIRED"]
        /\ expiry' = expiry \ {i} /\ crashed' = crashed
    BY <1>0, <1>4 DEF RefuseAccept, KnowsOffer, Holding, history
  <2>2. OffersOnlyEnd /\ offer'[i].status = "EXPIRED"
    BY <2>1, OneOfferEnds
  <2> QED BY <1>0, <2>1, <2>2, TimedAnyhow
<1>5. CASE SupersedeOthers(h)
  <2> DEFINE i == handler[h].offer
             gone == Pending(handler[h].order) \ {i}
  <2>1. handler[h].at = "supersede" /\ i \in Made /\ offer[i].status # "PENDING" /\ offer' = Superseded(gone)
        /\ expiry' = expiry \ (gone \union {i}) /\ crashed' = crashed
    BY <1>0, <1>5 DEF SupersedeOthers, KnowsOffer, Holding, history
  <2>2. OffersOnlyEnd /\ \A j \in gone : offer'[j].status = "SUPERSEDED"
    BY <2>1, PendingIsMade, OffersSuperseded
  <2>3. offer'[i].status # "PENDING"
    BY <2>1, <2>2 DEF OffersOnlyEnd, Made
  <2> HIDE DEF gone, i
  <2> QED BY <1>0, <2>1, <2>2, <2>3, TimedAnyhow
<1>6. CASE SaveExpired(h)
  <2> DEFINE i == handler[h].offer
  <2>1. handler[h].at = "expire" /\ i \in Made /\ offer' = [offer EXCEPT ![i].status = "EXPIRED"]
        /\ expiry' = expiry /\ crashed' = crashed
    BY <1>0, <1>6 DEF SaveExpired, KnowsOffer, Holding, history
  <2>2. OffersOnlyEnd /\ offer'[i].status = "EXPIRED" /\ \A j \in Offers \ {i} : ~Times(h, j)
    BY <2>1, OneOfferEnds DEF Times
  <2>3. \A j \in Offers : offer'[j].status = "PENDING" => offer[j].status = "PENDING" /\ j # i
    BY <2>2 DEF OffersOnlyEnd
  <2> HIDE DEF i
  <2> QED BY <1>0, <2>1, <2>2, <2>3, TimedBy
<1>7. CASE DispatchCrash(h)
  BY <1>7 DEF DispatchCrash, Timed
<1>8. ASSUME NEW i \in Offers, Decline(h, i) PROVE Timed'
  <2>1. OffersOnlyEnd
    BY <1>8, OneOfferEnds DEF Decline, Made
  <2>2. expiry' = expiry /\ crashed' = crashed /\ handler[h].at \notin {"timer", "expire"}
    BY <1>8, IdleTyped DEF Decline, history, Starts
  <2> QED BY <1>0, <2>1, <2>2, TimedAnyhow
<1>9. ASSUME NEW i \in Offers, OfferExpiry(h, i) PROVE Timed'
  <2>1. offer' = offer /\ expiry' = expiry \ {i} /\ crashed' = crashed /\ OffersOnlyEnd
    BY <1>9, NoOfferEnds DEF OfferExpiry, history
  <2>2. CASE Expires(i)
    <3>1. Starts(h, Busy("expire", offer[i].order, offer[i].rider, i, offer[i].attempt)) /\ handler[h].at = "idle"
      BY <1>9, <2>2, IdleTyped DEF OfferExpiry, Starts
    <3>2. handler'[h] = Busy("expire", offer[i].order, offer[i].rider, i, offer[i].attempt)
      BY <3>1 DEF Starts, Typed
    <3>3. Times(h, i)' /\ \A j \in Offers : ~Times(h, j)
      BY <3>1, <3>2 DEF Times, Busy
    <3> QED BY <1>0, <2>1, <3>3, TimedBy
  <2>3. CASE ~Expires(i)
    <3>1. handler' = handler /\ offer[i].status # "PENDING"
      BY <1>9, <2>3 DEF OfferExpiry, Expires
    <3>2. \A j \in Offers : Times(h, j) => Times(h, j)'
      BY <3>1 DEF Times
    <3> QED BY <1>0, <2>1, <3>1, <3>2, TimedBy
  <2> QED BY <2>2, <2>3
<1>10. ASSUME NEW i \in Offers, Accept(h, i) PROVE Timed'
  BY <1>0, <1>10, IdleTyped, NoOfferEnds, TimedAnyhow DEF Accept, tables, Starts
<1>11. ASSUME NEW o, NEW k, StartJob(h, o, k) PROVE Timed'
  BY <1>0, <1>11, IdleTyped, NoOfferEnds, TimedAnyhow DEF StartJob, history, Starts
<1>12. ASSUME NEW r, ReadLocation(h, r) PROVE Timed'
  BY <1>0, <1>12, IdleTyped, NoOfferEnds, TimedAnyhow DEF ReadLocation, history, tables, Starts
<1>13. ASSUME NEW r, NEW o, AdminAssign(h, o, r) PROVE Timed'
  <2>1. offer' = Superseded(Pending(o)) /\ expiry' = expiry \ Pending(o) /\ crashed' = crashed /\ handler[h].at \notin {"timer", "expire"}
    BY <1>13, IdleTyped DEF AdminAssign, Supersede, Starts
  <2>2. OffersOnlyEnd /\ \A j \in Pending(o) : offer'[j].status = "SUPERSEDED"
    BY <2>1, PendingIsMade, OffersSuperseded
  <2> QED BY <1>0, <2>1, <2>2, TimedAnyhow
<1> QED BY <1>1, <1>2, <1>3, <1>4, <1>5, <1>6, <1>7, <1>8, <1>9, <1>10, <1>11, <1>12, <1>13 DEF HandlerActs, HandlerStep

LEMMA TimedOther == ASSUME Typed, Timed, OtherMove PROVE Timed'
<1>0. OffersOnlyEnd /\ handler' = handler /\ expiry \subseteq Offers
  BY OffersOfOthers DEF Typed
<1>1. ASSUME NEW gone, gone \subseteq Made, Supersede(gone), crashed' = crashed PROVE Timed'
  <2>1. \A j \in gone : offer'[j].status = "SUPERSEDED"
    BY <1>1, OffersSuperseded DEF Supersede
  <2> QED BY <1>0, <1>1, <2>1 DEF Timed, Supersede, OffersOnlyEnd, Times
<1>2. ASSUME expiry' = expiry, crashed' = crashed PROVE Timed'
  BY <1>0, <1>2 DEF Timed, OffersOnlyEnd, Times
<1>3. ASSUME NEW o, OnCancelled(o) \/ \E r : ReleaseByRider(o, r) PROVE Timed'
  BY <1>1, <1>3, PendingIsMade DEF OnCancelled, ReleaseByRider, ReleaseForOrder, history
<1>4. ASSUME NEW r, PauseRider(r) PROVE Timed'
  BY <1>1, <1>4, PendingIsMade DEF PauseRider
<1>5. ASSUME NEW o, OnDelivered(o) \/ (\E r : ConfirmPickup(o, r)) \/ (\E what : HearNews(o, what)) \/ (\E how : OrderOver(o, how))
      PROVE  Timed'
  BY <1>2, <1>5 DEF OnDelivered, ConfirmPickup, HearNews, OrderOver, tables, history
<1>6. ASSUME NEW r, GoOffline(r) \/ BeAvailable(r) PROVE Timed'
  BY <1>2, <1>6 DEF GoOffline, BeAvailable, history
<1> QED BY <1>3, <1>4, <1>5, <1>6 DEF OtherMove

-----------------------------------------------------------------------------
(* How a handler comes to claim, to assign and to supersede *)

LEMMA MovesThere ==
  ASSUME Typed, MadeInOrder, Knows, NEW h \in Handler, HandlerActs(h)
  PROVE  \/ handler' = handler
         \/ handler'[h].at \notin {"claim", "assign", "lock", "adminLock", "supersede"}
         \/ ClaimOffer(h) /\ handler'[h].at = "assign"
         \/ MarkAssigned(h) /\ handler'[h].at = "lock"
         \/ InsertAssignment(h) /\ handler'[h].at = "supersede"
         \/ (\E i \in Offers : Accept(h, i)) /\ handler'[h].at \in {"claim", "refuse"}
         \/ (\E r \in dispatchScope.riders, o \in dispatchScope.orders : AdminAssign(h, o, r)) /\ handler'[h].at = "adminLock"
<1> DEFINE Away == handler'[h].at \notin {"claim", "assign", "lock", "adminLock", "supersede"}
<1>1. CASE Ends(h)
  BY <1>1, EndsDoes
<1>2. CASE AttemptDispatch(h)
  BY <1>2, AttemptDoes
<1>3. CASE CreateOffer(h)
  BY <1>3, MadeCreated
<1>4. ASSUME NEW at \in {"offer", "next", "release", "supersede", "assign", "lock"}, Goto(h, at) PROVE handler'[h].at = at
  BY <1>4, GotoDoes DEF Place
<1>5. CASE ScheduleExpiry(h) \/ RefuseAccept(h) \/ ClaimOffer(h) \/ MarkAssigned(h) \/ InsertAssignment(h) \/ SaveExpired(h)
  BY <1>1, <1>4, <1>5 DEF ScheduleExpiry, RefuseAccept, ClaimOffer, MarkAssigned, InsertAssignment, SaveExpired
<1>6. CASE ReleaseExpired(h) \/ NextWave(h)
  <2>1. MaybeNextWave(h) /\ handler[h].order \in Order
    BY <1>6 DEF ReleaseExpired, NextWave, Knows, KnowsWork
  <2> QED BY <2>1, MaybeNextWaveDoes
<1>7. ASSUME NEW at \in {"guard", "next", "expire"}, NEW o, NEW r, NEW i, NEW k, Starts(h, Busy(at, o, r, i, k)) PROVE Away
  <2>1. handler'[h] = Busy(at, o, r, i, k)
    BY <1>7 DEF Starts, Typed
  <2> QED BY <2>1 DEF Busy
<1>8. ASSUME NEW o, NEW k, StartJob(h, o, k) PROVE Away
  BY <1>7, <1>8 DEF StartJob
<1>9. ASSUME NEW i, Decline(h, i) PROVE Away
  BY <1>7, <1>9 DEF Decline
<1>10. ASSUME NEW i, OfferExpiry(h, i) PROVE Away \/ handler' = handler
  BY <1>7, <1>10 DEF OfferExpiry
<1>11. ASSUME NEW r \in dispatchScope.riders, ReadLocation(h, r) PROVE Away
  BY <1>11, ScopeParts, ReadLocationDoes
<1>12. CASE SupersedeOthers(h) \/ SaveLocation(h) \/ DispatchCrash(h)
  BY <1>1, <1>12 DEF SupersedeOthers, SaveLocation, DispatchCrash
<1>13. ASSUME NEW i, Accept(h, i) PROVE handler'[h].at \in {"claim", "refuse"}
  BY <1>13 DEF Accept, Starts, Busy, Typed
<1>14. ASSUME NEW r, NEW o, AdminAssign(h, o, r) PROVE handler'[h].at = "adminLock"
  BY <1>14 DEF AdminAssign, Starts, Busy, Typed
<1> QED BY <1>2, <1>3, <1>5, <1>6, <1>8, <1>9, <1>10, <1>11, <1>12, <1>13, <1>14 DEF HandlerActs, HandlerStep

-----------------------------------------------------------------------------
(* What is over stays over *)

LEMMA HistoryGrows ==
  ASSUME Typed, DispatchNext
  PROVE  /\ \A o \in Order : order[o] = "over" => order'[o] = "over"
         /\ forgotten \subseteq forgotten' /\ (crashed => crashed')
         /\ lost \subseteq lost' /\ stale \subseteq stale' /\ pressed \subseteq pressed'
<1> DEFINE Goal == /\ \A o \in Order : order[o] = "over" => order'[o] = "over"
                   /\ forgotten \subseteq forgotten' /\ (crashed => crashed')
                   /\ lost \subseteq lost' /\ stale \subseteq stale' /\ pressed \subseteq pressed'
<1>1. ASSUME NEW h \in Handler, HandlerStep(h) PROVE Goal
  <2>6. CASE AttemptDispatch(h)
    <3>1. forgotten \subseteq forgotten'
      BY <2>6 DEF AttemptDispatch, AddRetry
    <3> QED BY <2>6, <3>1 DEF AttemptDispatch
  <2>1. CASE ScheduleExpiry(h) \/ RefuseAccept(h) \/ ClaimOffer(h) \/ MarkAssigned(h)
    BY <2>1 DEF ScheduleExpiry, RefuseAccept, ClaimOffer, MarkAssigned, history
  <2>2. CASE SupersedeOthers(h) \/ SaveExpired(h) \/ ReleaseExpired(h) \/ NextWave(h)
    BY <2>2 DEF SupersedeOthers, SaveExpired, ReleaseExpired, NextWave, history
  <2>3. CASE CreateOffer(h)
    BY <2>3 DEF CreateOffer
  <2>4. CASE InsertAssignment(h)
    BY <2>4 DEF InsertAssignment
  <2>5. CASE SaveLocation(h)
    BY <2>5 DEF SaveLocation
  <2> QED BY <1>1, <2>1, <2>2, <2>3, <2>4, <2>5, <2>6 DEF HandlerStep
<1>2. ASSUME NEW h \in Handler, DispatchCrash(h) PROVE Goal
  BY <1>2 DEF DispatchCrash
<1>3. ASSUME NEW h, NEW o, NEW k, StartJob(h, o, k) PROVE Goal
  BY <1>3 DEF StartJob, history
<1>4. ASSUME NEW h, NEW i, Accept(h, i) \/ Decline(h, i) \/ OfferExpiry(h, i) PROVE Goal
  BY <1>4 DEF Accept, Decline, OfferExpiry, history
<1>5. ASSUME NEW h, NEW o, NEW r, ReadLocation(h, r) \/ AdminAssign(h, o, r) PROVE Goal
  BY <1>5 DEF ReadLocation, AdminAssign, history
<1>6. ASSUME NEW o, OnCancelled(o) \/ OnDelivered(o) \/ (\E r : ReleaseByRider(o, r)) \/ (\E r : ConfirmPickup(o, r)) PROVE Goal
  <2>1. CASE OnCancelled(o) \/ OnDelivered(o)
    BY <2>1 DEF OnCancelled, OnDelivered, history
  <2>2. ASSUME NEW r, ReleaseByRider(o, r) PROVE Goal
    BY <2>2 DEF ReleaseByRider
  <2>3. ASSUME NEW r, ConfirmPickup(o, r) PROVE Goal
    BY <2>3 DEF ConfirmPickup, history
  <2> QED BY <1>6, <2>1, <2>2, <2>3
<1>7. ASSUME NEW o \in Order, NEW what \in {"assigned", "unassigned", "pickedUp"}, HearNews(o, what) PROVE Goal
  BY <1>7 DEF HearNews, Told, history, Typed
<1>8. ASSUME NEW o, NEW how, OrderOver(o, how) PROVE Goal
  BY <1>8 DEF OrderOver, history, Typed
<1>9. ASSUME NEW r, GoOffline(r) \/ PauseRider(r) \/ BeAvailable(r) PROVE Goal
  BY <1>9 DEF GoOffline, PauseRider, BeAvailable, history
<1>10. ASSUME NEW h \in Handler, HandlerActs(h) PROVE Goal
  BY <1>1, <1>2, <1>3, <1>4, <1>5, <1>10 DEF HandlerActs
<1>11. CASE OtherMove
  BY <1>6, <1>7, <1>8, <1>9, <1>11, ScopeParts DEF OtherMove
<1> QED BY <1>10, <1>11, NextIs

LEMMA EndedStays == ASSUME Typed, DispatchNext, NEW o \in Order, EndedOr(o) PROVE EndedOr(o)'
BY HistoryGrows DEF EndedOr

LEMMA EndedIsForgotten == ASSUME NEW o \in Order, EndedOr(o)', order'[o] # "over" PROVE Forgotten(o)'
BY DEF EndedOr, Forgotten

\* handlers only add assignments, and only where they insert one
LEMMA ActiveOfHandler ==
  ASSUME NEW h \in Handler, HandlerActs(h)
  PROVE  /\ active \subseteq active' /\ ended' = ended
         /\ news' = news \/ news' = news \union {<<"assigned", handler[h].order>>}
         /\ order' = order
         /\ active' = active \/ InsertAssignment(h)
<1>1. CASE HandlerStep(h) \/ DispatchCrash(h)
  BY <1>1 DEF HandlerStep, AttemptDispatch, CreateOffer, ScheduleExpiry, RefuseAccept, ClaimOffer, MarkAssigned, InsertAssignment,
     SupersedeOthers, SaveExpired, ReleaseExpired, NextWave, SaveLocation, DispatchCrash, tables
<1>2. ASSUME NEW o, NEW k, StartJob(h, o, k) PROVE active' = active /\ ended' = ended /\ news' = news /\ order' = order
  BY <1>2 DEF StartJob
<1>3. ASSUME NEW i, Accept(h, i) \/ Decline(h, i) \/ OfferExpiry(h, i) PROVE active' = active /\ ended' = ended /\ news' = news /\ order' = order
  BY <1>3 DEF Accept, Decline, OfferExpiry, tables
<1>4. ASSUME NEW o, NEW r, ReadLocation(h, r) \/ AdminAssign(h, o, r) PROVE active' = active /\ ended' = ended /\ news' = news /\ order' = order
  BY <1>4 DEF ReadLocation, AdminAssign, tables
<1> QED BY <1>1, <1>2, <1>3, <1>4 DEF HandlerActs

LEMMA AssignmentEnds ==
  ASSUME Typed, NewsIsOf, DispatchNext, NEW o \in Order, Assigned(o)
  PROVE  Assigned(o)' \/ EndedOr(o)'
<1>1. ASSUME NEW h \in Handler, HandlerActs(h) PROVE Assigned(o)'
  BY <1>1, ActiveOfHandler DEF Assigned
<1>2. ASSUME NEW c \in Order, OnCancelled(c) \/ OnDelivered(c) PROVE Assigned(o)' \/ EndedOr(o)'
  <2>1. order[c] = "over" /\ active' = {a \in active : a[1] # c}
    BY <1>2 DEF OnCancelled, OnDelivered, ReleaseForOrder, NewsIsOf
  <2>2. CASE c = o
    BY <2>1, <2>2, EndedStays DEF EndedOr
  <2> QED BY <2>1, <2>2 DEF Assigned
<1>3. ASSUME NEW c \in Order, NEW r, ReleaseByRider(c, r) PROVE Assigned(o)' \/ EndedOr(o)'
  <2>1. <<"released", c>> \in forgotten' /\ active' = {a \in active : a[1] # c}
    BY <1>3 DEF ReleaseByRider, ReleaseForOrder
  <2>2. CASE c = o
    BY <2>1, <2>2 DEF EndedOr
  <2> QED BY <2>1, <2>2 DEF Assigned
<1>4. ASSUME active' = active PROVE Assigned(o)'
  BY <1>4 DEF Assigned
<1>5. ASSUME NEW c, (\E r : ConfirmPickup(c, r)) \/ (\E what : HearNews(c, what)) \/ (\E how : OrderOver(c, how)) PROVE active' = active
  BY <1>5 DEF ConfirmPickup, HearNews, OrderOver, tables
<1>6. ASSUME NEW r, GoOffline(r) \/ PauseRider(r) \/ BeAvailable(r) PROVE active' = active
  BY <1>6 DEF GoOffline, PauseRider, BeAvailable
<1> QED BY <1>1, <1>2, <1>3, <1>4, <1>5, <1>6, NextIs, ScopeParts DEF OtherMove

LEMMA NewsStep == ASSUME Typed, MadeInOrder, Knows, NewsIsOf, DispatchNext PROVE NewsIsOf'
<1>1. ASSUME NEW o \in Order, <<"unassigned", o>> \in news' PROVE EndedOr(o)'
  <2>1. CASE <<"unassigned", o>> \in news
    BY <2>1, EndedStays DEF NewsIsOf
  <2>2. CASE <<"unassigned", o>> \notin news
    <3>1. ASSUME NEW h \in Handler, HandlerActs(h) PROVE FALSE
      BY <1>1, <2>2, <3>1, ActiveOfHandler
    <3>2. ASSUME NEW c, ReleaseForOrder(c) PROVE c = o
      BY <1>1, <2>2, <3>2 DEF ReleaseForOrder
    <3>3. ASSUME NEW c \in Order, OnCancelled(c) PROVE EndedOr(o)'
      <4>1. c = o /\ order[c] = "over"
        BY <3>2, <3>3 DEF OnCancelled, NewsIsOf
      <4> QED BY <4>1, EndedStays DEF EndedOr
    <3>4. ASSUME NEW c \in Order, NEW r, ReleaseByRider(c, r) PROVE EndedOr(o)'
      BY <3>2, <3>4 DEF ReleaseByRider, EndedOr
    <3>5. ASSUME NEW c, OnDelivered(c) \/ (\E r : ConfirmPickup(c, r)) \/ (\E what : HearNews(c, what)) \/ (\E how : OrderOver(c, how))
          PROVE FALSE
      <4>1. OnDelivered(c) \/ (\E how : OrderOver(c, how)) => news' = news
        BY DEF OnDelivered, OrderOver
      <4>2. \A r : ConfirmPickup(c, r) => news' = news \union {<<"pickedUp", c>>}
        BY DEF ConfirmPickup
      <4>3. \A what : HearNews(c, what) => news' \subseteq news
        BY DEF HearNews
      <4> QED BY <1>1, <2>2, <3>5, <4>1, <4>2, <4>3
    <3>6. ASSUME NEW r, GoOffline(r) \/ PauseRider(r) \/ BeAvailable(r) PROVE FALSE
      BY <1>1, <2>2, <3>6 DEF GoOffline, PauseRider, BeAvailable
    <3> QED BY <3>1, <3>3, <3>4, <3>5, <3>6, NextIs, ScopeParts DEF OtherMove
  <2> QED BY <2>1, <2>2
<1>2. ASSUME NEW o \in Order, NEW how \in {"cancelled", "delivered"}, <<how, o>> \in ended' PROVE order'[o] = "over"
  <2>1. CASE <<how, o>> \in ended
    BY <2>1, HistoryGrows DEF NewsIsOf
  <2>2. CASE <<how, o>> \notin ended
    <3>1. ASSUME NEW h \in Handler, HandlerActs(h) PROVE FALSE
      BY <1>2, <2>2, <3>1, ActiveOfHandler
    <3>2. ASSUME NEW c \in Order, NEW end, OrderOver(c, end) PROVE order'[o] = "over"
      BY <1>2, <2>2, <3>2 DEF OrderOver, Typed
    <3>3. ASSUME NEW c, OnCancelled(c) \/ OnDelivered(c) \/ (\E r : ReleaseByRider(c, r) \/ ConfirmPickup(c, r)) \/ (\E what : HearNews(c, what))
          PROVE FALSE
      BY <1>2, <2>2, <3>3 DEF OnCancelled, OnDelivered, ReleaseByRider, ConfirmPickup, HearNews
    <3>4. ASSUME NEW r, GoOffline(r) \/ PauseRider(r) \/ BeAvailable(r) PROVE FALSE
      BY <1>2, <2>2, <3>4 DEF GoOffline, PauseRider, BeAvailable
    <3> QED BY <3>1, <3>2, <3>3, <3>4, NextIs, ScopeParts DEF OtherMove
  <2> QED BY <2>1, <2>2
<1>3. ASSUME NEW g \in Handler, handler'[g].at = "supersede" PROVE (Assigned(handler[g].order) \/ EndedOr(handler[g].order))'
  <2>1. CASE handler'[g] = handler[g]
    <3>1. Assigned(handler[g].order) \/ EndedOr(handler[g].order)
      BY <1>3, <2>1 DEF NewsIsOf
    <3>2. handler[g].order \in Order
      BY <1>3, <2>1 DEF Knows, KnowsWork
    <3>3. PICK o \in Order : o = handler[g].order
      BY <3>2
    <3>4. Assigned(o)' \/ EndedOr(o)'
      BY <3>1, <3>3, AssignmentEnds, EndedStays
    <3> QED BY <2>1, <3>3, <3>4 DEF Assigned, EndedOr
  <2>2. CASE handler'[g] # handler[g]
    <3>1. HandlerActs(g)
      BY <2>2, HandlerKnows, OffersOfOthers, NextIs DEF OnlyOf
    <3>2. InsertAssignment(g)
      BY <1>3, <3>1, <2>2, MovesThere
    <3>3. handler[g].order \in Order /\ handler[g].rider \in Rider
      BY <3>2 DEF InsertAssignment, Knows, KnowsOffer, KnowsWork, Holding, MadeInOrder
    <3>4. ~Ends(g)
      BY <1>3, EndsDoes
    <3>5. <<handler[g].order, handler[g].rider>> \in active' /\ Goto(g, "supersede")
      BY <3>2, <3>4 DEF InsertAssignment
    <3>6. handler'[g].order = handler[g].order
      BY <3>5, GotoDoes DEF Place, StaysAtWork
    <3> QED BY <3>3, <3>5, <3>6 DEF Assigned
  <2> QED BY <2>1, <2>2
<1>4. (\A h \in Handler : handler[h].at = "supersede" => Assigned(handler[h].order) \/ EndedOr(handler[h].order))'
  BY <1>3 DEF Assigned, EndedOr
<1> QED BY <1>1, <1>2, <1>4 DEF NewsIsOf

-----------------------------------------------------------------------------
(* Every ready order is waited for *)

LEMMA PendingCovers ==
  ASSUME Timed', Knows', NEW o \in Order, Pending(o)' # {}
  PROVE  Covered(o)'
<1>1. PICK i \in Offers : offer'[i].status = "PENDING" /\ offer'[i].order = o
  BY DEF Pending
<1>2. i \in expiry' \/ crashed' \/ \E h \in Handler : Times(h, i)'
  BY <1>1 DEF Timed
<1>3. ASSUME NEW h \in Handler, Times(h, i)' PROVE Keeps(h, o)'
  BY <1>1, <1>3 DEF Times, Keeps, Knows, KnowsOffer, Holding
<1> QED BY <1>1, <1>2, <1>3 DEF Covered

LEMMA ForgottenGrows == ASSUME forgotten \subseteq forgotten', NEW o, Forgotten(o) PROVE Forgotten(o)'
BY DEF Forgotten

\* whoever ends an offer that waits takes its order on, but where the order
\* has a rider, is over or is given up
LEMMA EnderCovers ==
  ASSUME Typed, MadeInOrder, Knows, NewsIsOf, DispatchNext, NEW h \in Handler, HandlerActs(h), NEW o \in Order, order'[o] # "over",
         NEW i \in Offers, offer[i].status = "PENDING", offer[i].order = o, offer'[i].status # "PENDING"
  PROVE  Covered(o)'
<1>0. KnowsOffer(h) /\ offer' # offer
  BY DEF Knows
<1>1. CASE RefuseAccept(h) \/ SaveExpired(h) \/ ClaimOffer(h)
  <2>1. PICK at \in {"next", "release", "assign"}, status \in {"EXPIRED", "ACCEPTED"} :
           Goto(h, at) /\ offer' = [offer EXCEPT ![handler[h].offer].status = status] /\ handler[h].at \in Holding \ {"timer"}
    BY <1>0, <1>1 DEF RefuseAccept, SaveExpired, ClaimOffer, Holding
  <2>2. i = handler[h].offer
    BY <2>1 DEF Typed
  <2>3. handler[h].order = o
    BY <1>0, <2>1, <2>2 DEF KnowsOffer
  <2>4. handler'[h].at = at /\ handler'[h].order = o
    BY <2>1, <2>3, GotoDoes DEF Place, StaysAtWork
  <2> QED BY <2>4 DEF Covered, Keeps
<1>2. CASE SupersedeOthers(h)
  <2>1. offer' = Superseded(Pending(handler[h].order) \ {handler[h].offer}) /\ handler[h].at = "supersede"
    BY <1>2 DEF SupersedeOthers
  <2>2. i \in Pending(handler[h].order)
    BY <2>1 DEF Superseded
  <2>3. handler[h].order = o
    BY <2>2 DEF Pending
  <2>4. Assigned(o) \/ EndedOr(o)
    BY <2>1, <2>3 DEF NewsIsOf
  <2>5. Assigned(o)' \/ EndedOr(o)'
    BY <2>4, AssignmentEnds, EndedStays
  <2> QED BY <2>5, EndedIsForgotten DEF Covered
<1>3. ASSUME NEW j \in Offers, Decline(h, j) PROVE Covered(o)'
  <2>1. i = j
    BY <1>3 DEF Decline, Typed
  <2>2. Starts(h, Busy("next", o, offer[j].rider, j, offer[j].attempt))
    BY <1>3, <2>1 DEF Decline
  <2>3. handler'[h].at = "next" /\ handler'[h].order = o
    BY <2>2 DEF Starts, Busy, Typed
  <2> QED BY <2>3 DEF Covered, Keeps
<1>4. ASSUME NEW r, NEW c, AdminAssign(h, c, r) PROVE Covered(o)'
  <2>1. offer' = Superseded(Pending(c))
    BY <1>4 DEF AdminAssign, Supersede
  <2>2. c = o
    BY <2>1 DEF Superseded, Pending
  <2>3. handler'[h].at = "adminLock" /\ handler'[h].order = o
    BY <1>4, <2>2 DEF AdminAssign, Starts, Busy, Typed
  <2> QED BY <2>3 DEF Covered, Keeps
<1>5. ~CreateOffer(h)
  <2>1. ASSUME CreateOffer(h) PROVE FALSE
    <3>1. PICK j \in Offers : j \notin Made /\ \A n \in Offers \ {j} : offer'[n] = offer[n]
      BY <2>1, MadeCreated
    <3> QED BY <3>1 DEF Made
  <2> QED BY <2>1
<1>6. ASSUME \/ \E c, k : StartJob(h, c, k)
             \/ \E j \in Offers : Accept(h, j) \/ OfferExpiry(h, j)
             \/ \E r : ReadLocation(h, r)
      PROVE  FALSE
  BY <1>0, <1>6 DEF StartJob, Accept, OfferExpiry, ReadLocation, tables
<1>7. CASE AttemptDispatch(h) \/ ScheduleExpiry(h) \/ MarkAssigned(h) \/ InsertAssignment(h)
           \/ ReleaseExpired(h) \/ NextWave(h) \/ SaveLocation(h) \/ DispatchCrash(h)
  BY <1>0, <1>7 DEF AttemptDispatch, ScheduleExpiry, MarkAssigned, InsertAssignment, ReleaseExpired, NextWave,
     SaveLocation, DispatchCrash, tables
<1> QED BY <1>1, <1>2, <1>3, <1>4, <1>5, <1>6, <1>7 DEF HandlerActs, HandlerStep

\* a retry waits, this one or the one whose id is taken, or is known to be dropped
LEMMA RetryIsAdded ==
  ASSUME Typed, NEW o \in Order, NEW k \in 0..MaxAttempt, AddRetry(o, k)
  PROVE  (\E j \in 0..MaxAttempt : <<o, j>> \in retry') \/ <<"dropped", o>> \in forgotten'
<1>1. CASE <<o, k>> \in retry'
  BY <1>1
<1>2. CASE retry' = retry /\ Retries(o) # {}
  <2>1. PICK job \in retry : job[1] = o
    BY <1>2 DEF Retries
  <2>2. job = <<o, job[2]>> /\ job[2] \in 0..MaxAttempt
    BY <2>1 DEF Typed
  <2> QED BY <1>2, <2>1, <2>2
<1>3. CASE <<"dropped", o>> \in forgotten'
  BY <1>3
<1> QED BY <1>1, <1>2, <1>3 DEF AddRetry

\* a handler that keeps an order keeps it or hands it on
LEMMA KeeperHandsOn ==
  ASSUME Typed, MadeInOrder, Knows, NewsIsOf, DispatchNext, Timed', Knows', NEW h \in Handler, HandlerActs(h),
         NEW o \in Order, order[o] = "ready", Keeps(h, o)
  PROVE  Covered(o)'
<1>0. KnowsOffer(h) /\ KnowsWork(h) /\ handler[h].order = o /\ handler[h].at # "idle" /\ handler[h].attempt \in 0..MaxAttempt
  BY DEF Knows, Keeps, Typed, Work
<1>1. ASSUME NEW at \in {"next", "release", "lock", "offer"}, Goto(h, at) PROVE Covered(o)'
  <2>1. handler'[h].at = at /\ handler'[h].order = o
    BY <1>0, <1>1, GotoDoes DEF Place, StaysAtWork
  <2> QED BY <2>1 DEF Covered, Keeps
<1>2. CASE AttemptDispatch(h)
  <2>4. CASE <<"unread", o>> \in forgotten'
    BY <2>4 DEF Covered, Forgotten
  <2>1. CASE ~Dispatchable(o)
    <3>1. CASE Assigned(o)
      BY <3>1, <1>2 DEF AttemptDispatch, Covered, Assigned
    <3>2. CASE Pending(o) # {}
      <4>1. Pending(o)' # {}
        BY <3>2, <1>2 DEF AttemptDispatch, Pending
      <4> QED BY <4>1, PendingCovers
    <3> QED BY <2>1, <3>1, <3>2 DEF Dispatchable
  <2>2. CASE Dispatchable(o) /\ Pool(o) = {}
    <3>1. \/ handler[h].attempt < MaxAttempt /\ AddRetry(o, handler[h].attempt + 1)
          \/ <<"gaveUp", o>> \in forgotten' \/ <<"unread", o>> \in forgotten'
      BY <1>0, <1>2, <2>2 DEF AttemptDispatch, RetriesEmptyPool
    <3>2. handler[h].attempt < MaxAttempt => handler[h].attempt + 1 \in 0..MaxAttempt
      BY <1>0, DispatchAssumption
    <3> QED BY <3>1, <3>2, RetryIsAdded DEF Covered, Forgotten
  <2>3. CASE Dispatchable(o) /\ Pool(o) # {} /\ <<"unread", o>> \notin forgotten'
    <3>1. \E W \in Waves(o) : handler' = [handler EXCEPT ![h].at = "offer", ![h].wave = W]
      BY <1>0, <1>2, <2>3 DEF AttemptDispatch
    <3>2. handler'[h].at = "offer"
      BY <3>1 DEF Typed, Work
    <3>3. StaysAtWork(h)
      BY <1>2, <3>2, AttemptDoes
    <3> QED BY <1>0, <3>2, <3>3 DEF Covered, Keeps, StaysAtWork
  <2> QED BY <2>1, <2>2, <2>3, <2>4
<1>3. CASE CreateOffer(h)
  <2>1. PICK i \in Offers : /\ offer'[i].status = "PENDING" /\ StaysAtWork(h)
                            /\ handler'[h].at = "timer" /\ handler'[h].offer = i
    BY <1>3, MadeCreated
  <2> QED BY <1>0, <2>1 DEF Covered, Keeps, StaysAtWork
<1>4. CASE ScheduleExpiry(h)
  <2>1. CASE handler[h].wave # {}
    BY <1>1, <1>4, <2>1 DEF ScheduleExpiry
  <2>2. CASE handler[h].wave = {}
    <3>1. handler[h].at = "timer" /\ offer[handler[h].offer].status = "PENDING"
      BY <1>4, <2>2 DEF ScheduleExpiry, Keeps
    <3>2. handler[h].offer \in Offers /\ offer[handler[h].offer].order = o
      BY <1>0, <3>1 DEF KnowsOffer, Holding, Made
    <3>3. handler[h].offer \in expiry' /\ offer' = offer
      BY <1>4 DEF ScheduleExpiry
    <3> QED BY <3>1, <3>2, <3>3 DEF Covered
  <2> QED BY <2>1, <2>2
<1>5. CASE RefuseAccept(h) \/ MarkAssigned(h) \/ SaveExpired(h)
  BY <1>1, <1>5 DEF RefuseAccept, MarkAssigned, SaveExpired
<1>6. CASE InsertAssignment(h)
  <2>1. handler[h].rider \in Rider
    BY <1>0, <1>6 DEF InsertAssignment, KnowsOffer, KnowsWork, Holding, MadeInOrder
  <2>2. Assigned(o)'
    BY <1>0, <1>6, <2>1 DEF InsertAssignment, Assigned
  <2> QED BY <2>2 DEF Covered
<1>7. CASE ReleaseExpired(h) \/ NextWave(h)
  <2>1. MaybeNextWave(h) /\ offer' = offer /\ active' = active
    BY <1>7 DEF ReleaseExpired, NextWave, tables
  <2>2. CASE handler'[h].at = "guard" /\ handler'[h].order = o
    BY <2>2 DEF Covered, Keeps
  <2>3. CASE Assigned(o)
    BY <2>1, <2>3 DEF Covered, Assigned
  <2>4. CASE Pending(o) # {}
    <3>1. Pending(o)' # {}
      BY <2>1, <2>4 DEF Pending
    <3> QED BY <3>1, PendingCovers
  <2> QED BY <1>0, <2>1, <2>2, <2>3, <2>4, MaybeNextWaveDoes
<1>8. CASE DispatchCrash(h)
  BY <1>8 DEF DispatchCrash, Covered
<1>9. CASE ClaimOffer(h) \/ SupersedeOthers(h) \/ SaveLocation(h)
  BY <1>9 DEF ClaimOffer, SupersedeOthers, SaveLocation, Keeps
<1>10. ASSUME NEW w, Starts(h, w) PROVE FALSE
  BY <1>0, <1>10, IdleTyped DEF Starts
<1>11. ASSUME NEW i, OfferExpiry(h, i) PROVE Covered(o)'
  <2>1. handler' = handler /\ offer' = offer
    BY <1>10, <1>11 DEF OfferExpiry
  <2> QED BY <2>1 DEF Covered, Keeps
<1>12. ASSUME NEW i, Accept(h, i) \/ Decline(h, i) PROVE FALSE
  BY <1>10, <1>12 DEF Accept, Decline
<1>13. ASSUME NEW c, NEW k, NEW r, StartJob(h, c, k) \/ ReadLocation(h, r) \/ AdminAssign(h, c, r) PROVE FALSE
  BY <1>10, <1>13 DEF StartJob, ReadLocation, AdminAssign
<1> QED BY <1>2, <1>3, <1>4, <1>5, <1>6, <1>7, <1>8, <1>9, <1>11, <1>12, <1>13 DEF HandlerActs, HandlerStep

\* a job that is taken from an offer that waits, or from an order, is handled
LEMMA JobsTaken ==
  ASSUME Typed, MadeInOrder, Knows, NEW h \in Handler, HandlerActs(h), NEW o \in Order
  PROVE  /\ \A i \in expiry : offer[i].status = "PENDING" /\ offer[i].order = o /\ offer'[i] = offer[i] => i \in expiry' \/ Keeps(h, o)'
         /\ \A k \in 0..MaxAttempt : <<o, k>> \in retry => (\E j \in 0..MaxAttempt : <<o, j>> \in retry') \/ Keeps(h, o)'
<1> DEFINE Goal == /\ \A i \in expiry : offer[i].status = "PENDING" /\ offer[i].order = o /\ offer'[i] = offer[i] => i \in expiry' \/ Keeps(h, o)'
                   /\ \A k \in 0..MaxAttempt : <<o, k>> \in retry => (\E j \in 0..MaxAttempt : <<o, j>> \in retry') \/ Keeps(h, o)'
<1>1. CASE retry \subseteq retry' /\ expiry \subseteq expiry'
  BY <1>1
<1>10. CASE AttemptDispatch(h)
  <2> DEFINE c == handler[h].order
             n == handler[h].attempt + 1
  <2>1. expiry' = expiry
    BY <1>10 DEF AttemptDispatch
  <2>2. CASE retry' = retry
    BY <1>1, <2>1, <2>2
  <2>3. CASE AddRetry(c, n) /\ handler[h].attempt < MaxAttempt
    <3>1. n \in 0..MaxAttempt
      BY <2>3, DispatchAssumption DEF Typed, Work
    <3> HIDE DEF n
    <3>2. retry \subseteq retry' \/ (<<c, n>> \in retry' /\ \A k : <<o, k>> \in retry => <<o, k>> \in retry' \/ c = o)
      BY <2>3 DEF AddRetry, Retries
    <3> QED BY <2>1, <3>1, <3>2
  <2> QED BY <1>10, <2>2, <2>3 DEF AttemptDispatch, RetriesEmptyPool
<1>2. CASE CreateOffer(h) \/ ScheduleExpiry(h) \/ ClaimOffer(h) \/ MarkAssigned(h) \/ InsertAssignment(h)
           \/ SaveExpired(h) \/ ReleaseExpired(h) \/ NextWave(h) \/ SaveLocation(h) \/ DispatchCrash(h)
  <2>1. retry \subseteq retry' /\ expiry \subseteq expiry'
    BY <1>2 DEF CreateOffer, ScheduleExpiry, ClaimOffer, MarkAssigned, InsertAssignment,
       SaveExpired, ReleaseExpired, NextWave, SaveLocation, DispatchCrash, tables
  <2> QED BY <1>1, <2>1
<1>3. CASE RefuseAccept(h)
  <2>1. handler[h].offer \in Made
    BY <1>3 DEF RefuseAccept, Knows, KnowsOffer, Holding
  <2>2. offer' = [offer EXCEPT ![handler[h].offer].status = "EXPIRED"] /\ expiry' = expiry \ {handler[h].offer} /\ retry' = retry
    BY <1>3 DEF RefuseAccept
  <2>3. offer'[handler[h].offer].status = "EXPIRED"
    BY <2>1, <2>2, OneOfferEnds
  <2> QED BY <2>2, <2>3
<1>4. CASE SupersedeOthers(h)
  <2>1. /\ offer' = Superseded(Pending(handler[h].order) \ {handler[h].offer})
        /\ expiry' = expiry \ (Pending(handler[h].order) \union {handler[h].offer}) /\ retry' = retry
        /\ offer[handler[h].offer].status # "PENDING"
    BY <1>4 DEF SupersedeOthers, Knows, KnowsOffer, Holding
  <2>2. \A i \in Pending(handler[h].order) \ {handler[h].offer} : offer'[i].status = "SUPERSEDED"
    BY <2>1, PendingIsMade, OffersSuperseded
  <2> QED BY <2>1, <2>2
<1>5. ASSUME NEW i \in Offers, OfferExpiry(h, i) PROVE Goal
  <2>1. expiry' = expiry \ {i} /\ retry' = retry
    BY <1>5 DEF OfferExpiry
  <2>2. ASSUME offer[i].status = "PENDING", offer[i].order = o PROVE Keeps(h, o)'
    <3>1. Starts(h, Busy("expire", o, offer[i].rider, i, offer[i].attempt))
      BY <1>5, <2>2 DEF OfferExpiry, Expires
    <3> QED BY <3>1 DEF Starts, Busy, Typed, Keeps
  <2> QED BY <2>1, <2>2
<1>6. ASSUME NEW r, NEW c, AdminAssign(h, c, r) PROVE Goal
  <2>1. offer' = Superseded(Pending(c)) /\ expiry' = expiry \ Pending(c) /\ retry' = retry
    BY <1>6 DEF AdminAssign, Supersede
  <2>2. \A i \in Pending(c) : offer'[i].status = "SUPERSEDED"
    BY <2>1, PendingIsMade, OffersSuperseded
  <2>3. \A i \in Pending(c) : offer[i].status = "PENDING"
    BY DEF Pending
  <2> QED BY <2>1, <2>2, <2>3
<1>7. ASSUME NEW c, NEW k, StartJob(h, c, k) PROVE Goal
  <2>1. retry' = retry \ {<<c, k>>} /\ expiry' = expiry /\ handler'[h] = Busy("guard", c, "none", 0, k)
    BY <1>7 DEF StartJob, Starts, Typed
  <2>2. c = o => Keeps(h, o)'
    BY <2>1 DEF Busy, Keeps
  <2> QED BY <2>1, <2>2
<1>8. ASSUME NEW i, Accept(h, i) \/ Decline(h, i) PROVE Goal
  BY <1>1, <1>8 DEF Accept, Decline, tables
<1>9. ASSUME NEW r, ReadLocation(h, r) PROVE Goal
  BY <1>1, <1>9 DEF ReadLocation, tables
<1> QED BY <1>10, <1>2, <1>3, <1>4, <1>5, <1>6, <1>7, <1>8, <1>9 DEF HandlerActs, HandlerStep

LEMMA WaitedHandler ==
  ASSUME Typed, MadeInOrder, Knows, NewsIsOf, Waited, DispatchNext, Timed', Knows', NEW h \in Handler, HandlerActs(h)
  PROVE  Waited'
<1> SUFFICES ASSUME NEW o \in Order, order'[o] = "ready" PROVE Covered(o)'
  BY DEF Waited
<1>0. order' = order /\ Covered(o) /\ OnlyOf(h)
  BY ActiveOfHandler, HandlerKnows DEF Waited
<1>1. CASE Assigned(o)
  BY <1>1, AssignmentEnds, EndedIsForgotten DEF Covered
<1>2. CASE Forgotten(o) \/ crashed
  BY <1>2, HistoryGrows, ForgottenGrows DEF Covered
<1>3. ASSUME NEW i \in expiry, offer[i].status = "PENDING", offer[i].order = o PROVE Covered(o)'
  <2>1. i \in Offers
    BY DEF Typed
  <2>2. CASE offer'[i].status # "PENDING"
    BY <1>3, <2>1, <2>2, EnderCovers
  <2>3. CASE offer'[i].status = "PENDING"
    <3>1. offer'[i] = offer[i]
      BY <1>3, <2>1, <2>3, OffersOfHandler, MadeCreated DEF OffersOnlyEnd, Made
    <3> QED BY <1>3, <2>3, <3>1, JobsTaken DEF Covered
  <2> QED BY <2>2, <2>3
<1>4. ASSUME NEW g \in Handler, Keeps(g, o) PROVE Covered(o)'
  <2>1. CASE g = h
    BY <1>0, <1>4, <2>1, KeeperHandsOn
  <2>2. CASE g # h /\ Keeps(g, o)'
    BY <2>2 DEF Covered
  <2>3. CASE g # h /\ ~Keeps(g, o)'
    <3> DEFINE i == handler[g].offer
    <3>1. handler'[g] = handler[g]
      BY <1>0, <2>3 DEF OnlyOf
    <3>2. handler[g].at = "timer" /\ offer[i].status = "PENDING" /\ offer'[i].status # "PENDING" /\ handler[g].order = o
      BY <1>4, <2>3, <3>1 DEF Keeps
    <3>3. i \in Offers /\ offer[i].order = o
      BY <3>2 DEF Knows, KnowsOffer, Holding, Made
    <3> HIDE DEF i
    <3> QED BY <3>2, <3>3, EnderCovers
  <2> QED BY <2>1, <2>2, <2>3
<1>5. ASSUME NEW k \in 0..MaxAttempt, <<o, k>> \in retry PROVE Covered(o)'
  BY <1>5, JobsTaken DEF Covered
<1> QED BY <1>0, <1>1, <1>2, <1>3, <1>4, <1>5 DEF Covered

\* what ends an offer that is no handler's says why
LEMMA EndedByOthers ==
  ASSUME Typed, NewsIsOf, OtherMove, NEW o \in Order, order'[o] # "over",
         NEW i \in Offers, offer[i].status = "PENDING", offer[i].order = o,
         offer'[i].status # "PENDING" \/ (i \in expiry /\ i \notin expiry')
  PROVE  Forgotten(o)'
<1>0. DispatchNext
  BY NextIs
<1>1. ASSUME NEW c \in Order, ReleaseForOrder(c) PROVE c = o
  BY <1>1 DEF ReleaseForOrder, Supersede, Superseded, Pending
<1>2. ASSUME NEW c \in Order, OnCancelled(c) PROVE Forgotten(o)'
  <2>1. c = o /\ order[c] = "over"
    BY <1>1, <1>2 DEF OnCancelled, NewsIsOf
  <2> QED BY <1>0, <2>1, HistoryGrows
<1>3. ASSUME NEW c \in Order, NEW r, ReleaseByRider(c, r) PROVE Forgotten(o)'
  BY <1>1, <1>3 DEF ReleaseByRider, Forgotten
<1>4. ASSUME NEW r, PauseRider(r) PROVE Forgotten(o)'
  <2>1. i \in PendingOf(r)
    BY <1>4 DEF PauseRider, Supersede, Superseded
  <2> QED BY <1>4, <2>1 DEF PauseRider, Forgotten
<1>5. ASSUME NEW c, OnDelivered(c) \/ (\E r : ConfirmPickup(c, r)) \/ (\E what : HearNews(c, what)) \/ (\E how : OrderOver(c, how))
      PROVE  FALSE
  BY <1>5 DEF OnDelivered, ConfirmPickup, HearNews, OrderOver, tables
<1>6. ASSUME NEW r, GoOffline(r) \/ BeAvailable(r) PROVE FALSE
  BY <1>6 DEF GoOffline, BeAvailable
<1> QED BY <1>2, <1>3, <1>4, <1>5, <1>6, ScopeParts DEF OtherMove

LEMMA WaitedOther ==
  ASSUME Typed, MadeInOrder, Knows, NewsIsOf, Waited, OtherMove
  PROVE  Waited'
<1> SUFFICES ASSUME NEW o \in Order, order'[o] = "ready" PROVE Covered(o)'
  BY DEF Waited
<1>0. DispatchNext /\ handler' = handler /\ OffersOnlyEnd
  BY NextIs, OffersOfOthers
<1>1. retry' = retry
  <2>1. ASSUME NEW c, OnCancelled(c) \/ OnDelivered(c) \/ (\E r : ReleaseByRider(c, r) \/ ConfirmPickup(c, r))
        PROVE retry' = retry
    BY <2>1 DEF OnCancelled, OnDelivered, ReleaseByRider, ConfirmPickup
  <2>2. ASSUME NEW c, (\E what : HearNews(c, what)) \/ (\E how : OrderOver(c, how)) PROVE retry' = retry
    BY <2>2 DEF HearNews, OrderOver, tables
  <2>3. ASSUME NEW r, GoOffline(r) \/ PauseRider(r) \/ BeAvailable(r) PROVE retry' = retry
    BY <2>3 DEF GoOffline, PauseRider, BeAvailable
  <2> QED BY <2>1, <2>2, <2>3 DEF OtherMove
<1>2. CASE order[o] # "ready"
  <2>1. ASSUME NEW c \in Order, NEW what \in {"assigned", "unassigned", "pickedUp"}, HearNews(c, what) PROVE Covered(o)'
    <3>1. c = o /\ what = "unassigned" /\ order[o] = "assigned" /\ <<"unassigned", o>> \in news
      BY <1>2, <2>1 DEF HearNews, Told, Typed
    <3>2. <<"released", o>> \in forgotten
      BY <3>1 DEF NewsIsOf, EndedOr
    <3> QED BY <1>0, <3>2, HistoryGrows DEF Covered, Forgotten
  <2>2. ASSUME NEW c, OnCancelled(c) \/ OnDelivered(c) \/ (\E r : ReleaseByRider(c, r) \/ ConfirmPickup(c, r))
        PROVE FALSE
    BY <1>2, <2>2 DEF OnCancelled, OnDelivered, ReleaseByRider, ConfirmPickup
  <2>3. ASSUME NEW c, NEW how, OrderOver(c, how) PROVE FALSE
    BY <1>2, <2>3 DEF OrderOver, Typed
  <2>4. ASSUME NEW r, GoOffline(r) \/ PauseRider(r) \/ BeAvailable(r) PROVE FALSE
    BY <1>2, <2>4 DEF GoOffline, PauseRider, BeAvailable
  <2> QED BY <2>1, <2>2, <2>3, <2>4, ScopeParts DEF OtherMove
<1>3. CASE order[o] = "ready"
  <2>1. Covered(o)
    BY <1>3 DEF Waited
  <2>2. CASE Assigned(o)
    BY <1>0, <2>2, AssignmentEnds, EndedIsForgotten DEF Covered
  <2>3. CASE Forgotten(o) \/ crashed
    BY <1>0, <2>3, HistoryGrows, ForgottenGrows DEF Covered
  <2>4. ASSUME NEW i \in expiry, offer[i].status = "PENDING", offer[i].order = o PROVE Covered(o)'
    <3>1. i \in Offers
      BY DEF Typed
    <3>2. CASE offer'[i].status # "PENDING" \/ i \notin expiry'
      BY <2>4, <3>1, <3>2, EndedByOthers DEF Covered
    <3>3. CASE offer'[i].status = "PENDING" /\ i \in expiry'
      BY <1>0, <2>4, <3>1, <3>3 DEF Covered, OffersOnlyEnd
    <3> QED BY <3>2, <3>3
  <2>5. ASSUME NEW g \in Handler, Keeps(g, o) PROVE Covered(o)'
    <3>1. CASE Keeps(g, o)'
      BY <3>1 DEF Covered
    <3>2. CASE ~Keeps(g, o)'
      <4> DEFINE i == handler[g].offer
      <4>1. handler[g].at = "timer" /\ offer[i].status = "PENDING" /\ offer'[i].status # "PENDING"
        BY <1>0, <2>5, <3>2 DEF Keeps
      <4>2. i \in Offers /\ offer[i].order = o
        BY <2>5, <4>1 DEF Knows, KnowsOffer, Holding, Made, Keeps
      <4> HIDE DEF i
      <4> QED BY <4>1, <4>2, EndedByOthers DEF Covered
    <3> QED BY <3>1, <3>2
  <2>6. ASSUME NEW k \in 0..MaxAttempt, <<o, k>> \in retry PROVE Covered(o)'
    BY <1>1, <2>6 DEF Covered
  <2> QED BY <2>1, <2>2, <2>3, <2>4, <2>5, <2>6 DEF Covered
<1> QED BY <1>2, <1>3

-----------------------------------------------------------------------------
(* A rider's status means what it says *)

\* a rider whose offer is gone stays OFFERED only if another one waits for him
LEMMA FreedLeaves ==
  ASSUME Typed, NEW gone, NEW r \in Rider
  PROVE  /\ Freed(gone)[r] \in {rider[r], "AVAILABLE"}
         /\ Freed(gone)[r] = "OFFERED" /\ (\E p \in gone : offer[p].rider = r) => \E q \in PendingOf(r) : q \notin gone
BY DEF Typed, Freed

LEMMA ExcuseStays == ASSUME Typed, DispatchNext, NEW r, Excused(r) PROVE Excused(r)'
BY HistoryGrows DEF Excused

LEMMA InHandKept ==
  ASSUME NEW h \in Handler, OnlyOf(h), NEW r, NEW places, InHand(r, places), ~InHand(r, places)'
  PROVE  handler[h].at \in places /\ handler[h].rider = r
BY DEF InHand, OnlyOf

\* a save of a rider that was read is noted, unless nothing has changed
LEMMA LocationIsKnown ==
  ASSUME Typed, Knows, NEW h \in Handler, SaveLocation(h), NEW r \in Rider
  PROVE  rider'[r] = rider[r] \/ r \in stale'
<1>1. PICK status \in RiderStatus : handler[h].wave = {status}
  BY DEF SaveLocation, Knows, KnowsWork
<1>2. rider' = [rider EXCEPT ![handler[h].rider] = status]
  BY <1>1 DEF SaveLocation
<1>3. CASE r = handler[h].rider /\ rider[r] # status
  BY <1>1, <1>3 DEF SaveLocation
<1>4. CASE r # handler[h].rider \/ rider[r] = status
  BY <1>2, <1>4 DEF Typed
<1> QED BY <1>3, <1>4

\* where a handler makes a rider OFFERED or ASSIGNED
LEMMA RiderOfHandler ==
  ASSUME Typed, MadeInOrder, Knows, NEW h \in Handler, HandlerActs(h), NEW r \in Rider
  PROVE  \/ rider'[r] \in {rider[r], "AVAILABLE"} \/ Excused(r)'
         \/ CreateOffer(h) /\ rider'[r] = "OFFERED" /\ PendingOf(r)' # {}
         \/ MarkAssigned(h) /\ handler[h].rider = r /\ rider'[r] = "ASSIGNED"
         \/ rider'[r] = "ASSIGNED" /\ InHand(r, {"adminLock"})'
<1>1. CASE rider' = rider
  BY <1>1
<1>2. CASE CreateOffer(h)
  <2>1. PICK i \in Offers, x \in handler[h].wave : /\ x \in Rider /\ rider' = [rider EXCEPT ![x] = "OFFERED"]
                                                    /\ offer'[i].rider = x /\ offer'[i].status = "PENDING"
    BY <1>2, MadeCreated
  <2>2. CASE r = x
    BY <1>2, <2>1, <2>2 DEF PendingOf, Typed
  <2>3. CASE r # x
    BY <2>1, <2>3 DEF Typed
  <2> QED BY <2>2, <2>3
<1>3. CASE RefuseAccept(h) \/ SupersedeOthers(h) \/ ReleaseExpired(h)
  BY <1>3, FreedLeaves DEF RefuseAccept, SupersedeOthers, ReleaseExpired
<1>4. ASSUME NEW i, Decline(h, i) PROVE rider'[r] \in {rider[r], "AVAILABLE"}
  BY <1>4, FreedLeaves DEF Decline
<1>5. CASE MarkAssigned(h)
  <2>1. rider' = [rider EXCEPT ![handler[h].rider] = "ASSIGNED"]
    BY <1>5 DEF MarkAssigned
  <2> QED BY <1>5, <2>1 DEF Typed
<1>6. ASSUME NEW o, NEW x \in Rider, AdminAssign(h, o, x)
      PROVE  rider'[r] \in {rider[r], "AVAILABLE"} \/ (rider'[r] = "ASSIGNED" /\ InHand(r, {"adminLock"})')
  <2>1. rider' = [Freed(Pending(o)) EXCEPT ![x] = "ASSIGNED"] /\ handler'[h] = Busy("adminLock", o, x, 0, 0)
    BY <1>6 DEF AdminAssign, Starts, Typed
  <2>2. CASE r = x
    <3>1. InHand(r, {"adminLock"})'
      BY <2>1, <2>2 DEF Busy, InHand
    <3> QED BY <2>1, <2>2, <3>1, FreedTyped
  <2>3. CASE r # x
    BY <2>1, <2>3, FreedLeaves, FreedTyped
  <2> QED BY <2>2, <2>3
<1>7. CASE SaveLocation(h)
  BY <1>7, LocationIsKnown DEF Excused
<1>8. CASE DispatchCrash(h)
  BY <1>8 DEF DispatchCrash, Excused
<1>9. CASE AttemptDispatch(h) \/ ScheduleExpiry(h) \/ ClaimOffer(h) \/ InsertAssignment(h) \/ SaveExpired(h) \/ NextWave(h)
  BY <1>1, <1>9 DEF AttemptDispatch, ScheduleExpiry, ClaimOffer, InsertAssignment, SaveExpired, NextWave, tables
<1>10. ASSUME NEW o, NEW k, StartJob(h, o, k) PROVE rider' = rider
  BY <1>10 DEF StartJob
<1>11. ASSUME NEW i, Accept(h, i) \/ OfferExpiry(h, i) PROVE rider' = rider
  BY <1>11 DEF Accept, OfferExpiry, tables
<1>12. ASSUME NEW x, ReadLocation(h, x) PROVE rider' = rider
  BY <1>12 DEF ReadLocation, tables
<1> QED BY <1>1, <1>2, <1>3, <1>4, <1>5, <1>6, <1>7, <1>8, <1>9, <1>10, <1>11, <1>12, ScopeParts DEF HandlerActs, HandlerStep

\* the moves of riders, customers and orders make nobody OFFERED or ASSIGNED
LEMMA RiderOfOthers ==
  ASSUME Typed, OtherMove, NEW r \in Rider, rider'[r] \in {"OFFERED", "ASSIGNED"}
  PROVE  /\ rider'[r] = rider[r]
         /\ OnTask(r) => OnTask(r)'
         /\ rider'[r] = "OFFERED" /\ PendingOf(r) # {} => PendingOf(r)' # {}
<1> DEFINE Goal == /\ rider'[r] = rider[r] /\ (OnTask(r) => OnTask(r)')
                   /\ rider'[r] = "OFFERED" /\ PendingOf(r) # {} => PendingOf(r)' # {}
<1>1. ASSUME NEW o \in Order, ReleaseForOrder(o) PROVE Goal
  <2>1. /\ offer' = Superseded(Pending(o)) /\ active' = {a \in active : a[1] # o}
        /\ rider'[r] = IF <<o, r>> \in active THEN "AVAILABLE" ELSE Freed(Pending(o))[r]
    BY <1>1 DEF ReleaseForOrder, Supersede
  <2>2. <<o, r>> \notin active /\ rider'[r] = Freed(Pending(o))[r] /\ rider'[r] = rider[r]
    BY <2>1, FreedLeaves
  <2>3. OnTask(r) => OnTask(r)'
    BY <2>1, <2>2 DEF OnTask
  <2>4. ASSUME rider'[r] = "OFFERED", NEW p \in PendingOf(r) PROVE PendingOf(r)' # {}
    <3>1. \E q \in PendingOf(r) : q \notin Pending(o)
      BY <2>2, <2>4, FreedLeaves DEF PendingOf
    <3>2. PICK q \in PendingOf(r) : offer'[q] = offer[q]
      BY <2>1, <3>1, PendingIsMade, OffersSuperseded DEF PendingOf
    <3> QED BY <3>2 DEF PendingOf
  <2> QED BY <2>2, <2>3, <2>4
<1>2. ASSUME NEW o \in Order, OnDelivered(o) PROVE Goal
  <2>1. offer' = offer /\ active' = {a \in active : a[1] # o}
        /\ rider'[r] = IF <<o, r>> \in active THEN "AVAILABLE" ELSE rider[r]
    BY <1>2 DEF OnDelivered
  <2> QED BY <2>1 DEF OnTask, PendingOf
<1>3. ASSUME NEW x \in Rider, NEW s \in {"PICKED_UP", "OFFLINE", "AVAILABLE"}, rider' = [rider EXCEPT ![x] = s], offer' = offer, active' = active
      PROVE  Goal
  <2>1. rider'[r] = rider[r]
    BY <1>3 DEF Typed
  <2> QED BY <1>3, <2>1 DEF OnTask, PendingOf
<1>4. ASSUME NEW x \in Rider, PauseRider(x) PROVE Goal
  <2>1. offer' = Superseded(PendingOf(x)) /\ rider' = [rider EXCEPT ![x] = "PAUSED"] /\ active' = active
    BY <1>4 DEF PauseRider, Supersede
  <2>2. r # x /\ rider'[r] = rider[r]
    BY <2>1 DEF Typed
  <2>3. \A p \in PendingOf(r) : p \notin PendingOf(x)
    BY <2>2 DEF PendingOf
  <2>4. \A p \in PendingOf(r) : offer'[p] = offer[p]
    BY <2>1, <2>3, PendingIsMade, OffersSuperseded DEF PendingOf
  <2>5. OnTask(r) => OnTask(r)'
    BY <2>1 DEF OnTask
  <2>6. PendingOf(r) # {} => PendingOf(r)' # {}
    BY <2>4 DEF PendingOf
  <2> QED BY <2>2, <2>5, <2>6
<1>5. ASSUME rider' = rider, offer' = offer, active' = active PROVE Goal
  BY <1>5 DEF OnTask, PendingOf
<1>6. ASSUME NEW o \in Order, OnCancelled(o) \/ \E x : ReleaseByRider(o, x) PROVE Goal
  BY <1>1, <1>6 DEF OnCancelled, ReleaseByRider
<1>7. ASSUME NEW o, NEW x \in Rider, ConfirmPickup(o, x) PROVE Goal
  BY <1>3, <1>7 DEF ConfirmPickup
<1>8. ASSUME NEW o, (\E what : HearNews(o, what)) \/ (\E how : OrderOver(o, how)) PROVE Goal
  BY <1>5, <1>8 DEF HearNews, OrderOver, tables
<1>9. ASSUME NEW x \in Rider, GoOffline(x) \/ BeAvailable(x) PROVE Goal
  BY <1>3, <1>9 DEF GoOffline, BeAvailable
<1> QED BY <1>2, <1>4, <1>6, <1>7, <1>8, <1>9, ScopeParts DEF OtherMove

\* a rider's offers may end only if one is left, or if a handler has him in hand
LEMMA OfferedEnds ==
  ASSUME Typed, MadeInOrder, Knows, NEW h \in Handler, HandlerActs(h), NEW r \in Rider, rider[r] = "OFFERED", rider'[r] = "OFFERED",
         NEW p \in PendingOf(r)
  PROVE  PendingOf(r)' # {} \/ InHand(r, {"assign", "release"})'
<1> DEFINE Goal == PendingOf(r)' # {} \/ InHand(r, {"assign", "release"})'
<1>0. p \in Offers /\ p \in Made /\ offer[p].status = "PENDING" /\ offer[p].rider = r
  BY DEF PendingOf, Made
<1>1. ASSUME NEW gone, Freed(gone)[r] = "OFFERED", \A i \in Offers \ gone : offer'[i] = offer[i] PROVE Goal
  <2>1. PICK q \in PendingOf(r) : q \notin gone
    BY <1>0, <1>1, FreedLeaves
  <2>2. q \in Offers /\ offer'[q] = offer[q]
    BY <1>1, <2>1 DEF PendingOf
  <2>3. q \in PendingOf(r)'
    BY <2>1, <2>2 DEF PendingOf
  <2> QED BY <2>3
<1>2. CASE offer'[p] = offer[p]
  <2>1. p \in PendingOf(r)'
    BY <1>0, <1>2 DEF PendingOf
  <2> QED BY <2>1
<1>3. CASE CreateOffer(h)
  <2>1. PICK i \in Offers, x \in handler[h].wave : i \notin Made /\ \A j \in Offers \ {i} : offer'[j] = offer[j]
    BY <1>3, MadeCreated
  <2> QED BY <1>0, <1>2, <2>1
<1>4. CASE RefuseAccept(h)
  <2>1. handler[h].offer \in Made /\ offer' = [offer EXCEPT ![handler[h].offer].status = "EXPIRED"]
        /\ rider' = Freed({handler[h].offer})
    BY <1>4 DEF RefuseAccept, Knows, KnowsOffer, Holding
  <2>2. \A i \in Offers \ {handler[h].offer} : offer'[i] = offer[i]
    BY <2>1, OneOfferEnds
  <2> QED BY <1>1, <2>1, <2>2
<1>5. ASSUME NEW i \in Offers, Decline(h, i) PROVE Goal
  <2>1. i \in Made /\ offer' = [offer EXCEPT ![i].status = "DECLINED"] /\ rider' = Freed({i})
    BY <1>5 DEF Decline, Made
  <2>2. \A j \in Offers \ {i} : offer'[j] = offer[j]
    BY <2>1, OneOfferEnds
  <2> QED BY <1>1, <2>1, <2>2
<1>6. CASE SupersedeOthers(h)
  <2> DEFINE gone == Pending(handler[h].order) \ {handler[h].offer}
  <2>1. offer' = Superseded(gone) /\ rider' = Freed(gone) /\ gone \in SUBSET Made
    BY <1>6, PendingIsMade DEF SupersedeOthers
  <2> HIDE DEF gone
  <2>2. \A i \in Offers \ gone : offer'[i] = offer[i]
    BY <2>1, OffersSuperseded
  <2> QED BY <1>1, <2>1, <2>2
<1>7. ASSUME NEW o, NEW x, AdminAssign(h, o, x) PROVE Goal
  <2> DEFINE gone == Pending(o)
  <2>1. offer' = Superseded(gone) /\ rider' = [Freed(gone) EXCEPT ![x] = "ASSIGNED"] /\ gone \in SUBSET Made
    BY <1>7, PendingIsMade DEF AdminAssign, Supersede
  <2> HIDE DEF gone
  <2>2. Freed(gone)[r] = "OFFERED"
    BY <2>1, FreedTyped
  <2>3. \A i \in Offers \ gone : offer'[i] = offer[i]
    BY <2>1, OffersSuperseded
  <2> QED BY <1>1, <2>2, <2>3
<1>8. CASE (ClaimOffer(h) \/ SaveExpired(h)) /\ offer'[p] # offer[p]
  <2> DEFINE i == handler[h].offer
  <2>1. PICK at \in {"assign", "release"} : Goto(h, at)
    BY <1>8 DEF ClaimOffer, SaveExpired
  <2>2. PICK status \in {"ACCEPTED", "EXPIRED"} : i \in Made /\ offer' = [offer EXCEPT ![i].status = status]
    BY <1>8 DEF ClaimOffer, SaveExpired, Knows, KnowsOffer, Holding
  <2>3. p = i
    BY <1>0, <1>8, <2>2, OneOfferEnds
  <2>4. handler[h].rider = r
    BY <1>0, <1>8, <2>3 DEF ClaimOffer, SaveExpired, Knows, KnowsOffer, Holding
  <2>5. handler'[h].at = at /\ handler'[h].rider = r
    BY <2>1, <2>4, GotoDoes DEF Place, StaysAtWork
  <2> QED BY <2>5 DEF InHand
<1>9. CASE AttemptDispatch(h) \/ ScheduleExpiry(h) \/ MarkAssigned(h) \/ InsertAssignment(h)
           \/ ReleaseExpired(h) \/ NextWave(h) \/ SaveLocation(h) \/ DispatchCrash(h)
  BY <1>2, <1>9 DEF AttemptDispatch, ScheduleExpiry, MarkAssigned, InsertAssignment, ReleaseExpired, NextWave,
     SaveLocation, DispatchCrash, tables
<1>10. ASSUME NEW o, NEW k, StartJob(h, o, k) PROVE offer' = offer
  BY <1>10 DEF StartJob
<1>11. ASSUME NEW i, Accept(h, i) \/ OfferExpiry(h, i) PROVE offer' = offer
  BY <1>11 DEF Accept, OfferExpiry, tables
<1>12. ASSUME NEW x, ReadLocation(h, x) PROVE offer' = offer
  BY <1>12 DEF ReadLocation, tables
<1> QED BY <1>2, <1>3, <1>4, <1>5, <1>6, <1>7, <1>8, <1>9, <1>10, <1>11, <1>12 DEF HandlerActs, HandlerStep

\* the handler that has an OFFERED rider in hand marks him, or frees him
LEMMA OfferedInHand ==
  ASSUME Typed, MadeInOrder, Knows, NEW h \in Handler, HandlerActs(h), NEW r \in Rider, rider[r] = "OFFERED", rider'[r] = "OFFERED",
         handler[h].at \in {"assign", "release"}, handler[h].rider = r
  PROVE  PendingOf(r)' # {} \/ crashed' \/ InHand(r, {"assign", "release"})'
<1>1. CASE DispatchCrash(h)
  BY <1>1 DEF DispatchCrash
<1>2. CASE MarkAssigned(h)
  BY <1>2 DEF MarkAssigned, Typed
<1>3. CASE ReleaseExpired(h)
  <2> DEFINE i == handler[h].offer
  <2>1. i \in Made /\ offer[i].rider = r /\ rider' = Freed({i}) /\ offer' = offer
    BY <1>3 DEF ReleaseExpired, Knows, KnowsOffer, Holding
  <2>2. PendingOf(r) # {}
    BY <2>1, FreedLeaves
  <2> QED BY <2>1, <2>2 DEF PendingOf
<1>4. CASE handler' = handler
  BY <1>4 DEF InHand
<1>5. CASE AttemptDispatch(h) \/ CreateOffer(h) \/ ScheduleExpiry(h) \/ RefuseAccept(h) \/ ClaimOffer(h) \/ InsertAssignment(h)
           \/ SupersedeOthers(h) \/ SaveExpired(h) \/ NextWave(h) \/ SaveLocation(h)
  BY <1>5 DEF AttemptDispatch, CreateOffer, ScheduleExpiry, RefuseAccept, ClaimOffer, InsertAssignment, SupersedeOthers,
     SaveExpired, NextWave, SaveLocation
<1>6. ASSUME NEW w, Starts(h, w) PROVE FALSE
  BY <1>6, IdleTyped DEF Starts
<1>7. ASSUME NEW i \in Offers, Accept(h, i) \/ Decline(h, i) \/ OfferExpiry(h, i) PROVE handler' = handler
  BY <1>6, <1>7 DEF Accept, Decline, OfferExpiry
<1>8. ASSUME NEW o, NEW k, StartJob(h, o, k) PROVE FALSE
  BY <1>6, <1>8 DEF StartJob
<1>9. ASSUME NEW x, ReadLocation(h, x) \/ (\E o : AdminAssign(h, o, x)) PROVE FALSE
  BY <1>6, <1>9 DEF ReadLocation, AdminAssign
<1> QED BY <1>1, <1>2, <1>3, <1>4, <1>5, <1>6, <1>7, <1>8, <1>9 DEF HandlerActs, HandlerStep

LEMMA OfferedHandler ==
  ASSUME Typed, MadeInOrder, Knows, OfferedInv, DispatchNext, NEW h \in Handler, HandlerActs(h)
  PROVE  OfferedInv'
<1> SUFFICES ASSUME NEW r \in Rider, rider'[r] = "OFFERED"
             PROVE  PendingOf(r)' # {} \/ Excused(r)' \/ InHand(r, {"assign", "release"})'
  BY DEF OfferedInv
<1>1. CASE Excused(r)
  BY <1>1, ExcuseStays
<1>2. CASE rider[r] = "OFFERED" /\ PendingOf(r) # {}
  <2>1. PICK p \in PendingOf(r) : TRUE
    BY <1>2
  <2> QED BY <1>2, <2>1, OfferedEnds
<1>3. CASE rider[r] = "OFFERED" /\ InHand(r, {"assign", "release"})
  <2>1. CASE InHand(r, {"assign", "release"})'
    BY <2>1
  <2>2. CASE ~InHand(r, {"assign", "release"})'
    <3>1. handler[h].at \in {"assign", "release"} /\ handler[h].rider = r
      BY <1>3, <2>2, InHandKept, HandlerKnows
    <3> QED BY <1>3, <3>1, OfferedInHand DEF Excused
  <2> QED BY <2>1, <2>2
<1>4. CASE rider[r] # "OFFERED"
  BY <1>4, RiderOfHandler
<1> QED BY <1>1, <1>2, <1>3, <1>4 DEF OfferedInv

LEMMA OfferedOther == ASSUME Typed, OfferedInv, OtherMove PROVE OfferedInv'
<1> SUFFICES ASSUME NEW r \in Rider, rider'[r] = "OFFERED"
             PROVE  PendingOf(r)' # {} \/ Excused(r)' \/ InHand(r, {"assign", "release"})'
  BY DEF OfferedInv
<1>1. rider[r] = "OFFERED" /\ (PendingOf(r) # {} => PendingOf(r)' # {})
  BY RiderOfOthers
<1>2. handler' = handler /\ DispatchNext
  BY OffersOfOthers, NextIs
<1>3. Excused(r) => Excused(r)'
  BY <1>2, ExcuseStays
<1>4. InHand(r, {"assign", "release"}) => InHand(r, {"assign", "release"})'
  BY <1>2 DEF InHand
<1> QED BY <1>1, <1>3, <1>4 DEF OfferedInv

\* the handler that has an ASSIGNED rider in hand gives him the task, or is refused
LEMMA AssignedInHand ==
  ASSUME Typed, MadeInOrder, Knows, NEW h \in Handler, HandlerActs(h), NEW r \in Rider,
         handler[h].at \in {"lock", "adminLock"}, handler[h].rider = r
  PROVE  OnTask(r)' \/ r \in lost' \/ crashed' \/ InHand(r, {"lock", "adminLock"})'
<1>1. CASE DispatchCrash(h)
  BY <1>1 DEF DispatchCrash
<1>2. CASE InsertAssignment(h)
  <2>1. handler[h].order \in Order
    BY <1>2 DEF Knows, KnowsWork
  <2>2. PICK o \in Order : o = handler[h].order
    BY <2>1
  <2>3. <<o, r>> \in active' \/ r \in lost'
    BY <1>2, <2>2 DEF InsertAssignment
  <2> QED BY <2>3 DEF OnTask
<1>4. CASE handler' = handler
  BY <1>4 DEF InHand
<1>5. CASE AttemptDispatch(h) \/ CreateOffer(h) \/ ScheduleExpiry(h) \/ RefuseAccept(h) \/ ClaimOffer(h) \/ MarkAssigned(h)
           \/ SupersedeOthers(h) \/ SaveExpired(h) \/ ReleaseExpired(h) \/ NextWave(h) \/ SaveLocation(h)
  BY <1>5 DEF AttemptDispatch, CreateOffer, ScheduleExpiry, RefuseAccept, ClaimOffer, MarkAssigned, SupersedeOthers,
     SaveExpired, ReleaseExpired, NextWave, SaveLocation
<1>6. ASSUME NEW w, Starts(h, w) PROVE FALSE
  BY <1>6, IdleTyped DEF Starts
<1>7. ASSUME NEW i \in Offers, Accept(h, i) \/ Decline(h, i) \/ OfferExpiry(h, i) PROVE handler' = handler
  BY <1>6, <1>7 DEF Accept, Decline, OfferExpiry
<1>8. ASSUME NEW o, NEW k, StartJob(h, o, k) PROVE FALSE
  BY <1>6, <1>8 DEF StartJob
<1>9. ASSUME NEW x, ReadLocation(h, x) \/ (\E o : AdminAssign(h, o, x)) PROVE FALSE
  BY <1>6, <1>9 DEF ReadLocation, AdminAssign
<1> QED BY <1>1, <1>2, <1>4, <1>5, <1>6, <1>7, <1>8, <1>9 DEF HandlerActs, HandlerStep

LEMMA AssignedHandler ==
  ASSUME Typed, MadeInOrder, Knows, AssignedInv, DispatchNext, NEW h \in Handler, HandlerActs(h)
  PROVE  AssignedInv'
<1> SUFFICES ASSUME NEW r \in Rider, rider'[r] = "ASSIGNED"
             PROVE  OnTask(r)' \/ Excused(r)' \/ InHand(r, {"lock", "adminLock"})'
  BY DEF AssignedInv
<1>1. CASE Excused(r)
  BY <1>1, ExcuseStays
<1>2. CASE OnTask(r)
  BY <1>2, ActiveOfHandler DEF OnTask
<1>3. CASE InHand(r, {"lock", "adminLock"})
  <2>1. CASE ~InHand(r, {"lock", "adminLock"})'
    <3>1. handler[h].at \in {"lock", "adminLock"} /\ handler[h].rider = r
      BY <1>3, <2>1, InHandKept, HandlerKnows
    <3> QED BY <3>1, AssignedInHand DEF Excused
  <2> QED BY <2>1
<1>4. CASE rider[r] # "ASSIGNED"
  <2>1. CASE MarkAssigned(h) /\ handler[h].rider = r
    <3>1. handler'[h].at = "lock" /\ handler'[h].rider = r
      BY <2>1, GotoDoes DEF MarkAssigned, Place, StaysAtWork
    <3> QED BY <3>1 DEF InHand
  <2>2. CASE InHand(r, {"adminLock"})'
    BY <2>2 DEF InHand
  <2> QED BY <1>4, <2>1, <2>2, RiderOfHandler
<1> QED BY <1>1, <1>2, <1>3, <1>4 DEF AssignedInv

LEMMA AssignedOther == ASSUME Typed, AssignedInv, OtherMove PROVE AssignedInv'
<1> SUFFICES ASSUME NEW r \in Rider, rider'[r] = "ASSIGNED"
             PROVE  OnTask(r)' \/ Excused(r)' \/ InHand(r, {"lock", "adminLock"})'
  BY DEF AssignedInv
<1>1. rider[r] = "ASSIGNED" /\ (OnTask(r) => OnTask(r)')
  BY RiderOfOthers
<1>2. handler' = handler /\ DispatchNext
  BY OffersOfOthers, NextIs
<1>3. Excused(r) => Excused(r)'
  BY <1>2, ExcuseStays
<1>4. InHand(r, {"lock", "adminLock"}) => InHand(r, {"lock", "adminLock"})'
  BY <1>2 DEF InHand
<1> QED BY <1>1, <1>3, <1>4 DEF AssignedInv

\* a rider's accept goes on, or begins when he has no task; a second one is noted
LEMMA AcceptingComes ==
  ASSUME Typed, MadeInOrder, Knows, NEW h \in Handler, HandlerActs(h), NEW g \in Handler, NEW r, Accepting(g, r)'
  PROVE  \/ Accepting(g, r)
         \/ g = h /\ ~OnTask(r) /\ \A f \in Handler : Accepting(f, r) => r \in pressed'
<1>0. OnlyOf(h)
  BY HandlerKnows
<1>1. CASE g # h \/ handler' = handler
  BY <1>0, <1>1 DEF OnlyOf, Accepting
<1>2. CASE g = h /\ ClaimOffer(h) /\ handler'[h].at = "assign"
  <2>1. Goto(h, "assign")
    BY <1>2, EndsDoes DEF ClaimOffer
  <2>2. handler'[h].rider = handler[h].rider
    BY <2>1, GotoDoes DEF Place, StaysAtWork
  <2> QED BY <1>2, <2>2 DEF Accepting, ClaimOffer
<1>3. CASE g = h /\ MarkAssigned(h)
  <2>1. handler'[h].rider = handler[h].rider
    BY <1>3, GotoDoes DEF Place, StaysAtWork, MarkAssigned
  <2> QED BY <1>3, <2>1 DEF Accepting, MarkAssigned
<1>4. ASSUME g = h, NEW i \in Offers, Accept(h, i), handler'[h].at \in {"claim", "refuse"}
      PROVE  ~OnTask(r) /\ \A f \in Handler : Accepting(f, r) => r \in pressed'
  <2> DEFINE o == offer[i].order
             x == offer[i].rider
             at == IF Eligible(o, x) THEN "claim" ELSE "refuse"
  <2>1. Starts(h, Busy(at, o, x, i, offer[i].attempt))
    BY <1>4 DEF Accept
  <2>2. handler'[h].at = at /\ handler'[h].rider = x
    BY <2>1 DEF Starts, Busy, Typed
  <2>3. x = r /\ Eligible(o, x)
    BY <1>4, <2>2 DEF Accepting
  <2>4. pressed' = IF \E f \in Handler : handler[f].rider = x /\ handler[f].at \in {"claim", "assign", "lock"}
                   THEN pressed \union {x} ELSE pressed
    BY <1>4 DEF Accept
  <2> QED BY <2>3, <2>4 DEF Eligible, Accepting
<1> QED BY <1>1, <1>2, <1>3, <1>4, MovesThere DEF Accepting

LEMMA OneTaskHandler ==
  ASSUME Typed, MadeInOrder, Knows, OneTask, DispatchNext, NEW h \in Handler, HandlerActs(h)
  PROVE  OneTask'
<1>0. OnlyOf(h) /\ pressed \subseteq pressed'
  BY HandlerKnows, HistoryGrows
<1>1. ASSUME NEW g \in Handler, handler'[g].at = "adminLock" PROVE handler'[g].rider \in pressed'
  <2>1. CASE g # h \/ handler' = handler
    BY <1>0, <1>1, <2>1 DEF OnlyOf, OneTask
  <2>2. ASSUME g = h, NEW r, NEW o, AdminAssign(h, o, r) PROVE handler'[h].rider \in pressed'
    BY <2>2 DEF AdminAssign, Starts, Busy, Typed
  <2> QED BY <1>1, <2>1, <2>2, MovesThere
\* a task that comes is that of the only accept
<1>2. ASSUME NEW r \in Rider \ pressed', NEW o \in Order, <<o, r>> \in active', <<o, r>> \notin active
      PROVE  InsertAssignment(h) /\ Accepting(h, r) /\ o = handler[h].order /\ ~Accepting(h, r)'
  <2>1. InsertAssignment(h) /\ <<o, r>> = <<handler[h].order, handler[h].rider>>
    BY <1>2, ActiveOfHandler DEF InsertAssignment
  <2>2. handler[h].at = "lock"
    BY <1>0, <1>2, <2>1 DEF InsertAssignment, OneTask
  <2>3. ~Accepting(h, r)'
    BY <2>1, GotoDoes, EndsDoes DEF InsertAssignment, Accepting, Place
  <2> QED BY <2>1, <2>2, <2>3 DEF Accepting
<1>3. ASSUME NEW r \in Rider \ pressed', NEW a \in Order, NEW b \in Order, <<a, r>> \in active', <<b, r>> \in active' PROVE a = b
  <2>1. CASE <<a, r>> \in active /\ <<b, r>> \in active
    BY <1>0, <2>1 DEF OneTask
  <2>2. CASE <<a, r>> \notin active
    BY <1>0, <1>2, <1>3, <2>2 DEF OneTask, OnTask
  <2>3. CASE <<b, r>> \notin active
    BY <1>0, <1>2, <1>3, <2>3 DEF OneTask, OnTask
  <2> QED BY <2>1, <2>2, <2>3
<1>4. ASSUME NEW r \in Rider \ pressed', NEW g \in Handler, Accepting(g, r)' PROVE ~OnTask(r)'
  <2>1. ~OnTask(r)
    BY <1>0, <1>4, AcceptingComes DEF OneTask
  <2>2. ASSUME NEW o \in Order, <<o, r>> \in active' PROVE FALSE
    <3>1. Accepting(h, r) /\ ~Accepting(h, r)'
      BY <1>2, <2>1, <2>2 DEF OnTask
    <3>2. g # h
      BY <1>4, <3>1
    <3>3. Accepting(g, r)
      BY <1>4, <3>2, AcceptingComes
    <3> QED BY <1>0, <3>1, <3>2, <3>3 DEF OneTask
  <2> QED BY <2>2 DEF OnTask
<1>5. ASSUME NEW r \in Rider \ pressed', NEW f \in Handler, NEW g \in Handler, Accepting(f, r)', Accepting(g, r)' PROVE f = g
  BY <1>0, <1>5, AcceptingComes DEF OneTask
<1> QED BY <1>1, <1>3, <1>4, <1>5 DEF OneTask

LEMMA OneTaskOther == ASSUME Typed, OneTask, OtherMove PROVE OneTask'
<1>1. handler' = handler
  BY OffersOfOthers
<1>2. active' \subseteq active /\ pressed' = pressed
  <2>1. ASSUME NEW o, OnCancelled(o) \/ (\E r : ReleaseByRider(o, r)) \/ OnDelivered(o) PROVE active' \subseteq active /\ pressed' = pressed
    BY <2>1 DEF OnCancelled, ReleaseByRider, ReleaseForOrder, OnDelivered, history
  <2>2. ASSUME NEW o, (\E r : ConfirmPickup(o, r)) \/ (\E what : HearNews(o, what)) \/ (\E how : OrderOver(o, how))
        PROVE  active' = active /\ pressed' = pressed
    BY <2>2 DEF ConfirmPickup, HearNews, OrderOver, tables, history
  <2>3. ASSUME NEW r, GoOffline(r) \/ PauseRider(r) \/ BeAvailable(r) PROVE active' = active /\ pressed' = pressed
    BY <2>3 DEF GoOffline, PauseRider, BeAvailable, history
  <2> QED BY <2>1, <2>2, <2>3 DEF OtherMove
<1>3. ASSUME NEW r, OnTask(r)' PROVE OnTask(r)
  BY <1>2, <1>3 DEF OnTask
<1> QED BY <1>1, <1>2, <1>3 DEF OneTask, Accepting

-----------------------------------------------------------------------------
(* The invariant and the theorems *)

LEMMA DispatchInvInit == DispatchInit => DispatchInv
<1> SUFFICES ASSUME DispatchInit PROVE DispatchInv
  OBVIOUS
<1>0. /\ MaxOffers \in Nat \ {0} /\ MaxAttempt \in Nat \ {0} /\ 0 \in 0..MaxAttempt
      /\ dispatchScope \in DispatchScope
  BY DispatchAssumption DEF DispatchInit
<1>1. NoOffer \in OfferRow /\ Idle \in Work
  BY <1>0, IdleTyped DEF NoOffer, OfferRow
<1>2. Typed
  BY <1>0, <1>1 DEF Typed, DispatchInit, DispatchScope, RiderStatus
<1>3. \A i \in Offers : offer[i] = NoOffer /\ offer[i].status = "none"
  BY DEF DispatchInit, NoOffer
<1>4. \A h \in Handler : handler[h] = Idle /\ handler[h].at = "idle"
  BY IdleTyped DEF DispatchInit
<1>5. Made = 1..0
  BY <1>3 DEF Made
<1>6. MadeInOrder
  BY <1>0, <1>3, <1>5 DEF MadeInOrder
<1>7. Knows /\ Timed /\ NewsIsOf
  BY <1>3, <1>4 DEF Knows, KnowsOffer, KnowsWork, Holding, Timed, NewsIsOf, DispatchInit
<1>8. Waited
  <2> SUFFICES ASSUME NEW o \in Order, order[o] = "ready" PROVE Covered(o)
    BY DEF Waited
  <2>1. <<o, 0>> \in retry
    BY DEF DispatchInit
  <2> QED BY <1>0, <2>1 DEF Covered
<1>9. OfferedInv /\ AssignedInv
  BY DEF OfferedInv, AssignedInv, DispatchInit
<1>10. OneTask
  BY <1>4 DEF OneTask, Accepting, DispatchInit
<1> QED BY <1>2, <1>6, <1>7, <1>8, <1>9, <1>10 DEF DispatchInv

LEMMA DispatchInvStep == DispatchInv /\ [DispatchNext]_dispatchVars => DispatchInv'
<1> SUFFICES ASSUME DispatchInv, [DispatchNext]_dispatchVars PROVE DispatchInv'
  OBVIOUS
<1>0. Typed /\ MadeInOrder /\ Knows /\ Timed /\ Waited /\ NewsIsOf /\ OfferedInv /\ AssignedInv /\ OneTask
  BY DEF DispatchInv
<1>1. CASE DispatchNext
  <2>1. Typed' /\ MadeInOrder' /\ Knows' /\ NewsIsOf'
    BY <1>0, <1>1, TypedStep, MadeStep, KnowsStep, NewsStep
  <2>2. ASSUME NEW h \in Handler, HandlerActs(h) PROVE DispatchInv'
    <3>1. Timed'
      BY <1>0, <2>2, TimedHandler
    <3>2. Waited'
      BY <1>0, <1>1, <2>1, <2>2, <3>1, WaitedHandler
    <3>3. OfferedInv' /\ AssignedInv' /\ OneTask'
      BY <1>0, <1>1, <2>2, OfferedHandler, AssignedHandler, OneTaskHandler
    <3> QED BY <2>1, <3>1, <3>2, <3>3 DEF DispatchInv
  <2>3. ASSUME OtherMove PROVE DispatchInv'
    <3>1. Timed' /\ Waited'
      BY <1>0, <2>3, TimedOther, WaitedOther
    <3>2. OfferedInv' /\ AssignedInv' /\ OneTask'
      BY <1>0, <2>3, OfferedOther, AssignedOther, OneTaskOther
    <3> QED BY <2>1, <3>1, <3>2 DEF DispatchInv
  <2> QED BY <1>1, <2>2, <2>3, NextIs
<1>2. CASE UNCHANGED dispatchVars
  <2>1. /\ order' = order /\ news' = news /\ ended' = ended /\ offer' = offer /\ expiry' = expiry /\ retry' = retry /\ retried' = retried
        /\ rider' = rider /\ active' = active /\ excluded' = excluded /\ handler' = handler
        /\ forgotten' = forgotten /\ lost' = lost /\ stale' = stale /\ pressed' = pressed /\ crashed' = crashed
        /\ dispatchScope' = dispatchScope /\ moves' = moves /\ dispatchFaults' = dispatchFaults
    BY <1>2 DEF dispatchVars, tables, history, bounds
  <2>2. Typed' /\ MadeInOrder'
    BY <1>0, <2>1 DEF Typed, MadeInOrder, Made
  <2>3. Knows' /\ Timed' /\ NewsIsOf'
    BY <1>0, <2>1 DEF Knows, KnowsOffer, KnowsWork, Made, Timed, Times, NewsIsOf, EndedOr, Assigned
  <2>4. Waited'
    BY <1>0, <2>1 DEF Waited, Covered, Keeps, Assigned, Forgotten
  <2>5. OfferedInv' /\ AssignedInv'
    <3>1. ASSUME NEW r PROVE (Excused(r) => Excused(r)') /\ (OnTask(r) => OnTask(r)') /\ (PendingOf(r) # {} => PendingOf(r)' # {})
      BY <2>1 DEF Excused, OnTask, PendingOf
    <3>2. ASSUME NEW r, NEW places, InHand(r, places) PROVE InHand(r, places)'
      BY <2>1, <3>2 DEF InHand
    <3> QED BY <1>0, <2>1, <3>1, <3>2 DEF OfferedInv, AssignedInv
  <2>6. OneTask'
    BY <1>0, <2>1 DEF OneTask, Accepting, OnTask
  <2> QED BY <2>2, <2>3, <2>4, <2>5, <2>6 DEF DispatchInv
<1> QED BY <1>1, <1>2

\* The invariant of dispatch holds in every state any orders, riders, handlers
\* and scopes reach.
THEOREM DispatchInvariant == DispatchSpec => []DispatchInv
BY DispatchInvInit, DispatchInvStep, PTL DEF DispatchSpec

LEMMA WaitedMeans == DispatchInv => OrderIsWaitedFor
<1> SUFFICES ASSUME DispatchInv PROVE OrderIsWaitedFor
  OBVIOUS
<1>0. Typed /\ Waited
  BY DEF DispatchInv
<1>1. DispatchTypeOK
  BY <1>0, TypesAreOK
<1>2. ASSUME NEW o \in Order, order[o] = "ready"
      PROVE  \/ Assigned(o) \/ Pending(o) \cap expiry # {} \/ \E h \in Handler : At(h, o)
             \/ \E k \in 0..MaxAttempt : <<o, k>> \in retry
             \/ \E why \in {"gaveUp", "unread", "dropped", "released", "paused"} : <<why, o>> \in forgotten
             \/ crashed
  <2>1. Covered(o)
    BY <1>0, <1>2 DEF Waited
  <2>2. ASSUME NEW i \in expiry, offer[i].status = "PENDING", offer[i].order = o PROVE i \in Pending(o) \cap expiry
    BY <1>0, <2>2 DEF Typed, Pending
  <2>3. ASSUME NEW h \in Handler, Keeps(h, o) PROVE At(h, o)
    BY <2>3, IdleTyped DEF Keeps, At
  <2> QED BY <2>1, <2>2, <2>3 DEF Covered, Forgotten
<1> QED BY <1>1, <1>2 DEF OrderIsWaitedFor

\* A ready order has a rider, an offer with its job, a job or a handler that
\* keeps it, however the handlers interleave: what loses one is an attempt given
\* up or without its order, a retry dropped under an id the queue knows, a
\* release, the pause of a rider, or a crash.
THEOREM OrderWaitedFor == DispatchSpec => []OrderIsWaitedFor
BY DispatchInvariant, WaitedMeans, PTL

LEMMA StatusMeans == DispatchInv => RiderMeansIt
<1> SUFFICES ASSUME DispatchInv, NEW r \in Rider
             PROVE  /\ \/ \E h \in Handler : handler[h].rider = r \/ r \in handler[h].wave
                       \/ r \in stale \union lost \/ crashed
                       \/ /\ rider[r] = "OFFERED" => PendingOf(r) # {}
                          /\ rider[r] = "ASSIGNED" => OnTask(r)
                    /\ r \in pressed \/ Cardinality({a \in active : a[2] = r}) <= 1
  BY DEF RiderMeansIt
<1>0. Typed /\ OfferedInv /\ AssignedInv /\ OneTask
  BY DEF DispatchInv
<1>1. \/ \E h \in Handler : handler[h].rider = r
      \/ r \in stale \union lost \/ crashed
      \/ /\ rider[r] = "OFFERED" => PendingOf(r) # {}
         /\ rider[r] = "ASSIGNED" => OnTask(r)
  BY <1>0 DEF OfferedInv, AssignedInv, Excused, InHand
<1>2. ASSUME r \notin pressed PROVE Cardinality({a \in active : a[2] = r}) <= 1
  <2> DEFINE tasks == {a \in active : a[2] = r}
  <2>1. \A a, b \in tasks : a = b
    BY <1>0, <1>2 DEF Typed, OneTask
  <2>2. CASE tasks = {}
    BY <2>2, FS_EmptySet
  <2>3. ASSUME NEW a \in tasks PROVE Cardinality(tasks) = 1
    <3>1. tasks = {a}
      BY <2>1, <2>3
    <3> QED BY <3>1, FS_Singleton
  <2> QED BY <2>2, <2>3
<1> QED BY <1>1, <1>2

\* No rider is OFFERED without an offer that waits for him, or ASSIGNED without
\* his task, but one in a handler's hands, written from a stale read, refused by
\* the index, or left by a crash; and none has two tasks unless an admin gave
\* him one or two of his accepts were under way together.
THEOREM RiderMeans == DispatchSpec => []RiderMeansIt
BY DispatchInvariant, StatusMeans, PTL
=============================================================================
