----------------------------- MODULE OrderProofs -----------------------------
(***************************************************************************)
(* Proofs about OrderLifecycle, for every number of handlers and riders.   *)
(* The invariant describes what a handler may have before it (which        *)
(* operation follows which in a plan), what the row it read says of the    *)
(* row as it is, and who will still do what the order is owed: schedule    *)
(* its timeout, give its stock back, announce how it ended.                *)
(***************************************************************************)
EXTENDS OrderLifecycle, SequenceTheorems, TLAPS

-----------------------------------------------------------------------------
(* The plans of the handlers *)

\* what comes after an operation in a plan
FollowedBy(a, b) ==
  \/ a = reserve                     /\ b = cancelJob("accept-timeout")
  \/ a = cancelJob("accept-timeout") /\ b \in {move("ACCEPTED"), move("REJECTED"), move("READY_FOR_PICKUP")}
  \/ a = move("ACCEPTED")            /\ b = move("PREPARING")
  \/ a = move("PREPARING")           /\ b = schedule("auto-ready")
  \/ a = schedule("auto-ready")      /\ b = publish("ACCEPTED")
  \/ a = move("REJECTED")            /\ b = publish("REJECTED")
  \/ a = cancelJob("auto-ready")     /\ b \in {move("READY_FOR_PICKUP"), schedule("auto-ready")}
  \/ a = move("READY_FOR_PICKUP")    /\ b = publish("READY_FOR_PICKUP")
  \/ a = move("CANCELLED")           /\ b = publish("CANCELLED")
  \/ a.do = "save"                   /\ b \in {cancelJob("auto-ready"), move("CONFIRMED"),
                                               move("RIDER_ASSIGNED"), move("READY_FOR_PICKUP")}
  \/ a = move("CONFIRMED")           /\ b = schedule("accept-timeout")
  \/ a = schedule("accept-timeout")  /\ b = cancelJob("accept-timeout")
  \/ a = move("RIDER_EN_ROUTE_TO_VENDOR") /\ b = stepOut
  \/ a = move("RIDER_AT_VENDOR")     /\ b = stepOut
  \/ a = move("PICKED_UP")           /\ b = move("OUT_FOR_DELIVERY")
  \/ a = publish("PICKED_UP")        /\ b = move("OUT_FOR_DELIVERY")
  \/ a = move("OUT_FOR_DELIVERY")    /\ b = stepOut
  \/ a = publish("OUT_FOR_DELIVERY") /\ b = stepOut

\* what a plan may end with
MayEnd(a) ==
  \/ a.do = "save"
  \/ a \in {publish("ACCEPTED"), publish("READY_FOR_PICKUP"), publish("CANCELLED"), publish("REJECTED")}
  \/ a \in {schedule("auto-ready"), schedule("accept-timeout")}
  \/ a \in {deliver, stepOut, cancelActive, release}
  \/ a \in {move("READY_FOR_PICKUP"), move("RIDER_ASSIGNED"), move("RIDER_EN_ROUTE_TO_VENDOR"),
            move("RIDER_AT_VENDOR"), move("WAITING_FOR_RIDER")}

Shaped(p) == \A i \in 1..Len(p) : /\ i = Len(p) => MayEnd(p[i])
                                  /\ i # Len(p) => FollowedBy(p[i], p[i + 1])

\* the handler's next operation
Due(h, op) == plan[h] # <<>> /\ Head(plan[h]) = op

\* a handler within transition() or confirmOtp may make its move, of the row it read
Moves(h) ==
  /\ plan[h] # <<>> /\ Head(plan[h]).do \in {"move", "deliver"}
  /\ IF Head(plan[h]).do = "deliver" THEN snap[h].status \in Machine!OnTheWay
     ELSE Machine!canTransition(snap[h].status, Head(plan[h]).arg)

\* accept, from its reservation on
Accepting == {cancelJob("accept-timeout"), move("ACCEPTED"), move("PREPARING"), schedule("auto-ready"),
              publish("ACCEPTED"), release}

PlansInv ==
  \A h \in Handler :
    /\ Shaped(plan[h])
    /\ step[h] # "next" => Moves(h)
    /\ Due(h, reserve) => Len(plan[h]) > 2 /\ plan[h][3] = move("ACCEPTED")
    /\ rescue[h] => /\ plan[h] # <<>> /\ Head(plan[h]) \in Accepting
                    /\ Due(h, cancelJob("accept-timeout")) => plan[h][2] = move("ACCEPTED")

-----------------------------------------------------------------------------
(* What the order is owed *)

Unpaid == {"PENDING_PAYMENT", "CANCELLED"}

\* a plan that does not confirm the order
Confirmless(p) == \A i \in 1..Len(p) : p[i] # move("CONFIRMED")

\* no prepaid order, and no row in a handler's hands, is past its payment without one
PaidInv ==
  prepaid /\ ~paid =>
    /\ order.status \in Unpaid
    /\ \A h \in Handler : /\ snap[h].status \in Unpaid
                          /\ Confirmless(plan[h])

\* the wait ends by a job, or by what a handler does next
TimedInv ==
  happened = {} =>
    /\ order.status = "PENDING_PAYMENT" =>
         "payment-timeout" \in jobs \/ \E h \in Handler : Due(h, cancelActive) \/ Due(h, move("CANCELLED"))
    /\ order.status = "CONFIRMED" =>
         \/ "accept-timeout" \in jobs
         \/ \E h \in Handler : \/ Due(h, cancelActive) \/ Due(h, schedule("accept-timeout"))
                               \/ \E s \in {"CANCELLED", "ACCEPTED", "REJECTED", "READY_FOR_PICKUP"} : Due(h, move(s))

\* how far a vendor order is; it does not come back
Rank(s) == CASE s = "PENDING_PAYMENT" -> 0 [] s = "CONFIRMED" -> 1 [] s = "ACCEPTED" -> 2
             [] s = "PREPARING" -> 3 [] s = "AWAITING_RECIPIENT" -> 0
             [] OTHER -> 4

RankInv ==
  ~Overwritten => \A h \in Handler : step[h] # "next" => Rank(snap[h].status) <= Rank(order.status)

\* an accept that will find the order ended, and give the stock back
Returns(q) ==
  \/ Due(q, release)
  \/ rescue[q] /\ (Due(q, cancelJob("accept-timeout")) \/ Due(q, move("ACCEPTED")))
  \/ rescue[q] /\ Due(q, move("PREPARING")) /\ order.status # "PREPARING"

\* a handler that has given the stock back and will save the order as ended
Ending(h) == step[h] = "save" /\ (Due(h, move("CANCELLED")) \/ Due(h, move("REJECTED")))

StockInv ==
  happened = {} /\ stock = "reserved" =>
    /\ order.status \in {"CANCELLED", "REJECTED"} => \E q \in Handler : Returns(q)
    /\ \A h \in Handler : Ending(h) /\ Rank(snap[h].status) = Rank(order.status) => \E q \in Handler : Returns(q)

EndedInv ==
  happened = {} => \A s \in {"CANCELLED", "REJECTED"} : order.status = s =>
    announced[s] > 0 \/ \E h \in Handler : Due(h, publish(s))

\* the statuses at and after an event's own
Beyond == [PICKED_UP |-> {"PICKED_UP", "OUT_FOR_DELIVERY", "DELIVERED"},
           OUT_FOR_DELIVERY |-> {"OUT_FOR_DELIVERY", "DELIVERED"},
           DELIVERED |-> {"DELIVERED"}]

OnceInv ==
  ~Overwritten /\ ~BackInQueue =>
    /\ \A e \in Lifecycle :
         /\ announced[e] <= 1
         /\ announced[e] > 0 => order.status \in Beyond[e]
         /\ \A h \in Handler : Due(h, publish(e)) =>
              /\ announced[e] = 0 /\ order.status \in Beyond[e]
              /\ \A q \in Handler : Due(q, publish(e)) => q = h
    /\ announced["CANCELLED"] > 0 => order.status = "CANCELLED"
    /\ \A h \in Handler : Due(h, publish("CANCELLED")) => order.status = "CANCELLED"

OrderInv == TypeOK /\ PlansInv /\ PaidInv /\ TimedInv /\ RankInv /\ StockInv /\ EndedInv /\ OnceInv

-----------------------------------------------------------------------------
(* Lemmas about the table and the plans *)

\* What the table says of the moves the plans are made of.
LEMMA TableFacts ==
  ASSUME NEW s \in Machine!OrderStatus, NEW t, Machine!canTransition(s, t)
  PROVE  /\ t \in Machine!OrderStatus /\ t # s
         /\ s \notin {"CANCELLED", "REJECTED", "DELIVERED"}
         /\ s = "PENDING_PAYMENT" => t \in {"CONFIRMED", "CANCELLED", "AWAITING_RECIPIENT"}
         /\ t \notin {"PENDING_PAYMENT", "AWAITING_RECIPIENT"} => Rank(s) < Rank(t) \/ (Rank(s) = 4 /\ Rank(t) = 4)
         /\ t = "PICKED_UP" => s = "RIDER_AT_VENDOR"
         /\ t = "OUT_FOR_DELIVERY" => s = "PICKED_UP"
         /\ s = "PICKED_UP" => t \in {"OUT_FOR_DELIVERY", "FAILED_DELIVERY"}
         /\ s = "OUT_FOR_DELIVERY" => t \in {"OTP_VERIFIED", "FAILED_DELIVERY", "READY_FOR_PICKUP"}
<1>1. t \in Machine!TRANSITIONS[s]
  BY DEF Machine!canTransition
<1> QED BY <1>1, SMTT(30) DEF Machine!TRANSITIONS, Machine!OrderStatus, Rank

\* The moves an open order may always make.
LEMMA TableAllows ==
  /\ Machine!canTransition("PENDING_PAYMENT", "CANCELLED")
  /\ \A t \in {"CANCELLED", "ACCEPTED", "REJECTED", "READY_FOR_PICKUP"} : Machine!canTransition("CONFIRMED", t)
BY DEF Machine!canTransition, Machine!TRANSITIONS, Machine!OrderStatus

Targets == Machine!OrderStatus \ {"PENDING_PAYMENT", "AWAITING_RECIPIENT", "OTP_VERIFIED", "DELIVERED", "FAILED_DELIVERY"}

\* The operations that occur in a plan.
LEMMA HeadKnown ==
  ASSUME NEW a \in Operation, NEW b, MayEnd(a) \/ FollowedBy(a, b)
  PROVE  /\ a.do = "move" => a = move(a.arg) /\ a.arg \in Targets
         /\ a.do = "deliver" => a = deliver
         /\ a.do = "cancelJob" => a.arg \in {"accept-timeout", "auto-ready"} /\ a = cancelJob(a.arg)
         /\ a.do = "schedule" => a.arg \in {"accept-timeout", "auto-ready"} /\ a = schedule(a.arg)
         /\ a.do = "publish" => a = publish(a.arg) /\ a.arg \in Announcement \ {"DELIVERED"}
         /\ a.do = "save" => a.arg \in Rider \union {None} /\ a = save(a.arg)
         /\ a.do = "reserve" => a = reserve
         /\ a.do = "release" => a = release
         /\ a.do = "cancelActive" => a = cancelActive
         /\ a.do = "stepOut" => a = stepOut
BY DEF Operation, MayEnd, FollowedBy, move, deliver, cancelJob, schedule, publish, save, reserve, release,
       cancelActive, stepOut, Targets, Machine!OrderStatus, Announcement

\* What is left of a plan is a plan, and its first operation follows the one done.
LEMMA RestShaped ==
  ASSUME NEW p \in Seq(Operation), p # <<>>, Shaped(p)
  PROVE  /\ Head(p) = p[1] /\ Head(p) \in Operation
         /\ Tail(p) \in Seq(Operation) /\ Shaped(Tail(p))
         /\ Len(p) = 1 => Tail(p) = <<>> /\ MayEnd(Head(p))
         /\ Len(p) # 1 => Tail(p) # <<>> /\ Head(Tail(p)) = p[2] /\ FollowedBy(Head(p), p[2]) /\ p[2] \in Operation
         /\ \A i \in 1..Len(Tail(p)) : Tail(p)[i] = p[i + 1] /\ i + 1 \in 1..Len(p)
<1>1. Len(p) \in Nat /\ Len(p) >= 1 /\ Head(p) = p[1]
  BY EmptySeq, LenProperties
<1>2. Head(p) \in Operation /\ Tail(p) \in Seq(Operation)
  BY HeadTailProperties
<1>3. Len(Tail(p)) = Len(p) - 1 /\ \A i \in 1..Len(Tail(p)) : Tail(p)[i] = p[i + 1] /\ i + 1 \in 1..Len(p)
  BY <1>1, HeadTailProperties
<1>4. Shaped(Tail(p))
  <2> SUFFICES ASSUME NEW i \in 1..Len(Tail(p))
               PROVE  /\ i = Len(Tail(p)) => MayEnd(Tail(p)[i])
                      /\ i # Len(Tail(p)) => FollowedBy(Tail(p)[i], Tail(p)[i + 1])
    BY DEF Shaped
  <2>1. /\ i + 1 = Len(p) => MayEnd(p[i + 1])
        /\ i + 1 # Len(p) => FollowedBy(p[i + 1], p[(i + 1) + 1])
    BY <1>3 DEF Shaped
  <2>2. Tail(p)[i] = p[i + 1] /\ (i = Len(Tail(p)) <=> i + 1 = Len(p))
    BY <1>1, <1>3
  <2>3. i # Len(Tail(p)) => i + 1 \in 1..Len(Tail(p))
    <3>1. i \in Nat /\ i >= 1 /\ i <= Len(Tail(p)) /\ Len(Tail(p)) \in Nat
      BY <1>1, <1>3
    <3> QED BY <3>1
  <2>4. i # Len(Tail(p)) => Tail(p)[i + 1] = p[(i + 1) + 1]
    BY <1>3, <2>3
  <2> QED BY <2>1, <2>2, <2>4, Zenon
<1>5. Len(p) = 1 => Tail(p) = <<>> /\ MayEnd(Head(p))
  <2> SUFFICES ASSUME Len(p) = 1 PROVE Tail(p) = <<>> /\ MayEnd(Head(p))
    OBVIOUS
  <2>1. Tail(p) = <<>>
    BY <1>2, <1>3, EmptySeq
  <2> QED BY <1>1, <2>1 DEF Shaped
<1>6. Len(p) # 1 => Tail(p) # <<>> /\ Head(Tail(p)) = p[2] /\ FollowedBy(Head(p), p[2]) /\ p[2] \in Operation
  <2> SUFFICES ASSUME Len(p) # 1
               PROVE Tail(p) # <<>> /\ Head(Tail(p)) = p[2] /\ FollowedBy(Head(p), p[2]) /\ p[2] \in Operation
    OBVIOUS
  <2>1. Len(Tail(p)) >= 1 /\ Tail(p)[1] = p[2] /\ 2 \in 1..Len(p)
    BY <1>1, <1>3
  <2>2. Tail(p) # <<>>
    <3>1. Len(Tail(p)) # 0
      BY <1>1, <1>3
    <3>2. Len(<<>>) = 0
      OBVIOUS
    <3> QED BY <3>1, <3>2, Zenon
  <2>3. FollowedBy(p[1], p[1 + 1])
    <3>1. 1 \in 1..Len(p) /\ 1 # Len(p)
      BY <1>1
    <3> QED BY <3>1, Zenon DEF Shaped
  <2>4. p[2] \in Operation
    BY <2>1, ElementOfSeq
  <2>5. Head(Tail(p)) = Tail(p)[1]
    BY <1>2, <2>2
  <2> QED BY <1>1, <2>1, <2>2, <2>3, <2>4, <2>5
<1> QED BY <1>1, <1>2, <1>3, <1>4, <1>5, <1>6

\* A plan a handler may begin with.
Opens(ops) ==
  /\ ops \in Seq(Operation) /\ Shaped(ops)
  /\ ops # <<>> => /\ Head(ops).do \notin {"publish", "release"}
                   /\ Head(ops) = reserve => Len(ops) > 2 /\ ops[3] = move("ACCEPTED")
  /\ paid \/ Confirmless(ops)

LEMMA Operations ==
  /\ \A s \in Machine!OrderStatus : move(s) \in Operation
  /\ \A r \in Rider \union {None} : save(r) \in Operation
  /\ \A e \in Announcement : publish(e) \in Operation
  /\ \A j \in Job : schedule(j) \in Operation /\ cancelJob(j) \in Operation
  /\ {deliver, stepOut, cancelActive, reserve, release} \subseteq Operation
BY DEF Operation

\* A plan of one, two or three operations.
LEMMA Opening1 ==
  ASSUME NEW a \in Operation, MayEnd(a), a.do \notin {"publish", "release", "reserve"}, a # move("CONFIRMED")
  PROVE  Opens(<<a>>)
BY DEF Opens, Shaped, Confirmless, reserve

LEMMA Opening2 ==
  ASSUME NEW a \in Operation, NEW b \in Operation, FollowedBy(a, b), MayEnd(b),
         a.do \notin {"publish", "release", "reserve"}, a # move("CONFIRMED"), b # move("CONFIRMED")
  PROVE  Opens(<<a, b>>)
BY DEF Opens, Shaped, Confirmless, reserve

LEMMA Opening3 ==
  ASSUME NEW a \in Operation, NEW b \in Operation, NEW c \in Operation, FollowedBy(a, b), FollowedBy(b, c), MayEnd(c),
         a.do \notin {"publish", "release", "reserve"}, a # move("CONFIRMED"), b = move("CONFIRMED") => paid, c # move("CONFIRMED")
  PROVE  Opens(<<a, b, c>>)
BY DEF Opens, Shaped, Confirmless, reserve

LEMMA Opening6 ==
  ASSUME NEW a \in Operation, NEW b \in Operation, NEW c \in Operation, NEW d \in Operation, NEW e \in Operation,
         NEW f \in Operation, FollowedBy(a, b), FollowedBy(b, c), FollowedBy(c, d), FollowedBy(d, e), FollowedBy(e, f),
         MayEnd(f), a.do \notin {"publish", "release"}, a = reserve => c = move("ACCEPTED"),
         move("CONFIRMED") \in {a, b, c, d, e, f} => paid
  PROVE  Opens(<<a, b, c, d, e, f>>)
BY DEF Opens, Shaped, Confirmless

LEMMA OpeningNone == Opens(<<>>)
BY DEF Opens, Shaped, Confirmless

\* Which operation follows which, in the plans below.
LEMMA Sequels ==
  /\ FollowedBy(reserve, cancelJob("accept-timeout"))
  /\ FollowedBy(cancelJob("accept-timeout"), move("ACCEPTED"))
  /\ FollowedBy(move("ACCEPTED"), move("PREPARING")) /\ FollowedBy(move("PREPARING"), schedule("auto-ready"))
  /\ FollowedBy(schedule("auto-ready"), publish("ACCEPTED"))
  /\ FollowedBy(cancelJob("accept-timeout"), move("REJECTED")) /\ FollowedBy(move("REJECTED"), publish("REJECTED"))
  /\ FollowedBy(cancelJob("auto-ready"), move("READY_FOR_PICKUP"))
  /\ FollowedBy(move("READY_FOR_PICKUP"), publish("READY_FOR_PICKUP"))
  /\ FollowedBy(cancelJob("auto-ready"), schedule("auto-ready"))
  /\ FollowedBy(move("CANCELLED"), publish("CANCELLED"))
  /\ \A r \in Rider \union {None} : \A b \in {cancelJob("auto-ready"), move("CONFIRMED"), move("RIDER_ASSIGNED"),
                                              move("READY_FOR_PICKUP")} : FollowedBy(save(r), b)
  /\ FollowedBy(move("CONFIRMED"), schedule("accept-timeout"))
  /\ FollowedBy(schedule("accept-timeout"), cancelJob("accept-timeout"))
  /\ FollowedBy(cancelJob("accept-timeout"), move("READY_FOR_PICKUP"))
  /\ FollowedBy(move("RIDER_EN_ROUTE_TO_VENDOR"), stepOut) /\ FollowedBy(move("RIDER_AT_VENDOR"), stepOut)
  /\ FollowedBy(move("PICKED_UP"), move("OUT_FOR_DELIVERY")) /\ FollowedBy(move("OUT_FOR_DELIVERY"), stepOut)
BY DEF FollowedBy, save

LEMMA Endings ==
  /\ \A r \in Rider \union {None} : MayEnd(save(r))
  /\ \A e \in {"ACCEPTED", "READY_FOR_PICKUP", "CANCELLED", "REJECTED"} : MayEnd(publish(e))
  /\ MayEnd(schedule("auto-ready")) /\ MayEnd(schedule("accept-timeout"))
  /\ MayEnd(deliver) /\ MayEnd(stepOut) /\ MayEnd(cancelActive) /\ MayEnd(release)
  /\ \A s \in {"READY_FOR_PICKUP", "RIDER_ASSIGNED", "RIDER_EN_ROUTE_TO_VENDOR", "RIDER_AT_VENDOR", "WAITING_FOR_RIDER"} :
       MayEnd(move(s))
BY DEF MayEnd, save

LEMMA OpeningRequests ==
  /\ Opens(<<reserve, cancelJob("accept-timeout"), move("ACCEPTED"), move("PREPARING"), schedule("auto-ready"),
             publish("ACCEPTED")>>)
  /\ Opens(<<cancelJob("accept-timeout"), move("REJECTED"), publish("REJECTED")>>)
  /\ Opens(<<cancelJob("auto-ready"), move("READY_FOR_PICKUP"), publish("READY_FOR_PICKUP")>>)
  /\ \A r \in Rider \union {None} : Opens(<<save(r), cancelJob("auto-ready"), schedule("auto-ready")>>)
  /\ Opens(<<move("CANCELLED"), publish("CANCELLED")>>)
  /\ Opens(<<deliver>>) /\ Opens(<<cancelActive>>)
  /\ Opens(<<move("READY_FOR_PICKUP"), publish("READY_FOR_PICKUP")>>)
<1>0. /\ {"ACCEPTED", "PREPARING", "REJECTED", "READY_FOR_PICKUP", "CANCELLED"} \subseteq Machine!OrderStatus
      /\ {"ACCEPTED", "REJECTED", "READY_FOR_PICKUP", "CANCELLED"} \subseteq Announcement
      /\ {"accept-timeout", "auto-ready"} \subseteq Job
  BY DEF Machine!OrderStatus, Announcement, Job
<1>1. /\ \A s \in Machine!OrderStatus : move(s).do = "move" /\ (s # "CONFIRMED" => move(s) # move("CONFIRMED"))
      /\ \A r : save(r).do = "save" /\ save(r) # move("CONFIRMED")
      /\ \A e : publish(e).do = "publish" /\ publish(e) # move("CONFIRMED")
      /\ \A j : /\ schedule(j).do = "schedule" /\ schedule(j) # move("CONFIRMED")
                /\ cancelJob(j).do = "cancelJob" /\ cancelJob(j) # move("CONFIRMED")
      /\ deliver.do = "deliver" /\ deliver # move("CONFIRMED")
      /\ cancelActive.do = "cancelActive" /\ cancelActive # move("CONFIRMED")
      /\ reserve.do = "reserve" /\ reserve # move("CONFIRMED")
  BY DEF move, save, publish, schedule, cancelJob, deliver, cancelActive, reserve
<1>2. Opens(<<reserve, cancelJob("accept-timeout"), move("ACCEPTED"), move("PREPARING"), schedule("auto-ready"),
             publish("ACCEPTED")>>)
  <2>1. move("CONFIRMED") \notin {reserve, cancelJob("accept-timeout"), move("ACCEPTED"), move("PREPARING"),
                                  schedule("auto-ready"), publish("ACCEPTED")}
    BY <1>0, <1>1
  <2> QED BY <1>0, <1>1, <2>1, Opening6, Operations, Sequels, Endings
<1>3. /\ Opens(<<cancelJob("accept-timeout"), move("REJECTED"), publish("REJECTED")>>)
      /\ Opens(<<cancelJob("auto-ready"), move("READY_FOR_PICKUP"), publish("READY_FOR_PICKUP")>>)
      /\ \A r \in Rider \union {None} : Opens(<<save(r), cancelJob("auto-ready"), schedule("auto-ready")>>)
  BY <1>0, <1>1, Opening3, Operations, Sequels, Endings
<1>4. /\ Opens(<<move("CANCELLED"), publish("CANCELLED")>>)
      /\ Opens(<<move("READY_FOR_PICKUP"), publish("READY_FOR_PICKUP")>>)
  BY <1>0, <1>1, Opening2, Operations, Sequels, Endings
<1>5. Opens(<<deliver>>) /\ Opens(<<cancelActive>>)
  BY <1>1, Opening1, Operations, Endings
<1> QED BY <1>2, <1>3, <1>4, <1>5

\* Plans put together.
LEMMA Joined ==
  ASSUME NEW a \in Operation, NEW b \in Operation
  PROVE  <<a>> \o <<>> = <<a>> /\ <<a>> \o <<b>> = <<a, b>>
<1>1. <<a>> \in Seq(Operation) /\ <<b>> \in Seq(Operation) /\ <<a, b>> \in Seq(Operation)
  OBVIOUS
<1>2. <<a>> \o <<>> = <<a>>
  BY <1>1, ConcatEmptySeq
<1>3. <<a>> \o <<b>> \in Seq(Operation) /\ Len(<<a>> \o <<b>>) = 2
      /\ (<<a>> \o <<b>>)[1] = a /\ (<<a>> \o <<b>>)[2] = b
  BY <1>1, ConcatProperties
<1>4. Len(<<a, b>>) = 2 /\ \A i \in 1..2 : (<<a>> \o <<b>>)[i] = <<a, b>>[i]
  BY <1>3
<1>5. <<a>> \o <<b>> = <<a, b>>
  BY <1>1, <1>3, <1>4, SeqEqual
<1> QED BY <1>2, <1>5

LEMMA JoinedThree ==
  ASSUME NEW a \in Operation, NEW b \in Operation, NEW c \in Operation, NEW d \in Operation, NEW e \in Operation,
         NEW f \in Operation
  PROVE  <<a, b, c>> \o <<d, e, f>> = <<a, b, c, d, e, f>>
<1>1. <<a, b, c>> \in Seq(Operation) /\ <<d, e, f>> \in Seq(Operation) /\ <<a, b, c, d, e, f>> \in Seq(Operation)
  OBVIOUS
<1> DEFINE u == <<a, b, c>> \o <<d, e, f>>
<1>3. u \in Seq(Operation) /\ Len(u) = 6
      /\ u[1] = a /\ u[2] = b /\ u[3] = c /\ u[4] = d /\ u[5] = e /\ u[6] = f
  BY <1>1, ConcatProperties
<1>4. Len(<<a, b, c, d, e, f>>) = 6 /\ \A i \in 1..6 : u[i] = <<a, b, c, d, e, f>>[i]
  BY <1>3
<1> QED BY <1>1, <1>3, <1>4, SeqEqual

LEMMA OpeningHops == ASSUME NEW s PROVE Opens(Hops(s))
<1>0. {"RIDER_EN_ROUTE_TO_VENDOR", "RIDER_AT_VENDOR", "PICKED_UP", "OUT_FOR_DELIVERY"} \subseteq Machine!OrderStatus
  BY DEF Machine!OrderStatus
<1>1. /\ \A t \in Machine!OrderStatus : move(t).do = "move" /\ (t # "CONFIRMED" => move(t) # move("CONFIRMED"))
      /\ stepOut.do = "stepOut" /\ stepOut # move("CONFIRMED")
  BY DEF move, stepOut
<1>2. /\ Opens(<<move("RIDER_EN_ROUTE_TO_VENDOR"), stepOut>>) /\ Opens(<<move("RIDER_AT_VENDOR"), stepOut>>)
      /\ Opens(<<move("OUT_FOR_DELIVERY"), stepOut>>)
  BY <1>0, <1>1, Opening2, Operations, Sequels, Endings
<1>3. Opens(<<move("PICKED_UP"), move("OUT_FOR_DELIVERY"), stepOut>>)
  BY <1>0, <1>1, Opening3, Operations, Sequels, Endings
<1> QED BY <1>2, <1>3, OpeningNone DEF Hops

LEMMA OpeningHandled ==
  ASSUME order \in Row, NEW m \in Message
  PROVE  Opens(Handle(m))
<1>0. {"CONFIRMED", "RIDER_EN_ROUTE_TO_VENDOR", "RIDER_AT_VENDOR", "RIDER_ASSIGNED", "READY_FOR_PICKUP", "WAITING_FOR_RIDER"}
         \subseteq Machine!OrderStatus
      /\ "READY_FOR_PICKUP" \in Announcement /\ "accept-timeout" \in Job
      /\ order.rider \in Rider \union {None} /\ m.rider \in Rider \union {None}
  BY DEF Machine!OrderStatus, Announcement, Job, Row, Message
<1>1. /\ \A t \in Machine!OrderStatus : move(t).do = "move" /\ (t # "CONFIRMED" => move(t) # move("CONFIRMED"))
      /\ \A r : save(r).do = "save" /\ save(r) # move("CONFIRMED")
      /\ \A j : /\ schedule(j).do = "schedule" /\ schedule(j) # move("CONFIRMED")
                /\ cancelJob(j).do = "cancelJob" /\ cancelJob(j) # move("CONFIRMED")
      /\ stepOut.do = "stepOut" /\ stepOut # move("CONFIRMED")
      /\ \A e : publish(e).do = "publish" /\ publish(e) # move("CONFIRMED")
  BY DEF move, save, schedule, cancelJob, stepOut, publish
<1>2. /\ Opens(<<move("RIDER_EN_ROUTE_TO_VENDOR")>>) /\ Opens(<<move("RIDER_AT_VENDOR")>>)
      /\ Opens(<<move("WAITING_FOR_RIDER")>>) /\ Opens(<<stepOut>>)
  BY <1>0, <1>1, Opening1, Operations, Endings
<1>3. Opens(ConfirmOnPayment)
  <2>1. paid => Opens(<<save(order.rider), move("CONFIRMED"), schedule("accept-timeout")>>)
    BY <1>0, <1>1, Opening3, Operations, Sequels, Endings
  <2>2. paid => Opens(<<save(order.rider), move("CONFIRMED"), schedule("accept-timeout"),
                        cancelJob("accept-timeout"), move("READY_FOR_PICKUP"), publish("READY_FOR_PICKUP")>>)
    <3>1. save(order.rider) # reserve
      BY DEF save, reserve
    <3> QED BY <1>0, <1>1, <3>1, Opening6, Operations, Sequels, Endings
  <2>3. <<save(order.rider), move("CONFIRMED"), schedule("accept-timeout")>> \o <<>>
          = <<save(order.rider), move("CONFIRMED"), schedule("accept-timeout")>>
    OBVIOUS
  <2>4. <<save(order.rider), move("CONFIRMED"), schedule("accept-timeout")>>
          \o <<cancelJob("accept-timeout"), move("READY_FOR_PICKUP"), publish("READY_FOR_PICKUP")>>
          = <<save(order.rider), move("CONFIRMED"), schedule("accept-timeout"),
              cancelJob("accept-timeout"), move("READY_FOR_PICKUP"), publish("READY_FOR_PICKUP")>>
    BY <1>0, JoinedThree, Operations
  <2> QED BY <2>1, <2>2, <2>3, <2>4, OpeningNone, Zenon DEF ConfirmOnPayment
<1>4. ASSUME NEW r \in Rider \union {None}, NEW s \in {"RIDER_ASSIGNED", "READY_FOR_PICKUP"}
      PROVE  Opens(<<save(r)>> \o <<>>) /\ Opens(<<save(r)>> \o <<move(s)>>)
  <2>1. Opens(<<save(r)>>)
    BY <1>1, Opening1, Operations, Endings
  <2>2. Opens(<<save(r), move(s)>>)
    BY <1>0, <1>1, Opening2, Operations, Sequels, Endings
  <2>3. <<save(r)>> \o <<>> = <<save(r)>> /\ <<save(r)>> \o <<move(s)>> = <<save(r), move(s)>>
    BY <1>0, Joined, Operations
  <2> QED BY <2>1, <2>2, <2>3
<1>5. Opens(OnRiderAssigned(m.rider)) /\ Opens(OnRiderUnassigned)
  BY <1>0, <1>4, Zenon DEF OnRiderAssigned, OnRiderUnassigned
<1>6. Opens(OnRiderEnRoute) /\ Opens(OnRiderAtVendor) /\ Opens(OnRiderPickedUp) /\ Opens(OnWaitingForRider)
  BY <1>2, OpeningNone DEF OnRiderEnRoute, OnRiderAtVendor, OnRiderPickedUp, OnWaitingForRider
<1>7. m.about \in {"charge_succeeded", "waiting_for_rider", "rider_assigned", "rider_en_route", "rider_at_vendor",
                   "rider_picked_up", "rider_unassigned"}
  BY DEF Message
<1> QED BY <1>3, <1>5, <1>6, <1>7 DEF Handle

-----------------------------------------------------------------------------
(* What a handler's beginning comes to *)

Begins(h, ops) ==
  /\ Opens(ops) /\ plan[h] = <<>>
  /\ plan' = [plan EXCEPT ![h] = ops]
  /\ snap' = [snap EXCEPT ![h] = IF ops # <<>> /\ ops[1].do = "save" THEN order ELSE NoRow]
  /\ source' \in {[source EXCEPT ![h] = m] : m \in Message \union {None}} /\ (ops = <<>> => source'[h] = None)
  /\ mail' \subseteq mail /\ jobs' \subseteq jobs
  /\ order.status = "PENDING_PAYMENT" /\ "payment-timeout" \in jobs \ jobs' => ops # <<>> /\ Head(ops) = cancelActive
  /\ order.status = "CONFIRMED" /\ "accept-timeout" \in jobs \ jobs' => ops # <<>> /\ Head(ops) = cancelActive
  /\ UNCHANGED <<step, rescue, order, kind, prepaid, stock, announced, paid, dispatchVars, happened>>

LEMMA RequestBegins ==
  ASSUME TypeOK, NEW h \in Handler, NEW from, NEW ops, Opens(ops), ops # <<>>, Request(h, from, ops)
  PROVE  Begins(h, ops)
<1>1. source' = [source EXCEPT ![h] = None]
  BY DEF Request, Begin, TypeOK
<1>2. plan[h] = <<>> /\ jobs' = jobs /\ mail' = mail
  BY DEF Request, Begin, orderVars
<1>3. UNCHANGED <<step, rescue, order, kind, prepaid, stock, announced, paid, dispatchVars, happened>>
  BY DEF Request, Begin, orderVars, dispatchVars
<1>4. /\ plan' = [plan EXCEPT ![h] = ops]
      /\ snap' = [snap EXCEPT ![h] = IF ops # <<>> /\ ops[1].do = "save" THEN order ELSE NoRow]
  BY DEF Request, Begin
<1> QED BY <1>1, <1>2, <1>3, <1>4 DEF Begins

LEMMA JobBegins ==
  ASSUME TypeOK, NEW h \in Handler, NEW job, NEW from, NEW ops, Opens(ops), Fire(h, job, from, ops),
         job = "payment-timeout" => from = {"PENDING_PAYMENT"} /\ ops = <<cancelActive>>,
         job = "accept-timeout" => from = {"CONFIRMED"} /\ ops = <<cancelActive>>
  PROVE  \E begun : Begins(h, begun)
<1> DEFINE begun == IF order.status \in from THEN ops ELSE <<>>
<1>1. source' = [source EXCEPT ![h] = None]
  BY DEF Fire, Begin, TypeOK
<1>2. plan[h] = <<>> /\ jobs' = jobs \ {job} /\ mail' = mail
  BY DEF Fire, Begin
<1>3. UNCHANGED <<step, rescue, order, kind, prepaid, stock, announced, paid, dispatchVars, happened>>
  BY DEF Fire, Begin, dispatchVars
<1>4. /\ plan' = [plan EXCEPT ![h] = begun]
      /\ snap' = [snap EXCEPT ![h] = IF begun # <<>> /\ begun[1].do = "save" THEN order ELSE NoRow]
  BY DEF Fire, Begin
<1>5. Opens(begun)
  BY OpeningNone
<1>6. \/ job # "payment-timeout" /\ job # "accept-timeout"
      \/ order.status \in from => begun # <<>> /\ Head(begun) = cancelActive
  OBVIOUS
<1>7. source'[h] = None
  BY <1>1 DEF TypeOK
<1> HIDE DEF begun
<1>8. /\ order.status = "PENDING_PAYMENT" /\ "payment-timeout" \in jobs \ jobs' => begun # <<>> /\ Head(begun) = cancelActive
      /\ order.status = "CONFIRMED" /\ "accept-timeout" \in jobs \ jobs' => begun # <<>> /\ Head(begun) = cancelActive
  BY <1>2, <1>6
<1>9. source' \in {[source EXCEPT ![h] = m] : m \in Message \union {None}}
  BY <1>1
<1>10. mail' \subseteq mail /\ jobs' \subseteq jobs
  BY <1>2
<1>11. Begins(h, begun)
  BY <1>2, <1>3, <1>4, <1>5, <1>7, <1>8, <1>9, <1>10 DEF Begins
<1> QED BY <1>11

LEMMA EventBegins ==
  ASSUME TypeOK, NEW h \in Handler, NEW m \in Message, Consume(h, m)
  PROVE  Begins(h, Handle(m))
<1>1. Opens(Handle(m))
  BY OpeningHandled DEF TypeOK
<1>2. /\ plan[h] = <<>> /\ jobs' = jobs /\ mail' \subseteq mail
      /\ source' = [source EXCEPT ![h] = IF Handle(m) = <<>> THEN None ELSE m]
  BY DEF Consume, Begin, orderVars
<1>3. UNCHANGED <<step, rescue, order, kind, prepaid, stock, announced, paid, dispatchVars, happened>>
  BY DEF Consume, Begin, orderVars, dispatchVars
<1>4. /\ plan' = [plan EXCEPT ![h] = Handle(m)]
      /\ snap' = [snap EXCEPT ![h] = IF Handle(m) # <<>> /\ Handle(m)[1].do = "save" THEN order ELSE NoRow]
  BY DEF Consume, Begin
<1>5. Handle(m) = <<>> => source'[h] = None
  BY <1>2 DEF TypeOK
<1>6. source' \in {[source EXCEPT ![h] = x] : x \in Message \union {None}}
  BY <1>2
<1> QED BY <1>1, <1>2, <1>3, <1>4, <1>5, <1>6 DEF Begins

\* Every handler that begins takes up a plan of the known shape, and a job that
\* leaves the queue while the order waits for it is replaced by a cancellation.
LEMMA Started ==
  ASSUME TypeOK, NEW h \in Handler, Start(h)
  PROVE  \E ops : Begins(h, ops)
<1>0. order.rider \in Rider \union {None}
  BY DEF TypeOK, Row
<1>1. CASE Accept(h)
  <2> DEFINE ops == <<reserve, cancelJob("accept-timeout"), move("ACCEPTED"), move("PREPARING"), schedule("auto-ready"),
                      publish("ACCEPTED")>>
  <2>1. Opens(ops) /\ Request(h, {"CONFIRMED"}, ops)
    BY <1>1, OpeningRequests DEF Accept
  <2>2. ops # <<>>
    OBVIOUS
  <2> QED BY <2>1, <2>2, RequestBegins
<1>2. CASE Reject(h)
  <2> DEFINE ops == <<cancelJob("accept-timeout"), move("REJECTED"), publish("REJECTED")>>
  <2>1. Opens(ops) /\ Request(h, {"CONFIRMED"}, ops)
    BY <1>2, OpeningRequests DEF Reject
  <2>2. ops # <<>>
    OBVIOUS
  <2> QED BY <2>1, <2>2, RequestBegins
<1>3. CASE MarkReady(h)
  <2> DEFINE ops == <<cancelJob("auto-ready"), move("READY_FOR_PICKUP"), publish("READY_FOR_PICKUP")>>
  <2>1. Opens(ops) /\ Request(h, {"PREPARING", "ACCEPTED"}, ops)
    BY <1>3, OpeningRequests DEF MarkReady
  <2>2. ops # <<>>
    OBVIOUS
  <2> QED BY <2>1, <2>2, RequestBegins
<1>4. CASE Delay(h)
  <2> DEFINE ops == <<save(order.rider), cancelJob("auto-ready"), schedule("auto-ready")>>
  <2>1. Opens(ops) /\ Request(h, {"PREPARING", "ACCEPTED"}, ops)
    BY <1>0, <1>4, OpeningRequests DEF Delay
  <2>2. ops # <<>>
    OBVIOUS
  <2> QED BY <2>1, <2>2, RequestBegins
<1>5. CASE Cancel(h)
  <2> DEFINE ops == <<move("CANCELLED"), publish("CANCELLED")>>
  <2>1. Opens(ops) /\ Request(h, ActiveStatus \union Cancellable, ops)
    BY <1>5, OpeningRequests DEF Cancel
  <2>2. ops # <<>>
    OBVIOUS
  <2> QED BY <2>1, <2>2, RequestBegins
<1>6. CASE ConfirmOtp(h)
  <2> DEFINE ops == <<deliver>>
  <2>1. Opens(ops) /\ Request(h, Machine!OrderStatus, ops)
    BY <1>6, OpeningRequests DEF ConfirmOtp
  <2>2. ops # <<>>
    OBVIOUS
  <2> QED BY <2>1, <2>2, RequestBegins
<1>7. CASE PaymentTimeout(h)
  BY <1>7, JobBegins, OpeningRequests DEF PaymentTimeout
<1>8. CASE AcceptTimeout(h)
  BY <1>8, JobBegins, OpeningRequests DEF AcceptTimeout
<1>9. CASE AutoReady(h)
  BY <1>9, JobBegins, OpeningRequests DEF AutoReady
<1>10. CASE \E m \in Message : Consume(h, m)
  BY <1>10, EventBegins
<1> QED BY <1>1, <1>2, <1>3, <1>4, <1>5, <1>6, <1>7, <1>8, <1>9, <1>10 DEF Start

-----------------------------------------------------------------------------
(* The types *)

HandlersTyped ==
  /\ plan   \in [Handler -> Seq(Operation)]
  /\ step   \in [Handler -> {"next", "stock", "save"}]
  /\ snap   \in [Handler -> Row]
  /\ source \in [Handler -> Message \union {None}]
  /\ rescue \in [Handler -> BOOLEAN]
  /\ \A h \in Handler : plan[h] = <<>> => step[h] = "next" /\ source[h] = None

OrderTyped ==
  /\ order     \in Row
  /\ kind      \in Kinds /\ prepaid \in BOOLEAN
  /\ stock     \in {"none", "reserved", "consumed"}
  /\ jobs      \subseteq Job
  /\ DOMAIN announced = Announcement
  /\ \A e \in Announcement : announced[e] \in 0..Cap(e)

OthersTyped ==
  /\ paid \in BOOLEAN
  /\ mail \subseteq Message
  /\ offered \in BOOLEAN /\ assigned \in Rider \union {None}
  /\ served \subseteq Rider /\ reported \subseteq Report
  /\ happened \subseteq Fault \union {"overwrite", "backInQueue"}

LEMMA TypeParts == TypeOK <=> HandlersTyped /\ OrderTyped /\ OthersTyped
BY DEF TypeOK, HandlersTyped, OrderTyped, OthersTyped

LEMMA TypePartsNext == TypeOK' <=> HandlersTyped' /\ OrderTyped' /\ OthersTyped'
BY DEF TypeOK, HandlersTyped, OrderTyped, OthersTyped

LEMMA NoRowTyped == NoRow \in Row
BY DEF NoRow, Row, Machine!OrderStatus

LEMMA ContinueTyped ==
  ASSUME HandlersTyped, NEW h \in Handler, NEW ops \in Seq(Operation), Continue(h, ops)
  PROVE  HandlersTyped'
BY NoRowTyped DEF HandlersTyped, Continue

\* What is left of a plan, after the handler's next operation.
LEMMA RestTyped ==
  ASSUME HandlersTyped, NEW h \in Handler, plan[h] # <<>>
  PROVE  Rest(h) \in Seq(Operation) /\ Head(plan[h]) \in Operation
BY HeadTailProperties DEF HandlersTyped, Rest

LEMMA ThrowTyped ==
  ASSUME HandlersTyped, mail \subseteq Message, NEW h \in Handler, Throw(h)
  PROVE  HandlersTyped' /\ mail' \subseteq Message
<1>1. <<release>> \in Seq(Operation) /\ <<>> \in Seq(Operation)
  BY Operations
<1>2. HandlersTyped'
  <2>1. \E ops \in Seq(Operation) : Continue(h, ops)
    BY <1>1 DEF Throw
  <2> QED BY <2>1, ContinueTyped
<1>3. mail' \subseteq Message
  BY DEF Throw, HandlersTyped
<1> QED BY <1>2, <1>3

LEMMA CountedTyped ==
  ASSUME OrderTyped, NEW events
  PROVE  /\ DOMAIN Counted(events) = Announcement
         /\ \A e \in Announcement : Counted(events)[e] \in 0..Cap(e) /\ Counted(events)[e] \in Nat
         /\ \A e \in Announcement : /\ e \in events => Counted(events)[e] > 0
                                    /\ Counted(events)[e] \in {announced[e], announced[e] + 1}
                                    /\ e \notin events => Counted(events)[e] = announced[e]
<1>1. \A e \in Announcement : Cap(e) \in 1..2 /\ announced[e] \in 0..Cap(e)
  BY DEF Cap, OrderTyped
<1> QED BY <1>1 DEF Counted

\* The row that is written is a row, and what is recorded is a fault.
LEMMA WriteTyped ==
  ASSUME OthersTyped, NEW h \in Handler, NEW row \in Row, Write(h, row)
  PROVE  order' \in Row /\ happened' \subseteq Fault \union {"overwrite", "backInQueue"} /\ happened \subseteq happened'
BY DEF Write, OthersTyped

LEMMA BeginsTyped ==
  ASSUME TypeOK, NEW h \in Handler, NEW ops, Begins(h, ops)
  PROVE  TypeOK'
<1>1. HandlersTyped'
  BY NoRowTyped DEF Begins, TypeOK, HandlersTyped, Opens
<1>2. OrderTyped' /\ OthersTyped'
  BY DEF Begins, TypeOK, OrderTyped, OthersTyped, dispatchVars
<1> QED BY <1>1, <1>2, TypePartsNext

LEMMA MessageKnown ==
  /\ \A r \in Rider : [about |-> "rider_assigned", rider |-> r] \in Message /\ [about |-> "rider_unassigned", rider |-> r] \in Message
  /\ [about |-> "waiting_for_rider", rider |-> None] \in Message /\ [about |-> "charge_succeeded", rider |-> None] \in Message
BY DEF Message

LEMMA QuietTyped ==
  ASSUME TypeOK, ChargeSucceeds \/ Dispatch
  PROVE  TypeOK'
<1>1. HandlersTyped'
  BY DEF ChargeSucceeds, Dispatch, Offer, ReleaseByRider, ReleaseAborted, ReleaseForOrder, ConfirmPickup, ArriveAtVendor,
         OnDelivered, AcceptOffer, Reports, handlerVars, TypeOK, HandlersTyped
<1>2. OrderTyped'
  BY DEF ChargeSucceeds, Dispatch, Offer, ReleaseByRider, ReleaseAborted, ReleaseForOrder, ConfirmPickup, ArriveAtVendor,
         OnDelivered, AcceptOffer, Reports, orderVars, TypeOK, OrderTyped
<1>3. OthersTyped'
  <2>1. CASE ChargeSucceeds
    BY <2>1, MessageKnown DEF ChargeSucceeds, Send, dispatchVars, TypeOK, OthersTyped
  <2>2. CASE Offer
    BY <2>2, MessageKnown DEF Offer, Send, TypeOK, OthersTyped
  <2>3. CASE ReleaseByRider \/ ReleaseAborted
    BY <2>3, MessageKnown DEF ReleaseByRider, ReleaseAborted, ReleaseForOrder, Send, TypeOK, OthersTyped
  <2>4. CASE ConfirmPickup \/ ArriveAtVendor
    <3>1. assigned \in Rider
      BY <2>4 DEF ConfirmPickup, ArriveAtVendor, Reports, TypeOK
    <3>2. mail' \subseteq Message /\ reported' \subseteq Report
      BY <2>4, <3>1 DEF ConfirmPickup, ArriveAtVendor, Reports, Message, Report, TypeOK
    <3> QED BY <2>4, <3>2 DEF ConfirmPickup, ArriveAtVendor, Reports, TypeOK, OthersTyped
  <2>5. CASE OnDelivered
    BY <2>5 DEF OnDelivered, TypeOK, OthersTyped
  <2>6. CASE \E r \in Rider : AcceptOffer(r)
    BY <2>6, MessageKnown DEF AcceptOffer, Send, TypeOK, OthersTyped
  <2> QED BY <2>1, <2>2, <2>3, <2>4, <2>5, <2>6 DEF Dispatch
<1> QED BY <1>1, <1>2, <1>3, TypePartsNext

LEMMA Arguments ==
  ASSUME NEW a \in Operation
  PROVE  /\ a.do = "move" => a.arg \in Machine!OrderStatus
         /\ a.do = "publish" => a.arg \in Announcement
         /\ a.do \in {"schedule", "cancelJob"} => a.arg \in Job
         /\ a.do = "save" => a.arg \in Rider \union {None}
BY DEF Operation, move, publish, schedule, cancelJob, save, deliver, stepOut, cancelActive, reserve, release

\* What follows a move that was saved: the event without a publisher of its own first.
Onward(h) == (IF Arg(h) \in {"PICKED_UP", "OUT_FOR_DELIVERY"} THEN <<publish(Arg(h))>> ELSE <<>>) \o Rest(h)

LEMMA OnwardTyped ==
  ASSUME HandlersTyped, NEW h \in Handler, plan[h] # <<>>
  PROVE  /\ Onward(h) \in Seq(Operation)
         /\ Arg(h) \notin {"PICKED_UP", "OUT_FOR_DELIVERY"} => Onward(h) = Rest(h)
         /\ Arg(h) \in {"PICKED_UP", "OUT_FOR_DELIVERY"} =>
              /\ Onward(h) = <<publish(Arg(h))>> \o Rest(h)
              /\ publish(Arg(h)) \in Operation
<1>1. Rest(h) \in Seq(Operation)
  BY RestTyped
<1>2. <<>> \o Rest(h) = Rest(h)
  BY <1>1, ConcatEmptySeq
<1>3. CASE Arg(h) \in {"PICKED_UP", "OUT_FOR_DELIVERY"}
  <2>1. publish(Arg(h)) \in Operation
    BY <1>3, Operations DEF Announcement
  <2>2. <<publish(Arg(h))>> \in Seq(Operation)
    BY <2>1
  <2>3. <<publish(Arg(h))>> \o Rest(h) \in Seq(Operation)
    BY <1>1, <2>2, ConcatProperties
  <2>4. Onward(h) = <<publish(Arg(h))>> \o Rest(h)
    BY <1>3, Zenon DEF Onward
  <2> QED BY <1>3, <2>1, <2>3, <2>4
<1>4. CASE Arg(h) \notin {"PICKED_UP", "OUT_FOR_DELIVERY"}
  <2>1. Onward(h) = Rest(h)
    BY <1>2, <1>4, Zenon DEF Onward
  <2> QED BY <1>1, <1>4, <2>1
<1> QED BY <1>3, <1>4

\* A reservation is not the end of a plan.
LEMMA ReserveGoesOn ==
  ASSUME HandlersTyped, PlansInv, NEW h \in Handler, Doing(h, "reserve")
  PROVE  /\ Head(plan[h]) = reserve /\ Rest(h) # <<>> /\ Head(Rest(h)) = cancelJob("accept-timeout")
         /\ Rest(h)[2] = move("ACCEPTED")
<1>1. plan[h] \in Seq(Operation) /\ plan[h] # <<>> /\ Shaped(plan[h]) /\ Head(plan[h]).do = "reserve"
  BY DEF HandlersTyped, PlansInv, Doing
<1>2. Head(plan[h]) \in Operation
  BY <1>1, RestShaped
<1>3. Head(plan[h]) = reserve
  <2>1. reserve.do = "reserve" /\ \A a \in Operation : a.do = "reserve" => a = reserve
    BY DEF Operation, move, publish, schedule, cancelJob, save, deliver, stepOut, cancelActive, reserve, release
  <2> QED BY <1>1, <1>2, <2>1
<1>4. ~MayEnd(reserve) /\ \A b : FollowedBy(reserve, b) => b = cancelJob("accept-timeout")
  BY DEF MayEnd, FollowedBy, move, publish, schedule, cancelJob, deliver, stepOut, cancelActive, reserve, release
<1>5. Len(plan[h]) # 1
  BY <1>1, <1>3, <1>4, RestShaped
<1>6. Rest(h) # <<>> /\ Head(Rest(h)) = cancelJob("accept-timeout")
  BY <1>1, <1>3, <1>4, <1>5, RestShaped DEF Rest
<1>7. Len(plan[h]) > 2 /\ plan[h][3] = move("ACCEPTED")
  BY <1>1, <1>3 DEF PlansInv, Due
<1>8. Rest(h)[2] = plan[h][3]
  <2>1. Len(Rest(h)) = Len(plan[h]) - 1 /\ Len(plan[h]) \in Nat
        /\ \A i \in 1..Len(Rest(h)) : Rest(h)[i] = plan[h][i + 1]
    BY <1>1, HeadTailProperties, LenProperties DEF Rest
  <2>2. 2 \in 1..Len(Rest(h))
    BY <1>7, <2>1
  <2>3. Rest(h)[2] = plan[h][2 + 1]
    BY <2>1, <2>2
  <2> QED BY <2>3
<1> QED BY <1>3, <1>6, <1>7, <1>8

LEMMA RunTyped ==
  ASSUME TypeOK, PlansInv, NEW h \in Handler, Run(h)
  PROVE  TypeOK'
<1>0. HandlersTyped /\ OrderTyped /\ OthersTyped
  BY TypeParts
<1>1. CASE Publish(h)
  <2>1. plan[h] # <<>> /\ Continue(h, Rest(h)) /\ announced' = Counted({Arg(h)})
    BY <1>1 DEF Publish, Doing
  <2>2. HandlersTyped'
    BY <1>0, <2>1, RestTyped, ContinueTyped
  <2>3. OrderTyped'
    BY <1>0, <1>1, <2>1, CountedTyped DEF Publish, OrderTyped
  <2>4. OthersTyped'
    BY <1>0, <1>1 DEF Publish, OthersTyped, dispatchVars
  <2> QED BY <2>2, <2>3, <2>4, TypePartsNext
<1>2. CASE ScheduleJob(h)
  <2>1. plan[h] # <<>> /\ Continue(h, Rest(h))
    BY <1>2 DEF ScheduleJob, Doing
  <2>2. HandlersTyped'
    BY <1>0, <2>1, RestTyped, ContinueTyped
  <2>3. Head(plan[h]) \in Operation /\ Arg(h) = Head(plan[h]).arg
    BY <1>0, <2>1, RestTyped DEF Arg
  <2>4. jobs' \subseteq Job
    BY <1>0, <1>2, <2>3, Arguments DEF ScheduleJob, Doing, OrderTyped
  <2>5. OrderTyped'
    BY <1>0, <1>2, <2>4 DEF ScheduleJob, OrderTyped
  <2>6. OthersTyped'
    BY <1>0, <1>2 DEF ScheduleJob, OthersTyped, dispatchVars
  <2> QED BY <2>2, <2>5, <2>6, TypePartsNext
<1>3. CASE SaveSnapshot(h)
  <2>1. plan[h] # <<>> /\ Continue(h, Rest(h)) /\ Head(plan[h]).do = "save"
    BY <1>3 DEF SaveSnapshot, Doing
  <2>2. HandlersTyped'
    BY <1>0, <2>1, RestTyped, ContinueTyped
  <2>3. Head(plan[h]) \in Operation /\ Arg(h) = Head(plan[h]).arg
    BY <1>0, <2>1, RestTyped DEF Arg
  <2>4. [snap[h] EXCEPT !.rider = Arg(h)] \in Row
    BY <1>0, <2>1, <2>3, Arguments DEF HandlersTyped, Row
  <2>5. OrderTyped' /\ OthersTyped'
    BY <1>0, <1>3, <2>4, WriteTyped DEF SaveSnapshot, OrderTyped, OthersTyped, dispatchVars
  <2> QED BY <2>2, <2>5, TypePartsNext
<1>4. CASE Reserve(h)
  <2>1. plan[h] # <<>> /\ step[h] = "next"
    BY <1>4 DEF Reserve, Doing
  <2>2. Rest(h) \in Seq(Operation) /\ Rest(h) # <<>>
    BY <1>0, <1>4, <2>1, RestTyped, ReserveGoesOn DEF Reserve
  <2>3. CASE CatalogError /\ Throw(h) /\ UNCHANGED stock
    <3>1. HandlersTyped' /\ mail' \subseteq Message
      BY <1>0, <2>3, ThrowTyped DEF OthersTyped
    <3>2. OrderTyped' /\ OthersTyped'
      BY <1>0, <1>4, <2>3, <3>1 DEF Reserve, CatalogError, OrderTyped, OthersTyped, dispatchVars
    <3> QED BY <3>1, <3>2, TypePartsNext
  <2>4. CASE /\ stock' = Reserved
             /\ plan' = [plan EXCEPT ![h] = Rest(h)] /\ rescue' = [rescue EXCEPT ![h] = TRUE]
             /\ UNCHANGED <<step, snap, source, mail, happened>>
    <3>1. HandlersTyped'
      BY <1>0, <2>2, <2>4 DEF HandlersTyped
    <3>2. OrderTyped' /\ OthersTyped'
      BY <1>0, <1>4, <2>4 DEF Reserve, Reserved, OrderTyped, OthersTyped, dispatchVars
    <3> QED BY <3>1, <3>2, TypePartsNext
  <2> QED BY <1>4, <2>3, <2>4 DEF Reserve
<1>5. CASE ReleaseStock(h)
  <2>1. plan[h] # <<>> /\ Continue(h, Rest(h))
    BY <1>5 DEF ReleaseStock, Doing
  <2>2. HandlersTyped'
    BY <1>0, <2>1, RestTyped, ContinueTyped
  <2>3. OrderTyped' /\ OthersTyped'
    BY <1>0, <1>5 DEF ReleaseStock, Released, CatalogError, OrderTyped, OthersTyped, dispatchVars
  <2> QED BY <2>2, <2>3, TypePartsNext
<1>6. CASE MoveRead(h)
  <2>1. plan[h] # <<>>
    BY <1>6 DEF MoveRead, Doing
  <2>2. OrderTyped' /\ (mail' \subseteq Message => OthersTyped')
    BY <1>0, <1>6 DEF MoveRead, OrderTyped, OthersTyped, orderVars, dispatchVars
  <2>3. CASE Continue(h, Rest(h)) /\ UNCHANGED mail
    BY <1>0, <2>1, <2>2, <2>3, RestTyped, ContinueTyped, TypePartsNext DEF OthersTyped
  <2>4. CASE Throw(h)
    BY <1>0, <2>2, <2>4, ThrowTyped, TypePartsNext DEF OthersTyped
  <2>5. CASE /\ snap' = [snap EXCEPT ![h] = order]
             /\ step' = [step EXCEPT ![h] = IF Picks(h) \/ Aborts(h) THEN "stock" ELSE "save"]
             /\ UNCHANGED <<plan, source, rescue, mail>>
    <3>1. order \in Row
      BY <1>0 DEF OrderTyped
    <3>2. HandlersTyped'
      BY <1>0, <2>1, <2>5, <3>1 DEF HandlersTyped
    <3> QED BY <1>0, <2>2, <2>5, <3>2, TypePartsNext DEF OthersTyped
  <2> QED BY <1>6, <2>3, <2>4, <2>5 DEF MoveRead
<1>7. CASE MoveStock(h)
  <2>1. plan[h] # <<>> /\ step[h] = "stock"
    BY <1>0, <1>7 DEF MoveStock, HandlersTyped
  <2>2. CASE CatalogError /\ Throw(h) /\ stock' \in {stock, Moved(h)}
    <3>1. HandlersTyped' /\ mail' \subseteq Message
      BY <1>0, <2>2, ThrowTyped DEF OthersTyped
    <3>2. OrderTyped' /\ OthersTyped'
      BY <1>0, <1>7, <2>2, <3>1 DEF MoveStock, CatalogError, Moved, Released, Consumed, OrderTyped, OthersTyped, dispatchVars
    <3> QED BY <3>1, <3>2, TypePartsNext
  <2>3. CASE /\ stock' = Moved(h)
             /\ step'  = [step EXCEPT ![h] = "save"]
             /\ UNCHANGED <<plan, snap, source, rescue, mail, happened>>
    <3>1. HandlersTyped'
      BY <1>0, <2>1, <2>3 DEF HandlersTyped
    <3>2. OrderTyped' /\ OthersTyped'
      BY <1>0, <1>7, <2>3 DEF MoveStock, Moved, Released, Consumed, OrderTyped, OthersTyped, dispatchVars
    <3> QED BY <3>1, <3>2, TypePartsNext
  <2> QED BY <1>7, <2>2, <2>3 DEF MoveStock
<1>8. CASE MoveSave(h)
  <2>1. plan[h] # <<>> /\ Continue(h, Onward(h)) /\ Head(plan[h]).do = "move"
    BY <1>0, <1>8 DEF MoveSave, Onward, HandlersTyped
  <2>2. HandlersTyped'
    BY <1>0, <2>1, OnwardTyped, ContinueTyped
  <2>3. Head(plan[h]) \in Operation /\ Arg(h) = Head(plan[h]).arg
    BY <1>0, <2>1, RestTyped DEF Arg
  <2>4. [snap[h] EXCEPT !.status = Arg(h)] \in Row
    BY <1>0, <2>1, <2>3, Arguments DEF HandlersTyped, Row
  <2>5. OrderTyped' /\ OthersTyped'
    BY <1>0, <1>8, <2>4, WriteTyped DEF MoveSave, OrderTyped, OthersTyped, dispatchVars
  <2> QED BY <2>2, <2>5, TypePartsNext
<1>9. CASE DeliverSave(h)
  <2>1. plan[h] # <<>> /\ Continue(h, Rest(h))
    BY <1>0, <1>9 DEF DeliverSave, HandlersTyped
  <2>2. HandlersTyped'
    BY <1>0, <2>1, RestTyped, ContinueTyped
  <2>3. [snap[h] EXCEPT !.status = "DELIVERED"] \in Row
    BY <1>0 DEF HandlersTyped, Row, Machine!OrderStatus
  <2>4. announced' = Counted(Passed(snap[h].status))
    BY <1>9 DEF DeliverSave
  <2>5. order' \in Row /\ happened' \subseteq Fault \union {"overwrite", "backInQueue"}
    BY <1>0, <1>9, <2>3, WriteTyped DEF DeliverSave
  <2>6. OrderTyped'
    BY <1>0, <1>9, <2>4, <2>5, CountedTyped DEF DeliverSave, OrderTyped
  <2>7. OthersTyped'
    BY <1>0, <1>9, <2>5 DEF DeliverSave, OthersTyped, dispatchVars
  <2> QED BY <2>2, <2>6, <2>7, TypePartsNext
<1>10. CASE StepOut(h)
  <2>1. Hops(order.status) \in Seq(Operation)
    BY OpeningHops DEF Opens
  <2>2. HandlersTyped'
    BY <1>0, <1>10, <2>1, ContinueTyped DEF StepOut
  <2>3. OrderTyped' /\ OthersTyped'
    BY <1>0, <1>10 DEF StepOut, OrderTyped, OthersTyped, orderVars, dispatchVars
  <2> QED BY <2>2, <2>3, TypePartsNext
<1>11. CASE CancelActive(h)
  <2>1. \E ops \in Seq(Operation) : Continue(h, ops)
    BY <1>11, OpeningRequests, OpeningNone DEF CancelActive, Opens
  <2>2. HandlersTyped'
    BY <1>0, <2>1, ContinueTyped
  <2>3. OrderTyped' /\ OthersTyped'
    BY <1>0, <1>11 DEF CancelActive, OrderTyped, OthersTyped, orderVars, dispatchVars
  <2> QED BY <2>2, <2>3, TypePartsNext
<1> QED BY <1>1, <1>2, <1>3, <1>4, <1>5, <1>6, <1>7, <1>8, <1>9, <1>10, <1>11 DEF Run

LEMMA CrashTyped == ASSUME TypeOK, NEW h \in Handler, Crash(h) PROVE TypeOK'
<1>1. HandlersTyped'
  BY ContinueTyped, OpeningNone, TypeParts DEF Crash, Opens
<1>2. OrderTyped' /\ OthersTyped'
  BY DEF Crash, TypeOK, OrderTyped, OthersTyped, orderVars, dispatchVars
<1> QED BY <1>1, <1>2, TypePartsNext

-----------------------------------------------------------------------------
(* What a handler still has before it *)

\* the parts of PlansInv, of one handler
PlanOf(h) ==
  /\ Shaped(plan[h])
  /\ step[h] # "next" => Moves(h)
  /\ Due(h, reserve) => Len(plan[h]) > 2 /\ plan[h][3] = move("ACCEPTED")
  /\ rescue[h] => /\ plan[h] # <<>> /\ Head(plan[h]) \in Accepting
                  /\ Due(h, cancelJob("accept-timeout")) => plan[h][2] = move("ACCEPTED")

\* Steps of one handler leave the others' plans alone.
LEMMA PlanOfOther ==
  ASSUME NEW q \in Handler, PlanOf(q), plan'[q] = plan[q], step'[q] = step[q], snap'[q] = snap[q], rescue'[q] = rescue[q]
  PROVE  PlanOf(q)'
BY DEF PlanOf, Due, Moves

LEMMA PlansQuiet ==
  ASSUME PlansInv, UNCHANGED <<plan, step, snap, rescue>>
  PROVE  PlansInv'
BY PlanOfOther DEF PlansInv, PlanOf

\* A handler goes on: the rest of its plan has the known shape.
LEMMA PlansContinue ==
  ASSUME HandlersTyped, PlansInv, NEW h \in Handler, NEW ops \in Seq(Operation), Continue(h, ops),
         Shaped(ops), ops # <<>> => Head(ops) # reserve,
         rescue[h] /\ ops # <<>> => /\ Head(ops) \in Accepting
                                    /\ Head(ops) = cancelJob("accept-timeout") => ops[2] = move("ACCEPTED")
  PROVE  PlansInv'
<1>1. /\ plan'[h] = ops /\ step'[h] = "next" /\ (rescue'[h] => rescue[h] /\ ops # <<>>)
      /\ \A q \in Handler \ {h} : plan'[q] = plan[q] /\ step'[q] = step[q] /\ snap'[q] = snap[q] /\ rescue'[q] = rescue[q]
  BY DEF Continue, HandlersTyped
<1>2. PlanOf(h)'
  BY <1>1 DEF PlanOf, Due
<1>3. \A q \in Handler \ {h} : PlanOf(q)'
  BY <1>1, PlanOfOther DEF PlansInv, PlanOf
<1> QED BY <1>2, <1>3 DEF PlansInv, PlanOf

\* After its next operation a handler has the rest before it.
LEMMA RestGoesOn ==
  ASSUME HandlersTyped, PlansInv, NEW h \in Handler, plan[h] # <<>>, Head(plan[h]) # reserve
  PROVE  /\ Rest(h) \in Seq(Operation) /\ Shaped(Rest(h))
         /\ Rest(h) = <<>> => MayEnd(Head(plan[h]))
         /\ Rest(h) # <<>> => FollowedBy(Head(plan[h]), Head(Rest(h))) /\ Head(Rest(h)) \in Operation
         /\ Rest(h) # <<>> => Head(Rest(h)) = plan[h][2] /\ Head(Rest(h)) # reserve
<1>1. plan[h] \in Seq(Operation) /\ Shaped(plan[h])
  BY DEF HandlersTyped, PlansInv
<1>2. /\ Rest(h) \in Seq(Operation) /\ Shaped(Rest(h))
      /\ Rest(h) = <<>> => MayEnd(Head(plan[h]))
      /\ Rest(h) # <<>> => FollowedBy(Head(plan[h]), Head(Rest(h))) /\ Head(Rest(h)) \in Operation
                           /\ Head(Rest(h)) = plan[h][2]
  BY <1>1, RestShaped DEF Rest
<1>3. \A a, b : FollowedBy(a, b) => b # reserve
  BY DEF FollowedBy, move, publish, schedule, cancelJob, stepOut, reserve
<1> QED BY <1>2, <1>3

LEMMA AcceptGoesOn ==
  ASSUME HandlersTyped, PlansInv, NEW h \in Handler, plan[h] # <<>>, Head(plan[h]) # reserve, rescue[h], Rest(h) # <<>>
  PROVE  /\ Head(Rest(h)) \in Accepting /\ Head(Rest(h)) # cancelJob("accept-timeout")
         /\ Due(h, cancelJob("accept-timeout")) => Head(Rest(h)) = move("ACCEPTED")
<1>1. Head(plan[h]) \in Accepting
      /\ (Head(plan[h]) = cancelJob("accept-timeout") => plan[h][2] = move("ACCEPTED"))
  BY DEF PlansInv, Due
<1>2. \A a \in Accepting : \A b : FollowedBy(a, b) =>
        \/ a = cancelJob("accept-timeout")
        \/ b \in Accepting /\ b # cancelJob("accept-timeout")
  BY DEF Accepting, FollowedBy, move, publish, schedule, cancelJob, stepOut, release, reserve
<1>3. move("ACCEPTED") \in Accepting /\ move("ACCEPTED") # cancelJob("accept-timeout")
  BY DEF Accepting, move, cancelJob
<1>4. FollowedBy(Head(plan[h]), Head(Rest(h))) /\ Head(Rest(h)) = plan[h][2]
  BY RestGoesOn
<1> QED BY <1>1, <1>2, <1>3, <1>4 DEF Due

\* An operation put before a plan.
LEMMA Prepended ==
  ASSUME NEW p \in Seq(Operation), p # <<>>, Shaped(p), NEW a \in Operation, FollowedBy(a, Head(p))
  PROVE  /\ <<a>> \o p \in Seq(Operation) /\ Shaped(<<a>> \o p) /\ <<a>> \o p # <<>> /\ Head(<<a>> \o p) = a
         /\ Confirmless(p) /\ a # move("CONFIRMED") => Confirmless(<<a>> \o p)
<1> DEFINE q == <<a>> \o p
<1>1. <<a>> \in Seq(Operation) /\ Len(<<a>>) = 1 /\ Len(p) \in Nat /\ Len(p) >= 1
  BY EmptySeq, LenProperties
<1>2. q \in Seq(Operation) /\ Len(q) = 1 + Len(p)
      /\ \A i \in 1..(1 + Len(p)) : q[i] = IF i <= 1 THEN <<a>>[i] ELSE p[i - 1]
  BY <1>1, ConcatProperties
<1>3. q[1] = a /\ \A i \in 1..Len(p) : q[i + 1] = p[i]
  BY <1>1, <1>2
<1>4. Len(q) # 0 /\ Len(<<>>) = 0
  BY <1>1, <1>2
<1>5. q # <<>>
  BY <1>4, Zenon
<1> HIDE DEF q
<1>6. Head(q) = a
  BY <1>2, <1>3, <1>5
<1>7. Shaped(q)
  <2> SUFFICES ASSUME NEW i \in 1..Len(q)
               PROVE  /\ i = Len(q) => MayEnd(q[i])
                      /\ i # Len(q) => FollowedBy(q[i], q[i + 1])
    BY DEF Shaped
  <2>1. CASE i = 1
    <3>1. 1 # Len(q) /\ q[1 + 1] = p[1] /\ p[1] = Head(p)
      BY <1>1, <1>2, <1>3
    <3>2. FollowedBy(q[1], q[1 + 1])
      BY <1>3, <3>1
    <3> QED BY <2>1, <3>1, <3>2, Zenon
  <2>2. CASE i # 1
    <3> DEFINE k == i - 1
    <3>1. k \in 1..Len(p) /\ i = k + 1 /\ (i = Len(q) <=> k = Len(p))
      BY <1>1, <1>2, <2>2
    <3>2. (k = Len(p) => MayEnd(p[k])) /\ (k # Len(p) => FollowedBy(p[k], p[k + 1]))
      BY <3>1 DEF Shaped
    <3>3. q[k + 1] = p[k]
      BY <1>3, <3>1
    <3>4. k # Len(p) => k + 1 \in 1..Len(p)
      BY <1>1, <3>1
    <3>5. k # Len(p) => q[(k + 1) + 1] = p[k + 1]
      BY <1>3, <3>4
    <3> HIDE DEF k
    <3> QED BY <3>1, <3>2, <3>3, <3>5, Zenon
  <2> QED BY <2>1, <2>2
<1>8. Confirmless(p) /\ a # move("CONFIRMED") => Confirmless(q)
  <2> SUFFICES ASSUME Confirmless(p), a # move("CONFIRMED"), NEW i \in 1..Len(q) PROVE q[i] # move("CONFIRMED")
    BY DEF Confirmless
  <2>1. i = 1 \/ (i - 1 \in 1..Len(p) /\ i = (i - 1) + 1)
    BY <1>1, <1>2
  <2>2. q[i] = a \/ \E j \in 1..Len(p) : q[i] = p[j]
    BY <1>3, <2>1
  <2> QED BY <2>2 DEF Confirmless
<1> QED BY <1>2, <1>5, <1>6, <1>7, <1>8 DEF q

\* The operation a handler does next, as the constructor it was made with.
LEMMA NextKnown ==
  ASSUME HandlersTyped, PlansInv, NEW h \in Handler, plan[h] # <<>>
  PROVE  LET a == Head(plan[h]) IN
         /\ a \in Operation /\ Arg(h) = a.arg
         /\ a.do = "move" => a = move(a.arg) /\ a.arg \in Targets
         /\ a.do = "deliver" => a = deliver
         /\ a.do = "cancelJob" => a.arg \in {"accept-timeout", "auto-ready"} /\ a = cancelJob(a.arg)
         /\ a.do = "schedule" => a.arg \in {"accept-timeout", "auto-ready"} /\ a = schedule(a.arg)
         /\ a.do = "publish" => a = publish(a.arg) /\ a.arg \in Announcement \ {"DELIVERED"}
         /\ a.do = "save" => a.arg \in Rider \union {None} /\ a = save(a.arg)
         /\ a.do = "reserve" => a = reserve
         /\ a.do = "release" => a = release
         /\ a.do = "cancelActive" => a = cancelActive
         /\ a.do = "stepOut" => a = stepOut
<1>1. plan[h] \in Seq(Operation) /\ Shaped(plan[h])
  BY DEF HandlersTyped, PlansInv
<1>2. Head(plan[h]) \in Operation /\ \E b : MayEnd(Head(plan[h])) \/ FollowedBy(Head(plan[h]), b)
  BY <1>1, RestShaped
<1> QED BY <1>2, HeadKnown DEF Arg

\* A move goes on with what follows it, after the event it may publish.
LEMMA OnwardGoesOn ==
  ASSUME HandlersTyped, PlansInv, NEW h \in Handler, plan[h] # <<>>, Head(plan[h]).do = "move"
  PROVE  /\ Onward(h) \in Seq(Operation) /\ Shaped(Onward(h))
         /\ Arg(h) \in {"PICKED_UP", "OUT_FOR_DELIVERY"} =>
              Onward(h) # <<>> /\ Head(Onward(h)) = publish(Arg(h)) /\ Rest(h) # <<>>
         /\ Arg(h) \notin {"PICKED_UP", "OUT_FOR_DELIVERY"} => Onward(h) = Rest(h)
         /\ Confirmless(plan[h]) => Confirmless(Rest(h)) /\ Confirmless(Onward(h))
<1>0. Head(plan[h]) # reserve /\ Head(plan[h]) = move(Arg(h))
  BY NextKnown DEF reserve
<1>3. ASSUME Confirmless(plan[h]) PROVE Confirmless(Rest(h))
  BY <1>3, RestShaped DEF Confirmless, Rest, HandlersTyped, PlansInv
<1>1. CASE Arg(h) \notin {"PICKED_UP", "OUT_FOR_DELIVERY"}
  BY <1>0, <1>1, <1>3, OnwardTyped, RestGoesOn
<1>2. CASE Arg(h) \in {"PICKED_UP", "OUT_FOR_DELIVERY"}
  <2>1. /\ ~MayEnd(move(Arg(h)))
        /\ \A b : FollowedBy(move(Arg(h)), b) => FollowedBy(publish(Arg(h)), b)
    BY <1>2 DEF MayEnd, FollowedBy, move, publish, schedule, cancelJob, deliver, stepOut, cancelActive, release, reserve
  <2>2. /\ Rest(h) \in Seq(Operation) /\ Shaped(Rest(h)) /\ Rest(h) # <<>>
        /\ FollowedBy(publish(Arg(h)), Head(Rest(h)))
    BY <1>0, <2>1, RestGoesOn
  <2>3. publish(Arg(h)) \in Operation /\ Onward(h) = <<publish(Arg(h))>> \o Rest(h)
    BY <1>2, OnwardTyped
  <2>4. publish(Arg(h)) # move("CONFIRMED")
    BY DEF publish, move
  <2> QED BY <1>2, <1>3, <2>2, <2>3, <2>4, Prepended
<1> QED BY <1>1, <1>2

LEMMA PlansBegin ==
  ASSUME TypeOK, PlansInv, NEW h \in Handler, NEW ops, Begins(h, ops)
  PROVE  PlansInv'
<1>1. /\ plan'[h] = ops /\ step'[h] = "next" /\ rescue'[h] = FALSE
      /\ \A q \in Handler \ {h} : plan'[q] = plan[q] /\ step'[q] = step[q] /\ snap'[q] = snap[q] /\ rescue'[q] = rescue[q]
  <2>1. step[h] = "next" /\ rescue[h] = FALSE
    BY DEF Begins, TypeOK, PlansInv
  <2> QED BY <2>1 DEF Begins, TypeOK
<1>2. PlanOf(h)'
  BY <1>1 DEF PlanOf, Due, Begins, Opens
<1>3. \A q \in Handler \ {h} : PlanOf(q)'
  BY <1>1, PlanOfOther DEF PlansInv, PlanOf
<1> QED BY <1>2, <1>3 DEF PlansInv, PlanOf

LEMMA PlansRest ==
  ASSUME HandlersTyped, PlansInv, NEW h \in Handler, plan[h] # <<>>, Head(plan[h]) # reserve, Continue(h, Rest(h))
  PROVE  PlansInv'
<1>1. Rest(h) \in Seq(Operation) /\ Shaped(Rest(h)) /\ (Rest(h) # <<>> => Head(Rest(h)) # reserve)
  BY RestGoesOn
<1>2. ASSUME rescue[h], Rest(h) # <<>>
      PROVE  Head(Rest(h)) \in Accepting /\ Head(Rest(h)) # cancelJob("accept-timeout")
  BY <1>2, AcceptGoesOn
<1> HIDE DEF Rest
<1> QED BY <1>1, <1>2, PlansContinue

LEMMA PlansThrow ==
  ASSUME HandlersTyped, PlansInv, NEW h \in Handler, Throw(h)
  PROVE  PlansInv'
<1>1. Opens(<<>>) /\ <<>> \in Seq(Operation) /\ Shaped(<<>>)
  BY OpeningNone DEF Opens
<1>2. /\ <<release>> \in Seq(Operation) /\ Shaped(<<release>>) /\ Head(<<release>>) = release
      /\ release # reserve /\ release \in Accepting /\ release # cancelJob("accept-timeout")
  <2>1. MayEnd(release) /\ release \in Operation
    BY Endings, Operations
  <2>2. release # reserve /\ release \in Accepting /\ release # cancelJob("accept-timeout")
    BY DEF release, reserve, Accepting, cancelJob
  <2>3. Shaped(<<release>>)
    BY <2>1 DEF Shaped
  <2> QED BY <2>1, <2>2, <2>3
<1>3. CASE rescue[h]
  BY <1>2, <1>3, PlansContinue DEF Throw
<1>4. CASE ~rescue[h]
  BY <1>1, <1>4, PlansContinue DEF Throw
<1> QED BY <1>3, <1>4

LEMMA PlansRun ==
  ASSUME TypeOK, PlansInv, NEW h \in Handler, Run(h)
  PROVE  PlansInv'
<1>0. HandlersTyped /\ OrderTyped
  BY TypeParts
<1>1. CASE Publish(h) \/ ScheduleJob(h) \/ SaveSnapshot(h) \/ ReleaseStock(h)
  <2>1. plan[h] # <<>> /\ Head(plan[h]).do # "reserve" /\ Continue(h, Rest(h))
    BY <1>1 DEF Publish, ScheduleJob, SaveSnapshot, ReleaseStock, Doing
  <2>2. Head(plan[h]) # reserve
    BY <2>1 DEF reserve
  <2> QED BY <1>0, <2>1, <2>2, PlansRest
<1>2. CASE Reserve(h)
  <2>1. CASE Throw(h)
    BY <1>0, <2>1, PlansThrow
  <2>2. CASE /\ plan' = [plan EXCEPT ![h] = Rest(h)] /\ rescue' = [rescue EXCEPT ![h] = TRUE]
             /\ UNCHANGED <<step, snap, source, mail, happened>>
    <3>1. /\ Rest(h) # <<>> /\ Head(Rest(h)) = cancelJob("accept-timeout") /\ Rest(h)[2] = move("ACCEPTED")
          /\ step[h] = "next" /\ plan[h] # <<>>
      BY <1>0, <1>2, ReserveGoesOn DEF Reserve, Doing
    <3>2. Shaped(Rest(h))
      BY <1>0, <3>1, RestShaped DEF HandlersTyped, PlansInv, Rest
    <3>3. /\ plan'[h] = Rest(h) /\ step'[h] = "next"
          /\ \A q \in Handler \ {h} : plan'[q] = plan[q] /\ step'[q] = step[q] /\ snap'[q] = snap[q] /\ rescue'[q] = rescue[q]
      BY <1>0, <2>2, <3>1 DEF HandlersTyped
    <3>4. cancelJob("accept-timeout") \in Accepting /\ cancelJob("accept-timeout") # reserve
      BY DEF Accepting, cancelJob, reserve
    <3>5. PlanOf(h)'
      BY <3>1, <3>2, <3>3, <3>4 DEF PlanOf, Due
    <3>6. \A q \in Handler \ {h} : PlanOf(q)'
      BY <3>3, PlanOfOther DEF PlansInv, PlanOf
    <3> QED BY <3>5, <3>6 DEF PlansInv, PlanOf
  <2> QED BY <1>2, <2>1, <2>2 DEF Reserve
<1>3. CASE MoveRead(h)
  <2>1. plan[h] # <<>> /\ Head(plan[h]).do \in {"move", "deliver"} /\ Head(plan[h]) # reserve
    BY <1>3 DEF MoveRead, Doing, reserve
  <2>2. CASE Continue(h, Rest(h))
    BY <1>0, <2>1, <2>2, PlansRest
  <2>3. CASE Throw(h)
    BY <1>0, <2>3, PlansThrow
  <2>4. CASE /\ Allowed(h)
             /\ snap' = [snap EXCEPT ![h] = order]
             /\ step' = [step EXCEPT ![h] = IF Picks(h) \/ Aborts(h) THEN "stock" ELSE "save"]
             /\ UNCHANGED <<plan, source, rescue, mail>>
    <3>1. /\ snap'[h] = order
          /\ \A q \in Handler \ {h} : plan'[q] = plan[q] /\ step'[q] = step[q] /\ snap'[q] = snap[q] /\ rescue'[q] = rescue[q]
      BY <1>0, <2>4 DEF HandlersTyped
    <3>2. Moves(h)'
      BY <2>1, <2>4, <3>1 DEF Moves, Allowed, Arg
    <3>3. PlanOf(h)'
      BY <2>4, <3>2 DEF PlansInv, PlanOf, Due
    <3>4. \A q \in Handler \ {h} : PlanOf(q)'
      BY <3>1, PlanOfOther DEF PlansInv, PlanOf
    <3> QED BY <3>3, <3>4 DEF PlansInv, PlanOf
  <2> QED BY <1>3, <2>2, <2>3, <2>4 DEF MoveRead
<1>4. CASE MoveStock(h)
  <2>1. CASE Throw(h)
    BY <1>0, <2>1, PlansThrow
  <2>2. CASE step' = [step EXCEPT ![h] = "save"] /\ UNCHANGED <<plan, snap, source, rescue, mail, happened>>
    <3>1. Moves(h)
      BY <1>4 DEF MoveStock, PlansInv
    <3>2. \A q \in Handler \ {h} : step'[q] = step[q]
      BY <1>0, <2>2 DEF HandlersTyped
    <3>3. PlanOf(h)'
      BY <2>2, <3>1 DEF PlansInv, PlanOf, Due, Moves
    <3>4. \A q \in Handler \ {h} : PlanOf(q)'
      BY <2>2, <3>2, PlanOfOther DEF PlansInv, PlanOf
    <3> QED BY <3>3, <3>4 DEF PlansInv, PlanOf
  <2> QED BY <1>4, <2>1, <2>2 DEF MoveStock
<1>5. CASE MoveSave(h)
  <2>1. plan[h] # <<>> /\ Head(plan[h]).do = "move" /\ Continue(h, Onward(h))
    BY <1>0, <1>5 DEF MoveSave, Onward, HandlersTyped
  <2>2. Head(plan[h]) = move(Arg(h)) /\ Head(plan[h]) # reserve
    BY <1>0, <2>1, NextKnown DEF reserve
  <2>3. CASE Arg(h) \in {"PICKED_UP", "OUT_FOR_DELIVERY"}
    <3>1. ~rescue[h] /\ publish(Arg(h)) # reserve
      BY <2>2, <2>3 DEF PlansInv, Accepting, move, cancelJob, schedule, publish, release, reserve
    <3> QED BY <1>0, <2>1, <2>3, <3>1, OnwardGoesOn, PlansContinue
  <2>4. CASE Arg(h) \notin {"PICKED_UP", "OUT_FOR_DELIVERY"}
    BY <1>0, <2>1, <2>2, <2>4, OnwardGoesOn, PlansRest
  <2> QED BY <2>3, <2>4
<1>6. CASE DeliverSave(h)
  <2>1. plan[h] # <<>> /\ Head(plan[h]).do = "deliver" /\ Continue(h, Rest(h))
    BY <1>0, <1>6 DEF DeliverSave, HandlersTyped
  <2>2. Head(plan[h]) # reserve
    BY <2>1 DEF reserve
  <2> QED BY <1>0, <2>1, <2>2, PlansRest
<1>7. CASE StepOut(h) \/ CancelActive(h)
  <2>1. plan[h] # <<>> /\ Head(plan[h]).do \in {"stepOut", "cancelActive"}
    BY <1>7 DEF StepOut, CancelActive, Doing
  <2>2. ~rescue[h]
    BY <2>1 DEF PlansInv, Accepting, move, cancelJob, schedule, publish, release
  <2>3. \E ops : Opens(ops) /\ Continue(h, ops) /\ (ops # <<>> => Head(ops).do = "move")
    <3>1. CASE StepOut(h)
      <4>1. Hops(order.status) # <<>> => Head(Hops(order.status)).do = "move"
        BY DEF Hops, move
      <4> QED BY <3>1, <4>1, OpeningHops DEF StepOut
    <3>2. CASE CancelActive(h)
      BY <3>2, OpeningRequests, OpeningNone DEF CancelActive, move
    <3> QED BY <1>7, <3>1, <3>2
  <2>4. PICK ops : Opens(ops) /\ Continue(h, ops) /\ (ops # <<>> => Head(ops).do = "move")
    BY <2>3
  <2>5. ops # <<>> => Head(ops) # reserve
    BY <2>4 DEF reserve
  <2> QED BY <1>0, <2>2, <2>4, <2>5, PlansContinue DEF Opens
<1> QED BY <1>1, <1>2, <1>3, <1>4, <1>5, <1>6, <1>7 DEF Run

LEMMA PlansCrash == ASSUME TypeOK, PlansInv, NEW h \in Handler, Crash(h) PROVE PlansInv'
<1>1. <<>> \in Seq(Operation) /\ Shaped(<<>>)
  BY OpeningNone DEF Opens
<1> QED BY <1>1, PlansContinue, TypeParts DEF Crash

LEMMA Continued ==
  ASSUME HandlersTyped, NEW h \in Handler, NEW ops, Continue(h, ops)
  PROVE  /\ plan'[h] = ops /\ step'[h] = "next" /\ snap'[h] = NoRow
         /\ ops # <<>> => rescue'[h] = rescue[h]
         /\ ops = <<>> => rescue'[h] = FALSE
         /\ \A q \in Handler \ {h} : plan'[q] = plan[q] /\ step'[q] = step[q] /\ snap'[q] = snap[q] /\ rescue'[q] = rescue[q]
BY DEF Continue, HandlersTyped

LEMMA Thrown ==
  ASSUME HandlersTyped, NEW h \in Handler, Throw(h)
  PROVE  /\ plan'[h] \in {<<release>>, <<>>} /\ (rescue[h] => plan'[h] = <<release>> /\ rescue'[h])
         /\ step'[h] = "next" /\ snap'[h] = NoRow
         /\ \A q \in Handler \ {h} : plan'[q] = plan[q] /\ step'[q] = step[q] /\ snap'[q] = snap[q] /\ rescue'[q] = rescue[q]
<1>1. CASE rescue[h]
  <2>1. Continue(h, <<release>>) /\ <<release>> # <<>>
    BY <1>1 DEF Throw
  <2> QED BY <1>1, <2>1, Continued
<1>2. CASE ~rescue[h]
  BY <1>2, Continued DEF Throw
<1> QED BY <1>1, <1>2

-----------------------------------------------------------------------------
(* Nothing is past its payment without one *)

\* What a handler's step has to keep.
PaidOf(h) == snap[h].status \in Unpaid /\ Confirmless(plan[h])

LEMMA PaidKept ==
  ASSUME PaidInv, NEW h \in Handler, prepaid' = prepaid, paid' = paid,
         prepaid /\ ~paid => order'.status \in Unpaid /\ PaidOf(h)',
         \A q \in Handler \ {h} : plan'[q] = plan[q] /\ snap'[q] = snap[q]
  PROVE  PaidInv'
BY DEF PaidInv, PaidOf, Confirmless

LEMMA PaidBegin ==
  ASSUME TypeOK, PaidInv, NEW h \in Handler, NEW ops, Begins(h, ops)
  PROVE  PaidInv'
<1>1. /\ plan'[h] = ops /\ snap'[h] \in {order, NoRow} /\ prepaid' = prepaid /\ paid' = paid /\ order' = order
      /\ \A q \in Handler \ {h} : plan'[q] = plan[q] /\ snap'[q] = snap[q]
  BY DEF Begins, TypeOK
<1>2. prepaid /\ ~paid => order'.status \in Unpaid /\ PaidOf(h)'
  BY <1>1 DEF PaidInv, PaidOf, Begins, Opens, NoRow, Unpaid
<1> QED BY <1>1, <1>2, PaidKept

LEMMA PaidContinue ==
  ASSUME HandlersTyped, PaidInv, NEW h \in Handler, NEW ops, Continue(h, ops), prepaid' = prepaid, paid' = paid,
         prepaid /\ ~paid => Confirmless(ops) /\ order'.status \in Unpaid
  PROVE  PaidInv'
<1>1. ASSUME Confirmless(ops) PROVE PaidOf(h)'
  <2>1. plan'[h] = ops /\ snap'[h] = NoRow
    BY Continued
  <2>2. NoRow.status \in Unpaid
    BY DEF NoRow, Unpaid
  <2> QED BY <1>1, <2>1, <2>2 DEF PaidOf
<1> QED BY <1>1, Continued, PaidKept

LEMMA PaidThrow ==
  ASSUME HandlersTyped, PaidInv, NEW h \in Handler, Throw(h), prepaid' = prepaid, paid' = paid, order' = order
  PROVE  PaidInv'
<1>1. Confirmless(<<release>>) /\ Confirmless(<<>>)
  BY DEF Confirmless, release, move
<1>2. \E ops \in {<<release>>, <<>>} : Continue(h, ops)
  BY DEF Throw
<1> QED BY <1>1, <1>2, PaidContinue DEF PaidInv

LEMMA PaidRun ==
  ASSUME TypeOK, PlansInv, PaidInv, NEW h \in Handler, Run(h)
  PROVE  PaidInv'
<1>0. HandlersTyped /\ OrderTyped
  BY TypeParts
<1>a. ASSUME plan[h] # <<>>, Confirmless(plan[h]) PROVE Confirmless(Rest(h))
  BY <1>0, <1>a, RestShaped DEF Confirmless, Rest, HandlersTyped, PlansInv
<1>b. plan[h] # <<>>
  BY <1>0 DEF Run, Publish, ScheduleJob, SaveSnapshot, Reserve, ReleaseStock, MoveRead, MoveStock, MoveSave, DeliverSave,
              StepOut, CancelActive, Doing, HandlersTyped
<1>1. CASE Publish(h) \/ ScheduleJob(h) \/ ReleaseStock(h)
  <2>1. Continue(h, Rest(h)) /\ prepaid' = prepaid /\ paid' = paid /\ order' = order
    BY <1>1 DEF Publish, ScheduleJob, ReleaseStock
  <2> QED BY <1>0, <1>a, <1>b, <2>1, PaidContinue DEF PaidInv
<1>2. CASE SaveSnapshot(h)
  <2>1. Continue(h, Rest(h)) /\ prepaid' = prepaid /\ paid' = paid /\ order' = [snap[h] EXCEPT !.rider = Arg(h)]
    BY <1>2 DEF SaveSnapshot, Write
  <2>2. order'.status = snap[h].status
    BY <1>0, <2>1 DEF HandlersTyped, Row
  <2> QED BY <1>0, <1>a, <1>b, <2>1, <2>2, PaidContinue DEF PaidInv
<1>3. CASE Reserve(h)
  <2>1. prepaid' = prepaid /\ paid' = paid /\ order' = order
    BY <1>3 DEF Reserve
  <2>2. CASE Throw(h)
    BY <1>0, <2>1, <2>2, PaidThrow
  <2>3. CASE plan' = [plan EXCEPT ![h] = Rest(h)] /\ UNCHANGED <<step, snap, source, mail, happened>>
    <3>1. plan'[h] = Rest(h) /\ snap' = snap /\ \A q \in Handler \ {h} : plan'[q] = plan[q]
      BY <1>0, <2>3 DEF HandlersTyped
    <3>2. prepaid /\ ~paid => order'.status \in Unpaid /\ PaidOf(h)'
      BY <1>a, <1>b, <2>1, <3>1 DEF PaidInv, PaidOf
    <3> QED BY <2>1, <3>1, <3>2, PaidKept
  <2> QED BY <1>3, <2>2, <2>3 DEF Reserve
<1>4. CASE MoveRead(h)
  <2>1. prepaid' = prepaid /\ paid' = paid /\ order' = order
    BY <1>4 DEF MoveRead, orderVars
  <2>2. CASE Continue(h, Rest(h))
    BY <1>0, <1>a, <1>b, <2>1, <2>2, PaidContinue DEF PaidInv
  <2>3. CASE Throw(h)
    BY <1>0, <2>1, <2>3, PaidThrow
  <2>4. CASE snap' = [snap EXCEPT ![h] = order] /\ UNCHANGED <<plan, source, rescue, mail>>
    <3>1. snap'[h] = order /\ \A q \in Handler \ {h} : snap'[q] = snap[q]
      BY <1>0, <2>4 DEF HandlersTyped
    <3>2. prepaid /\ ~paid => order'.status \in Unpaid /\ PaidOf(h)'
      BY <2>1, <2>4, <3>1 DEF PaidInv, PaidOf
    <3> QED BY <2>1, <2>4, <3>1, <3>2, PaidKept
  <2> QED BY <1>4, <2>2, <2>3, <2>4 DEF MoveRead
<1>5. CASE MoveStock(h)
  <2>1. prepaid' = prepaid /\ paid' = paid /\ order' = order
    BY <1>5 DEF MoveStock
  <2>2. CASE Throw(h)
    BY <1>0, <2>1, <2>2, PaidThrow
  <2>3. CASE UNCHANGED <<plan, snap, source, rescue, mail, happened>>
    BY <2>1, <2>3 DEF PaidInv
  <2> QED BY <1>5, <2>2, <2>3 DEF MoveStock
<1>6. CASE MoveSave(h)
  <2>1. /\ Continue(h, Onward(h)) /\ Head(plan[h]).do = "move" /\ step[h] = "save"
        /\ prepaid' = prepaid /\ paid' = paid /\ order' = [snap[h] EXCEPT !.status = Arg(h)]
    BY <1>6 DEF MoveSave, Onward, Write
  <2>2. order'.status = Arg(h)
    BY <1>0, <2>1 DEF HandlersTyped, Row
  <2>3. Head(plan[h]) = move(Arg(h)) /\ Arg(h) \in Targets /\ Head(plan[h]).arg = Arg(h)
    BY <1>0, <1>b, <2>1, NextKnown
  <2>4. Machine!canTransition(snap[h].status, Arg(h)) /\ snap[h].status \in Machine!OrderStatus
    BY <1>0, <2>1, <2>3 DEF PlansInv, Moves, HandlersTyped, Row
  <2>5. ASSUME prepaid /\ ~paid PROVE Confirmless(Onward(h)) /\ order'.status \in Unpaid
    <3>1. Confirmless(plan[h]) /\ snap[h].status \in Unpaid
      BY <2>5 DEF PaidInv
    <3>2. Confirmless(Onward(h))
      BY <1>0, <1>b, <2>1, <3>1, OnwardGoesOn
    <3>3. Head(plan[h]) = plan[h][1] /\ 1 \in 1..Len(plan[h])
      BY <1>0, <1>b, EmptySeq DEF HandlersTyped
    <3>4. Arg(h) # "CONFIRMED"
      BY <2>3, <3>1, <3>3 DEF Confirmless
    <3>5. Arg(h) = "CANCELLED"
      BY <2>3, <2>4, <3>1, <3>4, TableFacts DEF Unpaid, Targets
    <3> QED BY <2>2, <3>2, <3>5 DEF Unpaid
  <2> QED BY <1>0, <2>1, <2>5, PaidContinue
<1>7. CASE DeliverSave(h)
  <2>1. /\ Continue(h, Rest(h)) /\ Head(plan[h]).do = "deliver" /\ step[h] = "save"
        /\ prepaid' = prepaid /\ paid' = paid
    BY <1>7 DEF DeliverSave
  <2>2. snap[h].status \in Machine!OnTheWay
    BY <2>1 DEF PlansInv, Moves
  <2>3. ~(prepaid /\ ~paid)
    BY <2>2 DEF PaidInv, Unpaid, Machine!OnTheWay
  <2> QED BY <1>0, <2>1, <2>3, PaidContinue
<1>8. CASE StepOut(h)
  <2>1. Continue(h, Hops(order.status)) /\ prepaid' = prepaid /\ paid' = paid /\ order' = order
    BY <1>8 DEF StepOut, orderVars
  <2> QED BY <1>0, <2>1, OpeningHops, PaidContinue DEF PaidInv, Opens
<1>9. CASE CancelActive(h)
  <2>1. prepaid' = prepaid /\ paid' = paid /\ order' = order
    BY <1>9 DEF CancelActive, orderVars
  <2>2. \E ops : Opens(ops) /\ Continue(h, ops)
    BY <1>9, OpeningRequests, OpeningNone DEF CancelActive
  <2> QED BY <1>0, <2>1, <2>2, PaidContinue DEF PaidInv, Opens
<1> QED BY <1>1, <1>2, <1>3, <1>4, <1>5, <1>6, <1>7, <1>8, <1>9 DEF Run

LEMMA PaidCrash == ASSUME TypeOK, PaidInv, NEW h \in Handler, Crash(h) PROVE PaidInv'
<1>1. Confirmless(<<>>)
  BY DEF Confirmless
<1> QED BY <1>1, PaidContinue, TypeParts DEF Crash, orderVars, PaidInv

LEMMA PaidQuiet == ASSUME PaidInv, ChargeSucceeds \/ Dispatch PROVE PaidInv'
<1>1. UNCHANGED <<order, prepaid, plan, snap>> /\ (paid' = paid \/ paid')
  BY DEF ChargeSucceeds, Dispatch, Offer, ReleaseByRider, ReleaseAborted, ReleaseForOrder, ConfirmPickup, ArriveAtVendor,
         OnDelivered, AcceptOffer, Reports, orderVars, handlerVars
<1> QED BY <1>1 DEF PaidInv

-----------------------------------------------------------------------------
(* The status moves along the table, unless a stale row is saved *)

\* What a handler does to the row, when it does not save a stale one.
LEMMA RowMoves ==
  ASSUME TypeOK, PlansInv, NEW h \in Handler, Run(h), ~Overwritten'
  PROVE  /\ ~Overwritten
         /\ \/ order'.status = order.status /\ ~MoveSave(h) /\ ~DeliverSave(h)
            \/ /\ MoveSave(h) /\ order = snap[h] /\ Machine!canTransition(order.status, Arg(h))
               /\ Head(plan[h]) = move(Arg(h)) /\ Arg(h) \in Targets /\ order'.status = Arg(h)
               /\ plan[h] # <<>> /\ Continue(h, Onward(h))
            \/ /\ DeliverSave(h) /\ order = snap[h] /\ order.status \in Machine!OnTheWay
               /\ Head(plan[h]) = deliver /\ order'.status = "DELIVERED" /\ plan[h] # <<>> /\ Continue(h, Rest(h))
<1>0. HandlersTyped /\ OrderTyped
  BY TypeParts
<1>1. CASE Publish(h) \/ ScheduleJob(h) \/ Reserve(h) \/ ReleaseStock(h) \/ MoveRead(h) \/ MoveStock(h)
           \/ StepOut(h) \/ CancelActive(h)
  <2>1. order' = order /\ happened \subseteq happened'
    BY <1>1 DEF Publish, ScheduleJob, Reserve, ReleaseStock, MoveRead, MoveStock, StepOut, CancelActive, orderVars, CatalogError
  <2>2. ~MoveSave(h) /\ ~DeliverSave(h)
    <3>1. MoveSave(h) \/ DeliverSave(h) => /\ step[h] = "save" /\ Head(plan[h]).do \in {"move", "deliver"}
                                          /\ happened' = happened \union
                                               (IF order = snap[h] THEN {} ELSE {"overwrite"})
                                               \union (IF snap[h].status = "OUT_FOR_DELIVERY" /\ order'.status = "READY_FOR_PICKUP"
                                                         THEN {"backInQueue"} ELSE {})
      BY DEF MoveSave, DeliverSave, Write
    <3>2. step[h] # "save"
      BY <1>1 DEF Publish, ScheduleJob, Reserve, ReleaseStock, MoveRead, MoveStock, StepOut, CancelActive, Doing
    <3> QED BY <3>1, <3>2
  <2> QED BY <2>1, <2>2 DEF Overwritten
<1>2. CASE SaveSnapshot(h)
  <2>1. step[h] = "next" /\ Write(h, [snap[h] EXCEPT !.rider = Arg(h)])
    BY <1>2 DEF SaveSnapshot, Doing
  <2>2. order = snap[h] /\ ~Overwritten /\ order' = [order EXCEPT !.rider = Arg(h)]
    BY <2>1 DEF Write, Overwritten
  <2>3. order'.status = order.status
    BY <1>0, <2>2 DEF OrderTyped, Row
  <2>4. ~MoveSave(h) /\ ~DeliverSave(h)
    BY <2>1 DEF MoveSave, DeliverSave
  <2> QED BY <2>2, <2>3, <2>4
<1>3. CASE MoveSave(h)
  <2>1. /\ step[h] = "save" /\ Head(plan[h]).do = "move" /\ Write(h, [snap[h] EXCEPT !.status = Arg(h)])
        /\ Continue(h, Onward(h)) /\ plan[h] # <<>>
    BY <1>0, <1>3 DEF MoveSave, Onward, HandlersTyped
  <2>2. order = snap[h] /\ ~Overwritten /\ order' = [order EXCEPT !.status = Arg(h)]
    BY <2>1 DEF Write, Overwritten
  <2>3. order'.status = Arg(h)
    BY <1>0, <2>2 DEF OrderTyped, Row
  <2>4. Head(plan[h]) = move(Arg(h)) /\ Arg(h) \in Targets /\ Arg(h) = Head(plan[h]).arg
    BY <1>0, <2>1, NextKnown
  <2>5. Machine!canTransition(order.status, Arg(h))
    BY <2>1, <2>2, <2>4 DEF PlansInv, Moves
  <2> QED BY <1>3, <2>1, <2>2, <2>3, <2>4, <2>5
<1>4. CASE DeliverSave(h)
  <2>1. /\ step[h] = "save" /\ Head(plan[h]).do = "deliver" /\ Write(h, [snap[h] EXCEPT !.status = "DELIVERED"])
        /\ Continue(h, Rest(h)) /\ plan[h] # <<>>
    BY <1>0, <1>4 DEF DeliverSave, HandlersTyped
  <2>2. order = snap[h] /\ ~Overwritten /\ order' = [order EXCEPT !.status = "DELIVERED"]
    BY <2>1 DEF Write, Overwritten
  <2>3. order'.status = "DELIVERED"
    BY <1>0, <2>2 DEF OrderTyped, Row
  <2>4. Head(plan[h]) = deliver
    BY <1>0, <2>1, NextKnown
  <2>5. order.status \in Machine!OnTheWay
    BY <2>1, <2>2 DEF PlansInv, Moves
  <2> QED BY <1>4, <2>1, <2>2, <2>3, <2>4, <2>5
<1> QED BY <1>1, <1>2, <1>3, <1>4 DEF Run

\* The other handlers, and the rest of the system, leave the row alone.
LEMMA RowKept ==
  ASSUME TypeOK
  PROVE  /\ \A h \in Handler : Start(h) => order' = order /\ happened' = happened
         /\ \A h \in Handler : Crash(h) => order' = order /\ happened \subseteq happened' /\ "crash" \in happened'
                                            /\ Continue(h, <<>>) /\ stock' = stock /\ jobs' = jobs /\ announced' = announced
         /\ ChargeSucceeds \/ Dispatch => UNCHANGED <<orderVars, handlerVars, happened>>
<1>1. \A h \in Handler : Start(h) => order' = order /\ happened' = happened
  BY Started DEF Begins
<1>2. ASSUME NEW h \in Handler, Crash(h)
      PROVE  order' = order /\ happened \subseteq happened' /\ "crash" \in happened' /\ Continue(h, <<>>)
             /\ stock' = stock /\ jobs' = jobs /\ announced' = announced
  BY <1>2 DEF Crash, orderVars
<1>3. ChargeSucceeds \/ Dispatch => UNCHANGED <<orderVars, handlerVars, happened>>
  BY DEF ChargeSucceeds, Dispatch, Offer, ReleaseByRider, ReleaseAborted, ReleaseForOrder, ConfirmPickup, ArriveAtVendor,
         OnDelivered, AcceptOffer, Reports
<1> QED BY <1>1, <1>2, <1>3

\* A step of the order is a step of its state machine.
LEMMA LegalStep ==
  ASSUME TypeOK, PlansInv, [Next]_vars
  PROVE  order.status' = order.status \/ Machine!Next \/ Overwritten'
<1>1. ASSUME NEW h \in Handler, Run(h), ~Overwritten'
      PROVE  order.status' = order.status \/ Machine!Next
  <2>1. CASE order'.status = order.status
    BY <2>1
  <2>2. CASE Machine!canTransition(order.status, Arg(h)) /\ order'.status = Arg(h)
    <3>1. Machine!Move
      BY <2>2 DEF Machine!Move, Machine!canTransition
    <3> QED BY <3>1 DEF Machine!Next
  <2>3. CASE order.status \in Machine!OnTheWay /\ order'.status = "DELIVERED"
    BY <2>3 DEF Machine!Next, Machine!Deliver
  <2> QED BY <1>1, <2>1, <2>2, <2>3, RowMoves
<1>2. CASE UNCHANGED vars
  BY <1>2 DEF vars
<1>3. ASSUME NEW h \in Handler, Start(h) \/ Crash(h) PROVE order.status' = order.status
  BY <1>3, RowKept
<1>4. CASE ChargeSucceeds \/ Dispatch
  BY <1>4, RowKept DEF orderVars
<1> QED BY <1>1, <1>2, <1>3, <1>4 DEF Next

-----------------------------------------------------------------------------
(* A row in a handler's hands is not ahead of the row as it is *)

\* A handler's step is its own, and nothing that happened is undone.
LEMMA StepIsOwn ==
  ASSUME TypeOK, NEW h \in Handler, Run(h)
  PROVE  /\ plan[h] # <<>> /\ happened \subseteq happened'
         /\ \A q \in Handler \ {h} : plan'[q] = plan[q] /\ step'[q] = step[q] /\ snap'[q] = snap[q] /\ rescue'[q] = rescue[q]
         /\ \/ step'[h] = "next"
            \/ snap'[h] = order /\ order' = order
            \/ step[h] = "stock" /\ snap'[h] = snap[h] /\ order' = order
<1>0. HandlersTyped
  BY TypeParts
<1>1. plan[h] # <<>>
  BY <1>0 DEF Run, Publish, ScheduleJob, SaveSnapshot, Reserve, ReleaseStock, MoveRead, MoveStock, MoveSave, DeliverSave,
              StepOut, CancelActive, Doing, HandlersTyped
<1>2. happened \subseteq happened'
  BY DEF Run, Publish, ScheduleJob, SaveSnapshot, Reserve, ReleaseStock, MoveRead, MoveStock, MoveSave, DeliverSave,
         StepOut, CancelActive, CatalogError, Write
<1>3. CASE \E ops : Continue(h, ops)
  BY <1>0, <1>1, <1>2, <1>3, Continued
<1>4. CASE Throw(h)
  BY <1>0, <1>1, <1>2, <1>4, Thrown
<1>5. CASE Reserve(h) /\ plan' = [plan EXCEPT ![h] = Rest(h)] /\ rescue' = [rescue EXCEPT ![h] = TRUE]
           /\ UNCHANGED <<step, snap, source, mail, happened>>
  <2>1. step[h] = "next"
    BY <1>5 DEF Reserve, Doing
  <2> QED BY <1>0, <1>1, <1>2, <1>5, <2>1 DEF HandlersTyped
<1>6. CASE MoveRead(h) /\ snap' = [snap EXCEPT ![h] = order]
           /\ step' = [step EXCEPT ![h] = IF Picks(h) \/ Aborts(h) THEN "stock" ELSE "save"]
           /\ UNCHANGED <<plan, source, rescue, mail>>
  <2>1. order' = order
    BY <1>6 DEF MoveRead, orderVars
  <2> QED BY <1>0, <1>1, <1>2, <1>6, <2>1 DEF HandlersTyped
<1>7. CASE MoveStock(h) /\ step' = [step EXCEPT ![h] = "save"] /\ UNCHANGED <<plan, snap, source, rescue, mail, happened>>
  BY <1>0, <1>1, <1>2, <1>7 DEF MoveStock, HandlersTyped
<1>8. \/ \E ops : Continue(h, ops)
      \/ Reserve(h) \/ MoveRead(h) \/ MoveStock(h)
  BY DEF Run, Publish, ScheduleJob, SaveSnapshot, ReleaseStock, MoveSave, DeliverSave, StepOut, CancelActive
<1> QED BY <1>3, <1>4, <1>5, <1>6, <1>7, <1>8 DEF Reserve, MoveRead, MoveStock

LEMMA RankOfStatus == \A s : Rank(s) \in 0..4
BY DEF Rank

\* The order's rank only grows.
LEMMA RankGrows ==
  ASSUME TypeOK, PlansInv, NEW h \in Handler, Run(h), ~Overwritten'
  PROVE  /\ ~Overwritten /\ Rank(order.status) <= Rank(order'.status)
         /\ \/ order'.status = order.status
            \/ Rank(order.status) < Rank(order'.status)
            \/ Rank(order.status) = 4 /\ Rank(order'.status) = 4
<1>0. order.status \in Machine!OrderStatus
  BY DEF TypeOK, Row
<1>1. CASE order'.status = order.status
  BY <1>1, RowMoves, RankOfStatus
<1>2. CASE Machine!canTransition(order.status, Arg(h)) /\ Arg(h) \in Targets /\ order'.status = Arg(h)
  BY <1>0, <1>2, RowMoves, TableFacts, RankOfStatus DEF Targets
<1>3. CASE order.status \in Machine!OnTheWay /\ order'.status = "DELIVERED"
  BY <1>3, RowMoves DEF Rank, Machine!OnTheWay
<1> QED BY <1>1, <1>2, <1>3, RowMoves

LEMMA RankRun ==
  ASSUME TypeOK, PlansInv, RankInv, NEW h \in Handler, Run(h)
  PROVE  RankInv'
<1> SUFFICES ASSUME ~Overwritten', NEW q \in Handler, step'[q] # "next"
             PROVE  Rank(snap'[q].status) <= Rank(order'.status)
  BY DEF RankInv
<1>1. ~Overwritten /\ Rank(order.status) <= Rank(order'.status)
  BY RankGrows
<1>2. CASE q # h
  <2>1. step[q] # "next" /\ snap'[q] = snap[q]
    BY <1>2, StepIsOwn
  <2>2. Rank(snap[q].status) <= Rank(order.status)
    BY <1>1, <2>1 DEF RankInv
  <2> QED BY <1>1, <2>1, <2>2, RankOfStatus
<1>3. CASE q = h
  <2>1. CASE snap'[h] = order /\ order' = order
    BY <1>3, <2>1, RankOfStatus
  <2>2. CASE step[h] = "stock" /\ snap'[h] = snap[h] /\ order' = order
    BY <1>1, <1>3, <2>2 DEF RankInv
  <2> QED BY <1>3, <2>1, <2>2, StepIsOwn
<1> QED BY <1>2, <1>3

LEMMA RankBegin ==
  ASSUME TypeOK, RankInv, NEW h \in Handler, NEW ops, Begins(h, ops)
  PROVE  RankInv'
<1>1. step[h] = "next" /\ step' = step /\ order' = order /\ happened' = happened
      /\ \A q \in Handler \ {h} : snap'[q] = snap[q]
  BY DEF Begins, TypeOK
<1> QED BY <1>1 DEF RankInv, Overwritten

LEMMA RankCrash == ASSUME TypeOK, RankInv, NEW h \in Handler, Crash(h) PROVE RankInv'
<1>1. order' = order /\ happened \subseteq happened' /\ step'[h] = "next"
      /\ \A q \in Handler \ {h} : step'[q] = step[q] /\ snap'[q] = snap[q]
  BY RowKept, Continued, TypeParts
<1> QED BY <1>1 DEF RankInv, Overwritten

-----------------------------------------------------------------------------
(* The wait is timed *)

\* What a handler has before it, after what it does.
LEMMA WhatFollows ==
  /\ ~MayEnd(cancelJob("accept-timeout")) /\ ~MayEnd(move("CONFIRMED")) /\ ~MayEnd(move("CANCELLED")) /\ ~MayEnd(move("REJECTED"))
  /\ ~MayEnd(move("ACCEPTED")) /\ ~MayEnd(move("PREPARING"))
  /\ \A b : /\ FollowedBy(cancelJob("accept-timeout"), b) => b \in {move("ACCEPTED"), move("REJECTED"), move("READY_FOR_PICKUP")}
            /\ FollowedBy(move("CONFIRMED"), b) => b = schedule("accept-timeout")
            /\ FollowedBy(move("CANCELLED"), b) => b = publish("CANCELLED")
            /\ FollowedBy(move("REJECTED"), b) => b = publish("REJECTED")
            /\ FollowedBy(move("ACCEPTED"), b) => b = move("PREPARING")
BY DEF MayEnd, FollowedBy, move, publish, schedule, cancelJob, deliver, stepOut, cancelActive, release, reserve

Waits(s) == IF s = "PENDING_PAYMENT" THEN {cancelActive, move("CANCELLED")}
  ELSE {cancelActive, schedule("accept-timeout"), move("CANCELLED"), move("ACCEPTED"), move("REJECTED"), move("READY_FOR_PICKUP")}

TimeoutOf(s) == IF s = "PENDING_PAYMENT" THEN "payment-timeout" ELSE "accept-timeout"

\* TimedInv, for both statuses at once
Timed == \A s \in {"PENDING_PAYMENT", "CONFIRMED"} : order.status = s =>
  TimeoutOf(s) \in jobs \/ \E q \in Handler : plan[q] # <<>> /\ Head(plan[q]) \in Waits(s)

LEMMA TimedIs == TimedInv <=> (happened = {} => Timed)
<1>1. Timed <=>
    /\ order.status = "PENDING_PAYMENT" =>
         "payment-timeout" \in jobs \/ \E h \in Handler : Due(h, cancelActive) \/ Due(h, move("CANCELLED"))
    /\ order.status = "CONFIRMED" =>
         \/ "accept-timeout" \in jobs
         \/ \E h \in Handler : \/ Due(h, cancelActive) \/ Due(h, schedule("accept-timeout"))
                               \/ \E s \in {"CANCELLED", "ACCEPTED", "REJECTED", "READY_FOR_PICKUP"} : Due(h, move(s))
  BY DEF Timed, Waits, TimeoutOf, Due
<1> QED BY <1>1 DEF TimedInv

LEMMA TimedIsNext == TimedInv' <=> (happened' = {} => Timed')
<1>1. Timed' <=>
    /\ order'.status = "PENDING_PAYMENT" =>
         "payment-timeout" \in jobs' \/ \E h \in Handler : Due(h, cancelActive)' \/ Due(h, move("CANCELLED"))'
    /\ order'.status = "CONFIRMED" =>
         \/ "accept-timeout" \in jobs'
         \/ \E h \in Handler : \/ Due(h, cancelActive)' \/ Due(h, schedule("accept-timeout"))'
                               \/ \E s \in {"CANCELLED", "ACCEPTED", "REJECTED", "READY_FOR_PICKUP"} : Due(h, move(s))'
  BY DEF Timed, Waits, TimeoutOf, Due
<1> QED BY <1>1 DEF TimedInv

\* A handler that is about to end the wait does so, or is still about to.
LEMMA WaiterGoesOn ==
  ASSUME TypeOK, PlansInv, NEW h \in Handler, Run(h), happened' = {}, NEW s \in {"PENDING_PAYMENT", "CONFIRMED"},
         order.status = s, order'.status = s, plan[h] # <<>>, Head(plan[h]) \in Waits(s)
  PROVE  TimeoutOf(s) \in jobs' \/ (plan'[h] # <<>> /\ Head(plan'[h]) \in Waits(s))
<1>0. HandlersTyped
  BY TypeParts
<1>1. CASE Head(plan[h]) = cancelActive
  <2>1. CancelActive(h)
    BY <1>1, <1>0 DEF Run, Publish, ScheduleJob, SaveSnapshot, Reserve, ReleaseStock, MoveRead, MoveStock, MoveSave, DeliverSave,
         StepOut, Doing, cancelActive, PlansInv, Moves
  <2>2. order.status \in ActiveStatus
    BY DEF ActiveStatus, Machine!OrderStatus
  <2>3. plan'[h] = <<move("CANCELLED"), publish("CANCELLED")>>
    BY <1>0, <2>1, <2>2, Continued DEF CancelActive
  <2> QED BY <2>3 DEF Waits
<1>2. CASE Head(plan[h]) = schedule("accept-timeout") /\ s = "CONFIRMED"
  <2>1. ScheduleJob(h)
    BY <1>2, <1>0 DEF Run, Publish, CancelActive, SaveSnapshot, Reserve, ReleaseStock, MoveRead, MoveStock, MoveSave, DeliverSave,
         StepOut, Doing, schedule, PlansInv, Moves
  <2>2. "accept-timeout" \in jobs'
    BY <1>2, <2>1 DEF ScheduleJob, Doing, Arg, schedule
  <2> QED BY <1>2, <2>2 DEF TimeoutOf
<1>3. ASSUME NEW t, Head(plan[h]) = move(t), Machine!canTransition(s, t)
      PROVE  plan'[h] = plan[h]
  <2>1. Head(plan[h]).do = "move" /\ Arg(h) = t
    BY <1>3 DEF move, Arg
  <2>2. t # s /\ s \in Machine!OrderStatus
    BY <1>3, TableFacts DEF Machine!OrderStatus
  <2>3. "overwrite" \notin happened' /\ ~CatalogError
    BY DEF CatalogError
  <2>4. ~MoveSave(h) /\ ~DeliverSave(h)
    <3>1. ~Overwritten'
      BY <2>3 DEF Overwritten
    <3>2. DeliverSave(h) => Head(plan[h]).do = "deliver"
      BY DEF DeliverSave
    <3>3. MoveSave(h) => order' = [snap[h] EXCEPT !.status = t]
      BY <2>1 DEF MoveSave, Write
    <3>4. MoveSave(h) => order'.status = t
      BY <1>0, <3>3 DEF HandlersTyped, Row
    <3> QED BY <2>1, <2>2, <3>2, <3>4
  <2>5. MoveRead(h) \/ MoveStock(h)
    BY <1>0, <2>1, <2>4 DEF Run, Publish, ScheduleJob, CancelActive, SaveSnapshot, Reserve, ReleaseStock, StepOut, Doing
  <2>6. CASE MoveRead(h)
    <3>1. Allowed(h) /\ order.status # Arg(h)
      BY <1>3, <2>1, <2>2 DEF Allowed
    <3> QED BY <2>6, <3>1 DEF MoveRead
  <2>7. CASE MoveStock(h)
    BY <2>3, <2>7 DEF MoveStock
  <2> QED BY <2>5, <2>6, <2>7
<1>4. CASE \E t : Head(plan[h]) = move(t) /\ Machine!canTransition(s, t)
  BY <1>3, <1>4
<1>5. \/ Head(plan[h]) = cancelActive
      \/ Head(plan[h]) = schedule("accept-timeout") /\ s = "CONFIRMED"
      \/ \E t : Head(plan[h]) = move(t) /\ Machine!canTransition(s, t)
  BY TableAllows DEF Waits
<1> QED BY <1>1, <1>2, <1>4, <1>5

LEMMA TimedRun ==
  ASSUME TypeOK, PlansInv, TimedInv, NEW h \in Handler, Run(h)
  PROVE  TimedInv'
<1> SUFFICES ASSUME happened' = {}, NEW s \in {"PENDING_PAYMENT", "CONFIRMED"}, order'.status = s
             PROVE  TimeoutOf(s) \in jobs' \/ \E q \in Handler : plan'[q] # <<>> /\ Head(plan'[q]) \in Waits(s)
  BY TimedIsNext DEF Timed
<1>0. HandlersTyped /\ happened = {} /\ ~Overwritten' /\ plan[h] # <<>>
  BY TypeParts, StepIsOwn DEF Overwritten
<1>1. CASE order.status = s /\ TimeoutOf(s) \in jobs
  <2>1. CASE TimeoutOf(s) \in jobs'
    BY <2>1
  <2>2. CASE TimeoutOf(s) \notin jobs'
    <3>1. ScheduleJob(h) /\ Doing(h, "cancelJob") /\ Arg(h) = TimeoutOf(s) /\ Continue(h, Rest(h))
      BY <1>1, <2>2 DEF Run, Publish, ScheduleJob, CancelActive, SaveSnapshot, Reserve, ReleaseStock, MoveRead, MoveStock,
         MoveSave, DeliverSave, StepOut, orderVars
    <3>2. Head(plan[h]) = cancelJob(Arg(h)) /\ Arg(h) \in {"accept-timeout", "auto-ready"}
      BY <1>0, <3>1, NextKnown DEF Doing
    <3>3. s = "CONFIRMED" /\ Head(plan[h]) = cancelJob("accept-timeout")
      BY <3>1, <3>2 DEF TimeoutOf
    <3>4. Head(plan[h]) # reserve
      BY <3>3 DEF cancelJob, reserve
    <3>5. Rest(h) # <<>> /\ Head(Rest(h)) \in {move("ACCEPTED"), move("REJECTED"), move("READY_FOR_PICKUP")}
      BY <1>0, <3>3, <3>4, RestGoesOn, WhatFollows
    <3>6. plan'[h] = Rest(h)
      BY <1>0, <3>1, Continued
    <3> QED BY <3>3, <3>5, <3>6 DEF Waits
  <2> QED BY <2>1, <2>2
<1>2. CASE order.status = s /\ \E q \in Handler : plan[q] # <<>> /\ Head(plan[q]) \in Waits(s)
  <2>1. PICK q \in Handler : plan[q] # <<>> /\ Head(plan[q]) \in Waits(s)
    BY <1>2
  <2>2. CASE q = h
    BY <1>2, <2>1, <2>2, WaiterGoesOn
  <2>3. CASE q # h
    BY <2>1, <2>3, StepIsOwn
  <2> QED BY <2>2, <2>3
<1>3. CASE order.status # s
  <2>1. Arg(h) = s /\ Arg(h) \in Targets /\ Head(plan[h]) = move(Arg(h)) /\ Continue(h, Onward(h))
    BY <1>0, <1>3, RowMoves
  <2>2. s = "CONFIRMED" /\ Head(plan[h]) = move("CONFIRMED") /\ Head(plan[h]) # reserve /\ Head(plan[h]).do = "move"
    BY <2>1 DEF Targets, move, reserve
  <2>3. Onward(h) = Rest(h)
    BY <1>0, <2>1, <2>2, OnwardGoesOn
  <2>4. Rest(h) # <<>> /\ Head(Rest(h)) = schedule("accept-timeout")
    BY <1>0, <2>2, RestGoesOn, WhatFollows
  <2>5. plan'[h] = Rest(h)
    BY <1>0, <2>1, <2>3, Continued
  <2> QED BY <2>2, <2>4, <2>5 DEF Waits
<1> QED BY <1>0, <1>1, <1>2, <1>3, TimedIs DEF Timed

LEMMA TimedBegin ==
  ASSUME TypeOK, TimedInv, NEW h \in Handler, NEW ops, Begins(h, ops)
  PROVE  TimedInv'
<1> SUFFICES ASSUME happened' = {}, NEW s \in {"PENDING_PAYMENT", "CONFIRMED"}, order'.status = s
             PROVE  TimeoutOf(s) \in jobs' \/ \E q \in Handler : plan'[q] # <<>> /\ Head(plan'[q]) \in Waits(s)
  BY TimedIsNext DEF Timed
<1>1. /\ order' = order /\ happened = {} /\ plan'[h] = ops /\ plan[h] = <<>>
      /\ \A q \in Handler \ {h} : plan'[q] = plan[q]
  BY DEF Begins, TypeOK
<1>2. CASE TimeoutOf(s) \in jobs \ jobs'
  <2>1. ops # <<>> /\ Head(ops) = cancelActive
    BY <1>1, <1>2 DEF Begins, TimeoutOf
  <2> QED BY <1>1, <2>1 DEF Waits
<1>3. TimeoutOf(s) \in jobs \/ \E q \in Handler : plan[q] # <<>> /\ Head(plan[q]) \in Waits(s)
  BY <1>1, TimedIs DEF Timed
<1> QED BY <1>1, <1>2, <1>3

-----------------------------------------------------------------------------
(* An order that has ended is announced *)

LEMMA Announces ==
  ASSUME TypeOK, NEW h \in Handler, Run(h)
  PROVE  \A e \in Announcement :
           /\ announced[e] \in Nat /\ announced'[e] \in {announced[e], announced[e] + 1}
           /\ announced'[e] # announced[e] =>
                \/ Publish(h) /\ Arg(h) = e
                \/ DeliverSave(h) /\ e \in Passed(snap[h].status)
<1>0. OrderTyped
  BY TypeParts
<1>1. \A e \in Announcement : announced[e] \in Nat
  BY <1>0 DEF OrderTyped, Cap
<1>2. CASE Publish(h)
  BY <1>0, <1>1, <1>2, CountedTyped DEF Publish
<1>3. CASE DeliverSave(h)
  BY <1>0, <1>1, <1>3, CountedTyped DEF DeliverSave
<1>4. CASE ~Publish(h) /\ ~DeliverSave(h)
  <2>1. announced' = announced
    BY <1>4 DEF Run, ScheduleJob, CancelActive, SaveSnapshot, Reserve, ReleaseStock, MoveRead, MoveStock, MoveSave, StepOut, orderVars
  <2> QED BY <1>1, <2>1
<1> QED BY <1>2, <1>3, <1>4

\* A handler whose next operation publishes an event does that.
LEMMA Publishes ==
  ASSUME TypeOK, PlansInv, NEW h \in Handler, Run(h), NEW e \in Announcement, Due(h, publish(e))
  PROVE  /\ Publish(h) /\ Arg(h) = e /\ announced'[e] > 0 /\ Continue(h, Rest(h))
<1>1. Head(plan[h]).do = "publish" /\ Arg(h) = e /\ plan[h] # <<>>
  BY DEF Due, publish, Arg
<1>2. Publish(h)
  BY <1>1 DEF Run, ScheduleJob, CancelActive, SaveSnapshot, Reserve, ReleaseStock, MoveRead, MoveStock, MoveSave, DeliverSave,
         StepOut, Doing, PlansInv, Moves
<1>3. announced'[e] > 0
  BY <1>1, <1>2, CountedTyped, TypeParts DEF Publish
<1> QED BY <1>1, <1>2, <1>3 DEF Publish

LEMMA EndedRun ==
  ASSUME TypeOK, PlansInv, EndedInv, NEW h \in Handler, Run(h)
  PROVE  EndedInv'
<1> SUFFICES ASSUME happened' = {}, NEW s \in {"CANCELLED", "REJECTED"}, order'.status = s
             PROVE  announced'[s] > 0 \/ \E q \in Handler : Due(q, publish(s))'
  BY DEF EndedInv
<1>0. HandlersTyped /\ happened = {} /\ ~Overwritten' /\ plan[h] # <<>> /\ s \in Announcement
  BY TypeParts, StepIsOwn DEF Overwritten, Announcement
<1>1. CASE order.status = s /\ announced[s] > 0
  BY <1>0, <1>1, Announces
<1>2. CASE order.status = s /\ \E q \in Handler : Due(q, publish(s))
  <2>1. PICK q \in Handler : Due(q, publish(s))
    BY <1>2
  <2>2. CASE q = h
    BY <1>0, <2>1, <2>2, Publishes
  <2>3. CASE q # h
    BY <2>1, <2>3, StepIsOwn DEF Due
  <2> QED BY <2>2, <2>3
<1>3. CASE order.status # s
  <2>1. Arg(h) = s /\ Head(plan[h]) = move(s) /\ Continue(h, Onward(h))
    BY <1>0, <1>3, RowMoves
  <2>2. Head(plan[h]) # reserve /\ Head(plan[h]).do = "move"
    BY <2>1 DEF move, reserve
  <2>3. Onward(h) = Rest(h)
    BY <1>0, <2>1, <2>2, OnwardGoesOn
  <2>4. Rest(h) # <<>> /\ Head(Rest(h)) = publish(s)
    BY <1>0, <2>1, <2>2, RestGoesOn, WhatFollows
  <2>5. plan'[h] = Rest(h)
    BY <1>0, <2>1, <2>3, Continued
  <2> QED BY <2>4, <2>5 DEF Due
<1> QED BY <1>0, <1>1, <1>2, <1>3 DEF EndedInv

LEMMA EndedBegin ==
  ASSUME TypeOK, EndedInv, NEW h \in Handler, NEW ops, Begins(h, ops)
  PROVE  EndedInv'
<1>1. /\ order' = order /\ happened' = happened /\ announced' = announced /\ plan[h] = <<>>
      /\ \A q \in Handler \ {h} : plan'[q] = plan[q]
  BY DEF Begins, TypeOK
<1>2. \A q \in Handler : \A op : Due(q, op) => Due(q, op)'
  BY <1>1 DEF Due
<1> QED BY <1>1, <1>2 DEF EndedInv

-----------------------------------------------------------------------------
(* The stock of an order that has ended goes back *)

LEMMA Operations2 ==
  /\ release # cancelJob("accept-timeout") /\ release # move("ACCEPTED") /\ release # move("PREPARING")
  /\ cancelJob("accept-timeout") # reserve /\ move("ACCEPTED") # reserve /\ move("PREPARING") # reserve
  /\ move("ACCEPTED").do = "move" /\ move("ACCEPTED").arg = "ACCEPTED"
  /\ move("PREPARING").do = "move" /\ move("PREPARING").arg = "PREPARING"
  /\ release.do = "release" /\ cancelJob("accept-timeout").do = "cancelJob"
BY DEF release, cancelJob, move, reserve

\* The stock is not reserved after the catalog was asked for anything else.
LEMMA StockReturned ==
  ASSUME NEW h \in Handler, happened' = {}, ReleaseStock(h) \/ MoveStock(h)
  PROVE  stock' # "reserved"
BY DEF ReleaseStock, MoveStock, Moved, Released, Consumed, CatalogError

\* An accept that makes a move, or cannot.
LEMMA AcceptMoves ==
  ASSUME TypeOK, PlansInv, NEW h \in Handler, Run(h), happened' = {}, stock' = "reserved", rescue[h],
         NEW t \in {"ACCEPTED", "PREPARING"}, Due(h, move(t))
  PROVE  \/ Due(h, release)'
         \/ rescue'[h] /\ Due(h, move(t))' /\ order' = order
         \/ rescue'[h] /\ t = "ACCEPTED" /\ Due(h, move("PREPARING"))' /\ order'.status = "ACCEPTED"
         \/ t = "PREPARING" /\ order'.status = "PREPARING"
<1>0. HandlersTyped /\ ~Overwritten' /\ plan[h] # <<>> /\ Head(plan[h]).do = "move" /\ Arg(h) = t /\ Head(plan[h]) # reserve
  BY TypeParts, Operations2 DEF Overwritten, Due, Arg
<1>1. ~MoveStock(h)
  BY StockReturned
<1>2. MoveRead(h) \/ MoveSave(h)
  BY <1>0, <1>1 DEF Run, Publish, ScheduleJob, CancelActive, SaveSnapshot, Reserve, ReleaseStock, StepOut, DeliverSave, Doing
<1>3. t = "ACCEPTED" => Rest(h) # <<>> /\ Head(Rest(h)) = move("PREPARING")
  BY <1>0, RestGoesOn, WhatFollows DEF Due
<1>4. CASE MoveRead(h)
  <2>1. order' = order
    BY <1>4 DEF MoveRead, orderVars
  <2>2. CASE order.status = t /\ Continue(h, Rest(h))
    BY <1>0, <1>3, <2>1, <2>2, Continued DEF Due
  <2>3. CASE Throw(h)
    <3>1. plan'[h] = <<release>>
      BY <1>0, <2>3, Thrown
    <3> QED BY <3>1 DEF Due
  <2>4. CASE UNCHANGED <<plan, source, rescue, mail>>
    BY <2>1, <2>4 DEF Due
  <2> QED BY <1>0, <1>4, <2>2, <2>3, <2>4 DEF MoveRead
<1>5. CASE MoveSave(h)
  <2>1. order'.status = t /\ Continue(h, Onward(h))
    <3>1. Write(h, [snap[h] EXCEPT !.status = t])
      BY <1>0, <1>5 DEF MoveSave
    <3>2. order'.status = t
      BY <1>0, <3>1 DEF Write, HandlersTyped, Row
    <3> QED BY <1>5, <3>2 DEF MoveSave, Onward
  <2>2. Onward(h) = Rest(h)
    BY <1>0, OnwardGoesOn
  <2> QED BY <1>0, <1>3, <2>1, <2>2, Continued DEF Due
<1> QED BY <1>2, <1>4, <1>5

LEMMA ReturnerGoesOn ==
  ASSUME TypeOK, PlansInv, NEW h \in Handler, Run(h), happened' = {}, stock' = "reserved", Returns(h),
         order'.status = order.status \/ order'.status # "PREPARING"
  PROVE  Returns(h)'
<1>0. HandlersTyped
  BY TypeParts
<1>1. CASE Due(h, release)
  <2>1. ReleaseStock(h)
    BY <1>0, <1>1, Operations2 DEF Run, Publish, ScheduleJob, CancelActive, SaveSnapshot, Reserve, MoveRead, MoveStock, StepOut,
       MoveSave, DeliverSave, Doing, Due, PlansInv, Moves
  <2> QED BY <2>1, StockReturned
<1>2. CASE rescue[h] /\ Due(h, cancelJob("accept-timeout"))
  <2>1. ScheduleJob(h)
    BY <1>0, <1>2, Operations2 DEF Run, Publish, CancelActive, SaveSnapshot, Reserve, ReleaseStock, MoveRead, MoveStock, StepOut,
       MoveSave, DeliverSave, Doing, Due, PlansInv, Moves
  <2>2. Continue(h, Rest(h)) /\ plan[h] # <<>> /\ Head(plan[h]) # reserve
    BY <1>2, <2>1, Operations2 DEF ScheduleJob, Due
  <2>3. Rest(h) # <<>>
    BY <1>0, <1>2, <2>2, RestGoesOn, WhatFollows DEF Due
  <2>4. Head(Rest(h)) = move("ACCEPTED")
    BY <1>0, <1>2, <2>2, <2>3, AcceptGoesOn
  <2>5. rescue'[h] /\ Due(h, move("ACCEPTED"))'
    BY <1>0, <1>2, <2>2, <2>3, <2>4, Continued DEF Due
  <2> QED BY <2>5 DEF Returns
<1>3. CASE rescue[h] /\ Due(h, move("ACCEPTED"))
  <2>1. \/ Due(h, release)'
        \/ rescue'[h] /\ Due(h, move("ACCEPTED"))'
        \/ rescue'[h] /\ Due(h, move("PREPARING"))' /\ order'.status = "ACCEPTED"
    BY <1>3, AcceptMoves
  <2> QED BY <2>1 DEF Returns
<1>4. CASE rescue[h] /\ Due(h, move("PREPARING")) /\ order.status # "PREPARING"
  <2>1. \/ Due(h, release)'
        \/ rescue'[h] /\ Due(h, move("PREPARING"))' /\ order' = order
        \/ order'.status = "PREPARING"
    BY <1>4, AcceptMoves
  <2> QED BY <1>4, <2>1 DEF Returns
<1> QED BY <1>1, <1>2, <1>3, <1>4 DEF Returns

LEMMA StockRun ==
  ASSUME TypeOK, PlansInv, RankInv, StockInv, NEW h \in Handler, Run(h)
  PROVE  StockInv'
<1> SUFFICES ASSUME happened' = {}, stock' = "reserved"
             PROVE  /\ order'.status \in {"CANCELLED", "REJECTED"} => \E q \in Handler : Returns(q)'
                    /\ \A p \in Handler : Ending(p)' /\ Rank(snap'[p].status) = Rank(order'.status)
                         => \E q \in Handler : Returns(q)'
  BY DEF StockInv
<1>0. HandlersTyped /\ happened = {} /\ ~Overwritten' /\ ~Overwritten /\ plan[h] # <<>>
  BY TypeParts, StepIsOwn DEF Overwritten
<1>1. CASE stock # "reserved"
  <2>1. Reserve(h)
    BY <1>1, StockReturned DEF Run, Publish, CancelActive, ScheduleJob, SaveSnapshot, MoveRead, StepOut,
       MoveSave, DeliverSave, orderVars
  <2>2. Rest(h) # <<>> /\ Head(Rest(h)) = cancelJob("accept-timeout")
    BY <1>0, <2>1, ReserveGoesOn DEF Reserve
  <2>3. plan'[h] = Rest(h) /\ rescue'[h] = TRUE
    BY <1>0, <2>1 DEF Reserve, CatalogError, HandlersTyped
  <2>4. Returns(h)'
    BY <2>2, <2>3 DEF Returns, Due
  <2> QED BY <2>4
<1>2. ASSUME stock = "reserved", NEW q \in Handler, Returns(q), order'.status = order.status \/ order'.status # "PREPARING"
      PROVE  Returns(q)'
  <2>1. CASE q = h
    BY <1>2, <2>1, ReturnerGoesOn
  <2>2. CASE q # h
    <3>1. plan'[q] = plan[q] /\ rescue'[q] = rescue[q]
      BY <2>2, StepIsOwn
    <3> QED BY <1>2, <3>1 DEF Returns, Due
  <2> QED BY <2>1, <2>2
<1>3. ASSUME stock = "reserved", order'.status \in {"CANCELLED", "REJECTED"}
      PROVE  \E q \in Handler : Returns(q)'
  <2>1. CASE order'.status = order.status
    BY <1>0, <1>2, <1>3, <2>1 DEF StockInv
  <2>2. CASE order'.status # order.status
    <3>1. MoveSave(h) /\ order = snap[h] /\ Head(plan[h]) = move(Arg(h)) /\ order'.status = Arg(h)
      BY <1>0, <1>3, <2>2, RowMoves
    <3>2. Ending(h)
      BY <1>0, <1>3, <3>1 DEF Ending, Due, MoveSave
    <3>3. \E q \in Handler : Returns(q)
      BY <1>0, <1>3, <3>1, <3>2 DEF StockInv
    <3> QED BY <1>2, <1>3, <3>3
  <2> QED BY <2>1, <2>2
<1>4. ASSUME stock = "reserved", NEW p \in Handler, Ending(p)', Rank(snap'[p].status) = Rank(order'.status)
      PROVE  \E q \in Handler : Returns(q)'
  <2>1. p # h
    <3> SUFFICES ASSUME p = h PROVE FALSE
      OBVIOUS
    <3>1. step'[h] = "save" /\ plan'[h] # <<>> /\ Head(plan'[h]) \in {move("CANCELLED"), move("REJECTED")}
      BY <1>4 DEF Ending, Due
    <3>2. ~MoveStock(h)
      BY StockReturned
    <3>3. ASSUME NEW ops PROVE ~Continue(h, ops)
      BY <1>0, <3>1, Continued
    <3>4. ~Throw(h)
      BY <1>0, <3>1, Thrown
    <3>5. MoveRead(h) \/ Reserve(h)
      BY <3>2, <3>3 DEF Run, Publish, ScheduleJob, SaveSnapshot, ReleaseStock, MoveSave, DeliverSave, StepOut, CancelActive
    <3>6. CASE Reserve(h)
      <4>1. step' = step /\ step[h] = "next"
        BY <3>4, <3>6 DEF Reserve, Doing
      <4> QED BY <3>1, <4>1
    <3>7. CASE MoveRead(h)
      <4>1. /\ step' = [step EXCEPT ![h] = IF Picks(h) \/ Aborts(h) THEN "stock" ELSE "save"] /\ plan' = plan
        BY <3>3, <3>4, <3>7 DEF MoveRead
      <4>2. ~Aborts(h)
        BY <1>0, <3>1, <4>1 DEF HandlersTyped
      <4>3. Arg(h) \in {"CANCELLED", "REJECTED"}
        BY <3>1, <4>1 DEF Arg, move
      <4> QED BY <4>2, <4>3 DEF Aborts
    <3> QED BY <3>5, <3>6, <3>7
  <2>2. plan'[p] = plan[p] /\ step'[p] = step[p] /\ snap'[p] = snap[p]
    BY <2>1, StepIsOwn
  <2>3. Ending(p) /\ step[p] # "next"
    BY <1>4, <2>2 DEF Ending, Due
  <2>4. Rank(snap[p].status) <= Rank(order.status)
    BY <1>0, <2>3 DEF RankInv
  <2>5. /\ Rank(order.status) <= Rank(order'.status)
        /\ \/ order'.status = order.status
           \/ Rank(order.status) < Rank(order'.status)
           \/ Rank(order'.status) = 4
    BY <1>0, RankGrows
  <2>6. Rank(snap[p].status) = Rank(order.status) /\ (order'.status = order.status \/ Rank(order'.status) = 4)
    BY <1>4, <2>2, <2>4, <2>5, RankOfStatus
  <2>7. Rank("PREPARING") = 3
    BY DEF Rank
  <2>8. order'.status = order.status \/ order'.status # "PREPARING"
    BY <2>6, <2>7
  <2>9. PICK q \in Handler : Returns(q)
    BY <1>0, <1>4, <2>3, <2>6 DEF StockInv
  <2> QED BY <1>2, <1>4, <2>8, <2>9
<1> QED BY <1>1, <1>3, <1>4

LEMMA StockBegin ==
  ASSUME TypeOK, StockInv, NEW h \in Handler, NEW ops, Begins(h, ops)
  PROVE  StockInv'
<1>1. /\ order' = order /\ happened' = happened /\ stock' = stock /\ plan[h] = <<>> /\ step[h] = "next"
      /\ step' = step /\ rescue' = rescue /\ \A q \in Handler \ {h} : plan'[q] = plan[q] /\ snap'[q] = snap[q]
  BY DEF Begins, TypeOK
<1>2. \A q \in Handler : Returns(q) => Returns(q)'
  BY <1>1 DEF Returns, Due
<1>3. \A p \in Handler : Ending(p)' => Ending(p) /\ snap'[p] = snap[p]
  BY <1>1 DEF Ending, Due
<1> QED BY <1>1, <1>2, <1>3 DEF StockInv

-----------------------------------------------------------------------------
(* What pays for the order is announced once, and never for a cancelled one *)

Clean == ~Overwritten /\ ~BackInQueue

\* Past an event's status the order stays past it, and a cancelled order stays cancelled.
LEMMA BeyondKept ==
  ASSUME TypeOK, PlansInv, NEW h \in Handler, Run(h), Clean'
  PROVE  /\ Clean
         /\ \A e \in Lifecycle : order.status \in Beyond[e] => order'.status \in Beyond[e]
         /\ order.status = "CANCELLED" => order'.status = "CANCELLED"
<1>0. Clean /\ ~Overwritten' /\ order.status \in Machine!OrderStatus /\ HandlersTyped
  BY StepIsOwn, TypeParts DEF Clean, Overwritten, BackInQueue, TypeOK, Row
<1>1. CASE order'.status = order.status
  BY <1>0, <1>1
<1>2. CASE /\ MoveSave(h) /\ order = snap[h] /\ Machine!canTransition(order.status, Arg(h))
           /\ Arg(h) \in Targets /\ order'.status = Arg(h)
  <2>1. ~(order.status = "OUT_FOR_DELIVERY" /\ Arg(h) = "READY_FOR_PICKUP")
    <3>1. Write(h, [snap[h] EXCEPT !.status = Arg(h)]) /\ [snap[h] EXCEPT !.status = Arg(h)].status = Arg(h)
      BY <1>0, <1>2 DEF MoveSave, HandlersTyped, Row
    <3>2. order.status = "OUT_FOR_DELIVERY" /\ Arg(h) = "READY_FOR_PICKUP" => "backInQueue" \in happened'
      BY <1>2, <3>1 DEF Write
    <3> QED BY <3>2 DEF Clean, BackInQueue
  <2>2. order.status \notin {"CANCELLED", "DELIVERED"}
    BY <1>0, <1>2, TableFacts
  <2>3. order.status = "PICKED_UP" => Arg(h) = "OUT_FOR_DELIVERY"
    BY <1>0, <1>2, TableFacts DEF Targets
  <2>4. order.status # "OUT_FOR_DELIVERY"
    BY <1>0, <1>2, <2>1, TableFacts DEF Targets
  <2> QED BY <1>0, <1>2, <2>2, <2>3, <2>4 DEF Beyond, Lifecycle
<1>3. CASE order.status \in Machine!OnTheWay /\ order'.status = "DELIVERED"
  BY <1>0, <1>3 DEF Beyond, Lifecycle, Machine!OnTheWay
<1> QED BY <1>0, <1>1, <1>2, <1>3, RowMoves

\* An event is about to be published only after the move it belongs to.
LEMMA PublishedAfter ==
  ASSUME TypeOK, PlansInv, NEW h \in Handler, Run(h), ~Overwritten', NEW e \in Lifecycle \union {"CANCELLED"},
         Due(h, publish(e))'
  PROVE  /\ e \in Lifecycle => MoveSave(h) /\ Arg(h) = e /\ e \in {"PICKED_UP", "OUT_FOR_DELIVERY"}
         /\ e = "CANCELLED" => order'.status = "CANCELLED"
<1>0. HandlersTyped /\ plan[h] # <<>> /\ plan'[h] # <<>> /\ Head(plan'[h]) = publish(e) /\ publish(e).do = "publish" /\ publish(e).arg = e
  BY TypeParts, StepIsOwn DEF Due, publish
<1>1. \A a : FollowedBy(a, publish(e)) => e = "CANCELLED" /\ a = move("CANCELLED")
  BY DEF FollowedBy, Lifecycle, move, publish, schedule, cancelJob, stepOut
<1>2. ASSUME plan'[h] = Rest(h), Head(plan[h]) # reserve
      PROVE  e = "CANCELLED" /\ Head(plan[h]) = move("CANCELLED")
  BY <1>0, <1>1, <1>2, RestGoesOn
<1>3. "CANCELLED" \notin Lifecycle /\ move("CANCELLED").do = "move" /\ move("CANCELLED").arg = "CANCELLED"
      /\ reserve.do = "reserve"
  BY DEF Lifecycle, move, reserve
<1>4. CASE Publish(h) \/ ScheduleJob(h) \/ SaveSnapshot(h) \/ ReleaseStock(h) \/ DeliverSave(h)
  <2>1. Continue(h, Rest(h)) /\ Head(plan[h]).do \notin {"move", "reserve"}
    BY <1>4 DEF Publish, ScheduleJob, SaveSnapshot, ReleaseStock, DeliverSave, Doing
  <2>2. plan'[h] = Rest(h)
    BY <1>0, <2>1, Continued
  <2> QED BY <1>2, <1>3, <2>1, <2>2
<1>5. ASSUME Throw(h) PROVE FALSE
  <2>1. plan'[h] = <<release>>
    BY <1>0, <1>5, Thrown
  <2> QED BY <1>0, <2>1, Operations2
<1>6. CASE Reserve(h)
  <2>1. plan' = [plan EXCEPT ![h] = Rest(h)] /\ Head(Rest(h)) = cancelJob("accept-timeout")
    BY <1>0, <1>5, <1>6, ReserveGoesOn DEF Reserve
  <2> QED BY <1>0, <2>1, Operations2 DEF HandlersTyped
<1>7. CASE MoveRead(h)
  <2>1. order' = order /\ Head(plan[h]).do \in {"move", "deliver"}
    BY <1>7 DEF MoveRead, orderVars, Doing
  <2>2. CASE order.status = Arg(h) /\ Continue(h, Rest(h))
    <3>1. plan'[h] = Rest(h)
      BY <1>0, <2>2, Continued
    <3>2. e = "CANCELLED" /\ Head(plan[h]) = move("CANCELLED")
      BY <1>2, <1>3, <2>1, <3>1
    <3> QED BY <1>3, <2>1, <2>2, <3>2 DEF Arg
  <2>3. CASE UNCHANGED <<plan, source, rescue, mail>>
    BY <1>0, <2>1, <2>3
  <2> QED BY <1>5, <1>7, <2>2, <2>3 DEF MoveRead
<1>8. CASE MoveStock(h)
  <2>1. plan' = plan /\ step[h] = "stock"
    BY <1>5, <1>8 DEF MoveStock
  <2> QED BY <1>0, <2>1 DEF PlansInv, Moves
<1>9. CASE MoveSave(h)
  <2>1. Continue(h, Onward(h)) /\ Head(plan[h]).do = "move"
    BY <1>9 DEF MoveSave, Onward
  <2>2. plan'[h] = Onward(h) /\ order'.status = Arg(h)
    <3>1. Write(h, [snap[h] EXCEPT !.status = Arg(h)])
      BY <1>9 DEF MoveSave
    <3>2. order'.status = Arg(h)
      BY <1>0, <3>1 DEF Write, HandlersTyped, Row
    <3> QED BY <1>0, <2>1, <3>2, Continued
  <2>3. CASE Arg(h) \in {"PICKED_UP", "OUT_FOR_DELIVERY"}
    <3>1. publish(e) = publish(Arg(h))
      BY <1>0, <2>1, <2>2, <2>3, OnwardGoesOn
    <3>2. Arg(h) = e
      BY <3>1 DEF publish
    <3> QED BY <1>9, <2>3, <3>2
  <2>4. CASE Arg(h) \notin {"PICKED_UP", "OUT_FOR_DELIVERY"}
    <3>1. Onward(h) = Rest(h) /\ Head(plan[h]) # reserve
      BY <1>0, <1>3, <2>1, <2>4, OnwardGoesOn
    <3>2. e = "CANCELLED" /\ Head(plan[h]) = move("CANCELLED")
      BY <1>2, <2>2, <3>1
    <3> QED BY <1>3, <2>2, <3>2 DEF Arg
  <2> QED BY <2>3, <2>4
<1>10. CASE StepOut(h) \/ CancelActive(h)
  <2>1. \E ops : Opens(ops) /\ Continue(h, ops)
    <3>1. CASE StepOut(h)
      BY <3>1, OpeningHops DEF StepOut
    <3>2. CASE CancelActive(h)
      BY <3>2, OpeningRequests, OpeningNone DEF CancelActive
    <3> QED BY <1>10, <3>1, <3>2
  <2>2. PICK ops : Opens(ops) /\ Continue(h, ops)
    BY <2>1
  <2>3. plan'[h] = ops
    BY <1>0, <2>2, Continued
  <2> QED BY <1>0, <2>2, <2>3 DEF Opens
<1> QED BY <1>4, <1>6, <1>7, <1>8, <1>9, <1>10 DEF Run

\* the part of OnceInv about one event
OnceOf(e) ==
  /\ announced[e] <= 1
  /\ announced[e] > 0 => order.status \in Beyond[e]
  /\ \A h \in Handler : Due(h, publish(e)) =>
       /\ announced[e] = 0 /\ order.status \in Beyond[e]
       /\ \A q \in Handler : Due(q, publish(e)) => q = h

CancelledOf ==
  /\ announced["CANCELLED"] > 0 => order.status = "CANCELLED"
  /\ \A h \in Handler : Due(h, publish("CANCELLED")) => order.status = "CANCELLED"

LEMMA OnceParts == /\ OnceInv <=> (Clean => CancelledOf /\ \A e \in Lifecycle : OnceOf(e))
                   /\ OnceInv' <=> (Clean' => CancelledOf' /\ \A e \in Lifecycle : OnceOf(e)')
BY Zenon DEF OnceInv, Clean, OnceOf, CancelledOf

LEMMA OnceOfRun ==
  ASSUME TypeOK, PlansInv, NEW h \in Handler, Run(h), Clean', NEW e \in Lifecycle, OnceOf(e)
  PROVE  OnceOf(e)'
<1>0. HandlersTyped /\ plan[h] # <<>> /\ ~Overwritten' /\ e \in Announcement /\ order.status \in Machine!OrderStatus
  BY TypeParts, StepIsOwn DEF Clean, Lifecycle, Announcement, TypeOK, Row
<1>1. announced[e] \in Nat /\ announced'[e] \in {announced[e], announced[e] + 1}
  BY <1>0, Announces
<1>2. order.status \in Beyond[e] => order'.status \in Beyond[e]
  BY BeyondKept
<1>3. \A q \in Handler \ {h} : Due(q, publish(e))' <=> Due(q, publish(e))
  BY StepIsOwn DEF Due
<1>4. order.status \notin Beyond[e] => announced[e] = 0 /\ \A q \in Handler : ~Due(q, publish(e))
  BY <1>1 DEF OnceOf
<1>5. CASE Due(h, publish(e))'
  <2>1. MoveSave(h) /\ Arg(h) = e /\ e \in {"PICKED_UP", "OUT_FOR_DELIVERY"}
    BY <1>0, <1>5, PublishedAfter
  <2>2. step[h] = "save" /\ Head(plan[h]).do = "move"
    BY <2>1 DEF MoveSave
  <2>3. ~Publish(h) /\ ~DeliverSave(h)
    BY <2>2 DEF Publish, DeliverSave, Doing
  <2>4. Machine!canTransition(order.status, e) /\ order'.status = e
    BY <1>0, <2>1, <2>3, RowMoves
  <2>5. order.status \notin Beyond[e]
    BY <1>0, <2>1, <2>4, TableFacts DEF Beyond
  <2>6. announced'[e] = 0
    BY <1>0, <1>4, <2>3, <2>5, Announces
  <2>7. order'.status \in Beyond[e]
    BY <2>1, <2>4 DEF Beyond
  <2>8. \A q \in Handler : Due(q, publish(e))' => q = h
    BY <1>3, <1>4, <2>5
  <2> QED BY <2>6, <2>7, <2>8 DEF OnceOf
<1>6. CASE ~Due(h, publish(e))' /\ Due(h, publish(e))
  <2>1. announced[e] = 0 /\ order.status \in Beyond[e] /\ \A q \in Handler : Due(q, publish(e)) => q = h
    BY <1>6 DEF OnceOf
  <2>2. \A q \in Handler : ~Due(q, publish(e))'
    BY <1>3, <1>6, <2>1
  <2> QED BY <1>1, <1>2, <2>1, <2>2 DEF OnceOf
<1>7. CASE ~Due(h, publish(e))' /\ ~Due(h, publish(e)) /\ announced'[e] = announced[e]
  BY <1>2, <1>3, <1>7 DEF OnceOf
<1>8. CASE ~Due(h, publish(e))' /\ ~Due(h, publish(e)) /\ announced'[e] # announced[e]
  <2>1. ~Publish(h) \/ Arg(h) # e
    <3> SUFFICES ASSUME Publish(h), Arg(h) = e PROVE FALSE
      OBVIOUS
    <3>1. Head(plan[h]) = publish(e)
      BY <1>0, NextKnown DEF Publish, Doing
    <3> QED BY <1>0, <1>8, <3>1 DEF Due
  <2>2. DeliverSave(h) /\ e \in Passed(snap[h].status)
    BY <1>0, <1>8, <2>1, Announces
  <2>3. ~MoveSave(h)
    BY <2>2 DEF DeliverSave, MoveSave
  <2>4. order = snap[h] /\ order.status \in Machine!OnTheWay /\ order'.status = "DELIVERED"
    BY <1>0, <2>2, <2>3, RowMoves
  <2>5. order.status \notin Beyond[e]
    BY <2>2, <2>4 DEF Passed, Beyond, Lifecycle, Machine!OnTheWay
  <2>6. order'.status \in Beyond[e]
    BY <2>4 DEF Beyond, Lifecycle
  <2>7. \A q \in Handler : ~Due(q, publish(e))'
    BY <1>3, <1>4, <1>8, <2>5
  <2> QED BY <1>1, <1>4, <2>5, <2>6, <2>7 DEF OnceOf
<1> QED BY <1>5, <1>6, <1>7, <1>8

LEMMA CancelledOfRun ==
  ASSUME TypeOK, PlansInv, NEW h \in Handler, Run(h), Clean', CancelledOf
  PROVE  CancelledOf'
<1>0. HandlersTyped /\ plan[h] # <<>> /\ ~Overwritten' /\ "CANCELLED" \in Announcement
  BY TypeParts, StepIsOwn DEF Clean, Announcement
<1>1. announced["CANCELLED"] \in Nat /\ announced'["CANCELLED"] \in {announced["CANCELLED"], announced["CANCELLED"] + 1}
  BY <1>0, Announces
<1>2. order.status = "CANCELLED" => order'.status = "CANCELLED"
  BY BeyondKept
<1>3. \A q \in Handler : Due(q, publish("CANCELLED"))' => order'.status = "CANCELLED"
  <2> SUFFICES ASSUME NEW q \in Handler, Due(q, publish("CANCELLED"))' PROVE order'.status = "CANCELLED"
    OBVIOUS
  <2>1. CASE q = h
    BY <1>0, <2>1, PublishedAfter
  <2>2. CASE q # h
    <3>1. Due(q, publish("CANCELLED"))
      BY <2>2, StepIsOwn DEF Due
    <3> QED BY <1>2, <3>1 DEF CancelledOf
  <2> QED BY <2>1, <2>2
<1>4. ASSUME announced'["CANCELLED"] > 0 PROVE order'.status = "CANCELLED"
  <2>1. CASE announced'["CANCELLED"] = announced["CANCELLED"]
    BY <1>2, <1>4, <2>1 DEF CancelledOf
  <2>2. CASE announced'["CANCELLED"] # announced["CANCELLED"]
    <3>1. "CANCELLED" \notin Passed(snap[h].status)
      BY DEF Passed
    <3>2. Publish(h) /\ Arg(h) = "CANCELLED"
      BY <1>0, <2>2, <3>1, Announces
    <3>3. Due(h, publish("CANCELLED"))
      BY <1>0, <3>2, NextKnown DEF Publish, Doing, Due
    <3> QED BY <1>2, <3>3 DEF CancelledOf
  <2> QED BY <2>1, <2>2
<1> QED BY <1>3, <1>4 DEF CancelledOf

LEMMA OnceRun ==
  ASSUME TypeOK, PlansInv, OnceInv, NEW h \in Handler, Run(h)
  PROVE  OnceInv'
<1> SUFFICES ASSUME Clean' PROVE CancelledOf' /\ \A e \in Lifecycle : OnceOf(e)'
  BY OnceParts
<1>1. Clean
  BY BeyondKept
<1> QED BY <1>1, OnceParts, OnceOfRun, CancelledOfRun

\* Handlers that publish nothing of their own accord leave what is announced as it is.
LEMMA OnceKept ==
  ASSUME OnceInv, happened \subseteq happened', order' = order, announced' = announced,
         \A q \in Handler, e \in Announcement : Due(q, publish(e))' => Due(q, publish(e))
  PROVE  OnceInv'
<1> SUFFICES ASSUME Clean' PROVE CancelledOf' /\ \A e \in Lifecycle : OnceOf(e)'
  BY OnceParts
<1>1. Clean
  BY DEF Clean, Overwritten, BackInQueue
<1>2. CancelledOf'
  BY <1>1, OnceParts DEF CancelledOf, Announcement
<1>3. ASSUME NEW e \in Lifecycle PROVE OnceOf(e)'
  <2>1. OnceOf(e) /\ e \in Announcement
    BY <1>1, OnceParts DEF Lifecycle, Announcement
  <2> QED BY <2>1 DEF OnceOf
<1> QED BY <1>2, <1>3

LEMMA OnceBegin ==
  ASSUME TypeOK, OnceInv, NEW h \in Handler, NEW ops, Begins(h, ops)
  PROVE  OnceInv'
<1>1. /\ order' = order /\ happened' = happened /\ announced' = announced /\ plan'[h] = ops
      /\ \A q \in Handler \ {h} : plan'[q] = plan[q]
  BY DEF Begins, TypeOK
<1>2. \A e : ~Due(h, publish(e))'
  BY <1>1 DEF Due, Begins, Opens, publish
<1>3. \A q \in Handler, e \in Announcement : Due(q, publish(e))' => Due(q, publish(e))
  BY <1>1, <1>2 DEF Due
<1> QED BY <1>1, <1>3, OnceKept

LEMMA OnceCrash == ASSUME TypeOK, OnceInv, NEW h \in Handler, Crash(h) PROVE OnceInv'
<1>1. /\ order' = order /\ happened \subseteq happened' /\ announced' = announced /\ plan'[h] = <<>>
      /\ \A q \in Handler \ {h} : plan'[q] = plan[q]
  BY RowKept, Continued, TypeParts
<1>2. \A q \in Handler, e \in Announcement : Due(q, publish(e))' => Due(q, publish(e))
  BY <1>1 DEF Due
<1> QED BY <1>1, <1>2, OnceKept

-----------------------------------------------------------------------------
(* The invariant, and what it means for the order *)

LEMMA OrderInitial == Init => OrderInv
<1> SUFFICES ASSUME Init PROVE OrderInv
  OBVIOUS
<1>1. \A h \in Handler : plan[h] = <<>> /\ step[h] = "next" /\ rescue[h] = FALSE /\ snap[h] = NoRow /\ source[h] = None
  BY DEF Init
<1>2. TypeOK
  <2>1. HandlersTyped
    <3>1. plan \in [Handler -> Seq(Operation)] /\ snap \in [Handler -> Row]
      BY NoRowTyped, OpeningNone DEF Init, Opens
    <3>2. step \in [Handler -> {"next", "stock", "save"}] /\ source \in [Handler -> Message \union {None}] /\ rescue \in [Handler -> BOOLEAN]
      BY DEF Init
    <3> QED BY <1>1, <3>1, <3>2 DEF HandlersTyped
  <2>2. OrderTyped
    <3>1. order \in Row
      BY DEF Init, Row, Machine!OrderStatus
    <3>2. prepaid \in BOOLEAN /\ kind \in Kinds
      BY DEF Init
    <3>3. jobs \subseteq Job
      BY DEF Init, Job
    <3>4. DOMAIN announced = Announcement /\ \A e \in Announcement : announced[e] \in 0..Cap(e)
      BY DEF Init, Cap
    <3> QED BY <3>1, <3>2, <3>3, <3>4 DEF Init, OrderTyped
  <2>3. OthersTyped
    BY MessageKnown DEF Init, OthersTyped
  <2> QED BY <2>1, <2>2, <2>3, TypeParts
<1>3. PlansInv
  BY <1>1, OpeningNone DEF PlansInv, Opens, Due
<1>4. PaidInv
  BY <1>1 DEF Init, PaidInv, Unpaid, NoRow, Confirmless
<1>5. TimedInv
  BY DEF Init, TimedInv
<1>6. RankInv
  BY <1>1 DEF RankInv
<1>7. StockInv /\ EndedInv
  BY DEF Init, StockInv, EndedInv
<1>8. OnceInv
  BY <1>1 DEF Init, OnceInv, Due, Announcement, Lifecycle
<1> QED BY <1>2, <1>3, <1>4, <1>5, <1>6, <1>7, <1>8 DEF OrderInv

\* The parts of the invariant that speak of neither payment nor dispatch.
LEMMA RowQuiet ==
  ASSUME TimedInv, RankInv, StockInv, EndedInv, OnceInv, UNCHANGED <<orderVars, handlerVars, happened>>
  PROVE  TimedInv' /\ RankInv' /\ StockInv' /\ EndedInv' /\ OnceInv'
<1>1. /\ order' = order /\ stock' = stock /\ jobs' = jobs /\ announced' = announced /\ happened' = happened
      /\ plan' = plan /\ step' = step /\ snap' = snap /\ rescue' = rescue
  BY DEF orderVars, handlerVars
<1>2. TimedInv'
  BY <1>1 DEF TimedInv, Due
<1>3. RankInv'
  BY <1>1 DEF RankInv, Overwritten
<1>4. StockInv'
  BY <1>1 DEF StockInv, Returns, Ending, Due
<1>5. EndedInv'
  BY <1>1 DEF EndedInv, Due
<1>6. OnceInv'
  BY <1>1 DEF OnceInv, Overwritten, BackInQueue, Due
<1> QED BY <1>2, <1>3, <1>4, <1>5, <1>6

LEMMA OrderStep == OrderInv /\ [Next]_vars => OrderInv'
<1> SUFFICES ASSUME OrderInv, [Next]_vars PROVE OrderInv'
  OBVIOUS
<1> USE DEF OrderInv
<1>1. ASSUME NEW h \in Handler, Start(h) PROVE OrderInv'
  <2>1. PICK ops : Begins(h, ops)
    BY <1>1, Started
  <2> QED BY <2>1, BeginsTyped, PlansBegin, PaidBegin, TimedBegin, RankBegin, StockBegin, EndedBegin, OnceBegin
<1>2. ASSUME NEW h \in Handler, Run(h) PROVE OrderInv'
  BY <1>2, RunTyped, PlansRun, PaidRun, TimedRun, RankRun, StockRun, EndedRun, OnceRun
<1>3. ASSUME NEW h \in Handler, Crash(h) PROVE OrderInv'
  <2>1. happened' # {}
    BY <1>3, RowKept
  <2>2. TimedInv' /\ StockInv' /\ EndedInv'
    BY <2>1 DEF TimedInv, StockInv, EndedInv
  <2> QED BY <1>3, <2>2, CrashTyped, PlansCrash, PaidCrash, RankCrash, OnceCrash
<1>4. ASSUME ChargeSucceeds \/ Dispatch PROVE OrderInv'
  <2>1. UNCHANGED <<orderVars, handlerVars, happened>>
    BY <1>4, RowKept
  <2>2. UNCHANGED <<plan, step, snap, rescue>>
    BY <2>1 DEF handlerVars
  <2> QED BY <1>4, <2>1, <2>2, QuietTyped, PlansQuiet, PaidQuiet, RowQuiet
<1>5. CASE UNCHANGED vars
  <2>1. TypeOK'
    BY <1>5 DEF vars, TypeOK
  <2>2. UNCHANGED <<orderVars, handlerVars, happened>> /\ UNCHANGED <<plan, step, snap, rescue, order, prepaid, paid>>
    BY <1>5 DEF vars, orderVars, handlerVars
  <2>3. PaidInv'
    BY <2>2 DEF PaidInv
  <2>4. PlansInv'
    BY <2>2, PlansQuiet
  <2> QED BY <2>1, <2>2, <2>3, <2>4, RowQuiet
<1> QED BY <1>1, <1>2, <1>3, <1>4, <1>5 DEF Next

\* However many handlers run on one order at the same time, what each of them
\* still has to do is the rest of a plan, and it holds what its place needs.
THEOREM OrderInvariant == Spec => []OrderInv
BY OrderInitial, OrderStep, PTL DEF Spec

\* An order that waits has a timeout scheduled once its handlers are done, and no
\* prepaid order gets past its payment unpaid (createOrders, confirmOnPayment).
THEOREM WaitEnds == Spec => []WaitIsTimed
<1>1. ASSUME OrderInv PROVE WaitIsTimed
  <2>1. AtRest => \A h \in Handler : \A op : ~Due(h, op)
    BY DEF AtRest, Due
  <2>2. TypeOK
    BY <1>1 DEF OrderInv
  <2>3. AtRest /\ happened = {} =>
          /\ order.status = "PENDING_PAYMENT" => "payment-timeout" \in jobs
          /\ order.status = "CONFIRMED" => "accept-timeout" \in jobs
    BY <1>1, <2>1 DEF OrderInv, TimedInv
  <2>4. prepaid /\ order.status \notin {"PENDING_PAYMENT", "CANCELLED"} => paid
    BY <1>1 DEF OrderInv, PaidInv, Unpaid
  <2> QED BY <2>2, <2>3, <2>4 DEF WaitIsTimed
<1> QED BY <1>1, OrderInvariant, PTL

\* A cancelled or rejected order has been announced as such and holds no stock once
\* its handlers are done, also when it ended while the vendor accepted it.
THEOREM AbortSettles == Spec => []AbortIsSettled
<1>1. ASSUME OrderInv PROVE AbortIsSettled
  <2>1. AtRest => \A h \in Handler : \A op : ~Due(h, op)
    BY DEF AtRest, Due
  <2>2. AtRest => \A h \in Handler : ~Returns(h)
    BY <2>1 DEF Returns
  <2>3. AtRest /\ order.status \in {"CANCELLED", "REJECTED"} /\ happened = {} => stock # "reserved"
    BY <1>1, <2>2 DEF OrderInv, StockInv
  <2>4. AtRest /\ order.status \in {"CANCELLED", "REJECTED"} /\ happened = {} => announced[order.status] > 0
    BY <1>1, <2>1 DEF OrderInv, EndedInv
  <2> QED BY <2>3, <2>4 DEF AbortIsSettled
<1> QED BY <1>1, OrderInvariant, PTL

\* What pays for an order is announced once, and never for an order that is
\* announced as cancelled, whichever paths race (transition, confirmOtp).
THEOREM PaysOnce == Spec => []AnnouncedOnce
<1>1. ASSUME OrderInv PROVE AnnouncedOnce
  <2>1. \A e \in Lifecycle : "CANCELLED" \notin Beyond[e] /\ e \in Announcement
    BY DEF Lifecycle, Beyond, Announcement
  <2>2. \A e \in Announcement : announced[e] \in Nat
    BY <1>1 DEF OrderInv, TypeOK, Cap
  <2> QED BY <1>1, <2>1, <2>2 DEF OrderInv, OnceInv, AnnouncedOnce, Announcement
<1> QED BY <1>1, OrderInvariant, PTL

\* As long as no handler saves a row that changed after it was read, the status
\* moves along the transition table (state.ts, transition).
THEOREM MovesAreLegal == Spec => LegalUnlessOverwritten
<1>1. OrderInv /\ [Next]_vars => [order.status' = order.status \/ Machine!Next \/ Overwritten']_vars
  BY LegalStep DEF OrderInv
<1> QED BY <1>1, OrderInvariant, PTL DEF Spec, LegalUnlessOverwritten
=============================================================================
