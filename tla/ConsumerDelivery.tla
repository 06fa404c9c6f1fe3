-------------------------- MODULE ConsumerDelivery --------------------------
(***************************************************************************)
(* The consuming side of the event bus: one durable JetStream consumer of  *)
(* one service and event (libs/bus/src/nats.bus.ts), the processes that    *)
(* bind it, and the dedupe table their handlers claim envelopes in         *)
(* (libs/core/src/consumer-dedupe.ts).                                     *)
(*                                                                         *)
(* A message is one publish of an envelope: the relay may publish an       *)
(* envelope more than once.  A delivery is a message and its delivery      *)
(* count.  A process handles the deliveries of its subscription one at a   *)
(* time (for await), and every await of the loop ends a step here.  The    *)
(* handler is its database transaction: it takes the claim, commits its    *)
(* effects at once, and may still fail after that commit.                  *)
(*                                                                         *)
(* The broker is external: it delivers a message to the bound process,     *)
(* again after a nak or when the acknowledgement is late, and no more than *)
(* MAX_DELIVER times.                                                      *)
(***************************************************************************)
EXTENDS Naturals

CONSTANTS
  Envelope,         \* envelopes
  Unsigned,         \* those whose signature does not verify
  Publishes,        \* how often the relay publishes each envelope at most
  Process,          \* processes (replicas, or old and new at a deploy) of the service
  Nobody,           \* no process, no delivery
  MAX_DELIVER,
  DeliveryFault,    \* the faults that may happen, a subset of DeliveryFaults
  MaxDeliveryFaults \* bound: how many counted faults a behaviour has

DeliveryFaults == {"crash", "rebind", "takeError", "throwBefore", "throwAfter",
                   "releaseError", "dlqError", "ackWait", "ackLost"}

Message  == UNION {{e} \X (1..Publishes[e]) : e \in Envelope}
Delivery == Message \X (1..MAX_DELIVER)

ASSUME ConsumerAssumption ==
  /\ MAX_DELIVER \in Nat \ {0}
  /\ Unsigned \subseteq Envelope
  /\ Publishes \in [Envelope -> Nat]
  /\ Nobody \notin Process \union Delivery
  /\ DeliveryFault \subseteq DeliveryFaults
  /\ MaxDeliveryFaults \in Nat

VARIABLES
  stored,         \* messages the stream stores
  acked,          \* messages acknowledged to the consumer
  inflight,       \* messages delivered and neither acknowledged nor given back
  gone,           \* messages the present consumer will never deliver (recreated: deliverNew)
  count,          \* how often each message was delivered
  bound,          \* process the consumer pushes to
  buffer,         \* deliveries a process has received and not started
  loop,           \* where each process is in its loop
  current,        \* delivery a process works on
  cache,          \* envelopes each process remembers taking
  claims,         \* rows of ore_consumer_dedupe
  expired,        \* envelopes older than the retention of those rows
  applied,        \* how often the effects of each envelope were committed
  deadLetters,    \* envelopes in the dead-letter stream
  relapsed,       \* history: envelopes whose claim was given back after their effects, or by
                  \* a process that had not taken it
  dlqLost,        \* history: envelopes whose dead-letter copy was lost
  orphaned,       \* history: envelopes whose claim outlived a handler that did not finish,
                  \* or whose last delivery died with its process
  deliveryFaults  \* how many counted faults have happened

brokerVars  == <<stored, acked, inflight, gone, count, bound>>
processVars == <<buffer, loop, current>>
dedupeVars  == <<cache, claims, expired>>
outcomeVars == <<applied, deadLetters, relapsed, dlqLost, orphaned>>
deliveryVars ==
  <<stored, acked, inflight, gone, count, bound, buffer, loop, current, cache, claims, expired,
    applied, deadLetters, relapsed, dlqLost, orphaned, deliveryFaults>>

ProcessPc == {"idle", "received", "running", "committed", "failing", "released", "acking"}

DeliveryTypeOK ==
  /\ stored         \subseteq Message
  /\ acked          \subseteq stored
  /\ inflight       \subseteq stored
  /\ gone           \subseteq stored
  /\ count          \in [Message -> 0..MAX_DELIVER]
  /\ bound          \in Process \union {Nobody}
  /\ buffer         \in [Process -> SUBSET Delivery]
  /\ loop           \in [Process -> ProcessPc]
  /\ current        \in [Process -> Delivery \union {Nobody}]
  /\ cache          \in [Process -> SUBSET Envelope]
  /\ claims         \subseteq Envelope
  /\ expired        \subseteq Envelope
  /\ applied        \in [Envelope -> Nat]
  /\ deadLetters    \subseteq Envelope
  /\ relapsed       \subseteq Envelope
  /\ dlqLost        \subseteq Envelope
  /\ orphaned       \subseteq Envelope
  /\ deliveryFaults \in 0..MaxDeliveryFaults
  /\ \A p \in Process : current[p] = Nobody <=> loop[p] = "idle"

DeliveryInit ==
  /\ stored = {} /\ acked = {} /\ inflight = {} /\ gone = {}
  /\ count   = [m \in Message |-> 0]
  /\ bound   = Nobody
  /\ buffer  = [p \in Process |-> {}]
  /\ loop    = [p \in Process |-> "idle"]
  /\ current = [p \in Process |-> Nobody]
  /\ cache   = [p \in Process |-> {}]
  /\ claims = {} /\ expired = {}
  /\ applied = [e \in Envelope |-> 0]
  /\ deadLetters = {} /\ relapsed = {} /\ dlqLost = {} /\ orphaned = {}
  /\ deliveryFaults = 0

CountDeliveryFault(kind) ==
  /\ kind \in DeliveryFault
  /\ deliveryFaults < MaxDeliveryFaults
  /\ deliveryFaults' = deliveryFaults + 1

Msg(p)   == current[p][1]       \* message of the delivery p works on
Env(p)   == current[p][1][1]    \* its envelope
Count(p) == current[p][2]       \* its delivery count

\* Deliveries p has received and not finished with.
Received(p) == buffer[p] \union ({current[p]} \ {Nobody})

-----------------------------------------------------------------------------
(* The broker *)

\* A relay publishes the envelope, not for the first time perhaps.
PublishMessage(m) ==
  /\ m \notin stored /\ m[1] \notin expired
  /\ \A n \in Message : n[1] = m[1] /\ n[2] < m[2] => n \in stored
  /\ stored' = stored \union {m}
  /\ UNCHANGED <<acked, inflight, gone, count, bound, processVars, dedupeVars, outcomeVars,
                 deliveryFaults>>

\* The consumer pushes a message; one that was delivered and not acknowledged
\* in time is pushed again ("ackWait") though a process may still work on it.
Deliver(m) ==
  /\ bound # Nobody
  /\ m \in stored \ (acked \union gone)
  /\ count[m] < MAX_DELIVER
  /\ IF m \in inflight /\ \E p \in Process : \E d \in Received(p) : d[1] = m
       THEN CountDeliveryFault("ackWait") ELSE UNCHANGED deliveryFaults
  /\ inflight' = inflight \union {m}
  /\ count'    = [count EXCEPT ![m] = @ + 1]
  /\ buffer'   = [buffer EXCEPT ![bound] = @ \union {<<m, count[m] + 1>>}]
  /\ UNCHANGED <<stored, acked, gone, bound, loop, current, dedupeVars, outcomeVars>>

\* subscribe() of a process: it binds the free durable consumer ...
Bind(p) ==
  /\ bound = Nobody
  /\ bound' = p
  /\ UNCHANGED <<stored, acked, inflight, gone, count, processVars, dedupeVars, outcomeVars,
                 deliveryFaults>>

\* ... or the bind fails because another process, or its dead connection, is
\* still bound: the durable is deleted and created again with deliverNew.
Rebind(p) ==
  /\ bound # p
  /\ CountDeliveryFault("rebind")
  /\ bound'    = p
  /\ gone'     = stored
  /\ inflight' = {}
  /\ UNCHANGED <<stored, acked, count, processVars, dedupeVars, outcomeVars>>

\* p has started to handle e and has not committed nor released it.
InHandler(p, e) == loop[p] \in {"running", "failing"} /\ Env(p) = e

\* Deliveries p holds that the broker will not repeat.
LastDeliveries(p) == {d \in Received(p) : d[2] = MAX_DELIVER}

\* The process dies: its buffer, its cache and its handler's open transaction
\* are lost, the committed claim is not.
ProcessCrash(p) ==
  /\ CountDeliveryFault("crash")
  /\ p = bound \/ loop[p] # "idle"
  /\ bound'   = IF bound = p THEN Nobody ELSE bound
  /\ buffer'  = [buffer EXCEPT ![p] = {}]
  /\ loop'    = [loop EXCEPT ![p] = "idle"]
  /\ current' = [current EXCEPT ![p] = Nobody]
  /\ cache'   = [cache EXCEPT ![p] = {}]
  /\ orphaned' = orphaned \union {e \in Envelope : InHandler(p, e)}
                          \union {d[1][1] : d \in LastDeliveries(p)}
  /\ UNCHANGED <<stored, acked, inflight, gone, count, claims, expired,
                 applied, deadLetters, relapsed, dlqLost>>

-----------------------------------------------------------------------------
(* The loop of NatsBus.subscribe *)

Goto(p, where) == loop' = [loop EXCEPT ![p] = where]

NextDelivery(p) == Goto(p, "idle") /\ current' = [current EXCEPT ![p] = Nobody]

Receive(p) ==
  /\ loop[p] = "idle"
  /\ \E d \in buffer[p] :
       /\ buffer'  = [buffer EXCEPT ![p] = @ \ {d}]
       /\ current' = [current EXCEPT ![p] = d]
  /\ Goto(p, "received")
  /\ UNCHANGED <<brokerVars, dedupeVars, outcomeVars, deliveryFaults>>

\* publishDlq never rejects: when its publish fails the copy is lost.
DeadLetter(e) ==
  \/ /\ deadLetters' = deadLetters \union {e}
     /\ UNCHANGED <<dlqLost, deliveryFaults>>
  \/ /\ CountDeliveryFault("dlqError")
     /\ dlqLost' = dlqLost \union {e}
     /\ UNCHANGED deadLetters

\* A bad signature: dead-lettered and acknowledged, no handler runs.
RejectUnsigned(p) ==
  /\ loop[p] = "received" /\ Env(p) \in Unsigned
  /\ DeadLetter(Env(p))
  /\ Goto(p, "acking")
  /\ UNCHANGED <<brokerVars, buffer, current, dedupeVars, applied, relapsed, orphaned>>

\* Mutant: the envelope is only remembered, not claimed in the table.
NoClaim(e) == claims
NewClaim(e) == claims \union {e}

\* take() inserts the row: the handler has the envelope.
Take(p) ==
  LET e == Env(p) IN
  /\ loop[p] = "received" /\ e \notin Unsigned
  /\ e \notin cache[p] /\ e \notin claims
  /\ claims' = NewClaim(e)
  /\ cache'  = [cache EXCEPT ![p] = @ \union {e}]
  /\ Goto(p, "running")
  /\ UNCHANGED <<brokerVars, buffer, current, expired, outcomeVars, deliveryFaults>>

\* remember() of envelopes of other events, which share the cache of CACHE_LIMIT
\* entries, pushes an older one out.
Evict(p) ==
  /\ \E e \in cache[p] : cache' = [cache EXCEPT ![p] = @ \ {e}]
  /\ UNCHANGED <<brokerVars, processVars, claims, expired, outcomeVars, deliveryFaults>>

\* take() returns false, from the cache or on conflict: the handler returns.
TakeFalse(p) ==
  LET e == Env(p) IN
  /\ loop[p] = "received" /\ e \notin Unsigned
  /\ e \in cache[p] \/ e \in claims
  /\ Goto(p, "acking")
  /\ UNCHANGED <<brokerVars, buffer, current, dedupeVars, outcomeVars, deliveryFaults>>

\* The query of take() rejects: the handler throws without a claim.
TakeError(p) ==
  LET e == Env(p) IN
  /\ loop[p] = "received" /\ e \notin Unsigned
  /\ e \notin cache[p]
  /\ CountDeliveryFault("takeError")
  /\ relapsed' = relapsed \union {e}
  /\ Goto(p, "failing")
  /\ UNCHANGED <<brokerVars, buffer, current, dedupeVars, applied, deadLetters, dlqLost, orphaned>>

\* The handler commits its effects ...
Apply(p) ==
  /\ loop[p] = "running"
  /\ applied' = [applied EXCEPT ![Env(p)] = @ + 1]
  /\ Goto(p, "committed")
  /\ UNCHANGED <<brokerVars, buffer, current, dedupeVars, deadLetters, relapsed, dlqLost,
                 orphaned, deliveryFaults>>

\* ... or throws and rolls them back.
ThrowBefore(p) ==
  /\ loop[p] = "running"
  /\ CountDeliveryFault("throwBefore")
  /\ Goto(p, "failing")
  /\ UNCHANGED <<brokerVars, buffer, current, dedupeVars, outcomeVars>>

Return(p) ==
  /\ loop[p] = "committed"
  /\ Goto(p, "acking")
  /\ UNCHANGED <<brokerVars, buffer, current, dedupeVars, outcomeVars, deliveryFaults>>

ThrowAfter(p) ==
  /\ loop[p] = "committed"
  /\ CountDeliveryFault("throwAfter")
  /\ relapsed' = relapsed \union {Env(p)}
  /\ Goto(p, "failing")
  /\ UNCHANGED <<brokerVars, buffer, current, dedupeVars, applied, deadLetters, dlqLost, orphaned>>

\* Mutant: the claim is not given back.
ClaimKept(e) == claims
ClaimDeleted(e) == claims \ {e}

\* releaseClaim of the catch block: the row goes, whoever inserted it.
Release(p) ==
  /\ loop[p] = "failing"
  /\ cache' = [cache EXCEPT ![p] = @ \ {Env(p)}]
  /\ \/ /\ claims' = ClaimDeleted(Env(p))
        /\ UNCHANGED <<orphaned, deliveryFaults>>
     \/ /\ CountDeliveryFault("releaseError")
        /\ orphaned' = orphaned \union {Env(p)}
        /\ UNCHANGED claims
  /\ Goto(p, "released")
  /\ UNCHANGED <<brokerVars, buffer, current, expired, applied, deadLetters, relapsed, dlqLost>>

\* Mutants: dead-lettered one delivery early; acknowledged with no copy.
LastDeliveryEarly(p) == Count(p) >= MAX_DELIVER - 1
LastDelivery(p) == Count(p) >= MAX_DELIVER

ExhaustSilently(p) ==
  /\ loop[p] = "released" /\ LastDelivery(p)
  /\ Goto(p, "acking")
  /\ UNCHANGED <<brokerVars, buffer, current, dedupeVars, outcomeVars, deliveryFaults>>

Exhaust(p) ==
  /\ loop[p] = "released" /\ LastDelivery(p)
  /\ DeadLetter(Env(p))
  /\ Goto(p, "acking")
  /\ UNCHANGED <<brokerVars, buffer, current, dedupeVars, applied, relapsed, orphaned>>

\* The broker takes an answer only for a message the present consumer delivered.
Nak(p) ==
  /\ loop[p] = "released" /\ ~LastDelivery(p)
  /\ inflight' = inflight \ {Msg(p)}
  /\ NextDelivery(p)
  /\ UNCHANGED <<stored, acked, gone, count, bound, buffer, dedupeVars, outcomeVars,
                 deliveryFaults>>

Ack(p) ==
  /\ loop[p] = "acking"
  /\ \/ /\ acked'    = acked \union ({Msg(p)} \ gone)
        /\ inflight' = inflight \ {Msg(p)}
        /\ UNCHANGED deliveryFaults
     \/ /\ CountDeliveryFault("ackLost")
        /\ UNCHANGED <<acked, inflight>>
  /\ NextDelivery(p)
  /\ UNCHANGED <<stored, gone, count, bound, buffer, dedupeVars, outcomeVars>>

-----------------------------------------------------------------------------
\* No process works on the envelope and the consumer has nothing of it left.
Quiet(e) ==
  /\ \A m \in stored : m[1] = e => (m \in acked \union gone) \/ count[m] = MAX_DELIVER
  /\ \A p \in Process : \A d \in Received(p) : d[1][1] # e

\* sweep(): the retention exceeds the redelivery window, so a row that is
\* deleted is of an envelope the bus is done with.
Sweep(e) ==
  /\ e \in claims /\ Quiet(e)
  /\ claims'  = claims \ {e}
  /\ expired' = expired \union {e}
  /\ UNCHANGED <<brokerVars, processVars, cache, outcomeVars, deliveryFaults>>

LoopStep(p) ==
  \/ Receive(p) \/ RejectUnsigned(p) \/ Take(p) \/ TakeFalse(p) \/ TakeError(p)
  \/ Apply(p) \/ ThrowBefore(p) \/ Return(p) \/ ThrowAfter(p)
  \/ Release(p) \/ Exhaust(p) \/ Nak(p) \/ Ack(p)

DeliveryNext ==
  \/ \E m \in Message : PublishMessage(m) \/ Deliver(m)
  \/ \E p \in Process : Bind(p) \/ Rebind(p) \/ ProcessCrash(p) \/ Evict(p) \/ LoopStep(p)
  \/ \E e \in Envelope : Sweep(e)

DeliverySpec == DeliveryInit /\ [][DeliveryNext]_deliveryVars

\* A process that does not crash runs its loop, some process subscribes, and
\* the broker delivers what it has.
FairDelivery ==
  /\ DeliverySpec
  /\ \A p \in Process : WF_deliveryVars(LoopStep(p))
  /\ WF_deliveryVars(\E p \in Process : Bind(p))
  /\ \A m \in Message : WF_deliveryVars(Deliver(m))

-----------------------------------------------------------------------------
MessagesOf(e) == {m \in stored : m[1] = e}

\* However often an envelope is published, redelivered or delivered to two
\* processes, its effects are committed once, unless a handler failed after
\* its commit or a take() failed and its catch block deleted another's claim.
AppliedOnce == \A e \in Envelope : applied[e] <= 1 \/ e \in relapsed

\* An envelope all of whose messages are acknowledged was handled or
\* dead-lettered, unless one of the named faults lost it on the way.
NoSilentLoss ==
  \A e \in Envelope :
    MessagesOf(e) # {} /\ MessagesOf(e) \subseteq acked
      => applied[e] > 0 \/ e \in deadLetters \union dlqLost \union orphaned

\* A forged envelope is dead-lettered and never claimed or handled; any other
\* reaches the dead-letter stream only when its deliveries are used up.
DeadLetterJustified ==
  /\ \A e \in Unsigned : applied[e] = 0 /\ e \notin claims
  /\ \A e \in deadLetters \ Unsigned : \E m \in MessagesOf(e) : count[m] = MAX_DELIVER

\* Every published envelope is handled or dead-lettered in the end, unless a
\* named fault or a recreated consumer lost it.
Resolved(e) ==
  \/ applied[e] > 0
  \/ e \in deadLetters \union dlqLost \union orphaned
  \/ MessagesOf(e) \intersect gone # {}
EventuallyResolved == \A e \in Envelope : MessagesOf(e) # {} ~> Resolved(e)

\* What the delivery test says (event-delivery.spec.ts:86-88): giving claims
\* back on failure does not let one delivery be applied twice.
NeverAppliedTwice == \A e \in Envelope : applied[e] <= 1
=============================================================================
