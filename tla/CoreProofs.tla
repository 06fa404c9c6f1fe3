----------------------------- MODULE CoreProofs ------------------------------
(***************************************************************************)
(* How an event gets from one service to another, libs/core and libs/bus,  *)
(* and the interval lock of libs/core. The three share no state; each is   *)
(* for any number of its events, processes, ticks and faults.              *)
(*                                                                         *)
(* Outbox.  OutboxInv says which cycle may still change a row: while no    *)
(* claim on it was taken from a live cycle, one cycle at most works on it  *)
(* and the row says "claiming".                                            *)
(*                                                                         *)
(* IntervalLock.  LockInv says that the lock has one owner at most, that   *)
(* who has it runs under it, and that who runs under it without having     *)
(* gone on unguarded has it.                                               *)
(*                                                                         *)
(* ConsumerDelivery.  Of an envelope that has not relapsed (nobody gave    *)
(* its claim back wrongly), the processes that handle it hold its claim,   *)
(* so there is at most one; once its effects are committed the claim stays *)
(* until the sweep, and the sweep leaves nothing to deliver.               *)
(***************************************************************************)
EXTENDS Outbox, IntervalLock, ConsumerDelivery, FiniteSetTheorems, TLAPS

-----------------------------------------------------------------------------
(* The outbox *)

\* r may still mark the row of e.
Works(r, e) == e \in todo[r] \/ (cur[r] = e /\ pc[r] \in {"published", "failing"})

NotInserted == \A e \in Event : status[e] = "none" => attempts[e] = 0

\* A cycle between batches has nothing to do, and the row it works on has left its batch.
BatchShape ==
  \A r \in Relay : /\ pc[r] = "idle" => todo[r] = {}
                   /\ cur[r] \notin todo[r]

PublishedInStream == \A r \in Relay : pc[r] = "published" => stream[cur[r]] > 0

SeenIsOld == \A r \in Relay, e \in Event : seen[r][e] <= attempts[e]

BuryingExhausted == \A r \in Relay : pc[r] = "burying" => attempts[cur[r]] >= MAX_ATTEMPTS

OneWorker ==
  \A e \in Event \ stolen, r \in Relay :
    Works(r, e) => /\ status[e] = "claiming"
                   /\ \A q \in Relay \ {r} : ~Works(q, e)

\* An event nothing went wrong with: published by the one cycle that claimed it.
PublishedOnce ==
  \A e \in Event \ retried :
    /\ stream[e] <= 1
    /\ status[e] \in {"none", "pending"} => stream[e] = 0
    /\ \A r \in Relay : /\ e \in todo[r] => stream[e] = 0
                        /\ cur[r] = e => pc[r] = "published"

OutboxInv ==
  /\ TypeOK
  /\ BatchShape
  /\ NotInserted /\ NeverStranded
  /\ SentWasPublished /\ PublishedInStream
  /\ SeenIsOld /\ BuryingExhausted /\ DeadLetterOnlyExhausted
  /\ stolen \subseteq retried
  /\ OneWorker
  /\ PublishedOnce

-----------------------------------------------------------------------------
LEMMA EnqueueStep == ASSUME OutboxInv, NEW e \in Event, Enqueue(e) PROVE OutboxInv'
<1> USE OutboxAssumption DEF OutboxInv, Enqueue, rowVars, relayVars, busVars, history
<1>1. TypeOK'
  BY DEF TypeOK, RowStatus, RelayPc, BatchShape
<1>2. BatchShape'
  BY DEF TypeOK, RowStatus, RelayPc, BatchShape
<1>3. NotInserted' /\ NeverStranded' /\ SentWasPublished' /\ PublishedInStream'
  BY DEF TypeOK, BatchShape, NotInserted, NeverStranded, SentWasPublished, PublishedInStream
<1>4. SeenIsOld' /\ BuryingExhausted' /\ DeadLetterOnlyExhausted'
  BY DEF TypeOK, BatchShape, SeenIsOld, BuryingExhausted, DeadLetterOnlyExhausted
<1>5. (stolen \subseteq retried)' /\ OneWorker'
  BY DEF TypeOK, BatchShape, OneWorker, Works
<1>6. PublishedOnce'
  BY DEF TypeOK, BatchShape, OneWorker, Works, PublishedOnce
<1> QED
  BY <1>1, <1>2, <1>3, <1>4, <1>5, <1>6

LEMMA ClaimStep == ASSUME OutboxInv, NEW r \in Relay, Claim(r) PROVE OutboxInv'
<1> USE OutboxAssumption DEF OutboxInv, Claim, Claimable, OldClaims, StatusClaimed, CountFault, Holds, rowVars, relayVars, busVars, history
<1>1. TypeOK'
  BY DEF TypeOK, RowStatus, RelayPc, BatchShape
<1>2. BatchShape'
  BY DEF TypeOK, RowStatus, RelayPc, BatchShape
<1>3. NotInserted' /\ NeverStranded' /\ SentWasPublished' /\ PublishedInStream'
  BY DEF TypeOK, BatchShape, NotInserted, NeverStranded, SentWasPublished, PublishedInStream
<1>4. SeenIsOld' /\ BuryingExhausted' /\ DeadLetterOnlyExhausted'
  BY DEF TypeOK, BatchShape, SeenIsOld, BuryingExhausted, DeadLetterOnlyExhausted
<1>5. (stolen \subseteq retried)' /\ OneWorker'
  BY DEF TypeOK, BatchShape, OneWorker, Works
<1>6. PublishedOnce'
  BY DEF TypeOK, BatchShape, OneWorker, Works, PublishedOnce
<1> QED
  BY <1>1, <1>2, <1>3, <1>4, <1>5, <1>6

LEMMA PublishStep == ASSUME OutboxInv, NEW r \in Relay, NEW e \in Event, Publish(r, e) PROVE OutboxInv'
<1> USE OutboxAssumption DEF OutboxInv, Publish, rowVars, relayVars, busVars, history
<1>1. TypeOK'
  BY DEF TypeOK, RowStatus, RelayPc, BatchShape
<1>2. BatchShape'
  BY DEF TypeOK, RowStatus, RelayPc, BatchShape
<1>3. NotInserted' /\ NeverStranded' /\ SentWasPublished' /\ PublishedInStream'
  BY DEF TypeOK, BatchShape, NotInserted, NeverStranded, SentWasPublished, PublishedInStream
<1>4. SeenIsOld' /\ BuryingExhausted' /\ DeadLetterOnlyExhausted'
  BY DEF TypeOK, BatchShape, SeenIsOld, BuryingExhausted, DeadLetterOnlyExhausted
<1>5. (stolen \subseteq retried)' /\ OneWorker'
  BY DEF TypeOK, BatchShape, OneWorker, Works
<1>6. PublishedOnce'
  BY DEF TypeOK, BatchShape, OneWorker, Works, PublishedOnce
<1> QED
  BY <1>1, <1>2, <1>3, <1>4, <1>5, <1>6

LEMMA PublishErrorStep == ASSUME OutboxInv, NEW r \in Relay, NEW e \in Event, PublishError(r, e) PROVE OutboxInv'
<1> USE OutboxAssumption DEF OutboxInv, PublishError, rowVars, relayVars, busVars, history
<1>1. TypeOK'
  BY DEF TypeOK, RowStatus, RelayPc, BatchShape
<1>2. BatchShape'
  BY DEF TypeOK, RowStatus, RelayPc, BatchShape
<1>3. NotInserted' /\ NeverStranded' /\ SentWasPublished' /\ PublishedInStream'
  BY DEF TypeOK, BatchShape, NotInserted, NeverStranded, SentWasPublished, PublishedInStream
<1>4. SeenIsOld' /\ BuryingExhausted' /\ DeadLetterOnlyExhausted'
  BY DEF TypeOK, BatchShape, SeenIsOld, BuryingExhausted, DeadLetterOnlyExhausted
<1>5. (stolen \subseteq retried)' /\ OneWorker'
  BY DEF TypeOK, BatchShape, OneWorker, Works
<1>6. PublishedOnce'
  BY DEF TypeOK, BatchShape, OneWorker, Works, PublishedOnce
<1> QED
  BY <1>1, <1>2, <1>3, <1>4, <1>5, <1>6

LEMMA MarkSentStep == ASSUME OutboxInv, NEW r \in Relay, MarkSent(r) PROVE OutboxInv'
<1> USE OutboxAssumption DEF OutboxInv, MarkSent, NextRow, rowVars, relayVars, busVars, history
<1>1. TypeOK'
  BY DEF TypeOK, RowStatus, RelayPc, BatchShape
<1>2. BatchShape'
  BY DEF TypeOK, RowStatus, RelayPc, BatchShape
<1>3. NotInserted' /\ NeverStranded' /\ SentWasPublished' /\ PublishedInStream'
  BY DEF TypeOK, BatchShape, NotInserted, NeverStranded, SentWasPublished, PublishedInStream
<1>4. SeenIsOld' /\ BuryingExhausted' /\ DeadLetterOnlyExhausted'
  BY DEF TypeOK, BatchShape, SeenIsOld, BuryingExhausted, DeadLetterOnlyExhausted
<1>5. (stolen \subseteq retried)' /\ OneWorker'
  BY DEF TypeOK, BatchShape, OneWorker, Works
<1>6. PublishedOnce'
  BY DEF TypeOK, BatchShape, OneWorker, Works, PublishedOnce
<1> QED
  BY <1>1, <1>2, <1>3, <1>4, <1>5, <1>6

LEMMA MarkSentErrorStep == ASSUME OutboxInv, NEW r \in Relay, MarkSentError(r) PROVE OutboxInv'
<1> USE OutboxAssumption DEF OutboxInv, MarkSentError, CountFault, rowVars, relayVars, busVars, history
<1>1. TypeOK'
  BY DEF TypeOK, RowStatus, RelayPc, BatchShape
<1>2. BatchShape'
  BY DEF TypeOK, RowStatus, RelayPc, BatchShape
<1>3. NotInserted' /\ NeverStranded' /\ SentWasPublished' /\ PublishedInStream'
  BY DEF TypeOK, BatchShape, NotInserted, NeverStranded, SentWasPublished, PublishedInStream
<1>4. SeenIsOld' /\ BuryingExhausted' /\ DeadLetterOnlyExhausted'
  BY DEF TypeOK, BatchShape, SeenIsOld, BuryingExhausted, DeadLetterOnlyExhausted
<1>5. (stolen \subseteq retried)' /\ OneWorker'
  BY DEF TypeOK, BatchShape, OneWorker, Works
<1>6. PublishedOnce'
  BY DEF TypeOK, BatchShape, OneWorker, Works, PublishedOnce
<1> QED
  BY <1>1, <1>2, <1>3, <1>4, <1>5, <1>6

LEMMA MarkFailureStep == ASSUME OutboxInv, NEW r \in Relay, MarkFailure(r) PROVE OutboxInv'
<1>1. PICK e \in Event : e = cur[r] /\ pc[r] = "failing" /\ e \notin todo[r]
  BY OutboxAssumption DEF OutboxInv, TypeOK, BatchShape, MarkFailure
<1>2. PICK after \in {"failed", "pending"} :
        /\ after = "pending" => attempts[e] + 1 < MAX_ATTEMPTS
        /\ status' = [status EXCEPT ![e] = after]
        /\ attempts' = [attempts EXCEPT ![e] = @ + 1]
        /\ UNCHANGED <<todo, stream, dlq, retried, stolen, faults>>
  <2>1. /\ attempts[e] \in Nat
        /\ status' = [status EXCEPT ![e] = IF attempts[e] + 1 >= MAX_ATTEMPTS THEN "failed" ELSE "pending"]
        /\ attempts' = [attempts EXCEPT ![e] = @ + 1]
        /\ UNCHANGED <<todo, stream, dlq, retried, stolen, faults>>
    BY <1>1 DEF OutboxInv, TypeOK, MarkFailure, StatusAfterFailure, NextRow, busVars, history
  <2>2. CASE attempts[e] + 1 >= MAX_ATTEMPTS
    BY <2>1, <2>2
  <2>3. CASE ~(attempts[e] + 1 >= MAX_ATTEMPTS)
    <3>1. attempts[e] + 1 < MAX_ATTEMPTS
      BY <2>1, <2>3, OutboxAssumption
    <3>2. status' = [status EXCEPT ![e] = "pending"]
      BY <2>1, <2>3
    <3> QED
      BY <2>1, <3>1, <3>2
  <2> QED
    BY <2>2, <2>3
<1> USE OutboxAssumption, <1>1, <1>2 DEF OutboxInv
<1>3. CASE seen[r][e] + 1 >= MAX_ATTEMPTS
  <2>0. pc' = [pc EXCEPT ![r] = "burying"] /\ UNCHANGED <<cur, seen>>
    BY <1>3 DEF MarkFailure, SeenExhausted
  <2> USE <1>3, <2>0
  <2>1. TypeOK'
    BY DEF TypeOK, RowStatus, RelayPc
  <2>2. BatchShape'
    BY DEF TypeOK, BatchShape
  <2>3. NotInserted' /\ NeverStranded' /\ SentWasPublished' /\ PublishedInStream'
    BY DEF TypeOK, NotInserted, NeverStranded, SentWasPublished, PublishedInStream
  <2>4. SeenIsOld' /\ BuryingExhausted' /\ DeadLetterOnlyExhausted'
    BY DEF TypeOK, SeenIsOld, BuryingExhausted, DeadLetterOnlyExhausted
  <2>5. (stolen \subseteq retried)' /\ OneWorker'
    BY DEF TypeOK, OneWorker, Works
  <2>6. PublishedOnce'
    BY DEF TypeOK, OneWorker, Works, PublishedOnce
  <2> QED
    BY <2>1, <2>2, <2>3, <2>4, <2>5, <2>6
<1>4. CASE ~(seen[r][e] + 1 >= MAX_ATTEMPTS)
  <2>0. PICK next \in {"idle", "batch"} :
          /\ next = "idle" => todo[r] = {}
          /\ pc' = [pc EXCEPT ![r] = next] /\ cur' = [cur EXCEPT ![r] = None]
          /\ seen' = [seen EXCEPT ![r] = [@ EXCEPT ![e] = 0]]
    BY <1>4 DEF MarkFailure, SeenExhausted, NextRow
  <2> USE <1>4, <2>0
  <2>1. TypeOK'
    BY DEF TypeOK, RowStatus, RelayPc
  <2>2. BatchShape'
    BY DEF TypeOK, BatchShape
  <2>3. NotInserted' /\ NeverStranded' /\ SentWasPublished' /\ PublishedInStream'
    BY DEF TypeOK, NotInserted, NeverStranded, SentWasPublished, PublishedInStream
  <2>4. SeenIsOld' /\ BuryingExhausted' /\ DeadLetterOnlyExhausted'
    BY DEF TypeOK, SeenIsOld, BuryingExhausted, DeadLetterOnlyExhausted
  <2>5. (stolen \subseteq retried)' /\ OneWorker'
    BY DEF TypeOK, OneWorker, Works
  <2>6. PublishedOnce'
    BY DEF TypeOK, OneWorker, Works, PublishedOnce
  <2> QED
    BY <2>1, <2>2, <2>3, <2>4, <2>5, <2>6
<1> QED
  BY <1>3, <1>4

LEMMA MarkFailureErrorStep == ASSUME OutboxInv, NEW r \in Relay, MarkFailureError(r) PROVE OutboxInv'
<1> USE OutboxAssumption DEF OutboxInv, MarkFailureError, CountFault, Abandon, rowVars, relayVars, busVars, history
<1>1. TypeOK'
  BY DEF TypeOK, RowStatus, RelayPc, BatchShape
<1>2. BatchShape'
  BY DEF TypeOK, RowStatus, RelayPc, BatchShape
<1>3. NotInserted' /\ NeverStranded' /\ SentWasPublished' /\ PublishedInStream'
  BY DEF TypeOK, BatchShape, NotInserted, NeverStranded, SentWasPublished, PublishedInStream
<1>4. SeenIsOld' /\ BuryingExhausted' /\ DeadLetterOnlyExhausted'
  BY DEF TypeOK, BatchShape, SeenIsOld, BuryingExhausted, DeadLetterOnlyExhausted
<1>5. (stolen \subseteq retried)' /\ OneWorker'
  BY DEF TypeOK, BatchShape, OneWorker, Works
<1>6. PublishedOnce'
  BY DEF TypeOK, BatchShape, OneWorker, Works, PublishedOnce
<1> QED
  BY <1>1, <1>2, <1>3, <1>4, <1>5, <1>6

LEMMA CrashStep == ASSUME OutboxInv, NEW r \in Relay, Crash(r) PROVE OutboxInv'
<1> USE OutboxAssumption DEF OutboxInv, Crash, CountFault, Abandon, rowVars, relayVars, busVars, history
<1>1. TypeOK'
  BY DEF TypeOK, RowStatus, RelayPc, BatchShape
<1>2. BatchShape'
  BY DEF TypeOK, RowStatus, RelayPc, BatchShape
<1>3. NotInserted' /\ NeverStranded' /\ SentWasPublished' /\ PublishedInStream'
  BY DEF TypeOK, BatchShape, NotInserted, NeverStranded, SentWasPublished, PublishedInStream
<1>4. SeenIsOld' /\ BuryingExhausted' /\ DeadLetterOnlyExhausted'
  BY DEF TypeOK, BatchShape, SeenIsOld, BuryingExhausted, DeadLetterOnlyExhausted
<1>5. (stolen \subseteq retried)' /\ OneWorker'
  BY DEF TypeOK, BatchShape, OneWorker, Works
<1>6. PublishedOnce'
  BY DEF TypeOK, BatchShape, OneWorker, Works, PublishedOnce
<1> QED
  BY <1>1, <1>2, <1>3, <1>4, <1>5, <1>6

LEMMA PublishDlqStep == ASSUME OutboxInv, NEW r \in Relay, PublishDlq(r) PROVE OutboxInv'
<1> USE OutboxAssumption DEF OutboxInv, PublishDlq, NextRow, rowVars, relayVars, busVars, history
<1>1. TypeOK'
  BY DEF TypeOK, RowStatus, RelayPc, BatchShape
<1>2. BatchShape'
  BY DEF TypeOK, RowStatus, RelayPc, BatchShape
<1>3. NotInserted' /\ NeverStranded' /\ SentWasPublished' /\ PublishedInStream'
  BY DEF TypeOK, BatchShape, NotInserted, NeverStranded, SentWasPublished, PublishedInStream
<1>4. SeenIsOld' /\ BuryingExhausted' /\ DeadLetterOnlyExhausted'
  BY DEF TypeOK, BatchShape, SeenIsOld, BuryingExhausted, DeadLetterOnlyExhausted
<1>5. (stolen \subseteq retried)' /\ OneWorker'
  BY DEF TypeOK, BatchShape, OneWorker, Works
<1>6. PublishedOnce'
  BY DEF TypeOK, BatchShape, OneWorker, Works, PublishedOnce
<1> QED
  BY <1>1, <1>2, <1>3, <1>4, <1>5, <1>6

LEMMA PublishDlqErrorStep == ASSUME OutboxInv, NEW r \in Relay, PublishDlqError(r) PROVE OutboxInv'
<1> USE OutboxAssumption DEF OutboxInv, PublishDlqError, NextRow, rowVars, relayVars, busVars, history
<1>1. TypeOK'
  BY DEF TypeOK, RowStatus, RelayPc, BatchShape
<1>2. BatchShape'
  BY DEF TypeOK, RowStatus, RelayPc, BatchShape
<1>3. NotInserted' /\ NeverStranded' /\ SentWasPublished' /\ PublishedInStream'
  BY DEF TypeOK, BatchShape, NotInserted, NeverStranded, SentWasPublished, PublishedInStream
<1>4. SeenIsOld' /\ BuryingExhausted' /\ DeadLetterOnlyExhausted'
  BY DEF TypeOK, BatchShape, SeenIsOld, BuryingExhausted, DeadLetterOnlyExhausted
<1>5. (stolen \subseteq retried)' /\ OneWorker'
  BY DEF TypeOK, BatchShape, OneWorker, Works
<1>6. PublishedOnce'
  BY DEF TypeOK, BatchShape, OneWorker, Works, PublishedOnce
<1> QED
  BY <1>1, <1>2, <1>3, <1>4, <1>5, <1>6
-----------------------------------------------------------------------------
LEMMA InitInv == Init => OutboxInv
  BY OutboxAssumption DEF Init, OutboxInv, TypeOK, RowStatus, RelayPc, BatchShape, NotInserted,
    NeverStranded, SentWasPublished, PublishedInStream, SeenIsOld, BuryingExhausted,
    DeadLetterOnlyExhausted, OneWorker, Works, PublishedOnce

LEMMA StutterStep == ASSUME OutboxInv, UNCHANGED vars PROVE OutboxInv'
  BY DEF vars, OutboxInv, TypeOK, BatchShape, NotInserted, NeverStranded, SentWasPublished,
    PublishedInStream, SeenIsOld, BuryingExhausted, DeadLetterOnlyExhausted, OneWorker, Works,
    PublishedOnce

LEMMA NextInv == OutboxInv /\ [Next]_vars => OutboxInv'
  BY EnqueueStep, ClaimStep, PublishStep, PublishErrorStep, MarkSentStep, MarkSentErrorStep,
     MarkFailureStep, MarkFailureErrorStep, CrashStep, PublishDlqStep, PublishDlqErrorStep,
     StutterStep
  DEF Next, RelayStep

\* OutboxInv holds in every reachable state.
THEOREM Invariance == Spec => []OutboxInv
  BY InitInv, NextInv, PTL DEF Spec

\* Every variable of the outbox keeps its type.
THEOREM TypeCorrect == Spec => []TypeOK
<1>1. OutboxInv => TypeOK
  BY DEF OutboxInv
<1> QED
  BY <1>1, Invariance, PTL

\* No event is lost as "sent": markSent follows a publish the bus stored.
THEOREM SentIsOnTheBus == Spec => []SentWasPublished
<1>1. OutboxInv => SentWasPublished
  BY DEF OutboxInv
<1> QED
  BY <1>1, Invariance, PTL

\* No event is stranded in pending or claiming.
THEOREM NothingStranded == Spec => []NeverStranded
<1>1. OutboxInv => NeverStranded
  BY DEF OutboxInv
<1> QED
  BY <1>1, Invariance, PTL

\* Concurrent cycles publish an event twice only after a failure or a repeated claim.
THEOREM ClaimsAreExclusive == Spec => []DuplicatesExplained
<1>1. OutboxInv => DuplicatesExplained
  BY DEF OutboxInv, TypeOK, PublishedOnce, DuplicatesExplained
<1> QED
  BY <1>1, Invariance, PTL

\* Dead-lettered events have used up their attempts.
THEOREM DeadLettersExhausted == Spec => []DeadLetterOnlyExhausted
<1>1. OutboxInv => DeadLetterOnlyExhausted
  BY DEF OutboxInv
<1> QED
  BY <1>1, Invariance, PTL

\* Whether an event is tried again or buried follows from its attempts alone.
THEOREM AttemptsAreDecisive == Spec => []AttemptsDecide
<1>1. NeverStranded /\ DeadLetterOnlyExhausted => AttemptsDecide
  BY DEF AttemptsDecide
<1> QED
  BY <1>1, NothingStranded, DeadLettersExhausted, PTL

\* A row that says "sent" is final while no claim on it was taken from a live cycle.
THEOREM SentStays == Spec => SentIsFinal
<1> DEFINE Final(e) == status[e] = "sent" /\ e \notin stolen => status'[e] = "sent"
<1>1. ASSUME OutboxInv, [Next]_vars, NEW e \in Event PROVE Final(e)
  <2> SUFFICES ASSUME status[e] = "sent", e \notin stolen PROVE status'[e] = "sent"
    OBVIOUS
  <2>1. \A r \in Relay : ~Works(r, e)
    BY <1>1 DEF OutboxInv, OneWorker
  <2> USE <1>1, <2>1 DEF OutboxInv, TypeOK, Works
  <2>2. CASE \E f \in Event : Enqueue(f)
    BY <2>2 DEF Enqueue
  <2>3. ASSUME NEW r \in Relay, RelayStep(r) \/ Crash(r) PROVE status'[e] = "sent"
    <3>1. CASE Claim(r)
      BY <3>1 DEF Claim, Claimable, OldClaims, StatusClaimed
    <3>2. CASE MarkSent(r) \/ MarkFailure(r)
      <4>1. cur[r] # e
        BY <3>2 DEF MarkSent, MarkFailure
      <4>2. \E s \in RowStatus : status' = [status EXCEPT ![cur[r]] = s]
        BY <3>2 DEF MarkSent, MarkFailure, StatusAfterFailure, RowStatus
      <4> QED
        BY <4>1, <4>2
    <3>3. CASE MarkSentError(r) \/ MarkFailureError(r) \/ Crash(r)
      BY <3>3 DEF MarkSentError, MarkFailureError, Crash, Abandon, rowVars
    <3>4. CASE PublishDlq(r) \/ PublishDlqError(r)
      BY <3>4 DEF PublishDlq, PublishDlqError, rowVars
    <3>5. CASE \E f \in Event : Publish(r, f) \/ PublishError(r, f)
      BY <3>5 DEF Publish, PublishError, rowVars
    <3> QED
      BY <2>3, <3>1, <3>2, <3>3, <3>4, <3>5 DEF RelayStep
  <2>4. CASE UNCHANGED vars
    BY <2>4 DEF vars
  <2> QED
    BY <1>1, <2>2, <2>3, <2>4 DEF Next
<1>2. OutboxInv /\ [Next]_vars => [\A e \in Event : Final(e)]_vars
  BY <1>1
<1> QED
  BY <1>2, Invariance, PTL DEF Spec, SentIsFinal

-----------------------------------------------------------------------------
(* The interval lock *)

TickPlace == {"off", "asking", "guarded", "cut", "alone"}

TickTypeOK ==
  /\ tick \in [Tick -> TickPlace]
  /\ runs \in [Tick -> Nat]
  /\ locked \subseteq Tick
  /\ unguarded \subseteq Tick

OneOwner == \A s, t \in locked : s = t
OwnerRuns == \A t \in locked : tick[t] = "guarded"
RunnerOwns == \A t \in Tick \ unguarded :
  /\ tick[t] = "guarded" => t \in locked
  /\ tick[t] \notin {"cut", "alone"}
RunsCounted == \A t \in Tick \ unguarded :
  /\ tick[t] = "asking" => runs[t] = 0
  /\ runs[t] <= 1

LockInv == TickTypeOK /\ OneOwner /\ OwnerRuns /\ RunnerOwns /\ RunsCounted

\* No tick runs, and none has the lock, when a behaviour begins.
LEMMA LockInit == TicksInit => LockInv
  BY DEF TicksInit, LockInv, TickTypeOK, TickPlace, OneOwner, OwnerRuns, RunnerOwns, RunsCounted

\* Each step of the scheduler, the lock and the faults keeps LockInv.
LEMMA LockStep == LockInv /\ [TicksNext]_tickVars => LockInv'
<1> SUFFICES ASSUME LockInv, [TicksNext]_tickVars PROVE LockInv'
    OBVIOUS
<1> USE DEF LockInv, TickTypeOK, TickPlace, OneOwner, OwnerRuns, RunnerOwns, RunsCounted, Goes
<1>1. ASSUME NEW t \in Tick, Fire(t) PROVE LockInv'
  BY <1>1 DEF Fire
<1>2. ASSUME NEW t \in Tick, AskLock(t) PROVE LockInv'
  <2>1. CASE locked = {}
    BY <1>2, <2>1 DEF AskLock, TryLock, Runs
  <2>2. CASE locked # {}
    BY <1>2, <2>2 DEF AskLock, TryLock, Runs
  <2>3. QED
    BY <2>1, <2>2
<1>3. ASSUME NEW t \in Tick, LockUnavailable(t) PROVE LockInv'
  BY <1>3 DEF LockUnavailable, RunsAlone, Runs
<1>4. ASSUME NEW t \in Tick, JobDone(t) PROVE LockInv'
  <2>1. CASE tick[t] = "cut"
    BY <1>4, <2>1 DEF JobDone, RunsAlone, Runs
  <2>2. CASE tick[t] # "cut"
    BY <1>4, <2>2 DEF JobDone
  <2>3. QED
    BY <2>1, <2>2
<1>5. ASSUME NEW t \in Tick, JobThrows(t) PROVE LockInv'
  <2>1. CASE tick[t] = "alone"
    BY <1>5, <2>1 DEF JobThrows
  <2>2. CASE tick[t] # "alone"
    BY <1>5, <2>2 DEF JobThrows, RunsAlone, Runs
  <2>3. QED
    BY <2>1, <2>2
<1>6. ASSUME NEW t \in Tick, ConnectionLost(t) PROVE LockInv'
  BY <1>6 DEF ConnectionLost
<1>7. ASSUME NEW t \in Tick, ReplicaDies(t) PROVE LockInv'
  BY <1>7 DEF ReplicaDies
<1>8. CASE UNCHANGED tickVars
  BY <1>8 DEF tickVars
<1>9. QED
  BY <1>1, <1>2, <1>3, <1>4, <1>5, <1>6, <1>7, <1>8 DEF TicksNext

\* If nobody runs unguarded, whoever runs has the lock, and it has one owner.
LEMMA LockOneRunner == LockInv => OneRunner
<1> SUFFICES ASSUME LockInv PROVE OneRunner
    OBVIOUS
<1>1. ASSUME Running \intersect unguarded = {} PROVE ~(Cardinality(Running) > 1)
  <2>1. Running \subseteq locked
    BY <1>1 DEF LockInv, Running, RunnerOwns
  <2>2. CASE Running = {}
    BY <2>2, FS_EmptySet
  <2>3. CASE Running # {}
    <3>1. PICK t \in Running : TRUE
      BY <2>3
    <3>2. Running = {t}
      BY <2>1, <3>1 DEF LockInv, OneOwner
    <3>3. Cardinality(Running) = 1
      BY <3>2, FS_Singleton
    <3>4. QED
      BY <3>3
  <2>4. QED
    BY <2>2, <2>3
<1>2. ASSUME NEW t \in Tick, runs[t] > 1 PROVE t \in unguarded
  BY <1>2 DEF LockInv, TickTypeOK, RunsCounted
<1>3. QED
  BY <1>1, <1>2 DEF OneRunner

\* Two runs of a periodic job overlap, or one tick runs it twice, only if one of
\* them is without the lock (pgIntervalRunner's catch).
THEOREM OneRunnerAlways == TicksSpec => []OneRunner
<1>1. TicksInit => LockInv
  BY LockInit
<1>2. LockInv /\ [TicksNext]_tickVars => LockInv'
  BY LockStep
<1>3. LockInv => OneRunner
  BY LockOneRunner
<1>4. QED
  BY <1>1, <1>2, <1>3, PTL DEF TicksSpec

-----------------------------------------------------------------------------
(* The consumer's deliveries *)

\* p handles e: it took the claim (or failed to) and has not given it back.
Handles(p, e) == loop[p] \in {"running", "committed", "failing"} /\ Env(p) = e

\* What a process has received is a message of the stream, delivered that often.
Delivered ==
  \A p \in Process : \A d \in Received(p) : d[1] \in stored /\ d[2] <= count[d[1]]

OnlySigned ==
  /\ \A p \in Process : \A e \in Unsigned : ~Handles(p, e) /\ ~(loop[p] = "released" /\ Env(p) = e)
  /\ \A e \in Unsigned : applied[e] = 0 /\ e \notin claims

HandlerClaims ==
  \A p \in Process : \A e \in Envelope \ relapsed : Handles(p, e) => e \in claims

OneHandler ==
  \A p, q \in Process : \A e \in Envelope \ relapsed : Handles(p, e) /\ Handles(q, e) => p = q

AppliedKept ==
  \A e \in Envelope \ relapsed :
    applied[e] > 0 =>
      /\ applied[e] = 1
      /\ e \in claims \union expired
      /\ \A p \in Process : Handles(p, e) => loop[p] = "committed"

ExpiredIsQuiet == \A e \in expired : Quiet(e)

BuriedWasExhausted ==
  \A e \in deadLetters \ Unsigned : \E m \in stored : m[1] = e /\ count[m] = MAX_DELIVER

DeliveryInv ==
  /\ DeliveryTypeOK
  /\ Delivered
  /\ OnlySigned
  /\ HandlerClaims
  /\ OneHandler
  /\ AppliedKept
  /\ ExpiredIsQuiet
  /\ BuriedWasExhausted

-----------------------------------------------------------------------------

\* What a process works on is a delivery of a message of an envelope.
LEMMA DeliveryParts ==
  ASSUME NEW d \in Delivery
  PROVE  d[1] \in Message /\ d[1][1] \in Envelope /\ d[2] \in 1..MAX_DELIVER /\ d # Nobody
<1> USE ConsumerAssumption
<1>1. d[1] \in Message /\ d[2] \in 1..MAX_DELIVER /\ d # Nobody
  BY DEF Delivery
<1>2. d[1][1] \in Envelope
  BY <1>1 DEF Message
<1> QED
  BY <1>1, <1>2

LEMMA Current ==
  ASSUME DeliveryTypeOK, NEW p \in Process, loop[p] # "idle"
  PROVE  /\ current[p] \in Delivery /\ current[p] # Nobody
         /\ Msg(p) \in Message /\ Env(p) \in Envelope /\ Count(p) \in 1..MAX_DELIVER
<1>1. current[p] \in Delivery /\ current[p] # Nobody
  BY DEF DeliveryTypeOK
<1> QED
  BY <1>1, DeliveryParts DEF Msg, Env, Count

LEMMA ArriveStep == ASSUME DeliveryInv, NEW m \in Message, PublishMessage(m) PROVE DeliveryInv'
<1> USE ConsumerAssumption, DeliveryParts, Current DEF DeliveryInv, PublishMessage, brokerVars, processVars, dedupeVars, outcomeVars
<1>1. DeliveryTypeOK'
  BY DEF DeliveryTypeOK, ProcessPc
<1>2. Delivered'
  BY DEF DeliveryTypeOK, Delivered, Received
<1>3. OnlySigned'
  BY DEF DeliveryTypeOK, OnlySigned, Handles, Env
<1>4. HandlerClaims' /\ OneHandler'
  BY DEF DeliveryTypeOK, HandlerClaims, OneHandler, ExpiredIsQuiet, Quiet, Received, Handles, Env
<1>5. AppliedKept'
  BY DEF DeliveryTypeOK, AppliedKept, HandlerClaims, OneHandler, ExpiredIsQuiet, Quiet, Received, Handles, Env
<1>6. ExpiredIsQuiet'
  BY DEF DeliveryTypeOK, ExpiredIsQuiet, Quiet, Received
<1>7. BuriedWasExhausted'
  BY DEF DeliveryTypeOK, BuriedWasExhausted, Delivered, Received, Env, Msg, Count
<1> QED
  BY <1>1, <1>2, <1>3, <1>4, <1>5, <1>6, <1>7

LEMMA DeliverStep == ASSUME DeliveryInv, NEW m \in Message, Deliver(m) PROVE DeliveryInv'
<1> USE ConsumerAssumption, DeliveryParts, Current DEF DeliveryInv, Deliver, CountDeliveryFault, brokerVars, processVars, dedupeVars, outcomeVars
<1>0. /\ <<m, count[m] + 1>> \in Delivery
      /\ count' \in [Message -> 0..MAX_DELIVER]
      /\ bound \in Process
  BY DEF DeliveryTypeOK, Delivery
<1>1. DeliveryTypeOK'
  BY <1>0 DEF DeliveryTypeOK, ProcessPc
<1>2. Delivered'
  BY DEF DeliveryTypeOK, Delivered, Received
<1>3. OnlySigned'
  BY DEF DeliveryTypeOK, OnlySigned, Handles, Env
<1>4. HandlerClaims' /\ OneHandler'
  BY DEF DeliveryTypeOK, HandlerClaims, OneHandler, ExpiredIsQuiet, Quiet, Received, Handles, Env
<1>5. AppliedKept'
  BY DEF DeliveryTypeOK, AppliedKept, HandlerClaims, OneHandler, ExpiredIsQuiet, Quiet, Received, Handles, Env
<1>6. ExpiredIsQuiet'
  BY DEF DeliveryTypeOK, ExpiredIsQuiet, Quiet, Received
<1>7. BuriedWasExhausted'
  BY DEF DeliveryTypeOK, BuriedWasExhausted, Delivered, Received, Env, Msg, Count
<1> QED
  BY <1>1, <1>2, <1>3, <1>4, <1>5, <1>6, <1>7

LEMMA BindStep == ASSUME DeliveryInv, NEW p \in Process, Bind(p) PROVE DeliveryInv'
<1> USE ConsumerAssumption, DeliveryParts, Current DEF DeliveryInv, Bind, brokerVars, processVars, dedupeVars, outcomeVars
<1>1. DeliveryTypeOK'
  BY DEF DeliveryTypeOK, ProcessPc
<1>2. Delivered'
  BY DEF DeliveryTypeOK, Delivered, Received
<1>3. OnlySigned'
  BY DEF DeliveryTypeOK, OnlySigned, Handles, Env
<1>4. HandlerClaims' /\ OneHandler'
  BY DEF DeliveryTypeOK, HandlerClaims, OneHandler, ExpiredIsQuiet, Quiet, Received, Handles, Env
<1>5. AppliedKept'
  BY DEF DeliveryTypeOK, AppliedKept, HandlerClaims, OneHandler, ExpiredIsQuiet, Quiet, Received, Handles, Env
<1>6. ExpiredIsQuiet'
  BY DEF DeliveryTypeOK, ExpiredIsQuiet, Quiet, Received
<1>7. BuriedWasExhausted'
  BY DEF DeliveryTypeOK, BuriedWasExhausted, Delivered, Received, Env, Msg, Count
<1> QED
  BY <1>1, <1>2, <1>3, <1>4, <1>5, <1>6, <1>7

LEMMA RebindStep == ASSUME DeliveryInv, NEW p \in Process, Rebind(p) PROVE DeliveryInv'
<1> USE ConsumerAssumption, DeliveryParts, Current DEF DeliveryInv, Rebind, CountDeliveryFault, brokerVars, processVars, dedupeVars, outcomeVars
<1>1. DeliveryTypeOK'
  BY DEF DeliveryTypeOK, ProcessPc
<1>2. Delivered'
  BY DEF DeliveryTypeOK, Delivered, Received
<1>3. OnlySigned'
  BY DEF DeliveryTypeOK, OnlySigned, Handles, Env
<1>4. HandlerClaims' /\ OneHandler'
  BY DEF DeliveryTypeOK, HandlerClaims, OneHandler, ExpiredIsQuiet, Quiet, Received, Handles, Env
<1>5. AppliedKept'
  BY DEF DeliveryTypeOK, AppliedKept, HandlerClaims, OneHandler, ExpiredIsQuiet, Quiet, Received, Handles, Env
<1>6. ExpiredIsQuiet'
  BY DEF DeliveryTypeOK, ExpiredIsQuiet, Quiet, Received
<1>7. BuriedWasExhausted'
  BY DEF DeliveryTypeOK, BuriedWasExhausted, Delivered, Received, Env, Msg, Count
<1> QED
  BY <1>1, <1>2, <1>3, <1>4, <1>5, <1>6, <1>7

LEMMA ProcessDiesStep == ASSUME DeliveryInv, NEW p \in Process, ProcessCrash(p) PROVE DeliveryInv'
<1> USE ConsumerAssumption, DeliveryParts, Current DEF DeliveryInv, ProcessCrash, CountDeliveryFault, InHandler, LastDeliveries, brokerVars, processVars, dedupeVars, outcomeVars
<1>0. \A d \in LastDeliveries(p) : d[1][1] \in Envelope
  BY DEF DeliveryTypeOK, Received
<1>1. DeliveryTypeOK'
  BY <1>0 DEF DeliveryTypeOK, ProcessPc
<1>2. Delivered'
  BY DEF DeliveryTypeOK, Delivered, Received
<1>3. OnlySigned'
  BY DEF DeliveryTypeOK, OnlySigned, Handles, Env
<1>4. HandlerClaims' /\ OneHandler'
  BY DEF DeliveryTypeOK, HandlerClaims, OneHandler, ExpiredIsQuiet, Quiet, Received, Handles, Env
<1>5. AppliedKept'
  BY DEF DeliveryTypeOK, AppliedKept, HandlerClaims, OneHandler, ExpiredIsQuiet, Quiet, Received, Handles, Env
<1>6. ExpiredIsQuiet'
  BY DEF DeliveryTypeOK, ExpiredIsQuiet, Quiet, Received
<1>7. BuriedWasExhausted'
  BY DEF DeliveryTypeOK, BuriedWasExhausted, Delivered, Received, Env, Msg, Count
<1> QED
  BY <1>1, <1>2, <1>3, <1>4, <1>5, <1>6, <1>7

LEMMA EvictStep == ASSUME DeliveryInv, NEW p \in Process, Evict(p) PROVE DeliveryInv'
<1> USE ConsumerAssumption, DeliveryParts, Current DEF DeliveryInv, Evict, brokerVars, processVars, dedupeVars, outcomeVars
<1>1. DeliveryTypeOK'
  BY DEF DeliveryTypeOK, ProcessPc
<1>2. Delivered'
  BY DEF DeliveryTypeOK, Delivered, Received
<1>3. OnlySigned'
  BY DEF DeliveryTypeOK, OnlySigned, Handles, Env
<1>4. HandlerClaims' /\ OneHandler'
  BY DEF DeliveryTypeOK, HandlerClaims, OneHandler, ExpiredIsQuiet, Quiet, Received, Handles, Env
<1>5. AppliedKept'
  BY DEF DeliveryTypeOK, AppliedKept, HandlerClaims, OneHandler, ExpiredIsQuiet, Quiet, Received, Handles, Env
<1>6. ExpiredIsQuiet'
  BY DEF DeliveryTypeOK, ExpiredIsQuiet, Quiet, Received
<1>7. BuriedWasExhausted'
  BY DEF DeliveryTypeOK, BuriedWasExhausted, Delivered, Received, Env, Msg, Count
<1> QED
  BY <1>1, <1>2, <1>3, <1>4, <1>5, <1>6, <1>7

LEMMA ReceiveStep == ASSUME DeliveryInv, NEW p \in Process, Receive(p) PROVE DeliveryInv'
<1> USE ConsumerAssumption, DeliveryParts, Current DEF DeliveryInv, Receive, Goto, brokerVars, processVars, dedupeVars, outcomeVars
<1>1. DeliveryTypeOK'
  BY DEF DeliveryTypeOK, ProcessPc
<1>2. Delivered'
  BY DEF DeliveryTypeOK, Delivered, Received
<1>3. OnlySigned'
  BY DEF DeliveryTypeOK, OnlySigned, Handles, Env
<1>4. HandlerClaims' /\ OneHandler'
  BY DEF DeliveryTypeOK, HandlerClaims, OneHandler, ExpiredIsQuiet, Quiet, Received, Handles, Env
<1>5. AppliedKept'
  BY DEF DeliveryTypeOK, AppliedKept, HandlerClaims, OneHandler, ExpiredIsQuiet, Quiet, Received, Handles, Env
<1>6. ExpiredIsQuiet'
  BY DEF DeliveryTypeOK, ExpiredIsQuiet, Quiet, Received
<1>7. BuriedWasExhausted'
  BY DEF DeliveryTypeOK, BuriedWasExhausted, Delivered, Received, Env, Msg, Count
<1> QED
  BY <1>1, <1>2, <1>3, <1>4, <1>5, <1>6, <1>7

LEMMA RejectUnsignedStep == ASSUME DeliveryInv, NEW p \in Process, RejectUnsigned(p) PROVE DeliveryInv'
<1> USE ConsumerAssumption, DeliveryParts, Current DEF DeliveryInv, RejectUnsigned, DeadLetter, CountDeliveryFault, Goto, brokerVars, processVars, dedupeVars, outcomeVars
<1>1. DeliveryTypeOK'
  BY DEF DeliveryTypeOK, ProcessPc
<1>2. Delivered'
  BY DEF DeliveryTypeOK, Delivered, Received
<1>3. OnlySigned'
  BY DEF DeliveryTypeOK, OnlySigned, Handles, Env
<1>4. HandlerClaims' /\ OneHandler'
  BY DEF DeliveryTypeOK, HandlerClaims, OneHandler, ExpiredIsQuiet, Quiet, Received, Handles, Env
<1>5. AppliedKept'
  BY DEF DeliveryTypeOK, AppliedKept, HandlerClaims, OneHandler, ExpiredIsQuiet, Quiet, Received, Handles, Env
<1>6. ExpiredIsQuiet'
  BY DEF DeliveryTypeOK, ExpiredIsQuiet, Quiet, Received
<1>7. BuriedWasExhausted'
  BY DEF DeliveryTypeOK, BuriedWasExhausted, Delivered, Received, Env, Msg, Count
<1> QED
  BY <1>1, <1>2, <1>3, <1>4, <1>5, <1>6, <1>7

LEMMA TakeStep == ASSUME DeliveryInv, NEW p \in Process, Take(p) PROVE DeliveryInv'
<1> USE ConsumerAssumption, DeliveryParts, Current DEF DeliveryInv, Take, NewClaim, Goto, brokerVars, processVars, dedupeVars, outcomeVars
<1>1. DeliveryTypeOK'
  BY DEF DeliveryTypeOK, ProcessPc
<1>2. Delivered'
  BY DEF DeliveryTypeOK, Delivered, Received
<1>3. OnlySigned'
  BY DEF DeliveryTypeOK, OnlySigned, Handles, Env
<1>4. HandlerClaims' /\ OneHandler'
  BY DEF DeliveryTypeOK, HandlerClaims, OneHandler, ExpiredIsQuiet, Quiet, Received, Handles, Env
<1>5. AppliedKept'
  BY DEF DeliveryTypeOK, AppliedKept, HandlerClaims, OneHandler, ExpiredIsQuiet, Quiet, Received, Handles, Env
<1>6. ExpiredIsQuiet'
  BY DEF DeliveryTypeOK, ExpiredIsQuiet, Quiet, Received
<1>7. BuriedWasExhausted'
  BY DEF DeliveryTypeOK, BuriedWasExhausted, Delivered, Received, Env, Msg, Count
<1> QED
  BY <1>1, <1>2, <1>3, <1>4, <1>5, <1>6, <1>7

LEMMA TakeFalseStep == ASSUME DeliveryInv, NEW p \in Process, TakeFalse(p) PROVE DeliveryInv'
<1> USE ConsumerAssumption, DeliveryParts, Current DEF DeliveryInv, TakeFalse, Goto, brokerVars, processVars, dedupeVars, outcomeVars
<1>1. DeliveryTypeOK'
  BY DEF DeliveryTypeOK, ProcessPc
<1>2. Delivered'
  BY DEF DeliveryTypeOK, Delivered, Received
<1>3. OnlySigned'
  BY DEF DeliveryTypeOK, OnlySigned, Handles, Env
<1>4. HandlerClaims' /\ OneHandler'
  BY DEF DeliveryTypeOK, HandlerClaims, OneHandler, ExpiredIsQuiet, Quiet, Received, Handles, Env
<1>5. AppliedKept'
  BY DEF DeliveryTypeOK, AppliedKept, HandlerClaims, OneHandler, ExpiredIsQuiet, Quiet, Received, Handles, Env
<1>6. ExpiredIsQuiet'
  BY DEF DeliveryTypeOK, ExpiredIsQuiet, Quiet, Received
<1>7. BuriedWasExhausted'
  BY DEF DeliveryTypeOK, BuriedWasExhausted, Delivered, Received, Env, Msg, Count
<1> QED
  BY <1>1, <1>2, <1>3, <1>4, <1>5, <1>6, <1>7

LEMMA TakeErrorStep == ASSUME DeliveryInv, NEW p \in Process, TakeError(p) PROVE DeliveryInv'
<1> USE ConsumerAssumption, DeliveryParts, Current DEF DeliveryInv, TakeError, CountDeliveryFault, Goto, brokerVars, processVars, dedupeVars, outcomeVars
<1>1. DeliveryTypeOK'
  BY DEF DeliveryTypeOK, ProcessPc
<1>2. Delivered'
  BY DEF DeliveryTypeOK, Delivered, Received
<1>3. OnlySigned'
  BY DEF DeliveryTypeOK, OnlySigned, Handles, Env
<1>4. HandlerClaims' /\ OneHandler'
  BY DEF DeliveryTypeOK, HandlerClaims, OneHandler, ExpiredIsQuiet, Quiet, Received, Handles, Env
<1>5. AppliedKept'
  BY DEF DeliveryTypeOK, AppliedKept, HandlerClaims, OneHandler, ExpiredIsQuiet, Quiet, Received, Handles, Env
<1>6. ExpiredIsQuiet'
  BY DEF DeliveryTypeOK, ExpiredIsQuiet, Quiet, Received
<1>7. BuriedWasExhausted'
  BY DEF DeliveryTypeOK, BuriedWasExhausted, Delivered, Received, Env, Msg, Count
<1> QED
  BY <1>1, <1>2, <1>3, <1>4, <1>5, <1>6, <1>7

LEMMA ApplyStep == ASSUME DeliveryInv, NEW p \in Process, Apply(p) PROVE DeliveryInv'
<1> USE ConsumerAssumption, DeliveryParts, Current DEF DeliveryInv, Apply, Goto, brokerVars, processVars, dedupeVars, outcomeVars
<1>1. DeliveryTypeOK'
  BY DEF DeliveryTypeOK, ProcessPc
<1>2. Delivered'
  BY DEF DeliveryTypeOK, Delivered, Received
<1>3. OnlySigned'
  BY DEF DeliveryTypeOK, OnlySigned, Handles, Env
<1>4. HandlerClaims' /\ OneHandler'
  BY DEF DeliveryTypeOK, HandlerClaims, OneHandler, ExpiredIsQuiet, Quiet, Received, Handles, Env
<1>5. AppliedKept'
  BY DEF DeliveryTypeOK, AppliedKept, HandlerClaims, OneHandler, ExpiredIsQuiet, Quiet, Received, Handles, Env
<1>6. ExpiredIsQuiet'
  BY DEF DeliveryTypeOK, ExpiredIsQuiet, Quiet, Received
<1>7. BuriedWasExhausted'
  BY DEF DeliveryTypeOK, BuriedWasExhausted, Delivered, Received, Env, Msg, Count
<1> QED
  BY <1>1, <1>2, <1>3, <1>4, <1>5, <1>6, <1>7

LEMMA ThrowBeforeStep == ASSUME DeliveryInv, NEW p \in Process, ThrowBefore(p) PROVE DeliveryInv'
<1> USE ConsumerAssumption, DeliveryParts, Current DEF DeliveryInv, ThrowBefore, CountDeliveryFault, Goto, brokerVars, processVars, dedupeVars, outcomeVars
<1>1. DeliveryTypeOK'
  BY DEF DeliveryTypeOK, ProcessPc
<1>2. Delivered'
  BY DEF DeliveryTypeOK, Delivered, Received
<1>3. OnlySigned'
  BY DEF DeliveryTypeOK, OnlySigned, Handles, Env
<1>4. HandlerClaims' /\ OneHandler'
  BY DEF DeliveryTypeOK, HandlerClaims, OneHandler, ExpiredIsQuiet, Quiet, Received, Handles, Env
<1>5. AppliedKept'
  BY DEF DeliveryTypeOK, AppliedKept, HandlerClaims, OneHandler, ExpiredIsQuiet, Quiet, Received, Handles, Env
<1>6. ExpiredIsQuiet'
  BY DEF DeliveryTypeOK, ExpiredIsQuiet, Quiet, Received
<1>7. BuriedWasExhausted'
  BY DEF DeliveryTypeOK, BuriedWasExhausted, Delivered, Received, Env, Msg, Count
<1> QED
  BY <1>1, <1>2, <1>3, <1>4, <1>5, <1>6, <1>7

LEMMA ReturnStep == ASSUME DeliveryInv, NEW p \in Process, Return(p) PROVE DeliveryInv'
<1> USE ConsumerAssumption, DeliveryParts, Current DEF DeliveryInv, Return, Goto, brokerVars, processVars, dedupeVars, outcomeVars
<1>1. DeliveryTypeOK'
  BY DEF DeliveryTypeOK, ProcessPc
<1>2. Delivered'
  BY DEF DeliveryTypeOK, Delivered, Received
<1>3. OnlySigned'
  BY DEF DeliveryTypeOK, OnlySigned, Handles, Env
<1>4. HandlerClaims' /\ OneHandler'
  BY DEF DeliveryTypeOK, HandlerClaims, OneHandler, ExpiredIsQuiet, Quiet, Received, Handles, Env
<1>5. AppliedKept'
  BY DEF DeliveryTypeOK, AppliedKept, HandlerClaims, OneHandler, ExpiredIsQuiet, Quiet, Received, Handles, Env
<1>6. ExpiredIsQuiet'
  BY DEF DeliveryTypeOK, ExpiredIsQuiet, Quiet, Received
<1>7. BuriedWasExhausted'
  BY DEF DeliveryTypeOK, BuriedWasExhausted, Delivered, Received, Env, Msg, Count
<1> QED
  BY <1>1, <1>2, <1>3, <1>4, <1>5, <1>6, <1>7

LEMMA ThrowAfterStep == ASSUME DeliveryInv, NEW p \in Process, ThrowAfter(p) PROVE DeliveryInv'
<1> USE ConsumerAssumption, DeliveryParts, Current DEF DeliveryInv, ThrowAfter, CountDeliveryFault, Goto, brokerVars, processVars, dedupeVars, outcomeVars
<1>1. DeliveryTypeOK'
  BY DEF DeliveryTypeOK, ProcessPc
<1>2. Delivered'
  BY DEF DeliveryTypeOK, Delivered, Received
<1>3. OnlySigned'
  BY DEF DeliveryTypeOK, OnlySigned, Handles, Env
<1>4. HandlerClaims' /\ OneHandler'
  BY DEF DeliveryTypeOK, HandlerClaims, OneHandler, ExpiredIsQuiet, Quiet, Received, Handles, Env
<1>5. AppliedKept'
  BY DEF DeliveryTypeOK, AppliedKept, HandlerClaims, OneHandler, ExpiredIsQuiet, Quiet, Received, Handles, Env
<1>6. ExpiredIsQuiet'
  BY DEF DeliveryTypeOK, ExpiredIsQuiet, Quiet, Received
<1>7. BuriedWasExhausted'
  BY DEF DeliveryTypeOK, BuriedWasExhausted, Delivered, Received, Env, Msg, Count
<1> QED
  BY <1>1, <1>2, <1>3, <1>4, <1>5, <1>6, <1>7

LEMMA ReleaseStep == ASSUME DeliveryInv, NEW p \in Process, Release(p) PROVE DeliveryInv'
<1> USE ConsumerAssumption, DeliveryParts, Current DEF DeliveryInv, Release, ClaimDeleted, CountDeliveryFault, Goto, brokerVars, processVars, dedupeVars, outcomeVars
<1>1. DeliveryTypeOK'
  BY DEF DeliveryTypeOK, ProcessPc
<1>2. Delivered'
  BY DEF DeliveryTypeOK, Delivered, Received
<1>3. OnlySigned'
  BY DEF DeliveryTypeOK, OnlySigned, Handles, Env
<1>4. HandlerClaims' /\ OneHandler'
  BY DEF DeliveryTypeOK, HandlerClaims, OneHandler, ExpiredIsQuiet, Quiet, Received, Handles, Env
<1>5. AppliedKept'
  BY DEF DeliveryTypeOK, AppliedKept, HandlerClaims, OneHandler, ExpiredIsQuiet, Quiet, Received, Handles, Env
<1>6. ExpiredIsQuiet'
  BY DEF DeliveryTypeOK, ExpiredIsQuiet, Quiet, Received
<1>7. BuriedWasExhausted'
  BY DEF DeliveryTypeOK, BuriedWasExhausted, Delivered, Received, Env, Msg, Count
<1> QED
  BY <1>1, <1>2, <1>3, <1>4, <1>5, <1>6, <1>7

LEMMA ExhaustStep == ASSUME DeliveryInv, NEW p \in Process, Exhaust(p) PROVE DeliveryInv'
<1> USE ConsumerAssumption, DeliveryParts, Current DEF DeliveryInv, Exhaust, LastDelivery, DeadLetter, CountDeliveryFault, Goto, brokerVars, processVars, dedupeVars, outcomeVars
<1>1. DeliveryTypeOK'
  BY DEF DeliveryTypeOK, ProcessPc
<1>2. Delivered'
  BY DEF DeliveryTypeOK, Delivered, Received
<1>3. OnlySigned'
  BY DEF DeliveryTypeOK, OnlySigned, Handles, Env
<1>4. HandlerClaims' /\ OneHandler'
  BY DEF DeliveryTypeOK, HandlerClaims, OneHandler, ExpiredIsQuiet, Quiet, Received, Handles, Env
<1>5. AppliedKept'
  BY DEF DeliveryTypeOK, AppliedKept, HandlerClaims, OneHandler, ExpiredIsQuiet, Quiet, Received, Handles, Env
<1>6. ExpiredIsQuiet'
  BY DEF DeliveryTypeOK, ExpiredIsQuiet, Quiet, Received
<1>0. Msg(p) \in stored /\ Msg(p)[1] = Env(p) /\ count[Msg(p)] = MAX_DELIVER
  <2>1. Msg(p) \in stored /\ Msg(p)[1] = Env(p) /\ Count(p) <= count[Msg(p)]
    BY DEF DeliveryTypeOK, Delivered, Received, Env, Msg, Count
  <2>2. count[Msg(p)] \in 0..MAX_DELIVER /\ Count(p) \in 1..MAX_DELIVER
    BY DEF DeliveryTypeOK
  <2> QED
    BY <2>1, <2>2
<1>7. BuriedWasExhausted'
  BY <1>0 DEF DeliveryTypeOK, BuriedWasExhausted
<1> QED
  BY <1>1, <1>2, <1>3, <1>4, <1>5, <1>6, <1>7

LEMMA NakStep == ASSUME DeliveryInv, NEW p \in Process, Nak(p) PROVE DeliveryInv'
<1> USE ConsumerAssumption, DeliveryParts, Current DEF DeliveryInv, Nak, NextDelivery, Goto, brokerVars, processVars, dedupeVars, outcomeVars
<1>1. DeliveryTypeOK'
  BY DEF DeliveryTypeOK, ProcessPc
<1>2. Delivered'
  BY DEF DeliveryTypeOK, Delivered, Received
<1>3. OnlySigned'
  BY DEF DeliveryTypeOK, OnlySigned, Handles, Env
<1>4. HandlerClaims' /\ OneHandler'
  BY DEF DeliveryTypeOK, HandlerClaims, OneHandler, ExpiredIsQuiet, Quiet, Received, Handles, Env
<1>5. AppliedKept'
  BY DEF DeliveryTypeOK, AppliedKept, HandlerClaims, OneHandler, ExpiredIsQuiet, Quiet, Received, Handles, Env
<1>6. ExpiredIsQuiet'
  BY DEF DeliveryTypeOK, ExpiredIsQuiet, Quiet, Received
<1>7. BuriedWasExhausted'
  BY DEF DeliveryTypeOK, BuriedWasExhausted, Delivered, Received, Env, Msg, Count
<1> QED
  BY <1>1, <1>2, <1>3, <1>4, <1>5, <1>6, <1>7

LEMMA AckStep == ASSUME DeliveryInv, NEW p \in Process, Ack(p) PROVE DeliveryInv'
<1> USE ConsumerAssumption, DeliveryParts, Current DEF DeliveryInv, Ack, CountDeliveryFault, NextDelivery, Goto, brokerVars, processVars, dedupeVars, outcomeVars
<1>0. Msg(p) \in stored
  BY DEF DeliveryTypeOK, Delivered, Received, Msg
<1>1. DeliveryTypeOK'
  BY <1>0 DEF DeliveryTypeOK, ProcessPc
<1>2. Delivered'
  BY DEF DeliveryTypeOK, Delivered, Received
<1>3. OnlySigned'
  BY DEF DeliveryTypeOK, OnlySigned, Handles, Env
<1>4. HandlerClaims' /\ OneHandler'
  BY DEF DeliveryTypeOK, HandlerClaims, OneHandler, ExpiredIsQuiet, Quiet, Received, Handles, Env
<1>5. AppliedKept'
  BY DEF DeliveryTypeOK, AppliedKept, HandlerClaims, OneHandler, ExpiredIsQuiet, Quiet, Received, Handles, Env
<1>6. ExpiredIsQuiet'
  BY DEF DeliveryTypeOK, ExpiredIsQuiet, Quiet, Received
<1>7. BuriedWasExhausted'
  BY DEF DeliveryTypeOK, BuriedWasExhausted, Delivered, Received, Env, Msg, Count
<1> QED
  BY <1>1, <1>2, <1>3, <1>4, <1>5, <1>6, <1>7

LEMMA SweepStep == ASSUME DeliveryInv, NEW e \in Envelope, Sweep(e) PROVE DeliveryInv'
<1> USE ConsumerAssumption, DeliveryParts, Current DEF DeliveryInv, Sweep, brokerVars, processVars, dedupeVars, outcomeVars
<1>1. DeliveryTypeOK'
  BY DEF DeliveryTypeOK, ProcessPc
<1>2. Delivered'
  BY DEF DeliveryTypeOK, Delivered, Received
<1>3. OnlySigned'
  BY DEF DeliveryTypeOK, OnlySigned, Handles, Env
<1>4. HandlerClaims' /\ OneHandler'
  BY DEF DeliveryTypeOK, HandlerClaims, OneHandler, ExpiredIsQuiet, Quiet, Received, Handles, Env
<1>5. AppliedKept'
  BY DEF DeliveryTypeOK, AppliedKept, HandlerClaims, OneHandler, ExpiredIsQuiet, Quiet, Received, Handles, Env
<1>6. ExpiredIsQuiet'
  BY DEF DeliveryTypeOK, ExpiredIsQuiet, Quiet, Received
<1>7. BuriedWasExhausted'
  BY DEF DeliveryTypeOK, BuriedWasExhausted, Delivered, Received, Env, Msg, Count
<1> QED
  BY <1>1, <1>2, <1>3, <1>4, <1>5, <1>6, <1>7


-----------------------------------------------------------------------------
LEMMA DeliveryInvInit == DeliveryInit => DeliveryInv
<1> SUFFICES ASSUME DeliveryInit PROVE DeliveryInv
  OBVIOUS
<1> USE ConsumerAssumption DEF DeliveryInit
<1>1. DeliveryTypeOK
  <2>1. 0 \in 0..MAX_DELIVER /\ 0 \in 0..MaxDeliveryFaults
    OBVIOUS
  <2>2. \A p \in Process : current[p] = Nobody <=> loop[p] = "idle"
    OBVIOUS
  <2> QED
    BY <2>1, <2>2 DEF DeliveryTypeOK, ProcessPc
<1>2. Delivered /\ OnlySigned /\ HandlerClaims /\ OneHandler
  BY DEF Delivered, Received, OnlySigned, HandlerClaims, OneHandler, Handles
<1>3. AppliedKept /\ ExpiredIsQuiet /\ BuriedWasExhausted
  BY DEF AppliedKept, ExpiredIsQuiet, BuriedWasExhausted
<1> QED
  BY <1>1, <1>2, <1>3 DEF DeliveryInv

LEMMA SameDelivery == DeliveryInv /\ UNCHANGED deliveryVars => DeliveryInv'
BY DEF DeliveryInv, deliveryVars, DeliveryTypeOK, Delivered, Received, OnlySigned, HandlerClaims, OneHandler, AppliedKept,
       ExpiredIsQuiet, Quiet, BuriedWasExhausted, Handles, Env

LEMMA DeliveryInvStep == DeliveryInv /\ [DeliveryNext]_deliveryVars => DeliveryInv'
<1> SUFFICES ASSUME DeliveryInv, [DeliveryNext]_deliveryVars PROVE DeliveryInv'
  OBVIOUS
<1>1. CASE UNCHANGED deliveryVars
  BY <1>1, SameDelivery
<1>2. ASSUME NEW m \in Message, PublishMessage(m) \/ Deliver(m) PROVE DeliveryInv'
  BY <1>2, ArriveStep, DeliverStep
<1>3. ASSUME NEW p \in Process, Bind(p) \/ Rebind(p) \/ ProcessCrash(p) \/ Evict(p) PROVE DeliveryInv'
  BY <1>3, BindStep, RebindStep, ProcessDiesStep, EvictStep
<1>4. ASSUME NEW p \in Process, LoopStep(p) PROVE DeliveryInv'
  BY <1>4, ReceiveStep, RejectUnsignedStep, TakeStep, TakeFalseStep, TakeErrorStep, ApplyStep,
     ThrowBeforeStep, ReturnStep, ThrowAfterStep, ReleaseStep, ExhaustStep, NakStep, AckStep
     DEF LoopStep
<1>5. ASSUME NEW e \in Envelope, Sweep(e) PROVE DeliveryInv'
  BY <1>5, SweepStep
<1> QED
  BY <1>1, <1>2, <1>3, <1>4, <1>5 DEF DeliveryNext

\* The invariant of the argument above holds in every behaviour.
THEOREM DeliveryInvariance == DeliverySpec => []DeliveryInv
BY DeliveryInvInit, DeliveryInvStep, PTL DEF DeliverySpec

\* Every variable of the consumer keeps its type.
THEOREM DeliveryTypeCorrect == DeliverySpec => []DeliveryTypeOK
<1>1. DeliveryInv => DeliveryTypeOK
  BY DEF DeliveryInv
<1> QED
  BY <1>1, DeliveryInvariance, PTL

\* take() is exactly once: the effects of an envelope are committed once, however
\* often it is published or delivered, unless its claim was wrongly given back.
THEOREM EffectsOnce == DeliverySpec => []AppliedOnce
<1>1. DeliveryInv => AppliedOnce
  <2> SUFFICES ASSUME DeliveryInv, NEW e \in Envelope \ relapsed PROVE applied[e] <= 1
    BY DEF AppliedOnce
  <2>1. applied[e] \in Nat
    BY DEF DeliveryInv, DeliveryTypeOK
  <2>2. applied[e] > 0 => applied[e] = 1
    BY DEF DeliveryInv, AppliedKept
  <2> QED
    BY <2>1, <2>2
<1> QED
  BY <1>1, DeliveryInvariance, PTL

\* Forged envelopes are never handled, and no other is dead-lettered while the
\* broker would still deliver it.
THEOREM DeadLettersAreJustified == DeliverySpec => []DeadLetterJustified
<1>1. DeliveryInv => DeadLetterJustified
  BY DEF DeliveryInv, OnlySigned, BuriedWasExhausted, DeadLetterJustified, MessagesOf
<1> QED
  BY <1>1, DeliveryInvariance, PTL

-----------------------------------------------------------------------------
(***************************************************************************)
(* No envelope is lost silently.  Of an envelope that nothing has come of, *)
(* every claim and every cache entry belongs to a process at work on it,   *)
(* so a delivery that is passed over is one of two; the other one's        *)
(* message is of a consumer that is gone, and can not be acknowledged.     *)
(***************************************************************************)
Done(e) == applied[e] > 0 \/ e \in deadLetters \union dlqLost \union orphaned

\* one of its messages will never be acknowledged
Cut(e) == \E m \in MessagesOf(e) : m \in gone \ acked

CommittedIsApplied == \A p \in Process : loop[p] = "committed" => applied[Env(p)] > 0
CacheIsHandled == \A p \in Process : \A e \in cache[p] : Done(e) \/ InHandler(p, e)
ClaimIsHandled == \A e \in claims : Done(e) \/ \E p \in Process : InHandler(p, e)
OldIsGone == \A p \in Process : p # bound => \A d \in Received(p) : d[1] \in gone
AckedIsDone == \A e \in Envelope :
  (\E m \in MessagesOf(e) : m \in acked) \/ (\E p \in Process : loop[p] = "acking" /\ Env(p) = e)
    => Done(e) \/ Cut(e)

LossInv == CommittedIsApplied /\ CacheIsHandled /\ ClaimIsHandled /\ OldIsGone /\ AckedIsDone

\* What a step of a process's loop leaves to the others.
LEMMA LoopIsOwn ==
  ASSUME DeliveryTypeOK, NEW p \in Process, LoopStep(p)
  PROVE  /\ \A q \in Process \ {p} : /\ loop'[q] = loop[q] /\ current'[q] = current[q]
                                     /\ cache'[q] = cache[q] /\ buffer'[q] = buffer[q]
         /\ UNCHANGED <<stored, gone, count, bound, expired>>
<1>1. CASE Receive(p) \/ RejectUnsigned(p) \/ Take(p) \/ TakeFalse(p) \/ TakeError(p)
  BY <1>1 DEF DeliveryTypeOK, Receive, RejectUnsigned, Take, TakeFalse, TakeError, Goto, brokerVars, dedupeVars
<1>2. CASE Apply(p) \/ ThrowBefore(p) \/ Return(p) \/ ThrowAfter(p)
  BY <1>2 DEF DeliveryTypeOK, Apply, ThrowBefore, Return, ThrowAfter, Goto, brokerVars, dedupeVars
<1>3. CASE Release(p) \/ Exhaust(p) \/ Nak(p) \/ Ack(p)
  BY <1>3 DEF DeliveryTypeOK, Release, Exhaust, Nak, Ack, Goto, NextDelivery, brokerVars, dedupeVars
<1> QED BY <1>1, <1>2, <1>3 DEF LoopStep

\* What has come of an envelope stays.
LEMMA DoneStays ==
  ASSUME DeliveryTypeOK, [DeliveryNext]_deliveryVars, NEW e \in Envelope, Done(e)
  PROVE  Done(e)'
<1>0. applied[e] \in Nat
  BY DEF DeliveryTypeOK
<1>1. ASSUME NEW p \in Process, LoopStep(p) PROVE Done(e)'
  <2>1. CASE Apply(p)
    <3>1. applied'[e] \in {applied[e], applied[e] + 1} /\ UNCHANGED <<deadLetters, dlqLost, orphaned>>
      BY <2>1 DEF Apply, DeliveryTypeOK
    <3> QED BY <1>0, <3>1 DEF Done
  <2>2. CASE ~Apply(p)
    <3>1. applied' = applied /\ deadLetters \subseteq deadLetters' /\ dlqLost \subseteq dlqLost' /\ orphaned \subseteq orphaned'
      BY <1>1, <2>2 DEF LoopStep, Receive, RejectUnsigned, Take, TakeFalse, TakeError, ThrowBefore, Return, ThrowAfter, Release,
         Exhaust, Nak, Ack, DeadLetter, outcomeVars
    <3> QED BY <3>1 DEF Done
  <2> QED BY <2>1, <2>2
<1>2. CASE \/ \E m \in Message : PublishMessage(m) \/ Deliver(m)
           \/ \E p \in Process : Bind(p) \/ Rebind(p) \/ ProcessCrash(p) \/ Evict(p)
           \/ \E x \in Envelope : Sweep(x)
           \/ UNCHANGED deliveryVars
  <2>1. applied' = applied /\ deadLetters' = deadLetters /\ dlqLost' = dlqLost /\ orphaned \subseteq orphaned'
    BY <1>2 DEF PublishMessage, Deliver, Bind, Rebind, ProcessCrash, Evict, Sweep, outcomeVars, deliveryVars
  <2> QED BY <2>1 DEF Done
<1> QED BY <1>1, <1>2 DEF DeliveryNext

\* A message that can not be acknowledged any more never is.
LEMMA CutStays ==
  ASSUME DeliveryTypeOK, [DeliveryNext]_deliveryVars, NEW e \in Envelope, Cut(e)
  PROVE  Cut(e)'
<1>1. stored \subseteq stored' /\ gone \subseteq gone' /\ \A m \in gone : m \in acked' => m \in acked
  <2>1. ASSUME NEW p \in Process, LoopStep(p)
        PROVE  stored' = stored /\ gone' = gone /\ \A m \in gone : m \in acked' => m \in acked
    BY <2>1 DEF LoopStep, Receive, RejectUnsigned, Take, TakeFalse, TakeError, Apply, ThrowBefore, Return,
         ThrowAfter, Release, Exhaust, Nak, Ack, brokerVars
  <2>2. CASE \/ \E m \in Message : PublishMessage(m) \/ Deliver(m)
             \/ \E p \in Process : Bind(p) \/ Rebind(p) \/ ProcessCrash(p) \/ Evict(p)
             \/ \E x \in Envelope : Sweep(x)
             \/ UNCHANGED deliveryVars
    BY <2>2 DEF PublishMessage, Deliver, Bind, Rebind, ProcessCrash, Evict, Sweep, brokerVars, deliveryVars, DeliveryTypeOK
  <2> QED BY <2>1, <2>2 DEF DeliveryNext
<1> QED BY <1>1 DEF Cut, MessagesOf

\* A process's loop.
LEMMA LossLoop ==
  ASSUME DeliveryInv, LossInv, NEW p \in Process, LoopStep(p)
  PROVE  LossInv'
<1>0. DeliveryTypeOK /\ [DeliveryNext]_deliveryVars
  BY DEF DeliveryInv, DeliveryNext
<1> USE DEF LossInv
<1>1. /\ \A q \in Process \ {p} : /\ loop'[q] = loop[q] /\ current'[q] = current[q]
                                  /\ cache'[q] = cache[q] /\ buffer'[q] = buffer[q]
      /\ UNCHANGED <<stored, gone, count, bound, expired>>
  BY <1>0, LoopIsOwn
<1>2. \A e \in Envelope : (Done(e) => Done(e)') /\ (Cut(e) => Cut(e)')
  BY <1>0, DoneStays, CutStays
<1>3. \A q \in Process \ {p} : \A e : InHandler(q, e)' <=> InHandler(q, e)
  BY <1>1 DEF InHandler, Env
<1>4. loop[p] # "idle" => Env(p) \in Envelope /\ Msg(p) \in stored /\ Msg(p)[1] = Env(p)
  BY <1>0, Current DEF DeliveryInv, Delivered, Received, Msg, Env
<1>5. CommittedIsApplied'
  <2> SUFFICES ASSUME NEW q \in Process, loop'[q] = "committed" PROVE applied'[current'[q][1][1]] > 0
    BY DEF CommittedIsApplied, Env
  <2>1. CASE Apply(p) /\ q = p
    <3>1. applied[Env(p)] \in Nat /\ applied'[Env(p)] = applied[Env(p)] + 1 /\ current' = current
      BY <1>0, <1>4, <2>1 DEF Apply, DeliveryTypeOK
    <3> QED BY <2>1, <3>1 DEF Env
  <2>2. CASE q # p
    <3>1. loop[q] = "committed" /\ current'[q] = current[q]
      BY <1>1, <2>2
    <3>2. applied[Env(q)] > 0 /\ Env(q) \in Envelope
      BY <1>0, <3>1, Current DEF CommittedIsApplied
    <3>3. applied[Env(q)] \in Nat /\ applied'[Env(q)] \in {applied[Env(q)], applied[Env(q)] + 1}
      BY <1>0, <3>2 DEF LoopStep, Receive, RejectUnsigned, Take, TakeFalse, TakeError, Apply, ThrowBefore, Return, ThrowAfter,
         Release, Exhaust, Nak, Ack, outcomeVars, DeliveryTypeOK
    <3> QED BY <3>1, <3>2, <3>3 DEF Env
  <2>3. CASE q = p /\ ~Apply(p)
    <3>1. loop'[p] # "committed"
      BY <1>0, <2>3 DEF LoopStep, Receive, RejectUnsigned, Take, TakeFalse, TakeError, ThrowBefore, Return, ThrowAfter,
         Release, Exhaust, Nak, Ack, Goto, NextDelivery, DeliveryTypeOK
    <3> QED BY <2>3, <3>1
  <2> QED BY <2>1, <2>2, <2>3
\* what p was at work on it is still at work on, or has done, or has given back
<1>6. \A e \in Envelope : InHandler(p, e) => Done(e)' \/ InHandler(p, e)' \/ (e \notin cache'[p] /\ e \notin claims')
  <2> SUFFICES ASSUME NEW e \in Envelope, InHandler(p, e)
               PROVE  Done(e)' \/ InHandler(p, e)' \/ (e \notin cache'[p] /\ e \notin claims')
    OBVIOUS
  <2>1. CASE Apply(p)
    <3>1. applied'[e] > 0
      BY <1>0, <2>1 DEF Apply, DeliveryTypeOK, InHandler
    <3> QED BY <3>1 DEF Done
  <2>2. CASE ThrowBefore(p)
    BY <1>0, <2>2 DEF ThrowBefore, Goto, InHandler, Env, DeliveryTypeOK
  <2>3. CASE Release(p)
    <3>1. e \notin cache'[p] /\ (e \notin claims' \/ e \in orphaned')
      BY <1>0, <2>3 DEF Release, ClaimDeleted, InHandler, DeliveryTypeOK
    <3> QED BY <3>1 DEF Done
  <2> QED BY <2>1, <2>2, <2>3 DEF InHandler, LoopStep, Receive, RejectUnsigned, Take, TakeFalse, TakeError, Return, ThrowAfter,
             Exhaust, Nak, Ack
\* it claims and remembers only what it begins to work on
<1>7. \A e \in Envelope : (e \in cache'[p] => e \in cache[p] \/ InHandler(p, e)') /\ (e \in claims' => e \in claims \/ InHandler(p, e)')
  <2>1. CASE Take(p)
    BY <1>0, <2>1 DEF Take, NewClaim, Goto, InHandler, Env, DeliveryTypeOK
  <2>2. CASE ~Take(p)
    <3>1. cache'[p] \subseteq cache[p] /\ claims' \subseteq claims
      BY <1>0, <2>2 DEF LoopStep, Receive, RejectUnsigned, TakeFalse, TakeError, Apply, ThrowBefore, Return, ThrowAfter, Release,
         ClaimDeleted, Exhaust, Nak, Ack, dedupeVars, DeliveryTypeOK
    <3> QED BY <3>1
  <2> QED BY <2>1, <2>2
<1>8. \A q \in Process : cache'[q] \subseteq Envelope /\ claims' \subseteq Envelope
  <2>1. DeliveryTypeOK'
    BY <1>0, DeliveryInvStep DEF DeliveryInv
  <2> QED BY <2>1 DEF DeliveryTypeOK
<1>9. CacheIsHandled'
  <2> SUFFICES ASSUME NEW q \in Process, NEW e \in cache'[q] PROVE Done(e)' \/ InHandler(q, e)'
    BY DEF CacheIsHandled
  <2>1. CASE q # p
    <3>1. Done(e) \/ InHandler(q, e)
      BY <1>1, <2>1 DEF CacheIsHandled
    <3> QED BY <1>2, <1>3, <1>8, <2>1, <3>1
  <2>2. CASE q = p
    <3>1. e \in cache[p] => Done(e) \/ InHandler(p, e)
      BY DEF CacheIsHandled
    <3> QED BY <1>2, <1>6, <1>7, <1>8, <2>2, <3>1
  <2> QED BY <2>1, <2>2
<1>10. ClaimIsHandled'
  <2> SUFFICES ASSUME NEW e \in claims' PROVE Done(e)' \/ \E q \in Process : InHandler(q, e)'
    BY DEF ClaimIsHandled
  <2>1. e \in claims => Done(e) \/ \E q \in Process : InHandler(q, e)
    BY DEF ClaimIsHandled
  <2> QED BY <1>2, <1>3, <1>6, <1>7, <1>8, <2>1
<1>11. OldIsGone'
  <2> SUFFICES ASSUME NEW q \in Process, q # bound', NEW d \in Received(q)' PROVE d[1] \in gone'
    BY DEF OldIsGone
  <2>1. d \in Received(q)
    <3>1. CASE q # p
      BY <1>1, <3>1 DEF Received
    <3>2. CASE q = p
      BY <1>0, <3>2 DEF LoopStep, Receive, RejectUnsigned, Take, TakeFalse, TakeError, Apply, ThrowBefore, Return, ThrowAfter, Release,
         Exhaust, Nak, Ack, NextDelivery, Received, DeliveryTypeOK
    <3> QED BY <3>1, <3>2
  <2> QED BY <1>1, <2>1 DEF OldIsGone
<1>12. AckedIsDone'
  <2> SUFFICES ASSUME NEW e \in Envelope,
                      (\E m \in MessagesOf(e)' : m \in acked') \/ (\E q \in Process : loop'[q] = "acking" /\ Env(q)' = e)
               PROVE  Done(e)' \/ Cut(e)'
    BY DEF AckedIsDone
  <2>0. MessagesOf(e)' = MessagesOf(e)
    BY <1>1 DEF MessagesOf
  <2>1. CASE (\E m \in MessagesOf(e) : m \in acked) \/ (\E q \in Process : loop[q] = "acking" /\ Env(q) = e)
    BY <1>2, <2>1 DEF AckedIsDone
  <2>2. ASSUME NEW m \in MessagesOf(e), m \in acked', m \notin acked
        PROVE  loop[p] = "acking" /\ Env(p) = e
    <3>1. Ack(p) /\ m = Msg(p)
      BY <2>2 DEF LoopStep, Receive, RejectUnsigned, Take, TakeFalse, TakeError, Apply, ThrowBefore, Return, ThrowAfter, Release,
         Exhaust, Nak, Ack, brokerVars
    <3> QED BY <3>1 DEF Ack, MessagesOf, Msg, Env
  <2>3. ASSUME NEW q \in Process, loop'[q] = "acking", Env(q)' = e, ~(loop[q] = "acking" /\ Env(q) = e)
        PROVE  Done(e)' \/ Cut(e)'
    <3>1. q = p
      BY <1>1, <2>3 DEF Env
    <3>2. /\ RejectUnsigned(p) \/ TakeFalse(p) \/ Return(p) \/ Exhaust(p)
          /\ current' = current /\ Env(p) = e
      BY <1>0, <2>3, <3>1 DEF LoopStep, Receive, RejectUnsigned, Take, TakeFalse, TakeError, Apply, ThrowBefore, Return, ThrowAfter,
         Release, Exhaust, Nak, Ack, NextDelivery, Goto, DeliveryTypeOK, Env
    <3>3. CASE RejectUnsigned(p) \/ Exhaust(p)
      BY <3>2, <3>3 DEF RejectUnsigned, Exhaust, DeadLetter, Done
    <3>4. CASE Return(p)
      BY <1>2, <3>2, <3>4 DEF Return, CommittedIsApplied, Done
    <3>5. CASE TakeFalse(p)
      <4>1. loop[p] = "received" /\ (e \in cache[p] \/ e \in claims)
        BY <3>2, <3>5 DEF TakeFalse
      <4>2. Done(e) \/ \E r \in Process : InHandler(r, e)
        BY <4>1 DEF CacheIsHandled, ClaimIsHandled
      <4>3. ASSUME NEW r \in Process, InHandler(r, e) PROVE Done(e) \/ Cut(e)
        <5>1. r # p /\ loop[r] # "idle"
          BY <4>1, <4>3 DEF InHandler
        <5>2. PICK x \in {p, r} : x # bound
          BY <5>1
        <5>3. x \in Process /\ loop[x] # "idle" /\ Env(x) = e
          BY <3>2, <4>1, <4>3, <5>1 DEF InHandler
        <5>4. current[x] \in Received(x) /\ Msg(x) \in stored /\ Msg(x)[1] = e
          BY <1>0, <5>3, Current DEF DeliveryInv, Delivered, Received, Msg, Env
        <5>5. Msg(x) \in gone /\ Msg(x) \in MessagesOf(e)
          BY <5>2, <5>3, <5>4 DEF OldIsGone, Msg, MessagesOf
        <5> QED BY <5>5 DEF Cut, AckedIsDone
      <4> QED BY <1>2, <4>2, <4>3
    <3> QED BY <3>2, <3>3, <3>4, <3>5
  <2> QED BY <2>0, <2>1, <2>2, <2>3
<1> QED BY <1>5, <1>9, <1>10, <1>11, <1>12 DEF LossInv

\* The broker, a crash, the cache and the sweep.
LEMMA LossBroker ==
  ASSUME DeliveryInv, LossInv,
         \/ \E m \in Message : PublishMessage(m) \/ Deliver(m)
         \/ \E p \in Process : Bind(p) \/ Rebind(p) \/ ProcessCrash(p) \/ Evict(p)
         \/ \E e \in Envelope : Sweep(e)
         \/ UNCHANGED deliveryVars
  PROVE  LossInv'
<1>0. DeliveryTypeOK /\ [DeliveryNext]_deliveryVars
  BY DEF DeliveryInv, DeliveryNext
<1> USE DEF LossInv
<1>1. \A e \in Envelope : (Done(e) => Done(e)') /\ (Cut(e) => Cut(e)')
  BY <1>0, DoneStays, CutStays
\* a process is as it was, or has died with what it had in its handler
<1>2. \A q \in Process :
        /\ \/ loop'[q] = loop[q] /\ current'[q] = current[q]
           \/ loop'[q] = "idle" /\ \A e \in Envelope : InHandler(q, e) => Done(e)'
        /\ cache'[q] \subseteq cache[q] /\ applied' = applied
  <2>1. ASSUME NEW p \in Process, ProcessCrash(p)
        PROVE  /\ loop' = [loop EXCEPT ![p] = "idle"] /\ current' = [current EXCEPT ![p] = Nobody] /\ cache' = [cache EXCEPT ![p] = {}]
               /\ \A e \in Envelope : InHandler(p, e) => Done(e)'
               /\ applied' = applied
    BY <2>1 DEF ProcessCrash, Done
  <2>2. ASSUME NEW p \in Process, Evict(p)
        PROVE  loop' = loop /\ current' = current /\ \A q \in Process : cache'[q] \subseteq cache[q] /\ applied' = applied
    BY <1>0, <2>2 DEF Evict, processVars, outcomeVars, DeliveryTypeOK
  <2>3. CASE \/ \E m \in Message : PublishMessage(m) \/ Deliver(m)
             \/ \E p \in Process : Bind(p) \/ Rebind(p)
             \/ \E e \in Envelope : Sweep(e)
             \/ UNCHANGED deliveryVars
    BY <2>3 DEF PublishMessage, Deliver, Bind, Rebind, Sweep, processVars, dedupeVars, outcomeVars, deliveryVars
  <2> QED BY <1>0, <2>1, <2>2, <2>3 DEF DeliveryTypeOK
<1>3. \A q \in Process, e \in Envelope : InHandler(q, e) => InHandler(q, e)' \/ Done(e)'
  BY <1>2 DEF InHandler, Env
<1>4. claims' \subseteq claims /\ claims \subseteq Envelope /\ \A q \in Process : cache[q] \subseteq Envelope
  BY <1>0 DEF PublishMessage, Deliver, Bind, Rebind, ProcessCrash, Evict, Sweep, dedupeVars, deliveryVars, DeliveryTypeOK
<1>5. CommittedIsApplied'
  BY <1>2 DEF CommittedIsApplied, Env
<1>6. CacheIsHandled'
  BY <1>1, <1>2, <1>3, <1>4 DEF CacheIsHandled
<1>7. ClaimIsHandled'
  BY <1>1, <1>2, <1>3, <1>4 DEF ClaimIsHandled
<1>8. OldIsGone'
  <2>1. CASE \E m \in Message : Deliver(m)
    BY <1>0, <2>1 DEF Deliver, OldIsGone, Received, DeliveryTypeOK
  <2>2. CASE \E p \in Process : Bind(p)
    BY <2>2, ConsumerAssumption DEF Bind, OldIsGone, Received, processVars
  <2>3. CASE \E p \in Process : Rebind(p)
    <3>1. gone' = stored /\ buffer' = buffer /\ current' = current
      BY <2>3 DEF Rebind, processVars
    <3> QED BY <3>1 DEF OldIsGone, DeliveryInv, Delivered, Received
  <2>4. CASE \E p \in Process : ProcessCrash(p)
    <3>1. PICK p \in Process : ProcessCrash(p)
      BY <2>4
    <3>2. /\ gone' = gone /\ buffer'[p] = {} /\ current'[p] = Nobody /\ (bound = p \/ bound' = bound)
          /\ \A q \in Process \ {p} : buffer'[q] = buffer[q] /\ current'[q] = current[q]
      BY <1>0, <3>1 DEF ProcessCrash, DeliveryTypeOK
    <3> QED BY <3>2 DEF OldIsGone, Received
  <2>5. CASE \/ \E m \in Message : PublishMessage(m)
             \/ \E p \in Process : Evict(p)
             \/ \E e \in Envelope : Sweep(e)
             \/ UNCHANGED deliveryVars
    BY <2>5 DEF PublishMessage, Evict, Sweep, processVars, brokerVars, deliveryVars, OldIsGone, Received
  <2> QED BY <2>1, <2>2, <2>3, <2>4, <2>5
<1>9. AckedIsDone'
  <2>1. acked' = acked /\ stored \subseteq stored' /\ acked \subseteq stored
    BY <1>0 DEF PublishMessage, Deliver, Bind, Rebind, ProcessCrash, Evict, Sweep, brokerVars, deliveryVars, DeliveryTypeOK
  <2>2. \A e, m : m \in MessagesOf(e)' /\ m \in acked' => m \in MessagesOf(e) /\ m \in acked
    BY <2>1 DEF MessagesOf
  <2>3. \A q \in Process, e \in Envelope : loop'[q] = "acking" /\ Env(q)' = e => loop[q] = "acking" /\ Env(q) = e
    BY <1>2 DEF Env
  <2> QED BY <1>1, <2>2, <2>3 DEF AckedIsDone
<1> QED BY <1>5, <1>6, <1>7, <1>8, <1>9 DEF LossInv

\* An envelope whose messages are all acknowledged has been handled or dead-lettered,
\* or a named fault lost it: no delivery is acknowledged on another's account.
THEOREM NothingIsLost == DeliverySpec => []NoSilentLoss
<1>1. DeliveryInit => LossInv
  BY DEF DeliveryInit, LossInv, CommittedIsApplied, CacheIsHandled, ClaimIsHandled, OldIsGone, AckedIsDone, Received, MessagesOf
<1>2. DeliveryInv /\ LossInv /\ [DeliveryNext]_deliveryVars => LossInv'
  BY LossLoop, LossBroker DEF DeliveryNext
<1>3. LossInv => NoSilentLoss
  BY DEF LossInv, AckedIsDone, NoSilentLoss, Done, Cut
<1> QED BY <1>1, <1>2, <1>3, DeliveryInvariance, PTL DEF DeliverySpec
=============================================================================
