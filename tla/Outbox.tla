------------------------------- MODULE Outbox -------------------------------
(***************************************************************************)
(* The transactional outbox (libs/core/src/outbox.ts): a service commits   *)
(* an event as a row of its ore_outbox table, in the transaction of the    *)
(* business data; relay cycles claim the rows, publish them to the bus and *)
(* mark them.  A relay cycle is one run of OutboxBus.relay(): one replica  *)
(* has one every RELAY_INTERVAL_MS (and, setInterval not waiting for the   *)
(* previous run, possibly several at a time).                              *)
(*                                                                         *)
(* Every database statement and every publish of a cycle is a step of its  *)
(* own, so cycles interleave between them.  BATCH_SIZE is larger than      *)
(* Event.  The age of a claim is not modelled as a number: a claimed row   *)
(* nobody works on will get old, and a row a live cycle works on gets old  *)
(* only when that cycle is slow ("slow" below).                            *)
(***************************************************************************)
EXTENDS Naturals

CONSTANTS
  Event,        \* events, one outbox row each
  Relay,        \* relay cycles that may run at the same time
  None,         \* no event
  MAX_ATTEMPTS, \* attempts after which a row is buried as failed
  Fault,        \* the faults that may happen, a subset of AllFaults
  MaxFaults     \* bound: how many counted faults a behaviour has

AllFaults == {"crash", "slow", "dbError", "publishError", "dlqError"}

ASSUME OutboxAssumption ==
  /\ None \notin Event
  /\ MAX_ATTEMPTS \in Nat \ {0}
  /\ Fault \subseteq AllFaults
  /\ MaxFaults \in Nat

VARIABLES
  status,    \* status column of each row; "none" before the row is inserted
  attempts,  \* attempts column of each row
  pc,        \* where each relay cycle is
  todo,      \* rows of a cycle's batch it has not reached
  cur,       \* row a cycle works on (None between rows)
  seen,      \* attempts of each row of the batch, as RETURNING gave them
  stream,    \* how many messages the bus stores for each event
  dlq,       \* events copied to the dead-letter subject
  retried,   \* history: events whose claim was repeated or whose step failed
  stolen,    \* history: events whose claim was taken from a live cycle
  faults     \* how many counted faults have happened

rowVars   == <<status, attempts>>
relayVars == <<pc, todo, cur, seen>>
busVars   == <<stream, dlq>>
history   == <<retried, stolen>>
vars      == <<status, attempts, pc, todo, cur, seen, stream, dlq, retried, stolen, faults>>

RowStatus == {"none", "pending", "claiming", "sent", "failed"}
RelayPc   == {"idle", "batch", "published", "failing", "burying"}

TypeOK ==
  /\ status    \in [Event -> RowStatus]
  /\ attempts  \in [Event -> Nat]
  /\ pc        \in [Relay -> RelayPc]
  /\ todo      \in [Relay -> SUBSET Event]
  /\ cur       \in [Relay -> Event \union {None}]
  /\ seen      \in [Relay -> [Event -> Nat]]
  /\ stream    \in [Event -> Nat]
  /\ dlq       \subseteq Event
  /\ retried   \subseteq Event
  /\ stolen    \subseteq Event
  /\ faults    \in 0..MaxFaults
  /\ \A r \in Relay : cur[r] = None <=> pc[r] \in {"idle", "batch"}

Init ==
  /\ status    = [e \in Event |-> "none"]
  /\ attempts  = [e \in Event |-> 0]
  /\ pc        = [r \in Relay |-> "idle"]
  /\ todo      = [r \in Relay |-> {}]
  /\ cur       = [r \in Relay |-> None]
  /\ seen      = [r \in Relay |-> [e \in Event |-> 0]]
  /\ stream    = [e \in Event |-> 0]
  /\ dlq       = {}
  /\ retried   = {}
  /\ stolen    = {}
  /\ faults    = 0

\* A fault of this kind may happen, and it is counted.
CountFault(kind) ==
  /\ kind \in Fault
  /\ faults < MaxFaults
  /\ faults' = faults + 1

\* Rows a live cycle has claimed and not finished with.
Holds(r, e) == pc[r] # "idle" /\ (e \in todo[r] \/ e = cur[r])

-----------------------------------------------------------------------------
\* OutboxBus.publish inside a service's transaction, at its commit.
Enqueue(e) ==
  /\ status[e] = "none"
  /\ status' = [status EXCEPT ![e] = "pending"]
  /\ UNCHANGED <<attempts, relayVars, busVars, history, faults>>

\* claim(): rows that are pending, and old claims, become this cycle's batch.
\* A claim that a live cycle holds is old only if that cycle is slow.
Claimable(wanted) == {e \in Event : status[e] = wanted /\ attempts[e] < MAX_ATTEMPTS}

\* Mutant: a claim is never taken over.
OldClaimsNever == {}
OldClaims == Claimable("claiming")

\* Mutant: the batch is read and not marked (a SELECT in place of the UPDATE).
StatusUnmarked(batch) == status
StatusClaimed(batch) == [e \in Event |-> IF e \in batch THEN "claiming" ELSE status[e]]

Claim(r) ==
  /\ pc[r] = "idle"
  /\ \E old \in SUBSET OldClaims :
       LET batch == Claimable("pending") \union old
           held  == {e \in old : \E q \in Relay : Holds(q, e)}
       IN
       /\ batch # {}
       /\ IF held = {} THEN UNCHANGED faults ELSE CountFault("slow")
       /\ status'    = StatusClaimed(batch)
       /\ pc'        = [pc EXCEPT ![r] = "batch"]
       /\ todo'      = [todo EXCEPT ![r] = batch]
       /\ seen'      = [seen EXCEPT ![r] = [e \in Event |-> IF e \in batch THEN attempts[e] ELSE 0]]
       /\ retried'   = retried \union old
       /\ stolen'    = stolen \union held
       /\ UNCHANGED <<attempts, cur, busVars>>

\* Mutant: the publish is not awaited, so the row is marked whatever becomes of it.
PublishNotAwaited(r, e) ==
  /\ pc[r] = "batch" /\ e \in todo[r]
  /\ pc'     = [pc EXCEPT ![r] = "published"]
  /\ todo'   = [todo EXCEPT ![r] = @ \ {e}]
  /\ cur'    = [cur EXCEPT ![r] = e]
  /\ UNCHANGED <<rowVars, seen, busVars, history, faults>>

\* inner.publish of the next row of the batch resolves.
Publish(r, e) ==
  /\ pc[r] = "batch" /\ e \in todo[r]
  /\ pc'     = [pc EXCEPT ![r] = "published"]
  /\ todo'   = [todo EXCEPT ![r] = @ \ {e}]
  /\ cur'    = [cur EXCEPT ![r] = e]
  /\ stream' = [stream EXCEPT ![e] = @ + 1]
  /\ UNCHANGED <<rowVars, seen, dlq, history, faults>>

\* inner.publish rejects: the bus did not store the message, or it did and its
\* answer was lost.
PublishError(r, e) ==
  /\ "publishError" \in Fault
  /\ pc[r] = "batch" /\ e \in todo[r]
  /\ pc'        = [pc EXCEPT ![r] = "failing"]
  /\ todo'      = [todo EXCEPT ![r] = @ \ {e}]
  /\ cur'       = [cur EXCEPT ![r] = e]
  /\ \E stored \in {0, 1} : stream' = [stream EXCEPT ![e] = @ + stored]
  /\ retried'   = retried \union {e}
  /\ UNCHANGED <<rowVars, seen, dlq, stolen, faults>>

\* The cycle is done with its current row.
NextRow(r) ==
  /\ pc'  = [pc EXCEPT ![r] = IF todo[r] = {} THEN "idle" ELSE "batch"]
  /\ cur' = [cur EXCEPT ![r] = None]
  /\ seen' = [seen EXCEPT ![r] = [@ EXCEPT ![cur[r]] = 0]]
  /\ UNCHANGED todo

\* markSent: by id alone, whatever has become of the row meanwhile.
MarkSent(r) ==
  /\ pc[r] = "published"
  /\ status'   = [status EXCEPT ![cur[r]] = "sent"]
  /\ attempts' = [attempts EXCEPT ![cur[r]] = @ + 1]
  /\ NextRow(r)
  /\ UNCHANGED <<busVars, history, faults>>

\* markSent rejects after the publish: the catch block treats it as a failure.
MarkSentError(r) ==
  /\ pc[r] = "published"
  /\ CountFault("dbError")
  /\ pc'        = [pc EXCEPT ![r] = "failing"]
  /\ retried'   = retried \union {cur[r]}
  /\ UNCHANGED <<rowVars, todo, cur, seen, busVars, stolen>>

\* markFailure: back to pending, or failed when the attempts are used up.
\* Mutant: one attempt too many.
StatusAfterExtraFailure(e) == IF attempts[e] + 1 > MAX_ATTEMPTS THEN "failed" ELSE "pending"
StatusAfterFailure(e) == IF attempts[e] + 1 >= MAX_ATTEMPTS THEN "failed" ELSE "pending"

\* Whether the event is also dead-lettered is decided from the attempts that
\* the claim returned.
SeenExhausted(r) == seen[r][cur[r]] + 1 >= MAX_ATTEMPTS

MarkFailure(r) ==
  /\ pc[r] = "failing"
  /\ status'   = [status EXCEPT ![cur[r]] = StatusAfterFailure(cur[r])]
  /\ attempts' = [attempts EXCEPT ![cur[r]] = @ + 1]
  /\ IF SeenExhausted(r)
       THEN pc' = [pc EXCEPT ![r] = "burying"] /\ UNCHANGED <<todo, cur, seen>>
       ELSE NextRow(r)
  /\ UNCHANGED <<busVars, history, faults>>

\* The process forgets the cycle: its claims stay in the table.
Abandon(r) ==
  /\ pc'   = [pc EXCEPT ![r] = "idle"]
  /\ todo' = [todo EXCEPT ![r] = {}]
  /\ cur'  = [cur EXCEPT ![r] = None]
  /\ seen' = [seen EXCEPT ![r] = [e \in Event |-> 0]]
  /\ UNCHANGED <<rowVars, busVars, history>>

\* markFailure rejects: the outer catch ends the cycle in the middle of its batch.
MarkFailureError(r) ==
  /\ pc[r] = "failing"
  /\ CountFault("dbError")
  /\ Abandon(r)

Crash(r) ==
  /\ pc[r] # "idle"
  /\ CountFault("crash")
  /\ Abandon(r)

\* The copy of an exhausted event to the dead-letter subject; an error is swallowed.
PublishDlq(r) ==
  /\ pc[r] = "burying"
  /\ dlq' = dlq \union {cur[r]}
  /\ NextRow(r)
  /\ UNCHANGED <<rowVars, stream, history, faults>>

PublishDlqError(r) ==
  /\ pc[r] = "burying"
  /\ "dlqError" \in Fault
  /\ NextRow(r)
  /\ UNCHANGED <<rowVars, busVars, history, faults>>

-----------------------------------------------------------------------------
RelayStep(r) ==
  \/ Claim(r) \/ MarkSent(r) \/ MarkFailure(r) \/ PublishDlq(r)
  \/ MarkSentError(r) \/ MarkFailureError(r) \/ PublishDlqError(r)
  \/ \E e \in Event : Publish(r, e) \/ PublishError(r, e)

Next ==
  \/ \E e \in Event : Enqueue(e)
  \/ \E r \in Relay : RelayStep(r) \/ Crash(r)

Spec == Init /\ [][Next]_vars

\* The interval timer keeps starting cycles, and a cycle that does not crash runs on.
FairSpec == Spec /\ \A r \in Relay : WF_vars(RelayStep(r))

-----------------------------------------------------------------------------
\* A row says "sent" only if the bus stores the event: no interleaving of
\* cycles that mark rows by id alone may lose an event as sent.
SentWasPublished == \A e \in Event : status[e] = "sent" => stream[e] > 0

\* A row that is not settled can still be claimed: whatever cycles die or
\* overlap, no event is stranded in pending or claiming without attempts left.
NeverStranded == \A e \in Event : status[e] \in {"pending", "claiming"} => attempts[e] < MAX_ATTEMPTS

\* Concurrent cycles take disjoint batches: an event is on the bus twice only
\* if a step for it failed or its claim had to be repeated.
DuplicatesExplained == \A e \in Event : stream[e] > 1 => e \in retried

\* An event is copied to the dead-letter subject only after MAX_ATTEMPTS
\* attempts, although the decision reads attempts that may be out of date.
DeadLetterOnlyExhausted == \A e \in dlq : attempts[e] >= MAX_ATTEMPTS

\* The attempts decide what becomes of an event: none that is unsettled has used
\* them up, none is buried before (claim, markFailure and relay count alike).
AttemptsDecide == NeverStranded /\ DeadLetterOnlyExhausted

\* Once sent, a row is not published or buried again, unless its claim was
\* taken from a cycle that was still working on it.
SentIsFinal == [][\A e \in Event : status[e] = "sent" /\ e \notin stolen => status'[e] = "sent"]_vars

\* Every committed event ends as sent or failed and stays so.
Settles == \A e \in Event : status[e] # "none" ~> [](status[e] \in {"sent", "failed"})
=============================================================================
