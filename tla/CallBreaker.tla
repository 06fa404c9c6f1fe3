---------------------------- MODULE CallBreaker ----------------------------
(***************************************************************************)
(* The calls of one process to one host: internalFetch with its retries    *)
(* (libs/core/src/http.ts) behind the host's circuit breaker               *)
(* (libs/core/src/breaker.ts).  The upstream is up or down; a call is      *)
(* answered when it is up; one that was out while it was down may fail     *)
(* (refused, a 5xx, a timeout), also when the upstream is back by then.    *)
(* openedAt is in the past by less than openMs ("open") or by more         *)
(* ("due"), or zero ("never").                                             *)
(***************************************************************************)
EXTENDS Naturals

CONSTANTS
  Call,          \* calls that may be under way together
  THRESHOLD,     \* consecutive failures that open the breaker
  MAX_RETRIES,   \* of a call whose method may be repeated
  MaxOutages     \* bound: how often the upstream goes down

ASSUME BreakerAssumption == THRESHOLD \in Nat \ {0} /\ MAX_RETRIES \in Nat /\ MaxOutages \in Nat

VARIABLES
  failures, openedAt, halfOpen,  \* the CircuitBreaker; failures counts to THRESHOLD
  call,          \* each call: where it is, the attempts it has left, whether it was out
                 \* while the upstream was down
  up, outages

breakerVars == <<failures, openedAt, halfOpen, call, up, outages>>

NoAttempt == [at |-> "off", left |-> 0, hit |-> FALSE]

BreakerInit ==
  /\ failures = 0 /\ openedAt = "never" /\ halfOpen = FALSE
  /\ call = [c \in Call |-> NoAttempt]
  /\ up = TRUE /\ outages = 0

Start(c) ==
  /\ call[c].at = "off"
  /\ \E n \in {0, MAX_RETRIES} : call' = [call EXCEPT ![c] = [at |-> "ready", left |-> n, hit |-> FALSE]]
  /\ UNCHANGED <<failures, openedAt, halfOpen, up, outages>>

Allowed == openedAt = "never" \/ (openedAt = "due" /\ ~halfOpen)
Attempt(c) ==
  /\ call[c].at = "ready"
  /\ IF Allowed
     THEN /\ halfOpen' = (halfOpen \/ openedAt = "due")
          /\ call' = [call EXCEPT ![c].at = "out", ![c].hit = ~up]
     ELSE call' = [call EXCEPT ![c] = NoAttempt] /\ UNCHANGED halfOpen
  /\ UNCHANGED <<failures, openedAt, up, outages>>

Answered(c) ==
  /\ call[c].at = "out" /\ up
  /\ failures' = 0 /\ openedAt' = "never" /\ halfOpen' = FALSE
  /\ call' = [call EXCEPT ![c] = NoAttempt]
  /\ UNCHANGED <<up, outages>>

\* Mutant: a failed probe keeps its slot.
SlotKept == halfOpen
SlotAfterFailure == FALSE
Failed(c) ==
  /\ call[c].at = "out" /\ call[c].hit
  /\ IF halfOpen THEN halfOpen' = SlotAfterFailure /\ openedAt' = "open" /\ UNCHANGED failures
     ELSE /\ failures' = IF failures < THRESHOLD THEN failures + 1 ELSE failures
          /\ openedAt' = IF failures' = THRESHOLD THEN "open" ELSE openedAt
          /\ UNCHANGED halfOpen
  /\ call' = [call EXCEPT ![c] = IF @.left > 0 THEN [at |-> "ready", left |-> @.left - 1, hit |-> FALSE] ELSE NoAttempt]
  /\ UNCHANGED <<up, outages>>

WindowElapses ==
  /\ openedAt = "open" /\ openedAt' = "due"
  /\ UNCHANGED <<failures, halfOpen, call, up, outages>>

GoesDown ==
  /\ up /\ outages < MaxOutages /\ up' = FALSE /\ outages' = outages + 1
  /\ call' = [c \in Call |-> [call[c] EXCEPT !.hit = (call[c].at = "out")]]
  /\ UNCHANGED <<failures, openedAt, halfOpen>>
ComesBack == ~up /\ up' = TRUE /\ UNCHANGED <<failures, openedAt, halfOpen, call, outages>>

CallStep(c) == Start(c) \/ Attempt(c) \/ Answered(c) \/ Failed(c)
BreakerNext == (\E c \in Call : CallStep(c)) \/ WindowElapses \/ GoesDown \/ ComesBack

\* The callers keep calling, a call ends (an abort after FETCH_TIMEOUT_MS at the
\* latest), time passes.
BreakerFairness == (\A c \in Call : WF_breakerVars(CallStep(c))) /\ WF_breakerVars(WindowElapses)
BreakerSpec == BreakerInit /\ [][BreakerNext]_breakerVars /\ BreakerFairness

-----------------------------------------------------------------------------
\* Whatever ends while the breaker is open, half open or being probed, also a
\* call from before it opened whose failure is taken for the probe's: once the
\* upstream is back for good, the breaker closes and stays closed.
BreakerRecovers == <>[]up => <>[](openedAt = "never")
=============================================================================
