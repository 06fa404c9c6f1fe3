------------------------------ MODULE MCOutbox ------------------------------
(***************************************************************************)
(* Three parts of libs/core in one run; they share no state, so each       *)
(* behaviour is one of them, chosen in the first state.                    *)
(*                                                                         *)
(* The outbox: two events, two cycles that may overlap, two attempts, two  *)
(* counted faults of any kind: enough for a claim taken over from a live   *)
(* cycle that then fails or is lost.  The interval lock: three ticks, so   *)
(* that one can run on without the lock, one take it and one be refused.   *)
(* The breaker: three calls, two of which open it; the third is from       *)
(* before or after; the second outage finds it open, due or closed.        *)
(***************************************************************************)
EXTENDS Outbox, IntervalLock, CallBreaker
CONSTANTS e1, e2, r1, r2, t1, t2, t3, c1, c2, c3

VARIABLE part  \* which of the three this behaviour is about

MCEvent == {e1, e2}
MCRelay == {r1, r2}
Ticks == {t1, t2, t3}
Calls == {c1, c2, c3}

coreVars == <<vars, tickVars, breakerVars, part>>

CoreInit ==
  /\ part \in {"outbox", "ticks", "calls"}
  /\ Init /\ TicksInit /\ BreakerInit
CoreNext ==
  \/ part = "outbox" /\ Next /\ UNCHANGED <<tickVars, breakerVars, part>>
  \/ part = "ticks" /\ TicksNext /\ UNCHANGED <<vars, breakerVars, part>>
  \/ part = "calls" /\ BreakerNext /\ UNCHANGED <<vars, tickVars, part>>

\* the fairness of the part that runs: the others stand still
CoreFairness ==
  /\ \A r \in Relay : WF_coreVars(part = "outbox" /\ RelayStep(r) /\ UNCHANGED <<tickVars, breakerVars, part>>)
  /\ \A c \in Call : WF_coreVars(part = "calls" /\ CallStep(c) /\ UNCHANGED <<vars, tickVars, part>>)
  /\ WF_coreVars(part = "calls" /\ WindowElapses /\ UNCHANGED <<vars, tickVars, part>>)
CoreSpec == CoreInit /\ [][CoreNext]_coreVars /\ CoreFairness
=============================================================================
