---------------------------- MODULE IntervalLock ----------------------------
(***************************************************************************)
(* The ticks of one periodic job (libs/jobs/src/inprocess.scheduler.ts)    *)
(* and the advisory lock that is to keep them apart (libs/core/src/        *)
(* leader-lock.ts).  Every replica has an interval timer that does not     *)
(* wait for its last run, so a tick stands for a replica's as well as for  *)
(* a second one of the same replica.  The lock belongs to a transaction    *)
(* that lasts as long as the job, on a connection of its own.              *)
(***************************************************************************)
EXTENDS Naturals, FiniteSets

CONSTANTS
  Tick,          \* ticks that may be under way together
  TickFault,     \* faults that may happen, a subset of TickFaults
  MaxFirings,    \* bound: how often the timers fire
  MaxTickFaults  \* bound: how many faults a behaviour has

\* the lock's transaction cannot begin or query; the job throws; its connection
\* breaks while the job runs; the replica dies
TickFaults == {"unavailable", "throws", "cut", "dies"}

ASSUME TickAssumption ==
  /\ TickFault \subseteq TickFaults
  /\ MaxFirings \in Nat /\ MaxTickFaults \in Nat

VARIABLES
  tick,        \* where each tick is
  locked,      \* ticks whose transaction has the lock
  runs,        \* how often each tick has run the job since it fired
  firings, tickTroubles,
  unguarded    \* history: ticks that ran, or went on, without the lock

tickVars == <<tick, locked, runs, firings, tickTroubles, unguarded>>

Running == {t \in Tick : tick[t] \in {"guarded", "cut", "alone"}}

TicksInit ==
  /\ tick = [t \in Tick |-> "off"] /\ locked = {}
  /\ runs = [t \in Tick |-> 0] /\ firings = 0 /\ tickTroubles = 0 /\ unguarded = {}

Goes(t, at) == tick' = [tick EXCEPT ![t] = at]
Runs(t) == runs' = [runs EXCEPT ![t] = @ + 1]
Trouble(f) == f \in TickFault /\ tickTroubles < MaxTickFaults /\ tickTroubles' = tickTroubles + 1

Fire(t) ==
  /\ tick[t] = "off" /\ firings < MaxFirings
  /\ firings' = firings + 1
  /\ Goes(t, "asking") /\ runs' = [runs EXCEPT ![t] = 0] /\ unguarded' = unguarded \ {t}
  /\ UNCHANGED <<locked, tickTroubles>>

\* Mutant: whoever asks has it.
Granted(t) == {t}
\* pg_try_advisory_xact_lock: it does not wait
TryLock(t) == IF locked = {} THEN {t} ELSE {}
AskLock(t) ==
  /\ tick[t] = "asking"
  /\ locked' = locked \union TryLock(t)
  /\ IF t \in locked' THEN Goes(t, "guarded") /\ Runs(t) ELSE Goes(t, "off") /\ UNCHANGED runs
  /\ UNCHANGED <<firings, tickTroubles, unguarded>>

\* the catch of pgIntervalRunner: the job is run, whatever the error was
RunsAlone(t) == Goes(t, "alone") /\ Runs(t) /\ unguarded' = unguarded \union {t}

LockUnavailable(t) ==
  /\ tick[t] = "asking" /\ Trouble("unavailable") /\ RunsAlone(t)
  /\ UNCHANGED <<locked, firings>>

\* the commit of the lock's transaction, or what a broken connection makes of it
JobDone(t) ==
  /\ t \in Running
  /\ IF tick[t] = "cut" THEN RunsAlone(t) ELSE Goes(t, "off") /\ UNCHANGED <<runs, unguarded>>
  /\ locked' = locked \ {t}
  /\ UNCHANGED <<firings, tickTroubles>>

\* a rollback frees the lock; the second error is the scheduler's to log
JobThrows(t) ==
  /\ t \in Running /\ Trouble("throws")
  /\ IF tick[t] = "alone" THEN Goes(t, "off") /\ UNCHANGED <<runs, unguarded>> ELSE RunsAlone(t)
  /\ locked' = locked \ {t}
  /\ UNCHANGED firings

ConnectionLost(t) ==
  /\ tick[t] = "guarded" /\ Trouble("cut")
  /\ Goes(t, "cut") /\ locked' = locked \ {t} /\ unguarded' = unguarded \union {t}
  /\ UNCHANGED <<runs, firings>>

ReplicaDies(t) ==
  /\ tick[t] # "off" /\ Trouble("dies")
  /\ Goes(t, "off") /\ locked' = locked \ {t}
  /\ UNCHANGED <<runs, firings, unguarded>>

TicksNext == \E t \in Tick :
  \/ Fire(t) \/ AskLock(t) \/ LockUnavailable(t) \/ JobDone(t) \/ JobThrows(t)
  \/ ConnectionLost(t) \/ ReplicaDies(t)

TicksSpec == TicksInit /\ [][TicksNext]_tickVars

-----------------------------------------------------------------------------
\* Two replicas run the job at the same time, or one tick runs it twice, only if
\* one of them runs without the lock: the database had failed it, or the job had
\* thrown (leader-lock.ts names the first of these only).
OneRunner ==
  /\ Cardinality(Running) > 1 => Running \intersect unguarded # {}
  /\ \A t \in Tick : runs[t] > 1 => t \in unguarded
=============================================================================
