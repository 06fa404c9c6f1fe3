-------------------------- MODULE MCOrderLifecycle --------------------------
(***************************************************************************)
(* One order and two handlers at a time.  A vendor order runs until a      *)
(* rider is needed, with faults; an errand or a parcel, which no vendor    *)
(* accepts, runs with a rider to its end, without them.                    *)
(***************************************************************************)
EXTENDS OrderLifecycle, TLC

CONSTANTS h1, h2, r1

MCHandler == {h1, h2}
MCSymmetry == Permutations(MCHandler)

\* bound: what a kind of order is not followed into.  The properties about a
\* rider say nothing of a request once a stale row has been saved.
OneConcern ==
  /\ kind = "vendor" => assigned = None
  /\ kind = "request" => happened \intersect (AllFaults \union {"overwrite"}) = {}
=============================================================================
