----------------------------- MODULE MCApprovals -----------------------------
(***************************************************************************)
(* One approval by itself: three admins, one of them a super admin.        *)
(***************************************************************************)
EXTENDS DualControl

CONSTANTS a1, a2, a3

Signers == {a1, a2, a3}
SuperAdmins == {a2}
Tiers == {[approvals |-> 1, requiresSuper |-> FALSE], [approvals |-> 2, requiresSuper |-> TRUE]}
=============================================================================
