---------------------------- MODULE MCBackOffice ----------------------------
(***************************************************************************)
(* The back office in one run: the vendor's books, the rider's wallet, the *)
(* approval of a payout, a support thread and an application.  They share  *)
(* no row, so each behaviour is one of them, chosen in the first state;    *)
(* the others stay as they begin.                                          *)
(*                                                                         *)
(* Two of them are in two parts.  A thread: a message and the assistant    *)
(* beside two requests of the console that may overlap, or four requests   *)
(* one after the other.  An application: its documents, with one request   *)
(* at a time and two in all beside the provider's results, or its          *)
(* approval, with requests that overlap and no documents.  Of the admins   *)
(* of an approval a1 and a3 differ in name alone: a3 only checks.          *)
(***************************************************************************)
EXTENDS VendorPayout, RiderWallet, DualControl, SupportThread, Onboarding

CONSTANTS o1, s1, s2, v1, p1, p2, t1, t2, w1, h1, h2, a1, a2, a3, d1, d2, m1, q1, q2, j1

VARIABLE part  \* which of them this behaviour is about

VOrders == {o1}
Settlements == {s1, s2}
Withdrawals == {v1}
Workers == {p1, p2}
Amounts == {2, 3}
Trips == {t1, t2}
Payouts == {w1}
Handlers == {h1, h2}
Admins == {a1}
Sums == {1, 2}
Signers == {a1, a2, a3}
SuperAdmins == {a2}
Tiers == {[approvals |-> 1, requiresSuper |-> FALSE], [approvals |-> 2, requiresSuper |-> TRUE]}
Reps == {a1}
Experts == {a3}
Desks == {d1, d2}
Posts == {m1}
Requests == {q1, q2}
Jobs == {j1}

moneyParts == <<payoutVars, walletVars, approvalVars>>
parts == <<moneyParts, supportVars, applicationVars, part>>

BackOfficeInit ==
  /\ part \in {"vendor", "rider", "approval", "support", "desk", "documents", "decisions"}
  /\ VendorInit /\ WalletInit
  /\ SupportInit /\ (part # "support" => enabled)
  /\ ApprovalInit /\ (part # "approval" => ~approval.tier.requiresSuper)
  /\ OnboardingInit
  /\ part \notin {"documents", "decisions"} => kind = "RIDER" /\ app.status = "DRAFT"
  /\ part = "documents" => ~vouched /\ (kind = "RIDER" <=> app.status = "DRAFT")

\* Only the named part takes a step.
VendorOnly   == part = "vendor" /\ UNCHANGED <<walletVars, approvalVars, supportVars, applicationVars, part>>
RiderOnly    == part = "rider" /\ UNCHANGED <<payoutVars, approvalVars, supportVars, applicationVars, part>>
ApprovalOnly == part = "approval" /\ UNCHANGED <<payoutVars, walletVars, supportVars, applicationVars, part>>
ThreadOnly   == part \in {"support", "desk"} /\ UNCHANGED <<moneyParts, applicationVars, part>>
ApplicationOnly == part \in {"documents", "decisions"} /\ UNCHANGED <<moneyParts, supportVars, part>>

BackOfficeNext ==
  \/ VendorOnly /\ VendorNext
  \/ RiderOnly /\ WalletNext
  \/ ApprovalOnly /\ ApprovalNext /\ approval'.maker # a3 /\ executor'[a3].at = "idle"
  \/ /\ ThreadOnly /\ SupportNext
     /\ IF part = "support" THEN decisions' <= 2 ELSE desk'[d2] = NoDecision /\ posting' = posting
  \/ /\ ApplicationOnly /\ OnboardingNext
     /\ IF part = "documents" THEN request'[q2] = NoRequest /\ requests' <= 2
        ELSE \A r \in Request : request'[r].op # "submit"

\* WalletFairness, in the part it is about
RiderFairness ==
  /\ \A h \in Handler : WF_parts(RiderOnly /\ WalletStep(h))
  /\ \A w \in Payout : /\ WF_parts(RiderOnly /\ TransferDone(w))
                       /\ WF_parts(RiderOnly /\ \E h \in Handler : reconcileStaleTransfers(h, w))
BackOfficeSpec == BackOfficeInit /\ [][BackOfficeNext]_parts /\ RiderFairness

=============================================================================
