---------------------------- MODULE PayoutProofs -----------------------------
(***************************************************************************)
(* Money that goes out: the rider's wallet and withdrawals, the approvals  *)
(* that let money out, the vendor's settlements and withdrawals. The three *)
(* share no state; each part proves about one, for every value of its      *)
(* constants.                                                              *)
(*                                                                         *)
(* PaidOrRefunded. A withdrawal is approved once (OneApproval), the        *)
(* handler that decides it holds its row (OneHolder), and each handler and *)
(* each status says something of the transfer.                             *)
(*                                                                         *)
(* WalletBooks. The balance, the journal and the withdrawals are tied by   *)
(* three equations (JournalBook, TotalBook, CashBook), each until one of   *)
(* its named causes; they are kept because a handler knows what it works   *)
(* on, and one at most delivers a trip (WorkInv).                          *)
(*                                                                         *)
(* SignedByOthers and DecisionStands. Neither is inductive by itself: a    *)
(* row that was read before may be saved at any time. RowsInv says what    *)
(* every row that is stored or in a handler's hands carries; ClaimInv who  *)
(* executes in each status.                                                *)
(*                                                                         *)
(* VendorBooks and OutcomeIsTransfers. VendorInv: a settlement's row is    *)
(* made once, by a run that has its number (FreshRows); a worker knows     *)
(* what it read, and one at most works on an order, a claimed settlement   *)
(* or a locked row (JobsInv); a report and a final status say what the     *)
(* transfers did (ReportsKnow, WithdrawalsTell, SettlementsTell). The      *)
(* books agree in every state once what a reversal or a release has        *)
(* claimed and not yet posted is counted (PendingSum).                     *)
(***************************************************************************)
EXTENDS RiderWallet, DualControl, VendorPayout, SumTheorems, FiniteSetTheorems, TLAPS

-----------------------------------------------------------------------------
(* Withdrawals *)

PayoutStatus == InFlight \union {"none", "PAID", "FAILED", "REJECTED"}
Approving == {"approve", "calling"}
Holding == {"calling", "reject", "settle", "fail"}
\* what a step on withdrawals may read or change
withdrawalVars == <<payout, sent, results, approvals, unanswered, overlapped>>

Typed ==
  /\ payout \in [Payout -> [status : PayoutStatus, amount : Nat]]
  /\ sent \in [Payout -> {"none", "pending", "success", "failed"}]
  /\ results \subseteq Payout \X BOOLEAN
  /\ DOMAIN task = Handler
  /\ \A h \in Handler : task[h].kind \in Approving \union Holding => task[h].id \in Payout

OneApproval ==
  /\ \A h \in Handler : task[h].kind \in Approving =>
       task[h].id \in approvals /\ payout[task[h].id].status # "none"
  /\ \A g, h \in Handler : task[g].kind \in Approving /\ task[h].kind \in Approving
                             /\ task[g].id = task[h].id => g = h
OneHolder ==
  \A g, h \in Handler : task[g].kind \in Holding /\ task[h].kind \in Holding
                          /\ task[g].id = task[h].id => g = h

\* what a handler that holds the row knows
HolderKnows == \A h \in Handler :
  /\ task[h].kind = "reject" => payout[task[h].id].status = "REQUESTED"
  /\ task[h].kind = "calling" =>
       payout[task[h].id].status = "REQUESTED" \/ task[h].id \in overlapped
  /\ task[h].kind = "settle" => sent[task[h].id] = "success"
  /\ task[h].kind = "fail" => sent[task[h].id] = "failed"

\* what a report and an undecided status say of the transfer
ReportsAreTrue == \A w \in Payout :
  /\ <<w, TRUE>> \in results => sent[w] = "success"
  /\ <<w, FALSE>> \in results => sent[w] = "failed"
UnsentUntilCalled == \A w \in Payout :
  payout[w].status \in {"none", "REQUESTED"} => sent[w] = "none" \/ w \in unanswered

WithdrawalsInv == Typed /\ OneApproval /\ OneHolder /\ HolderKnows /\ ReportsAreTrue
        /\ UnsentUntilCalled /\ PaidOrRefunded

\* Nothing has been asked for when a behaviour begins.
LEMMA WithdrawalsInit == WalletInit => WithdrawalsInv
  BY DEF WalletInit, WithdrawalsInv, Typed, OneApproval, OneHolder, HolderKnows, ReportsAreTrue, UnsentUntilCalled,
         PaidOrRefunded, PayoutStatus, InFlight, Approving, Holding, NoPayout, NoTask

\* A handler that turns to, or ends, work that is not on a withdrawal disturbs none.
LEMMA OtherWork ==
  ASSUME WithdrawalsInv, NEW h \in Handler, NEW work, work.kind \notin Approving \union Holding,
         task' = [task EXCEPT ![h] = work], UNCHANGED withdrawalVars
  PROVE  WithdrawalsInv'
  BY DEF WithdrawalsInv, Typed, OneApproval, OneHolder, HolderKnows, ReportsAreTrue, UnsentUntilCalled,
         PaidOrRefunded, Approving, Holding, withdrawalVars

\* The same, when no handler moves.
LEMMA NoWork == WithdrawalsInv /\ UNCHANGED <<withdrawalVars, task>> => WithdrawalsInv'
  BY DEF WithdrawalsInv, Typed, OneApproval, OneHolder, HolderKnows, ReportsAreTrue, UnsentUntilCalled,
         PaidOrRefunded, withdrawalVars

\* The handlers of trips, cash and adjustments, and a handler that dies.
LEMMA OtherSteps ==
  ASSUME WithdrawalsInv, NEW h \in Handler,
         \/ \E t \in Trip : BeginTrip(h, t)
         \/ Earn(h) \/ BeginClear(h) \/ clearEarnings(h)
         \/ \E a \in Admin, n \in Sum : BeginVerify(h, a, n)
         \/ verifyRiderRemittance(h)
         \/ \E kind \in AdjustKind, n \in Sum : BeginAdjust(h, kind, n)
         \/ adjustWallet(h)
         \/ WalletCrash(h)
  PROVE  WithdrawalsInv'
<1>0. NoTask.kind \notin Approving \union Holding
  BY DEF NoTask, Approving, Holding
<1>1. CASE \E t \in Trip : BeginTrip(h, t)
  BY <1>1, OtherWork DEF BeginTrip, Begin, told, refs, withdrawalVars, Approving, Holding
<1>2. CASE Earn(h)
  BY <1>0, <1>2, OtherWork DEF Earn, End, refs, withdrawalVars
<1>3. CASE BeginClear(h)
  BY <1>3, OtherWork DEF BeginClear, Begin, told, refs, withdrawalVars, Approving, Holding
<1>4. CASE clearEarnings(h)
  BY <1>0, <1>4, OtherWork DEF clearEarnings, End, refs, withdrawalVars
<1>5. CASE \E a \in Admin, n \in Sum : BeginVerify(h, a, n)
  BY <1>5, OtherWork DEF BeginVerify, Begin, told, refs, withdrawalVars, Approving, Holding
<1>6. CASE verifyRiderRemittance(h)
  BY <1>0, <1>6, OtherWork DEF verifyRiderRemittance, End, withdrawalVars
<1>7. CASE \E kind \in AdjustKind, n \in Sum : BeginAdjust(h, kind, n)
  BY <1>7, OtherWork DEF BeginAdjust, Begin, AdjustKind, told, refs, withdrawalVars, Approving, Holding
<1>8. CASE adjustWallet(h)
  BY <1>0, <1>8, OtherWork DEF adjustWallet, End, withdrawalVars
<1>9. CASE WalletCrash(h)
  BY <1>0, <1>9, OtherWork DEF WalletCrash, End, refs, withdrawalVars
<1>10. QED
  BY <1>1, <1>2, <1>3, <1>4, <1>5, <1>6, <1>7, <1>8, <1>9

\* A handler that holds no row reads the wallet again.
LEMMA ReadWalletStep ==
  ASSUME WithdrawalsInv, NEW h \in Handler, ReadWallet(h)
  PROVE  WithdrawalsInv'
<1>1. \A g \in Handler : task'[g].kind = task[g].kind /\ task'[g].id = task[g].id
  BY DEF ReadWallet, WithdrawalsInv, Typed
<1>2. DOMAIN task' = DOMAIN task
  BY DEF ReadWallet
<1>3. UNCHANGED <<payout, sent, results, approvals, unanswered, overlapped>>
  BY DEF ReadWallet, told, refs
<1>4. Typed' /\ OneApproval'
  BY <1>1, <1>2, <1>3 DEF WithdrawalsInv, Typed, OneApproval
<1>5. OneHolder' /\ HolderKnows'
  BY <1>1, <1>3 DEF WithdrawalsInv, OneHolder, HolderKnows
<1>6. ReportsAreTrue' /\ UnsentUntilCalled' /\ PaidOrRefunded'
  BY <1>3 DEF WithdrawalsInv, ReportsAreTrue, UnsentUntilCalled, PaidOrRefunded
<1>7. QED
  BY <1>4, <1>5, <1>6 DEF WithdrawalsInv

\* A request: the row was free, so no handler works on it.
LEMMA RequestStep ==
  ASSUME WithdrawalsInv, NEW w \in Payout, NEW n \in Sum, requestWithdrawal(w, n)
  PROVE  WithdrawalsInv'
<1>1. n \in Nat
  BY WalletAssumption
<1>2. QED
  BY <1>1 DEF requestWithdrawal, told, refs, WithdrawalsInv, Typed, OneApproval, OneHolder, HolderKnows, ReportsAreTrue,
         UnsentUntilCalled, PaidOrRefunded, PayoutStatus, InFlight, Approving, Holding

\* The provider ends a transfer.
LEMMA TransferDoneStep ==
  ASSUME WithdrawalsInv, NEW w \in Payout, TransferDone(w)
  PROVE  WithdrawalsInv'
<1>1. PICK ok \in BOOLEAN : /\ sent' = [sent EXCEPT ![w] = IF ok THEN "success" ELSE "failed"]
                           /\ results' \in {results, results \union {<<w, ok>>}}
  BY DEF TransferDone
<1>2. UNCHANGED <<payout, task, approvals, unanswered, overlapped>> /\ sent[w] = "pending"
  BY DEF TransferDone, told, refs
<1>3. /\ sent'[w] = IF ok THEN "success" ELSE "failed"
      /\ \A v \in Payout \ {w} : sent'[v] = sent[v]
  BY <1>1 DEF WithdrawalsInv, Typed
<1>4. Typed'
  <2>1. sent' \in [Payout -> {"none", "pending", "success", "failed"}]
    BY <1>1 DEF WithdrawalsInv, Typed
  <2>2. results' \subseteq Payout \X BOOLEAN
    BY <1>1 DEF WithdrawalsInv, Typed
  <2>3. QED
    BY <1>2, <2>1, <2>2 DEF WithdrawalsInv, Typed
<1>5. OneApproval' /\ OneHolder'
  BY <1>2 DEF WithdrawalsInv, OneApproval, OneHolder
<1>6. HolderKnows'
  BY <1>2, <1>3 DEF WithdrawalsInv, Typed, HolderKnows, Holding
<1>7. ReportsAreTrue'
  <2>1. \A v \in Payout, b \in BOOLEAN : <<v, b>> \in results' => <<v, b>> \in results \/ (v = w /\ b = ok)
    BY <1>1
  <2>2. <<w, TRUE>> \notin results /\ <<w, FALSE>> \notin results
    BY <1>2 DEF WithdrawalsInv, ReportsAreTrue
  <2>3. QED
    BY <1>3, <2>1, <2>2 DEF WithdrawalsInv, ReportsAreTrue
<1>8. UnsentUntilCalled' /\ PaidOrRefunded'
  BY <1>2, <1>3 DEF WithdrawalsInv, UnsentUntilCalled, PaidOrRefunded
<1>9. QED
  BY <1>4, <1>5, <1>6, <1>7, <1>8 DEF WithdrawalsInv

\* A gated approval begins, once for each withdrawal.
LEMMA BeginApproveStep ==
  ASSUME WithdrawalsInv, NEW h \in Handler, NEW w \in Payout, BeginApprove(h, w)
  PROVE  WithdrawalsInv'
<1>1. /\ DOMAIN task' = Handler
      /\ task'[h].kind = "approve" /\ task'[h].id = w
      /\ \A g \in Handler \ {h} : task'[g] = task[g]
  BY DEF BeginApprove, Begin, WithdrawalsInv, Typed
<1>2. /\ payout[w].status = "REQUESTED" /\ w \notin approvals /\ approvals' = approvals \union {w}
      /\ UNCHANGED <<payout, sent, results, unanswered, overlapped>>
  BY DEF BeginApprove, told
<1>3. Typed'
  BY <1>1, <1>2 DEF WithdrawalsInv, Typed
<1>4. OneApproval'
  BY <1>1, <1>2 DEF WithdrawalsInv, OneApproval, Approving
<1>5. OneHolder' /\ HolderKnows'
  BY <1>1, <1>2 DEF WithdrawalsInv, OneHolder, HolderKnows, Holding
<1>6. ReportsAreTrue' /\ UnsentUntilCalled' /\ PaidOrRefunded'
  BY <1>2 DEF WithdrawalsInv, ReportsAreTrue, UnsentUntilCalled, PaidOrRefunded
<1>7. QED
  BY <1>3, <1>4, <1>5, <1>6 DEF WithdrawalsInv

\* It saves APPROVED, and from then on holds the row.
LEMMA SaveApprovedStep ==
  ASSUME WithdrawalsInv, NEW h \in Handler, SaveApproved(h)
  PROVE  WithdrawalsInv'
<1>1. /\ task[h].kind = "approve" /\ task[h].id \in Payout
      /\ DOMAIN task' = Handler
      /\ task'[h].kind = "calling" /\ task'[h].id = task[h].id
      /\ \A g \in Handler \ {h} : task'[g] = task[g]
  BY DEF SaveApproved, At, WithdrawalsInv, Typed, Approving
<1>2. \A g \in Handler : task[g].kind \in Holding => task[g].id # task[h].id
  BY DEF SaveApproved, RowLocked, Holding
<1>3. payout[task[h].id].status = "REQUESTED" \/ task[h].id \in overlapped'
  BY DEF SaveApproved
<1>4. overlapped \subseteq overlapped'
  BY DEF SaveApproved
<1>5. UNCHANGED <<payout, sent, results, approvals, unanswered>>
  BY DEF SaveApproved, refs
<1>6. Typed' /\ OneApproval'
  BY <1>1, <1>5 DEF WithdrawalsInv, Typed, OneApproval, Approving, Holding
<1>7. OneHolder'
  BY <1>1, <1>2 DEF WithdrawalsInv, OneHolder, Holding
<1>8. HolderKnows'
  BY <1>1, <1>3, <1>4, <1>5 DEF WithdrawalsInv, HolderKnows
<1>9. ReportsAreTrue' /\ UnsentUntilCalled' /\ PaidOrRefunded'
  BY <1>4, <1>5 DEF WithdrawalsInv, ReportsAreTrue, UnsentUntilCalled, PaidOrRefunded
<1>10. QED
  BY <1>6, <1>7, <1>8, <1>9 DEF WithdrawalsInv

\* A rejection, a report or the sweeper claims a row nobody holds.
LEMMA HoldStep ==
  ASSUME WithdrawalsInv, NEW h \in Handler, NEW w \in Payout, NEW work, work.id = w,
         work.kind \in {"reject", "settle", "fail"},
         work.kind = "reject" => payout[w].status = "REQUESTED",
         work.kind = "settle" => sent[w] = "success",
         work.kind = "fail" => sent[w] = "failed",
         ~RowLocked(w), task' = [task EXCEPT ![h] = work], UNCHANGED withdrawalVars
  PROVE  WithdrawalsInv'
<1>1. /\ DOMAIN task' = Handler /\ task'[h] = work
      /\ \A g \in Handler \ {h} : task'[g] = task[g]
  BY DEF WithdrawalsInv, Typed
<1>2. \A g \in Handler : task[g].kind \in Holding => task[g].id # w
  BY DEF RowLocked, Holding
<1>3. UNCHANGED <<payout, sent, results, approvals, unanswered, overlapped>>
  BY DEF withdrawalVars
<1>4. Typed' /\ OneApproval'
  BY <1>1, <1>3 DEF WithdrawalsInv, Typed, OneApproval, Approving, Holding
<1>5. OneHolder'
  BY <1>1, <1>2 DEF WithdrawalsInv, OneHolder, Holding
<1>6. HolderKnows'
  BY <1>1, <1>3 DEF WithdrawalsInv, HolderKnows
<1>7. ReportsAreTrue' /\ UnsentUntilCalled' /\ PaidOrRefunded'
  BY <1>3 DEF WithdrawalsInv, ReportsAreTrue, UnsentUntilCalled, PaidOrRefunded
<1>8. QED
  BY <1>4, <1>5, <1>6, <1>7 DEF WithdrawalsInv

LEMMA BeginRejectStep ==
  ASSUME WithdrawalsInv, NEW h \in Handler, NEW w \in Payout, BeginReject(h, w)
  PROVE  WithdrawalsInv'
  BY HoldStep DEF BeginReject, Begin, told, refs, withdrawalVars

LEMMA ReconcileStep ==
  ASSUME WithdrawalsInv, NEW h \in Handler, NEW w \in Payout, reconcileStaleTransfers(h, w)
  PROVE  WithdrawalsInv'
<1> DEFINE work == [kind |-> IF sent[w] = "success" THEN "settle" ELSE "fail", row |-> wallet, id |-> w, n |-> 0]
<1>1. task' = [task EXCEPT ![h] = work] /\ ~RowLocked(w) /\ sent[w] \in {"success", "failed"}
  BY DEF reconcileStaleTransfers
<1>2. UNCHANGED withdrawalVars
  BY DEF reconcileStaleTransfers, told, refs, withdrawalVars
<1>3. /\ work.id = w /\ work.kind \in {"reject", "settle", "fail"}
      /\ work.kind # "reject"
      /\ work.kind = "settle" => sent[w] = "success"
      /\ work.kind = "fail" => sent[w] = "failed"
  BY <1>1
<1>4. QED
  <2> HIDE DEF work
  <2>1. QED
    BY <1>1, <1>2, <1>3, HoldStep

LEMMA OnResultStep ==
  ASSUME WithdrawalsInv, NEW h \in Handler, NEW w \in Payout, NEW ok \in BOOLEAN, OnResult(h, w, ok)
  PROVE  WithdrawalsInv'
<1>1. CASE Claims(w) /\ ok
  <2>1. sent[w] = "success"
    BY <1>1 DEF OnResult, WithdrawalsInv, ReportsAreTrue
  <2>2. QED
    BY <1>1, <2>1, HoldStep DEF OnResult, Begin, told, refs, withdrawalVars
<1>2. CASE Claims(w) /\ ~ok
  <2>1. sent[w] = "failed"
    BY <1>2 DEF OnResult, WithdrawalsInv, ReportsAreTrue
  <2>2. QED
    BY <1>2, <2>1, HoldStep DEF OnResult, Begin, told, refs, withdrawalVars
<1>3. CASE ~Claims(w)
  <2>1. results' \subseteq results /\ UNCHANGED <<task, payout, sent, approvals, unanswered, overlapped>>
    BY <1>3 DEF OnResult, told, refs
  <2>2. Typed' /\ OneApproval' /\ OneHolder' /\ HolderKnows'
    BY <2>1 DEF WithdrawalsInv, Typed, OneApproval, OneHolder, HolderKnows
  <2>3. ReportsAreTrue' /\ UnsentUntilCalled' /\ PaidOrRefunded'
    BY <2>1 DEF WithdrawalsInv, ReportsAreTrue, UnsentUntilCalled, PaidOrRefunded
  <2>4. QED
    BY <2>2, <2>3 DEF WithdrawalsInv
<1>4. QED
  BY <1>1, <1>2, <1>3

\* The holder of a row ends its transaction with the row in some status and,
\* perhaps, the transfer begun: what it may leave behind.
LEMMA ReleaseStep ==
  ASSUME WithdrawalsInv, NEW h \in Handler, task[h].kind \in Holding, End(h),
         NEW w \in Payout, w = task[h].id,
         NEW status \in PayoutStatus \ {"none"}, NEW state \in {"none", "pending", "success", "failed"},
         payout' = [payout EXCEPT ![w].status = status],
         sent' = [sent EXCEPT ![w] = state],
         sent[w] = state \/ sent[w] = "none",
         UNCHANGED <<approvals, overlapped>>,
         unanswered \subseteq unanswered',
         results' \subseteq results \union {<<w, TRUE>>},
         <<w, TRUE>> \in results' => state = "success",
         status = "REQUESTED" => state = "none" \/ w \in unanswered',
         status = "PAID" => state = "success",
         status \in {"FAILED", "REJECTED"} => state \in {"none", "failed"} \/ w \in unanswered' \union overlapped
  PROVE  WithdrawalsInv'
<1>1. /\ DOMAIN task' = Handler /\ task'[h].kind = "idle"
      /\ \A g \in Handler \ {h} : task'[g] = task[g]
  BY DEF End, NoTask, WithdrawalsInv, Typed
<1>2. \A g \in Handler \ {h} : task[g].kind \in Holding => task[g].id # w
  BY DEF WithdrawalsInv, OneHolder
<1>3. \A v \in Payout \ {w} : payout'[v] = payout[v] /\ sent'[v] = sent[v]
  BY DEF WithdrawalsInv, Typed
<1>4. payout'[w].status = status /\ sent'[w] = state
  BY DEF WithdrawalsInv, Typed
<1>5. Typed'
  <2>1. payout' \in [Payout -> [status : PayoutStatus, amount : Nat]]
    BY DEF WithdrawalsInv, Typed
  <2>2. sent' \in [Payout -> {"none", "pending", "success", "failed"}]
    BY DEF WithdrawalsInv, Typed
  <2>3. results' \subseteq Payout \X BOOLEAN
    <3>1. <<w, TRUE>> \in Payout \X BOOLEAN
      OBVIOUS
    <3>2. results \subseteq Payout \X BOOLEAN
      BY DEF WithdrawalsInv, Typed
    <3>3. results' \subseteq results \union {<<w, TRUE>>}
      OBVIOUS
    <3>4. QED
      BY <3>1, <3>2, <3>3
  <2>4. \A g \in Handler : task'[g].kind \in Approving \union Holding => task'[g].id \in Payout
    BY <1>1 DEF WithdrawalsInv, Typed, Approving, Holding
  <2>5. QED
    BY <1>1, <2>1, <2>2, <2>3, <2>4 DEF Typed
<1>6. OneApproval'
  <2>1. \A g \in Handler : task'[g].kind \in Approving => g # h /\ task'[g] = task[g]
    BY <1>1 DEF Approving
  <2>2. \A g \in Handler : task'[g].kind \in Approving => task'[g].id \in Payout
    BY <2>1 DEF WithdrawalsInv, Typed
  <2>3. \A g \in Handler : task'[g].kind \in Approving => payout'[task'[g].id].status # "none"
    BY <1>3, <1>4, <2>1, <2>2 DEF WithdrawalsInv, OneApproval
  <2>4. QED
    BY <2>1, <2>3 DEF WithdrawalsInv, OneApproval
<1>7. OneHolder'
  BY <1>1 DEF WithdrawalsInv, OneHolder, Holding
<1>8. HolderKnows'
  <2>1. \A g \in Handler : task'[g].kind \in Holding =>
          g # h /\ task'[g] = task[g] /\ task[g].id \in Payout \ {w}
    BY <1>1, <1>2 DEF WithdrawalsInv, Typed, Holding
  <2>2. QED
    BY <1>3, <2>1 DEF WithdrawalsInv, HolderKnows, Holding
<1>9. ReportsAreTrue'
  BY <1>3, <1>4 DEF WithdrawalsInv, ReportsAreTrue
<1>10. UnsentUntilCalled' /\ PaidOrRefunded'
  BY <1>3, <1>4 DEF WithdrawalsInv, UnsentUntilCalled, PaidOrRefunded
<1>11. QED
  BY <1>5, <1>6, <1>7, <1>8, <1>9, <1>10 DEF WithdrawalsInv

\* A rejection gives back what nobody has sent, or sent without an answer.
LEMMA RejectStep ==
  ASSUME WithdrawalsInv, NEW h \in Handler, rejectWithdrawal(h)
  PROVE  WithdrawalsInv'
<1> DEFINE w == task[h].id
<1>1. task[h].kind = "reject" /\ w \in Payout
  BY DEF rejectWithdrawal, At, WithdrawalsInv, Typed, Holding
<1>2. /\ payout' = [payout EXCEPT ![w].status = "REJECTED"] /\ End(h)
      /\ UNCHANGED <<sent, results, approvals, unanswered, overlapped>>
  BY DEF rejectWithdrawal, Decide, refs
<1>3. sent[w] = "none" \/ w \in unanswered
  BY <1>1 DEF WithdrawalsInv, HolderKnows, UnsentUntilCalled
<1>4. sent[w] \in {"none", "pending", "success", "failed"} /\ sent' = [sent EXCEPT ![w] = sent[w]]
  BY <1>1, <1>2 DEF WithdrawalsInv, Typed
<1>5. <<w, TRUE>> \in results' => sent[w] = "success"
  BY <1>1, <1>2 DEF WithdrawalsInv, ReportsAreTrue
<1>6. task[h].kind \in Holding /\ "REJECTED" \in PayoutStatus \ {"none"}
  BY <1>1 DEF Holding, PayoutStatus
<1>7. QED
  BY <1>1, <1>2, <1>3, <1>4, <1>5, <1>6, ReleaseStep

\* The result of a transfer, from a report or from the sweeper.
LEMMA ResultStep ==
  ASSUME WithdrawalsInv, NEW h \in Handler, applyTransferResult(h)
  PROVE  WithdrawalsInv'
<1> DEFINE w == task[h].id
<1>1. task[h].kind \in {"settle", "fail"} /\ w \in Payout
  BY DEF applyTransferResult, WithdrawalsInv, Typed, Holding
<1>2. /\ UNCHANGED <<sent, approvals, unanswered, overlapped>> /\ End(h) /\ results' \subseteq results
      /\ task[h].kind = "settle" => payout' = [payout EXCEPT ![w].status = "PAID"]
      /\ task[h].kind = "fail" => payout' = [payout EXCEPT ![w].status = "FAILED"]
  BY <1>1 DEF applyTransferResult, At, Decide, refs
<1>3. sent[w] \in {"none", "pending", "success", "failed"} /\ sent' = [sent EXCEPT ![w] = sent[w]]
  BY <1>1, <1>2 DEF WithdrawalsInv, Typed
<1>4. <<w, TRUE>> \in results' => sent[w] = "success"
  BY <1>1, <1>2 DEF WithdrawalsInv, ReportsAreTrue
<1>5. task[h].kind \in Holding /\ {"PAID", "FAILED"} \subseteq PayoutStatus \ {"none"}
  BY <1>1 DEF Holding, PayoutStatus
<1>6. CASE task[h].kind = "settle"
  <2>1. sent[w] = "success"
    BY <1>6 DEF WithdrawalsInv, HolderKnows
  <2>2. QED
    BY <1>1, <1>2, <1>3, <1>4, <1>5, <1>6, <2>1, ReleaseStep
<1>7. CASE task[h].kind = "fail"
  <2>1. sent[w] = "failed"
    BY <1>7 DEF WithdrawalsInv, HolderKnows
  <2>2. QED
    BY <1>1, <1>2, <1>3, <1>4, <1>5, <1>7, <2>1, ReleaseStep
<1>8. QED
  BY <1>1, <1>6, <1>7

\* What an approval knows when its call ends.
LEMMA Calling ==
  ASSUME WithdrawalsInv, NEW h \in Handler, task[h].kind = "calling", sent[task[h].id] = "none"
  PROVE  /\ task[h].id \in Payout /\ task[h].kind \in Holding
         /\ payout[task[h].id].status \in PayoutStatus \ {"none", "PAID"}
         /\ <<task[h].id, TRUE>> \notin results
<1>1. task[h].id \in Payout /\ task[h].kind \in Holding
  BY DEF WithdrawalsInv, Typed, Holding
<1>2. payout[task[h].id].status # "none"
  BY DEF WithdrawalsInv, OneApproval, Approving
<1>3. payout[task[h].id].status # "PAID" /\ <<task[h].id, TRUE>> \notin results
  BY <1>1 DEF WithdrawalsInv, PaidOrRefunded, ReportsAreTrue
<1>4. payout[task[h].id].status \in PayoutStatus
  BY <1>1 DEF WithdrawalsInv, Typed
<1>5. QED
  BY <1>1, <1>2, <1>3, <1>4

\* The call is answered: paid, accepted or an error.
LEMMA CallStep ==
  ASSUME WithdrawalsInv, NEW h \in Handler, CallTransferOnce(h)
  PROVE  WithdrawalsInv'
<1> DEFINE w == task[h].id
<1>1. task[h].kind = "calling" /\ sent[w] = "none"
  BY DEF CallTransferOnce, At
<1>2. w \in Payout /\ task[h].kind \in Holding /\ <<w, TRUE>> \notin results
  BY <1>1, Calling
<1>3. UNCHANGED <<approvals, unanswered, overlapped>>
  BY DEF CallTransferOnce, refs
<1>4. {"PAID", "PROCESSING", "FAILED"} \subseteq PayoutStatus \ {"none"}
  BY DEF PayoutStatus, InFlight
<1>5. CASE /\ sent' = [sent EXCEPT ![w] = "success"] /\ results' = results \union {<<w, TRUE>>}
           /\ Decide(h, w, "PAID", Paid(task[h].row, w))
  <2>1. payout' = [payout EXCEPT ![w].status = "PAID"] /\ End(h)
    BY <1>5 DEF Decide
  <2>2. QED
    BY <1>1, <1>2, <1>3, <1>4, <1>5, <2>1, ReleaseStep
<1>6. CASE /\ sent' = [sent EXCEPT ![w] = "pending"] /\ payout' = [payout EXCEPT ![w].status = "PROCESSING"]
           /\ End(h) /\ results' = results
  BY <1>1, <1>2, <1>3, <1>4, <1>6, ReleaseStep
<1>7. CASE Decide(h, w, "FAILED", Refunded(task[h].row, w)) /\ UNCHANGED <<sent, results>>
  <2>1. payout' = [payout EXCEPT ![w].status = "FAILED"] /\ End(h)
    BY <1>7 DEF Decide
  <2>2. sent' = [sent EXCEPT ![w] = "none"]
    BY <1>1, <1>2, <1>7 DEF WithdrawalsInv, Typed
  <2>3. QED
    BY <1>1, <1>2, <1>3, <1>4, <1>7, <2>1, <2>2, ReleaseStep
<1>8. QED
  BY <1>5, <1>6, <1>7 DEF CallTransferOnce

\* The transfer runs and its answer is lost: an error's handling, or a rollback.
LEMMA LoseAnswerStep ==
  ASSUME WithdrawalsInv, NEW h \in Handler, LoseAnswer(h)
  PROVE  WithdrawalsInv'
<1> DEFINE w == task[h].id
<1>1. task[h].kind = "calling" /\ sent[w] = "none"
  BY DEF LoseAnswer, At
<1>2. /\ w \in Payout /\ task[h].kind \in Holding /\ <<w, TRUE>> \notin results
      /\ payout[w].status \in PayoutStatus \ {"none", "PAID"}
  BY <1>1, Calling
<1>3. /\ UNCHANGED <<results, approvals, overlapped>>
      /\ unanswered' = unanswered \union {w} /\ sent' = [sent EXCEPT ![w] = "pending"]
  BY DEF LoseAnswer, refs
<1>4. CASE Decide(h, w, "FAILED", Refunded(task[h].row, w))
  <2>1. payout' = [payout EXCEPT ![w].status = "FAILED"] /\ End(h) /\ "FAILED" \in PayoutStatus \ {"none"}
    BY <1>4 DEF Decide, PayoutStatus
  <2>2. QED
    BY <1>1, <1>2, <1>3, <2>1, ReleaseStep
<1>5. CASE End(h) /\ payout' = payout
  <2>1. payout' = [payout EXCEPT ![w].status = payout[w].status]
    BY <1>2, <1>5 DEF WithdrawalsInv, Typed
  <2>2. QED
    BY <1>1, <1>2, <1>3, <1>5, <2>1, ReleaseStep
<1>6. QED
  BY <1>4, <1>5 DEF LoseAnswer

\* Each step keeps WithdrawalsInv.
LEMMA WithdrawalsStep == WithdrawalsInv /\ [WalletNext]_walletVars => WithdrawalsInv'
<1> SUFFICES ASSUME WithdrawalsInv, [WalletNext]_walletVars PROVE WithdrawalsInv'
    OBVIOUS
<1>1. CASE UNCHANGED walletVars
  BY <1>1, NoWork DEF walletVars, refs, withdrawalVars
<1>2. CASE \E n \in Sum : remit(n)
  BY <1>2, NoWork DEF remit, refs, told, withdrawalVars
<1>3. ASSUME NEW w \in Payout, \/ \E n \in Sum : requestWithdrawal(w, n)
                               \/ TransferDone(w) PROVE WithdrawalsInv'
  BY <1>3, RequestStep, TransferDoneStep
<1>4. ASSUME NEW h \in Handler, NEW w \in Payout,
             \/ BeginApprove(h, w) \/ BeginReject(h, w) \/ reconcileStaleTransfers(h, w)
             \/ \E ok \in BOOLEAN : OnResult(h, w, ok) PROVE WithdrawalsInv'
  BY <1>4, BeginApproveStep, BeginRejectStep, ReconcileStep, OnResultStep
<1>5. ASSUME NEW h \in Handler,
             ReadWallet(h) \/ SaveApproved(h) \/ CallTransferOnce(h) \/ LoseAnswer(h)
             \/ rejectWithdrawal(h) \/ applyTransferResult(h) PROVE WithdrawalsInv'
  BY <1>5, ReadWalletStep, SaveApprovedStep, CallStep, LoseAnswerStep, RejectStep, ResultStep
<1>6. QED
  BY <1>1, <1>2, <1>3, <1>4, <1>5, OtherSteps DEF WalletNext

\* However requests, approvals, rejections, reports and the sweeper interleave, a
\* withdrawal that is paid was transferred, and one that was given back was not:
\* unless the transfer's answer was lost or an approval ran over a rejection.
THEOREM PaidOrGivenBack == WalletSpec => []PaidOrRefunded
<1>1. WalletInit => WithdrawalsInv
  BY WithdrawalsInit
<1>2. WithdrawalsInv /\ [WalletNext]_walletVars => WithdrawalsInv'
  BY WithdrawalsStep
<1>3. WithdrawalsInv => PaidOrRefunded
  BY DEF WithdrawalsInv
<1>4. QED
  BY <1>1, <1>2, <1>3, PTL DEF WalletSpec

-----------------------------------------------------------------------------
(* The wallet *)

MoneyRow == [pending : Nat, cleared : Nat, locked : Nat, cashOwed : Nat]
Deciding == {"reject", "settle", "fail"}

WalletTyped ==
  /\ trip \in [Trip -> {"none", "EXPECTED", "COLLECTED", "REMITTED"}]
  /\ wallet \in MoneyRow
  /\ pendingInJournal \in Int /\ granted \in Int
  /\ verified \subseteq Admin /\ approvals \subseteq Payout
  /\ steps \in 0..MaxSteps /\ walletFaults \in 0..MaxWalletFaults

\* what a handler knows of what it works on
WorkKnows(g) ==
  /\ DOMAIN task[g] = {"kind", "row", "id", "n"} /\ task[g].row \in MoneyRow
  /\ task[g].kind = "trip" => task[g].id \in Trip /\ trip[task[g].id] = "none"
  /\ task[g].kind = "verify" =>
       task[g].id.admin \in Admin /\ \A t \in task[g].id.rows : t \in Trip /\ trip[t] # "none"
  /\ task[g].kind \in AdjustKind \union {"verify"} => task[g].n \in Nat
  /\ task[g].kind \in Deciding => payout[task[g].id].status \in InFlight
OneDelivery ==
  \A g, h \in Handler : task[g].kind = "trip" /\ task[h].kind = "trip" /\ task[g].id = task[h].id => g = h
WorkInv == (\A g \in Handler : WorkKnows(g)) /\ OneDelivery

Transit == SumFunctionOnSet([w \in Payout |-> InTransit(w)], Payout)
Spent == SumFunctionOnSet([w \in Payout |-> Cost(w)], Payout)
EarnedTrips == {t \in Trip : Earned(t)}
CashTrips == {t \in Trip : trip[t] \in {"EXPECTED", "COLLECTED"}}

JournalBook == pendingInJournal = Transit \/ overlapped # {}
TotalBook ==
  WalletTotal(wallet) = TripFee * Cardinality(EarnedTrips) + granted - Spent \/ staleSave \/ floored \/ overlapped # {}
CashBook == wallet.cashOwed = TripCash * Cardinality(CashTrips) \/ staleSave \/ oddAmount
WalletInv == WithdrawalsInv /\ WalletTyped /\ WorkInv /\ JournalBook /\ TotalBook /\ CashBook

\* What is in flight and what is spent are amounts.
SpentFact == Typed => Transit \in Int /\ Spent \in Int
LEMMA SpentNow == SpentFact
<1> SUFFICES ASSUME Typed PROVE Transit \in Int /\ Spent \in Int
  BY DEF SpentFact
<1>1. \A w \in Payout : payout[w].status \in PayoutStatus /\ payout[w].amount \in Int
  BY DEF Typed
<1>2. \A w \in Payout : InTransit(w) \in Int /\ Cost(w) \in Int
  BY <1>1, WalletAssumption DEF InTransit, Cost
<1>3. IsFiniteSet(Payout)
  BY WalletAssumption
<1> QED BY <1>2, <1>3, SumType DEF Transit, Spent
LEMMA SpentNext == SpentFact'
  BY SpentNow, PTL

\* They stay while the withdrawals do.
LEMMA SameSpent == ASSUME UNCHANGED payout PROVE Transit' = Transit /\ Spent' = Spent
  BY DEF Transit, Spent, InTransit, Cost

\* One withdrawal changes its own terms.
LEMMA OnePayout ==
  ASSUME Typed, Typed', NEW w \in Payout, \A v \in Payout \ {w} : payout'[v] = payout[v]
  PROVE  Transit' = Transit - InTransit(w) + InTransit(w)' /\ Spent' = Spent - Cost(w) + Cost(w)'
<1>1. /\ \A v \in Payout : payout[v].status \in PayoutStatus /\ payout[v].amount \in Int
      /\ \A v \in Payout : payout'[v].status \in PayoutStatus /\ payout'[v].amount \in Int
  BY DEF Typed
<1>2. IsFiniteSet(Payout) /\ PayoutFee \in Int
  BY WalletAssumption
<1>3. Transit' = Transit - InTransit(w) + InTransit(w)'
  <2> DEFINE f == [v \in Payout |-> InTransit(v)]
             g == [v \in Payout |-> InTransit(v)']
  <2>1. \A v \in Payout : f[v] \in Int /\ g[v] \in Int
    BY <1>1 DEF InTransit
  <2>2. \A v \in Payout \ {w} : f[v] = g[v]
    BY DEF InTransit
  <2>3. f[w] = InTransit(w) /\ g[w] = InTransit(w)'
    OBVIOUS
  <2>4. Transit = SumFunctionOnSet(f, Payout) /\ Transit' = SumFunctionOnSet(g, Payout)
    BY DEF Transit
  <2> HIDE DEF f, g
  <2>5. SumFunctionOnSet(g, Payout) = SumFunctionOnSet(f, Payout) - f[w] + g[w]
    BY <1>2, <2>1, <2>2, SumChange
  <2> QED BY <2>3, <2>4, <2>5
<1>4. Spent' = Spent - Cost(w) + Cost(w)'
  <2> DEFINE f == [v \in Payout |-> Cost(v)]
             g == [v \in Payout |-> Cost(v)']
  <2>1. \A v \in Payout : f[v] \in Int /\ g[v] \in Int
    BY <1>1, <1>2 DEF Cost
  <2>2. \A v \in Payout \ {w} : f[v] = g[v]
    BY DEF Cost
  <2>3. f[w] = Cost(w) /\ g[w] = Cost(w)'
    OBVIOUS
  <2>4. Spent = SumFunctionOnSet(f, Payout) /\ Spent' = SumFunctionOnSet(g, Payout)
    BY DEF Spent
  <2> HIDE DEF f, g
  <2>5. SumFunctionOnSet(g, Payout) = SumFunctionOnSet(f, Payout) - f[w] + g[w]
    BY <1>2, <2>1, <2>2, SumChange
  <2> QED BY <2>3, <2>4, <2>5
<1> QED BY <1>3, <1>4

\* A handler that ends its work leaves the others theirs.
LEMMA EndsWork ==
  ASSUME WorkInv, NEW h \in Handler, DOMAIN task = Handler, task' = [task EXCEPT ![h] = NoTask],
         \A g \in Handler \ {h} : task[g].kind = "trip" => trip'[task[g].id] = "none",
         \A t \in Trip : trip[t] # "none" => trip'[t] # "none",
         \A g \in Handler \ {h} : task[g].kind \in Deciding => payout'[task[g].id].status = payout[task[g].id].status
  PROVE  WorkInv'
<1>1. task'[h] = NoTask /\ \A g \in Handler \ {h} : task'[g] = task[g]
  OBVIOUS
<1>2. \A g \in Handler \ {h} : WorkKnows(g)'
  <2> TAKE g \in Handler \ {h}
  <2>1. task'[g] = task[g] /\ WorkKnows(g)
    BY <1>1 DEF WorkInv
  <2> QED BY <2>1 DEF WorkKnows
<1>3. WorkKnows(h)'
  <2>1. /\ DOMAIN NoTask = {"kind", "row", "id", "n"} /\ NoTask.row \in MoneyRow
        /\ NoTask.kind \notin {"trip", "verify"} \union AdjustKind \union Deciding
    BY DEF NoTask, EmptyWallet, MoneyRow, AdjustKind, Deciding
  <2> QED BY <1>1, <2>1 DEF WorkKnows
<1>4. OneDelivery'
  <2>1. \A g \in Handler : task'[g].kind = "trip" => g # h /\ task'[g] = task[g]
    BY <1>1 DEF NoTask
  <2> QED BY <2>1 DEF WorkInv, OneDelivery
<1> QED BY <1>2, <1>3, <1>4 DEF WorkInv

\* A handler that turns to other work changes no row, so the others still know.
LEMMA TurnsTo ==
  ASSUME WorkInv, NEW h \in Handler, DOMAIN task = Handler, NEW work, task' = [task EXCEPT ![h] = work],
         UNCHANGED <<trip, payout>>,
         DOMAIN work = {"kind", "row", "id", "n"}, work.row \in MoneyRow,
         work.kind = "trip" => work.id \in Trip /\ trip[work.id] = "none" /\ \A g \in Handler : task[g].id # work.id,
         work.kind = "verify" =>
           work.id.admin \in Admin /\ \A t \in work.id.rows : t \in Trip /\ trip[t] # "none",
         work.kind \in AdjustKind \union {"verify"} => work.n \in Nat,
         work.kind \in Deciding => payout[work.id].status \in InFlight
  PROVE  WorkInv'
<1>1. task'[h] = work /\ \A g \in Handler \ {h} : task'[g] = task[g]
  OBVIOUS
<1>2. \A g \in Handler \ {h} : WorkKnows(g)'
  <2> TAKE g \in Handler \ {h}
  <2>1. task'[g] = task[g] /\ WorkKnows(g)
    BY <1>1 DEF WorkInv
  <2> QED BY <2>1 DEF WorkKnows
<1>3. WorkKnows(h)'
  BY <1>1 DEF WorkKnows
<1>4. OneDelivery'
  BY <1>1 DEF WorkInv, OneDelivery
<1> QED BY <1>2, <1>3, <1>4 DEF WorkInv

\* What no step but these changes, stays as the books have it.
LEMMA BooksStay ==
  ASSUME WalletInv, WithdrawalsInv', WorkInv',
         UNCHANGED <<trip, wallet, payout, pendingInJournal, granted, staleSave, oddAmount, floored, verified>>,
         overlapped \subseteq overlapped', approvals' \subseteq Payout,
         steps' \in 0..MaxSteps, walletFaults' \in 0..MaxWalletFaults
  PROVE  WalletInv'
<1>1. Transit' = Transit /\ Spent' = Spent
  BY SameSpent
<1>2. WalletTyped'
  BY DEF WalletInv, WalletTyped
<1>3. JournalBook'
  BY <1>1 DEF WalletInv, JournalBook
<1>4. TotalBook'
  BY <1>1 DEF WalletInv, TotalBook, WalletTotal, EarnedTrips, Earned
<1>5. CashBook'
  BY DEF WalletInv, CashBook, CashTrips
<1> QED BY <1>2, <1>3, <1>4, <1>5 DEF WalletInv

\* The steps that begin work, or read the wallet again.
LEMMA WorkBegins ==
  ASSUME WalletInv, WithdrawalsInv', NEW h \in Handler, NEW work, task' = [task EXCEPT ![h] = work],
         UNCHANGED <<trip, wallet, payout, pendingInJournal, granted, staleSave, oddAmount, floored, verified>>,
         overlapped \subseteq overlapped', approvals' \subseteq Payout,
         steps' \in 0..MaxSteps, walletFaults' \in 0..MaxWalletFaults,
         DOMAIN work = {"kind", "row", "id", "n"}, work.row \in MoneyRow,
         work.kind = "trip" => work.id \in Trip /\ trip[work.id] = "none" /\ \A g \in Handler : task[g].id # work.id,
         work.kind = "verify" =>
           work.id.admin \in Admin /\ \A t \in work.id.rows : t \in Trip /\ trip[t] # "none",
         work.kind \in AdjustKind \union {"verify"} => work.n \in Nat,
         work.kind \in Deciding => payout[work.id].status \in InFlight
  PROVE  WalletInv'
<1>1. WorkInv /\ DOMAIN task = Handler
  BY DEF WalletInv, WithdrawalsInv, Typed
<1>2. WorkInv'
  BY <1>1, TurnsTo
<1> QED BY <1>2, BooksStay

\* What Begin makes of a handler.
LEMMA BeginDoesWork ==
  ASSUME WalletInv, NEW h, NEW kind, NEW id, NEW n, Begin(h, kind, id, n)
  PROVE  /\ task' = [task EXCEPT ![h] = [kind |-> kind, row |-> wallet, id |-> id, n |-> n]]
         /\ wallet \in MoneyRow /\ steps' \in 0..MaxSteps
BY WalletAssumption DEF Begin, WalletInv, WalletTyped

LEMMA BeginsKeepBooks ==
  ASSUME WalletInv, WithdrawalsInv', NEW h \in Handler,
         \/ \E t \in Trip : BeginTrip(h, t)
         \/ BeginClear(h)
         \/ \E a \in Admin, n \in Sum : BeginVerify(h, a, n)
         \/ \E kind \in AdjustKind, n \in Sum : BeginAdjust(h, kind, n)
         \/ \E w \in Payout : BeginApprove(h, w) \/ BeginReject(h, w)
  PROVE  WalletInv'
<1>0. approvals \subseteq Payout /\ walletFaults \in 0..MaxWalletFaults /\ Sum \subseteq Nat
  BY WalletAssumption DEF WalletInv, WalletTyped
<1>1. ASSUME NEW t \in Trip, BeginTrip(h, t) PROVE WalletInv'
  <2> DEFINE work == [kind |-> "trip", row |-> wallet, id |-> t, n |-> 0]
  <2>1. trip[t] = "none" /\ (\A g \in Handler : task[g].id # t) /\ Begin(h, "trip", t, 0)
    BY <1>1 DEF BeginTrip
  <2>2. UNCHANGED <<trip, wallet, payout, pendingInJournal, refs, told>>
    BY <1>1 DEF BeginTrip
  <2>3. task' = [task EXCEPT ![h] = work] /\ work.row \in MoneyRow /\ steps' \in 0..MaxSteps
    BY <2>1, BeginDoesWork
  <2>4. work.kind \notin {"verify"} \union AdjustKind \union Deciding /\ DOMAIN work = {"kind", "row", "id", "n"} /\ work.id = t
    BY DEF AdjustKind, Deciding
  <2> HIDE DEF work
  <2> QED BY <1>0, <2>1, <2>2, <2>3, <2>4, WorkBegins DEF refs, told
<1>2. ASSUME BeginClear(h) PROVE WalletInv'
  <2> DEFINE work == [kind |-> "clear", row |-> wallet, id |-> "none", n |-> 0]
  <2>1. Begin(h, "clear", "none", 0) /\ UNCHANGED <<trip, wallet, payout, pendingInJournal, refs, told>>
    BY <1>2 DEF BeginClear
  <2>2. task' = [task EXCEPT ![h] = work] /\ work.row \in MoneyRow /\ steps' \in 0..MaxSteps
    BY <2>1, BeginDoesWork
  <2>3. work.kind \notin {"trip", "verify"} \union AdjustKind \union Deciding /\ DOMAIN work = {"kind", "row", "id", "n"}
    BY DEF AdjustKind, Deciding
  <2> HIDE DEF work
  <2> QED BY <1>0, <2>1, <2>2, <2>3, WorkBegins DEF refs, told
<1>3. ASSUME NEW a \in Admin, NEW n \in Sum, BeginVerify(h, a, n) PROVE WalletInv'
  <2>1. PICK batch \in SUBSET Trip : Whole("COLLECTED", n, batch) /\ Begin(h, "verify", [admin |-> a, rows |-> batch], n)
    BY <1>3 DEF BeginVerify
  <2> DEFINE work == [kind |-> "verify", row |-> wallet, id |-> [admin |-> a, rows |-> batch], n |-> n]
  <2>2. UNCHANGED <<trip, wallet, payout, pendingInJournal, refs, told>>
    BY <1>3 DEF BeginVerify
  <2>3. task' = [task EXCEPT ![h] = work] /\ work.row \in MoneyRow /\ steps' \in 0..MaxSteps
    BY <2>1, BeginDoesWork
  <2>4. work.kind \notin {"trip"} \union Deciding /\ DOMAIN work = {"kind", "row", "id", "n"} /\ work.n \in Nat
    BY <1>0 DEF Deciding
  <2>5. work.id.admin \in Admin /\ \A t \in work.id.rows : t \in Trip /\ trip[t] # "none"
    BY <2>1 DEF Whole
  <2> HIDE DEF work
  <2> QED BY <1>0, <2>2, <2>3, <2>4, <2>5, WorkBegins DEF refs, told
<1>4. ASSUME NEW kind \in AdjustKind, NEW n \in Sum, BeginAdjust(h, kind, n) PROVE WalletInv'
  <2> DEFINE work == [kind |-> kind, row |-> wallet, id |-> "none", n |-> n]
  <2>1. Begin(h, kind, "none", n) /\ UNCHANGED <<trip, wallet, payout, pendingInJournal, refs, told>>
    BY <1>4 DEF BeginAdjust
  <2>2. task' = [task EXCEPT ![h] = work] /\ work.row \in MoneyRow /\ steps' \in 0..MaxSteps
    BY <2>1, BeginDoesWork
  <2>3. work.kind \notin {"trip", "verify"} \union Deciding /\ DOMAIN work = {"kind", "row", "id", "n"} /\ work.n \in Nat
    BY <1>0 DEF AdjustKind, Deciding
  <2> HIDE DEF work
  <2> QED BY <1>0, <2>1, <2>2, <2>3, WorkBegins DEF refs, told
<1>5. ASSUME NEW w \in Payout, NEW kind \in {"approve", "reject"}, Begin(h, kind, w, 0), payout[w].status = "REQUESTED",
             approvals' \subseteq Payout, UNCHANGED <<trip, wallet, payout, pendingInJournal, verified, told>>
      PROVE WalletInv'
  <2> DEFINE work == [kind |-> kind, row |-> wallet, id |-> w, n |-> 0]
  <2>1. task' = [task EXCEPT ![h] = work] /\ work.row \in MoneyRow /\ steps' \in 0..MaxSteps
    BY <1>5, BeginDoesWork
  <2>2. work.kind \notin {"trip", "verify"} \union AdjustKind /\ DOMAIN work = {"kind", "row", "id", "n"}
    BY DEF AdjustKind
  <2>3. payout[work.id].status \in InFlight
    BY <1>5 DEF InFlight
  <2> HIDE DEF work
  <2> QED BY <1>0, <1>5, <2>1, <2>2, <2>3, WorkBegins DEF told
<1>6. ASSUME NEW w \in Payout, BeginApprove(h, w) PROVE WalletInv'
  BY <1>0, <1>5, <1>6 DEF BeginApprove
<1>7. ASSUME NEW w \in Payout, BeginReject(h, w) PROVE WalletInv'
  BY <1>0, <1>5, <1>7 DEF BeginReject, refs
<1> QED BY <1>1, <1>2, <1>3, <1>4, <1>6, <1>7

\* The sweeper and a report claim a withdrawal that is in flight; the call reads
\* the wallet, and a verification may read it again.
LEMMA ClaimsKeepBooks ==
  ASSUME WalletInv, WithdrawalsInv', NEW h \in Handler,
         \/ \E w \in Payout : reconcileStaleTransfers(h, w) \/ \E ok \in BOOLEAN : OnResult(h, w, ok)
         \/ SaveApproved(h) \/ ReadWallet(h)
  PROVE  WalletInv'
<1>0. /\ approvals \subseteq Payout /\ walletFaults \in 0..MaxWalletFaults /\ steps \in 0..MaxSteps
      /\ wallet \in MoneyRow /\ DOMAIN task = Handler
  BY DEF WalletInv, WalletTyped, WithdrawalsInv, Typed
<1>1. ASSUME NEW w \in Payout, NEW kind \in {"settle", "fail"}, NEW n, payout[w].status \in InFlight,
             task' = [task EXCEPT ![h] = [kind |-> kind, row |-> wallet, id |-> w, n |-> n]], steps' \in 0..MaxSteps,
             UNCHANGED <<trip, wallet, payout, pendingInJournal, refs, told>>
      PROVE WalletInv'
  <2> DEFINE work == [kind |-> kind, row |-> wallet, id |-> w, n |-> n]
  <2>1. work.kind \notin {"trip", "verify"} \union AdjustKind /\ DOMAIN work = {"kind", "row", "id", "n"}
        /\ work.row \in MoneyRow /\ payout[work.id].status \in InFlight
    BY <1>0, <1>1 DEF AdjustKind
  <2>2. task' = [task EXCEPT ![h] = work]
    BY <1>1
  <2> HIDE DEF work
  <2> QED BY <1>0, <1>1, <2>1, <2>2, WorkBegins DEF refs, told
<1>2. ASSUME NEW w \in Payout, reconcileStaleTransfers(h, w) PROVE WalletInv'
  <2>1. PICK kind \in {"settle", "fail"} : task' = [task EXCEPT ![h] = [kind |-> kind, row |-> wallet, id |-> w, n |-> 0]]
    BY <1>2 DEF reconcileStaleTransfers
  <2>2. payout[w].status \in InFlight /\ UNCHANGED <<trip, wallet, payout, pendingInJournal, refs, steps, told>>
    BY <1>2 DEF reconcileStaleTransfers, Unreported, InFlight
  <2> QED BY <1>0, <1>1, <2>1, <2>2
<1>3. ASSUME NEW w \in Payout, NEW ok \in BOOLEAN, OnResult(h, w, ok) PROVE WalletInv'
  <2>1. UNCHANGED <<trip, wallet, payout, pendingInJournal, refs, told>>
    BY <1>3 DEF OnResult
  <2>2. CASE Claims(w)
    <3>1. PICK kind \in {"settle", "fail"} : Begin(h, kind, w, 1)
      BY <1>3, <2>2 DEF OnResult
    <3>2. task' = [task EXCEPT ![h] = [kind |-> kind, row |-> wallet, id |-> w, n |-> 1]] /\ steps' \in 0..MaxSteps
      BY <3>1, BeginDoesWork
    <3> QED BY <1>1, <2>1, <2>2, <3>2 DEF Claims
  <2>3. CASE ~Claims(w)
    <3>1. UNCHANGED <<task, steps>>
      BY <1>3, <2>3 DEF OnResult
    <3>2. WorkInv'
      BY <2>1, <3>1 DEF WalletInv, WorkInv, WorkKnows, OneDelivery
    <3> QED BY <1>0, <2>1, <3>1, <3>2, BooksStay DEF refs, told
  <2> QED BY <2>2, <2>3
<1>4. ASSUME SaveApproved(h) PROVE WalletInv'
  <2> DEFINE work == [kind |-> "calling", row |-> wallet, id |-> task[h].id, n |-> 0]
  <2>1. task' = [task EXCEPT ![h] = work] /\ overlapped \subseteq overlapped'
    BY <1>4 DEF SaveApproved
  <2>2. UNCHANGED <<trip, wallet, payout, pendingInJournal, refs, steps, granted, staleSave, oddAmount, floored, walletFaults>>
    BY <1>4 DEF SaveApproved
  <2>3. work.kind \notin {"trip", "verify"} \union AdjustKind \union Deciding /\ DOMAIN work = {"kind", "row", "id", "n"}
        /\ work.row \in MoneyRow
    BY <1>0 DEF AdjustKind, Deciding
  <2> HIDE DEF work
  <2> QED BY <1>0, <2>1, <2>2, <2>3, WorkBegins DEF refs
<1>5. ASSUME ReadWallet(h) PROVE WalletInv'
  <2> DEFINE work == [task[h] EXCEPT !.row = wallet]
  <2>1. task' = [task EXCEPT ![h] = work] /\ task[h].kind \in {"verify", "calling"}
    BY <1>0, <1>5 DEF ReadWallet
  <2>2. UNCHANGED <<trip, wallet, payout, pendingInJournal, refs, steps, told>>
    BY <1>5 DEF ReadWallet
  <2>3. WorkKnows(h)
    BY DEF WalletInv, WorkInv
  <2>4. DOMAIN work = {"kind", "row", "id", "n"} /\ work.row = wallet /\ work.kind = task[h].kind
        /\ work.id = task[h].id /\ work.n = task[h].n
    BY <2>3 DEF WorkKnows
  <2>5. work.kind \notin {"trip"} \union Deciding
    BY <2>1, <2>4 DEF Deciding
  <2> HIDE DEF work
  <2> QED BY <1>0, <2>1, <2>2, <2>3, <2>4, <2>5, WorkBegins DEF refs, told, WorkKnows
<1> QED BY <1>2, <1>3, <1>4, <1>5

-----------------------------------------------------------------------------
(* Trips and cash *)

\* The sets of trips are finite, and their sizes are numbers.
TripsFact == /\ \A T \in SUBSET Trip : IsFiniteSet(T) /\ Cardinality(T) \in Nat
             /\ {TripFee, TripCash, PayoutFee} \subseteq Nat
LEMMA TripsNow == TripsFact
  BY WalletAssumption, FS_Subset, FS_CardinalityType DEF TripsFact

\* A delivery earns the fee, and the cash is owed.
LEMMA EarnKeepsBooks ==
  ASSUME WalletInv, WithdrawalsInv', NEW h \in Handler, Earn(h)
  PROVE  WalletInv'
<1>1. PICK t \in Trip : t = task[h].id /\ trip[t] = "none"
  BY DEF Earn, At, WalletInv, WorkInv, WorkKnows
<1>2. PICK row \in MoneyRow : row = task[h].row
  BY DEF WalletInv, WorkInv, WorkKnows
<1>3. trip' = [trip EXCEPT ![t] = "EXPECTED"]
      /\ wallet' = [row EXCEPT !.pending = row.pending + TripFee, !.cashOwed = row.cashOwed + TripCash]
      /\ staleSave' = (staleSave \/ row # wallet)
  BY <1>1, <1>2 DEF Earn, SaveWallet
<1>4. task' = [task EXCEPT ![h] = NoTask] /\ task[h].kind = "trip"
      /\ UNCHANGED <<payout, pendingInJournal, refs, sent, results, steps,
                     granted, overlapped, unanswered, oddAmount, floored, walletFaults>>
  BY DEF Earn, End, At
<1>5. /\ trip \in [Trip -> {"none", "EXPECTED", "COLLECTED", "REMITTED"}] /\ DOMAIN task = Handler
      /\ wallet \in MoneyRow /\ granted \in Int
  BY DEF WalletInv, WalletTyped, WithdrawalsInv, Typed
<1>6. WorkInv'
  <2>1. WorkInv /\ OneDelivery /\ \A g \in Handler : WorkKnows(g)
    BY DEF WalletInv, WorkInv
  <2>2. \A g \in Handler \ {h} : task[g].kind = "trip" => trip'[task[g].id] = "none"
    <3>1. \A g \in Handler \ {h} : task[g].kind = "trip" => task[g].id # t /\ task[g].id \in Trip /\ trip[task[g].id] = "none"
      BY <1>1, <1>4, <2>1 DEF OneDelivery, WorkKnows
    <3> QED BY <1>3, <1>5, <3>1
  <2>3. \A x \in Trip : trip[x] # "none" => trip'[x] # "none"
    BY <1>3, <1>5
  <2> QED BY <1>4, <1>5, <2>1, <2>2, <2>3, EndsWork
<1>7. WalletTyped'
  <2>1. row.pending + TripFee \in Nat /\ row.cashOwed + TripCash \in Nat
    BY <1>2, TripsNow DEF TripsFact, MoneyRow
  <2>3. wallet' \in MoneyRow
    BY <1>2, <1>3, <2>1 DEF MoneyRow
  <2>2. trip' \in [Trip -> {"none", "EXPECTED", "COLLECTED", "REMITTED"}]
    BY <1>3, <1>5
  <2> QED BY <1>4, <2>3, <2>2 DEF WalletInv, WalletTyped, refs
<1>8. JournalBook'
  BY <1>4, SameSpent DEF WalletInv, JournalBook
<1>9. TotalBook'
  <2> SUFFICES ASSUME ~staleSave', ~floored', overlapped' = {} PROVE TotalBook'
    BY DEF TotalBook
  <2>1. row = wallet /\ ~staleSave /\ ~floored /\ overlapped = {}
    BY <1>3, <1>4
  <2>2. EarnedTrips' = EarnedTrips \union {t} /\ t \notin EarnedTrips
    BY <1>1, <1>3, <1>5 DEF EarnedTrips, Earned
  <2>3. Cardinality(EarnedTrips') = Cardinality(EarnedTrips) + 1 /\ Cardinality(EarnedTrips) \in Nat
    <3>1. EarnedTrips \in SUBSET Trip
      BY DEF EarnedTrips
    <3> QED BY <2>2, <3>1, TripsNow, FS_AddElement DEF TripsFact
  <2>4. WalletTotal(wallet') = WalletTotal(wallet) + TripFee /\ WalletTotal(wallet) \in Int
    BY <1>3, <1>5, <2>1, TripsNow DEF WalletTotal, MoneyRow, TripsFact
  <2>5. WalletTotal(wallet) = TripFee * Cardinality(EarnedTrips) + granted - Spent
    BY <2>1 DEF WalletInv, TotalBook
  <2>6. Spent' = Spent /\ Spent \in Int
    BY <1>4, SameSpent, SpentNow DEF SpentFact, WalletInv, WithdrawalsInv
  <2>7. TripFee * Cardinality(EarnedTrips') = TripFee * Cardinality(EarnedTrips) + TripFee
    <3>1. PICK c \in Nat : c = Cardinality(EarnedTrips)
      BY <2>3
    <3>2. TripFee \in Nat
      BY TripsNow DEF TripsFact
    <3> QED BY <2>3, <3>1, <3>2
  <2>8. TripFee * Cardinality(EarnedTrips) \in Int
    BY <2>3, TripsNow DEF TripsFact
  <2>9. WalletTotal(wallet') = TripFee * Cardinality(EarnedTrips') + granted - Spent
    <3>1. PICK a \in Int, b \in Int : a = TripFee * Cardinality(EarnedTrips) /\ b = TripFee * Cardinality(EarnedTrips')
      BY <2>7, <2>8, TripsNow DEF TripsFact
    <3>2. b = a + TripFee
      BY <2>7, <3>1
    <3>3. TripFee \in Int /\ WalletTotal(wallet) = a + granted - Spent /\ Spent \in Int
      BY <2>5, <2>6, <3>1, TripsNow DEF TripsFact
    <3>4. WalletTotal(wallet') = b + granted - Spent
      BY <1>5, <2>4, <3>2, <3>3
    <3> QED BY <3>1, <3>4
  <2> QED BY <1>4, <2>6, <2>9 DEF TotalBook
<1>10. CashBook'
  <2> SUFFICES ASSUME ~staleSave', ~oddAmount' PROVE CashBook'
    BY DEF CashBook
  <2>1. row = wallet /\ ~staleSave /\ ~oddAmount
    BY <1>3, <1>4
  <2>2. CashTrips' = CashTrips \union {t} /\ t \notin CashTrips
    BY <1>1, <1>3, <1>5 DEF CashTrips
  <2>3. PICK c \in Nat : c = Cardinality(CashTrips) /\ Cardinality(CashTrips') = c + 1
    <3>1. CashTrips \in SUBSET Trip
      BY DEF CashTrips
    <3> QED BY <2>2, <3>1, TripsNow, FS_AddElement DEF TripsFact
  <2>4. wallet'.cashOwed = wallet.cashOwed + TripCash /\ wallet.cashOwed = TripCash * c
    BY <1>3, <1>5, <2>1, <2>3 DEF WalletInv, CashBook, MoneyRow
  <2>5. TripCash * (c + 1) = TripCash * c + TripCash
    BY TripsNow DEF TripsFact
  <2> QED BY <2>3, <2>4, <2>5 DEF CashBook
<1> QED BY <1>6, <1>7, <1>8, <1>9, <1>10 DEF WalletInv

\* What a step that leaves the trips and the withdrawals does to the wallet.
LEMMA SaveKeepsBooks ==
  ASSUME WalletInv, WithdrawalsInv', NEW h \in Handler, task' = [task EXCEPT ![h] = NoTask],
         NEW row \in MoneyRow, wallet' = row, staleSave' = (staleSave \/ task[h].row # wallet),
         row.cashOwed = task[h].row.cashOwed,
         granted' = granted + WalletTotal(row) - WalletTotal(task[h].row),
         UNCHANGED <<trip, payout, pendingInJournal, verified, approvals, steps, overlapped, oddAmount, floored, walletFaults>>
  PROVE  WalletInv'
<1>1. /\ WorkInv /\ DOMAIN task = Handler /\ task[h].row \in MoneyRow /\ wallet \in MoneyRow /\ granted \in Int
  BY DEF WalletInv, WorkInv, WorkKnows, WalletTyped, WithdrawalsInv, Typed
<1>2. WorkInv'
  <2>1. \A g \in Handler : task[g].kind = "trip" => trip[task[g].id] = "none"
    BY <1>1 DEF WorkInv, WorkKnows
  <2> QED BY <1>1, <2>1, EndsWork
<1>3. WalletTotal(row) \in Int /\ WalletTotal(task[h].row) \in Int
  BY <1>1 DEF WalletTotal, MoneyRow
<1>4. WalletTyped'
  BY <1>1, <1>3 DEF WalletInv, WalletTyped
<1>5. Spent' = Spent /\ Transit' = Transit /\ EarnedTrips' = EarnedTrips /\ CashTrips' = CashTrips
  BY SameSpent DEF EarnedTrips, Earned, CashTrips
<1>6. JournalBook' /\ CashBook'
  BY <1>5 DEF WalletInv, JournalBook, CashBook
<1>7. TotalBook'
  <2> SUFFICES ASSUME ~staleSave', ~floored', overlapped' = {} PROVE TotalBook'
    BY DEF TotalBook
  <2>1. WalletTotal(task[h].row) = TripFee * Cardinality(EarnedTrips) + granted - Spent
    BY DEF WalletInv, TotalBook
  <2>2. Spent \in Int
    BY SpentNow DEF SpentFact, WalletInv, WithdrawalsInv
  <2>3. TripFee * Cardinality(EarnedTrips) \in Int
    <3>1. EarnedTrips \in SUBSET Trip
      BY DEF EarnedTrips
    <3> QED BY <3>1, TripsNow DEF TripsFact
  <2> QED BY <1>1, <1>3, <1>5, <2>1, <2>2, <2>3 DEF TotalBook
<1> QED BY <1>2, <1>4, <1>6, <1>7 DEF WalletInv

\* A handler's work that comes to nothing.
LEMMA GivesUpKeepsBooks ==
  ASSUME WalletInv, WithdrawalsInv', NEW h \in Handler, task' = [task EXCEPT ![h] = NoTask],
         UNCHANGED <<trip, wallet, payout, pendingInJournal, granted, staleSave, oddAmount, floored, verified, approvals, steps, overlapped>>,
         walletFaults' \in 0..MaxWalletFaults
  PROVE  WalletInv'
<1>1. WorkInv /\ DOMAIN task = Handler
  BY DEF WalletInv, WithdrawalsInv, Typed
<1>2. WorkInv'
  <2>1. \A g \in Handler : task[g].kind = "trip" => trip[task[g].id] = "none"
    BY <1>1 DEF WorkInv, WorkKnows
  <2> QED BY <1>1, <2>1, EndsWork
<1> QED BY <1>2, BooksStay DEF WalletInv, WalletTyped

\* The clearing job and the admin's adjustment.
LEMMA ClearKeepsBooks ==
  ASSUME WalletInv, WithdrawalsInv', NEW h \in Handler, clearEarnings(h)
  PROVE  WalletInv'
<1>1. PICK old \in MoneyRow : old = task[h].row
  BY DEF WalletInv, WorkInv, WorkKnows
<1> DEFINE row == [old EXCEPT !.cleared = old.cleared + old.pending, !.pending = 0]
<1>2. row \in MoneyRow /\ row.cashOwed = old.cashOwed /\ WalletTotal(row) = WalletTotal(old) /\ WalletTotal(old) \in Int
  <2>1. old.cleared + old.pending \in Nat /\ 0 \in Nat
    BY DEF MoneyRow
  <2>2. row \in MoneyRow /\ row.cashOwed = old.cashOwed
    BY <2>1 DEF MoneyRow
  <2>3. row.cleared = old.cleared + old.pending /\ row.pending = 0 /\ row.locked = old.locked
    BY DEF MoneyRow
  <2>4. old.cleared \in Nat /\ old.pending \in Nat /\ old.locked \in Nat
    BY DEF MoneyRow
  <2> HIDE DEF row
  <2> QED BY <2>2, <2>3, <2>4 DEF WalletTotal
<1>3. wallet' = row /\ staleSave' = (staleSave \/ old # wallet) /\ task' = [task EXCEPT ![h] = NoTask]
      /\ UNCHANGED <<trip, payout, pendingInJournal, refs, steps, granted, overlapped, oddAmount, floored, walletFaults>>
  BY <1>1 DEF clearEarnings, SaveWallet, End
<1>4. granted' = granted + WalletTotal(row) - WalletTotal(old)
  BY <1>2, <1>3 DEF WalletInv, WalletTyped
<1> HIDE DEF row
<1> QED BY <1>1, <1>2, <1>3, <1>4, SaveKeepsBooks DEF refs

LEMMA AdjustKeepsBooks ==
  ASSUME WalletInv, WithdrawalsInv', NEW h \in Handler, adjustWallet(h)
  PROVE  WalletInv'
<1>1. task' = [task EXCEPT ![h] = NoTask] /\ walletFaults' = walletFaults
      /\ UNCHANGED <<trip, payout, pendingInJournal, verified, approvals, steps, overlapped, oddAmount, floored>>
  BY DEF adjustWallet, End
<1>2. CASE adjusted
  BY <1>1, <1>2, GivesUpKeepsBooks DEF adjustWallet, WalletInv, WalletTyped
<1>3. CASE ~adjusted
  <2>1. PICK old \in MoneyRow, kind \in AdjustKind, n \in Nat : old = task[h].row /\ kind = task[h].kind /\ n = task[h].n
    BY DEF WalletInv, WorkInv, WorkKnows, adjustWallet
  <2>2. PICK row : row = Adjusted(old, kind, n)
    OBVIOUS
  <2>3. row \in MoneyRow /\ row.cashOwed = old.cashOwed
    <3>1. CASE kind = "credit_cleared"
      BY <2>2, <3>1 DEF Adjusted, MoneyRow
    <3>2. CASE kind = "penalty"
      <4>1. row = [old EXCEPT !.locked = old.locked + Smaller(n, old.cleared), !.cleared = old.cleared - Smaller(n, old.cleared)]
        BY <2>2, <3>2 DEF Adjusted
      <4>2. Smaller(n, old.cleared) \in Nat /\ old.cleared - Smaller(n, old.cleared) \in Nat
        BY DEF Smaller, MoneyRow
      <4>3. old.locked + Smaller(n, old.cleared) \in Nat
        BY <4>2 DEF MoneyRow
      <4>4. row.cashOwed = old.cashOwed
        BY <4>1 DEF MoneyRow
      <4>5. PICK held \in Nat, free \in Nat : row = [old EXCEPT !.locked = held, !.cleared = free]
        BY <4>1, <4>2, <4>3
      <4>6. row \in MoneyRow
        BY <4>5 DEF MoneyRow
      <4> QED BY <4>4, <4>6
    <3>3. CASE kind = "reversal"
      <4>1. row = [old EXCEPT !.locked = UpTo(old.locked - n)]
        BY <2>2, <3>3 DEF Adjusted
      <4>2. UpTo(old.locked - n) \in Nat
        BY DEF UpTo, MoneyRow
      <4> QED BY <4>1, <4>2 DEF MoneyRow
    <3> QED BY <3>1, <3>2, <3>3 DEF AdjustKind
  <2>4. wallet' = row /\ staleSave' = (staleSave \/ old # wallet) /\ granted' = granted + WalletTotal(row) - WalletTotal(old)
    BY <1>3, <2>1, <2>2 DEF adjustWallet, SaveWallet
  <2> QED BY <1>1, <2>1, <2>3, <2>4, SaveKeepsBooks
<1> QED BY <1>2, <1>3

\* Whole rows of cash change hands: the trips stay earned.
LEMMA RemitKeepsBooks ==
  ASSUME WalletInv, WithdrawalsInv', NEW n \in Sum, remit(n)
  PROVE  WalletInv'
<1>1. PICK batch \in SUBSET Trip : /\ Whole("EXPECTED", n, batch)
                                  /\ trip' = [t \in Trip |-> IF t \in batch THEN "COLLECTED" ELSE trip[t]]
  BY DEF remit
<1>2. \A t \in batch : trip[t] = "EXPECTED"
  BY <1>1 DEF Whole
<1>3. UNCHANGED <<wallet, payout, pendingInJournal, refs, task, steps, told>>
  BY DEF remit
<1>4. trip \in [Trip -> {"none", "EXPECTED", "COLLECTED", "REMITTED"}]
  BY DEF WalletInv, WalletTyped
<1>5. EarnedTrips' = EarnedTrips /\ CashTrips' = CashTrips
  BY <1>1, <1>2, <1>4 DEF EarnedTrips, Earned, CashTrips
<1>6. WorkInv'
  <2>1. \A t \in Trip : trip'[t] = "none" <=> trip[t] = "none"
    BY <1>1, <1>2, <1>4
  <2>2. \A g \in Handler : WorkKnows(g)'
    <3> TAKE g \in Handler
    <3>1. WorkKnows(g)
      BY DEF WalletInv, WorkInv
    <3> QED BY <1>3, <2>1, <3>1 DEF WorkKnows
  <2> QED BY <1>3, <2>2 DEF WalletInv, WorkInv, OneDelivery
<1>7. WalletTyped'
  <2>1. trip' \in [Trip -> {"none", "EXPECTED", "COLLECTED", "REMITTED"}]
    BY <1>1, <1>4
  <2> QED BY <1>3, <2>1 DEF WalletInv, WalletTyped, refs, told
<1>8. JournalBook' /\ CashBook' /\ TotalBook'
  <2>1. Transit' = Transit /\ Spent' = Spent
    BY <1>3, SameSpent
  <2> QED BY <1>3, <1>5, <2>1 DEF WalletInv, JournalBook, CashBook, TotalBook, WalletTotal, told
<1> QED BY <1>6, <1>7, <1>8 DEF WalletInv

\* A verification lowers the debt by what the admin names.
LEMMA VerifyKeepsBooks ==
  ASSUME WalletInv, WithdrawalsInv', NEW h \in Handler, verifyRiderRemittance(h)
  PROVE  WalletInv'
<1>1. task' = [task EXCEPT ![h] = NoTask] /\ task[h].kind = "verify"
      /\ UNCHANGED <<payout, pendingInJournal, adjusted, approvals, steps, granted, overlapped, floored, walletFaults>>
  BY DEF verifyRiderRemittance, End, At
<1>2. /\ WorkKnows(h) /\ WorkInv /\ DOMAIN task = Handler /\ wallet \in MoneyRow
      /\ trip \in [Trip -> {"none", "EXPECTED", "COLLECTED", "REMITTED"}]
  BY DEF WalletInv, WorkInv, WalletTyped, WithdrawalsInv, Typed
<1>3. CASE task[h].id.admin \in verified
  BY <1>1, <1>3, GivesUpKeepsBooks DEF verifyRiderRemittance, WalletInv, WalletTyped
<1>4. CASE task[h].id.admin \notin verified
  <2>1. PICK old \in MoneyRow, n \in Nat, batch \in SUBSET Trip : old = task[h].row /\ n = task[h].n /\ batch = task[h].id.rows
    BY <1>1, <1>2 DEF WorkKnows
  <2>2. /\ verified' = verified \union {task[h].id.admin}
        /\ trip' = [t \in Trip |-> IF t \in batch THEN "REMITTED" ELSE trip[t]]
        /\ oddAmount' = (oddAmount \/ Cardinality(batch) * TripCash # n \/ \E t \in batch : trip[t] # "COLLECTED")
        /\ wallet' = [old EXCEPT !.cashOwed = UpTo(old.cashOwed - n)]
        /\ staleSave' = (staleSave \/ old # wallet)
    BY <1>4, <2>1 DEF verifyRiderRemittance, SaveWallet
  <2>3. \A t \in batch : trip[t] # "none"
    BY <1>1, <1>2, <2>1 DEF WorkKnows
  <2>4. WorkInv'
    <3>1. \A t \in Trip : trip[t] # "none" => trip'[t] # "none"
      BY <2>2
    <3>2. \A t \in Trip : trip[t] = "none" => trip'[t] = "none"
      BY <2>2, <2>3
    <3>3. \A g \in Handler : task[g].kind = "trip" => trip'[task[g].id] = "none"
      BY <1>2, <3>2 DEF WorkInv, WorkKnows
    <3> QED BY <1>1, <1>2, <3>1, <3>3, EndsWork
  <2>5. PICK owed \in Nat : owed = UpTo(old.cashOwed - n)
    BY DEF UpTo, MoneyRow
  <2>6. /\ wallet' \in MoneyRow /\ wallet'.cashOwed = owed /\ wallet'.pending = old.pending
        /\ wallet'.cleared = old.cleared /\ wallet'.locked = old.locked
    BY <2>2, <2>5 DEF MoneyRow
  <2>7. WalletTyped'
    <3>1. trip' \in [Trip -> {"none", "EXPECTED", "COLLECTED", "REMITTED"}]
      BY <1>2, <2>2
    <3>2. verified' \subseteq Admin
      BY <1>1, <1>2, <2>2 DEF WorkKnows, WalletInv, WalletTyped
    <3> QED BY <1>1, <2>6, <3>1, <3>2 DEF WalletInv, WalletTyped
  <2>8. Transit' = Transit /\ Spent' = Spent
    BY <1>1, SameSpent
  <2>9. JournalBook'
    BY <1>1, <2>8 DEF WalletInv, JournalBook
  <2>10. TotalBook'
    <3>1. EarnedTrips' = EarnedTrips
      BY <1>2, <2>2, <2>3 DEF EarnedTrips, Earned
    <3>2. staleSave' \/ WalletTotal(wallet') = WalletTotal(wallet)
      BY <2>2, <2>6 DEF WalletTotal
    <3> QED BY <1>1, <2>2, <2>8, <3>1, <3>2 DEF WalletInv, TotalBook
  <2>11. CashBook'
    <3> SUFFICES ASSUME ~staleSave', ~oddAmount' PROVE CashBook'
      BY DEF CashBook
    <3>1. old = wallet /\ Cardinality(batch) * TripCash = n /\ \A t \in batch : trip[t] = "COLLECTED"
      BY <2>2
    <3>2. wallet.cashOwed = TripCash * Cardinality(CashTrips)
      BY <2>2 DEF WalletInv, CashBook
    <3>3. CashTrips' = CashTrips \ batch /\ CashTrips \intersect batch = batch
      BY <1>2, <2>2, <3>1 DEF CashTrips
    <3>4. PICK c \in Nat, k \in Nat : /\ c = Cardinality(CashTrips') /\ k = Cardinality(batch)
                                      /\ Cardinality(CashTrips) = c + k
      <4>1. IsFiniteSet(CashTrips) /\ CashTrips \in SUBSET Trip /\ CashTrips' \in SUBSET Trip
        BY TripsNow DEF CashTrips, TripsFact
      <4>2. Cardinality(CashTrips \ batch) = Cardinality(CashTrips) - Cardinality(CashTrips \intersect batch)
        BY <4>1, FS_Difference
      <4>3. Cardinality(CashTrips) \in Nat /\ Cardinality(CashTrips') \in Nat /\ Cardinality(batch) \in Nat
        BY <4>1, TripsNow DEF TripsFact
      <4>4. Cardinality(CashTrips') = Cardinality(CashTrips) - Cardinality(batch)
        BY <3>3, <4>2
      <4>5. Cardinality(CashTrips) = Cardinality(CashTrips') + Cardinality(batch)
        BY <4>3, <4>4
      <4> QED BY <4>3, <4>5
    <3>5. PICK cash \in Nat : cash = TripCash
      BY TripsNow DEF TripsFact
    <3>6. wallet.cashOwed = cash * (c + k) /\ n = k * cash
      BY <3>1, <3>2, <3>4, <3>5
    <3>7. cash * (c + k) - k * cash = cash * c /\ cash * c \in Nat
      OBVIOUS
    <3>8. owed = cash * c
      BY <2>5, <3>1, <3>6, <3>7 DEF UpTo
    <3> QED BY <2>6, <3>4, <3>5, <3>8 DEF CashBook
  <2> QED BY <2>4, <2>7, <2>9, <2>10, <2>11 DEF WalletInv
<1> QED BY <1>3, <1>4

-----------------------------------------------------------------------------
(* What is withdrawn *)

\* A request holds the amount and takes the fee.
LEMMA RequestKeepsBooks ==
  ASSUME WalletInv, WithdrawalsInv', NEW w \in Payout, NEW n \in Sum, requestWithdrawal(w, n)
  PROVE  WalletInv'
<1>1. n \in Nat /\ PayoutFee \in Nat
  BY WalletAssumption
<1>2. /\ payout[w].status = "none" /\ n + PayoutFee <= UpTo(wallet.cleared - wallet.cashOwed - wallet.locked)
      /\ payout' = [payout EXCEPT ![w] = [status |-> "REQUESTED", amount |-> n]]
      /\ wallet' = [wallet EXCEPT !.cleared = wallet.cleared - (n + PayoutFee), !.locked = wallet.locked + n]
      /\ pendingInJournal' = pendingInJournal + n
      /\ UNCHANGED <<trip, refs, task, steps, told>>
  BY DEF requestWithdrawal, Withdrawable
<1>3. wallet \in MoneyRow /\ Typed /\ Typed' /\ pendingInJournal \in Int /\ granted \in Int
  BY DEF WalletInv, WalletTyped, WithdrawalsInv
<1>4. \A v \in Payout \ {w} : payout'[v] = payout[v]
  BY <1>2, <1>3 DEF Typed
<1>5. payout'[w] = [status |-> "REQUESTED", amount |-> n]
  BY <1>2, <1>3 DEF Typed
<1>6. Transit' = Transit + n /\ Spent' = Spent + PayoutFee /\ Transit \in Int /\ Spent \in Int
  <2>1. InTransit(w) = 0 /\ Cost(w) = 0
    BY <1>2 DEF InTransit, Cost, InFlight
  <2>2. InTransit(w)' = n /\ Cost(w)' = PayoutFee
    BY <1>5 DEF InTransit, Cost, InFlight
  <2>3. Transit \in Int /\ Spent \in Int
    BY <1>3, SpentNow DEF SpentFact
  <2> QED BY <1>1, <1>3, <1>4, <2>1, <2>2, <2>3, OnePayout
<1>7. PICK free \in Nat, held \in Nat : free = wallet.cleared - (n + PayoutFee) /\ held = wallet.locked + n
  <2>1. wallet.cleared \in Nat /\ wallet.locked \in Nat /\ wallet.cashOwed \in Nat
    BY <1>3 DEF MoneyRow
  <2>2. wallet.cleared - (n + PayoutFee) \in Nat
    BY <1>1, <1>2, <2>1 DEF UpTo
  <2> QED BY <1>1, <2>1, <2>2
<1>8. /\ wallet' \in MoneyRow /\ wallet'.cashOwed = wallet.cashOwed /\ wallet'.pending = wallet.pending
      /\ wallet'.cleared = free /\ wallet'.locked = held
  BY <1>2, <1>3, <1>7 DEF MoneyRow
<1>9. WalletTotal(wallet') = WalletTotal(wallet) - PayoutFee /\ WalletTotal(wallet) \in Int
  <2>1. wallet.cleared \in Nat /\ wallet.locked \in Nat /\ wallet.pending \in Nat
    BY <1>3 DEF MoneyRow
  <2> QED BY <1>1, <1>7, <1>8, <2>1 DEF WalletTotal
<1>10. WorkInv'
  <2>1. \A g \in Handler : WorkKnows(g)'
    <3> TAKE g \in Handler
    <3>1. WorkKnows(g)
      BY DEF WalletInv, WorkInv
    <3>2. task[g].kind \in Deciding => task[g].id \in Payout
      BY <1>3 DEF Typed, Deciding, Holding
    <3>3. task[g].kind \in Deciding => payout[task[g].id].status # "none"
      BY <3>1 DEF WorkKnows, InFlight
    <3>4. task[g].kind \in Deciding => payout'[task[g].id] = payout[task[g].id]
      BY <1>2, <1>4, <3>2, <3>3
    <3>5. UNCHANGED <<task, trip>>
      BY <1>2
    <3> QED BY <3>1, <3>4, <3>5 DEF WorkKnows
  <2> QED BY <1>2, <2>1 DEF WalletInv, WorkInv, OneDelivery
<1>11. WalletTyped'
  BY <1>1, <1>2, <1>3, <1>8 DEF WalletInv, WalletTyped, refs, told
<1>12. JournalBook'
  BY <1>1, <1>2, <1>3, <1>6 DEF WalletInv, JournalBook, told
<1>13. CashBook'
  <2>1. CashTrips' = CashTrips
    BY <1>2 DEF CashTrips
  <2> QED BY <1>2, <1>8, <2>1 DEF WalletInv, CashBook, told
<1>14. TotalBook'
  <2> SUFFICES ASSUME ~staleSave', ~floored', overlapped' = {} PROVE TotalBook'
    BY DEF TotalBook
  <2>1. EarnedTrips' = EarnedTrips
    BY <1>2 DEF EarnedTrips, Earned
  <2>2. WalletTotal(wallet) = TripFee * Cardinality(EarnedTrips) + granted - Spent
    BY <1>2 DEF WalletInv, TotalBook, told
  <2>3. PICK a \in Int : a = TripFee * Cardinality(EarnedTrips)
    <3>1. EarnedTrips \in SUBSET Trip
      BY DEF EarnedTrips
    <3> QED BY <3>1, TripsNow DEF TripsFact
  <2>4. WalletTotal(wallet') = a + granted - Spent'
    BY <1>1, <1>3, <1>6, <1>9, <2>2, <2>3
  <2> QED BY <1>2, <2>1, <2>3, <2>4 DEF TotalBook, told
<1> QED BY <1>10, <1>11, <1>12, <1>13, <1>14 DEF WalletInv

\* A transaction that decides a withdrawal, by its holder.
LEMMA DecideKeepsBooks ==
  ASSUME WalletInv, WithdrawalsInv', NEW h \in Handler, task[h].kind \in Holding, NEW w \in Payout, w = task[h].id,
         payout[w].status \in InFlight \/ overlapped # {},
         NEW status, NEW row,
         \/ status = "PAID" /\ row = Paid(task[h].row, w)
         \/ status \in {"FAILED", "REJECTED"} /\ row = Refunded(task[h].row, w),
         Decide(h, w, status, row), walletFaults' \in 0..MaxWalletFaults,
         UNCHANGED <<trip, granted, overlapped, oddAmount, verified, approvals>>
  PROVE  WalletInv'
<1>1. PICK old \in MoneyRow : old = task[h].row
  BY DEF WalletInv, WorkInv, WorkKnows
<1>2. /\ Typed /\ Typed' /\ pendingInJournal \in Int /\ granted \in Int /\ WorkInv /\ DOMAIN task = Handler
      /\ wallet \in MoneyRow
  BY DEF WalletInv, WalletTyped, WithdrawalsInv, Typed
<1>3. PICK amount \in Nat : amount = payout[w].amount
  BY <1>2 DEF Typed
<1>4. PayoutFee \in Nat
  BY WalletAssumption
<1>5. /\ payout' = [payout EXCEPT ![w].status = status]
      /\ wallet' = row /\ staleSave' = (staleSave \/ old # wallet)
      /\ pendingInJournal' = pendingInJournal - amount
      /\ floored' = (floored \/ old.locked < amount)
      /\ task' = [task EXCEPT ![h] = NoTask] /\ UNCHANGED steps
  BY <1>1, <1>3 DEF Decide, SaveWallet, End
<1>6. \A v \in Payout \ {w} : payout'[v] = payout[v]
  BY <1>2, <1>5 DEF Typed
<1>7. payout'[w].status = status /\ payout'[w].amount = amount
  BY <1>2, <1>3, <1>5 DEF Typed
<1>8. Transit \in Int /\ Spent \in Int
  BY <1>2, SpentNow DEF SpentFact
<1>9. Transit' = Transit - amount \/ overlapped # {}
  <2>1. InTransit(w) = amount \/ overlapped # {}
    BY <1>3 DEF InTransit
  <2>2. InTransit(w)' = 0
    BY <1>7 DEF InTransit, InFlight
  <2> QED BY <1>2, <1>3, <1>6, <1>8, <2>1, <2>2, OnePayout
<1>10. Spent' = Spent + (IF status = "PAID" THEN amount ELSE 0 - PayoutFee) \/ overlapped # {}
  <2>1. Cost(w) = PayoutFee \/ overlapped # {}
    <3>1. ASSUME payout[w].status \in InFlight PROVE Cost(w) = PayoutFee
      <4>1. payout[w].status # "PAID"
        BY <3>1 DEF InFlight
      <4> QED BY <3>1, <4>1 DEF Cost
    <3> QED BY <3>1
  <2>2. Cost(w)' = IF status = "PAID" THEN amount + PayoutFee ELSE 0
    BY <1>7 DEF Cost, InFlight
  <2>3. Spent' = Spent - Cost(w) + Cost(w)'
    BY <1>2, <1>6, OnePayout
  <2> QED BY <1>3, <1>4, <1>8, <2>1, <2>2, <2>3
<1>11. PICK held \in Nat, free \in Nat : /\ held = UpTo(old.locked - amount)
                                         /\ free = IF status = "PAID" THEN old.cleared ELSE old.cleared + amount + PayoutFee
  <2>1. old.locked \in Nat /\ old.cleared \in Nat
    BY DEF MoneyRow
  <2>2. UpTo(old.locked - amount) \in Nat
    BY <2>1 DEF UpTo
  <2> QED BY <1>4, <2>1, <2>2
<1>12. row = [old EXCEPT !.locked = held, !.cleared = free]
  <2>1. CASE status = "PAID"
    <3>1. row = [old EXCEPT !.locked = held] /\ free = old.cleared
      BY <1>1, <1>3, <1>11, <2>1 DEF Paid
    <3> QED BY <3>1 DEF MoneyRow
  <2>2. CASE status \in {"FAILED", "REJECTED"}
    BY <1>1, <1>3, <1>11, <2>2 DEF Refunded
  <2> QED BY <2>1, <2>2
<1>13. /\ wallet' \in MoneyRow /\ wallet'.cashOwed = old.cashOwed /\ wallet'.pending = old.pending
       /\ wallet'.cleared = free /\ wallet'.locked = held
  BY <1>5, <1>12 DEF MoneyRow
<1>14. WorkInv'
  <2>1. \A g \in Handler \ {h} : task[g].kind \in Deciding => task[g].id # w /\ task[g].id \in Payout
    BY <1>2 DEF WalletInv, WithdrawalsInv, OneHolder, Typed, Deciding, Holding
  <2>2. \A g \in Handler \ {h} : task[g].kind \in Deciding => payout'[task[g].id].status = payout[task[g].id].status
    BY <1>6, <2>1
  <2>3. \A g \in Handler : task[g].kind = "trip" => trip'[task[g].id] = "none"
    BY <1>2 DEF WorkInv, WorkKnows
  <2> QED BY <1>2, <1>5, <2>2, <2>3, EndsWork
<1>15. WalletTyped'
  BY <1>2, <1>5, <1>13 DEF WalletInv, WalletTyped
<1>16. JournalBook'
  BY <1>2, <1>5, <1>8, <1>9 DEF WalletInv, JournalBook
<1>17. CashBook'
  <2>1. CashTrips' = CashTrips
    BY DEF CashTrips
  <2> QED BY <1>5, <1>13, <2>1 DEF WalletInv, CashBook
<1>18. TotalBook'
  <2> SUFFICES ASSUME ~staleSave', ~floored', overlapped' = {} PROVE TotalBook'
    BY DEF TotalBook
  <2>1. old = wallet /\ ~(old.locked < amount) /\ ~staleSave /\ ~floored /\ overlapped = {}
    BY <1>5
  <2>2. old.locked \in Nat /\ old.cleared \in Nat /\ old.pending \in Nat
    BY DEF MoneyRow
  <2>3. held = old.locked - amount
    BY <1>11, <2>1, <2>2 DEF UpTo
  <2>4. WalletTotal(wallet') = WalletTotal(old) - (IF status = "PAID" THEN amount ELSE 0 - PayoutFee) /\ WalletTotal(old) \in Int
    BY <1>4, <1>11, <1>13, <2>2, <2>3 DEF WalletTotal
  <2>5. EarnedTrips' = EarnedTrips
    BY DEF EarnedTrips, Earned
  <2>6. WalletTotal(old) = TripFee * Cardinality(EarnedTrips) + granted - Spent
    BY <2>1 DEF WalletInv, TotalBook
  <2>7. PICK a \in Int : a = TripFee * Cardinality(EarnedTrips)
    <3>1. EarnedTrips \in SUBSET Trip
      BY DEF EarnedTrips
    <3> QED BY <3>1, TripsNow DEF TripsFact
  <2>8. Spent' = Spent + (IF status = "PAID" THEN amount ELSE 0 - PayoutFee)
    BY <1>10, <2>1
  <2>9. WalletTotal(wallet') = a + granted - Spent'
    <3>1. PICK paid \in Int : paid = IF status = "PAID" THEN amount ELSE 0 - PayoutFee
      BY <1>4
    <3>2. WalletTotal(wallet') = WalletTotal(old) - paid /\ Spent' = Spent + paid /\ WalletTotal(old) = a + granted - Spent
      BY <2>4, <2>6, <2>7, <2>8, <3>1
    <3> QED BY <1>2, <1>8, <2>4, <3>2
  <2> QED BY <2>5, <2>7, <2>9 DEF TotalBook
<1> QED BY <1>14, <1>15, <1>16, <1>17, <1>18 DEF WalletInv

\* A transfer that is accepted keeps the amount in flight.
LEMMA AcceptKeepsBooks ==
  ASSUME WalletInv, WithdrawalsInv', NEW h \in Handler, task[h].kind \in Holding, NEW w \in Payout, w = task[h].id,
         payout[w].status \in InFlight \/ overlapped # {},
         payout' = [payout EXCEPT ![w].status = "PROCESSING"], End(h),
         UNCHANGED <<trip, wallet, pendingInJournal, granted, staleSave, oddAmount, floored, overlapped, verified, approvals, walletFaults>>
  PROVE  WalletInv'
<1>1. /\ Typed /\ Typed' /\ WorkInv /\ DOMAIN task = Handler /\ task' = [task EXCEPT ![h] = NoTask] /\ UNCHANGED steps
  BY DEF WalletInv, WithdrawalsInv, Typed, End
<1>2. \A v \in Payout \ {w} : payout'[v] = payout[v]
  BY <1>1 DEF Typed
<1>3. payout'[w].status = "PROCESSING" /\ payout'[w].amount = payout[w].amount /\ payout[w].amount \in Nat
  BY <1>1 DEF Typed
<1>4. (Transit' = Transit /\ Spent' = Spent) \/ overlapped # {}
  <2> SUFFICES ASSUME payout[w].status \in InFlight PROVE Transit' = Transit /\ Spent' = Spent
    OBVIOUS
  <2>1. InTransit(w) = payout[w].amount /\ InTransit(w)' = payout[w].amount
    BY <1>3 DEF InTransit, InFlight
  <2>2. Cost(w) = PayoutFee /\ Cost(w)' = PayoutFee
    BY <1>3 DEF Cost, InFlight
  <2>3. Transit \in Int /\ Spent \in Int /\ PayoutFee \in Int
    BY <1>1, SpentNow, WalletAssumption DEF SpentFact
  <2> QED BY <1>1, <1>2, <1>3, <2>1, <2>2, <2>3, OnePayout
<1>5. WorkInv'
  <2>1. \A g \in Handler \ {h} : task[g].kind \in Deciding => task[g].id # w /\ task[g].id \in Payout
    BY <1>1 DEF WalletInv, WithdrawalsInv, OneHolder, Typed, Deciding, Holding
  <2>2. \A g \in Handler \ {h} : task[g].kind \in Deciding => payout'[task[g].id].status = payout[task[g].id].status
    BY <1>2, <2>1
  <2>3. \A g \in Handler : task[g].kind = "trip" => trip'[task[g].id] = "none"
    BY <1>1 DEF WorkInv, WorkKnows
  <2> QED BY <1>1, <2>2, <2>3, EndsWork
<1>6. WalletTyped'
  BY <1>1 DEF WalletInv, WalletTyped
<1>7. JournalBook' /\ CashBook' /\ TotalBook'
  BY <1>4 DEF WalletInv, JournalBook, CashBook, TotalBook, WalletTotal, EarnedTrips, Earned, CashTrips
<1> QED BY <1>5, <1>6, <1>7 DEF WalletInv

\* A rejection, a report and the sweeper hold a withdrawal that is in flight; so
\* does an approval, unless it ran over a decision.
LEMMA HeldIsInFlight ==
  ASSUME WalletInv, NEW h \in Handler, task[h].kind \in Holding
  PROVE  /\ task[h].id \in Payout
         /\ payout[task[h].id].status \in InFlight \/ overlapped # {}
<1>1. task[h].id \in Payout
  BY DEF WalletInv, WithdrawalsInv, Typed
<1>2. CASE task[h].kind \in Deciding
  BY <1>1, <1>2 DEF WalletInv, WorkInv, WorkKnows
<1>3. CASE task[h].kind = "calling"
  BY <1>1, <1>3 DEF WalletInv, WithdrawalsInv, HolderKnows, InFlight
<1> QED BY <1>2, <1>3 DEF Holding, Deciding

LEMMA DecisionsKeepBooks ==
  ASSUME WalletInv, WithdrawalsInv', NEW h \in Handler, rejectWithdrawal(h) \/ applyTransferResult(h)
  PROVE  WalletInv'
<1>1. task[h].kind \in Holding
  BY DEF rejectWithdrawal, applyTransferResult, At, Holding
<1>2. PICK w \in Payout : w = task[h].id /\ (payout[w].status \in InFlight \/ overlapped # {})
  BY <1>1, HeldIsInFlight
<1>3. UNCHANGED <<trip, refs, granted, overlapped, oddAmount, walletFaults>>
  BY DEF rejectWithdrawal, applyTransferResult
<1>4. \/ Decide(h, w, "PAID", Paid(task[h].row, w))
      \/ Decide(h, w, "FAILED", Refunded(task[h].row, w))
      \/ Decide(h, w, "REJECTED", Refunded(task[h].row, w))
  BY <1>2 DEF rejectWithdrawal, applyTransferResult
<1>5. walletFaults' \in 0..MaxWalletFaults
  BY <1>3 DEF WalletInv, WalletTyped
<1> QED BY <1>1, <1>2, <1>3, <1>4, <1>5, DecideKeepsBooks DEF refs

LEMMA CallKeepsBooks ==
  ASSUME WalletInv, WithdrawalsInv', NEW h \in Handler, CallTransferOnce(h)
  PROVE  WalletInv'
<1>1. task[h].kind \in Holding
  BY DEF CallTransferOnce, At, Holding
<1>2. PICK w \in Payout : w = task[h].id /\ (payout[w].status \in InFlight \/ overlapped # {})
  BY <1>1, HeldIsInFlight
<1>3. UNCHANGED <<trip, refs, granted, overlapped, unanswered, oddAmount, walletFaults>> /\ walletFaults' \in 0..MaxWalletFaults
  BY DEF CallTransferOnce, WalletInv, WalletTyped
<1>4. CASE Decide(h, w, "PAID", Paid(task[h].row, w)) \/ Decide(h, w, "FAILED", Refunded(task[h].row, w))
  BY <1>1, <1>2, <1>3, <1>4, DecideKeepsBooks DEF refs
<1>5. CASE /\ payout' = [payout EXCEPT ![w].status = "PROCESSING"] /\ End(h)
           /\ UNCHANGED <<wallet, results, pendingInJournal, staleSave, floored>>
  BY <1>1, <1>2, <1>3, <1>5, AcceptKeepsBooks DEF refs
<1> QED BY <1>2, <1>4, <1>5 DEF CallTransferOnce

LEMMA LostAnswerKeepsBooks ==
  ASSUME WalletInv, WithdrawalsInv', NEW h \in Handler, LoseAnswer(h)
  PROVE  WalletInv'
<1>1. task[h].kind \in Holding
  BY DEF LoseAnswer, At, Holding
<1>2. PICK w \in Payout : w = task[h].id /\ (payout[w].status \in InFlight \/ overlapped # {})
  BY <1>1, HeldIsInFlight
<1>3. UNCHANGED <<trip, refs, granted, overlapped, oddAmount>> /\ walletFaults' \in 0..MaxWalletFaults
  BY WalletAssumption DEF LoseAnswer, WalletInv, WalletTyped
<1>4. CASE Decide(h, w, "FAILED", Refunded(task[h].row, w))
  BY <1>1, <1>2, <1>3, <1>4, DecideKeepsBooks DEF refs
<1>5. CASE End(h) /\ UNCHANGED <<payout, wallet, pendingInJournal, staleSave, floored>>
  BY <1>3, <1>5, GivesUpKeepsBooks DEF refs, End
<1> QED BY <1>2, <1>4, <1>5 DEF LoseAnswer

\* A handler that dies, the provider's own steps, and a step of nobody.
LEMMA RestKeepsBooks ==
  ASSUME WalletInv, WithdrawalsInv',
         \/ \E h \in Handler : WalletCrash(h)
         \/ \E w \in Payout : TransferDone(w)
         \/ UNCHANGED walletVars
  PROVE  WalletInv'
<1>1. ASSUME NEW h \in Handler, WalletCrash(h) PROVE WalletInv'
  <2>1. walletFaults' \in 0..MaxWalletFaults
    BY <1>1, WalletAssumption DEF WalletCrash, WalletInv, WalletTyped
  <2> QED BY <1>1, <2>1, GivesUpKeepsBooks DEF WalletCrash, End, refs
<1>2. ASSUME UNCHANGED <<trip, wallet, payout, pendingInJournal, refs, task, steps, told>> PROVE WalletInv'
  <2>1. WorkInv'
    BY <1>2 DEF WalletInv, WorkInv, WorkKnows, OneDelivery
  <2> QED BY <1>2, <2>1, BooksStay DEF refs, told, WalletInv, WalletTyped
<1>3. ASSUME UNCHANGED walletVars PROVE WalletInv'
  <2>1. UNCHANGED <<trip, wallet, payout, pendingInJournal, refs, task, steps, told>>
    BY <1>3 DEF walletVars, refs, told
  <2> QED BY <1>2, <2>1
<1>4. ASSUME NEW w \in Payout, TransferDone(w) PROVE WalletInv'
  BY <1>2, <1>4 DEF TransferDone
<1> QED BY <1>1, <1>3, <1>4

LEMMA WalletInvNext == WalletInv /\ [WalletNext]_walletVars => WalletInv'
<1> SUFFICES ASSUME WalletInv, [WalletNext]_walletVars PROVE WalletInv'
  OBVIOUS
<1>1. WithdrawalsInv'
  BY WithdrawalsStep DEF WalletInv
<1>2. CASE UNCHANGED walletVars \/ \E w \in Payout : TransferDone(w)
  BY <1>1, <1>2, RestKeepsBooks
<1>3. CASE \E n \in Sum : remit(n) \/ \E w \in Payout : requestWithdrawal(w, n)
  BY <1>1, <1>3, RemitKeepsBooks, RequestKeepsBooks
<1>4. ASSUME NEW h \in Handler,
             \/ \E t \in Trip : BeginTrip(h, t)
             \/ BeginClear(h)
             \/ \E a \in Admin, n \in Sum : BeginVerify(h, a, n)
             \/ \E kind \in AdjustKind, n \in Sum : BeginAdjust(h, kind, n)
             \/ \E w \in Payout : BeginApprove(h, w) \/ BeginReject(h, w)
      PROVE WalletInv'
  BY <1>1, <1>4, BeginsKeepBooks
<1>5. ASSUME NEW h \in Handler,
             \/ \E w \in Payout : reconcileStaleTransfers(h, w) \/ \E ok \in BOOLEAN : OnResult(h, w, ok)
             \/ SaveApproved(h) \/ ReadWallet(h)
      PROVE WalletInv'
  BY <1>1, <1>5, ClaimsKeepBooks
<1>6. ASSUME NEW h \in Handler, Earn(h) \/ clearEarnings(h) \/ verifyRiderRemittance(h) \/ adjustWallet(h) PROVE WalletInv'
  BY <1>1, <1>6, EarnKeepsBooks, ClearKeepsBooks, VerifyKeepsBooks, AdjustKeepsBooks
<1>7. ASSUME NEW h \in Handler,
             CallTransferOnce(h) \/ LoseAnswer(h) \/ rejectWithdrawal(h) \/ applyTransferResult(h) \/ WalletCrash(h)
      PROVE WalletInv'
  BY <1>1, <1>7, CallKeepsBooks, LostAnswerKeepsBooks, DecisionsKeepBooks, RestKeepsBooks
<1> QED BY <1>2, <1>3, <1>4, <1>5, <1>6, <1>7 DEF WalletNext

\* An empty wallet, before the first trip.
LEMMA WalletInvInit == WalletInit => WalletInv
<1> SUFFICES ASSUME WalletInit PROVE WalletInv
  OBVIOUS
<1>1. WithdrawalsInv
  BY WithdrawalsInit
<1>2. wallet \in MoneyRow /\ WalletTotal(wallet) = 0 /\ wallet.cashOwed = 0
  BY DEF WalletInit, EmptyWallet, MoneyRow, WalletTotal
<1>3. WalletTyped
  BY <1>2, WalletAssumption DEF WalletInit, WalletTyped
<1>4. WorkInv
  <2>1. \A g \in Handler : task[g] = NoTask
    BY DEF WalletInit
  <2>2. /\ DOMAIN NoTask = {"kind", "row", "id", "n"} /\ NoTask.row \in MoneyRow
        /\ NoTask.kind \notin {"trip", "verify"} \union AdjustKind \union Deciding
    BY DEF NoTask, EmptyWallet, MoneyRow, AdjustKind, Deciding
  <2> QED BY <2>1, <2>2 DEF WorkInv, WorkKnows, OneDelivery
<1>5. Transit = 0 /\ Spent = 0
  <2>1. \A w \in Payout : payout[w] = NoPayout
    BY DEF WalletInit
  <2>2. \A w \in Payout : InTransit(w) = 0 /\ Cost(w) = 0
    BY <2>1 DEF InTransit, Cost, NoPayout, InFlight
  <2>3. IsFiniteSet(Payout)
    BY WalletAssumption
  <2> QED BY <2>2, <2>3, SumZero DEF Transit, Spent
<1>6. Cardinality(EarnedTrips) = 0 /\ Cardinality(CashTrips) = 0
  <2>1. EarnedTrips = {} /\ CashTrips = {}
    BY DEF WalletInit, EarnedTrips, Earned, CashTrips
  <2> QED BY <2>1, FS_EmptySet
<1>7. JournalBook /\ CashBook /\ TotalBook
  <2>1. TripFee * 0 = 0 /\ TripCash * 0 = 0
    BY TripsNow DEF TripsFact
  <2> QED BY <1>2, <1>5, <1>6, <2>1 DEF WalletInit, JournalBook, CashBook, TotalBook
<1> QED BY <1>1, <1>3, <1>4, <1>7 DEF WalletInv

\* Whatever overlaps, the wallet agrees with the trips, withdrawals and
\* remittances it sums up: what is in flight, what was earned and not yet spent,
\* the cash not handed over. The exceptions are the histories the statement
\* names: a stale save, a floor, an approval over a decision, an odd remittance.
THEOREM WalletAgrees == WalletSpec => []WalletBooks
<1>1. WalletInv => WalletBooks
  BY DEF WalletInv, WalletTyped, WithdrawalsInv, Typed, PayoutStatus, MoneyRow, JournalBook, CashBook, TotalBook,
         Transit, Spent, EarnedTrips, CashTrips, WalletBooks, WalletTypeOK
<1> QED BY <1>1, WalletInvInit, WalletInvNext, PTL DEF WalletSpec

-----------------------------------------------------------------------------
(* Approvals *)

Executable == {"APPROVED", "EXECUTING", "EXECUTED"}

\* signed by enough, where it may be executed
Sound(row) ==
  row.status \in Executable =>
    /\ Cardinality(row.signed) >= row.tier.approvals
    /\ row.tier.requiresSuper => HasSuper(row.signed)

\* a row that was read is the row of this request, and not signed by its maker
Ours(row) == row.maker = approval.maker /\ row.tier = approval.tier /\ row.maker \notin row.signed

RowsInv ==
  /\ ApprovalTypeOK
  /\ approval.maker \notin approval.signed
  /\ ~mixed => Sound(approval)
  /\ approval.status = "none" =>
       approval.signed = {} /\ \A a \in Signer : handling[a].row = {} /\ executor[a] = Stage("idle")
  /\ \A a \in Signer : \A row \in handling[a].row :
       /\ Ours(row) /\ row.status = "PENDING"
       /\ handling[a].handler \in Handling
       /\ handling[a].handler = "approve" => row.maker # a
  /\ \A a \in Signer : \A row \in executor[a].row :
       /\ Ours(row) /\ row.status = "EXECUTING"
       /\ ~mixed => Sound(row)

\* who executes, as long as no save undid another's status
ClaimInv ==
  ~overwrote =>
    /\ approval.status \notin {"EXECUTING", "EXECUTED"} =>
         runs = 0 /\ \A a \in Signer : executor[a].at = "idle"
    /\ approval.status = "EXECUTED" => \A a \in Signer : executor[a].at = "idle"
    /\ \A a, b \in Signer : executor[a].at # "idle" /\ executor[b].at # "idle" => a = b
    /\ \A a \in Signer : executor[a].at = "work" => runs = 0
    /\ runs <= 1
    /\ refused => approval.status \in Decided

ApprovalInv == RowsInv /\ ClaimInv

-----------------------------------------------------------------------------
(* Rows *)

\* An admin who may approve a row leaves a sound one, which he has not made.
LEMMA SignedIsSound ==
  ASSUME NEW row \in Row, NEW a \in Signer, row.maker \notin row.signed, row.status = "PENDING", row.maker # a
  PROVE  /\ Signed(a, row) \in Row /\ Sound(Signed(a, row)) /\ Signed(a, row).status \in {"PENDING", "APPROVED"}
         /\ Signed(a, row).maker = row.maker /\ Signed(a, row).tier = row.tier
         /\ row.maker \notin Signed(a, row).signed
<1> DEFINE next == row.signed \union {a}
           Enough == /\ Cardinality(next) >= row.tier.approvals
                     /\ row.tier.requiresSuper => HasSuper(next)
<1>1. row.maker \notin next /\ next \in SUBSET Signer
  BY DEF Row
<1>2. CASE Enough
  <2>1. Signed(a, row) = [row EXCEPT !.signed = next, !.status = "APPROVED"]
    BY <1>2 DEF Signed
  <2>2. /\ Signed(a, row) \in Row /\ Signed(a, row).status = "APPROVED"
        /\ Signed(a, row).signed = next /\ Signed(a, row).maker = row.maker /\ Signed(a, row).tier = row.tier
    BY <2>1, <1>1 DEF Row, Status
  <2> QED BY <2>2, <1>1, <1>2 DEF Sound
<1>3. CASE ~Enough
  <2>1. Signed(a, row) = [row EXCEPT !.signed = next, !.status = @]
    BY <1>3 DEF Signed
  <2>2. /\ Signed(a, row) \in Row /\ Signed(a, row).status = "PENDING"
        /\ Signed(a, row).signed = next /\ Signed(a, row).maker = row.maker /\ Signed(a, row).tier = row.tier
    BY <2>1, <1>1 DEF Row, Status
  <2> QED BY <2>2, <1>1 DEF Sound, Executable
<1> QED BY <1>2, <1>3

\* Giving a row another status changes nothing else.
LEMMA OtherStatus ==
  ASSUME NEW row \in Row, NEW s \in Status
  PROVE  /\ [row EXCEPT !.status = s] \in Row /\ [row EXCEPT !.status = s].status = s
         /\ [row EXCEPT !.status = s].signed = row.signed /\ [row EXCEPT !.status = s].maker = row.maker
         /\ [row EXCEPT !.status = s].tier = row.tier
BY DEF Row

\* Refusing, or expiring, a row leaves a sound one.
LEMMA RefusedIsSound ==
  ASSUME NEW row \in Row, NEW s \in Decided
  PROVE  Sound([row EXCEPT !.status = s]) /\ [row EXCEPT !.status = s].status \in Decided
<1>1. s \in Status /\ s \notin Executable
  BY DEF Status, Decided, Executable
<1> QED BY <1>1, OtherStatus DEF Sound

\* What a handler has to save is sound, of its request, and decided, pending or
\* approved.
LEMMA SavedIsSound ==
  ASSUME RowsInv, NEW a \in Signer, NEW row \in handling[a].row
  PROVE  /\ ToSave(a, row) \in Row /\ Sound(ToSave(a, row))
         /\ ToSave(a, row).maker = approval.maker /\ ToSave(a, row).tier = approval.tier
         /\ approval.maker \notin ToSave(a, row).signed
         /\ ToSave(a, row).status \in Decided \union {"PENDING", "APPROVED"}
<1>1. /\ row \in Row /\ Ours(row) /\ row.status = "PENDING"
      /\ handling[a].handler \in Handling
      /\ handling[a].handler = "approve" => row.maker # a
  BY DEF RowsInv, ApprovalTypeOK
<1>2. CASE handling[a].handler = "approve"
  BY <1>1, <1>2, SignedIsSound DEF ToSave, Ours
<1>3. ASSUME NEW s \in Decided, ToSave(a, row) = [row EXCEPT !.status = s]
      PROVE  /\ ToSave(a, row) \in Row /\ Sound(ToSave(a, row))
             /\ ToSave(a, row).maker = approval.maker /\ ToSave(a, row).tier = approval.tier
             /\ approval.maker \notin ToSave(a, row).signed
             /\ ToSave(a, row).status \in Decided \union {"PENDING", "APPROVED"}
  <2>1. s \in Status
    BY DEF Status
  <2> QED BY <1>1, <1>3, <2>1, OtherStatus, RefusedIsSound DEF Ours
<1>4. CASE handling[a].handler = "reject"
  BY <1>3, <1>4 DEF ToSave, Decided
<1>5. CASE handling[a].handler = "cancel"
  BY <1>3, <1>5 DEF ToSave, Decided
<1>6. CASE handling[a].handler = "expire"
  BY <1>3, <1>6 DEF ToSave, Decided
<1> QED BY <1>1, <1>2, <1>4, <1>5, <1>6 DEF Handling

\* What a save of one request's row leaves: the row as the session has it, or
\* columns of both.
LEMMA WriteKeeps ==
  ASSUME ApprovalTypeOK, approval.maker \notin approval.signed,
         NEW read, NEW saved \in Row, NEW columns,
         saved.maker = approval.maker, saved.tier = approval.tier, saved.maker \notin saved.signed,
         Write(read, saved, columns)
  PROVE  /\ approval' \in Row /\ approval'.maker = approval.maker /\ approval'.tier = approval.tier
         /\ approval'.maker \notin approval'.signed
         /\ "status" \in columns => approval'.status = saved.status
         /\ "status" \notin columns => approval'.status = approval.status
         /\ overwrote' \in BOOLEAN /\ mixed' \in BOOLEAN
         /\ ~mixed' => ~mixed /\ approval' = saved
         /\ ~overwrote' => ~overwrote /\ ("status" \in columns => approval.status = read.status)
<1> DEFINE s == IF "status" \in columns THEN saved.status ELSE approval.status
           g == IF "signed" \in columns THEN saved.signed ELSE approval.signed
<1>1. approval \in Row /\ overwrote \in BOOLEAN /\ mixed \in BOOLEAN
  BY DEF ApprovalTypeOK
<1>2. s \in Status /\ g \in SUBSET Signer /\ approval.maker \notin g
  BY <1>1 DEF Row
<1>3. approval' = [approval EXCEPT !.status = s, !.signed = g]
  BY DEF Write, Written
<1>4. /\ approval' \in Row /\ approval'.status = s /\ approval'.signed = g
      /\ approval'.maker = approval.maker /\ approval'.tier = approval.tier
  <2> HIDE DEF s, g
  <2> QED BY <1>1, <1>2, <1>3 DEF Row
<1>5. overwrote' \in BOOLEAN /\ mixed' \in BOOLEAN
  BY DEF Write
<1>6. ~mixed' => ~mixed /\ approval' = saved
  BY DEF Write
<1>7. ~overwrote' => ~overwrote /\ ("status" \in columns => approval.status = read.status)
  BY DEF Write
<1> QED BY <1>2, <1>4, <1>5, <1>6, <1>7

-----------------------------------------------------------------------------
(* RowsInv is inductive *)

LEMMA RowsInit == ApprovalInit => RowsInv
<1> SUFFICES ASSUME ApprovalInit PROVE RowsInv
  OBVIOUS
<1> USE ApprovalAssumption DEF ApprovalAssumption
<1>1. PICK t \in Tier : approval = [status |-> "none", maker |-> "nobody", tier |-> t, signed |-> {}]
  BY DEF ApprovalInit
<1>2. approval \in Row /\ approval.status = "none" /\ approval.signed = {} /\ approval.maker = "nobody"
  BY <1>1 DEF Row, Status
<1>3. Sound(approval) /\ approval.maker \notin approval.signed
  BY <1>2 DEF Sound, Executable
<1>4. /\ \A a \in Signer : handling[a] = [handler |-> "none", row |-> {}, columns |-> {}]
      /\ \A a \in Signer : executor[a] = [at |-> "idle", row |-> {}, columns |-> {}]
  BY DEF ApprovalInit, NoHandler, Stage
<1>5. ApprovalTypeOK
  <2>1. handling \in [Signer -> [handler : Handling \union {"none"}, row : SUBSET Row, columns : SUBSET Column]]
    BY DEF ApprovalInit, NoHandler
  <2>2. executor \in [Signer -> [at : {"idle", "work", "complete", "fail", "save"},
                                 row : SUBSET Row, columns : SUBSET Column]]
    BY DEF ApprovalInit, Stage
  <2>3. runs \in 0..MaxRuns /\ approvalFaults \in 0..MaxApprovalFaults
    BY DEF ApprovalInit
  <2>4. due \in BOOLEAN /\ refused \in BOOLEAN /\ overwrote \in BOOLEAN /\ mixed \in BOOLEAN
    BY DEF ApprovalInit
  <2> QED BY <1>2, <2>1, <2>2, <2>3, <2>4 DEF ApprovalTypeOK
<1> QED BY <1>2, <1>3, <1>4, <1>5 DEF RowsInv, Stage

\* A step that gives no handler and no executor a new row keeps RowsInv when the
\* row it stores is of the same request and, unless columns mix, sound.
LEMMA StoresSound ==
  ASSUME RowsInv, ApprovalTypeOK', approval.status # "none", approval'.status # "none",
         approval'.maker = approval.maker, approval'.tier = approval.tier,
         approval'.maker \notin approval'.signed,
         ~mixed' => ~mixed /\ Sound(approval'),
         \A a \in Signer : \/ handling'[a].row = handling[a].row /\ handling'[a].handler = handling[a].handler
                           \/ handling'[a].row = {},
         \A a \in Signer : executor'[a].row \in {executor[a].row, {}}
  PROVE  RowsInv'
<1>1. ASSUME NEW a \in Signer, NEW row \in handling'[a].row
      PROVE  /\ Ours(row)' /\ row.status = "PENDING"
             /\ handling'[a].handler \in Handling
             /\ handling'[a].handler = "approve" => row.maker # a
  <2>1. handling'[a].row = handling[a].row /\ handling'[a].handler = handling[a].handler
    BY <1>1
  <2> QED BY <1>1, <2>1 DEF RowsInv, Ours
<1>2. ASSUME NEW a \in Signer, NEW row \in executor'[a].row
      PROVE  Ours(row)' /\ row.status = "EXECUTING" /\ (~mixed' => Sound(row))
  <2>1. executor'[a].row = executor[a].row
    BY <1>2
  <2> QED BY <1>2, <2>1 DEF RowsInv, Ours
<1> QED BY <1>1, <1>2 DEF RowsInv, Sound

LEMMA RowsNext == RowsInv /\ [ApprovalNext]_approvalVars => RowsInv'
<1> SUFFICES ASSUME RowsInv, [ApprovalNext]_approvalVars PROVE RowsInv'
  OBVIOUS
<1> USE ApprovalAssumption DEF ApprovalAssumption
<1>0. ApprovalTypeOK /\ approval \in Row
  BY DEF RowsInv, ApprovalTypeOK
<1>1. CASE TimePasses
  BY <1>1, <1>0 DEF TimePasses, RowsInv, ApprovalTypeOK, Sound, Ours
<1>2. CASE ExpireStale
  <2>1. approval' = [approval EXCEPT !.status = "EXPIRED"] /\ "EXPIRED" \in Decided /\ "EXPIRED" \in Status
    BY <1>2 DEF ExpireStale, Decided, Status
  <2>2. /\ approval' \in Row /\ approval'.status = "EXPIRED" /\ approval'.signed = approval.signed
        /\ approval'.maker = approval.maker /\ approval'.tier = approval.tier /\ Sound(approval')
    BY <1>0, <2>1, OtherStatus, RefusedIsSound
  <2>3. ApprovalTypeOK'
    BY <1>2, <1>0, <2>2 DEF ExpireStale, ApprovalTypeOK
  <2> QED BY <1>2, <2>2, <2>3, StoresSound DEF ExpireStale, RowsInv
<1>3. ASSUME NEW a \in Signer, Submit(a) PROVE RowsInv'
  <2>1. approval' = [approval EXCEPT !.status = "PENDING", !.maker = a] /\ approval.signed = {}
        /\ \A b \in Signer : handling[b].row = {} /\ executor[b].row = {}
    BY <1>3 DEF Submit, RowsInv, Stage
  <2>2. approval' \in Row /\ approval'.status = "PENDING" /\ approval'.signed = {}
    BY <2>1, <1>0 DEF Row, Status
  <2>3. Sound(approval')
    BY <2>2 DEF Sound, Executable
  <2>4. ApprovalTypeOK'
    BY <1>3, <1>0, <2>2 DEF Submit, ApprovalTypeOK
  <2>5. handling' = handling /\ executor' = executor /\ mixed' = mixed
    BY <1>3 DEF Submit
  <2> QED BY <2>1, <2>2, <2>3, <2>4, <2>5 DEF RowsInv, Sound
<1>4. ASSUME NEW a \in Signer, NEW h \in Handling, ReadApproval(a, h) PROVE RowsInv'
  <2>1. /\ handling' = [handling EXCEPT ![a] = [handler |-> h, row |-> {approval}, columns |-> {}]]
        /\ approval' = approval /\ executor' = executor /\ mixed' = mixed
    BY <1>4 DEF ReadApproval
  <2>2. approval.status = "PENDING" /\ (h = "approve" => approval.maker # a)
    BY <1>4 DEF ReadApproval, Chosen, MayApprove, MayReject, MayCancel, Handling
  <2>3. ApprovalTypeOK'
    BY <1>4, <1>0 DEF ReadApproval, ApprovalTypeOK
  <2>4. handling'[a].handler = h /\ handling'[a].row = {approval} /\ \A b \in Signer : b # a => handling'[b] = handling[b]
    BY <2>1, <1>0 DEF ApprovalTypeOK
  <2>5. Ours(approval)
    BY DEF RowsInv, Ours
  <2> QED BY <2>1, <2>2, <2>3, <2>4, <2>5 DEF RowsInv, Ours, Sound
\* nothing is stored
<1>5. ASSUME NEW a \in Signer, ApprovalTypeOK', approval' = approval, mixed' = mixed, approval.status # "none",
             \A b \in Signer : \/ handling'[b].row = handling[b].row /\ handling'[b].handler = handling[b].handler
                               \/ handling'[b].row = {},
             \A b \in Signer : executor'[b].row \in {executor[b].row, {}}
      PROVE  RowsInv'
  <2>1. approval'.maker \notin approval'.signed /\ (~mixed' => ~mixed /\ Sound(approval'))
    BY <1>5 DEF RowsInv
  <2> QED BY <1>5, <2>1, StoresSound
<1>6. ASSUME NEW a \in Signer, CompareApproval(a) PROVE RowsInv'
  <2>1. PICK row \in handling[a].row :
          handling' = [handling EXCEPT ![a] = Compared(handling[a], ToSave(a, row), NoHandler)]
    BY <1>6 DEF CompareApproval
  <2> DEFINE next == Compared(handling[a], ToSave(a, row), NoHandler)
  <2>2. Differing(ToSave(a, row)) \in SUBSET Column
    BY DEF Differing
  <2>3. handling[a] \in [handler : Handling \union {"none"}, row : SUBSET Row, columns : SUBSET Column]
    BY <1>0 DEF ApprovalTypeOK
  <2>4. /\ next \in [handler : Handling \union {"none"}, row : SUBSET Row, columns : SUBSET Column]
        /\ \/ next.row = handling[a].row /\ next.handler = handling[a].handler
           \/ next.row = {}
    <3>1. CASE Differing(ToSave(a, row)) = {}
      BY <3>1 DEF Compared, NoHandler
    <3>2. CASE Differing(ToSave(a, row)) # {}
      BY <3>2, <2>2, <2>3 DEF Compared
    <3> QED BY <3>1, <3>2
  <2> HIDE DEF next
  <2>5. handling'[a] = next /\ \A b \in Signer : b # a => handling'[b] = handling[b]
    BY <2>1, <1>0 DEF ApprovalTypeOK, next
  <2>6. ApprovalTypeOK'
    <3>1. handling' \in [Signer -> [handler : Handling \union {"none"}, row : SUBSET Row, columns : SUBSET Column]]
      BY <2>1, <2>4, <1>0 DEF ApprovalTypeOK, next
    <3> QED BY <1>6, <1>0, <3>1 DEF CompareApproval, ApprovalTypeOK
  <2>7. approval.status # "none"
    BY <2>1 DEF RowsInv
  <2>8. \A b \in Signer : \/ handling'[b].row = handling[b].row /\ handling'[b].handler = handling[b].handler
                          \/ handling'[b].row = {}
    BY <2>4, <2>5
  <2>9. approval' = approval /\ mixed' = mixed /\ executor' = executor
    BY <1>6 DEF CompareApproval
  <2> QED BY <1>5, <2>6, <2>7, <2>8, <2>9
<1>7. ASSUME NEW a \in Signer, SaveApproval(a) PROVE RowsInv'
  <2>1. PICK row \in handling[a].row : Write(row, ToSave(a, row), handling[a].columns)
    BY <1>7 DEF SaveApproval
  <2>2. /\ ToSave(a, row) \in Row /\ Sound(ToSave(a, row))
        /\ ToSave(a, row).maker = approval.maker /\ ToSave(a, row).tier = approval.tier
        /\ approval.maker \notin ToSave(a, row).signed
        /\ ToSave(a, row).status # "none"
    BY SavedIsSound DEF Decided
  <2>3. approval.status # "none" /\ approval.maker \notin approval.signed
    BY <2>1 DEF RowsInv
  <2>4. /\ approval' \in Row /\ approval'.maker = approval.maker /\ approval'.tier = approval.tier
        /\ approval'.maker \notin approval'.signed
        /\ approval'.status \in {ToSave(a, row).status, approval.status}
        /\ overwrote' \in BOOLEAN /\ mixed' \in BOOLEAN
        /\ ~mixed' => ~mixed /\ approval' = ToSave(a, row)
    BY <2>1, <2>2, <2>3, <1>0, WriteKeeps
  <2>5. ApprovalTypeOK'
    <3>1. refused' \in BOOLEAN
      BY <1>7, <1>0 DEF SaveApproval, ApprovalTypeOK
    <3> QED BY <1>7, <1>0, <2>4, <3>1 DEF SaveApproval, ApprovalTypeOK, NoHandler
  <2>6. \A b \in Signer : handling'[b] = handling[b] \/ handling'[b].row = {}
    BY <1>7, <1>0 DEF SaveApproval, ApprovalTypeOK, NoHandler
  <2>7. executor' = executor
    BY <1>7 DEF SaveApproval
  <2>8. ~mixed' => ~mixed /\ Sound(approval')
    BY <2>4, <2>2
  <2>9. approval'.status # "none"
    BY <2>4, <2>2, <2>3
  <2> QED BY <2>3, <2>4, <2>5, <2>6, <2>7, <2>8, <2>9, StoresSound
<1>8. ASSUME NEW a \in Signer, BeginExecution(a) PROVE RowsInv'
  <2>1. approval.status = "APPROVED" /\ approval' = [approval EXCEPT !.status = "EXECUTING"]
    BY <1>8 DEF BeginExecution, Unclaimed
  <2>2. approval' \in Row /\ approval'.status = "EXECUTING" /\ approval'.signed = approval.signed
        /\ approval'.maker = approval.maker /\ approval'.tier = approval.tier
    BY <2>1, <1>0, OtherStatus DEF Status
  <2>3. ~mixed => Sound(approval')
    BY <2>1, <2>2 DEF Sound, Executable, RowsInv
  <2>4. ApprovalTypeOK'
    BY <1>8, <1>0, <2>2 DEF BeginExecution, ApprovalTypeOK, Stage
  <2>5. \A b \in Signer : executor'[b].row \in {executor[b].row, {}}
    BY <1>8, <1>0 DEF BeginExecution, ApprovalTypeOK, Stage
  <2>6. handling' = handling /\ mixed' = mixed /\ approval.maker \notin approval.signed
    BY <1>8 DEF BeginExecution, RowsInv
  <2> QED BY <2>1, <2>2, <2>3, <2>4, <2>5, <2>6, StoresSound
\* an executor's stage changes, and he keeps his row or drops it
<1>9. ASSUME NEW a \in Signer, NEW stage, executor' = [executor EXCEPT ![a] = stage],
             executor[a].at # "idle",
             stage \in [at : {"idle", "work", "complete", "fail", "save"}, row : SUBSET Row, columns : SUBSET Column],
             stage.row \in {executor[a].row, {}},
             runs' \in 0..MaxRuns, approvalFaults' \in 0..MaxApprovalFaults,
             UNCHANGED <<approval, due, handling, refused, overwrote, mixed>>
      PROVE  RowsInv'
  <2>1. ApprovalTypeOK'
    BY <1>9, <1>0 DEF ApprovalTypeOK
  <2>2. \A b \in Signer : executor'[b].row \in {executor[b].row, {}}
    BY <1>9, <1>0 DEF ApprovalTypeOK
  <2>3. approval.status # "none"
    BY <1>9 DEF RowsInv, Stage
  <2> QED BY <1>5, <1>9, <2>1, <2>2, <2>3
<1>10. ASSUME NEW a \in Signer, Work(a) PROVE RowsInv'
  <2>1. PICK stage \in {Stage("complete"), Stage("fail")} : executor' = [executor EXCEPT ![a] = stage]
    BY <1>10 DEF Work
  <2>2. runs' \in 0..MaxRuns /\ approvalFaults' \in 0..MaxApprovalFaults /\ executor[a].at # "idle"
    BY <1>10, <1>0 DEF Work, ApprovalTypeOK
  <2> QED BY <1>9, <1>10, <2>1, <2>2 DEF Work, Stage
<1>11. ASSUME NEW a \in Signer, ReadEnd(a), UNCHANGED <<approval, due, handling, runs, refused, overwrote, mixed>>,
              executor[a].at # "idle", approvalFaults' \in 0..MaxApprovalFaults
       PROVE  RowsInv'
  <2>1. CASE approval.status # "EXECUTING"
    <3>1. executor' = [executor EXCEPT ![a] = Stage("idle")]
      BY <1>11, <2>1 DEF ReadEnd
    <3> QED BY <1>9, <1>11, <3>1, <1>0 DEF Stage, ApprovalTypeOK
  <2>2. CASE approval.status = "EXECUTING"
    <3> DEFINE stage == [at |-> "save", row |-> {approval}, columns |-> {}]
    <3>1. executor' = [executor EXCEPT ![a] = stage]
      BY <1>11, <2>2 DEF ReadEnd
    <3>2. stage \in [at : {"idle", "work", "complete", "fail", "save"}, row : SUBSET Row, columns : SUBSET Column]
      BY <1>0
    <3>3. executor'[a] = stage /\ \A b \in Signer : b # a => executor'[b] = executor[b]
      BY <3>1, <1>0 DEF ApprovalTypeOK
    <3>4. ApprovalTypeOK'
      <4> HIDE DEF stage
      <4> QED BY <1>11, <1>0, <3>1, <3>2 DEF ApprovalTypeOK
    <3>5. Ours(approval) /\ (~mixed => Sound(approval))
      BY DEF RowsInv, Ours
    <3> QED BY <1>11, <2>2, <3>3, <3>4, <3>5 DEF RowsInv, Ours, Sound
  <2> QED BY <2>1, <2>2
<1>12. ASSUME NEW a \in Signer, CompleteExecution(a) PROVE RowsInv'
  <2>1. CASE ReadEnd(a) /\ UNCHANGED approvalFaults
    BY <1>11, <1>12, <2>1, <1>0 DEF CompleteExecution, ApprovalTypeOK
  <2>2. CASE ApprovalFails /\ executor' = [executor EXCEPT ![a] = Stage("fail")]
    <3>1. runs' \in 0..MaxRuns /\ approvalFaults' \in 0..MaxApprovalFaults /\ executor[a].at # "idle"
      BY <1>12, <2>2, <1>0 DEF CompleteExecution, ApprovalFails, ApprovalTypeOK
    <3> QED BY <1>9, <1>12, <2>2, <3>1 DEF CompleteExecution, Stage
  <2> QED BY <1>12, <2>1, <2>2 DEF CompleteExecution
<1>13. ASSUME NEW a \in Signer, FailExecution(a) PROVE RowsInv'
  BY <1>11, <1>13, <1>0 DEF FailExecution, ApprovalTypeOK
<1>14. ASSUME NEW a \in Signer, CompareExecuted(a) PROVE RowsInv'
  <2>1. PICK row \in executor[a].row :
          executor' = [executor EXCEPT ![a] = Compared(executor[a], Executed(row), Stage("idle"))]
    BY <1>14 DEF CompareExecuted
  <2> DEFINE next == Compared(executor[a], Executed(row), Stage("idle"))
  <2>2. Differing(Executed(row)) \in SUBSET Column
    BY DEF Differing
  <2>3. executor[a] \in [at : {"idle", "work", "complete", "fail", "save"}, row : SUBSET Row, columns : SUBSET Column]
    BY <1>0 DEF ApprovalTypeOK
  <2>5. /\ next \in [at : {"idle", "work", "complete", "fail", "save"}, row : SUBSET Row, columns : SUBSET Column]
        /\ next.row \in {executor[a].row, {}}
    <3>1. CASE Differing(Executed(row)) = {}
      BY <3>1 DEF Compared, Stage
    <3>2. CASE Differing(Executed(row)) # {}
      BY <3>2, <2>2, <2>3 DEF Compared
    <3> QED BY <3>1, <3>2
  <2> HIDE DEF next
  <2>6. runs' \in 0..MaxRuns /\ approvalFaults' \in 0..MaxApprovalFaults /\ executor[a].at # "idle"
    BY <1>14, <1>0 DEF CompareExecuted, ApprovalTypeOK
  <2>7. UNCHANGED <<approval, due, handling, refused, overwrote, mixed>>
    BY <1>14 DEF CompareExecuted
  <2> QED BY <1>9, <2>1, <2>5, <2>6, <2>7 DEF next
<1>15. ASSUME NEW a \in Signer, SaveExecuted(a) PROVE RowsInv'
  <2>1. PICK row \in executor[a].row : Write(row, Executed(row), executor[a].columns)
    BY <1>15 DEF SaveExecuted
  <2>2. row \in Row /\ row.status = "EXECUTING" /\ Ours(row) /\ (~mixed => Sound(row))
    BY <2>1, <1>0 DEF RowsInv, ApprovalTypeOK
  <2>3. /\ Executed(row) \in Row /\ Executed(row).status = "EXECUTED" /\ Executed(row).signed = row.signed
        /\ Executed(row).maker = row.maker /\ Executed(row).tier = row.tier
    BY <2>2, OtherStatus DEF Executed, Status
  <2>4. ~mixed => Sound(Executed(row))
    BY <2>2, <2>3 DEF Sound, Executable
  <2>5. approval.status # "none" /\ approval.maker \notin approval.signed
    BY <1>15 DEF SaveExecuted, RowsInv, Stage
  <2>6. /\ approval' \in Row /\ approval'.maker = approval.maker /\ approval'.tier = approval.tier
        /\ approval'.maker \notin approval'.signed
        /\ approval'.status \in {"EXECUTED", approval.status}
        /\ overwrote' \in BOOLEAN /\ mixed' \in BOOLEAN
        /\ ~mixed' => ~mixed /\ approval' = Executed(row)
    BY <2>1, <2>2, <2>3, <2>5, <1>0, WriteKeeps DEF Ours
  <2>7. ApprovalTypeOK'
    BY <1>15, <1>0, <2>6 DEF SaveExecuted, ApprovalTypeOK, Stage
  <2>8. \A b \in Signer : executor'[b].row \in {executor[b].row, {}}
    BY <1>15, <1>0 DEF SaveExecuted, ApprovalTypeOK, Stage
  <2>9. handling' = handling
    BY <1>15 DEF SaveExecuted
  <2> QED BY <2>4, <2>5, <2>6, <2>7, <2>8, <2>9, StoresSound
<1>16. ASSUME NEW a \in Signer, ExecutorDies(a) PROVE RowsInv'
  <2>1. runs' \in 0..MaxRuns /\ approvalFaults' \in 0..MaxApprovalFaults
    BY <1>16, <1>0 DEF ExecutorDies, ApprovalFails, ApprovalTypeOK
  <2> QED BY <1>9, <1>16, <2>1 DEF ExecutorDies, Stage
<1>17. CASE UNCHANGED approvalVars
  BY <1>17, <1>0 DEF approvalVars, RowsInv, ApprovalTypeOK, Sound, Ours
<1> QED
  BY <1>1, <1>2, <1>3, <1>4, <1>6, <1>7, <1>8, <1>10, <1>12, <1>13, <1>14, <1>15, <1>16, <1>17 DEF ApprovalNext

-----------------------------------------------------------------------------
(* ClaimInv is inductive, next to RowsInv *)

LEMMA ClaimInit == ApprovalInit => ClaimInv
<1> SUFFICES ASSUME ApprovalInit PROVE ClaimInv
  OBVIOUS
<1>1. approval.status = "none" /\ runs = 0 /\ refused = FALSE /\ \A a \in Signer : executor[a].at = "idle"
  BY DEF ApprovalInit, Stage
<1> QED BY <1>1 DEF ClaimInv

LEMMA ClaimNext == RowsInv /\ ClaimInv /\ [ApprovalNext]_approvalVars => ClaimInv'
<1> SUFFICES ASSUME RowsInv, ClaimInv, [ApprovalNext]_approvalVars, ~overwrote' PROVE ClaimInv'
  BY DEF ClaimInv
<1>0. ApprovalTypeOK
  BY DEF RowsInv
<1>a. ~overwrote
  BY <1>0 DEF ApprovalTypeOK, ApprovalNext, approvalVars, TimePasses, ExpireStale, Submit, ReadApproval,
         CompareApproval, SaveApproval, Write, BeginExecution, Work, CompleteExecution, CompareExecuted, SaveExecuted,
         FailExecution, ExecutorDies
<1>b. /\ approval.status \notin {"EXECUTING", "EXECUTED"} =>
           runs = 0 /\ \A a \in Signer : executor[a].at = "idle"
      /\ approval.status = "EXECUTED" => \A a \in Signer : executor[a].at = "idle"
      /\ \A a, b \in Signer : executor[a].at # "idle" /\ executor[b].at # "idle" => a = b
      /\ \A a \in Signer : executor[a].at = "work" => runs = 0
      /\ runs <= 1
      /\ refused => approval.status \in Decided
  BY <1>a DEF ClaimInv
<1>1. CASE TimePasses
  BY <1>1, <1>b DEF TimePasses, ClaimInv
<1>2. CASE ExpireStale
  <2>1. approval.status = "PENDING" /\ approval'.status = "EXPIRED"
    BY <1>2, <1>0 DEF ExpireStale, ApprovalTypeOK, Row
  <2> QED BY <1>2, <2>1, <1>b DEF ExpireStale, ClaimInv, Decided
<1>3. ASSUME NEW a \in Signer, Submit(a) PROVE ClaimInv'
  <2>1. approval.status = "none" /\ approval'.status = "PENDING"
    BY <1>3, <1>0 DEF Submit, ApprovalTypeOK, Row
  <2> QED BY <1>3, <2>1, <1>b DEF Submit, ClaimInv, Decided
<1>4. ASSUME NEW a \in Signer, NEW h \in Handling, ReadApproval(a, h) PROVE ClaimInv'
  BY <1>4, <1>b DEF ReadApproval, ClaimInv
<1>5. ASSUME NEW a \in Signer, SaveApproval(a) PROVE ClaimInv'
  <2> DEFINE cols == handling[a].columns
  <2>1. PICK row \in handling[a].row :
          /\ Write(row, ToSave(a, row), cols)
          /\ refused' = (refused \/ ("status" \in cols /\ ToSave(a, row).status \in Decided))
    BY <1>5 DEF SaveApproval
  <2>2. /\ ToSave(a, row) \in Row /\ ToSave(a, row).maker = approval.maker /\ ToSave(a, row).tier = approval.tier
        /\ approval.maker \notin ToSave(a, row).signed /\ approval.maker \notin approval.signed
        /\ ToSave(a, row).status \in Decided \union {"PENDING", "APPROVED"}
        /\ row.status = "PENDING"
    BY SavedIsSound DEF RowsInv
  <2> HIDE DEF cols
  <2>3. /\ "status" \in cols => approval'.status = ToSave(a, row).status /\ approval.status = "PENDING"
        /\ "status" \notin cols => approval'.status = approval.status
    BY <2>1, <2>2, <1>0, WriteKeeps
  <2>4. executor' = executor /\ runs' = runs
    BY <1>5 DEF SaveApproval
  <2>5. CASE "status" \notin cols
    BY <2>1, <2>3, <2>4, <2>5, <1>b DEF ClaimInv
  <2>6. CASE "status" \in cols
    <3>1. ~refused /\ runs = 0 /\ \A b \in Signer : executor[b].at = "idle"
      BY <2>3, <2>6, <1>b DEF Decided
    <3>2. refused' => approval'.status \in Decided
      BY <2>1, <2>3, <2>6, <3>1, Zenon
    <3>3. approval'.status \notin {"EXECUTING", "EXECUTED"}
      BY <2>2, <2>3, <2>6 DEF Decided
    <3>4. runs' = 0 /\ \A b \in Signer : executor'[b].at = "idle"
      BY <2>4, <3>1
    <3> QED BY <3>2, <3>3, <3>4 DEF ClaimInv
  <2> QED BY <2>5, <2>6
<1>6. ASSUME NEW a \in Signer, BeginExecution(a) PROVE ClaimInv'
  <2>1. approval.status = "APPROVED" /\ approval'.status = "EXECUTING"
    BY <1>6, <1>0 DEF BeginExecution, Unclaimed, ApprovalTypeOK, Row
  <2>2. runs' = 0 /\ ~refused' /\ \A b \in Signer : b # a => executor'[b].at = "idle"
    BY <1>6, <2>1, <1>b, <1>0 DEF BeginExecution, ApprovalTypeOK, Decided
  <2> QED BY <2>1, <2>2 DEF ClaimInv
<1>7. ASSUME NEW a \in Signer, executor[a].at # "idle", approval' = approval, refused' = refused,
             \/ runs' = runs /\ executor'[a].at # "work"
             \/ runs' = runs + 1 /\ executor[a].at = "work" /\ executor'[a].at # "work",
             \A b \in Signer : b # a => executor'[b] = executor[b]
      PROVE  ClaimInv'
  <2>1. approval.status = "EXECUTING" /\ ~refused
    <3>1. approval.status \in {"EXECUTING", "EXECUTED"}
      BY <1>7, <1>b
    <3>2. approval.status # "EXECUTED"
      BY <1>7, <1>b
    <3> QED BY <3>1, <3>2, <1>b DEF Decided
  <2>2. \A b \in Signer : b # a => executor'[b].at = "idle"
    BY <1>7, <1>b
  <2>3. runs \in Nat /\ runs' <= 1 /\ executor'[a].at # "work"
    BY <1>7, <1>b, <1>0, ApprovalAssumption DEF ApprovalTypeOK, ApprovalAssumption
  <2> QED BY <1>7, <2>1, <2>2, <2>3 DEF ClaimInv
<1>8. ASSUME NEW a \in Signer, Work(a) PROVE ClaimInv'
  <2>1. executor[a].at = "work" /\ approval' = approval /\ refused' = refused
        /\ (runs' = runs \/ runs' = runs + 1)
    BY <1>8 DEF Work
  <2>2. executor'[a].at # "work" /\ \A b \in Signer : b # a => executor'[b] = executor[b]
    BY <1>8, <1>0 DEF Work, Stage, ApprovalTypeOK
  <2> QED BY <1>7, <2>1, <2>2
<1>9. ASSUME NEW a \in Signer, CompleteExecution(a) PROVE ClaimInv'
  <2>1. executor[a].at = "complete" /\ approval' = approval /\ refused' = refused /\ runs' = runs
    BY <1>9 DEF CompleteExecution
  <2>2. executor'[a].at # "work" /\ \A b \in Signer : b # a => executor'[b] = executor[b]
    BY <1>9, <1>0 DEF CompleteExecution, ReadEnd, Stage, ApprovalTypeOK
  <2> QED BY <1>7, <2>1, <2>2
<1>10. ASSUME NEW a \in Signer, FailExecution(a) PROVE ClaimInv'
  <2>1. executor[a].at = "fail" /\ approval' = approval /\ refused' = refused /\ runs' = runs
    BY <1>10 DEF FailExecution
  <2>2. executor'[a].at # "work" /\ \A b \in Signer : b # a => executor'[b] = executor[b]
    BY <1>10, <1>0 DEF FailExecution, ReadEnd, Stage, ApprovalTypeOK
  <2> QED BY <1>7, <2>1, <2>2
<1>11. ASSUME NEW a \in Signer, SaveExecuted(a) PROVE ClaimInv'
  <2> DEFINE cols == executor[a].columns
  <2>1. PICK row \in executor[a].row : Write(row, Executed(row), cols)
    BY <1>11 DEF SaveExecuted
  <2>2. row \in Row /\ row.status = "EXECUTING" /\ Ours(row) /\ approval.maker \notin approval.signed
    BY <2>1, <1>0 DEF RowsInv, ApprovalTypeOK
  <2>3. /\ Executed(row) \in Row /\ Executed(row).status = "EXECUTED" /\ Executed(row).signed = row.signed
        /\ Executed(row).maker = row.maker /\ Executed(row).tier = row.tier
    BY <2>2, OtherStatus DEF Executed, Status
  <2> HIDE DEF cols
  <2>4. /\ "status" \in cols => approval'.status = "EXECUTED" /\ approval.status = "EXECUTING"
        /\ "status" \notin cols => approval'.status = approval.status
    BY <2>1, <2>2, <2>3, <1>0, WriteKeeps DEF Ours
  <2>5. /\ executor[a].at = "save" /\ refused' = refused /\ runs' = runs
        /\ executor'[a].at = "idle" /\ \A b \in Signer : b # a => executor'[b] = executor[b]
    BY <1>11, <1>0 DEF SaveExecuted, Stage, ApprovalTypeOK
  <2>6. approval.status = "EXECUTING" /\ ~refused
    <3>1. approval.status \in {"EXECUTING", "EXECUTED"}
      BY <2>5, <1>b
    <3>2. approval.status # "EXECUTED"
      BY <2>5, <1>b
    <3> QED BY <3>1, <3>2, <1>b DEF Decided
  <2>7. \A b \in Signer : executor'[b].at = "idle"
    BY <2>5, <1>b
  <2>8. approval'.status \in {"EXECUTING", "EXECUTED"}
    BY <2>4, <2>6
  <2> QED BY <2>5, <2>6, <2>7, <2>8, <1>b DEF ClaimInv, Decided
<1>12. ASSUME NEW a \in Signer, ExecutorDies(a) PROVE ClaimInv'
  <2>1. executor[a].at # "idle" /\ approval' = approval /\ refused' = refused /\ runs' = runs
    BY <1>12 DEF ExecutorDies
  <2>2. executor'[a].at # "work" /\ \A b \in Signer : b # a => executor'[b] = executor[b]
    BY <1>12, <1>0 DEF ExecutorDies, Stage, ApprovalTypeOK
  <2> QED BY <1>7, <2>1, <2>2
<1>14. ASSUME NEW a \in Signer, CompareApproval(a) PROVE ClaimInv'
  BY <1>14, <1>b DEF CompareApproval, ClaimInv
<1>15. ASSUME NEW a \in Signer, CompareExecuted(a) PROVE ClaimInv'
  <2>1. /\ executor[a].at = "save" /\ approval' = approval /\ refused' = refused /\ runs' = runs
        /\ \A b \in Signer : b # a => executor'[b] = executor[b]
    BY <1>15, <1>0 DEF CompareExecuted, ApprovalTypeOK
  <2>2. executor'[a].at # "work"
    <3>1. PICK row \in executor[a].row :
            executor' = [executor EXCEPT ![a] = Compared(executor[a], Executed(row), Stage("idle"))]
      BY <1>15 DEF CompareExecuted
    <3>2. executor'[a] = Compared(executor[a], Executed(row), Stage("idle"))
      BY <3>1, <1>0 DEF ApprovalTypeOK
    <3>3. executor[a] \in [at : {"idle", "work", "complete", "fail", "save"}, row : SUBSET Row, columns : SUBSET Column]
      BY <1>0 DEF ApprovalTypeOK
    <3>4. CASE Differing(Executed(row)) = {}
      BY <3>2, <3>4 DEF Compared, Stage
    <3>5. CASE Differing(Executed(row)) # {}
      BY <3>2, <3>3, <3>5, <2>1 DEF Compared
    <3> QED BY <3>4, <3>5
  <2> QED BY <1>7, <2>1, <2>2
<1>13. CASE UNCHANGED approvalVars
  BY <1>13, <1>b DEF approvalVars, ClaimInv
<1> QED BY <1>1, <1>2, <1>3, <1>4, <1>5, <1>6, <1>8, <1>9, <1>10, <1>11, <1>12, <1>13, <1>14, <1>15 DEF ApprovalNext

-----------------------------------------------------------------------------
(* Theorems *)

LEMMA ApprovalInductive == ApprovalSpec => []ApprovalInv
<1>1. ApprovalInit => ApprovalInv
  BY RowsInit, ClaimInit DEF ApprovalInv
<1>2. ApprovalInv /\ [ApprovalNext]_approvalVars => ApprovalInv'
  BY RowsNext, ClaimNext DEF ApprovalInv
<1> QED BY <1>1, <1>2, PTL DEF ApprovalSpec

\* Every reachable state of an approval and its handlers is well typed.
THEOREM ApprovalTypeCorrect == ApprovalSpec => []ApprovalTypeOK
<1>1. ApprovalInv => ApprovalTypeOK
  BY DEF ApprovalInv, RowsInv
<1> QED BY <1>1, ApprovalInductive, PTL

\* No maker's signature is on his request, whatever saves undid each other, and
\* what may be executed was signed by enough others unless the columns of two
\* saves mixed (approve, reject, cancel, completeExecution and TypeORM's save).
THEOREM ExecutableIsSigned == ApprovalSpec => []SignedByOthers
<1>1. ApprovalInv => SignedByOthers
  BY DEF ApprovalInv, RowsInv, Sound, Executable, SignedByOthers
<1> QED BY <1>1, ApprovalInductive, PTL

\* As long as no save undid another's status, the work runs at most once and refused
\* work never does (beginExecution's conditional update).
THEOREM DecisionHolds == ApprovalSpec => []DecisionStands
<1>1. ApprovalInv => DecisionStands
  <2> SUFFICES ASSUME ApprovalInv, ~overwrote
               PROVE  /\ runs + Cardinality({a \in Signer : executor[a].at = "work"}) <= 1
                      /\ refused => runs = 0 /\ approval.status \in Decided
    BY DEF DecisionStands
  <2> DEFINE Executing == {a \in Signer : executor[a].at = "work"}
  <2>1. runs \in Nat /\ runs <= 1
    BY ApprovalAssumption DEF ApprovalInv, RowsInv, ApprovalTypeOK, ClaimInv, ApprovalAssumption
  <2>2. CASE Executing = {}
    <3>1. Cardinality(Executing) = 0
      BY <2>2, FS_EmptySet
    <3> QED BY <3>1, <2>1 DEF ApprovalInv, ClaimInv, Decided
  <2>3. CASE Executing # {}
    <3>1. PICK a \in Signer : executor[a].at = "work"
      BY <2>3
    <3>2. Executing = {a} /\ runs = 0
      BY <3>1 DEF ApprovalInv, ClaimInv
    <3>3. Cardinality(Executing) = 1
      BY <3>2, FS_Singleton
    <3> QED BY <3>2, <3>3 DEF ApprovalInv, ClaimInv
  <2> QED BY <2>2, <2>3
<1> QED BY <1>1, ApprovalInductive, PTL

-----------------------------------------------------------------------------
(* The vendor's books *)

BalanceRow == [accrued : Int, paidOut : Int, reserve : Int, owed : Nat, held : Int, bonus : Nat]
SettlementRow == [status : SettlementStatus, amount : Nat, gross : Nat, cycle : Nat]
WithdrawalRow == [status : WithdrawalStatus, amount : Nat, gross : Nat, cycle : Nat]
IdleJob == [kind |-> "idle", row |-> EmptyBalance, id |-> "none", n |-> 0]
Applying == {"applyPaid", "applyFailed"}
OnSettlement == {"pay", "payFailed", "paid", "finalize", "markFailed", "reverse"}
Failing == \E w \in Withdrawal : withdrawal[w].status = "FAILED"

VendorTyped ==
  /\ earning \in [VOrder -> {"none", "open"} \union Settlement]
  /\ balance \in BalanceRow
  /\ settlement \in [Settlement -> SettlementRow] /\ withdrawal \in [Withdrawal -> WithdrawalRow]
  /\ owedToVendor \in Int /\ heldInJournal \in Int
  /\ discharged \in [Settlement -> {0, 1}]
  /\ transfer \in [Transfer -> {"none", "pending", "success", "failed"}]
  /\ reports \subseteq Transfer \X BOOLEAN /\ lost \subseteq Transfer
  /\ DOMAIN job = Worker
  /\ week \in 1..MaxCycle /\ jobs \in 0..MaxJobs /\ payoutFaults \in 0..MaxPayoutFaults

\* a settlement's row is made once, with an id that is free
Unmade == {s \in Settlement : settlement[s].status = "none"}
FreshRows ==
  /\ \A s \in Settlement : settlement[s].status = "none" => settlement[s] = NoRow /\ discharged[s] = 0
  /\ Cardinality(Working("settle")) <= Cardinality(Unmade)

\* some transfer of a settlement went through
Through(s) == \E t \in SettlementTransfer : t[1] = s /\ transfer[t] = "success"

\* what a worker knows of what it works on: its row and number, the orders it
\* settles, the settlement it pays, the withdrawal
Counting == {"settle", "release", "penalty", "request", "pay", "finalize"}
JobTyped(p) ==
  /\ DOMAIN job[p] = {"kind", "row", "id", "n"} /\ job[p].row \in BalanceRow
  /\ job[p].kind \in Counting => job[p].n \in Nat
JobOrders(p) ==
  /\ job[p].kind = "accrue" => job[p].id \in VOrder /\ earning[job[p].id] = "none"
  /\ job[p].kind = "settle" => \A o \in job[p].id : o \in VOrder /\ earning[o] # "none"
JobSettles(p) ==
  /\ job[p].kind \in OnSettlement => job[p].id \in Settlement /\ settlement[job[p].id].status # "none"
  /\ job[p].kind = "pay" =>
       /\ settlement[job[p].id].amount > 0 /\ Chunks(settlement[job[p].id].amount) <= MaxChunks
       /\ job[p].n > 0 /\ (job[p].n > 1 => Through(job[p].id))
  /\ job[p].kind \in {"paid", "finalize"} => Through(job[p].id)
  /\ job[p].kind = "finalize" => settlement[job[p].id].status \in {"READY", "FAILED"}
  /\ job[p].kind = "finalize" /\ job[p].n > 0 =>
       <<job[p].id, job[p].n>> \in SettlementTransfer /\ transfer[<<job[p].id, job[p].n>>] = "success"
  /\ job[p].kind = "markFailed" =>
       <<job[p].id, job[p].n>> \in SettlementTransfer /\ transfer[<<job[p].id, job[p].n>>] = "failed"
JobDraws(p) ==
  /\ job[p].kind \in {"request"} \union Applying => job[p].id \in Withdrawal
  /\ job[p].kind = "request" => withdrawal[job[p].id].status = "none" /\ transfer[<<job[p].id, 0>>] = "none"
  /\ job[p].kind \in Applying => withdrawal[job[p].id].status # "none"
  /\ job[p].kind = "applyPaid" => transfer[<<job[p].id, 0>>] = "success"
  /\ job[p].kind = "applyFailed" => transfer[<<job[p].id, 0>>] = "failed"
JobKnows(p) == JobTyped(p) /\ JobOrders(p) /\ JobSettles(p) /\ JobDraws(p)

\* an order, a settlement's payment and the balance row have one worker each
OneWorker == \A p, q \in Worker :
  /\ job[p].kind = "accrue" /\ job[q].kind = "accrue" /\ job[p].id = job[q].id => p = q
  /\ job[p].kind = "finalize" /\ job[q].kind = "finalize" /\ job[p].id = job[q].id => p = q
  /\ job[p].kind = "request" /\ job[q].kind = "request" => p = q
JobsInv == (\A p \in Worker : JobKnows(p)) /\ OneWorker

ReportsKnow == \A t \in Transfer :
  /\ <<t, TRUE>> \in reports => transfer[t] = "success"
  /\ <<t, FALSE>> \in reports => transfer[t] = "failed"

\* what the statuses say of the transfers, with who still brings the result
WithdrawalsTell == \A w \in Withdrawal : LET t == <<w, 0>> IN
  /\ withdrawal[w].status = "PAID" => transfer[t] = "success"
  /\ withdrawal[w].status = "FAILED" => transfer[t] \in {"none", "failed"} \/ t \in lost
  /\ withdrawal[w].status = "PROCESSING" /\ transfer[t] # "pending" =>
       \/ \E ok \in BOOLEAN : <<t, ok>> \in reports
       \/ \E p \in Worker : job[p].kind \in Applying /\ job[p].id = w
       \/ overtaken
SettlementsTell == \A s \in Settlement :
  /\ discharged[s] = 1 => settlement[s].status \in {"PAID", "REVERSED"} \/ clobbered
  /\ settlement[s].status = "PAID" => Through(s)

\* what a reversal or a release has claimed and not yet posted
Pending(p) == IF job[p].kind = "release" THEN job[p].n
              ELSE IF job[p].kind = "reverse" THEN settlement[job[p].id].amount ELSE 0

GrossSum == SumFunctionOnSet([s \in Settlement |-> settlement[s].gross], Settlement)
CreditSum == SumFunctionOnSet([s \in Settlement |-> Credited(s)], Settlement)
HeldSum == SumFunctionOnSet([w \in Withdrawal |-> OnHold(w, Fee)], Withdrawal)
PostedSum == SumFunctionOnSet([w \in Withdrawal |-> OnHold(w, 0)], Withdrawal)
DrawnSum == SumFunctionOnSet([w \in Withdrawal |-> Withdrawn(w)], Withdrawal)
PendingSum == SumFunctionOnSet([p \in Worker |-> Pending(p)], Worker)

GrossBook == GrossSum + Cardinality(Unsettled) * Share + balance.bonus = Brought \/ doubled \/ stale
HeldBook == balance.held = HeldSum \/ stale
PostedBook == heldInJournal = PostedSum \/ payoutFaults > 0 \/ Failing
OwedBook == owedToVendor + PendingSum = Brought + CreditSum - DrawnSum \/ payoutFaults > 0 \/ Failing \/ clobbered

VendorInv == /\ VendorTyped /\ FreshRows /\ JobsInv /\ ReportsKnow /\ WithdrawalsTell /\ SettlementsTell
             /\ GrossBook /\ HeldBook /\ PostedBook /\ OwedBook

-----------------------------------------------------------------------------
(* Its sums *)

\* Every term is a number.
LEMMA TermsTyped ==
  ASSUME VendorTyped, JobsInv
  PROVE  /\ \A s \in Settlement : settlement[s].gross \in Nat /\ Credited(s) \in Int
         /\ \A w \in Withdrawal : OnHold(w, Fee) \in Nat /\ OnHold(w, 0) \in Nat /\ Withdrawn(w) \in Nat
         /\ \A p \in Worker : Pending(p) \in Int
<1>1. Fee \in Nat
  BY PayoutAssumption
<1>2. \A w \in Withdrawal : OnHold(w, Fee) \in Nat /\ OnHold(w, 0) \in Nat /\ Withdrawn(w) \in Nat
  BY <1>1 DEF VendorTyped, WithdrawalRow, OnHold, Withdrawn
<1>3. \A s \in Settlement : settlement[s].gross \in Nat /\ settlement[s].amount \in Int /\ discharged[s] \in {0, 1}
  BY DEF VendorTyped, SettlementRow
<1>4. \A s \in Settlement : Credited(s) \in Int
  <2> TAKE s \in Settlement
  <2>1. PICK a \in Int, d \in Int : a = settlement[s].amount /\ d = discharged[s]
    BY <1>3
  <2>2. PICK e \in Int : e = d * a
    OBVIOUS
  <2>3. PICK r \in Int : r = IF settlement[s].status # "none" /\ settlement[s].gross = 0 THEN settlement[s].amount ELSE 0
    BY <1>3
  <2>4. PICK v \in Int : v = IF settlement[s].status = "REVERSED" THEN settlement[s].amount ELSE 0
    BY <1>3
  <2>5. Credited(s) = r + v - e
    BY <2>1, <2>2, <2>3, <2>4 DEF Credited
  <2> QED BY <2>5
<1>5. \A p \in Worker : Pending(p) \in Int
  <2> TAKE p \in Worker
  <2>1. JobTyped(p) /\ JobSettles(p)
    BY DEF JobsInv, JobKnows
  <2>2. CASE job[p].kind = "release"
    BY <2>1, <2>2 DEF JobTyped, Counting, Pending
  <2>3. CASE job[p].kind = "reverse"
    BY <1>3, <2>1, <2>3 DEF JobSettles, OnSettlement, Pending
  <2> QED BY <2>2, <2>3 DEF Pending
<1> QED BY <1>2, <1>3, <1>4, <1>5

VendorSums == VendorTyped /\ JobsInv =>
  GrossSum \in Nat /\ CreditSum \in Int /\ HeldSum \in Nat /\ PostedSum \in Nat /\ DrawnSum \in Nat /\ PendingSum \in Int
LEMMA VendorSumsNow == VendorSums
<1> SUFFICES ASSUME VendorTyped, JobsInv
             PROVE  /\ GrossSum \in Nat /\ CreditSum \in Int /\ HeldSum \in Nat
                    /\ PostedSum \in Nat /\ DrawnSum \in Nat /\ PendingSum \in Int
  BY DEF VendorSums
<1>1. IsFiniteSet(Settlement) /\ IsFiniteSet(Withdrawal) /\ IsFiniteSet(Worker)
  BY PayoutAssumption
<1>2. GrossSum \in Nat
  BY <1>1, TermsTyped, SumType DEF GrossSum
<1>3. CreditSum \in Int
  BY <1>1, TermsTyped, SumType DEF CreditSum
<1>4. HeldSum \in Nat
  BY <1>1, TermsTyped, SumType DEF HeldSum
<1>5. PostedSum \in Nat
  BY <1>1, TermsTyped, SumType DEF PostedSum
<1>6. DrawnSum \in Nat
  BY <1>1, TermsTyped, SumType DEF DrawnSum
<1>7. PendingSum \in Int
  BY <1>1, TermsTyped, SumType DEF PendingSum
<1> QED BY <1>2, <1>3, <1>4, <1>5, <1>6, <1>7
LEMMA VendorSumsNext == VendorSums'
  BY VendorSumsNow, PTL

TermsFact == VendorTyped /\ JobsInv =>
  /\ \A s \in Settlement : settlement[s].gross \in Nat /\ Credited(s) \in Int
  /\ \A w \in Withdrawal : OnHold(w, Fee) \in Nat /\ OnHold(w, 0) \in Nat /\ Withdrawn(w) \in Nat
  /\ \A p \in Worker : Pending(p) \in Int
LEMMA TermsNow == TermsFact
  BY TermsTyped DEF TermsFact
LEMMA TermsNext == TermsFact'
  BY TermsNow, PTL

\* One settlement changes its own terms.
LEMMA OneSettlement ==
  ASSUME VendorTyped, JobsInv, VendorTyped', JobsInv', NEW s \in Settlement,
         \A r \in Settlement \ {s} : settlement'[r] = settlement[r] /\ discharged'[r] = discharged[r]
  PROVE  /\ GrossSum' = GrossSum - settlement[s].gross + settlement'[s].gross
         /\ CreditSum' = CreditSum - Credited(s) + Credited(s)'
<1>1. IsFiniteSet(Settlement)
  BY PayoutAssumption
<1>2. GrossSum' = GrossSum - settlement[s].gross + settlement'[s].gross
  <2> DEFINE f == [r \in Settlement |-> settlement[r].gross]
             g == [r \in Settlement |-> settlement'[r].gross]
  <2>1. \A r \in Settlement : f[r] \in Int /\ g[r] \in Int
    BY TermsNow, TermsNext DEF TermsFact
  <2>2. \A r \in Settlement \ {s} : f[r] = g[r]
    OBVIOUS
  <2>3. GrossSum = SumFunctionOnSet(f, Settlement) /\ GrossSum' = SumFunctionOnSet(g, Settlement)
    BY DEF GrossSum
  <2>4. f[s] = settlement[s].gross /\ g[s] = settlement'[s].gross
    OBVIOUS
  <2> HIDE DEF f, g
  <2>5. SumFunctionOnSet(g, Settlement) = SumFunctionOnSet(f, Settlement) - f[s] + g[s]
    BY <1>1, <2>1, <2>2, SumChange
  <2> QED BY <2>3, <2>4, <2>5
<1>3. CreditSum' = CreditSum - Credited(s) + Credited(s)'
  <2> DEFINE f == [r \in Settlement |-> Credited(r)]
             g == [r \in Settlement |-> Credited(r)']
  <2>1. \A r \in Settlement : f[r] \in Int /\ g[r] \in Int
    BY TermsNow, TermsNext DEF TermsFact
  <2>2. \A r \in Settlement \ {s} : f[r] = g[r]
    BY DEF Credited
  <2>3. CreditSum = SumFunctionOnSet(f, Settlement) /\ CreditSum' = SumFunctionOnSet(g, Settlement)
    BY DEF CreditSum
  <2>4. f[s] = Credited(s) /\ g[s] = Credited(s)'
    OBVIOUS
  <2> HIDE DEF f, g
  <2>5. SumFunctionOnSet(g, Settlement) = SumFunctionOnSet(f, Settlement) - f[s] + g[s]
    BY <1>1, <2>1, <2>2, SumChange
  <2> QED BY <2>3, <2>4, <2>5
<1> QED BY <1>2, <1>3

\* One withdrawal changes its own.
LEMMA OneWithdrawal ==
  ASSUME VendorTyped, JobsInv, VendorTyped', JobsInv', NEW w \in Withdrawal,
         \A v \in Withdrawal \ {w} : withdrawal'[v] = withdrawal[v]
  PROVE  /\ HeldSum' = HeldSum - OnHold(w, Fee) + OnHold(w, Fee)'
         /\ PostedSum' = PostedSum - OnHold(w, 0) + OnHold(w, 0)'
         /\ DrawnSum' = DrawnSum - Withdrawn(w) + Withdrawn(w)'
<1>1. IsFiniteSet(Withdrawal)
  BY PayoutAssumption
<1>2. HeldSum' = HeldSum - OnHold(w, Fee) + OnHold(w, Fee)'
  <2> DEFINE f == [v \in Withdrawal |-> OnHold(v, Fee)]
             g == [v \in Withdrawal |-> OnHold(v, Fee)']
  <2>1. \A v \in Withdrawal : f[v] \in Int /\ g[v] \in Int
    BY TermsNow, TermsNext DEF TermsFact
  <2>2. \A v \in Withdrawal \ {w} : f[v] = g[v]
    BY DEF OnHold
  <2>3. HeldSum = SumFunctionOnSet(f, Withdrawal) /\ HeldSum' = SumFunctionOnSet(g, Withdrawal)
    BY DEF HeldSum
  <2>4. f[w] = OnHold(w, Fee) /\ g[w] = OnHold(w, Fee)'
    OBVIOUS
  <2> HIDE DEF f, g
  <2>5. SumFunctionOnSet(g, Withdrawal) = SumFunctionOnSet(f, Withdrawal) - f[w] + g[w]
    BY <1>1, <2>1, <2>2, SumChange
  <2> QED BY <2>3, <2>4, <2>5
<1>3. PostedSum' = PostedSum - OnHold(w, 0) + OnHold(w, 0)'
  <2> DEFINE f == [v \in Withdrawal |-> OnHold(v, 0)]
             g == [v \in Withdrawal |-> OnHold(v, 0)']
  <2>1. \A v \in Withdrawal : f[v] \in Int /\ g[v] \in Int
    BY TermsNow, TermsNext DEF TermsFact
  <2>2. \A v \in Withdrawal \ {w} : f[v] = g[v]
    BY DEF OnHold
  <2>3. PostedSum = SumFunctionOnSet(f, Withdrawal) /\ PostedSum' = SumFunctionOnSet(g, Withdrawal)
    BY DEF PostedSum
  <2>4. f[w] = OnHold(w, 0) /\ g[w] = OnHold(w, 0)'
    OBVIOUS
  <2> HIDE DEF f, g
  <2>5. SumFunctionOnSet(g, Withdrawal) = SumFunctionOnSet(f, Withdrawal) - f[w] + g[w]
    BY <1>1, <2>1, <2>2, SumChange
  <2> QED BY <2>3, <2>4, <2>5
<1>4. DrawnSum' = DrawnSum - Withdrawn(w) + Withdrawn(w)'
  <2> DEFINE f == [v \in Withdrawal |-> Withdrawn(v)]
             g == [v \in Withdrawal |-> Withdrawn(v)']
  <2>1. \A v \in Withdrawal : f[v] \in Int /\ g[v] \in Int
    BY TermsNow, TermsNext DEF TermsFact
  <2>2. \A v \in Withdrawal \ {w} : f[v] = g[v]
    BY DEF Withdrawn
  <2>3. DrawnSum = SumFunctionOnSet(f, Withdrawal) /\ DrawnSum' = SumFunctionOnSet(g, Withdrawal)
    BY DEF DrawnSum
  <2>4. f[w] = Withdrawn(w) /\ g[w] = Withdrawn(w)'
    OBVIOUS
  <2> HIDE DEF f, g
  <2>5. SumFunctionOnSet(g, Withdrawal) = SumFunctionOnSet(f, Withdrawal) - f[w] + g[w]
    BY <1>1, <2>1, <2>2, SumChange
  <2> QED BY <2>3, <2>4, <2>5
<1> QED BY <1>2, <1>3, <1>4

\* One worker changes what it has pending.
LEMMA OneJob ==
  ASSUME VendorTyped, JobsInv, VendorTyped', JobsInv', NEW p \in Worker,
         \A q \in Worker \ {p} : Pending(q)' = Pending(q)
  PROVE  PendingSum' = PendingSum - Pending(p) + Pending(p)'
<1>1. IsFiniteSet(Worker)
  BY PayoutAssumption
<1> DEFINE f == [q \in Worker |-> Pending(q)]
           g == [q \in Worker |-> Pending(q)']
<1>2. \A q \in Worker : f[q] \in Int /\ g[q] \in Int
  BY TermsNow, TermsNext DEF TermsFact
<1>3. \A q \in Worker \ {p} : f[q] = g[q]
  OBVIOUS
<1>4. PendingSum = SumFunctionOnSet(f, Worker) /\ PendingSum' = SumFunctionOnSet(g, Worker)
  BY DEF PendingSum
<1>5. f[p] = Pending(p) /\ g[p] = Pending(p)'
  OBVIOUS
<1> HIDE DEF f, g
<1>6. SumFunctionOnSet(g, Worker) = SumFunctionOnSet(f, Worker) - f[p] + g[p]
  BY <1>1, <1>2, <1>3, SumChange
<1> QED BY <1>4, <1>5, <1>6

-----------------------------------------------------------------------------
(* Workers *)

\* What a worker that does not move still knows.
LEMMA OthersKnow ==
  ASSUME NEW q \in Worker, JobKnows(q), job'[q] = job[q],
         \A o \in VOrder : earning[o] # "none" => earning'[o] # "none",
         job[q].kind = "accrue" => earning'[job[q].id] = "none",
         \A s \in Settlement : settlement[s].status # "none" =>
           settlement'[s].status # "none" /\ settlement'[s].amount = settlement[s].amount,
         job[q].kind = "finalize" => settlement'[job[q].id].status \in {"READY", "FAILED"},
         \A t \in Transfer : transfer[t] \in {"success", "failed"} => transfer'[t] = transfer[t],
         \A w \in Withdrawal : withdrawal[w].status # "none" => withdrawal'[w].status # "none",
         job[q].kind = "request" => withdrawal'[job[q].id].status = "none" /\ transfer'[<<job[q].id, 0>>] = "none"
  PROVE  JobKnows(q)'
<1>1. JobTyped(q)'
  BY DEF JobKnows, JobTyped
<1>2. JobOrders(q)'
  BY DEF JobKnows, JobOrders
<1>3. JobSettles(q)'
  <2>1. JobSettles(q) /\ SettlementTransfer \subseteq Transfer
    BY DEF JobKnows, Transfer
  <2>2. \A s \in Settlement : Through(s) => Through(s)'
    BY <2>1 DEF Through
  <2>3. job[q].kind \in OnSettlement => /\ job[q].id \in Settlement
                                        /\ settlement'[job[q].id].status # "none"
                                        /\ settlement'[job[q].id].amount = settlement[job[q].id].amount
    BY <2>1 DEF JobSettles
  <2>4. job[q].kind = "pay" => /\ settlement'[job[q].id].amount > 0 /\ Chunks(settlement'[job[q].id].amount) <= MaxChunks
                               /\ job[q].n > 0 /\ (job[q].n > 1 => Through(job[q].id)')
    <3> SUFFICES ASSUME job[q].kind = "pay"
                 PROVE /\ settlement'[job[q].id].amount > 0 /\ Chunks(settlement'[job[q].id].amount) <= MaxChunks
                       /\ job[q].n > 0 /\ (job[q].n > 1 => Through(job[q].id)')
      OBVIOUS
    <3>1. PICK s \in Settlement : s = job[q].id /\ settlement'[s].amount = settlement[s].amount
      BY <2>3 DEF OnSettlement
    <3>2. Through(s) => Through(s)'
      BY <2>2
    <3> QED BY <2>1, <3>1, <3>2 DEF JobSettles
  <2>5. job[q].kind \in {"paid", "finalize"} => Through(job[q].id)'
    <3> SUFFICES ASSUME job[q].kind \in {"paid", "finalize"} PROVE Through(job[q].id)'
      OBVIOUS
    <3>1. PICK s \in Settlement : s = job[q].id
      BY <2>3 DEF OnSettlement
    <3> QED BY <2>1, <2>2, <3>1 DEF JobSettles
  <2>6. /\ job[q].kind = "finalize" /\ job[q].n > 0 => /\ <<job[q].id, job[q].n>> \in SettlementTransfer
                                                      /\ transfer'[<<job[q].id, job[q].n>>] = "success"
        /\ job[q].kind = "markFailed" => /\ <<job[q].id, job[q].n>> \in SettlementTransfer
                                         /\ transfer'[<<job[q].id, job[q].n>>] = "failed"
    BY <2>1 DEF JobSettles
  <2>7. job'[q].kind = job[q].kind /\ job'[q].id = job[q].id /\ job'[q].n = job[q].n
    OBVIOUS
  <2> QED BY <2>3, <2>4, <2>5, <2>6, <2>7 DEF JobSettles
<1>4. JobDraws(q)'
  <2>1. JobDraws(q) /\ \A w \in Withdrawal : <<w, 0>> \in Transfer
    BY DEF JobKnows, Transfer, WithdrawalTransfer
  <2> QED BY <2>1 DEF JobDraws, Applying
<1> QED BY <1>1, <1>2, <1>3, <1>4 DEF JobKnows

\* One worker turns to other work.
LEMMA JobsKeep ==
  ASSUME JobsInv, DOMAIN job = Worker, NEW p \in Worker, NEW work, job' = [job EXCEPT ![p] = work], JobKnows(p)',
         \A o \in VOrder : earning[o] # "none" => earning'[o] # "none",
         \A s \in Settlement : settlement[s].status # "none" =>
           settlement'[s].status # "none" /\ settlement'[s].amount = settlement[s].amount,
         \A t \in Transfer : transfer[t] \in {"success", "failed"} => transfer'[t] = transfer[t],
         \A w \in Withdrawal : withdrawal[w].status # "none" => withdrawal'[w].status # "none",
         \A q \in Worker \ {p} :
           /\ job[q].kind = "accrue" => earning'[job[q].id] = "none"
           /\ job[q].kind = "finalize" => settlement'[job[q].id].status \in {"READY", "FAILED"}
           /\ job[q].kind = "request" => withdrawal'[job[q].id].status = "none" /\ transfer'[<<job[q].id, 0>>] = "none",
         work.kind = "accrue" => \A q \in Worker : job[q].kind = "accrue" => job[q].id # work.id,
         work.kind = "finalize" => \A q \in Worker : job[q].kind = "finalize" => job[q].id # work.id,
         work.kind = "request" => \A q \in Worker : job[q].kind # "request"
  PROVE  JobsInv'
<1>1. job'[p] = work /\ \A q \in Worker \ {p} : job'[q] = job[q]
  OBVIOUS
<1>2. \A q \in Worker \ {p} : JobKnows(q)'
  <2> TAKE q \in Worker \ {p}
  <2>1. JobKnows(q) /\ job'[q] = job[q]
    BY <1>1 DEF JobsInv
  <2>2. /\ job[q].kind = "accrue" => earning'[job[q].id] = "none"
        /\ job[q].kind = "finalize" => settlement'[job[q].id].status \in {"READY", "FAILED"}
        /\ job[q].kind = "request" => withdrawal'[job[q].id].status = "none" /\ transfer'[<<job[q].id, 0>>] = "none"
    OBVIOUS
  <2> QED BY <2>1, <2>2, OthersKnow
<1>3. OneWorker'
  <2>1. ASSUME NEW a \in Worker, NEW b \in Worker, job'[a].kind = job'[b].kind,
               \/ job'[a].kind \in {"accrue", "finalize"} /\ job'[a].id = job'[b].id
               \/ job'[a].kind = "request"
        PROVE  a = b
    <3>1. CASE a # p /\ b # p
      BY <1>1, <2>1, <3>1 DEF JobsInv, OneWorker
    <3>2. CASE a = p /\ b # p
      BY <1>1, <2>1, <3>2
    <3>3. CASE a # p /\ b = p
      BY <1>1, <2>1, <3>3
    <3> QED BY <3>1, <3>2, <3>3
  <2> QED BY <2>1 DEF OneWorker
<1> QED BY <1>2, <1>3 DEF JobsInv

\* A worker that is idle knows nothing.
LEMMA IdleKnows == ASSUME NEW p \in Worker, job'[p] = IdleJob PROVE JobKnows(p)'
<1>1. /\ DOMAIN IdleJob = {"kind", "row", "id", "n"} /\ IdleJob.row \in BalanceRow
      /\ IdleJob.kind \notin Counting \union OnSettlement \union Applying \union {"accrue", "settle", "request"}
  BY DEF IdleJob, EmptyBalance, BalanceRow, Counting, OnSettlement, Applying
<1>2. JobTyped(p)' /\ JobOrders(p)'
  BY <1>1 DEF JobTyped, JobOrders
<1>3. JobSettles(p)' /\ JobDraws(p)'
  BY <1>1 DEF JobSettles, JobDraws, OnSettlement, Applying
<1> QED BY <1>2, <1>3 DEF JobKnows

\* What Start and Finish make of a worker.
LEMMA StartDoes ==
  ASSUME VendorTyped, NEW p \in Worker, NEW kind, NEW id, NEW n, Start(p, kind, id, n)
  PROVE  /\ job' = [job EXCEPT ![p] = [kind |-> kind, row |-> balance, id |-> id, n |-> n]]
         /\ balance \in BalanceRow /\ jobs' \in 0..MaxJobs /\ job[p].kind = "idle"
         /\ job'[p].kind = kind /\ job'[p].id = id /\ job'[p].n = n /\ job'[p].row = balance
         /\ DOMAIN job'[p] = {"kind", "row", "id", "n"}
BY PayoutAssumption DEF Start, Idle, VendorTyped

-----------------------------------------------------------------------------
(* What stays *)

\* Free ids stay free.
LEMMA FreshStays ==
  ASSUME VendorTyped, FreshRows, UNCHANGED <<settlement, discharged>>, Working("settle")' \subseteq Working("settle")
  PROVE  FreshRows'
<1>1. Cardinality(Working("settle")') <= Cardinality(Working("settle")) /\ Cardinality(Working("settle")') \in Nat
      /\ Cardinality(Working("settle")) \in Nat
  <2>1. Working("settle") \in SUBSET Worker /\ IsFiniteSet(Worker)
    BY PayoutAssumption DEF Working
  <2>2. IsFiniteSet(Working("settle")) /\ Working("settle")' \in SUBSET Working("settle")
    BY <2>1, FS_Subset
  <2> QED BY <2>2, FS_Subset, FS_CardinalityType
<1>2. Unmade' = Unmade /\ Cardinality(Unmade) \in Nat
  <2>1. Unmade \in SUBSET Settlement /\ IsFiniteSet(Settlement)
    BY PayoutAssumption DEF Unmade
  <2> QED BY <2>1, FS_Subset, FS_CardinalityType DEF Unmade
<1> QED BY <1>1, <1>2 DEF FreshRows

\* The withdrawals stay as their transfers have them.
LEMMA WithdrawalsStay ==
  ASSUME WithdrawalsTell, NEW p \in Worker, DOMAIN job = Worker, job[p].kind \notin Applying,
         \A q \in Worker \ {p} : job'[q] = job[q],
         UNCHANGED <<withdrawal, transfer>>, lost \subseteq lost', overtaken => overtaken',
         \A w \in Withdrawal, ok \in BOOLEAN : <<<<w, 0>>, ok>> \in reports => <<<<w, 0>>, ok>> \in reports'
  PROVE  WithdrawalsTell'
<1> SUFFICES ASSUME NEW w \in Withdrawal
             PROVE  /\ withdrawal'[w].status = "PAID" => transfer'[<<w, 0>>] = "success"
                    /\ withdrawal'[w].status = "FAILED" => transfer'[<<w, 0>>] \in {"none", "failed"} \/ <<w, 0>> \in lost'
                    /\ withdrawal'[w].status = "PROCESSING" /\ transfer'[<<w, 0>>] # "pending" =>
                         \/ \E ok \in BOOLEAN : <<<<w, 0>>, ok>> \in reports'
                         \/ \E q \in Worker : job'[q].kind \in Applying /\ job'[q].id = w
                         \/ overtaken'
  BY DEF WithdrawalsTell
<1>1. \A q \in Worker : job[q].kind \in Applying => job'[q] = job[q]
  OBVIOUS
<1> QED BY <1>1 DEF WithdrawalsTell

LEMMA SettlementsStay ==
  ASSUME SettlementsTell, UNCHANGED <<settlement, discharged>>, clobbered => clobbered',
         \A t \in Transfer : transfer[t] = "success" => transfer'[t] = "success"
  PROVE  SettlementsTell'
<1>1. SettlementTransfer \subseteq Transfer
  BY DEF Transfer
<1>2. \A s \in Settlement : Through(s) => Through(s)'
  BY <1>1 DEF Through
<1> QED BY <1>2 DEF SettlementsTell

\* The books stay while the rows, the journal and what is pending do.
LEMMA BooksStayVendor ==
  ASSUME GrossBook, HeldBook, PostedBook, OwedBook,
         UNCHANGED <<earning, settlement, withdrawal, balance, owedToVendor, heldInJournal, discharged>>,
         stale => stale', doubled => doubled', clobbered => clobbered', payoutFaults > 0 => payoutFaults' > 0,
         \A p \in Worker : Pending(p)' = Pending(p)
  PROVE  GrossBook' /\ HeldBook' /\ PostedBook' /\ OwedBook'
<1>1. PendingSum' = PendingSum
  BY DEF PendingSum
<1>2. Brought' = Brought /\ Unsettled' = Unsettled
  BY DEF Brought, EarnedOrders, Unsettled
<1>3. GrossSum' = GrossSum /\ CreditSum' = CreditSum /\ HeldSum' = HeldSum /\ PostedSum' = PostedSum /\ DrawnSum' = DrawnSum
  BY DEF GrossSum, CreditSum, HeldSum, PostedSum, DrawnSum, Credited, OnHold, Withdrawn
<1>4. Failing' = Failing
  BY DEF Failing
<1>5. GrossBook'
  BY <1>2, <1>3 DEF GrossBook
<1>6. HeldBook' /\ PostedBook'
  BY <1>3, <1>4 DEF HeldBook, PostedBook
<1>7. OwedBook'
  BY <1>1, <1>2, <1>3, <1>4 DEF OwedBook
<1> QED BY <1>5, <1>6, <1>7

-----------------------------------------------------------------------------
(* Work that begins, or turns to its next step *)

LEMMA Counts ==
  /\ Cardinality(Unmade) \in Nat /\ IsFiniteSet(Unmade)
  /\ \A W \in SUBSET Worker : IsFiniteSet(W) /\ Cardinality(W) \in Nat
  /\ \A O \in SUBSET VOrder : IsFiniteSet(O) /\ Cardinality(O) \in Nat
<1>1. Unmade \in SUBSET Settlement
  BY DEF Unmade
<1> QED BY <1>1, PayoutAssumption, FS_Subset, FS_CardinalityType

LEMMA TurnKeeps ==
  ASSUME VendorInv, NEW p \in Worker, NEW work, job' = [job EXCEPT ![p] = work], JobKnows(p)',
         UNCHANGED <<rowVars, balance, journal, transfer, history>>, reports' \subseteq reports,
         \A w \in Withdrawal, ok \in BOOLEAN : <<<<w, 0>>, ok>> \in reports => <<<<w, 0>>, ok>> \in reports',
         jobs' \in 0..MaxJobs, week' \in 1..MaxCycle,
         job[p].kind \notin Applying \union {"release", "reverse"}, work.kind \notin {"release", "reverse"},
         work.kind = "accrue" => \A q \in Worker : job[q].kind = "accrue" => job[q].id # work.id,
         work.kind = "finalize" => \A q \in Worker : job[q].kind = "finalize" => job[q].id # work.id,
         work.kind = "request" => \A q \in Worker : job[q].kind # "request",
         work.kind = "settle" => FreeIds > 0
  PROVE  VendorInv'
<1>1. DOMAIN job = Worker /\ \A q \in Worker : JobKnows(q)
  BY DEF VendorInv, VendorTyped, JobsInv
<1>2. job'[p] = work /\ \A q \in Worker \ {p} : job'[q] = job[q]
  BY <1>1
<1>3. /\ UNCHANGED <<earning, settlement, withdrawal, balance, owedToVendor, heldInJournal, discharged, transfer>>
      /\ UNCHANGED <<stale, doubled, clobbered, overtaken, lost, payoutFaults>>
  BY DEF rowVars, journal, history
<1>4. VendorTyped'
  BY <1>1, <1>3 DEF VendorInv, VendorTyped
<1>5. JobsInv'
  <2>1. \A q \in Worker \ {p} :
           /\ job[q].kind = "accrue" => earning[job[q].id] = "none"
           /\ job[q].kind = "finalize" => settlement[job[q].id].status \in {"READY", "FAILED"}
           /\ job[q].kind = "request" => withdrawal[job[q].id].status = "none" /\ transfer[<<job[q].id, 0>>] = "none"
    <3> TAKE q \in Worker \ {p}
    <3>1. JobOrders(q) /\ JobSettles(q) /\ JobDraws(q)
      BY <1>1 DEF JobKnows
    <3> QED BY <3>1 DEF JobOrders, JobSettles, JobDraws
  <2> QED BY <1>1, <1>3, <2>1, JobsKeep DEF VendorInv
<1>6. FreshRows'
  <2>1. CASE work.kind # "settle"
    <3>1. Working("settle")' \subseteq Working("settle")
      BY <1>2, <2>1 DEF Working
    <3> QED BY <1>3, <3>1, FreshStays DEF VendorInv
  <2>2. CASE work.kind = "settle"
    <3> DEFINE W == Working("settle")
               R == Working("settle") \union Working("release")
    <3>1. Working("settle")' \subseteq W \union {p}
      BY <1>2 DEF Working
    <3>2. W \in SUBSET Worker /\ R \in SUBSET Worker /\ Working("settle")' \in SUBSET Worker /\ W \in SUBSET R
      BY <1>2 DEF Working
    <3>3. /\ Cardinality(W) \in Nat /\ Cardinality(R) \in Nat /\ IsFiniteSet(W) /\ IsFiniteSet(R)
          /\ Cardinality(Working("settle")') \in Nat
      <4> HIDE DEF W, R
      <4> QED BY <3>2, Counts
    <3>4. Cardinality(W) <= Cardinality(R) /\ Cardinality(R) < Cardinality(Unmade)
      <4>1. Cardinality(W) <= Cardinality(R)
        <5> HIDE DEF W, R
        <5> QED BY <3>2, <3>3, FS_Subset
      <4>2. FreeIds = Cardinality(Unmade) - Cardinality(R)
        BY DEF FreeIds, Unmade
      <4> HIDE DEF W, R
      <4> QED BY <2>2, <3>3, <4>1, <4>2, Counts
    <3>5. Cardinality(Working("settle")') <= Cardinality(W) + 1
      <4>1. IsFiniteSet(W \union {p}) /\ Cardinality(W \union {p}) <= Cardinality(W) + 1
        <5> HIDE DEF W, R
        <5>1. /\ IsFiniteSet(W \union {p})
              /\ Cardinality(W \union {p}) = IF p \in W THEN Cardinality(W) ELSE Cardinality(W) + 1
          BY <3>3, FS_AddElement
        <5>2. PICK c \in Nat : c = Cardinality(W)
          BY <3>3
        <5> QED BY <5>1, <5>2
      <4>2. Cardinality(Working("settle")') <= Cardinality(W \union {p}) /\ Cardinality(W \union {p}) \in Nat
        <5> HIDE DEF W, R
        <5> QED BY <3>1, <4>1, FS_Subset, FS_CardinalityType
      <4> HIDE DEF W, R
      <4> QED BY <3>3, <4>1, <4>2
    <3>6. Unmade' = Unmade
      BY <1>3 DEF Unmade
    <3>7. Cardinality(Working("settle")') <= Cardinality(Unmade')
      <4> HIDE DEF W, R
      <4> QED BY <3>3, <3>4, <3>5, <3>6, Counts
    <3> QED BY <1>3, <3>7 DEF FreshRows, VendorInv
  <2> QED BY <2>1, <2>2
<1>7. ReportsKnow'
  BY <1>3 DEF VendorInv, ReportsKnow
<1>8. WithdrawalsTell'
  BY <1>1, <1>2, <1>3, WithdrawalsStay DEF VendorInv
<1>9. SettlementsTell'
  BY <1>3, SettlementsStay DEF VendorInv
<1>10. GrossBook' /\ HeldBook' /\ PostedBook' /\ OwedBook'
  <2>1. Pending(p) = 0 /\ Pending(p)' = 0
    BY <1>2 DEF Pending
  <2>2. \A q \in Worker : Pending(q)' = Pending(q)
    BY <1>2, <1>3, <2>1 DEF Pending
  <2> QED BY <1>3, <2>2, BooksStayVendor DEF VendorInv
<1> QED BY <1>4, <1>5, <1>6, <1>7, <1>8, <1>9, <1>10 DEF VendorInv

\* Work begins on orders and on a settlement.
LEMMA BeginsKeep ==
  ASSUME VendorInv, NEW p \in Worker,
         \/ \E o \in VOrder : BeginAccrue(p, o)
         \/ BeginSettle(p)
         \/ \E s \in Settlement : BeginPay(p, s)
         \/ \E w \in Withdrawal, n \in Amount : RequestWithdrawal(p, w, n)
         \/ BeginPenalty(p)
  PROVE  VendorInv'
<1>0. VendorTyped /\ week \in 1..MaxCycle /\ Amount \subseteq Nat /\ 1..MaxCycle \subseteq Nat
  BY PayoutAssumption DEF VendorInv, VendorTyped
<1>1. ASSUME NEW o \in VOrder, BeginAccrue(p, o) PROVE VendorInv'
  <2> DEFINE work == [kind |-> "accrue", row |-> balance, id |-> o, n |-> 0]
  <2>1. /\ earning[o] = "none" /\ Start(p, "accrue", o, 0)
        /\ \A q \in Worker : job[q].kind = "accrue" => job[q].id # o
        /\ UNCHANGED <<rowVars, balance, journal, transfer, reports, week, history>>
    BY <1>1 DEF BeginAccrue, Working
  <2>2. /\ job' = [job EXCEPT ![p] = work] /\ balance \in BalanceRow /\ jobs' \in 0..MaxJobs /\ job[p].kind = "idle"
        /\ job'[p].kind = "accrue" /\ job'[p].id = o /\ job'[p].row = balance /\ DOMAIN job'[p] = {"kind", "row", "id", "n"}
    BY <1>0, <2>1, StartDoes
  <2>3. JobKnows(p)'
    <3>1. JobTyped(p)'
      BY <2>2 DEF JobTyped, Counting
    <3>2. JobOrders(p)'
      BY <2>1, <2>2 DEF JobOrders, rowVars
    <3>3. JobSettles(p)' /\ JobDraws(p)'
      BY <2>2 DEF JobSettles, JobDraws, OnSettlement, Applying
    <3> QED BY <3>1, <3>2, <3>3 DEF JobKnows
  <2>4. work.kind = "accrue" /\ work.id = o /\ "idle" \notin Applying
    BY DEF Applying
  <2> HIDE DEF work
  <2> QED BY <1>0, <2>1, <2>2, <2>3, <2>4, TurnKeeps
<1>2. ASSUME BeginSettle(p) PROVE VendorInv'
  <2> DEFINE work == [kind |-> "settle", row |-> balance, id |-> Unsettled, n |-> week]
  <2>1. /\ FreeIds > 0 /\ Start(p, "settle", Unsettled, week)
        /\ UNCHANGED <<rowVars, balance, journal, transfer, reports, week, history>>
    BY <1>2 DEF BeginSettle
  <2>2. /\ job' = [job EXCEPT ![p] = work] /\ balance \in BalanceRow /\ jobs' \in 0..MaxJobs /\ job[p].kind = "idle"
        /\ job'[p].kind = "settle" /\ job'[p].id = Unsettled /\ job'[p].n = week /\ job'[p].row = balance
        /\ DOMAIN job'[p] = {"kind", "row", "id", "n"}
    BY <1>0, <2>1, StartDoes
  <2>3. JobKnows(p)'
    <3>1. JobTyped(p)'
      BY <1>0, <2>2 DEF JobTyped
    <3>2. JobOrders(p)'
      BY <2>1, <2>2 DEF JobOrders, rowVars, Unsettled
    <3>3. JobSettles(p)' /\ JobDraws(p)'
      BY <2>2 DEF JobSettles, JobDraws, OnSettlement, Applying
    <3> QED BY <3>1, <3>2, <3>3 DEF JobKnows
  <2>4. work.kind = "settle" /\ "idle" \notin Applying
    BY DEF Applying
  <2> HIDE DEF work
  <2> QED BY <1>0, <2>1, <2>2, <2>3, <2>4, TurnKeeps
<1>3. ASSUME NEW s \in Settlement, BeginPay(p, s) PROVE VendorInv'
  <2> DEFINE work == [kind |-> "pay", row |-> balance, id |-> s, n |-> 1]
  <2>1. /\ settlement[s].status \in {"READY", "FAILED"} /\ Start(p, "pay", s, 1)
        /\ settlement[s].amount > 0 /\ Chunks(settlement[s].amount) <= MaxChunks
        /\ UNCHANGED <<rowVars, balance, journal, transfer, reports, week, history>>
    BY <1>3 DEF BeginPay
  <2>2. /\ job' = [job EXCEPT ![p] = work] /\ balance \in BalanceRow /\ jobs' \in 0..MaxJobs /\ job[p].kind = "idle"
        /\ job'[p].kind = "pay" /\ job'[p].id = s /\ job'[p].n = 1 /\ job'[p].row = balance
        /\ DOMAIN job'[p] = {"kind", "row", "id", "n"}
    BY <1>0, <2>1, StartDoes
  <2>3. JobKnows(p)'
    <3>1. JobTyped(p)'
      BY <2>2 DEF JobTyped
    <3>2. JobOrders(p)' /\ JobDraws(p)'
      BY <2>2 DEF JobOrders, JobDraws, Applying
    <3>3. settlement' = settlement
      BY <2>1 DEF rowVars
    <3>4. JobSettles(p)'
      BY <2>1, <2>2, <3>3 DEF JobSettles, OnSettlement
    <3> QED BY <3>1, <3>2, <3>4 DEF JobKnows
  <2>4. work.kind = "pay" /\ "idle" \notin Applying
    BY DEF Applying
  <2> HIDE DEF work
  <2> QED BY <1>0, <2>1, <2>2, <2>3, <2>4, TurnKeeps
<1>4. ASSUME NEW w \in Withdrawal, NEW n \in Amount, RequestWithdrawal(p, w, n) PROVE VendorInv'
  <2> DEFINE work == [kind |-> "request", row |-> balance, id |-> w, n |-> n]
  <2>1. /\ withdrawal[w].status = "none" /\ transfer[<<w, 0>>] = "none" /\ Start(p, "request", w, n)
        /\ \A q \in Worker : job[q].kind # "request"
        /\ UNCHANGED <<rowVars, balance, journal, transfer, reports, week, history>>
    BY <1>4 DEF RequestWithdrawal, Unlocked, Working
  <2>2. /\ job' = [job EXCEPT ![p] = work] /\ balance \in BalanceRow /\ jobs' \in 0..MaxJobs /\ job[p].kind = "idle"
        /\ job'[p].kind = "request" /\ job'[p].id = w /\ job'[p].n = n /\ job'[p].row = balance
        /\ DOMAIN job'[p] = {"kind", "row", "id", "n"}
    BY <1>0, <2>1, StartDoes
  <2>3. JobKnows(p)'
    <3>1. JobTyped(p)'
      BY <1>0, <2>2 DEF JobTyped
    <3>2. JobOrders(p)' /\ JobSettles(p)'
      BY <2>2 DEF JobOrders, JobSettles, OnSettlement
    <3>3. withdrawal' = withdrawal /\ transfer' = transfer
      BY <2>1 DEF rowVars
    <3>4. JobDraws(p)'
      BY <2>1, <2>2, <3>3 DEF JobDraws, Applying
    <3> QED BY <3>1, <3>2, <3>4 DEF JobKnows
  <2>4. work.kind = "request" /\ "idle" \notin Applying
    BY DEF Applying
  <2> HIDE DEF work
  <2> QED BY <1>0, <2>1, <2>2, <2>3, <2>4, TurnKeeps
<1>5. ASSUME BeginPenalty(p) PROVE VendorInv'
  <2> DEFINE work == [kind |-> "penalty", row |-> balance, id |-> "none", n |-> 1]
  <2>1. Start(p, "penalty", "none", 1) /\ UNCHANGED <<rowVars, balance, journal, transfer, reports, week, history>>
    BY <1>5 DEF BeginPenalty
  <2>2. /\ job' = [job EXCEPT ![p] = work] /\ balance \in BalanceRow /\ jobs' \in 0..MaxJobs /\ job[p].kind = "idle"
        /\ job'[p].kind = "penalty" /\ job'[p].n = 1 /\ job'[p].row = balance /\ DOMAIN job'[p] = {"kind", "row", "id", "n"}
    BY <1>0, <2>1, StartDoes
  <2>3. JobKnows(p)'
    <3>1. JobTyped(p)'
      BY <2>2 DEF JobTyped
    <3>2. JobOrders(p)' /\ JobSettles(p)' /\ JobDraws(p)'
      BY <2>2 DEF JobOrders, JobSettles, JobDraws, OnSettlement, Applying
    <3> QED BY <3>1, <3>2 DEF JobKnows
  <2>4. work.kind = "penalty" /\ "idle" \notin Applying
    BY DEF Applying
  <2> HIDE DEF work
  <2> QED BY <1>0, <2>1, <2>2, <2>3, <2>4, TurnKeeps
<1> QED BY <1>1, <1>2, <1>3, <1>4, <1>5

\* Chunks are numbers, and an amount takes one at least.
LEMMA ChunksAre ==
  ASSUME NEW a \in Nat
  PROVE  /\ Chunks(a) \in Int /\ MaxChunks \in Int
         /\ a > 0 => Chunks(a) >= 1
<1>1. DailyCap \in Nat /\ DailyCap > 0 /\ Share \in Nat /\ Bonus \in Nat
  BY PayoutAssumption
<1>2. \A x \in Nat : Chunks(x) \in Int /\ (x > 0 => Chunks(x) >= 1)
  BY <1>1 DEF Chunks
<1>3. Cardinality(VOrder) \in Nat
  BY Counts
<1>4. PICK b \in Nat : b = Cardinality(VOrder) * Share + Bonus
  BY <1>1, <1>3
<1> QED BY <1>2, <1>4 DEF MaxChunks

\* While no worker moves and no row is written, only the transfers' knowledge can change.
LEMMA QuietKeeps ==
  ASSUME VendorInv, UNCHANGED <<rowVars, balance, journal, job, stale, doubled, clobbered, payoutFaults>>,
         VendorTyped', ReportsKnow', WithdrawalsTell',
         \A t \in Transfer : transfer[t] # "pending" => transfer'[t] = transfer[t]
  PROVE  VendorInv'
<1>1. UNCHANGED <<earning, settlement, withdrawal, balance, owedToVendor, heldInJournal, discharged, job>>
  BY DEF rowVars, journal
<1>2. JobsInv'
  <2>1. \A q \in Worker : JobKnows(q)'
    <3> TAKE q \in Worker
    <3>1. JobKnows(q)
      BY DEF VendorInv, JobsInv
    <3>2. \A w \in Withdrawal : <<w, 0>> \in Transfer
      BY DEF Transfer, WithdrawalTransfer
    <3>3. /\ job[q].kind = "accrue" => earning[job[q].id] = "none"
          /\ job[q].kind = "finalize" => settlement[job[q].id].status \in {"READY", "FAILED"}
          /\ job[q].kind = "request" => /\ withdrawal[job[q].id].status = "none" /\ transfer[<<job[q].id, 0>>] = "none"
                                        /\ <<job[q].id, 0>> \in Transfer
      BY <3>1, <3>2 DEF JobKnows, JobOrders, JobSettles, JobDraws
    <3> QED BY <1>1, <3>1, <3>3, OthersKnow
  <2>2. OneWorker'
    BY <1>1 DEF VendorInv, JobsInv, OneWorker
  <2> QED BY <2>1, <2>2 DEF JobsInv
<1>3. Working("settle")' \subseteq Working("settle")
  BY <1>1 DEF Working
<1>4. FreshRows'
  BY <1>1, <1>3, FreshStays DEF VendorInv
<1>5. SettlementsTell'
  BY <1>1, SettlementsStay DEF VendorInv
<1>6. \A p \in Worker : Pending(p)' = Pending(p)
  BY <1>1 DEF Pending
<1>7. GrossBook' /\ HeldBook' /\ PostedBook' /\ OwedBook'
  BY <1>1, <1>6, BooksStayVendor DEF VendorInv
<1> QED BY <1>2, <1>4, <1>5, <1>7 DEF VendorInv

\* A payment is done, and a settlement is claimed, by the call or by the report.
LEMMA TurnsKeep ==
  ASSUME VendorInv, NEW p \in Worker,
         \/ PayDone(p)
         \/ FinalizePaid(p)
         \/ \E t \in Transfer, ok \in BOOLEAN : OnSettlementReport(p, t, ok)
  PROVE  VendorInv'
<1>0. /\ VendorTyped /\ week \in 1..MaxCycle /\ jobs \in 0..MaxJobs /\ DOMAIN job = Worker /\ JobKnows(p)
      /\ job[p].row \in BalanceRow /\ balance \in BalanceRow
  BY DEF VendorInv, VendorTyped, JobsInv, JobKnows, JobTyped
<1>1. ASSUME PayDone(p) PROVE VendorInv'
  <2> DEFINE work == [job[p] EXCEPT !.kind = "paid"]
  <2>1. /\ job[p].kind = "pay" /\ job[p].n > Chunks(settlement[job[p].id].amount) /\ job' = [job EXCEPT ![p] = work]
        /\ UNCHANGED <<rowVars, balance, journal, transfer, reports, week, jobs, history>>
    BY <1>1 DEF PayDone, Doing
  <2>2. /\ job'[p] = work /\ work.kind = "paid" /\ work.row = job[p].row /\ work.id = job[p].id
        /\ DOMAIN work = {"kind", "row", "id", "n"}
    BY <1>0, <2>1 DEF JobKnows, JobTyped
  <2>3. UNCHANGED <<settlement, transfer>>
    BY <2>1 DEF rowVars
  <2>4. PICK s \in Settlement : s = job[p].id /\ settlement[s].status # "none" /\ settlement[s].amount > 0
    BY <1>0, <2>1 DEF JobKnows, JobSettles, OnSettlement
  <2>5. Through(s)
    <3>1. settlement[s].amount \in Nat /\ job[p].n \in Nat
      BY <1>0, <2>1 DEF VendorTyped, SettlementRow, JobKnows, JobTyped, Counting
    <3>2. Chunks(settlement[s].amount) >= 1 /\ Chunks(settlement[s].amount) \in Int
      BY <2>4, <3>1, ChunksAre
    <3>3. job[p].n > 1
      BY <2>1, <2>4, <3>1, <3>2
    <3> QED BY <1>0, <2>1, <2>4, <3>3 DEF JobKnows, JobSettles
  <2>6. Through(s)'
    BY <2>3, <2>5 DEF Through
  <2> HIDE DEF work
  <2>7. JobKnows(p)'
    <3>1. JobTyped(p)'
      BY <1>0, <2>2 DEF JobTyped, Counting
    <3>2. JobOrders(p)' /\ JobDraws(p)'
      BY <2>2 DEF JobOrders, JobDraws, Applying
    <3>3. job'[p].kind = "paid" /\ job'[p].id = s
      BY <2>2, <2>4
    <3>4. JobSettles(p)'
      BY <2>3, <2>4, <2>6, <3>3 DEF JobSettles
    <3> QED BY <3>1, <3>2, <3>4 DEF JobKnows
  <2>8. job[p].kind \notin Applying \union {"release", "reverse"}
    BY <2>1 DEF Applying
  <2> QED BY <1>0, <2>1, <2>2, <2>7, <2>8, TurnKeeps
<1>2. ASSUME FinalizePaid(p) PROVE VendorInv'
  <2>1. /\ job[p].kind = "paid" /\ \A q \in Worker : job[q].kind = "finalize" => job[q].id # job[p].id
        /\ UNCHANGED <<rowVars, balance, journal, transfer, reports, week, jobs, history>>
    BY <1>2 DEF FinalizePaid, Doing, BeingFinalised, Working
  <2>2. job[p].kind \notin Applying \union {"release", "reverse"}
    BY <2>1 DEF Applying
  <2>3. CASE Claimable(job[p].id)
    <3> DEFINE work == Finalizing(job[p].id)
    <3>1. job' = [job EXCEPT ![p] = work] /\ settlement[job[p].id].status \in {"READY", "FAILED"}
      BY <1>2, <2>3 DEF FinalizePaid, Claimable
    <3>2. /\ job'[p] = work /\ work.kind = "finalize" /\ work.row = balance /\ work.id = job[p].id /\ work.n = 0
          /\ DOMAIN work = {"kind", "row", "id", "n"}
      BY <1>0, <3>1 DEF Finalizing
    <3>3. UNCHANGED <<settlement, transfer>>
      BY <2>1 DEF rowVars
    <3>4. PICK s \in Settlement : s = job[p].id /\ Through(s)
      BY <1>0, <2>1 DEF JobKnows, JobSettles, OnSettlement
    <3>5. Through(s)'
      BY <3>3, <3>4 DEF Through
    <3> HIDE DEF work
    <3>6. JobKnows(p)'
      <4>1. JobTyped(p)'
        BY <1>0, <3>2 DEF JobTyped
      <4>2. JobOrders(p)' /\ JobDraws(p)'
        BY <3>2 DEF JobOrders, JobDraws, Applying
      <4>3. job'[p].kind = "finalize" /\ job'[p].id = s /\ job'[p].n = 0
        BY <3>2, <3>4
      <4>4. JobSettles(p)'
        BY <3>1, <3>3, <3>4, <3>5, <4>3 DEF JobSettles
      <4> QED BY <4>1, <4>2, <4>4 DEF JobKnows
    <3> QED BY <1>0, <2>1, <2>2, <3>1, <3>2, <3>6, TurnKeeps
  <2>4. CASE ~Claimable(job[p].id)
    <3>1. job' = [job EXCEPT ![p] = IdleJob]
      BY <1>2, <2>4 DEF FinalizePaid, IdleJob
    <3>2. job'[p] = IdleJob /\ IdleJob.kind = "idle"
      BY <1>0, <3>1 DEF IdleJob
    <3> QED BY <1>0, <2>1, <2>2, <3>1, <3>2, IdleKnows, TurnKeeps
  <2> QED BY <2>3, <2>4
<1>3. ASSUME NEW t \in Transfer, NEW ok \in BOOLEAN, OnSettlementReport(p, t, ok) PROVE VendorInv'
  <2>1. /\ <<t, ok>> \in reports /\ t \in SettlementTransfer /\ reports' = reports \ {<<t, ok>>}
        /\ UNCHANGED <<rowVars, balance, journal, transfer, week, history>>
    BY <1>3 DEF OnSettlementReport
  <2>2. PICK s \in Settlement, k \in 1..MaxChunks : t = <<s, k>>
    BY <2>1 DEF SettlementTransfer
  <2>3. k \in Nat /\ k > 0 /\ UNCHANGED <<settlement, transfer>> /\ t[1] = s /\ t[2] = k
    <3>1. MaxChunks \in Int
      BY ChunksAre
    <3> QED BY <2>1, <2>2, <3>1 DEF rowVars
  <2>4. \A w \in Withdrawal, o \in BOOLEAN : <<<<w, 0>>, o>> \in reports => <<<<w, 0>>, o>> \in reports'
    BY <2>1, <2>2, <2>3
  <2>5. (ok => transfer[t] = "success") /\ (~ok => transfer[t] = "failed")
    <3>1. /\ <<t, TRUE>> \in reports => transfer[t] = "success"
          /\ <<t, FALSE>> \in reports => transfer[t] = "failed"
      BY DEF VendorInv, ReportsKnow
    <3>2. (ok <=> ok = TRUE) /\ (~ok <=> ok = FALSE)
      BY Zenon
    <3>3. ok = TRUE => transfer[t] = "success"
      BY <2>1, <3>1
    <3>4. ok = FALSE => transfer[t] = "failed"
      BY <2>1, <3>1
    <3> QED BY <3>2, <3>3, <3>4, Zenon
  <2>6. CASE Idle(p) /\ UNCHANGED <<job, jobs>>
    <3>1. UNCHANGED <<rowVars, balance, journal, job, transfer, stale, doubled, clobbered, overtaken, lost, payoutFaults>>
      BY <2>1, <2>6 DEF history
    <3>2. VendorTyped'
      BY <1>0, <2>1, <2>6, <3>1 DEF VendorTyped, rowVars, journal
    <3>3. ReportsKnow'
      BY <2>1, <3>1 DEF VendorInv, ReportsKnow
    <3>4. WithdrawalsTell'
      BY <2>4, <3>1 DEF VendorInv, WithdrawalsTell, rowVars
    <3> QED BY <3>1, <3>2, <3>3, <3>4, QuietKeeps
  <2>7. CASE ok /\ Claimable(s) /\ Start(p, "finalize", s, k)
    <3> DEFINE work == [kind |-> "finalize", row |-> balance, id |-> s, n |-> k]
    <3>1. /\ job' = [job EXCEPT ![p] = work] /\ jobs' \in 0..MaxJobs /\ job[p].kind = "idle"
          /\ job'[p].kind = "finalize" /\ job'[p].id = s /\ job'[p].n = k /\ job'[p].row = balance
          /\ DOMAIN job'[p] = {"kind", "row", "id", "n"}
      BY <1>0, <2>7, StartDoes
    <3>2. \A q \in Worker : job[q].kind = "finalize" => job[q].id # s
      BY <1>3, <2>3, <2>7 DEF OnSettlementReport, BeingFinalised, Working
    <3>3. Through(s)'
      BY <2>1, <2>2, <2>3, <2>5, <2>7 DEF Through
    <3>4. JobKnows(p)'
      <4>1. JobTyped(p)'
        BY <1>0, <2>3, <3>1 DEF JobTyped
      <4>2. JobOrders(p)' /\ JobDraws(p)'
        BY <3>1 DEF JobOrders, JobDraws, Applying
      <4>3. settlement'[s].status \in {"READY", "FAILED"} /\ transfer'[<<s, k>>] = "success" /\ <<s, k>> \in SettlementTransfer
        BY <2>1, <2>2, <2>3, <2>5, <2>7 DEF Claimable
      <4>4. JobSettles(p)'
        BY <3>1, <3>3, <4>3 DEF JobSettles
      <4> QED BY <4>1, <4>2, <4>4 DEF JobKnows
    <3>5. job[p].kind \notin Applying \union {"release", "reverse"} /\ work.kind = "finalize" /\ work.id = s
      BY <3>1 DEF Applying
    <3> HIDE DEF work
    <3> QED BY <1>0, <2>1, <2>4, <3>1, <3>2, <3>4, <3>5, TurnKeeps
  <2>8. CASE ~ok /\ settlement[s].status = "READY" /\ Start(p, "markFailed", s, k)
    <3> DEFINE work == [kind |-> "markFailed", row |-> balance, id |-> s, n |-> k]
    <3>1. /\ job' = [job EXCEPT ![p] = work] /\ jobs' \in 0..MaxJobs /\ job[p].kind = "idle"
          /\ job'[p].kind = "markFailed" /\ job'[p].id = s /\ job'[p].n = k /\ job'[p].row = balance
          /\ DOMAIN job'[p] = {"kind", "row", "id", "n"}
      BY <1>0, <2>8, StartDoes
    <3>2. JobKnows(p)'
      <4>1. JobTyped(p)'
        BY <1>0, <3>1 DEF JobTyped, Counting
      <4>2. JobOrders(p)' /\ JobDraws(p)'
        BY <3>1 DEF JobOrders, JobDraws, Applying
      <4>3. settlement'[s].status # "none" /\ transfer'[<<s, k>>] = "failed" /\ <<s, k>> \in SettlementTransfer
        BY <2>1, <2>2, <2>3, <2>5, <2>8
      <4>4. JobSettles(p)'
        BY <3>1, <4>3 DEF JobSettles
      <4> QED BY <4>1, <4>2, <4>4 DEF JobKnows
    <3>3. job[p].kind \notin Applying \union {"release", "reverse"} /\ work.kind = "markFailed"
      BY <3>1 DEF Applying
    <3> HIDE DEF work
    <3> QED BY <1>0, <2>1, <2>4, <3>1, <3>2, <3>3, TurnKeeps
  <2>9. \/ Idle(p) /\ UNCHANGED <<job, jobs>>
        \/ ok /\ Claimable(s) /\ Start(p, "finalize", s, k)
        \/ ~ok /\ settlement[s].status = "READY" /\ Start(p, "markFailed", s, k)
    BY <1>3, <2>3 DEF OnSettlementReport
  <2> QED BY <2>6, <2>7, <2>8, <2>9
<1> QED BY <1>1, <1>2, <1>3

\* A worker turns to other work, or dies, with what became of the transfers.
LEMMA SendKeeps ==
  ASSUME VendorInv, NEW p \in Worker, NEW work, job' = [job EXCEPT ![p] = work], JobKnows(p)',
         UNCHANGED <<rowVars, balance, journal, stale, doubled, clobbered>>, payoutFaults > 0 => payoutFaults' > 0,
         VendorTyped', ReportsKnow', WithdrawalsTell',
         \A t \in Transfer : transfer[t] \in {"success", "failed"} => transfer'[t] = transfer[t],
         \A q \in Worker \ {p} : job[q].kind = "request" => transfer'[<<job[q].id, 0>>] = transfer[<<job[q].id, 0>>],
         work.kind \notin {"accrue", "finalize", "request", "settle", "release", "reverse"},
         job[p].kind \in {"release", "reverse"} => payoutFaults' > 0
  PROVE  VendorInv'
<1>1. DOMAIN job = Worker /\ job'[p] = work /\ \A q \in Worker \ {p} : job'[q] = job[q]
  BY DEF VendorInv, VendorTyped
<1>2. UNCHANGED <<earning, settlement, withdrawal, balance, owedToVendor, heldInJournal, discharged>>
  BY DEF rowVars, journal
<1>3. JobsInv'
  <2>1. \A q \in Worker \ {p} :
           /\ job[q].kind = "accrue" => earning[job[q].id] = "none"
           /\ job[q].kind = "finalize" => settlement[job[q].id].status \in {"READY", "FAILED"}
           /\ job[q].kind = "request" => withdrawal[job[q].id].status = "none" /\ transfer[<<job[q].id, 0>>] = "none"
    <3> TAKE q \in Worker \ {p}
    <3>1. JobOrders(q) /\ JobSettles(q) /\ JobDraws(q)
      BY DEF VendorInv, JobsInv, JobKnows
    <3> QED BY <3>1 DEF JobOrders, JobSettles, JobDraws
  <2>2. \A q \in Worker \ {p} :
           /\ job[q].kind = "accrue" => earning'[job[q].id] = "none"
           /\ job[q].kind = "finalize" => settlement'[job[q].id].status \in {"READY", "FAILED"}
           /\ job[q].kind = "request" => withdrawal'[job[q].id].status = "none" /\ transfer'[<<job[q].id, 0>>] = "none"
    BY <1>2, <2>1
  <2>3. JobsInv /\ work.kind # "accrue" /\ work.kind # "finalize" /\ work.kind # "request"
    BY DEF VendorInv
  <2> QED BY <1>1, <1>2, <2>2, <2>3, JobsKeep
<1>4. FreshRows'
  <2>1. Working("settle")' \subseteq Working("settle")
    BY <1>1 DEF Working
  <2> QED BY <1>2, <2>1, FreshStays DEF VendorInv
<1>5. SettlementsTell'
  BY <1>2, SettlementsStay DEF VendorInv
<1>6. GrossBook' /\ HeldBook' /\ PostedBook' /\ OwedBook'
  <2>1. CASE job[p].kind \notin {"release", "reverse"}
    <3>1. Pending(p) = 0 /\ Pending(p)' = 0
      BY <1>1, <2>1 DEF Pending
    <3>2. \A q \in Worker : Pending(q)' = Pending(q)
      BY <1>1, <1>2, <3>1 DEF Pending
    <3> QED BY <1>2, <3>2, BooksStayVendor DEF VendorInv
  <2>2. CASE payoutFaults' > 0
    <3>1. GrossSum' = GrossSum /\ HeldSum' = HeldSum /\ Brought' = Brought /\ Unsettled' = Unsettled
      BY <1>2 DEF GrossSum, HeldSum, OnHold, Brought, EarnedOrders, Unsettled
    <3>2. GrossBook' /\ HeldBook'
      BY <1>2, <3>1 DEF VendorInv, GrossBook, HeldBook
    <3> QED BY <2>2, <3>2 DEF PostedBook, OwedBook
  <2> QED BY <2>1, <2>2
<1> QED BY <1>3, <1>4, <1>5, <1>6 DEF VendorInv

LEMMA FinishDoes ==
  ASSUME NEW p \in Worker, DOMAIN job = Worker, Finish(p)
  PROVE  /\ job' = [job EXCEPT ![p] = IdleJob] /\ job'[p] = IdleJob /\ DOMAIN job' = Worker
         /\ \A q \in Worker \ {p} : job'[q] = job[q]
         /\ IdleJob.kind = "idle" /\ JobKnows(p)'
<1>1. job' = [job EXCEPT ![p] = IdleJob] /\ job'[p] = IdleJob
  BY DEF Finish, IdleJob
<1> QED BY <1>1, IdleKnows DEF IdleJob

\* A transfer is called once, and only what it answered is known of it.
LEMMA CallDoes ==
  ASSUME VendorTyped, ReportsKnow, NEW t \in Transfer, NEW answer \in {"success", "pending", "error"}, CallTransfer(t, answer)
  PROVE  /\ transfer' \in [Transfer -> {"none", "pending", "success", "failed"}] /\ ReportsKnow'
         /\ reports \subseteq reports' /\ reports' \subseteq Transfer \X BOOLEAN /\ lost \subseteq lost' /\ lost' \subseteq Transfer
         /\ payoutFaults' \in 0..MaxPayoutFaults /\ (payoutFaults > 0 => payoutFaults' > 0)
         /\ \A u \in Transfer : transfer[u] # "none" => transfer'[u] = transfer[u]
         /\ \A u \in Transfer \ {t} : transfer'[u] = transfer[u]
         /\ answer = "success" => transfer'[t] = "success"
         /\ answer = "pending" => transfer'[t] = "pending"
         /\ answer = "error" => transfer'[t] = transfer[t] \/ (transfer'[t] = "pending" /\ t \in lost')
<1>1. CASE /\ transfer[t] = "none" /\ answer \in {"success", "pending"}
           /\ transfer' = [transfer EXCEPT ![t] = answer]
           /\ reports' = IF answer = "success" THEN reports \union {<<t, TRUE>>} ELSE reports
           /\ UNCHANGED <<lost, payoutFaults>>
  <2>1. ReportsKnow'
    BY <1>1 DEF ReportsKnow, VendorTyped
  <2>2. reports \subseteq reports' /\ reports' \subseteq Transfer \X BOOLEAN
    <3>1. reports' \in {reports, reports \union {<<t, TRUE>>}} /\ <<t, TRUE>> \in Transfer \X BOOLEAN
      BY <1>1
    <3>2. reports \subseteq Transfer \X BOOLEAN
      BY DEF VendorTyped
    <3> HIDE <1>1
    <3> QED BY <3>1, <3>2
  <2> QED BY <1>1, <2>1, <2>2 DEF VendorTyped
<1>2. CASE /\ answer = "error" /\ UNCHANGED <<transfer, reports, lost, payoutFaults>>
  BY <1>2 DEF VendorTyped, ReportsKnow
<1>3. CASE /\ transfer[t] = "none" /\ answer = "error" /\ payoutFaults < MaxPayoutFaults
           /\ payoutFaults' = payoutFaults + 1 /\ lost' = lost \union {t}
           /\ transfer' = [transfer EXCEPT ![t] = "pending"] /\ UNCHANGED reports
  <2>1. ReportsKnow'
    BY <1>3 DEF ReportsKnow, VendorTyped
  <2>2. payoutFaults' \in 0..MaxPayoutFaults /\ payoutFaults' > 0
    BY <1>3, PayoutAssumption DEF VendorTyped
  <2> QED BY <1>3, <2>1, <2>2 DEF VendorTyped
<1> QED BY <1>1, <1>2, <1>3 DEF CallTransfer

\* The transfers go on, and the weeks.
LEMMA OutsideKeeps ==
  ASSUME VendorInv, NextMonday \/ \E t \in Transfer : TransferEnds(t)
  PROVE  VendorInv'
<1>0. VendorTyped /\ ReportsKnow /\ WithdrawalsTell
  BY DEF VendorInv
<1>1. CASE NextMonday
  <2>1. UNCHANGED <<rowVars, balance, journal, job, transfer, reports, jobs, history>> /\ week < MaxCycle /\ week' = week + 1
    BY <1>1 DEF NextMonday
  <2>2. week' \in 1..MaxCycle
    BY <1>0, <2>1, PayoutAssumption DEF VendorTyped
  <2>3. VendorTyped'
    BY <1>0, <2>1, <2>2 DEF VendorTyped, rowVars, journal, history
  <2>4. ReportsKnow' /\ WithdrawalsTell'
    BY <1>0, <2>1 DEF ReportsKnow, WithdrawalsTell, rowVars, history
  <2> QED BY <2>1, <2>3, <2>4, QuietKeeps DEF history
<1>2. ASSUME NEW t \in Transfer, TransferEnds(t) PROVE VendorInv'
  <2>1. /\ transfer[t] = "pending" /\ UNCHANGED <<rowVars, balance, journal, job, week, jobs, history>>
        /\ \E ok \in BOOLEAN : /\ transfer' = [transfer EXCEPT ![t] = IF ok THEN "success" ELSE "failed"]
                               /\ reports' = reports \union {<<t, ok>>}
    BY <1>2 DEF TransferEnds
  <2>2. \/ transfer' = [transfer EXCEPT ![t] = "success"] /\ reports' = reports \union {<<t, TRUE>>}
        \/ transfer' = [transfer EXCEPT ![t] = "failed"] /\ reports' = reports \union {<<t, FALSE>>}
    BY <2>1
  <2>3. ReportsKnow'
    BY <1>0, <2>1, <2>2 DEF ReportsKnow, VendorTyped
  <2>4. VendorTyped'
    <3>1. transfer' \in [Transfer -> {"none", "pending", "success", "failed"}]
      BY <1>0, <2>2 DEF VendorTyped
    <3>2. reports' \subseteq Transfer \X BOOLEAN
      <4>1. reports' \in {reports \union {<<t, TRUE>>}, reports \union {<<t, FALSE>>}}
        BY <2>2
      <4>2. <<t, TRUE>> \in Transfer \X BOOLEAN /\ <<t, FALSE>> \in Transfer \X BOOLEAN
        OBVIOUS
      <4>3. reports \subseteq Transfer \X BOOLEAN
        BY <1>0 DEF VendorTyped
      <4> QED BY <4>1, <4>2, <4>3
    <3> QED BY <1>0, <2>1, <3>1, <3>2 DEF VendorTyped, rowVars, journal, history
  <2>5. WithdrawalsTell'
    <3> SUFFICES ASSUME NEW w \in Withdrawal
                 PROVE  /\ withdrawal[w].status = "PAID" => transfer'[<<w, 0>>] = "success"
                        /\ withdrawal[w].status = "FAILED" => transfer'[<<w, 0>>] \in {"none", "failed"} \/ <<w, 0>> \in lost
                        /\ withdrawal[w].status = "PROCESSING" /\ transfer'[<<w, 0>>] # "pending" =>
                             \/ \E ok \in BOOLEAN : <<<<w, 0>>, ok>> \in reports'
                             \/ \E q \in Worker : job[q].kind \in Applying /\ job[q].id = w
                             \/ overtaken
      BY <2>1 DEF WithdrawalsTell, rowVars, history
    <3>1. CASE t = <<w, 0>>
      BY <1>0, <2>1, <2>2, <3>1 DEF WithdrawalsTell, VendorTyped
    <3>2. CASE t # <<w, 0>>
      <4>1. <<w, 0>> \in Transfer
        BY DEF Transfer, WithdrawalTransfer
      <4>2. transfer'[<<w, 0>>] = transfer[<<w, 0>>]
        BY <1>0, <2>2, <3>2, <4>1 DEF VendorTyped
      <4>3. reports \subseteq reports'
        BY <2>2
      <4> QED BY <1>0, <4>2, <4>3 DEF WithdrawalsTell
    <3> QED BY <3>1, <3>2
  <2>6. \A u \in Transfer : transfer[u] # "pending" => transfer'[u] = transfer[u]
    BY <1>0, <2>1, <2>2 DEF VendorTyped
  <2> QED BY <2>1, <2>3, <2>4, <2>5, <2>6, QuietKeeps DEF history
<1> QED BY <1>1, <1>2

\* A chunk is sent; a withdrawal's report is taken; a process dies.
LEMMA SendsKeep ==
  ASSUME VendorInv, NEW p \in Worker,
         PayChunk(p) \/ PayoutCrash(p) \/ \E t \in Transfer, ok \in BOOLEAN : OnWithdrawalReport(p, t, ok)
  PROVE  VendorInv'
<1>0. /\ VendorTyped /\ ReportsKnow /\ WithdrawalsTell /\ DOMAIN job = Worker /\ JobKnows(p)
      /\ job[p].row \in BalanceRow /\ balance \in BalanceRow /\ jobs \in 0..MaxJobs
      /\ \A w \in Withdrawal : <<w, 0>> \in Transfer
  BY DEF VendorInv, VendorTyped, JobsInv, JobKnows, JobTyped, Transfer, WithdrawalTransfer
<1>1. ASSUME PayChunk(p) PROVE VendorInv'
  <2>1. job[p].kind = "pay" /\ job[p].n <= Chunks(settlement[job[p].id].amount)
        /\ UNCHANGED <<rowVars, balance, journal, week, jobs, stale, doubled, clobbered, overtaken>>
    BY <1>1 DEF PayChunk, Doing
  <2>2. PICK answer \in {"success", "pending", "error"} :
          /\ CallTransfer(<<job[p].id, job[p].n>>, answer)
          /\ job' = [job EXCEPT ![p] = IF answer = "success"
                                       THEN [job[p] EXCEPT !.n = @ + 1] ELSE [job[p] EXCEPT !.kind = "payFailed"]]
    BY <1>1 DEF PayChunk
  <2>3. PICK s \in Settlement : s = job[p].id /\ settlement[s].status # "none" /\ settlement[s].amount > 0
                                /\ Chunks(settlement[s].amount) <= MaxChunks
    BY <1>0, <2>1 DEF JobKnows, JobSettles, OnSettlement
  <2>4. PICK n \in Nat : n = job[p].n /\ n > 0
    BY <1>0, <2>1 DEF JobKnows, JobSettles, JobTyped, Counting
  <2> DEFINE t == <<s, n>>
  <2>5. t \in Transfer /\ t \in SettlementTransfer
    <3>1. settlement[s].amount \in Nat
      BY <1>0 DEF VendorTyped, SettlementRow
    <3>2. Chunks(settlement[s].amount) \in Int /\ MaxChunks \in Int
      BY <3>1, ChunksAre
    <3>3. n \in 1..MaxChunks
      BY <2>1, <2>3, <2>4, <3>2
    <3> QED BY <3>3 DEF Transfer, SettlementTransfer
  <2>6. CallTransfer(t, answer)
    BY <2>2, <2>3, <2>4
  <2>7. t[1] = s /\ \A w \in Withdrawal : <<w, 0>> # t
    BY <2>4
  <2> HIDE DEF t
  <2>8. /\ transfer' \in [Transfer -> {"none", "pending", "success", "failed"}] /\ ReportsKnow'
        /\ reports \subseteq reports' /\ reports' \subseteq Transfer \X BOOLEAN /\ lost \subseteq lost' /\ lost' \subseteq Transfer
        /\ payoutFaults' \in 0..MaxPayoutFaults /\ (payoutFaults > 0 => payoutFaults' > 0)
        /\ \A u \in Transfer : transfer[u] # "none" => transfer'[u] = transfer[u]
        /\ \A u \in Transfer \ {t} : transfer'[u] = transfer[u]
        /\ answer = "success" => transfer'[t] = "success"
    BY <1>0, <2>5, <2>6, CallDoes
  <2>9. PICK work : job' = [job EXCEPT ![p] = work]
                    /\ work = IF answer = "success" THEN [job[p] EXCEPT !.n = n + 1] ELSE [job[p] EXCEPT !.kind = "payFailed"]
    <3> DEFINE work == IF answer = "success" THEN [job[p] EXCEPT !.n = n + 1] ELSE [job[p] EXCEPT !.kind = "payFailed"]
    <3>1. job' = [job EXCEPT ![p] = work]
      <4>1. CASE answer = "success"
        BY <2>2, <2>4, <4>1
      <4>2. CASE answer # "success"
        BY <2>2, <4>2
      <4> QED BY <4>1, <4>2
    <3> QED BY <3>1
  <2>10. /\ DOMAIN work = {"kind", "row", "id", "n"} /\ work.row = job[p].row /\ work.id = s
         /\ \/ answer = "success" /\ work.kind = "pay" /\ work.n = n + 1
            \/ work.kind = "payFailed"
    BY <1>0, <2>1, <2>3, <2>9 DEF JobKnows, JobTyped
  <2>11. job'[p] = work /\ \A q \in Worker \ {p} : job'[q] = job[q]
    BY <1>0, <2>9
  <2>12. UNCHANGED <<settlement, withdrawal>>
    BY <2>1 DEF rowVars
  <2>13. JobKnows(p)'
    <3>1. JobTyped(p)'
      BY <1>0, <2>10, <2>11 DEF JobTyped, Counting
    <3>2. JobOrders(p)' /\ JobDraws(p)'
      BY <2>10, <2>11 DEF JobOrders, JobDraws, Applying
    <3>3. answer = "success" => Through(s)'
      BY <2>5, <2>7, <2>8 DEF Through
    <3>4. JobSettles(p)'
      BY <2>3, <2>4, <2>10, <2>11, <2>12, <3>3 DEF JobSettles
    <3> QED BY <3>1, <3>2, <3>4 DEF JobKnows
  <2>14. VendorTyped'
    <3>1. DOMAIN job' = Worker
      BY <1>0, <2>9
    <3> QED BY <1>0, <2>1, <2>8, <3>1 DEF VendorTyped, rowVars, journal
  <2>15. WithdrawalsTell'
    <3>1. \A w \in Withdrawal : transfer'[<<w, 0>>] = transfer[<<w, 0>>]
      BY <1>0, <2>7, <2>8
    <3>2. \A q \in Worker : job[q].kind \in Applying => job'[q] = job[q]
      BY <2>1, <2>11 DEF Applying
    <3> SUFFICES ASSUME NEW w \in Withdrawal
                 PROVE  /\ withdrawal[w].status = "PAID" => transfer[<<w, 0>>] = "success"
                        /\ withdrawal[w].status = "FAILED" => transfer[<<w, 0>>] \in {"none", "failed"} \/ <<w, 0>> \in lost'
                        /\ withdrawal[w].status = "PROCESSING" /\ transfer[<<w, 0>>] # "pending" =>
                             \/ \E ok \in BOOLEAN : <<<<w, 0>>, ok>> \in reports'
                             \/ \E q \in Worker : job'[q].kind \in Applying /\ job'[q].id = w
                             \/ overtaken
      BY <2>1, <2>12, <3>1 DEF WithdrawalsTell
    <3>3. /\ withdrawal[w].status = "PAID" => transfer[<<w, 0>>] = "success"
          /\ withdrawal[w].status = "FAILED" => transfer[<<w, 0>>] \in {"none", "failed"} \/ <<w, 0>> \in lost
          /\ withdrawal[w].status = "PROCESSING" /\ transfer[<<w, 0>>] # "pending" =>
               \/ \E ok \in BOOLEAN : <<<<w, 0>>, ok>> \in reports
               \/ \E q \in Worker : job[q].kind \in Applying /\ job[q].id = w
               \/ overtaken
      BY <1>0 DEF WithdrawalsTell
    <3> QED BY <2>8, <3>2, <3>3
  <2>16. \A q \in Worker \ {p} : job[q].kind = "request" => transfer'[<<job[q].id, 0>>] = transfer[<<job[q].id, 0>>]
    <3> TAKE q \in Worker \ {p}
    <3>1. job[q].kind = "request" => job[q].id \in Withdrawal
      BY DEF VendorInv, JobsInv, JobKnows, JobDraws
    <3> QED BY <1>0, <2>7, <2>8, <3>1
  <2>17. work.kind \notin {"accrue", "finalize", "request", "settle", "release", "reverse"}
         /\ job[p].kind \notin {"release", "reverse"}
    BY <2>1, <2>10
  <2>18. \A u \in Transfer : transfer[u] \in {"success", "failed"} => transfer'[u] = transfer[u]
    BY <2>8
  <2> QED BY <2>1, <2>8, <2>9, <2>13, <2>14, <2>15, <2>16, <2>17, <2>18, SendKeeps
<1>2. ASSUME PayoutCrash(p) PROVE VendorInv'
  <2>1. /\ payoutFaults < MaxPayoutFaults /\ payoutFaults' = payoutFaults + 1 /\ Finish(p)
        /\ UNCHANGED <<rowVars, balance, journal, week, jobs, stale, doubled, clobbered, overtaken>>
    BY <1>2 DEF PayoutCrash
  <2>2. /\ job' = [job EXCEPT ![p] = IdleJob] /\ DOMAIN job' = Worker /\ \A q \in Worker \ {p} : job'[q] = job[q]
        /\ IdleJob.kind = "idle" /\ JobKnows(p)'
    BY <1>0, <2>1, FinishDoes
  <2>3. payoutFaults' \in 0..MaxPayoutFaults /\ payoutFaults' > 0
    BY <1>0, <2>1, PayoutAssumption DEF VendorTyped
  <2> DEFINE back == (CASE job[p].kind = "finalize" /\ job[p].n > 0 -> {<<<<job[p].id, job[p].n>>, TRUE>>}
                        [] job[p].kind = "markFailed"               -> {<<<<job[p].id, job[p].n>>, FALSE>>}
                        [] job[p].kind = "applyPaid"                -> {<<<<job[p].id, 0>>, TRUE>>}
                        [] job[p].kind = "applyFailed"              -> {<<<<job[p].id, 0>>, FALSE>>}
                        [] OTHER -> {})
  <2>4. reports' = reports \union back
    BY <1>2 DEF PayoutCrash
  <2>5. \/ UNCHANGED <<transfer, lost>>
        \/ /\ job[p].kind = "request" /\ transfer' = [transfer EXCEPT ![<<job[p].id, 0>>] = "pending"]
           /\ lost' = lost \union {<<job[p].id, 0>>}
    BY <1>2 DEF PayoutCrash, Doing
  <2>6. /\ job[p].kind = "finalize" /\ job[p].n > 0 => back = {<<<<job[p].id, job[p].n>>, TRUE>>}
        /\ job[p].kind = "markFailed" => back = {<<<<job[p].id, job[p].n>>, FALSE>>}
        /\ job[p].kind = "applyPaid" => back = {<<<<job[p].id, 0>>, TRUE>>}
        /\ job[p].kind = "applyFailed" => back = {<<<<job[p].id, 0>>, FALSE>>}
        /\ ~(job[p].kind = "finalize" /\ job[p].n > 0) /\ job[p].kind \notin {"markFailed", "applyPaid", "applyFailed"} => back = {}
    <3>1. ASSUME job[p].kind = "finalize" /\ job[p].n > 0 PROVE back = {<<<<job[p].id, job[p].n>>, TRUE>>}
      <4>1. job[p].kind # "markFailed" /\ job[p].kind # "applyPaid" /\ job[p].kind # "applyFailed"
        BY <3>1
      <4> QED BY <3>1, <4>1, Zenon
    <3>2. ASSUME job[p].kind = "markFailed" PROVE back = {<<<<job[p].id, job[p].n>>, FALSE>>}
      <4>1. job[p].kind # "finalize" /\ job[p].kind # "applyPaid" /\ job[p].kind # "applyFailed"
        BY <3>2
      <4> QED BY <3>2, <4>1, Zenon
    <3>3. ASSUME job[p].kind = "applyPaid" PROVE back = {<<<<job[p].id, 0>>, TRUE>>}
      <4>1. job[p].kind # "finalize" /\ job[p].kind # "markFailed" /\ job[p].kind # "applyFailed"
        BY <3>3
      <4> QED BY <3>3, <4>1, Zenon
    <3>4. ASSUME job[p].kind = "applyFailed" PROVE back = {<<<<job[p].id, 0>>, FALSE>>}
      <4>1. job[p].kind # "finalize" /\ job[p].kind # "markFailed" /\ job[p].kind # "applyPaid"
        BY <3>4
      <4> QED BY <3>4, <4>1, Zenon
    <3>5. ASSUME ~(job[p].kind = "finalize" /\ job[p].n > 0), job[p].kind \notin {"markFailed", "applyPaid", "applyFailed"}
          PROVE  back = {}
      <4>1. job[p].kind # "markFailed" /\ job[p].kind # "applyPaid" /\ job[p].kind # "applyFailed"
        BY <3>5
      <4> QED BY <3>5, <4>1, Zenon
    <3> HIDE DEF back
    <3> QED BY <3>1, <3>2, <3>3, <3>4, <3>5
  <2> HIDE DEF back
  <2>7. \/ back = {}
        \/ \E u \in Transfer : \/ back = {<<u, TRUE>>} /\ transfer[u] = "success"
                               \/ back = {<<u, FALSE>>} /\ transfer[u] = "failed"
    <3>1. CASE job[p].kind = "finalize" /\ job[p].n > 0
      <4>1. <<job[p].id, job[p].n>> \in Transfer /\ transfer[<<job[p].id, job[p].n>>] = "success"
        BY <1>0, <3>1 DEF JobKnows, JobSettles, Transfer
      <4> QED BY <2>6, <3>1, <4>1
    <3>2. CASE job[p].kind = "markFailed"
      <4>1. <<job[p].id, job[p].n>> \in Transfer /\ transfer[<<job[p].id, job[p].n>>] = "failed"
        BY <1>0, <3>2 DEF JobKnows, JobSettles, Transfer
      <4> QED BY <2>6, <3>2, <4>1
    <3>3. CASE job[p].kind = "applyPaid"
      <4>1. <<job[p].id, 0>> \in Transfer /\ transfer[<<job[p].id, 0>>] = "success"
        BY <1>0, <3>3 DEF JobKnows, JobDraws, Applying
      <4> QED BY <2>6, <3>3, <4>1
    <3>4. CASE job[p].kind = "applyFailed"
      <4>1. <<job[p].id, 0>> \in Transfer /\ transfer[<<job[p].id, 0>>] = "failed"
        BY <1>0, <3>4 DEF JobKnows, JobDraws, Applying
      <4> QED BY <2>6, <3>4, <4>1
    <3> QED BY <2>6, <3>1, <3>2, <3>3, <3>4
  <2>8. job[p].kind = "request" => job[p].id \in Withdrawal /\ withdrawal[job[p].id].status = "none"
                                   /\ transfer[<<job[p].id, 0>>] = "none" /\ <<job[p].id, 0>> \in Transfer
    BY <1>0 DEF JobKnows, JobDraws
  <2>9. /\ transfer' \in [Transfer -> {"none", "pending", "success", "failed"}]
        /\ lost \subseteq lost' /\ lost' \subseteq Transfer
        /\ \A u \in Transfer : transfer[u] # "none" => transfer'[u] = transfer[u]
        /\ \A u \in Transfer : transfer'[u] # transfer[u] => job[p].kind = "request" /\ u = <<job[p].id, 0>>
    BY <1>0, <2>5, <2>8 DEF VendorTyped
  <2>10. reports \subseteq reports' /\ reports' \subseteq Transfer \X BOOLEAN
    <3>1. CASE back = {}
      BY <1>0, <2>4, <3>1 DEF VendorTyped
    <3>2. ASSUME NEW u \in Transfer, NEW ok \in BOOLEAN, back = {<<u, ok>>}
          PROVE  reports' \subseteq Transfer \X BOOLEAN
      <4>1. <<u, ok>> \in Transfer \X BOOLEAN
        OBVIOUS
      <4>2. reports \subseteq Transfer \X BOOLEAN
        BY <1>0 DEF VendorTyped
      <4> QED BY <2>4, <3>2, <4>1, <4>2
    <3>3. TRUE \in BOOLEAN /\ FALSE \in BOOLEAN
      OBVIOUS
    <3> QED BY <2>4, <2>7, <3>1, <3>2, <3>3
  <2>11. ReportsKnow'
    BY <1>0, <2>4, <2>7, <2>9 DEF ReportsKnow
  <2>12. VendorTyped'
    BY <1>0, <2>1, <2>2, <2>3, <2>9, <2>10 DEF VendorTyped, rowVars, journal
  <2>13. WithdrawalsTell'
    <3> SUFFICES ASSUME NEW w \in Withdrawal
                 PROVE  /\ withdrawal[w].status = "PAID" => transfer'[<<w, 0>>] = "success"
                        /\ withdrawal[w].status = "FAILED" => transfer'[<<w, 0>>] \in {"none", "failed"} \/ <<w, 0>> \in lost'
                        /\ withdrawal[w].status = "PROCESSING" /\ transfer'[<<w, 0>>] # "pending" =>
                             \/ \E ok \in BOOLEAN : <<<<w, 0>>, ok>> \in reports'
                             \/ \E q \in Worker : job'[q].kind \in Applying /\ job'[q].id = w
                             \/ overtaken
      BY <2>1 DEF WithdrawalsTell, rowVars
    <3>1. withdrawal[w].status # "none" => transfer'[<<w, 0>>] = transfer[<<w, 0>>]
      <4>1. ASSUME transfer'[<<w, 0>>] # transfer[<<w, 0>>] PROVE withdrawal[w].status = "none"
        <5>1. job[p].kind = "request" /\ <<w, 0>> = <<job[p].id, 0>>
          BY <1>0, <2>9, <4>1
        <5>2. w = job[p].id
          BY <5>1
        <5> QED BY <2>8, <5>1, <5>2
      <4> QED BY <4>1
    <3>2. job[p].kind \in Applying /\ job[p].id = w => \E ok \in BOOLEAN : <<<<w, 0>>, ok>> \in reports'
      BY <2>4, <2>6 DEF Applying
    <3>3. /\ withdrawal[w].status = "PAID" => transfer[<<w, 0>>] = "success"
          /\ withdrawal[w].status = "FAILED" => transfer[<<w, 0>>] \in {"none", "failed"} \/ <<w, 0>> \in lost
          /\ withdrawal[w].status = "PROCESSING" /\ transfer[<<w, 0>>] # "pending" =>
               \/ \E ok \in BOOLEAN : <<<<w, 0>>, ok>> \in reports
               \/ \E q \in Worker : job[q].kind \in Applying /\ job[q].id = w
               \/ overtaken
      BY <1>0 DEF WithdrawalsTell
    <3>4. \A q \in Worker : job[q].kind \in Applying /\ job[q].id = w =>
             \/ \E ok \in BOOLEAN : <<<<w, 0>>, ok>> \in reports'
             \/ \E r \in Worker : job'[r].kind \in Applying /\ job'[r].id = w
      BY <2>2, <3>2
    <3>5. withdrawal[w].status = "PROCESSING" /\ transfer[<<w, 0>>] # "pending" =>
             \/ \E ok \in BOOLEAN : <<<<w, 0>>, ok>> \in reports'
             \/ \E q \in Worker : job'[q].kind \in Applying /\ job'[q].id = w
             \/ overtaken
      BY <2>10, <3>3, <3>4
    <3> QED BY <2>9, <3>1, <3>3, <3>5
  <2>14. \A q \in Worker \ {p} : job[q].kind = "request" => transfer'[<<job[q].id, 0>>] = transfer[<<job[q].id, 0>>]
    <3> TAKE q \in Worker \ {p}
    <3>1. job[q].kind = "request" => job[p].kind # "request" /\ job[q].id \in Withdrawal
      BY DEF VendorInv, JobsInv, JobKnows, JobDraws, OneWorker
    <3> QED BY <1>0, <2>9, <3>1
  <2>15. IdleJob.kind \notin {"accrue", "finalize", "request", "settle", "release", "reverse"}
    BY <2>2
  <2>16. \A u \in Transfer : transfer[u] \in {"success", "failed"} => transfer'[u] = transfer[u]
    BY <2>9
  <2> QED BY <2>1, <2>2, <2>3, <2>11, <2>12, <2>13, <2>14, <2>15, <2>16, SendKeeps
<1>3. ASSUME NEW t \in Transfer, NEW ok \in BOOLEAN, OnWithdrawalReport(p, t, ok) PROVE VendorInv'
  <2>1. /\ <<t, ok>> \in reports /\ reports' = reports \ {<<t, ok>>} /\ (overtaken => overtaken')
        /\ UNCHANGED <<rowVars, balance, journal, transfer, week, stale, doubled, clobbered, lost, payoutFaults>>
    BY <1>3 DEF OnWithdrawalReport
  <2>2. PICK w \in Withdrawal : t = <<w, 0>>
    BY <1>3 DEF OnWithdrawalReport, WithdrawalTransfer
  <2>3. t[1] = w
    BY <2>2
  <2>4. (ok => transfer[t] = "success") /\ (~ok => transfer[t] = "failed")
    <3>1. /\ <<t, TRUE>> \in reports => transfer[t] = "success"
          /\ <<t, FALSE>> \in reports => transfer[t] = "failed"
      BY <1>0 DEF ReportsKnow
    <3>2. (ok <=> ok = TRUE) /\ (~ok <=> ok = FALSE)
      BY Zenon
    <3>3. ok = TRUE => transfer[t] = "success"
      BY <2>1, <3>1
    <3>4. ok = FALSE => transfer[t] = "failed"
      BY <2>1, <3>1
    <3> QED BY <3>2, <3>3, <3>4, Zenon
  <2>5. ReportsKnow' /\ reports' \subseteq Transfer \X BOOLEAN
    BY <1>0, <2>1 DEF ReportsKnow, VendorTyped
  <2>6. \A v \in Withdrawal \ {w}, o \in BOOLEAN : <<<<v, 0>>, o>> \in reports => <<<<v, 0>>, o>> \in reports'
    BY <2>1, <2>2
  <2>7. CASE withdrawal[w].status = "PROCESSING"
    <3>1. PICK kind \in Applying : Start(p, kind, w, 0) /\ kind = IF ok THEN "applyPaid" ELSE "applyFailed"
      BY <1>3, <2>3, <2>7 DEF OnWithdrawalReport, Applying
    <3>2. UNCHANGED overtaken
      BY <1>3, <2>3, <2>7 DEF OnWithdrawalReport
    <3> DEFINE work == [kind |-> kind, row |-> balance, id |-> w, n |-> 0]
    <3>3. /\ job' = [job EXCEPT ![p] = work] /\ jobs' \in 0..MaxJobs /\ job[p].kind = "idle"
          /\ job'[p].kind = kind /\ job'[p].id = w /\ job'[p].row = balance
          /\ DOMAIN job'[p] = {"kind", "row", "id", "n"}
      BY <1>0, <3>1, StartDoes
    <3>4. work.kind = kind
      OBVIOUS
    <3> HIDE DEF work
    <3>5. DOMAIN job' = Worker /\ \A q \in Worker \ {p} : job'[q] = job[q]
      BY <1>0, <3>3
    <3>6. JobKnows(p)'
      <4>1. JobTyped(p)'
        BY <1>0, <3>3 DEF JobTyped, Counting, Applying
      <4>2. JobOrders(p)' /\ JobSettles(p)'
        BY <3>3 DEF JobOrders, JobSettles, OnSettlement, Applying
      <4>3. (kind = "applyPaid" => transfer'[<<w, 0>>] = "success") /\ (kind = "applyFailed" => transfer'[<<w, 0>>] = "failed")
        BY <2>1, <2>2, <2>4, <3>1
      <4>4. withdrawal'[w].status # "none"
        BY <2>1, <2>7 DEF rowVars
      <4>5. JobDraws(p)'
        BY <3>1, <3>3, <4>3, <4>4 DEF JobDraws, Applying
      <4> QED BY <4>1, <4>2, <4>5 DEF JobKnows
    <3>7. VendorTyped'
      BY <1>0, <2>1, <2>5, <3>2, <3>3, <3>5 DEF VendorTyped, rowVars, journal
    <3>8. WithdrawalsTell'
      <4>1. \A q \in Worker : job[q].kind \in Applying => job'[q] = job[q]
        BY <3>3, <3>5 DEF Applying
      <4>2. job'[p].kind \in Applying /\ job'[p].id = w
        BY <3>1, <3>3
      <4> SUFFICES ASSUME NEW v \in Withdrawal
                   PROVE  /\ withdrawal[v].status = "PAID" => transfer[<<v, 0>>] = "success"
                          /\ withdrawal[v].status = "FAILED" => transfer[<<v, 0>>] \in {"none", "failed"} \/ <<v, 0>> \in lost
                          /\ withdrawal[v].status = "PROCESSING" /\ transfer[<<v, 0>>] # "pending" =>
                               \/ \E o \in BOOLEAN : <<<<v, 0>>, o>> \in reports'
                               \/ \E q \in Worker : job'[q].kind \in Applying /\ job'[q].id = v
                               \/ overtaken
        BY <2>1, <3>2 DEF WithdrawalsTell, rowVars
      <4> QED BY <1>0, <2>6, <4>1, <4>2 DEF WithdrawalsTell
    <3>9. work.kind \notin {"accrue", "finalize", "request", "settle", "release", "reverse"}
          /\ job[p].kind \notin {"release", "reverse"}
      BY <3>3, <3>4 DEF Applying
    <3> QED BY <2>1, <2>5, <3>3, <3>6, <3>7, <3>8, <3>9, SendKeeps
  <2>8. CASE withdrawal[w].status # "PROCESSING"
    <3>1. UNCHANGED <<job, jobs>>
      BY <1>3, <2>3, <2>8 DEF OnWithdrawalReport
    <3>2. VendorTyped'
      BY <1>0, <2>1, <2>5, <3>1 DEF VendorTyped, rowVars, journal
    <3>3. WithdrawalsTell'
      <4> SUFFICES ASSUME NEW v \in Withdrawal
                   PROVE  /\ withdrawal[v].status = "PAID" => transfer[<<v, 0>>] = "success"
                          /\ withdrawal[v].status = "FAILED" => transfer[<<v, 0>>] \in {"none", "failed"} \/ <<v, 0>> \in lost
                          /\ withdrawal[v].status = "PROCESSING" /\ transfer[<<v, 0>>] # "pending" =>
                               \/ \E o \in BOOLEAN : <<<<v, 0>>, o>> \in reports'
                               \/ \E q \in Worker : job[q].kind \in Applying /\ job[q].id = v
                               \/ overtaken'
        BY <2>1, <3>1 DEF WithdrawalsTell, rowVars
      <4> QED BY <1>0, <2>1, <2>6, <2>8 DEF WithdrawalsTell
    <3> QED BY <2>1, <2>5, <3>1, <3>2, <3>3, QuietKeeps
  <2> QED BY <2>7, <2>8
<1> QED BY <1>1, <1>2, <1>3

-----------------------------------------------------------------------------
(* Work that ends, and what it writes *)

\* Rows that are made stay made.
LEMMA FreshTurns ==
  ASSUME FreshRows, Working("settle")' \subseteq Working("settle"),
         \A s \in Settlement : settlement[s].status # "none" => settlement'[s].status # "none",
         \A s \in Settlement : settlement[s].status = "none" =>
           settlement'[s] = settlement[s] /\ discharged'[s] = discharged[s]
  PROVE  FreshRows'
<1>1. Unmade' = Unmade
  BY DEF Unmade
<1>2. /\ Cardinality(Working("settle")') <= Cardinality(Working("settle"))
      /\ Cardinality(Working("settle")') \in Nat /\ Cardinality(Working("settle")) \in Nat /\ Cardinality(Unmade) \in Nat
  <2>1. Working("settle") \in SUBSET Worker /\ IsFiniteSet(Working("settle"))
    BY Counts DEF Working
  <2>2. Working("settle")' \in SUBSET Working("settle")
    OBVIOUS
  <2> HIDE DEF Working
  <2> QED BY <2>1, <2>2, Counts, FS_Subset, FS_CardinalityType
<1>3. Cardinality(Working("settle")') <= Cardinality(Unmade')
  BY <1>1, <1>2 DEF FreshRows
<1> QED BY <1>3 DEF FreshRows

\* What the other workers hold of rows that a step leaves alone.
LEMMA OthersHold ==
  ASSUME JobsInv, NEW q \in Worker
  PROVE  /\ job[q].kind = "accrue" => job[q].id \in VOrder /\ earning[job[q].id] = "none"
         /\ job[q].kind = "finalize" => job[q].id \in Settlement /\ settlement[job[q].id].status \in {"READY", "FAILED"}
         /\ job[q].kind = "reverse" => job[q].id \in Settlement
         /\ job[q].kind = "request" => /\ job[q].id \in Withdrawal /\ withdrawal[job[q].id].status = "none"
                                       /\ transfer[<<job[q].id, 0>>] = "none" /\ <<job[q].id, 0>> \in Transfer
<1>1. JobOrders(q) /\ JobSettles(q) /\ JobDraws(q) /\ \A w \in Withdrawal : <<w, 0>> \in Transfer
  BY DEF JobsInv, JobKnows, Transfer, WithdrawalTransfer
<1> QED BY <1>1 DEF JobOrders, JobSettles, JobDraws, OnSettlement

\* A settlement takes another status, with what the journal posts for it.
LEMMA StatusKeeps ==
  ASSUME VendorInv, NEW p \in Worker, NEW work, job' = [job EXCEPT ![p] = work], JobKnows(p)',
         NEW s \in Settlement, settlement[s].status # "none", NEW x \in {"READY", "FAILED", "PAID", "REVERSED"},
         settlement' = [settlement EXCEPT ![s].status = x],
         discharged' \in [Settlement -> {0, 1}], \A r \in Settlement \ {s} : discharged'[r] = discharged[r],
         UNCHANGED <<earning, withdrawal, transfer, reports, week, lost, overtaken, payoutFaults, heldInJournal, doubled>>,
         jobs' \in 0..MaxJobs, owedToVendor' \in Int, balance' \in BalanceRow, stale => stale', clobbered => clobbered',
         stale' \/ (balance'.held = balance.held /\ balance'.bonus = balance.bonus),
         work.kind \notin {"accrue", "finalize", "request", "settle", "release"}, job[p].kind \notin Applying,
         x \in {"READY", "FAILED"} \/ \A q \in Worker \ {p} : job[q].kind = "finalize" => job[q].id # s,
         discharged'[s] = 1 => x \in {"PAID", "REVERSED"} \/ clobbered', x = "PAID" => Through(s),
         owedToVendor' = owedToVendor + Pending(p) - Pending(p)' + Credited(s)' - Credited(s) \/ clobbered'
  PROVE  VendorInv'
<1>0. DOMAIN job = Worker /\ VendorTyped /\ JobsInv
  BY DEF VendorInv, VendorTyped
<1>1. job'[p] = work /\ \A q \in Worker \ {p} : job'[q] = job[q]
  BY <1>0
<1>2. /\ settlement' \in [Settlement -> SettlementRow]
      /\ \A r \in Settlement \ {s} : settlement'[r] = settlement[r]
      /\ settlement'[s].status = x /\ settlement'[s].amount = settlement[s].amount /\ settlement'[s].gross = settlement[s].gross
  BY <1>0 DEF VendorTyped, SettlementRow, SettlementStatus
<1>3. VendorTyped'
  <2>1. DOMAIN job' = Worker
    BY <1>0
  <2> QED BY <1>0, <1>2, <2>1 DEF VendorTyped
<1>4. JobsInv'
  <2>1. \A q \in Worker \ {p} :
           /\ job[q].kind = "accrue" => earning'[job[q].id] = "none"
           /\ job[q].kind = "finalize" => settlement'[job[q].id].status \in {"READY", "FAILED"}
           /\ job[q].kind = "request" => withdrawal'[job[q].id].status = "none" /\ transfer'[<<job[q].id, 0>>] = "none"
    BY <1>0, <1>2, OthersHold
  <2>2. \A r \in Settlement : settlement[r].status # "none" =>
           settlement'[r].status # "none" /\ settlement'[r].amount = settlement[r].amount
    BY <1>2
  <2>3. work.kind # "accrue" /\ work.kind # "finalize" /\ work.kind # "request"
    OBVIOUS
  <2> QED BY <1>0, <2>1, <2>2, <2>3, JobsKeep
<1>5. FreshRows'
  <2>1. Working("settle")' \subseteq Working("settle")
    BY <1>1 DEF Working
  <2>2. \A r \in Settlement : settlement[r].status # "none" => settlement'[r].status # "none"
    BY <1>2
  <2>3. \A r \in Settlement : settlement[r].status = "none" => settlement'[r] = settlement[r] /\ discharged'[r] = discharged[r]
    BY <1>2
  <2> QED BY <2>1, <2>2, <2>3, FreshTurns DEF VendorInv
<1>6. ReportsKnow'
  BY DEF VendorInv, ReportsKnow
<1>7. WithdrawalsTell'
  BY <1>0, <1>1, WithdrawalsStay DEF VendorInv
<1>8. SettlementsTell'
  <2>1. \A r \in Settlement : Through(r)' <=> Through(r)
    BY DEF Through
  <2> QED BY <1>2, <2>1 DEF VendorInv, SettlementsTell
<1>9. /\ GrossSum' = GrossSum /\ CreditSum' = CreditSum - Credited(s) + Credited(s)'
      /\ PendingSum' = PendingSum - Pending(p) + Pending(p)'
      /\ GrossSum \in Nat /\ CreditSum \in Int /\ PendingSum \in Int /\ DrawnSum \in Nat /\ HeldSum \in Nat
      /\ Credited(s) \in Int /\ Credited(s)' \in Int /\ Pending(p) \in Int /\ Pending(p)' \in Int
  <2>1. \A r \in Settlement \ {s} : settlement'[r] = settlement[r] /\ discharged'[r] = discharged[r]
    BY <1>2
  <2>2. GrossSum' = GrossSum - settlement[s].gross + settlement'[s].gross /\ CreditSum' = CreditSum - Credited(s) + Credited(s)'
    BY <1>0, <1>3, <1>4, <2>1, OneSettlement
  <2>3. GrossSum \in Nat /\ CreditSum \in Int /\ PendingSum \in Int /\ DrawnSum \in Nat /\ HeldSum \in Nat
    BY <1>0, VendorSumsNow DEF VendorSums
  <2>4. settlement[s].gross \in Nat /\ Credited(s) \in Int /\ Credited(s)' \in Int /\ Pending(p) \in Int /\ Pending(p)' \in Int
    BY <1>0, <1>3, <1>4, TermsNow, TermsNext DEF TermsFact
  <2>5. \A q \in Worker \ {p} : Pending(q)' = Pending(q)
    <3> TAKE q \in Worker \ {p}
    <3>1. job'[q] = job[q] /\ (job[q].kind = "reverse" => job[q].id \in Settlement)
      BY <1>0, <1>1, OthersHold
    <3>2. \A r \in Settlement : settlement'[r].amount = settlement[r].amount
      BY <1>2
    <3> QED BY <3>1, <3>2 DEF Pending
  <2>6. PendingSum' = PendingSum - Pending(p) + Pending(p)'
    BY <1>0, <1>3, <1>4, <2>5, OneJob
  <2> QED BY <1>2, <2>2, <2>3, <2>4, <2>6
<1>10. /\ HeldSum' = HeldSum /\ PostedSum' = PostedSum /\ DrawnSum' = DrawnSum /\ Brought' = Brought
       /\ Unsettled' = Unsettled /\ (Failing' <=> Failing)
  BY DEF HeldSum, PostedSum, DrawnSum, OnHold, Withdrawn, Brought, EarnedOrders, Unsettled, Failing
<1>11. GrossBook' /\ HeldBook' /\ PostedBook'
  BY <1>9, <1>10 DEF VendorInv, GrossBook, HeldBook, PostedBook
<1>12. OwedBook'
  <2>1. OwedBook /\ owedToVendor \in Int
    BY <1>0 DEF VendorInv, VendorTyped
  <2>2. CASE payoutFaults > 0 \/ Failing \/ clobbered'
    BY <1>10, <2>2 DEF OwedBook
  <2>3. CASE ~(payoutFaults > 0 \/ Failing \/ clobbered')
    <3>1. owedToVendor + PendingSum = Brought + CreditSum - DrawnSum
      BY <2>1, <2>3 DEF OwedBook
    <3>2. PICK o \in Int, o2 \in Int, cp \in Int, cp2 \in Int, cs \in Int, cs2 \in Int :
             o = owedToVendor /\ o2 = owedToVendor' /\ cp = Pending(p) /\ cp2 = Pending(p)' /\ cs = Credited(s) /\ cs2 = Credited(s)'
      BY <1>3, <1>9, <2>1 DEF VendorTyped
    <3>3. o2 = o + cp - cp2 + cs2 - cs
      BY <2>3, <3>2
    <3>4. Brought \in Int
      <4>1. EarnedOrders \in SUBSET VOrder
        BY DEF EarnedOrders
      <4>2. Cardinality(EarnedOrders) \in Nat /\ Share \in Nat /\ Bonus \in Nat
        BY <4>1, Counts, PayoutAssumption
      <4>3. PICK a \in Int, b \in Int : a = Cardinality(EarnedOrders) * Share
              /\ b = IF Cardinality(EarnedOrders) >= BonusAfter /\ BonusAfter > 0 THEN Bonus ELSE 0
        BY <4>2
      <4> QED BY <4>3 DEF Brought
    <3>5. owedToVendor' + PendingSum' = Brought' + CreditSum' - DrawnSum'
      BY <1>9, <1>10, <3>1, <3>2, <3>3, <3>4
    <3> QED BY <3>5 DEF OwedBook
  <2> QED BY <2>2, <2>3
<1> QED BY <1>3, <1>4, <1>5, <1>6, <1>7, <1>8, <1>11, <1>12 DEF VendorInv

\* A failed payment, a failed report, a claim that reverses, a payment that is booked.
LEMMA StatusesKeep ==
  ASSUME VendorInv, NEW p \in Worker,
         PayFailed(p) \/ MarkFailed(p) \/ Finalize(p) \/ \E s \in Settlement : BeginReverse(p, s)
  PROVE  VendorInv'
<1>0. /\ VendorTyped /\ DOMAIN job = Worker /\ JobKnows(p) /\ JobsInv
      /\ job[p].row \in BalanceRow /\ balance \in BalanceRow /\ jobs \in 0..MaxJobs
      /\ discharged \in [Settlement -> {0, 1}] /\ owedToVendor \in Int
      /\ \A s \in Settlement : Credited(s) \in Int /\ settlement[s].amount \in Nat /\ settlement[s].status \in SettlementStatus
  <2>1. VendorTyped /\ JobsInv
    BY DEF VendorInv
  <2>2. \A s \in Settlement : Credited(s) \in Int
    BY <2>1, TermsTyped
  <2> QED BY <2>1, <2>2 DEF VendorTyped, JobsInv, JobKnows, JobTyped, SettlementRow
<1>1. ASSUME PayFailed(p) PROVE VendorInv'
  <2>1. /\ job[p].kind = "payFailed" /\ Finish(p)
        /\ UNCHANGED <<earning, withdrawal, balance, owedToVendor, heldInJournal, discharged, transfer, reports, week, jobs,
                       stale, doubled, clobbered, overtaken, lost, payoutFaults>>
        /\ settlement' = [settlement EXCEPT ![job[p].id].status = IF @ = "READY" THEN "FAILED" ELSE @]
    BY <1>1 DEF PayFailed, Doing, journal, history
  <2>2. PICK s \in Settlement : s = job[p].id /\ settlement[s].status # "none"
    BY <1>0, <2>1 DEF JobKnows, JobSettles, OnSettlement
  <2>3. PICK x : x = IF settlement[s].status = "READY" THEN "FAILED" ELSE settlement[s].status
    OBVIOUS
  <2>4. x \in {"READY", "FAILED", "PAID", "REVERSED"} /\ settlement' = [settlement EXCEPT ![s].status = x]
    BY <1>0, <2>1, <2>2, <2>3 DEF SettlementStatus
  <2>5. /\ job' = [job EXCEPT ![p] = IdleJob] /\ job'[p] = IdleJob /\ IdleJob.kind = "idle" /\ JobKnows(p)'
    BY <1>0, <2>1, FinishDoes
  <2>6. settlement'[s].status = x /\ settlement'[s].amount = settlement[s].amount /\ settlement'[s].gross = settlement[s].gross
    BY <1>0, <2>4 DEF VendorTyped, SettlementRow
  <2>7. Pending(p) = 0 /\ Pending(p)' = 0 /\ Credited(s)' = Credited(s)
    <3>1. (x = "none" <=> settlement[s].status = "none") /\ (x = "REVERSED" <=> settlement[s].status = "REVERSED")
      BY <2>3
    <3>2. Credited(s)' = Credited(s)
      BY <2>1, <2>6, <3>1 DEF Credited
    <3> QED BY <2>1, <2>5, <3>2 DEF Pending
  <2>8. owedToVendor' = owedToVendor + Pending(p) - Pending(p)' + Credited(s)' - Credited(s)
    <3>1. PICK c \in Int, o \in Int : c = Credited(s) /\ o = owedToVendor
      BY <1>0
    <3> QED BY <2>1, <2>7, <3>1
  <2>9. x \in {"READY", "FAILED"} \/ \A q \in Worker \ {p} : job[q].kind = "finalize" => job[q].id # s
    BY <1>0, <2>3, OthersHold
  <2>10. (discharged'[s] = 1 => x \in {"PAID", "REVERSED"} \/ clobbered') /\ (x = "PAID" => Through(s))
    BY <2>1, <2>3 DEF VendorInv, SettlementsTell
  <2>11. job[p].kind \notin Applying /\ IdleJob.kind \notin {"accrue", "finalize", "request", "settle", "release"}
    BY <2>1, <2>5 DEF Applying
  <2> QED BY <1>0, <2>1, <2>2, <2>4, <2>5, <2>8, <2>9, <2>10, <2>11, StatusKeeps
<1>2. ASSUME MarkFailed(p) PROVE VendorInv'
  <2>1. /\ job[p].kind = "markFailed" /\ Finish(p)
        /\ UNCHANGED <<earning, withdrawal, balance, owedToVendor, heldInJournal, discharged, transfer, reports, week, jobs,
                       stale, doubled, overtaken, lost, payoutFaults>>
        /\ settlement' = [settlement EXCEPT ![job[p].id].status = "FAILED"]
        /\ clobbered' = (clobbered \/ settlement[job[p].id].status # "READY")
    BY <1>2 DEF MarkFailed, Doing, journal
  <2>2. PICK s \in Settlement : s = job[p].id /\ settlement[s].status # "none"
    BY <1>0, <2>1 DEF JobKnows, JobSettles, OnSettlement
  <2>3. settlement' = [settlement EXCEPT ![s].status = "FAILED"] /\ (clobbered => clobbered')
        /\ (clobbered' \/ (~clobbered /\ settlement[s].status = "READY"))
    BY <2>1, <2>2
  <2>4. /\ job' = [job EXCEPT ![p] = IdleJob] /\ job'[p] = IdleJob /\ IdleJob.kind = "idle" /\ JobKnows(p)'
    BY <1>0, <2>1, FinishDoes
  <2>5. settlement'[s].status = "FAILED" /\ settlement'[s].amount = settlement[s].amount /\ settlement'[s].gross = settlement[s].gross
    BY <1>0, <2>3 DEF VendorTyped, SettlementRow
  <2>6. owedToVendor' = owedToVendor + Pending(p) - Pending(p)' + Credited(s)' - Credited(s) \/ clobbered'
    <3>1. Pending(p) = 0 /\ Pending(p)' = 0
      BY <2>1, <2>4 DEF Pending
    <3>2. clobbered' \/ Credited(s)' = Credited(s)
      BY <2>1, <2>3, <2>5 DEF Credited
    <3>3. PICK c \in Int, o \in Int : c = Credited(s) /\ o = owedToVendor
      BY <1>0
    <3> QED BY <2>1, <3>1, <3>2, <3>3
  <2>7. discharged'[s] = 1 => clobbered'
    BY <2>1, <2>3 DEF VendorInv, SettlementsTell
  <2>8. job[p].kind \notin Applying /\ IdleJob.kind \notin {"accrue", "finalize", "request", "settle", "release"}
    BY <2>1, <2>4 DEF Applying
  <2> QED BY <1>0, <2>1, <2>2, <2>3, <2>4, <2>6, <2>7, <2>8, StatusKeeps
<1>3. ASSUME Finalize(p) PROVE VendorInv'
  <2>1. /\ job[p].kind = "finalize" /\ Finish(p)
        /\ UNCHANGED <<earning, withdrawal, heldInJournal, transfer, reports, week, jobs,
                       doubled, clobbered, overtaken, lost, payoutFaults>>
    BY <1>3 DEF Finalize, Doing
  <2>2. PICK s \in Settlement : s = job[p].id /\ settlement[s].status \in {"READY", "FAILED"} /\ Through(s)
    BY <1>0, <2>1 DEF JobKnows, JobSettles, OnSettlement
  <2>3. /\ job' = [job EXCEPT ![p] = IdleJob] /\ job'[p] = IdleJob /\ IdleJob.kind = "idle" /\ JobKnows(p)'
    BY <1>0, <2>1, FinishDoes
  <2>4. job[p].kind \notin Applying /\ IdleJob.kind \notin {"accrue", "finalize", "request", "settle", "release"}
        /\ job[p].kind \notin {"release", "reverse"}
    BY <2>1, <2>3 DEF Applying
  <2>5. CASE discharged[s] > 0
    <3>1. UNCHANGED <<settlement, balance, stale, discharged, owedToVendor>>
      BY <1>3, <2>2, <2>5 DEF Finalize
    <3> QED BY <1>0, <2>1, <2>3, <2>4, <3>1, TurnKeeps DEF rowVars, journal, history, VendorTyped
  <2>6. CASE ~(discharged[s] > 0)
    <3>1. /\ settlement' = [settlement EXCEPT ![s].status = "PAID"]
          /\ Save(p, [job[p].row EXCEPT !.paidOut = @ + settlement[s].amount])
          /\ discharged' = [discharged EXCEPT ![s] = @ + 1]
          /\ owedToVendor' = owedToVendor - settlement[s].amount
      BY <1>3, <2>2, <2>6 DEF Finalize
    <3>2. discharged[s] = 0 /\ discharged' \in [Settlement -> {0, 1}] /\ discharged'[s] = 1
          /\ \A r \in Settlement \ {s} : discharged'[r] = discharged[r]
      BY <1>0, <2>6, <3>1
    <3>3. settlement'[s].status = "PAID" /\ settlement'[s].amount = settlement[s].amount /\ settlement'[s].gross = settlement[s].gross
      BY <1>0, <3>1 DEF VendorTyped, SettlementRow
    <3>4. /\ balance' \in BalanceRow /\ (stale => stale') /\ (stale' \/ (balance'.held = balance.held /\ balance'.bonus = balance.bonus))
      <4>1. PICK a \in Nat : a = settlement[s].amount
        BY <1>0
      <4>2. balance' = [job[p].row EXCEPT !.paidOut = @ + a] /\ (stale' \/ job[p].row = balance) /\ (stale => stale')
        BY <3>1, <4>1 DEF Save
      <4>3. balance' \in BalanceRow /\ balance'.held = job[p].row.held /\ balance'.bonus = job[p].row.bonus
        BY <1>0, <4>2 DEF BalanceRow
      <4> QED BY <4>2, <4>3
    <3>5. owedToVendor' = owedToVendor + Pending(p) - Pending(p)' + Credited(s)' - Credited(s) /\ owedToVendor' \in Int
      <4>1. PICK a \in Nat, o \in Int : a = settlement[s].amount /\ o = owedToVendor
        BY <1>0
      <4>2. Pending(p) = 0 /\ Pending(p)' = 0
        BY <2>1, <2>3 DEF Pending
      <4>3. PICK g \in Int : g = IF settlement[s].gross = 0 THEN a ELSE 0
        OBVIOUS
      <4>4. Credited(s) = g + 0 - 0 * a
        BY <2>2, <3>2, <4>1, <4>3 DEF Credited
      <4>5. Credited(s)' = g + 0 - 1 * a
        BY <3>2, <3>3, <4>1, <4>3 DEF Credited
      <4> QED BY <3>1, <4>1, <4>2, <4>4, <4>5
    <3>6. \A q \in Worker \ {p} : job[q].kind = "finalize" => job[q].id # s
      BY <2>1, <2>2 DEF VendorInv, JobsInv, OneWorker
    <3> HIDE DEF Finalize
    <3> QED BY <1>0, <2>1, <2>2, <2>3, <2>4, <3>1, <3>2, <3>4, <3>5, <3>6, StatusKeeps
  <2> QED BY <2>5, <2>6
<1>4. ASSUME NEW s \in Settlement, BeginReverse(p, s) PROVE VendorInv'
  <2>1. /\ settlement[s].status = "PAID" /\ settlement' = [settlement EXCEPT ![s].status = "REVERSED"]
        /\ Start(p, "reverse", s, 0)
        /\ UNCHANGED <<earning, withdrawal, balance, owedToVendor, heldInJournal, discharged, transfer, reports, week,
                       stale, doubled, clobbered, overtaken, lost, payoutFaults>>
    BY <1>4 DEF BeginReverse, journal, history
  <2> DEFINE work == [kind |-> "reverse", row |-> balance, id |-> s, n |-> 0]
  <2>2. /\ job' = [job EXCEPT ![p] = work] /\ jobs' \in 0..MaxJobs /\ job[p].kind = "idle"
        /\ job'[p].kind = "reverse" /\ job'[p].id = s /\ job'[p].row = balance
        /\ DOMAIN job'[p] = {"kind", "row", "id", "n"}
    BY <1>0, <2>1, StartDoes
  <2>3. work.kind \notin {"accrue", "finalize", "request", "settle", "release"} /\ job[p].kind \notin Applying
    BY <2>2 DEF Applying
  <2> HIDE DEF work
  <2>4. settlement'[s].status = "REVERSED" /\ settlement'[s].amount = settlement[s].amount /\ settlement'[s].gross = settlement[s].gross
    BY <1>0, <2>1 DEF VendorTyped, SettlementRow
  <2>5. JobKnows(p)'
    <3>1. JobTyped(p)'
      BY <1>0, <2>2 DEF JobTyped, Counting
    <3>2. JobOrders(p)' /\ JobDraws(p)'
      BY <2>2 DEF JobOrders, JobDraws, Applying
    <3>3. JobSettles(p)'
      BY <2>2, <2>4 DEF JobSettles, OnSettlement
    <3> QED BY <3>1, <3>2, <3>3 DEF JobKnows
  <2>6. owedToVendor' = owedToVendor + Pending(p) - Pending(p)' + Credited(s)' - Credited(s)
    <3>1. PICK a \in Nat, o \in Int, d \in Int : a = settlement[s].amount /\ o = owedToVendor /\ d = discharged[s] * a
      BY <1>0
    <3>2. Pending(p) = 0 /\ Pending(p)' = a
      BY <2>2, <2>4, <3>1 DEF Pending
    <3>3. PICK g \in Int : g = IF settlement[s].gross = 0 THEN a ELSE 0
      OBVIOUS
    <3>4. Credited(s) = g + 0 - d
      BY <2>1, <3>1, <3>3 DEF Credited
    <3>5. Credited(s)' = g + a - d
      BY <2>1, <2>4, <3>1, <3>3 DEF Credited
    <3> QED BY <2>1, <3>1, <3>2, <3>4, <3>5
  <2>7. \A q \in Worker \ {p} : job[q].kind = "finalize" => job[q].id # s
    BY <1>0, <2>1, OthersHold
  <2> QED BY <1>0, <2>1, <2>2, <2>3, <2>5, <2>6, <2>7, StatusKeeps
<1> QED BY <1>1, <1>2, <1>3, <1>4

\* What the orders have brought is a number.
BroughtFact == Brought \in Nat
LEMMA BroughtNow == BroughtFact
<1>1. EarnedOrders \in SUBSET VOrder
  BY DEF EarnedOrders
<1>2. Cardinality(EarnedOrders) \in Nat /\ Share \in Nat /\ Bonus \in Nat
  BY <1>1, Counts, PayoutAssumption
<1>3. PICK a \in Nat, b \in Nat : a = Cardinality(EarnedOrders) * Share
        /\ b = IF Cardinality(EarnedOrders) >= BonusAfter /\ BonusAfter > 0 THEN Bonus ELSE 0
  BY <1>2
<1> QED BY <1>3 DEF BroughtFact, Brought
LEMMA BroughtNext == BroughtFact'
  BY BroughtNow, PTL

\* The balance row is saved, with what the journal posts for it.
LEMMA SaveKeeps ==
  ASSUME VendorInv, NEW p \in Worker, Finish(p), job[p].kind \notin Applying,
         UNCHANGED <<settlement, withdrawal, discharged, heldInJournal, transfer, reports, week, jobs,
                     doubled, clobbered, overtaken, lost, payoutFaults>>,
         balance' \in BalanceRow, stale => stale', stale' \/ balance'.held = balance.held,
         earning' \in [VOrder -> {"none", "open"} \union Settlement], owedToVendor' \in Int,
         \A o \in VOrder : earning[o] # "none" => earning'[o] # "none",
         \A q \in Worker \ {p} : job[q].kind = "accrue" => earning'[job[q].id] = "none",
         GrossBook', owedToVendor' - Brought' = owedToVendor - Brought + Pending(p)
  PROVE  VendorInv'
<1>0. DOMAIN job = Worker /\ VendorTyped /\ JobsInv /\ owedToVendor \in Int
  BY DEF VendorInv, VendorTyped
<1>1. /\ job' = [job EXCEPT ![p] = IdleJob] /\ job'[p] = IdleJob /\ DOMAIN job' = Worker
      /\ \A q \in Worker \ {p} : job'[q] = job[q]
      /\ IdleJob.kind = "idle" /\ JobKnows(p)'
  BY <1>0, FinishDoes
<1>2. VendorTyped'
  BY <1>0, <1>1 DEF VendorTyped
<1>3. JobsInv'
  <2>1. \A q \in Worker \ {p} :
           /\ job[q].kind = "accrue" => earning'[job[q].id] = "none"
           /\ job[q].kind = "finalize" => settlement'[job[q].id].status \in {"READY", "FAILED"}
           /\ job[q].kind = "request" => withdrawal'[job[q].id].status = "none" /\ transfer'[<<job[q].id, 0>>] = "none"
    BY <1>0, OthersHold
  <2>2. IdleJob.kind # "accrue" /\ IdleJob.kind # "finalize" /\ IdleJob.kind # "request"
    BY <1>1
  <2> QED BY <1>0, <1>1, <2>1, <2>2, JobsKeep
<1>4. FreshRows'
  <2>1. Working("settle")' \subseteq Working("settle")
    BY <1>1 DEF Working
  <2> QED BY <2>1, FreshStays DEF VendorInv
<1>5. ReportsKnow' /\ WithdrawalsTell' /\ SettlementsTell'
  <2>1. ReportsKnow'
    BY DEF VendorInv, ReportsKnow
  <2>2. WithdrawalsTell'
    BY <1>0, <1>1, WithdrawalsStay DEF VendorInv
  <2>3. SettlementsTell'
    BY SettlementsStay DEF VendorInv
  <2> QED BY <2>1, <2>2, <2>3
<1>6. /\ HeldSum' = HeldSum /\ PostedSum' = PostedSum /\ DrawnSum' = DrawnSum /\ CreditSum' = CreditSum
      /\ (Failing' <=> Failing)
  BY DEF HeldSum, PostedSum, DrawnSum, CreditSum, OnHold, Withdrawn, Credited, Failing
<1>7. HeldBook' /\ PostedBook'
  BY <1>6 DEF VendorInv, HeldBook, PostedBook
<1>8. OwedBook'
  <2>1. CASE payoutFaults > 0 \/ Failing \/ clobbered
    BY <1>6, <2>1 DEF OwedBook
  <2>2. CASE ~(payoutFaults > 0 \/ Failing \/ clobbered)
    <3>1. owedToVendor + PendingSum = Brought + CreditSum - DrawnSum
      BY <2>2 DEF VendorInv, OwedBook
    <3>2. Pending(p)' = 0
      BY <1>1 DEF Pending
    <3>3. \A q \in Worker \ {p} : Pending(q)' = Pending(q)
      BY <1>1 DEF Pending
    <3>4. PendingSum' = PendingSum - Pending(p) + Pending(p)'
      BY <1>0, <1>2, <1>3, <3>3, OneJob
    <3>5. PICK c \in Int, g \in Int, m \in Int, d \in Int, o \in Int, o2 \in Int, b \in Int, b2 \in Int :
            /\ c = Pending(p) /\ g = PendingSum /\ m = CreditSum /\ d = DrawnSum
            /\ o = owedToVendor /\ o2 = owedToVendor' /\ b = Brought /\ b2 = Brought'
      <4>1. PendingSum \in Int /\ CreditSum \in Int /\ DrawnSum \in Int /\ Pending(p) \in Int
        BY <1>0, VendorSumsNow, TermsTyped DEF VendorSums
      <4>2. Brought \in Int /\ Brought' \in Int
        BY BroughtNow, BroughtNext DEF BroughtFact
      <4> QED BY <1>0, <4>1, <4>2
    <3>6. o2 - b2 = o - b + c /\ o + g = b + m - d
      BY <3>1, <3>5
    <3>7. owedToVendor' + PendingSum' = Brought' + CreditSum' - DrawnSum'
      BY <1>6, <3>2, <3>4, <3>5, <3>6
    <3> QED BY <3>7 DEF OwedBook
  <2> QED BY <2>1, <2>2
<1> QED BY <1>2, <1>3, <1>4, <1>5, <1>7, <1>8 DEF VendorInv

\* A save from the row that is there writes what it computes; another is stale.
LEMMA SaveDoes ==
  ASSUME NEW p, NEW row, Save(p, row)
  PROVE  balance' = row /\ (stale => stale') /\ (stale' \/ (~stale /\ job[p].row = balance))
BY DEF Save

\* A reversal, a release and a penalty reach the row.
LEMMA DebtsKeep ==
  ASSUME VendorInv, NEW p \in Worker, Reverse(p) \/ Release(p) \/ Penalty(p)
  PROVE  VendorInv'
<1>0. /\ VendorTyped /\ DOMAIN job = Worker /\ JobKnows(p) /\ JobsInv
      /\ job[p].row \in BalanceRow /\ balance \in BalanceRow /\ owedToVendor \in Int /\ Brought \in Int
      /\ \A s \in Settlement : settlement[s].amount \in Nat
  <2>1. VendorTyped /\ JobsInv
    BY DEF VendorInv
  <2> QED BY <2>1, BroughtNow DEF VendorTyped, JobsInv, JobKnows, JobTyped, SettlementRow, BroughtFact
<1>1. ASSUME NEW row \in BalanceRow, Save(p, row), row.held = job[p].row.held, row.bonus = job[p].row.bonus,
             job[p].kind \in {"reverse", "release", "penalty"}, Finish(p),
             UNCHANGED <<rowVars, discharged, heldInJournal, transfer, reports, week, jobs,
                         doubled, clobbered, overtaken, lost, payoutFaults>>,
             owedToVendor' = owedToVendor + Pending(p), Pending(p) \in Int
      PROVE  VendorInv'
  <2>1. balance' = row /\ (stale => stale') /\ (stale' \/ (~stale /\ job[p].row = balance))
    BY <1>1, SaveDoes
  <2>2. /\ UNCHANGED <<earning, settlement, withdrawal, discharged, heldInJournal, transfer, reports, week, jobs,
                       doubled, clobbered, overtaken, lost, payoutFaults>>
        /\ job[p].kind \notin Applying
    BY <1>1 DEF rowVars, Applying
  <2>3. GrossBook'
    <3>1. GrossSum' = GrossSum /\ Brought' = Brought /\ Unsettled' = Unsettled
      BY <2>2 DEF GrossSum, Brought, EarnedOrders, Unsettled
    <3>2. stale' \/ (~stale /\ balance'.bonus = balance.bonus)
      BY <1>1, <2>1
    <3> QED BY <2>2, <3>1, <3>2 DEF VendorInv, GrossBook
  <2>4. Brought' = Brought /\ owedToVendor' \in Int /\ owedToVendor' - Brought' = owedToVendor - Brought + Pending(p)
    <3>1. Brought' = Brought
      BY <2>2 DEF Brought, EarnedOrders
    <3>2. PICK b \in Int, o \in Int, c \in Int : b = Brought /\ o = owedToVendor /\ c = Pending(p)
      BY <1>0, <1>1
    <3> QED BY <1>1, <3>1, <3>2
  <2>5. stale' \/ balance'.held = balance.held
    BY <1>1, <2>1
  <2>6. \A q \in Worker \ {p} : job[q].kind = "accrue" => earning'[job[q].id] = "none"
    BY <1>0, <2>2, OthersHold
  <2>7. earning' \in [VOrder -> {"none", "open"} \union Settlement]
    BY <1>0, <2>2 DEF VendorTyped
  <2> QED BY <1>0, <1>1, <2>1, <2>2, <2>3, <2>4, <2>5, <2>6, <2>7, SaveKeeps
<1>2. ASSUME Reverse(p) PROVE VendorInv'
  <2>1. /\ job[p].kind = "reverse" /\ Finish(p)
        /\ Save(p, [job[p].row EXCEPT !.owed = @ + settlement[job[p].id].amount])
        /\ owedToVendor' = owedToVendor + settlement[job[p].id].amount
        /\ UNCHANGED <<rowVars, discharged, heldInJournal, transfer, reports, week, jobs,
                       doubled, clobbered, overtaken, lost, payoutFaults>>
    BY <1>2 DEF Reverse, Doing
  <2>2. PICK a \in Nat : a = settlement[job[p].id].amount
    BY <1>0, <2>1 DEF JobKnows, JobSettles, OnSettlement
  <2>3. PICK row : row = [job[p].row EXCEPT !.owed = @ + a]
    OBVIOUS
  <2>4. row \in BalanceRow /\ row.held = job[p].row.held /\ row.bonus = job[p].row.bonus
    BY <1>0, <2>3 DEF BalanceRow
  <2>5. Save(p, row) /\ Pending(p) = a
    BY <2>1, <2>2, <2>3 DEF Pending
  <2> QED BY <1>1, <2>1, <2>2, <2>4, <2>5
<1>3. ASSUME Release(p) PROVE VendorInv'
  <2>1. /\ job[p].kind = "release" /\ Finish(p)
        /\ Save(p, [job[p].row EXCEPT !.reserve = @ - job[p].n])
        /\ owedToVendor' = owedToVendor + job[p].n
        /\ UNCHANGED <<rowVars, discharged, heldInJournal, transfer, reports, week, jobs,
                       doubled, clobbered, overtaken, lost, payoutFaults>>
    BY <1>3 DEF Release, Doing
  <2>2. PICK a \in Nat : a = job[p].n
    BY <1>0, <2>1 DEF JobKnows, JobTyped, Counting
  <2>3. PICK row : row = [job[p].row EXCEPT !.reserve = @ - a]
    OBVIOUS
  <2>4. row \in BalanceRow /\ row.held = job[p].row.held /\ row.bonus = job[p].row.bonus
    BY <1>0, <2>3 DEF BalanceRow
  <2>5. Save(p, row) /\ Pending(p) = a
    BY <2>1, <2>2, <2>3 DEF Pending
  <2> QED BY <1>1, <2>1, <2>2, <2>4, <2>5
<1>4. ASSUME Penalty(p) PROVE VendorInv'
  <2>1. /\ job[p].kind = "penalty" /\ Finish(p)
        /\ Save(p, [job[p].row EXCEPT !.owed = @ + job[p].n]) /\ owedToVendor' = owedToVendor
        /\ UNCHANGED <<rowVars, discharged, heldInJournal, transfer, reports, week, jobs,
                       doubled, clobbered, overtaken, lost, payoutFaults>>
    BY <1>4 DEF Penalty, Doing, journal
  <2>2. PICK a \in Nat : a = job[p].n
    BY <1>0, <2>1 DEF JobKnows, JobTyped, Counting
  <2>3. PICK row : row = [job[p].row EXCEPT !.owed = @ + a]
    OBVIOUS
  <2>4. row \in BalanceRow /\ row.held = job[p].row.held /\ row.bonus = job[p].row.bonus
    BY <1>0, <2>3 DEF BalanceRow
  <2>5. Save(p, row) /\ Pending(p) = 0 /\ owedToVendor' = owedToVendor + 0
    BY <1>0, <2>1, <2>2, <2>3 DEF Pending
  <2> QED BY <1>1, <2>1, <2>4, <2>5
<1> QED BY <1>2, <1>3, <1>4

\* An order's earning is made.
LEMMA AccrueKeeps ==
  ASSUME VendorInv, NEW p \in Worker, Accrue(p)
  PROVE  VendorInv'
<1>0. /\ VendorTyped /\ DOMAIN job = Worker /\ JobKnows(p) /\ JobsInv
      /\ job[p].row \in BalanceRow /\ balance \in BalanceRow /\ owedToVendor \in Int
      /\ earning \in [VOrder -> {"none", "open"} \union Settlement] /\ "none" \notin Settlement /\ "open" \notin Settlement
      /\ Share \in Nat /\ Bonus \in Nat /\ BonusAfter \in Nat
  <2>1. VendorTyped /\ JobsInv
    BY DEF VendorInv
  <2> QED BY <2>1, PayoutAssumption DEF VendorTyped, JobsInv, JobKnows, JobTyped
<1>1. PICK b \in Nat : /\ b = IF Cardinality(EarnedOrders) + 1 = BonusAfter THEN Bonus ELSE 0
                       /\ Save(p, [job[p].row EXCEPT !.accrued = @ + Share, !.bonus = @ + b])
                       /\ owedToVendor' = owedToVendor + Share + b
  BY <1>0 DEF Accrue
<1>2. /\ job[p].kind = "accrue" /\ Finish(p) /\ earning' = [earning EXCEPT ![job[p].id] = "open"]
      /\ UNCHANGED <<settlement, withdrawal, heldInJournal, discharged, transfer, reports, week, jobs,
                     doubled, clobbered, overtaken, lost, payoutFaults>>
  BY DEF Accrue, Doing
<1>3. PICK o \in VOrder : o = job[p].id /\ earning[o] = "none"
  BY <1>0, <1>2 DEF JobKnows, JobOrders
<1>4. /\ earning' \in [VOrder -> {"none", "open"} \union Settlement]
      /\ earning'[o] = "open" /\ \A x \in VOrder \ {o} : earning'[x] = earning[x]
  BY <1>0, <1>2, <1>3
<1>5. EarnedOrders' = EarnedOrders \union {o} /\ o \notin EarnedOrders /\ Unsettled' = Unsettled \union {o} /\ o \notin Unsettled
  BY <1>3, <1>4 DEF EarnedOrders, Unsettled
<1>6. /\ Cardinality(EarnedOrders') = Cardinality(EarnedOrders) + 1 /\ Cardinality(EarnedOrders) \in Nat
      /\ Cardinality(Unsettled') = Cardinality(Unsettled) + 1 /\ Cardinality(Unsettled) \in Nat
  <2>1. EarnedOrders \in SUBSET VOrder /\ Unsettled \in SUBSET VOrder
    BY DEF EarnedOrders, Unsettled
  <2>2. IsFiniteSet(EarnedOrders) /\ IsFiniteSet(Unsettled) /\ Cardinality(EarnedOrders) \in Nat /\ Cardinality(Unsettled) \in Nat
    BY <2>1, Counts
  <2> HIDE DEF EarnedOrders, Unsettled
  <2> QED BY <1>5, <2>2, FS_AddElement
<1>7. Brought' = Brought + Share + b /\ Brought \in Nat
  <2>1. PICK c \in Nat : c = Cardinality(EarnedOrders)
    BY <1>6
  <2>2. PICK v \in Nat, u \in Nat : /\ v = IF c >= BonusAfter /\ BonusAfter > 0 THEN Bonus ELSE 0
                                   /\ u = IF c + 1 >= BonusAfter /\ BonusAfter > 0 THEN Bonus ELSE 0
    BY <1>0
  <2>3. u = v + b
    BY <1>0, <1>1, <2>1, <2>2
  <2>4. PICK m \in Nat : m = c * Share
    BY <1>0
  <2>5. (c + 1) * Share = m + Share
    BY <1>0, <2>4
  <2>6. Brought = m + v
    BY <2>1, <2>2, <2>4 DEF Brought
  <2>7. Brought' = m + Share + u
    BY <1>6, <2>1, <2>2, <2>5 DEF Brought
  <2> QED BY <1>0, <2>3, <2>6, <2>7
<1>8. PICK row : row = [job[p].row EXCEPT !.accrued = @ + Share, !.bonus = @ + b]
  OBVIOUS
<1>9. row \in BalanceRow /\ row.held = job[p].row.held /\ row.bonus = job[p].row.bonus + b /\ job[p].row.bonus \in Nat
  <2>1. PICK old \in BalanceRow : old = job[p].row
    BY <1>0
  <2>2. old.accrued \in Int /\ old.bonus \in Nat
    BY DEF BalanceRow
  <2>3. PICK x \in Int : x = old.accrued + Share
    BY <1>0, <2>2
  <2>4. PICK y \in Nat : y = old.bonus + b
    BY <1>0, <2>2
  <2>5. row = [old EXCEPT !.accrued = x, !.bonus = y]
    BY <1>8, <2>1, <2>3, <2>4
  <2>6. row \in BalanceRow
    BY <2>5 DEF BalanceRow
  <2>7. row.held = old.held
    BY <2>5 DEF BalanceRow
  <2>8. row.bonus = y
    BY <2>5 DEF BalanceRow
  <2> QED BY <2>1, <2>2, <2>4, <2>6, <2>7, <2>8
<1>10. balance' = row /\ (stale => stale') /\ (stale' \/ (~stale /\ job[p].row = balance))
  BY <1>1, <1>8, SaveDoes
<1>11. GrossBook'
  <2>1. CASE doubled \/ stale'
    BY <1>2, <2>1 DEF GrossBook
  <2>2. CASE ~(doubled \/ stale')
    <3>1. GrossSum + Cardinality(Unsettled) * Share + balance.bonus = Brought
      BY <1>10, <2>2 DEF VendorInv, GrossBook
    <3>2. GrossSum' = GrossSum /\ GrossSum \in Nat
      BY <1>0, <1>2, VendorSumsNow DEF GrossSum, VendorSums
    <3>3. balance'.bonus = balance.bonus + b /\ balance.bonus \in Nat
      BY <1>9, <1>10, <2>2
    <3>4. PICK u \in Nat, m \in Nat : u = Cardinality(Unsettled) /\ m = u * Share
      BY <1>0, <1>6
    <3>5. Cardinality(Unsettled') * Share = m + Share
      <4>1. (u + 1) * Share = m + Share
        BY <1>0, <3>4
      <4> QED BY <1>6, <3>4, <4>1
    <3>6. GrossSum' + Cardinality(Unsettled') * Share + balance'.bonus = Brought'
      <4>1. PICK g \in Int, h \in Int, r \in Int : g = GrossSum /\ h = balance.bonus /\ r = Brought
        BY <1>7, <3>2, <3>3
      <4>2. g + m + h = r
        BY <3>1, <3>4, <4>1
      <4>3. GrossSum' = g /\ balance'.bonus = h + b /\ Brought' = r + Share + b
        BY <1>7, <3>2, <3>3, <4>1
      <4> QED BY <1>0, <3>5, <4>2, <4>3
    <3> QED BY <3>6 DEF GrossBook
  <2> QED BY <2>1, <2>2
<1>12. owedToVendor' - Brought' = owedToVendor - Brought + Pending(p) /\ owedToVendor' \in Int
  <2>1. Pending(p) = 0
    BY <1>2 DEF Pending
  <2>2. PICK x \in Int, y \in Int : x = owedToVendor /\ y = Brought
    BY <1>0, <1>7
  <2> QED BY <1>0, <1>1, <1>7, <2>1, <2>2
<1>13. \A q \in Worker \ {p} : job[q].kind = "accrue" => earning'[job[q].id] = "none"
  <2> TAKE q \in Worker \ {p}
  <2>1. ASSUME job[q].kind = "accrue" PROVE earning'[job[q].id] = "none"
    <3>1. job[q].id \in VOrder /\ earning[job[q].id] = "none"
      BY <1>0, <2>1, OthersHold
    <3>2. job[q].id # o
      BY <1>2, <1>3, <2>1 DEF VendorInv, JobsInv, OneWorker
    <3> QED BY <1>4, <3>1, <3>2
  <2> QED BY <2>1
<1>14. stale' \/ balance'.held = balance.held
  BY <1>9, <1>10
<1>15. \A x \in VOrder : earning[x] # "none" => earning'[x] # "none"
  BY <1>4
<1>16. job[p].kind \notin Applying
  BY <1>2 DEF Applying
<1> QED BY <1>2, <1>4, <1>9, <1>10, <1>11, <1>12, <1>13, <1>14, <1>15, <1>16, SaveKeeps

\* A settlement's row is made.
LEMMA FreshKeeps ==
  ASSUME VendorInv, NEW p \in Worker, NEW work, job' = [job EXCEPT ![p] = work], JobKnows(p)',
         NEW s \in Unmade, NEW row \in SettlementRow, row.status = "READY", settlement' = [settlement EXCEPT ![s] = row],
         UNCHANGED <<withdrawal, discharged, heldInJournal, owedToVendor, transfer, reports, week,
                     clobbered, overtaken, lost, payoutFaults>>,
         jobs' \in 0..MaxJobs, balance' \in BalanceRow, stale => stale', doubled => doubled', stale' \/ balance'.held = balance.held,
         earning' \in [VOrder -> {"none", "open"} \union Settlement],
         \A o \in VOrder : earning'[o] = "none" <=> earning[o] = "none",
         work.kind \notin {"accrue", "finalize", "request"}, job[p].kind \notin Applying,
         Cardinality(Working("settle")') < Cardinality(Unmade),
         Pending(p)' - Pending(p) = IF row.gross = 0 THEN row.amount ELSE 0,
         stale' \/ doubled' \/ row.gross + Cardinality(Unsettled') * Share + balance'.bonus = Cardinality(Unsettled) * Share + balance.bonus
  PROVE  VendorInv'
<1>0. /\ DOMAIN job = Worker /\ VendorTyped /\ JobsInv /\ owedToVendor \in Int /\ s \in Settlement
      /\ settlement[s] = NoRow /\ discharged[s] = 0 /\ settlement[s].status = "none"
  BY DEF VendorInv, VendorTyped, FreshRows, Unmade
<1>1. job'[p] = work /\ DOMAIN job' = Worker /\ \A q \in Worker \ {p} : job'[q] = job[q]
  BY <1>0
<1>2. /\ settlement' \in [Settlement -> SettlementRow] /\ settlement'[s] = row
      /\ \A r \in Settlement \ {s} : settlement'[r] = settlement[r]
  BY <1>0 DEF VendorTyped
<1>3. VendorTyped'
  BY <1>0, <1>1, <1>2 DEF VendorTyped
<1>4. JobsInv'
  <2>1. \A r \in Settlement : settlement[r].status # "none" =>
           settlement'[r].status # "none" /\ settlement'[r].amount = settlement[r].amount
    BY <1>0, <1>2
  <2>2. \A q \in Worker \ {p} :
           /\ job[q].kind = "accrue" => earning'[job[q].id] = "none"
           /\ job[q].kind = "finalize" => settlement'[job[q].id].status \in {"READY", "FAILED"}
           /\ job[q].kind = "request" => withdrawal'[job[q].id].status = "none" /\ transfer'[<<job[q].id, 0>>] = "none"
    BY <1>0, <1>2, OthersHold
  <2>3. work.kind # "accrue" /\ work.kind # "finalize" /\ work.kind # "request"
    OBVIOUS
  <2> QED BY <1>0, <2>1, <2>2, <2>3, JobsKeep
<1>5. FreshRows'
  <2>1. Unmade' = Unmade \ {s}
    BY <1>0, <1>2 DEF Unmade
  <2>2. Cardinality(Unmade') = Cardinality(Unmade) - 1
    BY <2>1, Counts, FS_RemoveElement
  <2>3. Cardinality(Working("settle")') \in Nat
    <3>1. Working("settle")' \in SUBSET Worker
      BY DEF Working
    <3> HIDE DEF Working
    <3> QED BY <3>1, Counts
  <2>4. Cardinality(Working("settle")') <= Cardinality(Unmade')
    BY <2>2, <2>3, Counts
  <2>5. \A r \in Settlement : settlement'[r].status = "none" => settlement'[r] = NoRow /\ discharged'[r] = 0
    BY <1>2 DEF VendorInv, FreshRows
  <2> QED BY <2>4, <2>5 DEF FreshRows
<1>6. ReportsKnow'
  BY DEF VendorInv, ReportsKnow
<1>7. WithdrawalsTell'
  BY <1>0, <1>1, WithdrawalsStay DEF VendorInv
<1>8. SettlementsTell'
  <2>1. \A r \in Settlement : Through(r)' <=> Through(r)
    BY DEF Through
  <2>2. settlement'[s].status = "READY" /\ discharged'[s] = 0
    BY <1>0, <1>2
  <2> QED BY <1>2, <2>1, <2>2 DEF VendorInv, SettlementsTell
<1>9. /\ GrossSum' = GrossSum + row.gross /\ GrossSum \in Nat /\ row.gross \in Nat /\ row.amount \in Nat
      /\ CreditSum' = CreditSum + (IF row.gross = 0 THEN row.amount ELSE 0) /\ CreditSum \in Int
      /\ PendingSum' = PendingSum + (IF row.gross = 0 THEN row.amount ELSE 0) /\ PendingSum \in Int
      /\ HeldSum \in Nat /\ DrawnSum \in Nat
  <2>1. \A r \in Settlement \ {s} : settlement'[r] = settlement[r] /\ discharged'[r] = discharged[r]
    BY <1>2
  <2>2. GrossSum' = GrossSum - settlement[s].gross + settlement'[s].gross /\ CreditSum' = CreditSum - Credited(s) + Credited(s)'
    BY <1>0, <1>3, <1>4, <2>1, OneSettlement
  <2>3. GrossSum \in Nat /\ CreditSum \in Int /\ PendingSum \in Int /\ DrawnSum \in Nat /\ HeldSum \in Nat
    BY <1>0, VendorSumsNow DEF VendorSums
  <2>4. row.gross \in Nat /\ row.amount \in Nat
    BY DEF SettlementRow
  <2>5. settlement[s].gross = 0 /\ settlement[s].amount = 0
    BY <1>0 DEF NoRow
  <2>6. PICK g \in Nat : g = IF row.gross = 0 THEN row.amount ELSE 0
    BY <2>4
  <2>7. Credited(s) = 0
    BY <1>0, <2>5 DEF Credited
  <2>8. Credited(s)' = g
    <3>1. Credited(s)' = g + 0 - 0 * row.amount
      BY <1>0, <1>2, <2>6 DEF Credited
    <3> QED BY <2>4, <3>1
  <2>9. \A q \in Worker \ {p} : Pending(q)' = Pending(q)
    <3> TAKE q \in Worker \ {p}
    <3>1. job'[q] = job[q] /\ (job[q].kind = "reverse" => job[q].id \in Settlement /\ settlement[job[q].id].status # "none")
      BY <1>0, <1>1 DEF JobsInv, JobKnows, JobSettles, OnSettlement
    <3>2. job[q].kind = "reverse" => settlement'[job[q].id] = settlement[job[q].id]
      BY <1>0, <1>2, <3>1
    <3> QED BY <3>1, <3>2 DEF Pending
  <2>10. PendingSum' = PendingSum - Pending(p) + Pending(p)' /\ Pending(p) \in Int /\ Pending(p)' \in Int
    BY <1>0, <1>3, <1>4, <2>9, OneJob, TermsNow, TermsNext DEF TermsFact
  <2>11. PendingSum' = PendingSum + g
    <3>1. PICK a \in Int, b \in Int : a = Pending(p) /\ b = Pending(p)'
      BY <2>10
    <3>2. b - a = g
      BY <2>6, <3>1
    <3> QED BY <2>3, <2>10, <3>1, <3>2
  <2> QED BY <1>2, <2>2, <2>3, <2>4, <2>5, <2>6, <2>7, <2>8, <2>11
<1>10. /\ HeldSum' = HeldSum /\ PostedSum' = PostedSum /\ DrawnSum' = DrawnSum /\ Brought' = Brought
       /\ (Failing' <=> Failing) /\ Brought \in Int
  <2>1. EarnedOrders' = EarnedOrders
    BY DEF EarnedOrders
  <2> QED BY <2>1, BroughtNow DEF HeldSum, PostedSum, DrawnSum, OnHold, Withdrawn, Brought, Failing, BroughtFact
<1>11. HeldBook' /\ PostedBook'
  BY <1>10 DEF VendorInv, HeldBook, PostedBook
<1>12. GrossBook'
  <2>1. CASE stale' \/ doubled'
    BY <2>1 DEF GrossBook
  <2>2. CASE ~(stale' \/ doubled')
    <3>1. GrossSum + Cardinality(Unsettled) * Share + balance.bonus = Brought
      BY <2>2 DEF VendorInv, GrossBook
    <3>2. PICK a \in Int, b \in Int, c \in Nat, d \in Nat : /\ a = Cardinality(Unsettled) * Share /\ b = Cardinality(Unsettled') * Share
                                                         /\ c = balance.bonus /\ d = balance'.bonus
      <4>1. Unsettled \in SUBSET VOrder /\ Unsettled' \in SUBSET VOrder
        BY DEF Unsettled
      <4>2. Cardinality(Unsettled) \in Nat /\ Cardinality(Unsettled') \in Nat /\ Share \in Nat
        <5> HIDE DEF Unsettled
        <5> QED BY <4>1, Counts, PayoutAssumption
      <4>3. balance.bonus \in Nat /\ balance'.bonus \in Nat
        BY <1>0 DEF VendorTyped, BalanceRow
      <4> QED BY <4>2, <4>3
    <3>3. row.gross + b + d = a + c
      BY <2>2, <3>2
    <3>4. GrossSum + a + c = Brought
      BY <3>1, <3>2
    <3>5. PICK g \in Int, h \in Int, v \in Int : g = GrossSum /\ h = row.gross /\ v = Brought
      BY <1>9, <1>10
    <3>6. GrossSum' = g + h /\ Brought' = v
      BY <1>9, <1>10, <3>5
    <3>7. h + b + d = a + c /\ g + a + c = v
      BY <3>3, <3>4, <3>5
    <3>8. (g + h) + b + d = v
      BY <3>7
    <3> QED BY <3>2, <3>6, <3>8 DEF GrossBook
  <2> QED BY <2>1, <2>2
<1>13. OwedBook'
  <2>1. CASE payoutFaults > 0 \/ Failing \/ clobbered
    BY <1>10, <2>1 DEF OwedBook
  <2>2. CASE ~(payoutFaults > 0 \/ Failing \/ clobbered)
    <3>1. owedToVendor + PendingSum = Brought + CreditSum - DrawnSum
      BY <2>2 DEF VendorInv, OwedBook
    <3>2. PICK g \in Nat : g = IF row.gross = 0 THEN row.amount ELSE 0
      BY <1>9
    <3>3. CreditSum' = CreditSum + g /\ PendingSum' = PendingSum + g
      BY <1>9, <3>2
    <3>4. PICK c \in Int, q \in Int, d \in Int, o \in Int, b \in Int :
            c = CreditSum /\ q = PendingSum /\ d = DrawnSum /\ o = owedToVendor /\ b = Brought
      BY <1>0, <1>9, <1>10
    <3>5. o + (q + g) = b + (c + g) - d
      BY <3>1, <3>4
    <3>6. owedToVendor' + PendingSum' = Brought' + CreditSum' - DrawnSum'
      BY <1>10, <3>3, <3>4, <3>5
    <3> QED BY <3>6 DEF OwedBook
  <2> QED BY <2>1, <2>2
<1> QED BY <1>3, <1>4, <1>5, <1>6, <1>7, <1>8, <1>11, <1>12, <1>13 DEF VendorInv

\* A reserve is released.
LEMMA ReleaseKeeps ==
  ASSUME VendorInv, NEW p \in Worker, NEW n \in Amount, BeginRelease(p, n)
  PROVE  VendorInv'
<1>0. /\ VendorTyped /\ DOMAIN job = Worker /\ balance \in BalanceRow /\ n \in Nat /\ week \in Nat
      /\ earning \in [VOrder -> {"none", "open"} \union Settlement]
  BY PayoutAssumption DEF VendorInv, VendorTyped
<1>1. /\ settlement' = [settlement EXCEPT ![FreshId] = [status |-> "READY", amount |-> n, gross |-> 0, cycle |-> week]]
      /\ FreeIds > 0 /\ Start(p, "release", "none", n)
      /\ UNCHANGED <<earning, withdrawal, balance, owedToVendor, heldInJournal, discharged, transfer, reports, week,
                     stale, doubled, clobbered, overtaken, lost, payoutFaults>>
  BY DEF BeginRelease, journal, history
<1> DEFINE work == [kind |-> "release", row |-> balance, id |-> "none", n |-> n]
           W == Working("settle")
           R == Working("settle") \union Working("release")
<1>2. /\ job' = [job EXCEPT ![p] = work] /\ jobs' \in 0..MaxJobs /\ job[p].kind = "idle"
      /\ job'[p].kind = "release" /\ job'[p].n = n /\ job'[p].row = balance
      /\ DOMAIN job'[p] = {"kind", "row", "id", "n"}
  BY <1>0, <1>1, StartDoes
<1>3. work.kind = "release" /\ job'[p] = work
  BY <1>0, <1>2
<1> HIDE DEF work
<1>4. Cardinality(W) < Cardinality(Unmade)
  <2>1. W \in SUBSET R /\ R \in SUBSET Worker
    BY DEF Working
  <2>2. FreeIds = Cardinality(Unmade) - Cardinality(R)
    BY DEF FreeIds, Unmade
  <2> HIDE DEF W, R
  <2>3. Cardinality(W) <= Cardinality(R) /\ Cardinality(R) \in Nat /\ Cardinality(W) \in Nat
    BY <2>1, Counts, FS_Subset, FS_CardinalityType
  <2> QED BY <1>1, <2>2, <2>3, Counts
<1>5. FreshId \in Unmade
  <2>1. Cardinality(W) \in Nat
    <3>1. W \in SUBSET Worker
      BY DEF Working
    <3> HIDE DEF W
    <3> QED BY <3>1, Counts
  <2>2. Unmade # {}
    BY <1>4, <2>1, FS_EmptySet
  <2> QED BY <2>2 DEF Unmade, FreshId
<1>6. Working("settle")' \subseteq W /\ W \subseteq Working("settle")'
  BY <1>0, <1>2, <1>3 DEF Working
<1>7. Cardinality(Working("settle")') < Cardinality(Unmade)
  <2>1. Working("settle")' = W
    BY <1>6
  <2> HIDE DEF W, Working
  <2> QED BY <1>4, <2>1
<1>8. JobKnows(p)'
  <2>1. JobTyped(p)'
    BY <1>0, <1>2 DEF JobTyped
  <2>2. JobOrders(p)' /\ JobSettles(p)' /\ JobDraws(p)'
    BY <1>2 DEF JobOrders, JobSettles, JobDraws, OnSettlement, Applying
  <2> QED BY <2>1, <2>2 DEF JobKnows
<1> DEFINE row == [status |-> "READY", amount |-> n, gross |-> 0, cycle |-> week]
<1>9. row \in SettlementRow /\ row.status = "READY" /\ row.gross = 0 /\ row.amount = n
  BY <1>0 DEF SettlementRow, SettlementStatus
<1>10. Pending(p) = 0 /\ Pending(p)' = n
  BY <1>2 DEF Pending
<1>11. settlement' = [settlement EXCEPT ![FreshId] = row]
  BY <1>1
<1> HIDE DEF row, W, R
<1>12. row.gross + Cardinality(Unsettled') * Share + balance'.bonus = Cardinality(Unsettled) * Share + balance.bonus
  <2>1. Unsettled' = Unsettled
    BY <1>1 DEF Unsettled
  <2>2. Unsettled \in SUBSET VOrder
    BY DEF Unsettled
  <2>3. Cardinality(Unsettled) \in Nat /\ Share \in Nat /\ balance.bonus \in Nat
    <3>1. Cardinality(Unsettled) \in Nat
      <4> HIDE DEF Unsettled
      <4> QED BY <2>2, Counts
    <3> QED BY <1>0, <3>1, PayoutAssumption DEF BalanceRow
  <2>4. PICK a \in Nat, b \in Nat : a = Cardinality(Unsettled) * Share /\ b = balance.bonus
    BY <2>3
  <2> QED BY <1>1, <1>9, <2>1, <2>4
<1>13. Pending(p)' - Pending(p) = IF row.gross = 0 THEN row.amount ELSE 0
  BY <1>0, <1>9, <1>10
<1>14. work.kind \notin {"accrue", "finalize", "request"} /\ job[p].kind \notin Applying
  BY <1>2, <1>3 DEF Applying
<1> QED BY <1>0, <1>1, <1>2, <1>5, <1>7, <1>8, <1>9, <1>11, <1>12, <1>13, <1>14, FreshKeeps

\* A cycle's plan takes of the debt what there is, and pays what the reserve leaves.
LEMMA PlanIs ==
  ASSUME NEW gross \in Nat, NEW owed \in Nat
  PROVE  /\ Plan(gross, owed).debt \in Nat /\ owed - Plan(gross, owed).debt \in Nat
         /\ Plan(gross, owed).reserve \in Nat /\ Plan(gross, owed).payout \in Nat
         /\ Plan(gross, owed).eligible \in BOOLEAN /\ (Plan(gross, owed).eligible => gross > 0)
<1>1. PICK d \in Nat : d = Lesser(owed, gross) /\ d <= owed /\ d <= gross
  BY DEF Lesser
<1>2. PICK net \in Nat : net = gross - d
  BY <1>1
<1>3. PICK r \in Nat : r = ReservePct /\ r <= 100
  BY PayoutAssumption
<1>4. PICK k \in Nat : k = net * r
  BY <1>3
<1>5. k <= net * 100
  BY <1>3, <1>4
<1>6. PICK v \in Nat : v = (k + 50) \div 100 /\ v <= net
  BY <1>5
<1>7. MinSettlement \in Nat /\ MinSettlement > 0
  BY PayoutAssumption
<1>8. /\ Plan(gross, owed).debt = d /\ Plan(gross, owed).reserve = v /\ Plan(gross, owed).payout = net - v
      /\ Plan(gross, owed).eligible = (net >= MinSettlement)
  <2>1. Lesser(owed, gross) = d /\ gross - d = net /\ (net * ReservePct + 50) \div 100 = v
    BY <1>1, <1>2, <1>3, <1>4, <1>6
  <2>2. Plan(gross, owed) = [debt |-> d, eligible |-> net >= MinSettlement, reserve |-> v, payout |-> net - v]
    BY <2>1, Zenon DEF Plan
  <2>3. PICK b : b = (net >= MinSettlement)
    OBVIOUS
  <2>4. Plan(gross, owed) = [debt |-> d, eligible |-> b, reserve |-> v, payout |-> net - v]
    BY <2>2, <2>3, Zenon
  <2>5. Plan(gross, owed).debt = d /\ Plan(gross, owed).reserve = v /\ Plan(gross, owed).payout = net - v
        /\ Plan(gross, owed).eligible = b
    BY <2>4
  <2> QED BY <2>3, <2>5, Zenon
<1>9. Plan(gross, owed).eligible \in BOOLEAN /\ (Plan(gross, owed).eligible => net >= MinSettlement)
  <2>1. (net >= MinSettlement) \in BOOLEAN
    BY <1>7
  <2> QED BY <1>8, <2>1, Zenon
<1>10. net >= MinSettlement => gross > 0
  BY <1>1, <1>2, <1>7
<1>11. owed - d \in Nat /\ net - v \in Nat
  BY <1>1, <1>6
<1> QED BY <1>6, <1>8, <1>9, <1>10, <1>11, Zenon

\* A cycle is settled.
LEMMA SettleKeeps ==
  ASSUME VendorInv, NEW p \in Worker, Settle(p)
  PROVE  VendorInv'
<1>0. /\ VendorTyped /\ DOMAIN job = Worker /\ JobKnows(p) /\ JobsInv
      /\ job[p].row \in BalanceRow /\ balance \in BalanceRow /\ jobs \in 0..MaxJobs /\ week \in 1..MaxCycle
      /\ earning \in [VOrder -> {"none", "open"} \union Settlement] /\ "none" \notin Settlement /\ "open" \notin Settlement
      /\ Share \in Nat
  <2>1. VendorTyped /\ JobsInv
    BY DEF VendorInv
  <2> QED BY <2>1, PayoutAssumption DEF VendorTyped, JobsInv, JobKnows, JobTyped
<1>1. /\ job[p].kind = "settle" /\ Finish(p)
      /\ UNCHANGED <<journal, transfer, reports, week, jobs, clobbered, overtaken, lost, payoutFaults>>
  BY DEF Settle, Doing
<1>2. PICK O \in SUBSET VOrder, n \in Nat : O = job[p].id /\ n = job[p].n /\ \A o \in O : earning[o] # "none"
  BY <1>0, <1>1 DEF JobKnows, JobOrders, JobTyped, Counting
<1>3. PICK old \in BalanceRow : old = job[p].row
  BY <1>0
<1>4. old.bonus \in Nat /\ old.owed \in Nat /\ old.reserve \in Int /\ Cardinality(O) \in Nat /\ IsFiniteSet(O)
  BY Counts DEF BalanceRow
<1>5. PICK m \in Nat, gross \in Nat : m = Cardinality(O) * Share /\ gross = m + old.bonus
  BY <1>0, <1>4
<1>6. gross = Cardinality(job[p].id) * Share + job[p].row.bonus
  BY <1>2, <1>3, <1>5
<1>7. PICK debt \in Nat, reserve \in Nat, paid \in Nat, eligible \in BOOLEAN :
        /\ debt = Plan(gross, old.owed).debt /\ reserve = Plan(gross, old.owed).reserve
        /\ paid = Plan(gross, old.owed).payout /\ eligible = Plan(gross, old.owed).eligible
        /\ old.owed - debt \in Nat /\ (eligible => gross > 0)
  BY <1>4, PlanIs
<1>8. /\ job' = [job EXCEPT ![p] = IdleJob] /\ job'[p] = IdleJob /\ IdleJob.kind = "idle" /\ JobKnows(p)'
      /\ \A q \in Worker \ {p} : job'[q] = job[q]
  BY <1>0, <1>1, FinishDoes
<1>9. job[p].kind \notin Applying \union {"release", "reverse"}
      /\ IdleJob.kind \notin {"accrue", "finalize", "request", "settle", "release", "reverse"}
  BY <1>1, <1>8 DEF Applying
<1>10. CASE ~eligible
  <2>1. UNCHANGED <<rowVars, balance, stale, doubled>>
    BY <1>3, <1>6, <1>7, <1>10 DEF Settle
  <2>2. UNCHANGED <<rowVars, balance, journal, transfer, reports, history>>
    BY <1>1, <2>1 DEF history
  <2> QED BY <1>0, <1>1, <1>8, <1>9, <2>2, TurnKeeps
<1>11. CASE eligible
  <2>1. PICK row : row = [old EXCEPT !.owed = @ - debt, !.reserve = @ + reserve, !.bonus = 0]
    OBVIOUS
  <2>2. /\ settlement' = [settlement EXCEPT ![FreshId] = [status |-> "READY", amount |-> paid, gross |-> gross, cycle |-> n]]
        /\ earning' = Swept(O, FreshId) /\ withdrawal' = withdrawal /\ Save(p, row)
        /\ doubled' = (doubled \/ \E o \in O : earning[o] # "open")
    BY <1>2, <1>3, <1>6, <1>7, <1>11, <2>1 DEF Settle
  <2>3. row \in BalanceRow /\ row.held = old.held /\ row.bonus = 0
    <3>1. PICK a \in Nat, b \in Int : a = old.owed - debt /\ b = old.reserve + reserve
      BY <1>4, <1>7
    <3>2. row = [old EXCEPT !.owed = a, !.reserve = b, !.bonus = 0]
      BY <2>1, <3>1
    <3>3. row \in BalanceRow
      BY <3>2 DEF BalanceRow
    <3>4. row.held = old.held
      BY <3>2 DEF BalanceRow
    <3>5. row.bonus = 0
      BY <3>2 DEF BalanceRow
    <3> QED BY <3>3, <3>4, <3>5
  <2>4. balance' = row /\ (stale => stale') /\ (stale' \/ (~stale /\ old = balance))
    BY <1>3, <2>2, SaveDoes
  <2> DEFINE W == Working("settle")
  <2>5. Cardinality(Working("settle")') < Cardinality(Unmade) /\ Unmade # {}
    <3>1. W \in SUBSET Worker /\ p \in W
      BY <1>1 DEF Working
    <3>2. Working("settle")' \subseteq W \ {p}
      BY <1>8 DEF Working
    <3>3. Cardinality(W) <= Cardinality(Unmade)
      BY DEF VendorInv, FreshRows
    <3> HIDE DEF W, Working
    <3>4. Cardinality(W \ {p}) = Cardinality(W) - 1 /\ Cardinality(W) \in Nat /\ IsFiniteSet(W \ {p})
      BY <3>1, Counts, FS_RemoveElement
    <3>5. Cardinality(Working("settle")') <= Cardinality(W \ {p}) /\ Cardinality(Working("settle")') \in Nat
      BY <3>2, <3>4, FS_Subset, FS_CardinalityType
    <3>6. Cardinality(Unmade) \in Nat /\ Cardinality(Working("settle")') < Cardinality(Unmade)
      BY <3>3, <3>4, <3>5, Counts
    <3> QED BY <3>5, <3>6, FS_EmptySet
  <2>6. FreshId \in Unmade
    BY <2>5 DEF Unmade, FreshId
  <2> DEFINE new == [status |-> "READY", amount |-> paid, gross |-> gross, cycle |-> n]
  <2>7. new \in SettlementRow /\ new.status = "READY" /\ new.gross = gross /\ gross # 0 /\ settlement' = [settlement EXCEPT ![FreshId] = new]
    BY <1>7, <1>11, <2>2 DEF SettlementRow, SettlementStatus
  <2> HIDE DEF new, W
  <2>8. PICK s \in Settlement : s = FreshId
    BY <2>6 DEF Unmade
  <2>9. /\ earning' \in [VOrder -> {"none", "open"} \union Settlement]
        /\ \A o \in VOrder : earning'[o] = IF o \in O THEN s ELSE earning[o]
    BY <1>0, <2>2, <2>8 DEF Swept
  <2>10. \A o \in VOrder : earning'[o] = "none" <=> earning[o] = "none"
    BY <1>0, <1>2, <2>8, <2>9
  <2>11. stale' \/ doubled' \/ gross + Cardinality(Unsettled') * Share + balance'.bonus = Cardinality(Unsettled) * Share + balance.bonus
    <3> SUFFICES ASSUME ~stale', ~doubled'
                 PROVE  gross + Cardinality(Unsettled') * Share + balance'.bonus = Cardinality(Unsettled) * Share + balance.bonus
      OBVIOUS
    <3>1. \A o \in O : earning[o] = "open"
      BY <2>2
    <3>2. Unsettled' = Unsettled \ O /\ O \in SUBSET Unsettled /\ Unsettled \in SUBSET VOrder
      BY <1>0, <2>8, <2>9, <3>1 DEF Unsettled
    <3>3. Cardinality(Unsettled') = Cardinality(Unsettled) - Cardinality(O) /\ Cardinality(Unsettled) \in Nat
      <4> HIDE DEF Unsettled
      <4>1. IsFiniteSet(Unsettled) /\ Unsettled \intersect O = O
        BY <3>2, Counts
      <4> QED BY <3>2, <4>1, Counts, FS_Difference
    <3>4. PICK u \in Int, c \in Int, a \in Int : u = Cardinality(Unsettled) /\ c = Cardinality(O) /\ a = u * Share
      BY <1>0, <1>4, <3>3
    <3>5. (u - c) * Share = a - m
      BY <1>0, <1>4, <1>5, <3>4
    <3>6. Cardinality(Unsettled') * Share = a - m
      BY <3>3, <3>4, <3>5
    <3>7. balance'.bonus = 0 /\ balance.bonus = old.bonus
      BY <2>3, <2>4
    <3>8. PICK b \in Nat : b = old.bonus
      BY <1>4
    <3>9. gross + (a - m) + 0 = a + b
      BY <1>5, <3>8
    <3> QED BY <3>4, <3>6, <3>7, <3>8, <3>9
  <2>12. Pending(p)' - Pending(p) = IF new.gross = 0 THEN new.amount ELSE 0
    <3>1. Pending(p) = 0 /\ Pending(p)' = 0
      BY <1>1, <1>8 DEF Pending
    <3> QED BY <2>7, <3>1
  <2>13. /\ UNCHANGED <<withdrawal, discharged, heldInJournal, owedToVendor, transfer, reports, week,
                        clobbered, overtaken, lost, payoutFaults>>
         /\ jobs' \in 0..MaxJobs /\ (doubled => doubled')
    BY <1>0, <1>1, <2>2 DEF journal
  <2>14. balance' \in BalanceRow /\ (stale' \/ balance'.held = balance.held)
    BY <2>3, <2>4
  <2>15. stale' \/ doubled' \/ new.gross + Cardinality(Unsettled') * Share + balance'.bonus = Cardinality(Unsettled) * Share + balance.bonus
    BY <2>7, <2>11
  <2> HIDE DEF Swept, Settle
  <2> QED BY <1>8, <1>9, <2>4, <2>5, <2>6, <2>7, <2>9, <2>10, <2>12, <2>13, <2>14, <2>15, FreshKeeps
<1> QED BY <1>10, <1>11

\* A withdrawal's row is written.
LEMMA DrawKeeps ==
  ASSUME VendorInv, NEW p \in Worker, Finish(p), job[p].kind \in {"request"} \union Applying,
         NEW w \in Withdrawal, NEW row \in WithdrawalRow, row.status # "none", withdrawal' = [withdrawal EXCEPT ![w] = row],
         job[p].kind = "request" \/ withdrawal[w].status # "none",
         job[p].kind = "request" => job[p].id = w,
         UNCHANGED <<earning, settlement, discharged, week, jobs, doubled, clobbered, overtaken>>,
         transfer' \in [Transfer -> {"none", "pending", "success", "failed"}], reports' \subseteq Transfer \X BOOLEAN,
         lost' \subseteq Transfer, payoutFaults' \in 0..MaxPayoutFaults, payoutFaults > 0 => payoutFaults' > 0,
         \A t \in Transfer : transfer[t] # "none" => transfer'[t] = transfer[t],
         \A t \in Transfer \ {<<w, 0>>} : transfer'[t] = transfer[t],
         ReportsKnow', WithdrawalsTell',
         balance' \in BalanceRow, stale => stale', stale' \/ balance'.bonus = balance.bonus,
         stale' \/ balance'.held = balance.held - OnHold(w, Fee) + OnHold(w, Fee)',
         owedToVendor' \in Int, heldInJournal' \in Int,
         Failing => Failing',
         Failing' \/ heldInJournal' = heldInJournal - OnHold(w, 0) + OnHold(w, 0)',
         Failing' \/ owedToVendor' = owedToVendor + Withdrawn(w) - Withdrawn(w)'
  PROVE  VendorInv'
<1>0. /\ DOMAIN job = Worker /\ VendorTyped /\ JobsInv /\ owedToVendor \in Int /\ heldInJournal \in Int
      /\ balance \in BalanceRow /\ <<w, 0>> \in Transfer
  BY DEF VendorInv, VendorTyped, Transfer, WithdrawalTransfer
<1>1. /\ job' = [job EXCEPT ![p] = IdleJob] /\ job'[p] = IdleJob /\ DOMAIN job' = Worker
      /\ \A q \in Worker \ {p} : job'[q] = job[q]
      /\ IdleJob.kind = "idle" /\ JobKnows(p)'
  BY <1>0, FinishDoes
<1>2. /\ withdrawal' \in [Withdrawal -> WithdrawalRow] /\ withdrawal'[w] = row
      /\ \A v \in Withdrawal \ {w} : withdrawal'[v] = withdrawal[v]
  BY <1>0 DEF VendorTyped
<1>3. VendorTyped'
  BY <1>0, <1>1, <1>2 DEF VendorTyped
<1>4. JobsInv'
  <2>1. \A v \in Withdrawal : withdrawal[v].status # "none" => withdrawal'[v].status # "none"
    BY <1>2
  <2>2. \A q \in Worker \ {p} : job[q].kind = "request" => withdrawal'[job[q].id].status = "none" /\ transfer'[<<job[q].id, 0>>] = "none"
    <3> TAKE q \in Worker \ {p}
    <3>1. ASSUME job[q].kind = "request" PROVE withdrawal'[job[q].id].status = "none" /\ transfer'[<<job[q].id, 0>>] = "none"
      <4>1. /\ job[q].id \in Withdrawal /\ withdrawal[job[q].id].status = "none"
            /\ transfer[<<job[q].id, 0>>] = "none" /\ <<job[q].id, 0>> \in Transfer
        BY <1>0, <3>1, OthersHold
      <4>2. job[p].kind # "request"
        BY <3>1 DEF VendorInv, JobsInv, OneWorker
      <4>3. job[q].id # w
        BY <4>1, <4>2
      <4>4. <<job[q].id, 0>> # <<w, 0>>
        BY <4>3
      <4> QED BY <1>2, <4>1, <4>3, <4>4
    <3> QED BY <3>1
  <2>3. \A q \in Worker \ {p} :
           /\ job[q].kind = "accrue" => earning'[job[q].id] = "none"
           /\ job[q].kind = "finalize" => settlement'[job[q].id].status \in {"READY", "FAILED"}
    BY <1>0, OthersHold
  <2>4. IdleJob.kind # "accrue" /\ IdleJob.kind # "finalize" /\ IdleJob.kind # "request"
    BY <1>1
  <2>5. \A t \in Transfer : transfer[t] \in {"success", "failed"} => transfer'[t] = transfer[t]
    OBVIOUS
  <2> QED BY <1>0, <1>1, <2>1, <2>2, <2>3, <2>4, <2>5, JobsKeep
<1>5. FreshRows'
  <2>1. Working("settle")' \subseteq Working("settle")
    BY <1>1 DEF Working
  <2> QED BY <2>1, FreshStays DEF VendorInv
<1>6. SettlementsTell'
  BY SettlementsStay DEF VendorInv
<1>7. /\ HeldSum' = HeldSum - OnHold(w, Fee) + OnHold(w, Fee)'
      /\ PostedSum' = PostedSum - OnHold(w, 0) + OnHold(w, 0)'
      /\ DrawnSum' = DrawnSum - Withdrawn(w) + Withdrawn(w)'
      /\ GrossSum' = GrossSum /\ CreditSum' = CreditSum /\ PendingSum' = PendingSum /\ Brought' = Brought /\ Unsettled' = Unsettled
  <2>1. \A q \in Worker : Pending(q)' = Pending(q)
    <3>1. Pending(p) = 0 /\ Pending(p)' = 0
      BY <1>1 DEF Pending, Applying
    <3>2. \A q \in Worker \ {p} : Pending(q)' = Pending(q)
      BY <1>1 DEF Pending
    <3> QED BY <3>1, <3>2
  <2>2. PendingSum' = PendingSum
    BY <2>1 DEF PendingSum
  <2>3. GrossSum' = GrossSum /\ CreditSum' = CreditSum /\ Brought' = Brought /\ Unsettled' = Unsettled
    BY DEF GrossSum, CreditSum, Credited, Brought, EarnedOrders, Unsettled
  <2>4. /\ HeldSum' = HeldSum - OnHold(w, Fee) + OnHold(w, Fee)'
        /\ PostedSum' = PostedSum - OnHold(w, 0) + OnHold(w, 0)'
        /\ DrawnSum' = DrawnSum - Withdrawn(w) + Withdrawn(w)'
    BY <1>0, <1>2, <1>3, <1>4, OneWithdrawal
  <2> QED BY <2>2, <2>3, <2>4
<1>8. /\ HeldSum \in Int /\ PostedSum \in Int /\ DrawnSum \in Int /\ CreditSum \in Int /\ PendingSum \in Int /\ Brought \in Int
      /\ OnHold(w, Fee) \in Int /\ OnHold(w, 0) \in Int /\ Withdrawn(w) \in Int
      /\ OnHold(w, Fee)' \in Int /\ OnHold(w, 0)' \in Int /\ Withdrawn(w)' \in Int
  <2>1. HeldSum \in Int /\ PostedSum \in Int /\ DrawnSum \in Int /\ CreditSum \in Int /\ PendingSum \in Int
    BY <1>0, VendorSumsNow DEF VendorSums
  <2>2. /\ OnHold(w, Fee) \in Int /\ OnHold(w, 0) \in Int /\ Withdrawn(w) \in Int
        /\ OnHold(w, Fee)' \in Int /\ OnHold(w, 0)' \in Int /\ Withdrawn(w)' \in Int
    BY <1>0, <1>3, <1>4, TermsNow, TermsNext DEF TermsFact
  <2> QED BY <2>1, <2>2, BroughtNow DEF BroughtFact
<1>9. GrossBook'
  <2>1. GrossBook
    BY DEF VendorInv
  <2> QED BY <1>7, <2>1 DEF GrossBook
<1>10. HeldBook'
  <2>1. stale \/ balance.held = HeldSum
    BY DEF VendorInv, HeldBook
  <2> QED BY <1>7, <2>1 DEF HeldBook
<1>11. PostedBook'
  <2>1. heldInJournal = PostedSum \/ payoutFaults > 0 \/ Failing
    BY DEF VendorInv, PostedBook
  <2> QED BY <1>7, <2>1 DEF PostedBook
<1>12. OwedBook'
  <2>1. CASE payoutFaults' > 0 \/ Failing' \/ clobbered'
    BY <2>1 DEF OwedBook
  <2>2. CASE ~(payoutFaults' > 0 \/ Failing' \/ clobbered')
    <3>1. owedToVendor + PendingSum = Brought + CreditSum - DrawnSum
      BY <2>2 DEF VendorInv, OwedBook
    <3>2. PICK o \in Int, g \in Int, b \in Int, c \in Int, d \in Int, x \in Int, y \in Int :
            /\ o = owedToVendor /\ g = PendingSum /\ b = Brought /\ c = CreditSum /\ d = DrawnSum
            /\ x = Withdrawn(w) /\ y = Withdrawn(w)'
      BY <1>0, <1>8
    <3>3. owedToVendor' = o + x - y /\ DrawnSum' = d - x + y
      BY <1>7, <2>2, <3>2
    <3>4. o + g = b + c - d
      BY <3>1, <3>2
    <3>5. (o + x - y) + g = b + c - (d - x + y)
      BY <3>4
    <3> QED BY <1>7, <3>2, <3>3, <3>5 DEF OwedBook
  <2> QED BY <2>1, <2>2
<1> QED BY <1>3, <1>4, <1>5, <1>6, <1>9, <1>10, <1>11, <1>12 DEF VendorInv

\* A withdrawal is called, and its row says what the call answered.
LEMMA CallKeeps ==
  ASSUME VendorInv, NEW p \in Worker, CallWithdrawal(p)
  PROVE  VendorInv'
<1>0. /\ VendorTyped /\ DOMAIN job = Worker /\ JobKnows(p) /\ JobsInv /\ ReportsKnow /\ WithdrawalsTell
      /\ balance \in BalanceRow /\ owedToVendor \in Int /\ heldInJournal \in Int /\ Fee \in Nat
      /\ \A v \in Withdrawal : <<v, 0>> \in Transfer
  BY PayoutAssumption DEF VendorInv, VendorTyped, JobsInv, Transfer, WithdrawalTransfer
<1>1. /\ job[p].kind = "request" /\ Finish(p)
      /\ UNCHANGED <<earning, settlement, discharged, week, jobs, stale, doubled, clobbered, overtaken>>
  BY DEF CallWithdrawal, Doing
<1>2. PICK w \in Withdrawal, n \in Nat : w = job[p].id /\ n = job[p].n /\ withdrawal[w].status = "none" /\ transfer[<<w, 0>>] = "none"
  BY <1>0, <1>1 DEF JobKnows, JobDraws, JobTyped, Counting
<1>3. PICK answer \in {"success", "pending", "error"}, legs \in {PaidLegs(n), [payable |-> 0, held |-> 0], FailedLegs(n)} :
        /\ CallTransfer(<<w, 0>>, answer)
        /\ withdrawal' = [withdrawal EXCEPT ![w] = [NoRow EXCEPT !.amount = n, !.status = StatusAfter(answer)]]
        /\ balance' = CASE answer = "success" -> [balance EXCEPT !.paidOut = @ + (n + Fee)]
                        [] answer = "pending" -> [balance EXCEPT !.held = @ + (n + Fee)]
                        [] answer = "error"   -> balance
        /\ legs = CASE answer = "success" -> PaidLegs(n)
                    [] answer = "pending" -> [payable |-> 0, held |-> 0]
                    [] answer = "error"   -> FailedLegs(n)
        /\ owedToVendor' = owedToVendor - (n + Fee) + legs.payable
        /\ heldInJournal' = heldInJournal + n + legs.held
  <2>1. PICK answer \in {"success", "pending", "error"} :
          /\ CallTransfer(<<w, 0>>, answer)
          /\ withdrawal' = [withdrawal EXCEPT ![w] = [NoRow EXCEPT !.amount = n, !.status = StatusAfter(answer)]]
          /\ balance' = CASE answer = "success" -> [balance EXCEPT !.paidOut = @ + (n + Fee)]
                          [] answer = "pending" -> [balance EXCEPT !.held = @ + (n + Fee)]
                          [] answer = "error"   -> balance
          /\ LET legs == CASE answer = "success" -> PaidLegs(n)
                           [] answer = "pending" -> [payable |-> 0, held |-> 0]
                           [] answer = "error"   -> FailedLegs(n)
             IN /\ owedToVendor' = owedToVendor - (n + Fee) + legs.payable
                /\ heldInJournal' = heldInJournal + n + legs.held
    BY <1>2, Zenon DEF CallWithdrawal
  <2> DEFINE legs == CASE answer = "success" -> PaidLegs(n)
                       [] answer = "pending" -> [payable |-> 0, held |-> 0]
                       [] answer = "error"   -> FailedLegs(n)
  <2>2. legs \in {PaidLegs(n), [payable |-> 0, held |-> 0], FailedLegs(n)}
    <3>1. CASE answer = "success"
      <4>1. answer # "pending" /\ answer # "error"
        BY <3>1
      <4>2. legs = PaidLegs(n)
        BY <3>1, <4>1, Zenon
      <4> QED BY <4>2, Zenon
    <3>2. CASE answer = "pending"
      <4>1. answer # "success" /\ answer # "error"
        BY <3>2
      <4>2. legs = [payable |-> 0, held |-> 0]
        BY <3>2, <4>1, Zenon
      <4> QED BY <4>2, Zenon
    <3>3. CASE answer = "error"
      <4>1. answer # "success" /\ answer # "pending"
        BY <3>3
      <4>2. legs = FailedLegs(n)
        BY <3>3, <4>1, Zenon
      <4> QED BY <4>2, Zenon
    <3> QED BY <3>1, <3>2, <3>3, Zenon
  <2> QED BY <2>1, <2>2, Zenon
<1> DEFINE row == [NoRow EXCEPT !.amount = n, !.status = StatusAfter(answer)]
           t == <<w, 0>>
<1>4. t \in Transfer /\ transfer[t] = "none" /\ CallTransfer(t, answer)
  BY <1>0, <1>2, <1>3
<1> HIDE DEF t
<1>5. /\ transfer' \in [Transfer -> {"none", "pending", "success", "failed"}] /\ ReportsKnow'
      /\ reports \subseteq reports' /\ reports' \subseteq Transfer \X BOOLEAN /\ lost \subseteq lost' /\ lost' \subseteq Transfer
      /\ payoutFaults' \in 0..MaxPayoutFaults /\ (payoutFaults > 0 => payoutFaults' > 0)
      /\ \A u \in Transfer : transfer[u] # "none" => transfer'[u] = transfer[u]
      /\ \A u \in Transfer \ {t} : transfer'[u] = transfer[u]
      /\ answer = "success" => transfer'[t] = "success"
      /\ answer = "pending" => transfer'[t] = "pending"
      /\ answer = "error" => transfer'[t] = transfer[t] \/ (transfer'[t] = "pending" /\ t \in lost')
  BY <1>0, <1>4, CallDoes
<1>6. /\ answer = "success" => /\ StatusAfter(answer) = "PAID" /\ legs = PaidLegs(n)
                               /\ balance' = [balance EXCEPT !.paidOut = @ + (n + Fee)]
      /\ answer = "pending" => /\ StatusAfter(answer) = "PROCESSING" /\ legs = [payable |-> 0, held |-> 0]
                               /\ balance' = [balance EXCEPT !.held = @ + (n + Fee)]
      /\ answer = "error" => /\ StatusAfter(answer) = "FAILED" /\ legs = FailedLegs(n) /\ balance' = balance
  <2>1. ASSUME answer = "success"
        PROVE  StatusAfter(answer) = "PAID" /\ legs = PaidLegs(n) /\ balance' = [balance EXCEPT !.paidOut = @ + (n + Fee)]
    <3>1. answer # "pending" /\ answer # "error"
      BY <2>1
    <3>2. StatusAfter(answer) = "PAID"
      BY <2>1, <3>1, Zenon DEF StatusAfter
    <3>3. legs = PaidLegs(n) /\ balance' = [balance EXCEPT !.paidOut = @ + (n + Fee)]
      BY <1>3, <2>1, <3>1, Zenon
    <3> QED BY <3>2, <3>3
  <2>2. ASSUME answer = "pending"
        PROVE  /\ StatusAfter(answer) = "PROCESSING" /\ legs = [payable |-> 0, held |-> 0]
               /\ balance' = [balance EXCEPT !.held = @ + (n + Fee)]
    <3>1. answer # "success" /\ answer # "error"
      BY <2>2
    <3>2. StatusAfter(answer) = "PROCESSING"
      BY <2>2, <3>1, Zenon DEF StatusAfter
    <3>3. legs = [payable |-> 0, held |-> 0] /\ balance' = [balance EXCEPT !.held = @ + (n + Fee)]
      BY <1>3, <2>2, <3>1, Zenon
    <3> QED BY <3>2, <3>3
  <2>3. ASSUME answer = "error"
        PROVE  StatusAfter(answer) = "FAILED" /\ legs = FailedLegs(n) /\ balance' = balance
    <3>1. answer # "success" /\ answer # "pending"
      BY <2>3
    <3>2. StatusAfter(answer) = "FAILED"
      BY <2>3, <3>1, Zenon DEF StatusAfter
    <3>3. legs = FailedLegs(n) /\ balance' = balance
      BY <1>3, <2>3, <3>1, Zenon
    <3> QED BY <3>2, <3>3
  <2> QED BY <2>1, <2>2, <2>3
<1>7. /\ row \in WithdrawalRow /\ row.status = StatusAfter(answer) /\ row.amount = n /\ StatusAfter(answer) # "none"
      /\ withdrawal' = [withdrawal EXCEPT ![w] = row]
  <2>1. StatusAfter(answer) \in {"PAID", "PROCESSING", "FAILED"}
    BY <1>6
  <2> HIDE DEF StatusAfter
  <2> QED BY <1>3, <2>1 DEF NoRow, WithdrawalRow, WithdrawalStatus
<1>8. withdrawal'[w] = row /\ \A v \in Withdrawal \ {w} : withdrawal'[v] = withdrawal[v]
  BY <1>0, <1>7 DEF VendorTyped
<1> HIDE DEF row
<1>9. OnHold(w, Fee) = 0 /\ OnHold(w, 0) = 0 /\ Withdrawn(w) = 0
  BY <1>2 DEF OnHold, Withdrawn
<1>10. WithdrawalsTell'
  <2> SUFFICES ASSUME NEW v \in Withdrawal
               PROVE  /\ withdrawal'[v].status = "PAID" => transfer'[<<v, 0>>] = "success"
                      /\ withdrawal'[v].status = "FAILED" => transfer'[<<v, 0>>] \in {"none", "failed"} \/ <<v, 0>> \in lost'
                      /\ withdrawal'[v].status = "PROCESSING" /\ transfer'[<<v, 0>>] # "pending" =>
                           \/ \E ok \in BOOLEAN : <<<<v, 0>>, ok>> \in reports'
                           \/ \E q \in Worker : job'[q].kind \in Applying /\ job'[q].id = v
                           \/ overtaken'
    BY DEF WithdrawalsTell
  <2>1. CASE v = w
    BY <1>4, <1>5, <1>6, <1>7, <1>8, <2>1 DEF t
  <2>2. CASE v # w
    <3>1. <<v, 0>> \in Transfer \ {t} /\ transfer'[<<v, 0>>] = transfer[<<v, 0>>]
      BY <1>0, <1>5, <2>2 DEF t
    <3>2. \A q \in Worker : job[q].kind \in Applying => job'[q] = job[q]
      BY <1>0, <1>1, FinishDoes DEF Applying
    <3>3. /\ withdrawal[v].status = "PAID" => transfer[<<v, 0>>] = "success"
          /\ withdrawal[v].status = "FAILED" => transfer[<<v, 0>>] \in {"none", "failed"} \/ <<v, 0>> \in lost
          /\ withdrawal[v].status = "PROCESSING" /\ transfer[<<v, 0>>] # "pending" =>
               \/ \E ok \in BOOLEAN : <<<<v, 0>>, ok>> \in reports
               \/ \E q \in Worker : job[q].kind \in Applying /\ job[q].id = v
               \/ overtaken
      BY <1>0 DEF WithdrawalsTell
    <3>4. withdrawal'[v] = withdrawal[v]
      BY <1>8, <2>2
    <3> QED BY <1>1, <1>5, <3>1, <3>2, <3>3, <3>4
  <2> QED BY <2>1, <2>2
<1>11. /\ balance' \in BalanceRow /\ balance'.bonus = balance.bonus
       /\ balance'.held = balance.held - OnHold(w, Fee) + OnHold(w, Fee)'
       /\ owedToVendor' \in Int /\ heldInJournal' \in Int
       /\ Failing' \/ heldInJournal' = heldInJournal - OnHold(w, 0) + OnHold(w, 0)'
       /\ Failing' \/ owedToVendor' = owedToVendor + Withdrawn(w) - Withdrawn(w)'
  <2>1. PICK a \in Int, b \in Int, x \in Int, y \in Int :
          a = balance.paidOut + (n + Fee) /\ b = balance.held + (n + Fee) /\ x = owedToVendor /\ y = heldInJournal
    BY <1>0 DEF BalanceRow
  <2>2. CASE answer = "success"
    <3>1. balance' = [balance EXCEPT !.paidOut = a] /\ legs.payable = 0 /\ legs.held = 0 - n
      BY <1>6, <2>1, <2>2 DEF PaidLegs
    <3>2. balance' \in BalanceRow /\ balance'.bonus = balance.bonus /\ balance'.held = balance.held /\ balance.held \in Int
      BY <1>0, <3>1 DEF BalanceRow
    <3>3. OnHold(w, Fee)' = 0 /\ OnHold(w, 0)' = 0 /\ Withdrawn(w)' = n + Fee
      BY <1>6, <1>7, <1>8, <2>2 DEF OnHold, Withdrawn
    <3>4. owedToVendor' = x - (n + Fee) + 0 /\ heldInJournal' = y + n + (0 - n)
      BY <1>3, <2>1, <3>1
    <3> QED BY <1>0, <1>9, <2>1, <3>2, <3>3, <3>4
  <2>3. CASE answer = "pending"
    <3>1. balance' = [balance EXCEPT !.held = b] /\ legs.payable = 0 /\ legs.held = 0
      BY <1>6, <2>1, <2>3
    <3>2. balance' \in BalanceRow /\ balance'.bonus = balance.bonus /\ balance'.held = b /\ balance.held \in Int
      BY <1>0, <3>1 DEF BalanceRow
    <3>3. OnHold(w, Fee)' = n + Fee /\ OnHold(w, 0)' = n + 0 /\ Withdrawn(w)' = n + Fee
      BY <1>6, <1>7, <1>8, <2>3 DEF OnHold, Withdrawn
    <3>4. owedToVendor' = x - (n + Fee) + 0 /\ heldInJournal' = y + n + 0
      BY <1>3, <2>1, <3>1
    <3> QED BY <1>0, <1>9, <2>1, <3>2, <3>3, <3>4
  <2>4. CASE answer = "error"
    <3>1. balance' = balance /\ legs.payable = 0 - (n + Fee) /\ legs.held = n
      BY <1>6, <2>4 DEF FailedLegs
    <3>2. Failing' /\ OnHold(w, Fee)' = 0
      BY <1>6, <1>7, <1>8, <2>4 DEF Failing, OnHold
    <3>3. owedToVendor' = x - (n + Fee) + (0 - (n + Fee)) /\ heldInJournal' = y + n + n
      BY <1>3, <2>1, <3>1
    <3>4. balance.held \in Int
      BY <1>0 DEF BalanceRow
    <3> QED BY <1>0, <1>9, <3>1, <3>2, <3>3, <3>4
  <2> QED BY <2>2, <2>3, <2>4
<1>12. Failing => Failing'
  <2>1. ASSUME NEW v \in Withdrawal, withdrawal[v].status = "FAILED" PROVE withdrawal'[v].status = "FAILED"
    BY <1>2, <1>8, <2>1
  <2> QED BY <2>1 DEF Failing
<1>13. (stale => stale') /\ (stale' \/ balance'.bonus = balance.bonus)
       /\ (stale' \/ balance'.held = balance.held - OnHold(w, Fee) + OnHold(w, Fee)') /\ row.status # "none"
       /\ (\A u \in Transfer \ {<<w, 0>>} : transfer'[u] = transfer[u])
  BY <1>1, <1>5, <1>7, <1>11 DEF t
<1> QED BY <1>1, <1>2, <1>5, <1>7, <1>10, <1>11, <1>12, <1>13, DrawKeeps

\* A withdrawal's result is applied.
LEMMA ApplyKeeps ==
  ASSUME VendorInv, NEW p \in Worker, ApplyWithdrawal(p)
  PROVE  VendorInv'
<1>0. /\ VendorTyped /\ DOMAIN job = Worker /\ JobKnows(p) /\ JobsInv /\ ReportsKnow /\ WithdrawalsTell
      /\ balance \in BalanceRow /\ owedToVendor \in Int /\ heldInJournal \in Int /\ Fee \in Nat
      /\ transfer \in [Transfer -> {"none", "pending", "success", "failed"}] /\ reports \subseteq Transfer \X BOOLEAN
      /\ lost \subseteq Transfer /\ payoutFaults \in 0..MaxPayoutFaults /\ job[p].row \in BalanceRow
  BY PayoutAssumption DEF VendorInv, VendorTyped, JobsInv, JobKnows, JobTyped
<1>1. /\ job[p].kind \in Applying /\ Finish(p)
      /\ UNCHANGED <<earning, settlement, discharged, transfer, reports, week, jobs,
                     doubled, clobbered, overtaken, lost, payoutFaults>>
  BY DEF ApplyWithdrawal, Applying
<1>2. PICK w \in Withdrawal : /\ w = job[p].id /\ withdrawal[w].status # "none"
                              /\ (job[p].kind = "applyPaid" => transfer[<<w, 0>>] = "success")
                              /\ (job[p].kind = "applyFailed" => transfer[<<w, 0>>] = "failed")
  BY <1>0, <1>1 DEF JobKnows, JobDraws
<1>3. /\ job' = [job EXCEPT ![p] = IdleJob] /\ IdleJob.kind = "idle" /\ JobKnows(p)' /\ DOMAIN job' = Worker
      /\ \A q \in Worker \ {p} : job'[q] = job[q]
  BY <1>0, <1>1, FinishDoes
<1>4. \A v \in Withdrawal :
        /\ withdrawal[v].status = "PAID" => transfer[<<v, 0>>] = "success"
        /\ withdrawal[v].status = "FAILED" => transfer[<<v, 0>>] \in {"none", "failed"} \/ <<v, 0>> \in lost
        /\ v # w /\ withdrawal[v].status = "PROCESSING" /\ transfer[<<v, 0>>] # "pending" =>
             \/ \E ok \in BOOLEAN : <<<<v, 0>>, ok>> \in reports
             \/ \E q \in Worker : job'[q].kind \in Applying /\ job'[q].id = v
             \/ overtaken
  <2> TAKE v \in Withdrawal
  <2>1. /\ withdrawal[v].status = "PAID" => transfer[<<v, 0>>] = "success"
        /\ withdrawal[v].status = "FAILED" => transfer[<<v, 0>>] \in {"none", "failed"} \/ <<v, 0>> \in lost
        /\ withdrawal[v].status = "PROCESSING" /\ transfer[<<v, 0>>] # "pending" =>
             \/ \E ok \in BOOLEAN : <<<<v, 0>>, ok>> \in reports
             \/ \E q \in Worker : job[q].kind \in Applying /\ job[q].id = v
             \/ overtaken
    BY <1>0 DEF WithdrawalsTell
  <2>2. v # w => \A q \in Worker : job[q].kind \in Applying /\ job[q].id = v => job'[q] = job[q]
    BY <1>2, <1>3
  <2>3. v # w => ((\E q \in Worker : job[q].kind \in Applying /\ job[q].id = v) =>
                    \E q \in Worker : job'[q].kind \in Applying /\ job'[q].id = v)
    BY <2>2
  <2> QED BY <2>1, <2>3
<1>5. CASE withdrawal[w].status # "PROCESSING"
  <2>1. UNCHANGED <<withdrawal, balance, stale, owedToVendor, heldInJournal>>
    BY <1>2, <1>5 DEF ApplyWithdrawal
  <2>2. VendorTyped'
    BY <1>0, <1>1, <1>3, <2>1 DEF VendorTyped
  <2>3. ReportsKnow'
    BY <1>0, <1>1 DEF ReportsKnow
  <2>4. WithdrawalsTell'
    BY <1>1, <1>4, <1>5, <2>1 DEF WithdrawalsTell
  <2>5. UNCHANGED <<rowVars, balance, journal, stale, doubled, clobbered>>
    BY <1>1, <2>1 DEF rowVars, journal
  <2>6. IdleJob.kind \notin {"accrue", "finalize", "request", "settle", "release", "reverse"} /\ job[p].kind \notin {"release", "reverse"}
    BY <1>1, <1>3 DEF Applying
  <2> QED BY <1>1, <1>3, <2>2, <2>3, <2>4, <2>5, <2>6, SendKeeps
<1>6. CASE withdrawal[w].status = "PROCESSING"
  <2>1. PICK n \in Nat, total \in Nat : n = withdrawal[w].amount /\ total = n + Fee
    BY <1>0 DEF VendorTyped, WithdrawalRow
  <2>2. PICK paid \in BOOLEAN : paid = (job[p].kind = "applyPaid")
    OBVIOUS
  <2>3. PICK legs : legs = IF paid THEN PaidLegs(n) ELSE FailedLegs(n)
    OBVIOUS
  <2>4. /\ withdrawal' = [withdrawal EXCEPT ![w].status = IF paid THEN "PAID" ELSE "FAILED"]
        /\ Save(p, ResultRow(job[p].row, total, paid))
        /\ owedToVendor' = owedToVendor + legs.payable
        /\ heldInJournal' = heldInJournal + legs.held
    BY <1>2, <1>6, <2>1, <2>2, <2>3 DEF ApplyWithdrawal, Doing
  <2>5. PICK row : row = [withdrawal[w] EXCEPT !.status = IF paid THEN "PAID" ELSE "FAILED"]
    OBVIOUS
  <2>6. /\ row \in WithdrawalRow /\ row.amount = n /\ row.status = (IF paid THEN "PAID" ELSE "FAILED") /\ row.status # "none"
        /\ withdrawal' = [withdrawal EXCEPT ![w] = row]
    BY <1>0, <2>1, <2>4, <2>5 DEF VendorTyped, WithdrawalRow, WithdrawalStatus
  <2>7. withdrawal'[w] = row /\ \A v \in Withdrawal \ {w} : withdrawal'[v] = withdrawal[v]
    BY <1>0, <2>6 DEF VendorTyped
  <2>8. /\ OnHold(w, Fee) = total /\ OnHold(w, 0) = n /\ Withdrawn(w) = total
        /\ OnHold(w, Fee)' = 0 /\ OnHold(w, 0)' = 0
    BY <1>6, <2>1, <2>6, <2>7 DEF OnHold, Withdrawn
  <2>9. HeldSum \in Nat /\ total <= HeldSum
    <3> DEFINE f == [v \in Withdrawal |-> OnHold(v, Fee)]
    <3>1. \A v \in Withdrawal : f[v] \in Nat
      BY <1>0, TermsTyped
    <3>2. f[w] = total /\ HeldSum = SumFunctionOnSet(f, Withdrawal)
      BY <2>8 DEF HeldSum
    <3>3. IsFiniteSet(Withdrawal)
      BY PayoutAssumption
    <3> HIDE DEF f
    <3>4. f[w] <= SumFunctionOnSet(f, Withdrawal)
      BY <3>1, <3>3, SumBounds
    <3> QED BY <1>0, <3>2, <3>4, VendorSumsNow DEF VendorSums
  <2>10. PICK old \in BalanceRow : old = job[p].row
    BY <1>0
  <2>11. PICK h \in Int, g \in Int : h = Floor0(old.held - total) /\ g = IF paid THEN old.paidOut + total ELSE old.paidOut
    BY DEF Floor0, BalanceRow
  <2>12. PICK new : new = [old EXCEPT !.held = h, !.paidOut = g]
    OBVIOUS
  <2>13. new \in BalanceRow /\ new.bonus = old.bonus /\ new.held = h
    <3>1. new \in BalanceRow
      BY <2>12 DEF BalanceRow
    <3>2. new.bonus = old.bonus
      BY <2>12 DEF BalanceRow
    <3>3. new.held = h
      BY <2>12 DEF BalanceRow
    <3> QED BY <3>1, <3>2, <3>3
  <2>14. Save(p, new)
    <3>1. ResultRow(old, total, paid) = new
      BY <2>11, <2>12 DEF ResultRow, BalanceRow
    <3> QED BY <2>4, <2>10, <3>1
  <2>15. balance' = new /\ (stale => stale') /\ (stale' \/ (~stale /\ old = balance))
    BY <2>10, <2>14, SaveDoes
  <2>16. stale' \/ balance'.held = balance.held - OnHold(w, Fee) + OnHold(w, Fee)'
    <3>1. CASE stale'
      BY <3>1
    <3>2. CASE ~stale'
      <4>1. old = balance /\ balance.held = HeldSum
        BY <2>15, <3>2 DEF VendorInv, HeldBook
      <4>2. PICK m \in Nat : m = HeldSum /\ m = old.held
        BY <2>9, <4>1
      <4>3. h = m - total
        BY <2>9, <2>11, <4>2 DEF Floor0
      <4> QED BY <2>8, <2>13, <2>15, <4>1, <4>2, <4>3
    <3> QED BY <3>1, <3>2
  <2>17. /\ owedToVendor' \in Int /\ heldInJournal' \in Int
         /\ Failing' \/ heldInJournal' = heldInJournal - OnHold(w, 0) + OnHold(w, 0)'
         /\ Failing' \/ owedToVendor' = owedToVendor + Withdrawn(w) - Withdrawn(w)'
    <3>1. PICK x \in Int, y \in Int : x = owedToVendor /\ y = heldInJournal
      BY <1>0
    <3>2. CASE paid
      <4>1. legs.payable = 0 /\ legs.held = 0 - n
        BY <2>3, <3>2 DEF PaidLegs
      <4>2. Withdrawn(w)' = total
        BY <2>1, <2>6, <2>7, <3>2 DEF Withdrawn
      <4> QED BY <2>4, <2>8, <3>1, <4>1, <4>2
    <3>3. CASE ~paid
      <4>1. legs.payable = 0 - (n + Fee) /\ legs.held = n
        BY <2>3, <3>3 DEF FailedLegs
      <4>2. Failing'
        BY <2>6, <2>7, <3>3 DEF Failing
      <4> QED BY <1>0, <2>4, <3>1, <4>1, <4>2
    <3> QED BY <3>2, <3>3
  <2>18. WithdrawalsTell'
    <3> SUFFICES ASSUME NEW v \in Withdrawal
                 PROVE  /\ withdrawal'[v].status = "PAID" => transfer[<<v, 0>>] = "success"
                        /\ withdrawal'[v].status = "FAILED" => transfer[<<v, 0>>] \in {"none", "failed"} \/ <<v, 0>> \in lost
                        /\ withdrawal'[v].status = "PROCESSING" /\ transfer[<<v, 0>>] # "pending" =>
                             \/ \E ok \in BOOLEAN : <<<<v, 0>>, ok>> \in reports
                             \/ \E q \in Worker : job'[q].kind \in Applying /\ job'[q].id = v
                             \/ overtaken
      BY <1>1 DEF WithdrawalsTell
    <3>1. CASE v = w
      <4>1. CASE paid
        BY <1>2, <2>2, <2>6, <2>7, <3>1, <4>1
      <4>2. CASE ~paid
        <5>1. job[p].kind = "applyFailed"
          BY <1>1, <2>2, <4>2 DEF Applying
        <5> QED BY <1>2, <2>6, <2>7, <3>1, <4>2, <5>1
      <4> QED BY <4>1, <4>2
    <3>2. CASE v # w
      BY <1>4, <2>7, <3>2
    <3> QED BY <3>1, <3>2
  <2>19. Failing => Failing'
    <3>1. ASSUME NEW v \in Withdrawal, withdrawal[v].status = "FAILED" PROVE withdrawal'[v].status = "FAILED"
      BY <1>6, <2>7, <3>1
    <3> QED BY <3>1 DEF Failing
  <2>20. ReportsKnow'
    BY <1>0, <1>1 DEF ReportsKnow
  <2>21. balance' \in BalanceRow /\ (stale' \/ balance'.bonus = balance.bonus)
    BY <2>13, <2>15
  <2>22. job[p].kind # "request"
    BY <1>1 DEF Applying
  <2> QED BY <1>0, <1>1, <1>2, <2>6, <2>15, <2>16, <2>17, <2>18, <2>19, <2>20, <2>21, <2>22, DrawKeeps
<1> QED BY <1>5, <1>6

-----------------------------------------------------------------------------

\* Nothing is earned, paid or drawn at the start.
LEMMA VendorStarts ==
  ASSUME VendorInit
  PROVE  VendorInv
<1>0. /\ earning = [o \in VOrder |-> "none"] /\ balance = EmptyBalance
      /\ settlement = [s \in Settlement |-> NoRow] /\ withdrawal = [w \in Withdrawal |-> NoRow]
      /\ owedToVendor = 0 /\ heldInJournal = 0 /\ discharged = [s \in Settlement |-> 0]
      /\ transfer = [t \in Transfer |-> "none"] /\ reports = {} /\ lost = {} /\ week = 1 /\ jobs = 0 /\ payoutFaults = 0
      /\ job = [p \in Worker |-> IdleJob]
      /\ IsFiniteSet(VOrder) /\ IsFiniteSet(Worker) /\ IsFiniteSet(Settlement) /\ IsFiniteSet(Withdrawal)
  BY PayoutAssumption DEF VendorInit, IdleJob
<1>1. /\ \A s \in Settlement : settlement[s] = NoRow /\ settlement[s].status = "none" /\ settlement[s].gross = 0 /\ settlement[s].amount = 0
      /\ \A w \in Withdrawal : withdrawal[w] = NoRow /\ withdrawal[w].status = "none"
      /\ \A p \in Worker : job[p].kind = "idle" /\ job[p].row \in BalanceRow /\ DOMAIN job[p] = {"kind", "row", "id", "n"}
  BY <1>0 DEF NoRow, IdleJob, EmptyBalance, BalanceRow
<1>2. VendorTyped
  <2>1. balance \in BalanceRow
    BY <1>0 DEF BalanceRow, EmptyBalance
  <2>2. NoRow \in SettlementRow /\ NoRow \in WithdrawalRow
    BY DEF NoRow, SettlementRow, WithdrawalRow, SettlementStatus, WithdrawalStatus
  <2>3. settlement \in [Settlement -> SettlementRow] /\ withdrawal \in [Withdrawal -> WithdrawalRow]
    BY <1>0, <2>2
  <2>4. week \in 1..MaxCycle /\ jobs \in 0..MaxJobs /\ payoutFaults \in 0..MaxPayoutFaults
    BY <1>0, PayoutAssumption
  <2>5. /\ earning \in [VOrder -> {"none", "open"} \union Settlement] /\ discharged \in [Settlement -> {0, 1}]
        /\ transfer \in [Transfer -> {"none", "pending", "success", "failed"}]
        /\ reports \subseteq Transfer \X BOOLEAN /\ lost \subseteq Transfer
        /\ DOMAIN job = Worker /\ owedToVendor \in Int /\ heldInJournal \in Int
    BY <1>0
  <2> QED BY <2>1, <2>3, <2>4, <2>5 DEF VendorTyped
<1>3. FreshRows
  <2>1. Working("settle") = {}
    BY <1>1 DEF Working
  <2>2. Cardinality(Working("settle")) = 0
    <3> HIDE DEF Working
    <3> QED BY <2>1, FS_EmptySet
  <2> QED BY <1>0, <1>1, <2>2, Counts DEF FreshRows
<1>4. JobsInv
  <2>1. ASSUME NEW p \in Worker PROVE JobKnows(p)
    BY <1>1 DEF JobKnows, JobTyped, JobOrders, JobSettles, JobDraws, Counting, OnSettlement, Applying
  <2>2. OneWorker
    BY <1>1 DEF OneWorker
  <2> QED BY <2>1, <2>2 DEF JobsInv
<1>5. ReportsKnow /\ WithdrawalsTell /\ SettlementsTell
  BY <1>0, <1>1 DEF ReportsKnow, WithdrawalsTell, SettlementsTell
<1>6. GrossSum = 0 /\ CreditSum = 0 /\ HeldSum = 0 /\ PostedSum = 0 /\ DrawnSum = 0 /\ PendingSum = 0
  <2>1. \A s \in Settlement : settlement[s].gross = 0 /\ Credited(s) = 0
    BY <1>0, <1>1 DEF Credited
  <2>2. \A w \in Withdrawal : OnHold(w, Fee) = 0 /\ OnHold(w, 0) = 0 /\ Withdrawn(w) = 0
    BY <1>1 DEF OnHold, Withdrawn
  <2>3. \A p \in Worker : Pending(p) = 0
    BY <1>1 DEF Pending
  <2>4. GrossSum = 0
    BY <1>0, <2>1, SumZero DEF GrossSum
  <2>5. CreditSum = 0
    BY <1>0, <2>1, SumZero DEF CreditSum
  <2>6. HeldSum = 0
    BY <1>0, <2>2, SumZero DEF HeldSum
  <2>7. PostedSum = 0
    BY <1>0, <2>2, SumZero DEF PostedSum
  <2>8. DrawnSum = 0
    BY <1>0, <2>2, SumZero DEF DrawnSum
  <2>9. PendingSum = 0
    BY <1>0, <2>3, SumZero DEF PendingSum
  <2> QED BY <2>4, <2>5, <2>6, <2>7, <2>8, <2>9
<1>7. Brought = 0 /\ Cardinality(Unsettled) = 0 /\ Share \in Nat
  <2>1. EarnedOrders = {} /\ Unsettled = {}
    BY <1>0 DEF EarnedOrders, Unsettled
  <2>2. Share \in Nat /\ BonusAfter \in Nat
    BY PayoutAssumption
  <2>3. Cardinality(EarnedOrders) = 0 /\ Cardinality(Unsettled) = 0
    <3> HIDE DEF EarnedOrders, Unsettled
    <3> QED BY <2>1, FS_EmptySet
  <2> QED BY <2>2, <2>3 DEF Brought
<1>8. GrossBook /\ HeldBook /\ PostedBook /\ OwedBook
  <2>1. balance.bonus = 0 /\ balance.held = 0
    BY <1>0 DEF EmptyBalance
  <2>2. GrossBook
    BY <1>6, <1>7, <2>1 DEF GrossBook
  <2>3. HeldBook /\ PostedBook /\ OwedBook
    BY <1>0, <1>6, <1>7, <2>1 DEF HeldBook, PostedBook, OwedBook
  <2> QED BY <2>2, <2>3
<1> QED BY <1>2, <1>3, <1>4, <1>5, <1>8 DEF VendorInv

\* Every step keeps the invariant.
LEMMA VendorSteps ==
  ASSUME VendorInv, [VendorNext]_payoutVars
  PROVE  VendorInv'
<1>1. CASE UNCHANGED payoutVars
  <2>1. UNCHANGED <<rowVars, balance, journal, transfer, reports, job, week, jobs, history>>
    BY <1>1 DEF payoutVars, rowVars, journal, history
  <2>2. VendorTyped' /\ ReportsKnow' /\ WithdrawalsTell'
    BY <2>1 DEF VendorInv, VendorTyped, ReportsKnow, WithdrawalsTell, rowVars, journal, history
  <2> QED BY <2>1, <2>2, QuietKeeps DEF history
<1>2. CASE VendorNext
  <2>1. ASSUME NEW p \in Worker,
               \/ \E o \in VOrder : BeginAccrue(p, o)
               \/ Accrue(p) \/ BeginSettle(p) \/ Settle(p)
               \/ \E s \in Settlement : BeginPay(p, s) \/ BeginReverse(p, s)
               \/ PayChunk(p) \/ PayFailed(p) \/ PayDone(p) \/ FinalizePaid(p) \/ Finalize(p)
               \/ \E t \in Transfer, ok \in BOOLEAN : OnSettlementReport(p, t, ok) \/ OnWithdrawalReport(p, t, ok)
               \/ MarkFailed(p) \/ Reverse(p) \/ Release(p)
               \/ \E n \in Amount : BeginRelease(p, n)
               \/ \E w \in Withdrawal, n \in Amount : RequestWithdrawal(p, w, n)
               \/ CallWithdrawal(p) \/ ApplyWithdrawal(p)
               \/ BeginPenalty(p) \/ Penalty(p)
               \/ PayoutCrash(p)
        PROVE  VendorInv'
    <3>1. CASE \/ \E o \in VOrder : BeginAccrue(p, o)
               \/ BeginSettle(p)
               \/ \E s \in Settlement : BeginPay(p, s)
               \/ \E w \in Withdrawal, n \in Amount : RequestWithdrawal(p, w, n)
               \/ BeginPenalty(p)
      BY <3>1, BeginsKeep
    <3>2. CASE \/ PayDone(p) \/ FinalizePaid(p)
               \/ \E t \in Transfer, ok \in BOOLEAN : OnSettlementReport(p, t, ok)
      BY <3>2, TurnsKeep
    <3>3. CASE PayChunk(p) \/ PayoutCrash(p) \/ \E t \in Transfer, ok \in BOOLEAN : OnWithdrawalReport(p, t, ok)
      BY <3>3, SendsKeep
    <3>4. CASE PayFailed(p) \/ MarkFailed(p) \/ Finalize(p) \/ \E s \in Settlement : BeginReverse(p, s)
      BY <3>4, StatusesKeep
    <3>5. CASE Reverse(p) \/ Release(p) \/ Penalty(p)
      BY <3>5, DebtsKeep
    <3>6. CASE Accrue(p)
      BY <3>6, AccrueKeeps
    <3>7. CASE Settle(p)
      BY <3>7, SettleKeeps
    <3>8. CASE \E n \in Amount : BeginRelease(p, n)
      BY <3>8, ReleaseKeeps
    <3>9. CASE CallWithdrawal(p)
      BY <3>9, CallKeeps
    <3>10. CASE ApplyWithdrawal(p)
      BY <3>10, ApplyKeeps
    <3> QED BY <2>1, <3>1, <3>2, <3>3, <3>4, <3>5, <3>6, <3>7, <3>8, <3>9, <3>10
  <2>2. CASE NextMonday \/ \E t \in Transfer : TransferEnds(t)
    BY <2>2, OutsideKeeps
  <2> QED BY <1>2, <2>1, <2>2 DEF VendorNext
<1> QED BY <1>1, <1>2

\* The vendor's books and transfers, as the requests, the interval and the bus
\* handlers of the ledger service leave them: every state keeps VendorInv.
THEOREM VendorHolds == VendorSpec => []VendorInv
<1>1. VendorInit => VendorInv
  BY VendorStarts
<1>2. VendorInv /\ [VendorNext]_payoutVars => VendorInv'
  BY VendorSteps
<1> QED BY <1>1, <1>2, PTL DEF VendorSpec

\* Settlements take what the orders brought, once; the hold is the withdrawals in
\* flight; and the journal owes the vendor what the rows say, whatever requests,
\* runs and reports overlap (generateSettlement, finalizeSettlementTransfer,
\* reverseVendorSettlement, releaseVendorReserve, applyVendorWithdrawalResult).
THEOREM VendorAgrees == VendorSpec => []VendorBooks
<1>1. ASSUME VendorInv PROVE VendorBooks
  <2>0. /\ VendorTyped /\ JobsInv /\ Share \in Nat /\ balance.bonus \in Nat
    BY <1>1, PayoutAssumption DEF VendorInv, VendorTyped, BalanceRow
  <2>1. VendorTypeOK
    BY <2>0 DEF VendorTyped, VendorTypeOK, BalanceRow, Balance, SettlementRow, WithdrawalRow
  <2>2. GrossSum <= Brought \/ doubled \/ stale
    <3>1. CASE doubled \/ stale
      BY <3>1
    <3>2. CASE ~(doubled \/ stale)
      <4>1. Unsettled \in SUBSET VOrder
        BY DEF Unsettled
      <4>2. Cardinality(Unsettled) \in Nat
        <5> HIDE DEF Unsettled
        <5> QED BY <4>1, Counts
      <4>3. PICK a \in Nat : a = Cardinality(Unsettled) * Share
        BY <2>0, <4>2
      <4>4. GrossSum + a + balance.bonus = Brought /\ GrossSum \in Nat
        BY <1>1, <2>0, <3>2, <4>3, VendorSumsNow DEF VendorInv, GrossBook, VendorSums
      <4> QED BY <2>0, <4>3, <4>4
    <3> QED BY <3>1, <3>2
  <2>3. balance.held = HeldSum \/ stale
    BY <1>1 DEF VendorInv, HeldBook
  <2>4. Working("reverse") \union Working("release") = {} => PendingSum = 0
    <3> SUFFICES ASSUME Working("reverse") \union Working("release") = {} PROVE PendingSum = 0
      OBVIOUS
    <3>1. \A p \in Worker : Pending(p) = 0
      BY DEF Working, Pending
    <3> QED BY <3>1, PayoutAssumption, SumZero DEF PendingSum
  <2>5. \/ heldInJournal = PostedSum /\ owedToVendor = Brought + CreditSum - DrawnSum
        \/ Working("reverse") \union Working("release") # {} \/ payoutFaults > 0 \/ clobbered \/ Failing
    <3>1. heldInJournal = PostedSum \/ payoutFaults > 0 \/ Failing
      BY <1>1 DEF VendorInv, PostedBook
    <3>2. owedToVendor + PendingSum = Brought + CreditSum - DrawnSum \/ payoutFaults > 0 \/ Failing \/ clobbered
      BY <1>1 DEF VendorInv, OwedBook
    <3>3. owedToVendor \in Int
      BY <2>0 DEF VendorTyped
    <3> QED BY <2>4, <3>1, <3>2, <3>3
  <2> QED BY <2>1, <2>2, <2>3, <2>5 DEF VendorBooks, GrossSum, CreditSum, HeldSum, PostedSum, DrawnSum, Failing
<1> QED BY <1>1, VendorHolds, PTL

\* What the rows say of the money is what the transfers did, and a settlement the
\* journal has discharged is not payable again except through the save that does
\* not look (requestVendorWithdrawal, applyVendorWithdrawalResult, paySettlement,
\* finalizeSettlementTransfer).
THEOREM OutcomesHold == VendorSpec => []OutcomeIsTransfers
<1>1. ASSUME VendorInv PROVE OutcomeIsTransfers
  <2>1. \A w \in Withdrawal : LET t == <<w, 0>> IN
          /\ withdrawal[w].status = "PAID" => transfer[t] = "success"
          /\ withdrawal[w].status = "FAILED" => transfer[t] \in {"none", "failed"} \/ t \in lost
          /\ withdrawal[w].status = "PROCESSING" /\ transfer[t] # "pending" =>
               \/ \E ok \in BOOLEAN : <<t, ok>> \in reports
               \/ \E p \in Worker : job[p].id = w
               \/ overtaken
    BY <1>1 DEF VendorInv, WithdrawalsTell
  <2>2. \A s \in Settlement :
          /\ discharged[s] <= 1
          /\ discharged[s] = 1 => settlement[s].status \in {"PAID", "REVERSED"} \/ clobbered
          /\ settlement[s].status = "PAID" => \E t \in SettlementTransfer : t[1] = s /\ transfer[t] = "success"
    <3> TAKE s \in Settlement
    <3>1. discharged[s] \in {0, 1}
      BY <1>1 DEF VendorInv, VendorTyped
    <3> QED BY <1>1, <3>1 DEF VendorInv, SettlementsTell, Through
  <2> QED BY <2>1, <2>2 DEF OutcomeIsTransfers
<1> QED BY <1>1, VendorHolds, PTL

================================================================================
