----------------------------- MODULE RiderWallet -----------------------------
(***************************************************************************)
(* One rider's wallet (apps/ledger/src/ledger.service.ts): earnings that   *)
(* clear, cash collected for the platform and its remittance, the admin's  *)
(* adjustment, and the withdrawal with its approval, its rejection and the *)
(* transfer result, told by the bus or found by the transfer sweeper.      *)
(*                                                                         *)
(* As in VendorPayout an operation reads the RiderBalance row when it      *)
(* starts and saves the entity when it commits; a request locks the row    *)
(* and is one step.  A withdrawal row that an open transaction has updated *)
(* is locked: a conditional update of it waits.  The dual-control gate     *)
(* lets the approval of a withdrawal run once.                             *)
(***************************************************************************)
EXTENDS Integers, FiniteSets, Functions

CONSTANTS
  Trip,         \* delivered orders of the rider, all paid in cash
  Payout,       \* ids of withdrawal rows
  Admin,        \* admins who verify remittances
  Handler,      \* requests, jobs and handlers that may be under way together
  TripFee,      \* what the rider earns by a trip
  TripCash,     \* what the rider collects by a trip
  Sum,          \* amounts asked for, remitted or adjusted
  PayoutFee,    \* transfer fee
  WalletFault,  \* faults that may happen, a subset of WalletFaults
  MaxSteps,     \* bound: operations started
  MaxWalletFaults  \* bound: faults

WalletFaults == {"crash", "lostAnswer"}

ASSUME WalletAssumption ==
  /\ IsFiniteSet(Trip) /\ IsFiniteSet(Payout)
  /\ {TripFee, TripCash, PayoutFee, MaxSteps, MaxWalletFaults} \subseteq Nat
  /\ Sum \subseteq Nat \ {0}
  /\ WalletFault \subseteq WalletFaults

VARIABLES
  trip,      \* "none", or the CodCash status of the trip's cash
  wallet,    \* the RiderBalance row
  payout,    \* the RiderWithdrawal rows
  pendingInJournal,  \* journal: net credit of payout_pending
  adjusted,  \* the one wallet_adjust:<balance> reference is taken
  verified,  \* admins whose remit-verified:<rider>:<admin> reference is taken
  approvals, \* withdrawals whose gated approval has run
  sent,      \* the payment provider's state of each transfer
  results,   \* transfer results on the bus
  task,      \* what each handler is doing, with the row it read
  steps,     \* how many operations have started
  granted,     \* history: net of the adjustments
  staleSave,   \* history: a save overwrote a change of the wallet row
  overlapped,  \* history: withdrawals approved over a decided row
  unanswered,  \* history: transfers that may run without an answer
  oddAmount,   \* history: a remittance did not add up to whole rows
  floored,     \* history: a subtraction was cut off at zero
  walletFaults \* how many faults have happened

walletVars == <<trip, wallet, payout, pendingInJournal, adjusted, verified, approvals, sent, results,
  task, steps, granted, staleSave, overlapped, unanswered, oddAmount, floored, walletFaults>>
refs == <<adjusted, verified, approvals>>
told == <<granted, staleSave, overlapped, unanswered, oddAmount, floored, walletFaults>>

EmptyWallet == [pending |-> 0, cleared |-> 0, locked |-> 0, cashOwed |-> 0]
NoPayout == [status |-> "none", amount |-> 0]
NoTask == [kind |-> "idle", row |-> EmptyWallet, id |-> "none", n |-> 0]
InFlight == {"REQUESTED", "PROCESSING"}

WalletTypeOK ==
  /\ trip \in [Trip -> {"none", "EXPECTED", "COLLECTED", "REMITTED"}]
  /\ wallet \in [pending : Nat, cleared : Nat, locked : Nat, cashOwed : Nat]
  /\ \A w \in Payout : payout[w].status \in InFlight \union {"none", "PAID", "FAILED", "REJECTED"}
  /\ pendingInJournal \in Int
  /\ verified \subseteq Admin /\ approvals \subseteq Payout
  /\ sent \in [Payout -> {"none", "pending", "success", "failed"}]
  /\ results \subseteq Payout \X BOOLEAN
  /\ DOMAIN task = Handler
  /\ steps \in 0..MaxSteps /\ walletFaults \in 0..MaxWalletFaults

WalletInit ==
  /\ trip = [t \in Trip |-> "none"]
  /\ wallet = EmptyWallet
  /\ payout = [w \in Payout |-> NoPayout]
  /\ pendingInJournal = 0
  /\ adjusted = FALSE /\ verified = {} /\ approvals = {}
  /\ sent = [w \in Payout |-> "none"]
  /\ results = {}
  /\ task = [h \in Handler |-> NoTask]
  /\ steps = 0
  /\ granted = 0 /\ staleSave = FALSE /\ overlapped = {} /\ unanswered = {} /\ oddAmount = FALSE /\ floored = FALSE
  /\ walletFaults = 0

Begin(h, kind, id, n) ==
  /\ task[h] = NoTask /\ steps < MaxSteps
  /\ steps' = steps + 1
  /\ task' = [task EXCEPT ![h] = [kind |-> kind, row |-> wallet, id |-> id, n |-> n]]
At(h, kind) == task[h].kind = kind
End(h) == task' = [task EXCEPT ![h] = NoTask] /\ UNCHANGED steps
SaveWallet(h, row) ==
  /\ wallet' = row
  /\ staleSave' = (staleSave \/ task[h].row # wallet)
UpTo(n) == IF n < 0 THEN 0 ELSE n
Smaller(a, b) == IF a < b THEN a ELSE b

\* a verification and an approval read the wallet row at the end of their
\* work: any time between their first read and the commit
ReadWallet(h) ==
  /\ task[h].kind \in {"verify", "calling"} /\ task[h].row # wallet
  /\ task' = [task EXCEPT ![h].row = wallet]
  /\ UNCHANGED <<trip, wallet, payout, pendingInJournal, refs, sent, results, steps, told>>

(***************************************************************************)
(* Earnings and cash: postDelivered's part for the rider, and the clearing *)
(* job, which moves everything pending once the window has passed.         *)
(***************************************************************************)
BeginTrip(h, t) ==
  /\ trip[t] = "none" /\ \A g \in Handler : task[g].id # t
  /\ Begin(h, "trip", t, 0)
  /\ UNCHANGED <<trip, wallet, payout, pendingInJournal, refs, sent, results, told>>

Earn(h) ==
  /\ At(h, "trip")
  /\ trip' = [trip EXCEPT ![task[h].id] = "EXPECTED"]
  /\ SaveWallet(h, [task[h].row EXCEPT !.pending = @ + TripFee, !.cashOwed = @ + TripCash])
  /\ End(h)
  /\ UNCHANGED <<payout, pendingInJournal, refs, sent, results,
                 granted, overlapped, unanswered, oddAmount, floored, walletFaults>>

BeginClear(h) ==
  /\ wallet.pending > 0
  /\ Begin(h, "clear", "none", 0)
  /\ UNCHANGED <<trip, wallet, payout, pendingInJournal, refs, sent, results, told>>

clearEarnings(h) ==
  /\ At(h, "clear")
  /\ SaveWallet(h, [task[h].row EXCEPT !.cleared = @ + task[h].row.pending, !.pending = 0])
  /\ End(h)
  /\ UNCHANGED <<trip, payout, pendingInJournal, refs, sent, results,
                 granted, overlapped, unanswered, oddAmount, floored, walletFaults>>

(***************************************************************************)
(* Cash: remit marks whole rows COLLECTED, the verification marks them     *)
(* REMITTED and lowers the debt by the amount the admin names.             *)
(***************************************************************************)
\* the rows a FIFO walk of whole rows takes with an amount
Whole(status, amount, rows) ==
  /\ rows \subseteq {t \in Trip : trip[t] = status}
  /\ Cardinality(rows) = Smaller(Cardinality({t \in Trip : trip[t] = status}), amount \div TripCash)

remit(amount) ==
  /\ amount <= Cardinality({t \in Trip : trip[t] = "EXPECTED"}) * TripCash
  /\ \E rows \in SUBSET Trip :
       /\ Whole("EXPECTED", amount, rows) /\ rows # {}
       /\ trip' = [t \in Trip |-> IF t \in rows THEN "COLLECTED" ELSE trip[t]]
  /\ UNCHANGED <<wallet, payout, pendingInJournal, refs, sent, results, task, steps, told>>

\* the rows are read first
BeginVerify(h, a, amount) ==
  /\ \E t \in Trip : trip[t] = "COLLECTED"
  /\ \E rows \in SUBSET Trip :
       Whole("COLLECTED", amount, rows) /\ Begin(h, "verify", [admin |-> a, rows |-> rows], amount)
  /\ UNCHANGED <<trip, wallet, payout, pendingInJournal, refs, sent, results, told>>

\* a second verification by the same admin meets its own journal reference and
\* rolls back
verifyRiderRemittance(h) ==
  /\ At(h, "verify")
  /\ LET rows == task[h].id.rows IN
     IF task[h].id.admin \in verified
     THEN UNCHANGED <<trip, wallet, verified, staleSave, oddAmount>>
     ELSE /\ verified' = verified \union {task[h].id.admin}
          /\ trip' = [t \in Trip |-> IF t \in rows THEN "REMITTED" ELSE trip[t]]
          /\ oddAmount' = (oddAmount \/ Cardinality(rows) * TripCash # task[h].n
                                     \/ \E t \in rows : trip[t] # "COLLECTED")
          /\ SaveWallet(h, [task[h].row EXCEPT !.cashOwed = UpTo(@ - task[h].n)])
  /\ End(h)
  /\ UNCHANGED <<payout, pendingInJournal, adjusted, approvals, sent, results,
                 granted, overlapped, unanswered, floored, walletFaults>>

\* adjustWallet: its journal reference names the wallet, so one adjustment of
\* a wallet ever commits
BeginAdjust(h, kind, n) ==
  /\ ~adjusted
  /\ Begin(h, kind, "none", n)
  /\ UNCHANGED <<trip, wallet, payout, pendingInJournal, refs, sent, results, told>>
AdjustKind == {"credit_cleared", "penalty", "reversal"}
Adjusted(row, kind, n) ==
  CASE kind = "credit_cleared" -> [row EXCEPT !.cleared = @ + n]
    [] kind = "penalty" -> [row EXCEPT !.locked = @ + Smaller(n, row.cleared),
                                       !.cleared = @ - Smaller(n, row.cleared)]
    [] kind = "reversal" -> [row EXCEPT !.locked = UpTo(@ - n)]
WalletTotal(row) == row.pending + row.cleared + row.locked
adjustWallet(h) ==
  /\ task[h].kind \in AdjustKind
  /\ IF adjusted THEN UNCHANGED <<wallet, adjusted, granted, staleSave>>
     ELSE LET row == Adjusted(task[h].row, task[h].kind, task[h].n) IN
          /\ adjusted' = TRUE
          /\ SaveWallet(h, row)
          /\ granted' = granted + WalletTotal(row) - WalletTotal(task[h].row)
  /\ End(h)
  /\ UNCHANGED <<trip, payout, pendingInJournal, verified, approvals, sent, results,
                 overlapped, unanswered, oddAmount, floored, walletFaults>>

(***************************************************************************)
(* Withdrawals.                                                            *)
(***************************************************************************)
\* Mutant: the approval is not one transaction, and holds no lock in its call.
RowLockedByClaim(w) == \E h \in Handler : task[h].id = w /\ task[h].kind \in {"reject", "settle", "fail"}
\* an open transaction has updated the row
RowLocked(w) == \E h \in Handler : task[h].id = w /\ task[h].kind \in {"calling", "reject", "settle", "fail"}
Withdrawable(row) == UpTo(row.cleared - row.cashOwed - row.locked)

requestWithdrawal(w, amount) ==
  /\ payout[w].status = "none"
  /\ amount + PayoutFee <= Withdrawable(wallet)
  /\ payout' = [payout EXCEPT ![w] = [status |-> "REQUESTED", amount |-> amount]]
  /\ wallet' = [wallet EXCEPT !.cleared = @ - (amount + PayoutFee), !.locked = @ + amount]
  /\ pendingInJournal' = pendingInJournal + amount
  /\ UNCHANGED <<trip, refs, sent, results, task, steps, told>>

\* what paying a withdrawal and giving it back do to the row
Paid(row, w) == [row EXCEPT !.locked = UpTo(@ - payout[w].amount)]
Refunded(row, w) == [row EXCEPT !.locked = UpTo(@ - payout[w].amount),
                                !.cleared = @ + payout[w].amount + PayoutFee]
\* the last step of a transaction that decides a withdrawal
Decide(h, w, status, row) ==
  /\ payout' = [payout EXCEPT ![w].status = status]
  /\ SaveWallet(h, row)
  /\ pendingInJournal' = pendingInJournal - payout[w].amount
  /\ floored' = (floored \/ task[h].row.locked < payout[w].amount)
  /\ End(h)

\* approveWithdrawal, one transaction: the check, the save of APPROVED, which
\* locks the row and overwrites what another transaction made of it, the call,
\* and the answer.  Begun once for a withdrawal, as long as its approval is not
\* executed again over the one before (DualControl); a second one finds the row
\* locked and reads before, which `overlapped` would name
BeginApprove(h, w) ==
  /\ payout[w].status = "REQUESTED" /\ w \notin approvals
  /\ Begin(h, "approve", w, 0)
  /\ approvals' = approvals \union {w}
  /\ UNCHANGED <<trip, wallet, payout, pendingInJournal, adjusted, verified, sent, results, told>>

SaveApproved(h) ==
  /\ At(h, "approve") /\ ~RowLocked(task[h].id)
  /\ overlapped' = IF payout[task[h].id].status = "REQUESTED" THEN overlapped
                   ELSE overlapped \union {task[h].id}
  /\ task' = [task EXCEPT ![h] = [kind |-> "calling", row |-> wallet, id |-> task[h].id, n |-> 0]]
  /\ UNCHANGED <<trip, wallet, payout, pendingInJournal, refs, sent, results, steps,
                 granted, staleSave, unanswered, oddAmount, floored, walletFaults>>

\* the provider takes a reference once.  The answers: paid, accepted, an error
CallTransferOnce(h) ==
  /\ At(h, "calling") /\ sent[task[h].id] = "none"
  /\ LET w == task[h].id IN
     \/ /\ sent' = [sent EXCEPT ![w] = "success"]
        /\ results' = results \union {<<w, TRUE>>}
        /\ Decide(h, w, "PAID", Paid(task[h].row, w))
     \/ /\ sent' = [sent EXCEPT ![w] = "pending"]
        /\ payout' = [payout EXCEPT ![w].status = "PROCESSING"]
        /\ End(h)
        /\ UNCHANGED <<wallet, results, pendingInJournal, staleSave, floored>>
     \/ /\ Decide(h, w, "FAILED", Refunded(task[h].row, w))
        /\ UNCHANGED <<sent, results>>
  /\ UNCHANGED <<trip, refs, granted, overlapped, unanswered, oddAmount, walletFaults>>

\* the transfer runs but its answer is lost: the payment service answers with
\* an error, or the call throws (or the process dies) and everything rolls back
LoseAnswer(h) ==
  /\ At(h, "calling") /\ sent[task[h].id] = "none"
  /\ "lostAnswer" \in WalletFault /\ walletFaults < MaxWalletFaults
  /\ walletFaults' = walletFaults + 1
  /\ LET w == task[h].id IN
       /\ sent' = [sent EXCEPT ![w] = "pending"]
       /\ unanswered' = unanswered \union {w}
       /\ \/ Decide(h, w, "FAILED", Refunded(task[h].row, w))
          \/ End(h) /\ UNCHANGED <<payout, wallet, pendingInJournal, staleSave, floored>>
  /\ UNCHANGED <<trip, refs, results, granted, overlapped, oddAmount>>

\* rejectWithdrawal: claimTransition from REQUESTED, then the hold goes back
BeginReject(h, w) ==
  /\ payout[w].status = "REQUESTED" /\ ~RowLocked(w)
  /\ Begin(h, "reject", w, 0)
  /\ UNCHANGED <<trip, wallet, payout, pendingInJournal, refs, sent, results, told>>
rejectWithdrawal(h) ==
  /\ At(h, "reject")
  /\ Decide(h, task[h].id, "REJECTED", Refunded(task[h].row, task[h].id))
  /\ UNCHANGED <<trip, refs, sent, results, granted, overlapped, unanswered, oddAmount, walletFaults>>

\* the provider ends a transfer; its report may not come
TransferDone(w) ==
  /\ sent[w] = "pending"
  /\ \E ok \in BOOLEAN :
       /\ sent' = [sent EXCEPT ![w] = IF ok THEN "success" ELSE "failed"]
       /\ results' \in {results, results \union {<<w, ok>>}}
  /\ UNCHANGED <<trip, wallet, payout, pendingInJournal, refs, task, steps, told>>

\* Mutant: the status is not looked at.
ClaimsAny(w) == TRUE
\* applyTransferResult claims the row from any status in flight
Claims(w) == payout[w].status \in InFlight
OnResult(h, w, ok) ==
  /\ <<w, ok>> \in results /\ ~RowLocked(w)
  /\ IF Claims(w) THEN Begin(h, IF ok THEN "settle" ELSE "fail", w, 1) /\ UNCHANGED results
                  ELSE results' = results \ {<<w, ok>>} /\ UNCHANGED <<task, steps>>
  /\ UNCHANGED <<trip, wallet, payout, pendingInJournal, refs, sent, told>>
applyTransferResult(h) ==
  /\ task[h].kind \in {"settle", "fail"}
  /\ LET w == task[h].id IN
       /\ IF At(h, "settle") THEN Decide(h, w, "PAID", Paid(task[h].row, w))
                             ELSE Decide(h, w, "FAILED", Refunded(task[h].row, w))
       /\ results' = results \ {<<w, At(h, "settle")>>}
  /\ UNCHANGED <<trip, refs, sent, granted, overlapped, unanswered, oddAmount, walletFaults>>

\* Mutant: the scan takes requests that are not approved yet.
UnreportedRequested(w) == payout[w].status = "REQUESTED"
\* reconcileStaleTransfers asks the payment service about a withdrawal that has
\* been PROCESSING for a while; this needs no bus message
Unreported(w) == payout[w].status = "PROCESSING"
reconcileStaleTransfers(h, w) ==
  /\ Unreported(w) /\ ~RowLocked(w)
  /\ sent[w] \in {"success", "failed"}
  /\ task[h] = NoTask
  /\ task' = [task EXCEPT ![h] = [kind |-> IF sent[w] = "success" THEN "settle" ELSE "fail",
                                 row |-> wallet, id |-> w, n |-> 0]]
  /\ UNCHANGED <<trip, wallet, payout, pendingInJournal, refs, sent, results, steps, told>>

\* a handler dies: its transaction leaves nothing, its message stays
WalletCrash(h) ==
  /\ "crash" \in WalletFault /\ walletFaults < MaxWalletFaults
  /\ task[h] # NoTask
  /\ walletFaults' = walletFaults + 1
  /\ End(h)
  /\ UNCHANGED <<trip, wallet, payout, pendingInJournal, refs, sent, results,
                 granted, staleSave, overlapped, unanswered, oddAmount, floored>>

WalletNext ==
  \/ \E h \in Handler :
       \/ \E t \in Trip : BeginTrip(h, t)
       \/ Earn(h) \/ BeginClear(h) \/ clearEarnings(h) \/ ReadWallet(h)
       \/ \E a \in Admin, n \in Sum : BeginVerify(h, a, n)
       \/ verifyRiderRemittance(h)
       \/ \E kind \in AdjustKind, n \in Sum : BeginAdjust(h, kind, n)
       \/ adjustWallet(h)
       \/ \E w \in Payout : \/ BeginApprove(h, w) \/ BeginReject(h, w)
                            \/ reconcileStaleTransfers(h, w)
                            \/ \E ok \in BOOLEAN : OnResult(h, w, ok)
       \/ SaveApproved(h) \/ CallTransferOnce(h) \/ LoseAnswer(h)
       \/ rejectWithdrawal(h) \/ applyTransferResult(h)
       \/ WalletCrash(h)
  \/ \E n \in Sum : remit(n)
  \/ \E w \in Payout, n \in Sum : requestWithdrawal(w, n)
  \/ \E w \in Payout : TransferDone(w)

WalletSpec == WalletInit /\ [][WalletNext]_walletVars

\* transactions end, the provider ends transfers, and the sweeper runs on its
\* interval; nothing is assumed of reports
WalletStep(h) ==
  \/ Earn(h) \/ clearEarnings(h) \/ verifyRiderRemittance(h) \/ adjustWallet(h)
  \/ SaveApproved(h) \/ CallTransferOnce(h) \/ rejectWithdrawal(h) \/ applyTransferResult(h)
WalletFairness ==
  /\ \A h \in Handler : WF_walletVars(WalletStep(h))
  /\ \A w \in Payout : /\ WF_walletVars(TransferDone(w))
                       /\ WF_walletVars(\E h \in Handler : reconcileStaleTransfers(h, w))

(***************************************************************************)
(* Properties.                                                             *)
(***************************************************************************)
InTransit(w) == IF payout[w].status \in InFlight THEN payout[w].amount ELSE 0
Cost(w) == CASE payout[w].status \in InFlight -> PayoutFee
             [] payout[w].status = "PAID"      -> payout[w].amount + PayoutFee
             [] OTHER                          -> 0
Earned(t) == trip[t] # "none"

\* The wallet's books agree with the rows they summarise, whatever overlaps:
\* payout_pending is the withdrawals in flight, unless an approval was saved
\* over a decided one; nothing is earned or spent twice, unless a save was
\* stale or a floor cut something off; the cash owed is the cash not remitted,
\* unless a remittance did not add up to the rows it took.  No amount of the
\* wallet is ever below zero.
WalletBooks ==
  /\ WalletTypeOK
  /\ pendingInJournal = SumFunctionOnSet([w \in Payout |-> InTransit(w)], Payout) \/ overlapped # {}
  /\ \/ WalletTotal(wallet) = TripFee * Cardinality({t \in Trip : Earned(t)}) + granted
                             - SumFunctionOnSet([w \in Payout |-> Cost(w)], Payout)
     \/ staleSave \/ floored \/ overlapped # {}
  /\ \/ wallet.cashOwed = TripCash * Cardinality({t \in Trip : trip[t] \in {"EXPECTED", "COLLECTED"}})
     \/ staleSave \/ oddAmount

\* A withdrawal is paid or given back, never both: paid means the transfer
\* went through; given back means it did not, unless its answer was lost or
\* the approval ran over a rejection.
PaidOrRefunded ==
  \A w \in Payout :
    /\ payout[w].status = "PAID" => sent[w] = "success"
    /\ payout[w].status \in {"FAILED", "REJECTED"} =>
         sent[w] \in {"none", "failed"} \/ w \in unanswered \union overlapped

\* A withdrawal whose transfer was accepted is settled in the end, even when
\* no report of it ever comes.
InFlightSettles ==
  \A w \in Payout : payout[w].status = "PROCESSING" ~> payout[w].status \in {"PAID", "FAILED"}
=============================================================================
