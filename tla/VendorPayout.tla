---------------------------- MODULE VendorPayout ----------------------------
(***************************************************************************)
(* What one vendor earns and is paid (apps/ledger/src/ledger.service.ts):  *)
(* an earning per delivered order, the weekly settlement and its payout,   *)
(* the reversal of a settlement, the release of the rolling reserve, the   *)
(* early withdrawal, and the transfer results the payment service reports. *)
(*                                                                         *)
(* The vendor has one VendorBalance row.  An operation reads it, computes, *)
(* and saves the whole entity; only a withdrawal request locks it.  So an  *)
(* operation is a start, which reads, and an end, which commits everything *)
(* it writes: a save made from a row that changed in between overwrites    *)
(* the change ("stale").  The transfers are the payment service's: what it *)
(* answers and when it reports are external.  Amounts are small numbers.   *)
(***************************************************************************)
EXTENDS Integers, FiniteSets, Functions

CONSTANTS
  VOrder,       \* delivered orders of the vendor
  Settlement,   \* ids of settlement rows
  Withdrawal,   \* ids of withdrawal rows
  Worker,       \* requests and handlers that may be under way together
  Share,        \* vendor share of an order
  Amount,       \* amounts of withdrawals and of reserve releases
  Fee,          \* transfer fee of a withdrawal
  ReservePct,   \* rolling reserve, per cent
  MinSettlement,\* smallest net amount a cycle settles
  DailyCap,     \* largest single transfer
  Bonus, BonusAfter, \* loyalty bonus and the delivered order that earns it
  PayoutFault,  \* faults that may happen, a subset of PayoutFaults
  MaxCycle,     \* bound: Mondays
  MaxJobs,      \* bound: operations started
  MaxPayoutFaults    \* bound: faults

PayoutFaults == {"crash", "lostAnswer"}

ASSUME PayoutAssumption ==
  /\ {Share, MinSettlement, DailyCap, MaxCycle, MaxJobs} \subseteq Nat \ {0}
  /\ {Fee, Bonus, BonusAfter, MaxPayoutFaults} \subseteq Nat
  /\ ReservePct \in 0..100
  /\ Amount \subseteq Nat \ {0}
  /\ PayoutFault \subseteq PayoutFaults
  /\ IsFiniteSet(VOrder) /\ IsFiniteSet(Worker) /\ IsFiniteSet(Settlement) /\ IsFiniteSet(Withdrawal)
  /\ Settlement \intersect (Withdrawal \union {"none", "open"}) = {}

VARIABLES
  earning,   \* VendorEarning of each order: "none", "open", or its settlement
  balance,   \* the VendorBalance row
  settlement,\* the VendorSettlement rows
  withdrawal,\* the VendorWithdrawal rows
  owedToVendor,   \* journal: net credit of vendor_payable and vendor_bonus
  heldInJournal,  \* journal: net credit of vendor_withdrawal_held
  discharged,     \* journal: how often settlement:<id> was posted
  transfer,  \* the payment provider's state of each transfer
  reports,   \* transfer results on the bus
  job,       \* what each worker is doing, with what it read
  week,      \* current Monday
  jobs,      \* how many operations have started
  stale,     \* history: a save overwrote a change of the balance row
  doubled,   \* history: one order was swept into two settlements
  clobbered, \* history: a stale FAILED was saved over another status
  overtaken, \* history: a result came before the withdrawal's row
  lost,      \* history: transfers accepted whose answer was lost
  payoutFaults  \* how many faults have happened

payoutVars == <<earning, balance, settlement, withdrawal, owedToVendor, heldInJournal,
  discharged, transfer, reports, job, week, jobs, stale, doubled, clobbered, overtaken, lost, payoutFaults>>
rowVars == <<earning, settlement, withdrawal>>
journal == <<owedToVendor, heldInJournal, discharged>>
history == <<stale, doubled, clobbered, overtaken, lost, payoutFaults>>

\* payoutChunks: how many transfers a payout takes; an empty one takes none
Chunks(amount) == (amount + DailyCap - 1) \div DailyCap
\* bound: what every order's share and the bonus together take
MaxChunks == Chunks(Cardinality(VOrder) * Share + Bonus)
SettlementTransfer == Settlement \X (1..MaxChunks)
WithdrawalTransfer == Withdrawal \X {0}
Transfer == SettlementTransfer \union WithdrawalTransfer

NoRow == [status |-> "none", amount |-> 0, gross |-> 0, cycle |-> 0]
SettlementStatus == {"none", "READY", "FAILED", "PAID", "REVERSED"}
WithdrawalStatus == {"none", "PROCESSING", "PAID", "FAILED"}
EmptyBalance == [accrued |-> 0, paidOut |-> 0, reserve |-> 0, owed |-> 0, held |-> 0, bonus |-> 0]
Balance == [accrued : Int, paidOut : Int, reserve : Int, owed : Int, held : Int, bonus : Int]

VendorTypeOK ==
  /\ earning \in [VOrder -> {"none", "open"} \union Settlement]
  /\ balance \in Balance
  /\ \A s \in Settlement : settlement[s].status \in SettlementStatus
  /\ \A w \in Withdrawal : withdrawal[w].status \in WithdrawalStatus
  /\ owedToVendor \in Int /\ heldInJournal \in Int
  /\ discharged \in [Settlement -> Nat]
  /\ transfer \in [Transfer -> {"none", "pending", "success", "failed"}]
  /\ reports \subseteq Transfer \X BOOLEAN
  /\ DOMAIN job = Worker
  /\ week \in 1..MaxCycle
  /\ jobs \in 0..MaxJobs
  /\ lost \subseteq Transfer
  /\ payoutFaults \in 0..MaxPayoutFaults

VendorInit ==
  /\ earning = [o \in VOrder |-> "none"]
  /\ balance = EmptyBalance
  /\ settlement = [s \in Settlement |-> NoRow]
  /\ withdrawal = [w \in Withdrawal |-> NoRow]
  /\ owedToVendor = 0 /\ heldInJournal = 0
  /\ discharged = [s \in Settlement |-> 0]
  /\ transfer = [t \in Transfer |-> "none"]
  /\ reports = {}
  /\ job = [p \in Worker |-> [kind |-> "idle", row |-> EmptyBalance, id |-> "none", n |-> 0]]
  /\ week = 1
  /\ jobs = 0
  /\ stale = FALSE /\ doubled = FALSE /\ clobbered = FALSE /\ overtaken = FALSE /\ lost = {}
  /\ payoutFaults = 0

Idle(p) == job[p].kind = "idle"
Working(kind) == {p \in Worker : job[p].kind = kind}
\* requestVendorWithdrawal holds the row lock: no other save of the row commits
Unlocked == Working("request") = {}

\* what a worker has in hand: the row as it read it, the id and a number
Start(p, kind, id, n) ==
  /\ Idle(p) /\ jobs < MaxJobs
  /\ jobs' = jobs + 1
  /\ job' = [job EXCEPT ![p] = [kind |-> kind, row |-> balance, id |-> id, n |-> n]]
Doing(p, kind) == job[p].kind = kind
Finish(p) == job' = [job EXCEPT ![p] = [kind |-> "idle", row |-> EmptyBalance, id |-> "none", n |-> 0]]
\* save(entity): every column of the row becomes the entity's
Save(p, row) ==
  /\ balance' = row
  /\ stale' = (stale \/ job[p].row # balance)

Floor0(n) == IF n < 0 THEN 0 ELSE n
Lesser(a, b) == IF a < b THEN a ELSE b
Unsettled == {o \in VOrder : earning[o] = "open"}
EarnedOrders == {o \in VOrder : earning[o] # "none"}
Available(row) == Floor0(row.accrued - row.paidOut - row.reserve - row.owed - row.held)

(***************************************************************************)
(* A delivered order: postDelivered's part for the vendor.                 *)
(***************************************************************************)
BeginAccrue(p, o) ==
  /\ earning[o] = "none"
  /\ \A q \in Working("accrue") : job[q].id # o
  /\ Start(p, "accrue", o, 0)
  /\ UNCHANGED <<rowVars, balance, journal, transfer, reports, week, history>>

\* the bonus is earned by the order that makes the count BonusAfter
Accrue(p) ==
  /\ Doing(p, "accrue") /\ Unlocked
  /\ LET bonus == IF Cardinality(EarnedOrders) + 1 = BonusAfter THEN Bonus ELSE 0
     IN /\ Save(p, [job[p].row EXCEPT !.accrued = @ + Share, !.bonus = @ + bonus])
        /\ owedToVendor' = owedToVendor + Share + bonus
  /\ earning' = [earning EXCEPT ![job[p].id] = "open"]
  /\ Finish(p)
  /\ UNCHANGED <<settlement, withdrawal, heldInJournal, discharged, transfer, reports, week, jobs,
                 doubled, clobbered, overtaken, lost, payoutFaults>>

(***************************************************************************)
(* The weekly settlement, by the interval or by an admin's request.  No    *)
(* index makes (vendor, cycle) unique.                                     *)
(***************************************************************************)
\* vendorSettlementPlan: debt first, then the reserve, rounded half up
Plan(gross, owed) ==
  LET debt == Lesser(owed, gross)
      net == gross - debt
      reserve == (net * ReservePct + 50) \div 100
  IN [debt |-> debt, eligible |-> net >= MinSettlement,
      reserve |-> reserve, payout |-> net - reserve]

FreeIds == Cardinality({s \in Settlement : settlement[s].status = "none"})
             - Cardinality(Working("settle") \union Working("release"))
FreshId == CHOOSE s \in Settlement : settlement[s].status = "none"
\* the rows it found open are the job's id
BeginSettle(p) ==
  /\ FreeIds > 0
  /\ \A s \in Settlement : settlement[s].status # "none" => settlement[s].cycle # week
  /\ Cardinality(Unsettled) * Share + balance.bonus > 0
  /\ Start(p, "settle", Unsettled, week)
  /\ UNCHANGED <<rowVars, balance, journal, transfer, reports, week, history>>

\* Mutant: the earnings stay open.
SweptNot(orders, s) == earning
\* the earnings a settlement takes are marked with it
Swept(orders, s) == [o \in VOrder |-> IF o \in orders THEN s ELSE earning[o]]

Settle(p) ==
  /\ Doing(p, "settle") /\ Unlocked
  /\ LET row == job[p].row
         gross == Cardinality(job[p].id) * Share + row.bonus
         plan == Plan(gross, row.owed)
     IN IF ~plan.eligible
        THEN UNCHANGED <<rowVars, balance, stale, doubled>>
        ELSE /\ settlement' = [settlement EXCEPT ![FreshId] =
                  [status |-> "READY", amount |-> plan.payout, gross |-> gross, cycle |-> job[p].n]]
             /\ earning' = Swept(job[p].id, FreshId)
             /\ Save(p, [row EXCEPT !.owed = @ - plan.debt, !.reserve = @ + plan.reserve, !.bonus = 0])
             /\ doubled' = (doubled \/ \E o \in job[p].id : earning[o] # "open")
             /\ UNCHANGED withdrawal
  /\ Finish(p)
  /\ UNCHANGED <<journal, transfer, reports, week, jobs, clobbered, overtaken, lost, payoutFaults>>

NextMonday ==
  /\ week < MaxCycle
  /\ week' = week + 1
  /\ UNCHANGED <<rowVars, balance, journal, transfer, reports, job, jobs, history>>

(***************************************************************************)
(* The payment service and the bus, as the ledger uses them: a transfer is *)
(* started once per reference, its answer says success, still pending, or  *)
(* an error (nothing was sent, the reference is known, or the answer was   *)
(* lost); the final state is reported on the bus.                          *)
(***************************************************************************)
CallTransfer(t, answer) ==
  \/ /\ transfer[t] = "none" /\ answer \in {"success", "pending"}
     /\ transfer' = [transfer EXCEPT ![t] = answer]
     /\ reports' = IF answer = "success" THEN reports \union {<<t, TRUE>>} ELSE reports
     /\ UNCHANGED <<lost, payoutFaults>>
  \/ /\ answer = "error"
     /\ UNCHANGED <<transfer, reports, lost, payoutFaults>>
  \/ /\ transfer[t] = "none" /\ answer = "error"
     /\ "lostAnswer" \in PayoutFault /\ payoutFaults < MaxPayoutFaults
     /\ payoutFaults' = payoutFaults + 1
     /\ lost' = lost \union {t}
     /\ transfer' = [transfer EXCEPT ![t] = "pending"]
     /\ UNCHANGED reports

TransferEnds(t) ==
  /\ transfer[t] = "pending"
  /\ \E ok \in BOOLEAN :
       /\ transfer' = [transfer EXCEPT ![t] = IF ok THEN "success" ELSE "failed"]
       /\ reports' = reports \union {<<t, ok>>}
  /\ UNCHANGED <<rowVars, balance, journal, job, week, jobs, history>>

(***************************************************************************)
(* Paying a settlement.  Not a transaction: each chunk is a call, and a    *)
(* failed one leaves the settlement FAILED, from which it is paid again.   *)
(***************************************************************************)
BeginPay(p, s) ==
  /\ settlement[s].status \in {"READY", "FAILED"}
  /\ settlement[s].amount > 0 /\ Chunks(settlement[s].amount) <= MaxChunks
  /\ Start(p, "pay", s, 1)
  /\ UNCHANGED <<rowVars, balance, journal, transfer, reports, week, history>>

PayChunk(p) ==
  /\ Doing(p, "pay")
  /\ job[p].n <= Chunks(settlement[job[p].id].amount)
  /\ \E answer \in {"success", "pending", "error"} :
       /\ CallTransfer(<<job[p].id, job[p].n>>, answer)
       /\ job' = [job EXCEPT ![p] = IF answer = "success"
                                    THEN [job[p] EXCEPT !.n = @ + 1] ELSE [job[p] EXCEPT !.kind = "payFailed"]]
  /\ UNCHANGED <<rowVars, balance, journal, week, jobs, stale, doubled, clobbered, overtaken>>

\* Mutant: the status is set whatever it has become.
PayFailedBlindly(p) ==
  /\ Doing(p, "payFailed")
  /\ settlement' = [settlement EXCEPT ![job[p].id].status = "FAILED"]
  /\ Finish(p)
  /\ UNCHANGED <<earning, withdrawal, balance, journal, transfer, reports, week, jobs, history>>

\* the update has a condition: only READY becomes FAILED
PayFailed(p) ==
  /\ Doing(p, "payFailed")
  /\ settlement' = [settlement EXCEPT ![job[p].id].status = IF @ = "READY" THEN "FAILED" ELSE @]
  /\ Finish(p)
  /\ UNCHANGED <<earning, withdrawal, balance, journal, transfer, reports, week, jobs, history>>

\* every chunk was answered with success: finalise right away
PayDone(p) ==
  /\ Doing(p, "pay")
  /\ job[p].n > Chunks(settlement[job[p].id].amount)
  /\ job' = [job EXCEPT ![p] = [job[p] EXCEPT !.kind = "paid"]]
  /\ UNCHANGED <<rowVars, balance, journal, transfer, reports, week, jobs, history>>

\* finalizeSettlementTransfer(ok): the claim locks the settlement until commit,
\* and the balance is read under it
Claimable(s) == settlement[s].status \in {"READY", "FAILED"}
BeingFinalised(s) == \E q \in Working("finalize") : job[q].id = s
Finalizing(s) == [kind |-> "finalize", row |-> balance, id |-> s, n |-> 0]
FinalizePaid(p) ==
  /\ Doing(p, "paid") /\ ~BeingFinalised(job[p].id)
  /\ job' = [job EXCEPT ![p] = IF Claimable(job[p].id) THEN Finalizing(job[p].id)
                               ELSE [kind |-> "idle", row |-> EmptyBalance, id |-> "none", n |-> 0]]
  /\ UNCHANGED <<rowVars, balance, journal, transfer, reports, week, jobs, history>>

Finalize(p) ==
  /\ Doing(p, "finalize") /\ Unlocked
  /\ LET s == job[p].id IN
       \* a reference posted before makes the transaction roll back
       IF discharged[s] > 0
       THEN UNCHANGED <<settlement, balance, stale, discharged, owedToVendor>>
       ELSE /\ settlement' = [settlement EXCEPT ![s].status = "PAID"]
            /\ Save(p, [job[p].row EXCEPT !.paidOut = @ + settlement[s].amount])
            /\ discharged' = [discharged EXCEPT ![s] = @ + 1]
            /\ owedToVendor' = owedToVendor - settlement[s].amount
  /\ Finish(p)
  /\ UNCHANGED <<earning, withdrawal, heldInJournal, transfer, reports, week, jobs,
                 doubled, clobbered, overtaken, lost, payoutFaults>>

\* the event's handler: success claims, failure reads READY and saves FAILED
OnSettlementReport(p, t, ok) ==
  /\ <<t, ok>> \in reports /\ t \in SettlementTransfer
  /\ ok => ~BeingFinalised(t[1])
  /\ reports' = reports \ {<<t, ok>>}
  /\ IF ok THEN IF Claimable(t[1]) THEN Start(p, "finalize", t[1], t[2]) ELSE Idle(p) /\ UNCHANGED <<job, jobs>>
           ELSE IF settlement[t[1]].status = "READY"
                THEN Start(p, "markFailed", t[1], t[2]) ELSE Idle(p) /\ UNCHANGED <<job, jobs>>
  /\ UNCHANGED <<rowVars, balance, journal, transfer, week, history>>

\* the save does not look at the status again
MarkFailed(p) ==
  /\ Doing(p, "markFailed") /\ ~BeingFinalised(job[p].id)
  /\ settlement' = [settlement EXCEPT ![job[p].id].status = "FAILED"]
  /\ clobbered' = (clobbered \/ settlement[job[p].id].status # "READY")
  /\ Finish(p)
  /\ UNCHANGED <<earning, withdrawal, balance, journal, transfer, reports, week, jobs,
                 stale, doubled, overtaken, lost, payoutFaults>>

\* the claim commits by itself; the balance and the journal follow
BeginReverse(p, s) ==
  /\ settlement[s].status = "PAID"
  /\ settlement' = [settlement EXCEPT ![s].status = "REVERSED"]
  /\ Start(p, "reverse", s, 0)
  /\ UNCHANGED <<earning, withdrawal, balance, journal, transfer, reports, week, history>>

Reverse(p) ==
  /\ Doing(p, "reverse") /\ Unlocked
  /\ LET amount == settlement[job[p].id].amount
     IN /\ Save(p, [job[p].row EXCEPT !.owed = @ + amount])
        /\ owedToVendor' = owedToVendor + amount
  /\ Finish(p)
  /\ UNCHANGED <<rowVars, heldInJournal, discharged, transfer, reports, week, jobs,
                 doubled, clobbered, overtaken, lost, payoutFaults>>

\* releaseVendorReserve: a READY settlement of the amount, then the balance
BeginRelease(p, n) ==
  /\ n \in 1..balance.reserve /\ FreeIds > 0
  /\ settlement' = [settlement EXCEPT ![FreshId] =
                      [status |-> "READY", amount |-> n, gross |-> 0, cycle |-> week]]
  /\ Start(p, "release", "none", n)
  /\ UNCHANGED <<earning, withdrawal, balance, journal, transfer, reports, week, history>>

Release(p) ==
  /\ Doing(p, "release") /\ Unlocked
  /\ Save(p, [job[p].row EXCEPT !.reserve = @ - job[p].n])
  /\ owedToVendor' = owedToVendor + job[p].n
  /\ Finish(p)
  /\ UNCHANGED <<rowVars, heldInJournal, discharged, transfer, reports, week, jobs,
                 doubled, clobbered, overtaken, lost, payoutFaults>>

(***************************************************************************)
(* The early withdrawal.  The request is one transaction that locks the    *)
(* balance row, holds the amount and the fee, and calls the payment        *)
(* service before it commits.                                              *)
(***************************************************************************)
RequestWithdrawal(p, w, amount) ==
  /\ withdrawal[w].status = "none" /\ \A q \in Worker : job[q].id # w
  /\ transfer[<<w, 0>>] = "none" /\ Unlocked
  /\ amount + Fee <= Available(balance)
  /\ Start(p, "request", w, amount)
  /\ UNCHANGED <<rowVars, balance, journal, transfer, reports, week, history>>

\* the legs of a settled and of a failed withdrawal: the failed ones repeat
\* the direction of the reservation
PaidLegs(amount) == [payable |-> 0, held |-> 0 - amount]
FailedLegs(amount) == [payable |-> 0 - (amount + Fee), held |-> amount]

StatusAfter(answer) ==
  CASE answer = "success" -> "PAID" [] answer = "pending" -> "PROCESSING" [] OTHER -> "FAILED"

CallWithdrawal(p) ==
  /\ Doing(p, "request")
  /\ LET w == job[p].id
         total == job[p].n + Fee
     IN \E answer \in {"success", "pending", "error"} :
       /\ CallTransfer(<<w, 0>>, answer)
       /\ withdrawal' = [withdrawal EXCEPT ![w] = [NoRow EXCEPT !.amount = job[p].n,
                                                        !.status = StatusAfter(answer)]]
       /\ balance' = CASE answer = "success" -> [balance EXCEPT !.paidOut = @ + total]
                       [] answer = "pending" -> [balance EXCEPT !.held = @ + total]
                       [] answer = "error"   -> balance
       /\ LET legs == CASE answer = "success" -> PaidLegs(job[p].n)
                         [] answer = "pending" -> [payable |-> 0, held |-> 0]
                         [] answer = "error"   -> FailedLegs(job[p].n)
          IN /\ owedToVendor' = owedToVendor - total + legs.payable
             /\ heldInJournal' = heldInJournal + job[p].n + legs.held
  /\ Finish(p)
  /\ UNCHANGED <<earning, settlement, discharged, week, jobs, stale, doubled, clobbered, overtaken>>

\* applyVendorWithdrawalResult from the bus: a row that is not there yet, or
\* is settled, makes the handler return and the report is gone
OnWithdrawalReport(p, t, ok) ==
  /\ <<t, ok>> \in reports /\ t \in WithdrawalTransfer
  /\ reports' = reports \ {<<t, ok>>}
  /\ IF withdrawal[t[1]].status = "PROCESSING"
     THEN Start(p, IF ok THEN "applyPaid" ELSE "applyFailed", t[1], 0) /\ UNCHANGED overtaken
     ELSE /\ Idle(p) /\ UNCHANGED <<job, jobs>>
          /\ overtaken' = (overtaken \/ withdrawal[t[1]].status = "none")
  /\ UNCHANGED <<rowVars, balance, journal, transfer, week, stale, doubled, clobbered, lost, payoutFaults>>

\* the row after a result: the hold is gone, and paid when the transfer was
ResultRow(row, total, paid) ==
  [row EXCEPT !.held = Floor0(@ - total), !.paidOut = IF paid THEN @ + total ELSE @]

\* a row another result settled meanwhile: the journal reference is taken and
\* the transaction rolls back
ApplyWithdrawal(p) ==
  /\ job[p].kind \in {"applyPaid", "applyFailed"} /\ Unlocked
  /\ LET w == job[p].id
         paid == Doing(p, "applyPaid")
         legs == IF paid THEN PaidLegs(withdrawal[w].amount) ELSE FailedLegs(withdrawal[w].amount)
     IN IF withdrawal[w].status # "PROCESSING"
        THEN UNCHANGED <<withdrawal, balance, stale, owedToVendor, heldInJournal>>
        ELSE /\ withdrawal' = [withdrawal EXCEPT ![w].status = IF paid THEN "PAID" ELSE "FAILED"]
             /\ Save(p, ResultRow(job[p].row, withdrawal[w].amount + Fee, paid))
             /\ owedToVendor' = owedToVendor + legs.payable
             /\ heldInJournal' = heldInJournal + legs.held
  /\ Finish(p)
  /\ UNCHANGED <<earning, settlement, discharged, transfer, reports, week, jobs,
                 doubled, clobbered, overtaken, lost, payoutFaults>>

\* a penalty adds to the vendor's debt (the read and the save of its handler
\* are those of BeginPenalty and Penalty); bound: one while nothing is owed
BeginPenalty(p) ==
  /\ balance.owed = 0
  /\ Start(p, "penalty", "none", 1)
  /\ UNCHANGED <<rowVars, balance, journal, transfer, reports, week, history>>
Penalty(p) ==
  /\ Doing(p, "penalty") /\ Unlocked
  /\ Save(p, [job[p].row EXCEPT !.owed = @ + job[p].n])
  /\ Finish(p)
  /\ UNCHANGED <<rowVars, journal, transfer, reports, week, jobs, doubled, clobbered, overtaken, lost, payoutFaults>>

\* the process of a worker ends, or a call of it throws (a settlement whose transfer
\* call timed out stays READY): a transaction leaves nothing, a report that was
\* being handled is delivered again
PayoutCrash(p) ==
  /\ "crash" \in PayoutFault /\ payoutFaults < MaxPayoutFaults
  /\ ~Idle(p)
  /\ payoutFaults' = payoutFaults + 1
  /\ reports' = reports \union
       (CASE job[p].kind = "finalize" /\ job[p].n > 0 -> {<<<<job[p].id, job[p].n>>, TRUE>>}
          [] job[p].kind = "markFailed"               -> {<<<<job[p].id, job[p].n>>, FALSE>>}
          [] job[p].kind = "applyPaid"                -> {<<<<job[p].id, 0>>, TRUE>>}
          [] job[p].kind = "applyFailed"              -> {<<<<job[p].id, 0>>, FALSE>>}
          [] OTHER -> {})
  /\ \/ UNCHANGED <<transfer, lost>>
     \* a request may have reached the payment service before it died
     \/ /\ Doing(p, "request")
        /\ transfer' = [transfer EXCEPT ![<<job[p].id, 0>>] = "pending"]
        /\ lost' = lost \union {<<job[p].id, 0>>}
  /\ Finish(p)
  /\ UNCHANGED <<rowVars, balance, journal, week, jobs, stale, doubled, clobbered, overtaken>>

VendorNext ==
  \/ \E p \in Worker :
       \/ \E o \in VOrder : BeginAccrue(p, o)
       \/ Accrue(p) \/ BeginSettle(p) \/ Settle(p)
       \/ \E s \in Settlement : BeginPay(p, s) \/ BeginReverse(p, s)
       \/ PayChunk(p) \/ PayFailed(p) \/ PayDone(p) \/ FinalizePaid(p) \/ Finalize(p)
       \/ \E t \in Transfer, ok \in BOOLEAN : OnSettlementReport(p, t, ok) \/ OnWithdrawalReport(p, t, ok)
       \/ MarkFailed(p) \/ Reverse(p) \/ Release(p)
       \/ \E n \in Amount : BeginRelease(p, n)
       \/ \E w \in Withdrawal, n \in Amount : RequestWithdrawal(p, w, n)
       \/ CallWithdrawal(p) \/ ApplyWithdrawal(p)
       \/ BeginPenalty(p) \/ Penalty(p)
       \/ PayoutCrash(p)
  \/ \E t \in Transfer : TransferEnds(t)
  \/ NextMonday

VendorSpec == VendorInit /\ [][VendorNext]_payoutVars

(***************************************************************************)
(* Properties.                                                             *)
(***************************************************************************)
\* what the delivered orders have brought
Brought == Cardinality(EarnedOrders) * Share
             + (IF Cardinality(EarnedOrders) >= BonusAfter /\ BonusAfter > 0 THEN Bonus ELSE 0)
OnHold(w, fee) == IF withdrawal[w].status = "PROCESSING" THEN withdrawal[w].amount + fee ELSE 0
Withdrawn(w) == IF withdrawal[w].status \in {"PROCESSING", "PAID"} THEN withdrawal[w].amount + Fee ELSE 0
\* a release owes its amount again, and so does a reversal; a payment discharges it
Credited(s) ==
  (IF settlement[s].status # "none" /\ settlement[s].gross = 0 THEN settlement[s].amount ELSE 0)
  + (IF settlement[s].status = "REVERSED" THEN settlement[s].amount ELSE 0)
  - discharged[s] * settlement[s].amount

\* The vendor's books agree with the rows they summarise, however many runs,
\* requests and reports overlap.  Settlements take what the orders and the bonus
\* brought, once, unless two runs read the same open earnings (no index stops
\* them); the hold is the withdrawals in flight; a save from a stale row may
\* break either.  The journal is written beside the row and stays right where
\* the row does not: what it owes the vendor is what was earned, reversed and
\* released, less what was discharged and withdrawn, unless a reversal or a
\* release is half done, or a withdrawal failed (its legs repeat those of the
\* reservation instead of undoing them), or the save that does not look wrote
\* FAILED over a reversal.
VendorBooks ==
  /\ VendorTypeOK
  /\ SumFunctionOnSet([s \in Settlement |-> settlement[s].gross], Settlement) <= Brought \/ doubled \/ stale
  /\ balance.held = SumFunctionOnSet([w \in Withdrawal |-> OnHold(w, Fee)], Withdrawal) \/ stale
  /\ \/ /\ heldInJournal = SumFunctionOnSet([w \in Withdrawal |-> OnHold(w, 0)], Withdrawal)
        /\ owedToVendor = Brought + SumFunctionOnSet([s \in Settlement |-> Credited(s)], Settlement)
                                  - SumFunctionOnSet([w \in Withdrawal |-> Withdrawn(w)], Withdrawal)
     \/ Working("reverse") \union Working("release") # {} \/ payoutFaults > 0 \/ clobbered
     \/ \E w \in Withdrawal : withdrawal[w].status = "FAILED"

\* What the rows say is what happened to the money: paid was sent, failed was
\* not (unless the answer was lost), and a withdrawal whose transfer has ended
\* still has its result coming (unless it overtook the row, and was dropped).
\* A settlement the journal has discharged is not payable again: neither an
\* admin's failed call nor the result of another chunk puts it back, except the
\* one save that does not look (finalizeSettlementTransfer with a failure, read
\* before the success committed).
OutcomeIsTransfers ==
  /\ \A w \in Withdrawal : LET t == <<w, 0>> IN
       /\ withdrawal[w].status = "PAID" => transfer[t] = "success"
       /\ withdrawal[w].status = "FAILED" => transfer[t] \in {"none", "failed"} \/ t \in lost
       /\ withdrawal[w].status = "PROCESSING" /\ transfer[t] # "pending" =>
            \/ \E ok \in BOOLEAN : <<t, ok>> \in reports
            \/ \E p \in Worker : job[p].id = w
            \/ overtaken
  /\ \A s \in Settlement :
       /\ discharged[s] <= 1
       /\ discharged[s] = 1 => settlement[s].status \in {"PAID", "REVERSED"} \/ clobbered
       /\ settlement[s].status = "PAID" =>
            \E t \in SettlementTransfer : t[1] = s /\ transfer[t] = "success"
=============================================================================
