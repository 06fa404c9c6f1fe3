---------------------------- MODULE CustomerMoney ----------------------------
(***************************************************************************)
(* What the ledger keeps for one customer (apps/ledger/src/                *)
(* ledger.service.ts): the wallet credit and its log, the journal's        *)
(* liability for it, loyalty points, and the disputes and chargebacks of   *)
(* delivered orders; and the referral programme that pays into it          *)
(* (apps/referral/src/referral.service.ts).                                *)
(*                                                                         *)
(* creditCustomerWallet and spendCustomerCredit run outside a transaction: *)
(* the log is read, then the balance, the balance is saved, the log row    *)
(* inserted under its unique ref, and the journal posted, four steps here, *)
(* with the rollback a clash of refs leads to.  A caller that has a        *)
(* transaction of its own (a delivery, the resolution of a case) reads     *)
(* when it begins and writes all when it commits.                          *)
(*                                                                         *)
(* The debts of the party at fault are VendorPayout's and RiderWallet's.   *)
(* Not modelled: the monthly cap on claims and the phones that have no     *)
(* account yet.  lifetimeCredited - lifetimeUsed repeats the balance.      *)
(***************************************************************************)
EXTENDS Integers, FiniteSets

CONSTANTS
  Customer, Referrer, \* the two wallets
  Claim,       \* referral rows, all of Customer's phone on Referrer's code
  Sale,        \* delivered orders of Customer
  Errand,      \* those with an unspent budget to give back
  Clerk,       \* requests, jobs and event handlers that may be under way together
  Reward,      \* credit for a referral, to each side
  Unspent,     \* the budget an errand gives back
  Refund,      \* what a dispute gives back
  Points,      \* points a delivered order earns; redeemed in blocks of as many
  Spending,    \* what a checkout asks for
  Story,       \* what a behaviour may contain: see StoryType
  MaxOperations, \* bound: operations begun in any story
  CreditFault  \* faults that may happen, a subset of CreditFaults

Work == {"claim", "deliver", "qualify", "block", "grant", "redeem", "spend", "expire", "dispute", "chargeback"}
CreditFaults == {"dies", "callFails", "lostAnswer", "insertFails", "postFails"}
StoryType == [work : SUBSET Work, sales : SUBSET Sale, steps : Nat, faults : Nat]

ASSUME CreditAssumption ==
  /\ Customer # Referrer /\ Errand \subseteq Sale
  /\ {Reward, Unspent, Refund, Points, Spending} \subseteq Nat \ {0}
  /\ Story \subseteq StoryType /\ \A s \in Story : s.steps <= MaxOperations
  /\ MaxOperations \in Nat /\ IsFiniteSet(Clerk) /\ IsFiniteSet(Claim)
  /\ CreditFault \subseteq CreditFaults

VARIABLES
  story,      \* what this behaviour may contain
  wallet,     \* CustomerCredit: the balance of each user
  creditLog,  \* CustomerCreditLog: the refs that have a row
  lapsed,     \* refs whose row has its expiredAt
  liability,  \* journal: net credit of customer_wallet_credit
  points,     \* CustomerLoyalty of Customer
  referral,   \* status of each Referral row
  delivered,  \* orders whose delivery the ledger has posted
  heard,      \* orders whose delivery the referral service has handled
  dispute,    \* the Dispute of each order: status and refundedPesewas
  chargeback, \* the Chargeback of each order
  pspRefund,  \* refunds the payment service was asked for
  bankLoss,   \* journal: lost chargebacks posted
  clerk,      \* what each clerk does, with what it has read
  creditSteps, \* operations begun
  landed,     \* history: how often the amount of each ref is in a balance
  stale,      \* history: what a save put back: "wallet", "points"
  undone,     \* history: refs whose operation ended between two statements
  tangled,    \* history: orders whose cases overlapped or went on unanswered
  swallowed,  \* history: refs whose insert failed and was taken for a clash
  twins,      \* history: two claims overlapped
  barred,     \* history: claims blocked before anything paid them
  ownMoney,   \* history: credit of Customer that no attribution calls a referral's
  lent,       \* history: Customer spent while a credit might yet be taken out again
  creditTroubles \* how many faults have happened

creditRows == <<wallet, creditLog, lapsed, liability, points>>
caseRows   == <<dispute, chargeback, pspRefund, bankLoss>>
creditTold == <<landed, stale, undone, swallowed, tangled, twins, barred, ownMoney, lent>>
creditVars == <<story, creditRows, referral, delivered, heard, caseRows, clerk, creditSteps, creditTold, creditTroubles>>

Counts == 1..MaxOperations
Ref == ({"referrer", "referee"} \X Claim) \union ({"dispute", "unspent"} \X Sale)
       \union ({"grant", "loyalty", "spend"} \X Counts)
NoRef == <<"none", 0>>
Owner(ref) == IF ref[1] = "referrer" THEN Referrer ELSE Customer
Logged(ref) == ref \in creditLog
Off == [work |-> "none", at |-> "idle", id |-> NoRef, ref |-> NoRef, sum |-> 0, seen |-> 0, had |-> 0]

CreditTypeOK ==
  /\ story \in Story
  /\ wallet \in [{Customer, Referrer} -> Nat] /\ points \in Nat /\ liability \in Int
  /\ creditLog \subseteq Ref /\ lapsed \subseteq creditLog /\ \A ref \in lapsed : ref[1] = "referee"
  /\ referral \in [Claim -> {"none", "PENDING", "CREDITED", "BLOCKED"}]
  /\ delivered \subseteq Sale /\ heard \subseteq Sale \X Claim
  /\ \A o \in Sale : dispute[o].status \in {"none", "OPEN", "RESOLVED"} /\ dispute[o].refunded \in {0, Refund}
  /\ chargeback \in [Sale -> {"none", "OPEN", "WON", "LOST"}]
  /\ \A h \in Clerk : clerk[h].work \in Work \union {"none"} /\ clerk[h].ref \in Ref \union {NoRef}
  /\ creditSteps \in 0..story.steps /\ creditTroubles \in 0..story.faults

CreditInit ==
  /\ story \in Story
  /\ wallet = [u \in {Customer, Referrer} |-> 0] /\ points = 0 /\ liability = 0
  /\ creditLog = {} /\ lapsed = {}
  /\ referral = [q \in Claim |-> "none"] /\ delivered = {} /\ heard = {}
  /\ dispute = [o \in Sale |-> [status |-> "none", refunded |-> 0]]
  /\ chargeback = [o \in Sale |-> "none"]
  /\ pspRefund = [o \in Sale |-> 0] /\ bankLoss = [o \in Sale |-> 0]
  /\ clerk = [h \in Clerk |-> Off] /\ creditSteps = 0
  /\ landed = [ref \in Ref |-> 0]
  /\ stale = {} /\ undone = {} /\ swallowed = {} /\ tangled = {} /\ twins = FALSE /\ barred = {} /\ ownMoney = 0 /\ lent = FALSE
  /\ creditTroubles = 0

-----------------------------------------------------------------------------
(* Beginning and ending *)

Counted(work) == work \in story.work /\ creditSteps < story.steps /\ creditSteps' = creditSteps + 1
Begins(h, work, at, id, ref, sum) ==
  /\ clerk[h] = Off /\ Counted(work)
  /\ clerk' = [clerk EXCEPT ![h] = [work |-> work, at |-> at, id |-> id, ref |-> ref, sum |-> sum,
                                    seen |-> wallet[Customer], had |-> points]]
  /\ UNCHANGED <<story, creditTroubles>>
Is(h, at) == clerk[h].at = at
Moves(h, at) == clerk' = [clerk EXCEPT ![h].at = at] /\ UNCHANGED <<story, creditSteps, creditTroubles>>
Finishes(h) == clerk' = [clerk EXCEPT ![h] = Off] /\ UNCHANGED <<story, creditSteps, creditTroubles>>
Mishap(f) == f \in CreditFault /\ creditTroubles < story.faults /\ creditTroubles' = creditTroubles + 1
GivesUp(h, f) == Mishap(f) /\ clerk' = [clerk EXCEPT ![h] = Off] /\ UNCHANGED <<story, creditSteps>>

\* a save of the balance as it was read, changed by some amount
SavesWallet(u, seen, now) ==
  /\ wallet' = [wallet EXCEPT ![u] = now]
  /\ stale' = IF wallet[u] # seen THEN stale \union {"wallet"} ELSE stale
Lands(ref) == landed' = [landed EXCEPT ![ref] = @ + 1]
TakenBack(ref) == landed' = [landed EXCEPT ![ref] = @ - 1]
AtLeast0(n) == IF n < 0 THEN 0 ELSE n
AtMost(n, limit) == IF n < limit THEN n ELSE limit

-----------------------------------------------------------------------------
(* creditCustomerWallet and spendCustomerCredit *)

\* the credit is applied: what its caller does next
Proceeds(h) ==
  LET t == clerk[h] IN
  IF t.work # "qualify" THEN Off
  ELSE IF t.ref[1] = "referrer" THEN [t EXCEPT !.at = "read", !.ref = <<"referee", t.id>>]
  ELSE [t EXCEPT !.at = "mark", !.ref = NoRef]
GoesOn(h) == clerk' = [clerk EXCEPT ![h] = Proceeds(h)] /\ UNCHANGED <<story, creditSteps, creditTroubles>>

Signed(h) == IF clerk[h].work = "spend" THEN 0 - clerk[h].sum ELSE clerk[h].sum

CreditRead(h) ==
  /\ Is(h, "read")
  /\ LET t == clerk[h]  has == wallet[Owner(t.ref)]  n == IF t.work = "spend" THEN AtMost(t.sum, has) ELSE t.sum IN
     clerk' = [clerk EXCEPT ![h] =
       IF Logged(t.ref) THEN Proceeds(h) ELSE IF n = 0 THEN Off ELSE [t EXCEPT !.at = "save", !.seen = has, !.sum = n]]
  /\ UNCHANGED <<story, creditSteps, creditTroubles, creditRows, referral, delivered, heard, caseRows, creditTold>>

\* a credit of Customer's that an expiry or a rollback may yet take out
MayBeTaken(ref) ==
  /\ Owner(ref) = Customer /\ ref[1] # "spend"
  /\ landed[ref] > IF Logged(ref) /\ (ref[1] = "referee" => ref \in lapsed) THEN 1 ELSE 0
CreditSave(h) ==
  /\ Is(h, "save")
  /\ LET t == clerk[h]  u == Owner(t.ref) IN
     /\ SavesWallet(u, t.seen, t.seen + Signed(h))
     /\ Lands(t.ref)
     /\ ownMoney' = IF t.ref[1] \in {"referrer", "referee"} THEN ownMoney ELSE AtLeast0(ownMoney + Signed(h))
     /\ lent' = (lent \/ (t.work = "spend" /\ \E ref \in Ref : MayBeTaken(ref)))
  /\ Moves(h, "log")
  /\ UNCHANGED <<creditLog, lapsed, liability, points, referral, delivered, heard, caseRows, undone, swallowed, tangled, twins, barred>>

\* Mutant: the row without the unique index on ref.
NeverClashes(ref) == FALSE
Clashes(ref) == Logged(ref)
CreditLogged(h) ==
  /\ Is(h, "log")
  /\ IF Clashes(clerk[h].ref) THEN Moves(h, "undo") /\ UNCHANGED creditLog
     ELSE Moves(h, "post") /\ creditLog' = creditLog \union {clerk[h].ref}
  /\ UNCHANGED <<wallet, lapsed, liability, points, referral, delivered, heard, caseRows, creditTold>>

\* any other error of the insert is taken for a clash as well
InsertFails(h) ==
  /\ Is(h, "log") /\ Mishap("insertFails")
  /\ clerk' = [clerk EXCEPT ![h].at = "undo"]
  /\ swallowed' = swallowed \union {clerk[h].ref}
  /\ UNCHANGED <<story, creditSteps, creditRows, referral, delivered, heard, caseRows,
                 landed, stale, undone, tangled, twins, barred, ownMoney, lent>>

\* somebody else has applied it: the balance is put back as it was read
CreditUndo(h) ==
  /\ Is(h, "undo")
  /\ SavesWallet(Owner(clerk[h].ref), clerk[h].seen + Signed(h), clerk[h].seen)
  /\ TakenBack(clerk[h].ref)
  /\ ownMoney' = IF clerk[h].ref[1] \in {"referrer", "referee", "spend"} THEN ownMoney ELSE AtLeast0(ownMoney - Signed(h))
  /\ GoesOn(h)
  /\ UNCHANGED <<creditLog, lapsed, liability, points, referral, delivered, heard, caseRows,
                 undone, swallowed, tangled, twins, barred, lent>>

CreditPost(h) ==
  /\ Is(h, "post")
  /\ liability' = liability + Signed(h)
  /\ GoesOn(h)
  /\ UNCHANGED <<wallet, creditLog, lapsed, points, referral, delivered, heard, caseRows, creditTold>>

\* the caller stops waiting for the answer: the ledger goes on without it
AnswerLost(h) ==
  /\ clerk[h].work = "qualify" /\ clerk[h].at \in {"save", "log", "undo", "post"}
  /\ Mishap("lostAnswer")
  /\ clerk' = [clerk EXCEPT ![h].work = "grant"]
  /\ UNCHANGED <<story, creditSteps, creditRows, referral, delivered, heard, caseRows, creditTold>>

-----------------------------------------------------------------------------
(* Its callers *)

\* adminCreditCustomer, behind an approval
Grant(h) ==
  /\ Begins(h, "grant", "read", NoRef, <<"grant", creditSteps + 1>>, Reward)
  /\ UNCHANGED <<creditRows, referral, delivered, heard, caseRows, creditTold>>

Spend(h) ==
  /\ Begins(h, "spend", "read", NoRef, <<"spend", creditSteps + 1>>, Spending)
  /\ UNCHANGED <<creditRows, referral, delivered, heard, caseRows, creditTold>>

BeginRedeem(h) ==
  /\ points >= Points
  /\ Begins(h, "redeem", "take", NoRef, <<"loyalty", creditSteps + 1>>, Points)
  /\ UNCHANGED <<creditRows, referral, delivered, heard, caseRows, creditTold>>

SavesPoints(h, now) ==
  /\ points' = now
  /\ stale' = (IF points # clerk[h].had THEN {"points"} ELSE {}) \union stale

PointsLeft(had) == had - Points
TakePoints(h) ==
  /\ Is(h, "take")
  /\ SavesPoints(h, PointsLeft(clerk[h].had))
  /\ Moves(h, "read")
  /\ UNCHANGED <<wallet, creditLog, lapsed, liability, referral, delivered, heard, caseRows,
                 landed, undone, swallowed, tangled, twins, barred, ownMoney, lent>>

\* postDelivered for the customer: awardLoyalty, and the unspent budget of an
\* errand, whose journal legs belong to the delivery's own entry
BeginDelivery(h, o) ==
  /\ o \notin delivered /\ \A g \in Clerk : clerk[g].work = "deliver" => clerk[g].id # o
  /\ Begins(h, "deliver", "commit", o, IF o \in Errand THEN <<"unspent", o>> ELSE NoRef, Unspent)
  /\ UNCHANGED <<creditRows, referral, delivered, heard, caseRows, creditTold>>

Delivery(h) ==
  /\ clerk[h].work = "deliver"
  /\ LET t == clerk[h]  old == (IF points # t.had THEN {"points"} ELSE {})
                               \union (IF t.ref # NoRef /\ wallet[Customer] # t.seen THEN {"wallet"} ELSE {}) IN
     /\ delivered' = delivered \union {t.id}
     /\ points' = t.had + Points
     /\ stale' = stale \union old
     /\ IF t.ref = NoRef THEN UNCHANGED <<wallet, creditLog, liability, landed, ownMoney>>
        ELSE /\ wallet' = [wallet EXCEPT ![Customer] = t.seen + t.sum]
             /\ creditLog' = creditLog \union {t.ref}
             /\ liability' = liability + t.sum
             /\ Lands(t.ref)
             /\ ownMoney' = ownMoney + t.sum
  /\ Finishes(h)
  /\ UNCHANGED <<lapsed, referral, heard, caseRows, undone, swallowed, tangled, twins, barred, lent>>

\* Mutant: what is there, not what was given.
LapsingAll(has) == has
Lapsing(has) == AtMost(Reward, has)
\* expireReferralCredits: one row after another, by one job
BeginExpire(h, q) ==
  LET ref == <<"referee", q>> IN
  /\ Logged(ref) /\ ref \notin lapsed /\ \A g \in Clerk : clerk[g].work # "expire"
  /\ Begins(h, "expire", "lapse", q, ref, Lapsing(wallet[Customer]))
  /\ UNCHANGED <<creditRows, referral, delivered, heard, caseRows, creditTold>>

Lapse(h) ==
  /\ Is(h, "lapse")
  /\ SavesWallet(Customer, clerk[h].seen, clerk[h].seen - clerk[h].sum)
  /\ Moves(h, "stamp")
  /\ UNCHANGED <<creditLog, lapsed, liability, points, referral, delivered, heard, caseRows,
                 landed, undone, swallowed, tangled, twins, barred, ownMoney, lent>>

Stamp(h) ==
  /\ Is(h, "stamp")
  /\ lapsed' = lapsed \union {clerk[h].ref}
  /\ Moves(h, "writeOff")
  /\ UNCHANGED <<wallet, creditLog, liability, points, referral, delivered, heard, caseRows, creditTold>>

WriteOff(h) ==
  /\ Is(h, "writeOff")
  /\ liability' = liability - clerk[h].sum
  /\ Finishes(h)
  /\ UNCHANGED <<wallet, creditLog, lapsed, points, referral, delivered, heard, caseRows, creditTold>>

\* the ledger's process ends, or the journal refuses (a locked period)
Unfinished(h) == IF clerk[h].at \in {"log", "undo", "post", "stamp", "writeOff"}
                    \/ (clerk[h].work = "redeem" /\ clerk[h].at # "take")
                 THEN {clerk[h].ref} ELSE {}
LedgerDies(h) ==
  /\ clerk[h] # Off /\ GivesUp(h, "dies")
  /\ undone' = undone \union Unfinished(h)
  /\ tangled' = tangled \union (IF clerk[h].work = "dispute" /\ clerk[h].at = "decide" THEN {clerk[h].id} ELSE {})
  /\ UNCHANGED <<creditRows, referral, delivered, heard, caseRows, landed, stale, swallowed, twins, barred, ownMoney, lent>>

PostFails(h) ==
  /\ clerk[h].at \in {"post", "writeOff"} /\ GivesUp(h, "postFails")
  /\ undone' = undone \union {clerk[h].ref}
  /\ UNCHANGED <<creditRows, referral, delivered, heard, caseRows, landed, stale, swallowed, tangled, twins, barred, ownMoney, lent>>

-----------------------------------------------------------------------------
(* The referral programme *)

\* claim: a phone that has claimed this code before gets that row back
BeginClaim(h) ==
  /\ \A q \in Claim : referral[q] = "none"
  /\ Begins(h, "claim", "insert", NoRef, NoRef, 0)
  /\ UNCHANGED <<creditRows, referral, delivered, heard, caseRows, creditTold>>

InsertClaim(h, q) ==
  /\ Is(h, "insert") /\ referral[q] = "none"
  /\ referral' = [referral EXCEPT ![q] = "PENDING"]
  /\ twins' = (twins \/ \E p \in Claim : referral[p] # "none")
  /\ Finishes(h)
  /\ UNCHANGED <<creditRows, delivered, heard, caseRows, landed, stale, undone, swallowed, tangled, barred, ownMoney, lent>>

\* what isOrderRefunded sees of the cases
Refunded(o) == chargeback[o] = "LOST" \/ dispute[o].refunded > 0 \/ Logged(<<"unspent", o>>)

\* Mutant: whatever is not credited yet.
PayableUnlessCredited(q) == referral[q] \in {"PENDING", "BLOCKED"}
\* onDelivered: the envelope is taken once; a row left PENDING waits for another order
Payable(q) == referral[q] = "PENDING"
BeginQualify(h, o, q) ==
  /\ <<o, q>> \notin heard /\ heard' = heard \union {<<o, q>>}
  /\ Payable(q) /\ ~Refunded(o)
  /\ Begins(h, "qualify", "read", q, <<"referrer", q>>, Reward)
  /\ UNCHANGED <<creditRows, referral, delivered, caseRows, creditTold>>

CreditCallFails(h) ==
  /\ clerk[h].work = "qualify" /\ Is(h, "read") /\ GivesUp(h, "callFails")
  /\ UNCHANGED <<creditRows, referral, delivered, heard, caseRows, creditTold>>

Mark(h) ==
  /\ Is(h, "mark")
  /\ referral' = [referral EXCEPT ![clerk[h].id] = "CREDITED"]
  /\ Finishes(h)
  /\ UNCHANGED <<creditRows, delivered, heard, caseRows, creditTold>>

Paid(q) == Logged(<<"referrer", q>>) \/ Logged(<<"referee", q>>)
Block(q) ==
  /\ referral[q] \in {"PENDING", "CREDITED"} /\ Counted("block")
  /\ referral' = [referral EXCEPT ![q] = "BLOCKED"]
  /\ barred' = barred \union
       (IF Paid(q) \/ \E h \in Clerk : clerk[h].ref[2] = q THEN {} ELSE {q})
  /\ UNCHANGED <<story, creditRows, delivered, heard, caseRows, clerk, landed, stale, undone, swallowed, tangled, twins,
                 ownMoney, lent, creditTroubles>>

-----------------------------------------------------------------------------
(* Disputes and chargebacks *)

Tangles(o) == tangled' = tangled \union (IF \E g \in Clerk : clerk[g].id = o /\ clerk[g].work \in {"dispute", "chargeback"}
                                         THEN {o} ELSE {})
OpenDispute(o) ==
  /\ dispute[o].status = "none" /\ Counted("dispute")
  /\ dispute' = [dispute EXCEPT ![o].status = "OPEN"]
  /\ UNCHANGED <<story, creditRows, referral, delivered, heard, chargeback, pspRefund, bankLoss, clerk, creditTold, creditTroubles>>

OpenChargeback(o) ==
  /\ chargeback[o] = "none" /\ Counted("chargeback")
  /\ chargeback' = [chargeback EXCEPT ![o] = "OPEN"]
  /\ UNCHANGED <<story, creditRows, referral, delivered, heard, dispute, pspRefund, bankLoss, clerk, creditTold, creditTroubles>>

PaidToTheBank(o) == chargeback[o] = "LOST"
BeginDecision(h, o, way) ==
  /\ dispute[o].status = "OPEN"
  /\ way # "no_refund" => ~PaidToTheBank(o)
  /\ Begins(h, "dispute", IF way = "psp" THEN "ask" ELSE "decide", o,
            IF way = "wallet" THEN <<"dispute", o>> ELSE NoRef, IF way = "no_refund" THEN 0 ELSE Refund)
  /\ Tangles(o)
  /\ UNCHANGED <<creditRows, referral, delivered, heard, caseRows, landed, stale, undone, swallowed, twins, barred, ownMoney, lent>>

AskPayment(h) ==
  /\ Is(h, "ask")
  /\ pspRefund' = [pspRefund EXCEPT ![clerk[h].id] = @ + 1]
  /\ \/ Moves(h, "decide") /\ UNCHANGED tangled
     \/ GivesUp(h, "lostAnswer") /\ tangled' = tangled \union {clerk[h].id}
  /\ UNCHANGED <<creditRows, referral, delivered, heard, dispute, chargeback, bankLoss,
                 landed, stale, undone, swallowed, twins, barred, ownMoney, lent>>

PaymentRefuses(h) ==
  /\ Is(h, "ask") /\ GivesUp(h, "callFails")
  /\ UNCHANGED <<creditRows, referral, delivered, heard, caseRows, creditTold>>

\* the commit; a wallet refund whose ref is taken aborts it
Decide(h) ==
  /\ Is(h, "decide")
  /\ LET t == clerk[h]  o == clerk[h].id IN
     /\ t.ref # NoRef => ~Logged(t.ref)
     /\ dispute' = [dispute EXCEPT ![o] = [status |-> "RESOLVED", refunded |-> t.sum]]
     /\ IF t.ref = NoRef THEN UNCHANGED <<wallet, creditLog, liability, landed, stale, ownMoney>>
        ELSE /\ SavesWallet(Customer, t.seen, t.seen + t.sum)
             /\ creditLog' = creditLog \union {t.ref}
             /\ liability' = liability + t.sum
             /\ Lands(t.ref)
             /\ ownMoney' = ownMoney + t.sum
  /\ Finishes(h)
  /\ UNCHANGED <<lapsed, points, referral, delivered, heard, chargeback, pspRefund, bankLoss,
                 undone, swallowed, tangled, twins, barred, lent>>

DecisionAborts(h) ==
  /\ Is(h, "decide") /\ clerk[h].ref # NoRef /\ Logged(clerk[h].ref)
  /\ Finishes(h)
  /\ UNCHANGED <<creditRows, referral, delivered, heard, caseRows, creditTold>>

\* Mutant: the chargeback does not look for a refunded dispute.
NotAsked(o) == FALSE
PaidToTheCustomer(o) == dispute[o].refunded > 0
BeginCase(h, o, sum) ==
  /\ chargeback[o] = "OPEN"
  /\ sum > 0 => ~PaidToTheCustomer(o)
  /\ Begins(h, "chargeback", "close", o, NoRef, sum)
  /\ Tangles(o)
  /\ UNCHANGED <<creditRows, referral, delivered, heard, caseRows, landed, stale, undone, swallowed, twins, barred, ownMoney, lent>>

CloseCase(h) ==
  /\ Is(h, "close")
  /\ LET o == clerk[h].id  lost == clerk[h].sum > 0 IN
     /\ chargeback' = [chargeback EXCEPT ![o] = IF lost THEN "LOST" ELSE "WON"]
     /\ bankLoss' = [bankLoss EXCEPT ![o] = IF lost THEN @ + 1 ELSE @]
  /\ Finishes(h)
  /\ UNCHANGED <<creditRows, referral, delivered, heard, dispute, pspRefund, creditTold>>

\* the journal refuses a ref that has its legs
CaseAborts(h) ==
  /\ Is(h, "close") /\ clerk[h].sum > 0 /\ bankLoss[clerk[h].id] > 0
  /\ Finishes(h)
  /\ UNCHANGED <<creditRows, referral, delivered, heard, caseRows, creditTold>>

-----------------------------------------------------------------------------
CreditNext ==
  \/ \E h \in Clerk :
       \/ CreditRead(h) \/ CreditSave(h) \/ CreditLogged(h) \/ InsertFails(h) \/ CreditUndo(h) \/ CreditPost(h)
       \/ AnswerLost(h) \/ LedgerDies(h) \/ PostFails(h)
       \/ Grant(h) \/ Spend(h) \/ BeginRedeem(h) \/ TakePoints(h)
       \/ Delivery(h) \/ Lapse(h) \/ Stamp(h) \/ WriteOff(h)
       \/ BeginClaim(h) \/ CreditCallFails(h) \/ Mark(h)
       \/ AskPayment(h) \/ PaymentRefuses(h) \/ Decide(h) \/ DecisionAborts(h) \/ CloseCase(h) \/ CaseAborts(h)
       \/ \E o \in story.sales : \/ BeginDelivery(h, o)
                                 \/ \E way \in {"no_refund", "wallet", "psp"} : BeginDecision(h, o, way)
                                 \/ \E sum \in {0, Refund} : BeginCase(h, o, sum)
                                 \/ \E q \in Claim : BeginQualify(h, o, q)
       \/ \E q \in Claim : BeginExpire(h, q) \/ InsertClaim(h, q)
  \/ \E q \in Claim : Block(q)
  \/ \E o \in story.sales : OpenDispute(o) \/ OpenChargeback(o)

CreditSpec == CreditInit /\ [][CreditNext]_creditVars

-----------------------------------------------------------------------------
(* Safety *)

Settled == \A h \in Clerk : clerk[h] = Off
Books(row) == Settled /\ undone = {} /\ row \notin stale

\* When nothing is under way the customers' balances are what the journal owes
\* them, and the points left and redeemed are those earned: unless a save put
\* an old balance back, or an operation ended between two of its statements
\* (for the points: or after a failed insert).  And a credit is in a balance once
\* if its ref is in the log, and else not at all, whoever repeats it, together or
\* later: unless its own operation was cut off between the balance and the log.
CreditBooks ==
  /\ CreditTypeOK
  /\ Books("wallet") => wallet[Customer] + wallet[Referrer] = liability
  /\ Books("points") /\ swallowed = {} => points + Points * Cardinality({n \in Counts : Logged(<<"loyalty", n>>)})
                        = Points * Cardinality(delivered)
  /\ \A ref \in Ref : \/ landed[ref] = IF Logged(ref) THEN 1 ELSE 0
                      \/ ref \in undone \/ \E h \in Clerk : clerk[h].ref = ref

\* An order's money goes back once: into the wallet, by the payment provider or
\* by the bank.  Only cases decided at the same time, or one whose answer was
\* lost, may pay twice.
NoDoubleRefund ==
  \A o \in Sale \ tangled :
    pspRefund[o] + bankLoss[o] + (IF Logged(<<"dispute", o>>) THEN 1 ELSE 0) <= 1

\* A referral that is CREDITED has paid both sides (or the ledger took a failed
\* insert for a credit somebody else had applied), one that was blocked before
\* it paid never pays, and a phone is rewarded for one claim, unless it sent
\* two at once.
RewardsAsPromised ==
  /\ \A q \in Claim : referral[q] = "CREDITED" => {<<"referrer", q>>, <<"referee", q>>} \subseteq creditLog \union swallowed
  /\ \A q \in barred : ~Paid(q)
  /\ ~twins => Cardinality({q \in Claim : Paid(q)}) <= 1

\* The expiry of a referral credit takes no other credit of the customer's, as
\* long as nothing was spent while a credit might yet expire or be rolled back.
OwnMoneyKept == Books("wallet") /\ ~lent => wallet[Customer] >= ownMoney
=============================================================================
