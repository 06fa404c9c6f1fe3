------------------------- MODULE CustomerMoneyProofs -------------------------
(***************************************************************************)
(* NoDoubleRefund for any orders, clerks, stories and faults.  IInv says   *)
(* of an order whose cases never overlapped what has been given back       *)
(* (Given), what each case knows (DisputeKnows, ChargebackKnows), and that *)
(* no other work writes a dispute's ref (Refs).                            *)
(*                                                                         *)
(* RewardsAsPromised the same way: RewardInv says which of a referral's    *)
(* two credits are applied (Taken) by the time its clerk is where it is    *)
(* (QualifyKnows), and that no clerk still pays a referral in barred.      *)
(*                                                                         *)
(* CreditBooks by sums over the clerks: BooksInv says what each clerk has  *)
(* put in a balance and not in the journal (Unposted), taken in points and *)
(* not in the log (Unlogged), credited and not in the log (Brings), and    *)
(* that the rows differ by just these sums.                                *)
(*                                                                         *)
(* OwnMoneyKept by what of the balance is not the customer's own: KeptInv  *)
(* says it is at least the referral credits that have landed and are not   *)
(* yet taken out (KeptBook), and that what is his own covers what may yet  *)
(* be rolled back (RiskBook).                                              *)
(***************************************************************************)
EXTENDS CustomerMoney, SumTheorems, FiniteSetTheorems, TLAPS

CaseWork == {"dispute", "chargeback"}
CasePlace == {"ask", "decide", "close"}
DisputeRef(o) == <<"dispute", o>>
OnCase(h, o) == clerk[h].work \in CaseWork /\ clerk[h].id = o
\* the payment service has been asked, the dispute's row is not saved yet
Asked(h) == clerk[h].at = "decide" /\ clerk[h].ref = NoRef /\ clerk[h].sum > 0
Fields == {"work", "at", "id", "ref", "sum", "seen", "had"}

Typed ==
  /\ story \in Story
  /\ dispute \in [Sale -> [status : {"none", "OPEN", "RESOLVED"}, refunded : {0, Refund}]]
  /\ chargeback \in [Sale -> {"none", "OPEN", "WON", "LOST"}]
  /\ pspRefund \in [Sale -> Nat] /\ bankLoss \in [Sale -> Nat]
  /\ DOMAIN clerk = Clerk /\ \A h \in Clerk : DOMAIN clerk[h] = Fields
  /\ \A h \in Clerk : clerk[h].work \in CaseWork => clerk[h].id \in Sale

\* where each kind of work is, and which refs it has
Refs == \A h \in Clerk :
  /\ clerk[h].work \notin CaseWork => /\ clerk[h].at \notin CasePlace
                                      /\ \A o \in Sale : clerk[h].ref # DisputeRef(o)
  /\ clerk[h].work = "chargeback" => clerk[h].at = "close" /\ clerk[h].ref = NoRef
  /\ clerk[h].work = "dispute" =>
       \/ clerk[h].at = "ask" /\ clerk[h].ref = NoRef /\ clerk[h].sum = Refund
       \/ clerk[h].at = "decide" /\ clerk[h].ref = NoRef /\ clerk[h].sum \in {0, Refund}
       \/ clerk[h].at = "decide" /\ clerk[h].ref = DisputeRef(clerk[h].id) /\ clerk[h].sum = Refund

OneCase(o) == \A g, h \in Clerk : OnCase(g, o) /\ OnCase(h, o) => g = h
Given(o) ==
  /\ bankLoss[o] = IF chargeback[o] = "LOST" THEN 1 ELSE 0
  /\ chargeback[o] = "LOST" => dispute[o].refunded = 0
  /\ dispute[o].status # "RESOLVED" => dispute[o].refunded = 0
  /\ dispute[o].refunded > 0 => \/ pspRefund[o] = 1 /\ ~Logged(DisputeRef(o))
                                \/ pspRefund[o] = 0 /\ Logged(DisputeRef(o))
  /\ dispute[o].refunded = 0 => ~Logged(DisputeRef(o))
  /\ dispute[o].refunded = 0 /\ (\A h \in Clerk : ~(OnCase(h, o) /\ Asked(h))) => pspRefund[o] = 0
DisputeKnows(h) == LET o == clerk[h].id IN
  /\ dispute[o].status = "OPEN"
  /\ clerk[h].sum > 0 => chargeback[o] # "LOST"
  /\ Asked(h) => pspRefund[o] = 1
ChargebackKnows(h) == LET o == clerk[h].id IN
  /\ chargeback[o] = "OPEN"
  /\ clerk[h].sum \in {0, Refund}
  /\ clerk[h].sum > 0 => dispute[o].refunded = 0
CasesKnow(o) == \A h \in Clerk :
  /\ OnCase(h, o) /\ clerk[h].work = "dispute" => DisputeKnows(h)
  /\ OnCase(h, o) /\ clerk[h].work = "chargeback" => ChargebackKnows(h)

Sound(o) == OneCase(o) /\ Given(o) /\ CasesKnow(o)
IInv == Typed /\ Refs /\ \A o \in Sale \ tangled : Sound(o)

\* No case is open, and nothing is given back, when a behaviour begins.
LEMMA InitIInv == CreditInit => IInv
<1> SUFFICES ASSUME CreditInit PROVE IInv
    OBVIOUS
<1> USE DEF CreditInit, Off, NoRef, CaseWork, CasePlace, DisputeRef
<1>1. Typed
  BY CreditAssumption DEF Typed, Fields
<1>2. Refs
  BY DEF Refs
<1>3. \A o \in Sale : Sound(o)
  BY DEF Sound, OneCase, Given, CasesKnow, OnCase, Asked, Logged
<1>4. QED
  BY <1>1, <1>2, <1>3 DEF IInv

\* IInv is stronger than NoDoubleRefund.
LEMMA IInvNoDoubleRefund == IInv => NoDoubleRefund
<1> SUFFICES ASSUME IInv, NEW o \in Sale \ tangled
             PROVE  pspRefund[o] + bankLoss[o] + (IF Logged(<<"dispute", o>>) THEN 1 ELSE 0) <= 1
  BY DEF NoDoubleRefund
<1>1. Given(o) /\ CasesKnow(o)
  BY DEF IInv, Sound
<1>2. dispute[o].refunded \in {0, Refund} /\ Refund \in Nat \ {0} /\ pspRefund[o] \in Nat
  BY CreditAssumption DEF IInv, Typed
<1>3. CASE dispute[o].refunded > 0
  BY <1>1, <1>2, <1>3 DEF Given, DisputeRef
<1>4. CASE dispute[o].refunded = 0 /\ \A h \in Clerk : ~(OnCase(h, o) /\ Asked(h))
  BY <1>1, <1>4 DEF Given, DisputeRef
<1>5. CASE dispute[o].refunded = 0 /\ \E h \in Clerk : OnCase(h, o) /\ Asked(h)
  <2>1. PICK h \in Clerk : OnCase(h, o) /\ Asked(h)
    BY <1>5
  <2>2. clerk[h].work = "dispute" /\ clerk[h].sum > 0
    BY <2>1 DEF IInv, Refs, OnCase, Asked, CaseWork
  <2>3. pspRefund[o] = 1 /\ chargeback[o] # "LOST"
    BY <1>1, <2>1, <2>2 DEF CasesKnow, DisputeKnows, OnCase
  <2>4. QED
    BY <1>1, <1>5, <2>3 DEF Given, DisputeRef
<1>6. QED
  BY <1>2, <1>3, <1>4, <1>5

\* Work that is on no case, and that leaves the cases' rows alone, disturbs none;
\* nor does a case that ends, if it had not asked the payment service.
LEMMA OtherWork ==
  ASSUME IInv, NEW h \in Clerk, NEW t,
         DOMAIN t = Fields, t.work \notin CaseWork, t.at \notin CasePlace, \A o \in Sale : t.ref # DisputeRef(o),
         clerk' = [clerk EXCEPT ![h] = t], UNCHANGED <<story, caseRows>>,
         tangled \subseteq tangled',
         \A o \in Sale : Logged(DisputeRef(o))' <=> Logged(DisputeRef(o)),
         clerk[h].work \in CaseWork /\ Asked(h) => clerk[h].id \in tangled'
  PROVE  IInv'
<1>1. DOMAIN clerk' = Clerk /\ clerk'[h] = t /\ \A g \in Clerk \ {h} : clerk'[g] = clerk[g]
  BY DEF IInv, Typed
<1>2. UNCHANGED <<story, dispute, chargeback, pspRefund, bankLoss>>
  BY DEF caseRows
<1>3. Typed'
  BY <1>1, <1>2 DEF IInv, Typed
<1>4. Refs'
  <2>1. \A g \in Clerk \ {h} : clerk'[g] = clerk[g]
    BY <1>1
  <2>2. clerk'[h].work \notin CaseWork /\ clerk'[h].at \notin CasePlace /\ \A o \in Sale : clerk'[h].ref # DisputeRef(o)
    BY <1>1
  <2> HIDE DEF DisputeRef
  <2>3. QED
    BY <2>1, <2>2 DEF IInv, Refs, CaseWork
<1>5. ASSUME NEW o \in Sale \ tangled' PROVE Sound(o)'
  <2>1. Sound(o)
    BY DEF IInv
  <2>2. \A g \in Clerk : OnCase(g, o)' => g # h /\ clerk'[g] = clerk[g] /\ OnCase(g, o)
    BY <1>1 DEF OnCase
  <2>3. \A g \in Clerk : OnCase(g, o) /\ Asked(g) => g # h /\ clerk'[g] = clerk[g] /\ OnCase(g, o)'
    BY <1>1 DEF OnCase
  <2>4. OneCase(o)'
    BY <2>1, <2>2 DEF Sound, OneCase
  <2>5. Given(o)'
    <3>1. (\A g \in Clerk : ~(OnCase(g, o) /\ Asked(g)))' => (\A g \in Clerk : ~(OnCase(g, o) /\ Asked(g)))
      BY <2>3 DEF Asked
    <3>2. Logged(DisputeRef(o))' <=> Logged(DisputeRef(o))
      OBVIOUS
    <3> HIDE DEF Logged, DisputeRef
    <3>3. QED
      BY <1>2, <2>1, <3>1, <3>2 DEF Sound, Given
  <2>6. CasesKnow(o)'
    BY <1>2, <2>1, <2>2 DEF Sound, CasesKnow, DisputeKnows, ChargebackKnows, Asked
  <2>7. QED
    BY <2>4, <2>5, <2>6 DEF Sound
<1>6. QED
  BY <1>3, <1>4, <1>5 DEF IInv

\* A case that is abandoned before it has asked the payment service, or whose
\* order is marked.
LEMMA CaseGivenUp ==
  ASSUME IInv, NEW h \in Clerk, clerk' = [clerk EXCEPT ![h] = Off], UNCHANGED <<story, caseRows, creditLog>>,
         tangled \subseteq tangled', clerk[h].work \in CaseWork /\ Asked(h) => clerk[h].id \in tangled'
  PROVE  IInv'
<1>1. DOMAIN Off = Fields /\ Off.work \notin CaseWork /\ Off.at \notin CasePlace /\ \A o \in Sale : Off.ref # DisputeRef(o)
  BY DEF Off, Fields, CaseWork, CasePlace, DisputeRef, NoRef
<1>2. \A o \in Sale : Logged(DisputeRef(o))' <=> Logged(DisputeRef(o))
  BY DEF Logged
<1>3. QED
  BY <1>1, <1>2, OtherWork

\* A step of a clerk that is on no case and begins none: what a ref it logs is.
LEMMA ElsewhereStep ==
  ASSUME IInv, NEW h \in Clerk, NEW t, clerk[h].work \notin CaseWork,
         DOMAIN t = Fields, t.work \notin CaseWork, t.at \notin CasePlace, \A o \in Sale : t.ref # DisputeRef(o),
         clerk' = [clerk EXCEPT ![h] = t], UNCHANGED <<story, caseRows, tangled>>,
         creditLog' = creditLog \/ creditLog' = creditLog \union {clerk[h].ref}
  PROVE  IInv'
<1>1. \A o \in Sale : clerk[h].ref # DisputeRef(o)
  BY DEF IInv, Refs
<1>2. \A o \in Sale : Logged(DisputeRef(o))' <=> Logged(DisputeRef(o))
  BY <1>1 DEF Logged
<1>3. QED
  BY <1>2, OtherWork

\* A clerk that is elsewhere is on no case, and its ref is no dispute's.
LEMMA Elsewhere ==
  ASSUME IInv, NEW h \in Clerk, clerk[h].at \notin CasePlace
  PROVE  clerk[h].work \notin CaseWork /\ \A o \in Sale : clerk[h].ref # DisputeRef(o)
  BY DEF IInv, Refs, CaseWork, CasePlace

\* Going on to another place, or ending, on no case.
LEMMA MovesElsewhere ==
  ASSUME IInv, NEW h \in Clerk, NEW at, clerk[h].at \notin CasePlace, at \notin CasePlace,
         \/ clerk' = [clerk EXCEPT ![h].at = at]
         \/ clerk' = [clerk EXCEPT ![h] = Proceeds(h)]
         \/ clerk' = [clerk EXCEPT ![h] = Off],
         UNCHANGED <<story, caseRows, tangled>>,
         creditLog' = creditLog \/ creditLog' = creditLog \union {clerk[h].ref}
  PROVE  IInv'
<1>1. clerk[h].work \notin CaseWork /\ \A o \in Sale : clerk[h].ref # DisputeRef(o)
  BY Elsewhere
<1>2. DOMAIN clerk[h] = Fields
  BY DEF IInv, Typed
<1>3. CASE clerk' = [clerk EXCEPT ![h].at = at]
  <2> DEFINE t == [clerk[h] EXCEPT !.at = at]
  <2>1. DOMAIN t = Fields /\ t.work = clerk[h].work /\ t.at = at /\ t.ref = clerk[h].ref
    BY <1>2 DEF Fields
  <2>2. clerk' = [clerk EXCEPT ![h] = t]
    BY <1>3
  <2> HIDE DEF t
  <2>3. QED
    BY <1>1, <2>1, <2>2, ElsewhereStep
<1>4. DOMAIN Off = Fields /\ Off.work \notin CaseWork /\ Off.at \notin CasePlace /\ \A o \in Sale : Off.ref # DisputeRef(o)
  BY DEF Off, Fields, CaseWork, CasePlace, DisputeRef, NoRef
<1>5. CASE clerk' = [clerk EXCEPT ![h] = Off]
  BY <1>1, <1>4, <1>5, ElsewhereStep
<1>6. CASE clerk' = [clerk EXCEPT ![h] = Proceeds(h)]
  <2>1. CASE clerk[h].work # "qualify"
    BY <1>1, <1>4, <1>6, <2>1, ElsewhereStep DEF Proceeds
  <2>2. CASE clerk[h].work = "qualify"
    <3>1. DOMAIN Proceeds(h) = Fields /\ Proceeds(h).work = "qualify" /\ Proceeds(h).at \in {"read", "mark"}
          /\ (Proceeds(h).ref = NoRef \/ Proceeds(h).ref = <<"referee", clerk[h].id>>)
      BY <1>2, <2>2 DEF Proceeds, Fields
    <3>2. \A o \in Sale : Proceeds(h).ref # DisputeRef(o)
      BY <3>1 DEF DisputeRef, NoRef
    <3>3. Proceeds(h).work \notin CaseWork /\ Proceeds(h).at \notin CasePlace
      BY <3>1 DEF CaseWork, CasePlace
    <3>4. QED
      BY <1>1, <1>6, <3>1, <3>2, <3>3, ElsewhereStep
  <2>3. QED
    BY <2>1, <2>2
<1>7. QED
  BY <1>3, <1>5, <1>6

\* The same for a clerk that ends or goes on to the next credit.
LEMMA EndsElsewhere ==
  ASSUME IInv, NEW h \in Clerk, clerk[h].at \notin CasePlace,
         clerk' = [clerk EXCEPT ![h] = Proceeds(h)] \/ clerk' = [clerk EXCEPT ![h] = Off],
         UNCHANGED <<story, caseRows, tangled>>,
         creditLog' = creditLog \/ creditLog' = creditLog \union {clerk[h].ref}
  PROVE  IInv'
<1>1. "idle" \notin CasePlace
  BY DEF CasePlace
<1>2. QED
  BY <1>1, MovesElsewhere

\* Work that is no case begins.
LEMMA BeginsElsewhere ==
  ASSUME IInv, NEW h \in Clerk, NEW work, NEW at, NEW id, NEW ref, NEW sum, Begins(h, work, at, id, ref, sum),
         work \notin CaseWork, at \notin CasePlace, \A o \in Sale : ref # DisputeRef(o),
         UNCHANGED <<caseRows, tangled, creditLog>>
  PROVE  IInv'
<1> DEFINE t == [work |-> work, at |-> at, id |-> id, ref |-> ref, sum |-> sum, seen |-> wallet[Customer], had |-> points]
<1>1. DOMAIN t = Fields /\ t.work = work /\ t.at = at /\ t.ref = ref
  BY DEF Fields
<1>2. clerk' = [clerk EXCEPT ![h] = t] /\ UNCHANGED story
  BY DEF Begins
<1>3. clerk[h].work \notin CaseWork
  BY DEF Begins, Off, CaseWork
<1> HIDE DEF t
<1>4. QED
  BY <1>1, <1>2, <1>3, ElsewhereStep

\* creditCustomerWallet and spendCustomerCredit touch no case.
LEMMA CreditSteps ==
  ASSUME IInv, NEW h \in Clerk,
         \/ CreditRead(h) \/ CreditSave(h) \/ CreditLogged(h) \/ InsertFails(h) \/ CreditUndo(h)
         \/ CreditPost(h) \/ AnswerLost(h) \/ PostFails(h)
  PROVE  IInv'
<1> USE DEF CasePlace, Is
<1>1. CASE CreditRead(h)
  <2>1. clerk[h].work \notin CaseWork /\ \A o \in Sale : clerk[h].ref # DisputeRef(o)
    BY <1>1, Elsewhere DEF CreditRead
  <2>2. UNCHANGED <<story, caseRows, tangled, creditLog>>
    BY <1>1 DEF CreditRead, creditRows, creditTold
  <2>3. CASE clerk' = [clerk EXCEPT ![h] = Proceeds(h)] \/ clerk' = [clerk EXCEPT ![h] = Off]
    <3>1. clerk[h].at \notin CasePlace
      BY <1>1 DEF CreditRead
    <3>2. QED
      BY <2>2, <2>3, <3>1, EndsElsewhere
  <2>4. CASE \E n, m : clerk' = [clerk EXCEPT ![h] = [clerk[h] EXCEPT !.at = "save", !.seen = n, !.sum = m]]
    <3>1. PICK n, m : clerk' = [clerk EXCEPT ![h] = [clerk[h] EXCEPT !.at = "save", !.seen = n, !.sum = m]]
      BY <2>4
    <3> DEFINE t == [clerk[h] EXCEPT !.at = "save", !.seen = n, !.sum = m]
    <3>2. DOMAIN clerk[h] = Fields
      BY DEF IInv, Typed
    <3>3. DOMAIN t = Fields /\ t.work = clerk[h].work /\ t.at = "save" /\ t.ref = clerk[h].ref
      BY <3>2 DEF Fields
    <3>4. clerk' = [clerk EXCEPT ![h] = t]
      BY <3>1
    <3> HIDE DEF t
    <3>5. QED
      BY <2>1, <2>2, <3>3, <3>4, ElsewhereStep
  <2>5. QED
    BY <1>1, <2>3, <2>4 DEF CreditRead
<1>2. CASE CreditSave(h)
  <2>1. clerk' = [clerk EXCEPT ![h].at = "log"] /\ clerk[h].at \notin CasePlace /\ "log" \notin CasePlace
        /\ UNCHANGED <<story, caseRows, tangled, creditLog>>
    BY <1>2 DEF CreditSave, Moves, caseRows
  <2>2. QED
    BY <2>1, MovesElsewhere
<1>3. CASE CreditLogged(h)
  <2>1. clerk' = [clerk EXCEPT ![h].at = "undo"] \/ clerk' = [clerk EXCEPT ![h].at = "post"]
    BY <1>3 DEF CreditLogged, Moves
  <2>2. UNCHANGED <<story, caseRows, tangled>> /\ clerk[h].at \notin CasePlace
        /\ (creditLog' = creditLog \/ creditLog' = creditLog \union {clerk[h].ref})
    BY <1>3 DEF CreditLogged, Moves, caseRows, creditTold
  <2>3. QED
    BY <2>1, <2>2, MovesElsewhere
<1>4. CASE InsertFails(h)
  <2>1. clerk' = [clerk EXCEPT ![h].at = "undo"] /\ clerk[h].at \notin CasePlace /\ "undo" \notin CasePlace
        /\ UNCHANGED <<story, caseRows, tangled, creditLog>>
    BY <1>4 DEF InsertFails, creditRows
  <2>2. QED
    BY <2>1, MovesElsewhere
<1>5. CASE CreditUndo(h)
  BY <1>5, EndsElsewhere DEF CreditUndo, GoesOn
<1>6. CASE CreditPost(h)
  BY <1>6, EndsElsewhere DEF CreditPost, GoesOn, creditTold
<1>7. CASE AnswerLost(h)
  <2> DEFINE t == [clerk[h] EXCEPT !.work = "grant"]
  <2>1. DOMAIN clerk[h] = Fields
    BY DEF IInv, Typed
  <2>2. DOMAIN t = Fields /\ t.work = "grant" /\ t.at = clerk[h].at /\ t.ref = clerk[h].ref
    BY <2>1 DEF Fields
  <2>3. clerk' = [clerk EXCEPT ![h] = t] /\ clerk[h].at \notin CasePlace /\ UNCHANGED <<story, caseRows, tangled, creditLog>>
    BY <1>7 DEF AnswerLost, creditRows, creditTold
  <2>4. clerk[h].work \notin CaseWork /\ \A o \in Sale : clerk[h].ref # DisputeRef(o)
    BY <2>3, Elsewhere
  <2>5. "grant" \notin CaseWork
    BY DEF CaseWork
  <2> HIDE DEF t
  <2>6. QED
    BY <2>2, <2>3, <2>4, <2>5, ElsewhereStep
<1>8. CASE PostFails(h)
  BY <1>8, EndsElsewhere DEF PostFails, GivesUp, creditRows
<1>9. QED
  BY <1>1, <1>2, <1>3, <1>4, <1>5, <1>6, <1>7, <1>8

\* Nor do the operations that call it, a delivery, the expiry, or a referral.
LEMMA OtherBegins ==
  ASSUME IInv, NEW h \in Clerk,
         \/ Grant(h) \/ Spend(h) \/ BeginRedeem(h) \/ BeginClaim(h)
         \/ \E o \in Sale : BeginDelivery(h, o) \/ \E q \in Claim : BeginQualify(h, o, q)
         \/ \E q \in Claim : BeginExpire(h, q)
  PROVE  IInv'
<1>1. \A n : \A o \in Sale : /\ <<"grant", n>> # DisputeRef(o) /\ <<"spend", n>> # DisputeRef(o)
                             /\ <<"loyalty", n>> # DisputeRef(o) /\ <<"unspent", n>> # DisputeRef(o)
                             /\ <<"referrer", n>> # DisputeRef(o) /\ <<"referee", n>> # DisputeRef(o)
                         /\ NoRef # DisputeRef(o)
  BY DEF DisputeRef, NoRef
<1> USE DEF CaseWork, CasePlace
<1>2. CASE Grant(h)
  BY <1>1, <1>2, BeginsElsewhere DEF Grant, creditRows, creditTold
<1>3. CASE Spend(h)
  BY <1>1, <1>3, BeginsElsewhere DEF Spend, creditRows, creditTold
<1>4. CASE BeginRedeem(h)
  BY <1>1, <1>4, BeginsElsewhere DEF BeginRedeem, creditRows, creditTold
<1>5. CASE BeginClaim(h)
  BY <1>1, <1>5, BeginsElsewhere DEF BeginClaim, creditRows, creditTold
<1>6. ASSUME NEW o \in Sale, BeginDelivery(h, o) PROVE IInv'
  BY <1>1, <1>6, BeginsElsewhere DEF BeginDelivery, creditRows, creditTold
<1>7. ASSUME NEW o \in Sale, NEW q \in Claim, BeginQualify(h, o, q) PROVE IInv'
  BY <1>1, <1>7, BeginsElsewhere DEF BeginQualify, creditRows, creditTold
<1>8. ASSUME NEW q \in Claim, BeginExpire(h, q) PROVE IInv'
  BY <1>1, <1>8, BeginsElsewhere DEF BeginExpire, creditRows, creditTold
<1>9. QED
  BY <1>2, <1>3, <1>4, <1>5, <1>6, <1>7, <1>8

\* Nor do their later steps.
LEMMA OtherSteps ==
  ASSUME IInv, NEW h \in Clerk,
         \/ TakePoints(h) \/ Delivery(h) \/ Lapse(h) \/ Stamp(h) \/ WriteOff(h)
         \/ CreditCallFails(h) \/ Mark(h) \/ \E q \in Claim : InsertClaim(h, q)
  PROVE  IInv'
<1> USE DEF CasePlace, Is, Moves, Finishes, GivesUp
<1>1. CASE TakePoints(h)
  <2>1. clerk' = [clerk EXCEPT ![h].at = "read"] /\ clerk[h].at \notin CasePlace /\ "read" \notin CasePlace
        /\ UNCHANGED <<story, caseRows, tangled, creditLog>>
    BY <1>1 DEF TakePoints
  <2>2. QED
    BY <2>1, MovesElsewhere
<1>2. CASE Delivery(h)
  <2>1. clerk[h].at \notin CasePlace
    BY <1>2 DEF Delivery, IInv, Refs, CaseWork
  <2>2. clerk' = [clerk EXCEPT ![h] = Off] /\ UNCHANGED <<story, caseRows, tangled>>
        /\ (creditLog' = creditLog \/ creditLog' = creditLog \union {clerk[h].ref})
    BY <1>2 DEF Delivery
  <2>3. QED
    BY <2>1, <2>2, EndsElsewhere
<1>3. CASE Lapse(h)
  <2>1. clerk' = [clerk EXCEPT ![h].at = "stamp"] /\ clerk[h].at \notin CasePlace /\ "stamp" \notin CasePlace
        /\ UNCHANGED <<story, caseRows, tangled, creditLog>>
    BY <1>3 DEF Lapse
  <2>2. QED
    BY <2>1, MovesElsewhere
<1>4. CASE Stamp(h)
  <2>1. clerk' = [clerk EXCEPT ![h].at = "writeOff"] /\ clerk[h].at \notin CasePlace /\ "writeOff" \notin CasePlace
        /\ UNCHANGED <<story, caseRows, tangled, creditLog>>
    BY <1>4 DEF Stamp, creditTold
  <2>2. QED
    BY <2>1, MovesElsewhere
<1>5. CASE WriteOff(h)
  BY <1>5, EndsElsewhere DEF WriteOff, creditTold
<1>6. CASE CreditCallFails(h)
  BY <1>6, EndsElsewhere DEF CreditCallFails, creditRows, creditTold
<1>7. CASE Mark(h)
  BY <1>7, EndsElsewhere DEF Mark, creditRows, creditTold
<1>8. ASSUME NEW q \in Claim, InsertClaim(h, q) PROVE IInv'
  BY <1>8, EndsElsewhere DEF InsertClaim, creditRows
<1>9. QED
  BY <1>1, <1>2, <1>3, <1>4, <1>5, <1>6, <1>7, <1>8

\* A case that ends without a decision: Asked only if its order is marked.
LEMMA AbandonedCases ==
  ASSUME IInv, NEW h \in Clerk,
         LedgerDies(h) \/ PaymentRefuses(h) \/ DecisionAborts(h) \/ CaseAborts(h)
  PROVE  IInv'
<1> USE DEF GivesUp, Finishes, Is, Asked
<1>1. CASE LedgerDies(h)
  <2>1. clerk[h].work \in CaseWork /\ Asked(h) => clerk[h].id \in tangled'
    BY <1>1 DEF LedgerDies, IInv, Refs, CaseWork
  <2>2. QED
    BY <1>1, <2>1, CaseGivenUp DEF LedgerDies, creditRows
<1>2. CASE PaymentRefuses(h)
  BY <1>2, CaseGivenUp DEF PaymentRefuses, creditRows, creditTold
<1>3. CASE DecisionAborts(h)
  BY <1>3, CaseGivenUp DEF DecisionAborts, creditRows, creditTold
<1>4. CASE CaseAborts(h)
  BY <1>4, CaseGivenUp DEF CaseAborts, creditRows, creditTold
<1>5. QED
  BY <1>1, <1>2, <1>3, <1>4

\* A new row is open, and nothing has been given back for it.
LEMMA Opens ==
  ASSUME IInv, NEW o \in Sale, OpenDispute(o) \/ OpenChargeback(o)
  PROVE  IInv'
<1>1. UNCHANGED <<story, creditLog, pspRefund, bankLoss, clerk, tangled>>
  BY DEF OpenDispute, OpenChargeback, creditRows, creditTold
<1>2. \/ /\ dispute[o].status = "none" /\ dispute' = [dispute EXCEPT ![o].status = "OPEN"]
         /\ chargeback' = chargeback
      \/ /\ chargeback[o] = "none" /\ chargeback' = [chargeback EXCEPT ![o] = "OPEN"]
         /\ dispute' = dispute
  BY DEF OpenDispute, OpenChargeback
<1>3. Typed'
  BY <1>1, <1>2 DEF IInv, Typed
<1>4. Refs'
  BY <1>1 DEF IInv, Refs
<1>5. \A p \in Sale : /\ dispute'[p].refunded = dispute[p].refunded
                      /\ dispute'[p].status = "RESOLVED" <=> dispute[p].status = "RESOLVED"
                      /\ dispute[p].status = "OPEN" => dispute'[p].status = "OPEN"
                      /\ chargeback'[p] = "LOST" <=> chargeback[p] = "LOST"
                      /\ chargeback[p] = "OPEN" => chargeback'[p] = "OPEN"
  BY <1>2 DEF IInv, Typed
<1>6. ASSUME NEW p \in Sale \ tangled PROVE Sound(p)'
  <2>1. Sound(p)
    BY DEF IInv
  <2>2. OneCase(p)'
    BY <1>1, <2>1 DEF Sound, OneCase, OnCase
  <2>3. Given(p)'
    BY <1>1, <1>5, <2>1 DEF Sound, Given, OnCase, Asked, Logged
  <2>4. CasesKnow(p)'
    BY <1>1, <1>5, <2>1 DEF Sound, CasesKnow, OnCase, DisputeKnows, ChargebackKnows, Asked
  <2>5. QED
    BY <2>2, <2>3, <2>4 DEF Sound
<1>7. QED
  BY <1>1, <1>3, <1>4, <1>6 DEF IInv

\* What a step of the case of order o leaves of every other order.
LEMMA OtherOrders ==
  ASSUME IInv, NEW h \in Clerk, NEW o \in Sale, NEW p \in Sale \ tangled, p # o,
         DOMAIN clerk' = Clerk, \A g \in Clerk \ {h} : clerk'[g] = clerk[g],
         ~OnCase(h, p), ~OnCase(h, p)',
         dispute'[p] = dispute[p], chargeback'[p] = chargeback[p],
         pspRefund'[p] = pspRefund[p], bankLoss'[p] = bankLoss[p],
         Logged(DisputeRef(p))' <=> Logged(DisputeRef(p))
  PROVE  Sound(p)'
<1>1. Sound(p)
  BY DEF IInv
<1>2. \A g \in Clerk : OnCase(g, p)' <=> OnCase(g, p)
  BY DEF OnCase
<1>3. \A g \in Clerk : OnCase(g, p) => clerk'[g] = clerk[g] /\ clerk[g].id = p
  BY DEF OnCase
<1>4. OneCase(p)'
  BY <1>1, <1>2 DEF Sound, OneCase
<1>5. (\A g \in Clerk : ~(OnCase(g, p) /\ Asked(g)))' => (\A g \in Clerk : ~(OnCase(g, p) /\ Asked(g)))
  BY <1>2, <1>3 DEF Asked
<1>6. Given(p)'
  <2> HIDE DEF Logged, DisputeRef
  <2>1. QED
    BY <1>1, <1>5 DEF Sound, Given
<1>7. CasesKnow(p)'
  BY <1>1, <1>2, <1>3 DEF Sound, CasesKnow, DisputeKnows, ChargebackKnows, Asked
<1>8. QED
  BY <1>4, <1>6, <1>7 DEF Sound

\* What a clerk that begins a case has found.
CaseTask(t, o) ==
  /\ DOMAIN t = Fields /\ t.id = o
  /\ \/ /\ t.work = "dispute" /\ dispute[o].status = "OPEN"
        /\ t.sum > 0 => chargeback[o] # "LOST"
        /\ \/ t.at = "ask" /\ t.ref = NoRef /\ t.sum = Refund
           \/ t.at = "decide" /\ t.ref = NoRef /\ t.sum = 0
           \/ t.at = "decide" /\ t.ref = DisputeRef(o) /\ t.sum = Refund
     \/ /\ t.work = "chargeback" /\ chargeback[o] = "OPEN"
        /\ t.sum \in {0, Refund} /\ (t.sum > 0 => dispute[o].refunded = 0)
        /\ t.at = "close" /\ t.ref = NoRef

\* A case begins: alone on its order, or the order is marked.
LEMMA CaseBegins ==
  ASSUME IInv, NEW h \in Clerk, NEW o \in Sale, NEW t, CaseTask(t, o),
         clerk[h] = Off, clerk' = [clerk EXCEPT ![h] = t], Tangles(o),
         UNCHANGED <<story, creditLog, dispute, chargeback, pspRefund, bankLoss>>
  PROVE  IInv'
<1>1. tangled \subseteq tangled' /\ (o \notin tangled' => \A g \in Clerk : ~OnCase(g, o))
  BY DEF Tangles, OnCase, CaseWork
<1>2. clerk[h].work \notin CaseWork
  BY DEF Off, CaseWork
<1>3. DOMAIN clerk' = Clerk /\ clerk'[h] = t /\ \A g \in Clerk \ {h} : clerk'[g] = clerk[g]
  BY DEF IInv, Typed
<1>4. Typed'
  BY <1>3 DEF IInv, Typed, CaseTask
<1>5. Refs'
  BY <1>3 DEF IInv, Refs, CaseTask, CaseWork
<1>6. ASSUME NEW p \in Sale \ tangled', p # o PROVE Sound(p)'
  <2>1. ~OnCase(h, p) /\ ~OnCase(h, p)'
    BY <1>2, <1>3, <1>6 DEF OnCase, CaseTask
  <2>2. Logged(DisputeRef(p))' <=> Logged(DisputeRef(p))
    BY DEF Logged
  <2>3. p \in Sale \ tangled
    BY <1>1
  <2>4. QED
    BY <1>3, <1>6, <2>1, <2>2, <2>3, OtherOrders
<1>7. ASSUME o \notin tangled' PROVE Sound(o)'
  <2>1. Sound(o) /\ \A g \in Clerk : ~OnCase(g, o)
    BY <1>1, <1>7 DEF IInv
  <2>2. \A g \in Clerk : OnCase(g, o)' => g = h
    BY <1>3, <2>1 DEF OnCase
  <2>3. ~Asked(h)'
    BY <1>3 DEF Asked, CaseTask, DisputeRef, NoRef
  <2>4. Given(o)'
    BY <2>1 DEF Sound, Given, Logged
  <2>5. CasesKnow(o)'
    BY <1>3, <2>2, <2>3 DEF CasesKnow, DisputeKnows, ChargebackKnows, CaseTask, OnCase
  <2>6. QED
    BY <2>2, <2>4, <2>5 DEF Sound, OneCase
<1>8. QED
  BY <1>4, <1>5, <1>6, <1>7 DEF IInv

LEMMA BeginDecisionKeeps ==
  ASSUME IInv, NEW h \in Clerk, NEW o \in Sale, NEW way \in {"no_refund", "wallet", "psp"}, BeginDecision(h, o, way)
  PROVE  IInv'
<1> DEFINE t == [work |-> "dispute", at |-> IF way = "psp" THEN "ask" ELSE "decide", id |-> o,
                 ref |-> IF way = "wallet" THEN <<"dispute", o>> ELSE NoRef,
                 sum |-> IF way = "no_refund" THEN 0 ELSE Refund, seen |-> wallet[Customer], had |-> points]
<1>1. clerk[h] = Off /\ clerk' = [clerk EXCEPT ![h] = t] /\ Tangles(o)
      /\ UNCHANGED <<story, creditLog, dispute, chargeback, pspRefund, bankLoss>>
  BY DEF BeginDecision, Begins, creditRows, caseRows
<1>2. dispute[o].status = "OPEN" /\ (way # "no_refund" => chargeback[o] # "LOST")
  BY DEF BeginDecision, PaidToTheBank
<1>3. CaseTask(t, o)
  BY <1>2 DEF CaseTask, Fields, DisputeRef
<1> HIDE DEF t
<1>4. QED
  BY <1>1, <1>3, CaseBegins

LEMMA BeginCaseKeeps ==
  ASSUME IInv, NEW h \in Clerk, NEW o \in Sale, NEW sum \in {0, Refund}, BeginCase(h, o, sum)
  PROVE  IInv'
<1> DEFINE t == [work |-> "chargeback", at |-> "close", id |-> o, ref |-> NoRef, sum |-> sum,
                 seen |-> wallet[Customer], had |-> points]
<1>1. clerk[h] = Off /\ clerk' = [clerk EXCEPT ![h] = t] /\ Tangles(o)
      /\ UNCHANGED <<story, creditLog, dispute, chargeback, pspRefund, bankLoss>>
  BY DEF BeginCase, Begins, creditRows, caseRows
<1>2. chargeback[o] = "OPEN" /\ (sum > 0 => dispute[o].refunded = 0)
  <2>1. dispute[o].refunded \in {0, Refund} /\ Refund \in Nat \ {0}
    BY CreditAssumption DEF IInv, Typed
  <2>2. QED
    BY <2>1 DEF BeginCase, PaidToTheCustomer
<1>3. CaseTask(t, o)
  BY <1>2 DEF CaseTask, Fields
<1> HIDE DEF t
<1>4. QED
  BY <1>1, <1>3, CaseBegins

\* The payment service pays once: a case that has not asked yet is alone, and
\* nothing has been given back.  Without an answer the order is marked.
LEMMA AskPaymentKeeps ==
  ASSUME IInv, NEW h \in Clerk, NEW o, clerk[h].id = o, AskPayment(h)
  PROVE  IInv'
<1>1. /\ clerk[h].work = "dispute" /\ clerk[h].at = "ask" /\ clerk[h].ref = NoRef /\ clerk[h].sum = Refund
  BY DEF AskPayment, Is, IInv, Refs, CaseWork, CasePlace
<1>2. o \in Sale /\ OnCase(h, o) /\ DOMAIN clerk[h] = Fields /\ pspRefund[o] \in Nat
  BY <1>1 DEF IInv, Typed, OnCase, CaseWork
<1>3. /\ UNCHANGED <<story, creditLog, dispute, chargeback, bankLoss>>
      /\ pspRefund' = [pspRefund EXCEPT ![o] = @ + 1] /\ tangled \subseteq tangled'
  BY DEF AskPayment, Moves, GivesUp, creditRows
<1>4. \/ clerk' = [clerk EXCEPT ![h] = Off] /\ o \in tangled'
      \/ clerk' = [clerk EXCEPT ![h].at = "decide"]
  BY DEF AskPayment, Moves, GivesUp
<1>5. DOMAIN clerk' = Clerk /\ \A g \in Clerk \ {h} : clerk'[g] = clerk[g]
  BY <1>4 DEF IInv, Typed
<1>6. \/ clerk'[h] = Off /\ o \in tangled'
      \/ /\ DOMAIN clerk'[h] = Fields /\ clerk'[h].work = "dispute" /\ clerk'[h].at = "decide"
         /\ clerk'[h].id = o /\ clerk'[h].ref = NoRef /\ clerk'[h].sum = Refund
  BY <1>1, <1>2, <1>4 DEF IInv, Typed, Fields
<1>7. Typed'
  <2>1. DOMAIN Off = Fields /\ Off.work \notin CaseWork
    BY DEF Off, Fields, CaseWork
  <2>2. pspRefund' \in [Sale -> Nat]
    BY <1>2, <1>3 DEF IInv, Typed
  <2>3. QED
    BY <1>2, <1>3, <1>5, <1>6, <2>1, <2>2 DEF IInv, Typed
<1>8. Refs'
  <2>1. Off.work \notin CaseWork /\ Off.at \notin CasePlace /\ \A p \in Sale : Off.ref # DisputeRef(p)
    BY DEF Off, CaseWork, CasePlace, DisputeRef, NoRef
  <2>2. Off.work \notin {"chargeback", "dispute"}
    BY DEF Off
  <2>3. QED
    BY <1>5, <1>6, <2>1, <2>2 DEF IInv, Refs, CaseWork
<1>9. ASSUME NEW p \in Sale \ tangled', p # o PROVE Sound(p)'
  <2>1. ~OnCase(h, p) /\ ~OnCase(h, p)'
    BY <1>2, <1>6, <1>9 DEF OnCase, Off, CaseWork
  <2>2. Logged(DisputeRef(p))' <=> Logged(DisputeRef(p))
    BY <1>3 DEF Logged
  <2>3. p \in Sale \ tangled /\ pspRefund'[p] = pspRefund[p]
    BY <1>3, <1>9 DEF IInv, Typed
  <2>4. QED
    BY <1>2, <1>3, <1>5, <1>9, <2>1, <2>2, <2>3, OtherOrders
<1>10. ASSUME o \notin tangled' PROVE Sound(o)'
  <2>1. Sound(o) /\ DisputeKnows(h)
    BY <1>1, <1>2, <1>3, <1>10 DEF IInv, Sound, CasesKnow
  <2>2. \A g \in Clerk : OnCase(g, o) => g = h
    BY <1>2, <2>1 DEF Sound, OneCase
  <2>3. \A g \in Clerk : OnCase(g, o)' => g = h
    BY <1>5, <2>2 DEF OnCase
  <2>4. dispute[o].refunded = 0 /\ ~Asked(h) /\ dispute[o].status = "OPEN" /\ chargeback[o] # "LOST"
    BY <1>1, <2>1, CreditAssumption DEF Sound, Given, DisputeKnows, Asked
  <2>5. pspRefund[o] = 0
    BY <2>1, <2>2, <2>4 DEF Sound, Given
  <2>6. pspRefund'[o] = 1
    BY <1>2, <1>3, <2>5 DEF IInv, Typed
  <2>7. OnCase(h, o)' /\ Asked(h)'
    BY <1>6, <1>10, CreditAssumption DEF OnCase, Asked, CaseWork
  <2>8. Given(o)'
    BY <1>3, <2>1, <2>4, <2>7 DEF Sound, Given, Logged
  <2>9. CasesKnow(o)'
    BY <1>3, <1>6, <1>10, <2>3, <2>4, <2>6 DEF CasesKnow, DisputeKnows
  <2>10. QED
    BY <2>3, <2>8, <2>9 DEF Sound, OneCase
<1>11. QED
  BY <1>7, <1>8, <1>9, <1>10 DEF IInv

\* A decision gives back what its way says, and nothing had been given back.
LEMMA DecideKeeps ==
  ASSUME IInv, NEW h \in Clerk, NEW o, clerk[h].id = o, Decide(h)
  PROVE  IInv'
<1>1. /\ clerk[h].work = "dispute" /\ clerk[h].at = "decide"
      /\ \/ clerk[h].ref = NoRef /\ clerk[h].sum \in {0, Refund}
         \/ clerk[h].ref = DisputeRef(o) /\ clerk[h].sum = Refund
  BY DEF Decide, Is, IInv, Refs, CaseWork, CasePlace
<1>2. o \in Sale /\ OnCase(h, o) /\ Refund \in Nat \ {0}
  BY <1>1, CreditAssumption DEF IInv, Typed, OnCase, CaseWork
<1>3. /\ UNCHANGED <<story, chargeback, pspRefund, bankLoss, tangled>> /\ clerk' = [clerk EXCEPT ![h] = Off]
      /\ dispute' = [dispute EXCEPT ![o] = [status |-> "RESOLVED", refunded |-> clerk[h].sum]]
      /\ creditLog' = IF clerk[h].ref = NoRef THEN creditLog ELSE creditLog \union {clerk[h].ref}
  BY DEF Decide, Finishes
<1>4. DOMAIN clerk' = Clerk /\ clerk'[h] = Off /\ \A g \in Clerk \ {h} : clerk'[g] = clerk[g]
  BY <1>3 DEF IInv, Typed
<1>5. /\ DOMAIN Off = Fields /\ Off.work \notin CaseWork /\ Off.work \notin {"dispute", "chargeback"}
      /\ Off.at \notin CasePlace /\ \A p \in Sale : Off.ref # DisputeRef(p)
  BY DEF Off, Fields, CaseWork, CasePlace, DisputeRef, NoRef
<1>6. dispute' \in [Sale -> [status : {"none", "OPEN", "RESOLVED"}, refunded : {0, Refund}]]
  BY <1>1, <1>2, <1>3 DEF IInv, Typed
<1>7. Typed'
  BY <1>3, <1>4, <1>5, <1>6 DEF IInv, Typed
<1>8. Refs'
  BY <1>4, <1>5 DEF IInv, Refs, CaseWork
<1>9. ASSUME NEW p \in Sale \ tangled', p # o PROVE Sound(p)'
  <2>1. ~OnCase(h, p) /\ ~OnCase(h, p)'
    BY <1>2, <1>4, <1>5, <1>9 DEF OnCase
  <2>2. Logged(DisputeRef(p))' <=> Logged(DisputeRef(p))
    BY <1>1, <1>3, <1>9 DEF Logged, DisputeRef
  <2>3. dispute'[p] = dispute[p] /\ p \in Sale \ tangled
    BY <1>3, <1>9 DEF IInv, Typed
  <2>4. QED
    BY <1>2, <1>3, <1>4, <1>9, <2>1, <2>2, <2>3, OtherOrders
<1>10. ASSUME o \notin tangled' PROVE Sound(o)'
  <2>1. Sound(o) /\ DisputeKnows(h)
    BY <1>1, <1>2, <1>3, <1>10 DEF IInv, Sound, CasesKnow
  <2>2. \A g \in Clerk : OnCase(g, o) => g = h
    BY <1>2, <2>1 DEF Sound, OneCase
  <2>3. \A g \in Clerk : ~OnCase(g, o)'
    BY <1>4, <1>5, <2>2 DEF OnCase
  <2>4. dispute'[o].status = "RESOLVED" /\ dispute'[o].refunded = clerk[h].sum
    BY <1>2, <1>3 DEF IInv, Typed
  <2>5. dispute[o].refunded = 0 /\ ~Logged(DisputeRef(o))
    BY <1>1, <2>1 DEF Sound, Given, DisputeKnows
  <2>6. IF Asked(h) THEN pspRefund[o] = 1 ELSE pspRefund[o] = 0
    BY <1>1, <2>1, <2>2, <2>5 DEF Sound, Given, DisputeKnows
  <2>7. Logged(DisputeRef(o))' <=> clerk[h].ref = DisputeRef(o)
    BY <1>1, <1>3, <2>5 DEF Logged, DisputeRef, NoRef
  <2>8. DisputeRef(o) # NoRef
    BY DEF DisputeRef, NoRef
  <2>9. clerk[h].sum > 0 => chargeback[o] # "LOST"
    BY <1>1, <2>1 DEF DisputeKnows
  <2>10. Given(o)'
    <3> HIDE DEF Logged, DisputeRef, NoRef
    <3>1. CASE clerk[h].sum = 0
      BY <1>1, <1>2, <1>3, <2>1, <2>4, <2>6, <2>7, <2>8, <3>1 DEF Sound, Given, Asked
    <3>2. CASE clerk[h].sum = Refund
      BY <1>1, <1>2, <1>3, <2>1, <2>4, <2>6, <2>7, <2>8, <2>9, <3>2 DEF Sound, Given, Asked
    <3>3. QED
      BY <1>1, <3>1, <3>2
  <2>11. QED
    BY <2>3, <2>10 DEF Sound, OneCase, CasesKnow
<1>11. QED
  BY <1>2, <1>3, <1>7, <1>8, <1>9, <1>10 DEF IInv

\* A lost chargeback pays the bank, when no dispute has paid the customer.
LEMMA CloseCaseKeeps ==
  ASSUME IInv, NEW h \in Clerk, NEW o, clerk[h].id = o, CloseCase(h)
  PROVE  IInv'
<1>1. clerk[h].work = "chargeback" /\ clerk[h].at = "close" /\ clerk[h].ref = NoRef
  BY DEF CloseCase, Is, IInv, Refs, CaseWork, CasePlace
<1>2. o \in Sale /\ OnCase(h, o) /\ ~Asked(h)
  BY <1>1 DEF IInv, Typed, OnCase, CaseWork, Asked
<1>3. /\ UNCHANGED <<story, creditLog, dispute, pspRefund, tangled>> /\ clerk' = [clerk EXCEPT ![h] = Off]
      /\ chargeback' = [chargeback EXCEPT ![o] = IF clerk[h].sum > 0 THEN "LOST" ELSE "WON"]
      /\ bankLoss' = [bankLoss EXCEPT ![o] = IF clerk[h].sum > 0 THEN @ + 1 ELSE @]
  BY DEF CloseCase, Finishes, creditRows, creditTold
<1>4. DOMAIN clerk' = Clerk /\ clerk'[h] = Off /\ \A g \in Clerk \ {h} : clerk'[g] = clerk[g]
  BY <1>3 DEF IInv, Typed
<1>5. /\ DOMAIN Off = Fields /\ Off.work \notin CaseWork /\ Off.work \notin {"dispute", "chargeback"}
      /\ Off.at \notin CasePlace /\ \A p \in Sale : Off.ref # DisputeRef(p)
  BY DEF Off, Fields, CaseWork, CasePlace, DisputeRef, NoRef
<1>6. bankLoss' \in [Sale -> Nat] /\ chargeback' \in [Sale -> {"none", "OPEN", "WON", "LOST"}]
  BY <1>2, <1>3 DEF IInv, Typed
<1>7. Typed'
  BY <1>3, <1>4, <1>5, <1>6 DEF IInv, Typed
<1>8. Refs'
  BY <1>4, <1>5 DEF IInv, Refs, CaseWork
<1>9. ASSUME NEW p \in Sale \ tangled', p # o PROVE Sound(p)'
  <2>1. ~OnCase(h, p) /\ ~OnCase(h, p)'
    BY <1>2, <1>4, <1>5, <1>9 DEF OnCase
  <2>2. Logged(DisputeRef(p))' <=> Logged(DisputeRef(p))
    BY <1>3 DEF Logged
  <2>3. bankLoss'[p] = bankLoss[p] /\ chargeback'[p] = chargeback[p] /\ p \in Sale \ tangled
    BY <1>3, <1>9 DEF IInv, Typed
  <2>4. QED
    BY <1>2, <1>3, <1>4, <1>9, <2>1, <2>2, <2>3, OtherOrders
<1>10. ASSUME o \notin tangled' PROVE Sound(o)'
  <2>1. Sound(o) /\ ChargebackKnows(h)
    BY <1>1, <1>2, <1>3, <1>10 DEF IInv, Sound, CasesKnow
  <2>2. \A g \in Clerk : OnCase(g, o) => g = h
    BY <1>2, <2>1 DEF Sound, OneCase
  <2>3. \A g \in Clerk : ~OnCase(g, o)'
    BY <1>4, <1>5, <2>2 DEF OnCase
  <2>4. bankLoss[o] = 0
    BY <1>1, <2>1 DEF Sound, Given, ChargebackKnows
  <2>5. /\ bankLoss'[o] = IF clerk[h].sum > 0 THEN 1 ELSE 0
        /\ chargeback'[o] = IF clerk[h].sum > 0 THEN "LOST" ELSE "WON"
    BY <1>2, <1>3, <2>4 DEF IInv, Typed
  <2>6. Given(o)'
    BY <1>1, <1>2, <1>3, <2>1, <2>2, <2>5 DEF Sound, Given, ChargebackKnows, Logged
  <2>7. QED
    BY <2>3, <2>6 DEF Sound, OneCase, CasesKnow
<1>11. QED
  BY <1>2, <1>3, <1>7, <1>8, <1>9, <1>10 DEF IInv

\* Blocking a referral, and a step that changes nothing, leave every case alone.
LEMMA NothingOfCases ==
  ASSUME IInv, UNCHANGED <<story, creditLog, caseRows, clerk, tangled>>
  PROVE  IInv'
<1>1. Typed' /\ Refs'
  BY DEF IInv, Typed, Refs, caseRows
<1>2. ASSUME NEW o \in Sale \ tangled PROVE Sound(o)'
  BY DEF IInv, Sound, OneCase, Given, CasesKnow, OnCase, DisputeKnows, ChargebackKnows, Asked, Logged, caseRows
<1>3. QED
  BY <1>1, <1>2 DEF IInv

LEMMA StepIInv == IInv /\ [CreditNext]_creditVars => IInv'
<1> SUFFICES ASSUME IInv, [CreditNext]_creditVars PROVE IInv'
    OBVIOUS
<1>1. story.sales \subseteq Sale
  BY CreditAssumption DEF IInv, Typed, StoryType
<1>2. ASSUME NEW h \in Clerk,
             \/ CreditRead(h) \/ CreditSave(h) \/ CreditLogged(h) \/ InsertFails(h) \/ CreditUndo(h) \/ CreditPost(h)
             \/ AnswerLost(h) \/ PostFails(h)
      PROVE  IInv'
  BY <1>2, CreditSteps
<1>3. ASSUME NEW h \in Clerk, LedgerDies(h) \/ PaymentRefuses(h) \/ DecisionAborts(h) \/ CaseAborts(h)
      PROVE  IInv'
  BY <1>3, AbandonedCases
<1>4. ASSUME NEW h \in Clerk, Grant(h) \/ Spend(h) \/ BeginRedeem(h) \/ BeginClaim(h)
      PROVE  IInv'
  BY <1>4, OtherBegins
<1>5. ASSUME NEW h \in Clerk, TakePoints(h) \/ Delivery(h) \/ Lapse(h) \/ Stamp(h) \/ WriteOff(h)
                              \/ CreditCallFails(h) \/ Mark(h)
      PROVE  IInv'
  BY <1>5, OtherSteps
<1>6. ASSUME NEW h \in Clerk, AskPayment(h) \/ Decide(h) \/ CloseCase(h)
      PROVE  IInv'
  BY <1>6, AskPaymentKeeps, DecideKeeps, CloseCaseKeeps
<1>7. ASSUME NEW h \in Clerk, NEW o \in story.sales,
             \/ BeginDelivery(h, o)
             \/ \E way \in {"no_refund", "wallet", "psp"} : BeginDecision(h, o, way)
             \/ \E sum \in {0, Refund} : BeginCase(h, o, sum)
             \/ \E q \in Claim : BeginQualify(h, o, q)
      PROVE  IInv'
  BY <1>1, <1>7, OtherBegins, BeginDecisionKeeps, BeginCaseKeeps
<1>8. ASSUME NEW h \in Clerk, NEW q \in Claim, BeginExpire(h, q) \/ InsertClaim(h, q)
      PROVE  IInv'
  BY <1>8, OtherBegins, OtherSteps
<1>9. ASSUME NEW q \in Claim, Block(q) PROVE IInv'
  BY <1>9, NothingOfCases DEF Block, creditRows
<1>10. ASSUME NEW o \in story.sales, OpenDispute(o) \/ OpenChargeback(o) PROVE IInv'
  BY <1>1, <1>10, Opens
<1>11. CASE UNCHANGED creditVars
  BY <1>11, NothingOfCases DEF creditVars, creditRows, creditTold
<1>12. QED
  BY <1>2, <1>3, <1>4, <1>5, <1>6, <1>7, <1>8, <1>9, <1>10, <1>11 DEF CreditNext

\* An order's money goes back once, whatever else the ledger does meanwhile and
\* whatever fails, unless its cases overlapped or one went on unanswered: the
\* property NoDoubleRefund, for any orders, clerks, amounts, stories and faults.
THEOREM RefundedOnce == CreditSpec => []NoDoubleRefund
<1>1. CreditSpec => []IInv
  BY InitIInv, StepIInv, PTL DEF CreditSpec
<1>2. QED
  BY <1>1, IInvNoDoubleRefund, PTL

-----------------------------------------------------------------------------
(* RewardsAsPromised.  What a referral still has to pay, and who knows it. *)

ClaimRefs(q) == {<<"referrer", q>>, <<"referee", q>>}
\* credits that are applied, or that the ledger takes for it
Taken == creditLog \union swallowed
Crediting == {"read", "save", "log", "undo", "post"}

\* a qualification pays the referrer, then the referee, then marks the row
QualifyKnows(t) == t.work = "qualify" =>
  /\ t.id \in Claim /\ referral[t.id] # "none"
  /\ \/ t.at \in Crediting /\ t.ref = <<"referrer", t.id>>
     \/ t.at \in Crediting /\ t.ref = <<"referee", t.id>> /\ <<"referrer", t.id>> \in Taken
     \/ t.at = "mark" /\ t.ref = NoRef /\ ClaimRefs(t.id) \subseteq Taken
Knows(t) ==
  /\ QualifyKnows(t)
  /\ t.at = "mark" => t.work = "qualify"
  /\ t.at \in {"undo", "post"} => t.ref \in Taken
  /\ \A q \in Claim : t.ref \in ClaimRefs(q) => referral[q] # "none" /\ q \notin barred

RewardInv ==
  /\ referral \in [Claim -> {"none", "PENDING", "CREDITED", "BLOCKED"}]
  /\ \A h \in Clerk : Knows(clerk[h])
  /\ \A q \in Claim : /\ referral[q] = "CREDITED" => ClaimRefs(q) \subseteq Taken
                      /\ q \in barred => referral[q] \in {"BLOCKED", "CREDITED"} /\ ~Paid(q)
                      /\ Paid(q) => referral[q] # "none"
  /\ barred \subseteq Claim
  /\ ~twins => \A p, q \in Claim : referral[p] # "none" /\ referral[q] # "none" => p = q

LEMMA InitRewards == CreditInit => RewardInv
<1> SUFFICES ASSUME CreditInit PROVE RewardInv
  OBVIOUS
<1>1. \A h \in Clerk : clerk[h] = Off
  BY DEF CreditInit
<1>2. Knows(Off)
  BY DEF Knows, QualifyKnows, Off, NoRef, ClaimRefs
<1>3. \A q \in Claim : referral[q] = "none" /\ ~Paid(q)
  BY DEF CreditInit, Paid, Logged
<1> QED BY <1>1, <1>2, <1>3 DEF RewardInv, CreditInit

\* A clerk goes on: what it logs is its own credit, and no row of the programme changes.
LEMMA RewardStep ==
  ASSUME Typed, RewardInv, NEW h \in Clerk, NEW t, clerk' = [clerk EXCEPT ![h] = t], Knows(t)',
         creditLog \subseteq creditLog', swallowed \subseteq swallowed', UNCHANGED <<referral, barred, twins>>,
         \A q \in Claim : \A ref \in ClaimRefs(q) : ref \in creditLog' => ref \in creditLog \/ ref = clerk[h].ref
  PROVE  RewardInv'
<1>1. clerk'[h] = t /\ \A g \in Clerk \ {h} : clerk'[g] = clerk[g]
  BY DEF Typed
<1>2. Taken \subseteq Taken'
  BY DEF Taken
<1>3. ASSUME NEW g \in Clerk PROVE Knows(clerk[g])'
  <2>1. CASE g = h
    BY <1>1, <2>1 DEF Knows, QualifyKnows
  <2>2. CASE g # h
    <3>1. Knows(clerk[g]) /\ clerk'[g] = clerk[g]
      BY <1>1, <2>2 DEF RewardInv
    <3> QED BY <1>2, <3>1 DEF Knows, QualifyKnows
  <2> QED BY <2>1, <2>2
<1>4. ASSUME NEW q \in Claim, Paid(q)', ~Paid(q) PROVE clerk[h].ref \in ClaimRefs(q)
  BY <1>4 DEF Paid, Logged, ClaimRefs
<1>5. \A q \in Claim : Paid(q)' => Paid(q) \/ (referral[q] # "none" /\ q \notin barred)
  <2>1. Knows(clerk[h])
    BY DEF RewardInv
  <2> QED BY <1>4, <2>1 DEF Knows
<1>6. \A q \in Claim : /\ referral'[q] = "CREDITED" => ClaimRefs(q) \subseteq Taken'
                       /\ q \in barred' => referral'[q] \in {"BLOCKED", "CREDITED"} /\ ~Paid(q)'
                       /\ Paid(q)' => referral'[q] # "none"
  BY <1>2, <1>5 DEF RewardInv
<1> QED BY <1>3, <1>6 DEF RewardInv

SameRows == UNCHANGED <<referral, barred, twins>> /\ swallowed \subseteq swallowed'
\* what a step logs besides what its clerk is to credit is no claim's
OwnRefLogged(h) ==
  /\ creditLog \subseteq creditLog'
  /\ \A q \in Claim : \A ref \in ClaimRefs(q) : ref \in creditLog' => ref \in creditLog \/ ref = clerk[h].ref

LEMMA RewardEnds ==
  ASSUME Typed, RewardInv, NEW h \in Clerk, clerk' = [clerk EXCEPT ![h] = Off], SameRows, OwnRefLogged(h)
  PROVE  RewardInv'
<1>1. Knows(Off)'
  BY DEF Knows, QualifyKnows, Off, NoRef, ClaimRefs
<1> QED BY <1>1, RewardStep DEF SameRows, OwnRefLogged

LEMMA RewardMoves ==
  ASSUME Typed, RewardInv, NEW h \in Clerk, NEW at, clerk' = [clerk EXCEPT ![h].at = at], at # "mark",
         clerk[h].work = "qualify" => clerk[h].at \in Crediting /\ at \in Crediting,
         at \in {"undo", "post"} => clerk[h].ref \in Taken',
         SameRows, OwnRefLogged(h)
  PROVE  RewardInv'
<1> DEFINE t == [clerk[h] EXCEPT !.at = at]
<1>1. DOMAIN clerk[h] = Fields /\ Knows(clerk[h])
  BY DEF Typed, RewardInv
<1>2. t.work = clerk[h].work /\ t.at = at /\ t.ref = clerk[h].ref /\ t.id = clerk[h].id
  BY <1>1 DEF Fields
<1>3. clerk' = [clerk EXCEPT ![h] = t]
  OBVIOUS
<1> HIDE DEF t
<1>4. PICK s : s = t
  OBVIOUS
<1>5. Taken \subseteq Taken' /\ UNCHANGED <<referral, barred>>
  BY DEF SameRows, OwnRefLogged, Taken
<1>6. Knows(s)'
  <2>1. QualifyKnows(s)'
    BY <1>1, <1>2, <1>4, <1>5 DEF Knows, QualifyKnows, Crediting
  <2>2. (s.at = "mark" => s.work = "qualify") /\ (s.at \in {"undo", "post"} => s.ref \in Taken')
    BY <1>2, <1>4
  <2>3. \A q \in Claim : s.ref \in ClaimRefs(q) => referral'[q] # "none" /\ q \notin barred'
    BY <1>1, <1>2, <1>4, <1>5 DEF Knows
  <2> QED BY <2>1, <2>2, <2>3 DEF Knows
<1> QED BY <1>3, <1>4, <1>6, RewardStep DEF SameRows, OwnRefLogged

\* a credit that is taken for applied: on to the referee, or to the mark
LEMMA RewardProceeds ==
  ASSUME Typed, RewardInv, NEW h \in Clerk, clerk' = [clerk EXCEPT ![h] = Proceeds(h)], clerk[h].at \in Crediting,
         clerk[h].ref \in Taken, SameRows, OwnRefLogged(h)
  PROVE  RewardInv'
<1>1. DOMAIN clerk[h] = Fields /\ Knows(clerk[h])
  BY DEF Typed, RewardInv
<1>2. Taken \subseteq Taken' /\ UNCHANGED <<referral, barred>>
  BY DEF SameRows, OwnRefLogged, Taken
<1>3. CASE clerk[h].work # "qualify"
  BY <1>3, RewardEnds DEF Proceeds
<1>4. CASE clerk[h].work = "qualify"
  <2>1. /\ clerk[h].id \in Claim /\ referral[clerk[h].id] # "none"
        /\ \/ clerk[h].ref = <<"referrer", clerk[h].id>>
           \/ clerk[h].ref = <<"referee", clerk[h].id>> /\ <<"referrer", clerk[h].id>> \in Taken
    BY <1>1, <1>4 DEF Knows, QualifyKnows, Crediting
  <2>2. CASE clerk[h].ref = <<"referrer", clerk[h].id>>
    <3> DEFINE t == [clerk[h] EXCEPT !.at = "read", !.ref = <<"referee", clerk[h].id>>]
    <3>1. t.work = "qualify" /\ t.at = "read" /\ t.ref = <<"referee", clerk[h].id>> /\ t.id = clerk[h].id
      BY <1>1, <1>4 DEF Fields
    <3>2. clerk' = [clerk EXCEPT ![h] = t]
      BY <1>4, <2>2 DEF Proceeds
    <3> HIDE DEF t
    <3>3. PICK s : s = t
      OBVIOUS
    <3>4. QualifyKnows(s)'
      BY <1>2, <2>1, <2>2, <3>1, <3>3 DEF QualifyKnows, Crediting
    <3>5. clerk[h].ref \in ClaimRefs(clerk[h].id) /\ \A q \in Claim : s.ref \in ClaimRefs(q) => q = clerk[h].id
      BY <2>2, <3>1, <3>3 DEF ClaimRefs
    <3>6. Knows(s)'
      BY <1>1, <1>2, <3>1, <3>3, <3>4, <3>5 DEF Knows
    <3> QED BY <3>2, <3>3, <3>6, RewardStep DEF SameRows, OwnRefLogged
  <2>3. CASE clerk[h].ref = <<"referee", clerk[h].id>> /\ <<"referrer", clerk[h].id>> \in Taken
    <3> DEFINE t == [clerk[h] EXCEPT !.at = "mark", !.ref = NoRef]
    <3>1. t.work = "qualify" /\ t.at = "mark" /\ t.ref = NoRef /\ t.id = clerk[h].id
      BY <1>1, <1>4 DEF Fields
    <3>2. clerk' = [clerk EXCEPT ![h] = t]
      BY <1>4, <2>3 DEF Proceeds
    <3> HIDE DEF t
    <3>3. PICK s : s = t
      OBVIOUS
    <3>4. QualifyKnows(s)'
      BY <1>2, <2>1, <2>3, <3>1, <3>3 DEF QualifyKnows, ClaimRefs
    <3>5. \A q \in Claim : s.ref \notin ClaimRefs(q)
      BY <3>1, <3>3 DEF ClaimRefs, NoRef
    <3>6. Knows(s)'
      BY <3>1, <3>3, <3>4, <3>5 DEF Knows
    <3> QED BY <3>2, <3>3, <3>6, RewardStep DEF SameRows, OwnRefLogged
  <2> QED BY <2>1, <2>2, <2>3
<1> QED BY <1>3, <1>4

\* work begins: none but a qualification is about a claim that may be paid
LEMMA RewardBegins ==
  ASSUME Typed, RewardInv, NEW h \in Clerk, NEW work, NEW at, NEW id, NEW ref, NEW sum, Begins(h, work, at, id, ref, sum),
         at \notin {"mark", "undo", "post"},
         \A q \in Claim : ref \in ClaimRefs(q) => referral[q] # "none" /\ q \notin barred,
         work = "qualify" => /\ id \in Claim /\ referral[id] # "none"
                             /\ at \in Crediting /\ ref = <<"referrer", id>>,
         SameRows, creditLog' = creditLog
  PROVE  RewardInv'
<1> DEFINE t == [work |-> work, at |-> at, id |-> id, ref |-> ref, sum |-> sum, seen |-> wallet[Customer], had |-> points]
<1>1. t.work = work /\ t.at = at /\ t.ref = ref /\ t.id = id
  OBVIOUS
<1>2. clerk' = [clerk EXCEPT ![h] = t]
  BY DEF Begins
<1> HIDE DEF t
<1>3. PICK s : s = t
  OBVIOUS
<1>4. Knows(s)'
  BY <1>1, <1>3 DEF Knows, QualifyKnows, SameRows
<1> QED BY <1>2, <1>3, <1>4, RewardStep DEF SameRows

LEMMA RewardCredits ==
  ASSUME Typed, RewardInv, NEW h \in Clerk,
         \/ CreditRead(h) \/ CreditSave(h) \/ CreditLogged(h) \/ InsertFails(h) \/ CreditUndo(h)
         \/ CreditPost(h) \/ AnswerLost(h) \/ PostFails(h)
  PROVE  RewardInv'
<1>0. Knows(clerk[h]) /\ DOMAIN clerk[h] = Fields
  BY DEF RewardInv, Typed
<1> USE DEF SameRows, OwnRefLogged, Crediting, Is
<1>1. CASE CreditRead(h)
  <2>1. UNCHANGED <<referral, barred, twins, swallowed, creditLog>> /\ clerk[h].at = "read"
    BY <1>1 DEF CreditRead, creditRows, creditTold
  <2>2. CASE Logged(clerk[h].ref) /\ clerk' = [clerk EXCEPT ![h] = Proceeds(h)]
    BY <2>1, <2>2, RewardProceeds DEF Logged, Taken
  <2>3. CASE clerk' = [clerk EXCEPT ![h] = Off]
    BY <2>1, <2>3, RewardEnds
  <2>4. CASE \E n, m : clerk' = [clerk EXCEPT ![h] = [clerk[h] EXCEPT !.at = "save", !.seen = n, !.sum = m]]
    <3>1. PICK n, m : clerk' = [clerk EXCEPT ![h] = [clerk[h] EXCEPT !.at = "save", !.seen = n, !.sum = m]]
      BY <2>4
    <3> DEFINE t == [clerk[h] EXCEPT !.at = "save", !.seen = n, !.sum = m]
    <3>2. t.work = clerk[h].work /\ t.at = "save" /\ t.ref = clerk[h].ref /\ t.id = clerk[h].id
      BY <1>0 DEF Fields
    <3>3. clerk' = [clerk EXCEPT ![h] = t]
      BY <3>1
    <3> HIDE DEF t
    <3>4. PICK s : s = t
      OBVIOUS
    <3>5. Knows(s)'
      BY <1>0, <2>1, <3>2, <3>4 DEF Knows, QualifyKnows, Taken
    <3> QED BY <2>1, <3>3, <3>4, <3>5, RewardStep
  <2> QED BY <1>1, <2>2, <2>3, <2>4 DEF CreditRead
<1>2. CASE CreditSave(h)
  <2>1. UNCHANGED <<referral, barred, twins, swallowed, creditLog>> /\ clerk[h].at = "save" /\ clerk' = [clerk EXCEPT ![h].at = "log"]
    BY <1>2 DEF CreditSave, Moves
  <2> QED BY <2>1, RewardMoves
<1>3. CASE CreditLogged(h)
  <2>1. UNCHANGED <<referral, barred, twins, swallowed>> /\ clerk[h].at = "log"
    BY <1>3 DEF CreditLogged, creditTold
  <2>2. CASE clerk' = [clerk EXCEPT ![h].at = "undo"] /\ Logged(clerk[h].ref) /\ creditLog' = creditLog
    BY <2>1, <2>2, RewardMoves DEF Logged, Taken
  <2>3. CASE clerk' = [clerk EXCEPT ![h].at = "post"] /\ creditLog' = creditLog \union {clerk[h].ref}
    BY <2>1, <2>3, RewardMoves DEF Taken
  <2> QED BY <1>3, <2>2, <2>3 DEF CreditLogged, Moves, Clashes
<1>4. CASE InsertFails(h)
  <2>1. /\ UNCHANGED <<referral, barred, twins, creditLog>> /\ clerk[h].at = "log" /\ swallowed' = swallowed \union {clerk[h].ref}
        /\ clerk' = [clerk EXCEPT ![h].at = "undo"]
    BY <1>4 DEF InsertFails, creditRows
  <2> QED BY <2>1, RewardMoves DEF Taken
<1>5. CASE CreditUndo(h) \/ CreditPost(h)
  <2>1. /\ UNCHANGED <<referral, barred, twins, swallowed, creditLog>> /\ clerk[h].at \in {"undo", "post"}
        /\ clerk' = [clerk EXCEPT ![h] = Proceeds(h)]
    BY <1>5 DEF CreditUndo, CreditPost, GoesOn, creditTold
  <2> QED BY <1>0, <2>1, RewardProceeds DEF Knows
<1>6. CASE AnswerLost(h)
  <2> DEFINE t == [clerk[h] EXCEPT !.work = "grant"]
  <2>1. t.work = "grant" /\ t.at = clerk[h].at /\ t.ref = clerk[h].ref
    BY <1>0 DEF Fields
  <2>2. /\ clerk' = [clerk EXCEPT ![h] = t] /\ clerk[h].at # "mark"
        /\ UNCHANGED <<referral, barred, twins, swallowed, creditLog>>
    BY <1>6 DEF AnswerLost, creditRows, creditTold
  <2> HIDE DEF t
  <2>3. PICK s : s = t
    OBVIOUS
  <2>4. Knows(s)'
    BY <1>0, <2>1, <2>2, <2>3 DEF Knows, QualifyKnows, Taken
  <2> QED BY <2>2, <2>3, <2>4, RewardStep
<1>7. CASE PostFails(h)
  <2>1. UNCHANGED <<referral, barred, twins, swallowed, creditLog>> /\ clerk' = [clerk EXCEPT ![h] = Off]
    BY <1>7 DEF PostFails, GivesUp, creditRows
  <2> QED BY <2>1, RewardEnds
<1> QED BY <1>1, <1>2, <1>3, <1>4, <1>5, <1>6, <1>7

LEMMA RewardWorkBegins ==
  ASSUME Typed, RewardInv, NEW h \in Clerk,
         \/ Grant(h) \/ Spend(h) \/ BeginRedeem(h) \/ BeginClaim(h)
         \/ \E o \in Sale : \/ BeginDelivery(h, o) \/ \E q \in Claim : BeginQualify(h, o, q)
                            \/ \E way \in {"no_refund", "wallet", "psp"} : BeginDecision(h, o, way)
                            \/ \E sum \in {0, Refund} : BeginCase(h, o, sum)
         \/ \E q \in Claim : BeginExpire(h, q)
  PROVE  RewardInv'
<1>0. \A n : \A q \in Claim :
        /\ <<"grant", n>> \notin ClaimRefs(q) /\ <<"spend", n>> \notin ClaimRefs(q) /\ <<"loyalty", n>> \notin ClaimRefs(q)
        /\ <<"unspent", n>> \notin ClaimRefs(q) /\ <<"dispute", n>> \notin ClaimRefs(q) /\ NoRef \notin ClaimRefs(q)
  BY DEF ClaimRefs, NoRef
<1> USE DEF SameRows, creditRows, creditTold
<1>1. CASE Grant(h)
  <2>1. Begins(h, "grant", "read", NoRef, <<"grant", creditSteps + 1>>, Reward)
    BY <1>1 DEF Grant
  <2>2. SameRows /\ creditLog' = creditLog
    BY <1>1 DEF Grant
  <2>3. \A q \in Claim : <<"grant", creditSteps + 1>> \notin ClaimRefs(q)
    BY <1>0
  <2> QED BY <2>1, <2>2, <2>3, RewardBegins
<1>2. CASE Spend(h)
  <2>1. Begins(h, "spend", "read", NoRef, <<"spend", creditSteps + 1>>, Spending)
    BY <1>2 DEF Spend
  <2>2. SameRows /\ creditLog' = creditLog
    BY <1>2 DEF Spend
  <2>3. \A q \in Claim : <<"spend", creditSteps + 1>> \notin ClaimRefs(q)
    BY <1>0
  <2> QED BY <2>1, <2>2, <2>3, RewardBegins
<1>3. CASE BeginRedeem(h)
  <2>1. Begins(h, "redeem", "take", NoRef, <<"loyalty", creditSteps + 1>>, Points)
    BY <1>3 DEF BeginRedeem
  <2>2. SameRows /\ creditLog' = creditLog
    BY <1>3 DEF BeginRedeem
  <2>3. \A q \in Claim : <<"loyalty", creditSteps + 1>> \notin ClaimRefs(q)
    BY <1>0
  <2> QED BY <2>1, <2>2, <2>3, RewardBegins
<1>4. CASE BeginClaim(h)
  <2>1. Begins(h, "claim", "insert", NoRef, NoRef, 0)
    BY <1>4 DEF BeginClaim
  <2>2. SameRows /\ creditLog' = creditLog
    BY <1>4 DEF BeginClaim
  <2>3. \A q \in Claim : NoRef \notin ClaimRefs(q)
    BY <1>0
  <2> QED BY <2>1, <2>2, <2>3, RewardBegins
<1>5. ASSUME NEW o \in Sale, BeginDelivery(h, o) PROVE RewardInv'
  <2>1. \A q \in Claim : (IF o \in Errand THEN <<"unspent", o>> ELSE NoRef) \notin ClaimRefs(q)
    BY <1>0
  <2> QED BY <1>5, <2>1, RewardBegins DEF BeginDelivery
<1>6. ASSUME NEW o \in Sale, NEW q \in Claim, BeginQualify(h, o, q) PROVE RewardInv'
  <2>1. referral[q] = "PENDING" /\ q \notin barred
    BY <1>6 DEF BeginQualify, Payable, RewardInv
  <2>2. \A p \in Claim : <<"referrer", q>> \in ClaimRefs(p) => p = q
    BY DEF ClaimRefs
  <2> QED BY <1>6, <2>1, <2>2, RewardBegins DEF BeginQualify, Crediting
<1>7. ASSUME NEW o \in Sale, NEW way \in {"no_refund", "wallet", "psp"}, BeginDecision(h, o, way) PROVE RewardInv'
  <2>1. \A q \in Claim : (IF way = "wallet" THEN <<"dispute", o>> ELSE NoRef) \notin ClaimRefs(q)
    BY <1>0
  <2> QED BY <1>7, <2>1, RewardBegins DEF BeginDecision
<1>8. ASSUME NEW o \in Sale, NEW sum \in {0, Refund}, BeginCase(h, o, sum) PROVE RewardInv'
  <2>1. Begins(h, "chargeback", "close", o, NoRef, sum)
    BY <1>8 DEF BeginCase
  <2>2. SameRows /\ creditLog' = creditLog
    BY <1>8 DEF BeginCase
  <2>3. \A q \in Claim : NoRef \notin ClaimRefs(q)
    BY <1>0
  <2> QED BY <2>1, <2>2, <2>3, RewardBegins
<1>9. ASSUME NEW q \in Claim, BeginExpire(h, q) PROVE RewardInv'
  <2>1. Logged(<<"referee", q>>)
    BY <1>9 DEF BeginExpire
  <2>2. referral[q] # "none" /\ q \notin barred
    BY <2>1 DEF RewardInv, Paid
  <2>3. \A p \in Claim : <<"referee", q>> \in ClaimRefs(p) => p = q
    BY DEF ClaimRefs
  <2> QED BY <1>9, <2>2, <2>3, RewardBegins DEF BeginExpire
<1> QED BY <1>1, <1>2, <1>3, <1>4, <1>5, <1>6, <1>7, <1>8, <1>9

LEMMA RewardOthers ==
  ASSUME IInv, RewardInv, NEW h \in Clerk,
         \/ TakePoints(h) \/ Delivery(h) \/ Lapse(h) \/ Stamp(h) \/ WriteOff(h) \/ CreditCallFails(h)
         \/ AskPayment(h) \/ Decide(h) \/ CloseCase(h)
         \/ LedgerDies(h) \/ PaymentRefuses(h) \/ DecisionAborts(h) \/ CaseAborts(h)
  PROVE  RewardInv'
<1>0. Typed /\ Knows(clerk[h])
  BY DEF RewardInv, IInv
<1> USE DEF SameRows, OwnRefLogged, Is, Moves, Finishes, GivesUp
<1>1. ASSUME NEW at, clerk' = [clerk EXCEPT ![h].at = at], at \notin {"mark", "undo", "post"},
             clerk[h].at \in {"take", "lapse", "stamp", "ask"},
             UNCHANGED <<referral, barred, twins, swallowed, creditLog>>
      PROVE  RewardInv'
  <2>1. clerk[h].work # "qualify"
    BY <1>0, <1>1 DEF Knows, QualifyKnows, Crediting
  <2> QED BY <1>0, <1>1, <2>1, RewardMoves
<1>2. ASSUME clerk' = [clerk EXCEPT ![h] = Off], UNCHANGED <<referral, barred, twins, swallowed>>,
             creditLog' = creditLog \/ creditLog' = creditLog \union {clerk[h].ref}
      PROVE  RewardInv'
  BY <1>0, <1>2, RewardEnds
<1>3. CASE TakePoints(h)
  <2>1. clerk' = [clerk EXCEPT ![h].at = "read"] /\ clerk[h].at = "take" /\ UNCHANGED <<referral, barred, twins, swallowed, creditLog>>
    BY <1>3 DEF TakePoints
  <2>2. "read" \notin {"mark", "undo", "post"} /\ clerk[h].at \in {"take", "lapse", "stamp", "ask"}
    BY <2>1
  <2> QED BY <1>1, <2>1, <2>2
<1>4. CASE Lapse(h) \/ Stamp(h)
  BY <1>1, <1>4 DEF Lapse, Stamp, creditTold
<1>5. CASE AskPayment(h)
  BY <1>1, <1>2, <1>5 DEF AskPayment, creditRows
<1>6. CASE Delivery(h) \/ Decide(h)
  <2>1. creditLog' = creditLog \/ creditLog' = creditLog \union {clerk[h].ref}
    BY <1>6 DEF Delivery, Decide
  <2>2. clerk' = [clerk EXCEPT ![h] = Off] /\ UNCHANGED <<referral, barred, twins, swallowed>>
    BY <1>6 DEF Delivery, Decide
  <2> QED BY <1>2, <2>1, <2>2
<1>7. CASE WriteOff(h) \/ CreditCallFails(h) \/ CloseCase(h)
  BY <1>2, <1>7 DEF WriteOff, CreditCallFails, CloseCase, creditRows, creditTold
<1>8. CASE LedgerDies(h) \/ PaymentRefuses(h) \/ DecisionAborts(h) \/ CaseAborts(h)
  BY <1>2, <1>8 DEF LedgerDies, PaymentRefuses, DecisionAborts, CaseAborts, creditRows, creditTold
<1> QED BY <1>3, <1>4, <1>5, <1>6, <1>7, <1>8

\* the rows of the programme: marked, inserted and blocked
LEMMA MarkRewards ==
  ASSUME Typed, RewardInv, NEW h \in Clerk, Mark(h) PROVE RewardInv'
<1> DEFINE p == clerk[h].id
<1>1. Knows(clerk[h]) /\ clerk[h].at = "mark"
  BY DEF RewardInv, Mark, Is
<1>2. p \in Claim /\ referral[p] # "none" /\ ClaimRefs(p) \subseteq Taken
  BY <1>1 DEF Knows, QualifyKnows, Crediting
<1>3. /\ referral' = [referral EXCEPT ![p] = "CREDITED"] /\ clerk' = [clerk EXCEPT ![h] = Off]
      /\ UNCHANGED <<creditLog, swallowed, barred, twins>>
  BY DEF Mark, Finishes, creditRows, creditTold
<1> HIDE DEF p
<1>4. /\ referral' \in [Claim -> {"none", "PENDING", "CREDITED", "BLOCKED"}]
      /\ \A q \in Claim : referral'[q] = IF q = p THEN "CREDITED" ELSE referral[q]
  BY <1>2, <1>3 DEF RewardInv
<1>5. Taken' = Taken /\ \A q \in Claim : (Paid(q)' <=> Paid(q)) /\ (referral'[q] = "none" <=> referral[q] = "none")
  BY <1>2, <1>3, <1>4 DEF Taken, Paid, Logged
<1>6. ASSUME NEW g \in Clerk PROVE Knows(clerk[g])'
  <2>1. CASE g = h
    <3>1. clerk'[g] = Off
      BY <1>3, <2>1 DEF Typed
    <3> QED BY <3>1 DEF Knows, QualifyKnows, Off, NoRef, ClaimRefs
  <2>2. CASE g # h
    <3>1. Knows(clerk[g]) /\ clerk'[g] = clerk[g]
      BY <1>3, <2>2 DEF RewardInv, Typed
    <3> QED BY <1>3, <1>5, <3>1 DEF Knows, QualifyKnows
  <2> QED BY <2>1, <2>2
<1>7. \A q \in Claim : /\ referral'[q] = "CREDITED" => ClaimRefs(q) \subseteq Taken'
                       /\ q \in barred' => referral'[q] \in {"BLOCKED", "CREDITED"} /\ ~Paid(q)'
                       /\ Paid(q)' => referral'[q] # "none"
  BY <1>2, <1>3, <1>4, <1>5 DEF RewardInv
<1>8. ~twins' => \A q, r \in Claim : referral'[q] # "none" /\ referral'[r] # "none" => q = r
  BY <1>3, <1>5 DEF RewardInv
<1> QED BY <1>3, <1>4, <1>6, <1>7, <1>8 DEF RewardInv

LEMMA InsertRewards ==
  ASSUME Typed, RewardInv, NEW h \in Clerk, NEW p \in Claim, InsertClaim(h, p) PROVE RewardInv'
<1>1. /\ referral' = [referral EXCEPT ![p] = "PENDING"] /\ clerk' = [clerk EXCEPT ![h] = Off] /\ referral[p] = "none"
      /\ UNCHANGED <<creditLog, swallowed, barred>> /\ twins' = (twins \/ \E q \in Claim : referral[q] # "none")
  BY DEF InsertClaim, Finishes, creditRows
<1>2. /\ referral' \in [Claim -> {"none", "PENDING", "CREDITED", "BLOCKED"}]
      /\ \A q \in Claim : referral'[q] = IF q = p THEN "PENDING" ELSE referral[q]
  BY <1>1 DEF RewardInv
<1>3. Taken' = Taken /\ p \notin barred /\ \A q \in Claim : Paid(q)' <=> Paid(q)
  BY <1>1 DEF Taken, Paid, Logged, RewardInv
<1>4. ASSUME NEW g \in Clerk PROVE Knows(clerk[g])'
  <2>1. CASE g = h
    <3>1. clerk'[g] = Off
      BY <1>1, <2>1 DEF Typed
    <3> QED BY <3>1 DEF Knows, QualifyKnows, Off, NoRef, ClaimRefs
  <2>2. CASE g # h
    <3>1. Knows(clerk[g]) /\ clerk'[g] = clerk[g]
      BY <1>1, <2>2 DEF RewardInv, Typed
    <3> QED BY <1>1, <1>2, <1>3, <3>1 DEF Knows, QualifyKnows
  <2> QED BY <2>1, <2>2
<1>5. \A q \in Claim : /\ referral'[q] = "CREDITED" => ClaimRefs(q) \subseteq Taken'
                       /\ q \in barred' => referral'[q] \in {"BLOCKED", "CREDITED"} /\ ~Paid(q)'
                       /\ Paid(q)' => referral'[q] # "none"
  BY <1>1, <1>2, <1>3 DEF RewardInv
<1>6. ~twins' => \A q, r \in Claim : referral'[q] # "none" /\ referral'[r] # "none" => q = r
  BY <1>1, <1>2
<1> QED BY <1>1, <1>2, <1>4, <1>5, <1>6 DEF RewardInv

LEMMA BlockRewards ==
  ASSUME Typed, RewardInv, NEW p \in Claim, Block(p) PROVE RewardInv'
<1>1. /\ referral' = [referral EXCEPT ![p] = "BLOCKED"] /\ referral[p] \in {"PENDING", "CREDITED"}
      /\ barred' = barred \union (IF Paid(p) \/ \E h \in Clerk : clerk[h].ref[2] = p THEN {} ELSE {p})
      /\ UNCHANGED <<clerk, creditLog, swallowed, twins>>
  BY DEF Block, creditRows
<1>2. /\ referral' \in [Claim -> {"none", "PENDING", "CREDITED", "BLOCKED"}]
      /\ \A q \in Claim : referral'[q] = IF q = p THEN "BLOCKED" ELSE referral[q]
  BY <1>1 DEF RewardInv
<1>3. Taken' = Taken /\ \A q \in Claim : (Paid(q)' <=> Paid(q)) /\ (referral'[q] = "none" <=> referral[q] = "none")
  BY <1>1, <1>2 DEF Taken, Paid, Logged
<1>4. barred' \subseteq Claim /\ \A q \in Claim \ {p} : q \in barred' <=> q \in barred
  BY <1>1 DEF RewardInv
<1>5. p \in barred' => ~Paid(p) /\ (p \notin barred => \A h \in Clerk : clerk[h].ref \notin ClaimRefs(p))
  <2>1. ASSUME p \in barred, Paid(p) PROVE FALSE
    BY <2>1 DEF RewardInv
  <2>2. ASSUME p \in barred', p \notin barred
        PROVE ~Paid(p) /\ \A h \in Clerk : clerk[h].ref[2] # p
    BY <1>1, <2>2
  <2>3. \A x \in ClaimRefs(p) : x[2] = p
    BY DEF ClaimRefs
  <2> QED BY <2>1, <2>2, <2>3
<1>6. ASSUME NEW g \in Clerk PROVE Knows(clerk[g])'
  <2>1. Knows(clerk[g]) /\ clerk'[g] = clerk[g]
    BY <1>1 DEF RewardInv
  <2>2. \A q \in Claim : clerk[g].ref \in ClaimRefs(q) => referral'[q] # "none" /\ q \notin barred'
    BY <1>3, <1>4, <1>5, <2>1 DEF Knows
  <2>3. QualifyKnows(clerk[g])'
    BY <1>3, <2>1 DEF Knows, QualifyKnows
  <2> QED BY <1>3, <2>1, <2>2, <2>3 DEF Knows
<1>7. \A q \in Claim : /\ referral'[q] = "CREDITED" => ClaimRefs(q) \subseteq Taken'
                       /\ q \in barred' => referral'[q] \in {"BLOCKED", "CREDITED"} /\ ~Paid(q)'
                       /\ Paid(q)' => referral'[q] # "none"
  BY <1>1, <1>2, <1>3, <1>4, <1>5 DEF RewardInv
<1>8. ~twins' => \A q, r \in Claim : referral'[q] # "none" /\ referral'[r] # "none" => q = r
  BY <1>1, <1>3 DEF RewardInv
<1> QED BY <1>2, <1>4, <1>6, <1>7, <1>8 DEF RewardInv

LEMMA SameRewards ==
  ASSUME RewardInv, UNCHANGED <<creditLog, swallowed, referral, barred, twins, clerk>> PROVE RewardInv'
BY DEF RewardInv, Knows, QualifyKnows, Taken, Paid, Logged

LEMMA StepRewards == IInv /\ RewardInv /\ [CreditNext]_creditVars => RewardInv'
<1> SUFFICES ASSUME IInv, RewardInv, [CreditNext]_creditVars PROVE RewardInv'
  OBVIOUS
<1>1. Typed /\ story.sales \subseteq Sale
  BY CreditAssumption DEF IInv, Typed, StoryType
<1>2. ASSUME NEW h \in Clerk,
             \/ CreditRead(h) \/ CreditSave(h) \/ CreditLogged(h) \/ InsertFails(h) \/ CreditUndo(h) \/ CreditPost(h)
             \/ AnswerLost(h) \/ PostFails(h)
      PROVE  RewardInv'
  BY <1>1, <1>2, RewardCredits
<1>3. ASSUME NEW h \in Clerk, Grant(h) \/ Spend(h) \/ BeginRedeem(h) \/ BeginClaim(h) PROVE RewardInv'
  BY <1>1, <1>3, RewardWorkBegins
<1>4. ASSUME NEW h \in Clerk,
             \/ TakePoints(h) \/ Delivery(h) \/ Lapse(h) \/ Stamp(h) \/ WriteOff(h) \/ CreditCallFails(h)
             \/ AskPayment(h) \/ Decide(h) \/ CloseCase(h)
             \/ LedgerDies(h) \/ PaymentRefuses(h) \/ DecisionAborts(h) \/ CaseAborts(h)
      PROVE  RewardInv'
  BY <1>4, RewardOthers
<1>5. ASSUME NEW h \in Clerk, NEW o \in story.sales,
             \/ BeginDelivery(h, o)
             \/ \E way \in {"no_refund", "wallet", "psp"} : BeginDecision(h, o, way)
             \/ \E sum \in {0, Refund} : BeginCase(h, o, sum)
             \/ \E q \in Claim : BeginQualify(h, o, q)
      PROVE  RewardInv'
  BY <1>1, <1>5, RewardWorkBegins
<1>6. ASSUME NEW h \in Clerk, NEW q \in Claim, BeginExpire(h, q) PROVE RewardInv'
  BY <1>1, <1>6, RewardWorkBegins
<1>7. ASSUME NEW h \in Clerk, Mark(h) \/ \E q \in Claim : InsertClaim(h, q) PROVE RewardInv'
  BY <1>1, <1>7, MarkRewards, InsertRewards
<1>8. ASSUME NEW q \in Claim, Block(q) PROVE RewardInv'
  BY <1>1, <1>8, BlockRewards
<1>9. ASSUME NEW o \in story.sales, OpenDispute(o) \/ OpenChargeback(o) PROVE RewardInv'
  BY <1>9, SameRewards DEF OpenDispute, OpenChargeback, creditRows, creditTold
<1>10. CASE UNCHANGED creditVars
  BY <1>10, SameRewards DEF creditVars, creditRows, creditTold
<1> QED BY <1>2, <1>3, <1>4, <1>5, <1>6, <1>7, <1>8, <1>9, <1>10 DEF CreditNext

LEMMA RewardInvPromised == RewardInv => RewardsAsPromised
<1> SUFFICES ASSUME RewardInv PROVE RewardsAsPromised
  OBVIOUS
<1>1. \A q \in Claim : referral[q] = "CREDITED" => {<<"referrer", q>>, <<"referee", q>>} \subseteq creditLog \union swallowed
  BY DEF RewardInv, ClaimRefs, Taken
<1>2. \A q \in barred : ~Paid(q)
  BY DEF RewardInv
<1>3. ASSUME ~twins PROVE Cardinality({q \in Claim : Paid(q)}) <= 1
  <2>1. \A p, q \in Claim : Paid(p) /\ Paid(q) => p = q
    BY <1>3 DEF RewardInv
  <2>2. CASE \E q \in Claim : Paid(q)
    <3>1. PICK q \in Claim : Paid(q)
      BY <2>2
    <3>2. {p \in Claim : Paid(p)} = {q}
      BY <2>1, <3>1
    <3>3. Cardinality({q}) = 1
      BY FS_Singleton
    <3> QED BY <3>2, <3>3
  <2>3. CASE ~\E q \in Claim : Paid(q)
    <3>1. {p \in Claim : Paid(p)} = {}
      BY <2>3
    <3>2. Cardinality({}) = 0
      BY FS_EmptySet
    <3> QED BY <3>1, <3>2
  <2> QED BY <2>2, <2>3
<1> QED BY <1>1, <1>2, <1>3 DEF RewardsAsPromised

\* What the programme promises, for any claims, orders, clerks, stories and
\* faults: a referral that is CREDITED has paid both sides, one blocked before it
\* paid never pays, and one claim of a phone is rewarded: RewardsAsPromised
\* (ReferralService.onDelivered, LedgerService.creditCustomerWallet).
THEOREM RewardsArePaid == CreditSpec => []RewardsAsPromised
<1>1. CreditSpec => [](IInv /\ RewardInv)
  <2>1. CreditInit => IInv /\ RewardInv
    BY InitIInv, InitRewards
  <2>2. IInv /\ RewardInv /\ [CreditNext]_creditVars => IInv' /\ RewardInv'
    BY StepIInv, StepRewards
  <2> QED BY <2>1, <2>2, PTL DEF CreditSpec
<1> QED BY <1>1, RewardInvPromised, PTL

-----------------------------------------------------------------------------
(* CreditBooks. What each clerk has taken and not yet put down elsewhere. *)

CreditWork == {"grant", "spend", "redeem", "qualify"}
ExpirePlace == {"lapse", "stamp", "writeOff"}
\* what creditCustomerWallet and spendCustomerCredit are asked to log
CreditRef == ({"grant", "loyalty", "spend"} \X (1..creditSteps)) \union ({"referrer", "referee"} \X Claim)

\* what a clerk knows of what it is at
JobTyped(h) ==
  /\ clerk[h].work \in Work \union {"none"} /\ clerk[h].ref \in Ref \union {NoRef}
  /\ clerk[h].sum \in Nat /\ clerk[h].seen \in Nat /\ clerk[h].had \in Nat
JobCredits(h) == clerk[h].at \in Crediting =>
  /\ clerk[h].work \in CreditWork /\ clerk[h].ref \in CreditRef
  /\ clerk[h].work = "spend" /\ clerk[h].at # "read" => clerk[h].sum <= clerk[h].seen
JobRedeems(h) ==
  /\ clerk[h].at = "take" \/ clerk[h].ref[1] = "loyalty" => clerk[h].work = "redeem"
  /\ clerk[h].work = "redeem" =>
       /\ clerk[h].at \in Crediting \union {"take"} /\ clerk[h].id = NoRef
       /\ clerk[h].ref \in {"loyalty"} \X (1..creditSteps) /\ clerk[h].sum = Points
       /\ clerk[h].at # "post" => ~Logged(clerk[h].ref)
       /\ clerk[h].at = "take" => clerk[h].had >= Points
       /\ clerk[h].at = "undo" => swallowed # {}
JobDelivers(h) ==
  /\ clerk[h].ref[1] = "unspent" => clerk[h].work = "deliver"
  /\ clerk[h].work = "deliver" =>
       /\ clerk[h].at = "commit" /\ clerk[h].id \in Sale \ delivered
       /\ clerk[h].ref = IF clerk[h].id \in Errand THEN <<"unspent", clerk[h].id>> ELSE NoRef
JobExpires(h) ==
  /\ clerk[h].at \in ExpirePlace => /\ clerk[h].work = "expire" /\ clerk[h].ref \in {"referee"} \X Claim
                                    /\ Logged(clerk[h].ref) /\ clerk[h].sum <= clerk[h].seen
  /\ clerk[h].work = "expire" => clerk[h].at \in ExpirePlace
JobKnows(h) == JobTyped(h) /\ JobCredits(h) /\ JobRedeems(h) /\ JobDelivers(h) /\ JobExpires(h)

\* an order is delivered by one clerk, a redemption has its own ref
OneWorker(work) == \A g, h \in Clerk :
  clerk[g].work = work /\ clerk[h].work = work /\ clerk[g].ref = clerk[h].ref /\ clerk[g].id = clerk[h].id => g = h
LogKnows ==
  /\ \A n \in Counts : Logged(<<"loyalty", n>>) => n <= creditSteps
  /\ \A o \in Sale : Logged(<<"unspent", o>>) => o \in delivered
JobsInv == (\A h \in Clerk : JobKnows(h)) /\ OneWorker("redeem") /\ OneWorker("deliver") /\ LogKnows

RowsTyped ==
  /\ wallet \in [{Customer, Referrer} -> Nat] /\ points \in Nat /\ liability \in Int /\ landed \in [Ref -> Int]
  /\ creditLog \subseteq Ref /\ lapsed \subseteq creditLog /\ \A ref \in lapsed : ref[1] = "referee"
  /\ delivered \subseteq Sale /\ IsFiniteSet(delivered) /\ heard \subseteq Sale \X Claim
  /\ creditSteps \in 0..story.steps /\ creditTroubles \in 0..story.faults

\* What a clerk has put in a balance and not yet in the journal; points it has
\* taken whose credit is not in the log; a credit in a balance and not in the log.
Unposted(h) == IF clerk[h].at \in {"log", "undo", "post"} THEN Signed(h)
               ELSE IF clerk[h].at \in {"stamp", "writeOff"} THEN 0 - clerk[h].sum ELSE 0
Unlogged(h) == IF clerk[h].work = "redeem" /\ clerk[h].at \in {"read", "save", "log", "undo"} THEN Points ELSE 0
Brings(h, ref) == IF clerk[h].ref = ref /\ clerk[h].at \in {"log", "undo"} THEN 1 ELSE 0
UnpostedSum == SumFunctionOnSet([h \in Clerk |-> Unposted(h)], Clerk)
UnloggedSum == SumFunctionOnSet([h \in Clerk |-> Unlogged(h)], Clerk)
BringsSum(ref) == SumFunctionOnSet([h \in Clerk |-> Brings(h, ref)], Clerk)

Redeemed == {n \in Counts : Logged(<<"loyalty", n>>)}
Credit == wallet[Customer] + wallet[Referrer] - liability
Owing == points + Points * Cardinality(Redeemed) - Points * Cardinality(delivered)
InBalance(ref) == landed[ref] - (IF Logged(ref) THEN 1 ELSE 0)

WalletBook == Credit = UnpostedSum \/ "wallet" \in stale \/ undone # {}
PointsBook == Owing + UnloggedSum = 0 \/ "points" \in stale \/ swallowed # {} \/ undone # {}
RefBook == \A ref \in Ref : InBalance(ref) = BringsSum(ref) \/ ref \in undone
BooksInv == RowsTyped /\ JobsInv /\ WalletBook /\ PointsBook /\ RefBook

\* Its terms are integers.
LEMMA TermsTyped ==
  ASSUME NEW h \in Clerk, JobKnows(h)
  PROVE  Signed(h) \in Int /\ Unposted(h) \in Int /\ Unlogged(h) \in Int /\ \A ref : Brings(h, ref) \in Int
<1>1. clerk[h].sum \in Int /\ Points \in Int
  BY CreditAssumption DEF JobKnows, JobTyped
<1> QED BY <1>1 DEF Signed, Unposted, Unlogged, Brings

TermsFact ==
  JobsInv => \A h \in Clerk : Unposted(h) \in Int /\ Unlogged(h) \in Int /\ \A ref : Brings(h, ref) \in Int
LEMMA TermsNow == TermsFact
BY TermsTyped DEF TermsFact, JobsInv
LEMMA TermsNext == TermsFact'
BY TermsNow, PTL

SumsTypedFact == JobsInv => UnpostedSum \in Int /\ UnloggedSum \in Int /\ \A ref : BringsSum(ref) \in Int
LEMMA SumsNow == SumsTypedFact
<1> SUFFICES ASSUME JobsInv PROVE UnpostedSum \in Int /\ UnloggedSum \in Int /\ \A ref : BringsSum(ref) \in Int
  BY DEF SumsTypedFact
<1>1. \A h \in Clerk : Unposted(h) \in Int /\ Unlogged(h) \in Int /\ \A ref : Brings(h, ref) \in Int
  BY TermsTyped DEF JobsInv
<1>2. IsFiniteSet(Clerk)
  BY CreditAssumption
<1>3. UnpostedSum \in Int
  BY <1>1, <1>2, SumType DEF UnpostedSum
<1>4. UnloggedSum \in Int
  BY <1>1, <1>2, SumType DEF UnloggedSum
<1>5. ASSUME NEW ref PROVE BringsSum(ref) \in Int
  BY <1>1, <1>2, SumType DEF BringsSum
<1> QED BY <1>3, <1>4, <1>5
LEMMA SumsNext == SumsTypedFact'
BY SumsNow, PTL

\* the step of one clerk
Steps(h) == DOMAIN clerk' = Clerk /\ \A g \in Clerk \ {h} : clerk'[g] = clerk[g]

\* It changes one term.
LEMMA SumsMove ==
  ASSUME JobsInv, JobsInv', NEW h \in Clerk, Steps(h)
  PROVE  /\ UnpostedSum' = UnpostedSum - Unposted(h) + Unposted(h)'
         /\ UnloggedSum' = UnloggedSum - Unlogged(h) + Unlogged(h)'
         /\ \A ref : BringsSum(ref)' = BringsSum(ref) - Brings(h, ref) + Brings(h, ref)'
<1>0. IsFiniteSet(Clerk)
  BY CreditAssumption
<1>1. \A g \in Clerk : Unposted(g) \in Int /\ Unlogged(g) \in Int /\ \A ref : Brings(g, ref) \in Int
  BY TermsTyped DEF JobsInv
<1>2. \A g \in Clerk : (Unposted(g) \in Int /\ Unlogged(g) \in Int /\ \A ref : Brings(g, ref) \in Int)'
  BY TermsNext DEF TermsFact
<1>3. \A g \in Clerk \ {h} : /\ Unposted(g)' = Unposted(g) /\ Unlogged(g)' = Unlogged(g)
                             /\ \A ref : Brings(g, ref)' = Brings(g, ref)
  BY DEF Steps, Unposted, Signed, Unlogged, Brings
<1>4. UnpostedSum' = UnpostedSum - Unposted(h) + Unposted(h)'
  <2> DEFINE f == [g \in Clerk |-> Unposted(g)]
             k == [g \in Clerk |-> Unposted(g)']
  <2>1. (\A y \in Clerk : f[y] \in Int /\ k[y] \in Int) /\ (\A y \in Clerk \ {h} : f[y] = k[y])
    BY <1>1, <1>2, <1>3
  <2>2. UnpostedSum = SumFunctionOnSet(f, Clerk) /\ UnpostedSum' = SumFunctionOnSet(k, Clerk)
    BY DEF UnpostedSum
  <2>3. f[h] = Unposted(h) /\ k[h] = Unposted(h)'
    OBVIOUS
  <2> HIDE DEF f, k
  <2>4. SumFunctionOnSet(k, Clerk) = SumFunctionOnSet(f, Clerk) - f[h] + k[h]
    BY <1>0, <2>1, SumChange
  <2> QED BY <2>2, <2>3, <2>4
<1>5. UnloggedSum' = UnloggedSum - Unlogged(h) + Unlogged(h)'
  <2> DEFINE f == [g \in Clerk |-> Unlogged(g)]
             k == [g \in Clerk |-> Unlogged(g)']
  <2>1. (\A y \in Clerk : f[y] \in Int /\ k[y] \in Int) /\ (\A y \in Clerk \ {h} : f[y] = k[y])
    BY <1>1, <1>2, <1>3
  <2>2. UnloggedSum = SumFunctionOnSet(f, Clerk) /\ UnloggedSum' = SumFunctionOnSet(k, Clerk)
    BY DEF UnloggedSum
  <2>3. f[h] = Unlogged(h) /\ k[h] = Unlogged(h)'
    OBVIOUS
  <2> HIDE DEF f, k
  <2>4. SumFunctionOnSet(k, Clerk) = SumFunctionOnSet(f, Clerk) - f[h] + k[h]
    BY <1>0, <2>1, SumChange
  <2> QED BY <2>2, <2>3, <2>4
<1>6. ASSUME NEW ref PROVE BringsSum(ref)' = BringsSum(ref) - Brings(h, ref) + Brings(h, ref)'
  <2> DEFINE f == [g \in Clerk |-> Brings(g, ref)]
             k == [g \in Clerk |-> Brings(g, ref)']
  <2>1. (\A y \in Clerk : f[y] \in Int /\ k[y] \in Int) /\ (\A y \in Clerk \ {h} : f[y] = k[y])
    BY <1>1, <1>2, <1>3
  <2>2. BringsSum(ref) = SumFunctionOnSet(f, Clerk) /\ BringsSum(ref)' = SumFunctionOnSet(k, Clerk)
    BY DEF BringsSum
  <2>3. f[h] = Brings(h, ref) /\ k[h] = Brings(h, ref)'
    OBVIOUS
  <2> HIDE DEF f, k
  <2>4. SumFunctionOnSet(k, Clerk) = SumFunctionOnSet(f, Clerk) - f[h] + k[h]
    BY <1>0, <2>1, SumChange
  <2> QED BY <2>2, <2>3, <2>4
<1> QED BY <1>4, <1>5, <1>6

\* What is counted in points.
LEMMA OwingTyped ==
  ASSUME RowsTyped
  PROVE  Owing \in Int /\ IsFiniteSet(Redeemed) /\ Cardinality(Redeemed) \in Nat /\ Cardinality(delivered) \in Nat
<1>1. IsFiniteSet(Counts)
  BY CreditAssumption, FS_Interval DEF Counts
<1>2. IsFiniteSet(Redeemed) /\ Cardinality(Redeemed) \in Nat
  BY <1>1, FS_Subset, FS_CardinalityType DEF Redeemed
<1>3. Cardinality(delivered) \in Nat
  BY FS_CardinalityType DEF RowsTyped
<1>4. PICK c \in Nat, d \in Nat, n \in Nat : c = Cardinality(Redeemed) /\ d = Cardinality(delivered) /\ n = points
  BY <1>2, <1>3 DEF RowsTyped
<1>5. Points * c \in Int /\ Points * d \in Int
  BY CreditAssumption
<1> QED BY <1>2, <1>3, <1>4, <1>5 DEF Owing
LEMMA CreditTyped == ASSUME RowsTyped PROVE Credit \in Int
<1>1. wallet[Customer] \in Int /\ wallet[Referrer] \in Int /\ liability \in Int
  BY DEF RowsTyped
<1> QED BY <1>1 DEF Credit
LEMMA BalanceTyped == ASSUME RowsTyped, NEW ref \in Ref PROVE InBalance(ref) \in Int
<1>1. landed[ref] \in Int
  BY DEF RowsTyped
<1> QED BY <1>1 DEF InBalance

-----------------------------------------------------------------------------
(* A step of one clerk keeps the books *)

\* what a step may log, and what it has then to do; whom it makes work
LogsOwn(h) ==
  \/ creditLog' = creditLog /\ delivered' = delivered
  \/ /\ creditLog' = creditLog \union {clerk[h].ref} /\ clerk[h].ref \in Ref
     /\ clerk[h].work = "redeem" => clerk'[h].at = "post" \/ clerk'[h].work # "redeem"
     /\ delivered' = delivered \/ (clerk[h].work = "deliver" /\ delivered' = delivered \union {clerk[h].id})
     /\ clerk[h].work = "deliver" => clerk[h].id \in delivered' /\ clerk'[h].work # "deliver"
  \/ /\ creditLog' = creditLog /\ clerk[h].work = "deliver" /\ delivered' = delivered \union {clerk[h].id}
     /\ clerk'[h].work # "deliver"
WorksOn(h) ==
  /\ clerk'[h].work = "redeem" =>
       \/ clerk[h].work = "redeem" /\ clerk'[h].ref = clerk[h].ref /\ clerk'[h].id = clerk[h].id
       \/ clerk'[h].ref = <<"loyalty", creditSteps + 1>>
  /\ clerk'[h].work = "deliver" => \A g \in Clerk \ {h} : clerk[g].work = "deliver" => clerk[g].id # clerk'[h].id
Told == stale \subseteq stale' /\ undone \subseteq undone' /\ swallowed \subseteq swallowed'

LEMMA JobsStep ==
  ASSUME RowsTyped, JobsInv, NEW h \in Clerk, Steps(h), JobKnows(h)', LogsOwn(h), WorksOn(h), Told,
         creditSteps' \in Int, creditSteps <= creditSteps'
  PROVE  JobsInv'
<1>0. creditSteps \in Int /\ MaxOperations \in Nat
  BY CreditAssumption DEF RowsTyped
<1>1. \A g \in Clerk : JobKnows(g)
  BY DEF JobsInv
<1>2. ASSUME NEW g \in Clerk \ {h} PROVE JobKnows(g)'
  <2>1. clerk'[g] = clerk[g] /\ JobKnows(g) /\ JobKnows(h)
    BY <1>1 DEF Steps
  <2>2. JobTyped(g)'
    BY <2>1 DEF JobKnows, JobTyped
  <2>3. 1..creditSteps \subseteq 1..creditSteps'
    BY <1>0
  <2>4. JobCredits(g)'
    BY <2>1, <2>3 DEF JobKnows, JobCredits, CreditRef
  <2>5. JobRedeems(g)'
    <3>1. clerk[g].work = "redeem" /\ ~Logged(clerk[g].ref) => ~Logged(clerk[g].ref)'
      <4> SUFFICES ASSUME clerk[g].work = "redeem", ~Logged(clerk[g].ref), Logged(clerk[g].ref)' PROVE FALSE
        OBVIOUS
      <4>1. clerk[h].ref = clerk[g].ref
        BY <2>1 DEF Logged, LogsOwn
      <4>2. clerk[h].ref[1] = "loyalty" /\ clerk[g].id = NoRef
        BY <2>1, <4>1 DEF JobKnows, JobRedeems
      <4>3. clerk[h].work = "redeem" /\ clerk[h].id = NoRef
        BY <2>1, <4>2 DEF JobKnows, JobRedeems
      <4> QED BY <4>1, <4>2, <4>3 DEF JobsInv, OneWorker
    <3>2. swallowed # {} => swallowed' # {}
      BY DEF Told
    <3> QED BY <2>1, <2>3, <3>1, <3>2 DEF JobKnows, JobRedeems, Logged
  <2>6. JobDelivers(g)'
    <3>1. clerk[g].work = "deliver" => clerk[g].id \notin delivered'
      <4> SUFFICES ASSUME clerk[g].work = "deliver", clerk[g].id \in delivered' PROVE FALSE
        OBVIOUS
      <4>1. clerk[g].id \notin delivered
        BY <2>1 DEF JobKnows, JobDelivers
      <4>2. clerk[h].work = "deliver" /\ clerk[h].id = clerk[g].id
        BY <4>1 DEF LogsOwn
      <4>3. clerk[h].ref = clerk[g].ref
        BY <2>1, <4>2 DEF JobKnows, JobDelivers
      <4> QED BY <4>2, <4>3 DEF JobsInv, OneWorker
    <3> QED BY <2>1, <3>1 DEF JobKnows, JobDelivers
  <2>7. JobExpires(g)'
    <3>1. Logged(clerk[g].ref) => Logged(clerk[g].ref)'
      BY <2>1 DEF Logged, LogsOwn
    <3> QED BY <2>1, <3>1 DEF JobKnows, JobExpires, Logged
  <2> QED BY <2>2, <2>4, <2>5, <2>6, <2>7 DEF JobKnows
<1>3. \A g \in Clerk : JobKnows(g)'
  BY <1>2
<1>4. OneWorker("redeem")'
  <2>1. ASSUME NEW g \in Clerk \ {h}, clerk[g].work = "redeem", clerk'[h].work = "redeem",
               clerk[g].ref = clerk'[h].ref, clerk[g].id = clerk'[h].id
        PROVE  FALSE
    <3>1. clerk'[h].ref # <<"loyalty", creditSteps + 1>>
      <4>1. clerk[g].ref \in {"loyalty"} \X (1..creditSteps)
        BY <1>1, <2>1 DEF JobKnows, JobRedeems
      <4>2. clerk[g].ref[2] \in 1..creditSteps
        BY <4>1
      <4>3. clerk[g].ref[2] # creditSteps + 1
        BY <1>0, <4>2
      <4> QED BY <2>1, <4>3
    <3>2. clerk[h].work = "redeem" /\ clerk[h].ref = clerk[g].ref /\ clerk[h].id = clerk[g].id
      BY <2>1, <3>1 DEF WorksOn
    <3> QED BY <2>1, <3>2 DEF JobsInv, OneWorker
  <2>2. \A g, f \in Clerk \ {h} : clerk'[g] = clerk[g] /\ clerk'[f] = clerk[f]
    BY DEF Steps
  <2> QED BY <2>1, <2>2 DEF JobsInv, OneWorker
<1>5. OneWorker("deliver")'
  <2>1. ASSUME NEW g \in Clerk \ {h}, clerk[g].work = "deliver", clerk'[h].work = "deliver", clerk[g].id = clerk'[h].id
        PROVE  FALSE
    BY <2>1 DEF WorksOn
  <2>2. \A g, f \in Clerk \ {h} : clerk'[g] = clerk[g] /\ clerk'[f] = clerk[f]
    BY DEF Steps
  <2> QED BY <2>1, <2>2 DEF JobsInv, OneWorker
<1>6. LogKnows'
  <2>1. JobKnows(h)
    BY <1>1
  <2>2. ASSUME NEW n \in Counts, Logged(<<"loyalty", n>>)' PROVE n <= creditSteps'
    <3>1. CASE Logged(<<"loyalty", n>>)
      <4>1. n <= creditSteps /\ n \in Int
        BY <1>0, <3>1 DEF JobsInv, LogKnows, Counts
      <4> QED BY <1>0, <4>1
    <3>2. CASE clerk[h].ref = <<"loyalty", n>>
      <4>1. clerk[h].work = "redeem"
        BY <2>1, <3>2 DEF JobKnows, JobRedeems
      <4>2. clerk[h].ref[2] \in 1..creditSteps
        BY <2>1, <4>1 DEF JobKnows, JobRedeems
      <4>3. n \in 1..creditSteps
        BY <3>2, <4>2
      <4> QED BY <1>0, <4>3
    <3> QED BY <2>2, <3>1, <3>2 DEF LogsOwn, Logged
  <2>3. ASSUME NEW o \in Sale, Logged(<<"unspent", o>>)' PROVE o \in delivered'
    <3>1. CASE Logged(<<"unspent", o>>)
      BY <3>1 DEF JobsInv, LogKnows, LogsOwn
    <3>2. CASE clerk[h].ref = <<"unspent", o>> /\ ~Logged(<<"unspent", o>>)
      <4>1. clerk[h].work = "deliver"
        BY <2>1, <3>2 DEF JobKnows, JobDelivers
      <4>2. clerk[h].id = o
        <5>1. clerk[h].ref = IF clerk[h].id \in Errand THEN <<"unspent", clerk[h].id>> ELSE NoRef
          BY <2>1, <4>1 DEF JobKnows, JobDelivers
        <5> QED BY <3>2, <5>1 DEF NoRef
      <4> QED BY <2>3, <3>2, <4>1, <4>2 DEF LogsOwn, Logged
    <3> QED BY <2>3, <3>1, <3>2 DEF LogsOwn, Logged
  <2> QED BY <2>2, <2>3 DEF LogKnows
<1> QED BY <1>3, <1>4, <1>5, <1>6 DEF JobsInv

\* What a step owes the books.
Accounts(h) ==
  /\ Credit' = Credit - Unposted(h) + Unposted(h)' \/ "wallet" \in stale' \/ undone' # {}
  /\ Owing' = Owing + Unlogged(h) - Unlogged(h)' \/ "points" \in stale' \/ swallowed' # {} \/ undone' # {}
  /\ \A ref \in Ref : InBalance(ref)' = InBalance(ref) - Brings(h, ref) + Brings(h, ref)' \/ ref \in undone'
LEMMA BooksStep ==
  ASSUME BooksInv, NEW h \in Clerk, Steps(h), RowsTyped', JobKnows(h)', LogsOwn(h), WorksOn(h), Told,
         creditSteps <= creditSteps', Accounts(h)
  PROVE  BooksInv'
<1>1. JobsInv'
  <2>1. creditSteps' \in Int
    BY DEF RowsTyped
  <2> QED BY <2>1, JobsStep DEF BooksInv
<1>2. /\ UnpostedSum' = UnpostedSum - Unposted(h) + Unposted(h)'
      /\ UnloggedSum' = UnloggedSum - Unlogged(h) + Unlogged(h)'
      /\ \A ref : BringsSum(ref)' = BringsSum(ref) - Brings(h, ref) + Brings(h, ref)'
  BY <1>1, SumsMove DEF BooksInv
<1>3. UnpostedSum \in Int /\ UnloggedSum \in Int /\ \A ref : BringsSum(ref) \in Int
  BY SumsNow DEF SumsTypedFact, BooksInv
<1>4. /\ Unposted(h) \in Int /\ Unlogged(h) \in Int /\ \A ref : Brings(h, ref) \in Int
      /\ Unposted(h)' \in Int /\ Unlogged(h)' \in Int /\ \A ref : Brings(h, ref)' \in Int
  BY <1>1, TermsNow, TermsNext DEF TermsFact, BooksInv
<1>5. Owing \in Int
  BY OwingTyped DEF BooksInv
<1>6. WalletBook'
  BY <1>2, <1>3, <1>4 DEF BooksInv, WalletBook, Accounts, Told
<1>7. PointsBook'
  <2>1. CASE Owing + UnloggedSum = 0 /\ Owing' = Owing + Unlogged(h) - Unlogged(h)'
    <3>1. PICK a \in Int, s \in Int, u \in Int, v \in Int :
            a = Owing /\ s = UnloggedSum /\ u = Unlogged(h) /\ v = Unlogged(h)'
      BY <1>3, <1>4, <1>5
    <3>2. Owing' = a + u - v /\ UnloggedSum' = s - u + v /\ a + s = 0
      BY <1>2, <2>1, <3>1
    <3> QED BY <3>2 DEF PointsBook
  <2> QED BY <2>1 DEF BooksInv, PointsBook, Accounts, Told
<1>8. RefBook'
  <2> SUFFICES ASSUME NEW ref \in Ref, ref \notin undone' PROVE InBalance(ref)' = BringsSum(ref)'
    BY DEF RefBook
  <2>1. InBalance(ref) = BringsSum(ref) /\ InBalance(ref)' = InBalance(ref) - Brings(h, ref) + Brings(h, ref)'
    BY DEF BooksInv, RefBook, Accounts, Told
  <2> QED BY <1>2, <2>1
<1> QED BY <1>1, <1>6, <1>7, <1>8 DEF BooksInv

-----------------------------------------------------------------------------
(* Steps that move no amount *)

LEMMA CreditRefs == ASSUME RowsTyped, Typed PROVE CreditRef \subseteq Ref
<1>1. story.steps \in Nat /\ story.steps <= MaxOperations
  BY CreditAssumption DEF Typed, StoryType
<1>2. 1..creditSteps \subseteq Counts
  BY <1>1, CreditAssumption DEF RowsTyped, Counts
<1> QED BY <1>2 DEF CreditRef, Ref

\* what is in hand is known
LEMMA Known == ASSUME BooksInv, NEW h \in Clerk PROVE JobKnows(h)
BY DEF BooksInv, JobsInv

LEMMA MoveDoes ==
  ASSUME Typed, NEW h \in Clerk, NEW at, clerk' = [clerk EXCEPT ![h].at = at]
  PROVE  /\ Steps(h) /\ clerk'[h].at = at /\ clerk'[h].work = clerk[h].work /\ clerk'[h].id = clerk[h].id
         /\ clerk'[h].ref = clerk[h].ref /\ clerk'[h].sum = clerk[h].sum /\ clerk'[h].seen = clerk[h].seen
         /\ clerk'[h].had = clerk[h].had
<1>1. DOMAIN clerk = Clerk /\ DOMAIN clerk[h] = Fields
  BY DEF Typed
<1>2. clerk'[h] = [clerk[h] EXCEPT !.at = at]
  BY <1>1
<1>3. Steps(h)
  BY <1>1 DEF Steps
<1> QED BY <1>1, <1>2, <1>3 DEF Fields

\* a clerk that is off, or at work on no credit, has nothing open
Clear(h) == /\ clerk[h].at \notin {"log", "undo", "post", "stamp", "writeOff"}
            /\ clerk[h].work = "redeem" => clerk[h].at = "take"
LEMMA ClearIsNothing ==
  ASSUME NEW h, Clear(h) PROVE Unposted(h) = 0 /\ Unlogged(h) = 0 /\ \A ref : Brings(h, ref) = 0
BY DEF Clear, Unposted, Unlogged, Brings

LEMMA OffDoes ==
  ASSUME Typed, NEW h \in Clerk, clerk' = [clerk EXCEPT ![h] = Off]
  PROVE  Steps(h) /\ clerk'[h] = Off /\ JobKnows(h)' /\ WorksOn(h) /\ Clear(h)'
<1>1. Steps(h) /\ clerk'[h] = Off
  BY DEF Typed, Steps
<1>2. /\ clerk'[h].work = "none" /\ clerk'[h].at = "idle" /\ clerk'[h].ref = NoRef /\ clerk'[h].sum = 0
      /\ clerk'[h].seen = 0 /\ clerk'[h].had = 0 /\ NoRef[1] = "none"
  BY <1>1 DEF Off, NoRef
<1>3. JobKnows(h)'
  BY <1>2 DEF JobKnows, JobTyped, JobCredits, JobRedeems, JobDelivers, JobExpires, Crediting, ExpirePlace
<1>4. WorksOn(h) /\ Clear(h)'
  BY <1>2 DEF WorksOn, Clear
<1> QED BY <1>1, <1>3, <1>4

LEMMA QuietStep ==
  ASSUME BooksInv, NEW h \in Clerk, Steps(h), RowsTyped', JobKnows(h)', WorksOn(h), Told, creditSteps <= creditSteps',
         UNCHANGED <<wallet, creditLog, liability, points, landed, delivered>>,
         Unposted(h)' = Unposted(h) \/ undone' # {},
         Unlogged(h)' = Unlogged(h) \/ swallowed' # {} \/ undone' # {},
         \A ref \in Ref : Brings(h, ref)' = Brings(h, ref) \/ ref \in undone'
  PROVE  BooksInv'
<1>1. Credit' = Credit /\ Owing' = Owing /\ \A ref : InBalance(ref)' = InBalance(ref)
  BY DEF Credit, Owing, Redeemed, InBalance, Logged
<1>2. Unposted(h) \in Int /\ Unlogged(h) \in Int /\ \A ref : Brings(h, ref) \in Int
  BY TermsTyped, Known
<1>3. Owing \in Int /\ Credit \in Int
  BY OwingTyped, CreditTyped DEF BooksInv
<1>4. ASSUME NEW ref \in Ref PROVE InBalance(ref) \in Int
  BY BalanceTyped DEF BooksInv
<1>5. Accounts(h)
  <2>1. Credit' = Credit - Unposted(h) + Unposted(h)' \/ undone' # {}
    BY <1>1, <1>2, <1>3
  <2>2. Owing' = Owing + Unlogged(h) - Unlogged(h)' \/ swallowed' # {} \/ undone' # {}
    BY <1>1, <1>2, <1>3
  <2>3. \A ref \in Ref : InBalance(ref)' = InBalance(ref) - Brings(h, ref) + Brings(h, ref)' \/ ref \in undone'
    BY <1>1, <1>2, <1>4
  <2> QED BY <2>1, <2>2, <2>3 DEF Accounts
<1>6. LogsOwn(h)
  BY DEF LogsOwn
<1> QED BY <1>5, <1>6, BooksStep

LEMMA EndsQuietly ==
  ASSUME Typed, BooksInv, NEW h \in Clerk, clerk' = [clerk EXCEPT ![h] = Off], RowsTyped', Told,
         Clear(h), UNCHANGED <<creditSteps, wallet, creditLog, liability, points, landed, delivered>>
  PROVE  BooksInv'
<1>1. Steps(h) /\ JobKnows(h)' /\ WorksOn(h) /\ Clear(h)'
  BY OffDoes
<1>2. Unposted(h) = 0 /\ Unlogged(h) = 0 /\ \A ref : Brings(h, ref) = 0
  BY ClearIsNothing
<1>3. (Unposted(h) = 0 /\ Unlogged(h) = 0 /\ \A ref : Brings(h, ref) = 0)'
  BY <1>1 DEF Clear, Unposted, Unlogged, Brings
<1>4. creditSteps <= creditSteps'
  BY DEF BooksInv, RowsTyped
<1> QED BY <1>1, <1>2, <1>3, <1>4, QuietStep

\* Work begins: it has opened nothing.
LEMMA BeginDoes ==
  ASSUME Typed, BooksInv, NEW h \in Clerk, NEW work, NEW at, NEW id, NEW ref, NEW sum,
         Begins(h, work, at, id, ref, sum), RowsTyped', sum \in Nat, work \in Work, ref \in Ref \union {NoRef},
         at \notin {"log", "undo", "post", "stamp", "writeOff"}, work = "redeem" => at = "take",
         JobCredits(h)', JobRedeems(h)', JobDelivers(h)', JobExpires(h)', WorksOn(h),
         UNCHANGED <<wallet, creditLog, liability, points, landed, delivered>>, Told
  PROVE  BooksInv'
<1> DEFINE t == [work |-> work, at |-> at, id |-> id, ref |-> ref, sum |-> sum, seen |-> wallet[Customer], had |-> points]
<1>1. clerk' = [clerk EXCEPT ![h] = t] /\ clerk[h] = Off /\ creditSteps' = creditSteps + 1
  BY DEF Begins, Counted
<1>2. t.work = work /\ t.at = at /\ t.ref = ref /\ t.sum = sum /\ t.seen = wallet[Customer] /\ t.had = points
  OBVIOUS
<1> HIDE DEF t
<1>3. Steps(h) /\ clerk'[h] = t
  BY <1>1 DEF Typed, Steps
<1>4. wallet[Customer] \in Nat /\ points \in Nat /\ creditSteps \in Int
  BY DEF BooksInv, RowsTyped
<1>5. JobKnows(h)'
  BY <1>2, <1>3, <1>4 DEF JobKnows, JobTyped
<1>6. Clear(h) /\ Clear(h)'
  BY <1>1, <1>2, <1>3 DEF Clear, Off
<1>7. Unposted(h) = 0 /\ Unlogged(h) = 0 /\ \A r : Brings(h, r) = 0
  BY <1>6, ClearIsNothing
<1>8. (Unposted(h) = 0 /\ Unlogged(h) = 0 /\ \A r : Brings(h, r) = 0)'
  BY <1>6 DEF Clear, Unposted, Unlogged, Brings
<1>9. creditSteps <= creditSteps'
  BY <1>1, <1>4
<1> QED BY <1>3, <1>5, <1>7, <1>8, <1>9, QuietStep

\* a credit that is applied, or taken for applied: its caller goes on
LEMMA ProceedsDoes ==
  ASSUME Typed, RewardInv, BooksInv, NEW h \in Clerk, clerk[h].at \in Crediting, RowsTyped', Typed', UNCHANGED creditSteps,
         clerk' = [clerk EXCEPT ![h] = Proceeds(h)]
  PROVE  Steps(h) /\ JobKnows(h)' /\ WorksOn(h) /\ Clear(h)'
<1>1. CASE clerk[h].work # "qualify"
  BY <1>1, OffDoes DEF Proceeds
<1>2. CASE clerk[h].work = "qualify"
  <2>0. /\ clerk[h].id \in Claim /\ DOMAIN clerk[h] = Fields /\ JobTyped(h)
    BY <1>2, Known DEF RewardInv, Knows, QualifyKnows, Typed, JobKnows
  <2>1. PICK s : s = Proceeds(h)
    OBVIOUS
  <2>2. s.work = "qualify" /\ s.sum = clerk[h].sum /\ s.seen = clerk[h].seen /\ s.had = clerk[h].had
    BY <1>2, <2>0, <2>1 DEF Proceeds, Fields
  <2>3. \/ s.at = "read" /\ s.ref = <<"referee", clerk[h].id>>
        \/ s.at = "mark" /\ s.ref = NoRef
    BY <1>2, <2>0, <2>1 DEF Proceeds, Fields
  <2>4. Steps(h) /\ clerk'[h] = s
    BY <2>1 DEF Typed, Steps
  <2>5. s.ref \in Ref \union {NoRef} /\ s.ref[1] \in {"referee", "none"}
        /\ (s.at = "read" => s.ref \in {"referrer", "referee"} \X Claim)
    BY <2>0, <2>3 DEF Ref, NoRef
  <2>6. JobTyped(h)'
    BY <2>0, <2>2, <2>4, <2>5 DEF JobTyped, Work
  <2>7. JobCredits(h)'
    BY <2>2, <2>3, <2>4, <2>5 DEF JobCredits, Crediting, CreditWork, CreditRef
  <2>8. JobRedeems(h)' /\ JobDelivers(h)' /\ JobExpires(h)'
    BY <2>2, <2>3, <2>4, <2>5 DEF JobRedeems, JobDelivers, JobExpires, ExpirePlace
  <2>9. WorksOn(h) /\ Clear(h)'
    BY <2>2, <2>3, <2>4 DEF WorksOn, Clear
  <2> QED BY <2>4, <2>6, <2>7, <2>8, <2>9 DEF JobKnows
<1> QED BY <1>1, <1>2

-----------------------------------------------------------------------------
(* Every operation keeps the books *)

LEMMA InitBooks == CreditInit => BooksInv
<1> SUFFICES ASSUME CreditInit PROVE BooksInv
  OBVIOUS
<1>1. /\ wallet = [u \in {Customer, Referrer} |-> 0] /\ points = 0 /\ liability = 0 /\ creditLog = {} /\ lapsed = {}
      /\ delivered = {} /\ heard = {} /\ creditSteps = 0 /\ creditTroubles = 0 /\ landed = [ref \in Ref |-> 0]
  BY DEF CreditInit
<1>2. RowsTyped
  <2>1. story.steps \in Nat /\ story.faults \in Nat
    BY CreditAssumption DEF CreditInit, StoryType
  <2>2. 0 \in 0..story.steps /\ 0 \in 0..story.faults
    BY <2>1
  <2>3. IsFiniteSet(delivered)
    BY <1>1, FS_EmptySet
  <2> QED BY <1>1, <2>2, <2>3 DEF RowsTyped
<1>3. ASSUME NEW h \in Clerk
      PROVE  /\ clerk[h].work = "none" /\ clerk[h].at = "idle" /\ clerk[h].ref = NoRef /\ clerk[h].sum = 0
             /\ clerk[h].seen = 0 /\ clerk[h].had = 0 /\ NoRef[1] = "none"
  BY DEF CreditInit, Off, NoRef
<1>4. JobsInv
  <2>1. ASSUME NEW h \in Clerk PROVE JobKnows(h)
    BY <1>3 DEF JobKnows, JobTyped, JobCredits, JobRedeems, JobDelivers, JobExpires, Crediting, ExpirePlace
  <2>2. LogKnows
    BY <1>1 DEF LogKnows, Logged
  <2> QED BY <1>3, <2>1, <2>2 DEF JobsInv, OneWorker
<1>5. ASSUME NEW h \in Clerk PROVE Unposted(h) = 0 /\ Unlogged(h) = 0 /\ \A ref : Brings(h, ref) = 0
  BY <1>3 DEF Unposted, Unlogged, Brings
<1>6. IsFiniteSet(Clerk)
  BY CreditAssumption
<1>7. UnpostedSum = 0 /\ UnloggedSum = 0 /\ \A ref : BringsSum(ref) = 0
  BY <1>5, <1>6, SumZero DEF UnpostedSum, UnloggedSum, BringsSum
<1>8. Redeemed = {}
  BY <1>1 DEF Redeemed, Logged
<1>9. Owing = 0 /\ Credit = 0
  <2>1. Cardinality(Redeemed) = 0 /\ Cardinality(delivered) = 0
    BY <1>1, <1>8, FS_EmptySet
  <2> QED BY <1>1, <2>1, CreditAssumption DEF Owing, Credit
<1>10. \A ref \in Ref : InBalance(ref) = 0
  BY <1>1 DEF InBalance, Logged
<1> QED BY <1>2, <1>4, <1>7, <1>9, <1>10 DEF BooksInv, WalletBook, PointsBook, RefBook

\* the counts
LEMMA CountedDoes ==
  ASSUME Typed, RowsTyped, NEW work, Counted(work), UNCHANGED story
  PROVE  /\ creditSteps' \in 0..story'.steps /\ creditSteps <= creditSteps' /\ creditSteps' = creditSteps + 1
         /\ creditSteps + 1 \in 1..creditSteps' /\ creditSteps + 1 \in Counts
<1>1. story.steps \in Nat /\ story.steps <= MaxOperations /\ MaxOperations \in Nat /\ creditSteps \in Nat
  BY CreditAssumption DEF Typed, StoryType, RowsTyped
<1> QED BY <1>1 DEF Counted, Counts
LEMMA MishapDoes ==
  ASSUME Typed, RowsTyped, NEW f, Mishap(f), UNCHANGED story
  PROVE  creditTroubles' \in 0..story'.faults
<1>1. story.faults \in Nat /\ creditTroubles \in Nat
  BY CreditAssumption DEF Typed, StoryType, RowsTyped
<1> QED BY <1>1 DEF Mishap
LEMMA RowsQuiet ==
  ASSUME RowsTyped, UNCHANGED <<creditRows, delivered, landed>>, heard' \subseteq Sale \X Claim,
         creditSteps' \in 0..story'.steps, creditTroubles' \in 0..story'.faults
  PROVE  RowsTyped'
BY DEF RowsTyped, creditRows

\* A step of no clerk.
LEMMA SameBooks ==
  ASSUME BooksInv, UNCHANGED <<clerk, creditRows, delivered, landed, stale, undone, swallowed>>,
         RowsTyped', creditSteps <= creditSteps'
  PROVE  BooksInv'
<1>1. creditSteps \in Int /\ creditSteps' \in Int /\ 1..creditSteps \subseteq 1..creditSteps'
  <2>1. creditSteps \in Int
    BY DEF BooksInv, RowsTyped
  <2>2. creditSteps' \in Int
    BY DEF RowsTyped
  <2> QED BY <2>1, <2>2
<1>2. ASSUME NEW h \in Clerk PROVE JobKnows(h)'
  <2>1. JobKnows(h) /\ clerk'[h] = clerk[h]
    BY Known
  <2>2. CreditRef \subseteq CreditRef'
    BY <1>1 DEF CreditRef
  <2>3. JobTyped(h)' /\ JobCredits(h)'
    BY <2>1, <2>2 DEF JobKnows, JobTyped, JobCredits
  <2>4. JobRedeems(h)' /\ JobDelivers(h)' /\ JobExpires(h)'
    BY <1>1, <2>1 DEF JobKnows, JobRedeems, JobDelivers, JobExpires, Logged, creditRows
  <2> QED BY <2>3, <2>4 DEF JobKnows
<1>3. LogKnows'
  <2>1. ASSUME NEW n \in Counts, Logged(<<"loyalty", n>>)' PROVE n <= creditSteps'
    <3>1. n <= creditSteps /\ n \in Int
      BY <2>1, CreditAssumption DEF BooksInv, JobsInv, LogKnows, Logged, creditRows, Counts
    <3> QED BY <1>1, <3>1
  <2> QED BY <2>1 DEF BooksInv, JobsInv, LogKnows, Logged, creditRows
<1>4. JobsInv'
  BY <1>2, <1>3 DEF BooksInv, JobsInv, OneWorker
<1>5. /\ Credit' = Credit /\ Owing' = Owing /\ \A ref : InBalance(ref)' = InBalance(ref)
      /\ UnpostedSum' = UnpostedSum /\ UnloggedSum' = UnloggedSum /\ \A ref : BringsSum(ref)' = BringsSum(ref)
  BY DEF Credit, Owing, Redeemed, InBalance, Logged, UnpostedSum, Unposted, Signed, UnloggedSum, Unlogged, BringsSum, Brings, creditRows
<1> QED BY <1>4, <1>5 DEF BooksInv, WalletBook, PointsBook, RefBook

\* what a clerk has that begins
LEMMA Begun ==
  ASSUME Typed, NEW h \in Clerk, NEW work, NEW at, NEW id, NEW ref, NEW sum, Begins(h, work, at, id, ref, sum)
  PROVE  /\ clerk'[h].work = work /\ clerk'[h].at = at /\ clerk'[h].id = id /\ clerk'[h].ref = ref /\ clerk'[h].sum = sum
         /\ clerk'[h].seen = wallet[Customer] /\ clerk'[h].had = points
<1> DEFINE t == [work |-> work, at |-> at, id |-> id, ref |-> ref, sum |-> sum, seen |-> wallet[Customer], had |-> points]
<1>1. clerk' = [clerk EXCEPT ![h] = t]
  BY DEF Begins
<1>2. clerk'[h] = t
  BY <1>1 DEF Typed
<1> QED BY <1>2

LEMMA CreditBegins ==
  ASSUME Typed, BooksInv, NEW h \in Clerk, Grant(h) \/ Spend(h) \/ BeginRedeem(h)
  PROVE  BooksInv'
<1>1. PICK work \in {"grant", "spend", "redeem"} :
        \E at, ref, sum : /\ Begins(h, work, at, NoRef, ref, sum) /\ sum \in Nat
                          /\ at = (IF work = "redeem" THEN "take" ELSE "read")
                          /\ ref = <<IF work = "redeem" THEN "loyalty" ELSE work, creditSteps + 1>>
                          /\ work = "redeem" => sum = Points /\ points >= Points
  BY CreditAssumption DEF Grant, Spend, BeginRedeem
<1>2. PICK at, ref, sum : /\ Begins(h, work, at, NoRef, ref, sum) /\ sum \in Nat
                          /\ at = (IF work = "redeem" THEN "take" ELSE "read")
                          /\ ref = <<IF work = "redeem" THEN "loyalty" ELSE work, creditSteps + 1>>
                          /\ work = "redeem" => sum = Points /\ points >= Points
  BY <1>1
<1>3. UNCHANGED <<creditRows, referral, delivered, heard, caseRows, creditTold, story, creditTroubles>>
  BY DEF Grant, Spend, BeginRedeem, Begins
<1>4. RowsTyped
  BY DEF BooksInv
<1>5. /\ creditSteps' \in 0..story'.steps /\ creditSteps <= creditSteps' /\ creditSteps' = creditSteps + 1
      /\ creditSteps + 1 \in 1..creditSteps' /\ creditSteps + 1 \in Counts
  BY <1>2, <1>3, <1>4, CountedDoes DEF Begins
<1>6. RowsTyped'
  BY <1>3, <1>4, <1>5, RowsQuiet DEF RowsTyped, creditTold
<1>7. /\ clerk'[h].work = work /\ clerk'[h].at = at /\ clerk'[h].id = NoRef /\ clerk'[h].ref = ref /\ clerk'[h].sum = sum
      /\ clerk'[h].seen = wallet[Customer] /\ clerk'[h].had = points
  BY <1>2, Begun
<1>8. ref \in Ref
  BY <1>2, <1>5 DEF Ref
<1>9. JobCredits(h)'
  BY <1>2, <1>5, <1>7 DEF JobCredits, CreditWork, CreditRef, Crediting
<1>10. JobRedeems(h)'
  <2>1. work = "redeem" => ~Logged(ref)'
    <3> SUFFICES ASSUME work = "redeem", Logged(ref)' PROVE FALSE
      OBVIOUS
    <3>1. Logged(<<"loyalty", creditSteps + 1>>)
      BY <1>2, <1>3 DEF Logged, creditRows
    <3>2. creditSteps + 1 <= creditSteps
      BY <1>5, <3>1 DEF BooksInv, JobsInv, LogKnows
    <3> QED BY <1>5, <3>2, <1>4 DEF RowsTyped
  <2>2. work = "redeem" => ref \in {"loyalty"} \X (1..creditSteps')
    BY <1>2, <1>5
  <2>3. ref[1] = "loyalty" \/ at = "take" => work = "redeem"
    BY <1>2
  <2> QED BY <1>2, <1>7, <2>1, <2>2, <2>3 DEF JobRedeems, Logged, Crediting
<1>11. JobDelivers(h)' /\ JobExpires(h)'
  BY <1>2, <1>7 DEF JobDelivers, JobExpires, ExpirePlace
<1>12. WorksOn(h)
  BY <1>2, <1>7 DEF WorksOn
<1>13. Told
  BY <1>3 DEF Told, creditTold
<1> QED BY <1>2, <1>3, <1>6, <1>8, <1>9, <1>10, <1>11, <1>12, <1>13, BeginDoes DEF creditRows, creditTold, Work

\* Work that is no credit, at a place where it moves nothing.
LEMMA PlainBegins ==
  ASSUME Typed, BooksInv, NEW h \in Clerk, NEW work \in {"claim", "dispute", "chargeback"},
         NEW at \in {"insert", "ask", "decide", "close"}, NEW id, NEW ref \in Ref \union {NoRef}, NEW sum \in Nat,
         Begins(h, work, at, id, ref, sum), ref[1] \in {"none", "dispute"},
         UNCHANGED <<creditRows, delivered, heard, landed, stale, undone, swallowed>>
  PROVE  BooksInv'
<1>1. UNCHANGED <<story, creditTroubles>>
  BY DEF Begins
<1>2. RowsTyped
  BY DEF BooksInv
<1>3. creditSteps' \in 0..story'.steps
  BY <1>1, <1>2, CountedDoes DEF Begins
<1>4. RowsTyped'
  BY <1>1, <1>2, <1>3, RowsQuiet DEF RowsTyped
<1>5. clerk'[h].work = work /\ clerk'[h].at = at /\ clerk'[h].ref = ref
  BY Begun
<1>6. JobCredits(h)' /\ JobRedeems(h)' /\ JobDelivers(h)' /\ JobExpires(h)' /\ WorksOn(h)
  BY <1>5 DEF JobCredits, JobRedeems, JobDelivers, JobExpires, Crediting, ExpirePlace, WorksOn
<1>7. Told
  BY DEF Told
<1> QED BY <1>4, <1>6, <1>7, BeginDoes DEF creditRows, Work

LEMMA DeliveryBegins == ASSUME Typed, BooksInv, NEW h \in Clerk, NEW o \in Sale, BeginDelivery(h, o) PROVE BooksInv'
<1>1. PICK ref : ref = IF o \in Errand THEN <<"unspent", o>> ELSE NoRef
  OBVIOUS
<1>2. Begins(h, "deliver", "commit", o, ref, Unspent)
  BY <1>1 DEF BeginDelivery
<1>3. UNCHANGED <<story, creditTroubles, creditRows, referral, delivered, heard, caseRows, creditTold>>
  BY DEF BeginDelivery, Begins
<1>4. RowsTyped
  BY DEF BooksInv
<1>5. creditSteps' \in 0..story'.steps
  BY <1>2, <1>3, <1>4, CountedDoes DEF Begins
<1>6. RowsTyped'
  BY <1>3, <1>4, <1>5, RowsQuiet DEF RowsTyped, creditTold
<1>7. clerk'[h].work = "deliver" /\ clerk'[h].at = "commit" /\ clerk'[h].id = o /\ clerk'[h].ref = ref
  BY <1>2, Begun
<1>8. ref \in Ref \union {NoRef} /\ ref[1] \in {"unspent", "none"} /\ Unspent \in Nat
  BY <1>1, CreditAssumption DEF Ref, NoRef
<1>9. JobCredits(h)' /\ JobRedeems(h)' /\ JobExpires(h)'
  BY <1>7, <1>8 DEF JobCredits, JobRedeems, JobExpires, Crediting, ExpirePlace
<1>10. JobDelivers(h)'
  BY <1>1, <1>3, <1>7 DEF JobDelivers, BeginDelivery
<1>11. WorksOn(h)
  BY <1>7 DEF WorksOn, BeginDelivery
<1>12. Told
  BY <1>3 DEF Told, creditTold
<1> QED BY <1>2, <1>3, <1>6, <1>8, <1>9, <1>10, <1>11, <1>12, BeginDoes DEF creditRows, creditTold, Work

LEMMA ExpiryBegins == ASSUME Typed, BooksInv, NEW h \in Clerk, NEW q \in Claim, BeginExpire(h, q) PROVE BooksInv'
<1>1. PICK ref : ref = <<"referee", q>>
  OBVIOUS
<1>2. PICK sum : sum = Lapsing(wallet[Customer])
  OBVIOUS
<1>3. Begins(h, "expire", "lapse", q, ref, sum) /\ Logged(ref)
  BY <1>1, <1>2 DEF BeginExpire
<1>4. UNCHANGED <<story, creditTroubles, creditRows, referral, delivered, heard, caseRows, creditTold>>
  BY DEF BeginExpire, Begins
<1>5. RowsTyped
  BY DEF BooksInv
<1>6. creditSteps' \in 0..story'.steps
  BY <1>3, <1>4, <1>5, CountedDoes DEF Begins
<1>7. RowsTyped'
  BY <1>4, <1>5, <1>6, RowsQuiet DEF RowsTyped, creditTold
<1>8. /\ clerk'[h].work = "expire" /\ clerk'[h].at = "lapse" /\ clerk'[h].ref = ref /\ clerk'[h].sum = sum
      /\ clerk'[h].seen = wallet[Customer]
  BY <1>3, Begun
<1>9. sum \in Nat /\ sum <= wallet[Customer]
  BY <1>2, <1>5, CreditAssumption DEF Lapsing, AtMost, RowsTyped
<1>10. ref \in Ref /\ ref[1] = "referee" /\ ref \in {"referee"} \X Claim
  BY <1>1 DEF Ref
<1>11. JobCredits(h)' /\ JobRedeems(h)' /\ JobDelivers(h)'
  BY <1>8, <1>10 DEF JobCredits, JobRedeems, JobDelivers, Crediting
<1>12. JobExpires(h)'
  BY <1>3, <1>4, <1>8, <1>9, <1>10 DEF JobExpires, ExpirePlace, Logged, creditRows
<1>13. WorksOn(h)
  BY <1>8 DEF WorksOn
<1>14. Told
  BY <1>4 DEF Told, creditTold
<1> QED BY <1>3, <1>4, <1>7, <1>9, <1>10, <1>11, <1>12, <1>13, <1>14, BeginDoes DEF creditRows, creditTold, Work

LEMMA QualifyBegins ==
  ASSUME Typed, BooksInv, NEW h \in Clerk, NEW o \in Sale, NEW q \in Claim, BeginQualify(h, o, q)
  PROVE  BooksInv'
<1>1. PICK ref : ref = <<"referrer", q>>
  OBVIOUS
<1>2. Begins(h, "qualify", "read", q, ref, Reward) /\ heard' = heard \union {<<o, q>>}
  BY <1>1 DEF BeginQualify
<1>3. UNCHANGED <<story, creditTroubles, creditRows, referral, delivered, caseRows, creditTold>>
  BY DEF BeginQualify, Begins
<1>4. RowsTyped
  BY DEF BooksInv
<1>5. creditSteps' \in 0..story'.steps
  BY <1>2, <1>3, <1>4, CountedDoes DEF Begins
<1>6. RowsTyped'
  <2>1. heard' \subseteq Sale \X Claim
    BY <1>2, <1>4 DEF RowsTyped
  <2> QED BY <2>1, <1>3, <1>4, <1>5, RowsQuiet DEF RowsTyped, creditTold
<1>7. clerk'[h].work = "qualify" /\ clerk'[h].at = "read" /\ clerk'[h].ref = ref
  BY <1>2, Begun
<1>8. ref \in Ref /\ ref[1] = "referrer" /\ ref \in {"referrer"} \X Claim /\ Reward \in Nat
  BY <1>1, CreditAssumption DEF Ref
<1>9. JobCredits(h)'
  BY <1>7, <1>8 DEF JobCredits, CreditWork, CreditRef
<1>10. JobRedeems(h)' /\ JobDelivers(h)' /\ JobExpires(h)'
  BY <1>7, <1>8 DEF JobRedeems, JobDelivers, JobExpires, ExpirePlace
<1>11. WorksOn(h)
  BY <1>7 DEF WorksOn
<1>12. Told
  BY <1>3 DEF Told, creditTold
<1> QED BY <1>2, <1>3, <1>6, <1>8, <1>9, <1>10, <1>11, <1>12, BeginDoes DEF creditRows, creditTold, Work

\* where the clerk of a piece of work is
LEMMA WorkIsThere ==
  ASSUME BooksInv, NEW h \in Clerk
  PROVE  /\ clerk[h].work = "redeem" => clerk[h].at \in Crediting \union {"take"}
         /\ clerk[h].work = "deliver" => clerk[h].at = "commit"
         /\ clerk[h].work = "expire" => clerk[h].at \in ExpirePlace
         /\ clerk[h].at \in Crediting => clerk[h].work \in CreditWork
         /\ clerk[h].at \in ExpirePlace => clerk[h].work = "expire"
         /\ clerk[h].at = "take" => clerk[h].work = "redeem"
BY Known DEF JobKnows, JobCredits, JobRedeems, JobDelivers, JobExpires

\* Work that ends where it has nothing open; a question to the payment service.
LEMMA PlainEnds ==
  ASSUME Typed, BooksInv, NEW h \in Clerk,
         clerk' = [clerk EXCEPT ![h] = Off], clerk[h].at \in {"read", "mark", "insert", "ask", "decide", "close"},
         clerk[h].work # "redeem", creditTroubles' \in 0..story'.faults,
         UNCHANGED <<story, creditSteps, creditRows, delivered, heard, landed, stale, undone, swallowed>>
  PROVE  BooksInv'
<1>1. RowsTyped'
  BY RowsQuiet DEF BooksInv, RowsTyped
<1> QED BY <1>1, EndsQuietly DEF Clear, Told, creditRows

LEMMA AskPaymentBooks == ASSUME Typed, BooksInv, NEW h \in Clerk, AskPayment(h) PROVE BooksInv'
<1>1. /\ UNCHANGED <<story, creditSteps, creditRows, delivered, heard, landed, stale, undone, swallowed>>
      /\ clerk[h].at = "ask" /\ clerk[h].work # "redeem"
  BY WorkIsThere DEF AskPayment, Moves, GivesUp, Is, Crediting
<1>2. RowsTyped
  BY DEF BooksInv
<1>3. CASE GivesUp(h, "lostAnswer")
  BY <1>1, <1>2, <1>3, MishapDoes, PlainEnds DEF GivesUp
<1>4. CASE Moves(h, "decide")
  <2>1. /\ Steps(h) /\ clerk'[h].at = "decide" /\ clerk'[h].work = clerk[h].work /\ clerk'[h].id = clerk[h].id
        /\ clerk'[h].ref = clerk[h].ref /\ clerk'[h].sum = clerk[h].sum /\ clerk'[h].seen = clerk[h].seen
        /\ clerk'[h].had = clerk[h].had
    BY <1>4, MoveDoes DEF Moves
  <2>2. RowsTyped'
    BY <1>1, <1>2, <1>4, RowsQuiet DEF RowsTyped, Moves
  <2>3. JobKnows(h) /\ clerk[h].work \notin {"deliver", "expire"}
    BY <1>1, WorkIsThere, Known DEF ExpirePlace
  <2>4. JobTyped(h)' /\ JobCredits(h)' /\ JobRedeems(h)' /\ JobDelivers(h)' /\ JobExpires(h)' /\ WorksOn(h)
    BY <1>1, <2>1, <2>3 DEF JobKnows, JobTyped, JobCredits, JobRedeems, JobDelivers, JobExpires, Crediting, ExpirePlace, WorksOn
  <2>5. Clear(h) /\ Clear(h)'
    BY <1>1, <2>1 DEF Clear
  <2>6. Unposted(h) = 0 /\ Unlogged(h) = 0 /\ \A r : Brings(h, r) = 0
    BY <2>5, ClearIsNothing
  <2>7. (Unposted(h) = 0 /\ Unlogged(h) = 0 /\ \A r : Brings(h, r) = 0)'
    BY <2>5 DEF Clear, Unposted, Unlogged, Brings
  <2>8. creditSteps <= creditSteps'
    BY <1>1, <1>2 DEF RowsTyped
  <2> QED BY <1>1, <2>1, <2>2, <2>4, <2>6, <2>7, <2>8, QuietStep DEF JobKnows, Told, creditRows
<1> QED BY <1>3, <1>4 DEF AskPayment

\* A process that ends, or a journal that refuses, says what it leaves open.
LEMMA GivesUpBooks == ASSUME Typed, BooksInv, NEW h \in Clerk, LedgerDies(h) \/ PostFails(h) PROVE BooksInv'
<1>1. /\ UNCHANGED <<story, creditSteps, creditRows, delivered, heard, landed, stale, swallowed>>
      /\ clerk' = [clerk EXCEPT ![h] = Off] /\ undone' = undone \union Unfinished(h)
  BY DEF LedgerDies, PostFails, GivesUp, Unfinished
<1>2. RowsTyped
  BY DEF BooksInv
<1>3. creditTroubles' \in 0..story'.faults
  BY <1>2, MishapDoes DEF LedgerDies, PostFails, GivesUp
<1>4. RowsTyped'
  BY <1>1, <1>2, <1>3, RowsQuiet DEF RowsTyped
<1>5. Steps(h) /\ JobKnows(h)' /\ WorksOn(h) /\ Clear(h)'
  BY <1>1, OffDoes
<1>6. (Unposted(h) = 0 /\ Unlogged(h) = 0 /\ \A r : Brings(h, r) = 0)'
  BY <1>5 DEF Clear, Unposted, Unlogged, Brings
<1>7. Unfinished(h) = {} => Clear(h)
  BY WorkIsThere DEF Unfinished, Clear
<1>8. Unfinished(h) = {} => Unposted(h) = 0 /\ Unlogged(h) = 0 /\ \A r : Brings(h, r) = 0
  BY <1>7, ClearIsNothing
<1>9. Unfinished(h) # {} => undone' # {} /\ \A ref : Brings(h, ref) = 0 \/ ref \in undone'
  BY <1>1 DEF Unfinished, Brings
<1>10. Told /\ creditSteps <= creditSteps'
  BY <1>1, <1>2 DEF Told, RowsTyped
<1> QED BY <1>1, <1>4, <1>5, <1>6, <1>8, <1>9, <1>10, QuietStep DEF creditRows

\* A caller that stops waiting: what it asked for is the ledger's own work.
LEMMA AnswerLostBooks == ASSUME Typed, BooksInv, NEW h \in Clerk, AnswerLost(h) PROVE BooksInv'
<1>1. /\ UNCHANGED <<story, creditSteps, creditRows, delivered, heard, landed, stale, undone, swallowed>>
      /\ clerk[h].work = "qualify" /\ clerk[h].at \in {"save", "log", "undo", "post"}
      /\ clerk' = [clerk EXCEPT ![h].work = "grant"]
  BY DEF AnswerLost, creditTold
<1>2. RowsTyped
  BY DEF BooksInv
<1>3. creditTroubles' \in 0..story'.faults
  BY <1>1, <1>2, MishapDoes DEF AnswerLost
<1>4. RowsTyped'
  BY <1>1, <1>2, <1>3, RowsQuiet DEF RowsTyped
<1>5. /\ Steps(h) /\ clerk'[h].at = clerk[h].at /\ clerk'[h].work = "grant"
      /\ clerk'[h].ref = clerk[h].ref /\ clerk'[h].sum = clerk[h].sum /\ clerk'[h].seen = clerk[h].seen
      /\ clerk'[h].had = clerk[h].had
  <2>1. DOMAIN clerk = Clerk /\ DOMAIN clerk[h] = Fields
    BY DEF Typed
  <2>2. clerk'[h] = [clerk[h] EXCEPT !.work = "grant"]
    BY <1>1, <2>1
  <2>3. Steps(h)
    BY <1>1, <2>1 DEF Steps
  <2> QED BY <2>1, <2>2, <2>3 DEF Fields
<1>6. JobKnows(h)
  BY Known
<1>7. JobTyped(h)' /\ JobCredits(h)'
  BY <1>1, <1>5, <1>6 DEF JobKnows, JobTyped, JobCredits, Work, CreditWork, CreditRef
<1>8. JobRedeems(h)' /\ JobDelivers(h)' /\ JobExpires(h)' /\ WorksOn(h)
  BY <1>1, <1>5, <1>6 DEF JobKnows, JobRedeems, JobDelivers, JobExpires, ExpirePlace, WorksOn
<1>9. Unposted(h)' = Unposted(h) /\ Unlogged(h)' = Unlogged(h) /\ \A r : Brings(h, r)' = Brings(h, r)
  BY <1>1, <1>5 DEF Unposted, Signed, Unlogged, Brings
<1>10. Told /\ creditSteps <= creditSteps'
  BY <1>1, <1>2 DEF Told, RowsTyped
<1> QED BY <1>1, <1>4, <1>5, <1>7, <1>8, <1>9, <1>10, QuietStep DEF JobKnows, creditRows

\* an insert that fails is taken for a clash
LEMMA InsertFailsBooks == ASSUME Typed, BooksInv, NEW h \in Clerk, InsertFails(h) PROVE BooksInv'
<1>1. /\ UNCHANGED <<story, creditSteps, creditRows, delivered, heard, landed, stale, undone>>
      /\ clerk[h].at = "log" /\ swallowed' = swallowed \union {clerk[h].ref}
      /\ clerk' = [clerk EXCEPT ![h].at = "undo"]
  BY DEF InsertFails, Is
<1>2. RowsTyped
  BY DEF BooksInv
<1>3. creditTroubles' \in 0..story'.faults
  BY <1>1, <1>2, MishapDoes DEF InsertFails
<1>4. RowsTyped'
  BY <1>1, <1>2, <1>3, RowsQuiet DEF RowsTyped
<1>5. /\ Steps(h) /\ clerk'[h].at = "undo" /\ clerk'[h].work = clerk[h].work /\ clerk'[h].id = clerk[h].id
      /\ clerk'[h].ref = clerk[h].ref /\ clerk'[h].sum = clerk[h].sum /\ clerk'[h].seen = clerk[h].seen
      /\ clerk'[h].had = clerk[h].had
  BY <1>1, MoveDoes
<1>6. JobKnows(h) /\ clerk[h].work \notin {"deliver", "expire"}
  BY <1>1, Known, WorkIsThere DEF ExpirePlace
<1>7. JobTyped(h)' /\ JobCredits(h)'
  BY <1>1, <1>5, <1>6 DEF JobKnows, JobTyped, JobCredits, Crediting, CreditRef
<1>8. JobRedeems(h)'
  BY <1>1, <1>5, <1>6 DEF JobKnows, JobRedeems, Crediting, Logged, creditRows
<1>9. JobDelivers(h)' /\ JobExpires(h)' /\ WorksOn(h)
  BY <1>1, <1>5, <1>6 DEF JobKnows, JobDelivers, JobExpires, ExpirePlace, WorksOn
<1>10. Unposted(h)' = Unposted(h) /\ Unlogged(h)' = Unlogged(h) /\ \A r : Brings(h, r)' = Brings(h, r)
  BY <1>1, <1>5 DEF Unposted, Signed, Unlogged, Brings
<1>11. Told /\ creditSteps <= creditSteps'
  BY <1>1, <1>2 DEF Told, RowsTyped
<1> QED BY <1>1, <1>4, <1>5, <1>7, <1>8, <1>9, <1>10, <1>11, QuietStep DEF JobKnows, creditRows

\* The log has the ref already, or nothing to give, or the balance in hand.
LEMMA CreditReadBooks ==
  ASSUME Typed, Typed', RewardInv, BooksInv, NEW h \in Clerk, CreditRead(h) PROVE BooksInv'
<1>1. /\ UNCHANGED <<story, creditSteps, creditTroubles, creditRows, delivered, heard, landed, stale, undone, swallowed>>
      /\ clerk[h].at = "read"
  BY DEF CreditRead, Is, creditTold
<1>2. RowsTyped
  BY DEF BooksInv
<1>3. RowsTyped'
  BY <1>1, <1>2, RowsQuiet DEF RowsTyped
<1>4. JobKnows(h) /\ clerk[h].work \in CreditWork /\ clerk[h].ref \in CreditRef
  BY <1>1, Known DEF JobKnows, JobCredits, Crediting
<1>5. Told /\ creditSteps <= creditSteps'
  BY <1>1, <1>2 DEF Told, RowsTyped
<1>6. PICK has, n : /\ has = wallet[Owner(clerk[h].ref)]
                    /\ n = IF clerk[h].work = "spend" THEN AtMost(clerk[h].sum, has) ELSE clerk[h].sum
  OBVIOUS
<1>7. has \in Nat /\ n \in Nat /\ (clerk[h].work = "spend" => n <= has)
  BY <1>2, <1>4, <1>6 DEF Owner, RowsTyped, JobKnows, JobTyped, AtMost
<1>8. CASE Logged(clerk[h].ref)
  <2>1. clerk' = [clerk EXCEPT ![h] = Proceeds(h)]
    BY <1>8 DEF CreditRead
  <2>2. Steps(h) /\ JobKnows(h)' /\ WorksOn(h) /\ Clear(h)'
    BY <1>1, <1>3, <2>1, ProceedsDoes DEF Crediting
  <2>3. clerk[h].work # "redeem"
    BY <1>1, <1>4, <1>8 DEF JobKnows, JobRedeems
  <2>4. Unposted(h) = 0 /\ Unlogged(h) = 0 /\ \A r : Brings(h, r) = 0
    BY <1>1, <2>3, ClearIsNothing DEF Clear
  <2>5. (Unposted(h) = 0 /\ Unlogged(h) = 0 /\ \A r : Brings(h, r) = 0)'
    BY <2>2 DEF Clear, Unposted, Unlogged, Brings
  <2> QED BY <1>1, <1>3, <1>5, <2>2, <2>4, <2>5, QuietStep DEF creditRows
<1>9. CASE ~Logged(clerk[h].ref) /\ n = 0
  <2>1. clerk' = [clerk EXCEPT ![h] = Off]
    BY <1>6, <1>9 DEF CreditRead
  <2>2. clerk[h].work # "redeem"
    BY <1>4, <1>6, <1>9, CreditAssumption DEF JobKnows, JobRedeems
  <2> QED BY <1>1, <1>2, <2>1, <2>2, PlainEnds DEF RowsTyped
<1>10. CASE ~Logged(clerk[h].ref) /\ n # 0
  <2>0. DOMAIN clerk = Clerk /\ DOMAIN clerk[h] = Fields
    BY DEF Typed
  <2>1. clerk' = [clerk EXCEPT ![h] = [clerk[h] EXCEPT !.at = "save", !.seen = has, !.sum = n]]
    BY <1>6, <1>10 DEF CreditRead
  <2>2. clerk'[h] = [clerk[h] EXCEPT !.at = "save", !.seen = has, !.sum = n] /\ Steps(h)
    BY <2>0, <2>1 DEF Steps
  <2>3. /\ clerk'[h].at = "save" /\ clerk'[h].seen = has /\ clerk'[h].sum = n /\ clerk'[h].work = clerk[h].work
        /\ clerk'[h].ref = clerk[h].ref /\ clerk'[h].id = clerk[h].id /\ clerk'[h].had = clerk[h].had
    BY <2>0, <2>2 DEF Fields
  <2>4. JobTyped(h)'
    BY <1>4, <1>7, <2>3 DEF JobKnows, JobTyped
  <2>5. JobCredits(h)'
    BY <1>1, <1>4, <1>7, <2>3 DEF JobCredits, CreditRef
  <2>6. JobRedeems(h)'
    BY <1>1, <1>4, <1>6, <2>3 DEF JobKnows, JobRedeems, Crediting, Logged, creditRows
  <2>7. JobDelivers(h)' /\ JobExpires(h)' /\ WorksOn(h)
    BY <1>1, <1>4, <2>3 DEF JobKnows, JobDelivers, JobExpires, CreditWork, ExpirePlace, WorksOn
  <2>8. Unposted(h)' = Unposted(h) /\ Unlogged(h)' = Unlogged(h) /\ \A r : Brings(h, r)' = Brings(h, r)
    BY <1>1, <2>3 DEF Unposted, Unlogged, Brings
  <2> QED BY <1>1, <1>3, <1>5, <2>2, <2>4, <2>5, <2>6, <2>7, <2>8, QuietStep DEF JobKnows, creditRows
<1> QED BY <1>8, <1>9, <1>10

\* a balance that is saved as it was read, changed by a sum
LEMMA WalletSaved ==
  ASSUME RowsTyped, NEW u \in {Customer, Referrer}, NEW seen \in Int, NEW now \in Nat,
         SavesWallet(u, seen, now), liability' \in Int
  PROVE  /\ wallet' \in [{Customer, Referrer} -> Nat] /\ stale \subseteq stale'
         /\ Credit' = Credit + (now - seen) - (liability' - liability) \/ "wallet" \in stale'
<1>1. wallet \in [{Customer, Referrer} -> Nat] /\ liability \in Int /\ Customer # Referrer
  BY CreditAssumption DEF RowsTyped
<1>2. wallet' \in [{Customer, Referrer} -> Nat] /\ stale \subseteq stale'
  BY <1>1 DEF SavesWallet
<1>3. wallet[u] = seen => Credit' = Credit + (now - seen) - (liability' - liability)
  <2>1. CASE u = Customer
    BY <1>1, <2>1 DEF SavesWallet, Credit
  <2>2. CASE u = Referrer
    BY <1>1, <2>2 DEF SavesWallet, Credit
  <2> QED BY <2>1, <2>2
<1> QED BY <1>2, <1>3 DEF SavesWallet

LEMMA LandsDoes ==
  ASSUME RowsTyped, NEW ref \in Ref, Lands(ref), creditLog \subseteq creditLog', creditLog' \subseteq creditLog \union {ref}
  PROVE  /\ landed' \in [Ref -> Int]
         /\ InBalance(ref)' = InBalance(ref) + 1 - (IF Logged(ref)' /\ ~Logged(ref) THEN 1 ELSE 0)
         /\ \A r \in Ref \ {ref} : InBalance(r)' = InBalance(r)
<1>1. landed' \in [Ref -> Int] /\ landed'[ref] = landed[ref] + 1 /\ landed[ref] \in Int
  BY DEF RowsTyped, Lands
<1>2. \A r \in Ref \ {ref} : landed'[r] = landed[r] /\ (Logged(r)' <=> Logged(r))
  BY DEF RowsTyped, Lands, Logged
<1>3. InBalance(ref)' = InBalance(ref) + 1 - (IF Logged(ref)' /\ ~Logged(ref) THEN 1 ELSE 0)
  BY <1>1 DEF InBalance, Logged
<1>4. \A r \in Ref \ {ref} : InBalance(r)' = InBalance(r)
  BY <1>2 DEF InBalance
<1> QED BY <1>1, <1>3, <1>4

\* Points count only the refs of redemptions.
LEMMA RedeemedStays ==
  ASSUME NEW ref, ref[1] # "loyalty", creditLog' = creditLog \union {ref} \/ creditLog' = creditLog
  PROVE  Redeemed' = Redeemed
BY DEF Redeemed, Logged

LEMMA CreditSaveBooks == ASSUME Typed, BooksInv, NEW h \in Clerk, CreditSave(h) PROVE BooksInv'
<1>1. /\ UNCHANGED <<story, creditSteps, creditTroubles, creditLog, lapsed, liability, points, delivered, heard, undone, swallowed>>
      /\ clerk[h].at = "save" /\ clerk' = [clerk EXCEPT ![h].at = "log"] /\ Lands(clerk[h].ref)
      /\ SavesWallet(Owner(clerk[h].ref), clerk[h].seen, clerk[h].seen + Signed(h))
  BY DEF CreditSave, Is, Moves
<1>2. RowsTyped
  BY DEF BooksInv
<1>3. JobKnows(h) /\ clerk[h].work \in CreditWork /\ clerk[h].ref \in Ref
  BY <1>1, <1>2, Known, CreditRefs DEF JobKnows, JobCredits, Crediting
<1>4. PICK seen \in Nat, sum \in Nat, d \in Int : seen = clerk[h].seen /\ sum = clerk[h].sum /\ d = Signed(h)
  BY <1>3, TermsTyped DEF JobKnows, JobTyped
<1>5. seen + d \in Nat
  BY <1>1, <1>3, <1>4 DEF Signed, JobKnows, JobCredits, Crediting
<1>6. /\ wallet' \in [{Customer, Referrer} -> Nat] /\ stale \subseteq stale'
      /\ Credit' = Credit + ((seen + d) - seen) - (liability' - liability) \/ "wallet" \in stale'
  <2>1. liability' \in Int /\ Owner(clerk[h].ref) \in {Customer, Referrer}
    BY <1>1, <1>2 DEF RowsTyped, Owner
  <2>2. PICK u, now : u = Owner(clerk[h].ref) /\ now = seen + d
    OBVIOUS
  <2>3. SavesWallet(u, seen, now) /\ now \in Nat /\ u \in {Customer, Referrer}
    BY <1>1, <1>4, <1>5, <2>1, <2>2
  <2>4. /\ wallet' \in [{Customer, Referrer} -> Nat] /\ stale \subseteq stale'
        /\ Credit' = Credit + (now - seen) - (liability' - liability) \/ "wallet" \in stale'
    BY <1>2, <2>1, <2>3, WalletSaved
  <2> QED BY <2>2, <2>4
<1>7. /\ landed' \in [Ref -> Int] /\ InBalance(clerk[h].ref)' = InBalance(clerk[h].ref) + 1
      /\ \A r \in Ref \ {clerk[h].ref} : InBalance(r)' = InBalance(r)
  <2>1. InBalance(clerk[h].ref) \in Int
    BY <1>2, <1>3, BalanceTyped
  <2> QED BY <1>1, <1>2, <1>3, <2>1, LandsDoes DEF Logged
<1>8. RowsTyped'
  BY <1>1, <1>2, <1>6, <1>7 DEF RowsTyped
<1>9. /\ Steps(h) /\ clerk'[h].at = "log" /\ clerk'[h].work = clerk[h].work /\ clerk'[h].id = clerk[h].id
      /\ clerk'[h].ref = clerk[h].ref /\ clerk'[h].sum = clerk[h].sum /\ clerk'[h].seen = clerk[h].seen
      /\ clerk'[h].had = clerk[h].had
  BY <1>1, MoveDoes
<1>10. JobTyped(h)' /\ JobCredits(h)'
  BY <1>1, <1>3, <1>9 DEF JobKnows, JobTyped, JobCredits, Crediting, CreditRef
<1>11. JobRedeems(h)' /\ JobDelivers(h)' /\ JobExpires(h)' /\ WorksOn(h) /\ LogsOwn(h)
  BY <1>1, <1>3, <1>9
  DEF JobKnows, JobRedeems, Crediting, Logged, JobDelivers, JobExpires, CreditWork, ExpirePlace, WorksOn, LogsOwn
<1>12. Unposted(h) = 0 /\ Unposted(h)' = d /\ Unlogged(h)' = Unlogged(h)
  BY <1>1, <1>4, <1>9 DEF Unposted, Signed, Unlogged
<1>13. (\A r : Brings(h, r) = 0) /\ Brings(h, clerk[h].ref)' = 1 /\ \A r : r # clerk[h].ref => Brings(h, r)' = 0
  <2>1. PICK own : own = clerk[h].ref
    OBVIOUS
  <2>2. Brings(h, own)' = 1
    BY <1>9, <2>1 DEF Brings
  <2> QED BY <1>1, <1>9, <2>1, <2>2 DEF Brings
<1>14. Told /\ creditSteps <= creditSteps'
  BY <1>1, <1>2, <1>6 DEF Told, RowsTyped
<1>15. Accounts(h)
  <2>1. Credit' = Credit - Unposted(h) + Unposted(h)' \/ "wallet" \in stale'
    BY <1>1, <1>2, <1>4, <1>6, <1>12, CreditTyped DEF RowsTyped
  <2>2. Owing' = Owing + Unlogged(h) - Unlogged(h)'
    <3>1. Owing' = Owing /\ Owing \in Int
      BY <1>1, <1>2, OwingTyped DEF Owing, Redeemed, Logged
    <3>2. Unlogged(h) \in Int
      BY <1>3, TermsTyped
    <3> QED BY <1>12, <3>1, <3>2
  <2>3. ASSUME NEW ref \in Ref PROVE InBalance(ref)' = InBalance(ref) - Brings(h, ref) + Brings(h, ref)'
    <3>1. InBalance(ref) \in Int
      BY <1>2, BalanceTyped
    <3> QED BY <1>7, <1>13, <3>1
  <2> QED BY <2>1, <2>2, <2>3 DEF Accounts
<1> QED BY <1>8, <1>9, <1>10, <1>11, <1>14, <1>15, BooksStep DEF JobKnows

LEMMA CreditLoggedBooks == ASSUME Typed, BooksInv, NEW h \in Clerk, CreditLogged(h) PROVE BooksInv'
<1>1. /\ UNCHANGED <<story, creditSteps, creditTroubles, wallet, lapsed, liability, points, delivered, heard, landed>>
      /\ UNCHANGED <<stale, undone, swallowed>> /\ clerk[h].at = "log"
  BY DEF CreditLogged, Is, Moves, creditTold
<1>2. RowsTyped
  BY DEF BooksInv
<1>3. JobKnows(h) /\ clerk[h].work \in CreditWork /\ clerk[h].ref \in Ref
  BY <1>1, <1>2, Known, CreditRefs DEF JobKnows, JobCredits, Crediting
<1>4. PICK at \in {"undo", "post"} :
        /\ clerk' = [clerk EXCEPT ![h].at = at]
        /\ at = "undo" => creditLog' = creditLog /\ Logged(clerk[h].ref)
        /\ at = "post" => creditLog' = creditLog \union {clerk[h].ref} /\ ~Logged(clerk[h].ref)
  BY DEF CreditLogged, Moves, Clashes
<1>5. /\ Steps(h) /\ clerk'[h].at = at /\ clerk'[h].work = clerk[h].work /\ clerk'[h].id = clerk[h].id
      /\ clerk'[h].ref = clerk[h].ref /\ clerk'[h].sum = clerk[h].sum /\ clerk'[h].seen = clerk[h].seen
      /\ clerk'[h].had = clerk[h].had
  BY <1>4, MoveDoes
<1>6. RowsTyped'
  <2>1. creditLog' \subseteq Ref /\ creditLog \subseteq creditLog'
    BY <1>2, <1>3, <1>4 DEF RowsTyped
  <2> QED BY <1>1, <1>2, <2>1 DEF RowsTyped
<1>7. JobTyped(h)' /\ JobCredits(h)'
  BY <1>1, <1>3, <1>5 DEF JobKnows, JobTyped, JobCredits, Crediting, CreditRef
<1>8. clerk[h].work = "redeem" => at = "post"
  BY <1>1, <1>3, <1>4 DEF JobKnows, JobRedeems
<1>9. JobRedeems(h)'
  BY <1>1, <1>3, <1>5, <1>8 DEF JobKnows, JobRedeems, Crediting
<1>10. JobDelivers(h)' /\ JobExpires(h)' /\ WorksOn(h)
  BY <1>1, <1>3, <1>5 DEF JobKnows, JobDelivers, JobExpires, CreditWork, ExpirePlace, WorksOn
<1>11. LogsOwn(h)
  BY <1>1, <1>3, <1>4, <1>5, <1>8 DEF LogsOwn, CreditWork
<1>12. Told /\ creditSteps <= creditSteps'
  BY <1>1, <1>2 DEF Told, RowsTyped
<1>13. Credit' = Credit /\ Credit \in Int /\ Owing \in Int /\ Points \in Int
  BY <1>1, <1>2, CreditTyped, OwingTyped, CreditAssumption DEF Credit
<1>14. Unposted(h)' = Unposted(h) /\ Unposted(h) \in Int
  BY <1>1, <1>3, <1>5, TermsTyped DEF Unposted, Signed
<1>15. Owing' = Owing + Unlogged(h) - Unlogged(h)'
  <2>1. CASE clerk[h].work = "redeem"
    <3>1. PICK n \in 1..creditSteps : clerk[h].ref = <<"loyalty", n>>
      BY <1>3, <2>1 DEF JobKnows, JobRedeems
    <3>2. story.steps \in Nat /\ story.steps <= MaxOperations
      BY CreditAssumption DEF Typed, StoryType
    <3>3. n \in Counts
      BY <1>2, <3>2, CreditAssumption DEF Counts, RowsTyped
    <3>4. n \notin Redeemed /\ Redeemed' = Redeemed \union {n}
      BY <1>4, <1>8, <2>1, <3>1, <3>3 DEF Redeemed, Logged
    <3>5. IsFiniteSet(Redeemed) /\ Cardinality(Redeemed) \in Nat /\ Cardinality(delivered) \in Nat
      BY <1>2, OwingTyped
    <3>6. Cardinality(Redeemed') = Cardinality(Redeemed) + 1
      BY <3>4, <3>5, FS_AddElement
    <3>7. PICK c \in Nat, d \in Int, p \in Nat : c = Cardinality(Redeemed) /\ d = Points * Cardinality(delivered) /\ p = points
      BY <1>2, <1>13, <3>5 DEF RowsTyped
    <3>8. Points * (c + 1) = Points * c + Points /\ Points * c \in Int
      BY <1>13
    <3>9. Owing = p + Points * c - d /\ Owing' = p + Points * (c + 1) - d
      BY <1>1, <3>6, <3>7 DEF Owing
    <3>10. Owing' = Owing + Points
      BY <1>13, <3>7, <3>8, <3>9
    <3>11. Unlogged(h) = Points /\ Unlogged(h)' = 0
      BY <1>1, <1>5, <1>8, <2>1 DEF Unlogged
    <3> QED BY <1>13, <3>10, <3>11
  <2>2. CASE clerk[h].work # "redeem"
    <3>1. clerk[h].ref[1] # "loyalty"
      BY <1>3, <2>2 DEF JobKnows, JobRedeems
    <3>2. Redeemed' = Redeemed
      BY <1>4, <3>1, RedeemedStays
    <3>3. Owing' = Owing
      BY <1>1, <3>2 DEF Owing
    <3>4. Unlogged(h) = 0 /\ Unlogged(h)' = 0
      BY <1>5, <2>2 DEF Unlogged
    <3> QED BY <1>13, <3>3, <3>4
  <2> QED BY <2>1, <2>2
<1>16. ASSUME NEW ref \in Ref PROVE InBalance(ref)' = InBalance(ref) - Brings(h, ref) + Brings(h, ref)'
  <2>1. InBalance(ref) \in Int /\ landed[ref] \in Int
    BY <1>2, BalanceTyped DEF RowsTyped
  <2>2. CASE at = "post" /\ ref = clerk[h].ref
    <3>1. Brings(h, ref) = 1 /\ Brings(h, ref)' = 0
      BY <1>1, <1>5, <2>2 DEF Brings
    <3>2. InBalance(ref) = landed[ref] /\ InBalance(ref)' = landed[ref] - 1
      BY <1>1, <1>4, <2>1, <2>2 DEF InBalance, Logged
    <3> QED BY <2>1, <3>1, <3>2
  <2>3. CASE at = "undo" \/ ref # clerk[h].ref
    <3>1. Brings(h, ref)' = Brings(h, ref) /\ Brings(h, ref) \in Int
      BY <1>1, <1>5, <2>3 DEF Brings
    <3>2. InBalance(ref)' = InBalance(ref)
      BY <1>1, <1>4, <2>3 DEF InBalance, Logged
    <3> QED BY <2>1, <3>1, <3>2
  <2> QED BY <2>2, <2>3
<1>17. Accounts(h)
  BY <1>13, <1>14, <1>15, <1>16 DEF Accounts
<1> QED BY <1>5, <1>6, <1>7, <1>9, <1>10, <1>11, <1>12, <1>17, BooksStep DEF JobKnows

\* The balance is put back: the credit is the other's, or (a redemption's) lost.
LEMMA CreditUndoBooks ==
  ASSUME Typed, Typed', RewardInv, BooksInv, NEW h \in Clerk, CreditUndo(h) PROVE BooksInv'
<1>1. /\ UNCHANGED <<story, creditSteps, creditTroubles, creditLog, lapsed, liability, points, delivered, heard, undone, swallowed>>
      /\ clerk[h].at = "undo" /\ clerk' = [clerk EXCEPT ![h] = Proceeds(h)] /\ TakenBack(clerk[h].ref)
      /\ SavesWallet(Owner(clerk[h].ref), clerk[h].seen + Signed(h), clerk[h].seen)
  BY DEF CreditUndo, Is, GoesOn
<1>2. RowsTyped
  BY DEF BooksInv
<1>3. JobKnows(h) /\ clerk[h].work \in CreditWork /\ clerk[h].ref \in Ref
  BY <1>1, <1>2, Known, CreditRefs DEF JobKnows, JobCredits, Crediting
<1>4. PICK seen \in Nat, d \in Int : seen = clerk[h].seen /\ d = Signed(h)
  BY <1>3, TermsTyped DEF JobKnows, JobTyped
<1>5. /\ wallet' \in [{Customer, Referrer} -> Nat] /\ stale \subseteq stale'
      /\ Credit' = Credit + (seen - (seen + d)) - (liability' - liability) \/ "wallet" \in stale'
  <2>1. liability' \in Int /\ Owner(clerk[h].ref) \in {Customer, Referrer}
    BY <1>1, <1>2 DEF RowsTyped, Owner
  <2>2. PICK u, was : u = Owner(clerk[h].ref) /\ was = seen + d
    OBVIOUS
  <2>3. SavesWallet(u, was, seen) /\ was \in Int /\ u \in {Customer, Referrer}
    BY <1>1, <1>4, <2>1, <2>2
  <2>4. /\ wallet' \in [{Customer, Referrer} -> Nat] /\ stale \subseteq stale'
        /\ Credit' = Credit + (seen - was) - (liability' - liability) \/ "wallet" \in stale'
    BY <1>2, <2>1, <2>3, WalletSaved
  <2> QED BY <2>2, <2>4
<1>6. landed' \in [Ref -> Int] /\ landed'[clerk[h].ref] = landed[clerk[h].ref] - 1 /\ \A r \in Ref \ {clerk[h].ref} : landed'[r] = landed[r]
  BY <1>1, <1>2, <1>3 DEF RowsTyped, TakenBack
<1>7. RowsTyped'
  BY <1>1, <1>2, <1>5, <1>6 DEF RowsTyped
<1>8. Steps(h) /\ JobKnows(h)' /\ WorksOn(h) /\ Clear(h)'
  BY <1>1, <1>7, ProceedsDoes DEF Crediting
<1>9. (Unposted(h) = 0 /\ Unlogged(h) = 0 /\ \A r : Brings(h, r) = 0)'
  BY <1>8 DEF Clear, Unposted, Unlogged, Brings
<1>10. Unposted(h) = d /\ (Unlogged(h) = 0 \/ swallowed' # {})
  BY <1>1, <1>3, <1>4 DEF Unposted, Unlogged, JobKnows, JobRedeems
<1>11. LogsOwn(h) /\ Told /\ creditSteps <= creditSteps'
  BY <1>1, <1>2, <1>5 DEF LogsOwn, Told, RowsTyped
<1>12. Accounts(h)
  <2>1. Credit' = Credit - Unposted(h) + Unposted(h)' \/ "wallet" \in stale'
    BY <1>1, <1>2, <1>4, <1>5, <1>9, <1>10, CreditTyped DEF RowsTyped
  <2>2. Owing' = Owing + Unlogged(h) - Unlogged(h)' \/ swallowed' # {}
    <3>1. Owing' = Owing /\ Owing \in Int
      BY <1>1, <1>2, OwingTyped DEF Owing, Redeemed, Logged
    <3> QED BY <1>9, <1>10, <3>1
  <2>3. ASSUME NEW ref \in Ref PROVE InBalance(ref)' = InBalance(ref) - Brings(h, ref) + Brings(h, ref)'
    <3>1. InBalance(ref) \in Int /\ landed[ref] \in Int /\ Brings(h, ref)' = 0
      BY <1>2, <1>9, BalanceTyped DEF RowsTyped
    <3>2. CASE ref = clerk[h].ref
      <4>1. Brings(h, ref) = 1
        BY <1>1, <3>2 DEF Brings
      <4>2. InBalance(ref)' = InBalance(ref) - 1
        BY <1>1, <1>6, <3>1, <3>2 DEF InBalance, Logged
      <4> QED BY <3>1, <4>1, <4>2
    <3>3. CASE ref # clerk[h].ref
      <4>1. Brings(h, ref) = 0
        BY <3>3 DEF Brings
      <4>2. InBalance(ref)' = InBalance(ref)
        BY <1>1, <1>6, <3>3 DEF InBalance, Logged
      <4> QED BY <3>1, <4>1, <4>2
    <3> QED BY <3>2, <3>3
  <2> QED BY <2>1, <2>2, <2>3 DEF Accounts
<1> QED BY <1>7, <1>8, <1>11, <1>12, BooksStep

LEMMA CreditPostBooks ==
  ASSUME Typed, Typed', RewardInv, BooksInv, NEW h \in Clerk, CreditPost(h) PROVE BooksInv'
<1>1. /\ UNCHANGED <<story, creditSteps, creditTroubles, wallet, creditLog, lapsed, points, delivered, heard, landed>>
      /\ UNCHANGED <<stale, undone, swallowed>>
      /\ clerk[h].at = "post" /\ clerk' = [clerk EXCEPT ![h] = Proceeds(h)] /\ liability' = liability + Signed(h)
  BY DEF CreditPost, Is, GoesOn, creditTold
<1>2. RowsTyped
  BY DEF BooksInv
<1>3. JobKnows(h) /\ clerk[h].work \in CreditWork
  BY <1>1, Known DEF JobKnows, JobCredits, Crediting
<1>4. PICK d \in Int : d = Signed(h)
  BY <1>3, TermsTyped
<1>5. RowsTyped'
  <2>1. liability' \in Int
    BY <1>1, <1>2, <1>4 DEF RowsTyped
  <2> QED BY <1>1, <1>2, <2>1 DEF RowsTyped
<1>6. Steps(h) /\ JobKnows(h)' /\ WorksOn(h) /\ Clear(h)'
  BY <1>1, <1>5, ProceedsDoes DEF Crediting
<1>7. (Unposted(h) = 0 /\ Unlogged(h) = 0 /\ \A r : Brings(h, r) = 0)'
  BY <1>6 DEF Clear, Unposted, Unlogged, Brings
<1>8. Unposted(h) = d /\ Unlogged(h) = 0 /\ \A r : Brings(h, r) = 0
  BY <1>1, <1>4 DEF Unposted, Unlogged, Brings
<1>9. LogsOwn(h) /\ Told /\ creditSteps <= creditSteps'
  BY <1>1, <1>2 DEF LogsOwn, Told, RowsTyped
<1>10. Credit' = Credit - d
  BY <1>1, <1>2, <1>4 DEF Credit, RowsTyped
<1>11. Owing' = Owing /\ \A r \in Ref : InBalance(r)' = InBalance(r)
  BY <1>1 DEF Owing, Redeemed, Logged, InBalance
<1>12. Accounts(h)
  BY <1>2, <1>7, <1>8, <1>10, <1>11, CreditTyped, OwingTyped, BalanceTyped DEF Accounts
<1> QED BY <1>5, <1>6, <1>9, <1>12, BooksStep

\* The points are taken before their credit is given.
LEMMA TakePointsBooks == ASSUME Typed, BooksInv, NEW h \in Clerk, TakePoints(h) PROVE BooksInv'
<1>1. /\ UNCHANGED <<story, creditSteps, creditTroubles, wallet, creditLog, lapsed, liability, delivered, heard, landed>>
      /\ UNCHANGED <<undone, swallowed>> /\ clerk[h].at = "take"
      /\ clerk' = [clerk EXCEPT ![h].at = "read"] /\ points' = clerk[h].had - Points
      /\ stale' = (IF points # clerk[h].had THEN {"points"} ELSE {}) \union stale
  BY DEF TakePoints, Is, Moves, SavesPoints, PointsLeft
<1>2. RowsTyped /\ Points \in Int
  BY CreditAssumption DEF BooksInv
<1>3. JobKnows(h) /\ clerk[h].work = "redeem"
  BY <1>1, Known, WorkIsThere
<1>4. clerk[h].had \in Nat /\ clerk[h].had >= Points
  BY <1>1, <1>3 DEF JobKnows, JobTyped, JobRedeems
<1>5. RowsTyped'
  <2>1. points' \in Nat
    BY <1>1, <1>2, <1>4
  <2> QED BY <1>1, <1>2, <2>1 DEF RowsTyped
<1>6. /\ Steps(h) /\ clerk'[h].at = "read" /\ clerk'[h].work = clerk[h].work /\ clerk'[h].id = clerk[h].id
      /\ clerk'[h].ref = clerk[h].ref /\ clerk'[h].sum = clerk[h].sum /\ clerk'[h].seen = clerk[h].seen
      /\ clerk'[h].had = clerk[h].had
  BY <1>1, MoveDoes
<1>7. JobTyped(h)' /\ JobRedeems(h)'
  BY <1>1, <1>3, <1>6 DEF JobKnows, JobTyped, JobRedeems, Crediting, Logged
<1>8. JobCredits(h)'
  BY <1>1, <1>3, <1>6 DEF JobKnows, JobRedeems, JobCredits, CreditWork, CreditRef
<1>9. JobDelivers(h)' /\ JobExpires(h)' /\ WorksOn(h) /\ LogsOwn(h)
  BY <1>1, <1>3, <1>6 DEF JobKnows, JobDelivers, JobExpires, ExpirePlace, WorksOn, LogsOwn
<1>10. Told /\ creditSteps <= creditSteps'
  BY <1>1, <1>2 DEF Told, RowsTyped
<1>11. /\ Unposted(h) = 0 /\ Unposted(h)' = 0 /\ Unlogged(h) = 0 /\ Unlogged(h)' = Points
       /\ \A r : Brings(h, r) = 0 /\ Brings(h, r)' = 0
  BY <1>1, <1>3, <1>6 DEF Unposted, Unlogged, Brings
<1>12. Credit' = Credit /\ \A r \in Ref : InBalance(r)' = InBalance(r)
  BY <1>1 DEF Credit, InBalance, Logged
<1>13. points = clerk[h].had => Owing' = Owing - Points
  <2>1. PICK c \in Int, d \in Int, p \in Int : c = Points * Cardinality(Redeemed) /\ d = Points * Cardinality(delivered) /\ p = points
    BY <1>2, OwingTyped DEF RowsTyped
  <2>2. Owing = p + c - d /\ (points = clerk[h].had => Owing' = (p - Points) + c - d)
    BY <1>1, <2>1 DEF Owing, Redeemed, Logged
  <2> QED BY <1>2, <2>2
<1>14. Accounts(h)
  BY <1>1, <1>2, <1>11, <1>12, <1>13, CreditTyped, OwingTyped, BalanceTyped DEF Accounts
<1> QED BY <1>5, <1>6, <1>7, <1>8, <1>9, <1>10, <1>14, BooksStep DEF JobKnows

\* A delivery writes all at once, what it read when it began.
LEMMA DeliveryBooks == ASSUME Typed, BooksInv, NEW h \in Clerk, Delivery(h) PROVE BooksInv'
<1>1. /\ UNCHANGED <<story, creditSteps, creditTroubles, lapsed, heard, undone, swallowed>>
      /\ clerk[h].work = "deliver" /\ clerk' = [clerk EXCEPT ![h] = Off]
      /\ delivered' = delivered \union {clerk[h].id} /\ points' = clerk[h].had + Points
      /\ stale \subseteq stale' /\ (points # clerk[h].had => "points" \in stale')
  BY DEF Delivery, Finishes
<1>2. /\ clerk[h].ref = NoRef => UNCHANGED <<wallet, creditLog, liability, landed>>
      /\ clerk[h].ref # NoRef =>
           /\ wallet' = [wallet EXCEPT ![Customer] = clerk[h].seen + clerk[h].sum]
           /\ creditLog' = creditLog \union {clerk[h].ref} /\ liability' = liability + clerk[h].sum /\ Lands(clerk[h].ref)
           /\ wallet[Customer] # clerk[h].seen => "wallet" \in stale'
  BY DEF Delivery
<1>3. RowsTyped /\ Points \in Int
  BY CreditAssumption DEF BooksInv
<1>4. /\ JobKnows(h) /\ clerk[h].at = "commit" /\ clerk[h].id \in Sale \ delivered
      /\ clerk[h].ref = IF clerk[h].id \in Errand THEN <<"unspent", clerk[h].id>> ELSE NoRef
  BY <1>1, Known DEF JobKnows, JobDelivers
<1>5. clerk[h].ref # NoRef => clerk[h].ref \in Ref /\ ~Logged(clerk[h].ref)
  BY <1>4 DEF Ref, BooksInv, JobsInv, LogKnows
<1>6. PICK ref \in Ref \union {NoRef}, seen \in Nat, sum \in Nat, had \in Nat :
        ref = clerk[h].ref /\ seen = clerk[h].seen /\ sum = clerk[h].sum /\ had = clerk[h].had
  BY <1>4 DEF JobKnows, JobTyped
<1>7. ref[1] \in {"unspent", "none"}
  BY <1>4, <1>6 DEF NoRef
<1>8. /\ landed' \in [Ref -> Int]
      /\ \A r \in Ref : InBalance(r)' = InBalance(r)
  <2>1. CASE ref = NoRef
    BY <1>2, <1>3, <1>6, <2>1 DEF InBalance, Logged, RowsTyped
  <2>2. CASE ref # NoRef
    <3>1. ref \in Ref /\ Lands(ref) /\ creditLog' = creditLog \union {ref} /\ ~Logged(ref)
      BY <1>2, <1>5, <1>6, <2>2
    <3>2. Logged(ref)' /\ InBalance(ref) \in Int
      BY <1>3, <3>1, BalanceTyped DEF Logged
    <3>3. /\ landed' \in [Ref -> Int]
          /\ InBalance(ref)' = InBalance(ref) + 1 - (IF Logged(ref)' /\ ~Logged(ref) THEN 1 ELSE 0)
          /\ \A r \in Ref \ {ref} : InBalance(r)' = InBalance(r)
      BY <1>3, <3>1, LandsDoes
    <3>4. InBalance(ref)' = InBalance(ref)
      BY <3>1, <3>2, <3>3
    <3> QED BY <3>3, <3>4
  <2> QED BY <2>1, <2>2
<1>9. Credit' = Credit \/ "wallet" \in stale'
  <2>1. CASE ref = NoRef
    BY <1>2, <1>6, <2>1 DEF Credit
  <2>2. CASE ref # NoRef /\ wallet[Customer] = seen
    <3>1. wallet'[Customer] = seen + sum /\ wallet'[Referrer] = wallet[Referrer] /\ liability' = liability + sum
      BY <1>2, <1>3, <1>6, <2>2, CreditAssumption DEF RowsTyped
    <3>2. wallet[Referrer] \in Int /\ liability \in Int
      BY <1>3 DEF RowsTyped
    <3> QED BY <2>2, <3>1, <3>2 DEF Credit
  <2> QED BY <1>2, <1>6, <2>1, <2>2
<1>10. IsFiniteSet(delivered) /\ IsFiniteSet(delivered') /\ Cardinality(delivered') = Cardinality(delivered) + 1
  BY <1>1, <1>3, <1>4, FS_AddElement DEF RowsTyped
<1>11. RowsTyped'
  <2>1. wallet' \in [{Customer, Referrer} -> Nat] /\ liability' \in Int
    BY <1>2, <1>3, <1>6 DEF RowsTyped
  <2>2. points' \in Nat
    BY <1>1, <1>6, CreditAssumption
  <2>3. creditLog' \subseteq Ref /\ creditLog \subseteq creditLog'
    BY <1>2, <1>3, <1>5 DEF RowsTyped
  <2> QED BY <1>1, <1>3, <1>4, <1>8, <1>10, <2>1, <2>2, <2>3 DEF RowsTyped
<1>12. Steps(h) /\ clerk'[h] = Off /\ JobKnows(h)' /\ WorksOn(h) /\ Clear(h)'
  BY <1>1, OffDoes
<1>13. (Unposted(h) = 0 /\ Unlogged(h) = 0 /\ \A r : Brings(h, r) = 0)'
  BY <1>12 DEF Clear, Unposted, Unlogged, Brings
<1>14. Unposted(h) = 0 /\ Unlogged(h) = 0 /\ \A r : Brings(h, r) = 0
  BY <1>1, <1>4 DEF Unposted, Unlogged, Brings
<1>15. points = clerk[h].had => Owing' = Owing
  <2>1. Redeemed' = Redeemed
    BY <1>2, <1>6, <1>7, RedeemedStays
  <2>2. PICK c \in Int, d \in Nat : c = Points * Cardinality(Redeemed) /\ d = Cardinality(delivered)
    BY <1>3, OwingTyped
  <2>3. Points * (d + 1) = Points * d + Points /\ Points * d \in Int
    BY <1>3
  <2>4. points = clerk[h].had => Owing = had + c - Points * d /\ Owing' = (had + Points) + c - Points * (d + 1)
    BY <1>1, <1>6, <1>10, <2>1, <2>2 DEF Owing
  <2> QED BY <1>3, <2>3, <2>4
<1>16. LogsOwn(h)
  <2>1. clerk'[h].work = "none"
    BY <1>12 DEF Off
  <2> QED BY <1>1, <1>2, <1>5, <2>1 DEF LogsOwn
<1>17. Told /\ creditSteps <= creditSteps'
  BY <1>1, <1>3 DEF Told, RowsTyped
<1>18. Accounts(h)
  BY <1>1, <1>3, <1>8, <1>9, <1>13, <1>14, <1>15, CreditTyped, OwingTyped, BalanceTyped DEF Accounts
<1> QED BY <1>11, <1>12, <1>16, <1>17, <1>18, BooksStep

LEMMA LapseBooks == ASSUME Typed, BooksInv, NEW h \in Clerk, Lapse(h) PROVE BooksInv'
<1>1. /\ UNCHANGED <<story, creditSteps, creditTroubles, creditLog, lapsed, liability, points, delivered, heard, landed>>
      /\ UNCHANGED <<undone, swallowed>> /\ clerk[h].at = "lapse" /\ clerk' = [clerk EXCEPT ![h].at = "stamp"]
      /\ SavesWallet(Customer, clerk[h].seen, clerk[h].seen - clerk[h].sum)
  BY DEF Lapse, Is, Moves
<1>2. RowsTyped
  BY DEF BooksInv
<1>3. JobKnows(h) /\ clerk[h].work = "expire"
  BY <1>1, Known, WorkIsThere DEF ExpirePlace
<1>4. PICK seen \in Nat, sum \in Nat : seen = clerk[h].seen /\ sum = clerk[h].sum /\ sum <= seen
  BY <1>1, <1>3 DEF JobKnows, JobTyped, JobExpires, ExpirePlace
<1>5. /\ wallet' \in [{Customer, Referrer} -> Nat] /\ stale \subseteq stale'
      /\ Credit' = Credit + ((seen - sum) - seen) - (liability' - liability) \/ "wallet" \in stale'
  <2>1. liability' \in Int
    BY <1>1, <1>2 DEF RowsTyped
  <2>2. PICK now : now = seen - sum
    OBVIOUS
  <2>3. SavesWallet(Customer, seen, now) /\ now \in Nat
    BY <1>1, <1>4, <2>2
  <2>4. /\ wallet' \in [{Customer, Referrer} -> Nat] /\ stale \subseteq stale'
        /\ Credit' = Credit + (now - seen) - (liability' - liability) \/ "wallet" \in stale'
    BY <1>2, <2>1, <2>3, WalletSaved
  <2> QED BY <2>2, <2>4
<1>6. RowsTyped'
  BY <1>1, <1>2, <1>5 DEF RowsTyped
<1>7. /\ Steps(h) /\ clerk'[h].at = "stamp" /\ clerk'[h].work = clerk[h].work /\ clerk'[h].id = clerk[h].id
      /\ clerk'[h].ref = clerk[h].ref /\ clerk'[h].sum = clerk[h].sum /\ clerk'[h].seen = clerk[h].seen
      /\ clerk'[h].had = clerk[h].had
  BY <1>1, MoveDoes
<1>8. JobTyped(h)' /\ JobCredits(h)' /\ JobRedeems(h)' /\ JobDelivers(h)' /\ WorksOn(h) /\ LogsOwn(h)
  BY <1>1, <1>3, <1>7 DEF JobKnows, JobTyped, JobCredits, JobRedeems, JobDelivers, Crediting, WorksOn, LogsOwn
<1>9. JobExpires(h)'
  BY <1>1, <1>3, <1>7 DEF JobKnows, JobExpires, ExpirePlace, Logged
<1>10. Told /\ creditSteps <= creditSteps'
  BY <1>1, <1>2, <1>5 DEF Told, RowsTyped
<1>11. /\ Unposted(h) = 0 /\ Unposted(h)' = 0 - sum /\ Unlogged(h) = 0 /\ Unlogged(h)' = 0
       /\ \A r : Brings(h, r) = 0 /\ Brings(h, r)' = 0
  BY <1>1, <1>3, <1>4, <1>7 DEF Unposted, Unlogged, Brings
<1>12. Owing' = Owing /\ \A r \in Ref : InBalance(r)' = InBalance(r)
  BY <1>1 DEF Owing, Redeemed, InBalance, Logged
<1>13. Accounts(h)
  <2>1. Credit' = Credit - Unposted(h) + Unposted(h)' \/ "wallet" \in stale'
    BY <1>1, <1>2, <1>4, <1>5, <1>11, CreditTyped DEF RowsTyped
  <2> QED BY <1>2, <1>11, <1>12, <2>1, OwingTyped, BalanceTyped DEF Accounts
<1> QED BY <1>6, <1>7, <1>8, <1>9, <1>10, <1>13, BooksStep DEF JobKnows

LEMMA StampBooks == ASSUME Typed, BooksInv, NEW h \in Clerk, Stamp(h) PROVE BooksInv'
<1>1. /\ UNCHANGED <<story, creditSteps, creditTroubles, wallet, creditLog, liability, points, delivered, heard, landed>>
      /\ UNCHANGED <<stale, undone, swallowed>> /\ clerk[h].at = "stamp" /\ clerk' = [clerk EXCEPT ![h].at = "writeOff"]
      /\ lapsed' = lapsed \union {clerk[h].ref}
  BY DEF Stamp, Is, Moves, creditTold
<1>2. RowsTyped
  BY DEF BooksInv
<1>3. JobKnows(h) /\ clerk[h].work = "expire"
  BY <1>1, Known, WorkIsThere DEF ExpirePlace
<1>4. clerk[h].ref \in {"referee"} \X Claim /\ Logged(clerk[h].ref)
  BY <1>1, <1>3 DEF JobKnows, JobExpires, ExpirePlace
<1>5. RowsTyped'
  <2>1. lapsed' \subseteq creditLog /\ \A ref \in lapsed' : ref[1] = "referee"
    BY <1>1, <1>2, <1>4 DEF RowsTyped, Logged
  <2> QED BY <1>1, <1>2, <2>1 DEF RowsTyped
<1>6. /\ Steps(h) /\ clerk'[h].at = "writeOff" /\ clerk'[h].work = clerk[h].work /\ clerk'[h].id = clerk[h].id
      /\ clerk'[h].ref = clerk[h].ref /\ clerk'[h].sum = clerk[h].sum /\ clerk'[h].seen = clerk[h].seen
      /\ clerk'[h].had = clerk[h].had
  BY <1>1, MoveDoes
<1>7. JobTyped(h)' /\ JobCredits(h)' /\ JobRedeems(h)' /\ JobDelivers(h)' /\ WorksOn(h)
  BY <1>1, <1>3, <1>6 DEF JobKnows, JobTyped, JobCredits, JobRedeems, JobDelivers, Crediting, WorksOn
<1>8. JobExpires(h)'
  BY <1>1, <1>3, <1>6 DEF JobKnows, JobExpires, ExpirePlace, Logged
<1>9. Unposted(h)' = Unposted(h) /\ Unlogged(h)' = Unlogged(h) /\ \A r : Brings(h, r)' = Brings(h, r)
  BY <1>1, <1>3, <1>6 DEF Unposted, Unlogged, Brings
<1>10. Told /\ creditSteps <= creditSteps'
  BY <1>1, <1>2 DEF Told, RowsTyped
<1> QED BY <1>1, <1>5, <1>6, <1>7, <1>8, <1>9, <1>10, QuietStep DEF JobKnows

LEMMA WriteOffBooks == ASSUME Typed, BooksInv, NEW h \in Clerk, WriteOff(h) PROVE BooksInv'
<1>1. /\ UNCHANGED <<story, creditSteps, creditTroubles, wallet, creditLog, lapsed, points, delivered, heard, landed>>
      /\ UNCHANGED <<stale, undone, swallowed>> /\ clerk[h].at = "writeOff" /\ clerk' = [clerk EXCEPT ![h] = Off]
      /\ liability' = liability - clerk[h].sum
  BY DEF WriteOff, Is, Finishes, creditTold
<1>2. RowsTyped
  BY DEF BooksInv
<1>3. JobKnows(h) /\ clerk[h].work = "expire"
  BY <1>1, Known, WorkIsThere DEF ExpirePlace
<1>4. PICK sum \in Nat : sum = clerk[h].sum
  BY <1>3 DEF JobKnows, JobTyped
<1>5. RowsTyped'
  <2>1. liability' \in Int
    BY <1>1, <1>2, <1>4 DEF RowsTyped
  <2> QED BY <1>1, <1>2, <2>1 DEF RowsTyped
<1>6. Steps(h) /\ JobKnows(h)' /\ WorksOn(h) /\ Clear(h)'
  BY <1>1, OffDoes
<1>7. (Unposted(h) = 0 /\ Unlogged(h) = 0 /\ \A r : Brings(h, r) = 0)'
  BY <1>6 DEF Clear, Unposted, Unlogged, Brings
<1>8. Unposted(h) = 0 - sum /\ Unlogged(h) = 0 /\ \A r : Brings(h, r) = 0
  BY <1>1, <1>3, <1>4 DEF Unposted, Unlogged, Brings
<1>9. LogsOwn(h) /\ Told /\ creditSteps <= creditSteps'
  BY <1>1, <1>2 DEF LogsOwn, Told, RowsTyped
<1>10. Credit' = Credit + sum
  BY <1>1, <1>2, <1>4 DEF Credit, RowsTyped
<1>11. Owing' = Owing /\ \A r \in Ref : InBalance(r)' = InBalance(r)
  BY <1>1 DEF Owing, Redeemed, Logged, InBalance
<1>12. Accounts(h)
  BY <1>2, <1>4, <1>7, <1>8, <1>10, <1>11, CreditTyped, OwingTyped, BalanceTyped DEF Accounts
<1> QED BY <1>5, <1>6, <1>9, <1>12, BooksStep

\* A dispute refunded into the wallet writes all at once.
LEMMA DecideBooks == ASSUME Typed, Refs, BooksInv, NEW h \in Clerk, Decide(h) PROVE BooksInv'
<1>1. /\ UNCHANGED <<story, creditSteps, creditTroubles, lapsed, points, delivered, heard, undone, swallowed>>
      /\ clerk[h].at = "decide" /\ clerk' = [clerk EXCEPT ![h] = Off]
      /\ clerk[h].ref = NoRef => UNCHANGED <<wallet, creditLog, liability, landed, stale>>
  BY DEF Decide, Finishes, Is
<1>2. RowsTyped
  BY DEF BooksInv
<1>3. JobKnows(h) /\ clerk[h].work \in CaseWork
  BY <1>1, Known DEF Refs, CasePlace
<1>4. CASE clerk[h].ref = NoRef
  <2>1. clerk[h].work # "redeem" /\ creditTroubles' \in 0..story'.faults
    BY <1>1, <1>2, <1>3 DEF CaseWork, RowsTyped
  <2> QED BY <1>1, <1>4, <2>1, PlainEnds DEF creditRows
<1>5. CASE clerk[h].ref # NoRef
  <2>1. PICK ref \in Ref \union {NoRef}, seen \in Nat, sum \in Nat : ref = clerk[h].ref /\ seen = clerk[h].seen /\ sum = clerk[h].sum
    BY <1>3 DEF JobKnows, JobTyped
  <2>2. /\ SavesWallet(Customer, seen, seen + sum) /\ creditLog' = creditLog \union {ref} /\ liability' = liability + sum
        /\ Lands(ref) /\ ~Logged(ref)
    BY <1>5, <2>1 DEF Decide
  <2>3. clerk[h].work = "dispute" /\ ref = DisputeRef(clerk[h].id) /\ clerk[h].id \in Sale
    BY <1>1, <1>3, <1>5, <2>1 DEF Refs, CaseWork, Typed
  <2>4. ref \in Ref /\ ref[1] = "dispute"
    BY <2>3 DEF Ref, DisputeRef
  <2>5. /\ wallet' \in [{Customer, Referrer} -> Nat] /\ stale \subseteq stale' /\ liability' \in Int
        /\ Credit' = Credit \/ "wallet" \in stale'
    <3>1. liability \in Int /\ liability' \in Int
      BY <1>2, <2>2 DEF RowsTyped
    <3>2. PICK now : now = seen + sum
      OBVIOUS
    <3>3. SavesWallet(Customer, seen, now) /\ now \in Nat
      BY <2>2, <3>2
    <3>4. /\ wallet' \in [{Customer, Referrer} -> Nat] /\ stale \subseteq stale'
          /\ Credit' = Credit + (now - seen) - (liability' - liability) \/ "wallet" \in stale'
      BY <1>2, <3>1, <3>3, WalletSaved
    <3>5. Credit \in Int
      BY <1>2, CreditTyped
    <3> QED BY <2>2, <3>1, <3>2, <3>4, <3>5
  <2>6. landed' \in [Ref -> Int] /\ \A r \in Ref : InBalance(r)' = InBalance(r)
    <3>1. Logged(ref)' /\ InBalance(ref) \in Int
      BY <1>2, <2>2, <2>4, BalanceTyped DEF Logged
    <3>2. /\ landed' \in [Ref -> Int]
          /\ InBalance(ref)' = InBalance(ref) + 1 - (IF Logged(ref)' /\ ~Logged(ref) THEN 1 ELSE 0)
          /\ \A r \in Ref \ {ref} : InBalance(r)' = InBalance(r)
      BY <1>2, <2>2, <2>4, LandsDoes
    <3>3. InBalance(ref)' = InBalance(ref)
      BY <2>2, <3>1, <3>2
    <3> QED BY <3>2, <3>3
  <2>7. RowsTyped'
    <3>1. creditLog' \subseteq Ref /\ creditLog \subseteq creditLog'
      BY <1>2, <2>2, <2>4 DEF RowsTyped
    <3> QED BY <1>1, <1>2, <2>5, <2>6, <3>1 DEF RowsTyped
  <2>8. Steps(h) /\ clerk'[h] = Off /\ JobKnows(h)' /\ WorksOn(h) /\ Clear(h)'
    BY <1>1, OffDoes
  <2>9. (Unposted(h) = 0 /\ Unlogged(h) = 0 /\ \A r : Brings(h, r) = 0)'
    BY <2>8 DEF Clear, Unposted, Unlogged, Brings
  <2>10. Unposted(h) = 0 /\ Unlogged(h) = 0 /\ \A r : Brings(h, r) = 0
    BY <1>1, <2>3 DEF Unposted, Unlogged, Brings
  <2>11. Owing' = Owing
    <3>1. Redeemed' = Redeemed
      BY <2>2, <2>4, RedeemedStays
    <3> QED BY <1>1, <3>1 DEF Owing
  <2>12. LogsOwn(h)
    BY <1>1, <2>1, <2>2, <2>3, <2>4 DEF LogsOwn
  <2>13. Told /\ creditSteps <= creditSteps'
    BY <1>1, <1>2, <2>5 DEF Told, RowsTyped
  <2>14. Accounts(h)
    BY <1>2, <2>5, <2>6, <2>9, <2>10, <2>11, CreditTyped, OwingTyped, BalanceTyped DEF Accounts
  <2> QED BY <2>7, <2>8, <2>12, <2>13, <2>14, BooksStep
<1> QED BY <1>4, <1>5

\* What ends or opens without an amount.
LEMMA PlainStepBooks ==
  ASSUME Typed, Refs, BooksInv, NEW h \in Clerk,
         \/ CreditCallFails(h) \/ Mark(h) \/ PaymentRefuses(h) \/ DecisionAborts(h) \/ CloseCase(h) \/ CaseAborts(h)
         \/ \E q \in Claim : InsertClaim(h, q)
  PROVE  BooksInv'
<1>1. /\ clerk' = [clerk EXCEPT ![h] = Off] /\ clerk[h].at \in {"read", "mark", "insert", "ask", "decide", "close"}
      /\ UNCHANGED <<story, creditSteps, creditRows, delivered, heard, landed, stale, undone, swallowed>>
      /\ creditTroubles' = creditTroubles \/ Mishap("callFails")
      /\ clerk[h].at = "read" => clerk[h].work = "qualify"
  BY DEF CreditCallFails, Mark, PaymentRefuses, DecisionAborts, CloseCase, CaseAborts, InsertClaim, Is, GivesUp, Finishes, creditTold
<1>2. clerk[h].work # "redeem"
  BY <1>1, WorkIsThere DEF Crediting
<1>3. creditTroubles' \in 0..story'.faults
  BY <1>1, MishapDoes DEF BooksInv, RowsTyped
<1> QED BY <1>1, <1>2, <1>3, PlainEnds

LEMMA ClerklessBooks ==
  ASSUME Typed, BooksInv,
         \/ \E q \in Claim : Block(q)
         \/ \E o \in Sale : OpenDispute(o) \/ OpenChargeback(o)
         \/ UNCHANGED creditVars
  PROVE  BooksInv'
<1>1. UNCHANGED <<clerk, story, creditRows, delivered, heard, landed, stale, undone, swallowed, creditTroubles>>
  BY DEF Block, OpenDispute, OpenChargeback, creditVars, creditTold
<1>2. RowsTyped
  BY DEF BooksInv
<1>3. creditSteps' \in 0..story'.steps /\ creditSteps <= creditSteps'
  <2>1. CASE UNCHANGED creditVars
    BY <1>2, <2>1 DEF RowsTyped, creditVars
  <2>2. CASE \E work : Counted(work)
    BY <1>1, <1>2, <2>2, CountedDoes
  <2> QED BY <2>1, <2>2 DEF Block, OpenDispute, OpenChargeback
<1>4. RowsTyped'
  BY <1>1, <1>2, <1>3, RowsQuiet DEF RowsTyped
<1> QED BY <1>1, <1>3, <1>4, SameBooks

LEMMA StepBooks == IInv /\ RewardInv /\ BooksInv /\ [CreditNext]_creditVars => BooksInv'
<1> SUFFICES ASSUME IInv, RewardInv, BooksInv, [CreditNext]_creditVars PROVE BooksInv'
  OBVIOUS
<1>1. Typed /\ Refs /\ Typed'
  BY StepIInv DEF IInv
<1>2. story.sales \subseteq Sale
  BY <1>1, CreditAssumption DEF Typed, StoryType
<1>3. ASSUME NEW h \in Clerk,
             \/ CreditRead(h) \/ CreditSave(h) \/ CreditLogged(h) \/ InsertFails(h) \/ CreditUndo(h) \/ CreditPost(h)
             \/ AnswerLost(h) \/ LedgerDies(h) \/ PostFails(h)
      PROVE  BooksInv'
  BY <1>1, <1>3, CreditReadBooks, CreditSaveBooks, CreditLoggedBooks, InsertFailsBooks, CreditUndoBooks, CreditPostBooks,
     AnswerLostBooks, GivesUpBooks
<1>4. ASSUME NEW h \in Clerk,
             \/ Grant(h) \/ Spend(h) \/ BeginRedeem(h) \/ TakePoints(h)
             \/ Delivery(h) \/ Lapse(h) \/ Stamp(h) \/ WriteOff(h)
      PROVE  BooksInv'
  BY <1>1, <1>4, CreditBegins, TakePointsBooks, DeliveryBooks, LapseBooks, StampBooks, WriteOffBooks
<1>5. ASSUME NEW h \in Clerk,
             \/ CreditCallFails(h) \/ Mark(h) \/ AskPayment(h) \/ PaymentRefuses(h) \/ Decide(h) \/ DecisionAborts(h)
             \/ CloseCase(h) \/ CaseAborts(h) \/ \E q \in Claim : InsertClaim(h, q)
      PROVE  BooksInv'
  BY <1>1, <1>5, PlainStepBooks, AskPaymentBooks, DecideBooks
<1>6. ASSUME NEW h \in Clerk, BeginClaim(h) PROVE BooksInv'
  BY <1>1, <1>6, PlainBegins DEF BeginClaim, NoRef, creditTold
<1>7. ASSUME NEW h \in Clerk, NEW o \in Sale, NEW way \in {"no_refund", "wallet", "psp"}, BeginDecision(h, o, way)
      PROVE  BooksInv'
  <2>1. PICK at, ref, sum : /\ at = (IF way = "psp" THEN "ask" ELSE "decide")
                            /\ ref = (IF way = "wallet" THEN <<"dispute", o>> ELSE NoRef)
                            /\ sum = IF way = "no_refund" THEN 0 ELSE Refund
    OBVIOUS
  <2>2. at \in {"ask", "decide"} /\ ref \in Ref \union {NoRef} /\ ref[1] \in {"none", "dispute"} /\ sum \in Nat
    BY <2>1, CreditAssumption DEF Ref, NoRef
  <2>3. Begins(h, "dispute", at, o, ref, sum) /\ UNCHANGED <<creditRows, delivered, heard, landed, stale, undone, swallowed>>
    BY <1>7, <2>1 DEF BeginDecision
  <2> QED BY <1>1, <2>2, <2>3, PlainBegins
<1>8. ASSUME NEW h \in Clerk, NEW o \in Sale, NEW sum \in {0, Refund}, BeginCase(h, o, sum) PROVE BooksInv'
  <2>1. sum \in Nat /\ NoRef[1] = "none"
    BY CreditAssumption DEF NoRef
  <2>2. Begins(h, "chargeback", "close", o, NoRef, sum) /\ UNCHANGED <<creditRows, delivered, heard, landed, stale, undone, swallowed>>
    BY <1>8 DEF BeginCase
  <2> QED BY <1>1, <2>1, <2>2, PlainBegins
<1>9. ASSUME NEW h \in Clerk, NEW o \in Sale, BeginDelivery(h, o) \/ \E q \in Claim : BeginQualify(h, o, q) PROVE BooksInv'
  BY <1>1, <1>9, DeliveryBegins, QualifyBegins
<1>10. ASSUME NEW h \in Clerk, NEW q \in Claim, BeginExpire(h, q) PROVE BooksInv'
  BY <1>1, <1>10, ExpiryBegins
<1>11. CASE (\E q \in Claim : Block(q)) \/ (\E o \in Sale : OpenDispute(o) \/ OpenChargeback(o)) \/ UNCHANGED creditVars
  BY <1>1, <1>11, ClerklessBooks
<1> QED BY <1>2, <1>3, <1>4, <1>5, <1>6, <1>7, <1>8, <1>9, <1>10, <1>11 DEF CreditNext

\* With nobody at work no sum is open.
LEMMA BooksAgree == IInv /\ RewardInv /\ BooksInv => CreditBooks
<1> SUFFICES ASSUME IInv, RewardInv, BooksInv PROVE CreditBooks
  OBVIOUS
<1>1. RowsTyped /\ Typed /\ (\A h \in Clerk : JobTyped(h)) /\ IsFiniteSet(Clerk)
  BY CreditAssumption DEF BooksInv, JobsInv, JobKnows, IInv
<1>2. CreditTypeOK
  BY <1>1 DEF CreditTypeOK, RowsTyped, Typed, JobTyped, RewardInv
<1>3. ASSUME Settled PROVE UnpostedSum = 0 /\ UnloggedSum = 0
  <2>1. \A h \in Clerk : Unposted(h) = 0 /\ Unlogged(h) = 0
    BY <1>3 DEF Settled, Off, Unposted, Unlogged
  <2> QED BY <1>1, <2>1, SumZero DEF UnpostedSum, UnloggedSum
<1>4. Books("wallet") => wallet[Customer] + wallet[Referrer] = liability
  <2>1. wallet[Customer] \in Int /\ wallet[Referrer] \in Int /\ liability \in Int
    BY <1>1 DEF RowsTyped
  <2> QED BY <1>3, <2>1 DEF Books, BooksInv, WalletBook, Credit
<1>5. Books("points") /\ swallowed = {} => points + Points * Cardinality(Redeemed) = Points * Cardinality(delivered)
  <2>1. PICK c \in Int, d \in Int, p \in Int : c = Points * Cardinality(Redeemed) /\ d = Points * Cardinality(delivered) /\ p = points
    <3>1. Cardinality(Redeemed) \in Int /\ Cardinality(delivered) \in Int /\ Points \in Int
      BY <1>1, OwingTyped, CreditAssumption
    <3> QED BY <1>1, <3>1 DEF RowsTyped
  <2>2. Books("points") /\ swallowed = {} => p + c - d = 0
    BY <1>3, <2>1 DEF Books, BooksInv, PointsBook, Owing
  <2> QED BY <2>1, <2>2
<1>6. ASSUME NEW ref \in Ref, \A h \in Clerk : clerk[h].ref # ref, ref \notin undone
      PROVE  landed[ref] = IF Logged(ref) THEN 1 ELSE 0
  <2>1. \A h \in Clerk : Brings(h, ref) = 0
    BY <1>6 DEF Brings
  <2>2. BringsSum(ref) = 0
    BY <1>1, <2>1, SumZero DEF BringsSum
  <2>3. InBalance(ref) = 0 /\ landed[ref] \in Int
    BY <1>1, <1>6, <2>2 DEF BooksInv, RefBook, RowsTyped
  <2> QED BY <2>3 DEF InBalance
<1> QED BY <1>2, <1>4, <1>5, <1>6 DEF CreditBooks, Redeemed

\* The balances of the customers are what the journal owes them, the points
\* those earned, and a credit is in a balance once if its ref is in the log and
\* else not at all (creditCustomerWallet, spendCustomerCredit, redeemLoyalty,
\* postDelivered, expireReferralCredits), for any clerks, refs, stories and faults.
THEOREM CreditsAgree == CreditSpec => []CreditBooks
<1>1. CreditInit => IInv /\ RewardInv /\ BooksInv
  BY InitIInv, InitRewards, InitBooks
<1>2. IInv /\ RewardInv /\ BooksInv /\ [CreditNext]_creditVars => (IInv /\ RewardInv /\ BooksInv)'
  BY StepIInv, StepRewards, StepBooks
<1>3. IInv /\ RewardInv /\ BooksInv => CreditBooks
  BY BooksAgree
<1> QED BY <1>1, <1>2, <1>3, PTL DEF CreditSpec

-----------------------------------------------------------------------------
(* OwnMoneyKept. What of the balance is not the customer's own is what the    *)
(* referral credits are worth that have not lapsed (KeptBook), and of what is *)
(* his own, what a rollback may take is still there (RiskBook).               *)

Referral == {"referrer", "referee"}
JobPays(h) ==
  /\ clerk[h].at \in Crediting => /\ clerk[h].work = "spend" <=> clerk[h].ref[1] = "spend"
                                  /\ clerk[h].ref[1] \in Referral => clerk[h].sum = Reward
  /\ clerk[h].at \in {"lapse", "stamp"} => clerk[h].ref \notin lapsed /\ clerk[h].sum <= Reward
OneExpiry == \A g, h \in Clerk : clerk[g].work = "expire" /\ clerk[h].work = "expire" => g = h

\* credit of the customer's own whose insert is still to come; a referral's
\* credit that is taken out and not yet stamped; and how often one is held
AtRisk(h) == IF clerk[h].at \in {"log", "undo"} /\ clerk[h].ref[1] \notin Referral \union {"spend"} THEN clerk[h].sum ELSE 0
Expiring(h) == IF clerk[h].at = "stamp" THEN 1 ELSE 0
Held(q) == landed[<<"referee", q>>] - (IF <<"referee", q>> \in lapsed THEN 1 ELSE 0)
AtRiskSum == SumFunctionOnSet([h \in Clerk |-> AtRisk(h)], Clerk)
ExpiringSum == SumFunctionOnSet([h \in Clerk |-> Expiring(h)], Clerk)
HeldSum == SumFunctionOnSet([q \in Claim |-> Held(q)], Claim)
Room == wallet[Customer] - ownMoney
Open == HeldSum - ExpiringSum

RiskBook == ownMoney >= AtRiskSum \/ undone # {} \/ lent
KeptBook == Room >= Reward * Open \/ "wallet" \in stale \/ undone # {} \/ lent
KeptInv == ownMoney \in Nat /\ (\A h \in Clerk : JobPays(h)) /\ OneExpiry /\ RiskBook /\ KeptBook

KeptTypes ==
  BooksInv => /\ \A h \in Clerk : AtRisk(h) \in Nat /\ Expiring(h) \in Nat
              /\ AtRiskSum \in Nat /\ ExpiringSum \in Nat
              /\ (\A q \in Claim : Held(q) \in Int) /\ HeldSum \in Int
LEMMA KeptTypesNow == KeptTypes
<1> SUFFICES ASSUME BooksInv
             PROVE  /\ \A h \in Clerk : AtRisk(h) \in Nat /\ Expiring(h) \in Nat
                    /\ AtRiskSum \in Nat /\ ExpiringSum \in Nat
                    /\ (\A q \in Claim : Held(q) \in Int) /\ HeldSum \in Int
  BY DEF KeptTypes
<1>1. IsFiniteSet(Clerk) /\ IsFiniteSet(Claim)
  BY CreditAssumption
<1>2. \A h \in Clerk : AtRisk(h) \in Nat /\ Expiring(h) \in Nat
  <2> SUFFICES ASSUME NEW h \in Clerk PROVE AtRisk(h) \in Nat /\ Expiring(h) \in Nat
    OBVIOUS
  <2>1. clerk[h].sum \in Nat
    BY Known DEF JobKnows, JobTyped
  <2> QED BY <2>1 DEF AtRisk, Expiring
<1>3. \A q \in Claim : Held(q) \in Int
  <2> SUFFICES ASSUME NEW q \in Claim PROVE Held(q) \in Int
    OBVIOUS
  <2>1. <<"referee", q>> \in Ref
    BY DEF Ref
  <2>2. landed[<<"referee", q>>] \in Int
    BY <2>1 DEF BooksInv, RowsTyped
  <2> QED BY <2>2 DEF Held
<1>4. AtRiskSum \in Nat
  BY <1>1, <1>2, SumType DEF AtRiskSum
<1>5. ExpiringSum \in Nat
  BY <1>1, <1>2, SumType DEF ExpiringSum
<1>6. HeldSum \in Int
  BY <1>1, <1>3, SumType DEF HeldSum
<1> QED BY <1>2, <1>3, <1>4, <1>5, <1>6
LEMMA KeptTypesNext == KeptTypes'
BY KeptTypesNow, PTL

\* A step of one clerk changes one term; one referral, one other.
LEMMA KeptSumsMove ==
  ASSUME BooksInv, BooksInv', NEW h \in Clerk, Steps(h)
  PROVE  /\ AtRiskSum' = AtRiskSum - AtRisk(h) + AtRisk(h)'
         /\ ExpiringSum' = ExpiringSum - Expiring(h) + Expiring(h)'
<1>0. IsFiniteSet(Clerk)
  BY CreditAssumption
<1>1. \A g \in Clerk : AtRisk(g) \in Int /\ Expiring(g) \in Int
  BY KeptTypesNow DEF KeptTypes
<1>2. \A g \in Clerk : AtRisk(g)' \in Int /\ Expiring(g)' \in Int
  BY KeptTypesNext DEF KeptTypes
<1>3. \A g \in Clerk \ {h} : AtRisk(g)' = AtRisk(g) /\ Expiring(g)' = Expiring(g)
  BY DEF Steps, AtRisk, Expiring
<1>4. AtRiskSum' = AtRiskSum - AtRisk(h) + AtRisk(h)'
  <2> DEFINE f == [g \in Clerk |-> AtRisk(g)]
             k == [g \in Clerk |-> AtRisk(g)']
  <2>1. (\A y \in Clerk : f[y] \in Int /\ k[y] \in Int) /\ (\A y \in Clerk \ {h} : f[y] = k[y])
    BY <1>1, <1>2, <1>3
  <2>2. AtRiskSum = SumFunctionOnSet(f, Clerk) /\ AtRiskSum' = SumFunctionOnSet(k, Clerk)
    BY DEF AtRiskSum
  <2>3. f[h] = AtRisk(h) /\ k[h] = AtRisk(h)'
    OBVIOUS
  <2> HIDE DEF f, k
  <2>4. SumFunctionOnSet(k, Clerk) = SumFunctionOnSet(f, Clerk) - f[h] + k[h]
    BY <1>0, <2>1, SumChange
  <2> QED BY <2>2, <2>3, <2>4
<1>5. ExpiringSum' = ExpiringSum - Expiring(h) + Expiring(h)'
  <2> DEFINE f == [g \in Clerk |-> Expiring(g)]
             k == [g \in Clerk |-> Expiring(g)']
  <2>1. (\A y \in Clerk : f[y] \in Int /\ k[y] \in Int) /\ (\A y \in Clerk \ {h} : f[y] = k[y])
    BY <1>1, <1>2, <1>3
  <2>2. ExpiringSum = SumFunctionOnSet(f, Clerk) /\ ExpiringSum' = SumFunctionOnSet(k, Clerk)
    BY DEF ExpiringSum
  <2>3. f[h] = Expiring(h) /\ k[h] = Expiring(h)'
    OBVIOUS
  <2> HIDE DEF f, k
  <2>4. SumFunctionOnSet(k, Clerk) = SumFunctionOnSet(f, Clerk) - f[h] + k[h]
    BY <1>0, <2>1, SumChange
  <2> QED BY <2>2, <2>3, <2>4
<1> QED BY <1>4, <1>5

LEMMA HeldMoves ==
  ASSUME BooksInv, BooksInv', NEW q \in Claim, \A p \in Claim \ {q} : Held(p)' = Held(p)
  PROVE  HeldSum' = HeldSum - Held(q) + Held(q)'
<1>0. IsFiniteSet(Claim)
  BY CreditAssumption
<1>1. \A p \in Claim : Held(p) \in Int /\ Held(p)' \in Int
  BY KeptTypesNow, KeptTypesNext DEF KeptTypes
<1> DEFINE f == [p \in Claim |-> Held(p)]
           k == [p \in Claim |-> Held(p)']
<1>2. (\A y \in Claim : f[y] \in Int /\ k[y] \in Int) /\ (\A y \in Claim \ {q} : f[y] = k[y])
  BY <1>1
<1>3. HeldSum = SumFunctionOnSet(f, Claim) /\ HeldSum' = SumFunctionOnSet(k, Claim)
  BY DEF HeldSum
<1>4. f[q] = Held(q) /\ k[q] = Held(q)'
  OBVIOUS
<1> HIDE DEF f, k
<1>5. SumFunctionOnSet(k, Claim) = SumFunctionOnSet(f, Claim) - f[q] + k[q]
  BY <1>0, <1>2, SumChange
<1> QED BY <1>3, <1>4, <1>5

\* What a step owes the customer.
ExpiresAlone(h) ==
  /\ clerk'[h].work = "expire" => clerk[h].work = "expire" \/ \A g \in Clerk : clerk[g].work # "expire"
  /\ lapsed' = lapsed \/ clerk[h].work = "expire"
Careful == Told /\ (lent => lent') /\ ownMoney' \in Nat
Leaves ==
  \/ Open' = Open /\ Room' >= Room
  \/ Open' = Open + 1 /\ Room' >= Room + Reward
  \/ Open' = Open - 1 /\ Room' >= Room - Reward
  \/ Open' = 0 /\ Room' >= 0
  \/ "wallet" \in stale' \/ undone' # {} \/ lent'
LEMMA KeptStep ==
  ASSUME BooksInv, BooksInv', KeptInv, NEW h \in Clerk, Steps(h), JobPays(h)', ExpiresAlone(h), Careful,
         ownMoney' - AtRisk(h)' >= ownMoney - AtRisk(h) \/ AtRiskSum' = 0 \/ undone' # {} \/ lent', Leaves
  PROVE  KeptInv'
<1>1. ASSUME NEW g \in Clerk \ {h} PROVE JobPays(g)'
  <2>1. clerk'[g] = clerk[g] /\ JobPays(g)
    BY DEF Steps, KeptInv
  <2>2. clerk[g].at \in {"lapse", "stamp"} => clerk[g].work = "expire"
    BY WorkIsThere DEF ExpirePlace
  <2>3. clerk[g].at \in {"lapse", "stamp"} => clerk[g].ref \notin lapsed'
    BY <2>1, <2>2 DEF KeptInv, OneExpiry, ExpiresAlone, JobPays
  <2> QED BY <2>1, <2>3 DEF JobPays
<1>2. OneExpiry'
  BY DEF KeptInv, OneExpiry, ExpiresAlone, Steps
<1>3. /\ AtRiskSum \in Nat /\ ExpiringSum \in Nat /\ HeldSum \in Int /\ AtRisk(h) \in Nat /\ AtRisk(h)' \in Nat
      /\ ExpiringSum' \in Nat /\ HeldSum' \in Int /\ ownMoney \in Nat /\ ownMoney' \in Nat
  BY KeptTypesNow, KeptTypesNext DEF KeptTypes, KeptInv, Careful
<1>4. RiskBook'
  <2>1. AtRiskSum' = AtRiskSum - AtRisk(h) + AtRisk(h)'
    BY KeptSumsMove
  <2> QED BY <1>3, <2>1 DEF KeptInv, RiskBook, Careful, Told
<1>5. KeptBook'
  <2>1. wallet[Customer] \in Int /\ wallet'[Customer] \in Int /\ Reward \in Nat
    BY CreditAssumption DEF BooksInv, RowsTyped
  <2>2. PICK r \in Int, s \in Int, k \in Int, m \in Int : r = Room /\ s = Room' /\ k = Open /\ m = Open'
    <3>1. Room \in Int /\ Room' \in Int
      BY <1>3, <2>1 DEF Room
    <3>2. Open \in Int
      BY <1>3 DEF Open
    <3>3. Open' \in Int
      BY <1>3 DEF Open
    <3> QED BY <3>1, <3>2, <3>3
  <2>3. Reward * (k + 1) = Reward * k + Reward /\ Reward * (k - 1) = Reward * k - Reward /\ Reward * k \in Int
    BY <2>1
  <2>4. CASE r >= Reward * k /\ "wallet" \notin stale' /\ undone' = {} /\ ~lent'
    <3>1. CASE m = k /\ s >= r
      BY <2>1, <2>2, <2>3, <2>4, <3>1 DEF KeptBook
    <3>2. CASE m = k + 1 /\ s >= r + Reward
      <4>1. s >= Reward * k + Reward
        BY <2>1, <2>3, <2>4, <3>2
      <4>2. s >= Reward * m
        BY <2>3, <3>2, <4>1
      <4> QED BY <2>2, <4>2 DEF KeptBook
    <3>3. CASE m = k - 1 /\ s >= r - Reward
      <4>1. s >= Reward * k - Reward
        BY <2>1, <2>3, <2>4, <3>3
      <4>2. s >= Reward * m
        BY <2>3, <3>3, <4>1
      <4> QED BY <2>2, <4>2 DEF KeptBook
    <3>4. CASE m = 0 /\ s >= 0
      <4>1. Reward * m = 0
        BY <2>1, <3>4
      <4> QED BY <2>2, <3>4, <4>1 DEF KeptBook
    <3> QED BY <2>2, <2>4, <3>1, <3>2, <3>3, <3>4 DEF Leaves
  <2> QED BY <2>2, <2>4 DEF KeptBook, KeptInv, Careful, Told
<1> QED BY <1>1, <1>2, <1>3, <1>4, <1>5 DEF KeptInv

LEMMA KeptQuiet ==
  ASSUME BooksInv, BooksInv', KeptInv, NEW h \in Clerk, Steps(h), JobPays(h)', Told,
         UNCHANGED <<wallet, landed, lapsed, ownMoney, lent>>,
         clerk'[h].work = "expire" => clerk[h].work = "expire" \/ \A g \in Clerk : clerk[g].work # "expire",
         AtRisk(h)' <= AtRisk(h), Expiring(h)' = Expiring(h) \/ undone' # {}
  PROVE  KeptInv'
<1>1. /\ AtRisk(h) \in Nat /\ AtRisk(h)' \in Nat /\ Expiring(h) \in Nat /\ ExpiringSum \in Nat /\ HeldSum \in Int
      /\ ownMoney \in Nat
  BY KeptTypesNow, KeptTypesNext DEF KeptTypes, KeptInv
<1>2. ExpiringSum' = ExpiringSum - Expiring(h) + Expiring(h)'
  BY KeptSumsMove
<1>3. HeldSum' = HeldSum /\ Room' = Room
  BY DEF HeldSum, Held, Room
<1>4. Room \in Int
  BY <1>1 DEF BooksInv, RowsTyped, Room
<1>5. Open' = Open \/ undone' # {}
  BY <1>1, <1>2, <1>3 DEF Open
<1>6. Leaves
  BY <1>3, <1>4, <1>5 DEF Leaves
<1>7. ownMoney' - AtRisk(h)' >= ownMoney - AtRisk(h)
  BY <1>1
<1>8. ExpiresAlone(h) /\ Careful
  BY <1>1 DEF ExpiresAlone, Careful
<1> QED BY <1>6, <1>7, <1>8, KeptStep

\* Work that ends leaves nothing behind.
LEMMA PaysOff ==
  ASSUME Typed, BooksInv, NEW h \in Clerk, clerk' = [clerk EXCEPT ![h] = Off]
  PROVE  /\ Steps(h) /\ JobPays(h)' /\ clerk'[h].work = "none" /\ AtRisk(h)' = 0 /\ Expiring(h)' = 0
         /\ AtRisk(h)' <= AtRisk(h)
<1>1. Steps(h) /\ clerk'[h] = Off
  BY OffDoes
<1>2. clerk'[h].work = "none" /\ clerk'[h].at = "idle"
  BY <1>1 DEF Off
<1>3. AtRisk(h) \in Nat
  BY KeptTypesNow DEF KeptTypes
<1> QED BY <1>1, <1>2, <1>3 DEF JobPays, AtRisk, Expiring, Crediting
LEMMA EndsKept ==
  ASSUME Typed, BooksInv, BooksInv', KeptInv, NEW h \in Clerk, clerk' = [clerk EXCEPT ![h] = Off], Told,
         UNCHANGED <<wallet, landed, lapsed, ownMoney, lent>>, clerk[h].at # "stamp" \/ undone' # {}
  PROVE  KeptInv'
<1>1. Expiring(h) = 0 \/ undone' # {}
  BY DEF Expiring
<1> QED BY <1>1, PaysOff, KeptQuiet

\* Work that goes on to another of its steps.
LEMMA MovesKept ==
  ASSUME Typed, BooksInv, BooksInv', KeptInv, NEW h \in Clerk, NEW at, clerk' = [clerk EXCEPT ![h].at = at], Told,
         UNCHANGED <<wallet, landed, lapsed, ownMoney, lent>>,
         \/ clerk[h].at = "log" /\ at \in {"undo", "post"}
         \/ clerk[h].at = "take" /\ at = "read" /\ clerk[h].work = "redeem" /\ clerk[h].ref[1] = "loyalty"
         \/ clerk[h].at = "ask" /\ at = "decide"
  PROVE  KeptInv'
<1>1. /\ Steps(h) /\ clerk'[h].at = at /\ clerk'[h].work = clerk[h].work
      /\ clerk'[h].ref = clerk[h].ref /\ clerk'[h].sum = clerk[h].sum
  BY MoveDoes
<1>2. JobPays(h) /\ clerk[h].sum \in Nat
  BY Known DEF KeptInv, JobKnows, JobTyped
<1>3. JobPays(h)'
  BY <1>1, <1>2 DEF JobPays, Crediting, Referral
<1>4. AtRisk(h)' <= AtRisk(h) /\ Expiring(h)' = Expiring(h)
  BY <1>1, <1>2 DEF AtRisk, Expiring
<1> QED BY <1>1, <1>3, <1>4, KeptQuiet

\* Work that begins.
LEMMA BeginsKept ==
  ASSUME Typed, BooksInv, BooksInv', KeptInv, NEW h \in Clerk, NEW work, NEW at, NEW id, NEW ref, NEW sum,
         Begins(h, work, at, id, ref, sum), UNCHANGED <<wallet, landed, lapsed, ownMoney, lent, stale, undone, swallowed>>,
         at \notin {"log", "undo", "stamp", "post", "save"},
         at = "read" => (work = "spend" <=> ref[1] = "spend") /\ (ref[1] \in Referral => sum = Reward),
         at = "lapse" => ref \notin lapsed /\ sum <= Reward,
         work = "expire" => \A g \in Clerk : clerk[g].work # "expire"
  PROVE  KeptInv'
<1>1. /\ clerk'[h].work = work /\ clerk'[h].at = at /\ clerk'[h].ref = ref /\ clerk'[h].sum = sum
  BY Begun
<1>2. clerk[h] = Off /\ Steps(h)
  BY DEF Begins, Steps, Typed
<1>3. clerk[h].at = "idle"
  BY <1>2 DEF Off
<1>4. JobPays(h)'
  BY <1>1 DEF JobPays, Crediting
<1>5. AtRisk(h) = 0 /\ AtRisk(h)' = 0 /\ Expiring(h)' = 0 /\ Expiring(h) = 0
  BY <1>1, <1>3 DEF AtRisk, Expiring
<1>6. Told
  BY DEF Told
<1> QED BY <1>1, <1>2, <1>4, <1>5, <1>6, KeptQuiet

\* A credit that is applied, or taken for applied.
LEMMA PaysProceeds ==
  ASSUME Typed, RewardInv, BooksInv, KeptInv, NEW h \in Clerk, clerk[h].at \in Crediting,
         clerk' = [clerk EXCEPT ![h] = Proceeds(h)]
  PROVE  /\ Steps(h) /\ JobPays(h)' /\ clerk'[h].work # "expire" /\ AtRisk(h)' = 0 /\ Expiring(h)' = 0
<1>1. CASE clerk[h].work # "qualify"
  BY <1>1, PaysOff DEF Proceeds
<1>2. CASE clerk[h].work = "qualify"
  <2>0. /\ clerk[h].id \in Claim /\ DOMAIN clerk[h] = Fields /\ clerk[h].ref[1] \in Referral /\ JobPays(h)
    <3>1. DOMAIN clerk[h] = Fields /\ JobPays(h)
      BY DEF Typed, KeptInv
    <3>2. clerk[h].id \in Claim /\ clerk[h].ref \in {<<"referrer", clerk[h].id>>, <<"referee", clerk[h].id>>}
      BY <1>2 DEF RewardInv, Knows, QualifyKnows, Crediting
    <3> QED BY <3>1, <3>2 DEF Referral
  <2>1. PICK s : s = Proceeds(h)
    OBVIOUS
  <2>2. s.work = "qualify" /\ s.sum = clerk[h].sum
    BY <1>2, <2>0, <2>1 DEF Proceeds, Fields
  <2>3. \/ s.at = "read" /\ s.ref = <<"referee", clerk[h].id>>
        \/ s.at = "mark" /\ s.ref = NoRef
    BY <1>2, <2>0, <2>1 DEF Proceeds, Fields
  <2>4. Steps(h) /\ clerk'[h] = s
    BY <2>1 DEF Typed, Steps
  <2>5. clerk[h].sum = Reward
    BY <2>0 DEF JobPays
  <2>6. s.at = "read" => s.ref[1] = "referee"
    BY <2>3
  <2>7. JobPays(h)'
    BY <2>2, <2>3, <2>4, <2>5, <2>6 DEF JobPays, Crediting
  <2> QED BY <2>2, <2>3, <2>4, <2>7 DEF AtRisk, Expiring
<1> QED BY <1>1, <1>2

LEMMA CreditReadKept ==
  ASSUME Typed, RewardInv, BooksInv, BooksInv', KeptInv, NEW h \in Clerk, CreditRead(h) PROVE KeptInv'
<1>1. UNCHANGED <<wallet, landed, lapsed, ownMoney, lent, stale, undone, swallowed>> /\ clerk[h].at = "read"
  BY DEF CreditRead, Is, creditRows, creditTold
<1>2. Told
  BY <1>1 DEF Told
<1>3. AtRisk(h) = 0 /\ Expiring(h) = 0
  BY <1>1 DEF AtRisk, Expiring
<1>4. CASE clerk' = [clerk EXCEPT ![h] = Proceeds(h)]
  <2>1. Steps(h) /\ JobPays(h)' /\ clerk'[h].work # "expire" /\ AtRisk(h)' = 0 /\ Expiring(h)' = 0
    BY <1>1, <1>4, PaysProceeds DEF Crediting
  <2> QED BY <1>1, <1>2, <1>3, <2>1, KeptQuiet
<1>5. CASE clerk' = [clerk EXCEPT ![h] = Off]
  BY <1>1, <1>2, <1>5, EndsKept
<1>6. ASSUME NEW has, NEW n, n = IF clerk[h].work = "spend" THEN AtMost(clerk[h].sum, has) ELSE clerk[h].sum,
             clerk' = [clerk EXCEPT ![h] = [clerk[h] EXCEPT !.at = "save", !.seen = has, !.sum = n]]
      PROVE  KeptInv'
  <2>0. DOMAIN clerk = Clerk /\ DOMAIN clerk[h] = Fields
    BY DEF Typed
  <2>1. clerk'[h] = [clerk[h] EXCEPT !.at = "save", !.seen = has, !.sum = n] /\ Steps(h)
    BY <1>6, <2>0 DEF Steps
  <2>2. clerk'[h].at = "save" /\ clerk'[h].sum = n /\ clerk'[h].work = clerk[h].work /\ clerk'[h].ref = clerk[h].ref
    BY <2>0, <2>1 DEF Fields
  <2>3. JobPays(h) /\ clerk[h].work # "expire"
    BY <1>1, WorkIsThere DEF KeptInv, ExpirePlace
  <2>4. JobPays(h)'
    BY <1>1, <1>6, <2>2, <2>3 DEF JobPays, Crediting, Referral
  <2>5. AtRisk(h)' = 0 /\ Expiring(h)' = 0
    BY <2>2 DEF AtRisk, Expiring
  <2>6. clerk'[h].work # "expire" /\ AtRisk(h)' <= AtRisk(h) /\ Expiring(h)' = Expiring(h)
    BY <1>3, <2>2, <2>3, <2>5
  <2> QED BY <1>1, <1>2, <2>1, <2>4, <2>6, KeptQuiet
<1>7. PICK has, n : /\ has = wallet[Owner(clerk[h].ref)]
                    /\ n = IF clerk[h].work = "spend" THEN AtMost(clerk[h].sum, has) ELSE clerk[h].sum
  OBVIOUS
<1>8. \/ clerk' = [clerk EXCEPT ![h] = Proceeds(h)] \/ clerk' = [clerk EXCEPT ![h] = Off]
      \/ clerk' = [clerk EXCEPT ![h] = [clerk[h] EXCEPT !.at = "save", !.seen = has, !.sum = n]]
  <2>1. CASE Logged(clerk[h].ref)
    BY <2>1 DEF CreditRead
  <2>2. CASE ~Logged(clerk[h].ref) /\ n = 0
    BY <1>7, <2>2 DEF CreditRead
  <2>3. CASE ~Logged(clerk[h].ref) /\ n # 0
    BY <1>7, <2>3 DEF CreditRead
  <2> QED BY <2>1, <2>2, <2>3
<1> QED BY <1>4, <1>5, <1>6, <1>7, <1>8

LEMMA QuietKept ==
  ASSUME Typed, RewardInv, BooksInv, BooksInv', KeptInv, NEW h \in Clerk,
         \/ CreditLogged(h) \/ InsertFails(h) \/ CreditPost(h) \/ AnswerLost(h) \/ LedgerDies(h) \/ PostFails(h)
         \/ TakePoints(h) \/ WriteOff(h) \/ CreditCallFails(h) \/ Mark(h) \/ AskPayment(h) \/ PaymentRefuses(h)
         \/ DecisionAborts(h) \/ CloseCase(h) \/ CaseAborts(h) \/ \E q \in Claim : InsertClaim(h, q)
  PROVE  KeptInv'
<1>1. UNCHANGED <<wallet, landed, lapsed, ownMoney, lent>> /\ undone \subseteq undone'
  BY DEF CreditLogged, InsertFails, CreditPost, AnswerLost, LedgerDies, PostFails, TakePoints, WriteOff, CreditCallFails, Mark,
         AskPayment, PaymentRefuses, DecisionAborts, CloseCase, CaseAborts, InsertClaim, creditRows, creditTold
<1>2. Told
  BY DEF Told, CreditLogged, InsertFails, CreditPost, AnswerLost, LedgerDies, PostFails, TakePoints, WriteOff, CreditCallFails, Mark,
         AskPayment, PaymentRefuses, DecisionAborts, CloseCase, CaseAborts, InsertClaim, creditRows, creditTold, SavesPoints
<1>3. CASE CreditLogged(h) \/ InsertFails(h) \/ TakePoints(h) \/ (AskPayment(h) /\ Moves(h, "decide"))
  <2>1. CASE CreditLogged(h)
    <3>1. PICK at \in {"undo", "post"} : clerk' = [clerk EXCEPT ![h].at = at]
      BY <2>1 DEF CreditLogged, Moves
    <3>2. clerk[h].at = "log"
      BY <2>1 DEF CreditLogged, Is
    <3> QED BY <1>1, <1>2, <3>1, <3>2, MovesKept
  <2>2. CASE InsertFails(h)
    <3>1. clerk' = [clerk EXCEPT ![h].at = "undo"] /\ clerk[h].at = "log"
      BY <2>2 DEF InsertFails, Is
    <3> QED BY <1>1, <1>2, <3>1, MovesKept
  <2>3. CASE TakePoints(h)
    <3>1. clerk' = [clerk EXCEPT ![h].at = "read"] /\ clerk[h].at = "take"
      BY <2>3 DEF TakePoints, Is, Moves
    <3>2. clerk[h].work = "redeem" /\ clerk[h].ref[1] = "loyalty"
      BY <3>1, Known DEF JobKnows, JobRedeems
    <3> QED BY <1>1, <1>2, <3>1, <3>2, MovesKept
  <2>4. CASE AskPayment(h) /\ Moves(h, "decide")
    <3>1. clerk' = [clerk EXCEPT ![h].at = "decide"] /\ clerk[h].at = "ask"
      BY <2>4 DEF AskPayment, Is, Moves
    <3> QED BY <1>1, <1>2, <3>1, MovesKept
  <2> QED BY <1>3, <2>1, <2>2, <2>3, <2>4
<1>4. CASE CreditPost(h)
  <2>1. clerk[h].at = "post" /\ clerk' = [clerk EXCEPT ![h] = Proceeds(h)]
    BY <1>4 DEF CreditPost, Is, GoesOn
  <2>2. Steps(h) /\ JobPays(h)' /\ clerk'[h].work # "expire" /\ AtRisk(h)' = 0 /\ Expiring(h)' = 0
    BY <2>1, PaysProceeds DEF Crediting
  <2>3. AtRisk(h) = 0 /\ Expiring(h) = 0
    BY <2>1 DEF AtRisk, Expiring
  <2> QED BY <1>1, <1>2, <2>2, <2>3, KeptQuiet
<1>5. CASE AnswerLost(h)
  <2>1. clerk[h].work = "qualify" /\ clerk[h].at \in {"save", "log", "undo", "post"} /\ clerk' = [clerk EXCEPT ![h].work = "grant"]
    BY <1>5 DEF AnswerLost
  <2>2. DOMAIN clerk = Clerk /\ DOMAIN clerk[h] = Fields
    BY DEF Typed
  <2>3. clerk'[h] = [clerk[h] EXCEPT !.work = "grant"] /\ Steps(h)
    BY <2>1, <2>2 DEF Steps
  <2>4. clerk'[h].at = clerk[h].at /\ clerk'[h].work = "grant" /\ clerk'[h].ref = clerk[h].ref /\ clerk'[h].sum = clerk[h].sum
    BY <2>2, <2>3 DEF Fields
  <2>5. JobPays(h) /\ AtRisk(h) \in Nat
    BY KeptTypesNow DEF KeptInv, KeptTypes
  <2>6. JobPays(h)'
    BY <2>1, <2>4, <2>5 DEF JobPays, Crediting
  <2>7. AtRisk(h)' = AtRisk(h) /\ Expiring(h)' = Expiring(h)
    BY <2>4 DEF AtRisk, Expiring
  <2>8. clerk'[h].work # "expire" /\ AtRisk(h)' <= AtRisk(h)
    BY <2>4, <2>5, <2>7
  <2> QED BY <1>1, <1>2, <2>3, <2>6, <2>7, <2>8, KeptQuiet
<1>6. CASE LedgerDies(h) \/ PostFails(h)
  <2>1. clerk' = [clerk EXCEPT ![h] = Off]
    BY <1>6 DEF LedgerDies, PostFails, GivesUp
  <2>2. clerk[h].at = "stamp" => undone' # {}
    BY <1>6 DEF LedgerDies, PostFails, Unfinished
  <2> QED BY <1>1, <1>2, <2>1, <2>2, EndsKept
<1>7. CASE \/ WriteOff(h) \/ CreditCallFails(h) \/ Mark(h) \/ (AskPayment(h) /\ ~Moves(h, "decide")) \/ PaymentRefuses(h)
           \/ DecisionAborts(h) \/ CloseCase(h) \/ CaseAborts(h) \/ \E q \in Claim : InsertClaim(h, q)
  <2>1. clerk' = [clerk EXCEPT ![h] = Off] /\ clerk[h].at # "stamp"
    BY <1>7 DEF WriteOff, CreditCallFails, Mark, AskPayment, PaymentRefuses, DecisionAborts, CloseCase, CaseAborts, InsertClaim,
                Is, GivesUp, Finishes
  <2> QED BY <1>1, <1>2, <2>1, EndsKept
<1> QED BY <1>3, <1>4, <1>5, <1>6, <1>7

LEMMA BeginKept ==
  ASSUME Typed, BooksInv, BooksInv', KeptInv, NEW h \in Clerk,
         \/ Grant(h) \/ Spend(h) \/ BeginRedeem(h) \/ BeginClaim(h)
         \/ \E o \in Sale : \/ BeginDelivery(h, o)
                            \/ \E way \in {"no_refund", "wallet", "psp"} : BeginDecision(h, o, way)
                            \/ \E sum \in {0, Refund} : BeginCase(h, o, sum)
                            \/ \E q \in Claim : BeginQualify(h, o, q)
         \/ \E q \in Claim : BeginExpire(h, q)
  PROVE  KeptInv'
<1> DEFINE Same == UNCHANGED <<wallet, landed, lapsed, ownMoney, lent, stale, undone, swallowed>>
<1>1. CASE Grant(h)
  <2>1. PICK ref : ref = <<"grant", creditSteps + 1>>
    OBVIOUS
  <2>2. Begins(h, "grant", "read", NoRef, ref, Reward) /\ Same
    BY <1>1, <2>1 DEF Grant, creditRows, creditTold
  <2>3. ref[1] = "grant"
    BY <2>1
  <2> QED BY <2>2, <2>3, BeginsKept DEF Referral
<1>2. CASE Spend(h)
  <2>1. PICK ref : ref = <<"spend", creditSteps + 1>>
    OBVIOUS
  <2>2. Begins(h, "spend", "read", NoRef, ref, Spending) /\ Same
    BY <1>2, <2>1 DEF Spend, creditRows, creditTold
  <2>3. ref[1] = "spend"
    BY <2>1
  <2> QED BY <2>2, <2>3, BeginsKept DEF Referral
<1>3. CASE BeginRedeem(h) \/ BeginClaim(h)
  <2>1. PICK work \in {"redeem", "claim"}, at \in {"take", "insert"} : (\E ref, sum : Begins(h, work, at, NoRef, ref, sum)) /\ Same
    BY <1>3 DEF BeginRedeem, BeginClaim, creditRows, creditTold
  <2> QED BY <2>1, BeginsKept
<1>4. CASE \E o \in Sale : \/ BeginDelivery(h, o)
                           \/ \E way \in {"no_refund", "wallet", "psp"} : BeginDecision(h, o, way)
                           \/ \E sum \in {0, Refund} : BeginCase(h, o, sum)
  <2>1. PICK work \in {"deliver", "dispute", "chargeback"}, at \in {"commit", "ask", "decide", "close"} :
          (\E o, ref, sum : Begins(h, work, at, o, ref, sum)) /\ Same
    <3>1. ASSUME NEW o \in Sale, BeginDelivery(h, o)
          PROVE  (\E p, ref, sum : Begins(h, "deliver", "commit", p, ref, sum)) /\ Same
      BY <3>1 DEF BeginDelivery, creditRows, creditTold
    <3>2. ASSUME NEW o \in Sale, NEW way \in {"no_refund", "wallet", "psp"}, BeginDecision(h, o, way)
          PROVE  \E at \in {"ask", "decide"} : (\E p, ref, sum : Begins(h, "dispute", at, p, ref, sum)) /\ Same
      <4>1. PICK at \in {"ask", "decide"} : at = IF way = "psp" THEN "ask" ELSE "decide"
        OBVIOUS
      <4> QED BY <3>2, <4>1 DEF BeginDecision, creditRows
    <3>3. ASSUME NEW o \in Sale, NEW sum \in {0, Refund}, BeginCase(h, o, sum)
          PROVE  (\E p, ref, n : Begins(h, "chargeback", "close", p, ref, n)) /\ Same
      BY <3>3 DEF BeginCase, creditRows
    <3> HIDE DEF Same
    <3> QED BY <1>4, <3>1, <3>2, <3>3
  <2> QED BY <2>1, BeginsKept
<1>5. ASSUME NEW o \in Sale, NEW q \in Claim, BeginQualify(h, o, q) PROVE KeptInv'
  <2>1. PICK ref : ref = <<"referrer", q>>
    OBVIOUS
  <2>2. Begins(h, "qualify", "read", q, ref, Reward) /\ Same
    BY <1>5, <2>1 DEF BeginQualify, creditRows, creditTold
  <2>3. ref[1] = "referrer"
    BY <2>1
  <2> QED BY <2>2, <2>3, BeginsKept DEF Referral
<1>6. ASSUME NEW q \in Claim, BeginExpire(h, q) PROVE KeptInv'
  <2>1. PICK ref, sum : ref = <<"referee", q>> /\ sum = Lapsing(wallet[Customer])
    OBVIOUS
  <2>2. /\ Begins(h, "expire", "lapse", q, ref, sum) /\ Same /\ ref \notin lapsed
        /\ \A g \in Clerk : clerk[g].work # "expire"
    BY <1>6, <2>1 DEF BeginExpire, creditRows, creditTold
  <2>3. sum <= Reward
    BY <2>1, CreditAssumption DEF Lapsing, AtMost, BooksInv, RowsTyped
  <2> QED BY <2>2, <2>3, BeginsKept
<1> QED BY <1>1, <1>2, <1>3, <1>4, <1>5, <1>6

\* The referee's credit is the only one that is held for the expiry.
LEMMA HeldLands ==
  ASSUME BooksInv, BooksInv', NEW ref \in Ref, NEW d \in Int, landed'[ref] = landed[ref] + d,
         \A r \in Ref \ {ref} : landed'[r] = landed[r], lapsed' = lapsed
  PROVE  HeldSum' = HeldSum + IF ref[1] = "referee" THEN d ELSE 0
<1>0. HeldSum \in Int
  BY KeptTypesNow DEF KeptTypes
<1>1. \A q \in Claim : <<"referee", q>> \in Ref
  BY DEF Ref
<1>2. CASE ref[1] = "referee"
  <2>1. PICK q \in Claim : ref = <<"referee", q>>
    BY <1>2 DEF Ref
  <2>2. \A p \in Claim \ {q} : Held(p)' = Held(p)
    BY <1>1, <2>1 DEF Held
  <2>3. Held(q)' = Held(q) + d /\ Held(q) \in Int
    <3>1. landed[ref] \in Int
      BY DEF BooksInv, RowsTyped
    <3> QED BY <2>1, <3>1 DEF Held
  <2> QED BY <1>0, <1>2, <2>2, <2>3, HeldMoves
<1>3. CASE ref[1] # "referee"
  <2>1. ASSUME NEW q \in Claim PROVE Held(q)' = Held(q)
    <3>1. PICK r \in Ref : r = <<"referee", q>>
      BY <1>1
    <3>2. r[1] = "referee"
      BY <3>1
    <3>3. landed'[r] = landed[r]
      BY <1>3, <3>2
    <3> QED BY <3>1, <3>3 DEF Held
  <2>2. HeldSum' = HeldSum
    BY <2>1 DEF HeldSum
  <2> QED BY <1>0, <1>3, <2>2
<1> QED BY <1>2, <1>3

\* With no credit that may be taken, none is held, none at risk.
LEMMA NothingTaken ==
  ASSUME Typed, BooksInv, KeptInv, undone = {}, \A ref \in Ref : ~MayBeTaken(ref)
  PROVE  HeldSum = 0 /\ ExpiringSum = 0 /\ AtRiskSum = 0
<1>0. IsFiniteSet(Clerk) /\ IsFiniteSet(Claim) /\ RowsTyped
  BY CreditAssumption DEF BooksInv
<1>1. ASSUME NEW ref \in Ref
      PROVE  /\ landed[ref] \in Int /\ BringsSum(ref) \in Nat /\ landed[ref] = (IF Logged(ref) THEN 1 ELSE 0) + BringsSum(ref)
             /\ \A h \in Clerk : Brings(h, ref) <= BringsSum(ref)
  <2>1. \A h \in Clerk : Brings(h, ref) \in Nat
    BY DEF Brings
  <2>2. BringsSum(ref) \in Nat
    BY <1>0, <2>1, SumType DEF BringsSum
  <2>3. ASSUME NEW h \in Clerk PROVE Brings(h, ref) <= BringsSum(ref)
    <3> DEFINE f == [g \in Clerk |-> Brings(g, ref)]
    <3>1. (\A y \in Clerk : f[y] \in Nat) /\ f[h] = Brings(h, ref) /\ BringsSum(ref) = SumFunctionOnSet(f, Clerk)
      BY <2>1 DEF BringsSum
    <3> HIDE DEF f
    <3> QED BY <1>0, <3>1, SumBounds
  <2>4. landed[ref] \in Int /\ InBalance(ref) = BringsSum(ref)
    BY <1>0 DEF BooksInv, RefBook, RowsTyped
  <2> QED BY <2>2, <2>3, <2>4 DEF InBalance
<1>2. ASSUME NEW q \in Claim PROVE Held(q) = 0
  <2>1. PICK ref \in Ref : ref = <<"referee", q>>
    BY DEF Ref
  <2>2. ref[1] = "referee" /\ Owner(ref) = Customer
    BY <2>1 DEF Owner
  <2>3. ref \in lapsed => Logged(ref)
    BY <1>0 DEF RowsTyped, Logged
  <2>4. ~(landed[ref] > IF ref \in lapsed THEN 1 ELSE 0)
    BY <2>2, <2>3 DEF MayBeTaken
  <2> QED BY <1>1, <2>1, <2>3, <2>4 DEF Held
<1>3. ASSUME NEW h \in Clerk PROVE Expiring(h) = 0
  <2> SUFFICES ASSUME clerk[h].at = "stamp" PROVE FALSE
    BY DEF Expiring
  <2>1. JobExpires(h) /\ JobPays(h)
    BY Known DEF JobKnows, KeptInv
  <2>2. PICK ref : ref = clerk[h].ref
    OBVIOUS
  <2>3. ref \in {"referee"} \X Claim /\ Logged(ref) /\ ref \notin lapsed
    BY <2>1, <2>2 DEF JobExpires, JobPays, ExpirePlace
  <2>4. ref \in Ref /\ ref[1] = "referee" /\ Owner(ref) = Customer
    BY <2>3 DEF Ref, Owner
  <2>5. ~(landed[ref] > 0)
    BY <2>3, <2>4 DEF MayBeTaken
  <2> QED BY <1>1, <2>3, <2>4, <2>5
<1>4. ASSUME NEW h \in Clerk PROVE AtRisk(h) = 0
  <2> SUFFICES ASSUME clerk[h].at \in {"log", "undo"}, clerk[h].ref[1] \notin Referral \union {"spend"} PROVE FALSE
    BY DEF AtRisk
  <2>1. PICK ref : ref = clerk[h].ref
    OBVIOUS
  <2>2. ref \in CreditRef
    BY <2>1, Known DEF JobKnows, JobCredits, Crediting
  <2>3. ref \in Ref /\ ref[1] \notin {"referrer", "referee", "spend"} /\ Owner(ref) = Customer
    BY <1>0, <2>1, <2>2, CreditRefs DEF Referral, Owner
  <2>4. Brings(h, ref) = 1
    BY <2>1 DEF Brings
  <2>5. ~(landed[ref] > IF Logged(ref) THEN 1 ELSE 0)
    BY <2>3 DEF MayBeTaken
  <2> QED BY <1>1, <2>3, <2>4, <2>5
<1>5. HeldSum = 0
  BY <1>0, <1>2, SumZero DEF HeldSum
<1>6. ExpiringSum = 0
  BY <1>0, <1>3, SumZero DEF ExpiringSum
<1>7. AtRiskSum = 0
  BY <1>0, <1>4, SumZero DEF AtRiskSum
<1> QED BY <1>5, <1>6, <1>7

\* what a save of a balance is to the customer
LEMMA RoomSaved ==
  ASSUME RowsTyped, NEW u \in {Customer, Referrer}, NEW seen \in Int, NEW now \in Nat, NEW own \in Int, ownMoney \in Int,
         SavesWallet(u, seen, now), ownMoney' = own
  PROVE  /\ u = Customer => Room' = Room + (now - seen) - (own - ownMoney) \/ "wallet" \in stale'
         /\ u = Referrer => Room' = Room - (own - ownMoney)
         /\ u = Customer => Room' = now - own
         /\ Room \in Int
<1>1. wallet \in [{Customer, Referrer} -> Nat] /\ Customer # Referrer
  BY CreditAssumption DEF RowsTyped
<1>2. wallet[Customer] \in Int
  BY <1>1
<1>3. CASE u = Customer
  BY <1>1, <1>2, <1>3 DEF SavesWallet, Room
<1>4. CASE u = Referrer
  BY <1>1, <1>2, <1>4 DEF SavesWallet, Room
<1> QED BY <1>2, <1>3, <1>4 DEF Room

LEMMA CreditSaveKept == ASSUME Typed, BooksInv, BooksInv', KeptInv, NEW h \in Clerk, CreditSave(h) PROVE KeptInv'
<1>1. /\ UNCHANGED <<lapsed, undone, swallowed>> /\ clerk[h].at = "save" /\ clerk' = [clerk EXCEPT ![h].at = "log"]
      /\ Lands(clerk[h].ref) /\ SavesWallet(Owner(clerk[h].ref), clerk[h].seen, clerk[h].seen + Signed(h))
      /\ ownMoney' = IF clerk[h].ref[1] \in Referral THEN ownMoney ELSE AtLeast0(ownMoney + Signed(h))
      /\ lent => lent'
      /\ clerk[h].work = "spend" /\ ~lent' => \A ref \in Ref : ~MayBeTaken(ref)
  BY DEF CreditSave, Is, Moves, Referral
<1>2. RowsTyped /\ Customer # Referrer /\ Reward \in Nat /\ ownMoney \in Nat
  BY CreditAssumption DEF BooksInv, KeptInv
<1>3. JobKnows(h) /\ JobPays(h) /\ clerk[h].work \in CreditWork /\ clerk[h].ref \in Ref
  BY <1>1, <1>2, Known, CreditRefs DEF JobKnows, JobCredits, Crediting, KeptInv
<1>4. PICK ref \in Ref, seen \in Nat, sum \in Nat, d \in Int :
        ref = clerk[h].ref /\ seen = clerk[h].seen /\ sum = clerk[h].sum /\ d = Signed(h)
  BY <1>3, TermsTyped DEF JobKnows, JobTyped
<1>5. /\ clerk[h].work = "spend" => ref[1] = "spend" /\ d = 0 - sum /\ sum <= seen
      /\ clerk[h].work # "spend" => ref[1] # "spend" /\ d = sum
      /\ ref[1] \in Referral => sum = Reward
  BY <1>1, <1>3, <1>4 DEF Signed, JobPays, JobKnows, JobCredits, Crediting
<1>6. PICK u \in {Customer, Referrer}, now \in Nat, own \in Nat :
        u = Owner(ref) /\ now = seen + d /\ own = IF ref[1] \in Referral THEN ownMoney ELSE AtLeast0(ownMoney + d)
  <2>1. seen + d \in Nat
    BY <1>4, <1>5
  <2>2. AtLeast0(ownMoney + d) \in Nat
    BY <1>2, <1>4 DEF AtLeast0
  <2> QED BY <1>2, <2>1, <2>2 DEF Owner
<1>7. SavesWallet(u, seen, now) /\ ownMoney' = own /\ Lands(ref)
  BY <1>1, <1>4, <1>6
<1>8. /\ u = Customer => Room' = Room + (now - seen) - (own - ownMoney) \/ "wallet" \in stale'
      /\ u = Referrer => Room' = Room - (own - ownMoney)
      /\ u = Customer => Room' = now - own
      /\ Room \in Int
  BY <1>2, <1>7, RoomSaved
<1>9. HeldSum' = HeldSum + IF ref[1] = "referee" THEN 1 ELSE 0
  <2>1. landed'[ref] = landed[ref] + 1 /\ \A r \in Ref \ {ref} : landed'[r] = landed[r]
    BY <1>2, <1>7 DEF Lands, RowsTyped
  <2> QED BY <1>1, <2>1, HeldLands
<1>10. /\ Steps(h) /\ clerk'[h].at = "log" /\ clerk'[h].work = clerk[h].work /\ clerk'[h].ref = clerk[h].ref
       /\ clerk'[h].sum = clerk[h].sum
  BY <1>1, MoveDoes
<1>11. JobPays(h)' /\ ExpiresAlone(h)
  BY <1>1, <1>3, <1>10 DEF JobPays, Crediting, ExpiresAlone, Referral
<1>12. Careful
  BY <1>1, <1>6, <1>7 DEF Careful, Told, SavesWallet
<1>13. /\ Expiring(h) = 0 /\ Expiring(h)' = 0 /\ AtRisk(h) = 0
       /\ AtRisk(h)' = IF ref[1] \notin Referral \union {"spend"} THEN sum ELSE 0
  BY <1>1, <1>4, <1>10 DEF Expiring, AtRisk
<1>14. /\ ExpiringSum' = ExpiringSum /\ AtRiskSum' = AtRiskSum + AtRisk(h)'
       /\ HeldSum \in Int /\ ExpiringSum \in Nat /\ AtRiskSum \in Nat /\ AtRisk(h)' \in Nat
  <2>1. /\ HeldSum \in Int /\ ExpiringSum \in Nat /\ AtRiskSum \in Nat /\ AtRisk(h)' \in Nat
    BY KeptTypesNow, KeptTypesNext DEF KeptTypes
  <2>2. /\ AtRiskSum' = AtRiskSum - AtRisk(h) + AtRisk(h)'
        /\ ExpiringSum' = ExpiringSum - Expiring(h) + Expiring(h)'
    BY <1>10, KeptSumsMove
  <2> QED BY <1>13, <2>1, <2>2
<1>15. Open' = Open + (IF ref[1] = "referee" THEN 1 ELSE 0) /\ Open \in Int
  BY <1>9, <1>14 DEF Open
<1>16. CASE clerk[h].work = "spend"
  <2>1. CASE lent' \/ undone' # {} \/ "wallet" \in stale'
    <3>1. Leaves
      BY <2>1 DEF Leaves
    <3>2. ownMoney' - AtRisk(h)' >= ownMoney - AtRisk(h) \/ AtRiskSum' = 0 \/ undone' # {} \/ lent'
      <4>1. ~lent' /\ undone' = {} => AtRiskSum' = 0
        BY <1>1, <1>5, <1>13, <1>14, <1>16, NothingTaken
      <4> QED BY <4>1
    <3> QED BY <1>10, <1>11, <1>12, <3>1, <3>2, KeptStep
  <2>2. CASE ~lent' /\ undone' = {} /\ "wallet" \notin stale'
    <3>1. HeldSum = 0 /\ ExpiringSum = 0 /\ AtRiskSum = 0
      BY <1>1, <1>16, <2>2, NothingTaken
    <3>2. AtRiskSum' = 0 /\ Open' = 0 /\ Open = 0
      <4>1. Open = 0
        BY <3>1 DEF Open
      <4>2. ref[1] = "spend" /\ AtRisk(h)' = 0
        BY <1>5, <1>13, <1>16
      <4> QED BY <1>14, <1>15, <3>1, <4>1, <4>2
    <3>3. Room >= 0
      <4>1. ~lent /\ undone = {} /\ "wallet" \notin stale
        BY <1>1, <1>12, <2>2 DEF Careful, Told
      <4>2. Reward * 0 = 0
        BY <1>2
      <4> QED BY <3>2, <4>1, <4>2 DEF KeptInv, KeptBook
    <3>4. u = Customer /\ own = AtLeast0(ownMoney + d)
      BY <1>5, <1>6, <1>16 DEF Owner, Referral
    <3>5. Room' = Room + (now - seen) - (own - ownMoney) /\ Room' = now - own
      BY <1>8, <2>2, <3>4
    <3>6. Room' >= 0
      <4>1. PICK k \in Int, r \in Int, o \in Nat : k = Room' /\ r = Room /\ o = ownMoney
        BY <1>2, <1>8, <3>5
      <4>2. k = r + d - (own - o) /\ k = now - own /\ own = (IF o + d < 0 THEN 0 ELSE o + d) /\ r >= 0
        BY <1>4, <1>6, <3>3, <3>4, <3>5, <4>1 DEF AtLeast0
      <4> QED BY <4>1, <4>2
    <3>7. Leaves
      BY <3>2, <3>6 DEF Leaves
    <3> QED BY <1>10, <1>11, <1>12, <3>2, <3>7, KeptStep
  <2> QED BY <2>1, <2>2
<1>17. CASE clerk[h].work # "spend"
  <2>1. own = IF ref[1] \in Referral THEN ownMoney ELSE ownMoney + sum
    BY <1>2, <1>4, <1>5, <1>6, <1>17 DEF AtLeast0
  <2>2. ownMoney' - AtRisk(h)' >= ownMoney - AtRisk(h)
    BY <1>2, <1>4, <1>5, <1>7, <1>13, <1>17, <2>1
  <2>3. Leaves
    <3>1. CASE ref[1] = "referee"
      <4>1. u = Customer /\ own = ownMoney /\ d = Reward
        BY <1>5, <1>6, <1>17, <2>1, <3>1 DEF Owner, Referral
      <4>2. Room' = Room + Reward \/ "wallet" \in stale'
        BY <1>2, <1>4, <1>6, <1>8, <4>1
      <4>3. Open' = Open + 1
        BY <1>15, <3>1
      <4> QED BY <1>2, <1>8, <4>2, <4>3 DEF Leaves
    <3>2. CASE ref[1] = "referrer"
      <4>1. u = Referrer /\ own = ownMoney
        BY <1>6, <2>1, <3>2 DEF Owner, Referral
      <4>2. Room' = Room
        BY <1>2, <1>8, <4>1
      <4>3. Open' = Open
        BY <1>15, <3>2
      <4> QED BY <1>8, <4>2, <4>3 DEF Leaves
    <3>3. CASE ref[1] \notin Referral
      <4>1. u = Customer /\ own = ownMoney + sum /\ now = seen + sum
        BY <1>5, <1>6, <1>17, <2>1, <3>3 DEF Owner, Referral
      <4>2. Room' = Room \/ "wallet" \in stale'
        <5>1. now - seen = sum /\ own - ownMoney = sum
          BY <1>2, <4>1
        <5> QED BY <1>8, <4>1, <5>1
      <4>3. Open' = Open
        BY <1>15, <3>3 DEF Referral
      <4> QED BY <1>8, <4>2, <4>3 DEF Leaves
    <3> QED BY <3>1, <3>2, <3>3 DEF Referral
  <2> QED BY <1>10, <1>11, <1>12, <2>2, <2>3, KeptStep
<1> QED BY <1>16, <1>17

\* A rollback takes what is still there.
LEMMA CreditUndoKept ==
  ASSUME Typed, RewardInv, BooksInv, BooksInv', KeptInv, NEW h \in Clerk, CreditUndo(h) PROVE KeptInv'
<1>1. /\ UNCHANGED <<lapsed, undone, lent, swallowed>> /\ clerk[h].at = "undo" /\ clerk' = [clerk EXCEPT ![h] = Proceeds(h)]
      /\ TakenBack(clerk[h].ref) /\ SavesWallet(Owner(clerk[h].ref), clerk[h].seen + Signed(h), clerk[h].seen)
      /\ ownMoney' = IF clerk[h].ref[1] \in Referral \union {"spend"} THEN ownMoney ELSE AtLeast0(ownMoney - Signed(h))
  BY DEF CreditUndo, Is, GoesOn, Referral
<1>2. RowsTyped /\ Customer # Referrer /\ Reward \in Nat /\ ownMoney \in Nat /\ IsFiniteSet(Clerk)
  BY CreditAssumption DEF BooksInv, KeptInv
<1>3. JobKnows(h) /\ JobPays(h) /\ clerk[h].work \in CreditWork /\ clerk[h].ref \in Ref
  BY <1>1, <1>2, Known, CreditRefs DEF JobKnows, JobCredits, Crediting, KeptInv
<1>4. PICK ref \in Ref, seen \in Nat, sum \in Nat, d \in Int :
        ref = clerk[h].ref /\ seen = clerk[h].seen /\ sum = clerk[h].sum /\ d = Signed(h)
  BY <1>3, TermsTyped DEF JobKnows, JobTyped
<1>5. /\ ref[1] = "spend" => d = 0 - sum
      /\ ref[1] # "spend" => d = sum
      /\ ref[1] \in Referral => sum = Reward
  BY <1>1, <1>3, <1>4 DEF Signed, JobPays, Crediting
<1>6. PICK u \in {Customer, Referrer}, was \in Int, own \in Nat :
        /\ u = Owner(ref) /\ was = seen + d
        /\ own = IF ref[1] \in Referral \union {"spend"} THEN ownMoney ELSE AtLeast0(ownMoney - d)
  <2>1. AtLeast0(ownMoney - d) \in Nat
    BY <1>2, <1>4 DEF AtLeast0
  <2> QED BY <1>2, <1>4, <2>1 DEF Owner
<1>7. SavesWallet(u, was, seen) /\ ownMoney' = own /\ TakenBack(ref)
  BY <1>1, <1>4, <1>6
<1>8. /\ u = Customer => Room' = Room + (seen - was) - (own - ownMoney) \/ "wallet" \in stale'
      /\ u = Referrer => Room' = Room - (own - ownMoney)
      /\ Room \in Int
  BY <1>2, <1>7, RoomSaved
<1>9. HeldSum' = HeldSum + IF ref[1] = "referee" THEN 0 - 1 ELSE 0
  <2>1. landed'[ref] = landed[ref] + (0 - 1) /\ \A r \in Ref \ {ref} : landed'[r] = landed[r]
    BY <1>2, <1>7 DEF TakenBack, RowsTyped
  <2>2. PICK d1 \in Int : d1 = 0 - 1
    OBVIOUS
  <2>3. HeldSum' = HeldSum + IF ref[1] = "referee" THEN d1 ELSE 0
    BY <1>1, <2>1, <2>2, HeldLands
  <2> QED BY <2>2, <2>3
<1>10. Steps(h) /\ JobPays(h)' /\ clerk'[h].work # "expire" /\ AtRisk(h)' = 0 /\ Expiring(h)' = 0
  BY <1>1, PaysProceeds DEF Crediting
<1>11. ExpiresAlone(h)
  BY <1>1, <1>10 DEF ExpiresAlone
<1>12. Careful
  BY <1>1, <1>6, <1>7 DEF Careful, Told, SavesWallet
<1>13. Expiring(h) = 0 /\ AtRisk(h) = IF ref[1] \notin Referral \union {"spend"} THEN sum ELSE 0
  BY <1>1, <1>4 DEF Expiring, AtRisk
<1>14. /\ AtRiskSum \in Nat /\ AtRisk(h) <= AtRiskSum
       /\ Open' = Open + (IF ref[1] = "referee" THEN 0 - 1 ELSE 0) /\ Open \in Int
  <2>1. AtRiskSum \in Nat /\ ExpiringSum \in Nat /\ HeldSum \in Int /\ \A g \in Clerk : AtRisk(g) \in Nat
    BY KeptTypesNow DEF KeptTypes
  <2>2. ExpiringSum' = ExpiringSum
    BY <1>10, <1>13, <2>1, KeptSumsMove
  <2>3. AtRisk(h) <= AtRiskSum
    <3> DEFINE f == [g \in Clerk |-> AtRisk(g)]
    <3>1. (\A y \in Clerk : f[y] \in Nat) /\ f[h] = AtRisk(h) /\ AtRiskSum = SumFunctionOnSet(f, Clerk)
      BY <2>1 DEF AtRiskSum
    <3> HIDE DEF f
    <3> QED BY <1>2, <3>1, SumBounds
  <2> QED BY <1>9, <2>1, <2>2, <2>3 DEF Open
<1>15. CASE undone' # {} \/ lent'
  BY <1>10, <1>11, <1>12, <1>15, KeptStep DEF Leaves
<1>16. CASE undone' = {} /\ ~lent'
  <2>1. ownMoney >= AtRiskSum
    BY <1>1, <1>16 DEF KeptInv, RiskBook
  <2>2. own = ownMoney - AtRisk(h)
    <3>1. CASE ref[1] \in Referral \union {"spend"}
      BY <1>2, <1>6, <1>13, <3>1
    <3>2. CASE ref[1] \notin Referral \union {"spend"}
      <4>1. AtRisk(h) = d /\ AtRisk(h) = sum
        BY <1>5, <1>13, <3>2
      <4>2. ownMoney - d >= 0
        BY <1>2, <1>4, <1>14, <2>1, <4>1
      <4>3. own = ownMoney - d
        BY <1>2, <1>4, <1>6, <3>2, <4>2 DEF AtLeast0
      <4> QED BY <4>1, <4>3
    <3> QED BY <3>1, <3>2
  <2>3. ownMoney' - AtRisk(h)' >= ownMoney - AtRisk(h)
    BY <1>2, <1>7, <1>10, <2>2
  <2>4. Leaves
    <3>1. CASE ref[1] = "referee"
      <4>1. u = Customer /\ own = ownMoney /\ d = Reward
        BY <1>5, <1>6, <3>1 DEF Owner, Referral
      <4>2. Room' = Room - Reward \/ "wallet" \in stale'
        BY <1>2, <1>4, <1>6, <1>8, <4>1
      <4>3. Open' = Open - 1
        BY <1>14, <3>1
      <4> QED BY <1>2, <1>8, <4>2, <4>3 DEF Leaves
    <3>2. CASE ref[1] = "referrer"
      <4>1. u = Referrer /\ own = ownMoney
        BY <1>6, <3>2 DEF Owner, Referral
      <4>2. Room' = Room /\ Open' = Open
        BY <1>2, <1>8, <1>14, <3>2, <4>1
      <4> QED BY <1>8, <4>2 DEF Leaves
    <3>3. CASE ref[1] = "spend"
      <4>1. u = Customer /\ own = ownMoney /\ d = 0 - sum
        BY <1>5, <1>6, <3>3 DEF Owner, Referral
      <4>2. Room' = Room + sum \/ "wallet" \in stale'
        BY <1>2, <1>4, <1>6, <1>8, <4>1
      <4>3. Open' = Open
        BY <1>14, <3>3
      <4> QED BY <1>4, <1>8, <4>2, <4>3 DEF Leaves
    <3>4. CASE ref[1] \notin Referral \union {"spend"}
      <4>1. u = Customer /\ d = sum /\ AtRisk(h) = sum
        BY <1>5, <1>6, <1>13, <3>4 DEF Owner, Referral
      <4>2. seen - was = 0 - sum /\ own - ownMoney = 0 - sum
        BY <1>2, <1>4, <1>6, <2>2, <4>1
      <4>3. Room' = Room \/ "wallet" \in stale'
        BY <1>8, <4>1, <4>2
      <4>4. Open' = Open
        BY <1>14, <3>4 DEF Referral
      <4> QED BY <1>8, <4>3, <4>4 DEF Leaves
    <3> QED BY <3>1, <3>2, <3>3, <3>4 DEF Referral
  <2> QED BY <1>10, <1>11, <1>12, <2>3, <2>4, KeptStep
<1> QED BY <1>15, <1>16

\* Work that ends with a credit of the customer's own, written at once.
LEMMA WrittenKept ==
  ASSUME Typed, BooksInv, BooksInv', KeptInv, NEW h \in Clerk, clerk' = [clerk EXCEPT ![h] = Off],
         clerk[h].at \in {"commit", "decide"}, UNCHANGED <<lapsed, undone, lent>>, stale \subseteq stale', swallowed \subseteq swallowed',
         NEW seen \in Nat, NEW sum \in Nat, NEW ref \in Ref, ref[1] # "referee",
         wallet' = [wallet EXCEPT ![Customer] = seen + sum], wallet[Customer] # seen => "wallet" \in stale',
         Lands(ref), ownMoney' = ownMoney + sum
  PROVE  KeptInv'
<1>1. RowsTyped /\ ownMoney \in Nat
  BY DEF BooksInv, KeptInv
<1>2. /\ Steps(h) /\ JobPays(h)' /\ clerk'[h].work = "none" /\ AtRisk(h)' = 0 /\ Expiring(h)' = 0
  BY PaysOff
<1>3. AtRisk(h) = 0 /\ Expiring(h) = 0
  BY DEF AtRisk, Expiring
<1>4. Open' = Open
  <2>1. landed'[ref] = landed[ref] + 1 /\ \A r \in Ref \ {ref} : landed'[r] = landed[r]
    BY <1>1 DEF Lands, RowsTyped
  <2>2. HeldSum' = HeldSum + IF ref[1] = "referee" THEN 1 ELSE 0
    BY <2>1, HeldLands
  <2>3. HeldSum \in Int /\ ExpiringSum \in Nat
    BY KeptTypesNow DEF KeptTypes
  <2>4. ExpiringSum' = ExpiringSum
    BY <1>2, <1>3, <2>3, KeptSumsMove
  <2> QED BY <2>2, <2>3, <2>4 DEF Open
<1>5. (Room' = Room /\ Room \in Int) \/ "wallet" \in stale'
  <2>1. wallet'[Customer] = seen + sum /\ wallet[Customer] \in Int
    BY <1>1 DEF RowsTyped
  <2>2. CASE wallet[Customer] = seen
    BY <1>1, <2>1, <2>2 DEF Room
  <2> QED BY <2>2
<1>6. Leaves
  BY <1>4, <1>5 DEF Leaves
<1>7. ExpiresAlone(h) /\ Careful
  BY <1>1, <1>2 DEF ExpiresAlone, Careful, Told
<1>8. ownMoney' - AtRisk(h)' >= ownMoney - AtRisk(h)
  BY <1>1, <1>2, <1>3
<1> QED BY <1>2, <1>6, <1>7, <1>8, KeptStep

LEMMA DeliveryKept == ASSUME Typed, BooksInv, BooksInv', KeptInv, NEW h \in Clerk, Delivery(h) PROVE KeptInv'
<1>1. /\ UNCHANGED <<lapsed, undone, lent, swallowed>> /\ clerk' = [clerk EXCEPT ![h] = Off] /\ stale \subseteq stale'
      /\ clerk[h].work = "deliver"
      /\ clerk[h].ref = NoRef => UNCHANGED <<wallet, landed, ownMoney>>
      /\ clerk[h].ref # NoRef =>
           /\ wallet' = [wallet EXCEPT ![Customer] = clerk[h].seen + clerk[h].sum] /\ Lands(clerk[h].ref)
           /\ ownMoney' = ownMoney + clerk[h].sum /\ (wallet[Customer] # clerk[h].seen => "wallet" \in stale')
  BY DEF Delivery, Finishes
<1>2. /\ clerk[h].at = "commit" /\ clerk[h].id \in Sale
      /\ clerk[h].ref = IF clerk[h].id \in Errand THEN <<"unspent", clerk[h].id>> ELSE NoRef
  BY <1>1, Known DEF JobKnows, JobDelivers
<1>3. PICK ref \in Ref \union {NoRef}, seen \in Nat, sum \in Nat : ref = clerk[h].ref /\ seen = clerk[h].seen /\ sum = clerk[h].sum
  BY Known DEF JobKnows, JobTyped
<1>4. CASE ref = NoRef
  <2>1. Told
    BY <1>1 DEF Told
  <2> QED BY <1>1, <1>2, <1>3, <1>4, <2>1, EndsKept
<1>5. CASE ref # NoRef
  <2>1. ref[1] = "unspent" /\ ref \in Ref
    BY <1>2, <1>3, <1>5
  <2> QED BY <1>1, <1>2, <1>3, <1>5, <2>1, WrittenKept
<1> QED BY <1>4, <1>5

LEMMA DecideKept == ASSUME Typed, Refs, BooksInv, BooksInv', KeptInv, NEW h \in Clerk, Decide(h) PROVE KeptInv'
<1>1. /\ UNCHANGED <<lapsed, undone, lent, swallowed>> /\ clerk' = [clerk EXCEPT ![h] = Off] /\ clerk[h].at = "decide"
      /\ clerk[h].ref = NoRef => UNCHANGED <<wallet, landed, stale, ownMoney>>
      /\ clerk[h].ref # NoRef =>
           /\ SavesWallet(Customer, clerk[h].seen, clerk[h].seen + clerk[h].sum) /\ Lands(clerk[h].ref)
           /\ ownMoney' = ownMoney + clerk[h].sum
  BY DEF Decide, Finishes, Is
<1>2. PICK ref \in Ref \union {NoRef}, seen \in Nat, sum \in Nat : ref = clerk[h].ref /\ seen = clerk[h].seen /\ sum = clerk[h].sum
  BY Known DEF JobKnows, JobTyped
<1>3. CASE ref = NoRef
  <2>1. Told
    BY <1>1, <1>2, <1>3 DEF Told
  <2> QED BY <1>1, <1>2, <1>3, <2>1, EndsKept
<1>4. CASE ref # NoRef
  <2>1. clerk[h].work = "dispute" /\ ref = DisputeRef(clerk[h].id) /\ clerk[h].id \in Sale
    BY <1>1, <1>2, <1>4 DEF Refs, CasePlace, CaseWork, Typed
  <2>2. ref[1] = "dispute" /\ ref \in Ref
    BY <1>2, <1>4, <2>1 DEF DisputeRef
  <2>3. wallet' = [wallet EXCEPT ![Customer] = seen + sum] /\ stale \subseteq stale' /\ (wallet[Customer] # seen => "wallet" \in stale')
    BY <1>1, <1>2, <1>4 DEF SavesWallet
  <2> QED BY <1>1, <1>2, <1>4, <2>2, <2>3, WrittenKept
<1> QED BY <1>3, <1>4

\* An expiry takes at most what the credit was.
LEMMA LapseKept == ASSUME Typed, BooksInv, BooksInv', KeptInv, NEW h \in Clerk, Lapse(h) PROVE KeptInv'
<1>1. /\ UNCHANGED <<lapsed, landed, undone, swallowed, ownMoney, lent>> /\ clerk[h].at = "lapse"
      /\ clerk' = [clerk EXCEPT ![h].at = "stamp"] /\ SavesWallet(Customer, clerk[h].seen, clerk[h].seen - clerk[h].sum)
  BY DEF Lapse, Is, Moves
<1>2. RowsTyped /\ Reward \in Nat /\ ownMoney \in Nat
  BY CreditAssumption DEF BooksInv, KeptInv
<1>3. JobKnows(h) /\ JobPays(h)
  BY Known DEF KeptInv
<1>4. PICK seen \in Nat, sum \in Nat : seen = clerk[h].seen /\ sum = clerk[h].sum /\ sum <= seen /\ sum <= Reward
  BY <1>1, <1>3 DEF JobKnows, JobTyped, JobExpires, ExpirePlace, JobPays
<1>5. /\ Steps(h) /\ clerk'[h].at = "stamp" /\ clerk'[h].work = clerk[h].work
      /\ clerk'[h].ref = clerk[h].ref /\ clerk'[h].sum = clerk[h].sum
  BY <1>1, MoveDoes
<1>6. JobPays(h)'
  BY <1>1, <1>3, <1>5 DEF JobPays, Crediting
<1>7. AtRisk(h) = 0 /\ AtRisk(h)' = 0 /\ Expiring(h) = 0 /\ Expiring(h)' = 1
  BY <1>1, <1>5 DEF AtRisk, Expiring
<1>8. Open' = Open - 1
  <2>1. HeldSum \in Int /\ ExpiringSum \in Nat
    BY KeptTypesNow DEF KeptTypes
  <2>2. ExpiringSum' = ExpiringSum + 1
    BY <1>5, <1>7, <2>1, KeptSumsMove
  <2>3. HeldSum' = HeldSum
    BY <1>1 DEF HeldSum, Held
  <2> QED BY <2>1, <2>2, <2>3 DEF Open
<1>9. Room' >= Room - Reward \/ "wallet" \in stale'
  <2>1. PICK now \in Nat : now = seen - sum
    BY <1>4
  <2>2. PICK own \in Int : own = ownMoney
    BY <1>2
  <2>3. SavesWallet(Customer, seen, now) /\ ownMoney' = own
    BY <1>1, <1>4, <2>1, <2>2
  <2>4. Customer \in {Customer, Referrer} /\ ownMoney \in Int
    BY <1>2
  <2>5. (Room' = Room + (now - seen) - (own - ownMoney) \/ "wallet" \in stale') /\ Room \in Int
    BY <1>2, <2>3, <2>4, RoomSaved
  <2> QED BY <1>2, <1>4, <2>1, <2>2, <2>5
<1>10. Leaves
  BY <1>8, <1>9 DEF Leaves
<1>11. ExpiresAlone(h) /\ Careful
  BY <1>1, <1>2, <1>5 DEF ExpiresAlone, Careful, Told, SavesWallet
<1>12. ownMoney' - AtRisk(h)' >= ownMoney - AtRisk(h)
  BY <1>1, <1>2, <1>7
<1> QED BY <1>5, <1>6, <1>10, <1>11, <1>12, KeptStep

LEMMA StampKept == ASSUME Typed, BooksInv, BooksInv', KeptInv, NEW h \in Clerk, Stamp(h) PROVE KeptInv'
<1>1. /\ UNCHANGED <<wallet, landed, stale, undone, swallowed, ownMoney, lent>> /\ clerk[h].at = "stamp"
      /\ clerk' = [clerk EXCEPT ![h].at = "writeOff"] /\ lapsed' = lapsed \union {clerk[h].ref}
  BY DEF Stamp, Is, Moves, creditTold
<1>2. RowsTyped /\ ownMoney \in Nat
  BY DEF BooksInv, KeptInv
<1>3. JobKnows(h) /\ JobPays(h) /\ clerk[h].work = "expire"
  BY <1>1, Known, WorkIsThere DEF KeptInv, ExpirePlace
<1>4. PICK q \in Claim : clerk[h].ref = <<"referee", q>>
  BY <1>1, <1>3 DEF JobKnows, JobExpires, ExpirePlace
<1>5. Steps(h) /\ clerk'[h].at = "writeOff" /\ clerk'[h].work = clerk[h].work
  BY <1>1, MoveDoes
<1>6. JobPays(h)'
  BY <1>5 DEF JobPays, Crediting
<1>7. AtRisk(h) = 0 /\ AtRisk(h)' = 0 /\ Expiring(h) = 1 /\ Expiring(h)' = 0
  BY <1>1, <1>5 DEF AtRisk, Expiring
<1>8. Open' = Open
  <2>1. HeldSum \in Int /\ ExpiringSum \in Nat /\ Held(q) \in Int
    BY KeptTypesNow DEF KeptTypes
  <2>2. ExpiringSum' = ExpiringSum - 1
    BY <1>5, <1>7, <2>1, KeptSumsMove
  <2>3. \A p \in Claim \ {q} : Held(p)' = Held(p)
    BY <1>1, <1>4 DEF Held
  <2>4. Held(q)' = Held(q) - 1
    <3>1. <<"referee", q>> \in Ref
      BY DEF Ref
    <3>2. <<"referee", q>> \notin lapsed /\ <<"referee", q>> \in lapsed'
      BY <1>1, <1>3, <1>4 DEF JobPays
    <3>3. landed[<<"referee", q>>] \in Int
      BY <1>2, <3>1 DEF RowsTyped
    <3> QED BY <1>1, <3>2, <3>3 DEF Held
  <2>5. HeldSum' = HeldSum - 1
    BY <2>1, <2>3, <2>4, HeldMoves
  <2> QED BY <2>1, <2>2, <2>5 DEF Open
<1>9. Room' = Room /\ Room \in Int
  BY <1>1, <1>2 DEF Room, RowsTyped
<1>10. Leaves
  BY <1>8, <1>9 DEF Leaves
<1>11. ExpiresAlone(h) /\ Careful
  BY <1>1, <1>2, <1>3, <1>5 DEF ExpiresAlone, Careful, Told
<1>12. ownMoney' - AtRisk(h)' >= ownMoney - AtRisk(h)
  BY <1>1, <1>2, <1>7
<1> QED BY <1>5, <1>6, <1>10, <1>11, <1>12, KeptStep

LEMMA InitKept == CreditInit => KeptInv
<1> SUFFICES ASSUME CreditInit PROVE KeptInv
  OBVIOUS
<1>0. IsFiniteSet(Clerk) /\ IsFiniteSet(Claim) /\ Reward \in Nat
  BY CreditAssumption
<1>1. \A h \in Clerk : clerk[h].at = "idle" /\ clerk[h].work = "none"
  BY DEF CreditInit, Off
<1>2. (\A h \in Clerk : JobPays(h) /\ AtRisk(h) = 0 /\ Expiring(h) = 0) /\ OneExpiry
  BY <1>1 DEF JobPays, OneExpiry, AtRisk, Expiring, Crediting
<1>3. AtRiskSum = 0
  BY <1>0, <1>2, SumZero DEF AtRiskSum
<1>4. ExpiringSum = 0
  BY <1>0, <1>2, SumZero DEF ExpiringSum
<1>5. \A q \in Claim : Held(q) = 0
  <2> SUFFICES ASSUME NEW q \in Claim PROVE Held(q) = 0
    OBVIOUS
  <2>1. <<"referee", q>> \in Ref
    BY DEF Ref
  <2> QED BY <2>1 DEF CreditInit, Held
<1>6. HeldSum = 0
  BY <1>0, <1>5, SumZero DEF HeldSum
<1>7. ownMoney = 0 /\ Room = 0
  BY DEF CreditInit, Room
<1>8. Reward * Open = 0
  BY <1>0, <1>4, <1>6 DEF Open
<1>9. RiskBook /\ KeptBook
  BY <1>3, <1>7, <1>8 DEF RiskBook, KeptBook
<1> QED BY <1>2, <1>7, <1>9 DEF KeptInv

LEMMA ClerklessKept ==
  ASSUME KeptInv, UNCHANGED <<clerk, wallet, landed, lapsed, stale, undone, ownMoney, lent>> PROVE KeptInv'
<1>1. \A h \in Clerk : JobPays(h)' /\ AtRisk(h)' = AtRisk(h) /\ Expiring(h)' = Expiring(h)
  BY DEF KeptInv, JobPays, AtRisk, Expiring
<1>2. OneExpiry'
  BY DEF KeptInv, OneExpiry
<1>3. AtRiskSum' = AtRiskSum /\ ExpiringSum' = ExpiringSum
  BY <1>1 DEF AtRiskSum, ExpiringSum
<1>4. HeldSum' = HeldSum /\ Room' = Room
  BY DEF HeldSum, Held, Room
<1>5. RiskBook' /\ KeptBook'
  BY <1>3, <1>4 DEF KeptInv, RiskBook, KeptBook, Open
<1> QED BY <1>1, <1>2, <1>5 DEF KeptInv

LEMMA StepKept == IInv /\ RewardInv /\ BooksInv /\ BooksInv' /\ KeptInv /\ [CreditNext]_creditVars => KeptInv'
<1> SUFFICES ASSUME IInv, RewardInv, BooksInv, BooksInv', KeptInv, [CreditNext]_creditVars PROVE KeptInv'
  OBVIOUS
<1>1. Typed /\ Refs
  BY DEF IInv
<1>2. story.sales \subseteq Sale
  BY <1>1, CreditAssumption DEF Typed, StoryType
<1>3. ASSUME NEW h \in Clerk, CreditRead(h) \/ CreditSave(h) \/ CreditUndo(h) \/ Delivery(h) \/ Decide(h) \/ Lapse(h) \/ Stamp(h)
      PROVE  KeptInv'
  BY <1>1, <1>3, CreditReadKept, CreditSaveKept, CreditUndoKept, DeliveryKept, DecideKept, LapseKept, StampKept
<1>4. ASSUME NEW h \in Clerk,
             \/ CreditLogged(h) \/ InsertFails(h) \/ CreditPost(h) \/ AnswerLost(h) \/ LedgerDies(h) \/ PostFails(h)
             \/ TakePoints(h) \/ WriteOff(h) \/ CreditCallFails(h) \/ Mark(h) \/ AskPayment(h) \/ PaymentRefuses(h)
             \/ DecisionAborts(h) \/ CloseCase(h) \/ CaseAborts(h) \/ \E q \in Claim : InsertClaim(h, q)
      PROVE  KeptInv'
  BY <1>1, <1>4, QuietKept
<1>5. ASSUME NEW h \in Clerk,
             \/ Grant(h) \/ Spend(h) \/ BeginRedeem(h) \/ BeginClaim(h)
             \/ \E o \in Sale : \/ BeginDelivery(h, o)
                                \/ \E way \in {"no_refund", "wallet", "psp"} : BeginDecision(h, o, way)
                                \/ \E sum \in {0, Refund} : BeginCase(h, o, sum)
                                \/ \E q \in Claim : BeginQualify(h, o, q)
             \/ \E q \in Claim : BeginExpire(h, q)
      PROVE  KeptInv'
  BY <1>1, <1>5, BeginKept
<1>6. CASE (\E q \in Claim : Block(q)) \/ (\E o \in Sale : OpenDispute(o) \/ OpenChargeback(o)) \/ UNCHANGED creditVars
  <2>1. UNCHANGED <<clerk, wallet, landed, lapsed, stale, undone, ownMoney, lent>>
    BY <1>6 DEF Block, OpenDispute, OpenChargeback, creditVars, creditRows, creditTold
  <2> QED BY <2>1, ClerklessKept
<1> QED BY <1>2, <1>3, <1>4, <1>5, <1>6 DEF CreditNext

\* With nobody at work no referral credit is half taken, and one that has
\* lapsed had landed.
LEMMA KeptIsKept == IInv /\ BooksInv /\ KeptInv => OwnMoneyKept
<1> SUFFICES ASSUME BooksInv, KeptInv, Settled, undone = {}, "wallet" \notin stale, ~lent
             PROVE  wallet[Customer] >= ownMoney
  BY DEF OwnMoneyKept, Books
<1>0. IsFiniteSet(Clerk) /\ IsFiniteSet(Claim) /\ Reward \in Nat /\ RowsTyped /\ ownMoney \in Nat
  BY CreditAssumption DEF BooksInv, KeptInv
<1>1. ExpiringSum = 0
  <2>1. \A h \in Clerk : Expiring(h) = 0
    BY DEF Settled, Off, Expiring
  <2> QED BY <1>0, <2>1, SumZero DEF ExpiringSum
<1>2. ASSUME NEW q \in Claim PROVE Held(q) \in Nat
  <2>1. PICK ref \in Ref : ref = <<"referee", q>>
    BY DEF Ref
  <2>2. \A h \in Clerk : Brings(h, ref) = 0
    BY DEF Settled, Off, Brings
  <2>3. BringsSum(ref) = 0
    BY <1>0, <2>2, SumZero DEF BringsSum
  <2>4. InBalance(ref) = 0 /\ landed[ref] \in Int
    BY <1>0, <2>3 DEF BooksInv, RefBook, RowsTyped
  <2>5. ref \in lapsed => Logged(ref)
    BY <1>0 DEF RowsTyped, Logged
  <2> QED BY <2>1, <2>4, <2>5 DEF InBalance, Held
<1>3. HeldSum \in Nat
  BY <1>0, <1>2, SumType DEF HeldSum
<1>4. PICK k \in Nat : k = Open
  BY <1>1, <1>3 DEF Open
<1>5. Reward * k >= 0 /\ Reward * k \in Int
  BY <1>0
<1>6. Room >= Reward * k
  BY <1>4 DEF KeptInv, KeptBook
<1>7. Room \in Int /\ wallet[Customer] \in Int
  BY <1>0 DEF RowsTyped, Room
<1>8. Room >= 0
  BY <1>5, <1>6, <1>7
<1> QED BY <1>0, <1>7, <1>8 DEF Room

\* The expiry of a referral credit (expireReferralCredits) takes no other
\* credit of the customer's, whoever credits, expires and rolls back together,
\* as long as nothing was spent while a credit might yet be taken out.
THEOREM OwnMoneyIsKept == CreditSpec => []OwnMoneyKept
<1>1. CreditInit => IInv /\ RewardInv /\ BooksInv /\ KeptInv
  BY InitIInv, InitRewards, InitBooks, InitKept
<1>2. IInv /\ RewardInv /\ BooksInv /\ KeptInv /\ [CreditNext]_creditVars => (IInv /\ RewardInv /\ BooksInv /\ KeptInv)'
  BY StepIInv, StepRewards, StepBooks, StepKept
<1>3. IInv /\ RewardInv /\ BooksInv /\ KeptInv => OwnMoneyKept
  BY KeptIsKept
<1> QED BY <1>1, <1>2, <1>3, PTL DEF CreditSpec
=============================================================================
