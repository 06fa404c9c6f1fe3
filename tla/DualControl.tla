----------------------------- MODULE DualControl -----------------------------
(***************************************************************************)
(* Maker and checkers of one money action: the approval row of its         *)
(* execution reference (apps/auth/src/approval.service.ts) and the service *)
(* that runs the action (libs/core/src/approval-gate.ts).                  *)
(*                                                                         *)
(* approve, reject, cancel and completeExecution read the row, look at it, *)
(* change what they read and save it, with no lock and no version.  A save *)
(* is two statements: it reads the row again to see which columns differ,  *)
(* and updates these.  Only the claim of an execution and the expiry       *)
(* sweep are conditional updates.  No caller in the repository declares a  *)
(* failure safe to retry, so a failed execution ends as EXECUTED and the   *)
(* status FAILED, with its re-opening, is not reached.                     *)
(***************************************************************************)
EXTENDS Naturals, FiniteSets, FiniteSetsExt

CONSTANTS
  Signer,       \* the admins who make, check and execute
  SuperAdmin,  \* those among them with the role super_admin
  Tier,        \* the signatures required and whether a super admin's is: see TierType
  MaxRuns,     \* bound: how often the work is begun
  MaxApprovalFaults \* bound: processes that die, answers that are lost

TierType == [approvals : Nat \ {0}, requiresSuper : BOOLEAN]

ASSUME ApprovalAssumption ==
  /\ SuperAdmin \subseteq Signer /\ "nobody" \notin Signer
  /\ Tier \subseteq TierType /\ MaxRuns \in Nat /\ MaxApprovalFaults \in Nat

VARIABLES
  approval,  \* the row
  due,       \* expiresAt has passed
  handling,  \* the handler an admin's request is in, with the row it read
  executor,  \* executeDualControl of an admin's call, with the row its end read
  runs,      \* how often the work was done
  refused,   \* history: a reject, a cancel or an expiry was stored
  overwrote, \* history: a save undid a status stored since its read
  mixed,     \* history: a save left its columns beside another's
  approvalFaults \* how many faults have happened

approvalVars == <<approval, due, handling, executor, runs, refused, overwrote, mixed, approvalFaults>>

Decided == {"REJECTED", "CANCELLED", "EXPIRED"}
Status == {"none", "PENDING", "APPROVED", "EXECUTING", "EXECUTED"} \union Decided
Row == [status : Status, maker : Signer \union {"nobody"}, tier : Tier, signed : SUBSET Signer]
Handling == {"approve", "reject", "cancel", "expire"}
\* the columns these handlers change (decidedAt and decidedBy go with the status)
Column == {"status", "signed"}
\* what was read is a set: empty, or the row
NoHandler == [handler |-> "none", row |-> {}, columns |-> {}]
Stage(step) == [at |-> step, row |-> {}, columns |-> {}]

ApprovalTypeOK ==
  /\ approval \in Row
  /\ due \in BOOLEAN
  /\ handling \in [Signer -> [handler : Handling \union {"none"}, row : SUBSET Row, columns : SUBSET Column]]
  /\ executor \in [Signer -> [at : {"idle", "work", "complete", "fail", "save"},
                              row : SUBSET Row, columns : SUBSET Column]]
  /\ runs \in 0..MaxRuns
  /\ refused \in BOOLEAN /\ overwrote \in BOOLEAN /\ mixed \in BOOLEAN
  /\ approvalFaults \in 0..MaxApprovalFaults

ApprovalInit ==
  /\ \E t \in Tier : approval = [status |-> "none", maker |-> "nobody", tier |-> t, signed |-> {}]
  /\ due = FALSE
  /\ handling = [a \in Signer |-> NoHandler]
  /\ executor = [a \in Signer |-> Stage("idle")]
  /\ runs = 0
  /\ refused = FALSE /\ overwrote = FALSE /\ mixed = FALSE
  /\ approvalFaults = 0

ApprovalFails ==
  /\ approvalFaults < MaxApprovalFaults
  /\ approvalFaults' = approvalFaults + 1

\* submit: the unique executionRef leaves the first request, whatever its state
Submit(a) ==
  /\ approval.status = "none"
  /\ approval' = [approval EXCEPT !.status = "PENDING", !.maker = a]
  /\ UNCHANGED <<due, handling, executor, runs, refused, overwrote, mixed, approvalFaults>>

TimePasses ==
  /\ approval.status # "none" /\ ~due
  /\ due' = TRUE
  /\ UNCHANGED <<approval, handling, executor, runs, refused, overwrote, mixed, approvalFaults>>

\* expireStale, with every listing of the queue
ExpireStale ==
  /\ approval.status = "PENDING" /\ due
  /\ approval' = [approval EXCEPT !.status = "EXPIRED"]
  /\ refused' = TRUE
  /\ UNCHANGED <<due, handling, executor, runs, overwrote, mixed, approvalFaults>>

(***************************************************************************)
(* The handlers: read and check, then save.                                *)
(***************************************************************************)
\* save: the columns in which the entity differs from the stored row, and the
\* update of these columns alone
Differing(saved) == {c \in Column : saved[c] # approval[c]}
Written(saved, columns) ==
  [approval EXCEPT !.status = IF "status" \in columns THEN saved.status ELSE @,
                   !.signed = IF "signed" \in columns THEN saved.signed ELSE @]
\* the first statement of a save: where nothing differs there is no second
Compared(session, saved, ended) ==
  IF Differing(saved) = {} THEN ended ELSE [session EXCEPT !.columns = Differing(saved)]
\* the second
Write(read, saved, columns) ==
  /\ approval' = Written(saved, columns)
  /\ overwrote' = (overwrote \/ ("status" \in columns /\ approval.status # read.status))
  /\ mixed' = (mixed \/ Written(saved, columns) # saved)

HasSuper(S) == S \cap SuperAdmin # {}

\* Mutant: an admin may sign what he has submitted.
MayApproveOwn(a, row) ==
  /\ row.status = "PENDING"
  /\ a \notin row.signed
  /\ row.tier.requiresSuper /\ Cardinality(row.signed) + 1 >= row.tier.approvals
       => HasSuper(row.signed \union {a})
\* approve's refusals; the final signature needs a super admin among them all
MayApprove(a, row) ==
  /\ row.status = "PENDING" /\ row.maker # a
  /\ a \notin row.signed
  /\ row.tier.requiresSuper /\ Cardinality(row.signed) + 1 >= row.tier.approvals
       => HasSuper(row.signed \union {a})
MayReject(a, row) == row.status = "PENDING" /\ row.maker # a
MayCancel(a, row) == row.status = "PENDING" /\ row.maker = a

\* what a request with this handler does next, given the row it read; an
\* approval that is past its time is expired instead of signed
Chosen(a, h) ==
  CASE h = "approve" -> ~due /\ MayApprove(a, approval)
    [] h = "reject"  -> MayReject(a, approval)
    [] h = "cancel"  -> MayCancel(a, approval)
    [] h = "expire"  -> due /\ approval.status = "PENDING"

ReadApproval(a, h) ==
  /\ handling[a] = NoHandler /\ Chosen(a, h)
  /\ handling' = [handling EXCEPT ![a] = [handler |-> h, row |-> {approval}, columns |-> {}]]
  /\ UNCHANGED <<approval, due, executor, runs, refused, overwrote, mixed, approvalFaults>>

Signed(a, row) ==
  LET next == row.signed \union {a} IN
  [row EXCEPT !.signed = next,
              !.status = IF /\ Cardinality(next) >= row.tier.approvals
                            /\ row.tier.requiresSuper => HasSuper(next)
                         THEN "APPROVED" ELSE @]

ToSave(a, row) ==
  CASE handling[a].handler = "approve" -> Signed(a, row)
    [] handling[a].handler = "reject"  -> [row EXCEPT !.status = "REJECTED"]
    [] handling[a].handler = "cancel"  -> [row EXCEPT !.status = "CANCELLED"]
    [] handling[a].handler = "expire"  -> [row EXCEPT !.status = "EXPIRED"]

CompareApproval(a) ==
  /\ handling[a].columns = {}
  /\ \E row \in handling[a].row :
       handling' = [handling EXCEPT ![a] = Compared(@, ToSave(a, row), NoHandler)]
  /\ UNCHANGED <<approval, due, executor, runs, refused, overwrote, mixed, approvalFaults>>

SaveApproval(a) ==
  /\ handling[a].columns # {}
  /\ \E row \in handling[a].row :
       /\ Write(row, ToSave(a, row), handling[a].columns)
       /\ refused' = (refused \/ ("status" \in handling[a].columns /\ ToSave(a, row).status \in Decided))
  /\ handling' = [handling EXCEPT ![a] = NoHandler]
  /\ UNCHANGED <<due, executor, runs, approvalFaults>>

(***************************************************************************)
(* executeDualControl: claim, work, complete; an error on the way is       *)
(* recorded as a failure.                                                  *)
(***************************************************************************)
\* Mutant: the claim looks at the status it read and updates by id.
UnclaimedAsRead == approval.status \in {"APPROVED", "EXECUTING"}
\* the claim is UPDATE ... WHERE status = 'APPROVED'
Unclaimed == approval.status = "APPROVED"

BeginExecution(a) ==
  /\ executor[a].at = "idle" /\ Unclaimed
  /\ approval' = [approval EXCEPT !.status = "EXECUTING"]
  /\ executor' = [executor EXCEPT ![a] = Stage("work")]
  /\ UNCHANGED <<due, handling, runs, refused, overwrote, mixed, approvalFaults>>

Work(a) ==
  /\ executor[a].at = "work"
  /\ \/ runs < MaxRuns /\ executor' = [executor EXCEPT ![a] = Stage("complete")] /\ runs' = runs + 1
     \/ executor' = [executor EXCEPT ![a] = Stage("fail")] /\ UNCHANGED runs
  /\ UNCHANGED <<approval, due, handling, refused, overwrote, mixed, approvalFaults>>

\* the read of completeExecution and failExecution: a row that is not EXECUTING
\* answers an error, which the gate does not look at
ReadEnd(a) ==
  executor' = [executor EXCEPT ![a] =
    IF approval.status = "EXECUTING" THEN [at |-> "save", row |-> {approval}, columns |-> {}]
    ELSE Stage("idle")]

\* an answer that does not come makes the gate report a failure
CompleteExecution(a) ==
  /\ executor[a].at = "complete"
  /\ \/ ReadEnd(a) /\ UNCHANGED approvalFaults
     \/ ApprovalFails /\ executor' = [executor EXCEPT ![a] = Stage("fail")]
  /\ UNCHANGED <<approval, due, handling, runs, refused, overwrote, mixed>>

FailExecution(a) ==
  /\ executor[a].at = "fail"
  /\ ReadEnd(a)
  /\ UNCHANGED <<approval, due, handling, runs, refused, overwrote, mixed, approvalFaults>>

\* done, or failed and not safe to retry: EXECUTED either way
Executed(row) == [row EXCEPT !.status = "EXECUTED"]

CompareExecuted(a) ==
  /\ executor[a].at = "save" /\ executor[a].columns = {}
  /\ \E row \in executor[a].row :
       executor' = [executor EXCEPT ![a] = Compared(@, Executed(row), Stage("idle"))]
  /\ UNCHANGED <<approval, due, handling, runs, refused, overwrote, mixed, approvalFaults>>

SaveExecuted(a) ==
  /\ executor[a].at = "save" /\ executor[a].columns # {}
  /\ \E row \in executor[a].row : Write(row, Executed(row), executor[a].columns)
  /\ executor' = [executor EXCEPT ![a] = Stage("idle")]
  /\ UNCHANGED <<due, handling, runs, refused, approvalFaults>>

\* the process ends: the row stays as it is
ExecutorDies(a) ==
  /\ executor[a].at # "idle" /\ ApprovalFails
  /\ executor' = [executor EXCEPT ![a] = Stage("idle")]
  /\ UNCHANGED <<approval, due, handling, runs, refused, overwrote, mixed>>

ApprovalNext ==
  \/ TimePasses \/ ExpireStale
  \/ \E a \in Signer :
       \/ Submit(a)
       \/ \E h \in Handling : ReadApproval(a, h)
       \/ CompareApproval(a) \/ SaveApproval(a)
       \/ BeginExecution(a) \/ Work(a) \/ CompleteExecution(a) \/ FailExecution(a)
       \/ CompareExecuted(a) \/ SaveExecuted(a) \/ ExecutorDies(a)

ApprovalSpec == ApprovalInit /\ [][ApprovalNext]_approvalVars

(***************************************************************************)
(* Properties.                                                             *)
(***************************************************************************)
\* No admin's signature is ever on his own request, whatever saves did to each
\* other.  And a row that may be executed, or was, is signed by as many admins as
\* its tier asks for, a super admin among them where it asks for one, unless a
\* save's columns once landed beside another's: two checkers who sign at once can
\* leave APPROVED, which one of them reached, with the signature of the other alone.
SignedByOthers ==
  /\ approval.maker \notin approval.signed
  /\ approval.status \in {"APPROVED", "EXECUTING", "EXECUTED"} /\ ~mixed =>
       /\ Cardinality(approval.signed) >= approval.tier.approvals
       /\ approval.tier.requiresSuper => HasSuper(approval.signed)

\* The claim, the answer that is lost and the process that dies never let the
\* work run twice, two executors work at once, or refused work run: only the
\* status of a row read before the decision does, saved over it.
DecisionStands ==
  ~overwrote => /\ runs + Cardinality({a \in Signer : executor[a].at = "work"}) <= 1
                /\ refused => runs = 0 /\ approval.status \in Decided

\* "`work` executes exactly once per approval."
WorkRunsOnce == runs <= 1
=============================================================================
