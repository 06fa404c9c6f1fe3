------------------------------ MODULE Onboarding ------------------------------
(***************************************************************************)
(* One person's application to ride or to sell: the stages and the         *)
(* decisions of the admins (apps/onboarding/src/onboarding.service.ts),    *)
(* the documents sent to the identity provider                             *)
(* (smile-document-verification.service.ts, smile-id.service.ts), its      *)
(* callbacks (smile-verification-webhook.service.ts), and the store or the *)
(* rider an approval brings into being in another service's database       *)
(* (catalog.service.ts onboardVendor, dispatch.service.ts onboardRider).   *)
(*                                                                         *)
(* Every request reads the application's row, works on it, calls others,   *)
(* and saves the whole of it, without a lock or a version.  What a stage   *)
(* says is left out but for what an approval asks of it; a rider's row and *)
(* the identifier it gets are one step, since a row left without one is    *)
(* found and given it by the next approval.                                *)
(***************************************************************************)
EXTENDS Naturals, Sequences

CONSTANTS
  Request,      \* requests of the applicant and the admins that may be under way together
  Job,          \* verification jobs of the provider
  MaxRequests,  \* bound: how many requests there are
  MaxApplicationFaults \* bound: requests and callbacks that break off

ASSUME OnboardingAssumption == MaxRequests \in Nat /\ MaxApplicationFaults \in Nat

VARIABLES
  kind,      \* "RIDER" or "VENDOR"
  app,       \* the application's row
  request,   \* each request: what it is, the row it read, how far it is
  smileJob,  \* each job: not there, accepted by the provider, or with a row of ours
  smileResults, \* results the provider has for us, and sends until they are answered
  callback,  \* the handling of each result
  processed, \* results whose event is marked processed
  live,      \* the stores' or riders' rows of this person: their public identifiers
  issued,    \* how many identifiers were drawn
  requests,  \* how many requests there were
  applicationFaults, \* how many broke off
  vouched,   \* history: a verification or an admin said yes
  together,  \* history: two approvals were under way together
  revived,   \* history: a save from an old row brought back an approved one
  wiped,     \* history: a save put back the verification of before a result
  redrafted  \* history: a vendor saved the third stage, which waits for documents

serviceRows == <<kind, app, smileJob, smileResults, processed, live, issued>>
applicationVars == <<kind, app, request, smileJob, smileResults, callback, processed, live, issued,
                     requests, applicationFaults, vouched, together, revived, wiped, redrafted>>
notes == <<requests, applicationFaults, vouched, together, revived, wiped, redrafted>>

Outcome == {"clear", "block", "attention", "error"}
Result == Job \X Outcome
ApplicationStatus ==
  {"DRAFT", "IN_PROGRESS", "PENDING_REVIEW", "REQUIRES_ACTION", "APPROVED", "REJECTED"}
SmileStatus == {"NOT_STARTED", "PROCESSING", "QUEUED_FOR_MANUAL", "APPROVED", "FAILED"}
LastStage == IF kind = "RIDER" THEN 4 ELSE 5
NoRequest == [op |-> "none"]

OnboardingTypeOK ==
  /\ kind \in {"RIDER", "VENDOR"}
  /\ app.status \in ApplicationStatus /\ app.smile \in SmileStatus /\ app.stage \in 1..5
  /\ app.basics \in BOOLEAN /\ app.vehicle \in BOOLEAN /\ app.publicId \in 0..issued
  /\ \A j \in Job : smileJob[j] \in {"none", "accepted", "saved"}
  /\ smileResults \subseteq Result /\ processed \subseteq Result
  /\ \A e \in Result : callback[e].at \in {"none", "read", "saved"}
  /\ live \in Seq(1..issued)
  /\ requests \in 0..MaxRequests /\ applicationFaults \in 0..MaxApplicationFaults

\* a draft as getMyStatus makes it, or one whose stages are all saved, a rider's
\* for people to decide and a vendor's to send documents, or vouched for since
OnboardingInit ==
  /\ kind \in {"RIDER", "VENDOR"} /\ vouched \in BOOLEAN
  /\ \/ ~vouched /\ app = [status |-> "DRAFT", smile |-> "NOT_STARTED", stage |-> 1,
                           basics |-> FALSE, vehicle |-> FALSE, publicId |-> 0]
     \/ app = [status |-> "PENDING_REVIEW", stage |-> LastStage, basics |-> TRUE, publicId |-> 0,
               smile |-> IF vouched THEN "APPROVED"
                         ELSE IF kind = "RIDER" THEN "QUEUED_FOR_MANUAL" ELSE "PROCESSING",
               vehicle |-> kind = "RIDER"]
  /\ request = [r \in Request |-> NoRequest]
  /\ smileJob = [j \in Job |-> "none"]
  /\ smileResults = {} /\ processed = {} /\ live = <<>> /\ issued = 0
  /\ callback = [e \in Result |-> [at |-> "none"]]
  /\ requests = 0 /\ applicationFaults = 0
  /\ together = FALSE /\ revived = FALSE /\ wiped = FALSE /\ redrafted = FALSE

(***************************************************************************)
(* A request: read and check the row; then save it.                        *)
(***************************************************************************)
BeginRequest(r, what) ==
  /\ request[r] = NoRequest /\ requests < MaxRequests
  /\ request' = [request EXCEPT ![r] = what]
  /\ requests' = requests + 1
  /\ UNCHANGED <<serviceRows, callback, applicationFaults, vouched, revived, wiped, redrafted>>

\* repository.save: the row becomes what the request holds
SaveRow(read, row, outrun) ==
  /\ app' = row
  /\ revived' = (revived \/ (app # read /\ read.status = "APPROVED" /\ row.status = "APPROVED"))
  /\ wiped' = (wiped \/ outrun \/ app.smile # read.smile)

EndRequest(r) ==
  /\ request' = [request EXCEPT ![r] = NoRequest]
  /\ UNCHANGED <<kind, callback, requests, applicationFaults, together>>

\* saveRiderStage, saveVendorStage: no stage before the one it has reached
ReadForStage(r, s, says) ==
  /\ s \in 1..LastStage
  /\ s <= app.stage \/ app.status = "REQUIRES_ACTION"
  /\ BeginRequest(r, [op |-> "stage", stage |-> s, says |-> says, row |-> app, at |-> "read"]) /\ UNCHANGED together

\* verifyBiometricIdentity, of a rider's second stage: not live, or out of reach, is
\* for people to decide; a failure or a known face refuses the request
SyncResults == {"APPROVED", "QUEUED_FOR_MANUAL"}

AtLeast(a, b) == IF a >= b THEN a ELSE b
StageSaved(row, s, says) ==
  LET on == [row EXCEPT !.stage = IF s < LastStage THEN AtLeast(@, s + 1) ELSE @] IN
  CASE s = 1 -> [on EXCEPT !.status = "IN_PROGRESS", !.basics = TRUE]
    [] s = 2 /\ kind = "RIDER"  -> [on EXCEPT !.smile = says]
    [] s = 3 /\ kind = "VENDOR" -> [on EXCEPT !.smile = "PROCESSING"]
    [] s = LastStage -> [on EXCEPT !.status = "PENDING_REVIEW", !.vehicle = @ \/ kind = "RIDER"]
    [] OTHER -> on

SaveStage(r) ==
  /\ request[r].op = "stage"
  /\ LET q == request[r] IN
       /\ SaveRow(q.row, StageSaved(q.row, q.stage, q.says), FALSE)
       /\ vouched' = (vouched \/ q.says = "APPROVED")
       /\ redrafted' = (redrafted \/ (kind = "VENDOR" /\ q.stage = 3))
  /\ EndRequest(r) /\ UNCHANGED <<smileJob, smileResults, processed, live, issued>>

\* the decisions of an admin but approval
Allows(row, op) == op \in {"approved", "failed"} => row.status \notin {"APPROVED", "REJECTED"}
ReadForDecision(r, op) ==
  /\ op \in {"reject", "requiresAction", "approved", "failed"} /\ Allows(app, op)
  /\ \E s \in IF op = "requiresAction" THEN {1, LastStage} ELSE {1} :
       BeginRequest(r, [op |-> op, stage |-> s, row |-> app, at |-> "read"]) /\ UNCHANGED together

\* reject, requiresAction, and manualSmileDecision's two answers
DecisionSaved(row, op, s) ==
  CASE op = "reject" -> [row EXCEPT !.status = "REJECTED"]
    [] op = "requiresAction" -> [row EXCEPT !.status = "REQUIRES_ACTION", !.stage = s]
    [] op = "approved" -> [row EXCEPT !.smile = "APPROVED"]
    [] op = "failed" -> [row EXCEPT !.smile = "FAILED"]

SaveDecision(r) ==
  /\ request[r].op \in {"reject", "requiresAction", "approved", "failed"}
  /\ LET q == request[r] IN
       /\ SaveRow(q.row, DecisionSaved(q.row, q.op, q.stage), FALSE)
       /\ vouched' = (vouched \/ q.op = "approved")
  /\ EndRequest(r) /\ UNCHANGED <<smileJob, smileResults, processed, live, issued, redrafted>>

(***************************************************************************)
(* submitDocumentVerification: at any stage, the provider first.           *)
(***************************************************************************)
Moves(r, at) == request' = [request EXCEPT ![r].at = at]

ReadForSubmission(r, j) ==
  /\ smileJob[j] = "none" /\ \A q \in Request : request[q].op = "submit" => request[q].job # j
  /\ BeginRequest(r, [op |-> "submit", job |-> j, row |-> app, at |-> "read"]) /\ UNCHANGED together

\* the provider accepts the documents, and has a job
Accepted(r) ==
  /\ request[r].op = "submit" /\ request[r].at = "read"
  /\ smileJob' = [smileJob EXCEPT ![request[r].job] = "accepted"] /\ Moves(r, "accepted")
  /\ UNCHANGED <<kind, app, smileResults, processed, live, issued, callback, notes>>

SaveJob(r) ==
  /\ request[r].op = "submit" /\ request[r].at = "accepted"
  /\ smileJob' = [smileJob EXCEPT ![request[r].job] = "saved"] /\ Moves(r, "saved")
  /\ UNCHANGED <<kind, app, smileResults, processed, live, issued, callback, notes>>

\* the row as it was read before the provider was asked
Submitted(row) ==
  [row EXCEPT !.stage = LastStage, !.status = "PENDING_REVIEW", !.smile = "PROCESSING",
     !.basics = @ \/ kind = "RIDER", !.vehicle = @ \/ kind = "RIDER"]
SaveSubmission(r) ==
  /\ request[r].op = "submit" /\ request[r].at = "saved"
  /\ LET q == request[r]
         outrun == \E e \in smileResults :
                     e[1] = q.job /\ (e \in processed \/ callback[e].at = "saved")
     IN SaveRow(q.row, Submitted(q.row), outrun)
  /\ EndRequest(r) /\ UNCHANGED <<smileJob, smileResults, processed, live, issued, vouched, redrafted>>

(***************************************************************************)
(* The provider's results: handleWebhook.                                  *)
(***************************************************************************)
\* a result for a job; after "attention" the provider's people decide
Concludes(j, o) ==
  /\ smileJob[j] # "none" /\ <<j, o>> \notin smileResults
  /\ \A e \in smileResults : e[1] = j => e[2] = "attention" /\ o \in {"clear", "block"}
  /\ smileResults' = smileResults \union {<<j, o>>}
  /\ UNCHANGED <<kind, app, request, smileJob, callback, processed, live, issued, notes>>

\* Mutant: the event is marked when it is recorded.
MarkedFirst(e) == processed \union {e}
MarkedOnArrival(e) == processed
\* a job without a row is refused, a processed event answered as a duplicate; else
\* the event is recorded and the application read
ReadForCallback(e) ==
  /\ e \in smileResults \ processed /\ callback[e].at = "none" /\ smileJob[e[1]] = "saved"
  /\ callback' = [callback EXCEPT ![e] = [at |-> "read", row |-> app]]
  /\ processed' = MarkedOnArrival(e)
  /\ UNCHANGED <<kind, app, request, smileJob, smileResults, live, issued, notes>>

\* mapSmileStatus, and the application's status
ResultSaved(row, o) ==
  CASE o = "clear" -> [row EXCEPT !.smile = "APPROVED"]
    [] o = "block" -> [row EXCEPT !.smile = "FAILED", !.status = "REQUIRES_ACTION"]
    [] o = "attention" -> [row EXCEPT !.smile = "QUEUED_FOR_MANUAL"]
    [] o = "error" -> [row EXCEPT !.smile = "PROCESSING", !.status = "IN_PROGRESS"]

SaveCallback(e) ==
  /\ callback[e].at = "read"
  /\ SaveRow(callback[e].row, ResultSaved(callback[e].row, e[2]), FALSE)
  /\ callback' = [callback EXCEPT ![e] = [at |-> "saved"]]
  /\ vouched' = (vouched \/ e[2] = "clear")
  /\ UNCHANGED <<kind, request, smileJob, smileResults, processed, live, issued, requests,
                 applicationFaults, together, redrafted>>

MarkProcessed(e) ==
  /\ callback[e].at = "saved"
  /\ processed' = processed \union {e}
  /\ callback' = [callback EXCEPT ![e] = [at |-> "none"]]
  /\ UNCHANGED <<kind, app, request, smileJob, smileResults, live, issued, notes>>

(***************************************************************************)
(* approve: the other service first, the application last.                 *)
(***************************************************************************)
Verified(row) == row.smile = "APPROVED"
\* refused before anything is called for a rider whose stages do not name him and his
\* vehicle; a vendor without a type is refused by the catalog, and an identifier lost
ReadForApproval(r) ==
  /\ app.status # "APPROVED" /\ Verified(app)
  /\ app.basics /\ (kind = "RIDER" => app.vehicle)
  /\ BeginRequest(r, [op |-> "approve", found |-> 0, id |-> 0, row |-> app, at |-> "read"])
  /\ together' = (together \/ \E q \in Request : request[q].op = "approve")

\* nextId, for a vendor; then the other service looks for a row of this person
FindLive(r) ==
  /\ request[r].op = "approve" /\ request[r].at = "read"
  /\ issued' = IF kind = "VENDOR" THEN issued + 1 ELSE issued
  /\ \E i \in IF live = <<>> THEN {0} ELSE DOMAIN live :
       request' = [request EXCEPT ![r].at = "found", ![r].found = i, ![r].id = issued']
  /\ UNCHANGED <<kind, app, smileJob, smileResults, processed, live, callback, notes>>

\* Mutant: a store that is there keeps the identifier it has.
KeepsId(i) == i > 0
\* a rider keeps the identifier it has (ensureRiderIdentifier), a store takes the new one
HasId(i) == i > 0 /\ kind = "RIDER"

SaveLive(r) ==
  /\ request[r].op = "approve" /\ request[r].at = "found"
  /\ LET i  == request[r].found
         id == IF kind = "VENDOR" THEN request[r].id ELSE IF HasId(i) THEN live[i] ELSE issued + 1 IN
       /\ live' = IF i = 0 THEN Append(live, id) ELSE IF HasId(i) THEN live ELSE [live EXCEPT ![i] = id]
       /\ issued' = AtLeast(issued, id)
       /\ request' = [request EXCEPT ![r].at = "live", ![r].id = id]
  /\ UNCHANGED <<kind, app, smileJob, smileResults, processed, callback, notes>>

SaveApplicationApproved(r) ==
  /\ request[r].op = "approve" /\ request[r].at = "live"
  /\ LET q == request[r] IN
       SaveRow(q.row, [q.row EXCEPT !.status = "APPROVED", !.publicId = q.id], FALSE)
  /\ EndRequest(r) /\ UNCHANGED <<smileJob, smileResults, processed, live, issued, vouched, redrafted>>

(***************************************************************************)
(* What breaks off: a call fails, its answer is lost, the process ends.    *)
(***************************************************************************)
BreakOff ==
  /\ applicationFaults < MaxApplicationFaults
  /\ applicationFaults' = applicationFaults + 1
  /\ UNCHANGED <<serviceRows, requests, vouched, together, revived, wiped, redrafted>>
\* the request ends here with the work it has asked for: an approval whose caller was
\* given no answer in time breaks off when the call that goes on has done its part
RequestBreaks(r) ==
  /\ request[r].op \in {"submit", "approve"} /\ BreakOff
  /\ request' = [request EXCEPT ![r] = NoRequest] /\ UNCHANGED callback
CallbackBreaks(e) ==
  /\ callback[e].at # "none" /\ BreakOff
  /\ callback' = [callback EXCEPT ![e] = [at |-> "none"]] /\ UNCHANGED request

Handles(e) == ReadForCallback(e) \/ SaveCallback(e) \/ MarkProcessed(e)

OnboardingNext ==
  \/ \E r \in Request :
       \/ \E s \in 1..5, says \in SyncResults \union {"-"} :
            (says # "-" <=> kind = "RIDER" /\ s = 2) /\ ReadForStage(r, s, says)
       \/ \E op \in {"reject", "requiresAction", "approved", "failed"} : ReadForDecision(r, op)
       \/ SaveStage(r) \/ SaveDecision(r)
       \/ \E j \in Job : ReadForSubmission(r, j)
       \/ Accepted(r) \/ SaveJob(r) \/ SaveSubmission(r)
       \/ ReadForApproval(r) \/ FindLive(r) \/ SaveLive(r) \/ SaveApplicationApproved(r)
       \/ RequestBreaks(r)
  \/ \E j \in Job, o \in Outcome : Concludes(j, o)
  \/ \E e \in Result : Handles(e) \/ CallbackBreaks(e)

OnboardingSpec == OnboardingInit /\ [][OnboardingNext]_applicationVars

(***************************************************************************)
(* Properties.                                                             *)
(***************************************************************************)
\* Nobody goes live whom neither the provider nor an admin has vouched for, and an
\* approved application stands for exactly one store or rider, which carries the
\* identifier the applicant was told, however often an approval broke off half-way
\* and was repeated; unless approvals ran together, which one that was given up does
\* while its call is at work, or an old approved row came back.
LiveAsApproved ==
  /\ live # <<>> => vouched
  /\ app.status = "APPROVED" /\ ~together /\ ~revived => live = <<app.publicId>>

\* "The final provider callback is authoritative": when all is quiet, an application
\* still waits for the verification only if a job has no conclusive result yet; a
\* callback that breaks off comes again, and is no duplicate before the application
\* has its result (handleWebhook); unless a save from an old row put the waiting
\* back, as the submission's own does when the result is faster than it, or a vendor
\* went back to the third stage.
VerdictIsTaken ==
  /\ \A r \in Request : request[r] = NoRequest
  /\ \A e \in Result : callback[e].at = "none"
  /\ ~wiped /\ ~redrafted /\ app.smile = "PROCESSING"
  => \A j \in Job : smileJob[j] = "saved" =>
       \E i \in Job : smileJob[i] # "none" /\ \A e \in processed : e[1] = i => e[2] = "error"

=============================================================================
