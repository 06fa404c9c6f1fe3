---------------------------- MODULE FrontDeskProofs ----------------------------
(***************************************************************************)
(* Proofs about SupportThread and Onboarding, for every set of admins, of  *)
(* messages, requests and jobs and every bound.  Both components save the  *)
(* whole of a row that was read before, so each invariant says what the    *)
(* rows in a request's hands carry, and what the row that is stored owes   *)
(* them as long as no save undid another.                                  *)
(***************************************************************************)
EXTENDS SupportThread, Onboarding, SequenceTheorems, TLAPS

-----------------------------------------------------------------------------
(* The support thread *)

\* what is in flight; SupportTypeOK says less of it
PostingState == [at : {"unsent", "over"}] \union [at : {"read"}, row : Thread]
RunState ==
  [at : {"none", "over"}] \union [at : {"thinking"}, turn : Nat, row : Thread]
    \union [at : {"answer", "escalate"}, row : Thread]
DeskState ==
  {NoDecision} \union [op : Decision, by : Staff, about : Staff, row : Thread]

ThreadTyped ==
  /\ enabled \in BOOLEAN
  /\ thread \in Thread
  /\ posting \in [Post -> PostingState]
  /\ run \in [Post -> RunState]
  /\ desk \in [Desk -> DeskState]
  /\ returned \in BOOLEAN /\ undone \in BOOLEAN

\* a request of the console was within its rights, of the row it read
Entitled(q) ==
  /\ q.op = "claim" => q.about = q.by /\ (q.by \in Super \/ q.row.owner \in {"nobody", q.by})
  /\ q.op = "reassign" => q.by \in Super
  /\ q.op \in {"resolve", "close"} => q.by \in Super \/ q.row.owner \in {"nobody", q.by}

DeskInv == \A d \in Desk : desk[d] # NoDecision => Entitled(desk[d])

\* a message whose request is over is answered, will be escalated, or the
\* assistant has the thread no longer
Heard(m) ==
  posting[m].at = "over" =>
    \/ m \in said \union supportFaults.broke
    \/ run[m].at \in {"thinking", "escalate"}
    \/ thread.status # "AI_HANDLING"

HeardInv ==
  /\ \A m \in Post : run[m].at = "answer" => m \in said
  /\ enabled /\ ~undone /\ ~returned => \A m \in Post : Heard(m)

SupportInv == ThreadTyped /\ DeskInv /\ HeardInv


\* What a row becomes is a row, and keeps its owner but where a person takes it.
LEMMA RowsDecided ==
  ASSUME NEW q \in DeskState, q # NoDecision
  PROVE  /\ ThreadDecided(q.op, q.by, q.about, q.row) \in Thread \/ q.op = "remove"
         /\ q.op \in Decision /\ q.op # "none" /\ q.row \in Thread /\ q.by \in Staff /\ q.about \in Staff
<1>1. /\ q.op \in Decision /\ q.row \in Thread /\ q.by \in Staff /\ q.about \in Staff
  BY DEF DeskState
<1>2. q.op # "none"
  BY <1>1 DEF Decision
<1>3. ThreadDecided(q.op, q.by, q.about, q.row) \in Thread \/ q.op = "remove"
  <2>1. CASE q.op = "invite"
    <3>1. TeamOf(q.about) \in SUBSET Team
      BY DEF TeamOf, Team
    <3>2. ThreadDecided(q.op, q.by, q.about, q.row) = [q.row EXCEPT !.flagged = @ \union TeamOf(q.about)]
      BY <2>1 DEF ThreadDecided
    <3> QED BY <1>1, <3>1, <3>2 DEF Thread
  <2>2. CASE q.op # "invite"
    BY <1>1, <2>2 DEF ThreadDecided, Thread, ThreadStatus, Ended, Decision
  <2> QED BY <2>1, <2>2
<1> QED BY <1>1, <1>2, <1>3

LEMMA EscalatedIsRow ==
  ASSUME NEW row \in Thread
  PROVE  /\ Escalated(row) \in Thread /\ Escalated(row).owner = row.owner
         /\ Escalated(row).status \in {"QUEUED_FOR_HUMAN", "HUMAN_ACTIVE"}
BY DEF Escalated, Thread, ThreadStatus

LEMMA ThreadTypedInit == SupportInit => ThreadTyped
<1> SUFFICES ASSUME SupportInit PROVE ThreadTyped
  OBVIOUS
<1>1. thread \in Thread
  BY DEF SupportInit, Thread, ThreadStatus
<1>2. posting \in [Post -> PostingState]
  <2>1. [at |-> "unsent"] \in PostingState
    BY DEF PostingState
  <2> QED BY <2>1 DEF SupportInit
<1>3. run \in [Post -> RunState]
  <2>1. NoRun \in RunState
    BY DEF NoRun, RunState
  <2> QED BY <2>1 DEF SupportInit
<1>4. desk \in [Desk -> DeskState]
  BY DEF SupportInit, DeskState
<1> QED BY <1>1, <1>2, <1>3, <1>4 DEF SupportInit, ThreadTyped

LEMMA ThreadTypedStep ==
  ASSUME ThreadTyped, [SupportNext]_supportVars
  PROVE  ThreadTyped'
<1> USE DEF ThreadTyped
<1>1. ASSUME NEW m \in Post, ReadForPost(m)
      PROVE  ThreadTyped'
  BY <1>1 DEF ReadForPost, PostingState
<1>2. ASSUME NEW m \in Post, SavePost(m)
      PROVE  ThreadTyped'
  <2>1. posting[m].row \in Thread
    BY <1>2 DEF SavePost, PostingState
  <2>2. run' \in [Post -> RunState]
    BY <1>2, <2>1 DEF SavePost, RunState
  <2>3. posting' \in [Post -> PostingState]
    BY <1>2 DEF SavePost, PostingState
  <2> QED BY <1>2, <2>1, <2>2, <2>3 DEF SavePost, SaveOver
<1>3. ASSUME NEW m \in Post, PostFails(m)
      PROVE  ThreadTyped'
  BY <1>3 DEF PostFails, PostingState
<1>4. ASSUME NEW m \in Post, ToolTurn(m)
      PROVE  ThreadTyped'
  BY <1>4 DEF ToolTurn, RunState
<1>5. ASSUME NEW m \in Post, Answer(m)
      PROVE  ThreadTyped'
  BY <1>5 DEF Answer, RunState
<1>6. ASSUME NEW m \in Post, Escalate(m)
      PROVE  ThreadTyped'
  BY <1>6 DEF Escalate, RunState
<1>7. ASSUME NEW m \in Post, SaveRun(m)
      PROVE  ThreadTyped'
  <2>1. run[m].row \in Thread
    BY <1>7 DEF SaveRun, RunState
  <2>2. run' \in [Post -> RunState]
    BY <1>7 DEF SaveRun, RunState
  <2> QED BY <1>7, <2>1, <2>2, EscalatedIsRow DEF SaveRun, SaveOver
<1>8. ASSUME NEW m \in Post, RunBreaks(m)
      PROVE  ThreadTyped'
  BY <1>8 DEF RunBreaks, RunState
<1>9. ASSUME NEW d \in Desk, NEW u \in Staff, NEW x \in Staff, NEW op \in Decision, ReadForDesk(d, u, op, x)
      PROVE  ThreadTyped'
  BY <1>9 DEF ReadForDesk, DeskState
<1>10. ASSUME NEW d \in Desk, SaveForDesk(d)
       PROVE  ThreadTyped'
  <2>1. desk[d] # NoDecision
    BY <1>10 DEF SaveForDesk, NoDecision
  <2>2. desk' \in [Desk -> DeskState]
    BY <1>10 DEF SaveForDesk, DeskState
  <2>3. thread' \in Thread /\ undone' \in BOOLEAN
    BY <1>10, <2>1, RowsDecided DEF SaveForDesk, SaveOver
  <2> QED BY <1>10, <2>2, <2>3 DEF SaveForDesk
<1>11. CASE UNCHANGED supportVars
  BY <1>11 DEF supportVars
<1> QED BY <1>1, <1>2, <1>3, <1>4, <1>5, <1>6, <1>7, <1>8, <1>9, <1>10, <1>11 DEF SupportNext, RunStep

\* A request that is taken up is within its rights, and keeps the row it read.
LEMMA DeskInvStep ==
  ASSUME ThreadTyped, DeskInv, [SupportNext]_supportVars
  PROVE  DeskInv'
<1>1. CASE UNCHANGED desk
  BY <1>1 DEF DeskInv
<1>2. ASSUME NEW d \in Desk, NEW u \in Staff, NEW x \in Staff, NEW op \in Decision, ReadForDesk(d, u, op, x)
      PROVE  DeskInv'
  <2> DEFINE q == [op |-> op, by |-> u, about |-> x, row |-> thread]
  <2>1. Allowed(u, op, x) /\ desk' = [desk EXCEPT ![d] = q]
    BY <1>2 DEF ReadForDesk
  <2>2. Entitled(q)
    <3>1. CASE op = "claim"
      BY <2>1, <3>1 DEF Allowed, MayClaim, Entitled
    <3>2. CASE op = "reassign"
      BY <2>1, <3>2 DEF Allowed, Entitled
    <3>3. CASE op \in {"resolve", "close"}
      BY <2>1, <3>3 DEF Allowed, MayEnd, Entitled
    <3> QED BY <3>1, <3>2, <3>3 DEF Entitled
  <2> QED BY <2>1, <2>2 DEF DeskInv, ThreadTyped
<1>3. ASSUME NEW d \in Desk, SaveForDesk(d)
      PROVE  DeskInv'
  BY <1>3 DEF SaveForDesk, DeskInv, ThreadTyped
<1> QED
  BY <1>1, <1>2, <1>3 DEF SupportNext, supportVars, RunStep, ReadForPost, SavePost, PostFails, ToolTurn,
    Answer, Escalate, SaveRun, RunBreaks

\* A save that undoes nothing gives the assistant no thread back that it had lost.
LEMMA StillHeard ==
  ASSUME NEW m \in Post, Heard(m),
         posting'[m] = posting[m], run'[m] = run[m] \/ run'[m].at \in {"thinking", "escalate"},
         said \subseteq said', supportFaults.broke \subseteq supportFaults'.broke,
         thread.status # "AI_HANDLING" => thread'.status # "AI_HANDLING"
  PROVE  Heard(m)'
BY DEF Heard

\* What a message's request and the assistant's run leave for the other messages.
LEMMA OthersHeard ==
  ASSUME HeardInv, NEW m \in Post, Heard(m)',
         \A n \in Post \ {m} : posting'[n] = posting[n] /\ run'[n] = run[n],
         said \subseteq said', supportFaults.broke \subseteq supportFaults'.broke,
         enabled, ~undone, ~returned, thread.status # "AI_HANDLING" => thread'.status # "AI_HANDLING"
  PROVE  \A n \in Post : Heard(n)'
<1> SUFFICES ASSUME NEW n \in Post, n # m PROVE Heard(n)'
  OBVIOUS
<1>1. Heard(n)
  BY DEF HeardInv
<1> QED BY <1>1, StillHeard

LEMMA HeardInvStep ==
  ASSUME ThreadTyped, HeardInv, [SupportNext]_supportVars
  PROVE  HeardInv'
<1> USE DEF ThreadTyped
<1>1. ASSUME NEW m \in Post, ReadForPost(m)
      PROVE  HeardInv'
  <2>1. posting'[m].at = "read" /\ \A n \in Post \ {m} : posting'[n] = posting[n]
    BY <1>1 DEF ReadForPost
  <2>2. Heard(m)'
    BY <2>1 DEF Heard
  <2>3. enabled' /\ ~undone' /\ ~returned' => \A n \in Post : Heard(n)'
    BY <1>1, <2>1, <2>2, OthersHeard DEF ReadForPost
  <2> QED BY <1>1, <2>3 DEF HeardInv, ReadForPost
<1>2. ASSUME NEW m \in Post, SavePost(m)
      PROVE  HeardInv'
  <2> DEFINE row == posting[m].row
  <2>1. /\ ShouldRespond(row) => run'[m].at = "thinking"
        /\ ~ShouldRespond(row) => run'[m] = run[m]
        /\ \A n \in Post \ {m} : posting'[n] = posting[n] /\ run'[n] = run[n]
        /\ thread' = row /\ (~undone' => ~undone /\ thread = row)
    BY <1>2 DEF SavePost, SaveOver
  <2>2. enabled => Heard(m)'
    BY <2>1 DEF Heard, ShouldRespond
  <2>3. enabled' /\ ~undone' /\ ~returned' => \A n \in Post : Heard(n)'
    BY <1>2, <2>1, <2>2, OthersHeard DEF SavePost
  <2>4. \A n \in Post : run'[n].at = "answer" => n \in said'
    BY <1>2, <2>1 DEF HeardInv, SavePost
  <2> QED BY <2>3, <2>4 DEF HeardInv
<1>3. ASSUME NEW m \in Post, PostFails(m)
      PROVE  HeardInv'
  <2>1. m \in supportFaults'.broke /\ supportFaults.broke \subseteq supportFaults'.broke
    BY <1>3 DEF PostFails, SupportFault
  <2>2. Heard(m)'
    BY <2>1 DEF Heard
  <2>3. enabled' /\ ~undone' /\ ~returned' => \A n \in Post : Heard(n)'
    BY <1>3, <2>1, <2>2, OthersHeard DEF PostFails
  <2> QED BY <1>3, <2>3 DEF HeardInv, PostFails
<1>4. ASSUME NEW m \in Post, ToolTurn(m) \/ Escalate(m)
      PROVE  HeardInv'
  <2>1. /\ run'[m].at \in {"thinking", "escalate"}
        /\ \A n \in Post \ {m} : run'[n] = run[n]
    BY <1>4 DEF ToolTurn, Escalate, RunState
  <2>2. UNCHANGED <<enabled, thread, posting, said, returned, undone, supportFaults>>
    BY <1>4 DEF ToolTurn, Escalate
  <2>3. Heard(m)'
    BY <2>1 DEF Heard
  <2>4. enabled' /\ ~undone' /\ ~returned' => \A n \in Post : Heard(n)'
    BY <2>1, <2>2, <2>3, OthersHeard
  <2> QED BY <2>1, <2>2, <2>4 DEF HeardInv
<1>5. ASSUME NEW m \in Post, Answer(m)
      PROVE  HeardInv'
  <2>1. m \in said' /\ said \subseteq said' /\ \A n \in Post \ {m} : run'[n] = run[n]
    BY <1>5 DEF Answer
  <2>2. Heard(m)'
    BY <2>1 DEF Heard
  <2>3. enabled' /\ ~undone' /\ ~returned' => \A n \in Post : Heard(n)'
    BY <1>5, <2>1, <2>2, OthersHeard DEF Answer
  <2> QED BY <1>5, <2>1, <2>3 DEF HeardInv, Answer
<1>6. ASSUME NEW m \in Post, SaveRun(m)
      PROVE  HeardInv'
  <2> DEFINE row == run[m].row
  <2>1. row \in Thread
    BY <1>6 DEF SaveRun, RunState
  <2>2. /\ run'[m].at = "over" /\ \A n \in Post \ {m} : run'[n] = run[n]
        /\ thread' \in {row, Escalated(row)}
        /\ run[m].at = "escalate" => thread' = Escalated(row)
        /\ ~undone' => ~undone /\ thread = row
        /\ run[m].at \in {"answer", "escalate"}
    BY <1>6 DEF SaveRun, SaveOver
  <2>3. Heard(m)'
    BY <1>6, <2>1, <2>2, EscalatedIsRow DEF Heard, HeardInv, SaveRun
  <2>4. enabled' /\ ~undone' /\ ~returned' => \A n \in Post : Heard(n)'
    BY <1>6, <2>1, <2>2, <2>3, EscalatedIsRow, OthersHeard DEF SaveRun
  <2> QED BY <1>6, <2>2, <2>4 DEF HeardInv, SaveRun
<1>7. ASSUME NEW m \in Post, RunBreaks(m)
      PROVE  HeardInv'
  <2>1. /\ m \in supportFaults'.broke /\ supportFaults.broke \subseteq supportFaults'.broke
        /\ run'[m].at = "over" /\ \A n \in Post \ {m} : run'[n] = run[n]
    BY <1>7 DEF RunBreaks, SupportFault
  <2>2. Heard(m)'
    BY <2>1 DEF Heard
  <2>3. enabled' /\ ~undone' /\ ~returned' => \A n \in Post : Heard(n)'
    BY <1>7, <2>1, <2>2, OthersHeard DEF RunBreaks
  <2> QED BY <1>7, <2>1, <2>3 DEF HeardInv, RunBreaks
<1>8. ASSUME NEW d \in Desk, NEW u \in Staff, NEW x \in Staff, NEW op \in Decision, ReadForDesk(d, u, op, x)
      PROVE  HeardInv'
  BY <1>8 DEF ReadForDesk, HeardInv, Heard
<1>9. ASSUME NEW d \in Desk, SaveForDesk(d)
      PROVE  HeardInv'
  <2> DEFINE q == desk[d]
  <2>1. q \in DeskState /\ q # NoDecision
    BY <1>9 DEF SaveForDesk, NoDecision
  <2>2. UNCHANGED <<enabled, posting, run, said, supportFaults>>
    BY <1>9 DEF SaveForDesk
  <2>3. ASSUME enabled', ~undone', ~returned'
        PROVE  ~undone /\ ~returned /\ (thread.status # "AI_HANDLING" => thread'.status # "AI_HANDLING")
    <3>1. ~returned /\ q.op # "returnToAi"
      BY <1>9, <2>3 DEF SaveForDesk
    <3>2. CASE q.op = "remove"
      BY <1>9, <2>3, <3>1, <3>2 DEF SaveForDesk
    <3>3. CASE q.op # "remove"
      <4>1. ~undone /\ q.row = thread /\ thread' = ThreadDecided(q.op, q.by, q.about, thread)
        BY <1>9, <2>3, <3>3 DEF SaveForDesk, SaveOver
      <4>2. q.op \in Decision
        BY <2>1, RowsDecided
      <4> QED BY <3>1, <3>3, <4>1, <4>2 DEF ThreadDecided, Thread, ThreadStatus, Ended, Decision
    <3> QED BY <3>2, <3>3
  <2>4. enabled' /\ ~undone' /\ ~returned' => \A m \in Post : Heard(m)'
    BY <2>2, <2>3, StillHeard DEF HeardInv
  <2> QED BY <2>2, <2>4 DEF HeardInv
<1>10. CASE UNCHANGED supportVars
  BY <1>10 DEF supportVars, HeardInv, Heard
<1> QED BY <1>1, <1>2, <1>3, <1>4, <1>5, <1>6, <1>7, <1>8, <1>9, <1>10 DEF SupportNext, RunStep

LEMMA SupportInvAlways == SupportSpec => []SupportInv
<1>1. SupportInit => SupportInv
  <2>1. SupportInit => DeskInv /\ HeardInv
    BY DEF SupportInit, DeskInv, HeardInv, Heard, NoRun
  <2> QED BY <2>1, ThreadTypedInit DEF SupportInv
<1>2. SupportInv /\ [SupportNext]_supportVars => SupportInv'
  BY ThreadTypedStep, DeskInvStep, HeardInvStep DEF SupportInv
<1> QED BY <1>1, <1>2, PTL DEF SupportSpec

\* Whatever the customer sends, the assistant does and any number of admins decide at
\* the same time, a message whose request is over was answered or its thread waits for
\* a person, when all is quiet (comms.service.ts postMessage, support-ai.service.ts
\* respond): with the exceptions that CustomerIsHeard names.
THEOREM CustomerHeard == SupportSpec => []CustomerIsHeard
<1>1. SupportInv => CustomerIsHeard
  <2> SUFFICES ASSUME HeardInv, enabled, \A m \in Post : posting[m].at # "read" /\ run[m].at \in {"none", "over"},
                      ~undone, ~returned, thread.status = "AI_HANDLING",
                      NEW m \in Post, posting[m].at = "over"
               PROVE  m \in said \union supportFaults.broke
    BY DEF SupportInv, CustomerIsHeard
  <2>1. Heard(m) /\ run[m].at \in {"none", "over"}
    BY DEF HeardInv
  <2> QED BY <2>1 DEF Heard
<1> QED BY <1>1, SupportInvAlways, PTL

\* A thread's owner keeps it to the end but for a super admin, and only he or one of
\* those ends it: no request of the console, of the customer's or of the assistant's
\* takes it from him or closes it behind his back, unless a save from an old row did
\* (support-admin.service.ts claim, reassign, resolve, close, assertOwnerOrSuper).
THEOREM OwnerKeepsThread == SupportSpec => OwnedToResolution
<1> DEFINE Keeps ==
      thread.owner # "nobody" /\ ~undone' =>
        /\ thread'.owner # thread.owner => EndedBy(Super)
        /\ thread'.status \in Ended \ {thread.status} => EndedBy(Super \union {thread.owner})
<1>1. SupportInv /\ [SupportNext]_supportVars => [Keeps]_supportVars
  <2> SUFFICES ASSUME ThreadTyped, DeskInv, SupportNext, thread.owner # "nobody", ~undone'
               PROVE  Keeps
    BY DEF SupportInv
  <2>1. CASE UNCHANGED thread
    BY <2>1
  <2>2. ASSUME NEW m \in Post, SavePost(m)
        PROVE  Keeps
    BY <2>2 DEF SavePost, SaveOver
  <2>3. ASSUME NEW m \in Post, SaveRun(m)
        PROVE  Keeps
    <3>1. run[m].row = thread /\ thread' \in {thread, Escalated(thread)}
      BY <2>3 DEF SaveRun, SaveOver
    <3>2. thread \in Thread
      BY DEF ThreadTyped
    <3> QED BY <3>1, <3>2, EscalatedIsRow DEF Ended
  <2>4. ASSUME NEW d \in Desk, SaveForDesk(d)
        PROVE  Keeps
    <3> DEFINE q == desk[d]
    <3>1. q \in DeskState /\ q # NoDecision
      BY <2>4 DEF SaveForDesk, NoDecision, ThreadTyped
    <3>2. Entitled(q)
      BY <3>1 DEF DeskInv
    <3>3. \A S : q.by \in S => EndedBy(S)
      BY <2>4 DEF SaveForDesk, EndedBy, ThreadTyped
    <3>4. CASE q.op = "remove"
      BY <2>4, <3>4 DEF SaveForDesk
    <3>5. CASE q.op # "remove"
      <4>1. q.row = thread /\ thread' = ThreadDecided(q.op, q.by, q.about, thread)
        BY <2>4, <3>5 DEF SaveForDesk, SaveOver
      <4>2. q.op \in Decision /\ thread \in Thread
        BY <3>1, RowsDecided DEF ThreadTyped
      <4>3. thread'.owner # thread.owner => q.by \in Super
        BY <3>2, <3>5, <4>1, <4>2 DEF ThreadDecided, Thread, Decision, Entitled
      <4>4. thread'.status \in Ended \ {thread.status} => q.by \in Super \union {thread.owner}
        BY <3>2, <3>5, <4>1, <4>2 DEF ThreadDecided, Thread, Decision, Entitled, Ended
      <4> QED BY <3>3, <4>3, <4>4
    <3> QED BY <3>4, <3>5
  <2> QED
    BY <2>1, <2>2, <2>3, <2>4 DEF SupportNext, RunStep, ReadForPost, PostFails, ToolTurn, Answer, Escalate,
      RunBreaks, ReadForDesk
<1> QED BY <1>1, SupportInvAlways, PTL DEF SupportSpec, OwnedToResolution

-----------------------------------------------------------------------------
(* The application *)

App == [status : ApplicationStatus, smile : SmileStatus, stage : Nat,
        basics : BOOLEAN, vehicle : BOOLEAN, publicId : Nat]
StageRequest ==
  [op : {"stage"}, stage : 1..5, says : SyncResults \union {"-"}, row : App, at : {"read"}]
DecisionRequest ==
  [op : {"reject", "requiresAction", "approved", "failed"}, stage : 1..5, row : App, at : {"read"}]
Submission == [op : {"submit"}, job : Job, row : App, at : {"read", "accepted", "saved"}]
Approval == [op : {"approve"}, found : Nat, id : Nat, row : App, at : {"read", "found", "live"}]
RequestState == {NoRequest} \union StageRequest \union DecisionRequest \union Submission \union Approval
CallbackState == [at : {"none", "saved"}] \union [at : {"read"}, row : App]

ApplicationTyped ==
  /\ kind \in {"RIDER", "VENDOR"} /\ app \in App
  /\ request \in [Request -> RequestState]
  /\ callback \in [Result -> CallbackState]
  /\ smileJob \in [Job -> {"none", "accepted", "saved"}]
  /\ smileResults \subseteq Result /\ processed \subseteq Result
  /\ live \in Seq(Nat) /\ issued \in Nat
  /\ vouched \in BOOLEAN /\ together \in BOOLEAN /\ revived \in BOOLEAN
  /\ wiped \in BOOLEAN /\ redrafted \in BOOLEAN

Approving(r) == request[r].op = "approve"

\* nobody is verified whom no one vouched for, in any row
VouchInv ==
  /\ app.smile = "APPROVED" => vouched
  /\ \A r \in Request :
       /\ request[r].op # "none" /\ request[r].row.smile = "APPROVED" => vouched
       /\ Approving(r) => vouched /\ request[r].row.status # "APPROVED"
  /\ \A e \in Result : callback[e].at = "read" /\ callback[e].row.smile = "APPROVED" => vouched
  /\ live # <<>> => vouched

\* one approval after the other: what it has found is what is there
OneLiveInv ==
  ~together =>
    /\ \A q, r \in Request : Approving(q) /\ Approving(r) => q = r
    /\ Len(live) <= 1
    /\ \A r \in Request : Approving(r) =>
         /\ ~revived => app.status # "APPROVED"
         /\ request[r].at = "found" => request[r].found = Len(live)
         /\ request[r].at = "live" => live = <<request[r].id>>
    /\ app.status = "APPROVED" /\ ~revived => live = <<app.publicId>>

\* results that the application had, or has been saved for and not marked yet
Taken(e) == e \in processed \/ callback[e].at = "saved"

\* a job whose result is an error has no other
ResultsInv ==
  /\ \A e, f \in smileResults : e[1] = f[1] /\ e[2] = "error" => f = e
  /\ processed \subseteq smileResults
  /\ \A e \in Result : callback[e].at # "none" => e \in smileResults /\ smileJob[e[1]] # "none"
  /\ \A r \in Request : request[r].op = "submit" /\ request[r].at # "read" =>
       smileJob[request[r].job] # "none"

WaitInv ==
  ~wiped /\ ~redrafted /\ app.smile = "PROCESSING" =>
    \/ \A e \in Result : ~Taken(e)
    \/ \E i \in Job : /\ smileJob[i] # "none"
                      /\ \A e \in Result : Taken(e) /\ e[1] = i => e[2] = "error"

\* a rider's second stage says what the identity check said, and an approval that
\* found somebody found one who is still there
HeldInv ==
  \A r \in Request :
    /\ request[r].op = "stage" /\ kind = "RIDER" /\ request[r].stage = 2 => request[r].says # "-"
    /\ Approving(r) /\ request[r].at = "found" => request[r].found \in 0..Len(live)

ApplicationInv ==
  ApplicationTyped /\ VouchInv /\ OneLiveInv /\ HeldInv /\ ResultsInv /\ WaitInv


\* What a stage, a decision, a submission or a result makes of a row.
LEMMA StageRow ==
  ASSUME kind \in {"RIDER", "VENDOR"}, NEW row \in App, NEW s \in 1..5,
         NEW says \in SyncResults \union {"-"}, kind = "RIDER" /\ s = 2 => says # "-"
  PROVE  LET next == StageSaved(row, s, says) IN
         /\ next \in App
         /\ next.status = "APPROVED" => row.status = "APPROVED" /\ next.publicId = row.publicId
         /\ next.smile = "APPROVED" => row.smile = "APPROVED" \/ says = "APPROVED"
         /\ next.smile = "PROCESSING" => row.smile = "PROCESSING" \/ (kind = "VENDOR" /\ s = 3)
<1> DEFINE on == [row EXCEPT !.stage = IF s < LastStage THEN AtLeast(@, s + 1) ELSE @]
<1>1. /\ on \in App /\ on.status = row.status /\ on.smile = row.smile /\ on.publicId = row.publicId
  BY DEF App, AtLeast, LastStage
<1>2. CASE s = 1
  <2>1. StageSaved(row, s, says) = [on EXCEPT !.status = "IN_PROGRESS", !.basics = TRUE]
    BY <1>2 DEF StageSaved, LastStage
  <2> HIDE DEF on
  <2> QED BY <2>1, <1>1 DEF App, ApplicationStatus
<1>3. CASE s = 2 /\ kind = "RIDER"
  <2>1. StageSaved(row, s, says) = [on EXCEPT !.smile = says]
    BY <1>3 DEF StageSaved, LastStage
  <2> HIDE DEF on
  <2> QED BY <2>1, <1>1, <1>3 DEF App, SmileStatus, SyncResults
<1>4. CASE s = 3 /\ kind = "VENDOR"
  <2>1. StageSaved(row, s, says) = [on EXCEPT !.smile = "PROCESSING"]
    BY <1>4 DEF StageSaved, LastStage
  <2> HIDE DEF on
  <2> QED BY <2>1, <1>1, <1>4 DEF App, SmileStatus
<1>5. CASE s = LastStage
  <2>1. StageSaved(row, s, says) = [on EXCEPT !.status = "PENDING_REVIEW", !.vehicle = @ \/ kind = "RIDER"]
    BY <1>5 DEF StageSaved, LastStage
  <2> HIDE DEF on
  <2>2. [on EXCEPT !.status = "PENDING_REVIEW", !.vehicle = @ \/ kind = "RIDER"] \in App
    BY <1>1 DEF App, ApplicationStatus
  <2> QED BY <2>1, <2>2, <1>1 DEF App, ApplicationStatus
<1>6. CASE s # 1 /\ ~(s = 2 /\ kind = "RIDER") /\ ~(s = 3 /\ kind = "VENDOR") /\ s # LastStage
  <2>1. StageSaved(row, s, says) = on
    BY <1>6 DEF StageSaved
  <2> HIDE DEF on
  <2> QED BY <2>1, <1>1
<1> QED BY <1>2, <1>3, <1>4, <1>5, <1>6

LEMMA DecisionRow ==
  ASSUME NEW row \in App, NEW s \in 1..5, NEW op \in {"reject", "requiresAction", "approved", "failed"}
  PROVE  LET next == DecisionSaved(row, op, s) IN
         /\ next \in App
         /\ next.status = "APPROVED" => row.status = "APPROVED" /\ next.publicId = row.publicId
         /\ next.smile = "APPROVED" => row.smile = "APPROVED" \/ op = "approved"
         /\ next.smile = "PROCESSING" => row.smile = "PROCESSING"
<1>1. CASE op = "reject"
  BY <1>1 DEF DecisionSaved, App, ApplicationStatus
<1>2. CASE op = "requiresAction"
  <2>1. DecisionSaved(row, op, s) = [row EXCEPT !.status = "REQUIRES_ACTION", !.stage = s] /\ s \in Nat
    BY <1>2 DEF DecisionSaved
  <2> QED BY <2>1 DEF App, ApplicationStatus
<1>3. CASE op = "approved"
  BY <1>3 DEF DecisionSaved, App, SmileStatus
<1>4. CASE op = "failed"
  BY <1>4 DEF DecisionSaved, App, SmileStatus
<1> QED BY <1>1, <1>2, <1>3, <1>4

LEMMA SubmittedRow ==
  ASSUME NEW row \in App, kind \in {"RIDER", "VENDOR"}
  PROVE  /\ Submitted(row) \in App /\ Submitted(row).status = "PENDING_REVIEW"
         /\ Submitted(row).smile = "PROCESSING"
<1>1. Submitted(row) \in App
  BY DEF Submitted, App, ApplicationStatus, SmileStatus, LastStage
<1> QED BY <1>1 DEF Submitted, App

LEMMA VerdictRow ==
  ASSUME NEW row \in App, NEW o \in Outcome
  PROVE  LET next == ResultSaved(row, o) IN
         /\ next \in App
         /\ next.status = "APPROVED" => row.status = "APPROVED" /\ next.publicId = row.publicId
         /\ next.smile = "APPROVED" => o = "clear"
         /\ next.smile = "PROCESSING" => o = "error"
BY DEF ResultSaved, App, ApplicationStatus, SmileStatus, Outcome

LEMMA ApprovedRow ==
  ASSUME NEW row \in App, NEW id \in Nat
  PROVE  LET next == [row EXCEPT !.status = "APPROVED", !.publicId = id] IN
         next \in App /\ next.smile = row.smile /\ next.publicId = id /\ next.status = "APPROVED"
BY DEF App, ApplicationStatus

\* What each kind of request holds.
LEMMA RequestHolds ==
  ASSUME ApplicationTyped, NEW r \in Request
  PROVE  /\ request[r] \in RequestState
         /\ request[r].op = "stage" => request[r] \in StageRequest
         /\ request[r].op \in {"reject", "requiresAction", "approved", "failed"} => request[r] \in DecisionRequest
         /\ request[r].op = "submit" => request[r] \in Submission
         /\ request[r].op = "approve" => request[r] \in Approval
         /\ request[r].op = "none" => request[r] = NoRequest
BY DEF ApplicationTyped, RequestState, StageRequest, DecisionRequest, Submission, Approval, NoRequest

LEMMA ApplicationTypedInit == OnboardingInit => ApplicationTyped
<1> SUFFICES ASSUME OnboardingInit PROVE ApplicationTyped
  OBVIOUS
<1>1. app \in App
  <2>1. CASE app = [status |-> "DRAFT", smile |-> "NOT_STARTED", stage |-> 1,
                    basics |-> FALSE, vehicle |-> FALSE, publicId |-> 0]
    BY <2>1 DEF App, ApplicationStatus, SmileStatus
  <2>2. CASE app # [status |-> "DRAFT", smile |-> "NOT_STARTED", stage |-> 1,
                    basics |-> FALSE, vehicle |-> FALSE, publicId |-> 0]
    <3> DEFINE s == IF vouched THEN "APPROVED"
                    ELSE IF kind = "RIDER" THEN "QUEUED_FOR_MANUAL" ELSE "PROCESSING"
    <3>1. app = [status |-> "PENDING_REVIEW", stage |-> LastStage, basics |-> TRUE, publicId |-> 0,
                 smile |-> s, vehicle |-> kind = "RIDER"]
      BY <2>2 DEF OnboardingInit
    <3>2. LastStage \in Nat /\ s \in SmileStatus /\ (kind = "RIDER") \in BOOLEAN
      BY DEF LastStage, SmileStatus
    <3> HIDE DEF s
    <3> QED BY <3>1, <3>2 DEF App, ApplicationStatus
  <2> QED BY <2>1, <2>2
<1>2. request \in [Request -> RequestState]
  BY DEF OnboardingInit, RequestState
<1>3. callback \in [Result -> CallbackState]
  <2>1. [at |-> "none"] \in CallbackState
    BY DEF CallbackState
  <2> QED BY <2>1 DEF OnboardingInit
<1>4. /\ smileJob \in [Job -> {"none", "accepted", "saved"}]
      /\ smileResults \subseteq Result /\ processed \subseteq Result
      /\ live \in Seq(Nat) /\ issued \in Nat
  BY DEF OnboardingInit
<1>5. /\ kind \in {"RIDER", "VENDOR"}
      /\ vouched \in BOOLEAN /\ together \in BOOLEAN /\ revived \in BOOLEAN
      /\ wiped \in BOOLEAN /\ redrafted \in BOOLEAN
  BY DEF OnboardingInit
<1> QED BY <1>1, <1>2, <1>3, <1>4, <1>5 DEF ApplicationTyped

LEMMA ApplicationTypedStep ==
  ASSUME ApplicationTyped, HeldInv, [OnboardingNext]_applicationVars
  PROVE  ApplicationTyped'
<1> DEFINE Bools == /\ vouched' \in BOOLEAN /\ together' \in BOOLEAN /\ revived' \in BOOLEAN
                    /\ wiped' \in BOOLEAN /\ redrafted' \in BOOLEAN
<1> USE DEF ApplicationTyped
<1>1. ASSUME NEW r \in Request, NEW s \in 1..5, NEW says \in SyncResults \union {"-"}, ReadForStage(r, s, says)
      PROVE  ApplicationTyped'
  <2> DEFINE q == [op |-> "stage", stage |-> s, says |-> says, row |-> app, at |-> "read"]
  <2>1. q \in RequestState
    BY DEF RequestState, StageRequest
  <2> HIDE DEF q
  <2>2. request' = [request EXCEPT ![r] = q]
    BY <1>1 DEF ReadForStage, BeginRequest, q
  <2> QED BY <1>1, <2>1, <2>2 DEF ReadForStage, BeginRequest, serviceRows
<1>2. ASSUME NEW r \in Request, NEW op \in {"reject", "requiresAction", "approved", "failed"}, ReadForDecision(r, op)
      PROVE  ApplicationTyped'
  <2>1. PICK s \in {1, LastStage} :
          BeginRequest(r, [op |-> op, stage |-> s, row |-> app, at |-> "read"])
    BY <1>2 DEF ReadForDecision
  <2> DEFINE q == [op |-> op, stage |-> s, row |-> app, at |-> "read"]
  <2>2. q \in RequestState
    BY DEF RequestState, DecisionRequest, LastStage
  <2> HIDE DEF q
  <2>3. request' = [request EXCEPT ![r] = q]
    BY <2>1 DEF BeginRequest, q
  <2> QED BY <1>2, <2>1, <2>2, <2>3 DEF ReadForDecision, BeginRequest, serviceRows
<1>3. ASSUME NEW r \in Request, NEW j \in Job, ReadForSubmission(r, j)
      PROVE  ApplicationTyped'
  <2> DEFINE q == [op |-> "submit", job |-> j, row |-> app, at |-> "read"]
  <2>1. q \in RequestState
    BY DEF RequestState, Submission
  <2> HIDE DEF q
  <2>2. request' = [request EXCEPT ![r] = q]
    BY <1>3 DEF ReadForSubmission, BeginRequest, q
  <2> QED BY <1>3, <2>1, <2>2 DEF ReadForSubmission, BeginRequest, serviceRows
<1>4. ASSUME NEW r \in Request, ReadForApproval(r)
      PROVE  ApplicationTyped'
  <2> DEFINE q == [op |-> "approve", found |-> 0, id |-> 0, row |-> app, at |-> "read"]
  <2>1. q \in RequestState
    BY DEF RequestState, Approval
  <2> HIDE DEF q
  <2>2. request' = [request EXCEPT ![r] = q]
    BY <1>4 DEF ReadForApproval, BeginRequest, q
  <2>3. together' \in BOOLEAN
    BY <1>4 DEF ReadForApproval
  <2> QED BY <1>4, <2>1, <2>2, <2>3 DEF ReadForApproval, BeginRequest, serviceRows
<1>5. ASSUME NEW r \in Request, request' = [request EXCEPT ![r] = NoRequest], app' \in App, Bools,
             UNCHANGED <<kind, callback, smileJob, smileResults, processed, live, issued>>
      PROVE  ApplicationTyped'
  BY <1>5 DEF RequestState
<1>6. ASSUME NEW r \in Request, SaveStage(r)
      PROVE  ApplicationTyped'
  <2>1. request[r] \in StageRequest
    BY <1>6, RequestHolds DEF SaveStage
  <2>2. app' \in App
    <3>1. kind = "RIDER" /\ request[r].stage = 2 => request[r].says # "-"
      BY <1>6 DEF SaveStage, HeldInv
    <3> QED BY <1>6, <2>1, <3>1, StageRow DEF SaveStage, SaveRow, StageRequest
  <2>3. Bools
    BY <1>6 DEF SaveStage, SaveRow, EndRequest
  <2> QED BY <1>5, <1>6, <2>2, <2>3 DEF SaveStage, EndRequest
<1>7. ASSUME NEW r \in Request, SaveDecision(r)
      PROVE  ApplicationTyped'
  <2>1. request[r] \in DecisionRequest
    BY <1>7, RequestHolds DEF SaveDecision
  <2>2. app' \in App
    BY <1>7, <2>1, DecisionRow DEF SaveDecision, SaveRow, DecisionRequest
  <2>3. Bools
    BY <1>7 DEF SaveDecision, SaveRow, EndRequest
  <2> QED BY <1>5, <1>7, <2>2, <2>3 DEF SaveDecision, EndRequest
<1>8. ASSUME NEW r \in Request, Accepted(r) \/ SaveJob(r)
      PROVE  ApplicationTyped'
  <2>1. request[r] \in Submission
    BY <1>8, RequestHolds DEF Accepted, SaveJob
  <2>2. smileJob' \in [Job -> {"none", "accepted", "saved"}]
    BY <1>8 DEF Accepted, SaveJob
  <2>3. request' \in [Request -> RequestState]
    <3>1. PICK at \in {"accepted", "saved"} : request' = [request EXCEPT ![r] = [request[r] EXCEPT !.at = at]]
      BY <1>8 DEF Accepted, SaveJob, Moves
    <3>2. [request[r] EXCEPT !.at = at] \in Submission
      BY <2>1 DEF Submission
    <3> QED BY <3>1, <3>2 DEF RequestState
  <2> QED BY <1>8, <2>2, <2>3 DEF Accepted, SaveJob, notes
<1>9. ASSUME NEW r \in Request, SaveSubmission(r)
      PROVE  ApplicationTyped'
  <2>1. request[r] \in Submission
    BY <1>9, RequestHolds DEF SaveSubmission
  <2>2. app' \in App
    BY <1>9, <2>1, SubmittedRow DEF SaveSubmission, SaveRow, Submission
  <2>3. Bools
    BY <1>9 DEF SaveSubmission, SaveRow, EndRequest
  <2> QED BY <1>5, <1>9, <2>2, <2>3 DEF SaveSubmission, EndRequest
<1>10. ASSUME NEW j \in Job, NEW o \in Outcome, Concludes(j, o)
       PROVE  ApplicationTyped'
  BY <1>10 DEF Concludes, notes, Result
<1>11. ASSUME NEW e \in Result, ReadForCallback(e)
       PROVE  ApplicationTyped'
  <2>1. callback' \in [Result -> CallbackState]
    BY <1>11 DEF ReadForCallback, CallbackState
  <2> QED BY <1>11, <2>1 DEF ReadForCallback, MarkedOnArrival, notes
<1>12. ASSUME NEW e \in Result, SaveCallback(e)
       PROVE  ApplicationTyped'
  <2>1. callback[e].row \in App /\ e[2] \in Outcome
    BY <1>12 DEF SaveCallback, CallbackState, Result
  <2>2. app' \in App
    BY <1>12, <2>1, VerdictRow DEF SaveCallback, SaveRow
  <2>3. callback' \in [Result -> CallbackState]
    BY <1>12 DEF SaveCallback, CallbackState
  <2>4. Bools
    BY <1>12 DEF SaveCallback, SaveRow
  <2> QED BY <1>12, <2>2, <2>3, <2>4 DEF SaveCallback
<1>13. ASSUME NEW e \in Result, MarkProcessed(e)
       PROVE  ApplicationTyped'
  <2>1. callback' \in [Result -> CallbackState]
    BY <1>13 DEF MarkProcessed, CallbackState
  <2> QED BY <1>13, <2>1 DEF MarkProcessed, notes
<1>14. ASSUME NEW r \in Request, FindLive(r)
       PROVE  ApplicationTyped'
  <2>1. request[r] \in Approval
    BY <1>14, RequestHolds DEF FindLive
  <2>2. issued' \in Nat
    BY <1>14 DEF FindLive
  <2>3. PICK i \in IF live = <<>> THEN {0} ELSE DOMAIN live :
          request' = [request EXCEPT ![r].at = "found", ![r].found = i, ![r].id = issued']
    BY <1>14 DEF FindLive
  <2>4. i \in Nat
    OBVIOUS
  <2>5. request' \in [Request -> RequestState]
    <3>1. [request[r] EXCEPT !.at = "found", !.found = i, !.id = issued'] \in Approval
      BY <2>1, <2>2, <2>4 DEF Approval
    <3>2. request' = [request EXCEPT ![r] = [request[r] EXCEPT !.at = "found", !.found = i, !.id = issued']]
      BY <2>3
    <3> QED BY <3>1, <3>2 DEF RequestState
  <2> QED BY <1>14, <2>2, <2>5 DEF FindLive, notes
<1>15. ASSUME NEW r \in Request, SaveLive(r)
       PROVE  ApplicationTyped'
  <2>1. request[r] \in Approval
    BY <1>15, RequestHolds DEF SaveLive
  <2> DEFINE i == request[r].found
             id == IF kind = "VENDOR" THEN request[r].id ELSE IF HasId(i) THEN live[i] ELSE issued + 1
  <2>2. /\ live' = IF i = 0 THEN Append(live, id) ELSE IF HasId(i) THEN live ELSE [live EXCEPT ![i] = id]
        /\ issued' = AtLeast(issued, id)
        /\ request' = [request EXCEPT ![r].at = "live", ![r].id = id]
    BY <1>15 DEF SaveLive
  <2>3. i \in 0..Len(live)
    BY <1>15 DEF SaveLive, HeldInv, Approving
  <2>4. id \in Nat
    BY <2>1, <2>3 DEF Approval, HasId
  <2>5. live' \in Seq(Nat)
    BY <2>2, <2>3, <2>4
  <2>6. issued' \in Nat
    BY <2>2, <2>4 DEF AtLeast
  <2>7. request' \in [Request -> RequestState]
    <3>1. [request[r] EXCEPT !.at = "live", !.id = id] \in Approval
      BY <2>1, <2>4 DEF Approval
    <3>2. request' = [request EXCEPT ![r] = [request[r] EXCEPT !.at = "live", !.id = id]]
      BY <2>2
    <3> QED BY <3>1, <3>2 DEF RequestState
  <2> QED BY <1>15, <2>5, <2>6, <2>7 DEF SaveLive, notes
<1>16. ASSUME NEW r \in Request, SaveApplicationApproved(r)
       PROVE  ApplicationTyped'
  <2>1. request[r] \in Approval
    BY <1>16, RequestHolds DEF SaveApplicationApproved
  <2>2. app' \in App
    BY <1>16, <2>1, ApprovedRow DEF SaveApplicationApproved, SaveRow, Approval
  <2>3. Bools
    BY <1>16 DEF SaveApplicationApproved, SaveRow, EndRequest
  <2> QED BY <1>5, <1>16, <2>2, <2>3 DEF SaveApplicationApproved, EndRequest
<1>17. ASSUME NEW r \in Request, RequestBreaks(r)
       PROVE  ApplicationTyped'
  BY <1>5, <1>17 DEF RequestBreaks, BreakOff, serviceRows
<1>18. ASSUME NEW e \in Result, CallbackBreaks(e)
       PROVE  ApplicationTyped'
  <2>1. callback' \in [Result -> CallbackState]
    BY <1>18 DEF CallbackBreaks, CallbackState
  <2> QED BY <1>18, <2>1 DEF CallbackBreaks, BreakOff, serviceRows
<1>19. CASE UNCHANGED applicationVars
  BY <1>19 DEF applicationVars
<1> QED
  BY <1>1, <1>2, <1>3, <1>4, <1>6, <1>7, <1>8, <1>9, <1>10, <1>11, <1>12, <1>13, <1>14, <1>15, <1>16, <1>17,
    <1>18, <1>19 DEF OnboardingNext, Handles

\* A request that is taken up reads the row as it is; nothing else changes.
LEMMA Begins ==
  ASSUME ApplicationTyped, NEW r \in Request, NEW q, BeginRequest(r, q)
  PROVE  /\ request' = [request EXCEPT ![r] = q] /\ request'[r] = q
         /\ \A p \in Request \ {r} : request'[p] = request[p]
         /\ UNCHANGED <<serviceRows, callback, vouched, revived, wiped, redrafted>>
BY DEF BeginRequest, ApplicationTyped

\* HeldInv: only the stage's and the approval's own steps touch what it is about.
LEMMA HeldInvStep ==
  ASSUME ApplicationTyped, HeldInv, [OnboardingNext]_applicationVars
  PROVE  HeldInv'
<1> DEFINE Held(r) ==
      /\ request[r].op = "stage" /\ kind = "RIDER" /\ request[r].stage = 2 => request[r].says # "-"
      /\ Approving(r) /\ request[r].at = "found" => request[r].found \in 0..Len(live)
<1>1. ASSUME NEW r \in Request, Held(r)', \A q \in Request \ {r} : request'[q] = request[q], UNCHANGED <<kind, live>>
      PROVE  HeldInv'
  BY <1>1 DEF HeldInv, Approving
<1>2. ASSUME NEW r \in Request, NEW s \in 1..5, NEW says \in SyncResults \union {"-"},
             says # "-" <=> kind = "RIDER" /\ s = 2, ReadForStage(r, s, says)
      PROVE  HeldInv'
  <2>1. Held(r)'
    BY <1>2, Begins DEF ReadForStage, serviceRows, Approving
  <2> QED BY <1>1, <1>2, <2>1, Begins DEF ReadForStage, serviceRows
<1>3. ASSUME NEW r \in Request, NEW op \in {"reject", "requiresAction", "approved", "failed"}, ReadForDecision(r, op)
      PROVE  HeldInv'
  BY <1>1, <1>3, Begins DEF ReadForDecision, serviceRows, Approving
<1>4. ASSUME NEW r \in Request, NEW j \in Job, ReadForSubmission(r, j)
      PROVE  HeldInv'
  BY <1>1, <1>4, Begins DEF ReadForSubmission, serviceRows, Approving
<1>5. ASSUME NEW r \in Request, ReadForApproval(r)
      PROVE  HeldInv'
  BY <1>1, <1>5, Begins DEF ReadForApproval, serviceRows, Approving
<1>6. ASSUME NEW r \in Request, request' = [request EXCEPT ![r] = NoRequest], UNCHANGED <<kind, live>>
      PROVE  HeldInv'
  <2>1. Held(r)'
    BY <1>6 DEF ApplicationTyped, NoRequest, Approving
  <2> QED BY <1>1, <1>6, <2>1 DEF ApplicationTyped
<1>7. ASSUME NEW r \in Request,
             SaveStage(r) \/ SaveDecision(r) \/ SaveSubmission(r) \/ SaveApplicationApproved(r) \/ RequestBreaks(r)
      PROVE  HeldInv'
  BY <1>6, <1>7 DEF SaveStage, SaveDecision, SaveSubmission, SaveApplicationApproved, EndRequest, RequestBreaks,
    BreakOff, serviceRows
<1>8. ASSUME NEW r \in Request, Accepted(r) \/ SaveJob(r)
      PROVE  HeldInv'
  <2>1. request[r].op = "submit" /\ request[r] \in Submission
    BY <1>8, RequestHolds DEF Accepted, SaveJob
  <2>2. request'[r].op = "submit"
    BY <1>8, <2>1 DEF Accepted, SaveJob, Moves, ApplicationTyped, Submission
  <2> QED BY <1>1, <1>8, <2>2 DEF Accepted, SaveJob, Moves, ApplicationTyped, Approving
<1>9. ASSUME NEW r \in Request, FindLive(r)
      PROVE  HeldInv'
  <2>1. request[r] \in Approval
    BY <1>9, RequestHolds DEF FindLive
  <2>2. PICK i \in IF live = <<>> THEN {0} ELSE DOMAIN live :
          request' = [request EXCEPT ![r].at = "found", ![r].found = i, ![r].id = issued']
    BY <1>9 DEF FindLive
  <2>3. i \in 0..Len(live)
    BY DEF ApplicationTyped
  <2>4. request'[r] = [request[r] EXCEPT !.at = "found", !.found = i, !.id = issued']
    BY <2>2 DEF ApplicationTyped
  <2>5. request'[r].op = "approve" /\ request'[r].found = i
    BY <2>1, <2>4 DEF Approval
  <2>6. UNCHANGED <<kind, live>> /\ \A q \in Request \ {r} : request'[q] = request[q]
    BY <1>9, <2>2 DEF FindLive, ApplicationTyped
  <2> QED BY <1>1, <2>3, <2>5, <2>6
<1>10. ASSUME NEW r \in Request, SaveLive(r)
       PROVE  HeldInv'
  <2>1. request[r] \in Approval
    BY <1>10, RequestHolds DEF SaveLive
  <2>2. PICK id : /\ request' = [request EXCEPT ![r].at = "live", ![r].id = id]
                  /\ live' \in {live, Append(live, id), [live EXCEPT ![request[r].found] = id]}
    BY <1>10 DEF SaveLive
  <2>3. Len(live') >= Len(live) /\ Len(live') \in Nat /\ Len(live) \in Nat
    <3>1. CASE live' = live
      BY <3>1 DEF ApplicationTyped
    <3>2. CASE live' = Append(live, id)
      BY <3>2 DEF ApplicationTyped
    <3>3. CASE live' = [live EXCEPT ![request[r].found] = id]
      BY <3>3 DEF ApplicationTyped
    <3> QED BY <2>2, <3>1, <3>2, <3>3
  <2>4. request'[r] = [request[r] EXCEPT !.at = "live", !.id = id]
    BY <2>2 DEF ApplicationTyped
  <2>5. request'[r].op = "approve" /\ request'[r].at = "live"
    BY <2>1, <2>4 DEF Approval
  <2>6. \A q \in Request \ {r} : request'[q] = request[q]
    BY <2>2 DEF ApplicationTyped
  <2>7. UNCHANGED kind
    BY <1>10 DEF SaveLive
  <2> QED BY <2>3, <2>5, <2>6, <2>7 DEF HeldInv, Approving
<1>11. CASE UNCHANGED <<request, kind, live>>
  BY <1>11 DEF HeldInv, Approving
<1>12. CASE UNCHANGED applicationVars
  BY <1>11, <1>12 DEF applicationVars
<1>13. ASSUME NEW j \in Job, NEW o \in Outcome, Concludes(j, o)
       PROVE  HeldInv'
  BY <1>11, <1>13 DEF Concludes
<1>14. ASSUME NEW e \in Result, Handles(e) \/ CallbackBreaks(e)
       PROVE  HeldInv'
  BY <1>11, <1>14 DEF Handles, ReadForCallback, SaveCallback, MarkProcessed, CallbackBreaks, BreakOff, serviceRows
<1> QED
  BY <1>2, <1>3, <1>4, <1>5, <1>7, <1>8, <1>9, <1>10, <1>12, <1>13, <1>14 DEF OnboardingNext

\* VouchInv: a row gets its verification from a result, an admin's decision or the
\* identity check, each of which vouches for it, or from a row that had it.
LEMMA VouchInvStep ==
  ASSUME ApplicationTyped, HeldInv, VouchInv, [OnboardingNext]_applicationVars
  PROVE  VouchInv'
<1> DEFINE Vouch(r) ==
      /\ request[r].op # "none" /\ request[r].row.smile = "APPROVED" => vouched
      /\ Approving(r) => vouched /\ request[r].row.status # "APPROVED"
<1>1. ASSUME vouched => vouched', UNCHANGED <<app, callback, live>>,
             \A q \in Request : Vouch(q)' \/ request'[q] = request[q]
      PROVE  VouchInv'
  BY <1>1 DEF VouchInv, Approving
<1>2. ASSUME NEW r \in Request, NEW q, BeginRequest(r, q), q.row = app, q.op # "approve"
      PROVE  VouchInv'
  <2>1. Vouch(r)'
    BY <1>2, Begins DEF Approving, VouchInv
  <2> QED BY <1>1, <1>2, <2>1, Begins DEF serviceRows
<1>3. ASSUME NEW r \in Request, NEW s \in 1..5, NEW says \in SyncResults \union {"-"}, ReadForStage(r, s, says)
      PROVE  VouchInv'
  BY <1>2, <1>3 DEF ReadForStage
<1>4. ASSUME NEW r \in Request, NEW op \in {"reject", "requiresAction", "approved", "failed"}, ReadForDecision(r, op)
      PROVE  VouchInv'
  BY <1>2, <1>4 DEF ReadForDecision
<1>5. ASSUME NEW r \in Request, NEW j \in Job, ReadForSubmission(r, j)
      PROVE  VouchInv'
  BY <1>2, <1>5 DEF ReadForSubmission
<1>6. ASSUME NEW r \in Request, ReadForApproval(r)
      PROVE  VouchInv'
  <2> DEFINE q == [op |-> "approve", found |-> 0, id |-> 0, row |-> app, at |-> "read"]
  <2>1. BeginRequest(r, q) /\ app.status # "APPROVED" /\ app.smile = "APPROVED"
    BY <1>6 DEF ReadForApproval, Verified
  <2>2. request'[r].row = app /\ vouched' = vouched /\ app' = app
    BY <2>1, Begins DEF serviceRows
  <2>3. vouched
    BY <2>1 DEF VouchInv
  <2>4. Vouch(r)'
    BY <2>1, <2>2, <2>3 DEF Approving
  <2> QED BY <1>1, <2>1, <2>4, Begins DEF serviceRows
<1>7. ASSUME NEW r \in Request, request' = [request EXCEPT ![r] = NoRequest], UNCHANGED <<callback, live>>,
             vouched => vouched', app'.smile = "APPROVED" => vouched'
      PROVE  VouchInv'
  <2>1. request'[r] = NoRequest /\ \A q \in Request \ {r} : request'[q] = request[q]
    BY <1>7 DEF ApplicationTyped
  <2> QED BY <1>7, <2>1 DEF VouchInv, Approving, NoRequest
<1>8. ASSUME NEW r \in Request, SaveStage(r)
      PROVE  VouchInv'
  <2>1. request[r] \in StageRequest /\ (kind = "RIDER" /\ request[r].stage = 2 => request[r].says # "-")
    BY <1>8, RequestHolds DEF SaveStage, HeldInv
  <2>2. /\ request[r].row \in App /\ request[r].stage \in 1..5 /\ request[r].says \in SyncResults \union {"-"}
        /\ app' = StageSaved(request[r].row, request[r].stage, request[r].says)
        /\ kind \in {"RIDER", "VENDOR"}
    BY <1>8, <2>1 DEF SaveStage, SaveRow, StageRequest, ApplicationTyped
  <2>3. app'.smile = "APPROVED" => request[r].row.smile = "APPROVED" \/ request[r].says = "APPROVED"
    BY <2>1, <2>2, StageRow
  <2> QED BY <1>7, <1>8, <2>3 DEF SaveStage, EndRequest, VouchInv
<1>9. ASSUME NEW r \in Request, SaveDecision(r)
      PROVE  VouchInv'
  <2>1. request[r] \in DecisionRequest
    BY <1>9, RequestHolds DEF SaveDecision
  <2>2. app'.smile = "APPROVED" => request[r].row.smile = "APPROVED" \/ request[r].op = "approved"
    BY <1>9, <2>1, DecisionRow DEF SaveDecision, SaveRow, DecisionRequest
  <2> QED BY <1>7, <1>9, <2>2 DEF SaveDecision, EndRequest, VouchInv
<1>10. ASSUME NEW r \in Request, SaveSubmission(r)
       PROVE  VouchInv'
  <2>1. request[r] \in Submission
    BY <1>10, RequestHolds DEF SaveSubmission
  <2>2. app'.smile = "PROCESSING"
    BY <1>10, <2>1, SubmittedRow DEF SaveSubmission, SaveRow, Submission, ApplicationTyped
  <2> QED BY <1>7, <1>10, <2>2 DEF SaveSubmission, EndRequest
<1>11. ASSUME NEW r \in Request, SaveApplicationApproved(r)
       PROVE  VouchInv'
  <2>1. request[r] \in Approval
    BY <1>11, RequestHolds DEF SaveApplicationApproved
  <2>2. app'.smile = request[r].row.smile
    BY <1>11, <2>1, ApprovedRow DEF SaveApplicationApproved, SaveRow, Approval
  <2> QED BY <1>7, <1>11, <2>2 DEF SaveApplicationApproved, EndRequest, VouchInv
<1>12. ASSUME NEW r \in Request, RequestBreaks(r)
       PROVE  VouchInv'
  BY <1>7, <1>12 DEF RequestBreaks, BreakOff, serviceRows, VouchInv
<1>13. ASSUME NEW r \in Request, Accepted(r) \/ SaveJob(r)
       PROVE  VouchInv'
  <2>1. request[r].op = "submit" /\ request[r] \in Submission
    BY <1>13, RequestHolds DEF Accepted, SaveJob
  <2>2. request'[r].op = "submit" /\ request'[r].row = request[r].row
    BY <1>13, <2>1 DEF Accepted, SaveJob, Moves, ApplicationTyped, Submission
  <2>3. Vouch(r)' /\ \A q \in Request \ {r} : request'[q] = request[q]
    BY <1>13, <2>1, <2>2 DEF Accepted, SaveJob, Moves, ApplicationTyped, Approving, VouchInv, notes
  <2> QED BY <1>1, <1>13, <2>3 DEF Accepted, SaveJob, notes
<1>14. ASSUME NEW r \in Request, FindLive(r)
       PROVE  VouchInv'
  <2>1. request[r] \in Approval
    BY <1>14, RequestHolds DEF FindLive
  <2>2. PICK i \in IF live = <<>> THEN {0} ELSE DOMAIN live :
          request' = [request EXCEPT ![r].at = "found", ![r].found = i, ![r].id = issued']
    BY <1>14 DEF FindLive
  <2>3. request'[r] = [request[r] EXCEPT !.at = "found", !.found = i, !.id = issued']
    BY <2>2 DEF ApplicationTyped
  <2>4. request'[r].row = request[r].row /\ request[r].op = "approve"
    BY <2>1, <2>3 DEF Approval
  <2>5. Vouch(r)' /\ \A q \in Request \ {r} : request'[q] = request[q]
    BY <1>14, <2>2, <2>4 DEF FindLive, ApplicationTyped, Approving, VouchInv, notes
  <2> QED BY <1>1, <1>14, <2>5 DEF FindLive, notes
<1>15. ASSUME NEW r \in Request, SaveLive(r)
       PROVE  VouchInv'
  <2>1. request[r] \in Approval
    BY <1>15, RequestHolds DEF SaveLive
  <2>2. PICK id : request' = [request EXCEPT ![r].at = "live", ![r].id = id]
    BY <1>15 DEF SaveLive
  <2>3. request'[r] = [request[r] EXCEPT !.at = "live", !.id = id]
    BY <2>2 DEF ApplicationTyped
  <2>4. request'[r].row = request[r].row /\ request[r].op = "approve"
    BY <2>1, <2>3 DEF Approval
  <2>5. vouched /\ request[r].row.status # "APPROVED"
    BY <2>4 DEF VouchInv, Approving
  <2>6. Vouch(r)' /\ \A q \in Request \ {r} : request'[q] = request[q]
    BY <1>15, <2>2, <2>4, <2>5 DEF SaveLive, ApplicationTyped, Approving, notes
  <2> QED BY <1>15, <2>5, <2>6 DEF SaveLive, notes, VouchInv, Approving
<1>16. ASSUME NEW e \in Result, ReadForCallback(e)
       PROVE  VouchInv'
  BY <1>16 DEF ReadForCallback, VouchInv, Approving, ApplicationTyped, notes
<1>17. ASSUME NEW e \in Result, SaveCallback(e)
       PROVE  VouchInv'
  <2>1. callback[e].row \in App /\ e[2] \in Outcome
    BY <1>17 DEF SaveCallback, ApplicationTyped, CallbackState, Result
  <2>2. app'.smile = "APPROVED" => e[2] = "clear"
    BY <1>17, <2>1, VerdictRow DEF SaveCallback, SaveRow
  <2> QED BY <1>17, <2>2 DEF SaveCallback, VouchInv, Approving, ApplicationTyped
<1>18. ASSUME NEW e \in Result, MarkProcessed(e) \/ CallbackBreaks(e)
       PROVE  VouchInv'
  BY <1>18 DEF MarkProcessed, CallbackBreaks, BreakOff, serviceRows, VouchInv, Approving, ApplicationTyped, notes
<1>19. ASSUME NEW j \in Job, NEW o \in Outcome, Concludes(j, o)
       PROVE  VouchInv'
  BY <1>1, <1>19 DEF Concludes, notes
<1>20. CASE UNCHANGED applicationVars
  BY <1>1, <1>20 DEF applicationVars
<1> QED
  BY <1>3, <1>4, <1>5, <1>6, <1>8, <1>9, <1>10, <1>11, <1>12, <1>13, <1>14, <1>15, <1>16, <1>17, <1>18, <1>19,
    <1>20 DEF OnboardingNext, Handles

LEMMA OneElement ==
  ASSUME NEW xs \in Seq(Nat), NEW x \in Nat
  PROVE  /\ Len(xs) = 0 => xs = <<>> /\ Append(xs, x) = <<x>>
         /\ Len(xs) = 1 => xs = <<xs[1]>> /\ [xs EXCEPT ![1] = x] = <<x>>
         /\ Len(<<x>>) = 1
<1>1. <<x>> \in Seq(Nat) /\ Len(<<x>>) = 1 /\ <<x>>[1] = x
  OBVIOUS
<1>2. ASSUME Len(xs) = 0 PROVE xs = <<>> /\ Append(xs, x) = <<x>>
  <2>1. xs = <<>>
    BY <1>2, EmptySeq
  <2>2. Append(xs, x) \in Seq(Nat) /\ Len(Append(xs, x)) = 1 /\ Append(xs, x)[1] = x
    BY <1>2, AppendProperties
  <2>3. /\ Len(Append(xs, x)) = Len(<<x>>)
        /\ \A k \in 1..Len(Append(xs, x)) : Append(xs, x)[k] = <<x>>[k]
    BY <1>1, <2>2
  <2>4. Append(xs, x) = <<x>>
    BY <1>1, <2>2, <2>3, SeqEqual
  <2> QED BY <2>1, <2>4
<1>3. ASSUME Len(xs) = 1 PROVE xs = <<xs[1]>> /\ [xs EXCEPT ![1] = x] = <<x>>
  <2>1. xs[1] \in Nat
    <3>1. 1 \in 1..Len(xs)
      BY <1>3
    <3> QED BY <3>1, ElementOfSeq
  <2>2. <<xs[1]>> \in Seq(Nat) /\ Len(<<xs[1]>>) = 1 /\ <<xs[1]>>[1] = xs[1]
    BY <2>1
  <2>3. xs = <<xs[1]>>
    BY <1>3, <2>2, SeqEqual
  <2>4. /\ [xs EXCEPT ![1] = x] \in Seq(Nat) /\ Len([xs EXCEPT ![1] = x]) = 1
        /\ [xs EXCEPT ![1] = x][1] = x
    BY <1>3, ExceptSeq
  <2>5. [xs EXCEPT ![1] = x] = <<x>>
    BY <1>1, <2>4, SeqEqual
  <2> QED BY <2>3, <2>5
<1> QED BY <1>1, <1>2, <1>3

\* A step that touches neither the application nor the store, and no approval.
LEMMA OneLiveKept ==
  ASSUME OneLiveInv, UNCHANGED <<app, live, together, revived>>,
         \A q \in Request : Approving(q)' => request'[q] = request[q]
  PROVE  OneLiveInv'
BY DEF OneLiveInv, Approving

\* A save that approves nothing: an approved row is saved over itself, or marks the
\* application as revived.
LEMMA OneLiveSaved ==
  ASSUME OneLiveInv, NEW read \in App, NEW row \in App, NEW outrun, SaveRow(read, row, outrun),
         row.status = "APPROVED" => read.status = "APPROVED" /\ row.publicId = read.publicId,
         UNCHANGED <<live, together>>,
         \A q \in Request : Approving(q)' => request'[q] = request[q]
  PROVE  OneLiveInv'
<1> SUFFICES ASSUME ~together PROVE OneLiveInv'
  BY DEF OneLiveInv
<1>1. ASSUME ~revived', row.status = "APPROVED" PROVE app = read /\ ~revived
  BY <1>1 DEF SaveRow
<1>2. app' = row /\ (~revived' => ~revived)
  BY DEF SaveRow
<1>3. \A q \in Request : Approving(q)' => Approving(q)
  BY DEF Approving
<1> QED BY <1>1, <1>2, <1>3 DEF OneLiveInv

LEMMA OneLiveInvStep ==
  ASSUME ApplicationTyped, HeldInv, VouchInv, OneLiveInv, [OnboardingNext]_applicationVars
  PROVE  OneLiveInv'
<1>1. ASSUME NEW r \in Request, NEW q, BeginRequest(r, q), q.op # "approve", UNCHANGED together
      PROVE  OneLiveInv'
  BY <1>1, Begins, OneLiveKept DEF serviceRows, Approving
<1>2. ASSUME NEW r \in Request, NEW s \in 1..5, NEW says \in SyncResults \union {"-"}, ReadForStage(r, s, says)
      PROVE  OneLiveInv'
  BY <1>1, <1>2 DEF ReadForStage
<1>3. ASSUME NEW r \in Request, NEW op \in {"reject", "requiresAction", "approved", "failed"}, ReadForDecision(r, op)
      PROVE  OneLiveInv'
  BY <1>1, <1>3 DEF ReadForDecision
<1>4. ASSUME NEW r \in Request, NEW j \in Job, ReadForSubmission(r, j)
      PROVE  OneLiveInv'
  BY <1>1, <1>4 DEF ReadForSubmission
<1>5. ASSUME NEW r \in Request, ReadForApproval(r)
      PROVE  OneLiveInv'
  <2> DEFINE q == [op |-> "approve", found |-> 0, id |-> 0, row |-> app, at |-> "read"]
  <2>1. /\ BeginRequest(r, q) /\ app.status # "APPROVED"
        /\ together' = (together \/ \E p \in Request : request[p].op = "approve")
    BY <1>5 DEF ReadForApproval
  <2>2. /\ request'[r].at = "read" /\ \A p \in Request \ {r} : request'[p] = request[p]
        /\ UNCHANGED <<app, live, revived>>
    BY <2>1, Begins DEF serviceRows
  <2>3. ~together' => ~together /\ \A p \in Request \ {r} : ~Approving(p)'
    BY <2>1, <2>2 DEF Approving
  <2> QED BY <2>1, <2>2, <2>3 DEF OneLiveInv
<1>6. ASSUME NEW r \in Request, request' = [request EXCEPT ![r] = NoRequest]
      PROVE  \A q \in Request : Approving(q)' => request'[q] = request[q]
  BY <1>6 DEF Approving, NoRequest, ApplicationTyped
<1>7. ASSUME NEW r \in Request, SaveStage(r)
      PROVE  OneLiveInv'
  <2> DEFINE q == request[r]
             row == StageSaved(q.row, q.stage, q.says)
  <2>1. q \in StageRequest /\ (kind = "RIDER" /\ q.stage = 2 => q.says # "-") /\ kind \in {"RIDER", "VENDOR"}
    BY <1>7, RequestHolds DEF SaveStage, HeldInv, ApplicationTyped
  <2>2. q.row \in App /\ q.stage \in 1..5 /\ q.says \in SyncResults \union {"-"}
    BY <2>1 DEF StageRequest
  <2>3. row \in App /\ (row.status = "APPROVED" => q.row.status = "APPROVED" /\ row.publicId = q.row.publicId)
    BY <2>1, <2>2, StageRow
  <2>4. SaveRow(q.row, row, FALSE) /\ EndRequest(r) /\ UNCHANGED live
    BY <1>7 DEF SaveStage
  <2> QED BY <1>6, <2>2, <2>3, <2>4, OneLiveSaved DEF EndRequest
<1>8. ASSUME NEW r \in Request, SaveDecision(r)
      PROVE  OneLiveInv'
  <2> DEFINE q == request[r]
             row == DecisionSaved(q.row, q.op, q.stage)
  <2>1. q.row \in App /\ q.stage \in 1..5 /\ q.op \in {"reject", "requiresAction", "approved", "failed"}
    BY <1>8, RequestHolds DEF SaveDecision, DecisionRequest
  <2>2. row \in App /\ (row.status = "APPROVED" => q.row.status = "APPROVED" /\ row.publicId = q.row.publicId)
    BY <2>1, DecisionRow
  <2>3. SaveRow(q.row, row, FALSE) /\ EndRequest(r) /\ UNCHANGED live
    BY <1>8 DEF SaveDecision
  <2> QED BY <1>6, <2>1, <2>2, <2>3, OneLiveSaved DEF EndRequest
<1>9. ASSUME NEW r \in Request, SaveSubmission(r)
      PROVE  OneLiveInv'
  <2> DEFINE q == request[r]
  <2>1. q.row \in App /\ kind \in {"RIDER", "VENDOR"}
    BY <1>9, RequestHolds DEF SaveSubmission, Submission, ApplicationTyped
  <2>2. Submitted(q.row) \in App /\ Submitted(q.row).status # "APPROVED"
    BY <2>1, SubmittedRow
  <2>3. PICK outrun \in BOOLEAN : SaveRow(q.row, Submitted(q.row), outrun)
    BY <1>9 DEF SaveSubmission
  <2>4. EndRequest(r) /\ UNCHANGED live
    BY <1>9 DEF SaveSubmission
  <2> QED BY <1>6, <2>1, <2>2, <2>3, <2>4, OneLiveSaved DEF EndRequest
<1>10. ASSUME NEW e \in Result, SaveCallback(e)
       PROVE  OneLiveInv'
  <2> DEFINE read == callback[e].row
             row == ResultSaved(read, e[2])
  <2>1. read \in App /\ e[2] \in Outcome
    BY <1>10 DEF SaveCallback, ApplicationTyped, CallbackState, Result
  <2>2. row \in App /\ (row.status = "APPROVED" => read.status = "APPROVED" /\ row.publicId = read.publicId)
    BY <2>1, VerdictRow
  <2>3. SaveRow(read, row, FALSE) /\ UNCHANGED <<live, together, request>>
    BY <1>10 DEF SaveCallback
  <2> QED BY <2>1, <2>2, <2>3, OneLiveSaved
<1>11. ASSUME NEW r \in Request, Accepted(r) \/ SaveJob(r)
       PROVE  OneLiveInv'
  <2>1. request[r].op = "submit" /\ request[r] \in Submission
    BY <1>11, RequestHolds DEF Accepted, SaveJob
  <2>2. request'[r].op = "submit" /\ \A q \in Request \ {r} : request'[q] = request[q]
    BY <1>11, <2>1 DEF Accepted, SaveJob, Moves, ApplicationTyped, Submission
  <2> QED BY <1>11, <2>2, OneLiveKept DEF Accepted, SaveJob, notes, Approving
<1>12. ASSUME NEW r \in Request, FindLive(r)
       PROVE  OneLiveInv'
  <2>1. request[r] \in Approval
    BY <1>12, RequestHolds DEF FindLive
  <2>2. PICK i \in IF live = <<>> THEN {0} ELSE DOMAIN live :
          request' = [request EXCEPT ![r].at = "found", ![r].found = i, ![r].id = issued']
    BY <1>12 DEF FindLive
  <2>3. request'[r] = [request[r] EXCEPT !.at = "found", !.found = i, !.id = issued']
    BY <2>2 DEF ApplicationTyped
  <2>4. request'[r].at = "found" /\ request'[r].found = i /\ Approving(r)
    BY <1>12, <2>1, <2>3 DEF Approval, FindLive, Approving
  <2>5. \A q \in Request \ {r} : request'[q] = request[q]
    BY <2>2 DEF ApplicationTyped
  <2>6. UNCHANGED <<app, live, together, revived>>
    BY <1>12 DEF FindLive, notes
  <2>7. ~together => i = Len(live)
    BY DEF OneLiveInv, ApplicationTyped
  <2> QED BY <2>4, <2>5, <2>6, <2>7 DEF OneLiveInv, Approving
<1>13. ASSUME NEW r \in Request, SaveLive(r)
       PROVE  OneLiveInv'
  <2> DEFINE i == request[r].found
             id == IF kind = "VENDOR" THEN request[r].id ELSE IF HasId(i) THEN live[i] ELSE issued + 1
  <2>1. request[r] \in Approval /\ Approving(r) /\ request[r].at = "found" /\ i \in 0..Len(live)
    BY <1>13, RequestHolds DEF SaveLive, Approving, HeldInv
  <2>2. live' = IF i = 0 THEN Append(live, id) ELSE IF HasId(i) THEN live ELSE [live EXCEPT ![i] = id]
    BY <1>13 DEF SaveLive
  <2>3. request'[r] = [request[r] EXCEPT !.at = "live", !.id = id]
    BY <1>13 DEF SaveLive, ApplicationTyped
  <2>4. id \in Nat
    BY <2>1 DEF Approval, HasId, ApplicationTyped
  <2> HIDE DEF id
  <2>5. request'[r].at = "live" /\ request'[r].id = id
    BY <2>1, <2>3 DEF Approval
  <2>6. \A q \in Request \ {r} : request'[q] = request[q]
    BY <1>13 DEF SaveLive, ApplicationTyped
  <2>7. UNCHANGED <<app, together, revived>>
    BY <1>13 DEF SaveLive, notes
  <2>8. ASSUME ~together
        PROVE  live' = <<id>>
    <3>1. live \in Seq(Nat) /\ Len(live) <= 1 /\ i = Len(live)
      BY <2>1, <2>8 DEF OneLiveInv, ApplicationTyped
    <3>2. CASE i = 0
      BY <2>2, <2>4, <3>1, <3>2, OneElement
    <3>3. CASE i = 1 /\ HasId(i)
      <4>1. id = live[1]
        BY <3>3 DEF HasId, id
      <4> QED BY <2>2, <2>4, <3>1, <3>3, <4>1, OneElement
    <3>4. CASE i = 1 /\ ~HasId(i)
      BY <2>2, <2>4, <3>1, <3>4, OneElement
    <3>5. i = 0 \/ i = 1
      <4>1. \A n \in Nat : n <= 1 => n = 0 \/ n = 1
        OBVIOUS
      <4>2. Len(live) \in Nat
        BY <3>1, LenProperties
      <4> QED BY <3>1, <4>1, <4>2
    <3> QED BY <3>2, <3>3, <3>4, <3>5
  <2>9. SUFFICES ASSUME ~together
                 PROVE  OneLiveInv'
    BY <2>7 DEF OneLiveInv
  <2>10. \A q \in Request \ {r} : ~Approving(q) /\ ~Approving(q)'
    BY <2>1, <2>6, <2>9 DEF OneLiveInv, Approving
  <2>11. ~revived => app.status # "APPROVED"
    BY <2>1, <2>9 DEF OneLiveInv
  <2>12. Len(live') <= 1
    <3>1. Len(<<id>>) = 1
      BY <2>4, OneElement, EmptySeq
    <3>2. Len(live') = 1
      BY <2>8, <2>9, <3>1, Zenon
    <3> QED BY <3>2
  <2>13. \A p, q \in Request : Approving(p)' /\ Approving(q)' => p = q
    BY <2>10
  <2>14. \A q \in Request : Approving(q)' =>
           /\ ~revived' => app'.status # "APPROVED"
           /\ request'[q].at # "found" /\ live' = <<request'[q].id>>
    BY <2>5, <2>7, <2>8, <2>9, <2>10, <2>11
  <2> QED BY <2>7, <2>11, <2>12, <2>13, <2>14 DEF OneLiveInv
<1>14. ASSUME NEW r \in Request, SaveApplicationApproved(r)
       PROVE  OneLiveInv'
  <2> DEFINE q == request[r]
  <2>1. q \in Approval /\ q.op = "approve" /\ q.at = "live"
    BY <1>14, RequestHolds DEF SaveApplicationApproved
  <2>2. /\ app' = [q.row EXCEPT !.status = "APPROVED", !.publicId = q.id]
        /\ ~revived' => ~revived
        /\ UNCHANGED <<live, together>>
        /\ request' = [request EXCEPT ![r] = NoRequest]
    BY <1>14 DEF SaveApplicationApproved, SaveRow, EndRequest
  <2>3. app'.publicId = q.id
    BY <2>1, <2>2, ApprovedRow DEF Approval
  <2>4. ~together => live = <<q.id>> /\ \A p \in Request : Approving(p) => p = r
    BY <2>1 DEF OneLiveInv, Approving
  <2>5. \A p \in Request : Approving(p)' => Approving(p) /\ p # r
    BY <2>2 DEF Approving, NoRequest, ApplicationTyped
  <2> QED BY <2>2, <2>3, <2>4, <2>5 DEF OneLiveInv
<1>15. ASSUME NEW r \in Request, RequestBreaks(r)
       PROVE  OneLiveInv'
  BY <1>6, <1>15, OneLiveKept DEF RequestBreaks, BreakOff, serviceRows
<1>16. CASE UNCHANGED <<app, live, together, revived, request>>
  BY <1>16, OneLiveKept
<1>17. ASSUME NEW e \in Result, ReadForCallback(e) \/ MarkProcessed(e) \/ CallbackBreaks(e)
       PROVE  OneLiveInv'
  BY <1>16, <1>17 DEF ReadForCallback, MarkProcessed, CallbackBreaks, BreakOff, serviceRows, notes
<1>18. ASSUME NEW j \in Job, NEW o \in Outcome, Concludes(j, o)
       PROVE  OneLiveInv'
  BY <1>16, <1>18 DEF Concludes, notes
<1>19. CASE UNCHANGED applicationVars
  BY <1>16, <1>19 DEF applicationVars
<1> QED
  BY <1>2, <1>3, <1>4, <1>5, <1>7, <1>8, <1>9, <1>10, <1>11, <1>12, <1>13, <1>14, <1>15, <1>17, <1>18, <1>19
    DEF OnboardingNext, Handles

\* A job that the provider has does not go away.
JobsStay == \A j \in Job : smileJob[j] # "none" => smileJob'[j] # "none"

\* A step that brings no result, no event and no submission further.
LEMMA ResultsKept ==
  ASSUME ApplicationTyped, ResultsInv, JobsStay, UNCHANGED smileResults, processed' \subseteq smileResults,
         \A e \in Result : callback'[e].at # "none" => callback[e].at # "none",
         \A q \in Request :
           request'[q] = request[q] \/ request'[q].op # "submit" \/ request'[q].at = "read"
  PROVE  ResultsInv'
<1>1. ASSUME NEW e \in Result, callback'[e].at # "none"
      PROVE  e \in smileResults' /\ smileJob'[e[1]] # "none"
  <2>1. e[1] \in Job
    BY DEF Result
  <2> QED BY <1>1, <2>1 DEF ResultsInv, JobsStay
<1>2. ASSUME NEW q \in Request, request'[q].op = "submit", request'[q].at # "read"
      PROVE  smileJob'[request'[q].job] # "none"
  <2>1. request'[q] = request[q]
    BY <1>2
  <2>2. request[q].job \in Job
    BY <1>2, <2>1, RequestHolds DEF Submission
  <2> QED BY <1>2, <2>1, <2>2 DEF ResultsInv, JobsStay
<1> QED BY <1>1, <1>2 DEF ResultsInv

LEMMA ResultsInvStep ==
  ASSUME ApplicationTyped, ResultsInv, [OnboardingNext]_applicationVars
  PROVE  ResultsInv' /\ JobsStay
<1>1. processed \subseteq smileResults
  BY DEF ResultsInv
<1>2. ASSUME NEW r \in Request, NEW q, BeginRequest(r, q), q.at = "read"
      PROVE  ResultsInv' /\ JobsStay
  <2>1. UNCHANGED <<smileJob, smileResults, processed, callback>>
    BY <1>2, Begins DEF serviceRows
  <2>2. \A p \in Request : request'[p] = request[p] \/ request'[p].at = "read"
    BY <1>2, Begins
  <2> QED BY <1>1, <2>1, <2>2, ResultsKept DEF JobsStay
<1>3. ASSUME NEW r \in Request, NEW s \in 1..5, NEW says \in SyncResults \union {"-"}, ReadForStage(r, s, says)
      PROVE  ResultsInv' /\ JobsStay
  BY <1>2, <1>3 DEF ReadForStage
<1>4. ASSUME NEW r \in Request, NEW op \in {"reject", "requiresAction", "approved", "failed"}, ReadForDecision(r, op)
      PROVE  ResultsInv' /\ JobsStay
  BY <1>2, <1>4 DEF ReadForDecision
<1>5. ASSUME NEW r \in Request, NEW j \in Job, ReadForSubmission(r, j)
      PROVE  ResultsInv' /\ JobsStay
  BY <1>2, <1>5 DEF ReadForSubmission
<1>6. ASSUME NEW r \in Request, ReadForApproval(r)
      PROVE  ResultsInv' /\ JobsStay
  BY <1>2, <1>6 DEF ReadForApproval
<1>7. ASSUME NEW r \in Request, request' = [request EXCEPT ![r] = NoRequest],
             UNCHANGED <<smileJob, smileResults, processed, callback>>
      PROVE  ResultsInv' /\ JobsStay
  <2>1. \A p \in Request : request'[p] = request[p] \/ request'[p].op # "submit"
    BY <1>7 DEF ApplicationTyped, NoRequest
  <2> QED BY <1>1, <1>7, <2>1, ResultsKept DEF JobsStay
<1>8. ASSUME NEW r \in Request,
             SaveStage(r) \/ SaveDecision(r) \/ SaveSubmission(r) \/ SaveApplicationApproved(r) \/ RequestBreaks(r)
      PROVE  ResultsInv' /\ JobsStay
  BY <1>7, <1>8 DEF SaveStage, SaveDecision, SaveSubmission, SaveApplicationApproved, EndRequest, RequestBreaks,
    BreakOff, serviceRows
<1>9. ASSUME NEW r \in Request, Accepted(r) \/ SaveJob(r)
      PROVE  ResultsInv' /\ JobsStay
  <2>1. request[r] \in Submission /\ request[r].job \in Job
    BY <1>9, RequestHolds DEF Accepted, SaveJob, Submission
  <2>2. PICK at \in {"accepted", "saved"} :
          /\ smileJob' = [smileJob EXCEPT ![request[r].job] = at]
          /\ request' = [request EXCEPT ![r].at = at]
    BY <1>9 DEF Accepted, SaveJob, Moves
  <2>3. UNCHANGED <<smileResults, processed, callback>>
    BY <1>9 DEF Accepted, SaveJob
  <2>4. JobsStay /\ smileJob'[request[r].job] # "none"
    BY <2>1, <2>2 DEF JobsStay, ApplicationTyped
  <2>5. request'[r].job = request[r].job /\ \A q \in Request \ {r} : request'[q] = request[q]
    BY <2>1, <2>2 DEF ApplicationTyped, Submission
  <2>6. \A q \in Request : request'[q].op = "submit" /\ request'[q].at # "read" => smileJob'[request'[q].job] # "none"
    <3> SUFFICES ASSUME NEW q \in Request, q # r, request[q].op = "submit", request[q].at # "read"
                 PROVE  smileJob'[request[q].job] # "none"
      BY <2>4, <2>5
    <3>1. request[q].job \in Job
      BY RequestHolds DEF Submission
    <3> QED BY <2>4, <3>1 DEF JobsStay, ResultsInv
  <2>7. \A e \in Result : callback'[e].at # "none" => e \in smileResults' /\ smileJob'[e[1]] # "none"
    <3>1. \A e \in Result : e[1] \in Job
      BY DEF Result
    <3> QED BY <2>3, <2>4, <3>1 DEF JobsStay, ResultsInv
  <2> QED BY <1>1, <2>3, <2>4, <2>6, <2>7 DEF ResultsInv
<1>10. ASSUME NEW j \in Job, NEW o \in Outcome, Concludes(j, o)
       PROVE  ResultsInv' /\ JobsStay
  <2> DEFINE new == <<j, o>>
  <2>1. /\ smileResults' = smileResults \union {new}
        /\ \A e \in smileResults : e[1] = j => e[2] = "attention" /\ o \in {"clear", "block"}
        /\ UNCHANGED <<smileJob, processed, callback, request>>
    BY <1>10 DEF Concludes
  <2>2. new[1] = j /\ new[2] = o
    OBVIOUS
  <2> HIDE DEF new
  <2>3. \A e, f \in smileResults' : e[1] = f[1] /\ e[2] = "error" => f = e
    BY <2>1, <2>2 DEF ResultsInv
  <2> QED BY <2>1, <2>3 DEF ResultsInv, JobsStay
<1>11. ASSUME NEW e \in Result, ReadForCallback(e)
       PROVE  ResultsInv' /\ JobsStay
  <2>1. /\ e \in smileResults /\ smileJob[e[1]] # "none"
        /\ \A f \in Result \ {e} : callback'[f] = callback[f]
        /\ UNCHANGED <<smileResults, smileJob, processed, request>>
    BY <1>11 DEF ReadForCallback, MarkedOnArrival, ApplicationTyped
  <2> QED BY <2>1 DEF ResultsInv, JobsStay
<1>12. ASSUME NEW e \in Result, SaveCallback(e) \/ MarkProcessed(e) \/ CallbackBreaks(e)
       PROVE  ResultsInv' /\ JobsStay
  <2>1. /\ callback[e].at # "none" /\ \A f \in Result \ {e} : callback'[f] = callback[f]
        /\ UNCHANGED <<smileResults, smileJob, request>> /\ processed' \subseteq processed \union {e}
    BY <1>12 DEF SaveCallback, MarkProcessed, CallbackBreaks, BreakOff, serviceRows, ApplicationTyped
  <2>2. e \in smileResults
    BY <2>1 DEF ResultsInv
  <2> QED BY <1>1, <2>1, <2>2, ResultsKept DEF JobsStay
<1>13. CASE UNCHANGED applicationVars
  BY <1>13 DEF applicationVars, JobsStay, ResultsInv
<1>14. ASSUME NEW r \in Request, FindLive(r) \/ SaveLive(r)
       PROVE  ResultsInv' /\ JobsStay
  <2>1. request[r] \in Approval
    BY <1>14, RequestHolds DEF FindLive, SaveLive
  <2>2. \E q : request' = [request EXCEPT ![r] = q] /\ q.op = "approve"
    <3>1. CASE FindLive(r)
      <4>1. PICK i : request' = [request EXCEPT ![r].at = "found", ![r].found = i, ![r].id = issued']
        BY <3>1 DEF FindLive
      <4>2. [request[r] EXCEPT !.at = "found", !.found = i, !.id = issued'].op = "approve"
        BY <2>1 DEF Approval
      <4> QED BY <4>1, <4>2
    <3>2. CASE SaveLive(r)
      <4>1. PICK id : request' = [request EXCEPT ![r].at = "live", ![r].id = id]
        BY <3>2 DEF SaveLive
      <4>2. [request[r] EXCEPT !.at = "live", !.id = id].op = "approve"
        BY <2>1 DEF Approval
      <4> QED BY <4>1, <4>2
    <3> QED BY <1>14, <3>1, <3>2
  <2>3. request'[r].op = "approve" /\ \A q \in Request \ {r} : request'[q] = request[q]
    BY <2>2 DEF ApplicationTyped
  <2>4. UNCHANGED <<smileJob, smileResults, processed, callback>>
    BY <1>14 DEF FindLive, SaveLive
  <2> QED BY <1>1, <2>3, <2>4, ResultsKept DEF JobsStay
<1> QED
  BY <1>3, <1>4, <1>5, <1>6, <1>8, <1>9, <1>10, <1>11, <1>12, <1>13, <1>14 DEF OnboardingNext, Handles

\* A step that takes no result to the application, and leaves it waiting at most
\* where it waited before.
LEMMA WaitKept ==
  ASSUME WaitInv, JobsStay,
         ~wiped' /\ ~redrafted' /\ app'.smile = "PROCESSING" =>
           ~wiped /\ ~redrafted /\ app.smile = "PROCESSING",
         \A e \in Result : Taken(e)' => Taken(e)
  PROVE  WaitInv'
BY DEF WaitInv, JobsStay

LEMMA WaitInvStep ==
  ASSUME ApplicationTyped, HeldInv, ResultsInv, WaitInv, JobsStay, [OnboardingNext]_applicationVars
  PROVE  WaitInv'
<1>1. CASE UNCHANGED <<app, callback, processed, wiped, redrafted>>
  BY <1>1, WaitKept DEF Taken
<1>2. ASSUME NEW read \in App, NEW row \in App, NEW outrun, SaveRow(read, row, outrun),
             ~redrafted' => ~redrafted /\ (row.smile = "PROCESSING" => read.smile = "PROCESSING"),
             UNCHANGED <<callback, processed>>
      PROVE  WaitInv'
  <2>1. ~wiped' => ~wiped /\ app.smile = read.smile
    BY <1>2 DEF SaveRow
  <2> QED BY <1>2, <2>1, WaitKept DEF Taken, SaveRow
<1>3. ASSUME NEW r \in Request, SaveStage(r)
      PROVE  WaitInv'
  <2> DEFINE q == request[r]
             row == StageSaved(q.row, q.stage, q.says)
  <2>1. q \in StageRequest /\ (kind = "RIDER" /\ q.stage = 2 => q.says # "-") /\ kind \in {"RIDER", "VENDOR"}
    BY <1>3, RequestHolds DEF SaveStage, HeldInv, ApplicationTyped
  <2>2. q.row \in App /\ q.stage \in 1..5 /\ q.says \in SyncResults \union {"-"}
    BY <2>1 DEF StageRequest
  <2>3. /\ row \in App
        /\ row.smile = "PROCESSING" => q.row.smile = "PROCESSING" \/ (kind = "VENDOR" /\ q.stage = 3)
    BY <2>1, <2>2, StageRow
  <2>4. /\ SaveRow(q.row, row, FALSE) /\ UNCHANGED <<callback, processed>>
        /\ redrafted' = (redrafted \/ (kind = "VENDOR" /\ q.stage = 3))
    BY <1>3 DEF SaveStage, EndRequest
  <2> QED BY <1>2, <2>2, <2>3, <2>4
<1>4. ASSUME NEW r \in Request, SaveDecision(r)
      PROVE  WaitInv'
  <2> DEFINE q == request[r]
             row == DecisionSaved(q.row, q.op, q.stage)
  <2>1. q.row \in App /\ q.stage \in 1..5 /\ q.op \in {"reject", "requiresAction", "approved", "failed"}
    BY <1>4, RequestHolds DEF SaveDecision, DecisionRequest
  <2>2. row \in App /\ (row.smile = "PROCESSING" => q.row.smile = "PROCESSING")
    BY <2>1, DecisionRow
  <2>3. SaveRow(q.row, row, FALSE) /\ UNCHANGED <<callback, processed, redrafted>>
    BY <1>4 DEF SaveDecision, EndRequest
  <2> QED BY <1>2, <2>1, <2>2, <2>3
<1>5. ASSUME NEW r \in Request, SaveApplicationApproved(r)
      PROVE  WaitInv'
  <2> DEFINE q == request[r]
             row == [q.row EXCEPT !.status = "APPROVED", !.publicId = q.id]
  <2>1. q.row \in App /\ q.id \in Nat
    BY <1>5, RequestHolds DEF SaveApplicationApproved, Approval
  <2>2. row \in App /\ row.smile = q.row.smile
    BY <2>1, ApprovedRow
  <2>3. SaveRow(q.row, row, FALSE) /\ UNCHANGED <<callback, processed, redrafted>>
    BY <1>5 DEF SaveApplicationApproved, EndRequest
  <2> QED BY <1>2, <2>1, <2>2, <2>3
<1>6. ASSUME NEW r \in Request, SaveSubmission(r)
      PROVE  WaitInv'
  <2> DEFINE j == request[r].job
             outrun == \E e \in smileResults : e[1] = j /\ (e \in processed \/ callback[e].at = "saved")
  <2>1. request[r] \in Submission /\ j \in Job /\ request[r].op = "submit" /\ request[r].at = "saved"
    BY <1>6, RequestHolds DEF SaveSubmission, Submission
  <2>2. smileJob[j] # "none"
    BY <2>1 DEF ResultsInv
  <2>3. SaveRow(request[r].row, Submitted(request[r].row), outrun) /\ UNCHANGED <<callback, processed, smileJob>>
    BY <1>6 DEF SaveSubmission, EndRequest
  <2>4. ~wiped' => \A e \in Result : Taken(e) => e[1] # j
    BY <2>3 DEF SaveRow, Taken, ResultsInv
  <2>5. ~wiped' => smileJob'[j] # "none" /\ \A e \in Result : Taken(e)' /\ e[1] = j => e[2] = "error"
    BY <2>2, <2>3, <2>4 DEF Taken
  <2> QED BY <2>1, <2>5 DEF WaitInv
<1>7. ASSUME NEW e \in Result, SaveCallback(e)
      PROVE  WaitInv'
  <2> DEFINE read == callback[e].row
             row == ResultSaved(read, e[2])
  <2>1. read \in App /\ e[1] \in Job /\ e[2] \in Outcome
    BY <1>7 DEF SaveCallback, ApplicationTyped, CallbackState, Result
  <2>2. /\ app' = row /\ UNCHANGED <<processed, smileJob>>
        /\ callback[e].at = "read" /\ \A f \in Result \ {e} : callback'[f] = callback[f]
    BY <1>7 DEF SaveCallback, SaveRow, ApplicationTyped
  <2>3. app'.smile = "PROCESSING" => e[2] = "error"
    BY <2>1, <2>2, VerdictRow
  <2>4. e \in smileResults /\ smileJob'[e[1]] # "none"
    BY <2>2 DEF ResultsInv
  <2>5. \A f \in Result : Taken(f)' => f \in smileResults
    BY <2>2, <2>4 DEF Taken, ResultsInv
  <2>6. e[2] = "error" => \A f \in Result : Taken(f)' /\ f[1] = e[1] => f[2] = "error"
    BY <2>4, <2>5 DEF ResultsInv
  <2> QED BY <2>1, <2>3, <2>4, <2>6 DEF WaitInv
<1>8. ASSUME NEW e \in Result, ReadForCallback(e) \/ MarkProcessed(e) \/ CallbackBreaks(e)
      PROVE  WaitInv'
  <2>1. \A f \in Result : Taken(f)' => Taken(f)
    BY <1>8 DEF ReadForCallback, MarkedOnArrival, MarkProcessed, CallbackBreaks, BreakOff, serviceRows, Taken,
      ApplicationTyped
  <2>2. UNCHANGED <<app, wiped, redrafted>>
    BY <1>8 DEF ReadForCallback, MarkProcessed, CallbackBreaks, BreakOff, serviceRows, notes
  <2> QED BY <2>1, <2>2, WaitKept
<1>9. ASSUME NEW r \in Request, NEW q, BeginRequest(r, q)
      PROVE  WaitInv'
  BY <1>1, <1>9, Begins DEF serviceRows
<1>10. ASSUME NEW r \in Request,
              \/ Accepted(r) \/ SaveJob(r) \/ ReadForApproval(r) \/ FindLive(r) \/ SaveLive(r) \/ RequestBreaks(r)
              \/ \E j \in Job : ReadForSubmission(r, j)
              \/ \E s \in 1..5, says \in SyncResults \union {"-"} : ReadForStage(r, s, says)
              \/ \E op \in {"reject", "requiresAction", "approved", "failed"} : ReadForDecision(r, op)
       PROVE  WaitInv'
  BY <1>1, <1>9, <1>10 DEF Accepted, SaveJob, ReadForApproval, FindLive, SaveLive, RequestBreaks, BreakOff,
    serviceRows, notes, ReadForSubmission, ReadForStage, ReadForDecision
<1>11. ASSUME NEW j \in Job, NEW o \in Outcome, Concludes(j, o)
       PROVE  WaitInv'
  BY <1>1, <1>11 DEF Concludes, notes
<1>12. CASE UNCHANGED applicationVars
  BY <1>1, <1>12 DEF applicationVars
<1> QED
  BY <1>3, <1>4, <1>5, <1>6, <1>7, <1>8, <1>10, <1>11, <1>12 DEF OnboardingNext, Handles

LEMMA ApplicationInvAlways == OnboardingSpec => []ApplicationInv
<1>1. OnboardingInit => ApplicationInv
  <2> SUFFICES ASSUME OnboardingInit PROVE ApplicationInv
    OBVIOUS
  <2>1. ApplicationTyped
    BY ApplicationTypedInit
  <2>2. /\ \A r \in Request : request[r].op = "none"
        /\ \A e \in Result : callback[e].at = "none"
        /\ live = <<>> /\ Len(live) = 0 /\ smileResults = {} /\ processed = {}
    BY DEF OnboardingInit, NoRequest
  <2>3. app.status # "APPROVED" /\ (app.smile = "APPROVED" => vouched)
    BY DEF OnboardingInit
  <2>4. VouchInv
    BY <2>2, <2>3 DEF VouchInv, Approving
  <2>5. OneLiveInv /\ HeldInv
    BY <2>2, <2>3 DEF OneLiveInv, HeldInv, Approving
  <2>6. ResultsInv /\ WaitInv
    BY <2>2 DEF ResultsInv, WaitInv, Taken
  <2> QED BY <2>1, <2>4, <2>5, <2>6 DEF ApplicationInv
<1>2. ApplicationInv /\ [OnboardingNext]_applicationVars => ApplicationInv'
  BY ApplicationTypedStep, HeldInvStep, VouchInvStep, OneLiveInvStep, ResultsInvStep, WaitInvStep DEF ApplicationInv
<1> QED BY <1>1, <1>2, PTL DEF OnboardingSpec

\* Whatever the applicant, the admins and the provider send at the same time and
\* wherever an approval breaks off (onboarding.service.ts approve), nobody goes live
\* whom no one vouched for, and an approved application stands for one store or rider
\* with the identifier it was told, as long as approvals do not run together and no
\* save brings an old approved row back.
THEOREM ApprovedIsLive == OnboardingSpec => []LiveAsApproved
<1>1. ApplicationInv => LiveAsApproved
  BY DEF ApplicationInv, VouchInv, OneLiveInv, LiveAsApproved
<1> QED BY <1>1, ApplicationInvAlways, PTL

\* The provider's verdict reaches the application however its results, their repeats
\* and the requests interleave (smile-verification-webhook.service.ts handleWebhook,
\* smile-document-verification.service.ts): when all is quiet an application that
\* still waits has a job without a conclusive result, but for the two overwrites that
\* VerdictIsTaken names.
THEOREM VerdictTaken == OnboardingSpec => []VerdictIsTaken
<1>1. ApplicationInv => VerdictIsTaken
  <2> SUFFICES ASSUME WaitInv, ResultsInv, ApplicationTyped, ~wiped, ~redrafted, app.smile = "PROCESSING",
                      NEW j \in Job, smileJob[j] = "saved"
               PROVE  \E i \in Job : smileJob[i] # "none" /\ \A e \in processed : e[1] = i => e[2] = "error"
    BY DEF ApplicationInv, VerdictIsTaken
  <2>1. \A e \in processed : e \in Result /\ Taken(e)
    BY DEF ApplicationTyped, Taken
  <2>2. CASE \A e \in Result : ~Taken(e)
    BY <2>1, <2>2
  <2>3. CASE \E i \in Job : smileJob[i] # "none" /\ \A e \in Result : Taken(e) /\ e[1] = i => e[2] = "error"
    BY <2>1, <2>3
  <2> QED BY <2>2, <2>3 DEF WaitInv
<1> QED BY <1>1, ApplicationInvAlways, PTL

=============================================================================
