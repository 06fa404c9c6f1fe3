---------------------------- MODULE SupportThread ----------------------------
(***************************************************************************)
(* One customer's conversation with Ore Support: the customer's messages   *)
(* (apps/comms/src/comms.service.ts), the assistant that answers them in   *)
(* the background (ai/support-ai.service.ts, ai/ai.agent.ts) and the       *)
(* console of the staff (support-admin.service.ts).                        *)
(*                                                                         *)
(* Every request reads the thread's row, decides by what it read, and      *)
(* saves the whole of it with its change, without a lock or a version; the *)
(* assistant keeps the row its message's request read for as long as it    *)
(* thinks.  Timestamps and the ticket's fields are left out: nothing here  *)
(* decides by them.                                                        *)
(***************************************************************************)
EXTENDS Naturals

CONSTANTS
  Rep,      \* admins of the support role, who see the threads without an owner
  Expert,   \* admins of another role, who see what they are invited to
  Super,    \* super admins
  Desk,     \* requests of the console that may be under way together
  Post,     \* the customer's messages
  MAX_TOOL_TURNS,  \* turns of the assistant's loop
  MaxDecisions,    \* bound: requests of the console
  MaxSupportFaults \* bound: saves that fail, runs that break off

Staff == Rep \union Expert \union Super

ASSUME SupportAssumption ==
  /\ Rep \cap Expert = {} /\ Rep \cap Super = {} /\ Expert \cap Super = {}
  /\ "nobody" \notin Staff
  /\ MAX_TOOL_TURNS \in Nat \ {0} /\ MaxDecisions \in Nat /\ MaxSupportFaults \in Nat

VARIABLES
  enabled,   \* the assistant has its key; without one support is human-only
  thread,    \* the row
  joined,    \* the participants who have not left
  posting,   \* a message's request: not sent yet, read, or over; and the row it read
  run,       \* the assistant's run for a message, with the row it was given
  desk,      \* a request of the console, with the row it read
  said,      \* the messages the assistant has answered
  returned,  \* history: the staff gave the thread back to the assistant
  undone,    \* history: a save undid a change made since its read
  decisions, \* how many requests the console has had
  supportFaults \* how many faults have happened, and to which messages

supportVars ==
  <<enabled, thread, joined, posting, run, desk, said, returned, undone, decisions, supportFaults>>

\* roles a thread is flagged to; a super admin sees it anyway
Team == {"support", "expert"}
TeamOf(u) == IF u \in Rep THEN {"support"} ELSE IF u \in Expert THEN {"expert"} ELSE {}

Ended == {"RESOLVED", "CLOSED"}
ThreadStatus == {"AI_HANDLING", "QUEUED_FOR_HUMAN", "HUMAN_ACTIVE"} \union Ended
Thread == [status : ThreadStatus, owner : Staff \union {"nobody"},
           assigned : Staff \union {"nobody"}, flagged : SUBSET Team]
Decision == {"claim", "invite", "remove", "reassign", "reply", "touch",
             "returnToAi", "resolve", "close", "reopen"}

NoDecision == [op |-> "none"]
NoRun == [at |-> "none"]
Waiting(m) == posting[m].at = "unsent"

SupportTypeOK ==
  /\ enabled \in BOOLEAN
  /\ thread \in Thread /\ joined \subseteq Staff
  /\ \A m \in Post : posting[m].at \in {"unsent", "read", "over"}
                     /\ run[m].at \in {"none", "thinking", "answer", "escalate", "over"}
  /\ \A d \in Desk : desk[d].op \in Decision \union {"none"}
  /\ said \subseteq Post /\ returned \in BOOLEAN /\ undone \in BOOLEAN
  /\ decisions \in 0..MaxDecisions
  /\ supportFaults.count \in 0..MaxSupportFaults /\ supportFaults.broke \subseteq Post

\* openSupportThread: the customer's one thread, in the assistant's hands
SupportInit ==
  /\ enabled \in BOOLEAN
  /\ thread = [status |-> "AI_HANDLING", owner |-> "nobody", assigned |-> "nobody", flagged |-> {}]
  /\ joined = {}
  /\ posting = [m \in Post |-> [at |-> "unsent"]]
  /\ run = [m \in Post |-> NoRun]
  /\ desk = [d \in Desk |-> NoDecision]
  /\ said = {} /\ returned = FALSE
  /\ undone = FALSE
  /\ decisions = 0
  /\ supportFaults = [count |-> 0, broke |-> {}]

\* repository.save: the row becomes what the request holds
SaveOver(read, row) ==
  /\ thread' = row
  /\ undone' = (undone \/ thread # read)

SupportFault(M) ==
  /\ supportFaults.count < MaxSupportFaults
  /\ supportFaults' = [count |-> supportFaults.count + 1, broke |-> supportFaults.broke \union M]

(***************************************************************************)
(* The customer's messages: postMessage.                                   *)
(***************************************************************************)
ReadForPost(m) ==
  /\ Waiting(m)
  /\ posting' = [posting EXCEPT ![m] = [at |-> "read", row |-> thread]]
  /\ UNCHANGED <<enabled, thread, joined, run, desk, said, returned, undone, decisions, supportFaults>>

\* shouldRespond, for a message of the customer's
ShouldRespond(row) == enabled /\ row.status = "AI_HANDLING"

\* the message is saved, then the row for its updatedAt, and the assistant is
\* started on that row and not waited for
SavePost(m) ==
  /\ posting[m].at = "read"
  /\ LET row == posting[m].row IN
       /\ SaveOver(row, row)
       /\ run' = [run EXCEPT ![m] = IF ShouldRespond(row)
                                    THEN [at |-> "thinking", turn |-> 0, row |-> row] ELSE @]
  /\ posting' = [posting EXCEPT ![m] = [at |-> "over"]]
  /\ UNCHANGED <<enabled, joined, desk, said, returned, decisions, supportFaults>>

\* the row's save fails: the message stays, and no assistant is started
PostFails(m) ==
  /\ posting[m].at = "read" /\ SupportFault({m})
  /\ posting' = [posting EXCEPT ![m] = [at |-> "over"]]
  /\ UNCHANGED <<enabled, thread, joined, run, desk, said, returned, undone, decisions>>

(***************************************************************************)
(* The assistant's run: respond, around the agent's loop.                  *)
(***************************************************************************)
\* a turn that looks something up and goes round again
ToolTurn(m) ==
  /\ run[m].at = "thinking" /\ run[m].turn < MAX_TOOL_TURNS
  /\ run' = [run EXCEPT ![m].turn = @ + 1]
  /\ UNCHANGED <<enabled, thread, joined, posting, desk, said, returned, undone, decisions, supportFaults>>

\* the model answers, and the answer is saved as the assistant's message; it is
\* not looked at who has the thread by now
Answer(m) ==
  /\ run[m].at = "thinking" /\ run[m].turn < MAX_TOOL_TURNS
  /\ said' = said \union {m}
  /\ run' = [run EXCEPT ![m] = [at |-> "answer", row |-> @.row]]
  /\ UNCHANGED <<enabled, thread, joined, posting, desk, returned, undone, decisions, supportFaults>>

\* escalate never puts back a thread that is queued or with a person: as read
Escalated(row) ==
  [row EXCEPT !.status = IF @ \in {"QUEUED_FOR_HUMAN", "HUMAN_ACTIVE"} THEN @ ELSE "QUEUED_FOR_HUMAN"]

\* Mutant: a run that used up its turns is given up.
GivesUpAtLimit(m) ==
  /\ run[m].at = "thinking"
  /\ run' = [run EXCEPT ![m] = IF @.turn < MAX_TOOL_TURNS THEN [at |-> "escalate", row |-> @.row]
                               ELSE [at |-> "over"]]
  /\ UNCHANGED <<enabled, thread, joined, posting, desk, said, returned, undone, decisions, supportFaults>>
\* an attachment, the escalation tool, a promise of a colleague, an error, the
\* budget or the last turn: each of them ends in an escalation
Escalate(m) ==
  /\ run[m].at = "thinking"
  /\ run' = [run EXCEPT ![m] = [at |-> "escalate", row |-> @.row]]
  /\ UNCHANGED <<enabled, thread, joined, posting, desk, said, returned, undone, decisions, supportFaults>>

\* saveThread: of the row as the run was given it
SaveRun(m) ==
  /\ run[m].at \in {"answer", "escalate"}
  /\ LET row == run[m].row IN
       SaveOver(row, IF run[m].at = "escalate" THEN Escalated(row) ELSE row)
  /\ run' = [run EXCEPT ![m] = [at |-> "over"]]
  /\ UNCHANGED <<enabled, joined, posting, desk, said, returned, decisions, supportFaults>>

\* the process ends or a save fails; saveThread and runSupportAi swallow it
RunBreaks(m) ==
  /\ run[m].at \in {"thinking", "answer", "escalate"} /\ SupportFault({m})
  /\ run' = [run EXCEPT ![m] = [at |-> "over"]]
  /\ UNCHANGED <<enabled, thread, joined, posting, desk, said, returned, undone, decisions>>

(***************************************************************************)
(* The console: read and check, then save.                                 *)
(***************************************************************************)
\* canView: queue() shows the same
MaySee(u) ==
  \/ u \in Super \/ u \in {thread.owner, thread.assigned} \/ u \in joined
  \/ u \in Rep /\ thread.owner = "nobody"
  \/ TeamOf(u) \cap thread.flagged # {}

MayClaim(u) == thread.owner \in {"nobody", u} \/ u \in Super
\* Mutant: whoever has joined may end the conversation.
MayEndJoined(u) == MaySee(u)
\* assertOwnerOrSuper
MayEnd(u) == MaySee(u) /\ (u \in Super \/ thread.owner \in {"nobody", u})

\* what is refused, of the row as the request reads it; x is whom it is about
Allowed(u, op, x) ==
  CASE op = "claim"  -> MayClaim(u) /\ x = u
    [] op = "invite" -> MaySee(u) /\ thread.owner # "nobody"
    [] op = "remove" -> /\ MaySee(u) /\ x \in joined /\ x # thread.owner
                        /\ u \in Super \union {thread.owner, x}
    [] op = "reassign" -> u \in Super
    [] op \in {"reply", "returnToAi"} -> MaySee(u) /\ x = u
    [] op \in {"resolve", "close"} -> MayEnd(u) /\ x = u
    [] op = "reopen" -> thread.status \in Ended /\ x = u
    [] op = "touch" -> x = u  \* setTicketMeta, an internal note, a post by the customer's route

ReadForDesk(d, u, op, x) ==
  /\ desk[d] = NoDecision /\ decisions < MaxDecisions
  /\ Allowed(u, op, x)
  /\ desk' = [desk EXCEPT ![d] = [op |-> op, by |-> u, about |-> x, row |-> thread]]
  /\ decisions' = decisions + 1
  /\ UNCHANGED <<enabled, thread, joined, posting, run, said, returned, undone, supportFaults>>

\* what the request makes of the row
ThreadDecided(op, u, x, row) ==
  CASE op = "claim"  -> [row EXCEPT !.owner = u, !.assigned = u,
                           !.status = IF @ \in {"QUEUED_FOR_HUMAN", "AI_HANDLING"} THEN "HUMAN_ACTIVE" ELSE @]
    [] op = "invite" -> [row EXCEPT !.flagged = @ \union TeamOf(x)]
    [] op = "reassign" -> [row EXCEPT !.owner = x]
    [] op = "reply"  -> [row EXCEPT !.status = "HUMAN_ACTIVE", !.owner = IF @ = "nobody" THEN u ELSE @]
    [] op = "returnToAi" -> [row EXCEPT !.status = "AI_HANDLING", !.assigned = "nobody"]
    [] op = "resolve" -> [row EXCEPT !.status = "RESOLVED"]
    [] op = "close"  -> [row EXCEPT !.status = "CLOSED"]
    [] op = "reopen" -> [row EXCEPT !.status = "QUEUED_FOR_HUMAN"]
    [] op = "touch"  -> row

\* the row, then the participant (removeParticipant saves the participant alone)
SaveForDesk(d) ==
  /\ desk[d].op # "none"
  /\ LET q == desk[d] IN
       IF q.op = "remove"
       THEN joined' = joined \ {q.about} /\ UNCHANGED <<thread, undone>>
       ELSE /\ SaveOver(q.row, ThreadDecided(q.op, q.by, q.about, q.row))
            /\ joined' = IF q.op \in {"claim", "invite"} THEN joined \union {q.about} ELSE joined
  /\ returned' = (returned \/ desk[d].op = "returnToAi")
  /\ desk' = [desk EXCEPT ![d] = NoDecision]
  /\ UNCHANGED <<enabled, posting, run, said, decisions, supportFaults>>

RunStep(m) == ToolTurn(m) \/ Answer(m) \/ Escalate(m) \/ SaveRun(m)

SupportNext ==
  \/ \E m \in Post : ReadForPost(m) \/ SavePost(m) \/ PostFails(m) \/ RunStep(m) \/ RunBreaks(m)
  \/ \E d \in Desk : \/ \E u, x \in Staff, op \in Decision : ReadForDesk(d, u, op, x)
                     \/ SaveForDesk(d)

SupportSpec == SupportInit /\ [][SupportNext]_supportVars

(***************************************************************************)
(* Properties.                                                             *)
(***************************************************************************)
\* the console's request that this step ends is one of u in S
EndedBy(S) == \E d \in Desk : desk[d].op # "none" /\ desk[d].by \in S /\ desk'[d] = NoDecision

\* "The person who first takes the issue owns it through to resolution": an
\* owner loses a thread only to a super admin, and only he or one of those ends
\* it, whoever is invited and whatever the customer and the assistant do; unless
\* a save from an old row put another state back (claim, reassign, resolve, close).
OwnedToResolution ==
  [][thread.owner # "nobody" /\ ~undone' =>
       /\ thread'.owner # thread.owner => EndedBy(Super)
       /\ thread'.status \in Ended \ {thread.status} => EndedBy(Super \union {thread.owner})]_supportVars

\* "If anything fails, we do NOT guess an answer. We escalate to a human": when all
\* is quiet, whatever the tools, the model and the staff did, a message has been
\* answered by the assistant or the thread waits for a person; unless the assistant
\* has no key (then nothing escalates: the thread stays with it until a rep takes it
\* from his queue), the message was sent to an ended thread or the staff ended it or
\* gave it back since, a process or a save broke, or a save from an old row undid the
\* escalation (shouldRespond, respond, AgentLoop).
CustomerIsHeard ==
  enabled /\ (\A m \in Post : posting[m].at # "read" /\ run[m].at \in {"none", "over"})
    /\ desk = [d \in Desk |-> NoDecision] /\ ~undone /\ ~returned /\ thread.status = "AI_HANDLING"
  => \A m \in Post : posting[m].at = "over" => m \in said \union supportFaults.broke
=============================================================================
