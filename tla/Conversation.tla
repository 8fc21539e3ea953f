----------------------------- MODULE Conversation -----------------------------
(***************************************************************************)
(* One WebSocket connection to one chat room: the session's memory of      *)
(* apps/server/internal/session, the turns of pipeline.HandleText with     *)
(* their barge-in, the replies, direct or as a durable job, and the        *)
(* compaction of the memory that every reply starts in the background.     *)
(*                                                                         *)
(* A message is its turn number and its author, and a summary is the list  *)
(* of the messages it was written from, so that what the room has          *)
(* forgotten shows.  The durable job is the one of JobQueue, reduced to    *)
(* who may run it; every step between two locks, queries or model calls    *)
(* can be interleaved with anything else.                                  *)
(***************************************************************************)
EXTENDS Integers, SequencesExt

CONSTANTS
  Inputs,              \* texts the learner sends
  MaxHistoryMessages,  \* Pipeline.MaxHistoryMessages
  MaxAttempts,         \* asyncjob.MaxAttempts
  MaxFaults,           \* bound: jobs not enqueued, attempts that fail or
                       \* lose their claim, and deaths of the replica
  MaxOverlaps          \* bound: compactions begun while another one runs

ASSUME ConversationAssumption ==
  /\ Inputs \in Nat
  /\ MaxHistoryMessages \in Nat
  /\ MaxAttempts \in Nat \ {0}
  /\ MaxFaults \in Nat
  /\ MaxOverlaps \in Nat

VARIABLES
  hooked,       \* Pipeline.ReplyHook is set: replies are durable jobs
  connected,    \* the connection's context is alive
  read,         \* how many inputs the read loop has taken
  canceled,     \* the inputs whose turn context is done
  pc,           \* where each input's HandleText is; 0 is the greeting's
  num,          \* the turn number of each input
  turn,         \* Session.turn
  history,      \* Session.history
  summary,      \* Session.summary
  spawned,      \* compact goroutines that have not looked at the session
  compactions,  \* those between their peek and their commit
  job,          \* each turn's reply job in the durable queue
  attempts,     \* Job.Attempts of each
  worker,       \* the pooled worker's attempt at it
  status,       \* each turn's reply row in buddy_jobs
  shown,        \* how often each input's onDone ran
  log,          \* history: every message appended, in order
  faults        \* history: how many faults of each kind have happened

memory == <<turn, history, summary, log>>
reply == <<job, attempts, worker, status>>
compaction == <<spawned, compactions>>
socket == <<hooked, connected, read, canceled>>
vars == <<socket, pc, num, memory, compaction, reply, shown, faults>>

Turns == 0 .. Inputs
Faults == {"failure", "claim", "death", "overlap"}
Phase == {"unread", "started", "numbered", "asking", "enqueuing", "reserved",
          "inline", "generated", "completed", "delivered", "polling", "returned"}
Message == Turns \X {"user", "assistant"}
Compaction == [old : Seq(Message), base : Seq(Message)]

(* The phases of an inline attempt, in which its lease may be lost. *)
Attempting == {"inline", "generated", "completed", "delivered"}

Fault(f) ==
  /\ faults["failure"] + faults["claim"] + faults["death"] < MaxFaults
  /\ faults' = [faults EXCEPT ![f] = @ + 1]

Overlap ==
  /\ faults["overlap"] < MaxOverlaps
  /\ faults' = [faults EXCEPT !["overlap"] = @ + 1]

-----------------------------------------------------------------------------
(* A new room has its greeting to say; a resumed one never has. *)
Init ==
  /\ hooked \in BOOLEAN
  /\ connected = TRUE
  /\ read = 0
  /\ canceled = {}
  /\ \E greeting \in {"asking", "returned"} :
       pc = [i \in Turns |-> IF i = 0 THEN greeting ELSE "unread"]
  /\ num = [i \in Turns |-> 0]
  /\ turn = 0
  /\ history = <<>>
  /\ summary = <<>>
  /\ spawned = 0
  /\ compactions = <<>>
  /\ job = [t \in Turns |-> "none"]
  /\ attempts = [t \in Turns |-> 0]
  /\ worker = [t \in Turns |-> "none"]
  /\ status = [t \in Turns |-> "none"]
  /\ shown = [i \in Turns |-> 0]
  /\ log = <<>>
  /\ faults = [f \in Faults |-> 0]

(* StartConversation is called before the read loop, not with go. *)
GreetingOver == pc[0] = "returned"

(* The read loop takes a text, cancels the turn before it (there is none   *)
(* before the first) and leaves the rest to a goroutine.                   *)
Read ==
  LET i == read + 1 IN
  /\ connected
  /\ i <= Inputs
  /\ GreetingOver
  /\ read' = i
  /\ canceled' = canceled \cup ({read} \ {0})
  /\ pc' = [pc EXCEPT ![i] = "started"]
  /\ UNCHANGED <<hooked, connected, num, memory, compaction, reply, shown, faults>>

Disconnect ==
  /\ connected
  /\ connected' = FALSE
  /\ canceled' = Turns
  /\ UNCHANGED <<hooked, read, pc, num, memory, compaction, reply, shown, faults>>

(* The replica dies, its goroutines with it; the claims it held run out. *)
Die ==
  LET lost == {t \in Turns : job[t] = "inline"} IN
  /\ connected
  /\ Fault("death")
  /\ connected' = FALSE
  /\ canceled' = Turns
  /\ pc' = [i \in Turns |-> IF pc[i] = "unread" THEN "unread" ELSE "returned"]
  /\ spawned' = 0
  /\ compactions' = <<>>
  /\ job' = [t \in Turns |-> IF t \in lost THEN "queued" ELSE job[t]]
  /\ attempts' = [t \in Turns |-> IF t \in lost THEN attempts[t] + 1 ELSE attempts[t]]
  /\ UNCHANGED <<hooked, read, num, memory, worker, status, shown>>

NextTurn(i) ==
  /\ pc[i] = "started"
  /\ turn' = turn + 1
  /\ num' = [num EXCEPT ![i] = turn + 1]
  /\ pc' = [pc EXCEPT ![i] = "numbered"]
  /\ UNCHANGED <<socket, history, summary, log, compaction, reply, shown, faults>>

Append1(i, author) ==
  /\ history' = Append(history, <<num[i], author>>)
  /\ log' = Append(log, <<num[i], author>>)
  /\ UNCHANGED <<turn, summary>>

AppendUser(i) ==
  /\ pc[i] = "numbered"
  /\ Append1(i, "user")
  /\ pc' = [pc EXCEPT ![i] = "asking"]
  /\ UNCHANGED <<socket, num, compaction, reply, shown, faults>>

-----------------------------------------------------------------------------
(* Without a hook the chat model is called under the turn's context...     *)
GenerateDirect(i) ==
  /\ ~ hooked
  /\ pc[i] = "asking"
  /\ pc' = [pc EXCEPT ![i] = "generated"]
  /\ UNCHANGED <<socket, num, memory, compaction, reply, shown, faults>>

(* ... and the reply of a turn that was barged in on is dropped. *)
DropDirect(i) ==
  /\ ~ hooked
  /\ pc[i] = "generated"
  /\ i \in canceled
  /\ pc' = [pc EXCEPT ![i] = "returned"]
  /\ UNCHANGED <<socket, num, memory, compaction, reply, shown, faults>>

(* runReply's onDone: show the reply, remember it, and compact. *)
OnDone(i, next) ==
  /\ Append1(i, "assistant")
  /\ shown' = [shown EXCEPT ![i] = @ + 1]
  /\ spawned' = spawned + 1
  /\ pc' = [pc EXCEPT ![i] = next]
  /\ UNCHANGED <<socket, num, compactions, faults>>

DeliverDirect(i) ==
  /\ ~ hooked
  /\ pc[i] = "generated"
  /\ i \notin canceled
  /\ OnDone(i, "returned")
  /\ UNCHANGED reply

(* The reaper's requeue of a turn's job, whose claim ran out, and the end  *)
(* of an attempt that failed: abandoned if it was the last, else requeued  *)
(* after its backoff.                                                      *)
Requeue(t) ==
  /\ job' = [job EXCEPT ![t] = "queued"]
  /\ attempts' = [attempts EXCEPT ![t] = @ + 1]

EndAttempt(t) ==
  \/ /\ attempts[t] + 1 < MaxAttempts
     /\ Requeue(t)
  \/ /\ attempts[t] + 1 >= MaxAttempts
     /\ job' = [job EXCEPT ![t] = "abandoned"]
     /\ UNCHANGED attempts

(* NewReplyHook: the row is reserved and the job enqueued, whatever        *)
(* becomes of the connection.                                              *)
Reserve(i) ==
  /\ hooked
  /\ pc[i] = "asking"
  /\ status' = [status EXCEPT ![num[i]] = "pending"]
  /\ pc' = [pc EXCEPT ![i] = "enqueuing"]
  /\ UNCHANGED <<socket, num, memory, compaction, job, attempts, worker, shown, faults>>

EnqueueReply(i) ==
  /\ pc[i] = "enqueuing"
  /\ job' = [job EXCEPT ![num[i]] = "queued"]
  /\ pc' = [pc EXCEPT ![i] = "reserved"]
  /\ UNCHANGED <<socket, num, memory, compaction, attempts, worker, status, shown, faults>>

(* An error of Redis is logged, and the poll waits for nothing. *)
EnqueueFails(i) ==
  /\ pc[i] = "enqueuing"
  /\ Fault("failure")
  /\ pc' = [pc EXCEPT ![i] = "polling"]
  /\ UNCHANGED <<socket, num, memory, compaction, reply, shown>>

ClaimInline(i) ==
  /\ pc[i] = "reserved"
  /\ job[num[i]] = "queued"
  /\ job' = [job EXCEPT ![num[i]] = "inline"]
  /\ pc' = [pc EXCEPT ![i] = "inline"]
  /\ UNCHANGED <<socket, num, memory, compaction, attempts, worker, status, shown, faults>>

(* A pooled worker took the job first: this connection only watches. *)
Watch(i) ==
  /\ pc[i] = "reserved"
  /\ job[num[i]] # "queued"
  /\ pc' = [pc EXCEPT ![i] = "polling"]
  /\ UNCHANGED <<socket, num, memory, compaction, reply, shown, faults>>

(* ReplyJobHandler, inline: a turn that is done already is not generated   *)
(* again, and nothing is delivered for it.                                 *)
GenerateInline(i) ==
  /\ hooked
  /\ pc[i] = "inline"
  /\ pc' = [pc EXCEPT ![i] = IF status[num[i]] = "done" THEN "delivered"
                                                       ELSE "generated"]
  /\ UNCHANGED <<socket, num, memory, compaction, reply, shown, faults>>

(* CompleteAssistantTurn. *)
CompleteInline(i) ==
  /\ hooked
  /\ pc[i] = "generated"
  /\ status' = [status EXCEPT ![num[i]] = "done"]
  /\ pc' = [pc EXCEPT ![i] = "completed"]
  /\ UNCHANGED <<socket, num, memory, compaction, job, attempts, worker, shown, faults>>

DeliverInline(i) ==
  /\ pc[i] = "completed"
  /\ OnDone(i, "delivered")
  /\ UNCHANGED reply

(* Mutation of FinishInline: a reply that was delivered is polled for too. *)
FinishInlinePolls(i) ==
  /\ pc[i] = "delivered"
  /\ job' = [job EXCEPT ![num[i]] = IF @ = "inline" THEN "ended" ELSE @]
  /\ pc' = [pc EXCEPT ![i] = "polling"]
  /\ UNCHANGED <<socket, num, memory, compaction, attempts, worker, status, shown, faults>>

(* Execute's completeJob, fenced: after a lost claim it is an error, which *)
(* sends the hook to the poll.                                             *)
FinishInline(i) ==
  /\ pc[i] = "delivered"
  /\ IF job[num[i]] = "inline"
     THEN /\ job' = [job EXCEPT ![num[i]] = "ended"]
          /\ pc' = [pc EXCEPT ![i] = "returned"]
     ELSE /\ pc' = [pc EXCEPT ![i] = "polling"]
          /\ UNCHANGED job
  /\ UNCHANGED <<socket, num, memory, compaction, attempts, worker, status, shown, faults>>

(* The attempt fails before it delivers: of itself, and then the job is    *)
(* requeued after its backoff, or because its heartbeat lost the claim.    *)
FailInline(i) ==
  /\ hooked
  /\ pc[i] \in {"inline", "generated", "completed"}
  /\ pc' = [pc EXCEPT ![i] = "polling"]
  /\ IF job[num[i]] = "inline"
     THEN Fault("failure") /\ EndAttempt(num[i])
     ELSE UNCHANGED <<job, attempts, faults>>
  /\ UNCHANGED <<socket, num, memory, compaction, worker, status, shown>>

LoseClaim(i) ==
  /\ hooked
  /\ pc[i] \in Attempting
  /\ job[num[i]] = "inline"
  /\ Fault("claim")
  /\ Requeue(num[i])
  /\ UNCHANGED <<socket, pc, num, memory, compaction, worker, status, shown>>

(* pollReplyUntilDone delivers what another executor completed... *)
DeliverPolled(i) ==
  /\ pc[i] = "polling"
  /\ i \notin canceled
  /\ status[num[i]] = "done"
  /\ OnDone(i, "returned")
  /\ UNCHANGED reply

(* ... until the turn's context is done or the attempts are used up. *)
StopPolling(i) ==
  /\ pc[i] = "polling"
  /\ pc' = [pc EXCEPT ![i] = "returned"]
  /\ UNCHANGED <<socket, num, memory, compaction, reply, shown, faults>>

-----------------------------------------------------------------------------
(* The pooled worker, on any replica, runs the same handler with nobody to *)
(* deliver to.  An attempt that outlives its claim may write the row too,  *)
(* which it then does just as the attempt that follows it.                 *)
WorkerTakes(t) ==
  /\ job[t] = "queued"
  /\ job' = [job EXCEPT ![t] = "worker"]
  /\ worker' = [worker EXCEPT ![t] = IF status[t] = "done" THEN "done" ELSE "generating"]
  /\ UNCHANGED <<socket, pc, num, memory, compaction, attempts, status, shown, faults>>

(* Mutation of WorkerCompletes: the row is left as it was reserved. *)
WorkerForgets(t) ==
  /\ worker[t] = "generating"
  /\ worker' = [worker EXCEPT ![t] = "done"]
  /\ UNCHANGED <<socket, pc, num, memory, compaction, job, attempts, status, shown, faults>>

WorkerCompletes(t) ==
  /\ worker[t] = "generating"
  /\ status' = [status EXCEPT ![t] = "done"]
  /\ worker' = [worker EXCEPT ![t] = "done"]
  /\ UNCHANGED <<socket, pc, num, memory, compaction, job, attempts, shown, faults>>

WorkerFails(t) ==
  /\ worker[t] # "none"
  /\ Fault("failure")
  /\ EndAttempt(t)
  /\ worker' = [worker EXCEPT ![t] = "none"]
  /\ UNCHANGED <<socket, pc, num, memory, compaction, status, shown>>

WorkerDies(t) ==
  /\ worker[t] # "none"
  /\ Fault("death")
  /\ Requeue(t)
  /\ worker' = [worker EXCEPT ![t] = "none"]
  /\ UNCHANGED <<socket, pc, num, memory, compaction, status, shown>>

WorkerEnds(t) ==
  /\ worker[t] = "done"
  /\ job' = [job EXCEPT ![t] = "ended"]
  /\ worker' = [worker EXCEPT ![t] = "none"]
  /\ UNCHANGED <<socket, pc, num, memory, compaction, attempts, status, shown, faults>>

-----------------------------------------------------------------------------
(* PeekOldestForCompaction: fold down to half of the maximum. *)
Oldest == SubSeq(history, 1, Len(history) - MaxHistoryMessages \div 2)

StartCompaction ==
  /\ spawned > 0
  /\ spawned' = spawned - 1
  /\ IF MaxHistoryMessages > 0 /\ Len(history) > MaxHistoryMessages
     THEN /\ compactions' = Append(compactions, [old |-> Oldest, base |-> summary])
          /\ IF compactions # <<>> THEN Overlap ELSE UNCHANGED faults
     ELSE UNCHANGED <<compactions, faults>>
  /\ UNCHANGED <<socket, pc, num, memory, reply, shown>>

(* Mutation of ApplyCompaction: the number of messages to drop is computed *)
(* again, from the window as it is now.                                    *)
ApplyCompactionToHalf(c) ==
  LET n == Len(history) - MaxHistoryMessages \div 2 IN
  /\ summary' = c.base \o c.old
  /\ history' = SubSeq(history, n + 1, Len(history))
  /\ UNCHANGED <<turn, log>>

(* The new summary replaces the old one and as many messages as it was     *)
(* written from leave the window.                                          *)
ApplyCompaction(c) ==
  /\ summary' = c.base \o c.old
  /\ history' = SubSeq(history, Len(c.old) + 1, Len(history))
  /\ UNCHANGED <<turn, log>>

CommitCompaction(k) ==
  /\ ApplyCompaction(compactions[k])
  /\ compactions' = RemoveAt(compactions, k)
  /\ UNCHANGED <<socket, pc, num, spawned, reply, shown, faults>>

(* The model call failed: history is left untouched. *)
DropCompaction(k) ==
  /\ compactions' = RemoveAt(compactions, k)
  /\ UNCHANGED <<socket, pc, num, memory, spawned, reply, shown, faults>>

-----------------------------------------------------------------------------
Turn(i) ==
  \/ NextTurn(i) \/ AppendUser(i)
  \/ GenerateDirect(i) \/ DropDirect(i) \/ DeliverDirect(i)
  \/ Reserve(i) \/ EnqueueReply(i) \/ ClaimInline(i) \/ Watch(i)
  \/ GenerateInline(i) \/ CompleteInline(i) \/ DeliverInline(i) \/ FinishInline(i)

Work(t) == WorkerTakes(t) \/ WorkerCompletes(t) \/ WorkerEnds(t)

Next ==
  \/ Read \/ Disconnect \/ Die
  \/ \E i \in Turns :
       \/ Turn(i)
       \/ EnqueueFails(i) \/ FailInline(i) \/ LoseClaim(i)
       \/ DeliverPolled(i) \/ StopPolling(i)
  \/ \E t \in Turns : Work(t) \/ WorkerFails(t) \/ WorkerDies(t)
  \/ StartCompaction
  \/ \E k \in DOMAIN compactions : CommitCompaction(k) \/ DropCompaction(k)

Spec == Init /\ [][Next]_vars

(* As long as a turn or a worker can go on, one of them does: models       *)
(* answer in the end and workers serve the queue.  Nobody has to speak, to *)
(* disconnect, to fail or to lose a claim.                                 *)
Fairness == WF_vars(\E i \in Turns : Turn(i) \/ Work(i))

FairSpec == Spec /\ Fairness

-----------------------------------------------------------------------------
(* Every variable keeps to its type. *)
TypeOK ==
  /\ hooked \in BOOLEAN
  /\ connected \in BOOLEAN
  /\ read \in Turns
  /\ canceled \subseteq Turns
  /\ pc \in [Turns -> Phase]
  /\ num \in [Turns -> Turns]
  /\ turn \in Turns
  /\ history \in Seq(Message)
  /\ summary \in Seq(Message)
  /\ spawned \in Nat
  /\ compactions \in Seq(Compaction)
  /\ job \in [Turns -> {"none", "queued", "inline", "worker", "ended", "abandoned"}]
  /\ attempts \in [Turns -> Nat]
  /\ worker \in [Turns -> {"none", "generating", "done"}]
  /\ status \in [Turns -> {"none", "pending", "done"}]
  /\ shown \in [Turns -> Nat]
  /\ log \in Seq(Message)
  /\ faults \in [Faults -> Nat]

(* The memory is the whole conversation in order, the oldest part of it as *)
(* a summary: ApplyCompaction "drops the n oldest verbatim messages that   *)
(* were folded into it" and no others (session.go), however the turns and  *)
(* the compactions interleave.                                             *)
MemoryKept == summary \o history = log

(* onDone "must happen exactly once, however the reply text was produced"  *)
(* (pipeline_reply.go, runReply): no reply is shown or remembered twice.   *)
ShownOnce == \A i \in Turns : shown[i] <= 1

(* What the code does keep: only an attempt that delivered and then found  *)
(* its claim lost makes the hook deliver the same reply again.             *)
ShownOncePerClaim == \A i \in Turns : shown[i] <= 1 + faults["claim"]

(* The greeting is first in the room's memory: a fast client cannot get    *)
(* its own message in before it (ws.go, ServeHTTP).                        *)
GreetingFirst ==
  \A j, k \in DOMAIN log : log[k][1] = 0 /\ j < k => log[j][1] = 0

(* "The reply itself keeps going independently" of the connection and of   *)
(* its replica (reply_job.go, pollReplyUntilDone and ReplyJobHandler):     *)
(* whoever barges in, disconnects, dies, fails or loses a claim, a reply   *)
(* stays reserved and unwritten only if its job was never enqueued or was  *)
(* abandoned after the last attempt.                                       *)
RepliesPersist ==
  []<>(\A t \in Turns : status[t] = "pending" => job[t] \in {"none", "abandoned"})

(* The inductive invariant behind the safety properties.  Turn numbers are *)
(* handed out once, and never more of them than inputs were read.          *)
Active(i) == pc[i] \notin {"unread", "started", "returned"}

Started == {i \in Turns : pc[i] = "started"}

NumbersDistinct ==
  /\ turn + Cardinality(Started) <= read
  /\ \A i \in Turns : i > read => pc[i] = "unread"
  /\ num[0] = 0
  /\ pc[0] \notin {"unread", "started", "numbered"}
  /\ \A i \in Turns \ {0} : Active(i) => num[i] \in 1 .. turn
  /\ \A i, j \in Turns : Active(i) /\ Active(j) /\ num[i] = num[j] => i = j

(* Until the greeting is over no text is taken and no other turn is in the *)
(* memory.                                                                 *)
GreetingInv ==
  /\ GreetingFirst
  /\ pc[0] # "returned" =>
       /\ \A i \in Turns \ {0} : pc[i] = "unread"
       /\ \A k \in DOMAIN log : log[k][1] = 0

(* A job that is not enqueued yet is nobody's, and one that a worker has   *)
(* is not inline.                                                          *)
JobsOwned ==
  /\ \A t \in Turns : worker[t] # "none" => job[t] = "worker"
  /\ \A t \in Turns : t > turn => job[t] = "none"
  /\ \A i \in Turns :
       pc[i] \in {"numbered", "asking", "enqueuing"} => job[num[i]] = "none"

(* A reply is not shown before it is delivered; an attempt that delivered  *)
(* still owns its job, or some claim has been lost.                        *)
Delivered(i) ==
  /\ pc[i] \in {"enqueuing", "reserved", "inline", "completed", "delivered", "polling"}
       => hooked
  /\ pc[i] \notin {"delivered", "polling", "returned"} => shown[i] = 0
  /\ pc[i] = "delivered" => shown[i] <= 1
  /\ pc[i] = "polling" => shown[i] <= faults["claim"]
  /\ hooked /\ pc[i] \in Attempting =>
       job[num[i]] = "inline" \/ faults["claim"] > 0
  /\ shown[i] <= 1 + faults["claim"]

(* Without overlaps one compaction at a time holds the present summary and *)
(* a prefix of the present window.                                         *)
OneCompaction ==
  /\ Len(compactions) <= 1
  /\ \A k \in DOMAIN compactions :
       /\ compactions[k].base = summary
       /\ Len(compactions[k].old) <= Len(history)
       /\ compactions[k].old = SubSeq(history, 1, Len(compactions[k].old))

ConversationInv ==
  /\ TypeOK
  /\ NumbersDistinct
  /\ GreetingInv
  /\ JobsOwned
  /\ \A i \in Turns : Delivered(i)
=============================================================================
