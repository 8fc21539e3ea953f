-------------------------------- MODULE Rooms --------------------------------
(***************************************************************************)
(* The rows of one chat room in MySQL (store/mysql_turns.go, _jobs.go,     *)
(* _sessions.go, _lifetime.go) and everything that writes them: the        *)
(* connections that number turns, the detached goroutines of persistEvent, *)
(* the reply, correction and title jobs, the backfill that a visit starts, *)
(* the learner who reads corrections, and the deletion.                    *)
(*                                                                         *)
(* A text is the input it came from, 0 being the greeting's; a correction  *)
(* is the draft of the Chat model or what the Judge made of it.  A write   *)
(* that was handed to a goroutine or to a job is a record in `late`, to be *)
(* applied at any time and in any order, after the room's deletion too.    *)
(* The durable queue's at-least-once delivery is Rerun.                    *)
(***************************************************************************)
EXTENDS Integers, FiniteSetsExt

CONSTANTS
  Conns,       \* WebSocket connections to the room
  Inputs,      \* texts the learner sends, over all of them
  TitleEvery,  \* TitleRegenerateEveryNTurns
  MaxLate,     \* bound: writes handed over and not yet applied
  MaxMishaps,  \* bound: corrections attempted again, connections opened
               \* before the last writes landed, visits that start a backfill
  Answered,    \* bound: the texts whose reply is followed
  Corrected,   \* bound: the texts whose correction is followed
  None         \* no row, no number, no correction

ASSUME RoomsAssumption ==
  /\ Inputs \in Nat
  /\ TitleEvery \in Nat \ {0}
  /\ MaxLate \in Nat /\ MaxMishaps \in Nat
  /\ Answered \subseteq 0 .. Inputs /\ Corrected \subseteq 1 .. Inputs
  /\ None \notin Int

VARIABLES
  hooked,      \* Redis is there: CorrectHook and ReplyHook are set
  deleted,     \* buddy_session_lifetimes.deleted
  session,     \* the buddy_sessions row
  user,        \* the buddy_turns rows of the learner
  assistant,   \* those of the assistant
  replyJob,    \* status of the buddy_jobs rows of kind reply
  correction,  \* and of kind correction
  next,        \* Session.turn of each open connection
  sent,        \* how many inputs were sent
  num,         \* the turn number each input took
  reply,       \* how far the reply to each input is
  analysis,    \* how far the correction of each input is
  drafted,     \* inputs whose Chat draft was shown
  late,        \* writes of goroutines and jobs to come
  backfill,    \* turns a running backfill found without a correction
  read,        \* history: corrections the learner has opened
  missed,      \* history: turns whose result came before their row
  again,       \* history: turns corrected by more than one attempt
  early,       \* history: a connection opened before the last was settled
  mishaps      \* history: how many of MaxMishaps there were

rows == <<session, user, assistant, replyJob, correction>>
live == <<next, sent, num>>
work == <<reply, analysis, drafted>>
history == <<read, missed, again, early, mishaps>>
vars == <<hooked, deleted, rows, live, work, late, backfill, history>>

Texts == 0 .. Inputs
Turns == 0 .. Inputs
Contents == {"draft", "judged"}
Statuses == {None, "pending", "done", "failed"}

Session == [title : Texts, generated : BOOLEAN]
Correction == [of : Texts, content : Contents, judge : BOOLEAN]
UserTurn == [text : Texts, correction : Correction \cup {None}, unread : BOOLEAN]
AssistantTurn == [text : Texts \cup {None}]

Write == [op : {"user", "assistant", "preview", "final", "failed", "title"},
          input : Texts, content : Contents \cup {None}]

(* What is not there differs from what may be. *)
ASSUME RowAssumption ==
  None \notin Session \cup UserTurn \cup AssistantTurn \cup Correction
              \cup {"pending", "done", "failed"}

Pending(op, i, c) == [op |-> op, input |-> i, content |-> c]

-----------------------------------------------------------------------------
(* A new room on its first connection, with its greeting to be said. *)
Init ==
  /\ hooked \in BOOLEAN
  /\ deleted = FALSE
  /\ session = None
  /\ user = [t \in Turns |-> None]
  /\ assistant = [t \in Turns |-> None]
  /\ replyJob = [t \in Turns |-> None]
  /\ correction = [t \in Turns |-> None]
  /\ \E c \in Conns : next = [d \in Conns |-> IF d = c THEN 0 ELSE None]
  /\ sent = 0
  /\ num = [i \in Texts |-> IF i = 0 THEN 0 ELSE None]
  /\ reply = [i \in Texts |-> IF i = 0 /\ i \in Answered THEN "asked" ELSE "none"]
  /\ analysis = [i \in Texts |-> "none"]
  /\ drafted = {}
  /\ late = {}
  /\ backfill = {}
  /\ read = {} /\ missed = {} /\ again = {}
  /\ early = FALSE /\ mishaps = 0

Mishap ==
  /\ mishaps < MaxMishaps
  /\ mishaps' = mishaps + 1

HandOver(ws) ==
  /\ late' = late \cup ws
  /\ Cardinality(late') <= MaxLate

(* Mutation of LastTurn: the replica is asked, which may lag behind. *)
LastTurnOfReplica(last) == last \in Turns

(* The highest number any saved turn has, whoever spoke, of the primary.   *)
LastTurn(last) ==
  last = Max({0} \cup {t \in Turns : user[t] # None \/ assistant[t] # None})

(* Another connection is open, or a text it numbered is not written yet.   *)
Unsettled ==
  \/ \E c \in Conns : next[c] # None
  \/ \E w \in late : w.op = "user"

(* ServeHTTP of a resumed room: Seed continues the numbers of LastTurn. *)
Open(c) ==
  /\ next[c] = None
  /\ IF Unsettled THEN Mishap /\ early' = TRUE ELSE UNCHANGED <<early, mishaps>>
  /\ \E last \in Turns : LastTurn(last) /\ next' = [next EXCEPT ![c] = last]
  /\ UNCHANGED <<hooked, deleted, rows, sent, num, work, late, backfill, read, missed, again>>

Close(c) ==
  /\ next[c] # None
  /\ next' = [next EXCEPT ![c] = None]
  /\ UNCHANGED <<hooked, deleted, rows, sent, num, work, late, backfill, history>>

(* The read loop drops the texts of a deleted room.  HandleText takes the  *)
(* next number; the turn's row is left to a goroutine, its reply and its   *)
(* correction to others.                                                   *)
Send(c) ==
  LET i == sent + 1
      n == next[c] + 1 IN
  /\ next[c] # None
  /\ ~ deleted
  /\ i <= Inputs /\ n \in Turns
  /\ sent' = i
  /\ next' = [next EXCEPT ![c] = n]
  /\ num' = [num EXCEPT ![i] = n]
  /\ reply' = [reply EXCEPT ![i] = IF i \in Answered THEN "asked" ELSE @]
  /\ analysis' = [analysis EXCEPT ![i] = IF i \in Corrected THEN "asked" ELSE @]
  /\ HandOver({Pending("user", i, None)})
  /\ UNCHANGED <<hooked, deleted, rows, drafted, backfill, history>>

-----------------------------------------------------------------------------
(* Mutation of EnsureSessionRow: the placeholder always wins. *)
PlaceholderWins(i) == session' = [title |-> i, generated |-> FALSE]

(* The row is made by the greeting or by the first text, and takes it as a *)
(* title unless it has a generated one.                                    *)
EnsureSessionRow(i) ==
  session' = IF session # None /\ session.generated
             THEN session
             ELSE [title |-> i, generated |-> FALSE]

(* Mutation of WithLiveSession: the lifetime is not locked. *)
WithoutLifetime(A) == A

(* Every inserting transaction locks the lifetime, and fails (which is     *)
(* logged) once the room is deleted.                                       *)
WithLiveSession(A) == IF deleted THEN UNCHANGED rows ELSE A

(* SaveTurn's upsert leaves a row's other columns alone. *)
UpsertUser(t, i) ==
  user' = [user EXCEPT ![t] =
    IF @ = None THEN [text |-> i, correction |-> None, unread |-> FALSE]
                ELSE [@ EXCEPT !.text = i]]

UpsertAssistant(t, i) ==
  assistant' = [assistant EXCEPT ![t] =
    IF @ = None THEN [text |-> i] ELSE [@ EXCEPT !.text = i]]

Applied(w) == late' = late \ {w}

SaveTurn(w) ==
  LET t == num[w.input] IN
  /\ w.op \in {"user", "assistant"}
  /\ Applied(w)
  /\ WithLiveSession(
       /\ IF t = 0 \/ (t = 1 /\ w.op = "user")
          THEN EnsureSessionRow(w.input) ELSE UNCHANGED session
       /\ IF w.op = "user"
          THEN UpsertUser(t, w.input) /\ UNCHANGED assistant
          ELSE UpsertAssistant(t, w.input) /\ UNCHANGED user
       /\ UNCHANGED <<replyJob, correction>>)
  /\ UNCHANGED <<hooked, deleted, live, work, backfill, history>>

(* Mutation of SaveCorrectionPreview: any stage is overwritten. *)
SavePreviewOverAll(w) ==
  LET t == num[w.input] IN
  /\ w.op = "preview"
  /\ Applied(w)
  /\ user' = IF user[t] = None THEN user ELSE [user EXCEPT ![t].unread = FALSE,
       ![t].correction = [of |-> w.input, content |-> "draft", judge |-> FALSE]]
  /\ UNCHANGED <<hooked, deleted, session, assistant, replyJob, correction, live, work,
                 backfill, history>>

HasVerdict(t) == user[t] # None /\ user[t].correction # None /\ user[t].correction.judge

(* The Chat draft, written by a goroutine, unless the Judge was first. *)
SaveCorrectionPreview(w) ==
  LET t == num[w.input] IN
  /\ w.op = "preview"
  /\ Applied(w)
  /\ user' = IF user[t] = None \/ HasVerdict(t) THEN user ELSE [user EXCEPT
       ![t].unread = FALSE,
       ![t].correction = [of |-> w.input, content |-> "draft", judge |-> FALSE]]
  /\ UNCHANGED <<hooked, deleted, session, assistant, replyJob, correction, live, work,
                 backfill, history>>

(* Mutation of Unread: a verdict saved a second time is unread again. *)
UnreadAgain(t, c, unread) == unread

(* A verdict that is saved again leaves the mark as it is. *)
Unread(t, c, unread) ==
  IF HasVerdict(t) /\ user[t].correction = c THEN user[t].unread ELSE unread

(* Mutation of SaveCorrectionFinal: the correction is left for later. *)
SaveJobOnly(t, i, content, unread) ==
  /\ correction' = IF correction[t] = None THEN correction
                   ELSE [correction EXCEPT ![t] = "done"]
  /\ UNCHANGED <<user, missed>>

(* The verdict and its job's status in one transaction of plain UPDATEs:   *)
(* what has no row is missed.                                              *)
SaveCorrectionFinal(t, i, content, unread) ==
  LET c == [of |-> i, content |-> content, judge |-> TRUE] IN
  /\ user' = IF user[t] = None THEN user ELSE
       [user EXCEPT ![t].unread = Unread(t, c, unread), ![t].correction = c]
  /\ correction' = IF correction[t] = None THEN correction
                   ELSE [correction EXCEPT ![t] = "done"]
  /\ missed' = IF user[t] = None THEN missed \cup {t} ELSE missed

(* persistEvent's goroutine, which saves what the handler saved before. *)
SaveFinalEvent(w) ==
  LET i == w.input IN
  /\ w.op = "final"
  /\ Applied(w)
  /\ SaveCorrectionFinal(num[i], i, w.content, i \notin drafted \/ w.content # "draft")
  /\ UNCHANGED <<hooked, deleted, session, assistant, replyJob, live, work, backfill,
                 read, again, early, mishaps>>

(* A plain UPDATE, whatever the status is. *)
FailJob(t) == correction' = IF correction[t] = None THEN correction
                            ELSE [correction EXCEPT ![t] = "failed"]

(* persistEvent's own FailJob, after the live attempt failed. *)
FailCorrectionJob(w) ==
  /\ w.op = "failed"
  /\ Applied(w)
  /\ FailJob(num[w.input])
  /\ UNCHANGED <<hooked, deleted, session, user, assistant, replyJob, live, work,
                 backfill, history>>

(* The title job: an upsert, which may make the row before any turn does. *)
SaveGeneratedTitle(w) ==
  /\ w.op = "title"
  /\ Applied(w)
  /\ WithLiveSession(
       /\ session' = [title |-> w.input, generated |-> TRUE]
       /\ UNCHANGED <<user, assistant, replyJob, correction>>)
  /\ UNCHANGED <<hooked, deleted, live, work, backfill, history>>

-----------------------------------------------------------------------------
(* NewReplyHook: the placeholder and the job's row, each only if there is  *)
(* none; its failure on a deleted room is logged.                          *)
ReserveAssistantTurn(i) ==
  LET t == num[i] IN
  /\ hooked
  /\ reply[i] = "asked"
  /\ reply' = [reply EXCEPT ![i] = "reserved"]
  /\ WithLiveSession(
       /\ assistant' = IF assistant[t] # None THEN assistant
                       ELSE [assistant EXCEPT ![t] = [text |-> None]]
       /\ replyJob' = IF replyJob[t] # None THEN replyJob
                      ELSE [replyJob EXCEPT ![t] = "pending"]
       /\ UNCHANGED <<session, user, correction>>)
  /\ UNCHANGED <<hooked, deleted, live, analysis, drafted, late, backfill, history>>

(* A new title for the first exchange, and for every so many after it. *)
ShouldGenerateTitle(t) == t > 0 /\ (t = 1 \/ t % TitleEvery = 0)

(* onDone and emit, of a room that still exists: the reply is saved once   *)
(* more, by a goroutine, and may give the room a title.                    *)
OnDone(i) ==
  /\ reply' = [reply EXCEPT ![i] = "done"]
  /\ IF deleted THEN UNCHANGED late ELSE
       HandOver({Pending("assistant", i, None)}
                \cup {w \in {Pending("title", i, None)} : ShouldGenerateTitle(num[i])})

(* ReplyJobHandler: the text and the status of its job in one transaction. *)
CompleteAssistantTurn(i) ==
  LET t == num[i] IN
  /\ reply[i] = "reserved"
  /\ OnDone(i)
  /\ WithLiveSession(
       /\ IF t = 0 THEN EnsureSessionRow(i) ELSE UNCHANGED session
       /\ assistant' = IF assistant[t] = None THEN assistant
                       ELSE [assistant EXCEPT ![t].text = i]
       /\ replyJob' = IF replyJob[t] = None THEN replyJob
                      ELSE [replyJob EXCEPT ![t] = "done"]
       /\ UNCHANGED <<user, correction>>)
  /\ UNCHANGED <<hooked, deleted, live, analysis, drafted, backfill, history>>

(* Without Redis the reply is only ever saved by the goroutine. *)
ReplyDirect(i) ==
  /\ ~ hooked
  /\ reply[i] = "asked"
  /\ OnDone(i)
  /\ UNCHANGED <<hooked, deleted, rows, live, analysis, drafted, backfill, history>>

-----------------------------------------------------------------------------
(* correct: the Chat model's draft is shown, if it made one... *)
Draft(i) ==
  /\ analysis[i] = "asked"
  /\ analysis' = [analysis EXCEPT ![i] = "drafted"]
  /\ \/ /\ drafted' = drafted \cup {i}
        /\ HandOver({Pending("preview", i, "draft")})
     \/ UNCHANGED <<drafted, late>>
  /\ UNCHANGED <<hooked, deleted, rows, live, reply, backfill, history>>

(* ... NewCorrectHook reserves the job's row and enqueues the job... *)
ReserveCorrectionJob(i) ==
  LET t == num[i] IN
  /\ hooked
  /\ analysis[i] = "drafted"
  /\ analysis' = [analysis EXCEPT ![i] = "queued"]
  /\ WithLiveSession(
       /\ correction' = IF correction[t] # None THEN correction
                        ELSE [correction EXCEPT ![t] = "pending"]
       /\ UNCHANGED <<session, user, assistant, replyJob>>)
  /\ UNCHANGED <<hooked, deleted, live, reply, drafted, late, backfill, history>>

(* ... or, without Redis, the Judge is called at once and its verdict is   *)
(* saved by the goroutine alone.                                           *)
JudgeDirect(i) ==
  /\ ~ hooked
  /\ analysis[i] = "drafted"
  /\ analysis' = [analysis EXCEPT ![i] = "ended"]
  /\ \/ \E content \in Contents : HandOver({Pending("final", i, content)})
     \/ IF i \in drafted THEN UNCHANGED late ELSE HandOver({Pending("failed", i, None)})
  /\ UNCHANGED <<hooked, deleted, rows, live, reply, drafted, backfill, history>>

(* CorrectionJobHandler: the verdict is saved, and the live connection's   *)
(* onResult hands it to persistEvent too.                                  *)
JudgeQueued(i) ==
  /\ analysis[i] \in {"queued", "requeued"}
  /\ analysis' = [analysis EXCEPT ![i] = "ended"]
  /\ \E content \in Contents :
       /\ IF deleted THEN UNCHANGED <<user, correction, missed>> ELSE
            SaveCorrectionFinal(num[i], i, content, i \notin drafted \/ content # "draft")
       /\ IF deleted \/ analysis[i] = "requeued" THEN UNCHANGED late ELSE
            HandOver({Pending("final", i, content)})
  /\ again' = IF analysis[i] = "requeued" THEN again \cup {num[i]} ELSE again
  /\ UNCHANGED <<hooked, deleted, session, assistant, replyJob, live, reply, drafted,
                 backfill, read, early, mishaps>>

(* An attempt fails, for a retry or for good; a live one says so unless    *)
(* the learner has the draft.                                              *)
JudgeFails(i) ==
  /\ analysis[i] = "queued"
  /\ FailJob(num[i])
  /\ analysis' = [analysis EXCEPT ![i] = "failing"]
  /\ IF i \in drafted THEN UNCHANGED late ELSE HandOver({Pending("failed", i, None)})
  /\ UNCHANGED <<hooked, deleted, session, user, assistant, replyJob, live, reply,
                 drafted, backfill, history>>

(* The queue runs a failed attempt again, or one whose claim was lost      *)
(* although it saved its verdict.                                          *)
Rerun(i) ==
  /\ hooked
  /\ analysis[i] \in {"failing", "ended"}
  /\ Mishap
  /\ analysis' = [analysis EXCEPT ![i] = "requeued"]
  /\ again' = again \cup {num[i]}
  /\ UNCHANGED <<hooked, deleted, rows, live, reply, drafted, late, backfill, read,
                 missed, early>>

-----------------------------------------------------------------------------
(* correctSession, which a visit enqueues when it finds a turn without a   *)
(* correction and without a job...                                         *)
NeedsCorrection(t) ==
  user[t] # None /\ user[t].correction = None /\ correction[t] = None

StartBackfill ==
  LET found == {t \in Turns : NeedsCorrection(t)} IN
  /\ hooked
  /\ backfill = {} /\ found # {}
  /\ Mishap
  /\ backfill' = found
  /\ UNCHANGED <<hooked, deleted, rows, live, work, late, read, missed, again, early>>

(* ... and which corrects the turns it found, as unread, whatever a live   *)
(* job has done since.                                                     *)
BackfillTurn(t) ==
  /\ t \in backfill
  /\ backfill' = backfill \ {t}
  /\ IF deleted \/ user[t] = None THEN UNCHANGED <<user, correction, missed, again>> ELSE
       \E content \in Contents :
         /\ SaveCorrectionFinal(t, user[t].text, content, TRUE)
         /\ again' = again \cup {t}
  /\ UNCHANGED <<hooked, deleted, session, assistant, replyJob, live, work, late, read,
                 early, mishaps>>

(* The learner opens a correction; a preview has nothing to acknowledge. *)
MarkCorrectionRead(t) ==
  /\ HasVerdict(t)
  /\ user' = [user EXCEPT ![t].unread = FALSE]
  /\ read' = read \cup {<<t, user[t].correction>>}
  /\ UNCHANGED <<hooked, deleted, session, assistant, replyJob, correction, live, work,
                 late, backfill, missed, again, early, mishaps>>

(* One transaction: the lifetime is marked and every row goes. *)
DeleteSession ==
  /\ ~ deleted
  /\ deleted' = TRUE
  /\ session' = None
  /\ user' = [t \in Turns |-> None]
  /\ assistant' = [t \in Turns |-> None]
  /\ replyJob' = [t \in Turns |-> None]
  /\ correction' = [t \in Turns |-> None]
  /\ read' = {} /\ missed' = {} /\ again' = {}
  /\ UNCHANGED <<hooked, live, work, late, backfill, early, mishaps>>

-----------------------------------------------------------------------------
ApplyLate ==
  \E w \in late :
    \/ SaveTurn(w)
    \/ SaveCorrectionPreview(w)
    \/ SaveFinalEvent(w)
    \/ FailCorrectionJob(w)
    \/ SaveGeneratedTitle(w)

Next ==
  \/ \E c \in Conns : Open(c) \/ Close(c) \/ Send(c)
  \/ ApplyLate
  \/ \E i \in Texts :
       \/ ReserveAssistantTurn(i) \/ CompleteAssistantTurn(i) \/ ReplyDirect(i)
       \/ Draft(i) \/ ReserveCorrectionJob(i) \/ JudgeDirect(i)
       \/ JudgeQueued(i) \/ JudgeFails(i) \/ Rerun(i)
  \/ StartBackfill
  \/ \E t \in Turns : BackfillTurn(t) \/ MarkCorrectionRead(t)
  \/ DeleteSession

Spec == Init /\ [][Next]_vars

-----------------------------------------------------------------------------
TypeOK ==
  /\ hooked \in BOOLEAN
  /\ deleted \in BOOLEAN
  /\ session \in Session \cup {None}
  /\ user \in [Turns -> UserTurn \cup {None}]
  /\ assistant \in [Turns -> AssistantTurn \cup {None}]
  /\ replyJob \in [Turns -> Statuses]
  /\ correction \in [Turns -> Statuses]
  /\ next \in [Conns -> Turns \cup {None}]
  /\ sent \in Texts
  /\ num \in [Texts -> Turns \cup {None}]
  /\ reply \in [Texts -> {"none", "asked", "reserved", "done"}]
  /\ analysis \in [Texts -> {"none", "asked", "drafted", "queued", "failing",
                              "requeued", "ended"}]
  /\ drafted \subseteq Texts
  /\ late \subseteq Write
  /\ backfill \subseteq Turns
  /\ read \subseteq Turns \X Correction
  /\ missed \subseteq Turns
  /\ again \subseteq Turns
  /\ early \in BOOLEAN
  /\ mishaps \in 0 .. MaxMishaps

(* Whatever goroutine, job or backfill still has to write when a room is   *)
(* deleted, no row of the room is ever made again.                         *)
NothingSurvivesDeletion ==
  deleted => /\ session = None
             /\ \A t \in Turns : /\ user[t] = None /\ assistant[t] = None
                                 /\ replyJob[t] = None /\ correction[t] = None

(* A job whose row says done has left a result to read, which the page     *)
(* that polls it counts on: a reply its text, a correction the Judge's     *)
(* verdict, unless the verdict came before the row of its turn.            *)
DoneIsReadable ==
  \A t \in Turns :
    /\ replyJob[t] = "done" => assistant[t] # None /\ assistant[t].text # None
    /\ correction[t] = "done" => HasVerdict(t) \/ t \in missed

(* No two texts of the learner take the same number, over any sequence of  *)
(* connections each of which found the numbers before it written.          *)
FreshNumbers ==
  ~ early => \A i, j \in 1 .. sent : i # j => num[i] # num[j]

(* A verdict that differs from the draft the learner saw is marked unread  *)
(* until it is opened, and only such a one, although the job and the live  *)
(* connection both save it, on either side of the learner's opening it.    *)
UnreadUntilRead ==
  ~ early => \A t \in Turns \ again : HasVerdict(t) =>
    LET c == user[t].correction IN
    user[t].unread <=> /\ c.of \notin drafted \/ c.content # "draft"
                       /\ <<t, c>> \notin read

(* What is final stands, however late the writes are that were made before *)
(* it: a generated title is never replaced by the placeholder of a first   *)
(* turn, nor the Judge's verdict by the Chat draft.                        *)
ResultsStand ==
  [][/\ session # None /\ session.generated /\ session' # None => session'.generated
     /\ \A t \in Turns : HasVerdict(t) => HasVerdict(t)' \/ user'[t] = None]_vars
=============================================================================
