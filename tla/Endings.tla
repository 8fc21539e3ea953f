------------------------------- MODULE Endings -------------------------------
(***************************************************************************)
(* How chat rooms end (transport/session_finalize.go, study_summary_job.go,*)
(* study_quiz_job.go, profile_regenerate_job.go and the handlers under     *)
(* httpserver/sessions_*.go): freezing a room, the study summary and the   *)
(* quiz that its corrections make, the learner's profile into which every  *)
(* summary is folded, the handlers that ask for them again, and the room's *)
(* deletion, which has the profile written anew from the rooms left.       *)
(*                                                                         *)
(* A profile is the set of the rooms whose summary was folded into it.     *)
(* Its revision, only ever compared with a snapshot's, is whether a fold's *)
(* snapshot is stale.  The durable queue is the one of JobQueue, reduced   *)
(* to its deduplication: a job's key is held until the job has ended, and  *)
(* with Redis only.                                                        *)
(***************************************************************************)
EXTENDS Integers, FiniteSetsExt

CONSTANTS
  Chats,       \* rooms of one learner
  Scenarios,   \* bound: the studies that are followed in one behaviour
  MaxEvents,   \* bound: requests to end, to summarize or to quiz again, and
               \* faults: enqueues that fail, attempts that die, folds the
               \* model fails at, waits given up
  Nobody       \* no room: in the place of one in the profile's own job

VARIABLES
  followed,    \* one of the Scenarios
  exists,      \* rooms that are not deleted
  ended,       \* buddy_sessions.ended
  fix,         \* the correction of each room's text
  status,      \* study_summary_status and quiz_status; "unset" is the empty string
  content,     \* study_summary and quiz are not empty
  job,         \* how far each durable job is
  issues,      \* the job found issues among the corrections it read
  fold,        \* the profile each job is about to publish, or Nobody
  profile,     \* learner_profile
  wanted,      \* restarts whose eligibility was checked
  enqueue,     \* jobs whose row is written and that are to be enqueued
  refused,     \* history: enqueues a job with nothing more to write refused
  hurried,     \* history: rooms wrapped up before their correction was done
  clobbered,   \* history: rooms whose summary was emptied by a restart
  unfolded,    \* history: rooms whose summary was not folded, for a fault
  asks, faults \* history: how many of the MaxEvents there were

rows == <<exists, ended, fix, status, content, profile>>
work == <<job, issues, fold, wanted, enqueue>>
history == <<refused, hurried, clobbered, unfolded, asks, faults>>
vars == <<followed, rows, work, history>>

Studies == {"summary", "quiz"} \X Chats
Rebuild == <<"profile", Nobody>>
Jobs == Studies \cup {Rebuild}
Phases == {"none", "queued", "waiting", "asking", "merging", "publishing",
           "rebuilding", "written"}

(* The rooms a job's profile comes from, once they are listed.             *)
Fold == [stale : BOOLEAN, of : (SUBSET Chats) \cup {Nobody}, text : SUBSET Chats]

Fault == asks + faults < MaxEvents /\ faults' = faults + 1
Ask == asks + faults < MaxEvents /\ asks' = asks + 1

Init ==
  /\ followed \in Scenarios
  /\ exists = Chats
  /\ ended = {}
  /\ fix = [c \in Chats |-> "none"]
  /\ status = [s \in Studies |-> "unset"]
  /\ content = [s \in Studies |-> FALSE]
  /\ job = [j \in Jobs |-> "none"]
  /\ issues = {}
  /\ fold = [j \in Jobs |-> Nobody]
  /\ profile = {}
  /\ wanted = {} /\ enqueue = {}
  /\ refused = {} /\ hurried = {} /\ clobbered = {} /\ unfolded = {}
  /\ asks = 0 /\ faults = 0

-----------------------------------------------------------------------------
(* The correction of the room's text: its job's row is reserved, and its   *)
(* verdict flags something or not; a failed one may still succeed.         *)
Reserve(c) ==
  /\ c \in exists /\ fix[c] = "none"
  /\ fix' = [fix EXCEPT ![c] = "pending"]
  /\ UNCHANGED <<exists, ended, status, content, profile, work, history>>

Judge(c) ==
  /\ fix[c] \in {"pending", "failed"}
  /\ \E v \in {"flagged", "clean", "failed"} : fix' = [fix EXCEPT ![c] = v]
  /\ UNCHANGED <<exists, ended, status, content, profile, work, history>>

(* FinalizeSession, for the learner's End or for the correction job of an  *)
(* instant room: the row is frozen and both studies are enqueued.          *)
End(c) ==
  LET asked == {s \in followed : s[2] = c} IN
  /\ Ask
  /\ IF c \in exists
     THEN /\ ended' = ended \cup {c}
          /\ status' = [s \in Studies |-> IF s \in asked THEN "pending" ELSE status[s]]
     ELSE UNCHANGED <<ended, status>>
  /\ enqueue' = enqueue \cup asked
  /\ UNCHANGED <<exists, fix, content, profile, job, issues, fold, wanted, refused,
                 hurried, clobbered, unfolded, faults>>

(* The eligibility a restart reads: an empty summary that is done, a quiz  *)
(* that is done or failed.                                                 *)
Eligible(s) ==
  /\ s \in followed /\ s[2] \in ended
  /\ \/ s[1] = "summary" /\ status[s] \in {"done", "unset"} /\ ~ content[s]
     \/ s[1] = "quiz" /\ status[s] \in {"done", "failed", "unset"}

Check(s) ==
  /\ Ask
  /\ Eligible(s)
  /\ wanted' = wanted \cup {s}
  /\ UNCHANGED <<rows, job, issues, fold, enqueue, refused, hurried, clobbered, unfolded, faults>>

(* The restart itself is a plain UPDATE, some time after. *)
Restart(s) ==
  /\ s \in wanted
  /\ wanted' = wanted \ {s}
  /\ IF s[2] \in exists
     THEN /\ status' = [status EXCEPT ![s] = "pending"]
          /\ content' = [content EXCEPT ![s] = FALSE]
          /\ clobbered' = IF s[1] = "summary" /\ content[s] THEN clobbered \cup {s[2]}
                          ELSE clobbered
     ELSE UNCHANGED <<status, content, clobbered>>
  /\ enqueue' = enqueue \cup {s}
  /\ UNCHANGED <<exists, ended, fix, profile, job, issues, fold, refused, hurried,
                 unfolded, asks, faults>>

(* A visit to an ended room whose summary is pending though its text was   *)
(* flagged.                                                                *)
Visit(c) ==
  LET s == <<"summary", c>> IN
  /\ c \in ended /\ status[s] = "pending" /\ ~ content[s] /\ fix[c] = "flagged"
  /\ s \in followed \ enqueue
  /\ enqueue' = enqueue \cup {s}
  /\ UNCHANGED <<rows, job, issues, fold, wanted, history>>

(* The job has read, or written, all that it will. *)
Past(j) == IF j = Rebuild THEN job[j] = "written"
           ELSE job[j] \in {"merging", "publishing", "rebuilding", "written"}

(* EnqueueAndRunInBackground: a key that is held refuses the job. *)
Enqueue(j) ==
  /\ j \in enqueue
  /\ enqueue' = enqueue \ {j}
  /\ job' = IF job[j] = "none" THEN [job EXCEPT ![j] = "queued"] ELSE job
  /\ refused' = IF Past(j) THEN refused \cup {j} ELSE refused \ {j}
  /\ UNCHANGED <<rows, issues, fold, wanted, hurried, clobbered, unfolded, asks, faults>>

(* The process dies, or Redis does, between the row and the queue. *)
LoseEnqueue(j) ==
  /\ j \in enqueue
  /\ Fault
  /\ enqueue' = enqueue \ {j}
  /\ refused' = IF job[j] = "none" \/ Past(j) THEN refused \cup {j} ELSE refused
  /\ UNCHANGED <<rows, job, issues, fold, wanted, hurried, clobbered, unfolded, asks>>

-----------------------------------------------------------------------------
To(j, phase) == job' = [job EXCEPT ![j] = phase]

Take(j) ==
  /\ job[j] = "queued"
  /\ To(j, IF j = Rebuild THEN "rebuilding" ELSE "waiting")
  /\ UNCHANGED <<rows, issues, fold, wanted, enqueue, history>>

(* Mutation of NonePending: the corrections are read as they are. *)
ReadAtOnce(c) == c \in Chats

NonePending(c) == fix[c] # "pending"

(* waitForPendingCorrections, until none is pending or for 90 s, and       *)
(* CollectStudyIssues.  A correction that is not reserved yet, or that     *)
(* failed so far, is not waited for.                                       *)
Collect(s) ==
  LET c == s[2] IN
  /\ job[s] = "waiting"
  /\ c \in exists
  /\ \/ /\ NonePending(c)
        /\ hurried' = IF fix[c] \in {"none", "failed"} THEN hurried \cup {c} ELSE hurried
        /\ UNCHANGED faults
     \/ /\ ~ NonePending(c)
        /\ Fault
        /\ hurried' = hurried \cup {c}
  /\ issues' = IF fix[c] = "flagged" THEN issues \cup {s} ELSE issues \ {s}
  /\ To(s, "asking")
  /\ UNCHANGED <<rows, fold, wanted, enqueue, refused, clobbered, unfolded, asks>>

(* The study is saved, empty if there was nothing to study, and a summary  *)
(* goes on to the profile.                                                 *)
Complete(s) ==
  /\ job[s] = "asking"
  /\ IF s[2] \in exists
     THEN /\ content' = [content EXCEPT ![s] = s \in issues]
          /\ status' = [status EXCEPT ![s] = "done"]
     ELSE UNCHANGED <<content, status>>
  /\ To(s, IF s[1] = "summary" /\ s \in issues THEN "merging" ELSE "written")
  /\ UNCHANGED <<exists, ended, fix, profile, issues, fold, wanted, enqueue, history>>

(* Mutation of Fail: the attempt fails, and nobody is told. *)
FailSilently(s) ==
  /\ job[s] = "asking" /\ s \in issues
  /\ UNCHANGED status
  /\ \E phase \in {"queued", "none"} : To(s, phase)
  /\ UNCHANGED <<exists, ended, fix, content, profile, issues, fold, wanted, enqueue, history>>

(* The model fails or answers nothing: the row says so, and the queue runs *)
(* the job again or abandons it.                                           *)
Fail(s) ==
  /\ job[s] = "asking" /\ s \in issues
  /\ status' = IF s[2] \in exists THEN [status EXCEPT ![s] = "failed"] ELSE status
  /\ unfolded' = IF s[1] = "summary" /\ content[s] THEN unfolded \cup {s[2]} ELSE unfolded
  /\ \E phase \in {"queued", "none"} : To(s, phase)
  /\ UNCHANGED <<exists, ended, fix, content, profile, issues, fold, wanted, enqueue,
                 refused, hurried, clobbered, asks, faults>>

(* Every attempt that finds its room deleted ends, for good in the end. *)
Drop(s) ==
  /\ job[s] \in {"waiting", "asking"} /\ s[2] \notin exists
  /\ To(s, "none")
  /\ UNCHANGED <<rows, issues, fold, wanted, enqueue, history>>

(* An attempt dies; the reaper queues the job again. *)
Die(j) ==
  /\ job[j] \notin {"none", "queued"}
  /\ Fault
  /\ To(j, "queued")
  /\ fold' = [fold EXCEPT ![j] = Nobody]
  /\ UNCHANGED <<rows, issues, wanted, enqueue, refused, hurried, clobbered, unfolded, asks>>

(* The job's key is released. *)
Finish(j) ==
  /\ job[j] = "written"
  /\ To(j, "none")
  /\ UNCHANGED <<rows, issues, fold, wanted, enqueue, history>>

-----------------------------------------------------------------------------
(* mergeSummaryProfile: one query reads the profile and its revision, for  *)
(* the model to fold the new summary into.                                 *)
Merge(s) ==
  LET c == s[2] IN
  /\ job[s] = "merging"
  /\ To(s, "publishing")
  /\ fold' = [fold EXCEPT ![s] =
       [stale |-> FALSE, of |-> {c}, text |-> profile \cup {c}]]
  /\ UNCHANGED <<rows, issues, wanted, enqueue, history>>

(* regenerateProfileSnapshot: the revision... *)
ReadRevision(j) ==
  /\ job[j] = "rebuilding" /\ fold[j] = Nobody
  /\ fold' = [fold EXCEPT ![j] = [stale |-> FALSE, of |-> Nobody, text |-> {}]]
  /\ UNCHANGED <<rows, job, issues, wanted, enqueue, history>>

Listed == {c \in exists : content[<<"summary", c>>] /\ c \in ended}

(* ... and then, in another query, the rooms with a summary, which are     *)
(* folded one by one, from nothing.                                        *)
List(j) ==
  /\ job[j] = "rebuilding" /\ fold[j] # Nobody
  /\ To(j, "publishing")
  /\ fold' = [fold EXCEPT ![j].of = Listed, ![j].text = Listed]
  /\ UNCHANGED <<rows, issues, wanted, enqueue, history>>

Stale(fs) == [j \in Jobs |-> IF fs[j] = Nobody THEN Nobody ELSE [fs[j] EXCEPT !.stale = TRUE]]

(* Mutation of Publishable: the rooms are locked, the revision is not read. *)
PublishableUnread(j) == fold[j].of \subseteq exists

Publishable(j) == fold[j].of \subseteq exists /\ ~ fold[j].stale

(* PublishLearnerProfile locks the rooms' lifetimes and the profile.       *)
Publish(j) ==
  /\ job[j] = "publishing"
  /\ Publishable(j)
  /\ profile' = fold[j].text
  /\ fold' = Stale([fold EXCEPT ![j] = Nobody])
  /\ To(j, "written")
  /\ UNCHANGED <<exists, ended, fix, status, content, issues, wanted, enqueue, history>>

(* Mutation of Conflict: what is refused is given up. *)
ConflictDropped(j) ==
  /\ job[j] = "publishing"
  /\ ~ Publishable(j)
  /\ fold' = [fold EXCEPT ![j] = Nobody]
  /\ To(j, "written")
  /\ UNCHANGED <<rows, issues, wanted, enqueue, history>>

(* What it refuses is written anew from every room, unless the summary's   *)
(* own room is gone.                                                       *)
Conflict(j) ==
  /\ job[j] = "publishing"
  /\ ~ Publishable(j)
  /\ fold' = [fold EXCEPT ![j] = Nobody]
  /\ To(j, IF j # Rebuild /\ j[2] \notin exists THEN "written" ELSE "rebuilding")
  /\ UNCHANGED <<rows, issues, wanted, enqueue, history>>

(* The model fails: a summary's job has its summary and only logs it; the  *)
(* profile's own job runs again or is abandoned.                           *)
FoldFails(j) ==
  /\ job[j] = "publishing"
  /\ Fault
  /\ fold' = [fold EXCEPT ![j] = Nobody]
  /\ IF j = Rebuild THEN \E phase \in {"queued", "none"} : To(j, phase) ELSE To(j, "written")
  /\ unfolded' = IF j = Rebuild THEN Chats ELSE unfolded \cup {j[2]}
  /\ UNCHANGED <<rows, issues, wanted, enqueue, refused, hurried, clobbered, asks>>

(* DeleteSessionWithProfileState: one transaction marks the room, makes    *)
(* every fold's snapshot stale, clears a profile the room is part of, and  *)
(* deletes the rows.                                                       *)
Delete(c) ==
  LET contributed == content[<<"summary", c>>] IN
  /\ c \in exists
  /\ exists' = exists \ {c}
  /\ ended' = ended \ {c}
  /\ fix' = [fix EXCEPT ![c] = "none"]
  /\ status' = [s \in Studies |-> IF s[2] = c THEN "unset" ELSE status[s]]
  /\ content' = [s \in Studies |-> content[s] /\ s[2] # c]
  /\ profile' = IF contributed THEN {} ELSE profile
  /\ fold' = Stale(fold)
  /\ enqueue' = IF contributed THEN enqueue \cup {Rebuild} ELSE enqueue
  /\ UNCHANGED <<job, issues, wanted, history>>

-----------------------------------------------------------------------------
Step ==
  \/ \E c \in Chats : Reserve(c) \/ Judge(c) \/ End(c) \/ Visit(c) \/ Delete(c)
  \/ \E s \in Studies :
       \/ Check(s) \/ Restart(s) \/ Collect(s) \/ Complete(s) \/ Fail(s) \/ Drop(s)
       \/ Merge(s)
  \/ \E j \in Jobs :
       \/ Enqueue(j) \/ LoseEnqueue(j) \/ Take(j) \/ Die(j) \/ Finish(j)
       \/ ReadRevision(j) \/ List(j) \/ Publish(j) \/ Conflict(j) \/ FoldFails(j)

Next == Step /\ UNCHANGED followed

Spec == Init /\ [][Next]_vars

-----------------------------------------------------------------------------
TypeOK ==
  /\ followed \in Scenarios
  /\ exists \subseteq Chats /\ ended \subseteq exists
  /\ fix \in [Chats -> {"none", "pending", "flagged", "clean", "failed"}]
  /\ status \in [Studies -> {"unset", "pending", "done", "failed"}]
  /\ content \in [Studies -> BOOLEAN]
  /\ job \in [Jobs -> Phases]
  /\ issues \subseteq Studies
  /\ fold \in [Jobs -> Fold \cup {Nobody}]
  /\ profile \subseteq Chats
  /\ wanted \subseteq Studies /\ enqueue \subseteq Jobs
  /\ refused \subseteq Jobs
  /\ hurried \subseteq Chats /\ clobbered \subseteq Chats /\ unfolded \subseteq Chats
  /\ asks \in 0 .. MaxEvents /\ faults \in 0 .. MaxEvents

(* What a deleted room taught is in the learner's profile no more, however *)
(* many folds that had read it were under way.                             *)
ForgottenAfterDeletion ==
  profile \ exists \subseteq clobbered

AtRest == enqueue = {} /\ \A j \in Jobs : job[j] = "none"

(* When nothing is left to do the profile knows the summary of every room  *)
(* that has one, unless a fold failed or the profile's job was refused.    *)
NotesKept ==
  AtRest => \A c \in exists : content[<<"summary", c>>] =>
              c \in profile \cup unfolded \/ Rebuild \in refused

(* A study that is done has what the correction flagged, if the correction *)
(* was reserved by the time its job looked and did not take for ever.      *)
WrapUpComplete ==
  \A s \in Studies : status[s] = "done" /\ fix[s[2]] = "flagged" =>
                       content[s] \/ s[2] \in hurried

(* A study that is pending has a job that will still write it, except one  *)
(* that was asked for while an earlier one's key was held.                 *)
CanStillEnd(s) == s \in enqueue \/ job[s] \in {"queued", "waiting", "asking"}

PendingHasJob ==
  \A s \in Studies : status[s] = "pending" => CanStillEnd(s) \/ s \in refused

(* "harmless to race against this: EndSession is a plain UPDATE, and both  *)
(* ... dedupe" (session_finalize.go:72): without faults, every study that  *)
(* was asked for has ended when nothing is left to do.                     *)
NothingPendingAtRest ==
  faults = 0 /\ AtRest => \A s \in Studies : status[s] # "pending"
=============================================================================
