------------------------------- MODULE Clips -------------------------------
(***************************************************************************)
(* One read-aloud clip of the cache that all learners share: an S3 object  *)
(* and a row that names it and the settings it was generated under         *)
(* (ttsstore/ttsstore.go).  It is of a chat message, generated when it is  *)
(* first asked for (httpserver/message_audio.go), or of an article's       *)
(* summary, generated with the article as well                             *)
(* (transport/article_study_job.go, httpserver/articles.go).  While a new  *)
(* version is deployed, servers of both answer requests.                   *)
(***************************************************************************)
EXTENDS Naturals

CONSTANTS
  Users,     \* requests, article jobs and sweeps
  Versions,  \* of the settings, in the order of their deployment
  None,
  Subjects   \* bound: message or article, how many users and faults

VARIABLES
  subject,
  object,    \* None, or the clip: the version that generated it, and if whole
  index,     \* None, or the version in the row
  replica,   \* what the replica has of the row
  expired,   \* the row is older than the TTL
  newest,    \* the version that is being deployed
  user,
  crossed,   \* history: two of those who write object and row overlapped, or
             \* one of them did not get to its second write
  faults

vars == <<subject, object, index, replica, expired, newest, user, crossed, faults>>

Fault == faults < subject.faults /\ faults' = faults + 1

(* What a user has got; history: whether the clip was written or the row    *)
(* was behind while it looked.                                             *)
NewUser == [at |-> "new", kind |-> "none", version |-> None, got |-> None, disturbed |-> FALSE]

Init ==
  /\ subject \in Subjects
  /\ object = None /\ index = None /\ replica = None
  /\ expired = FALSE
  /\ newest \in Versions /\ \A v \in Versions : newest <= v
  /\ user = [q \in Users |-> NewUser]
  /\ crossed = FALSE /\ faults = 0

-----------------------------------------------------------------------------
(* Those between the first and the second of their two writes.              *)
Writing(q) == user[q].at \in {"drop", "record", "erase"}
Looking(q) == user[q].at = "get"

Goes(q, at) == user' = [user EXCEPT ![q].at = at]
Got(q, at, what) == user' = [user EXCEPT ![q].at = at, ![q].got = what]

(* A write disturbs whoever looks, and crosses another's.                   *)
Writes(q, at) ==
  /\ user' = [p \in Users |-> IF p = q THEN [user[p] EXCEPT !.at = at]
                              ELSE [user[p] EXCEPT !.disturbed = @ \/ Looking(p)]]
  /\ crossed' = (crossed \/ \E p \in Users \ {q} : Writing(p))

(* A failure between the two. *)
Tears(q, at) ==
  /\ Goes(q, at) /\ Fault /\ crossed' = TRUE
  /\ UNCHANGED <<object, index, replica, expired>>

-----------------------------------------------------------------------------
(* A server of the old or the new version is asked for the clip. *)
Ask(q) ==
  /\ user[q].at = "new"
  /\ \E v \in Versions :
       /\ v <= newest /\ v + 1 >= newest
       /\ user' = [user EXCEPT ![q].at = "look", ![q].kind = "ask", ![q].version = v]
  /\ UNCHANGED <<subject, object, index, replica, expired, newest, crossed, faults>>

(* The study of an article generates its clip once, without looking; by     *)
(* then the article can be asked for.                                      *)
Study(q) ==
  /\ subject.of = "article" /\ user[q].at = "new"
  /\ \A p \in Users : user[p].kind # "study"
  /\ user' = [user EXCEPT ![q].at = "speak", ![q].kind = "study", ![q].version = newest]
  /\ UNCHANGED <<subject, object, index, replica, expired, newest, crossed, faults>>

(* Mutation of Stale: the version is not compared. *)
StaleNever(row, version) == FALSE

Stale(row, version) == row # version

(* The row is read from the replica.  One of another version is deleted.    *)
Lookup(q) ==
  /\ user[q].at = "look"
  /\ \/ /\ user' = [user EXCEPT
             ![q].at = IF replica = None THEN "speak"
                       ELSE IF Stale(replica, user[q].version) THEN "unlink" ELSE "get",
             ![q].disturbed = (replica # index \/ crossed \/ \E p \in Users : Writing(p))]
        /\ UNCHANGED faults
     \/ Goes(q, "failed") /\ Fault
  /\ UNCHANGED <<subject, object, index, replica, expired, newest, crossed>>

(* A clip that the row names and S3 has not is an error, not a miss.        *)
Get(q) ==
  /\ user[q].at = "get"
  /\ IF object = None THEN Goes(q, "unreadable") ELSE Got(q, "end", object)
  /\ UNCHANGED <<subject, object, index, replica, expired, newest, crossed, faults>>

(* The object of another version goes, then its row; a failure is logged.   *)
Unlink(q) ==
  /\ user[q].at = "unlink"
  /\ \/ Writes(q, "drop") /\ object' = None /\ UNCHANGED faults
     \/ Goes(q, "speak") /\ Fault /\ UNCHANGED <<object, crossed>>
  /\ UNCHANGED <<subject, index, replica, expired, newest>>

Drop(q) ==
  /\ user[q].at = "drop"
  /\ \/ Writes(q, "speak") /\ index' = None /\ expired' = FALSE
        /\ UNCHANGED <<object, replica, faults>>
     \/ Tears(q, "speak")
  /\ UNCHANGED <<subject, newest>>

Clip(q, whole) == [version |-> user[q].version, whole |-> whole]

(* The browser or the model leaves off: a summary fails as a whole.         *)
Interrupted(q) ==
  IF subject.of = "message" THEN Got(q, "end", Clip(q, FALSE)) ELSE Got(q, "failed", None)

(* A message is streamed to the learner as it is generated; a summary is    *)
(* buffered.                                                               *)
Speak(q) ==
  /\ user[q].at = "speak"
  /\ \/ Got(q, "put", Clip(q, TRUE)) /\ UNCHANGED faults
     \/ Interrupted(q) /\ Fault
  /\ UNCHANGED <<subject, object, index, replica, expired, newest, crossed>>

(* A clip that cannot be cached is lost to those who wait for it buffered.  *)
Unsaved(q) ==
  IF subject.of = "message" THEN Goes(q, "end") ELSE Got(q, "failed", None)

Put(q) ==
  /\ user[q].at = "put"
  /\ \/ Writes(q, "record") /\ object' = user[q].got /\ UNCHANGED faults
     \/ Unsaved(q) /\ Fault /\ UNCHANGED <<object, crossed>>
  /\ UNCHANGED <<subject, index, replica, expired, newest>>

Record(q) ==
  /\ user[q].at = "record"
  /\ \/ Writes(q, "end") /\ index' = user[q].version /\ expired' = FALSE /\ UNCHANGED faults
     \/ Unsaved(q) /\ Fault /\ crossed' = TRUE /\ UNCHANGED <<index, expired>>
  /\ UNCHANGED <<subject, object, replica, newest>>

(* A sweep selects the rows that have expired, on the primary; it deletes   *)
(* their objects, then the rows it selected, whatever they say by then.     *)
Sweep(q) ==
  /\ user[q].at = "new" /\ expired
  /\ Goes(q, "sweep")
  /\ UNCHANGED <<subject, object, index, replica, expired, newest, crossed, faults>>

SweepObject(q) ==
  /\ user[q].at = "sweep"
  /\ \/ Writes(q, "erase") /\ object' = None /\ UNCHANGED faults
     \/ Goes(q, "end") /\ Fault /\ UNCHANGED <<object, crossed>>
  /\ UNCHANGED <<subject, index, replica, expired, newest>>

SweepRow(q) ==
  /\ user[q].at = "erase"
  /\ \/ Writes(q, "end") /\ index' = None /\ expired' = FALSE
        /\ UNCHANGED <<object, replica, faults>>
     \/ Tears(q, "end")
  /\ UNCHANGED <<subject, newest>>

Replicate ==
  /\ replica # index /\ replica' = index
  /\ UNCHANGED <<subject, object, index, expired, newest, user, crossed, faults>>

Expire ==
  /\ index # None /\ ~expired /\ expired' = TRUE
  /\ UNCHANGED <<subject, object, index, replica, newest, user, crossed, faults>>

Deploy ==
  /\ newest + 1 \in Versions /\ newest' = newest + 1
  /\ UNCHANGED <<subject, object, index, replica, expired, user, crossed, faults>>

-----------------------------------------------------------------------------
Next ==
  \/ \E q \in Users : \/ Ask(q) \/ Study(q) \/ Lookup(q) \/ Get(q) \/ Unlink(q) \/ Drop(q)
                      \/ Speak(q) \/ Put(q) \/ Record(q)
                      \/ Sweep(q) \/ SweepObject(q) \/ SweepRow(q)
  \/ Replicate \/ Expire \/ Deploy

Spec == Init /\ [][Next]_vars

-----------------------------------------------------------------------------
Clips == [version : Versions, whole : BOOLEAN]

(* Every variable keeps its type. *)
TypeOK ==
  /\ object \in Clips \cup {None}
  /\ index \in Versions \cup {None} /\ replica \in Versions \cup {None}
  /\ newest \in Versions
  /\ faults \in 0..subject.faults

(* What is cached is whole, and it is what its row says: unless two writers *)
(* crossed, a row that nobody is writing names an object of its version,    *)
(* and a learner whose request nothing disturbed is never told that a       *)
(* cached clip cannot be read, nor played one of other settings.            *)
ClipsPlay ==
  /\ object # None => object.whole
  /\ ~crossed /\ index # None /\ (\A q \in Users : ~Writing(q))
       => object # None /\ object.version = index
  /\ \A q \in Users : ~user[q].disturbed
       => /\ user[q].at # "unreadable"
          /\ user[q].got # None => user[q].got.version = user[q].version
=============================================================================
