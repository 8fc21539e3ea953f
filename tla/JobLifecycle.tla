---------------------------- MODULE JobLifecycle ----------------------------
(***************************************************************************)
(* What the durable queue of internal/asyncjob promises its callers, with  *)
(* no list, claim, lease or retry in sight: a submitted job is pending     *)
(* until it ends, it ends once, and two pending jobs never share a dedupe  *)
(* key.  JobQueue implements this specification (see JobQueue!Lifecycle).  *)
(***************************************************************************)
CONSTANTS
  Keys,    \* dedupe keys
  JobId,   \* identities of jobs (uuid.New in Enqueue)
  NoKey    \* the key of an identity not handed out yet

VARIABLES
  key,     \* the dedupe key each job was submitted with
  ended    \* the jobs that were completed or abandoned

vars == <<key, ended>>

Pending(k) == \E id \in JobId : key[id] = k /\ id \notin ended

Init ==
  /\ key = [id \in JobId |-> NoKey]
  /\ ended = {}

(* A key that is already pending is refused; otherwise a fresh job starts. *)
Submit(id, k) ==
  /\ key[id] = NoKey
  /\ ~ Pending(k)
  /\ key' = [key EXCEPT ![id] = k]
  /\ UNCHANGED ended

(* The one end of a job: its handler succeeded, or its last attempt failed. *)
End(id) ==
  /\ key[id] # NoKey
  /\ id \notin ended
  /\ ended' = ended \cup {id}
  /\ UNCHANGED key

Next ==
  \/ \E id \in JobId, k \in Keys : Submit(id, k)
  \/ \E id \in JobId : End(id)

Spec == Init /\ [][Next]_vars

FairSpec == Spec /\ \A id \in JobId : WF_vars(End(id))
=============================================================================
