------------------------------ MODULE JobQueue ------------------------------
(***************************************************************************)
(* The durable background-job queue of apps/server/internal/asyncjob, for  *)
(* one Kind: a Redis list of queued entries, the list of entries being     *)
(* processed, the dedupe set, one expiring claim key per job and one       *)
(* checkpoint hash per job.  An entry is the job's JSON, of which only the *)
(* identity and the attempt number matter here, and the claim holds the    *)
(* attempt number as a fencing token.                                      *)
(*                                                                         *)
(* Every Lua script and every single Redis command is one atomic action;   *)
(* everything between two of them can be interleaved with anything else.   *)
(* Time is abstract: a claim may expire whenever nothing renews it, and,   *)
(* MaxLateRenewals times, although its executor is still alive.            *)
(***************************************************************************)
EXTENDS Integers, SequencesExt

CONSTANTS
  Keys,             \* dedupe keys
  JobId,            \* job identities
  NoKey,            \* no dedupe key: the identity is not handed out yet
  Executors,        \* goroutines that can run a job, in pools or inline
  Reapers,          \* goroutines inside reapOnce or RequeueExpired
  NoEntry,          \* an idle executor's or reaper's entry
  Steps,            \* model calls a handler checkpoints
  MaxAttempts,      \* worker.go MaxAttempts
  MaxCrashes,       \* bound: executors that vanish
  MaxLateRenewals,  \* bound: claims that expire under a live executor
  MaxWindowReaps,   \* bound: entries reaped between BLMOVE and SETNX
  MaxFaults         \* bound: these three together

ASSUME QueueAssumption ==
  /\ NoKey \notin Keys
  /\ MaxAttempts \in Nat \ {0}
  /\ MaxCrashes \in Nat
  /\ MaxLateRenewals \in Nat
  /\ MaxWindowReaps \in Nat
  /\ MaxFaults \in Nat

VARIABLES
  queue,       \* the :queue list, pushed and popped at its right end
  processing,  \* the :processing list; its order is never used
  dedupe,      \* the :dedupe set
  claim,       \* the :claim keys, NoClaim when absent or expired
  ckpt,        \* the :checkpoint hashes, as the set of saved steps
  key,         \* the DedupeKey inside each job's JSON
  hook,        \* jobs whose creator may still try to claim them inline
  pc,          \* where each executor is
  held,        \* the entry each executor took
  scan,        \* the entry each reaper read and has not acted upon
  ended,       \* history: jobs whose completeScript ran
  faults       \* history: how many faults of each kind have happened

store == <<queue, processing, dedupe, claim, ckpt>>
vars == <<queue, processing, dedupe, claim, ckpt, key, hook, pc, held, scan,
          ended, faults>>

NoClaim == -1
Entry == [id : JobId, att : Nat]
Phase == {"idle", "moved", "claimed", "running", "succeeded", "failed"}
Faults == {"crash", "late", "window"}

(* The phases in which an executor believes that it owns its job's claim. *)
Claiming == {"claimed", "running", "succeeded", "failed"}

Queued == ToSet(queue)
Live == Queued \cup processing
LiveIds == {e.id : e \in Live}

(* No job is twice in q. *)
Distinct(q) == \A i, j \in DOMAIN q : q[i].id = q[j].id => i = j

(* The GET ~= token test that opens every script of an owner. *)
Owns(w) == claim[held[w].id] = held[w].att

(* Some executor will still renew the claim, or end the job, under it. *)
Renewed(id) ==
  \E w \in Executors : pc[w] \in Claiming /\ held[w].id = id /\ Owns(w)

(* Some executor moved e to processing and has not set its claim. *)
InWindow(e) == \E w \in Executors : pc[w] = "moved" /\ held[w] = e

-----------------------------------------------------------------------------
Init ==
  /\ queue = <<>>
  /\ processing = {}
  /\ dedupe = {}
  /\ claim = [id \in JobId |-> NoClaim]
  /\ ckpt = [id \in JobId |-> {}]
  /\ key = [id \in JobId |-> NoKey]
  /\ hook = {}
  /\ pc = [w \in Executors |-> "idle"]
  /\ held = [w \in Executors |-> NoEntry]
  /\ scan = [r \in Reapers |-> NoEntry]
  /\ ended = {}
  /\ faults = [f \in Faults |-> 0]

(* Enqueue: enqueueScript.  A key in the dedupe set changes nothing. *)
Enqueue(id, k) ==
  /\ key[id] = NoKey
  /\ k \notin dedupe
  /\ dedupe' = dedupe \cup {k}
  /\ queue' = Append(queue, [id |-> id, att |-> 0])
  /\ key' = [key EXCEPT ![id] = k]
  /\ hook' = hook \cup {id}
  /\ UNCHANGED <<processing, claim, ckpt, pc, held, scan, ended, faults>>

(* The executor takes e; nothing else of it is left from its last job. *)
Take(w, e, phase) ==
  /\ pc[w] = "idle"
  /\ pc' = [pc EXCEPT ![w] = phase]
  /\ held' = [held EXCEPT ![w] = e]

(* Mutation of Dispatch: a plain BRPOP that leaves no processing entry. *)
DispatchPopOnly(w) ==
  /\ queue # <<>>
  /\ Take(w, Last(queue), "moved")
  /\ queue' = Front(queue)
  /\ UNCHANGED <<processing, dedupe, claim, ckpt, key, hook, scan, ended, faults>>

(* claimLoop: BLMOVE queue processing RIGHT LEFT.  No claim exists yet. *)
Dispatch(w) ==
  /\ queue # <<>>
  /\ Take(w, Last(queue), "moved")
  /\ queue' = Front(queue)
  /\ processing' = processing \cup {Last(queue)}
  /\ UNCHANGED <<dedupe, claim, ckpt, key, hook, scan, ended, faults>>

(* run: SETNX of the claim, a command of its own after the move. *)
SetClaim(w) ==
  /\ pc[w] = "moved"
  /\ claim[held[w].id] = NoClaim
  /\ claim' = [claim EXCEPT ![held[w].id] = held[w].att]
  /\ pc' = [pc EXCEPT ![w] = "claimed"]
  /\ UNCHANGED <<queue, processing, dedupe, ckpt, key, hook, held, scan,
                 ended, faults>>

(* Back to idle with nothing held. *)
Release(w) ==
  /\ pc' = [pc EXCEPT ![w] = "idle"]
  /\ held' = [held EXCEPT ![w] = NoEntry]

(* run: SETNX found another claim, so the entry is left in processing. *)
ClaimContested(w) ==
  /\ pc[w] = "moved"
  /\ claim[held[w].id] # NoClaim
  /\ Release(w)
  /\ UNCHANGED <<store, key, hook, scan, ended, faults>>

(* TryClaimByID by the goroutine that enqueued id: claimByIDScript takes   *)
(* the entry out of the middle of the queue and claims it in one step...   *)
ClaimByID(w, id) ==
  LET e == [id |-> id, att |-> 0] IN
  /\ id \in hook
  /\ hook' = hook \ {id}
  /\ Take(w, e, "claimed")
  /\ \E i \in DOMAIN queue :
       /\ queue[i] = e
       /\ queue' = RemoveAt(queue, i)
  /\ processing' = processing \cup {e}
  /\ claim' = [claim EXCEPT ![id] = 0]
  /\ UNCHANGED <<dedupe, ckpt, key, scan, ended, faults>>

(* ... or finds that a worker took it first, and leaves the job to it. *)
ClaimByIDLost(id) ==
  /\ id \in hook
  /\ [id |-> id, att |-> 0] \notin Queued
  /\ hook' = hook \ {id}
  /\ UNCHANGED <<store, key, pc, held, scan, ended, faults>>

-----------------------------------------------------------------------------
(* runWithLease: the first renewal decides whether the handler starts. *)
StartHandler(w) ==
  /\ pc[w] = "claimed"
  /\ pc' = [pc EXCEPT ![w] = IF Owns(w) THEN "running" ELSE "failed"]
  /\ UNCHANGED <<store, key, hook, held, scan, ended, faults>>

(* The heartbeat learns that the claim is gone or belongs to a newer       *)
(* attempt: ErrClaimLost wins over whatever the handler returns.           *)
HeartbeatLost(w) ==
  /\ pc[w] = "running"
  /\ ~ Owns(w)
  /\ pc' = [pc EXCEPT ![w] = "failed"]
  /\ UNCHANGED <<store, key, hook, held, scan, ended, faults>>

(* The handler's result: nil and ErrDeleted both count as success; an      *)
(* error of its own, of a renewal or of the checkpoint store as failure.   *)
HandlerReturns(w, result) ==
  /\ pc[w] = "running"
  /\ pc' = [pc EXCEPT ![w] = result]
  /\ UNCHANGED <<store, key, hook, held, scan, ended, faults>>

(* Mutation of SaveCheckpoint: HSETNX without the token test. *)
SaveCheckpointUnfenced(w, s) ==
  /\ pc[w] = "running"
  /\ ckpt' = [ckpt EXCEPT ![held[w].id] = @ \cup {s}]
  /\ UNCHANGED <<queue, processing, dedupe, claim, key, hook, pc, held, scan,
                 ended, faults>>

(* redisCheckpointStore.Save: fenced by the claim; a lost claim is latched *)
(* by the checkpoint guard and fails the attempt (workguard.Check).        *)
SaveCheckpoint(w, s) ==
  /\ pc[w] = "running"
  /\ s \notin ckpt[held[w].id]
  /\ IF Owns(w)
     THEN /\ ckpt' = [ckpt EXCEPT ![held[w].id] = @ \cup {s}]
          /\ UNCHANGED pc
     ELSE /\ pc' = [pc EXCEPT ![w] = "failed"]
          /\ UNCHANGED ckpt
  /\ UNCHANGED <<queue, processing, dedupe, claim, key, hook, held, scan,
                 ended, faults>>

(* redisCheckpointStore.Delete of a step whose stored value is unusable. *)
DeleteCheckpoint(w, s) ==
  /\ pc[w] = "running"
  /\ s \in ckpt[held[w].id]
  /\ IF Owns(w)
     THEN /\ ckpt' = [ckpt EXCEPT ![held[w].id] = @ \ {s}]
          /\ UNCHANGED pc
     ELSE /\ pc' = [pc EXCEPT ![w] = "failed"]
          /\ UNCHANGED ckpt
  /\ UNCHANGED <<queue, processing, dedupe, claim, key, hook, held, scan,
                 ended, faults>>

(* Mutation of RemoveJob: completeScript without the token test. *)
RemoveJobUnfenced(e) ==
  /\ processing' = processing \ {e}
  /\ claim' = [claim EXCEPT ![e.id] = NoClaim]
  /\ ckpt' = [ckpt EXCEPT ![e.id] = {}]
  /\ dedupe' = dedupe \ {key[e.id]}
  /\ ended' = ended \cup {e.id}
  /\ UNCHANGED queue

(* completeScript, of a success or of an abandonment. *)
RemoveJob(e) ==
  IF claim[e.id] = e.att
  THEN /\ processing' = processing \ {e}
       /\ claim' = [claim EXCEPT ![e.id] = NoClaim]
       /\ ckpt' = [ckpt EXCEPT ![e.id] = {}]
       /\ dedupe' = dedupe \ {key[e.id]}
       /\ ended' = ended \cup {e.id}
       /\ UNCHANGED queue
  ELSE UNCHANGED <<store, ended>>

(* run and Execute after a success: completeJob. *)
Complete(w) ==
  /\ pc[w] = "succeeded"
  /\ RemoveJob(held[w])
  /\ Release(w)
  /\ UNCHANGED <<key, hook, scan, faults>>

(* Mutation of LastAttempt: the attempts are counted from one. *)
LastAttemptLate(e) == e.att >= MaxAttempts

LastAttempt(e) == e.att + 1 >= MaxAttempts

(* run and Execute after a failure of the last attempt: abandonJob. *)
Abandon(w) ==
  /\ pc[w] = "failed"
  /\ LastAttempt(held[w])
  /\ RemoveJob(held[w])
  /\ Release(w)
  /\ UNCHANGED <<key, hook, scan, faults>>

(* Mutation of BackOff: the failed attempt drops its entry. *)
BackOffDropped(w) ==
  /\ pc[w] = "failed"
  /\ ~ LastAttempt(held[w])
  /\ Release(w)
  /\ processing' = processing \ {held[w]}
  /\ UNCHANGED <<queue, dedupe, claim, ckpt, key, hook, scan, ended, faults>>

(* run and Execute after any other failure: the claim is shortened to      *)
(* FailureRetryBackoff, after which nobody renews it.                      *)
BackOff(w) ==
  /\ pc[w] = "failed"
  /\ ~ LastAttempt(held[w])
  /\ Release(w)
  /\ UNCHANGED <<store, key, hook, scan, ended, faults>>

-----------------------------------------------------------------------------
Charge(f, bound) ==
  /\ faults[f] < bound
  /\ faults["crash"] + faults["late"] + faults["window"] < MaxFaults
  /\ faults' = [faults EXCEPT ![f] = @ + 1]

(* The claim's TTL runs out: always after its executor stopped renewing,   *)
(* and as a fault while one is alive but late.                             *)
Expire(id) ==
  /\ claim[id] # NoClaim
  /\ IF Renewed(id) THEN Charge("late", MaxLateRenewals) ELSE UNCHANGED faults
  /\ claim' = [claim EXCEPT ![id] = NoClaim]
  /\ UNCHANGED <<queue, processing, dedupe, ckpt, key, hook, pc, held, scan,
                 ended>>

(* The executor's process dies, or it gives up after a Redis error whose   *)
(* command may have been applied.                                          *)
Crash(w) ==
  /\ pc[w] # "idle"
  /\ Charge("crash", MaxCrashes)
  /\ Release(w)
  /\ UNCHANGED <<store, key, hook, scan, ended>>

(* reapOnce and RequeueExpired: LRANGE, then one script per entry read. *)
Scan(r, e) ==
  /\ scan[r] = NoEntry
  /\ e \in processing
  /\ scan' = [scan EXCEPT ![r] = e]
  /\ UNCHANGED <<store, key, hook, pc, held, ended, faults>>

(* Mutation of NextAttempt: requeued under the old attempt's token. *)
NextAttemptSameToken(e) == e

NextAttempt(e) == [e EXCEPT !.att = @ + 1]

(* Mutation of Reapable: a reaper that forgets the result of its LREM.      *)
ReapableUnremoved(e) == claim[e.id] = NoClaim

Reapable(e) == claim[e.id] = NoClaim /\ e \in processing

(* reapOneScript: an unclaimed entry goes back to the queue as the next    *)
(* attempt, unless another reaper moved it since it was read.              *)
ReapOne(r) ==
  LET e == scan[r] IN
  /\ e # NoEntry
  /\ scan' = [scan EXCEPT ![r] = NoEntry]
  /\ IF Reapable(e)
     THEN /\ IF InWindow(e) THEN Charge("window", MaxWindowReaps)
                            ELSE UNCHANGED faults
          /\ processing' = processing \ {e}
          /\ queue' = Append(queue, NextAttempt(e))
     ELSE UNCHANGED <<processing, queue, faults>>
  /\ UNCHANGED <<dedupe, claim, ckpt, key, hook, pc, held, ended>>

-----------------------------------------------------------------------------
Execute(w) ==
  \/ SetClaim(w)
  \/ ClaimContested(w)
  \/ StartHandler(w)
  \/ HeartbeatLost(w)
  \/ \E result \in {"succeeded", "failed"} : HandlerReturns(w, result)
  \/ Complete(w)
  \/ Abandon(w)
  \/ BackOff(w)

Next ==
  \/ \E id \in JobId, k \in Keys : Enqueue(id, k)
  \/ \E w \in Executors : Dispatch(w)
  \/ \E w \in Executors, id \in JobId : ClaimByID(w, id)
  \/ \E id \in JobId : ClaimByIDLost(id)
  \/ \E w \in Executors : Execute(w)
  \/ \E w \in Executors, s \in Steps : SaveCheckpoint(w, s)
  \/ \E w \in Executors, s \in Steps : DeleteCheckpoint(w, s)
  \/ \E id \in JobId : Expire(id)
  \/ \E w \in Executors : Crash(w)
  \/ \E r \in Reapers, e \in processing : Scan(r, e)
  \/ \E r \in Reapers : ReapOne(r)

Spec == Init /\ [][Next]_vars

(* Executors, claimLoop and reapLoop run until shutdown, every tick reads  *)
(* every entry of processing, and a claim nobody renews runs out.  Nobody  *)
(* has to enqueue, to crash, or to claim inline.                           *)
Fairness ==
  /\ \A w \in Executors : WF_vars(Dispatch(w)) /\ WF_vars(Execute(w))
  /\ \A id \in JobId : WF_vars(~ Renewed(id) /\ Expire(id))
  /\ \A r \in Reapers : WF_vars(ReapOne(r))
  /\ \A r \in Reapers, id \in JobId :
       SF_vars(\E e \in processing : e.id = id /\ Scan(r, e))

FairSpec == Spec /\ Fairness

-----------------------------------------------------------------------------
(* Every variable keeps to its type. *)
TypeOK ==
  /\ queue \in Seq(Entry)
  /\ processing \subseteq Entry
  /\ dedupe \subseteq Keys
  /\ claim \in [JobId -> Nat \cup {NoClaim}]
  /\ ckpt \in [JobId -> SUBSET Steps]
  /\ key \in [JobId -> Keys \cup {NoKey}]
  /\ hook \subseteq JobId
  /\ pc \in [Executors -> Phase]
  /\ held \in [Executors -> Entry \cup {NoEntry}]
  /\ \A w \in Executors : pc[w] # "idle" => held[w] \in Entry
  /\ scan \in [Reapers -> Entry \cup {NoEntry}]
  /\ ended \subseteq JobId
  /\ faults \in [Faults -> Nat]

(* A job is in one list, once: reapers that race over one stale entry, and *)
(* a worker racing the inline claim, never duplicate it (worker.go,        *)
(* reapOnce: at most one reaper wins each stale entry).                    *)
OneEntryPerJob ==
  /\ Distinct(queue)
  /\ \A e \in Queued, f \in processing : e.id # f.id
  /\ \A e, f \in processing : e.id = f.id => e = f

(* The token is a fence: however often a job is reaped, retried and run by *)
(* executors that have not noticed, one of them at most passes the token   *)
(* test of the lease, checkpoint and completion scripts.                   *)
AtMostOneOwner ==
  \A v, w \in Executors :
    /\ pc[v] \in Claiming /\ pc[w] \in Claiming
    /\ held[v].id = held[w].id
    /\ Owns(v) /\ Owns(w)
    => v = w

(* A job that has not ended is in the queue or in processing, so the next  *)
(* dispatch or reap finds it, whatever crashed in between.                 *)
NoJobLost ==
  \A id \in JobId :
    key[id] # NoKey /\ id \notin ended => id \in LiveIds

(* The inductive invariant behind the token.  No identity is in use before *)
(* it is handed out; an executor's attempt is never ahead of its job's     *)
(* entry and is behind it while the entry is queued, so every dispatch     *)
(* takes an attempt that nobody else holds.                                *)
Working(w) == pc[w] # "idle"

Known ==
  /\ \A e \in Live : key[e.id] # NoKey
  /\ \A w \in Executors : Working(w) => key[held[w].id] # NoKey

HeldBehind ==
  \A w \in Executors :
    Working(w) =>
      /\ \A e \in Queued : e.id = held[w].id => held[w].att < e.att
      /\ \A e \in processing : e.id = held[w].id => held[w].att <= e.att

TokenUnique ==
  \A v, w \in Executors :
    Working(v) /\ Working(w) /\ held[v] = held[w] => v = w

TokenInv == TypeOK /\ OneEntryPerJob /\ Known /\ HeldBehind /\ TokenUnique

(* MaxAttempts bounds the retries of a failing handler.  Only a crash or a *)
(* lost lease buys a job one more attempt, and an entry reaped too early   *)
(* two: its next executor may find the first one's claim and leave it.     *)
AttemptsAccounted ==
  \A e \in Live :
    e.att <= MaxAttempts - 1 + faults["crash"] + faults["late"]
               + 2 * faults["window"]

(* The dedupe set is the exact set of keys queued or in flight, and no two *)
(* such jobs share a key (queue.go, enqueueScript and Pending).            *)
DedupeExact ==
  /\ dedupe = {key[id] : id \in LiveIds}
  /\ \A i, j \in LiveIds : key[i] = key[j] => i = j

(* Checkpoints have no TTL, so those of a job that is in no list any more  *)
(* would stay for ever: a stale attempt cannot save one behind the cleanup.*)
NoCheckpointLeak ==
  \A id \in JobId : ckpt[id] # {} => id \in LiveIds

(* A claim found by the SETNX of an executor that just moved the entry     *)
(* "shouldn't happen" (worker.go, run).                                    *)
ClaimUncontested ==
  \A w \in Executors : pc[w] = "moved" => claim[held[w].id] = NoClaim

(* The inductive invariant behind the exact contract, kept as long as no   *)
(* reaper acts between a BLMOVE and its SETNX: an executor that moved an   *)
(* entry still finds it in processing, a claim names the entry it covers,  *)
(* and the jobs in the lists are the jobs that have not ended.             *)
MovedInPlace ==
  \A w \in Executors : pc[w] = "moved" => held[w] \in processing

ClaimInPlace ==
  \A id \in JobId :
    claim[id] # NoClaim => [id |-> id, att |-> claim[id]] \in processing

LiveNotEnded ==
  /\ LiveIds \cap ended = {}
  /\ \A id \in ended : key[id] # NoKey

ExactInv ==
  /\ MovedInPlace
  /\ ClaimInPlace
  /\ ClaimUncontested
  /\ LiveNotEnded
  /\ DedupeExact
  /\ NoCheckpointLeak

(* "One FIFO list per Kind" (queue.go, Queue): what a worker takes is the  *)
(* entry that has been in the list longest.                                *)
DispatchesInOrder ==
  [][\A w \in Executors :
       pc[w] = "idle" /\ pc'[w] = "moved" => held'[w] = Head(queue)]_vars

(* The queue implements the life cycle its callers rely on: deduplication, *)
(* one end per job, and, since a pending job's end stays possible, an end  *)
(* for every job.                                                          *)
Lifecycle == INSTANCE JobLifecycle WITH key <- key, ended <- ended
ImplementsLifecycle == Lifecycle!FairSpec
=============================================================================
