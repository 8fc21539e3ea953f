--------------------------- MODULE JobQueueProofs ---------------------------
(***************************************************************************)
(* Proofs about JobQueue for every number of jobs, keys, executors,        *)
(* reapers and faults.                                                     *)
(***************************************************************************)
EXTENDS JobQueue, ListLemmas, FiniteSetTheorems

-----------------------------------------------------------------------------
(* What the three list operations do to the set of queued entries. *)

(* RPUSH of an entry whose job is not in the list. *)
LEMMA PushEntry ==
  ASSUME NEW q \in Seq(Entry), Distinct(q), NEW e \in Entry,
         \A f \in ToSet(q) : f.id # e.id
  PROVE  /\ Append(q, e) \in Seq(Entry)
         /\ Distinct(Append(q, e))
         /\ ToSet(Append(q, e)) = ToSet(q) \cup {e}
  <1> DEFINE r == Append(q, e)
             n == Len(q)
  <1>1. /\ r \in Seq(Entry)
        /\ DOMAIN q = 1 .. n
        /\ DOMAIN r = 1 .. n+1
        /\ \A j \in 1 .. n : r[j] = q[j]
        /\ r[n+1] = e
        /\ ToSet(r) = ToSet(q) \cup {e}
    BY AppendElements
  <1>2. n \in Nat /\ \A j \in 1 .. n : q[j].id # e.id
    BY <1>1 DEF ToSet
  <1> HIDE DEF r, n
  <1>3. Distinct(r)
    BY <1>1, <1>2 DEF Distinct
  <1>4. QED
    BY <1>1, <1>3 DEF r

(* LREM of the entry at position i. *)
LEMMA RemoveEntry ==
  ASSUME NEW q \in Seq(Entry), Distinct(q), NEW i \in DOMAIN q
  PROVE  /\ RemoveAt(q, i) \in Seq(Entry)
         /\ Distinct(RemoveAt(q, i))
         /\ ToSet(RemoveAt(q, i)) = ToSet(q) \ {q[i]}
  <1> DEFINE r == RemoveAt(q, i)
             n == Len(q)
  <1>1. /\ r \in Seq(Entry)
        /\ DOMAIN q = 1 .. n
        /\ DOMAIN r = 1 .. n-1
        /\ \A j \in 1 .. n-1 : r[j] = IF j < i THEN q[j] ELSE q[j+1]
        /\ ToSet(q) \ {q[i]} \subseteq ToSet(r)
        /\ ToSet(r) \subseteq ToSet(q)
    BY RemoveAtElements
  <1>2. n \in Nat /\ i \in 1 .. n
    BY <1>1
  <1> HIDE DEF r, n
  <1>3. Distinct(r)
    <2> SUFFICES ASSUME NEW j \in 1 .. n-1, NEW k \in 1 .. n-1,
                        r[j].id = r[k].id
                 PROVE  j = k
      BY <1>1 DEF Distinct
    <2> DEFINE At(m) == IF m < i THEN m ELSE m+1
    <2>1. At(j) \in DOMAIN q /\ At(k) \in DOMAIN q
      BY <1>1, <1>2
    <2>2. r[j] = q[At(j)] /\ r[k] = q[At(k)]
      BY <1>1
    <2>3. At(j) = At(k)
      BY <2>1, <2>2 DEF Distinct
    <2>4. QED
      BY <1>2, <2>3
  <1>4. q[i] \notin ToSet(r)
    <2>1. \A j \in DOMAIN q : j # i => q[j] # q[i]
      BY <1>1, <1>2 DEF Distinct
    <2>2. ASSUME NEW j \in 1 .. n-1
          PROVE  r[j] # q[i]
      <3>1. CASE j < i
        BY <1>1, <1>2, <2>1, <3>1
      <3>2. CASE j >= i
        BY <1>1, <1>2, <2>1, <3>2
      <3>3. QED
        BY <1>2, <3>1, <3>2
    <2>3. QED
      BY <1>1, <2>2 DEF ToSet
  <1>5. QED
    BY <1>1, <1>3, <1>4 DEF r

(* BLMOVE's pop at the right end. *)
LEMMA PopEntry ==
  ASSUME NEW q \in Seq(Entry), Distinct(q), q # <<>>
  PROVE  /\ Last(q) \in ToSet(q)
         /\ Front(q) \in Seq(Entry)
         /\ Distinct(Front(q))
         /\ ToSet(Front(q)) = ToSet(q) \ {Last(q)}
  <1> DEFINE n == Len(q)
  <1>1. n \in Nat /\ n >= 1 /\ DOMAIN q = 1 .. n
    OBVIOUS
  <1>2. /\ Front(q) \in Seq(Entry)
        /\ Len(Front(q)) = n - 1
        /\ \A j \in 1 .. n-1 : Front(q)[j] = q[j]
    <2> DEFINE a == SubSeq(q, 1, n-1)
    <2>1. /\ a \in Seq(Entry) /\ Len(a) = n - 1
          /\ \A j \in 1 .. n-1 : a[j] = q[j]
      BY <1>1, SubSeqProperties
    <2>2. a = Front(q)
      BY DEF Front
    <2> HIDE DEF a
    <2>3. QED
      BY <2>1, <2>2
  <1>3. DOMAIN q = 1 .. n /\ DOMAIN Front(q) = 1 .. n-1
    BY <1>1, <1>2
  <1>4. Distinct(Front(q))
    BY <1>1, <1>2, <1>3 DEF Distinct
  <1>5. Last(q) = q[n] /\ n \in DOMAIN q
    BY <1>1, <1>3 DEF Last
  <1>6. \A j \in 1 .. n-1 : q[j] # q[n]
    BY <1>1, <1>3 DEF Distinct
  <1>7. ToSet(Front(q)) = ToSet(q) \ {Last(q)}
    BY <1>1, <1>2, <1>3, <1>5, <1>6 DEF ToSet
  <1>8. QED
    BY <1>2, <1>4, <1>5, <1>7 DEF ToSet

-----------------------------------------------------------------------------
(* The fence.  TokenInv is inductive: only Enqueue, with a fresh identity, *)
(* creates an entry, and only ReapOne, one attempt later, moves one back.  *)

LEMMA TokenInit == Init => TokenInv
  BY DEF Init, TokenInv, TypeOK, OneEntryPerJob, Known, HeldBehind,
         TokenUnique, Working, Live, Queued, ToSet, Distinct, Entry, Phase,
         Faults, NoClaim

(* Steps of an executor that holds its entry and leaves the lists alone,   *)
(* or ends and removes entries from processing, keep the invariant.        *)
LEMMA HeldStep ==
  ASSUME TokenInv, TypeOK',
         queue' = queue, processing' \subseteq processing, key' = key,
         \A w \in Executors :
           Working(w)' => Working(w) /\ held'[w] = held[w]
  PROVE  TokenInv'
  <1>1. OneEntryPerJob'
    BY DEF TokenInv, OneEntryPerJob, Queued, Distinct
  <1>2. Known'
    BY DEF TokenInv, Known, Live, Queued
  <1>3. HeldBehind'
    BY DEF TokenInv, HeldBehind, Queued
  <1>4. TokenUnique'
    BY DEF TokenInv, TokenUnique
  <1>5. QED
    BY <1>1, <1>2, <1>3, <1>4 DEF TokenInv

(* The steps of a running attempt, its failures and its end. *)
LEMMA ExecutorStep ==
  ASSUME TokenInv, NEW w \in Executors,
         \/ Execute(w) \/ Crash(w)
         \/ \E s \in Steps : SaveCheckpoint(w, s) \/ DeleteCheckpoint(w, s)
  PROVE  TokenInv'
  <1> USE DEF TokenInv
  <1>0. TypeOK /\ held[w] \in Entry \cup {NoEntry}
    BY DEF TypeOK
  <1>1. CASE SetClaim(w)
    <2>1. TypeOK'
      BY <1>1 DEF TypeOK, SetClaim, Phase, Entry
    <2>2. QED
      BY <1>1, <2>1, HeldStep DEF SetClaim, Working, TypeOK
  <1>2. CASE ClaimContested(w)
    <2>1. TypeOK'
      BY <1>2 DEF TypeOK, ClaimContested, Release, store, Phase
    <2>2. QED
      BY <1>2, <2>1, HeldStep DEF ClaimContested, Release, store, Working, TypeOK
  <1>3. CASE StartHandler(w)
    <2>1. TypeOK'
      BY <1>3 DEF TypeOK, StartHandler, store, Phase
    <2>2. QED
      BY <1>3, <2>1, HeldStep DEF StartHandler, store, Working, TypeOK
  <1>4. CASE HeartbeatLost(w)
    <2>1. TypeOK'
      BY <1>4 DEF TypeOK, HeartbeatLost, store, Phase
    <2>2. QED
      BY <1>4, <2>1, HeldStep DEF HeartbeatLost, store, Working, TypeOK
  <1>5. CASE \E result \in {"succeeded", "failed"} : HandlerReturns(w, result)
    <2>1. TypeOK'
      BY <1>5 DEF TypeOK, HandlerReturns, store, Phase
    <2>2. QED
      BY <1>5, <2>1, HeldStep DEF HandlerReturns, store, Working, TypeOK
  <1>6. CASE Complete(w) \/ Abandon(w)
    <2>0. RemoveJob(held[w]) /\ Release(w) /\ UNCHANGED <<key, hook, scan, faults>>
          /\ held[w] \in Entry
      BY <1>6 DEF Complete, Abandon, TypeOK
    <2>1. TypeOK'
      <3> DEFINE id == held[w].id
      <3>0. id \in JobId
        BY <2>0 DEF Entry
      <3>a. /\ pc' \in [Executors -> Phase]
            /\ held' \in [Executors -> Entry \cup {NoEntry}]
            /\ \A v \in Executors : pc'[v] # "idle" => held'[v] \in Entry
        BY <2>0 DEF TypeOK, Release, Phase
      <3>1. CASE claim[held[w].id] = held[w].att
        <4>1. /\ processing' \subseteq Entry
              /\ dedupe' \subseteq Keys
              /\ ended' \subseteq JobId
          BY <2>0, <3>0, <3>1 DEF TypeOK, RemoveJob
        <4>2. claim' \in [JobId -> Nat \cup {NoClaim}]
          BY <2>0, <3>0, <3>1 DEF TypeOK, RemoveJob
        <4>3. ckpt' \in [JobId -> SUBSET Steps]
          <5>1. ckpt' = [ckpt EXCEPT ![id] = {}]
            BY <2>0, <3>1 DEF RemoveJob
          <5>2. QED
            BY <3>0, <5>1 DEF TypeOK
        <4>4. QED
          BY <2>0, <3>1, <3>a, <4>1, <4>2, <4>3 DEF TypeOK, RemoveJob
      <3>2. CASE claim[held[w].id] # held[w].att
        BY <2>0, <3>2 DEF TypeOK, RemoveJob, Release, store, Phase
      <3>3. QED
        BY <3>1, <3>2
    <2>2. queue' = queue /\ processing' \subseteq processing /\ key' = key
      BY <2>0 DEF RemoveJob, store
    <2>3. QED
      BY <2>0, <2>1, <2>2, HeldStep DEF Release, Working, TypeOK
  <1>7. CASE BackOff(w)
    <2>1. TypeOK'
      BY <1>7 DEF TypeOK, BackOff, Release, store, Phase
    <2>2. QED
      BY <1>7, <2>1, HeldStep DEF BackOff, Release, store, Working, TypeOK
  <1>8. CASE Crash(w)
    <2>1. TypeOK'
      BY <1>8 DEF TypeOK, Crash, Charge, Release, store, Phase, Faults
    <2>2. QED
      BY <1>8, <2>1, HeldStep DEF Crash, Release, store, Working, TypeOK
  <1>9. ASSUME NEW s \in Steps, SaveCheckpoint(w, s) \/ DeleteCheckpoint(w, s)
        PROVE  TokenInv'
    <2>0. held[w] \in Entry
      BY <1>9 DEF TypeOK, SaveCheckpoint, DeleteCheckpoint
    <2>1. TypeOK'
      <3> DEFINE id == held[w].id
      <3>0. id \in JobId
        BY <2>0 DEF Entry
      <3>1. pc' \in [Executors -> Phase] /\ \A v \in Executors :
              pc'[v] # "idle" => held'[v] \in Entry
        BY <1>9, <2>0 DEF TypeOK, SaveCheckpoint, DeleteCheckpoint, Phase
      <3>2. \/ ckpt' = ckpt
            \/ ckpt' = [ckpt EXCEPT ![id] = @ \cup {s}]
            \/ ckpt' = [ckpt EXCEPT ![id] = @ \ {s}]
        BY <1>9 DEF SaveCheckpoint, DeleteCheckpoint
      <3>3. ckpt' \in [JobId -> SUBSET Steps]
        BY <3>0, <3>2 DEF TypeOK
      <3>4. QED
        BY <1>9, <3>1, <3>3 DEF TypeOK, SaveCheckpoint, DeleteCheckpoint
    <2>2. QED
      BY <1>9, <2>1, HeldStep
         DEF SaveCheckpoint, DeleteCheckpoint, Working, TypeOK
  <1>10. QED
    BY <1>1, <1>2, <1>3, <1>4, <1>5, <1>6, <1>7, <1>8, <1>9 DEF Execute

(* A claim's expiry and a reaper's LRANGE touch neither list. *)
LEMMA ExpireScanStep ==
  ASSUME TokenInv,
         \/ \E id \in JobId : Expire(id)
         \/ \E r \in Reapers, e \in processing : Scan(r, e)
  PROVE  TokenInv'
  <1> USE DEF TokenInv
  <1>1. ASSUME NEW id \in JobId, Expire(id)
        PROVE  TokenInv'
    <2>1. TypeOK'
      BY <1>1 DEF TypeOK, Expire, Charge, Faults
    <2>2. QED
      BY <1>1, <2>1, HeldStep DEF Expire, Working
  <1>2. ASSUME NEW r \in Reapers, NEW e \in processing, Scan(r, e)
        PROVE  TokenInv'
    <2>1. TypeOK'
      BY <1>2 DEF TypeOK, Scan, store
    <2>2. QED
      BY <1>2, <2>1, HeldStep DEF Scan, store, Working
  <1>3. QED
    BY <1>1, <1>2

(* Enqueue pushes attempt 0 of a job nobody has heard of. *)
LEMMA EnqueueStep ==
  ASSUME TokenInv, NEW id \in JobId, NEW k \in Keys, Enqueue(id, k)
  PROVE  TokenInv'
  <1> USE DEF TokenInv
  <1> DEFINE e == [id |-> id, att |-> 0]
  <1>1. e \in Entry
    BY DEF Entry
  <1>2. \A f \in Live : f.id # id
    BY QueueAssumption DEF Known, Enqueue
  <1>3. /\ queue' \in Seq(Entry)
        /\ Distinct(queue')
        /\ Queued' = Queued \cup {e}
    <2>1. queue' = Append(queue, e)
      BY DEF Enqueue
    <2>2. queue \in Seq(Entry) /\ Distinct(queue)
      BY DEF TypeOK, OneEntryPerJob
    <2>3. \A f \in ToSet(queue) : f.id # e.id
      BY <1>2 DEF Live, Queued
    <2> HIDE DEF e
    <2>4. QED
      BY <1>1, <2>1, <2>2, <2>3, PushEntry DEF Queued
  <1>4. TypeOK'
    BY <1>3 DEF TypeOK, Enqueue
  <1>5. OneEntryPerJob'
    BY <1>2, <1>3 DEF OneEntryPerJob, Enqueue, Live
  <1>6. Known'
    <2>1. key' = [key EXCEPT ![id] = k] /\ k # NoKey
      BY QueueAssumption DEF Enqueue
    <2>2. \A j \in JobId : key[j] # NoKey => key'[j] # NoKey
      BY <2>1 DEF TypeOK
    <2>3. key'[id] # NoKey
      BY <2>1 DEF TypeOK
    <2>4. \A f \in Live : f \in Entry
      BY DEF TypeOK, Live, Queued, ToSet
    <2>5. Live' = Live \cup {e}
      BY <1>3 DEF Live, Enqueue
    <2>6. QED
      BY <2>2, <2>3, <2>4, <2>5 DEF Known, Enqueue, TypeOK, Entry, Working
  <1>7. HeldBehind'
    BY <1>3 DEF HeldBehind, Known, Enqueue, Working
  <1>8. TokenUnique'
    BY DEF TokenUnique, Enqueue, Working
  <1>9. QED
    BY <1>4, <1>5, <1>6, <1>7, <1>8

(* An idle executor takes an entry e from anywhere in the queue. *)
LEMMA TakeStep ==
  ASSUME TokenInv, TypeOK', NEW w \in Executors, NEW e \in Queued, NEW phase \in Phase,
         Take(w, e, phase), Distinct(queue'),
         Queued' = Queued \ {e}, processing' = processing \cup {e},
         key' = key
  PROVE  TokenInv'
  <1> USE DEF TokenInv
  <1>1. e \in Entry
    BY DEF TypeOK, Queued, ToSet
  <1>2. \A f \in Queued : f.id = e.id => f = e
    BY DEF OneEntryPerJob, Distinct, Queued, ToSet
  <1>3. OneEntryPerJob'
    BY <1>2 DEF OneEntryPerJob
  <1>4. held'[w] = e /\ \A v \in Executors : v # w => held'[v] = held[v] /\ pc'[v] = pc[v]
    BY DEF Take, TypeOK
  <1>5. Known'
    BY <1>4 DEF Known, Live, Working
  <1>6. HeldBehind'
    <2> SUFFICES ASSUME NEW v \in Executors, Working(v)'
                 PROVE  /\ \A f \in Queued' : f.id = held'[v].id => held'[v].att < f.att
                        /\ \A f \in processing' : f.id = held'[v].id => held'[v].att <= f.att
      BY DEF HeldBehind
    <2>1. CASE v = w
      BY <1>1, <1>2, <1>4, <2>1 DEF OneEntryPerJob, Entry
    <2>2. CASE v # w
      <3>1. Working(v) /\ held'[v] = held[v] /\ held[v] \in Entry
        BY <1>4, <2>2 DEF Working, TypeOK
      <3>2. e.id = held[v].id => held[v].att < e.att
        BY <3>1 DEF HeldBehind
      <3>3. QED
        BY <1>1, <3>1, <3>2 DEF HeldBehind, Entry
    <2>3. QED
      BY <2>1, <2>2
  <1>7. TokenUnique'
    <2>1. ASSUME NEW v \in Executors, v # w, Working(v)
          PROVE  held[v] # e
      BY <1>1, <2>1 DEF HeldBehind, Entry
    <2>2. QED
      BY <1>4, <2>1 DEF TokenUnique, Working
  <1>8. QED
    BY <1>3, <1>5, <1>6, <1>7

(* A worker's BLMOVE. *)
LEMMA DispatchStep ==
  ASSUME TokenInv, NEW w \in Executors, Dispatch(w)
  PROVE  TokenInv'
  <1> DEFINE e == Last(queue)
  <1>1. /\ e \in Queued
        /\ queue' \in Seq(Entry)
        /\ Distinct(queue')
        /\ Queued' = Queued \ {e}
    BY PopEntry DEF TokenInv, TypeOK, OneEntryPerJob, Dispatch, Queued
  <1>2. /\ Take(w, e, "moved")
        /\ processing' = processing \cup {e}
        /\ UNCHANGED <<dedupe, claim, ckpt, key, hook, scan, ended, faults>>
    BY DEF Dispatch
  <1>3. e \in Entry
    BY <1>1 DEF TokenInv, TypeOK, Queued, ToSet
  <1> HIDE DEF e
  <1>4. TypeOK'
    BY <1>1, <1>2, <1>3 DEF TokenInv, TypeOK, Take, Phase
  <1>5. QED
    BY <1>1, <1>2, <1>4, TakeStep DEF Phase

(* An inline claim, which also sets the claim key. *)
LEMMA ClaimByIDStep ==
  ASSUME TokenInv, NEW w \in Executors, NEW id \in JobId, ClaimByID(w, id)
  PROVE  TokenInv'
  <1> DEFINE e == [id |-> id, att |-> 0]
  <1>1. PICK i \in DOMAIN queue : queue[i] = e /\ queue' = RemoveAt(queue, i)
    BY DEF ClaimByID
  <1>2. /\ e \in Queued
        /\ queue' \in Seq(Entry)
        /\ Distinct(queue')
        /\ Queued' = Queued \ {e}
    <2>1. queue \in Seq(Entry) /\ Distinct(queue)
      BY DEF TokenInv, TypeOK, OneEntryPerJob
    <2>2. e \in Queued
      BY <1>1 DEF Queued, ToSet
    <2> HIDE DEF e
    <2>3. QED
      BY <1>1, <2>1, <2>2, RemoveEntry DEF Queued
  <1>3. /\ Take(w, e, "claimed")
        /\ processing' = processing \cup {e}
        /\ claim' = [claim EXCEPT ![id] = 0]
        /\ hook' = hook \ {id}
        /\ UNCHANGED <<dedupe, ckpt, key, scan, ended, faults>>
    BY DEF ClaimByID
  <1>4. e \in Entry
    BY DEF Entry
  <1> HIDE DEF e
  <1>5. TypeOK'
    BY <1>2, <1>3, <1>4 DEF TokenInv, TypeOK, Take, Phase
  <1>6. QED
    BY <1>2, <1>3, <1>5, TakeStep DEF Phase

(* A reaper's script: nothing, or the entry's next attempt is queued. *)
LEMMA ReapStep ==
  ASSUME TokenInv, NEW r \in Reapers, ReapOne(r)
  PROVE  TokenInv'
  <1> USE DEF TokenInv
  <1> DEFINE e == scan[r]
             n == NextAttempt(e)
  <1>1. e \in Entry
    BY DEF TypeOK, ReapOne
  <1>2. scan' = [scan EXCEPT ![r] = NoEntry] /\ UNCHANGED <<dedupe, claim, ckpt, key, hook, pc, held, ended>>
    BY DEF ReapOne
  <1>3. CASE Reapable(e)
    <2>1. /\ e \in processing
          /\ processing' = processing \ {e}
          /\ queue' = Append(queue, n)
          /\ faults' \in [Faults -> Nat]
      BY <1>3 DEF ReapOne, Reapable, Charge, Faults, TypeOK
    <2>2. n \in Entry /\ n.id = e.id /\ n.att = e.att + 1
      BY <1>1 DEF NextAttempt, Entry
    <2>3. \A f \in ToSet(queue) : f.id # n.id
      BY <2>1, <2>2 DEF OneEntryPerJob, Queued
    <2>4. queue \in Seq(Entry) /\ Distinct(queue)
      BY DEF TypeOK, OneEntryPerJob
    <2> HIDE DEF n, e
    <2>5. /\ queue' \in Seq(Entry)
          /\ Distinct(queue')
          /\ Queued' = Queued \cup {n}
      BY <2>1, <2>2, <2>3, <2>4, PushEntry DEF Queued
    <2>6. TypeOK'
      BY <1>2, <2>1, <2>5 DEF TypeOK
    <2>7. OneEntryPerJob'
      BY <2>1, <2>2, <2>5 DEF OneEntryPerJob
    <2>8. Known'
      BY <1>2, <2>1, <2>2, <2>5 DEF Known, Live, Working
    <2>9. HeldBehind'
      <3> SUFFICES ASSUME NEW v \in Executors, Working(v)
                   PROVE  /\ \A f \in Queued' : f.id = held[v].id => held[v].att < f.att
                          /\ \A f \in processing' : f.id = held[v].id => held[v].att <= f.att
        BY <1>2 DEF HeldBehind, Working
      <3>1. held[v] \in Entry
        BY DEF TypeOK, Working
      <3>2. n.id = held[v].id => held[v].att < n.att
        <4>1. e.id = held[v].id => held[v].att <= e.att
          BY <2>1 DEF HeldBehind
        <4>2. e.att \in Nat /\ held[v].att \in Nat
          BY <1>1, <3>1 DEF Entry
        <4>3. QED
          BY <2>2, <4>1, <4>2
      <3>3. QED
        BY <2>1, <2>5, <3>2 DEF HeldBehind
    <2>10. TokenUnique'
      BY <1>2 DEF TokenUnique, Working
    <2>11. QED
      BY <2>6, <2>7, <2>8, <2>9, <2>10
  <1>4. CASE ~ Reapable(e)
    <2>1. queue' = queue /\ processing' = processing /\ faults' = faults
      BY <1>4 DEF ReapOne
    <2>2. TypeOK'
      BY <1>2, <2>1 DEF TypeOK
    <2>3. QED
      BY <1>2, <2>1, <2>2, HeldStep DEF Working
  <1>5. QED
    BY <1>3, <1>4

(* The creator of a job learns that a worker was faster. *)
LEMMA ClaimByIDLostStep ==
  ASSUME TokenInv, NEW id \in JobId, ClaimByIDLost(id)
  PROVE  TokenInv'
  <1>1. TypeOK'
    BY DEF TokenInv, TypeOK, ClaimByIDLost, store
  <1>2. QED
    BY <1>1, HeldStep DEF ClaimByIDLost, store, Working

LEMMA TokenNext == TokenInv /\ [Next]_vars => TokenInv'
  <1> SUFFICES ASSUME TokenInv, [Next]_vars
               PROVE  TokenInv'
    OBVIOUS
  <1>1. CASE UNCHANGED vars
    <2>1. TypeOK'
      BY <1>1 DEF vars, TokenInv, TypeOK
    <2>2. QED
      BY <1>1, <2>1, HeldStep DEF vars, Working
  <1>2. CASE \E id \in JobId, k \in Keys : Enqueue(id, k)
    BY <1>2, EnqueueStep
  <1>3. CASE \E w \in Executors : Dispatch(w)
    BY <1>3, DispatchStep
  <1>4. CASE \E w \in Executors, id \in JobId : ClaimByID(w, id)
    BY <1>4, ClaimByIDStep
  <1>5. CASE \E id \in JobId : ClaimByIDLost(id)
    BY <1>5, ClaimByIDLostStep
  <1>6. CASE \E w \in Executors : Execute(w) \/ Crash(w)
    BY <1>6, ExecutorStep
  <1>7. CASE \E w \in Executors, s \in Steps :
               SaveCheckpoint(w, s) \/ DeleteCheckpoint(w, s)
    BY <1>7, ExecutorStep
  <1>8. CASE \/ \E id \in JobId : Expire(id)
             \/ \E r \in Reapers, e \in processing : Scan(r, e)
    BY <1>8, ExpireScanStep
  <1>9. CASE \E r \in Reapers : ReapOne(r)
    BY <1>9, ReapStep
  <1>10. QED
    BY <1>1, <1>2, <1>3, <1>4, <1>5, <1>6, <1>7, <1>8, <1>9 DEF Next

THEOREM TokenInvariant == Spec => []TokenInv
  BY TokenInit, TokenNext, PTL DEF Spec

(* Type correctness of the queue (asyncjob/queue.go, worker.go, lease.go). *)
THEOREM TypeCorrect == Spec => []TypeOK
  BY TokenInvariant, PTL DEF TokenInv

(* A job is in one list, once, however many workers, inline claimants and  *)
(* reapers race for it (claimByIDScript, BLMOVE, reapOneScript).           *)
THEOREM SingleEntry == Spec => []OneEntryPerJob
  BY TokenInvariant, PTL DEF TokenInv

(* Of all the attempts of a job that still run, one at most passes the     *)
(* token test that guards renewals, checkpoints and completion.            *)
THEOREM SingleOwner == Spec => []AtMostOneOwner
  <1>1. TokenInv => AtMostOneOwner
    <2> SUFFICES ASSUME TokenInv, NEW v \in Executors, NEW w \in Executors,
                        pc[v] \in Claiming, pc[w] \in Claiming,
                        held[v].id = held[w].id, Owns(v), Owns(w)
                 PROVE  v = w
      BY DEF AtMostOneOwner
    <2>1. Working(v) /\ Working(w)
      BY DEF Claiming, Working
    <2>2. held[v] \in Entry /\ held[w] \in Entry
      BY <2>1 DEF TokenInv, TypeOK, Working
    <2>3. held[v] = held[w]
      BY <2>2 DEF Owns, Entry
    <2>4. QED
      BY <2>1, <2>3 DEF TokenInv, TokenUnique
  <1>2. QED
    BY <1>1, TokenInvariant, PTL

-----------------------------------------------------------------------------
(* The exact contract, as long as no reaper has acted inside the           *)
(* BLMOVE-to-SETNX window.                                                 *)
NoEarlyReap == faults["window"] = 0

(* Faults are counted and never forgotten; with no budget for it there is  *)
(* no early reap.                                                          *)
LEMMA EarlyReapStays ==
  ASSUME TypeOK, [Next]_vars
  PROVE  /\ NoEarlyReap' => NoEarlyReap
         /\ MaxWindowReaps = 0 => faults'["window"] = faults["window"]
  <1>1. /\ DOMAIN faults = Faults /\ \A f \in Faults : faults[f] \in Nat
        /\ "window" \in Faults
    BY DEF TypeOK, Faults
  <1>2. ASSUME NEW f \in Faults, NEW bound \in Nat, Charge(f, bound)
        PROVE  /\ f # "window" => faults'["window"] = faults["window"]
               /\ faults'["window"] = 0 => faults["window"] = 0
               /\ bound # 0
    BY <1>1, <1>2 DEF Charge
  <1>3. CASE faults' = faults
    BY <1>3 DEF NoEarlyReap
  <1>4. CASE \E id \in JobId : Expire(id)
    BY <1>2, <1>4, QueueAssumption DEF Expire, NoEarlyReap, Faults
  <1>5. CASE \E w \in Executors : Crash(w)
    BY <1>2, <1>5, QueueAssumption DEF Crash, NoEarlyReap, Faults
  <1>6. CASE \E r \in Reapers : ReapOne(r)
    BY <1>2, <1>6, QueueAssumption DEF ReapOne, NoEarlyReap, Faults
  <1>7. \/ faults' = faults
        \/ \E id \in JobId : Expire(id)
        \/ \E w \in Executors : Crash(w)
        \/ \E r \in Reapers : ReapOne(r)
    BY DEF Next, Execute, vars, Scan, ClaimByIDLost, SetClaim, ClaimContested, StartHandler,
           HeartbeatLost, BackOff, HandlerReturns, SaveCheckpoint, DeleteCheckpoint, Dispatch,
           ClaimByID, Enqueue, Complete, Abandon
  <1>8. QED
    BY <1>3, <1>4, <1>5, <1>6, <1>7

LEMMA LiveInKey ==
  ASSUME TokenInv
  PROVE  /\ \A e \in Live : e \in Entry
         /\ LiveIds \subseteq JobId
         /\ \A e, f \in Live : e.id = f.id => e = f
  <1>1. \A e \in Live : e \in Entry
    BY DEF TokenInv, TypeOK, Live, Queued, ToSet
  <1>2. LiveIds \subseteq JobId
    BY <1>1 DEF LiveIds, Entry
  <1>3. \A e, f \in Queued : e.id = f.id => e = f
    BY DEF TokenInv, OneEntryPerJob, Distinct, Queued, ToSet
  <1>4. QED
    BY <1>1, <1>2, <1>3 DEF TokenInv, OneEntryPerJob, Live

(* Steps that keep the set of live jobs keep the contract. *)
LEMMA ContractFrame ==
  ASSUME ExactInv, LiveIds' = LiveIds, key' = key, dedupe' = dedupe, ended' = ended,
         \A id \in JobId : ckpt'[id] # {} => ckpt[id] # {} \/ id \in LiveIds
  PROVE  LiveNotEnded' /\ DedupeExact' /\ NoCheckpointLeak'
  BY DEF ExactInv, LiveNotEnded, DedupeExact, NoCheckpointLeak

LEMMA SameLists ==
  ASSUME queue' = queue, processing' = processing
  PROVE  LiveIds' = LiveIds
  BY DEF LiveIds, Live, Queued

(* Steps that keep processing and the claims, and move no entry. *)
LEMMA ClaimsFrame ==
  ASSUME ExactInv, processing' = processing, claim' = claim,
         \A w \in Executors : pc'[w] = "moved" => pc[w] = "moved" /\ held'[w] = held[w]
  PROVE  MovedInPlace' /\ ClaimInPlace' /\ ClaimUncontested'
  BY DEF ExactInv, MovedInPlace, ClaimInPlace, ClaimUncontested

LEMMA ExactInit == Init => ExactInv
  BY DEF Init, ExactInv, MovedInPlace, ClaimInPlace, ClaimUncontested, LiveNotEnded,
         DedupeExact, NoCheckpointLeak, LiveIds, Live, Queued, ToSet

LEMMA ExactEnqueue ==
  ASSUME TokenInv, ExactInv, NEW id \in JobId, NEW k \in Keys, Enqueue(id, k)
  PROVE  ExactInv'
  <1> DEFINE e == [id |-> id, att |-> 0]
  <1>1. ToSet(queue') = ToSet(queue) \cup {e}
    <2>1. queue' = Append(queue, e) /\ queue \in Seq(Entry) /\ Distinct(queue)
      BY DEF Enqueue, TokenInv, TypeOK, OneEntryPerJob
    <2>2. e \in Entry
      BY DEF Entry
    <2>3. \A f \in ToSet(queue) : f.id # e.id
      BY QueueAssumption DEF TokenInv, Known, Enqueue, Live, Queued
    <2> HIDE DEF e
    <2>4. QED
      BY <2>1, <2>2, <2>3, PushEntry
  <1>2. LiveIds' = LiveIds \cup {id}
    BY <1>1 DEF Enqueue, LiveIds, Live, Queued
  <1>3. id \notin LiveIds
    BY QueueAssumption DEF TokenInv, Known, Enqueue, LiveIds
  <1>4. key'[id] = k /\ \A j \in JobId : j # id => key'[j] = key[j]
    BY DEF Enqueue, TokenInv, TypeOK
  <1>5. \A j \in LiveIds : key'[j] = key[j] /\ key[j] # k
    BY <1>3, <1>4, LiveInKey DEF Enqueue, ExactInv, DedupeExact
  <1>6. DedupeExact'
    <2>1. dedupe' = dedupe \cup {k}
      BY DEF Enqueue
    <2>2. QED
      BY <1>2, <1>4, <1>5, <2>1 DEF ExactInv, DedupeExact
  <1>7. LiveNotEnded'
    <2>1. id \notin ended
      BY DEF Enqueue, ExactInv, LiveNotEnded
    <2>2. \A j \in ended : key'[j] # NoKey
      BY <1>4, <2>1 DEF TokenInv, TypeOK, ExactInv, LiveNotEnded
    <2>3. QED
      BY <1>2, <2>1, <2>2 DEF Enqueue, ExactInv, LiveNotEnded
  <1>8. NoCheckpointLeak'
    BY <1>2 DEF Enqueue, ExactInv, NoCheckpointLeak
  <1>9. MovedInPlace' /\ ClaimInPlace' /\ ClaimUncontested'
    BY ClaimsFrame DEF Enqueue
  <1>10. QED
    BY <1>6, <1>7, <1>8, <1>9 DEF ExactInv

LEMMA ExactDispatch ==
  ASSUME TokenInv, ExactInv, NEW w \in Executors, Dispatch(w)
  PROVE  ExactInv'
  <1> DEFINE e == Last(queue)
  <1>1. e \in ToSet(queue) /\ ToSet(queue') = ToSet(queue) \ {e}
    BY PopEntry DEF TokenInv, TypeOK, OneEntryPerJob, Dispatch
  <1>2. /\ Take(w, e, "moved")
        /\ processing' = processing \cup {e}
        /\ UNCHANGED <<dedupe, claim, ckpt, key, hook, scan, ended, faults>>
    BY DEF Dispatch
  <1> HIDE DEF e
  <1>3. e \in Entry /\ \A f \in processing : f.id # e.id
    <2>1. e \in Queued
      BY <1>1 DEF Queued
    <2>2. QED
      BY <2>1, LiveInKey DEF TokenInv, OneEntryPerJob, Live
  <1>4. LiveIds' = LiveIds
    BY <1>1, <1>2 DEF LiveIds, Live, Queued
  <1>5. LiveNotEnded' /\ DedupeExact' /\ NoCheckpointLeak'
    BY <1>2, <1>4, ContractFrame
  <1>6. claim[e.id] = NoClaim
    BY <1>3 DEF ExactInv, ClaimInPlace, Entry
  <1>7. held'[w] = e /\ \A v \in Executors : v # w => held'[v] = held[v] /\ pc'[v] = pc[v]
    BY <1>2 DEF Take, TokenInv, TypeOK
  <1>8. MovedInPlace' /\ ClaimUncontested'
    <2> SUFFICES ASSUME NEW v \in Executors, pc'[v] = "moved"
                 PROVE  held'[v] \in processing' /\ claim'[held'[v].id] = NoClaim
      BY DEF MovedInPlace, ClaimUncontested
    <2>1. CASE v = w
      BY <1>2, <1>6, <1>7, <2>1
    <2>2. CASE v # w
      BY <1>2, <1>7, <2>2 DEF ExactInv, MovedInPlace, ClaimUncontested
    <2>3. QED
      BY <2>1, <2>2
  <1>9. ClaimInPlace'
    BY <1>2 DEF ExactInv, ClaimInPlace
  <1>10. QED
    BY <1>5, <1>8, <1>9 DEF ExactInv

LEMMA ExactClaimByID ==
  ASSUME TokenInv, ExactInv, NEW w \in Executors, NEW id \in JobId, ClaimByID(w, id)
  PROVE  ExactInv'
  <1> DEFINE e == [id |-> id, att |-> 0]
  <1>1. e \in ToSet(queue) /\ ToSet(queue') = ToSet(queue) \ {e}
    <2>1. PICK i \in DOMAIN queue : queue[i] = e /\ queue' = RemoveAt(queue, i)
      BY DEF ClaimByID
    <2>2. queue \in Seq(Entry) /\ Distinct(queue)
      BY DEF TokenInv, TypeOK, OneEntryPerJob
    <2> HIDE DEF e
    <2>3. QED
      BY <2>1, <2>2, RemoveEntry DEF ToSet
  <1>2. /\ Take(w, e, "claimed")
        /\ processing' = processing \cup {e}
        /\ claim' = [claim EXCEPT ![id] = 0]
        /\ UNCHANGED <<dedupe, ckpt, key, scan, ended, faults>>
        /\ e.id = id /\ e.att = 0
    BY DEF ClaimByID
  <1>3. \A f \in processing : f.id # id
    BY <1>1, <1>2 DEF TokenInv, OneEntryPerJob, Queued
  <1>4. LiveIds' = LiveIds
    BY <1>1, <1>2 DEF LiveIds, Live, Queued
  <1>5. LiveNotEnded' /\ DedupeExact' /\ NoCheckpointLeak'
    BY <1>2, <1>4, ContractFrame
  <1>6. \A v \in Executors :
          pc'[v] = "moved" => v # w /\ pc[v] = "moved" /\ held'[v] = held[v]
    BY <1>2 DEF Take, TokenInv, TypeOK
  <1>7. claim'[id] = 0 /\ \A j \in JobId : j # id => claim'[j] = claim[j]
    BY <1>2 DEF TokenInv, TypeOK
  <1>8. MovedInPlace'
    BY <1>2, <1>6 DEF ExactInv, MovedInPlace
  <1>9. ClaimInPlace'
    BY <1>2, <1>7 DEF ExactInv, ClaimInPlace
  <1>10. ClaimUncontested'
    <2> SUFFICES ASSUME NEW v \in Executors, pc'[v] = "moved"
                 PROVE  claim'[held'[v].id] = NoClaim
      BY DEF ClaimUncontested
    <2>1. held[v] \in processing /\ held[v].id # id /\ held[v] \in Entry
      BY <1>3, <1>6 DEF ExactInv, MovedInPlace, TokenInv, TypeOK
    <2>2. QED
      BY <1>6, <1>7, <2>1 DEF ExactInv, ClaimUncontested, Entry
  <1>11. QED
    BY <1>5, <1>8, <1>9, <1>10 DEF ExactInv

(* A reaper that does not act on an entry inside the window. *)
LEMMA ExactReap ==
  ASSUME TokenInv, ExactInv, NoEarlyReap', NEW r \in Reapers, ReapOne(r)
  PROVE  ExactInv'
  <1> DEFINE e == scan[r]
             n == NextAttempt(e)
  <1>1. e \in Entry /\ UNCHANGED <<dedupe, claim, ckpt, key, hook, pc, held, ended>>
    BY DEF ReapOne, TokenInv, TypeOK
  <1>2. CASE Reapable(e)
    <2>1. /\ e \in processing /\ claim[e.id] = NoClaim
          /\ processing' = processing \ {e}
          /\ queue' = Append(queue, n)
          /\ ~ InWindow(e)
      <3>1. faults["window"] \in Nat /\ DOMAIN faults = Faults /\ "window" \in Faults
        BY DEF TokenInv, TypeOK, Faults
      <3>2. ~ Charge("window", MaxWindowReaps)
        BY <3>1 DEF Charge, NoEarlyReap
      <3>3. QED
        BY <1>2, <3>2 DEF ReapOne, Reapable
    <2>2. n \in Entry /\ n.id = e.id
      BY <1>1 DEF NextAttempt, Entry
    <2>3. queue \in Seq(Entry) /\ Distinct(queue)
      BY DEF TokenInv, TypeOK, OneEntryPerJob
    <2>4. \A f \in ToSet(queue) : f.id # n.id
      BY <2>1, <2>2 DEF TokenInv, OneEntryPerJob, Queued
    <2> HIDE DEF n, e
    <2>5. ToSet(queue') = ToSet(queue) \cup {n}
      BY <2>1, <2>2, <2>3, <2>4, PushEntry
    <2>6. LiveIds' = LiveIds
      <3>1. Live' = (Live \ {e}) \cup {n}
        BY <2>1, <2>2, <2>4, <2>5 DEF Live, Queued
      <3>2. e \in Live
        BY <2>1 DEF Live
      <3>3. QED
        BY <2>2, <3>1, <3>2 DEF LiveIds
    <2>7. LiveNotEnded' /\ DedupeExact' /\ NoCheckpointLeak'
      BY <1>1, <2>6, ContractFrame
    <2>8. MovedInPlace'
      BY <1>1, <2>1 DEF ExactInv, MovedInPlace, InWindow
    <2>9. ClaimInPlace' /\ ClaimUncontested'
      <3>1. \A id \in JobId : claim[id] # NoClaim => [id |-> id, att |-> claim[id]] # e
        BY <2>1
      <3>2. QED
        BY <1>1, <2>1, <3>1 DEF ExactInv, ClaimInPlace, ClaimUncontested
    <2>10. QED
      BY <2>7, <2>8, <2>9 DEF ExactInv
  <1>3. CASE ~ Reapable(e)
    <2>1. queue' = queue /\ processing' = processing
      BY <1>3 DEF ReapOne
    <2>2. QED
      BY <1>1, <2>1, SameLists, ContractFrame, ClaimsFrame DEF ExactInv
  <1>4. QED
    BY <1>2, <1>3

(* completeScript run by the owner takes the job out of every structure;   *)
(* run by a stale attempt it changes nothing.                              *)
LEMMA ExactEnd ==
  ASSUME TokenInv, ExactInv, NEW w \in Executors, Complete(w) \/ Abandon(w)
  PROVE  ExactInv'
  <1> DEFINE e == held[w]
             id == held[w].id
  <1>1. /\ Working(w)
        /\ pc[w] # "moved"
        /\ e \in Entry
        /\ id \in JobId
        /\ RemoveJob(e)
        /\ Release(w)
        /\ UNCHANGED <<key, hook, scan, faults>>
    BY DEF Complete, Abandon, Working, TokenInv, TypeOK, Entry
  <1>2. \A v \in Executors :
          pc'[v] = "moved" => v # w /\ pc[v] = "moved" /\ held'[v] = held[v]
    BY <1>1 DEF Release, TokenInv, TypeOK
  <1>3. CASE claim[e.id] # e.att
    <2>1. UNCHANGED <<store, ended>>
      BY <1>1, <1>3 DEF RemoveJob
    <2>2. LiveIds' = LiveIds
      BY <2>1, SameLists DEF store
    <2>3. QED
      BY <1>1, <1>2, <2>1, <2>2, ContractFrame, ClaimsFrame DEF ExactInv, store
  <1>4. CASE claim[e.id] = e.att
    <2>1. /\ queue' = queue
          /\ processing' = processing \ {e}
          /\ claim' = [claim EXCEPT ![id] = NoClaim]
          /\ ckpt' = [ckpt EXCEPT ![id] = {}]
          /\ dedupe' = dedupe \ {key[id]}
          /\ ended' = ended \cup {id}
      BY <1>1, <1>4 DEF RemoveJob
    <2>2. e \in processing
      <3>1. e.att \in Nat /\ e = [id |-> e.id, att |-> e.att]
        BY <1>1 DEF Entry
      <3>2. claim[id] # NoClaim
        BY <1>4, <3>1 DEF NoClaim
      <3>3. QED
        BY <1>1, <1>4, <3>1, <3>2 DEF ExactInv, ClaimInPlace
    <2> HIDE DEF e, id
    <2>3. LiveIds' = LiveIds \ {id}
      <3>1. e \in Live /\ e \notin Queued
        BY <2>2 DEF Live, TokenInv, OneEntryPerJob
      <3>2. Live' = Live \ {e}
        BY <2>1, <3>1 DEF Live, Queued
      <3>3. \A f \in Live : f # e => f.id # id
        BY <3>1, LiveInKey DEF e, id
      <3>4. QED
        BY <3>1, <3>2, <3>3 DEF LiveIds, e, id
    <2>4. id \in LiveIds
      BY <2>2 DEF LiveIds, Live, e, id
    <2>5. DedupeExact'
      BY <1>1, <2>1, <2>3, <2>4 DEF ExactInv, DedupeExact
    <2>6. LiveNotEnded'
      <3>1. key[id] # NoKey
        BY <1>1 DEF TokenInv, Known, id
      <3>2. QED
        BY <1>1, <2>1, <2>3, <3>1 DEF ExactInv, LiveNotEnded
    <2>7. NoCheckpointLeak'
      BY <1>1, <2>1, <2>3 DEF ExactInv, NoCheckpointLeak, TokenInv, TypeOK, id
    <2>8. MovedInPlace'
      <3>1. \A v \in Executors : v # w /\ pc[v] = "moved" => held[v] # e
        BY <1>1 DEF TokenInv, TokenUnique, Working, e
      <3>2. QED
        BY <1>2, <2>1, <3>1 DEF ExactInv, MovedInPlace
    <2>9. ClaimInPlace'
      <3> SUFFICES ASSUME NEW j \in JobId, claim'[j] # NoClaim
                   PROVE  [id |-> j, att |-> claim'[j]] \in processing'
        BY DEF ClaimInPlace
      <3>1. j # id /\ claim'[j] = claim[j]
        BY <1>1, <2>1 DEF TokenInv, TypeOK, id
      <3>2. [id |-> j, att |-> claim[j]] \in processing
        BY <3>1 DEF ExactInv, ClaimInPlace
      <3>3. [id |-> j, att |-> claim[j]] # e
        BY <3>1 DEF e, id
      <3>4. QED
        BY <2>1, <3>1, <3>2, <3>3
    <2>10. ClaimUncontested'
      <3> SUFFICES ASSUME NEW v \in Executors, pc'[v] = "moved"
                   PROVE  claim'[held'[v].id] = NoClaim
        BY DEF ClaimUncontested
      <3>1. pc[v] = "moved" /\ held'[v] = held[v] /\ held[v].id \in JobId
        BY <1>2 DEF TokenInv, TypeOK, Entry
      <3>2. QED
        BY <2>1, <3>1 DEF ExactInv, ClaimUncontested, TokenInv, TypeOK
    <2>11. QED
      BY <2>5, <2>6, <2>7, <2>8, <2>9, <2>10 DEF ExactInv
  <1>5. QED
    BY <1>3, <1>4

(* SETNX: the claim it sets names the moved entry, and nobody else moved   *)
(* an entry of that job.                                                   *)
LEMMA ExactSetClaim ==
  ASSUME TokenInv, ExactInv, NEW w \in Executors, SetClaim(w)
  PROVE  ExactInv'
  <1> DEFINE id == held[w].id
  <1>1. /\ pc[w] = "moved" /\ held[w] \in processing /\ held[w] \in Entry
        /\ id \in JobId /\ held[w] = [id |-> id, att |-> held[w].att]
        /\ Working(w)
    BY DEF SetClaim, ExactInv, MovedInPlace, TokenInv, TypeOK, Entry, Working
  <1>2. /\ claim' = [claim EXCEPT ![id] = held[w].att]
        /\ pc' = [pc EXCEPT ![w] = "claimed"]
        /\ UNCHANGED <<queue, processing, dedupe, ckpt, key, hook, held, scan, ended, faults>>
    BY DEF SetClaim
  <1>3. claim'[id] = held[w].att /\ \A j \in JobId : j # id => claim'[j] = claim[j]
    BY <1>1, <1>2 DEF TokenInv, TypeOK
  <1>4. LiveNotEnded' /\ DedupeExact' /\ NoCheckpointLeak'
    BY <1>2, SameLists, ContractFrame
  <1>5. \A v \in Executors : pc'[v] = "moved" => v # w /\ pc[v] = "moved"
    BY <1>2 DEF TokenInv, TypeOK
  <1>6. MovedInPlace'
    BY <1>2, <1>5 DEF ExactInv, MovedInPlace
  <1>7. ClaimInPlace'
    BY <1>1, <1>2, <1>3 DEF ExactInv, ClaimInPlace
  <1>8. ClaimUncontested'
    <2> SUFFICES ASSUME NEW v \in Executors, pc'[v] = "moved"
                 PROVE  claim'[held'[v].id] = NoClaim
      BY DEF ClaimUncontested
    <2>1. pc[v] = "moved" /\ held[v] \in processing /\ v # w /\ Working(v)
      BY <1>5 DEF ExactInv, MovedInPlace, Working
    <2>2. held[v].id # id
      BY <1>1, <2>1 DEF TokenInv, OneEntryPerJob, TokenUnique
    <2>3. held[v].id \in JobId
      BY <2>1 DEF TokenInv, TypeOK, Entry
    <2>4. QED
      BY <1>2, <1>3, <2>1, <2>2, <2>3 DEF ExactInv, ClaimUncontested
  <1>9. QED
    BY <1>4, <1>6, <1>7, <1>8 DEF ExactInv

(* Everything else leaves the lists and the claims alone, or drops a claim.*)
LEMMA ExactQuiet ==
  ASSUME TokenInv, ExactInv, NEW w \in Executors,
         \/ ClaimContested(w) \/ StartHandler(w) \/ HeartbeatLost(w)
         \/ BackOff(w) \/ Crash(w)
         \/ \E result \in {"succeeded", "failed"} : HandlerReturns(w, result)
  PROVE  ExactInv'
  <1>1. UNCHANGED <<store, key, ended>>
    BY DEF ClaimContested, StartHandler, HeartbeatLost, BackOff, Crash, HandlerReturns
  <1>2. \A v \in Executors : pc'[v] = "moved" => pc[v] = "moved" /\ held'[v] = held[v]
    BY DEF ClaimContested, StartHandler, HeartbeatLost, BackOff, Crash, HandlerReturns,
           Release, TokenInv, TypeOK
  <1>3. QED
    BY <1>1, <1>2, SameLists, ContractFrame, ClaimsFrame DEF ExactInv, store

(* A job with a claim is in processing, under the claim's attempt. *)
LEMMA ClaimedIsLive ==
  ASSUME ClaimInPlace, NEW j \in JobId, claim[j] # NoClaim
  PROVE  j \in LiveIds
  <1>1. PICK e \in processing : e = [id |-> j, att |-> claim[j]]
    BY DEF ClaimInPlace
  <1>2. e.id = j
    BY <1>1
  <1>3. QED
    BY <1>1, <1>2 DEF LiveIds, Live

(* Checkpoints: only the owner of a claim writes, so its job is live. *)
LEMMA ExactCheckpoint ==
  ASSUME TokenInv, ExactInv, NEW w \in Executors, NEW s \in Steps,
         SaveCheckpoint(w, s) \/ DeleteCheckpoint(w, s)
  PROVE  ExactInv'
  <1> DEFINE id == held[w].id
  <1>1. /\ UNCHANGED <<queue, processing, dedupe, claim, key, held, ended>>
        /\ pc[w] = "running" /\ held[w] \in Entry
    BY DEF SaveCheckpoint, DeleteCheckpoint, TokenInv, TypeOK
  <1>2. \A v \in Executors : pc'[v] = "moved" => pc[v] = "moved" /\ held'[v] = held[v]
    BY DEF SaveCheckpoint, DeleteCheckpoint, TokenInv, TypeOK
  <1>3. ASSUME NEW j \in JobId, ckpt'[j] # {}
        PROVE  ckpt[j] # {} \/ j \in LiveIds
    <2>1. CASE Owns(w)
      <3>1. held[w].att \in Nat /\ id \in JobId
        BY <1>1 DEF Entry
      <3>2. claim[id] # NoClaim
        BY <2>1, <3>1 DEF Owns, NoClaim
      <3>3. id \in LiveIds
        BY <3>1, <3>2, ClaimedIsLive DEF ExactInv
      <3>4. j # id => ckpt'[j] = ckpt[j]
        <4>1. \/ ckpt' = [ckpt EXCEPT ![id] = @ \cup {s}]
              \/ ckpt' = [ckpt EXCEPT ![id] = @ \ {s}]
          BY <2>1 DEF SaveCheckpoint, DeleteCheckpoint
        <4>2. QED
          BY <3>1, <4>1 DEF TokenInv, TypeOK
      <3>5. QED
        BY <1>3, <3>3, <3>4
    <2>2. CASE ~ Owns(w)
      BY <1>3, <2>2 DEF SaveCheckpoint, DeleteCheckpoint
    <2>3. QED
      BY <2>1, <2>2
  <1>4. QED
    BY <1>1, <1>2, <1>3, SameLists, ContractFrame, ClaimsFrame DEF ExactInv

LEMMA ExactExpire ==
  ASSUME TokenInv, ExactInv, NEW id \in JobId, Expire(id)
  PROVE  ExactInv'
  <1>1. /\ UNCHANGED <<queue, processing, dedupe, ckpt, key, pc, held, ended>>
        /\ claim' = [claim EXCEPT ![id] = NoClaim]
    BY DEF Expire
  <1>2. \A j \in JobId : claim'[j] = NoClaim \/ claim'[j] = claim[j]
    BY <1>1 DEF TokenInv, TypeOK
  <1>3. LiveNotEnded' /\ DedupeExact' /\ NoCheckpointLeak'
    BY <1>1, SameLists, ContractFrame
  <1>4. MovedInPlace' /\ ClaimInPlace'
    BY <1>1, <1>2 DEF ExactInv, MovedInPlace, ClaimInPlace
  <1>5. ClaimUncontested'
    <2> SUFFICES ASSUME NEW v \in Executors, pc[v] = "moved"
                 PROVE  claim'[held[v].id] = NoClaim
      BY <1>1 DEF ClaimUncontested
    <2>1. held[v].id \in JobId
      BY DEF TokenInv, TypeOK, Entry
    <2>2. QED
      BY <1>2, <2>1 DEF ExactInv, ClaimUncontested
  <1>6. QED
    BY <1>3, <1>4, <1>5 DEF ExactInv

LEMMA ExactNext ==
  ASSUME NoEarlyReap', TokenInv, ExactInv, [Next]_vars
  PROVE  ExactInv'
  <1>1. CASE \/ UNCHANGED vars
             \/ \E r \in Reapers, e \in processing : Scan(r, e)
             \/ \E id \in JobId : ClaimByIDLost(id)
    <2>1. UNCHANGED <<queue, processing, dedupe, claim, ckpt, key, pc, held, ended>>
      BY <1>1 DEF vars, Scan, ClaimByIDLost, store
    <2>2. QED
      BY <2>1, SameLists, ContractFrame, ClaimsFrame DEF ExactInv
  <1>2. CASE \E id \in JobId, k \in Keys : Enqueue(id, k)
    BY <1>2, ExactEnqueue
  <1>3. CASE \E w \in Executors : Dispatch(w)
    BY <1>3, ExactDispatch
  <1>4. CASE \E w \in Executors, id \in JobId : ClaimByID(w, id)
    BY <1>4, ExactClaimByID
  <1>5. CASE \E w \in Executors : Execute(w) \/ Crash(w)
    BY <1>5, ExactSetClaim, ExactQuiet, ExactEnd DEF Execute
  <1>6. CASE \E w \in Executors, s \in Steps :
               SaveCheckpoint(w, s) \/ DeleteCheckpoint(w, s)
    BY <1>6, ExactCheckpoint
  <1>7. CASE \E id \in JobId : Expire(id)
    BY <1>7, ExactExpire
  <1>8. CASE \E r \in Reapers : ReapOne(r)
    BY <1>8, ExactReap
  <1>9. QED
    BY <1>1, <1>2, <1>3, <1>4, <1>5, <1>6, <1>7, <1>8 DEF Next

(* Whatever the budget, the contract holds until it is first spent. *)
THEOREM ExactUntilReaped == Spec => [](NoEarlyReap => ExactInv)
  <1>1. TokenInv /\ (NoEarlyReap => ExactInv) /\ [Next]_vars => (NoEarlyReap => ExactInv)'
    BY ExactNext, EarlyReapStays DEF TokenInv
  <1>2. QED
    BY <1>1, ExactInit, TokenInvariant, PTL DEF Spec

THEOREM ExactInvariant ==
  ASSUME MaxWindowReaps = 0
  PROVE  Spec => []ExactInv
  <1>1. Init => NoEarlyReap
    BY DEF Init, NoEarlyReap, Faults
  <1>2. TokenInv /\ NoEarlyReap /\ [Next]_vars => NoEarlyReap'
    BY EarlyReapStays DEF TokenInv, NoEarlyReap
  <1>3. QED
    BY <1>1, <1>2, ExactUntilReaped, TokenInvariant, PTL DEF Spec

(* Unless an entry is reaped between its BLMOVE and its SETNX, the dedupe  *)
(* set is exactly the set of keys that are queued or in flight, and no two *)
(* such jobs share a key (enqueueScript, completeScript, Pending).         *)
THEOREM DedupeIsExact ==
  ASSUME MaxWindowReaps = 0
  PROVE  Spec => []DedupeExact
  <1>1. ExactInv => DedupeExact
    BY DEF ExactInv
  <1>2. QED
    BY <1>1, ExactInvariant, PTL

(* Under the same condition no checkpoint outlives its job, however late a *)
(* stale attempt tries to save one (saveCheckpointScript).                 *)
THEOREM CheckpointsCleanedUp ==
  ASSUME MaxWindowReaps = 0
  PROVE  Spec => []NoCheckpointLeak
  <1>1. ExactInv => NoCheckpointLeak
    BY DEF ExactInv
  <1>2. QED
    BY <1>1, ExactInvariant, PTL

(* And the case the worker says "shouldn't happen" does not happen. *)
THEOREM NeverContested ==
  ASSUME MaxWindowReaps = 0
  PROVE  Spec => []ClaimUncontested
  <1>1. ExactInv => ClaimUncontested
    BY DEF ExactInv
  <1>2. QED
    BY <1>1, ExactInvariant, PTL

(* A submitted job is never lost: until its completeScript ran it is in    *)
(* the queue or in processing, through every crash, expiry and retry, the  *)
(* window included.                                                        *)
LEMMA LostStep ==
  ASSUME TokenInv, NoJobLost, [Next]_vars
  PROVE  NoJobLost'
  <1>1. CASE \/ UNCHANGED vars
             \/ \E r \in Reapers, e \in processing : Scan(r, e)
             \/ \E id \in JobId : ClaimByIDLost(id) \/ Expire(id)
             \/ \E w \in Executors :
                  \/ SetClaim(w) \/ ClaimContested(w) \/ StartHandler(w) \/ HeartbeatLost(w)
                  \/ BackOff(w) \/ Crash(w)
                  \/ \E result \in {"succeeded", "failed"} : HandlerReturns(w, result)
             \/ \E w \in Executors, s \in Steps :
                  SaveCheckpoint(w, s) \/ DeleteCheckpoint(w, s)
    <2>1. UNCHANGED <<queue, processing, key, ended>>
      BY <1>1 DEF vars, Scan, ClaimByIDLost, Expire, SetClaim, ClaimContested, StartHandler,
           HeartbeatLost, BackOff, Crash, HandlerReturns, SaveCheckpoint, DeleteCheckpoint, store
    <2>2. QED
      BY <2>1, SameLists DEF NoJobLost
  <1>2. ASSUME NEW id \in JobId, NEW k \in Keys, Enqueue(id, k)
        PROVE  NoJobLost'
    <2> DEFINE e == [id |-> id, att |-> 0]
    <2>1. ToSet(queue') = ToSet(queue) \cup {e}
      <3>1. queue' = Append(queue, e) /\ queue \in Seq(Entry) /\ Distinct(queue)
        BY <1>2 DEF Enqueue, TokenInv, TypeOK, OneEntryPerJob
      <3>2. e \in Entry
        BY DEF Entry
      <3>3. \A f \in ToSet(queue) : f.id # e.id
        BY <1>2, QueueAssumption DEF TokenInv, Known, Enqueue, Live, Queued
      <3> HIDE DEF e
      <3>4. QED
        BY <3>1, <3>2, <3>3, PushEntry
    <2>2. LiveIds' = LiveIds \cup {id}
      BY <1>2, <2>1 DEF Enqueue, LiveIds, Live, Queued
    <2>3. \A j \in JobId : j # id => key'[j] = key[j]
      BY <1>2 DEF Enqueue, TokenInv, TypeOK
    <2>4. QED
      BY <1>2, <2>2, <2>3 DEF Enqueue, NoJobLost
  <1>3. ASSUME NEW w \in Executors, Dispatch(w)
        PROVE  NoJobLost'
    <2>1. ToSet(queue') = ToSet(queue) \ {Last(queue)}
      BY <1>3, PopEntry DEF Dispatch, TokenInv, TypeOK, OneEntryPerJob
    <2>2. LiveIds \subseteq LiveIds'
      BY <1>3, <2>1 DEF Dispatch, LiveIds, Live, Queued
    <2>3. QED
      BY <1>3, <2>2 DEF Dispatch, NoJobLost
  <1>4. ASSUME NEW w \in Executors, NEW id \in JobId, ClaimByID(w, id)
        PROVE  NoJobLost'
    <2> DEFINE e == [id |-> id, att |-> 0]
    <2>1. PICK i \in DOMAIN queue : queue[i] = e /\ queue' = RemoveAt(queue, i)
      BY <1>4 DEF ClaimByID
    <2>2. queue \in Seq(Entry) /\ Distinct(queue)
      BY DEF TokenInv, TypeOK, OneEntryPerJob
    <2>3. processing' = processing \cup {e} /\ UNCHANGED <<key, ended>>
      BY <1>4 DEF ClaimByID
    <2> HIDE DEF e
    <2>4. ToSet(queue') = ToSet(queue) \ {e}
      BY <2>1, <2>2, RemoveEntry
    <2>5. LiveIds \subseteq LiveIds'
      BY <2>3, <2>4 DEF LiveIds, Live, Queued
    <2>6. QED
      BY <2>3, <2>5 DEF NoJobLost
  <1>5. ASSUME NEW w \in Executors, Complete(w) \/ Abandon(w)
        PROVE  NoJobLost'
    <2>1. RemoveJob(held[w]) /\ key' = key
      BY <1>5 DEF Complete, Abandon
    <2>2. CASE claim[held[w].id] # held[w].att
      BY <2>1, <2>2, SameLists DEF RemoveJob, store, NoJobLost
    <2>3. CASE claim[held[w].id] = held[w].att
      <3>1. /\ queue' = queue /\ processing' = processing \ {held[w]}
            /\ ended' = ended \cup {held[w].id}
        BY <2>1, <2>3 DEF RemoveJob
      <3>2. LiveIds \ {held[w].id} \subseteq LiveIds'
        BY <3>1 DEF LiveIds, Live, Queued
      <3>3. QED
        BY <2>1, <3>1, <3>2 DEF NoJobLost
    <2>4. QED
      BY <2>2, <2>3
  <1>6. ASSUME NEW r \in Reapers, ReapOne(r)
        PROVE  NoJobLost'
    <2> DEFINE e == scan[r]
               n == NextAttempt(e)
    <2>1. CASE Reapable(e)
      <3>1. e \in Entry /\ e \in processing /\ queue' = Append(queue, n)
            /\ processing' = processing \ {e}
        BY <1>6, <2>1 DEF ReapOne, Reapable, TokenInv, TypeOK
      <3>2. n \in Entry /\ n.id = e.id
        BY <3>1 DEF NextAttempt, Entry
      <3>3. queue \in Seq(Entry) /\ Distinct(queue)
        BY DEF TokenInv, TypeOK, OneEntryPerJob
      <3>4. \A f \in ToSet(queue) : f.id # n.id
        BY <3>1, <3>2 DEF TokenInv, OneEntryPerJob, Queued
      <3> HIDE DEF n, e
      <3>5. ToSet(queue') = ToSet(queue) \cup {n}
        BY <3>1, <3>2, <3>3, <3>4, PushEntry
      <3>6. LiveIds \subseteq LiveIds'
        BY <3>1, <3>2, <3>5 DEF LiveIds, Live, Queued
      <3>7. QED
        BY <1>6, <3>6 DEF ReapOne, NoJobLost
    <2>2. CASE ~ Reapable(e)
      BY <1>6, <2>2, SameLists DEF ReapOne, NoJobLost
    <2>3. QED
      BY <2>1, <2>2
  <1>7. QED
    BY <1>1, <1>2, <1>3, <1>4, <1>5, <1>6 DEF Next, Execute

THEOREM JobsSurvive == Spec => []NoJobLost
  <1>1. Init => NoJobLost
    BY DEF Init, NoJobLost
  <1>2. TokenInv /\ NoJobLost /\ [Next]_vars => NoJobLost'
    BY LostStep
  <1>3. QED
    BY <1>1, <1>2, TokenInvariant, PTL DEF Spec

-----------------------------------------------------------------------------
(* Refinement: every step of the queue is a step of the life cycle its     *)
(* callers rely on, or changes nothing they can see.                       *)

LEMMA LifecycleStep ==
  ASSUME TokenInv, ExactInv, NoJobLost, [Next]_vars
  PROVE  [Lifecycle!Next]_(Lifecycle!vars)
  <1>1. CASE key' = key /\ ended' = ended
    BY <1>1 DEF Lifecycle!vars
  <1>2. ASSUME NEW id \in JobId, NEW k \in Keys, Enqueue(id, k)
        PROVE  Lifecycle!Submit(id, k)
    <2>1. ~ Lifecycle!Pending(k)
      <3>1. k # NoKey /\ k \notin dedupe
        BY <1>2, QueueAssumption DEF Enqueue
      <3>2. \A j \in JobId : key[j] = k /\ j \notin ended => key[j] \in dedupe
        BY <3>1 DEF NoJobLost, ExactInv, DedupeExact
      <3>3. QED
        BY <3>1, <3>2 DEF Lifecycle!Pending
    <2>2. QED
      BY <1>2, <2>1 DEF Enqueue, Lifecycle!Submit
  <1>3. ASSUME NEW w \in Executors, Complete(w) \/ Abandon(w)
        PROVE  (key' = key /\ ended' = ended) \/ Lifecycle!End(held[w].id)
    <2>1. RemoveJob(held[w]) /\ key' = key
      BY <1>3 DEF Complete, Abandon
    <2>2. Working(w) /\ held[w] \in Entry
      BY <1>3 DEF Complete, Abandon, Working, TokenInv, TypeOK
    <2>3. CASE claim[held[w].id] # held[w].att
      BY <2>1, <2>3 DEF RemoveJob
    <2>4. CASE claim[held[w].id] = held[w].att
      <3>1. held[w].att \in Nat /\ held[w].id \in JobId
        BY <2>2 DEF Entry
      <3>2. held[w].id \in LiveIds
        BY <2>4, <3>1, ClaimedIsLive DEF ExactInv, NoClaim
      <3>3. held[w].id \notin ended /\ key[held[w].id] # NoKey
        BY <2>2, <3>2 DEF ExactInv, LiveNotEnded, TokenInv, Known
      <3>4. ended' = ended \cup {held[w].id}
        BY <2>1, <2>4 DEF RemoveJob
      <3>5. QED
        BY <2>1, <3>3, <3>4 DEF Lifecycle!End
    <2>5. QED
      BY <2>3, <2>4
  <1>4. \/ key' = key /\ ended' = ended
        \/ \E id \in JobId, k \in Keys : Enqueue(id, k)
        \/ \E w \in Executors : Complete(w) \/ Abandon(w)
    BY DEF Next, Execute, vars, Scan, ClaimByIDLost, Expire, SetClaim, ClaimContested,
           StartHandler, HeartbeatLost, BackOff, Crash, HandlerReturns, SaveCheckpoint,
           DeleteCheckpoint, store, Dispatch, ClaimByID, ReapOne
  <1>5. ASSUME NEW w \in Executors, Complete(w) \/ Abandon(w)
        PROVE  held[w].id \in JobId
    BY <1>5 DEF Complete, Abandon, TokenInv, TypeOK, Entry
  <1>6. QED
    BY <1>1, <1>2, <1>3, <1>4, <1>5 DEF Lifecycle!Next

(* The queue implements JobLifecycle: a pending key is refused, a job ends *)
(* once, and only a pending job ends.                                      *)
THEOREM RefinesLifecycle ==
  ASSUME MaxWindowReaps = 0
  PROVE  Spec => Lifecycle!Spec
  <1>1. Init => Lifecycle!Init
    BY DEF Init, Lifecycle!Init
  <1>2. TokenInv /\ ExactInv /\ NoJobLost /\ [Next]_vars
          => [Lifecycle!Next]_(Lifecycle!vars)
    BY LifecycleStep
  <1>3. QED
    BY <1>1, <1>2, TokenInvariant, ExactInvariant, JobsSurvive, PTL
       DEF Spec, Lifecycle!Spec

(* With any budget of early reaps: until the first of them the dedupe set  *)
(* is exact, no checkpoint leaks, no claim is contested, and every step is *)
(* a step of the life cycle or nothing its callers see.                    *)
THEOREM ContractUntilReaped ==
  Spec => /\ [](NoEarlyReap => DedupeExact /\ NoCheckpointLeak /\ ClaimUncontested)
          /\ [][NoEarlyReap => [Lifecycle!Next]_(Lifecycle!vars)]_vars
  <1>1. ExactInv => DedupeExact /\ NoCheckpointLeak /\ ClaimUncontested
    BY DEF ExactInv
  <1>2. TokenInv /\ (NoEarlyReap => ExactInv) /\ NoJobLost /\ [Next]_vars
          => (NoEarlyReap => [Lifecycle!Next]_(Lifecycle!vars))
    BY LifecycleStep
  <1>3. QED
    BY <1>1, <1>2, TokenInvariant, ExactUntilReaped, JobsSurvive, PTL DEF Spec

-----------------------------------------------------------------------------
(* What AttemptsAccounted allows. *)
Bound == MaxAttempts - 1 + faults["crash"] + faults["late"] + 2 * faults["window"]

(* Executors whose entry was reaped before they claimed it.  Each of them  *)
(* may yet set a claim that costs its job an attempt.                      *)
Latecomers(id) ==
  {w \in Executors : pc[w] = "moved" /\ held[w].id = id /\ held[w] \notin processing}

(* The entry's present attempt is still to be run, or is being run. *)
Covered(e) ==
  \/ claim[e.id] = NoClaim /\ (e \in Queued \/ InWindow(e))
  \/ \E w \in Executors : pc[w] \in Claiming /\ held[w] = e /\ Owns(w)

(* What is left of the bound pays for one more attempt where this one is   *)
(* over, and for one more for each latecomer.                              *)
Paid(e) ==
  e.att + Cardinality(Latecomers(e.id)) + (IF Covered(e) THEN 0 ELSE 1) <= Bound

LatecomersPaid(id) ==
  /\ IsFiniteSet(Latecomers(id))
  /\ Cardinality(Latecomers(id)) <= faults["window"]

AttemptsInv ==
  /\ \A id \in JobId : LatecomersPaid(id) /\ (key[id] = NoKey => claim[id] = NoClaim)
  /\ \A e \in Live : Paid(e)

-----------------------------------------------------------------------------
LEMMA BoundType ==
  ASSUME TokenInv
  PROVE  /\ Bound \in Int /\ Bound >= MaxAttempts - 1 + 2 * faults["window"]
         /\ faults["window"] \in Nat
         /\ \A e \in Live : e.att \in Nat /\ e.id \in JobId
  BY QueueAssumption, LiveInKey DEF TokenInv, TypeOK, Faults, Bound, Entry

(* What a fault adds to the bound. *)
LEMMA Charged ==
  ASSUME TokenInv, NEW f \in Faults, faults' = [faults EXCEPT ![f] = @ + 1]
  PROVE  /\ Bound \in Int
         /\ f # "window" => Bound' = Bound + 1 /\ faults'["window"] = faults["window"]
         /\ f = "window" => Bound' = Bound + 2 /\ faults'["window"] = faults["window"] + 1
  <1>1. /\ faults["crash"] \in Nat /\ faults["late"] \in Nat /\ faults["window"] \in Nat
        /\ faults'[f] = faults[f] + 1 /\ \A g \in Faults \ {f} : faults'[g] = faults[g]
    BY DEF TokenInv, TypeOK, Faults
  <1>2. f = "crash" \/ f = "late" \/ f = "window"
    BY DEF Faults
  <1>3. QED
    BY <1>1, <1>2, QueueAssumption DEF Bound, Faults

(* Steps that make no entry: each entry is as well covered as before, or   *)
(* a fault or a latecomer's turn pays for its next attempt, or it has not  *)
(* had all those it may have.                                              *)
LEMMA AttemptsStay ==
  ASSUME TokenInv, TokenInv', AttemptsInv,
         Bound <= Bound', faults["window"] = faults'["window"],
         \A id \in JobId : Latecomers(id)' \subseteq Latecomers(id),
         \A id \in JobId : key'[id] = NoKey => key[id] = NoKey /\ claim'[id] = claim[id],
         \A e \in Live' :
           /\ e \in Live
           /\ \/ Covered(e) => Covered(e)'
              \/ Bound + 1 <= Bound'
              \/ Latecomers(e.id)' # Latecomers(e.id)
              \/ ~ LastAttempt(e)
  PROVE  AttemptsInv'
  <1>1. ASSUME NEW id \in JobId
        PROVE  /\ LatecomersPaid(id)'
               /\ Cardinality(Latecomers(id)) \in Nat /\ Cardinality(Latecomers(id)') \in Nat
               /\ Cardinality(Latecomers(id)') <= Cardinality(Latecomers(id))
               /\ Latecomers(id)' # Latecomers(id) =>
                    Cardinality(Latecomers(id)') + 1 <= Cardinality(Latecomers(id))
    <2> DEFINE L == Latecomers(id)
               M == Latecomers(id)'
    <2>1. IsFiniteSet(L) /\ Cardinality(L) <= faults["window"] /\ M \in SUBSET L
      BY DEF AttemptsInv, LatecomersPaid
    <2>2. faults["window"] \in Nat
      BY BoundType
    <2> HIDE DEF L, M
    <2>3. /\ IsFiniteSet(M) /\ Cardinality(M) <= Cardinality(L)
          /\ Cardinality(L) = Cardinality(M) => L = M
      BY <2>1, FS_Subset
    <2>4. Cardinality(L) \in Nat /\ Cardinality(M) \in Nat
      BY <2>1, <2>3, FS_CardinalityType
    <2>5. Cardinality(M) <= faults'["window"]
      BY <2>1, <2>2, <2>3, <2>4
    <2>6. LatecomersPaid(id)'
      BY <2>3, <2>5 DEF LatecomersPaid, M
    <2>7. M # L => Cardinality(M) + 1 <= Cardinality(L)
      BY <2>3, <2>4
    <2>8. QED
      BY <2>3, <2>4, <2>6, <2>7 DEF L, M
  <1>2. ASSUME NEW e \in Live'
        PROVE  Paid(e)'
    <2> DEFINE l == Cardinality(Latecomers(e.id))
               m == Cardinality(Latecomers(e.id)')
               c == IF Covered(e) THEN 0 ELSE 1
               d == IF Covered(e)' THEN 0 ELSE 1
    <2>1. e \in Live /\ e.att \in Nat /\ e.id \in JobId
      BY BoundType
    <2>2. l \in Nat /\ m \in Nat /\ m <= l /\ l <= faults["window"]
      BY <1>1, <2>1 DEF AttemptsInv, LatecomersPaid
    <2>3. e.att + l + c <= Bound
      BY <2>1 DEF AttemptsInv, Paid
    <2>4. /\ Bound \in Int /\ faults["window"] \in Nat /\ MaxAttempts \in Nat
          /\ Bound >= MaxAttempts - 1 + 2 * faults["window"]
          /\ Bound' \in Int
      <3>1. Bound' \in Int
        BY QueueAssumption DEF TokenInv, TypeOK, Faults, Bound
      <3>2. QED
        BY <3>1, BoundType, QueueAssumption
    <2>5. e.att + m + d <= Bound'
      <3>1. c \in 0 .. 1 /\ d \in 0 .. 1
        OBVIOUS
      <3>2. CASE Covered(e) => Covered(e)'
        <4>1. d <= c
          BY <3>2
        <4> HIDE DEF l, m, c, d
        <4>2. QED
          BY <2>1, <2>2, <2>3, <2>4, <3>1, <4>1
      <3>3. CASE Bound + 1 <= Bound'
        <4> HIDE DEF l, m, c, d
        <4>1. QED
          BY <2>1, <2>2, <2>3, <2>4, <3>1, <3>3
      <3>4. CASE Latecomers(e.id)' # Latecomers(e.id)
        <4>1. m + 1 <= l
          BY <1>1, <2>1, <3>4
        <4> HIDE DEF l, m, c, d
        <4>2. QED
          BY <2>1, <2>2, <2>3, <2>4, <3>1, <4>1
      <3>5. CASE ~ LastAttempt(e)
        <4>1. e.att + 1 < MaxAttempts
          BY <2>1, <2>4, <3>5 DEF LastAttempt
        <4> HIDE DEF l, m, c, d
        <4>2. QED
          BY <2>1, <2>2, <2>3, <2>4, <3>1, <4>1
      <3>6. QED
        BY <3>2, <3>3, <3>4, <3>5
    <2>6. QED
      BY <2>5 DEF Paid
  <1>3. QED
    BY <1>1, <1>2 DEF AttemptsInv

(* What an executor's step on one entry does to the others. *)
LEMMA OwnerOfEntry ==
  ASSUME TokenInv, NEW v \in Executors, NEW w \in Executors, Working(v), Working(w), v # w
  PROVE  held[v] # held[w]
  BY DEF TokenInv, TokenUnique

(* Nobody that holds an entry covers one of another job or attempt. *)
LEMMA CoveredBy ==
  ASSUME TokenInv, NEW w \in Executors, Working(w), NEW e \in Live
  PROVE  /\ held[w] \in Entry
         /\ held[w].id = e.id /\ held[w].att = e.att => held[w] = e
         /\ held[w] \in processing /\ held[w].id = e.id => held[w] = e
  <1>1. held[w] \in Entry
    BY DEF TokenInv, TypeOK, Working
  <1>2. e \in Entry
    BY LiveInKey
  <1>3. held[w] \in processing /\ held[w].id = e.id => held[w] = e
    BY LiveInKey DEF Live
  <1>4. QED
    BY <1>1, <1>2, <1>3 DEF Entry

(* The steps of the attempt itself, which touch neither list nor claim. *)
LEMMA AttemptsRun ==
  ASSUME TokenInv, TokenInv', AttemptsInv, NEW w \in Executors,
         pc[w] \in Claiming, pc'[w] \in Claiming,
         \A v \in Executors \ {w} : pc'[v] = pc[v],
         UNCHANGED <<queue, processing, claim, key, held, faults>>
  PROVE  AttemptsInv'
  <1>1. \A id \in JobId : Latecomers(id)' = Latecomers(id)
    BY DEF Latecomers, Claiming
  <1>2. Live' = Live
    BY DEF Live, Queued
  <1>3. ASSUME NEW e \in Live, Covered(e)
        PROVE  Covered(e)'
    <2>1. CASE claim[e.id] = NoClaim /\ (e \in Queued \/ InWindow(e))
      BY <2>1 DEF Covered, Queued, InWindow, Claiming
    <2>2. CASE \E v \in Executors : pc[v] \in Claiming /\ held[v] = e /\ Owns(v)
      BY <2>2 DEF Covered, Owns
    <2>3. QED
      BY <1>3, <2>1, <2>2 DEF Covered
  <1>4. Bound' = Bound /\ Bound \in Int
    BY BoundType DEF Bound
  <1>5. QED
    BY <1>1, <1>2, <1>3, <1>4, AttemptsStay

(* An executor drops its entry; what it covered is paid for. *)
LEMMA AttemptsRelease ==
  ASSUME TokenInv, TokenInv', AttemptsInv, NEW w \in Executors, Working(w), Release(w),
         UNCHANGED <<queue, processing, claim, key>>, Bound <= Bound',
         faults'["window"] = faults["window"],
         \/ pc[w] \in Claiming /\ Owns(w) => ~ LastAttempt(held[w])
         \/ Bound + 1 <= Bound',
         \/ pc[w] = "moved" => claim[held[w].id] # NoClaim
         \/ Bound + 1 <= Bound'
  PROVE  AttemptsInv'
  <1>1. /\ pc'[w] = "idle" /\ \A v \in Executors \ {w} : pc'[v] = pc[v] /\ held'[v] = held[v]
    BY DEF Release, TokenInv, TypeOK
  <1>2. \A id \in JobId : Latecomers(id)' \subseteq Latecomers(id)
    BY <1>1 DEF Latecomers
  <1>3. Live' = Live
    BY DEF Live, Queued
  <1>4. ASSUME NEW e \in Live, Covered(e), ~ (Covered(e)'), ~ (Bound + 1 <= Bound')
        PROVE  ~ LastAttempt(e)
    <2>1. CASE claim[e.id] = NoClaim /\ (e \in Queued \/ InWindow(e))
      <3>1. PICK v \in Executors : pc[v] = "moved" /\ held[v] = e /\ claim[e.id] = NoClaim
        BY <1>4, <2>1 DEF Covered, Queued, InWindow
      <3>2. v # w
        BY <1>4, <3>1
      <3>3. QED
        BY <1>1, <1>4, <3>1, <3>2 DEF Covered, InWindow
    <2>2. CASE \E v \in Executors : pc[v] \in Claiming /\ held[v] = e /\ Owns(v)
      <3>1. PICK v \in Executors : pc[v] \in Claiming /\ held[v] = e /\ Owns(v)
        BY <2>2
      <3>2. CASE v = w
        BY <1>4, <3>1, <3>2
      <3>3. CASE v # w
        BY <1>1, <1>4, <3>1, <3>3 DEF Covered, Owns
      <3>4. QED
        BY <3>2, <3>3
    <2>3. QED
      BY <1>4, <2>1, <2>2 DEF Covered
  <1>5. QED
    BY <1>2, <1>3, <1>4, AttemptsStay

(* The claim covers the entry that its executor moved, or it is a          *)
(* latecomer's, whose turn this was.                                       *)
LEMMA AttemptsSetClaim ==
  ASSUME TokenInv, TokenInv', AttemptsInv, NEW w \in Executors, SetClaim(w)
  PROVE  AttemptsInv'
  <1> DEFINE j == held[w].id
  <1>1. /\ pc[w] = "moved" /\ claim[j] = NoClaim /\ Working(w) /\ held[w] \in Entry
        /\ UNCHANGED <<queue, processing, key, held, faults>>
    BY DEF SetClaim, Working, TokenInv, TypeOK
  <1>2. /\ j \in JobId /\ claim' = [claim EXCEPT ![j] = held[w].att]
        /\ pc'[w] = "claimed" /\ \A v \in Executors \ {w} : pc'[v] = pc[v]
        /\ claim'[j] = held[w].att /\ \A id \in JobId \ {j} : claim'[id] = claim[id]
    BY <1>1 DEF SetClaim, Entry, TokenInv, TypeOK
  <1>3. key[j] # NoKey
    BY <1>1 DEF TokenInv, Known
  <1>4. \A id \in JobId : Latecomers(id)' = Latecomers(id) \ {w}
    BY <1>1, <1>2 DEF Latecomers
  <1>5. Live' = Live
    BY <1>1 DEF Live, Queued
  <1>6. ASSUME NEW e \in Live, Covered(e)
        PROVE  Covered(e)' \/ Latecomers(e.id)' # Latecomers(e.id)
    <2>0. e \in Entry
      BY LiveInKey
    <2>1. CASE e.id = j /\ held[w] \in processing
      <3>1. held[w] = e
        BY <1>1, <2>1, CoveredBy
      <3>2. QED
        BY <1>1, <1>2, <3>1 DEF Covered, Owns, Claiming
    <2>2. CASE e.id = j /\ held[w] \notin processing
      <3>1. w \in Latecomers(e.id)
        BY <1>1, <2>2 DEF Latecomers
      <3>2. QED
        BY <1>4, <2>0, <3>1 DEF Entry
    <2>3. CASE e.id # j
      <3>1. claim'[e.id] = claim[e.id]
        BY <1>2, <2>0, <2>3 DEF Entry
      <3>2. CASE claim[e.id] = NoClaim /\ (e \in Queued \/ InWindow(e))
        <4>1. InWindow(e) => InWindow(e)'
          BY <1>1, <1>2, <2>3 DEF InWindow
        <4>2. QED
          BY <1>1, <3>1, <3>2, <4>1 DEF Covered, Queued
      <3>3. CASE \E v \in Executors : pc[v] \in Claiming /\ held[v] = e /\ Owns(v)
        <4>1. PICK v \in Executors : pc[v] \in Claiming /\ held[v] = e /\ Owns(v)
          BY <3>3
        <4>2. pc'[v] = pc[v] /\ Owns(v)'
          BY <1>1, <1>2, <3>1, <4>1 DEF Owns, Claiming
        <4>3. QED
          BY <1>1, <4>1, <4>2 DEF Covered
      <3>4. QED
        BY <1>6, <3>2, <3>3 DEF Covered
    <2>4. QED
      BY <2>1, <2>2, <2>3
  <1>7. Bound' = Bound /\ Bound \in Int
    BY <1>1, BoundType DEF Bound
  <1>8. \A id \in JobId : key'[id] = NoKey => key[id] = NoKey /\ claim'[id] = claim[id]
    BY <1>1, <1>2, <1>3
  <1>9. QED
    BY <1>1, <1>4, <1>5, <1>6, <1>7, <1>8, AttemptsStay

(* completeScript ends the entry's coverage with the entry itself. *)
LEMMA AttemptsEnd ==
  ASSUME TokenInv, TokenInv', AttemptsInv, NEW w \in Executors,
         pc[w] \in Claiming, RemoveJob(held[w]), Release(w), UNCHANGED <<key, faults>>
  PROVE  AttemptsInv'
  <1> DEFINE j == held[w].id
  <1>0. Working(w) /\ held[w] \in Entry /\ pc[w] # "moved"
    BY DEF Claiming, Working, TokenInv, TypeOK
  <1>1. Bound' = Bound /\ Bound \in Int
    BY BoundType DEF Bound
  <1>2. CASE ~ Owns(w)
    <2>1. UNCHANGED <<queue, processing, claim, key>>
      BY <1>2 DEF RemoveJob, Owns, store
    <2>2. QED
      BY <1>0, <1>1, <1>2, <2>1, AttemptsRelease
  <1>3. CASE Owns(w)
    <2>1. /\ queue' = queue /\ processing' = processing \ {held[w]}
          /\ claim' = [claim EXCEPT ![j] = NoClaim]
      BY <1>3 DEF RemoveJob, Owns
    <2>2. /\ j \in JobId /\ claim'[j] = NoClaim
          /\ \A id \in JobId \ {j} : claim'[id] = claim[id]
          /\ claim[j] = held[w].att
      BY <1>0, <1>3, <2>1 DEF Entry, TokenInv, TypeOK, Owns
    <2>3. pc'[w] = "idle" /\ \A v \in Executors \ {w} : pc'[v] = pc[v] /\ held'[v] = held[v]
      BY DEF Release, TokenInv, TypeOK
    <2>4. \A v \in Executors \ {w} : Working(v) => held[v] # held[w]
      BY <1>0, OwnerOfEntry
    <2>5. \A id \in JobId : Latecomers(id)' \subseteq Latecomers(id)
      BY <2>1, <2>3, <2>4 DEF Latecomers, Working
    <2>6. ASSUME NEW e \in Live'
          PROVE  e \in Live /\ (Covered(e) => Covered(e)')
      <3>1. e \in Live
        BY <2>1 DEF Live, Queued
      <3>2. e \in Entry
        BY <3>1, LiveInKey
      <3>3. ASSUME claim[e.id] = NoClaim /\ (e \in Queued \/ InWindow(e))
            PROVE  Covered(e)'
        <4>1. claim'[e.id] = NoClaim
          BY <2>2, <3>2, <3>3 DEF Entry
        <4>2. InWindow(e) => InWindow(e)'
          BY <1>0, <2>3 DEF InWindow
        <4>3. QED
          BY <2>1, <3>3, <4>1, <4>2 DEF Covered, Queued
      <3>4. ASSUME NEW v \in Executors, pc[v] \in Claiming, held[v] = e, Owns(v)
            PROVE  Covered(e)'
        <4>1. held[w] \notin Live'
          <5>1. held[w] \notin processing'
            BY <2>1
          <5>2. held[w] \notin Queued
            BY <1>0 DEF TokenInv, HeldBehind, Entry
          <5>3. QED
            BY <2>1, <5>1, <5>2 DEF Live, Queued
        <4>2. e # held[w] /\ v # w
          BY <3>4, <4>1
        <4>3. e.id # j
          BY <1>0, <2>2, <3>2, <3>4, <4>2 DEF Owns, Entry
        <4>4. Owns(v)'
          BY <2>2, <2>3, <3>2, <3>4, <4>2, <4>3 DEF Owns, Entry
        <4>5. QED
          BY <2>3, <3>4, <4>2, <4>4 DEF Covered
      <3>5. QED
        BY <3>1, <3>3, <3>4 DEF Covered
    <2>7. key[j] # NoKey
      BY <1>0 DEF TokenInv, Known
    <2>8. QED
      BY <1>1, <2>2, <2>5, <2>6, <2>7, AttemptsStay
  <1>4. QED
    BY <1>2, <1>3

(* A claim that runs out is one nobody renews, or a fault. *)
LEMMA AttemptsExpire ==
  ASSUME TokenInv, TokenInv', AttemptsInv, NEW id \in JobId, Expire(id)
  PROVE  AttemptsInv'
  <1>1. /\ claim[id] # NoClaim /\ claim' = [claim EXCEPT ![id] = NoClaim]
        /\ claim'[id] = NoClaim /\ \A i \in JobId \ {id} : claim'[i] = claim[i]
        /\ UNCHANGED <<queue, processing, key, pc, held>>
    BY DEF Expire, TokenInv, TypeOK
  <1>2. /\ Live' = Live /\ \A i \in JobId : Latecomers(i)' = Latecomers(i)
    BY <1>1 DEF Live, Queued, Latecomers
  <1>3. key[id] # NoKey
    BY <1>1 DEF AttemptsInv
  <1>4. CASE Renewed(id)
    <2>1. faults' = [faults EXCEPT !["late"] = @ + 1]
      BY <1>4 DEF Expire, Charge
    <2>2. Bound' = Bound + 1 /\ Bound \in Int /\ faults'["window"] = faults["window"]
      BY <2>1, Charged DEF Faults
    <2>3. QED
      BY <1>1, <1>2, <1>3, <2>2, AttemptsStay
  <1>5. CASE ~ Renewed(id)
    <2>1. Bound' = Bound /\ Bound \in Int /\ faults' = faults
      BY <1>5, BoundType DEF Expire, Bound
    <2>2. ASSUME NEW e \in Live, Covered(e)
          PROVE  Covered(e)'
      <3>0. e.id \in JobId
        BY BoundType
      <3>1. CASE claim[e.id] = NoClaim /\ (e \in Queued \/ InWindow(e))
        BY <1>1, <3>0, <3>1 DEF Covered, Queued, InWindow
      <3>2. ASSUME NEW v \in Executors, pc[v] \in Claiming, held[v] = e, Owns(v)
            PROVE  Covered(e)'
        <4>1. e.id # id
          BY <1>5, <3>2 DEF Renewed
        <4>2. Owns(v)'
          BY <1>1, <3>0, <3>2, <4>1 DEF Owns
        <4>3. QED
          BY <1>1, <3>2, <4>2 DEF Covered
      <3>3. QED
        BY <2>2, <3>1, <3>2 DEF Covered
    <2>3. QED
      BY <1>1, <1>2, <1>3, <2>1, <2>2, AttemptsStay
  <1>6. QED
    BY <1>4, <1>5

-----------------------------------------------------------------------------
(* An entry goes from the queue to processing and is as well covered. *)
LEMMA AttemptsTake ==
  ASSUME TokenInv, TokenInv', AttemptsInv, NEW w \in Executors, NEW e \in Queued,
         NEW phase \in {"moved", "claimed"}, Take(w, e, phase),
         Queued' = Queued \ {e}, processing' = processing \cup {e},
         \A id \in JobId : id # e.id => claim'[id] = claim[id],
         IF phase = "moved" THEN claim' = claim ELSE claim'[e.id] = e.att,
         UNCHANGED <<key, faults>>
  PROVE  AttemptsInv'
  <1>1. /\ pc[w] = "idle" /\ pc'[w] = phase /\ held'[w] = e
        /\ \A v \in Executors \ {w} : pc'[v] = pc[v] /\ held'[v] = held[v]
    BY DEF Take, TokenInv, TypeOK
  <1>2. Live' = Live /\ e \in Live
    BY DEF Live
  <1>3. \A id \in JobId : Latecomers(id)' \subseteq Latecomers(id)
    BY <1>1 DEF Latecomers
  <1>4. Bound' = Bound /\ Bound \in Int
    BY BoundType DEF Bound
  <1>5. ASSUME NEW f \in Live, Covered(f)
        PROVE  Covered(f)'
    <2>0. f \in Entry /\ e \in Entry /\ (f.id = e.id => f = e)
      BY <1>2, LiveInKey
    <2>1. CASE f = e /\ phase = "claimed"
      BY <1>1, <2>1 DEF Covered, Owns, Claiming
    <2>2. CASE f = e /\ phase = "moved"
      <3>1. InWindow(e)'
        BY <1>1, <2>2 DEF InWindow
      <3>2. \A v \in Executors : Working(v) => held[v] # e
        BY <2>0 DEF TokenInv, HeldBehind, Entry
      <3>3. claim[e.id] = NoClaim
        BY <1>5, <2>2, <3>2 DEF Covered, Claiming, Working
      <3>4. QED
        BY <2>2, <3>1, <3>3 DEF Covered
    <2>3. CASE f # e
      <3>1. claim'[f.id] = claim[f.id]
        BY <2>0, <2>3 DEF Entry
      <3>2. InWindow(f) => InWindow(f)'
        BY <1>1 DEF InWindow
      <3>3. ASSUME NEW v \in Executors, pc[v] \in Claiming, held[v] = f, Owns(v)
            PROVE  Covered(f)'
        <4>1. v # w
          BY <1>1, <3>3 DEF Claiming
        <4>2. QED
          BY <1>1, <3>1, <3>3, <4>1 DEF Covered, Owns
      <3>4. QED
        BY <1>5, <2>3, <3>1, <3>2, <3>3 DEF Covered
    <2>4. QED
      BY <2>1, <2>2, <2>3
  <1>6. key[e.id] # NoKey
    BY <1>2 DEF TokenInv, Known
  <1>7. QED
    BY <1>2, <1>3, <1>4, <1>5, <1>6, AttemptsStay

LEMMA AttemptsDispatch ==
  ASSUME TokenInv, TokenInv', AttemptsInv, NEW w \in Executors, Dispatch(w)
  PROVE  AttemptsInv'
  <1> DEFINE e == Last(queue)
  <1>1. e \in Queued /\ Queued' = Queued \ {e}
    BY PopEntry DEF TokenInv, TypeOK, OneEntryPerJob, Dispatch, Queued
  <1>2. /\ Take(w, e, "moved") /\ processing' = processing \cup {e}
        /\ UNCHANGED <<claim, key, faults>>
    BY DEF Dispatch
  <1> HIDE DEF e
  <1>3. QED
    BY <1>1, <1>2, AttemptsTake

LEMMA AttemptsClaimByID ==
  ASSUME TokenInv, TokenInv', AttemptsInv, NEW w \in Executors, NEW id \in JobId,
         ClaimByID(w, id)
  PROVE  AttemptsInv'
  <1> DEFINE e == [id |-> id, att |-> 0]
  <1>1. PICK i \in DOMAIN queue : queue[i] = e /\ queue' = RemoveAt(queue, i)
    BY DEF ClaimByID
  <1>2. /\ Take(w, e, "claimed") /\ processing' = processing \cup {e}
        /\ claim' = [claim EXCEPT ![id] = 0] /\ UNCHANGED <<key, faults>>
        /\ e.id = id /\ e.att = 0
    BY DEF ClaimByID
  <1> HIDE DEF e
  <1>3. e \in Queued /\ Queued' = Queued \ {e}
    <2>1. queue \in Seq(Entry) /\ Distinct(queue)
      BY DEF TokenInv, TypeOK, OneEntryPerJob
    <2>2. QED
      BY <1>1, <2>1, RemoveEntry DEF Queued, ToSet
  <1>4. claim'[e.id] = e.att /\ \A j \in JobId : j # e.id => claim'[j] = claim[j]
    BY <1>2 DEF TokenInv, TypeOK
  <1>5. QED
    BY <1>2, <1>3, <1>4, AttemptsTake

(* A new job has had no attempt, and nobody comes late for it. *)
LEMMA AttemptsEnqueue ==
  ASSUME TokenInv, TokenInv', AttemptsInv, NEW id \in JobId, NEW k \in Keys, Enqueue(id, k)
  PROVE  AttemptsInv'
  <1> DEFINE e == [id |-> id, att |-> 0]
  <1>1. /\ key[id] = NoKey /\ queue' = Append(queue, e) /\ e.id = id /\ e.att = 0 /\ e \in Entry
        /\ UNCHANGED <<processing, claim, pc, held, faults>>
        /\ \A j \in JobId : key'[j] = NoKey => key[j] = NoKey
    BY QueueAssumption DEF Enqueue, Entry, TokenInv, TypeOK
  <1> HIDE DEF e
  <1>2. Queued' = Queued \cup {e}
    <2>1. queue \in Seq(Entry) /\ Distinct(queue)
      BY DEF TokenInv, TypeOK, OneEntryPerJob
    <2>2. \A f \in ToSet(queue) : f.id # e.id
      BY <1>1 DEF TokenInv, Known, Live, Queued
    <2>3. QED
      BY <1>1, <2>1, <2>2, PushEntry DEF Queued
  <1>3. \A j \in JobId : Latecomers(j)' = Latecomers(j)
    BY <1>1 DEF Latecomers
  <1>4. Bound' = Bound /\ Bound \in Int /\ Bound >= MaxAttempts - 1 /\ faults["window"] \in Nat
    BY <1>1, BoundType, QueueAssumption DEF Bound
  <1>5. \A j \in JobId : LatecomersPaid(j)' /\ (key'[j] = NoKey => claim'[j] = NoClaim)
    BY <1>1, <1>3 DEF AttemptsInv, LatecomersPaid
  <1>6. ASSUME NEW f \in Live
        PROVE  Paid(f)'
    <2>1. Covered(f) => Covered(f)'
      BY <1>1, <1>2 DEF Covered, InWindow, Owns
    <2>2. Latecomers(f.id)' = Latecomers(f.id)
      BY <1>3, BoundType
    <2>3. Paid(f) /\ f.att \in Nat /\ Cardinality(Latecomers(f.id)) \in Nat
      BY BoundType, FS_CardinalityType DEF AttemptsInv, LatecomersPaid
    <2>4. QED
      BY <1>4, <2>1, <2>2, <2>3 DEF Paid
  <1>7. Paid(e)'
    <2>1. Latecomers(id)' = {}
      BY <1>1 DEF Latecomers, TokenInv, Known, Working
    <2>2. Covered(e)'
      BY <1>1, <1>2 DEF Covered, AttemptsInv
    <2>3. Cardinality(Latecomers(e.id)') = 0
      BY <1>1, <2>1, FS_EmptySet
    <2>4. QED
      BY <1>1, <1>4, <2>2, <2>3, QueueAssumption DEF Paid
  <1>8. Live' = Live \cup {e}
    BY <1>1, <1>2 DEF Live
  <1>9. QED
    BY <1>5, <1>6, <1>7, <1>8 DEF AttemptsInv

(* The next attempt of an entry that nobody covers is already paid for;    *)
(* one that is reaped too early leaves a latecomer, and pays for both.     *)
LEMMA AttemptsReap ==
  ASSUME TokenInv, TokenInv', AttemptsInv, NEW r \in Reapers, ReapOne(r), Reapable(scan[r])
  PROVE  AttemptsInv'
  <1>a. PICK e \in Entry : e = scan[r]
    BY DEF Reapable, TokenInv, TypeOK
  <1>0. PICK n : e = scan[r] /\ n = NextAttempt(e)
    BY <1>a
  <1>1. /\ e \in processing /\ claim[e.id] = NoClaim /\ processing' = processing \ {e}
        /\ queue' = Append(queue, n) /\ UNCHANGED <<claim, key, pc, held>>
        /\ IF InWindow(e) THEN faults' = [faults EXCEPT !["window"] = @ + 1]
                          ELSE faults' = faults
    BY <1>0 DEF ReapOne, Reapable, Charge
  <1>2. /\ e \in Live /\ e.att \in Nat /\ e.id \in JobId
        /\ n \in Entry /\ n.id = e.id /\ n.att = e.att + 1
    BY <1>0, <1>1 DEF Live, NextAttempt, Entry
  <1>3. Queued' = Queued \cup {n}
    <2>1. queue \in Seq(Entry) /\ Distinct(queue)
      BY DEF TokenInv, TypeOK, OneEntryPerJob
    <2>2. \A f \in ToSet(queue) : f.id # n.id
      BY <1>1, <1>2 DEF TokenInv, OneEntryPerJob, Queued
    <2>3. QED
      BY <1>1, <1>2, <2>1, <2>2, PushEntry DEF Queued
  <1>4. Live' = (Live \ {e}) \cup {n}
    <2>1. e \notin Queued
      BY <1>1 DEF TokenInv, OneEntryPerJob
    <2>2. QED
      BY <1>1, <1>3, <2>1 DEF Live
  <1>5. \A j \in JobId \ {e.id} : Latecomers(j)' = Latecomers(j)
    BY <1>1 DEF Latecomers
  <1>6. /\ Bound \in Int /\ Bound' \in Int /\ Bound <= Bound'
        /\ faults["window"] \in Nat /\ faults'["window"] \in Nat
        /\ faults["window"] <= faults'["window"]
        /\ InWindow(e) => Bound' = Bound + 2 /\ faults'["window"] = faults["window"] + 1
        /\ ~ InWindow(e) => Bound' = Bound /\ faults' = faults
    <2>1. Bound \in Int /\ faults["window"] \in Nat
      BY BoundType
    <2>2. CASE InWindow(e)
      BY <1>1, <2>1, <2>2, Charged DEF Faults
    <2>3. CASE ~ InWindow(e)
      <3>1. faults' = faults
        BY <1>1, <2>3
      <3>2. Bound' = Bound
        BY <3>1 DEF Bound
      <3>3. QED
        BY <2>1, <2>3, <3>1, <3>2
    <2>4. QED
      BY <2>2, <2>3
  <1>7. /\ LatecomersPaid(e.id) /\ Cardinality(Latecomers(e.id)) \in Nat
        /\ LatecomersPaid(e.id)' /\ Cardinality(Latecomers(e.id)') \in Nat
        /\ Cardinality(Latecomers(e.id)') <=
             Cardinality(Latecomers(e.id)) + (IF InWindow(e) THEN 1 ELSE 0)
    <2> DEFINE L == Latecomers(e.id)
               M == Latecomers(e.id)'
    <2>1. IsFiniteSet(L) /\ Cardinality(L) <= faults["window"] /\ Cardinality(L) \in Nat
      BY <1>2, FS_CardinalityType DEF AttemptsInv, LatecomersPaid
    <2>2. CASE InWindow(e)
      <3>1. PICK w \in Executors : pc[w] = "moved" /\ held[w] = e
        BY <2>2 DEF InWindow
      <3>2. \A v \in Executors : pc[v] = "moved" /\ held[v] = e => v = w
        BY <3>1 DEF TokenInv, TokenUnique, Working
      <3>3. M \subseteq L \cup {w}
        BY <1>1, <3>2 DEF Latecomers
      <3> HIDE DEF L, M
      <3>4. IsFiniteSet(L \cup {w}) /\ Cardinality(L \cup {w}) <= Cardinality(L) + 1
            /\ Cardinality(L \cup {w}) \in Nat
        BY <2>1, FS_AddElement
      <3>5. M \in SUBSET (L \cup {w})
        BY <3>3
      <3>6. IsFiniteSet(M) /\ Cardinality(M) <= Cardinality(L \cup {w})
        BY <3>4, <3>5, FS_Subset
      <3>7. Cardinality(M) \in Nat /\ Cardinality(M) <= Cardinality(L) + 1
        BY <2>1, <3>4, <3>6, FS_CardinalityType
      <3>8. Cardinality(M) <= faults'["window"]
        BY <1>6, <2>1, <2>2, <3>7
      <3>9. QED
        BY <2>1, <2>2, <3>6, <3>7, <3>8 DEF L, M, LatecomersPaid
    <2>3. CASE ~ InWindow(e)
      <3>1. M = L
        BY <1>1, <2>3 DEF Latecomers, InWindow
      <3>2. QED
        BY <1>6, <2>1, <2>3, <3>1 DEF LatecomersPaid
    <2>4. QED
      BY <2>2, <2>3
  <1>8. ASSUME NEW j \in JobId
        PROVE  LatecomersPaid(j)' /\ (key'[j] = NoKey => claim'[j] = NoClaim)
    <2>1. CASE j = e.id
      BY <1>1, <1>7, <2>1 DEF AttemptsInv
    <2>2. CASE j # e.id
      <3>1. LatecomersPaid(j) /\ Latecomers(j)' = Latecomers(j)
        BY <1>5, <2>2 DEF AttemptsInv
      <3>2. Cardinality(Latecomers(j)) \in Nat
        BY <3>1, FS_CardinalityType DEF LatecomersPaid
      <3>3. QED
        BY <1>1, <1>6, <3>1, <3>2 DEF AttemptsInv, LatecomersPaid
    <2>3. QED
      BY <2>1, <2>2
  <1>9. ASSUME NEW f \in Live \ {e}
        PROVE  Paid(f)'
    <2>1. f.id # e.id /\ f.id \in JobId /\ f.att \in Nat
      BY <1>2, LiveInKey, BoundType
    <2>2. Latecomers(f.id)' = Latecomers(f.id) /\ Cardinality(Latecomers(f.id)) \in Nat
      BY <1>5, <2>1, FS_CardinalityType DEF AttemptsInv, LatecomersPaid
    <2>3. Covered(f) => Covered(f)'
      BY <1>1, <1>3 DEF Covered, InWindow, Owns
    <2>4. QED
      BY <1>6, <2>1, <2>2, <2>3 DEF AttemptsInv, Paid
  <1>10. Paid(n)'
    <2>1. Covered(n)'
      BY <1>1, <1>2, <1>3 DEF Covered
    <2>2. ~ InWindow(e) => ~ Covered(e)
      <3>1. e \notin Queued
        BY <1>1 DEF TokenInv, OneEntryPerJob
      <3>2. \A v \in Executors : held[v] = e => ~ Owns(v)
        BY <1>1, <1>2 DEF Owns, NoClaim
      <3>3. QED
        BY <3>1, <3>2 DEF Covered
    <2>3. e.att + Cardinality(Latecomers(e.id)) + (IF InWindow(e) THEN 0 ELSE 1) <= Bound
      BY <1>2, <1>6, <1>7, <2>2 DEF AttemptsInv, Paid
    <2>4. n.att + Cardinality(Latecomers(e.id)') <= Bound'
      BY <1>2, <1>6, <1>7, <2>3
    <2>5. /\ n.att + Cardinality(Latecomers(e.id)') \in Int
          /\ Latecomers(n.id)' = Latecomers(e.id)'
      BY <1>2, <1>7
    <2>6. QED
      BY <2>1, <2>4, <2>5 DEF Paid
  <1>11. QED
    BY <1>4, <1>8, <1>9, <1>10 DEF AttemptsInv

(* Steps that change nothing an entry's attempts depend on. *)
LEMMA AttemptsQuiet ==
  ASSUME TokenInv, TokenInv', AttemptsInv,
         UNCHANGED <<queue, processing, claim, key, pc, held, faults>>
  PROVE  AttemptsInv'
  BY DEF AttemptsInv, LatecomersPaid, Latecomers, Paid, Covered, InWindow, Owns, Live, Queued,
         Bound

LEMMA AttemptsNext == TokenInv /\ TokenInv' /\ AttemptsInv /\ [Next]_vars => AttemptsInv'
  <1> SUFFICES ASSUME TokenInv, TokenInv', AttemptsInv, [Next]_vars
               PROVE  AttemptsInv'
    OBVIOUS
  <1>0. Bound \in Int
    BY BoundType
  <1>1. CASE UNCHANGED vars \/ \E id \in JobId : ClaimByIDLost(id)
    BY <1>1, AttemptsQuiet DEF vars, ClaimByIDLost, store
  <1>2. CASE \E id \in JobId, k \in Keys : Enqueue(id, k)
    BY <1>2, AttemptsEnqueue
  <1>3. CASE \E w \in Executors : Dispatch(w)
    BY <1>3, AttemptsDispatch
  <1>4. CASE \E w \in Executors, id \in JobId : ClaimByID(w, id)
    BY <1>4, AttemptsClaimByID
  <1>5. CASE \E w \in Executors : SetClaim(w)
    BY <1>5, AttemptsSetClaim
  <1>6. ASSUME NEW w \in Executors, ClaimContested(w)
        PROVE  AttemptsInv'
    <2>1. Working(w) /\ pc[w] \notin Claiming /\ Bound' = Bound
      BY <1>6 DEF ClaimContested, Working, Claiming, Bound
    <2>2. QED
      BY <1>0, <1>6, <2>1, AttemptsRelease DEF ClaimContested, store
  <1>7. ASSUME NEW w \in Executors,
               \/ StartHandler(w) \/ HeartbeatLost(w)
               \/ \E result \in {"succeeded", "failed"} : HandlerReturns(w, result)
               \/ \E s \in Steps : SaveCheckpoint(w, s) \/ DeleteCheckpoint(w, s)
        PROVE  AttemptsInv'
    <2>1. UNCHANGED <<queue, processing, claim, key, held, faults>>
      BY <1>7 DEF StartHandler, HeartbeatLost, HandlerReturns, SaveCheckpoint,
                  DeleteCheckpoint, store
    <2>2. /\ pc[w] \in Claiming
          /\ pc' = pc \/ \E p \in Claiming : pc' = [pc EXCEPT ![w] = p]
      BY <1>7 DEF StartHandler, HeartbeatLost, HandlerReturns, SaveCheckpoint,
                  DeleteCheckpoint, Claiming
    <2>3. pc'[w] \in Claiming /\ \A v \in Executors \ {w} : pc'[v] = pc[v]
      BY <2>2 DEF TokenInv, TypeOK
    <2>4. QED
      BY <2>1, <2>2, <2>3, AttemptsRun
  <1>8. CASE \E w \in Executors : Complete(w) \/ Abandon(w)
    BY <1>8, AttemptsEnd DEF Complete, Abandon, Claiming
  <1>9. ASSUME NEW w \in Executors, BackOff(w)
        PROVE  AttemptsInv'
    <2>1. Working(w) /\ pc[w] = "failed" /\ ~ LastAttempt(held[w]) /\ Bound' = Bound
      BY <1>9 DEF BackOff, Working, Bound
    <2>2. QED
      BY <1>0, <1>9, <2>1, AttemptsRelease DEF BackOff, store
  <1>10. ASSUME NEW w \in Executors, Crash(w)
         PROVE  AttemptsInv'
    <2>1. /\ Working(w) /\ Release(w) /\ UNCHANGED <<queue, processing, claim, key>>
          /\ faults' = [faults EXCEPT !["crash"] = @ + 1]
      BY <1>10 DEF Crash, Charge, Working, store
    <2>2. Bound' = Bound + 1 /\ faults'["window"] = faults["window"]
      BY <2>1, Charged DEF Faults
    <2>3. QED
      BY <1>0, <2>1, <2>2, AttemptsRelease
  <1>11. CASE \E id \in JobId : Expire(id)
    BY <1>11, AttemptsExpire
  <1>12. CASE \E r \in Reapers, e \in processing : Scan(r, e)
    BY <1>12, AttemptsQuiet DEF Scan, store
  <1>13. ASSUME NEW r \in Reapers, ReapOne(r)
         PROVE  AttemptsInv'
    <2>1. CASE Reapable(scan[r])
      BY <1>13, <2>1, AttemptsReap
    <2>2. CASE ~ Reapable(scan[r])
      BY <1>13, <2>2, AttemptsQuiet DEF ReapOne
    <2>3. QED
      BY <2>1, <2>2
  <1>14. QED
    BY <1>1, <1>2, <1>3, <1>4, <1>5, <1>6, <1>7, <1>8, <1>9, <1>10, <1>11, <1>12, <1>13
    DEF Next, Execute

LEMMA AttemptsInit == Init => AttemptsInv
  <1> SUFFICES ASSUME Init
               PROVE  AttemptsInv
    OBVIOUS
  <1>1. \A id \in JobId : Latecomers(id) = {} /\ claim[id] = NoClaim
    BY DEF Init, Latecomers
  <1>2. faults["window"] = 0 /\ Live = {}
    BY DEF Init, Faults, Live, Queued, ToSet
  <1>3. QED
    BY <1>1, <1>2, FS_EmptySet DEF AttemptsInv, LatecomersPaid

(* However often a job is reaped and by whomever it is run, it takes no    *)
(* more attempts than MaxAttempts and the faults account for (worker.go,   *)
(* MaxAttempts, abandonJob and reapOnce).                                  *)
THEOREM AttemptsAreAccounted == Spec => []AttemptsAccounted
  <1>1. TokenInv /\ AttemptsInv => AttemptsAccounted
    <2> SUFFICES ASSUME TokenInv, AttemptsInv, NEW e \in Live
                 PROVE  e.att <= Bound
      BY DEF AttemptsAccounted, Bound
    <2>1. e.att \in Nat /\ e.id \in JobId /\ Bound \in Int
      BY BoundType
    <2>2. Cardinality(Latecomers(e.id)) \in Nat
      BY <2>1, FS_CardinalityType DEF AttemptsInv, LatecomersPaid
    <2>3. QED
      BY <2>1, <2>2 DEF AttemptsInv, Paid
  <1>2. QED
    BY <1>1, AttemptsInit, AttemptsNext, TokenInvariant, PTL DEF Spec
=============================================================================
