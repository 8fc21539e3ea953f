--------------------------- MODULE CallQueueProofs ---------------------------
(***************************************************************************)
(* Proofs about CallQueue for every number of calls and models.            *)
(***************************************************************************)
EXTENDS CallQueue, ListLemmas

-----------------------------------------------------------------------------
(* slices.Delete of one waiter keeps the order of the others. *)
LEMMA LeaveWaiters ==
  ASSUME NEW q \in Seq(Calls), Sorted(q), ticket \in [Calls -> Nat],
         NEW i \in DOMAIN q
  PROVE  /\ RemoveAt(q, i) \in Seq(Calls)
         /\ Sorted(RemoveAt(q, i))
         /\ ToSet(RemoveAt(q, i)) = ToSet(q) \ {q[i]}
  <1> DEFINE r == RemoveAt(q, i)
             n == Len(q)
  <1>1. /\ r \in Seq(Calls)
        /\ DOMAIN q = 1 .. n
        /\ DOMAIN r = 1 .. n-1
        /\ \A j \in 1 .. n-1 : r[j] = IF j < i THEN q[j] ELSE q[j+1]
        /\ ToSet(q) \ {q[i]} \subseteq ToSet(r)
        /\ ToSet(r) \subseteq ToSet(q)
    BY RemoveAtElements
  <1>2. n \in Nat /\ i \in 1 .. n /\ \A j \in 1 .. n : q[j] \in Calls
    BY <1>1
  <1>a. \A x, y \in 1 .. n : x < y => ticket[q[x]] < ticket[q[y]]
    BY <1>1 DEF Sorted
  <1> HIDE DEF r, n
  <1>3. Sorted(r)
    <2> SUFFICES ASSUME NEW j \in 1 .. n-1, NEW k \in 1 .. n-1, j < k
                 PROVE  ticket[r[j]] < ticket[r[k]]
      BY <1>1 DEF Sorted
    <2> DEFINE At(m) == IF m < i THEN m ELSE m+1
    <2>1. At(j) \in 1 .. n /\ At(k) \in 1 .. n /\ At(j) < At(k)
      BY <1>2
    <2>2. r[j] = q[At(j)] /\ r[k] = q[At(k)]
      BY <1>1
    <2> HIDE DEF At
    <2>3. QED
      BY <2>1, <2>2, <1>a, Zenon
  <1>4. \A j \in 1 .. n : j # i => q[j] # q[i]
    <2> SUFFICES ASSUME NEW j \in 1 .. n, j # i, q[j] = q[i]
                 PROVE  FALSE
      OBVIOUS
    <2>1. i < j \/ j < i
      BY <1>2
    <2>2. ticket[q[i]] < ticket[q[j]] \/ ticket[q[j]] < ticket[q[i]]
      BY <1>a, <1>2, <2>1, Zenon
    <2>3. ticket[q[i]] \in Nat
      BY <1>2
    <2>4. QED
      BY <2>2, <2>3
  <1>5. q[i] \notin ToSet(r)
    <2>1. ASSUME NEW j \in 1 .. n-1
          PROVE  r[j] # q[i]
      <3>1. CASE j < i
        BY <1>1, <1>2, <1>4, <3>1
      <3>2. CASE j >= i
        BY <1>1, <1>2, <1>4, <3>2
      <3>3. QED
        BY <1>2, <3>1, <3>2
    <2>2. QED
      BY <1>1, <2>1 DEF ToSet
  <1>6. QED
    BY <1>1, <1>3, <1>5 DEF r

-----------------------------------------------------------------------------
(* A call that is not in a lane is not in a list, and no two keys share a  *)
(* lane.                                                                   *)
LEMMA ListedIsQueued ==
  ASSUME QueueInv, NEW l \in Calls, NEW c \in ToSet(waiters[l])
  PROVE  c \in Calls /\ Queued(c) /\ lane[c] = l /\ lanes[key[c]] = l
  <1>1. waiters[l] \in Seq(Calls)
    BY DEF QueueInv, TypeOK
  <1>2. c \in Calls
    BY <1>1 DEF ToSet
  <1>3. QED
    BY <1>2 DEF QueueInv, WaitersQueued, LanesOwned

LEMMA OneKeyPerLane ==
  ASSUME QueueInv, NEW j \in Keys, NEW k \in Keys,
         lanes[j] # NoLane, lanes[j] = lanes[k]
  PROVE  j = k
  BY DEF QueueInv, MadeByCall

(* The lists stay as they are while the calls in them stay queued. *)
LEMMA SameWaiters ==
  ASSUME QueueInv, waiters' = waiters,
         \A l \in Calls : \A c \in ToSet(waiters[l]) :
           Queued(c)' /\ lane'[c] = lane[c] /\ ticket'[c] = ticket[c]
  PROVE  WaitersQueued'
  <1> SUFFICES ASSUME NEW l \in Calls
               PROVE  /\ Sorted(waiters[l])'
                      /\ \A c \in ToSet(waiters[l])' : Queued(c)' /\ lane'[c] = l
    BY DEF WaitersQueued
  <1>1. Sorted(waiters[l])
    BY DEF QueueInv, WaitersQueued
  <1>2. \A i \in DOMAIN waiters[l] : waiters[l][i] \in ToSet(waiters[l])
    BY DEF ToSet
  <1>3. Sorted(waiters[l])'
    BY <1>1, <1>2 DEF Sorted
  <1>4. QED
    BY <1>3, ListedIsQueued

-----------------------------------------------------------------------------
LEMMA QueueInit == Init => QueueInv
  <1> SUFFICES ASSUME Init
               PROVE  QueueInv
    OBVIOUS
  <1>1. TypeOK
    BY DEF Init, TypeOK, Phase, Owner, Queued
  <1>2. ToSet(<<>>) = {} /\ Sorted(<<>>)
    BY DEF ToSet, Sorted
  <1>3. WaitersQueued
    BY <1>2 DEF Init, WaitersQueued
  <1>4. QED
    BY <1>1, <1>3 DEF Init, QueueInv, OneCallPerKey, LanesOwned, Owner, Queued,
                      MadeByCall, Ticketed

(* Do and ContextDone: nothing that a lane depends on changes. *)
LEMMA OutsideStep ==
  ASSUME QueueInv, NEW c \in Calls, Do(c) \/ ContextDone(c)
  PROVE  QueueInv'
  <1>1. TypeOK'
    BY DEF Do, ContextDone, QueueInv, TypeOK, Phase, Owner, Queued, history
  <1>2. \A d \in Calls : (Owner(d)' <=> Owner(d)) /\ (Queued(d)' <=> Queued(d))
    BY DEF Do, ContextDone, QueueInv, TypeOK, Ticketed, Owner, Queued
  <1>3. /\ UNCHANGED <<lanes, waiters, key, lane, started, ticket, clock>>
        /\ \A d \in Calls : pc'[d] \in {"idle", "entering"} =>
                              pc[d] \in {"idle", "entering"}
    BY DEF Do, ContextDone, QueueInv, TypeOK, history
  <1>4. OneCallPerKey' /\ LanesOwned'
    BY <1>2, <1>3 DEF QueueInv, OneCallPerKey, LanesOwned, ToSet
  <1>5. WaitersQueued'
    BY <1>2, <1>3, SameWaiters, ListedIsQueued
  <1>6. MadeByCall' /\ Ticketed'
    BY <1>3 DEF QueueInv, TypeOK, MadeByCall, Ticketed
  <1>7. QED
    BY <1>1, <1>4, <1>5, <1>6 DEF QueueInv

(* A new lane: no call of that key owned or waited for another. *)
(* Whatever becomes of the contexts; each of them may be that of more than *)
(* one call.                                                               *)
LEMMA ContextsChange ==
  ASSUME QueueInv, canceled' \subseteq Calls,
         UNCHANGED <<lanes, waiters, pc, key, background, lane, started, ticket, clock>>
  PROVE  QueueInv'
  <1>1. TypeOK'
    BY DEF QueueInv, TypeOK, Owner, Queued
  <1>2. \A d \in Calls : (Owner(d)' <=> Owner(d)) /\ (Queued(d)' <=> Queued(d))
    BY DEF Owner, Queued
  <1>3. /\ UNCHANGED <<lanes, waiters, key, lane, started, ticket, clock>>
        /\ \A l \in Calls : \A d \in ToSet(waiters[l]) : Queued(d)'
    BY <1>2, ListedIsQueued
  <1>4. WaitersQueued'
    BY <1>3, SameWaiters, ListedIsQueued
  <1>5. QED
    BY <1>1, <1>2, <1>3, <1>4 DEF QueueInv, Ticketed, MadeByCall, LanesOwned, OneCallPerKey, Owner, Queued

LEMMA AcquireNewStep ==
  ASSUME QueueInv, NEW c \in Calls, AcquireNew(c)
  PROVE  QueueInv'
  <1>0. /\ pc[c] = "entering" /\ lanes[key[c]] = NoLane /\ key[c] \in Keys
        /\ lanes' = [lanes EXCEPT ![key[c]] = c]
        /\ lane' = [lane EXCEPT ![c] = c]
        /\ pc' = [pc EXCEPT ![c] = "running"]
        /\ clock' = clock + 1
        /\ ticket' = [ticket EXCEPT ![c] = clock + 1]
        /\ UNCHANGED <<waiters, key, background, started, canceled>>
        /\ TypeOK
    BY DEF AcquireNew, Join, QueueInv, TypeOK
  <1>1. /\ Owner(c)' /\ ~ Queued(c)' /\ ~ Owner(c) /\ ~ Queued(c)
        /\ \A d \in Calls : d # c => /\ Owner(d)' <=> Owner(d)
                                     /\ Queued(d)' <=> Queued(d)
                                     /\ lane'[d] = lane[d]
                                     /\ ticket'[d] = ticket[d]
    BY <1>0 DEF TypeOK, Owner, Queued
  <1>2. \A d \in Calls : Owner(d) \/ Queued(d) => key[d] # key[c]
    BY <1>0, LaneAssumption DEF TypeOK, QueueInv, LanesOwned
  <1>3. TypeOK'
    BY <1>0, <1>1 DEF TypeOK, Phase
  <1>4. OneCallPerKey'
    BY <1>0, <1>1, <1>2 DEF QueueInv, OneCallPerKey
  <1>5. LanesOwned'
    BY <1>0, <1>1, <1>2 DEF QueueInv, LanesOwned, TypeOK
  <1>6. WaitersQueued'
    BY <1>0, <1>1, SameWaiters, ListedIsQueued
  <1>7. MadeByCall'
    BY <1>0 DEF QueueInv, MadeByCall, TypeOK
  <1>8. Ticketed'
    BY <1>0 DEF QueueInv, Ticketed, TypeOK
  <1>9. QED
    BY <1>3, <1>4, <1>5, <1>6, <1>7, <1>8 DEF QueueInv

(* A new waiter is the newest of its lane. *)
LEMMA AcquireWaitStep ==
  ASSUME QueueInv, NEW c \in Calls, AcquireWait(c)
  PROVE  QueueInv'
  <1> DEFINE l == lanes[key[c]]
             q == waiters[l]
  <1>0. /\ pc[c] = "entering" /\ key[c] \in Keys /\ l \in Calls
        /\ waiters' = [waiters EXCEPT ![l] = Append(q, c)]
        /\ lane' = [lane EXCEPT ![c] = l]
        /\ pc' = [pc EXCEPT ![c] = "waiting"]
        /\ clock' = clock + 1
        /\ ticket' = [ticket EXCEPT ![c] = clock + 1]
        /\ UNCHANGED <<lanes, key, background, started, canceled>>
        /\ TypeOK
    BY DEF AcquireWait, Join, QueueInv, TypeOK
  <1> HIDE DEF l
  <1>1. /\ ~ Owner(c)' /\ Queued(c)' /\ ~ Owner(c) /\ ~ Queued(c)
        /\ \A d \in Calls : d # c => /\ Owner(d)' <=> Owner(d)
                                     /\ Queued(d)' <=> Queued(d)
                                     /\ lane'[d] = lane[d]
                                     /\ ticket'[d] = ticket[d]
    BY <1>0 DEF TypeOK, Owner, Queued, QueueInv, Ticketed
  <1>2. /\ q \in Seq(Calls)
        /\ q \in Seq(Calls) => /\ Append(q, c) \in Seq(Calls)
                               /\ DOMAIN q = 1 .. Len(q)
                               /\ DOMAIN Append(q, c) = 1 .. Len(q) + 1
                               /\ \A j \in 1 .. Len(q) : Append(q, c)[j] = q[j]
                               /\ Append(q, c)[Len(q) + 1] = c
                               /\ ToSet(Append(q, c)) = ToSet(q) \cup {c}
    BY <1>0, AppendElements DEF TypeOK
  <1>3. \A m \in Calls : \A d \in ToSet(waiters[m]) :
          d \in Calls /\ d # c /\ Queued(d) /\ lane[d] = m
    BY <1>1, ListedIsQueued
  <1>4. TypeOK'
    BY <1>0, <1>1, <1>2 DEF TypeOK, Phase
  <1>5. OneCallPerKey'
    BY <1>0, <1>1 DEF QueueInv, OneCallPerKey
  <1>6. LanesOwned'
    <2>1. \A k \in Keys : lanes'[k] # NoLane => \E d \in Calls : Owner(d)' /\ key'[d] = k
      BY <1>0, <1>1 DEF QueueInv, LanesOwned
    <2>2. \A d \in Calls : Owner(d)' \/ Queued(d)' => lanes'[key'[d]] = lane'[d]
      BY <1>0, <1>1 DEF QueueInv, LanesOwned, TypeOK, l
    <2>3. ASSUME NEW d \in Calls, Queued(d)'
          PROVE  d \in ToSet(waiters'[lane'[d]])
      <3>1. CASE d = c
        BY <1>0, <1>2, <3>1 DEF TypeOK
      <3>2. CASE d # c
        <4>1. d \in ToSet(waiters[lane[d]]) /\ lane[d] \in Calls /\ lane'[d] = lane[d]
          BY <1>1, <2>3, <3>2 DEF QueueInv, LanesOwned, TypeOK
        <4>2. CASE lane[d] = l
          BY <1>0, <1>2, <4>1, <4>2 DEF TypeOK
        <4>3. CASE lane[d] # l
          BY <1>0, <4>1, <4>3 DEF TypeOK
        <4>4. QED
          BY <4>2, <4>3
      <3>3. QED
        BY <3>1, <3>2
    <2>4. QED
      BY <2>1, <2>2, <2>3 DEF LanesOwned
  <1>7. WaitersQueued'
    <2> SUFFICES ASSUME NEW m \in Calls
                 PROVE  /\ Sorted(waiters[m])'
                        /\ \A d \in ToSet(waiters[m])' : Queued(d)' /\ lane'[d] = m
      BY DEF WaitersQueued
    <2>0. Sorted(waiters[m]) /\ \A i \in DOMAIN waiters[m] : waiters[m][i] \in ToSet(waiters[m])
      BY DEF QueueInv, WaitersQueued, ToSet
    <2>1. CASE m # l
      <3>1. waiters'[m] = waiters[m]
        BY <1>0, <2>1 DEF TypeOK
      <3>2. Sorted(waiters[m])'
        BY <1>1, <1>3, <2>0, <3>1 DEF Sorted
      <3>3. QED
        BY <1>1, <1>3, <3>1, <3>2
    <2>2. CASE m = l
      <3>1. waiters'[m] = Append(q, c)
        BY <1>0, <2>2 DEF TypeOK
      <3>2. \A d \in ToSet(q) : Queued(d)' /\ lane'[d] = m
        BY <1>1, <1>3, <2>2
      <3>3. \A d \in ToSet(q) : ticket'[d] = ticket[d] /\ ticket[d] <= clock
                                /\ ticket[d] \in Nat /\ clock \in Nat
        BY <1>0, <1>1, <1>3, <2>2 DEF QueueInv, Ticketed, TypeOK
      <3>4. ticket'[c] = clock + 1
        BY <1>0 DEF TypeOK
      <3>5. ASSUME NEW i \in 1 .. Len(q) + 1, NEW j \in 1 .. Len(q) + 1, i < j
            PROVE  ticket'[Append(q, c)[i]] < ticket'[Append(q, c)[j]]
        <4>1. i \in 1 .. Len(q) /\ Append(q, c)[i] = q[i] /\ q[i] \in ToSet(q)
          BY <1>2, <2>0, <2>2, <3>5
        <4>2. CASE j = Len(q) + 1
          BY <1>2, <3>3, <3>4, <4>1, <4>2
        <4>3. CASE j \in 1 .. Len(q)
          <5>1. Append(q, c)[j] = q[j] /\ q[j] \in ToSet(q)
            BY <1>2, <2>0, <2>2, <4>3
          <5>2. ticket[q[i]] < ticket[q[j]]
            BY <1>2, <2>0, <2>2, <3>5, <4>1, <4>3 DEF Sorted
          <5>3. QED
            BY <3>3, <4>1, <5>1, <5>2
        <4>4. QED
          BY <1>2, <4>2, <4>3
      <3>6. Sorted(waiters[m])'
        BY <1>2, <3>1, <3>5 DEF Sorted
      <3>7. QED
        BY <1>0, <1>1, <1>2, <2>2, <3>1, <3>2, <3>6 DEF TypeOK
    <2>3. QED
      BY <2>1, <2>2
  <1>8. MadeByCall'
    BY <1>0 DEF QueueInv, MadeByCall, TypeOK
  <1>9. Ticketed'
    BY <1>0 DEF QueueInv, Ticketed, TypeOK
  <1>10. QED
    BY <1>4, <1>5, <1>6, <1>7, <1>8, <1>9 DEF QueueInv

(* A waiter whose select fires, while it owns the slot. *)
LEMMA HandedOverStep ==
  ASSUME QueueInv, NEW c \in Calls, pc[c] = "waiting", c \in started,
         pc' = [pc EXCEPT ![c] = "running"],
         UNCHANGED <<lanes, waiters, key, background, lane, started, canceled, history>>
  PROVE  QueueInv'
  <1>1. \A d \in Calls : (Owner(d)' <=> Owner(d)) /\ (Queued(d)' <=> Queued(d))
    BY DEF QueueInv, TypeOK, Owner, Queued
  <1>2. TypeOK'
    BY <1>1 DEF QueueInv, TypeOK, Phase, history
  <1>3. OneCallPerKey' /\ LanesOwned'
    BY <1>1 DEF QueueInv, OneCallPerKey, LanesOwned, ToSet
  <1>4. WaitersQueued'
    BY <1>1, SameWaiters, ListedIsQueued DEF history
  <1>5. MadeByCall' /\ Ticketed'
    BY DEF QueueInv, TypeOK, MadeByCall, Ticketed, history
  <1>6. QED
    BY <1>2, <1>3, <1>4, <1>5 DEF QueueInv

(* One call w leaves the list of lane l, because it is canceled or because *)
(* the slot is handed to it; nobody else changes lanes.                    *)
LEMMA LeavingStep ==
  ASSUME QueueInv, NEW l \in Calls, NEW i \in DOMAIN waiters[l],
         NEW w \in Calls, w = waiters[l][i],
         waiters' = [waiters EXCEPT ![l] = RemoveAt(waiters[l], i)],
         UNCHANGED <<key, lane, ticket>>,
         \A d \in Calls : Queued(d)' <=> (Queued(d) /\ d # w)
  PROVE  /\ waiters' \in [Calls -> Seq(Calls)]
         /\ WaitersQueued'
         /\ \A d \in Calls : Queued(d)' => d \in ToSet(waiters'[lane'[d]])
  <1> DEFINE q == waiters[l]
             r == RemoveAt(q, i)
  <1>1. q \in Seq(Calls) /\ ticket \in [Calls -> Nat] /\ Sorted(q)
    BY DEF QueueInv, TypeOK, WaitersQueued
  <1>2. /\ r \in Seq(Calls)
        /\ Sorted(r)
        /\ ToSet(r) = ToSet(q) \ {w}
    BY <1>1, LeaveWaiters
  <1>3. w \in ToSet(q)
    BY DEF ToSet
  <1>4. w \in Calls /\ Queued(w) /\ lane[w] = l
    BY <1>3, ListedIsQueued
  <1> HIDE DEF r
  <1>5. /\ waiters'[l] = r
        /\ \A m \in Calls : m # l => waiters'[m] = waiters[m]
    BY DEF QueueInv, TypeOK, r
  <1>6. waiters' \in [Calls -> Seq(Calls)]
    BY <1>2 DEF QueueInv, TypeOK, r
  <1>7. WaitersQueued'
    <2> SUFFICES ASSUME NEW m \in Calls
                 PROVE  /\ Sorted(waiters[m])'
                        /\ \A d \in ToSet(waiters[m])' : Queued(d)' /\ lane'[d] = m
      BY DEF WaitersQueued
    <2>1. CASE m = l
      <3>1. Sorted(waiters[m])'
        BY <1>2, <1>5, <2>1 DEF Sorted
      <3>2. \A d \in ToSet(r) : d \in Calls /\ d # w /\ Queued(d) /\ lane[d] = l
        BY <1>2, ListedIsQueued
      <3>3. QED
        BY <1>5, <2>1, <3>1, <3>2
    <2>2. CASE m # l
      <3>1. Sorted(waiters[m])'
        BY <1>5, <2>2 DEF Sorted, QueueInv, WaitersQueued
      <3>2. \A d \in ToSet(waiters[m]) : d \in Calls /\ d # w /\ Queued(d) /\ lane[d] = m
        BY <1>4, <2>2, ListedIsQueued
      <3>3. QED
        BY <1>5, <2>2, <3>1, <3>2
    <2>3. QED
      BY <2>1, <2>2
  <1>8. ASSUME NEW d \in Calls, Queued(d)'
        PROVE  d \in ToSet(waiters'[lane'[d]])
    <2>1. Queued(d) /\ d # w /\ lane'[d] = lane[d] /\ lane[d] \in Calls
      BY <1>8 DEF QueueInv, TypeOK
    <2>2. d \in ToSet(waiters[lane[d]])
      BY <2>1 DEF QueueInv, LanesOwned
    <2>3. CASE lane[d] = l
      BY <1>2, <1>5, <2>1, <2>2, <2>3
    <2>4. CASE lane[d] # l
      BY <1>5, <2>1, <2>2, <2>4
    <2>5. QED
      BY <2>3, <2>4
  <1>9. QED
    BY <1>6, <1>7, <1>8

LEMMA CancelStep ==
  ASSUME QueueInv, NEW c \in Calls, Cancel(c)
  PROVE  QueueInv'
  <1>1. CASE c \in started
    BY <1>1, HandedOverStep DEF Cancel
  <1>2. CASE c \notin started
    <2>1. /\ pc[c] = "waiting" /\ Queued(c) /\ ~ Owner(c)
          /\ pc' = [pc EXCEPT ![c] = "done"]
          /\ UNCHANGED <<lanes, key, background, lane, started, canceled, ticket, clock>>
          /\ lane[c] \in Calls
          /\ TypeOK
      BY <1>2 DEF Cancel, history, Queued, Owner, QueueInv, TypeOK
    <2>2. PICK i \in DOMAIN waiters[lane[c]] :
            /\ waiters[lane[c]][i] = c
            /\ waiters' = [waiters EXCEPT ![lane[c]] = RemoveAt(waiters[lane[c]], i)]
      BY <1>2 DEF Cancel
    <2>3. \A d \in Calls : /\ Owner(d)' <=> Owner(d)
                           /\ Queued(d)' <=> (Queued(d) /\ d # c)
      BY <2>1 DEF TypeOK, Owner, Queued
    <2>4. /\ waiters' \in [Calls -> Seq(Calls)]
          /\ WaitersQueued'
          /\ \A d \in Calls : Queued(d)' => d \in ToSet(waiters'[lane'[d]])
      BY <2>1, <2>2, <2>3, LeavingStep
    <2>5. TypeOK'
      BY <2>1, <2>3, <2>4 DEF TypeOK, Phase
    <2>6. OneCallPerKey'
      BY <2>1, <2>3 DEF QueueInv, OneCallPerKey
    <2>7. LanesOwned'
      BY <2>1, <2>3, <2>4 DEF QueueInv, LanesOwned
    <2>8. MadeByCall' /\ Ticketed'
      BY <2>1 DEF QueueInv, TypeOK, MadeByCall, Ticketed
    <2>9. QED
      BY <2>4, <2>5, <2>6, <2>7, <2>8 DEF QueueInv
  <1>3. QED
    BY <1>1, <1>2

(* release hands the lane over as a whole, or deletes it with nobody in it.*)
LEMMA ReleaseStep ==
  ASSUME QueueInv, NEW c \in Calls, Release(c)
  PROVE  QueueInv'
  <1> DEFINE l == lane[c]
             q == waiters[l]
  <1>1. /\ pc[c] = "running" /\ Owner(c) /\ l \in Calls /\ key[c] \in Keys
        /\ lanes[key[c]] = l /\ l # NoLane
        /\ pc' = [pc EXCEPT ![c] = "done"]
        /\ UNCHANGED <<key, background, lane, canceled, ticket, clock>>
        /\ TypeOK
    BY LaneAssumption DEF Release, history, Owner, QueueInv, TypeOK, LanesOwned
  <1>2. \A d \in Calls : Owner(d) /\ key[d] = key[c] => d = c
    BY <1>1 DEF QueueInv, OneCallPerKey
  <1>3. \A d \in Calls : (Owner(d) \/ Queued(d)) /\ lane[d] = l => key[d] = key[c]
    BY <1>1, OneKeyPerLane DEF QueueInv, LanesOwned, TypeOK
  <1>4. CASE /\ q = <<>>
             /\ lanes' = [lanes EXCEPT ![key[c]] = NoLane]
             /\ UNCHANGED <<waiters, started>>
    <2>1. \A d \in Calls : /\ Owner(d)' <=> (Owner(d) /\ d # c)
                           /\ Queued(d)' <=> Queued(d)
      BY <1>1, <1>4 DEF TypeOK, Owner, Queued
    <2>2. \A d \in Calls : Owner(d)' \/ Queued(d)' => key[d] # key[c]
      <3>1. ToSet(q) = {}
        BY <1>4 DEF ToSet
      <3>2. \A d \in Calls : Queued(d) => lane[d] # l
        BY <3>1 DEF QueueInv, LanesOwned
      <3>3. \A d \in Calls : Queued(d) => key[d] # key[c]
        BY <1>1, <3>2 DEF QueueInv, LanesOwned
      <3>4. QED
        BY <1>2, <2>1, <3>3
    <2>3. TypeOK'
      BY <1>1, <1>4, <2>1 DEF TypeOK, Phase
    <2>4. OneCallPerKey'
      BY <1>1, <2>1 DEF QueueInv, OneCallPerKey
    <2>5. LanesOwned'
      BY <1>1, <1>2, <1>4, <2>1, <2>2 DEF QueueInv, LanesOwned, TypeOK
    <2>6. WaitersQueued'
      BY <1>1, <1>4, <2>1, SameWaiters, ListedIsQueued
    <2>7. MadeByCall' /\ Ticketed'
      BY <1>1, <1>4 DEF QueueInv, TypeOK, MadeByCall, Ticketed
    <2>8. QED
      BY <2>3, <2>4, <2>5, <2>6, <2>7 DEF QueueInv
  <1>5. ASSUME NEW i \in DOMAIN q,
               waiters' = [waiters EXCEPT ![l] = RemoveAt(q, i)],
               started' = started \cup {q[i]}, lanes' = lanes
        PROVE  QueueInv'
    <2> DEFINE w == q[i]
    <2>1. w \in ToSet(q)
      BY DEF ToSet
    <2>2. w \in Calls /\ Queued(w) /\ lane[w] = l
      BY <1>1, <2>1, ListedIsQueued
    <2>3. pc[w] = "waiting" /\ w \notin started /\ w # c /\ key[w] = key[c]
      BY <1>1, <1>3, <2>2 DEF Queued
    <2> HIDE DEF w
    <2>4. started' = started \cup {w}
      BY <1>5 DEF w
    <2>5. \A d \in Calls : /\ Owner(d)' <=> ((Owner(d) /\ d # c) \/ d = w)
                           /\ Queued(d)' <=> (Queued(d) /\ d # w)
      BY <1>1, <2>2, <2>3, <2>4 DEF TypeOK, Owner, Queued
    <2>6. /\ waiters' \in [Calls -> Seq(Calls)]
          /\ WaitersQueued'
          /\ \A d \in Calls : Queued(d)' => d \in ToSet(waiters'[lane'[d]])
      BY <1>1, <1>5, <2>2, <2>5, LeavingStep DEF w
    <2>7. TypeOK'
      BY <1>1, <1>5, <2>2, <2>4, <2>5, <2>6 DEF TypeOK, Phase
    <2>8. OneCallPerKey'
      BY <1>1, <1>2, <2>3, <2>5 DEF QueueInv, OneCallPerKey
    <2>9. LanesOwned'
      BY <1>1, <1>2, <1>5, <2>2, <2>3, <2>5, <2>6 DEF QueueInv, LanesOwned
    <2>10. MadeByCall' /\ Ticketed'
      BY <1>1, <1>5, <2>2, <2>3, <2>4 DEF QueueInv, TypeOK, MadeByCall, Ticketed
    <2>11. QED
      BY <2>6, <2>7, <2>8, <2>9, <2>10 DEF QueueInv
  <1>6. QED
    BY <1>4, <1>5 DEF Release

LEMMA QueueNext == QueueInv /\ [Next]_vars => QueueInv'
  <1> SUFFICES ASSUME QueueInv, [Next]_vars
               PROVE  QueueInv'
    OBVIOUS
  <1>1. ASSUME NEW c \in Calls, TakeTurn(c)
        PROVE  QueueInv'
    BY <1>1, HandedOverStep DEF TakeTurn
  <1>2. CASE UNCHANGED vars
    BY <1>2 DEF vars, QueueInv, TypeOK, OneCallPerKey, LanesOwned, WaitersQueued,
                Sorted, MadeByCall, Ticketed, Owner, Queued, ToSet
  <1>3. QED
    BY <1>1, <1>2, OutsideStep, AcquireNewStep, AcquireWaitStep, CancelStep,
       ReleaseStep DEF Next, Step

LEMMA QueueInvariant == Spec => []QueueInv
  BY QueueInit, QueueNext, PTL DEF Spec

(* A model serves one call at a time, for every number of calls. *)
THEOREM OneCallAtATime == Spec => []OneCallPerKey
  BY QueueInvariant, PTL DEF QueueInv

(* No lane is stranded, deleted under its owner, or without its waiters. *)
THEOREM NoStrandedLane == Spec => []LanesOwned
  BY QueueInvariant, PTL DEF QueueInv

(* Every variable keeps to its type. *)
THEOREM QueueTypes == Spec => []TypeOK
  BY QueueInvariant, PTL DEF QueueInv

(* Whoever is handed the slot precedes every other waiter of its lane. *)
LEMMA ReleaseInTurn ==
  ASSUME QueueInv, NEW x \in Calls, Release(x),
         NEW c \in started' \ started, NEW d \in Calls,
         Queued(d), key[d] = key[c], d # c
  PROVE  IF d \in background THEN c \in background => ticket[c] < ticket[d]
                             ELSE c \notin background /\ ticket[c] < ticket[d]
  <1> DEFINE l == lane[x]
             q == waiters[l]
  <1>1. l \in Calls /\ q \in Seq(Calls)
    BY DEF Release, Owner, QueueInv, TypeOK
  <1>2. PICK i \in DOMAIN q : IsNext(q, i) /\ started' = started \cup {q[i]}
    BY DEF Release
  <1>3. c = q[i]
    BY <1>2
  <1>4. c \in ToSet(q)
    BY <1>2, <1>3 DEF ToSet
  <1>5. Queued(c) /\ lane[c] = l /\ lanes[key[c]] = l
    BY <1>1, <1>4, ListedIsQueued
  <1>6. d \in ToSet(q)
    BY <1>5 DEF QueueInv, LanesOwned
  <1>7. PICK j \in DOMAIN q : d = q[j]
    BY <1>6 DEF ToSet
  <1>8. i \in 1 .. Len(q) /\ j \in 1 .. Len(q) /\ Len(q) \in Nat /\ i # j
    BY <1>1, <1>3, <1>7
  <1>9. i < j => ticket[c] < ticket[d]
    <2>1. Sorted(q)
      BY <1>1 DEF QueueInv, WaitersQueued
    <2>2. QED
      BY <1>3, <1>7, <2>1 DEF Sorted
  <1>10. j < i => d \in background /\ c \notin background
    BY <1>2, <1>3, <1>7, <1>8 DEF IsNext
  <1>11. c \in background => d \in background
    BY <1>2, <1>3, <1>7 DEF IsNext
  <1>12. QED
    BY <1>8, <1>9, <1>10, <1>11

(* Ordinary calls first, and oldest first within a priority. *)
THEOREM InTurn == Spec => HandoffsInTurn
  <1>1. ASSUME QueueInv, [Next]_vars, NEW c \in started' \ started,
               NEW d \in Calls, Queued(d), key[d] = key[c], d # c
        PROVE  IF d \in background THEN c \in background => ticket[c] < ticket[d]
                                   ELSE c \notin background /\ ticket[c] < ticket[d]
    <2>1. PICK x \in Calls : Release(x)
      BY <1>1 DEF Next, vars, Do, Step, AcquireNew, AcquireWait, TakeTurn, Cancel,
                  ContextDone
    <2>2. QED
      BY <1>1, <2>1, ReleaseInTurn
  <1>2. QueueInv /\ [Next]_vars =>
          [\A c \in started' \ started, d \in Calls :
             Queued(d) /\ key[d] = key[c] /\ d # c =>
               IF d \in background THEN c \in background => ticket[c] < ticket[d]
                                   ELSE c \notin background /\ ticket[c] < ticket[d]]_vars
    BY <1>1
  <1>3. QED
    BY <1>2, QueueInvariant, PTL DEF Spec, HandoffsInTurn
=============================================================================
