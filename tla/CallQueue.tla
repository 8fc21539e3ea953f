------------------------------ MODULE CallQueue ------------------------------
(***************************************************************************)
(* CallQueue of apps/server/internal/llm/queue.go: calls to one model run  *)
(* one at a time, ordinary calls before background calls, each priority in *)
(* arrival order.                                                          *)
(*                                                                         *)
(* Every section under q.mu is one atomic action.  A call is one execution *)
(* of Do and a lane is named by the call whose acquire created it, so a    *)
(* pointer to a lane that was deleted and made again stays recognisable.   *)
(***************************************************************************)
EXTENDS Integers, SequencesExt

CONSTANTS
  Calls,   \* executions of Do
  Keys,    \* queue keys: a model behind an endpoint
  NoLane   \* no *callLane

ASSUME LaneAssumption == NoLane \notin Calls

VARIABLES
  lanes,      \* q.lanes
  waiters,    \* the waiters of each lane
  pc,         \* where each call is
  key,        \* the key of each call
  background, \* the calls made under WithBackgroundPriority
  lane,       \* the lane that acquire returned to, or queued, each call
  started,    \* the waiters that release handed the slot (w.started, w.ready)
  canceled,   \* the calls whose context is done
  ticket,     \* history: when each call joined or made its lane
  clock       \* history: how many calls have

vars == <<lanes, waiters, pc, key, background, lane, started,
          canceled, ticket, clock>>
history == <<ticket, clock>>

Phase == {"idle", "entering", "waiting", "running", "done"}

(* The call holds the slot of its key, whether or not it knows already. *)
Owner(c) == pc[c] = "running" \/ (pc[c] = "waiting" /\ c \in started)

Queued(c) == pc[c] = "waiting" /\ c \notin started

-----------------------------------------------------------------------------
Init ==
  /\ lanes = [k \in Keys |-> NoLane]
  /\ waiters = [c \in Calls |-> <<>>]
  /\ pc = [c \in Calls |-> "idle"]
  /\ key \in [Calls -> Keys]
  /\ background \in SUBSET Calls
  /\ lane = [c \in Calls |-> NoLane]
  /\ started = {}
  /\ canceled = {}
  /\ ticket = [c \in Calls |-> 0]
  /\ clock = 0

(* Do: a call whose context is already done is refused. *)
Do(c) ==
  /\ pc[c] = "idle"
  /\ pc' = [pc EXCEPT ![c] = IF c \in canceled THEN "done" ELSE "entering"]
  /\ UNCHANGED <<lanes, waiters, key, background, lane, started, canceled, history>>

Join(c) ==
  /\ clock' = clock + 1
  /\ ticket' = [ticket EXCEPT ![c] = clock + 1]

(* acquire without a lane: the new lane belongs to its maker. *)
AcquireNew(c) ==
  /\ pc[c] = "entering"
  /\ lanes[key[c]] = NoLane
  /\ lanes' = [lanes EXCEPT ![key[c]] = c]
  /\ lane' = [lane EXCEPT ![c] = c]
  /\ pc' = [pc EXCEPT ![c] = "running"]
  /\ Join(c)
  /\ UNCHANGED <<waiters, key, background, started, canceled>>

(* acquire with a lane: the call queues behind it. *)
AcquireWait(c) ==
  LET l == lanes[key[c]] IN
  /\ pc[c] = "entering"
  /\ l # NoLane
  /\ waiters' = [waiters EXCEPT ![l] = Append(@, c)]
  /\ lane' = [lane EXCEPT ![c] = l]
  /\ pc' = [pc EXCEPT ![c] = "waiting"]
  /\ Join(c)
  /\ UNCHANGED <<lanes, key, background, started, canceled>>

(* acquire's select sees w.ready. *)
TakeTurn(c) ==
  /\ pc[c] = "waiting"
  /\ c \in started
  /\ pc' = [pc EXCEPT ![c] = "running"]
  /\ UNCHANGED <<lanes, waiters, key, background, lane, started, canceled, history>>

(* Mutation of Cancel: a canceled call forgets that the slot may be its    *)
(* own already.                                                            *)
CancelStarted(c) ==
  /\ pc[c] = "waiting"
  /\ c \in canceled
  /\ pc' = [pc EXCEPT ![c] = "done"]
  /\ waiters' = [waiters EXCEPT ![lane[c]] = SelectSeq(@, LAMBDA d : d # c)]
  /\ UNCHANGED <<lanes, key, background, lane, started, canceled, history>>

(* acquire's select sees ctx.Done, before or after the slot is handed      *)
(* over: only a call that is still queued leaves.                          *)
Cancel(c) ==
  /\ pc[c] = "waiting"
  /\ c \in canceled
  /\ IF c \in started
     THEN /\ pc' = [pc EXCEPT ![c] = "running"]
          /\ UNCHANGED waiters
     ELSE /\ pc' = [pc EXCEPT ![c] = "done"]
          /\ \E i \in DOMAIN waiters[lane[c]] :
               /\ waiters[lane[c]][i] = c
               /\ waiters' = [waiters EXCEPT ![lane[c]] = RemoveAt(@, i)]
  /\ UNCHANGED <<lanes, key, background, lane, started, canceled, history>>

(* Mutation of IsNext: the oldest waiter, whatever its priority. *)
IsNextOldest(q, i) == i = 1

(* q[i] is the waiter that release picks: the oldest ordinary one, or the  *)
(* oldest of all when only background calls wait.                          *)
IsNext(q, i) ==
  /\ q[i] \in background => \A j \in DOMAIN q : q[j] \in background
  /\ \A j \in 1 .. i-1 : q[j] \in background /\ q[i] \notin background

(* Do's deferred release, after fn returned or panicked. *)
Release(c) ==
  LET l == lane[c]
      q == waiters[l] IN
  /\ pc[c] = "running"
  /\ pc' = [pc EXCEPT ![c] = "done"]
  /\ \/ /\ q = <<>>
        /\ lanes' = [lanes EXCEPT ![key[c]] = NoLane]
        /\ UNCHANGED <<waiters, started>>
     \/ \E i \in DOMAIN q :
          /\ IsNext(q, i)
          /\ waiters' = [waiters EXCEPT ![l] = RemoveAt(q, i)]
          /\ started' = started \cup {q[i]}
          /\ UNCHANGED lanes
  /\ UNCHANGED <<key, background, lane, canceled, history>>

(* The call's context ends: a disconnect, a barge-in or a lost lease.  The *)
(* queue never looks at the context of a call that holds the slot.         *)
ContextDone(c) ==
  /\ pc[c] \in {"idle", "entering", "waiting"}
  /\ c \notin canceled
  /\ canceled' = canceled \cup {c}
  /\ UNCHANGED <<lanes, waiters, pc, key, background, lane, started, history>>

-----------------------------------------------------------------------------
(* The steps of a call that has entered Do, its fn included. *)
Step(c) ==
  \/ AcquireNew(c)
  \/ AcquireWait(c)
  \/ TakeTurn(c)
  \/ Cancel(c)
  \/ Release(c)

Next == \E c \in Calls : Do(c) \/ Step(c) \/ ContextDone(c)

Spec == Init /\ [][Next]_vars

-----------------------------------------------------------------------------
(* Every variable keeps to its type. *)
TypeOK ==
  /\ lanes \in [Keys -> Calls \cup {NoLane}]
  /\ waiters \in [Calls -> Seq(Calls)]
  /\ pc \in [Calls -> Phase]
  /\ key \in [Calls -> Keys]
  /\ background \subseteq Calls
  /\ lane \in [Calls -> Calls \cup {NoLane}]
  /\ \A c \in Calls : Owner(c) \/ Queued(c) => lane[c] \in Calls
  /\ started \subseteq Calls
  /\ canceled \subseteq Calls
  /\ ticket \in [Calls -> Nat]
  /\ clock \in Nat

(* A model serves one call at a time, however handoffs and cancellations   *)
(* interleave (queue.go, CallQueue: "serializes calls independently for    *)
(* each key").                                                             *)
OneCallPerKey ==
  \A c, d \in Calls : Owner(c) /\ Owner(d) /\ key[c] = key[d] => c = d

(* "A lane exists only while a call owns it, including during a handoff":  *)
(* no lane is stranded without an owner, none is deleted under its owner,  *)
(* and every queued call is a waiter of the lane that is in the map, where *)
(* the owner's release will look for it.                                   *)
LanesOwned ==
  /\ \A k \in Keys :
       lanes[k] # NoLane => \E c \in Calls : Owner(c) /\ key[c] = k
  /\ \A c \in Calls : Owner(c) \/ Queued(c) =>
       lanes[key[c]] = lane[c]
  /\ \A c \in Calls : Queued(c) => c \in ToSet(waiters[lane[c]])

(* "Ordinary calls precede background calls; calls within each priority    *)
(* run in FIFO order": whoever is handed a slot has waited longest among   *)
(* the calls of its priority, and is a background call only when no        *)
(* ordinary call waits for that key.                                       *)
HandoffsInTurn ==
  [][\A c \in started' \ started, d \in Calls :
       Queued(d) /\ key[d] = key[c] /\ d # c =>
         IF d \in background THEN c \in background => ticket[c] < ticket[d]
                             ELSE c \notin background /\ ticket[c] < ticket[d]]_vars

(* The inductive invariant behind the three.  A lane's list holds exactly  *)
(* the calls queued for its key, oldest first, and a lane in the map is    *)
(* the one that a call with that key made.                                 *)
Sorted(q) == \A i, j \in DOMAIN q : i < j => ticket[q[i]] < ticket[q[j]]

WaitersQueued ==
  \A l \in Calls :
    /\ Sorted(waiters[l])
    /\ \A c \in ToSet(waiters[l]) : Queued(c) /\ lane[c] = l

MadeByCall ==
  \A k \in Keys :
    lanes[k] # NoLane =>
      /\ key[lanes[k]] = k
      /\ pc[lanes[k]] \notin {"idle", "entering"}

Ticketed ==
  /\ \A c \in Calls : ticket[c] <= clock
  /\ \A c \in started : pc[c] \notin {"idle", "entering"}

QueueInv ==
  /\ TypeOK
  /\ OneCallPerKey
  /\ LanesOwned
  /\ WaitersQueued
  /\ MadeByCall
  /\ Ticketed
=============================================================================
