------------------------- MODULE ConversationProofs -------------------------
(***************************************************************************)
(* Proofs about Conversation for any number of inputs and faults, any size *)
(* of the window and any limit of attempts.                                *)
(***************************************************************************)
EXTENDS Conversation, ListLemmas, FiniteSetTheorems

(* What most steps look like to the turn numbers and the memory: one turn  *)
(* that has its number goes on, and may append a message.                  *)
GoesOn(i) ==
  /\ Active(i)
  /\ \E q \in Phase \ {"unread", "started", "numbered"} : pc' = [pc EXCEPT ![i] = q]
  /\ UNCHANGED <<hooked, connected, read, canceled, num, turn>>
  /\ log' = log \/ \E author \in {"user", "assistant"} : log' = Append(log, <<num[i], author>>)

Elsewhere == UNCHANGED <<hooked, read, pc, num, turn, log>>

-----------------------------------------------------------------------------
LEMMA TurnsFinite ==
  /\ IsFiniteSet(Turns) /\ 0 \in Turns /\ Turns \subseteq Nat
  BY FS_Interval, ConversationAssumption DEF Turns

(* The steps of the replies and of the compactions, from afar. *)
LEMMA Shapes ==
  ASSUME TypeOK, Next
  PROVE  \/ Read \/ Die
         \/ \E i \in Turns : NextTurn(i) \/ GoesOn(i)
         \/ Elsewhere
  <1> USE DEF vars, socket, memory, reply, compaction, Elsewhere
  <1>1. CASE Read \/ Die
    BY <1>1
  <1>2. CASE Disconnect
    BY <1>2 DEF Disconnect
  <1>3. ASSUME NEW i \in Turns,
               \/ Turn(i) \/ EnqueueFails(i) \/ FailInline(i) \/ LoseClaim(i)
               \/ DeliverPolled(i) \/ StopPolling(i)
        PROVE  NextTurn(i) \/ GoesOn(i) \/ Elsewhere
    <2> USE DEF GoesOn, Active, Phase, TypeOK
    <2>1. CASE AppendUser(i)
      BY <2>1 DEF AppendUser, Append1
    <2>2. CASE GenerateDirect(i) \/ DropDirect(i) \/ Reserve(i) \/ EnqueueReply(i)
      BY <2>2 DEF GenerateDirect, DropDirect, Reserve, EnqueueReply
    <2>3. CASE DeliverDirect(i) \/ DeliverInline(i) \/ DeliverPolled(i)
      BY <2>3 DEF DeliverDirect, DeliverInline, DeliverPolled, OnDone, Append1
    <2>4. CASE ClaimInline(i) \/ Watch(i) \/ GenerateInline(i) \/ CompleteInline(i)
      BY <2>4 DEF ClaimInline, Watch, GenerateInline, CompleteInline
    <2>5. CASE FinishInline(i)
      BY <2>5 DEF FinishInline
    <2>6. CASE EnqueueFails(i) \/ FailInline(i) \/ StopPolling(i)
      BY <2>6 DEF EnqueueFails, FailInline, StopPolling
    <2>7. CASE LoseClaim(i)
      BY <2>7 DEF LoseClaim
    <2>8. QED
      BY <1>3, <2>1, <2>2, <2>3, <2>4, <2>5, <2>6, <2>7 DEF Turn
  <1>4. ASSUME NEW t \in Turns, Work(t) \/ WorkerFails(t) \/ WorkerDies(t)
        PROVE  Elsewhere
    BY <1>4 DEF Work, WorkerTakes, WorkerCompletes, WorkerEnds, WorkerFails, WorkerDies
  <1>5. CASE StartCompaction
    BY <1>5 DEF StartCompaction
  <1>6. ASSUME NEW k \in DOMAIN compactions, CommitCompaction(k) \/ DropCompaction(k)
        PROVE  Elsewhere
    BY <1>6 DEF CommitCompaction, DropCompaction, ApplyCompaction
  <1>7. QED
    BY <1>1, <1>2, <1>3, <1>4, <1>5, <1>6 DEF Next

-----------------------------------------------------------------------------
(* The turn numbers. *)

(* Starting a turn takes one of the inputs read, and numbering it gives it *)
(* back; so the numbers never outgrow the inputs.                          *)
LEMMA CountStep ==
  ASSUME TypeOK, NumbersDistinct, Next
  PROVE  turn' + Cardinality(Started)' <= read'
  <1> DEFINE S == Started
             n == Cardinality(S)
  <1>1. S \subseteq Turns /\ IsFiniteSet(S) /\ n \in Nat
    BY TurnsFinite, FS_Subset, FS_CardinalityType DEF Started
  <1>2. turn \in Nat /\ read \in Nat /\ turn + n <= read
    BY TurnsFinite DEF TypeOK, NumbersDistinct
  <1>3. ASSUME S' \subseteq S, turn' = turn, read' = read
        PROVE  turn' + n' <= read'
    <2>1. n' \in Nat /\ n' <= n
      BY <1>1, <1>3, FS_Subset, FS_CardinalityType
    <2>2. QED
      BY <1>1, <1>2, <1>3, <2>1
  <1>4. CASE Read
    <2> DEFINE i == read + 1
    <2>1. S' = S \cup {i} /\ read' = read + 1 /\ turn' = turn
      <3>1. i \in Turns
        BY <1>2, <1>4, ConversationAssumption DEF Read, Turns
      <3>2. pc' = [pc EXCEPT ![i] = "started"] /\ pc \in [Turns -> Phase]
        BY <1>4 DEF Read, TypeOK
      <3>3. QED
        BY <1>4, <3>1, <3>2 DEF Read, Started, memory
    <2>2. n' \in Nat /\ n' <= n + 1
      BY <1>1, <2>1, FS_AddElement
    <2>3. QED
      BY <1>1, <1>2, <2>1, <2>2
  <1>5. CASE Die
    BY <1>3, <1>5 DEF Die, Started, TypeOK, memory
  <1>6. ASSUME NEW i \in Turns, NextTurn(i)
        PROVE  turn' + n' <= read'
    <2>1. S' = S \ {i} /\ i \in S /\ read' = read /\ turn' = turn + 1
      BY <1>6 DEF NextTurn, Started, TypeOK, socket
    <2>2. n' \in Nat /\ n' = n - 1
      BY <1>1, <2>1, FS_RemoveElement, FS_CardinalityType
    <2>3. QED
      BY <1>1, <1>2, <2>1, <2>2
  <1>7. ASSUME NEW i \in Turns, GoesOn(i)
        PROVE  turn' + n' <= read'
    BY <1>3, <1>7 DEF GoesOn, Started, TypeOK
  <1>8. CASE Elsewhere
    BY <1>3, <1>8 DEF Elsewhere, Started
  <1>9. QED
    BY <1>4, <1>5, <1>6, <1>7, <1>8, Shapes

(* A turn can still be numbered: there are fewer numbers than inputs. *)
LEMMA NumberLeft ==
  ASSUME TypeOK, NumbersDistinct, NEW i \in Turns, pc[i] = "started"
  PROVE  turn + 1 \in Turns
  <1>1. IsFiniteSet(Started) /\ i \in Started
    BY TurnsFinite, FS_Subset DEF Started
  <1>2. Cardinality(Started) \in Nat /\ Cardinality(Started) # 0
    BY <1>1, FS_EmptySet, FS_CardinalityType
  <1>3. turn \in 0 .. Inputs /\ read \in 0 .. Inputs /\ turn + Cardinality(Started) <= read
    BY DEF TypeOK, NumbersDistinct, Turns
  <1>4. QED
    BY <1>2, <1>3, ConversationAssumption DEF Turns

LEMMA NumbersStep ==
  ASSUME TypeOK, NumbersDistinct, Next
  PROVE  NumbersDistinct'
  <1> DEFINE Rest ==
        /\ \A i \in Turns : i > read => pc[i] = "unread"
        /\ num[0] = 0
        /\ pc[0] \notin {"unread", "started", "numbered"}
        /\ \A i \in Turns \ {0} : Active(i) => num[i] \in 1 .. turn
        /\ \A i, j \in Turns : Active(i) /\ Active(j) /\ num[i] = num[j] => i = j
  <1>1. Rest /\ TypeOK /\ 0 \in Turns /\ Turns \subseteq Nat
    BY TurnsFinite DEF NumbersDistinct
  <1>2. ASSUME Read PROVE Rest'
    BY <1>1, <1>2 DEF Read, Active, TypeOK, memory
  <1>3. ASSUME Die PROVE Rest'
    BY <1>1, <1>3 DEF Die, Active, TypeOK, memory
  <1>4. ASSUME NEW i \in Turns, NextTurn(i)
        PROVE  Rest'
    <2>1. /\ i # 0 /\ turn \in Nat /\ read' = read /\ pc[i] = "started"
          /\ num' = [num EXCEPT ![i] = turn + 1] /\ turn' = turn + 1
          /\ pc' = [pc EXCEPT ![i] = "numbered"]
      BY <1>1, <1>4 DEF NextTurn, TypeOK, socket
    <2>2. /\ num'[i] = turn + 1 /\ \A j \in Turns \ {i} : num'[j] = num[j]
          /\ pc'[i] = "numbered" /\ \A j \in Turns \ {i} : pc'[j] = pc[j]
      BY <1>1, <2>1 DEF TypeOK
    <2>3. \A j \in Turns : Active(j) => num[j] \in 0 .. turn
      BY <1>1, <2>1
    <2>4. \A j \in Turns \ {i} : Active(j)' <=> Active(j)
      BY <2>2 DEF Active
    <2>5. \A j \in Turns \ {0} : Active(j)' => num'[j] \in 1 .. turn'
      BY <1>1, <2>1, <2>2, <2>4
    <2>6. \A j, k \in Turns : Active(j)' /\ Active(k)' /\ num'[j] = num'[k] => j = k
      BY <1>1, <2>1, <2>2, <2>3, <2>4
    <2>7. QED
      BY <1>1, <2>1, <2>2, <2>5, <2>6
  <1>5. ASSUME NEW i \in Turns, GoesOn(i)
        PROVE  Rest'
    BY <1>1, <1>5 DEF GoesOn, Active, TypeOK
  <1>6. ASSUME Elsewhere PROVE Rest'
    BY <1>1, <1>6 DEF Elsewhere, Active
  <1>7. Rest'
    BY <1>2, <1>3, <1>4, <1>5, <1>6, Shapes
  <1>8. QED
    BY <1>7, CountStep DEF NumbersDistinct

-----------------------------------------------------------------------------
(* The greeting. *)
LEMMA GreetingStep ==
  ASSUME TypeOK, NumbersDistinct, GreetingInv, Next
  PROVE  GreetingInv'
  <1>1. /\ 0 \in Turns /\ Turns \subseteq Nat
        /\ \A i \in Turns \ {0} : Active(i) => num[i] # 0
        /\ num[0] = 0
    BY TurnsFinite DEF NumbersDistinct
  <1>2. CASE Read
    <2>1. read + 1 # 0 /\ pc' = [pc EXCEPT ![read + 1] = "started"] /\ pc[0] = "returned"
      BY <1>1, <1>2 DEF Read, GreetingOver, TypeOK
    <2>2. pc'[0] = "returned" /\ log' = log
      BY <1>1, <1>2, <2>1 DEF Read, TypeOK, memory
    <2>3. QED
      BY <2>2 DEF GreetingInv, GreetingFirst
  <1>3. CASE Die
    BY <1>1, <1>3 DEF Die, GreetingInv, GreetingFirst, TypeOK, memory
  <1>4. ASSUME NEW i \in Turns, NextTurn(i)
        PROVE  GreetingInv'
    <2>1. i # 0 /\ pc[0] = "returned"
      BY <1>4 DEF NextTurn, GreetingInv, NumbersDistinct
    <2>2. QED
      BY <1>1, <1>4, <2>1 DEF NextTurn, GreetingInv, GreetingFirst, TypeOK
  <1>5. ASSUME NEW i \in Turns, GoesOn(i)
        PROVE  GreetingInv'
    <2>1. CASE log' = log
      BY <1>1, <1>5, <2>1 DEF GoesOn, Active, GreetingInv, GreetingFirst, TypeOK
    <2>2. ASSUME NEW author \in {"user", "assistant"},
                 log' = Append(log, <<num[i], author>>)
          PROVE  GreetingInv'
      <3> DEFINE m == <<num[i], author>>
      <3>1. m \in Message /\ m[1] = num[i]
        BY DEF Message, TypeOK
      <3>2. /\ DOMAIN log = 1 .. Len(log) /\ DOMAIN log' = 1 .. Len(log) + 1
            /\ Len(log) \in Nat
            /\ \A j \in 1 .. Len(log) : log'[j] = log[j]
            /\ log'[Len(log) + 1][1] = num[i]
        BY <2>2, <3>1, AppendElements DEF TypeOK
      <3> HIDE DEF m
      <3>3. CASE i = 0
        <4>1. /\ pc[0] # "returned" /\ \A j \in Turns \ {0} : pc[j] = "unread"
              /\ \A k \in 1 .. Len(log) : log[k][1] = 0
          BY <1>5, <3>2, <3>3 DEF GoesOn, Active, GreetingInv
        <4>2. \A k \in DOMAIN log' : log'[k][1] = 0
          BY <1>1, <3>2, <3>3, <4>1
        <4>3. \A j \in Turns \ {0} : pc'[j] = "unread"
          BY <1>5, <3>3, <4>1 DEF GoesOn, TypeOK
        <4>4. QED
          BY <4>2, <4>3 DEF GreetingInv, GreetingFirst
      <3>4. CASE i # 0
        <4>1. pc[0] = "returned" /\ num[i] # 0
          BY <1>1, <1>5, <3>4 DEF GoesOn, Active, GreetingInv
        <4>2. pc'[0] = "returned"
          BY <1>1, <1>5, <3>4, <4>1 DEF GoesOn, TypeOK
        <4>3. \A j, k \in 1 .. Len(log) : log[k][1] = 0 /\ j < k => log[j][1] = 0
          BY <3>2 DEF GreetingInv, GreetingFirst
        <4>4. \A j, k \in DOMAIN log' : log'[k][1] = 0 /\ j < k => log'[j][1] = 0
          BY <3>2, <4>1, <4>3
        <4>5. QED
          BY <4>2, <4>4 DEF GreetingInv, GreetingFirst
      <3>5. QED
        BY <3>3, <3>4
    <2>3. QED
      BY <1>5, <2>1, <2>2 DEF GoesOn
  <1>6. CASE Elsewhere
    BY <1>6 DEF Elsewhere, GreetingInv, GreetingFirst
  <1>7. QED
    BY <1>2, <1>3, <1>4, <1>5, <1>6, Shapes

-----------------------------------------------------------------------------
(* The jobs. *)

JobState == {"none", "queued", "inline", "worker", "ended", "abandoned"}
Early == {"numbered", "asking", "enqueuing"}

LEMMA ActiveNumber ==
  ASSUME TypeOK, NumbersDistinct, NEW i \in Turns
  PROVE  /\ num[i] \in Turns /\ num[i] \in Nat
         /\ Active(i) => num[i] <= turn
  <1>1. num[i] \in Turns /\ num[i] \in Nat /\ turn \in Nat
    BY TurnsFinite DEF TypeOK
  <1>2. CASE i = 0
    BY <1>1, <1>2 DEF NumbersDistinct
  <1>3. CASE i # 0
    <2>1. Active(i) => num[i] \in 1 .. turn
      BY <1>3 DEF NumbersDistinct
    <2>2. QED
      BY <1>1, <2>1
  <1>4. QED
    BY <1>2, <1>3, <1>1

(* A turn goes on, and may change a job that no worker has. *)
LEMMA TurnKeepsJobs ==
  ASSUME TypeOK, NumbersDistinct, JobsOwned,
         NEW i \in Turns, Active(i), NEW q \in Phase, q \in Early => pc[i] \in Early,
         pc' = [pc EXCEPT ![i] = q],
         UNCHANGED <<num, turn, worker>>,
         \/ job' = job
         \/ /\ \E v \in JobState : job' = [job EXCEPT ![num[i]] = v]
            /\ job[num[i]] # "worker" /\ q \notin Early
  PROVE  JobsOwned'
  <1>1. /\ \A t \in Turns : worker[t] # "none" => job[t] = "worker"
        /\ \A t \in Turns : t > turn => job[t] = "none"
        /\ \A j \in Turns : pc[j] \in Early => job[num[j]] = "none"
    BY DEF JobsOwned, Early
  <1>2. /\ \A j \in Turns \ {i} : pc'[j] = pc[j] /\ num[j] \in Turns
        /\ pc'[i] = q /\ num[i] \in Turns /\ num[i] \in Nat /\ num[i] <= turn
        /\ turn \in Nat /\ Turns \subseteq Nat
    BY ActiveNumber, TurnsFinite DEF TypeOK
  <1>3. \A j \in Turns \ {i} : pc[j] \in Early => num[j] # num[i]
    <2>1. \A j \in Turns : pc[j] \in Early => Active(j)
      BY DEF Active, Early
    <2>2. QED
      BY <2>1 DEF NumbersDistinct
  <1>4. CASE job' = job
    BY <1>1, <1>2, <1>4 DEF JobsOwned, Early
  <1>5. CASE job' # job
    <2>1. /\ job[num[i]] # "worker" /\ q \notin Early
          /\ \A t \in Turns \ {num[i]} : job'[t] = job[t]
      BY <1>5 DEF TypeOK
    <2>2. \A t \in Turns : worker'[t] # "none" => job'[t] = "worker"
      BY <1>1, <1>2, <2>1
    <2>3. \A t \in Turns : t > turn' => job'[t] = "none"
      BY <1>1, <1>2, <2>1
    <2>4. ASSUME NEW j \in Turns, pc'[j] \in Early
          PROVE  job'[num'[j]] = "none"
      <3>1. j # i /\ pc[j] \in Early
        BY <1>2, <2>1, <2>4
      <3>2. num[j] \in Turns \ {num[i]} /\ job[num[j]] = "none"
        BY <1>1, <1>2, <1>3, <3>1
      <3>3. num'[j] = num[j]
        OBVIOUS
      <3>4. QED
        BY <2>1, <3>2, <3>3
    <2>5. QED
      BY <2>2, <2>3, <2>4 DEF JobsOwned, Early
  <1>6. QED
    BY <1>4, <1>5

(* A worker goes on with a job that is queued or its own. *)
LEMMA WorkKeepsJobs ==
  ASSUME TypeOK, NumbersDistinct, JobsOwned,
         NEW t \in Turns, job[t] # "none",
         NEW v \in JobState, NEW w \in {"none", "generating", "done"},
         w # "none" => v = "worker",
         job' = [job EXCEPT ![t] = v], worker' = [worker EXCEPT ![t] = w],
         UNCHANGED <<pc, num, turn>>
  PROVE  JobsOwned'
  <1>1. /\ \A u \in Turns : worker[u] # "none" => job[u] = "worker"
        /\ \A u \in Turns : u > turn => job[u] = "none"
        /\ \A j \in Turns : pc[j] \in Early => job[num[j]] = "none" /\ num[j] \in Turns
    BY ActiveNumber DEF JobsOwned, Early
  <1>2. /\ \A u \in Turns \ {t} : job'[u] = job[u] /\ worker'[u] = worker[u]
        /\ job'[t] = v /\ worker'[t] = w
    BY DEF TypeOK
  <1>3. QED
    BY <1>1, <1>2 DEF JobsOwned, Early

LEMMA JobsStep ==
  ASSUME TypeOK, NumbersDistinct, JobsOwned, Next
  PROVE  JobsOwned'
  <1> USE DEF vars, socket, memory, reply, compaction
  <1>1. ASSUME UNCHANGED <<pc, num, turn, job, worker>>
        PROVE  JobsOwned'
    BY <1>1 DEF JobsOwned
  <1>2. CASE Read
    <2>1. /\ pc' = [pc EXCEPT ![read + 1] = "started"]
          /\ UNCHANGED <<num, turn, job, worker>>
      BY <1>2 DEF Read
    <2>2. \A j \in Turns : pc'[j] = pc[j] \/ pc'[j] = "started"
      BY <2>1 DEF TypeOK
    <2>3. QED
      BY <2>1, <2>2 DEF JobsOwned
  <1>3. CASE Disconnect
    BY <1>1, <1>3 DEF Disconnect
  <1>4. CASE Die
    <2>1. /\ \A i \in Turns : pc'[i] \in {"unread", "returned"}
          /\ \A t \in Turns : job[t] # "inline" => job'[t] = job[t]
          /\ UNCHANGED <<num, turn, worker>>
      BY <1>4 DEF Die
    <2>2. QED
      BY <2>1 DEF JobsOwned
  <1>5. ASSUME NEW i \in Turns, NextTurn(i)
        PROVE  JobsOwned'
    <2>1. /\ turn \in Nat /\ turn + 1 \in Turns /\ Turns \subseteq Nat
          /\ num' = [num EXCEPT ![i] = turn + 1] /\ turn' = turn + 1
          /\ pc' = [pc EXCEPT ![i] = "numbered"]
          /\ UNCHANGED <<job, worker>>
      BY <1>5, NumberLeft, TurnsFinite DEF NextTurn, TypeOK
    <2>2. /\ num'[i] = turn + 1 /\ \A j \in Turns \ {i} : num'[j] = num[j]
          /\ pc'[i] = "numbered" /\ \A j \in Turns \ {i} : pc'[j] = pc[j]
      BY <2>1 DEF TypeOK
    <2>3. job[turn + 1] = "none"
      BY <2>1 DEF JobsOwned
    <2>4. ASSUME NEW j \in Turns, pc'[j] \in Early
          PROVE  job'[num'[j]] = "none"
      BY <2>1, <2>2, <2>3, <2>4 DEF JobsOwned, Early
    <2>5. /\ \A t \in Turns : worker'[t] # "none" => job'[t] = "worker"
          /\ \A t \in Turns : t > turn' => job'[t] = "none"
      BY <2>1 DEF JobsOwned
    <2>6. \A j \in Turns :
            pc'[j] \in {"numbered", "asking", "enqueuing"} => job'[num'[j]] = "none"
      BY <2>4 DEF Early
    <2>7. QED
      BY <2>5, <2>6 DEF JobsOwned
  <1>6. ASSUME NEW i \in Turns,
               \/ AppendUser(i) \/ GenerateDirect(i) \/ DropDirect(i)
               \/ DeliverDirect(i) \/ DeliverInline(i) \/ DeliverPolled(i)
               \/ Reserve(i) \/ Watch(i) \/ GenerateInline(i) \/ CompleteInline(i)
               \/ EnqueueFails(i) \/ StopPolling(i)
        PROVE  JobsOwned'
    <2>1. /\ Active(i)
          /\ \E q \in Phase :
               pc' = [pc EXCEPT ![i] = q] /\ (q \in Early => pc[i] \in Early)
          /\ UNCHANGED <<num, turn, worker, job>>
      BY <1>6 DEF AppendUser, GenerateDirect, DropDirect, DeliverDirect, DeliverInline,
         DeliverPolled, OnDone, Append1, Reserve, Watch, GenerateInline, CompleteInline,
         EnqueueFails, StopPolling, Active, Early, Phase
    <2>2. PICK q \in Phase : pc' = [pc EXCEPT ![i] = q] /\ (q \in Early => pc[i] \in Early)
      BY <2>1
    <2>3. QED
      BY <2>1, <2>2, TurnKeepsJobs
  <1>7. ASSUME NEW i \in Turns,
               EnqueueReply(i) \/ ClaimInline(i) \/ FinishInline(i) \/ FailInline(i)
        PROVE  JobsOwned'
    <2>1. /\ Active(i)
          /\ \E q \in Phase \ Early : pc' = [pc EXCEPT ![i] = q]
          /\ UNCHANGED <<num, turn, worker>>
      BY <1>7 DEF EnqueueReply, ClaimInline, FinishInline, FailInline, Active, Early, Phase
    <2>2. \/ job' = job
          \/ /\ \E v \in JobState : job' = [job EXCEPT ![num[i]] = v]
             /\ job[num[i]] # "worker"
      BY <1>7 DEF EnqueueReply, ClaimInline, FinishInline, FailInline, EndAttempt, Requeue,
         JobState, JobsOwned
    <2>3. PICK q \in Phase \ Early : pc' = [pc EXCEPT ![i] = q]
      BY <2>1
    <2>4. QED
      BY <2>1, <2>2, <2>3, TurnKeepsJobs
  <1>8. ASSUME NEW i \in Turns, LoseClaim(i)
        PROVE  JobsOwned'
    <2>1. /\ Active(i) /\ pc[i] \in Phase \ Early /\ pc' = [pc EXCEPT ![i] = pc[i]]
          /\ job' = [job EXCEPT ![num[i]] = "queued"] /\ job[num[i]] # "worker"
          /\ UNCHANGED <<num, turn, worker>>
      BY <1>8 DEF LoseClaim, Requeue, Attempting, Active, Early, TypeOK, Phase
    <2>2. QED
      BY <2>1, TurnKeepsJobs DEF JobState
  <1>9. ASSUME NEW t \in Turns, Work(t) \/ WorkerFails(t) \/ WorkerDies(t)
        PROVE  JobsOwned'
    <2>1. worker[t] # "none" => job[t] = "worker"
      BY DEF JobsOwned
    <2>2. CASE WorkerTakes(t)
      BY <2>2, WorkKeepsJobs DEF WorkerTakes, JobState
    <2>3. CASE WorkerCompletes(t)
      <3>1. job' = [job EXCEPT ![t] = "worker"] /\ job[t] = "worker"
        BY <2>1, <2>3 DEF WorkerCompletes, TypeOK
      <3>2. QED
        BY <2>3, <3>1, WorkKeepsJobs DEF WorkerCompletes, JobState
    <2>4. CASE WorkerEnds(t)
      BY <2>1, <2>4, WorkKeepsJobs DEF WorkerEnds, JobState
    <2>5. CASE WorkerFails(t) \/ WorkerDies(t)
      <3>1. \E v \in JobState : job' = [job EXCEPT ![t] = v]
        BY <2>5 DEF WorkerFails, WorkerDies, EndAttempt, Requeue, JobState
      <3>2. QED
        BY <2>1, <2>5, <3>1, WorkKeepsJobs DEF WorkerFails, WorkerDies
    <2>6. QED
      BY <1>9, <2>2, <2>3, <2>4, <2>5 DEF Work
  <1>10. CASE StartCompaction
    BY <1>1, <1>10 DEF StartCompaction
  <1>11. ASSUME NEW k \in DOMAIN compactions, CommitCompaction(k) \/ DropCompaction(k)
         PROVE  JobsOwned'
    BY <1>1, <1>11 DEF CommitCompaction, DropCompaction, ApplyCompaction
  <1>12. QED
    BY <1>2, <1>3, <1>4, <1>5, <1>6, <1>7, <1>8, <1>9, <1>10, <1>11 DEF Next, Turn
-----------------------------------------------------------------------------
(* The types. *)

(* A fault is counted, and no count goes down. *)
LEMMA FaultCounted ==
  ASSUME TypeOK, NEW f \in Faults, Fault(f) \/ Overlap
  PROVE  /\ faults' \in [Faults -> Nat]
         /\ \A g \in Faults : faults'[g] >= faults[g]
         /\ Overlap => faults'["overlap"] = faults["overlap"] + 1
         /\ Fault("claim") => faults'["claim"] = faults["claim"] + 1
  <1>1. /\ faults \in [Faults -> Nat] /\ "claim" \in Faults /\ "overlap" \in Faults
    BY DEF TypeOK, Faults
  <1>2. faults' = [faults EXCEPT ![f] = @ + 1] \/ faults' = [faults EXCEPT !["overlap"] = @ + 1]
    BY DEF Fault, Overlap
  <1>3. Fault("claim") => faults' = [faults EXCEPT !["claim"] = @ + 1]
    BY DEF Fault
  <1>4. Overlap => faults' = [faults EXCEPT !["overlap"] = @ + 1]
    BY DEF Overlap
  <1>5. \A g \in Faults : faults[g] \in Nat
    BY <1>1
  <1>6. QED
    BY <1>1, <1>2, <1>3, <1>4, <1>5

LEMMA AppendTyped ==
  ASSUME TypeOK, NEW i \in Turns, NEW author \in {"user", "assistant"}, Append1(i, author)
  PROVE  /\ history' \in Seq(Message)
         /\ log' \in Seq(Message)
         /\ UNCHANGED <<turn, summary>>
  <1>1. <<num[i], author>> \in Message
    BY DEF Message, TypeOK
  <1>2. QED
    BY <1>1, AppendElements DEF Append1, TypeOK

(* What PeekOldestForCompaction returns is a prefix of the window. *)
LEMMA OldestTyped ==
  ASSUME TypeOK
  PROVE  /\ compactions \in Seq(Compaction) /\ history \in Seq(Message)
         /\ Oldest \in Seq(Message)
         /\ Len(Oldest) <= Len(history)
         /\ Oldest = SubSeq(history, 1, Len(Oldest))
  <1> DEFINE h == MaxHistoryMessages \div 2
             n == Len(history) - h
  <1>1. /\ compactions \in Seq(Compaction) /\ history \in Seq(Message)
        /\ Len(history) \in Nat
    BY DEF TypeOK
  <1>2. h \in Nat
    BY ConversationAssumption
  <1>3. Oldest = SubSeq(history, 1, n)
    BY DEF Oldest
  <1>4. n \in Int /\ n <= Len(history)
    BY <1>1, <1>2
  <1> HIDE DEF h, n
  <1>5. CASE n > 0
    <2>1. /\ SubSeq(history, 1, n) \in Seq(Message)
          /\ Len(SubSeq(history, 1, n)) = n
      BY <1>1, <1>5, <1>4, SubSeqProperties
    <2>2. QED
      BY <1>3, <1>1, <1>4, <2>1
  <1>6. CASE n <= 0
    <2>1. SubSeq(history, 1, n) = <<>>
      BY <1>6, <1>4, SubSeqEmpty
    <2>2. SubSeq(history, 1, 0) = <<>>
      BY <1>1, SubSeqEmpty
    <2>3. QED
      <3>1. Oldest = <<>> /\ Len(Oldest) = 0
        BY <1>3, <2>1
      <3>2. QED
        BY <1>1, <2>2, <3>1
  <1>7. QED
    BY <1>5, <1>6, <1>4

LEMMA CompactionTyped ==
  ASSUME TypeOK, NEW k \in DOMAIN compactions
  PROVE  /\ compactions[k] \in Compaction
         /\ compactions[k].base \in Seq(Message) /\ compactions[k].old \in Seq(Message)
         /\ RemoveAt(compactions, k) \in Seq(Compaction)
  <1>1. compactions \in Seq(Compaction)
    BY DEF TypeOK
  <1>2. compactions[k] \in Compaction
    BY <1>1
  <1>3. RemoveAt(compactions, k) \in Seq(Compaction)
    BY <1>1, RemoveAtElements
  <1>4. QED
    BY <1>2, <1>3 DEF Compaction

LEMMA TypeStep ==
  ASSUME TypeOK, NumbersDistinct, Next
  PROVE  TypeOK'
  <1> USE DEF vars, socket, memory, reply, compaction
  <1>1. /\ 0 \in Turns /\ Turns \subseteq Nat
        /\ \A i \in Turns : num[i] \in Turns
        /\ read \in Nat
    BY TurnsFinite DEF TypeOK
  <1>2. CASE Read
    <2>1. read + 1 \in Turns
      BY <1>1, <1>2, ConversationAssumption DEF Read, Turns
    <2>2. QED
      BY <1>2, <2>1 DEF Read, TypeOK, Phase
  <1>3. CASE Disconnect
    BY <1>3 DEF Disconnect, TypeOK
  <1>4. CASE Die
    <2>1. /\ pc' \in [Turns -> Phase] /\ attempts' \in [Turns -> Nat]
          /\ job' \in [Turns -> JobState]
      BY <1>4 DEF Die, TypeOK, Phase, JobState
    <2>2. faults' \in [Faults -> Nat]
      BY <1>4, FaultCounted DEF Die, Faults
    <2>3. compactions' \in Seq(Compaction)
      BY <1>4 DEF Die
    <2>4. QED
      BY <1>4, <2>1, <2>2, <2>3 DEF Die, TypeOK, JobState
  <1>5. ASSUME NEW i \in Turns, NextTurn(i)
        PROVE  TypeOK'
    BY <1>5, NumberLeft DEF NextTurn, TypeOK, Phase
  <1>6. ASSUME NEW i \in Turns, AppendUser(i)
        PROVE  TypeOK'
    BY <1>6, AppendTyped DEF AppendUser, TypeOK, Phase
  <1>7. ASSUME NEW i \in Turns, DeliverDirect(i) \/ DeliverInline(i) \/ DeliverPolled(i)
        PROVE  TypeOK'
    <2>1. /\ Append1(i, "assistant") /\ shown' = [shown EXCEPT ![i] = @ + 1]
          /\ spawned' = spawned + 1
          /\ \E q \in Phase : pc' = [pc EXCEPT ![i] = q]
          /\ UNCHANGED <<socket, num, compactions, faults, reply>>
      BY <1>7 DEF DeliverDirect, DeliverInline, DeliverPolled, OnDone, Phase
    <2>2. /\ pc' \in [Turns -> Phase] /\ shown' \in [Turns -> Nat] /\ spawned' \in Nat
      BY <2>1 DEF TypeOK
    <2>3. /\ history' \in Seq(Message) /\ log' \in Seq(Message)
          /\ UNCHANGED <<turn, summary>>
      BY <2>1, AppendTyped
    <2>4. QED
      BY <2>1, <2>2, <2>3 DEF TypeOK
  <1>8. ASSUME NEW i \in Turns,
               \/ GenerateDirect(i) \/ DropDirect(i) \/ Watch(i) \/ GenerateInline(i)
               \/ StopPolling(i)
        PROVE  TypeOK'
    BY <1>8 DEF GenerateDirect, DropDirect, Watch, GenerateInline, StopPolling, TypeOK, Phase
  <1>9. ASSUME NEW i \in Turns,
               \/ Reserve(i) \/ EnqueueReply(i) \/ ClaimInline(i) \/ CompleteInline(i)
               \/ FinishInline(i)
        PROVE  TypeOK'
    <2>1. /\ \E q \in Phase : pc' = [pc EXCEPT ![i] = q]
          /\ job' = job \/ \E v \in JobState : job' = [job EXCEPT ![num[i]] = v]
          /\ \/ status' = status
             \/ \E v \in {"pending", "done"} : status' = [status EXCEPT ![num[i]] = v]
          /\ UNCHANGED <<socket, num, memory, compaction, attempts, worker, shown, faults>>
      BY <1>9 DEF Reserve, EnqueueReply, ClaimInline, CompleteInline, FinishInline, Phase,
         JobState
    <2>2. /\ pc' \in [Turns -> Phase]
          /\ job' \in [Turns -> JobState]
          /\ status' \in [Turns -> {"none", "pending", "done"}]
      <3>1. pc \in [Turns -> Phase] /\ num[i] \in Turns
        BY <1>1 DEF TypeOK
      <3>2. job \in [Turns -> JobState]
        BY DEF TypeOK, JobState
      <3>3. status \in [Turns -> {"none", "pending", "done"}]
        BY DEF TypeOK
      <3>4. job' \in [Turns -> JobState]
        BY <2>1, <3>1, <3>2
      <3>5. status' \in [Turns -> {"none", "pending", "done"}]
        BY <2>1, <3>1, <3>3
      <3>6. QED
        BY <2>1, <3>1, <3>4, <3>5
    <2>3. QED
      BY <2>1, <2>2 DEF TypeOK, JobState
  <1>10. ASSUME NEW t \in Turns, Requeue(t) \/ EndAttempt(t)
         PROVE  job' \in [Turns -> JobState] /\ attempts' \in [Turns -> Nat]
    <2>1. job \in [Turns -> JobState] /\ attempts \in [Turns -> Nat]
      BY DEF TypeOK, JobState
    <2>2. CASE Requeue(t)
      BY <2>1, <2>2 DEF Requeue, JobState
    <2>3. CASE EndAttempt(t)
      BY <2>1, <2>3 DEF Requeue, EndAttempt, JobState
    <2>4. QED
      BY <1>10, <2>2, <2>3
  <1>11. ASSUME NEW i \in Turns, EnqueueFails(i) \/ FailInline(i) \/ LoseClaim(i)
         PROVE  TypeOK'
    <2>1. /\ faults' \in [Faults -> Nat]
          /\ job' \in [Turns -> JobState] /\ attempts' \in [Turns -> Nat]
      <3>1. CASE EnqueueFails(i)
        BY <3>1, FaultCounted DEF EnqueueFails, Faults, TypeOK, JobState
      <3>2. CASE FailInline(i)
        BY <1>1, <1>10, <3>2, FaultCounted DEF FailInline, Faults, TypeOK, JobState
      <3>3. CASE LoseClaim(i)
        BY <1>1, <1>10, <3>3, FaultCounted DEF LoseClaim, Faults
      <3>4. QED
        BY <1>11, <3>1, <3>2, <3>3
    <2>2. /\ pc' \in [Turns -> Phase]
          /\ UNCHANGED <<socket, num, memory, compaction, worker, status, shown>>
      BY <1>11 DEF EnqueueFails, FailInline, LoseClaim, TypeOK, Phase
    <2>3. QED
      BY <2>1, <2>2 DEF TypeOK, JobState
  <1>12. ASSUME NEW t \in Turns, Work(t)
         PROVE  TypeOK'
    <2>1. /\ job' = job \/ \E v \in JobState : job' = [job EXCEPT ![t] = v]
          /\ \E v \in {"none", "generating", "done"} : worker' = [worker EXCEPT ![t] = v]
          /\ status' = status \/ status' = [status EXCEPT ![t] = "done"]
          /\ UNCHANGED <<socket, pc, num, memory, compaction, attempts, shown, faults>>
      BY <1>12 DEF Work, WorkerTakes, WorkerCompletes, WorkerEnds, JobState
    <2>2. /\ job' \in [Turns -> JobState]
          /\ worker' \in [Turns -> {"none", "generating", "done"}]
          /\ status' \in [Turns -> {"none", "pending", "done"}]
      <3>1. job' \in [Turns -> JobState]
        BY <2>1 DEF TypeOK, JobState
      <3>2. worker' \in [Turns -> {"none", "generating", "done"}]
        BY <2>1 DEF TypeOK
      <3>3. status' \in [Turns -> {"none", "pending", "done"}]
        BY <2>1 DEF TypeOK
      <3>4. QED
        BY <3>1, <3>2, <3>3
    <2>3. QED
      BY <2>1, <2>2 DEF TypeOK, JobState
  <1>13. ASSUME NEW t \in Turns, WorkerFails(t) \/ WorkerDies(t)
         PROVE  TypeOK'
    <2>1. /\ faults' \in [Faults -> Nat]
          /\ job' \in [Turns -> JobState] /\ attempts' \in [Turns -> Nat]
      BY <1>10, <1>13, FaultCounted DEF WorkerFails, WorkerDies, Faults
    <2>2. /\ worker' \in [Turns -> {"none", "generating", "done"}]
          /\ UNCHANGED <<socket, pc, num, memory, compaction, status, shown>>
      BY <1>13 DEF WorkerFails, WorkerDies, TypeOK
    <2>3. QED
      BY <2>1, <2>2 DEF TypeOK, JobState
  <1>14. CASE StartCompaction
    <2>1. compactions' \in Seq(Compaction)
      <3>1. Oldest \in Seq(Message)
        BY OldestTyped
      <3>2. [old |-> Oldest, base |-> summary] \in Compaction
        BY <3>1 DEF Compaction, TypeOK
      <3>3. QED
        <4>1. Append(compactions, [old |-> Oldest, base |-> summary]) \in Seq(Compaction)
          BY <3>2, OldestTyped, AppendElements
        <4>2. QED
          BY <1>14, <4>1, OldestTyped DEF StartCompaction
    <2>2. faults' \in [Faults -> Nat]
      BY <1>14, FaultCounted DEF StartCompaction, Faults, TypeOK
    <2>3. spawned' \in Nat
      BY <1>14 DEF StartCompaction, TypeOK
    <2>4. QED
      BY <1>14, <2>1, <2>2, <2>3 DEF StartCompaction, TypeOK
  <1>15. ASSUME NEW k \in DOMAIN compactions, CommitCompaction(k) \/ DropCompaction(k)
         PROVE  TypeOK'
    <2> DEFINE c == compactions[k]
    <2>1. c.base \o c.old \in Seq(Message)
      BY CompactionTyped
    <2>2. SubSeq(history, Len(c.old) + 1, Len(history)) \in Seq(Message)
      BY CompactionTyped, SubSeqProperties DEF TypeOK
    <2>3. CASE CommitCompaction(k)
      BY <2>1, <2>2, <2>3, CompactionTyped DEF CommitCompaction, ApplyCompaction, TypeOK
    <2>4. CASE DropCompaction(k)
      BY <2>4, CompactionTyped DEF DropCompaction, TypeOK
    <2>5. QED
      BY <1>15, <2>3, <2>4
  <1>16. QED
    BY <1>2, <1>3, <1>4, <1>5, <1>6, <1>7, <1>8, <1>9, <1>11, <1>12, <1>13, <1>14, <1>15
    DEF Next, Turn
-----------------------------------------------------------------------------
(* The replies. *)

(* A step of a turn that has its number. *)
GoesOnOf(i) ==
  \/ AppendUser(i) \/ GenerateDirect(i) \/ DropDirect(i) \/ DeliverDirect(i)
  \/ Reserve(i) \/ EnqueueReply(i) \/ ClaimInline(i) \/ Watch(i)
  \/ GenerateInline(i) \/ CompleteInline(i) \/ DeliverInline(i) \/ FinishInline(i)
  \/ EnqueueFails(i) \/ FailInline(i) \/ LoseClaim(i)
  \/ DeliverPolled(i) \/ StopPolling(i)

(* What the steps of others leave alone of a turn's reply. *)
LEMMA DeliveryKept ==
  ASSUME TypeOK, NEW j \in Turns, Delivered(j),
         pc'[j] = pc[j], shown'[j] = shown[j], hooked' = hooked,
         faults'["claim"] \in Nat, faults'["claim"] >= faults["claim"],
         pc[j] \in Attempting =>
           num'[j] = num[j] /\ (job[num[j]] = "inline" => job'[num[j]] = "inline")
  PROVE  Delivered(j)'
  <1>1. faults["claim"] \in Nat /\ shown[j] \in Nat
    BY DEF TypeOK, Faults
  <1>2. QED
    BY <1>1 DEF Delivered

LEMMA FaultsCounted ==
  ASSUME TypeOK, NumbersDistinct, Next
  PROVE  \A g \in Faults : faults[g] \in Nat /\ faults'[g] \in Nat /\ faults'[g] >= faults[g]
  <1>1. \A g \in Faults : faults[g] \in Nat /\ faults'[g] \in Nat
    BY TypeStep DEF TypeOK
  <1>2. faults' = faults \/ \E f \in Faults : Fault(f) \/ Overlap
    <2> USE DEF Faults, vars, socket, memory, reply, compaction
    <2>1. ASSUME NEW i \in Turns, Turn(i)
          PROVE  faults' = faults
      BY <2>1 DEF Turn, NextTurn, AppendUser, GenerateDirect, DropDirect, DeliverDirect, OnDone,
         Reserve, EnqueueReply, ClaimInline, Watch, GenerateInline, CompleteInline,
         DeliverInline, FinishInline
    <2>2. ASSUME NEW i \in Turns, \/ EnqueueFails(i) \/ FailInline(i) \/ LoseClaim(i)
                                  \/ DeliverPolled(i) \/ StopPolling(i)
          PROVE  faults' = faults \/ \E f \in Faults : Fault(f)
      BY <2>2 DEF EnqueueFails, FailInline, LoseClaim, DeliverPolled, OnDone, StopPolling
    <2>3. ASSUME NEW t \in Turns, Work(t) \/ WorkerFails(t) \/ WorkerDies(t)
          PROVE  faults' = faults \/ \E f \in Faults : Fault(f)
      BY <2>3 DEF Work, WorkerTakes, WorkerCompletes, WorkerEnds, WorkerFails, WorkerDies
    <2>4. CASE Read \/ Disconnect \/ Die
      BY <2>4 DEF Read, Disconnect, Die
    <2>5. CASE StartCompaction
      BY <2>5 DEF StartCompaction
    <2>6. ASSUME NEW k \in DOMAIN compactions, CommitCompaction(k) \/ DropCompaction(k)
          PROVE  faults' = faults
      BY <2>6 DEF CommitCompaction, DropCompaction
    <2>7. QED
      BY <2>1, <2>2, <2>3, <2>4, <2>5, <2>6 DEF Next
  <1>3. QED
    BY <1>1, <1>2, FaultCounted

(* A turn's own step. *)
LEMMA OwnDelivery ==
  ASSUME TypeOK, NEW i \in Turns, GoesOnOf(i), Delivered(i),
         faults'["claim"] \in Nat, faults'["claim"] >= faults["claim"]
  PROVE  Delivered(i)'
  <1> USE DEF socket, reply
  <1>1. /\ pc \in [Turns -> Phase] /\ shown \in [Turns -> Nat] /\ num[i] \in Turns
        /\ DOMAIN job = Turns /\ faults["claim"] \in Nat
    BY DEF TypeOK, Faults
  <1> USE DEF Delivered, Attempting
  <1>2. CASE AppendUser(i) \/ GenerateDirect(i) \/ DropDirect(i) \/ StopPolling(i)
    <2>1. /\ \E q \in {"asking", "generated", "returned"} :
               pc' = [pc EXCEPT ![i] = q] /\ q = "generated" => ~ hooked
          /\ pc[i] \in {"numbered", "asking", "generated", "polling"}
          /\ pc[i] # "generated" \/ ~ hooked
          /\ UNCHANGED <<hooked, shown, faults>>
      BY <1>2 DEF AppendUser, GenerateDirect, DropDirect, StopPolling
    <2>2. QED
      BY <1>1, <1>2, <2>1 DEF AppendUser, GenerateDirect, DropDirect, StopPolling
  <1>3. CASE DeliverDirect(i) \/ DeliverPolled(i)
    <2>1. /\ pc' = [pc EXCEPT ![i] = "returned"] /\ shown' = [shown EXCEPT ![i] = @ + 1]
          /\ pc[i] \in {"generated", "polling"} /\ UNCHANGED <<hooked, faults>>
      BY <1>3 DEF DeliverDirect, DeliverPolled, OnDone
    <2>2. QED
      BY <1>1, <2>1
  <1>4. CASE Reserve(i) \/ EnqueueReply(i)
    <2>1. /\ \E q \in {"enqueuing", "reserved"} : pc' = [pc EXCEPT ![i] = q]
          /\ pc[i] \in {"asking", "enqueuing"} /\ hooked /\ UNCHANGED <<hooked, shown, faults>>
      BY <1>4 DEF Reserve, EnqueueReply
    <2>2. QED
      BY <1>1, <2>1
  <1>5. CASE EnqueueFails(i) \/ Watch(i) \/ FailInline(i)
    <2>1. /\ pc' = [pc EXCEPT ![i] = "polling"] /\ hooked
          /\ pc[i] \in {"enqueuing", "reserved", "inline", "generated", "completed"}
          /\ UNCHANGED <<hooked, shown>>
      BY <1>5 DEF EnqueueFails, Watch, FailInline
    <2>2. QED
      BY <1>1, <2>1
  <1>6. CASE ClaimInline(i)
    <2>1. job'[num[i]] = "inline" /\ pc'[i] = "inline" /\ hooked /\ shown[i] = 0
      BY <1>1, <1>6 DEF ClaimInline
    <2>2. QED
      BY <1>1, <1>6, <2>1 DEF ClaimInline
  <1>7. CASE GenerateInline(i) \/ CompleteInline(i)
    <2>1. /\ \E q \in {"generated", "completed", "delivered"} : pc' = [pc EXCEPT ![i] = q]
          /\ pc[i] \in {"inline", "generated"} /\ hooked
          /\ UNCHANGED <<hooked, num, job, shown, faults>>
      BY <1>7 DEF GenerateInline, CompleteInline
    <2>2. QED
      BY <1>1, <2>1
  <1>8. CASE DeliverInline(i)
    <2>1. /\ pc' = [pc EXCEPT ![i] = "delivered"] /\ shown' = [shown EXCEPT ![i] = @ + 1]
          /\ pc[i] = "completed" /\ UNCHANGED <<hooked, num, job, faults>>
      BY <1>8 DEF DeliverInline, OnDone
    <2>2. QED
      BY <1>1, <2>1
  <1>9. CASE FinishInline(i)
    BY <1>1, <1>9 DEF FinishInline
  <1>10. CASE LoseClaim(i)
    <2>1. faults'["claim"] = faults["claim"] + 1
      BY <1>10, FaultCounted DEF LoseClaim, Faults
    <2>2. UNCHANGED <<hooked, pc, num, shown>>
      BY <1>10 DEF LoseClaim
    <2>3. QED
      BY <1>1, <2>1, <2>2
  <1>11. QED
    BY <1>2, <1>3, <1>4, <1>5, <1>6, <1>7, <1>8, <1>9, <1>10 DEF GoesOnOf

(* It leaves the replies of the others alone: their jobs have other numbers. *)
LEMMA OthersDelivery ==
  ASSUME TypeOK, NumbersDistinct, NEW i \in Turns, GoesOnOf(i),
         NEW j \in Turns \ {i}, Delivered(j),
         faults'["claim"] \in Nat, faults'["claim"] >= faults["claim"]
  PROVE  Delivered(j)'
  <1> USE DEF socket, reply, memory, compaction
  <1>1. /\ Active(i)
        /\ pc' = pc \/ \E q \in Phase : pc' = [pc EXCEPT ![i] = q]
        /\ shown' = shown \/ shown' = [shown EXCEPT ![i] = @ + 1]
        /\ job' = job \/ \E v \in JobState : job' = [job EXCEPT ![num[i]] = v]
        /\ UNCHANGED <<hooked, num>>
    <2> USE DEF Active, Phase, JobState
    <2>1. CASE AppendUser(i) \/ GenerateDirect(i) \/ DropDirect(i) \/ StopPolling(i)
      BY <2>1 DEF AppendUser, GenerateDirect, DropDirect, StopPolling
    <2>2. CASE DeliverDirect(i) \/ DeliverPolled(i) \/ DeliverInline(i)
      BY <2>2 DEF DeliverDirect, DeliverPolled, DeliverInline, OnDone
    <2>3. CASE Reserve(i) \/ EnqueueReply(i) \/ ClaimInline(i) \/ Watch(i)
      BY <2>3 DEF Reserve, EnqueueReply, ClaimInline, Watch
    <2>4. CASE GenerateInline(i) \/ CompleteInline(i) \/ FinishInline(i)
      BY <2>4 DEF GenerateInline, CompleteInline, FinishInline
    <2>5. CASE EnqueueFails(i) \/ FailInline(i)
      BY <2>5 DEF EnqueueFails, FailInline, EndAttempt, Requeue
    <2>6. CASE LoseClaim(i)
      BY <2>6 DEF LoseClaim, Requeue, Attempting
    <2>7. QED
      BY <2>1, <2>2, <2>3, <2>4, <2>5, <2>6 DEF GoesOnOf
  <1>2. pc'[j] = pc[j] /\ shown'[j] = shown[j]
    BY <1>1 DEF TypeOK
  <1>3. ASSUME pc[j] \in Attempting
        PROVE  num'[j] = num[j] /\ job'[num[j]] = job[num[j]]
    <2>1. num[j] # num[i]
      BY <1>1, <1>3 DEF NumbersDistinct, Active, Attempting
    <2>2. num[j] \in Turns /\ num[i] \in Turns /\ DOMAIN job = Turns
      BY DEF TypeOK
    <2>3. QED
      BY <1>1, <2>1, <2>2
  <1>4. QED
    BY <1>1, <1>2, <1>3, DeliveryKept

LEMMA DeliveryStep ==
  ASSUME TypeOK, NumbersDistinct, JobsOwned, \A i \in Turns : Delivered(i), Next
  PROVE  (\A i \in Turns : Delivered(i))'
  <1> USE DEF vars, socket, memory, reply, compaction
  <1>1. /\ faults["claim"] \in Nat /\ faults'["claim"] \in Nat
        /\ faults'["claim"] >= faults["claim"]
    BY FaultsCounted DEF Faults
  <1>2. ASSUME UNCHANGED <<hooked, pc, num, shown>>,
               \A t \in Turns : job[t] = "inline" => job'[t] = "inline"
        PROVE  \A j \in Turns : Delivered(j)'
    <2>1. \A j \in Turns : num[j] \in Turns
      BY DEF TypeOK
    <2>2. QED
      BY <1>1, <1>2, <2>1, DeliveryKept
  <1>3. CASE Read
    <2>1. /\ read + 1 \in Turns /\ pc[read + 1] = "unread"
          /\ pc' = [pc EXCEPT ![read + 1] = "started"]
          /\ UNCHANGED <<hooked, num, job, shown, faults>>
      BY <1>3, TurnsFinite, ConversationAssumption DEF Read, Turns, NumbersDistinct, TypeOK
    <2>2. ASSUME NEW j \in Turns, j = read + 1
          PROVE  Delivered(j)'
      <3>1. pc[j] = "unread" /\ pc'[j] = "started" /\ shown'[j] = shown[j]
        BY <2>1, <2>2 DEF TypeOK
      <3>2. shown'[j] = 0
        BY <3>1 DEF Delivered
      <3>3. QED
        BY <1>1, <3>1, <3>2 DEF Delivered, Attempting
    <2>3. ASSUME NEW j \in Turns, j # read + 1
          PROVE  Delivered(j)'
      <3>1. pc'[j] = pc[j]
        BY <2>1, <2>3 DEF TypeOK
      <3>2. QED
        BY <1>1, <2>1, <3>1, DeliveryKept
    <2>4. QED
      BY <2>2, <2>3
  <1>4. CASE Disconnect
    BY <1>2, <1>4 DEF Disconnect
  <1>5. CASE Die
    <2>1. UNCHANGED <<hooked, num, shown>> /\ shown \in [Turns -> Nat]
      BY <1>5 DEF Die, TypeOK
    <2>2. \A j \in Turns : pc'[j] = "returned" \/ (pc'[j] = "unread" /\ pc[j] = "unread")
      BY <1>5 DEF Die
    <2>3. QED
      BY <1>1, <2>1, <2>2 DEF Delivered, Attempting
  <1>6. ASSUME NEW i \in Turns, NextTurn(i)
        PROVE  \A j \in Turns : Delivered(j)'
    <2>1. /\ pc[i] = "started" /\ pc' = [pc EXCEPT ![i] = "numbered"]
          /\ num' = [num EXCEPT ![i] = turn + 1]
          /\ UNCHANGED <<hooked, job, shown, faults>>
      BY <1>6 DEF NextTurn
    <2>2. Delivered(i)'
      BY <2>1 DEF Delivered, Attempting, TypeOK
    <2>3. ASSUME NEW j \in Turns, j # i
          PROVE  Delivered(j)'
      <3>1. pc'[j] = pc[j] /\ num'[j] = num[j]
        BY <2>1, <2>3 DEF TypeOK
      <3>2. QED
        BY <1>1, <2>1, <3>1, DeliveryKept
    <2>4. QED
      BY <2>2, <2>3
  <1>7. ASSUME NEW i \in Turns, GoesOnOf(i)
        PROVE  \A j \in Turns : Delivered(j)'
    BY <1>1, <1>7, OwnDelivery, OthersDelivery
  <1>8. ASSUME NEW t \in Turns, Work(t) \/ WorkerFails(t) \/ WorkerDies(t)
        PROVE  \A j \in Turns : Delivered(j)'
    <2>1. /\ UNCHANGED <<hooked, pc, num, shown>>
          /\ job[t] \in {"queued", "worker"}
          /\ job' = job \/ \E v \in JobState : job' = [job EXCEPT ![t] = v]
      BY <1>8 DEF Work, WorkerTakes, WorkerCompletes, WorkerEnds, WorkerFails, WorkerDies,
         EndAttempt, Requeue, JobsOwned, JobState
    <2>2. \A u \in Turns : job[u] = "inline" => job'[u] = "inline"
      BY <2>1 DEF TypeOK
    <2>3. QED
      BY <1>2, <2>1, <2>2
  <1>9. CASE StartCompaction
    BY <1>2, <1>9 DEF StartCompaction
  <1>10. ASSUME NEW k \in DOMAIN compactions, CommitCompaction(k) \/ DropCompaction(k)
         PROVE  \A j \in Turns : Delivered(j)'
    BY <1>2, <1>10 DEF CommitCompaction, DropCompaction
  <1>11. QED
    BY <1>3, <1>4, <1>5, <1>6, <1>7, <1>8, <1>9, <1>10 DEF Next, Turn, GoesOnOf

-----------------------------------------------------------------------------
LEMMA InitInv ==
  ASSUME Init
  PROVE  ConversationInv
  <1> USE DEF Init
  <1>1. 0 \in Turns /\ 0 \in Nat /\ Turns \subseteq Nat
    BY TurnsFinite
  <1>2. TypeOK
    BY <1>1 DEF TypeOK, Phase, Faults, Message, Compaction
  <1>3. NumbersDistinct
    <2>1. Started = {}
      BY DEF Started
    <2>2. Cardinality(Started) = 0
      BY <2>1, FS_EmptySet
    <2>3. QED
      BY <1>1, <2>2 DEF NumbersDistinct, Active
  <1>4. GreetingInv
    BY <1>1 DEF GreetingInv, GreetingFirst
  <1>5. JobsOwned
    BY <1>1 DEF JobsOwned
  <1>6. \A i \in Turns : Delivered(i)
    BY <1>1 DEF Delivered, Attempting, Faults
  <1>7. QED
    BY <1>2, <1>3, <1>4, <1>5, <1>6 DEF ConversationInv

(* The inductive invariant holds: numbers are handed out once, the         *)
(* greeting is over before the first text is read, a job has one executor  *)
(* and a reply one delivery per claim.                                     *)
THEOREM ConversationInvariant == Spec => []ConversationInv
  <1>1. Init => ConversationInv
    BY InitInv
  <1>2. ConversationInv /\ [Next]_vars => ConversationInv'
    <2> SUFFICES ASSUME ConversationInv, [Next]_vars
                 PROVE  ConversationInv'
      OBVIOUS
    <2>1. CASE Next
      BY <2>1, TypeStep, NumbersStep, GreetingStep, JobsStep, DeliveryStep DEF ConversationInv
    <2>2. CASE UNCHANGED vars
      BY <2>2 DEF vars, socket, memory, reply, compaction, ConversationInv, TypeOK,
         NumbersDistinct, Started, Active, GreetingInv, GreetingFirst, JobsOwned, Delivered
    <2>3. QED
      BY <2>1, <2>2
  <1>3. QED
    BY <1>1, <1>2, PTL DEF Spec

(* Every variable keeps to its type. *)
THEOREM ConversationTypes == Spec => []TypeOK
  BY ConversationInvariant, PTL DEF ConversationInv

(* The greeting, which StartConversation appends before the read loop      *)
(* starts, is first in the memory of the room.                             *)
THEOREM GreetingIsFirst == Spec => []GreetingFirst
  <1>1. ConversationInv => GreetingFirst
    BY DEF ConversationInv, GreetingInv
  <1>2. QED
    BY <1>1, ConversationInvariant, PTL

(* A reply is shown once, and once more for every claim lost after it was  *)
(* shown, whatever runs it: the turn itself, its inline job or a worker.   *)
THEOREM RepliesShown == Spec => []ShownOncePerClaim
  <1>1. ConversationInv => ShownOncePerClaim
    BY DEF ConversationInv, Delivered, ShownOncePerClaim
  <1>2. QED
    BY <1>1, ConversationInvariant, PTL
-----------------------------------------------------------------------------
(* The memory. *)
LEMMA AppendLast ==
  ASSUME NEW S, NEW s \in Seq(S), NEW h \in Seq(S), NEW m \in S
  PROVE  /\ s \o Append(h, m) = Append(s \o h, m)
         /\ Len(Append(h, m)) = Len(h) + 1
         /\ \A n \in 0 .. Len(h) : SubSeq(Append(h, m), 1, n) = SubSeq(h, 1, n)
  <1>1. <<m>> \in Seq(S) /\ s \o h \in Seq(S)
    BY ConcatProperties
  <1>2. Append(h, m) = h \o <<m>> /\ Append(s \o h, m) = (s \o h) \o <<m>>
    BY <1>1, AppendIsConcat
  <1>3. (s \o h) \o <<m>> = s \o (h \o <<m>>)
    BY <1>1, ConcatAssociative
  <1>4. /\ Append(h, m) \in Seq(S) /\ Len(Append(h, m)) = Len(h) + 1 /\ Len(h) \in Nat
        /\ \A i \in 1 .. Len(h) : Append(h, m)[i] = h[i] /\ h[i] \in S
    OBVIOUS
  <1>5. ASSUME NEW n \in 0 .. Len(h)
        PROVE  SubSeq(Append(h, m), 1, n) = SubSeq(h, 1, n)
    <2> DEFINE a == SubSeq(Append(h, m), 1, n)
               b == SubSeq(h, 1, n)
    <2>1. /\ a \in Seq(S) /\ Len(a) = n /\ \A i \in 1 .. n : a[i] = Append(h, m)[i]
          /\ b \in Seq(S) /\ Len(b) = n /\ \A i \in 1 .. n : b[i] = h[i]
      BY <1>4, SubSeqProperties
    <2> HIDE DEF a, b
    <2>2. Len(a) = Len(b) /\ \A i \in 1 .. Len(a) : a[i] = b[i]
      BY <1>4, <2>1
    <2>3. a = b
      BY <2>1, <2>2, SeqEqual
    <2>4. QED
      BY <2>3 DEF a, b
  <1>6. QED
    BY <1>2, <1>3, <1>4, <1>5

(* A prefix that moves from the window to the summary leaves the whole. *)
LEMMA PrefixMoves ==
  ASSUME NEW S, NEW s \in Seq(S), NEW h \in Seq(S), NEW n \in 0 .. Len(h)
  PROVE  (s \o SubSeq(h, 1, n)) \o SubSeq(h, n + 1, Len(h)) = s \o h
  <1> DEFINE a == SubSeq(h, 1, n)
             b == SubSeq(h, n + 1, Len(h))
  <1>1. a \in Seq(S) /\ b \in Seq(S)
    BY SubSeqProperties
  <1>2. a \o b = SubSeq(h, 1, Len(h))
    <2>1. /\ Len(h) \in Nat /\ 1 \in 1 .. Len(h) + 1
          /\ n \in (1 - 1) .. Len(h) /\ Len(h) \in n .. Len(h)
      OBVIOUS
    <2>2. QED
      BY <2>1, ConcatAdjacentSubSeq
  <1>3. SubSeq(h, 1, Len(h)) = h
    BY SubSeqFull
  <1> HIDE DEF a, b
  <1>4. (s \o a) \o b = s \o (a \o b)
    BY <1>1, ConcatAssociative
  <1>5. QED
    BY <1>2, <1>3, <1>4 DEF a, b

LEMMA MemoryStep ==
  ASSUME TypeOK, OneCompaction, MemoryKept, Next, faults'["overlap"] = faults["overlap"]
  PROVE  OneCompaction' /\ MemoryKept'
  <1> USE DEF vars, socket, memory, reply, compaction
  <1>1. /\ history \in Seq(Message) /\ summary \in Seq(Message) /\ log \in Seq(Message)
        /\ compactions \in Seq(Compaction) /\ Len(history) \in Nat
        /\ Len(compactions) \in Nat /\ DOMAIN compactions = 1 .. Len(compactions)
    BY DEF TypeOK
  <1>2. ASSUME UNCHANGED <<history, summary, log, compactions>>
        PROVE  OneCompaction' /\ MemoryKept'
    BY <1>2 DEF OneCompaction, MemoryKept
  <1>3. ASSUME NEW i \in Turns, NEW author \in {"user", "assistant"}, Append1(i, author),
               UNCHANGED compactions
        PROVE  OneCompaction' /\ MemoryKept'
    <2> DEFINE m == <<num[i], author>>
    <2>1. /\ m \in Message /\ history' = Append(history, m) /\ log' = Append(log, m)
          /\ UNCHANGED <<summary, compactions>>
      BY <1>3 DEF Append1, Message, TypeOK
    <2> HIDE DEF m
    <2>2. /\ summary \o Append(history, m) = Append(summary \o history, m)
          /\ Len(Append(history, m)) = Len(history) + 1
          /\ \A n \in 0 .. Len(history) :
               SubSeq(Append(history, m), 1, n) = SubSeq(history, 1, n)
      BY <1>1, <2>1, AppendLast
    <2>3. \A k \in DOMAIN compactions :
            /\ Len(compactions[k].old) \in 0 .. Len(history)
            /\ compactions[k].old = SubSeq(history, 1, Len(compactions[k].old))
            /\ compactions[k].base = summary
      BY <1>1, CompactionTyped DEF OneCompaction
    <2>4. \A k \in DOMAIN compactions' :
            /\ compactions'[k].base = summary'
            /\ Len(compactions'[k].old) <= Len(history')
            /\ compactions'[k].old = SubSeq(history', 1, Len(compactions'[k].old))
      BY <1>1, <2>1, <2>2, <2>3
    <2>5. Len(compactions') <= 1
      BY <2>1 DEF OneCompaction
    <2>6. MemoryKept'
      BY <2>1, <2>2 DEF MemoryKept
    <2>7. QED
      BY <2>4, <2>5, <2>6 DEF OneCompaction
  <1>4. ASSUME compactions' = <<>>, summary' \o history' = log'
        PROVE  OneCompaction' /\ MemoryKept'
    BY <1>4 DEF OneCompaction, MemoryKept
  <1>5. CASE Read \/ Disconnect
    BY <1>2, <1>5 DEF Read, Disconnect
  <1>6. CASE Die
    BY <1>4, <1>6 DEF Die, MemoryKept
  <1>7. ASSUME NEW i \in Turns,
               \/ Turn(i) \/ EnqueueFails(i) \/ FailInline(i) \/ LoseClaim(i)
               \/ DeliverPolled(i) \/ StopPolling(i)
        PROVE  \/ UNCHANGED <<history, summary, log, compactions>>
               \/ UNCHANGED compactions /\ \E author \in {"user", "assistant"} : Append1(i, author)
    <2>1. CASE AppendUser(i)
      BY <2>1 DEF AppendUser
    <2>2. CASE DeliverDirect(i) \/ DeliverInline(i) \/ DeliverPolled(i)
      BY <2>2 DEF DeliverDirect, DeliverInline, DeliverPolled, OnDone
    <2>3. CASE NextTurn(i) \/ GenerateDirect(i) \/ DropDirect(i) \/ Reserve(i)
      BY <2>3 DEF NextTurn, GenerateDirect, DropDirect, Reserve
    <2>4. CASE EnqueueReply(i) \/ ClaimInline(i) \/ Watch(i) \/ GenerateInline(i)
      BY <2>4 DEF EnqueueReply, ClaimInline, Watch, GenerateInline
    <2>5. CASE CompleteInline(i) \/ FinishInline(i) \/ EnqueueFails(i)
      BY <2>5 DEF CompleteInline, FinishInline, EnqueueFails
    <2>6. CASE FailInline(i) \/ LoseClaim(i) \/ StopPolling(i)
      BY <2>6 DEF FailInline, LoseClaim, StopPolling
    <2>7. QED
      BY <1>7, <2>1, <2>2, <2>3, <2>4, <2>5, <2>6 DEF Turn
  <1>8. ASSUME NEW t \in Turns, Work(t) \/ WorkerFails(t) \/ WorkerDies(t)
        PROVE  OneCompaction' /\ MemoryKept'
    <2>1. UNCHANGED <<history, summary, log, compactions>>
      BY <1>8 DEF Work, WorkerTakes, WorkerCompletes, WorkerEnds, WorkerFails, WorkerDies
    <2>2. QED
      BY <1>2, <2>1
  <1>9. CASE StartCompaction
    <2>1. ~ Overlap
      BY FaultCounted DEF TypeOK, Faults
    <2>2. \/ UNCHANGED <<history, summary, log, compactions>>
          \/ /\ compactions' = Append(compactions, [old |-> Oldest, base |-> summary])
             /\ compactions = <<>> /\ UNCHANGED <<history, summary, log>>
      BY <1>9, <2>1 DEF StartCompaction
    <2>3. CASE compactions = <<>>
               /\ compactions' = Append(compactions, [old |-> Oldest, base |-> summary])
               /\ UNCHANGED <<history, summary, log>>
      <3> DEFINE c == [old |-> Oldest, base |-> summary]
      <3>1. compactions' = <<c>>
        BY <2>3
      <3>2. c.base = summary /\ c.old = Oldest
        OBVIOUS
      <3> HIDE DEF c
      <3>3. Len(compactions') = 1 /\ DOMAIN compactions' = {1} /\ compactions'[1] = c
        BY <3>1
      <3>4. QED
        BY <2>3, <3>2, <3>3, OldestTyped DEF OneCompaction, MemoryKept
    <2>4. QED
      BY <1>2, <2>2, <2>3
  <1>10. ASSUME NEW k \in DOMAIN compactions, CommitCompaction(k) \/ DropCompaction(k)
         PROVE  OneCompaction' /\ MemoryKept'
    <2> DEFINE c == compactions[k]
               n == Len(c.old)
    <2>1. compactions' = RemoveAt(compactions, k)
      BY <1>10 DEF CommitCompaction, DropCompaction
    <2>2. DOMAIN compactions' = {} /\ compactions' \in Seq(Compaction)
      <3>1. Len(compactions) = 1
        BY <1>1 DEF OneCompaction
      <3>2. /\ DOMAIN RemoveAt(compactions, k) = 1 .. Len(compactions) - 1
            /\ RemoveAt(compactions, k) \in Seq(Compaction)
        BY <1>1, RemoveAtElements
      <3>3. QED
        BY <2>1, <3>1, <3>2
    <2>3. compactions' = <<>>
      BY <2>2
    <2>4. /\ c.base = summary /\ c.old = SubSeq(history, 1, n)
          /\ n \in 0 .. Len(history)
      BY <1>1, CompactionTyped DEF OneCompaction
    <2>5. CASE CommitCompaction(k)
      <3>1. /\ summary' = summary \o SubSeq(history, 1, n)
            /\ history' = SubSeq(history, n + 1, Len(history))
            /\ log' = log
        BY <2>4, <2>5 DEF CommitCompaction, ApplyCompaction
      <3>2. summary' \o history' = log'
        <4> HIDE DEF n
        <4>1. (summary \o SubSeq(history, 1, n)) \o SubSeq(history, n + 1, Len(history))
                = summary \o history
          BY <1>1, <2>4, PrefixMoves
        <4>2. QED
          BY <3>1, <4>1 DEF MemoryKept
      <3>3. QED
        BY <1>4, <2>3, <3>2
    <2>6. CASE DropCompaction(k)
      <3>1. summary' \o history' = log'
        BY <2>6 DEF DropCompaction, MemoryKept
      <3>2. QED
        BY <1>4, <2>3, <3>1
    <2>7. QED
      BY <1>10, <2>5, <2>6
  <1>11. QED
    BY <1>2, <1>3, <1>5, <1>6, <1>7, <1>8, <1>9, <1>10 DEF Next

(* As long as no compaction has begun while another one was running, the   *)
(* room has forgotten nothing: the summary and the window are the whole    *)
(* conversation in order, however the turns, their replies and the one     *)
(* compaction interleave.                                                  *)
THEOREM NothingForgotten == Spec => [](faults["overlap"] = 0 => MemoryKept)
  <1> DEFINE Inv == faults["overlap"] = 0 => OneCompaction /\ MemoryKept
  <1>1. Init => Inv
    BY ConcatEmptySeq DEF Init, OneCompaction, MemoryKept
  <1>2. ConversationInv /\ Inv /\ [Next]_vars => Inv'
    <2>1. ConversationInv /\ Inv /\ Next => Inv'
      <3> SUFFICES ASSUME ConversationInv, Inv, Next, faults'["overlap"] = 0
                   PROVE  OneCompaction' /\ MemoryKept'
        OBVIOUS
      <3>1. faults["overlap"] = 0
        BY FaultsCounted DEF ConversationInv, Faults
      <3>2. QED
        BY <3>1, MemoryStep DEF ConversationInv
    <2>2. Inv /\ UNCHANGED vars => Inv'
      BY DEF vars, memory, compaction, OneCompaction, MemoryKept
    <2>3. QED
      BY <2>1, <2>2
  <1>3. QED
    BY <1>1, <1>2, ConversationInvariant, PTL DEF Spec
=============================================================================
