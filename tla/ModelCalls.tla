----------------------------- MODULE ModelCalls -----------------------------
(***************************************************************************)
(* runModelCall of apps/server/internal/pipeline/pipeline_llm.go: a branch *)
(* of a job's handler gives up its slot (WorkSlot), goes through the queue *)
(* of its model (CallQueue), and takes a slot again when it has returned.  *)
(* Each branch makes one call, and some models never answer.               *)
(***************************************************************************)
EXTENDS WorkSlot

CONSTANTS
  Calls,     \* the branches that make a call: jobs differ in how many
  Models,    \* queue keys (modelCallKey)
  ModelOf,   \* the model each branch calls
  Stuck,     \* the models that never answer
  MaxAborts, \* bound: contexts that end
  NoLane     \* no *callLane

ASSUME CallsAssumption ==
  /\ Calls \subseteq Handlers \X Branches
  /\ ModelOf \in [Calls -> Models]
  /\ Stuck \subseteq Models
  /\ MaxAborts \in Nat
  /\ NoLane \notin Calls

VARIABLES lanes, waiters, call, lane, started, ticket, clock, aborts

queue == <<lanes, waiters, call, lane, started, ticket, clock>>
allVars == <<vars, queue, aborts>>

(* The queue sees the branch's context.  All calls have ordinary priority. *)
Q == INSTANCE CallQueue WITH
       Keys <- Models, pc <- call, key <- ModelOf, background <- {},
       canceled <- {hb \in Calls : ContextDone(hb[1], hb[2])}

-----------------------------------------------------------------------------
CallsInit == Init /\ Q!Init /\ aborts = 0

(* Wait parks the branch, whose call then runs inside it. *)
Call(h, b) ==
  \/ /\ call[h, b] = "idle"
     /\ Park(h, b)
     /\ UNCHANGED <<queue, aborts>>
  \/ /\ br[h, b] = "parked"
     /\ UNCHANGED <<vars, aborts>>
     /\ Q!Do(<<h, b>>) \/ Q!Step(<<h, b>>)

(* Do returned: Wait resumes the branch. *)
CallReturned(h, b) ==
  /\ call[h, b] = "done"
  /\ Resume(h, b)
  /\ UNCHANGED <<queue, aborts>>

Slot(h, b) ==
  /\ Fork(h, b) \/ Join(h, b) \/ Reacquire(h, b) \/ ReacquireCanceled(h, b)
  /\ UNCHANGED <<queue, aborts>>

Job(h) ==
  /\ Run(h) \/ (h \in canceled /\ NotRun(h)) \/ Return(h)
  /\ UNCHANGED <<queue, aborts>>

ClaimLoop(l) ==
  /\ \E h \in Handlers : Admit(l, h)
  /\ UNCHANGED <<queue, aborts>>

Abort ==
  /\ \/ \E h \in Handlers : CancelRun(h)
     \/ \E hb \in Calls : CancelCall(hb[1], hb[2])
  /\ aborts < MaxAborts
  /\ aborts' = aborts + 1
  /\ UNCHANGED queue

CallsNext ==
  \/ Abort
  \/ \E l \in Loops : ClaimLoop(l)
  \/ \E h \in Handlers : Job(h)
  \/ \E hb \in Calls :
       Call(hb[1], hb[2]) \/ CallReturned(hb[1], hb[2]) \/ Slot(hb[1], hb[2])

CallsSpec == CallsInit /\ [][CallsNext]_allVars

(* The claim loops, the handlers' own code and the calls to models that    *)
(* answer go on; nobody has to cancel, and a stuck model need not answer.  *)
CallsFairness ==
  /\ \A l \in Loops : WF_allVars(ClaimLoop(l))
  /\ \A h \in Handlers : WF_allVars(Job(h))
  /\ \A hb \in Calls :
       /\ WF_allVars(Slot(hb[1], hb[2]))
       /\ WF_allVars(CallReturned(hb[1], hb[2]))
       /\ WF_allVars((call[hb] = "running" => ModelOf[hb] \notin Stuck)
                       /\ Call(hb[1], hb[2]))

CallsFairSpec == CallsSpec /\ CallsFairness

-----------------------------------------------------------------------------
(* "A slow endpoint must not occupy a worker slot while other jobs can use *)
(* healthy models" (pipeline_llm.go, runModelCall): whatever never answers,*)
(* a job that calls only models that do ends.                              *)
HealthyJobsEnd ==
  <>(\A h \in Handlers :
       (\A hb \in Calls : hb[1] = h => ModelOf[hb] \notin Stuck) => pc[h] = "done")
=============================================================================
