------------------------------ MODULE WorkSlot ------------------------------
(***************************************************************************)
(* The slot pool of apps/server/internal/workslot/slot.go and the claim    *)
(* loops of asyncjob/worker.go that admit jobs to it.  A job's handler     *)
(* holds one slot; the branches it runs in parallel give the slot up while *)
(* any of them waits for a model, and the last one to return takes it back *)
(* before it continues.                                                    *)
(*                                                                         *)
(* Every section under s.mu is one atomic action, except that resume keeps *)
(* s.mu while it blocks on the pool.  acquire's send and its second look   *)
(* at the context are one action: a slot that acquire takes and gives back *)
(* is seen by nobody, it can only delay.                                   *)
(***************************************************************************)
EXTENDS Integers, FiniteSets

CONSTANTS
  Handlers,   \* jobs whose handler one worker process runs
  Branches,   \* parallel calls inside one handler (fanOutOrdered)
  Loops,      \* claimLoop goroutines: the worker's concurrency
  Size,       \* cap(p.active)
  NoHandler,  \* a claimLoop that has admitted nothing
  NoBranch    \* s.mu is free

ASSUME SlotAssumption ==
  /\ Size \in Nat \ {0}
  /\ NoHandler \notin Handlers
  /\ NoBranch \notin Branches
  /\ IsFiniteSet(Branches)

VARIABLES
  active,    \* len(p.active)
  pc,        \* where each handler is
  held,      \* handlers with s.held
  waiting,   \* s.waiting
  mu,        \* the branch that keeps s.mu while it resumes
  br,        \* where each branch is
  yielded,   \* handlers whose yielded channel is closed
  admitted,  \* the handler each claimLoop waits for
  canceled,  \* handlers whose context is done, with all derived from it
  aborted,   \* waiting branches whose call's own context is done
  lost       \* history: handlers whose last branch resumed without a slot

contexts == <<canceled, aborted>>
vars == <<active, pc, held, waiting, mu, br, yielded, admitted, canceled, aborted,
          lost>>

Phase == {"queued", "admitted", "working", "done"}
BranchPhase == {"ready", "computing", "parked", "resuming", "joined"}

ContextDone(h, b) == h \in canceled \/ <<h, b>> \in aborted

-----------------------------------------------------------------------------
Init ==
  /\ active = 0
  /\ pc = [h \in Handlers |-> "queued"]
  /\ held = {}
  /\ waiting = [h \in Handlers |-> 0]
  /\ mu = [h \in Handlers |-> NoBranch]
  /\ br = [hb \in Handlers \X Branches |-> "ready"]
  /\ yielded = {}
  /\ admitted = [l \in Loops |-> NoHandler]
  /\ canceled = {}
  /\ aborted = {}
  /\ lost = {}

(* Mutation of Admit: the claim loop does not wait for the yield. *)
AdmitAtOnce(l, h) ==
  /\ pc[h] = "queued"
  /\ pc' = [pc EXCEPT ![h] = "admitted"]
  /\ admitted' = [admitted EXCEPT ![l] = h]
  /\ UNCHANGED <<active, held, waiting, mu, br, yielded, contexts, lost>>

(* claimLoop: the next job is admitted when the last one has yielded. *)
Admit(l, h) ==
  /\ admitted[l] # NoHandler => admitted[l] \in yielded
  /\ pc[h] = "queued"
  /\ pc' = [pc EXCEPT ![h] = "admitted"]
  /\ admitted' = [admitted EXCEPT ![l] = h]
  /\ UNCHANGED <<active, held, waiting, mu, br, yielded, contexts, lost>>

(* Run reserves a slot... *)
Run(h) ==
  /\ pc[h] = "admitted"
  /\ h \notin canceled
  /\ active < Size
  /\ active' = active + 1
  /\ held' = held \cup {h}
  /\ pc' = [pc EXCEPT ![h] = "working"]
  /\ UNCHANGED <<waiting, mu, br, yielded, admitted, contexts, lost>>

(* ... unless the job's claim is lost or its context ends before that. *)
NotRun(h) ==
  /\ pc[h] = "admitted"
  /\ pc' = [pc EXCEPT ![h] = "done"]
  /\ yielded' = yielded \cup {h}
  /\ UNCHANGED <<active, held, waiting, mu, br, admitted, contexts, lost>>

(* The handler's own code: it starts its branches, and joins them. *)
Fork(h, b) ==
  /\ pc[h] = "working"
  /\ br[<<h, b>>] = "ready"
  /\ br' = [br EXCEPT ![<<h, b>>] = "computing"]
  /\ UNCHANGED <<active, pc, held, waiting, mu, yielded, admitted, contexts, lost>>

Join(h, b) ==
  /\ br[<<h, b>>] = "computing"
  /\ br' = [br EXCEPT ![<<h, b>>] = "joined"]
  /\ UNCHANGED <<active, pc, held, waiting, mu, yielded, admitted, contexts, lost>>

(* Mutation of Park: the slot is kept while the model answers. *)
ParkHolding(h, b) ==
  /\ br[<<h, b>>] = "computing"
  /\ mu[h] = NoBranch
  /\ br' = [br EXCEPT ![<<h, b>>] = "parked"]
  /\ waiting' = [waiting EXCEPT ![h] = @ + 1]
  /\ yielded' = yielded \cup {h}
  /\ UNCHANGED <<active, held, pc, mu, admitted, contexts, lost>>

(* Wait: the slot goes back once, and the first wait lets claimLoop go on. *)
Park(h, b) ==
  /\ br[<<h, b>>] = "computing"
  /\ mu[h] = NoBranch
  /\ br' = [br EXCEPT ![<<h, b>>] = "parked"]
  /\ waiting' = [waiting EXCEPT ![h] = @ + 1]
  /\ active' = IF h \in held THEN active - 1 ELSE active
  /\ held' = held \ {h}
  /\ yielded' = yielded \cup {h}
  /\ UNCHANGED <<pc, mu, admitted, contexts, lost>>

(* Mutation of Resume: s.mu is released before the pool is asked. *)
ResumeUnlocked(h, b) ==
  /\ br[<<h, b>>] = "parked"
  /\ waiting' = [waiting EXCEPT ![h] = @ - 1]
  /\ br' = [br EXCEPT ![<<h, b>>] = IF waiting[h] = 1 THEN "resuming" ELSE "computing"]
  /\ UNCHANGED <<active, pc, held, mu, yielded, admitted, contexts, lost>>

(* The model call returned.  Only the last branch to come back takes the   *)
(* slot, and it keeps s.mu until it has it.                                *)
Resume(h, b) ==
  /\ br[<<h, b>>] = "parked"
  /\ mu[h] = NoBranch
  /\ waiting' = [waiting EXCEPT ![h] = @ - 1]
  /\ IF waiting[h] = 1
     THEN /\ mu' = [mu EXCEPT ![h] = b]
          /\ br' = [br EXCEPT ![<<h, b>>] = "resuming"]
          /\ UNCHANGED aborted
     ELSE /\ br' = [br EXCEPT ![<<h, b>>] = "computing"]
          /\ aborted' = aborted \ {<<h, b>>}
          /\ UNCHANGED mu
  /\ UNCHANGED <<active, pc, held, yielded, admitted, canceled, lost>>

Reacquire(h, b) ==
  /\ br[<<h, b>>] = "resuming"
  /\ ~ ContextDone(h, b)
  /\ active < Size
  /\ active' = active + 1
  /\ held' = held \cup {h}
  /\ mu' = [mu EXCEPT ![h] = NoBranch]
  /\ br' = [br EXCEPT ![<<h, b>>] = "computing"]
  /\ aborted' = aborted \ {<<h, b>>}
  /\ lost' = lost \ {h}
  /\ UNCHANGED <<pc, waiting, yielded, admitted, canceled>>

(* Its context ended first: Wait returns the error, without the slot. *)
ReacquireCanceled(h, b) ==
  /\ br[<<h, b>>] = "resuming"
  /\ ContextDone(h, b)
  /\ mu' = [mu EXCEPT ![h] = NoBranch]
  /\ br' = [br EXCEPT ![<<h, b>>] = "computing"]
  /\ lost' = lost \cup {h}
  /\ aborted' = aborted \ {<<h, b>>}
  /\ UNCHANGED <<active, pc, held, waiting, yielded, admitted, canceled>>

(* Run's deferred release, after work has joined every branch. *)
Return(h) ==
  /\ pc[h] = "working"
  /\ \A b \in Branches : br[<<h, b>>] \in {"ready", "joined"}
  /\ pc' = [pc EXCEPT ![h] = "done"]
  /\ active' = IF h \in held THEN active - 1 ELSE active
  /\ held' = held \ {h}
  /\ yielded' = yielded \cup {h}
  /\ UNCHANGED <<waiting, mu, br, admitted, contexts, lost>>

(* The context of one model call ends (workguard.run cancels it, and drops *)
(* it with the call), or the handler's does (runWithLease).                *)
CancelCall(h, b) ==
  /\ br[<<h, b>>] \in {"parked", "resuming"}
  /\ ~ ContextDone(h, b)
  /\ aborted' = aborted \cup {<<h, b>>}
  /\ UNCHANGED <<active, pc, held, waiting, mu, br, yielded, admitted, canceled, lost>>

CancelRun(h) ==
  /\ pc[h] \in {"admitted", "working"}
  /\ h \notin canceled
  /\ canceled' = canceled \cup {h}
  /\ UNCHANGED <<active, pc, held, waiting, mu, br, yielded, admitted, aborted, lost>>

-----------------------------------------------------------------------------
Next ==
  \/ \E l \in Loops, h \in Handlers : Admit(l, h)
  \/ \E h \in Handlers : Run(h) \/ NotRun(h) \/ Return(h) \/ CancelRun(h)
  \/ \E h \in Handlers, b \in Branches :
       \/ Fork(h, b) \/ Join(h, b)
       \/ Park(h, b) \/ Resume(h, b)
       \/ Reacquire(h, b) \/ ReacquireCanceled(h, b)
       \/ CancelCall(h, b)

Spec == Init /\ [][Next]_vars

-----------------------------------------------------------------------------
(* Every variable keeps to its type. *)
TypeOK ==
  /\ active \in 0 .. Size
  /\ pc \in [Handlers -> Phase]
  /\ held \subseteq Handlers
  /\ waiting \in [Handlers -> Nat]
  /\ mu \in [Handlers -> Branches \cup {NoBranch}]
  /\ br \in [Handlers \X Branches -> BranchPhase]
  /\ yielded \subseteq Handlers
  /\ admitted \in [Loops -> Handlers \cup {NoHandler}]
  /\ canceled \subseteq Handlers
  /\ aborted \subseteq Handlers \X Branches
  /\ lost \subseteq Handlers

(* No slot leaks and none is taken twice, however the branches' waits       *)
(* overlap and fail: the pool counts the handlers that hold one.  And a    *)
(* handler holds its slot exactly while none of its branches waits: a      *)
(* parked handler leaves room for another job, and "the final return       *)
(* restores the slot before its caller continues" (slot.go, Wait).  A      *)
(* branch whose context ended resumes without.                             *)
HeldUnlessWaiting ==
  /\ active = Cardinality(held)
  /\ \A h \in Handlers : pc[h] = "working" =>
       LET waits == \E b \in Branches : br[<<h, b>>] \in {"parked", "resuming"}
       IN  /\ waits => h \notin held
           /\ ~ waits /\ h \notin lost => h \in held

(* Only jobs parked in a model call grow with the backlog: those preparing *)
(* work or waiting for their first slot are one per claim loop (worker.go, *)
(* claimLoop).                                                             *)
AdmissionBounded ==
  \A h \in Handlers \ yielded :
    pc[h] \in {"admitted", "working"} => \E l \in Loops : admitted[l] = h
=============================================================================
