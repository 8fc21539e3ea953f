--------------------------- MODULE WorkSlotProofs ---------------------------
(***************************************************************************)
(* Proofs about WorkSlot for any handlers, claim loops and size of the     *)
(* pool, and any finite set of branches; and about its composition with    *)
(* the models' queues, ModelCalls, for any calls and models.               *)
(***************************************************************************)
EXTENDS ModelCalls, FiniteSetTheorems, TLAPS

Parked(h) == {b \in Branches : br[<<h, b>>] = "parked"}

Waits(h) == \E b \in Branches : br[<<h, b>>] \in {"parked", "resuming"}

(* The pool counts the handlers that hold a slot. *)
Counted == IsFiniteSet(held) /\ active = Cardinality(held)

(* s.waiting counts the branches in Wait, but for the one that resumes. *)
WaitsCounted == \A h \in Handlers : waiting[h] = Cardinality(Parked(h))

(* s.mu is kept by the branch that resumes and by no other, and while it   *)
(* is kept no branch can start to wait.                                    *)
ResumesAlone ==
  \A h \in Handlers :
    /\ \A b \in Branches : br[<<h, b>>] = "resuming" <=> mu[h] = b
    /\ mu[h] # NoBranch => Parked(h) = {}

(* A handler that does not work has no branch that does, and no slot. *)
Idle ==
  \A h \in Handlers : pc[h] # "working" =>
    /\ h \notin held
    /\ \A b \in Branches : br[<<h, b>>] \in {"ready", "joined"}

(* One that works holds its slot exactly while nothing waits. *)
Holds ==
  \A h \in Handlers : pc[h] = "working" =>
    /\ Waits(h) => h \notin held
    /\ ~ Waits(h) /\ h \notin lost => h \in held

SlotInv ==
  /\ TypeOK
  /\ Counted
  /\ WaitsCounted
  /\ ResumesAlone
  /\ Idle
  /\ Holds

-----------------------------------------------------------------------------
LEMMA ParkedFinite ==
  ASSUME NEW h
  PROVE  IsFiniteSet(Parked(h)) /\ IsFiniteSet(Parked(h)')
  <1>1. Parked(h) \in SUBSET Branches /\ Parked(h)' \in SUBSET Branches
    BY DEF Parked
  <1>2. QED
    BY <1>1, FS_Subset, SlotAssumption

(* Steps that leave the slots, the waits and the locks alone. *)
LEMMA SameParked ==
  ASSUME SlotInv, UNCHANGED <<active, held, waiting, mu>>,
         br' \in [Handlers \X Branches -> BranchPhase],
         \A h \in Handlers, b \in Branches :
           \/ br'[<<h, b>>] = br[<<h, b>>]
           \/ {br[<<h, b>>], br'[<<h, b>>]} \subseteq {"ready", "computing", "joined"}
  PROVE  /\ Counted' /\ WaitsCounted' /\ ResumesAlone'
         /\ \A h \in Handlers : Waits(h)' <=> Waits(h)
  <1>1. \A h \in Handlers : Parked(h)' = Parked(h)
    BY DEF Parked
  <1>2. Counted'
    BY DEF SlotInv, Counted
  <1>3. WaitsCounted'
    BY <1>1 DEF SlotInv, WaitsCounted
  <1>4. ResumesAlone'
    BY <1>1 DEF SlotInv, ResumesAlone
  <1>5. \A h \in Handlers : Waits(h)' <=> Waits(h)
    BY DEF Waits
  <1>6. QED
    BY <1>2, <1>3, <1>4, <1>5

LEMMA SlotInit == Init => SlotInv
  <1> SUFFICES ASSUME Init
               PROVE  SlotInv
    OBVIOUS
  <1> USE SlotAssumption DEF Init
  <1>1. TypeOK
    BY DEF TypeOK, Phase, BranchPhase
  <1>2. Counted
    BY FS_EmptySet DEF Counted
  <1>3. \A h \in Handlers : Parked(h) = {}
    BY DEF Parked
  <1>4. WaitsCounted
    BY <1>3, FS_EmptySet DEF WaitsCounted
  <1>5. ResumesAlone
    BY <1>3 DEF ResumesAlone
  <1>6. Idle /\ Holds
    BY DEF Idle, Holds
  <1>7. QED
    BY <1>1, <1>2, <1>4, <1>5, <1>6 DEF SlotInv

-----------------------------------------------------------------------------
LEMMA AdmitStep ==
  ASSUME SlotInv, NEW l \in Loops, NEW h \in Handlers, Admit(l, h)
  PROVE  SlotInv'
  <1> USE DEF Admit, SlotInv, contexts
  <1>1. TypeOK'
    BY DEF TypeOK, Phase
  <1>2. /\ Counted' /\ WaitsCounted' /\ ResumesAlone'
        /\ \A g \in Handlers : Waits(g)' <=> Waits(g)
    BY SameParked DEF TypeOK
  <1>3. Idle'
    BY DEF Idle, TypeOK
  <1>4. Holds'
    BY <1>2 DEF Holds, TypeOK
  <1>5. QED
    BY <1>1, <1>2, <1>3, <1>4

(* Taking a slot that is free, and giving one back. *)
LEMMA SlotTaken ==
  ASSUME SlotInv, NEW h \in Handlers, h \notin held, active < Size,
         active' = active + 1, held' = held \cup {h}
  PROVE  Counted' /\ active' \in 0 .. Size
  BY FS_AddElement, SlotAssumption DEF SlotInv, Counted, TypeOK

LEMMA SlotReturned ==
  ASSUME SlotInv, NEW h \in Handlers,
         active' = IF h \in held THEN active - 1 ELSE active, held' = held \ {h}
  PROVE  Counted' /\ active' \in 0 .. Size
  <1>1. /\ IsFiniteSet(held)
        /\ IsFiniteSet(held \ {h})
        /\ Cardinality(held \ {h}) =
             IF h \in held THEN Cardinality(held) - 1 ELSE Cardinality(held)
    BY FS_RemoveElement DEF SlotInv, Counted
  <1>2. Cardinality(held \ {h}) \in Nat
    BY <1>1, FS_CardinalityType
  <1>3. QED
    BY <1>1, <1>2, SlotAssumption DEF SlotInv, Counted, TypeOK

LEMMA RunStep ==
  ASSUME SlotInv, NEW h \in Handlers, Run(h)
  PROVE  SlotInv'
  <1> USE DEF Run, SlotInv, contexts
  <1>1. h \notin held /\ ~ Waits(h)
    BY DEF Idle, Waits
  <1>2. Counted' /\ active' \in 0 .. Size
    BY <1>1, SlotTaken
  <1>3. TypeOK'
    BY <1>2 DEF TypeOK, Phase
  <1>4. \A g \in Handlers : Parked(g)' = Parked(g) /\ (Waits(g)' <=> Waits(g))
    BY DEF Parked, Waits
  <1>5. WaitsCounted' /\ ResumesAlone'
    BY <1>4 DEF WaitsCounted, ResumesAlone
  <1>6. Idle'
    BY DEF Idle, TypeOK
  <1>7. Holds'
    BY <1>1, <1>4 DEF Holds, TypeOK
  <1>8. QED
    BY <1>2, <1>3, <1>5, <1>6, <1>7

LEMMA HandlerStep ==
  ASSUME SlotInv, NEW h \in Handlers, NotRun(h) \/ CancelRun(h)
  PROVE  SlotInv'
  <1> USE DEF NotRun, CancelRun, SlotInv, contexts
  <1>1. TypeOK'
    BY DEF TypeOK, Phase
  <1>2. /\ Counted' /\ WaitsCounted' /\ ResumesAlone'
        /\ \A g \in Handlers : Waits(g)' <=> Waits(g)
    BY SameParked DEF TypeOK
  <1>3. Idle'
    BY DEF Idle, TypeOK
  <1>4. Holds'
    BY <1>2 DEF Holds, TypeOK
  <1>5. QED
    BY <1>1, <1>2, <1>3, <1>4

LEMMA ReturnStep ==
  ASSUME SlotInv, NEW h \in Handlers, Return(h)
  PROVE  SlotInv'
  <1> USE DEF Return, SlotInv, contexts
  <1>1. Counted' /\ active' \in 0 .. Size
    BY SlotReturned
  <1>2. TypeOK'
    BY <1>1 DEF TypeOK, Phase
  <1>3. \A g \in Handlers : Parked(g)' = Parked(g) /\ (Waits(g)' <=> Waits(g))
    BY DEF Parked, Waits
  <1>4. WaitsCounted' /\ ResumesAlone'
    BY <1>3 DEF WaitsCounted, ResumesAlone
  <1>5. Idle'
    BY DEF Idle, TypeOK
  <1>6. Holds'
    BY <1>3 DEF Holds, TypeOK
  <1>7. QED
    BY <1>1, <1>2, <1>4, <1>5, <1>6

-----------------------------------------------------------------------------
(* A branch that is under way belongs to a handler that works. *)
LEMMA BranchWorks ==
  ASSUME SlotInv, NEW h \in Handlers, NEW b \in Branches,
         br[<<h, b>>] \in {"computing", "parked", "resuming"}
  PROVE  pc[h] = "working"
  BY DEF SlotInv, Idle

LEMMA ComputeStep ==
  ASSUME SlotInv, NEW h \in Handlers, NEW b \in Branches, Fork(h, b) \/ Join(h, b)
  PROVE  SlotInv'
  <1> USE DEF Fork, Join, SlotInv, contexts
  <1>1. TypeOK'
    BY DEF TypeOK, BranchPhase
  <1>2. \A g \in Handlers, d \in Branches :
          \/ br'[<<g, d>>] = br[<<g, d>>]
          \/ {br[<<g, d>>], br'[<<g, d>>]} \subseteq {"ready", "computing", "joined"}
    BY DEF TypeOK
  <1>3. /\ Counted' /\ WaitsCounted' /\ ResumesAlone'
        /\ \A g \in Handlers : Waits(g)' <=> Waits(g)
    BY <1>1, <1>2, SameParked DEF TypeOK
  <1>4. Idle'
    BY BranchWorks DEF Idle, TypeOK
  <1>5. Holds'
    BY <1>3 DEF Holds, TypeOK
  <1>6. QED
    BY <1>1, <1>3, <1>4, <1>5

LEMMA CancelCallStep ==
  ASSUME SlotInv, NEW h \in Handlers, NEW b \in Branches, CancelCall(h, b)
  PROVE  SlotInv'
  <1> USE DEF CancelCall, SlotInv
  <1>1. TypeOK'
    BY DEF TypeOK
  <1>2. /\ Counted' /\ WaitsCounted' /\ ResumesAlone'
        /\ \A g \in Handlers : Waits(g)' <=> Waits(g)
    BY SameParked DEF TypeOK
  <1>3. Idle' /\ Holds'
    BY <1>2 DEF Idle, Holds
  <1>4. QED
    BY <1>1, <1>2, <1>3

(* The slot goes back with the first wait, and later ones find none. *)
LEMMA ParkStep ==
  ASSUME SlotInv, NEW h \in Handlers, NEW b \in Branches, Park(h, b)
  PROVE  SlotInv'
  <1> USE DEF Park, SlotInv, contexts
  <1>1. Counted' /\ active' \in 0 .. Size
    BY SlotReturned
  <1>2. TypeOK'
    BY <1>1 DEF TypeOK, BranchPhase
  <1>3. /\ Parked(h)' = Parked(h) \cup {b}
        /\ b \notin Parked(h)
        /\ \A g \in Handlers \ {h} : Parked(g)' = Parked(g)
    BY DEF Parked, TypeOK
  <1>4. WaitsCounted'
    BY <1>3, ParkedFinite, FS_AddElement DEF WaitsCounted, TypeOK
  <1>5. ResumesAlone'
    BY <1>3, SlotAssumption DEF ResumesAlone, TypeOK
  <1>6. Waits(h)' /\ \A g \in Handlers \ {h} : Waits(g)' <=> Waits(g)
    BY DEF Waits, TypeOK
  <1>7. Idle'
    BY BranchWorks DEF Idle, TypeOK
  <1>8. Holds'
    BY <1>6 DEF Holds, TypeOK
  <1>9. QED
    BY <1>1, <1>2, <1>4, <1>5, <1>7, <1>8

(* Only the last branch resumes, and the others leave one that waits. *)
LEMMA ResumeStep ==
  ASSUME SlotInv, NEW h \in Handlers, NEW b \in Branches, Resume(h, b)
  PROVE  SlotInv'
  <1> USE DEF Resume, SlotInv
  <1>1. /\ Parked(h)' = Parked(h) \ {b}
        /\ b \in Parked(h)
        /\ \A g \in Handlers \ {h} : Parked(g)' = Parked(g)
    BY DEF Parked, TypeOK
  <1>2. /\ waiting[h] = Cardinality(Parked(h))
        /\ waiting'[h] = Cardinality(Parked(h)')
        /\ waiting'[h] = waiting[h] - 1
        /\ waiting'[h] \in Nat
    <2>1. waiting[h] = Cardinality(Parked(h)) /\ waiting'[h] = waiting[h] - 1
      BY DEF WaitsCounted, TypeOK
    <2>2. /\ IsFiniteSet(Parked(h)') /\ IsFiniteSet(Parked(h))
          /\ Cardinality(Parked(h)') = Cardinality(Parked(h)) - 1
      BY <1>1, ParkedFinite, FS_RemoveElement, Zenon
    <2>3. Cardinality(Parked(h)') \in Nat
      BY <2>2, FS_CardinalityType, Zenon
    <2>4. QED
      BY <2>1, <2>2, <2>3
  <1>3. TypeOK'
    BY <1>2 DEF TypeOK, BranchPhase
  <1>4. Counted'
    BY DEF Counted
  <1>5. WaitsCounted'
    BY <1>1, <1>2 DEF WaitsCounted, TypeOK
  <1>6. waiting[h] = 1 <=> Parked(h)' = {}
    <2>1. Cardinality(Parked(h)') = 0 <=> Parked(h)' = {}
      BY ParkedFinite, FS_EmptySet, Zenon
    <2>2. waiting[h] \in Nat
      BY DEF TypeOK
    <2>3. QED
      BY <1>2, <2>1, <2>2
  <1>7. ResumesAlone'
    <2>1. ASSUME NEW g \in Handlers, g # h
          PROVE  /\ \A d \in Branches : br'[<<g, d>>] = "resuming" <=> mu'[g] = d
                 /\ mu'[g] # NoBranch => Parked(g)' = {}
      BY <1>1, <2>1 DEF ResumesAlone, TypeOK
    <2>2. \A d \in Branches : br'[<<h, d>>] = "resuming" <=> mu'[h] = d
      <3>1. mu[h] = NoBranch /\ \A d \in Branches : d # NoBranch /\ br[<<h, d>>] # "resuming"
        BY SlotAssumption DEF ResumesAlone
      <3>2. /\ \A d \in Branches \ {b} : br'[<<h, d>>] = br[<<h, d>>]
            /\ br'[<<h, b>>] = IF waiting[h] = 1 THEN "resuming" ELSE "computing"
            /\ mu'[h] = IF waiting[h] = 1 THEN b ELSE NoBranch
        BY <3>1 DEF TypeOK
      <3>3. QED
        BY <3>1, <3>2
    <2>3. mu'[h] # NoBranch => Parked(h)' = {}
      BY <1>6 DEF TypeOK
    <2>4. QED
      BY <2>1, <2>2, <2>3 DEF ResumesAlone
  <1>8. Waits(h) /\ Waits(h)' /\ \A g \in Handlers \ {h} : Waits(g)' <=> Waits(g)
    <2>1. Waits(h)
      BY DEF Waits
    <2>2. ASSUME waiting[h] = 1
          PROVE  Waits(h)'
      BY <2>2 DEF Waits, TypeOK
    <2>3. ASSUME waiting[h] # 1
          PROVE  Waits(h)'
      <3>1. PICK d \in Branches : br'[<<h, d>>] = "parked"
        BY <2>3, <1>6 DEF Parked
      <3>2. QED
        BY <3>1 DEF Waits
    <2>4. \A g \in Handlers \ {h} : Waits(g)' <=> Waits(g)
      BY DEF Waits, TypeOK
    <2>5. QED
      BY <2>1, <2>2, <2>3, <2>4
  <1>9. Idle'
    BY BranchWorks DEF Idle, TypeOK
  <1>10. Holds'
    BY <1>8 DEF Holds, TypeOK
  <1>11. QED
    BY <1>3, <1>4, <1>5, <1>7, <1>9, <1>10

(* The branch that resumes is the only one that waited. *)
LEMMA ResumingLast ==
  ASSUME SlotInv, NEW h \in Handlers, NEW b \in Branches, br[<<h, b>>] = "resuming",
         br' = [br EXCEPT ![<<h, b>>] = "computing"], mu' = [mu EXCEPT ![h] = NoBranch],
         waiting' = waiting
  PROVE  /\ pc[h] = "working" /\ h \notin held
         /\ WaitsCounted' /\ ResumesAlone'
         /\ ~ (Waits(h)') /\ \A g \in Handlers \ {h} : Waits(g)' <=> Waits(g)
  <1> USE DEF SlotInv
  <1>1. mu[h] = b /\ mu[h] # NoBranch /\ Parked(h) = {}
    BY SlotAssumption DEF ResumesAlone
  <1>2. \A g \in Handlers : Parked(g)' = Parked(g)
    BY DEF Parked, TypeOK
  <1>3. WaitsCounted'
    BY <1>2 DEF WaitsCounted
  <1>4. \A d \in Branches : br'[<<h, d>>] \notin {"parked", "resuming"}
    BY <1>1 DEF Parked, ResumesAlone, TypeOK
  <1>5. ResumesAlone'
    <2>1. ASSUME NEW g \in Handlers, g # h
          PROVE  /\ \A d \in Branches : br'[<<g, d>>] = "resuming" <=> mu'[g] = d
                 /\ mu'[g] # NoBranch => Parked(g)' = {}
      BY <1>2, <2>1 DEF ResumesAlone, TypeOK
    <2>2. mu'[h] = NoBranch
      BY DEF TypeOK
    <2>3. QED
      BY <1>4, <2>1, <2>2, SlotAssumption DEF ResumesAlone
  <1>6. ~ (Waits(h)') /\ \A g \in Handlers \ {h} : Waits(g)' <=> Waits(g)
    BY <1>4 DEF Waits, TypeOK
  <1>7. pc[h] = "working" /\ h \notin held
    BY BranchWorks DEF Holds, Waits
  <1>8. QED
    BY <1>3, <1>5, <1>6, <1>7

LEMMA ReacquireStep ==
  ASSUME SlotInv, NEW h \in Handlers, NEW b \in Branches,
         Reacquire(h, b) \/ ReacquireCanceled(h, b)
  PROVE  SlotInv'
  <1>1. /\ pc[h] = "working" /\ h \notin held
        /\ WaitsCounted' /\ ResumesAlone'
        /\ ~ (Waits(h)') /\ \A g \in Handlers \ {h} : Waits(g)' <=> Waits(g)
    BY ResumingLast DEF Reacquire, ReacquireCanceled
  <1> USE DEF SlotInv
  <1>2. Counted' /\ active' \in 0 .. Size
    BY <1>1, SlotTaken DEF Reacquire, ReacquireCanceled, Counted, TypeOK
  <1>3. TypeOK'
    BY <1>2 DEF Reacquire, ReacquireCanceled, TypeOK, BranchPhase
  <1>4. Idle'
    BY <1>1 DEF Reacquire, ReacquireCanceled, Idle, TypeOK
  <1>5. Holds'
    BY <1>1 DEF Reacquire, ReacquireCanceled, Holds, TypeOK
  <1>6. QED
    BY <1>1, <1>2, <1>3, <1>4, <1>5

-----------------------------------------------------------------------------
LEMMA SlotNext == SlotInv /\ [Next]_vars => SlotInv'
  <1> SUFFICES ASSUME SlotInv, [Next]_vars
               PROVE  SlotInv'
    OBVIOUS
  <1>1. ASSUME NEW l \in Loops, NEW h \in Handlers, Admit(l, h)
        PROVE  SlotInv'
    BY <1>1, AdmitStep
  <1>2. ASSUME NEW h \in Handlers, Run(h) \/ NotRun(h) \/ Return(h) \/ CancelRun(h)
        PROVE  SlotInv'
    BY <1>2, RunStep, HandlerStep, ReturnStep
  <1>3. ASSUME NEW h \in Handlers, NEW b \in Branches,
               \/ Fork(h, b) \/ Join(h, b) \/ Park(h, b) \/ Resume(h, b)
               \/ Reacquire(h, b) \/ ReacquireCanceled(h, b) \/ CancelCall(h, b)
        PROVE  SlotInv'
    BY <1>3, ComputeStep, ParkStep, ResumeStep, ReacquireStep, CancelCallStep
  <1>4. CASE UNCHANGED vars
    <2> USE <1>4 DEF vars, contexts, SlotInv
    <2>1. TypeOK' /\ Counted' /\ Idle'
      BY DEF TypeOK, Counted, Idle
    <2>2. \A h \in Handlers : Parked(h)' = Parked(h) /\ (Waits(h)' <=> Waits(h))
      BY DEF Parked, Waits
    <2>3. WaitsCounted' /\ ResumesAlone' /\ Holds'
      BY <2>2 DEF WaitsCounted, ResumesAlone, Holds
    <2>4. QED
      BY <2>1, <2>3
  <1>5. QED
    BY <1>1, <1>2, <1>3, <1>4 DEF Next

LEMMA SlotInvariant == Spec => []SlotInv
  BY SlotInit, SlotNext, PTL DEF Spec

(* Every variable keeps to its type, for any number of handlers, branches, *)
(* claim loops and slots.                                                  *)
THEOREM SlotTypes == Spec => []TypeOK
  BY SlotInvariant, PTL DEF SlotInv

(* The pool counts the handlers that hold a slot, and a handler holds one  *)
(* exactly while none of its branches waits, unless the context of its     *)
(* last branch had ended (slot.go: Wait, resume).                          *)
THEOREM NoSlotLeaks == Spec => []HeldUnlessWaiting
  <1>1. SlotInv => HeldUnlessWaiting
    BY DEF SlotInv, HeldUnlessWaiting, Counted, Holds, Waits
  <1>2. QED
    BY <1>1, SlotInvariant, PTL

(* A claim loop admits its next job only when its last one waits for a     *)
(* model or is over, so the others are one per loop (worker.go).           *)
THEOREM AdmissionStaysBounded == Spec => []AdmissionBounded
  <1>1. Init => AdmissionBounded
    BY DEF Init, AdmissionBounded
  <1>2. SlotInv /\ AdmissionBounded /\ [Next]_vars => AdmissionBounded'
    <2> SUFFICES ASSUME SlotInv, AdmissionBounded, [Next]_vars
                 PROVE  AdmissionBounded'
      OBVIOUS
    <2> USE DEF SlotInv, TypeOK, AdmissionBounded
    <2>1. ASSUME NEW l \in Loops, NEW h \in Handlers, Admit(l, h)
          PROVE  AdmissionBounded'
      <3>1. admitted'[l] = h /\ \A k \in Loops \ {l} : admitted'[k] = admitted[k]
        BY <2>1 DEF Admit
      <3>2. ASSUME NEW g \in Handlers \ yielded, g # h, pc[g] \in {"admitted", "working"}
            PROVE  \E k \in Loops : admitted'[k] = g
        BY <2>1, <3>1, <3>2, SlotAssumption DEF Admit
      <3>3. QED
        BY <2>1, <3>1, <3>2 DEF Admit
    <2>2. ASSUME NEW h \in Handlers, Run(h) \/ NotRun(h) \/ Return(h) \/ CancelRun(h)
          PROVE  AdmissionBounded'
      BY <2>2 DEF Run, NotRun, Return, CancelRun
    <2>3. ASSUME NEW h \in Handlers, NEW b \in Branches,
                 \/ Fork(h, b) \/ Join(h, b) \/ Park(h, b) \/ Resume(h, b)
                 \/ Reacquire(h, b) \/ ReacquireCanceled(h, b) \/ CancelCall(h, b)
          PROVE  AdmissionBounded'
      BY <2>3 DEF Fork, Join, Park, Resume, Reacquire, ReacquireCanceled, CancelCall
    <2>4. CASE UNCHANGED vars
      BY <2>4 DEF vars
    <2>5. QED
      BY <2>1, <2>2, <2>3, <2>4 DEF Next
  <1>3. QED
    BY <1>1, <1>2, SlotInvariant, PTL DEF Spec

-----------------------------------------------------------------------------
(* The composition with the models' queues. *)

QP == INSTANCE CallQueueProofs WITH
        Keys <- Models, pc <- call, key <- ModelOf, background <- {},
        canceled <- {hb \in Calls : ContextDone(hb[1], hb[2])}

(* A call is in its queue only inside Wait. *)
Calling(hb) == call[hb] \in {"entering", "waiting", "running"}

CallsInside ==
  /\ call \in [Calls -> {"idle", "entering", "waiting", "running", "done"}]
  /\ \A hb \in Calls : Calling(hb) => br[hb] = "parked"

(* Whoever waits for a model, or is being answered, holds no slot. *)
QueuesWithoutSlot == \A hb \in Calls : Calling(hb) => hb[1] \notin held

LEMMA QueueTaken ==
  ASSUME NEW hb \in Calls, Q!Do(hb) \/ Q!Step(hb)
  PROVE  QP!Do(hb) \/ QP!Step(hb)
  BY DEF Q!Do, Q!Step, Q!AcquireNew, Q!AcquireWait, Q!TakeTurn, Q!Cancel, Q!Release, Q!Join,
         Q!IsNext, Q!history, Q!RemoveAt,
         QP!Do, QP!Step, QP!AcquireNew, QP!AcquireWait, QP!TakeTurn, QP!Cancel, QP!Release,
         QP!Join, QP!IsNext, QP!history, QP!RemoveAt

LEMMA CallSteps ==
  ASSUME CallsInside, NEW hb \in Calls, Q!Do(hb) \/ Q!Step(hb)
  PROVE  \E at \in {"entering", "waiting", "running", "done"} :
           call' = [call EXCEPT ![hb] = at]
  BY DEF Q!Do, Q!Step, Q!AcquireNew, Q!AcquireWait, Q!TakeTurn, Q!Cancel, Q!Release

(* What runs beside the queues is the pool of slots. *)
LEMMA CallsStep ==
  ASSUME [CallsNext]_allVars
  PROVE  [Next]_vars
  <1> USE CallsAssumption
  <1>1. ASSUME NEW hb \in Calls, Call(hb[1], hb[2])
        PROVE  [Next]_vars
    BY <1>1 DEF Call, Next
  <1>2. ASSUME NEW hb \in Calls, CallReturned(hb[1], hb[2]) \/ Slot(hb[1], hb[2])
        PROVE  Next
    BY <1>2 DEF CallReturned, Slot, Next
  <1>3. ASSUME NEW h \in Handlers, Job(h)
        PROVE  Next
    BY <1>3 DEF Job, Next
  <1>4. ASSUME NEW l \in Loops, ClaimLoop(l)
        PROVE  Next
    BY <1>4 DEF ClaimLoop, Next
  <1>5. ASSUME Abort
        PROVE  Next
    BY <1>5 DEF Abort, Next
  <1>6. CASE UNCHANGED allVars
    BY <1>6 DEF allVars
  <1>7. QED
    BY <1>1, <1>2, <1>3, <1>4, <1>5, <1>6 DEF CallsNext

(* Every behaviour of the composition is one of the pool of slots          *)
(* (pipeline_llm.go, runModelCall; workslot/slot.go).                      *)
THEOREM CallsUseSlots == CallsSpec => Spec
  <1>1. CallsInit => Init
    BY DEF CallsInit
  <1>2. QED
    BY <1>1, CallsStep, PTL DEF CallsSpec, Spec

LEMMA InsideInit == CallsInit => CallsInside
  BY DEF CallsInit, Q!Init, CallsInside, Calling

LEMMA InsideNext == CallsInside /\ SlotInv /\ [CallsNext]_allVars => CallsInside'
  <1> SUFFICES ASSUME CallsInside, SlotInv, [CallsNext]_allVars
               PROVE  CallsInside'
    OBVIOUS
  <1> USE CallsAssumption
  <1>0. \A hb \in Calls : hb[1] \in Handlers /\ hb[2] \in Branches /\ hb = <<hb[1], hb[2]>>
    OBVIOUS
  <1>1. ASSUME UNCHANGED call,
               \A hb \in Calls : br[hb] = "parked" => br'[hb] = "parked" \/ ~ Calling(hb)
        PROVE  CallsInside'
    BY <1>1 DEF CallsInside, Calling
  <1>2. ASSUME NEW hb \in Calls, Call(hb[1], hb[2])
        PROVE  CallsInside'
    <2>1. CASE call[hb] = "idle" /\ Park(hb[1], hb[2]) /\ UNCHANGED <<queue, aborts>>
      <3>1. br' = [br EXCEPT ![hb] = "parked"] /\ UNCHANGED call
        BY <1>0, <2>1 DEF Park, queue
      <3>2. \A c \in Calls : br[c] = "parked" => br'[c] = "parked"
        BY <1>0, <3>1 DEF SlotInv, TypeOK
      <3>3. QED
        BY <1>1, <3>1, <3>2
    <2>2. CASE /\ br[hb] = "parked" /\ UNCHANGED <<vars, aborts>>
               /\ Q!Do(hb) \/ Q!Step(hb)
      <3>1. PICK at \in {"entering", "waiting", "running", "done"} :
              call' = [call EXCEPT ![hb] = at]
        BY <2>2, CallSteps
      <3>2. QED
        BY <2>2, <3>1 DEF CallsInside, Calling, vars
    <2>3. QED
      BY <1>0, <1>2, <2>1, <2>2 DEF Call
  <1>3. ASSUME NEW hb \in Calls, CallReturned(hb[1], hb[2])
        PROVE  CallsInside'
    <2>1. call[hb] = "done" /\ UNCHANGED call /\ \A c \in Calls \ {hb} : br'[c] = br[c]
      <3>1. call[hb] = "done" /\ UNCHANGED call /\ Resume(hb[1], hb[2])
        BY <1>0, <1>3 DEF CallReturned, queue
      <3>2. \E at \in {"resuming", "computing"} : br' = [br EXCEPT ![hb] = at]
        BY <1>0, <3>1 DEF Resume
      <3>3. QED
        BY <1>0, <3>1, <3>2 DEF SlotInv, TypeOK
    <2>2. QED
      BY <1>1, <2>1 DEF Calling
  <1>4. ASSUME NEW hb \in Calls, Slot(hb[1], hb[2])
        PROVE  CallsInside'
    <2>1. br[hb] # "parked" /\ UNCHANGED call /\ \A c \in Calls \ {hb} : br'[c] = br[c]
      BY <1>0, <1>4 DEF Slot, Fork, Join, Reacquire, ReacquireCanceled, queue, SlotInv, TypeOK
    <2>2. QED
      BY <1>1, <2>1
  <1>5. ASSUME (\E h \in Handlers : Job(h)) \/ (\E l \in Loops : ClaimLoop(l)) \/ Abort
        PROVE  CallsInside'
    <2>1. UNCHANGED <<br, call>>
      BY <1>5 DEF Job, Run, NotRun, Return, ClaimLoop, Admit, Abort, CancelRun, CancelCall, queue
    <2>2. QED
      BY <1>1, <2>1
  <1>6. CASE UNCHANGED allVars
    BY <1>1, <1>6 DEF allVars, vars, queue
  <1>7. QED
    BY <1>2, <1>3, <1>4, <1>5, <1>6 DEF CallsNext

LEMMA InsideInvariant == CallsSpec => [](SlotInv /\ CallsInside)
  <1>1. CallsSpec => []SlotInv
    BY CallsUseSlots, SlotInvariant
  <1>2. QED
    BY <1>1, InsideInit, InsideNext, PTL DEF CallsSpec

(* "A slow endpoint must not occupy a worker slot while other jobs can use *)
(* healthy models" (pipeline_llm.go, runModelCall): whoever waits for a    *)
(* model, or is being answered, holds no slot.                             *)
THEOREM NoSlotWhileCalling == CallsSpec => []QueuesWithoutSlot
  <1>1. SlotInv /\ CallsInside => QueuesWithoutSlot
    <2> SUFFICES ASSUME SlotInv, CallsInside, NEW hb \in Calls, Calling(hb)
                 PROVE  hb[1] \notin held
      BY DEF QueuesWithoutSlot
    <2>1. /\ hb[1] \in Handlers /\ hb[2] \in Branches /\ hb = <<hb[1], hb[2]>>
          /\ br[hb] = "parked"
      BY CallsAssumption DEF CallsInside
    <2>2. br[<<hb[1], hb[2]>>] = "parked"
      BY <2>1
    <2>3. QED
      BY <2>1, <2>2 DEF SlotInv, Idle, Holds, Waits
  <1>2. QED
    BY <1>1, InsideInvariant, PTL

LEMMA QueuesInit == CallsInit => QP!QueueInv
  <1>1. CallsInit => QP!Init
    BY DEF CallsInit, Q!Init, QP!Init
  <1>2. QED
    BY <1>1, QP!QueueInit, CallsAssumption

LEMMA QueuesNext == QP!QueueInv /\ [CallsNext]_allVars => QP!QueueInv'
  <1> SUFFICES ASSUME QP!QueueInv, [CallsNext]_allVars
               PROVE  QP!QueueInv'
    OBVIOUS
  <1>1. ASSUME NEW hb \in Calls, Q!Do(hb) \/ Q!Step(hb)
        PROVE  QP!QueueInv'
    <2>1. QP!Next
      BY <1>1, QueueTaken DEF QP!Next
    <2>2. QED
      BY <2>1, QP!QueueNext, CallsAssumption
  <1>2. ASSUME UNCHANGED queue
        PROVE  QP!QueueInv'
    <2>1. {hb \in Calls : ContextDone(hb[1], hb[2])'} \subseteq Calls
      OBVIOUS
    <2>2. QED
      BY <1>2, <2>1, QP!ContextsChange, CallsAssumption DEF queue
  <1>3. ASSUME NEW hb \in Calls, Call(hb[1], hb[2])
        PROVE  QP!QueueInv'
    <2>1. hb = <<hb[1], hb[2]>>
      BY CallsAssumption
    <2>2. UNCHANGED queue \/ Q!Do(hb) \/ Q!Step(hb)
      BY <1>3, <2>1 DEF Call
    <2>3. QED
      BY <1>1, <1>2, <2>2
  <1>4. ASSUME NEW hb \in Calls, CallReturned(hb[1], hb[2]) \/ Slot(hb[1], hb[2])
        PROVE  UNCHANGED queue
    BY <1>4 DEF CallReturned, Slot
  <1>5. ASSUME (\E h \in Handlers : Job(h)) \/ (\E l \in Loops : ClaimLoop(l)) \/ Abort
        PROVE  UNCHANGED queue
    BY <1>5 DEF Job, ClaimLoop, Abort
  <1>6. CASE UNCHANGED allVars
    BY <1>2, <1>6 DEF allVars
  <1>7. QED
    BY <1>2, <1>3, <1>4, <1>5, <1>6 DEF CallsNext

(* In the composition too a model serves one call at a time and no lane is *)
(* stranded, though a job's end cancels many calls at once and a branch    *)
(* whose call was canceled goes on with another context (queue.go).        *)
THEOREM ModelsServeOneCall == CallsSpec => [](Q!OneCallPerKey /\ Q!LanesOwned)
  <1>1. QP!QueueInv => Q!OneCallPerKey /\ Q!LanesOwned
    BY DEF QP!QueueInv, QP!OneCallPerKey, QP!LanesOwned, QP!Owner, QP!Queued, QP!ToSet,
           Q!OneCallPerKey, Q!LanesOwned, Q!Owner, Q!Queued, Q!ToSet
  <1>2. QED
    BY <1>1, QueuesInit, QueuesNext, PTL DEF CallsSpec
=============================================================================
