--------------------------- MODULE LearningProofs ----------------------------
(***************************************************************************)
(* Proofs about what a learner's study is made of, each module of it in    *)
(* turn: that the steps of its own Next keep its invariant, and so that    *)
(* every behaviour of MCLearning has the property stated there.            *)
(***************************************************************************)
EXTENDS MCLearning, ListLemmas, FiniteSetTheorems, WellFoundedInduction, TLAPS

-----------------------------------------------------------------------------
(* Adding new words (module AutoAdd). *)

Added == [of : Nat, at : {"status", "propose", "save", "complete", "failing", "over", "error"},
          batch : Batches \cup {None}, next : Nat]
AddJob == [at : {"none", "queued", "held"}, id : Nat, claim : Workers \cup {None}, tries : Nat,
           kept : Batches \cup {None}]

AddTypes ==
  /\ status \in {"unset", "pending", "done", "failed"} /\ count \in Nat
  /\ drawn \in Seq(SUBSET Batches)
  /\ job \in AddJob
  /\ attempt \in [Workers -> Added \cup {None}]
  /\ \A w \in Workers : attempt[w] # None => attempt[w].of \in DOMAIN drawn

(* A job is the last one enqueued, and who claims it attempts it.          *)
ClaimStands ==
  /\ job.at = "none" => job = D!NoJob
  /\ job.at # "none" => job.id = Len(drawn) /\ job.id > 0
  /\ \A w \in Workers : job.claim = w =>
       job.at = "held" /\ (attempt[w] # None => attempt[w].of = job.id)

(* A batch is being saved from its first word on. *)
SavedSoFar(d, saved) ==
  d # None =>
    /\ d.at \in {"status", "propose"} => d.next = 1
    /\ d.at \in {"save", "complete"} =>
         /\ d.batch \in Batches
         /\ \A i \in 1 .. Len(d.batch) :
              i < d.next \/ d.at = "complete" => d.batch[i] \in saved

(* What the attempts of one job save is one batch, which is its checkpoint *)
(* for as long as the job is there.                                        *)
BatchIs(n, b) ==
  /\ drawn[n] \subseteq {b} \ {None}
  /\ \A w \in Workers : attempt[w] # None /\ attempt[w].of = n /\ attempt[w].batch # None =>
       attempt[w].batch = b
  /\ job.at # "none" /\ job.id = n => job.kept = b

AddInv ==
  /\ AddTypes /\ ClaimStands
  /\ \A w \in Workers : SavedSoFar(attempt[w], tracked)
  /\ \A n \in DOMAIN drawn : \E b \in Batches \cup {None} : BatchIs(n, b)
  /\ D!OneBatch

USE AdditionsAssumption

LEMMA Counted ==
  ASSUME NEW S
  PROVE  D!Cardinality(S) = Cardinality(S)
  BY DEF Cardinality, D!Cardinality

LEMMA OneIsEnough ==
  ASSUME NEW S, NEW b, S \subseteq {b}
  PROVE  D!Cardinality(S) <= 1
  <1>1. CASE S = {}
    BY <1>1, FS_EmptySet, Counted
  <1>2. CASE S = {b}
    <2>1. Cardinality(S) = 1
      BY <1>2, FS_Singleton
    <2>2. QED
      BY <2>1, Counted
  <1>3. QED
    BY <1>1, <1>2

LEMMA AddInit == ASSUME D!Init PROVE AddInv
  <1>1. /\ status = "unset" /\ count = 0 /\ job = D!NoJob /\ drawn = <<>>
        /\ attempt = [w \in Workers |-> None]
    BY DEF D!Init
  <1>2. D!NoJob \in AddJob /\ D!NoJob.at = "none" /\ D!NoJob.claim = None
    BY DEF D!NoJob, AddJob
  <1>3. AddTypes /\ ClaimStands
    BY <1>1, <1>2 DEF AddTypes, ClaimStands
  <1>4. QED
    BY <1>1, <1>3 DEF AddInv, SavedSoFar, D!OneBatch


LEMMA BatchesTyped ==
  ASSUME NEW b \in Batches
  PROVE  Len(b) \in Nat /\ DOMAIN b = 1 .. Len(b)
  BY AdditionsAssumption

(* An attempt that only moves on. *)
LEMMA TurnsTyped ==
  ASSUME AddTypes, NEW w \in Workers, attempt[w] # None, NEW at, D!Turns(w, at),
         at \in {"status", "propose", "save", "complete", "failing", "over", "error"}
  PROVE  /\ attempt' \in [Workers -> Added \cup {None}]
         /\ attempt'[w] \in Added /\ attempt'[w].at = at /\ attempt'[w].of = attempt[w].of
         /\ attempt'[w].batch = attempt[w].batch /\ attempt'[w].next = attempt[w].next
         /\ \A u \in Workers \ {w} : attempt'[u] = attempt[u]
  BY DEF AddTypes, Added, D!Turns

(* Whatever happens to attempts and to the job, a batch stays the one of a *)
(* job whose checkpoint stays.                                             *)
LEMMA BatchStays ==
  ASSUME drawn' = drawn,
         \A w \in Workers :
           \/ attempt'[w] = None \/ attempt'[w].batch = None
           \/ /\ attempt[w] # None /\ attempt'[w].of = attempt[w].of
              /\ attempt'[w].batch = attempt[w].batch,
         job'.at # "none" => job.at # "none" /\ job'.id = job.id /\ job'.kept = job.kept,
         NEW n, NEW b, BatchIs(n, b)
  PROVE  BatchIs(n, b)'
  BY DEF BatchIs

(* A press that succeeded has its words, until another press begins.       *)
LEMMA ReportStays ==
  ASSUME D!OneBatch, tracked \subseteq tracked',
         status' = "done" => status = "done" /\ count' = count
  PROVE  status' = "done" =>
           \E b \in Batches : Len(b) = count' /\ D!Words(b) \subseteq tracked'
  <1>1. ASSUME NEW b PROVE D!Words(b)' = D!Words(b)
    BY DEF D!Words
  <1>2. QED
    BY <1>1 DEF D!OneBatch

(* What a step that draws nothing has to show.                             *)
LEMMA AddKeeps ==
  ASSUME AddInv, AddTypes', ClaimStands', drawn' = drawn, tracked' = tracked,
         \A w \in Workers :
           \/ attempt'[w] = None \/ attempt'[w].batch = None
           \/ /\ attempt[w] # None /\ attempt'[w].of = attempt[w].of
              /\ attempt'[w].batch = attempt[w].batch,
         \A w \in Workers :
           \/ attempt'[w] = attempt[w] \/ attempt'[w] = None
           \/ SavedSoFar(attempt'[w], tracked'),
         job'.at # "none" => job.at # "none" /\ job'.id = job.id /\ job'.kept = job.kept,
         status' = "done" =>
           \E b \in Batches : Len(b) = count' /\ D!Words(b) \subseteq tracked'
  PROVE  AddInv'
  <1>1. \A w \in Workers : SavedSoFar(attempt'[w], tracked')
    BY DEF AddInv, SavedSoFar
  <1>2. ASSUME NEW n \in DOMAIN drawn, NEW b \in Batches \cup {None}, BatchIs(n, b)
        PROVE  BatchIs(n, b)'
    BY <1>2, BatchStays
  <1>3. (\A n \in DOMAIN drawn : \E b \in Batches \cup {None} : BatchIs(n, b))'
    BY <1>2 DEF AddInv
  <1>4. \A n \in DOMAIN drawn' : D!Cardinality(drawn'[n]) <= 1
    BY DEF AddInv, D!OneBatch
  <1>5. QED
    BY <1>1, <1>3, <1>4 DEF AddInv, D!OneBatch, D!Words

LEMMA Unmoved ==
  ASSUME AddInv, UNCHANGED <<status, count, tracked, job, attempt, drawn>>
  PROVE  AddInv'
  <1>1. AddTypes' /\ ClaimStands'
    BY DEF AddInv, AddTypes, ClaimStands
  <1>2. QED
    BY <1>1, ReportStays, AddKeeps DEF AddInv

LEMMA RequestsKeep ==
  ASSUME AddInv, NEW p \in Draws, D!Press(p) \/ D!StartWordAutoAdd(p)
  PROVE  AddInv'
  <1>1. /\ UNCHANGED <<tracked, job, attempt, drawn>>
        /\ \/ status' = status /\ count' = count
           \/ status' = "pending" /\ count' = 0
    BY DEF D!Press, D!StartWordAutoAdd
  <1>2. AddTypes' /\ ClaimStands'
    BY <1>1 DEF AddInv, AddTypes, ClaimStands
  <1>3. status' = "done" =>
           \E b \in Batches : Len(b) = count' /\ D!Words(b) \subseteq tracked'
    BY <1>1, ReportStays DEF AddInv
  <1>4. \A w \in Workers :
           \/ attempt'[w] = None \/ attempt'[w].batch = None
           \/ /\ attempt[w] # None /\ attempt'[w].of = attempt[w].of
              /\ attempt'[w].batch = attempt[w].batch
    BY <1>1
  <1>5. QED
    BY <1>1, <1>2, <1>3, <1>4, AddKeeps

LEMMA EnqueueAddKeeps ==
  ASSUME AddInv, NEW p \in Draws, D!Enqueue(p)
  PROVE  AddInv'
  <1>1. UNCHANGED <<status, count, tracked, attempt>>
    BY DEF D!Enqueue
  <1>2. CASE UNCHANGED <<job, drawn>>
    BY <1>1, <1>2, Unmoved
  <1>3. CASE /\ job.at = "none" /\ drawn' = Append(drawn, {})
             /\ job' = [D!NoJob EXCEPT !.at = "queued", !.id = Len(drawn')]
    <2>10. PICK n \in Nat : n = Len(drawn) + 1
      BY DEF AddInv, AddTypes
    <2>1. /\ drawn' \in Seq(SUBSET Batches) /\ Len(drawn') = n /\ n \in Nat /\ n > 0
          /\ DOMAIN drawn' = DOMAIN drawn \cup {n} /\ n \notin DOMAIN drawn
          /\ drawn'[n] = {} /\ \A m \in DOMAIN drawn : drawn'[m] = drawn[m]
      BY <1>3, <2>10 DEF AddInv, AddTypes
    <2>2. job' \in AddJob /\ job'.at = "queued" /\ job'.id = n /\ job'.claim = None
          /\ job'.kept = None
      BY <1>3, <2>1 DEF AddJob, D!NoJob
    <2>3. AddTypes' /\ ClaimStands'
      BY <1>1, <2>1, <2>2 DEF AddInv, AddTypes, ClaimStands
    <2>4. BatchIs(n, None)'
      BY <1>1, <2>1, <2>2 DEF AddInv, AddTypes, BatchIs
    <2>5. ASSUME NEW m \in DOMAIN drawn, NEW b, BatchIs(m, b)
          PROVE  BatchIs(m, b)'
      BY <1>1, <2>1, <2>2, <2>5 DEF BatchIs
    <2>6. (\A m \in DOMAIN drawn : \E b \in Batches \cup {None} : BatchIs(m, b))'
      BY <2>1, <2>4, <2>5 DEF AddInv
    <2>7. D!OneBatch'
      <3>1. \A m \in DOMAIN drawn' : D!Cardinality(drawn'[m]) <= 1
        <4>1. D!Cardinality({}) = 0
          BY FS_EmptySet, Counted
        <4>2. \A m \in DOMAIN drawn : D!Cardinality(drawn'[m]) <= 1
          BY <2>1 DEF AddInv, D!OneBatch
        <4>3. D!Cardinality(drawn'[n]) <= 1
          BY <2>1, <4>1
        <4>4. QED
          BY <2>1, <4>2, <4>3
      <3>2. QED
        BY <1>1, <3>1 DEF AddInv, D!OneBatch, D!Words
    <2>8. \A w \in Workers : SavedSoFar(attempt'[w], tracked')
      BY <1>1 DEF AddInv, SavedSoFar
    <2>9. QED
      BY <1>1, <2>3, <2>6, <2>7, <2>8 DEF AddInv
  <1>4. QED
    BY <1>2, <1>3 DEF D!Enqueue

LEMMA TurnKeeps ==
  ASSUME AddInv, NEW w \in Workers, attempt[w] # None, NEW at,
         at \in {"propose", "complete", "failing", "over", "error"},
         D!Turns(w, at), UNCHANGED <<tracked, job, drawn>>,
         at = "propose" => attempt[w].at = "status",
         at = "complete" =>
           attempt[w].at = "save" /\ attempt[w].next > Len(attempt[w].batch),
         status' \in {"unset", "pending", "done", "failed"}, count' \in Nat,
         status' = "done" =>
           \E b \in Batches : Len(b) = count' /\ D!Words(b) \subseteq tracked'
  PROVE  AddInv'
  <1>1. /\ attempt' \in [Workers -> Added \cup {None}]
        /\ attempt'[w] \in Added /\ attempt'[w].at = at /\ attempt'[w].of = attempt[w].of
        /\ attempt'[w].batch = attempt[w].batch /\ attempt'[w].next = attempt[w].next
        /\ \A u \in Workers \ {w} : attempt'[u] = attempt[u]
    BY TurnsTyped DEF AddInv
  <1>2. AddTypes' /\ ClaimStands'
    BY <1>1 DEF AddInv, AddTypes, ClaimStands
  <1>3. \A u \in Workers :
          \/ attempt'[u] = None \/ attempt'[u].batch = None
          \/ /\ attempt[u] # None /\ attempt'[u].of = attempt[u].of
             /\ attempt'[u].batch = attempt[u].batch
    BY <1>1
  <1>4. at = "complete" => SavedSoFar(attempt'[w], tracked')
    <2> SUFFICES ASSUME at = "complete" PROVE SavedSoFar(attempt'[w], tracked')
      OBVIOUS
    <2>1. attempt[w].batch \in Batches
          /\ \A i \in 1 .. Len(attempt[w].batch) :
               i < attempt[w].next => attempt[w].batch[i] \in tracked
      BY DEF AddInv, SavedSoFar
    <2>2. attempt[w].next \in Nat
      BY <1>1 DEF Added
    <2>3. Len(attempt[w].batch) \in Nat
      BY <2>1, BatchesTyped
    <2>4. QED
      BY <1>1, <2>1, <2>2, <2>3 DEF SavedSoFar
  <1>5. \A u \in Workers :
          \/ attempt'[u] = attempt[u] \/ SavedSoFar(attempt'[u], tracked')
    <2>1. at # "complete" => SavedSoFar(attempt'[w], tracked')
      BY <1>1 DEF AddInv, SavedSoFar
    <2>2. QED
      BY <1>1, <1>4, <2>1
  <1>6. QED
    BY <1>2, <1>3, <1>5, AddKeeps

LEMMA TakeAddKeeps ==
  ASSUME AddInv, NEW w \in Workers, D!Take(w)
  PROVE  AddInv'
  <1> DEFINE d == [of |-> job.id, at |-> "status", batch |-> None, next |-> 1]
  <1>1. /\ UNCHANGED <<status, count, tracked, drawn>>
        /\ job.at = "queued" /\ job' = [job EXCEPT !.at = "held", !.claim = w]
        /\ attempt' = [attempt EXCEPT ![w] = d]
    BY DEF D!Take
  <1>2. job \in AddJob /\ job.id = Len(drawn) /\ job.id > 0 /\ drawn \in Seq(SUBSET Batches)
    BY <1>1 DEF AddInv, AddTypes, ClaimStands
  <1>3. d \in Added /\ d.of \in DOMAIN drawn
    BY <1>2 DEF Added, AddJob
  <1>4. /\ job' \in AddJob /\ job'.at = "held" /\ job'.claim = w /\ job'.id = job.id
        /\ job'.kept = job.kept
    BY <1>1, <1>2 DEF AddJob
  <1>5. d.of = job.id /\ d.batch = None /\ d.at = "status" /\ SavedSoFar(d, tracked')
    BY DEF SavedSoFar
  <1> HIDE DEF d
  <1>6. /\ attempt' \in [Workers -> Added \cup {None}] /\ attempt'[w] = d
        /\ \A u \in Workers \ {w} : attempt'[u] = attempt[u]
    BY <1>1, <1>3 DEF AddInv, AddTypes
  <1>7. AddTypes' /\ ClaimStands'
    BY <1>1, <1>2, <1>3, <1>4, <1>5, <1>6 DEF AddInv, AddTypes, ClaimStands
  <1>8. status' = "done" =>
           \E b \in Batches : Len(b) = count' /\ D!Words(b) \subseteq tracked'
    BY <1>1, ReportStays DEF AddInv
  <1>9. QED
    BY <1>1, <1>4, <1>5, <1>6, <1>7, <1>8, AddKeeps

(* An attempt that is over, one that is lost, and the end of the job.      *)
LEMMA EndAddKeeps ==
  ASSUME AddInv, NEW w \in Workers, UNCHANGED <<status, count, tracked, drawn>>,
         attempt' \in {attempt, [attempt EXCEPT ![w] = None]},
         \/ job' = job /\ job.claim # w
         \/ job' = D!NoJob
         \/ /\ job.claim = w
            /\ job' = [job EXCEPT !.at = "queued", !.claim = None, !.tries = @ + 1]
  PROVE  AddInv'
  <1>1. \A u \in Workers : attempt'[u] \in {attempt[u], None}
        /\ attempt' \in [Workers -> Added \cup {None}]
    BY DEF AddInv, AddTypes
  <1>2. D!NoJob \in AddJob /\ D!NoJob.at = "none" /\ D!NoJob.claim = None
    BY DEF D!NoJob, AddJob
  <1>3. /\ job' \in AddJob
        /\ job'.at # "none" => job.at # "none" /\ job'.id = job.id /\ job'.kept = job.kept
        /\ \A u \in Workers : job'.claim = u => job' = job
        /\ job'.at = "none" => job' = D!NoJob
    <2>1. CASE job' = job
      BY <2>1 DEF AddInv, AddTypes, ClaimStands
    <2>2. CASE job' = D!NoJob
      BY <1>2, <2>2
    <2>3. CASE /\ job.claim = w
               /\ job' = [job EXCEPT !.at = "queued", !.claim = None, !.tries = @ + 1]
      <3>1. job \in AddJob /\ job.at = "held" /\ None \notin Workers
        BY <2>3, AdditionsAssumption DEF AddInv, AddTypes, ClaimStands
      <3>2. job.tries + 1 \in Nat
        BY <3>1 DEF AddJob
      <3>3. /\ job' \in AddJob /\ job'.at = "queued" /\ job'.claim = None /\ job'.id = job.id
            /\ job'.kept = job.kept
        BY <2>3, <3>1, <3>2 DEF AddJob
      <3>4. QED
        BY <3>1, <3>3
    <2>4. QED
      BY <2>1, <2>2, <2>3
  <1>4. AddTypes' /\ ClaimStands'
    BY <1>1, <1>3 DEF AddInv, AddTypes, ClaimStands
  <1>5. status' = "done" =>
           \E b \in Batches : Len(b) = count' /\ D!Words(b) \subseteq tracked'
    BY ReportStays DEF AddInv
  <1>6. \A u \in Workers :
          \/ attempt'[u] = None \/ attempt'[u].batch = None
          \/ /\ attempt[u] # None /\ attempt'[u].of = attempt[u].of
             /\ attempt'[u].batch = attempt[u].batch
    BY <1>1
  <1>7. QED
    BY <1>1, <1>3, <1>4, <1>5, <1>6, AddKeeps

LEMMA ProposeKeeps ==
  ASSUME AddInv, NEW w \in Workers, D!Propose(w)
  PROVE  AddInv'
  <1>1. /\ UNCHANGED <<status, count, tracked, drawn>>
        /\ attempt[w] # None /\ attempt[w].at = "propose" /\ attempt[w] \in Added
    BY DEF D!Propose, D!Doing, AddInv, AddTypes
  <1>2. status' = "done" =>
           \E b \in Batches : Len(b) = count' /\ D!Words(b) \subseteq tracked'
    BY <1>1, ReportStays DEF AddInv
  <1>3. CASE job' = job /\ (D!Turns(w, "error") \/ D!Turns(w, "failing"))
    BY <1>1, <1>2, <1>3, TurnKeeps DEF AddInv, AddTypes
  <1>4. ASSUME NEW b \in Batches, job.claim = w, job.kept \in {None, b},
               attempt' = [attempt EXCEPT ![w].at = "save", ![w].batch = b],
               job' = [job EXCEPT !.kept = b]
        PROVE  AddInv'
    <2>1. /\ job \in AddJob /\ job.id = attempt[w].of /\ job.at = "held"
          /\ job.id \in DOMAIN drawn
      BY <1>1, <1>4 DEF AddInv, AddTypes, ClaimStands
    <2>2. /\ job' \in AddJob /\ job'.kept = b
          /\ job'.at = job.at /\ job'.id = job.id /\ job'.claim = job.claim
      BY <1>4, <2>1 DEF AddJob
    <2>3. /\ attempt' \in [Workers -> Added \cup {None}]
          /\ attempt'[w] \in Added /\ attempt'[w].of = job.id /\ attempt'[w].batch = b
          /\ attempt'[w].at = "save" /\ attempt'[w].next = attempt[w].next
          /\ \A u \in Workers \ {w} : attempt'[u] = attempt[u]
      BY <1>1, <1>4, <2>1 DEF AddInv, AddTypes, Added
    <2>4. AddTypes' /\ ClaimStands'
      BY <1>1, <2>1, <2>2, <2>3 DEF AddInv, AddTypes, ClaimStands
    <2>5. ASSUME NEW n \in DOMAIN drawn, n # job.id, NEW c, BatchIs(n, c)
          PROVE  BatchIs(n, c)'
      BY <1>1, <2>2, <2>3, <2>5 DEF BatchIs
    <2>6. BatchIs(job.id, job.kept)
      BY <2>1 DEF AddInv, BatchIs
    <2>7. PICK n \in DOMAIN drawn : n = job.id
      BY <2>1
    <2>8. BatchIs(n, b)'
      BY <1>1, <1>4, <2>1, <2>2, <2>3, <2>6, <2>7, AdditionsAssumption DEF BatchIs, AddInv, AddTypes
    <2>9. (\A m \in DOMAIN drawn : \E c \in Batches \cup {None} : BatchIs(m, c))'
      BY <1>1, <2>5, <2>7, <2>8 DEF AddInv
    <2>10. \A u \in Workers : SavedSoFar(attempt'[u], tracked')
      <3>1. attempt[w].next = 1
        BY <1>1 DEF AddInv, SavedSoFar
      <3>2. Len(b) \in Nat
        BY BatchesTyped
      <3>3. SavedSoFar(attempt'[w], tracked')
        BY <2>3, <3>1, <3>2 DEF SavedSoFar
      <3>4. QED
        BY <1>1, <2>3, <3>3 DEF AddInv
    <2>11. D!OneBatch'
      BY <1>1, <1>2 DEF AddInv, D!OneBatch, D!Words
    <2>12. QED
      BY <2>4, <2>9, <2>10, <2>11 DEF AddInv
  <1>5. CASE /\ job.claim = w /\ job.kept # None /\ job' = job
             /\ attempt' = [attempt EXCEPT ![w].at = "save", ![w].batch = job.kept]
    <2>1. job.kept \in Batches /\ job = [job EXCEPT !.kept = job.kept]
      BY <1>5 DEF AddInv, AddTypes, AddJob
    <2>2. QED
      BY <1>4, <1>5, <2>1
  <1>6. QED
    BY <1>3, <1>4, <1>5 DEF D!Propose, D!Owns, D!Keeps

LEMMA SaveKeeps ==
  ASSUME AddInv, NEW w \in Workers, D!Save(w)
  PROVE  AddInv'
  <1> DEFINE i == attempt[w].next
             b == attempt[w].batch
  <1>1. /\ UNCHANGED <<status, count, job>>
        /\ attempt[w] # None /\ attempt[w].at = "save" /\ attempt[w] \in Added
        /\ b \in Batches /\ attempt[w].of \in DOMAIN drawn
        /\ \A j \in 1 .. Len(b) : j < i => b[j] \in tracked
    BY DEF D!Save, D!Doing, AddInv, AddTypes, SavedSoFar
  <1>2. tracked \subseteq tracked'
    BY DEF D!Save
  <1>3. status' = "done" =>
           \E c \in Batches : Len(c) = count' /\ D!Words(c) \subseteq tracked'
    BY <1>1, <1>2, ReportStays DEF AddInv
  <1>4. CASE i > Len(b) /\ D!Turns(w, "complete") /\ UNCHANGED <<tracked, drawn>>
    BY <1>1, <1>3, <1>4, TurnKeeps DEF AddInv, AddTypes
  <1>5. CASE D!Turns(w, "failing") /\ UNCHANGED <<tracked, drawn>>
    BY <1>1, <1>3, <1>5, TurnKeeps DEF AddInv, AddTypes
  <1>6. CASE /\ i <= Len(b)
             /\ attempt' = [attempt EXCEPT ![w].next = i + 1]
             /\ tracked' = tracked \cup {b[i]}
             /\ drawn' = [drawn EXCEPT ![attempt[w].of] = @ \cup {b}]
    <2>1. i \in Nat /\ Len(b) \in Nat
      BY <1>1, BatchesTyped DEF Added
    <2>2. /\ attempt' \in [Workers -> Added \cup {None}]
          /\ attempt'[w] \in Added /\ attempt'[w].of = attempt[w].of /\ attempt'[w].batch = b
          /\ attempt'[w].at = "save" /\ attempt'[w].next = i + 1
          /\ \A u \in Workers \ {w} : attempt'[u] = attempt[u]
      BY <1>1, <1>6, <2>1 DEF AddInv, AddTypes, Added
    <2>3. /\ drawn' \in Seq(SUBSET Batches) /\ DOMAIN drawn' = DOMAIN drawn
          /\ Len(drawn') = Len(drawn)
          /\ \A n \in DOMAIN drawn : drawn'[n] \subseteq drawn[n] \cup {b}
          /\ \A n \in DOMAIN drawn : n # attempt[w].of => drawn'[n] = drawn[n]
      BY <1>1, <1>6 DEF AddInv, AddTypes
    <2>4. AddTypes' /\ ClaimStands'
      BY <1>1, <2>2, <2>3 DEF AddInv, AddTypes, ClaimStands
    <2>5. ASSUME NEW n \in DOMAIN drawn, NEW c \in Batches \cup {None}, BatchIs(n, c)
          PROVE  BatchIs(n, c)'
      <3>1. n = attempt[w].of => c = b
        BY <1>1, <2>5, AdditionsAssumption DEF BatchIs
      <3>2. drawn'[n] \subseteq {c} \ {None}
        BY <1>1, <2>3, <2>5, <3>1, AdditionsAssumption DEF BatchIs
      <3>3. QED
        BY <1>1, <2>2, <2>5, <3>2 DEF BatchIs
    <2>6. (\A n \in DOMAIN drawn : \E c \in Batches \cup {None} : BatchIs(n, c))'
      BY <2>3, <2>5 DEF AddInv
    <2>7. \A u \in Workers : SavedSoFar(attempt'[u], tracked')
      <3>1. SavedSoFar(attempt'[w], tracked')
        BY <1>1, <1>6, <2>1, <2>2 DEF SavedSoFar
      <3>2. QED
        BY <1>2, <2>2, <3>1 DEF AddInv, SavedSoFar
    <2>8. D!OneBatch'
      <3>1. ASSUME NEW n \in DOMAIN drawn' PROVE D!Cardinality(drawn'[n]) <= 1
        <4>1. PICK c : BatchIs(n, c)'
          BY <2>6
        <4>2. QED
          BY <4>1, OneIsEnough DEF BatchIs
      <3>2. QED
        BY <1>3, <3>1 DEF D!OneBatch, D!Words
    <2>9. QED
      BY <2>4, <2>6, <2>7, <2>8 DEF AddInv
  <1>7. QED
    BY <1>1, <1>4, <1>5, <1>6, BatchesTyped DEF D!Save, Added

LEMMA CompleteKeeps ==
  ASSUME AddInv, NEW w \in Workers, D!CompleteWordAutoAdd(w)
  PROVE  AddInv'
  <1> DEFINE b == attempt[w].batch
  <1>1. /\ UNCHANGED <<tracked, job, drawn>>
        /\ attempt[w] # None /\ b \in Batches /\ \A i \in 1 .. Len(b) : b[i] \in tracked
    BY DEF D!CompleteWordAutoAdd, D!Doing, AddInv, SavedSoFar
  <1>2. CASE status' = "done" /\ count' = Len(b) /\ D!Turns(w, "over")
    <2>1. D!Words(b) \subseteq tracked'
      BY <1>1 DEF D!Words
    <2>2. count' \in Nat
      BY <1>1, <1>2, BatchesTyped
    <2>3. QED
      BY <1>1, <1>2, <2>1, <2>2, TurnKeeps
  <1>3. CASE UNCHANGED <<status, count>> /\ D!Turns(w, "error")
    <2>1. status' = "done" =>
             \E c \in Batches : Len(c) = count' /\ D!Words(c) \subseteq tracked'
      BY <1>1, <1>3, ReportStays DEF AddInv
    <2>2. QED
      BY <1>1, <1>3, <2>1, TurnKeeps DEF AddInv, AddTypes
  <1>4. QED
    BY <1>2, <1>3 DEF D!CompleteWordAutoAdd

LEMMA OtherTurnsKeep ==
  ASSUME AddInv, NEW w \in Workers,
         D!Stop(w) \/ D!ReadStatus(w) \/ D!FailWordAutoAdd(w)
  PROVE  AddInv'
  <1>1. /\ UNCHANGED <<tracked, job, drawn>> /\ attempt[w] # None /\ count' = count
        /\ status' = status \/ status' = "failed"
        /\ \/ D!Turns(w, "error") \/ D!Turns(w, "over")
           \/ attempt[w].at = "status" /\ D!Turns(w, "propose")
    BY DEF D!Stop, D!ReadStatus, D!FailWordAutoAdd, D!Doing
  <1>2. status' = "done" =>
           \E b \in Batches : Len(b) = count' /\ D!Words(b) \subseteq tracked'
    BY <1>1, ReportStays DEF AddInv
  <1>3. QED
    BY <1>1, <1>2, TurnKeeps DEF AddInv, AddTypes

LEMMA ClaimEnds ==
  ASSUME AddInv, NEW w \in Workers, D!LoseClaim(w) \/ D!Finish(w)
  PROVE  AddInv'
  BY EndAddKeeps DEF D!LoseClaim, D!Finish, D!Owns

LEMMA AddNext ==
  ASSUME AddInv, [D!Next]_D!vars
  PROVE  AddInv'
  <1>1. CASE UNCHANGED D!vars
    BY <1>1, Unmoved DEF D!vars
  <1>2. ASSUME NEW p \in Draws, D!Press(p) \/ D!StartWordAutoAdd(p) \/ D!Enqueue(p)
        PROVE  AddInv'
    BY <1>2, RequestsKeep, EnqueueAddKeeps
  <1>3. ASSUME NEW w \in Workers,
               \/ D!Take(w) \/ D!LoseClaim(w) \/ D!Stop(w) \/ D!ReadStatus(w) \/ D!Propose(w)
               \/ D!Save(w) \/ D!FailWordAutoAdd(w) \/ D!CompleteWordAutoAdd(w) \/ D!Finish(w)
        PROVE  AddInv'
    BY <1>3, TakeAddKeeps, ClaimEnds, OtherTurnsKeep, ProposeKeeps, SaveKeeps, CompleteKeeps
  <1>4. QED
    BY <1>1, <1>2, <1>3 DEF D!Next

(* Of the presses that add new words, for any batches and any number of    *)
(* presses and faults: one job at most is in the queue, its claim is of    *)
(* the attempt that runs it, and what an attempt has drawn is the batch    *)
(* that its press keeps (transport/word_auto_add_job.go).                  *)
THEOREM AddInvariant == D!Spec => []AddInv
  BY AddInit, AddNext, PTL DEF D!Spec

(* One press draws one batch, whatever interrupts its job, and a press     *)
(* that reports success has a whole batch on the list (runWordAutoAdd in   *)
(* transport/word_auto_add_job.go).                                        *)
THEOREM PressDrawsOnce == LearningSpec => []OneBatch
  <1>1. LearningSpec => D!Spec
    <2>1. LearningInit => D!Init
      BY DEF LearningInit
    <2>2. [LearningNext]_<<part, vars, lessons, articles, lookups, additions, clips,
                           translations>> => [D!Next]_D!vars
      BY DEF LearningNext, additions, D!vars
    <2>3. QED
      BY <2>1, <2>2, PTL DEF LearningSpec, D!Spec
  <1>2. AddInv => OneBatch
    BY DEF AddInv, OneBatch
  <1>3. QED
    BY <1>1, <1>2, AddInvariant, PTL

HIDE AdditionsAssumption

-----------------------------------------------------------------------------
(* Clips (module Clips). *)

ClipUser ==
  [at : {"new", "look", "get", "unlink", "drop", "speak", "put", "record", "sweep", "erase",
         "end", "failed", "unreadable"},
   kind : {"none", "ask", "study"}, version : Settings \cup {None},
   got : P!Clips \cup {None}, disturbed : BOOLEAN]

(* A clip that is to be stored is whole, and of the version of its writer. *)
Proceeds(d) ==
  /\ d.at \in {"look", "get", "unlink", "drop", "speak", "put", "record"} =>
       d.version \in Settings
  /\ d.at \in {"new", "look"} => d.got = None
  /\ d.at \in {"put", "record"} =>
       d.got # None /\ d.got.version = d.version /\ d.got.whole

(* Who reads what the row names, and is not disturbed, finds it; nor is it *)
(* told otherwise.                                                         *)
FindsIt(d, clip) ==
  ~ d.disturbed =>
    /\ d.at = "get" => clip # None /\ clip.version = d.version
    /\ d.at # "unreadable"
    /\ d.got # None => d.got.version = d.version

(* Writers that did not cross come one at a time, and the object is as the *)
(* one that is between its two writes has left it.                         *)
WritesInTurn ==
  ~ crossed =>
    /\ \A q1, q2 \in Users : P!Writing(q1) /\ P!Writing(q2) => q1 = q2
    /\ \A q \in Users :
         /\ user[q].at \in {"drop", "erase"} => object = None
         /\ user[q].at = "record" => object = user[q].got
    /\ index # None /\ (\A q \in Users : ~ P!Writing(q)) =>
         object # None /\ object.version = index

ClipInv ==
  /\ object \in P!Clips \cup {None} /\ crossed \in BOOLEAN
  /\ index \in Settings \cup {None} /\ replica \in Settings \cup {None} /\ newest \in Settings
  /\ user \in [Users -> ClipUser]
  /\ object # None => object.whole
  /\ \A q \in Users : Proceeds(user[q]) /\ FindsIt(user[q], object)
  /\ WritesInTurn

USE ClipsAssumption

LEMMA ClipInit == ASSUME P!Init PROVE ClipInv
  <1>1. P!NewUser \in ClipUser /\ Proceeds(P!NewUser)
        /\ \A clip : FindsIt(P!NewUser, clip)
    BY DEF P!NewUser, ClipUser, Proceeds, FindsIt
  <1>2. P!NewUser.at = "new"
    BY DEF P!NewUser
  <1>3. /\ object = None /\ index = None /\ user = [q \in Users |-> P!NewUser]
        /\ crossed = FALSE
    BY DEF P!Init
  <1>4. WritesInTurn
    BY <1>2, <1>3 DEF WritesInTurn, P!Writing
  <1>5. replica = None /\ newest \in Settings
    BY DEF P!Init
  <1>6. QED
    BY <1>1, <1>3, <1>4, <1>5 DEF ClipInv

(* A step of a user that writes neither before it nor after it.            *)
LEMMA QuietKeeps ==
  ASSUME ClipInv, NEW q \in Users, UNCHANGED <<object, index, replica, newest, crossed>>,
         NEW d \in ClipUser, user' = [user EXCEPT ![q] = d],
         ~ P!Writing(q), d.at \notin {"drop", "record", "erase"},
         Proceeds(d), FindsIt(d, object)
  PROVE  ClipInv'
  <1>1. /\ user' \in [Users -> ClipUser] /\ user'[q] = d
        /\ \A p \in Users \ {q} : user'[p] = user[p]
    BY DEF ClipInv
  <1>2. \A p \in Users : P!Writing(p)' <=> P!Writing(p)
    BY <1>1 DEF P!Writing
  <1>3. WritesInTurn'
    BY <1>1, <1>2 DEF ClipInv, WritesInTurn
  <1>4. QED
    BY <1>1, <1>3 DEF ClipInv

(* A step after which nothing is said of the object and its row any more.  *)
LEMMA TornKeeps ==
  ASSUME ClipInv, NEW q \in Users, UNCHANGED <<object, replica, newest>>, crossed' = TRUE,
         index' \in Settings \cup {None},
         NEW d \in ClipUser, user' = [user EXCEPT ![q] = d], d.at # "get",
         Proceeds(d), FindsIt(d, object)
  PROVE  ClipInv'
  BY DEF ClipInv, WritesInTurn

(* What a write makes of the users. *)
LEMMA WritesTyped ==
  ASSUME ClipInv, NEW q \in Users, NEW at, P!Writes(q, at),
         at \in {"drop", "speak", "record", "end", "erase"}
  PROVE  /\ user' \in [Users -> ClipUser]
         /\ user'[q] = [user[q] EXCEPT !.at = at]
         /\ \A p \in Users \ {q} :
              /\ user'[p] = [user[p] EXCEPT !.disturbed = user[p].disturbed \/ user[p].at = "get"]
              /\ user'[p].at = user[p].at /\ user'[p].got = user[p].got
              /\ Proceeds(user'[p])
              /\ \A clip : FindsIt(user'[p], clip)
         /\ crossed' = (crossed \/ \E p \in Users \ {q} : P!Writing(p))
  <1>1. user \in [Users -> ClipUser] /\ \A p \in Users : Proceeds(user[p]) /\ FindsIt(user[p], object)
    BY DEF ClipInv
  <1>2. /\ user'[q] = [user[q] EXCEPT !.at = at]
        /\ crossed' = (crossed \/ \E p \in Users \ {q} : P!Writing(p))
    BY DEF P!Writes
  <1>3. user'[q] \in ClipUser
    BY <1>1, <1>2 DEF ClipUser
  <1>4. ASSUME NEW p \in Users \ {q}
        PROVE  /\ user'[p] = [user[p] EXCEPT !.disturbed = user[p].disturbed \/ user[p].at = "get"]
               /\ user'[p] \in ClipUser
               /\ user'[p].at = user[p].at /\ user'[p].got = user[p].got
               /\ Proceeds(user'[p]) /\ \A clip : FindsIt(user'[p], clip)
    <2>1. user'[p] = [user[p] EXCEPT !.disturbed = user[p].disturbed \/ user[p].at = "get"]
      BY DEF P!Writes, P!Looking
    <2>2. PICK now \in BOOLEAN : now = (user[p].disturbed \/ user[p].at = "get")
      OBVIOUS
    <2>3. user'[p] = [user[p] EXCEPT !.disturbed = now]
      BY <2>1, <2>2
    <2>4. /\ user'[p] \in ClipUser /\ user'[p].disturbed = now
          /\ \A x \in {"at", "version", "got"} : user'[p][x] = user[p][x]
      BY <1>1, <2>3 DEF ClipUser
    <2>5. Proceeds(user'[p])
      BY <1>1, <2>4 DEF Proceeds
    <2>6. \A clip : FindsIt(user'[p], clip)
      BY <1>1, <2>2, <2>4 DEF FindsIt
    <2>7. QED
      BY <2>1, <2>4, <2>5, <2>6
  <1>5. user' \in [Users -> ClipUser]
    BY <1>3, <1>4 DEF P!Writes
  <1>6. QED
    BY <1>2, <1>4, <1>5

(* The first of two writes, and the second. *)
LEMMA BeginsKeeps ==
  ASSUME ClipInv, NEW q \in Users, NEW at, P!Writes(q, at), ~ P!Writing(q),
         UNCHANGED <<index, replica, newest>>,
         \/ at \in {"drop", "erase"} /\ object' = None
            /\ (at = "drop" => user[q].at = "unlink") /\ (at = "erase" => user[q].at = "sweep")
         \/ at = "record" /\ user[q].at = "put" /\ object' = user[q].got
  PROVE  ClipInv'
  <1> DEFINE d == user'[q]
  <1>1. /\ user' \in [Users -> ClipUser]
        /\ d = [user[q] EXCEPT !.at = at]
        /\ \A p \in Users \ {q} :
              /\ user'[p].at = user[p].at /\ user'[p].got = user[p].got
              /\ Proceeds(user'[p]) /\ \A clip : FindsIt(user'[p], clip)
        /\ crossed' = (crossed \/ \E p \in Users \ {q} : P!Writing(p))
    BY WritesTyped
  <1>2. /\ d.at = at /\ \A x \in {"version", "got", "disturbed"} : d[x] = user[q][x]
        /\ user[q] \in ClipUser
    BY <1>1 DEF ClipInv, ClipUser
  <1>3. Proceeds(d) /\ FindsIt(d, object')
    BY <1>2 DEF ClipInv, Proceeds, FindsIt
  <1>4. object' \in P!Clips \cup {None} /\ (object' # None => object'.whole)
    <2>1. CASE object' = None
      BY <2>1
    <2>2. CASE user[q].at = "put" /\ object' = user[q].got
      BY <1>2, <2>2 DEF ClipInv, Proceeds, ClipUser, P!Clips
    <2>3. QED
      BY <2>1, <2>2
  <1>5. WritesInTurn'
    <2>1. CASE crossed'
      BY <2>1 DEF WritesInTurn
    <2>2. CASE ~ crossed'
      <3>1. P!Writing(q)' /\ \A p \in Users \ {q} : ~ P!Writing(p)'
        BY <1>1, <1>2, <2>2 DEF P!Writing
      <3>2. /\ at \in {"drop", "erase"} => object' = None
            /\ at = "record" => object' = d.got
        BY <1>2
      <3>3. QED
        BY <1>1, <1>2, <3>1, <3>2 DEF WritesInTurn, P!Writing
    <2>3. QED
      BY <2>1, <2>2
  <1>6. QED
    BY <1>1, <1>3, <1>4, <1>5 DEF ClipInv

LEMMA EndsKeeps ==
  ASSUME ClipInv, NEW q \in Users, NEW at, P!Writes(q, at),
         UNCHANGED <<object, replica, newest>>,
         \/ user[q].at = "drop" /\ at = "speak" /\ index' = None
         \/ user[q].at = "erase" /\ at = "end" /\ index' = None
         \/ user[q].at = "record" /\ at = "end" /\ index' = user[q].version
  PROVE  ClipInv'
  <1> DEFINE d == user'[q]
  <1>1. /\ user' \in [Users -> ClipUser]
        /\ d = [user[q] EXCEPT !.at = at]
        /\ \A p \in Users \ {q} :
              /\ user'[p].at = user[p].at /\ user'[p].got = user[p].got
              /\ Proceeds(user'[p]) /\ \A clip : FindsIt(user'[p], clip)
        /\ crossed' = (crossed \/ \E p \in Users \ {q} : P!Writing(p))
    BY WritesTyped
  <1>2. /\ d.at = at /\ \A x \in {"version", "got", "disturbed"} : d[x] = user[q][x]
        /\ user[q] \in ClipUser
    BY <1>1 DEF ClipInv, ClipUser
  <1>3. Proceeds(d) /\ FindsIt(d, object)
    BY <1>2 DEF ClipInv, Proceeds, FindsIt
  <1>4. index' \in Settings \cup {None}
    BY DEF ClipInv, Proceeds
  <1>5. WritesInTurn'
    <2>1. CASE crossed'
      BY <2>1 DEF WritesInTurn
    <2>2. CASE ~ crossed'
      <3>1. ~ crossed /\ \A p \in Users : ~ P!Writing(p)'
        BY <1>1, <1>2, <2>2 DEF P!Writing
      <3>2. index' # None => object # None /\ object.version = index'
        <4>1. SUFFICES ASSUME user[q].at = "record", index' = user[q].version
                       PROVE  object # None /\ object.version = index'
          BY DEF P!Writing
        <4>2. object = user[q].got
          BY <3>1, <4>1 DEF ClipInv, WritesInTurn
        <4>3. user[q].got # None /\ user[q].got.version = user[q].version
          BY <4>1 DEF ClipInv, Proceeds
        <4>4. QED
          BY <4>1, <4>2, <4>3
      <3>3. QED
        BY <3>1, <3>2 DEF WritesInTurn, P!Writing
    <2>3. QED
      BY <2>1, <2>2
  <1>6. QED
    BY <1>1, <1>3, <1>4, <1>5 DEF ClipInv

(* The steps of a request, of a study and of a sweep, by what they do to   *)
(* the object and its row.                                                 *)
LEMMA AsksKeep ==
  ASSUME ClipInv, NEW q \in Users, P!Ask(q) \/ P!Study(q) \/ P!Sweep(q)
  PROVE  ClipInv'
  <1>1. /\ UNCHANGED <<object, index, replica, newest, crossed>> /\ user[q].at = "new"
        /\ user[q] \in ClipUser /\ Proceeds(user[q]) /\ FindsIt(user[q], object)
    BY DEF P!Ask, P!Study, P!Sweep, ClipInv
  <1>2. ~ P!Writing(q) /\ user[q].got = None
    BY <1>1 DEF P!Writing, Proceeds
  <1>3. ASSUME NEW at \in {"look", "speak"}, NEW kind \in {"ask", "study"}, NEW v \in Settings,
               user' = [user EXCEPT ![q].at = at, ![q].kind = kind, ![q].version = v]
        PROVE  ClipInv'
    <2>1. PICK d : d = [user[q] EXCEPT !.at = at, !.kind = kind, !.version = v]
      OBVIOUS
    <2>2. /\ d \in ClipUser /\ d.at = at /\ d.version = v /\ d.got = None
          /\ d.disturbed = user[q].disturbed
      BY <1>1, <1>2, <2>1 DEF ClipUser
    <2>3. Proceeds(d) /\ FindsIt(d, object)
      BY <2>2 DEF Proceeds, FindsIt
    <2>4. user' = [user EXCEPT ![q] = d]
      BY <1>1, <1>3, <2>1 DEF ClipInv
    <2>5. QED
      BY <1>1, <1>2, <2>2, <2>3, <2>4, QuietKeeps
  <1>4. CASE P!Ask(q)
    BY <1>3, <1>4 DEF P!Ask
  <1>5. CASE P!Study(q)
    <2>1. newest \in Settings
      BY DEF ClipInv
    <2>2. QED
      BY <1>3, <1>5, <2>1 DEF P!Study
  <1>6. CASE P!Sweep(q)
    <2>1. PICK d : d = [user[q] EXCEPT !.at = "sweep"]
      OBVIOUS
    <2>2. /\ d \in ClipUser /\ d.at = "sweep" /\ d.got = None
          /\ d.disturbed = user[q].disturbed
      BY <1>1, <1>2, <2>1 DEF ClipUser
    <2>3. Proceeds(d) /\ FindsIt(d, object)
      BY <2>2 DEF Proceeds, FindsIt
    <2>4. user' = [user EXCEPT ![q] = d]
      BY <1>1, <1>6, <2>1 DEF ClipInv, P!Sweep, P!Goes
    <2>5. QED
      BY <1>1, <1>2, <2>2, <2>3, <2>4, QuietKeeps
  <1>7. QED
    BY <1>4, <1>5, <1>6

(* A user that only goes on, or holds a clip of its version, or has looked. *)
LEMMA GoesKeeps ==
  ASSUME ClipInv, NEW q \in Users, UNCHANGED <<object, index, replica, newest, crossed>>, ~ P!Writing(q),
         NEW at \in {"speak", "put", "end", "failed", "unreadable"}, NEW got,
         user' = [user EXCEPT ![q].at = at, ![q].got = got],
         user[q].at # "new", at = "speak" => user[q].at \in {"look", "unlink"},
         at = "unreadable" => user[q].disturbed,
         at = "put" => user[q].at = "speak"
                       /\ got # None /\ got.version = user[q].version /\ got.whole,
         got \in P!Clips \cup {None},
         got = user[q].got \/ got = None
           \/ got.version = user[q].version \/ user[q].disturbed
  PROVE  ClipInv'
  <1>1. user[q] \in ClipUser /\ Proceeds(user[q]) /\ FindsIt(user[q], object)
    BY DEF ClipInv
  <1>2. PICK d : d = [user[q] EXCEPT !.at = at, !.got = got]
    OBVIOUS
  <1>3. /\ d \in ClipUser /\ d.at = at /\ d.got = got
        /\ d.version = user[q].version /\ d.disturbed = user[q].disturbed
    BY <1>1, <1>2 DEF ClipUser
  <1>4. Proceeds(d) /\ FindsIt(d, object)
    BY <1>1, <1>3 DEF Proceeds, FindsIt
  <1>5. user' = [user EXCEPT ![q] = d]
    BY <1>1, <1>2 DEF ClipInv
  <1>6. QED
    BY <1>3, <1>4, <1>5, QuietKeeps

LEMMA GoesIsGot ==
  ASSUME ClipInv, NEW q \in Users, NEW at
  PROVE  /\ P!Goes(q, at) => user' = [user EXCEPT ![q].at = at, ![q].got = user[q].got]
         /\ user[q].got \in P!Clips \cup {None}
  <1>1. user[q] \in ClipUser
    BY DEF ClipInv
  <1>2. [user[q] EXCEPT !.at = at] = [user[q] EXCEPT !.at = at, !.got = user[q].got]
    BY <1>1 DEF ClipUser
  <1>3. QED
    BY <1>1, <1>2 DEF P!Goes, ClipUser, ClipInv

LEMMA LookupKeeps ==
  ASSUME ClipInv, NEW q \in Users, P!Lookup(q)
  PROVE  ClipInv'
  <1>1. /\ UNCHANGED <<object, index, replica, newest, crossed>> /\ user[q].at = "look" /\ ~ P!Writing(q)
        /\ user[q] \in ClipUser /\ Proceeds(user[q]) /\ FindsIt(user[q], object)
    BY DEF P!Lookup, ClipInv, P!Writing
  <1>2. CASE P!Goes(q, "failed")
    BY <1>1, <1>2, GoesIsGot, GoesKeeps
  <1>3. ASSUME NEW at, NEW now \in BOOLEAN,
               at = IF replica = None THEN "speak"
                    ELSE IF P!Stale(replica, user[q].version) THEN "unlink" ELSE "get",
               now = (replica # index \/ crossed \/ \E p \in Users : P!Writing(p)),
               user' = [user EXCEPT ![q].at = at, ![q].disturbed = now]
        PROVE  ClipInv'
    <2>1. PICK d : d = [user[q] EXCEPT !.at = at, !.disturbed = now]
      OBVIOUS
    <2>2. /\ d \in ClipUser /\ d.at = at /\ d.disturbed = now
          /\ d.version = user[q].version /\ d.got = user[q].got
          /\ at \in {"speak", "unlink", "get"}
      BY <1>1, <1>3, <2>1 DEF ClipUser
    <2>3. Proceeds(d)
      BY <1>1, <2>2 DEF Proceeds
    <2>4. FindsIt(d, object)
      <3>1. SUFFICES ASSUME ~ now
                     PROVE  /\ at = "get" => object # None /\ object.version = user[q].version
                            /\ user[q].got # None => user[q].got.version = user[q].version
        BY <2>2 DEF FindsIt
      <3>2. ~ crossed /\ replica = index /\ \A p \in Users : ~ P!Writing(p)
        BY <1>3, <3>1 DEF ClipInv
      <3>3. index # None => object # None /\ object.version = index
        BY <3>2 DEF ClipInv, WritesInTurn
      <3>4. at = "get" => index # None /\ index = user[q].version
        BY <1>3, <3>2 DEF P!Stale
      <3>5. user[q].got = None
        BY <1>1 DEF Proceeds
      <3>6. QED
        BY <3>3, <3>4, <3>5
    <2>5. user' = [user EXCEPT ![q] = d]
      BY <1>1, <1>3, <2>1 DEF ClipInv
    <2>6. QED
      BY <1>1, <2>2, <2>3, <2>4, <2>5, QuietKeeps
  <1>4. QED
    BY <1>2, <1>3 DEF P!Lookup, ClipInv

(* Clips of a user's own version. *)
LEMMA ClipTyped ==
  ASSUME NEW q \in Users, NEW whole \in BOOLEAN, user[q].version \in Settings
  PROVE  /\ P!Clip(q, whole) \in P!Clips /\ P!Clip(q, whole) # None
         /\ P!Clip(q, whole).version = user[q].version
         /\ P!Clip(q, whole).whole = whole
  BY DEF P!Clip, P!Clips

LEMMA GetKeeps ==
  ASSUME ClipInv, NEW q \in Users, P!Get(q)
  PROVE  ClipInv'
  <1>1. /\ UNCHANGED <<object, index, replica, newest, crossed>> /\ user[q].at = "get"
        /\ FindsIt(user[q], object) /\ object \in P!Clips \cup {None}
    BY DEF P!Get, ClipInv
  <1>2. ~ P!Writing(q)
    BY <1>1 DEF P!Writing
  <1>3. CASE object = None /\ P!Goes(q, "unreadable")
    BY <1>1, <1>2, <1>3, GoesIsGot, GoesKeeps DEF FindsIt
  <1>4. CASE object # None /\ P!Got(q, "end", object)
    BY <1>1, <1>2, <1>4, GoesKeeps DEF FindsIt, P!Got
  <1>5. QED
    BY <1>3, <1>4 DEF P!Get

LEMMA UnlinkKeeps ==
  ASSUME ClipInv, NEW q \in Users, P!Unlink(q)
  PROVE  ClipInv'
  <1>1. UNCHANGED <<index, replica, newest>> /\ user[q].at = "unlink" /\ ~ P!Writing(q)
    BY DEF P!Unlink, P!Writing
  <1>2. CASE P!Writes(q, "drop") /\ object' = None
    BY <1>1, <1>2, BeginsKeeps
  <1>3. CASE P!Goes(q, "speak") /\ UNCHANGED <<object, crossed>>
    BY <1>1, <1>3, GoesIsGot, GoesKeeps
  <1>4. QED
    BY <1>2, <1>3 DEF P!Unlink

(* A user that leaves off between its two writes.                          *)
LEMMA LeavesKeeps ==
  ASSUME ClipInv, NEW q \in Users, UNCHANGED <<object, index, replica, newest>>, crossed' = TRUE,
         NEW at \in {"speak", "end", "failed"}, NEW got \in {user[q].got, None},
         user' = [user EXCEPT ![q].at = at, ![q].got = got],
         at = "speak" => user[q].at = "drop"
  PROVE  ClipInv'
  <1>1. user[q] \in ClipUser /\ Proceeds(user[q]) /\ FindsIt(user[q], object)
    BY DEF ClipInv
  <1>2. PICK d : d = [user[q] EXCEPT !.at = at, !.got = got]
    OBVIOUS
  <1>3. /\ d \in ClipUser /\ d.at = at /\ d.got = got
        /\ d.version = user[q].version /\ d.disturbed = user[q].disturbed
    BY <1>1, <1>2 DEF ClipUser
  <1>4. Proceeds(d) /\ FindsIt(d, object)
    BY <1>1, <1>3 DEF Proceeds, FindsIt
  <1>5. user' = [user EXCEPT ![q] = d]
    BY <1>1, <1>2 DEF ClipInv
  <1>6. index' \in Settings \cup {None}
    BY DEF ClipInv
  <1>7. QED
    BY <1>3, <1>4, <1>5, <1>6, TornKeeps

LEMMA DropKeeps ==
  ASSUME ClipInv, NEW q \in Users, P!Drop(q)
  PROVE  ClipInv'
  <1>1. newest' = newest /\ user[q].at = "drop"
    BY DEF P!Drop
  <1>2. CASE P!Writes(q, "speak") /\ index' = None /\ UNCHANGED <<object, replica>>
    BY <1>1, <1>2, EndsKeeps
  <1>3. CASE P!Tears(q, "speak")
    BY <1>1, <1>3, GoesIsGot, LeavesKeeps DEF P!Tears
  <1>4. QED
    BY <1>2, <1>3 DEF P!Drop

LEMMA SpeakKeeps ==
  ASSUME ClipInv, NEW q \in Users, P!Speak(q)
  PROVE  ClipInv'
  <1>1. /\ UNCHANGED <<object, index, replica, newest, crossed>> /\ user[q].at = "speak"
        /\ user[q].version \in Settings
    BY DEF P!Speak, ClipInv, Proceeds
  <1>2. ~ P!Writing(q)
    BY <1>1 DEF P!Writing
  <1>3. CASE P!Got(q, "put", P!Clip(q, TRUE))
    BY <1>1, <1>2, <1>3, ClipTyped, GoesKeeps DEF P!Got
  <1>4. CASE P!Got(q, "end", P!Clip(q, FALSE))
    BY <1>1, <1>2, <1>4, ClipTyped, GoesKeeps DEF P!Got
  <1>5. CASE P!Got(q, "failed", None)
    BY <1>1, <1>2, <1>5, GoesKeeps DEF P!Got
  <1>6. QED
    BY <1>3, <1>4, <1>5 DEF P!Speak, P!Interrupted

LEMMA PutKeeps ==
  ASSUME ClipInv, NEW q \in Users, P!Put(q)
  PROVE  ClipInv'
  <1>1. UNCHANGED <<index, replica, newest>> /\ user[q].at = "put" /\ ~ P!Writing(q)
    BY DEF P!Put, P!Writing
  <1>2. CASE P!Writes(q, "record") /\ object' = user[q].got
    BY <1>1, <1>2, BeginsKeeps
  <1>3. CASE P!Unsaved(q) /\ UNCHANGED <<object, crossed>>
    <2>1. CASE P!Goes(q, "end")
      BY <1>1, <1>3, <2>1, GoesIsGot, GoesKeeps
    <2>2. CASE P!Got(q, "failed", None)
      BY <1>1, <1>3, <2>2, GoesKeeps DEF P!Got
    <2>3. QED
      BY <1>3, <2>1, <2>2 DEF P!Unsaved
  <1>4. QED
    BY <1>2, <1>3 DEF P!Put

LEMMA RecordClipKeeps ==
  ASSUME ClipInv, NEW q \in Users, P!Record(q)
  PROVE  ClipInv'
  <1>1. UNCHANGED <<object, replica, newest>> /\ user[q].at = "record"
    BY DEF P!Record
  <1>2. CASE P!Writes(q, "end") /\ index' = user[q].version
    BY <1>1, <1>2, EndsKeeps
  <1>3. CASE P!Unsaved(q) /\ crossed' = TRUE /\ index' = index
    <2>1. CASE P!Goes(q, "end")
      BY <1>1, <1>3, <2>1, GoesIsGot, LeavesKeeps
    <2>2. CASE P!Got(q, "failed", None)
      BY <1>1, <1>3, <2>2, LeavesKeeps DEF P!Got
    <2>3. QED
      BY <1>3, <2>1, <2>2 DEF P!Unsaved
  <1>4. QED
    BY <1>2, <1>3 DEF P!Record

LEMMA SweepKeeps ==
  ASSUME ClipInv, NEW q \in Users, P!SweepObject(q) \/ P!SweepRow(q)
  PROVE  ClipInv'
  <1>1. CASE P!SweepObject(q)
    <2>1. UNCHANGED <<index, replica, newest>> /\ user[q].at = "sweep" /\ ~ P!Writing(q)
      BY <1>1 DEF P!SweepObject, P!Writing
    <2>2. CASE P!Writes(q, "erase") /\ object' = None
      BY <2>1, <2>2, BeginsKeeps
    <2>3. CASE P!Goes(q, "end") /\ UNCHANGED <<object, crossed>>
      BY <2>1, <2>3, GoesIsGot, GoesKeeps
    <2>4. QED
      BY <1>1, <2>2, <2>3 DEF P!SweepObject
  <1>2. CASE P!SweepRow(q)
    <2>1. newest' = newest /\ user[q].at = "erase"
      BY <1>2 DEF P!SweepRow
    <2>2. CASE P!Writes(q, "end") /\ index' = None /\ UNCHANGED <<object, replica>>
      BY <2>1, <2>2, EndsKeeps
    <2>3. CASE P!Tears(q, "end")
      BY <2>1, <2>3, GoesIsGot, LeavesKeeps DEF P!Tears
    <2>4. QED
      BY <1>2, <2>2, <2>3 DEF P!SweepRow
  <1>3. QED
    BY <1>1, <1>2

LEMMA ClipNext ==
  ASSUME ClipInv, [P!Next]_P!vars
  PROVE  ClipInv'
  <1>1. CASE /\ UNCHANGED <<object, index, user, crossed>>
             /\ replica' \in {replica, index} /\ newest' \in Settings
    BY <1>1 DEF ClipInv, WritesInTurn, P!Writing
  <1>2. CASE UNCHANGED P!vars
    BY <1>1, <1>2 DEF P!vars, ClipInv
  <1>3. CASE P!Replicate \/ P!Expire \/ P!Deploy
    BY <1>1, <1>3 DEF P!Replicate, P!Expire, P!Deploy, ClipInv
  <1>4. ASSUME NEW q \in Users,
               \/ P!Ask(q) \/ P!Study(q) \/ P!Lookup(q) \/ P!Get(q) \/ P!Unlink(q) \/ P!Drop(q)
               \/ P!Speak(q) \/ P!Put(q) \/ P!Record(q)
               \/ P!Sweep(q) \/ P!SweepObject(q) \/ P!SweepRow(q)
        PROVE  ClipInv'
    BY <1>4, AsksKeep, LookupKeeps, GetKeeps, UnlinkKeeps, DropKeeps, SpeakKeeps, PutKeeps,
       RecordClipKeeps, SweepKeeps
  <1>5. QED
    BY <1>2, <1>3, <1>4 DEF P!Next

(* Of the clips, for every set of users and of settings: whoever is about  *)
(* to write, delete or play one has read what its row said, and what the   *)
(* store has under the row's key is whole (ttsstore.go).                   *)
THEOREM ClipInvariant == P!Spec => []ClipInv
  BY ClipInit, ClipNext, PTL DEF P!Spec

(* What is cached is whole and is what its row says, unless two writers    *)
(* crossed; and a request that nothing disturbed is played the clip of its *)
(* own settings (ttsstore.go).                                             *)
THEOREM CachedClipPlays == LearningSpec => []ClipsPlay
  <1>1. LearningSpec => P!Spec
    <2>1. LearningInit => P!Init
      BY DEF LearningInit
    <2>2. [LearningNext]_<<part, vars, lessons, articles, lookups, additions, clips,
                           translations>> => [P!Next]_P!vars
      BY DEF LearningNext, clips, P!vars
    <2>3. QED
      BY <2>1, <2>2, PTL DEF LearningSpec, P!Spec
  <1>2. ClipInv => ClipsPlay
    BY DEF ClipInv, WritesInTurn, FindsIt, ClipsPlay, P!ClipsPlay
  <1>3. QED
    BY <1>1, <1>2, ClipInvariant, PTL

HIDE ClipsAssumption

-----------------------------------------------------------------------------
(* Translations (module Translations). *)

Texts == T!Renderings \cup {"fill", "correct"}
Entry == [saved : BOOLEAN, translation : Texts \cup {None}, corrected : BOOLEAN]
PassOf == [kind : T!Kinds, todo : SUBSET Lines, seen : [Lines -> Entry],
           holds : BOOLEAN, stale : BOOLEAN, clean : BOOLEAN]
LiveOf == [at : {"unsaid", "checking", "drafted", "working", "answered", "told", "end"},
           answer : T!Renderings \cup {None}, kept : BOOLEAN]
Writes == T!Renderings \cup {"correction"}

TransTypes ==
  /\ transcript \in [Lines -> Entry] /\ shown \in [Lines -> Entry]
  /\ lines \in [Lines -> LiveOf] /\ detached \in [Lines -> SUBSET Writes]
  /\ passes \in [T!Kinds -> {"none", "queued", "running"}]
  /\ pass \in [Workers -> PassOf \cup {None}]
  /\ owed \subseteq Lines /\ filled \subseteq Lines /\ rivals \subseteq Lines
  /\ unsaved \subseteq Lines

(* Nothing that was saved or translated is taken back. *)
Behind(copy, now) ==
  \A t \in Lines : /\ copy[t].saved => now[t].saved
                   /\ copy[t].translation # None => now[t].translation # None

(* What the replica, and a pass, have is of an earlier transcript.         *)
CopiesStand ==
  /\ Behind(shown, transcript)
  /\ \A w \in Workers : pass[w] # None =>
       Behind(pass[w].seen, transcript) /\ \A t \in pass[w].todo : transcript[t].saved

EntriesStand ==
  \A t \in Lines :
    /\ lines[t].at = "unsaid" => t \notin unsaved /\ ~ transcript[t].saved
    /\ ~ transcript[t].saved => transcript[t].translation = None

(* The room has one pass of a kind under way, but for those that have lost *)
(* their claim.                                                            *)
OneOfAKind ==
  \A w \in Workers : pass[w] # None /\ ~ pass[w].stale =>
    /\ passes[pass[w].kind] = "running"
    /\ \A v \in Workers : pass[v] # None /\ ~ pass[v].stale /\ pass[v].kind = pass[w].kind =>
         v = w

(* What the pass of translation is owed it has still to come to, or has    *)
(* done, unless something failed in it.                                    *)
OwedStands ==
  /\ \A t \in owed : shown[t].saved
  /\ \A w \in Workers :
       pass[w] # None /\ ~ pass[w].stale /\ pass[w].clean /\ pass[w].kind = "translate" =>
         \A t \in owed : t \in pass[w].todo \/ transcript[t].translation # None

(* The job of a turn, and the detached writes that there are: an answer of *)
(* Judge's is kept, and another is written late by a job that has ended    *)
(* with it, or is the preview of the learner's turn.                       *)
Coherent(t, mine, left, rival) ==
  /\ mine.at \in {"unsaid", "checking"} => left = {}
  /\ mine.at \in {"unsaid", "checking", "drafted"} => mine.answer = None /\ ~ mine.kept
  /\ mine.at \in {"checking", "drafted"} => t \in follow.user
  /\ mine.at \in {"answered", "told"} => mine.answer # None
  /\ mine.kept => mine.answer \in {"judged", None}
  /\ mine.answer = "judged" \/ "judged" \in left => mine.kept
  /\ ~ rival /\ "refined" \in left => mine.at = "end" /\ mine.answer = "refined"
  /\ ~ rival /\ "draft" \in left =>
       t \in follow.user \/ (mine.at = "end" /\ mine.answer = "draft")

OwnStands == \A t \in Lines : Coherent(t, lines[t], detached[t], t \in rivals)

(* Whatever of the turn's own is to come will write this translation again: *)
Settled(mine, left, value) ==
  /\ \A text \in T!Renderings : text \in left => text = value
  /\ mine.at # "drafted"
  /\ mine.at = "working" => mine.kept /\ value = "judged"
  /\ mine.at = "answered" => mine.answer = "judged" /\ value = "judged"
  /\ mine.at = "told" => mine.answer = value

(* or it is the preview, which has been written. *)
Previewed(t, left, value) == t \in follow.user /\ value = "draft" /\ "draft" \notin left

Final(t, mine, left, value) ==
  /\ mine.at \notin {"unsaid", "checking"}
  /\ Settled(mine, left, value) \/ Previewed(t, left, value)

(* A translation that is no rival's has no other writer to come. *)
NoRival ==
  \A t \in Lines : transcript[t].translation # None /\ t \notin rivals =>
    /\ \A w \in Workers : ~ T!Pending(w, t)
    /\ Final(t, lines[t], detached[t], transcript[t].translation)

(* A pass holds a translation of a turn that it saw without one. *)
HoldsMissing ==
  \A w \in Workers :
    pass[w] # None /\ pass[w].holds /\ pass[w].todo # {} /\ pass[w].kind = "translate" =>
      pass[w].seen[T!Turn(w)].translation = None

TransInv ==
  /\ TransTypes /\ CopiesStand /\ EntriesStand /\ OneOfAKind /\ OwedStands
  /\ OwnStands /\ NoRival /\ HoldsMissing /\ T!ViewedIsFilled

(* What a step may do to a translation. *)
StandsOrYields(t) ==
  transcript[t].translation # None /\ t \notin rivals
    => transcript'[t].translation = transcript[t].translation \/ T!Yields(t)

USE TranslationsAssumption

LEMMA TurnOf ==
  ASSUME TransTypes, NEW w \in Workers, pass[w] # None, pass[w].todo # {}
  PROVE  T!Turn(w) \in pass[w].todo
  <1>1. pass[w].todo \subseteq Nat
    BY DEF TransTypes, PassOf
  <1>2. PICK t \in pass[w].todo : \A u \in pass[w].todo : ~ (<<u, t>> \in OpToRel(<, Nat))
    BY <1>1, WFMin, NatLessThanWellFounded
  <1>3. \A y, z \in Nat : y < z => <<y, z>> \in OpToRel(<, Nat)
    BY DEF OpToRel
  <1>4. ASSUME NEW u \in pass[w].todo
        PROVE  t <= u
    <2>1. t \in Nat /\ u \in Nat
      BY <1>1
    <2>2. ~ (u < t)
      BY <1>2, <1>3, <2>1
    <2>3. QED
      BY <2>1, <2>2
  <1>5. QED
    BY <1>4 DEF T!Turn

LEMMA TransInit == ASSUME T!Init PROVE TransInv
  <1>0. PICK no \in BOOLEAN : no = FALSE
    OBVIOUS
  <1>1. /\ T!Absent = [saved |-> no, translation |-> None, corrected |-> no]
        /\ T!Absent \in Entry /\ ~ T!Absent.saved /\ T!Absent.translation = None
    BY <1>0 DEF T!Absent, Entry
  <1>2. /\ unsaved = {} /\ transcript = [t \in Lines |-> T!Absent] /\ shown = transcript
        /\ passes = [k \in T!Kinds |-> "none"] /\ detached = [t \in Lines |-> {}]
        /\ pass = [w \in Workers |-> None] /\ owed = {} /\ filled = {} /\ rivals = {}
        /\ lines = [t \in Lines |-> [at |-> "unsaid", answer |-> None, kept |-> no]]
    BY <1>0 DEF T!Init
  <1>3. TransTypes
    BY <1>1, <1>2 DEF TransTypes, LiveOf
  <1>4. CopiesStand /\ EntriesStand
    BY <1>1, <1>2 DEF CopiesStand, EntriesStand, Behind
  <1>5. OneOfAKind /\ OwedStands /\ NoRival /\ HoldsMissing /\ T!ViewedIsFilled
    BY <1>1, <1>2 DEF OneOfAKind, OwedStands, NoRival, HoldsMissing, T!ViewedIsFilled
  <1>6. OwnStands
    BY <1>0, <1>2 DEF OwnStands, Coherent, T!Renderings
  <1>7. QED
    BY <1>3, <1>4, <1>5, <1>6 DEF TransInv

(* What is left to show of a step that takes nothing back.                 *)
LEMMA GrowKeeps ==
  ASSUME TransInv, TransTypes', Behind(transcript, transcript'),
         UNCHANGED <<shown, pass, passes, owed, filled>>,
         EntriesStand', OwnStands', NoRival'
  PROVE  TransInv'
  <1>1. CopiesStand'
    <2>1. ASSUME NEW copy, Behind(copy, transcript)
          PROVE  Behind(copy, transcript')
      BY <2>1 DEF Behind
    <2>2. ASSUME NEW w \in Workers, pass[w] # None
          PROVE  /\ Behind(pass[w].seen, transcript')
                 /\ \A t \in pass[w].todo : transcript'[t].saved
      BY <2>1, <2>2 DEF TransInv, CopiesStand, Behind, TransTypes, PassOf
    <2>3. QED
      BY <2>1, <2>2 DEF TransInv, CopiesStand
  <1>2. OneOfAKind' /\ HoldsMissing'
    BY DEF TransInv, OneOfAKind, HoldsMissing, T!Turn
  <1>3. OwedStands' /\ T!ViewedIsFilled'
    BY DEF TransInv, TransTypes, OwedStands, T!ViewedIsFilled, Behind
  <1>4. QED
    BY <1>1, <1>2, <1>3 DEF TransInv

(* An UPDATE of a turn that is there, or of none. *)
LEMMA Saves ==
  ASSUME TransInv, NEW t \in Lines, NEW value \in Texts,
         NEW others, T!SaveTranslation(t, value, others)
  PROVE  /\ transcript' \in [Lines -> Entry] /\ Behind(transcript, transcript')
         /\ rivals \subseteq rivals' /\ rivals' \subseteq rivals \cup {t}
         /\ transcript'[t].saved = transcript[t].saved
         /\ \A u \in Lines : u # t => transcript'[u] = transcript[u]
         /\ \/ ~ transcript[t].saved /\ transcript' = transcript
            \/ transcript[t].saved /\ transcript'[t].translation = value
         /\ transcript[t].translation = None /\ transcript[t].saved /\ others => t \in rivals'
  <1>0. None \notin Texts
    BY DEF Texts
  <1>1. CASE transcript[t].saved
    <2>1. transcript' = [transcript EXCEPT ![t].translation = value]
      BY <1>1 DEF T!SaveTranslation
    <2>2. /\ transcript' \in [Lines -> Entry]
          /\ transcript'[t].saved = transcript[t].saved
          /\ transcript'[t].translation = value
          /\ \A u \in Lines : u # t => transcript'[u] = transcript[u]
      BY <2>1 DEF TransInv, TransTypes, Entry
    <2>3. Behind(transcript, transcript')
      BY <1>0, <2>2 DEF Behind
    <2>4. rivals' \in {rivals, rivals \cup {t}}
      BY <1>1 DEF T!SaveTranslation
    <2>5. transcript[t].translation = None /\ others => t \in rivals'
      BY <1>1 DEF T!SaveTranslation
    <2>6. QED
      BY <1>1, <2>2, <2>3, <2>4, <2>5 DEF TransInv, TransTypes
  <1>2. CASE ~ transcript[t].saved
    BY <1>2 DEF T!SaveTranslation, TransInv, TransTypes, Behind
  <1>3. QED
    BY <1>1, <1>2

LEMMA SavesCorrection ==
  ASSUME TransInv, NEW t \in Lines, T!SaveCorrection(t) \/ UNCHANGED transcript
  PROVE  /\ transcript' \in [Lines -> Entry] /\ Behind(transcript, transcript')
         /\ \A u \in Lines : u # t => transcript'[u] = transcript[u]
         /\ transcript'[t].saved = transcript[t].saved
         /\ transcript'[t].translation = transcript[t].translation
  <1>1. transcript \in [Lines -> Entry]
    BY DEF TransInv, TransTypes
  <1>2. CASE UNCHANGED transcript
    BY <1>1, <1>2 DEF Behind
  <1>3. CASE T!SaveCorrection(t)
    <2>1. PICK whole \in BOOLEAN : whole = (transcript[t].corrected \/ transcript[t].saved)
      OBVIOUS
    <2>2. PICK entry : entry = [transcript[t] EXCEPT !.corrected = whole]
      OBVIOUS
    <2>3. transcript' = [transcript EXCEPT ![t] = entry]
      BY <1>1, <1>3, <2>1, <2>2 DEF T!SaveCorrection
    <2>4. /\ entry \in Entry /\ entry.saved = transcript[t].saved
          /\ entry.translation = transcript[t].translation
      BY <1>1, <2>2 DEF Entry
    <2>5. /\ transcript' \in [Lines -> Entry] /\ transcript'[t] = entry
          /\ \A u \in Lines : u # t => transcript'[u] = transcript[u]
      BY <1>1, <2>3, <2>4
    <2>6. QED
      BY <2>4, <2>5 DEF Behind
  <1>4. QED
    BY <1>2, <1>3

(* What is left to show of a step of a turn's own job, or of a detached    *)
(* write of it.                                                            *)
LEMMA OwnKeeps ==
  ASSUME TransInv, NEW t \in Lines, NEW mine \in LiveOf, NEW left \in SUBSET Writes,
         lines' = [lines EXCEPT ![t] = mine], detached' = [detached EXCEPT ![t] = left],
         mine.at # "unsaid", unsaved' = unsaved \/ unsaved' = unsaved \cup {t},
         UNCHANGED <<follow, shown, pass, passes, owed, filled>>,
         transcript' \in [Lines -> Entry],
         \A u \in Lines : u # t => transcript'[u] = transcript[u],
         transcript'[t].saved = transcript[t].saved,
         transcript[t].translation # None => transcript'[t].translation # None,
         transcript[t].saved \/ transcript'[t].translation = transcript[t].translation,
         rivals \subseteq rivals', rivals' \subseteq rivals \cup {t},
         Coherent(t, mine, left, t \in rivals'),
         transcript'[t].translation # None /\ t \notin rivals' =>
           /\ transcript[t].translation # None \/ \A w \in Workers : ~ T!Pending(w, t)
           /\ Final(t, mine, left, transcript'[t].translation)
  PROVE  TransInv'
  <1>1. /\ lines' \in [Lines -> LiveOf] /\ lines'[t] = mine
        /\ detached' \in [Lines -> SUBSET Writes] /\ detached'[t] = left
        /\ \A u \in Lines : u # t => lines'[u] = lines[u] /\ detached'[u] = detached[u]
    BY DEF TransInv, TransTypes
  <1>2. TransTypes'
    BY <1>1 DEF TransInv, TransTypes
  <1>3. EntriesStand' /\ Behind(transcript, transcript')
    BY <1>1 DEF TransInv, EntriesStand, Behind
  <1>4. \A u \in Lines : u # t => (u \in rivals' <=> u \in rivals)
    OBVIOUS
  <1>5. OwnStands'
    <2>1. ASSUME NEW u \in Lines
          PROVE  Coherent(u, lines[u], detached[u], u \in rivals)'
      <3>1. CASE u = t
        BY <1>1, <3>1 DEF Coherent
      <3>2. CASE u # t
        <4>1. Coherent(u, lines[u], detached[u], u \in rivals)
          BY DEF TransInv, OwnStands
        <4>2. QED
          BY <1>1, <1>4, <3>2, <4>1 DEF Coherent
      <3>3. QED
        BY <3>1, <3>2
    <2>2. QED
      BY <2>1 DEF OwnStands, Coherent
  <1>6. NoRival'
    <2>1. \A w \in Workers, u \in Lines : T!Pending(w, u)' <=> T!Pending(w, u)
      BY DEF T!Pending
    <2>2. ASSUME NEW u \in Lines, transcript'[u].translation # None, u \notin rivals'
          PROVE  /\ \A w \in Workers : ~ T!Pending(w, u)'
                 /\ Final(u, lines[u], detached[u], transcript[u].translation)'
      <3>1. CASE u = t
        <4>1. \A w \in Workers : ~ T!Pending(w, t)
          BY <2>2, <3>1 DEF TransInv, NoRival
        <4>2. Final(t, mine, left, transcript'[t].translation)
          BY <2>2, <3>1
        <4>3. QED
          BY <1>1, <2>1, <3>1, <4>1, <4>2 DEF Final, Settled, Previewed
      <3>2. CASE u # t
        <4>1. transcript[u].translation # None /\ u \notin rivals
          BY <1>4, <2>2, <3>2
        <4>2. /\ \A w \in Workers : ~ T!Pending(w, u)
              /\ Final(u, lines[u], detached[u], transcript[u].translation)
          BY <4>1 DEF TransInv, NoRival
        <4>3. QED
          BY <1>1, <2>1, <3>2, <4>2 DEF Final, Settled, Previewed
      <3>3. QED
        BY <3>1, <3>2
    <2>3. QED
      BY <2>2 DEF NoRival
  <1>7. QED
    BY <1>2, <1>3, <1>5, <1>6, GrowKeeps

(* The job of a turn, what it is to write, and that nothing else is. *)
LEMMA OwnOf ==
  ASSUME TransInv, NEW t \in Lines
  PROVE  /\ lines[t] \in LiveOf /\ detached[t] \in SUBSET Writes
         /\ lines \in [Lines -> LiveOf] /\ detached \in [Lines -> SUBSET Writes]
         /\ transcript \in [Lines -> Entry]
         /\ Coherent(t, lines[t], detached[t], t \in rivals)
         /\ lines[t].at = "unsaid" => ~ transcript[t].saved
         /\ ~ transcript[t].saved => transcript[t].translation = None
         /\ transcript[t].translation # None /\ t \notin rivals =>
              /\ \A w \in Workers : ~ T!Pending(w, t)
              /\ Final(t, lines[t], detached[t], transcript[t].translation)
  BY DEF TransInv, TransTypes, OwnStands, EntriesStand, NoRival

LEMMA SaidKeeps ==
  ASSUME TransInv, NEW t \in Lines, T!Say(t) \/ T!SaveTurn(t)
  PROVE  TransInv'
  <1>1. CASE T!Say(t)
    <2>1. PICK at \in {"end", "checking", "working"} :
            /\ lines' = [lines EXCEPT ![t].at = at]
            /\ at = "checking" => t \in follow.user
      BY <1>1 DEF T!Say, T!Goes
    <2>2. PICK mine : mine = [lines[t] EXCEPT !.at = at]
      OBVIOUS
    <2>3. lines' = [lines EXCEPT ![t] = mine] /\ lines[t].at = "unsaid"
      BY <1>1, <2>1, <2>2, OwnOf DEF T!Say
    <2>4. /\ mine \in LiveOf /\ mine.at = at /\ mine.answer = lines[t].answer
          /\ mine.kept = lines[t].kept
      BY <2>2, OwnOf DEF LiveOf
    <2>5. PICK left : left = detached[t]
      OBVIOUS
    <2>6. /\ detached' = [detached EXCEPT ![t] = left] /\ left \in SUBSET Writes
          /\ UNCHANGED <<follow, shown, pass, passes, owed, filled, transcript, rivals>>
          /\ unsaved' = unsaved \cup {t}
      BY <1>1, <2>5, OwnOf DEF T!Say, T!Passes
    <2>7. transcript[t].translation = None
      BY <2>3, OwnOf
    <2>8. Coherent(t, mine, left, t \in rivals)
      BY <2>1, <2>3, <2>4, <2>5, OwnOf DEF Coherent
    <2>9. QED
      BY <2>3, <2>4, <2>6, <2>7, <2>8, OwnKeeps, OwnOf
  <1>2. CASE T!SaveTurn(t)
    <2>1. /\ t \in unsaved /\ unsaved' = unsaved \ {t}
          /\ transcript' = [transcript EXCEPT ![t].saved = TRUE]
          /\ UNCHANGED <<follow, lines, detached, shown, passes, pass, owed, filled, rivals>>
      BY <1>2 DEF T!SaveTurn, T!Passes
    <2>0. PICK yes \in BOOLEAN : yes = TRUE
      OBVIOUS
    <2>a. transcript' = [transcript EXCEPT ![t].saved = yes]
      BY <2>0, <2>1
    <2>b. transcript \in [Lines -> Entry]
      BY DEF TransInv, TransTypes
    <2>c. /\ transcript'[t] = [transcript[t] EXCEPT !.saved = yes]
          /\ \A u \in Lines : u # t => transcript'[u] = transcript[u]
          /\ transcript' \in [Lines -> {transcript'[u] : u \in Lines}]
      BY <2>a, <2>b
    <2>d. /\ transcript'[t] \in Entry /\ transcript'[t].saved = yes
          /\ transcript'[t].translation = transcript[t].translation
      BY <2>b, <2>c DEF Entry
    <2>2. /\ transcript' \in [Lines -> Entry] /\ transcript'[t].saved
          /\ \A u \in Lines : /\ transcript'[u].translation = transcript[u].translation
                              /\ u # t => transcript'[u] = transcript[u]
      BY <2>0, <2>b, <2>c, <2>d
    <2>3. TransTypes' /\ EntriesStand'
      BY <2>1, <2>2 DEF TransInv, TransTypes, EntriesStand
    <2>4. NoRival'
      BY <2>1, <2>2 DEF TransInv, NoRival, T!Pending, Final, Settled, Previewed
    <2>5. Behind(transcript, transcript')
      BY <2>2 DEF Behind
    <2>6. OwnStands'
      BY <2>1 DEF TransInv, OwnStands, Coherent
    <2>7. QED
      BY <2>1, <2>3, <2>4, <2>5, <2>6, GrowKeeps
  <1>3. QED
    BY <1>1, <1>2

LEMMA PreviewKeeps ==
  ASSUME TransInv, NEW t \in Lines, T!Preview(t) \/ T!ReserveJob(t)
  PROVE  TransInv' /\ transcript'[t].translation = transcript[t].translation
         /\ \A u \in Lines : u # t => transcript'[u] = transcript[u]
  <1>1. CASE T!Preview(t)
    <2>1. PICK mine : mine = [lines[t] EXCEPT !.at = "drafted"]
      OBVIOUS
    <2>2. /\ lines' = [lines EXCEPT ![t] = mine] /\ lines[t].at = "checking"
          /\ mine \in LiveOf /\ mine.at = "drafted" /\ mine.answer = lines[t].answer
          /\ mine.kept = lines[t].kept
      BY <1>1, <2>1, OwnOf DEF T!Preview, T!Goes, LiveOf
    <2>3. PICK left \in {detached[t], {"correction", "draft"}} :
            detached' = [detached EXCEPT ![t] = left]
      BY <1>1, OwnOf DEF T!Preview
    <2>4. left \in SUBSET Writes /\ left \subseteq {"correction", "draft"}
      BY <2>2, <2>3, OwnOf DEF Writes, T!Renderings, Coherent
    <2>5. /\ UNCHANGED <<follow, shown, pass, passes, owed, filled, transcript, rivals>>
          /\ unsaved' = unsaved
      BY <1>1 DEF T!Preview, T!Passes
    <2>6. Coherent(t, mine, left, t \in rivals)
      BY <2>2, <2>4, OwnOf DEF Coherent
    <2>7. transcript[t].translation = None \/ t \in rivals
      BY <2>2, OwnOf DEF Final
    <2>8. QED
      BY <2>2, <2>3, <2>4, <2>5, <2>6, <2>7, OwnKeeps, OwnOf
  <1>2. CASE T!ReserveJob(t)
    <2>1. PICK mine : mine = [lines[t] EXCEPT !.at = "working"]
      OBVIOUS
    <2>2. /\ lines' = [lines EXCEPT ![t] = mine] /\ lines[t].at = "drafted"
          /\ mine \in LiveOf /\ mine.at = "working" /\ mine.answer = lines[t].answer
          /\ mine.kept = lines[t].kept
      BY <1>2, <2>1, OwnOf DEF T!ReserveJob, T!Goes, LiveOf
    <2>3. PICK left : left = detached[t]
      OBVIOUS
    <2>4. /\ UNCHANGED <<follow, shown, pass, passes, owed, filled, rivals>>
          /\ detached' = [detached EXCEPT ![t] = left] /\ unsaved' = unsaved
          /\ left \in SUBSET Writes
      BY <1>2, <2>3, OwnOf DEF T!ReserveJob, T!Passes
    <2>5. /\ transcript' \in [Lines -> Entry]
          /\ \A u \in Lines : u # t => transcript'[u] = transcript[u]
          /\ transcript'[t].saved = transcript[t].saved
          /\ transcript'[t].translation = transcript[t].translation
      <3>1. PICK yes \in BOOLEAN : yes = TRUE
        OBVIOUS
      <3>2. PICK entry : entry = [transcript[t] EXCEPT !.corrected = yes]
        OBVIOUS
      <3>3. transcript' = [transcript EXCEPT ![t] = entry] \/ transcript' = transcript
        BY <1>2, <3>1, <3>2 DEF T!ReserveJob
      <3>4. /\ entry \in Entry /\ entry.saved = transcript[t].saved
            /\ entry.translation = transcript[t].translation
        BY <3>2, OwnOf DEF Entry
      <3>5. QED
        BY <3>3, <3>4, OwnOf
    <2>6. Coherent(t, mine, left, t \in rivals)
      BY <2>2, <2>3, OwnOf DEF Coherent
    <2>7. transcript[t].translation # None /\ t \notin rivals =>
            Final(t, mine, left, transcript[t].translation)
      BY <2>2, <2>3, OwnOf DEF Final, Settled, Previewed
    <2>8. QED
      BY <2>2, <2>4, <2>5, <2>6, <2>7, OwnKeeps
  <1>3. QED
    BY <1>1, <1>2

LEMMA AnswerKeeps ==
  ASSUME TransInv, NEW t \in Lines, T!Answer(t)
  PROVE  TransInv' /\ transcript'[t].translation = transcript[t].translation
         /\ \A u \in Lines : u # t => transcript'[u] = transcript[u]
  <1>0. PICK yes \in BOOLEAN : yes = TRUE
    OBVIOUS
  <1>1. lines[t].at = "working"
    BY DEF T!Answer
  <1>2. PICK left : left = detached[t]
    OBVIOUS
  <1>3. /\ UNCHANGED <<follow, shown, pass, passes, owed, filled, rivals>>
        /\ detached' = [detached EXCEPT ![t] = left] /\ unsaved' = unsaved
        /\ left \in SUBSET Writes
    BY <1>2, OwnOf DEF T!Answer, T!Passes
  <1>4. T!SaveCorrection(t) \/ UNCHANGED transcript
    BY DEF T!Answer
  <1>5. /\ transcript' \in [Lines -> Entry] /\ Behind(transcript, transcript')
        /\ \A u \in Lines : u # t => transcript'[u] = transcript[u]
        /\ transcript'[t].saved = transcript[t].saved
        /\ transcript'[t].translation = transcript[t].translation
    BY <1>4, SavesCorrection
  <1>6. ASSUME NEW mine \in LiveOf, lines' = [lines EXCEPT ![t] = mine],
               mine.at # "unsaid", Coherent(t, mine, left, t \in rivals),
               transcript[t].translation # None /\ t \notin rivals =>
                 Final(t, mine, left, transcript[t].translation)
        PROVE  TransInv'
    BY <1>3, <1>5, <1>6, OwnKeeps
  <1>7. ASSUME lines' = [lines EXCEPT ![t] =
                           [at |-> "answered", answer |-> "judged", kept |-> TRUE]]
        PROVE  TransInv'
    <2>1. PICK mine : mine = [at |-> "answered", answer |-> "judged", kept |-> yes]
      OBVIOUS
    <2>2. lines' = [lines EXCEPT ![t] = mine]
      BY <1>0, <1>7, <2>1
    <2>3. /\ mine \in LiveOf /\ mine.at = "answered" /\ mine.answer = "judged" /\ mine.kept
      BY <1>0, <2>1 DEF LiveOf, T!Renderings
    <2>4. Coherent(t, mine, left, t \in rivals)
      BY <1>1, <1>2, <2>3, TranslationsAssumption, OwnOf DEF Coherent, T!Renderings
    <2>5. transcript[t].translation # None /\ t \notin rivals =>
            Final(t, mine, left, transcript[t].translation)
      BY <1>1, <1>2, <2>3, OwnOf DEF Final, Settled, Previewed
    <2>6. QED
      BY <1>6, <2>2, <2>3, <2>4, <2>5
  <1>8. ASSUME ~ lines[t].kept, NEW text \in {"draft", "refined"},
               lines' = [lines EXCEPT ![t].at = "answered", ![t].answer = text]
        PROVE  TransInv'
    <2>1. PICK mine : mine = [lines[t] EXCEPT !.at = "answered", !.answer = text]
      OBVIOUS
    <2>2. lines' = [lines EXCEPT ![t] = mine]
      BY <1>8, <2>1, OwnOf
    <2>3. /\ mine \in LiveOf /\ mine.at = "answered" /\ mine.answer = text /\ ~ mine.kept
      BY <1>8, <2>1, OwnOf DEF LiveOf, T!Renderings
    <2>4. Coherent(t, mine, left, t \in rivals)
      BY <1>1, <1>2, <1>8, <2>3, TranslationsAssumption, OwnOf DEF Coherent, T!Renderings
    <2>5. transcript[t].translation # None /\ t \notin rivals =>
            Final(t, mine, left, transcript[t].translation)
      BY <1>1, <1>2, <1>8, <2>3, OwnOf DEF Final, Settled, Previewed
    <2>6. QED
      BY <1>6, <2>2, <2>3, <2>4, <2>5
  <1>9. ASSUME T!Goes(t, "end")
        PROVE  TransInv'
    <2>1. PICK mine : mine = [lines[t] EXCEPT !.at = "end"]
      OBVIOUS
    <2>2. /\ lines' = [lines EXCEPT ![t] = mine]
          /\ mine \in LiveOf /\ mine.at = "end" /\ mine.answer = lines[t].answer
          /\ mine.kept = lines[t].kept
      BY <1>9, <2>1, OwnOf DEF T!Goes, LiveOf
    <2>3. Coherent(t, mine, left, t \in rivals)
      BY <1>1, <1>2, <2>2, OwnOf DEF Coherent
    <2>4. transcript[t].translation # None /\ t \notin rivals =>
            Final(t, mine, left, transcript[t].translation)
      BY <1>1, <1>2, <2>2, OwnOf DEF Final, Settled, Previewed
    <2>5. QED
      BY <1>6, <2>2, <2>3, <2>4
  <1>10. QED
    BY <1>5, <1>7, <1>8, <1>9 DEF T!Answer

(* A turn's own translation is its job's, or its preview, as it is written. *)
LEMMA Yielding ==
  ASSUME NEW t \in Lines, t \in follow.user, transcript[t].translation = "draft",
         transcript'[t].translation \in T!Renderings
  PROVE  transcript'[t].translation = transcript[t].translation \/ T!Yields(t)
  BY DEF T!Yields, T!Renderings

LEMMA TellKeeps ==
  ASSUME TransInv, NEW t \in Lines, T!TranslateLive(t)
  PROVE  TransInv' /\ StandsOrYields(t) /\ \A u \in Lines : u # t => transcript'[u] = transcript[u]
  <1>1. PICK mine : mine = [lines[t] EXCEPT !.at = "told"]
    OBVIOUS
  <1>2. /\ lines' = [lines EXCEPT ![t] = mine] /\ lines[t].at = "answered"
        /\ mine \in LiveOf /\ mine.at = "told" /\ mine.answer = lines[t].answer
        /\ mine.kept = lines[t].kept
    BY <1>1, OwnOf DEF T!TranslateLive, T!Goes, LiveOf
  <1>3. PICK left, value : left = detached[t] /\ value = lines[t].answer
    OBVIOUS
  <1>4. /\ UNCHANGED <<follow, shown, pass, passes, owed, filled>>
        /\ detached' = [detached EXCEPT ![t] = left] /\ unsaved' = unsaved
        /\ left \in SUBSET Writes
    BY <1>3, OwnOf DEF T!TranslateLive, T!Passes
  <1>5. /\ value \in T!Renderings /\ value \in Texts /\ value # None
        /\ "judged" \in left => value = "judged"
        /\ t \notin rivals => "refined" \notin left
        /\ t \notin rivals /\ "draft" \in left => t \in follow.user
        /\ value = "judged" => lines[t].kept
    BY <1>2, <1>3, OwnOf DEF LiveOf, Coherent, Texts
  <1>6. Coherent(t, mine, left, t \in rivals)
    BY <1>2, <1>3, OwnOf DEF Coherent
  <1>7. CASE UNCHANGED <<transcript, rivals>>
    <2>1. transcript[t].translation # None /\ t \notin rivals =>
            Final(t, mine, left, transcript[t].translation)
      BY <1>2, <1>3, OwnOf DEF Final, Settled, Previewed
    <2>2. QED
      BY <1>2, <1>4, <1>6, <1>7, <2>1, OwnKeeps, OwnOf DEF StandsOrYields
  <1>8. CASE T!SaveTranslation(t, value, T!Rivalled(t, value))
    <2>1. PICK others \in BOOLEAN : others = T!Rivalled(t, value)
      BY DEF T!Rivalled
    <2>2. T!SaveTranslation(t, value, others)
      BY <1>8, <2>1
    <2>3. /\ transcript' \in [Lines -> Entry] /\ Behind(transcript, transcript')
          /\ rivals \subseteq rivals' /\ rivals' \subseteq rivals \cup {t}
          /\ transcript'[t].saved = transcript[t].saved
          /\ \A u \in Lines : u # t => transcript'[u] = transcript[u]
          /\ \/ ~ transcript[t].saved /\ transcript' = transcript
             \/ transcript[t].saved /\ transcript'[t].translation = value
          /\ transcript[t].translation = None /\ transcript[t].saved /\ others => t \in rivals'
      BY <1>5, <2>2, Saves
    <2>4. Coherent(t, mine, left, t \in rivals')
      BY <1>6, <2>3 DEF Coherent
    <2>5. ASSUME transcript'[t].translation # None, t \notin rivals'
          PROVE  /\ transcript[t].translation # None \/ \A w \in Workers : ~ T!Pending(w, t)
                 /\ Final(t, mine, left, transcript'[t].translation)
      <3>1. t \notin rivals /\ transcript[t].saved /\ transcript'[t].translation = value
        BY <2>3, <2>5, OwnOf
      <3>2. CASE transcript[t].translation = None
        <4>1. ~ T!Rivalled(t, value)
          BY <2>1, <2>3, <2>5, <3>1, <3>2
        <4>2. \A w \in Workers : ~ T!Pending(w, t)
          BY <4>1 DEF T!Rivalled
        <4>3. (t \in follow.user /\ value = "draft")
              \/ \A text \in T!Renderings : text \in left => text = value
          BY <1>3, <4>1 DEF T!Rivalled
        <4>4. \A text \in T!Renderings : text \in left => text = value
          BY <1>5, <3>1, <4>3 DEF T!Renderings
        <4>5. QED
          BY <1>2, <1>3, <3>1, <4>2, <4>4 DEF Final, Settled
      <3>3. CASE transcript[t].translation # None
        <4>1. Final(t, lines[t], left, transcript[t].translation)
          BY <1>3, <3>1, <3>3, OwnOf
        <4>2. \A text \in T!Renderings : text \in left => text = value
          BY <1>2, <1>3, <1>5, <3>1, <4>1 DEF Final, Settled, Previewed, T!Renderings
        <4>3. QED
          BY <1>2, <1>3, <3>1, <3>3, <4>2 DEF Final, Settled
      <3>4. QED
        BY <3>2, <3>3
    <2>6. StandsOrYields(t)
      <3>1. ASSUME transcript[t].translation # None, t \notin rivals
            PROVE  transcript'[t].translation = transcript[t].translation \/ T!Yields(t)
        <4>1. Final(t, lines[t], left, transcript[t].translation)
          BY <1>3, <3>1, OwnOf
        <4>2. transcript'[t].translation = value
          BY <2>3, <3>1, OwnOf
        <4>3. \/ transcript[t].translation = value
              \/ t \in follow.user /\ transcript[t].translation = "draft"
          BY <1>2, <1>3, <4>1 DEF Final, Settled, Previewed
        <4>4. QED
          BY <1>5, <4>2, <4>3, Yielding
      <3>2. QED
        BY <3>1 DEF StandsOrYields
    <2>7. transcript[t].translation # None => transcript'[t].translation # None
      BY <1>5, <2>3, OwnOf
    <2>8. transcript[t].saved \/ transcript'[t].translation = transcript[t].translation
      BY <2>3
    <2>9. QED
      BY <1>2, <1>4, <2>3, <2>4, <2>5, <2>6, <2>7, <2>8, OwnKeeps
  <1>9. QED
    BY <1>3, <1>7, <1>8 DEF T!TranslateLive

LEMMA EventKeeps ==
  ASSUME TransInv, NEW t \in Lines, T!PersistEvent(t) \/ T!LoseLive(t)
  PROVE  TransInv' /\ transcript' = transcript
  <1>0. PICK value : value = lines[t].answer
    OBVIOUS
  <1>1. /\ lines[t].at \in {"answered", "told"}
        /\ UNCHANGED <<follow, shown, pass, passes, owed, filled, transcript>>
        /\ unsaved' = unsaved
    BY DEF T!PersistEvent, T!LoseLive, T!Passes
  <1>2. PICK left \in {detached[t], detached[t] \cup {value}} :
          detached' = [detached EXCEPT ![t] = left]
    BY <1>0, OwnOf DEF T!PersistEvent, T!LoseLive
  <1>3. /\ value \in T!Renderings /\ left \in SUBSET Writes
        /\ value = "judged" <=> lines[t].kept
        /\ "judged" \in left => value = "judged"
        /\ t \notin rivals => "refined" \notin detached[t]
        /\ t \notin rivals /\ "draft" \in detached[t] => t \in follow.user
    BY <1>0, <1>1, <1>2, OwnOf DEF LiveOf, Coherent, Writes, T!Renderings
  <1>4. CASE T!PersistEvent(t)
    <2>1. PICK mine : mine = [lines[t] EXCEPT !.at = "end"]
      OBVIOUS
    <2>2. /\ lines' = [lines EXCEPT ![t] = mine] /\ lines[t].at = "told" /\ rivals' = rivals
          /\ mine \in LiveOf /\ mine.at = "end" /\ mine.answer = value
          /\ mine.kept = lines[t].kept
      BY <1>0, <1>4, <2>1, OwnOf DEF T!PersistEvent, T!Goes, LiveOf
    <2>3. Coherent(t, mine, left, t \in rivals)
      BY <1>0, <1>1, <1>2, <1>3, <2>2, OwnOf DEF Coherent
    <2>4. ASSUME transcript[t].translation # None, t \notin rivals
          PROVE  Final(t, mine, left, transcript[t].translation)
      <3>1. Final(t, lines[t], detached[t], transcript[t].translation)
        BY <2>4, OwnOf
      <3>2. CASE Settled(lines[t], detached[t], transcript[t].translation)
        BY <1>0, <1>2, <2>2, <3>2 DEF Final, Settled
      <3>3. CASE Previewed(t, detached[t], transcript[t].translation)
        <4>1. CASE "draft" \notin left
          BY <2>2, <3>3, <4>1 DEF Final, Previewed
        <4>2. CASE "draft" \in left
          <5>1. value = "draft" /\ transcript[t].translation = "draft"
            BY <1>2, <3>3, <4>2 DEF Previewed
          <5>2. \A text \in T!Renderings : text \in left => text = "draft"
            BY <1>2, <1>3, <2>4, <5>1 DEF T!Renderings
          <5>3. QED
            BY <2>2, <5>1, <5>2 DEF Final, Settled
        <4>3. QED
          BY <4>1, <4>2
      <3>4. QED
        BY <3>1, <3>2, <3>3 DEF Final
    <2>5. QED
      BY <1>1, <1>2, <1>3, <2>2, <2>3, <2>4, OwnKeeps, OwnOf
  <1>5. CASE T!LoseLive(t)
    <2>1. PICK mine : mine = [lines[t] EXCEPT !.at = "working", !.answer = None]
      OBVIOUS
    <2>2. /\ lines' = [lines EXCEPT ![t] = mine]
          /\ mine \in LiveOf /\ mine.at = "working" /\ mine.answer = None
          /\ mine.kept = lines[t].kept
      BY <1>5, <2>1, OwnOf DEF T!LoseLive, LiveOf
    <2>3. rivals \subseteq rivals' /\ rivals' \subseteq rivals \cup {t}
      BY <1>5 DEF T!LoseLive
    <2>4. t \notin rivals' /\ value # "judged" =>
            lines[t].at = "answered" /\ left = detached[t]
      <3>1. ASSUME t \notin rivals', value # "judged"
            PROVE  lines[t].at = "answered" /\ detached' = detached
        BY <1>0, <1>1, <1>3, <1>5, <3>1 DEF T!LoseLive, T!Renderings
      <3>2. QED
        BY <1>2, <3>1, OwnOf
    <2>5. Coherent(t, mine, left, t \in rivals')
      BY <1>0, <1>1, <1>2, <1>3, <2>2, <2>3, <2>4, TranslationsAssumption, OwnOf
         DEF Coherent, T!Renderings
    <2>6. ASSUME transcript[t].translation # None, t \notin rivals'
          PROVE  Final(t, mine, left, transcript[t].translation)
      <3>1. Final(t, lines[t], detached[t], transcript[t].translation)
        BY <2>3, <2>6, OwnOf
      <3>2. CASE Settled(lines[t], detached[t], transcript[t].translation)
        <4>1. value = "judged" /\ transcript[t].translation = "judged" /\ lines[t].kept
          BY <1>0, <1>1, <1>3, <2>4, <2>6, <3>2 DEF Settled
        <4>2. QED
          BY <1>2, <2>2, <3>2, <4>1 DEF Final, Settled
      <3>3. CASE Previewed(t, detached[t], transcript[t].translation)
        BY <1>2, <2>2, <2>4, <2>6, <3>3 DEF Final, Previewed
      <3>4. QED
        BY <3>1, <3>2, <3>3 DEF Final
    <2>7. QED
      BY <1>1, <1>2, <1>3, <2>2, <2>3, <2>5, <2>6, OwnKeeps, OwnOf
  <1>6. QED
    BY <1>1, <1>4, <1>5

LEMMA LateKeeps ==
  ASSUME TransInv, NEW t \in Lines, NEW what \in detached[t], T!SaveLate(t, what)
  PROVE  TransInv' /\ StandsOrYields(t) /\ \A u \in Lines : u # t => transcript'[u] = transcript[u]
  <1>1. PICK mine, left : mine = lines[t] /\ left = detached[t] \ {what}
    OBVIOUS
  <1>2. /\ UNCHANGED <<follow, shown, pass, passes, owed, filled>>
        /\ lines' = [lines EXCEPT ![t] = mine]
        /\ detached' = [detached EXCEPT ![t] = left] /\ unsaved' = unsaved
        /\ mine \in LiveOf /\ left \in SUBSET Writes /\ left \subseteq detached[t]
        /\ what \in Writes
    BY <1>1, OwnOf DEF T!SaveLate, T!Passes
  <1>3. mine.at \notin {"unsaid", "checking"}
    BY <1>1, OwnOf DEF Coherent
  <1>4. Coherent(t, mine, left, t \in rivals)
    BY <1>1, <1>2, OwnOf DEF Coherent
  <1>5. CASE what = "correction"
    <2>1. /\ transcript' \in [Lines -> Entry] /\ rivals' = rivals
          /\ \A u \in Lines : u # t => transcript'[u] = transcript[u]
          /\ transcript'[t].saved = transcript[t].saved
          /\ transcript'[t].translation = transcript[t].translation
      BY <1>5, SavesCorrection DEF T!SaveLate
    <2>2. transcript[t].translation # None /\ t \notin rivals =>
            Final(t, mine, left, transcript[t].translation)
      BY <1>1, <1>2, OwnOf DEF Final, Settled, Previewed
    <2>3. QED
      BY <1>2, <1>3, <1>4, <2>1, <2>2, OwnKeeps DEF StandsOrYields
  <1>6. CASE what # "correction"
    <2>1. /\ what \in T!Renderings /\ what \in Texts /\ what # None
          /\ what = "judged" => mine.kept
          /\ mine.kept => mine.answer \in {"judged", None}
          /\ mine.at \in {"answered", "told"} => mine.answer # None
          /\ mine.kept => mine.at # "drafted"
          /\ "judged" \in left => mine.kept
          /\ t \notin rivals /\ what = "refined" => mine.at = "end" /\ mine.answer = "refined"
          /\ t \notin rivals /\ "refined" \in left =>
               mine.at = "end" /\ mine.answer = "refined"
          /\ t \notin rivals /\ what = "draft" /\ t \notin follow.user => mine.at = "end"
      BY <1>1, <1>2, <1>6, OwnOf DEF Coherent, Writes, Texts
    <2>2. PICK others \in BOOLEAN : others = T!Rivalled(t, what)
      BY DEF T!Rivalled
    <2>3. T!SaveTranslation(t, what, others)
      BY <1>6, <2>2 DEF T!SaveLate
    <2>4. /\ transcript' \in [Lines -> Entry] /\ Behind(transcript, transcript')
          /\ rivals \subseteq rivals' /\ rivals' \subseteq rivals \cup {t}
          /\ transcript'[t].saved = transcript[t].saved
          /\ \A u \in Lines : u # t => transcript'[u] = transcript[u]
          /\ \/ ~ transcript[t].saved /\ transcript' = transcript
             \/ transcript[t].saved /\ transcript'[t].translation = what
          /\ transcript[t].translation = None /\ transcript[t].saved /\ others => t \in rivals'
      BY <2>1, <2>3, Saves
    <2>5. Coherent(t, mine, left, t \in rivals')
      BY <1>4, <2>4 DEF Coherent
    <2>6. t \notin rivals /\ what # "draft" =>
            /\ mine.at # "drafted"
            /\ mine.at = "working" => mine.kept /\ what = "judged"
            /\ mine.at = "answered" => mine.answer = "judged" /\ what = "judged"
            /\ mine.at = "told" => mine.answer = what
      BY <2>1 DEF T!Renderings
    <2>7. ASSUME transcript'[t].translation # None, t \notin rivals'
          PROVE  /\ transcript[t].translation # None \/ \A w \in Workers : ~ T!Pending(w, t)
                 /\ Final(t, mine, left, transcript'[t].translation)
      <3>1. t \notin rivals /\ transcript[t].saved /\ transcript'[t].translation = what
        BY <2>4, <2>7, OwnOf
      <3>2. CASE transcript[t].translation = None
        <4>1. ~ T!Rivalled(t, what)
          BY <2>2, <2>4, <2>7, <3>1, <3>2
        <4>2. \A w \in Workers : ~ T!Pending(w, t)
          BY <4>1 DEF T!Rivalled
        <4>3. CASE t \in follow.user /\ what = "draft"
          BY <1>1, <1>3, <3>1, <4>2, <4>3 DEF Final, Previewed
        <4>4. CASE ~ (t \in follow.user /\ what = "draft")
          <5>1. \A text \in T!Renderings : text \in left => text = what
            BY <1>1, <4>1, <4>4 DEF T!Rivalled
          <5>2. CASE what = "draft"
            BY <2>1, <3>1, <4>2, <4>4, <5>1, <5>2 DEF Final, Settled
          <5>3. CASE what # "draft"
            BY <1>3, <2>6, <3>1, <4>2, <5>1, <5>3 DEF Final, Settled
          <5>4. QED
            BY <5>2, <5>3
        <4>5. QED
          BY <4>3, <4>4
      <3>3. CASE transcript[t].translation # None
        <4>1. Final(t, mine, detached[t], transcript[t].translation)
          BY <1>1, <3>1, <3>3, OwnOf
        <4>2. CASE Settled(mine, detached[t], transcript[t].translation)
          <5>1. transcript[t].translation = what
            BY <2>1, <4>2 DEF Settled
          <5>2. QED
            BY <1>2, <1>3, <3>1, <3>3, <4>2, <5>1 DEF Final, Settled
        <4>3. CASE Previewed(t, detached[t], transcript[t].translation)
          <5>1. what # "draft" /\ "draft" \notin left
            BY <1>2, <4>3 DEF Previewed
          <5>2. \A text \in T!Renderings : text \in left => text = what
            BY <2>1, <3>1, <5>1 DEF T!Renderings
          <5>3. QED
            BY <1>3, <2>6, <3>1, <3>3, <5>1, <5>2 DEF Final, Settled
        <4>4. QED
          BY <4>1, <4>2, <4>3 DEF Final
      <3>4. QED
        BY <3>2, <3>3
    <2>8. StandsOrYields(t)
      <3>1. ASSUME transcript[t].translation # None, t \notin rivals
            PROVE  transcript'[t].translation = transcript[t].translation \/ T!Yields(t)
        <4>1. Final(t, mine, detached[t], transcript[t].translation)
          BY <1>1, <3>1, OwnOf
        <4>2. transcript'[t].translation = what
          BY <2>4, <3>1, OwnOf
        <4>3. \/ transcript[t].translation = what
              \/ t \in follow.user /\ transcript[t].translation = "draft"
          BY <2>1, <4>1 DEF Final, Settled, Previewed
        <4>4. QED
          BY <2>1, <4>2, <4>3, Yielding
      <3>2. QED
        BY <3>1 DEF StandsOrYields
    <2>9. /\ transcript[t].translation # None => transcript'[t].translation # None
          /\ transcript[t].saved \/ transcript'[t].translation = transcript[t].translation
      BY <2>1, <2>4, OwnOf
    <2>10. QED
      BY <1>2, <1>3, <2>4, <2>5, <2>7, <2>8, <2>9, OwnKeeps
  <1>7. QED
    BY <1>5, <1>6

(* A step that leaves the turns' own jobs and writes alone. *)
LEMMA OwnRests ==
  ASSUME TransInv, UNCHANGED <<follow, lines, detached>>, rivals \subseteq rivals'
  PROVE  OwnStands'
  <1>1. ASSUME NEW t \in Lines
        PROVE  Coherent(t, lines[t], detached[t], t \in rivals)'
    <2>1. Coherent(t, lines[t], detached[t], t \in rivals)
      BY DEF TransInv, OwnStands
    <2>2. t \in rivals => t \in rivals'
      OBVIOUS
    <2>3. QED
      BY <2>1, <2>2 DEF Coherent
  <1>2. QED
    BY <1>1 DEF OwnStands

(* And in which no pass comes to a turn that is translated. *)
LEMMA NoRivalRests ==
  ASSUME TransInv, UNCHANGED <<follow, lines, detached>>, rivals \subseteq rivals',
         \A t \in Lines : transcript'[t].translation = transcript[t].translation,
         \A w \in Workers, t \in Lines :
           T!Pending(w, t)' => \/ T!Pending(w, t) \/ transcript[t].translation = None
                                \/ t \in rivals'
  PROVE  NoRival'
  <1>1. ASSUME NEW t \in Lines, transcript'[t].translation # None, t \notin rivals'
        PROVE  /\ \A w \in Workers : ~ T!Pending(w, t)'
               /\ Final(t, lines[t], detached[t], transcript[t].translation)'
    <2>1. transcript[t].translation # None /\ t \notin rivals
      BY <1>1
    <2>2. /\ \A w \in Workers : ~ T!Pending(w, t)
          /\ Final(t, lines[t], detached[t], transcript[t].translation)
      BY <2>1 DEF TransInv, NoRival
    <2>3. QED
      BY <1>1, <2>1, <2>2 DEF Final, Settled, Previewed
  <1>2. QED
    BY <1>1 DEF NoRival

LEMMA ReplicateKeeps ==
  ASSUME TransInv, T!Replicate
  PROVE  TransInv'
  <1>1. /\ UNCHANGED <<follow, unsaved, transcript, lines, detached, rivals>>
        /\ UNCHANGED <<passes, pass, owed, filled>> /\ shown' = transcript
    BY DEF T!Replicate, T!Passes
  <1>2. TransTypes' /\ EntriesStand'
    BY <1>1 DEF TransInv, TransTypes, EntriesStand
  <1>3. CopiesStand'
    BY <1>1 DEF TransInv, CopiesStand, Behind
  <1>4. OneOfAKind' /\ HoldsMissing' /\ T!ViewedIsFilled'
    BY <1>1 DEF TransInv, OneOfAKind, HoldsMissing, T!Turn, T!ViewedIsFilled
  <1>a. \A w \in Workers, t \in Lines : T!Pending(w, t)' => T!Pending(w, t)
    BY <1>1 DEF T!Pending
  <1>b. OwnStands' /\ NoRival'
    BY <1>1, <1>a, OwnRests, NoRivalRests
  <1>5. OwedStands'
    BY <1>1 DEF TransInv, TransTypes, OwedStands, CopiesStand, Behind
  <1>6. QED
    BY <1>2, <1>3, <1>4, <1>5, <1>b DEF TransInv

LEMMA ViewKeeps ==
  ASSUME TransInv, NEW page_, T!View(page_)
  PROVE  TransInv'
  <1>1. UNCHANGED <<follow, unsaved, transcript, shown, lines, detached, pass, filled, rivals>>
    BY DEF T!View
  <1>a. \A w \in Workers, t \in Lines : T!Pending(w, t)' => T!Pending(w, t)
    BY <1>1 DEF T!Pending
  <1>b. OwnStands' /\ NoRival'
    BY <1>1, <1>a, OwnRests, NoRivalRests
  <1>2. CASE UNCHANGED <<passes, owed>>
    <2>1. Behind(transcript, transcript')
      BY <1>1 DEF Behind
    <2>2. TransTypes' /\ EntriesStand'
      BY <1>1, <1>2 DEF TransInv, TransTypes, EntriesStand
    <2>3. QED
      BY <1>1, <1>2, <1>b, <2>1, <2>2, GrowKeeps
  <1>3. ASSUME NEW queued \in SUBSET T!Kinds, \A k \in queued : passes[k] = "none",
               passes' = [k \in T!Kinds |-> IF k \in queued THEN "queued" ELSE passes[k]],
               owed' = IF "translate" \in queued THEN {t \in T!Saved : T!Missing(t)} ELSE owed
        PROVE  TransInv'
    <2>1. TransTypes'
      BY <1>1, <1>3 DEF TransInv, TransTypes, T!Saved
    <2>2. CopiesStand' /\ EntriesStand' /\ HoldsMissing' /\ T!ViewedIsFilled'
      BY <1>1 DEF TransInv, CopiesStand, EntriesStand, HoldsMissing, T!Turn, T!ViewedIsFilled
    <2>3. OneOfAKind'
      BY <1>1, <1>3 DEF TransInv, TransTypes, PassOf, OneOfAKind
    <2>4. OwedStands'
      <3>1. CASE "translate" \in queued
        <4>1. passes["translate"] = "none"
          BY <1>3, <3>1
        <4>2. \A w \in Workers : ~ (pass[w] # None /\ ~ pass[w].stale
                                    /\ pass[w].kind = "translate")
          BY <4>1 DEF TransInv, OneOfAKind
        <4>3. \A t \in owed' : shown[t].saved
          BY <1>3, <3>1 DEF T!Saved
        <4>4. QED
          BY <1>1, <4>2, <4>3 DEF OwedStands
      <3>2. CASE "translate" \notin queued
        BY <1>1, <1>3, <3>2 DEF TransInv, OwedStands
      <3>3. QED
        BY <3>1, <3>2
    <2>5. QED
      BY <1>b, <2>1, <2>2, <2>3, <2>4 DEF TransInv
  <1>4. QED
    <2> DEFINE wants == {k \in T!Kinds : \E t \in page_ : IF k = "translate" THEN T!Missing(t)
                                                          ELSE T!Uncorrected(t)}
               queued == {k \in wants : passes[k] = "none"}
    <2>1. \/ UNCHANGED <<passes, owed>>
          \/ /\ passes' = [k \in T!Kinds |-> IF k \in queued THEN "queued" ELSE passes[k]]
             /\ owed' = IF "translate" \in queued THEN {t \in T!Saved : T!Missing(t)} ELSE owed
      BY DEF T!View
    <2>2. queued \in SUBSET T!Kinds /\ \A k \in queued : passes[k] = "none"
      OBVIOUS
    <2> HIDE DEF queued
    <2>3. QED
      BY <1>2, <1>3, <2>1, <2>2

(* A step of one pass, that looks at no more turns than it had to.         *)
LEMMA MoveKeeps ==
  ASSUME TransInv, NEW w \in Workers, pass[w] # None,
         NEW moved \in PassOf, pass' = [pass EXCEPT ![w] = moved],
         moved.kind = pass[w].kind, moved.seen = pass[w].seen, moved.stale = pass[w].stale,
         moved.todo \subseteq pass[w].todo, moved.clean => pass[w].clean,
         moved.holds => moved.todo = pass[w].todo /\ ~ T!Skips(w, T!Turn(w)),
         moved.clean /\ moved.kind = "translate" =>
           \A t \in pass[w].todo \ moved.todo : transcript'[t].translation # None,
         UNCHANGED <<follow, unsaved, shown, lines, detached, passes, owed, filled>>,
         transcript' \in [Lines -> Entry], Behind(transcript, transcript'),
         rivals \subseteq rivals', rivals' \subseteq Lines, EntriesStand', NoRival'
  PROVE  TransInv'
  <1>1. /\ pass[w] \in PassOf /\ pass'[w] = moved
        /\ \A v \in Workers : v # w => pass'[v] = pass[v]
        /\ pass' \in [Workers -> PassOf \cup {None}]
    BY DEF TransInv, TransTypes
  <1>2. TransTypes'
    BY <1>1 DEF TransInv, TransTypes
  <1>3. CopiesStand'
    <2>1. ASSUME NEW copy, Behind(copy, transcript)
          PROVE  Behind(copy, transcript')
      BY <2>1 DEF Behind
    <2>2. ASSUME NEW v \in Workers, pass'[v] # None
          PROVE  /\ Behind(pass'[v].seen, transcript')
                 /\ \A t \in pass'[v].todo : transcript'[t].saved
      <3>1. /\ pass[v] # None /\ pass'[v].seen = pass[v].seen
            /\ pass'[v].todo \subseteq pass[v].todo /\ pass[v].todo \subseteq Lines
        BY <1>1, <2>2 DEF TransInv, TransTypes, PassOf
      <3>2. Behind(pass[v].seen, transcript) /\ \A t \in pass[v].todo : transcript[t].saved
        BY <3>1 DEF TransInv, CopiesStand
      <3>3. QED
        BY <2>1, <3>1, <3>2 DEF Behind
    <2>3. QED
      BY <2>1, <2>2 DEF TransInv, CopiesStand
  <1>4. OneOfAKind'
    BY <1>1 DEF TransInv, OneOfAKind
  <1>5. OwedStands'
    <2>1. ASSUME NEW v \in Workers, NEW t \in owed, pass'[v] # None, ~ pass'[v].stale,
                 pass'[v].clean, pass'[v].kind = "translate"
          PROVE  t \in pass'[v].todo \/ transcript'[t].translation # None
      <3>1. /\ pass[v] # None /\ ~ pass[v].stale /\ pass[v].clean
            /\ pass[v].kind = "translate"
        BY <1>1, <2>1
      <3>2. t \in pass[v].todo \/ transcript[t].translation # None
        BY <3>1 DEF TransInv, OwedStands
      <3>3. t \in Lines
        BY DEF TransInv, TransTypes
      <3>4. QED
        BY <1>1, <2>1, <3>2, <3>3 DEF Behind
    <2>2. QED
      BY <2>1 DEF TransInv, OwedStands
  <1>6. HoldsMissing'
    <2>1. ASSUME NEW v \in Workers, pass'[v] # None, pass'[v].holds, pass'[v].todo # {},
                 pass'[v].kind = "translate"
          PROVE  pass'[v].seen[T!Turn(v)'].translation = None
      <3>1. CASE v # w
        <4>1. pass'[v] = pass[v] /\ T!Turn(v)' = T!Turn(v)
          BY <1>1, <3>1 DEF T!Turn
        <4>2. QED
          BY <2>1, <4>1 DEF TransInv, HoldsMissing
      <3>2. CASE v = w
        <4>1. T!Turn(w)' = T!Turn(w)
          BY <1>1, <2>1, <3>2 DEF T!Turn
        <4>2. QED
          BY <1>1, <2>1, <3>2, <4>1 DEF T!Skips
      <3>3. QED
        BY <3>1, <3>2
    <2>2. QED
      BY <2>1 DEF HoldsMissing
  <1>7. T!ViewedIsFilled'
    BY DEF TransInv, TransTypes, T!ViewedIsFilled, Behind
  <1>8. OwnStands'
    BY OwnRests
  <1>9. QED
    BY <1>2, <1>3, <1>4, <1>5, <1>6, <1>7, <1>8 DEF TransInv

LEMMA PassKeeps ==
  ASSUME TransInv, NEW w \in Workers, T!Pass(w)
  PROVE  /\ TransInv'
         /\ \A u \in Lines : transcript'[u].translation = transcript[u].translation
  <1> DEFINE t == T!Turn(w)
  <1>1. /\ UNCHANGED <<follow, unsaved, shown, lines, detached, passes, owed, filled, rivals>>
        /\ pass[w] # None /\ pass[w].todo # {}
        /\ pass[w] \in PassOf /\ DOMAIN pass = Workers /\ rivals \subseteq Lines
        /\ T!SaveCorrection(t) \/ UNCHANGED transcript
    BY DEF T!Pass, TransInv, TransTypes
  <1>2. t \in pass[w].todo /\ t \in Lines
    BY <1>1, TurnOf DEF TransInv, PassOf
  <1> HIDE DEF t
  <1>a. /\ Behind(transcript, transcript') /\ transcript' \in [Lines -> Entry]
        /\ \A u \in Lines : /\ transcript'[u].saved = transcript[u].saved
                            /\ transcript'[u].translation = transcript[u].translation
    <2>1. /\ transcript' \in [Lines -> Entry] /\ Behind(transcript, transcript')
          /\ \A u \in Lines : u # t => transcript'[u] = transcript[u]
          /\ transcript'[t].saved = transcript[t].saved
          /\ transcript'[t].translation = transcript[t].translation
      BY <1>1, <1>2, SavesCorrection
    <2>2. QED
      BY <2>1
  <1>3. /\ Behind(transcript, transcript') /\ transcript' \in [Lines -> Entry]
        /\ rivals \subseteq rivals' /\ rivals' \subseteq Lines /\ EntriesStand'
    BY <1>1, <1>a DEF TransInv, EntriesStand
  <1>4. ASSUME NEW moved \in PassOf, pass' = [pass EXCEPT ![w] = moved],
               moved.seen = pass[w].seen, moved.todo \subseteq pass[w].todo
        PROVE  NoRival'
    <2>1. /\ pass'[w] = moved /\ \A v \in Workers : v # w => pass'[v] = pass[v]
      BY <1>1, <1>4
    <2>2. \A v \in Workers, u \in Lines : T!Pending(v, u)' => T!Pending(v, u)
      BY <1>1, <1>4, <2>1 DEF T!Pending
    <2>3. QED
      BY <1>1, <1>a, <2>2, NoRivalRests
  <1>5. PICK yes \in BOOLEAN, no \in BOOLEAN : yes = TRUE /\ no = FALSE
    OBVIOUS
  <1>6. ASSUME T!Skips(w, t), T!Onward(w)
        PROVE  TransInv'
    <2>1. PICK moved : moved = [pass[w] EXCEPT !.todo = @ \ {t}, !.holds = no]
      OBVIOUS
    <2>2. pass' = [pass EXCEPT ![w] = moved]
      BY <1>1, <1>5, <1>6, <2>1 DEF T!Onward, t
    <2>3. /\ moved \in PassOf /\ moved.kind = pass[w].kind /\ moved.seen = pass[w].seen
          /\ moved.stale = pass[w].stale /\ moved.todo = pass[w].todo \ {t}
          /\ moved.clean = pass[w].clean /\ moved.holds = no
      BY <1>1, <2>1 DEF PassOf
    <2>4. moved.kind = "translate" => transcript'[t].translation # None
      BY <1>1, <1>2, <1>6, <1>a, <2>3 DEF T!Skips, TransInv, CopiesStand, Behind
    <2>5. QED
      BY <1>1, <1>3, <1>4, <1>5, <2>2, <2>3, <2>4, MoveKeeps
  <1>7. ASSUME ~ T!Skips(w, t), pass' = [pass EXCEPT ![w].holds = TRUE]
        PROVE  TransInv'
    <2>1. PICK moved : moved = [pass[w] EXCEPT !.holds = yes]
      OBVIOUS
    <2>2. pass' = [pass EXCEPT ![w] = moved]
      BY <1>1, <1>5, <1>7, <2>1
    <2>3. /\ moved \in PassOf /\ moved.kind = pass[w].kind /\ moved.seen = pass[w].seen
          /\ moved.stale = pass[w].stale /\ moved.todo = pass[w].todo
          /\ moved.clean = pass[w].clean
      BY <1>1, <2>1 DEF PassOf
    <2>4. moved.holds => moved.todo = pass[w].todo /\ ~ T!Skips(w, T!Turn(w))
      BY <1>7, <2>3 DEF t
    <2>5. pass[w].todo \ moved.todo = {}
      BY <2>3
    <2>6. QED
      BY <1>1, <1>3, <1>4, <2>2, <2>3, <2>4, <2>5, MoveKeeps
  <1>8. ASSUME pass' = [pass EXCEPT ![w].todo = @ \ {t}, ![w].clean = FALSE]
        PROVE  TransInv'
    <2>1. PICK moved : moved = [pass[w] EXCEPT !.todo = @ \ {t}, !.clean = no]
      OBVIOUS
    <2>2. pass' = [pass EXCEPT ![w] = moved]
      BY <1>1, <1>5, <1>8, <2>1
    <2>3. /\ moved \in PassOf /\ moved.kind = pass[w].kind /\ moved.seen = pass[w].seen
          /\ moved.stale = pass[w].stale /\ moved.todo = pass[w].todo \ {t}
          /\ moved.clean = no /\ moved.holds = pass[w].holds
      BY <1>1, <2>1 DEF PassOf
    <2>4. ~ pass[w].holds
      BY DEF T!Pass
    <2>5. QED
      BY <1>1, <1>3, <1>4, <1>5, <2>2, <2>3, <2>4, MoveKeeps
  <1>9. QED
    BY <1>6, <1>7, <1>8, <1>a DEF T!Pass, t

LEMMA FillKeeps ==
  ASSUME TransInv, NEW w \in Workers, T!Fill(w)
  PROVE  TransInv' /\ \A t \in Lines : StandsOrYields(t)
  <1>0. PICK t : t = T!Turn(w)
    OBVIOUS
  <1>1. /\ UNCHANGED <<follow, unsaved, shown, lines, detached, passes, owed, filled>>
        /\ pass[w] # None /\ pass[w].todo # {} /\ pass[w].holds
        /\ pass[w] \in PassOf /\ DOMAIN pass = Workers
        /\ transcript \in [Lines -> Entry] /\ rivals \subseteq Lines
    BY DEF T!Fill, TransInv, TransTypes
  <1>2. t \in pass[w].todo /\ t \in Lines
    BY <1>0, <1>1, TurnOf DEF TransInv, PassOf
  <1>3. transcript[t].saved
    BY <1>1, <1>2 DEF TransInv, CopiesStand
  <1>a. PICK others \in BOOLEAN : others = T!Others(w, t)
    BY DEF T!Others
  <1>b. PICK no \in BOOLEAN : no = FALSE
    OBVIOUS
  <1>4. pass[w].kind = "correct" \/ pass[w].kind = "translate"
    BY <1>1 DEF PassOf, T!Kinds
  (* What is written of the turn. *)
  <1>5. \/ /\ UNCHANGED <<transcript, rivals>>
           /\ pass[w].kind = "correct" /\ T!Onward(w)
        \/ /\ UNCHANGED <<transcript, rivals>>
           /\ pass' = [pass EXCEPT ![w].todo = @ \ {t}, ![w].holds = FALSE, ![w].clean = FALSE]
        \/ /\ pass[w].seen[t].translation = None /\ T!Onward(w)
           /\ \E value \in {"correct", "fill"} : T!SaveTranslation(t, value, others)
    <2>1. pass[w].kind = "translate" => pass[w].seen[t].translation = None
      BY <1>0, <1>1 DEF TransInv, HoldsMissing
    <2>2. QED
      BY <1>0, <1>4, <1>a, <2>1 DEF T!Fill
  <1>6. ASSUME NEW value \in {"correct", "fill"}, T!SaveTranslation(t, value, others)
        PROVE  /\ transcript' \in [Lines -> Entry] /\ Behind(transcript, transcript')
               /\ rivals \subseteq rivals' /\ rivals' \subseteq Lines
               /\ \A u \in Lines : /\ transcript'[u].saved = transcript[u].saved
                                   /\ u # t => transcript'[u] = transcript[u]
               /\ transcript'[t].translation # None
               /\ transcript[t].translation = None /\ others => t \in rivals'
    <2>1. value \in Texts /\ value # None
      BY DEF Texts
    <2>2. /\ transcript' \in [Lines -> Entry] /\ Behind(transcript, transcript')
          /\ rivals \subseteq rivals' /\ rivals' \subseteq rivals \cup {t}
          /\ transcript'[t].saved = transcript[t].saved
          /\ \A u \in Lines : u # t => transcript'[u] = transcript[u]
          /\ \/ ~ transcript[t].saved /\ transcript' = transcript
             \/ transcript[t].saved /\ transcript'[t].translation = value
          /\ transcript[t].translation = None /\ transcript[t].saved /\ others => t \in rivals'
      BY <1>2, <1>6, <2>1, Saves
    <2>3. QED
      BY <1>1, <1>2, <1>3, <2>1, <2>2
  <1>7. /\ transcript' \in [Lines -> Entry] /\ Behind(transcript, transcript')
        /\ rivals \subseteq rivals' /\ rivals' \subseteq Lines
        /\ \A u \in Lines : /\ transcript'[u].saved = transcript[u].saved
                            /\ u # t => transcript'[u] = transcript[u]
        /\ \/ transcript' = transcript
           \/ /\ T!Pending(w, t) /\ transcript'[t].translation # None
              /\ transcript[t].translation = None /\ others => t \in rivals'
    <2>1. CASE UNCHANGED <<transcript, rivals>>
      BY <1>1, <2>1 DEF Behind
    <2>2. CASE /\ pass[w].seen[t].translation = None
               /\ \E value \in {"correct", "fill"} : T!SaveTranslation(t, value, others)
      <3>1. T!Pending(w, t)
        BY <1>1, <1>2, <2>2 DEF T!Pending
      <3>2. QED
        BY <1>6, <2>2, <3>1
    <2>3. QED
      BY <1>5, <2>1, <2>2
  <1>8. \A u \in Lines : transcript[u].translation # None /\ u \notin rivals =>
          transcript'[u].translation = transcript[u].translation
    BY <1>7 DEF TransInv, NoRival
  <1>9. EntriesStand'
    BY <1>1, <1>3, <1>7 DEF TransInv, EntriesStand
  (* What the pass does of it. *)
  <1>10. ASSUME NEW moved \in PassOf, pass' = [pass EXCEPT ![w] = moved],
                moved.kind = pass[w].kind, moved.seen = pass[w].seen,
                moved.stale = pass[w].stale, moved.todo = pass[w].todo \ {t}, ~ moved.holds,
                moved.clean => pass[w].clean,
                moved.clean /\ moved.kind = "translate" => transcript'[t].translation # None
         PROVE  TransInv'
    <2>1. /\ pass'[w] = moved /\ \A v \in Workers : v # w => pass'[v] = pass[v]
      BY <1>1, <1>10
    <2>2. \A v \in Workers, u \in Lines : T!Pending(v, u)' => T!Pending(v, u)
      BY <1>1, <1>10, <2>1 DEF T!Pending
    <2>3. ~ T!Pending(w, t)'
      <3>1. t \notin pass'[w].todo
        BY <1>10, <2>1
      <3>2. QED
        BY <1>0, <3>1 DEF T!Pending
    <2>4. ASSUME NEW u \in Lines, transcript'[u].translation # None, u \notin rivals'
          PROVE  /\ \A v \in Workers : ~ T!Pending(v, u)'
                 /\ Final(u, lines[u], detached[u], transcript[u].translation)'
      <3>1. CASE transcript'[u].translation = transcript[u].translation
        <4>1. /\ \A v \in Workers : ~ T!Pending(v, u)
              /\ Final(u, lines[u], detached[u], transcript[u].translation)
          BY <1>7, <2>4, <3>1 DEF TransInv, NoRival
        <4>2. QED
          BY <1>1, <2>2, <3>1, <4>1 DEF Final, Settled, Previewed
      <3>2. CASE transcript'[u].translation # transcript[u].translation
        <4>1. u = t /\ T!Pending(w, t) /\ (transcript[t].translation = None => ~ others)
          BY <1>7, <2>4, <3>2
        <4>2. transcript[t].translation = None
          BY <1>2, <1>7, <2>4, <4>1 DEF TransInv, NoRival
        <4>3. ~ T!Others(w, t)
          BY <1>a, <4>1, <4>2
        <4>4. \A v \in Workers : ~ T!Pending(v, u)'
          BY <1>2, <2>2, <2>3, <4>1, <4>3 DEF T!Others
        <4>5. lines[t].at \in {"unsaid", "end"} /\ detached[t] \cap T!Renderings = {}
          BY <4>3 DEF T!Others, T!Working
        <4>6. lines[t].at = "end"
          BY <1>2, <1>3, <4>5, OwnOf
        <4>7. Final(t, lines[t], detached[t], transcript'[t].translation)
          BY <4>5, <4>6 DEF Final, Settled
        <4>8. QED
          BY <1>1, <4>1, <4>4, <4>7 DEF Final, Settled, Previewed
      <3>3. QED
        BY <3>1, <3>2
    <2>5. NoRival'
      BY <2>4 DEF NoRival
    <2>6. pass[w].todo \ moved.todo = {t} \/ pass[w].todo \ moved.todo = {}
      BY <1>10
    <2>7. QED
      BY <1>1, <1>7, <1>9, <1>10, <2>5, <2>6, MoveKeeps
  <1>11. ASSUME T!Onward(w)
         PROVE  TransInv'
    <2>1. PICK moved : moved = [pass[w] EXCEPT !.todo = @ \ {t}, !.holds = no]
      OBVIOUS
    <2>2. pass' = [pass EXCEPT ![w] = moved]
      BY <1>0, <1>1, <1>b, <1>11, <2>1 DEF T!Onward
    <2>3. /\ moved \in PassOf /\ moved.kind = pass[w].kind /\ moved.seen = pass[w].seen
          /\ moved.stale = pass[w].stale /\ moved.todo = pass[w].todo \ {t}
          /\ moved.clean = pass[w].clean /\ ~ moved.holds
      BY <1>1, <1>b, <2>1 DEF PassOf
    <2>4. CASE pass[w].kind = "correct"
      BY <1>10, <2>2, <2>3, <2>4
    <2>5. CASE transcript'[t].translation # None
      BY <1>10, <2>2, <2>3, <2>5
    <2>6. CASE pass' = [pass EXCEPT ![w].todo = @ \ {t}, ![w].holds = FALSE, ![w].clean = FALSE]
      <3>1. PICK after : after = [pass[w] EXCEPT !.todo = @ \ {t}, !.holds = no, !.clean = no]
        OBVIOUS
      <3>2. pass' = [pass EXCEPT ![w] = after]
        BY <1>1, <1>b, <2>6, <3>1
      <3>3. after.clean = no /\ moved = after
        BY <1>1, <2>2, <3>1, <3>2
      <3>4. QED
        BY <1>10, <1>b, <2>2, <2>3, <3>3
    <2>7. QED
      BY <1>5, <1>6, <2>4, <2>5, <2>6
  <1>12. ASSUME pass' = [pass EXCEPT ![w].todo = @ \ {t}, ![w].holds = FALSE,
                                     ![w].clean = FALSE]
         PROVE  TransInv'
    <2>1. PICK moved : moved = [pass[w] EXCEPT !.todo = @ \ {t}, !.holds = no, !.clean = no]
      OBVIOUS
    <2>2. pass' = [pass EXCEPT ![w] = moved]
      BY <1>1, <1>b, <1>12, <2>1
    <2>3. /\ moved \in PassOf /\ moved.kind = pass[w].kind /\ moved.seen = pass[w].seen
          /\ moved.stale = pass[w].stale /\ moved.todo = pass[w].todo \ {t}
          /\ ~ moved.clean /\ ~ moved.holds
      BY <1>1, <1>b, <2>1 DEF PassOf
    <2>4. QED
      BY <1>10, <2>2, <2>3
  <1>13. QED
    BY <1>5, <1>8, <1>11, <1>12 DEF StandsOrYields

LEMMA TakeKeeps ==
  ASSUME TransInv, NEW w \in Workers, NEW k \in T!Kinds, T!Take(w, k)
  PROVE  TransInv'
  <1>1. /\ UNCHANGED <<follow, unsaved, transcript, shown, lines, detached, filled>>
        /\ pass[w] = None /\ passes[k] = "queued" /\ passes \in [T!Kinds -> {"none", "queued", "running"}]
        /\ pass \in [Workers -> PassOf \cup {None}] /\ rivals \subseteq Lines
        /\ shown \in [Lines -> Entry]
    BY DEF T!Take, TransInv, TransTypes
  <1>2. \A v \in Workers : pass[v] # None /\ ~ pass[v].stale => pass[v].kind # k
    BY <1>1 DEF TransInv, OneOfAKind
  <1>3. CASE UNCHANGED <<pass, rivals>> /\ passes' = [passes EXCEPT ![k] = "none"]
             /\ owed' = IF k = "translate" THEN {} ELSE owed
    <2>1. /\ passes'[k] = "none" /\ \A j \in T!Kinds : j # k => passes'[j] = passes[j]
          /\ passes' \in [T!Kinds -> {"none", "queued", "running"}]
          /\ owed' \subseteq owed
      BY <1>1, <1>3
    <2>2. TransTypes' /\ EntriesStand'
      BY <1>1, <1>3, <2>1 DEF TransInv, TransTypes, EntriesStand
    <2>3. OneOfAKind'
      <3>1. \A v \in Workers : pass[v] # None => pass[v].kind \in T!Kinds
        BY <1>1 DEF PassOf
      <3>2. QED
        BY <1>2, <1>3, <2>1, <3>1 DEF TransInv, OneOfAKind
    <2>4. OwedStands'
      BY <1>1, <1>3, <2>1 DEF TransInv, OwedStands
    <2>5. CopiesStand' /\ HoldsMissing' /\ T!ViewedIsFilled'
      BY <1>1, <1>3 DEF TransInv, CopiesStand, HoldsMissing, T!Turn, T!ViewedIsFilled
    <2>6. \A v \in Workers, t \in Lines : T!Pending(v, t)' => T!Pending(v, t)
      BY <1>1, <1>3 DEF T!Pending
    <2>7. OwnStands' /\ NoRival'
      BY <1>1, <1>3, <2>6, OwnRests, NoRivalRests
    <2>8. QED
      BY <2>2, <2>3, <2>4, <2>5, <2>7 DEF TransInv
  <1>4. ASSUME NEW begun, begun = [kind |-> k, todo |-> T!Loaded, seen |-> shown,
                                   holds |-> FALSE, stale |-> FALSE, clean |-> TRUE],
               pass' = [pass EXCEPT ![w] = begun], UNCHANGED owed,
               passes' = [passes EXCEPT ![k] = "running"],
               rivals' = rivals \cup
                 {t \in T!Saved : T!Missing(t) /\ transcript[t].translation # None}
        PROVE  TransInv'
    <2>0. PICK yes \in BOOLEAN, no \in BOOLEAN : yes = TRUE /\ no = FALSE
      OBVIOUS
    <2>1. begun = [kind |-> k, todo |-> T!Loaded, seen |-> shown,
                   holds |-> no, stale |-> no, clean |-> yes]
      BY <1>4, <2>0
    <2>2. T!Loaded = {t \in Lines : shown[t].saved}
      BY DEF T!Loaded, T!Saved
    <2>3. /\ begun \in PassOf /\ begun.kind = k /\ begun.seen = shown
          /\ begun.todo = T!Loaded /\ ~ begun.holds /\ ~ begun.stale
      BY <1>1, <2>0, <2>1, <2>2 DEF PassOf
    <2>4. /\ pass'[w] = begun /\ \A v \in Workers : v # w => pass'[v] = pass[v]
          /\ pass' \in [Workers -> PassOf \cup {None}]
      BY <1>1, <1>4, <2>3
    <2>5. /\ passes'[k] = "running" /\ \A j \in T!Kinds : j # k => passes'[j] = passes[j]
          /\ passes' \in [T!Kinds -> {"none", "queued", "running"}]
      BY <1>1, <1>4
    <2>6. /\ rivals \subseteq rivals' /\ rivals' \subseteq Lines
          /\ \A t \in T!Loaded : shown[t].translation = None
                               /\ transcript[t].translation # None => t \in rivals'
      BY <1>1, <1>4, <2>2 DEF T!Saved, T!Missing
    <2>7. TransTypes' /\ EntriesStand'
      BY <1>1, <1>4, <2>4, <2>5, <2>6 DEF TransInv, TransTypes, EntriesStand
    <2>8. CopiesStand'
      <3>1. \A t \in begun.todo : transcript[t].saved
        BY <2>2, <2>3 DEF TransInv, CopiesStand, Behind
      <3>2. Behind(shown, transcript)
        BY DEF TransInv, CopiesStand
      <3>3. \A v \in Workers : pass'[v] # None =>
              /\ Behind(pass'[v].seen, transcript)
              /\ \A t \in pass'[v].todo : transcript[t].saved
        BY <2>3, <2>4, <3>1, <3>2 DEF TransInv, CopiesStand
      <3>4. QED
        BY <1>1, <3>2, <3>3 DEF CopiesStand, Behind
    <2>9. OneOfAKind'
      <3>1. \A v \in Workers : pass[v] # None => pass[v].kind \in T!Kinds
        BY <1>1 DEF PassOf
      <3>2. ASSUME NEW v \in Workers, pass'[v] # None, ~ pass'[v].stale
            PROVE  /\ passes'[pass'[v].kind] = "running"
                   /\ \A u \in Workers : pass'[u] # None /\ ~ pass'[u].stale
                                         /\ pass'[u].kind = pass'[v].kind => u = v
        <4>1. CASE v = w
          BY <1>2, <2>3, <2>4, <2>5, <4>1
        <4>2. CASE v # w
          <5>1. pass'[v] = pass[v] /\ pass[v].kind # k /\ passes'[pass[v].kind] = passes[pass[v].kind]
            BY <1>2, <2>4, <2>5, <3>1, <3>2, <4>2
          <5>2. QED
            BY <2>3, <2>4, <3>2, <4>2, <5>1 DEF TransInv, OneOfAKind
        <4>3. QED
          BY <4>1, <4>2
      <3>3. QED
        BY <3>2 DEF OneOfAKind
    <2>10. OwedStands'
      <3>1. \A t \in owed : t \in Lines /\ shown[t].saved
        BY DEF TransInv, TransTypes, OwedStands
      <3>2. QED
        BY <1>1, <1>4, <2>2, <2>3, <2>4, <3>1 DEF TransInv, OwedStands
    <2>11. OwnStands' /\ NoRival'
      <3>1. \A v \in Workers, t \in Lines : T!Pending(v, t)' =>
              \/ T!Pending(v, t)
              \/ t \in T!Loaded /\ shown[t].translation = None
        BY <1>1, <2>3, <2>4 DEF T!Pending
      <3>2. QED
        BY <1>1, <2>6, <3>1, OwnRests, NoRivalRests
    <2>12. HoldsMissing'
      <3>1. \A v \in Workers : v # w => T!Turn(v)' = T!Turn(v)
        BY <2>4 DEF T!Turn
      <3>2. QED
        BY <2>3, <2>4, <3>1 DEF TransInv, HoldsMissing
    <2>13. T!ViewedIsFilled'
      BY <1>1 DEF TransInv, T!ViewedIsFilled
    <2>14. QED
      BY <2>7, <2>8, <2>9, <2>10, <2>11, <2>12, <2>13 DEF TransInv
  <1>5. QED
    <2>1. PICK begun : begun = [kind |-> k, todo |-> T!Loaded, seen |-> shown,
                                holds |-> FALSE, stale |-> FALSE, clean |-> TRUE]
      OBVIOUS
    <2>2. QED
      BY <1>3, <1>4, <2>1 DEF T!Take

(* A pass that ends, or that has lost its claim. *)
LEMMA EndKeeps ==
  ASSUME TransInv, NEW w \in Workers, T!Finish(w) \/ T!LoseClaim(w) \/ T!Stop(w)
  PROVE  TransInv'
  <1>1. /\ UNCHANGED <<follow, unsaved, transcript, shown, lines, detached, rivals>>
        /\ pass[w] # None /\ pass[w] \in PassOf /\ pass[w].kind \in T!Kinds
        /\ passes \in [T!Kinds -> {"none", "queued", "running"}]
        /\ pass \in [Workers -> PassOf \cup {None}]
    BY DEF T!Finish, T!LoseClaim, T!Stop, TransInv, TransTypes, PassOf
  <1>2. ~ pass[w].stale =>
          \A v \in Workers : v # w /\ pass[v] # None /\ ~ pass[v].stale =>
            pass[v].kind # pass[w].kind
    BY <1>1 DEF TransInv, OneOfAKind
  <1>3. \A v \in Workers : pass[v] # None => pass[v].kind \in T!Kinds
    BY <1>1 DEF PassOf
  (* What such a step does to the worker that takes it. *)
  <1>4. ASSUME NEW after \in PassOf \cup {None}, pass' = [pass EXCEPT ![w] = after],
               after # None =>
                 /\ after.stale /\ after.kind = pass[w].kind /\ after.seen = pass[w].seen
                 /\ after.todo = pass[w].todo /\ after.holds = pass[w].holds,
               \/ pass[w].stale /\ passes' = passes
               \/ /\ ~ pass[w].stale
                  /\ \E s \in {"none", "queued"} :
                       passes' = [passes EXCEPT ![pass[w].kind] = s],
               owed' \subseteq owed, filled' \subseteq Lines, T!ViewedIsFilled'
        PROVE  TransInv'
    <2>1. /\ pass'[w] = after /\ \A v \in Workers : v # w => pass'[v] = pass[v]
          /\ pass' \in [Workers -> PassOf \cup {None}]
      BY <1>1, <1>4
    <2>2. /\ passes' \in [T!Kinds -> {"none", "queued", "running"}]
          /\ \A v \in Workers : v # w /\ pass[v] # None /\ ~ pass[v].stale =>
               passes'[pass[v].kind] = passes[pass[v].kind]
      BY <1>1, <1>2, <1>3, <1>4
    <2>3. TransTypes' /\ EntriesStand'
      BY <1>1, <1>4, <2>1, <2>2 DEF TransInv, TransTypes, EntriesStand
    <2>4. CopiesStand'
      BY <1>1, <1>4, <2>1 DEF TransInv, CopiesStand, Behind
    <2>5. OneOfAKind'
      BY <1>4, <2>1, <2>2 DEF TransInv, OneOfAKind
    <2>6. OwedStands'
      BY <1>1, <1>4, <2>1 DEF TransInv, OwedStands
    <2>7. OwnStands' /\ NoRival'
      <3>1. \A v \in Workers, t \in Lines : T!Pending(v, t)' => T!Pending(v, t)
        BY <1>1, <1>4, <2>1 DEF T!Pending
      <3>2. QED
        BY <1>1, <3>1, OwnRests, NoRivalRests
    <2>8. HoldsMissing'
      <3>1. \A v \in Workers : pass'[v] # None => T!Turn(v)' = T!Turn(v)
        BY <1>1, <1>4, <2>1 DEF T!Turn
      <3>2. QED
        BY <1>1, <1>4, <2>1, <3>1 DEF TransInv, HoldsMissing
    <2>9. QED
      BY <1>4, <2>3, <2>4, <2>5, <2>6, <2>7, <2>8 DEF TransInv
  <1>5. CASE T!Finish(w)
    <2>1. /\ pass' = [pass EXCEPT ![w] = None] /\ pass[w].todo = {} /\ ~ pass[w].stale
          /\ passes' = [passes EXCEPT ![pass[w].kind] = "none"]
      BY <1>5 DEF T!Finish, T!Ends
    <2>2. owed \subseteq Lines /\ filled \subseteq Lines
      BY DEF TransInv, TransTypes
    <2>3. owed' \subseteq owed /\ filled' \subseteq Lines
      BY <1>5, <2>2 DEF T!Finish
    <2>4. T!ViewedIsFilled'
      <3>1. pass[w].kind = "translate" /\ pass[w].clean =>
              \A t \in owed : transcript[t].translation # None
        BY <1>1, <2>1 DEF TransInv, OwedStands
      <3>2. QED
        BY <1>1, <1>5, <3>1 DEF T!Finish, TransInv, T!ViewedIsFilled
    <2>5. QED
      BY <1>4, <2>1, <2>3, <2>4
  <1>6. CASE T!LoseClaim(w)
    <2>0. PICK yes \in BOOLEAN : yes = TRUE
      OBVIOUS
    <2>1. PICK after : after = [pass[w] EXCEPT !.stale = yes]
      OBVIOUS
    <2>2. /\ pass' = [pass EXCEPT ![w] = after] /\ ~ pass[w].stale
          /\ passes' = [passes EXCEPT ![pass[w].kind] = "queued"]
          /\ UNCHANGED <<owed, filled>>
      BY <1>1, <1>6, <2>0, <2>1 DEF T!LoseClaim
    <2>3. /\ after \in PassOf /\ after.stale
          /\ after.kind = pass[w].kind /\ after.seen = pass[w].seen
          /\ after.todo = pass[w].todo /\ after.holds = pass[w].holds
      BY <1>1, <2>0, <2>1 DEF PassOf
    <2>4. filled' \subseteq Lines /\ T!ViewedIsFilled'
      BY <1>1, <2>2 DEF TransInv, TransTypes, T!ViewedIsFilled
    <2>5. QED
      BY <1>4, <2>2, <2>3, <2>4
  <1>7. CASE T!Stop(w)
    <2>1. /\ pass' = [pass EXCEPT ![w] = None] /\ pass[w].stale /\ passes' = passes
          /\ UNCHANGED <<owed, filled>>
      BY <1>7 DEF T!Stop, T!Ends
    <2>2. filled' \subseteq Lines /\ T!ViewedIsFilled'
      BY <1>1, <2>1 DEF TransInv, TransTypes, T!ViewedIsFilled
    <2>3. QED
      BY <1>4, <2>1, <2>2
  <1>8. QED
    BY <1>5, <1>6, <1>7

LEMMA TransNext == ASSUME TransInv, [T!Next]_T!vars PROVE TransInv'
  <1>1. CASE UNCHANGED T!vars
    <2>1. Behind(transcript, transcript')
      BY <1>1 DEF Behind, T!vars
    <2>2. TransTypes' /\ EntriesStand'
      BY <1>1 DEF T!vars, TransInv, TransTypes, EntriesStand
    <2>3. \A w \in Workers, t \in Lines : T!Pending(w, t)' => T!Pending(w, t)
      BY <1>1 DEF T!vars, T!Pending
    <2>4. OwnStands' /\ NoRival'
      BY <1>1, <2>3, OwnRests, NoRivalRests DEF T!vars
    <2>5. QED
      BY <1>1, <2>1, <2>2, <2>4, GrowKeeps DEF T!vars
  <1>2. ASSUME NEW t \in Lines,
               \/ T!Say(t) \/ T!SaveTurn(t) \/ T!Preview(t) \/ T!ReserveJob(t) \/ T!Answer(t)
               \/ T!TranslateLive(t) \/ T!PersistEvent(t) \/ T!LoseLive(t)
               \/ \E what \in detached[t] : T!SaveLate(t, what)
        PROVE  TransInv'
    BY <1>2, SaidKeeps, PreviewKeeps, AnswerKeeps, TellKeeps, EventKeeps, LateKeeps
  <1>3. ASSUME NEW page_, T!View(page_)
        PROVE  TransInv'
    BY <1>3, ViewKeeps
  <1>4. ASSUME NEW w \in Workers,
               \/ \E k \in T!Kinds : T!Take(w, k)
               \/ T!Pass(w) \/ T!Fill(w) \/ T!Finish(w) \/ T!LoseClaim(w) \/ T!Stop(w)
        PROVE  TransInv'
    BY <1>4, TakeKeeps, PassKeeps, FillKeeps, EndKeeps
  <1>5. QED
    BY <1>1, <1>2, <1>3, <1>4, ReplicateKeeps DEF T!Next

(* Of the translations, for every set of turns and any number of passes,   *)
(* views and faults: what the replica and the passes have is of an earlier *)
(* transcript, the room has one pass of a kind, and the turns it owes are  *)
(* still before it or translated; and of a translation that had no rival,  *)
(* no pass, attempt or detached write is left that says another, but of a  *)
(* learner's preview the answer of its job (backfill.go, translateSession; *)
(* pipeline_analyze.go, analyzeFromDraft; ws_persist.go).                  *)
THEOREM TranslationsInvariant == T!Spec => []TransInv
  BY TransInit, TransNext, PTL DEF T!Spec

(* A turn that was seen without a translation, by a learner whose view     *)
(* queued a pass, has one when that pass is over, if nothing failed in it  *)
(* (sessions_detail.go, backfill.go).                                      *)
THEOREM SeenMissingIsFilled == LearningSpec => []ViewedIsFilled
  <1>1. LearningInit => T!Init
    BY DEF LearningInit
  <1>2. [LearningNext]_<<part, vars, lessons, articles, lookups, additions, clips,
                         translations>> => [T!Next]_T!vars
    BY DEF LearningNext, translations, T!vars
  <1>3. TransInv => ViewedIsFilled
    BY DEF TransInv, ViewedIsFilled
  <1>4. QED
    BY <1>1, <1>2, <1>3, TranslationsInvariant, PTL DEF LearningSpec, T!Spec

(* A translation that the learner may have read stays as it is, but that   *)
(* the preview of the learner's own sentence yields to what its job says:  *)
(* unless it was written while another writer had seen none, such as a     *)
(* pass over the room or a preview still on its way, or by an attempt      *)
(* without Judge's answer and a second one follows (backfill.go,           *)
(* translateSession; pipeline_translation.go; ws_persist.go).              *)
THEOREM ReadTranslationStays == LearningSpec => ReadStays
  <1> DEFINE AllStand == \A t \in Lines : StandsOrYields(t)
  <1>1. LearningInit => T!Init
    BY DEF LearningInit
  <1>2. [LearningNext]_<<part, vars, lessons, articles, lookups, additions, clips,
                         translations>> => [T!Next]_T!vars
    BY DEF LearningNext, translations, T!vars
  <1>3. ASSUME TransInv, T!Next
        PROVE  AllStand
    <2>1. ASSUME NEW t \in Lines,
                 \/ T!Preview(t) \/ T!ReserveJob(t) \/ T!Answer(t)
                 \/ T!TranslateLive(t) \/ \E what \in detached[t] : T!SaveLate(t, what)
          PROVE  AllStand
      <3>1. StandsOrYields(t) /\ \A u \in Lines : u # t => transcript'[u] = transcript[u]
        BY <1>3, <2>1, PreviewKeeps, AnswerKeeps, TellKeeps, LateKeeps DEF StandsOrYields
      <3>2. QED
        BY <3>1 DEF StandsOrYields
    <2>2. ASSUME NEW t \in Lines, T!SaveTurn(t)
          PROVE  AllStand
      <3>1. transcript \in [Lines -> Entry]
        BY <1>3 DEF TransInv, TransTypes
      <3>2. transcript' = [transcript EXCEPT ![t].saved = TRUE]
        BY <2>2 DEF T!SaveTurn
      <3>3. \A u \in Lines : transcript'[u].translation = transcript[u].translation
        BY <3>1, <3>2 DEF Entry
      <3>4. QED
        BY <3>3 DEF StandsOrYields
    <2>3. ASSUME NEW w \in Workers, T!Fill(w) \/ T!Pass(w)
          PROVE  AllStand
      BY <1>3, <2>3, FillKeeps, PassKeeps DEF StandsOrYields
    <2>4. CASE UNCHANGED transcript
      BY <2>4 DEF StandsOrYields
    <2>5. QED
      BY <1>3, <2>1, <2>2, <2>3, <2>4 DEF T!Next, T!Replicate, T!View, T!Take, T!Say,
         T!PersistEvent, T!LoseLive, T!Finish, T!LoseClaim, T!Stop
  <1>4. TransInv /\ [T!Next]_T!vars => [AllStand]_T!vars
    BY <1>3
  <1>5. QED
    <2>1. LearningSpec => []TransInv /\ [][T!Next]_T!vars
      BY <1>1, <1>2, TranslationsInvariant, PTL DEF LearningSpec, T!Spec
    <2>2. LearningSpec => [][AllStand]_T!vars
      BY <1>4, <2>1, PTL
    <2>3. QED
      BY <2>2 DEF ReadStays, T!ReadStays, StandsOrYields

HIDE TranslationsAssumption

-----------------------------------------------------------------------------
(* Lookups (module Lookups). *)

Steps == {"form", "lemma", "exact", "refining"}
Kept == UNION {[S -> Answers] : S \in SUBSET Steps}
JobOf == [at : {"none", "queued", "held"}, claim : Workers \cup {None}, tries : Nat,
          kept : Kept]
Attempt == [owner : K!Owners, text : Answers \cup {None},
            at : Steps \cup {"started", "writing", "succeeded", "failed"}]
Asking == {"idle", "reading", "inspecting", "rereading", "enqueuing", "pending", "missing",
           "done"}
Asked == [at : Asking, probe : BOOLEAN, cached : BOOLEAN, shown : Answers \cup {None}]

LookTypes ==
  /\ cache \in Answers \cup {None}
  /\ jobs \in [K!Owners -> JobOf]
  /\ run \in [Workers -> Attempt \cup {None}]
  /\ ask \in [Askers -> Asked]

(* A request that saw a result is on its way to it. *)
Told ==
  \A t \in Askers :
    /\ ask[t].at \in {"reading", "inspecting", "missing", "enqueuing"} => ~ ask[t].cached
    /\ ask[t].at = "rereading" /\ ask[t].cached => cache # None

HeldByOne ==
  /\ \A o \in K!Owners : jobs[o].claim # None => jobs[o].at = "held"
  /\ \A w \in Workers :
       /\ K!Doing(w, "writing") => run[w].text # None
       /\ run[w] # None /\ run[w].at \in {"form", "lemma", "exact"} => K!Word
       /\ K!Doing(w, "refining") => ~ K!Word

(* The step whose answer is written. *)
LastStep == IF K!Word THEN "lemma" ELSE "refining"
Found(o) == jobs[o].at # "none" => LastStep \in DOMAIN jobs[o].kept
FoundIs(o, text) == jobs[o].at # "none" => jobs[o].kept[LastStep] = text
Holds(w, text) == Found(run[w].owner) /\ FoundIs(run[w].owner, text)
Unkept(w) == K!Unkept(w) /\ K!Claims(w)

(* Unless something forked: attempts that have begun are of one job, which *)
(* keeps what they write, or has nothing to keep and is the claim of the   *)
(* one that writes; and after one has written, none finds another.         *)
OneResult ==
  ~ forked =>
    /\ \A w \in Workers : ~ K!Doing(w, "exact")
    /\ \A v, w \in Workers :
         run[v] # None /\ run[w] # None /\ run[v].at # "started" /\ run[w].at # "started" =>
           run[v].owner = run[w].owner
    /\ \A w \in Workers : K!Doing(w, "writing") =>
         /\ Holds(w, run[w].text) \/ Unkept(w)
         /\ \A v \in Workers : K!Doing(v, "writing") => run[v].text = run[w].text
         /\ cache # None => run[w].text = cache
    /\ \A w \in Workers : run[w] # None /\ run[w].at \in Steps /\ cache # None =>
         Holds(w, cache) \/ ~ K!Claims(w)

LookInv == LookTypes /\ Told /\ HeldByOne /\ OneResult

USE LookupsAssumption

LEMMA LookInit == ASSUME K!Init PROVE LookInv
  <1>1. /\ cache = None /\ jobs = [o \in K!Owners |-> K!NoJob]
        /\ run = [w \in Workers |-> None] /\ ask = [t \in Askers |-> K!Idle]
    BY DEF K!Init
  <1>2. PICK no \in BOOLEAN : no = FALSE
    OBVIOUS
  <1>3. K!Idle = [at |-> "idle", probe |-> no, cached |-> no, shown |-> None]
    BY <1>2 DEF K!Idle
  <1>4. K!Idle \in Asked /\ K!Idle.at = "idle"
    BY <1>3 DEF Asked, Asking
  <1>5. <<>> \in Kept
    <2>1. <<>> \in [{} -> Answers]
      OBVIOUS
    <2>2. QED
      BY <2>1 DEF Kept
  <1>6. K!NoJob \in JobOf /\ K!NoJob.claim = None
    BY <1>5 DEF K!NoJob, JobOf
  <1>7. LookTypes
    BY <1>1, <1>4, <1>6 DEF LookTypes
  <1>8. Told /\ HeldByOne /\ OneResult
    BY <1>1, <1>4, <1>6 DEF Told, HeldByOne, OneResult, K!Doing
  <1>9. QED
    BY <1>7, <1>8 DEF LookInv

LEMMA CaseStays ==
  ASSUME UNCHANGED case
  PROVE  /\ K!Owners' = K!Owners /\ (K!Word' <=> K!Word) /\ LastStep' = LastStep
         /\ Attempt' = Attempt
  <1>1. K!Owners' = K!Owners /\ (K!Word' <=> K!Word)
    BY DEF K!Owners, K!Owner, K!Word
  <1>2. QED
    BY <1>1 DEF LastStep, Attempt

(* An attempt of which nothing changes, nor of its job. *)
LEMMA SameAttempt ==
  ASSUME UNCHANGED case, NEW v \in Workers, run[v] # None, run'[v] = run[v],
         jobs'[run[v].owner] = jobs[run[v].owner]
  PROVE  /\ \A text : Holds(v, text)' <=> Holds(v, text)
         /\ Unkept(v)' <=> Unkept(v)
         /\ K!Claims(v)' <=> K!Claims(v)
  <1>1. \A text : Holds(v, text)' <=> Holds(v, text)
    BY CaseStays DEF Holds, Found, FoundIs
  <1>2. K!Claims(v)' <=> K!Claims(v)
    BY DEF K!Claims
  <1>3. K!Unkept(v)' <=> K!Unkept(v)
    BY CaseStays DEF K!Unkept, K!Doing
  <1>4. QED
    BY <1>1, <1>2, <1>3 DEF Unkept

(* OneResult looks at begun attempts only. *)
LEMMA OneResultStays ==
  ASSUME OneResult, UNCHANGED <<case, cache, jobs, run>>, forked => forked'
  PROVE  OneResult'
  <1>1. \A v \in Workers : run[v] # None =>
          /\ \A text : Holds(v, text)' <=> Holds(v, text)
          /\ Unkept(v)' <=> Unkept(v)
          /\ K!Claims(v)' <=> K!Claims(v)
    BY SameAttempt
  <1>2. QED
    BY <1>1 DEF OneResult, K!Doing

LEMMA TypesStay ==
  ASSUME UNCHANGED case, cache' \in Answers \cup {None}, jobs' \in [K!Owners -> JobOf],
         run' \in [Workers -> Attempt \cup {None}], ask' \in [Askers -> Asked]
  PROVE  LookTypes'
  <1>1. jobs' \in [K!Owners' -> JobOf]
    BY CaseStays
  <1>2. run' \in [Workers -> Attempt' \cup {None}]
    BY CaseStays
  <1>3. QED
    BY <1>1, <1>2 DEF LookTypes

(* A step of one request. *)
LEMMA AskKeeps ==
  ASSUME LookInv, NEW t \in Askers, NEW asked \in Asked, ask' = [ask EXCEPT ![t] = asked],
         asked.at \in {"reading", "inspecting", "missing", "enqueuing"} => ~ asked.cached,
         asked.at = "rereading" /\ asked.cached => cache # None,
         UNCHANGED <<case, cache, jobs, run, forked>>
  PROVE  LookInv'
  <1>1. /\ ask \in [Askers -> Asked] /\ ask' \in [Askers -> Asked] /\ ask'[t] = asked
        /\ \A u \in Askers : u # t => ask'[u] = ask[u]
    BY DEF LookInv, LookTypes
  <1>2. LookTypes' /\ Told'
    BY <1>1, TypesStay DEF LookInv, LookTypes, Told
  <1>3. HeldByOne'
    BY CaseStays DEF LookInv, HeldByOne, K!Doing
  <1>4. OneResult'
    BY OneResultStays DEF LookInv
  <1>5. QED
    BY <1>2, <1>3, <1>4 DEF LookInv

LEMMA RequestKeeps ==
  ASSUME LookInv, NEW t \in Askers,
         \/ \E probe \in BOOLEAN : K!Tap(t, probe)
         \/ K!Read(t) \/ K!Inspect(t) \/ K!Reread(t)
  PROVE  LookInv'
  <1>1. ask[t] \in Asked /\ DOMAIN ask = Askers /\ cache \in Answers \cup {None}
    BY DEF LookInv, LookTypes
  <1>2. PICK no \in BOOLEAN : no = FALSE
    OBVIOUS
  <1>3. UNCHANGED <<case, cache, jobs, run, forked>>
    BY DEF K!Tap, K!Read, K!Inspect, K!Reread
  <1>4. ASSUME NEW at \in Asking, NEW seen \in Answers \cup {None},
               ask' = [ask EXCEPT ![t].at = at, ![t].shown = seen],
               at \in {"reading", "inspecting", "missing", "enqueuing"} => ~ ask[t].cached,
               at # "rereading"
        PROVE  LookInv'
    <2>1. PICK asked : asked = [ask[t] EXCEPT !.at = at, !.shown = seen]
      OBVIOUS
    <2>2. ask' = [ask EXCEPT ![t] = asked]
      BY <1>1, <1>4, <2>1
    <2>3. asked \in Asked /\ asked.at = at /\ asked.cached = ask[t].cached
      BY <1>1, <2>1 DEF Asked
    <2>4. QED
      BY <1>3, <1>4, <2>2, <2>3, AskKeeps
  <1>5. ASSUME NEW at \in Asking, K!Goes(t, at),
               at \in {"reading", "inspecting", "missing", "enqueuing"} => ~ ask[t].cached,
               at # "rereading"
        PROVE  LookInv'
    <2>1. PICK asked : asked = [ask[t] EXCEPT !.at = at]
      OBVIOUS
    <2>2. ask' = [ask EXCEPT ![t] = asked]
      BY <1>1, <1>5, <2>1 DEF K!Goes
    <2>3. asked \in Asked /\ asked.at = at /\ asked.cached = ask[t].cached
      BY <1>1, <2>1 DEF Asked
    <2>4. QED
      BY <1>3, <1>5, <2>2, <2>3, AskKeeps
  <1>6. ASSUME NEW probe \in BOOLEAN, K!Tap(t, probe)
        PROVE  LookInv'
    <2>1. PICK asked : asked = [K!Idle EXCEPT !.at = "reading", !.probe = probe]
      OBVIOUS
    <2>2. ask' = [ask EXCEPT ![t] = asked]
      BY <1>6, <2>1 DEF K!Tap
    <2>3. K!Idle = [at |-> "idle", probe |-> no, cached |-> no, shown |-> None]
      BY <1>2 DEF K!Idle
    <2>4. asked \in Asked /\ asked.at = "reading" /\ asked.cached = no
      BY <2>1, <2>3 DEF Asked, Asking
    <2>5. QED
      BY <1>2, <1>3, <2>2, <2>4, AskKeeps
  <1>7. CASE K!Read(t)
    <2>1. ~ ask[t].cached
      BY <1>7 DEF K!Read, LookInv, Told
    <2>2. CASE \E at \in {"inspecting", "idle"} : K!Goes(t, at)
      BY <1>5, <2>1, <2>2 DEF Asking
    <2>3. CASE \E at \in {"enqueuing", "done"}, seen \in Answers \cup {None} :
                 K!Shows(t, at, seen)
      BY <1>4, <2>1, <2>3 DEF K!Shows, Asking
    <2>4. QED
      BY <1>1, <1>7, <2>2, <2>3 DEF K!Read
  <1>8. CASE K!Inspect(t)
    <2>1. CASE K!Goes(t, "pending")
      BY <1>5, <2>1 DEF Asking
    <2>2. CASE ask' = [ask EXCEPT ![t].at = "rereading", ![t].cached = cache # None]
      <3>1. PICK seen \in BOOLEAN : seen = (cache # None)
        OBVIOUS
      <3>2. PICK asked : asked = [ask[t] EXCEPT !.at = "rereading", !.cached = seen]
        OBVIOUS
      <3>3. ask' = [ask EXCEPT ![t] = asked]
        BY <1>1, <2>2, <3>1, <3>2
      <3>4. asked \in Asked /\ asked.at = "rereading" /\ asked.cached = seen
        BY <1>1, <3>2 DEF Asked, Asking
      <3>5. QED
        BY <1>3, <3>1, <3>3, <3>4, AskKeeps
    <2>3. QED
      BY <1>8, <2>1, <2>2 DEF K!Inspect
  <1>9. CASE K!Reread(t)
    <2>1. ask[t].at = "rereading" /\ (cache = None => ~ ask[t].cached)
      BY <1>9 DEF K!Reread, LookInv, Told
    <2>2. CASE K!Shows(t, "done", cache)
      BY <1>1, <1>4, <2>2 DEF K!Shows, Asking
    <2>3. CASE cache = None /\ \E at \in {"missing", "enqueuing"} : K!Goes(t, at)
      BY <1>5, <2>1, <2>3 DEF Asking
    <2>4. QED
      BY <1>9, <2>2, <2>3 DEF K!Reread
  <1>10. QED
    BY <1>6, <1>7, <1>8, <1>9

LEMMA EnqueueKeeps ==
  ASSUME LookInv, NEW t \in Askers, K!Enqueue(t)
  PROVE  LookInv'
  <1>1. /\ ask[t] \in Asked /\ ask \in [Askers -> Asked]
        /\ jobs \in [K!Owners -> JobOf]
        /\ K!Owner(t) \in K!Owners
    BY DEF LookInv, LookTypes, K!Owners
  <1>2. /\ UNCHANGED <<case, cache, run>>
        /\ \E at \in {"idle", "done", "pending"} : ask' = [ask EXCEPT ![t].at = at]
    BY DEF K!Enqueue, K!Goes
  <1>3. /\ ask' \in [Askers -> Asked] /\ Told'
    <2>1. PICK at \in {"idle", "done", "pending"} : ask' = [ask EXCEPT ![t].at = at]
      BY <1>2
    <2>2. PICK asked : asked = [ask[t] EXCEPT !.at = at]
      OBVIOUS
    <2>3. ask' = [ask EXCEPT ![t] = asked]
      BY <1>1, <2>1, <2>2
    <2>4. asked \in Asked /\ asked.at = at
      BY <1>1, <2>2 DEF Asked, Asking
    <2>5. /\ ask' \in [Askers -> Asked] /\ ask'[t] = asked
          /\ \A u \in Askers : u # t => ask'[u] = ask[u]
      BY <1>1, <2>3, <2>4
    <2>6. QED
      BY <1>2, <2>4, <2>5 DEF LookInv, Told
  <1>4. forked => forked'
    BY DEF K!Enqueue
  <1>5. CASE jobs' = jobs
    <2>0. LookTypes'
      BY <1>2, <1>3, <1>5, TypesStay DEF LookInv, LookTypes
    <2>1. LookTypes' /\ HeldByOne'
      BY <1>2, <1>5, <2>0, CaseStays DEF LookInv, HeldByOne, K!Doing
    <2>2. OneResult'
      BY <1>2, <1>4, <1>5, OneResultStays DEF LookInv
    <2>3. QED
      BY <1>3, <2>1, <2>2 DEF LookInv
  <1>6. CASE jobs' # jobs
    <2> DEFINE o == K!Owner(t)
    <2>1. PICK job_ : job_ = [K!NoJob EXCEPT !.at = "queued"]
      OBVIOUS
    <2>2. jobs' = [jobs EXCEPT ![o] = job_] /\ jobs[o].at = "none"
      BY <1>6, <2>1 DEF K!Enqueue, K!Pending
    <2>3. <<>> \in Kept
      <3>1. <<>> \in [{} -> Answers]
        OBVIOUS
      <3>2. QED
        BY <3>1 DEF Kept
    <2>4. job_ \in JobOf /\ job_.claim = None /\ job_.at = "queued"
      BY <2>1, <2>3 DEF K!NoJob, JobOf
    <2>5. o' = o
      BY <1>2 DEF K!Owner, K!Word
    <2>6. /\ jobs' \in [K!Owners -> JobOf] /\ jobs'[o] = job_
          /\ \A p \in K!Owners : p # o => jobs'[p] = jobs[p]
      BY <1>1, <2>2, <2>4
    <2>7. forked' \/ \A w \in Workers : ~ K!RunsOf(w, o)
      BY <2>2, <2>4, <2>6 DEF K!Enqueue
    <2>8. LookTypes' /\ HeldByOne'
      <3>1. LookTypes'
        BY <1>2, <1>3, <2>6, TypesStay DEF LookInv, LookTypes
      <3>2. HeldByOne'
        BY <1>2, <2>4, <2>6, CaseStays DEF LookInv, HeldByOne, K!Doing
      <3>3. QED
        BY <3>1, <3>2
    <2>9. OneResult'
      <3>1. CASE forked'
        BY <3>1 DEF OneResult
      <3>2. CASE ~ forked'
        <4>1. \A w \in Workers : run[w] # None => run[w].owner # o /\ run[w].owner \in K!Owners
          BY <2>7, <3>2 DEF K!RunsOf, LookInv, LookTypes, Attempt
        <4>2. \A w \in Workers : run[w] # None => jobs'[run[w].owner] = jobs[run[w].owner]
          BY <2>6, <4>1
        <4>3. \A w \in Workers : run[w] # None =>
                /\ \A text : Holds(w, text)' <=> Holds(w, text)
                /\ Unkept(w)' <=> Unkept(w)
                /\ K!Claims(w)' <=> K!Claims(w)
          BY <1>2, <4>2, SameAttempt
        <4>4. QED
          BY <1>2, <1>4, <3>2, <4>3 DEF LookInv, OneResult, K!Doing
      <3>3. QED
        BY <3>1, <3>2
    <2>10. QED
      BY <1>3, <2>8, <2>9 DEF LookInv
  <1>7. QED
    BY <1>5, <1>6

(* A step after which no attempt is nearer to a result than it was.        *)
LEMMA RestKeeps ==
  ASSUME LookInv, UNCHANGED <<case, cache, ask>>, forked => forked',
         jobs' \in [K!Owners -> JobOf], run' \in [Workers -> Attempt \cup {None}],
         \A p \in K!Owners :
           /\ jobs'[p].claim # None => jobs'[p].at = "held"
           /\ jobs'[p].at # "none" => jobs[p].at # "none" /\ jobs'[p].kept = jobs[p].kept,
         \A w \in Workers : run[w] # None /\ run'[w] = run[w] =>
           /\ K!Claims(w)' => K!Claims(w)
           /\ Unkept(w) => Unkept(w)' \/ forked',
         \A w \in Workers :
           \/ run'[w] \in {run[w], None}
           \/ run'[w].at = "started"
           \/ /\ run[w] # None /\ run'[w].owner = run[w].owner
              /\ run'[w].at \in {"succeeded", "failed"}
              /\ run[w].at # "started" \/ ~ K!Overlaps(w) \/ forked'
  PROVE  LookInv'
  <1>1. LookTypes' /\ Told'
    BY TypesStay DEF LookInv, LookTypes, Told
  <1>2. HeldByOne'
    BY CaseStays DEF LookInv, HeldByOne, K!Doing, Steps
  <1>3. OneResult'
    <2>1. CASE forked'
      BY <2>1 DEF OneResult
    <2>2. CASE ~ forked'
      <3>1. \A p \in K!Owners : \A text :
              (Found(p) => Found(p)') /\ (FoundIs(p, text) => FoundIs(p, text)')
        BY CaseStays DEF Found, FoundIs
      <3>2. ASSUME NEW w \in Workers, run'[w] # None, run'[w].at \in Steps \cup {"writing"}
            PROVE  run'[w] = run[w] /\ run[w].owner \in K!Owners
        <4>1. run'[w] = run[w]
          BY <3>2 DEF Steps
        <4>2. QED
          BY <3>2, <4>1 DEF LookInv, LookTypes, Attempt
      <3>3. ASSUME NEW v \in Workers, NEW w \in Workers, run'[v] # None, run'[w] # None,
                   run'[v].at # "started", run'[w].at # "started"
            PROVE  run'[v].owner = run'[w].owner
        <4>1. /\ run[v] # None /\ run'[v].owner = run[v].owner
              /\ run[w] # None /\ run'[w].owner = run[w].owner
          BY <3>3
        <4>2. run[v].owner \in K!Owners /\ run[w].owner \in K!Owners
          BY <4>1 DEF LookInv, LookTypes, Attempt
        <4>3. CASE run[v].at # "started" /\ run[w].at # "started"
          BY <2>2, <4>1, <4>3 DEF LookInv, OneResult
        <4>4. CASE run[v].at = "started" \/ run[w].at = "started"
          <5>1. ~ K!Overlaps(v) \/ ~ K!Overlaps(w)
            BY <2>2, <3>3, <4>4
          <5>2. QED
            BY <4>1, <4>2, <5>1 DEF K!Overlaps, K!RunsOf
        <4>5. QED
          BY <4>3, <4>4
      <3>4. \A w \in Workers : ~ K!Doing(w, "exact")'
        BY <2>2, <3>2 DEF LookInv, OneResult, K!Doing, Steps
      <3>5. ASSUME NEW w \in Workers, K!Doing(w, "writing")'
            PROVE  /\ Holds(w, run[w].text)' \/ Unkept(w)'
                   /\ \A v \in Workers : K!Doing(v, "writing")' => run'[v].text = run'[w].text
                   /\ cache' # None => run'[w].text = cache'
        <4>1. run'[w] = run[w] /\ K!Doing(w, "writing") /\ run[w].owner \in K!Owners
          BY <3>2, <3>5 DEF K!Doing
        <4>2. \A v \in Workers : K!Doing(v, "writing")' =>
                K!Doing(v, "writing") /\ run'[v] = run[v]
          BY <3>2 DEF K!Doing
        <4>3. /\ Holds(w, run[w].text) \/ Unkept(w)
              /\ \A v \in Workers : K!Doing(v, "writing") => run[v].text = run[w].text
              /\ cache # None => run[w].text = cache
          BY <2>2, <4>1 DEF LookInv, OneResult
        <4>4. Holds(w, run[w].text) => Holds(w, run[w].text)'
          BY <3>1, <4>1, CaseStays DEF Holds, Found, FoundIs
        <4>5. Unkept(w) => Unkept(w)'
          BY <2>2, <4>1 DEF K!Doing
        <4>6. QED
          BY <4>1, <4>2, <4>3, <4>4, <4>5
      <3>6. ASSUME NEW w \in Workers, run'[w] # None, run'[w].at \in Steps, cache' # None
            PROVE  Holds(w, cache)' \/ ~ K!Claims(w)'
        <4>1. run'[w] = run[w] /\ run[w].owner \in K!Owners
          BY <3>2, <3>6
        <4>2. Holds(w, cache) \/ ~ K!Claims(w)
          BY <2>2, <3>6, <4>1 DEF LookInv, OneResult
        <4>3. Holds(w, cache) => Holds(w, cache)'
          BY <3>1, <4>1, CaseStays DEF Holds, Found, FoundIs
        <4>4. K!Claims(w)' => K!Claims(w)
          BY <3>6, <4>1
        <4>5. QED
          BY <4>2, <4>3, <4>4
      <3>7. QED
        BY <3>3, <3>4, <3>5, <3>6 DEF OneResult, Steps
    <2>3. QED
      BY <2>1, <2>2
  <1>4. QED
    BY <1>1, <1>2, <1>3 DEF LookInv

(* Where an attempt goes. *)
LEMMA TurnsTo ==
  ASSUME LookTypes, NEW w \in Workers, run[w] # None,
         NEW at \in Steps \cup {"writing", "succeeded", "failed"},
         NEW text \in Answers \cup {None}, K!Turns(w, at, text)
  PROVE  /\ run' \in [Workers -> Attempt \cup {None}]
         /\ run'[w].at = at /\ run'[w].text = text /\ run'[w].owner = run[w].owner
         /\ \A v \in Workers : v # w => run'[v] = run[v]
         /\ run[w] \in Attempt /\ run[w].owner \in K!Owners
  <1>1. run[w] \in Attempt /\ run \in [Workers -> Attempt \cup {None}]
    BY DEF LookTypes
  <1>2. PICK moved : moved = [run[w] EXCEPT !.at = at, !.text = text]
    OBVIOUS
  <1>3. run' = [run EXCEPT ![w] = moved]
    BY <1>1, <1>2 DEF K!Turns
  <1>4. moved \in Attempt /\ moved.at = at /\ moved.text = text /\ moved.owner = run[w].owner
    BY <1>1, <1>2 DEF Attempt
  <1>5. QED
    BY <1>1, <1>3, <1>4 DEF Attempt

LEMMA QueueKeeps ==
  ASSUME LookInv,
         \/ K!Expire
         \/ \E o \in K!Owners : K!Delete(o) \/ K!LoseClaim(o)
         \/ \E w \in Workers : K!Finish(w) \/ \E o \in K!Owners : K!Take(w, o)
  PROVE  LookInv'
  <1>1. /\ jobs \in [K!Owners -> JobOf] /\ run \in [Workers -> Attempt \cup {None}]
        /\ \A p \in K!Owners : jobs[p].claim # None => jobs[p].at = "held"
    BY DEF LookInv, LookTypes, HeldByOne
  <1>2. CASE K!Expire
    <2>1. /\ UNCHANGED <<case, jobs, run, ask, forked>> /\ cache' = None
          /\ \A w \in Workers : run[w] = None
          /\ \A t \in Askers : ask[t].at # "rereading"
      BY <1>2 DEF K!Expire
    <2>2. LookTypes' /\ Told' /\ HeldByOne'
      BY <2>1, TypesStay DEF LookInv, LookTypes, Told, HeldByOne, K!Doing
    <2>3. OneResult'
      BY <2>1 DEF OneResult, K!Doing
    <2>4. QED
      BY <2>2, <2>3 DEF LookInv
  <1>3. ASSUME NEW o \in K!Owners, K!Delete(o)
        PROVE  LookInv'
    <2>1. UNCHANGED <<case, cache, jobs, run, ask, forked>>
      BY <1>3 DEF K!Delete
    <2>2. QED
      BY <1>1, <2>1, RestKeeps, SameAttempt
  <1>4. ASSUME NEW o \in K!Owners, K!LoseClaim(o)
        PROVE  LookInv'
    <2>0. PICK next_ : next_ = jobs[o].tries + 1
      OBVIOUS
    <2>1. PICK job_ : job_ = [jobs[o] EXCEPT !.at = "queued", !.claim = None,
                                           !.tries = next_]
      OBVIOUS
    <2>2. jobs' = [jobs EXCEPT ![o] = job_] /\ jobs[o].at = "held" /\ jobs[o] \in JobOf
      BY <1>1, <1>4, <2>0, <2>1 DEF K!LoseClaim
    <2>a. next_ \in Nat
      <3>1. jobs[o].tries \in Nat
        BY <2>2 DEF JobOf
      <3>2. QED
        BY <2>0, <3>1
    <2>3. job_ \in JobOf /\ job_.claim = None /\ job_.kept = jobs[o].kept
      BY <2>1, <2>2, <2>a DEF JobOf
    <2>4. /\ jobs' \in [K!Owners -> JobOf]
          /\ \A p \in K!Owners :
               /\ jobs'[p].claim # None => jobs'[p].at = "held"
               /\ jobs'[p].at # "none" => jobs[p].at # "none" /\ jobs'[p].kept = jobs[p].kept
      BY <1>1, <2>2, <2>3
    <2>5. run' = run \/ run' = [run EXCEPT ![jobs[o].claim] = None]
      BY <1>4 DEF K!LoseClaim
    <2>6. /\ run' \in [Workers -> Attempt \cup {None}]
          /\ \A w \in Workers : run'[w] \in {run[w], None}
      BY <1>1, <2>5
    <2>7. UNCHANGED <<case, cache, ask>> /\ (forked => forked')
      <3>1. UNCHANGED <<case, cache, ask>>
        BY <1>4 DEF K!LoseClaim
      <3>2. forked => forked'
        BY <1>4 DEF K!LoseClaim, K!Unkept, K!Doing
      <3>3. QED
        BY <3>1, <3>2
    <2>8. ASSUME NEW v \in Workers, run[v] # None, run'[v] = run[v]
          PROVE  /\ K!Claims(v)' => K!Claims(v)
                 /\ Unkept(v) => Unkept(v)' \/ forked'
      <3>1. run[v].owner \in K!Owners
        BY <1>1, <2>8 DEF Attempt
      <3>2. CASE run[v].owner # o
        <4>1. jobs'[run[v].owner] = jobs[run[v].owner]
          BY <1>1, <2>2, <3>1, <3>2
        <4>2. QED
          BY <2>7, <2>8, <4>1, SameAttempt
      <3>3. CASE run[v].owner = o
        <4>1. ~ K!Claims(v)'
          BY <1>1, <2>2, <2>3, <2>8, <3>3 DEF K!Claims
        <4>2. ASSUME Unkept(v)
              PROVE  forked'
          <5>1. jobs[o].claim = v
            BY <3>3, <4>2 DEF Unkept, K!Claims
          <5>2. run' # [run EXCEPT ![jobs[o].claim] = None]
            BY <1>1, <2>8, <5>1
          <5>3. QED
            BY <1>4, <4>2, <5>1, <5>2 DEF K!LoseClaim, Unkept
        <4>3. QED
          BY <4>1, <4>2
      <3>4. QED
        BY <3>2, <3>3
    <2>9. QED
      BY <2>4, <2>6, <2>7, <2>8, RestKeeps
  <1>5. ASSUME NEW w \in Workers, NEW o \in K!Owners, K!Take(w, o)
        PROVE  LookInv'
    <2>1. PICK job_ : job_ = [jobs[o] EXCEPT !.at = "held", !.claim = w]
      OBVIOUS
    <2>2. jobs' = [jobs EXCEPT ![o] = job_] /\ jobs[o].at = "queued" /\ jobs[o] \in JobOf
      BY <1>1, <1>5, <2>1 DEF K!Take
    <2>3. job_ \in JobOf /\ job_.at = "held" /\ job_.kept = jobs[o].kept
      BY <2>1, <2>2 DEF JobOf
    <2>4. /\ jobs' \in [K!Owners -> JobOf]
          /\ \A p \in K!Owners :
               /\ jobs'[p].claim # None => jobs'[p].at = "held"
               /\ jobs'[p].at # "none" => jobs[p].at # "none" /\ jobs'[p].kept = jobs[p].kept
      BY <1>1, <2>2, <2>3
    <2>5. PICK begun : begun = [owner |-> o, at |-> "started", text |-> None]
      OBVIOUS
    <2>6. run' = [run EXCEPT ![w] = begun]
      BY <1>5, <2>5 DEF K!Take
    <2>7. begun \in Attempt /\ begun.at = "started"
      BY <2>5 DEF Attempt
    <2>8. /\ run' \in [Workers -> Attempt \cup {None}]
          /\ \A v \in Workers : run'[v] = run[v] \/ run'[v].at = "started"
      BY <1>1, <2>6, <2>7
    <2>9. UNCHANGED <<case, cache, ask, forked>>
      BY <1>5 DEF K!Take
    <2>10. ASSUME NEW v \in Workers, run[v] # None, run'[v] = run[v]
           PROVE  /\ K!Claims(v)' => K!Claims(v)
                  /\ Unkept(v) => Unkept(v)' \/ forked'
      <3>1. run[v].owner \in K!Owners /\ v # w
        BY <1>1, <1>5, <2>10 DEF Attempt, K!Take
      <3>2. CASE run[v].owner # o
        <4>1. jobs'[run[v].owner] = jobs[run[v].owner]
          BY <1>1, <2>2, <3>1, <3>2
        <4>2. QED
          BY <2>9, <2>10, <4>1, SameAttempt
      <3>3. CASE run[v].owner = o
        <4>1. jobs'[o].claim = w /\ jobs[o].claim = None
          BY <1>1, <2>1, <2>2
        <4>2. QED
          BY <2>10, <3>1, <3>3, <4>1 DEF K!Claims, Unkept
      <3>4. QED
        BY <3>2, <3>3
    <2>11. QED
      BY <2>4, <2>8, <2>9, <2>10, RestKeeps
  <1>6. ASSUME NEW w \in Workers, K!Finish(w)
        PROVE  LookInv'
    <2> DEFINE o == run[w].owner
    <2>1. /\ run' = [run EXCEPT ![w] = None] /\ UNCHANGED <<case, cache, ask, forked>>
          /\ run[w] # None
      BY <1>6 DEF K!Finish
    <2>2. o \in K!Owners
      BY <1>1, <2>1 DEF Attempt
    <2>a. PICK next_ : next_ = jobs[o].tries + 1
      OBVIOUS
    <2>b. next_ \in Nat
      <3>1. jobs[o].tries \in Nat
        BY <1>1, <2>2 DEF JobOf
      <3>2. QED
        BY <2>a, <3>1
    <2>3. PICK again : again = [jobs[o] EXCEPT !.at = "queued", !.claim = None,
                                               !.tries = next_]
      OBVIOUS
    <2>4. \/ jobs' = jobs
          \/ jobs' = [jobs EXCEPT ![o] = K!NoJob]
          \/ K!Claims(w) /\ jobs' = [jobs EXCEPT ![o] = again]
      BY <1>1, <1>6, <2>2, <2>a, <2>3 DEF K!Finish
    <2>5. again \in JobOf /\ again.claim = None /\ again.kept = jobs[o].kept
      BY <1>1, <2>2, <2>b, <2>3 DEF JobOf
    <2>6. K!NoJob \in JobOf /\ K!NoJob.claim = None /\ K!NoJob.at = "none"
      <3>1. <<>> \in [{} -> Answers]
        OBVIOUS
      <3>2. <<>> \in Kept
        BY <3>1 DEF Kept
      <3>3. QED
        BY <3>2 DEF K!NoJob, JobOf
    <2>7. K!Claims(w) => jobs[o].at = "held"
      BY <1>1, <2>2 DEF K!Claims
    <2>8. /\ jobs' \in [K!Owners -> JobOf]
          /\ \A p \in K!Owners :
               /\ jobs'[p].claim # None => jobs'[p].at = "held"
               /\ jobs'[p].at # "none" => jobs[p].at # "none" /\ jobs'[p].kept = jobs[p].kept
      <3> HIDE DEF o
      <3>1. CASE jobs' = jobs
        BY <1>1, <3>1
      <3>2. CASE jobs' = [jobs EXCEPT ![o] = K!NoJob]
        BY <1>1, <2>2, <2>6, <3>2
      <3>3. CASE K!Claims(w) /\ jobs' = [jobs EXCEPT ![o] = again]
        BY <1>1, <2>2, <2>5, <2>7, <3>3
      <3>4. QED
        BY <2>4, <3>1, <3>2, <3>3
    <2>9. /\ run' \in [Workers -> Attempt \cup {None}]
          /\ \A v \in Workers : run'[v] \in {run[v], None}
      BY <1>1, <2>1
    <2>10. ASSUME NEW v \in Workers, run[v] # None, run'[v] = run[v]
           PROVE  /\ K!Claims(v)' => K!Claims(v)
                  /\ Unkept(v) => Unkept(v)' \/ forked'
      <3>1. run[v].owner \in K!Owners /\ v # w
        BY <1>1, <2>1, <2>10 DEF Attempt
      <3>2. CASE jobs' = jobs \/ run[v].owner # o
        <4>1. jobs'[run[v].owner] = jobs[run[v].owner]
          BY <1>1, <2>4, <3>1, <3>2
        <4>2. QED
          BY <2>1, <2>10, <4>1, SameAttempt
      <3>3. CASE jobs' # jobs /\ run[v].owner = o
        <4>1. jobs[o].claim = w
          BY <1>6, <3>3 DEF K!Finish, K!Claims
        <4>2. jobs'[o].claim = None
          BY <1>1, <2>2, <2>4, <2>5, <2>6, <3>3
        <4>3. QED
          BY <2>10, <3>1, <3>3, <4>1, <4>2 DEF K!Claims, Unkept
      <3>4. QED
        BY <3>2, <3>3
    <2>11. QED
      BY <2>1, <2>8, <2>9, <2>10, RestKeeps
  <1>7. QED
    BY <1>2, <1>3, <1>4, <1>5, <1>6

LEMMA BeginKeeps ==
  ASSUME LookInv, NEW w \in Workers, K!Begin(w)
  PROVE  LookInv'
  <1>1. /\ UNCHANGED <<case, cache, jobs, ask>> /\ (forked => forked')
        /\ run[w] # None /\ run[w].at = "started"
        /\ jobs \in [K!Owners -> JobOf]
        /\ \A p \in K!Owners : jobs[p].claim # None => jobs[p].at = "held"
    BY DEF K!Begin, K!Doing, LookInv, LookTypes, HeldByOne
  <1>2. K!Overlaps(w) => forked'
    BY DEF K!Begin
  <1>3. ASSUME NEW at \in {"succeeded", "failed"}, K!Turns(w, at, None)
        PROVE  LookInv'
    <2>1. /\ run' \in [Workers -> Attempt \cup {None}]
          /\ run'[w].at = at /\ run'[w].owner = run[w].owner
          /\ \A v \in Workers : v # w => run'[v] = run[v]
      BY <1>1, <1>3, TurnsTo DEF LookInv
    <2>2. QED
      BY <1>1, <1>2, <2>1, RestKeeps, SameAttempt
  <1>4. ASSUME NEW at \in {"form", "refining"}, K!Turns(w, at, None),
               (at = "form") <=> K!Word, cache = None \/ forked'
        PROVE  LookInv'
    <2>1. /\ run' \in [Workers -> Attempt \cup {None}]
          /\ run'[w].at = at /\ run'[w].owner = run[w].owner /\ run[w].owner \in K!Owners
          /\ \A v \in Workers : v # w => run'[v] = run[v]
      BY <1>1, <1>4, TurnsTo DEF LookInv, Steps
    <2>2. LookTypes' /\ Told'
      BY <1>1, <2>1, TypesStay DEF LookInv, LookTypes, Told
    <2>3. HeldByOne'
      BY <1>1, <1>4, <2>1, CaseStays DEF LookInv, HeldByOne, K!Doing
    <2>4. OneResult'
      <3>1. CASE forked'
        BY <3>1 DEF OneResult
      <3>2. CASE ~ forked'
        <4>1. cache = None /\ ~ forked
          BY <1>1, <1>4, <3>2
        <4>2. \A v \in Workers : run[v] # None => run[v].owner = run[w].owner
          <5>1. \A v \in Workers : run[v] # None => run[v].owner \in K!Owners
            BY DEF LookInv, LookTypes, Attempt
          <5>2. QED
            BY <1>2, <3>2, <5>1 DEF K!Overlaps, K!RunsOf
        <4>3. \A v \in Workers : K!Doing(v, "writing")' => K!Doing(v, "writing") /\ run'[v] = run[v]
          BY <2>1 DEF K!Doing
        <4>4. \A v \in Workers : ~ K!Doing(v, "exact")'
          BY <2>1, <4>1 DEF K!Doing, LookInv, OneResult
        <4>5. ASSUME NEW v \in Workers, K!Doing(v, "writing")'
              PROVE  /\ Holds(v, run[v].text)' \/ Unkept(v)'
                     /\ \A u \in Workers : K!Doing(u, "writing")' => run'[u].text = run'[v].text
          <5>1. K!Doing(v, "writing") /\ run'[v] = run[v]
            BY <4>3, <4>5
          <5>2. /\ Holds(v, run[v].text) \/ Unkept(v)
                /\ \A u \in Workers : K!Doing(u, "writing") => run[u].text = run[v].text
            BY <4>1, <5>1 DEF LookInv, OneResult
          <5>3. Holds(v, run[v].text)' \/ Unkept(v)'
            BY <1>1, <5>1, <5>2, SameAttempt DEF K!Doing
          <5>4. QED
            BY <4>3, <5>1, <5>2, <5>3
        <4>6. \A u, v \in Workers : run'[u] # None /\ run'[v] # None => run'[u].owner = run'[v].owner
          BY <1>1, <2>1, <4>2
        <4>7. cache' = None
          BY <1>1, <4>1
        <4>8. QED
          BY <4>4, <4>5, <4>6, <4>7, <4>3 DEF OneResult
      <3>3. QED
        BY <3>1, <3>2
    <2>5. QED
      BY <2>2, <2>3, <2>4 DEF LookInv
  <1>5. QED
    BY <1>1, <1>3, <1>4 DEF K!Begin

LEMMA WriteKeeps ==
  ASSUME LookInv, NEW w \in Workers, K!Write(w)
  PROVE  LookInv' /\ (cache # None /\ ~ forked => cache' \in {cache, None})
  <1>1. /\ UNCHANGED <<case, jobs, ask, forked>>
        /\ run[w] # None /\ run[w].at = "writing" /\ K!Doing(w, "writing")
        /\ jobs \in [K!Owners -> JobOf]
        /\ \A p \in K!Owners : jobs[p].claim # None => jobs[p].at = "held"
    BY DEF K!Write, K!Doing, LookInv, LookTypes, HeldByOne
  <1>2. ASSUME NEW at \in {"succeeded", "failed"}, K!Turns(w, at, None)
        PROVE  /\ run' \in [Workers -> Attempt \cup {None}]
               /\ run'[w].at = at /\ run'[w].owner = run[w].owner
               /\ \A v \in Workers : v # w => run'[v] = run[v]
               /\ run[w] \in Attempt
    BY <1>1, <1>2, TurnsTo DEF LookInv
  <1>3. CASE cache' = cache
    <2>1. PICK at \in {"succeeded", "failed"} : K!Turns(w, at, None)
      BY DEF K!Write
    <2>2. QED
      BY <1>1, <1>2, <1>3, <2>1, RestKeeps, SameAttempt
  <1>4. CASE K!Turns(w, "succeeded", None) /\ cache' = run[w].text
    <2>1. /\ run' \in [Workers -> Attempt \cup {None}]
          /\ run'[w].at = "succeeded" /\ run'[w].owner = run[w].owner
          /\ \A v \in Workers : v # w => run'[v] = run[v]
          /\ run[w] \in Attempt
      BY <1>2, <1>4
    <2>2. cache' \in Answers /\ cache' # None
      BY <1>1, <1>4, <2>1 DEF LookInv, HeldByOne, Attempt
    <2>3. LookTypes' /\ Told'
      BY <1>1, <2>1, <2>2, TypesStay DEF LookInv, LookTypes, Told
    <2>4. HeldByOne'
      BY <1>1, <2>1, CaseStays DEF LookInv, HeldByOne, K!Doing
    <2>5. OneResult'
      <3>1. SUFFICES ASSUME ~ forked
                     PROVE  OneResult'
        BY <1>1 DEF OneResult
      <3>2. \A u, v \in Workers :
              run[u] # None /\ run[v] # None /\ run[u].at # "started" /\ run[v].at # "started" =>
                run[u].owner = run[v].owner
        BY <3>1 DEF LookInv, OneResult
      <3>3. \A v \in Workers : K!Doing(v, "writing") =>
              /\ Holds(v, run[v].text) \/ Unkept(v)
              /\ run[v].text = run[w].text
        BY <1>1, <3>1 DEF LookInv, OneResult
      <3>4. \A v \in Workers : K!Doing(v, "writing")' => K!Doing(v, "writing") /\ run'[v] = run[v]
        BY <2>1 DEF K!Doing
      <3>5. ASSUME NEW v \in Workers, K!Doing(v, "writing")'
            PROVE  Holds(v, run[v].text)' \/ Unkept(v)'
        <4>1. run[v] # None /\ run'[v] = run[v] /\ (Holds(v, run[v].text) \/ Unkept(v))
          BY <3>3, <3>4, <3>5 DEF K!Doing
        <4>2. QED
          BY <1>1, <4>1, SameAttempt
      <3>6. \A v \in Workers : K!Doing(v, "writing")' =>
              /\ \A u \in Workers : K!Doing(u, "writing")' => run'[u].text = run'[v].text
              /\ run'[v].text = cache'
        BY <1>4, <3>3, <3>4
      <3>7. ASSUME NEW v \in Workers, run'[v] # None, run'[v].at \in Steps
            PROVE  Holds(v, cache)' \/ ~ K!Claims(v)'
        <4>1. run'[v] = run[v] /\ run[v].owner = run[w].owner /\ v # w
          BY <1>1, <2>1, <3>2, <3>7 DEF Steps
        <4>2. CASE Holds(w, run[w].text)
          BY <1>1, <1>4, <4>1, <4>2, CaseStays DEF Holds, Found, FoundIs
        <4>3. CASE Unkept(w)
          BY <1>1, <4>1, <4>3 DEF Unkept, K!Claims
        <4>4. QED
          BY <1>1, <3>3, <4>2, <4>3
      <3>8. \A v \in Workers : ~ K!Doing(v, "exact")'
        BY <2>1, <3>1 DEF K!Doing, LookInv, OneResult
      <3>9. \A u, v \in Workers :
              run'[u] # None /\ run'[v] # None /\ run'[u].at # "started" /\ run'[v].at # "started"
                => run'[u].owner = run'[v].owner
        BY <1>1, <2>1, <3>2
      <3>10. QED
        BY <3>5, <3>6, <3>7, <3>8, <3>9 DEF OneResult
    <2>6. cache # None /\ ~ forked => cache' = cache
      BY <1>1, <1>4 DEF LookInv, OneResult
    <2>7. QED
      BY <2>3, <2>4, <2>5, <2>6 DEF LookInv
  <1>5. QED
    BY <1>3, <1>4 DEF K!Write

LEMMA KeptGrows ==
  ASSUME NEW kept \in Kept, NEW step \in Steps, NEW text \in Answers
  PROVE  [s \in DOMAIN kept \cup {step} |-> IF s = step THEN text ELSE kept[s]] \in Kept
  <1>1. PICK S \in SUBSET Steps : kept \in [S -> Answers]
    BY DEF Kept
  <1>2. [s \in DOMAIN kept \cup {step} |-> IF s = step THEN text ELSE kept[s]]
          \in [S \cup {step} -> Answers]
    BY <1>1
  <1>3. S \cup {step} \in SUBSET Steps
    OBVIOUS
  <1>4. QED
    BY <1>2, <1>3 DEF Kept

LEMMA StepsKeep ==
  ASSUME LookInv, NEW w \in Workers, K!Steps(w)
  PROVE  LookInv'
  <1> DEFINE o == run[w].owner
             step == run[w].at
             kept == jobs[o].kept
  <1>1. /\ UNCHANGED <<case, cache, ask>> /\ (forked => forked')
        /\ run[w] # None /\ run[w].at \in Steps
        /\ jobs \in [K!Owners -> JobOf]
        /\ \A p \in K!Owners : jobs[p].claim # None => jobs[p].at = "held"
        /\ run'[w].at = "exact" => forked'
        /\ run'[w].at = "writing" /\ ~ K!Claims(w) => forked'
    BY DEF K!Steps, K!Doing, LookInv, LookTypes, HeldByOne, Steps
  <1>2. o \in K!Owners /\ run[w] \in Attempt /\ jobs[o] \in JobOf /\ kept \in Kept
    BY <1>1 DEF LookInv, LookTypes, Attempt, JobOf
  <1>3. ASSUME NEW at \in {"succeeded", "failed"}, K!Turns(w, at, None), UNCHANGED jobs
        PROVE  LookInv'
    <2>1. /\ run' \in [Workers -> Attempt \cup {None}]
          /\ run'[w].at = at /\ run'[w].owner = run[w].owner
          /\ \A v \in Workers : v # w => run'[v] = run[v]
      BY <1>1, <1>3, TurnsTo DEF LookInv
    <2>2. run[w].at # "started"
      BY <1>1 DEF Steps
    <2>3. QED
      BY <1>1, <1>3, <2>1, <2>2, RestKeeps, SameAttempt
  (* The word is defined as it was spelled. *)
  <1>4. ASSUME K!Turns(w, "exact", None), UNCHANGED jobs, step \in {"form", "lemma"}
        PROVE  LookInv'
    <2>1. /\ run' \in [Workers -> Attempt \cup {None}]
          /\ run'[w].at = "exact"
          /\ \A v \in Workers : v # w => run'[v] = run[v]
      BY <1>1, <1>4, TurnsTo DEF LookInv, Steps
    <2>2. LookTypes' /\ Told'
      BY <1>1, <1>4, <2>1, TypesStay DEF LookInv, LookTypes, Told
    <2>3. HeldByOne'
      BY <1>1, <1>4, <2>1, CaseStays DEF LookInv, HeldByOne, K!Doing
    <2>4. forked'
      BY <1>1, <2>1
    <2>5. QED
      BY <2>2, <2>3, <2>4 DEF LookInv, OneResult
  (* An answer, which is kept. *)
  <1>5. ASSUME NEW text \in Answers, K!Turns(w, K!Answered(step), text), K!Claims(w),
               jobs' \in [K!Owners -> JobOf],
               \A p \in K!Owners : p # o => jobs'[p] = jobs[p],
               jobs'[o].at = jobs[o].at, jobs'[o].claim = jobs[o].claim,
               step \in DOMAIN jobs'[o].kept, jobs'[o].kept[step] = text,
               \/ jobs' = jobs
               \/ /\ step \notin DOMAIN kept
                  /\ \A s \in DOMAIN kept :
                       s \in DOMAIN jobs'[o].kept /\ jobs'[o].kept[s] = kept[s]
        PROVE  LookInv'
    <2>1. K!Answered(step) \in {"lemma", "writing"} /\ (K!Answered(step) = "lemma" <=> step = "form")
      BY DEF K!Answered
    <2>2. /\ run' \in [Workers -> Attempt \cup {None}]
          /\ run'[w].at = K!Answered(step) /\ run'[w].text = text /\ run'[w].owner = o
          /\ \A v \in Workers : v # w => run'[v] = run[v]
      BY <1>1, <1>5, <2>1, TurnsTo DEF LookInv, Steps
    <2>3. jobs[o].at = "held"
      BY <1>1, <1>2, <1>5 DEF K!Claims
    <2>4. LookTypes' /\ Told'
      BY <1>1, <1>5, <2>2, TypesStay DEF LookInv, LookTypes, Told
    <2>5. /\ step \in {"form", "lemma", "exact"} => K!Word
          /\ step = "refining" => ~ K!Word
      BY <1>1 DEF LookInv, HeldByOne, K!Doing
    <2>6. HeldByOne'
      <3>1. \A p \in K!Owners : jobs'[p].claim # None => jobs'[p].at = "held"
        BY <1>1, <1>2, <1>5
      <3>2. ASSUME NEW v \in Workers
            PROVE  /\ K!Doing(v, "writing")' => run'[v].text # None
                   /\ run'[v] # None /\ run'[v].at \in {"form", "lemma", "exact"} => K!Word
                   /\ K!Doing(v, "refining")' => ~ K!Word
        <4>1. CASE v = w
          BY <2>1, <2>2, <2>5, <4>1 DEF K!Doing
        <4>2. CASE v # w
          BY <2>2, <4>2 DEF LookInv, HeldByOne, K!Doing
        <4>3. QED
          BY <4>1, <4>2
      <3>3. QED
        BY <1>1, <3>1, <3>2, CaseStays DEF HeldByOne
    <2>7. OneResult'
      <3>1. SUFFICES ASSUME ~ forked'
                     PROVE  OneResult'
        BY DEF OneResult
      <3>2. ~ forked /\ step # "exact"
        BY <1>1, <3>1 DEF LookInv, OneResult, K!Doing
      <3>3. step = LastStep \/ (step = "form" /\ LastStep = "lemma")
        BY <1>1, <2>5, <3>2 DEF LastStep, Steps
      <3>4. \A v \in Workers : run[v] # None /\ run[v].at # "started" => run[v].owner = o
        BY <1>1, <3>2 DEF LookInv, OneResult, Steps
      <3>5. \A v \in Workers : K!Doing(v, "writing") =>
              /\ LastStep \in DOMAIN kept /\ kept[LastStep] = run[v].text
              /\ \A u \in Workers : K!Doing(u, "writing") => run[u].text = run[v].text
              /\ cache # None => run[v].text = cache
        <4>1. \A v \in Workers : K!Doing(v, "writing") => run[v].owner = o
          BY <3>4 DEF K!Doing
        <4>2. ASSUME NEW v \in Workers, K!Doing(v, "writing")
              PROVE  ~ Unkept(v)
          BY <1>1, <1>5, <4>1, <4>2 DEF Unkept, K!Claims, K!Doing, Steps
        <4>3. QED
          BY <2>3, <3>2, <4>1, <4>2 DEF LookInv, OneResult, Holds, Found, FoundIs
      <3>6. cache # None => LastStep \in DOMAIN kept /\ kept[LastStep] = cache
        BY <1>1, <1>5, <2>3, <3>2 DEF LookInv, OneResult, Holds, Found, FoundIs
      <3>7. LastStep \in DOMAIN kept =>
              LastStep \in DOMAIN jobs'[o].kept /\ jobs'[o].kept[LastStep] = kept[LastStep]
        BY <1>5
      <3>8. step = LastStep /\ LastStep \in DOMAIN kept => text = kept[LastStep]
        BY <1>5
      <3>9. \A v \in Workers :
              /\ run'[v] # None /\ run'[v].at # "started" => run'[v].owner = o
              /\ ~ K!Doing(v, "exact")'
        <4>1. \A v \in Workers : ~ K!Doing(v, "exact")
          BY <3>2 DEF LookInv, OneResult
        <4>2. QED
          BY <2>1, <2>2, <3>4, <4>1 DEF K!Doing
      <3>10. ASSUME NEW v \in Workers, K!Doing(v, "writing")'
             PROVE  /\ LastStep \in DOMAIN jobs'[o].kept
                    /\ jobs'[o].kept[LastStep] = run'[v].text
                    /\ cache # None => run'[v].text = cache
        <4>1. CASE v = w
          <5>1. step = LastStep
            BY <2>1, <2>2, <3>3, <3>10, <4>1 DEF K!Doing
          <5>2. QED
            BY <1>5, <2>2, <3>6, <3>8, <4>1, <5>1
        <4>2. CASE v # w
          <5>1. K!Doing(v, "writing") /\ run'[v] = run[v]
            BY <2>2, <3>10, <4>2 DEF K!Doing
          <5>2. QED
            BY <3>5, <3>7, <5>1
        <4>3. QED
          BY <4>1, <4>2
      <3>11. ASSUME NEW v \in Workers, K!Doing(v, "writing")'
             PROVE  /\ Holds(v, run[v].text)'
                    /\ \A u \in Workers : K!Doing(u, "writing")' => run'[u].text = run'[v].text
                    /\ cache' # None => run'[v].text = cache'
        <4>1. run'[v].owner = o
          BY <3>9, <3>11 DEF K!Doing
        <4>2. Holds(v, run[v].text)'
          BY <1>1, <3>10, <3>11, <4>1, CaseStays DEF Holds, Found, FoundIs
        <4>3. QED
          BY <1>1, <3>10, <3>11, <4>2
      <3>12. ASSUME NEW v \in Workers, run'[v] # None, run'[v].at \in Steps, cache' # None
             PROVE  Holds(v, cache)'
        <4>1. run'[v].owner = o
          BY <3>9, <3>12 DEF Steps
        <4>2. LastStep \in DOMAIN jobs'[o].kept /\ jobs'[o].kept[LastStep] = cache
          BY <1>1, <3>6, <3>7, <3>12
        <4>3. QED
          BY <1>1, <4>1, <4>2, CaseStays DEF Holds, Found, FoundIs
      <3>13. QED
        BY <3>9, <3>11, <3>12 DEF OneResult
    <2>8. QED
      BY <2>4, <2>6, <2>7 DEF LookInv
  <1>6. CASE step \in DOMAIN kept /\ K!Claims(w) /\ UNCHANGED jobs
             /\ K!Turns(w, K!Answered(step), kept[step])
    <2>1. kept[step] \in Answers
      BY <1>2, <1>6 DEF Kept
    <2>2. QED
      BY <1>1, <1>5, <1>6, <2>1
  <1>7. ASSUME NEW text \in Answers, step \notin DOMAIN kept, K!Claims(w),
               K!Turns(w, K!Answered(step), text), K!Keeps(w, step, text)
        PROVE  LookInv'
    <2>1. PICK more : more = [s \in DOMAIN kept \cup {step} |->
                                IF s = step THEN text ELSE kept[s]]
      OBVIOUS
    <2>2. more \in Kept
      BY <1>1, <1>2, <2>1, KeptGrows
    <2>3. PICK job_ : job_ = [jobs[o] EXCEPT !.kept = more]
      OBVIOUS
    <2>4. jobs' = [jobs EXCEPT ![o] = job_]
      BY <1>1, <1>2, <1>7, <2>1, <2>3 DEF K!Keeps
    <2>5. /\ job_ \in JobOf /\ job_.at = jobs[o].at /\ job_.claim = jobs[o].claim
          /\ job_.kept = more
      BY <1>2, <2>2, <2>3 DEF JobOf
    <2>6. /\ jobs' \in [K!Owners -> JobOf] /\ jobs'[o] = job_
          /\ \A p \in K!Owners : p # o => jobs'[p] = jobs[p]
      BY <1>1, <1>2, <2>4, <2>5
    <2>7. /\ step \in DOMAIN more /\ more[step] = text
          /\ \A s \in DOMAIN kept : s \in DOMAIN more /\ more[s] = kept[s]
      BY <1>7, <2>1
    <2>8. QED
      BY <1>5, <1>7, <2>5, <2>6, <2>7
  <1>8. CASE K!Turns(w, K!Unanswered(step), None) /\ UNCHANGED jobs
    <2>1. CASE step \in {"form", "lemma"}
      BY <1>4, <1>8, <2>1 DEF K!Unanswered
    <2>2. CASE step \notin {"form", "lemma"}
      BY <1>3, <1>8, <2>2 DEF K!Unanswered
    <2>3. QED
      BY <2>1, <2>2
  (* A verdict that is not kept. *)
  <1>9. ASSUME NEW text \in Answers, step = "refining", K!Turns(w, "writing", text),
               UNCHANGED jobs, K!Claims(w) => step \notin DOMAIN kept
        PROVE  LookInv'
    <2>1. /\ run' \in [Workers -> Attempt \cup {None}]
          /\ run'[w].at = "writing" /\ run'[w].text = text /\ run'[w].owner = o
          /\ \A v \in Workers : v # w => run'[v] = run[v]
      BY <1>1, <1>9, TurnsTo DEF LookInv, Steps
    <2>2. LookTypes' /\ Told'
      BY <1>1, <1>9, <2>1, TypesStay DEF LookInv, LookTypes, Told
    <2>3. ~ K!Word
      BY <1>1, <1>9 DEF LookInv, HeldByOne, K!Doing
    <2>4. HeldByOne'
      BY <1>1, <1>9, <2>1, CaseStays DEF LookInv, HeldByOne, K!Doing
    <2>5. OneResult'
      <3>1. SUFFICES ASSUME ~ forked'
                     PROVE  OneResult'
        BY DEF OneResult
      <3>2. ~ forked /\ K!Claims(w) /\ LastStep \notin DOMAIN kept
        BY <1>1, <1>9, <2>1, <2>3, <3>1 DEF LastStep
      <3>3. jobs[o].at = "held" /\ jobs[o].claim = w /\ ~ Found(o)
        BY <1>1, <1>2, <3>2 DEF K!Claims, Found
      <3>4. \A v \in Workers : run[v] # None /\ run[v].at # "started" => run[v].owner = o
        BY <1>1, <3>2 DEF LookInv, OneResult, Steps
      <3>5. ASSUME NEW v \in Workers, K!Doing(v, "writing")
            PROVE  FALSE
        <4>1. run[v].owner = o /\ v # w
          BY <1>9, <3>4, <3>5 DEF K!Doing
        <4>2. Holds(v, run[v].text) \/ Unkept(v)
          BY <3>2, <3>5 DEF LookInv, OneResult
        <4>3. QED
          BY <3>3, <4>1, <4>2 DEF Holds, Unkept, K!Claims
      <3>6. cache = None
        BY <1>1, <3>2, <3>3 DEF LookInv, OneResult, Holds
      <3>7. ASSUME NEW v \in Workers, K!Doing(v, "writing")'
            PROVE  v = w
        BY <2>1, <3>5, <3>7 DEF K!Doing
      <3>8. K!Doing(w, "writing")' => Unkept(w)'
        <4>1. K!Doing(w, "writing")' => K!Unkept(w)'
          <5>1. ~ K!Word'
            BY <1>1, <2>3, CaseStays
          <5>2. "refining" \notin DOMAIN jobs'[run'[w].owner].kept
            BY <1>9, <2>1, <2>3, <3>2 DEF LastStep
          <5>3. QED
            BY <5>1, <5>2 DEF K!Unkept
        <4>2. K!Claims(w)'
          BY <1>9, <2>1, <3>3 DEF K!Claims
        <4>3. QED
          BY <4>1, <4>2 DEF Unkept
      <3>9. \A v \in Workers :
              /\ run'[v] # None /\ run'[v].at # "started" => run'[v].owner = o
              /\ ~ K!Doing(v, "exact")'
        <4>1. \A v \in Workers : ~ K!Doing(v, "exact")
          BY <3>2 DEF LookInv, OneResult
        <4>2. QED
          BY <2>1, <3>4, <4>1 DEF K!Doing
      <3>10. cache' = None
        BY <1>1, <3>6
      <3>11. QED
        BY <3>7, <3>8, <3>9, <3>10 DEF OneResult
    <2>6. QED
      BY <2>2, <2>4, <2>5 DEF LookInv
  <1>10. CASE K!FallsBack(w, step) /\ UNCHANGED jobs /\ (K!Claims(w) => step \notin DOMAIN kept)
    BY <1>9, <1>10 DEF K!FallsBack
  <1>11. \/ \E at \in {"succeeded", "failed"} : K!Turns(w, at, None) /\ UNCHANGED jobs
         \/ /\ step \in DOMAIN kept /\ K!Claims(w) /\ UNCHANGED jobs
            /\ K!Turns(w, K!Answered(step), kept[step])
         \/ /\ step \notin DOMAIN kept /\ K!Claims(w)
            /\ \E text \in Answers : K!Turns(w, K!Answered(step), text) /\ K!Keeps(w, step, text)
         \/ K!Turns(w, K!Unanswered(step), None) /\ UNCHANGED jobs
         \/ /\ K!FallsBack(w, step) /\ UNCHANGED jobs
            /\ K!Claims(w) => step \notin DOMAIN kept
    BY DEF K!Steps
  <1>12. QED
    BY <1>3, <1>6, <1>7, <1>8, <1>10, <1>11

LEMMA LookNext == ASSUME LookInv, [K!Next]_K!vars PROVE LookInv'
  <1>1. CASE UNCHANGED K!vars
    <2>1. /\ jobs \in [K!Owners -> JobOf] /\ run \in [Workers -> Attempt \cup {None}]
          /\ \A p \in K!Owners : jobs[p].claim # None => jobs[p].at = "held"
      BY DEF LookInv, LookTypes, HeldByOne
    <2>2. UNCHANGED <<case, cache, jobs, run, ask, forked>>
      BY <1>1 DEF K!vars
    <2>3. QED
      BY <2>1, <2>2, RestKeeps, SameAttempt
  <1>2. ASSUME NEW t \in Askers,
               \/ \E probe \in BOOLEAN : K!Tap(t, probe)
               \/ K!Read(t) \/ K!Inspect(t) \/ K!Reread(t) \/ K!Enqueue(t)
        PROVE  LookInv'
    BY <1>2, RequestKeeps, EnqueueKeeps
  <1>3. CASE \/ K!Expire
             \/ \E o \in K!Owners : K!Delete(o) \/ K!LoseClaim(o)
             \/ \E w \in Workers : K!Finish(w) \/ \E o \in K!Owners : K!Take(w, o)
    BY <1>3, QueueKeeps
  <1>4. ASSUME NEW w \in Workers, K!Begin(w) \/ K!Steps(w) \/ K!Write(w)
        PROVE  LookInv'
    BY <1>4, BeginKeeps, StepsKeep, WriteKeeps
  <1>5. QED
    BY <1>1, <1>2, <1>3, <1>4 DEF K!Next

(* Of the lookups, for every set of askers, workers and answers: a request *)
(* that saw a result is on its way to it; and unless something forked, all *)
(* attempts that have begun are of one job, which keeps what any of them   *)
(* writes or is still claimed by the one whose verdict it does not keep,   *)
(* and which agrees with the cache (asyncjob/checkpoint.go,                *)
(* pipeline_analyze.go; wordlookup/cache.go).                              *)
THEOREM LookupsInvariant == K!Spec => []LookInv
  BY LookInit, LookNext, PTL DEF K!Spec

(* Nobody is told that there is nothing, nor queues a lookup, when a       *)
(* result was cached by the time it asked for a pending job                *)
(* (words_article.go, runArticleLookup).                                   *)
THEOREM AskersAreTold == LearningSpec => []ToldTheResult
  <1>1. LearningInit => K!Init
    BY DEF LearningInit
  <1>2. [LearningNext]_<<part, vars, lessons, articles, lookups, additions, clips,
                         translations>> => [K!Next]_K!vars
    BY DEF LearningNext, lookups, K!vars
  <1>3. LookInv => ToldTheResult
    BY DEF LookInv, Told, ToldTheResult, K!ToldTheResult
  <1>4. QED
    BY <1>1, <1>2, <1>3, LookupsInvariant, PTL DEF LearningSpec, K!Spec

(* A result stands in the cache until it expires, whatever attempts        *)
(* overlap or fall back on a verdict that is not kept, unless something    *)
(* forked (wordlookup/cache.go, quizcache/cache.go, pipeline_analyze.go).  *)
THEOREM ResultStands == LearningSpec => CachedStands
  <1> DEFINE Stays == cache # None /\ ~ forked => cache' \in {cache, None}
  <1>1. LearningInit => K!Init
    BY DEF LearningInit
  <1>2. [LearningNext]_<<part, vars, lessons, articles, lookups, additions, clips,
                         translations>> => [K!Next]_K!vars
    BY DEF LearningNext, lookups, K!vars
  <1>3. ASSUME LookInv, [K!Next]_K!vars
        PROVE  [Stays]_cache
    <2>1. CASE \E w \in Workers : K!Write(w)
      BY <1>3, <2>1, WriteKeeps
    <2>2. CASE K!Expire
      BY <2>2 DEF K!Expire
    <2>3. CASE UNCHANGED cache
      BY <2>3
    <2>4. QED
      BY <1>3, <2>1, <2>2, <2>3 DEF K!Next, K!vars, K!Tap, K!Read, K!Inspect, K!Reread,
         K!Enqueue, K!Delete, K!LoseClaim, K!Take, K!Begin, K!Steps, K!Finish
  <1>4. QED
    <2>1. LearningSpec => []LookInv /\ [][K!Next]_K!vars
      BY <1>1, <1>2, LookupsInvariant, PTL DEF LearningSpec, K!Spec
    <2>2. LookInv /\ [K!Next]_K!vars => [Stays]_cache
      BY <1>3
    <2>3. LearningSpec => [][Stays]_cache
      BY <2>1, <2>2, PTL
    <2>4. QED
      BY <2>3 DEF CachedStands, K!CachedStands

HIDE LookupsAssumption

-----------------------------------------------------------------------------
(* Articles (module Articles). *)

ArticleTypes ==
  /\ article \in A!Article \cup {NoOne}
  /\ DOMAIN instance = Draws /\ DOMAIN drawing = Draws
  /\ DOMAIN busy = Hands
  /\ \A w \in Hands : busy[w] # NoOne => busy[w].from \in A!Draft

(* What is on the row is of one study, and an article without questions is *)
(* alone in being studied again.                                           *)
RowAgrees ==
  article # NoOne =>
    /\ article.asks \in {article.summary, NoOne}
    /\ article.translation \in {article.summary, NoOne}
    /\ article.phrases \in {article.summary, NoOne} \/ reopened
    /\ article.status # "done" => article.asks = NoOne /\ (article.phrases = NoOne \/ reopened)

GradesAgree ==
  /\ \A i \in Draws : A!Held(i) /\ instance[i].answered =>
       instance[i].graded \in {article.asks, NoOne}
  /\ \A answer \in form : answer.graded \in {article.asks, NoOne}

(* What was read of the article is still so, where it will be written. *)
ReadAgrees ==
  /\ \A w \in Hands : busy[w] # NoOne /\ busy[w].job = "phrases" /\ ~ reopened =>
       article.status = "done" /\ busy[w].from = article.summary
  /\ \A part_ \in {"claim", "save"}, from \in A!Draft : <<part_, from>> \in filling =>
       article.translation # NoOne \/ from = article.summary

(* Nothing goes on before there is an article. *)
Unseen ==
  article = NoOne =>
    /\ work = {} /\ filling = {} /\ form = {}
    /\ \A i \in Draws : ~ A!Held(i) /\ drawing[i] = NoOne
    /\ \A w \in Hands : busy[w] = NoOne

ArticleInv == ArticleTypes /\ RowAgrees /\ GradesAgree /\ ReadAgrees /\ Unseen

USE ArticlesAssumption

LEMMA ArticleInit == ASSUME A!Init PROVE ArticleInv
  <1>1. /\ drawing = [i \in Draws |-> NoOne] /\ form = {}
        /\ work = {} /\ busy = [w \in Hands |-> NoOne] /\ filling = {}
    BY DEF A!Init
  <1>2. CASE article = NoOne /\ instance = [i \in Draws |-> NoOne]
    BY <1>1, <1>2 DEF ArticleInv, ArticleTypes, RowAgrees, GradesAgree, ReadAgrees, Unseen, A!Held
  <1>3. ASSUME NEW t \in {Legacy, NoOne}, NEW p \in {Legacy, NoOne}, NEW q \in {Legacy, NoOne},
               article = [A!Reserved EXCEPT !.status = "done", !.summary = Legacy,
                            !.translation = t, !.asks = q, !.phrases = p,
                            !.claimed = "long ago"],
               NEW i \in Draws,
               instance = [j \in Draws |-> IF j = i THEN [answered |-> FALSE, graded |-> NoOne]
                                           ELSE NoOne]
        PROVE  ArticleInv
    <2>1. /\ article \in A!Article /\ article.status = "done" /\ article.summary = Legacy
          /\ article.translation = t /\ article.asks = q /\ article.phrases = p
      BY <1>3 DEF A!Reserved, A!Article, A!Draft
    <2>2. \A j \in Draws : A!Held(j) => instance[j].graded = NoOne
      BY <1>3 DEF A!Held
    <2>3. DOMAIN instance = Draws
      BY <1>3
    <2>4. ArticleTypes /\ RowAgrees /\ Unseen
      BY <1>1, <2>1, <2>3 DEF ArticleTypes, RowAgrees, Unseen
    <2>5. GradesAgree /\ ReadAgrees
      BY <1>1, <2>2 DEF GradesAgree, ReadAgrees
    <2>6. QED
      BY <2>4, <2>5 DEF ArticleInv
  <1>4. QED
    BY <1>2, <1>3 DEF A!Init

(* What may become of the article.                                         *)
Moves ==
  /\ article' \in A!Article
  /\ reopened => reopened'
  /\ article.asks # NoOne => article'.asks = article.asks
  /\ article.status = "done" /\ ~ reopened' => article'.status = "done"
                                              /\ article'.summary = article.summary
  /\ \/ article'.translation # NoOne
     \/ article.translation = NoOne /\ article'.summary = article.summary

LEMMA ArticleKeeps ==
  ASSUME ArticleInv, article # NoOne, Moves, RowAgrees',
         DOMAIN instance' = Draws, DOMAIN drawing' = Draws, DOMAIN busy' = Hands,
         \A i \in Draws :
           \/ instance'[i] \in {instance[i], Gone}
           \/ instance'[i].graded \in {article.asks, NoOne},
         \A answer \in form' : answer \in form \/ answer.graded \in {article.asks, NoOne},
         \A w \in Hands :
           \/ busy'[w] \in {busy[w], NoOne}
           \/ busy'[w].job = "study" /\ busy'[w].from = NoOne
           \/ busy'[w].from = article.summary /\ article.status = "done",
         \A part_ \in {"claim", "save"}, from \in A!Draft : <<part_, from>> \in filling' =>
           \/ from = article.summary
           \/ \E of \in {"claim", "save"} : <<of, from>> \in filling
  PROVE  ArticleInv'
  <1>1. article' # NoOne
    BY DEF Moves
  <1>2. ArticleTypes' /\ Unseen'
    <2>1. article.summary \in A!Draft /\ NoOne \in A!Draft
      BY DEF ArticleInv, ArticleTypes, A!Article, A!Draft
    <2>2. QED
      BY <1>1, <2>1 DEF ArticleInv, ArticleTypes, Unseen, Moves
  <1>3. GradesAgree'
    <2>1. \A x : x \in {article.asks, NoOne} => x \in {article'.asks, NoOne}
      BY DEF Moves
    <2>2. ASSUME NEW i \in Draws, A!Held(i)', instance'[i].answered
          PROVE  instance'[i].graded \in {article.asks, NoOne}
      <3>1. CASE instance'[i] = instance[i]
        BY <2>2, <3>1 DEF ArticleInv, GradesAgree, A!Held
      <3>2. QED
        BY <2>2, <3>1 DEF A!Held
    <2>3. ASSUME NEW answer \in form'
          PROVE  answer.graded \in {article.asks, NoOne}
      BY <2>3 DEF ArticleInv, GradesAgree
    <2>4. QED
      BY <2>1, <2>2, <2>3 DEF GradesAgree
  <1>4. ReadAgrees'
    <2>1. ASSUME NEW w \in Hands, busy'[w] # NoOne, busy'[w].job = "phrases", ~ reopened'
          PROVE  article'.status = "done" /\ busy'[w].from = article'.summary
      <3>1. article.status = "done" /\ busy'[w].from = article.summary
        BY <2>1 DEF ArticleInv, ReadAgrees, Moves
      <3>2. QED
        BY <2>1, <3>1 DEF Moves
    <2>2. ASSUME NEW part_ \in {"claim", "save"}, NEW from \in A!Draft,
                 <<part_, from>> \in filling'
          PROVE  article'.translation # NoOne \/ from = article'.summary
      <3>1. article.translation # NoOne \/ from = article.summary
        BY <2>2 DEF ArticleInv, ReadAgrees
      <3>2. QED
        BY <3>1 DEF Moves
    <2>3. QED
      BY <2>1, <2>2 DEF ReadAgrees
  <1>5. QED
    BY <1>2, <1>3, <1>4 DEF ArticleInv

(* A step that leaves the row alone, or what it says. *)
LEMMA RowStays ==
  ASSUME ArticleInv, article # NoOne, reopened => reopened', article' \in A!Article,
         article'.summary = article.summary, article'.asks = article.asks,
         article'.translation = article.translation, article'.phrases = article.phrases,
         \/ article'.status = article.status
         \/ article'.status # "done" /\ article.status # "done"
         \/ article'.status # "done" /\ article.asks = NoOne /\ reopened'
  PROVE  Moves /\ RowAgrees'
  BY DEF ArticleInv, RowAgrees, Moves

LEMMA RowOf == ASSUME ArticleInv, article # NoOne PROVE article \in A!Article
  BY DEF ArticleInv, ArticleTypes

LEMMA ReserveKeeps ==
  ASSUME ArticleInv, NEW i \in Draws, A!Reserve(i)
  PROVE  ArticleInv'
  <1>1. /\ UNCHANGED <<instance, form, work, busy, filling, reopened>>
        /\ drawing' = [drawing EXCEPT ![i] = A!Seen(article')]
        /\ DOMAIN instance' = Draws /\ DOMAIN drawing' = Draws /\ DOMAIN busy' = Hands
    BY DEF A!Reserve, ArticleInv, ArticleTypes
  <1>2. CASE article = NoOne
    <2>1. /\ article' \in A!Article /\ article'.asks = NoOne /\ article'.translation = NoOne
          /\ article'.phrases = NoOne /\ article'.summary = NoOne
      BY <1>2 DEF A!Reserve, A!Reserved, A!Article, A!Draft
    <2>2. ArticleTypes' /\ RowAgrees' /\ Unseen'
      BY <1>1, <2>1 DEF ArticleInv, ArticleTypes, RowAgrees, Unseen
    <2>3. GradesAgree' /\ ReadAgrees'
      BY <1>1, <1>2 DEF ArticleInv, Unseen, GradesAgree, ReadAgrees, A!Held
    <2>4. QED
      BY <2>2, <2>3 DEF ArticleInv
  <1>3. CASE article # NoOne
    <2>1. article' = article
      BY <1>3 DEF A!Reserve
    <2>2. Moves /\ RowAgrees'
      BY <1>1, <1>3, <2>1, RowOf, RowStays
    <2>3. QED
      BY <1>1, <1>3, <2>2, ArticleKeeps
  <1>4. QED
    BY <1>2, <1>3

(* An article without questions is studied again. *)
LEMMA Reopens ==
  ASSUME ArticleInv, article # NoOne, article.asks = NoOne,
         article' = A!Reopened(article), reopened' = TRUE
  PROVE  Moves /\ RowAgrees'
  <1>1. article \in A!Article
    BY RowOf
  <1>2. /\ article' \in A!Article
        /\ article'.summary = article.summary /\ article'.asks = article.asks
        /\ article'.translation = article.translation /\ article'.phrases = article.phrases
        /\ article'.status = "pending"
    BY <1>1 DEF A!Reopened, A!Article
  <1>3. QED
    BY <1>2, RowStays

LEMMA DrawsKeep ==
  ASSUME ArticleInv, NEW i \in Draws,
         A!SelfHeal(i) \/ A!CreateInstance(i) \/ A!DispatchStudy(i)
  PROVE  ArticleInv'
  <1>1. DOMAIN instance = Draws /\ DOMAIN drawing = Draws /\ DOMAIN busy = Hands
    BY DEF ArticleInv, ArticleTypes
  <1>2. article # NoOne /\ UNCHANGED <<form, busy, filling>> /\ DOMAIN drawing' = Draws
    BY <1>1 DEF ArticleInv, Unseen, A!SelfHeal, A!CreateInstance, A!DispatchStudy
  <1>3. Moves /\ RowAgrees'
    <2>1. CASE A!SelfHeal(i)
      BY <1>2, <2>1, Reopens DEF A!SelfHeal, A!Heal
    <2>2. CASE UNCHANGED <<article, reopened>>
      BY <1>2, <2>2, RowOf, RowStays
    <2>3. QED
      BY <2>1, <2>2 DEF A!CreateInstance, A!DispatchStudy
  <1>4. DOMAIN instance' = Draws
        /\ \A j \in Draws : instance'[j] = instance[j] \/ instance'[j].graded = NoOne
    <2>1. PICK fresh_ : fresh_ = [answered |-> FALSE, graded |-> NoOne]
      OBVIOUS
    <2>2. instance' = instance \/ instance' = [instance EXCEPT ![i] = fresh_]
      BY <2>1 DEF A!SelfHeal, A!CreateInstance, A!DispatchStudy
    <2>3. fresh_.graded = NoOne
      BY <2>1
    <2>4. QED
      BY <1>1, <2>2, <2>3
  <1>5. QED
    BY <1>1, <1>2, <1>3, <1>4, ArticleKeeps

LEMMA LearnersKeep ==
  ASSUME ArticleInv, NEW i \in Draws,
         A!View(i) \/ A!ViewPhrases(i) \/ A!Delete(i) \/ A!Grade(i)
  PROVE  ArticleInv'
  <1>1. DOMAIN instance = Draws /\ DOMAIN drawing = Draws /\ DOMAIN busy = Hands
    BY DEF ArticleInv, ArticleTypes
  <1>2. article # NoOne /\ UNCHANGED <<drawing, busy>>
    BY DEF ArticleInv, Unseen, A!View, A!ViewPhrases, A!Delete, A!Grade
  <1>3. Moves /\ RowAgrees'
    <2>1. CASE UNCHANGED <<article, reopened>>
      BY <1>2, <2>1, RowOf, RowStays
    <2>2. CASE article' = A!Reopened(article) /\ reopened' = TRUE /\ article.asks = NoOne
      BY <1>2, <2>2, Reopens
    <2>3. QED
      BY <2>1, <2>2 DEF A!View, A!ViewPhrases, A!Delete, A!Grade, A!Heal
  <1>4. DOMAIN instance' = Draws /\ \A j \in Draws : instance'[j] \in {instance[j], Gone}
    BY <1>1 DEF A!View, A!ViewPhrases, A!Delete, A!Grade
  <1>5. \A answer \in form' : answer \in form \/ answer.graded = article.asks
    <2>1. PICK answer_ : answer_ = [draw |-> i, graded |-> article.asks]
      OBVIOUS
    <2>2. form' = form \/ form' = form \cup {answer_}
      BY <2>1 DEF A!View, A!ViewPhrases, A!Delete, A!Grade
    <2>3. answer_.graded = article.asks
      BY <2>1
    <2>4. QED
      BY <2>2, <2>3
  <1>6. filling' = filling \/ filling' = filling \cup {<<"claim", article.summary>>}
    BY DEF A!View, A!ViewPhrases, A!Delete, A!Grade
  <1>7. QED
    BY <1>1, <1>2, <1>3, <1>4, <1>5, <1>6, ArticleKeeps

LEMMA RecordKeeps ==
  ASSUME ArticleInv, NEW answer \in form, A!Record(answer)
  PROVE  ArticleInv'
  <1>1. DOMAIN instance = Draws /\ DOMAIN drawing = Draws /\ DOMAIN busy = Hands
    BY DEF ArticleInv, ArticleTypes
  <1>2. /\ article # NoOne /\ answer.graded \in {article.asks, NoOne}
        /\ UNCHANGED <<article, drawing, busy, filling, reopened>>
        /\ form' \subseteq form
    BY DEF A!Record, ArticleInv, Unseen, GradesAgree
  <1>3. Moves /\ RowAgrees'
    BY <1>2, RowOf, RowStays
  <1>4. PICK answer_ : answer_ = [answered |-> TRUE, graded |-> answer.graded]
    OBVIOUS
  <1>5. /\ instance' = instance \/ instance' = [instance EXCEPT ![answer.draw] = answer_]
        /\ answer_.graded = answer.graded
    BY <1>4 DEF A!Record
  <1>6. /\ DOMAIN instance' = Draws
        /\ \A i \in Draws : instance'[i] = instance[i] \/ instance'[i].graded = answer.graded
    BY <1>1, <1>5
  <1>7. QED
    BY <1>1, <1>2, <1>3, <1>6, ArticleKeeps

LEMMA StudyKeeps ==
  ASSUME ArticleInv, NEW w \in Hands,
         A!TakeStudy(w) \/ A!CompleteStudy(w) \/ A!FailStudy(w)
  PROVE  ArticleInv'
  <1>1. DOMAIN instance = Draws /\ DOMAIN drawing = Draws
        /\ DOMAIN busy = Hands
    BY DEF ArticleInv, ArticleTypes
  <1>2. article # NoOne /\ UNCHANGED <<instance, drawing, form, filling, reopened>>
    BY DEF ArticleInv, Unseen, A!TakeStudy, A!CompleteStudy, A!FailStudy, A!Take, A!Studying
  <1>3. article \in A!Article
    BY <1>2, RowOf
  <1>4. /\ DOMAIN busy' = Hands
        /\ \A v \in Hands : \/ busy'[v] \in {busy[v], NoOne}
                            \/ busy'[v].job = "study" /\ busy'[v].from = NoOne
    <2>1. PICK begun : begun = [job |-> "study", from |-> NoOne]
      OBVIOUS
    <2>2. \/ busy' = busy
          \/ busy' = [busy EXCEPT ![w] = NoOne]
          \/ busy' = [busy EXCEPT ![w] = begun]
      BY <2>1 DEF A!TakeStudy, A!CompleteStudy, A!FailStudy, A!Start, A!Ended
    <2>3. begun.job = "study" /\ begun.from = NoOne
      BY <2>1
    <2>4. QED
      BY <1>1, <2>2, <2>3
  <1>5. Moves /\ RowAgrees'
    <2>1. CASE A!TakeStudy(w)
      <3>1. \/ article' = article
            \/ /\ article' = [article EXCEPT !.status = "pending", !.claimed = "lately"]
               /\ article.status = "failed"
        BY <2>1 DEF A!TakeStudy
      <3>2. CASE article' = article
        BY <1>2, <1>3, <3>2, RowStays
      <3>3. CASE article' = [article EXCEPT !.status = "pending", !.claimed = "lately"]
                 /\ article.status = "failed"
        <4>1. /\ article' \in A!Article /\ article'.status = "pending"
              /\ article'.summary = article.summary /\ article'.asks = article.asks
              /\ article'.translation = article.translation
              /\ article'.phrases = article.phrases
          BY <1>3, <3>3 DEF A!Article
        <4>2. QED
          BY <1>2, <3>3, <4>1, RowStays
      <3>4. QED
        BY <3>1, <3>2, <3>3
    <2>2. CASE A!CompleteStudy(w)
      <3>1. CASE article' = article
        BY <1>2, <1>3, <3>1, RowStays
      <3>2. ASSUME NEW d \in Drafts, article.status = "pending",
                   article' = [article EXCEPT !.status = "done", !.summary = d,
                                              !.translation = d, !.asks = d]
            PROVE  Moves /\ RowAgrees'
        <4>1. /\ article' \in A!Article /\ article'.status = "done"
              /\ article'.summary = d /\ article'.asks = d
              /\ article'.translation = d /\ article'.phrases = article.phrases
          BY <1>3, <3>2 DEF A!Article, A!Draft
        <4>2. article.asks = NoOne /\ (article.phrases = NoOne \/ reopened)
          BY <1>2, <3>2 DEF ArticleInv, RowAgrees
        <4>3. d # NoOne
          OBVIOUS
        <4>4. QED
          BY <1>2, <3>2, <4>1, <4>2, <4>3 DEF RowAgrees, Moves
      <3>3. QED
        BY <2>2, <3>1, <3>2 DEF A!CompleteStudy, A!Completable
    <2>3. CASE A!FailStudy(w)
      <3>1. \/ article' = article
            \/ article' = [article EXCEPT !.status = "failed"] /\ article.status = "pending"
        BY <2>3 DEF A!FailStudy
      <3>2. CASE article' = article
        BY <1>2, <1>3, <3>2, RowStays
      <3>3. CASE article' = [article EXCEPT !.status = "failed"] /\ article.status = "pending"
        <4>1. /\ article' \in A!Article /\ article'.status = "failed"
              /\ article'.summary = article.summary /\ article'.asks = article.asks
              /\ article'.translation = article.translation
              /\ article'.phrases = article.phrases
          BY <1>3, <3>3 DEF A!Article
        <4>2. QED
          BY <1>2, <3>3, <4>1, RowStays
      <3>4. QED
        BY <3>1, <3>2, <3>3
    <2>4. QED
      BY <2>1, <2>2, <2>3
  <1>6. QED
    BY <1>1, <1>2, <1>4, <1>5, ArticleKeeps

LEMMA PhrasesKeep ==
  ASSUME ArticleInv, NEW w \in Hands,
         A!TakePhrases(w) \/ A!SetPhrases(w) \/ A!FailPhrases(w)
  PROVE  ArticleInv'
  <1>1. DOMAIN instance = Draws /\ DOMAIN drawing = Draws
        /\ DOMAIN busy = Hands
    BY DEF ArticleInv, ArticleTypes
  <1>2. article # NoOne /\ UNCHANGED <<instance, drawing, form, filling, reopened>>
    BY DEF ArticleInv, Unseen, A!TakePhrases, A!SetPhrases, A!FailPhrases, A!Take
  <1>3. article \in A!Article
    BY <1>2, RowOf
  <1>4. /\ DOMAIN busy' = Hands
        /\ \A v \in Hands : \/ busy'[v] \in {busy[v], NoOne}
                            \/ busy'[v].from = article.summary /\ article.status = "done"
    <2>1. PICK begun : begun = [job |-> "phrases", from |-> article.summary]
      OBVIOUS
    <2>2. \/ busy' = busy
          \/ busy' = [busy EXCEPT ![w] = NoOne]
          \/ busy' = [busy EXCEPT ![w] = begun] /\ article.status = "done"
      BY <2>1 DEF A!TakePhrases, A!SetPhrases, A!FailPhrases, A!Start, A!Ended, A!Ready
    <2>3. begun.from = article.summary
      BY <2>1
    <2>4. QED
      BY <1>1, <2>2, <2>3
  <1>5. Moves /\ RowAgrees'
    <2>1. CASE article' = article
      BY <1>2, <1>3, <2>1, RowStays
    <2>2. CASE A!SetPhrases(w) /\ article' = [article EXCEPT !.phrases = busy[w].from]
               /\ A!MissingPhrases(article)
      <3>1. CASE busy[w].from \in A!Draft
        <4>1. /\ article' \in A!Article /\ article'.phrases = busy[w].from
              /\ article'.status = article.status
              /\ article'.summary = article.summary /\ article'.asks = article.asks
              /\ article'.translation = article.translation
          BY <1>3, <2>2, <3>1 DEF A!Article
        <4>2. reopened \/ busy[w].from = article.summary
          BY <2>2 DEF A!SetPhrases, ArticleInv, ReadAgrees
        <4>3. article.status = "done"
          BY <2>2 DEF A!MissingPhrases
        <4>4. QED
          BY <1>2, <4>1, <4>2, <4>3 DEF ArticleInv, RowAgrees, Moves
      <3>2. QED
        BY <2>2, <3>1 DEF ArticleInv, ArticleTypes, A!SetPhrases
    <2>3. QED
      BY <2>1, <2>2 DEF A!TakePhrases, A!SetPhrases, A!FailPhrases
  <1>6. QED
    BY <1>1, <1>2, <1>4, <1>5, ArticleKeeps

LEMMA BackfillKeeps ==
  ASSUME ArticleInv,
         \/ \E from \in A!Draft : A!ClaimTranslation(from) \/ A!SaveTranslation(from)
         \/ A!Age \/ A!Sweep
  PROVE  ArticleInv'
  <1>1. DOMAIN instance = Draws /\ DOMAIN drawing = Draws
        /\ DOMAIN busy = Hands
    BY DEF ArticleInv, ArticleTypes
  <1>2. article # NoOne /\ UNCHANGED <<instance, drawing, form, busy, reopened>>
    BY DEF ArticleInv, Unseen, A!ClaimTranslation, A!SaveTranslation, A!Age, A!Sweep
  <1>3. article \in A!Article
    BY <1>2, RowOf
  <1>4. \A part_ \in {"claim", "save"}, from \in A!Draft : <<part_, from>> \in filling' =>
           \E of \in {"claim", "save"} : <<of, from>> \in filling
    <2>1. ASSUME NEW from \in A!Draft, A!ClaimTranslation(from) \/ A!SaveTranslation(from)
          PROVE  \E of \in {"claim", "save"} :
                   <<of, from>> \in filling /\ filling' \subseteq filling \cup {<<"save", from>>}
      BY <2>1 DEF A!ClaimTranslation, A!SaveTranslation
    <2>2. CASE filling' = filling
      BY <2>2
    <2>3. QED
      BY <2>1, <2>2 DEF A!Age, A!Sweep
  <1>5. Moves /\ RowAgrees'
    <2>1. CASE article' = article
      BY <1>2, <1>3, <2>1, RowStays
    <2>2. CASE \/ article' = [article EXCEPT !.lent = "lately"]
               \/ article' = [article EXCEPT !.lent = "long ago"]
               \/ article' = [article EXCEPT !.claimed = "long ago"]
      <3>1. /\ article' \in A!Article /\ article'.status = article.status
            /\ article'.summary = article.summary /\ article'.asks = article.asks
            /\ article'.translation = article.translation
            /\ article'.phrases = article.phrases
        BY <1>3, <2>2 DEF A!Article
      <3>2. QED
        BY <1>2, <3>1, RowStays
    <2>3. ASSUME NEW from \in A!Draft, A!SaveTranslation(from),
                 A!MissingTranslation(article),
                 article' = [article EXCEPT !.translation = from]
          PROVE  Moves /\ RowAgrees'
      <3>1. /\ article' \in A!Article /\ article'.status = article.status
            /\ article'.summary = article.summary /\ article'.asks = article.asks
            /\ article'.translation = from
            /\ article'.phrases = article.phrases
        BY <1>3, <2>3 DEF A!Article
      <3>2. article.translation = NoOne
        BY <2>3 DEF A!MissingTranslation
      <3>3. from = article.summary
        BY <2>3, <3>2 DEF A!SaveTranslation, ArticleInv, ReadAgrees
      <3>4. QED
        BY <1>2, <3>1, <3>2, <3>3 DEF ArticleInv, RowAgrees, Moves
    <2>4. QED
      BY <2>1, <2>2, <2>3 DEF A!ClaimTranslation, A!SaveTranslation, A!Age, A!Sweep
  <1>6. QED
    BY <1>1, <1>2, <1>4, <1>5, ArticleKeeps

LEMMA ArticleNext == ASSUME ArticleInv, [A!Next]_A!vars PROVE ArticleInv'
  <1>1. CASE UNCHANGED A!vars
    BY <1>1 DEF A!vars, ArticleInv, ArticleTypes, RowAgrees, GradesAgree, ReadAgrees, Unseen,
                A!Held
  <1>2. ASSUME NEW i \in Draws,
               \/ A!Reserve(i) \/ A!SelfHeal(i) \/ A!CreateInstance(i) \/ A!DispatchStudy(i)
               \/ A!View(i) \/ A!ViewPhrases(i) \/ A!Delete(i) \/ A!Grade(i)
        PROVE  ArticleInv'
    BY <1>2, ReserveKeeps, DrawsKeep, LearnersKeep
  <1>3. ASSUME NEW w \in Hands,
               \/ A!TakeStudy(w) \/ A!CompleteStudy(w) \/ A!FailStudy(w)
               \/ A!TakePhrases(w) \/ A!SetPhrases(w) \/ A!FailPhrases(w)
        PROVE  ArticleInv'
    BY <1>3, StudyKeeps, PhrasesKeep
  <1>4. QED
    BY <1>1, <1>2, <1>3, RecordKeeps, BackfillKeeps DEF A!Next

(* Of the articles, for every set of learners, requests and workers: what  *)
(* is on the row is of one study, and what a job or a backfill has read of *)
(* it to write is still so, or will not be written                         *)
(* (newsarticle/mysql.go; article_study_job.go).                           *)
THEOREM ArticlesInvariant == A!Spec => []ArticleInv
  BY ArticleInit, ArticleNext, PTL DEF A!Spec

(* An article holds together: its questions, its translation and its       *)
(* phrases are of the summary that is shown with them, and an answer was   *)
(* graded by the questions that the article still has                      *)
(* (newsarticle/mysql.go).                                                 *)
THEOREM ArticleHoldsTogether == LearningSpec => []StudyAgrees
  <1>1. LearningInit => A!Init
    BY DEF LearningInit
  <1>2. [LearningNext]_<<part, vars, lessons, articles, lookups, additions, clips,
                         translations>> => [A!Next]_A!vars
    BY DEF LearningNext, articles, A!vars
  <1>3. ArticleInv => StudyAgrees
    BY DEF ArticleInv, RowAgrees, GradesAgree, StudyAgrees, A!StudyAgrees, A!Ready
  <1>4. QED
    BY <1>1, <1>2, <1>3, ArticlesInvariant, PTL DEF LearningSpec, A!Spec

HIDE ArticlesAssumption

-----------------------------------------------------------------------------
(* Lessons (module Lessons). *)

(* Of a row: that it has a status and says which words it compares. *)
RowsThere ==
  /\ DOMAIN lesson = Lessons
  /\ \A l \in Lessons : lesson[l] # None => {"status", "about"} \subseteq DOMAIN lesson[l]

LessonInv == RowsThere /\ L!NoTwoAlike

(* Whoever has done a lesson has it compare what it compared. *)
Same(l, row) == row.status = "done" => L!Done(l) /\ row.about = lesson[l].about

LEMMA LessonKeeps ==
  ASSUME LessonInv, DOMAIN lesson' = Lessons,
         \A l \in Lessons :
           \/ lesson'[l] \in {lesson[l], None}
           \/ {"status", "about"} \subseteq DOMAIN lesson'[l] /\ Same(l, lesson'[l])
  PROVE  LessonInv'
  BY DEF LessonInv, RowsThere, L!NoTwoAlike, L!Done, Same

(* A write to a row that leaves what it compares alone. *)
LEMMA WriteRow ==
  ASSUME LessonInv, NEW l, NEW row,
         lesson' = [lesson EXCEPT ![l] = row],
         l \in Lessons => {"status", "about"} \subseteq DOMAIN row /\ Same(l, row)
  PROVE  LessonInv'
  <1>1. /\ DOMAIN lesson' = Lessons
        /\ \A k \in Lessons : lesson'[k] = IF k = l THEN row ELSE lesson[k]
    BY DEF LessonInv, RowsThere
  <1>2. QED
    BY <1>1, LessonKeeps

LEMMA LessonsInit == ASSUME L!Init PROVE LessonInv
  <1>1. PICK about \in [course.done -> Comparisons], short \in SUBSET course.done :
          /\ \A l, m \in course.done : l # m => about[l] # about[m]
          /\ lesson = [l \in Lessons |->
               IF l \notin course.done THEN None ELSE
               LET n == IF l \in short THEN Size - 1 ELSE Size IN
               [L!Fresh EXCEPT !.status = "done", !.about = about[l],
                               !.questions = n, !.due = 1 .. n]]
    BY DEF L!Init
  <1>2. ASSUME NEW l \in Lessons, l \in course.done
        PROVE  lesson[l].about = about[l] /\ {"status", "about"} \subseteq DOMAIN lesson[l]
    <2>1. PICK n : lesson[l] = [L!Fresh EXCEPT !.status = "done", !.about = about[l],
                                               !.questions = n, !.due = 1 .. n]
      BY <1>1, <1>2
    <2>2. DOMAIN L!Fresh = {"status", "about", "keyed", "questions", "due", "queue", "feedback"}
      BY DEF L!Fresh
    <2>3. QED
      BY <2>1, <2>2
  <1>3. \A l \in Lessons : lesson[l] # None => l \in course.done
    BY <1>1
  <1>4. RowsThere
    BY <1>1, <1>2, <1>3 DEF RowsThere
  <1>5. L!NoTwoAlike
    BY <1>1, <1>2, <1>3 DEF L!NoTwoAlike, L!Done
  <1>6. QED
    BY <1>4, <1>5 DEF LessonInv

LEMMA EnqueueRow ==
  ASSUME LessonInv, NEW l \in Lessons, NEW row, L!EnqueueGenerate(l, row),
         {"status", "about"} \subseteq DOMAIN row, row.status # "done"
  PROVE  LessonInv'
  <1>1. CASE lesson' = [lesson EXCEPT ![l] = row]
    BY <1>1, WriteRow DEF Same
  <1>2. ASSUME NEW status_ \in {"failed", row.status},
               lesson' = [lesson EXCEPT ![l] = [row EXCEPT !.status = status_]]
        PROVE  LessonInv'
    <2>1. PICK marked : marked = [row EXCEPT !.status = status_]
      OBVIOUS
    <2>2. {"status", "about"} \subseteq DOMAIN marked /\ marked.status = status_
      BY <2>1
    <2>3. QED
      BY <1>2, <2>1, <2>2, WriteRow DEF Same
  <1>3. QED
    BY <1>1, <1>2 DEF L!EnqueueGenerate

LEMMA RecoverKeeps ==
  ASSUME LessonInv, NEW l \in Lessons, L!Create(l) \/ L!Retry(l) \/ L!Recover(l)
  PROVE  LessonInv'
  <1>1. CASE L!Create(l)
    <2>1. {"status", "about"} \subseteq DOMAIN L!Fresh /\ L!Fresh.status # "done"
      BY DEF L!Fresh
    <2>2. QED
      BY <1>1, <2>1, EnqueueRow DEF L!Create
  <1>2. CASE L!Retry(l)
    <2>1. PICK row : row = [lesson[l] EXCEPT !.status = "pending"]
      OBVIOUS
    <2>2. {"status", "about"} \subseteq DOMAIN row /\ row.status = "pending"
      BY <1>2, <2>1 DEF L!Retry, LessonInv, RowsThere
    <2>3. QED
      BY <1>2, <2>1, <2>2, EnqueueRow DEF L!Retry
  <1>3. CASE L!Recover(l)
    <2>1. CASE lesson[l].status \in {"pending", "processing"} /\ L!EnqueueGenerate(l, lesson[l])
      BY <1>3, <2>1, EnqueueRow DEF L!Recover, LessonInv, RowsThere
    <2>2. CASE lesson' = lesson
      BY <2>2, LessonKeeps DEF LessonInv, RowsThere
    <2>3. QED
      BY <1>3, <2>1, <2>2 DEF L!Recover
  <1>4. QED
    BY <1>1, <1>2, <1>3

(* SetStatus. *)
LEMMA StatusKeeps ==
  ASSUME LessonInv, NEW l, NEW status_, status_ # "done",
         lesson' \in {lesson, L!WithStatus(l, status_)}
  PROVE  LessonInv'
  <1>1. CASE lesson' = lesson
    BY <1>1, LessonKeeps DEF LessonInv, RowsThere
  <1>2. CASE /\ lesson[l] # None
             /\ lesson' = [lesson EXCEPT ![l].status = status_]
    <2>1. PICK row : row = [lesson[l] EXCEPT !.status = status_]
      OBVIOUS
    <2>2. lesson' = [lesson EXCEPT ![l] = row]
      BY <1>2, <2>1
    <2>3. l \in Lessons => {"status", "about"} \subseteq DOMAIN row /\ row.status = status_
      BY <1>2, <2>1 DEF LessonInv, RowsThere
    <2>4. QED
      BY <2>2, <2>3, WriteRow DEF Same
  <1>3. QED
    BY <1>1, <1>2 DEF L!WithStatus

LEMMA LessonCompletes ==
  ASSUME LessonInv, NEW w \in Crew, L!Complete(w)
  PROVE  LessonInv'
  <1>1. PICK l : l = hand[w].task[2]
    OBVIOUS
  <1>2. CASE lesson' = lesson
    BY <1>2, LessonKeeps DEF LessonInv, RowsThere
  <1>3. ASSUME NEW about \in Comparisons, lesson[l] # None, ~ L!Alike(l, about),
               lesson' = [lesson EXCEPT ![l].status = "done", ![l].about = about,
                 ![l].keyed = TRUE, ![l].questions = Size, ![l].due = L!Questions]
        PROVE  LessonInv'
    <2>1. PICK row : row = [lesson[l] EXCEPT !.status = "done", !.about = about,
                              !.keyed = TRUE, !.questions = Size, !.due = L!Questions]
      OBVIOUS
    <2>2. lesson' = [lesson EXCEPT ![l] = row]
      BY <1>3, <2>1
    <2>3. l \in Lessons => {"status", "about"} \subseteq DOMAIN row /\ row.about = about
      BY <1>3, <2>1 DEF LessonInv, RowsThere
    <2>4. /\ DOMAIN lesson' = Lessons
          /\ \A k \in Lessons : lesson'[k] = IF k = l THEN row ELSE lesson[k]
      BY <2>2 DEF LessonInv, RowsThere
    <2>5. RowsThere'
      BY <2>3, <2>4 DEF LessonInv, RowsThere
    <2>6. \A k \in Lessons \ {l} : L!Done(k) => lesson[k].about # about
      BY <1>3 DEF L!Alike, L!Done
    <2>7. L!NoTwoAlike'
      BY <2>3, <2>4, <2>6 DEF LessonInv, L!NoTwoAlike, L!Done
    <2>8. QED
      BY <2>5, <2>7 DEF LessonInv
  <1>4. QED
    BY <1>1, <1>2, <1>3 DEF L!Complete

LEMMA WorkersKeep ==
  ASSUME LessonInv, NEW w \in Crew,
         \/ \E t \in tasks : L!Take(w, t)
         \/ L!Invalid(w) \/ L!Break(w) \/ L!FailAttempt(w) \/ L!AddQuestions(w)
  PROVE  LessonInv'
  <1>1. ASSUME NEW t \in tasks, L!Take(w, t)
        PROVE  LessonInv'
    BY <1>1, StatusKeeps DEF L!Take
  <1>2. CASE L!Invalid(w) \/ L!FailAttempt(w)
    BY <1>2, StatusKeeps DEF L!Invalid, L!FailAttempt
  <1>3. CASE lesson' = lesson
    BY <1>3, LessonKeeps DEF LessonInv, RowsThere
  <1>4. CASE L!AddQuestions(w) /\ lesson' # lesson
    <2>1. PICK l : l = hand[w].task[2]
      OBVIOUS
    <2>2. /\ L!Done(l)
          /\ lesson' = [lesson EXCEPT ![l].questions = Size, ![l].due = @ \cup {Size}]
      BY <1>4, <2>1 DEF L!AddQuestions
    <2>3. PICK due : due = lesson[l].due \cup {Size}
      OBVIOUS
    <2>4. PICK row : row = [lesson[l] EXCEPT !.questions = Size, !.due = due]
      OBVIOUS
    <2>5. lesson' = [lesson EXCEPT ![l] = row]
      BY <2>2, <2>3, <2>4
    <2>6. l \in Lessons => {"status", "about"} \subseteq DOMAIN row /\ row.about = lesson[l].about
      BY <2>2, <2>4 DEF L!Done, LessonInv, RowsThere
    <2>7. QED
      BY <2>2, <2>5, <2>6, WriteRow DEF Same
  <1>5. QED
    BY <1>1, <1>2, <1>3, <1>4 DEF L!Break

LEMMA PracticeKeeps ==
  ASSUME LessonInv, NEW l \in Lessons,
         \/ L!Start(l) \/ L!Answer(l) \/ L!NextQuestion(l) \/ L!Delete(l)
         \/ \E q \in L!Questions : L!BecomeDue(l, q)
  PROVE  LessonInv'
  <1>1. CASE L!Delete(l)
    BY <1>1, LessonKeeps DEF L!Delete, LessonInv, RowsThere
  <1>2. ASSUME L!Done(l), NEW row, lesson' = [lesson EXCEPT ![l] = row],
               DOMAIN row = DOMAIN lesson[l], row.about = lesson[l].about
        PROVE  LessonInv'
    BY <1>2, WriteRow DEF Same, L!Done, LessonInv, RowsThere
  <1>3. L!Done(l) => "about" \in DOMAIN lesson[l]
    BY DEF L!Done, LessonInv, RowsThere
  <1>4. CASE L!Start(l)
    <2>1. PICK order : order = [i \in 1 .. lesson[l].questions |-> i]
      OBVIOUS
    <2>2. PICK row : row = [lesson[l] EXCEPT !.queue = order]
      OBVIOUS
    <2>3. L!Done(l) /\ lesson' = [lesson EXCEPT ![l] = row]
      BY <1>4, <2>1, <2>2 DEF L!Start
    <2>4. QED
      BY <1>2, <1>3, <2>2, <2>3
  <1>5. CASE L!Answer(l)
    <2>0. PICK q : q = Head(lesson[l].queue)
      OBVIOUS
    <2>1. PICK right \in BOOLEAN :
            lesson' = [lesson EXCEPT ![l].feedback = [question |-> q, correct |-> right],
                         ![l].due = IF right THEN @ \ {q} ELSE @ \cup {q}]
      BY <1>5, <2>0 DEF L!Answer
    <2>2. PICK feedback : feedback = [question |-> q, correct |-> right]
      OBVIOUS
    <2>3. PICK due : due = IF right THEN lesson[l].due \ {q} ELSE lesson[l].due \cup {q}
      OBVIOUS
    <2>4. PICK row : row = [lesson[l] EXCEPT !.feedback = feedback, !.due = due]
      OBVIOUS
    <2>5. L!Done(l) /\ lesson' = [lesson EXCEPT ![l] = row]
      BY <1>5, <2>1, <2>2, <2>3, <2>4 DEF L!Answer
    <2>6. QED
      BY <1>2, <1>3, <2>4, <2>5
  <1>6. CASE L!NextQuestion(l)
    <2>1. PICK order : lesson' = [lesson EXCEPT ![l].feedback = None, ![l].queue = order]
      BY <1>6 DEF L!NextQuestion
    <2>2. PICK row : row = [lesson[l] EXCEPT !.feedback = None, !.queue = order]
      OBVIOUS
    <2>3. L!Done(l) /\ lesson' = [lesson EXCEPT ![l] = row]
      BY <1>6, <2>1, <2>2 DEF L!NextQuestion
    <2>4. QED
      BY <1>2, <1>3, <2>2, <2>3
  <1>7. ASSUME NEW q \in L!Questions, L!BecomeDue(l, q)
        PROVE  LessonInv'
    <2>1. PICK due : due = lesson[l].due \cup {q}
      OBVIOUS
    <2>2. PICK row : row = [lesson[l] EXCEPT !.due = due]
      OBVIOUS
    <2>3. L!Done(l) /\ lesson' = [lesson EXCEPT ![l] = row]
      BY <1>7, <2>1, <2>2 DEF L!BecomeDue
    <2>4. QED
      BY <1>2, <1>3, <2>2, <2>3
  <1>8. QED
    BY <1>1, <1>4, <1>5, <1>6, <1>7

LEMMA ReviewKeeps == ASSUME LessonInv, L!StartReview PROVE LessonInv'
  <1>1. PICK items : lesson' = [l \in Lessons |->
            IF L!Drawn(items, l)
            THEN [lesson[l] EXCEPT !.queue = L!QuestionsOf(L!OfLesson(items, l))]
            ELSE lesson[l]]
    BY DEF L!StartReview
  <1>2. ASSUME NEW l \in Lessons, L!Drawn(items, l)
        PROVE  {"status", "about"} \subseteq DOMAIN lesson'[l] /\ Same(l, lesson'[l])
    <2>1. L!Done(l)
      BY <1>2 DEF L!Drawn, L!Waiting
    <2>2. PICK order : order = L!QuestionsOf(L!OfLesson(items, l))
      OBVIOUS
    <2>3. lesson'[l] = [lesson[l] EXCEPT !.queue = order]
      BY <1>1, <1>2, <2>2
    <2>4. QED
      BY <2>1, <2>3 DEF L!Done, LessonInv, RowsThere, Same
  <1>3. /\ \A l \in Lessons : ~ L!Drawn(items, l) => lesson'[l] = lesson[l]
        /\ DOMAIN lesson' = Lessons
    BY <1>1
  <1>4. QED
    BY <1>2, <1>3, LessonKeeps

LEMMA LessonsNext == ASSUME LessonInv, [L!Next]_L!vars PROVE LessonInv'
  <1>1. CASE UNCHANGED L!vars
    BY <1>1, LessonKeeps DEF L!vars, LessonInv, RowsThere
  <1>2. ASSUME NEW l \in Lessons,
               \/ L!Create(l) \/ L!Retry(l) \/ L!Recover(l)
               \/ L!Start(l) \/ L!Answer(l) \/ L!NextQuestion(l) \/ L!Delete(l)
               \/ \E q \in L!Questions : L!BecomeDue(l, q)
        PROVE  LessonInv'
    BY <1>2, RecoverKeeps, PracticeKeeps
  <1>3. ASSUME NEW w \in Crew,
               \/ \E t \in tasks : L!Take(w, t)
               \/ L!Complete(w) \/ L!Invalid(w) \/ L!Break(w) \/ L!FailAttempt(w)
               \/ L!AddQuestions(w)
        PROVE  LessonInv'
    BY <1>3, LessonCompletes, WorkersKeep
  <1>4. QED
    BY <1>1, <1>2, <1>3, ReviewKeeps DEF L!Next

(* No two lessons of a learner compare the same words, whichever jobs      *)
(* complete them together and whether or not their rows predate the table  *)
(* of comparisons: for any number of lessons, of jobs and of acts          *)
(* (nuance/mysql.go, Complete).                                            *)
THEOREM LessonsDiffer == LearningSpec => []NoTwoAlike
  <1>1. LearningInit => LessonInv
    BY LessonsInit DEF LearningInit
  <1>2. [LearningNext]_<<part, vars, lessons, articles, lookups, additions, clips,
                         translations>> => [L!Next]_L!vars
    BY DEF LearningNext, lessons, L!vars
  <1>3. LessonInv /\ [L!Next]_L!vars => LessonInv'
    BY LessonsNext
  <1>4. LessonInv => NoTwoAlike
    BY DEF LessonInv, NoTwoAlike
  <1>5. QED
    BY <1>1, <1>2, <1>3, <1>4, PTL DEF LearningSpec

-----------------------------------------------------------------------------
(* The order of a practice (module Lessons). *)

(* Lessons counts as this module does. *)
LEMMA SameCardinality == \A S : L!Cardinality(S) = Cardinality(S)
  BY DEF L!Cardinality, Cardinality

(* Some natural numbers, each at its rank. *)
LEMMA Ranks ==
  ASSUME NEW S \in SUBSET Nat, IsFiniteSet(S)
  PROVE  /\ Cardinality(S) \in Nat
         /\ \A m \in S : Cardinality({n \in S : n <= m}) \in 1 .. Cardinality(S)
         /\ \A m, k \in S :
              m < k => Cardinality({n \in S : n <= m}) < Cardinality({n \in S : n <= k})
         /\ \A i \in 1 .. Cardinality(S) :
              \E m \in S : Cardinality({n \in S : n <= m}) = i
  <1>1. Cardinality(S) \in Nat
    BY FS_CardinalityType
  <1> DEFINE UpTo(m) == {n \in S : n <= m}
             Rank == [m \in S |-> Cardinality(UpTo(m))]
  <1>2. ASSUME NEW m \in S
        PROVE  IsFiniteSet(UpTo(m)) /\ Cardinality(UpTo(m)) \in 1 .. Cardinality(S)
    <2>1. IsFiniteSet(UpTo(m)) /\ Cardinality(UpTo(m)) <= Cardinality(S)
      BY FS_Subset
    <2>2. Cardinality(UpTo(m)) \in Nat
      BY <2>1, FS_CardinalityType
    <2>3. m \in UpTo(m)
      OBVIOUS
    <2>4. Cardinality(UpTo(m)) # 0
      BY <2>1, <2>3, FS_EmptySet
    <2>5. QED
      BY <1>1, <2>1, <2>2, <2>4
  <1>3. ASSUME NEW m \in S, NEW k \in S, m < k
        PROVE  Cardinality(UpTo(m)) < Cardinality(UpTo(k))
    <2>1. UpTo(m) \subseteq UpTo(k) /\ k \in UpTo(k) /\ k \notin UpTo(m)
      <3>1. \A n \in S : n \in Nat
        OBVIOUS
      <3>2. \A n \in S : n <= m => n <= k
        BY <1>3, <3>1
      <3>3. m <= k /\ k <= k /\ ~ (k <= m)
        BY <1>3, <3>1
      <3>4. QED
        BY <3>2, <3>3
    <2>2. /\ Cardinality(UpTo(m)) <= Cardinality(UpTo(k))
          /\ Cardinality(UpTo(m)) # Cardinality(UpTo(k))
      BY <1>2, <2>1, FS_Subset
    <2>3. QED
      BY <1>2, <2>2
  <1>4. Rank \in Injection(S, 1 .. Cardinality(S))
    <2>1. Rank \in [S -> 1 .. Cardinality(S)]
      BY <1>2
    <2>2. ASSUME NEW m \in S, NEW k \in S, m # k
          PROVE  Rank[m] # Rank[k]
      BY <1>2, <1>3, <2>2
    <2>3. QED
      BY <2>1, <2>2 DEF Injection, IsInjective
  <1>5. /\ IsFiniteSet(1 .. Cardinality(S))
        /\ Cardinality(1 .. Cardinality(S)) = Cardinality(S)
    BY <1>1, FS_Interval
  <1>6. Rank \in Surjection(S, 1 .. Cardinality(S))
    BY <1>4, <1>5, FS_Injection
  <1>7. \A i \in 1 .. Cardinality(S) : \E m \in S : Rank[m] = i
    BY <1>6 DEF Surjection
  <1>8. QED
    BY <1>1, <1>2, <1>3, <1>7

(* The listing of some places from the first one to the last. *)
Listings(places) ==
  {order \in [1 .. Cardinality(places) -> places] :
     /\ \A i, j \in 1 .. Cardinality(places) : i < j => order[i] < order[j]
     /\ \A i \in 1 .. Cardinality(places) :
          Cardinality({n \in places : n <= order[i]}) = i}

(* What ItemsAt returns: the items there, in their order. *)
LEMMA Listed ==
  ASSUME NEW Item, NEW items \in Seq(Item), NEW places \in SUBSET DOMAIN items
  PROVE  /\ Cardinality(places) \in Nat
         /\ \E order \in Listings(places) :
              L!ItemsAt(items, places)
                = [i \in 1 .. Cardinality(places) |-> items[order[i]]]
  <1>1. places \in SUBSET Nat /\ IsFiniteSet(places)
    <2>1. DOMAIN items = 1 .. Len(items) /\ Len(items) \in Nat
      OBVIOUS
    <2>2. IsFiniteSet(1 .. Len(items))
      BY <2>1, FS_Interval
    <2>3. QED
      BY <2>1, <2>2, FS_Subset
  <1> DEFINE Rank(m) == Cardinality({n \in places : n <= m})
             order == [i \in 1 .. Cardinality(places) |-> CHOOSE m \in places : Rank(m) = i]
  <1>2. /\ Cardinality(places) \in Nat
        /\ \A m \in places : Rank(m) \in 1 .. Cardinality(places)
        /\ \A m, k \in places : m < k => Rank(m) < Rank(k)
        /\ \A i \in 1 .. Cardinality(places) : \E m \in places : Rank(m) = i
    BY <1>1, Ranks
  <1> HIDE DEF Rank
  <1>3. \A i \in 1 .. Cardinality(places) : order[i] \in places /\ Rank(order[i]) = i
    BY <1>2
  <1>4. \A i, j \in 1 .. Cardinality(places) : i < j => order[i] < order[j]
    <2> SUFFICES ASSUME NEW i \in 1 .. Cardinality(places), NEW j \in 1 .. Cardinality(places),
                        i < j
                 PROVE  order[i] < order[j]
      OBVIOUS
    <2>1. PICK m \in places : m = order[i] /\ Rank(m) = i
      BY <1>3
    <2>2. PICK k \in places : k = order[j] /\ Rank(k) = j
      BY <1>3
    <2>3. m \in Nat /\ k \in Nat /\ m # k /\ ~ (k < m)
      BY <1>1, <1>2, <2>1, <2>2
    <2>4. QED
      BY <2>1, <2>2, <2>3
  <1>5. L!ItemsAt(items, places) = [i \in 1 .. Cardinality(places) |-> items[order[i]]]
    BY DEF L!ItemsAt, L!Cardinality, Cardinality, Rank
  <1>6. order \in [1 .. Cardinality(places) -> places]
    BY <1>3
  <1>7. QED
    BY <1>2, <1>3, <1>4, <1>5, <1>6 DEF Rank, Listings

(* The only list of all of the places in their order is that one. *)
InOrderOf(places, n) ==
  {order \in [1 .. n -> places] :
     /\ \A i, j \in 1 .. n : i < j => order[i] < order[j]
     /\ \A m \in places : \E i \in 1 .. n : m = order[i]}

LEMMA ListedSo ==
  ASSUME NEW Item, NEW items \in Seq(Item), NEW places \in SUBSET DOMAIN items,
         NEW n \in Nat, NEW order \in InOrderOf(places, n)
  PROVE  L!ItemsAt(items, places) = [i \in 1 .. n |-> items[order[i]]]
  <1>0. /\ order \in [1 .. n -> places]
        /\ \A i, j \in 1 .. n : i < j => order[i] < order[j]
        /\ \A m \in places : \E i \in 1 .. n : m = order[i]
    BY DEF InOrderOf
  <1>1. /\ places \in SUBSET Nat
        /\ Cardinality(places) \in Nat
    <2>1. DOMAIN items = 1 .. Len(items) /\ Len(items) \in Nat
      OBVIOUS
    <2>2. QED
      BY <2>1, Listed
  <1>2. \A i, j \in 1 .. n : order[i] <= order[j] <=> i <= j
    BY <1>0, <1>1
  <1>3. ASSUME NEW k \in 0 .. n
        PROVE  Cardinality({order[i] : i \in 1 .. k}) = k
    <2> DEFINE S == {order[i] : i \in 1 .. k}
               taken_ == [i \in 1 .. k |-> order[i]]
    <2>1. \A i, j \in 1 .. k : order[i] = order[j] => i = j
      <3>1. \A i \in 1 .. k : i \in 1 .. n /\ order[i] \in Nat
        BY <1>0, <1>1
      <3>2. QED
        BY <1>0, <3>1
    <2>2. taken_ \in Bijection(1 .. k, S)
      <3>1. taken_ \in [1 .. k -> S]
        OBVIOUS
      <3>2. \A i, j \in 1 .. k : taken_[i] = taken_[j] => i = j
        BY <2>1
      <3>3. \A s \in S : \E i \in 1 .. k : taken_[i] = s
        OBVIOUS
      <3>4. QED
        BY <3>1, <3>2, <3>3 DEF Bijection, Injection, IsInjective, Surjection
    <2>3. IsFiniteSet(1 .. k) /\ Cardinality(1 .. k) = k
      BY FS_Interval
    <2>4. ExistsBijection(1 .. k, S)
      BY <2>2 DEF ExistsBijection
    <2>5. QED
      BY <2>3, <2>4, FS_Bijection
  <1>4. Cardinality(places) = n
    <2>1. places = {order[i] : i \in 1 .. n}
      BY <1>0
    <2>2. QED
      BY <1>3, <2>1
  <1>5. ASSUME NEW i \in 1 .. n
        PROVE  Cardinality({m \in places : m <= order[i]}) = i
    <2>1. {m \in places : m <= order[i]} = {order[j] : j \in 1 .. i}
      BY <1>0, <1>2
    <2>2. QED
      BY <1>3, <2>1
  <1>6. PICK listed \in Listings(places) :
          L!ItemsAt(items, places) = [i \in 1 .. Cardinality(places) |-> items[listed[i]]]
    BY Listed
  <1>7. ASSUME NEW i \in 1 .. n
        PROVE  listed[i] = order[i]
    <2>1. PICK j \in 1 .. n : listed[i] = order[j]
      BY <1>0, <1>4 DEF Listings
    <2>2. Cardinality({m \in places : m <= order[j]}) = i
      BY <1>4, <1>6, <2>1 DEF Listings
    <2>3. QED
      BY <1>5, <2>1, <2>2
  <1>8. QED
    BY <1>4, <1>6, <1>7

(* Of a row: its types. *)
RowTypes ==
  /\ DOMAIN lesson = Lessons
  /\ \A l \in Lessons : lesson[l] # None => lesson[l] \in L!Lesson

(* No question is twice in the batch. *)
BatchOnce ==
  /\ batch \in Seq(Lessons \X L!Questions)
  /\ \A m, n \in DOMAIN batch : batch[m] = batch[n] => m = n

(* The batch has what is queued, in the order of the queue. *)
Ordered(l) ==
  LET order == lesson[l].queue IN
  /\ \A i \in DOMAIN order : \E m \in DOMAIN batch : batch[m] = <<l, order[i]>>
  /\ \A i, j \in DOMAIN order : \A m, n \in DOMAIN batch :
       i < j /\ batch[m] = <<l, order[i]>> /\ batch[n] = <<l, order[j]>> => m < n

(* What is shown is the answer to the first question of the queue. *)
Shows(row) ==
  row.feedback # None /\ row.queue # <<>> => row.feedback.question = Head(row.queue)

BatchInv ==
  /\ RowTypes /\ BatchOnce /\ inOrder \subseteq Lessons
  /\ \A l \in inOrder : lesson[l] # None => Ordered(l) /\ Shows(lesson[l])

(* A write of a row that leaves what the invariant says of it alone. *)
Leaves(l, row) ==
  \/ row.queue = <<>>
  \/ /\ lesson[l] # None
     /\ row.queue = lesson[l].queue
     /\ row.feedback = lesson[l].feedback \/ Shows(row)

LEMMA BatchRests ==
  ASSUME BatchInv, RowTypes', batch' = batch, inOrder' \subseteq inOrder,
         \A l \in inOrder' : lesson'[l] # None => Leaves(l, lesson'[l])
  PROVE  BatchInv'
  <1>1. BatchOnce' /\ inOrder' \subseteq Lessons
    BY DEF BatchInv, BatchOnce
  <1>2. ASSUME NEW l \in inOrder', lesson'[l] # None
        PROVE  Ordered(l)' /\ Shows(lesson'[l])
    <2>1. CASE lesson'[l].queue = <<>>
      BY <2>1 DEF Ordered, Shows
    <2>2. CASE lesson'[l].queue # <<>>
      <3>1. /\ lesson[l] # None
            /\ lesson'[l].queue = lesson[l].queue
            /\ lesson'[l].feedback = lesson[l].feedback \/ Shows(lesson'[l])
        BY <1>2, <2>2 DEF Leaves
      <3>2. Ordered(l) /\ Shows(lesson[l])
        BY <1>2, <3>1 DEF BatchInv
      <3>3. QED
        BY <3>1, <3>2 DEF Ordered, Shows
    <2>3. QED
      BY <2>1, <2>2
  <1>3. QED
    BY <1>1, <1>2 DEF BatchInv

LEMMA RowWritten ==
  ASSUME BatchInv, NEW l, NEW row, lesson' = [lesson EXCEPT ![l] = row],
         l \in Lessons => row \in L!Lesson /\ Leaves(l, row),
         batch' = batch, inOrder' = inOrder
  PROVE  BatchInv'
  <1>1. /\ DOMAIN lesson' = Lessons
        /\ \A k \in Lessons : lesson'[k] = IF k = l THEN row ELSE lesson[k]
    BY DEF BatchInv, RowTypes
  <1>2. RowTypes'
    BY <1>1 DEF BatchInv, RowTypes
  <1>3. ASSUME NEW k \in inOrder', lesson'[k] # None
        PROVE  Leaves(k, lesson'[k])
    <2>1. k \in Lessons
      BY DEF BatchInv
    <2>2. CASE k = l
      BY <1>1, <2>1, <2>2
    <2>3. CASE k # l
      BY <1>1, <1>3, <2>1, <2>3 DEF Leaves
    <2>4. QED
      BY <2>2, <2>3
  <1>4. QED
    BY <1>2, <1>3, BatchRests

LEMMA PracticeRests ==
  ASSUME BatchInv, UNCHANGED <<lesson, batch, inOrder>>
  PROVE  BatchInv'
  BY BatchRests DEF BatchInv, RowTypes, Leaves

USE LessonsAssumption

LEMMA BatchInit == ASSUME L!Init PROVE BatchInv
  <1>1. PICK about \in [course.done -> Comparisons], short \in SUBSET course.done :
          lesson = [l \in Lessons |->
               IF l \notin course.done THEN None ELSE
               LET n == IF l \in short THEN Size - 1 ELSE Size IN
               [L!Fresh EXCEPT !.status = "done", !.about = about[l],
                               !.questions = n, !.due = 1 .. n]]
    BY DEF L!Init
  <1>2. ASSUME NEW l \in Lessons, l \in course.done
        PROVE  lesson[l] \in L!Lesson
    <2>1. PICK n \in {Size, Size - 1} :
            lesson[l] = [L!Fresh EXCEPT !.status = "done", !.about = about[l],
                                        !.questions = n, !.due = 1 .. n]
      BY <1>1, <1>2
    <2>2. /\ about[l] \in Comparisons \cup {None} /\ n \in 0 .. Size
          /\ 1 .. n \in SUBSET L!Questions
      BY <1>2 DEF L!Questions
    <2>3. PICK unkeyed \in BOOLEAN : unkeyed = FALSE
      OBVIOUS
    <2>4. lesson[l] = [status |-> "done", about |-> about[l], keyed |-> unkeyed,
                       questions |-> n, due |-> 1 .. n, queue |-> <<>>, feedback |-> None]
      BY <2>1, <2>3 DEF L!Fresh
    <2>5. QED
      BY <2>2, <2>4 DEF L!Lesson, L!Statuses
  <1>3. \A l \in Lessons : lesson[l] # None => l \in course.done
    BY <1>1
  <1>4. RowTypes
    BY <1>1, <1>2, <1>3 DEF RowTypes
  <1>5. batch = <<>> /\ inOrder = {}
    BY DEF L!Init
  <1>6. QED
    BY <1>4, <1>5 DEF BatchInv, BatchOnce

(* SetStatus, and the marking of a row whose job cannot be enqueued. *)
LEMMA Marked ==
  ASSUME NEW row \in L!Lesson, NEW status_ \in L!Statuses
  PROVE  \E marked \in L!Lesson :
           /\ marked = [row EXCEPT !.status = status_]
           /\ marked.queue = row.queue /\ marked.feedback = row.feedback
  <1>1. PICK marked : marked = [row EXCEPT !.status = status_]
    OBVIOUS
  <1>2. QED
    BY <1>1 DEF L!Lesson

LEMMA BatchEnqueues ==
  ASSUME BatchInv, NEW l \in Lessons, NEW row \in L!Lesson, L!EnqueueGenerate(l, row),
         Leaves(l, row), batch' = batch, inOrder' = inOrder
  PROVE  BatchInv'
  <1>1. CASE lesson' = [lesson EXCEPT ![l] = row]
    BY <1>1, RowWritten
  <1>2. ASSUME NEW status_ \in {"failed", row.status},
               lesson' = [lesson EXCEPT ![l] = [row EXCEPT !.status = status_]]
        PROVE  BatchInv'
    <2>1. status_ \in L!Statuses
      BY DEF L!Lesson, L!Statuses
    <2>2. PICK marked \in L!Lesson :
            /\ marked = [row EXCEPT !.status = status_]
            /\ marked.queue = row.queue /\ marked.feedback = row.feedback
      BY <2>1, Marked
    <2>3. Leaves(l, marked)
      BY <2>2 DEF Leaves, Shows
    <2>4. QED
      BY <1>2, <2>2, <2>3, RowWritten
  <1>3. QED
    BY <1>1, <1>2 DEF L!EnqueueGenerate

LEMMA BatchMarked ==
  ASSUME BatchInv, NEW l, NEW status_ \in L!Statuses,
         lesson' \in {lesson, L!WithStatus(l, status_)},
         batch' = batch, inOrder' = inOrder
  PROVE  BatchInv'
  <1>1. CASE lesson' = lesson
    BY <1>1, PracticeRests
  <1>2. CASE /\ lesson[l] # None /\ l \in Lessons
             /\ lesson' = [lesson EXCEPT ![l].status = status_]
    <2>1. lesson[l] \in L!Lesson
      BY <1>2 DEF BatchInv, RowTypes
    <2>2. PICK marked \in L!Lesson :
            /\ marked = [lesson[l] EXCEPT !.status = status_]
            /\ marked.queue = lesson[l].queue /\ marked.feedback = lesson[l].feedback
      BY <2>1, Marked
    <2>3. lesson' = [lesson EXCEPT ![l] = marked]
      BY <1>2, <2>2
    <2>4. Leaves(l, marked)
      BY <1>2, <2>2 DEF Leaves
    <2>5. QED
      BY <2>2, <2>3, <2>4, RowWritten
  <1>3. CASE l \notin Lessons /\ lesson' = [lesson EXCEPT ![l].status = status_]
    <2>1. PICK row : row = [lesson[l] EXCEPT !.status = status_]
      OBVIOUS
    <2>2. lesson' = [lesson EXCEPT ![l] = row]
      BY <1>3, <2>1
    <2>3. QED
      BY <1>3, <2>2, RowWritten
  <1>4. QED
    BY <1>1, <1>2, <1>3 DEF L!WithStatus

LEMMA BatchGenerates ==
  ASSUME BatchInv, NEW l \in Lessons, L!Create(l) \/ L!Retry(l) \/ L!Recover(l)
  PROVE  BatchInv'
  <1>1. CASE L!Create(l)
    <2>1. L!Fresh \in L!Lesson
      <3>1. PICK unkeyed \in BOOLEAN : unkeyed = FALSE
        OBVIOUS
      <3>2. L!Fresh = [status |-> "pending", about |-> None, keyed |-> unkeyed,
                       questions |-> 0, due |-> {}, queue |-> <<>>, feedback |-> None]
        BY <3>1 DEF L!Fresh
      <3>3. QED
        BY <3>2 DEF L!Lesson, L!Statuses
    <2>2. Leaves(l, L!Fresh)
      BY DEF Leaves, L!Fresh
    <2>3. QED
      BY <1>1, <2>1, <2>2, BatchEnqueues DEF L!Create
  <1>2. lesson[l] # None => lesson[l] \in L!Lesson
    BY DEF BatchInv, RowTypes
  <1>3. CASE L!Retry(l)
    <2>1. lesson[l] # None /\ "pending" \in L!Statuses
      BY <1>3 DEF L!Retry, L!Statuses
    <2>2. PICK row \in L!Lesson :
            /\ row = [lesson[l] EXCEPT !.status = "pending"]
            /\ row.queue = lesson[l].queue /\ row.feedback = lesson[l].feedback
      BY <1>2, <2>1, Marked
    <2>3. Leaves(l, row)
      BY <2>1, <2>2 DEF Leaves
    <2>4. QED
      BY <1>3, <2>2, <2>3, BatchEnqueues DEF L!Retry
  <1>4. CASE L!Recover(l)
    <2>1. lesson[l] # None /\ Leaves(l, lesson[l])
      BY <1>4 DEF L!Recover, Leaves
    <2>2. QED
      BY <1>2, <1>4, <2>1, BatchEnqueues, PracticeRests DEF L!Recover
  <1>5. QED
    BY <1>1, <1>3, <1>4

LEMMA BatchWorks ==
  ASSUME BatchInv, NEW w \in Crew,
         \/ \E t \in tasks : L!Take(w, t)
         \/ L!Complete(w) \/ L!Invalid(w) \/ L!Break(w) \/ L!FailAttempt(w)
         \/ L!AddQuestions(w)
  PROVE  BatchInv'
  <1>1. {"processing", "failed"} \subseteq L!Statuses
    BY DEF L!Statuses
  <1>2. ASSUME NEW t \in tasks, L!Take(w, t)
        PROVE  BatchInv'
    BY <1>1, <1>2, BatchMarked DEF L!Take
  <1>3. CASE L!Invalid(w) \/ L!FailAttempt(w)
    BY <1>1, <1>3, BatchMarked DEF L!Invalid, L!FailAttempt
  <1>4. CASE lesson' = lesson /\ (L!Break(w) \/ L!Complete(w) \/ L!AddQuestions(w))
    BY <1>4, PracticeRests DEF L!Break, L!Complete, L!AddQuestions
  <1>5. ASSUME NEW l, lesson[l] # None, NEW row, lesson' = [lesson EXCEPT ![l] = row],
               l \in Lessons =>
                 row \in L!Lesson /\ row.queue = lesson[l].queue
                                  /\ row.feedback = lesson[l].feedback,
               batch' = batch, inOrder' = inOrder
        PROVE  BatchInv'
    BY <1>5, RowWritten DEF Leaves
  <1>6. CASE L!Complete(w) /\ lesson' # lesson
    <2>1. PICK l : l = hand[w].task[2]
      OBVIOUS
    <2>2. PICK about \in Comparisons :
            /\ lesson[l] # None
            /\ lesson' = [lesson EXCEPT ![l].status = "done", ![l].about = about,
                 ![l].keyed = TRUE, ![l].questions = Size, ![l].due = L!Questions]
      BY <1>6, <2>1 DEF L!Complete
    <2>3. PICK keyed \in BOOLEAN : keyed = TRUE
      OBVIOUS
    <2>4. PICK row : row = [lesson[l] EXCEPT !.status = "done", !.about = about,
                              !.keyed = keyed, !.questions = Size, !.due = L!Questions]
      OBVIOUS
    <2>5. lesson' = [lesson EXCEPT ![l] = row]
      BY <2>2, <2>3, <2>4
    <2>6. l \in Lessons => lesson[l] \in L!Lesson
      BY <2>2 DEF BatchInv, RowTypes
    <2>7. ASSUME l \in Lessons
          PROVE  row \in L!Lesson /\ row.queue = lesson[l].queue
                                  /\ row.feedback = lesson[l].feedback
      <3>1. "done" \in L!Statuses /\ Size \in 0 .. Size
        BY DEF L!Statuses
      <3>2. QED
        BY <2>4, <2>6, <2>7, <3>1 DEF L!Lesson
    <2>8. batch' = batch /\ inOrder' = inOrder
      BY <1>6 DEF L!Complete
    <2>9. QED
      BY <1>5, <2>2, <2>5, <2>7, <2>8
  <1>7. CASE L!AddQuestions(w) /\ lesson' # lesson
    <2>1. PICK l : l = hand[w].task[2]
      OBVIOUS
    <2>2. /\ L!Done(l)
          /\ lesson' = [lesson EXCEPT ![l].questions = Size, ![l].due = @ \cup {Size}]
      BY <1>7, <2>1 DEF L!AddQuestions
    <2>3. PICK due : due = lesson[l].due \cup {Size}
      OBVIOUS
    <2>4. PICK row : row = [lesson[l] EXCEPT !.questions = Size, !.due = due]
      OBVIOUS
    <2>5. lesson' = [lesson EXCEPT ![l] = row]
      BY <2>2, <2>3, <2>4
    <2>6. lesson[l] # None /\ (l \in Lessons => lesson[l] \in L!Lesson)
      BY <2>2 DEF L!Done, BatchInv, RowTypes
    <2>7. l \in Lessons => due \in SUBSET L!Questions
      BY <2>3, <2>6 DEF L!Lesson, L!Questions
    <2>8. ASSUME l \in Lessons
          PROVE  row \in L!Lesson /\ row.queue = lesson[l].queue
                                  /\ row.feedback = lesson[l].feedback
      <3>1. Size \in 0 .. Size
        OBVIOUS
      <3>2. QED
        BY <2>4, <2>6, <2>7, <2>8, <3>1 DEF L!Lesson
    <2>9. QED
      BY <1>5, <1>7, <2>5, <2>6, <2>8 DEF L!AddQuestions
  <1>8. QED
    BY <1>2, <1>3, <1>4, <1>6, <1>7 DEF L!Break

(* The types of what a lesson has. *)
LEMMA LessonHas ==
  ASSUME BatchInv, NEW l \in Lessons, lesson[l] # None
  PROVE  /\ lesson[l] \in L!Lesson
         /\ lesson[l].queue \in Seq(L!Questions)
         /\ lesson[l].due \in SUBSET L!Questions
         /\ lesson[l].questions \in 0 .. Size
         /\ lesson[l].feedback # None => lesson[l].feedback.question \in L!Questions
  <1>1. lesson[l] \in L!Lesson
    BY DEF BatchInv, RowTypes
  <1>2. /\ lesson[l].queue \in Seq(L!Questions)
        /\ lesson[l].due \in SUBSET L!Questions
        /\ lesson[l].questions \in 0 .. Size
        /\ lesson[l].feedback \in {None} \cup [question : L!Questions, correct : BOOLEAN]
    BY <1>1 DEF L!Lesson
  <1>3. lesson[l].feedback # None => lesson[l].feedback.question \in L!Questions
    BY <1>2
  <1>4. QED
    BY <1>1, <1>2, <1>3

LEMMA BatchPractised ==
  ASSUME BatchInv, NEW l \in Lessons,
         \/ L!Start(l) \/ L!Answer(l) \/ L!Delete(l)
         \/ \E q \in L!Questions : L!BecomeDue(l, q)
  PROVE  BatchInv'
  <1>1. CASE L!Delete(l)
    <2>1. /\ DOMAIN lesson' = Lessons
          /\ \A k \in Lessons : lesson'[k] \in {lesson[k], None}
          /\ batch' = batch /\ inOrder' = inOrder
      BY <1>1 DEF L!Delete, BatchInv, RowTypes
    <2>2. RowTypes'
      BY <2>1 DEF BatchInv, RowTypes
    <2>3. QED
      BY <2>1, <2>2, BatchRests DEF Leaves, BatchInv
  <1>2. CASE L!Start(l)
    <2>1. lesson[l] # None
      BY <1>2 DEF L!Start, L!Done
    <2>2. PICK order : order = [i \in 1 .. lesson[l].questions |-> i]
      OBVIOUS
    <2>3. order \in Seq(L!Questions)
      BY <2>1, <2>2, LessonHas DEF L!Questions
    <2>4. PICK row : row = [lesson[l] EXCEPT !.queue = order]
      OBVIOUS
    <2>5. row \in L!Lesson
      BY <2>1, <2>3, <2>4, LessonHas DEF L!Lesson
    <2>6. lesson' = [lesson EXCEPT ![l] = row]
      BY <1>2, <2>2, <2>4 DEF L!Start
    <2>7. /\ DOMAIN lesson' = Lessons
          /\ \A k \in Lessons : lesson'[k] = IF k = l THEN row ELSE lesson[k]
      BY <2>6 DEF BatchInv, RowTypes
    <2>8. RowTypes'
      BY <2>5, <2>7 DEF BatchInv, RowTypes
    <2>9. batch' = batch /\ inOrder' = inOrder \ {l}
      BY <1>2 DEF L!Start
    <2>10. QED
      BY <2>7, <2>8, <2>9, BatchRests DEF Leaves, BatchInv
  <1>3. CASE L!Answer(l)
    <2>1. lesson[l] # None /\ lesson[l].queue # <<>>
      BY <1>3 DEF L!Answer, L!Done
    <2>2. PICK q : q = Head(lesson[l].queue)
      OBVIOUS
    <2>3. q \in L!Questions
      BY <2>1, <2>2, LessonHas
    <2>4. PICK right \in BOOLEAN :
            lesson' = [lesson EXCEPT ![l].feedback = [question |-> q, correct |-> right],
                         ![l].due = IF right THEN @ \ {q} ELSE @ \cup {q}]
      BY <1>3, <2>2 DEF L!Answer
    <2>5. PICK feedback : feedback = [question |-> q, correct |-> right]
      OBVIOUS
    <2>6. PICK due \in SUBSET L!Questions :
            due = IF right THEN lesson[l].due \ {q} ELSE lesson[l].due \cup {q}
      BY <2>1, <2>3, LessonHas
    <2>7. PICK row : row = [lesson[l] EXCEPT !.feedback = feedback, !.due = due]
      OBVIOUS
    <2>8. lesson' = [lesson EXCEPT ![l] = row]
      BY <2>4, <2>5, <2>6, <2>7
    <2>9. row \in L!Lesson /\ row.queue = lesson[l].queue /\ row.feedback = feedback
      <3>1. feedback \in {None} \cup [question : L!Questions, correct : BOOLEAN]
        BY <2>3, <2>5
      <3>2. lesson[l] \in L!Lesson
        BY <2>1, LessonHas
      <3>3. QED
        BY <2>6, <2>7, <3>1, <3>2 DEF L!Lesson
    <2>10. Leaves(l, row)
      <3>1. feedback.question = q
        BY <2>5
      <3>2. QED
        BY <2>1, <2>2, <2>9, <3>1 DEF Leaves, Shows
    <2>11. batch' = batch /\ inOrder' = inOrder
      BY <1>3 DEF L!Answer
    <2>12. QED
      BY <2>8, <2>9, <2>10, <2>11, RowWritten
  <1>4. ASSUME NEW q \in L!Questions, L!BecomeDue(l, q)
        PROVE  BatchInv'
    <2>1. lesson[l] # None
      BY <1>4 DEF L!BecomeDue, L!Done
    <2>2. PICK due \in SUBSET L!Questions : due = lesson[l].due \cup {q}
      BY <2>1, LessonHas
    <2>3. PICK row : row = [lesson[l] EXCEPT !.due = due]
      OBVIOUS
    <2>4. lesson' = [lesson EXCEPT ![l] = row]
      BY <1>4, <2>2, <2>3 DEF L!BecomeDue
    <2>5. /\ row \in L!Lesson /\ row.queue = lesson[l].queue
          /\ row.feedback = lesson[l].feedback
      BY <2>1, <2>3, LessonHas DEF L!Lesson
    <2>6. batch' = batch /\ inOrder' = inOrder
      BY <1>4 DEF L!BecomeDue
    <2>7. QED
      BY <2>1, <2>4, <2>5, <2>6, RowWritten DEF Leaves
  <1>5. QED
    BY <1>1, <1>2, <1>3, <1>4

(* moveMissedReviewItemToEnd: an item that the batch has becomes its last. *)
MovedLast(items, p, moved) ==
  /\ moved \in Seq(Lessons \X L!Questions)
  /\ DOMAIN moved = 1 .. Len(items) /\ DOMAIN items = 1 .. Len(items)
  /\ Len(items) \in Nat
  /\ moved[Len(items)] = items[p]
  /\ \A j \in 1 .. Len(items) - 1 : moved[j] = IF j < p THEN items[j] ELSE items[j + 1]

LEMMA Moved ==
  ASSUME BatchOnce, NEW p \in DOMAIN batch
  PROVE  MovedLast(batch, p, L!MissedToEnd(batch, batch[p]))
  <1>0. PICK item : item = batch[p]
    OBVIOUS
  <1>1. /\ batch \in Seq(Lessons \X L!Questions)
        /\ DOMAIN batch = 1 .. Len(batch) /\ Len(batch) \in Nat
        /\ item \in Lessons \X L!Questions
    BY <1>0 DEF BatchOnce
  <1>2. L!Contains(batch, item)
    BY <1>0, <1>1 DEF L!Contains
  <1>3. L!SelectInSeq(batch, LAMBDA v : v = item) = p
    <2>1. {i \in 1 .. Len(batch) : batch[i] = item} = {p}
      BY <1>0, <1>1 DEF BatchOnce
    <2>2. L!Min({p}) = p
      BY DEF L!Min
    <2>3. QED
      BY <2>1, <2>2 DEF L!SelectInSeq
  <1>4. L!MissedToEnd(batch, item) = Append(L!RemoveAt(batch, p), item)
    BY <1>1, <1>2, <1>3 DEF L!MissedToEnd, L!RemoveFirst, L!Contains
  <1>5. L!RemoveAt(batch, p) = RemoveAt(batch, p)
    BY DEF L!RemoveAt, RemoveAt
  <1>6. PICK left \in Seq(Lessons \X L!Questions) :
          /\ left = RemoveAt(batch, p)
          /\ DOMAIN left = 1 .. Len(batch) - 1
          /\ \A j \in 1 .. Len(batch) - 1 :
               left[j] = IF j < p THEN batch[j] ELSE batch[j+1]
    BY <1>1, RemoveAtElements
  <1>7. Len(left) = Len(batch) - 1
    <2>1. Len(left) \in Nat /\ 1 .. Len(left) = 1 .. Len(batch) - 1
      BY <1>6
    <2>2. \A j : j \in 1 .. Len(left) <=> j \in 1 .. Len(batch) - 1
      BY <2>1, Zenon
    <2>3. Len(batch) - 1 \in Nat
      BY <1>1
    <2>4. Len(left) = 0 \/ Len(left) \in 1 .. Len(batch) - 1
      BY <2>1, <2>2
    <2>5. Len(batch) - 1 = 0 \/ Len(batch) - 1 \in 1 .. Len(left)
      <3>1. PICK k \in Nat : k = Len(batch) - 1
        BY <2>3
      <3>2. k = 0 \/ k \in 1 .. k
        OBVIOUS
      <3>3. QED
        BY <2>2, <3>1, <3>2
    <2>6. QED
      BY <2>1, <2>3, <2>4, <2>5
  <1>8. PICK moved : moved = Append(left, item)
    OBVIOUS
  <1>9. /\ moved \in Seq(Lessons \X L!Questions)
        /\ DOMAIN moved = 1 .. Len(left) + 1
        /\ \A j \in 1 .. Len(left) : moved[j] = left[j]
        /\ moved[Len(left) + 1] = item
    BY <1>1, <1>6, <1>8, AppendElements
  <1>10. MovedLast(batch, p, moved)
    BY <1>0, <1>1, <1>6, <1>7, <1>9 DEF MovedLast
  <1>11. L!MissedToEnd(batch, item) = moved
    BY <1>4, <1>5, <1>6, <1>8
  <1>12. QED
    BY <1>0, <1>10, <1>11

(* What a move leaves of the order: all but the item that is moved keep it, *)
(* and that one comes after them.                                          *)
LEMMA BatchMoves ==
  ASSUME BatchOnce, NEW l, NEW q, batch' = L!MissedToEnd(batch, <<l, q>>)
  PROVE  /\ BatchOnce'
         /\ \A item \in Lessons \X L!Questions :
              (\E m \in DOMAIN batch : batch[m] = item) =>
                 \E m \in DOMAIN batch' : batch'[m] = item
         /\ \A a, b \in DOMAIN batch, m, n \in DOMAIN batch' :
              batch'[m] = batch[a] /\ batch'[n] = batch[b] /\ batch[b] # <<l, q>>
                => (batch[a] = <<l, q>> => n < m) /\ (batch[a] # <<l, q>> /\ a < b => m < n)
  <1>1. CASE L!Contains(batch, <<l, q>>)
    <2>1. PICK item : item = <<l, q>>
      OBVIOUS
    <2>2. PICK p \in DOMAIN batch : batch[p] = item
      BY <1>1, <2>1 DEF L!Contains, BatchOnce
    <2>3. PICK moved : moved = batch'
      OBVIOUS
    <2>4. PICK last \in Nat : last = Len(batch)
      BY DEF BatchOnce
    <2>5. /\ moved \in Seq(Lessons \X L!Questions)
          /\ DOMAIN moved = 1 .. last /\ DOMAIN batch = 1 .. last
          /\ moved[last] = item
          /\ \A j \in 1 .. last - 1 :
               moved[j] = IF j < p THEN batch[j] ELSE batch[j + 1]
      <3>1. batch' = L!MissedToEnd(batch, batch[p])
        BY <2>1, <2>2
      <3>2. MovedLast(batch, p, moved)
        BY <2>3, <3>1, Moved
      <3>3. QED
        BY <2>2, <2>4, <3>2 DEF MovedLast
    <2>6. \A m, n \in 1 .. last : batch[m] = batch[n] => m = n
      BY <2>5 DEF BatchOnce
    <2>7. \A a \in 1 .. last, m \in 1 .. last :
            moved[m] = batch[a] <=> m = IF a = p THEN last ELSE IF a < p THEN a ELSE a - 1
      <3> SUFFICES ASSUME NEW a \in 1 .. last, NEW m \in 1 .. last
                   PROVE  moved[m] = batch[a]
                            <=> m = IF a = p THEN last ELSE IF a < p THEN a ELSE a - 1
        OBVIOUS
      <3>1. p \in 1 .. last
        BY <2>5
      <3>2. PICK k \in 1 .. last : k = IF m = last THEN p ELSE IF m < p THEN m ELSE m + 1
        BY <3>1
      <3>3. moved[m] = batch[k]
        BY <2>2, <2>5, <3>2
      <3>4. moved[m] = batch[a] <=> k = a
        BY <2>6, <3>3
      <3>5. QED
        BY <3>1, <3>2, <3>4
    <2>8. \A a \in 1 .. last : batch[a] = item <=> a = p
      BY <2>2, <2>5, <2>6
    <2>9. ASSUME NEW m \in 1 .. last, NEW n \in 1 .. last, moved[m] = moved[n]
          PROVE  m = n
      <3>1. PICK a \in 1 .. last : moved[m] = batch[a]
        BY <2>2, <2>5
      <3>2. PICK k : k = IF a = p THEN last ELSE IF a < p THEN a ELSE a - 1
        OBVIOUS
      <3>3. m = k /\ n = k
        BY <2>7, <2>9, <3>1, <3>2
      <3>4. QED
        BY <3>3
    <2>10. ASSUME NEW a \in 1 .. last
           PROVE  \E m \in 1 .. last : moved[m] = batch[a]
      <3>1. (IF a = p THEN last ELSE IF a < p THEN a ELSE a - 1) \in 1 .. last
        BY <2>2, <2>5
      <3>2. QED
        BY <2>7, <3>1
    <2>11. \A a, b \in 1 .. last, m, n \in 1 .. last :
              moved[m] = batch[a] /\ moved[n] = batch[b] /\ b # p
                => (a = p => n < m) /\ (a # p /\ a < b => m < n)
      BY <2>2, <2>5, <2>7
    <2>12. BatchOnce'
      BY <2>3, <2>5, <2>9 DEF BatchOnce
    <2>13. \A one \in Lessons \X L!Questions :
             (\E m \in DOMAIN batch : batch[m] = one) =>
                \E m \in DOMAIN batch' : batch'[m] = one
      <3>1. DOMAIN batch' = 1 .. last /\ \A m \in 1 .. last : batch'[m] = moved[m]
        BY <2>3, <2>5
      <3>2. DOMAIN batch = 1 .. last
        BY <2>5
      <3>3. ASSUME NEW one \in Lessons \X L!Questions,
                   NEW a \in DOMAIN batch, batch[a] = one
            PROVE  \E m \in DOMAIN batch' : batch'[m] = one
        <4>1. PICK m \in 1 .. last : moved[m] = batch[a]
          BY <2>10, <3>2
        <4>2. QED
          BY <3>1, <3>3, <4>1
      <3>4. QED
        BY <3>3
    <2>14. \A a, b \in DOMAIN batch, m, n \in DOMAIN batch' :
              batch'[m] = batch[a] /\ batch'[n] = batch[b] /\ batch[b] # item
                => (batch[a] = item => n < m) /\ (batch[a] # item /\ a < b => m < n)
      <3>1. DOMAIN batch' = 1 .. last /\ \A m \in 1 .. last : batch'[m] = moved[m]
        BY <2>3, <2>5
      <3>2. DOMAIN batch = 1 .. last
        BY <2>5
      <3>3. SUFFICES ASSUME NEW a \in 1 .. last, NEW b \in 1 .. last,
                            NEW m \in 1 .. last, NEW n \in 1 .. last,
                            moved[m] = batch[a], moved[n] = batch[b], batch[b] # item
                     PROVE  /\ batch[a] = item => n < m
                            /\ batch[a] # item /\ a < b => m < n
        BY <3>1, <3>2
      <3>4. b # p
        BY <2>8, <3>3
      <3>5. QED
        BY <2>8, <2>11, <3>3, <3>4
    <2>15. QED
      BY <2>1, <2>12, <2>13, <2>14
  <1>2. CASE ~ L!Contains(batch, <<l, q>>)
    <2>1. batch' = batch
      BY <1>2 DEF L!MissedToEnd
    <2>2. \A a \in DOMAIN batch : batch[a] # <<l, q>>
      BY <1>2 DEF L!Contains, BatchOnce
    <2>3. \A a, b \in DOMAIN batch : batch[a] = batch[b] => a = b
      BY DEF BatchOnce
    <2>4. QED
      BY <2>1, <2>2, <2>3 DEF BatchOnce
  <1>3. QED
    BY <1>1, <1>2

(* The question that was shown leaves the queue, or becomes the last one of *)
(* the queue and of the batch.                                             *)
LEMMA BatchAdvances ==
  ASSUME BatchInv, NEW l \in Lessons, L!NextQuestion(l)
  PROVE  BatchInv'
  <1>1. lesson[l] # None /\ lesson[l].feedback # None /\ lesson[l].queue # <<>>
    BY DEF L!NextQuestion, L!Done
  <1>2. PICK q : q = lesson[l].feedback.question
    OBVIOUS
  <1>3. PICK old : old = lesson[l].queue
    OBVIOUS
  <1>4. PICK right : right = lesson[l].feedback.correct
    OBVIOUS
  <1>5. PICK order : order = IF right THEN Tail(old) ELSE Append(Tail(old), q)
    OBVIOUS
  <1>6. q \in L!Questions /\ old \in Seq(L!Questions) /\ old # <<>>
    BY <1>1, <1>2, <1>3, LessonHas
  <1>7. order \in Seq(L!Questions)
    BY <1>5, <1>6
  <1>8. PICK row : row = [lesson[l] EXCEPT !.feedback = None, !.queue = order]
    OBVIOUS
  <1>9. /\ lesson' = [lesson EXCEPT ![l] = row]
        /\ batch' = IF right THEN batch ELSE L!MissedToEnd(batch, <<l, q>>)
        /\ inOrder' = inOrder
    BY <1>2, <1>3, <1>4, <1>5, <1>8 DEF L!NextQuestion
  <1>10. row \in L!Lesson /\ row.queue = order /\ row.feedback = None
    BY <1>1, <1>7, <1>8, LessonHas DEF L!Lesson
  <1>11. /\ DOMAIN lesson' = Lessons
         /\ \A k \in Lessons : lesson'[k] = IF k = l THEN row ELSE lesson[k]
    BY <1>9 DEF BatchInv, RowTypes
  <1>12. RowTypes' /\ inOrder' \subseteq Lessons
    BY <1>9, <1>10, <1>11 DEF BatchInv, RowTypes
  <1>13. BatchOnce
    BY DEF BatchInv
  <1>14. Shows(row)
    BY <1>10 DEF Shows
  <1>15. \A k \in inOrder : lesson[k] # None =>
            Ordered(k) /\ Shows(lesson[k]) /\ k \in Lessons
    BY DEF BatchInv
  <1>16. PICK size \in Nat : size = Len(old) /\ DOMAIN old = 1 .. size /\ size > 0
    BY <1>6
  <1>17. CASE right
    <2>1. /\ DOMAIN order = 1 .. size - 1
          /\ \A i \in 1 .. size - 1 : order[i] = old[i + 1]
      BY <1>5, <1>6, <1>16, <1>17
    <2>2. BatchOnce' /\ batch' = batch
      BY <1>9, <1>13, <1>17 DEF BatchOnce
    <2>3. ASSUME l \in inOrder
          PROVE  Ordered(l)'
      <3>1. Ordered(l)
        BY <1>1, <1>15, <2>3
      <3>2. /\ \A i \in 1 .. size : \E m \in DOMAIN batch : batch[m] = <<l, old[i]>>
            /\ \A i, j \in 1 .. size : \A m, n \in DOMAIN batch :
                 i < j /\ batch[m] = <<l, old[i]>> /\ batch[n] = <<l, old[j]>> => m < n
        BY <1>3, <1>16, <3>1 DEF Ordered
      <3>3. /\ \A i \in 1 .. size - 1 : \E m \in DOMAIN batch : batch[m] = <<l, order[i]>>
            /\ \A i, j \in 1 .. size - 1 : \A m, n \in DOMAIN batch :
                 i < j /\ batch[m] = <<l, order[i]>> /\ batch[n] = <<l, order[j]>> => m < n
        BY <2>1, <3>2
      <3>4. lesson'[l].queue = order
        BY <1>10, <1>11
      <3>5. QED
        BY <2>1, <2>2, <3>3, <3>4 DEF Ordered
    <2>4. ASSUME NEW k \in inOrder, k # l, lesson'[k] # None
          PROVE  Ordered(k)' /\ Shows(lesson'[k])
      <3>1. lesson'[k] = lesson[k]
        BY <1>11, <2>4 DEF BatchInv
      <3>2. Ordered(k) /\ Shows(lesson[k])
        BY <1>15, <2>4, <3>1
      <3>3. QED
        BY <2>2, <3>1, <3>2 DEF Ordered
    <2>5. \A k \in inOrder' : lesson'[k] # None => Ordered(k)' /\ Shows(lesson'[k])
      BY <1>9, <1>11, <1>14, <2>3, <2>4
    <2>6. QED
      BY <1>12, <2>2, <2>5 DEF BatchInv, Shows
  <1>18. CASE ~ right
    <2>1. /\ DOMAIN order = 1 .. size
          /\ \A i \in 1 .. size - 1 : order[i] = old[i + 1]
          /\ order[size] = q
      BY <1>5, <1>6, <1>16, <1>18
    <2>2. batch' = L!MissedToEnd(batch, <<l, q>>)
      BY <1>9, <1>18
    <2>3. /\ BatchOnce'
          /\ \A item \in Lessons \X L!Questions :
               (\E m \in DOMAIN batch : batch[m] = item) =>
                  \E m \in DOMAIN batch' : batch'[m] = item
          /\ \A a, b \in DOMAIN batch, m, n \in DOMAIN batch' :
               batch'[m] = batch[a] /\ batch'[n] = batch[b] /\ batch[b] # <<l, q>>
                 => (batch[a] = <<l, q>> => n < m) /\ (batch[a] # <<l, q>> /\ a < b => m < n)
      BY <1>13, <2>2, BatchMoves
    <2>4. ASSUME l \in inOrder
          PROVE  Ordered(l)'
      <3>1. Ordered(l) /\ q = old[1]
        BY <1>1, <1>2, <1>3, <1>6, <1>15, <2>4 DEF Shows
      <3>2. /\ \A i \in 1 .. size : \E m \in DOMAIN batch : batch[m] = <<l, old[i]>>
            /\ \A i, j \in 1 .. size : \A m, n \in DOMAIN batch :
                 i < j /\ batch[m] = <<l, old[i]>> /\ batch[n] = <<l, old[j]>> => m < n
        BY <1>3, <1>16, <3>1 DEF Ordered
      <3>3. \A i \in 1 .. size : i # 1 => old[i] # q
        <4> SUFFICES ASSUME NEW i \in 1 .. size, i # 1, old[i] = q
                     PROVE  FALSE
          OBVIOUS
        <4>1. PICK m \in DOMAIN batch : batch[m] = <<l, old[i]>>
          BY <3>2
        <4>2. m < m
          BY <3>1, <3>2, <4>1
        <4>3. QED
          BY <1>13, <4>1, <4>2 DEF BatchOnce
      <3>4. \A i \in 1 .. size : <<l, old[i]>> \in Lessons \X L!Questions
        BY <1>6, <1>16
      <3>5. ASSUME NEW i \in 1 .. size
            PROVE  \E m \in DOMAIN batch' : batch'[m] = <<l, order[i]>>
        <4>1. PICK k \in 1 .. size : order[i] = old[k]
          BY <1>16, <2>1, <3>1
        <4>2. QED
          BY <2>3, <3>2, <3>4, <4>1
      <3>6. ASSUME NEW i \in 1 .. size, NEW j \in 1 .. size, i < j,
                   NEW m \in DOMAIN batch', NEW n \in DOMAIN batch',
                   batch'[m] = <<l, order[i]>>, batch'[n] = <<l, order[j]>>
            PROVE  m < n
        <4>1. order[i] = old[i + 1] /\ i + 1 \in 1 .. size /\ i + 1 # 1
          BY <2>1, <3>6
        <4>2. PICK a \in DOMAIN batch : batch[a] = <<l, old[i + 1]>>
          BY <3>2, <4>1
        <4>3. batch[a] # <<l, q>>
          BY <3>3, <4>1, <4>2
        <4>4. CASE j = size
          <5>1. PICK b \in DOMAIN batch : batch[b] = <<l, q>>
            BY <3>1, <3>2, <1>16
          <5>2. batch'[n] = batch[b] /\ batch'[m] = batch[a]
            BY <2>1, <3>6, <4>1, <4>2, <4>4, <5>1
          <5>3. QED
            BY <2>3, <4>3, <5>1, <5>2
        <4>5. CASE j # size
          <5>1. order[j] = old[j + 1] /\ j + 1 \in 1 .. size /\ j + 1 # 1
            BY <2>1, <3>6, <4>5
          <5>2. PICK b \in DOMAIN batch : batch[b] = <<l, old[j + 1]>>
            BY <3>2, <5>1
          <5>3. a < b
            BY <3>2, <3>6, <4>1, <4>2, <5>1, <5>2
          <5>4. batch[b] # <<l, q>>
            BY <3>3, <5>1, <5>2
          <5>5. QED
            BY <2>3, <3>6, <4>1, <4>2, <4>3, <5>1, <5>2, <5>3, <5>4
        <4>6. QED
          BY <4>4, <4>5
      <3>7. lesson'[l].queue = order
        BY <1>10, <1>11
      <3>8. QED
        BY <2>1, <3>5, <3>6, <3>7 DEF Ordered
    <2>5. ASSUME NEW k \in inOrder, k # l, lesson'[k] # None
          PROVE  Ordered(k)' /\ Shows(lesson'[k])
      <3>1. lesson'[k] = lesson[k] /\ k \in Lessons
        BY <1>11, <2>5 DEF BatchInv
      <3>2. Ordered(k) /\ Shows(lesson[k])
        BY <1>15, <2>5, <3>1
      <3>3. PICK kept \in Seq(L!Questions) : kept = lesson[k].queue
        BY <2>5, <3>1, LessonHas
      <3>4. /\ \A i \in DOMAIN kept : \E m \in DOMAIN batch : batch[m] = <<k, kept[i]>>
            /\ \A i, j \in DOMAIN kept : \A m, n \in DOMAIN batch :
                 i < j /\ batch[m] = <<k, kept[i]>> /\ batch[n] = <<k, kept[j]>> => m < n
        BY <3>2, <3>3 DEF Ordered
      <3>5. \A i \in DOMAIN kept :
              <<k, kept[i]>> \in Lessons \X L!Questions /\ <<k, kept[i]>> # <<l, q>>
        BY <2>5, <3>1, <3>3
      <3>6. /\ \A i \in DOMAIN kept : \E m \in DOMAIN batch' : batch'[m] = <<k, kept[i]>>
            /\ \A i, j \in DOMAIN kept : \A m, n \in DOMAIN batch' :
                 i < j /\ batch'[m] = <<k, kept[i]>> /\ batch'[n] = <<k, kept[j]>> => m < n
        <4>1. \A i \in DOMAIN kept : \E m \in DOMAIN batch' : batch'[m] = <<k, kept[i]>>
          BY <2>3, <3>4, <3>5
        <4>2. ASSUME NEW i \in DOMAIN kept, NEW j \in DOMAIN kept, i < j,
                     NEW m \in DOMAIN batch', NEW n \in DOMAIN batch',
                     batch'[m] = <<k, kept[i]>>, batch'[n] = <<k, kept[j]>>
              PROVE  m < n
          <5>1. PICK a \in DOMAIN batch : batch[a] = <<k, kept[i]>>
            BY <3>4
          <5>2. PICK b \in DOMAIN batch : batch[b] = <<k, kept[j]>>
            BY <3>4
          <5>3. a < b
            BY <3>4, <4>2, <5>1, <5>2
          <5>4. batch[a] # <<l, q>> /\ batch[b] # <<l, q>>
            BY <3>5, <5>1, <5>2
          <5>5. batch'[m] = batch[a] /\ batch'[n] = batch[b]
            BY <4>2, <5>1, <5>2
          <5>6. QED
            BY <2>3, <5>3, <5>4, <5>5
        <4>3. QED
          BY <4>1, <4>2
      <3>7. QED
        BY <3>1, <3>2, <3>3, <3>6 DEF Ordered
    <2>6. \A k \in inOrder' : lesson'[k] # None => Ordered(k)' /\ Shows(lesson'[k])
      BY <1>9, <1>11, <1>14, <2>4, <2>5
    <2>7. QED
      BY <1>12, <2>3, <2>6 DEF BatchInv, Shows
  <1>19. QED
    BY <1>17, <1>18

(* StartReview: what a lesson is given of a list of questions, each there  *)
(* once, is what the list has of it, in its order.                         *)
LEMMA DrawOrdered ==
  ASSUME NEW items \in Seq(Lessons \X L!Questions),
         \A m, n \in DOMAIN items : items[m] = items[n] => m = n,
         NEW l \in Lessons,
         NEW order, order = L!QuestionsOf(L!OfLesson(items, l))
  PROVE  /\ order \in Seq(L!Questions)
         /\ \A i \in DOMAIN order : \E m \in DOMAIN items : items[m] = <<l, order[i]>>
         /\ \A i, j \in DOMAIN order : \A m, n \in DOMAIN items :
              i < j /\ items[m] = <<l, order[i]>> /\ items[n] = <<l, order[j]>> => m < n
  <1>1. PICK places : places = {m \in DOMAIN items : items[m][1] = l}
    OBVIOUS
  <1>2. places \in SUBSET DOMAIN items /\ \A m \in DOMAIN items : m \in places <=> items[m][1] = l
    BY <1>1
  <1>3. Cardinality(places) \in Nat
    BY <1>2, Listed
  <1>4. PICK at \in Listings(places) :
          L!ItemsAt(items, places) = [i \in 1 .. Cardinality(places) |-> items[at[i]]]
    BY <1>2, Listed
  <1>5. PICK n \in Nat : n = Cardinality(places)
    BY <1>3
  <1>6. /\ at \in [1 .. n -> places]
        /\ \A i, j \in 1 .. n : i < j => at[i] < at[j]
    BY <1>4, <1>5 DEF Listings
  <1>7. order = [i \in 1 .. n |-> items[at[i]][2]]
    BY <1>1, <1>4, <1>5 DEF L!QuestionsOf, L!OfLesson
  <1>8. \A i \in 1 .. n : /\ at[i] \in DOMAIN items
                          /\ order[i] \in L!Questions
                          /\ items[at[i]] = <<l, order[i]>>
    <2> SUFFICES ASSUME NEW i \in 1 .. n
                 PROVE  /\ at[i] \in DOMAIN items
                        /\ order[i] \in L!Questions
                        /\ items[at[i]] = <<l, order[i]>>
      OBVIOUS
    <2>1. at[i] \in DOMAIN items /\ items[at[i]][1] = l
      BY <1>2, <1>6
    <2>2. items[at[i]] \in Lessons \X L!Questions
      BY <2>1
    <2>3. QED
      BY <1>7, <2>1, <2>2
  <1>9. DOMAIN order = 1 .. n /\ order \in Seq(L!Questions)
    BY <1>7, <1>8
  <1>10. ASSUME NEW i \in 1 .. n, NEW j \in 1 .. n, NEW m \in DOMAIN items, NEW k \in DOMAIN items,
                i < j, items[m] = <<l, order[i]>>, items[k] = <<l, order[j]>>
         PROVE  m < k
    <2>1. m = at[i] /\ k = at[j]
      BY <1>8, <1>10
    <2>2. QED
      BY <1>6, <1>10, <2>1
  <1>11. QED
    BY <1>8, <1>9, <1>10

(* A shuffle of finitely many items has each of them once. *)
LEMMA Shuffled ==
  ASSUME NEW S, IsFiniteSet(S), NEW items \in L!SetToSeqs(S)
  PROVE  /\ items \in Seq(S)
         /\ \A m, n \in DOMAIN items : items[m] = items[n] => m = n
  <1>1. PICK size \in Nat : size = Cardinality(S)
    BY FS_CardinalityType
  <1>2. /\ items \in [1 .. size -> S]
        /\ \A i, j \in 1 .. size : i # j => items[i] # items[j]
    BY <1>1, SameCardinality DEF L!SetToSeqs
  <1>3. QED
    BY <1>2

LEMMA BatchDrawn == ASSUME BatchInv, L!StartReview PROVE BatchInv'
  <1>1. PICK seen : seen = {<<l, lesson[l].feedback.question>> : l \in L!Revealed}
    OBVIOUS
  <1>2. PICK waiting : waiting = UNION {{l} \X lesson[l].due : l \in L!Waiting}
    OBVIOUS
  <1>3. PICK reveals \in L!SetToSeqs(seen), due \in L!SetToSeqs(waiting) :
          /\ batch' = reveals \o due
          /\ lesson' = [l \in Lessons |->
            IF L!Drawn(reveals \o due, l)
            THEN [lesson[l] EXCEPT
                    !.queue = L!QuestionsOf(L!OfLesson(reveals \o due, l))]
            ELSE lesson[l]]
    BY <1>1, <1>2 DEF L!StartReview
  <1>4. PICK items : items = reveals \o due
    OBVIOUS
  <1>5. /\ seen \subseteq Lessons \X L!Questions
        /\ \A item \in seen : item[1] \in L!Revealed
    BY <1>1, LessonHas DEF L!Revealed, L!Done
  <1>6. /\ waiting \subseteq Lessons \X L!Questions
        /\ \A item \in waiting : item[1] \in L!Waiting
    BY <1>2, LessonHas DEF L!Waiting, L!Done
  <1>7. IsFiniteSet(Lessons \X L!Questions)
    <2>1. IsFiniteSet(L!Questions)
      BY FS_Interval DEF L!Questions
    <2>2. QED
      BY <2>1, FS_Product
  <1>8. IsFiniteSet(seen) /\ IsFiniteSet(waiting)
    BY <1>5, <1>6, <1>7, FS_Subset
  <1>9. /\ reveals \in Seq(seen)
        /\ \A m, n \in DOMAIN reveals : reveals[m] = reveals[n] => m = n
    BY <1>8, Shuffled
  <1>10. /\ due \in Seq(waiting)
        /\ \A m, n \in DOMAIN due : due[m] = due[n] => m = n
    BY <1>8, Shuffled
  <1>11. seen \cap waiting = {}
    BY <1>5, <1>6 DEF L!Revealed, L!Waiting
  <1>12. /\ items \in Seq(Lessons \X L!Questions)
         /\ \A m, n \in DOMAIN items : items[m] = items[n] => m = n
    <2>1. PICK a \in Nat : a = Len(reveals) /\ DOMAIN reveals = 1 .. a
      BY <1>9
    <2>2. PICK b \in Nat : b = Len(due) /\ DOMAIN due = 1 .. b
      BY <1>10
    <2>3. reveals \in Seq(Lessons \X L!Questions) /\ due \in Seq(Lessons \X L!Questions)
      BY <1>5, <1>6, <1>9, <1>10
    <2>4. /\ items \in Seq(Lessons \X L!Questions)
          /\ DOMAIN items = 1 .. a + b
          /\ \A i \in 1 .. a + b : items[i] = IF i <= a THEN reveals[i] ELSE due[i - a]
      BY <1>4, <2>1, <2>2, <2>3
    <2>5. \A i \in 1 .. a : reveals[i] \in seen
      BY <1>9, <2>1
    <2>6. \A i \in 1 .. b : due[i] \in waiting
      BY <1>10, <2>2
    <2>7. ASSUME NEW m \in 1 .. a + b, NEW n \in 1 .. a + b, items[m] = items[n]
          PROVE  m = n
      <3>0. ASSUME NEW i \in 1 .. a + b
            PROVE  \/ i \in 1 .. a /\ items[i] = reveals[i] /\ items[i] \in seen
                   \/ i > a /\ i - a \in 1 .. b /\ items[i] = due[i - a]
                        /\ items[i] \in waiting
        <4>1. CASE i <= a
          BY <2>4, <2>5, <4>1
        <4>2. CASE i > a
          <5>1. i - a \in 1 .. b
            BY <4>2
          <5>2. QED
            BY <2>4, <2>6, <4>2, <5>1
        <4>3. QED
          BY <4>1, <4>2
      <3>1. CASE m \in 1 .. a /\ n \in 1 .. a
        <4>1. reveals[m] = reveals[n]
          BY <2>7, <3>0, <3>1
        <4>2. QED
          BY <1>9, <2>1, <3>1, <4>1
      <3>2. CASE m > a /\ n > a
        <4>1. m - a \in 1 .. b /\ items[m] = due[m - a]
          BY <3>0, <3>2
        <4>2. n - a \in 1 .. b /\ items[n] = due[n - a]
          BY <3>0, <3>2
        <4>3. due[m - a] = due[n - a]
          BY <2>7, <4>1, <4>2
        <4>4. m - a = n - a
          BY <1>10, <2>2, <4>1, <4>2, <4>3
        <4>5. QED
          BY <4>4
      <3>3. CASE m \in 1 .. a /\ n > a
        BY <1>11, <2>7, <3>0, <3>3
      <3>4. CASE m > a /\ n \in 1 .. a
        BY <1>11, <2>7, <3>0, <3>4
      <3>5. QED
        BY <3>0, <3>1, <3>2, <3>3, <3>4
    <2>8. QED
      BY <2>4, <2>7
  <1>13. ASSUME NEW l \in Lessons, L!Drawn(items, l)
         PROVE  /\ lesson'[l] \in L!Lesson
                /\ Ordered(l)' /\ Shows(lesson'[l])
    <2>1. lesson[l] # None /\ lesson[l].feedback = None
      BY <1>13 DEF L!Drawn, L!Waiting, L!Done
    <2>2. PICK order : order = L!QuestionsOf(L!OfLesson(items, l))
      OBVIOUS
    <2>3. /\ order \in Seq(L!Questions)
          /\ \A i \in DOMAIN order : \E m \in DOMAIN items : items[m] = <<l, order[i]>>
          /\ \A i, j \in DOMAIN order : \A m, n \in DOMAIN items :
               i < j /\ items[m] = <<l, order[i]>> /\ items[n] = <<l, order[j]>> => m < n
      BY <1>12, <2>2, DrawOrdered
    <2>4. lesson'[l] = [lesson[l] EXCEPT !.queue = order]
      BY <1>3, <1>13, <1>4, <2>2
    <2>5. lesson'[l] \in L!Lesson /\ lesson'[l].queue = order /\ lesson'[l].feedback = None
      BY <2>1, <2>3, <2>4, LessonHas DEF L!Lesson
    <2>6. batch' = items
      BY <1>3, <1>4
    <2>7. Ordered(l)'
      BY <2>3, <2>5, <2>6 DEF Ordered
    <2>8. QED
      BY <2>5, <2>7 DEF Shows
  <1>14. DOMAIN lesson' = Lessons /\ \A l \in Lessons : ~ L!Drawn(items, l) => lesson'[l] = lesson[l]
    BY <1>3, <1>4
  <1>15. RowTypes'
    BY <1>13, <1>14 DEF BatchInv, RowTypes
  <1>16. inOrder' \subseteq Lessons /\ \A l \in inOrder' : L!Drawn(items, l)
    BY DEF L!StartReview, L!Drawn, L!Waiting
  <1>17. BatchOnce'
    BY <1>3, <1>12, <1>4 DEF BatchOnce
  <1>18. QED
    BY <1>13, <1>15, <1>16, <1>17 DEF BatchInv

LEMMA BatchNext == ASSUME BatchInv, [L!Next]_L!vars PROVE BatchInv'
  <1>1. CASE UNCHANGED L!vars
    BY <1>1, PracticeRests DEF L!vars
  <1>2. ASSUME NEW l \in Lessons,
               \/ L!Create(l) \/ L!Retry(l) \/ L!Recover(l)
               \/ L!Start(l) \/ L!Answer(l) \/ L!NextQuestion(l) \/ L!Delete(l)
               \/ \E q \in L!Questions : L!BecomeDue(l, q)
        PROVE  BatchInv'
    BY <1>2, BatchGenerates, BatchPractised, BatchAdvances
  <1>3. ASSUME NEW w \in Crew,
               \/ \E t \in tasks : L!Take(w, t)
               \/ L!Complete(w) \/ L!Invalid(w) \/ L!Break(w) \/ L!FailAttempt(w)
               \/ L!AddQuestions(w)
        PROVE  BatchInv'
    BY <1>3, BatchWorks
  <1>4. QED
    BY <1>1, <1>2, <1>3, BatchDrawn DEF L!Next

(* What is still queued is found in the batch in the order of the queue.   *)
LEMMA OrderedIsAligned ==
  ASSUME BatchInv, NEW l \in inOrder, lesson[l] # None
  PROVE  L!StillQueued(l) = lesson[l].queue
  <1>1. l \in Lessons /\ Ordered(l)
    BY DEF BatchInv
  <1>2. PICK order \in Seq(L!Questions) : order = lesson[l].queue
    BY <1>1, LessonHas
  <1>3. PICK n \in Nat : n = Len(order) /\ DOMAIN order = 1 .. n
    OBVIOUS
  <1>4. PICK places :
          places = {m \in DOMAIN batch :
                      batch[m][1] = l /\ L!Contains(lesson[l].queue, batch[m][2])}
    OBVIOUS
  <1>5. /\ \A i \in 1 .. n : \E m \in DOMAIN batch : batch[m] = <<l, order[i]>>
        /\ \A i, j \in 1 .. n : \A m, k \in DOMAIN batch :
             i < j /\ batch[m] = <<l, order[i]>> /\ batch[k] = <<l, order[j]>> => m < k
    <2>1. DOMAIN lesson[l].queue = 1 .. n
      BY <1>2, <1>3
    <2>2. QED
      BY <1>1, <1>2, <2>1 DEF Ordered
  <1>6. PICK at : at = [i \in 1 .. n |-> CHOOSE m \in DOMAIN batch : batch[m] = <<l, order[i]>>]
    OBVIOUS
  <1>7. \A i \in 1 .. n : at[i] \in DOMAIN batch /\ batch[at[i]] = <<l, order[i]>>
    BY <1>5, <1>6
  <1>8. batch \in Seq(Lessons \X L!Questions)
        /\ \A m, k \in DOMAIN batch : batch[m] = batch[k] => m = k
    BY DEF BatchInv, BatchOnce
  <1>9. \A m \in DOMAIN batch :
          m \in places <=> \E i \in 1 .. n : batch[m] = <<l, order[i]>>
    <2> SUFFICES ASSUME NEW m \in DOMAIN batch
                 PROVE  m \in places <=> \E i \in 1 .. n : batch[m] = <<l, order[i]>>
      OBVIOUS
    <2>1. batch[m] \in Lessons \X L!Questions
      BY <1>8
    <2>2. L!Contains(lesson[l].queue, batch[m][2]) <=> \E i \in 1 .. n : order[i] = batch[m][2]
      BY <1>2, <1>3 DEF L!Contains
    <2>3. QED
      BY <1>4, <2>1, <2>2
  <1>10. places \in SUBSET DOMAIN batch
    BY <1>4
  <1>11. at \in [1 .. n -> places]
    BY <1>6, <1>7, <1>9
  <1>12. \A i, j \in 1 .. n : i < j => at[i] < at[j]
    BY <1>5, <1>7
  <1>13. \A m \in places : \E i \in 1 .. n : m = at[i]
    <2> SUFFICES ASSUME NEW m \in DOMAIN batch, m \in places
                 PROVE  \E i \in 1 .. n : m = at[i]
      BY <1>10
    <2>1. PICK i \in 1 .. n : batch[m] = <<l, order[i]>>
      BY <1>9
    <2>2. batch[m] = batch[at[i]] /\ at[i] \in DOMAIN batch
      BY <1>7, <2>1
    <2>3. QED
      BY <1>8, <2>2
  <1>14. L!ItemsAt(batch, places) = [i \in 1 .. n |-> batch[at[i]]]
    <2>1. at \in InOrderOf(places, n)
      BY <1>11, <1>12, <1>13 DEF InOrderOf
    <2>2. batch \in Seq(Lessons \X L!Questions)
      BY <1>8
    <2>3. QED
      BY <1>10, <2>1, <2>2, ListedSo
  <1>15. L!StillQueued(l) = [i \in 1 .. n |-> batch[at[i]][2]]
    BY <1>4, <1>14 DEF L!StillQueued, L!QuestionsOf
  <1>16. L!StillQueued(l) = [i \in 1 .. n |-> order[i]]
    BY <1>7, <1>15
  <1>17. QED
    BY <1>2, <1>3, <1>16

(* The batch that a reload replays has the questions of every lesson that  *)
(* was drawn in the order in which the lesson's queue accepts their        *)
(* answers, none missing and none twice: for any number of lessons, of     *)
(* questions, of jobs and of acts of practice (nuance/mysql.go,            *)
(* StartReview, ReviewState and Act).                                      *)
THEOREM BatchStaysAligned == LearningSpec => []BatchAligned
  <1>1. LearningInit => BatchInv
    BY BatchInit DEF LearningInit
  <1>2. [LearningNext]_<<part, vars, lessons, articles, lookups, additions, clips,
                         translations>> => [L!Next]_L!vars
    BY DEF LearningNext, lessons, L!vars
  <1>3. BatchInv /\ [L!Next]_L!vars => BatchInv'
    BY BatchNext
  <1>4. BatchInv => BatchAligned
    BY OrderedIsAligned DEF BatchAligned, L!BatchAligned
  <1>5. QED
    BY <1>1, <1>2, <1>3, <1>4, PTL DEF LearningSpec

HIDE LessonsAssumption
=============================================================================
