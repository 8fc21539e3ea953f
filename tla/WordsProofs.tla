------------------------------ MODULE WordsProofs ------------------------------
(***************************************************************************)
(* Proofs about Words for any number of workers, senses, wordings and      *)
(* requests on stale pages.                                                *)
(***************************************************************************)
EXTENDS Words, TLAPS

-----------------------------------------------------------------------------
(* Words. *)

Work == [task : Task, version : Versions, phase : Phases, before : Card, seen : SUBSET Nat]

Request == [op : {"research", "confirm", "review"}, question : Nat,
            asks : Senses \cup {Nothing}]

(* What a worker does is what its task says, and research is of the       *)
(* revision that was asked for.                                            *)
DoesItsTask(d) ==
  /\ d.phase \in {"judge", "ask"} => d.task.kind = "verify"
  /\ d.phase = "clean" => d.task.kind = "meaning"
  /\ d.phase = "research" => d.task = ResearchTask(d.before.researched)

WordTypes ==
  /\ TypeOK
  /\ worker \in [Workers -> Work \cup {Nothing}]
  /\ \A w \in Workers : worker[w] # Nothing => DoesItsTask(worker[w])
  /\ request \in Request \cup {Nothing}

(* A card in itself: a suggestion is of the sense that it was made from,   *)
(* and what was derived from the gloss is of the gloss.                    *)
CardFits(c) ==
  /\ c.previous # Nothing => Sense(c.previous) = Sense(c.gloss)
  /\ c.research = "done" => c.offer # Nothing
  /\ c.research = "done" /\ ~ MeaningNeedsReview(c) => c.of = c.gloss
  /\ c.question > 0 => c.asks = Sense(c.gloss)

(* What a job, a visit or a request for research makes of a card: the      *)
(* learner's gloss stays, and a suggestion awaits the learner's choice.    *)
Kept(c, d) ==
  /\ d \in Card /\ CardFits(d)
  /\ c.revision <= d.revision /\ c.researched <= d.researched
  /\ Baseline(d) = Baseline(c) /\ Sense(d.gloss) = Sense(c.gloss)
  /\ d.revision = c.revision /\ c.meaning # "pending" =>
       d.meaning = c.meaning /\ d.gloss = c.gloss
  /\ d.researched = c.researched /\ d.research = "pending" =>
       /\ c.research = "pending"
       /\ d.gloss = c.gloss \/ MeaningNeedsReview(d)
       /\ MeaningNeedsReview(c) => MeaningNeedsReview(d)

USE WordsAssumption

LEMMA KeptItself ==
  ASSUME NEW c \in Card, CardFits(c)
  PROVE  Kept(c, c)
  BY DEF Kept, Card

LEMMA BaselineIsGloss ==
  ASSUME NEW c \in Card
  PROVE  Baseline(c) \in Glosses /\ Baseline(c) # Nothing
  BY DEF Baseline, Card, Glosses

LEMMA KeptByStart ==
  ASSUME NEW c \in Card, CardFits(c), NEW v \in Versions
  PROVE  Kept(c, StartMeaningCleanup(c, v))
  <1>1. CASE StartMeaningCleanup(c, v) = c
    BY <1>1, KeptItself
  <1>2. CASE StartMeaningCleanup(c, v) =
               [c EXCEPT !.meaning = "pending", !.target = v, !.revision = @ + 1]
    <2> DEFINE d == [c EXCEPT !.meaning = "pending", !.target = v, !.revision = @ + 1]
    <2>1. /\ d \in Card /\ d.revision = c.revision + 1 /\ d.meaning = "pending"
          /\ \A x \in {"gloss", "previous", "research", "researched", "offer", "of",
                        "question", "asks"} : d[x] = c[x]
      <3>1. v \in Nat
        OBVIOUS
      <3>2. c.revision + 1 \in Nat
        BY DEF Card
      <3>3. d \in Card
        BY <3>1, <3>2 DEF Card
      <3>4. QED
        BY <3>3 DEF Card
    <2>2. CardFits(d) /\ MeaningNeedsReview(d)
      BY <2>1 DEF CardFits, MeaningNeedsReview
    <2>3. QED
      BY <1>2, <2>1, <2>2 DEF Kept, Card, Baseline
  <1>3. QED
    BY <1>1, <1>2 DEF StartMeaningCleanup

LEMMA KeptByClean ==
  ASSUME NEW c \in Card, CardFits(c), NEW before \in Card, NEW v \in Versions,
         NEW m \in Wordings
  PROVE  /\ Kept(c, FailMeaning(c, before, v))
         /\ Kept(c, SaveMeaning(c, before, <<Sense(before.gloss), m>>, v))
  <1> DEFINE g == <<Sense(before.gloss), m>>
  <1>1. Kept(c, FailMeaning(c, before, v))
    <2>1. CASE FailMeaning(c, before, v) = c
      BY <2>1, KeptItself
    <2>2. CASE /\ c.meaning = "pending"
               /\ FailMeaning(c, before, v) = [c EXCEPT !.meaning = "failed"]
      BY <2>2 DEF Kept, Card, CardFits, Baseline, MeaningNeedsReview
    <2>3. QED
      BY <2>1, <2>2 DEF FailMeaning, SameRevision
  <1>2. ASSUME SameRevision(c, before, v), c.gloss = before.gloss
        PROVE  Kept(c, Cleaned(c, g, v))
    <2>1. g \in Glosses /\ Sense(g) = Sense(c.gloss) /\ c.meaning = "pending"
      BY <1>2 DEF Glosses, Sense, Card, SameRevision
    <2>2. Baseline(c) \in Glosses /\ Baseline(c) # Nothing /\ Sense(Baseline(c)) = Sense(g)
      BY <2>1, BaselineIsGloss DEF CardFits, Baseline
    <2> HIDE DEF g
    <2>3. CASE /\ Baseline(c) = g
               /\ Cleaned(c, g, v) = Confirmed([c EXCEPT !.gloss = g], v)
      <3> DEFINE d == Confirmed([c EXCEPT !.gloss = g], v)
      <3>1. /\ d \in Card /\ d.gloss = g /\ d.previous = Nothing /\ d.research = "confirmed"
            /\ d.revision = c.revision /\ d.researched = c.researched
            /\ d.question = c.question /\ d.asks = c.asks
        BY <2>1 DEF Card, Confirmed
      <3>2. CardFits(d) /\ Baseline(d) = g
        BY <3>1, <2>1 DEF CardFits, Baseline
      <3>3. QED
        BY <3>1, <3>2, <2>1, <2>3 DEF Kept, Card
    <2>4. CASE Cleaned(c, g, v) =
                 [c EXCEPT !.previous = Baseline(c), !.gloss = g, !.meaning = "done"]
      <3> DEFINE d == [c EXCEPT !.previous = Baseline(c), !.gloss = g, !.meaning = "done"]
      <3>1. d \in Card
        BY <2>1, <2>2 DEF Card
      <3>2. Baseline(d) = Baseline(c)
        BY <2>2 DEF Baseline, Card
      <3>3. CardFits(d)
        BY <2>1, <2>2 DEF CardFits, Card, MeaningNeedsReview
      <3>4. QED
        BY <3>1, <3>2, <3>3, <2>1, <2>4 DEF Kept, MeaningNeedsReview, Card
    <2>5. QED
      BY <2>3, <2>4 DEF Cleaned
  <1>3. QED
    BY <1>1, <1>2 DEF SaveMeaning

LEMMA KeptByResearch ==
  ASSUME NEW c \in Card, c # Nothing, CardFits(c), NEW before \in Card, NEW g \in Glosses \cup {Nothing}
  PROVE  /\ Kept(c, FinishResearch(c, before, g))
         /\ FinishResearch(c, before, g) = c
              => ~ (/\ c.research = "pending" /\ c.researched = before.researched
                    /\ c.gloss = before.gloss)
         /\ FinishResearch(c, before, g) # c
              => FinishResearch(c, before, g).research # "pending"
  <1>1. CASE /\ FinishResearch(c, before, g) = c
             /\ ~ (/\ c.research = "pending" /\ c.researched = before.researched
                   /\ c.gloss = before.gloss)
    BY <1>1, KeptItself
  <1>2. CASE /\ c.research = "pending"
             /\ FinishResearch(c, before, g) = [c EXCEPT !.research = "failed"]
    BY <1>2 DEF Kept, Card, CardFits, Baseline, MeaningNeedsReview
  <1>3. CASE /\ c.research = "pending" /\ before.gloss = c.gloss /\ g # Nothing
             /\ FinishResearch(c, before, g) =
                  [c EXCEPT !.research = "done", !.offer = g, !.of = before.gloss]
    <2> DEFINE d == [c EXCEPT !.research = "done", !.offer = g, !.of = before.gloss]
    <2>1. /\ d \in Card /\ d.research = "done" /\ d.of = c.gloss /\ d.offer = g
          /\ \A x \in {"gloss", "previous", "meaning", "revision", "researched", "question",
                       "asks"} : d[x] = c[x]
      BY <1>3 DEF Card
    <2>2. CardFits(d) /\ Baseline(d) = Baseline(c)
      BY <1>3, <2>1 DEF CardFits, Baseline
    <2>3. Kept(c, d)
      BY <2>1, <2>2 DEF Kept, Card, MeaningNeedsReview
    <2>4. QED
      BY <1>3, <2>1, <2>3
  <1>4. CASE ~ (/\ c.research = "pending" /\ c.researched = before.researched
                /\ c.gloss = before.gloss)
    BY <1>1, <1>4 DEF FinishResearch
  <1>5. CASE /\ c.research = "pending" /\ c.researched = before.researched
             /\ c.gloss = before.gloss
    <2>1. CASE g = Nothing
      BY <1>2, <1>5, <2>1 DEF FinishResearch
    <2>2. CASE g # Nothing
      BY <1>3, <1>5, <2>2 DEF FinishResearch
    <2>3. QED
      BY <2>1, <2>2
  <1>6. QED
    BY <1>4, <1>5

-----------------------------------------------------------------------------
(* The page shows the card, or an earlier revision of it; a suggestion that *)
(* it shows in the present one is the card's.                              *)
PageStands ==
  card # Nothing /\ page # Nothing =>
    /\ page.revision <= card.revision
    /\ page.revision = card.revision =>
         /\ card.meaning # "confirmed" => Baseline(page) = Baseline(card)
         /\ page.meaning = "done" =>
              card.meaning \in {"done", "confirmed"} /\ card.gloss = page.gloss

(* Until the card is replaced its questions are all of one sense.          *)
AskedOfTheCard ==
  card # Nothing =>
    /\ renewed = "replaced" => card.question = 0
    /\ renewed = "no" =>
         /\ page # Nothing /\ page.question > 0 => page.asks = Sense(card.gloss)
         /\ request # Nothing /\ request.op = "review" => request.asks = Sense(card.gloss)

(* Research that is of the latest revision has read the gloss of the card, *)
(* unless that awaits the learner's choice.                                *)
ResearchKnown ==
  \A w \in Workers :
    card # Nothing /\ worker[w] # Nothing /\ worker[w].phase = "research" =>
      LET b == worker[w].before IN
      /\ b.researched <= card.researched
      /\ b.researched = card.researched /\ card.research = "pending" =>
           b.gloss = card.gloss \/ MeaningNeedsReview(card)

RequestStands ==
  request # Nothing =>
    /\ request.op = "review" => request.question > 0
    /\ request.op = "research" => "research" \in followed.what

WordsInv ==
  /\ WordTypes
  /\ card # Nothing => CardFits(card)
  /\ misfiled => renewed = "asked"
  /\ OriginalKept /\ PageStands /\ AskedOfTheCard
  /\ ResearchKnown /\ ResearchPursued /\ RequestStands

-----------------------------------------------------------------------------
(* The types. *)

LEMMA TasksTyped ==
  ASSUME NEW v \in Nat
  PROVE  VerifyTask(v) \in Task /\ MeaningTask(v) \in Task /\ ResearchTask(v) \in Task
  BY DEF VerifyTask, MeaningTask, ResearchTask, Task

LEMMA EnqueueTyped ==
  ASSUME queue \subseteq Task, NEW all, all \subseteq Task, Enqueue(all)
  PROVE  queue' \subseteq Task
  BY DEF Enqueue

LEMMA WorkTyped ==
  ASSUME WordTypes, NEW w \in Workers, NEW t \in queue, NEW v \in deployed, card # Nothing,
         NEW phase \in Phases, NEW seen \in SUBSET Nat
  PROVE  Doing(t, v, phase, seen) \in Work
  BY DEF WordTypes, TypeOK, Doing, Work

(* Whoever takes a task, or goes on to the next revision, works on a card. *)
LEMMA TakenTyped ==
  ASSUME WordTypes, NEW w \in Workers, NEW t, NEW v \in Versions, NEW phase, NEW seen,
         Go(w, t, v, phase, seen), Doing(t, v, phase, seen) \in Work,
         DoesItsTask(Doing(t, v, phase, seen))
  PROVE  /\ worker' \in [Workers -> Work \cup {Nothing}]
         /\ \A u \in Workers : worker'[u] # Nothing => DoesItsTask(worker'[u])
  BY DEF WordTypes, Go

LEMMA EndedTyped ==
  ASSUME WordTypes, NEW w \in Workers, worker' = [worker EXCEPT ![w] = Nothing]
  PROVE  /\ worker' \in [Workers -> Work \cup {Nothing}]
         /\ \A u \in Workers : worker'[u] # Nothing => DoesItsTask(worker'[u])
  BY DEF WordTypes

LEMMA NextMeaningTyped ==
  ASSUME WordTypes, NEW w \in Workers, NEW t \in Task, t.kind = "meaning",
         NEW v \in Versions, NEW seen \in SUBSET Nat, NEW c \in Card \cup {Nothing},
         NextMeaning(w, t, v, seen, c)
  PROVE  /\ worker' \in [Workers -> Work \cup {Nothing}]
         /\ \A u \in Workers : worker'[u] # Nothing => DoesItsTask(worker'[u])
         /\ queue' \subseteq Task
  <1>1. CASE PendingMeaning(c, v) /\ c.revision \notin seen
    <2> DEFINE d == [task |-> t, version |-> v, phase |-> "clean", before |-> c,
                     seen |-> seen \cup {c.revision}]
    <2>1. c \in Card
      BY <1>1 DEF PendingMeaning
    <2>2. seen \cup {c.revision} \in SUBSET Nat
      BY <2>1 DEF Card
    <2>3. d \in Work /\ DoesItsTask(d)
      BY <2>1, <2>2 DEF Work, Phases, DoesItsTask
    <2>4. worker' = [worker EXCEPT ![w] = d] /\ queue' = queue
      BY <1>1 DEF NextMeaning
    <2> HIDE DEF d
    <2>5. QED
      BY <2>3, <2>4 DEF WordTypes, TypeOK
  <1>2. CASE ~ (PendingMeaning(c, v) /\ c.revision \notin seen)
    BY <1>2, EndedTyped DEF NextMeaning, WordTypes, TypeOK
  <1>3. QED
    BY <1>1, <1>2

(* Every card that a step leaves is one, and so is what the page shows.    *)
CardTyped == card' \in Card \cup {Nothing} /\ page' \in {page, card'}
WorkersTyped ==
  /\ worker' \in [Workers -> Work \cup {Nothing}]
  /\ \A w \in Workers : worker'[w] # Nothing => DoesItsTask(worker'[w])
  /\ queue' \subseteq Task

LEMMA TypedAll ==
  ASSUME WordTypes, CardTyped, WorkersTyped, UNCHANGED fixed,
         deployed' \subseteq Versions, own' \in Glosses, renewed' \in {"no", "replaced", "asked"},
         misfiled' \in BOOLEAN, request' \in Request \cup {Nothing}
  PROVE  WordTypes'
  <1>1. WorkersTyped => \A w \in Workers : worker'[w] # Nothing =>
                          worker'[w].phase \in Phases /\ worker'[w].before \in Card
    BY DEF WorkersTyped, Work
  <1>2. page' \in Card \cup {Nothing}
    BY DEF CardTyped, WordTypes, TypeOK
  <1>3. QED
    BY <1>1, <1>2 DEF WordTypes, TypeOK, CardTyped, WorkersTyped, fixed

LEMMA TypedWork ==
  ASSUME WordTypes, UNCHANGED <<worker, queue>>
  PROVE  WorkersTyped
  BY DEF WordTypes, TypeOK, WorkersTyped

LEMMA TypedEnd ==
  ASSUME WordTypes, NEW w \in Workers, Ended(w)
  PROVE  WorkersTyped
  BY EndedTyped DEF Ended, WorkersTyped, WordTypes, TypeOK

LEMMA TypedSkip ==
  ASSUME WordTypes, NEW w \in Workers, NEW t, Skip(w, t)
  PROVE  WorkersTyped
  BY DEF Skip, WorkersTyped, WordTypes, TypeOK

LEMMA TypedTake ==
  ASSUME WordTypes, NEW w \in Workers, NEW t \in queue, NEW v \in Versions,
         TakeVerify(w, t, v) \/ TakeMeaning(w, t, v) \/ TakeResearch(w, t, v)
  PROVE  WorkersTyped
  <1>1. t \in Task /\ v \in deployed
    BY DEF WordTypes, TypeOK, TakeVerify, TakeMeaning, TakeResearch, Take
  <1>2. ASSUME NEW phase \in Phases, card # Nothing, Go(w, t, v, phase, {}),
               \/ phase \in {"judge", "ask"} /\ t.kind = "verify"
               \/ phase = "research" /\ t = ResearchTask(card.researched)
        PROVE  WorkersTyped
    <2>1. Doing(t, v, phase, {}) \in Work
      BY <1>1, <1>2, WorkTyped
    <2>2. DoesItsTask(Doing(t, v, phase, {}))
      BY <1>2 DEF DoesItsTask, Doing
    <2>3. queue' \subseteq Task
      BY <1>2 DEF Go, WordTypes, TypeOK
    <2>4. QED
      BY <1>2, <2>1, <2>2, <2>3, TakenTyped DEF WorkersTyped
  <1>3. CASE TakeVerify(w, t, v)
    <2>1. CASE Skip(w, t)
      BY <2>1, TypedSkip
    <2>2. CASE card # Nothing /\ (Go(w, t, v, "judge", {}) \/ Go(w, t, v, "ask", {}))
      BY <1>2, <1>3, <2>2 DEF Phases, TakeVerify
    <2>3. QED
      BY <1>3, <2>1, <2>2 DEF TakeVerify
  <1>4. CASE TakeMeaning(w, t, v)
    BY <1>1, <1>4, NextMeaningTyped DEF TakeMeaning, WordTypes, TypeOK, WorkersTyped
  <1>5. CASE TakeResearch(w, t, v)
    <2>1. CASE Skip(w, t)
      BY <2>1, TypedSkip
    <2>2. CASE /\ card # Nothing /\ card.researched = t.arg
               /\ Go(w, t, v, "research", {})
      <3>1. t = ResearchTask(card.researched)
        BY <1>1, <1>5, <2>2 DEF TakeResearch, ResearchTask, Task
      <3>2. QED
        BY <1>2, <2>2, <3>1 DEF Phases
    <2>3. QED
      BY <1>5, <2>1, <2>2 DEF TakeResearch
  <1>6. QED
    BY <1>3, <1>4, <1>5

-----------------------------------------------------------------------------
(* What is left as it was by a step that keeps the card, or makes another  *)
(* of it as Kept says.                                                     *)
LEMMA CardStands ==
  ASSUME WordsInv, card # Nothing, Kept(card, card'), own' = own, page' \in {page, card'}
  PROVE  CardFits(card') /\ OriginalKept' /\ PageStands'
  <1>1. card \in Card /\ card' \in Card /\ page \in Card \cup {Nothing}
    BY DEF WordsInv, WordTypes, TypeOK, Kept
  <1>2. CardFits(card') /\ OriginalKept'
    BY DEF WordsInv, OriginalKept, Kept
  <1>3. CASE page' = card'
    BY <1>1, <1>2, <1>3 DEF PageStands, Card
  <1>4. CASE page' = page /\ page # Nothing
    <2>1. /\ page.revision <= card.revision /\ card.revision <= card'.revision
          /\ page.revision \in Nat /\ card.revision \in Nat /\ card'.revision \in Nat
      BY <1>1, <1>4 DEF WordsInv, PageStands, Kept, Card
    <2>2. CASE page.revision = card'.revision
      <3>1. page.revision = card.revision /\ card'.revision = card.revision
        BY <2>1, <2>2
      <3>2. card.meaning # "pending" =>
              card'.meaning = card.meaning /\ card'.gloss = card.gloss
        BY <3>1 DEF Kept
      <3>3. Baseline(card') = Baseline(card)
        BY DEF Kept
      <3>4. QED
        BY <1>2, <1>4, <2>1, <3>1, <3>2, <3>3 DEF WordsInv, PageStands
    <2>3. CASE page.revision # card'.revision
      BY <1>2, <1>4, <2>1, <2>3 DEF PageStands
    <2>4. QED
      BY <2>2, <2>3
  <1>5. CASE page' = page /\ page = Nothing
    BY <1>2, <1>5 DEF PageStands
  <1>6. QED
    BY <1>2, <1>3, <1>4, <1>5

LEMMA AskedStands ==
  ASSUME WordsInv, card # Nothing, Kept(card, card'), page' \in {page, card'},
         request' \in {request, Nothing},
         renewed' = "replaced" => card'.question = 0, renewed' = "no" => renewed = "no"
  PROVE  AskedOfTheCard'
  <1>1. Sense(card'.gloss) = Sense(card.gloss) /\ CardFits(card')
    BY DEF Kept
  <1>2. QED
    BY <1>1 DEF WordsInv, AskedOfTheCard, CardFits

LEMMA ResearchStands ==
  ASSUME WordsInv, card # Nothing, Kept(card, card'),
         \A w \in Workers : \/ worker'[w] \in {worker[w], Nothing}
                            \/ worker'[w].phase # "research"
                            \/ worker'[w].before = card'
  PROVE  ResearchKnown'
  <1> SUFFICES ASSUME NEW w \in Workers, worker'[w] # Nothing,
                      worker'[w].phase = "research"
               PROVE  LET b == worker'[w].before IN
                      /\ b.researched <= card'.researched
                      /\ b.researched = card'.researched /\ card'.research = "pending" =>
                           b.gloss = card'.gloss \/ MeaningNeedsReview(card')
    BY DEF ResearchKnown
  <1>1. card \in Card /\ card' \in Card /\ card.researched <= card'.researched
    BY DEF WordsInv, WordTypes, TypeOK, Kept
  <1>2. CASE worker'[w] = worker[w]
    <2> DEFINE b == worker[w].before
    <2>1. b \in Card /\ b.researched <= card.researched
      BY <1>2 DEF WordsInv, WordTypes, TypeOK, ResearchKnown
    <2>2. b.researched = card.researched /\ card.research = "pending" =>
             b.gloss = card.gloss \/ MeaningNeedsReview(card)
      BY <1>2 DEF WordsInv, ResearchKnown
    <2>3. b.researched = card'.researched => card'.researched = card.researched
      BY <1>1, <2>1 DEF Card
    <2>4. b.researched <= card'.researched
      BY <1>1, <2>1 DEF Card
    <2>5. QED
      BY <1>2, <2>2, <2>3, <2>4 DEF Kept
  <1>3. CASE worker'[w].before = card'
    BY <1>1, <1>3 DEF Card
  <1>4. QED
    BY <1>2, <1>3

LEMMA PursuitStands ==
  ASSUME WordsInv, card # Nothing, Kept(card, card'), card'.researched = card.researched,
         lost \subseteq lost',
         ResearchTask(card.researched) \in queue =>
           \/ ResearchTask(card.researched) \in queue'
           \/ card.researched \in lost'
           \/ card'.research # "pending" \/ MeaningNeedsReview(card')
  PROVE  ResearchPursued'
  BY DEF WordsInv, ResearchPursued, Kept

LEMMA Gone ==
  ASSUME card' = Nothing
  PROVE  /\ OriginalKept' /\ PageStands' /\ AskedOfTheCard'
         /\ ResearchKnown' /\ ResearchPursued'
  BY DEF OriginalKept, PageStands, AskedOfTheCard, ResearchKnown, ResearchPursued

-----------------------------------------------------------------------------
(* The steps.  Each leaves the types, and the rest of the invariant follows *)
(* from what it makes of the card.                                         *)

(* A step after which the card is Kept and nothing is asked for.           *)
LEMMA StepKeeps ==
  ASSUME WordsInv, WordTypes', card # Nothing, Kept(card, card'), own' = own,
         page' \in {page, card'}, request' \in {request, Nothing}, UNCHANGED fixed,
         renewed' = "replaced" => card'.question = 0, renewed' = "no" => renewed = "no",
         misfiled' => renewed' = "asked",
         \A w \in Workers : \/ worker'[w] \in {worker[w], Nothing}
                            \/ worker'[w].phase # "research"
                            \/ worker'[w].before = card',
         ResearchPursued'
  PROVE  WordsInv'
  <1>1. CardFits(card') /\ OriginalKept' /\ PageStands'
    BY CardStands
  <1>2. AskedOfTheCard'
    BY AskedStands
  <1>3. ResearchKnown'
    BY ResearchStands
  <1>4. RequestStands'
    BY DEF WordsInv, RequestStands, fixed
  <1>5. QED
    BY <1>1, <1>2, <1>3, <1>4 DEF WordsInv

LEMMA StepGone ==
  ASSUME WordsInv, WordTypes', card' = Nothing, request' \in {request, Nothing},
         UNCHANGED <<fixed, renewed, misfiled>>
  PROVE  WordsInv'
  <1>1. RequestStands'
    BY DEF WordsInv, RequestStands, fixed
  <1>2. QED
    BY <1>1, Gone DEF WordsInv

(* The facts of the invariant that the steps use.                          *)
LEMMA CardOf ==
  ASSUME WordsInv, card # Nothing
  PROVE  card \in Card /\ CardFits(card) /\ Kept(card, card)
  BY KeptItself DEF WordsInv, WordTypes, TypeOK

LEMMA AskedStill ==
  ASSUME WordsInv, card # Nothing
  PROVE  /\ renewed = "replaced" => card.question = 0
         /\ misfiled => renewed = "asked"
  BY DEF WordsInv, AskedOfTheCard

LEMMA OtherKinds ==
  ASSUME NEW t \in Task, NEW n
  PROVE  /\ t.kind # "research" => t # ResearchTask(n)
         /\ ResearchTask(n).kind = "research" /\ ResearchTask(n).arg = n
  BY DEF ResearchTask

LEMMA TakeKeeps ==
  ASSUME WordsInv, NEW w \in Workers, NEW t \in queue, NEW v \in Versions,
         TakeVerify(w, t, v) \/ TakeMeaning(w, t, v) \/ TakeResearch(w, t, v)
  PROVE  WordsInv'
  <1>1. /\ UNCHANGED <<fixed, card, deployed, page, request, own, lost, renewed, misfiled>>
        /\ t \in Task
    BY DEF WordsInv, WordTypes, TypeOK, TakeVerify, TakeMeaning, TakeResearch
  <1>2. WorkersTyped
    BY TypedTake DEF WordsInv
  <1>3. WordTypes'
    BY <1>1, <1>2, TypedAll DEF WordsInv, WordTypes, TypeOK, CardTyped
  <1>4. CASE card = Nothing
    BY <1>1, <1>3, <1>4, StepGone
  <1>5. CASE card # Nothing
    <2>1. \A u \in Workers : \/ worker'[u] \in {worker[u], Nothing}
                             \/ worker'[u].phase # "research"
                             \/ worker'[u].before = card'
      BY <1>1 DEF WordsInv, WordTypes, TakeVerify, TakeMeaning, TakeResearch, Go, Skip, Doing,
                  NextMeaning
    <2>2. \/ queue' = queue
          \/ /\ queue' = queue \ {t}
             /\ \/ t.kind # "research"
                \/ t.kind = "research" /\ ~ (card.research = "pending" /\ card.researched = t.arg)
      BY <1>5 DEF TakeVerify, TakeMeaning, TakeResearch, Go, Skip, NextMeaning
    <2>3. \/ ResearchTask(card.researched) \in queue => ResearchTask(card.researched) \in queue'
          \/ card.research # "pending"
      BY <1>1, <2>2, OtherKinds
    <2>4. ResearchPursued'
      BY <1>1, <1>5, <2>3, CardOf, PursuitStands
    <2>5. QED
      BY <1>1, <1>3, <1>5, <2>1, <2>4, CardOf, AskedStill, StepKeeps
  <1>6. QED
    BY <1>4, <1>5

LEMMA JudgeKeeps ==
  ASSUME WordsInv, NEW w \in Workers, JudgeWord(w)
  PROVE  WordsInv'
  <1> DEFINE d == worker[w]
  <1>1. /\ UNCHANGED <<fixed, deployed, page, request, own, lost, renewed, misfiled>>
        /\ d \in Work /\ d.task.kind = "verify" /\ d.task \in Task
    BY DEF JudgeWord, history, WordsInv, WordTypes, DoesItsTask, Work
  <1>2. CASE card = Nothing
    <2>1. card' = card /\ Ended(w)
      BY <1>2 DEF JudgeWord
    <2>2. WordTypes'
      BY <1>1, <2>1, TypedEnd, TypedAll DEF WordsInv, WordTypes, TypeOK, CardTyped
    <2>3. QED
      BY <1>1, <1>2, <2>1, <2>2, StepGone
  <1>3. CASE card # Nothing
    <2>1. PICK status \in {"rejected", "verified"} : card' = [card EXCEPT !.status = status]
      BY <1>3 DEF JudgeWord
    <2>2. Kept(card, card') /\ card'.question = card.question
          /\ card'.researched = card.researched
      BY <1>3, <2>1, CardOf DEF Kept, Card, CardFits, Baseline, MeaningNeedsReview
    <2>3. \/ Ended(w)
          \/ /\ worker' = [worker EXCEPT ![w].phase = "ask", ![w].before = card']
             /\ queue' = queue
      BY <1>3 DEF JudgeWord
    <2>4. CASE Ended(w)
      <3>1. WordTypes'
        BY <1>1, <2>2, <2>4, TypedEnd, TypedAll DEF WordsInv, WordTypes, TypeOK, CardTyped, Kept
      <3>2. ResearchTask(card.researched) \in queue => ResearchTask(card.researched) \in queue'
        BY <1>1, <2>4, OtherKinds DEF Ended
      <3>3. ResearchPursued'
        BY <1>1, <1>3, <2>2, <3>2, PursuitStands
      <3>4. \A u \in Workers : worker'[u] \in {worker[u], Nothing}
        BY <2>4 DEF Ended, WordsInv, WordTypes
      <3>5. QED
        BY <1>1, <1>3, <2>2, <3>1, <3>3, <3>4, AskedStill, StepKeeps
    <2>5. CASE /\ worker' = [worker EXCEPT ![w].phase = "ask", ![w].before = card']
               /\ queue' = queue
      <3>1. card' \in Card
        BY <2>2 DEF Kept
      <3>2. worker'[w] = [d EXCEPT !.phase = "ask", !.before = card']
            /\ \A u \in Workers \ {w} : worker'[u] = worker[u]
        BY <2>5 DEF WordsInv, WordTypes
      <3>3. /\ worker'[w] \in Work /\ worker'[w].phase = "ask" /\ worker'[w].before = card'
            /\ worker'[w].task = d.task
        BY <1>1, <3>1, <3>2 DEF Work, Phases
      <3>4. WorkersTyped
        BY <1>1, <2>5, <3>2, <3>3 DEF WorkersTyped, WordsInv, WordTypes, TypeOK, DoesItsTask
      <3>5. WordTypes'
        BY <1>1, <3>1, <3>4, TypedAll DEF WordsInv, WordTypes, TypeOK, CardTyped
      <3>6. ResearchPursued'
        BY <1>1, <1>3, <2>2, <2>5, PursuitStands
      <3>7. \A u \in Workers : worker'[u] = worker[u] \/ worker'[u].before = card'
        BY <3>2, <3>3
      <3>8. QED
        BY <1>1, <1>3, <2>2, <3>5, <3>6, <3>7, AskedStill, StepKeeps
    <2>6. QED
      BY <2>3, <2>4, <2>5
  <1>4. QED
    BY <1>2, <1>3

LEMMA QuestionKeeps ==
  ASSUME WordsInv, NEW w \in Workers, SaveQuestion(w)
  PROVE  WordsInv'
  <1> DEFINE d == worker[w]
  <1>1. /\ UNCHANGED <<fixed, deployed, page, request, own, lost, misfiled>>
        /\ d \in Work /\ d.task.kind = "verify" /\ d.task \in Task /\ Ended(w)
    BY DEF SaveQuestion, WordsInv, WordTypes, DoesItsTask, Work
  <1>2. renewed' \in {renewed, "asked"} /\ (renewed = "asked" => renewed' = "asked")
    BY DEF SaveQuestion
  <1>3. CASE card = Nothing
    <2>1. card' = card /\ renewed' = renewed
      BY <1>3 DEF SaveQuestion
    <2>2. WordTypes'
      BY <1>1, <2>1, TypedEnd, TypedAll DEF WordsInv, WordTypes, TypeOK, CardTyped
    <2>3. QED
      BY <1>1, <1>3, <2>1, <2>2, StepGone
  <1>4. CASE card # Nothing
    <2>1. \/ card' = card /\ renewed' = renewed
          \/ /\ card' = [card EXCEPT !.question = d.version, !.asks = Sense(d.before.gloss)]
             /\ card.gloss = d.before.gloss
             /\ renewed' # "replaced"
      BY <1>4 DEF SaveQuestion, QuestionFits
    <2>2. Kept(card, card') /\ card'.researched = card.researched
      <3>1. CASE card' = card
        BY <1>4, <3>1, CardOf
      <3>2. CASE /\ card' = [card EXCEPT !.question = d.version, !.asks = Sense(d.before.gloss)]
                 /\ card.gloss = d.before.gloss
        <4>1. d.version \in Nat /\ Sense(card.gloss) \in Senses
          BY <1>1, <1>4, CardOf DEF Work, Card, Glosses, Sense
        <4>2. card' \in Card
          BY <1>4, <3>2, <4>1, CardOf DEF Card
        <4>3. CardFits(card')
          BY <1>4, <3>2, CardOf DEF Card, CardFits, MeaningNeedsReview
        <4>4. QED
          BY <1>4, <3>2, <4>2, <4>3, CardOf DEF Kept, Card, Baseline, MeaningNeedsReview
      <3>3. QED
        BY <2>1, <3>1, <3>2
    <2>3. WordTypes'
      BY <1>1, <1>2, <2>2, TypedEnd, TypedAll DEF WordsInv, WordTypes, TypeOK, CardTyped, Kept
    <2>4. ResearchTask(card.researched) \in queue => ResearchTask(card.researched) \in queue'
      BY <1>1, OtherKinds DEF Ended
    <2>5. ResearchPursued'
      BY <1>1, <1>4, <2>2, <2>4, PursuitStands
    <2>6. \A u \in Workers : worker'[u] \in {worker[u], Nothing}
      BY <1>1 DEF Ended, WordsInv, WordTypes
    <2>7. /\ renewed' = "replaced" => card'.question = 0
          /\ renewed' = "no" => renewed = "no"
          /\ misfiled' => renewed' = "asked"
      BY <1>1, <1>2, <1>4, <2>1, AskedStill
    <2>8. QED
      BY <1>1, <1>4, <2>2, <2>3, <2>5, <2>6, <2>7, StepKeeps
  <1>5. QED
    BY <1>3, <1>4

LEMMA CleanKeeps ==
  ASSUME WordsInv, NEW w \in Workers, Clean(w)
  PROVE  WordsInv'
  <1> DEFINE d == worker[w]
  <1>1. /\ UNCHANGED <<fixed, deployed, page, request, own, lost, renewed, misfiled>>
        /\ d \in Work /\ d.task \in Task /\ d.task.kind = "meaning" /\ d.before \in Card
        /\ d.version \in Versions /\ d.seen \in SUBSET Nat
        /\ NextMeaning(w, d.task, d.version, d.seen, card')
    BY DEF Clean, history, WordsInv, WordTypes, DoesItsTask, Work
  <1>2. \/ card' = FailMeaning(card, d.before, d.version)
        \/ \E m \in Wordings :
             card' = SaveMeaning(card, d.before, <<Sense(d.before.gloss), m>>, d.version)
    BY DEF Clean
  <1>3. CASE card = Nothing
    <2>1. card' = Nothing
      BY <1>2, <1>3 DEF FailMeaning, SaveMeaning, SameRevision
    <2>2. WorkersTyped
      BY <1>1, <2>1, NextMeaningTyped DEF WordsInv, WorkersTyped
    <2>3. WordTypes'
      BY <1>1, <2>1, <2>2, TypedAll DEF WordsInv, WordTypes, TypeOK, CardTyped
    <2>4. QED
      BY <1>1, <2>1, <2>3, StepGone
  <1>4. CASE card # Nothing
    <2>1. Kept(card, card')
      <3>1. CASE card' = FailMeaning(card, d.before, d.version)
        <4>1. \E m \in Wordings : TRUE
          BY <1>1 DEF Card, Glosses
        <4>2. QED
          BY <1>1, <1>4, <3>1, <4>1, CardOf, KeptByClean
      <3>2. ASSUME NEW m \in Wordings,
                   card' = SaveMeaning(card, d.before, <<Sense(d.before.gloss), m>>, d.version)
            PROVE  Kept(card, card')
        BY <1>1, <1>4, <3>2, CardOf, KeptByClean
      <3>3. QED
        BY <1>2, <3>1, <3>2
    <2>2. /\ card'.researched = card.researched /\ card'.question = card.question
      <3>1. \/ card' = card
            \/ card' = [card EXCEPT !.meaning = "failed"]
            \/ \E m \in Wordings :
                 card' = Cleaned(card, <<Sense(d.before.gloss), m>>, d.version)
        BY <1>2 DEF FailMeaning, SaveMeaning
      <3>2. QED
        BY <1>4, <3>1, CardOf DEF Card, Cleaned, Confirmed
    <2>3. card' \in Card
      BY <2>1 DEF Kept
    <2>4. WorkersTyped
      BY <1>1, <2>3, NextMeaningTyped DEF WordsInv, WorkersTyped
    <2>5. WordTypes'
      BY <1>1, <2>3, <2>4, TypedAll DEF WordsInv, WordTypes, TypeOK, CardTyped
    <2>6. \A u \in Workers : worker'[u] \in {worker[u], Nothing} \/ worker'[u].before = card'
      BY <1>1 DEF NextMeaning, WordsInv, WordTypes
    <2>7. ResearchTask(card.researched) \in queue => ResearchTask(card.researched) \in queue'
      BY <1>1, OtherKinds DEF NextMeaning
    <2>8. ResearchPursued'
      BY <1>1, <1>4, <2>1, <2>2, <2>7, PursuitStands
    <2>9. QED
      BY <1>1, <1>4, <2>1, <2>2, <2>5, <2>6, <2>8, AskedStill, StepKeeps
  <1>5. QED
    BY <1>3, <1>4

LEMMA ResearchKeeps ==
  ASSUME WordsInv, NEW w \in Workers, Research(w)
  PROVE  WordsInv'
  <1> DEFINE d == worker[w]
  <1>1. /\ UNCHANGED <<fixed, deployed, page, request, own, lost, renewed, misfiled>>
        /\ d \in Work /\ d # Nothing /\ d.phase = "research" /\ d.before \in Card
        /\ d.task = ResearchTask(d.before.researched) /\ Ended(w)
    BY DEF Research, history, WordsInv, WordTypes, DoesItsTask, Work
  <1>2. PICK g \in Glosses \cup {Nothing} : card' = FinishResearch(card, d.before, g)
    BY DEF Research
  <1>3. CASE card = Nothing
    <2>1. card' = Nothing
      BY <1>2, <1>3 DEF FinishResearch
    <2>2. WordTypes'
      BY <1>1, <2>1, TypedEnd, TypedAll DEF WordsInv, WordTypes, TypeOK, CardTyped
    <2>3. QED
      BY <1>1, <2>1, <2>2, StepGone
  <1>4. CASE card # Nothing
    <2>1. Kept(card, card')
      BY <1>1, <1>2, <1>4, CardOf, KeptByResearch
    <2>2. card'.researched = card.researched /\ card'.question = card.question
      BY <1>2, <1>4, CardOf DEF FinishResearch, Card
    <2>3. WordTypes'
      BY <1>1, <2>1, TypedEnd, TypedAll DEF WordsInv, WordTypes, TypeOK, CardTyped, Kept
    <2>4. \A u \in Workers : worker'[u] \in {worker[u], Nothing}
      BY <1>1 DEF Ended, WordsInv, WordTypes
    <2>5. ResearchTask(card.researched) \in queue =>
             \/ ResearchTask(card.researched) \in queue'
             \/ card'.research # "pending" \/ MeaningNeedsReview(card')
      <3>1. CASE card' = card
        <4>1. CASE d.before.researched = card.researched
          BY <1>1, <1>2, <1>4, <3>1, <4>1, CardOf, KeptByResearch DEF WordsInv, ResearchKnown
        <4>2. CASE d.before.researched # card.researched
          <5>1. ResearchTask(card.researched) # d.task
            BY <1>1, <4>2 DEF ResearchTask
          <5>2. QED
            BY <1>1, <5>1 DEF Ended
        <4>3. QED
          BY <4>1, <4>2
      <3>2. CASE card' # card
        BY <1>1, <1>2, <1>4, <3>2, CardOf, KeptByResearch
      <3>3. QED
        BY <3>1, <3>2
    <2>6. ResearchPursued'
      BY <1>1, <1>4, <2>1, <2>2, <2>5, PursuitStands
    <2>7. QED
      BY <1>1, <1>4, <2>1, <2>2, <2>3, <2>4, <2>6, AskedStill, StepKeeps
  <1>5. QED
    BY <1>3, <1>4

LEMMA FailKeeps ==
  ASSUME WordsInv, NEW w \in Workers, Fail(w)
  PROVE  WordsInv'
  <1> DEFINE d == worker[w]
  <1>1. /\ UNCHANGED <<fixed, card, deployed, page, request, own, renewed, misfiled>>
        /\ d \in Work /\ d.task \in Task
        /\ worker' = [worker EXCEPT ![w] = Nothing]
        /\ \/ queue' = queue /\ lost' = lost
           \/ /\ queue' = queue \ {d.task}
              /\ lost' = IF d.task.kind = "research" THEN lost \cup {d.task.arg} ELSE lost
    BY DEF Fail, WordsInv, WordTypes, Work
  <1>2. WorkersTyped
    BY <1>1, EndedTyped DEF WorkersTyped, WordsInv, WordTypes, TypeOK
  <1>3. WordTypes'
    BY <1>1, <1>2, TypedAll DEF WordsInv, WordTypes, TypeOK, CardTyped
  <1>4. CASE card = Nothing
    BY <1>1, <1>3, <1>4, StepGone
  <1>5. CASE card # Nothing
    <2>1. ResearchTask(card.researched) \in queue =>
             ResearchTask(card.researched) \in queue' \/ card.researched \in lost'
      BY <1>1, OtherKinds
    <2>2. lost \subseteq lost'
      BY <1>1
    <2>3. ResearchPursued'
      BY <1>1, <1>5, <2>1, <2>2, CardOf, PursuitStands
    <2>4. \A u \in Workers : worker'[u] \in {worker[u], Nothing}
      BY <1>1 DEF WordsInv, WordTypes
    <2>5. QED
      BY <1>1, <1>3, <1>5, <2>3, <2>4, CardOf, AskedStill, StepKeeps
  <1>6. QED
    BY <1>4, <1>5

LEMMA EnqueueKeeps ==
  ASSUME NEW all, Enqueue(all)
  PROVE  /\ queue \subseteq queue' /\ lost \subseteq lost'
         /\ "research" \in followed.what =>
              \A t \in all : t.kind = "research" => t \in queue' \/ t.arg \in lost'
  BY DEF Enqueue

LEMMA VisitKeeps ==
  ASSUME WordsInv, NEW v \in Versions, Visit(v)
  PROVE  WordsInv'
  <1> DEFINE c == StartMeaningCleanup(card, v)
             all == {t \in {VerifyTask(v)} : \/ c.status = "pending"
                                             \/ c.status = "verified" /\ ~ QuestionReady(c, v)}
                    \cup {t \in {MeaningTask(v)} : c.meaning = "pending"}
  <1>1. /\ UNCHANGED <<fixed, deployed, request, worker, own, renewed, misfiled>>
        /\ card # Nothing /\ card' = c /\ Shown(c) /\ Enqueue(all)
    BY DEF Visit
  <1>2. Kept(card, card')
    BY <1>1, CardOf, KeptByStart
  <1>3. card'.researched = card.researched /\ card'.question = card.question
    BY <1>1, CardOf DEF StartMeaningCleanup, Card
  <1>4. page' \in {page, card'}
    BY <1>1 DEF Shown
  <1>5. all \subseteq Task
    BY TasksTyped
  <1>6. WorkersTyped
    <2> HIDE DEF all
    <2>1. queue' \subseteq Task
      BY <1>1, <1>5, EnqueueTyped DEF WordsInv, WordTypes, TypeOK
    <2>2. QED
      BY <1>1, <2>1 DEF WorkersTyped, WordsInv, WordTypes
  <1>7. WordTypes'
    BY <1>1, <1>2, <1>4, <1>6, TypedAll DEF WordsInv, WordTypes, TypeOK, CardTyped, Kept
  <1>8. queue \subseteq queue' /\ lost \subseteq lost'
    BY <1>1, EnqueueKeeps
  <1>9. ResearchPursued'
    BY <1>1, <1>2, <1>3, <1>8, PursuitStands
  <1>10. QED
    BY <1>1, <1>2, <1>3, <1>4, <1>7, <1>9, AskedStill, StepKeeps

(* A step of the learner that changes nothing of the jobs.                 *)
LEMMA TypedStep ==
  ASSUME WordsInv, UNCHANGED <<fixed, deployed, worker, misfiled>>, queue' \subseteq Task,
         own' \in Glosses, renewed' \in {"no", "replaced", "asked"},
         card' \in Card \cup {Nothing}, page' \in {page, card'},
         request' \in Request \cup {Nothing}
  PROVE  WordTypes'
  <1>1. WorkersTyped
    BY DEF WorkersTyped, WordsInv, WordTypes
  <1>2. QED
    BY <1>1, TypedAll DEF WordsInv, WordTypes, TypeOK, CardTyped

LEMMA CleanedKeeps ==
  ASSUME WordsInv, SelectCleaned
  PROVE  WordsInv'
  <1>1. /\ UNCHANGED <<fixed, deployed, request, queue, worker, lost, renewed, misfiled>>
        /\ card # Nothing /\ page # Nothing /\ card' = Confirmed(card, card.target)
        /\ page' \in {page, card'} /\ own' = page.gloss
        /\ card.revision = page.revision /\ page.meaning = "done" /\ card.meaning = "done"
    BY DEF SelectCleaned, AcceptCleaned, Shown
  <1>2. card \in Card /\ CardFits(card) /\ page \in Card
    BY <1>1, CardOf DEF WordsInv, WordTypes, TypeOK
  <1>3. /\ card' \in Card
        /\ card'.meaning = "confirmed" /\ card'.research = "confirmed"
        /\ card'.previous = Nothing /\ card'.gloss = card.gloss
        /\ card'.revision = card.revision /\ card'.researched = card.researched
        /\ card'.question = card.question /\ card'.asks = card.asks
    BY <1>1, <1>2 DEF Card, Confirmed
  <1>4. card.gloss = page.gloss
    BY <1>1 DEF WordsInv, PageStands
  <1>5. CardFits(card') /\ OriginalKept'
    BY <1>1, <1>2, <1>3, <1>4 DEF CardFits, OriginalKept, Baseline
  <1>6. PageStands'
    BY <1>1, <1>2, <1>3, <1>4 DEF PageStands, Card
  <1>7. AskedOfTheCard'
    <2>1. CASE page' = page
      BY <1>1, <1>3, <2>1 DEF WordsInv, AskedOfTheCard
    <2>2. CASE page' = card'
      BY <1>1, <1>3, <1>5, <2>2 DEF WordsInv, AskedOfTheCard, CardFits
    <2>3. QED
      BY <1>1, <2>1, <2>2
  <1>8. ResearchKnown' /\ ResearchPursued'
    BY <1>1, <1>3 DEF WordsInv, ResearchKnown, ResearchPursued
  <1>9. WordTypes'
    BY <1>1, <1>2, <1>3, TypedStep DEF WordsInv, WordTypes, TypeOK, Card
  <1>10. RequestStands'
    BY <1>1 DEF WordsInv, RequestStands, fixed
  <1>11. QED
    BY <1>1, <1>5, <1>6, <1>7, <1>8, <1>9, <1>10 DEF WordsInv

(* After a new revision no page says anything of the card but the answer.  *)
LEMMA PageBehind ==
  ASSUME card \in Card, page \in Card, card' \in Card, page' \in {page, card'},
         page.revision <= card.revision, card'.revision = card.revision + 1
  PROVE  PageStands'
  <1>1. card.revision \in Nat /\ page.revision \in Nat /\ card'.revision \in Nat
    BY DEF Card
  <1>2. page.revision <= card'.revision /\ page.revision # card'.revision
    BY <1>1
  <1>3. CASE page' = page
    BY <1>2, <1>3 DEF PageStands
  <1>4. CASE page' = card'
    BY <1>1, <1>4 DEF PageStands
  <1>5. QED
    BY <1>3, <1>4

LEMMA OriginalKeeps ==
  ASSUME WordsInv, NEW v \in Versions, SelectOriginal(v)
  PROVE  WordsInv'
  <1>1. /\ UNCHANGED <<fixed, deployed, request, worker, renewed, misfiled>>
        /\ card # Nothing /\ page # Nothing
        /\ card' = [card EXCEPT !.gloss = Baseline(card), !.previous = Nothing,
                               !.meaning = "pending", !.target = v, !.revision = @ + 1]
        /\ page' \in {page, card'} /\ own' = Baseline(page)
        /\ card.revision = page.revision /\ card.meaning \in {"done", "failed"}
        /\ Enqueue({MeaningTask(v)})
    BY DEF SelectOriginal, Shown
  <1>2. card \in Card /\ CardFits(card) /\ page \in Card
    BY <1>1, CardOf DEF WordsInv, WordTypes, TypeOK
  <1>3. Baseline(card) \in Glosses /\ Baseline(page) \in Glosses
        /\ Sense(Baseline(card)) = Sense(card.gloss)
    BY <1>2, BaselineIsGloss DEF CardFits, Baseline
  <1>4. Baseline(page) = Baseline(card) /\ page.revision <= card.revision
    BY <1>1 DEF WordsInv, PageStands
  <1>5. /\ card' \in Card
        /\ card'.meaning = "pending" /\ card'.previous = Nothing
        /\ card'.gloss = Baseline(card) /\ card'.revision = card.revision + 1
        /\ card'.researched = card.researched /\ card'.research = card.research
        /\ card'.offer = card.offer
        /\ card'.question = card.question /\ card'.asks = card.asks
    <2>1. v \in Nat
      OBVIOUS
    <2>2. card.revision + 1 \in Nat
      BY <1>2 DEF Card
    <2> DEFINE g == Baseline(card)
    <2>3. g \in Glosses
      BY <1>3
    <2>4. card' = [card EXCEPT !.gloss = g, !.previous = Nothing,
                               !.meaning = "pending", !.target = v, !.revision = @ + 1]
      BY <1>1
    <2> HIDE DEF g
    <2>5. card' \in Card
      BY <1>2, <2>1, <2>2, <2>3, <2>4 DEF Card
    <2>6. /\ card'.meaning = "pending" /\ card'.previous = Nothing
          /\ card'.gloss = g /\ card'.revision = card.revision + 1
          /\ card'.researched = card.researched /\ card'.research = card.research
          /\ card'.offer = card.offer
          /\ card'.question = card.question /\ card'.asks = card.asks
      BY <1>2, <2>4 DEF Card
    <2>7. QED
      BY <2>5, <2>6 DEF g
  <1>6. CardFits(card') /\ OriginalKept' /\ MeaningNeedsReview(card')
    BY <1>1, <1>2, <1>3, <1>4, <1>5 DEF CardFits, OriginalKept, Baseline, MeaningNeedsReview
  <1>7. PageStands'
    BY <1>1, <1>2, <1>4, <1>5, PageBehind
  <1>8. AskedOfTheCard'
    <2>1. CASE page' = page
      BY <1>1, <1>3, <1>5, <2>1 DEF WordsInv, AskedOfTheCard
    <2>2. CASE page' = card'
      BY <1>1, <1>3, <1>5, <1>6, <2>2 DEF WordsInv, AskedOfTheCard, CardFits
    <2>3. QED
      BY <1>1, <2>1, <2>2
  <1>9. ResearchKnown' /\ ResearchPursued'
    BY <1>1, <1>5, <1>6 DEF WordsInv, ResearchKnown, ResearchPursued
  <1>10. queue' \subseteq Task
    <2>1. {MeaningTask(v)} \subseteq Task
      BY TasksTyped
    <2>2. QED
      BY <1>1, <2>1, EnqueueTyped DEF WordsInv, WordTypes, TypeOK
  <1>11. WordTypes'
    BY <1>1, <1>3, <1>5, <1>10, TypedStep DEF WordsInv, WordTypes, TypeOK
  <1>12. RequestStands'
    BY <1>1 DEF WordsInv, RequestStands, fixed
  <1>13. QED
    BY <1>1, <1>6, <1>7, <1>8, <1>9, <1>11, <1>12 DEF WordsInv

LEMMA ReplacedKeeps ==
  ASSUME WordsInv, NEW v \in Versions, SelectResearch(v)
  PROVE  WordsInv'
  <1>1. /\ UNCHANGED <<fixed, deployed, request, queue, worker, lost, misfiled>>
        /\ card # Nothing /\ page # Nothing
        /\ card' = [card EXCEPT !.gloss = page.offer, !.status = "verified",
                     !.research = "unset", !.offer = Nothing, !.of = Nothing,
                     !.question = 0, !.asks = Nothing,
                     !.version = v, !.target = v, !.meaning = "confirmed",
                     !.previous = Nothing, !.revision = @ + 1]
        /\ page' \in {page, card'} /\ own' = page.offer
        /\ card.research = "done" /\ card.offer = page.offer
        /\ renewed' = IF renewed = "no" THEN "replaced" ELSE renewed
    BY DEF SelectResearch, Shown
  <1>2. card \in Card /\ CardFits(card) /\ page \in Card
    BY <1>1, CardOf DEF WordsInv, WordTypes, TypeOK
  <1>3. page.offer \in Glosses
    BY <1>1, <1>2 DEF CardFits, Card
  <1>4. /\ card' \in Card
        /\ card'.meaning = "confirmed" /\ card'.previous = Nothing
        /\ card'.gloss = page.offer /\ card'.revision = card.revision + 1
        /\ card'.researched = card.researched /\ card'.research = "unset"
        /\ card'.question = 0
    <2>1. v \in Nat
      OBVIOUS
    <2>2. card.revision + 1 \in Nat
      BY <1>2 DEF Card
    <2>3. card' \in Card
      BY <1>1, <1>2, <1>3, <2>1, <2>2 DEF Card
    <2>4. DOMAIN card = {"status", "gloss", "previous", "meaning", "version", "target",
                         "revision", "research", "researched", "offer", "of", "question",
                         "asks"}
      BY <1>2 DEF Card
    <2>5. /\ card'.meaning = "confirmed" /\ card'.previous = Nothing
          /\ card'.gloss = page.offer /\ card'.research = "unset" /\ card'.question = 0
      BY <1>1, <2>4
    <2>6. card'.revision = card.revision + 1 /\ card'.researched = card.researched
      BY <1>1, <2>4
    <2>7. QED
      BY <2>3, <2>5, <2>6
  <1>5. CardFits(card') /\ OriginalKept'
    BY <1>1, <1>4 DEF CardFits, OriginalKept, Baseline
  <1>6. PageStands'
    <2>1. page.revision <= card.revision
      BY <1>1 DEF WordsInv, PageStands
    <2>2. QED
      BY <1>1, <1>2, <1>4, <2>1, PageBehind
  <1>7. renewed' \in {"replaced", "asked"} /\ (renewed = "asked" => renewed' = "asked")
    BY <1>1 DEF WordsInv, WordTypes, TypeOK
  <1>8. AskedOfTheCard'
    BY <1>4, <1>7 DEF AskedOfTheCard
  <1>9. ResearchKnown' /\ ResearchPursued'
    BY <1>1, <1>4 DEF WordsInv, ResearchKnown, ResearchPursued
  <1>10. WordTypes'
    BY <1>1, <1>3, <1>4, <1>7, TypedStep DEF WordsInv, WordTypes, TypeOK
  <1>11. RequestStands'
    BY <1>1 DEF WordsInv, RequestStands, fixed
  <1>12. misfiled' => renewed' = "asked"
    BY <1>1, <1>7 DEF WordsInv
  <1>13. QED
    BY <1>5, <1>6, <1>8, <1>9, <1>10, <1>11, <1>12 DEF WordsInv

LEMMA CheckKeeps ==
  ASSUME WordsInv, CheckResearch \/ CheckConfirm \/ CheckReview
  PROVE  WordsInv'
  <1>1. /\ UNCHANGED <<fixed, card, deployed, page, queue, worker, own, lost, renewed,
                      misfiled>>
        /\ page # Nothing
        /\ request'.op = "review" => page.question > 0
        /\ request'.op = "research" => "research" \in followed.what
        /\ \E op \in {"research", "confirm", "review"} :
             request' = [op |-> op, question |-> page.question, asks |-> page.asks]
    BY DEF CheckResearch, CheckConfirm, CheckReview, Check
  <1>2. page \in Card
    BY <1>1 DEF WordsInv, WordTypes, TypeOK
  <1>3. /\ request' \in Request
        /\ request'.question = page.question /\ request'.asks = page.asks
    BY <1>1, <1>2 DEF Request, Card
  <1>4. WordTypes'
    BY <1>1, <1>3, TypedStep DEF WordsInv, WordTypes, TypeOK
  <1>5. AskedOfTheCard'
    BY <1>1, <1>3 DEF WordsInv, AskedOfTheCard
  <1>6. RequestStands'
    BY <1>1, <1>3 DEF RequestStands, fixed
  <1>7. OriginalKept' /\ PageStands' /\ ResearchKnown' /\ ResearchPursued'
    BY <1>1 DEF WordsInv, OriginalKept, PageStands, ResearchKnown, ResearchPursued
  <1>8. QED
    BY <1>1, <1>4, <1>5, <1>6, <1>7 DEF WordsInv

LEMMA StartKeeps ==
  ASSUME WordsInv, StartResearch
  PROVE  WordsInv'
  <1>1. /\ UNCHANGED <<fixed, deployed, page, worker, own, renewed, misfiled>>
        /\ request' = Nothing /\ "research" \in followed.what
    BY DEF StartResearch, WordsInv, RequestStands
  <1>2. CASE card = Nothing
    <2>1. card' = Nothing /\ queue' = queue
      BY <1>2 DEF StartResearch
    <2>2. WordTypes'
      BY <1>1, <2>1, TypedStep DEF WordsInv, WordTypes, TypeOK
    <2>3. QED
      BY <1>1, <2>1, <2>2, StepGone
  <1>3. CASE card # Nothing
    <2>1. card \in Card /\ CardFits(card)
      BY <1>3, CardOf
    <2>2. /\ Enqueue({ResearchTask(card'.researched)})
          /\ \/ card' = card
             \/ card' = [card EXCEPT !.research = "pending", !.researched = @ + 1,
                                    !.offer = Nothing, !.of = Nothing]
      BY <1>3 DEF StartResearch
    <2>3. Kept(card, card') /\ card'.question = card.question
      <3>1. CASE card' = card
        BY <2>1, <3>1, KeptItself
      <3>2. CASE card' = [card EXCEPT !.research = "pending", !.researched = @ + 1,
                                      !.offer = Nothing, !.of = Nothing]
        <4>1. card.researched + 1 \in Nat
          BY <2>1 DEF Card
        <4>2. /\ card' \in Card /\ card'.research = "pending"
              /\ card'.researched = card.researched + 1
              /\ \A x \in {"gloss", "previous", "meaning", "revision", "question", "asks"} :
                   card'[x] = card[x]
          BY <2>1, <3>2, <4>1 DEF Card
        <4>3. CardFits(card') /\ Baseline(card') = Baseline(card)
          BY <2>1, <4>2 DEF CardFits, Baseline
        <4>4. QED
          BY <2>1, <4>2, <4>3 DEF Kept, Card
      <3>3. QED
        BY <2>2, <3>1, <3>2
    <2>4. card' \in Card /\ card'.researched \in Nat
      BY <2>3 DEF Kept, Card
    <2>5. queue' \subseteq Task
      <3>1. {ResearchTask(card'.researched)} \subseteq Task
        BY <2>4, TasksTyped
      <3>2. QED
        BY <2>2, <3>1, EnqueueTyped DEF WordsInv, WordTypes, TypeOK
    <2>6. WordTypes'
      BY <1>1, <2>4, <2>5, TypedStep DEF WordsInv, WordTypes, TypeOK
    <2>7. ResearchTask(card'.researched) \in queue' \/ card'.researched \in lost'
      <3>1. ResearchTask(card'.researched).kind = "research"
            /\ ResearchTask(card'.researched).arg = card'.researched
        BY DEF ResearchTask
      <3>2. QED
        BY <1>1, <2>2, <3>1, EnqueueKeeps
    <2>8. ResearchPursued'
      BY <2>7 DEF ResearchPursued
    <2>9. QED
      BY <1>1, <1>3, <2>3, <2>6, <2>8, AskedStill, StepKeeps
  <1>4. QED
    BY <1>2, <1>3

LEMMA ConfirmKeeps ==
  ASSUME WordsInv, ConfirmResearch
  PROVE  WordsInv'
  <1>1. /\ UNCHANGED <<fixed, deployed, page, queue, worker, own, lost, renewed, misfiled>>
        /\ request' = Nothing
    BY DEF ConfirmResearch, history
  <1>2. CASE card' = Nothing
    <2>1. WordTypes'
      BY <1>1, <1>2, TypedStep DEF WordsInv, WordTypes, TypeOK
    <2>2. QED
      BY <1>1, <1>2, <2>1, StepGone
  <1>3. CASE /\ card # Nothing
             /\ card' = [card EXCEPT !.status = "verified", !.research = "confirmed",
                                    !.offer = Nothing, !.of = Nothing]
    <2>1. card \in Card /\ CardFits(card)
      BY <1>3, CardOf
    <2>2. /\ card' \in Card /\ card'.research = "confirmed"
          /\ \A x \in {"gloss", "previous", "meaning", "revision", "researched", "question",
                       "asks"} : card'[x] = card[x]
      BY <1>3, <2>1 DEF Card
    <2>3. CardFits(card') /\ Baseline(card') = Baseline(card)
      BY <2>1, <2>2 DEF CardFits, Baseline
    <2>4. Kept(card, card')
      BY <2>1, <2>2, <2>3 DEF Kept, Card
    <2>5. WordTypes'
      BY <1>1, <2>2, TypedStep DEF WordsInv, WordTypes, TypeOK
    <2>6. ResearchPursued'
      BY <2>2 DEF ResearchPursued
    <2>7. QED
      BY <1>1, <1>3, <2>2, <2>4, <2>5, <2>6, AskedStill, StepKeeps
  <1>4. QED
    BY <1>2, <1>3 DEF ConfirmResearch

(* An answer is counted for another question than the one that was shown   *)
(* only of a card that was replaced, and has a question since.             *)
LEMMA ReviewKeeps ==
  ASSUME WordsInv, Review
  PROVE  WordsInv'
  <1>1. /\ UNCHANGED <<fixed, card, deployed, page, queue, worker, own, lost, renewed>>
        /\ request' = Nothing
        /\ misfiled' \in BOOLEAN
        /\ misfiled' => \/ misfiled
                       \/ /\ request # Nothing /\ request.op = "review" /\ card # Nothing
                          /\ card.question >= request.question
                          /\ request.asks # Sense(card.gloss)
    BY DEF Review, WordsInv, WordTypes, TypeOK
  <1>2. misfiled' => renewed = "asked"
    <2>1. ASSUME request # Nothing, request.op = "review", card # Nothing,
                 card.question >= request.question, request.asks # Sense(card.gloss)
          PROVE  renewed = "asked"
      <3>1. request.question > 0 /\ request.question \in Nat
        BY <2>1 DEF WordsInv, RequestStands, WordTypes, Request
      <3>2. renewed # "no" /\ (renewed = "replaced" => card.question = 0)
        BY <2>1 DEF WordsInv, AskedOfTheCard
      <3>3. QED
        BY <2>1, <3>1, <3>2 DEF WordsInv, WordTypes, TypeOK
    <2>2. QED
      BY <1>1, <2>1 DEF WordsInv
  <1>3. WordTypes'
    <2>1. WorkersTyped
      BY <1>1, TypedWork DEF WordsInv
    <2>2. QED
      BY <1>1, <2>1, TypedAll DEF WordsInv, WordTypes, TypeOK, CardTyped
  <1>4. RequestStands'
    BY <1>1 DEF RequestStands
  <1>5. /\ OriginalKept' /\ PageStands' /\ AskedOfTheCard'
        /\ ResearchKnown' /\ ResearchPursued'
    BY <1>1 DEF WordsInv, OriginalKept, PageStands, AskedOfTheCard, ResearchKnown,
                ResearchPursued
  <1>6. QED
    BY <1>1, <1>2, <1>3, <1>4, <1>5 DEF WordsInv

LEMMA DeleteKeeps ==
  ASSUME WordsInv, Delete
  PROVE  WordsInv'
  <1>1. /\ UNCHANGED <<fixed, deployed, page, request, queue, worker, own, renewed, misfiled>>
        /\ card' = Nothing
    BY DEF Delete, history
  <1>2. WordTypes'
    BY <1>1, TypedStep DEF WordsInv, WordTypes, TypeOK
  <1>3. QED
    BY <1>1, <1>2, StepGone

LEMMA DeploymentKeeps ==
  ASSUME WordsInv, NEW v \in Versions, Deploy(v) \/ Retire(v)
  PROVE  WordsInv'
  <1>1. /\ UNCHANGED <<fixed, card, page, request, queue, worker, own, lost, renewed, misfiled>>
        /\ deployed' \subseteq Versions
    BY DEF Deploy, Retire, history, WordsInv, WordTypes, TypeOK
  <1>2. WordTypes'
    <2>1. WorkersTyped
      BY <1>1, TypedWork DEF WordsInv
    <2>2. QED
      BY <1>1, <2>1, TypedAll DEF WordsInv, WordTypes, TypeOK, CardTyped
  <1>3. /\ OriginalKept' /\ PageStands' /\ AskedOfTheCard'
        /\ ResearchKnown' /\ ResearchPursued' /\ RequestStands'
    BY <1>1 DEF WordsInv, OriginalKept, PageStands, AskedOfTheCard, ResearchKnown,
                ResearchPursued, RequestStands, fixed
  <1>4. QED
    BY <1>1, <1>2, <1>3 DEF WordsInv

LEMMA WordsInit ==
  ASSUME Init
  PROVE  WordsInv
  <1>1. PICK g \in Glosses, v \in Versions :
          /\ deployed = {v} /\ own = g
          /\ card = [status |-> IF "verify" \in followed.what THEN "pending" ELSE "verified",
                     gloss |-> g, previous |-> Nothing,
                     meaning |-> "unset", version |-> 0, target |-> 0, revision |-> 0,
                     research |-> "unset", researched |-> 0, offer |-> Nothing, of |-> Nothing,
                     question |-> IF "verify" \in followed.what THEN 0 ELSE v,
                     asks |-> IF "verify" \in followed.what THEN Nothing ELSE Sense(g)]
          /\ queue \in SUBSET {t \in {VerifyTask(v)} : "verify" \in followed.what}
          /\ \/ twins = {} /\ taken \in {{}} \cup {{h} : h \in Glosses \ {g}}
             \/ twins = {g} /\ taken = {}
    BY DEF Init
  <1>2. /\ page = card /\ request = Nothing /\ worker = [w \in Workers |-> Nothing]
        /\ renewed = "no" /\ misfiled = FALSE
    BY DEF Init
  <1>3. v \in Nat /\ VerifyTask(v) \in Task
    BY TasksTyped
  <1>4. Sense(g) \in Senses
    BY DEF Sense, Glosses
  <1>5. /\ card \in Card /\ card.gloss = g /\ card.previous = Nothing
        /\ card.meaning = "unset" /\ card.research = "unset"
        /\ card.question > 0 => card.asks = Sense(g)
    <2>1. CASE "verify" \in followed.what
      BY <1>1, <1>3, <2>1 DEF Card
    <2>2. CASE "verify" \notin followed.what
      BY <1>1, <1>3, <1>4, <2>2 DEF Card
    <2>3. QED
      BY <2>1, <2>2
  <1>6. CardFits(card) /\ OriginalKept
    BY <1>1, <1>5 DEF CardFits, OriginalKept, Baseline
  <1>7. PageStands /\ AskedOfTheCard /\ ResearchKnown /\ ResearchPursued /\ RequestStands
    BY <1>2, <1>5 DEF PageStands, AskedOfTheCard, ResearchKnown, ResearchPursued, RequestStands,
                      Card
  <1>8. WordTypes
    <2>1. taken \subseteq Glosses /\ twins \subseteq Glosses
      BY <1>1
    <2>2. queue \subseteq Task
      BY <1>1, <1>3
    <2>3. QED
      BY <1>1, <1>2, <1>5, <2>1, <2>2 DEF WordTypes, TypeOK
  <1>9. QED
    BY <1>2, <1>6, <1>7, <1>8 DEF WordsInv

LEMMA WordsNext ==
  ASSUME WordsInv, [Next]_vars
  PROVE  WordsInv'
  <1>1. CASE UNCHANGED vars
    BY <1>1 DEF vars, fixed, history, WordsInv, WordTypes, TypeOK, OriginalKept, PageStands,
                AskedOfTheCard, ResearchKnown, ResearchPursued, RequestStands
  <1>2. CASE \E v \in Versions : Deploy(v) \/ Retire(v)
    BY <1>2, DeploymentKeeps
  <1>3. ASSUME NEW w \in Workers, NEW t \in queue, NEW v \in Versions,
               TakeVerify(w, t, v) \/ TakeMeaning(w, t, v) \/ TakeResearch(w, t, v)
        PROVE  WordsInv'
    BY <1>3, TakeKeeps
  <1>4. ASSUME NEW w \in Workers,
               JudgeWord(w) \/ SaveQuestion(w) \/ Clean(w) \/ Research(w) \/ Fail(w)
        PROVE  WordsInv'
    BY <1>4, JudgeKeeps, QuestionKeeps, CleanKeeps, ResearchKeeps, FailKeeps
  <1>5. ASSUME NEW v \in Versions, Visit(v) \/ SelectOriginal(v) \/ SelectResearch(v)
        PROVE  WordsInv'
    BY <1>5, VisitKeeps, OriginalKeeps, ReplacedKeeps
  <1>6. CASE \/ SelectCleaned \/ CheckResearch \/ CheckConfirm \/ CheckReview
             \/ StartResearch \/ ConfirmResearch \/ Review \/ Delete
    BY <1>6, CleanedKeeps, CheckKeeps, StartKeeps, ConfirmKeeps, ReviewKeeps, DeleteKeeps
  <1>7. QED
    BY <1>1, <1>2, <1>3, <1>4, <1>5, <1>6 DEF Next

-----------------------------------------------------------------------------
(* The card, its page, its jobs and its requests are what they are said to *)
(* be, after any steps of replicas of any versions.                        *)
THEOREM WordsInvariant == Spec => []WordsInv
  BY WordsInit, WordsNext, PTL DEF Spec

THEOREM WordsTyped == Spec => []TypeOK
  <1>1. WordsInv => TypeOK
    BY DEF WordsInv, WordTypes
  <1>2. QED
    BY <1>1, WordsInvariant, PTL

(* Whatever a cleaning proposes and however late, the gloss the learner    *)
(* chose is the card's or the one kept for a refusal (SaveMeaning,         *)
(* SelectMeaning and SelectResearch in wordreview/mysql.go).               *)
THEOREM LearnersGloss == Spec => []OriginalKept
  <1>1. WordsInv => OriginalKept
    BY DEF WordsInv
  <1>2. QED
    BY <1>1, WordsInvariant, PTL

(* Results offered, the question asked and an answer counted are of the    *)
(* gloss the card has, unless it was replaced and asked about since.       *)
THEOREM DerivedOfGloss == Spec => []DerivedFits
  <1>1. WordsInv => DerivedFits
    BY DEF WordsInv, CardFits, DerivedFits
  <1>2. QED
    BY <1>1, WordsInvariant, PTL

(* Research that the page waits for has its job, or a fault took it.       *)
THEOREM ResearchHasJob == Spec => []ResearchPursued
  <1>1. WordsInv => ResearchPursued
    BY DEF WordsInv
  <1>2. QED
    BY <1>1, WordsInvariant, PTL
=============================================================================
