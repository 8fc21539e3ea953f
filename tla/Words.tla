-------------------------------- MODULE Words --------------------------------
(***************************************************************************)
(* One card of a learner's vocabulary (wordreview/*.go) and everything     *)
(* that writes it: the jobs that verify a word, write its review question, *)
(* clean its meaning and research it (transport/word_*_job.go), and the    *)
(* requests of the learner, who decides on a page that may be stale        *)
(* (httpserver/words_*.go).                                                *)
(*                                                                         *)
(* A gloss is a sense, which the word and its example stand for too, in a  *)
(* wording: cleaning changes the wording only.  Every statement on the row *)
(* is one action.  Replicas are of the versions deployed, which stand for  *)
(* CurrentMeaningVersion and CurrentQuestionVersion alike.  The durable    *)
(* queue is the one of JobQueue, reduced to its deduplication and to       *)
(* at-least-once delivery.                                                 *)
(***************************************************************************)
EXTENDS Integers, FiniteSets

CONSTANTS
  Senses, Wordings,
  Versions,      \* contracts of the binaries that are deployed in turn
  Optimization,  \* MeaningOptimizationVersion
  Workers,       \* jobs that run at a time
  Scenarios,     \* bound: what is followed in one behaviour: jobs of some
                 \* kinds, a deployment, several tabs, how many requests of the learner,
                 \* and how many faults: enqueues and attempts that fail,
                 \* claims lost, jobs given up
  Nothing        \* no row, no page, no earlier gloss, no job

VARIABLES
  followed,  \* one of the Scenarios
  card,      \* the buddy_word_reviews row; "unset" is the empty string
  taken,     \* glosses of the learner's other cards
  twins,     \* those of cards whose word only differs in its spelling
  deployed,  \* versions that run
  page,      \* the card as the learner's page shows it
  request,   \* a request between its check and its write
  queue,     \* jobs enqueued and not ended
  worker,    \* what each worker does
  own,       \* history: the gloss that the learner chose, as it was shown
  lost,      \* history: revisions whose research was lost to a fault
  renewed,   \* history: whether the card was replaced, and asked about since
  misfiled,  \* history: an answer was recorded for a question of another sense
  requests, faults

history == <<own, lost, renewed, misfiled, requests, faults>>
fixed == <<followed, taken, twins>>
vars == <<fixed, card, deployed, page, request, queue, worker, history>>

Glosses == Senses \X Wordings
Sense(gloss) == gloss[1]

Card == [status : {"pending", "verified", "rejected"},
         gloss : Glosses, previous : Glosses \cup {Nothing},
         meaning : {"unset", "pending", "done", "failed", "confirmed"},
         version : Nat, target : Nat, revision : Nat,
         research : {"unset", "pending", "done", "failed", "confirmed"}, researched : Nat,
         offer : Glosses \cup {Nothing}, of : Glosses \cup {Nothing},
         question : Nat, asks : Senses \cup {Nothing}]

ASSUME WordsAssumption ==
  /\ Versions \subseteq Nat /\ Optimization \in Nat
  /\ Nothing \notin Senses \cup Glosses \cup Card

Task == [kind : {"verify", "meaning", "research"}, arg : Nat]
Phases == {"judge", "ask", "clean", "research"}

VerifyTask(v) == [kind |-> "verify", arg |-> v]
MeaningTask(v) == [kind |-> "meaning", arg |-> v]
ResearchTask(r) == [kind |-> "research", arg |-> r]

MeaningNeedsReview(c) == c.meaning \in {"pending", "done", "failed"}
QuestionReady(c, v) == c.question >= v

(* The gloss the learner had before a cleaning proposed another. *)
Baseline(c) == IF c.previous = Nothing THEN c.gloss ELSE c.previous

-----------------------------------------------------------------------------
(* A word just saved, whose verification is enqueued or failed to be; or   *)
(* one that was verified, with its question.  The page shows it.           *)
Init ==
  /\ followed \in Scenarios
  /\ \E g \in Glosses, v \in Versions :
       /\ \A u \in Versions : IF "deploy" \in followed.what THEN v <= u ELSE u <= v
       /\ deployed = {v}
       /\ card = [status |-> IF "verify" \in followed.what THEN "pending" ELSE "verified",
                  gloss |-> g, previous |-> Nothing,
                  meaning |-> "unset", version |-> 0, target |-> 0, revision |-> 0,
                  research |-> "unset", researched |-> 0, offer |-> Nothing, of |-> Nothing,
                  question |-> IF "verify" \in followed.what THEN 0 ELSE v,
                  asks |-> IF "verify" \in followed.what THEN Nothing ELSE Sense(g)]
       /\ queue \in SUBSET {t \in {VerifyTask(v)} : "verify" \in followed.what}
       /\ own = g
       /\ \/ twins = {} /\ taken \in {{}} \cup {{h} : h \in Glosses \ {g}}
          \/ twins = {g} /\ taken = {}
  /\ page = card /\ request = Nothing
  /\ worker = [w \in Workers |-> Nothing]
  /\ lost = {} /\ renewed = "no" /\ misfiled = FALSE
  /\ requests = 0 /\ faults = 0

Ask == requests < followed.requests /\ requests' = requests + 1
Fault == faults < followed.faults /\ faults' = faults + 1

(* A rolling deployment. *)
Deploy(v) ==
  /\ "deploy" \in followed.what
  /\ v \notin deployed /\ \A u \in deployed : u < v
  /\ deployed' = deployed \cup {v}
  /\ UNCHANGED <<fixed, card, page, request, queue, worker, history>>

Retire(v) ==
  /\ v \in deployed /\ \E u \in deployed : v < u
  /\ deployed' = deployed \ {v}
  /\ UNCHANGED <<fixed, card, page, request, queue, worker, history>>

(* EnqueueAndRunInBackground, whose error is logged. *)
Enqueue(all) ==
  LET tasks == {t \in all : t.kind \in followed.what} IN
  \/ queue' = queue \cup tasks /\ UNCHANGED <<lost, faults>>
  \/ /\ tasks # {} /\ Fault
     /\ lost' = lost \cup {t.arg : t \in {u \in tasks : u.kind = "research"}}
     /\ UNCHANGED queue

-----------------------------------------------------------------------------
(* The wordings of a card's meaning. *)

(* Cards that were never asked to be of this version. *)
StartMeaningCleanup(c, v) ==
  IF "meaning" \in followed.what /\ c.status = "verified" /\ c.version < v /\ c.target < v
  THEN [c EXCEPT !.meaning = "pending", !.target = v, !.revision = @ + 1]
  ELSE c

PendingMeaning(c, v) ==
  c # Nothing /\ c.status = "verified" /\ c.meaning = "pending"
    /\ c.version < v /\ c.target = v

SameRevision(c, before, v) ==
  /\ c # Nothing /\ c.meaning = "pending" /\ c.version < v
  /\ c.revision = before.revision /\ c.target = before.target

FailMeaning(c, before, v) ==
  IF SameRevision(c, before, v) THEN [c EXCEPT !.meaning = "failed"] ELSE c

Confirmed(c, v) ==
  [c EXCEPT !.meaning = "confirmed", !.version = v, !.previous = Nothing,
            !.research = "confirmed", !.offer = Nothing, !.of = Nothing]

(* Mutation of Cleaned: the last suggestion is kept, not the original. *)
CleanedTwice(c, g, v) == [c EXCEPT !.previous = c.gloss, !.gloss = g, !.meaning = "done"]

(* A new gloss awaits the learner's choice, unless it is what the learner  *)
(* had before any suggestion.                                              *)
Cleaned(c, g, v) ==
  IF v >= Optimization /\ Baseline(c) = g
  THEN Confirmed([c EXCEPT !.gloss = g], v)
  ELSE [c EXCEPT !.previous = Baseline(c), !.gloss = g, !.meaning = "done"]

(* A compare-and-swap.  A gloss that another card has is a failure. *)
SaveMeaning(c, before, g, v) ==
  IF /\ SameRevision(c, before, v) /\ c.status = "verified"
     /\ c.gloss = before.gloss /\ c.previous = before.previous
     /\ g \notin taken
  THEN Cleaned(c, g, v)
  ELSE FailMeaning(c, before, v)

-----------------------------------------------------------------------------
(* The jobs. *)
Doing(t, v, phase, seen) ==
  [task |-> t, version |-> v, phase |-> phase, before |-> card, seen |-> seen]

Ended(w) ==
  /\ worker' = [worker EXCEPT ![w] = Nothing]
  /\ queue' = queue \ {worker[w].task}

Go(w, t, v, phase, seen) ==
  /\ worker' = [worker EXCEPT ![w] = Doing(t, v, phase, seen)]
  /\ UNCHANGED queue

Skip(w, t) == queue' = queue \ {t} /\ UNCHANGED worker

(* A worker of some version takes a job; so does a second one when the     *)
(* first one's claim is lost.                                              *)
Take(w, t, v) ==
  /\ worker[w] = Nothing /\ t \in queue /\ v \in deployed
  /\ IF \E u \in Workers : worker[u] # Nothing /\ worker[u].task = t
     THEN Fault ELSE UNCHANGED faults

(* runWordVerify reads the card. *)
TakeVerify(w, t, v) ==
  /\ t.kind = "verify"
  /\ Take(w, t, v)
  /\ IF card = Nothing \/ card.status = "rejected" THEN Skip(w, t)
     ELSE IF card.status = "pending" THEN Go(w, t, v, "judge", {})
     ELSE IF t.arg # v \/ QuestionReady(card, v) THEN Skip(w, t)
     ELSE Go(w, t, v, "ask", {})
  /\ UNCHANGED <<fixed, card, deployed, page, request, own, lost, renewed,
                 misfiled, requests>>

(* MarkVerified or MarkRejected, whatever the status is by now.            *)
JudgeWord(w) ==
  LET d == worker[w] IN
  /\ d # Nothing /\ d.phase = "judge"
  /\ IF card = Nothing THEN Ended(w) /\ UNCHANGED card ELSE
       \/ card' = [card EXCEPT !.status = "rejected"] /\ Ended(w)
       \/ /\ card' = [card EXCEPT !.status = "verified"]
          /\ IF d.task.arg # d.version \/ QuestionReady(card, d.version)
             THEN Ended(w)
             ELSE /\ worker' = [worker EXCEPT ![w].phase = "ask", ![w].before = card']
                  /\ UNCHANGED queue
  /\ UNCHANGED <<fixed, deployed, page, request, history>>

(* Mutation of QuestionFits: the question is saved on the card's id alone. *)
QuestionOfCard(c, before) == TRUE

(* Workers supply the entry they read. *)
QuestionFits(c, before) == c.revision = before.revision /\ c.gloss = before.gloss

SaveQuestion(w) ==
  LET d == worker[w] IN
  /\ d # Nothing /\ d.phase = "ask"
  /\ IF card # Nothing /\ card.question < d.version /\ QuestionFits(card, d.before)
     THEN /\ card' = [card EXCEPT !.question = d.version, !.asks = Sense(d.before.gloss)]
          /\ renewed' = IF renewed = "replaced" THEN "asked" ELSE renewed
     ELSE UNCHANGED <<card, renewed>>
  /\ Ended(w)
  /\ UNCHANGED <<fixed, deployed, page, request, own, lost, misfiled, requests, faults>>

(* runWordMeaningCleanup goes on until no revision that it has not seen is *)
(* pending, so as to drain what the learner asks for meanwhile.            *)
NextMeaning(w, t, v, seen, c) ==
  IF PendingMeaning(c, v) /\ c.revision \notin seen
  THEN /\ worker' = [worker EXCEPT ![w] =
            [task |-> t, version |-> v, phase |-> "clean", before |-> c,
             seen |-> seen \cup {c.revision}]]
       /\ UNCHANGED queue
  ELSE /\ worker' = [worker EXCEPT ![w] = Nothing]
       /\ queue' = queue \ {t}

TakeMeaning(w, t, v) ==
  /\ t.kind = "meaning"
  /\ Take(w, t, v)
  /\ NextMeaning(w, t, v, {}, card)
  /\ UNCHANGED <<fixed, card, deployed, page, request, own, lost, renewed,
                 misfiled, requests>>

Clean(w) ==
  LET d == worker[w] IN
  /\ d # Nothing /\ d.phase = "clean"
  /\ \/ card' = FailMeaning(card, d.before, d.version)
     \/ \E m \in Wordings :
          card' = SaveMeaning(card, d.before, <<Sense(d.before.gloss), m>>, d.version)
  /\ NextMeaning(w, d.task, d.version, d.seen, card')
  /\ UNCHANGED <<fixed, deployed, page, request, history>>

(* runWordResearch serves the latest request only. *)
TakeResearch(w, t, v) ==
  /\ t.kind = "research"
  /\ Take(w, t, v)
  /\ IF card # Nothing /\ card.research = "pending" /\ card.researched = t.arg
     THEN Go(w, t, v, "research", {}) ELSE Skip(w, t)
  /\ UNCHANGED <<fixed, card, deployed, page, request, own, lost, renewed,
                 misfiled, requests>>

(* Mutation of FinishResearch: to have found nothing is not recorded. *)
FinishFound(c, before, g) ==
  IF /\ c # Nothing /\ c.research = "pending" /\ g # Nothing
     /\ c.researched = before.researched /\ c.gloss = before.gloss
  THEN [c EXCEPT !.research = "done", !.offer = g, !.of = c.gloss]
  ELSE c

(* The results are of the card that was read, or of none. *)
FinishResearch(c, before, g) ==
  IF /\ c # Nothing /\ c.research = "pending"
     /\ c.researched = before.researched /\ c.gloss = before.gloss
  THEN IF g = Nothing THEN [c EXCEPT !.research = "failed"]
       ELSE [c EXCEPT !.research = "done", !.offer = g, !.of = before.gloss]
  ELSE c

Research(w) ==
  LET d == worker[w] IN
  /\ d # Nothing /\ d.phase = "research"
  /\ \E g \in Glosses \cup {Nothing} : card' = FinishResearch(card, d.before, g)
  /\ Ended(w)
  /\ UNCHANGED <<fixed, deployed, page, request, history>>

(* An attempt fails, and its job is attempted again or given up. *)
Fail(w) ==
  /\ worker[w] # Nothing
  /\ Fault
  /\ worker' = [worker EXCEPT ![w] = Nothing]
  /\ \/ UNCHANGED <<queue, lost>>
     \/ /\ queue' = queue \ {worker[w].task}
        /\ lost' = IF worker[w].task.kind = "research"
                   THEN lost \cup {worker[w].task.arg} ELSE lost
  /\ UNCHANGED <<fixed, card, deployed, page, request, own, renewed, misfiled,
                 requests>>

-----------------------------------------------------------------------------
(* The learner. *)

(* A request's answer is shown, or it was made in another tab than the     *)
(* page that is followed.                                                  *)
Shown(c) ==
  \/ page' = c
  \/ "tabs" \in followed.what /\ UNCHANGED page

(* wordsListHandler schedules what the page finds unfinished.  (Only a     *)
(* visit that has a meaning cleaned is counted.)                           *)
Visit(v) ==
  LET c == StartMeaningCleanup(card, v) IN
  /\ card # Nothing /\ v \in deployed
  /\ card' = c
  /\ Shown(c)
  /\ Enqueue({t \in {VerifyTask(v)} : \/ c.status = "pending"
                                      \/ c.status = "verified" /\ ~ QuestionReady(c, v)}
             \cup {t \in {MeaningTask(v)} : c.meaning = "pending"})
  /\ IF c = card THEN UNCHANGED requests ELSE Ask
  /\ UNCHANGED <<fixed, deployed, request, worker, own, renewed, misfiled>>

AcceptCleaned(c) == Confirmed(c, c.target)

(* SelectMeaning in one transaction, bound to the revision on the page. *)
SelectCleaned ==
  /\ card # Nothing /\ page # Nothing /\ page.meaning = "done"
  /\ Ask
  /\ card.status = "verified" /\ card.revision = page.revision
  /\ card.meaning = "done" /\ card.target # 0 /\ card.target >= card.version
  /\ card' = AcceptCleaned(card)
  /\ Shown(card')
  /\ own' = page.gloss
  /\ UNCHANGED <<fixed, deployed, request, queue, worker, lost, renewed, misfiled,
                 faults>>

(* The original comes back, and is cleaned again. *)
SelectOriginal(v) ==
  /\ card # Nothing /\ page # Nothing /\ page.meaning \in {"done", "failed"}
  /\ v \in deployed
  /\ Ask
  /\ card.status = "verified" /\ card.revision = page.revision
  /\ card.meaning \in {"done", "failed"} /\ card.target <= v
  /\ Baseline(card) \notin taken
  /\ card' = [card EXCEPT !.gloss = Baseline(card), !.previous = Nothing,
       !.meaning = "pending", !.target = v, !.revision = @ + 1]
  /\ Shown(card')
  /\ own' = Baseline(page)
  /\ Enqueue({MeaningTask(v)})
  /\ UNCHANGED <<fixed, deployed, request, worker, renewed, misfiled>>

(* SelectResearch replaces the card by a suggestion of the page. *)
SelectResearch(v) ==
  /\ card # Nothing /\ page # Nothing /\ page.research = "done"
  /\ v \in deployed
  /\ Ask
  /\ card.status # "pending" /\ ~ MeaningNeedsReview(card) /\ card.research = "done"
  /\ card.researched = page.researched /\ card.offer = page.offer
  /\ page.offer \notin taken
  /\ card' = [card EXCEPT !.gloss = page.offer, !.status = "verified",
       !.research = "unset", !.offer = Nothing, !.of = Nothing,
       !.question = 0, !.asks = Nothing,
       !.version = v, !.target = v, !.meaning = "confirmed", !.previous = Nothing,
       !.revision = @ + 1]
  /\ Shown(card')
  /\ own' = page.offer
  /\ renewed' = IF renewed = "no" THEN "replaced" ELSE renewed
  /\ UNCHANGED <<fixed, deployed, request, queue, worker, lost, misfiled, faults>>

(* The other requests look first and write after. *)
Check(op, eligible) ==
  /\ card # Nothing /\ request = Nothing
  /\ Ask
  /\ eligible
  /\ request' = [op |-> op, question |-> page.question, asks |-> page.asks]
  /\ UNCHANGED <<fixed, card, deployed, page, queue, worker, own, lost, renewed,
                 misfiled, faults>>

CheckResearch ==
  /\ page # Nothing /\ "research" \in followed.what
  /\ Check("research", /\ card.research # "pending"
                       /\ card.status # "pending" /\ ~ MeaningNeedsReview(card))

CheckConfirm ==
  /\ page # Nothing
  /\ Check("confirm", card.status # "pending" /\ card.research # "pending")

Answerable(c, question) ==
  /\ c.status = "verified" /\ c.research = "confirmed" /\ ~ MeaningNeedsReview(c)
  /\ c.question > 0 /\ question <= c.question

CheckReview ==
  /\ page # Nothing /\ page.question > 0
  /\ Check("review", Answerable(card, page.question))

(* StartResearch counts the revision that its job is for. *)
StartResearch ==
  /\ request # Nothing /\ request.op = "research"
  /\ request' = Nothing
  /\ IF card = Nothing THEN UNCHANGED <<card, queue, lost, faults>> ELSE
       /\ card' = IF card.research = "pending" THEN card ELSE
            [card EXCEPT !.research = "pending", !.researched = @ + 1,
                         !.offer = Nothing, !.of = Nothing]
       /\ Enqueue({ResearchTask(card'.researched)})
  /\ UNCHANGED <<fixed, deployed, page, worker, own, renewed, misfiled, requests>>

(* ConfirmResearch, unless another card says the same: then this one goes. *)
ConfirmResearch ==
  /\ request # Nothing /\ request.op = "confirm"
  /\ request' = Nothing
  /\ card' = IF card = Nothing \/ card.gloss \in twins THEN Nothing ELSE
       [card EXCEPT !.status = "verified", !.research = "confirmed",
                    !.offer = Nothing, !.of = Nothing]
  /\ UNCHANGED <<fixed, deployed, page, queue, worker, history>>

(* applyReview looks at the card once more. *)
Review ==
  /\ request # Nothing /\ request.op = "review"
  /\ request' = Nothing
  /\ misfiled' = (misfiled \/ /\ card # Nothing
                              /\ card.status = "verified" /\ card.research = "confirmed"
                              /\ card.question >= request.question
                              /\ ~ MeaningNeedsReview(card)
                              /\ request.asks # Sense(card.gloss))
  /\ UNCHANGED <<fixed, card, deployed, page, queue, worker, own, lost, renewed,
                 requests, faults>>

Delete ==
  /\ card # Nothing
  /\ card' = Nothing
  /\ UNCHANGED <<fixed, deployed, page, request, queue, worker, history>>

-----------------------------------------------------------------------------
Next ==
  \/ \E v \in Versions : Deploy(v) \/ Retire(v)
  \/ \E w \in Workers :
       \/ \E t \in queue, v \in Versions :
            TakeVerify(w, t, v) \/ TakeMeaning(w, t, v) \/ TakeResearch(w, t, v)
       \/ JudgeWord(w) \/ SaveQuestion(w) \/ Clean(w) \/ Research(w) \/ Fail(w)
  \/ \E v \in Versions : Visit(v) \/ SelectOriginal(v) \/ SelectResearch(v)
  \/ SelectCleaned
  \/ CheckResearch \/ CheckConfirm \/ CheckReview
  \/ StartResearch \/ ConfirmResearch \/ Review
  \/ Delete

Spec == Init /\ [][Next]_vars

-----------------------------------------------------------------------------
TypeOK ==
  /\ card \in Card \cup {Nothing}
  /\ page \in Card \cup {Nothing}
  /\ taken \subseteq Glosses /\ twins \subseteq Glosses
  /\ deployed \subseteq Versions
  /\ queue \subseteq Task
  /\ \A w \in Workers : worker[w] # Nothing =>
       worker[w].phase \in Phases /\ worker[w].before \in Card
  /\ own \in Glosses
  /\ renewed \in {"no", "replaced", "asked"} /\ misfiled \in BOOLEAN

(* The gloss the learner chose, as the page showed it, is never lost: it   *)
(* is the card's, or the one that a suggestion's refusal brings back,      *)
(* however late a job of an older or a newer version writes.               *)
OriginalKept == card # Nothing => Baseline(card) = own

(* What was derived from a card is of the card as it stands: the results   *)
(* that can be chosen, the question that is asked, and an answer that is   *)
(* counted, unless the replaced card had been given a question since.      *)
DerivedFits ==
  /\ card # Nothing =>
       /\ card.research = "done" /\ ~ MeaningNeedsReview(card) => card.of = card.gloss
       /\ card.question > 0 => card.asks = Sense(card.gloss)
  /\ misfiled => renewed = "asked"

(* A card that is being researched has a job of its latest revision, or a  *)
(* choice of the learner will end it, unless a fault took the job: the     *)
(* page that waits for it does not wait for ever.                          *)
ResearchPursued ==
  card # Nothing /\ card.research = "pending" =>
    \/ ResearchTask(card.researched) \in queue
    \/ MeaningNeedsReview(card)
    \/ card.researched \in lost
=============================================================================
