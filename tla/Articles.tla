------------------------------ MODULE Articles ------------------------------
(***************************************************************************)
(* One news article, which the learners who drew it share (newsarticle/),  *)
(* with the work on it: its study, its phrases, the translation that an    *)
(* older article lacks (transport/article_*_job.go), the sweep that        *)
(* resumes what was abandoned, and the requests of the learners            *)
(* (httpserver/articles.go).                                               *)
(*                                                                         *)
(* A draft is what one run of the model makes of the article: its summary, *)
(* its translation and its questions; and what is derived from it.  Each   *)
(* statement on a row is one action.  The durable queue is the one of      *)
(* JobQueue, reduced to its deduplication and at-least-once delivery.      *)
(***************************************************************************)
EXTENDS FiniteSets, Integers

CONSTANTS
  Draws,     \* instances: an article as one learner drew it
  Drafts,
  Hands,     \* jobs that run at a time
  Legacy,    \* the draft of an article that an older binary completed
  MaxSlips,  \* bound: attempts and enqueues that fail, claims lost, jobs given up
  NoOne, Gone    \* nothing, and an instance that was deleted

VARIABLES
  article,   \* the row in buddy_articles
  instance,  \* rows in buddy_article_instances
  drawing,   \* draws and views between two of their statements: what they saw
  form,      \* answers between the lookup and the update
  work,      \* jobs enqueued and not ended
  busy,      \* what each worker does
  filling,   \* backfills between two of their statements
  reopened,  \* history: the article had been completed without questions
  slips

vars == <<article, instance, drawing, form, work, busy, filling, reopened, slips>>

Draft == Drafts \cup {Legacy, NoOne}
Jobs == {"study", "phrases"}

(* `claimed` and `lent` tell whether 10 minutes have passed since          *)
(* claimed_at and translation_claimed_at.                                  *)
Article == [status : {"pending", "done", "failed"},
            summary : Draft, translation : Draft, asks : Draft, phrases : Draft,
            claimed : {"lately", "long ago"}, lent : {"never", "lately", "long ago"}]

Reserved == [status |-> "pending", summary |-> NoOne, translation |-> NoOne,
             asks |-> NoOne, phrases |-> NoOne, claimed |-> "lately", lent |-> "never"]

Held(i) == instance[i] \notin {NoOne, Gone}
Wanted == \E i \in Draws : Held(i)
Ready == article # NoOne /\ article.status = "done"

(* An article never seen, or one of before the questions were several, and *)
(* maybe of before translations and phrases, which one learner has drawn.  *)
Init ==
  /\ \/ article = NoOne /\ instance = [i \in Draws |-> NoOne]
     \/ /\ \E t, p \in {Legacy, NoOne}, q \in {Legacy, NoOne} :
             article = [Reserved EXCEPT !.status = "done", !.summary = Legacy,
               !.translation = t, !.asks = q, !.phrases = p, !.claimed = "long ago"]
        /\ \E i \in Draws : instance =
             [j \in Draws |-> IF j = i THEN [answered |-> FALSE, graded |-> NoOne] ELSE NoOne]
  /\ drawing = [i \in Draws |-> NoOne] /\ form = {}
  /\ work = {} /\ busy = [w \in Hands |-> NoOne] /\ filling = {}
  /\ reopened = FALSE /\ slips = 0

Slip == slips < MaxSlips /\ slips' = slips + 1

(* Enqueued, or the error is logged. *)
Dispatch(job) ==
  \/ work' = work \cup {job} /\ UNCHANGED slips
  \/ Slip /\ UNCHANGED work

-----------------------------------------------------------------------------
(* The learners. *)

(* What a request goes by. *)
Seen(a) == [status |-> a.status, asks |-> a.asks]

(* ReserveArticle: INSERT IGNORE on the URL, and a SELECT. *)
Reserve(i) ==
  /\ instance[i] = NoOne /\ drawing[i] = NoOne
  /\ article' = IF article = NoOne THEN Reserved ELSE article
  /\ drawing' = [drawing EXCEPT ![i] = Seen(article')]
  /\ UNCHANGED <<instance, form, work, busy, filling, reopened, slips>>

(* ReopenIncompleteArticle, when the article that was read has no          *)
(* questions.                                                              *)
Reopened(a) == [a EXCEPT !.status = "pending", !.claimed = "lately"]

Heal(seen) ==
  seen.status = "done" /\ seen.asks = NoOne /\ Ready /\ article.asks = NoOne

SelfHeal(i) ==
  /\ drawing[i] # NoOne /\ instance[i] = NoOne /\ Heal(drawing[i])
  /\ article' = Reopened(article) /\ reopened' = TRUE
  /\ drawing' = [drawing EXCEPT ![i] = Seen(article')]
  /\ UNCHANGED <<instance, form, work, busy, filling, slips>>

(* The draw's instance, whether the article was reopened or that failed.   *)
CreateInstance(i) ==
  /\ drawing[i] # NoOne /\ instance[i] = NoOne
  /\ IF Heal(drawing[i]) THEN Slip ELSE UNCHANGED slips
  /\ instance' = [instance EXCEPT ![i] = [answered |-> FALSE, graded |-> NoOne]]
  /\ drawing' = [drawing EXCEPT ![i] = IF @.status = "pending" THEN @ ELSE NoOne]
  /\ UNCHANGED <<article, form, work, busy, filling, reopened>>

(* Then the study of what was seen as pending.                             *)
DispatchStudy(i) ==
  /\ drawing[i] # NoOne /\ instance[i] # NoOne
  /\ drawing' = [drawing EXCEPT ![i] = NoOne]
  /\ Dispatch("study")
  /\ UNCHANGED <<article, instance, form, busy, filling, reopened>>

(* articleInstanceHandler: an article without questions is studied again,  *)
(* one without a translation is given one in the background.               *)
View(i) ==
  /\ Held(i)
  /\ \/ Heal(article) /\ article' = Reopened(article) /\ reopened' = TRUE
        /\ Dispatch("study") /\ UNCHANGED filling
     \/ /\ Ready /\ article.translation = NoOne
        /\ IF Heal(article) THEN Slip ELSE UNCHANGED slips
        /\ filling' = filling \cup {<<"claim", article.summary>>}
        /\ UNCHANGED <<article, reopened, work>>
  /\ UNCHANGED <<instance, drawing, form, busy>>

(* articlePhrasesHandler. *)
ViewPhrases(i) ==
  /\ Held(i) /\ Ready /\ article.phrases = NoOne
  /\ Dispatch("phrases")
  /\ UNCHANGED <<article, instance, drawing, form, busy, filling, reopened>>

(* Answer looks the instance up and grades by the questions it finds ...   *)
Grade(i) ==
  /\ Held(i) /\ Ready /\ ~ instance[i].answered
  /\ form' = form \cup {[draw |-> i, graded |-> article.asks]}
  /\ UNCHANGED <<article, instance, drawing, work, busy, filling, reopened, slips>>

(* ... and records, over another answer that came in between.              *)
Record(answer) ==
  /\ answer \in form /\ form' = form \ {answer}
  /\ LET i == answer.draw IN
     instance' = IF ~ Held(i) THEN instance
       ELSE [instance EXCEPT ![i] = [answered |-> TRUE, graded |-> answer.graded]]
  /\ UNCHANGED <<article, drawing, work, busy, filling, reopened, slips>>

(* The article itself stays. *)
Delete(i) ==
  /\ Held(i)
  /\ instance' = [instance EXCEPT ![i] = Gone]
  /\ UNCHANGED <<article, drawing, form, work, busy, filling, reopened, slips>>

-----------------------------------------------------------------------------
(* The jobs. *)
Ended(w) == busy' = [busy EXCEPT ![w] = NoOne] /\ work' = work \ {busy[w].job}

(* A worker takes a job; so does a second one when the first one's claim   *)
(* is lost.                                                                *)
Take(w, job) ==
  /\ busy[w] = NoOne /\ job \in work
  /\ IF \E u \in Hands : busy[u] # NoOne /\ busy[u].job = job
     THEN Slip ELSE UNCHANGED slips

Start(w, job, from) ==
  busy' = [busy EXCEPT ![w] = [job |-> job, from |-> from]] /\ UNCHANGED work

(* runArticleStudy claims a failed article anew. *)
TakeStudy(w) ==
  /\ Take(w, "study")
  /\ IF article.status = "done"
     THEN work' = work \ {"study"} /\ UNCHANGED <<article, busy>>
     ELSE /\ article' = IF article.status = "failed"
                        THEN [article EXCEPT !.status = "pending", !.claimed = "lately"]
                        ELSE article
          /\ Start(w, "study", NoOne)
  /\ UNCHANGED <<instance, drawing, form, filling, reopened>>

Studying(w) == busy[w] # NoOne /\ busy[w].job = "study"

(* Mutation of Completable: a late attempt completes once more. *)
CompletableAgain(a) == Wanted

Completable(a) == Wanted /\ a.status = "pending"

(* CompleteArticle; the phrases are dispatched unless the server stops     *)
(* before, or nobody has the article any more (ErrDeleted).                *)
CompleteStudy(w) ==
  /\ Studying(w)
  /\ \E d \in Drafts :
       article' = IF Completable(article)
         THEN [article EXCEPT !.status = "done", !.summary = d, !.translation = d, !.asks = d]
         ELSE article
  /\ IF Wanted
     THEN \/ /\ busy' = [busy EXCEPT ![w] = NoOne]
             /\ work' = (work \ {"study"}) \cup {"phrases"}
             /\ UNCHANGED slips
          \/ Slip /\ Ended(w)
          \/ Slip /\ busy' = [busy EXCEPT ![w] = NoOne] /\ UNCHANGED work
     ELSE Ended(w) /\ UNCHANGED slips
  /\ UNCHANGED <<instance, drawing, form, filling, reopened>>

(* FailArticle, or nothing when nobody has the article any more. *)
FailStudy(w) ==
  /\ Studying(w)
  /\ Slip
  /\ article' = IF Wanted /\ article.status = "pending"
                THEN [article EXCEPT !.status = "failed"] ELSE article
  /\ \/ Ended(w)
     \/ busy' = [busy EXCEPT ![w] = NoOne] /\ UNCHANGED work
  /\ UNCHANGED <<instance, drawing, form, filling, reopened>>

(* runArticlePhrases reads the summary ... *)
TakePhrases(w) ==
  /\ Take(w, "phrases")
  /\ IF Wanted /\ Ready /\ article.phrases = NoOne
     THEN Start(w, "phrases", article.summary)
     ELSE work' = work \ {"phrases"} /\ UNCHANGED busy
  /\ UNCHANGED <<article, instance, drawing, form, filling, reopened>>

(* SetArticlePhrases: the first writer wins. *)
MissingPhrases(a) == a.status = "done" /\ a.phrases = NoOne /\ Wanted

(* ... and saves the phrases of what it read, if any were found. *)
SetPhrases(w) ==
  /\ busy[w] # NoOne /\ busy[w].job = "phrases"
  /\ \/ article' = IF MissingPhrases(article)
                   THEN [article EXCEPT !.phrases = busy[w].from] ELSE article
     \/ UNCHANGED article
  /\ Ended(w)
  /\ UNCHANGED <<instance, drawing, form, filling, reopened, slips>>

FailPhrases(w) ==
  /\ busy[w] # NoOne /\ busy[w].job = "phrases"
  /\ Slip
  /\ busy' = [busy EXCEPT ![w] = NoOne]
  /\ work' \in {work, work \ {"phrases"}}
  /\ UNCHANGED <<article, instance, drawing, form, filling, reopened>>

-----------------------------------------------------------------------------
MissingTranslation(a) == a.status = "done" /\ a.translation = NoOne

(* RunArticleTranslationBackfill: the summary that was read is claimed for *)
(* 10 minutes (ClaimMissingTranslation), translated and saved              *)
(* (CompleteArticleTranslation); or it fails.                              *)
ClaimTranslation(from) ==
  /\ <<"claim", from>> \in filling
  /\ IF MissingTranslation(article) /\ article.lent # "lately"
     THEN /\ article' = [article EXCEPT !.lent = "lately"]
          /\ filling' = (filling \ {<<"claim", from>>}) \cup {<<"save", from>>}
     ELSE filling' = filling \ {<<"claim", from>>} /\ UNCHANGED article
  /\ UNCHANGED <<instance, drawing, form, work, busy, reopened, slips>>

SaveTranslation(from) ==
  /\ <<"save", from>> \in filling
  /\ filling' = filling \ {<<"save", from>>}
  /\ \/ article' = IF MissingTranslation(article) /\ Wanted
                   THEN [article EXCEPT !.translation = from] ELSE article
     \/ UNCHANGED article
  /\ UNCHANGED <<instance, drawing, form, work, busy, reopened, slips>>

(* 10 minutes pass for what was claimed. *)
Age ==
  /\ article # NoOne
  /\ \/ article.claimed = "lately" /\ article' = [article EXCEPT !.claimed = "long ago"]
     \/ article.lent = "lately" /\ article' = [article EXCEPT !.lent = "long ago"]
  /\ UNCHANGED <<instance, drawing, form, work, busy, filling, reopened, slips>>

(* SweepStaleArticleStudies, every ArticleStudySweepInterval. *)
Sweep ==
  /\ article # NoOne /\ article.status \in {"pending", "failed"}
  /\ article.claimed = "long ago" /\ Wanted
  /\ Dispatch("study")
  /\ UNCHANGED <<article, instance, drawing, form, busy, filling, reopened>>

-----------------------------------------------------------------------------
Next ==
  \/ \E i \in Draws :
       \/ Reserve(i) \/ SelfHeal(i) \/ CreateInstance(i) \/ DispatchStudy(i)
       \/ View(i) \/ ViewPhrases(i) \/ Delete(i)
       \/ Grade(i)
  \/ \E answer \in form : Record(answer)
  \/ \E w \in Hands :
       \/ TakeStudy(w) \/ CompleteStudy(w) \/ FailStudy(w)
       \/ TakePhrases(w) \/ SetPhrases(w) \/ FailPhrases(w)
  \/ \E from \in Draft : ClaimTranslation(from) \/ SaveTranslation(from)
  \/ Age \/ Sweep

Spec == Init /\ [][Next]_vars

-----------------------------------------------------------------------------
TypeOK ==
  /\ article \in Article \cup {NoOne}
  /\ \A i \in Draws : Held(i) => instance[i].graded \in Draft
  /\ work \subseteq Jobs
  /\ filling \subseteq {"claim", "save"} \X Draft

(* An article holds together: its questions, its translation and its       *)
(* phrases are of the summary that is shown with them, and an answer was   *)
(* graded by the questions that the article still has, however many        *)
(* attempts, backfills and sweeps worked on it together.  (Phrases may be  *)
(* of the summary before an article was reopened; and an answer to no      *)
(* question, of such an article, is graded by none.)                       *)
StudyAgrees ==
  /\ Ready =>
       /\ article.asks \in {article.summary, NoOne}
       /\ article.translation \in {article.summary, NoOne}
       /\ article.phrases \in {article.summary, NoOne} \/ reopened
  /\ \A i \in Draws : Held(i) /\ instance[i].answered =>
       instance[i].graded \in {article.asks, NoOne}
=============================================================================
