------------------------------ MODULE Lessons ------------------------------
(***************************************************************************)
(* A learner's word nuance lessons (nuance/*.go): the jobs that generate   *)
(* and supplement them (transport/nuance_job.go), and the practice of      *)
(* their questions, lesson by lesson or in a batch that crosses lessons    *)
(* (httpserver/nuance.go).                                                 *)
(*                                                                         *)
(* Every action of practice holds the lesson's row from its read to its    *)
(* write.  A request made on a stale page has an old revision, is refused, *)
(* and changes nothing; so revisions are left out.  Of a question's        *)
(* progress only whether it is due is kept: a right answer puts it off,    *)
(* time brings it back.                                                    *)
(***************************************************************************)
EXTENDS SequencesExt

CONSTANTS
  Lessons,       \* lesson ids
  Comparisons,   \* sets of words that a lesson compares
  Size,          \* questions of a lesson
  Crew,          \* nuance jobs that run at a time
  Courses,       \* bound: how a behaviour starts: lessons that are done
                 \* already, how many acts of practice and how many faults it has
  None

VARIABLES
  course,
  lesson,    \* buddy_nuance_lessons, with the buddy_nuance_comparisons row
  batch,     \* buddy_nuance_reviews: the questions drawn, in their order
  tasks,     \* jobs enqueued and not ended
  hand,      \* what each worker does
  inOrder,   \* history: lessons whose queue is of the last draw
  used,      \* history: lesson ids that were given out
  acts, mishaps

vars == <<course, lesson, batch, tasks, hand, inOrder, used, acts, mishaps>>

Questions == 1 .. Size
Statuses == {"pending", "processing", "failed", "done"}
Task == {"generate", "supplement"} \X Lessons
Generations == 3  \* nuanceGenerationAttempts

Lesson ==
  [status : Statuses, about : Comparisons \cup {None}, keyed : BOOLEAN,
   questions : 0 .. Size,       \* the first so many
   due : SUBSET Questions, queue : Seq(Questions),
   feedback : {None} \cup [question : Questions, correct : BOOLEAN]]

Fresh == [status |-> "pending", about |-> None, keyed |-> FALSE, questions |-> 0,
          due |-> {}, queue |-> <<>>, feedback |-> None]

(* MissingAnswers: some word has no question yet. *)
Missing(row) == row.questions < Size

Done(l) == lesson[l] # None /\ lesson[l].status = "done"

(* Lessons of before the comparisons table, which an older binary may have *)
(* left short of a question.                                               *)
Init ==
  /\ course \in Courses
  /\ \E about \in [course.done -> Comparisons] :
       /\ \A l, m \in course.done : l # m => about[l] # about[m]
       /\ \E short \in SUBSET course.done :
            lesson = [l \in Lessons |->
              IF l \notin course.done THEN None ELSE
              LET n == IF l \in short THEN Size - 1 ELSE Size IN
              [Fresh EXCEPT !.status = "done", !.about = about[l],
                            !.questions = n, !.due = 1 .. n]]
  /\ batch = <<>> /\ tasks = {} /\ inOrder = {} /\ used = course.done
  /\ hand = [w \in Crew |-> None]
  /\ acts = 0 /\ mishaps = 0

Act == acts < course.acts /\ acts' = acts + 1
Mishap == mishaps < course.faults /\ mishaps' = mishaps + 1

-----------------------------------------------------------------------------
(* Generation. *)

(* SetStatus, which leaves a lesson that is done alone. *)
WithStatus(l, status) ==
  IF lesson[l] = None \/ Done(l) THEN lesson ELSE [lesson EXCEPT ![l].status = status]

(* A pending row, then its job; when that cannot be enqueued the lesson is *)
(* marked as failed, unless the server stopped in between.                 *)
EnqueueGenerate(l, row) ==
  \/ /\ lesson' = [lesson EXCEPT ![l] = row]
     /\ tasks' = tasks \cup {<<"generate", l>>}
     /\ UNCHANGED mishaps
  \/ /\ Mishap
     /\ \E status \in {"failed", row.status} :
          lesson' = [lesson EXCEPT ![l] = [row EXCEPT !.status = status]]
     /\ UNCHANGED tasks

(* The draw of a new lesson. *)
Create(l) ==
  /\ l \notin used
  /\ used' = used \cup {l}
  /\ EnqueueGenerate(l, Fresh)
  /\ UNCHANGED <<course, batch, hand, inOrder, acts>>

Retry(l) ==
  /\ lesson[l] # None /\ ~ Done(l)
  /\ EnqueueGenerate(l, [lesson[l] EXCEPT !.status = "pending"])
  /\ UNCHANGED <<course, batch, hand, inOrder, used, acts>>

(* recoverLesson, whenever a list or a lesson is shown. *)
Recover(l) ==
  /\ lesson[l] # None
  /\ \/ /\ lesson[l].status \in {"pending", "processing"}
        /\ EnqueueGenerate(l, lesson[l])
     \/ /\ Done(l) /\ Missing(lesson[l])
        /\ tasks' = tasks \cup {<<"supplement", l>>}
        /\ UNCHANGED <<lesson, mishaps>>
  /\ UNCHANGED <<course, batch, hand, inOrder, used, acts>>

(* A worker takes a job; so does a second one when the first one's claim   *)
(* is lost.  It may find nothing to do.                                    *)
Take(w, t) ==
  LET l == t[2]
      wanted == /\ lesson[l] # None
                /\ (t[1] = "generate") = ~ Done(l)
                /\ Done(l) => Missing(lesson[l]) IN
  /\ hand[w] = None /\ t \in tasks
  /\ IF \E u \in Crew : hand[u] # None /\ hand[u].task = t
     THEN Mishap ELSE UNCHANGED mishaps
  /\ IF wanted
     THEN hand' = [hand EXCEPT ![w] = [task |-> t, tried |-> 0, failing |-> FALSE]]
          /\ UNCHANGED tasks
     ELSE tasks' = tasks \ {t} /\ UNCHANGED hand
  /\ lesson' = IF t[1] = "generate" THEN WithStatus(l, "processing") ELSE lesson
  /\ UNCHANGED <<course, batch, inOrder, used, acts>>

Ended(w) ==
  /\ hand' = [hand EXCEPT ![w] = None]
  /\ tasks' = tasks \ {hand[w].task}

(* Mutation of Alike: the unique key is not there, as it once was not. *)
AlikeUnkeyed(l, about) ==
  \E m \in Lessons \ {l} : Done(m) /\ ~ lesson[m].keyed /\ lesson[m].about = about

(* ErrDuplicate: a lesson of before the table, or the table's unique key.  *)
Alike(l, about) ==
  \E m \in Lessons \ {l} : lesson[m] # None /\ lesson[m].about = about

(* One candidate and Complete, in one transaction. *)
Complete(w) ==
  LET l == hand[w].task[2] IN
  /\ hand[w] # None /\ hand[w].task[1] = "generate" /\ ~ hand[w].failing
  /\ \E about \in Comparisons :
       IF lesson[l] = None \/ Done(l)
       THEN Ended(w) /\ UNCHANGED lesson
       ELSE IF Alike(l, about)
       THEN /\ hand' = [hand EXCEPT ![w].tried = @ + 1,
                                    ![w].failing = @ \/ hand[w].tried + 1 = Generations]
            /\ UNCHANGED <<lesson, tasks>>
       ELSE /\ lesson' = [lesson EXCEPT ![l].status = "done", ![l].about = about,
                 ![l].keyed = TRUE, ![l].questions = Size, ![l].due = Questions]
            /\ Ended(w)
  /\ UNCHANGED <<course, batch, inOrder, used, acts, mishaps>>

(* A candidate that cannot be repaired is not tried again. *)
Invalid(w) ==
  /\ hand[w] # None /\ ~ hand[w].failing
  /\ Mishap
  /\ lesson' = IF hand[w].task[1] = "generate"
               THEN WithStatus(hand[w].task[2], "failed") ELSE lesson
  /\ Ended(w)
  /\ UNCHANGED <<course, batch, inOrder, used, acts>>

(* Any other error: the attempt will fail. *)
Break(w) ==
  /\ hand[w] # None /\ ~ hand[w].failing
  /\ Mishap
  /\ hand' = [hand EXCEPT ![w].failing = TRUE]
  /\ UNCHANGED <<course, lesson, batch, tasks, inOrder, used, acts>>

(* The failed attempt marks its lesson, and its job is attempted again or  *)
(* given up.                                                               *)
FailAttempt(w) ==
  /\ hand[w] # None /\ hand[w].failing
  /\ lesson' = IF hand[w].task[1] = "generate"
               THEN WithStatus(hand[w].task[2], "failed") ELSE lesson
  /\ \/ Ended(w)
     \/ hand' = [hand EXCEPT ![w] = None] /\ UNCHANGED tasks
  /\ UNCHANGED <<course, batch, inOrder, used, acts, mishaps>>

(* AddQuestions appends to the questions, and leaves the practice alone. *)
AddQuestions(w) ==
  LET l == hand[w].task[2] IN
  /\ hand[w] # None /\ hand[w].task[1] = "supplement" /\ ~ hand[w].failing
  /\ lesson' = IF Done(l) /\ Missing(lesson[l])
               THEN [lesson EXCEPT ![l].questions = Size, ![l].due = @ \cup {Size}]
               ELSE lesson
  /\ Ended(w)
  /\ UNCHANGED <<course, batch, inOrder, used, acts, mishaps>>

-----------------------------------------------------------------------------
(* Practice. *)
Revealed == {l \in Lessons : Done(l) /\ lesson[l].feedback # None}
Waiting == {l \in Lessons : Done(l) /\ lesson[l].feedback = None /\ lesson[l].due # {}}

(* The items at some places of a list, in their order. *)
ItemsAt(items, places) ==
  [i \in 1 .. Cardinality(places) |->
     items[CHOOSE m \in places : Cardinality({n \in places : n <= m}) = i]]

OfLesson(items, l) == ItemsAt(items, {m \in DOMAIN items : items[m][1] = l})
QuestionsOf(items) == [i \in DOMAIN items |-> items[i][2]]

(* A draw replaces the queue of the lessons that have a question due; one  *)
(* whose feedback is still to be seen only has that in the batch.          *)
Drawn(items, l) == l \in Waiting

StartReview ==
  /\ Act
  /\ \E reveals \in SetToSeqs({<<l, lesson[l].feedback.question>> : l \in Revealed}),
        due \in SetToSeqs(UNION {{l} \X lesson[l].due : l \in Waiting}) :
       LET items == reveals \o due IN
       /\ batch' = items
       /\ lesson' = [l \in Lessons |->
            IF Drawn(items, l)
            THEN [lesson[l] EXCEPT !.queue = QuestionsOf(OfLesson(items, l))]
            ELSE lesson[l]]
  /\ inOrder' = Waiting
  /\ UNCHANGED <<course, tasks, hand, used, mishaps>>

(* The practice of one lesson takes all its questions. *)
Start(l) ==
  /\ Done(l) /\ lesson[l].queue = <<>>
  /\ Act
  /\ lesson' = [lesson EXCEPT ![l].queue = [i \in 1 .. lesson[l].questions |-> i]]
  /\ inOrder' = inOrder \ {l}
  /\ UNCHANGED <<course, batch, tasks, hand, used, mishaps>>

Answer(l) ==
  /\ Done(l) /\ lesson[l].queue # <<>> /\ lesson[l].feedback = None
  /\ Act
  /\ \E correct \in BOOLEAN :
       LET q == Head(lesson[l].queue) IN
       lesson' = [lesson EXCEPT ![l].feedback = [question |-> q, correct |-> correct],
         ![l].due = IF correct THEN @ \ {q} ELSE @ \cup {q}]
  /\ UNCHANGED <<course, batch, tasks, hand, inOrder, used, mishaps>>

(* Mutation of MissedToEnd: the batch keeps its order. *)
MissedInPlace(items, item) == items

(* moveMissedReviewItemToEnd. *)
MissedToEnd(items, item) ==
  IF Contains(items, item) THEN Append(RemoveFirst(items, item), item) ELSE items

(* A question that was missed comes again, last in both orders. *)
NextQuestion(l) ==
  /\ Done(l) /\ lesson[l].feedback # None /\ lesson[l].queue # <<>>
  /\ Act
  /\ LET f == lesson[l].feedback
         rest == Tail(lesson[l].queue) IN
     /\ lesson' = [lesson EXCEPT ![l].feedback = None,
          ![l].queue = IF f.correct THEN rest ELSE Append(rest, f.question)]
     /\ batch' = IF f.correct THEN batch ELSE MissedToEnd(batch, <<l, f.question>>)
  /\ UNCHANGED <<course, tasks, hand, inOrder, used, mishaps>>

(* Time passes. *)
BecomeDue(l, q) ==
  /\ Done(l) /\ q <= lesson[l].questions /\ q \notin lesson[l].due
  /\ Act
  /\ lesson' = [lesson EXCEPT ![l].due = @ \cup {q}]
  /\ UNCHANGED <<course, batch, tasks, hand, inOrder, used, mishaps>>

Delete(l) ==
  /\ lesson[l] # None
  /\ Act
  /\ lesson' = [lesson EXCEPT ![l] = None]
  /\ UNCHANGED <<course, batch, tasks, hand, inOrder, used, mishaps>>

-----------------------------------------------------------------------------
Next ==
  \/ \E l \in Lessons : Create(l) \/ Retry(l) \/ Recover(l)
  \/ \E w \in Crew :
       \/ \E t \in tasks : Take(w, t)
       \/ Complete(w) \/ Invalid(w) \/ Break(w) \/ FailAttempt(w) \/ AddQuestions(w)
  \/ StartReview
  \/ \E l \in Lessons :
       \/ Start(l) \/ Answer(l) \/ NextQuestion(l) \/ Delete(l)
       \/ \E q \in Questions : BecomeDue(l, q)

Spec == Init /\ [][Next]_vars

-----------------------------------------------------------------------------
TypeOK ==
  /\ \A l \in Lessons : lesson[l] \in Lesson \cup {None}
  /\ batch \in Seq(Lessons \X Questions)
  /\ tasks \subseteq Task
  /\ \A w \in Crew : hand[w] # None => hand[w].task \in Task /\ hand[w].tried <= Generations
  /\ inOrder \subseteq Lessons

(* ReviewState: the batch as a page that is opened again shows it. *)
StillQueued(l) ==
  QuestionsOf(ItemsAt(batch, {m \in DOMAIN batch :
    batch[m][1] = l /\ Contains(lesson[l].queue, batch[m][2])}))

(* The batch that a reload replays has the questions of a lesson that was  *)
(* drawn in the very order in which that lesson's queue will accept their  *)
(* answers, none missing and none twice, whatever was answered, missed,    *)
(* supplemented, deleted or left half seen since: the page, which goes     *)
(* through the batch, always has a question whose answer is accepted.      *)
BatchAligned == \A l \in inOrder : lesson[l] # None => StillQueued(l) = lesson[l].queue

(* No two lessons of a learner compare the same words, whichever jobs      *)
(* complete them together and whether or not their rows predate the table  *)
(* of comparisons.                                                         *)
NoTwoAlike ==
  \A l, m \in Lessons : l # m /\ Done(l) /\ Done(m) => lesson[l].about # lesson[m].about
=============================================================================
