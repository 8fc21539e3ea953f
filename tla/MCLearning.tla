----------------------------- MODULE MCLearning -----------------------------
(***************************************************************************)
(* Small instances of Words, of AutoAdd, of Lessons, of Articles, of       *)
(* Lookups, of Clips and of Translations, side by side: `part` says which  *)
(* of them a behaviour is of, and the others' variables rest as they began.*)
(***************************************************************************)
EXTENDS Words, Sequences, TLC

CONSTANTS
  s1, s2,  \* senses, comparisons, drafts
  m1, m2,  \* wordings, draws, presses
  w1, w2,  \* workers
  l1, l2, t1, t2,
  Lessons, Comparisons, Size, Crew, Courses, None,
  Draws, Drafts, Hands, Legacy, MaxSlips, NoOne, Gone,
  Askers, Answers, Cases, Batches, MaxPresses, MaxMishaps, MaxTries,
  w3,      \* with the workers, the users of a clip
  Users, Settings, Subjects, Lines, Follows

TwoSenses == {s1, s2}
TwoWordings == {m1, m2}
TwoWorkers == {w1, w2}
TwoLessons == {l1, l2}

Follow(what, upTo, withFaults) == [what |-> what, requests |-> upTo, faults |-> withFaults]
WordScenarios ==
  {Follow({"meaning", "deploy"}, 3, 1), Follow({"meaning", "research", "deploy"}, 2, 0),
   Follow({"verify", "research", "tabs"}, 4, 0), Follow({"verify", "research"}, 2, 1)}

Course(done, upTo, withFaults) == [done |-> done, acts |-> upTo, faults |-> withFaults]
LessonCourses == {Course(TwoLessons, 6, 0), Course({l1}, 1, 1), Course({}, 0, 2)}

Case(subject, upTo, withMishaps) ==
  [subject |-> subject, asks |-> upTo, mishaps |-> withMishaps]
LookupCases ==
  {Case("word", 2, 2), Case("word", 3, 1), Case("quiz", 3, 1), Case("quiz", 1, 2)}

TwoAskers == {t1, t2}
TwoBatches == {<<1, 2>>, <<3>>}

ThreeUsers == TwoWorkers \cup {w3}
ClipSubjects == [of : {"message", "article"}, faults : {1}]

Translating(turns, jobs, upTo, withFaults) ==
  [said |-> turns, user |-> {1}, live |-> jobs, views |-> upTo, faults |-> withFaults]
Translated ==
  {Translating({1, 2}, {}, 1, 1), Translating({1, 2}, {2}, 1, 0),
   Translating({1}, {1}, 1, 0), Translating({1}, {1}, 0, 2), Translating({2}, {2}, 1, 2)}

Symmetry == Permutations(TwoSenses) \cup Permutations(TwoWordings)
            \cup Permutations(TwoWorkers)

VARIABLES part,
          course, lesson, batch, tasks, hand, inOrder, used, acts, mishaps,
          article, instance, drawing, form, work, busy, filling, reopened, slips,
          case, cache, owned, jobs, run, ask, forked, asks, misses,
          status, count, tracked, press, job, attempt, drawn, presses, failures,
          subject, object, index, replica, expired, newest, user, crossed, errors,
          follow, unsaved, transcript, shown, lines, detached, passes, pass, owed, filled,
          rivals, views, lapses

L == INSTANCE Lessons
A == INSTANCE Articles
K == INSTANCE Lookups WITH Tabs <- Askers, queue <- jobs, mishaps <- misses
D == INSTANCE AutoAdd WITH Pages <- Draws, request <- press, run <- attempt,
                           mishaps <- failures
P == INSTANCE Clips WITH Versions <- Settings, faults <- errors
T == INSTANCE Translations WITH Turns <- Lines, replica <- shown, live <- lines,
                                late <- detached, job <- passes, run <- pass, faults <- lapses

(* A batch is a sequence of words.                                         *)
ASSUME AdditionsAssumption ==
  /\ None \notin Workers \cup Batches
  /\ \A words \in Batches : words \in Seq({words[i] : i \in 1 .. Len(words)})

ASSUME LessonsAssumption == IsFiniteSet(Lessons) /\ Size \in Nat \ {0}

ASSUME ArticlesAssumption == NoOne \notin Drafts \cup A!Article

ASSUME LookupsAssumption == None \notin Workers \cup Answers

ASSUME ClipsAssumption ==
  None \notin Settings \cup [version : Settings, whole : BOOLEAN]

ASSUME TranslationsAssumption ==
  Lines \subseteq Nat /\ None \notin T!Renderings \cup {"fill", "correct"}

lessons == <<course, lesson, batch, tasks, hand, inOrder, used, acts, mishaps>>
articles == <<article, instance, drawing, form, work, busy, filling, reopened, slips>>
lookups == <<case, cache, owned, jobs, run, ask, forked, asks, misses>>
additions == <<status, count, tracked, press, job, attempt, drawn, presses, failures>>
clips == <<subject, object, index, replica, expired, newest, user, crossed, errors>>
translations == <<follow, unsaved, transcript, shown, lines, detached, passes, pass, owed,
                  filled, rivals, views, lapses>>

(* One state in which each rests. *)
WordsRest == /\ followed.what = {"meaning", "deploy"}
             /\ own = <<s1, m1>> /\ taken = {} /\ twins = {}
LessonsRest == course.done = {}
ArticlesRest == article = NoOne
LookupsRest == case = Case("quiz", 3, 1)
ClipsRest == subject = [of |-> "message", faults |-> 1]
TranslationsRest == follow = Translating({2}, {2}, 1, 2)

LearningInit ==
  /\ Init /\ L!Init /\ A!Init /\ K!Init /\ D!Init /\ P!Init /\ T!Init
  /\ part \in {"words", "lessons", "articles", "lookups", "additions", "clips",
              "translations"}
  /\ part = "words" \/ WordsRest
  /\ part = "lessons" \/ LessonsRest
  /\ part = "articles" \/ ArticlesRest
  /\ part = "lookups" \/ LookupsRest
  /\ part = "clips" \/ ClipsRest
  /\ part = "translations" \/ TranslationsRest

LearningNext ==
  \/ /\ part = "words" /\ Next
     /\ UNCHANGED <<part, lessons, articles, lookups, additions, clips, translations>>
  \/ /\ part = "lessons" /\ L!Next
     /\ UNCHANGED <<part, vars, articles, lookups, additions, clips, translations>>
  \/ /\ part = "articles" /\ A!Next
     /\ UNCHANGED <<part, vars, lessons, lookups, additions, clips, translations>>
  \/ /\ part = "lookups" /\ K!Next
     /\ UNCHANGED <<part, vars, lessons, articles, additions, clips, translations>>
  \/ /\ part = "additions" /\ D!Next
     /\ UNCHANGED <<part, vars, lessons, articles, lookups, clips, translations>>
  \/ /\ part = "clips" /\ P!Next
     /\ UNCHANGED <<part, vars, lessons, articles, lookups, additions, translations>>
  \/ /\ part = "translations" /\ T!Next
     /\ UNCHANGED <<part, vars, lessons, articles, lookups, additions, clips>>

LearningSpec ==
  LearningInit /\ [][LearningNext]_<<part, vars, lessons, articles, lookups, additions, clips,
                                     translations>>

(* The properties of the other modules, stated there. *)
BatchAligned == L!BatchAligned
NoTwoAlike == L!NoTwoAlike
StudyAgrees == A!StudyAgrees
ToldTheResult == K!ToldTheResult
CachedStands == K!CachedStands
OneBatch == D!OneBatch
ClipsPlay == P!ClipsPlay
ViewedIsFilled == T!ViewedIsFilled
ReadStays == T!ReadStays
=============================================================================
