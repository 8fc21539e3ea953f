\* Words: glosses of two senses in two wordings, two workers; each scenario has
\* the kinds of jobs, requests of the learner and faults that it names.
\* Lessons: two lessons of two questions, two comparisons, two workers; a
\* practice, a supplement and a generation with two faults.
\* Lookups: two askers of a word twice with two mishaps or three times with
\* one, or of a quiz answer three times with one mishap or once with two.
\* AutoAdd: two presses, batches of one and of two words, two mishaps.
\* Clips: three users of a message's or an article's clip, two versions, one
\* fault.  Translations: a turn of the learner and a reply without jobs, or with
\* one for the reply, or one turn alone with its job; each has the views and
\* faults that it names.  Two workers.
\* Articles: two draws of one article, two drafts, two workers, one fault.
CONSTANTS
  s1 = s1  s2 = s2  m1 = m1  m2 = m2  w1 = w1  w2 = w2
  l1 = l1  l2 = l2  w3 = w3
  t1 = t1  t2 = t2
  Senses <- TwoSenses
  Wordings <- TwoWordings
  Versions = {2, 3}
  Optimization = 3
  Workers <- TwoWorkers
  Scenarios <- WordScenarios
  Nothing = Nothing
  Lessons <- TwoLessons
  Comparisons <- TwoSenses
  Size = 2
  Crew <- TwoWorkers
  Courses <- LessonCourses
  None = None
  Draws <- TwoWordings
  Drafts <- TwoSenses
  Hands <- TwoWorkers
  Legacy = Legacy
  MaxSlips = 1
  NoOne = NoOne
  Gone = Gone
  Askers <- TwoAskers
  Answers <- TwoSenses
  Cases <- LookupCases
  Batches <- TwoBatches
  MaxPresses = 2
  MaxMishaps = 2
  MaxTries = 2
  Users <- ThreeUsers
  Settings = {1, 2}
  Subjects <- ClipSubjects
  Lines = {1, 2}
  Follows <- Translated
SPECIFICATION LearningSpec
SYMMETRY Symmetry
INVARIANTS OriginalKept DerivedFits ResearchPursued BatchAligned NoTwoAlike
           StudyAgrees ToldTheResult OneBatch ClipsPlay ViewedIsFilled
  
\* Everything that is asked for ends, and the learner asks for no more.
CHECK_DEADLOCK FALSE
