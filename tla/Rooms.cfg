\* Rooms: two connections, a greeting and two texts; the replies to the first
\* two of them and the correction of the first text are followed.
\* Endings: two rooms, two requests or faults, summaries or quizzes.
\* Cascade: two attempts, two sentences; with a Judge and an Analysis model or
\* none, with an Analysis model twice, with a deployment, and without a queue.
\* Recordings: two utterances in either store or one in both, two requests, one
\* fault.
CONSTANTS
  c1 = c1  c2 = c2  r1 = r1  r2 = r2  s1 = s1  s2 = s2  m1 = m1
  Conns <- TwoConns
  Inputs = 2
  TitleEvery = 1
  MaxLate = 3
  MaxMishaps = 1
  Answered = {0, 1}
  Corrected = {1}
  None = None
  Chats <- TwoChats
  Scenarios <- BothStudies
  MaxEvents = 2
  Nobody = Nobody
  Workers <- TwoChats
  Sentences <- TwoSentences
  Loose = Loose
  Bad = Bad
  Nothing = Nothing
  Configs <- CascadeConfigs
  MaxAttempts = 2
  Utterances = {1, 2}
  Stores <- AudioStores
SPECIFICATION RoomsSpec
SYMMETRY Symmetry
INVARIANTS NothingSurvivesDeletion DoneIsReadable FreshNumbers UnreadUntilRead
           ForgottenAfterDeletion NotesKept WrapUpComplete PendingHasJob WorkReused Settled
           AudioAccounted
PROPERTIES ResultsStand PublishedOnce
\* A room falls silent, and everything that is asked for ends.
CHECK_DEADLOCK FALSE
