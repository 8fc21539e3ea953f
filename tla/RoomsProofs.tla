----------------------------- MODULE RoomsProofs -----------------------------
(***************************************************************************)
(* Proofs about Rooms for any number of connections, inputs, late writes   *)
(* and mishaps; and about Recordings, Endings and Cascade, for any chats,  *)
(* utterances, studies, workers and configurations, from the assumptions   *)
(* of MCRooms.                                                             *)
(***************************************************************************)
EXTENDS MCRooms, FiniteSetTheorems, WellFoundedInduction, TLAPS

(* Only texts that were sent have a number, and only they are worked on. *)
Numbered ==
  /\ \A i \in 0 .. sent : num[i] \in Turns
  /\ \A i \in Texts : reply[i] # "none" \/ analysis[i] # "none" => i <= sent
  /\ \A w \in late : w.input <= sent /\ (w.op = "final" => w.content \in Contents)

TypeInv == TypeOK /\ Numbered

-----------------------------------------------------------------------------
LEMMA TypeInit == Init => TypeInv
  <1> SUFFICES ASSUME Init
               PROVE  TypeInv
    OBVIOUS
  <1> USE RoomsAssumption DEF Init, Texts, Turns, Statuses
  <1>1. next \in [Conns -> Turns \cup {None}]
    OBVIOUS
  <1>2. num \in [Texts -> Turns \cup {None}] /\ num[0] = 0
    OBVIOUS
  <1>3. /\ reply \in [Texts -> {"none", "asked", "reserved", "done"}]
        /\ \A i \in Texts : reply[i] # "none" => i = 0
    OBVIOUS
  <1>4. TypeOK
    <2>1. /\ user \in [Turns -> UserTurn \cup {None}]
          /\ assistant \in [Turns -> AssistantTurn \cup {None}]
          /\ replyJob \in [Turns -> Statuses] /\ correction \in [Turns -> Statuses]
      OBVIOUS
    <2>2. mishaps \in 0 .. MaxMishaps /\ sent \in Texts
      OBVIOUS
    <2>3. analysis \in [Texts -> {"none"}] /\ session \in Session \cup {None}
      OBVIOUS
    <2>4. QED
      BY <1>1, <1>2, <1>3, <2>1, <2>2, <2>3 DEF TypeOK
  <1>5. Numbered
    BY <1>2, <1>3 DEF Numbered
  <1>6. QED
    BY <1>4, <1>5 DEF TypeInv

(* A write that is handed over for a text with a number. *)
Due(i) == {w \in Write : w.input = i /\ (w.op = "final" => w.content \in Contents)}

LEMMA StillNumbered ==
  ASSUME TypeInv, UNCHANGED <<sent, num>>, NEW i \in 0 .. sent,
         late' \subseteq late \cup Due(i),
         \A j \in Texts \ {i} : reply'[j] = reply[j] /\ analysis'[j] = analysis[j]
  PROVE  Numbered' /\ late' \subseteq Write
  BY RoomsAssumption DEF TypeInv, TypeOK, Numbered, Due, Texts

(* What the transactions leave of the learner's row is a row. *)
LEMMA UserRows ==
  ASSUME TypeInv, NEW t \in Turns, NEW i \in Texts, NEW said \in Contents,
         NEW unread \in BOOLEAN
  PROVE  /\ UpsertUser(t, i) => user' \in [Turns -> UserTurn \cup {None}]
         /\ SaveCorrectionFinal(t, i, said, unread) =>
              /\ user' \in [Turns -> UserTurn \cup {None}]
              /\ correction' \in [Turns -> Statuses]
              /\ missed' \subseteq Turns
         /\ FailJob(t) => correction' \in [Turns -> Statuses]
  <1> USE DEF TypeInv, TypeOK
  <1>1. ASSUME UpsertUser(t, i)
        PROVE  user' \in [Turns -> UserTurn \cup {None}]
    <2>1. CASE user[t] = None
      BY <1>1, <2>1 DEF UpsertUser, UserTurn
    <2>2. CASE user[t] # None
      BY <1>1, <2>2 DEF UpsertUser, UserTurn
    <2>3. QED
      BY <2>1, <2>2
  <1>2. ASSUME SaveCorrectionFinal(t, i, said, unread)
        PROVE  user' \in [Turns -> UserTurn \cup {None}]
    <2> DEFINE c == [of |-> i, content |-> said, judge |-> TRUE]
    <2>1. c \in Correction
      BY DEF Correction
    <2>2. CASE user[t] # None
      <3>1. user[t] \in UserTurn /\ Unread(t, c, unread) \in BOOLEAN
        BY <2>2 DEF Unread, UserTurn
      <3>2. user' = [user EXCEPT ![t].unread = Unread(t, c, unread), ![t].correction = c]
        BY <1>2, <2>2 DEF SaveCorrectionFinal
      <3> HIDE DEF c
      <3>3. QED
        BY <2>1, <3>1, <3>2 DEF UserTurn
    <2>3. QED
      BY <1>2, <2>2 DEF SaveCorrectionFinal
  <1>3. ASSUME SaveCorrectionFinal(t, i, said, unread)
        PROVE  correction' \in [Turns -> Statuses] /\ missed' \subseteq Turns
    BY <1>3 DEF SaveCorrectionFinal, Statuses
  <1>4. ASSUME FailJob(t)
        PROVE  correction' \in [Turns -> Statuses]
    BY <1>4 DEF FailJob, Statuses
  <1>5. QED
    BY <1>1, <1>2, <1>3, <1>4

-----------------------------------------------------------------------------
LEMMA ConnTypes ==
  ASSUME TypeInv, NEW c \in Conns, Open(c) \/ Close(c) \/ Send(c)
  PROVE  TypeInv'
  <1> USE RoomsAssumption DEF TypeInv, rows, live, work, history
  <1>1. CASE Open(c)
    <2>1. mishaps' \in 0 .. MaxMishaps /\ early' \in BOOLEAN
      <3>1. mishaps \in 0 .. MaxMishaps /\ early \in BOOLEAN
        BY DEF TypeOK
      <3>2. \/ mishaps < MaxMishaps /\ mishaps' = mishaps + 1 /\ early' = TRUE
            \/ mishaps' = mishaps /\ early' = early
        BY <1>1 DEF Open, Mishap
      <3>3. mishaps' \in 0 .. MaxMishaps
        BY <3>1, <3>2
      <3>4. early' \in BOOLEAN
        BY <3>1, <3>2, Zenon
      <3>5. QED
        BY <3>3, <3>4
    <2>2. next' \in [Conns -> Turns \cup {None}]
      BY <1>1 DEF Open, TypeOK
    <2>3. QED
      BY <1>1, <2>1, <2>2 DEF Open, TypeOK, Numbered
  <1>2. CASE Close(c)
    BY <1>2 DEF Close, TypeOK, Numbered
  <1>3. CASE Send(c)
    <2> DEFINE i == sent + 1
               n == next[c] + 1
    <2>1. i \in Texts /\ n \in Turns /\ sent \in Nat
      BY <1>3 DEF Send, TypeOK, Texts
    <2>2. /\ sent' = i
          /\ next' = [next EXCEPT ![c] = n] /\ num' = [num EXCEPT ![i] = n]
          /\ reply' = [reply EXCEPT ![i] = IF i \in Answered THEN "asked" ELSE @]
          /\ analysis' = [analysis EXCEPT ![i] = IF i \in Corrected THEN "asked" ELSE @]
          /\ late' = late \cup {Pending("user", i, None)}
      BY <1>3 DEF Send, HandOver
    <2>3. Pending("user", i, None) \in Write
      BY <2>1 DEF Pending, Write
    <2> HIDE DEF i, n
    <2>4. TypeOK'
      BY <1>3, <2>1, <2>2, <2>3 DEF Send, TypeOK
    <2>5. \A j \in 0 .. sent : j # i
      BY <2>1 DEF i
    <2>6. i <= sent' /\ 0 .. sent' = (0 .. sent) \cup {i}
      BY <2>1, <2>2 DEF i
    <2>7. \A j \in 0 .. sent' : num'[j] \in Turns
      <3>1. num' = [num EXCEPT ![i] = n] /\ num \in [Texts -> Turns \cup {None}]
        BY <2>2 DEF TypeOK
      <3>2. \A j \in 0 .. sent : j \in Texts /\ num[j] \in Turns
        BY DEF TypeOK, Numbered, Texts
      <3>3. QED
        BY <2>1, <2>5, <2>6, <3>1, <3>2
    <2>8. \A j \in Texts : reply'[j] # "none" \/ analysis'[j] # "none" => j <= sent'
      BY <2>1, <2>2, <2>6 DEF TypeOK, Numbered, Texts, i
    <2>9. \A w \in late' : w.input <= sent' /\ (w.op = "final" => w.content \in Contents)
      <3>1. ASSUME NEW w \in late
            PROVE  w.input <= sent' /\ (w.op = "final" => w.content \in Contents)
        BY <2>1, <2>2 DEF TypeOK, Numbered, Write, Texts, i
      <3>2. QED
        BY <2>2, <2>6, <3>1 DEF Pending
    <2>10. QED
      BY <2>4, <2>7, <2>8, <2>9 DEF Numbered
  <1>4. QED
    BY <1>1, <1>2, <1>3

LEMMA LateTypes ==
  ASSUME TypeInv, ApplyLate
  PROVE  TypeInv'
  <1> USE RoomsAssumption DEF TypeInv, rows, live, work, history, Applied
  <1>1. PICK w \in late :
          \/ SaveTurn(w) \/ SaveCorrectionPreview(w) \/ SaveFinalEvent(w)
          \/ FailCorrectionJob(w) \/ SaveGeneratedTitle(w)
    BY DEF ApplyLate
  <1>2. /\ w.input \in 0 .. sent /\ w.input \in Texts /\ num[w.input] \in Turns
        /\ w.op = "final" => w.content \in Contents
    BY DEF TypeOK, Numbered, Write, Texts
  <1>3. late' \subseteq late /\ UNCHANGED <<hooked, deleted, live, work, backfill>>
    BY <1>1 DEF SaveTurn, SaveCorrectionPreview, SaveFinalEvent, FailCorrectionJob,
                SaveGeneratedTitle
  <1>4. Numbered' /\ late' \subseteq Write
    BY <1>2, <1>3, StillNumbered
  <1> DEFINE t == num[w.input]
             i == w.input
  <1>5. t \in Turns /\ i \in Texts
    BY <1>2
  <1> HIDE DEF t, i
  <1>6. CASE SaveTurn(w)
    <2>1. CASE deleted
      BY <1>3, <1>4, <1>6, <2>1 DEF SaveTurn, WithLiveSession, TypeOK
    <2>2. CASE ~ deleted
      <3>1. session' \in Session \cup {None}
        <4>1. [title |-> i, generated |-> FALSE] \in Session
          BY <1>5 DEF Session
        <4>2. session' = session \/ session' = [title |-> i, generated |-> FALSE]
          BY <1>6, <2>2 DEF SaveTurn, WithLiveSession, EnsureSessionRow, i
        <4>3. QED
          BY <4>1, <4>2 DEF TypeOK
      <3>2. user' \in [Turns -> UserTurn \cup {None}]
        <4>1. user' = user \/ UpsertUser(t, i)
          BY <1>6, <2>2 DEF SaveTurn, WithLiveSession, t, i
        <4>2. UpsertUser(t, i) => user' \in [Turns -> UserTurn \cup {None}]
          BY <1>5, UserRows DEF Contents
        <4>3. QED
          BY <4>1, <4>2 DEF TypeOK
      <3>3. assistant' \in [Turns -> AssistantTurn \cup {None}]
        <4>1. CASE UpsertAssistant(t, i)
          BY <1>5, <4>1 DEF UpsertAssistant, TypeOK, AssistantTurn
        <4>2. QED
          BY <1>6, <2>2, <4>1 DEF SaveTurn, WithLiveSession, TypeOK, t, i
      <3>4. QED
        BY <1>3, <1>4, <1>6, <2>2, <3>1, <3>2, <3>3 DEF SaveTurn, WithLiveSession, TypeOK
    <2>3. QED
      BY <2>1, <2>2
  <1>7. CASE SaveCorrectionPreview(w)
    <2> DEFINE c == [of |-> i, content |-> "draft", judge |-> FALSE]
    <2>1. c \in Correction
      BY <1>5 DEF Correction, Contents
    <2>2. user' = user \/ (user[t] # None /\
            user' = [user EXCEPT ![t].unread = FALSE, ![t].correction = c])
      BY <1>7 DEF SaveCorrectionPreview, t, i
    <2> HIDE DEF c
    <2>3. user' \in [Turns -> UserTurn \cup {None}]
      <3>1. ASSUME user[t] # None,
                   user' = [user EXCEPT ![t].unread = FALSE, ![t].correction = c]
            PROVE  user' \in [Turns -> UserTurn \cup {None}]
        <4>1. user[t] \in UserTurn
          BY <1>5, <3>1 DEF TypeOK
        <4>2. QED
          BY <1>5, <2>1, <3>1, <4>1 DEF TypeOK, UserTurn
      <3>2. QED
        BY <2>2, <3>1 DEF TypeOK
    <2>4. QED
      BY <1>3, <1>4, <1>7, <2>3 DEF SaveCorrectionPreview, TypeOK
  <1>8. CASE SaveFinalEvent(w)
    <2>1. SaveCorrectionFinal(t, i, w.content, i \notin drafted \/ w.content # "draft")
      BY <1>8 DEF SaveFinalEvent, t, i
    <2>2. w.content \in Contents
      BY <1>2, <1>8 DEF SaveFinalEvent
    <2>3. /\ user' \in [Turns -> UserTurn \cup {None}]
          /\ correction' \in [Turns -> Statuses]
          /\ missed' \subseteq Turns
      BY <1>5, <2>1, <2>2, UserRows
    <2>4. QED
      BY <1>3, <1>4, <1>8, <2>3 DEF SaveFinalEvent, TypeOK
  <1>9. CASE FailCorrectionJob(w)
    <2>1. FailJob(t) => correction' \in [Turns -> Statuses]
      BY <1>5, UserRows DEF Contents
    <2>2. QED
      BY <1>3, <1>4, <1>9, <2>1 DEF FailCorrectionJob, TypeOK, t
  <1>10. CASE SaveGeneratedTitle(w)
    <2>1. session' \in Session \cup {None}
      <3>1. [title |-> i, generated |-> TRUE] \in Session
        BY <1>5 DEF Session
      <3>2. session' = session \/ session' = [title |-> i, generated |-> TRUE]
        BY <1>10 DEF SaveGeneratedTitle, WithLiveSession, i
      <3>3. QED
        BY <3>1, <3>2 DEF TypeOK
    <2>2. UNCHANGED <<user, assistant, replyJob, correction, history>>
      BY <1>10 DEF SaveGeneratedTitle, WithLiveSession
    <2>3. QED
      BY <1>3, <1>4, <2>1, <2>2 DEF TypeOK
  <1>11. QED
    BY <1>1, <1>6, <1>7, <1>8, <1>9, <1>10

LEMMA ReplyTypes ==
  ASSUME TypeInv, NEW i \in Texts,
         ReserveAssistantTurn(i) \/ CompleteAssistantTurn(i) \/ ReplyDirect(i)
  PROVE  TypeInv'
  <1> USE RoomsAssumption DEF TypeInv, rows, live, work, history
  <1>1. i \in 0 .. sent /\ num[i] \in Turns
    <2>1. reply[i] # "none"
      BY DEF ReserveAssistantTurn, CompleteAssistantTurn, ReplyDirect
    <2>2. i <= sent /\ sent \in Texts
      BY <2>1 DEF TypeOK, Numbered
    <2>3. i \in 0 .. sent
      BY <2>2 DEF Texts
    <2>4. QED
      BY <2>3 DEF Numbered
  <1>2. CASE ReserveAssistantTurn(i)
    <2>1. Numbered'
      BY <1>1, <1>2, StillNumbered DEF ReserveAssistantTurn, TypeOK
    <2>2. /\ assistant' \in [Turns -> AssistantTurn \cup {None}]
          /\ replyJob' \in [Turns -> Statuses]
      BY <1>1, <1>2 DEF ReserveAssistantTurn, WithLiveSession, TypeOK, AssistantTurn, Statuses
    <2>3. UNCHANGED <<session, user, correction>>
      BY <1>2 DEF ReserveAssistantTurn, WithLiveSession
    <2>4. QED
      BY <1>2, <2>1, <2>2, <2>3 DEF ReserveAssistantTurn, TypeOK
  <1>3. CASE CompleteAssistantTurn(i) \/ ReplyDirect(i)
    <2>1. OnDone(i)
      BY <1>3 DEF CompleteAssistantTurn, ReplyDirect
    <2>2. late' \subseteq late \cup Due(i)
      <3>1. Pending("assistant", i, None) \in Due(i) /\ Pending("title", i, None) \in Due(i)
        BY DEF Due, Pending, Write
      <3>2. QED
        BY <2>1, <3>1 DEF OnDone, HandOver
    <2>3. UNCHANGED <<hooked, deleted, live, analysis, drafted, backfill, history>>
      BY <1>3 DEF CompleteAssistantTurn, ReplyDirect
    <2>4. /\ reply' = [reply EXCEPT ![i] = "done"]
          /\ reply' \in [Texts -> {"none", "asked", "reserved", "done"}]
      BY <2>1 DEF OnDone, TypeOK
    <2>5. Numbered' /\ late' \subseteq Write
      BY <1>1, <2>2, <2>3, <2>4, StillNumbered DEF TypeOK
    <2>6. CASE CompleteAssistantTurn(i) /\ ~ deleted
      <3>1. session' \in Session \cup {None}
        <4>1. [title |-> i, generated |-> FALSE] \in Session
          BY DEF Session
        <4>2. session' = session \/ session' = [title |-> i, generated |-> FALSE]
          BY <2>6 DEF CompleteAssistantTurn, WithLiveSession, EnsureSessionRow
        <4>3. QED
          BY <4>1, <4>2 DEF TypeOK
      <3>2. /\ assistant' \in [Turns -> AssistantTurn \cup {None}]
            /\ replyJob' \in [Turns -> Statuses]
        BY <1>1, <2>6
        DEF CompleteAssistantTurn, WithLiveSession, TypeOK, AssistantTurn, Statuses
      <3>3. UNCHANGED <<user, correction>>
        BY <2>6 DEF CompleteAssistantTurn, WithLiveSession
      <3>4. QED
        BY <2>3, <2>4, <2>5, <3>1, <3>2, <3>3 DEF TypeOK
    <2>7. CASE deleted \/ ReplyDirect(i)
      <3>1. UNCHANGED rows
        BY <1>3, <2>7 DEF CompleteAssistantTurn, ReplyDirect, WithLiveSession
      <3>2. QED
        BY <2>3, <2>4, <2>5, <3>1 DEF TypeOK
    <2>8. QED
      BY <1>3, <2>6, <2>7
  <1>4. QED
    BY <1>2, <1>3

LEMMA CorrectionTypes ==
  ASSUME TypeInv, NEW i \in Texts,
         \/ Draft(i) \/ ReserveCorrectionJob(i) \/ JudgeDirect(i)
         \/ JudgeQueued(i) \/ JudgeFails(i) \/ Rerun(i)
  PROVE  TypeInv'
  <1> USE RoomsAssumption DEF TypeInv, rows, live, work, history
  <1>1. i \in 0 .. sent /\ num[i] \in Turns
    <2>1. analysis[i] # "none"
      BY DEF Draft, ReserveCorrectionJob, JudgeDirect, JudgeQueued, JudgeFails, Rerun
    <2>2. i <= sent /\ sent \in Texts
      BY <2>1 DEF TypeOK, Numbered
    <2>3. i \in 0 .. sent
      BY <2>2 DEF Texts
    <2>4. QED
      BY <2>3 DEF Numbered
  <1>2. late' \subseteq late \cup Due(i)
    <2>1. /\ Pending("preview", i, "draft") \in Due(i)
          /\ Pending("failed", i, None) \in Due(i)
          /\ \A said \in Contents : Pending("final", i, said) \in Due(i)
      BY DEF Due, Pending, Write, Contents
    <2>2. CASE Draft(i) \/ ReserveCorrectionJob(i) \/ JudgeFails(i) \/ Rerun(i)
      BY <2>1, <2>2 DEF Draft, ReserveCorrectionJob, JudgeFails, Rerun, HandOver
    <2>3. CASE JudgeDirect(i)
      BY <2>1, <2>3 DEF JudgeDirect, HandOver
    <2>4. CASE JudgeQueued(i)
      BY <2>1, <2>4 DEF JudgeQueued, HandOver
    <2>5. QED
      BY <2>2, <2>3, <2>4
  <1>3. /\ UNCHANGED <<hooked, deleted, session, assistant, replyJob, live, reply, backfill,
                       read, early>>
        /\ analysis' \in [Texts -> {"none", "asked", "drafted", "queued", "failing",
                                    "requeued", "ended"}]
        /\ \A j \in Texts \ {i} : analysis'[j] = analysis[j]
    <2>1. CASE Draft(i) \/ JudgeDirect(i) \/ JudgeQueued(i)
      BY <2>1 DEF Draft, JudgeDirect, JudgeQueued, TypeOK
    <2>2. CASE ReserveCorrectionJob(i) \/ JudgeFails(i) \/ Rerun(i)
      BY <2>2 DEF ReserveCorrectionJob, JudgeFails, Rerun, WithLiveSession, TypeOK
    <2>3. QED
      BY <2>1, <2>2
  <1>4. Numbered' /\ late' \subseteq Write
    BY <1>1, <1>2, <1>3, StillNumbered
  <1>5. /\ drafted' \subseteq Texts /\ again' \subseteq Turns /\ mishaps' \in 0 .. MaxMishaps
    <2>1. CASE Draft(i) \/ JudgeDirect(i) \/ JudgeQueued(i)
      BY <1>1, <2>1 DEF Draft, JudgeDirect, JudgeQueued, TypeOK
    <2>2. CASE ReserveCorrectionJob(i) \/ JudgeFails(i) \/ Rerun(i)
      <3>1. mishaps \in 0 .. MaxMishaps /\ again \subseteq Turns /\ drafted \subseteq Texts
        BY DEF TypeOK
      <3>2. /\ drafted' = drafted
            /\ again' = again \/ again' = again \cup {num[i]}
            /\ mishaps' = mishaps \/ (mishaps < MaxMishaps /\ mishaps' = mishaps + 1)
        <4>1. CASE ReserveCorrectionJob(i) \/ JudgeFails(i)
          BY <4>1 DEF ReserveCorrectionJob, JudgeFails
        <4>2. CASE Rerun(i)
          BY <4>2 DEF Rerun, Mishap
        <4>3. QED
          BY <2>2, <4>1, <4>2
      <3>3. QED
        BY <1>1, <3>1, <3>2
    <2>3. QED
      BY <2>1, <2>2
  <1>6. /\ user' \in [Turns -> UserTurn \cup {None}]
        /\ correction' \in [Turns -> Statuses]
        /\ missed' \subseteq Turns
    <2>1. CASE Draft(i) \/ JudgeDirect(i) \/ Rerun(i)
      BY <2>1 DEF Draft, JudgeDirect, Rerun, TypeOK
    <2>2. CASE ReserveCorrectionJob(i)
      BY <1>1, <2>2 DEF ReserveCorrectionJob, WithLiveSession, TypeOK, Statuses
    <2>3. CASE JudgeFails(i)
      BY <1>1, <2>3 DEF JudgeFails, FailJob, TypeOK, Statuses
    <2>4. CASE JudgeQueued(i)
      <3>1. PICK said \in Contents :
              IF deleted THEN UNCHANGED <<user, correction, missed>> ELSE
                SaveCorrectionFinal(num[i], i, said, i \notin drafted \/ said # "draft")
        BY <2>4 DEF JudgeQueued
      <3>2. QED
        BY <1>1, <3>1, UserRows DEF TypeOK
    <2>5. QED
      BY <2>1, <2>2, <2>3, <2>4
  <1>7. QED
    BY <1>3, <1>4, <1>5, <1>6 DEF TypeOK

LEMMA VisitTypes ==
  ASSUME TypeInv, NEW t \in Turns, BackfillTurn(t) \/ MarkCorrectionRead(t)
  PROVE  TypeInv'
  <1> USE RoomsAssumption DEF TypeInv, rows, live, work, history
  <1>1. CASE BackfillTurn(t)
    <2>1. CASE deleted \/ user[t] = None
      BY <1>1, <2>1 DEF BackfillTurn, TypeOK, Numbered
    <2>2. CASE ~ (deleted \/ user[t] = None)
      <3>1. PICK said \in Contents : SaveCorrectionFinal(t, user[t].text, said, TRUE)
        BY <1>1, <2>2 DEF BackfillTurn
      <3>2. user[t].text \in Texts
        BY <2>2 DEF TypeOK, UserTurn
      <3>3. /\ user' \in [Turns -> UserTurn \cup {None}]
            /\ correction' \in [Turns -> Statuses]
            /\ missed' \subseteq Turns
        BY <3>1, <3>2, UserRows
      <3>4. again' \subseteq Turns /\ backfill' \subseteq Turns
        BY <1>1, <2>2 DEF BackfillTurn, TypeOK
      <3>5. QED
        BY <1>1, <3>3, <3>4 DEF BackfillTurn, TypeOK, Numbered
    <2>3. QED
      BY <2>1, <2>2
  <1>2. CASE MarkCorrectionRead(t)
    <2>1. user[t] \in UserTurn /\ user[t].correction \in Correction
      BY <1>2 DEF MarkCorrectionRead, HasVerdict, TypeOK, UserTurn
    <2>2. user' \in [Turns -> UserTurn \cup {None}] /\ read' \subseteq Turns \X Correction
      <3>1. user' = [user EXCEPT ![t].unread = FALSE]
        BY <1>2 DEF MarkCorrectionRead
      <3>2. user' \in [Turns -> UserTurn \cup {None}]
        BY <2>1, <3>1 DEF TypeOK, UserTurn
      <3>3. read' \subseteq Turns \X Correction
        BY <1>2, <2>1 DEF MarkCorrectionRead, TypeOK
      <3>4. QED
        BY <3>2, <3>3
    <2>3. QED
      BY <1>2, <2>2 DEF MarkCorrectionRead, TypeOK, Numbered
  <1>3. QED
    BY <1>1, <1>2

LEMMA TypeNext == TypeInv /\ [Next]_vars => TypeInv'
  <1> SUFFICES ASSUME TypeInv, [Next]_vars
               PROVE  TypeInv'
    OBVIOUS
  <1> USE DEF rows, live, work, history
  <1>1. CASE StartBackfill
    BY <1>1, RoomsAssumption DEF StartBackfill, Mishap, TypeInv, TypeOK, Numbered
  <1>2. CASE DeleteSession
    BY <1>2 DEF DeleteSession, TypeInv, TypeOK, Numbered, Statuses
  <1>3. CASE UNCHANGED vars
    BY <1>3 DEF vars, TypeInv, TypeOK, Numbered
  <1>4. QED
    BY <1>1, <1>2, <1>3, ConnTypes, LateTypes, ReplyTypes, CorrectionTypes, VisitTypes
    DEF Next

LEMMA TypeInvariant == Spec => []TypeInv
  BY TypeInit, TypeNext, PTL DEF Spec

(* Every variable keeps to its type. *)
THEOREM RoomTypes == Spec => []TypeOK
  BY TypeInvariant, PTL DEF TypeInv

-----------------------------------------------------------------------------
(* All that can happen to the rows in one step, but for the deletion. *)
RowStep ==
  /\ deleted' = deleted
  /\ \/ UNCHANGED <<rows, missed>>
     \/ \E w \in late :
          /\ w.input \in Texts /\ num[w.input] \in Turns
          /\ SaveTurn(w) \/ SaveGeneratedTitle(w) \/ SaveCorrectionPreview(w)
     \/ /\ \E t \in Turns, i \in Texts, said \in Contents, unread \in BOOLEAN :
             SaveCorrectionFinal(t, i, said, unread)
        /\ UNCHANGED <<session, assistant, replyJob>>
     \/ /\ \E t \in Turns : FailJob(t)
        /\ UNCHANGED <<session, user, assistant, replyJob, missed>>
     \/ \E i \in Texts :
          /\ num[i] \in Turns
          /\ ReserveAssistantTurn(i) \/ CompleteAssistantTurn(i) \/ ReserveCorrectionJob(i)
     \/ \E t \in Turns : MarkCorrectionRead(t)

LEMMA StepsOfRows ==
  ASSUME TypeInv, [Next]_vars
  PROVE  RowStep \/ DeleteSession
  <1> USE DEF rows, live, work, history
  <1>1. \A i \in Texts : reply[i] # "none" \/ analysis[i] # "none" => num[i] \in Turns
    BY RoomsAssumption DEF TypeInv, TypeOK, Numbered, Texts
  <1>2. CASE \E c \in Conns : Open(c) \/ Close(c) \/ Send(c)
    BY <1>2 DEF Open, Close, Send, RowStep
  <1>3. ASSUME ApplyLate
        PROVE  RowStep
    <2>1. PICK w \in late :
            \/ SaveTurn(w) \/ SaveCorrectionPreview(w) \/ SaveFinalEvent(w)
            \/ FailCorrectionJob(w) \/ SaveGeneratedTitle(w)
      BY <1>3 DEF ApplyLate
    <2>2. /\ w.input \in Texts /\ num[w.input] \in Turns
          /\ w.op = "final" => w.content \in Contents
      BY RoomsAssumption DEF TypeInv, TypeOK, Numbered, Write, Texts
    <2>3. CASE SaveTurn(w) \/ SaveCorrectionPreview(w) \/ SaveGeneratedTitle(w)
      BY <2>2, <2>3 DEF SaveTurn, SaveCorrectionPreview, SaveGeneratedTitle, RowStep
    <2>4. CASE SaveFinalEvent(w)
      BY <2>2, <2>4 DEF SaveFinalEvent, RowStep
    <2>5. CASE FailCorrectionJob(w)
      BY <2>2, <2>5 DEF FailCorrectionJob, RowStep
    <2>6. QED
      BY <2>1, <2>3, <2>4, <2>5
  <1>4. ASSUME NEW i \in Texts,
               \/ ReserveAssistantTurn(i) \/ CompleteAssistantTurn(i) \/ ReplyDirect(i)
               \/ Draft(i) \/ ReserveCorrectionJob(i) \/ JudgeDirect(i)
               \/ JudgeQueued(i) \/ JudgeFails(i) \/ Rerun(i)
        PROVE  RowStep
    <2>1. CASE ReserveAssistantTurn(i) \/ CompleteAssistantTurn(i) \/ ReserveCorrectionJob(i)
      <3>1. num[i] \in Turns /\ deleted' = deleted
        BY <1>1, <2>1 DEF ReserveAssistantTurn, CompleteAssistantTurn, ReserveCorrectionJob
      <3>2. QED
        BY <2>1, <3>1 DEF RowStep
    <2>2. CASE ReplyDirect(i) \/ Draft(i) \/ JudgeDirect(i) \/ Rerun(i)
      BY <2>2 DEF ReplyDirect, Draft, JudgeDirect, Rerun, RowStep
    <2>3. CASE JudgeQueued(i)
      <3>1. num[i] \in Turns
        BY <1>1, <2>3 DEF JudgeQueued
      <3>2. QED
        BY <2>3, <3>1 DEF JudgeQueued, RowStep
    <2>4. CASE JudgeFails(i)
      <3>1. num[i] \in Turns
        BY <1>1, <2>4 DEF JudgeFails
      <3>2. QED
        BY <2>4, <3>1 DEF JudgeFails, RowStep
    <2>5. QED
      BY <1>4, <2>1, <2>2, <2>3, <2>4
  <1>5. CASE StartBackfill \/ UNCHANGED vars
    BY <1>5 DEF StartBackfill, vars, RowStep
  <1>6. ASSUME NEW t \in Turns, BackfillTurn(t)
        PROVE  RowStep
    <2>1. CASE deleted \/ user[t] = None
      BY <1>6, <2>1 DEF BackfillTurn, RowStep
    <2>2. CASE ~ (deleted \/ user[t] = None)
      <3>1. user[t].text \in Texts
        BY <2>2 DEF TypeInv, TypeOK, UserTurn
      <3>2. PICK said \in Contents : SaveCorrectionFinal(t, user[t].text, said, TRUE)
        BY <1>6, <2>2 DEF BackfillTurn
      <3>3. UNCHANGED <<deleted, session, assistant, replyJob>>
        BY <1>6 DEF BackfillTurn
      <3>4. QED
        BY <3>1, <3>2, <3>3 DEF RowStep
    <2>3. QED
      BY <2>1, <2>2
  <1>7. ASSUME NEW t \in Turns, MarkCorrectionRead(t)
        PROVE  RowStep
    BY <1>7 DEF RowStep, MarkCorrectionRead
  <1>8. QED
    BY <1>2, <1>3, <1>4, <1>5, <1>6, <1>7 DEF Next

LEMMA DeletedStays ==
  TypeInv /\ NothingSurvivesDeletion /\ [Next]_vars => NothingSurvivesDeletion'
  <1> SUFFICES ASSUME TypeInv, NothingSurvivesDeletion, [Next]_vars
               PROVE  NothingSurvivesDeletion'
    OBVIOUS
  <1> USE DEF NothingSurvivesDeletion, rows
  <1>1. CASE DeleteSession
    BY <1>1 DEF DeleteSession
  <1>2. ASSUME RowStep, deleted
        PROVE  UNCHANGED <<deleted, rows>>
    <2>1. CASE \E w \in late : SaveTurn(w) \/ SaveGeneratedTitle(w)
      BY <1>2, <2>1 DEF SaveTurn, SaveGeneratedTitle, WithLiveSession
    <2>2. CASE \E w \in late : num[w.input] \in Turns /\ SaveCorrectionPreview(w)
      BY <1>2, <2>2 DEF SaveCorrectionPreview
    <2>3. CASE /\ \E t \in Turns, i \in Texts, said \in Contents, unread \in BOOLEAN :
                    SaveCorrectionFinal(t, i, said, unread)
               /\ UNCHANGED <<session, assistant, replyJob>>
      BY <1>2, <2>3 DEF SaveCorrectionFinal, RowStep
    <2>4. CASE /\ \E t \in Turns : FailJob(t)
               /\ UNCHANGED <<session, user, assistant, replyJob, missed>>
      BY <1>2, <2>4 DEF FailJob, RowStep
    <2>5. CASE \E i \in Texts : \/ ReserveAssistantTurn(i) \/ CompleteAssistantTurn(i)
                                \/ ReserveCorrectionJob(i)
      BY <1>2, <2>5
      DEF ReserveAssistantTurn, CompleteAssistantTurn, ReserveCorrectionJob, WithLiveSession
    <2>6. CASE \E t \in Turns : MarkCorrectionRead(t)
      BY <1>2, <2>6 DEF MarkCorrectionRead, HasVerdict
    <2>7. QED
      BY <1>2, <2>1, <2>2, <2>3, <2>4, <2>5, <2>6 DEF RowStep
  <1>3. QED
    BY <1>1, <1>2, StepsOfRows DEF RowStep

(* Nothing that is still to be written when a room is deleted makes a row  *)
(* of it again (mysql_lifetime.go, WithLiveSession; ws_persist.go).        *)
THEOREM DeletedForGood == Spec => []NothingSurvivesDeletion
  <1>1. Init => NothingSurvivesDeletion
    BY DEF Init, NothingSurvivesDeletion
  <1>2. QED
    BY <1>1, DeletedStays, TypeInvariant, PTL DEF Spec

-----------------------------------------------------------------------------
(* A row of the learner is never taken back, nor a verdict in it. *)
UserStays ==
  \A t \in Turns : user[t] # None => user'[t] # None /\ (HasVerdict(t) => HasVerdict(t)')

LEMMA FinalStays ==
  ASSUME TypeInv, NEW t \in Turns, NEW i \in Texts, NEW said \in Contents,
         NEW unread \in BOOLEAN, SaveCorrectionFinal(t, i, said, unread)
  PROVE  /\ UserStays
         /\ user[t] # None =>
              LET c == [of |-> i, content |-> said, judge |-> TRUE] IN
              /\ HasVerdict(t)'
              /\ user'[t].correction = c /\ user'[t].unread = Unread(t, c, unread)
         /\ \A s \in Turns \ {t} : user'[s] = user[s]
  <1> DEFINE c == [of |-> i, content |-> said, judge |-> TRUE]
  <1> USE DEF TypeInv, TypeOK
  <1>1. c \in Correction /\ c # None /\ c.judge
    <2>1. c \in Correction /\ c.judge
      BY DEF Correction
    <2>2. QED
      BY <2>1, RowAssumption
  <1>2. CASE user[t] = None
    BY <1>2 DEF SaveCorrectionFinal, UserStays, HasVerdict
  <1>3. CASE user[t] # None
    <2>1. /\ user[t] \in UserTurn
          /\ user' = [user EXCEPT ![t].unread = Unread(t, c, unread), ![t].correction = c]
      BY <1>3 DEF SaveCorrectionFinal
    <2>2. Unread(t, c, unread) \in BOOLEAN
      BY <2>1 DEF Unread, UserTurn
    <2> HIDE DEF c
    <2>3. /\ user'[t] \in UserTurn /\ user'[t].correction = c
          /\ user'[t].unread = Unread(t, c, unread)
          /\ \A s \in Turns \ {t} : user'[s] = user[s]
      BY <1>1, <2>1, <2>2 DEF UserTurn
    <2>4. user'[t] # None /\ HasVerdict(t)'
      BY <1>1, <2>3, RowAssumption DEF HasVerdict
    <2>5. UserStays
      BY <2>3, <2>4 DEF UserStays, HasVerdict
    <2>6. QED
      BY <2>3, <2>4, <2>5 DEF c
  <1>4. QED
    BY <1>2, <1>3

LEMMA UpsertStays ==
  ASSUME TypeInv, NEW t \in Turns, NEW i \in Texts, UpsertUser(t, i)
  PROVE  /\ UserStays
         /\ user'[t] # None
         /\ user[t] = None => ~ (HasVerdict(t)')
         /\ user[t] # None => /\ user'[t].correction = user[t].correction
                              /\ user'[t].unread = user[t].unread
         /\ \A s \in Turns \ {t} : user'[s] = user[s]
  <1> USE DEF TypeInv, TypeOK
  <1>1. CASE user[t] = None
    <2>1. /\ user'[t] = [text |-> i, correction |-> None, unread |-> FALSE]
          /\ \A s \in Turns \ {t} : user'[s] = user[s]
      BY <1>1 DEF UpsertUser
    <2>2. user'[t] \in UserTurn
      BY <2>1 DEF UserTurn
    <2>3. user'[t] # None
      BY <2>2, RowAssumption
    <2>4. user'[t].correction = None
      BY <2>1
    <2>5. QED
      BY <1>1, <2>1, <2>3, <2>4 DEF UserStays, HasVerdict
  <1>2. CASE user[t] # None
    <2>1. user[t] \in UserTurn /\ user' = [user EXCEPT ![t] = [@ EXCEPT !.text = i]]
      BY <1>2 DEF UpsertUser
    <2>2. /\ user'[t] \in UserTurn
          /\ user'[t].correction = user[t].correction /\ user'[t].unread = user[t].unread
          /\ \A s \in Turns \ {t} : user'[s] = user[s]
      BY <2>1 DEF UserTurn
    <2>3. user'[t] # None
      BY <2>2, RowAssumption
    <2>4. QED
      BY <1>2, <2>2, <2>3 DEF UserStays, HasVerdict
  <1>3. QED
    BY <1>1, <1>2

LEMMA PreviewStays ==
  ASSUME TypeInv, NEW w, num[w.input] \in Turns, w.input \in Texts, SaveCorrectionPreview(w)
  PROVE  \/ user' = user
         \/ \E t \in Turns :
              /\ user[t] # None /\ ~ HasVerdict(t)
              /\ user'[t] # None /\ ~ (HasVerdict(t)')
              /\ \A s \in Turns \ {t} : user'[s] = user[s]
  <1> DEFINE c == [of |-> w.input, content |-> "draft", judge |-> FALSE]
  <1> USE DEF TypeInv, TypeOK
  <1>0. PICK t \in Turns : t = num[w.input]
    OBVIOUS
  <1>1. c \in Correction /\ ~ c.judge
    BY DEF Correction, Contents
  <1>2. ASSUME user[t] # None, ~ HasVerdict(t)
        PROVE  /\ user'[t] # None /\ ~ (HasVerdict(t)')
               /\ \A s \in Turns \ {t} : user'[s] = user[s]
    <2>1. /\ user[t] \in UserTurn
          /\ user' = [user EXCEPT ![t].unread = FALSE, ![t].correction = c]
      BY <1>0, <1>2 DEF SaveCorrectionPreview
    <2> HIDE DEF c
    <2>3. /\ user'[t] \in UserTurn /\ user'[t].correction = c
          /\ \A s \in Turns \ {t} : user'[s] = user[s]
      BY <1>1, <2>1 DEF UserTurn
    <2>4. QED
      BY <1>1, <2>3, RowAssumption DEF HasVerdict
  <1>3. ASSUME user[t] = None \/ HasVerdict(t)
        PROVE  user' = user
    BY <1>0, <1>3 DEF SaveCorrectionPreview
  <1>4. QED
    BY <1>2, <1>3

LEMMA ReadStaysSame ==
  ASSUME TypeInv, NEW t \in Turns, MarkCorrectionRead(t)
  PROVE  /\ user[t] # None /\ user'[t] # None
         /\ user'[t].correction = user[t].correction /\ user'[t].unread = FALSE
         /\ \A s \in Turns \ {t} : user'[s] = user[s]
  <1> USE DEF TypeInv, TypeOK
  <1>1. user[t] \in UserTurn /\ user' = [user EXCEPT ![t].unread = FALSE]
    BY DEF MarkCorrectionRead, HasVerdict
  <1>2. /\ user'[t] \in UserTurn
        /\ user'[t].correction = user[t].correction /\ user'[t].unread = FALSE
        /\ \A s \in Turns \ {t} : user'[s] = user[s]
    BY <1>1 DEF UserTurn
  <1>3. QED
    BY <1>1, <1>2, RowAssumption

(* What SaveTurn of the learner's text or another step does to the row. *)
LEMMA SaveTurnUser ==
  ASSUME NEW w, SaveTurn(w)
  PROVE  \/ user' = user
         \/ w.op = "user" /\ UpsertUser(num[w.input], w.input)
  BY DEF SaveTurn, WithLiveSession, rows

LEMMA RowsStay ==
  ASSUME TypeInv, [Next]_vars
  PROVE  DeleteSession \/ UserStays
  <1>1. user' = user => UserStays
    BY DEF UserStays, HasVerdict
  <1>2. ASSUME RowStep, user' # user
        PROVE  UserStays
    <2>1. ASSUME NEW w \in late, w.input \in Texts, num[w.input] \in Turns,
                 SaveTurn(w) \/ SaveGeneratedTitle(w) \/ SaveCorrectionPreview(w)
          PROVE  UserStays
      <3>1. CASE SaveTurn(w)
        BY <1>2, <2>1, <3>1, SaveTurnUser, UpsertStays
      <3>2. CASE SaveGeneratedTitle(w)
        BY <1>1, <3>2 DEF SaveGeneratedTitle, WithLiveSession, rows
      <3>3. CASE SaveCorrectionPreview(w)
        BY <1>1, <2>1, <3>3, PreviewStays DEF UserStays, HasVerdict
      <3>4. QED
        BY <2>1, <3>1, <3>2, <3>3
    <2>2. ASSUME NEW t \in Turns, MarkCorrectionRead(t)
          PROVE  UserStays
      BY <2>2, ReadStaysSame DEF UserStays, HasVerdict
    <2>3. ASSUME NEW i \in Texts,
                 ReserveAssistantTurn(i) \/ CompleteAssistantTurn(i) \/ ReserveCorrectionJob(i)
          PROVE  user' = user
      BY <2>3 DEF ReserveAssistantTurn, CompleteAssistantTurn, ReserveCorrectionJob,
                  WithLiveSession, rows
    <2>4. QED
      BY <1>2, <2>1, <2>2, <2>3, FinalStays DEF RowStep, rows
  <1>3. QED
    BY <1>1, <1>2, StepsOfRows

(* A generated title is not replaced by a placeholder, nor a verdict by a  *)
(* draft, for any number of texts, connections and late writes             *)
(* (mysql_turns.go, EnsureSessionRow and SaveCorrectionPreview).           *)
THEOREM FinalResultsStand == Spec => ResultsStand
  <1>1. ASSUME TypeInv, [Next]_vars, session # None, session.generated, session' # None
        PROVE  session'.generated
    <2>1. \/ session' = session
          \/ \E i \in Texts : session' = [title |-> i, generated |-> TRUE]
      <3>1. CASE DeleteSession
        BY <1>1, <3>1 DEF DeleteSession
      <3>2. ASSUME NEW w \in late, w.input \in Texts,
                   SaveTurn(w) \/ SaveGeneratedTitle(w) \/ SaveCorrectionPreview(w)
            PROVE  \/ session' = session
                   \/ session' = [title |-> w.input, generated |-> TRUE]
        BY <1>1, <3>2 DEF SaveTurn, SaveGeneratedTitle, SaveCorrectionPreview,
                          EnsureSessionRow, WithLiveSession, rows
      <3>3. ASSUME NEW i \in Texts,
                   ReserveAssistantTurn(i) \/ CompleteAssistantTurn(i) \/ ReserveCorrectionJob(i)
            PROVE  session' = session
        BY <1>1, <3>3 DEF ReserveAssistantTurn, CompleteAssistantTurn, ReserveCorrectionJob,
                          EnsureSessionRow, WithLiveSession, rows
      <3>4. ASSUME NEW t \in Turns, MarkCorrectionRead(t)
            PROVE  session' = session
        BY <3>4 DEF MarkCorrectionRead
      <3>5. QED
        BY <1>1, <3>1, <3>2, <3>3, <3>4, StepsOfRows DEF RowStep, rows
    <2>2. QED
      BY <1>1, <2>1
  <1>2. ASSUME TypeInv, [Next]_vars, NEW t \in Turns, HasVerdict(t)
        PROVE  HasVerdict(t)' \/ user'[t] = None
    BY <1>2, RowsStay DEF UserStays, DeleteSession, HasVerdict
  <1>3. TypeInv /\ [Next]_vars =>
          [/\ session # None /\ session.generated /\ session' # None => session'.generated
           /\ \A t \in Turns : HasVerdict(t) => HasVerdict(t)' \/ user'[t] = None]_vars
    BY <1>1, <1>2
  <1>4. QED
    BY <1>3, TypeInvariant, PTL DEF Spec, ResultsStand

-----------------------------------------------------------------------------
(* A reply's job has a row only if its placeholder has. *)
ReplyReadable ==
  \A t \in Turns :
    /\ replyJob[t] # None => assistant[t] # None
    /\ replyJob[t] = "done" => assistant[t].text # None

VerdictReadable ==
  \A t \in Turns : correction[t] = "done" => HasVerdict(t) \/ t \in missed

LEMMA ReplyStaysReadable ==
  ASSUME TypeInv, ReplyReadable, [Next]_vars
  PROVE  ReplyReadable'
  <1> USE DEF TypeInv, TypeOK, rows
  <1>0. \A i \in Texts : i # None
    BY RoomsAssumption DEF Texts
  <1>1. CASE UNCHANGED <<assistant, replyJob>>
    BY <1>1 DEF ReplyReadable
  <1>2. CASE DeleteSession
    BY <1>2, RowAssumption DEF DeleteSession, ReplyReadable
  <1>3. ASSUME NEW w \in late, w.input \in Texts, num[w.input] \in Turns, SaveTurn(w)
        PROVE  ReplyReadable'
    <2>1. PICK t \in Turns : t = num[w.input]
      BY <1>3
    <2>2. CASE UpsertAssistant(t, w.input) /\ replyJob' = replyJob
      <3>1. /\ assistant'[t] # None /\ assistant'[t].text # None
            /\ \A s \in Turns \ {t} : assistant'[s] = assistant[s]
        <4>1. CASE assistant[t] = None
          <5>1. assistant'[t] = [text |-> w.input]
            BY <2>2, <4>1 DEF UpsertAssistant
          <5>2. assistant'[t] \in AssistantTurn
            BY <1>3, <5>1 DEF AssistantTurn
          <5>3. QED
            BY <1>0, <1>3, <2>2, <5>1, <5>2, RowAssumption DEF UpsertAssistant
        <4>2. CASE assistant[t] # None
          <5>1. assistant[t] \in AssistantTurn
            BY <4>2
          <5>2. assistant'[t] \in AssistantTurn /\ assistant'[t].text = w.input
            BY <1>3, <2>2, <4>2, <5>1 DEF UpsertAssistant, AssistantTurn
          <5>3. QED
            BY <1>0, <1>3, <2>2, <5>2, RowAssumption DEF UpsertAssistant
        <4>3. QED
          BY <4>1, <4>2
      <3>2. QED
        BY <2>2, <3>1 DEF ReplyReadable
    <2>3. QED
      BY <1>1, <1>3, <2>1, <2>2 DEF SaveTurn, WithLiveSession
  <1>4. ASSUME NEW i \in Texts, num[i] \in Turns, ReserveAssistantTurn(i)
        PROVE  ReplyReadable'
    <2>1. PICK t \in Turns : t = num[i]
      BY <1>4
    <2>2. CASE deleted
      BY <1>1, <1>4, <2>2 DEF ReserveAssistantTurn, WithLiveSession
    <2>3. CASE ~ deleted
      <3>1. /\ assistant' = IF assistant[t] # None THEN assistant
                            ELSE [assistant EXCEPT ![t] = [text |-> None]]
            /\ replyJob' = IF replyJob[t] # None THEN replyJob
                           ELSE [replyJob EXCEPT ![t] = "pending"]
        BY <1>4, <2>1, <2>3 DEF ReserveAssistantTurn, WithLiveSession
      <3>2. [text |-> None] # None
        BY RowAssumption DEF AssistantTurn
      <3>3. assistant'[t] # None /\ (replyJob'[t] = "done" => assistant'[t] = assistant[t])
        BY <3>1, <3>2 DEF ReplyReadable
      <3>4. \A s \in Turns \ {t} : assistant'[s] = assistant[s] /\ replyJob'[s] = replyJob[s]
        BY <3>1
      <3>5. replyJob'[t] = "done" => replyJob[t] = "done"
        BY <3>1
      <3>6. QED
        BY <3>3, <3>4, <3>5 DEF ReplyReadable
    <2>4. QED
      BY <2>2, <2>3
  <1>5. ASSUME NEW i \in Texts, num[i] \in Turns, CompleteAssistantTurn(i)
        PROVE  ReplyReadable'
    <2>1. PICK t \in Turns : t = num[i]
      BY <1>5
    <2>2. CASE deleted
      BY <1>1, <1>5, <2>2 DEF CompleteAssistantTurn, WithLiveSession
    <2>3. CASE ~ deleted
      <3>1. /\ assistant' = IF assistant[t] = None THEN assistant
                            ELSE [assistant EXCEPT ![t].text = i]
            /\ replyJob' = IF replyJob[t] = None THEN replyJob
                           ELSE [replyJob EXCEPT ![t] = "done"]
        BY <1>5, <2>1, <2>3 DEF CompleteAssistantTurn, WithLiveSession
      <3>2. CASE assistant[t] = None
        BY <3>1, <3>2 DEF ReplyReadable
      <3>3. CASE assistant[t] # None
        <4>1. assistant[t] \in AssistantTurn
          BY <3>3
        <4>2. assistant'[t] \in AssistantTurn /\ assistant'[t].text = i
          BY <3>1, <3>3, <4>1 DEF AssistantTurn
        <4>3. assistant'[t] # None /\ assistant'[t].text # None
          BY <1>0, <4>2, RowAssumption
        <4>4. \A s \in Turns \ {t} : assistant'[s] = assistant[s] /\ replyJob'[s] = replyJob[s]
          BY <3>1
        <4>5. QED
          BY <4>3, <4>4 DEF ReplyReadable
      <3>4. QED
        BY <3>2, <3>3
    <2>4. QED
      BY <2>2, <2>3
  <1>6. ASSUME RowStep, ~ UNCHANGED <<assistant, replyJob>>
        PROVE  \/ \E w \in late : w.input \in Texts /\ num[w.input] \in Turns /\ SaveTurn(w)
               \/ \E i \in Texts : /\ num[i] \in Turns
                                   /\ ReserveAssistantTurn(i) \/ CompleteAssistantTurn(i)
    <2>1. ASSUME NEW w \in late, SaveGeneratedTitle(w) \/ SaveCorrectionPreview(w)
          PROVE  UNCHANGED <<assistant, replyJob>>
      BY <2>1 DEF SaveGeneratedTitle, SaveCorrectionPreview, WithLiveSession
    <2>2. ASSUME NEW i \in Texts, ReserveCorrectionJob(i)
          PROVE  UNCHANGED <<assistant, replyJob>>
      BY <2>2 DEF ReserveCorrectionJob, WithLiveSession
    <2>3. ASSUME NEW t \in Turns, MarkCorrectionRead(t)
          PROVE  UNCHANGED <<assistant, replyJob>>
      BY <2>3 DEF MarkCorrectionRead
    <2>4. QED
      BY <1>6, <2>1, <2>2, <2>3 DEF RowStep
  <1>7. QED
    BY <1>1, <1>2, <1>3, <1>4, <1>5, <1>6, StepsOfRows

LEMMA VerdictStaysReadable ==
  ASSUME TypeInv, VerdictReadable, [Next]_vars
  PROVE  VerdictReadable'
  <1> USE DEF TypeInv, TypeOK, rows
  <1>1. CASE DeleteSession
    <2>1. \A t \in Turns : correction'[t] = None
      BY <1>1 DEF DeleteSession
    <2>2. None # "done"
      BY RowAssumption DEF VerdictReadable
    <2>3. QED
      BY <2>1, <2>2 DEF VerdictReadable
  <1>2. ASSUME UserStays, missed \subseteq missed',
               \A t \in Turns : correction'[t] = "done" =>
                 correction[t] = "done" \/ HasVerdict(t)' \/ t \in missed'
        PROVE  VerdictReadable'
    BY <1>2 DEF VerdictReadable, UserStays, HasVerdict
  <1>3. ASSUME NEW t \in Turns, NEW i \in Texts, NEW said \in Contents,
               NEW unread \in BOOLEAN, SaveCorrectionFinal(t, i, said, unread)
        PROVE  VerdictReadable'
    <2>1. \A s \in Turns \ {t} : correction'[s] = correction[s]
      BY <1>3 DEF SaveCorrectionFinal
    <2>2. missed \subseteq missed' /\ (HasVerdict(t)' \/ t \in missed')
      BY <1>3, FinalStays DEF SaveCorrectionFinal
    <2>3. UserStays
      BY <1>3, FinalStays
    <2>4. QED
      BY <1>2, <2>1, <2>2, <2>3
  <1>4. ASSUME RowStep, UserStays, ~ VerdictReadable'
        PROVE  FALSE
    <2>1. CASE UNCHANGED <<correction, missed>>
      BY <1>2, <1>4, <2>1
    <2>2. ASSUME NEW w \in late,
                 SaveTurn(w) \/ SaveGeneratedTitle(w) \/ SaveCorrectionPreview(w)
          PROVE  UNCHANGED <<correction, missed>>
      BY <2>2 DEF SaveTurn, SaveGeneratedTitle, SaveCorrectionPreview, WithLiveSession, history
    <2>3. ASSUME NEW t \in Turns, FailJob(t), missed' = missed
          PROVE  FALSE
      <3>1. \A s \in Turns : correction'[s] = "done" => correction[s] = "done"
        BY <2>3 DEF FailJob
      <3>2. QED
        BY <1>2, <1>4, <2>3, <3>1
    <2>4. ASSUME NEW i \in Texts, num[i] \in Turns,
                 ReserveAssistantTurn(i) \/ CompleteAssistantTurn(i) \/ ReserveCorrectionJob(i)
          PROVE  FALSE
      <3>1. missed' = missed
        BY <2>4 DEF ReserveAssistantTurn, CompleteAssistantTurn, ReserveCorrectionJob, history
      <3>2. CASE ReserveAssistantTurn(i) \/ CompleteAssistantTurn(i)
        BY <2>1, <3>1, <3>2 DEF ReserveAssistantTurn, CompleteAssistantTurn, WithLiveSession
      <3>3. CASE ReserveCorrectionJob(i)
        <4>1. \/ correction' = correction
              \/ correction' = [correction EXCEPT ![num[i]] = "pending"]
          BY <3>3 DEF ReserveCorrectionJob, WithLiveSession
        <4>2. \A s \in Turns : correction'[s] = "done" => correction[s] = "done"
          BY <2>4, <4>1
        <4>3. QED
          BY <1>2, <1>4, <3>1, <4>2
      <3>4. QED
        BY <2>4, <3>2, <3>3
    <2>5. ASSUME NEW t \in Turns, MarkCorrectionRead(t)
          PROVE  UNCHANGED <<correction, missed>>
      BY <2>5 DEF MarkCorrectionRead
    <2>6. QED
      BY <1>3, <1>4, <2>1, <2>2, <2>3, <2>4, <2>5 DEF RowStep
  <1>5. QED
    BY <1>1, <1>4, StepsOfRows, RowsStay

(* A reply whose job is done has its text, and a correction whose job is   *)
(* done its verdict, unless that came before its turn's row                *)
(* (mysql_jobs.go, CompleteAssistantTurn; mysql_turns.go,                  *)
(* SaveCorrectionFinal).                                                   *)
THEOREM DoneCanBeRead == Spec => []DoneIsReadable
  <1>1. Init => ReplyReadable /\ VerdictReadable
    BY RowAssumption DEF Init, ReplyReadable, VerdictReadable
  <1>2. TypeInv /\ ReplyReadable /\ [Next]_vars => ReplyReadable'
    BY ReplyStaysReadable
  <1>3. TypeInv /\ VerdictReadable /\ [Next]_vars => VerdictReadable'
    BY VerdictStaysReadable
  <1>4. TypeInv /\ ReplyReadable /\ VerdictReadable => DoneIsReadable
    BY RowAssumption DEF ReplyReadable, VerdictReadable, DoneIsReadable
  <1>5. QED
    BY <1>1, <1>2, <1>3, <1>4, TypeInvariant, PTL DEF Spec

-----------------------------------------------------------------------------
LEMMA MaxOfTurns ==
  ASSUME NEW S \in SUBSET Turns, S # {}
  PROVE  Max(S) \in S /\ \A t \in S : Max(S) >= t
  <1> DEFINE Below == {Inputs - t : t \in S}
  <1>0. \A t \in S : t \in Nat /\ Inputs - t \in Nat
    BY RoomsAssumption DEF Turns
  <1>1. Below \subseteq Nat /\ Below # {}
    BY <1>0
  <1>2. PICK x \in Below : \A y \in Below : ~ (<<y, x>> \in OpToRel(<, Nat))
    BY <1>1, WFMin, NatLessThanWellFounded
  <1>3. \A y \in Below : x <= y
    <2>1. \A y, z \in Nat : y < z => <<y, z>> \in OpToRel(<, Nat)
      BY DEF OpToRel
    <2>2. ASSUME NEW y \in Below
          PROVE  x <= y
      <3>1. y \in Nat /\ x \in Nat
        BY <1>1
      <3>2. ~ (y < x)
        BY <1>2, <2>1, <3>1
      <3> HIDE DEF Below
      <3>3. QED
        BY <3>1, <3>2
    <2>3. QED
      BY <2>2
  <1>4. PICK m \in S : x = Inputs - m
    BY <1>2
  <1>5. \A t \in S : m >= t
    <2>1. \A t \in S : Inputs - m <= Inputs - t
      BY <1>3, <1>4
    <2>2. QED
      BY <1>0, <2>1, RoomsAssumption
  <1>6. QED
    BY <1>4, <1>5 DEF Max

(* While no connection was opened too early, one at most is open, the      *)
(* number it gave last is not below any other, and all numbers that were   *)
(* given are in a row or on the way to it.                                 *)
ConnectionsTakeTurns ==
  /\ \A c, d \in Conns : next[c] # None /\ next[d] # None => c = d
  /\ \A i \in 1 .. sent : \/ user[num[i]] # None
                          \/ Pending("user", i, None) \in late
  /\ \A c \in Conns, i \in 1 .. sent : next[c] # None => next[c] >= num[i]

NumbersInv ==
  /\ FreshNumbers
  /\ \A i \in 1 .. sent : num[i] >= 1
  /\ deleted \/ early \/ ConnectionsTakeTurns

LEMMA NumbersInit == Init => NumbersInv
  BY RoomsAssumption DEF Init, NumbersInv, FreshNumbers, ConnectionsTakeTurns

LEMMA OpenNumbers ==
  ASSUME TypeInv, NumbersInv, NEW c \in Conns, Open(c)
  PROVE  NumbersInv'
  <1> USE DEF TypeInv, TypeOK, rows, work
  <1>1. UNCHANGED <<num, sent, user, late, deleted>> /\ next[c] = None
    BY DEF Open
  <1>2. CASE Unsettled
    BY <1>1, <1>2 DEF Open, NumbersInv, FreshNumbers
  <1>3. CASE ~ Unsettled
    <2>1. early' = early
      BY <1>3 DEF Open
    <2>2. CASE deleted \/ early
      BY <1>1, <2>1, <2>2 DEF NumbersInv, FreshNumbers
    <2>3. CASE ~ (deleted \/ early)
      <3>1. ConnectionsTakeTurns
        BY <2>3 DEF NumbersInv
      <3>2. PICK last \in Turns : LastTurn(last) /\ next' = [next EXCEPT ![c] = last]
        BY DEF Open
      <3>3. /\ \A d \in Conns : next[d] = None
            /\ \A w \in late : w.op # "user"
        BY <1>3 DEF Unsettled
      <3>4. ASSUME NEW i \in 1 .. sent
            PROVE  last >= num[i]
        <4> DEFINE S == {0} \cup {t \in Turns : user[t] # None \/ assistant[t] # None}
        <4>1. Pending("user", i, None) \notin late
          BY <3>3 DEF Pending
        <4>2. user[num[i]] # None
          BY <3>1, <4>1 DEF ConnectionsTakeTurns
        <4>3. num[i] \in Turns
          BY RoomsAssumption DEF Numbered, Texts
        <4>4. S \in SUBSET Turns /\ S # {} /\ num[i] \in S
          BY <4>2, <4>3, RoomsAssumption DEF Turns
        <4>5. last = Max(S)
          BY <3>2 DEF LastTurn
        <4> HIDE DEF S
        <4>6. QED
          BY <4>4, <4>5, MaxOfTurns
      <3>5. \A d \in Conns : next'[d] # None => d = c /\ next'[d] = last
        BY <3>2, <3>3
      <3>6. ConnectionsTakeTurns'
        BY <1>1, <3>1, <3>4, <3>5 DEF ConnectionsTakeTurns
      <3>7. QED
        BY <1>1, <2>1, <3>6 DEF NumbersInv, FreshNumbers
    <2>4. QED
      BY <2>2, <2>3
  <1>4. QED
    BY <1>2, <1>3

LEMMA SendNumbers ==
  ASSUME TypeInv, NumbersInv, NEW c \in Conns, Send(c)
  PROVE  NumbersInv'
  <1> USE DEF TypeInv, TypeOK, rows, history
  <1> DEFINE i == sent + 1
             n == next[c] + 1
  <1>1. /\ i \in Texts /\ n \in Turns /\ sent \in Nat /\ next[c] \in Turns
        /\ next[c] # None /\ ~ deleted
    BY RoomsAssumption DEF Send, Texts
  <1>2. /\ sent' = i
        /\ next' = [next EXCEPT ![c] = n] /\ num' = [num EXCEPT ![i] = n]
        /\ late' = late \cup {Pending("user", i, None)}
        /\ UNCHANGED <<user, deleted, early>>
    BY DEF Send, HandOver
  <1>3. n >= 1 /\ n = next[c] + 1 /\ i \notin 0 .. sent /\ 1 .. i = (1 .. sent) \cup {i}
    BY <1>1 DEF Turns
  <1>4. \A j \in 1 .. sent : j \in Texts /\ num[j] \in Turns /\ j # i
    BY <1>1, <1>3, RoomsAssumption DEF Numbered, Texts
  <1> HIDE DEF i, n
  <1>5. num'[i] = n /\ \A j \in 1 .. sent : num'[j] = num[j]
    BY <1>1, <1>2, <1>4
  <1>6. \A j \in 1 .. sent' : num'[j] >= 1
    BY <1>2, <1>3, <1>5 DEF NumbersInv
  <1>7. CASE early
    BY <1>2, <1>6, <1>7 DEF NumbersInv, FreshNumbers
  <1>8. CASE ~ early
    <2>1. ConnectionsTakeTurns
      BY <1>1, <1>8 DEF NumbersInv
    <2>2. \A j \in 1 .. sent : next[c] >= num[j]
      BY <1>1, <2>1 DEF ConnectionsTakeTurns
    <2>3. \A j \in 1 .. sent : n > num[j] /\ n # num[j]
      BY <1>1, <1>3, <1>4, <2>2 DEF Turns
    <2>4. FreshNumbers'
      <3>1. ASSUME NEW j \in 1 .. sent', NEW k \in 1 .. sent', j # k
            PROVE  num'[j] # num'[k]
        <4>1. CASE j \in 1 .. sent /\ k \in 1 .. sent
          BY <1>5, <1>8, <3>1, <4>1 DEF NumbersInv, FreshNumbers
        <4>2. CASE j = i \/ k = i
          BY <1>2, <1>3, <1>5, <2>3, <3>1, <4>2
        <4>3. QED
          BY <1>2, <1>3, <4>1, <4>2
      <3>2. QED
        BY <3>1 DEF FreshNumbers
    <2>5. ConnectionsTakeTurns'
      <3>1. \A d, e \in Conns : next'[d] # None /\ next'[e] # None => d = e
        BY <1>1, <1>2, <2>1 DEF ConnectionsTakeTurns
      <3>2. \A j \in 1 .. sent' : \/ user'[num'[j]] # None
                                  \/ Pending("user", j, None) \in late'
        BY <1>2, <1>3, <1>5, <2>1 DEF ConnectionsTakeTurns
      <3>3. ASSUME NEW d \in Conns, NEW j \in 1 .. sent', next'[d] # None
            PROVE  next'[d] >= num'[j]
        <4>1. d = c /\ next'[d] = n
          BY <1>1, <1>2, <2>1, <3>3 DEF ConnectionsTakeTurns
        <4>2. CASE j = i
          BY <1>1, <1>5, <4>1, <4>2 DEF Turns
        <4>3. CASE j \in 1 .. sent
          BY <1>4, <1>5, <2>3, <4>1, <4>3, <1>1 DEF Turns
        <4>4. QED
          BY <1>2, <1>3, <4>2, <4>3
      <3>4. Pending("user", 0, None)' = Pending("user", 0, None)
        BY DEF Pending
      <3>5. QED
        BY <3>1, <3>2, <3>3 DEF ConnectionsTakeTurns, Pending
    <2>6. QED
      BY <1>6, <2>4, <2>5 DEF NumbersInv
  <1>9. QED
    BY <1>7, <1>8

(* Every other step leaves the numbers alone, and what was to be written   *)
(* is written.                                                             *)
LEMMA OtherNumbers ==
  ASSUME TypeInv, NumbersInv, UNCHANGED <<num, sent, early>>,
         \A c \in Conns : next'[c] = next[c] \/ next'[c] = None,
         deleted' \/ UserStays, deleted => deleted',
         \A w \in late : \/ w \in late' \/ w.op # "user" \/ deleted'
                         \/ user'[num[w.input]] # None
  PROVE  NumbersInv'
  <1>1. FreshNumbers' /\ \A i \in 1 .. sent' : num'[i] >= 1
    BY DEF NumbersInv, FreshNumbers
  <1>2. ASSUME ~ deleted', ~ early
        PROVE  ConnectionsTakeTurns'
    <2>1. ConnectionsTakeTurns /\ UserStays
      BY <1>2 DEF NumbersInv
    <2>2. ASSUME NEW i \in 1 .. sent
          PROVE  user'[num[i]] # None \/ Pending("user", i, None) \in late'
      <3>1. num[i] \in Turns
        BY RoomsAssumption DEF TypeInv, TypeOK, Numbered, Texts
      <3>2. CASE user[num[i]] # None
        BY <2>1, <3>1, <3>2 DEF UserStays
      <3>3. CASE Pending("user", i, None) \in late
        <4>1. Pending("user", i, None).op = "user" /\ Pending("user", i, None).input = i
          BY DEF Pending
        <4>2. QED
          BY <1>2, <3>3, <4>1
      <3>4. QED
        BY <2>1, <3>2, <3>3 DEF ConnectionsTakeTurns
    <2>3. QED
      BY <2>1, <2>2 DEF ConnectionsTakeTurns, Pending
  <1>3. QED
    BY <1>1, <1>2 DEF NumbersInv

LEMMA NumbersNext == TypeInv /\ NumbersInv /\ [Next]_vars => NumbersInv'
  <1> SUFFICES ASSUME TypeInv, NumbersInv, [Next]_vars
               PROVE  NumbersInv'
    OBVIOUS
  <1> USE DEF rows, live, work, history
  <1>1. ASSUME NEW c \in Conns, Open(c) \/ Send(c)
        PROVE  NumbersInv'
    BY <1>1, OpenNumbers, SendNumbers
  <1>2. DeleteSession => deleted'
    BY DEF DeleteSession
  <1>3. \/ UNCHANGED <<num, sent, early, deleted>>
        \/ DeleteSession /\ UNCHANGED <<num, sent, early, next, late>>
        \/ \E c \in Conns : Open(c) \/ Send(c)
    <2>1. CASE ApplyLate
      BY <2>1 DEF ApplyLate, SaveTurn, SaveCorrectionPreview, SaveFinalEvent,
                  FailCorrectionJob, SaveGeneratedTitle
    <2>2. CASE \E i \in Texts :
                 \/ ReserveAssistantTurn(i) \/ CompleteAssistantTurn(i) \/ ReplyDirect(i)
                 \/ Draft(i) \/ ReserveCorrectionJob(i) \/ JudgeDirect(i)
      BY <2>2 DEF ReserveAssistantTurn, CompleteAssistantTurn, ReplyDirect, Draft,
                  ReserveCorrectionJob, JudgeDirect
    <2>3. CASE \E i \in Texts : JudgeQueued(i) \/ JudgeFails(i) \/ Rerun(i)
      BY <2>3 DEF JudgeQueued, JudgeFails, Rerun
    <2>4. CASE \/ StartBackfill \/ DeleteSession \/ UNCHANGED vars
               \/ \E t \in Turns : BackfillTurn(t) \/ MarkCorrectionRead(t)
               \/ \E c \in Conns : Close(c)
      BY <2>4 DEF StartBackfill, DeleteSession, BackfillTurn, MarkCorrectionRead, Close, vars
    <2>5. QED
      BY <2>1, <2>2, <2>3, <2>4 DEF Next
  <1>4. ASSUME ~ \E c \in Conns : Open(c) \/ Send(c)
        PROVE  /\ \A c \in Conns : next'[c] = next[c] \/ next'[c] = None
               /\ \A w \in late : \/ w \in late' \/ w.op # "user"
                                  \/ SaveTurn(w)
    <2>1. CASE ApplyLate
      BY <2>1 DEF ApplyLate, SaveTurn, SaveCorrectionPreview, SaveFinalEvent,
                  FailCorrectionJob, SaveGeneratedTitle, Applied
    <2>2. CASE \E i \in Texts :
                 \/ ReserveAssistantTurn(i) \/ CompleteAssistantTurn(i) \/ ReplyDirect(i)
                 \/ Draft(i) \/ ReserveCorrectionJob(i) \/ JudgeDirect(i)
      BY <2>2 DEF ReserveAssistantTurn, CompleteAssistantTurn, ReplyDirect, Draft,
                  ReserveCorrectionJob, JudgeDirect, OnDone, HandOver
    <2>3. CASE \E i \in Texts : JudgeQueued(i) \/ JudgeFails(i) \/ Rerun(i)
      BY <2>3 DEF JudgeQueued, JudgeFails, Rerun, HandOver
    <2>4. CASE \/ StartBackfill \/ DeleteSession \/ UNCHANGED vars
               \/ \E t \in Turns : BackfillTurn(t) \/ MarkCorrectionRead(t)
      BY <2>4 DEF StartBackfill, DeleteSession, BackfillTurn, MarkCorrectionRead, vars
    <2>5. CASE \E c \in Conns : Close(c)
      BY <2>5 DEF Close, TypeInv, TypeOK
    <2>6. QED
      BY <1>4, <2>1, <2>2, <2>3, <2>4, <2>5 DEF Next
  <1>5. ASSUME NEW w \in late, w.op = "user", SaveTurn(w), ~ deleted
        PROVE  user'[num[w.input]] # None
    <2>1. w.input \in Texts /\ num[w.input] \in Turns
      BY RoomsAssumption DEF TypeInv, TypeOK, Numbered, Write, Texts
    <2>2. UpsertUser(num[w.input], w.input)
      BY <1>5 DEF SaveTurn, WithLiveSession
    <2>3. QED
      BY <2>1, <2>2, UpsertStays
  <1>6. QED
    BY <1>1, <1>2, <1>3, <1>4, <1>5, RowsStay, OtherNumbers

LEMMA NumbersInvariant == Spec => []NumbersInv
  BY NumbersInit, NumbersNext, TypeInvariant, PTL DEF Spec

(* However connections follow each other, each of them having found the    *)
(* numbers before it written, no two texts take the same one (ws.go,       *)
(* LastTurn and Seed; session.go, NextTurn).                               *)
THEOREM NumbersStayFresh == Spec => []FreshNumbers
  BY NumbersInvariant, PTL DEF NumbersInv

-----------------------------------------------------------------------------
(* Where a turn's verdict is from, and when it is unread. *)
Made(t) ==
  HasVerdict(t) => LET i == user[t].correction.of IN
    i \in 1 .. sent /\ num[i] = t /\ analysis[i] = "ended"

Told(t) ==
  /\ HasVerdict(t) => LET c == user[t].correction IN
       user[t].unread <=> /\ c.of \notin drafted \/ c.content # "draft"
                          /\ <<t, c>> \notin read
  /\ \A c \in Correction : <<t, c>> \in read => HasVerdict(t) /\ user[t].correction = c

Verdict(w) == [of |-> w.input, content |-> w.content, judge |-> TRUE]

(* A verdict on its way is the only one of its turn. *)
OnItsWay(w) ==
  w.op = "final" /\ num[w.input] \notin again =>
    /\ analysis[w.input] = "ended"
    /\ HasVerdict(num[w.input]) => user[num[w.input]].correction = Verdict(w)
    /\ \A v \in late : v.op = "final" /\ v.input = w.input => v.content = w.content

UnreadInv ==
  /\ analysis[0] = "none"
  /\ \/ early \/ deleted
     \/ /\ \A t \in Turns \ again : Made(t) /\ Told(t)
        /\ \A w \in late : OnItsWay(w)

SameVerdict(t) ==
  /\ HasVerdict(t)' <=> HasVerdict(t)
  /\ HasVerdict(t) => /\ user'[t].correction = user[t].correction
                      /\ user'[t].unread = user[t].unread
  /\ \A c \in Correction : <<t, c>> \in read' <=> <<t, c>> \in read

(* What no step takes back, as long as nothing was opened too early. *)
Onward ==
  /\ ~ early' /\ ~ deleted' => ~ early /\ ~ deleted
  /\ again \subseteq again' \/ deleted'
  /\ sent' \in Nat /\ sent <= sent' /\ \A i \in 0 .. sent : num'[i] = num[i]
  /\ \A i \in Texts : analysis[i] = "ended" =>
       analysis'[i] = "ended" \/ num[i] \in again' \/ deleted'
  /\ \A i \in Texts : i \in drafted' => i \in drafted \/ analysis[i] = "asked"
  /\ drafted \subseteq drafted'
  /\ analysis'[0] = analysis[0] \/ analysis[0] # "none"

LEMMA TurnStays ==
  ASSUME TypeInv, Onward, ~ early', ~ deleted',
         NEW t \in Turns, t \notin again', SameVerdict(t), Made(t), Told(t)
  PROVE  Made(t)' /\ Told(t)'
  <1> USE DEF TypeInv, TypeOK
  <1>1. CASE ~ HasVerdict(t)
    BY <1>1 DEF SameVerdict, Made, Told
  <1>2. CASE HasVerdict(t)
    <2> DEFINE c == user[t].correction
    <2>1. user'[t].correction = c /\ HasVerdict(t)' /\ user'[t].unread = user[t].unread
      BY <1>2 DEF SameVerdict
    <2>2. c.of \in 1 .. sent /\ num[c.of] = t /\ analysis[c.of] = "ended"
      BY <1>2 DEF Made
    <2>3. c \in Correction /\ c.of \in Texts
      BY <1>2 DEF HasVerdict, UserTurn, Correction
    <2> HIDE DEF c
    <2>4. c.of \in 1 .. sent' /\ num'[c.of] = t
      <3>1. sent \in Int /\ sent' \in Int
        BY RoomsAssumption DEF Onward, Texts
      <3>2. QED
        BY <2>2, <3>1 DEF Onward
    <2>5. analysis'[c.of] = "ended"
      BY <2>2, <2>3 DEF Onward
    <2>6. c.of \in drafted' <=> c.of \in drafted
      BY <2>2, <2>3 DEF Onward
    <2>7. Made(t)'
      BY <2>1, <2>4, <2>5 DEF Made
    <2>8. Told(t)'
      BY <1>2, <2>1, <2>3, <2>6 DEF Told, SameVerdict, c
    <2>9. QED
      BY <2>7, <2>8
  <1>3. QED
    BY <1>1, <1>2

(* The texts that verdicts on their way are of. *)
LEMMA WaySent ==
  ASSUME TypeInv, analysis[0] = "none", NEW w \in late, w.op = "final"
  PROVE  /\ w.input \in Texts /\ w.input \in 0 .. sent /\ num[w.input] \in Turns
         /\ w.content \in Contents
         /\ analysis[w.input] # "none" => w.input \in 1 .. sent
  <1>1. w.input \in Texts /\ w.input <= sent /\ sent \in Nat /\ w.content \in Contents
    BY RoomsAssumption DEF TypeInv, TypeOK, Numbered, Write, Texts
  <1>2. w.input \in 0 .. sent /\ num[w.input] \in Turns
    BY <1>1 DEF TypeInv, Numbered, Texts
  <1>3. QED
    BY <1>1, <1>2

LEMMA WayStays ==
  ASSUME TypeInv, Onward, ~ early', ~ deleted', analysis[0] = "none",
         NEW w \in late, OnItsWay(w), NEW t \in Turns, t = num[w.input], SameVerdict(t),
         \A v \in late' : v.op = "final" /\ v.input = w.input => v \in late
  PROVE  OnItsWay(w)'
  <1> SUFFICES ASSUME w.op = "final", num'[w.input] \notin again'
               PROVE  OnItsWay(w)'
    BY DEF OnItsWay
  <1>1. w.input \in Texts /\ w.input \in 0 .. sent
    BY WaySent
  <1>2. num'[w.input] = num[w.input] /\ num[w.input] \notin again
    BY <1>1 DEF Onward
  <1>4. /\ analysis[w.input] = "ended"
        /\ HasVerdict(t) => user[t].correction = Verdict(w)
        /\ \A v \in late : v.op = "final" /\ v.input = w.input => v.content = w.content
    BY <1>2 DEF OnItsWay
  <1>5. analysis'[w.input] = "ended"
    BY <1>1, <1>2, <1>4 DEF Onward
  <1>6. HasVerdict(t)' => user'[t].correction = Verdict(w)
    BY <1>4 DEF SameVerdict
  <1>7. HasVerdict(num[w.input])' => user'[num'[w.input]].correction = Verdict(w)'
    BY <1>2, <1>6 DEF HasVerdict, Verdict
  <1>8. QED
    BY <1>4, <1>5, <1>7 DEF OnItsWay

LEMMA UnreadStays ==
  ASSUME TypeInv, UnreadInv, Onward,
         \A t \in Turns \ again' : SameVerdict(t),
         \A w \in late' : w.op = "final" => w \in late
  PROVE  UnreadInv'
  <1>1. analysis'[0] = "none"
    BY DEF Onward, UnreadInv
  <1>2. ASSUME ~ early', ~ deleted'
        PROVE  /\ \A t \in Turns \ again' : Made(t)' /\ Told(t)'
               /\ \A w \in late' : OnItsWay(w)'
    <2>1. /\ \A t \in Turns \ again : Made(t) /\ Told(t)
          /\ \A w \in late : OnItsWay(w)
          /\ again \subseteq again'
      BY <1>2 DEF UnreadInv, Onward
    <2>2. ASSUME NEW t \in Turns \ again'
          PROVE  Made(t)' /\ Told(t)'
      BY <1>2, <2>1, TurnStays
    <2>3. ASSUME NEW w \in late'
          PROVE  OnItsWay(w)'
      <3>1. CASE w.op # "final" \/ num'[w.input] \in again'
        BY <3>1 DEF OnItsWay
      <3>2. CASE w.op = "final" /\ num'[w.input] \notin again'
        <4>1. w \in late
          BY <3>2
        <4>2. num[w.input] \in Turns /\ num'[w.input] = num[w.input]
          BY <3>2, <4>1, WaySent DEF UnreadInv, Onward
        <4>3. PICK t \in Turns \ again' : t = num[w.input]
          BY <3>2, <4>2
        <4>4. SameVerdict(t)
          BY <4>3
        <4>5. QED
          BY <1>2, <2>1, <4>1, <4>3, <4>4, WayStays DEF UnreadInv
      <3>3. QED
        BY <3>1, <3>2
    <2>4. QED
      BY <2>2, <2>3
  <1>3. QED
    BY <1>1, <1>2 DEF UnreadInv

-----------------------------------------------------------------------------
(* A text that is still to be judged has no verdict, nor one on its way. *)
LEMMA Unjudged ==
  ASSUME TypeInv, NumbersInv, UnreadInv, ~ early, ~ deleted,
         NEW i \in Texts, analysis[i] \notin {"none", "ended"},
         NEW t \in Turns, t = num[i], t \notin again
  PROVE  /\ i \in 1 .. sent
         /\ ~ HasVerdict(t)
         /\ \A w \in late : w.op = "final" => w.input # i
  <1>1. i \in 1 .. sent
    BY RoomsAssumption DEF TypeInv, TypeOK, Numbered, UnreadInv, Texts
  <1>2. ~ HasVerdict(t)
    BY <1>1 DEF UnreadInv, Made, NumbersInv, FreshNumbers
  <1>3. \A w \in late : w.op = "final" => w.input # i
    BY DEF UnreadInv, OnItsWay
  <1>4. QED
    BY <1>1, <1>2, <1>3

(* A verdict is saved, or handed over, or both. *)
LEMMA VerdictArrives ==
  ASSUME TypeInv, NumbersInv, UnreadInv, Onward, UNCHANGED <<num, sent>>,
         NEW i \in 1 .. sent, NEW t \in Turns, t = num[i], NEW said \in Contents,
         analysis'[i] = "ended",
         \A s \in Turns \ (again' \cup {t}) : SameVerdict(s),
         ~ early' /\ ~ deleted' /\ t \notin again' =>
           /\ Made(t)' /\ Told(t)'
           /\ HasVerdict(t)' =>
                user'[t].correction = [of |-> i, content |-> said, judge |-> TRUE]
           /\ \A w \in late : w.op = "final" /\ w.input = i => w.content = said,
         \A w \in late' : w.op = "final" =>
           w \in late \/ (w.input = i /\ w.content = said)
  PROVE  UnreadInv'
  <1>1. analysis'[0] = "none"
    BY DEF Onward, UnreadInv
  <1>2. ASSUME ~ early', ~ deleted'
        PROVE  /\ \A s \in Turns \ again' : Made(s)' /\ Told(s)'
               /\ \A w \in late' : OnItsWay(w)'
    <2>1. /\ \A s \in Turns \ again : Made(s) /\ Told(s)
          /\ \A w \in late : OnItsWay(w)
          /\ again \subseteq again' /\ ~ early
      BY <1>2 DEF UnreadInv, Onward
    <2>2. ASSUME NEW s \in Turns \ again'
          PROVE  Made(s)' /\ Told(s)'
      <3>1. CASE s = t
        BY <1>2, <3>1
      <3>2. CASE s # t
        BY <1>2, <2>1, <3>2, TurnStays
      <3>3. QED
        BY <3>1, <3>2
    <2>3. ASSUME NEW w \in late', w.op = "final", num[w.input] \notin again'
          PROVE  OnItsWay(w)'
      <3>1. CASE w.input = i
        <4>1. w.content = said
          BY <1>2, <2>3, <3>1
        <4>2. HasVerdict(t)' => user'[t].correction = Verdict(w)
          BY <1>2, <2>3, <3>1, <4>1 DEF Verdict
        <4>3. HasVerdict(num[w.input])' => user'[num'[w.input]].correction = Verdict(w)'
          BY <3>1, <4>2 DEF HasVerdict, Verdict
        <4>4. \A v \in late' : v.op = "final" /\ v.input = w.input => v.content = w.content
          BY <1>2, <2>3, <3>1, <4>1
        <4>5. QED
          BY <3>1, <4>3, <4>4 DEF OnItsWay
      <3>2. CASE w.input # i
        <4>1. w \in late /\ OnItsWay(w)
          BY <2>1, <2>3, <3>2
        <4>2. w.input \in 1 .. sent /\ num[w.input] \in Turns
          <5>1. num[w.input] \notin again
            BY <2>1, <2>3
          <5>2. analysis[w.input] = "ended"
            BY <2>3, <4>1, <5>1 DEF OnItsWay
          <5>3. QED
            BY <2>3, <4>1, <5>2, WaySent DEF UnreadInv
        <4>3. num[w.input] # t
          BY <2>1, <3>2, <4>2 DEF NumbersInv, FreshNumbers
        <4>4. PICK s \in Turns : s = num[w.input]
          BY <4>2
        <4>5. SameVerdict(s)
          BY <2>3, <4>3, <4>4
        <4>6. QED
          BY <1>2, <3>2, <4>1, <4>4, <4>5, WayStays DEF UnreadInv
      <3>3. QED
        BY <3>1, <3>2
    <2>4. \A w \in late' : OnItsWay(w)'
      BY <2>3 DEF OnItsWay
    <2>5. QED
      BY <2>2, <2>4
  <1>3. QED
    BY <1>1, <1>2 DEF UnreadInv

LEMMA FinalTold ==
  ASSUME TypeInv, NEW t \in Turns, NEW i \in 1 .. sent, i \in Texts, t = num[i],
         NEW said \in Contents,
         SaveCorrectionFinal(t, i, said, i \notin drafted \/ said # "draft"),
         analysis'[i] = "ended", UNCHANGED <<num, sent, read, drafted>>,
         Told(t),
         HasVerdict(t) =>
           user[t].correction = [of |-> i, content |-> said, judge |-> TRUE]
  PROVE  /\ Made(t)' /\ Told(t)'
         /\ HasVerdict(t)' =>
              user'[t].correction = [of |-> i, content |-> said, judge |-> TRUE]
  <1> DEFINE c == [of |-> i, content |-> said, judge |-> TRUE]
             new == i \notin drafted \/ said # "draft"
  <1>1. new \in BOOLEAN
    OBVIOUS
  <1>2. CASE user[t] = None
    <2>1. user' = user /\ ~ HasVerdict(t) /\ ~ (HasVerdict(t)')
      BY <1>2 DEF SaveCorrectionFinal, HasVerdict
    <2>2. QED
      BY <2>1 DEF Made, Told
  <1>3. CASE user[t] # None
    <2>1. /\ HasVerdict(t)' /\ user'[t].correction = c
          /\ user'[t].unread = Unread(t, c, new)
      BY <1>1, <1>3, FinalStays
    <2>2. c.of = i /\ c.content = said /\ c \in Correction
      BY DEF Correction
    <2> HIDE DEF c
    <2>3. Made(t)'
      BY <2>1, <2>2 DEF Made
    <2>4. user'[t].unread <=> (new /\ <<t, c>> \notin read)
      <3>1. CASE HasVerdict(t)
        <4>1. user[t].correction = c
          BY <3>1 DEF c
        <4>2. user'[t].unread = user[t].unread
          BY <2>1, <3>1, <4>1 DEF Unread
        <4>3. user[t].unread <=> (new /\ <<t, c>> \notin read)
          BY <2>2, <3>1, <4>1 DEF Told
        <4>4. QED
          BY <4>2, <4>3
      <3>2. CASE ~ HasVerdict(t)
        <4>1. user'[t].unread = new
          BY <2>1, <3>2 DEF Unread
        <4>2. <<t, c>> \notin read
          BY <2>2, <3>2 DEF Told
        <4> HIDE DEF new
        <4>3. QED
          BY <4>1, <4>2
      <3>3. QED
        BY <3>1, <3>2
    <2>5. \A d \in Correction : <<t, d>> \in read' => HasVerdict(t)' /\ user'[t].correction = d
      BY <2>1 DEF Told, c
    <2>6. Told(t)'
      BY <2>1, <2>2, <2>4, <2>5 DEF Told
    <2>7. QED
      BY <2>1, <2>3, <2>6 DEF c
  <1>4. QED
    BY <1>2, <1>3

-----------------------------------------------------------------------------
LEMMA OnwardSteps ==
  ASSUME TypeInv, analysis[0] = "none", [Next]_vars
  PROVE  Onward
  <1> USE DEF rows, live, work, history
  <1>0. sent \in Nat /\ sent' \in Nat
    BY TypeNext, RoomsAssumption DEF TypeInv, TypeOK, Texts
  <1>1. ASSUME UNCHANGED <<early, deleted, again, sent, num, analysis, drafted>>
        PROVE  Onward
    BY <1>0, <1>1 DEF Onward
  <1>2. ASSUME NEW c \in Conns, Open(c) \/ Close(c)
        PROVE  Onward
    <2>1. early' = early \/ early' = TRUE
      BY <1>2 DEF Open, Close, Mishap
    <2>2. UNCHANGED <<deleted, again, sent, num, analysis, drafted>>
      BY <1>2 DEF Open, Close
    <2>3. QED
      BY <1>0, <2>1, <2>2 DEF Onward
  <1>3. ASSUME NEW c \in Conns, Send(c)
        PROVE  Onward
    <2> DEFINE i == sent + 1
    <2>1. /\ sent' = i /\ i \in Texts /\ i # 0
          /\ num' = [num EXCEPT ![i] = next[c] + 1]
          /\ analysis' = [analysis EXCEPT ![i] = IF i \in Corrected THEN "asked" ELSE @]
          /\ UNCHANGED <<early, deleted, again, drafted>>
      BY <1>0, <1>3 DEF Send, Texts
    <2>2. sent <= sent' /\ \A j \in 0 .. sent : j # i /\ j \in Texts
      <3>1. sent < i /\ i <= Inputs
        BY <1>0, <2>1, RoomsAssumption DEF Texts
      <3>2. QED
        BY <1>0, <2>1, <3>1, RoomsAssumption DEF Texts
    <2>3. analysis[i] = "none"
      BY <1>0, <2>1 DEF TypeInv, Numbered
    <2> HIDE DEF i
    <2>4. \A j \in 0 .. sent : num'[j] = num[j]
      BY <2>1, <2>2 DEF TypeInv, TypeOK
    <2>5. \A j \in Texts : j # i => analysis'[j] = analysis[j]
      BY <2>1 DEF TypeInv, TypeOK
    <2>6. 0 \in Texts
      BY RoomsAssumption DEF Texts
    <2>7. QED
      BY <1>0, <2>1, <2>2, <2>3, <2>4, <2>5, <2>6 DEF Onward
  <1>4. CASE ApplyLate
    BY <1>1, <1>4 DEF ApplyLate, SaveTurn, SaveCorrectionPreview, SaveFinalEvent,
                      FailCorrectionJob, SaveGeneratedTitle
  <1>5. ASSUME NEW i \in Texts,
               ReserveAssistantTurn(i) \/ CompleteAssistantTurn(i) \/ ReplyDirect(i)
        PROVE  Onward
    BY <1>1, <1>5 DEF ReserveAssistantTurn, CompleteAssistantTurn, ReplyDirect
  <1>6. ASSUME NEW i \in Texts,
               \/ Draft(i) \/ ReserveCorrectionJob(i) \/ JudgeDirect(i)
               \/ JudgeQueued(i) \/ JudgeFails(i) \/ Rerun(i)
        PROVE  Onward
    <2>1. /\ UNCHANGED <<early, deleted, num, sent>> /\ analysis[i] # "none"
          /\ \A j \in Texts \ {i} : analysis'[j] = analysis[j]
      <3>1. CASE Draft(i) \/ ReserveCorrectionJob(i) \/ JudgeDirect(i)
        BY <3>1 DEF Draft, ReserveCorrectionJob, JudgeDirect, TypeInv, TypeOK
      <3>2. CASE JudgeQueued(i) \/ JudgeFails(i) \/ Rerun(i)
        BY <3>2 DEF JudgeQueued, JudgeFails, Rerun, TypeInv, TypeOK
      <3>3. QED
        BY <1>6, <3>1, <3>2
    <2>2. again \subseteq again' /\ (analysis[i] = "ended" => num[i] \in again')
      <3>1. CASE Draft(i) \/ ReserveCorrectionJob(i) \/ JudgeDirect(i) \/ JudgeFails(i)
        BY <3>1 DEF Draft, ReserveCorrectionJob, JudgeDirect, JudgeFails
      <3>2. CASE JudgeQueued(i) \/ Rerun(i)
        BY <3>2 DEF JudgeQueued, Rerun
      <3>3. QED
        BY <1>6, <3>1, <3>2
    <2>3. /\ drafted \subseteq drafted'
          /\ \A j \in Texts : j \in drafted' => j \in drafted \/ analysis[j] = "asked"
      <3>1. CASE Draft(i)
        BY <3>1 DEF Draft
      <3>2. CASE ~ Draft(i)
        BY <1>6, <3>2 DEF ReserveCorrectionJob, JudgeDirect, JudgeQueued, JudgeFails, Rerun
      <3>3. QED
        BY <3>1, <3>2
    <2>4. 0 \in Texts /\ i # 0
      BY <2>1, RoomsAssumption DEF Texts
    <2>5. QED
      BY <1>0, <2>1, <2>2, <2>3, <2>4 DEF Onward
  <1>7. CASE StartBackfill \/ UNCHANGED vars
    BY <1>1, <1>7 DEF StartBackfill, vars
  <1>8. ASSUME NEW t \in Turns, BackfillTurn(t) \/ MarkCorrectionRead(t)
        PROVE  Onward
    <2>1. UNCHANGED <<early, deleted, sent, num, analysis, drafted>> /\ again \subseteq again'
      BY <1>8 DEF BackfillTurn, MarkCorrectionRead
    <2>2. QED
      BY <1>0, <2>1 DEF Onward
  <1>9. CASE DeleteSession
    BY <1>0, <1>9 DEF DeleteSession, Onward
  <1>10. QED
    BY <1>2, <1>3, <1>4, <1>5, <1>6, <1>7, <1>8, <1>9 DEF Next

LEMMA SameRow ==
  ASSUME NEW t, user'[t] = user[t], read' = read
  PROVE  SameVerdict(t)
  BY DEF SameVerdict, HasVerdict

LEMMA UnreadDirect ==
  ASSUME TypeInv, NumbersInv, UnreadInv, Onward, NEW i \in Texts, JudgeDirect(i)
  PROVE  UnreadInv'
  <1> USE DEF rows, live, work, history
  <1>1. /\ UNCHANGED <<user, read, again, num, sent, drafted, early, deleted>>
        /\ analysis[i] = "drafted" /\ analysis'[i] = "ended"
    BY DEF JudgeDirect, TypeInv, TypeOK
  <1>2. \A s \in Turns : SameVerdict(s)
    BY <1>1, SameRow
  <1>3. i \in 1 .. sent /\ num[i] \in Turns
    BY <1>1, RoomsAssumption DEF TypeInv, TypeOK, Numbered, UnreadInv, Texts
  <1>4. PICK t \in Turns : t = num[i]
    BY <1>3
  <1>5. ASSUME NEW said \in Contents, late' = late \cup {Pending("final", i, said)}
        PROVE  UnreadInv'
    <2>1. ASSUME ~ early', ~ deleted', t \notin again'
          PROVE  /\ Made(t)' /\ Told(t)'
                 /\ ~ (HasVerdict(t)')
                 /\ \A w \in late : w.op = "final" => w.input # i
      <3>1. ~ HasVerdict(t) /\ \A w \in late : w.op = "final" => w.input # i
        BY <1>1, <1>4, <2>1, Unjudged
      <3>2. Told(t)
        BY <1>1, <2>1 DEF UnreadInv
      <3>3. QED
        BY <1>1, <3>1, <3>2 DEF Made, Told, HasVerdict
    <2>2. \A w \in late' : w.op = "final" => w \in late \/ (w.input = i /\ w.content = said)
      BY <1>5 DEF Pending
    <2>3. ~ early' /\ ~ deleted' /\ t \notin again' =>
            /\ Made(t)' /\ Told(t)'
            /\ HasVerdict(t)' =>
                 user'[t].correction = [of |-> i, content |-> said, judge |-> TRUE]
            /\ \A w \in late : w.op = "final" /\ w.input = i => w.content = said
      BY <2>1
    <2>4. QED
      BY <1>1, <1>2, <1>3, <1>4, <2>2, <2>3, VerdictArrives
  <1>6. ASSUME late' = late \/ late' = late \cup {Pending("failed", i, None)}
        PROVE  UnreadInv'
    <2>1. \A w \in late' : w.op = "final" => w \in late
      BY <1>6 DEF Pending
    <2>2. QED
      BY <1>2, <2>1, UnreadStays
  <1>7. QED
    BY <1>5, <1>6 DEF JudgeDirect, HandOver

LEMMA UnreadQueued ==
  ASSUME TypeInv, NumbersInv, UnreadInv, Onward, NEW i \in Texts, JudgeQueued(i)
  PROVE  UnreadInv'
  <1> USE DEF rows, live, work, history
  <1>1. /\ UNCHANGED <<read, num, sent, drafted, early, deleted>>
        /\ analysis[i] \in {"queued", "requeued"} /\ analysis'[i] = "ended"
    BY DEF JudgeQueued, TypeInv, TypeOK
  <1>2. i \in 1 .. sent /\ num[i] \in Turns
    BY <1>1, RoomsAssumption DEF TypeInv, TypeOK, Numbered, UnreadInv, Texts
  <1>3. PICK t \in Turns : t = num[i]
    BY <1>2
  <1>4. CASE deleted
    <2>1. analysis'[0] = "none" /\ deleted'
      BY <1>1, <1>4 DEF Onward, UnreadInv
    <2>2. QED
      BY <2>1 DEF UnreadInv
  <1>5. CASE ~ deleted
    <2>1. PICK said \in Contents :
            /\ SaveCorrectionFinal(t, i, said, i \notin drafted \/ said # "draft")
            /\ IF analysis[i] = "requeued" THEN late' = late ELSE
                 late' = late \cup {Pending("final", i, said)}
      BY <1>3, <1>5 DEF JudgeQueued, HandOver
    <2>2. \A s \in Turns \ {t} : SameVerdict(s)
      <3>1. (i \notin drafted \/ said # "draft") \in BOOLEAN
        OBVIOUS
      <3>2. \A s \in Turns \ {t} : user'[s] = user[s]
        BY <2>1, <3>1, FinalStays
      <3>3. QED
        BY <1>1, <3>2, SameRow
    <2>3. CASE analysis[i] = "requeued"
      <3>1. t \in again' /\ late' = late
        BY <1>3, <2>1, <2>3 DEF JudgeQueued
      <3>2. QED
        BY <2>2, <3>1, UnreadStays
    <2>4. CASE analysis[i] = "queued"
      <3>1. again' = again /\ late' = late \cup {Pending("final", i, said)}
        BY <2>1, <2>4 DEF JudgeQueued
      <3>2. ASSUME ~ early', t \notin again'
            PROVE  /\ Made(t)' /\ Told(t)'
                   /\ HasVerdict(t)' =>
                        user'[t].correction = [of |-> i, content |-> said, judge |-> TRUE]
                   /\ \A w \in late : w.op = "final" => w.input # i
        <4>1. ~ HasVerdict(t) /\ \A w \in late : w.op = "final" => w.input # i
          BY <1>1, <1>3, <1>5, <3>1, <3>2, Unjudged
        <4>2. Told(t)
          BY <1>1, <1>5, <3>1, <3>2 DEF UnreadInv
        <4>3. QED
          BY <1>1, <1>2, <1>3, <2>1, <4>1, <4>2, FinalTold
      <3>3. \A w \in late' : w.op = "final" => w \in late \/ (w.input = i /\ w.content = said)
        BY <3>1 DEF Pending
      <3>4. QED
        BY <1>1, <1>2, <1>3, <2>2, <3>2, <3>3, VerdictArrives
    <2>5. QED
      BY <1>1, <2>3, <2>4
  <1>6. QED
    BY <1>4, <1>5

LEMMA UnreadEvent ==
  ASSUME TypeInv, NumbersInv, UnreadInv, Onward, NEW w \in late, SaveFinalEvent(w)
  PROVE  UnreadInv'
  <1> USE DEF rows, live, work, history
  <1>1. /\ UNCHANGED <<read, num, sent, drafted, early, deleted, again, analysis>>
        /\ late' \subseteq late /\ w.op = "final"
    BY DEF SaveFinalEvent, Applied
  <1>2. /\ w.input \in Texts /\ num[w.input] \in Turns /\ w.content \in Contents
        /\ analysis[w.input] # "none" => w.input \in 1 .. sent
    BY <1>1, WaySent DEF UnreadInv
  <1>3. PICK t \in Turns : t = num[w.input]
    BY <1>2
  <1>4. PICK said \in Contents : said = w.content
    BY <1>2
  <1>5. PICK i \in Texts : i = w.input
    BY <1>2
  <1>6. SaveCorrectionFinal(t, i, said, i \notin drafted \/ said # "draft")
    BY <1>3, <1>4, <1>5 DEF SaveFinalEvent
  <1>7. \A s \in Turns \ {t} : SameVerdict(s)
    <2>1. (i \notin drafted \/ said # "draft") \in BOOLEAN
      OBVIOUS
    <2>2. \A s \in Turns \ {t} : user'[s] = user[s]
      BY <1>6, <2>1, FinalStays
    <2>3. QED
      BY <1>1, <2>2, SameRow
  <1>8. CASE early \/ deleted \/ t \in again
    <2>1. CASE t \in again
      BY <1>1, <1>7, <2>1, UnreadStays
    <2>2. CASE early \/ deleted
      BY <1>1, <2>2 DEF UnreadInv
    <2>3. QED
      BY <1>8, <2>1, <2>2
  <1>9. CASE ~ early /\ ~ deleted /\ t \notin again
    <2>1. Told(t) /\ OnItsWay(w)
      BY <1>9 DEF UnreadInv
    <2>2. /\ analysis[i] = "ended"
          /\ HasVerdict(t) =>
               user[t].correction = [of |-> i, content |-> said, judge |-> TRUE]
          /\ \A v \in late : v.op = "final" /\ v.input = i => v.content = said
      BY <1>1, <1>3, <1>4, <1>5, <1>9, <2>1 DEF OnItsWay, Verdict
    <2>3. i \in 1 .. sent /\ t = num[i] /\ analysis'[i] = "ended"
      BY <1>1, <1>2, <1>3, <1>5, <2>2
    <2>4. /\ Made(t)' /\ Told(t)'
          /\ HasVerdict(t)' =>
               user'[t].correction = [of |-> i, content |-> said, judge |-> TRUE]
      BY <1>1, <1>6, <2>1, <2>2, <2>3, FinalTold
    <2>5. QED
      BY <1>1, <1>7, <2>2, <2>3, <2>4, VerdictArrives
  <1>10. QED
    BY <1>8, <1>9

LEMMA UnreadRead ==
  ASSUME TypeInv, UnreadInv, Onward, NEW t \in Turns, MarkCorrectionRead(t)
  PROVE  UnreadInv'
  <1> USE DEF rows, live, work, history
  <1>1. /\ UNCHANGED <<num, sent, drafted, early, deleted, again, analysis, late>>
        /\ HasVerdict(t) /\ read' = read \cup {<<t, user[t].correction>>}
    BY DEF MarkCorrectionRead
  <1>2. /\ user[t] # None /\ user'[t] # None
        /\ user'[t].correction = user[t].correction /\ user'[t].unread = FALSE
        /\ \A s \in Turns \ {t} : user'[s] = user[s]
    BY ReadStaysSame
  <1>3. \A s \in Turns \ {t} : SameVerdict(s)
    BY <1>1, <1>2 DEF SameVerdict, HasVerdict
  <1>4. HasVerdict(t)'
    BY <1>1, <1>2 DEF HasVerdict
  <1>5. ASSUME ~ early, ~ deleted
        PROVE  /\ \A s \in Turns \ again : Made(s)' /\ Told(s)'
               /\ \A w \in late : OnItsWay(w)'
    <2>1. ASSUME NEW s \in Turns \ again
          PROVE  Made(s)' /\ Told(s)'
      <3>0. Made(s) /\ Told(s)
        BY <1>5 DEF UnreadInv
      <3>1. CASE s # t
        BY <1>1, <1>3, <1>5, <3>0, <3>1, TurnStays
      <3>2. CASE s = t
        <4>1. Made(t)'
          BY <1>1, <1>2, <3>0, <3>2 DEF Made
        <4>2. <<t, user'[t].correction>> \in read'
          BY <1>1, <1>2
        <4>3. \A c \in Correction : <<t, c>> \in read' => user'[t].correction = c
          BY <1>1, <1>2, <3>0, <3>2 DEF Told
        <4>4. Told(t)'
          BY <1>2, <1>4, <4>2, <4>3 DEF Told
        <4>5. QED
          BY <3>2, <4>1, <4>4
      <3>3. QED
        BY <3>1, <3>2
    <2>2. ASSUME NEW w \in late
          PROVE  OnItsWay(w)'
      <3>1. OnItsWay(w)
        BY <1>5 DEF UnreadInv
      <3>2. CASE w.op = "final"
        <4>1. num[w.input] \in Turns
          BY <3>2, WaySent DEF UnreadInv
        <4>2. \A s \in Turns : /\ HasVerdict(s)' => HasVerdict(s)
                               /\ user'[s].correction = user[s].correction
          BY <1>1, <1>2 DEF HasVerdict
        <4>3. HasVerdict(num[w.input])' =>
                HasVerdict(num[w.input]) /\ user'[num'[w.input]].correction =
                                              user[num[w.input]].correction
          BY <1>1, <4>1, <4>2 DEF HasVerdict
        <4>4. QED
          BY <1>1, <3>1, <4>3 DEF OnItsWay, Verdict
      <3>3. QED
        BY <3>2 DEF OnItsWay
    <2>3. QED
      BY <2>1, <2>2
  <1>6. QED
    BY <1>1, <1>5 DEF UnreadInv

(* The steps that neither save a verdict nor open one. *)
LEMMA UnreadUnmoved ==
  ASSUME TypeInv, UnreadInv, Onward, UNCHANGED <<user, read>>,
         \A w \in late' : w.op = "final" => w \in late
  PROVE  UnreadInv'
  BY SameRow, UnreadStays

LEMMA UnreadLate ==
  ASSUME TypeInv, NumbersInv, UnreadInv, Onward, NEW w \in late,
         \/ SaveTurn(w) \/ SaveCorrectionPreview(w) \/ SaveFinalEvent(w)
         \/ FailCorrectionJob(w) \/ SaveGeneratedTitle(w)
  PROVE  UnreadInv'
  <1> USE DEF rows, live, work, history
  <1>1. w.input \in Texts /\ num[w.input] \in Turns
    BY RoomsAssumption DEF TypeInv, TypeOK, Numbered, Write, Texts
  <1>2. late' \subseteq late
    BY DEF SaveTurn, SaveCorrectionPreview, SaveFinalEvent, FailCorrectionJob,
           SaveGeneratedTitle, Applied
  <1>3. CASE SaveTurn(w)
    <2>1. read' = read
      BY <1>3 DEF SaveTurn
    <2>2. CASE user' = user
      BY <1>2, <2>1, <2>2, UnreadUnmoved
    <2>3. CASE UpsertUser(num[w.input], w.input)
      <3>1. PICK t \in Turns, i \in Texts : t = num[w.input] /\ i = w.input
        BY <1>1
      <3>2. /\ user[t] = None => ~ (HasVerdict(t)')
            /\ user'[t] # None
            /\ user[t] # None => /\ user'[t].correction = user[t].correction
                                 /\ user'[t].unread = user[t].unread
            /\ \A s \in Turns \ {t} : user'[s] = user[s]
        BY <2>3, <3>1, UpsertStays
      <3>3. SameVerdict(t)
        BY <2>1, <3>2 DEF SameVerdict, HasVerdict
      <3>4. \A s \in Turns : SameVerdict(s)
        BY <2>1, <3>2, <3>3, SameRow
      <3>5. QED
        BY <1>2, <3>4, UnreadStays
    <2>4. QED
      BY <1>3, <2>2, <2>3, SaveTurnUser
  <1>4. CASE SaveCorrectionPreview(w)
    <2>1. read' = read
      BY <1>4 DEF SaveCorrectionPreview
    <2>2. CASE user' = user
      BY <1>2, <2>1, <2>2, UnreadUnmoved
    <2>3. ASSUME NEW t \in Turns, ~ HasVerdict(t), ~ (HasVerdict(t)'),
                 \A s \in Turns \ {t} : user'[s] = user[s]
          PROVE  UnreadInv'
      <3>1. SameVerdict(t)
        BY <2>1, <2>3 DEF SameVerdict
      <3>2. \A s \in Turns : SameVerdict(s)
        BY <2>1, <2>3, <3>1, SameRow
      <3>3. QED
        BY <1>2, <3>2, UnreadStays
    <2>4. QED
      BY <1>1, <1>4, <2>2, <2>3, PreviewStays
  <1>5. CASE SaveFinalEvent(w)
    BY <1>5, UnreadEvent
  <1>6. CASE FailCorrectionJob(w)
    BY <1>2, <1>6, UnreadUnmoved DEF FailCorrectionJob
  <1>7. CASE SaveGeneratedTitle(w)
    BY <1>2, <1>7, UnreadUnmoved DEF SaveGeneratedTitle, WithLiveSession
  <1>8. QED
    BY <1>3, <1>4, <1>5, <1>6, <1>7

LEMMA UnreadBackfill ==
  ASSUME TypeInv, UnreadInv, Onward, NEW t \in Turns, BackfillTurn(t)
  PROVE  UnreadInv'
  <1> USE DEF live, work
  <1>1. UNCHANGED <<read, late>>
    BY DEF BackfillTurn
  <1>2. CASE deleted \/ user[t] = None
    BY <1>1, <1>2, UnreadUnmoved DEF BackfillTurn
  <1>3. CASE ~ deleted /\ user[t] # None
    <2>1. user[t].text \in Texts
      BY <1>3 DEF TypeInv, TypeOK, UserTurn
    <2>2. \A s \in Turns \ {t} : user'[s] = user[s]
      BY <1>3, <2>1, FinalStays DEF BackfillTurn
    <2>3. t \in again'
      BY <1>3 DEF BackfillTurn
    <2>4. \A s \in Turns \ again' : SameVerdict(s)
      BY <1>1, <2>2, <2>3, SameRow
    <2>5. QED
      BY <1>1, <2>4, UnreadStays
  <1>4. QED
    BY <1>2, <1>3

LEMMA UnreadNext == TypeInv /\ NumbersInv /\ UnreadInv /\ [Next]_vars => UnreadInv'
  <1> SUFFICES ASSUME TypeInv, NumbersInv, UnreadInv, [Next]_vars
               PROVE  UnreadInv'
    OBVIOUS
  <1> USE DEF rows, live, work, history
  <1>1. Onward
    BY OnwardSteps DEF UnreadInv
  <1>2. CASE ApplyLate
    BY <1>1, <1>2, UnreadLate DEF ApplyLate
  <1>3. ASSUME NEW c \in Conns, Open(c) \/ Close(c) \/ Send(c)
        PROVE  UnreadInv'
    <2>1. UNCHANGED <<user, read>>
      BY <1>3 DEF Open, Close, Send
    <2>2. \A w \in late' : w.op = "final" => w \in late
      BY <1>3 DEF Open, Close, Send, HandOver, Pending
    <2>3. QED
      BY <1>1, <2>1, <2>2, UnreadUnmoved
  <1>4. ASSUME NEW i \in Texts,
               ReserveAssistantTurn(i) \/ CompleteAssistantTurn(i) \/ ReplyDirect(i)
        PROVE  UnreadInv'
    <2>1. UNCHANGED <<user, read>>
      BY <1>4 DEF ReserveAssistantTurn, CompleteAssistantTurn, ReplyDirect, WithLiveSession
    <2>2. \A w \in late' : w.op = "final" => w \in late
      <3>1. ASSUME OnDone(i), NEW w \in late', w.op = "final"
            PROVE  w \in late
        BY <3>1 DEF OnDone, HandOver, Pending
      <3>2. ReserveAssistantTurn(i) => late' = late
        BY DEF ReserveAssistantTurn
      <3>3. CompleteAssistantTurn(i) \/ ReplyDirect(i) => OnDone(i)
        BY DEF CompleteAssistantTurn, ReplyDirect
      <3>4. QED
        BY <1>4, <3>1, <3>2, <3>3
    <2>3. QED
      BY <1>1, <2>1, <2>2, UnreadUnmoved
  <1>5. ASSUME NEW i \in Texts,
               Draft(i) \/ ReserveCorrectionJob(i) \/ JudgeFails(i) \/ Rerun(i)
        PROVE  UnreadInv'
    <2>1. UNCHANGED <<user, read>>
      BY <1>5 DEF Draft, ReserveCorrectionJob, JudgeFails, Rerun, WithLiveSession
    <2>2. \A w \in late' : w.op = "final" => w \in late
      <3>1. ASSUME NEW op \in {"preview", "failed"}, NEW said,
                   late' = late \cup {Pending(op, i, said)}
            PROVE  \A w \in late' : w.op = "final" => w \in late
        BY <3>1 DEF Pending
      <3>2. CASE Draft(i)
        BY <3>1, <3>2 DEF Draft, HandOver
      <3>3. CASE JudgeFails(i)
        BY <3>1, <3>3 DEF JudgeFails, HandOver
      <3>4. CASE ReserveCorrectionJob(i) \/ Rerun(i)
        BY <3>4 DEF ReserveCorrectionJob, Rerun
      <3>5. QED
        BY <1>5, <3>2, <3>3, <3>4
    <2>3. QED
      BY <1>1, <2>1, <2>2, UnreadUnmoved
  <1>6. ASSUME NEW i \in Texts, JudgeDirect(i) \/ JudgeQueued(i)
        PROVE  UnreadInv'
    BY <1>1, <1>6, UnreadDirect, UnreadQueued
  <1>7. CASE StartBackfill \/ UNCHANGED vars
    BY <1>1, <1>7, UnreadUnmoved DEF StartBackfill, vars
  <1>8. ASSUME NEW t \in Turns, BackfillTurn(t) \/ MarkCorrectionRead(t)
        PROVE  UnreadInv'
    BY <1>1, <1>8, UnreadBackfill, UnreadRead
  <1>9. CASE DeleteSession
    BY <1>9 DEF DeleteSession, UnreadInv
  <1>10. QED
    BY <1>2, <1>3, <1>4, <1>5, <1>6, <1>7, <1>8, <1>9 DEF Next

LEMMA UnreadInit == Init => UnreadInv
  BY RoomsAssumption DEF Init, UnreadInv, Made, Told, HasVerdict, Texts, Turns

LEMMA UnreadInvariant == Spec => []UnreadInv
  BY UnreadInit, UnreadNext, TypeInvariant, NumbersInvariant, PTL DEF Spec

(* A verdict's mark says whether it differs from the draft and was not     *)
(* opened, whichever of its two savings comes last (mysql_turns.go,        *)
(* SaveCorrectionFinal and MarkCorrectionRead).                            *)
THEOREM MarkedUntilRead == Spec => []UnreadUntilRead
  <1>1. TypeInv /\ UnreadInv /\ NothingSurvivesDeletion => UnreadUntilRead
    <2> SUFFICES ASSUME TypeInv, UnreadInv, NothingSurvivesDeletion, ~ early,
                        NEW t \in Turns \ again, HasVerdict(t)
                 PROVE  LET c == user[t].correction IN
                        user[t].unread <=> /\ c.of \notin drafted \/ c.content # "draft"
                                           /\ <<t, c>> \notin read
      BY DEF UnreadUntilRead
    <2>1. ~ deleted
      BY DEF NothingSurvivesDeletion, HasVerdict
    <2>2. Told(t)
      BY <2>1 DEF UnreadInv
    <2>3. QED
      BY <2>2 DEF Told
  <1>2. QED
    BY <1>1, TypeInvariant, UnreadInvariant, DeletedForGood, PTL

-----------------------------------------------------------------------------
(* Recordings. *)

CascadeStep ==
  [at : {"ended", "select", "objects", "rows", "lookup", "get", "missing"},
   keys : SUBSET Utterances, cursor : Nat, failed : BOOLEAN, due : SUBSET Utterances]
Asking == [kind : {"none", "room", "one", "play"}, of : Utterances \cup {None},
           step : [R!Kinds -> CascadeStep]]

RecTypes ==
  /\ room \in {"open", "deleted"}
  /\ saver \in [Utterances -> [R!Kinds -> {"unsaid", "put", "insert", "ended"}]]
  /\ objects \subseteq Utterances /\ listed \subseteq Utterances
  /\ copies \subseteq Utterances /\ overtaken \subseteq Utterances
  /\ request \in [Chats -> Asking]

(* What a saver has put and not yet inserted is there, and what it has not  *)
(* put is not; what it still does after the room's deletion is overtaken.  *)
SaversStand ==
  \A u \in Utterances :
    /\ u \in listed => saver[u]["archive"] = "ended"
    /\ u \in objects => saver[u]["archive"] \in {"insert", "ended"}
    /\ u \in copies => saver[u]["copies"] = "ended"
    /\ saver[u]["archive"] = "insert" => u \in objects
    /\ saver[u]["archive"] \in {"put", "insert"} /\ room = "deleted" => u \in overtaken
    /\ u \in objects /\ u \notin listed /\ saver[u]["archive"] # "insert" => u \in overtaken

Gone(u) == \E r \in Chats : R!Deletes(r, u)

(* How far a request has come, by what it has left. *)
ArchiveStands(q) ==
  LET s == q.step["archive"] IN
  /\ \A u \in s.keys : saver[u]["archive"] = "ended"
  /\ q.kind = "room" =>
       /\ room = "deleted"
       /\ s.at \in {"select", "objects", "rows", "ended"}
       /\ s.at = "objects" /\ ~ s.failed => objects \cap listed \subseteq overtaken \cup s.keys
       /\ s.at = "rows" => ~ s.failed /\ objects \cap listed \subseteq overtaken
       /\ s.at = "ended" /\ ~ s.failed =>
            \A u \in s.due : u \notin listed /\ (u \in objects => u \in overtaken)
  /\ q.kind = "one" =>
       /\ q.of \in Utterances /\ saver[q.of]["archive"] = "ended"
       /\ s.at \in {"objects", "rows", "ended"} /\ s.keys \subseteq {q.of}
       /\ s.at = "objects" /\ ~ s.failed /\ q.of \in objects => q.of \in s.keys
       /\ s.at = "rows" => ~ s.failed /\ q.of \notin objects

CopiesStand(q) ==
  LET s == q.step["copies"] IN
  q.kind = "room" =>
    /\ s.at \in {"select", "objects", "ended"}
    /\ s.at = "select" => ~ s.failed /\ \A u \in copies \cap s.due : u <= s.cursor => u \in s.keys
    /\ s.at = "objects" /\ ~ s.failed => copies \cap s.due \subseteq s.keys
    /\ s.at = "ended" /\ ~ s.failed => copies \cap s.due = {}

RequestStands(q) ==
  /\ q.kind = "none" => q = R!NoRequest
  /\ \A k \in R!Kinds : \A u \in q.step[k].due : saver[u][k] = "ended"
  /\ ArchiveStands(q) /\ CopiesStand(q)
  /\ q.kind = "play" =>
       /\ q.of \in Utterances
       /\ q.step["archive"].at \in {"lookup", "get", "missing", "ended"}
       /\ q.step["copies"].at = "ended"

PlayStands(q) ==
  /\ q.kind = "play" => q.of \in listed \cap objects \/ Gone(q.of)
  /\ q.step["archive"].at = "missing" => q.kind = "play" /\ Gone(q.of)

UnplayableStands ==
  \A u \in listed \ objects : \E r \in Chats : R!Deletes(r, u) /\ R!Unfinished(r)

RecInv ==
  /\ RecTypes /\ SaversStand /\ UnplayableStands
  /\ \A r \in Chats : RequestStands(request[r]) /\ PlayStands(request[r])

USE RecordingsAssumption

LEMMA RecInit == ASSUME R!Init PROVE RecInv
  <1>1. PICK no \in BOOLEAN : no = FALSE
    OBVIOUS
  <1>2. R!Cascade = [at |-> "ended", keys |-> {}, cursor |-> 0, failed |-> no, due |-> {}]
    BY <1>1 DEF R!Cascade
  <1>3. R!Cascade \in CascadeStep
    BY <1>2 DEF CascadeStep
  <1>4. R!NoRequest \in Asking /\ R!NoRequest.kind = "none"
        /\ \A k \in R!Kinds : R!NoRequest.step[k] = R!Cascade
    BY <1>3 DEF R!NoRequest, Asking
  <1>5. RecTypes
    BY <1>4 DEF R!Init, RecTypes
  <1>6. SaversStand /\ UnplayableStands
    BY DEF R!Init, SaversStand, UnplayableStands, R!Kinds
  <1>7. ASSUME NEW r \in Chats
        PROVE  RequestStands(request[r]) /\ PlayStands(request[r])
    <2>1. request[r] = R!NoRequest
      BY DEF R!Init
    <2>2. \A k \in R!Kinds : request[r].step[k].due = {} /\ request[r].step[k].keys = {}
                             /\ request[r].step[k].at = "ended"
      BY <2>1, <1>4, <1>2
    <2>3. QED
      BY <2>1, <2>2, <1>4 DEF RequestStands, PlayStands, ArchiveStands, CopiesStand, R!Kinds
  <1>8. QED
    BY <1>5, <1>6, <1>7 DEF RecInv

-----------------------------------------------------------------------------
(* The savers. *)

LEMMA SaysMore ==
  ASSUME RecInv, NEW u \in Utterances, NEW k \in R!Kinds,
         NEW at \in {"unsaid", "put", "insert", "ended"}, R!Saves(u, k, at)
  PROVE  /\ saver' \in [Utterances -> [R!Kinds -> {"unsaid", "put", "insert", "ended"}]]
         /\ saver'[u][k] = at
         /\ \A v \in Utterances, j \in R!Kinds : v # u \/ j # k => saver'[v][j] = saver[v][j]
  BY DEF RecInv, RecTypes, R!Saves

(* A saver's step leaves the requests where they are. *)
LEMMA SaverKeeps ==
  ASSUME RecInv, UNCHANGED <<room, request>>,
         saver' \in [Utterances -> [R!Kinds -> {"unsaid", "put", "insert", "ended"}]],
         \A v \in Utterances, j \in R!Kinds : saver[v][j] = "ended" => saver'[v][j] = "ended",
         objects \subseteq objects', objects' \subseteq Utterances,
         listed \subseteq listed', listed' \subseteq Utterances,
         copies \subseteq copies', copies' \subseteq Utterances,
         overtaken \subseteq overtaken', overtaken' \subseteq Utterances,
         \A v \in objects' \ objects : saver[v]["archive"] # "ended" /\ v \notin listed',
         \A v \in listed' \ listed :
           /\ saver[v]["archive"] # "ended" /\ v \in objects
           /\ room = "deleted" => v \in overtaken,
         \A v \in copies' \ copies : saver[v]["copies"] # "ended",
         SaversStand'
  PROVE  RecInv'
  <1>1. RecTypes'
    BY DEF RecInv, RecTypes
  <1>2. \A u, r : R!Deletes(r, u)' = R!Deletes(r, u) /\ R!Unfinished(r)' = R!Unfinished(r)
    BY DEF R!Deletes, R!Unfinished, R!Step
  <1>3. UnplayableStands'
    BY <1>2 DEF RecInv, UnplayableStands
  <1>4. ASSUME NEW r \in Chats
        PROVE  (RequestStands(request[r]) /\ PlayStands(request[r]))'
    <2>0. PICK q \in Asking : q = request[r] /\ q = request'[r] /\ RequestStands(q) /\ PlayStands(q)
      BY DEF RecInv, RecTypes
    <2>t. /\ \A k \in R!Kinds : q.step[k] \in CascadeStep
          /\ q.step["archive"] \in CascadeStep
          /\ q.step["copies"] \in CascadeStep
      BY DEF Asking, R!Kinds
    <2>1. \A k \in R!Kinds : \A u \in q.step[k].due : saver'[u][k] = "ended"
      <3>1. \A k \in R!Kinds : \A u \in q.step[k].due : u \in Utterances /\ saver[u][k] = "ended"
        BY <2>0, <2>t DEF RequestStands, CascadeStep
      <3>2. QED
        BY <3>1
    <2>2. ArchiveStands(q)'
      BY <2>0, <2>t, <2>1 DEF RequestStands, ArchiveStands, CascadeStep, R!Kinds, RecInv, SaversStand
    <2>3. CopiesStand(q)'
      BY <2>0, <2>t DEF RequestStands, CopiesStand, CascadeStep, R!Kinds, RecInv
    <2>4. PlayStands(q)'
      BY <2>0, <1>2 DEF PlayStands, Gone
    <2>5. QED
      BY <2>0, <2>1, <2>2, <2>3, <2>4 DEF RequestStands
  <1>5. QED
    BY <1>1, <1>3, <1>4 DEF RecInv

LEMMA SayKeeps == ASSUME RecInv, NEW u \in Utterances, R!Say(u) PROVE RecInv'
  <1>1. /\ saver' \in [Utterances -> [R!Kinds -> {"unsaid", "put", "insert", "ended"}]]
        /\ \A v \in Utterances \ {u} : saver'[v] = saver[v]
        /\ \A k \in R!Kinds : saver[u][k] = "unsaid" /\ saver'[u][k] \in {"put", "ended"}
        /\ room = "open"
    BY DEF RecInv, RecTypes, R!Say
  <1>2. /\ UNCHANGED <<stores, room, objects, listed, copies, request, overtaken, outages>>
    BY DEF R!Say
  <1>3. \A v \in Utterances, j \in R!Kinds : saver[v][j] = "ended" => saver'[v][j] = "ended"
    BY <1>1
  <1>4. SaversStand'
    BY <1>1, <1>2 DEF RecInv, SaversStand, R!Kinds
  <1>5. QED
    BY <1>1, <1>2, <1>3, <1>4, SaverKeeps DEF RecInv, RecTypes

LEMMA PutKeeps == ASSUME RecInv, NEW u \in Utterances, R!PutObject(u) PROVE RecInv'
  <1>1. /\ UNCHANGED <<stores, room, listed, copies, request, overtaken>>
        /\ saver[u]["archive"] = "put"
        /\ \/ R!Saves(u, "archive", "insert") /\ objects' = objects \cup {u}
           \/ R!Saves(u, "archive", "ended") /\ objects' = objects
    BY DEF R!PutObject
  <1>2. PICK at \in {"insert", "ended"} : R!Saves(u, "archive", at)
          /\ objects' = IF at = "insert" THEN objects \cup {u} ELSE objects
    BY <1>1
  <1>3. /\ saver' \in [Utterances -> [R!Kinds -> {"unsaid", "put", "insert", "ended"}]]
        /\ saver'[u]["archive"] = at
        /\ \A v \in Utterances, j \in R!Kinds : v # u \/ j # "archive" => saver'[v][j] = saver[v][j]
    BY <1>2, SaysMore DEF R!Kinds
  <1>4. \A v \in Utterances, j \in R!Kinds : saver[v][j] = "ended" => saver'[v][j] = "ended"
    BY <1>1, <1>3
  <1>5. SaversStand'
    BY <1>1, <1>2, <1>3 DEF RecInv, SaversStand, R!Kinds
  <1>6. \A v \in objects' \ objects : saver[v]["archive"] # "ended" /\ v \notin listed'
    BY <1>1, <1>2 DEF RecInv, SaversStand
  <1>7. /\ objects \subseteq objects' /\ objects' \subseteq Utterances
    BY <1>2 DEF RecInv, RecTypes
  <1>8. QED
    BY <1>1, <1>3, <1>4, <1>5, <1>6, <1>7, SaverKeeps DEF RecInv, RecTypes

LEMMA InsertKeeps == ASSUME RecInv, NEW u \in Utterances, R!InsertRow(u) PROVE RecInv'
  <1>1. /\ UNCHANGED <<stores, room, objects, copies, request>>
        /\ saver[u]["archive"] = "insert" /\ R!Saves(u, "archive", "ended")
        /\ \/ listed' = listed \cup {u} /\ overtaken' = overtaken
           \/ overtaken' = overtaken \cup {u} /\ listed' = listed
    BY DEF R!InsertRow
  <1>3. /\ saver' \in [Utterances -> [R!Kinds -> {"unsaid", "put", "insert", "ended"}]]
        /\ saver'[u]["archive"] = "ended"
        /\ \A v \in Utterances, j \in R!Kinds : v # u \/ j # "archive" => saver'[v][j] = saver[v][j]
    BY <1>1, SaysMore DEF R!Kinds
  <1>4. \A v \in Utterances, j \in R!Kinds : saver[v][j] = "ended" => saver'[v][j] = "ended"
    BY <1>1, <1>3
  <1>5. SaversStand'
    BY <1>1, <1>3 DEF RecInv, SaversStand, R!Kinds
  <1>6. \A v \in listed' \ listed : /\ saver[v]["archive"] # "ended" /\ v \in objects
                                    /\ room = "deleted" => v \in overtaken
    BY <1>1 DEF RecInv, SaversStand
  <1>7. /\ listed \subseteq listed' /\ listed' \subseteq Utterances
        /\ overtaken \subseteq overtaken' /\ overtaken' \subseteq Utterances
    BY <1>1 DEF RecInv, RecTypes
  <1>8. QED
    BY <1>1, <1>3, <1>4, <1>5, <1>6, <1>7, SaverKeeps DEF RecInv, RecTypes

LEMMA SaveKeeps == ASSUME RecInv, NEW u \in Utterances, R!SaveStream(u) PROVE RecInv'
  <1>1. /\ UNCHANGED <<stores, room, objects, listed, request, overtaken>>
        /\ saver[u]["copies"] = "put" /\ R!Saves(u, "copies", "ended")
        /\ copies' \in {copies, copies \cup {u}}
    BY DEF R!SaveStream
  <1>3. /\ saver' \in [Utterances -> [R!Kinds -> {"unsaid", "put", "insert", "ended"}]]
        /\ saver'[u]["copies"] = "ended"
        /\ \A v \in Utterances, j \in R!Kinds : v # u \/ j # "copies" => saver'[v][j] = saver[v][j]
    BY <1>1, SaysMore DEF R!Kinds
  <1>4. \A v \in Utterances, j \in R!Kinds : saver[v][j] = "ended" => saver'[v][j] = "ended"
    BY <1>1, <1>3
  <1>5. SaversStand'
    BY <1>1, <1>3 DEF RecInv, SaversStand, R!Kinds
  <1>6. \A v \in copies' \ copies : saver[v]["copies"] # "ended"
    BY <1>1
  <1>7. copies \subseteq copies' /\ copies' \subseteq Utterances
    BY <1>1 DEF RecInv, RecTypes
  <1>8. QED
    BY <1>1, <1>3, <1>4, <1>5, <1>6, <1>7, SaverKeeps DEF RecInv, RecTypes

-----------------------------------------------------------------------------
(* The requests, which take away only. *)

Shrinks ==
  /\ UNCHANGED saver
  /\ objects' \subseteq objects /\ listed' \subseteq listed /\ copies' \subseteq copies
  /\ overtaken \subseteq overtaken' /\ overtaken' \subseteq Utterances
  /\ room' \in {room, "deleted"}

LEMMA StepTypes ==
  ASSUME NEW q \in Asking
  PROVE  /\ \A k \in R!Kinds : q.step[k] \in CascadeStep
         /\ q.step["archive"] \in CascadeStep /\ q.step["copies"] \in CascadeStep
  BY DEF Asking, R!Kinds

LEMMA ArchiveShrinks ==
  ASSUME RecInv, Shrinks, NEW q \in Asking, NEW p \in Asking, ArchiveStands(q),
         p.kind = q.kind, p.of = q.of, p.step["archive"] = q.step["archive"]
  PROVE  ArchiveStands(p)'
  <1>1. q.step["archive"] \in CascadeStep
    BY StepTypes
  <1>2. QED
    BY <1>1 DEF ArchiveStands, Shrinks, CascadeStep, RecInv, RecTypes

LEMMA CopiesShrink ==
  ASSUME RecInv, Shrinks, NEW q \in Asking, NEW p \in Asking, CopiesStand(q),
         p.kind = q.kind, p.step["copies"] = q.step["copies"]
  PROVE  CopiesStand(p)'
  <1>1. q.step["copies"] \in CascadeStep
    BY StepTypes
  <1>2. QED
    BY <1>1 DEF CopiesStand, Shrinks, CascadeStep, RecInv, RecTypes

(* What one request's step must see to. *)
LEMMA RequestKeeps ==
  ASSUME RecInv, Shrinks, NEW r \in Chats, request' \in [Chats -> Asking],
         \A q \in Chats \ {r} : request'[q] = request[q],
         \A u \in Utterances : R!Deletes(r, u) => R!Deletes(r, u)',
         \A u \in Utterances : R!Deletes(r, u) /\ R!Unfinished(r) /\ u \in listed' =>
           R!Unfinished(r)',
         \A u \in Utterances : u \in listed \cap objects /\ u \notin listed' \cap objects' =>
           R!Deletes(r, u)' /\ (u \in listed' => R!Unfinished(r)'),
         \A u \in Utterances : u \in objects' \ listed' /\ saver[u]["archive"] # "insert" =>
           u \in overtaken',
         room' # room => \A u \in Utterances :
           saver[u]["archive"] \in {"put", "insert"} => u \in overtaken',
         \A u \in Utterances : saver[u]["archive"] = "insert" => u \in objects',
         RequestStands(request[r])',
         PlayStands(request[r])'
  PROVE  RecInv'
  <1>1. RecTypes'
    BY DEF RecInv, RecTypes, Shrinks
  <1>2. SaversStand'
    BY DEF RecInv, SaversStand, Shrinks, RecTypes
  <1>3. ASSUME NEW q \in Chats \ {r}, NEW u
        PROVE  R!Deletes(q, u)' = R!Deletes(q, u) /\ R!Unfinished(q)' = R!Unfinished(q)
    BY DEF R!Deletes, R!Unfinished, R!Step
  <1>4. UnplayableStands'
    <2> SUFFICES ASSUME NEW u \in Utterances, u \in listed' \ objects'
                 PROVE  \E q \in Chats : R!Deletes(q, u)' /\ R!Unfinished(q)'
      BY <1>1 DEF UnplayableStands, RecTypes
    <2>u. u \in listed
      BY DEF Shrinks
    <2>1. CASE u \in objects
      BY <2>1, <2>u
    <2>2. CASE u \notin objects
      <3>1. PICK q \in Chats : R!Deletes(q, u) /\ R!Unfinished(q)
        BY <2>2, <2>u DEF RecInv, UnplayableStands
      <3>2. QED
        BY <3>1, <1>3, <2>u
    <2>3. QED
      BY <2>1, <2>2
  <1>5. ASSUME NEW u \in Utterances, Gone(u) PROVE Gone(u)'
    BY <1>3, <1>5 DEF Gone
  <1>6. ASSUME NEW q \in Chats \ {r}
        PROVE  (RequestStands(request[q]) /\ PlayStands(request[q]))'
    <2>0. PICK p \in Asking : p = request[q] /\ p = request'[q] /\ RequestStands(p) /\ PlayStands(p)
      BY DEF RecInv, RecTypes
    <2>1. ArchiveStands(p)' /\ CopiesStand(p)'
      BY <2>0, ArchiveShrinks, CopiesShrink DEF RequestStands
    <2>2. RequestStands(p)'
      BY <2>0, <2>1 DEF RequestStands, Shrinks
    <2>3. CASE p.kind = "play"
      <3>0. p.of \in Utterances
        BY <2>0, <2>3 DEF RequestStands
      <3>1. p.of \in listed' \cap objects' \/ Gone(p.of)'
        BY <2>0, <2>3, <3>0, <1>5 DEF PlayStands, Gone
      <3>2. Gone(p.of) => Gone(p.of)'
        BY <3>0, <1>5
      <3>3. PlayStands(p)'
        BY <2>0, <3>1, <3>2 DEF PlayStands
      <3>4. QED
        BY <2>0, <2>2, <3>3
    <2>4. CASE p.kind # "play"
      BY <2>0, <2>2, <2>4 DEF PlayStands
    <2>5. QED
      BY <2>3, <2>4
  <1>7. QED
    BY <1>1, <1>2, <1>4, <1>6 DEF RecInv

(* A step of one of a request's two cascades. *)
LEMMA StepsTo ==
  ASSUME RecInv, NEW r \in Chats, NEW k \in R!Kinds, NEW s \in CascadeStep, R!Steps(r, k, s)
  PROVE  /\ request' \in [Chats -> Asking]
         /\ \A q \in Chats \ {r} : request'[q] = request[q]
         /\ request'[r].kind = request[r].kind /\ request'[r].of = request[r].of
         /\ request'[r].step[k] = s
         /\ \A j \in R!Kinds \ {k} : request'[r].step[j] = request[r].step[j]
         /\ \A u : R!Deletes(r, u)' = R!Deletes(r, u)
  <1>0. request \in [Chats -> Asking] /\ request[r] \in Asking
    BY DEF RecInv, RecTypes
  <1>1. PICK f \in [R!Kinds -> CascadeStep] : f = [request[r].step EXCEPT ![k] = s]
    BY <1>0 DEF Asking
  <1>2. PICK p \in Asking : p = [request[r] EXCEPT !.step = f]
    BY <1>0 DEF Asking
  <1>3. request' = [request EXCEPT ![r] = p]
    BY <1>1, <1>2 DEF R!Steps
  <1>4. /\ request' \in [Chats -> Asking] /\ request'[r] = p
        /\ \A q \in Chats \ {r} : request'[q] = request[q]
    BY <1>0, <1>3
  <1>5. p.kind = request[r].kind /\ p.of = request[r].of /\ p.step = f
    BY <1>0, <1>2 DEF Asking
  <1>6. f[k] = s /\ \A j \in R!Kinds \ {k} : f[j] = request[r].step[j]
    BY <1>0, <1>1 DEF Asking
  <1>7. QED
    BY <1>4, <1>5, <1>6 DEF R!Deletes

LEMMA Fields ==
  ASSUME NEW c \in CascadeStep,
         NEW at \in {"ended", "select", "objects", "rows", "lookup", "get", "missing"},
         NEW keys \in SUBSET Utterances, NEW n \in Nat, NEW b \in BOOLEAN
  PROVE  /\ [c EXCEPT !.at = at] \in CascadeStep
         /\ [c EXCEPT !.at = at, !.failed = b] \in CascadeStep
         /\ [c EXCEPT !.at = at, !.keys = keys] \in CascadeStep
         /\ [c EXCEPT !.keys = keys, !.cursor = n] \in CascadeStep
         /\ [c EXCEPT !.keys = keys] \in CascadeStep
         /\ [[c EXCEPT !.keys = keys] EXCEPT !.failed = b] \in CascadeStep
  BY DEF CascadeStep

(* A step of one cascade that takes nothing away. *)
LEMMA CascadeKeeps ==
  ASSUME RecInv, UNCHANGED <<saver, objects, listed, copies, overtaken, room>>,
         NEW r \in Chats, NEW k \in R!Kinds, NEW s \in CascadeStep, R!Steps(r, k, s),
         s.due = R!Step(r, k).due,
         k = "archive" => (ArchiveStands(request[r]) /\ PlayStands(request[r]))',
         k = "archive" /\ request[r].kind = "play" =>
           s.at \in {"lookup", "get", "missing", "ended"},
         k = "archive" /\ R!Unfinished(r) /\ request[r].kind \in {"room", "one"} =>
           s.at # "ended" \/ s.failed,
         k = "copies" => CopiesStand(request[r])' /\ request[r].kind # "play",
         request[r].kind # "none"
  PROVE  RecInv'
  <1>0. request \in [Chats -> Asking] /\ request[r] \in Asking
    BY DEF RecInv, RecTypes
  <1>1. /\ request' \in [Chats -> Asking]
        /\ \A q \in Chats \ {r} : request'[q] = request[q]
        /\ request'[r].kind = request[r].kind /\ request'[r].of = request[r].of
        /\ request'[r].step[k] = s
        /\ \A j \in R!Kinds \ {k} : request'[r].step[j] = request[r].step[j]
        /\ \A u : R!Deletes(r, u)' = R!Deletes(r, u)
    BY StepsTo
  <1>2. PICK q \in Asking : q = request[r] /\ RequestStands(q) /\ PlayStands(q)
    BY <1>0 DEF RecInv
  <1>3. PICK p \in Asking : p = request'[r]
    BY <1>1
  <1>s. Shrinks /\ room' = room
    BY DEF Shrinks, RecInv, RecTypes
  <1>4. ArchiveStands(p)'
    BY <1>1, <1>2, <1>3, <1>s, ArchiveShrinks DEF RequestStands, R!Kinds
  <1>5. CopiesStand(p)'
    BY <1>1, <1>2, <1>3, <1>s, CopiesShrink DEF RequestStands, R!Kinds
  <1>6. \A j \in R!Kinds : p.step[j].due = q.step[j].due
    BY <1>1, <1>2, <1>3 DEF R!Step
  <1>7. RequestStands(request[r])'
    BY <1>1, <1>2, <1>3, <1>4, <1>5, <1>6 DEF RequestStands, R!Kinds
  <1>8. ASSUME NEW u, Gone(u) PROVE Gone(u)'
    BY <1>1, <1>8 DEF Gone, R!Deletes
  <1>9. PlayStands(request[r])'
    <2>1. CASE k = "copies"
      BY <1>1, <1>2, <1>8, <2>1 DEF PlayStands, R!Kinds
    <2>2. CASE k = "archive"
      BY <2>2
    <2>3. QED
      BY <2>1, <2>2 DEF R!Kinds
  <1>10. ASSUME NEW u \in Utterances, R!Deletes(r, u), R!Unfinished(r)
         PROVE  R!Unfinished(r)'
    BY <1>1, <1>10 DEF R!Unfinished, R!Step, R!Deletes, R!Kinds
  <1>11. /\ \A u \in Utterances : u \in objects' \ listed' /\ saver[u]["archive"] # "insert" =>
              u \in overtaken'
         /\ \A u \in Utterances : saver[u]["archive"] = "insert" => u \in objects'
    BY DEF RecInv, SaversStand
  <1>12. QED
    BY <1>1, <1>7, <1>9, <1>10, <1>11, <1>s, RequestKeeps

LEMMA FailsKeeps ==
  ASSUME RecInv, UNCHANGED <<saver, objects, listed, copies, overtaken, room>>,
         NEW r \in Chats, NEW k \in R!Kinds, R!Fails(r, k),
         request[r].kind \in {"room", "one"},
         k = "copies" => request[r].kind = "room"
  PROVE  RecInv'
  <1>0. request \in [Chats -> Asking] /\ request[r] \in Asking /\ request[r].step[k] \in CascadeStep
    BY StepTypes DEF RecInv, RecTypes
  <1>1. PICK b \in BOOLEAN : b = TRUE
    OBVIOUS
  <1>2. PICK s \in CascadeStep : s = [R!Step(r, k) EXCEPT !.at = "ended", !.failed = b]
    BY <1>0, Fields DEF R!Step
  <1>3. R!Steps(r, k, s)
    BY <1>1, <1>2 DEF R!Fails
  <1>4. /\ request'[r].kind = request[r].kind /\ request'[r].of = request[r].of
        /\ request'[r].step[k] = s
    BY <1>3, StepsTo
  <1>5. s.at = "ended" /\ s.failed /\ s.due = R!Step(r, k).due /\ s.keys = R!Step(r, k).keys
    BY <1>0, <1>1, <1>2 DEF CascadeStep, R!Step
  <1>6. RequestStands(request[r])
    BY DEF RecInv
  <1>7. ASSUME k = "archive" PROVE (ArchiveStands(request[r]) /\ PlayStands(request[r]))'
    BY <1>4, <1>5, <1>6, <1>7 DEF ArchiveStands, PlayStands, RequestStands, R!Step
  <1>8. ASSUME k = "copies" PROVE CopiesStand(request[r])'
    BY <1>4, <1>5, <1>8 DEF CopiesStand
  <1>9. QED
    BY <1>3, <1>5, <1>7, <1>8, CascadeKeeps

(* Which requests take which steps. *)
LEMMA WhoseStep ==
  ASSUME RecInv, NEW r \in Chats, NEW k \in R!Kinds
  PROVE  /\ R!At(r, k, "select") => request[r].kind # "none" /\ request[r].kind # "play"
         /\ R!At(r, k, "objects") => request[r].kind # "none" /\ request[r].kind # "play"
         /\ R!At(r, "archive", "select") => request[r].kind = "room"
         /\ R!At(r, "archive", "rows") => request[r].kind \in {"room", "one"}
         /\ R!At(r, "archive", "lookup") => request[r].kind = "play"
         /\ R!At(r, "archive", "get") => request[r].kind = "play"
         /\ request[r].kind \in {"none", "room", "one", "play"}
  <1>1. request[r] \in Asking /\ RequestStands(request[r])
    BY DEF RecInv, RecTypes
  <1>2. \A j \in R!Kinds : R!NoRequest.step[j].at = "ended"
    BY DEF R!NoRequest, R!Cascade
  <1>3. request[r].kind \in {"none", "room", "one", "play"}
    BY <1>1 DEF Asking
  <1>4. QED
    BY <1>1, <1>2, <1>3 DEF R!At, RequestStands, ArchiveStands, R!Kinds

LEMMA SelectKeeps == ASSUME RecInv, NEW r \in Chats, R!Select(r) PROVE RecInv'
  <1>0. /\ R!At(r, "archive", "select") /\ request[r].kind = "room" /\ "archive" \in R!Kinds
        /\ UNCHANGED <<saver, objects, listed, copies, overtaken, room>>
    BY WhoseStep DEF R!Select, R!Kinds
  <1>1. CASE R!Fails(r, "archive")
    BY <1>0, <1>1, FailsKeeps
  <1>2. CASE R!Steps(r, "archive", [R!Step(r, "archive") EXCEPT !.at = "objects", !.keys = listed])
    <2>0. R!Step(r, "archive") \in CascadeStep /\ listed \subseteq Utterances
      BY StepTypes DEF RecInv, RecTypes, R!Step
    <2>1. PICK s \in CascadeStep : s = [R!Step(r, "archive") EXCEPT !.at = "objects", !.keys = listed]
      BY <2>0, Fields
    <2>2. s.at = "objects" /\ s.keys = listed /\ s.due = R!Step(r, "archive").due
      BY <2>0, <2>1 DEF CascadeStep
    <2>3. R!Steps(r, "archive", s)
      BY <1>2, <2>1
    <2>4. /\ request'[r].kind = request[r].kind /\ request'[r].step["archive"] = s
      BY <2>3, <1>0, StepsTo
    <2>5. RequestStands(request[r]) /\ SaversStand /\ listed \subseteq Utterances
      BY DEF RecInv, RecTypes
    <2>6. (ArchiveStands(request[r]) /\ PlayStands(request[r]))'
      BY <2>2, <2>4, <2>5, <1>0 DEF ArchiveStands, PlayStands, RequestStands, SaversStand
    <2>7. QED
      BY <1>0, <2>2, <2>3, <2>6, CascadeKeeps
  <1>3. QED
    BY <1>1, <1>2 DEF R!Select

(* The copies are numbered, and so one of those left is the next. *)
LEMMA NextCopy ==
  ASSUME RecInv, NEW r \in Chats, R!Beyond(r) # {}
  PROVE  LET n == CHOOSE u \in R!Beyond(r) : \A v \in R!Beyond(r) : u <= v IN
         n \in R!Beyond(r) /\ \A v \in R!Beyond(r) : n <= v
  <1>1. R!Beyond(r) \subseteq Nat
    BY DEF R!Beyond, RecInv, RecTypes
  <1>2. PICK u \in R!Beyond(r) : \A v \in R!Beyond(r) : ~ (<<v, u>> \in OpToRel(<, Nat))
    BY <1>1, WFMin, NatLessThanWellFounded
  <1>3. \A x, y \in Nat : x < y => <<x, y>> \in OpToRel(<, Nat)
    BY DEF OpToRel
  <1>4. ASSUME NEW v \in R!Beyond(r) PROVE u <= v
    <2>1. u \in Nat /\ v \in Nat
      BY <1>1
    <2>2. ~ (v < u)
      BY <2>1, <1>2, <1>3
    <2>3. QED
      BY <2>1, <2>2
  <1>5. QED
    BY <1>4

LEMMA ListKeeps == ASSUME RecInv, NEW r \in Chats, R!List(r) PROVE RecInv'
  <1>0. /\ R!At(r, "copies", "select") /\ request[r].kind \in {"room", "one"}
        /\ "copies" \in R!Kinds
        /\ UNCHANGED <<saver, objects, listed, copies, overtaken, room>>
    BY WhoseStep DEF R!List, R!Kinds
  <1>c. R!Step(r, "copies") \in CascadeStep /\ RequestStands(request[r])
    BY StepTypes DEF RecInv, RecTypes, R!Step
  <1>1. CASE R!Fails(r, "copies") /\ request[r].kind = "room"
    BY <1>0, <1>1, FailsKeeps
  <1>2. ASSUME NEW s \in CascadeStep, R!Steps(r, "copies", s),
               s.due = R!Step(r, "copies").due,
               request[r].kind = "room" =>
                 \/ s.at = "ended" /\ s.failed
                 \/ s.at = "objects" /\ (~ s.failed => copies \cap s.due \subseteq s.keys)
                 \/ s.at = "select" /\ ~ s.failed
                    /\ \A u \in copies \cap s.due : u <= s.cursor => u \in s.keys
        PROVE  RecInv'
    <2>1. request'[r].kind = request[r].kind /\ request'[r].step["copies"] = s
      BY <1>0, <1>2, StepsTo
    <2>2. CopiesStand(request[r])'
      BY <1>0, <1>2, <2>1 DEF CopiesStand
    <2>3. QED
      BY <1>0, <1>2, <2>2, CascadeKeeps
  <1>3. CASE R!Fails(r, "copies") /\ request[r].kind = "one"
    <2>1. PICK b \in BOOLEAN : b = TRUE
      OBVIOUS
    <2>2. PICK s \in CascadeStep : s = [R!Step(r, "copies") EXCEPT !.at = "ended", !.failed = b]
      BY <1>c, Fields
    <2>3. R!Steps(r, "copies", s) /\ s.due = R!Step(r, "copies").due
      BY <1>c, <1>3, <2>1, <2>2 DEF R!Fails, CascadeStep
    <2>4. QED
      BY <1>2, <1>3, <2>3
  <1>4. CASE /\ R!Beyond(r) = {}
             /\ R!Steps(r, "copies", [R!Step(r, "copies") EXCEPT !.at = "objects"])
    <2>1. PICK s \in CascadeStep : s = [R!Step(r, "copies") EXCEPT !.at = "objects"]
      BY <1>c, Fields
    <2>2. /\ R!Steps(r, "copies", s) /\ s.due = R!Step(r, "copies").due /\ s.at = "objects"
          /\ s.keys = R!Step(r, "copies").keys
      BY <1>c, <1>4, <2>1 DEF CascadeStep
    <2>3. \A u \in copies : u <= R!Step(r, "copies").cursor
      BY <1>4, <1>c DEF R!Beyond, RecInv, RecTypes, CascadeStep
    <2>4. request[r].kind = "room" => copies \cap s.due \subseteq s.keys
      BY <1>0, <1>c, <2>2, <2>3 DEF RequestStands, CopiesStand, R!At, R!Step
    <2>5. QED
      BY <1>2, <2>2, <2>4
  <1>5. CASE R!Beyond(r) # {} /\
             LET n == CHOOSE u \in R!Beyond(r) : \A v \in R!Beyond(r) : u <= v IN
             R!Steps(r, "copies", [R!Step(r, "copies") EXCEPT !.keys = @ \cup {n}, !.cursor = n])
    <2>1. PICK n \in R!Beyond(r) :
            /\ \A v \in R!Beyond(r) : n <= v
            /\ R!Steps(r, "copies", [R!Step(r, "copies") EXCEPT !.keys = @ \cup {n}, !.cursor = n])
      BY <1>5, NextCopy
    <2>n. n \in Utterances /\ n \in Nat
      BY <2>1 DEF R!Beyond, RecInv, RecTypes
    <2>k. PICK keys \in SUBSET Utterances : keys = R!Step(r, "copies").keys \cup {n}
      BY <1>c, <2>n DEF CascadeStep
    <2>2. PICK s \in CascadeStep : s = [R!Step(r, "copies") EXCEPT !.keys = keys, !.cursor = n]
      BY <1>c, <2>n, Fields
    <2>3. /\ R!Steps(r, "copies", s) /\ s.due = R!Step(r, "copies").due
          /\ s.keys = R!Step(r, "copies").keys \cup {n} /\ s.cursor = n
          /\ s.at = R!Step(r, "copies").at /\ s.failed = R!Step(r, "copies").failed
      BY <1>c, <2>1, <2>2, <2>k DEF CascadeStep
    <2>4. \A u \in copies : u <= R!Step(r, "copies").cursor \/ n <= u
      BY <2>1, <1>c DEF R!Beyond, RecInv, RecTypes, CascadeStep
    <2>5. \A u \in copies : u \in Nat
      BY DEF RecInv, RecTypes
    <2>6. \A u \in copies : u <= n => u <= R!Step(r, "copies").cursor \/ u = n
      BY <2>4, <2>5, <2>n
    <2>7. request[r].kind = "room" =>
            /\ ~ s.failed /\ s.at = "select"
            /\ \A u \in copies \cap s.due : u <= s.cursor => u \in s.keys
      BY <1>0, <1>c, <2>3, <2>6 DEF RequestStands, CopiesStand, R!At, R!Step
    <2>8. QED
      BY <1>2, <2>3, <2>7
  <1>6. QED
    BY <1>0, <1>1, <1>3, <1>4, <1>5 DEF R!List

LEMMA DeletedAllKeeps ==
  ASSUME RecInv, NEW r \in Chats, NEW k \in R!Kinds, R!DeletedAll(r, k)
  PROVE  RecInv'
  <1>0. /\ R!At(r, k, "objects") /\ request[r].kind \in {"room", "one"}
        /\ R!Step(r, k).keys = {}
        /\ UNCHANGED <<saver, objects, listed, copies, overtaken, room>>
    BY WhoseStep DEF R!DeletedAll
  <1>c. R!Step(r, k) \in CascadeStep /\ RequestStands(request[r])
    BY StepTypes DEF RecInv, RecTypes, R!Step
  <1>1. PICK at \in {"rows", "ended"} :
          at = IF k = "archive" /\ ~ R!Step(r, k).failed THEN "rows" ELSE "ended"
    OBVIOUS
  <1>2. PICK s \in CascadeStep : s = [R!Step(r, k) EXCEPT !.at = at]
    BY <1>c, Fields
  <1>3. /\ s.at = at /\ s.keys = {} /\ s.failed = R!Step(r, k).failed /\ s.due = R!Step(r, k).due
    BY <1>0, <1>c, <1>2 DEF CascadeStep
  <1>4. R!Steps(r, k, s)
    BY <1>1, <1>2 DEF R!DeletedAll
  <1>5. /\ request'[r].kind = request[r].kind /\ request'[r].of = request[r].of
        /\ request'[r].step[k] = s
    BY <1>4, StepsTo
  <1>6. ASSUME k = "archive" PROVE (ArchiveStands(request[r]) /\ PlayStands(request[r]))'
    BY <1>0, <1>c, <1>1, <1>3, <1>5, <1>6
       DEF ArchiveStands, PlayStands, RequestStands, R!At, R!Step
  <1>7. ASSUME k = "copies" PROVE CopiesStand(request[r])'
    BY <1>0, <1>c, <1>1, <1>3, <1>5, <1>7 DEF CopiesStand, RequestStands, R!At, R!Step
  <1>8. k = "archive" => s.at # "ended" \/ s.failed
    BY <1>1, <1>3
  <1>9. QED
    BY <1>0, <1>3, <1>4, <1>6, <1>7, <1>8, CascadeKeeps

LEMMA DeleteObjectKeeps ==
  ASSUME RecInv, NEW r \in Chats, NEW k \in R!Kinds, NEW u \in Utterances, R!DeleteObject(r, k, u)
  PROVE  RecInv'
  <1>0. /\ R!At(r, k, "objects") /\ request[r].kind \in {"room", "one"}
        /\ u \in R!Step(r, k).keys
        /\ UNCHANGED <<saver, listed, overtaken, room>>
    BY WhoseStep DEF R!DeleteObject
  <1>c. /\ R!Step(r, k) \in CascadeStep /\ request[r] \in Asking
        /\ RequestStands(request[r]) /\ PlayStands(request[r])
    BY StepTypes DEF RecInv, RecTypes, R!Step
  <1>k. PICK keys \in SUBSET Utterances : keys = R!Step(r, k).keys \ {u}
    BY <1>c DEF CascadeStep
  <1>t. PICK t \in BOOLEAN : t = TRUE
    OBVIOUS
  <1>1. CASE /\ R!Steps(r, k, [[R!Step(r, k) EXCEPT !.keys = @ \ {u}] EXCEPT !.failed = TRUE])
             /\ UNCHANGED <<objects, copies>>
    <2>1. PICK s \in CascadeStep : s = [[R!Step(r, k) EXCEPT !.keys = keys] EXCEPT !.failed = t]
      BY <1>c, Fields
    <2>2. R!Steps(r, k, s)
      BY <1>1, <1>k, <1>t, <2>1
    <2>3. /\ s.at = "objects" /\ s.failed /\ s.keys = keys /\ s.due = R!Step(r, k).due
      BY <1>0, <1>c, <1>t, <2>1 DEF CascadeStep, R!At, R!Step
    <2>5. /\ request'[r].kind = request[r].kind /\ request'[r].of = request[r].of
          /\ request'[r].step[k] = s
      BY <2>2, StepsTo
    <2>6. ASSUME k = "archive" PROVE (ArchiveStands(request[r]) /\ PlayStands(request[r]))'
      BY <1>0, <1>1, <1>c, <1>k, <2>3, <2>5, <2>6
         DEF ArchiveStands, PlayStands, RequestStands, R!At, R!Step
    <2>7. ASSUME k = "copies" PROVE CopiesStand(request[r])'
      BY <1>0, <1>c, <2>3, <2>5, <2>7 DEF CopiesStand, RequestStands, R!At, R!Step
    <2>8. QED
      BY <1>0, <1>1, <2>2, <2>3, <2>6, <2>7, CascadeKeeps
  <1>2. CASE /\ R!Steps(r, k, [R!Step(r, k) EXCEPT !.keys = @ \ {u}])
             /\ objects' = IF k = "archive" THEN objects \ {u} ELSE objects
             /\ copies' = IF k = "copies" THEN copies \ {u} ELSE copies
    <2>1. PICK s \in CascadeStep : s = [R!Step(r, k) EXCEPT !.keys = keys]
      BY <1>c, Fields
    <2>2. R!Steps(r, k, s)
      BY <1>2, <1>k, <2>1
    <2>3. /\ s.at = "objects" /\ s.failed = R!Step(r, k).failed /\ s.keys = keys
          /\ s.due = R!Step(r, k).due
      BY <1>0, <1>c, <2>1 DEF CascadeStep, R!At, R!Step
    <2>5. /\ request' \in [Chats -> Asking]
          /\ \A q \in Chats \ {r} : request'[q] = request[q]
          /\ request'[r].kind = request[r].kind /\ request'[r].of = request[r].of
          /\ request'[r].step[k] = s
          /\ \A j \in R!Kinds \ {k} : request'[r].step[j] = request[r].step[j]
          /\ \A v : R!Deletes(r, v)' = R!Deletes(r, v)
      BY <2>2, StepsTo
    <2>s. Shrinks
      BY <1>0, <1>2 DEF Shrinks, RecInv, RecTypes
    <2>6. ArchiveStands(request[r])'
      <3>1. CASE k = "archive"
        BY <1>0, <1>2, <1>c, <1>k, <2>3, <2>5, <3>1
           DEF ArchiveStands, RequestStands, R!At, R!Step
      <3>2. CASE k = "copies"
        <4>1. request'[r] \in Asking /\ request'[r].step["archive"] = request[r].step["archive"]
          BY <2>5, <3>2 DEF R!Kinds
        <4>2. PICK q \in Asking : q = request[r] /\ ArchiveStands(q)
          BY <1>c DEF RequestStands
        <4>3. PICK p \in Asking : p = request'[r]
          BY <4>1
        <4>4. ArchiveStands(p)'
          BY <4>1, <4>2, <4>3, <2>5, <2>s, ArchiveShrinks
        <4>5. QED
          BY <4>3, <4>4
      <3>3. QED
        BY <3>1, <3>2 DEF R!Kinds
    <2>7. CopiesStand(request[r])'
      <3>1. CASE k = "copies"
        BY <1>0, <1>2, <1>c, <1>k, <2>3, <2>5, <3>1
           DEF CopiesStand, RequestStands, R!At, R!Step
      <3>2. CASE k = "archive"
        <4>1. request'[r] \in Asking /\ request'[r].step["copies"] = request[r].step["copies"]
          BY <2>5, <3>2 DEF R!Kinds
        <4>2. PICK q \in Asking : q = request[r] /\ CopiesStand(q)
          BY <1>c DEF RequestStands
        <4>3. PICK p \in Asking : p = request'[r]
          BY <4>1
        <4>4. CopiesStand(p)'
          BY <4>1, <4>2, <4>3, <2>5, <2>s, CopiesShrink
        <4>5. QED
          BY <4>3, <4>4
      <3>3. QED
        BY <3>1, <3>2 DEF R!Kinds
    <2>8. RequestStands(request[r])'
      <3>1. \A j \in R!Kinds : request'[r].step[j].due = request[r].step[j].due
        BY <2>3, <2>5 DEF R!Step
      <3>2. QED
        BY <1>0, <1>c, <2>5, <2>6, <2>7, <3>1 DEF RequestStands
    <2>9. PlayStands(request[r])'
      <3>1. request'[r].step["archive"].at # "missing"
        BY <1>0, <1>c, <2>3, <2>5 DEF PlayStands, R!Kinds
      <3>2. QED
        BY <1>0, <2>5, <3>1 DEF PlayStands
    <2>10. k = "archive" => R!Deletes(r, u) /\ saver[u]["archive"] = "ended"
      BY <1>0, <1>c DEF RequestStands, ArchiveStands, R!Deletes, R!Step
    <2>11. ASSUME R!Unfinished(r) PROVE R!Unfinished(r)'
      BY <2>3, <2>5, <2>11 DEF R!Unfinished, R!Step, R!Kinds
    <2>12. k = "archive" => R!Unfinished(r)'
      BY <2>3, <2>5 DEF R!Unfinished, R!Step
    <2>13. \A v \in Utterances : v \in listed \cap objects /\ v \notin listed' \cap objects' =>
             R!Deletes(r, v)' /\ R!Unfinished(r)'
      BY <1>0, <1>2, <2>5, <2>10, <2>12
    <2>14. /\ \A v \in Utterances : v \in objects' \ listed' /\ saver[v]["archive"] # "insert" =>
                v \in overtaken'
           /\ \A v \in Utterances : saver[v]["archive"] = "insert" => v \in objects'
      BY <1>0, <1>2, <2>10 DEF RecInv, SaversStand
    <2>15. QED
      BY <1>0, <2>5, <2>s, <2>8, <2>9, <2>11, <2>13, <2>14, RequestKeeps
  <1>3. QED
    BY <1>1, <1>2 DEF R!DeleteObject

(* A request about one recording begins. *)
LEMMA AsksKeeps ==
  ASSUME RecInv, UNCHANGED <<saver, objects, listed, copies, overtaken, room>>,
         NEW r \in Chats, NEW kind \in {"one", "play"}, NEW u \in Utterances,
         NEW s \in CascadeStep, R!Asks(r, kind, u, s),
         s.due = {}, s.keys \subseteq {u},
         kind = "one" => s.at = "objects" /\ s.keys = {u},
         kind = "play" => s.at = "lookup"
  PROVE  RecInv'
  <1>0. /\ request[r].kind = "none" /\ u \in listed
        /\ request[r] = R!NoRequest /\ request \in [Chats -> Asking]
        /\ saver[u]["archive"] = "ended"
    BY DEF R!Asks, RecInv, RecTypes, RequestStands, SaversStand
  <1>c. /\ R!Cascade \in CascadeStep /\ \A k \in R!Kinds : R!NoRequest.step[k] = R!Cascade
        /\ R!NoRequest.step \in [R!Kinds -> CascadeStep]
    BY <1>0, StepTypes DEF R!NoRequest, R!Kinds
  <1>d. R!Cascade.due = {} /\ R!Cascade.keys = {} /\ R!Cascade.at = "ended"
    BY DEF R!Cascade
  <1>2. PICK f \in [R!Kinds -> CascadeStep] : f = [R!NoRequest.step EXCEPT !["archive"] = s]
    BY <1>c
  <1>3. PICK p \in Asking : p = [kind |-> kind, of |-> u, step |-> f]
    BY DEF Asking
  <1>4. request' = [request EXCEPT ![r] = p]
    BY <1>2, <1>3 DEF R!Asks
  <1>5. /\ request' \in [Chats -> Asking] /\ request'[r] = p
        /\ \A q \in Chats \ {r} : request'[q] = request[q]
    BY <1>0, <1>4
  <1>6. p.kind = kind /\ p.of = u /\ p.step = f
    BY <1>3
  <1>7. f["archive"] = s /\ f["copies"] = R!Cascade
    BY <1>c, <1>2 DEF R!Kinds
  <1>8. RequestStands(request[r])'
    BY <1>0, <1>5, <1>6, <1>7, <1>d
       DEF RequestStands, ArchiveStands, CopiesStand, R!Kinds
  <1>9. u \in objects \/ Gone(u)
    BY <1>0 DEF RecInv, UnplayableStands, Gone
  <1>10. \A v, q : R!Deletes(q, v) => q # r
    BY <1>0 DEF R!Deletes
  <1>11. Gone(u) => Gone(u)'
    BY <1>5, <1>10 DEF Gone, R!Deletes
  <1>12. PlayStands(request[r])'
    BY <1>0, <1>5, <1>6, <1>7, <1>9, <1>11 DEF PlayStands
  <1>13. /\ \A v \in Utterances : v \in objects' \ listed' /\ saver[v]["archive"] # "insert" =>
              v \in overtaken'
         /\ \A v \in Utterances : saver[v]["archive"] = "insert" => v \in objects'
    BY <1>0 DEF RecInv, SaversStand
  <1>s. Shrinks
    BY <1>0 DEF Shrinks, RecInv, RecTypes
  <1>14. QED
    BY <1>0, <1>5, <1>8, <1>10, <1>12, <1>13, <1>s, RequestKeeps

LEMMA RestStep ==
  ASSUME RecInv, NEW r \in Chats
  PROVE  \E no \in BOOLEAN : R!Cascade = [at |-> "ended", keys |-> {}, cursor |-> 0,
                                          failed |-> no, due |-> {}]
  BY DEF R!Cascade

LEMMA PlayKeeps ==
  ASSUME RecInv, NEW r \in Chats, NEW u \in Utterances, R!Play(r, u)
  PROVE  RecInv'
  <1>1. PICK no \in BOOLEAN : R!Cascade = [at |-> "ended", keys |-> {}, cursor |-> 0,
                                           failed |-> no, due |-> {}]
    BY RestStep
  <1>2. PICK s \in CascadeStep : s = [R!Cascade EXCEPT !.at = "lookup"]
    BY <1>1 DEF CascadeStep
  <1>3. s.at = "lookup" /\ s.keys = {} /\ s.due = {}
    BY <1>1, <1>2
  <1>4. QED
    BY <1>2, <1>3, AsksKeeps DEF R!Play

LEMMA DeleteOneKeeps ==
  ASSUME RecInv, NEW r \in Chats, NEW u \in Utterances, R!DeleteOne(r, u)
  PROVE  RecInv'
  <1>1. PICK no \in BOOLEAN : R!Cascade = [at |-> "ended", keys |-> {}, cursor |-> 0,
                                           failed |-> no, due |-> {}]
    BY RestStep
  <1>2. PICK s \in CascadeStep : s = [R!Cascade EXCEPT !.at = "objects", !.keys = {u}]
    BY <1>1 DEF CascadeStep
  <1>3. s.at = "objects" /\ s.keys = {u} /\ s.due = {}
    BY <1>1, <1>2
  <1>4. QED
    BY <1>2, <1>3, AsksKeeps DEF R!DeleteOne

LEMMA OpenKeeps == ASSUME RecInv, NEW r \in Chats, R!Open(r) PROVE RecInv'
  <1>1. PICK at \in {"lookup", "get"}, then \in {"get", "ended"} :
          R!At(r, "archive", at) /\ (\/ at = "lookup" /\ R!Reads(r, at, listed, then)
                                     \/ at = "get" /\ R!Reads(r, at, objects, then))
    BY DEF R!Open, R!Reads
  <1>2. PICK next_ \in {"get", "ended", "missing"} :
          /\ R!Steps(r, "archive", [R!Step(r, "archive") EXCEPT !.at = next_])
          /\ next_ = "missing" => request[r].of \notin listed \cap objects
    BY <1>1 DEF R!Reads
  <1>3. /\ request[r].kind = "play" /\ request[r] \in Asking
        /\ RequestStands(request[r]) /\ PlayStands(request[r])
        /\ R!Step(r, "archive") \in CascadeStep /\ "archive" \in R!Kinds
    BY <1>1, WhoseStep, StepTypes DEF RecInv, RecTypes, R!Step, R!Kinds
  <1>4. UNCHANGED <<saver, objects, listed, copies, overtaken, room>>
    BY <1>1 DEF R!Reads
  <1>5. PICK s \in CascadeStep : s = [R!Step(r, "archive") EXCEPT !.at = next_]
    BY <1>3, Fields
  <1>6. s.at = next_ /\ s.due = R!Step(r, "archive").due /\ s.keys = R!Step(r, "archive").keys
    BY <1>3, <1>5 DEF CascadeStep
  <1>7. /\ request'[r].kind = request[r].kind /\ request'[r].of = request[r].of
        /\ request'[r].step["archive"] = s
        /\ \A q \in Chats \ {r} : request'[q] = request[q]
    BY <1>2, <1>3, <1>5, StepsTo
  <1>8. Gone(request[r].of) => Gone(request[r].of)'
    BY <1>7 DEF Gone, R!Deletes
  <1>9. PlayStands(request[r])'
    BY <1>2, <1>3, <1>4, <1>6, <1>7, <1>8 DEF PlayStands
  <1>10. ArchiveStands(request[r])'
    BY <1>3, <1>4, <1>6, <1>7 DEF ArchiveStands, RequestStands, R!Step
  <1>11. QED
    BY <1>2, <1>3, <1>4, <1>5, <1>6, <1>9, <1>10, CascadeKeeps

LEMMA DisconnectKeeps == ASSUME RecInv, NEW r \in Chats, R!Disconnect(r) PROVE RecInv'
  <1>0. /\ UNCHANGED <<saver, objects, listed, copies, overtaken, room>>
        /\ request \in [Chats -> Asking] /\ request[r] \in Asking
        /\ RequestStands(request[r]) /\ PlayStands(request[r])
    BY DEF R!Disconnect, RecInv, RecTypes
  <1>t. PICK b \in BOOLEAN : b = TRUE
    OBVIOUS
  <1>1. \A k \in R!Kinds : request[r].step[k] \in CascadeStep
    BY <1>0, StepTypes
  <1>2. PICK f \in [R!Kinds -> CascadeStep] :
          f = [k \in R!Kinds |-> IF request[r].step[k].at \in {"ended", "missing"}
                                 THEN request[r].step[k]
                                 ELSE [request[r].step[k] EXCEPT !.at = "ended", !.failed = b]]
    BY <1>1, Fields
  <1>3. PICK p \in Asking : p = [request[r] EXCEPT !.step = f]
    BY <1>0 DEF Asking
  <1>4. request' = [request EXCEPT ![r] = p]
    BY <1>0, <1>t, <1>2, <1>3 DEF R!Disconnect
  <1>5. /\ request' \in [Chats -> Asking] /\ request'[r] = p
        /\ \A q \in Chats \ {r} : request'[q] = request[q]
    BY <1>0, <1>4
  <1>6. p.kind = request[r].kind /\ p.of = request[r].of /\ p.step = f
    BY <1>0, <1>3 DEF Asking
  <1>7. \A k \in R!Kinds :
          /\ f[k].due = request[r].step[k].due /\ f[k].keys = request[r].step[k].keys
          /\ \/ f[k] = request[r].step[k] /\ f[k].at \in {"ended", "missing"}
             \/ f[k].at = "ended" /\ f[k].failed
    BY <1>1, <1>2, <1>t DEF CascadeStep
  <1>8. \A v : R!Deletes(r, v)' = R!Deletes(r, v)
    BY <1>5, <1>6 DEF R!Deletes
  <1>9. ArchiveStands(request[r])' /\ CopiesStand(request[r])'
    BY <1>0, <1>5, <1>6, <1>7 DEF RequestStands, ArchiveStands, CopiesStand, R!Kinds
  <1>n. request[r].kind # "none"
    <2>1. \A k \in R!Kinds : R!NoRequest.step[k].at = "ended"
      BY DEF R!NoRequest, R!Cascade
    <2>2. QED
      BY <1>0, <2>1 DEF R!Disconnect, RequestStands, R!Step
  <1>10. RequestStands(request[r])'
    BY <1>0, <1>n, <1>5, <1>6, <1>7, <1>9 DEF RequestStands, R!Kinds
  <1>11. \A v : Gone(v) => Gone(v)'
    BY <1>5, <1>8 DEF Gone, R!Deletes
  <1>12. PlayStands(request[r])'
    BY <1>0, <1>5, <1>6, <1>7, <1>11 DEF PlayStands, R!Kinds
  <1>13. /\ \A v \in Utterances : v \in objects' \ listed' /\ saver[v]["archive"] # "insert" =>
              v \in overtaken'
         /\ \A v \in Utterances : saver[v]["archive"] = "insert" => v \in objects'
    BY <1>0 DEF RecInv, SaversStand
  <1>14. R!Unfinished(r) => R!Unfinished(r)'
    BY <1>5, <1>6, <1>7 DEF R!Unfinished, R!Step, R!Kinds
  <1>s. Shrinks
    BY <1>0 DEF Shrinks, RecInv, RecTypes
  <1>15. QED
    BY <1>0, <1>5, <1>8, <1>10, <1>12, <1>13, <1>14, <1>s, RequestKeeps

LEMMA DeleteRoomKeeps == ASSUME RecInv, NEW r \in Chats, R!DeleteRoom(r) PROVE RecInv'
  <1>0. /\ UNCHANGED <<saver, objects, listed, copies>>
        /\ request \in [Chats -> Asking] /\ request[r] = R!NoRequest /\ request[r] \in Asking
        /\ room' = "deleted" /\ overtaken' = overtaken \cup R!Saving
        /\ request[r].kind = "none"
    BY DEF R!DeleteRoom, RecInv, RecTypes, RequestStands
  <1>1. PICK no \in BOOLEAN : R!Cascade = [at |-> "ended", keys |-> {}, cursor |-> 0,
                                           failed |-> no, due |-> {}] /\ no = FALSE
    BY DEF R!Cascade
  <1>2. \A k \in R!Kinds : R!Begins(k, "select") \in CascadeStep
    BY <1>1 DEF R!Begins, R!Saved, CascadeStep
  <1>3. ASSUME NEW k \in R!Kinds
        PROVE  /\ R!Begins(k, "select").at \in {"select", "ended"} /\ ~ R!Begins(k, "select").failed
               /\ R!Begins(k, "select").keys = {} /\ R!Begins(k, "select").cursor = 0
               /\ R!Begins(k, "select").due \subseteq R!Saved(k)
               /\ R!Begins(k, "select").at = "ended" => R!Begins(k, "select").due = {}
    BY <1>1 DEF R!Begins
  <1>4. PICK f \in [R!Kinds -> CascadeStep] : f = [k \in R!Kinds |-> R!Begins(k, "select")]
    BY <1>2
  <1>5. PICK p \in Asking : p = [request[r] EXCEPT !.kind = "room", !.step = f]
    BY <1>0 DEF Asking
  <1>6. request' = [request EXCEPT ![r] = p]
    BY <1>0, <1>4, <1>5 DEF R!DeleteRoom
  <1>7. /\ request' \in [Chats -> Asking] /\ request'[r] = p
        /\ \A q \in Chats \ {r} : request'[q] = request[q]
    BY <1>0, <1>6
  <1>8. p.kind = "room" /\ p.step = f
    BY <1>0, <1>5 DEF Asking
  <1>9. \A u \in copies : u > 0
    BY DEF RecInv, RecTypes
  <1>f. \A k \in R!Kinds :
          /\ f[k].at \in {"select", "ended"} /\ ~ f[k].failed /\ f[k].keys = {}
          /\ f[k].cursor = 0 /\ (f[k].at = "ended" => f[k].due = {})
          /\ \A u \in f[k].due : saver[u][k] = "ended"
    BY <1>3, <1>4 DEF R!Saved
  <1>10. ArchiveStands(request[r])'
    BY <1>0, <1>7, <1>8, <1>f DEF ArchiveStands, R!Kinds
  <1>11. CopiesStand(request[r])'
    BY <1>0, <1>7, <1>8, <1>9, <1>f DEF CopiesStand, R!Kinds, RecInv, RecTypes
  <1>12. RequestStands(request[r])' /\ PlayStands(request[r])'
    BY <1>0, <1>7, <1>8, <1>10, <1>11, <1>f DEF RequestStands, PlayStands, R!Kinds
  <1>13. \A v : ~ R!Deletes(r, v)
    BY <1>0 DEF R!Deletes
  <1>14. /\ \A v \in Utterances : v \in objects' \ listed' /\ saver[v]["archive"] # "insert" =>
              v \in overtaken'
         /\ \A v \in Utterances : saver[v]["archive"] = "insert" => v \in objects'
         /\ \A v \in Utterances : saver[v]["archive"] \in {"put", "insert"} => v \in overtaken'
    BY <1>0 DEF RecInv, SaversStand, R!Saving
  <1>s. Shrinks
    BY <1>0 DEF Shrinks, RecInv, RecTypes, R!Saving
  <1>15. QED
    BY <1>0, <1>7, <1>12, <1>13, <1>14, <1>s, RequestKeeps

LEMMA DeleteRowsKeeps == ASSUME RecInv, NEW r \in Chats, R!DeleteRows(r) PROVE RecInv'
  <1>0. /\ R!At(r, "archive", "rows") /\ request[r].kind \in {"room", "one"}
        /\ "archive" \in R!Kinds /\ "copies" \in R!Kinds
        /\ UNCHANGED <<saver, objects, copies, overtaken, room>>
    BY WhoseStep DEF R!DeleteRows, R!Kinds
  <1>c. /\ \A k \in R!Kinds : R!Step(r, k) \in CascadeStep
        /\ request \in [Chats -> Asking] /\ request[r] \in Asking
        /\ RequestStands(request[r]) /\ PlayStands(request[r])
    BY StepTypes DEF RecInv, RecTypes, R!Step
  <1>1. CASE R!Fails(r, "archive") /\ listed' = listed
    BY <1>0, <1>1, FailsKeeps
  <1>2. PICK e \in CascadeStep : e = [R!Step(r, "archive") EXCEPT !.at = "ended"]
    BY <1>0, <1>c, Fields
  <1>3. /\ e.at = "ended" /\ e.keys = R!Step(r, "archive").keys
        /\ e.due = R!Step(r, "archive").due /\ e.failed = R!Step(r, "archive").failed
    BY <1>0, <1>c, <1>2 DEF CascadeStep
  <1>4. ASSUME request[r].kind = "one",
               request' = [request EXCEPT ![r].step = [k \in R!Kinds |->
                  IF k = "archive" THEN e
                  ELSE [R!Step(r, "copies") EXCEPT !.at = "objects", !.keys = {request[r].of}]]]
        PROVE  /\ request' \in [Chats -> Asking]
               /\ \A q \in Chats \ {r} : request'[q] = request[q]
               /\ request'[r].kind = request[r].kind /\ request'[r].of = request[r].of
               /\ request'[r].step["archive"] = e
               /\ request'[r].step["copies"].due = request[r].step["copies"].due
    <2>0. request[r].of \in Utterances
      BY <1>4, <1>c DEF RequestStands, ArchiveStands
    <2>k. PICK keys \in SUBSET Utterances : keys = {request[r].of}
      BY <2>0
    <2>s. PICK s \in CascadeStep : s = [R!Step(r, "copies") EXCEPT !.at = "objects", !.keys = keys]
      BY <1>0, <1>c, Fields
    <2>1. s = [R!Step(r, "copies") EXCEPT !.at = "objects", !.keys = {request[r].of}]
      BY <2>k, <2>s
    <2>2. PICK f \in [R!Kinds -> CascadeStep] : f = [k \in R!Kinds |-> IF k = "archive" THEN e ELSE s]
      OBVIOUS
    <2>3. PICK p \in Asking : p = [request[r] EXCEPT !.step = f]
      BY <1>c DEF Asking
    <2>4. request' = [request EXCEPT ![r] = p]
      BY <1>4, <2>1, <2>2, <2>3
    <2>5. p.kind = "one" /\ p.of = request[r].of /\ p.step = f /\ s.due = R!Step(r, "copies").due
      BY <1>0, <1>c, <1>4, <2>1, <2>3 DEF Asking, CascadeStep
    <2>6. /\ request' \in [Chats -> Asking] /\ request'[r] = p
          /\ \A q \in Chats \ {r} : request'[q] = request[q]
      BY <1>c, <2>4
    <2>7. f["archive"] = e /\ f["copies"] = s
      BY <2>2 DEF R!Kinds
    <2>8. QED
      BY <1>4, <2>5, <2>6, <2>7 DEF R!Step
  <1>6. CASE /\ listed' = IF request[r].kind = "room" THEN {} ELSE listed \ {request[r].of}
             /\ request' \in [Chats -> Asking]
             /\ \A q \in Chats \ {r} : request'[q] = request[q]
             /\ request'[r].kind = request[r].kind /\ request'[r].of = request[r].of
             /\ request'[r].step["archive"] = e
             /\ request'[r].step["copies"].due = request[r].step["copies"].due
             /\ request[r].kind = "room" => request'[r].step["copies"] = request[r].step["copies"]
    <2>1. \A v : R!Deletes(r, v)' = R!Deletes(r, v)
      BY <1>6 DEF R!Deletes
    <2>2. Shrinks
      BY <1>0, <1>6 DEF Shrinks, RecInv, RecTypes
    <2>3. \A u \in Utterances : R!Deletes(r, u) <=> (u \notin listed' \/ u \notin listed) /\ R!Deletes(r, u)
      BY <1>0, <1>6 DEF R!Deletes
    <2>4. objects \cap (listed \ listed') \subseteq overtaken
      BY <1>0, <1>6, <1>c DEF RequestStands, ArchiveStands, R!At
    <2>5. \A v \in Utterances : v \in objects' \ listed' /\ saver[v]["archive"] # "insert" =>
            v \in overtaken'
      BY <1>0, <2>4 DEF RecInv, SaversStand
    <2>6. e.due \subseteq Utterances
      BY DEF CascadeStep
    <2>7. \A u \in e.due : saver[u]["archive"] = "ended"
      BY <1>0, <1>3, <1>c DEF RequestStands, R!Step
    <2>8. request[r].kind = "room" => \A u \in e.due : u \notin listed' /\ (u \in objects => u \in overtaken)
      BY <1>0, <1>6, <2>5, <2>6, <2>7
    <2>9. ArchiveStands(request[r])'
      BY <1>0, <1>3, <1>c, <1>6, <2>8 DEF ArchiveStands, RequestStands, R!Step
    <2>10. CopiesStand(request[r])'
      <3>1. CASE request[r].kind = "room"
        BY <1>0, <1>c, <1>6, <3>1 DEF CopiesStand, RequestStands
      <3>2. CASE request[r].kind = "one"
        BY <1>6, <3>2 DEF CopiesStand
      <3>3. QED
        BY <1>0, <3>1, <3>2
    <2>11. RequestStands(request[r])' /\ PlayStands(request[r])'
      <3>1. \A k \in R!Kinds : request'[r].step[k].due = request[r].step[k].due
        BY <1>3, <1>6 DEF R!Kinds, R!Step
      <3>2. QED
        BY <1>0, <1>3, <1>c, <1>6, <2>9, <2>10, <3>1 DEF RequestStands, PlayStands
    <2>12. \A u \in Utterances : R!Deletes(r, u) => u \notin listed'
      BY <1>0, <1>6 DEF R!Deletes
    <2>13. \A u \in Utterances : u \in listed \cap objects /\ u \notin listed' \cap objects' =>
             R!Deletes(r, u)' /\ u \notin listed'
      BY <1>0, <1>6, <2>1 DEF R!Deletes
    <2>14. \A v \in Utterances : saver[v]["archive"] = "insert" => v \in objects'
      BY <1>0 DEF RecInv, SaversStand
    <2>15. QED
      BY <1>0, <1>6, <2>1, <2>2, <2>5, <2>11, <2>12, <2>13, <2>14, RequestKeeps
  <1>7. QED
    <2>1. ASSUME R!Steps(r, "archive", e)
          PROVE  /\ request' \in [Chats -> Asking]
                 /\ \A q \in Chats \ {r} : request'[q] = request[q]
                 /\ request'[r].kind = request[r].kind /\ request'[r].of = request[r].of
                 /\ request'[r].step["archive"] = e
                 /\ request'[r].step["copies"] = request[r].step["copies"]
      BY <1>0, <2>1, StepsTo DEF R!Kinds
    <2>2. QED
      BY <1>0, <1>1, <1>2, <1>4, <1>6, <2>1 DEF R!DeleteRows

LEMMA RecRests == ASSUME RecInv, UNCHANGED recordings PROVE RecInv'
  BY DEF recordings, RecInv, RecTypes, SaversStand, UnplayableStands, RequestStands, PlayStands,
         ArchiveStands, CopiesStand, Gone, R!Deletes, R!Unfinished, R!Step

LEMMA RecNext == RecInv /\ [R!Next]_(R!vars) => RecInv'
  <1>1. ASSUME RecInv, NEW u \in Utterances,
               R!Say(u) \/ R!PutObject(u) \/ R!InsertRow(u) \/ R!SaveStream(u)
        PROVE  RecInv'
    BY <1>1, SayKeeps, PutKeeps, InsertKeeps, SaveKeeps
  <1>2. ASSUME RecInv, NEW r \in Chats,
               \/ R!DeleteRoom(r)
               \/ \E u \in Utterances : R!DeleteOne(r, u) \/ R!Play(r, u)
               \/ R!Select(r) \/ R!List(r)
               \/ \E k \in R!Kinds : \/ R!DeletedAll(r, k)
                                     \/ \E u \in Utterances : R!DeleteObject(r, k, u)
               \/ R!DeleteRows(r) \/ R!Open(r) \/ R!Disconnect(r)
        PROVE  RecInv'
    BY <1>2, DeleteRoomKeeps, DeleteOneKeeps, PlayKeeps, SelectKeeps, ListKeeps, DeletedAllKeeps,
       DeleteObjectKeeps, DeleteRowsKeeps, OpenKeeps, DisconnectKeeps
  <1>3. ASSUME RecInv, UNCHANGED R!vars PROVE RecInv'
    BY <1>3, RecRests DEF R!vars, recordings
  <1>4. QED
    BY <1>1, <1>2, <1>3 DEF R!Next

(* Of the recordings, for every set of utterances and of requests and any  *)
(* faults: whose objects and rows a saver or a cascade that has not failed *)
(* has yet to see to (recording/s3.go; httpserver/sessions.go).            *)
THEOREM RecordingsInvariant == R!Spec => []RecInv
  BY RecInit, RecNext, PTL DEF R!Spec

(* No audio is stranded, unplayable or left over, but by what overtook or  *)
(* failed it (recording/s3.go, audiostore.go; recordings.go).              *)
THEOREM AudioIsAccounted == RoomsSpec => []AudioAccounted
  <1>1. RoomsInit => R!Init
    BY DEF RoomsInit
  <1>2. [RoomsNext]_<<part, vars, endings, cascade, recordings>> => [R!Next]_(R!vars)
    BY DEF RoomsNext, R!vars, recordings
  <1>3. ASSUME RecInv PROVE AudioAccounted
    <2>1. R!Stranded \subseteq overtaken
      BY <1>3 DEF RecInv, RecTypes, SaversStand, R!Stranded
    <2>2. \A u \in R!Unplayable : \E r \in Chats : R!Deletes(r, u) /\ R!Unfinished(r)
      BY <1>3 DEF RecInv, UnplayableStands, R!Unplayable
    <2>3. ASSUME NEW r \in Chats, R!At(r, "archive", "missing")
          PROVE  \E q \in Chats : R!Deletes(q, request[r].of)
      BY <1>3, <2>3 DEF RecInv, PlayStands, Gone, R!At
    <2>4. ASSUME NEW r \in Chats, NEW k \in R!Kinds, request[r].kind = "room",
                 R!At(r, k, "ended"), ~ R!Step(r, k).failed
          PROVE  R!Left(r, k) = {}
      <3>1. RequestStands(request[r])
        BY <1>3 DEF RecInv
      <3>2. CASE k = "archive"
        BY <2>4, <3>1, <3>2 DEF RequestStands, ArchiveStands, R!At, R!Step, R!Left
      <3>3. CASE k = "copies"
        BY <2>4, <3>1, <3>3 DEF RequestStands, CopiesStand, R!At, R!Step, R!Left
      <3>4. QED
        BY <3>2, <3>3 DEF R!Kinds
    <2>5. QED
      BY <2>1, <2>2, <2>3, <2>4 DEF AudioAccounted, R!AudioAccounted
  <1>4. QED
    BY <1>1, <1>2, <1>3, RecordingsInvariant, PTL DEF RoomsSpec, R!Spec

HIDE RecordingsAssumption

-----------------------------------------------------------------------------
(* Endings. *)

Sum(c) == <<"summary", c>>

EndTypes ==
  /\ followed \subseteq E!Studies
  /\ exists \subseteq Chats /\ ended \subseteq exists
  /\ fix \in [Chats -> {"none", "pending", "flagged", "clean", "failed"}]
  /\ status \in [E!Studies -> {"unset", "pending", "done", "failed"}]
  /\ content \in [E!Studies -> BOOLEAN]
  /\ job \in [E!Jobs -> E!Phases]
  /\ issues \subseteq E!Studies
  /\ fold \in [E!Jobs -> E!Fold \cup {Nobody}]
  /\ profile \subseteq Chats
  /\ wanted \subseteq E!Studies /\ enqueue \subseteq E!Jobs /\ refused \subseteq E!Jobs
  /\ hurried \subseteq Chats /\ clobbered \subseteq Chats /\ unfolded \subseteq Chats

(* A study is only asked for in a room that has ended, a deleted room has   *)
(* nothing, and each kind of job has its own phases.                       *)
JobsFit ==
  /\ \A s \in E!Studies :
       /\ s \in enqueue \/ s \in wanted \/ job[s] # "none" \/ content[s] =>
            (s[2] \in exists => s[2] \in ended)
       /\ s[2] \notin exists => status[s] = "unset" /\ ~ content[s]
       /\ job[s] \in {"merging", "publishing", "rebuilding"} => s[1] = "summary"
  /\ job[E!Rebuild] \in {"none", "queued", "rebuilding", "publishing", "written"}
  /\ \A j \in E!Jobs : job[j] = "publishing" => fold[j] # Nobody

(* A fold that Publish will not refuse for its revision. *)
Fresh(j) == job[j] = "publishing" /\ ~ fold[j].stale

Known(c) == c \in profile \/ \E j \in E!Jobs : Fresh(j) /\ c \in fold[j].text

(* What is known of a room, or is about to be, is from a correction that    *)
(* flagged something, and is there unless it was emptied again.            *)
LearnedOf(c) ==
  /\ content[Sum(c)] \/ Known(c) =>
       fix[c] = "flagged" /\ (job[Sum(c)] = "asking" => Sum(c) \in issues)
  /\ Known(c) => content[Sum(c)] \/ c \in clobbered
  /\ job[Sum(c)] = "merging" => fix[c] = "flagged" /\ (content[Sum(c)] \/ c \in clobbered)
  /\ job[Sum(c)] = "asking" /\ Sum(c) \in issues => fix[c] = "flagged"

Learned ==
  /\ \A c \in exists : LearnedOf(c)
  /\ profile \ exists \subseteq clobbered
  /\ \A j \in E!Jobs : Fresh(j) => fold[j].text \ exists \subseteq clobbered \cup fold[j].of

(* A study without issues had none to wait for. *)
Waited(c) == fix[c] = "clean" \/ c \in hurried

StudiesWaited ==
  \A s \in E!Studies :
    /\ job[s] = "asking" /\ s \notin issues /\ s[2] \in exists => Waited(s[2])
    /\ status[s] = "done" => content[s] \/ Waited(s[2])

(* A room's note is in the profile, or a job will still put it there. *)
Own(c) == job[Sum(c)] \in {"queued", "waiting", "asking", "merging", "publishing", "rebuilding"}
Elsewhere(c) ==
  \/ c \in unfolded \/ Own(c)
  \/ E!Rebuild \in refused \cup enqueue
  \/ job[E!Rebuild] \in {"queued", "rebuilding", "publishing"}

NoteStands(c) ==
  content[Sum(c)] =>
    /\ c \in profile \/ Elsewhere(c)
    /\ \A s \in E!Studies : Fresh(s) /\ c \in profile => c \in fold[s].text \/ Elsewhere(c)
    /\ Fresh(E!Rebuild) => c \in fold[E!Rebuild].text \/ c \in unfolded \/ Own(c)
    /\ Fresh(Sum(c)) => c \in fold[Sum(c)].text

EndInv ==
  /\ EndTypes /\ JobsFit /\ Learned /\ StudiesWaited /\ E!PendingHasJob
  /\ \A c \in exists : NoteStands(c)

LEMMA StudiesAre ==
  /\ \A s \in E!Studies : s[1] \in {"summary", "quiz"} /\ s[2] \in Chats /\ s \in E!Jobs
                          /\ s # E!Rebuild /\ (s[1] = "summary" => s = Sum(s[2]))
  /\ \A c \in Chats : Sum(c) \in E!Studies /\ Sum(c) \in E!Jobs /\ Sum(c)[1] = "summary"
                      /\ Sum(c)[2] = c
  /\ \A c, d : Sum(c) = Sum(d) => c = d
  /\ E!Rebuild \in E!Jobs /\ E!Rebuild \notin E!Studies
  /\ \A j \in E!Jobs : j \in E!Studies \/ j = E!Rebuild
  BY DEF E!Studies, E!Jobs, E!Rebuild, Sum

LEMMA EndInit == ASSUME E!Init PROVE EndInv
  <1>1. EndTypes
    BY StudiesAre, EndingsAssumption DEF E!Init, EndTypes, E!Phases
  <1>2. /\ exists = Chats /\ ended = {} /\ profile = {} /\ wanted = {} /\ enqueue = {}
        /\ \A s \in E!Studies : status[s] = "unset" /\ ~ content[s]
        /\ \A j \in E!Jobs : job[j] = "none"
    BY DEF E!Init
  <1>3. JobsFit
    BY <1>2, StudiesAre DEF JobsFit
  <1>4. \A j \in E!Jobs : ~ Fresh(j)
    BY <1>2 DEF Fresh
  <1>5. Learned
    BY <1>2, <1>4, StudiesAre DEF Learned, LearnedOf, Known
  <1>6. StudiesWaited /\ E!PendingHasJob
    BY <1>2, StudiesAre DEF StudiesWaited, E!PendingHasJob
  <1>7. \A c \in exists : NoteStands(c)
    BY <1>2, StudiesAre DEF NoteStands
  <1>8. QED
    BY <1>1, <1>3, <1>5, <1>6, <1>7 DEF EndInv

-----------------------------------------------------------------------------
(* A step that leaves the jobs and the profile alone, and takes nothing     *)
(* from what a correction has flagged.                                     *)
LEMMA RowsKeep ==
  ASSUME EndInv, UNCHANGED <<job, fold, profile, exists, issues, unfolded>>,
         EndTypes', JobsFit', E!PendingHasJob',
         clobbered \subseteq clobbered', hurried \subseteq hurried',
         \A c \in Chats : \/ content'[Sum(c)] = content[Sum(c)]
                          \/ ~ content'[Sum(c)] /\ (content[Sum(c)] => c \in clobbered'),
         \A s \in E!Studies :
           \/ content'[s] = content[s] /\ status'[s] = status[s]
           \/ status'[s] # "done",
         \A c \in Chats : \/ fix'[c] = fix[c]
                          \/ fix[c] \notin {"flagged", "clean"},
         E!Rebuild \in refused' \cup enqueue' <=> E!Rebuild \in refused \cup enqueue
  PROVE  EndInv'
  <1>1. \A j : Fresh(j)' = Fresh(j)
    BY DEF Fresh
  <1>2. \A c : Known(c)' = Known(c)
    BY <1>1 DEF Known
  <1>3. Learned'
    <2>1. ASSUME NEW c \in exists PROVE LearnedOf(c)'
      BY <1>2, StudiesAre DEF LearnedOf, EndInv, EndTypes, Learned
    <2>2. QED
      BY <1>1, <2>1 DEF Learned, EndInv
  <1>4. StudiesWaited'
    BY StudiesAre DEF StudiesWaited, EndInv, EndTypes, Waited
  <1>5. ASSUME NEW c \in exists PROVE NoteStands(c)'
    <2>1. \A d \in Chats : Elsewhere(d)' = Elsewhere(d) /\ Own(d)' = Own(d)
      BY DEF Elsewhere, Own
    <2>2. c \in Chats /\ (content'[Sum(c)] => content[Sum(c)]) /\ NoteStands(c)
      BY StudiesAre DEF EndInv, EndTypes
    <2>3. QED
      BY <1>1, <2>1, <2>2 DEF NoteStands
  <1>6. QED
    BY <1>3, <1>4, <1>5 DEF EndInv

LEMMA ReserveKeeps ==
  ASSUME EndInv, UNCHANGED followed, NEW c \in Chats, E!Reserve(c)
  PROVE  EndInv'
  <1>1. /\ UNCHANGED <<exists, ended, status, content, profile, job, issues, fold, wanted, enqueue,
                       refused, hurried, clobbered, unfolded>>
        /\ fix[c] = "none" /\ fix' = [fix EXCEPT ![c] = "pending"]
    BY DEF E!Reserve, E!work, E!history
  <1>2. /\ fix' \in [Chats -> {"none", "pending", "flagged", "clean", "failed"}]
        /\ \A d \in Chats : fix'[d] = fix[d] \/ fix[d] \notin {"flagged", "clean"}
    BY <1>1 DEF EndInv, EndTypes
  <1>3. EndTypes' /\ JobsFit' /\ E!PendingHasJob'
    BY <1>1, <1>2 DEF EndInv, EndTypes, JobsFit, E!PendingHasJob, E!CanStillEnd
  <1>4. QED
    BY <1>1, <1>2, <1>3, RowsKeep

LEMMA JudgeKeeps ==
  ASSUME EndInv, UNCHANGED followed, NEW c \in Chats, E!Judge(c)
  PROVE  EndInv'
  <1>1. /\ UNCHANGED <<exists, ended, status, content, profile, job, issues, fold, wanted, enqueue,
                       refused, hurried, clobbered, unfolded>>
        /\ fix[c] \in {"pending", "failed"}
        /\ \E v \in {"flagged", "clean", "failed"} : fix' = [fix EXCEPT ![c] = v]
    BY DEF E!Judge, E!work, E!history
  <1>2. /\ fix' \in [Chats -> {"none", "pending", "flagged", "clean", "failed"}]
        /\ \A d \in Chats : fix'[d] = fix[d] \/ fix[d] \notin {"flagged", "clean"}
    BY <1>1 DEF EndInv, EndTypes
  <1>3. EndTypes' /\ JobsFit' /\ E!PendingHasJob'
    BY <1>1, <1>2 DEF EndInv, EndTypes, JobsFit, E!PendingHasJob, E!CanStillEnd
  <1>4. QED
    BY <1>1, <1>2, <1>3, RowsKeep

LEMMA EndKeeps ==
  ASSUME EndInv, UNCHANGED followed, NEW c \in Chats, E!End(c)
  PROVE  EndInv'
  <1> DEFINE asked == {s \in followed : s[2] = c}
  <1>1. /\ UNCHANGED <<exists, fix, content, profile, job, issues, fold, wanted,
                       refused, hurried, clobbered, unfolded>>
        /\ enqueue' = enqueue \cup asked
        /\ IF c \in exists
           THEN /\ ended' = ended \cup {c}
                /\ status' = [s \in E!Studies |-> IF s \in asked THEN "pending" ELSE status[s]]
           ELSE UNCHANGED <<ended, status>>
    BY DEF E!End
  <1>2. asked \subseteq E!Studies /\ \A s \in asked : s[2] = c
    BY DEF EndInv, EndTypes
  <1> HIDE DEF asked
  <1>3. /\ status' \in [E!Studies -> {"unset", "pending", "done", "failed"}]
        /\ \A s \in E!Studies : status'[s] = status[s] \/ (status'[s] = "pending" /\ s \in asked /\ c \in exists)
        /\ ended' \subseteq exists /\ ended \subseteq ended'
        /\ c \in exists => c \in ended'
    BY <1>1, <1>2 DEF EndInv, EndTypes
  <1>4. EndTypes'
    BY <1>1, <1>2, <1>3, StudiesAre DEF EndInv, EndTypes
  <1>5. JobsFit'
    BY <1>1, <1>2, <1>3, StudiesAre DEF EndInv, EndTypes, JobsFit
  <1>6. E!PendingHasJob'
    BY <1>1, <1>2, <1>3 DEF EndInv, EndTypes, E!PendingHasJob, E!CanStillEnd
  <1>7. E!Rebuild \in refused' \cup enqueue' <=> E!Rebuild \in refused \cup enqueue
    BY <1>1, <1>2, StudiesAre
  <1>8. \A s \in E!Studies : content'[s] = content[s] /\ (status'[s] = status[s] \/ status'[s] # "done")
    BY <1>1, <1>3
  <1>9. QED
    BY <1>1, <1>4, <1>5, <1>6, <1>7, <1>8, RowsKeep, StudiesAre

LEMMA CheckKeeps ==
  ASSUME EndInv, UNCHANGED followed, NEW s \in E!Studies, E!Check(s)
  PROVE  EndInv'
  <1>1. /\ UNCHANGED <<exists, ended, fix, status, content, profile, job, issues, fold, enqueue,
                       refused, hurried, clobbered, unfolded>>
        /\ s[2] \in ended /\ wanted' = wanted \cup {s}
    BY DEF E!Check, E!Eligible, E!rows
  <1>2. EndTypes' /\ JobsFit' /\ E!PendingHasJob'
    BY <1>1 DEF EndInv, EndTypes, JobsFit, E!PendingHasJob, E!CanStillEnd
  <1>3. QED
    BY <1>1, <1>2, RowsKeep, StudiesAre

LEMMA RestartKeeps ==
  ASSUME EndInv, UNCHANGED followed, NEW s \in E!Studies, E!Restart(s)
  PROVE  EndInv'
  <1>1. /\ UNCHANGED <<exists, ended, fix, profile, job, issues, fold, refused, hurried, unfolded>>
        /\ s \in wanted /\ wanted' = wanted \ {s} /\ enqueue' = enqueue \cup {s}
    BY DEF E!Restart
  <1>2. PICK no \in BOOLEAN : no = FALSE
    OBVIOUS
  <1>3. IF s[2] \in exists
        THEN /\ status' = [status EXCEPT ![s] = "pending"]
             /\ content' = [content EXCEPT ![s] = no]
             /\ clobbered' = IF s[1] = "summary" /\ content[s] THEN clobbered \cup {s[2]}
                             ELSE clobbered
        ELSE UNCHANGED <<status, content, clobbered>>
    BY <1>2 DEF E!Restart
  <1>4. /\ status' \in [E!Studies -> {"unset", "pending", "done", "failed"}]
        /\ content' \in [E!Studies -> BOOLEAN]
        /\ clobbered \subseteq clobbered' /\ clobbered' \subseteq Chats
        /\ \A r \in E!Studies \ {s} : status'[r] = status[r] /\ content'[r] = content[r]
        /\ s[2] \in exists => status'[s] = "pending" /\ ~ content'[s]
             /\ (s[1] = "summary" /\ content[s] => s[2] \in clobbered')
        /\ s[2] \notin exists => status'[s] = status[s] /\ content'[s] = content[s]
    BY <1>2, <1>3, StudiesAre DEF EndInv, EndTypes
  <1>5. EndTypes'
    BY <1>1, <1>4, StudiesAre DEF EndInv, EndTypes
  <1>6. JobsFit'
    BY <1>1, <1>4, StudiesAre DEF EndInv, EndTypes, JobsFit
  <1>7. E!PendingHasJob'
    BY <1>1, <1>4 DEF EndInv, EndTypes, E!PendingHasJob, E!CanStillEnd
  <1>8. \A c \in Chats : \/ content'[Sum(c)] = content[Sum(c)]
                         \/ ~ content'[Sum(c)] /\ (content[Sum(c)] => c \in clobbered')
    BY <1>4, StudiesAre
  <1>9. \A r \in E!Studies : \/ content'[r] = content[r] /\ status'[r] = status[r]
                             \/ status'[r] # "done"
    BY <1>4
  <1>10. E!Rebuild \in refused' \cup enqueue' <=> E!Rebuild \in refused \cup enqueue
    BY <1>1, StudiesAre
  <1>11. QED
    BY <1>1, <1>4, <1>5, <1>6, <1>7, <1>8, <1>9, <1>10, RowsKeep

LEMMA VisitKeeps ==
  ASSUME EndInv, UNCHANGED followed, NEW c \in Chats, E!Visit(c)
  PROVE  EndInv'
  <1>1. /\ UNCHANGED <<exists, ended, fix, status, content, profile, job, issues, fold, wanted,
                       refused, hurried, clobbered, unfolded>>
        /\ c \in ended /\ enqueue' = enqueue \cup {Sum(c)}
    BY DEF E!Visit, E!rows, E!history, Sum
  <1>2. EndTypes' /\ JobsFit' /\ E!PendingHasJob'
    BY <1>1, StudiesAre DEF EndInv, EndTypes, JobsFit, E!PendingHasJob, E!CanStillEnd
  <1>3. E!Rebuild \in refused' \cup enqueue' <=> E!Rebuild \in refused \cup enqueue
    BY <1>1, StudiesAre
  <1>4. QED
    BY <1>1, <1>2, <1>3, RowsKeep, StudiesAre

-----------------------------------------------------------------------------
(* A step of a job before it has something to publish. *)

Covered(c) == c \in unfolded \/ Own(c)

LEMMA PhaseKeeps ==
  ASSUME EndInv, UNCHANGED <<fold, profile, exists, fix, content, clobbered>>,
         NEW j \in E!Jobs, NEW p \in E!Phases, job' = [job EXCEPT ![j] = p],
         p = job[j] \/ (p \notin {"publishing", "merging"} /\ job[j] # "publishing"),
         EndTypes', JobsFit', E!PendingHasJob',
         hurried \subseteq hurried',
         \A s \in E!Studies \ {j} : s \in issues' <=> s \in issues,
         \A s \in E!Studies : status'[s] = status[s] \/ status'[s] # "done",
         p = job[j] => issues' = issues,
         p # job[j] /\ p = "asking" => /\ j \in E!Studies /\ j[2] \in exists
                                       /\ j \in issues' <=> fix[j[2]] = "flagged"
                                       /\ fix[j[2]] \notin {"flagged", "clean"} => j[2] \in hurried',
         \A c \in exists : content[Sum(c)] =>
           (Elsewhere(c) => Elsewhere(c)') /\ (Covered(c) => Covered(c)')
  PROVE  EndInv'
  <1>0. /\ job \in [E!Jobs -> E!Phases] /\ job'[j] = p
        /\ \A k \in E!Jobs \ {j} : job'[k] = job[k]
    BY DEF EndInv, EndTypes
  <1>1. \A k \in E!Jobs : Fresh(k)' = Fresh(k)
    BY <1>0 DEF Fresh
  <1>2. \A c : Known(c)' = Known(c)
    BY <1>1 DEF Known
  <1>3. Learned'
    <2>1. ASSUME NEW c \in exists PROVE LearnedOf(c)'
      <3>1. LearnedOf(c) /\ c \in Chats /\ Sum(c) \in E!Studies /\ Sum(c) \in E!Jobs /\ Sum(c)[2] = c
        BY StudiesAre DEF EndInv, EndTypes, Learned
      <3>2. CASE Sum(c) # j \/ p = job[j]
        BY <1>0, <1>2, <3>1, <3>2 DEF LearnedOf
      <3>3. CASE Sum(c) = j /\ p # job[j]
        BY <1>0, <1>2, <3>1, <3>3 DEF LearnedOf
      <3>4. QED
        BY <3>2, <3>3
    <2>2. QED
      BY <1>1, <2>1 DEF Learned, EndInv
  <1>4. StudiesWaited'
    <2>1. ASSUME NEW s \in E!Studies, job'[s] = "asking", s \notin issues', s[2] \in exists
          PROVE  Waited(s[2])'
      <3>1. CASE s # j \/ p = job[j]
        BY <1>0, <2>1, <3>1, StudiesAre DEF StudiesWaited, EndInv, Waited
      <3>2. CASE s = j /\ p # job[j]
        <4>1. fix[s[2]] # "flagged" /\ (fix[s[2]] # "clean" => s[2] \in hurried')
          BY <1>0, <2>1, <3>2, StudiesAre
        <4>2. QED
          BY <4>1 DEF Waited
      <3>3. QED
        BY <3>1, <3>2
    <2>2. QED
      BY <2>1, StudiesAre DEF StudiesWaited, EndInv, Waited
  <1>5. ASSUME NEW c \in exists PROVE NoteStands(c)'
    <2>1. Sum(c) \in E!Studies /\ Sum(c) \in E!Jobs /\ E!Rebuild \in E!Jobs /\ NoteStands(c)
          /\ \A s \in E!Studies : s \in E!Jobs
      BY StudiesAre DEF EndInv, EndTypes
    <2>2. QED
      BY <1>1, <2>1 DEF NoteStands, Covered
  <1>6. QED
    BY <1>3, <1>4, <1>5 DEF EndInv

LEMMA EnqueueKeeps ==
  ASSUME EndInv, UNCHANGED followed, NEW j \in E!Jobs, E!Enqueue(j)
  PROVE  EndInv'
  <1>1. /\ UNCHANGED <<exists, ended, fix, status, content, profile, issues, fold, wanted,
                       hurried, clobbered, unfolded>>
        /\ j \in enqueue /\ enqueue' = enqueue \ {j}
        /\ job' = IF job[j] = "none" THEN [job EXCEPT ![j] = "queued"] ELSE job
        /\ refused' = IF E!Past(j) THEN refused \cup {j} ELSE refused \ {j}
    BY DEF E!Enqueue, E!rows
  <1>2. PICK p \in E!Phases : p = IF job[j] = "none" THEN "queued" ELSE job[j]
    BY DEF EndInv, EndTypes, E!Phases
  <1>3. /\ job' = [job EXCEPT ![j] = p] /\ job' \in [E!Jobs -> E!Phases]
        /\ job'[j] = p /\ \A k \in E!Jobs \ {j} : job'[k] = job[k]
    BY <1>1, <1>2 DEF EndInv, EndTypes
  <1>4. EndTypes'
    BY <1>1, <1>3 DEF EndInv, EndTypes
  <1>5. JobsFit'
    BY <1>1, <1>2, <1>3, StudiesAre DEF EndInv, EndTypes, JobsFit
  <1>6. j \in E!Studies => (p \in {"queued", "waiting", "asking"} \/ j \in refused')
    BY <1>1, <1>2, StudiesAre DEF E!Past, EndInv, EndTypes, E!Phases
  <1>7. E!PendingHasJob'
    BY <1>1, <1>3, <1>6, StudiesAre DEF EndInv, E!PendingHasJob, E!CanStillEnd
  <1>8. ASSUME NEW c \in exists PROVE (Covered(c) => Covered(c)') /\ (Elsewhere(c) => Elsewhere(c)')
    <2>1. Sum(c) \in E!Jobs /\ Sum(c) # E!Rebuild /\ E!Rebuild \in E!Jobs
      BY StudiesAre DEF EndInv, EndTypes
    <2>2. Own(c) => Own(c)'
      BY <1>2, <1>3, <2>1 DEF Own
    <2>3. job[E!Rebuild] \in {"queued", "rebuilding", "publishing"} =>
            job'[E!Rebuild] \in {"queued", "rebuilding", "publishing"}
      BY <1>2, <1>3, <2>1
    <2>4. E!Rebuild \in refused \cup enqueue =>
            \/ E!Rebuild \in refused' \cup enqueue'
            \/ job'[E!Rebuild] \in {"queued", "rebuilding", "publishing"}
      BY <1>1, <1>2, <1>3, <2>1 DEF E!Past, EndInv, JobsFit
    <2>5. QED
      BY <1>1, <2>2, <2>3, <2>4 DEF Elsewhere, Covered
  <1>9. QED
    BY <1>1, <1>2, <1>3, <1>4, <1>5, <1>7, <1>8, PhaseKeeps

LEMMA LoseKeeps ==
  ASSUME EndInv, UNCHANGED followed, NEW j \in E!Jobs, E!LoseEnqueue(j)
  PROVE  EndInv'
  <1>1. /\ UNCHANGED <<exists, ended, fix, status, content, profile, job, issues, fold, wanted,
                       hurried, clobbered, unfolded>>
        /\ j \in enqueue /\ enqueue' = enqueue \ {j}
        /\ refused' = IF job[j] = "none" \/ E!Past(j) THEN refused \cup {j} ELSE refused
    BY DEF E!LoseEnqueue, E!rows
  <1>2. PICK p \in E!Phases : p = job[j]
    BY DEF EndInv, EndTypes
  <1>3. /\ job' = [job EXCEPT ![j] = p] /\ job' \in [E!Jobs -> E!Phases]
    BY <1>1, <1>2 DEF EndInv, EndTypes
  <1>4. EndTypes'
    BY <1>1 DEF EndInv, EndTypes
  <1>5. JobsFit'
    BY <1>1 DEF EndInv, JobsFit
  <1>6. j \in E!Studies => (p \in {"queued", "waiting", "asking"} \/ j \in refused')
    BY <1>1, <1>2, StudiesAre DEF E!Past, EndInv, EndTypes, E!Phases
  <1>7. E!PendingHasJob'
    BY <1>1, <1>2, <1>6, StudiesAre DEF EndInv, E!PendingHasJob, E!CanStillEnd
  <1>8. ASSUME NEW c \in exists PROVE (Covered(c) => Covered(c)') /\ (Elsewhere(c) => Elsewhere(c)')
    <2>4. E!Rebuild \in refused \cup enqueue =>
            \/ E!Rebuild \in refused' \cup enqueue'
            \/ job'[E!Rebuild] \in {"queued", "rebuilding", "publishing"}
      BY <1>1, StudiesAre DEF E!Past, EndInv, JobsFit
    <2>5. QED
      BY <1>1, <2>4 DEF Elsewhere, Covered, Own
  <1>9. QED
    BY <1>1, <1>2, <1>3, <1>4, <1>5, <1>7, <1>8, PhaseKeeps

LEMMA TakeKeeps ==
  ASSUME EndInv, UNCHANGED followed, NEW j \in E!Jobs, E!Take(j)
  PROVE  EndInv'
  <1>1. /\ UNCHANGED <<exists, ended, fix, status, content, profile, issues, fold, wanted, enqueue,
                       refused, hurried, clobbered, unfolded>>
        /\ job[j] = "queued"
        /\ job' = [job EXCEPT ![j] = IF j = E!Rebuild THEN "rebuilding" ELSE "waiting"]
    BY DEF E!Take, E!To, E!rows, E!history
  <1>2. PICK p \in E!Phases : p = IF j = E!Rebuild THEN "rebuilding" ELSE "waiting"
    BY DEF E!Phases
  <1>3. /\ job' = [job EXCEPT ![j] = p] /\ job' \in [E!Jobs -> E!Phases]
        /\ job'[j] = p /\ \A k \in E!Jobs \ {j} : job'[k] = job[k]
    BY <1>1, <1>2 DEF EndInv, EndTypes
  <1>4. EndTypes'
    BY <1>1, <1>3 DEF EndInv, EndTypes
  <1>5. JobsFit'
    BY <1>1, <1>2, <1>3, StudiesAre DEF EndInv, EndTypes, JobsFit
  <1>7. E!PendingHasJob'
    BY <1>1, <1>2, <1>3, StudiesAre DEF EndInv, E!PendingHasJob, E!CanStillEnd
  <1>8. ASSUME NEW c \in exists PROVE (Covered(c) => Covered(c)') /\ (Elsewhere(c) => Elsewhere(c)')
    <2>1. Sum(c) \in E!Jobs /\ Sum(c) # E!Rebuild /\ E!Rebuild \in E!Jobs
      BY StudiesAre DEF EndInv, EndTypes
    <2>5. QED
      BY <1>1, <1>2, <1>3, <2>1 DEF Elsewhere, Covered, Own
  <1>9. QED
    BY <1>1, <1>2, <1>3, <1>4, <1>5, <1>7, <1>8, PhaseKeeps

LEMMA CollectKeeps ==
  ASSUME EndInv, UNCHANGED followed, NEW s \in E!Studies, E!Collect(s)
  PROVE  EndInv'
  <1>1. /\ UNCHANGED <<exists, ended, fix, status, content, profile, fold, wanted, enqueue,
                       refused, clobbered, unfolded>>
        /\ job[s] = "waiting" /\ s[2] \in exists
        /\ job' = [job EXCEPT ![s] = "asking"]
        /\ issues' = IF fix[s[2]] = "flagged" THEN issues \cup {s} ELSE issues \ {s}
        /\ \/ fix[s[2]] # "pending"
              /\ hurried' = IF fix[s[2]] \in {"none", "failed"} THEN hurried \cup {s[2]} ELSE hurried
           \/ hurried' = hurried \cup {s[2]}
    BY DEF E!Collect, E!NonePending, E!To, E!rows
  <1>2. PICK p \in E!Phases : p = "asking"
    BY DEF E!Phases
  <1>3. /\ job' = [job EXCEPT ![s] = p] /\ job' \in [E!Jobs -> E!Phases] /\ s \in E!Jobs
        /\ job'[s] = p /\ \A k \in E!Jobs \ {s} : job'[k] = job[k]
    BY <1>1, <1>2, StudiesAre DEF EndInv, EndTypes
  <1>4. EndTypes'
    BY <1>1, <1>3, StudiesAre DEF EndInv, EndTypes
  <1>5. JobsFit'
    BY <1>1, <1>2, <1>3, StudiesAre DEF EndInv, EndTypes, JobsFit
  <1>6. s \in issues' <=> fix[s[2]] = "flagged"
    BY <1>1
  <1>7. fix[s[2]] \notin {"flagged", "clean"} => s[2] \in hurried'
    BY <1>1, StudiesAre DEF EndInv, EndTypes
  <1>8. E!PendingHasJob'
    BY <1>1, <1>2, <1>3, StudiesAre DEF EndInv, E!PendingHasJob, E!CanStillEnd
  <1>9. ASSUME NEW c \in exists PROVE (Covered(c) => Covered(c)') /\ (Elsewhere(c) => Elsewhere(c)')
    <2>1. Sum(c) \in E!Jobs /\ Sum(c) # E!Rebuild /\ E!Rebuild \in E!Jobs /\ s # E!Rebuild
      BY StudiesAre DEF EndInv, EndTypes
    <2>2. QED
      BY <1>1, <1>2, <1>3, <2>1 DEF Elsewhere, Covered, Own
  <1>10. \A r \in E!Studies \ {s} : r \in issues' <=> r \in issues
    BY <1>1
  <1>11. QED
    BY <1>1, <1>2, <1>3, <1>4, <1>5, <1>6, <1>7, <1>8, <1>9, <1>10, PhaseKeeps

LEMMA FailKeeps ==
  ASSUME EndInv, UNCHANGED followed, NEW s \in E!Studies, E!Fail(s)
  PROVE  EndInv'
  <1>1. /\ UNCHANGED <<exists, ended, fix, content, profile, issues, fold, wanted, enqueue,
                       refused, hurried, clobbered>>
        /\ job[s] = "asking" /\ s \in issues
        /\ status' = IF s[2] \in exists THEN [status EXCEPT ![s] = "failed"] ELSE status
        /\ unfolded' = IF s[1] = "summary" /\ content[s] THEN unfolded \cup {s[2]} ELSE unfolded
    BY DEF E!Fail
  <1>2. PICK p \in E!Phases : p \in {"queued", "none"} /\ job' = [job EXCEPT ![s] = p]
    BY DEF E!Fail, E!To, E!Phases
  <1>3. /\ job' \in [E!Jobs -> E!Phases] /\ s \in E!Jobs
        /\ job'[s] = p /\ \A k \in E!Jobs \ {s} : job'[k] = job[k]
    BY <1>1, <1>2, StudiesAre DEF EndInv, EndTypes
  <1>4. /\ status' \in [E!Studies -> {"unset", "pending", "done", "failed"}]
        /\ \A r \in E!Studies : status'[r] = status[r] \/ status'[r] = "failed"
        /\ \A r \in E!Studies : r[2] \notin exists => status'[r] = status[r]
        /\ s[2] \in exists => status'[s] = "failed"
    BY <1>1 DEF EndInv, EndTypes
  <1>5. EndTypes'
    BY <1>1, <1>3, <1>4, StudiesAre DEF EndInv, EndTypes
  <1>6. JobsFit'
    BY <1>1, <1>2, <1>3, <1>4, StudiesAre DEF EndInv, EndTypes, JobsFit
  <1>7. E!PendingHasJob'
    BY <1>1, <1>2, <1>3, <1>4, StudiesAre DEF EndInv, JobsFit, E!PendingHasJob, E!CanStillEnd
  <1>8. ASSUME NEW c \in exists, content[Sum(c)]
        PROVE (Covered(c) => Covered(c)') /\ (Elsewhere(c) => Elsewhere(c)')
    <2>1. Sum(c) \in E!Jobs /\ Sum(c) # E!Rebuild /\ E!Rebuild \in E!Jobs /\ s # E!Rebuild
          /\ Sum(c)[1] = "summary" /\ Sum(c)[2] = c
      BY StudiesAre DEF EndInv, EndTypes
    <2>2. Own(c) => Own(c)' \/ c \in unfolded'
      BY <1>1, <1>2, <1>3, <1>8, <2>1 DEF Own
    <2>3. job'[E!Rebuild] = job[E!Rebuild] /\ unfolded \subseteq unfolded'
      BY <1>1, <1>3, <2>1
    <2>4. QED
      BY <1>1, <2>2, <2>3 DEF Elsewhere, Covered
  <1>9. \A r \in E!Studies : status'[r] = status[r] \/ status'[r] # "done"
    BY <1>4
  <1>10. QED
    BY <1>1, <1>2, <1>3, <1>5, <1>6, <1>7, <1>8, <1>9, PhaseKeeps

LEMMA DropKeeps ==
  ASSUME EndInv, UNCHANGED followed, NEW s \in E!Studies, E!Drop(s)
  PROVE  EndInv'
  <1>1. /\ UNCHANGED <<exists, ended, fix, status, content, profile, issues, fold, wanted, enqueue,
                       refused, hurried, clobbered, unfolded>>
        /\ job[s] \in {"waiting", "asking"} /\ s[2] \notin exists
        /\ job' = [job EXCEPT ![s] = "none"]
    BY DEF E!Drop, E!To, E!rows, E!history
  <1>2. PICK p \in E!Phases : p = "none"
    BY DEF E!Phases
  <1>3. /\ job' = [job EXCEPT ![s] = p] /\ job' \in [E!Jobs -> E!Phases] /\ s \in E!Jobs
        /\ job'[s] = p /\ \A k \in E!Jobs \ {s} : job'[k] = job[k]
    BY <1>1, <1>2, StudiesAre DEF EndInv, EndTypes
  <1>4. EndTypes'
    BY <1>1, <1>3 DEF EndInv, EndTypes
  <1>5. JobsFit'
    BY <1>1, <1>2, <1>3, StudiesAre DEF EndInv, EndTypes, JobsFit
  <1>6. E!PendingHasJob'
    BY <1>1, <1>2, <1>3, StudiesAre DEF EndInv, JobsFit, E!PendingHasJob, E!CanStillEnd
  <1>7. ASSUME NEW c \in exists PROVE (Covered(c) => Covered(c)') /\ (Elsewhere(c) => Elsewhere(c)')
    <2>1. Sum(c) \in E!Jobs /\ Sum(c) # s /\ E!Rebuild \in E!Jobs /\ s # E!Rebuild
      BY <1>1, StudiesAre DEF EndInv, EndTypes
    <2>2. QED
      BY <1>1, <1>3, <2>1 DEF Elsewhere, Covered, Own
  <1>8. QED
    BY <1>1, <1>2, <1>3, <1>4, <1>5, <1>6, <1>7, PhaseKeeps

LEMMA FinishKeeps ==
  ASSUME EndInv, UNCHANGED followed, NEW j \in E!Jobs, E!Finish(j)
  PROVE  EndInv'
  <1>1. /\ UNCHANGED <<exists, ended, fix, status, content, profile, issues, fold, wanted, enqueue,
                       refused, hurried, clobbered, unfolded>>
        /\ job[j] = "written" /\ job' = [job EXCEPT ![j] = "none"]
    BY DEF E!Finish, E!To, E!rows, E!history
  <1>2. PICK p \in E!Phases : p = "none"
    BY DEF E!Phases
  <1>3. /\ job' = [job EXCEPT ![j] = p] /\ job' \in [E!Jobs -> E!Phases]
        /\ job'[j] = p /\ \A k \in E!Jobs \ {j} : job'[k] = job[k]
    BY <1>1, <1>2, StudiesAre DEF EndInv, EndTypes
  <1>4. EndTypes'
    BY <1>1, <1>3 DEF EndInv, EndTypes
  <1>5. JobsFit'
    BY <1>1, <1>2, <1>3, StudiesAre DEF EndInv, EndTypes, JobsFit
  <1>6. E!PendingHasJob'
    BY <1>1, <1>2, <1>3, StudiesAre DEF EndInv, E!PendingHasJob, E!CanStillEnd
  <1>7. ASSUME NEW c \in exists PROVE (Covered(c) => Covered(c)') /\ (Elsewhere(c) => Elsewhere(c)')
    <2>1. Sum(c) \in E!Jobs /\ E!Rebuild \in E!Jobs
      BY StudiesAre DEF EndInv, EndTypes
    <2>2. QED
      BY <1>1, <1>3, <2>1 DEF Elsewhere, Covered, Own
  <1>8. QED
    BY <1>1, <1>2, <1>3, <1>4, <1>5, <1>6, <1>7, PhaseKeeps

-----------------------------------------------------------------------------
(* A step that puts another fold, or none, in the place of a job's own, and *)
(* publishes nothing.                                                      *)
LEMMA LetGo ==
  ASSUME EndInv,
         UNCHANGED <<profile, exists, fix, status, content, issues, hurried, clobbered>>,
         NEW j \in E!Jobs, NEW p \in E!Phases, NEW f \in E!Fold \cup {Nobody},
         job' = [job EXCEPT ![j] = p], fold' = [fold EXCEPT ![j] = f],
         p \notin {"publishing", "merging", "asking"},
         EndTypes', JobsFit', E!PendingHasJob',
         \A c \in exists : content[Sum(c)] =>
           (Elsewhere(c) => Elsewhere(c)') /\ (Covered(c) => Covered(c)')
  PROVE  EndInv'
  <1>1. /\ job'[j] = p /\ \A k \in E!Jobs \ {j} : job'[k] = job[k]
        /\ fold' = [fold EXCEPT ![j] = f] /\ \A k \in E!Jobs \ {j} : fold'[k] = fold[k]
    BY DEF EndInv, EndTypes
  <1>2. ~ Fresh(j)' /\ \A k \in E!Jobs \ {j} : Fresh(k)' = Fresh(k)
    BY <1>1 DEF Fresh
  <1>3. \A c : Known(c)' => Known(c)
    BY <1>1, <1>2 DEF Known
  <1>4. Learned'
    <2>1. ASSUME NEW c \in exists PROVE LearnedOf(c)'
      <3>1. LearnedOf(c) /\ Sum(c) \in E!Jobs
        BY StudiesAre DEF EndInv, EndTypes, Learned
      <3>2. QED
        BY <1>1, <1>3, <3>1 DEF LearnedOf
    <2>2. QED
      BY <1>1, <1>2, <2>1 DEF Learned, EndInv
  <1>5. StudiesWaited'
    BY <1>1, StudiesAre DEF StudiesWaited, EndInv, Waited
  <1>6. ASSUME NEW c \in exists PROVE NoteStands(c)'
    <2>1. Sum(c) \in E!Studies /\ Sum(c) \in E!Jobs /\ E!Rebuild \in E!Jobs /\ NoteStands(c)
          /\ \A s \in E!Studies : s \in E!Jobs
      BY StudiesAre DEF EndInv, EndTypes
    <2>2. QED
      BY <1>1, <1>2, <2>1 DEF NoteStands, Covered
  <1>7. QED
    BY <1>4, <1>5, <1>6 DEF EndInv

LEMMA DieKeeps ==
  ASSUME EndInv, UNCHANGED followed, NEW j \in E!Jobs, E!Die(j)
  PROVE  EndInv'
  <1>1. /\ UNCHANGED <<exists, ended, fix, status, content, profile, issues, wanted, enqueue,
                       refused, hurried, clobbered, unfolded>>
        /\ job[j] \notin {"none", "queued"} /\ job' = [job EXCEPT ![j] = "queued"]
        /\ fold' = [fold EXCEPT ![j] = Nobody]
    BY DEF E!Die, E!To, E!rows
  <1>2. PICK p \in E!Phases : p = "queued"
    BY DEF E!Phases
  <1>3. /\ job' = [job EXCEPT ![j] = p] /\ job' \in [E!Jobs -> E!Phases]
        /\ job'[j] = p /\ \A k \in E!Jobs \ {j} : job'[k] = job[k]
        /\ fold' \in [E!Jobs -> E!Fold \cup {Nobody}]
        /\ \A k \in E!Jobs \ {j} : fold'[k] = fold[k]
    BY <1>1, <1>2 DEF EndInv, EndTypes
  <1>4. EndTypes'
    BY <1>1, <1>3 DEF EndInv, EndTypes
  <1>5. JobsFit'
    BY <1>1, <1>2, <1>3, StudiesAre DEF EndInv, EndTypes, JobsFit
  <1>6. E!PendingHasJob'
    BY <1>1, <1>2, <1>3, StudiesAre DEF EndInv, E!PendingHasJob, E!CanStillEnd
  <1>7. ASSUME NEW c \in exists PROVE (Covered(c) => Covered(c)') /\ (Elsewhere(c) => Elsewhere(c)')
    <2>1. Sum(c) \in E!Jobs /\ E!Rebuild \in E!Jobs
      BY StudiesAre DEF EndInv, EndTypes
    <2>2. QED
      BY <1>1, <1>2, <1>3, <2>1 DEF Elsewhere, Covered, Own
  <1>8. QED
    BY <1>1, <1>2, <1>3, <1>4, <1>5, <1>6, <1>7, LetGo

LEMMA ReadRevisionKeeps ==
  ASSUME EndInv, UNCHANGED followed, NEW j \in E!Jobs, E!ReadRevision(j)
  PROVE  EndInv'
  <1>0. PICK no \in BOOLEAN : no = FALSE
    OBVIOUS
  <1>1. PICK f : f = [stale |-> no, of |-> Nobody, text |-> {}]
    OBVIOUS
  <1>2. /\ UNCHANGED <<exists, ended, fix, status, content, profile, issues, job, wanted, enqueue,
                       refused, hurried, clobbered, unfolded>>
        /\ job[j] = "rebuilding" /\ fold' = [fold EXCEPT ![j] = f]
    BY <1>0, <1>1 DEF E!ReadRevision, E!rows, E!history
  <1>3. f \in E!Fold \cup {Nobody}
    BY <1>0, <1>1 DEF E!Fold
  <1>4. PICK p \in E!Phases : p = "rebuilding"
    BY DEF E!Phases
  <1>5. /\ job' = [job EXCEPT ![j] = p]
        /\ fold' \in [E!Jobs -> E!Fold \cup {Nobody}]
        /\ \A k \in E!Jobs \ {j} : fold'[k] = fold[k]
    BY <1>2, <1>3, <1>4 DEF EndInv, EndTypes
  <1>6. EndTypes'
    BY <1>2, <1>5 DEF EndInv, EndTypes
  <1>7. JobsFit'
    BY <1>2, <1>5 DEF EndInv, JobsFit
  <1>8. E!PendingHasJob'
    BY <1>2 DEF EndInv, E!PendingHasJob, E!CanStillEnd
  <1>9. \A c \in exists : (Covered(c) => Covered(c)') /\ (Elsewhere(c) => Elsewhere(c)')
    BY <1>2 DEF Elsewhere, Covered, Own
  <1>10. QED
    BY <1>2, <1>3, <1>4, <1>5, <1>6, <1>7, <1>8, <1>9, LetGo

LEMMA ConflictKeeps ==
  ASSUME EndInv, UNCHANGED followed, NEW j \in E!Jobs, E!Conflict(j)
  PROVE  EndInv'
  <1>1. /\ UNCHANGED <<exists, ended, fix, status, content, profile, issues, wanted, enqueue,
                       refused, hurried, clobbered, unfolded>>
        /\ job[j] = "publishing" /\ fold' = [fold EXCEPT ![j] = Nobody]
        /\ job' = [job EXCEPT ![j] = IF j # E!Rebuild /\ j[2] \notin exists
                                     THEN "written" ELSE "rebuilding"]
    BY DEF E!Conflict, E!To, E!rows, E!history
  <1>2. PICK p \in E!Phases :
          p = IF j # E!Rebuild /\ j[2] \notin exists THEN "written" ELSE "rebuilding"
    BY DEF E!Phases
  <1>3. /\ job' = [job EXCEPT ![j] = p] /\ job' \in [E!Jobs -> E!Phases]
        /\ job'[j] = p /\ \A k \in E!Jobs \ {j} : job'[k] = job[k]
        /\ fold' \in [E!Jobs -> E!Fold \cup {Nobody}]
        /\ \A k \in E!Jobs \ {j} : fold'[k] = fold[k]
    BY <1>1, <1>2 DEF EndInv, EndTypes
  <1>4. EndTypes'
    BY <1>1, <1>3 DEF EndInv, EndTypes
  <1>5. JobsFit'
    BY <1>1, <1>2, <1>3, StudiesAre DEF EndInv, EndTypes, JobsFit
  <1>6. E!PendingHasJob'
    BY <1>1, <1>2, <1>3, StudiesAre DEF EndInv, E!PendingHasJob, E!CanStillEnd
  <1>7. ASSUME NEW c \in exists PROVE (Covered(c) => Covered(c)') /\ (Elsewhere(c) => Elsewhere(c)')
    <2>1. Sum(c) \in E!Jobs /\ E!Rebuild \in E!Jobs /\ Sum(c)[2] = c
      BY StudiesAre DEF EndInv, EndTypes
    <2>2. QED
      BY <1>1, <1>2, <1>3, <2>1 DEF Elsewhere, Covered, Own
  <1>8. QED
    BY <1>1, <1>2, <1>3, <1>4, <1>5, <1>6, <1>7, LetGo

LEMMA FoldFailsKeeps ==
  ASSUME EndInv, UNCHANGED followed, NEW j \in E!Jobs, E!FoldFails(j)
  PROVE  EndInv'
  <1>1. /\ UNCHANGED <<exists, ended, fix, status, content, profile, issues, wanted, enqueue,
                       refused, hurried, clobbered>>
        /\ job[j] = "publishing" /\ fold' = [fold EXCEPT ![j] = Nobody]
        /\ unfolded' = IF j = E!Rebuild THEN Chats ELSE unfolded \cup {j[2]}
    BY DEF E!FoldFails, E!rows
  <1>2. PICK p \in E!Phases : /\ p \in IF j = E!Rebuild THEN {"queued", "none"} ELSE {"written"}
                              /\ job' = [job EXCEPT ![j] = p]
    BY DEF E!FoldFails, E!To, E!Phases
  <1>3. /\ job' \in [E!Jobs -> E!Phases]
        /\ job'[j] = p /\ \A k \in E!Jobs \ {j} : job'[k] = job[k]
        /\ fold' \in [E!Jobs -> E!Fold \cup {Nobody}]
        /\ \A k \in E!Jobs \ {j} : fold'[k] = fold[k]
    BY <1>1, <1>2 DEF EndInv, EndTypes
  <1>4. unfolded \subseteq unfolded' /\ unfolded' \subseteq Chats
    BY <1>1, StudiesAre DEF EndInv, EndTypes
  <1>5. EndTypes'
    BY <1>1, <1>3, <1>4 DEF EndInv, EndTypes
  <1>6. JobsFit'
    BY <1>1, <1>2, <1>3, StudiesAre DEF EndInv, EndTypes, JobsFit
  <1>7. E!PendingHasJob'
    BY <1>1, <1>2, <1>3, StudiesAre DEF EndInv, E!PendingHasJob, E!CanStillEnd
  <1>8. ASSUME NEW c \in exists PROVE (Covered(c) => Covered(c)') /\ (Elsewhere(c) => Elsewhere(c)')
    <2>1. Sum(c) \in E!Jobs /\ E!Rebuild \in E!Jobs /\ Sum(c)[2] = c /\ c \in Chats
          /\ Sum(c) # E!Rebuild
      BY StudiesAre DEF EndInv, EndTypes
    <2>2. Sum(c) # j => (Own(c) => Own(c)')
      BY <1>3, <2>1 DEF Own
    <2>3. Sum(c) = j \/ j = E!Rebuild => c \in unfolded'
      BY <1>1, <2>1
    <2>4. j # E!Rebuild => job'[E!Rebuild] = job[E!Rebuild]
      BY <1>3, <2>1
    <2>5. QED
      BY <1>1, <1>4, <2>2, <2>3, <2>4 DEF Elsewhere, Covered
  <1>9. QED
    BY <1>1, <1>2, <1>3, <1>5, <1>6, <1>7, <1>8, LetGo

-----------------------------------------------------------------------------
(* A study is saved, empty if nothing was flagged, or a fold is published. *)
LEMMA CompleteKeeps ==
  ASSUME EndInv, UNCHANGED followed, NEW s \in E!Studies, E!Complete(s)
  PROVE  EndInv'
  <1>1. PICK any \in BOOLEAN : any = (s \in issues)
    <2>1. CASE s \in issues
      <3>1. TRUE \in BOOLEAN /\ TRUE = (s \in issues)
        BY <2>1
      <3>2. QED
        BY <3>1
    <2>2. CASE s \notin issues
      <3>1. FALSE \in BOOLEAN /\ FALSE = (s \in issues)
        BY <2>2
      <3>2. QED
        BY <3>1
    <2>3. QED
      BY <2>1, <2>2
  <1>2. /\ UNCHANGED <<exists, ended, fix, profile, issues, fold, wanted, enqueue,
                       refused, hurried, clobbered, unfolded>>
        /\ job[s] = "asking"
        /\ IF s[2] \in exists
           THEN /\ content' = [content EXCEPT ![s] = any]
                /\ status' = [status EXCEPT ![s] = "done"]
           ELSE UNCHANGED <<content, status>>
        /\ job' = [job EXCEPT ![s] = IF s[1] = "summary" /\ s \in issues THEN "merging"
                                     ELSE "written"]
    BY <1>1 DEF E!Complete, E!To, E!history
  <1>3. PICK p \in E!Phases : p = IF s[1] = "summary" /\ s \in issues THEN "merging" ELSE "written"
    BY DEF E!Phases
  <1>4. /\ job' \in [E!Jobs -> E!Phases] /\ s \in E!Jobs
        /\ job'[s] = p /\ \A k \in E!Jobs \ {s} : job'[k] = job[k]
    BY <1>2, <1>3, StudiesAre DEF EndInv, EndTypes
  <1>5. /\ status' \in [E!Studies -> {"unset", "pending", "done", "failed"}]
        /\ content' \in [E!Studies -> BOOLEAN]
        /\ \A r \in E!Studies \ {s} : status'[r] = status[r] /\ content'[r] = content[r]
        /\ s[2] \in exists => status'[s] = "done" /\ content'[s] = any
        /\ s[2] \notin exists => status'[s] = status[s] /\ content'[s] = content[s]
    BY <1>2 DEF EndInv, EndTypes
  <1>6. EndTypes'
    BY <1>2, <1>4, <1>5, StudiesAre DEF EndInv, EndTypes
  <1>7. JobsFit'
    BY <1>2, <1>3, <1>4, <1>5, StudiesAre DEF EndInv, EndTypes, JobsFit
  <1>8. E!PendingHasJob'
    BY <1>2, <1>3, <1>4, <1>5, StudiesAre DEF EndInv, JobsFit, E!PendingHasJob, E!CanStillEnd
  <1>9. \A k \in E!Jobs : Fresh(k)' = Fresh(k)
    BY <1>2, <1>3, <1>4 DEF Fresh
  <1>10. \A c : Known(c)' = Known(c)
    BY <1>2, <1>9 DEF Known
  <1>11. Learned'
    <2>1. ASSUME NEW c \in exists PROVE LearnedOf(c)'
      <3>1. LearnedOf(c) /\ c \in Chats /\ Sum(c) \in E!Studies /\ Sum(c) \in E!Jobs /\ Sum(c)[2] = c
            /\ Sum(c)[1] = "summary"
        BY StudiesAre DEF EndInv, EndTypes, Learned
      <3>2. CASE Sum(c) # s
        BY <1>2, <1>4, <1>5, <1>10, <3>1, <3>2 DEF LearnedOf
      <3>3. CASE Sum(c) = s
        BY <1>1, <1>2, <1>3, <1>4, <1>5, <1>10, <3>1, <3>3 DEF LearnedOf
      <3>4. QED
        BY <3>2, <3>3
    <2>2. QED
      BY <1>2, <1>9, <2>1 DEF Learned, EndInv
  <1>12. StudiesWaited'
    <2>1. \A c : Waited(c)' = Waited(c)
      BY <1>2 DEF Waited
    <2>2. s[2] \in exists => s \in issues \/ Waited(s[2])
      BY <1>2 DEF StudiesWaited, EndInv
    <2>3. QED
      BY <1>1, <1>2, <1>3, <1>4, <1>5, <2>1, <2>2, StudiesAre DEF StudiesWaited, EndInv, JobsFit
  <1>13. ASSUME NEW c \in exists PROVE NoteStands(c)'
    <2>1. Sum(c) \in E!Studies /\ Sum(c) \in E!Jobs /\ E!Rebuild \in E!Jobs /\ NoteStands(c)
          /\ (\A r \in E!Studies : r \in E!Jobs) /\ Sum(c)[2] = c /\ Sum(c)[1] = "summary"
          /\ s # E!Rebuild /\ Sum(c) # E!Rebuild
      BY StudiesAre DEF EndInv, EndTypes
    <2>2. CASE Sum(c) # s
      <3>1. Own(c)' = Own(c) /\ Elsewhere(c)' = Elsewhere(c) /\ content'[Sum(c)] = content[Sum(c)]
        BY <1>2, <1>4, <1>5, <2>1, <2>2 DEF Own, Elsewhere
      <3>2. QED
        BY <1>2, <1>9, <2>1, <3>1 DEF NoteStands
    <2>3. CASE Sum(c) = s
      <3>1. content'[s] => s \in issues /\ Own(c)' /\ ~ Fresh(s)
        BY <1>1, <1>2, <1>3, <1>4, <1>5, <2>1, <2>3 DEF Own, Fresh
      <3>2. content'[s] => Elsewhere(c)'
        BY <3>1 DEF Elsewhere
      <3>3. QED
        BY <1>9, <2>1, <2>3, <3>1, <3>2 DEF NoteStands
    <2>4. QED
      BY <2>2, <2>3
  <1>14. QED
    BY <1>2, <1>6, <1>7, <1>8, <1>11, <1>12, <1>13 DEF EndInv

(* A step that gives one job a fold to publish. *)
LEMMA TakesFold ==
  ASSUME EndInv, UNCHANGED followed,
         UNCHANGED <<exists, ended, fix, status, content, profile, issues, wanted, enqueue,
                     refused, hurried, clobbered, unfolded>>,
         NEW j \in E!Jobs, NEW f \in E!Fold,
         job[j] \in {"merging", "rebuilding"}, job' = [job EXCEPT ![j] = "publishing"],
         fold' = [fold EXCEPT ![j] = f],
         f.text \ exists \subseteq clobbered \cup f.of,
         \A c \in exists : c \in f.text =>
           \/ Known(c)
           \/ /\ fix[c] = "flagged" /\ (content[Sum(c)] \/ c \in clobbered)
              /\ (job[Sum(c)] = "asking" => Sum(c) \in issues),
         ~ f.stale => \A c \in exists : content[Sum(c)] =>
           /\ j \in E!Studies /\ c \in profile => c \in f.text
           /\ j = E!Rebuild \/ j = Sum(c) => c \in f.text
  PROVE  EndInv'
  <1>1. PICK p \in E!Phases : p = "publishing"
    BY DEF E!Phases
  <1>2. /\ job' \in [E!Jobs -> E!Phases]
        /\ job'[j] = p /\ \A k \in E!Jobs \ {j} : job'[k] = job[k]
        /\ fold' \in [E!Jobs -> E!Fold \cup {Nobody}] /\ fold'[j] = f
        /\ \A k \in E!Jobs \ {j} : fold'[k] = fold[k]
        /\ f # Nobody
    BY <1>1, EndingsAssumption DEF EndInv, EndTypes
  <1>3. EndTypes'
    BY <1>2 DEF EndInv, EndTypes
  <1>4. JobsFit'
    BY <1>1, <1>2, StudiesAre DEF EndInv, EndTypes, JobsFit
  <1>5. E!PendingHasJob'
    BY <1>1, <1>2, StudiesAre DEF EndInv, E!PendingHasJob, E!CanStillEnd
  <1>6. /\ \A k \in E!Jobs \ {j} : Fresh(k)' = Fresh(k)
        /\ Fresh(j)' => ~ f.stale
        /\ ~ Fresh(j)
    BY <1>2 DEF Fresh
  <1>7. \A c : Known(c)' => Known(c) \/ c \in f.text
    BY <1>2, <1>6 DEF Known
  <1>8. Learned'
    <2>1. ASSUME NEW c \in exists PROVE LearnedOf(c)'
      <3>1. LearnedOf(c) /\ Sum(c) \in E!Jobs
        BY StudiesAre DEF EndInv, EndTypes, Learned
      <3>2. job'[Sum(c)] \in {"asking", "merging"} => job'[Sum(c)] = job[Sum(c)]
        BY <1>1, <1>2, <3>1
      <3>3. Known(c) => fix[c] = "flagged" /\ (content[Sum(c)] \/ c \in clobbered)
                       /\ (job[Sum(c)] = "asking" => Sum(c) \in issues)
        BY <3>1 DEF LearnedOf
      <3>4. Known(c)' => fix[c] = "flagged" /\ (content[Sum(c)] \/ c \in clobbered)
                       /\ (job[Sum(c)] = "asking" => Sum(c) \in issues)
        BY <1>7, <3>3
      <3>5. QED
        BY <3>1, <3>2, <3>4 DEF LearnedOf
    <2>2. ASSUME NEW k \in E!Jobs, Fresh(k)'
          PROVE  fold'[k].text \ exists \subseteq clobbered \cup fold'[k].of
      BY <1>2, <1>6, <2>2 DEF Learned, EndInv
    <2>3. QED
      BY <2>1, <2>2 DEF Learned, EndInv
  <1>9. StudiesWaited'
    BY <1>1, <1>2, StudiesAre DEF StudiesWaited, EndInv, Waited
  <1>10. ASSUME NEW c \in exists PROVE NoteStands(c)'
    <2>1. Sum(c) \in E!Studies /\ Sum(c) \in E!Jobs /\ E!Rebuild \in E!Jobs /\ NoteStands(c)
          /\ (\A r \in E!Studies : r \in E!Jobs /\ r # E!Rebuild)
      BY StudiesAre DEF EndInv, EndTypes
    <2>2. (Own(c) => Own(c)') /\ (Elsewhere(c) => Elsewhere(c)')
      BY <1>1, <1>2, <2>1 DEF Own, Elsewhere
    <2>3. QED
      BY <1>2, <1>6, <2>1, <2>2 DEF NoteStands
  <1>11. QED
    BY <1>3, <1>4, <1>5, <1>8, <1>9, <1>10 DEF EndInv

LEMMA MergeKeeps ==
  ASSUME EndInv, UNCHANGED followed, NEW s \in E!Studies, E!Merge(s)
  PROVE  EndInv'
  <1>1. PICK no \in BOOLEAN : no = FALSE
    OBVIOUS
  <1>2. PICK f : f = [stale |-> no, of |-> {s[2]}, text |-> profile \cup {s[2]}]
    OBVIOUS
  <1>3. /\ UNCHANGED <<exists, ended, fix, status, content, profile, issues, wanted, enqueue,
                       refused, hurried, clobbered, unfolded>>
        /\ job[s] = "merging" /\ job' = [job EXCEPT ![s] = "publishing"]
        /\ fold' = [fold EXCEPT ![s] = f]
    BY <1>1, <1>2 DEF E!Merge, E!To, E!rows, E!history
  <1>4. s \in E!Jobs /\ s = Sum(s[2]) /\ s[2] \in Chats /\ s # E!Rebuild
    BY <1>3, StudiesAre DEF EndInv, JobsFit
  <1>5. f \in E!Fold
    BY <1>2, <1>4 DEF E!Fold, EndInv, EndTypes
  <1>6. f.text = profile \cup {s[2]} /\ f.of = {s[2]}
    BY <1>2
  <1>7. f.text \ exists \subseteq clobbered \cup f.of
    BY <1>6 DEF EndInv, Learned
  <1>8. ASSUME NEW c \in exists, c \in f.text
        PROVE  \/ Known(c)
               \/ /\ fix[c] = "flagged" /\ (content[Sum(c)] \/ c \in clobbered)
                  /\ (job[Sum(c)] = "asking" => Sum(c) \in issues)
    <2>1. CASE c \in profile
      BY <2>1 DEF Known
    <2>2. CASE c = s[2]
      BY <1>3, <1>4, <2>2 DEF EndInv, Learned, LearnedOf
    <2>3. QED
      BY <1>6, <1>8, <2>1, <2>2
  <1>9. ASSUME NEW c \in exists
        PROVE /\ s \in E!Studies /\ c \in profile => c \in f.text
              /\ s = E!Rebuild \/ s = Sum(c) => c \in f.text
    BY <1>4, <1>6, StudiesAre
  <1>10. QED
    BY <1>3, <1>4, <1>5, <1>7, <1>8, <1>9, TakesFold

LEMMA RelistKeeps ==
  ASSUME EndInv, UNCHANGED followed, NEW j \in E!Jobs, E!List(j)
  PROVE  EndInv'
  <1>1. PICK old \in E!Fold : old = fold[j]
    BY DEF E!List, EndInv, EndTypes
  <1>2. PICK f : f = [stale |-> old.stale, of |-> E!Listed, text |-> E!Listed]
    OBVIOUS
  <1>3. /\ UNCHANGED <<exists, ended, fix, status, content, profile, issues, wanted, enqueue,
                       refused, hurried, clobbered, unfolded>>
        /\ job[j] = "rebuilding" /\ job' = [job EXCEPT ![j] = "publishing"]
    BY DEF E!List, E!To, E!rows, E!history
  <1>4. E!Listed \subseteq exists /\ E!Listed \subseteq Chats
        /\ \A c \in exists : c \in E!Listed <=> content[Sum(c)]
    BY StudiesAre DEF E!Listed, Sum, EndInv, EndTypes, JobsFit
  <1>5. old \in [stale : BOOLEAN, of : (SUBSET Chats) \cup {Nobody}, text : SUBSET Chats]
    BY DEF E!Fold
  <1>6. f \in E!Fold
    BY <1>2, <1>4, <1>5 DEF E!Fold
  <1>7. fold' = [fold EXCEPT ![j] = f]
    <2>1. fold' = [fold EXCEPT ![j].of = E!Listed, ![j].text = E!Listed]
      BY DEF E!List
    <2>2. PICK mid \in [stale : BOOLEAN, of : (SUBSET Chats) \cup {Nobody}, text : SUBSET Chats] :
            mid = [stale |-> old.stale, of |-> E!Listed, text |-> old.text]
      BY <1>4, <1>5
    <2>3. [old EXCEPT !.of = E!Listed] = mid /\ [mid EXCEPT !.text = E!Listed] = f
      BY <1>2, <1>5, <2>2
    <2>4. QED
      BY <1>1, <2>1, <2>3 DEF EndInv, EndTypes
  <1>8. f.text = E!Listed /\ f.of = E!Listed
    BY <1>2
  <1>9. ASSUME NEW c \in exists, c \in f.text
        PROVE  /\ fix[c] = "flagged" /\ content[Sum(c)]
               /\ (job[Sum(c)] = "asking" => Sum(c) \in issues)
    BY <1>4, <1>8, <1>9 DEF EndInv, Learned, LearnedOf
  <1>10. QED
    BY <1>3, <1>4, <1>6, <1>7, <1>8, <1>9, TakesFold

-----------------------------------------------------------------------------
(* The steps after which every fold's snapshot is stale. *)
LEMMA StaleIs ==
  ASSUME NEW fs \in [E!Jobs -> E!Fold \cup {Nobody}]
  PROVE  /\ E!Stale(fs) \in [E!Jobs -> E!Fold \cup {Nobody}]
         /\ \A j \in E!Jobs : fs[j] # Nobody => E!Stale(fs)[j] # Nobody
         /\ \A j \in E!Jobs : E!Stale(fs)[j] # Nobody => E!Stale(fs)[j].stale
  <1>1. PICK yes \in BOOLEAN : yes = TRUE
    OBVIOUS
  <1>2. E!Stale(fs) = [j \in E!Jobs |-> IF fs[j] = Nobody THEN Nobody ELSE [fs[j] EXCEPT !.stale = yes]]
    BY <1>1 DEF E!Stale
  <1>3. ASSUME NEW r \in E!Fold
        PROVE  [r EXCEPT !.stale = yes] \in E!Fold /\ [r EXCEPT !.stale = yes].stale
    BY <1>1 DEF E!Fold
  <1>4. QED
    BY <1>2, <1>3, EndingsAssumption

LEMMA PublishKeeps ==
  ASSUME EndInv, UNCHANGED followed, NEW j \in E!Jobs, E!Publish(j)
  PROVE  EndInv'
  <1>1. /\ UNCHANGED <<exists, ended, fix, status, content, issues, wanted, enqueue,
                       refused, hurried, clobbered, unfolded>>
        /\ job[j] = "publishing" /\ job' = [job EXCEPT ![j] = "written"]
        /\ fold' = E!Stale([fold EXCEPT ![j] = Nobody])
        /\ fold[j].of \subseteq exists /\ ~ fold[j].stale /\ profile' = fold[j].text
    BY DEF E!Publish, E!Publishable, E!To, E!history
  <1>2. PICK p \in E!Phases : p = "written"
    BY DEF E!Phases
  <1>3. /\ job' \in [E!Jobs -> E!Phases]
        /\ job'[j] = p /\ \A k \in E!Jobs \ {j} : job'[k] = job[k]
    BY <1>1, <1>2 DEF EndInv, EndTypes
  <1>4. PICK fs \in [E!Jobs -> E!Fold \cup {Nobody}] : fs = [fold EXCEPT ![j] = Nobody]
    BY DEF EndInv, EndTypes
  <1>5. /\ fold' \in [E!Jobs -> E!Fold \cup {Nobody}]
        /\ \A k \in E!Jobs \ {j} : fold[k] # Nobody => fold'[k] # Nobody
        /\ \A k \in E!Jobs : fold'[k] # Nobody => fold'[k].stale
    <2>1. fold' = E!Stale(fs)
      BY <1>1, <1>4
    <2>2. \A k \in E!Jobs \ {j} : fs[k] = fold[k]
      BY <1>4 DEF EndInv, EndTypes
    <2>3. QED
      BY <2>1, <2>2, StaleIs
  <1>6. fold[j] \in E!Fold /\ Fresh(j)
    BY <1>1 DEF Fresh, EndInv, EndTypes, JobsFit
  <1>7. profile' \subseteq Chats
    BY <1>1, <1>6 DEF E!Fold
  <1>8. EndTypes'
    BY <1>1, <1>3, <1>5, <1>7 DEF EndInv, EndTypes
  <1>9. JobsFit'
    <2>1. \A k \in E!Jobs : job'[k] = "publishing" => fold'[k] # Nobody
      BY <1>2, <1>3, <1>5 DEF EndInv, JobsFit
    <2>2. QED
      BY <1>1, <1>2, <1>3, <2>1, StudiesAre DEF EndInv, JobsFit
  <1>10. E!PendingHasJob'
    BY <1>1, <1>2, <1>3, StudiesAre DEF EndInv, E!PendingHasJob, E!CanStillEnd
  <1>11. \A k \in E!Jobs : ~ Fresh(k)'
    BY <1>2, <1>3, <1>5, <1>9 DEF Fresh, JobsFit
  <1>12. \A c : Known(c)' => Known(c)
    BY <1>1, <1>6, <1>11 DEF Known
  <1>13. Learned'
    <2>1. ASSUME NEW c \in exists PROVE LearnedOf(c)'
      <3>1. LearnedOf(c) /\ Sum(c) \in E!Jobs
        BY StudiesAre DEF EndInv, EndTypes, Learned
      <3>2. job'[Sum(c)] \in {"asking", "merging"} => job'[Sum(c)] = job[Sum(c)]
        BY <1>2, <1>3, <3>1
      <3>3. QED
        BY <1>1, <1>12, <3>1, <3>2 DEF LearnedOf
    <2>2. profile' \ exists \subseteq clobbered
      BY <1>1, <1>6 DEF Learned, EndInv
    <2>3. QED
      BY <1>1, <1>11, <2>1, <2>2 DEF Learned
  <1>14. StudiesWaited'
    BY <1>1, <1>2, <1>3, StudiesAre DEF StudiesWaited, EndInv, Waited
  <1>15. ASSUME NEW c \in exists PROVE NoteStands(c)'
    <2>1. Sum(c) \in E!Studies /\ Sum(c) \in E!Jobs /\ E!Rebuild \in E!Jobs /\ NoteStands(c)
          /\ (\A r \in E!Studies : r \in E!Jobs /\ r # E!Rebuild)
          /\ Sum(c) # E!Rebuild
      BY StudiesAre DEF EndInv, EndTypes
    <2>2. Sum(c) # j => (Own(c) => Own(c)')
      BY <1>3, <2>1 DEF Own
    <2>3. j # E!Rebuild => job'[E!Rebuild] = job[E!Rebuild]
      BY <1>3, <2>1
    <2>4. CASE j = E!Rebuild
      <3>1. content[Sum(c)] => c \in profile' \/ c \in unfolded \/ Own(c)
        BY <1>1, <1>6, <2>1, <2>4 DEF NoteStands
      <3>2. QED
        BY <1>1, <1>11, <2>1, <2>2, <2>4, <3>1 DEF NoteStands, Elsewhere
    <2>5. CASE j = Sum(c)
      BY <1>1, <1>6, <1>11, <2>1, <2>5 DEF NoteStands
    <2>6. CASE j # E!Rebuild /\ j # Sum(c)
      <3>1. j \in E!Studies
        BY <2>6, StudiesAre
      <3>2. content[Sum(c)] => c \in profile' \/ Elsewhere(c)
        BY <1>1, <1>6, <2>1, <3>1 DEF NoteStands
      <3>3. Elsewhere(c) => Elsewhere(c)'
        BY <1>1, <2>2, <2>3, <2>6 DEF Elsewhere
      <3>4. QED
        BY <1>1, <1>11, <2>1, <3>2, <3>3 DEF NoteStands
    <2>7. QED
      BY <2>4, <2>5, <2>6
  <1>16. QED
    BY <1>1, <1>8, <1>9, <1>10, <1>13, <1>14, <1>15 DEF EndInv

LEMMA DeleteKeeps ==
  ASSUME EndInv, UNCHANGED followed, NEW c \in Chats, E!Delete(c)
  PROVE  EndInv'
  <1>1. /\ UNCHANGED <<job, issues, wanted, refused, hurried, clobbered, unfolded>>
        /\ c \in exists /\ exists' = exists \ {c} /\ ended' = ended \ {c}
        /\ fix' = [fix EXCEPT ![c] = "none"]
        /\ status' = [s \in E!Studies |-> IF s[2] = c THEN "unset" ELSE status[s]]
        /\ content' = [s \in E!Studies |-> content[s] /\ s[2] # c]
        /\ profile' = IF content[Sum(c)] THEN {} ELSE profile
        /\ fold' = E!Stale(fold)
        /\ enqueue' = IF content[Sum(c)] THEN enqueue \cup {E!Rebuild} ELSE enqueue
    BY DEF E!Delete, E!history, Sum
  <1>2. /\ status' \in [E!Studies -> {"unset", "pending", "done", "failed"}]
        /\ \A s \in E!Studies : status'[s] = IF s[2] = c THEN "unset" ELSE status[s]
    BY <1>1 DEF EndInv, EndTypes
  <1>3. /\ content' \in [E!Studies -> BOOLEAN]
        /\ \A s \in E!Studies : s[2] = c => ~ content'[s]
        /\ \A s \in E!Studies : s[2] # c => content'[s] = content[s]
    <2>1. ASSUME NEW s \in E!Studies PROVE (content[s] /\ s[2] # c) \in BOOLEAN
      OBVIOUS
    <2>2. \A s \in E!Studies : content'[s] <=> content[s] /\ s[2] # c
      BY <1>1
    <2>3. content' \in [E!Studies -> BOOLEAN]
      BY <1>1, <2>1
    <2>4. QED
      BY <2>2, <2>3 DEF EndInv, EndTypes
  <1>4. /\ fold' \in [E!Jobs -> E!Fold \cup {Nobody}]
        /\ \A k \in E!Jobs : fold[k] # Nobody => fold'[k] # Nobody
        /\ \A k \in E!Jobs : fold'[k] # Nobody => fold'[k].stale
    BY <1>1, StaleIs DEF EndInv, EndTypes
  <1>5. /\ fix' \in [Chats -> {"none", "pending", "flagged", "clean", "failed"}]
        /\ \A d \in Chats \ {c} : fix'[d] = fix[d]
    BY <1>1 DEF EndInv, EndTypes
  <1>6. EndTypes'
    BY <1>1, <1>2, <1>3, <1>4, <1>5, StudiesAre DEF EndInv, EndTypes
  <1>7. enqueue \subseteq enqueue' /\ \A s \in E!Studies : s \in enqueue' => s \in enqueue
    BY <1>1, StudiesAre
  <1>8. JobsFit'
    BY <1>1, <1>2, <1>3, <1>4, <1>7, StudiesAre DEF EndInv, EndTypes, JobsFit
  <1>9. E!PendingHasJob'
    BY <1>1, <1>2, <1>7 DEF EndInv, E!PendingHasJob, E!CanStillEnd
  <1>10. \A k \in E!Jobs : ~ Fresh(k)'
    BY <1>4, <1>8 DEF Fresh, JobsFit
  <1>11. \A d : Known(d)' => Known(d) /\ d \in profile
    BY <1>1, <1>10 DEF Known
  <1>12. Learned'
    <2>1. ASSUME NEW d \in exists \ {c} PROVE LearnedOf(d)'
      <3>1. LearnedOf(d) /\ d \in Chats /\ Sum(d) \in E!Studies /\ Sum(d)[2] = d
        BY StudiesAre DEF EndInv, EndTypes, Learned
      <3>2. fix'[d] = fix[d] /\ content'[Sum(d)] = content[Sum(d)]
        BY <1>3, <1>5, <2>1, <3>1
      <3>3. QED
        BY <1>1, <1>11, <3>1, <3>2 DEF LearnedOf
    <2>2. profile' \ exists' \subseteq clobbered
      <3>1. c \in profile /\ ~ content[Sum(c)] => c \in clobbered
        BY <1>1 DEF EndInv, Learned, LearnedOf, Known
      <3>2. QED
        BY <1>1, <3>1 DEF EndInv, Learned
    <2>3. QED
      BY <1>1, <1>10, <2>1, <2>2 DEF Learned
  <1>13. StudiesWaited'
    <2>1. ASSUME NEW s \in E!Studies, s[2] # c, Waited(s[2]) PROVE Waited(s[2])'
      BY <1>1, <1>5, <2>1, StudiesAre DEF Waited
    <2>2. QED
      BY <1>1, <1>2, <1>3, <2>1 DEF StudiesWaited, EndInv
  <1>14. ASSUME NEW d \in exists' PROVE NoteStands(d)'
    <2>1. d \in exists /\ d # c /\ Sum(d) \in E!Studies /\ Sum(d) \in E!Jobs /\ Sum(d)[2] = d
          /\ NoteStands(d) /\ E!Rebuild \in E!Jobs /\ \A r \in E!Studies : r \in E!Jobs
      BY <1>1, StudiesAre DEF EndInv, EndTypes
    <2>2. content'[Sum(d)] = content[Sum(d)]
      BY <1>3, <2>1
    <2>3. Elsewhere(d) => Elsewhere(d)'
      BY <1>1, <1>7 DEF Elsewhere, Own
    <2>4. content[Sum(c)] => Elsewhere(d)'
      BY <1>1 DEF Elsewhere
    <2>5. QED
      BY <1>1, <1>10, <2>1, <2>2, <2>3, <2>4 DEF NoteStands
  <1>15. QED
    BY <1>6, <1>8, <1>9, <1>12, <1>13, <1>14 DEF EndInv

-----------------------------------------------------------------------------
LEMMA EndRests ==
  ASSUME EndInv, UNCHANGED E!vars
  PROVE  EndInv'
  <1>1. UNCHANGED <<followed, exists, ended, fix, status, content, profile, job, issues, fold, wanted,
                    enqueue, refused, hurried, clobbered, unfolded>>
    BY DEF E!vars, E!rows, E!work, E!history
  <1>2. EndTypes' /\ JobsFit' /\ E!PendingHasJob'
    BY <1>1 DEF EndInv, EndTypes, JobsFit, E!PendingHasJob, E!CanStillEnd
  <1>3. QED
    BY <1>1, <1>2, RowsKeep

LEMMA EndNext ==
  ASSUME EndInv, [E!Next]_(E!vars)
  PROVE  EndInv'
  <1>1. CASE UNCHANGED E!vars
    BY <1>1, EndRests
  <1>2. CASE E!Next
    <2>1. E!Step /\ UNCHANGED followed
      BY <1>2 DEF E!Next
    <2>2. ASSUME NEW c \in Chats, E!Reserve(c) \/ E!Judge(c) \/ E!End(c) \/ E!Visit(c) \/ E!Delete(c)
          PROVE  EndInv'
      BY <2>1, <2>2, ReserveKeeps, JudgeKeeps, EndKeeps, VisitKeeps, DeleteKeeps
    <2>3. ASSUME NEW s \in E!Studies,
                 \/ E!Check(s) \/ E!Restart(s) \/ E!Collect(s) \/ E!Complete(s) \/ E!Fail(s)
                 \/ E!Drop(s) \/ E!Merge(s)
          PROVE  EndInv'
      BY <2>1, <2>3, CheckKeeps, RestartKeeps, CollectKeeps, CompleteKeeps, FailKeeps, DropKeeps,
         MergeKeeps
    <2>4. ASSUME NEW j \in E!Jobs,
                 \/ E!Enqueue(j) \/ E!LoseEnqueue(j) \/ E!Take(j) \/ E!Die(j) \/ E!Finish(j)
                 \/ E!ReadRevision(j) \/ E!List(j) \/ E!Publish(j) \/ E!Conflict(j) \/ E!FoldFails(j)
          PROVE  EndInv'
      BY <2>1, <2>4, EnqueueKeeps, LoseKeeps, TakeKeeps, DieKeeps, FinishKeeps, ReadRevisionKeeps,
         RelistKeeps, PublishKeeps, ConflictKeeps, FoldFailsKeeps
    <2>5. QED
      BY <2>1, <2>2, <2>3, <2>4 DEF E!Step
  <1>3. QED
    BY <1>1, <1>2

(* The invariant of the rooms' endings, for any rooms and any studies that  *)
(* are followed.                                                           *)
THEOREM EndingsInvariant == E!Spec => []EndInv
  <1>1. E!Init => EndInv
    BY EndInit
  <1>2. EndInv /\ [E!Next]_(E!vars) => EndInv'
    BY EndNext
  <1>3. QED
    BY <1>1, <1>2, PTL DEF E!Spec

LEMMA EndingsOfRooms == RoomsSpec => E!Spec
  <1>1. RoomsInit => E!Init
    BY DEF RoomsInit
  <1>2. [RoomsNext]_<<part, vars, endings, cascade, recordings>> => [E!Next]_(E!vars)
    BY DEF RoomsNext, endings, E!vars, E!rows, E!work, E!history
  <1>3. QED
    BY <1>1, <1>2, PTL DEF RoomsSpec, E!Spec

(* What a deleted room taught is in the profile no more: a fold that has    *)
(* read it is refused or names the room, for Publish to look at.           *)
THEOREM DeletedIsForgotten == RoomsSpec => []ForgottenAfterDeletion
  <1>1. EndInv => ForgottenAfterDeletion
    BY DEF EndInv, Learned, ForgottenAfterDeletion, E!ForgottenAfterDeletion
  <1>2. QED
    BY <1>1, EndingsOfRooms, EndingsInvariant, PTL

(* At rest the profile knows the summary of every room that has one, but    *)
(* for a fold that failed and a refused job of the profile's own.          *)
THEOREM NotesAreKept == RoomsSpec => []NotesKept
  <1>1. EndInv => NotesKept
    BY StudiesAre DEF EndInv, EndTypes, NoteStands, Elsewhere, Own, Sum, NotesKept, E!NotesKept,
       E!AtRest
  <1>2. QED
    BY <1>1, EndingsOfRooms, EndingsInvariant, PTL

(* A study that is done has what the correction flagged, if it was waited   *)
(* for.                                                                    *)
THEOREM WrapUpIsComplete == RoomsSpec => []WrapUpComplete
  <1>1. EndInv => WrapUpComplete
    BY DEF EndInv, StudiesWaited, Waited, WrapUpComplete, E!WrapUpComplete
  <1>2. QED
    BY <1>1, EndingsOfRooms, EndingsInvariant, PTL

(* A study that is pending has a job that will write it, unless a held key  *)
(* or a lost enqueue refused it.                                           *)
THEOREM PendingKeepsJob == RoomsSpec => []PendingHasJob
  <1>1. EndInv => PendingHasJob
    BY DEF EndInv, PendingHasJob
  <1>2. QED
    BY <1>1, EndingsOfRooms, EndingsInvariant, PTL

-----------------------------------------------------------------------------
(* Cascade. *)

Quiet == {"idle", "status", "return", "publish", "done", "failed"}
Stages == Quiet \cup {"profile", "previous", "chat", "analysis", "judge"}

(* What the fields hold does not matter, but that they are there: T is      *)
(* whatever they held so far.                                              *)
AttemptsOf(T) ==
  [bound : BOOLEAN, strict : BOOLEAN, stage : Stages, given : [C!Sources -> T],
   draft : T, refined : T, final : T, broken : {"no", "storage", "canceled"}]
CallsOf(T) ==
  [at : {"rest", "started", "discarding", "asking", "saving", "answered"}, text : T]
PromptsOf(T) == [status : {"none", "pending", "failed", "done", "deleted"}, korean : T]

Shaped(T) ==
  /\ Nothing \in T
  /\ attempt \in [Workers -> AttemptsOf(T)]
  /\ call \in [Workers -> [C!Lanes -> CallsOf(T)]]
  /\ prompt \in PromptsOf(T)

(* What stands in a stage, and what an attempt that is through leaves.     *)
StageStands(w) ==
  LET a == attempt[w] IN
  /\ a.stage = "publish" => a.broken \in {"no", "canceled"}
  /\ a.stage \notin {"idle", "profile", "done", "failed"} => a.given["profile"] # Nothing
  /\ a.stage \in {"profile", "status", "previous"} => a.given["previous"] = Nothing
  /\ a.stage = "done" => prompt.status # "pending" \/ lost
  /\ a.stage = "failed" /\ prompt.status = "pending" => C!Unwritten(w)

CallsRest(w) == attempt[w].stage \in Quiet => \A l \in C!Lanes : call[w][l].at = "rest"

Owns(w) == claim = w => attempt[w].stage # "idle" /\ attempt[w].bound

Busy(w, l) == call[w][l].at \in {"discarding", "asking", "saving"}

(* Identical calls of an attempt share one result. *)
Apart(w) ==
  \A l, m \in C!Lanes : l # m /\ Busy(w, l) /\ Busy(w, m) => C!Key(w, l) # C!Key(w, m)

StepStands(w, l) ==
  LET c == call[w][l] IN
  /\ c.at \in {"asking", "saving"} => C!Key(w, l) \notin DOMAIN stored
  /\ c.at = "discarding" => /\ C!Key(w, l) \in DOMAIN stored
                            /\ ~ C!Reusable(w, stored[C!Key(w, l)])
  /\ c.at = "answered" /\ c.text # Nothing /\ C!Reusable(w, c.text) =>
       C!Key(w, l) \in DOMAIN stored /\ stored[C!Key(w, l)] = c.text

Reuses(w) ==
  claim = w /\ attempt[w].broken = "no" => \A l \in C!Lanes : StepStands(w, l)

AttemptStands(w) == StageStands(w) /\ CallsRest(w) /\ Owns(w) /\ Apart(w) /\ Reuses(w)

PromptStands ==
  /\ prompt.korean # Nothing => prompt.status = "done"
  /\ prompt.status = "none" => task = "none" /\ \A w \in Workers : attempt[w].stage = "idle"
  /\ C!Settled

CasInv ==
  /\ config \in Configs
  /\ \E T : Shaped(T)
  /\ \A w \in Workers : AttemptStands(w)
  /\ PromptStands

-----------------------------------------------------------------------------
LEMMA ShapesGrow ==
  ASSUME NEW T, NEW U, T \subseteq U
  PROVE  /\ AttemptsOf(T) \subseteq AttemptsOf(U)
         /\ CallsOf(T) \subseteq CallsOf(U)
         /\ PromptsOf(T) \subseteq PromptsOf(U)
         /\ Shaped(T) => Shaped(U)
  <1>1. [C!Sources -> T] \subseteq [C!Sources -> U]
    OBVIOUS
  <1>2. AttemptsOf(T) \subseteq AttemptsOf(U)
    BY <1>1 DEF AttemptsOf
  <1>3. CallsOf(T) \subseteq CallsOf(U)
    BY DEF CallsOf
  <1>4. PromptsOf(T) \subseteq PromptsOf(U)
    BY DEF PromptsOf
  <1>5. QED
    BY <1>2, <1>3, <1>4 DEF Shaped

LEMMA LaneZero == config \in Configs => 0 \in C!Lanes
  BY CascadeAssumption DEF C!Lanes

LEMMA IdleIs ==
  ASSUME NEW T, Nothing \in T
  PROVE  \E U : /\ T \subseteq U /\ C!Idle \in AttemptsOf(U)
                /\ C!Rest \in CallsOf(T) /\ C!Started \in CallsOf(T)
                /\ C!Idle.stage = "idle" /\ C!Idle.broken = "no"
                /\ C!Rest.at = "rest" /\ C!Started.at = "started"
  <1>1. PICK no \in BOOLEAN : no = FALSE
    OBVIOUS
  <1>2. PICK none : none = << >>
    OBVIOUS
  <1>3. C!Idle = [bound |-> no, strict |-> no, stage |-> "idle",
                  given |-> [i \in C!Sources |-> Nothing], draft |-> Nothing, refined |-> none,
                  final |-> Nothing, broken |-> "no"]
    BY <1>1, <1>2 DEF C!Idle
  <1>4. C!Idle \in AttemptsOf(T \cup {none})
    BY <1>3 DEF AttemptsOf, Stages, Quiet
  <1>5. C!Idle.stage = "idle" /\ C!Idle.broken = "no"
    BY <1>3
  <1>6. C!Rest \in CallsOf(T) /\ C!Started \in CallsOf(T)
        /\ C!Rest.at = "rest" /\ C!Started.at = "started"
    BY DEF C!Rest, C!Started, CallsOf
  <1>7. QED
    BY <1>4, <1>5, <1>6

LEMMA KeyKeeps ==
  ASSUME NEW w, NEW l, UNCHANGED config,
         attempt'[w].stage = attempt[w].stage, attempt'[w].given = attempt[w].given,
         attempt'[w].draft = attempt[w].draft, attempt'[w].refined = attempt[w].refined
  PROVE  C!Key(w, l)' = C!Key(w, l)
  BY DEF C!Key, C!Step

LEMMA ReusableKeeps ==
  ASSUME NEW w, NEW v, attempt'[w].stage = attempt[w].stage, attempt'[w].strict = attempt[w].strict
  PROVE  C!Reusable(w, v)' <=> C!Reusable(w, v)
  BY DEF C!Reusable, C!Accepts, C!Step

(* An attempt that a step of another leaves alone. *)
LEMMA OthersStand ==
  ASSUME NEW v \in Workers, UNCHANGED <<config, attempt[v], call[v]>>, AttemptStands(v),
         prompt'.status = "pending" => prompt.status = "pending",
         lost => lost',
         claim' = v => claim = v /\ stored' = stored
  PROVE  AttemptStands(v)'
  <1>1. C!Lanes' = C!Lanes
    BY DEF C!Lanes
  <1>2. \A l : C!Key(v, l)' = C!Key(v, l)
    BY KeyKeeps
  <1>3. \A x : C!Reusable(v, x)' <=> C!Reusable(v, x)
    BY ReusableKeeps
  <1>4. StageStands(v)'
    BY DEF AttemptStands, StageStands, C!Unwritten
  <1>5. CallsRest(v)' /\ Owns(v)'
    BY <1>1 DEF AttemptStands, CallsRest, Owns
  <1>6. Apart(v)'
    BY <1>1, <1>2 DEF AttemptStands, Apart, Busy
  <1>7. Reuses(v)'
    BY <1>1, <1>2, <1>3 DEF AttemptStands, Reuses, StepStands
  <1>8. QED
    BY <1>4, <1>5, <1>6, <1>7 DEF AttemptStands

LEMMA CasInit == ASSUME C!Init PROVE CasInv
  <1>1. /\ config \in Configs /\ prompt = [status |-> "none", korean |-> Nothing]
        /\ task = "none" /\ claim = Nothing
        /\ attempt = [w \in Workers |-> C!Idle]
        /\ call = [w \in Workers |-> [l \in C!Lanes |-> C!Rest]]
    BY DEF C!Init
  <1>2. PICK U : /\ {Nothing} \subseteq U /\ C!Idle \in AttemptsOf(U)
                 /\ C!Rest \in CallsOf({Nothing}) /\ C!Idle.stage = "idle" /\ C!Rest.at = "rest"
    BY IdleIs
  <1>3. C!Rest \in CallsOf(U) /\ prompt \in PromptsOf(U)
    BY <1>1, <1>2 DEF CallsOf, PromptsOf
  <1>4. Shaped(U)
    BY <1>1, <1>2, <1>3 DEF Shaped
  <1>5. prompt.status = "none" /\ prompt.korean = Nothing
    BY <1>1
  <1>6. PromptStands
    BY <1>1, <1>2, <1>5 DEF PromptStands, C!Settled
  <1>7. ASSUME NEW w \in Workers PROVE AttemptStands(w)
    <2>1. attempt[w].stage = "idle" /\ (\A l \in C!Lanes : call[w][l].at = "rest") /\ claim # w
      BY <1>1, <1>2, CascadeAssumption
    <2>2. QED
      BY <2>1 DEF AttemptStands, StageStands, CallsRest, Owns, Apart, Busy, Reuses
  <1>8. QED
    BY <1>1, <1>4, <1>6, <1>7 DEF CasInv

-----------------------------------------------------------------------------
(* An attempt goes on to another stage, begins or is no more. *)
LEMMA TurnKeeps ==
  ASSUME CasInv, NEW w \in Workers, NEW T, Shaped(T), NEW U, T \subseteq U,
         NEW nx \in AttemptsOf(U), attempt' = [attempt EXCEPT ![w] = nx],
         NEW cs \in [C!Lanes -> CallsOf(U)], call' = [call EXCEPT ![w] = cs],
         \A l \in C!Lanes : cs[l].at = "rest" \/ (cs[l].at = "started" /\ nx.stage \notin Quiet),
         UNCHANGED config, lost => lost',
         prompt' \in PromptsOf(U), prompt'.status # "none",
         prompt'.status = "pending" => prompt.status = "pending",
         prompt'.korean # Nothing => prompt'.status = "done",
         \A v \in Workers \ {w} : claim' = v => claim = v /\ stored' = stored,
         claim' = w => nx.stage # "idle" /\ nx.bound,
         StageStands(w)', C!Settled'
  PROVE  CasInv'
  <1>1. Shaped(U) /\ C!Lanes' = C!Lanes
    BY ShapesGrow DEF C!Lanes
  <1>2. Shaped(U)'
    BY <1>1 DEF Shaped
  <1>3. /\ attempt'[w] = nx /\ call'[w] = cs
        /\ \A v \in Workers \ {w} : attempt'[v] = attempt[v] /\ call'[v] = call[v]
    BY <1>1 DEF Shaped
  <1>4. AttemptStands(w)'
    BY <1>1, <1>3 DEF AttemptStands, CallsRest, Owns, Apart, Busy, Reuses, StepStands
  <1>5. ASSUME NEW v \in Workers \ {w} PROVE AttemptStands(v)'
    BY <1>3, OthersStand DEF CasInv
  <1>6. PromptStands'
    BY DEF PromptStands
  <1>7. QED
    BY <1>2, <1>4, <1>5, <1>6 DEF CasInv

LEMMA MoveKeeps ==
  ASSUME CasInv, NEW w \in Workers, NEW T, Shaped(T), NEW U, T \subseteq U,
         NEW nx \in AttemptsOf(U), NEW lanes, C!Moves(w, nx, lanes),
         nx.stage \in Quiet => lanes = {},
         UNCHANGED config, lost => lost',
         prompt' \in PromptsOf(U), prompt'.status # "none",
         prompt'.status = "pending" => prompt.status = "pending",
         prompt'.korean # Nothing => prompt'.status = "done",
         \A v \in Workers \ {w} : claim' = v => claim = v /\ stored' = stored,
         claim' = w => nx.stage # "idle" /\ nx.bound,
         StageStands(w)', C!Settled'
  PROVE  CasInv'
  <1>1. Nothing \in U
    BY DEF Shaped
  <1>2. C!Rest \in CallsOf(U) /\ C!Started \in CallsOf(U)
        /\ C!Rest.at = "rest" /\ C!Started.at = "started"
    BY <1>1, IdleIs
  <1>3. PICK cs \in [C!Lanes -> CallsOf(U)] :
          cs = [l \in C!Lanes |-> IF l \in lanes THEN C!Started ELSE C!Rest]
    BY <1>2
  <1>4. attempt' = [attempt EXCEPT ![w] = nx] /\ call' = [call EXCEPT ![w] = cs]
    BY <1>3 DEF C!Moves
  <1>5. \A l \in C!Lanes : cs[l].at = "rest" \/ (cs[l].at = "started" /\ nx.stage \notin Quiet)
    BY <1>2, <1>3
  <1>6. QED
    BY <1>4, <1>5, TurnKeeps

(* An attempt's context or its checkpoints break. *)
LEMMA BreakIs ==
  ASSUME NEW T, NEW a \in AttemptsOf(T), NEW b \in {"storage", "canceled"}
  PROVE  /\ [a EXCEPT !.broken = b] \in AttemptsOf(T)
         /\ [a EXCEPT !.broken = b].broken = b
         /\ [a EXCEPT !.broken = b].stage = a.stage
         /\ [a EXCEPT !.broken = b].bound = a.bound
         /\ [a EXCEPT !.broken = b].strict = a.strict
         /\ [a EXCEPT !.broken = b].given = a.given
         /\ [a EXCEPT !.broken = b].draft = a.draft
         /\ [a EXCEPT !.broken = b].refined = a.refined
         /\ [a EXCEPT !.broken = b].final = a.final
  BY DEF AttemptsOf

(* An attempt in its next stage. *)
LEMMA StageIs ==
  ASSUME NEW T, NEW a \in AttemptsOf(T), NEW s \in Stages
  PROVE  \E b \in AttemptsOf(T) :
           /\ b = [a EXCEPT !.stage = s]
           /\ b.stage = s
           /\ b.bound = a.bound
           /\ b.given = a.given
           /\ b.broken = a.broken
           /\ b.draft = a.draft
           /\ b.refined = a.refined
           /\ b.final = a.final
  <1>1. [a EXCEPT !.stage = s] \in AttemptsOf(T)
    BY DEF AttemptsOf
  <1>2. QED
    BY <1>1 DEF AttemptsOf


LEMMA DraftIs ==
  ASSUME NEW T, NEW a \in AttemptsOf(T), NEW v \in T
  PROVE  \E b \in AttemptsOf(T) :
           /\ b = [a EXCEPT !.draft = v]
           /\ b.stage = a.stage
           /\ b.bound = a.bound
           /\ b.given = a.given
           /\ b.broken = a.broken
           /\ b.draft = v
           /\ b.refined = a.refined
           /\ b.final = a.final
  <1>1. [a EXCEPT !.draft = v] \in AttemptsOf(T)
    BY DEF AttemptsOf
  <1>2. QED
    BY <1>1 DEF AttemptsOf

LEMMA RefinedIs ==
  ASSUME NEW T, NEW a \in AttemptsOf(T), NEW v \in T
  PROVE  \E b \in AttemptsOf(T) :
           /\ b = [a EXCEPT !.refined = v]
           /\ b.stage = a.stage
           /\ b.bound = a.bound
           /\ b.given = a.given
           /\ b.broken = a.broken
           /\ b.draft = a.draft
           /\ b.refined = v
           /\ b.final = a.final
  <1>1. [a EXCEPT !.refined = v] \in AttemptsOf(T)
    BY DEF AttemptsOf
  <1>2. QED
    BY <1>1 DEF AttemptsOf

LEMMA FinalIs ==
  ASSUME NEW T, NEW a \in AttemptsOf(T), NEW v \in T
  PROVE  \E b \in AttemptsOf(T) :
           /\ b = [a EXCEPT !.final = v]
           /\ b.stage = a.stage
           /\ b.bound = a.bound
           /\ b.given = a.given
           /\ b.broken = a.broken
           /\ b.draft = a.draft
           /\ b.refined = a.refined
           /\ b.final = v
  <1>1. [a EXCEPT !.final = v] \in AttemptsOf(T)
    BY DEF AttemptsOf
  <1>2. QED
    BY <1>1 DEF AttemptsOf

LEMMA GivenIs ==
  ASSUME NEW T, NEW a \in AttemptsOf(T), NEW v \in [C!Sources -> T]
  PROVE  \E b \in AttemptsOf(T) :
           /\ b = [a EXCEPT !.given = v]
           /\ b.stage = a.stage
           /\ b.bound = a.bound
           /\ b.given = v
           /\ b.broken = a.broken
           /\ b.draft = a.draft
           /\ b.refined = a.refined
           /\ b.final = a.final
  <1>1. [a EXCEPT !.given = v] \in AttemptsOf(T)
    BY DEF AttemptsOf
  <1>2. QED
    BY <1>1 DEF AttemptsOf

LEMMA NowGiven ==
  ASSUME NEW T, NEW w \in Workers, attempt[w] \in AttemptsOf(T), NEW i \in C!Sources, NEW v \in T
  PROVE  /\ C!Given(w, i, v) \in [C!Sources -> T]
         /\ C!Given(w, i, v)[i] = v
         /\ \A k \in C!Sources \ {i} : C!Given(w, i, v)[k] = attempt[w].given[k]
  <1>1. PICK f \in [C!Sources -> T] : f = attempt[w].given
    BY DEF AttemptsOf
  <1>2. C!Given(w, i, v) = [f EXCEPT ![i] = v]
    BY <1>1 DEF C!Given
  <1>3. QED
    BY <1>1, <1>2

(* A step in flight goes on. *)
LEMMA CallKeeps ==
  ASSUME CasInv, NEW w \in Workers, NEW l \in C!Lanes, NEW T, Shaped(T), NEW U, T \subseteq U,
         NEW c \in CallsOf(U), call' = [call EXCEPT ![w][l] = c], call[w][l].at # "rest",
         UNCHANGED <<config, prompt, task, claim, lost>>,
         \/ UNCHANGED attempt
         \/ /\ attempt' = [attempt EXCEPT ![w].broken = "storage"]
            /\ stored' = stored,
         claim # w => stored' = stored,
         c.at \in {"discarding", "asking", "saving"} =>
           Busy(w, l) \/ \A m \in C!Lanes \ {l} : Busy(w, m) => C!Key(w, m) # C!Key(w, l),
         claim = w /\ attempt'[w].broken = "no" => \A m \in C!Lanes : StepStands(w, m)'
  PROVE  CasInv'
  <1>1. Shaped(U) /\ C!Lanes' = C!Lanes
    BY ShapesGrow DEF C!Lanes
  <1>2. /\ call' \in [Workers -> [C!Lanes -> CallsOf(U)]]
        /\ call'[w][l] = c
        /\ \A m \in C!Lanes \ {l} : call'[w][m] = call[w][m]
        /\ \A v \in Workers \ {w} : call'[v] = call[v]
    BY <1>1 DEF Shaped
  <1>3. attempt[w].stage \notin Quiet
    BY DEF CasInv, AttemptStands, CallsRest
  <1>4. PICK a \in AttemptsOf(U) : a = attempt[w]
    BY <1>1 DEF Shaped
  <1>5. /\ attempt' \in [Workers -> AttemptsOf(U)]
        /\ \A v \in Workers \ {w} : attempt'[v] = attempt[v]
        /\ attempt'[w].stage = attempt[w].stage /\ attempt'[w].given = attempt[w].given
        /\ attempt'[w].draft = attempt[w].draft /\ attempt'[w].refined = attempt[w].refined
        /\ attempt'[w].bound = attempt[w].bound
    <2>1. CASE UNCHANGED attempt
      BY <1>1, <2>1 DEF Shaped
    <2>2. CASE attempt' = [attempt EXCEPT ![w].broken = "storage"]
      <3>1. PICK nb \in AttemptsOf(U) :
              /\ nb = [a EXCEPT !.broken = "storage"]
              /\ nb.stage = a.stage /\ nb.given = a.given /\ nb.draft = a.draft
              /\ nb.refined = a.refined /\ nb.bound = a.bound
        BY BreakIs
      <3>2. attempt' = [attempt EXCEPT ![w] = nb]
        BY <1>4, <2>2, <3>1
      <3>3. QED
        BY <1>1, <1>4, <3>1, <3>2 DEF Shaped
    <2>3. QED
      BY <2>1, <2>2
  <1>6. Shaped(U)'
    BY <1>1, <1>2, <1>5 DEF Shaped
  <1>7. \A m : C!Key(w, m)' = C!Key(w, m)
    BY <1>5, KeyKeeps
  <1>8. AttemptStands(w)'
    <2>1. StageStands(w)' /\ CallsRest(w)' /\ Owns(w)'
      BY <1>3, <1>5 DEF CasInv, AttemptStands, StageStands, CallsRest, Owns, Quiet
    <2>2. Apart(w)'
      <3>1. Apart(w) /\ \A m \in C!Lanes \ {l} : Busy(w, m)' = Busy(w, m)
        BY <1>2 DEF CasInv, AttemptStands, Busy
      <3>2. Busy(w, l)' => Busy(w, l) \/ \A m \in C!Lanes \ {l} : Busy(w, m) => C!Key(w, m) # C!Key(w, l)
        BY <1>2 DEF Busy
      <3>3. QED
        BY <1>1, <1>7, <3>1, <3>2 DEF Apart
    <2>3. Reuses(w)'
      BY <1>1 DEF Reuses
    <2>4. QED
      BY <2>1, <2>2, <2>3 DEF AttemptStands
  <1>9. ASSUME NEW v \in Workers \ {w} PROVE AttemptStands(v)'
    BY <1>2, <1>5, OthersStand DEF CasInv
  <1>10. PromptStands'
    <2>1. \A v \in Workers : attempt'[v].stage = attempt[v].stage
      BY <1>5
    <2>2. QED
      BY <2>1 DEF CasInv, PromptStands, C!Settled, C!Step
  <1>11. QED
    BY <1>6, <1>8, <1>9, <1>10 DEF CasInv

-----------------------------------------------------------------------------
LEMMA GivesUpKeeps ==
  ASSUME CasInv, NEW w \in Workers, NEW l \in C!Lanes, call[w][l].at # "rest",
         UNCHANGED <<config, prompt, task, claim, lost, stored>>,
         C!Goes(w, l, "answered", Nothing),
         \/ UNCHANGED attempt
         \/ attempt' = [attempt EXCEPT ![w].broken = "storage"]
  PROVE  CasInv'
  <1>1. PICK T : Shaped(T)
    BY DEF CasInv
  <1>2. PICK c \in CallsOf(T) : c = [at |-> "answered", text |-> Nothing]
    BY <1>1 DEF CallsOf, Shaped
  <1>3. call' = [call EXCEPT ![w][l] = c] /\ c.at = "answered" /\ c.text = Nothing
    BY <1>2 DEF C!Goes
  <1>4. ASSUME claim = w, attempt'[w].broken = "no", NEW m \in C!Lanes PROVE StepStands(w, m)'
    <2>1. attempt' = attempt
      <3>1. CASE attempt' = [attempt EXCEPT ![w].broken = "storage"]
        <4>1. PICK a \in AttemptsOf(T) : a = attempt[w]
          BY <1>1 DEF Shaped
        <4>2. attempt'[w] = [a EXCEPT !.broken = "storage"]
          BY <1>1, <3>1, <4>1 DEF Shaped
        <4>3. attempt'[w].broken = "storage"
          BY <4>2, BreakIs
        <4>4. QED
          BY <1>4, <4>3
      <3>2. QED
        BY <3>1
    <2>2. StepStands(w, m)
      BY <1>4, <2>1 DEF CasInv, AttemptStands, Reuses
    <2>3. C!Key(w, m)' = C!Key(w, m) /\ \A x : C!Reusable(w, x)' <=> C!Reusable(w, x)
      BY <2>1, KeyKeeps, ReusableKeeps
    <2>4. call'[w][m] = IF m = l THEN c ELSE call[w][m]
      BY <1>1, <1>3 DEF Shaped
    <2>5. QED
      BY <1>3, <2>2, <2>3, <2>4 DEF StepStands
  <1>5. QED
    BY <1>1, <1>3, <1>4, CallKeeps

(* The steps that the same attempt has in flight beside the one that goes   *)
(* on.                                                                     *)
LEMMA StepsBeside ==
  ASSUME CasInv, NEW w \in Workers, NEW l \in C!Lanes, NEW T, Shaped(T), NEW c,
         call' = [call EXCEPT ![w][l] = c], UNCHANGED <<config, attempt>>,
         claim = w, attempt[w].broken = "no",
         \/ stored' = stored
         \/ /\ call[w][l].at \in {"discarding", "saving"}
            /\ \A k : k # C!Key(w, l) =>
                 /\ k \in DOMAIN stored' <=> k \in DOMAIN stored
                 /\ k \in DOMAIN stored => stored'[k] = stored[k]
  PROVE  \A m \in C!Lanes \ {l} : StepStands(w, m)'
  <1> SUFFICES ASSUME NEW m \in C!Lanes \ {l} PROVE StepStands(w, m)'
    OBVIOUS
  <1>1. StepStands(w, m) /\ StepStands(w, l) /\ Apart(w)
    BY DEF CasInv, AttemptStands, Reuses
  <1>2. C!Key(w, m)' = C!Key(w, m) /\ \A x : C!Reusable(w, x)' <=> C!Reusable(w, x)
    BY KeyKeeps, ReusableKeeps
  <1>3. call'[w][m] = call[w][m]
    BY DEF Shaped
  <1>4. CASE stored' = stored
    BY <1>1, <1>2, <1>3, <1>4 DEF StepStands
  <1>5. CASE stored' # stored
    <2>1. CASE C!Key(w, m) # C!Key(w, l)
      BY <1>1, <1>2, <1>3, <1>5, <2>1 DEF StepStands
    <2>2. CASE C!Key(w, m) = C!Key(w, l)
      <3>1. ~ Busy(w, m)
        BY <1>1, <1>5, <2>2 DEF Apart, Busy
      <3>2. ~ (call[w][m].at = "answered" /\ call[w][m].text # Nothing
               /\ C!Reusable(w, call[w][m].text))
        BY <1>1, <1>5, <2>2 DEF StepStands
      <3>3. QED
        BY <1>2, <1>3, <3>1, <3>2 DEF StepStands, Busy
    <2>3. QED
      BY <2>1, <2>2
  <1>6. QED
    BY <1>4, <1>5

(* A step that has no effect on the attempt's checkpoints. *)
LEMMA GoesKeeps ==
  ASSUME CasInv, NEW w \in Workers, NEW l \in C!Lanes, call[w][l].at # "rest",
         UNCHANGED <<config, prompt, task, claim, lost, stored, attempt>>,
         NEW at \in {"discarding", "asking", "saving", "answered"}, NEW text,
         C!Goes(w, l, at, text),
         at # "answered" => Busy(w, l) \/ ~ C!Shares(w, l),
         claim = w /\ attempt[w].broken = "no" =>
           /\ at \in {"asking", "saving"} => C!Key(w, l) \notin DOMAIN stored
           /\ at = "discarding" => /\ C!Key(w, l) \in DOMAIN stored
                                  /\ ~ C!Reusable(w, stored[C!Key(w, l)])
           /\ at = "answered" /\ text # Nothing /\ C!Reusable(w, text) =>
                C!Key(w, l) \in DOMAIN stored /\ stored[C!Key(w, l)] = text
  PROVE  CasInv'
  <1>1. PICK T : Shaped(T)
    BY DEF CasInv
  <1>2. PICK c \in CallsOf(T \cup {text}) : c = [at |-> at, text |-> text]
    BY DEF CallsOf
  <1>3. call' = [call EXCEPT ![w][l] = c] /\ c.at = at /\ c.text = text
    BY <1>2 DEF C!Goes
  <1>4. at # "answered" =>
          Busy(w, l) \/ \A m \in C!Lanes \ {l} : Busy(w, m) => C!Key(w, m) # C!Key(w, l)
    BY DEF C!Shares, Busy
  <1>5. ASSUME claim = w, attempt'[w].broken = "no", NEW m \in C!Lanes PROVE StepStands(w, m)'
    <2>1. CASE m # l
      BY <1>1, <1>3, <1>5, <2>1, StepsBeside
    <2>2. CASE m = l
      <3>1. C!Key(w, l)' = C!Key(w, l) /\ \A x : C!Reusable(w, x)' <=> C!Reusable(w, x)
        BY KeyKeeps, ReusableKeeps
      <3>2. call'[w][l] = c
        BY <1>1, <1>3 DEF Shaped
      <3>3. QED
        BY <1>3, <1>5, <2>2, <3>1, <3>2 DEF StepStands
    <2>3. QED
      BY <2>1, <2>2
  <1>6. QED
    BY <1>1, <1>3, <1>4, <1>5, CallKeeps

LEMMA LoadKeeps ==
  ASSUME CasInv, NEW w \in Workers, NEW l \in C!Lanes, C!Load(w, l)
  PROVE  CasInv'
  <1>1. /\ call[w][l].at = "started" /\ ~ C!Shares(w, l)
        /\ UNCHANGED <<config, prompt, world, task, claim, tries, lost>>
    BY DEF C!Load
  <1>2. CASE C!GivesUp(w, l)
    BY <1>1, <1>2, GivesUpKeeps DEF C!GivesUp
  <1>3. CASE /\ ~ attempt[w].bound /\ C!Goes(w, l, "asking", Nothing)
             /\ UNCHANGED <<attempt, stored, misses>>
    <2>1. claim # w
      BY <1>3 DEF CasInv, AttemptStands, Owns
    <2>2. QED
      BY <1>1, <1>3, <2>1, GoesKeeps
  <1>4. CASE /\ attempt' = [attempt EXCEPT ![w].broken = "storage"]
             /\ C!Goes(w, l, "answered", Nothing) /\ UNCHANGED stored
    BY <1>1, <1>4, GivesUpKeeps
  <1>5. CASE /\ UNCHANGED <<attempt, stored>>
             /\ IF C!Key(w, l) \notin DOMAIN stored THEN C!Goes(w, l, "asking", Nothing)
                ELSE IF C!Reusable(w, stored[C!Key(w, l)])
                THEN C!Goes(w, l, "answered", stored[C!Key(w, l)])
                ELSE C!Goes(w, l, "discarding", Nothing)
    <2>1. CASE C!Key(w, l) \notin DOMAIN stored
      BY <1>1, <1>5, <2>1, GoesKeeps
    <2>2. CASE C!Key(w, l) \in DOMAIN stored /\ C!Reusable(w, stored[C!Key(w, l)])
      BY <1>1, <1>5, <2>2, GoesKeeps
    <2>3. CASE C!Key(w, l) \in DOMAIN stored /\ ~ C!Reusable(w, stored[C!Key(w, l)])
      BY <1>1, <1>5, <2>3, GoesKeeps
    <2>4. QED
      BY <2>1, <2>2, <2>3
  <1>6. QED
    BY <1>2, <1>3, <1>4, <1>5 DEF C!Load, C!Fenced

LEMMA AskKeeps ==
  ASSUME CasInv, NEW w \in Workers, NEW l \in C!Lanes, C!Ask(w, l)
  PROVE  CasInv'
  <1>1. /\ call[w][l].at = "asking"
        /\ UNCHANGED <<config, prompt, world, task, claim, tries, lost>>
    BY DEF C!Ask
  <1>2. CASE C!GivesUp(w, l)
    BY <1>1, <1>2, GivesUpKeeps DEF C!GivesUp
  <1>3. ASSUME NEW text,
               IF attempt[w].bound /\ text # Nothing /\ C!Reusable(w, text)
               THEN C!Goes(w, l, "saving", text) ELSE C!Goes(w, l, "answered", text),
               UNCHANGED <<attempt, stored>>
        PROVE  CasInv'
    <2>1. claim = w /\ attempt[w].broken = "no" =>
            attempt[w].bound /\ C!Key(w, l) \notin DOMAIN stored
      BY <1>1 DEF CasInv, AttemptStands, Owns, Reuses, StepStands
    <2>2. CASE attempt[w].bound /\ text # Nothing /\ C!Reusable(w, text)
      BY <1>1, <1>3, <2>1, <2>2, GoesKeeps DEF Busy
    <2>3. CASE ~ (attempt[w].bound /\ text # Nothing /\ C!Reusable(w, text))
      BY <1>1, <1>3, <2>1, <2>3, GoesKeeps
    <2>4. QED
      BY <2>2, <2>3
  <1>4. QED
    BY <1>2, <1>3 DEF C!Ask

LEMMA DiscardKeeps ==
  ASSUME CasInv, NEW w \in Workers, NEW l \in C!Lanes, C!Discard(w, l)
  PROVE  CasInv'
  <1>1. /\ call[w][l].at = "discarding"
        /\ UNCHANGED <<config, prompt, world, task, claim, tries, lost>>
    BY DEF C!Discard
  <1>2. CASE /\ attempt' = [attempt EXCEPT ![w].broken = "storage"]
             /\ C!Goes(w, l, "answered", Nothing) /\ UNCHANGED stored
    BY <1>1, <1>2, GivesUpKeeps
  <1>3. CASE /\ claim = w /\ UNCHANGED attempt
             /\ stored' = [k \in DOMAIN stored \ {C!Key(w, l)} |-> stored[k]]
             /\ C!Goes(w, l, "asking", Nothing)
    <2>1. PICK T : Shaped(T)
      BY DEF CasInv
    <2>2. PICK c \in CallsOf(T) : c = [at |-> "asking", text |-> Nothing]
      BY <2>1 DEF CallsOf, Shaped
    <2>3. call' = [call EXCEPT ![w][l] = c] /\ c.at = "asking"
      BY <1>3, <2>2 DEF C!Goes
    <2>4. /\ C!Key(w, l) \notin DOMAIN stored'
          /\ \A k : k # C!Key(w, l) =>
               /\ k \in DOMAIN stored' <=> k \in DOMAIN stored
               /\ k \in DOMAIN stored => stored'[k] = stored[k]
      BY <1>3
    <2>5. ASSUME attempt'[w].broken = "no", NEW m \in C!Lanes PROVE StepStands(w, m)'
      <3>1. CASE m # l
        BY <1>1, <1>3, <2>1, <2>3, <2>4, <2>5, <3>1, StepsBeside
      <3>2. CASE m = l
        <4>1. C!Key(w, l)' = C!Key(w, l)
          BY <1>1, <1>3, KeyKeeps
        <4>2. call'[w][l] = c
          BY <2>1, <2>3 DEF Shaped
        <4>3. QED
          BY <2>3, <2>4, <3>2, <4>1, <4>2 DEF StepStands
      <3>3. QED
        BY <3>1, <3>2
    <2>6. QED
      BY <1>1, <1>3, <2>1, <2>3, <2>5, CallKeeps DEF Busy
  <1>4. QED
    BY <1>2, <1>3 DEF C!Discard, C!Fenced

LEMMA StepSaveKeeps ==
  ASSUME CasInv, NEW w \in Workers, NEW l \in C!Lanes, C!Save(w, l)
  PROVE  CasInv'
  <1>1. /\ call[w][l].at = "saving"
        /\ UNCHANGED <<config, prompt, world, task, claim, tries, lost>>
    BY DEF C!Save
  <1>2. CASE C!GivesUp(w, l)
    BY <1>1, <1>2, GivesUpKeeps DEF C!GivesUp
  <1>3. CASE /\ attempt' = [attempt EXCEPT ![w].broken = "storage"]
             /\ C!Goes(w, l, "answered", Nothing) /\ UNCHANGED stored
    BY <1>1, <1>3, GivesUpKeeps
  <1>4. CASE /\ claim = w /\ UNCHANGED attempt
             /\ stored' = C!With(C!Key(w, l), call[w][l].text)
             /\ C!Goes(w, l, "answered", call[w][l].text)
    <2>1. PICK T : Shaped(T)
      BY DEF CasInv
    <2>2. PICK text \in T : text = call[w][l].text
      BY <2>1 DEF Shaped, CallsOf
    <2>3. PICK c \in CallsOf(T) : c = [at |-> "answered", text |-> text]
      BY DEF CallsOf
    <2>4. call' = [call EXCEPT ![w][l] = c] /\ c.at = "answered" /\ c.text = text
      BY <1>4, <2>2, <2>3 DEF C!Goes
    <2>5. /\ C!Key(w, l) \in DOMAIN stored'
          /\ C!Key(w, l) \notin DOMAIN stored => stored'[C!Key(w, l)] = text
          /\ \A k : k # C!Key(w, l) =>
               /\ k \in DOMAIN stored' <=> k \in DOMAIN stored
               /\ k \in DOMAIN stored => stored'[k] = stored[k]
      BY <1>4, <2>2 DEF C!With
    <2>6. ASSUME attempt'[w].broken = "no", NEW m \in C!Lanes PROVE StepStands(w, m)'
      <3>1. CASE m # l
        BY <1>1, <1>4, <2>1, <2>4, <2>5, <2>6, <3>1, StepsBeside
      <3>2. CASE m = l
        <4>1. C!Key(w, l)' = C!Key(w, l)
          BY <1>1, <1>4, KeyKeeps
        <4>2. call'[w][l] = c
          BY <2>1, <2>4 DEF Shaped
        <4>3. C!Key(w, l) \notin DOMAIN stored
          BY <1>1, <1>4, <2>6 DEF CasInv, AttemptStands, Reuses, StepStands
        <4>4. QED
          BY <2>4, <2>5, <3>2, <4>1, <4>2, <4>3 DEF StepStands
      <3>3. QED
        BY <3>1, <3>2
    <2>7. QED
      BY <1>1, <1>4, <2>1, <2>4, <2>6, CallKeeps
  <1>5. QED
    BY <1>2, <1>3, <1>4 DEF C!Save, C!Fenced

-----------------------------------------------------------------------------
(* A running attempt goes on, and perhaps writes to the prompt. *)
LEMMA GoesOn ==
  ASSUME CasInv, NEW w \in Workers, attempt[w].stage # "idle",
         NEW T, Shaped(T), NEW U, T \subseteq U,
         NEW nx \in AttemptsOf(U), NEW lanes, C!Moves(w, nx, lanes),
         nx.stage # "idle", nx.bound = attempt[w].bound, nx.stage \in Quiet => lanes = {},
         UNCHANGED <<config, claim, stored>>, lost => lost',
         \/ prompt' = prompt
         \/ /\ prompt' \in PromptsOf(U) /\ prompt'.status \notin {"none", "pending"}
            /\ prompt'.korean # Nothing => prompt'.status = "done",
         StageStands(w)'
  PROVE  CasInv'
  <1>1. prompt.status # "none" /\ (prompt.korean # Nothing => prompt.status = "done")
    BY DEF CasInv, PromptStands
  <1>2. prompt \in PromptsOf(U)
    BY ShapesGrow DEF Shaped
  <1>3. attempt'[w] = nx
    BY DEF C!Moves, Shaped
  <1>4. C!Settled'
    BY <1>3 DEF C!Settled, C!Step
  <1>5. claim' = w => nx.bound
    BY DEF CasInv, AttemptStands, Owns
  <1>6. QED
    BY <1>1, <1>2, <1>4, <1>5, MoveKeeps

(* An error; what the row does not say, the attempt could not write. *)
LEMMA ErrsKeeps ==
  ASSUME CasInv, NEW w \in Workers, attempt[w].stage # "idle", C!Errs(w),
         UNCHANGED <<config, claim, stored, lost>>,
         \/ prompt' = prompt
         \/ prompt.status = "pending" /\ prompt' = [prompt EXCEPT !.status = "failed"],
         prompt'.status = "pending" /\ attempt[w].broken = "no" =>
           attempt[w].given["profile"] # Nothing /\ attempt[w].given["previous"] = Nothing
  PROVE  CasInv'
  <1>1. PICK T : Shaped(T)
    BY DEF CasInv
  <1>2. PICK a \in AttemptsOf(T) : a = attempt[w]
    BY <1>1 DEF Shaped
  <1>3. PICK s \in {"done", "failed"} :
          s = IF a.broken = "no" /\ prompt.status = "deleted" THEN "done" ELSE "failed"
    OBVIOUS
  <1>4. PICK nx \in AttemptsOf(T) :
          /\ nx = [a EXCEPT !.stage = s] /\ nx.stage = s /\ nx.bound = a.bound
          /\ nx.given = a.given /\ nx.broken = a.broken
    <2>1. s \in Stages
      BY <1>3 DEF Stages, Quiet
    <2>2. QED
      BY <2>1, StageIs
  <1>5. C!Moves(w, nx, {})
    BY <1>2, <1>3, <1>4 DEF C!Errs
  <1>6. attempt'[w] = nx
    BY <1>1, <1>5 DEF C!Moves, Shaped
  <1>7. \/ prompt' = prompt
        \/ /\ prompt' \in PromptsOf(T) /\ prompt'.status = "failed"
           /\ prompt'.korean = prompt.korean /\ prompt.status = "pending"
    BY <1>1 DEF Shaped, PromptsOf
  <1>8. prompt'.korean # Nothing => prompt'.status = "done"
    BY <1>7 DEF CasInv, PromptStands
  <1>9. StageStands(w)'
    BY <1>2, <1>3, <1>4, <1>6, <1>7 DEF StageStands, C!Unwritten
  <1>10. QED
    BY <1>1, <1>2, <1>3, <1>4, <1>5, <1>7, <1>8, <1>9, GoesOn

LEMMA FailureKeeps ==
  ASSUME CasInv, NEW w \in Workers, attempt[w].stage # "idle", C!Fails(w),
         UNCHANGED <<config, claim, stored, lost>>
  PROVE  CasInv'
  <1>1. PICK T : Shaped(T)
    BY DEF CasInv
  <1>2. CASE C!Check(w) /\ prompt.status = "pending"
    <2>1. prompt' = [prompt EXCEPT !.status = "failed"]
      BY <1>2 DEF C!Fails
    <2>2. prompt'.status = "failed"
      BY <1>1, <2>1 DEF Shaped, PromptsOf
    <2>3. QED
      BY <1>2, <2>1, <2>2, ErrsKeeps DEF C!Fails
  <1>3. CASE ~ (C!Check(w) /\ prompt.status = "pending")
    <2>1. prompt' = prompt
      BY <1>3 DEF C!Fails
    <2>2. ~ (prompt'.status = "pending" /\ attempt[w].broken = "no")
      BY <1>3, <2>1 DEF C!Check
    <2>3. QED
      BY <2>1, <2>2, ErrsKeeps DEF C!Fails
  <1>4. QED
    BY <1>2, <1>3

LEMMA ProfileReadKeeps ==
  ASSUME CasInv, NEW w \in Workers, C!ProfileRead(w)
  PROVE  CasInv'
  <1>1. attempt[w].stage = "profile" /\ UNCHANGED <<config, claim, stored, lost>>
    BY DEF C!ProfileRead, C!Step, C!Kept
  <1>2. CASE C!Fails(w)
    BY <1>1, <1>2, FailureKeeps
  <1>3. CASE /\ call[w][0].text # Nothing /\ UNCHANGED prompt
             /\ C!Moves(w, [attempt[w] EXCEPT !.stage = "status",
                                              !.given = C!Given(w, "profile", call[w][0].text)], {})
    <2>1. PICK T : Shaped(T)
      BY DEF CasInv
    <2>2. PICK V : \E v \in V : T \subseteq V /\ v = call[w][0].text
      <3>1. LET t == call[w][0].text IN t \in T \cup {t} /\ T \subseteq T \cup {t}
        OBVIOUS
      <3>2. QED
        BY <3>1
    <2>12. PICK text \in V : text = call[w][0].text
      BY <2>2
    <2>3. PICK a \in AttemptsOf(V) : a = attempt[w]
      BY <2>1, <2>2, ShapesGrow DEF Shaped
    <2>4. PICK g \in [C!Sources -> V] :
            /\ g = C!Given(w, "profile", text) /\ g["profile"] = text
            /\ g["previous"] = attempt[w].given["previous"]
      <3>1. "profile" \in C!Sources /\ "previous" \in C!Sources \ {"profile"}
        BY DEF C!Sources
      <3>2. QED
        BY <2>3, <3>1, NowGiven
    <2>5. PICK nx \in AttemptsOf(V) :
            /\ nx = [a EXCEPT !.stage = "status", !.given = g]
            /\ nx.stage = "status" /\ nx.given = g /\ nx.bound = a.bound
      <3>1. PICK mid \in AttemptsOf(V) :
              /\ mid = [a EXCEPT !.stage = "status"]
              /\ mid.stage = "status" /\ mid.bound = a.bound
        BY StageIs DEF Stages, Quiet
      <3>2. PICK nx \in AttemptsOf(V) :
              /\ nx = [mid EXCEPT !.given = g]
              /\ nx.stage = mid.stage /\ nx.given = g /\ nx.bound = mid.bound
        BY GivenIs
      <3>3. QED
        BY <3>1, <3>2
    <2>7. C!Moves(w, nx, {})
      BY <1>3, <2>12, <2>3, <2>4, <2>5
    <2>8. attempt'[w] = nx
      BY <2>1, <2>7 DEF C!Moves, Shaped
    <2>9. attempt[w].given["previous"] = Nothing
      BY <1>1 DEF CasInv, AttemptStands, StageStands
    <2>10. StageStands(w)'
      BY <1>3, <2>12, <2>3, <2>4, <2>5, <2>8, <2>9 DEF StageStands
    <2>11. QED
      BY <1>1, <1>3, <2>1, <2>2, <2>3, <2>5, <2>7, <2>10, GoesOn
  <1>4. QED
    BY <1>2, <1>3 DEF C!ProfileRead

LEMMA ReadStatusKeeps ==
  ASSUME CasInv, NEW w \in Workers, C!ReadStatus(w)
  PROVE  CasInv'
  <1>1. attempt[w].stage = "status" /\ UNCHANGED <<config, claim, stored, prompt>>
    BY DEF C!ReadStatus, C!Step, C!Kept
  <1>2. PICK T : Shaped(T)
    BY DEF CasInv
  <1>3. PICK a \in AttemptsOf(T) : a = attempt[w]
    BY <1>2 DEF Shaped
  <1>4. attempt[w].given["profile"] # Nothing /\ attempt[w].given["previous"] = Nothing
    BY <1>1 DEF CasInv, AttemptStands, StageStands
  <1>5. CASE C!Moves(w, [attempt[w] EXCEPT !.stage = "previous"], {0}) /\ UNCHANGED lost
    <2>1. PICK nx \in AttemptsOf(T) :
            /\ nx = [a EXCEPT !.stage = "previous"] /\ nx.stage = "previous"
            /\ nx.given = a.given /\ nx.bound = a.bound
      BY StageIs DEF Stages, Quiet
    <2>2. C!Moves(w, nx, {0}) /\ attempt'[w] = nx
      BY <1>2, <1>3, <1>5, <2>1 DEF C!Moves, Shaped
    <2>3. StageStands(w)'
      BY <1>3, <1>4, <2>1, <2>2 DEF StageStands
    <2>4. QED
      BY <1>1, <1>2, <1>3, <1>5, <2>1, <2>2, <2>3, GoesOn DEF Quiet
  <1>6. CASE /\ C!Moves(w, [attempt[w] EXCEPT !.stage = "done"], {})
             /\ lost' = (lost \/ prompt.status = "pending")
    <2>1. PICK nx \in AttemptsOf(T) :
            /\ nx = [a EXCEPT !.stage = "done"] /\ nx.stage = "done" /\ nx.bound = a.bound
      BY StageIs DEF Stages, Quiet
    <2>2. C!Moves(w, nx, {}) /\ attempt'[w] = nx
      BY <1>2, <1>3, <1>6, <2>1 DEF C!Moves, Shaped
    <2>3. StageStands(w)'
      BY <1>1, <1>6, <2>1, <2>2 DEF StageStands
    <2>4. lost => lost'
      BY <1>6
    <2>5. QED
      BY <1>1, <1>2, <1>3, <2>1, <2>2, <2>3, <2>4, GoesOn
  <1>7. CASE C!Errs(w) /\ UNCHANGED lost
    BY <1>1, <1>4, <1>7, ErrsKeeps
  <1>8. QED
    BY <1>5, <1>6, <1>7 DEF C!ReadStatus

LEMMA PreviousReadKeeps ==
  ASSUME CasInv, NEW w \in Workers, C!PreviousRead(w)
  PROVE  CasInv'
  <1>1. attempt[w].stage = "previous" /\ UNCHANGED <<config, claim, stored, lost, prompt>>
    BY DEF C!PreviousRead, C!Step, C!Kept
  <1>2. attempt[w].given["profile"] # Nothing /\ attempt[w].given["previous"] = Nothing
    BY <1>1 DEF CasInv, AttemptStands, StageStands
  <1>3. CASE C!Errs(w)
    BY <1>1, <1>2, <1>3, ErrsKeeps
  <1>4. CASE C!Moves(w, [attempt[w] EXCEPT !.stage = "chat",
                                          !.given = C!Given(w, "previous", call[w][0].text)], {0})
    <2>1. PICK T : Shaped(T)
      BY DEF CasInv
    <2>2. PICK V : \E v \in V : T \subseteq V /\ v = call[w][0].text
      <3>1. LET t == call[w][0].text IN t \in T \cup {t} /\ T \subseteq T \cup {t}
        OBVIOUS
      <3>2. QED
        BY <3>1
    <2>12. PICK text \in V : text = call[w][0].text
      BY <2>2
    <2>3. PICK a \in AttemptsOf(V) : a = attempt[w]
      BY <2>1, <2>2, ShapesGrow DEF Shaped
    <2>4. PICK g \in [C!Sources -> V] :
            /\ g = C!Given(w, "previous", text) /\ g["previous"] = text
            /\ g["profile"] = attempt[w].given["profile"]
      <3>1. "previous" \in C!Sources /\ "profile" \in C!Sources \ {"previous"}
        BY DEF C!Sources
      <3>2. QED
        BY <2>3, <3>1, NowGiven
    <2>5. PICK nx \in AttemptsOf(V) :
            /\ nx = [a EXCEPT !.stage = "chat", !.given = g]
            /\ nx.stage = "chat" /\ nx.given = g /\ nx.bound = a.bound
      <3>1. PICK mid \in AttemptsOf(V) :
              /\ mid = [a EXCEPT !.stage = "chat"]
              /\ mid.stage = "chat" /\ mid.bound = a.bound
        BY StageIs DEF Stages, Quiet
      <3>2. PICK nx \in AttemptsOf(V) :
              /\ nx = [mid EXCEPT !.given = g]
              /\ nx.stage = mid.stage /\ nx.given = g /\ nx.bound = mid.bound
        BY GivenIs
      <3>3. QED
        BY <3>1, <3>2
    <2>7. C!Moves(w, nx, {0})
      BY <1>4, <2>12, <2>3, <2>4, <2>5
    <2>8. attempt'[w] = nx
      BY <2>1, <2>7 DEF C!Moves, Shaped
    <2>9. StageStands(w)'
      BY <1>2, <2>3, <2>4, <2>5, <2>8 DEF StageStands
    <2>10. QED
      BY <1>1, <1>4, <2>1, <2>2, <2>3, <2>5, <2>7, <2>9, GoesOn DEF Quiet
  <1>5. QED
    BY <1>3, <1>4 DEF C!PreviousRead

LEMMA DraftedKeeps ==
  ASSUME CasInv, NEW w \in Workers, C!Drafted(w)
  PROVE  CasInv'
  <1>1. attempt[w].stage = "chat" /\ UNCHANGED <<config, claim, stored, lost>>
    BY DEF C!Drafted, C!Step, C!Kept
  <1>2. CASE C!Fails(w)
    BY <1>1, <1>2, FailureKeeps
  <1>3. ASSUME NEW draft, UNCHANGED prompt,
               C!Moves(w, [attempt[w] EXCEPT !.stage = "analysis", !.draft = draft], C!Lanes \ {0})
        PROVE  CasInv'
    <2>1. PICK T : Shaped(T)
      BY DEF CasInv
    <2>2. PICK V : T \subseteq V /\ draft \in V
      <3>1. T \subseteq T \cup {draft} /\ draft \in T \cup {draft}
        OBVIOUS
      <3>2. QED
        BY <3>1
    <2>3. PICK a \in AttemptsOf(V) : a = attempt[w]
      BY <2>1, <2>2, ShapesGrow DEF Shaped
    <2>4. PICK mid \in AttemptsOf(V) :
            /\ mid = [a EXCEPT !.stage = "analysis"] /\ mid.stage = "analysis"
            /\ mid.given = a.given /\ mid.bound = a.bound
      BY StageIs DEF Stages, Quiet
    <2>5. PICK nx \in AttemptsOf(V) :
            /\ nx = [mid EXCEPT !.draft = draft] /\ nx.stage = mid.stage
            /\ nx.given = mid.given /\ nx.bound = mid.bound
      BY <2>2, DraftIs
    <2>6. C!Moves(w, nx, C!Lanes \ {0})
      BY <1>3, <2>3, <2>4, <2>5
    <2>7. attempt'[w] = nx
      BY <2>1, <2>6 DEF C!Moves, Shaped
    <2>8. attempt[w].given["profile"] # Nothing
      BY <1>1 DEF CasInv, AttemptStands, StageStands
    <2>9. StageStands(w)'
      BY <2>3, <2>4, <2>5, <2>7, <2>8 DEF StageStands
    <2>10. QED
      BY <1>1, <1>3, <2>1, <2>2, <2>3, <2>4, <2>5, <2>6, <2>9, GoesOn DEF Quiet
  <1>4. QED
    BY <1>2, <1>3 DEF C!Drafted

(* The attempt goes on to `stage` from one of the model calls. *)
LEMMA AfterCalls ==
  ASSUME CasInv, NEW w \in Workers, attempt[w].stage \in {"analysis", "judge"},
         UNCHANGED <<config, claim, stored, lost, prompt>>,
         NEW T, Shaped(T), NEW V, T \subseteq V,
         NEW nx \in AttemptsOf(V), NEW lanes, C!Moves(w, nx, lanes),
         \/ nx.stage = "judge"
         \/ nx.stage = "return" /\ lanes = {},
         nx.given = attempt[w].given, nx.bound = attempt[w].bound
  PROVE  CasInv'
  <1>1. attempt'[w] = nx
    BY DEF C!Moves, Shaped
  <1>2. attempt[w].given["profile"] # Nothing
    BY DEF CasInv, AttemptStands, StageStands
  <1>3. StageStands(w)'
    BY <1>1, <1>2 DEF StageStands
  <1>4. QED
    BY <1>3, GoesOn DEF Quiet

LEMMA RefinedKeeps ==
  ASSUME CasInv, NEW w \in Workers, C!Refined(w)
  PROVE  CasInv'
  <1>1. attempt[w].stage = "analysis" /\ UNCHANGED <<config, claim, stored, lost>>
    BY DEF C!Refined, C!Step, C!Kept
  <1>2. CASE C!Fails(w)
    BY <1>1, <1>2, FailureKeeps
  <1>3. ASSUME NEW texts, UNCHANGED prompt,
               \/ C!Moves(w, [[attempt[w] EXCEPT !.refined = texts] EXCEPT !.stage = "judge"], {0})
               \/ C!Moves(w, [[attempt[w] EXCEPT !.refined = texts]
                               EXCEPT !.stage = "return",
                                      !.final = C!Fallback([attempt[w] EXCEPT !.refined = texts])], {})
        PROVE  CasInv'
    <2>1. PICK T : Shaped(T)
      BY DEF CasInv
    <2>2. PICK text : text = C!Fallback([attempt[w] EXCEPT !.refined = texts])
      OBVIOUS
    <2>3. PICK V : T \subseteq V /\ texts \in V /\ text \in V
      <3>1. T \subseteq T \cup {texts, text} /\ texts \in T \cup {texts, text}
            /\ text \in T \cup {texts, text}
        OBVIOUS
      <3>2. QED
        BY <3>1
    <2>4. PICK a \in AttemptsOf(V) : a = attempt[w]
      BY <2>1, <2>3, ShapesGrow DEF Shaped
    <2>5. PICK r \in AttemptsOf(V) :
            r = [a EXCEPT !.refined = texts] /\ r.given = a.given /\ r.bound = a.bound
      BY <2>3, RefinedIs
    <2>6. CASE C!Moves(w, [r EXCEPT !.stage = "judge"], {0})
      <3>1. PICK nx \in AttemptsOf(V) :
              /\ nx = [r EXCEPT !.stage = "judge"] /\ nx.stage = "judge"
              /\ nx.given = r.given /\ nx.bound = r.bound
        BY StageIs DEF Stages, Quiet
      <3>2. QED
        BY <1>1, <1>3, <2>1, <2>3, <2>4, <2>5, <2>6, <3>1, AfterCalls
    <2>7. CASE C!Moves(w, [r EXCEPT !.stage = "return", !.final = text], {})
      <3>1. PICK mid \in AttemptsOf(V) :
              /\ mid = [r EXCEPT !.stage = "return"] /\ mid.stage = "return"
              /\ mid.given = r.given /\ mid.bound = r.bound
        BY StageIs DEF Stages, Quiet
      <3>2. PICK nx \in AttemptsOf(V) :
              /\ nx = [mid EXCEPT !.final = text] /\ nx.stage = mid.stage
              /\ nx.given = mid.given /\ nx.bound = mid.bound
        BY <2>3, FinalIs
      <3>3. C!Moves(w, nx, {})
        BY <2>7, <3>1, <3>2
      <3>4. QED
        BY <1>1, <1>3, <2>1, <2>3, <2>4, <2>5, <3>1, <3>2, <3>3, AfterCalls
    <2>8. QED
      BY <1>3, <2>2, <2>4, <2>5, <2>6, <2>7
  <1>4. QED
    BY <1>2, <1>3 DEF C!Refined

LEMMA JudgedKeeps ==
  ASSUME CasInv, NEW w \in Workers, C!Judged(w)
  PROVE  CasInv'
  <1>1. attempt[w].stage = "judge" /\ UNCHANGED <<config, claim, stored, lost, prompt>>
    BY DEF C!Judged, C!Step, C!Kept
  <1>2. PICK text : C!Moves(w, [attempt[w] EXCEPT !.stage = "return", !.final = text], {})
    BY DEF C!Judged
  <1>3. PICK T : Shaped(T)
    BY DEF CasInv
  <1>4. PICK V : T \subseteq V /\ text \in V
    <2>1. T \subseteq T \cup {text} /\ text \in T \cup {text}
      OBVIOUS
    <2>2. QED
      BY <2>1
  <1>5. PICK a \in AttemptsOf(V) : a = attempt[w]
    BY <1>3, <1>4, ShapesGrow DEF Shaped
  <1>6. PICK mid \in AttemptsOf(V) :
          /\ mid = [a EXCEPT !.stage = "return"] /\ mid.stage = "return"
          /\ mid.given = a.given /\ mid.bound = a.bound
    BY StageIs DEF Stages, Quiet
  <1>7. PICK nx \in AttemptsOf(V) :
          /\ nx = [mid EXCEPT !.final = text] /\ nx.stage = mid.stage
          /\ nx.given = mid.given /\ nx.bound = mid.bound
    BY <1>4, FinalIs
  <1>8. C!Moves(w, nx, {})
    BY <1>2, <1>5, <1>6, <1>7
  <1>9. QED
    BY <1>1, <1>3, <1>4, <1>5, <1>6, <1>7, <1>8, AfterCalls

LEMMA ReturnKeeps ==
  ASSUME CasInv, NEW w \in Workers, C!Return(w)
  PROVE  CasInv'
  <1>1. attempt[w].stage = "return" /\ UNCHANGED <<config, claim, stored, lost>>
    BY DEF C!Return, C!Step, C!Kept
  <1>2. CASE C!Fails(w)
    BY <1>1, <1>2, FailureKeeps
  <1>3. CASE /\ C!Check(w) /\ UNCHANGED prompt
             /\ C!Moves(w, [attempt[w] EXCEPT !.stage = "publish"], {})
    <2>1. PICK T : Shaped(T)
      BY DEF CasInv
    <2>2. PICK a \in AttemptsOf(T) : a = attempt[w]
      BY <2>1 DEF Shaped
    <2>3. PICK nx \in AttemptsOf(T) :
            /\ nx = [a EXCEPT !.stage = "publish"] /\ nx.stage = "publish"
            /\ nx.given = a.given /\ nx.bound = a.bound /\ nx.broken = a.broken
      BY StageIs DEF Stages, Quiet
    <2>4. C!Moves(w, nx, {}) /\ attempt'[w] = nx
      BY <1>3, <2>1, <2>2, <2>3 DEF C!Moves, Shaped
    <2>5. attempt[w].given["profile"] # Nothing /\ attempt[w].broken = "no"
      BY <1>1, <1>3 DEF CasInv, AttemptStands, StageStands, C!Check
    <2>6. StageStands(w)'
      BY <2>2, <2>3, <2>4, <2>5 DEF StageStands
    <2>7. QED
      BY <1>1, <1>3, <2>1, <2>2, <2>3, <2>4, <2>6, GoesOn
  <1>4. QED
    BY <1>2, <1>3 DEF C!Return

LEMMA PublishesKeeps ==
  ASSUME CasInv, NEW w \in Workers, C!Publish(w)
  PROVE  CasInv'
  <1>1. attempt[w].stage = "publish" /\ UNCHANGED <<config, claim, stored, lost>>
    BY DEF C!Publish, C!Step, C!Kept
  <1>2. CASE attempt[w].broken = "canceled" /\ C!Errs(w) /\ UNCHANGED prompt
    BY <1>1, <1>2, ErrsKeeps
  <1>3. CASE C!Moves(w, [attempt[w] EXCEPT !.stage = "done"], {}) /\ C!Complete(w)
    <2>1. PICK T : Shaped(T)
      BY DEF CasInv
    <2>2. PICK a \in AttemptsOf(T) : a = attempt[w]
      BY <2>1 DEF Shaped
    <2>3. PICK nx \in AttemptsOf(T) :
            nx = [a EXCEPT !.stage = "done"] /\ nx.stage = "done" /\ nx.bound = a.bound
      BY StageIs DEF Stages, Quiet
    <2>4. C!Moves(w, nx, {}) /\ attempt'[w] = nx
      BY <1>3, <2>1, <2>2, <2>3 DEF C!Moves, Shaped
    <2>5. PICK text \in T : text = attempt[w].final
      BY <2>2 DEF AttemptsOf
    <2>6. \/ prompt' = prompt /\ prompt.status # "pending"
          \/ prompt' \in PromptsOf(T) /\ prompt'.status = "done"
      BY <1>3, <2>5 DEF C!Complete, PromptsOf
    <2>7. StageStands(w)'
      BY <2>3, <2>4, <2>6 DEF StageStands
    <2>8. QED
      BY <1>1, <2>1, <2>2, <2>3, <2>4, <2>6, <2>7, GoesOn
  <1>4. QED
    BY <1>2, <1>3 DEF C!Publish

LEMMA FinishesKeeps ==
  ASSUME CasInv, NEW w \in Workers, C!Finish(w)
  PROVE  CasInv'
  <1>1. /\ attempt[w].stage \in {"done", "failed"} /\ attempt' = [attempt EXCEPT ![w] = C!Idle]
        /\ UNCHANGED <<config, prompt, call>>
        /\ claim # w => UNCHANGED <<task, claim, stored>>
        /\ claim = w => claim' = Nothing
        /\ lost' = (lost \/ (task' = "over" /\ prompt.status = "pending" /\ C!Unwritten(w)))
    BY DEF C!Finish, C!Step
  <1>2. PICK T : Shaped(T)
    BY DEF CasInv
  <1>3. PICK U : T \subseteq U /\ C!Idle \in AttemptsOf(U) /\ C!Idle.stage = "idle"
    BY <1>2, IdleIs DEF Shaped
  <1>4. PICK cs \in [C!Lanes -> CallsOf(U)] : cs = call[w]
    BY <1>2, <1>3, ShapesGrow DEF Shaped
  <1>5. call' = [call EXCEPT ![w] = cs] /\ \A l \in C!Lanes : cs[l].at = "rest"
    BY <1>1, <1>2, <1>4 DEF Shaped, CasInv, AttemptStands, CallsRest, Quiet
  <1>6. prompt \in PromptsOf(U) /\ prompt.status # "none"
        /\ (prompt.korean # Nothing => prompt.status = "done")
    BY <1>1, <1>2, <1>3, ShapesGrow DEF Shaped, CasInv, PromptStands
  <1>7. task' = "over" /\ prompt.status = "pending" => lost'
    BY <1>1 DEF CasInv, AttemptStands, StageStands
  <1>8. attempt'[w] = C!Idle
    BY <1>1, <1>2 DEF Shaped
  <1>9. StageStands(w)'
    <2>1. C!Idle.given["previous"] = Nothing
      BY DEF C!Idle, C!Sources
    <2>2. QED
      BY <1>3, <1>8, <2>1 DEF StageStands
  <1>10. C!Settled'
    BY <1>1, <1>7 DEF C!Settled
  <1>11. (lost => lost') /\ claim' # w /\ \A v \in Workers \ {w} : claim' = v => claim = v /\ stored' = stored
    BY <1>1, CascadeAssumption
  <1>12. PICK nx \in AttemptsOf(U) : nx = C!Idle /\ nx.stage = "idle"
    BY <1>3
  <1>13. /\ attempt' = [attempt EXCEPT ![w] = nx] /\ UNCHANGED config
         /\ prompt' \in PromptsOf(U) /\ prompt'.status # "none"
         /\ prompt'.status = "pending" => prompt.status = "pending"
         /\ prompt'.korean # Nothing => prompt'.status = "done"
    BY <1>1, <1>6, <1>12
  <1>14. \A l \in C!Lanes : cs[l].at = "rest" \/ (cs[l].at = "started" /\ nx.stage \notin Quiet)
    BY <1>5
  <1>15. QED
    BY <1>2, <1>3, <1>5, <1>9, <1>10, <1>11, <1>13, <1>14, TurnKeeps

-----------------------------------------------------------------------------
(* The request, and the queue. *)
LEMMA DrawKeeps ==
  ASSUME CasInv, C!Draw
  PROVE  CasInv'
  <1>1. /\ UNCHANGED <<config, claim, stored, attempt, call>>
        /\ prompt.status = "none" /\ prompt' = [prompt EXCEPT !.status = "pending"]
        /\ task' = "over" => lost'
    BY DEF C!Draw
  <1>2. PICK T : Shaped(T)
    BY DEF CasInv
  <1>3. prompt' \in PromptsOf(T) /\ prompt'.status = "pending" /\ prompt'.korean = prompt.korean
    BY <1>1, <1>2 DEF Shaped, PromptsOf
  <1>4. Shaped(T)'
    BY <1>1, <1>2, <1>3 DEF Shaped, C!Lanes
  <1>5. C!Lanes' = C!Lanes
    BY <1>1 DEF C!Lanes
  <1>6. ASSUME NEW w \in Workers PROVE AttemptStands(w)'
    <2>1. attempt[w].stage = "idle" /\ AttemptStands(w)
      BY <1>1 DEF CasInv, PromptStands
    <2>2. claim # w /\ \A l \in C!Lanes : call[w][l].at = "rest"
      BY <2>1 DEF AttemptStands, Owns, CallsRest, Quiet
    <2>3. StageStands(w)'
      BY <1>1, <2>1 DEF StageStands
    <2>4. QED
      BY <1>1, <1>5, <2>1, <2>2, <2>3 DEF AttemptStands, CallsRest, Owns, Apart, Busy, Reuses
  <1>7. prompt.korean = Nothing
    BY <1>1 DEF CasInv, PromptStands
  <1>8. PromptStands'
    BY <1>1, <1>3, <1>7 DEF PromptStands, C!Settled
  <1>9. QED
    BY <1>1, <1>4, <1>6, <1>8 DEF CasInv

(* A step that leaves every attempt alone. *)
LEMMA WorldKeeps ==
  ASSUME CasInv, UNCHANGED <<config, attempt, call, lost>>, NEW T, Shaped(T), prompt' \in PromptsOf(T),
         prompt'.status = "pending" => prompt.status = "pending", prompt'.status = "none" => FALSE,
         prompt'.korean # Nothing => prompt'.status = "done",
         \A v \in Workers : claim' = v => claim = v /\ stored' = stored,
         task' = "over" => task = "over"
  PROVE  CasInv'
  <1>1. Shaped(T)'
    BY DEF Shaped, C!Lanes
  <1>2. \A v \in Workers : AttemptStands(v)'
    BY OthersStand DEF CasInv
  <1>3. PromptStands'
    BY DEF CasInv, PromptStands, C!Settled, C!Step
  <1>4. QED
    BY <1>1, <1>2, <1>3 DEF CasInv

LEMMA DeletesKeeps ==
  ASSUME CasInv, C!Delete
  PROVE  CasInv'
  <1>1. /\ UNCHANGED <<config, task, claim, stored, attempt, call, lost>>
        /\ prompt' = [status |-> "deleted", korean |-> Nothing]
    BY DEF C!Delete
  <1>2. PICK T : Shaped(T)
    BY DEF CasInv
  <1>3. prompt' \in PromptsOf(T) /\ prompt'.status = "deleted" /\ prompt'.korean = Nothing
    BY <1>1, <1>2 DEF Shaped, PromptsOf
  <1>4. QED
    BY <1>1, <1>2, <1>3, WorldKeeps

LEMMA CasRests ==
  ASSUME CasInv, UNCHANGED <<config, prompt, task, claim, stored, attempt, call, lost>>
  PROVE  CasInv'
  <1>1. \A T : Shaped(T) => Shaped(T)'
    BY DEF Shaped, C!Lanes
  <1>2. \A v \in Workers : AttemptStands(v)'
    BY OthersStand DEF CasInv
  <1>3. PromptStands'
    BY DEF CasInv, PromptStands, C!Settled, C!Step
  <1>4. QED
    BY <1>1, <1>2, <1>3 DEF CasInv

LEMMA StartKeeps ==
  ASSUME CasInv, NEW w \in Workers, NEW bound \in BOOLEAN, NEW strict \in BOOLEAN,
         C!Start(w, bound, strict), UNCHANGED <<config, prompt, lost>>, task # "none",
         \A v \in Workers \ {w} : claim' = v => claim = v /\ stored' = stored,
         claim' = w => bound
  PROVE  CasInv'
  <1>1. PICK T : Shaped(T)
    BY DEF CasInv
  <1>2. PICK U : T \subseteq U /\ C!Idle \in AttemptsOf(U)
    BY <1>1, IdleIs DEF Shaped
  <1>2a. C!Idle.given["previous"] = Nothing
    BY DEF C!Idle, C!Sources
  <1>3. PICK nx \in AttemptsOf(U) :
           /\ nx = [C!Idle EXCEPT !.bound = bound, !.strict = strict, !.stage = "profile"]
           /\ nx.stage = "profile" /\ nx.bound = bound /\ nx.given["previous"] = Nothing
    <2>1. PICK z \in AttemptsOf(U) : z = C!Idle
      BY <1>2
    <2>2. [z EXCEPT !.bound = bound, !.strict = strict, !.stage = "profile"] \in AttemptsOf(U)
      BY DEF AttemptsOf, Stages, Quiet
    <2>3. /\ [z EXCEPT !.bound = bound, !.strict = strict, !.stage = "profile"].stage = "profile"
          /\ [z EXCEPT !.bound = bound, !.strict = strict, !.stage = "profile"].bound = bound
          /\ [z EXCEPT !.bound = bound, !.strict = strict, !.stage = "profile"].given = z.given
      BY DEF AttemptsOf
    <2>4. QED
      BY <2>1, <2>2, <2>3, <1>2a
  <1>4. C!Moves(w, nx, {0})
    BY <1>3 DEF C!Start
  <1>5. attempt'[w] = nx
    BY <1>1, <1>4 DEF C!Moves, Shaped
  <1>6. StageStands(w)'
    BY <1>3, <1>5 DEF StageStands
  <1>7. C!Settled'
    BY <1>3, <1>5 DEF C!Settled, C!Step
  <1>8. prompt \in PromptsOf(U) /\ prompt.status # "none"
        /\ (prompt.korean # Nothing => prompt.status = "done")
    BY <1>1, <1>2, ShapesGrow DEF Shaped, CasInv, PromptStands
  <1>9. /\ prompt' \in PromptsOf(U) /\ prompt'.status # "none"
        /\ prompt'.status = "pending" => prompt.status = "pending"
        /\ prompt'.korean # Nothing => prompt'.status = "done"
    BY <1>8
  <1>10. nx.stage \notin Quiet /\ nx.stage # "idle" /\ (claim' = w => nx.bound)
    BY <1>3 DEF Quiet
  <1>11. QED
    BY <1>1, <1>2, <1>3, <1>4, <1>6, <1>7, <1>9, <1>10, MoveKeeps

LEMMA TakesKeeps ==
  ASSUME CasInv, NEW w \in Workers, C!Take(w)
  PROVE  CasInv'
  <1>1. /\ UNCHANGED <<config, prompt, stored, lost>> /\ task = "queued" /\ claim' = w
        /\ \E strict \in {FALSE, config.deploy} : C!Start(w, TRUE, strict)
    BY DEF C!Take
  <1>2. config.deploy \in BOOLEAN
    BY CascadeAssumption DEF CasInv
  <1>3. QED
    BY <1>1, <1>2, StartKeeps

LEMMA RunInlineKeeps ==
  ASSUME CasInv, NEW w \in Workers, C!RunInline(w)
  PROVE  CasInv'
  <1>1. /\ UNCHANGED <<config, prompt, claim, stored, lost>> /\ task = "inline"
        /\ C!Start(w, FALSE, FALSE)
    BY DEF C!RunInline
  <1>2. claim # w
    BY <1>1 DEF CasInv, AttemptStands, Owns, C!Start, C!Step
  <1>3. QED
    BY <1>1, <1>2, StartKeeps

LEMMA LoseClaimKeeps ==
  ASSUME CasInv, NEW w \in Workers, C!LoseClaim(w)
  PROVE  CasInv'
  <1>1. /\ UNCHANGED <<config, prompt, stored, lost>> /\ claim = w /\ claim' = Nothing
        /\ task' = "queued"
        /\ C!Moves(w, C!Idle, {}) \/ UNCHANGED <<attempt, call>>
    BY DEF C!LoseClaim
  <1>2. \A v \in Workers : claim' # v
    BY <1>1, CascadeAssumption
  <1>3. PICK T : Shaped(T)
    BY DEF CasInv
  <1>4. prompt.status # "none" /\ (prompt.korean # Nothing => prompt.status = "done")
    BY <1>1 DEF CasInv, PromptStands, AttemptStands, Owns
  <1>5. CASE UNCHANGED <<attempt, call>>
    <2>1. /\ prompt' \in PromptsOf(T) /\ prompt'.status # "none"
          /\ prompt'.status = "pending" => prompt.status = "pending"
          /\ prompt'.korean # Nothing => prompt'.status = "done"
      BY <1>1, <1>3, <1>4 DEF Shaped
    <2>2. QED
      BY <1>1, <1>2, <1>3, <1>5, <2>1, WorldKeeps
  <1>6. CASE C!Moves(w, C!Idle, {})
    <2>1. PICK U : T \subseteq U /\ C!Idle \in AttemptsOf(U) /\ C!Idle.stage = "idle"
      BY <1>3, IdleIs DEF Shaped
    <2>2. PICK nx \in AttemptsOf(U) : nx = C!Idle /\ nx.stage = "idle"
      BY <2>1
    <2>3. C!Moves(w, nx, {}) /\ attempt'[w] = nx
      BY <1>3, <1>6, <2>2 DEF C!Moves, Shaped
    <2>4. C!Idle.given["previous"] = Nothing
      BY DEF C!Idle, C!Sources
    <2>5. StageStands(w)'
      BY <2>2, <2>3, <2>4 DEF StageStands
    <2>6. C!Settled'
      BY <1>1 DEF C!Settled
    <2>7. /\ prompt' \in PromptsOf(U) /\ prompt'.status # "none"
          /\ prompt'.status = "pending" => prompt.status = "pending"
          /\ prompt'.korean # Nothing => prompt'.status = "done"
      BY <1>1, <1>3, <1>4, <2>1, ShapesGrow DEF Shaped
    <2>8. QED
      BY <1>1, <1>2, <1>3, <2>1, <2>2, <2>3, <2>5, <2>6, <2>7, MoveKeeps
  <1>7. QED
    BY <1>1, <1>5, <1>6

LEMMA CanceledKeeps ==
  ASSUME CasInv, NEW w \in Workers, C!Canceled(w)
  PROVE  CasInv'
  <1>1. /\ UNCHANGED <<config, prompt, task, claim, stored, call, lost>>
        /\ claim # w /\ attempt' = [attempt EXCEPT ![w].broken = "canceled"]
    BY DEF C!Canceled
  <1>2. PICK T : Shaped(T)
    BY DEF CasInv
  <1>3. PICK a \in AttemptsOf(T) : a = attempt[w]
    BY <1>2 DEF Shaped
  <1>4. PICK nb \in AttemptsOf(T) :
          /\ nb = [a EXCEPT !.broken = "canceled"] /\ nb.broken = "canceled"
          /\ nb.stage = a.stage /\ nb.given = a.given /\ nb.draft = a.draft
          /\ nb.refined = a.refined /\ nb.bound = a.bound
    BY BreakIs
  <1>5. attempt' = [attempt EXCEPT ![w] = nb]
    BY <1>1, <1>3, <1>4
  <1>6. /\ attempt'[w] = nb /\ Shaped(T)' /\ C!Lanes' = C!Lanes
        /\ \A v \in Workers \ {w} : attempt'[v] = attempt[v]
    BY <1>1, <1>2, <1>5 DEF Shaped, C!Lanes
  <1>7. AttemptStands(w)'
    <2>1. \A l : C!Key(w, l)' = C!Key(w, l)
      BY <1>1, <1>3, <1>4, <1>6, KeyKeeps
    <2>2. StageStands(w)'
      BY <1>1, <1>3, <1>4, <1>6 DEF CasInv, AttemptStands, StageStands, C!Unwritten
    <2>3. CallsRest(w)' /\ Owns(w)' /\ Reuses(w)'
      BY <1>1, <1>3, <1>4, <1>6 DEF CasInv, AttemptStands, CallsRest, Owns, Reuses
    <2>4. Apart(w)'
      BY <1>1, <1>6, <2>1 DEF CasInv, AttemptStands, Apart, Busy
    <2>5. QED
      BY <2>2, <2>3, <2>4 DEF AttemptStands
  <1>8. \A v \in Workers \ {w} : AttemptStands(v)'
    BY <1>1, <1>6, OthersStand DEF CasInv
  <1>9. PromptStands'
    <2>1. \A v \in Workers : attempt'[v].stage = attempt[v].stage
      BY <1>3, <1>4, <1>6
    <2>2. QED
      BY <1>1, <2>1 DEF CasInv, PromptStands, C!Settled, C!Step
  <1>10. QED
    BY <1>1, <1>6, <1>7, <1>8, <1>9 DEF CasInv

LEMMA CasNext ==
  ASSUME CasInv, [C!Next]_(C!vars)
  PROVE  CasInv'
  <1>1. CASE UNCHANGED C!vars
    BY <1>1, CasRests DEF C!vars
  <1>2. CASE C!Draw \/ C!Delete
    BY <1>2, DrawKeeps, DeletesKeeps
  <1>3. ASSUME NEW i \in C!Sources, C!Change(i) PROVE CasInv'
    BY <1>3, CasRests DEF C!Change
  <1>4. ASSUME NEW w \in Workers,
               C!Take(w) \/ C!RunInline(w) \/ C!LoseClaim(w) \/ C!Canceled(w)
        PROVE  CasInv'
    BY <1>4, TakesKeeps, RunInlineKeeps, LoseClaimKeeps, CanceledKeeps
  <1>5. ASSUME NEW w \in Workers, NEW l \in C!Lanes,
               C!Load(w, l) \/ C!Discard(w, l) \/ C!Ask(w, l) \/ C!Save(w, l)
        PROVE  CasInv'
    BY <1>5, LoadKeeps, DiscardKeeps, AskKeeps, StepSaveKeeps
  <1>6. ASSUME NEW w \in Workers,
               \/ C!ProfileRead(w) \/ C!ReadStatus(w) \/ C!PreviousRead(w) \/ C!Drafted(w)
               \/ C!Refined(w) \/ C!Judged(w) \/ C!Return(w) \/ C!Publish(w) \/ C!Finish(w)
        PROVE  CasInv'
    BY <1>6, ProfileReadKeeps, ReadStatusKeeps, PreviousReadKeeps, DraftedKeeps, RefinedKeeps,
       JudgedKeeps, ReturnKeeps, PublishesKeeps, FinishesKeeps
  <1>7. QED
    BY <1>1, <1>2, <1>3, <1>4, <1>5, <1>6 DEF C!Next, C!Works

(* The invariant of the cascade of model calls, for any models, attempts    *)
(* and sentences.                                                          *)
THEOREM CascadeInvariant == C!Spec => []CasInv
  <1>1. C!Init => CasInv
    BY CasInit
  <1>2. CasInv /\ [C!Next]_(C!vars) => CasInv'
    BY CasNext
  <1>3. QED
    BY <1>1, <1>2, PTL DEF C!Spec

LEMMA CascadeOfRooms == RoomsSpec => C!Spec
  <1>1. RoomsInit => C!Init
    BY DEF RoomsInit
  <1>2. [RoomsNext]_<<part, vars, endings, cascade, recordings>> => [C!Next]_(C!vars)
    BY DEF RoomsNext, cascade, C!vars
  <1>3. QED
    BY <1>1, <1>2, PTL DEF RoomsSpec, C!Spec

(* What an attempt carries from a step to the next is what a retry will     *)
(* find: Do persists a result before it is handed on, and replays it.      *)
THEOREM WorkIsReused == RoomsSpec => []WorkReused
  <1>1. CasInv => WorkReused
    BY DEF CasInv, AttemptStands, Reuses, StepStands, WorkReused, C!WorkReused
  <1>2. QED
    BY <1>1, CascadeOfRooms, CascadeInvariant, PTL

(* A prompt whose job is over does not stay pending unless nobody could     *)
(* write it: Finish ends a job only after its attempt wrote its error.     *)
THEOREM PromptIsSettled == RoomsSpec => []Settled
  <1>1. CasInv => Settled
    BY DEF CasInv, PromptStands, Settled
  <1>2. QED
    BY <1>1, CascadeOfRooms, CascadeInvariant, PTL

(* Complete writes a row once, and only from a living attempt's Publish.   *)
LEMMA CompletesOnce ==
  ASSUME CasInv, [C!Next]_(C!vars), prompt'.korean \notin {prompt.korean, Nothing}
  PROVE  /\ prompt.korean = Nothing
         /\ \E w \in Workers : /\ C!Step(w) = "publish" /\ attempt[w].broken = "no"
                               /\ attempt[w].final = prompt'.korean
  <1>1. PICK T : Shaped(T)
    BY DEF CasInv
  <1>2. prompt' # prompt /\ (prompt' = [prompt EXCEPT !.status = "failed"] => FALSE)
        /\ (prompt' = [prompt EXCEPT !.status = "pending"] => FALSE)
        /\ (prompt' = [status |-> "deleted", korean |-> Nothing] => FALSE)
    BY <1>1 DEF Shaped, PromptsOf
  <1>3. \A w \in Workers : ~ C!Fails(w)
    BY <1>2 DEF C!Fails
  <1>4. C!Next
    BY <1>2 DEF C!vars
  <1>5. PICK w \in Workers : C!Publish(w)
    <2>1. ~ C!Draw /\ ~ C!Delete /\ \A i \in C!Sources : ~ C!Change(i)
      BY <1>2 DEF C!Draw, C!Delete, C!Change
    <2>2. \A w \in Workers : ~ C!Take(w) /\ ~ C!RunInline(w) /\ ~ C!LoseClaim(w) /\ ~ C!Canceled(w)
      BY <1>2 DEF C!Take, C!RunInline, C!LoseClaim, C!Canceled
    <2>3. ASSUME NEW w \in Workers, NEW l \in C!Lanes
          PROVE  ~ C!Load(w, l) /\ ~ C!Discard(w, l) /\ ~ C!Ask(w, l) /\ ~ C!Save(w, l)
      <3>1. ~ C!Load(w, l)
        BY <1>2 DEF C!Load
      <3>2. ~ C!Discard(w, l)
        BY <1>2 DEF C!Discard
      <3>3. ~ C!Ask(w, l)
        BY <1>2 DEF C!Ask
      <3>4. ~ C!Save(w, l)
        BY <1>2 DEF C!Save
      <3>5. QED
        BY <3>1, <3>2, <3>3, <3>4
    <2>4. ASSUME NEW w \in Workers
          PROVE  /\ ~ C!ProfileRead(w) /\ ~ C!ReadStatus(w) /\ ~ C!PreviousRead(w)
                 /\ ~ C!Drafted(w) /\ ~ C!Refined(w) /\ ~ C!Judged(w) /\ ~ C!Return(w)
                 /\ ~ C!Finish(w)
      <3>1. ~ C!ProfileRead(w)
        BY <1>2, <1>3 DEF C!ProfileRead
      <3>2. ~ C!ReadStatus(w) /\ ~ C!PreviousRead(w)
        BY <1>2 DEF C!ReadStatus, C!PreviousRead
      <3>3. ~ C!Drafted(w)
        BY <1>2, <1>3 DEF C!Drafted
      <3>4. ~ C!Refined(w)
        BY <1>2, <1>3 DEF C!Refined
      <3>5. ~ C!Judged(w) /\ ~ C!Finish(w)
        BY <1>2 DEF C!Judged, C!Finish
      <3>6. ~ C!Return(w)
        BY <1>2, <1>3 DEF C!Return
      <3>7. QED
        BY <3>1, <3>2, <3>3, <3>4, <3>5, <3>6
    <2>5. QED
      BY <1>4, <2>1, <2>2, <2>3, <2>4 DEF C!Next, C!Works
  <1>6. /\ C!Step(w) = "publish" /\ attempt[w].broken # "canceled"
        /\ prompt.status \in {"pending", "failed"}
        /\ prompt' = [status |-> "done", korean |-> attempt[w].final]
    BY <1>2, <1>5 DEF C!Publish, C!Complete
  <1>7. attempt[w].broken = "no" /\ prompt.korean = Nothing
    BY <1>6 DEF CasInv, PromptStands, AttemptStands, StageStands, C!Step
  <1>8. QED
    BY <1>6, <1>7

(* The learner's sentence is published once, whatever attempts overlap, and *)
(* never by one whose checkpoints failed or whose context is canceled.     *)
THEOREM PublishesOnce == RoomsSpec => PublishedOnce
  <1> DEFINE Once == prompt'.korean \notin {prompt.korean, Nothing} =>
                       /\ prompt.korean = Nothing
                       /\ \E w \in Workers : /\ C!Step(w) = "publish"
                                             /\ attempt[w].broken = "no"
                                             /\ attempt[w].final = prompt'.korean
  <1>1. CasInv /\ [C!Next]_(C!vars) => [Once]_prompt
    BY CompletesOnce
  <1>2. C!Spec => [][Once]_prompt
    BY <1>1, CascadeInvariant, PTL DEF C!Spec
  <1>3. QED
    BY <1>2, CascadeOfRooms DEF PublishedOnce, C!PublishedOnce
=============================================================================
