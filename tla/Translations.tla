---------------------------- MODULE Translations ----------------------------
(***************************************************************************)
(* The native-language translations of one room's turns.  A turn is        *)
(* translated by a job of its own while the conversation goes on           *)
(* (pipeline/pipeline_translation.go, transport/analysis_jobs.go and       *)
(* ws_persist.go); and whoever views the room while one is missing queues  *)
(* a pass over all of it (httpserver/sessions_detail.go,                   *)
(* backfill/backfill.go), which translates, or corrects and translates.    *)
(* SaveTranslation is a plain UPDATE (store/mysql_turns.go).               *)
(***************************************************************************)
EXTENDS Naturals, FiniteSets

CONSTANTS
  Turns,    \* their numbers
  Workers,  \* passes that may run at a time
  None,
  Follows   \* bound: which turns are said, which are of the learner, which have
            \* a job of their own, and how many views and faults there are

VARIABLES
  follow,
  unsaved,      \* turns that were said, and whose SaveTurn is under way
  transcript,   \* what MySQL has of each turn: whether it was saved, its
                \* translation, and whether it has a correction or a job for it
  replica,      \* what the replica has
  live,         \* the turn's own job: where it is, the answer its attempt has,
                \* and whether Judge's was kept
  late,         \* detached writes that are under way
  job,          \* per kind of pass: the room's job in the queue
  run,          \* what each worker does
  owed, filled, \* history: the turns that the queued pass of translation is to
                \* translate, and those of passes in which nothing failed
  rivals,       \* history: turns that had, as they were translated, another
                \* writer that had not seen it
  views, faults

vars == <<follow, unsaved, transcript, replica, live, late, job, run, owed, filled, rivals,
          views, faults>>

Kinds == {"translate", "correct"}
Renderings == {"draft", "refined", "judged"}

Fault == faults < follow.faults /\ faults' = faults + 1

Absent == [saved |-> FALSE, translation |-> None, corrected |-> FALSE]

Init ==
  /\ follow \in Follows
  /\ unsaved = {}
  /\ transcript = [t \in Turns |-> Absent] /\ replica = transcript
  /\ live = [t \in Turns |-> [at |-> "unsaid", answer |-> None, kept |-> FALSE]]
  /\ late = [t \in Turns |-> {}]
  /\ job = [k \in Kinds |-> "none"]
  /\ run = [w \in Workers |-> None]
  /\ owed = {} /\ filled = {} /\ rivals = {}
  /\ views = 0 /\ faults = 0

-----------------------------------------------------------------------------
(* Writers that will write a translation of the turn, and have not seen it. *)

Pending(w, t) ==
  run[w] # None /\ t \in run[w].todo /\ run[w].seen[t].translation = None
Working(t) == live[t].at \notin {"unsaid", "end"} \/ late[t] \cap Renderings # {}

(* Of the turn's own, a learner's preview is to yield to the others.        *)
Rivalled(t, value) ==
  \/ \E w \in Workers : Pending(w, t)
  \/ ~ (t \in follow.user /\ value = "draft") /\ ~ (late[t] \cap Renderings \subseteq {value})

(* An UPDATE of a turn that is not saved yet is lost. *)
SaveTranslation(t, value, others) ==
  IF transcript[t].saved
  THEN /\ transcript' = [transcript EXCEPT ![t].translation = value]
       /\ rivals' = IF transcript[t].translation = None /\ others THEN rivals \cup {t}
                    ELSE rivals
  ELSE UNCHANGED <<transcript, rivals>>

SaveCorrection(t) ==
  transcript' = [transcript EXCEPT ![t].corrected = @ \/ transcript[t].saved]

-----------------------------------------------------------------------------
(* The conversation. *)

Goes(t, at) == live' = [live EXCEPT ![t].at = at]
Passes == <<job, run, owed, filled, views>>

(* The learner's turn is first checked by Chat.                             *)
Say(t) ==
  /\ t \in follow.said /\ live[t].at = "unsaid"
  /\ \A u \in follow.said : u < t => live[u].at # "unsaid"
  /\ unsaved' = unsaved \cup {t}
  /\ Goes(t, IF t \notin follow.live THEN "end"
             ELSE IF t \in follow.user THEN "checking" ELSE "working")
  /\ UNCHANGED <<follow, transcript, replica, late, Passes, rivals, faults>>

(* A detached goroutine saves the turn.                                     *)
SaveTurn(t) ==
  /\ t \in unsaved /\ unsaved' = unsaved \ {t}
  /\ transcript' = [transcript EXCEPT ![t].saved = TRUE]
  /\ UNCHANGED <<follow, replica, live, late, Passes, rivals, faults>>

(* What Chat made of it is shown and saved, detached: unless Chat fails.    *)
Preview(t) ==
  /\ live[t].at = "checking" /\ Goes(t, "drafted")
  /\ \/ late' = [late EXCEPT ![t] = {"correction", "draft"}] /\ UNCHANGED faults
     \/ Fault /\ UNCHANGED late
  /\ UNCHANGED <<follow, unsaved, transcript, replica, Passes, rivals>>

(* The turn's job is enqueued, and has a row, which a view will find even   *)
(* before the turn; a row that cannot be written is done without.           *)
ReserveJob(t) ==
  /\ live[t].at = "drafted" /\ Goes(t, "working")
  /\ \/ transcript' = [transcript EXCEPT ![t].corrected = TRUE] /\ UNCHANGED faults
     \/ Fault /\ UNCHANGED transcript
  /\ UNCHANGED <<follow, unsaved, replica, late, Passes, rivals>>

(* An attempt has Judge's answer, of which a checkpoint is kept; or, when   *)
(* Judge fails, a refinement or Chat's draft, of which there is none; and   *)
(* saves a correction.  Or every attempt fails.                             *)
Answer(t) ==
  /\ live[t].at = "working"
  /\ \/ /\ live' = [live EXCEPT ![t] = [at |-> "answered", answer |-> "judged", kept |-> TRUE]]
        /\ UNCHANGED faults
     \/ /\ ~ live[t].kept /\ Fault
        /\ \E text \in {"draft", "refined"} :
             live' = [live EXCEPT ![t].at = "answered", ![t].answer = text]
     \/ Goes(t, "end") /\ Fault
  /\ IF t \in follow.user /\ live'[t].at = "answered" THEN SaveCorrection(t)
     ELSE UNCHANGED transcript
  /\ UNCHANGED <<follow, unsaved, replica, late, Passes, rivals>>

(* Its translation is saved.  That it was not is the end of the attempt but *)
(* for a correction's.                                                     *)
TranslateLive(t) ==
  /\ live[t].at = "answered" /\ Goes(t, "told")
  /\ \/ SaveTranslation(t, live[t].answer, Rivalled(t, live[t].answer)) /\ UNCHANGED faults
     \/ t \in follow.user /\ Fault /\ UNCHANGED <<transcript, rivals>>
  /\ UNCHANGED <<follow, unsaved, replica, late, Passes>>

(* Whoever is connected is told, and the event is persisted once more.      *)
PersistEvent(t) ==
  /\ live[t].at = "told" /\ Goes(t, "end")
  /\ late' \in {late, [late EXCEPT ![t] = @ \cup {live[t].answer}]}
  /\ UNCHANGED <<follow, unsaved, transcript, replica, Passes, rivals, faults>>

(* The attempt fails or loses its claim, and another takes its checkpoints  *)
(* up.  It may have told its answer, or be going to write it still: which,  *)
(* if it is not Judge's, may not be the other's.                            *)
LoseLive(t) ==
  /\ live[t].at \in {"answered", "told"} /\ Fault
  /\ live' = [live EXCEPT ![t].at = "working", ![t].answer = None]
  /\ late' \in {late, [late EXCEPT ![t] = @ \cup {live[t].answer}]}
  /\ rivals' = IF /\ live[t].answer \in {"draft", "refined"}
                  /\ live[t].at = "told" \/ late' # late
               THEN rivals \cup {t} ELSE rivals
  /\ UNCHANGED <<follow, unsaved, transcript, replica, Passes>>

(* A detached write, in any order.                                          *)
SaveLate(t, what) ==
  /\ what \in late[t] /\ late' = [late EXCEPT ![t] = @ \ {what}]
  /\ IF what = "correction" THEN SaveCorrection(t) /\ UNCHANGED rivals
     ELSE SaveTranslation(t, what, Rivalled(t, what))
  /\ UNCHANGED <<follow, unsaved, replica, live, Passes, faults>>

Replicate ==
  /\ replica # transcript /\ replica' = transcript
  /\ UNCHANGED <<follow, unsaved, transcript, live, late, Passes, rivals, faults>>

-----------------------------------------------------------------------------
(* Passes over the room. *)

Saved == {t \in Turns : replica[t].saved}
Missing(t) == replica[t].translation = None
Uncorrected(t) == t \in follow.user /\ ~replica[t].corrected

(* A page, which here is one turn; also a mutation of Loaded. *)
LatestPage == {t \in Saved : \A u \in Saved : u <= t}

(* The room, or its latest page, is shown as the replica has it.  A pass is *)
(* queued unless the room has one queued or under way; an enqueue that      *)
(* fails is logged.                                                        *)
View(page) ==
  LET wants == {k \in Kinds : \E t \in page : IF k = "translate" THEN Missing(t)
                                              ELSE Uncorrected(t)}
      queued == {k \in wants : job[k] = "none"}
  IN
  /\ views < follow.views /\ views' = views + 1
  /\ \/ /\ job' = [k \in Kinds |-> IF k \in queued THEN "queued" ELSE job[k]]
        /\ owed' = IF "translate" \in queued THEN {t \in Saved : Missing(t)} ELSE owed
        /\ UNCHANGED faults
     \/ wants # {} /\ Fault /\ UNCHANGED <<job, owed>>
  /\ UNCHANGED <<follow, unsaved, transcript, replica, live, late, run, filled, rivals>>

Loaded == Saved

(* A worker claims the job and reads the whole room.  It goes through the   *)
(* turns in their order.                                                   *)
Take(w, k) ==
  /\ run[w] = None /\ job[k] = "queued"
  /\ \/ /\ job' = [job EXCEPT ![k] = "running"]
        /\ run' = [run EXCEPT ![w] = [kind |-> k, todo |-> Loaded, seen |-> replica,
                                      holds |-> FALSE, stale |-> FALSE, clean |-> TRUE]]
        /\ rivals' = rivals \cup
             {t \in Saved : Missing(t) /\ transcript[t].translation # None}
        /\ UNCHANGED <<owed, faults>>
     \/ /\ job' = [job EXCEPT ![k] = "none"] /\ Fault
        /\ owed' = IF k = "translate" THEN {} ELSE owed
        /\ UNCHANGED <<run, rivals>>
  /\ UNCHANGED <<follow, unsaved, transcript, replica, live, late, filled, views>>

Turn(w) == CHOOSE t \in run[w].todo : \A u \in run[w].todo : t <= u
Onward(w) == run' = [run EXCEPT ![w].todo = @ \ {Turn(w)}, ![w].holds = FALSE]

(* Mutation of Skips: turns that have a translation are translated again. *)
SkipsNone(w, t) ==
  run[w].kind = "correct" /\ (t \notin follow.user \/ run[w].seen[t].corrected)

(* A turn that has what the pass would give it is left alone.               *)
Skips(w, t) ==
  IF run[w].kind = "translate" THEN run[w].seen[t].translation # None
  ELSE t \notin follow.user \/ run[w].seen[t].corrected

(* The models answer, and a correction is saved, or not; what fails is      *)
(* skipped until the room is viewed again.                                  *)
Pass(w) ==
  LET t == Turn(w) IN
  /\ run[w] # None /\ run[w].todo # {} /\ ~run[w].holds
  /\ \/ Skips(w, t) /\ Onward(w) /\ UNCHANGED <<transcript, faults>>
     \/ /\ ~Skips(w, t) /\ run' = [run EXCEPT ![w].holds = TRUE]
        /\ IF run[w].kind = "correct"
           THEN \/ SaveCorrection(t) /\ UNCHANGED faults
                \/ Fault /\ UNCHANGED transcript
           ELSE UNCHANGED <<transcript, faults>>
     \/ /\ ~Skips(w, t) /\ Fault /\ UNCHANGED transcript
        /\ run' = [run EXCEPT ![w].todo = @ \ {t}, ![w].clean = FALSE]
  /\ UNCHANGED <<follow, unsaved, replica, live, late, job, owed, filled, rivals, views>>

Others(w, t) == Working(t) \/ \E v \in Workers \ {w} : Pending(v, t)

(* The translation is saved, or not; with a correction, only where there    *)
(* was none when the pass began.                                            *)
Fill(w) ==
  LET t == Turn(w) IN
  /\ run[w] # None /\ run[w].todo # {} /\ run[w].holds
  /\ \/ /\ run[w].kind = "correct" => run[w].seen[t].translation = None
        /\ SaveTranslation(t, IF run[w].kind = "correct" THEN "correct" ELSE "fill",
                           Others(w, t))
        /\ Onward(w) /\ UNCHANGED faults
     \/ /\ run[w].kind = "correct" /\ run[w].seen[t].translation # None
        /\ Onward(w) /\ UNCHANGED <<transcript, rivals, faults>>
     \/ /\ Fault /\ UNCHANGED <<transcript, rivals>>
        /\ run' = [run EXCEPT ![w].todo = @ \ {t}, ![w].holds = FALSE, ![w].clean = FALSE]
  /\ UNCHANGED <<follow, unsaved, replica, live, late, job, owed, filled, views>>

Ends(w) == run' = [run EXCEPT ![w] = None]

(* The job is forgotten, whatever the pass has skipped. *)
Finish(w) ==
  /\ run[w] # None /\ run[w].todo = {} /\ ~run[w].stale
  /\ Ends(w)
  /\ job' = [job EXCEPT ![run[w].kind] = "none"]
  /\ IF run[w].kind = "translate"
     THEN /\ filled' = IF run[w].clean THEN filled \cup owed ELSE filled
          /\ owed' = {}
     ELSE UNCHANGED <<owed, filled>>
  /\ UNCHANGED <<follow, unsaved, transcript, replica, live, late, rivals, views, faults>>

(* The job is handed to another worker, while the first one's goes on until *)
(* it notices.                                                             *)
LoseClaim(w) ==
  /\ run[w] # None /\ ~run[w].stale
  /\ run' = [run EXCEPT ![w].stale = TRUE]
  /\ job' = [job EXCEPT ![run[w].kind] = "queued"]
  /\ Fault
  /\ UNCHANGED <<follow, unsaved, transcript, replica, live, late, owed, filled, rivals, views>>

Stop(w) ==
  /\ run[w] # None /\ run[w].stale
  /\ Ends(w)
  /\ UNCHANGED <<follow, unsaved, transcript, replica, live, late, job, owed, filled, rivals,
                 views, faults>>

-----------------------------------------------------------------------------
Next ==
  \/ \E t \in Turns :
       \/ Say(t) \/ SaveTurn(t) \/ Preview(t) \/ ReserveJob(t) \/ Answer(t)
       \/ TranslateLive(t) \/ PersistEvent(t) \/ LoseLive(t)
       \/ \E what \in late[t] : SaveLate(t, what)
  \/ Replicate
  \/ \E page \in {Saved, LatestPage} : View(page)
  \/ \E w \in Workers : \/ (\E k \in Kinds : Take(w, k)) \/ Pass(w) \/ Fill(w)
                        \/ Finish(w) \/ LoseClaim(w) \/ Stop(w)

Spec == Init /\ [][Next]_vars

-----------------------------------------------------------------------------
(* A turn that was seen without a translation, by a learner whose view      *)
(* queued a pass, has one when that pass is over, if nothing failed in it:  *)
(* even if the learner saw a page of the room, the job was handed on, or    *)
(* the turn's own job came to nothing (sessions_detail.go, backfill.go).    *)
ViewedIsFilled == \A t \in filled : transcript[t].translation # None

(* The final translation of a turn's own takes the place of its preview.    *)
Yields(t) ==
  /\ t \in follow.user /\ transcript[t].translation = "draft"
  /\ transcript'[t].translation \in {"refined", "judged"}

(* A translation that the learner may have read stays as it is, but that    *)
(* the preview of the learner's own sentence yields to what its job says:   *)
(* unless it was written while another writer had seen none, such as a pass *)
(* over the room or a preview still on its way, or by an attempt without    *)
(* Judge's answer and a second one follows (pipeline_translation.go,        *)
(* translateAssistant; backfill.go, translateSession; ws_persist.go).       *)
ReadStays ==
  [][\A t \in Turns :
       transcript[t].translation # None /\ t \notin rivals
         => transcript'[t].translation = transcript[t].translation \/ Yields(t)]_vars
=============================================================================
