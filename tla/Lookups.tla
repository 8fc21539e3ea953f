------------------------------ MODULE Lookups ------------------------------
(***************************************************************************)
(* Answers that are kept in Redis alone, for whoever asks next:            *)
(*  "word"  a word or a phrase tapped in an article, which is defined or   *)
(*          hinted at (httpserver/words_article.go, wordlookup/cache.go,   *)
(*          transport/word_define_job.go and phrase_hint_job.go);          *)
(*  "quiz"  whether a quiz answer has the meaning of the accepted one      *)
(*          (httpserver/quiz_answer_check.go, quizcache/cache.go,          *)
(*          transport/quiz_answer_refine_job.go).                          *)
(* One cache key is followed.  The jobs that fill it have checkpoints      *)
(* (module Cascade) and are handed out by the queue (module JobQueue).     *)
(***************************************************************************)
EXTENDS Naturals, FiniteSets

CONSTANTS
  Tabs,       \* pages that ask; for "quiz" each has an owner of its own
  Workers,    \* attempts that may run at a time
  Answers,    \* what a model may answer
  None,
  Cases,      \* bound: the subject, the number of requests and of mishaps
  MaxTries

VARIABLES
  case,
  cache,      \* the value under the key
  owned,      \* the owners that exist: the article, or sessions and words
  queue,      \* per dedupe key: the job, from Enqueue to its end
  run,        \* what each worker does
  ask,        \* what each page's request has seen
  forked,     \* history: two owners' refinements overlapped or one missed the
              \* other's verdict, a stale attempt held a verdict that was not
              \* kept, an attempt fell back to the word as it was spelled, or a
              \* job was enqueued while a stale attempt of the one before it
              \* still ran
  asks, mishaps

vars == <<case, cache, owned, queue, run, ask, forked, asks, mishaps>>

Word == case.subject = "word"

(* A tap is of the article, whoever taps; a refinement's dedupe key has the *)
(* owner in it.                                                            *)
Owner(t) == IF Word THEN CHOOSE u \in Tabs : TRUE ELSE t
Owners == {Owner(t) : t \in Tabs}

Mishap == mishaps < case.mishaps /\ mishaps' = mishaps + 1

Idle == [at |-> "idle", probe |-> FALSE, cached |-> FALSE, shown |-> None]

NoJob == [at |-> "none", claim |-> None, tries |-> 0, kept |-> <<>>]

Init ==
  /\ case \in Cases
  /\ cache = None /\ owned = Owners
  /\ queue = [o \in Owners |-> NoJob]
  /\ run = [w \in Workers |-> None]
  /\ ask = [t \in Tabs |-> Idle]
  /\ forked = FALSE /\ asks = 0 /\ mishaps = 0

-----------------------------------------------------------------------------
(* Requests. *)

Goes(t, at) == ask' = [ask EXCEPT ![t].at = at]
Shows(t, at, what) == ask' = [ask EXCEPT ![t].at = at, ![t].shown = what]

(* The page asks, or only looks whether a lookup is under way (checkOnly).  *)
(* It asks again until it is shown a result: after any other answer.        *)
Tap(t, probe) ==
  /\ ask[t].at \in {"idle", "pending", "missing", "done"}
  /\ asks < case.asks /\ asks' = asks + 1
  /\ Owner(t) \in owned
  /\ probe => Word
  /\ ask' = [ask EXCEPT ![t] = [Idle EXCEPT !.at = "reading", !.probe = probe]]
  /\ UNCHANGED <<case, cache, owned, queue, run, forked, mishaps>>

(* A quiz answer that has no verdict is shown Chat's.  A read that fails    *)
(* ends the request, or counts as a miss of the verdict.                   *)
Read(t) ==
  /\ ask[t].at = "reading"
  /\ \/ /\ UNCHANGED mishaps
        /\ IF cache # None THEN Shows(t, "done", cache)
           ELSE IF Word THEN Goes(t, "inspecting")
           ELSE \E draft \in Answers : Shows(t, "enqueuing", draft)
     \/ Mishap /\ IF Word THEN Goes(t, "idle")
                  ELSE \E draft \in Answers : Shows(t, "enqueuing", draft)
  /\ UNCHANGED <<case, cache, owned, queue, run, forked, asks>>

Pending(o) == queue[o].at # "none"

Inspect(t) ==
  /\ ask[t].at = "inspecting"
  /\ IF Pending(Owner(t)) THEN Goes(t, "pending")
     ELSE ask' = [ask EXCEPT ![t].at = "rereading", ![t].cached = cache # None]
  /\ UNCHANGED <<case, cache, owned, queue, run, forked, asks, mishaps>>

(* Mutation of Reread: nothing is read again. *)
RereadNothing(t) ==
  /\ ask[t].at = "rereading"
  /\ Goes(t, IF ask[t].probe THEN "missing" ELSE "enqueuing")
  /\ UNCHANGED <<case, cache, owned, queue, run, forked, asks, mishaps>>

(* A job writes its result before the queue forgets it: so the cache is     *)
(* read once more.                                                         *)
Reread(t) ==
  /\ ask[t].at = "rereading"
  /\ IF cache # None THEN Shows(t, "done", cache)
     ELSE Goes(t, IF ask[t].probe THEN "missing" ELSE "enqueuing")
  /\ UNCHANGED <<case, cache, owned, queue, run, forked, asks, mishaps>>

RunsOf(w, o) == run[w] # None /\ run[w].owner = o

(* Unless there is a job already, or the queue fails. *)
Enqueue(t) ==
  LET o == Owner(t) IN
  /\ ask[t].at = "enqueuing"
  /\ \/ Goes(t, IF Word THEN "idle" ELSE "done") /\ UNCHANGED queue /\ Mishap
     \/ /\ Goes(t, IF Word THEN "pending" ELSE "done")
        /\ queue' = IF Pending(o) THEN queue
                    ELSE [queue EXCEPT ![o] = [NoJob EXCEPT !.at = "queued"]]
        /\ UNCHANGED mishaps
  /\ forked' = (forked \/ (queue'[o] # queue[o] /\ \E w \in Workers : RunsOf(w, o)))
  /\ UNCHANGED <<case, cache, owned, run, asks>>

-----------------------------------------------------------------------------
(* The world. *)

Delete(o) ==
  /\ o \in owned /\ owned' = owned \ {o} /\ Mishap
  /\ UNCHANGED <<case, cache, queue, run, ask, forked, asks>>

(* After thirty days, which outlast any attempt and any request; a wrong    *)
(* verdict's start anew whenever it is shown.                              *)
Expire ==
  /\ \A w \in Workers : run[w] = None
  /\ \A t \in Tabs : ask[t].at \in {"idle", "pending", "missing", "done"}
  /\ cache # None /\ cache' = None /\ Mishap
  /\ UNCHANGED <<case, owned, queue, run, ask, forked, asks>>

Doing(w, at) == run[w] # None /\ run[w].at = at

(* An attempt that is to write a verdict of which there is no checkpoint.   *)
Unkept(w) ==
  ~ Word /\ Doing(w, "writing") /\ "refining" \notin DOMAIN queue[run[w].owner].kept

(* The queue's part: a claim that is lost, with or without its attempt. *)
LoseClaim(o) ==
  /\ queue[o].at = "held" /\ Mishap
  /\ queue' = [queue EXCEPT ![o].at = "queued", ![o].claim = None,
                            ![o].tries = queue[o].tries + 1]
  /\ \/ /\ UNCHANGED run
        /\ forked' = (forked \/ Unkept(queue[o].claim))
     \/ run' = [run EXCEPT ![queue[o].claim] = None] /\ UNCHANGED forked
  /\ UNCHANGED <<case, cache, owned, ask, asks>>

-----------------------------------------------------------------------------
(* Jobs. *)

Take(w, o) ==
  /\ run[w] = None /\ queue[o].at = "queued"
  /\ queue' = [queue EXCEPT ![o].at = "held", ![o].claim = w]
  /\ run' = [run EXCEPT ![w] = [owner |-> o, at |-> "started", text |-> None]]
  /\ UNCHANGED <<case, cache, owned, ask, forked, asks, mishaps>>

Claims(w) == queue[run[w].owner].claim = w
Alive(w) == run[w].owner \in owned

Turns(w, at, text) == run' = [run EXCEPT ![w].at = at, ![w].text = text]

(* Another owner's refinement, of the same answer, overlaps this attempt. *)
Overlaps(w) == \E o \in Owners \ {run[w].owner}, v \in Workers : RunsOf(v, o)

(* A result may be there already, of another owner's job; a verdict that    *)
(* cannot be read counts as none.                                          *)
Begin(w) ==
  /\ Doing(w, "started")
  /\ \/ /\ Turns(w, IF ~ Alive(w) \/ cache # None THEN "succeeded"
                    ELSE IF Word THEN "form" ELSE "refining", None)
        /\ forked' = (forked \/ Overlaps(w))
        /\ UNCHANGED mishaps
     \/ /\ Alive(w) /\ Mishap
        /\ Turns(w, IF Word THEN "failed" ELSE "refining", None)
        /\ forked' = (forked \/ Overlaps(w) \/ (~ Word /\ cache # None))
  /\ UNCHANGED <<case, cache, owned, queue, ask, asks>>

(* The steps of a job, and where each goes with an answer or without.  A    *)
(* word is defined in its dictionary form, or as the learner spelled it.   *)
Answered(step) == IF step = "form" THEN "lemma" ELSE "writing"
Unanswered(step) == IF step \in {"form", "lemma"} THEN "exact" ELSE "failed"

(* Mutation of Keeps: no checkpoint is kept. *)
KeepsNothing(w, step, text) == UNCHANGED queue

(* Checkpoints belong to the job. *)
Keeps(w, step, text) ==
  LET kept == queue[run[w].owner].kept IN
  queue' = [queue EXCEPT ![run[w].owner].kept =
              [s \in DOMAIN kept \cup {step} |-> IF s = step THEN text ELSE kept[s]]]

(* When Judge fails, a refinement or Chat's draft is the verdict, of which  *)
(* no checkpoint is kept.                                                  *)
FallsBack(w, step) ==
  step = "refining" /\ Mishap /\ \E text \in Answers : Turns(w, "writing", text)

(* A step: its checkpoint, or a model's answer and then its checkpoint,     *)
(* which an attempt without its claim can neither read nor write.          *)
Steps(w) ==
  /\ run[w] # None /\ run[w].at \in {"form", "lemma", "exact", "refining"}
  /\ LET step == run[w].at
         kept == queue[run[w].owner].kept IN
     IF ~ Alive(w) THEN Turns(w, "succeeded", None) /\ UNCHANGED <<queue, mishaps>>
     ELSE IF ~ Claims(w)
     THEN /\ \/ Turns(w, "failed", None) /\ UNCHANGED mishaps
             \/ FallsBack(w, step)
          /\ UNCHANGED queue
     ELSE IF step \in DOMAIN kept
     THEN Turns(w, Answered(step), kept[step]) /\ UNCHANGED <<queue, mishaps>>
     ELSE \/ \E text \in Answers :
               /\ Turns(w, Answered(step), text) /\ Keeps(w, step, text)
               /\ UNCHANGED mishaps
          \/ Turns(w, Unanswered(step), None) /\ UNCHANGED queue /\ Mishap
          \/ FallsBack(w, step) /\ UNCHANGED queue
  /\ forked' = (forked \/ run'[w].at = "exact" \/ (run'[w].at = "writing" /\ ~ Claims(w)))
  /\ UNCHANGED <<case, cache, owned, ask, asks>>

(* The claim is lost while the step is under way or after it. *)
Write(w) ==
  /\ Doing(w, "writing")
  /\ \/ Turns(w, "succeeded", None) /\ cache' = run[w].text /\ UNCHANGED mishaps
     \/ Turns(w, "failed", None) /\ UNCHANGED cache /\ Mishap
     \/ ~ Claims(w) /\ Turns(w, "failed", None) /\ UNCHANGED <<cache, mishaps>>
  /\ UNCHANGED <<case, owned, queue, ask, forked, asks>>

Finish(w) ==
  /\ run[w] # None /\ run[w].at \in {"succeeded", "failed"}
  /\ run' = [run EXCEPT ![w] = None]
  /\ LET o == run[w].owner IN
     queue' = IF ~ Claims(w) THEN queue
              ELSE IF run[w].at = "succeeded" \/ queue[o].tries + 1 >= MaxTries
              THEN [queue EXCEPT ![o] = NoJob]
              ELSE [queue EXCEPT ![o].at = "queued", ![o].claim = None,
                                 ![o].tries = queue[o].tries + 1]
  /\ UNCHANGED <<case, cache, owned, ask, forked, asks, mishaps>>

-----------------------------------------------------------------------------
Next ==
  \/ \E t \in Tabs :
       \/ \E probe \in BOOLEAN : Tap(t, probe)
       \/ Read(t) \/ Inspect(t) \/ Reread(t) \/ Enqueue(t)
  \/ Expire
  \/ \E o \in Owners : Delete(o) \/ LoseClaim(o)
  \/ \E w \in Workers : \/ \E o \in Owners : Take(w, o)
                        \/ Begin(w) \/ Steps(w) \/ Write(w) \/ Finish(w)

Spec == Init /\ [][Next]_vars

-----------------------------------------------------------------------------
TypeOK ==
  /\ cache \in Answers \cup {None} /\ owned \subseteq Owners
  /\ \A o \in Owners : queue[o].claim \in Workers \cup {None}
  /\ \A t \in Tabs : ask[t].shown \in Answers \cup {None}

(* A result stands in the cache until it expires, whatever attempts         *)
(* overlap: learners who tap the same word read the same definition.  Only *)
(* refinements of two owners may overwrite each other's verdict, and of    *)
(* one a stale attempt for which Judge failed may overwrite the retry's;   *)
(* an attempt may define another form of the word than the one before it,  *)
(* and a stale one may write over what a new job found.                    *)
CachedStands == [][cache # None /\ ~ forked => cache' \in {cache, None}]_cache

(* Nobody is told that there is nothing, nor queues a lookup, when a result *)
(* was cached by the time it asked for a pending job (words_article.go,    *)
(* runArticleLookup: it closes "the narrow race where both changed").      *)
ToldTheResult ==
  \A t \in Tabs : ask[t].at \in {"missing", "enqueuing"} => ~ ask[t].cached
=============================================================================
