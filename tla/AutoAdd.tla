------------------------------ MODULE AutoAdd ------------------------------
(***************************************************************************)
(* "Add new words": a press of the button draws one batch of words for the *)
(* learner's list (httpserver/words_auto_add.go,                           *)
(* transport/word_auto_add_job.go, store/mysql_settings.go).  The words    *)
(* are saved one by one, so an attempt may stop in the middle of its       *)
(* batch; the batch itself is a checkpoint of the job (module Cascade),    *)
(* which the queue hands out (module JobQueue).                            *)
(***************************************************************************)
EXTENDS Naturals, Sequences, FiniteSets

CONSTANTS
  Batches,     \* batches that the models may propose: sequences of words
  Pages,       \* pages that press the button
  Workers,     \* attempts that may run at a time
  None,
  MaxPresses,  \* bound
  MaxMishaps,  \* bound: failed calls, enqueues and statements, claims lost
  MaxTries

VARIABLES
  status, count,  \* word_auto_add_status ("unset" is the empty string) and word_auto_add_count
  tracked,        \* words of buddy_word_reviews
  request,        \* what each page's request has done
  job,            \* the learner's job, from Enqueue to its end
  run,            \* what each worker does
  drawn,          \* history: per job, the batches whose words were saved
  presses, mishaps

vars == <<status, count, tracked, request, job, run, drawn, presses, mishaps>>

Mishap == mishaps < MaxMishaps /\ mishaps' = mishaps + 1
Words(batch) == {batch[i] : i \in 1 .. Len(batch)}

NoJob == [at |-> "none", id |-> 0, claim |-> None, tries |-> 0, kept |-> None]

Init ==
  /\ status = "unset" /\ count = 0 /\ tracked = {}
  /\ request = [p \in Pages |-> "none"]
  /\ job = NoJob
  /\ run = [w \in Workers |-> None]
  /\ drawn = <<>>
  /\ presses = 0 /\ mishaps = 0

-----------------------------------------------------------------------------
(* The request. *)

(* A pending run is reported, and not started again. *)
Press(p) ==
  /\ request[p] = "none" /\ presses < MaxPresses
  /\ presses' = presses + 1
  /\ request' = [request EXCEPT ![p] = IF status = "pending" THEN "none" ELSE "starting"]
  /\ UNCHANGED <<status, count, tracked, job, run, drawn, mishaps>>

StartWordAutoAdd(p) ==
  /\ request[p] = "starting"
  /\ request' = [request EXCEPT ![p] = "enqueuing"]
  /\ status' = "pending" /\ count' = 0
  /\ UNCHANGED <<tracked, job, run, drawn, presses, mishaps>>

(* One job of the learner at a time; a failed enqueue is only logged. *)
Enqueue(p) ==
  /\ request[p] = "enqueuing"
  /\ request' = [request EXCEPT ![p] = "none"]
  /\ \/ UNCHANGED <<job, drawn>> /\ Mishap
     \/ /\ IF job.at # "none" THEN UNCHANGED <<job, drawn>>
           ELSE /\ drawn' = Append(drawn, {})
                /\ job' = [NoJob EXCEPT !.at = "queued", !.id = Len(drawn')]
        /\ UNCHANGED mishaps
  /\ UNCHANGED <<status, count, tracked, run, presses>>

-----------------------------------------------------------------------------
(* The job: runWordAutoAdd. *)

Owns(w) == job.claim = w
Doing(w, at) == run[w] # None /\ run[w].at = at
Turns(w, at) == run' = [run EXCEPT ![w].at = at]

Take(w) ==
  /\ run[w] = None /\ job.at = "queued"
  /\ job' = [job EXCEPT !.at = "held", !.claim = w]
  /\ run' = [run EXCEPT ![w] = [of |-> job.id, at |-> "status", batch |-> None, next |-> 1]]
  /\ UNCHANGED <<status, count, tracked, request, drawn, presses, mishaps>>

(* The claim is lost, with or without its attempt. *)
LoseClaim(w) ==
  /\ Owns(w) /\ Mishap
  /\ job' = [job EXCEPT !.at = "queued", !.claim = None, !.tries = @ + 1]
  /\ run' \in {run, [run EXCEPT ![w] = None]}
  /\ UNCHANGED <<status, count, tracked, request, drawn, presses>>

(* Its heartbeat tells an attempt, whose context ends: no check passes any  *)
(* more and no statement is sent.                                          *)
Stop(w) ==
  /\ run[w] # None /\ ~ Owns(w) /\ run[w].at # "error"
  /\ Turns(w, "error")
  /\ UNCHANGED <<status, count, tracked, request, job, drawn, presses, mishaps>>

ReadStatus(w) ==
  /\ Doing(w, "status")
  /\ Turns(w, IF status = "pending" THEN "propose" ELSE "over")
  /\ UNCHANGED <<status, count, tracked, request, job, drawn, presses, mishaps>>

(* Mutation of Keeps: the proposals are no checkpoint. *)
KeepsNot(batch) == UNCHANGED job

(* "Persist the proposed batch before its first write."  Its inputs, which  *)
(* have a checkpoint too, only tell the models what to propose.  A failure  *)
(* of the models is written to the row, one of the checkpoints is not.     *)
Keeps(batch) == job' = [job EXCEPT !.kept = batch]

Propose(w) ==
  /\ Doing(w, "propose")
  /\ IF ~ Owns(w) THEN Turns(w, "error") /\ UNCHANGED <<job, mishaps>>
     ELSE IF job.kept # None
     THEN run' = [run EXCEPT ![w].at = "save", ![w].batch = job.kept]
          /\ UNCHANGED <<job, mishaps>>
     ELSE \/ \E batch \in Batches :
               /\ run' = [run EXCEPT ![w].at = "save", ![w].batch = batch]
               /\ Keeps(batch) /\ UNCHANGED mishaps
          \/ \E to \in {"failing", "error"} : Turns(w, to) /\ UNCHANGED job /\ Mishap
  /\ UNCHANGED <<status, count, tracked, request, drawn, presses>>

(* SaveWordAndVerify: a word that is on the list already stays as it is.    *)
(* (Its verification is module Words'.)                                    *)
Save(w) ==
  /\ Doing(w, "save")
  /\ LET batch == run[w].batch
         i == run[w].next IN
     IF i > Len(batch)
     THEN Turns(w, "complete") /\ UNCHANGED <<tracked, drawn, mishaps>>
     ELSE \/ /\ run' = [run EXCEPT ![w].next = i + 1]
             /\ tracked' = tracked \cup {batch[i]}
             /\ drawn' = [drawn EXCEPT ![run[w].of] = @ \cup {batch}]
             /\ UNCHANGED mishaps
          \/ Turns(w, "failing") /\ UNCHANGED <<tracked, drawn>> /\ Mishap
  /\ UNCHANGED <<status, count, request, job, presses>>

FailWordAutoAdd(w) ==
  /\ Doing(w, "failing")
  /\ status' = "failed"
  /\ Turns(w, "error")
  /\ UNCHANGED <<count, tracked, request, job, drawn, presses, mishaps>>

CompleteWordAutoAdd(w) ==
  /\ Doing(w, "complete")
  /\ \/ /\ status' = "done" /\ count' = Len(run[w].batch)
        /\ Turns(w, "over") /\ UNCHANGED mishaps
     \/ Turns(w, "error") /\ UNCHANGED <<status, count>> /\ Mishap
  /\ UNCHANGED <<tracked, request, job, drawn, presses>>

(* The job ends with its owner's success, or its last failure. *)
Finish(w) ==
  /\ run[w] # None /\ run[w].at \in {"over", "error"}
  /\ run' = [run EXCEPT ![w] = None]
  /\ job' = IF ~ Owns(w) THEN job
            ELSE IF run[w].at = "over" \/ job.tries + 1 >= MaxTries THEN NoJob
            ELSE [job EXCEPT !.at = "queued", !.claim = None, !.tries = @ + 1]
  /\ UNCHANGED <<status, count, tracked, request, drawn, presses, mishaps>>

-----------------------------------------------------------------------------
Next ==
  \/ \E p \in Pages : Press(p) \/ StartWordAutoAdd(p) \/ Enqueue(p)
  \/ \E w \in Workers :
       \/ Take(w) \/ LoseClaim(w) \/ Stop(w) \/ ReadStatus(w) \/ Propose(w)
       \/ Save(w) \/ FailWordAutoAdd(w) \/ CompleteWordAutoAdd(w) \/ Finish(w)

Spec == Init /\ [][Next]_vars

-----------------------------------------------------------------------------
TypeOK ==
  /\ status \in {"unset", "pending", "done", "failed"} /\ count \in Nat
  /\ job.claim \in Workers \cup {None}
  /\ \A w \in Workers : run[w] # None => run[w].of \in DOMAIN drawn

(* One press draws one batch, however often its job is interrupted in the   *)
(* middle of saving it, and a press that reports success reports a whole    *)
(* batch that is on the list (word_auto_add_job.go: "retries retain that    *)
(* draw's inputs and proposed batch even when some of its words were       *)
(* already saved by an interrupted attempt").                              *)
OneBatch ==
  /\ \A n \in DOMAIN drawn : Cardinality(drawn[n]) <= 1
  /\ status = "done" =>
       \E batch \in Batches : Len(batch) = count /\ Words(batch) \subseteq tracked
=============================================================================
