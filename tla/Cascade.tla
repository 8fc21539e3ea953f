------------------------------ MODULE Cascade ------------------------------
(***************************************************************************)
(* The cascade of model calls behind a generated artifact                  *)
(* (pipeline/pipeline_analyze.go): a Chat draft, the refinements of the    *)
(* Analysis models side by side, and the Judge's final text; every         *)
(* completed step is checkpointed for the retries of its durable job       *)
(* (checkpoint/checkpoint.go, asyncjob/checkpoint.go).  The artifact is a  *)
(* writing prompt (transport/writing_job.go, writing/mysql.go).            *)
(*                                                                         *)
(* An answer is a sentence that every release can decode, one that only    *)
(* the older release accepts, one that none does, or Nothing: a failed     *)
(* call and a blank answer are treated alike everywhere.  The queue around *)
(* the job is module JobQueue's: here it hands the job out, and may take   *)
(* its claim away.                                                         *)
(***************************************************************************)
EXTENDS Integers, Sequences

CONSTANTS
  Workers,      \* attempts that may run at a time
  Sentences,    \* answers that decode
  Loose, Bad,   \* answers that only an older release decodes, that none does
  Nothing,
  Configs,      \* bound: the Analysis models, whether there are a Judge, a queue
                \* and a rolling deployment, and how many mishaps
  MaxAttempts

VARIABLES
  config,
  prompt,    \* the row of buddy_writing_prompts
  world,     \* the learner's profile and earlier prompts: their revisions
  job,       \* where the prompt's job is
  claim,     \* the attempt that owns it
  tries,     \* failed attempts and lost claims
  stored,    \* the job's checkpoints
  attempt,   \* what each worker does
  call,      \* its steps in flight: one for each Analysis model, and 0
  lost,      \* history: nobody is left to settle the prompt
  mishaps

vars == <<config, prompt, world, job, claim, tries, stored, attempt, call, lost, mishaps>>

Sources == {"profile", "previous"}
Lanes == 0 .. Len(config.models)
Mishap == mishaps < config.mishaps /\ mishaps' = mishaps + 1

Attempt ==
  [bound : BOOLEAN,     \* runs as a job, with checkpoints
   strict : BOOLEAN,    \* is of the newer release
   stage : Sources \cup {"idle", "status", "chat", "analysis", "judge", "return",
                        "publish", "done", "failed"},
   given : [Sources -> {0, 1, Nothing}],
   draft : Sentences \cup {Loose, Bad, Nothing},
   refined : Seq(Sentences \cup {Loose, Bad}),
   final : Sentences \cup {Loose, Bad, Nothing},
   broken : {"no", "storage", "canceled"}]

(* No attempt. *)
Idle == [bound |-> FALSE, strict |-> FALSE, stage |-> "idle",
         given |-> [i \in Sources |-> Nothing], draft |-> Nothing, refined |-> <<>>,
         final |-> Nothing, broken |-> "no"]

Rest == [at |-> "rest", text |-> Nothing]
Started == [at |-> "started", text |-> Nothing]

Step(w) == attempt[w].stage

Init ==
  /\ config \in Configs
  /\ prompt = [status |-> "none", korean |-> Nothing]
  /\ world = [i \in Sources |-> 0]
  /\ job = "none" /\ claim = Nothing /\ tries = 0
  /\ stored = <<>>
  /\ attempt = [w \in Workers |-> Idle]
  /\ call = [w \in Workers |-> [l \in Lanes |-> Rest]]
  /\ lost = FALSE /\ mishaps = 0

-----------------------------------------------------------------------------
(* The request, and the queue. *)

(* A pending row, then its job.  When that cannot be enqueued the error is *)
(* only logged; without a queue the request runs the work itself.          *)
Draw ==
  /\ prompt.status = "none"
  /\ prompt' = [prompt EXCEPT !.status = "pending"]
  /\ IF config.queue
     THEN \/ job' = "queued" /\ UNCHANGED <<lost, mishaps>>
          \/ job' = "over" /\ lost' = TRUE /\ Mishap
     ELSE job' = "inline" /\ UNCHANGED <<lost, mishaps>>
  /\ UNCHANGED <<config, world, claim, tries, stored, attempt, call>>

Delete ==
  /\ prompt.status \notin {"none", "deleted"}
  /\ prompt' = [status |-> "deleted", korean |-> Nothing]
  /\ UNCHANGED <<config, world, job, claim, tries, stored, attempt, call, lost, mishaps>>

(* The learner's profile is edited, another prompt is written. *)
Change(i) ==
  /\ world[i] = 0 /\ Mishap
  /\ world' = [world EXCEPT ![i] = 1]
  /\ UNCHANGED <<config, prompt, job, claim, tries, stored, attempt, call, lost>>

(* The attempt's next stage, whose steps start in `lanes`. *)
Moves(w, next, lanes) ==
  /\ attempt' = [attempt EXCEPT ![w] = next]
  /\ call' = [call EXCEPT ![w] = [l \in Lanes |-> IF l \in lanes THEN Started ELSE Rest]]

Start(w, bound, strict) ==
  /\ Step(w) = "idle"
  /\ Moves(w, [Idle EXCEPT !.bound = bound, !.strict = strict, !.stage = "profile"], {0})

Take(w) ==
  /\ job = "queued" /\ job' = "held" /\ claim' = w
  /\ \E strict \in {FALSE, config.deploy} : Start(w, TRUE, strict)
  /\ UNCHANGED <<config, prompt, world, tries, stored, lost, mishaps>>

RunInline(w) ==
  /\ job = "inline" /\ Start(w, FALSE, FALSE) /\ job' = "over"
  /\ UNCHANGED <<config, prompt, world, claim, tries, stored, lost, mishaps>>

(* The claim expires, and the reaper queues the job again; the attempt may *)
(* have died with its process.                                             *)
LoseClaim(w) ==
  /\ claim = w /\ Mishap
  /\ job' = "queued" /\ claim' = Nothing /\ tries' = tries + 1
  /\ \/ Moves(w, Idle, {})
     \/ UNCHANGED <<attempt, call>>
  /\ UNCHANGED <<config, prompt, world, stored, lost>>

(* A lease that could not be renewed cancels its attempt's context. *)
Canceled(w) ==
  /\ Step(w) # "idle" /\ attempt[w].bound /\ claim # w
  /\ attempt[w].broken = "no"
  /\ attempt' = [attempt EXCEPT ![w].broken = "canceled"]
  /\ UNCHANGED <<config, prompt, world, job, claim, tries, stored, call, lost, mishaps>>

-----------------------------------------------------------------------------
(* A step: DoIf. *)

Accepts(w, text) == text \in Sentences \/ (text = Loose /\ ~ attempt[w].strict)

(* workguard.Check: the owner is on the primary, no checkpoint failed, and *)
(* the context lives.                                                      *)
Check(w) == attempt[w].broken = "no" /\ prompt.status # "deleted"

(* What a step's result depends on.  Two Analysis entries may name the same *)
(* endpoint and model, and then they are one step.                         *)
Key(w, l) ==
  [step |-> Step(w),
   model |-> IF Step(w) = "analysis" THEN config.models[l] ELSE Nothing,
   given |-> IF Step(w) \in Sources THEN Nothing ELSE attempt[w].given,
   draft |-> attempt[w].draft, refined |-> attempt[w].refined]

Reusable(w, value) == Step(w) \in Sources \/ Accepts(w, value)

Goes(w, l, at, text) == call' = [call EXCEPT ![w][l] = [at |-> at, text |-> text]]

(* A script of the checkpoint store, which refuses an attempt that is not   *)
(* the claim's.  Any failure of it is the attempt's.                       *)
Fenced(w, l, script) ==
  \/ claim = w /\ script /\ UNCHANGED <<attempt, mishaps>>
  \/ /\ IF claim = w THEN Mishap ELSE UNCHANGED mishaps
     /\ attempt' = [attempt EXCEPT ![w].broken = "storage"]
     /\ Goes(w, l, "answered", Nothing)
     /\ UNCHANGED stored

GivesUp(w, l) ==
  ~ Check(w) /\ Goes(w, l, "answered", Nothing) /\ UNCHANGED <<attempt, stored, mishaps>>

(* "Identical calls inside one attempt share a persisted result". *)
Shares(w, l) ==
  \E k \in Lanes \ {l} : /\ call[w][k].at \in {"discarding", "asking", "saving"}
                         /\ Key(w, k) = Key(w, l)

Load(w, l) ==
  /\ call[w][l].at = "started" /\ ~ Shares(w, l)
  /\ \/ GivesUp(w, l)
     \/ /\ Check(w) /\ ~ attempt[w].bound
        /\ Goes(w, l, "asking", Nothing) /\ UNCHANGED <<attempt, stored, mishaps>>
     \/ /\ Check(w) /\ attempt[w].bound
        /\ LET k == Key(w, l) IN
           Fenced(w, l,
             /\ IF k \notin DOMAIN stored THEN Goes(w, l, "asking", Nothing)
                ELSE IF Reusable(w, stored[k]) THEN Goes(w, l, "answered", stored[k])
                ELSE Goes(w, l, "discarding", Nothing)
             /\ UNCHANGED stored)
  /\ UNCHANGED <<config, prompt, world, job, claim, tries, lost>>

(* A result of before a deployment that the new decoder does not accept. *)
Discard(w, l) ==
  /\ call[w][l].at = "discarding"
  /\ Fenced(w, l,
       /\ stored' = [k \in DOMAIN stored \ {Key(w, l)} |-> stored[k]]
       /\ Goes(w, l, "asking", Nothing))
  /\ UNCHANGED <<config, prompt, world, job, claim, tries, lost>>

(* The model's answer, or the input that is read. *)
Ask(w, l) ==
  /\ call[w][l].at = "asking"
  /\ \/ GivesUp(w, l)
     \/ /\ Check(w)
        /\ \E text \in (IF Step(w) \in Sources THEN {world[Step(w)]} ELSE Sentences)
                       \cup {Loose, Bad, Nothing} :
             /\ Step(w) \in Sources => text \notin {Loose, Bad}
             /\ IF text \in {Loose, Bad, Nothing} THEN Mishap ELSE UNCHANGED mishaps
             /\ IF attempt[w].bound /\ text # Nothing /\ Reusable(w, text)
                THEN Goes(w, l, "saving", text)
                ELSE Goes(w, l, "answered", text)
        /\ UNCHANGED <<attempt, stored>>
  /\ UNCHANGED <<config, prompt, world, job, claim, tries, lost>>

(* The first result stays. *)
With(k, text) ==
  [s \in DOMAIN stored \cup {k} |-> IF s \in DOMAIN stored THEN stored[s] ELSE text]

(* Mutation of Save: an attempt that lost its claim still saves. *)
SaveUnfenced(w, l) ==
  LET text == call[w][l].text IN
  /\ call[w][l].at = "saving"
  /\ stored' = With(Key(w, l), text)
  /\ Goes(w, l, "answered", text)
  /\ UNCHANGED <<config, prompt, world, job, claim, tries, attempt, lost, mishaps>>

Save(w, l) ==
  LET text == call[w][l].text IN
  /\ call[w][l].at = "saving"
  /\ \/ GivesUp(w, l)
     \/ /\ Check(w)
        /\ Fenced(w, l, stored' = With(Key(w, l), text) /\ Goes(w, l, "answered", text))
  /\ UNCHANGED <<config, prompt, world, job, claim, tries, lost>>

-----------------------------------------------------------------------------
(* The attempt. *)

AllAnswered(w, lanes) == \A l \in lanes : call[w][l].at = "answered"

Kept == UNCHANGED <<config, world, job, claim, tries, stored>>

(* An error; of a deleted owner's work it is none. *)
Errs(w) ==
  Moves(w, [attempt[w] EXCEPT !.stage =
              IF attempt[w].broken = "no" /\ prompt.status = "deleted"
              THEN "done" ELSE "failed"], {})

(* Mutation of Fails: the error is returned, and the row stays pending. *)
FailsSilently(w) == Errs(w) /\ UNCHANGED prompt

(* A living attempt writes its error to a row that is still pending. *)
Fails(w) ==
  /\ Errs(w)
  /\ prompt' = IF Check(w) /\ prompt.status = "pending"
               THEN [prompt EXCEPT !.status = "failed"] ELSE prompt

Given(w, i, value) == [attempt[w].given EXCEPT ![i] = value]

ProfileRead(w) ==
  /\ Step(w) = "profile" /\ AllAnswered(w, {0})
  /\ LET p == call[w][0].text IN
     IF p = Nothing THEN Fails(w)
     ELSE /\ Moves(w, [attempt[w] EXCEPT !.stage = "status", !.given = Given(w, "profile", p)], {})
          /\ UNCHANGED prompt
  /\ Kept /\ UNCHANGED <<lost, mishaps>>

(* The row as a replica of the database shows it, which may lag; one that   *)
(* is neither pending nor failed is done with.  A read that fails, as one   *)
(* in an ended context does, leaves the row as it is.                      *)
ReadStatus(w) ==
  /\ Step(w) = "status"
  /\ \/ \E seen \in {prompt.status, "none", "pending"} :
          /\ IF seen = prompt.status THEN UNCHANGED mishaps ELSE Mishap
          /\ IF seen \in {"pending", "failed"}
             THEN Moves(w, [attempt[w] EXCEPT !.stage = "previous"], {0}) /\ UNCHANGED lost
             ELSE /\ Moves(w, [attempt[w] EXCEPT !.stage = "done"], {})
                  /\ lost' = (lost \/ prompt.status = "pending")
     \/ /\ Errs(w) /\ UNCHANGED lost
        /\ IF attempt[w].broken = "canceled" THEN UNCHANGED mishaps ELSE Mishap
  /\ Kept /\ UNCHANGED prompt

PreviousRead(w) ==
  /\ Step(w) = "previous" /\ AllAnswered(w, {0})
  /\ LET p == call[w][0].text IN
     IF p = Nothing THEN Errs(w)
     ELSE Moves(w, [attempt[w] EXCEPT !.stage = "chat", !.given = Given(w, "previous", p)], {0})
  /\ Kept /\ UNCHANGED <<prompt, lost, mishaps>>

(* chatDraft, whose failure the later stages may make up for. *)
Drafted(w) ==
  /\ Step(w) = "chat" /\ AllAnswered(w, {0})
  /\ LET draft == call[w][0].text IN
     IF ~ Check(w) \/ (draft = Nothing /\ config.models = <<>> /\ ~ config.judge)
     THEN Fails(w)
     ELSE /\ Moves(w, [attempt[w] EXCEPT !.stage = "analysis", !.draft = draft],
                   Lanes \ {0})
          /\ UNCHANGED prompt
  /\ Kept /\ UNCHANGED <<lost, mishaps>>

(* The first configured refinement that succeeded, or the draft. *)
Fallback(a) == IF a.refined = <<>> THEN a.draft ELSE a.refined[1]

Refined(w) ==
  LET texts == SelectSeq([l \in 1 .. Len(config.models) |-> call[w][l].text],
                         LAMBDA text : text # Nothing)
      a == [attempt[w] EXCEPT !.refined = texts] IN
  /\ Step(w) = "analysis" /\ AllAnswered(w, Lanes \ {0})
  /\ IF ~ Check(w) THEN Fails(w)
     ELSE /\ IF config.judge THEN Moves(w, [a EXCEPT !.stage = "judge"], {0})
             ELSE Moves(w, [a EXCEPT !.stage = "return", !.final = Fallback(a)], {})
          /\ UNCHANGED prompt
  /\ Kept /\ UNCHANGED <<lost, mishaps>>

(* Missing, failed and blank Judge answers have the same fallback. *)
Judged(w) ==
  LET text == call[w][0].text IN
  /\ Step(w) = "judge" /\ AllAnswered(w, {0})
  /\ Moves(w, [attempt[w] EXCEPT !.stage = "return",
                 !.final = IF text = Nothing THEN Fallback(attempt[w]) ELSE text], {})
  /\ Kept /\ UNCHANGED <<prompt, lost, mishaps>>

(* Mutation of Return: a failed checkpoint is tolerated as a failed call. *)
ReturnUnchecked(w) ==
  /\ Step(w) = "return"
  /\ IF Accepts(w, attempt[w].final)
     THEN Moves(w, [attempt[w] EXCEPT !.stage = "publish"], {}) /\ UNCHANGED prompt
     ELSE Fails(w)
  /\ Kept /\ UNCHANGED <<lost, mishaps>>

(* Nothing leaves an attempt whose checkpoints failed, and only what the    *)
(* decoder accepts leaves any.                                             *)
Return(w) ==
  /\ Step(w) = "return"
  /\ IF Check(w) /\ Accepts(w, attempt[w].final)
     THEN Moves(w, [attempt[w] EXCEPT !.stage = "publish"], {}) /\ UNCHANGED prompt
     ELSE Fails(w)
  /\ Kept /\ UNCHANGED <<lost, mishaps>>

(* Only a row that is pending or failed is completed. *)
Complete(w) ==
  IF prompt.status \in {"pending", "failed"}
  THEN prompt' = [status |-> "done", korean |-> attempt[w].final] ELSE UNCHANGED prompt

Publish(w) ==
  /\ Step(w) = "publish"
  /\ IF attempt[w].broken = "canceled"
     THEN Errs(w) /\ UNCHANGED prompt
     ELSE Moves(w, [attempt[w] EXCEPT !.stage = "done"], {}) /\ Complete(w)
  /\ Kept /\ UNCHANGED <<lost, mishaps>>

(* A failure that the attempt did not write to the row: of its checkpoints, *)
(* or of the reading of the row or of earlier prompts.                     *)
Unwritten(w) ==
  LET a == attempt[w] IN
  /\ a.stage = "failed"
  /\ \/ a.broken # "no"
     \/ a.given["profile"] # Nothing /\ a.given["previous"] = Nothing

(* runWithLease, which checks once more, and the queue: the job ends when  *)
(* its owner succeeded or failed for the last time, and its checkpoints    *)
(* with it; any other failure is retried.                                  *)
Finish(w) ==
  LET ok == Step(w) = "done" /\ attempt[w].broken = "no" IN
  /\ Step(w) \in {"done", "failed"}
  /\ attempt' = [attempt EXCEPT ![w] = Idle]
  /\ IF claim # w THEN UNCHANGED <<job, claim, tries, stored>>
     ELSE /\ claim' = Nothing
          /\ IF ok \/ tries + 1 >= MaxAttempts
             THEN job' = "over" /\ stored' = <<>> /\ UNCHANGED tries
             ELSE job' = "queued" /\ tries' = tries + 1 /\ UNCHANGED stored
  /\ lost' = (lost \/ (job' = "over" /\ prompt.status = "pending" /\ Unwritten(w)))
  /\ UNCHANGED <<config, prompt, world, call, mishaps>>

-----------------------------------------------------------------------------
Works(w) ==
  /\ Step(w) # "idle"
  /\ \/ \E l \in Lanes : Load(w, l) \/ Discard(w, l) \/ Ask(w, l) \/ Save(w, l)
     \/ ProfileRead(w) \/ ReadStatus(w) \/ PreviousRead(w) \/ Drafted(w) \/ Refined(w)
     \/ Judged(w) \/ Return(w) \/ Publish(w) \/ Finish(w)

Next ==
  \/ Draw \/ Delete
  \/ \E i \in Sources : Change(i)
  \/ \E w \in Workers : Take(w) \/ RunInline(w) \/ LoseClaim(w) \/ Canceled(w) \/ Works(w)

Spec == Init /\ [][Next]_vars

-----------------------------------------------------------------------------
TypeOK ==
  /\ prompt \in [status : {"none", "pending", "failed", "done", "deleted"},
                 korean : Sentences \cup {Loose, Nothing}]
  /\ job \in {"none", "queued", "held", "inline", "over"}
  /\ claim \in Workers \cup {Nothing} /\ tries \in Nat
  /\ attempt \in [Workers -> Attempt]

(* What the owner of the job carries from one stage to the next is what a   *)
(* retry will find, and what is stored already is never paid for again     *)
(* (checkpoint.go: Do "replays a successful nonempty result or persists a  *)
(* new one before handing it to the next step").                           *)
WorkReused ==
  \A w \in Workers : claim = w /\ attempt[w].broken = "no" =>
    \A l \in Lanes :
      LET c == call[w][l] IN
      /\ c.at = "asking" => Key(w, l) \notin DOMAIN stored
      /\ c.at = "answered" /\ c.text # Nothing /\ Reusable(w, c.text) =>
           Key(w, l) \in DOMAIN stored /\ stored[Key(w, l)] = c.text

(* The learner's sentence is published once, whatever attempts overlap, and *)
(* never by an attempt whose checkpoints failed (checkpoint.go: Bind "makes *)
(* storage failures fatal to the attempt, including callers that normally  *)
(* tolerate a model failure").                                             *)
PublishedOnce ==
  [][prompt'.korean \notin {prompt.korean, Nothing} =>
       /\ prompt.korean = Nothing
       /\ \E w \in Workers : /\ Step(w) = "publish"
                             /\ attempt[w].broken = "no"
                             /\ attempt[w].final = prompt'.korean]_prompt

(* A prompt whose job is over does not stay pending, unless the job was     *)
(* never enqueued, looked at a replica that did not have the row yet, or   *)
(* failed for the last time in a way that it could not write down.         *)
Settled == job = "over" /\ prompt.status = "pending" /\ ~ lost =>
             \E w \in Workers : Step(w) # "idle"
=============================================================================
