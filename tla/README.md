# Buddy, in TLA+

Buddy is an English-conversation tutor: a Go server (`src/apps/server`) that talks to language
models, keeps its data in MySQL, Redis and S3, and serves a React client (`src/apps/web`). Several
replicas run at once. This directory holds TLA+ modules for its server, the TLC
configurations that check them on small instances, and TLAPS proofs of their main properties for
every value of the constants. All paths below are relative to `src/apps/server/internal/`.

## 1. Inventory

| Part | State | Operations | Talks to |
|---|---|---|---|
| `asyncjob` durable queue | per Kind in Redis: `queue` and `processing` lists, `dedupe` set, expiring `claim` keys, `checkpoint` hashes | Enqueue, BLMOVE + SETNX by the workers, inline claim, lease renewal, complete, abandon, back off, reap | every background feature (20 Kinds) |
| `llm/queue.go` call queue | one lane per model: running call, list of waiters | Do, cancel, release with handoff | `pipeline.runModelCall` |
| `workslot` | a channel of slots; per handler a lock, a count of waiting branches, a held flag | Run, Wait (park, resume), cancellation | `asyncjob.Worker`, `pipeline` |
| `workguard` | a context bound to an owner in MySQL | Check, Run, Commit | everything that writes for a user |
| `checkpoint` | finished stages of a job's workflow | Do, JSON | `asyncjob`, `pipeline` |
| `session` | summary, window of recent messages, turn counter, under one mutex | NextTurn, Append*, Peek/ApplyCompaction, Seed, Export | one per WebSocket connection |
| `pipeline` | none of its own, goroutines | HandleText, HandleUtterance, reply, correct, translate, compact, Chat/Analysis/Judge cascade | models, `session` |
| `transport` | socket, turn context, per-event goroutines, one producer and one handler per Kind | read loop with barge-in, persistEvent, reply hook, corrections, finalization, study, words, nuance, articles | all of the above, `store` |
| `store`, `wordreview`, `nuance`, `newsarticle` | MySQL rows with a lifetime, versions and revisions | upserts and compare-and-set updates in transactions | jobs, HTTP handlers |
| `backfill` | a queue and a worker each for translations and corrections of a whole room | Enqueue, pass over the turns | `store`, models |
| `rediscache`, `quizcache`, `ttsstore`, `wordlookup`, cached LLM/STT/OIDC clients | cached answers with a TTL | get or compute | Redis, S3 |
| `stt`, `tts`, `recording`, `audiostore` | none | fan-out to engines, uploads | HTTP, S3 |
| `httpserver` | none | REST over the stores and queues | browser |
| web client | rooms, turns, socket, drafts, quiz state | reconnect, poll, answer | HTTP, WebSocket |

What is hard, and what makes each part correct:

* **Durable queue.** Redis commands of several workers, reapers and creators interleave; workers
  die; leases run out under executors that are still alive. A job must stay in one list once, never
  be lost, have one owner at most, be deduplicated exactly, end, and leave no checkpoint behind.
* **Call queue.** Cancellation races a handoff; a lane is deleted while another call queues. One
  call per model, no lane without an owner, and priority order at every handoff.
* **Slots.** The parallel branches of one handler share one slot, which they release and take
  again around model calls. No slot leaks, nobody holds a slot while waiting for a model, admission
  stays bounded.
* **Conversation.** Turns overlap (barge-in), compactions run in the background over a window that
  moves, replies are durable jobs that outlive the turn. Nothing said is forgotten, the greeting is
  first, each reply is shown once and written in the end.
* **Rooms.** Detached goroutines, jobs and backfills write a room's rows late, twice and in any
  order, while connections come and go and the room may be deleted. Nothing may come back after a
  deletion, what is final must stay, what is marked done must be readable.
* **Ending a room.** Correction jobs, requests and visits all end or restudy a room; its summary waits
  for corrections and is folded into a profile that other rooms' summaries change meanwhile. Every
  study that was asked for is written in the end, no note is lost, none of a deleted room remains.
* **Cascades.** Several model calls behind one result, some side by side, each with a checkpoint, under
  overlapping attempts. Nothing finished is paid for again, and a result is published once.
* **Vocabulary, lessons, articles.** Rows with versions and revisions, jobs that compute for minutes
  from a row they read, and learners on stale pages. The learner's choice stands, derived data fits
  what it was derived from, and what is pending will be settled.
* **Cached answers, clips, audio.** Two stores without a transaction between them (Redis and a job,
  S3 and MySQL). What is found is whole and current, what is deleted is gone, nobody waits in vain.
* **Client, start-up, model clients.** I/O and rendering; not modelled.

`PROJECT.json` lists every part with its status, and every hazard at the line where it bites.

## 2. Modules

The queue and what runs on it:

| Module | Models | State, as in the code |
|---|---|---|
| `JobQueue` | one Kind of `asyncjob` | `queue`, `processing`, `dedupe`, `claim`, `ckpt` are the Redis keys; `key` is each job's DedupeKey; `hook` the creators still inside `EnqueueAndTryRun`; `pc`/`held` the goroutines that run jobs, `scan` what each reaper has read; `ended`, `faults` are history |
| `JobLifecycle` | what the queue promises: a job is submitted, is pending, ends once | `key`, `ended` |
| `CallQueue` | `llm.CallQueue` | `lanes`, `waiters` are the map and the lists; a lane is named by the call that made it; `ticket`, `clock` are history that remembers arrival |
| `WorkSlot` | `workslot.Pool` and the claim loop's admission | `active` slots in use; `held`, `waiting`, `mu` are the fields of `slot`; `pc`, `br` the handlers and their branches; `yielded`, `admitted` the claim loop's select |
| `ModelCalls` | `pipeline.runModelCall`: `WorkSlot` composed with `CallQueue` (INSTANCE `Q`) | the two states side by side, the calls being those of the handlers' branches that make one (`Calls`) |
| `Cascade` | `checkpoint`, `workguard` and the Chat, Analysis and Judge calls of `pipeline_analyze.go`, for a writing prompt from its draw to its deletion | `prompt` the row; `stored` the job's checkpoints; `attempt` and `call` what each attempt and its steps in flight do; `claim` who owns the job |

Rooms:

| Module | Models | State, as in the code |
|---|---|---|
| `Conversation` | one connection: `session.Session`, `HandleText`, `runReply`, `compact`, the reply hook and handler, the read loop | `turn`, `history`, `summary` are the session's fields; `pc`, `num` each input's goroutine; `job`, `attempts`, `worker`, `status` its reply job, a pooled attempt at it and its row; `log` is history |
| `Rooms` | the rows of one room and everything that writes them: connections one after another or side by side, `persistEvent`, reply, correction and title jobs, the backfill of a visit, deletion | `session`, `user`, `assistant`, `replyJob`, `correction` are the rows, `deleted` the lifetime; `late` the writes that goroutines and jobs have yet to make |
| `Endings` | finalization, study summary, quiz, profile, restarts and deletion, over the rooms of one learner | `status`, `content`, `profile` are columns; `job`, `fold`, `issues` what each durable job has done; `wanted`, `enqueue` requests between their check, their write and their enqueue |
| `Translations` | live corrections and translations with their preview and detached writes, and the two backfill passes over a room | `transcript`, `replica` the turns' rows; `live` each turn's job with the answer its attempt has; `late` what goroutines have yet to write; `job`, `run` the passes |
| `Recordings` | archived recordings and temporary copies of a room's utterances: saving, playing, deletion of one or of the room | `objects`, `rows`, `copies` are S3 and MySQL; `request` the step that each cascade of a deletion takes next |

Learning:

| Module | Models | State, as in the code |
|---|---|---|
| `Words` | one vocabulary card under the jobs that verify, question, clean and research it, two versions of the server, and a learner on stale pages | `card` the row; `page`, `request` what the learner saw and is about to write; `queue`, `worker` the jobs; `own` (history) the gloss the learner chose |
| `AutoAdd` | the button that adds a batch of words | `status`, `count`, `tracked`; `job`, `run` |
| `Lessons` | nuance lessons: generation, supplement, practice, the saved batch | `lesson`, `batch` the rows; `tasks`, `hand` the jobs |
| `Articles` | one shared article: draw, study, phrases, reopening, translation, sweep, answers, deletion | `article`, `instance` the rows; `drawing`, `form`, `filling` requests and backfills between two statements; `work`, `busy` the jobs |
| `Lookups` | answers kept in Redis alone: definitions, hints, quiz verdicts | `cache` the key; `ask` what each page's request has read; `queue`, `run` the jobs |
| `Clips` | one read-aloud clip: an S3 object and a row, under two versions of the settings | `object`, `index`, `replica`; `user` requests, article jobs and sweeps |

Each Lua script, Redis command, transaction, S3 request or section under a mutex is one action;
whatever is between two of them may be interleaved. The modules meet where the code's components meet:
`ModelCalls` composes the two real modules, not abstractions of them; the others use of the durable
queue only what `JobQueue` establishes, namely deduplication by key until the job has ended, delivery
at least once, and overlapping attempts after a lost claim. `Conversation` follows a connection's
memory, `Rooms` what that and every later connection leave in MySQL, `Endings` what happens once a
room is quiet.

`MCRooms` and `MCLearning` put modules that do not interact side by side in one
instance: `part` says which of them a behaviour is of, and the others' variables rest in one state.

Abstractions. A payload, a model's answer or a message is its identity; time is a
nondeterministic choice (a claim may expire when nobody renews it, and a bounded number of times
although somebody would have; a poll may give up at any moment). A summary is the list of messages
it was written from and a profile the set of rooms folded into it, so that forgetting is visible. A
revision that is only ever compared with a snapshot's is kept as whether the snapshot is stale. A
read-only replica that may lag is a second copy of the row where the code reads it and the
properties can tell. `ModelCalls` lets each branch make one call; a handler's calls one after another
are `Park`/`Resume` repeated in `WorkSlot`.

## 3. Runs

| Run | Instance | What it shows |
|---|---|---|
| `JobQueueFaults` | 2 jobs of one key, 2 executors, 2 reapers, 2 attempts, one crash, one late heartbeat, one reap in the window | entries, ownership, survival of jobs, accounting of attempts |
| `JobQueueExact` | 2 jobs, 2 keys, 2 executors, 1 reaper, a checkpoint, 2 attempts, one crash or one late heartbeat, no reap in the window | exact deduplication, no leaked checkpoint, and refinement of `JobLifecycle!FairSpec` (every job ends) |
| `JobQueueWindow` | no faults but one reap in the window | finding: deduplication breaks |
| `JobQueueOrder` | 2 jobs, 1 worker, no faults | finding: newest first |
| `CallQueue` | 4 calls, 2 models, either priority, any cancellation | owned lanes and handoffs in turn |
| `ModelCalls` | 2 jobs, of 2 branches and of 1, 1 slot, 1 claim loop, 2 models, one of which never answers, 2 contexts that end | slots held exactly when no branch waits, bounded admission; no deadlock between slots and models: jobs of the healthy model end |
| `Conversation` | greeting and 2 texts, window of 3, one fault (job not enqueued, attempt failed or its claim lost, replica dead), compactions one at a time, with and without the hook | memory kept, shown twice only after a lost claim, replies written unless never enqueued or abandoned |
| `ConversationOverlap` | the same, with one overlapping compaction | finding: messages forgotten |
| `ConversationTwice` | the same, without overlap | finding: a reply shown twice |
| `Rooms` | `Rooms`, `Endings`, `Cascade`, `Recordings`: 670 000 states | see below |
| `EndingsTwice` | one room, ended twice | finding: pending for ever |
| `Learning` | `Words`, `AutoAdd`, `Lessons`, `Articles`, `Lookups`, `Clips`, `Translations`: 930 000 states | see below |

In `Rooms`:

* `Rooms` (2 connections, a greeting and 2 texts, 3 late writes, one mishap): nothing of a deleted room
  is ever written again (`NothingSurvivesDeletion`); what a job's row calls done can be read
  (`DoneIsReadable`); texts of successive connections never share a number (`FreshNumbers`); a verdict
  is unread until it is opened, however often it is saved (`UnreadUntilRead`); titles and verdicts are
  never replaced by their placeholders (`ResultsStand`).
* `Endings` (2 rooms, summaries or quizzes, 2 requests or faults): the profile forgets deleted rooms
  (`ForgottenAfterDeletion`) and knows all others (`NotesKept`); a wrap-up has the corrections it could
  wait for (`WrapUpComplete`); what is pending has a job that will write it (`PendingHasJob`).
* `Cascade` (2 attempts, 2 sentences; an Analysis model and a Judge, one Analysis model twice without a
  Judge, neither with 2 mishaps, neither with a deployment, and no queue): a finished step is reused by
  the retry (`WorkReused`), a sentence is published once (`PublishedOnce`), a prompt does not stay
  pending when its job is over (`Settled`).
* `Recordings` (2 utterances in either store, or 1 in both; 2 requests; one fault): no stranded object,
  no listed recording that cannot be played unless it is being deleted, and nothing left by a cascade
  that reported no error (`AudioAccounted`).

In `Learning`:

* `Words` (2 senses in 2 wordings, 2 workers; cleaning with a deployment, the same with research,
  verification with research and 4 requests on stale pages, or with a fault): the learner's gloss is
  never lost (`OriginalKept`), suggestions, question and answers fit the card as it stands
  (`DerivedFits`), a research that is pending is pursued (`ResearchPursued`).
* `Lessons` (2 lessons of 2 questions; 6 acts of practice; a supplement; a generation with 2 faults):
  the saved batch offers exactly the questions that will be accepted, in order (`BatchAligned`), no two
  lessons compare the same words (`NoTwoAlike`).
* `Articles` (2 draws, 2 drafts, 2 workers, one slip, any number of answers at a time): questions,
  translation, phrases and grades agree (`StudyAgrees`).
* `Lookups` (a word asked for twice with 2 mishaps or 3 times with 1, a quiz answer 3 times with 1
  mishap or once with 2): nobody is told that there is nothing although there is (`ToldTheResult`), a
  cached answer stands unless something forked (`CachedStands`).
* `AutoAdd` (2 presses, batches of one and of two words, 2 mishaps): one press, one batch (`OneBatch`).
* `Clips` (3 requests, jobs or sweeps, 2 versions, one fault): what is played is whole and of the current
  settings (`ClipsPlay`).
* `Translations` (2 workers; a turn of the learner and a reply, viewed once, without live jobs and with
  one fault, or with the reply's job and none; a turn of the learner with its job, viewed once without a
  fault, or not viewed with 2 faults; a reply with its job, one view and 2 faults): a turn seen without a
  translation gets one (`ViewedIsFilled`); one that was read stays, but that the preview of a learner's
  own sentence yields to what its job says (`ReadStays`).

**Bounds.** Two jobs are the least at which deduplication, ordering and stealing matter, two
executors and two reapers the least that can race; two attempts, in every run of the queue, reach the
last one with one retry before it, so that a failed handler shortens its claim, is reaped and runs again; one fault of each kind lets each meet every other step, and the proofs remove these
bounds. Four calls put three in one lane, so that the middle of a list is left and passed over. A
window of three with a greeting and two answered texts (five messages) compacts while turns go on.
`MaxAttempts` is 1 there (5 in the code), so that the one failing attempt is the last and the job is
abandoned; a claim that is lost still gives a second attempt. In the other modules two attempts
overlap, the first stale; two requests race, and where a third party matters (two writers and a
reader of a clip) there are three. Scenarios, courses, cases and configurations (constants of those
names) keep together what interacts, and bound requests and faults for each combination. Larger
instances were checked apart from the runs and show the same: `Words` with 4 requests of cleaning and
research under a deployment, and with 5 of verification and one fault; `AutoAdd` with 3 presses; `Translations` with
a learner's turn and its job at one view and 2 faults, and at 2 views and one fault; `JobQueueExact` with a
crash and a late heartbeat together (930 000 states); and the
type invariant `TypeOK` of every module that states one, which the runs leave out.
The history bounds (`MaxCrashes`, `MaxLateRenewals`, `MaxWindowReaps`, `MaxFaults`, `MaxOverlaps`,
`MaxAborts`, `MaxMishaps`, `MaxEvents`, `MaxSlips`) stand in guards and are constants. Symmetry is used
only in runs without liveness, over identities the modules never order.

`CHECK_DEADLOCK FALSE` everywhere: bounded instances use up their jobs, calls or inputs and stop.

**Fairness.** In `JobQueue` the workers' loops and the reaper's ticker run until shutdown: weak
fairness of dispatching, running and reaping, and of the expiry of a claim that nobody renews.
A tick reads every entry of `processing`, but an entry may leave and return between ticks, hence
strong fairness of scanning each job. In `ModelCalls` the handlers' code, the claim loops and the
calls to healthy models go on; a stuck model has no fairness. In `Conversation`, some turn or worker
that can go on does. Nowhere is anybody assumed to enqueue, speak, cancel, crash or disconnect. The
other modules state no fairness: that something ends is said there by an invariant, which names who
can still end it (`PendingHasJob`, `ResearchPursued`, `Settled`); that who can does is the queue's
liveness.

## 4. Proofs

`ListLemmas` states what `Append` and `RemoveAt` do to the elements of a list.

`JobQueueProofs` proves about `Spec`, for any sets of jobs, keys, executors, reapers and steps and
any bounds on faults (`QueueAssumption`):

* `TypeCorrect`, `SingleEntry`, `SingleOwner`, `JobsSurvive`. `OneEntryPerJob` is not inductive: a
  dispatch must know that nobody still runs the attempt it takes. `TokenInv` adds that an executor's
  attempt is behind its job's queued entry and not ahead of one in processing (`HeldBehind`), that
  two executors never hold the same attempt (`TokenUnique`), and that unknown jobs appear nowhere
  (`Known`). A reap increments the attempt, which is why the token fences. `AtMostOneOwner` follows:
  two owners would match one claim, so hold one attempt. `NoJobLost` is one more inductive step on
  top, since a job leaves both lists only through the script that ends it.
* `ContractUntilReaped`: whatever the bounds, until a reaper first acts in the window (`NoEarlyReap`) the
  dedupe set is exact, no checkpoint leaks, no claim is contested and every step is one of
  `JobLifecycle` or a stutter. `ExactInv` adds that a moved entry stays in `processing` until it is claimed
  and that a claim always names the attempt in `processing`. The run `JobQueueWindow` shows that the first such
  reap ends this.
* `DedupeIsExact`, `CheckpointsCleanedUp`, `NeverContested` and `RefinesLifecycle` (`Spec => Lifecycle!Spec`)
  are what is left of it for whole behaviours, under `MaxWindowReaps = 0`. The liveness half
  of `Lifecycle!FairSpec` is checked by TLC only.

`CallQueueProofs` proves `QueueTypes`, `OneCallAtATime`, `NoStrandedLane` and `InTurn` for any
calls and models. `QueueInv` adds that a lane's list holds exactly the queued calls of the lane,
in the order of their tickets, and that a lane in the map was made by a call of its key which has
entered; leaving the middle of a list keeps the order, and the first waiter of the better priority is
then the oldest.

`ConversationProofs` proves, for any number of inputs, window, faults and attempts:

* `ConversationTypes`, `GreetingIsFirst` and `RepliesShown`, from `ConversationInv`. Types alone are
  not inductive: a turn number stays within the inputs because every text read and not yet numbered
  still has one to take, a count of the started turns (`NumbersDistinct`). A reply is shown at most
  once per claim because turns that go on have different numbers, hence different jobs, and an
  attempt that delivered still owns its job or has seen its claim lost (`Delivered`, `JobsOwned`).
* `NothingForgotten`: `MemoryKept` as long as no compaction has begun while another one was running,
  from `OneCompaction`: the one that runs holds the present summary and a prefix of the present
  window, which appends do not move. `ConversationOverlap` shows that the hypothesis is needed.

`AttemptsAreAccounted`, in `JobQueueProofs` too, is separate. The bound counts faults of the whole queue, so the
invariant (`AttemptsInv`) is a payment: what is left of the bound is enough for one more attempt of
each entry whose present one is over (`Covered` says when it is not), and for one more of each
executor that was overtaken by a reaper before its SETNX (`Latecomers`), whose claim will yet make the
next executor leave the job. A crash or a lost claim buys what it takes away; a reap in the window
buys two, which is where the factor in `AttemptsAccounted` is from.

`WorkSlotProofs` proves `SlotTypes`, `NoSlotLeaks` and `AdmissionStaysBounded` for any handlers,
branches, claim loops and slots. `SlotInv` relates what the code keeps apart: the channel's length and
the handlers that hold a slot (`Counted`), `waiting` and the branches in `Wait` (`WaitsCounted`), the
mutex and the branch that resumes (`ResumesAlone`), since it is under the mutex that the slot is waited
for. A slot is then given back by the first branch that waits and taken again by the last that resumes.

It then proves about the composition `ModelCalls`, for any calls and models: `CallsUseSlots`, that every behaviour
of it is one of the pool's, which brings the results above with it; `NoSlotWhileCalling`, that whoever waits for a
model, or is being answered, holds no slot, because a call is in its queue only inside `Wait` (`CallsInside`);
and `ModelsServeOneCall`. The queue's `Spec` is not implemented as it stands, since a job that ends cancels all its
calls in one step and a call that was canceled alone leaves its branch another context; but the
queue's invariant survives any change of the contexts (`ContextsChange` in `CallQueueProofs`), and is
taken from there by INSTANCE.

`RoomsProofs` proves about `Rooms`, for any number of connections, inputs, late writes and mishaps:

* `RoomTypes`, with what it takes to be inductive (`Numbered`): a text that is worked on, or of which a
  write is still to come, was sent and has a number.
* `DeletedForGood`, `FinalResultsStand` and `DoneCanBeRead`, each inductive over the types, from one
  list of all that a step can do to the rows (`RowStep`): every insert is under `WithLiveSession`, and
  every other write is an UPDATE, which makes no row. `DeletedForGood` is what makes a job that ends
  after the deletion harmless.
* `NumbersStayFresh`, from `NumbersInv`: while connections take turns, one at most is open and its
  counter is not below the number of any text, and each number is in the table or about to be written,
  so that the next connection's `LastTurn` is not below it either.
* `MarkedUntilRead`, from `UnreadInv`: the verdict in a row is that of the text with its number
  (`Made`, which needs `NumbersInv`), a verdict still on its way is the same one (`OnItsWay`), and the
  mark is right for it (`Told`). Saving it twice is then harmless on either side of its being opened.

`RowAssumption` (no row is the same as no row) is assumed besides the bounds' types; TLC evaluates it
in every run of `MCRooms`.

`RoomsProofs` proves as much about the modules beside `Rooms` in `MCRooms`. Each result is of the module's own
`Spec` and then of `RoomsSpec`, whose other parts rest; each invariant was checked by TLC on the instance of the run
`Rooms` before it was proved.

* `RecordingsInvariant` and `AudioIsAccounted`. That no audio is left over depends on what each request
  still has before it, so `RecInv` says it of every request at every step: an object is seen to by a saver that
  is to insert its row, or was overtaken by the deletion (`SaversStand`); a cascade that has not failed has taken
  every object that is not yet gone into its `keys`, or is not past the listing (`ArchiveStands`,
  `CopiesStand`, the second by the cursor of `ListObjectsV2`); whoever plays a recording had found its row,
  and it is there unless a request deletes it (`PlayStands`). Assumed: utterances are numbered from 1
  (`RecordingsAssumption`), as the code's cursor is a position.
* `EndingsInvariant`, and from it `DeletedIsForgotten`, `NotesAreKept`, `WrapUpIsComplete` and `PendingKeepsJob`.
  `EndInv` relates each fold between its read and its publication to the rooms: a fold whose snapshot is
  not stale (`Fresh`) knows of deleted rooms only those that `Publish` will look at (`Learned`), and has every note
  that the profile has, unless some job will still put it there (`NoteStands`, `Elsewhere`); a study
  without issues had no correction to wait for, or did not wait (`StudiesWaited`). Assumed: only
  studies are followed, and "no fold" is not a fold (`EndingsAssumption`).
* `CascadeInvariant`, and from it `WorkIsReused`, `PromptIsSettled` and `PublishesOnce`. A step in flight of the
  attempt that owns the job and whose storage works has read the checkpoints as they still are (`StepStands`);
  two identical steps are never both busy (`Apart`), which is why the first to save is the only one; a stage
  that was left has left its input (`StageStands`); an attempt that ended as done has a prompt
  that is settled. A refinement keeps what `SelectSeq` chose, which the provers cannot type, so that `CasInv`
  only says that the fields are there, over some set of values that grows (`Shaped`); nothing else is needed of
  them. Assumed: "no worker" is not a worker, and a configuration lists models (`CascadeAssumption`).

`WordsProofs` proves about `Words`, for any workers, versions, senses and wordings, `WordsInvariant` and from it
`LearnersGloss`, `DerivedOfGloss` and `ResearchHasJob`. `CardFits` is the invariant of a card in itself and
`Kept` what any job or visit does to one, so that each operation is examined once, apart from who runs it.
Between a read and a write the card may have changed: `WordsInv` then says that what a job has read, what a
page showed and what a request asks for is what the card has, or that its revision is behind, and the write
refused (`PageStands`, `RequestStands`, `AskedOfTheCard`, `ResearchKnown`). Assumed: revisions and versions of the
clean-up are numbers, and "nothing" is none of the values (`WordsAssumption`).

`LearningProofs` proves about the modules of `MCLearning`, each from an invariant of its own (those of
`AutoAdd`, `Translations`, `Lookups`, `Articles` and of the order of a practice were checked by TLC first; that of
`LessonsDiffer` adds only that rows have the fields compared to a checked property):

* `PressDrawsOnce` from `AddInv`: one batch is drawn for a press, and every attempt and the job's
  checkpoint have that one (`BatchIs`).
* `CachedClipPlays` from `ClipInv`: at most one request is about to write a clip (`WritesInTurn`), and what it read of
  the object is still so.
* `SeenMissingIsFilled` and `ReadTranslationStays` from `TransInv`: the replica and every pass have read a
  transcript the turn had (`CopiesStand`), and a turn seen without a translation is still before a pass
  that is queued for it (`OwedStands`). For the second, a translation without a rival is one that whatever of
  the turn's own is to come will write again (`Settled`), or is the learner's preview, already written
  (`Previewed`), and no pass is about to write another (`NoRival`). That an attempt's answer is the checkpoint's
  once Judge's was kept, and what may be left of detached writes at each stage, is `Coherent`.
* `AskersAreTold` and `ResultStands` from `LookInv`: unless something forked, the attempts that have begun are of one
  job, which keeps what they write, or keeps nothing and is claimed by the one that writes (`HeldByOne`,
  `OneResult`).
* `ArticleHoldsTogether` from `ArticleInv`: what a job, a form or a backfill read of the row is still so, or its
  condition will refuse the write (`ReadAgrees`).
* `LessonsDiffer`: a lesson that is done compares what it compared, and is inserted under the lock
  that looked for another of its words.
* `BatchStaysAligned` from `BatchInv`: every question that is queued is in the batch once, and the places of a
  lesson's questions rise with the queue (`Ordered`); what is shown is the answer to the head of the queue
  (`Shows`), which is why a missed question goes last in both. Moving one item keeps the order of all others
  (`BatchMoves`), so the other lessons' too. That a list of places in their order is the only one
  (`Ranks`, `ListedSo`) turns the agreement of two orders into the equality of two sequences. A question needs no
  proof of being drawn: a draw gives a lesson what the batch has of it, whatever the shuffle. For the
  provers `Lessons` picks items by their places (`ItemsAt`), as they know nothing of `SelectSeq`.

Assumed of the constants: that the value for "none" is none of the others, that lines of a transcript are numbered,
that a batch is a sequence of words, and that lessons are finitely many, of one question at least
(`AdditionsAssumption`, `ArticlesAssumption`, `LookupsAssumption`,
`ClipsAssumption`, `TranslationsAssumption`, `LessonsAssumption`, all in `MCLearning`, whose run evaluates them).

Checked by TLC only: all liveness, and with it `ImplementsLifecycle`'s fairness, `RepliesPersist` and
`HealthyJobsEnd`, which is out of the provers' reach. Every safety property of the runs that pass is proved.
`OneCallPerKey`, `GreetingFirst` and the type invariants are proved and in no run.

## 5. Where the code and its comments disagree

Shown by a run that expects the violation:

1. `asyncjob/queue.go:92` calls the queue a FIFO; RPUSH with BLMOVE RIGHT makes it a stack. Under a
   lasting backlog the oldest jobs wait longest.
2. A reap between BLMOVE and SETNX (`worker.go:111`, `:154`) requeues an entry a worker then claims,
   runs and completes; its dedupe key is deleted while the job is queued again, so `Pending` is
   wrong and a duplicate can be enqueued. The worker's own check for a contested claim meets only
   one of the outcomes.
3. Two replies in quick succession start two compactions which fold the same messages; the second
   to commit drops as many again, unsummarized (`session/session.go:103`).
4. A reply whose claim is lost between its delivery and the job's completion is delivered again by
   the poll (`transport/reply_job.go:162`).
5. A room that is ended while its study's job is past its write and still holds its key is pending
   for ever: the new job is refused (`transport/session_finalize.go:31`, `:72`).

Modelled, and excepted from the properties by the history variable that is named:

* Rooms. A connection opened while another's last turn is unwritten reuses its number
  (`transport/ws.go:137-141`; `early`). A verdict that comes before its turn's row is lost although
  its job says done (`store/mysql_turns.go:63-66`; `missed`). A second verdict of another attempt marks a
  read one unread (`again`). A late `FailJob` overwrites done. A generated title of an older job may
  replace a newer one.
* Endings. A deletion's rebuild of the profile may be refused by a rebuild already past its write
  (`refused`); studying again may empty a summary that was written since it was checked (`clobbered`);
  a wrap-up misses corrections not yet reserved, or after 90 s (`hurried`).
* Cascades. A prompt stays pending for ever when it could not be enqueued, when its job reads a replica
  that has no row of it yet, or when what fails last is a checkpoint, or the reading
  of the row or of earlier prompts (`lost`).
* Vocabulary. A card is marked as being researched before its job is enqueued and stays so when that
  fails or the job is abandoned (`httpserver/words_research.go:32`; `lost`). An answer given on a stale page
  counts for the card that replaced the one it was asked about, once that has a question (`renewed`).
  `MarkVerified` and `MarkRejected` compare nothing. A failed press of the button that adds words, or
  one after its job's last write, leaves the list pending for ever, and a stale attempt may end a newer
  press's run.
* Lessons. After a draw during a reveal the queue of a lesson has questions that the batch has not
  (`nuance/mysql.go:268-273`, `:425-427`; `inOrder`). A retry while the last attempt's job holds its key
  leaves the lesson pending until the list is polled.
* Articles. Two draws of one article make two instances. Answering is said to be one-shot
  (`newsarticle/newsarticle.go`), but looks and then updates without comparing. Phrases outlive the
  reopening of an article (`reopened`), which then has a new summary. Drawing a failed article
  dispatches nothing.
* The button. A learner who deletes a word that a press has just added leaves a press that reports more than
  is on the list, and a retry adds it again: no deletion is modelled, and `OneBatch` would except it.
* Lookups. Refinements of two owners overwrite each other's verdict, and a stale attempt the result of
  a new job. When Judge fails, a quiz answer's verdict is a fallback of which no checkpoint is kept
  (`pipeline/pipeline_analyze.go:148-153`): an attempt that loses its claim before it writes this one may
  overwrite the other verdict of its own retry, as nothing fences the write
  (`transport/quiz_answer_refine_job.go:68`; `forked`).
* Clips. Two requests after a change of the settings, or a sweep next to a Put, leave a row without
  an object, which is an error on every later request and not a miss; `ClipsPlay` excepts those who overlap
  or who read behind the replica, so that no property covers them (`crossed`, `disturbed`;
  `ttsstore/ttsstore.go:166-174` says of a lagging replica that it costs efficiency only). The package
  names a loop that sweeps; nothing in the repository calls `SweepExpired`.
* Recordings. An upload that ends after the room's deletion leaves a recording of a deleted room; a
  recording saved between the selection and the deletion of the rows, or whose row cannot be inserted,
  leaves an object that nothing can find (`late`; `httpserver/sessions.go:83` wants no orphaned audio).
* Translations. Viewing a room while a turn's own job runs, or before a correction's job has its row, queues a
  pass that later replaces the translation that was shown; a translation made before its turn's row exists
  is lost. A learner's sentence has Chat's translation first and then its job's, which may differ
  (`pipeline/pipeline_correction.go:62-82`), and the first yields to the second (`Yields`). But
  `SaveCorrectionPreview` keeps only a late preview of the correction off the final one: its translation is
  saved by the same UPDATE as the job's (`transport/ws_persist.go:65-66`), and replaces it when it lands last. A
  retry may also bring another answer than the fallback which the attempt before it had told, or has still
  to write, when Judge had failed. All of these are `rivals`.

Seen while reading, not modelled: `replyPollAttempts` is said to outlast `ReplyClaimTTL`
(`transport/reply_job.go:36-42`), but is three minutes against 25 hours; `ReserveAssistantTurn`'s
failure is only logged although completion then updates no row; two answers to one card at once lose
the first one's schedule (`wordreview/mysql.go:347`); clips of a deleted room's messages stay.
`RepliesPersist` excepts a reply whose job was never enqueued (a crash or a Redis error after the
reservation) or was abandoned: its row stays `pending`, and nothing in the code ever ends it.

## 6. Plan

The model is as wide as it is meant to be, and every safety property of the passing runs is proved. What could
follow, in this order:

1. What a queue with early reaps still promises after the first of them: `JobsSurvive`, `SingleOwner` and
   `AttemptsAreAccounted` hold, but no abstract specification says so in one piece.
2. What is proved and in no run, as properties of the composed system: a room's replies (`Conversation`) against
   its rows (`Rooms`).

## 7. Not modelled

Parsing and prompting of models, HTTP handlers without state of their own, identity, configuration,
start-up wiring, migration, audio encoding and the rendering of the web client are I/O or pure
conversion. Besides:

* Conversation: transcribing and drafting a spoken utterance, `Seed` of a resumed room, the periodic
  save of its memory; and a pooled worker that goes on after losing its claim, which writes the row as
  its successor does.
* Failures of MySQL where the code only logs them and goes on, except where a module lists them among its
  faults. A transaction that fails is a step that does not happen.
* Lag of the read-only replica, except where a module has a `replica` or says so: most reads of it are
  of pages that are read again.
* Vocabulary: stage, streak and due date of the review schedule, and what the models are asked.
* Lessons: the log of attempts and the revisions that refuse stale pages.
* Articles: the choice among the feed's candidates, and the run without Redis.
* Articles: a view that reopens an article and enqueues its study does both in one step; a crash in between
  is the enqueue that fails.
* Translations: an answer that is blank counts as one that failed.
* The button that adds words: the deletion of a word it added.
* Lookups: the renewal of a verdict's expiry, and the caches of pure calls (`llm/cached.go`,
  `stt/cached.go`, `identity/cached_oidc.go`).
* The web client: each request is modelled as any page may send it, except the polling of a definition.
