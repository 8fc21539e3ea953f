------------------------------ MODULE MCRooms ------------------------------
(***************************************************************************)
(* Small instances of Rooms, of Endings, of Cascade and of Recordings,     *)
(* side by side: `part` says which of them a behaviour is of, and the      *)
(* others' variables rest.                                                 *)
(***************************************************************************)
EXTENDS Rooms, Sequences, TLC

CONSTANTS c1, c2, r1, r2, s1, s2, m1, Chats, Scenarios, MaxEvents, Nobody,
          Workers, Sentences, Loose, Bad, Nothing, Configs, MaxAttempts,
          Utterances, Stores

TwoConns == {c1, c2}
TwoChats == {r1, r2}
BothStudies == {{"summary"} \X TwoChats, {"quiz"} \X TwoChats}

TwoSentences == {s1, s2}

Config(models, judge, queue, deploy, upTo) ==
  [models |-> models, judge |-> judge, queue |-> queue, deploy |-> deploy,
   mishaps |-> upTo]
NoJudge == Config(<<m1, m1>>, FALSE, TRUE, FALSE, 1)
CascadeConfigs ==
  {NoJudge, Config(<<m1>>, TRUE, TRUE, FALSE, 1), Config(<<>>, TRUE, TRUE, FALSE, 2),
   Config(<<>>, FALSE, TRUE, TRUE, 2), Config(<<m1>>, TRUE, FALSE, FALSE, 2)}

Kept(what, upTo, withFaults) == [kinds |-> what, upTo |-> upTo, faults |-> withFaults]
NoStore == Kept({}, 0, 0)
AudioStores == {NoStore, Kept({"archive"}, 2, 1), Kept({"copies"}, 2, 1),
                Kept({"archive", "copies"}, 1, 1)}

(* The Workers of Cascade and the Requests of Recordings are the Chats of   *)
(* Endings.                                                                *)
Symmetry == Permutations(TwoConns) \cup Permutations(TwoChats)
            \cup Permutations(TwoSentences)

VARIABLES part, followed, exists, ended, fix, status, content, job, issues, fold,
          profile, wanted, enqueue, refused, hurried, clobbered, unfolded, asks, faults,
          config, prompt, world, task, claim, tries, stored, attempt, call, lost, misses,
          stores, room, saver, objects, listed, copies, request, overtaken, outages

E == INSTANCE Endings
C == INSTANCE Cascade WITH job <- task, mishaps <- misses
R == INSTANCE Recordings WITH Requests <- Chats, rows <- listed, late <- overtaken,
                              faults <- outages

ASSUME EndingsAssumption == Scenarios \subseteq SUBSET E!Studies /\ Nobody \notin E!Fold

ASSUME CascadeAssumption ==
  /\ Nothing \notin Workers
  /\ \A c \in Configs : Len(c.models) \in Nat /\ c.deploy \in BOOLEAN

ASSUME RecordingsAssumption == Utterances \subseteq Nat \ {0}

endings == <<followed, exists, ended, fix, status, content, job, issues, fold, profile,
             wanted, enqueue, refused, hurried, clobbered, unfolded, asks, faults>>

cascade == <<config, prompt, world, task, claim, tries, stored, attempt, call, lost,
             misses>>

recordings == <<stores, room, saver, objects, listed, copies, request, overtaken, outages>>

(* One state in which each rests. *)
RoomsRest == hooked
EndingsRest == followed = {"summary"} \X TwoChats
CascadeRest == config = NoJudge
RecordingsRest == stores = NoStore

RoomsInit ==
  /\ Init /\ E!Init /\ C!Init /\ R!Init
  /\ part \in {"rooms", "endings", "cascade", "recordings"}
  /\ part = "rooms" \/ RoomsRest
  /\ part = "endings" \/ EndingsRest
  /\ part = "cascade" \/ CascadeRest
  /\ part = "recordings" <=> ~RecordingsRest

RoomsNext ==
  \/ /\ part = "rooms" /\ Next
     /\ UNCHANGED <<part, endings, cascade, recordings>>
  \/ /\ part = "endings" /\ E!Next
     /\ UNCHANGED <<part, vars, cascade, recordings>>
  \/ /\ part = "cascade" /\ C!Next
     /\ UNCHANGED <<part, vars, endings, recordings>>
  \/ /\ part = "recordings" /\ R!Next
     /\ UNCHANGED <<part, vars, endings, cascade>>

RoomsSpec ==
  RoomsInit /\ [][RoomsNext]_<<part, vars, endings, cascade, recordings>>

(* The properties of the other modules, stated there. *)
ForgottenAfterDeletion == E!ForgottenAfterDeletion
NotesKept == E!NotesKept
WrapUpComplete == E!WrapUpComplete
PendingHasJob == E!PendingHasJob
WorkReused == C!WorkReused
Settled == C!Settled
PublishedOnce == C!PublishedOnce
AudioAccounted == R!AudioAccounted
=============================================================================
