----------------------------- MODULE Recordings -----------------------------
(***************************************************************************)
(* What is kept of the learner's voice in one room: of each utterance an   *)
(* archived recording, which is an S3 object and a row (recording/s3.go),  *)
(* and a temporary copy, which is an S3 object alone                       *)
(* (audiostore/audiostore.go).  Detached goroutines save them              *)
(* (transport/ws.go, ws_audio.go); requests delete the room with all of    *)
(* them, or one recording with its copy (httpserver/sessions.go and        *)
(* recordings.go).  A deployment has either store, or both.                *)
(***************************************************************************)
EXTENDS Naturals, FiniteSets

CONSTANTS
  Utterances,  \* their ids, which order the keys of the copies
  Requests,    \* requests to delete
  None,
  Stores       \* bound: which stores there are, how many utterances and faults

VARIABLES
  stores,
  room,        \* "open" or "deleted"
  saver,       \* what is next for an utterance in either store
  objects, rows, copies,
  request,
  late,        \* history: recordings whose saver failed between the object
               \* and the row, or was under way when the room was deleted
  faults

vars == <<stores, room, saver, objects, rows, copies, request, late, faults>>

Kinds == {"archive", "copies"}

Fault == faults < stores.faults /\ faults' = faults + 1

(* Of a request: the step that each cascade takes next, the objects that it *)
(* is to delete, the last key that it has listed, and whether it failed.   *)
(* History: the utterances that were saved when it began.                  *)
Cascade == [at |-> "ended", keys |-> {}, cursor |-> 0, failed |-> FALSE, due |-> {}]
NoRequest == [kind |-> "none", of |-> None,
              step |-> [k \in Kinds |-> Cascade]]

Init ==
  /\ stores \in Stores
  /\ room = "open"
  /\ saver = [u \in Utterances |-> [k \in Kinds |-> "unsaid"]]
  /\ objects = {} /\ rows = {} /\ copies = {}
  /\ request = [r \in Requests |-> NoRequest]
  /\ late = {} /\ faults = 0

-----------------------------------------------------------------------------
(* The savers.  Neither is stopped by anything but its timeout. *)

Saves(u, k, at) == saver' = [saver EXCEPT ![u][k] = at]

(* A message is taken only while the room exists. *)
Say(u) ==
  /\ room = "open"
  /\ saver[u] = [k \in Kinds |-> "unsaid"]
  /\ u <= stores.upTo
  /\ saver' = [saver EXCEPT ![u] = [k \in Kinds |-> IF k \in stores.kinds THEN "put"
                                                                           ELSE "ended"]]
  /\ UNCHANGED <<stores, room, objects, rows, copies, request, late, faults>>

PutObject(u) ==
  /\ saver[u]["archive"] = "put"
  /\ \/ Saves(u, "archive", "insert") /\ objects' = objects \cup {u} /\ UNCHANGED faults
     \/ Saves(u, "archive", "ended") /\ Fault /\ UNCHANGED objects
  /\ UNCHANGED <<stores, room, rows, copies, request, late>>

InsertRow(u) ==
  /\ saver[u]["archive"] = "insert"
  /\ Saves(u, "archive", "ended")
  /\ \/ rows' = rows \cup {u} /\ UNCHANGED <<late, faults>>
     \/ Fault /\ late' = late \cup {u} /\ UNCHANGED rows
  /\ UNCHANGED <<stores, room, objects, copies, request>>

SaveStream(u) ==
  /\ saver[u]["copies"] = "put"
  /\ Saves(u, "copies", "ended")
  /\ \/ copies' = copies \cup {u} /\ UNCHANGED faults
     \/ Fault /\ UNCHANGED copies
  /\ UNCHANGED <<stores, room, objects, rows, request, late>>

-----------------------------------------------------------------------------
(* Deleting. *)

Saved(k) == {u \in Utterances : saver[u][k] = "ended"}
Saving == {u \in Utterances : saver[u]["archive"] \in {"put", "insert"}}

Begins(k, at) ==
  IF k \in stores.kinds THEN [Cascade EXCEPT !.at = at, !.due = Saved(k)] ELSE Cascade

(* The room goes first, in one transaction; then its audio, of both kinds   *)
(* at a time.  A room that is gone already is deleted again all the same.  *)
DeleteRoom(r) ==
  /\ request[r].kind = "none"
  /\ room' = "deleted"
  /\ request' = [request EXCEPT ![r].kind = "room",
                   ![r].step = [k \in Kinds |-> Begins(k, "select")]]
  /\ late' = late \cup Saving
  /\ UNCHANGED <<stores, saver, objects, rows, copies, faults>>

(* A request about one recording, if its row is found. *)
Asks(r, kind, u, step) ==
  /\ request[r].kind = "none" /\ u \in rows
  /\ request' = [request EXCEPT ![r] =
       [kind |-> kind, of |-> u, step |-> [NoRequest.step EXCEPT !["archive"] = step]]]

DeleteOne(r, u) ==
  /\ Asks(r, "one", u, [Cascade EXCEPT !.at = "objects", !.keys = {u}])
  /\ UNCHANGED <<stores, room, saver, objects, rows, copies, late, faults>>

At(r, k, at) == request[r].step[k].at = at
Step(r, k) == request[r].step[k]
Steps(r, k, s) == request' = [request EXCEPT ![r].step[k] = s]
Fails(r, k) == Steps(r, k, [Step(r, k) EXCEPT !.at = "ended", !.failed = TRUE])

(* The rows of the room say which objects there are. *)
Select(r) ==
  /\ At(r, "archive", "select")
  /\ \/ Steps(r, "archive", [Step(r, "archive") EXCEPT !.at = "objects", !.keys = rows])
        /\ UNCHANGED faults
     \/ Fails(r, "archive") /\ Fault
  /\ UNCHANGED <<stores, room, saver, objects, rows, copies, late>>

Beyond(r) == {u \in copies : u > Step(r, "copies").cursor}

(* Mutation of List: the first page alone. *)
ListFirstPage(r) ==
  /\ At(r, "copies", "select")
  /\ Steps(r, "copies", [Step(r, "copies") EXCEPT
       !.at = "objects", !.keys = {u \in copies : \A v \in copies : u <= v}])
  /\ UNCHANGED <<stores, room, saver, objects, rows, copies, late, faults>>

(* The copies are listed by their prefix, in the order of their keys.       *)
(* Bound: a page is one key.                                               *)
List(r) ==
  LET step == Step(r, "copies") IN
  /\ At(r, "copies", "select")
  /\ \/ /\ IF Beyond(r) = {} THEN Steps(r, "copies", [step EXCEPT !.at = "objects"])
           ELSE LET next == CHOOSE u \in Beyond(r) : \A v \in Beyond(r) : u <= v IN
                Steps(r, "copies", [step EXCEPT !.keys = @ \cup {next}, !.cursor = next])
        /\ UNCHANGED faults
     \/ Fails(r, "copies") /\ Fault
  /\ UNCHANGED <<stores, room, saver, objects, rows, copies, late>>

(* The objects are deleted concurrently.  One that is gone is no error, and *)
(* one that cannot be deleted keeps none of the others.                    *)
DeleteObject(r, k, u) ==
  LET step == [Step(r, k) EXCEPT !.keys = @ \ {u}] IN
  /\ At(r, k, "objects") /\ u \in Step(r, k).keys
  /\ \/ /\ Steps(r, k, step)
        /\ objects' = IF k = "archive" THEN objects \ {u} ELSE objects
        /\ copies' = IF k = "copies" THEN copies \ {u} ELSE copies
        /\ UNCHANGED faults
     \/ /\ Steps(r, k, [step EXCEPT !.failed = TRUE]) /\ Fault
        /\ UNCHANGED <<objects, copies>>
  /\ UNCHANGED <<stores, room, saver, rows, late>>

(* After the last of them a failure ends the cascade, or the rows follow.   *)
DeletedAll(r, k) ==
  /\ At(r, k, "objects") /\ Step(r, k).keys = {}
  /\ Steps(r, k, [Step(r, k) EXCEPT
       !.at = IF k = "archive" /\ ~Step(r, k).failed THEN "rows" ELSE "ended"])
  /\ UNCHANGED <<stores, room, saver, objects, rows, copies, late, faults>>

(* All the rows of the room, whether they were selected or not; or the one  *)
(* of the recording, whose copy follows.                                   *)
DeleteRows(r) ==
  LET ended == [Step(r, "archive") EXCEPT !.at = "ended"]
      copy == [Step(r, "copies") EXCEPT !.at = "objects", !.keys = {request[r].of}]
  IN
  /\ At(r, "archive", "rows")
  /\ \/ /\ IF request[r].kind = "room"
           THEN rows' = {} /\ Steps(r, "archive", ended)
           ELSE /\ rows' = rows \ {request[r].of}
                /\ IF "copies" \in stores.kinds
                   THEN request' = [request EXCEPT ![r].step =
                          [k \in Kinds |-> IF k = "archive" THEN ended ELSE copy]]
                   ELSE Steps(r, "archive", ended)
        /\ UNCHANGED faults
     \/ Fails(r, "archive") /\ Fault /\ UNCHANGED rows
  /\ UNCHANGED <<stores, room, saver, objects, copies, late>>

(* The learner plays a recording of the list: its row is looked up, then    *)
(* its object is read.                                                     *)
Play(r, u) ==
  /\ Asks(r, "play", u, [Cascade EXCEPT !.at = "lookup"])
  /\ UNCHANGED <<stores, room, saver, objects, rows, copies, late, faults>>

Reads(r, at, there, then) ==
  /\ At(r, "archive", at)
  /\ Steps(r, "archive", [Step(r, "archive") EXCEPT
       !.at = IF request[r].of \in there THEN then ELSE "missing"])
  /\ UNCHANGED <<stores, room, saver, objects, rows, copies, late, faults>>

Open(r) == Reads(r, "lookup", rows, "get") \/ Reads(r, "get", objects, "ended")

(* The browser goes away: the request's context is canceled, and whatever   *)
(* it has not done fails.                                                  *)
Disconnect(r) ==
  /\ \E k \in Kinds : Step(r, k).at \notin {"ended", "missing"}
  /\ request' = [request EXCEPT ![r].step =
       [k \in Kinds |-> IF @[k].at \in {"ended", "missing"} THEN @[k]
                        ELSE [@[k] EXCEPT !.at = "ended", !.failed = TRUE]]]
  /\ Fault
  /\ UNCHANGED <<stores, room, saver, objects, rows, copies, late>>

-----------------------------------------------------------------------------
Next ==
  \/ \E u \in Utterances : Say(u) \/ PutObject(u) \/ InsertRow(u) \/ SaveStream(u)
  \/ \E r \in Requests :
       \/ DeleteRoom(r) \/ (\E u \in Utterances : DeleteOne(r, u) \/ Play(r, u))
       \/ Select(r) \/ List(r)
       \/ \E k \in Kinds : DeletedAll(r, k) \/ (\E u \in Utterances : DeleteObject(r, k, u))
       \/ DeleteRows(r) \/ Open(r) \/ Disconnect(r)

Spec == Init /\ [][Next]_vars

-----------------------------------------------------------------------------
(* Every variable keeps its type. *)
TypeOK ==
  /\ room \in {"open", "deleted"}
  /\ saver \in [Utterances -> [Kinds -> {"unsaid", "put", "insert", "ended"}]]
  /\ objects \subseteq Utterances /\ rows \subseteq Utterances
  /\ copies \subseteq Utterances /\ late \subseteq Utterances
  /\ faults \in 0..stores.faults

(* An archived object that no row names can be neither listed nor deleted.  *)
Stranded == {u \in objects \ rows : saver[u]["archive"] # "insert"}

(* A recording whose row outlives its object, and those that have been      *)
(* asked to be deleted.                                                    *)
Unplayable == rows \ objects
Deletes(r, u) == \/ request[r].kind = "room"
                 \/ request[r].kind = "one" /\ request[r].of = u

Unfinished(r) == Step(r, "archive").at # "ended" \/ Step(r, "archive").failed

(* What a request that did not fail has left of the room.                   *)
Left(r, k) ==
  Step(r, k).due \cap (IF k = "archive" THEN rows \cup (objects \ late) ELSE copies)

(* Audio can always be found again, and deleting a room leaves none of it:  *)
(* an object is stranded only by a saver that failed half-way or that the   *)
(* deletion of the room overtook, a row outlives its object only while a    *)
(* request deletes it or because one failed to, a recording that was listed *)
(* is missing only if it has been deleted, and a cascade that reported no   *)
(* error has removed all that was saved when it began, of either kind,      *)
(* whatever other requests do at the time.                                 *)
AudioAccounted ==
  /\ Stranded \subseteq late
  /\ \A u \in Unplayable : \E r \in Requests : Deletes(r, u) /\ Unfinished(r)
  /\ \A r \in Requests :
       At(r, "archive", "missing") => \E q \in Requests : Deletes(q, request[r].of)
  /\ \A r \in Requests, k \in Kinds :
       request[r].kind = "room" /\ At(r, k, "ended") /\ ~Step(r, k).failed
         => Left(r, k) = {}
=============================================================================
