----------------------------- MODULE MCEndings -----------------------------
(* A small instance of Endings. *)
EXTENDS Endings
CONSTANTS r1
OneChat == {r1}
SummariesOnly == {{"summary"} \X OneChat}
=============================================================================
