---------------------------- MODULE MCCallQueue -----------------------------
(* A small instance of CallQueue.  (Module ModelCalls composes it with     *)
(* WorkSlot.)                                                              *)
EXTENDS CallQueue, TLC

CONSTANTS c1, c2, c3, c4, m1, m2

FourCalls == {c1, c2, c3, c4}
TwoModels == {m1, m2}

(* Calls and models are interchangeable: only tickets order calls. *)
Symmetry == Permutations(FourCalls) \cup Permutations(TwoModels)
=============================================================================
