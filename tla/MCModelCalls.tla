---------------------------- MODULE MCModelCalls ----------------------------
(* A small instance of ModelCalls. *)
EXTENDS ModelCalls

CONSTANTS h1, h2, b1, b2, l1, m1, m2

TwoHandlers == {h1, h2}
TwoBranches == {b1, b2}
OneLoop == {l1}
TwoModels == {m1, m2}
OneStuck == {m1}

(* The first job makes two calls side by side, the second one. *)
ThreeCalls == {<<h1, b1>>, <<h1, b2>>, <<h2, b1>>}

(* One branch of the first job calls the model that never answers. *)
FirstStuck ==
  [hb \in ThreeCalls |-> IF hb = <<h1, b1>> THEN m1 ELSE m2]
=============================================================================
