------------------------------ MODULE MCWriterPool ------------------------------
(***************************************************************************)
(* Instances of WriterPool: two variables with the Location dimension, one *)
(* of them of strings, the other with a second dimension, and one without. *)
(***************************************************************************)
EXTENDS WriterPool

MixedVariables ==
  <<[usesLocation |-> TRUE, isString |-> FALSE, dimFactor |-> 2],
    [usesLocation |-> FALSE, isString |-> FALSE, dimFactor |-> 1],
    [usesLocation |-> TRUE, isString |-> TRUE, dimFactor |-> 1]>>

OneVariable == <<[usesLocation |-> TRUE, isString |-> FALSE, dimFactor |-> 1]>>

SomePatches == {<<>>, <<FALSE, TRUE>>}
TwoPatches == {<<TRUE>>, <<TRUE, FALSE, TRUE>>}

NoTime == {-1}
FirstTime == {0}
=============================================================================
