---------------------------- MODULE MCStaticMap ----------------------------
(* An instance of StaticMap: one sequence, two versions of the files. *)
EXTENDS StaticMap

OneCondition == {1}
TwoInputs == {"v1", "v2"}
=============================================================================
