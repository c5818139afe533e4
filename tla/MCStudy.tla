------------------------------ MODULE MCStudy ------------------------------
(* An instance of Study: two conditions, two versions of the files. *)
EXTENDS Study

TwoConditions == {1, 2}
TwoInputs == {"v1", "v2"}
TwoCommits == {"c1", "c2"}
=============================================================================
