----------------------------- MODULE MCCaches -----------------------------
(* Instances of DynamicCache: two commits, two inference times. *)
EXTENDS DynamicCache

TwoCommits == {"c1", "c2"}
TwoTimes == {1, 2}
=============================================================================
