--------------------------- MODULE MCOnlineMasks ---------------------------
(* OnlineMasks for TLC. *)
EXTENDS OnlineMasks

MCGaps == {1}
MCWaits == {0, 1}

(* Answers to an earlier run of the same name: about a frame this run asks *)
(* for at another time, and about one it has not reached.                  *)
MCLeftovers == {[frame |-> 0, ts |-> 3, ok |-> TRUE],
                [frame |-> 3, ts |-> 1, ok |-> TRUE]}
===========================================================================
