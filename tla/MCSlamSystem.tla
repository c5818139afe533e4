--------------------------- MODULE MCSlamSystem ---------------------------
(* SlamSystem for TLC. *)
EXTENDS SlamSystem

CONSTANTS g1, g2

OneGBAs == {g1}
TwoGBAs == {g1, g2}
OneGBACallers == {Closer, Main, g1}
TwoGBACallers == {Closer, Main, g1, g2}
===========================================================================
