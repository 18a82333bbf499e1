--------------------------- MODULE MCSlidingWindow ---------------------------
(* An instance of SlidingWindow for TLC. *)
EXTENDS SlidingWindow

CONSTANT x

MCStaticLists == {<<>>, <<x>>}
=============================================================================
