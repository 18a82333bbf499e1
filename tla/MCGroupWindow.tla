---------------------------- MODULE MCGroupWindow ----------------------------
(***************************************************************************)
(* Two groups, three contributions and two unique facts out of three.  Two *)
(* groups with different lists fit, so eviction and expiry move a slice;   *)
(* two long ones pass the contributions, and a long one with the static    *)
(* fact passes the unique facts.                                           *)
(***************************************************************************)
EXTENDS GroupWindow, TLC

CONSTANTS f1, f2, f3

MCFacts == {f1, f2, f3}
MCPayloads == {<<>>, <<f1, f2>>, <<f2>>}
MCStaticLists == {<<>>, <<f3>>}
=============================================================================
