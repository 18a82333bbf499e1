----------------------------- MODULE MCInputEdb -----------------------------
(***************************************************************************)
(* Four texts, all but one of which hash to the last slot, so that probe   *)
(* chains wrap around; a batch has up to two facts with up to one term.    *)
(***************************************************************************)
EXTENDS InputEdb, TLC

CONSTANTS te, ta, tb, tc, number, malformed

MCTexts == {te, ta, tb, tc}
MCSize(t) == CASE t = te -> 1 [] t = tc -> 3 [] OTHER -> 2
MCHash(t) == IF t = tc THEN 0 ELSE 7

MCFacts == {<<ta, tb>>, <<tb, tc>>, <<tc, te>>, <<ta, number>>, <<tc, malformed>>, <<tb, ta, ta>>}
MCBatches == {<<f>> : f \in MCFacts} \cup (MCFacts \X MCFacts)

(* The first is small enough to do without the index.                      *)
MCCapacities == {<<2, 4>>, <<3, 5>>, <<3, 7>>}
=============================================================================
