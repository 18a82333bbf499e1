-------------------------- MODULE MCStratification --------------------------
(* Every program of three rules with one literal each and every program of *)
(* two rules with one or two literals, over three predicates.              *)
EXTENDS Stratification

MCLiterals == [pred : Preds, strict : BOOLEAN]
RulesOver(bodies) == [head : Preds, body : bodies]
Singles == {<<l>> : l \in MCLiterals}
Pairs == {<<l, m>> : l \in MCLiterals, m \in MCLiterals}

MCPrograms ==
  {<<r, s, t>> : r \in RulesOver(Singles), s \in RulesOver(Singles), t \in RulesOver(Singles)}
  \union {<<r, s>> : r \in RulesOver(Singles \union Pairs), s \in RulesOver(Singles \union Pairs)}
=============================================================================
