------------------------------ MODULE MCSolver ------------------------------
(* A program with negation, an aggregate and recursion in two strata:      *)
(*   reach(X,Y) :- edge(X,Y).                                              *)
(*   reach(X,Z) :- reach(X,Y), reach(Y,Z).                                 *)
(*   cut(X)     :- node(X), not reach(1,X).                                *)
(*   cut(Y)     :- cut(X), edge(X,Y).                                      *)
(*   total(N)   :- sum(X, reach(1,X), N).     \* overflows above SumLimit  *)
EXTENDS Solver, FiniteSetsExt

CONSTANTS Nodes, SumLimit

Edge(x, y) == <<"edge", x, y>>
Reach(x, y) == <<"reach", x, y>>
Node(x) == <<"node", x>>
Cut(x) == <<"cut", x>>
Total(n) == <<"total", n>>

SumOf(S) == MapThenSumSet(LAMBDA x : x, S)

AllEdges == {Edge(x, y) : x \in Nodes, y \in Nodes} \ {Edge(x, x) : x \in Nodes}

MCPreds == {"edge", "node", "reach", "cut", "total"}
MCIdb == {"reach", "cut", "total"}
MCFacts == AllEdges \union {Reach(x, y) : x \in Nodes, y \in Nodes}
             \union {Node(x) : x \in Nodes} \union {Cut(x) : x \in Nodes}
             \union {Total(n) : n \in 0 .. SumOf(Nodes)}
MCPredOf == [f \in MCFacts |-> f[1]]
MCSnapshots == SUBSET AllEdges
MCPolicy == {Node(x) : x \in Nodes}
MCStratum == [p \in MCIdb |-> IF p = "reach" THEN 0 ELSE 1]

Atom(p, variables) == [kind |-> "atom", pred |-> p, binds |-> variables, needs |-> {}]
Closed(p, in, out) == [kind |-> "closed", pred |-> p, binds |-> out, needs |-> in]

MCRules ==
  << [head |-> "reach", body |-> <<Atom("edge", {"X", "Y"})>>],
     [head |-> "reach", body |-> <<Atom("reach", {"X", "Y"}), Atom("reach", {"Y", "Z"})>>],
     [head |-> "cut",   body |-> <<Closed("reach", {"X"}, {}), Atom("node", {"X"})>>],
     [head |-> "cut",   body |-> <<Atom("edge", {"X", "Y"}), Atom("cut", {"X"})>>],
     [head |-> "total", body |-> <<Closed("reach", {}, {"N"})>>] >>

FromFirst == {Reach(1, x) : x \in Nodes}

Reading(group, present, fatal) == [group |-> group, present |-> present, fatal |-> fatal]

MCInstances ==
  << {[head |-> Reach(e[2], e[3]), lit |-> <<e>>] : e \in AllEdges},
     {[head |-> Reach(x, z), lit |-> <<Reach(x, y), Reach(y, z)>>] :
        x \in Nodes, y \in Nodes, z \in Nodes},
     {[head |-> Cut(x), lit |-> <<Reading({Reach(1, x)}, {}, FALSE), Node(x)>>] : x \in Nodes},
     {[head |-> Cut(e[3]), lit |-> <<e, Cut(e[2])>>] : e \in AllEdges},
     {[head |-> Total(SumOf({f[3] : f \in present})),
       lit  |-> <<Reading(FromFirst, present, SumOf({f[3] : f \in present}) > SumLimit)>>] :
        present \in SUBSET FromFirst} >>
=============================================================================
