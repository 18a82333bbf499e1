---------------------------- MODULE MCSolverFlat ----------------------------
(* A positive program: mutual recursion, and a comparison that cannot be   *)
(* evaluated for one binding (a symbol where an integer is needed).        *)
(*   even(X) :- zero(X).                                                   *)
(*   odd(Y)  :- succ(X,Y), even(X).                                        *)
(*   even(Y) :- odd(X), succ(X,Y).                                         *)
(*   both(X) :- odd(X), X > 0, even(X).                                    *)
EXTENDS Solver

CONSTANTS Numbers, Succs, NotANumber

Zero(x) == <<"zero", x>>
Succ(e) == <<"succ", e[1], e[2]>>
Even(x) == <<"even", x>>
Odd(x) == <<"odd", x>>
Both(x) == <<"both", x>>

MCPreds == {"zero", "succ", "even", "odd", "both", "none"}
MCIdb == {"even", "odd", "both"}
MCFacts == {Zero(0)} \union {Succ(e) : e \in Succs} \union
           UNION {{Even(x), Odd(x), Both(x)} : x \in Numbers}
MCPredOf == [f \in MCFacts |-> f[1]]
MCSnapshots == {{Zero(0)} \union {Succ(e) : e \in es} : es \in SUBSET Succs}
MCStratum == [p \in MCIdb |-> 0]

Atom(p, variables) == [kind |-> "atom", pred |-> p, binds |-> variables, needs |-> {}]
Comparison(variables) == [kind |-> "closed", pred |-> "none", binds |-> {}, needs |-> variables]

MCRules ==
  << [head |-> "even", body |-> <<Atom("zero", {"X"})>>],
     [head |-> "odd",  body |-> <<Atom("succ", {"X", "Y"}), Atom("even", {"X"})>>],
     [head |-> "even", body |-> <<Atom("odd", {"X"}), Atom("succ", {"X", "Y"})>>],
     [head |-> "both", body |-> <<Atom("odd", {"X"}), Comparison({"X"}), Atom("even", {"X"})>>] >>

(* Instances whose comparison is false are not instances.                  *)
MCInstances ==
  << {[head |-> Even(0), lit |-> <<Zero(0)>>]},
     {[head |-> Odd(e[2]), lit |-> <<Succ(e), Even(e[1])>>] : e \in Succs},
     {[head |-> Even(e[2]), lit |-> <<Odd(e[1]), Succ(e)>>] : e \in Succs},
     {[head |-> Both(x),
       lit  |-> <<Odd(x), [group |-> {}, present |-> {}, fatal |-> x = NotANumber], Even(x)>>] :
        x \in Numbers \ {0}} >>

MCSuccs == {<<0, 1>>, <<1, 2>>, <<2, 3>>, <<3, 1>>, <<2, 0>>, <<0, 2>>, <<2, 1>>,
            <<1, 3>>}
=============================================================================
