----------------------------- MODULE MCJoinPlan -----------------------------
(* Every rule of up to three literals out of fifteen, over three named     *)
(* variables and an anonymous one, with four heads, with and without a     *)
(* planner.                                                                *)
EXTENDS JoinPlan

MCVars == 0 .. 3
MCNamed == 0 .. 2

Atom(args, idb) == [kind |-> "atom", args |-> args, in |-> Const, out |-> Const, idb |-> idb]
Test(kind, args) == [kind |-> kind, args |-> args, in |-> Const, out |-> Const, idb |-> FALSE]
Aggregate(in, args, out) ==
  [kind |-> "aggregate", args |-> args, in |-> in, out |-> out, idb |-> FALSE]

MCLiterals ==
  {Atom(<<0>>, FALSE), Atom(<<0, 1>>, FALSE), Atom(<<1, 2>>, TRUE), Atom(<<Const, 2>>, TRUE),
   Atom(<<3, 0>>, TRUE),
   Test("negated", <<1>>), Test("negated", <<2, 3>>), Test("comparison", <<0, 2>>),
   Test("comparison", <<1, Const>>), Test("filter", <<2>>),
   Aggregate(1, <<0, 1>>, 2), Aggregate(1, <<2, 1, 3>>, 0), Aggregate(2, <<2>>, 0),
   Aggregate(1, <<1, Const>>, 1), Aggregate(0, <<0, 3>>, 1)}

MCRules ==
  {[head |-> h, body |-> b, planner |-> p] :
     p \in BOOLEAN, h \in {{}, {0}, {1, 2}, {0, 2}},
     b \in {<<l>> : l \in MCLiterals} \union {<<l, m>> : l, m \in MCLiterals}
           \union {<<l, m, n>> : l, m, n \in MCLiterals}}
=============================================================================
