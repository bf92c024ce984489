------------------------------- MODULE MCGateUsage -------------------------------
(***************************************************************************)
(* Two instruction bits, a flop and three gates, connected in every way    *)
(* that lets the last gate drive the output; and netlists with assign      *)
(* statements, constants and unconnected outputs.                          *)
(***************************************************************************)
EXTENDS GateUsage

Gate(cell, in, out) == [cell |-> cell, in |-> in, out |-> out]

Chain(first, second, third, d) ==
  [inst |-> <<"i0", "i1">>, others |-> {}, outputs |-> {"w3"}, assigns |-> {},
   gates |-> [a |-> Gate(first, <<"i0", "q">>, IF first = "HA" THEN <<"c1", "w1">> ELSE <<"w1">>),
              b |-> Gate(second[1], second[2], <<"w2">>),
              c |-> Gate(third[1], third[2], <<"w3">>)],
   flops |-> [f |-> [d |-> d, q |-> "q"]]]

MCChains ==
  {Chain(first, <<second, in>>, <<third, on>>, d) :
     first \in {"AND2", "XOR2", "HA"}, second \in {"AND2", "XOR2"}, third \in {"AND2", "OR2", "XOR2"},
     in \in {<<"w1", "i1">>, <<"w1", "w1">>, <<"i1", "q">>},
     on \in {<<"w1", "w2">>, <<"w2", "i0">>, <<"w1", "i1">>},
     d \in {"w1", "w2", "w3"}}

Other(gates, assigns, outputs) ==
  [inst |-> <<"i0", "i1">>, others |-> {"p"}, outputs |-> outputs, assigns |-> assigns,
   gates |-> gates, flops |-> [f |-> [d |-> "d", q |-> "q"]]]

Assign(lhs, rhs) == [lhs |-> lhs, rhs |-> rhs]

MCOthers ==
  {\* a gate that only an unused sum of a half adder and a flop over two copies see
   Other([a |-> Gate("HA", <<"p", "i1">>, <<"c", NoWire>>),
          b |-> Gate("MUX2", <<"n", "q", "i0">>, <<"m">>),
          c |-> Gate("AND2", <<"m", "c2">>, <<"e">>)],
         {Assign("c1", "c"), Assign("c2", "c1"), Assign("n", "1"), Assign("d", "e")}, {"m"}),
   \* a copy is the output, and another gate reads the copy
   Other([a |-> Gate("XOR2", <<"i0", "p">>, <<"w">>),
          b |-> Gate("AND2", <<"y", "i1">>, <<"d">>),
          c |-> Gate("INV", <<"w">>, <<"v">>),
          e |-> Gate("AND2", <<"v", "zero">>, <<"u">>)],
         {Assign("y", "w"), Assign("zero", "0"), Assign("zz", "zero")}, {"y", "zz"}),
   \* a gate without connected outputs, and one that only it reads
   Other([a |-> Gate("BUF", <<"p">>, <<"w">>), b |-> Gate("HA", <<"w", "q">>, <<NoWire, NoWire>>),
          c |-> Gate("OR2", <<"i0", "q">>, <<"d">>), e |-> Gate("INV", <<"w">>, <<"v">>)],
         {}, {"q"})}

MCNetlists == MCChains \cup MCOthers

\* A second run over the workspace of the first, where the netlists are few.
MCMaxRuns(n) == IF n \in MCOthers THEN 2 ELSE 1

Pairs == {<<a, b>> : a, b \in Bit}
MCEncodings ==
  {{e} : e \in Pairs} \cup {{<<"0", "x">>, <<"x", "1">>}, {<<"0", "0">>, <<"1", "1">>},
                           {<<"0", "1">>, <<"1", "0">>},
                           {<<"0", "0">>, <<"0", "1">>, <<"1", "1">>}}
==================================================================================
