---------------------------- MODULE MCFieldEncodings ----------------------------
(***************************************************************************)
(* Words of four and five bits.  As in the ARM example, two instructions   *)
(* share their constant bits and only their predicates tell them apart     *)
(* (multiplication and data processing there), registers are Uses and      *)
(* immediates VariableBits.                                                *)
(***************************************************************************)
EXTENDS FieldEncodings

Constant(bits) == [name |-> "", pattern |-> bits, uses |-> FALSE, immediate |-> FALSE]
Rd == [name |-> "rd", pattern |-> <<"x", "x">>, uses |-> TRUE, immediate |-> FALSE]
Imm == [name |-> "imm", pattern |-> <<"x", "x">>, uses |-> FALSE, immediate |-> TRUE]

BitEq(i, b) == [op |-> "BitEq", index |-> i, value |-> b]
FieldEq(name, v) == [op |-> "FieldEq", field |-> name, value |-> v]
FieldIn(name, vs) == [op |-> "FieldIn", field |-> name, values |-> vs]
Form(fields, when, excluded) ==
  [fields |-> fields, when |-> when, excluded |-> excluded]

\* The first two forms agree on their constant field; so do the third and the
\* first, of another instruction.  The last form has a wildcard in its predicate,
\* as the parser lets through: nothing decodes to it.
MCInstructions ==
  << << Form(<<Constant(<<"0">>), Rd, Imm>>, <<BitEq(4, "0"), BitEq(5, "0")>>, FALSE),
        Form(<<Constant(<<"0">>), Rd, Imm>>, <<FieldEq("imm", <<"1", "0">>)>>, FALSE) >>,
     << Form(<<Constant(<<"0">>), Rd, Imm>>,
             <<FieldIn("rd", {<<"0", "x">>, <<"1", "1">>}), BitEq(5, "1")>>, TRUE),
        Form(<<Constant(<<"1">>), Imm, Rd>>, <<>>, FALSE) >>,
     << Form(<<Constant(<<"1", "1">>), Rd>>, <<[op |-> "Never"]>>, FALSE) >>,
     << Form(<<Constant(<<"1", "0">>), Rd>>, <<FieldEq("rd", <<"0", "x">>)>>, TRUE) >> >>

\* What the exactness of the patterns is proved from holds here.
ASSUME MCInstructionsAssumption == Unambiguous /\ AllowedAreDefinite

MCGivenForms == {{<<1, 1>>, <<2, 1>>}, {<<1, 2>>, <<2, 2>>, <<3, 1>>}}
==================================================================================
