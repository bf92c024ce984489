-------------------------- MODULE MCIsaOptimization --------------------------
(***************************************************************************)
(* An ISA of two instructions: one with a form over an immediate and a     *)
(* form over a register, and a branch that must stay as it is.             *)
(***************************************************************************)
EXTENDS IsaOptimization

MCFields == {"imm", "reg", "off"}
MCForms == {"addi", "addr", "b"}
MCFieldsOf == [addi |-> {"imm"}, addr |-> {"reg"}, b |-> {"off"}]
MCInstructions == <<<<"addi", "addr">>, <<"b">>>>
AnyForm == [n \in {1} |-> {}]
MCUnrestricted == {"b"}
MCVariableFields == {"imm", "off"}
MCRegisterFields == {"reg"}
NothingFixed == [f \in {} |-> {}]
ImmFixed == [f \in {"imm"} |-> Bit]

Instruction(form, field, value, static) ==
  [form |-> form, value |-> [f \in {field} |-> value], static |-> static]

\* The program takes one value of the immediate, and has a static branch.
MCProgram ==
  << Instruction("addi", "imm", 1, FALSE), Instruction("b", "off", 0, TRUE) >>

\* The program does not use the instruction that is mandatory.
BranchOnly == << Instruction("b", "off", 0, TRUE) >>

MCPrograms == {MCProgram, BranchOnly}
==============================================================================
