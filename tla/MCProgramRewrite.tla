--------------------------- MODULE MCProgramRewrite ---------------------------
(***************************************************************************)
(* A loop that counts down: an instruction before it, two in it, a branch  *)
(* back, and a long multiplication before the program leaves through a     *)
(* register.  The candidate has lost the other multiplications.            *)
(*                                                                         *)
(* The replacements are those of the templates mul_loop_clobber_nzcv,      *)
(* mla_via_mul_add_preserve_nzcv and predicated_branch_guard.              *)
(***************************************************************************)
EXTENDS ProgramRewrite

CONSTANT StaticExpansions  \* whether the hook offers rewrites of static lines

\* n counts, and z is the flag that the conditions look at.
MCRegisters == {"a", "b", "c", "d", "n", "z"}

Line(op, dest, args) ==
  [op |-> op, dest |-> dest, args |-> args, guard |-> "always", label |-> <<>>,
   static |-> FALSE, tag |-> 0, body |-> <<>>, live |-> {}]

Predicated(line) == [line EXCEPT !.guard = "sometimes", !.args = <<"z">> \o line.args]

Mov(d, x) == Line("mov", <<d>>, <<x>>)
Zero(d) == Line("zero", <<d>>, <<>>)
Add(d, x, y) == Line("add", <<d>>, <<x, y>>)
Mul(d, x, y) == Line("mul", <<d>>, <<x, y>>)
Mla(d, x, y, w) == Line("mla", <<d>>, <<x, y, w>>)
Mull(lo, hi, x, y) == Line("mull", <<lo, hi>>, <<x, y>>)
Odd(x) == Line("tst", <<"z">>, <<x>>)
Halve(d, x) == Line("movs", <<d, "z">>, <<x>>)
Countdown == Line("subs", <<"n", "z">>, <<"n">>)
AddNe(d, x, y) == Predicated(Line("addne", <<d>>, <<d, x, y>>))
MulNe(d, x, y) == Predicated(Line("mulne", <<d>>, <<x, y>>))
Pool(d) == [Line("pool", <<d>>, <<>>) EXCEPT !.static = TRUE]
Label(l) == [Line("label", <<>>, <<>>) EXCEPT !.label = l]
Branch(op, l) == [Predicated(Line(op, <<>>, <<>>)) EXCEPT !.label = l, !.static = TRUE]
Leave == Line("bx", <<>>, <<>>)

Body == {Mul("a", "a", "b"), Mla("b", "a", "b", "c"), MulNe("a", "b", "b"), Add("b", "a", "b")}

Loops ==
  {<<before, Label(<<"L">>), inside, last, Countdown, Branch("bne", <<"L">>),
     Mull("c", "d", "a", "b"), Leave>> :
     before \in Body \ {Add("b", "a", "b")}, inside \in Body,
     last \in {MulNe("a", "b", "b"), Add("b", "a", "b")}}

\* A multiplication before the branch to a register, in one block with it; a
\* load from the literal pool, which the candidate has lost too.  And a branch behind
\* the end.
MCSources ==
  {p \in Loops : p[3] # p[4]}
    \cup {<<Mul("b", "a", "a"), Line("bxmul", <<>>, <<"a">>)>>,
          <<Mul("b", "a", "a"), Pool("c"), Mul("a", "b", "c"), Leave>>,
          <<Mul("b", "a", "a"), Branch("bne", <<"L">>), Label(<<"L">>)>>}

MCSupported ==
  {"mov", "zero", "add", "mull", "tst", "movs", "subs", "addne", "bne", "beq", "bx"}
MCRegisterBranches == {"bx", "bxmul"}
MCLabelBranches == {"bne", "beq"}

\* Five bits, so that the loop of the multiplication ends soon.
Word(x) == x % 32
IsZero(x) == IF Word(x) = 0 THEN 1 ELSE 0

\* A predicated operation has the flag for its first argument.
MCMeaning(op, k, v) ==
  CASE op = "mov" -> v[1]
    [] op = "zero" -> 0
    [] op = "add" -> Word(v[1] + v[2])
    [] op = "mul" -> Word(v[1] * v[2])
    [] op = "mla" -> Word(v[1] * v[2] + v[3])
    [] op = "mull" -> IF k = 1 THEN Word(v[1] * v[2]) ELSE (v[1] * v[2]) \div 32
    [] op = "tst" -> IsZero(v[1] % 2)
    [] op = "movs" -> IF k = 1 THEN v[1] \div 2 ELSE IsZero(v[1] \div 2)
    [] op = "subs" -> IF k = 1 THEN Word(v[1] - 1) ELSE IsZero(v[1] - 1)
    [] op = "addne" -> Word(v[3] + v[4])
    [] op = "mulne" -> Word(v[2] * v[3])
    [] op = "pool" -> 23

MCCondition(op, v) == v[1] = IF op = "beq" THEN 1 ELSE 0

Start(a, b, c, d, n, z) ==
  [r \in Registers |-> CASE r = "a" -> a [] r = "b" -> b [] r = "c" -> c
                         [] r = "d" -> d [] r = "n" -> n [] r = "z" -> z]
MCStarts == {Start(11, 7, 29, 19, 1, 0), Start(3, 13, 17, 5, 2, 1)}

\* All runs are over by then.
MCStepCounts == {240}

MulLoop(d, x, y, t, u, l) ==
  <<Mov(t, x), Mov(u, y), Zero(d),
    Label(l), Odd(u), AddNe(d, d, t), Halve(u, u), Add(t, t, t), Branch("bne", l)>>

\* Two registers of a set, in one order.
Pairs(set) == {<<CHOOSE r \in p : TRUE, CHOOSE q \in p : q # CHOOSE r \in p : TRUE>> :
                 p \in {p \in SUBSET set : Cardinality(p) = 2}}

\* mla becomes mul and add; mul becomes a loop; mulne becomes a mul that a branch goes
\* around.
MCExpansions(line, scratchable, n) ==
  LET x == line.args
      d == line.dest[1]
      free == scratchable \ (ToSet(x) \cup ToSet(line.dest) \cup {"z"})
  IN  CASE line.op = "mul" /\ "z" \in scratchable ->
             {MulLoop(d, x[1], x[2], t[1], t[2], Fresh("loop", n)) : t \in Pairs(free)}
        [] line.op = "mla" ->
             {<<Mul(t, x[1], x[2]), Add(d, t, x[3])>> : t \in (scratchable \cup {d}) \ {x[3]}}
        [] line.op = "mulne" ->
             {<<Branch("beq", Fresh("done", n)), Mul(d, x[2], x[3]), Label(Fresh("done", n))>>}
        [] line.op = "pool" /\ StaticExpansions -> {<<Line("add", <<d>>, <<"a", "a">>)>>}
        [] OTHER -> {}

\* The conditions of the theorems on what the hook answers, for the instructions it is
\* asked about.
AskedLines == {m \in Body : m.op \notin MCSupported}
AskedScratch == SUBSET {"b", "c", "d", "z"}

ASSUME LabelsAssumption ==
  \A m \in AskedLines, scratch \in AskedScratch, n \in 0 .. 2 : \A x \in MCExpansions(m, scratch, n) :
    LabelsAreFresh(m, x, n)

ASSUME MeaningAssumption ==
  \A m \in AskedLines, scratch \in AskedScratch : \A x \in MCExpansions(m, scratch, 0) :
    \A regs \in MCStarts : Replicates(m, x, scratch, regs, 0 .. 40)

\* What is compared are whole runs.
ASSUME RunsAreOver ==
  \A p \in MCSources, regs \in MCStarts, n \in MCStepCounts : Run(p, regs)[n].pc \notin DOMAIN p
==============================================================================
