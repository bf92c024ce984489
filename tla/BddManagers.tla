------------------------------- MODULE BddManagers -------------------------------
(***************************************************************************)
(* BddManager (semantic_matching.rs): the comparison of two expressions    *)
(* over a pool of variables, which the bits of registers and the bytes     *)
(* that the expressions read are made of.  The left expression stays; the  *)
(* right one is replaced, and its variables are used again.                *)
(*                                                                         *)
(* A function on the pool is kept as the term it was lowered from with the *)
(* variables that its memory reads stood for then.  The diagrams           *)
(* themselves are external.                                                *)
(***************************************************************************)
EXTENDS Canonicalization

CONSTANT ArchitecturalRegisters  \* isa.registers: a sequence of descriptions

Circuits == INSTANCE ExpressionCircuits

(***************************************************************************)
(* The pool: what each variable is allocated to.                           *)
(***************************************************************************)

Unallocated == <<"Unallocated">>
RegisterBit(register, bit) == <<"RegisterBit", register, bit>>
MemoryReadValueBit(id, left, bit) == <<"MemoryReadValueBit", id, left, bit>>

\* Bit by bit through the registers that are wide enough.
RegisterPool ==
  LET registers == ArchitecturalRegisters
      Bits(bit) ==
        LET wide == SelectSeq(registers, LAMBDA r : r.width > bit)
        IN  [i \in DOMAIN wide |-> RegisterBit(wide[i], bit)]
  IN  FlattenSeq([b \in 1 .. Max({r.width : r \in ToSet(registers)}) |-> Bits(b - 1)])

Free(pool) == {i \in DOMAIN pool : pool[i] = Unallocated}

\* The variable that a description is given, and the pool then.
NewVariable(pool, description) ==
  IF Free(pool) # {}
  THEN [index |-> Min(Free(pool)), pool |-> [pool EXCEPT ![Min(Free(pool))] = description]]
  ELSE [index |-> Len(pool) + 1, pool |-> Append(pool, description)]

(***************************************************************************)
(* Words over the pool.                                                    *)
(***************************************************************************)

NotLowered == [expr |-> Panic, reads |-> <<>>]

RegisterVariable(register, bit) ==
  CHOOSE i \in DOMAIN RegisterPool : RegisterPool[i] = RegisterBit(register, bit)

\* Register variables are the same throughout.
RegisterVariables ==
  [r \in ToSet(ArchitecturalRegisters) |-> [b \in 1 .. r.width |-> RegisterVariable(r, b - 1)]]

BitsOf(indices, assignment) == [b \in DOMAIN indices |-> assignment[indices[b]]]

\* The bits of a word under an assignment of the pool.
ValueUnder(word, assignment) ==
  Circuits!LowerExpression(word.expr,
    [registers |-> [r \in DOMAIN RegisterVariables |-> BitsOf(RegisterVariables[r], assignment)],
     reads |-> [read \in DOMAIN word.reads |-> BitsOf(word.reads[read], assignment)]])

\* The reads of a table, as lowering finds them.
ReadsIn(table) ==
  [read \in {<<table[i].address, table[i].width>> : i \in DOMAIN table} |->
     table[CHOOSE i \in DOMAIN table : read = <<table[i].address, table[i].width>>].variables]

Lowered(e, table) == [expr |-> e, reads |-> ReadsIn(table)]

(***************************************************************************)
(* The reads of an expression.  A read in the address of a read is deeper. *)
(***************************************************************************)

RECURSIVE TraverseExpr(_, _, _)
TraverseExpr(e, depth, table) ==
  LET down == IF e.op = "ReadMemory" THEN depth + 1 ELSE depth
      inner == FoldLeft(LAMBDA t, child : TraverseExpr(child, down, t), table, Children(e))
      known == {i \in DOMAIN inner : inner[i].address = e.args[1] /\ inner[i].width = e.n[1]}
  IN  CASE e.op # "ReadMemory" -> inner
        [] e.op = "ReadMemory" /\ known # {} ->
             [inner EXCEPT ![Min(known)].depth = Max({@, depth})]
        [] OTHER ->
             Append(inner, [depth |-> depth, address |-> e.args[1], width |-> e.n[1],
                            lowered |-> NotLowered, variables |-> <<>>])

\* The bits of the reads, as they are given variables: deeper reads first, and
\* bit by bit through the reads of a depth.
BitOrder(table) ==
  LET bits == UNION {{<<i, b>> : b \in 0 .. table[i].width - 1} : i \in DOMAIN table}
      Key(p) == <<0 - table[p[1]].depth, p[2], p[1]>>
      Earlier(p, q) ==
        \E k \in 1 .. 3 : Key(p)[k] < Key(q)[k] /\ \A m \in 1 .. k - 1 : Key(p)[m] = Key(q)[m]
  IN  SetToSortSeq(bits, Earlier)

\* Deeper reads have lower numbers.
ReadId(table, i) ==
  Cardinality({j \in DOMAIN table : \/ table[j].depth > table[i].depth
                                    \/ table[j].depth = table[i].depth /\ j < i})

AssignMemoryReadVariables(manager, left) ==
  LET table == TraverseExpr(IF left THEN manager.leftExpr ELSE manager.rightExpr, 0, <<>>)
      Give(given, p) ==
        LET new == NewVariable(given.pool, MemoryReadValueBit(ReadId(table, p[1]), left, p[2]))
        IN  [pool |-> new.pool,
             table |-> [given.table EXCEPT ![p[1]].variables = Append(@, new.index)]]
      given == FoldLeft(Give, [pool |-> manager.pool, table |-> table], BitOrder(table))
  IN  IF left THEN [manager EXCEPT !.pool = given.pool, !.leftReads = given.table]
      ELSE [manager EXCEPT !.pool = given.pool, !.rightReads = given.table]

FromExprs(left, right) ==
  LET new == [leftExpr |-> left, rightExpr |-> right, pool |-> RegisterPool,
              leftReads |-> <<>>, rightReads |-> <<>>, left |-> NotLowered, right |-> NotLowered]
  IN  AssignMemoryReadVariables(AssignMemoryReadVariables(new, TRUE), FALSE)

(***************************************************************************)
(* Another right expression.                                               *)
(***************************************************************************)

OfRight(description) == description[1] = "MemoryReadValueBit" /\ ~description[3]

\* The variables that the words of a manager were made of.  What is lowered is
\* kept until its expression is replaced.
UsedVariables(manager) ==
  LET Words(table) == {table[i].lowered : i \in DOMAIN table}
      Own(table) == UNION {ToSet(table[i].variables) : i \in DOMAIN table}
      words == {manager.left, manager.right} \cup Words(manager.leftReads) \cup Words(manager.rightReads)
  IN  UNION {UNION {ToSet(word.reads[read]) : read \in DOMAIN word.reads} : word \in words}
      \cup Own(manager.leftReads) \cup Own(manager.rightReads)

\* Without the right expression.
BadCleared(manager, right) == [manager EXCEPT !.rightReads = <<>>, !.rightExpr = right]
Cleared(manager, right) ==
  [manager EXCEPT !.right = NotLowered, !.rightReads = <<>>, !.rightExpr = right]

BadReleased(pool) ==
  [i \in DOMAIN pool |-> IF pool[i][1] = "MemoryReadValueBit" THEN Unallocated ELSE pool[i]]
Released(pool) == [i \in DOMAIN pool |-> IF OfRight(pool[i]) THEN Unallocated ELSE pool[i]]

\* release_variable: no word that is left uses a variable that is released.
MayRelease(manager, right) ==
  {i \in DOMAIN manager.pool : Released(manager.pool)[i] # manager.pool[i]}
    \cap UsedVariables(Cleared(manager, right)) = {}

ReplaceRightExpr(manager, right) ==
  AssignMemoryReadVariables([Cleared(manager, right) EXCEPT !.pool = Released(@)], FALSE)

(***************************************************************************)
(* compare.                                                                *)
(***************************************************************************)

LowerMemory(table) ==
  [i \in DOMAIN table |->
     IF table[i].lowered = NotLowered
     THEN [table[i] EXCEPT !.lowered = Lowered(table[i].address, table)]
     ELSE table[i]]

LowerLeftAndRight(manager) ==
  [manager EXCEPT
     !.left = IF @ = NotLowered THEN Lowered(manager.leftExpr, manager.leftReads) ELSE @,
     !.right = IF @ = NotLowered THEN Lowered(manager.rightExpr, manager.rightReads) ELSE @,
     !.leftReads = LowerMemory(@),
     !.rightReads = LowerMemory(@)]

MemoryReads(manager) == manager.leftReads \o manager.rightReads

\* Reads of the same address have the same value.
Consistent(reads, assignment) ==
  LET addresses == [i \in DOMAIN reads |-> ValueUnder(reads[i].lowered, assignment)]
      values == [i \in DOMAIN reads |-> BitsOf(reads[i].variables, assignment)]
  IN  \A i \in DOMAIN reads : \A j \in 1 .. i - 1 :
        addresses[i] = addresses[j] =>
          \A b \in DOMAIN values[i] \cap DOMAIN values[j] : values[i][b] = values[j][b]

BadBuildMemoryConstraint(manager, assignment) ==
  Consistent(manager.leftReads, assignment) /\ Consistent(manager.rightReads, assignment)
BuildMemoryConstraint(manager, assignment) == Consistent(MemoryReads(manager), assignment)

WordDifference(manager, assignment) ==
  ValueUnder(manager.left, assignment) # ValueUnder(manager.right, assignment)

Assignments(pool) ==
  {[i \in DOMAIN pool |-> i \in true] : true \in SUBSET (DOMAIN pool \ Free(pool))}

\* Of a lowered manager.
Counterexamples(manager) ==
  {a \in Assignments(manager.pool) : WordDifference(manager, a) /\ BuildMemoryConstraint(manager, a)}

\* pick_cube with a choice of FALSE: variable by variable, FALSE where that leaves
\* an assignment.
PickCube(assignments, pool) ==
  LET Choose(left, i) ==
        IF \E a \in left : ~a[i] THEN {a \in left : ~a[i]} ELSE left
  IN  CHOOSE a \in FoldLeftDomain(LAMBDA left, i : Choose(left, i), assignments, pool) : TRUE

NumberOf(bits) == Circuits!ValueOf(bits)
WordOf(bits) == BitWord(NumberOf(bits), Len(bits))

\* The registers, and the bytes that the reads found, the right ones last.
CounterexampleState(manager, assignment) ==
  LET Found(read) ==
        BytesOf(WordOf(ValueUnder(read.lowered, assignment)),
                NumberOf(BitsOf(read.variables, assignment)), read.width)
  IN  [registers |->
         [id \in {r.identifier : r \in ToSet(ArchitecturalRegisters)} |->
            LET r == CHOOSE r \in ToSet(ArchitecturalRegisters) : r.identifier = id
            IN  BitWord(NumberOf(BitsOf(RegisterVariables[r], assignment)), r.width)],
       memory |-> FoldLeft(LAMBDA memory, read : Found(read) @@ memory, <<>>, MemoryReads(manager))]

PickedState(manager, counterexamples) ==
  CounterexampleState(manager, PickCube(counterexamples, manager.pool))
================================================================================
