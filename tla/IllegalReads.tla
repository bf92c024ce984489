----------------------------- MODULE IllegalReads -----------------------------
(***************************************************************************)
(* generated_program_illegal_read_count: how many reads of a generated     *)
(* program are of state it has no business with, because the original      *)
(* program does not read it and the generated one has not written it.      *)
(***************************************************************************)
EXTENDS MachineStates

(***************************************************************************)
(* collect_effect_reads.                                                   *)
(***************************************************************************)

\* The expressions whose value an effect uses, and those it addresses memory with.
Values(e) == {x \in {e.guard, e.value} : x.bytes = 0}
Loads(e) == {x \in {e.guard, e.value} : x.bytes > 0}
Addresses(e) == Loads(e) \cup (IF WritesRegister(e) THEN {} ELSE {e.address})

Bases(expressions) == {x.base : x \in expressions} \ {NoRegister}

\* The stack pointer is free to use in an address, and anywhere in an effect
\* that writes it.
BadRegisterReads(e) == Bases(Values(e)) \ {Sp}
RegisterReads(e) ==
  LET writesSp == WritesRegister(e) /\ e.register = Sp
  IN  (Bases(Values(e)) \ (IF writesSp THEN {Sp} ELSE {})) \cup (Bases(Addresses(e)) \ {Sp})

\* record_memory_read: an access is split into its bytes, each one an expression
\* for its address with a width of one byte.
Key(x, k, bytes) == [base |-> x.base, offset |-> Wrap(x.offset + k), bytes |-> bytes]
MemoryReads(e) ==
  LET Reads(part, x) == {<<part, Key(x, k, 1)>> : k \in 0 .. x.bytes - 1}
  IN  Reads("guard", e.guard) \cup Reads("value", e.value)

\* record_effect_write: an access is kept whole.
RegisterWrites(e) == IF WritesRegister(e) THEN {e.register} ELSE {}
MemoryWrites(e) == IF WritesRegister(e) THEN {} ELSE {Key(e.address, 0, e.bytes)}

(***************************************************************************)
(* The count.                                                              *)
(***************************************************************************)

\* The guard is the constant 0: the effect never happens.
Never(e) == e.guard.base = NoRegister /\ e.guard.bytes = 0 /\ e.guard.offset = 0

\* Where the effects of a program are that may happen, and their order.
EffectAt(p, at) == p[at[1]][at[2]]
Places(p) == {at \in UNION {{i} \X DOMAIN p[i] : i \in DOMAIN p} : ~Never(EffectAt(p, at))}
Earlier(p, at) == {to \in Places(p) : to[1] < at[1] \/ (to[1] = at[1] /\ to[2] < at[2])}

OriginalRegisters(original) == UNION {RegisterReads(EffectAt(original, at)) : at \in Places(original)}
OriginalMemory(original) ==
  {r[2] : r \in UNION {MemoryReads(EffectAt(original, at)) : at \in Places(original)}}

IllegalRegisters(p, at, original) ==
  RegisterReads(EffectAt(p, at))
    \ (OriginalRegisters(original) \cup UNION {RegisterWrites(EffectAt(p, to)) : to \in Earlier(p, at)})
IllegalMemory(p, at, original) ==
  {r \in MemoryReads(EffectAt(p, at)) :
     r[2] \notin OriginalMemory(original)
                   \cup UNION {MemoryWrites(EffectAt(p, to)) : to \in Earlier(p, at)}}

IllegalReadCount(p, original) ==
  Cardinality(UNION {{at} \X IllegalRegisters(p, at, original) : at \in Places(p)})
    + Cardinality(UNION {{at} \X IllegalMemory(p, at, original) : at \in Places(p)})
=============================================================================
