------------------------ MODULE SuperoptimizationProofs ------------------------
(***************************************************************************)
(* Proofs about the superoptimizer and the check it asks before it accepts *)
(* a program.                                                              *)
(*                                                                         *)
(* The first part is about the execution of programs and the comparison of *)
(* results, and about the pairs of MCSolverEquivalence.  A counterexample  *)
(* of the solver is a total state, and what is executed is that state cut  *)
(* down to the memory that the two programs touch: the two runs agree on   *)
(* all that is compared.                                                   *)
(*                                                                         *)
(* The second part is about the search of Superoptimization, for every     *)
(* instruction set, original program, number of slots and set of random    *)
(* numbers.  The cost of a program is a sum over the counterexamples, so   *)
(* adding tests to the list adds their costs to the sum, and the cost that *)
(* the search keeps beside the program stays the program's own.            *)
(*                                                                         *)
(* The third part joins them: a program that the solver finds equal to the *)
(* original, and that touches no memory of its own, passes every test that *)
(* the search collects.                                                    *)
(***************************************************************************)
EXTENDS Superoptimization, MCSolverEquivalence, Recursion

(***************************************************************************)
(* Powers of two, and the bits of a number.                                *)
(***************************************************************************)

\* There are 2^n sets of n bits.
LEMMA PowerCounts ==
  ASSUME NEW n \in Nat
  PROVE  IsFiniteSet(SUBSET (1 .. n)) /\ Cardinality(SUBSET (1 .. n)) = 2 ^ n
<1>1. IsFiniteSet(1 .. n) /\ Cardinality(1 .. n) = n
  BY FS_Interval
<1> QED BY <1>1, FS_SUBSET

\* Powers of two are positive.
LEMMA PowerPositive ==
  ASSUME NEW n \in Nat
  PROVE  2 ^ n \in Nat /\ 2 ^ n > 0
<1>1. Cardinality(SUBSET (1 .. n)) \in Nat /\ Cardinality(SUBSET (1 .. n)) # 0
  BY PowerCounts, FS_CardinalityType, FS_EmptySet, {} \in SUBSET (1 .. n)
<1> QED BY <1>1, PowerCounts

\* The subsets of 1 .. n + 1 are those of 1 .. n, without and with n + 1.
LEMMA PowerDoubles ==
  ASSUME NEW n \in Nat
  PROVE  2 ^ (n + 1) = 2 * 2 ^ n
<1> DEFINE Without == SUBSET (1 .. n)
           With == {s \cup {n + 1} : s \in Without}
<1>1. SUBSET (1 .. n + 1) = Without \cup With
  <2>1. ASSUME NEW s \in SUBSET (1 .. n + 1), s \notin Without PROVE s \in With
    <3>1. n + 1 \in s
      BY <2>1
    <3>2. s \ {n + 1} \in Without /\ s = (s \ {n + 1}) \cup {n + 1}
      BY <3>1
    <3> QED BY <3>2
  <2>2. (Without \cup With) \subseteq SUBSET (1 .. n + 1)
    <3>1. (1 .. n) \subseteq (1 .. n + 1) /\ n + 1 \in 1 .. n + 1
      OBVIOUS
    <3> QED BY <3>1
  <2> QED BY <2>1, <2>2
<1>2. Without \cap With = {}
  <2>1. n + 1 \notin 1 .. n
    OBVIOUS
  <2> QED BY <2>1
<1>3. [s \in Without |-> s \cup {n + 1}] \in Bijection(Without, With)
  <2> DEFINE f == [s \in Without |-> s \cup {n + 1}]
  <2>1. \A s, t \in Without : f[s] = f[t] => s = t
    <3>1. n + 1 \notin 1 .. n
      OBVIOUS
    <3> SUFFICES ASSUME NEW s \in Without, NEW t \in Without, s \cup {n + 1} = t \cup {n + 1}
                 PROVE  s = t
      OBVIOUS
    <3> QED BY <3>1
  <2>2. f \in [Without -> With] /\ \A y \in With : \E s \in Without : f[s] = y
    OBVIOUS
  <2>3. DOMAIN f = Without
    OBVIOUS
  <2> HIDE DEF f
  <2>4. f \in Bijection(Without, With)
    BY <2>1, <2>2, <2>3 DEF Bijection, Injection, Surjection, IsInjective
  <2> QED BY <2>4 DEF f
<1>4. IsFiniteSet(Without) /\ Cardinality(Without) = 2 ^ n
  BY PowerCounts
<1> HIDE DEF Without, With
<1>5. IsFiniteSet(With) /\ Cardinality(With) = 2 ^ n
  BY <1>3, <1>4, FS_Bijection DEF ExistsBijection
<1>6. Cardinality(Without \cup With) = 2 ^ n + 2 ^ n - 0
  BY SMTT(40), <1>2, <1>4, <1>5, FS_Union, FS_EmptySet
<1>7. Cardinality(SUBSET (1 .. n + 1)) = 2 ^ (n + 1)
  BY PowerCounts
<1>8. 2 ^ (n + 1) = 2 ^ n + 2 ^ n - 0
  BY <1>1, <1>6, <1>7
<1>9. \A x \in Nat : x + x - 0 = 2 * x
  OBVIOUS
<1> QED BY <1>8, <1>9, PowerPositive

\* A word of two bytes.
LEMMA DoubleIsSum ==
  ASSUME NEW n \in Nat
  PROVE  2 ^ (2 * n) = 2 ^ n * 2 ^ n
<1> DEFINE S == {k \in Nat : 2 ^ (n + k) = 2 ^ n * 2 ^ k}
<1>1. 0 \in S
  <2>1. 2 ^ 0 = 1 /\ n + 0 = n /\ 2 ^ n \in Nat
    BY PowerPositive
  <2> QED BY <2>1
<1>2. ASSUME NEW k \in 0 .. n - 1, k \in S PROVE k + 1 \in S
  <2>1. 2 ^ (n + k) \in Nat /\ 2 ^ n \in Nat /\ 2 ^ k \in Nat
    BY PowerPositive
  <2>2. 2 ^ ((n + k) + 1) = 2 * 2 ^ (n + k) /\ 2 ^ (k + 1) = 2 * 2 ^ k
    BY PowerDoubles
  <2>3. n + (k + 1) = (n + k) + 1
    OBVIOUS
  <2>4. 2 * (2 ^ n * 2 ^ k) = 2 ^ n * (2 * 2 ^ k)
    BY <2>1
  <2>5. 2 ^ (n + (k + 1)) = 2 ^ n * 2 ^ (k + 1)
    BY <1>2, <2>2, <2>3, <2>4
  <2> QED BY <2>5
<1> HIDE DEF S
<1>3. 0 .. n \subseteq S
  BY <1>1, <1>2, Counting
<1>4. n \in S /\ 2 * n = n + n
  BY <1>3
<1> QED BY <1>4 DEF S

\* Remainders are below the divisor.
LEMMA Dividing ==
  ASSUME NEW x \in Int, NEW m \in Nat, m > 0
  PROVE  x % m \in 0 .. m - 1 /\ x \div m \in Int
OBVIOUS

\* The quotient is the only number that fits.
LEMMA Quotient ==
  ASSUME NEW x \in Nat, NEW m \in Nat, m > 0, NEW q \in Nat, NEW r \in Nat, r < m, x = m * q + r
  PROVE  x \div m = q
OBVIOUS

\* The last bit of a number, and the rest.
LEMMA Halving ==
  ASSUME NEW x \in Nat
  PROVE  /\ x % 2 \in {0, 1} /\ x \div 2 \in Nat
         /\ x = 2 * (x \div 2) + (x % 2)
OBVIOUS

\* Shifting by one place and then by the others.
LEMMA HalvingFirst ==
  ASSUME NEW x \in Nat, NEW m \in Nat, m > 0
  PROVE  (x \div 2) \div m = x \div (2 * m)
<1> DEFINE h == x \div 2
           b == x % 2
           q == h \div m
           r == h % m
<1>1. h \in Nat /\ b \in {0, 1} /\ x = 2 * h + b
  BY Halving
<1> HIDE DEF h, b
<1>2. q \in Nat /\ r \in 0 .. m - 1 /\ h = m * q + r
  BY <1>1
<1> HIDE DEF q, r
<1>3. x = (2 * m) * q + (2 * r + b) /\ 2 * r + b \in Nat /\ 2 * r + b < 2 * m
  BY <1>1, <1>2
<1>4. 2 * m \in Nat /\ 2 * m > 0
  OBVIOUS
<1>5. x \div (2 * m) = q
  BY <1>2, <1>3, <1>4, Quotient
<1> QED BY <1>5 DEF q, h

\* A number of one bit less.
LEMMA HalfIsSmaller ==
  ASSUME NEW m \in Nat, NEW x \in 0 .. 2 * m - 1
  PROVE  x \div 2 \in 0 .. m - 1
BY Halving

\* Two numbers of n bits that agree in every bit are one.
LEMMA BitsTell ==
  ASSUME NEW n \in Nat, NEW v \in 0 .. 2 ^ n - 1, NEW w \in 0 .. 2 ^ n - 1,
         \A k \in 0 .. n - 1 : (v \div 2 ^ k) % 2 = (w \div 2 ^ k) % 2
  PROVE  v = w
<1> DEFINE Alike(m, x, y) == \A k \in 0 .. m - 1 : (x \div 2 ^ k) % 2 = (y \div 2 ^ k) % 2
           S == {m \in Nat : \A x, y \in 0 .. 2 ^ m - 1 : Alike(m, x, y) => x = y}
<1>1. 0 \in S
  <2>1. 2 ^ 0 = 1
    OBVIOUS
  <2>2. \A x, y \in 0 .. 2 ^ 0 - 1 : x = y
    BY <2>1
  <2> QED BY <2>2
<1>2. ASSUME NEW m \in 0 .. n - 1, m \in S PROVE m + 1 \in S
  <2>1. 2 ^ (m + 1) = 2 * 2 ^ m /\ 2 ^ m \in Nat
    BY PowerDoubles, PowerPositive
  <2>2. ASSUME NEW x \in 0 .. 2 ^ (m + 1) - 1, NEW y \in 0 .. 2 ^ (m + 1) - 1, Alike(m + 1, x, y)
        PROVE  x = y
    <3>1. x \in Nat /\ y \in Nat
      BY <2>1
    <3>2. x \div 2 \in 0 .. 2 ^ m - 1 /\ y \div 2 \in 0 .. 2 ^ m - 1
      BY <2>1, HalfIsSmaller
    <3>3. ASSUME NEW k \in 0 .. m - 1
          PROVE  ((x \div 2) \div 2 ^ k) % 2 = ((y \div 2) \div 2 ^ k) % 2
      <4>1. 2 ^ k \in Nat /\ 2 ^ k > 0 /\ 2 * 2 ^ k = 2 ^ (k + 1)
        BY PowerPositive, PowerDoubles
      <4>2. (x \div 2) \div 2 ^ k = x \div 2 ^ (k + 1) /\ (y \div 2) \div 2 ^ k = y \div 2 ^ (k + 1)
        BY ZenonT(40), <3>1, <4>1, HalvingFirst
      <4>3. k + 1 \in 0 .. (m + 1) - 1
        OBVIOUS
      <4>4. (x \div 2 ^ (k + 1)) % 2 = (y \div 2 ^ (k + 1)) % 2
        BY <2>2, <4>3
      <4> QED BY <4>2, <4>4
    <3>4. x \div 2 = y \div 2
      BY <1>2, <3>2, <3>3
    <3>5. x % 2 = y % 2
      <4>1. 0 \in 0 .. (m + 1) - 1 /\ 2 ^ 0 = 1
        OBVIOUS
      <4>2. (x \div 2 ^ 0) % 2 = (y \div 2 ^ 0) % 2
        BY <2>2, <4>1
      <4>3. x \div 1 = x /\ y \div 1 = y
        BY <3>1
      <4> QED BY <4>1, <4>2, <4>3
    <3> QED BY <3>1, <3>4, <3>5, Halving
  <2>3. m + 1 \in Nat
    OBVIOUS
  <2> HIDE DEF Alike
  <2> QED BY <2>2, <2>3
<1> HIDE DEF S
<1>3. 0 .. n \subseteq S
  BY <1>1, <1>2, Counting
<1>4. n \in S
  BY <1>3
<1> QED BY <1>4 DEF S

(***************************************************************************)
(* Execution stays within machine states.                                  *)
(***************************************************************************)

\* The sizes of bytes and words.
LEMMA Sizes ==
  /\ 2 ^ ByteBits \in Nat /\ 2 ^ ByteBits > 0
  /\ 2 ^ (2 * ByteBits) \in Nat /\ 2 ^ (2 * ByteBits) > 0
  /\ 2 ^ (2 * ByteBits) = 2 ^ ByteBits * 2 ^ ByteBits
<1>1. ByteBits \in Nat /\ 2 * ByteBits \in Nat
  BY MachineAssumption
<1> QED BY <1>1, PowerPositive, DoubleIsSum

\* Two bytes make a word.
LEMMA NumberIsWord ==
  ASSUME NEW low \in Byte, NEW high \in Byte
  PROVE  low + high * 2 ^ ByteBits \in Word
<1> DEFINE m == 2 ^ ByteBits
<1>1. m \in Nat /\ m > 0 /\ low \in 0 .. m - 1 /\ high \in 0 .. m - 1
  BY Sizes DEF Byte
<1>2. Word = 0 .. m * m - 1
  BY Sizes DEF Word
<1> HIDE DEF m
<1>3. high * m \in Nat /\ high * m <= (m - 1) * m
  BY <1>1
<1>4. (m - 1) * m = m * m - m /\ m * m \in Nat
  BY <1>1
<1>5. low + high * m \in Nat /\ low + high * m <= m * m - 1
  BY <1>1, <1>3, <1>4
<1>6. low + high * m \in Word
  BY <1>2, <1>4, <1>5
<1> QED BY <1>6 DEF m

\* What is wrapped is a word.
LEMMA WrapIsWord ==
  ASSUME NEW n \in Int
  PROVE  Wrap(n) \in Word
<1>1. n % 2 ^ (2 * ByteBits) \in 0 .. 2 ^ (2 * ByteBits) - 1
  BY Sizes, Dividing
<1> QED BY <1>1 DEF Wrap, Word

\* Words and bytes are numbers, and there are finitely many.
LEMMA WordsAreNumbers ==
  Word \subseteq Nat /\ Byte \subseteq Nat /\ Byte \subseteq Word /\ 0 \in Byte /\ IsFiniteSet(Word)
<1>1. Word \subseteq Nat /\ Byte \subseteq Nat /\ 0 \in Byte
  BY Sizes DEF Word, Byte
<1>2. Byte \subseteq Word
  <2>1. ASSUME NEW b \in Byte PROVE b \in Word
    <3>1. b + 0 * 2 ^ ByteBits \in Word
      BY <1>1, NumberIsWord
    <3>2. b + 0 * 2 ^ ByteBits = b
      BY <1>1, Sizes
    <3> QED BY <3>1, <3>2
  <2> QED BY <2>1
<1>3. IsFiniteSet(Word)
  BY Sizes, FS_Interval DEF Word
<1> QED BY <1>1, <1>2, <1>3

\* A state is its registers and its memory.
LEMMA StateParts ==
  ASSUME NEW s \in MachineState
  PROVE  /\ s = [registers |-> s.registers, memory |-> s.memory]
         /\ s.registers \in [Registers -> Word]
         /\ s.memory \in [DOMAIN s.memory -> Byte]
         /\ DOMAIN s.memory \subseteq Word
<1>1. PICK A \in SUBSET Word : s.memory \in [A -> Byte]
  BY DEF MachineState
<1>2. s = [registers |-> s.registers, memory |-> s.memory] /\ s.registers \in [Registers -> Word]
  BY DEF MachineState
<1> QED BY <1>1, <1>2

\* And is made of them.
LEMMA IsState ==
  ASSUME NEW f \in [Registers -> Word], NEW A \in SUBSET Word, NEW m \in [A -> Byte]
  PROVE  [registers |-> f, memory |-> m] \in MachineState
BY DEF MachineState

\* A total state is one with all of the memory.
LEMMA TotalStateIsState ==
  ASSUME NEW s \in TotalState
  PROVE  s \in MachineState /\ DOMAIN s.memory = Word
<1>1. s = [registers |-> s.registers, memory |-> s.memory]
      /\ s.registers \in [Registers -> Word] /\ s.memory \in [Word -> Byte]
  BY DEF TotalState
<1>2. [registers |-> s.registers, memory |-> s.memory] \in MachineState
  BY <1>1, IsState
<1> QED BY <1>1, <1>2

\* Addresses are words.
LEMMA AddressIsWord ==
  ASSUME NEW x \in Expression, NEW s \in MachineState
  PROVE  Address(x, s) \in Word
<1>1. x.base = NoRegister \/ s.registers[x.base] \in Word
  BY StateParts DEF Expression
<1> DEFINE base == IF x.base = NoRegister THEN 0 ELSE s.registers[x.base]
<1>2. base \in Int /\ x.offset \in Int
  <2>1. x.offset \in Word
    BY DEF Expression
  <2>2. Word \subseteq Int
    BY WordsAreNumbers
  <2>3. CASE x.base = NoRegister
    <3>1. base = 0
      BY <2>3
    <3> HIDE DEF base
    <3>2. base \in Int
      BY <3>1
    <3> QED BY <2>1, <2>2, <3>2
  <2>4. CASE x.base # NoRegister
    <3>1. base = s.registers[x.base]
      BY <2>4
    <3> HIDE DEF base
    <3> QED BY <1>1, <2>1, <2>2, <2>4, <3>1
  <2> QED BY <2>3, <2>4
<1>3. Address(x, s) = Wrap(base + x.offset)
  BY DEF Address
<1> HIDE DEF base
<1> QED BY <1>2, <1>3, WrapIsWord

\* And so are the cells of an access.
LEMMA CellsAreWords ==
  ASSUME NEW a \in Word, NEW bytes \in 0 .. 2
  PROVE  /\ Cells(a, bytes) \subseteq Word
         /\ bytes > 0 => a \in Cells(a, bytes)
         /\ bytes = 2 => Wrap(a + 1) \in Cells(a, bytes)
<1>1. \A k \in 0 .. bytes - 1 : Wrap(a + k) \in Word
  BY WordsAreNumbers, WrapIsWord
<1>2. Wrap(a + 0) = a
  <2>1. a \in Nat /\ a < 2 ^ (2 * ByteBits)
    BY Sizes DEF Word
  <2>2. \A x, m \in Nat : x < m => x % m = x
    OBVIOUS
  <2>3. a + 0 = a
    BY <2>1
  <2> QED BY <2>1, <2>2, <2>3, Sizes DEF Wrap
<1>3. bytes > 0 => 0 \in 0 .. bytes - 1
  OBVIOUS
<1>4. bytes = 2 => 1 \in 0 .. bytes - 1
  OBVIOUS
<1> QED BY <1>1, <1>2, <1>3, <1>4 DEF Cells

\* An expression has words for values, if any.
LEMMA EvaluateTyped ==
  ASSUME NEW x \in Expression, NEW s \in MachineState
  PROVE  Evaluate(x, s) \subseteq Word
<1> DEFINE a == Address(x, s)
           high == IF x.bytes = 2 THEN s.memory[Wrap(a + 1)] ELSE 0
<1>1. a \in Word /\ x.bytes \in 0 .. 2
  BY AddressIsWord DEF Expression
<1>2. CASE x.bytes = 0
  BY <1>1, <1>2 DEF Evaluate
<1>3. CASE x.bytes > 0 /\ ~(Cells(a, x.bytes) \subseteq DOMAIN s.memory)
  <2>1. Evaluate(x, s) = {}
    BY <1>1, <1>3 DEF Evaluate
  <2> QED BY <2>1
<1>4. CASE x.bytes > 0 /\ Cells(a, x.bytes) \subseteq DOMAIN s.memory
  <2>1. s.memory[a] \in Byte
    BY <1>1, <1>4, CellsAreWords, StateParts
  <2>2. high \in Byte
    BY <1>1, <1>4, CellsAreWords, StateParts, WordsAreNumbers
  <2>3. s.memory[a] + high * 2 ^ ByteBits \in Word
    BY <2>1, <2>2, NumberIsWord
  <2>4. Evaluate(x, s) = {s.memory[a] + high * 2 ^ ByteBits}
    BY <1>1, <1>4 DEF Evaluate
  <2> QED BY <2>3, <2>4
<1> QED BY <1>1, <1>2, <1>3, <1>4

\* A store changes its cells and no others.
LEMMA StoredTyped ==
  ASSUME NEW A \in SUBSET Word, NEW m \in [A -> Byte], NEW a \in Word, NEW bytes \in 1 .. 2,
         NEW v \in Word
  PROVE  /\ Stored(m, a, bytes, v) \in [A \cup Cells(a, bytes) -> Byte]
         /\ A \cup Cells(a, bytes) \subseteq Word
         /\ \A c \in A \ Cells(a, bytes) : Stored(m, a, bytes, v)[c] = m[c]
<1> DEFINE K(c) == CHOOSE k \in 0 .. bytes - 1 : Wrap(a + k) = c
           Part(c) == (v \div 2 ^ (ByteBits * K(c))) % 2 ^ ByteBits
<1>1. ASSUME NEW c \in Cells(a, bytes) PROVE Part(c) \in Byte
  <2>1. K(c) \in 0 .. bytes - 1
    BY <1>1 DEF Cells
  <2>2. ByteBits * K(c) \in Nat
    BY <2>1, MachineAssumption
  <2> HIDE DEF K
  <2>3. v \div 2 ^ (ByteBits * K(c)) \in Int
    BY <2>2, PowerPositive, WordsAreNumbers, Dividing
  <2> QED BY <2>3, Sizes, Dividing DEF Byte
<1>2. Stored(m, a, bytes, v)
        = [c \in A \cup Cells(a, bytes) |-> IF c \in Cells(a, bytes) THEN Part(c) ELSE m[c]]
  BY DEF Stored
<1> HIDE DEF Part
<1>3. Cells(a, bytes) \subseteq Word
  BY CellsAreWords
<1> QED BY <1>1, <1>2, <1>3

\* What an effect does to a state: nothing, or one write.
LEMMA ApplyCases ==
  ASSUME NEW e \in Effect, NEW before \in MachineState, NEW after \in MachineState
  PROVE  LET happens == \E g \in Evaluate(e.guard, before) : g # 0
             values == Evaluate(e.value, before)
             v == CHOOSE v \in values : TRUE
             memory == Stored(after.memory, Address(e.address, before), e.bytes, v)
         IN  \/ /\ ~happens \/ values = {}
                /\ Apply(e, before, after) = after
             \/ /\ happens /\ values # {} /\ WritesRegister(e) /\ v \in Word
                /\ Apply(e, before, after)
                     = [registers |-> [after.registers EXCEPT ![e.register] = v],
                        memory |-> after.memory]
             \/ /\ happens /\ values # {} /\ ~WritesRegister(e) /\ v \in Word
                /\ Apply(e, before, after) = [registers |-> after.registers, memory |-> memory]
<1> DEFINE happens == \E g \in Evaluate(e.guard, before) : g # 0
           values == Evaluate(e.value, before)
           v == CHOOSE v \in values : TRUE
           memory == Stored(after.memory, Address(e.address, before), e.bytes, v)
<1>1. after = [registers |-> after.registers, memory |-> after.memory]
  BY StateParts
<1>2. CASE ~happens \/ values = {}
  BY <1>2 DEF Apply
<1>3. CASE happens /\ values # {}
  <2>1. v \in values
    BY <1>3
  <2>2. values \subseteq Word
    <3>1. e.value \in Expression
      BY DEF Effect, RegisterEffect, MemoryEffect
    <3> QED BY <3>1, EvaluateTyped
  <2>3. v \in Word
    BY <2>1, <2>2
  <2>4. CASE WritesRegister(e)
    <3>1. Apply(e, before, after) = [after EXCEPT !.registers[e.register] = v]
      BY <1>3, <2>4 DEF Apply
    <3> HIDE DEF v, values, happens
    <3>2. [after EXCEPT !.registers[e.register] = v]
            = [registers |-> [after.registers EXCEPT ![e.register] = v], memory |-> after.memory]
      BY <1>1
    <3> QED BY <1>3, <2>3, <2>4, <3>1, <3>2 DEF v, values, happens
  <2>5. CASE ~WritesRegister(e)
    <3>1. Apply(e, before, after) = [after EXCEPT !.memory = memory]
      BY <1>3, <2>5 DEF Apply
    <3> HIDE DEF memory
    <3>2. [after EXCEPT !.memory = memory] = [registers |-> after.registers, memory |-> memory]
      BY <1>1
    <3> QED BY <1>3, <2>3, <2>5, <3>1, <3>2 DEF memory
  <2> QED BY <2>4, <2>5
<1> QED BY <1>2, <1>3

\* The parts of an effect.
LEMMA EffectParts ==
  ASSUME NEW e \in Effect
  PROVE  /\ e.guard \in Expression /\ e.value \in Expression
         /\ WritesRegister(e) => e.register \in Registers
         /\ ~WritesRegister(e) => /\ e.address \in Expression /\ e.address.bytes = 0
                                  /\ e.bytes \in 1 .. 2
<1>1. CASE e \in RegisterEffect
  <2>1. WritesRegister(e)
    BY <1>1 DEF WritesRegister, RegisterEffect
  <2> QED BY <1>1, <2>1 DEF RegisterEffect
<1>2. CASE e \in MemoryEffect
  <2>1. ~WritesRegister(e)
    BY <1>2 DEF WritesRegister, MemoryEffect
  <2> QED BY <1>2, <2>1 DEF MemoryEffect
<1> QED BY <1>1, <1>2 DEF Effect

\* An effect leaves a state.
LEMMA ApplyTyped ==
  ASSUME NEW e \in Effect, NEW before \in MachineState, NEW after \in MachineState
  PROVE  Apply(e, before, after) \in MachineState
<1> DEFINE v == CHOOSE v \in Evaluate(e.value, before) : TRUE
           memory == Stored(after.memory, Address(e.address, before), e.bytes, v)
<1>1. \/ Apply(e, before, after) = after
      \/ /\ WritesRegister(e) /\ v \in Word
         /\ Apply(e, before, after)
              = [registers |-> [after.registers EXCEPT ![e.register] = v], memory |-> after.memory]
      \/ /\ ~WritesRegister(e) /\ v \in Word
         /\ Apply(e, before, after) = [registers |-> after.registers, memory |-> memory]
  BY ZenonT(40), ApplyCases
<1> HIDE DEF v
<1>2. CASE v \in Word /\ WritesRegister(e)
  <2>1. [after.registers EXCEPT ![e.register] = v] \in [Registers -> Word]
    BY <1>2, StateParts, EffectParts
  <2>2. [registers |-> [after.registers EXCEPT ![e.register] = v], memory |-> after.memory] \in MachineState
    BY <2>1, StateParts, IsState
  <2> QED BY <1>1, <1>2, <2>2
<1>3. CASE v \in Word /\ ~WritesRegister(e)
  <2>1. Address(e.address, before) \in Word /\ e.bytes \in 1 .. 2
    BY <1>3, EffectParts, AddressIsWord
  <2>2. /\ memory \in [DOMAIN after.memory \cup Cells(Address(e.address, before), e.bytes) -> Byte]
        /\ DOMAIN after.memory \cup Cells(Address(e.address, before), e.bytes) \subseteq Word
    BY ZenonT(40), <1>3, <2>1, StateParts, StoredTyped
  <2> HIDE DEF memory
  <2>3. [registers |-> after.registers, memory |-> memory] \in MachineState
    BY <2>2, StateParts, IsState
  <2> QED BY <1>1, <1>3, <2>3
<1> QED BY <1>1, <1>2, <1>3

\* The recursions of an instruction and of a program.
LEMMA EffectedFollows ==
  ASSUME NEW es \in Seq(Effect), NEW s \in MachineState
  PROVE  /\ Effected(es, s) \in [0 .. Len(es) -> MachineState]
         /\ Effected(es, s)[0] = s
         /\ \A j \in 1 .. Len(es) : Effected(es, s)[j] = Apply(es[j], s, Effected(es, s)[j - 1])
<1> DEFINE n == Len(es)
           step == [j \in 1 .. n |-> [t \in MachineState |-> Apply(es[j], s, t)]]
           Good(f) == f = [j \in 0 .. n |-> IF j = 0 THEN s ELSE Apply(es[j], s, f[j - 1])]
<1>1. n \in Nat /\ \A j \in 1 .. n : es[j] \in Effect
  OBVIOUS
<1>2. step \in [1 .. n -> [MachineState -> MachineState]]
  BY <1>1, ApplyTyped
<1>3. PICK f \in [0 .. n -> MachineState] : Follows(f, n, s, step)
  <2> HIDE DEF step, n
  <2> QED BY <1>1, <1>2, RecursionExists
<1>4. Good(f)
  <2>1. f[0] = s /\ \A j \in 1 .. n : f[j] = step[j][f[j - 1]]
    BY <1>3 DEF Follows
  <2>2. ASSUME NEW j \in 0 .. n, j # 0 PROVE f[j] = Apply(es[j], s, f[j - 1])
    <3>1. j \in 1 .. n /\ j - 1 \in 0 .. n
      BY <1>1, <2>2
    <3>2. f[j - 1] \in MachineState
      BY <1>3, <3>1
    <3>3. step[j][f[j - 1]] = Apply(es[j], s, f[j - 1])
      BY <3>1, <3>2
    <3> HIDE DEF step
    <3> QED BY <2>1, <3>1, <3>3
  <2> HIDE DEF step, n
  <2> QED BY SMTT(40), <1>3, <2>1, <2>2
<1>5. Effected(es, s) = CHOOSE g : Good(g)
  BY DEF Effected
<1> DEFINE g == Effected(es, s)
<1>6. Good(g)
  <2> HIDE DEF Good
  <2> QED BY <1>4, <1>5
<1> HIDE DEF g
<1>7. g \in [0 .. n -> MachineState]
  <2> DEFINE S == {j \in 0 .. n : g[j] \in MachineState}
  <2>1. 0 \in S
    BY <1>1, <1>6
  <2>2. ASSUME NEW j \in 0 .. n - 1, j \in S PROVE j + 1 \in S
    <3>1. j + 1 \in 0 .. n /\ j + 1 # 0 /\ j + 1 \in 1 .. n /\ (j + 1) - 1 = j
      BY <1>1
    <3>2. g[j + 1] = Apply(es[j + 1], s, g[j])
      BY <1>6, <3>1
    <3>3. g[j + 1] \in MachineState
      BY <1>1, <2>2, <3>1, <3>2, ApplyTyped
    <3> QED BY <3>1, <3>3
  <2> HIDE DEF S
  <2>3. 0 .. n \subseteq S
    BY <1>1, <2>1, <2>2, Counting
  <2>4. \A j \in 0 .. n : g[j] \in MachineState
    BY <2>3 DEF S
  <2> HIDE DEF n
  <2> QED BY <1>6, <2>4
<1>8. g[0] = s /\ \A j \in 1 .. n : g[j] = Apply(es[j], s, g[j - 1])
  BY <1>1, <1>6
<1> QED BY <1>7, <1>8 DEF g

\* An instruction leaves a state.
LEMMA StepTyped ==
  ASSUME NEW es \in Seq(Effect), NEW s \in MachineState
  PROVE  Step(es, s) \in MachineState
<1>1. Len(es) \in 0 .. Len(es)
  OBVIOUS
<1> QED BY <1>1, EffectedFollows DEF Step

\* A run goes instruction by instruction.
LEMMA RunFollows ==
  ASSUME NEW p \in Seq(Instructions), NEW s \in MachineState
  PROVE  /\ Run(p, s) \in [0 .. Len(p) -> MachineState]
         /\ Run(p, s)[0] = s
         /\ \A i \in 1 .. Len(p) : Run(p, s)[i] = Step(p[i], Run(p, s)[i - 1])
         /\ Execute(p, s) \in MachineState
<1> DEFINE n == Len(p)
           step == [i \in 1 .. n |-> [t \in MachineState |-> Step(p[i], t)]]
           Good(f) == f = [i \in 0 .. n |-> IF i = 0 THEN s ELSE Step(p[i], f[i - 1])]
<1>1. n \in Nat /\ \A i \in 1 .. n : p[i] \in Seq(Effect)
  BY DEF Instructions
<1>2. step \in [1 .. n -> [MachineState -> MachineState]]
  BY <1>1, StepTyped
<1>3. PICK f \in [0 .. n -> MachineState] : Follows(f, n, s, step)
  <2> HIDE DEF step, n
  <2> QED BY <1>1, <1>2, RecursionExists
<1>4. Good(f)
  <2>1. f[0] = s /\ \A i \in 1 .. n : f[i] = step[i][f[i - 1]]
    BY <1>3 DEF Follows
  <2>2. ASSUME NEW i \in 0 .. n, i # 0 PROVE f[i] = Step(p[i], f[i - 1])
    <3>1. i \in 1 .. n /\ i - 1 \in 0 .. n
      BY <1>1, <2>2
    <3>2. f[i - 1] \in MachineState
      BY <1>3, <3>1
    <3>3. step[i][f[i - 1]] = Step(p[i], f[i - 1])
      BY <3>1, <3>2
    <3> HIDE DEF step
    <3> QED BY <2>1, <3>1, <3>3
  <2> HIDE DEF step, n
  <2> QED BY <1>3, <2>1, <2>2
<1>5. Run(p, s) = CHOOSE g : Good(g)
  BY DEF Run
<1> DEFINE g == Run(p, s)
<1>6. Good(g)
  <2> HIDE DEF Good
  <2> QED BY <1>4, <1>5
<1> HIDE DEF g
<1>7. g \in [0 .. n -> MachineState]
  <2> DEFINE S == {i \in 0 .. n : g[i] \in MachineState}
  <2>1. 0 \in S
    BY <1>1, <1>6
  <2>2. ASSUME NEW i \in 0 .. n - 1, i \in S PROVE i + 1 \in S
    <3>1. i + 1 \in 0 .. n /\ i + 1 # 0 /\ i + 1 \in 1 .. n /\ (i + 1) - 1 = i
      BY <1>1
    <3>2. g[i + 1] = Step(p[i + 1], g[i])
      BY <1>6, <3>1
    <3>3. g[i + 1] \in MachineState
      BY <1>1, <2>2, <3>1, <3>2, StepTyped
    <3> QED BY <3>1, <3>3
  <2> HIDE DEF S
  <2>3. 0 .. n \subseteq S
    BY <1>1, <2>1, <2>2, Counting
  <2>4. \A i \in 0 .. n : g[i] \in MachineState
    BY <2>3 DEF S
  <2> HIDE DEF n
  <2> QED BY <1>6, <2>4
<1>8. g[0] = s /\ \A i \in 1 .. n : g[i] = Step(p[i], g[i - 1])
  BY SMTT(40), <1>1, <1>6
<1>9. n \in 0 .. n
  BY <1>1
<1> QED BY <1>7, <1>8, <1>9 DEF g, Execute

(***************************************************************************)
(* A program runs on a state that is cut down to the memory it touches as  *)
(* it does on the whole state.                                             *)
(***************************************************************************)

Cut(s, A) == [s EXCEPT !.memory = Restrict(@, A)]

\* The memory that an effect touches.
Touched(e, s) ==
  (UNION {Cells(Address(x, s), x.bytes) : x \in {e.guard, e.value}})
    \cup (IF WritesRegister(e) THEN {} ELSE Cells(Address(e.address, s), e.bytes))

\* A state with all of the memory is total.
LEMMA IsTotal ==
  ASSUME NEW s \in MachineState, DOMAIN s.memory = Word
  PROVE  s \in TotalState
BY StateParts DEF TotalState

\* A state with less of its memory is a state.
LEMMA CutParts ==
  ASSUME NEW s \in TotalState, NEW A \in SUBSET Word
  PROVE  /\ Cut(s, A) = [registers |-> s.registers, memory |-> [a \in A |-> s.memory[a]]]
         /\ Cut(s, A) \in MachineState
<1>1. s = [registers |-> s.registers, memory |-> s.memory]
  BY TotalStateIsState, StateParts
<1>2. Cut(s, A) = [registers |-> s.registers, memory |-> [a \in A |-> s.memory[a]]]
  BY <1>1 DEF Cut, Restrict
<1>3. s.registers \in [Registers -> Word] /\ [a \in A |-> s.memory[a]] \in [A -> Byte]
  BY TotalStateIsState, StateParts
<1>4. [registers |-> s.registers, memory |-> [a \in A |-> s.memory[a]]] \in MachineState
  BY <1>3, IsState
<1> QED BY <1>2, <1>4

\* An expression has its value as long as what it loads is left.
LEMMA EvaluateCut ==
  ASSUME NEW x \in Expression, NEW s \in TotalState, NEW A \in SUBSET Word,
         Cells(Address(x, s), x.bytes) \subseteq A
  PROVE  /\ Address(x, Cut(s, A)) = Address(x, s)
         /\ Evaluate(x, Cut(s, A)) = Evaluate(x, s)
<1> DEFINE a == Address(x, s)
           m == [c \in A |-> s.memory[c]]
<1>1. Cut(s, A).registers = s.registers /\ Cut(s, A).memory = m
  BY CutParts
<1>2. Address(x, Cut(s, A)) = a
  BY <1>1 DEF Address
<1>3. s \in MachineState /\ DOMAIN s.memory = Word /\ a \in Word /\ x.bytes \in 0 .. 2
  BY TotalStateIsState, AddressIsWord DEF Expression
<1> HIDE DEF a
<1>4. CASE x.bytes = 0
  BY <1>2, <1>4 DEF Evaluate, a
<1>5. CASE x.bytes = 1
  <2>1. a \in A
    BY <1>3, <1>5, CellsAreWords DEF a
  <2>2. m[a] = s.memory[a] /\ DOMAIN m = A /\ Cells(a, x.bytes) \subseteq A /\ Cells(a, x.bytes) \subseteq Word
    BY <2>1 DEF a
  <2> HIDE DEF m
  <2>3. Evaluate(x, Cut(s, A)) = {m[a] + 0 * 2 ^ ByteBits}
    BY <1>1, <1>2, <1>5, <2>2 DEF Evaluate, a
  <2>4. Evaluate(x, s) = {s.memory[a] + 0 * 2 ^ ByteBits}
    BY <1>3, <1>5, <2>2 DEF Evaluate, a
  <2> QED BY <1>2, <2>2, <2>3, <2>4 DEF a
<1>6. CASE x.bytes = 2
  <2>1. a \in A /\ Wrap(a + 1) \in A
    BY <1>3, <1>6, CellsAreWords DEF a
  <2>2. /\ m[a] = s.memory[a] /\ m[Wrap(a + 1)] = s.memory[Wrap(a + 1)]
        /\ DOMAIN m = A /\ Cells(a, x.bytes) \subseteq A /\ Cells(a, x.bytes) \subseteq Word
    BY <2>1 DEF a
  <2> HIDE DEF m
  <2>3. Evaluate(x, Cut(s, A)) = {m[a] + m[Wrap(a + 1)] * 2 ^ ByteBits}
    BY <1>1, <1>2, <1>6, <2>2 DEF Evaluate, a
  <2>4. Evaluate(x, s) = {s.memory[a] + s.memory[Wrap(a + 1)] * 2 ^ ByteBits}
    BY <1>3, <1>6, <2>2 DEF Evaluate, a
  <2> QED BY <1>2, <2>2, <2>3, <2>4 DEF a
<1> QED BY <1>2, <1>3, <1>4, <1>5, <1>6 DEF a

\* A store and a cut commute as long as the cells are left.
LEMMA StoredCut ==
  ASSUME NEW m, DOMAIN m = Word, NEW A \in SUBSET Word, NEW a, NEW bytes, NEW v,
         Cells(a, bytes) \subseteq A
  PROVE  Stored([c \in A |-> m[c]], a, bytes, v) = [c \in A |-> Stored(m, a, bytes, v)[c]]
<1>1. A \cup Cells(a, bytes) = A /\ Word \cup Cells(a, bytes) = Word
  OBVIOUS
<1> QED BY <1>1 DEF Stored

\* An effect and a cut commute as long as what it touches is left.
LEMMA ApplyCut ==
  ASSUME NEW e \in Effect, NEW before \in TotalState, NEW after \in TotalState,
         NEW A \in SUBSET Word, Touched(e, before) \subseteq A
  PROVE  /\ Apply(e, Cut(before, A), Cut(after, A)) = Cut(Apply(e, before, after), A)
         /\ Apply(e, before, after) \in TotalState
<1> DEFINE values == Evaluate(e.value, before)
           happens == \E g \in Evaluate(e.guard, before) : g # 0
           v == CHOOSE w \in values : TRUE
           at == Address(e.address, before)
           result == Apply(e, before, after)
           cut == Apply(e, Cut(before, A), Cut(after, A))
<1>1. /\ before \in MachineState /\ after \in MachineState
      /\ Cut(before, A) \in MachineState /\ Cut(after, A) \in MachineState
      /\ DOMAIN after.memory = Word
  BY TotalStateIsState, CutParts
<1>2. /\ Evaluate(e.value, Cut(before, A)) = values
      /\ Evaluate(e.guard, Cut(before, A)) = Evaluate(e.guard, before)
  BY EvaluateCut, EffectParts DEF Touched
<1>3. ~WritesRegister(e) => /\ Address(e.address, Cut(before, A)) = at
                            /\ Cells(at, e.bytes) \subseteq A
  <2>1. Cut(before, A).registers = before.registers
    BY CutParts
  <2> QED BY <2>1 DEF Touched, Address
<1>4. /\ Cut(after, A).registers = after.registers
      /\ Cut(after, A).memory = [a \in A |-> after.memory[a]]
  BY CutParts
<1>5. Cut(after, A) = [registers |-> after.registers, memory |-> [a \in A |-> after.memory[a]]]
  BY CutParts
<1> HIDE DEF at
<1>6. \/ /\ ~happens \/ values = {}
         /\ result = after /\ cut = Cut(after, A)
      \/ /\ WritesRegister(e)
         /\ result = [registers |-> [after.registers EXCEPT ![e.register] = v], memory |-> after.memory]
         /\ cut = [registers |-> [after.registers EXCEPT ![e.register] = v],
                   memory |-> [a \in A |-> after.memory[a]]]
      \/ /\ ~WritesRegister(e)
         /\ result = [registers |-> after.registers, memory |-> Stored(after.memory, at, e.bytes, v)]
         /\ cut = [registers |-> after.registers,
                   memory |-> Stored([a \in A |-> after.memory[a]], at, e.bytes, v)]
  <2>1. \/ /\ ~happens \/ values = {}
           /\ result = after
        \/ /\ happens /\ values # {} /\ WritesRegister(e)
           /\ result = [registers |-> [after.registers EXCEPT ![e.register] = v], memory |-> after.memory]
        \/ /\ happens /\ values # {} /\ ~WritesRegister(e)
           /\ result = [registers |-> after.registers, memory |-> Stored(after.memory, at, e.bytes, v)]
    BY ONLY ZenonT(40), <1>1, ApplyCases DEF at, values, happens, v, result
  <2>2. \/ /\ ~happens \/ values = {}
           /\ cut = Cut(after, A)
        \/ /\ happens /\ values # {} /\ WritesRegister(e)
           /\ cut = [registers |-> [after.registers EXCEPT ![e.register] = v],
                     memory |-> [a \in A |-> after.memory[a]]]
        \/ /\ happens /\ values # {} /\ ~WritesRegister(e)
           /\ cut = [registers |-> after.registers,
                     memory |-> Stored([a \in A |-> after.memory[a]], at, e.bytes, v)]
    <3> DEFINE cutValues == Evaluate(e.value, Cut(before, A))
               cutV == CHOOSE w \in cutValues : TRUE
    <3>1. cutV = v
      BY <1>2
    <3>2. \/ /\ ~happens \/ cutValues = {}
             /\ cut = Cut(after, A)
          \/ /\ happens /\ cutValues # {} /\ WritesRegister(e)
             /\ cut = [registers |-> [Cut(after, A).registers EXCEPT ![e.register] = cutV],
                       memory |-> Cut(after, A).memory]
          \/ /\ happens /\ cutValues # {} /\ ~WritesRegister(e)
             /\ cut = [registers |-> Cut(after, A).registers,
                       memory |-> Stored(Cut(after, A).memory, Address(e.address, Cut(before, A)),
                                         e.bytes, cutV)]
      <4>1. /\ happens <=> \E h \in Evaluate(e.guard, Cut(before, A)) : h # 0
            /\ cutValues = values
        BY <1>2
      <4> HIDE DEF values, happens
      <4> QED BY ONLY ZenonT(40), <1>1, <4>1, ApplyCases DEF cut, cutV, cutValues
    <3> HIDE DEF values, happens, v, cutV, cut
    <3> QED BY <1>2, <1>3, <1>4, <3>1, <3>2
  <2> HIDE DEF values, happens, v, result, cut
  <2> QED BY <2>1, <2>2
<1>7. result \in MachineState
  BY <1>1, ApplyTyped
<1> HIDE DEF values, happens, v, result, cut
<1>8. result \in TotalState
  <2>1. ~WritesRegister(e) => DOMAIN Stored(after.memory, at, e.bytes, v) = Word
    <3>1. ~WritesRegister(e) => Word \cup Cells(at, e.bytes) = Word
      BY <1>3
    <3> QED BY <1>1, <3>1 DEF Stored
  <2>2. DOMAIN result.memory = Word
    BY <1>1, <1>6, <2>1
  <2> QED BY <1>7, <2>2, IsTotal
<1>9. Cut(result, A) = [registers |-> result.registers, memory |-> [a \in A |-> result.memory[a]]]
  BY <1>8, CutParts
<1>10. ~WritesRegister(e) =>
         Stored([a \in A |-> after.memory[a]], at, e.bytes, v)
           = [c \in A |-> Stored(after.memory, at, e.bytes, v)[c]]
  BY <1>1, <1>3, StoredCut
<1>11. cut = Cut(result, A)
  BY <1>5, <1>6, <1>9, <1>10
<1> QED BY <1>8, <1>11 DEF result, cut

\* What an effect touches is memory.
LEMMA TouchedIsWords ==
  ASSUME NEW e \in Effect, NEW s \in MachineState
  PROVE  Touched(e, s) \subseteq Word
<1>1. ASSUME NEW x \in Expression PROVE Cells(Address(x, s), x.bytes) \subseteq Word
  <2>1. x.bytes \in 0 .. 2
    BY DEF Expression
  <2> QED BY <2>1, AddressIsWord, CellsAreWords
<1>2. ASSUME ~WritesRegister(e) PROVE Cells(Address(e.address, s), e.bytes) \subseteq Word
  <2>1. e.address \in Expression /\ e.bytes \in 0 .. 2
    BY <1>2, EffectParts
  <2> QED BY <2>1, AddressIsWord, CellsAreWords
<1> QED BY <1>1, <1>2, EffectParts DEF Touched

\* A byte that an effect does not store is kept.
LEMMA ApplyKeeps ==
  ASSUME NEW e \in Effect, NEW before \in TotalState, NEW after \in TotalState, NEW a \in Word,
         ~WritesRegister(e) => a \notin Cells(Address(e.address, before), e.bytes)
  PROVE  Apply(e, before, after).memory[a] = after.memory[a]
<1> DEFINE v == CHOOSE v \in Evaluate(e.value, before) : TRUE
           at == Address(e.address, before)
           result == Apply(e, before, after)
<1>1. before \in MachineState /\ after \in MachineState /\ DOMAIN after.memory = Word
  BY TotalStateIsState
<1>2. \/ result = after
      \/ result = [registers |-> [after.registers EXCEPT ![e.register] = v], memory |-> after.memory]
      \/ /\ ~WritesRegister(e) /\ v \in Word
         /\ result = [registers |-> after.registers, memory |-> Stored(after.memory, at, e.bytes, v)]
  BY ZenonT(40), <1>1, ApplyCases
<1> HIDE DEF v, at
<1>3. CASE ~WritesRegister(e) /\ v \in Word
  <2>1. at \in Word /\ e.bytes \in 1 .. 2
    BY <1>1, <1>3, EffectParts, AddressIsWord DEF at
  <2>2. after.memory \in [Word -> Byte] /\ a \in Word \ Cells(at, e.bytes)
    BY <1>1, <1>3, StateParts DEF at
  <2>3. Stored(after.memory, at, e.bytes, v)[a] = after.memory[a]
    <3> HIDE DEF result
    <3> QED BY <1>1, <2>2 DEF Stored
  <2> HIDE DEF result
  <2> QED BY <1>1, <1>2, <2>3 DEF result
<1> HIDE DEF result
<1>4. \/ result.memory = after.memory
      \/ ~WritesRegister(e) /\ v \in Word
  BY <1>2
<1> QED BY <1>3, <1>4 DEF result

\* So do an instruction and a cut.
LEMMA StepCut ==
  ASSUME NEW es \in Seq(Effect), NEW s \in TotalState, NEW A \in SUBSET Word,
         \A j \in DOMAIN es : Touched(es[j], s) \subseteq A
  PROVE  /\ Step(es, Cut(s, A)) = Cut(Step(es, s), A)
         /\ Step(es, s) \in TotalState
<1> DEFINE n == Len(es)
           f == Effected(es, s)
           g == Effected(es, Cut(s, A))
           S == {j \in 0 .. n : f[j] \in TotalState /\ g[j] = Cut(f[j], A)}
<1>1. s \in MachineState /\ Cut(s, A) \in MachineState /\ n \in Nat
  BY TotalStateIsState, CutParts
<1>2. /\ f[0] = s /\ \A j \in 1 .. n : f[j] = Apply(es[j], s, f[j - 1])
      /\ g[0] = Cut(s, A) /\ \A j \in 1 .. n : g[j] = Apply(es[j], Cut(s, A), g[j - 1])
  BY <1>1, EffectedFollows
<1> HIDE DEF f, g
<1>3. 0 \in S
  BY <1>1, <1>2
<1>4. ASSUME NEW j \in 0 .. n - 1, j \in S PROVE j + 1 \in S
  <2>1. j + 1 \in 0 .. n /\ j + 1 \in 1 .. n /\ (j + 1) - 1 = j
    BY <1>1
  <2>2. es[j + 1] \in Effect /\ Touched(es[j + 1], s) \subseteq A
    BY <2>1
  <2>3. f[j] \in TotalState /\ g[j] = Cut(f[j], A)
    BY <1>4
  <2>4. f[j + 1] = Apply(es[j + 1], s, f[j]) /\ g[j + 1] = Apply(es[j + 1], Cut(s, A), Cut(f[j], A))
    BY <1>2, <2>1, <2>3
  <2>5. f[j + 1] \in TotalState /\ g[j + 1] = Cut(f[j + 1], A)
    BY <2>2, <2>3, <2>4, ApplyCut
  <2> QED BY <2>1, <2>5
<1> HIDE DEF S
<1>5. n \in S
  <2>1. 0 .. n \subseteq S
    BY <1>1, <1>3, <1>4, Counting
  <2> QED BY <1>1, <2>1
<1> QED BY <1>5 DEF S, Step, f, g

\* An instruction leaves the cells that it does not store to.
LEMMA StepKeeps ==
  ASSUME NEW es \in Seq(Effect), NEW s \in TotalState, NEW a \in Word,
         \A j \in DOMAIN es :
           ~WritesRegister(es[j]) => a \notin Cells(Address(es[j].address, s), es[j].bytes)
  PROVE  Step(es, s).memory[a] = s.memory[a]
<1> DEFINE n == Len(es)
           f == Effected(es, s)
           S == {j \in 0 .. n : f[j] \in TotalState /\ f[j].memory[a] = s.memory[a]}
<1>1. s \in MachineState /\ n \in Nat
  BY TotalStateIsState
<1>2. f[0] = s /\ \A j \in 1 .. n : f[j] = Apply(es[j], s, f[j - 1])
  BY <1>1, EffectedFollows
<1> HIDE DEF f
<1>3. 0 \in S
  BY <1>1, <1>2
<1>4. ASSUME NEW j \in 0 .. n - 1, j \in S PROVE j + 1 \in S
  <2>1. j + 1 \in 0 .. n /\ j + 1 \in 1 .. n /\ (j + 1) - 1 = j
    BY <1>1
  <2>2. /\ es[j + 1] \in Effect
        /\ ~WritesRegister(es[j + 1]) => a \notin Cells(Address(es[j + 1].address, s), es[j + 1].bytes)
    BY <2>1
  <2>3. f[j] \in TotalState /\ f[j].memory[a] = s.memory[a]
    BY <1>4
  <2>4. f[j + 1] = Apply(es[j + 1], s, f[j])
    BY <1>2, <2>1
  <2>5. f[j + 1].memory[a] = f[j].memory[a]
    BY <2>2, <2>3, <2>4, ApplyKeeps
  <2>6. f[j + 1] \in TotalState
    <3>1. Touched(es[j + 1], s) \subseteq Word
      BY <1>1, <2>2, TouchedIsWords
    <3> QED BY ZenonT(40), <2>2, <2>3, <2>4, <3>1, ApplyCut
  <2> QED BY <2>1, <2>3, <2>5, <2>6
<1> HIDE DEF S
<1>5. n \in S
  <2>1. 0 .. n \subseteq S
    BY <1>1, <1>3, <1>4, Counting
  <2> QED BY <1>1, <2>1
<1> QED BY <1>5 DEF S, Step, f

(***************************************************************************)
(* Programs.                                                               *)
(***************************************************************************)

\* A run from a total state has total states.
LEMMA RunTotal ==
  ASSUME NEW p \in Seq(Instructions), NEW s \in TotalState
  PROVE  Run(p, s) \in [0 .. Len(p) -> TotalState] /\ Execute(p, s) \in TotalState
<1> DEFINE n == Len(p)
           f == Run(p, s)
           S == {i \in 0 .. n : f[i] \in TotalState}
<1>1. s \in MachineState /\ n \in Nat
  BY TotalStateIsState
<1>2. DOMAIN f = 0 .. n /\ f[0] = s /\ \A i \in 1 .. n : f[i] = Step(p[i], f[i - 1])
  BY <1>1, RunFollows
<1>3. f \in [0 .. n -> MachineState]
  BY <1>1, RunFollows
<1> HIDE DEF f
<1>4. 0 \in S
  BY <1>1, <1>2
<1>5. ASSUME NEW i \in 0 .. n - 1, i \in S PROVE i + 1 \in S
  <2>1. i + 1 \in 0 .. n /\ i + 1 \in 1 .. n /\ (i + 1) - 1 = i
    BY <1>1
  <2>2. p[i + 1] \in Seq(Effect) /\ f[i] \in TotalState
    BY <1>5, <2>1 DEF Instructions
  <2>3. \A j \in DOMAIN p[i + 1] : Touched(p[i + 1][j], f[i]) \subseteq Word
    BY <2>2, TouchedIsWords, TotalStateIsState
  <2>4. Step(p[i + 1], f[i]) \in TotalState
    BY <2>2, <2>3, StepCut
  <2>5. f[i + 1] = Step(p[i + 1], f[i])
    BY <1>2, <2>1
  <2> QED BY <2>1, <2>4, <2>5
<1> HIDE DEF S
<1>6. 0 .. n \subseteq S
  BY <1>1, <1>4, <1>5, Counting
<1>7. \A i \in 0 .. n : f[i] \in TotalState
  BY <1>6 DEF S
<1>8. n \in 0 .. n
  BY <1>1
<1> QED BY <1>3, <1>7, <1>8 DEF f, Execute

\* The points of a program are what its effects touch.
LEMMA PointsTouched ==
  ASSUME NEW p, NEW s, NEW i \in DOMAIN p, NEW j \in DOMAIN p[i]
  PROVE  Touched(p[i][j], Run(p, s)[i - 1]) \subseteq Points(p, s)
<1>1. p[i][j] \in ToSet(p[i]) /\ Before(p, s)[i] = Run(p, s)[i - 1]
  BY DEF ToSet, Before
<1>2. \A e \in ToSet(p[i]) : Touched(e, Before(p, s)[i]) \subseteq Points(p, s)
  BY DEF Touched, Points
<1> QED BY <1>1, <1>2

\* They are memory.
LEMMA PointsAreWords ==
  ASSUME NEW p \in Seq(Instructions), NEW s \in TotalState
  PROVE  Points(p, s) \subseteq Word
<1>1. ASSUME NEW i \in DOMAIN p, NEW e \in ToSet(p[i])
      PROVE  Touched(e, Before(p, s)[i]) \subseteq Word
  <2>1. p[i] \in Seq(Effect) /\ e \in Effect
    BY <1>1 DEF Instructions, ToSet
  <2>2. i - 1 \in 0 .. Len(p)
    OBVIOUS
  <2>3. Run(p, s)[i - 1] \in MachineState
    BY <2>2, RunTotal, TotalStateIsState
  <2>4. Before(p, s)[i] = Run(p, s)[i - 1]
    BY DEF Before
  <2> QED BY <2>1, <2>3, <2>4, TouchedIsWords
<1>2. Points(p, s) = UNION {UNION {Touched(e, Before(p, s)[i]) : e \in ToSet(p[i])} : i \in DOMAIN p}
  BY DEF Points, Touched
<1> QED BY <1>1, <1>2

\* A run and a cut commute as long as the points of the program are left.
LEMMA RunCut ==
  ASSUME NEW p \in Seq(Instructions), NEW s \in TotalState, NEW A \in SUBSET Word,
         Points(p, s) \subseteq A
  PROVE  Execute(p, Cut(s, A)) = Cut(Execute(p, s), A)
<1> DEFINE n == Len(p)
           f == Run(p, s)
           g == Run(p, Cut(s, A))
           S == {i \in 0 .. n : g[i] = Cut(f[i], A)}
<1>1. s \in MachineState /\ Cut(s, A) \in MachineState /\ n \in Nat
  BY TotalStateIsState, CutParts
<1>2. /\ f[0] = s /\ \A i \in 1 .. n : f[i] = Step(p[i], f[i - 1])
      /\ g[0] = Cut(s, A) /\ \A i \in 1 .. n : g[i] = Step(p[i], g[i - 1])
  BY <1>1, RunFollows
<1>3. \A i \in 0 .. n : f[i] \in TotalState
  BY RunTotal
<1>4. \A i \in DOMAIN p : \A j \in DOMAIN p[i] : Touched(p[i][j], f[i - 1]) \subseteq A
  BY PointsTouched
<1> HIDE DEF f, g
<1>5. 0 \in S
  BY <1>1, <1>2
<1>6. ASSUME NEW i \in 0 .. n - 1, i \in S PROVE i + 1 \in S
  <2>1. i + 1 \in 0 .. n /\ i + 1 \in 1 .. n /\ (i + 1) - 1 = i /\ i \in 0 .. n /\ i + 1 \in DOMAIN p
    BY <1>1
  <2>2. p[i + 1] \in Seq(Effect) /\ f[i] \in TotalState
    BY <1>3, <2>1 DEF Instructions
  <2>3. \A j \in DOMAIN p[i + 1] : Touched(p[i + 1][j], f[i]) \subseteq A
    BY <1>4, <2>1
  <2>4. Step(p[i + 1], Cut(f[i], A)) = Cut(Step(p[i + 1], f[i]), A)
    BY <2>2, <2>3, StepCut
  <2>5. f[i + 1] = Step(p[i + 1], f[i]) /\ g[i + 1] = Step(p[i + 1], g[i]) /\ g[i] = Cut(f[i], A)
    BY <1>2, <1>6, <2>1
  <2> QED BY <2>1, <2>4, <2>5
<1> HIDE DEF S
<1>7. n \in S
  <2>1. 0 .. n \subseteq S
    BY <1>1, <1>5, <1>6, Counting
  <2> QED BY <1>1, <2>1
<1> QED BY <1>7 DEF S, Execute, f, g

\* A run leaves the cells that it does not store to.
LEMMA RunKeeps ==
  ASSUME NEW p \in Seq(Instructions), NEW s \in TotalState, NEW a \in Word,
         \A i \in DOMAIN p : \A j \in DOMAIN p[i] :
           ~WritesRegister(p[i][j])
             => a \notin Cells(Address(p[i][j].address, Run(p, s)[i - 1]), p[i][j].bytes)
  PROVE  Execute(p, s).memory[a] = s.memory[a]
<1> DEFINE n == Len(p)
           f == Run(p, s)
           S == {i \in 0 .. n : f[i].memory[a] = s.memory[a]}
<1>1. s \in MachineState /\ n \in Nat
  BY TotalStateIsState
<1>2. f[0] = s /\ \A i \in 1 .. n : f[i] = Step(p[i], f[i - 1])
  BY <1>1, RunFollows
<1>3. \A i \in 0 .. n : f[i] \in TotalState
  BY RunTotal
<1>4. \A i \in DOMAIN p : \A j \in DOMAIN p[i] :
        ~WritesRegister(p[i][j]) => a \notin Cells(Address(p[i][j].address, f[i - 1]), p[i][j].bytes)
  OBVIOUS
<1> HIDE DEF f
<1>5. 0 \in S
  BY <1>1, <1>2
<1>6. ASSUME NEW i \in 0 .. n - 1, i \in S PROVE i + 1 \in S
  <2>1. i + 1 \in 0 .. n /\ i + 1 \in 1 .. n /\ (i + 1) - 1 = i /\ i \in 0 .. n /\ i + 1 \in DOMAIN p
    BY <1>1
  <2> DEFINE es == p[i + 1]
  <2>2. es \in Seq(Effect) /\ f[i] \in TotalState
    BY <1>3, <2>1 DEF Instructions
  <2>3. \A j \in DOMAIN es :
          ~WritesRegister(es[j]) => a \notin Cells(Address(es[j].address, f[i]), es[j].bytes)
    BY <1>4, <2>1
  <2>4. f[i + 1] = Step(es, f[i]) /\ f[i].memory[a] = s.memory[a]
    BY <1>2, <1>6, <2>1
  <2> HIDE DEF es
  <2>5. Step(es, f[i]).memory[a] = f[i].memory[a]
    BY <2>2, <2>3, StepKeeps
  <2> QED BY <2>1, <2>4, <2>5
<1> HIDE DEF S
<1>7. n \in S
  <2>1. 0 .. n \subseteq S
    BY <1>1, <1>5, <1>6, Counting
  <2> QED BY <1>1, <2>1
<1> QED BY <1>7 DEF S, Execute, f

(***************************************************************************)
(* The comparison: a natural number, 0 for the same results and more than  *)
(* 0 for a difference that counts.                                         *)
(***************************************************************************)

\* The bits in which two words differ can be counted.
LEMMA BitsAreFew ==
  ASSUME NEW v, NEW w
  PROVE  /\ DifferentBits(v, w) \subseteq 0 .. 2 * ByteBits - 1
         /\ IsFiniteSet(DifferentBits(v, w))
         /\ Hamming(v, w) \in 0 .. 2 * ByteBits
         /\ Hamming(v, w) = 0 <=> DifferentBits(v, w) = {}
<1> DEFINE n == 2 * ByteBits
           bits == DifferentBits(v, w)
<1>1. n \in Nat
  BY MachineAssumption
<1>2. bits \in SUBSET (0 .. n - 1)
  BY DEF DifferentBits
<1> HIDE DEF n, bits
<1>3. IsFiniteSet(0 .. n - 1) /\ Cardinality(0 .. n - 1) = n
  BY <1>1, FS_Interval
<1>4. IsFiniteSet(bits) /\ Cardinality(bits) <= n
  BY ZenonT(40), <1>2, <1>3, FS_Subset
<1>5. Cardinality(bits) \in Nat /\ (Cardinality(bits) = 0 <=> bits = {})
  BY <1>4, FS_CardinalityType, FS_EmptySet
<1>6. Hamming(v, w) = Cardinality(bits)
  BY DEF Hamming, bits
<1>7. Cardinality(bits) \in 0 .. n
  BY <1>1, <1>4, <1>5
<1> QED BY <1>2, <1>4, <1>5, <1>6, <1>7 DEF bits, n

\* A word differs from itself in none.
LEMMA SameIsNear ==
  ASSUME NEW v
  PROVE  Hamming(v, v) = 0
<1>1. DifferentBits(v, v) = {}
  BY DEF DifferentBits
<1> QED BY <1>1, BitsAreFew

\* Different words differ in a bit.
LEMMA DifferentIsApart ==
  ASSUME NEW v \in Word, NEW w \in Word, v # w
  PROVE  Hamming(v, w) > 0 /\ DifferentBits(v, w) # {}
<1> DEFINE n == 2 * ByteBits
<1>1. n \in Nat
  BY MachineAssumption
<1>2. v \in 0 .. 2 ^ n - 1 /\ w \in 0 .. 2 ^ n - 1
  BY DEF Word
<1>3. \E k \in 0 .. n - 1 : (v \div 2 ^ k) % 2 # (w \div 2 ^ k) % 2
  <2> HIDE DEF n
  <2> QED BY <1>1, <1>2, BitsTell
<1>4. DifferentBits(v, w) # {}
  BY <1>3 DEF DifferentBits
<1>5. Hamming(v, w) # 0 /\ Hamming(v, w) \in 0 .. n
  BY <1>4, BitsAreFew
<1> QED BY <1>1, <1>4, <1>5

\* The least of a set of numbers.
LEMMA MinIsLeast ==
  ASSUME NEW S \in SUBSET Nat, S # {}
  PROVE  Min(S) \in S /\ \A k \in S : Min(S) <= k
BY LeastNatural DEF Min

\* Finitely many registers are live.
LEMMA LiveOutIsFinite == IsFiniteSet(LiveOut)
BY MachineAssumption, FS_Subset

\* The registers cost nothing if the live ones agree, and something if one differs.
LEMMA RegisterCostCounts ==
  ASSUME NEW desired, NEW other
  PROVE  /\ RegisterCost(desired, other) \in Nat
         /\ (\A r \in LiveOut : desired.registers[r] = other.registers[r])
              => RegisterCost(desired, other) = 0
         /\ (\E r \in LiveOut : Hamming(desired.registers[r], other.registers[r]) # 0)
              => RegisterCost(desired, other) > 0
<1> DEFINE Distance(r, q) == Hamming(desired.registers[r], other.registers[q])
           distances(r) == {Distance(r, q) : q \in LiveOut}
           Lowest(r) == Min(distances(r))
           wrong == UNION {{r} \X (1 .. Lowest(r)) : r \in LiveOut}
           misplaced == {r \in LiveOut : Distance(r, r) # Lowest(r)}
<1>1. RegisterCost(desired, other) = Cardinality(wrong) + Mismatch * Cardinality(misplaced)
  BY DEF RegisterCost
<1>2. \A r, q : Distance(r, q) \in 0 .. 2 * ByteBits
  BY BitsAreFew
<1>3. 2 * ByteBits \in Nat /\ Mismatch \in Nat \ {0}
  BY MachineAssumption
<1>4. ASSUME NEW r \in LiveOut
      PROVE  /\ Lowest(r) \in 0 .. 2 * ByteBits /\ Lowest(r) <= Distance(r, r)
             /\ Distance(r, r) = 0 => Lowest(r) = 0
  <2> HIDE DEF Distance
  <2>1. distances(r) \subseteq 0 .. 2 * ByteBits /\ Distance(r, r) \in distances(r)
    BY <1>2
  <2>2. distances(r) \in SUBSET Nat /\ distances(r) # {}
    BY <1>3, <2>1
  <2> HIDE DEF distances
  <2>3. Lowest(r) \in distances(r) /\ Lowest(r) <= Distance(r, r)
    BY <2>1, <2>2, MinIsLeast
  <2>4. Lowest(r) \in 0 .. 2 * ByteBits
    BY <2>1, <2>3
  <2> HIDE DEF Lowest
  <2> QED BY <1>3, <2>3, <2>4
<1> HIDE DEF Lowest, Distance
<1>5. IsFiniteSet(wrong) /\ IsFiniteSet(misplaced)
  <2>1. wrong \in SUBSET (LiveOut \X (1 .. 2 * ByteBits))
    <3>1. ASSUME NEW r \in LiveOut
          PROVE  {r} \X (1 .. Lowest(r)) \subseteq LiveOut \X (1 .. 2 * ByteBits)
      <4>1. 1 .. Lowest(r) \subseteq 1 .. 2 * ByteBits
        BY <1>3, <1>4
      <4> QED BY <4>1
    <3> QED BY <3>1
  <2>2. IsFiniteSet(1 .. 2 * ByteBits)
    BY <1>3, FS_Interval
  <2>3. IsFiniteSet(LiveOut \X (1 .. 2 * ByteBits))
    BY <2>2, LiveOutIsFinite, FS_Product
  <2>4. misplaced \in SUBSET LiveOut
    OBVIOUS
  <2> QED BY <2>1, <2>3, <2>4, LiveOutIsFinite, FS_Subset
<1>6. /\ Cardinality(wrong) \in Nat /\ (Cardinality(wrong) = 0 <=> wrong = {})
      /\ Cardinality(misplaced) \in Nat /\ (Cardinality(misplaced) = 0 <=> misplaced = {})
  BY <1>5, FS_CardinalityType, FS_EmptySet
<1>7. ASSUME \A r \in LiveOut : desired.registers[r] = other.registers[r]
      PROVE  wrong = {} /\ misplaced = {}
  <2>1. \A r \in LiveOut : Distance(r, r) = 0
    BY <1>7, SameIsNear DEF Distance
  <2>2. \A r \in LiveOut : Lowest(r) = 0
    BY <1>4, <2>1
  <2>3. \A r \in LiveOut : 1 .. Lowest(r) = {}
    BY <2>2
  <2> QED BY <2>1, <2>2, <2>3
<1>8. ASSUME NEW r \in LiveOut, Distance(r, r) # 0
      PROVE  wrong # {} \/ misplaced # {}
  <2>1. CASE Lowest(r) = 0
    BY <1>8, <2>1
  <2>2. CASE Lowest(r) # 0
    <3>1. 1 \in 1 .. Lowest(r)
      BY <1>3, <1>4, <2>2
    <3>2. <<r, 1>> \in wrong
      BY <3>1
    <3> QED BY <3>2
  <2> QED BY <2>1, <2>2
<1> DEFINE w == Cardinality(wrong)
           m == Cardinality(misplaced)
<1>9. RegisterCost(desired, other) = w + Mismatch * m
  BY <1>1
<1>10. w \in Nat /\ m \in Nat
  BY <1>6
<1>11. (\A r \in LiveOut : desired.registers[r] = other.registers[r]) => w = 0 /\ m = 0
  BY <1>6, <1>7
<1>12. (\E r \in LiveOut : Hamming(desired.registers[r], other.registers[r]) # 0) => w # 0 \/ m # 0
  BY <1>6, <1>8 DEF Distance
<1> HIDE DEF w, m
<1>13. Mismatch * m \in Nat /\ (m # 0 => Mismatch * m > 0) /\ (m = 0 => Mismatch * m = 0)
  BY <1>3, <1>10
<1> QED BY <1>9, <1>10, <1>11, <1>12, <1>13

\* The memory costs something if a byte of both differs, and nothing if it is the same.
LEMMA MemoryCostCounts ==
  ASSUME NEW desired, NEW other, NEW top,
         IsFiniteSet(DOMAIN desired.memory), IsFiniteSet(DOMAIN other.memory)
  PROVE  /\ MemoryCost(desired, other, top) \in Nat
         /\ (\E a \in DOMAIN desired.memory \cap DOMAIN other.memory :
               DifferentBits(desired.memory[a], other.memory[a]) # {})
              => MemoryCost(desired, other, top) > 0
         /\ /\ DOMAIN desired.memory = DOMAIN other.memory
            /\ \A a \in DOMAIN desired.memory :
                 DifferentBits(desired.memory[a], other.memory[a]) = {}
            => MemoryCost(desired, other, top) = 0
<1> DEFINE both == DOMAIN desired.memory \cap DOMAIN other.memory
           missing == DOMAIN desired.memory \ DOMAIN other.memory
           extra == {a \in DOMAIN other.memory \ DOMAIN desired.memory : ~StackScratch(a, top)}
           wrong == UNION {{a} \X DifferentBits(desired.memory[a], other.memory[a]) : a \in both}
           lone == missing \cup extra
           weight == ByteBits + ExtraWrite
           w == Cardinality(wrong)
           m == Cardinality(lone)
<1>1. MemoryCost(desired, other, top) = w + weight * m
  BY DEF MemoryCost
<1>2. IsFiniteSet(wrong)
  <2>1. 2 * ByteBits \in Int
    BY MachineAssumption
  <2>2. IsFiniteSet(0 .. 2 * ByteBits - 1)
    BY <2>1, FS_Interval
  <2>3. IsFiniteSet(both \X (0 .. 2 * ByteBits - 1))
    BY <2>2, FS_Intersection, FS_Product
  <2>4. wrong \in SUBSET (both \X (0 .. 2 * ByteBits - 1))
    BY BitsAreFew
  <2> QED BY <2>3, <2>4, FS_Subset
<1>3. IsFiniteSet(lone)
  <2>1. IsFiniteSet((DOMAIN desired.memory) \cup (DOMAIN other.memory))
    BY FS_Union
  <2>2. lone \in SUBSET ((DOMAIN desired.memory) \cup (DOMAIN other.memory))
    OBVIOUS
  <2> HIDE DEF lone
  <2> QED BY <2>1, <2>2, FS_Subset
<1>4. /\ w \in Nat /\ (w = 0 <=> wrong = {})
      /\ m \in Nat /\ (m = 0 <=> lone = {})
  <2> HIDE DEF wrong, lone
  <2> QED BY <1>2, <1>3, FS_CardinalityType, FS_EmptySet
<1>5. weight \in Nat
  BY MachineAssumption
<1>6. (\E a \in both : DifferentBits(desired.memory[a], other.memory[a]) # {}) => wrong # {}
  <2> SUFFICES ASSUME NEW a \in both, DifferentBits(desired.memory[a], other.memory[a]) # {}
               PROVE  wrong # {}
    OBVIOUS
  <2>1. PICK k : k \in DifferentBits(desired.memory[a], other.memory[a])
    OBVIOUS
  <2>2. <<a, k>> \in wrong
    BY <2>1
  <2> QED BY <2>2
<1>7. /\ DOMAIN desired.memory = DOMAIN other.memory
      /\ \A a \in DOMAIN desired.memory : DifferentBits(desired.memory[a], other.memory[a]) = {}
      => wrong = {} /\ lone = {}
  OBVIOUS
<1> HIDE DEF w, m, weight, wrong, lone
<1>8. weight * m \in Nat /\ (m = 0 => weight * m = 0)
  BY <1>4, <1>5
<1>9. /\ MemoryCost(desired, other, top) \in Nat
      /\ w # 0 => MemoryCost(desired, other, top) > 0
      /\ w = 0 /\ m = 0 => MemoryCost(desired, other, top) = 0
  BY <1>1, <1>4, <1>8
<1> QED BY <1>4, <1>6, <1>7, <1>9

\* A comparison gives a number.
LEMMA CompareCounts ==
  ASSUME NEW desired \in MachineState, NEW other \in MachineState, NEW top
  PROVE  Compare(desired, other, top) \in Nat
<1>1. IsFiniteSet(DOMAIN desired.memory) /\ IsFiniteSet(DOMAIN other.memory)
  BY StateParts, WordsAreNumbers, FS_Subset
<1>2. MemoryCost(desired, other, top) \in Nat /\ RegisterCost(desired, other) \in Nat
  BY <1>1, MemoryCostCounts, RegisterCostCounts
<1> QED BY <1>2 DEF Compare

\* Two total states that are cut down alike are at a distance if and only if they
\* differ in what is left of them.
LEMMA CutsCompare ==
  ASSUME NEW l \in TotalState, NEW r \in TotalState, NEW A \in SUBSET Word, NEW top
  PROVE  /\ Compare(Cut(l, A), Cut(r, A), top) \in Nat
         /\ Compare(Cut(l, A), Cut(r, A), top) = 0
              <=> /\ \A q \in LiveOut : l.registers[q] = r.registers[q]
                  /\ \A a \in A : l.memory[a] = r.memory[a]
<1> DEFINE d == Cut(l, A)
           o == Cut(r, A)
           m == MemoryCost(d, o, top)
           c == RegisterCost(d, o)
<1>1. /\ d.registers = l.registers /\ d.memory = [a \in A |-> l.memory[a]]
      /\ o.registers = r.registers /\ o.memory = [a \in A |-> r.memory[a]]
      /\ d \in MachineState /\ o \in MachineState
  BY CutParts
<1>2. /\ l.registers \in [Registers -> Word] /\ r.registers \in [Registers -> Word]
      /\ l.memory \in [Word -> Byte] /\ r.memory \in [Word -> Byte]
  BY TotalStateIsState, StateParts
<1>3. DOMAIN d.memory = A /\ DOMAIN o.memory = A /\ IsFiniteSet(A)
  BY <1>1, WordsAreNumbers, FS_Subset
<1>4. \A a \in A : d.memory[a] = l.memory[a] /\ o.memory[a] = r.memory[a]
  BY <1>1
<1> HIDE DEF d, o
<1>5. m \in Nat /\ c \in Nat /\ Compare(d, o, top) = m + c
  BY <1>3, MemoryCostCounts, RegisterCostCounts DEF Compare
<1>6. m = 0 <=> \A a \in A : l.memory[a] = r.memory[a]
  <2>1. \A a \in A : DifferentBits(d.memory[a], o.memory[a]) = {} <=> l.memory[a] = r.memory[a]
    <3> SUFFICES ASSUME NEW a \in A
                 PROVE  DifferentBits(l.memory[a], r.memory[a]) = {} <=> l.memory[a] = r.memory[a]
      BY <1>4
    <3>1. l.memory[a] \in Word /\ r.memory[a] \in Word
      BY <1>2, WordsAreNumbers
    <3>2. l.memory[a] # r.memory[a] => DifferentBits(l.memory[a], r.memory[a]) # {}
      BY <3>1, DifferentIsApart
    <3>3. DifferentBits(l.memory[a], l.memory[a]) = {}
      BY DEF DifferentBits
    <3> QED BY <3>2, <3>3
  <2>2. (\E a \in A : DifferentBits(d.memory[a], o.memory[a]) # {}) => m > 0
    <3>1. DOMAIN d.memory \cap DOMAIN o.memory = A
      BY <1>3
    <3> QED BY <1>3, <3>1, MemoryCostCounts
  <2>3. (\A a \in A : DifferentBits(d.memory[a], o.memory[a]) = {}) => m = 0
    BY <1>3, MemoryCostCounts
  <2> HIDE DEF m
  <2> QED BY <2>1, <2>2, <2>3
<1>7. c = 0 <=> \A q \in LiveOut : l.registers[q] = r.registers[q]
  <2>1. \A q \in LiveOut : Hamming(d.registers[q], o.registers[q]) = 0 <=> l.registers[q] = r.registers[q]
    <3> SUFFICES ASSUME NEW q \in LiveOut
                 PROVE  Hamming(l.registers[q], r.registers[q]) = 0 <=> l.registers[q] = r.registers[q]
      BY <1>1
    <3>1. l.registers[q] \in Word /\ r.registers[q] \in Word
      BY <1>2, MachineAssumption
    <3>2. l.registers[q] # r.registers[q] => Hamming(l.registers[q], r.registers[q]) > 0
      BY <3>1, DifferentIsApart
    <3> QED BY <3>2, SameIsNear
  <2>2. (\E q \in LiveOut : Hamming(d.registers[q], o.registers[q]) # 0) => c > 0
    BY RegisterCostCounts
  <2>3. (\A q \in LiveOut : d.registers[q] = o.registers[q]) => c = 0
    BY RegisterCostCounts
  <2> HIDE DEF c
  <2> QED BY <1>1, <2>1, <2>2, <2>3
<1> HIDE DEF m, c
<1>8. Compare(d, o, top) \in Nat /\ (Compare(d, o, top) = 0 <=> m = 0 /\ c = 0)
  BY <1>5
<1> QED BY <1>6, <1>7, <1>8 DEF d, o

(***************************************************************************)
(* What the solver finds, the comparison sees, and the other way round.    *)
(***************************************************************************)

\* What is stored to is touched.
LEMMA StoresArePoints ==
  ASSUME NEW p, NEW s, NEW side
  PROVE  Stores(p, s, side) \subseteq Points(p, s)
<1>1. ASSUME NEW i \in DOMAIN p, NEW e \in ToSet(p[i]), ~WritesRegister(e)
      PROVE  Cells(Address(e.address, Before(p, s)[i]), e.bytes) \subseteq Points(p, s)
  BY <1>1 DEF Points
<1> QED BY <1>1 DEF Stores

\* What a side does not store to is as it was.
LEMMA UnstoredIsKept ==
  ASSUME NEW p \in Seq(Instructions), NEW s \in TotalState, NEW side,
         side = "left" \/ ScratchStores(p) = {},
         NEW a \in Word, a \notin Stores(p, s, side)
  PROVE  Execute(p, s).memory[a] = s.memory[a]
<1>1. ASSUME NEW i \in DOMAIN p, NEW j \in DOMAIN p[i], ~WritesRegister(p[i][j])
      PROVE  a \notin Cells(Address(p[i][j].address, Run(p, s)[i - 1]), p[i][j].bytes)
  <2>1. p[i][j] \in ToSet(p[i]) /\ Before(p, s)[i] = Run(p, s)[i - 1]
    BY DEF ToSet, Before
  <2>2. side = "left" \/ ~ScratchAddress(p[i][j].address)
    BY <1>1, <2>1 DEF ScratchStores, EffectsOf
  <2> QED BY <1>1, <2>1, <2>2 DEF Stores
<1> QED BY <1>1, RunKeeps

\* The comparison of a solver's model, in terms of the runs on the whole state.
LEMMA ModelCompared ==
  ASSUME NEW left \in Seq(Instructions), NEW right \in Seq(Instructions), NEW s \in TotalState
  PROVE  LET m == ModelState(left, right, s)
             l == Execute(left, s)
             r == Execute(right, s)
             c == EqualityCost(right, m, Execute(left, m))
         IN  /\ m \in MachineState /\ c \in Nat
             /\ c = 0 <=> /\ \A q \in LiveOut : l.registers[q] = r.registers[q]
                          /\ \A a \in Points(left, s) \cup Points(right, s) : l.memory[a] = r.memory[a]
<1> DEFINE A == Points(left, s) \cup Points(right, s)
           m == ModelState(left, right, s)
<1>1. A \in SUBSET Word
  BY PointsAreWords
<1>2. m = Cut(s, A)
  BY DEF ModelState, Cut
<1>3. Execute(left, s) \in TotalState /\ Execute(right, s) \in TotalState
  BY RunTotal
<1>4. Points(left, s) \subseteq A /\ Points(right, s) \subseteq A
  OBVIOUS
<1> HIDE DEF A, m
<1>5. /\ Execute(left, m) = Cut(Execute(left, s), A)
      /\ Execute(right, m) = Cut(Execute(right, s), A)
  BY <1>1, <1>2, <1>4, RunCut
<1>6. EqualityCost(right, m, Execute(left, m))
        = Compare(Cut(Execute(left, s), A), Cut(Execute(right, s), A), m.registers[Sp])
  BY <1>5 DEF EqualityCost
<1>7. m \in MachineState
  BY <1>1, <1>2, CutParts
<1>8. /\ EqualityCost(right, m, Execute(left, m)) \in Nat
      /\ EqualityCost(right, m, Execute(left, m)) = 0
           <=> /\ \A q \in LiveOut : Execute(left, s).registers[q] = Execute(right, s).registers[q]
               /\ \A a \in A : Execute(left, s).memory[a] = Execute(right, s).memory[a]
  BY <1>1, <1>3, <1>6, CutsCompare
<1> QED BY <1>7, <1>8 DEF m, A

\* A state that shows a difference to the solver is, cut down, at a distance: the
\* solver's counterexample is a test that the generated program fails.
LEMMA RefutationCosts ==
  ASSUME NEW left \in Seq(Instructions), NEW right \in Seq(Instructions), NEW s \in TotalState,
         Differ(left, right, s)
  PROVE  LET m == ModelState(left, right, s)
         IN  EqualityCost(right, m, Execute(left, m)) > 0
<1> DEFINE m == ModelState(left, right, s)
           c == EqualityCost(right, m, Execute(left, m))
<1>1. Observed(left, right, s) \subseteq Points(left, s) \cup Points(right, s)
  BY StoresArePoints DEF Observed
<1>2. c \in Nat /\ c # 0
  BY <1>1, ModelCompared DEF Differ
<1> QED BY <1>2

\* Where the solver sees no difference there is none in a live register, nor in any
\* byte, if the generated program stores nothing in the stack: what neither program
\* stores to is as it was.
LEMMA AgreementIsEverywhere ==
  ASSUME NEW left \in Seq(Instructions), NEW right \in Seq(Instructions), NEW s \in TotalState,
         ~Differ(left, right, s), ScratchStores(right) = {}
  PROVE  /\ \A q \in LiveOut : Execute(left, s).registers[q] = Execute(right, s).registers[q]
         /\ \A a \in Word : Execute(left, s).memory[a] = Execute(right, s).memory[a]
<1> DEFINE l == Execute(left, s)
           r == Execute(right, s)
<1>1. \A q \in LiveOut : l.registers[q] = r.registers[q]
  BY DEF Differ
<1>2. ASSUME NEW a \in Word
      PROVE  l.memory[a] = r.memory[a]
  <2>1. CASE a \in Observed(left, right, s)
    BY <2>1 DEF Differ
  <2>2. CASE a \notin Observed(left, right, s)
    <3>1. a \notin Stores(left, s, "left") /\ a \notin Stores(right, s, "right")
      BY <2>2 DEF Observed
    <3> QED BY <3>1, UnstoredIsKept
  <2> QED BY <2>1, <2>2
<1> QED BY <1>1, <1>2

\* Where the solver sees no difference there is no distance, if the generated
\* program stores nothing in the stack.
LEMMA AgreementIsFree ==
  ASSUME NEW left \in Seq(Instructions), NEW right \in Seq(Instructions), NEW s \in TotalState,
         ~Differ(left, right, s), ScratchStores(right) = {}
  PROVE  LET m == ModelState(left, right, s)
         IN  EqualityCost(right, m, Execute(left, m)) = 0
<1> DEFINE l == Execute(left, s)
           r == Execute(right, s)
<1>1. /\ \A q \in LiveOut : l.registers[q] = r.registers[q]
      /\ \A a \in Word : l.memory[a] = r.memory[a]
  BY AgreementIsEverywhere
<1>2. \A a \in Points(left, s) \cup Points(right, s) : l.memory[a] = r.memory[a]
  BY <1>1, PointsAreWords
<1> HIDE DEF l, r
<1> QED BY <1>1, <1>2, ModelCompared DEF l, r

(***************************************************************************)
(* Illegal reads.  They are finitely many at each of finitely many places, *)
(* so that none are counted only where there are none.                     *)
(***************************************************************************)

\* The image of a finite set is finite.
LEMMA ImageIsFinite ==
  ASSUME NEW S, IsFiniteSet(S), NEW f
  PROVE  IsFiniteSet({f[x] : x \in S})
<1> DEFINE T == {f[x] : x \in S}
           g == [x \in S |-> f[x]]
<1>1. g \in [S -> T]
  OBVIOUS
<1>2. \A y \in T : \E x \in S : g[x] = y
  OBVIOUS
<1> HIDE DEF g, T
<1>3. g \in Surjection(S, T)
  BY <1>1, <1>2 DEF Surjection
<1>4. IsFiniteSet(T)
  BY <1>3, FS_Surjection
<1> QED BY <1>4 DEF T

\* A finite number of things at each of a finite number of places.
LEMMA PlacedIsFinite ==
  ASSUME NEW S, IsFiniteSet(S), NEW f, \A x \in S : IsFiniteSet(f[x])
  PROVE  IsFiniteSet(UNION {{x} \X f[x] : x \in S})
<1> DEFINE g == [x \in S |-> {x} \X f[x]]
           T == {g[x] : x \in S}
<1>1. IsFiniteSet(T)
  <2> HIDE DEF g
  <2> QED BY ImageIsFinite
<1>2. \A x \in S : IsFiniteSet({x} \X f[x])
  BY FS_Product, FS_Singleton
<1>3. IsFiniteSet(UNION T)
  BY <1>1, <1>2, FS_UNION
<1>4. UNION T = UNION {{x} \X f[x] : x \in S}
  OBVIOUS
<1> QED BY <1>3, <1>4

\* An effect reads finitely many places.
LEMMA ReadsAreFinite ==
  ASSUME NEW e \in Effect
  PROVE  IsFiniteSet(RegisterReads(e)) /\ IsFiniteSet(MemoryReads(e))
<1>1. e.guard \in Expression /\ e.value \in Expression
  BY EffectParts
<1>2. RegisterReads(e) \in SUBSET Registers
  <2>1. ~WritesRegister(e) => e.address \in Expression
    BY EffectParts
  <2>2. \A x \in Values(e) \cup Addresses(e) : x \in Expression
    BY <1>1, <2>1 DEF Values, Addresses, Loads
  <2>3. \A x \in Expression : x.base \in Registers \cup {NoRegister}
    BY DEF Expression
  <2> QED BY <2>2, <2>3 DEF RegisterReads, Bases
<1>3. IsFiniteSet(RegisterReads(e))
  BY <1>2, MachineAssumption, FS_Subset
<1>4. ASSUME NEW part, NEW x \in Expression
      PROVE  IsFiniteSet({<<part, Key(x, k, 1)>> : k \in 0 .. x.bytes - 1})
  <2> DEFINE S == 0 .. x.bytes - 1
             f == [k \in S |-> <<part, Key(x, k, 1)>>]
             T == {f[k] : k \in S}
  <2>1. x.bytes \in 0 .. 2
    BY DEF Expression
  <2>2. IsFiniteSet(S)
    <3>1. x.bytes - 1 \in Int
      BY <2>1
    <3> QED BY <3>1, FS_Interval
  <2>3. IsFiniteSet(T)
    <3> HIDE DEF f, S
    <3> QED BY <2>2, ImageIsFinite
  <2>4. T = {<<part, Key(x, k, 1)>> : k \in S}
    OBVIOUS
  <2> QED BY <2>3, <2>4
<1>5. IsFiniteSet(MemoryReads(e))
  BY ZenonT(40), <1>1, <1>4, FS_Union DEF MemoryReads
<1> QED BY <1>3, <1>5

\* A program has finitely many effects.
LEMMA PlacesAreFinite ==
  ASSUME NEW p \in Seq(Instructions)
  PROVE  /\ IsFiniteSet(Places(p))
         /\ \A at \in Places(p) : EffectAt(p, at) \in Effect
<1>1. DOMAIN p = 1 .. Len(p) /\ Len(p) \in Nat
  OBVIOUS
<1>2. \A i \in DOMAIN p : p[i] \in Seq(Effect)
  BY DEF Instructions
<1>3. \A i \in DOMAIN p : IsFiniteSet(DOMAIN p[i])
  <2> SUFFICES ASSUME NEW i \in DOMAIN p PROVE IsFiniteSet(DOMAIN p[i])
    OBVIOUS
  <2>1. DOMAIN p[i] = 1 .. Len(p[i]) /\ Len(p[i]) \in Nat
    BY <1>2
  <2> QED BY <2>1, FS_Interval
<1> DEFINE f == [i \in DOMAIN p |-> DOMAIN p[i]]
           all == UNION {{i} \X DOMAIN p[i] : i \in DOMAIN p}
<1>4. IsFiniteSet(all)
  <2>1. IsFiniteSet(DOMAIN p)
    BY <1>1, FS_Interval
  <2>2. \A i \in DOMAIN p : IsFiniteSet(f[i])
    BY <1>3
  <2>3. all = UNION {{i} \X f[i] : i \in DOMAIN p}
    OBVIOUS
  <2> HIDE DEF f, all
  <2>4. IsFiniteSet(UNION {{i} \X f[i] : i \in DOMAIN p})
    BY <2>1, <2>2, PlacedIsFinite
  <2> QED BY <2>3, <2>4
<1>5. Places(p) \in SUBSET all
  BY DEF Places
<1>6. \A at \in all : EffectAt(p, at) \in Effect
  BY <1>2 DEF EffectAt
<1> HIDE DEF all
<1> QED BY <1>4, <1>5, <1>6, FS_Subset

\* A count of 0 excludes an illegal read at any place.
LEMMA IllegalReadsAreCounted ==
  ASSUME NEW p \in Seq(Instructions), NEW source
  PROVE  /\ IllegalReadCount(p, source) \in Nat
         /\ IllegalReadCount(p, source) = 0
              => \A at \in Places(p) : IllegalRegisters(p, at, source) = {}
<1> DEFINE S == Places(p)
           f == [at \in S |-> IllegalRegisters(p, at, source)]
           g == [at \in S |-> IllegalMemory(p, at, source)]
           registers == UNION {{at} \X IllegalRegisters(p, at, source) : at \in S}
           bytes == UNION {{at} \X IllegalMemory(p, at, source) : at \in S}
<1>1. IsFiniteSet(S) /\ \A at \in S : EffectAt(p, at) \in Effect
  BY PlacesAreFinite
<1>2. \A at \in S : IsFiniteSet(f[at]) /\ IsFiniteSet(g[at])
  <2> SUFFICES ASSUME NEW at \in S PROVE IsFiniteSet(f[at]) /\ IsFiniteSet(g[at])
    OBVIOUS
  <2>1. IsFiniteSet(RegisterReads(EffectAt(p, at))) /\ IsFiniteSet(MemoryReads(EffectAt(p, at)))
    BY <1>1, ReadsAreFinite
  <2>2. f[at] \in SUBSET RegisterReads(EffectAt(p, at)) /\ g[at] \in SUBSET MemoryReads(EffectAt(p, at))
    BY DEF IllegalRegisters, IllegalMemory
  <2> HIDE DEF f, g
  <2> QED BY <2>1, <2>2, FS_Subset
<1>3. /\ UNION {{at} \X f[at] : at \in S} = registers
      /\ UNION {{at} \X g[at] : at \in S} = bytes
  OBVIOUS
<1>4. IsFiniteSet(registers) /\ IsFiniteSet(bytes)
  <2> HIDE DEF f, g, S, registers, bytes
  <2> QED BY <1>1, <1>2, <1>3, PlacedIsFinite
<1>5. /\ Cardinality(registers) \in Nat /\ Cardinality(bytes) \in Nat
      /\ Cardinality(registers) = 0 => registers = {}
  <2> HIDE DEF registers, bytes
  <2> QED BY <1>4, FS_CardinalityType, FS_EmptySet
<1>6. IllegalReadCount(p, source) = Cardinality(registers) + Cardinality(bytes)
  BY DEF IllegalReadCount
<1>7. ASSUME registers = {}, NEW at \in S PROVE IllegalRegisters(p, at, source) = {}
  <2>1. \A r \in IllegalRegisters(p, at, source) : <<at, r>> \in registers
    OBVIOUS
  <2> HIDE DEF registers
  <2> QED BY <1>7, <2>1
<1> HIDE DEF registers, bytes
<1>8. IllegalReadCount(p, source) \in Nat /\ (IllegalReadCount(p, source) = 0 => registers = {})
  BY <1>5, <1>6
<1> QED BY <1>7, <1>8

(***************************************************************************)
(* The pairs.                                                              *)
(***************************************************************************)

\* Zero and one are bytes.
LEMMA SmallNumbers ==
  /\ 0 \in Byte /\ 1 \in Byte /\ 0 \in Word /\ 1 \in Word
  /\ \A n \in Int : Wrap(n) \in Word
<1>1. 2 ^ ByteBits >= 2
  <2>1. ByteBits - 1 \in Nat /\ (ByteBits - 1) + 1 = ByteBits
    BY MachineAssumption
  <2>2. 2 ^ ByteBits = 2 * 2 ^ (ByteBits - 1) /\ 2 ^ (ByteBits - 1) \in Nat /\ 2 ^ (ByteBits - 1) > 0
    BY <2>1, PowerDoubles, PowerPositive
  <2> QED BY <2>2
<1>2. 0 \in Byte /\ 1 \in Byte
  BY <1>1, Sizes DEF Byte
<1> QED BY <1>2, WordsAreNumbers, WrapIsWord

\* The instructions of the model are instructions.
LEMMA InstructionsTyped ==
  ASSUME NEW n \in DOMAIN Instruction
  PROVE  Instruction[n] \in Instructions
<1> DEFINE Address0(x) == x \in Expression /\ x.bytes = 0
<1>1. /\ \A r \in Registers \cup {NoRegister}, k \in Int : Address0(Reg(r, k))
      /\ \A k \in {0, 1} : Address0(Const(k))
      /\ \A r \in Registers, k \in Int, bytes \in 1 .. 2 : Load(r, k, bytes) \in Expression
  BY SmallNumbers DEF Expression, Reg, Const, Load
<1>2. r0 \in Registers /\ r1 \in Registers /\ Sp \in Registers
  BY PairsAssumption, MachineAssumption
<1>3. \A g, v \in Expression, r \in Registers : SetWhen(g, r, v) \in Effect
  BY DEF SetWhen, Effect, RegisterEffect
<1>4. \A g, v \in Expression, bytes \in 1 .. 2 : \A x : Address0(x) => StoreWhen(g, x, bytes, v) \in Effect
  BY DEF StoreWhen, Effect, MemoryEffect
<1>5. /\ \A v \in Expression, r \in Registers : Set(r, v) \in Effect
      /\ \A v \in Expression, bytes \in 1 .. 2 : \A x : Address0(x) => Store(x, bytes, v) \in Effect
  <2>1. Const(1) \in Expression
    BY <1>1
  <2> HIDE DEF Address0
  <2> QED BY <1>3, <1>4, <2>1 DEF Set, Store
<1>6. /\ Reg(r1, 0) \in Expression /\ Reg(r0, 0) \in Expression /\ Const(0) \in Expression
      /\ Const(1) \in Expression /\ Load(r1, 0, 1) \in Expression /\ Load(r0, 0, 2) \in Expression
      /\ Load(Sp, -1, 1) \in Expression /\ Load(Sp, -1, 2) \in Expression
      /\ Reg(Sp, -1) \in Expression /\ Reg(Sp, 1) \in Expression
      /\ Address0(Reg(r0, 0)) /\ Address0(Reg(r0, 1)) /\ Address0(Reg(Sp, -1))
  <2>1. -1 \in Int /\ 1 \in 1 .. 2 /\ 2 \in 1 .. 2
    OBVIOUS
  <2> QED BY <1>1, <1>2, <2>1
<1>7. /\ Set(r0, Reg(r1, 0)) \in Effect /\ Set(r1, Reg(r0, 0)) \in Effect /\ Set(r0, Const(1)) \in Effect
      /\ SetWhen(Const(0), r0, Reg(r1, 0)) \in Effect /\ Set(r0, Load(r1, 0, 1)) \in Effect
      /\ Set(r1, Load(r0, 0, 2)) \in Effect /\ Store(Reg(r0, 0), 1, Reg(r1, 0)) \in Effect
      /\ StoreWhen(Reg(r0, 0), Reg(r0, 1), 1, Reg(r1, 0)) \in Effect
      /\ Store(Reg(r0, 0), 2, Reg(r1, 0)) \in Effect /\ Store(Reg(Sp, -1), 1, Reg(r1, 0)) \in Effect
      /\ Set(r0, Load(Sp, -1, 1)) \in Effect /\ Store(Reg(Sp, -1), 2, Reg(r1, 0)) \in Effect
      /\ Set(r0, Load(Sp, -1, 2)) \in Effect /\ Set(Sp, Reg(Sp, -1)) \in Effect
      /\ Set(Sp, Reg(Sp, 1)) \in Effect
  <2>1. 1 \in 1 .. 2 /\ 2 \in 1 .. 2
    OBVIOUS
  <2> HIDE DEF Address0
  <2> QED BY <1>2, <1>3, <1>4, <1>5, <1>6, <2>1
<1>8. \A e, f \in Effect : <<e>> \in Instructions /\ <<e, f>> \in Instructions
  BY DEF Instructions
<1>9. /\ Instruction.MOV \in Instructions /\ Instruction.MOV1 \in Instructions
      /\ Instruction.CONST \in Instructions /\ Instruction.NEVER \in Instructions
      /\ Instruction.LDRB \in Instructions /\ Instruction.LDR \in Instructions
      /\ Instruction.STRB \in Instructions /\ Instruction.STREQ \in Instructions
  <2> USE DEF Instruction
  <2>1. Instruction.MOV = <<Set(r0, Reg(r1, 0))>> /\ Instruction.MOV1 = <<Set(r1, Reg(r0, 0))>>
    OBVIOUS
  <2>2. Instruction.CONST = <<Set(r0, Const(1))>> /\ Instruction.NEVER = <<SetWhen(Const(0), r0, Reg(r1, 0))>>
    OBVIOUS
  <2>3. Instruction.LDRB = <<Set(r0, Load(r1, 0, 1))>> /\ Instruction.LDR = <<Set(r1, Load(r0, 0, 2))>>
    OBVIOUS
  <2>4. /\ Instruction.STRB = <<Store(Reg(r0, 0), 1, Reg(r1, 0))>>
        /\ Instruction.STREQ = <<StoreWhen(Reg(r0, 0), Reg(r0, 1), 1, Reg(r1, 0))>>
    OBVIOUS
  <2> HIDE DEF Instruction, Address0
  <2> QED BY ZenonT(40), <1>7, <1>8, <2>1, <2>2, <2>3, <2>4
<1>10. /\ Instruction.STR \in Instructions /\ Instruction.PUSHB \in Instructions
       /\ Instruction.POPB \in Instructions /\ Instruction.SPILL \in Instructions
       /\ Instruction.FILL \in Instructions /\ Instruction.SUBSP \in Instructions
       /\ Instruction.ADDSP \in Instructions /\ Instruction.SWP \in Instructions
  <2> USE DEF Instruction
  <2>1. /\ Instruction.STR = <<Store(Reg(r0, 0), 2, Reg(r1, 0))>>
        /\ Instruction.PUSHB = <<Store(Reg(Sp, -1), 1, Reg(r1, 0))>>
    OBVIOUS
  <2>2. /\ Instruction.POPB = <<Set(r0, Load(Sp, -1, 1))>>
        /\ Instruction.SPILL = <<Store(Reg(Sp, -1), 2, Reg(r1, 0))>>
    OBVIOUS
  <2>3. Instruction.FILL = <<Set(r0, Load(Sp, -1, 2))>> /\ Instruction.SUBSP = <<Set(Sp, Reg(Sp, -1))>>
    OBVIOUS
  <2>4. /\ Instruction.ADDSP = <<Set(Sp, Reg(Sp, 1))>>
        /\ Instruction.SWP = <<Set(r0, Reg(r1, 0)), Set(r1, Reg(r0, 0))>>
    OBVIOUS
  <2> HIDE DEF Instruction, Address0
  <2> QED BY ZenonT(40), <1>7, <1>8, <2>1, <2>2, <2>3, <2>4
<1>11. n \in {"MOV", "MOV1", "CONST", "NEVER", "LDRB", "LDR", "STRB", "STREQ", "STR", "PUSHB",
              "POPB", "SPILL", "FILL", "SUBSP", "ADDSP", "SWP"}
  BY DEF Instruction
<1> HIDE DEF Address0
<1> QED BY <1>9, <1>10, <1>11

\* The solver searches total states.
LEMMA StatesAreTotal == States \subseteq TotalState
<1> SUFFICES ASSUME NEW s \in States PROVE s \in TotalState
  OBVIOUS
<1>1. PICK f \in [Registers -> Word], m \in Memories : s = [registers |-> f, memory |-> m]
  BY DEF States
<1>2. m \in [Word -> Byte]
  <2>1. PICK b \in {<<0, 0, 0, 0>>, <<1, 0, 1, 1>>, <<0, 1, 1, 0>>} : m = [a \in Word |-> b[(a % 4) + 1]]
    BY <1>1 DEF Memories
  <2>2. \A k \in 1 .. 4 : b[k] \in Byte
    BY SmallNumbers
  <2>3. \A a \in Word : (a % 4) + 1 \in 1 .. 4
    BY WordsAreNumbers
  <2> QED BY <2>1, <2>2, <2>3
<1> QED BY <1>1, <1>2 DEF TotalState

(***************************************************************************)
(* Without illegal reads.  Two runs that start alike, but for registers    *)
(* that the original does not read, stay alike where it matters: an effect *)
(* reads what the original reads, or what an earlier instruction has       *)
(* written alike.                                                          *)
(***************************************************************************)

\* Two states are alike in the memory and in the registers of a set.
Alike(a, b, among) == a.memory = b.memory /\ \A q \in among : a.registers[q] = b.registers[q]

\* An expression has the same value in states alike on what it reads.
LEMMA EvaluateAlike ==
  ASSUME NEW x \in Expression, NEW a \in TotalState, NEW b \in TotalState, NEW among,
         Alike(a, b, among), x.base \in among \cup {NoRegister}
  PROVE  /\ Address(x, a) = Address(x, b) /\ Evaluate(x, a) = Evaluate(x, b)
         /\ Evaluate(x, a) # {}
<1>1. Address(x, a) = Address(x, b)
  BY DEF Address, Alike
<1>2. Evaluate(x, a) = Evaluate(x, b)
  BY <1>1 DEF Evaluate, Alike
<1>3. Evaluate(x, a) # {}
  <2>1. Address(x, a) \in Word /\ DOMAIN a.memory = Word /\ x.bytes \in 0 .. 2
    BY AddressIsWord, TotalStateIsState DEF Expression
  <2>2. Cells(Address(x, a), x.bytes) \subseteq DOMAIN a.memory
    BY <2>1, CellsAreWords
  <2> QED BY <2>1, <2>2 DEF Evaluate
<1> QED BY <1>1, <1>2, <1>3

\* Constants have their value and read nothing.
LEMMA ConstantsAre ==
  ASSUME NEW s \in TotalState
  PROVE  /\ Evaluate(Const(0), s) = {0} /\ Evaluate(Const(1), s) = {1}
         /\ Const(0).base = NoRegister /\ Const(1).base = NoRegister
         /\ Const(0) \in Expression /\ Const(1) \in Expression
         /\ Const(0).bytes = 0 /\ Const(0).offset = 0
         /\ Const(1).bytes = 0 /\ Const(1).offset = 1
<1>1. /\ 2 ^ (2 * ByteBits) \in Nat /\ 0 \in Word /\ 1 \in Word
  BY SmallNumbers, Sizes
<1>2. Wrap(0) = 0 /\ Wrap(1) = 1
  BY <1>1 DEF Wrap, Word
<1>3. /\ Const(0) = [base |-> NoRegister, offset |-> 0, bytes |-> 0]
      /\ Const(1) = [base |-> NoRegister, offset |-> 1, bytes |-> 0]
  BY <1>2 DEF Const, Reg
<1>4. Address(Const(0), s) = 0 /\ Address(Const(1), s) = 1
  BY <1>2, <1>3 DEF Address
<1>5. Const(0) \in Expression /\ Const(1) \in Expression
  BY <1>1, <1>3 DEF Expression
<1> QED BY <1>3, <1>4, <1>5 DEF Evaluate

\* The registers that an effect makes use of.
LEMMA UsesAreReads ==
  ASSUME NEW e \in Effect
  PROVE  /\ e.guard.base \in RegisterReads(e) \cup {Sp, NoRegister}
         /\ e.value.base \in RegisterReads(e) \cup {Sp, NoRegister}
         /\ ~WritesRegister(e) => e.address.base \in RegisterReads(e) \cup {Sp, NoRegister}
<1>1. /\ e.guard \in Expression /\ e.value \in Expression
  BY EffectParts
<1>2. \A x \in {e.guard, e.value} : x \in Values(e) \/ x \in Addresses(e)
  BY <1>1 DEF Values, Addresses, Loads, Expression
<1>3. ~WritesRegister(e) => e.address \in Addresses(e)
  BY DEF Addresses
<1>4. \A x \in Values(e) \cup Addresses(e) : x.base \in RegisterReads(e) \cup {Sp, NoRegister}
  BY DEF RegisterReads, Bases
<1> QED BY <1>2, <1>3, <1>4

\* An effect that reads where states are alike leaves them alike on what it writes too.
LEMMA ApplyAlike ==
  ASSUME NEW e \in Effect, e.guard = Const(1),
         NEW a \in TotalState, NEW b \in TotalState, NEW c \in TotalState, NEW d \in TotalState,
         NEW among, Alike(a, b, among), RegisterReads(e) \cup {Sp} \subseteq among,
         NEW after, Alike(c, d, after)
  PROVE  Alike(Apply(e, a, c), Apply(e, b, d), after \cup RegisterWrites(e))
<1>1. /\ a \in MachineState /\ b \in MachineState /\ c \in MachineState /\ d \in MachineState
  BY TotalStateIsState
<1>2. e.value \in Expression /\ e.value.base \in among \cup {NoRegister}
  BY EffectParts, UsesAreReads
<1> DEFINE values == Evaluate(e.value, a)
           v == CHOOSE v \in values : TRUE
           w == CHOOSE w \in Evaluate(e.value, b) : TRUE
           memory(s, t) == Stored(t.memory, Address(e.address, s), e.bytes, v)
<1>3. values = Evaluate(e.value, b) /\ values # {}
  BY <1>2, EvaluateAlike
<1>4. w = v
  BY <1>3
<1>5. (\E g \in Evaluate(e.guard, a) : g # 0) /\ (\E g \in Evaluate(e.guard, b) : g # 0)
  BY ConstantsAre
<1>6. \/ /\ WritesRegister(e)
         /\ Apply(e, a, c) = [registers |-> [c.registers EXCEPT ![e.register] = v], memory |-> c.memory]
      \/ /\ ~WritesRegister(e)
         /\ Apply(e, a, c) = [registers |-> c.registers, memory |-> memory(a, c)]
  <2> HIDE DEF v
  <2> QED BY ZenonT(40), <1>1, <1>3, <1>5, ApplyCases DEF v
<1>7. \/ /\ WritesRegister(e)
         /\ Apply(e, b, d) = [registers |-> [d.registers EXCEPT ![e.register] = w], memory |-> d.memory]
      \/ /\ ~WritesRegister(e)
         /\ Apply(e, b, d) = [registers |-> d.registers,
                              memory |-> Stored(d.memory, Address(e.address, b), e.bytes, w)]
  <2> HIDE DEF values
  <2> QED BY ZenonT(40), <1>1, <1>3, <1>5, ApplyCases DEF values
<1> HIDE DEF v, w, values
<1>8. CASE WritesRegister(e)
  <2>1. e.register \in Registers /\ RegisterWrites(e) = {e.register}
    BY <1>8, EffectParts DEF RegisterWrites
  <2>2. c.registers \in [Registers -> Word] /\ d.registers \in [Registers -> Word]
    BY DEF TotalState
  <2>3. \A q \in after \cup {e.register} :
          [c.registers EXCEPT ![e.register] = v][q] = [d.registers EXCEPT ![e.register] = v][q]
    BY <2>1, <2>2 DEF Alike
  <2>4. /\ Apply(e, a, c) = [registers |-> [c.registers EXCEPT ![e.register] = v], memory |-> c.memory]
        /\ Apply(e, b, d) = [registers |-> [d.registers EXCEPT ![e.register] = v], memory |-> d.memory]
    BY <1>4, <1>6, <1>7, <1>8
  <2>5. /\ Apply(e, a, c).registers = [c.registers EXCEPT ![e.register] = v]
        /\ Apply(e, b, d).registers = [d.registers EXCEPT ![e.register] = v]
        /\ Apply(e, a, c).memory = Apply(e, b, d).memory
    BY <2>4 DEF Alike
  <2> QED BY <2>1, <2>3, <2>5 DEF Alike
<1>9. CASE ~WritesRegister(e)
  <2>1. Address(e.address, a) = Address(e.address, b)
    BY <1>9, EffectParts, UsesAreReads, EvaluateAlike
  <2>2. RegisterWrites(e) = {}
    BY <1>9 DEF RegisterWrites
  <2> QED BY <1>4, <1>6, <1>7, <1>9, <2>1, <2>2 DEF Alike
<1> QED BY <1>8, <1>9

\* An effect whose guard is the constant 0 does nothing.
LEMMA NeverKeeps ==
  ASSUME NEW e \in Effect, e.guard = Const(0), NEW a \in TotalState, NEW c \in TotalState
  PROVE  Apply(e, a, c) = c
<1>1. ~ \E g \in Evaluate(e.guard, a) : g # 0
  BY ConstantsAre
<1> QED BY <1>1, TotalStateIsState, ApplyCases

\* The registers that the instructions up to k of a program write.
WrittenTo(p, k) == UNION {RegisterWrites(EffectAt(p, to)) : to \in {at \in Places(p) : at[1] <= k}}

\* Effects that may happen, of programs without conditional writes.
LEMMA PlacesHappen ==
  ASSUME NEW p \in Seq(Instructions), Unguarded(p), NEW i \in DOMAIN p, NEW j \in DOMAIN p[i]
  PROVE  /\ p[i][j] \in Effect /\ EffectAt(p, <<i, j>>) = p[i][j]
         /\ \/ <<i, j>> \in Places(p) /\ p[i][j].guard = Const(1)
            \/ <<i, j>> \notin Places(p) /\ p[i][j].guard = Const(0)
<1>1. p[i] \in Seq(Effect)
  BY DEF Instructions
<1>2. p[i][j] \in Effect /\ EffectAt(p, <<i, j>>) = p[i][j]
  BY <1>1 DEF EffectAt
<1>3. p[i][j].guard \in {Const(0), Const(1)}
  BY DEF Unguarded, EffectsOf, ToSet
<1>4. <<i, j>> \in UNION {{k} \X DOMAIN p[k] : k \in DOMAIN p}
  OBVIOUS
<1>5. <<i, j>> \in Places(p) <=> ~Never(p[i][j])
  BY <1>2, <1>4 DEF Places
<1>6. PICK s : s \in TotalState
  <2>1. [registers |-> [r \in Registers |-> 0], memory |-> [w \in Word |-> 0]] \in TotalState
    BY SmallNumbers DEF TotalState
  <2> QED BY <2>1
<1> QED BY <1>2, <1>3, <1>5, <1>6, ConstantsAre DEF Never

\* What a place reads is known, or written by an earlier instruction.
LEMMA ReadsAreWritten ==
  ASSUME NEW p \in Seq(Instructions), NEW source, IllegalReadCount(p, source) = 0,
         NEW i \in DOMAIN p, ~ReadsWhatItWrites(p[i]), NEW j \in DOMAIN p[i], <<i, j>> \in Places(p)
  PROVE  RegisterReads(p[i][j]) \subseteq OriginalRegisters(source) \cup WrittenTo(p, i - 1)
<1>1. IllegalRegisters(p, <<i, j>>, source) = {}
  BY IllegalReadsAreCounted
<1> SUFFICES ASSUME NEW r \in RegisterReads(p[i][j]), r \notin OriginalRegisters(source)
             PROVE  r \in WrittenTo(p, i - 1)
  OBVIOUS
<1>2. PICK to \in Earlier(p, <<i, j>>) : r \in RegisterWrites(EffectAt(p, to))
  BY <1>1 DEF IllegalRegisters, EffectAt
<1>3. to \in Places(p) /\ (to[1] < i \/ (to[1] = i /\ to[2] < j))
  BY <1>2 DEF Earlier
<1>4. PICK k \in DOMAIN p : \E l \in DOMAIN p[k] : to = <<k, l>>
  BY <1>3 DEF Places
<1>5. k # i
  BY <1>2, <1>3, <1>4 DEF ReadsWhatItWrites, EffectAt
<1>6. k \in Int /\ i \in Int /\ k < i /\ to[1] = k
  BY <1>3, <1>4, <1>5
<1> QED BY <1>2, <1>3, <1>6 DEF WrittenTo

\* So does an instruction without illegal reads.
LEMMA StepAlike ==
  ASSUME NEW p \in Seq(Instructions), NEW source, IllegalReadCount(p, source) = 0, Unguarded(p),
         NEW i \in DOMAIN p, ~ReadsWhatItWrites(p[i]),
         NEW a \in TotalState, NEW b \in TotalState, NEW known,
         OriginalRegisters(source) \cup {Sp} \subseteq known,
         Alike(a, b, known \cup WrittenTo(p, i - 1))
  PROVE  Alike(Step(p[i], a), Step(p[i], b), known \cup WrittenTo(p, i))
<1> DEFINE es == p[i]
           n == Len(es)
           among == known \cup WrittenTo(p, i - 1)
           f == Effected(es, a)
           g == Effected(es, b)
           Here(j) == UNION {RegisterWrites(es[m]) : m \in {l \in 1 .. j : <<i, l>> \in Places(p)}}
           S == {j \in 0 .. n : /\ f[j] \in TotalState /\ g[j] \in TotalState
                                /\ Alike(f[j], g[j], among \cup Here(j))}
<1>1. /\ es \in Seq(Effect) /\ n \in Nat /\ DOMAIN es = 1 .. n /\ i \in Nat
      /\ a \in MachineState /\ b \in MachineState
  BY TotalStateIsState DEF Instructions
<1>2. /\ f[0] = a /\ \A j \in 1 .. n : f[j] = Apply(es[j], a, f[j - 1])
      /\ g[0] = b /\ \A j \in 1 .. n : g[j] = Apply(es[j], b, g[j - 1])
  BY ZenonT(40), <1>1, EffectedFollows
<1>3. 0 \in S
  <2>1. Here(0) = {}
    OBVIOUS
  <2>2. among \cup Here(0) = among
    BY <2>1
  <2> HIDE DEF Here, f, g
  <2>3. Alike(f[0], g[0], among \cup Here(0))
    BY <1>2, <2>2 DEF Alike
  <2>4. 0 \in 0 .. n /\ f[0] \in TotalState /\ g[0] \in TotalState
    BY <1>1, <1>2
  <2> QED BY <2>3, <2>4
<1>4. ASSUME NEW j \in 0 .. n - 1, j \in S PROVE j + 1 \in S
  <2> DEFINE e == es[j + 1]
  <2>1. j + 1 \in 0 .. n /\ j + 1 \in 1 .. n /\ (j + 1) - 1 = j /\ j + 1 \in DOMAIN es
    BY <1>1
  <2>2. /\ e \in Effect
        /\ \/ <<i, j + 1>> \in Places(p) /\ e.guard = Const(1)
           \/ <<i, j + 1>> \notin Places(p) /\ e.guard = Const(0)
    BY <2>1, PlacesHappen
  <2>3. f[j + 1] = Apply(e, a, f[j]) /\ g[j + 1] = Apply(e, b, g[j])
    BY <1>2, <2>1
  <2>4. f[j] \in TotalState /\ g[j] \in TotalState /\ Alike(f[j], g[j], among \cup Here(j))
    BY <1>4
  <2>5. f[j + 1] \in TotalState /\ g[j + 1] \in TotalState
    <3>1. Touched(e, a) \subseteq Word /\ Touched(e, b) \subseteq Word /\ Word \in SUBSET Word
      BY <1>1, <2>2, TouchedIsWords
    <3> HIDE DEF e, f, g
    <3>2. Apply(e, a, f[j]) \in TotalState
      BY <2>2, <2>4, <3>1, ApplyCut
    <3>3. Apply(e, b, g[j]) \in TotalState
      BY <2>2, <2>4, <3>1, ApplyCut
    <3> QED BY <2>3, <3>2, <3>3
  <2>6. CASE <<i, j + 1>> \in Places(p) /\ e.guard = Const(1)
    <3>1. RegisterReads(e) \cup {Sp} \subseteq among
      BY <2>1, <2>6, ReadsAreWritten
    <3>2. Here(j + 1) \subseteq Here(j) \cup RegisterWrites(e)
      <4>1. \A m \in 1 .. j + 1 : m \in 1 .. j \/ m = j + 1
        BY <2>1
      <4> QED BY ONLY <4>1 DEF Here, e
    <3> HIDE DEF e, f, g, Here, among
    <3>3. Alike(f[j + 1], g[j + 1], (among \cup Here(j)) \cup RegisterWrites(e))
      BY SMTT(40), <2>2, <2>3, <2>4, <2>6, <3>1, ApplyAlike DEF among
    <3>4. Alike(f[j + 1], g[j + 1], among \cup Here(j + 1))
      BY <3>2, <3>3 DEF Alike
    <3> QED BY <2>1, <2>5, <3>4
  <2>7. CASE <<i, j + 1>> \notin Places(p) /\ e.guard = Const(0)
    <3>1. Here(j + 1) \subseteq Here(j)
      <4>1. \A m \in 1 .. j + 1 : m \in 1 .. j \/ m = j + 1
        BY <2>1
      <4> QED BY ONLY <2>7, <4>1 DEF Here, e
    <3>2. f[j + 1] = f[j] /\ g[j + 1] = g[j]
      BY <2>2, <2>3, <2>4, <2>7, NeverKeeps
    <3> HIDE DEF e, f, g, Here, among
    <3>3. Alike(f[j + 1], g[j + 1], among \cup Here(j + 1))
      BY <2>4, <3>1, <3>2 DEF Alike
    <3> QED BY <2>1, <2>5, <3>3
  <2> QED BY <2>2, <2>6, <2>7
<1> HIDE DEF S
<1>5. n \in 0 .. n /\ 0 .. n \subseteq S
  <2>1. n \in Nat
    BY <1>1
  <2> HIDE DEF n
  <2>2. 0 .. n \subseteq S
    BY ONLY SMTT(40), <2>1, <1>3, <1>4, Counting
  <2> QED BY ONLY <2>1, <2>2
<1>6. Alike(f[n], g[n], among \cup Here(n))
  BY <1>5 DEF S
<1>7. WrittenTo(p, i) \subseteq WrittenTo(p, i - 1) \cup Here(n)
  <2> SUFFICES ASSUME NEW to \in Places(p), to[1] <= i, ~(to[1] <= i - 1)
               PROVE  RegisterWrites(EffectAt(p, to)) \subseteq Here(n)
    BY ZenonT(40) DEF WrittenTo
  <2>1. PICK k \in DOMAIN p : \E l \in DOMAIN p[k] : to = <<k, l>>
    BY DEF Places
  <2>2. PICK l \in DOMAIN p[k] : to = <<k, l>>
    BY <2>1
  <2>3. k \in Int /\ k = i
    BY <1>1, <2>2
  <2>4. l \in 1 .. n /\ EffectAt(p, to) = es[l] /\ <<i, l>> \in Places(p)
    BY <1>1, <2>2, <2>3 DEF EffectAt
  <2> QED BY <2>4
<1>8. Step(es, a) = f[n] /\ Step(es, b) = g[n]
  BY DEF Step
<1> HIDE DEF f, g, es, n, Here
<1> QED BY <1>6, <1>7, <1>8 DEF Alike, es

\* And a program.
LEMMA RunAlike ==
  ASSUME NEW p \in Seq(Instructions), NEW source, IllegalReadCount(p, source) = 0, Unguarded(p),
         \A i \in DOMAIN p : ~ReadsWhatItWrites(p[i]),
         NEW a \in TotalState, NEW b \in TotalState, NEW known,
         OriginalRegisters(source) \cup {Sp} \subseteq known, Alike(a, b, known)
  PROVE  Alike(Execute(p, a), Execute(p, b), known \cup Written(p))
<1> DEFINE n == Len(p)
           f == Run(p, a)
           g == Run(p, b)
           S == {i \in 0 .. n : Alike(f[i], g[i], known \cup WrittenTo(p, i))}
<1>1. n \in Nat /\ DOMAIN p = 1 .. n /\ a \in MachineState /\ b \in MachineState
  BY TotalStateIsState
<1>2. /\ f[0] = a /\ \A i \in 1 .. n : f[i] = Step(p[i], f[i - 1])
      /\ g[0] = b /\ \A i \in 1 .. n : g[i] = Step(p[i], g[i - 1])
      /\ f \in [0 .. n -> TotalState] /\ g \in [0 .. n -> TotalState]
  BY <1>1, RunFollows, RunTotal
<1>3. \A to \in Places(p) : to[1] \in 1 .. n
  BY <1>1 DEF Places
<1> HIDE DEF f, g
<1>4. 0 \in S
  <2>1. WrittenTo(p, 0) = {}
    BY <1>1, <1>3 DEF WrittenTo
  <2>2. known \cup WrittenTo(p, 0) = known
    BY <2>1
  <2>3. Alike(f[0], g[0], known \cup WrittenTo(p, 0))
    BY <1>2, <2>2 DEF Alike
  <2>4. 0 \in 0 .. n
    BY <1>1
  <2> QED BY <2>3, <2>4
<1>5. ASSUME NEW i \in 0 .. n - 1, i \in S PROVE i + 1 \in S
  <2>1. i \in 0 .. n /\ i + 1 \in 0 .. n /\ i + 1 \in 1 .. n /\ (i + 1) - 1 = i
    BY <1>1
  <2>2. f[i] \in TotalState /\ g[i] \in TotalState
    BY <1>2, <2>1
  <2>3. Alike(f[i], g[i], known \cup WrittenTo(p, (i + 1) - 1))
    BY <1>5, <2>1
  <2>4. Alike(Step(p[i + 1], f[i]), Step(p[i + 1], g[i]), known \cup WrittenTo(p, i + 1))
    BY <1>1, <2>1, <2>2, <2>3, StepAlike
  <2> QED BY <1>2, <2>1, <2>4
<1> HIDE DEF S
<1>6. n \in 0 .. n /\ 0 .. n \subseteq S
  <2>1. n \in Nat
    BY <1>1
  <2> HIDE DEF n
  <2>2. 0 .. n \subseteq S
    BY ONLY <2>1, <1>4, <1>5, Counting
  <2> QED BY ONLY <2>1, <2>2
<1>7. Alike(f[n], g[n], known \cup WrittenTo(p, n))
  BY <1>6 DEF S
<1>8. Written(p) = WrittenTo(p, n)
  BY <1>1, <1>3 DEF Written, WrittenTo
<1> QED BY <1>7, <1>8 DEF f, g, Execute

\* The two programs are programs.
ArePrograms == original \in Seq(Instructions) /\ generated \in Seq(Instructions)

\* The pairs compared are programs.
LEMMA PairsArePrograms == PairSpec => []ArePrograms
<1>1. PairInit => ArePrograms
  <2> SUFFICES ASSUME PairInit PROVE ArePrograms
    OBVIOUS
  <2>1. PICK n \in Originals : original = <<Instruction[n]>>
    BY DEF PairInit
  <2>2. n \in DOMAIN Instruction
    BY PairsAssumption
  <2>3. Instruction[n] \in Instructions
    BY <2>2, InstructionsTyped
  <2>4. original \in Seq(Instructions)
    BY <2>1, <2>3
  <2>5. generated \in Seq(Instructions)
    BY DEF PairInit
  <2> QED BY <2>4, <2>5 DEF ArePrograms
<1>2. ArePrograms /\ [Grow]_<<original, generated>> => ArePrograms'
  BY SMTT(40), InstructionsTyped, PairsAssumption DEF ArePrograms, Grow
<1> QED BY <1>1, <1>2, PTL DEF PairSpec

\* The solver's counterexample is always a test that the generated program
\* fails: the assertion of decide_proposal_acceptance_timed cannot fail.
THEOREM ModelRefutesHolds == PairSpec => []ModelRefutes
<1>1. ArePrograms => ModelRefutes
  BY RefutationCosts, StatesAreTotal DEF ArePrograms, ModelRefutes, CostOfModel
<1> QED BY <1>1, PairsArePrograms, PTL

\* Programs that the solver finds equal are at no distance, if the generated one
\* stores nothing in the stack.
THEOREM EqualIsNoDistanceHolds == PairSpec => []EqualIsNoDistance
<1>1. ArePrograms => EqualIsNoDistance
  BY AgreementIsFree, StatesAreTotal DEF ArePrograms, EqualIsNoDistance, Equal, CostOfModel
<1> QED BY <1>1, PairsArePrograms, PTL

\* A program without conditional writes and without illegal reads computes from
\* what the original reads and from the stack pointer alone, if no instruction
\* of it reads what it writes.
THEOREM LegalReadsSufficeHolds == PairSpec => []LegalReadsSuffice
<1>1. ArePrograms => LegalReadsSuffice
  <2> SUFFICES ASSUME ArePrograms, IllegalReadCount(generated, original) = 0, Unguarded(generated),
                      ~\E i \in DOMAIN generated : ReadsWhatItWrites(generated[i]),
                      NEW s \in States, NEW r \in Registers \ Known, NEW v \in Word
               PROVE  LET a == Execute(generated, s)
                          b == Execute(generated, [s EXCEPT !.registers[r] = v])
                      IN  /\ a.memory = b.memory
                          /\ \A q \in Written(generated) : a.registers[q] = b.registers[q]
    BY DEF LegalReadsSuffice, Uninfluenced
  <2> DEFINE t == [s EXCEPT !.registers[r] = v]
  <2>1. s \in TotalState
    BY StatesAreTotal
  <2>2. t \in TotalState /\ t.memory = s.memory /\ t.registers = [s.registers EXCEPT ![r] = v]
    BY <2>1 DEF TotalState
  <2>3. Alike(s, t, Known)
    <3>1. s.registers \in [Registers -> Word]
      BY <2>1 DEF TotalState
    <3>2. \A q \in Known : [s.registers EXCEPT ![r] = v][q] = s.registers[q]
      BY <3>1
    <3> QED BY <2>2, <3>2 DEF Alike
  <2> HIDE DEF t
  <2>4. generated \in Seq(Instructions) /\ OriginalRegisters(original) \cup {Sp} \subseteq Known
    BY DEF ArePrograms, Known
  <2>5. Alike(Execute(generated, s), Execute(generated, t), Known \cup Written(generated))
    BY <2>1, <2>2, <2>3, <2>4, RunAlike
  <2> QED BY <2>5 DEF Alike, t
<1> QED BY <1>1, PairsArePrograms, PTL
------------------------------------------------------------------------------

(***************************************************************************)
(* Programs.                                                               *)
(***************************************************************************)

\* The effects of a program that the search may hold.
LEMMA CodeIsProgram ==
  ASSUME NEW p \in AnyProgram
  PROVE  Code(p) \in Seq(Instructions)
<1>1. Slots \in Nat /\ DOMAIN p = 1 .. Slots
  BY SearchAssumption DEF AnyProgram
<1>2. <<>> \in Instructions
  BY DEF Instructions
<1>3. \A i \in 1 .. Slots : (IF p[i] = Unused THEN <<>> ELSE Effects[p[i]]) \in Instructions
  BY <1>2, SearchAssumption DEF AnyProgram
<1>4. Code(p) \in [1 .. Slots -> Instructions]
  BY <1>1, <1>3 DEF Code
<1> QED BY <1>1, <1>4

TestCase == [state : MachineState, desired : MachineState]

\* A state makes a test.
LEMMA TestIsTest ==
  ASSUME NEW s \in MachineState
  PROVE  Test(s) \in TestCase
BY SearchAssumption, RunFollows DEF Test, TestCase

\* A program costs a number on a test.
LEMMA CostIsNatural ==
  ASSUME NEW p \in AnyProgram, NEW test \in TestCase
  PROVE  CostOn(p, test) \in Nat
<1>1. test.state \in MachineState /\ test.desired \in MachineState
  BY DEF TestCase
<1>2. Execute(Code(p), test.state) \in MachineState
  BY <1>1, CodeIsProgram, RunFollows
<1> QED BY <1>1, <1>2, CompareCounts DEF CostOn, EqualityCost

(***************************************************************************)
(* The cost of the counterexamples.                                        *)
(***************************************************************************)

\* The sum so far, for each number of tests.
Sums(p, tests, f) ==
  /\ f \in [0 .. Len(tests) -> Nat]
  /\ f[0] = 0
  /\ \A n \in 1 .. Len(tests) : f[n] = f[n - 1] + CostOn(p, tests[n])

\* The cost on a list is the sum over it.
LEMMA CostOnAllSums ==
  ASSUME NEW p \in AnyProgram, NEW tests \in Seq(TestCase)
  PROVE  \E f : Sums(p, tests, f) /\ CostOnAll(p, tests) = f[Len(tests)]
<1> DEFINE n == Len(tests)
           step == [i \in 1 .. n |-> [t \in Nat |-> t + CostOn(p, tests[i])]]
           Good(f) == f = [i \in 0 .. n |-> IF i = 0 THEN 0 ELSE f[i - 1] + CostOn(p, tests[i])]
<1>1. n \in Nat /\ \A i \in 1 .. n : tests[i] \in TestCase
  OBVIOUS
<1>2. \A i \in 1 .. n : CostOn(p, tests[i]) \in Nat
  BY <1>1, CostIsNatural
<1>3. step \in [1 .. n -> [Nat -> Nat]]
  BY <1>2
<1>4. PICK f \in [0 .. n -> Nat] : Follows(f, n, 0, step)
  <2> HIDE DEF step, n
  <2> QED BY <1>1, <1>3, RecursionExists
<1>5. f[0] = 0 /\ \A i \in 1 .. n : f[i] = f[i - 1] + CostOn(p, tests[i])
  <2>1. ASSUME NEW i \in 1 .. n PROVE step[i][f[i - 1]] = f[i - 1] + CostOn(p, tests[i])
    <3>1. i - 1 \in 0 .. n
      BY <1>1
    <3>2. f[i - 1] \in Nat
      BY <1>4, <3>1
    <3> HIDE DEF n
    <3> QED BY <3>2
  <2> HIDE DEF step
  <2> QED BY <1>4, <2>1 DEF Follows
<1>6. Good(f)
  <2>1. \A i \in 0 .. n : i # 0 => i \in 1 .. n
    BY <1>1
  <2> HIDE DEF n, step
  <2> QED BY <1>4, <1>5, <2>1
<1> DEFINE g == CHOOSE h : Good(h)
<1>7. CostOnAll(p, tests) = g[n]
  BY DEF CostOnAll
<1>8. Good(g)
  <2> HIDE DEF Good
  <2> QED BY <1>6
<1> HIDE DEF g
<1>9. g[0] = 0 /\ \A i \in 1 .. n : g[i] = g[i - 1] + CostOn(p, tests[i])
  BY <1>1, <1>8
<1>10. g \in [0 .. n -> Nat]
  <2> DEFINE S == {i \in 0 .. n : g[i] \in Nat}
  <2>1. 0 \in S
    BY <1>1, <1>9
  <2>2. ASSUME NEW i \in 0 .. n - 1, i \in S PROVE i + 1 \in S
    <3>1. i + 1 \in 0 .. n /\ i + 1 \in 1 .. n /\ (i + 1) - 1 = i
      BY <1>1
    <3>2. g[i + 1] = g[i] + CostOn(p, tests[i + 1]) /\ CostOn(p, tests[i + 1]) \in Nat
      BY <1>2, <1>9, <3>1
    <3> QED BY <2>2, <3>1, <3>2
  <2> HIDE DEF S
  <2>3. 0 .. n \subseteq S
    BY <1>1, <2>1, <2>2, Counting
  <2>4. \A i \in 0 .. n : g[i] \in Nat
    BY <2>3 DEF S
  <2> HIDE DEF n
  <2> QED BY <1>8, <2>4
<1> QED BY <1>7, <1>9, <1>10 DEF Sums

\* It is a number.
LEMMA CostOnAllTyped ==
  ASSUME NEW p \in AnyProgram, NEW tests \in Seq(TestCase)
  PROVE  CostOnAll(p, tests) \in Nat
<1>1. PICK f : Sums(p, tests, f) /\ CostOnAll(p, tests) = f[Len(tests)]
  BY CostOnAllSums
<1>2. Len(tests) \in 0 .. Len(tests)
  OBVIOUS
<1> QED BY <1>1, <1>2 DEF Sums

\* On no test it is nothing.
LEMMA NoTestsAreFree ==
  ASSUME NEW p \in AnyProgram
  PROVE  CostOnAll(p, <<>>) = 0
<1>1. PICK f : Sums(p, <<>>, f) /\ CostOnAll(p, <<>>) = f[Len(<<>>)]
  BY CostOnAllSums, <<>> \in Seq(TestCase)
<1> QED BY <1>1 DEF Sums

\* On one test it is the cost on it.
LEMMA OneTestCosts ==
  ASSUME NEW p \in AnyProgram, NEW test \in TestCase
  PROVE  CostOnAll(p, <<test>>) = CostOn(p, test)
<1>1. <<test>> \in Seq(TestCase) /\ Len(<<test>>) = 1 /\ <<test>>[1] = test
  OBVIOUS
<1>2. PICK f : Sums(p, <<test>>, f) /\ CostOnAll(p, <<test>>) = f[1]
  BY <1>1, CostOnAllSums
<1>3. f[0] = 0 /\ f[1] = f[1 - 1] + CostOn(p, test)
  BY <1>1, <1>2 DEF Sums
<1> QED BY <1>2, <1>3, CostIsNatural

\* Tests that are added to the list add their costs.
LEMMA AddedTestsCost ==
  ASSUME NEW p \in AnyProgram, NEW first \in Seq(TestCase), NEW second \in Seq(TestCase)
  PROVE  CostOnAll(p, first \o second) = CostOnAll(p, first) + CostOnAll(p, second)
<1> DEFINE both == first \o second
           m == Len(first)
           n == Len(second)
<1>1. /\ both \in Seq(TestCase) /\ m \in Nat /\ n \in Nat /\ Len(both) = m + n
      /\ \A i \in 1 .. m : both[i] = first[i]
      /\ \A i \in 1 .. n : both[m + i] = second[i]
  OBVIOUS
<1>2. PICK f : Sums(p, both, f) /\ CostOnAll(p, both) = f[m + n]
  BY ZenonT(40), <1>1, CostOnAllSums
<1>3. PICK g : Sums(p, first, g) /\ CostOnAll(p, first) = g[m]
  BY CostOnAllSums
<1>4. PICK h : Sums(p, second, h) /\ CostOnAll(p, second) = h[n]
  BY CostOnAllSums
<1>5. /\ f[0] = 0 /\ \A i \in 1 .. m + n : f[i] = f[i - 1] + CostOn(p, both[i])
      /\ g[0] = 0 /\ \A i \in 1 .. m : g[i] = g[i - 1] + CostOn(p, first[i])
      /\ h[0] = 0 /\ \A i \in 1 .. n : h[i] = h[i - 1] + CostOn(p, second[i])
      /\ g \in [0 .. m -> Nat] /\ h \in [0 .. n -> Nat]
  BY <1>1, <1>2, <1>3, <1>4 DEF Sums
<1> HIDE DEF both, m, n
<1>6. f[m] = g[m]
  <2> DEFINE S == {i \in 0 .. m : f[i] = g[i]}
  <2>1. 0 \in S
    BY <1>1, <1>5
  <2>2. ASSUME NEW i \in 0 .. m - 1, i \in S PROVE i + 1 \in S
    <3>1. i + 1 \in 0 .. m /\ i + 1 \in 1 .. m /\ i + 1 \in 1 .. m + n /\ (i + 1) - 1 = i
      BY <1>1
    <3>2. f[i + 1] = f[i] + CostOn(p, both[i + 1]) /\ g[i + 1] = g[i] + CostOn(p, first[i + 1])
      BY <1>5, <3>1
    <3> QED BY <1>1, <2>2, <3>1, <3>2
  <2> HIDE DEF S
  <2>3. 0 .. m \subseteq S
    BY <1>1, <2>1, <2>2, Counting
  <2>4. m \in 0 .. m
    BY <1>1
  <2> QED BY <2>3, <2>4 DEF S
<1>7. f[m + n] = g[m] + h[n]
  <2> DEFINE S == {i \in 0 .. n : f[m + i] = g[m] + h[i]}
  <2>1. 0 \in S
    <3>1. g[m] \in Nat /\ h[0] = 0 /\ m + 0 = m
      BY <1>1, <1>5
    <3> QED BY <1>1, <1>6, <3>1
  <2>2. ASSUME NEW i \in 0 .. n - 1, i \in S PROVE i + 1 \in S
    <3>1. /\ i \in 0 .. n /\ i + 1 \in 0 .. n /\ i + 1 \in 1 .. n /\ (i + 1) - 1 = i
          /\ m + (i + 1) \in 1 .. m + n /\ (m + (i + 1)) - 1 = m + i
      BY <1>1
    <3>2. /\ f[m + (i + 1)] = f[m + i] + CostOn(p, second[i + 1])
          /\ h[i + 1] = h[i] + CostOn(p, second[i + 1])
      BY <1>1, <1>5, <3>1
    <3>3. second[i + 1] \in TestCase
      BY <3>1 DEF n
    <3>4. m \in 0 .. m
      BY <1>1
    <3>5. CostOn(p, second[i + 1]) \in Nat /\ g[m] \in Nat /\ h[i] \in Nat
      BY <1>5, <3>1, <3>3, <3>4, CostIsNatural
    <3> QED BY <2>2, <3>1, <3>2, <3>5
  <2> HIDE DEF S
  <2>3. 0 .. n \subseteq S
    BY <1>1, <2>1, <2>2, Counting
  <2>4. n \in 0 .. n
    BY <1>1
  <2> QED BY <2>3, <2>4 DEF S
<1> QED BY <1>2, <1>3, <1>4, <1>7 DEF both

\* A new test adds its cost.
LEMMA AnswerCosts ==
  ASSUME NEW p \in AnyProgram, NEW tests \in Seq(TestCase), NEW test \in TestCase
  PROVE  /\ CostOnAll(p, Append(tests, test)) = CostOnAll(p, tests) + CostOn(p, test)
         /\ Append(tests, test) \in Seq(TestCase)
<1>1. Append(tests, test) = tests \o <<test>> /\ <<test>> \in Seq(TestCase)
  OBVIOUS
<1>2. CostOnAll(p, tests \o <<test>>) = CostOnAll(p, tests) + CostOnAll(p, <<test>>)
  BY <1>1, AddedTestsCost
<1>3. Append(tests, test) \in Seq(TestCase)
  OBVIOUS
<1> QED BY <1>1, <1>2, <1>3, OneTestCosts

(***************************************************************************)
(* The cost of a program itself.                                           *)
(***************************************************************************)

\* What a program costs by itself is a number.
LEMMA BaseCostIsNatural ==
  ASSUME NEW p \in AnyProgram
  PROVE  BaseCost[p] \in Nat
<1>1. PerformanceCost(p) \in Nat
  <2>1. Used(p) \in SUBSET (1 .. Slots) /\ Slots \in Nat
    BY SearchAssumption DEF Used, AnyProgram
  <2>2. IsFiniteSet(1 .. Slots)
    BY <2>1, FS_Interval
  <2>3. IsFiniteSet(Used(p))
    BY <2>1, <2>2, FS_Subset
  <2> QED BY <2>3, FS_CardinalityType DEF PerformanceCost
<1>2. IllegalReadCount(Code(p), Original) \in Nat
  BY CodeIsProgram, SearchAssumption, IllegalReadsAreCounted
<1>3. WeightIllegalRead * IllegalReadCount(Code(p), Original) \in Nat
  BY <1>2, SearchAssumption
<1>4. BaseCost[p] = PerformanceCost(p) + WeightIllegalRead * IllegalReadCount(Code(p), Original)
  BY DEF BaseCost
<1> QED BY <1>1, <1>3, <1>4

(***************************************************************************)
(* Tests.                                                                  *)
(***************************************************************************)

\* What the solver answers is a test on which the program costs something.
LEMMA AnswersAreTests ==
  ASSUME NEW p \in AnyProgram, NEW test \in Refutations[p]
  PROVE  test \in TestCase /\ CostOn(p, test) > 0
<1>1. PICK s \in Models[p] : test = Test(ModelState(Original, Code(p), s))
  BY DEF Refutations
<1>2. s \in TotalState /\ Differ(Original, Code(p), s)
  BY <1>1, SearchAssumption DEF Models
<1>3. Code(p) \in Seq(Instructions) /\ Original \in Seq(Instructions)
  BY CodeIsProgram, SearchAssumption
<1> DEFINE m == ModelState(Original, Code(p), s)
           A == Points(Original, s) \cup Points(Code(p), s)
<1>4. A \in SUBSET Word
  BY <1>2, <1>3, PointsAreWords
<1>5. m \in MachineState
  <2>1. m = Cut(s, A)
    BY DEF ModelState, Cut
  <2> HIDE DEF m, A
  <2> QED BY <1>2, <1>4, <2>1, CutParts
<1>6. EqualityCost(Code(p), m, Execute(Original, m)) > 0
  BY <1>2, <1>3, RefutationCosts
<1>7. CostOn(p, test) = EqualityCost(Code(p), m, Execute(Original, m))
  BY <1>1 DEF CostOn, Test
<1> HIDE DEF m
<1>8. test \in TestCase
  BY <1>1, <1>5, TestIsTest DEF m
<1> QED BY <1>6, <1>7, <1>8

\* Random states make tests.
LEMMA RandomTestsAreTests ==
  ASSUME counterexamples \in Seq(TestCase), Len(counterexamples) = 1,
         NEW drawn \in [1 .. RandomCases -> RandomStates]
  PROVE  [n \in 1 .. RandomCases |-> RandomTest(drawn[n])] \in Seq(TestCase)
<1> DEFINE first == counterexamples[1].state
<1>1. first \in MachineState
  <2>1. counterexamples[1] \in TestCase
    BY SMTT(40)
  <2> QED BY <2>1 DEF TestCase
<1>2. DOMAIN first.memory \in SUBSET Word
  BY <1>1, StateParts
<1>3. RandomStates \subseteq MachineState
  <2> SUFFICES ASSUME NEW s \in RandomStates PROVE s \in MachineState
    OBVIOUS
  <2>1. s \in [registers : RandomFiles, memory : [DOMAIN first.memory -> Byte]]
    BY DEF RandomStates
  <2> HIDE DEF first
  <2>2. s.registers \in [Registers -> Word] /\ s.memory \in [DOMAIN first.memory -> Byte]
    BY <2>1, SearchAssumption
  <2>3. s = [registers |-> s.registers, memory |-> s.memory]
    BY <2>1
  <2> QED BY <1>2, <2>2, <2>3, IsState
<1>4. \A n \in 1 .. RandomCases : RandomTest(drawn[n]) \in TestCase
  BY <1>3, TestIsTest DEF RandomTest
<1>5. RandomCases \in Nat
  BY SearchAssumption
<1> QED BY <1>4, <1>5

(***************************************************************************)
(* The invariant of the search.                                            *)
(***************************************************************************)

Match == [cost : Nat, program : Program]

ProgramsAreLegal ==
  genProgram \in Program /\ proposal \in Program /\ matches \in Seq(Match)

Counters ==
  /\ iterations \in 0 .. MaxIterations + 1
  /\ stage \in {"top", "propose", "decide", "returned"}
  /\ stage \in {"propose", "decide"} => iterations <= MaxIterations

\* What the proposal was found to cost is still what it costs.
ProposalCost ==
  /\ cost \in [base : Nat, tests : Nat]
  /\ stage = "decide"
       => cost = [base |-> BaseCost[proposal], tests |-> CostOnAll(proposal, counterexamples)]

SearchState ==
  ProgramsAreLegal /\ counterexamples \in Seq(TestCase) /\ Counters /\ ProposalCost /\ CostIsOwn

\* A legal program is one the search may hold.
LEMMA LegalIsAny == Program \subseteq AnyProgram
BY SearchAssumption DEF Program, AnyProgram

\* The cost of the current program is infinite only while there is none.
LEMMA GenCostTyped ==
  ASSUME SearchState
  PROVE  /\ genProgram = Empty => genCost = Infinity
         /\ genProgram # Empty => genCost \in Nat
<1>1. genProgram \in AnyProgram /\ counterexamples \in Seq(TestCase)
  BY LegalIsAny DEF SearchState, ProgramsAreLegal
<1>2. BaseCost[genProgram] \in Nat /\ CostOnAll(genProgram, counterexamples) \in Nat
  BY <1>1, BaseCostIsNatural, CostOnAllTyped
<1> QED BY <1>2 DEF SearchState, CostIsOwn

\* The invariant checked is part of the inductive one.
LEMMA SearchStateImplies == SearchState => SearchInvariant
<1> SUFFICES ASSUME SearchState PROVE SearchInvariant
  OBVIOUS
<1>1. TypeOK
  <2>1. {genProgram, proposal} \subseteq AnyProgram
    BY LegalIsAny DEF SearchState, ProgramsAreLegal
  <2>2. genCost \in Nat \cup {Infinity}
    BY GenCostTyped
  <2>3. \A n \in DOMAIN counterexamples : counterexamples[n].state \in MachineState
    <3>1. \A n \in DOMAIN counterexamples : counterexamples[n] \in TestCase
      BY DEF SearchState
    <3> QED BY <3>1 DEF TestCase
  <2>4. \A n \in DOMAIN matches : matches[n].cost \in Nat /\ matches[n].program \in AnyProgram
    <3>1. \A n \in DOMAIN matches : matches[n] \in Match
      BY DEF SearchState, ProgramsAreLegal
    <3> QED BY <3>1, LegalIsAny DEF Match
  <2> QED BY <2>1, <2>2, <2>3, <2>4 DEF TypeOK, SearchState, Counters, ProposalCost
<1>2. OnlyLegal
  <2>1. \A n \in DOMAIN matches : matches[n].program \in Program
    <3>1. \A n \in DOMAIN matches : matches[n] \in Match
      BY DEF SearchState, ProgramsAreLegal
    <3> QED BY <3>1 DEF Match
  <2>2. \A p \in Program : ToSet(p) \subseteq Legal \cup {Unused}
    BY DEF Program, ToSet
  <2> QED BY <2>1, <2>2 DEF OnlyLegal, SearchState, ProgramsAreLegal
<1> QED BY <1>1, <1>2 DEF SearchInvariant, SearchState

\* The search starts with no program and no test.
LEMMA InitSearch == Init => SearchState
<1> SUFFICES ASSUME Init PROVE SearchState
  OBVIOUS
<1>1. Empty \in Program
  BY DEF Empty, Program
<1>2. ProgramsAreLegal
  BY <1>1 DEF Init, ProgramsAreLegal
<1>3. counterexamples \in Seq(TestCase)
  BY DEF Init
<1>4. Counters
  BY SearchAssumption DEF Init, Counters
<1>5. ProposalCost /\ CostIsOwn
  BY DEF Init, ProposalCost, CostIsOwn
<1> QED BY <1>2, <1>3, <1>4, <1>5 DEF SearchState

\* A return keeps the invariant.
LEMMA ReturnStep ==
  ASSUME SearchState, Return
  PROVE  SearchState'
BY DEF SearchState, ProgramsAreLegal, Counters, ProposalCost, CostIsOwn, Return

\* Tests are added to the list only with their cost for the current program.
LEMMA CostGrows ==
  ASSUME SearchState, NEW tests \in Seq(TestCase), AddCounterexamples(tests), genProgram' = genProgram
  PROVE  counterexamples' \in Seq(TestCase) /\ CostIsOwn'
<1>1. genProgram \in AnyProgram /\ counterexamples \in Seq(TestCase)
  BY LegalIsAny DEF SearchState, ProgramsAreLegal
<1>2. counterexamples' = counterexamples \o tests /\ genCost' = Plus(genCost, CostOnAll(genProgram, tests))
  BY DEF AddCounterexamples
<1>3. counterexamples' \in Seq(TestCase)
  BY <1>1, <1>2
<1>4. CASE genProgram = Empty
  BY <1>2, <1>3, <1>4, GenCostTyped DEF Plus, CostIsOwn
<1>5. CASE genProgram # Empty
  <2>1. CostOnAll(genProgram, counterexamples')
          = CostOnAll(genProgram, counterexamples) + CostOnAll(genProgram, tests)
    BY <1>1, <1>2, AddedTestsCost
  <2>2. /\ BaseCost[genProgram] \in Nat /\ CostOnAll(genProgram, counterexamples) \in Nat
        /\ CostOnAll(genProgram, tests) \in Nat
    BY <1>1, BaseCostIsNatural, CostOnAllTyped
  <2>3. genCost = BaseCost[genProgram] + CostOnAll(genProgram, counterexamples) /\ genCost # Infinity
    BY <1>5, GenCostTyped, SearchAssumption DEF SearchState, CostIsOwn
  <2>4. genCost' = genCost + CostOnAll(genProgram, tests)
    BY <1>2, <2>3 DEF Plus
  <2> QED BY SMTT(40), <1>3, <1>5, <2>1, <2>2, <2>3, <2>4 DEF CostIsOwn
<1> QED BY <1>4, <1>5

\* So does the start of an iteration.
LEMMA StartStep ==
  ASSUME SearchState, StartIteration
  PROVE  SearchState'
<1>1. ProgramsAreLegal' /\ Counters'
  <2>1. iterations <= MaxIterations
    BY SMTT(40), SearchAssumption DEF StartIteration, Enough, SearchState, Counters
  <2> QED BY <2>1 DEF SearchState, ProgramsAreLegal, Counters, StartIteration
<1>2. ProposalCost'
  BY DEF SearchState, ProposalCost, StartIteration
<1>3. counterexamples' \in Seq(TestCase) /\ CostIsOwn'
  <2>1. ASSUME Len(counterexamples) = 1, NEW drawn \in [1 .. RandomCases -> RandomStates],
               AddCounterexamples([n \in 1 .. RandomCases |-> RandomTest(drawn[n])])
        PROVE  counterexamples' \in Seq(TestCase) /\ CostIsOwn'
    <3>1. [n \in 1 .. RandomCases |-> RandomTest(drawn[n])] \in Seq(TestCase)
      BY <2>1, RandomTestsAreTests DEF SearchState
    <3>2. genProgram' = genProgram
      BY DEF StartIteration
    <3> QED BY <2>1, <3>1, <3>2, CostGrows
  <2>2. ASSUME UNCHANGED <<counterexamples, genCost>>
        PROVE  counterexamples' \in Seq(TestCase) /\ CostIsOwn'
    BY <2>2 DEF SearchState, StartIteration, CostIsOwn
  <2> QED BY <2>1, <2>2 DEF StartIteration
<1> QED BY <1>1, <1>2, <1>3 DEF SearchState

\* So does a proposal, which begins with what it costs by itself.
LEMMA ProposeStep ==
  ASSUME SearchState, Propose
  PROVE  SearchState'
<1> USE DEF Propose
<1>1. proposal' \in Program
  <2>1. genProgram \in [1 .. Slots -> Legal \cup {Unused}]
    BY DEF SearchState, ProgramsAreLegal, Program
  <2>2. \A i \in 1 .. Slots, v \in Legal \cup {Unused} :
          [genProgram EXCEPT ![i] = v] \in [1 .. Slots -> Legal \cup {Unused}]
    BY <2>1
  <2>3. Used(genProgram) \subseteq 1 .. Slots
    BY <2>1 DEF Used
  <2>4. ASSUME ChangesField(proposal') PROVE proposal' \in Program
    BY <2>2, <2>3, <2>4 DEF ChangesField, Valid, SetInstruction, Program
  <2>5. ASSUME InsertsUnused(proposal') PROVE proposal' \in Program
    BY <2>2, <2>3, <2>5 DEF InsertsUnused, SetUnused, Program
  <2>6. ASSUME ChangesInstruction(proposal') PROVE proposal' \in Program
    BY <2>2, <2>6 DEF ChangesInstruction, SetInstruction, Program
  <2>7. ASSUME SwapsLines(proposal') PROVE proposal' \in Program
    <3>1. PICK pair \in TwoInstructions(genProgram) :
            proposal' = SwapInstructions(genProgram, pair[1], pair[2])
      BY <2>7 DEF SwapsLines
    <3>2. pair[1] \in 1 .. Slots /\ pair[2] \in 1 .. Slots
      BY <2>3 DEF TwoInstructions
    <3> QED BY <2>1, <3>1, <3>2 DEF SwapInstructions, Program
  <2> QED BY <2>4, <2>5, <2>6, <2>7
<1>2. ProgramsAreLegal'
  BY <1>1 DEF SearchState, ProgramsAreLegal
<1>3. Counters'
  BY DEF SearchState, Counters
<1>4. ProposalCost'
  <2>1. proposal' \in AnyProgram /\ counterexamples \in Seq(TestCase)
    BY <1>1, LegalIsAny DEF SearchState
  <2>2. BaseCost[proposal'] \in Nat /\ CostOnAll(proposal', counterexamples) \in Nat
    BY <2>1, BaseCostIsNatural, CostOnAllTyped
  <2> QED BY <2>2 DEF ProposalCost
<1>5. counterexamples' \in Seq(TestCase) /\ CostIsOwn'
  BY DEF SearchState, CostIsOwn
<1> QED BY <1>2, <1>3, <1>4, <1>5 DEF SearchState

(***************************************************************************)
(* The decisions.  The program that is kept, with the cost that is kept    *)
(* beside it.                                                              *)
(***************************************************************************)

\* Of a used proposal, the cost is a number.
LEMMA ProposalCosts ==
  ASSUME SearchState, stage = "decide"
  PROVE  /\ proposal \in AnyProgram /\ counterexamples \in Seq(TestCase)
         /\ Cost \in Nat
         /\ Cost = BaseCost[proposal] + CostOnAll(proposal, counterexamples)
         /\ BaseCost[proposal] \in Nat /\ CostOnAll(proposal, counterexamples) \in Nat
         /\ Passes <=> CostOnAll(proposal, counterexamples) = 0
<1>1. proposal \in AnyProgram /\ counterexamples \in Seq(TestCase)
  BY LegalIsAny DEF SearchState, ProgramsAreLegal
<1>2. BaseCost[proposal] \in Nat /\ CostOnAll(proposal, counterexamples) \in Nat
  BY <1>1, BaseCostIsNatural, CostOnAllTyped
<1>3. cost.base = BaseCost[proposal] /\ cost.tests = CostOnAll(proposal, counterexamples)
  BY DEF SearchState, ProposalCost
<1> QED BY <1>1, <1>2, <1>3 DEF Cost, Passes

\* A program with an instruction is not the empty one.
LEMMA UsedIsNotEmpty ==
  ASSUME NEW p, Used(p) # {}
  PROVE  p # Empty
BY DEF Used, Empty

\* Without a penalty for equal cost, acceptance keeps the proposal with its own
\* cost, or the current program with the cost it had.
LEMMA AcceptKeeps ==
  ASSUME SameCostPenalty = 0, NEW ofProposal \in Nat, NEW current, NEW maximum,
         Accept(ofProposal, current, maximum)
  PROVE  \/ genProgram' = genProgram /\ genCost' = current
         \/ genProgram' = proposal /\ genCost' = ofProposal /\ ~Exceeds(ofProposal, maximum)
<1> DEFINE final == IF ofProposal = current THEN ofProposal + SameCostPenalty ELSE ofProposal
<1>1. final = ofProposal
  OBVIOUS
<1>2. IF Exceeds(final, maximum) THEN Reject(current)
      ELSE genCost' = final /\ genProgram' = proposal
  BY DEF Accept
<1> HIDE DEF final
<1> QED BY <1>1, <1>2 DEF Reject

\* A decision ends the iteration, which is counted.
LEMMA DecisionKeepsCounters ==
  ASSUME SearchState, stage = "decide", NextIteration
  PROVE  Counters' /\ ProposalCost'
<1>1. iterations \in Nat /\ iterations <= MaxIterations /\ MaxIterations \in Nat
  BY SearchAssumption DEF SearchState, Counters
<1>2. iterations + 1 \in 0 .. MaxIterations + 1
  BY <1>1
<1> QED BY <1>2 DEF SearchState, Counters, ProposalCost, NextIteration

\* So does its rejection, which leaves the current program and its cost.
LEMMA RejectStep ==
  ASSUME SearchState, RejectEmpty \/ RejectCostly
  PROVE  SearchState'
<1>1. stage = "decide" /\ NextIteration /\ UNCHANGED <<genProgram, genCost, counterexamples, matches>>
  BY DEF RejectEmpty, RejectCostly
<1>2. proposal' = proposal
  BY <1>1 DEF NextIteration
<1> QED BY <1>1, <1>2, DecisionKeepsCounters DEF SearchState, ProgramsAreLegal, CostIsOwn

\* Accepting on the counterexamples of this moment.
LEMMA AcceptStep ==
  ASSUME SearchState, SameCostPenalty = 0, NEW allowance \in Allowances,
         stage = "decide", Used(proposal) # {}, UNCHANGED counterexamples,
         Accept(Cost, genCost, Plus(genCost, allowance))
  PROVE  genProgram' \in Program /\ CostIsOwn'
<1>1. Cost \in Nat /\ Cost = BaseCost[proposal] + CostOnAll(proposal, counterexamples)
  BY ProposalCosts
<1>2. CASE genProgram' = genProgram /\ genCost' = genCost
  BY <1>2 DEF SearchState, ProgramsAreLegal, CostIsOwn
<1>3. CASE genProgram' = proposal /\ genCost' = Cost
  BY <1>1, <1>3, UsedIsNotEmpty DEF SearchState, ProgramsAreLegal, CostIsOwn
<1> QED BY <1>1, <1>2, <1>3, AcceptKeeps

\* So does accepting it, which brings its cost along.
LEMMA AcceptFailingStep ==
  ASSUME SearchState, SameCostPenalty = 0, AcceptFailing
  PROVE  SearchState'
<1>1. PICK allowance \in Allowances :
        /\ Affordable(allowance) /\ Accept(Cost, genCost, Plus(genCost, allowance))
        /\ UNCHANGED <<counterexamples, matches>> /\ NextIteration
  BY DEF AcceptFailing
<1>2. stage = "decide" /\ Used(proposal) # {}
  BY <1>1 DEF Affordable
<1>3. genProgram' \in Program /\ CostIsOwn'
  BY <1>1, <1>2, AcceptStep
<1>4. Counters' /\ ProposalCost'
  BY <1>1, <1>2, DecisionKeepsCounters
<1>5. proposal' = proposal
  BY <1>1 DEF NextIteration
<1> QED BY <1>1, <1>3, <1>4, <1>5 DEF SearchState, ProgramsAreLegal

\* So does recording a match.
LEMMA RecordStep ==
  ASSUME SearchState, SameCostPenalty = 0, RecordMatch
  PROVE  SearchState'
<1>1. PICK allowance \in Allowances :
        /\ Affordable(allowance) /\ Accept(Cost, genCost, Plus(genCost, allowance))
        /\ matches' = Append(matches, [cost |-> Cost, program |-> proposal])
        /\ UNCHANGED counterexamples /\ NextIteration
  BY DEF RecordMatch
<1>2. stage = "decide" /\ Used(proposal) # {}
  BY <1>1 DEF Affordable
<1>3. genProgram' \in Program /\ CostIsOwn'
  BY <1>1, <1>2, AcceptStep
<1>4. Counters' /\ ProposalCost'
  BY <1>1, <1>2, DecisionKeepsCounters
<1>5. proposal' = proposal
  BY <1>1 DEF NextIteration
<1>6. matches' \in Seq(Match)
  <2>1. [cost |-> Cost, program |-> proposal] \in Match
    BY <1>2, ProposalCosts DEF Match, SearchState, ProgramsAreLegal
  <2>2. matches \in Seq(Match)
    BY DEF SearchState, ProgramsAreLegal
  <2> QED BY <1>1, <2>1, <2>2
<1> QED BY <1>1, <1>3, <1>4, <1>5, <1>6 DEF SearchState, ProgramsAreLegal

\* What a refutation leaves: the current program with its cost on the longer list,
\* or the proposal with its own.
LEMMA RefuteKeeps ==
  ASSUME SearchState, SameCostPenalty = 0, NEW allowance \in Allowances,
         NEW test \in Refutations[proposal], stage = "decide",
         DecideAgain(Cost + CostOn(proposal, test), Plus(genCost, CostOn(genProgram, test)), allowance)
  PROVE  LET current == Plus(genCost, CostOn(genProgram, test))
             ofProposal == Cost + CostOn(proposal, test)
         IN  \/ genProgram' = genProgram /\ genCost' = current
             \/ /\ genProgram' = proposal /\ genCost' = ofProposal
                /\ ~Exceeds(ofProposal, Plus(current, allowance))
<1> DEFINE current == Plus(genCost, CostOn(genProgram, test))
           ofProposal == Cost + CostOn(proposal, test)
           maximum == Plus(current, allowance)
<1>1. ofProposal \in Nat
  <2>1. Cost \in Nat /\ proposal \in AnyProgram
    BY ProposalCosts
  <2>2. CostOn(proposal, test) \in Nat
    BY <2>1, AnswersAreTests, CostIsNatural
  <2> QED BY <2>1, <2>2
<1>2. IF Exceeds(ofProposal, maximum) THEN Reject(current) ELSE Accept(ofProposal, current, maximum)
  BY DEF DecideAgain
<1> HIDE DEF ofProposal, current, maximum
<1>3. \/ genProgram' = genProgram /\ genCost' = current
      \/ genProgram' = proposal /\ genCost' = ofProposal /\ ~Exceeds(ofProposal, maximum)
  BY <1>1, <1>2, AcceptKeeps DEF Reject
<1> QED BY <1>3 DEF ofProposal, current, maximum

\* And a refutation adds a test, on which both programs are priced.
LEMMA RefuteStep ==
  ASSUME SearchState, SameCostPenalty = 0, Refute
  PROVE  SearchState'
<1>1. PICK allowance \in Allowances, test \in Refutations[proposal] :
        /\ Affordable(allowance)
        /\ counterexamples' = Append(counterexamples, test)
        /\ DecideAgain(Cost + CostOn(proposal, test), Plus(genCost, CostOn(genProgram, test)),
                       allowance)
        /\ UNCHANGED matches /\ NextIteration
  BY DEF Refute
<1>2. stage = "decide" /\ Used(proposal) # {}
  BY <1>1 DEF Affordable
<1>3. Counters' /\ ProposalCost' /\ proposal' = proposal
  BY <1>1, <1>2, DecisionKeepsCounters DEF NextIteration
<1>4. /\ proposal \in AnyProgram /\ genProgram \in AnyProgram /\ counterexamples \in Seq(TestCase)
      /\ test \in TestCase
  BY <1>2, ProposalCosts, AnswersAreTests, LegalIsAny DEF SearchState, ProgramsAreLegal
<1>5. /\ counterexamples' \in Seq(TestCase)
      /\ CostOnAll(proposal, counterexamples')
           = CostOnAll(proposal, counterexamples) + CostOn(proposal, test)
      /\ CostOnAll(genProgram, counterexamples')
           = CostOnAll(genProgram, counterexamples) + CostOn(genProgram, test)
  BY <1>1, <1>4, AnswerCosts
<1>6. /\ CostOn(proposal, test) \in Nat /\ CostOn(genProgram, test) \in Nat
      /\ BaseCost[genProgram] \in Nat /\ CostOnAll(genProgram, counterexamples) \in Nat
  BY <1>4, CostIsNatural, BaseCostIsNatural, CostOnAllTyped
<1>7. genProgram' \in Program /\ CostIsOwn'
  <2>1. CASE genProgram' = genProgram /\ genCost' = Plus(genCost, CostOn(genProgram, test))
    <3>1. genProgram' \in Program
      BY <2>1 DEF SearchState, ProgramsAreLegal
    <3>2. CASE genProgram = Empty
      BY <2>1, <3>1, <3>2, GenCostTyped DEF Plus, CostIsOwn
    <3>3. CASE genProgram # Empty
      <4>1. genCost = BaseCost[genProgram] + CostOnAll(genProgram, counterexamples)
        BY <3>3 DEF SearchState, CostIsOwn
      <4>2. genCost # Infinity /\ genCost \in Nat
        BY <3>3, GenCostTyped, SearchAssumption
      <4>3. genCost' = genCost + CostOn(genProgram, test)
        BY <2>1, <4>2 DEF Plus
      <4> QED BY SMTT(40), <1>5, <1>6, <2>1, <3>1, <3>3, <4>1, <4>3 DEF CostIsOwn
    <3> QED BY <3>2, <3>3
  <2>2. CASE genProgram' = proposal /\ genCost' = Cost + CostOn(proposal, test)
    <3>1. /\ Cost = BaseCost[proposal] + CostOnAll(proposal, counterexamples)
          /\ BaseCost[proposal] \in Nat /\ CostOnAll(proposal, counterexamples) \in Nat
      BY <1>2, ProposalCosts
    <3>2. genProgram' \in Program /\ genProgram' # Empty
      BY <1>2, <2>2, UsedIsNotEmpty DEF SearchState, ProgramsAreLegal
    <3> QED BY <1>5, <1>6, <2>2, <3>1, <3>2 DEF CostIsOwn
  <2> QED BY <1>1, <1>2, <2>1, <2>2, RefuteKeeps
<1> QED BY <1>1, <1>3, <1>5, <1>7 DEF SearchState, ProgramsAreLegal

\* The invariant holds throughout.
LEMMA SearchStateHolds ==
  ASSUME SameCostPenalty = 0
  PROVE  Spec => []SearchState
<1>1. Init => SearchState
  BY InitSearch
<1>2. SearchState /\ [Next]_vars => SearchState'
  <2> SUFFICES ASSUME SearchState, [Next]_vars PROVE SearchState'
    OBVIOUS
  <2>1. CASE Return
    BY <2>1, ReturnStep
  <2>2. CASE StartIteration
    BY <2>2, StartStep
  <2>3. CASE Propose
    BY <2>3, ProposeStep
  <2>4. CASE RejectEmpty \/ RejectCostly
    BY <2>4, RejectStep
  <2>5. CASE AcceptFailing
    BY <2>5, AcceptFailingStep
  <2>6. CASE RecordMatch
    BY <2>6, RecordStep
  <2>7. CASE Refute
    BY <2>7, RefuteStep
  <2>8. CASE UNCHANGED vars
    BY <2>8 DEF vars, SearchState, ProgramsAreLegal, Counters, ProposalCost, CostIsOwn
  <2> QED BY <2>1, <2>2, <2>3, <2>4, <2>5, <2>6, <2>7, <2>8 DEF Next
<1> QED BY <1>1, <1>2, PTL DEF Spec

\* The cost that the search keeps is that of the current program on the
\* counterexamples of this moment, and no mutation leaves the restricted
\* instruction set, for every instruction set and original program.
THEOREM SearchInvariantHolds ==
  ASSUME SameCostPenalty = 0
  PROVE  Spec => []SearchInvariant
<1>1. SearchState => SearchInvariant
  BY SearchStateImplies
<1> QED BY <1>1, SearchStateHolds, PTL

(***************************************************************************)
(* How far a step climbs.                                                  *)
(***************************************************************************)

\* A finite inhabited set of numbers has a greatest member.
LEMMA GreatestNatural ==
  ASSUME NEW S \in SUBSET Nat, S # {}, IsFiniteSet(S)
  PROVE  \E m \in S : \A k \in S : k <= m
<1> DEFINE n == Cardinality(S)
<1>1. n \in Nat
  BY FS_CardinalityType
<1>2. PICK g \in Bijection(1 .. n, S) : TRUE
  BY FS_CardinalityType DEF ExistsBijection
<1>3. g \in [1 .. n -> S] /\ \A x \in S : \E k \in 1 .. n : g[k] = x
  BY <1>2 DEF Bijection, Injection, Surjection
<1> HIDE DEF n
<1> DEFINE Good == {k \in 0 .. n : k > 0 => \E j \in 1 .. k : \A i \in 1 .. k : g[i] <= g[j]}
<1>4. 0 \in Good
  BY <1>1
<1>5. ASSUME NEW k \in 0 .. n - 1, k \in Good PROVE k + 1 \in Good
  <2>1. /\ k + 1 \in 0 .. n /\ k + 1 \in 1 .. n /\ k \in Nat
        /\ \A i \in 1 .. k + 1 : i \in 1 .. n /\ (i \in 1 .. k \/ i = k + 1)
    BY <1>1
  <2>2. \A i \in 1 .. n : g[i] \in Nat
    BY <1>3
  <2>3. CASE k = 0
    <3>1. 1 \in 1 .. 1 /\ \A i \in 1 .. 1 : g[i] <= g[1]
      BY <2>1, <2>2, <2>3
    <3> QED BY <2>1, <2>3, <3>1
  <2>4. CASE k > 0
    <3>1. PICK j \in 1 .. k : \A i \in 1 .. k : g[i] <= g[j]
      BY <1>5, <2>4
    <3>2. j \in 1 .. k + 1 /\ j \in 1 .. n /\ k + 1 \in 1 .. k + 1
      BY <2>1, <3>1
    <3>3. CASE g[k + 1] <= g[j]
      <4>1. \A i \in 1 .. k + 1 : g[i] <= g[j]
        BY <2>1, <3>1, <3>3
      <4> QED BY <2>1, <3>2, <4>1
    <3>4. CASE ~(g[k + 1] <= g[j])
      <4>1. \A i \in 1 .. k + 1 : g[i] <= g[k + 1]
        BY <2>1, <2>2, <3>1, <3>2, <3>4
      <4> QED BY <2>1, <3>2, <4>1
    <3> QED BY <3>3, <3>4
  <2> QED BY <2>1, <2>3, <2>4
<1> HIDE DEF Good
<1>6. n \in 0 .. n /\ 0 .. n \subseteq Good
  BY <1>1, <1>4, <1>5, Counting
<1>7. n > 0
  <2>1. PICK x : x \in S
    OBVIOUS
  <2>2. PICK k \in 1 .. n : g[k] = x
    BY <1>3, <2>1
  <2> QED BY <1>1, <2>2
<1>8. PICK j \in 1 .. n : \A i \in 1 .. n : g[i] <= g[j]
  BY <1>6, <1>7 DEF Good
<1> QED BY <1>3, <1>8

\* The greatest climb that is allowed.
LEMMA MaxIsGreatest ==
  /\ Max(Allowances) \in Nat
  /\ \A a \in Allowances : a <= Max(Allowances)
<1>1. \E m \in Allowances : \A a \in Allowances : a <= m
  BY SearchAssumption, GreatestNatural
<1> QED BY <1>1, SearchAssumption DEF Max

\* A decision climbs from the cost on the list it was taken with.
LEMMA DecisionClimbs ==
  ASSUME SameCostPenalty = 0, SearchState, stage = "decide", genProgram # Empty,
         NEW allowance \in Allowances, NEW current \in Nat, NEW ofProposal \in Nat,
         \/ genCost' = current
         \/ genCost' = ofProposal /\ ~Exceeds(ofProposal, Plus(current, allowance))
  PROVE  genCost' <= current + Max(Allowances)
<1>1. allowance \in Nat /\ allowance <= Max(Allowances) /\ Max(Allowances) \in Nat
  BY MaxIsGreatest, SearchAssumption
<1>2. Plus(current, allowance) = current + allowance
  BY SearchAssumption DEF Plus
<1>3. current + allowance # Infinity
  BY SMTT(40), <1>1, SearchAssumption
<1> QED BY <1>1, <1>2, <1>3 DEF Exceeds

\* A step climbs no higher.
LEMMA StepClimbs ==
  ASSUME SameCostPenalty = 0, SearchState, [Next]_vars, stage = "decide", genProgram # Empty
  PROVE  genCost' <= BaseCost[genProgram] + CostOnAll(genProgram, counterexamples')
                       + Max(Allowances)
<1>1. /\ genCost \in Nat /\ Max(Allowances) \in Nat
      /\ genCost = BaseCost[genProgram] + CostOnAll(genProgram, counterexamples)
  BY GenCostTyped, MaxIsGreatest DEF SearchState, CostIsOwn
<1>2. genProgram \in AnyProgram /\ counterexamples \in Seq(TestCase)
  BY LegalIsAny DEF SearchState, ProgramsAreLegal
<1>3. CASE UNCHANGED <<genCost, counterexamples>>
  BY <1>1, <1>3
<1>4. ASSUME NEW allowance \in Allowances, Affordable(allowance), UNCHANGED counterexamples,
             Accept(Cost, genCost, Plus(genCost, allowance))
      PROVE  genCost' <= BaseCost[genProgram] + CostOnAll(genProgram, counterexamples')
                           + Max(Allowances)
  <2>1. Cost \in Nat
    BY ProposalCosts
  <2>2. \/ genCost' = genCost
        \/ genCost' = Cost /\ ~Exceeds(Cost, Plus(genCost, allowance))
    BY <1>4, <2>1, AcceptKeeps
  <2>3. genCost' <= genCost + Max(Allowances)
    BY <1>1, <2>1, <2>2, DecisionClimbs
  <2> QED BY <1>1, <1>4, <2>3
<1>5. CASE Refute
  <2>1. PICK allowance \in Allowances, test \in Refutations[proposal] :
          /\ counterexamples' = Append(counterexamples, test)
          /\ DecideAgain(Cost + CostOn(proposal, test), Plus(genCost, CostOn(genProgram, test)),
                         allowance)
    BY <1>5 DEF Refute
  <2> DEFINE current == genCost + CostOn(genProgram, test)
             ofProposal == Cost + CostOn(proposal, test)
  <2>2. /\ proposal \in AnyProgram /\ test \in TestCase /\ Cost \in Nat
    BY ProposalCosts, AnswersAreTests
  <2>3. CostOn(genProgram, test) \in Nat /\ CostOn(proposal, test) \in Nat
    BY <1>2, <2>2, CostIsNatural
  <2>4. Plus(genCost, CostOn(genProgram, test)) = current
    BY <1>1, SearchAssumption DEF Plus
  <2>5. \/ genCost' = current
        \/ genCost' = ofProposal /\ ~Exceeds(ofProposal, Plus(current, allowance))
    BY <2>1, <2>4, RefuteKeeps
  <2>6. current \in Nat /\ ofProposal \in Nat
    BY <1>1, <2>2, <2>3
  <2>7. CostOnAll(genProgram, counterexamples')
          = CostOnAll(genProgram, counterexamples) + CostOn(genProgram, test)
    BY <1>2, <2>1, <2>2, AnswerCosts
  <2>8. BaseCost[genProgram] \in Nat /\ CostOnAll(genProgram, counterexamples) \in Nat
    BY <1>2, BaseCostIsNatural, CostOnAllTyped
  <2>9. BaseCost[genProgram] + CostOnAll(genProgram, counterexamples') = current
    BY <1>1, <2>3, <2>7, <2>8
  <2> HIDE DEF current, ofProposal
  <2>10. genCost' <= current + Max(Allowances)
    BY <2>5, <2>6, DecisionClimbs
  <2> QED BY <2>9, <2>10
<1>6. CASE AcceptFailing \/ RecordMatch
  BY <1>4, <1>6 DEF AcceptFailing, RecordMatch
<1>7. CASE Return \/ StartIteration \/ Propose \/ RejectEmpty \/ RejectCostly \/ UNCHANGED vars
  BY <1>3, <1>7 DEF Return, StartIteration, Propose, RejectEmpty, RejectCostly, vars
<1> QED BY <1>5, <1>6, <1>7 DEF Next

\* What the random number allows is all that a search step can climb.
THEOREM NoSteepClimbHolds ==
  ASSUME SameCostPenalty = 0
  PROVE  Spec => NoSteepClimb
<1>1. SearchState /\ [Next]_vars
        => [stage = "decide" /\ genProgram # Empty
              => genCost' <= BaseCost[genProgram] + CostOnAll(genProgram, counterexamples')
                               + Max(Allowances)]_vars
  BY StepClimbs
<1> QED BY <1>1, SearchStateHolds, PTL DEF Spec, NoSteepClimb

(***************************************************************************)
(* What the solver's answers are worth.                                    *)
(***************************************************************************)

\* Each answer of the solver is news: the program that it refutes passes every
\* counterexample so far and fails the longer list, and a list that grows
\* never lets a program that fails it pass again.
AnswersAreNews ==
  [][/\ \A p \in AnyProgram :
          CostOnAll(p, counterexamples) > 0 => CostOnAll(p, counterexamples') > 0
     /\ Refute => /\ CostOnAll(proposal, counterexamples) = 0
                  /\ CostOnAll(proposal, counterexamples') > 0]_vars

\* A program refuted by a test stays refuted.
LEMMA RefutedForGood ==
  ASSUME SearchState, [Next]_vars, NEW p \in AnyProgram, CostOnAll(p, counterexamples) > 0
  PROVE  CostOnAll(p, counterexamples') > 0
<1>1. counterexamples \in Seq(TestCase) /\ CostOnAll(p, counterexamples) \in Nat
  BY CostOnAllTyped DEF SearchState
<1>2. ASSUME NEW tests \in Seq(TestCase), counterexamples' = counterexamples \o tests
      PROVE  CostOnAll(p, counterexamples') > 0
  <2>1. CostOnAll(p, tests) \in Nat
    BY CostOnAllTyped
  <2>2. CostOnAll(p, counterexamples') = CostOnAll(p, counterexamples) + CostOnAll(p, tests)
    BY <1>1, <1>2, AddedTestsCost
  <2> QED BY <1>1, <2>1, <2>2
<1>3. CASE UNCHANGED counterexamples
  BY <1>3
<1>4. CASE Refute
  <2>1. PICK test \in Refutations[proposal] : counterexamples' = Append(counterexamples, test)
    BY <1>4 DEF Refute
  <2>2. proposal \in AnyProgram
    BY LegalIsAny DEF SearchState, ProgramsAreLegal
  <2>3. test \in TestCase
    BY <2>2, AnswersAreTests
  <2>4. <<test>> \in Seq(TestCase) /\ counterexamples' = counterexamples \o <<test>>
    BY <1>1, <2>1, <2>3
  <2> QED BY <1>2, <2>4
<1>5. CASE StartIteration
  <2>1. ASSUME Len(counterexamples) = 1, NEW drawn \in [1 .. RandomCases -> RandomStates],
               AddCounterexamples([n \in 1 .. RandomCases |-> RandomTest(drawn[n])])
        PROVE  CostOnAll(p, counterexamples') > 0
    <3>1. [n \in 1 .. RandomCases |-> RandomTest(drawn[n])] \in Seq(TestCase)
      BY <1>1, <2>1, RandomTestsAreTests
    <3> QED BY <1>2, <2>1, <3>1 DEF AddCounterexamples
  <2> QED BY <1>3, <1>5, <2>1 DEF StartIteration
<1>6. CASE \/ Return \/ Propose \/ RejectEmpty \/ RejectCostly \/ AcceptFailing \/ RecordMatch
           \/ UNCHANGED vars
  BY <1>3, <1>6 DEF Return, Propose, RejectEmpty, RejectCostly, AcceptFailing, RecordMatch, vars
<1> QED BY <1>4, <1>5, <1>6 DEF Next

\* For every instruction set and original program: no program is refuted twice.
THEOREM AnswersAreNewsHolds ==
  ASSUME SameCostPenalty = 0
  PROVE  Spec => AnswersAreNews
<1> DEFINE News ==
             /\ \A p \in AnyProgram :
                  CostOnAll(p, counterexamples) > 0 => CostOnAll(p, counterexamples') > 0
             /\ Refute => /\ CostOnAll(proposal, counterexamples) = 0
                          /\ CostOnAll(proposal, counterexamples') > 0
<1>1. SearchState /\ [Next]_vars => News
  <2> SUFFICES ASSUME SearchState, [Next]_vars PROVE News
    OBVIOUS
  <2>1. ASSUME Refute
        PROVE  CostOnAll(proposal, counterexamples) = 0 /\ CostOnAll(proposal, counterexamples') > 0
    <3>1. PICK allowance \in Allowances, test \in Refutations[proposal] :
            /\ Affordable(allowance) /\ Passes
            /\ counterexamples' = Append(counterexamples, test)
      BY <2>1 DEF Refute
    <3>2. /\ CostOnAll(proposal, counterexamples) = 0 /\ proposal \in AnyProgram
          /\ counterexamples \in Seq(TestCase)
      BY <3>1, ProposalCosts DEF Affordable
    <3>3. test \in TestCase /\ CostOn(proposal, test) > 0
      BY <3>2, AnswersAreTests
    <3>4. CostOnAll(proposal, counterexamples')
            = CostOnAll(proposal, counterexamples) + CostOn(proposal, test)
      BY <3>1, <3>2, <3>3, AnswerCosts
    <3>5. CostOn(proposal, test) \in Nat
      BY <3>2, <3>3, CostIsNatural
    <3> QED BY <3>2, <3>3, <3>4, <3>5
  <2> QED BY <2>1, RefutedForGood
<1>2. SearchState /\ [Next]_vars => [News]_vars
  BY <1>1
<1> HIDE DEF News
<1>3. Spec => [][News]_vars
  BY <1>2, SearchStateHolds, PTL DEF Spec
<1> QED BY <1>3 DEF AnswersAreNews, News

(***************************************************************************)
(* Equal programs pass.  A counterexample holds the memory that the        *)
(* programs touched from the solver's state, and a random one has the      *)
(* addresses of the first.  They are enough for another program only if it *)
(* touches no more than the original does, and if what the original        *)
(* touches does not depend on the registers that are drawn anew.           *)
(***************************************************************************)

\* The original touches the same memory wherever it starts.
AddressesFixed == \A s, t \in TotalState : Points(Original, s) = Points(Original, t)

\* A program that does what the original does, with no more memory.
Confined(p) ==
  /\ \A s \in TotalState : ~Differ(Original, Code(p), s)
  /\ \A s \in TotalState : Points(Code(p), s) \subseteq Points(Original, s)
  /\ ScratchStores(Code(p)) = {}

\* A test has the memory that the original touches from any state, and the
\* original's result on it.
WholeTest(test) ==
  /\ test.state \in MachineState /\ test = Test(test.state)
  /\ \A s \in TotalState : Points(Original, s) \subseteq DOMAIN test.state.memory

WholeTests == \A n \in DOMAIN counterexamples : WholeTest(counterexamples[n])

\* A state with part of the memory is a total one that is cut down.
LEMMA StateIsCut ==
  ASSUME NEW s \in MachineState
  PROVE  \E t \in TotalState : s = Cut(t, DOMAIN s.memory)
<1> DEFINE A == DOMAIN s.memory
           m == [a \in Word |-> IF a \in A THEN s.memory[a] ELSE 0]
           t == [registers |-> s.registers, memory |-> m]
<1>1. /\ s = [registers |-> s.registers, memory |-> s.memory]
      /\ s.registers \in [Registers -> Word] /\ s.memory \in [A -> Byte] /\ A \in SUBSET Word
  BY StateParts
<1>2. 0 \in Byte
  BY PowerPositive, MachineAssumption DEF Byte
<1> HIDE DEF A
<1>3. m \in [Word -> Byte]
  BY <1>1, <1>2
<1>4. t \in TotalState
  <2> HIDE DEF m
  <2> QED BY <1>1, <1>3 DEF TotalState
<1>5. [a \in A |-> m[a]] = s.memory
  BY <1>1
<1>6. Cut(t, A) = [registers |-> s.registers, memory |-> [a \in A |-> m[a]]]
  <2> HIDE DEF m
  <2>1. t.registers = s.registers /\ t.memory = m
    OBVIOUS
  <2> HIDE DEF t
  <2> QED BY <1>1, <1>4, <2>1, CutParts
<1> HIDE DEF t, m
<1>7. s = Cut(t, A)
  BY <1>1, <1>5, <1>6
<1> QED BY <1>4, <1>7 DEF A

\* A program that does what the original does passes a test that has the memory.
LEMMA ConfinedPasses ==
  ASSUME NEW p \in AnyProgram, Confined(p), NEW test, WholeTest(test)
  PROVE  CostOn(p, test) = 0
<1> DEFINE m == test.state
           A == DOMAIN m.memory
           q == Code(p)
<1>1. m \in MachineState /\ A \in SUBSET Word
  BY StateParts DEF WholeTest
<1>2. q \in Seq(Instructions) /\ Original \in Seq(Instructions)
  BY CodeIsProgram, SearchAssumption
<1>3. PICK t \in TotalState : m = Cut(t, A)
  BY <1>1, StateIsCut
<1>4. Points(Original, t) \subseteq A /\ Points(q, t) \subseteq A
  BY DEF WholeTest, Confined
<1>5. ~Differ(Original, q, t) /\ ScratchStores(q) = {}
  BY DEF Confined
<1>6. CostOn(p, test) = Compare(Execute(Original, m), Execute(q, m), m.registers[Sp])
  BY DEF CostOn, EqualityCost, Test, WholeTest
<1> HIDE DEF A, q
<1>7. Execute(Original, Cut(t, A)) = Cut(Execute(Original, t), A)
  BY <1>1, <1>2, <1>4, RunCut
<1>8. Execute(q, Cut(t, A)) = Cut(Execute(q, t), A)
  BY <1>1, <1>2, <1>4, RunCut
<1>9. Execute(Original, t) \in TotalState /\ Execute(q, t) \in TotalState
  BY <1>2, RunTotal
<1>10. /\ \A r \in LiveOut : Execute(Original, t).registers[r] = Execute(q, t).registers[r]
       /\ \A a \in Word : Execute(Original, t).memory[a] = Execute(q, t).memory[a]
  BY <1>2, <1>5, AgreementIsEverywhere
<1>11. Compare(Cut(Execute(Original, t), A), Cut(Execute(q, t), A), m.registers[Sp]) = 0
  <2>1. \A a \in A : Execute(Original, t).memory[a] = Execute(q, t).memory[a]
    BY <1>1, <1>10
  <2> HIDE DEF m
  <2> QED BY <1>1, <1>9, <1>10, <2>1, CutsCompare
<1> HIDE DEF m
<1> QED BY <1>3, <1>6, <1>7, <1>8, <1>11

\* A list of tests of which each costs nothing costs nothing.
LEMMA FreeTestsAreFree ==
  ASSUME NEW p \in AnyProgram, NEW tests \in Seq(TestCase),
         \A n \in DOMAIN tests : CostOn(p, tests[n]) = 0
  PROVE  CostOnAll(p, tests) = 0
<1> DEFINE n == Len(tests)
<1>1. PICK f : Sums(p, tests, f) /\ CostOnAll(p, tests) = f[n]
  BY CostOnAllSums
<1>2. n \in Nat /\ \A i \in 1 .. n : CostOn(p, tests[i]) = 0
  OBVIOUS
<1>3. f[0] = 0 /\ \A i \in 1 .. n : f[i] = f[i - 1] + CostOn(p, tests[i])
  BY <1>1 DEF Sums
<1> HIDE DEF n
<1> DEFINE S == {i \in 0 .. n : f[i] = 0}
<1>4. 0 \in S
  BY <1>2, <1>3
<1>5. ASSUME NEW i \in 0 .. n - 1, i \in S PROVE i + 1 \in S
  <2>1. i + 1 \in 0 .. n /\ i + 1 \in 1 .. n /\ (i + 1) - 1 = i
    BY <1>2
  <2>2. f[i + 1] = f[i] + CostOn(p, tests[i + 1]) /\ CostOn(p, tests[i + 1]) = 0
    BY <1>2, <1>3, <2>1
  <2> QED BY <1>5, <2>1, <2>2
<1> HIDE DEF S
<1>6. 0 .. n \subseteq S /\ n \in 0 .. n
  <2>1. n \in Nat
    BY <1>2
  <2>2. 0 .. n \subseteq S
    BY ONLY <2>1, <1>4, <1>5, Counting
  <2> QED BY ONLY <2>1, <2>2
<1>7. f[n] = 0
  BY <1>6 DEF S
<1> QED BY <1>1, <1>7

\* The solver's answers have the memory that the original touches.
LEMMA AnswersAreWhole ==
  ASSUME AddressesFixed, NEW p \in AnyProgram, NEW test \in Refutations[p]
  PROVE  WholeTest(test)
<1>1. PICK s \in Models[p] : test = Test(ModelState(Original, Code(p), s))
  BY DEF Refutations
<1>2. s \in TotalState
  BY SearchAssumption DEF Models
<1> DEFINE m == ModelState(Original, Code(p), s)
           A == Points(Original, s) \cup Points(Code(p), s)
<1>3. Code(p) \in Seq(Instructions) /\ Original \in Seq(Instructions)
  BY CodeIsProgram, SearchAssumption
<1>4. A \in SUBSET Word
  BY <1>2, <1>3, PointsAreWords
<1>5. m = Cut(s, A)
  BY DEF ModelState, Cut
<1>6. \A t \in TotalState : Points(Original, t) \subseteq A
  BY <1>2 DEF AddressesFixed
<1> HIDE DEF m, A
<1>7. m \in MachineState /\ DOMAIN m.memory = A
  BY <1>2, <1>4, <1>5, CutParts
<1>8. test = Test(m) /\ Test(m).state = m
  BY <1>1 DEF m, Test
<1> QED BY <1>6, <1>7, <1>8 DEF WholeTest

\* So have the random ones, which take the addresses of the first.
LEMMA RandomTestsAreWhole ==
  ASSUME WholeTests, counterexamples \in Seq(TestCase), Len(counterexamples) = 1,
         NEW s \in RandomStates
  PROVE  WholeTest(RandomTest(s))
<1> DEFINE A == DOMAIN counterexamples[1].state.memory
<1>1. WholeTest(counterexamples[1])
  BY DEF WholeTests
<1>2. A \in SUBSET Word
  BY <1>1, StateParts DEF WholeTest
<1>3. \A t \in TotalState : Points(Original, t) \subseteq A
  BY <1>1 DEF WholeTest
<1>4. s \in [registers : RandomFiles, memory : [A -> Byte]]
  BY DEF RandomStates
<1> HIDE DEF A
<1>5. /\ s.registers \in [Registers -> Word] /\ s.memory \in [A -> Byte]
      /\ s = [registers |-> s.registers, memory |-> s.memory]
  BY <1>4, SearchAssumption
<1>6. s \in MachineState /\ DOMAIN s.memory = A
  BY <1>2, <1>5, IsState
<1>7. RandomTest(s) = Test(s) /\ Test(s).state = s
  BY DEF RandomTest, Test
<1> QED BY <1>3, <1>6, <1>7 DEF WholeTest

\* A step adds only whole tests.
LEMMA WholeTestsKept ==
  ASSUME AddressesFixed, SearchState, WholeTests, [Next]_vars
  PROVE  WholeTests'
<1>1. counterexamples \in Seq(TestCase)
  BY DEF SearchState
<1>2. ASSUME NEW tests \in Seq(TestCase), \A n \in DOMAIN tests : WholeTest(tests[n]),
             counterexamples' = counterexamples \o tests
      PROVE  WholeTests'
  <2> SUFFICES ASSUME NEW n \in DOMAIN (counterexamples \o tests)
               PROVE  WholeTest((counterexamples \o tests)[n])
    BY <1>2 DEF WholeTests
  <2> DEFINE k == Len(counterexamples)
  <2>1. CASE n \in 1 .. k
    BY <1>1, <1>2, <2>1 DEF WholeTests
  <2>2. CASE n \notin 1 .. k
    <3>1. n - k \in DOMAIN tests /\ (counterexamples \o tests)[n] = tests[n - k]
      BY <1>1, <1>2, <2>2
    <3> QED BY <1>2, <3>1
  <2> QED BY <2>1, <2>2
<1>3. CASE UNCHANGED counterexamples
  BY <1>3 DEF WholeTests
<1>4. CASE Refute
  <2>1. PICK test \in Refutations[proposal] : counterexamples' = Append(counterexamples, test)
    BY <1>4 DEF Refute
  <2>2. proposal \in AnyProgram
    BY LegalIsAny DEF SearchState, ProgramsAreLegal
  <2>3. test \in TestCase /\ WholeTest(test)
    BY <2>2, AnswersAreTests, AnswersAreWhole
  <2>4. <<test>> \in Seq(TestCase) /\ counterexamples' = counterexamples \o <<test>>
    BY <1>1, <2>1, <2>3
  <2>5. \A n \in DOMAIN <<test>> : <<test>>[n] = test
    OBVIOUS
  <2> QED BY <1>2, <2>3, <2>4, <2>5
<1>5. CASE StartIteration
  <2>1. ASSUME Len(counterexamples) = 1, NEW drawn \in [1 .. RandomCases -> RandomStates],
               AddCounterexamples([n \in 1 .. RandomCases |-> RandomTest(drawn[n])])
        PROVE  WholeTests'
    <3> DEFINE tests == [n \in 1 .. RandomCases |-> RandomTest(drawn[n])]
    <3>1. tests \in Seq(TestCase)
      BY <1>1, <2>1, RandomTestsAreTests
    <3>2. \A n \in DOMAIN tests : WholeTest(tests[n])
      BY <1>1, <2>1, RandomTestsAreWhole
    <3>3. counterexamples' = counterexamples \o tests
      BY <2>1 DEF AddCounterexamples
    <3> HIDE DEF tests
    <3> QED BY <1>2, <3>1, <3>2, <3>3
  <2> QED BY <1>3, <1>5, <2>1 DEF StartIteration
<1>6. CASE \/ Return \/ Propose \/ RejectEmpty \/ RejectCostly \/ AcceptFailing \/ RecordMatch
           \/ UNCHANGED vars
  BY <1>3, <1>6 DEF Return, Propose, RejectEmpty, RejectCostly, AcceptFailing, RecordMatch, vars
<1> QED BY <1>4, <1>5, <1>6 DEF Next

\* For an original whose addresses are fixed, the registers and their constants
\* alone for instance: a program that the solver takes for its equal passes every
\* counterexample, those included that are found or drawn after it. What the
\* solver says of its states is to hold of all, and the program may touch no
\* memory that the original does not, nor store in the stack.
THEOREM EqualProgramsPassHolds ==
  ASSUME SameCostPenalty = 0, AddressesFixed,
         \A p \in Program : Models[p] = {} => Confined(p)
  PROVE  Spec => []EqualProgramsPass
<1>1. Init => WholeTests
  BY DEF Init, WholeTests
<1>2. SearchState /\ WholeTests /\ [Next]_vars => WholeTests'
  BY WholeTestsKept
<1>3. SearchState /\ WholeTests => EqualProgramsPass
  <2> SUFFICES ASSUME SearchState, WholeTests, NEW p \in Program, Models[p] = {}
               PROVE  CostOnAll(p, counterexamples) = 0
    BY DEF EqualProgramsPass
  <2>1. p \in AnyProgram /\ counterexamples \in Seq(TestCase) /\ Confined(p)
    BY LegalIsAny DEF SearchState
  <2>2. \A n \in DOMAIN counterexamples : CostOn(p, counterexamples[n]) = 0
    BY <2>1, ConfinedPasses DEF WholeTests
  <2> QED BY <2>1, <2>2, FreeTestsAreFree
<1> QED BY <1>1, <1>2, <1>3, SearchStateHolds, PTL DEF Spec
==============================================================================
