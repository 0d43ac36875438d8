--------------------------- MODULE Execution_proofs --------------------------
(***************************************************************************)
(* Theorems about what single instructions compute, for all widths,        *)
(* floats, registers and blocks.                                           *)
(***************************************************************************)
EXTENDS Execution, FiniteSetTheorems, FunctionTheorems, SequenceTheorems,
        WellFoundedInduction, TLAPS

-----------------------------------------------------------------------------
(* What is executed, and what a visit function sets.                       *)

AllInstructions ==
    FCmps \cup ICmps \cup Binaries \cup Shifts \cup Casts \cup GEPs \cup ConstantExprs
        \cup BitCasts \cup Moves \cup Jumps \cup Operands \cup NativeCalls \cup Formats

CompareOf(vector, type, op, x, y, w) ==
    IF vector THEN ICmpVector(type, op, <<x, y>>, <<y, x>>, w) ELSE ICmp(type, op, x, y, w)

ComputedByOperators ==
    LET i == instruction
    IN  /\ Visited("FCmp") => result = FCmpVector(i.predicate, i.a, i.b)
        /\ Visited("ICmp") => result = CompareOf(i.vector, i.type, i.op, i.x, i.y, i.width)
        /\ Visited("BinaryOperator") => result = BinaryScalar(i.op, i.x, i.y, i.width)
        /\ Visited("Shift") => result = BinaryScalar(i.op, i.x, i.y, i.width)

(* What a constant expression of each form is worth.                       *)
ConstantOf(form, p, path, bytes, w) ==
    CASE form = "difference" -> DifferenceExpr(p, path, w)
      [] form = "distance" -> DistanceExpr(p, path, w)
      [] form = "sum" -> SumExpr(p, bytes, w)

ComputedByMoves ==
    LET i == instruction
    IN  /\ Visited("Cast") => result = executeCast(i.op, i.x, i.from, i.to)
        /\ Visited("GetElementPtr") => result = executeGEPOperation(i.pointer, i.path)
        /\ Visited("ConstantExpr") =>
              result = ConstantOf(i.form, i.pointer, PathOf(i), OffsetOf(i), i.width)
        /\ Visited("BitCast") => result = BitCast(i.little, i.src, i.from, i.to)
        /\ Visited("ShuffleVector") => result = ShuffleVector(i.a, i.b, i.mask)
        /\ Visited("Select") => result = Select(i.conditions, i.a, i.b)
        /\ Visited("InsertElement") => result = InsertElement(i.a, 7, i.index)
        /\ Visited("InsertValue") => result = InsertValue(<<i.a, i.b>>, 7, i.path)

ComputedByJumps ==
    /\ Visited("Branch") =>
          result = JumpTo(~ instruction.conditional \/ instruction.condition # 0)
    /\ Visited("Switch") => result = JumpTo(SwitchTarget(instruction.condition, Cases, FALSE, 2))
    /\ Visited("IndirectBr") => result = JumpTo(TRUE)

PrintfOf(callee, format) ==
    CASE callee = "sprintf" -> lle_X_sprintf(<<"Output", format>> \o Arguments)
      [] callee = "printf" -> lle_X_printf(<<format>> \o Arguments)
      [] callee = "fprintf" -> lle_X_fprintf(<<"File", format>> \o Arguments)

ComputedByCalls ==
    LET i == instruction
    IN  /\ Visited("Operand") => result = getConstantValue(i.type, i.constant)
        /\ Visited("ffiInvoke") => result = [fetched |-> ffiInvoke(i.types),
                                             returned |-> ffiResult(i.types[1])]
        /\ Visited("Printf") => result = PrintfOf(i.callee, FlattenSeq(i.pieces))

(* The inductive invariant: the result, once there, is what the visit      *)
(* function of the instruction computes from its operands.                 *)
ExecutionInv ==
    /\ instruction \in AllInstructions
    /\ ComputedByOperators
    /\ ComputedByMoves
    /\ ComputedByJumps
    /\ ComputedByCalls

LEMMA ExecutionInit == Init => ExecutionInv
  BY DEF Init, ExecutionInv, AllInstructions, ComputedByOperators, ComputedByMoves,
         ComputedByJumps, ComputedByCalls, Visited

(* A visit function sets the result of its own kind of instruction.        *)
Sets(kind, value) ==
    instruction' = instruction /\ instruction.visit = kind /\ result' = value

LEMMA NextSets ==
    ASSUME Next
    PROVE  LET i == instruction
           IN  \/ Sets("FCmp", FCmpVector(i.predicate, i.a, i.b))
               \/ Sets("ICmp", CompareOf(i.vector, i.type, i.op, i.x, i.y, i.width))
               \/ Sets("BinaryOperator", BinaryScalar(i.op, i.x, i.y, i.width))
               \/ Sets("Shift", BinaryScalar(i.op, i.x, i.y, i.width))
               \/ Sets("Cast", executeCast(i.op, i.x, i.from, i.to))
               \/ Sets("GetElementPtr", executeGEPOperation(i.pointer, i.path))
               \/ Sets("ConstantExpr",
                       ConstantOf(i.form, i.pointer, PathOf(i), OffsetOf(i), i.width))
               \/ Sets("BitCast", BitCast(i.little, i.src, i.from, i.to))
               \/ Sets("ShuffleVector", ShuffleVector(i.a, i.b, i.mask))
               \/ Sets("Select", Select(i.conditions, i.a, i.b))
               \/ Sets("InsertElement", InsertElement(i.a, 7, i.index))
               \/ Sets("InsertValue", InsertValue(<<i.a, i.b>>, 7, i.path))
               \/ Sets("Branch", JumpTo(~ i.conditional \/ i.condition # 0))
               \/ Sets("Switch", JumpTo(SwitchTarget(i.condition, Cases, FALSE, 2)))
               \/ Sets("IndirectBr", JumpTo(TRUE))
               \/ Sets("Operand", getConstantValue(i.type, i.constant))
               \/ Sets("ffiInvoke", [fetched |-> ffiInvoke(i.types),
                                     returned |-> ffiResult(i.types[1])])
               \/ Sets("Printf", PrintfOf(i.callee, FlattenSeq(i.pieces)))
  <1>1. ASSUME NEW kind, NEW value, Visit(kind, value)  PROVE Sets(kind, value)
    BY <1>1 DEF Visit, Sets
  <1>2. CASE visitFCmpInst
    BY <1>1, <1>2 DEF visitFCmpInst
  <1>3. CASE visitICmpInst
    BY <1>1, <1>3 DEF visitICmpInst, CompareOf
  <1>4. CASE visitBinaryOperator
    BY <1>1, <1>4 DEF visitBinaryOperator
  <1>5. CASE visitShift
    BY <1>1, <1>5 DEF visitShift
  <1>6. CASE visitCast
    BY <1>1, <1>6 DEF visitCast
  <1>7. CASE visitGetElementPtrInst
    BY <1>1, <1>7 DEF visitGetElementPtrInst
  <1>8. CASE visitBitCastInst
    BY <1>1, <1>8 DEF visitBitCastInst
  <1>9. CASE visitShuffleVectorInst
    BY <1>1, <1>9 DEF visitShuffleVectorInst
  <1>10. CASE visitSelectInst
    BY <1>1, <1>10 DEF visitSelectInst
  <1>11. CASE visitInsertElementInst
    BY <1>1, <1>11 DEF visitInsertElementInst
  <1>12. CASE visitInsertValueInst
    BY <1>1, <1>12 DEF visitInsertValueInst
  <1>13. CASE visitBranchInst
    BY <1>1, <1>13 DEF visitBranchInst
  <1>14. CASE visitSwitchInst
    BY <1>1, <1>14 DEF visitSwitchInst
  <1>15. CASE visitIndirectBrInst
    BY <1>1, <1>15 DEF visitIndirectBrInst
  <1>16. CASE getOperandValue
    BY <1>1, <1>16 DEF getOperandValue
  <1>17. CASE callNative
    BY <1>1, <1>17 DEF callNative
  <1>18. CASE callPrintf
    BY <1>1, <1>18 DEF callPrintf, PrintfOf
  <1>19. CASE visitConstantExpr
    BY <1>1, <1>19 DEF visitConstantExpr, ConstantOf
  <1> QED
    BY <1>2, <1>3, <1>4, <1>5, <1>6, <1>7, <1>8, <1>9, <1>10, <1>11, <1>12, <1>13, <1>14,
       <1>15, <1>16, <1>17, <1>18, <1>19 DEF Next

LEMMA ExecutionNext == ExecutionInv /\ [Next]_vars => ExecutionInv'
  <1> SUFFICES ASSUME ExecutionInv, [Next]_vars  PROVE ExecutionInv'
    OBVIOUS
  <1>1. CASE UNCHANGED vars
    <2>1. instruction' = instruction /\ result' = result
      BY <1>1 DEF vars
    <2>2. ComputedByOperators' /\ ComputedByMoves'
      BY <2>1 DEF ExecutionInv, ComputedByOperators, ComputedByMoves, Visited
    <2>3. ComputedByJumps'
      BY <2>1 DEF ExecutionInv, ComputedByJumps, Visited, JumpTo
    <2>4. ComputedByCalls'
      BY <2>1 DEF ExecutionInv, ComputedByCalls, Visited
    <2> QED  BY <2>1, <2>2, <2>3, <2>4 DEF ExecutionInv
  <1>2. CASE Next
    <2>1. instruction' = instruction
      BY <1>2, NextSets DEF Sets
    <2>2. ComputedByOperators'
      BY <1>2, <2>1, NextSets DEF ComputedByOperators, Visited, Sets
    <2>3. ComputedByMoves'
      BY <1>2, <2>1, NextSets DEF ComputedByMoves, Visited, Sets
    <2>4. ComputedByJumps'
      BY <1>2, <2>1, NextSets DEF ComputedByJumps, Visited, Sets, JumpTo
    <2>5. ComputedByCalls'
      BY <1>2, <2>1, NextSets DEF ComputedByCalls, Visited, Sets
    <2> QED  BY <2>1, <2>2, <2>3, <2>4, <2>5 DEF ExecutionInv
  <1> QED  BY <1>1, <1>2

(* In every state the result is missing, or it is what the visit function  *)
(* of the instruction computes from its operands (Execution.cpp).          *)
LEMMA ResultsAreComputed == Spec => []ExecutionInv
  BY ExecutionInit, ExecutionNext, PTL DEF Spec

(* Instructions of each kind come from the sets of their kind.             *)
LEMMA Kinds ==
    ASSUME ExecutionInv
    PROVE  /\ Visited("FCmp") => instruction \in FCmps
           /\ Visited("ICmp") => instruction \in ICmps
           /\ Visited("BinaryOperator") => instruction \in Binaries
           /\ Visited("Shift") => instruction \in Shifts
           /\ Visited("Cast") => instruction \in Casts
           /\ Visited("GetElementPtr") => instruction \in GEPs
           /\ Visited("ConstantExpr") => instruction \in ConstantExprs
           /\ Visited("BitCast") => instruction \in BitCasts
           /\ Visited("Operand") => instruction \in Operands
           /\ Visited("ffiInvoke") => instruction \in NativeCalls
           /\ Visited("Printf") => instruction \in Formats
           /\ Visited("Branch") \/ Visited("Switch") \/ Visited("IndirectBr")
                 => instruction \in Jumps
           /\ Visited("ShuffleVector") \/ Visited("Select") \/ Visited("InsertElement")
                 \/ Visited("InsertValue") => instruction \in Moves
  <1>1. \A i \in FCmps : i.visit = "FCmp"
    BY DEF FCmps
  <1>2. \A i \in ICmps : i.visit = "ICmp"
    BY DEF ICmps, Compares
  <1>3. \A i \in Binaries : i.visit = "BinaryOperator"
    BY DEF Binaries, OfTwoIntegers
  <1>4. \A i \in Shifts : i.visit = "Shift"
    BY DEF Shifts, OfTwoIntegers
  <1>5. \A i \in Casts : i.visit = "Cast"
    BY DEF Casts
  <1>6. \A i \in GEPs : i.visit = "GetElementPtr"
    BY DEF GEPs
  <1>7. \A i \in BitCasts : i.visit = "BitCast"
    BY DEF BitCasts
  <1>8. \A i \in Moves : i.visit \in {"ShuffleVector", "Select", "InsertElement", "InsertValue"}
    BY DEF Moves
  <1>9. \A i \in Jumps : i.visit \in {"Branch", "Switch", "IndirectBr"}
    BY DEF Jumps
  <1>10. \A i \in Operands : i.visit = "Operand"
    BY DEF Operands
  <1>11. \A i \in NativeCalls : i.visit = "ffiInvoke"
    BY DEF NativeCalls
  <1>12. \A i \in Formats : i.visit = "Printf"
    BY DEF Formats
  <1>13. \A i \in ConstantExprs : i.visit = "ConstantExpr"
    BY DEF ConstantExprs
  <1> QED  BY <1>1, <1>2, <1>3, <1>4, <1>5, <1>6, <1>7, <1>8, <1>9, <1>10, <1>11, <1>12, <1>13
              DEF ExecutionInv, AllInstructions, Visited

-----------------------------------------------------------------------------
(* Folds. The provers have no induction over folds of any operator, so the *)
(* steps of the folds of this module are the cases of one operator.        *)

FoldStep(kind, c, value, i) ==
    CASE kind = "node"     -> [value EXCEPT ![c.phis[i].node] = c.results[i]]
      [] kind = "member"   -> value[c[i] + 1]
      [] kind = "offset"   -> (value + GepOffset(c[i])) % Pow2[PointerBits]
      [] kind = "shift"    -> IF c.op = "Shl" THEN (2 * value) % Pow2[c.w]
                              ELSE IF c.op = "LShr" THEN value \div 2
                              ELSE (value \div 2) + (IF HasBit(value, c.w - 1) THEN Pow2[c.w - 1] ELSE 0)
      [] kind = "argument" -> ffiValueFor(value, ArgOffset(c, i), Bytes(i, c[i]))
      [] kind = "character" -> ReadCharacter(value, c.format[i], c.args)

IsFold(g, kind, c, base, n) ==
    g = [s \in SUBSET (1 .. n) |-> IF s = {} THEN base
                                   ELSE FoldStep(kind, c, g[s \ {Max(s)}], Max(s))]

LEMMA LeastNumber ==
    ASSUME NEW T \in SUBSET Nat, T # {}
    PROVE  \E x \in T : \A y \in T : x <= y
  <1> DEFINE R == OpToRel(<, Nat)
  <1>1. IsWellFoundedOn(R, Nat)
    BY NatLessThanWellFounded
  <1>2. \A x, y \in Nat : x < y => <<x, y>> \in R
    BY DEF OpToRel
  <1> HIDE DEF R
  <1>3. PICK x \in T : \A y \in T : ~ (<<y, x>> \in R)
    BY <1>1, WFMin
  <1>4. \A y \in T : ~ (y < x)
    BY <1>2, <1>3
  <1>5. \A y \in T : x <= y
    BY <1>4
  <1> QED  BY <1>5

LEMMA MaxFacts ==
    ASSUME NEW n \in Nat, NEW s \in SUBSET (1 .. n + 1), n + 1 \in s
    PROVE  Max(s) = n + 1
  <1>1. \A y \in s : n + 1 >= y
    OBVIOUS
  <1>2. \A x \in s : (\A y \in s : x >= y) => x = n + 1
    OBVIOUS
  <1> QED  BY <1>1, <1>2 DEF Max

LEMMA MaxInside ==
    ASSUME NEW n \in Nat, NEW s \in SUBSET (1 .. n), s # {}
    PROVE  Max(s) \in 1 .. n
  <1> DEFINE T == {n - x : x \in s}
  <1>1. PICK m \in T : \A k \in T : m <= k
    <2>1. \A x \in s : x \in Int /\ n - x \in Nat
      OBVIOUS
    <2>2. T \in SUBSET Nat
      BY <2>1
    <2>3. PICK x : x \in s
      OBVIOUS
    <2>4. n - x \in T
      BY <2>3
    <2> HIDE DEF T
    <2> QED  BY <2>2, <2>4, LeastNumber
  <1>2. PICK x \in s : m = n - x
    OBVIOUS
  <1>3. \A y \in s : x >= y
    <2> TAKE y \in s
    <2>1. n - x <= n - y
      BY <1>1, <1>2
    <2> QED  BY <2>1
  <1>4. Max(s) \in s
    BY <1>3 DEF Max
  <1> QED  BY <1>4

(* What a fold makes of the first elements, one after the other.           *)
Steps(f, kind, c, base, n) ==
    /\ f[1 .. 0] = base
    /\ \A k \in 0 .. n - 1 : f[1 .. k + 1] = FoldStep(kind, c, f[1 .. k], k + 1)

LEMMA FoldSteps ==
    ASSUME NEW kind, NEW c, NEW base, NEW n \in Nat, NEW f, IsFold(f, kind, c, base, n)
    PROVE  Steps(f, kind, c, base, n)
  <1>1. f[1 .. 0] = base
    <2>1. 1 .. 0 = {}
      OBVIOUS
    <2> QED  BY <2>1 DEF IsFold
  <1>2. ASSUME NEW k \in 0 .. n - 1
        PROVE  f[1 .. k + 1] = FoldStep(kind, c, f[1 .. k], k + 1)
    <2> PICK s : s = 1 .. k + 1
      OBVIOUS
    <2>1. k \in Nat /\ k + 1 \in s /\ s \in SUBSET (1 .. k + 1)
      OBVIOUS
    <2>2. s \in SUBSET (1 .. n)
      OBVIOUS
    <2>3. s # {} /\ Max(s) = k + 1
      BY <2>1, MaxFacts
    <2>4. f[s] = FoldStep(kind, c, f[s \ {Max(s)}], Max(s))
      BY <2>2, <2>3 DEF IsFold
    <2>5. s \ {k + 1} = 1 .. k
      <3>1. \A x : x \in s /\ x # k + 1 <=> x \in 1 .. k
        BY <2>1
      <3> QED  BY <3>1
    <2> QED  BY <2>3, <2>4, <2>5
  <1> QED  BY <1>1, <1>2 DEF Steps

LEMMA FoldExists ==
    ASSUME NEW kind, NEW c, NEW base, NEW n \in Nat
    PROVE  \E g : IsFold(g, kind, c, base, n)
  <1> DEFINE T == {k \in 0 .. n : ~ \E g : IsFold(g, kind, c, base, k)}
  <1> SUFFICES ASSUME T # {}  PROVE FALSE
    OBVIOUS
  <1>1. PICK m \in T : \A k \in T : m <= k
    <2>1. T \in SUBSET Nat
      OBVIOUS
    <2> HIDE DEF T
    <2> QED  BY <2>1, LeastNumber
  <1>2. m # 0
    <2>1. 1 .. 0 = {} /\ SUBSET {} = {{}}
      OBVIOUS
    <2>2. IsFold([s \in {{}} |-> base], kind, c, base, 0)
      BY <2>1 DEF IsFold
    <2> QED  BY <2>2
  <1> PICK k : k = m - 1
    OBVIOUS
  <1>3. k \in Nat /\ m = k + 1 /\ k \in 0 .. n /\ k \notin T
    BY <1>1, <1>2
  <1>4. PICK f : IsFold(f, kind, c, base, k)
    BY <1>3
  <1> DEFINE g == [s \in SUBSET (1 .. k + 1) |->
                      IF k + 1 \in s THEN FoldStep(kind, c, f[s \ {k + 1}], k + 1) ELSE f[s]]
             step(s) == IF s = {} THEN base ELSE FoldStep(kind, c, g[s \ {Max(s)}], Max(s))
  <1>5. ASSUME NEW s \in SUBSET (1 .. k + 1)  PROVE g[s] = step(s)
    <2>1. CASE k + 1 \in s
      <3>1. Max(s) = k + 1
        BY <1>3, <2>1, MaxFacts
      <3>2. s \ {k + 1} \in SUBSET (1 .. k + 1) /\ k + 1 \notin s \ {k + 1}
        OBVIOUS
      <3>3. g[s \ {k + 1}] = f[s \ {k + 1}]
        BY <3>2
      <3>4. g[s] = FoldStep(kind, c, f[s \ {k + 1}], k + 1)
        BY <2>1
      <3> HIDE DEF g
      <3> QED  BY <2>1, <3>1, <3>3, <3>4
    <2>2. CASE k + 1 \notin s
      <3>1. s \in SUBSET (1 .. k)
        BY <1>3, <2>2
      <3>2. f[s] = IF s = {} THEN base ELSE FoldStep(kind, c, f[s \ {Max(s)}], Max(s))
        BY <1>4, <3>1 DEF IsFold
      <3> PICK r : r = s \ {Max(s)}
        OBVIOUS
      <3>3. r \in SUBSET (1 .. k + 1) /\ k + 1 \notin r
        BY <2>2
      <3>4. g[r] = f[r] /\ g[s] = f[s]
        BY <2>2, <3>3
      <3> HIDE DEF g
      <3> QED  BY <3>2, <3>4
    <2> QED  BY <2>1, <2>2
  <1>6. IsFold(g, kind, c, base, k + 1)
    <2>1. g = [s \in SUBSET (1 .. k + 1) |-> g[s]]
      OBVIOUS
    <2> HIDE DEF g
    <2> QED  BY <1>5, <2>1 DEF IsFold
  <1> HIDE DEF g
  <1> QED  BY <1>1, <1>3, <1>6

LEMMA FoldOfTwo ==
    ASSUME NEW kind, NEW c, NEW base, NEW f, IsFold(f, kind, c, base, 2)
    PROVE  f[1 .. 2] = FoldStep(kind, c, FoldStep(kind, c, base, 1), 2)
  <1>1. Steps(f, kind, c, base, 2)
    BY FoldSteps
  <1>2. f[1 .. 0] = base
    BY <1>1 DEF Steps
  <1>3. \A k \in 0 .. 2 - 1 : f[1 .. k + 1] = FoldStep(kind, c, f[1 .. k], k + 1)
    BY <1>1, Zenon DEF Steps
  <1>4. f[1 .. 0 + 1] = FoldStep(kind, c, f[1 .. 0], 0 + 1)
    BY <1>3
  <1>5. f[1 .. 1 + 1] = FoldStep(kind, c, f[1 .. 1], 1 + 1)
    BY <1>3
  <1> QED  BY <1>2, <1>4, <1>5

LEMMA FoldOfThree ==
    ASSUME NEW kind, NEW c, NEW base, NEW f, IsFold(f, kind, c, base, 3)
    PROVE  f[1 .. 3] = FoldStep(kind, c, FoldStep(kind, c, FoldStep(kind, c, base, 1), 2), 3)
  <1>1. Steps(f, kind, c, base, 3)
    BY FoldSteps
  <1>2. f[1 .. 0] = base
    BY <1>1 DEF Steps
  <1>3. \A k \in 0 .. 3 - 1 : f[1 .. k + 1] = FoldStep(kind, c, f[1 .. k], k + 1)
    BY <1>1, Zenon DEF Steps
  <1>4. f[1 .. 0 + 1] = FoldStep(kind, c, f[1 .. 0], 0 + 1)
    BY <1>3
  <1>5. f[1 .. 1 + 1] = FoldStep(kind, c, f[1 .. 1], 1 + 1)
    BY <1>3
  <1>6. f[1 .. 2 + 1] = FoldStep(kind, c, f[1 .. 2], 2 + 1)
    BY <1>3
  <1> QED  BY <1>2, <1>4, <1>5, <1>6

-----------------------------------------------------------------------------
(* PHI nodes.                                                              *)

(* PHI nodes with the inputs that were read for them.                      *)
AreInputs(c, phis, previous, values) ==
    c.phis = phis /\ c.results = [i \in DOMAIN phis |-> values[phis[i].incoming[previous]]]

(* SwitchToNewBasicBlock as such a fold.                                   *)
LEMMA SwitchMeaning ==
    ASSUME NEW phis, NEW previous, NEW values, NEW n \in Nat, DOMAIN phis = 1 .. n,
           NEW c, AreInputs(c, phis, previous, values)
    PROVE  \E g : /\ IsFold(g, "node", c, values, n)
                  /\ SwitchToNewBasicBlock(phis, previous, values) = g[1 .. n]
  <1> DEFINE results == [i \in DOMAIN phis |-> values[phis[i].incoming[previous]]]
             place == [i \in DOMAIN phis |-> i]
             step(g, s) == [g[s \ {Max(s)}] EXCEPT ![phis[place[Max(s)]].node] = results[place[Max(s)]]]
             g == CHOOSE g : g = [s \in SUBSET DOMAIN place |-> IF s = {} THEN values ELSE step(g, s)]
  <1>1. DOMAIN place = 1 .. n
    OBVIOUS
  <1>2. SwitchToNewBasicBlock(phis, previous, values) = g[DOMAIN place]
    BY DEF SwitchToNewBasicBlock, FoldLeftDomain, FoldLeft, MapThenFoldSet
  <1>3. ASSUME NEW s \in SUBSET (1 .. n), s # {}, NEW f
        PROVE  step(f, s) = FoldStep("node", c, f[s \ {Max(s)}], Max(s))
    <2>1. Max(s) \in 1 .. n
      BY <1>3, MaxInside
    <2>2. place[Max(s)] = Max(s)
      BY <2>1
    <2> PICK old : old = f[s \ {Max(s)}]
      OBVIOUS
    <2> PICK i : i = Max(s)
      OBVIOUS
    <2>3. step(f, s) = [old EXCEPT ![phis[i].node] = results[i]]
      BY <2>2
    <2> PICK r : r = results
      OBVIOUS
    <2>4. c.phis = phis /\ c.results = r
      BY DEF AreInputs
    <2> HIDE DEF results, step
    <2>5. step(f, s) = [old EXCEPT ![c.phis[i].node] = c.results[i]]
      BY <2>3, <2>4
    <2>6. FoldStep("node", c, old, i) = [old EXCEPT ![c.phis[i].node] = c.results[i]]
      BY DEF FoldStep
    <2> QED  BY <2>5, <2>6
  <1> HIDE DEF step, place
  <1>4. PICK f : IsFold(f, "node", c, values, n)
    BY FoldExists
  <1>5. f = [s \in SUBSET DOMAIN place |-> IF s = {} THEN values ELSE step(f, s)]
    BY <1>1, <1>3, <1>4 DEF IsFold
  <1>6. g = [s \in SUBSET DOMAIN place |-> IF s = {} THEN values ELSE step(g, s)]
    BY <1>5
  <1> HIDE DEF g
  <1>7. IsFold(g, "node", c, values, n)
    BY <1>1, <1>3, <1>6 DEF IsFold
  <1> QED  BY <1>1, <1>2, <1>7

LEMMA OneTwo == 1 .. 1 = {1} /\ 1 .. 2 = {1, 2} /\ 1 .. 3 = {1, 2, 3} /\ 1 .. 0 = {}
  OBVIOUS

(* A block without PHI nodes.                                              *)
LEMMA NoNodes ==
    ASSUME NEW previous, NEW values
    PROVE  SwitchToNewBasicBlock(<< >>, previous, values) = values
  <1> PICK phis : phis = << >>
    OBVIOUS
  <1> PICK c : c = [phis |-> phis,
                    results |-> [i \in DOMAIN phis |-> values[phis[i].incoming[previous]]]]
    OBVIOUS
  <1>1. DOMAIN phis = 1 .. 0
    OBVIOUS
  <1>2. PICK g : /\ IsFold(g, "node", c, values, 0)
                 /\ SwitchToNewBasicBlock(phis, previous, values) = g[1 .. 0]
    <2>1. 0 \in Nat
      OBVIOUS
    <2>2. AreInputs(c, phis, previous, values)
      BY DEF AreInputs
    <2> QED  BY ONLY <1>1, <2>1, <2>2, SwitchMeaning
  <1>3. Steps(g, "node", c, values, 0)
    <2>1. 0 \in Nat
      OBVIOUS
    <2> QED  BY ONLY <1>2, <2>1, FoldSteps
  <1> QED  BY ONLY <1>2, <1>3, phis = << >> DEF Steps

(* frame is old with a value set.                                          *)
IsSet(frame, old, node, value) == frame = [old EXCEPT ![node] = value]

(* A block with two PHI nodes.                                             *)
LEMMA TwoNodes ==
    ASSUME NEW p, NEW q, NEW previous, NEW values, NEW phis, phis = <<p, q>>,
           NEW first, IsSet(first, values, p.node, values[p.incoming[previous]]),
           NEW both, IsSet(both, first, q.node, values[q.incoming[previous]])
    PROVE  SwitchToNewBasicBlock(phis, previous, values) = both
  <1>1. DOMAIN phis = 1 .. 2 /\ phis[1] = p /\ phis[2] = q
    BY OneTwo
  <1> PICK results : results = [i \in DOMAIN phis |-> values[phis[i].incoming[previous]]]
    OBVIOUS
  <1>2. results[1] = values[p.incoming[previous]] /\ results[2] = values[q.incoming[previous]]
    BY <1>1
  <1> PICK c : c = [phis |-> phis, results |-> results]
    OBVIOUS
  <1>3. c.phis = phis /\ c.results = results
    OBVIOUS
  <1>4. PICK g : /\ IsFold(g, "node", c, values, 2)
                 /\ SwitchToNewBasicBlock(phis, previous, values) = g[1 .. 2]
    <2>1. AreInputs(c, phis, previous, values)
      BY DEF AreInputs
    <2>2. 2 \in Nat
      OBVIOUS
    <2> QED  BY ONLY <1>1, <2>1, <2>2, SwitchMeaning
  <1>5. g[1 .. 2] = FoldStep("node", c, FoldStep("node", c, values, 1), 2)
    BY <1>4, FoldOfTwo
  <1>6. \A frame, i : IsSet(FoldStep("node", c, frame, i), frame, phis[i].node, results[i])
    BY <1>3 DEF FoldStep, IsSet
  <1>7. FoldStep("node", c, values, 1) = first
    <2>1. IsSet(FoldStep("node", c, values, 1), values, p.node, values[p.incoming[previous]])
      BY ONLY <1>1, <1>2, <1>6, Zenon
    <2> QED  BY ONLY <2>1, IsSet(first, values, p.node, values[p.incoming[previous]]) DEF IsSet
  <1>8. FoldStep("node", c, first, 2) = both
    <2>1. IsSet(FoldStep("node", c, first, 2), first, q.node, values[q.incoming[previous]])
      BY ONLY <1>1, <1>2, <1>6, Zenon
    <2> QED  BY ONLY <2>1, IsSet(both, first, q.node, values[q.incoming[previous]]) DEF IsSet
  <1> QED  BY <1>4, <1>5, <1>7, <1>8

LEMMA FrameIsThere == Frame \in [Registers -> 1 .. Cardinality(Registers)]
  <1>1. PICK n \in Nat : ExistsBijection(1 .. n, Registers)
    BY RegistersAssumption, FS_NatBijection
  <1>2. Cardinality(Registers) = n
    BY <1>1, FS_CountingElements
  <1>3. PICK f : f \in Bijection(Registers, 1 .. n)
    BY <1>1, Fun_ExistsBijSymmetric DEF ExistsBijection
  <1>4. f \in [Registers -> 1 .. Cardinality(Registers)] /\ IsInjective(f)
    BY <1>2, <1>3 DEF Bijection, Injection
  <1> QED  BY <1>4 DEF Frame

LEMMA SwitchFindsItsCase ==
    ASSUME NEW c \in 0 .. 2
    PROVE  SwitchTarget(c, Cases, FALSE, 2) = (c = 1)
  <1> PICK cases : cases = Cases
    OBVIOUS
  <1>1. Len(cases) = 2 /\ cases[1].value = 1 /\ cases[2].value = 2
        /\ cases[1].target = TRUE /\ cases[2].target = FALSE
    BY DEF Cases
  <1> DEFINE I == {i \in 1 .. Len(cases) : ICmp("integer", "EQ", c, cases[i].value, 2)}
  <1>2. I = IF c = 0 THEN {} ELSE {c}
    <2>1. \A i \in 1 .. 2 : cases[i].value = i
      BY <1>1
    <2>2. \A i \in 1 .. 2 : ICmp("integer", "EQ", c, i, 2) = (c = i)
      BY DEF ICmp, SignedPredicates
    <2>3. \A i : i \in I <=> i \in 1 .. 2 /\ i = c
      BY <1>1, <2>1, <2>2
    <2>4. \A i : i \in I <=> c # 0 /\ i = c
      BY <2>3
    <2> HIDE DEF I
    <2> QED  BY <2>4
  <1>3. SwitchTarget(c, cases, FALSE, 2)
          = LET i == IF I # {} THEN Min(I) ELSE 0 IN IF i = 0 THEN FALSE ELSE cases[i].target
    BY DEF SelectInSeq, SwitchTarget
  <1>4. Min({c}) = c
    BY DEF Min
  <1> HIDE DEF I
  <1>5. CASE c = 0
    <2>1. ~ (I # {})
      BY <1>2, <1>5
    <2> PICK some : some = (I # {})
      OBVIOUS
    <2>2. SwitchTarget(c, cases, FALSE, 2) = FALSE
      BY <1>3, <2>1
    <2>3. (c = 1) = FALSE
      BY <1>5
    <2> QED  BY <2>2, <2>3
  <1>6. CASE c # 0
    <2>1. SwitchTarget(c, cases, FALSE, 2) = cases[c].target
      BY <1>2, <1>3, <1>4, <1>6
    <2>2. c = 1 \/ c = 2
      BY <1>6
    <2> QED  BY <1>1, <2>1, <2>2
  <1> QED  BY <1>5, <1>6

(* The PHI nodes that the jump makes take their values.                    *)
PhisOf(jump, p, q) == IF jump THEN {p, q} ELSE {}

(* What register r is worth behind it.                                     *)
Taken(phis, previous, r) ==
    IF phis = {} THEN Frame[r] ELSE Frame[(CHOOSE phi \in phis : TRUE).incoming[previous]]

LEMMA JumpSetsPhis ==
    ASSUME NEW p, NEW q, p.node # q.node, p.node \in Registers, q.node \in Registers,
           NEW previous, NEW jump \in BOOLEAN, NEW r \in Registers
    PROVE  SwitchToNewBasicBlock(IF jump THEN <<p, q>> ELSE << >>, previous, Frame)[r]
             = Taken({phi \in PhisOf(jump, p, q) : phi.node = r}, previous, r)
  <1> PICK phis : phis = {phi \in PhisOf(jump, p, q) : phi.node = r}
    OBVIOUS
  <1> PICK new : new = SwitchToNewBasicBlock(IF jump THEN <<p, q>> ELSE << >>, previous, Frame)
    OBVIOUS
  <1> SUFFICES new[r] = IF phis = {} THEN Frame[r]
                        ELSE Frame[(CHOOSE phi \in phis : TRUE).incoming[previous]]
    BY DEF Taken
  <1>1. CASE ~ jump
    <2>1. phis = {}
      BY <1>1 DEF PhisOf
    <2>2. (IF jump THEN <<p, q>> ELSE << >>) = << >>
      BY <1>1
    <2>3. new = Frame
      BY <2>2, NoNodes
    <2> QED  BY <2>1, <2>3
  <1>2. CASE jump
    <2>1. DOMAIN Frame = Registers
      BY FrameIsThere
    <2> PICK frame : frame = Frame
      OBVIOUS
    <2> PICK a : a = frame[p.incoming[previous]]
      OBVIOUS
    <2> PICK b : b = frame[q.incoming[previous]]
      OBVIOUS
    <2> PICK first : first = [frame EXCEPT ![p.node] = a]
      OBVIOUS
    <2> PICK both : both = [first EXCEPT ![q.node] = b]
      OBVIOUS
    <2> PICK phinodes : phinodes = <<p, q>>
      OBVIOUS
    <2>2. new = both
      <3>1. IsSet(first, frame, p.node, frame[p.incoming[previous]])
        BY DEF IsSet
      <3>2. IsSet(both, first, q.node, frame[q.incoming[previous]])
        BY DEF IsSet
      <3>3. phinodes = <<p, q>>
        OBVIOUS
      <3>4. SwitchToNewBasicBlock(phinodes, previous, frame) = both
        BY ONLY <3>1, <3>2, <3>3, TwoNodes
      <3>5. (IF jump THEN <<p, q>> ELSE << >>) = phinodes
        BY <1>2
      <3> QED  BY <3>4, <3>5
    <2>4. DOMAIN first = Registers
      BY <2>1
    <2>5. first[r] = IF r = p.node THEN a ELSE frame[r]
      BY <2>1
    <2>6. new[r] = IF r = q.node THEN b ELSE first[r]
      BY <2>2, <2>4
    <2>7. CASE r = p.node
      <3>1. phis = {p}
        BY <1>2, <2>7 DEF PhisOf
      <3>2. (CHOOSE phi \in phis : TRUE) = p /\ phis # {}
        BY <3>1
      <3> QED  BY <2>5, <2>6, <2>7, <3>2
    <2>8. CASE r = q.node
      <3>1. phis = {q}
        BY <1>2, <2>8 DEF PhisOf
      <3>2. (CHOOSE phi \in phis : TRUE) = q /\ phis # {}
        BY <3>1
      <3> QED  BY <2>6, <2>8, <3>2
    <2>9. CASE r # p.node /\ r # q.node
      <3>1. phis = {}
        BY <1>2, <2>9 DEF PhisOf
      <3> QED  BY <2>5, <2>6, <2>9, <3>1
    <2> QED  BY <2>7, <2>8, <2>9
  <1> QED  BY <1>1, <1>2

(* Whether each kind of jump goes to the block with PHI nodes.             *)
Jumped(kind) ==
    CASE kind = "Branch" -> instruction.conditional => instruction.condition > 0
      [] kind = "Switch" -> instruction.condition = 1
      [] kind = "IndirectBr" -> TRUE

LEMMA JumpKinds ==
    ASSUME ExecutionInv, NEW kind \in {"Branch", "Switch", "IndirectBr"}, Visited(kind)
    PROVE  /\ instruction \in Jumps
           /\ Jumped(kind) \in BOOLEAN
           /\ result = JumpTo(Jumped(kind))
  <1>1. instruction \in Jumps
    BY Kinds
  <1>2. instruction.condition \in 0 .. 2 /\ instruction.conditional \in BOOLEAN
    BY <1>1 DEF Jumps
  <1>3. CASE kind = "Branch"
    <2>1. Jumped(kind) = (~ instruction.conditional \/ instruction.condition # 0)
      BY <1>2, <1>3 DEF Jumped
    <2>2. result = JumpTo(~ instruction.conditional \/ instruction.condition # 0)
      BY <1>3 DEF ExecutionInv, ComputedByJumps
    <2> QED  BY <1>1, <2>1, <2>2
  <1>4. CASE kind = "Switch"
    <2>1. Jumped(kind) = (instruction.condition = 1)
      BY <1>4 DEF Jumped
    <2>2. result = JumpTo(SwitchTarget(instruction.condition, Cases, FALSE, 2))
      BY <1>4 DEF ExecutionInv, ComputedByJumps
    <2>3. SwitchTarget(instruction.condition, Cases, FALSE, 2) = (instruction.condition = 1)
      BY <1>2, SwitchFindsItsCase
    <2> QED  BY <1>1, <2>1, <2>2, <2>3
  <1>5. CASE kind = "IndirectBr"
    <2>1. Jumped(kind) = TRUE
      BY <1>5 DEF Jumped
    <2>2. result = JumpTo(TRUE)
      BY <1>5 DEF ExecutionInv, ComputedByJumps
    <2> QED  BY <1>1, <2>1, <2>2
  <1> QED  BY <1>3, <1>4, <1>5

LEMMA PhisOfState == ExecutionInv => PhisAreParallel
  <1> SUFFICES ASSUME ExecutionInv, NEW kind \in {"Branch", "Switch", "IndirectBr"},
                      Visited(kind), NEW r \in Registers
               PROVE  LET phis == {phi \in {instruction.p, instruction.q} :
                                     phi.node = r /\ Jumped(kind)}
                      IN result[r] = (IF phis = {} THEN Frame[r]
                           ELSE Frame[(CHOOSE phi \in phis : TRUE).incoming[instruction.previous]])
    BY DEF PhisAreParallel, Jumped
  <1> PICK jump : jump = Jumped(kind)
    OBVIOUS
  <1>1. instruction \in Jumps /\ jump \in BOOLEAN /\ result = JumpTo(jump)
    BY JumpKinds
  <1> PICK p : p = instruction.p
    OBVIOUS
  <1> PICK q : q = instruction.q
    OBVIOUS
  <1> PICK previous : previous = instruction.previous
    OBVIOUS
  <1>2. p.node # q.node /\ p.node \in Registers /\ q.node \in Registers
    BY <1>1 DEF Jumps, Phis
  <1>3. result[r] = Taken({phi \in PhisOf(jump, p, q) : phi.node = r}, previous, r)
    <2>1. result = SwitchToNewBasicBlock(IF jump THEN <<p, q>> ELSE << >>, previous, Frame)
      BY <1>1 DEF JumpTo
    <2>2. SwitchToNewBasicBlock(IF jump THEN <<p, q>> ELSE << >>, previous, Frame)[r]
            = Taken({phi \in PhisOf(jump, p, q) : phi.node = r}, previous, r)
      BY ONLY <1>1, <1>2, JumpSetsPhis
    <2> QED  BY <2>1, <2>2
  <1>4. {phi \in PhisOf(jump, p, q) : phi.node = r} = {phi \in {p, q} : phi.node = r /\ Jumped(kind)}
    BY <1>1 DEF PhisOf
  <1>5. result[r] = Taken({phi \in {p, q} : phi.node = r /\ Jumped(kind)}, previous, r)
    BY <1>3, <1>4
  <1> QED  BY <1>5 DEF Taken

(* Whatever nodes read each other, each PHI node ends with the value its   *)
(* input had before the block was entered (SwitchToNewBasicBlock).         *)
THEOREM PhisTakeOldValues == Spec => []PhisAreParallel
  BY ResultsAreComputed, PhisOfState, PTL

-----------------------------------------------------------------------------
(* Compares of floats.                                                     *)

LEMMA CompareIsBoolean ==
    ASSUME NEW op \in {"==", "!=", "<", ">", "<=", ">="},
           NEW x \in Floats \cup {NaN}, NEW y \in Floats \cup {NaN}
    PROVE  CCompare(op, x, y) \in BOOLEAN
  <1>1. CASE Unordered(x, y)
    BY <1>1 DEF CCompare
  <1>2. CASE ~ Unordered(x, y)
    <2>1. x \in Int /\ y \in Int
      BY <1>2, FloatsAssumption DEF Unordered
    <2>2. CCompare("==", x, y) = (x = y) /\ CCompare("!=", x, y) = (x # y)
      BY <1>2, <2>1 DEF CCompare
    <2>3. CCompare("<", x, y) = (x < y) /\ CCompare(">", x, y) = (x > y)
      BY <1>2, <2>1 DEF CCompare
    <2>4. CCompare("<=", x, y) = (x <= y) /\ CCompare(">=", x, y) = (x >= y)
      BY <1>2, <2>1 DEF CCompare
    <2>5. (x < y) \in BOOLEAN /\ (x > y) \in BOOLEAN /\ (x <= y) \in BOOLEAN /\ (x >= y) \in BOOLEAN
      BY <2>1
    <2> QED  BY <2>2, <2>3, <2>4, <2>5
  <1> QED  BY <1>1, <1>2

Predicates ==
    {"FALSE", "OEQ", "OGT", "OGE", "OLT", "OLE", "ONE", "ORD",
     "UNO", "UEQ", "UGT", "UGE", "ULT", "ULE", "UNE", "TRUE"}

LEMMA PredicatesAreThese == Range(FCmpPredicates) = Predicates
  <1> PICK f : f = FCmpPredicates
    OBVIOUS
  <1>1. DOMAIN f = 1 .. 16
    BY DEF FCmpPredicates
  <1>2. \A i : i \in 1 .. 16 <=> i \in {1, 2, 3, 4, 5, 6, 7, 8, 9, 10, 11, 12, 13, 14, 15, 16}
    OBVIOUS
  <1>3. /\ f[1] = "FALSE" /\ f[2] = "OEQ" /\ f[3] = "OGT" /\ f[4] = "OGE"
        /\ f[5] = "OLT" /\ f[6] = "OLE" /\ f[7] = "ONE" /\ f[8] = "ORD"
        /\ f[9] = "UNO" /\ f[10] = "UEQ" /\ f[11] = "UGT" /\ f[12] = "UGE"
        /\ f[13] = "ULT" /\ f[14] = "ULE" /\ f[15] = "UNE" /\ f[16] = "TRUE"
    BY DEF FCmpPredicates
  <1>4. \A p : (\E i \in 1 .. 16 : p = f[i]) <=> p \in Predicates
    BY <1>2, <1>3 DEF Predicates
  <1>5. Range(f) = {f[i] : i \in DOMAIN f}
    BY DEF Range
  <1> QED  BY <1>1, <1>4, <1>5

(* A vector compare compares every lane.                                   *)
LEMMA LanesAreScalars ==
    ASSUME NEW p \in Predicates, NEW a \in FloatPairs, NEW b \in FloatPairs, NEW lane \in 1 .. 2
    PROVE  FCmpVector(p, a, b)[lane] = FCmpScalar(p, a[lane], b[lane])
  <1> PICK x : x = a[lane]
    OBVIOUS
  <1> PICK y : y = b[lane]
    OBVIOUS
  <1>0. /\ DOMAIN a = 1 .. 2 /\ lane \in DOMAIN a
        /\ x \in Floats \cup {NaN} /\ y \in Floats \cup {NaN}
    BY DEF FloatPairs, Vectors
  <1>1. CASE p \in {"FALSE", "TRUE", "ORD", "UNO"}
    <2>1. CASE p \in {"FALSE", "TRUE"}
      <3>1. FCmpVector(p, a, b) = [i \in DOMAIN a |-> p = "TRUE"]
        BY <2>1 DEF FCmpVector, UnorderedPredicates
      <3>2. FCmpScalar(p, x, y) = (p = "TRUE")
        BY <2>1 DEF FCmpScalar, UnorderedPredicates
      <3> QED  BY <1>0, <3>1, <3>2
    <2>2. CASE p = "ORD"
      <3>1. FCmpVector(p, a, b) = [i \in DOMAIN a |-> BothAreNumbers(a[i], b[i])]
        BY <2>2 DEF FCmpVector, UnorderedPredicates
      <3>2. FCmpScalar(p, x, y) = BothAreNumbers(x, y)
        BY <2>2 DEF FCmpScalar, UnorderedPredicates
      <3>3. [i \in DOMAIN a |-> BothAreNumbers(a[i], b[i])][lane] = BothAreNumbers(x, y)
        BY <1>0
      <3> QED  BY <3>1, <3>2, <3>3
    <2>3. CASE p = "UNO"
      <3>1. FCmpVector(p, a, b) = [i \in DOMAIN a |-> OneIsNaN(a[i], b[i])]
        BY <2>3 DEF FCmpVector, UnorderedPredicates
      <3>2. FCmpScalar(p, x, y) = OneIsNaN(x, y)
        BY <2>3 DEF FCmpScalar, UnorderedPredicates
      <3>3. [i \in DOMAIN a |-> OneIsNaN(a[i], b[i])][lane] = OneIsNaN(x, y)
        BY <1>0
      <3> QED  BY <3>1, <3>2, <3>3
    <2> QED  BY <1>1, <2>1, <2>2, <2>3
  <1>2. CASE p \in UnorderedPredicates
    <2>1. NaNMask(a, b, TRUE)[lane] = Unordered(x, y)
      BY <1>0 DEF NaNMask, Unordered
    <2>2. NaNMask(a, b, FALSE)[lane] = ~ Unordered(x, y)
      BY <1>0 DEF NaNMask, Unordered
    <2> PICK q : q = Ordered(p)
      OBVIOUS
    <2> PICK c : c = CCompare(COperator(q), x, y)
      OBVIOUS
    <2>3. COperator(q) \in {"==", "!=", "<", ">", "<=", ">="}
      BY <1>2 DEF UnorderedPredicates, Ordered, COperator
    <2>4. c \in BOOLEAN
      BY <1>0, <2>3, CompareIsBoolean
    <2>5. OrderedVector(q, a, b)[lane] = ((q = "ONE" => ~ Unordered(x, y)) /\ c)
      BY <1>0, <2>2 DEF OrderedVector
    <2>6. FCmpVector(p, a, b)[lane]
            = (Unordered(x, y) \/ ((q = "ONE" => ~ Unordered(x, y)) /\ c))
      BY <1>0, <1>2, <2>1, <2>5 DEF FCmpVector, UnorderedVector, UnorderedPredicates
    <2>7. FCmpScalar(p, x, y)
            = (Unordered(x, y) \/ (IF q = "ONE" /\ Unordered(x, y) THEN FALSE ELSE c))
      BY <1>2 DEF FCmpScalar, UnorderedScalar, OrderedScalar, UnorderedPredicates
    <2>8. Unordered(x, y) \in BOOLEAN
      BY DEF Unordered
    <2> QED  BY <2>4, <2>6, <2>7, <2>8
  <1>3. CASE p \notin UnorderedPredicates /\ p \notin {"FALSE", "TRUE", "ORD", "UNO"}
    <2>1. NaNMask(a, b, FALSE)[lane] = ~ Unordered(x, y)
      BY <1>0 DEF NaNMask, Unordered
    <2> PICK c : c = CCompare(COperator(p), x, y)
      OBVIOUS
    <2>2. COperator(p) \in {"==", "!=", "<", ">", "<=", ">="}
      BY <1>3 DEF UnorderedPredicates, Predicates, COperator
    <2>3. c \in BOOLEAN
      BY <1>0, <2>2, CompareIsBoolean
    <2>4. FCmpVector(p, a, b)[lane] = ((p = "ONE" => ~ Unordered(x, y)) /\ c)
      BY <1>0, <1>3, <2>1 DEF FCmpVector, OrderedVector
    <2>5. FCmpScalar(p, x, y) = IF p = "ONE" /\ Unordered(x, y) THEN FALSE ELSE c
      BY <1>3 DEF FCmpScalar, OrderedScalar
    <2>6. Unordered(x, y) \in BOOLEAN
      BY DEF Unordered
    <2> QED  BY <2>3, <2>4, <2>5, <2>6
  <1> QED  BY <1>1, <1>2, <1>3

LEMMA FloatCompares ==
    ASSUME ExecutionInv, Visited("FCmp")
    PROVE  /\ instruction.predicate \in Predicates
           /\ instruction.a \in FloatPairs /\ instruction.b \in FloatPairs
           /\ \A lane \in 1 .. 2 : result[lane]
                = FCmpScalar(instruction.predicate, instruction.a[lane], instruction.b[lane])
  <1>1. instruction \in FCmps
    BY Kinds
  <1>2. instruction.predicate \in Predicates /\ instruction.a \in FloatPairs /\ instruction.b \in FloatPairs
    BY <1>1, PredicatesAreThese DEF FCmps
  <1>3. result = FCmpVector(instruction.predicate, instruction.a, instruction.b)
    BY DEF ExecutionInv, ComputedByOperators
  <1> QED  BY <1>2, <1>3, LanesAreScalars

-----------------------------------------------------------------------------
(* Powers of two.                                                          *)

(* f has the powers up to n.                                               *)
Approximates(f, n) == \A k \in 0 .. n : f[k] = IF k = 0 THEN 1 ELSE 2 * f[k - 1]

LEMMA ApproximationExists ==
    ASSUME NEW n \in Nat  PROVE \E f : Approximates(f, n)
  <1> DEFINE T == {k \in 0 .. n : ~ \E f : Approximates(f, k)}
  <1> SUFFICES ASSUME T # {}  PROVE FALSE
    OBVIOUS
  <1>1. PICK m \in T : \A k \in T : m <= k
    <2>1. T \in SUBSET Nat
      OBVIOUS
    <2> HIDE DEF T
    <2> QED  BY <2>1, LeastNumber
  <1>2. m # 0
    <2>1. Approximates([i \in {0} |-> 1], 0)
      BY DEF Approximates
    <2> QED  BY <2>1
  <1> PICK k : k = m - 1
    OBVIOUS
  <1>3. k \in Nat /\ m = k + 1 /\ k \in 0 .. n /\ k \notin T
    BY <1>1, <1>2
  <1>4. PICK f : Approximates(f, k)
    BY <1>3
  <1> PICK g : g = [i \in 0 .. k + 1 |-> IF i = k + 1 THEN 2 * f[k] ELSE f[i]]
    OBVIOUS
  <1>5. \A i \in 0 .. k : g[i] = f[i]
    BY <1>3
  <1>6. g[k + 1] = 2 * f[k]
    BY <1>3
  <1>7. ASSUME NEW i \in 0 .. k + 1  PROVE g[i] = IF i = 0 THEN 1 ELSE 2 * g[i - 1]
    <2>1. CASE i = k + 1
      <3>1. i - 1 = k /\ k \in 0 .. k /\ i # 0
        BY <1>3, <2>1
      <3> QED  BY <1>5, <1>6, <2>1, <3>1
    <2>2. CASE i # k + 1
      <3>1. i \in 0 .. k /\ (i # 0 => i - 1 \in 0 .. k)
        BY <1>3, <2>2
      <3>2. f[i] = IF i = 0 THEN 1 ELSE 2 * f[i - 1]
        BY <1>4, <3>1 DEF Approximates
      <3> QED  BY <1>5, <3>1, <3>2
    <2> QED  BY <2>1, <2>2
  <1>8. Approximates(g, k + 1)
    BY <1>7 DEF Approximates
  <1> QED  BY <1>1, <1>3, <1>8

LEMMA ApproximationsAgree ==
    ASSUME NEW n \in Nat, NEW f, NEW g, Approximates(f, n), Approximates(g, n)
    PROVE  f[n] = g[n]
  <1> DEFINE T == {k \in 0 .. n : f[k] # g[k]}
  <1> SUFFICES ASSUME T # {}  PROVE FALSE
    OBVIOUS
  <1>1. PICK m \in T : \A k \in T : m <= k
    <2>1. T \in SUBSET Nat
      OBVIOUS
    <2> HIDE DEF T
    <2> QED  BY <2>1, LeastNumber
  <1>2. m \in 0 .. n /\ f[m] # g[m]
    BY <1>1
  <1>3. m # 0
    BY <1>2 DEF Approximates
  <1>4. m - 1 \in 0 .. n /\ m - 1 \notin T
    BY <1>1, <1>2, <1>3
  <1>5. f[m - 1] = g[m - 1]
    BY <1>4
  <1>6. f[m] = 2 * f[m - 1] /\ g[m] = 2 * g[m - 1]
    BY <1>2, <1>3 DEF Approximates
  <1> QED  BY <1>2, <1>5, <1>6

LEMMA PowersExist ==
    \E h : h = [n \in Nat |-> IF n = 0 THEN 1 ELSE 2 * h[n - 1]]
  <1> DEFINE value(n) == (CHOOSE f : Approximates(f, n))[n]
  <1> PICK h : h = [n \in Nat |-> value(n)]
    OBVIOUS
  <1>1. ASSUME NEW n \in Nat, NEW f, Approximates(f, n)  PROVE h[n] = f[n]
    <2>1. Approximates(CHOOSE e : Approximates(e, n), n)
      BY <1>1
    <2>2. (CHOOSE e : Approximates(e, n))[n] = f[n]
      BY <1>1, <2>1, ApproximationsAgree
    <2> QED  BY <2>2
  <1>2. DOMAIN h = Nat /\ h = [n \in Nat |-> h[n]]
    OBVIOUS
  <1> HIDE DEF value
  <1>3. ASSUME NEW n \in Nat  PROVE h[n] = IF n = 0 THEN 1 ELSE 2 * h[n - 1]
    <2>1. PICK f : Approximates(f, n)
      BY ApproximationExists
    <2>2. h[n] = f[n] /\ f[n] = IF n = 0 THEN 1 ELSE 2 * f[n - 1]
      BY <1>1, <2>1 DEF Approximates
    <2>3. CASE n # 0
      <3>1. n - 1 \in Nat
        BY <2>3
      <3>2. Approximates(f, n - 1)
        BY <2>1, <2>3 DEF Approximates
      <3>3. h[n - 1] = f[n - 1]
        BY <1>1, <3>1, <3>2
      <3> QED  BY <2>2, <2>3, <3>3
    <2> QED  BY <2>2, <2>3
  <1> QED  BY <1>2, <1>3

LEMMA PowersAre ==
    /\ Pow2[0] = 1
    /\ \A n \in Nat : Pow2[n + 1] = 2 * Pow2[n]
  <1>1. Pow2 = [n \in Nat |-> IF n = 0 THEN 1 ELSE 2 * Pow2[n - 1]]
    <2> DEFINE h == CHOOSE h : h = [n \in Nat |-> IF n = 0 THEN 1 ELSE 2 * h[n - 1]]
    <2>1. h = [n \in Nat |-> IF n = 0 THEN 1 ELSE 2 * h[n - 1]]
      BY PowersExist
    <2>2. Pow2 = h
      BY DEF Pow2
    <2> HIDE DEF h
    <2> QED  BY <2>1, <2>2
  <1>2. Pow2[0] = 1
    BY <1>1
  <1>3. ASSUME NEW n \in Nat  PROVE Pow2[n + 1] = 2 * Pow2[n]
    <2>1. n + 1 \in Nat /\ n + 1 # 0 /\ (n + 1) - 1 = n
      OBVIOUS
    <2> QED  BY <1>1, <2>1
  <1> QED  BY <1>2, <1>3

LEMMA PowersArePositive ==
    ASSUME NEW n \in Nat  PROVE Pow2[n] \in Nat \ {0}
  <1> DEFINE T == {k \in Nat : Pow2[k] \notin Nat \ {0}}
  <1> SUFFICES ASSUME T # {}  PROVE FALSE
    OBVIOUS
  <1>1. PICK m \in T : \A k \in T : m <= k
    <2>1. T \in SUBSET Nat
      OBVIOUS
    <2> HIDE DEF T
    <2> QED  BY <2>1, LeastNumber
  <1>2. m \in Nat /\ Pow2[m] \notin Nat \ {0}
    BY <1>1
  <1>3. m # 0
    BY <1>2, PowersAre
  <1>4. m - 1 \in Nat /\ m - 1 \notin T /\ (m - 1) + 1 = m
    BY <1>1, <1>2, <1>3
  <1>5. Pow2[m - 1] \in Nat \ {0}
    BY <1>4
  <1>6. Pow2[m] = 2 * Pow2[m - 1]
    BY <1>4, PowersAre
  <1> QED  BY <1>2, <1>5, <1>6

LEMMA SmallPowers ==
    Pow2[0] = 1 /\ Pow2[1] = 2 /\ Pow2[2] = 4 /\ Pow2[3] = 8 /\ Pow2[4] = 16
  <1>1. Pow2[0 + 1] = 2 * Pow2[0]
    BY PowersAre
  <1>2. Pow2[1 + 1] = 2 * Pow2[1]
    BY PowersAre
  <1>3. Pow2[2 + 1] = 2 * Pow2[2]
    BY PowersAre
  <1>4. Pow2[3 + 1] = 2 * Pow2[3]
    BY PowersAre
  <1> QED  BY <1>1, <1>2, <1>3, <1>4, PowersAre

LEMMA HalfPower ==
    ASSUME NEW w \in Nat \ {0}
    PROVE  /\ w - 1 \in Nat
           /\ Pow2[w - 1] \in Nat \ {0}
           /\ Pow2[w] = 2 * Pow2[w - 1]
  <1>1. w - 1 \in Nat /\ (w - 1) + 1 = w
    OBVIOUS
  <1> QED  BY <1>1, PowersAre, PowersArePositive

(* Powers of sums.                                                         *)
LEMMA PowerOfSum ==
    ASSUME NEW m \in Nat, NEW n \in Nat
    PROVE  Pow2[m + n] = Pow2[m] * Pow2[n]
  <1> DEFINE T == {k \in Nat : Pow2[m + k] # Pow2[m] * Pow2[k]}
  <1> SUFFICES ASSUME T # {}  PROVE FALSE
    OBVIOUS
  <1>1. PICK k \in T : \A j \in T : k <= j
    <2>1. T \in SUBSET Nat
      OBVIOUS
    <2> HIDE DEF T
    <2> QED  BY <2>1, LeastNumber
  <1>2. k \in Nat /\ Pow2[m + k] # Pow2[m] * Pow2[k]
    BY <1>1
  <1>3. Pow2[m] \in Nat \ {0}
    BY PowersArePositive
  <1>4. k # 0
    <2>1. m + 0 = m
      OBVIOUS
    <2> QED  BY <1>2, <1>3, <2>1, PowersAre
  <1> PICK j : j = k - 1
    OBVIOUS
  <1>5. j \in Nat /\ j \notin T /\ k = j + 1
    BY <1>1, <1>2, <1>4
  <1>6. Pow2[m + j] = Pow2[m] * Pow2[j]
    BY <1>5
  <1>7. m + j \in Nat /\ m + k = (m + j) + 1
    BY <1>5
  <1>8. Pow2[m + k] = 2 * Pow2[m + j] /\ Pow2[k] = 2 * Pow2[j]
    BY <1>5, <1>7, PowersAre
  <1>9. Pow2[j] \in Nat
    BY <1>5, PowersArePositive
  <1>10. \A a, b \in Nat : 2 * (a * b) = a * (2 * b)
    OBVIOUS
  <1> QED  BY <1>2, <1>3, <1>6, <1>8, <1>9, <1>10

LEMMA PowersGrow ==
    ASSUME NEW m \in Nat, NEW n \in Nat, m <= n
    PROVE  n - m \in Nat /\ Pow2[n] = Pow2[m] * Pow2[n - m] /\ Pow2[m] <= Pow2[n]
  <1>1. n - m \in Nat /\ m + (n - m) = n
    OBVIOUS
  <1>2. Pow2[n] = Pow2[m] * Pow2[n - m]
    BY <1>1, PowerOfSum
  <1>3. Pow2[m] \in Nat \ {0} /\ Pow2[n - m] \in Nat \ {0}
    BY <1>1, PowersArePositive
  <1>4. \A a, b \in Nat \ {0} : a <= a * b
    <2> TAKE a, b \in Nat \ {0}
    <2>1. a * b = a + a * (b - 1)
      OBVIOUS
    <2>2. a * (b - 1) \in Nat
      OBVIOUS
    <2> QED  BY <2>1, <2>2
  <1> QED  BY <1>1, <1>2, <1>3, <1>4

-----------------------------------------------------------------------------
(* Compares and their predicates.                                          *)

(* The predicates that are true of an outcome.                             *)
TrueOf(outcome) ==
    CASE outcome = 0 -> {"OEQ", "OGE", "OLE", "ORD", "UEQ", "UGE", "ULE", "TRUE"}
      [] outcome = 1 -> {"OGT", "OGE", "ONE", "ORD", "UGT", "UGE", "UNE", "TRUE"}
      [] outcome = 2 -> {"OLT", "OLE", "ONE", "ORD", "ULT", "ULE", "UNE", "TRUE"}
      [] outcome = 3 -> {"UNO", "UEQ", "UGT", "UGE", "ULT", "ULE", "UNE", "TRUE"}

LEMMA CodesArePlaces ==
    /\ FCmpCode("FALSE") = 0 /\ FCmpCode("OEQ") = 1 /\ FCmpCode("OGT") = 2 /\ FCmpCode("OGE") = 3
    /\ FCmpCode("OLT") = 4 /\ FCmpCode("OLE") = 5 /\ FCmpCode("ONE") = 6 /\ FCmpCode("ORD") = 7
    /\ FCmpCode("UNO") = 8 /\ FCmpCode("UEQ") = 9 /\ FCmpCode("UGT") = 10 /\ FCmpCode("UGE") = 11
    /\ FCmpCode("ULT") = 12 /\ FCmpCode("ULE") = 13 /\ FCmpCode("UNE") = 14 /\ FCmpCode("TRUE") = 15
  <1> PICK f : f = FCmpPredicates
    OBVIOUS
  <1>1. /\ f[1] = "FALSE" /\ f[2] = "OEQ" /\ f[3] = "OGT" /\ f[4] = "OGE"
        /\ f[5] = "OLT" /\ f[6] = "OLE" /\ f[7] = "ONE" /\ f[8] = "ORD"
        /\ f[9] = "UNO" /\ f[10] = "UEQ" /\ f[11] = "UGT" /\ f[12] = "UGE"
        /\ f[13] = "ULT" /\ f[14] = "ULE" /\ f[15] = "UNE" /\ f[16] = "TRUE"
    BY DEF FCmpPredicates
  <1>2. \A i \in 1 .. 16 : i \in {1, 2, 3, 4, 5, 6, 7, 8, 9, 10, 11, 12, 13, 14, 15, 16}
    OBVIOUS
  <1>3. \A i, k \in 1 .. 16 : f[i] = f[k] => i = k
    BY <1>1, <1>2
  <1>4. \A k \in 1 .. 16 : FCmpCode(f[k]) = k - 1
    <2> TAKE k \in 1 .. 16
    <2>1. (CHOOSE c \in 1 .. 16 : f[c] = f[k]) = k
      BY <1>3
    <2> QED  BY <2>1 DEF FCmpCode
  <1>5. \A k \in {1, 2, 3, 4, 5, 6, 7, 8, 9, 10, 11, 12, 13, 14, 15, 16} : FCmpCode(f[k]) = k - 1
    BY <1>4
  <1> QED  BY <1>1, <1>5

(* Bits of small numbers.                                                  *)
LEMMA SmallBits ==
    ASSUME NEW n \in 0 .. 15
    PROVE  /\ HasBit(n, 0) = (n \in {1, 3, 5, 7, 9, 11, 13, 15})
           /\ HasBit(n, 1) = (n \in {2, 3, 6, 7, 10, 11, 14, 15})
           /\ HasBit(n, 2) = (n \in {4, 5, 6, 7, 12, 13, 14, 15})
           /\ HasBit(n, 3) = (n \in {8, 9, 10, 11, 12, 13, 14, 15})
  BY SmallPowers DEF HasBit

LEMMA CodesAreOutcomes ==
    ASSUME NEW p \in Predicates, NEW outcome \in 0 .. 3
    PROVE  HasBit(FCmpCode(p), outcome) = (p \in TrueOf(outcome))
  <1>1. FCmpCode(p) \in 0 .. 15
    BY CodesArePlaces DEF Predicates
  <1>2. CASE outcome = 0
    BY <1>1, <1>2, SmallBits, CodesArePlaces DEF TrueOf, Predicates
  <1>3. CASE outcome = 1
    BY <1>1, <1>3, SmallBits, CodesArePlaces DEF TrueOf, Predicates
  <1>4. CASE outcome = 2
    BY <1>1, <1>4, SmallBits, CodesArePlaces DEF TrueOf, Predicates
  <1>5. CASE outcome = 3
    BY <1>1, <1>5, SmallBits, CodesArePlaces DEF TrueOf, Predicates
  <1> QED  BY <1>2, <1>3, <1>4, <1>5

LEMMA Operators ==
    /\ COperator("OEQ") = "==" /\ COperator("ONE") = "!=" /\ COperator("OLT") = "<"
    /\ COperator("OGT") = ">" /\ COperator("OLE") = "<=" /\ COperator("OGE") = ">="
  BY DEF COperator

(* What the six operators say of an outcome.                               *)
Table(o, eq, ne, lt, gt, le, ge) ==
    /\ eq = (o = 0)
    /\ ne = (o # 0)
    /\ lt = (o = 2)
    /\ gt = (o = 1)
    /\ le = (o = 0 \/ o = 2)
    /\ ge = (o = 0 \/ o = 1)

LEMMA Tables ==
    /\ Table(0, TRUE, FALSE, FALSE, FALSE, TRUE, TRUE)
    /\ Table(1, FALSE, TRUE, FALSE, TRUE, FALSE, TRUE)
    /\ Table(2, FALSE, TRUE, TRUE, FALSE, TRUE, FALSE)
    /\ Table(3, FALSE, TRUE, FALSE, FALSE, FALSE, FALSE)
  BY DEF Table

LEMMA OperatorsCompare ==
    ASSUME NEW x \in Floats \cup {NaN}, NEW y \in Floats \cup {NaN}
    PROVE  /\ Outcome(x, y) \in 0 .. 3
           /\ Unordered(x, y) = (Outcome(x, y) = 3)
           /\ Table(Outcome(x, y), CCompare("==", x, y), CCompare("!=", x, y),
                    CCompare("<", x, y), CCompare(">", x, y),
                    CCompare("<=", x, y), CCompare(">=", x, y))
  <1>1. CASE Unordered(x, y)
    <2>1. Outcome(x, y) = 3
      BY <1>1 DEF Outcome
    <2>2. Unordered(x, y) = TRUE
      BY <1>1 DEF Unordered
    <2>3. /\ CCompare("==", x, y) = FALSE /\ CCompare("!=", x, y) = TRUE
          /\ CCompare("<", x, y) = FALSE /\ CCompare(">", x, y) = FALSE
          /\ CCompare("<=", x, y) = FALSE /\ CCompare(">=", x, y) = FALSE
      BY <1>1 DEF CCompare
    <2>4. (Outcome(x, y) = 3) = TRUE /\ Outcome(x, y) \in 0 .. 3
      BY <2>1
    <2>5. Table(Outcome(x, y), CCompare("==", x, y), CCompare("!=", x, y),
                CCompare("<", x, y), CCompare(">", x, y), CCompare("<=", x, y), CCompare(">=", x, y))
      BY ONLY <2>1, <2>3, Tables, Zenon
    <2> QED  BY <2>2, <2>4, <2>5
  <1>2. CASE ~ Unordered(x, y)
    <2>1. x \in Int /\ y \in Int
      BY <1>2, FloatsAssumption DEF Unordered
    <2>2. CCompare("==", x, y) = (x = y) /\ CCompare("!=", x, y) = (x # y)
      BY <1>2, <2>1 DEF CCompare
    <2>3. CCompare("<", x, y) = (x < y) /\ CCompare(">", x, y) = (x > y)
      BY <1>2, <2>1 DEF CCompare
    <2>4. CCompare("<=", x, y) = (x <= y) /\ CCompare(">=", x, y) = (x >= y)
      BY <1>2, <2>1 DEF CCompare
    <2>5. Outcome(x, y) = IF x = y THEN 0 ELSE IF x > y THEN 1 ELSE 2
      BY <1>2 DEF Outcome
    <2>6. Unordered(x, y) = FALSE
      BY <1>2 DEF Unordered
    <2>7. CASE x = y
      <3>1. /\ (x = y) = TRUE /\ (x # y) = FALSE /\ (x < y) = FALSE /\ (x > y) = FALSE
            /\ (x <= y) = TRUE /\ (x >= y) = TRUE /\ Outcome(x, y) = 0
        BY <2>1, <2>5, <2>7
      <3>2. Table(Outcome(x, y), CCompare("==", x, y), CCompare("!=", x, y),
                  CCompare("<", x, y), CCompare(">", x, y), CCompare("<=", x, y),
                  CCompare(">=", x, y))
        BY ONLY <2>2, <2>3, <2>4, <3>1, Tables, Zenon
      <3>3. (Outcome(x, y) = 3) = FALSE /\ Outcome(x, y) \in 0 .. 3
        BY <3>1
      <3> QED  BY <2>6, <3>2, <3>3
    <2>8. CASE x > y
      <3>1. /\ (x = y) = FALSE /\ (x # y) = TRUE /\ (x < y) = FALSE /\ (x > y) = TRUE
            /\ (x <= y) = FALSE /\ (x >= y) = TRUE /\ Outcome(x, y) = 1
        BY <2>1, <2>5, <2>8
      <3>2. Table(Outcome(x, y), CCompare("==", x, y), CCompare("!=", x, y),
                  CCompare("<", x, y), CCompare(">", x, y), CCompare("<=", x, y),
                  CCompare(">=", x, y))
        BY ONLY <2>2, <2>3, <2>4, <3>1, Tables, Zenon
      <3>3. (Outcome(x, y) = 3) = FALSE /\ Outcome(x, y) \in 0 .. 3
        BY <3>1
      <3> QED  BY <2>6, <3>2, <3>3
    <2>9. CASE x < y
      <3>1. /\ (x = y) = FALSE /\ (x # y) = TRUE /\ (x < y) = TRUE /\ (x > y) = FALSE
            /\ (x <= y) = TRUE /\ (x >= y) = FALSE /\ Outcome(x, y) = 2
        BY <2>1, <2>5, <2>9
      <3>2. Table(Outcome(x, y), CCompare("==", x, y), CCompare("!=", x, y),
                  CCompare("<", x, y), CCompare(">", x, y), CCompare("<=", x, y),
                  CCompare(">=", x, y))
        BY ONLY <2>2, <2>3, <2>4, <3>1, Tables, Zenon
      <3>3. (Outcome(x, y) = 3) = FALSE /\ Outcome(x, y) \in 0 .. 3
        BY <3>1
      <3> QED  BY <2>6, <3>2, <3>3
    <2> QED  BY <2>1, <2>7, <2>8, <2>9
  <1> QED  BY <1>1, <1>2

LEMMA ScalarsFollow ==
    ASSUME NEW p \in Predicates, NEW x \in Floats \cup {NaN}, NEW y \in Floats \cup {NaN}
    PROVE  FCmpScalar(p, x, y) = (p \in TrueOf(Outcome(x, y)))
  <1> PICK o : o = Outcome(x, y)
    OBVIOUS
  <1>1. /\ o \in 0 .. 3
        /\ Unordered(x, y) = (o = 3)
        /\ Table(o, CCompare("==", x, y), CCompare("!=", x, y), CCompare("<", x, y),
                 CCompare(">", x, y), CCompare("<=", x, y), CCompare(">=", x, y))
    BY OperatorsCompare
  <1>2. \A q \in {"OEQ", "OGT", "OGE", "OLT", "OLE", "ONE"} :
            OrderedScalar(q, x, y) = (q \in TrueOf(o))
    <2>1. /\ OrderedScalar("OEQ", x, y) = CCompare("==", x, y)
          /\ OrderedScalar("OGT", x, y) = CCompare(">", x, y)
          /\ OrderedScalar("OGE", x, y) = CCompare(">=", x, y)
          /\ OrderedScalar("OLT", x, y) = CCompare("<", x, y)
          /\ OrderedScalar("OLE", x, y) = CCompare("<=", x, y)
          /\ OrderedScalar("ONE", x, y) = IF o = 3 THEN FALSE ELSE CCompare("!=", x, y)
      BY <1>1, Operators DEF OrderedScalar
    <2>2. CASE o = 0
      BY <1>1, <2>1, <2>2 DEF Table, TrueOf
    <2>3. CASE o = 1
      BY <1>1, <2>1, <2>3 DEF Table, TrueOf
    <2>4. CASE o = 2
      BY <1>1, <2>1, <2>4 DEF Table, TrueOf
    <2>5. CASE o = 3
      <3>1. TrueOf(o) \cap {"OEQ", "OGT", "OGE", "OLT", "OLE", "ONE"} = {}
        BY <2>5 DEF TrueOf
      <3>2. \A q \in {"OEQ", "OGT", "OGE", "OLT", "OLE"} : OrderedScalar(q, x, y) = FALSE
        <4>1. /\ CCompare("==", x, y) = FALSE /\ CCompare("<", x, y) = FALSE
              /\ CCompare(">", x, y) = FALSE /\ CCompare("<=", x, y) = FALSE
              /\ CCompare(">=", x, y) = FALSE
          <5>1. Table(3, CCompare("==", x, y), CCompare("!=", x, y), CCompare("<", x, y),
                      CCompare(">", x, y), CCompare("<=", x, y), CCompare(">=", x, y))
            BY <1>1, <2>5
          <5>2. /\ (3 = 0) = FALSE /\ (3 = 1) = FALSE /\ (3 = 2) = FALSE
                /\ (3 = 0 \/ 3 = 2) = FALSE /\ (3 = 0 \/ 3 = 1) = FALSE
            OBVIOUS
          <5> QED  BY <5>1, <5>2, Zenon DEF Table
        <4> QED  BY <2>1, <4>1
      <3>3. OrderedScalar("ONE", x, y) = FALSE
        BY <2>1, <2>5
      <3>4. \A q \in {"OEQ", "OGT", "OGE", "OLT", "OLE", "ONE"} :
               OrderedScalar(q, x, y) = FALSE /\ (q \in TrueOf(o)) = FALSE
        BY <3>1, <3>2, <3>3
      <3> QED  BY <3>4
    <2> QED  BY <1>1, <2>2, <2>3, <2>4, <2>5
  <1>3. CASE p \in {"OEQ", "OGT", "OGE", "OLT", "OLE", "ONE"}
    BY <1>2, <1>3 DEF FCmpScalar, UnorderedPredicates
  <1>4. CASE p \in UnorderedPredicates
    <2>1. FCmpScalar(p, x, y) = ((o = 3) \/ OrderedScalar(Ordered(p), x, y))
      BY <1>1, <1>4 DEF FCmpScalar, UnorderedScalar, UnorderedPredicates
    <2>2. Ordered(p) \in {"OEQ", "OGT", "OGE", "OLT", "OLE", "ONE"}
      BY <1>4 DEF Ordered, UnorderedPredicates
    <2>3. OrderedScalar(Ordered(p), x, y) = (Ordered(p) \in TrueOf(o))
      BY <1>2, <2>2
    <2>4. (p \in TrueOf(o)) = (o = 3 \/ Ordered(p) \in TrueOf(o))
      BY <1>1, <1>4 DEF Ordered, UnorderedPredicates, TrueOf
    <2> QED  BY <2>1, <2>3, <2>4
  <1>5. CASE p \in {"FALSE", "TRUE"}
    <2>1. FCmpScalar(p, x, y) = (p = "TRUE")
      BY <1>5 DEF FCmpScalar, UnorderedPredicates
    <2> QED  BY <1>1, <1>5, <2>1 DEF TrueOf
  <1>6. CASE p \in {"ORD", "UNO"}
    <2>1. /\ CCompare("==", x, x) = (~ Unordered(x, x)) /\ CCompare("==", y, y) = (~ Unordered(y, y))
          /\ CCompare("!=", x, x) = Unordered(x, x) /\ CCompare("!=", y, y) = Unordered(y, y)
      BY DEF CCompare, Unordered
    <2>2. Unordered(x, y) = (Unordered(x, x) \/ Unordered(y, y))
      BY DEF Unordered
    <2>3. FCmpScalar("ORD", x, y) = (o # 3) /\ FCmpScalar("UNO", x, y) = (o = 3)
      BY <1>1, <2>1, <2>2 DEF FCmpScalar, BothAreNumbers, OneIsNaN, UnorderedPredicates
    <2> QED  BY <1>1, <1>6, <2>3 DEF TrueOf
  <1> QED  BY <1>3, <1>4, <1>5, <1>6 DEF Predicates, UnorderedPredicates

LEMMA SmallRemainders ==
    ASSUME NEW m \in Nat \ {0}
    PROVE  /\ \A a \in 0 .. m - 1 : a % m = a
           /\ \A a \in m .. 2 * m - 1 : a % m = a - m
           /\ \A a \in - m .. - 1 : a % m = a + m
  OBVIOUS

(* A number, read with a sign, and with its sign bit flipped.              *)
LEMMA SignFacts ==
    ASSUME NEW w \in Nat \ {0}, NEW x \in Ints(w)
    PROVE  /\ Signed(x, w) \in - Pow2[w - 1] .. Pow2[w - 1] - 1
           /\ FlipSign(x, w) = Signed(x, w) + Pow2[w - 1]
           /\ Signed(x, w) = IF x >= Pow2[w - 1] THEN x - Pow2[w] ELSE x
  <1> PICK h : h = Pow2[w - 1]
    OBVIOUS
  <1>1. h \in Nat \ {0} /\ Pow2[w] = 2 * h
    BY HalfPower
  <1>2. x \in 0 .. 2 * h - 1
    BY <1>1 DEF Ints
  <1>3. Signed(x, w) = IF x >= h THEN x - 2 * h ELSE x
    BY <1>1 DEF Signed
  <1>4. FlipSign(x, w) = (x + h) % (2 * h)
    BY <1>1 DEF FlipSign
  <1>5. (x + h) % (2 * h) = IF x >= h THEN x - h ELSE x + h
    <2> PICK m \in Nat \ {0} : m = 2 * h
      BY <1>1
    <2>1. CASE x >= h
      <3>1. x + h \in m .. 2 * m - 1
        BY <1>1, <1>2, <2>1
      <3>2. (x + h) % m = (x + h) - m
        BY <3>1, SmallRemainders
      <3> QED  BY <1>1, <1>2, <2>1, <3>2
    <2>2. CASE ~ x >= h
      <3>1. x + h \in 0 .. m - 1
        BY <1>1, <1>2, <2>2
      <3>2. (x + h) % m = x + h
        BY <3>1, SmallRemainders
      <3> QED  BY <1>1, <1>2, <2>2, <3>2
    <2> QED  BY <2>1, <2>2
  <1> QED  BY <1>1, <1>2, <1>3, <1>4, <1>5

(* Integers are not NaN, so three outcomes are left.                       *)
LEMMA IntegersCompare ==
    ASSUME NEW x \in Int, NEW y \in Int
    PROVE  /\ Outcome(x, y) \in 0 .. 2
           /\ Table(Outcome(x, y), x = y, x # y, x < y, x > y, x <= y, x >= y)
  <1>1. Outcome(x, y) = IF x = y THEN 0 ELSE IF x > y THEN 1 ELSE 2
    BY NaNAssumption DEF Outcome, Unordered
  <1>2. CASE x = y
    <2>1. /\ (x = y) = TRUE /\ (x # y) = FALSE /\ (x < y) = FALSE /\ (x > y) = FALSE
          /\ (x <= y) = TRUE /\ (x >= y) = TRUE /\ Outcome(x, y) = 0
      BY <1>1, <1>2
    <2>2. Table(Outcome(x, y), x = y, x # y, x < y, x > y, x <= y, x >= y)
      BY ONLY <2>1, Tables, Zenon
    <2> QED  BY <2>1, <2>2
  <1>3. CASE x > y
    <2>1. /\ (x = y) = FALSE /\ (x # y) = TRUE /\ (x < y) = FALSE /\ (x > y) = TRUE
          /\ (x <= y) = FALSE /\ (x >= y) = TRUE /\ Outcome(x, y) = 1
      BY <1>1, <1>3
    <2>2. Table(Outcome(x, y), x = y, x # y, x < y, x > y, x <= y, x >= y)
      BY ONLY <2>1, Tables, Zenon
    <2> QED  BY <2>1, <2>2
  <1>4. CASE x < y
    <2>1. /\ (x = y) = FALSE /\ (x # y) = TRUE /\ (x < y) = TRUE /\ (x > y) = FALSE
          /\ (x <= y) = TRUE /\ (x >= y) = FALSE /\ Outcome(x, y) = 2
      BY <1>1, <1>4
    <2>2. Table(Outcome(x, y), x = y, x # y, x < y, x > y, x <= y, x >= y)
      BY ONLY <2>1, Tables, Zenon
    <2> QED  BY <2>1, <2>2
  <1> QED  BY <1>2, <1>3, <1>4

LEMMA CodesAreTables ==
    ASSUME NEW o \in 0 .. 2
    PROVE  Table(o, HasBit(1, o), HasBit(6, o), HasBit(4, o), HasBit(2, o), HasBit(5, o), HasBit(3, o))
  <1>1. CASE o = 0
    BY <1>1, SmallBits DEF Table
  <1>2. CASE o = 1
    BY <1>2, SmallBits DEF Table
  <1>3. CASE o = 2
    BY <1>3, SmallBits DEF Table
  <1> QED  BY <1>1, <1>2, <1>3

LEMMA CodesCompare ==
    ASSUME NEW x \in Int, NEW y \in Int
    PROVE  LET o == Outcome(x, y)
           IN  /\ (x = y) = HasBit(1, o) /\ (x # y) = HasBit(6, o)
               /\ (x < y) = HasBit(4, o) /\ (x > y) = HasBit(2, o)
               /\ (x <= y) = HasBit(5, o) /\ (x >= y) = HasBit(3, o)
  <1> PICK o : o = Outcome(x, y)
    OBVIOUS
  <1>1. o \in 0 .. 2 /\ Table(o, x = y, x # y, x < y, x > y, x <= y, x >= y)
    BY IntegersCompare
  <1>2. Table(o, HasBit(1, o), HasBit(6, o), HasBit(4, o), HasBit(2, o), HasBit(5, o), HasBit(3, o))
    BY <1>1, CodesAreTables
  <1>3. /\ (x = y) = HasBit(1, o) /\ (x # y) = HasBit(6, o)
        /\ (x < y) = HasBit(4, o) /\ (x > y) = HasBit(2, o)
        /\ (x <= y) = HasBit(5, o) /\ (x >= y) = HasBit(3, o)
    BY ONLY <1>1, <1>2, Zenon DEF Table
  <1> QED  BY <1>3

(* A compare orders its operands as they are, or with their signs.         *)
LEMMA CompareMeaning ==
    ASSUME NEW type, NEW op \in ICmpOps, NEW w, NEW x, NEW y, NEW a \in Int, NEW b \in Int,
           a = IF type = "integer" /\ op \in SignedPredicates THEN Signed(x, w) ELSE x,
           b = IF type = "integer" /\ op \in SignedPredicates THEN Signed(y, w) ELSE y
    PROVE  ICmp(type, op, x, y, w) = HasBit(ICmpCode[op], Outcome(a, b))
  <1> PICK o : o = Outcome(a, b)
    OBVIOUS
  <1>1. /\ (a = b) = HasBit(1, o) /\ (a # b) = HasBit(6, o)
        /\ (a < b) = HasBit(4, o) /\ (a > b) = HasBit(2, o)
        /\ (a <= b) = HasBit(5, o) /\ (a >= b) = HasBit(3, o)
    BY CodesCompare
  <1> PICK c : c = ICmp(type, op, x, y, w)
    OBVIOUS
  <1>2. c = CASE op = "EQ" -> a = b
              [] op = "NE" -> a # b
              [] op \in {"ULT", "SLT"} -> a < b
              [] op \in {"ULE", "SLE"} -> a <= b
              [] op \in {"UGT", "SGT"} -> a > b
              [] op \in {"UGE", "SGE"} -> a >= b
    BY DEF ICmp
  <1>3. /\ op = "EQ" => c = (a = b)
        /\ op = "NE" => c = (a # b)
        /\ op \in {"ULT", "SLT"} => c = (a < b)
        /\ op \in {"ULE", "SLE"} => c = (a <= b)
        /\ op \in {"UGT", "SGT"} => c = (a > b)
        /\ op \in {"UGE", "SGE"} => c = (a >= b)
    BY <1>2
  <1>4. /\ op = "EQ" => ICmpCode[op] = 1
        /\ op = "NE" => ICmpCode[op] = 6
        /\ op \in {"ULT", "SLT"} => ICmpCode[op] = 4
        /\ op \in {"ULE", "SLE"} => ICmpCode[op] = 5
        /\ op \in {"UGT", "SGT"} => ICmpCode[op] = 2
        /\ op \in {"UGE", "SGE"} => ICmpCode[op] = 3
    BY DEF ICmpCode
  <1>5. op \in {"EQ", "NE"} \cup {"ULT", "SLT"} \cup {"ULE", "SLE"} \cup {"UGT", "SGT"} \cup {"UGE", "SGE"}
    BY DEF ICmpOps
  <1>6. c = HasBit(ICmpCode[op], o)
    <2>1. CASE op \in {"EQ", "NE"}
      BY <1>1, <1>3, <1>4, <2>1
    <2>2. CASE op \in {"ULT", "SLT"}
      BY <1>1, <1>3, <1>4, <2>2
    <2>3. CASE op \in {"ULE", "SLE"}
      BY <1>1, <1>3, <1>4, <2>3
    <2>4. CASE op \in {"UGT", "SGT"}
      BY <1>1, <1>3, <1>4, <2>4
    <2>5. CASE op \in {"UGE", "SGE"}
      BY <1>1, <1>3, <1>4, <2>5
    <2> QED  BY <1>5, <2>1, <2>2, <2>3, <2>4, <2>5
  <1> QED  BY <1>6

(* Signs order numbers as flipped sign bits do.                            *)
LEMMA FlippingOrders ==
    ASSUME NEW w \in Nat \ {0}, NEW x \in Ints(w), NEW y \in Ints(w)
    PROVE  /\ Signed(x, w) \in Int /\ Signed(y, w) \in Int
           /\ Outcome(Signed(x, w), Signed(y, w)) = Outcome(FlipSign(x, w), FlipSign(y, w))
  <1> PICK s : s = Signed(x, w)
    OBVIOUS
  <1> PICK t : t = Signed(y, w)
    OBVIOUS
  <1> PICK a : a = FlipSign(x, w)
    OBVIOUS
  <1> PICK b : b = FlipSign(y, w)
    OBVIOUS
  <1> PICK h : h = Pow2[w - 1]
    OBVIOUS
  <1>1. h \in Nat /\ s \in Int /\ t \in Int /\ a = s + h /\ b = t + h
    <2>1. h \in Nat
      BY HalfPower
    <2> QED  BY <2>1, SignFacts
  <1>2. (a = b) = (s = t) /\ (a > b) = (s > t)
    BY <1>1
  <1>3. ~ Unordered(a, b) /\ ~ Unordered(s, t)
    BY <1>1, NaNAssumption DEF Unordered
  <1>4. Outcome(s, t) = Outcome(a, b)
    BY <1>2, <1>3 DEF Outcome
  <1> QED  BY <1>1, <1>4

LEMMA IntegersFollow ==
    ASSUME NEW w \in Nat \ {0}, NEW x \in Ints(w), NEW y \in Ints(w), NEW op \in ICmpOps, NEW type
    PROVE  ICmp(type, op, x, y, w) =
               LET side(v) == IF type = "integer" /\ op \in SignedPredicates THEN FlipSign(v, w) ELSE v
               IN  HasBit(ICmpCode[op], Outcome(side(x), side(y)))
  <1>1. x \in Int /\ y \in Int
    <2>1. Pow2[w] \in Nat
      BY PowersArePositive
    <2> QED  BY <2>1 DEF Ints
  <1>2. CASE type = "integer" /\ op \in SignedPredicates
    <2>1. ICmp(type, op, x, y, w) = HasBit(ICmpCode[op], Outcome(Signed(x, w), Signed(y, w)))
      BY <1>2, FlippingOrders, CompareMeaning
    <2> QED  BY <1>2, <2>1, FlippingOrders
  <1>3. CASE ~ (type = "integer" /\ op \in SignedPredicates)
    <2>1. ICmp(type, op, x, y, w) = HasBit(ICmpCode[op], Outcome(x, y))
      BY <1>1, <1>3, CompareMeaning
    <2> QED  BY <1>3, <2>1
  <1> QED  BY <1>2, <1>3

LEMMA CompareOperands ==
    ASSUME NEW i \in ICmps
    PROVE  /\ i.width \in Nat \ {0} /\ i.x \in Ints(i.width) /\ i.y \in Ints(i.width)
           /\ i.op \in ICmpOps /\ i.vector \in BOOLEAN
  <1>1. \A type, widths : \A c \in Compares(type, widths) :
            /\ c.width \in widths /\ c.x \in Ints(c.width) /\ c.y \in Ints(c.width)
            /\ c.op \in ICmpOps /\ c.vector \in BOOLEAN
    BY DEF Compares
  <1>2. i \in Compares("integer", OperatorWidths) \/ i \in Compares("pointer", {PointerBits})
    BY DEF ICmps
  <1>3. i.width \in OperatorWidths \cup {PointerBits}
    BY <1>1, <1>2
  <1>4. i.width \in Nat \ {0}
    BY <1>3, WidthsAssumption, OperandAssumption
  <1>5. /\ i.x \in Ints(i.width) /\ i.y \in Ints(i.width)
        /\ i.op \in ICmpOps /\ i.vector \in BOOLEAN
    BY <1>1, <1>2
  <1> QED  BY <1>4, <1>5

LEMMA ComparesOfState == ExecutionInv => ComparesFollowTheirPredicate
  <1> SUFFICES ASSUME ExecutionInv  PROVE ComparesFollowTheirPredicate
    OBVIOUS
  <1>1. ASSUME Visited("FCmp"), NEW lane \in 1 .. 2
        PROVE  LET x == instruction.a[lane]
                   y == instruction.b[lane]
                   p == instruction.predicate
               IN /\ result[lane] = HasBit(FCmpCode(p), Outcome(x, y))
                  /\ result[lane] = FCmpScalar(p, x, y)
    <2> PICK x : x = instruction.a[lane]
      OBVIOUS
    <2> PICK y : y = instruction.b[lane]
      OBVIOUS
    <2> PICK p : p = instruction.predicate
      OBVIOUS
    <2>1. /\ p \in Predicates
          /\ x \in Floats \cup {NaN} /\ y \in Floats \cup {NaN}
          /\ result[lane] = FCmpScalar(p, x, y)
      BY <1>1, FloatCompares DEF FloatPairs, Vectors
    <2> PICK o : o = Outcome(x, y)
      OBVIOUS
    <2>2. o \in 0 .. 3
      BY <2>1, OperatorsCompare
    <2>3. FCmpScalar(p, x, y) = (p \in TrueOf(o)) /\ HasBit(FCmpCode(p), o) = (p \in TrueOf(o))
      BY <2>1, <2>2, ScalarsFollow, CodesAreOutcomes
    <2>4. FCmpScalar(p, x, y) = HasBit(FCmpCode(p), o)
      BY ONLY <2>3, Zenon
    <2> QED  BY <2>1, <2>4
  <1>2. ASSUME Visited("ICmp")
        PROVE  LET signed  == instruction.type = "integer" /\ instruction.op \in SignedPredicates
                   side(x) == IF signed THEN FlipSign(x, instruction.width) ELSE x
                   holds(x, y) == HasBit(ICmpCode[instruction.op], Outcome(side(x), side(y)))
                   x == instruction.x
                   y == instruction.y
               IN /\ ~ instruction.vector => result = holds(x, y)
                  /\ instruction.vector /\ instruction.type = "integer" =>
                        result[1] = holds(x, y) /\ result[2] = holds(y, x)
    <2> PICK i : i = instruction
      OBVIOUS
    <2> PICK type : type = i.type
      OBVIOUS
    <2> PICK op : op = i.op
      OBVIOUS
    <2> PICK w : w = i.width
      OBVIOUS
    <2> PICK x : x = i.x
      OBVIOUS
    <2> PICK y : y = i.y
      OBVIOUS
    <2> PICK r : r = result
      OBVIOUS
    <2>1. i \in ICmps
      BY <1>2, Kinds
    <2>2. w \in Nat \ {0} /\ x \in Ints(w) /\ y \in Ints(w) /\ op \in ICmpOps /\ i.vector \in BOOLEAN
      BY <2>1, CompareOperands
    <2>3. r = CompareOf(i.vector, type, op, x, y, w)
      BY <1>2 DEF ExecutionInv, ComputedByOperators
    <2>4. ~ i.vector => r = ICmp(type, op, x, y, w)
      BY <2>3 DEF CompareOf
    <2>5. i.vector /\ type = "integer" => r[1] = ICmp(type, op, x, y, w) /\ r[2] = ICmp(type, op, y, x, w)
      <3> SUFFICES ASSUME i.vector, type = "integer"
                   PROVE  r[1] = ICmp(type, op, x, y, w) /\ r[2] = ICmp(type, op, y, x, w)
        OBVIOUS
      <3> PICK a : a = <<x, y>>
        OBVIOUS
      <3> PICK b : b = <<y, x>>
        OBVIOUS
      <3>1. r = ICmpVector(type, op, a, b, w)
        BY <2>3 DEF CompareOf
      <3>2. 1 \in DOMAIN a /\ 2 \in DOMAIN a /\ a[1] = x /\ a[2] = y /\ b[1] = y /\ b[2] = x
        OBVIOUS
      <3> QED  BY <3>1, <3>2 DEF ICmpVector
    <2> DEFINE signed  == type = "integer" /\ op \in SignedPredicates
               side(v) == IF signed THEN FlipSign(v, w) ELSE v
               holds(u, v) == HasBit(ICmpCode[op], Outcome(side(u), side(v)))
    <2>6. ICmp(type, op, x, y, w) = holds(x, y) /\ ICmp(type, op, y, x, w) = holds(y, x)
      BY <2>2, IntegersFollow
    <2>7. /\ ~ i.vector => r = holds(x, y)
          /\ i.vector /\ type = "integer" => r[1] = holds(x, y) /\ r[2] = holds(y, x)
      <3> HIDE DEF holds
      <3> QED  BY <2>4, <2>5, <2>6
    <2> QED  BY <2>7
  <1> QED  BY <1>1, <1>2 DEF ComparesFollowTheirPredicate

(* Every compare is true exactly for the outcomes in the code of its       *)
(* predicate (executeFCMP, executeICMP).                                   *)
THEOREM ComparesFollow == Spec => []ComparesFollowTheirPredicate
  BY ResultsAreComputed, ComparesOfState, PTL

-----------------------------------------------------------------------------
(* Moves between vectors and aggregates.                                   *)

LEMMA VectorIsSequence ==
    ASSUME NEW S, NEW n \in Nat, NEW a \in [1 .. n -> S]
    PROVE  a \in Seq(S) /\ Len(a) = n /\ DOMAIN a = 1 .. n
  OBVIOUS

LEMMA PairFacts ==
    ASSUME NEW a \in Pairs
    PROVE  a \in Seq({5, 6}) /\ Len(a) = 2 /\ DOMAIN a = 1 .. 2 /\ a \in [1 .. 2 -> {5, 6}]
  <1>1. a \in [1 .. 2 -> {5, 6}]
    BY DEF Pairs, Vectors
  <1>2. 2 \in Nat
    OBVIOUS
  <1> QED  BY <1>1, <1>2, VectorIsSequence

LEMMA ShuffleStays ==
    ASSUME NEW a \in Pairs, NEW b \in Pairs, NEW mask \in [1 .. 2 -> 0 .. 3]
    PROVE  ShuffleVector(a, b, mask) = [i \in 1 .. 2 |-> (a \o b)[mask[i] + 1]]
  <1>1. Len(a) = 2 /\ Len(b) = 2 /\ a \in Seq({5, 6}) /\ b \in Seq({5, 6})
    BY PairFacts
  <1>2. ASSUME NEW k \in 0 .. 3
        PROVE  (a \o b)[k + 1] = IF k < 2 THEN a[k + 1] ELSE b[(k - 2) + 1]
    <2>1. k + 1 \in 1 .. Len(a) + Len(b)
      BY <1>1
    <2>2. (a \o b)[k + 1] = IF k + 1 <= Len(a) THEN a[k + 1] ELSE b[(k + 1) - Len(a)]
      BY <1>1, <2>1, ConcatProperties
    <2>3. (k + 1) - 2 = (k - 2) + 1 /\ (k + 1 <= 2 <=> k < 2)
      OBVIOUS
    <2> QED  BY <1>1, <2>2, <2>3
  <1>3. \A i \in 1 .. 2 : mask[i] \in 0 .. 3
    OBVIOUS
  <1>4. ShuffleVector(a, b, mask)
          = [i \in 1 .. 2 |-> IF mask[i] < 2 THEN a[mask[i] + 1] ELSE b[(mask[i] - 2) + 1]]
    BY <1>1 DEF ShuffleVector
  <1> QED  BY <1>2, <1>3, <1>4

LEMMA SelectIsShuffle ==
    ASSUME NEW a \in Pairs, NEW b \in Pairs, NEW conditions \in [1 .. 2 -> 0 .. 1], NEW picks,
           picks = [i \in 1 .. 2 |-> i - 1 + (IF conditions[i] = 0 THEN 2 ELSE 0)]
    PROVE  Select(conditions, a, b) = ShuffleVector(a, b, picks)
  <1>1. Len(a) = 2
    BY PairFacts
  <1>2. ASSUME NEW i \in 1 .. 2
        PROVE  (IF picks[i] < 2 THEN a[picks[i] + 1] ELSE b[picks[i] - 2 + 1])
                 = (IF conditions[i] = 0 THEN b[i] ELSE a[i])
    <2>1. CASE conditions[i] = 0
      <3>1. picks[i] = i + 1
        BY <2>1
      <3>2. ~ (picks[i] < 2) /\ picks[i] - 2 + 1 = i
        BY <3>1
      <3> QED  BY <2>1, <3>2
    <2>2. CASE conditions[i] # 0
      <3>1. picks[i] = i - 1
        BY <2>2
      <3>2. picks[i] < 2 /\ picks[i] + 1 = i
        BY <3>1
      <3> QED  BY <2>2, <3>2
    <2> QED  BY <2>1, <2>2
  <1>3. ShuffleVector(a, b, picks)
          = [i \in 1 .. 2 |-> IF picks[i] < 2 THEN a[picks[i] + 1] ELSE b[picks[i] - 2 + 1]]
    BY <1>1 DEF ShuffleVector
  <1>4. Select(conditions, a, b) = [i \in 1 .. 2 |-> IF conditions[i] = 0 THEN b[i] ELSE a[i]]
    BY DEF Select
  <1> QED  BY <1>2, <1>3, <1>4

LEMMA InsertStays ==
    ASSUME NEW a \in Pairs, NEW index \in 0 .. 1, NEW i \in 0 .. 1
    PROVE  ExtractElement(InsertElement(a, 7, index), i) =
               (IF i = index THEN 7 ELSE ExtractElement(a, i))
  <1> PICK r : r = [a EXCEPT ![index + 1] = 7]
    OBVIOUS
  <1>1. DOMAIN a = 1 .. 2 /\ Len(a) = 2 /\ a \in Seq({5, 6})
    BY PairFacts
  <1>2. Len(r) = 2
    <2>1. r = [k \in 1 .. 2 |-> IF k = index + 1 THEN 7 ELSE a[k]]
      BY <1>1
    <2>2. \A k \in 1 .. 2 : a[k] \in {5, 6}
      BY PairFacts
    <2>3. r \in [1 .. 2 -> {5, 6, 7}]
      BY <2>1, <2>2
    <2>4. 2 \in Nat
      OBVIOUS
    <2> QED  BY <2>3, <2>4, VectorIsSequence
  <1>3. r[i + 1] = IF i = index THEN 7 ELSE a[i + 1]
    <2>1. i + 1 \in DOMAIN a /\ (i + 1 = index + 1 <=> i = index)
      BY <1>1
    <2> QED  BY <2>1
  <1>4. InsertElement(a, 7, index) = r
    BY DEF InsertElement
  <1>5. ExtractElement(r, i) = r[i + 1] /\ ExtractElement(a, i) = a[i + 1]
    <2>1. i < Len(r) /\ i < Len(a)
      <3>1. i < 2
        OBVIOUS
      <3> QED  BY ONLY <1>1, <1>2, <3>1, Zenon
    <2> QED  BY <2>1 DEF ExtractElement
  <1> QED  BY <1>3, <1>4, <1>5

(* ExtractValue as a fold.                                                 *)
LEMMA ExtractMeaning ==
    ASSUME NEW aggregate, NEW path, NEW n \in Nat, DOMAIN path = 1 .. n
    PROVE  \E g : IsFold(g, "member", path, aggregate, n) /\ ExtractValue(aggregate, path) = g[1 .. n]
  <1> DEFINE step(g, s) == g[s \ {Max(s)}][path[Max(s)] + 1]
             g == CHOOSE g : g = [s \in SUBSET DOMAIN path |-> IF s = {} THEN aggregate ELSE step(g, s)]
  <1>1. ExtractValue(aggregate, path) = g[DOMAIN path]
    BY DEF ExtractValue, FoldLeft, MapThenFoldSet
  <1>2. \A f, s : step(f, s) = FoldStep("member", path, f[s \ {Max(s)}], Max(s))
    BY DEF FoldStep
  <1> HIDE DEF step
  <1>3. PICK f : IsFold(f, "member", path, aggregate, n)
    BY FoldExists
  <1>4. f = [s \in SUBSET DOMAIN path |-> IF s = {} THEN aggregate ELSE step(f, s)]
    BY <1>2, <1>3 DEF IsFold
  <1>5. g = [s \in SUBSET DOMAIN path |-> IF s = {} THEN aggregate ELSE step(g, s)]
    BY <1>4
  <1> HIDE DEF g
  <1>6. IsFold(g, "member", path, aggregate, n)
    BY <1>2, <1>5 DEF IsFold
  <1> QED  BY <1>1, <1>6

LEMMA ExtractTwo ==
    ASSUME NEW aggregate, NEW path, DOMAIN path = 1 .. 2
    PROVE  ExtractValue(aggregate, path) = aggregate[path[1] + 1][path[2] + 1]
  <1>1. PICK g : IsFold(g, "member", path, aggregate, 2) /\ ExtractValue(aggregate, path) = g[1 .. 2]
    BY ExtractMeaning
  <1>2. g[1 .. 2] = FoldStep("member", path, FoldStep("member", path, aggregate, 1), 2)
    BY <1>1, FoldOfTwo
  <1>3. \A value, i : FoldStep("member", path, value, i) = value[path[i] + 1]
    BY DEF FoldStep
  <1> QED  BY <1>1, <1>2, <1>3

LEMMA ExtractOne ==
    ASSUME NEW aggregate, NEW path, DOMAIN path = 1 .. 1
    PROVE  ExtractValue(aggregate, path) = aggregate[path[1] + 1]
  <1>1. PICK g : IsFold(g, "member", path, aggregate, 1) /\ ExtractValue(aggregate, path) = g[1 .. 1]
    BY ExtractMeaning
  <1>2. Steps(g, "member", path, aggregate, 1)
    BY <1>1, FoldSteps
  <1>3. g[1 .. 0] = aggregate
    BY <1>2 DEF Steps
  <1>4. \A k \in 0 .. 1 - 1 : g[1 .. k + 1] = FoldStep("member", path, g[1 .. k], k + 1)
    BY <1>2, Zenon DEF Steps
  <1>5. g[1 .. 0 + 1] = FoldStep("member", path, g[1 .. 0], 0 + 1)
    BY <1>4
  <1>6. \A value, i : FoldStep("member", path, value, i) = value[path[i] + 1]
    BY DEF FoldStep
  <1> QED  BY <1>1, <1>3, <1>5, <1>6

LEMMA ExtractNone ==
    ASSUME NEW aggregate, NEW path, DOMAIN path = 1 .. 0
    PROVE  ExtractValue(aggregate, path) = aggregate
  <1>1. PICK g : IsFold(g, "member", path, aggregate, 0) /\ ExtractValue(aggregate, path) = g[1 .. 0]
    BY ExtractMeaning
  <1>2. Steps(g, "member", path, aggregate, 0)
    BY <1>1, FoldSteps
  <1> QED  BY <1>1, <1>2 DEF Steps

(* A path of two indices.                                                  *)
LEMMA PathFacts ==
    ASSUME NEW path \in (0 .. 1) \X (0 .. 1)
    PROVE  /\ Len(path) = 2 /\ DOMAIN path = 1 .. 2 /\ path[1] \in 0 .. 1 /\ path[2] \in 0 .. 1
           /\ DOMAIN SubSeq(path, 1, 0) = 1 .. 0
           /\ DOMAIN SubSeq(path, 1, 1) = 1 .. 1 /\ SubSeq(path, 1, 1)[1] = path[1]
  OBVIOUS

Inserts(f, aggregate, x, path) ==
    f = [k \in 0 .. Len(path) |->
            IF k = Len(path) THEN x
            ELSE [ExtractValue(aggregate, SubSeq(path, 1, k))
                     EXCEPT ![path[k + 1] + 1] = f[k + 1]]]

LEMMA SetIsFunction ==
    ASSUME NEW old, NEW node, NEW value, NEW f, IsSet(f, old, node, value),
           NEW g, IsSet(g, old, node, value)
    PROVE  f = g
  BY DEF IsSet

LEMMA InsertTwo ==
    ASSUME NEW aggregate, NEW x, NEW path \in (0 .. 1) \X (0 .. 1),
           NEW inner, IsSet(inner, aggregate[path[1] + 1], path[2] + 1, x),
           NEW outer, IsSet(outer, aggregate, path[1] + 1, inner)
    PROVE  InsertValue(aggregate, x, path) = outer
  <1> PICK f : f = CHOOSE g : Inserts(g, aggregate, x, path)
    OBVIOUS
  <1>1. Len(path) = 2 /\ 0 \in 0 .. Len(path) /\ 1 \in 0 .. Len(path) /\ 2 \in 0 .. Len(path)
    BY PathFacts
  <1>2. ExtractValue(aggregate, SubSeq(path, 1, 0)) = aggregate
    BY PathFacts, ExtractNone
  <1>3. ExtractValue(aggregate, SubSeq(path, 1, 1)) = aggregate[path[1] + 1]
    <2> PICK first : first = SubSeq(path, 1, 1)
      OBVIOUS
    <2>1. DOMAIN first = 1 .. 1 /\ first[1] = path[1]
      BY PathFacts
    <2>2. ExtractValue(aggregate, first) = aggregate[first[1] + 1]
      BY ONLY <2>1, ExtractOne
    <2> QED  BY <2>1, <2>2
  <1>4. Inserts(f, aggregate, x, path)
    <2> DEFINE step(g, k) == IF k = Len(path) THEN x
                             ELSE [ExtractValue(aggregate, SubSeq(path, 1, k))
                                      EXCEPT ![path[k + 1] + 1] = g[k + 1]]
    <2> PICK g : g = [k \in 0 .. Len(path) |-> IF k = 2 THEN x ELSE IF k = 1 THEN inner ELSE outer]
      OBVIOUS
    <2>1. g[2] = x /\ g[1] = inner /\ g[0] = outer
      BY <1>1
    <2>2. step(g, 2) = x
      BY <1>1
    <2>a. \A k \in {0, 1} : IsSet(step(g, k), ExtractValue(aggregate, SubSeq(path, 1, k)),
                                   path[k + 1] + 1, g[k + 1])
      BY <1>1 DEF IsSet
    <2>b. 0 + 1 = 1 /\ 1 + 1 = 2
      OBVIOUS
    <2> HIDE DEF step
    <2>c. IsSet(step(g, 1), aggregate[path[1] + 1], path[2] + 1, x)
      <3>1. IsSet(step(g, 1), ExtractValue(aggregate, SubSeq(path, 1, 1)), path[1 + 1] + 1, g[1 + 1])
        BY <2>a
      <3> QED  BY ONLY <1>3, <2>1, <2>b, <3>1, Zenon
    <2>d. IsSet(step(g, 0), aggregate, path[1] + 1, inner)
      <3>1. IsSet(step(g, 0), ExtractValue(aggregate, SubSeq(path, 1, 0)), path[0 + 1] + 1, g[0 + 1])
        BY <2>a
      <3> QED  BY ONLY <1>2, <2>1, <2>b, <3>1, Zenon
    <2>3. step(g, 1) = inner
      BY <2>c, SetIsFunction
    <2>4. step(g, 0) = outer
      BY <2>d, SetIsFunction
    <2>5. \A k \in 0 .. Len(path) : g[k] = step(g, k)
      BY <1>1, <2>1, <2>2, <2>3, <2>4
    <2>6. g = [k \in 0 .. Len(path) |-> step(g, k)]
      BY <2>5
    <2>7. Inserts(g, aggregate, x, path)
      BY <2>6 DEF Inserts, step
    <2> QED  BY <2>7
  <1>5. InsertValue(aggregate, x, path) = f[0]
    BY DEF InsertValue, Inserts
  <1>6. f[2] = x
    BY <1>1, <1>4 DEF Inserts
  <1>7. \A k \in {0, 1} : IsSet(f[k], ExtractValue(aggregate, SubSeq(path, 1, k)),
                                path[k + 1] + 1, f[k + 1])
    BY <1>1, <1>4 DEF Inserts, IsSet
  <1>8. 0 + 1 = 1 /\ 1 + 1 = 2
    OBVIOUS
  <1>9. f[1] = inner
    <2>1. IsSet(f[1], ExtractValue(aggregate, SubSeq(path, 1, 1)), path[1 + 1] + 1, f[1 + 1])
      BY <1>7
    <2>2. IsSet(f[1], aggregate[path[1] + 1], path[2] + 1, x)
      BY ONLY <1>3, <1>6, <1>8, <2>1, Zenon
    <2> QED  BY <2>2, SetIsFunction
  <1>10. f[0] = outer
    <2>1. IsSet(f[0], ExtractValue(aggregate, SubSeq(path, 1, 0)), path[0 + 1] + 1, f[0 + 1])
      BY <1>7
    <2>2. IsSet(f[0], aggregate, path[1] + 1, inner)
      BY ONLY <1>2, <1>8, <1>9, <2>1, Zenon
    <2> QED  BY <2>2, SetIsFunction
  <1> QED  BY <1>5, <1>10

LEMMA InsertValueStays ==
    ASSUME NEW a \in Pairs, NEW b \in Pairs,
           NEW path \in (0 .. 1) \X (0 .. 1), NEW other \in (0 .. 1) \X (0 .. 1)
    PROVE  ExtractValue(InsertValue(<<a, b>>, 7, path), other) =
              (IF other = path THEN 7 ELSE ExtractValue(<<a, b>>, other))
  <1> PICK aggregate : aggregate = <<a, b>>
    OBVIOUS
  <1>1. DOMAIN aggregate = 1 .. 2 /\ \A i \in 1 .. 2 : DOMAIN aggregate[i] = 1 .. 2
    <2>1. DOMAIN aggregate = 1 .. 2 /\ aggregate[1] = a /\ aggregate[2] = b
      BY OneTwo
    <2> QED  BY <2>1, PairFacts, OneTwo
  <1> PICK p : p = path[1] + 1
    OBVIOUS
  <1> PICK q : q = path[2] + 1
    OBVIOUS
  <1> PICK r : r = other[1] + 1
    OBVIOUS
  <1> PICK s : s = other[2] + 1
    OBVIOUS
  <1>2. /\ p \in 1 .. 2 /\ q \in 1 .. 2 /\ r \in 1 .. 2 /\ s \in 1 .. 2
        /\ other = path <=> r = p /\ s = q
    OBVIOUS
  <1> PICK inner : inner = [aggregate[p] EXCEPT ![q] = 7]
    OBVIOUS
  <1> PICK outer : outer = [aggregate EXCEPT ![p] = inner]
    OBVIOUS
  <1>3. InsertValue(aggregate, 7, path) = outer
    <2>1. IsSet(inner, aggregate[path[1] + 1], path[2] + 1, 7)
      BY DEF IsSet
    <2>2. IsSet(outer, aggregate, path[1] + 1, inner)
      BY DEF IsSet
    <2> QED  BY <2>1, <2>2, InsertTwo
  <1>4. ExtractValue(outer, other) = outer[r][s] /\ ExtractValue(aggregate, other) = aggregate[r][s]
    <2>1. DOMAIN other = 1 .. 2
      BY PathFacts
    <2>2. \A value : ExtractValue(value, other) = value[other[1] + 1][other[2] + 1]
      BY ONLY <2>1, ExtractTwo
    <2> QED  BY <2>2
  <1>5. inner[s] = IF s = q THEN 7 ELSE aggregate[p][s]
    BY <1>1, <1>2
  <1>6. outer[r] = IF r = p THEN inner ELSE aggregate[r]
    BY <1>1, <1>2
  <1> QED  BY <1>2, <1>3, <1>4, <1>5, <1>6

LEMMA ElementsOfState == ExecutionInv => ElementsStayInPlace
  <1> SUFFICES ASSUME ExecutionInv  PROVE ElementsStayInPlace
    OBVIOUS
  <1>1. \A i \in Moves :
          /\ i.a \in Pairs
          /\ i.visit = "ShuffleVector" => i.b \in Pairs /\ i.mask \in [1 .. 2 -> 0 .. 3]
          /\ i.visit = "Select" => i.b \in Pairs /\ i.conditions \in [1 .. 2 -> 0 .. 1]
          /\ i.visit = "InsertElement" => i.index \in 0 .. 1
          /\ i.visit = "InsertValue" => i.b \in Pairs /\ i.path \in (0 .. 1) \X (0 .. 1)
    BY DEF Moves, Vectors
  <1>2. ASSUME Visited("ShuffleVector")
        PROVE  result = [i \in 1 .. 2 |-> (instruction.a \o instruction.b)[instruction.mask[i] + 1]]
    <2>1. instruction \in Moves /\ instruction.visit = "ShuffleVector"
      BY <1>2, Kinds DEF Visited
    <2>2. result = ShuffleVector(instruction.a, instruction.b, instruction.mask)
      BY <1>2 DEF ExecutionInv, ComputedByMoves
    <2> QED  BY <1>1, <2>1, <2>2, ShuffleStays
  <1>3. ASSUME Visited("Select"), NEW picks,
               picks = [i \in 1 .. 2 |-> i - 1 + (IF instruction.conditions[i] = 0 THEN 2 ELSE 0)]
        PROVE  result = ShuffleVector(instruction.a, instruction.b, picks)
    <2>1. instruction \in Moves /\ instruction.visit = "Select"
      BY <1>3, Kinds DEF Visited
    <2>2. result = Select(instruction.conditions, instruction.a, instruction.b)
      BY <1>3 DEF ExecutionInv, ComputedByMoves
    <2> QED  BY <1>1, <1>3, <2>1, <2>2, SelectIsShuffle
  <1>4. ASSUME Visited("InsertElement"), NEW i \in 0 .. 1
        PROVE  ExtractElement(result, i) =
                  (IF i = instruction.index THEN 7 ELSE ExtractElement(instruction.a, i))
    <2>1. instruction \in Moves /\ instruction.visit = "InsertElement"
      BY <1>4, Kinds DEF Visited
    <2>2. result = InsertElement(instruction.a, 7, instruction.index)
      BY <1>4 DEF ExecutionInv, ComputedByMoves
    <2> QED  BY <1>1, <2>1, <2>2, InsertStays
  <1>5. ASSUME Visited("InsertValue"), NEW path \in (0 .. 1) \X (0 .. 1)
        PROVE  ExtractValue(result, path) =
                  (IF path = instruction.path THEN 7
                   ELSE ExtractValue(<<instruction.a, instruction.b>>, path))
    <2>1. instruction \in Moves /\ instruction.visit = "InsertValue"
      BY <1>5, Kinds DEF Visited
    <2>2. result = InsertValue(<<instruction.a, instruction.b>>, 7, instruction.path)
      BY <1>5 DEF ExecutionInv, ComputedByMoves
    <2> QED  BY <1>1, <2>1, <2>2, InsertValueStays
  <1> QED  BY <1>2, <1>3, <1>4, <1>5 DEF ElementsStayInPlace

(* Shuffles, selects and inserts leave every element they do not name in   *)
(* its place, at any depth (visitShuffleVectorInst and others).            *)
THEOREM ElementsStay == Spec => []ElementsStayInPlace
  BY ResultsAreComputed, ElementsOfState, PTL

-----------------------------------------------------------------------------
(* Remainders.                                                             *)

LEMMA ProductGrows ==
    ASSUME NEW m \in Nat \ {0}, NEW d \in Nat \ {0}
    PROVE  d * m >= m
  <1>1. d * m = m + (d - 1) * m
    OBVIOUS
  <1>2. (d - 1) * m \in Nat
    <2>1. d - 1 \in Nat
      OBVIOUS
    <2> QED  BY <2>1
  <1> QED  BY <1>1, <1>2

LEMMA RemainderFacts ==
    ASSUME NEW m \in Nat \ {0}, NEW a \in Int
    PROVE  /\ a % m \in 0 .. m - 1 /\ a \div m \in Int
           /\ a = (a \div m) * m + (a % m)
  OBVIOUS

LEMMA AllRemainders ==
    \A m \in Nat \ {0}, a \in Int :
        a \div m \in Int /\ a % m \in Int /\ a = (a \div m) * m + (a % m)
  OBVIOUS

(* The remainder is the one that fits.                                     *)
LEMMA RemainderIs ==
    ASSUME NEW m \in Nat \ {0}, NEW q \in Int, NEW r \in 0 .. m - 1
    PROVE  (q * m + r) % m = r /\ (q * m + r) \div m = q
  <1> PICK a : a = q * m + r
    OBVIOUS
  <1>0. a \in Int
    OBVIOUS
  <1> PICK d : d = a \div m
    OBVIOUS
  <1> PICK e : e = a % m
    OBVIOUS
  <1>1. d \in Int /\ e \in 0 .. m - 1 /\ a = d * m + e
    BY <1>0, RemainderFacts
  <1>2. (q - d) * m = e - r
    <2>1. \A i, j, k \in Int : (i - j) * k = i * k - j * k
      OBVIOUS
    <2> QED  BY <1>1, <2>1
  <1>3. ~ q > d
    <2> SUFFICES ASSUME q > d  PROVE FALSE
      OBVIOUS
    <2>1. q - d \in Nat \ {0}
      BY <1>1
    <2>2. (q - d) * m >= m
      BY <2>1, ProductGrows
    <2> QED  BY <1>1, <1>2, <2>2
  <1>4. ~ d > q
    <2> SUFFICES ASSUME d > q  PROVE FALSE
      OBVIOUS
    <2>1. d - q \in Nat \ {0}
      BY <1>1
    <2>2. (d - q) * m >= m
      BY <2>1, ProductGrows
    <2>3. (d - q) * m = 0 - ((q - d) * m)
      <3>1. \A i, j, k \in Int : (i - j) * k = 0 - ((j - i) * k)
        OBVIOUS
      <3> QED  BY <1>1, <3>1
    <2> QED  BY <1>1, <1>2, <2>2, <2>3
  <1>5. q = d
    BY <1>1, <1>3, <1>4
  <1> QED  BY <1>1, <1>5

LEMMA RemainderOfSum ==
    ASSUME NEW m \in Nat \ {0}, NEW a \in Int, NEW k \in Int
    PROVE  (a + k * m) % m = a % m
  <1> PICK q : q = a \div m
    OBVIOUS
  <1> PICK r : r = a % m
    OBVIOUS
  <1>1. q \in Int /\ r \in 0 .. m - 1 /\ a = q * m + r
    BY RemainderFacts
  <1>2. a + k * m = (q + k) * m + r
    <2>1. \A i, j \in Int : (i + j) * m = i * m + j * m
      OBVIOUS
    <2> QED  BY <1>1, <2>1
  <1>3. q + k \in Int
    BY <1>1
  <1>4. ((q + k) * m + r) % m = r
    BY ONLY <1>1, <1>3, RemainderIs, m \in Nat \ {0}
  <1> QED  BY ONLY <1>1, <1>2, <1>4, r = a % m

LEMMA RemainderInSum ==
    ASSUME NEW m \in Nat \ {0}, NEW a \in Int, NEW b \in Int
    PROVE  (a + (b % m)) % m = (a + b) % m
  <1> PICK q : q = b \div m
    OBVIOUS
  <1> PICK r : r = b % m
    OBVIOUS
  <1>1. q \in Int /\ r \in Int /\ b = q * m + r
    BY RemainderFacts
  <1>2. a + b = (a + r) + q * m
    BY <1>1
  <1>3. a + r \in Int
    BY <1>1
  <1>4. ((a + r) + q * m) % m = (a + r) % m
    BY ONLY <1>1, <1>3, RemainderOfSum, m \in Nat \ {0}
  <1> QED  BY ONLY <1>2, <1>4, r = b % m

LEMMA RemainderInProduct ==
    ASSUME NEW m \in Nat \ {0}, NEW a \in Int, NEW b \in Int
    PROVE  (a * (b % m)) % m = (a * b) % m
  <1> PICK q : q = b \div m
    OBVIOUS
  <1> PICK r : r = b % m
    OBVIOUS
  <1>1. q \in Int /\ r \in Int /\ b = q * m + r
    BY RemainderFacts
  <1>2. a * b = a * r + (a * q) * m
    <2>1. \A i, j, k \in Int : k * (i * m + j) = k * j + (k * i) * m
      OBVIOUS
    <2> QED  BY <1>1, <2>1
  <1>3. a * r \in Int /\ a * q \in Int
    BY <1>1
  <1>4. (a * r + (a * q) * m) % m = (a * r) % m
    BY <1>3, RemainderOfSum
  <1> QED  BY <1>2, <1>4

-----------------------------------------------------------------------------
(* Casts.                                                                  *)

LEMMA IntsAreNumbers ==
    ASSUME NEW w \in Nat, NEW x \in Ints(w)
    PROVE  x \in Nat /\ x < Pow2[w] /\ x % Pow2[w] = x
  <1>1. Pow2[w] \in Nat \ {0}
    BY PowersArePositive
  <1>2. x \in 0 .. Pow2[w] - 1
    BY DEF Ints
  <1> QED  BY <1>1, <1>2, SmallRemainders

(* A number with a sign in w bits, as the integer that stands for it.      *)
LEMMA SignRoundTrip ==
    ASSUME NEW w \in Nat \ {0}, NEW s \in - Pow2[w - 1] .. Pow2[w - 1] - 1
    PROVE  /\ s % Pow2[w] \in Ints(w)
           /\ s % Pow2[w] = IF s < 0 THEN s + Pow2[w] ELSE s
           /\ Signed(s % Pow2[w], w) = s
  <1> PICK h \in Nat \ {0} : h = Pow2[w - 1] /\ Pow2[w] = 2 * h
    BY HalfPower
  <1> PICK m \in Nat \ {0} : m = 2 * h
    OBVIOUS
  <1>1. s \in - h .. h - 1
    OBVIOUS
  <1>2. s % m = IF s < 0 THEN s + m ELSE s
    <2>1. CASE s < 0
      <3>1. s \in - m .. - 1
        BY <1>1, <2>1
      <3> QED  BY <2>1, <3>1, SmallRemainders
    <2>2. CASE ~ s < 0
      <3>1. s \in 0 .. m - 1
        BY <1>1, <2>2
      <3> QED  BY <2>2, <3>1, SmallRemainders
    <2> QED  BY <2>1, <2>2
  <1> PICK r : r = s % m
    OBVIOUS
  <1>3. r \in 0 .. m - 1
    BY <1>1, <1>2
  <1>4. r \in Ints(w)
    BY <1>3 DEF Ints
  <1>5. Signed(r, w) = IF r >= h THEN r - m ELSE r
    BY DEF Signed
  <1>6. Signed(r, w) = s
    BY <1>1, <1>2, <1>5
  <1> QED  BY <1>2, <1>4, <1>6

LEMMA SignedAndBack ==
    ASSUME NEW w \in Nat \ {0}, NEW x \in Ints(w)
    PROVE  Signed(x, w) % Pow2[w] = x
  <1> PICK s : s = Signed(x, w)
    OBVIOUS
  <1>1. s \in - Pow2[w - 1] .. Pow2[w - 1] - 1
    BY SignFacts
  <1>2. s = IF x >= Pow2[w - 1] THEN x - Pow2[w] ELSE x
    BY SignFacts
  <1>3. s % Pow2[w] = IF s < 0 THEN s + Pow2[w] ELSE s
    BY <1>1, SignRoundTrip
  <1>4. Pow2[w] \in Nat /\ Pow2[w - 1] \in Nat /\ Pow2[w] = 2 * Pow2[w - 1]
    BY HalfPower
  <1>5. x \in 0 .. Pow2[w] - 1
    BY DEF Ints
  <1> QED  BY <1>2, <1>3, <1>4, <1>5

(* To a wider integer and back.                                            *)
LEMMA WiderAndBack ==
    ASSUME NEW v \in Nat \ {0}, NEW w \in Nat \ {0}, v <= w, NEW x \in Ints(v)
    PROVE  /\ x % Pow2[w] = x
           /\ Trunc(ZExt(x, v, w), v) = x
           /\ Trunc(SExt(x, v, w), v) = x
           /\ Signed(SExt(x, v, w), w) = Signed(x, v)
  <1>1. x \in Nat /\ x < Pow2[v] /\ x % Pow2[v] = x
    BY IntsAreNumbers
  <1>2. Pow2[v] \in Nat \ {0} /\ Pow2[w] \in Nat \ {0} /\ Pow2[v] <= Pow2[w]
    BY PowersArePositive, PowersGrow
  <1>3. x % Pow2[w] = x
    <2>1. x \in 0 .. Pow2[w] - 1
      BY <1>1, <1>2
    <2> QED  BY <1>2, <2>1, SmallRemainders
  <1>4. Trunc(ZExt(x, v, w), v) = x
    BY <1>1 DEF Trunc, ZExt
  <1> PICK s : s = Signed(x, v)
    OBVIOUS
  <1>5. s \in - Pow2[v - 1] .. Pow2[v - 1] - 1
    BY SignFacts
  <1>6. s \in - Pow2[w - 1] .. Pow2[w - 1] - 1
    <2>1. v - 1 \in Nat /\ w - 1 \in Nat /\ v - 1 <= w - 1
      OBVIOUS
    <2>2. Pow2[v - 1] <= Pow2[w - 1] /\ Pow2[v - 1] \in Nat /\ Pow2[w - 1] \in Nat
      BY <2>1, PowersGrow, PowersArePositive
    <2> QED  BY <1>5, <2>2
  <1>7. Signed(SExt(x, v, w), w) = s
    BY <1>6, SignRoundTrip DEF SExt
  <1>8. (s % Pow2[w]) % Pow2[v] = s % Pow2[v]
    <2> PICK k : k = w - v
      OBVIOUS
    <2>1. k \in Nat /\ Pow2[w] = Pow2[v] * Pow2[k] /\ Pow2[k] \in Nat
      BY PowersGrow, PowersArePositive
    <2> PICK q : q = s \div Pow2[w]
      OBVIOUS
    <2> PICK r : r = s % Pow2[w]
      OBVIOUS
    <2>2. s \in Int
      BY <1>5
    <2>3. q \in Int /\ r \in Int /\ s = q * Pow2[w] + r
      <3>1. Pow2[w] \in Nat \ {0}
        BY <1>2
      <3> QED  BY ONLY <2>2, <3>1, AllRemainders, q = s \div Pow2[w], r = s % Pow2[w]
    <2>4. q * Pow2[w] = (q * Pow2[k]) * Pow2[v]
      <3>1. \A a, b, c \in Int : a * (b * c) = (a * c) * b
        OBVIOUS
      <3>2. q \in Int /\ Pow2[v] \in Int /\ Pow2[k] \in Int
        BY <1>2, <2>1, <2>3
      <3>3. q * (Pow2[v] * Pow2[k]) = (q * Pow2[k]) * Pow2[v]
        BY ONLY <3>1, <3>2
      <3> QED  BY ONLY <2>1, <3>3
    <2>5. s = r + (q * Pow2[k]) * Pow2[v]
      <3>1. \A a, b \in Int : a + b = b + a
        OBVIOUS
      <3>2. q * Pow2[w] \in Int
        BY <1>2, <2>3
      <3> QED  BY <2>3, <2>4, <3>1, <3>2
    <2>6. q * Pow2[k] \in Int
      BY <2>1, <2>3
    <2>7. (r + (q * Pow2[k]) * Pow2[v]) % Pow2[v] = r % Pow2[v]
      BY ONLY <1>2, <2>3, <2>6, RemainderOfSum
    <2> QED  BY <2>5, <2>7
  <1>9. Trunc(SExt(x, v, w), v) = x
    BY <1>8, SignedAndBack DEF Trunc, SExt
  <1> QED  BY <1>3, <1>4, <1>7, <1>9

(* Every number has an exponent.                                           *)
LEMMA PowerExceeds ==
    ASSUME NEW n \in Nat  PROVE n < Pow2[n]
  <1> DEFINE T == {k \in Nat : ~ k < Pow2[k]}
  <1> SUFFICES ASSUME T # {}  PROVE FALSE
    OBVIOUS
  <1>1. PICK m \in T : \A k \in T : m <= k
    <2>1. T \in SUBSET Nat
      OBVIOUS
    <2> QED  BY <2>1, LeastNumber
  <1>2. m # 0
    BY PowersAre
  <1>3. m - 1 \in Nat /\ m - 1 \notin T
    BY <1>1, <1>2
  <1>4. m - 1 < Pow2[m - 1]
    BY <1>3
  <1>5. Pow2[m] = 2 * Pow2[m - 1] /\ Pow2[m - 1] \in Nat \ {0}
    <2>1. m \in Nat \ {0}
      BY <1>2
    <2> QED  BY <2>1, HalfPower
  <1> QED  BY <1>1, <1>3, <1>4, <1>5

(* m has the exponent k as a number with so many digits.                   *)
IsExponent(k, m, digits) ==
    /\ k \in Nat
    /\ m < Pow2[digits + k]
    /\ k > 0 => m >= Pow2[digits + k - 1]

LEMMA ExponentExists ==
    ASSUME NEW m \in Nat, NEW digits \in Nat \ {0}
    PROVE  \E k \in 0 .. m : IsExponent(k, m, digits)
  <1> DEFINE T == {k \in Nat : m < Pow2[digits + k]}
  <1>1. m \in T
    <2>1. m <= digits + m /\ digits + m \in Nat
      OBVIOUS
    <2>2. Pow2[m] <= Pow2[digits + m] /\ m < Pow2[m]
      BY <2>1, PowersGrow, PowerExceeds
    <2>3. Pow2[m] \in Nat /\ Pow2[digits + m] \in Nat
      BY <2>1, PowersArePositive
    <2> QED  BY <2>2, <2>3
  <1>2. PICK k \in T : \A j \in T : k <= j
    <2>1. T \in SUBSET Nat
      OBVIOUS
    <2> QED  BY <1>1, <2>1, LeastNumber
  <1>3. k \in 0 .. m
    BY <1>1, <1>2
  <1>4. ASSUME k > 0  PROVE m >= Pow2[digits + k - 1]
    <2>1. k - 1 \in Nat /\ k - 1 \notin T /\ digits + (k - 1) = digits + k - 1
      BY <1>2, <1>4
    <2>2. digits + (k - 1) \in Nat
      BY <2>1
    <2>3. Pow2[digits + (k - 1)] \in Nat
      BY <2>2, PowersArePositive
    <2> QED  BY <2>1, <2>3
  <1> QED  BY <1>2, <1>3, <1>4 DEF IsExponent

(* Smaller numbers have smaller exponents, so there is one exponent.       *)
LEMMA ExponentsGrow ==
    ASSUME NEW digits \in Nat \ {0}, NEW a \in Nat, NEW b \in Nat, a <= b,
           NEW j, IsExponent(j, a, digits), NEW k, IsExponent(k, b, digits)
    PROVE  j <= k
  <1> SUFFICES ASSUME ~ j <= k  PROVE FALSE
    OBVIOUS
  <1>1. j \in Nat /\ k \in Nat /\ j > 0 /\ digits + k <= digits + j - 1
    BY DEF IsExponent
  <1>2. digits + k \in Nat /\ digits + j - 1 \in Nat
    BY <1>1
  <1>3. Pow2[digits + k] <= Pow2[digits + j - 1]
    BY <1>1, <1>2, PowersGrow
  <1>4. Pow2[digits + k] \in Nat /\ Pow2[digits + j - 1] \in Nat
    BY <1>2, PowersArePositive
  <1>5. b < Pow2[digits + k] /\ a >= Pow2[digits + j - 1]
    BY <1>1 DEF IsExponent
  <1> QED  BY <1>3, <1>4, <1>5

LEMMA MagnitudeFacts ==
    ASSUME NEW n \in Int
    PROVE  Magnitude(n) \in Nat /\ Magnitude(n) = IF n < 0 THEN - n ELSE n
  BY DEF Magnitude

LEMMA SpacingIs ==
    ASSUME NEW n \in Int, NEW digits \in Nat \ {0}
    PROVE  \E k \in Nat : Spacing(n, digits) = Pow2[k] /\ IsExponent(k, Magnitude(n), digits)
  <1> PICK m : m = Magnitude(n)
    OBVIOUS
  <1>1. m \in Nat
    BY MagnitudeFacts
  <1> DEFINE P(k) == m < Pow2[digits + k] /\ (k > 0 => m >= Pow2[digits + k - 1])
             k == CHOOSE k \in 0 .. m : P(k)
  <1>2. \E i \in 0 .. m : P(i)
    BY <1>1, ExponentExists DEF IsExponent
  <1>3. k \in 0 .. m /\ P(k)
    BY <1>2
  <1>4. Spacing(n, digits) = Pow2[k]
    BY DEF Spacing
  <1>5. k \in Nat
    BY <1>1, <1>3
  <1>6. IsExponent(k, m, digits)
    BY <1>3, <1>5 DEF IsExponent
  <1> QED  BY <1>4, <1>5, <1>6

LEMMA FloatMeaning ==
    ASSUME NEW n \in Int, NEW digits \in Nat \ {0}, NEW k, IsExponent(k, Magnitude(n), digits)
    PROVE  /\ Spacing(n, digits) = Pow2[k]
           /\ IsFloat(n, digits) = (Magnitude(n) % Pow2[k] = 0)
  <1>1. PICK j \in Nat : Spacing(n, digits) = Pow2[j] /\ IsExponent(j, Magnitude(n), digits)
    BY SpacingIs
  <1>2. Magnitude(n) \in Nat /\ Magnitude(n) <= Magnitude(n)
    BY MagnitudeFacts
  <1>3. j <= k /\ k <= j
    BY <1>1, <1>2, ExponentsGrow
  <1>4. k \in Nat
    BY DEF IsExponent
  <1>5. j = k
    BY <1>3, <1>4
  <1> QED  BY <1>1, <1>5 DEF IsFloat

LEMMA MultipleFacts ==
    ASSUME NEW s \in Nat \ {0}, NEW a \in Nat
    PROVE  /\ a % s = 0 => a \div s \in Nat /\ a = s * (a \div s)
           /\ (s * a) % s = 0
  <1>1. ASSUME a % s = 0  PROVE a \div s \in Nat /\ a = s * (a \div s)
    <2> PICK q : q = a \div s
      OBVIOUS
    <2>1. q \in Nat
      OBVIOUS
    <2>2. a = q * s + (a % s)
      BY RemainderFacts
    <2>3. q * s = s * q /\ q * s \in Int
      BY <2>1
    <2> QED  BY <1>1, <2>1, <2>2, <2>3
  <1>2. (a * s + 0) % s = 0
    <2>1. 0 \in 0 .. s - 1
      OBVIOUS
    <2> QED  BY <2>1, RemainderIs
  <1>3. a * s + 0 = s * a
    OBVIOUS
  <1> QED  BY <1>1, <1>2, <1>3

(* A multiple of a power of two is one of every smaller power.             *)
LEMMA MultipleOfSmaller ==
    ASSUME NEW j \in Nat, NEW k \in Nat, j <= k, NEW a \in Nat, a % Pow2[k] = 0
    PROVE  a % Pow2[j] = 0
  <1> PICK s : s = Pow2[j]
    OBVIOUS
  <1> PICK t : t = Pow2[k - j]
    OBVIOUS
  <1>1. k - j \in Nat /\ Pow2[k] = s * t
    BY PowersGrow
  <1>2. s \in Nat \ {0} /\ t \in Nat \ {0} /\ Pow2[k] \in Nat \ {0}
    BY <1>1, PowersArePositive
  <1> PICK q : q = a \div Pow2[k]
    OBVIOUS
  <1>3. q \in Nat /\ a = Pow2[k] * q
    BY <1>2, MultipleFacts
  <1>4. a = (s * t) * q
    BY <1>1, <1>3
  <1>5. (s * t) * q = s * (t * q) /\ t * q \in Nat
    BY <1>2, <1>3
  <1>6. (s * (t * q)) % s = 0
    BY <1>2, <1>5, MultipleFacts
  <1> QED  BY <1>4, <1>5, <1>6

LEMMA MultiplesAreFloats ==
    ASSUME NEW n \in Int, NEW digits \in Nat \ {0}, NEW k \in Nat,
           Magnitude(n) <= Pow2[digits + k], Magnitude(n) % Pow2[k] = 0
    PROVE  IsFloat(n, digits)
  <1> PICK m : m = Magnitude(n)
    OBVIOUS
  <1>1. m \in Nat
    BY MagnitudeFacts
  <1>2. PICK j : IsExponent(j, m, digits)
    BY <1>1, ExponentExists
  <1>3. j \in Nat /\ (j > 0 => m >= Pow2[digits + j - 1])
    BY <1>2 DEF IsExponent
  <1>4. CASE j <= k
    <2>1. m % Pow2[j] = 0
      BY <1>1, <1>3, <1>4, MultipleOfSmaller
    <2> QED  BY <1>2, <2>1, FloatMeaning
  <1>5. CASE j = k + 1
    <2>1. digits + j - 1 = digits + k /\ j > 0 /\ digits + k \in Nat
      BY <1>5
    <2>2. Pow2[digits + k] \in Nat
      BY <2>1, PowersArePositive
    <2>3. m = Pow2[digits + k]
      BY <1>1, <1>3, <2>1, <2>2
    <2>4. j <= digits + k
      BY <1>5
    <2>5. Pow2[digits + k] % Pow2[digits + k] = 0
      BY <2>1, PowersArePositive
    <2>6. m % Pow2[j] = 0
      BY <1>1, <1>3, <2>1, <2>3, <2>4, <2>5, MultipleOfSmaller
    <2> QED  BY <1>2, <2>6, FloatMeaning
  <1>6. CASE j > k + 1
    <2>1. /\ digits + k \in Nat /\ (digits + k) + 1 \in Nat /\ digits + j - 1 \in Nat
          /\ (digits + k) + 1 <= digits + j - 1
      BY <1>3, <1>6
    <2>2. Pow2[(digits + k) + 1] <= Pow2[digits + j - 1]
      BY <2>1, PowersGrow
    <2>3. Pow2[(digits + k) + 1] = 2 * Pow2[digits + k]
      BY <2>1, PowersAre
    <2>4. Pow2[digits + k] \in Nat \ {0} /\ Pow2[digits + j - 1] \in Nat
      BY <2>1, PowersArePositive
    <2>5. m >= Pow2[digits + j - 1]
      BY <1>3, <1>6
    <2> QED  BY <1>1, <2>2, <2>3, <2>4, <2>5
  <1> QED  BY <1>3, <1>4, <1>5, <1>6

(* Every float is a number with more digits, too.                          *)
LEMMA FloatsAreDoubles ==
    ASSUME NEW few \in Nat \ {0}, NEW many \in Nat \ {0}, few <= many,
           NEW n \in Int, IsFloat(n, few)
    PROVE  IsFloat(n, many)
  <1> PICK m : m = Magnitude(n)
    OBVIOUS
  <1>1. m \in Nat
    BY MagnitudeFacts
  <1>2. PICK k : IsExponent(k, m, few)
    BY <1>1, ExponentExists
  <1>3. k \in Nat /\ m < Pow2[few + k]
    BY <1>2 DEF IsExponent
  <1>4. m % Pow2[k] = 0
    BY <1>2, FloatMeaning
  <1>5. few + k \in Nat /\ many + k \in Nat /\ few + k <= many + k
    BY <1>3
  <1>6. Pow2[few + k] <= Pow2[many + k] /\ Pow2[few + k] \in Nat /\ Pow2[many + k] \in Nat
    BY <1>5, PowersGrow, PowersArePositive
  <1>7. m <= Pow2[many + k]
    BY <1>1, <1>3, <1>6
  <1> QED  BY <1>3, <1>4, <1>7, MultiplesAreFloats

(* The magnitude m lies between two neighbouring multiples of its spacing, *)
(* which are floats, and no float lies between them.                       *)
LEMMA SpacingOfMagnitude ==
    ASSUME NEW digits \in Nat \ {0}, NEW m \in Nat, NEW k, IsExponent(k, m, digits),
           NEW s, s = Pow2[k], NEW b, b = m \div s
    PROVE  /\ s \in Nat \ {0} /\ b \in Nat /\ s * b \in Nat
           /\ m % s = m - s * b /\ m % s \in 0 .. s - 1
           /\ s * (b + 1) = s * b + s
           /\ b + 1 <= Pow2[digits]
           /\ s * (b + 1) <= Pow2[digits + k]
  <1>1. k \in Nat /\ s \in Nat \ {0} /\ Pow2[digits] \in Nat \ {0}
    BY PowersArePositive DEF IsExponent
  <1>2. b \in Nat
    BY <1>1
  <1> PICK p : p = Pow2[digits]
    OBVIOUS
  <1>3. Pow2[digits + k] = p * s
    BY <1>1, PowerOfSum
  <1>4. m < p * s
    BY <1>3 DEF IsExponent
  <1>5. m % s \in 0 .. s - 1 /\ m = b * s + (m % s)
    <2>1. m \in Int /\ m % s \in 0 .. s - 1
      BY <1>1
    <2>2. m = (m \div s) * s + (m % s)
      BY ONLY <1>1, <2>1, AllRemainders
    <2> QED  BY <2>1, <2>2
  <1>6. b * s = s * b /\ s * b \in Nat /\ s * (b + 1) = s * b + s /\ p * s = s * p
    BY <1>1, <1>2
  <1>7. b + 1 <= p
    <2> SUFFICES ASSUME b >= p  PROVE FALSE
      BY <1>1, <1>2
    <2>1. s * b = s * p + s * (b - p) /\ b - p \in Nat
      BY <1>1, <1>2
    <2>2. s * (b - p) \in Nat
      BY <1>1, <2>1
    <2>3. s * p \in Nat
      BY <1>1
    <2> QED  BY <1>1, <1>2, <1>4, <1>5, <1>6, <2>1, <2>2, <2>3
  <1>8. s * (b + 1) <= s * p
    <2>1. s * p = s * (b + 1) + s * (p - (b + 1)) /\ p - (b + 1) \in Nat
      BY <1>1, <1>2, <1>7
    <2>2. s * (p - (b + 1)) \in Nat /\ s * (b + 1) \in Nat
      BY <1>1, <1>2, <2>1
    <2> QED  BY <2>1, <2>2
  <1> QED  BY <1>1, <1>2, <1>3, <1>5, <1>6, <1>7, <1>8

LEMMA NoFloatBetween ==
    ASSUME NEW digits \in Nat \ {0}, NEW m \in Nat, NEW k, IsExponent(k, m, digits),
           NEW s, s = Pow2[k], NEW b, b = m \div s,
           NEW g \in Nat, NEW j, IsExponent(j, g, digits), g % Pow2[j] = 0
    PROVE  g <= s * b \/ g >= s * b + s
  <1>1. s \in Nat \ {0} /\ b \in Nat /\ s * b \in Nat /\ m < s * b + s /\ m >= s * b
    BY SpacingOfMagnitude
  <1>2. j \in Nat /\ k \in Nat /\ g < Pow2[digits + j]
    BY DEF IsExponent
  <1>3. CASE k <= j
    <2>1. g % s = 0
      BY <1>2, <1>3, MultipleOfSmaller
    <2> PICK q : q = g \div s
      OBVIOUS
    <2>2. q \in Nat /\ g = s * q
      BY <1>1, <2>1, MultipleFacts
    <2>3. CASE q <= b
      <3>1. s * b = s * q + s * (b - q) /\ b - q \in Nat
        BY <1>1, <2>2, <2>3
      <3>2. s * (b - q) \in Nat
        BY <1>1, <3>1
      <3> QED  BY <1>1, <2>2, <3>1, <3>2
    <2>4. CASE q >= b + 1
      <3>1. s * q = s * b + s + s * (q - (b + 1)) /\ q - (b + 1) \in Nat
        BY <1>1, <2>2, <2>4
      <3>2. s * (q - (b + 1)) \in Nat
        BY <1>1, <3>1
      <3> QED  BY <1>1, <2>2, <3>1, <3>2
    <2> QED  BY <1>1, <2>2, <2>3, <2>4
  <1>4. CASE j < k
    <2>1. /\ k > 0 /\ digits + j <= digits + k - 1 /\ digits - 1 \in Nat /\ digits + k - 1 = k + (digits - 1)
          /\ digits + j \in Nat /\ digits + k - 1 \in Nat
      BY <1>2, <1>4
    <2> PICK p : p = Pow2[digits - 1]
      OBVIOUS
    <2>2. Pow2[digits + k - 1] = s * p /\ p \in Nat
      BY <1>2, <2>1, PowerOfSum, PowersArePositive
    <2>3. m >= s * p
      BY <2>1, <2>2 DEF IsExponent
    <2>4. p <= b
      <3> SUFFICES ASSUME p >= b + 1  PROVE FALSE
        BY <1>1, <2>2
      <3>1. s * p = s * b + s + s * (p - (b + 1)) /\ p - (b + 1) \in Nat
        BY <1>1, <2>2
      <3>2. s * (p - (b + 1)) \in Nat
        BY <1>1, <3>1
      <3> QED  BY <1>1, <2>3, <3>1, <3>2
    <2>5. s * b = s * p + s * (b - p) /\ s * (b - p) \in Nat /\ s * p \in Nat
      <3>1. b - p \in Nat
        BY <1>1, <2>2, <2>4
      <3>2. s * (b - p) \in Nat /\ s * p \in Nat
        BY <1>1, <2>2, <3>1
      <3>3. s * b = s * p + s * (b - p)
        BY <1>1, <2>2
      <3> QED  BY <3>2, <3>3
    <2>6. Pow2[digits + j] <= s * p /\ Pow2[digits + j] \in Nat
      BY <2>1, <2>2, PowersGrow, PowersArePositive
    <2> QED  BY <1>1, <1>2, <2>5, <2>6
  <1> QED  BY <1>2, <1>3, <1>4

LEMMA RoundedMagnitude ==
    ASSUME NEW n \in Int, NEW digits \in Nat \ {0}
    PROVE  \E r \in Nat :
              /\ Rounded(n, digits) = IF n < 0 THEN - r ELSE r
              /\ IsFloat(r, digits)
              /\ \A g \in Nat : IsFloat(g, digits) =>
                    Magnitude(Magnitude(n) - r) <= Magnitude(Magnitude(n) - g)
  <1> PICK m : m = Magnitude(n)
    OBVIOUS
  <1>1. m \in Nat
    BY MagnitudeFacts
  <1>2. PICK k : IsExponent(k, m, digits)
    BY <1>1, ExponentExists
  <1>3. k \in Nat
    BY <1>2 DEF IsExponent
  <1> PICK s : s = Pow2[k]
    OBVIOUS
  <1> PICK b : b = m \div s
    OBVIOUS
  <1> PICK lo : lo = s * b
    OBVIOUS
  <1>4. /\ s \in Nat \ {0} /\ b \in Nat /\ lo \in Nat /\ m % s = m - lo /\ m % s \in 0 .. s - 1
        /\ s * (b + 1) = lo + s /\ lo + s <= Pow2[digits + k]
    BY <1>1, <1>2, SpacingOfMagnitude
  <1> PICK up : up = (2 * (m % s) > s \/ (2 * (m % s) = s /\ b % 2 = 1))
    OBVIOUS
  <1> PICK r : r = s * (IF up THEN b + 1 ELSE b)
    OBVIOUS
  <1>5. Rounded(n, digits) = IF n < 0 THEN - r ELSE r
    <2>1. Spacing(n, digits) = s
      BY <1>2, FloatMeaning
    <2> QED  BY <2>1 DEF Rounded
  <1>6. r = IF up THEN lo + s ELSE lo
    BY <1>4
  <1>7. r \in Nat
    BY <1>4, <1>6
  <1>8. IsFloat(r, digits)
    <2>1. r % s = 0
      <3>1. (IF up THEN b + 1 ELSE b) \in Nat
        BY <1>4
      <3> QED  BY <1>4, <3>1, MultipleFacts
    <2>2. Magnitude(r) = r /\ r \in Int
      BY <1>7, MagnitudeFacts
    <2>3. Pow2[digits + k] \in Nat
      BY <1>3, PowersArePositive
    <2>4. r <= Pow2[digits + k]
      BY <1>4, <1>6, <2>3
    <2> QED  BY <1>3, <2>1, <2>2, <2>4, MultiplesAreFloats
  <1>9. ASSUME NEW g \in Nat, IsFloat(g, digits)
        PROVE  Magnitude(m - r) <= Magnitude(m - g)
    <2>1. PICK j : IsExponent(j, g, digits)
      BY ExponentExists
    <2>2. Magnitude(g) = g
      BY MagnitudeFacts
    <2>3. g % Pow2[j] = 0
      <3>1. IsExponent(j, Magnitude(g), digits) /\ g \in Int
        BY <2>1, <2>2
      <3>2. Magnitude(g) % Pow2[j] = 0
        BY <1>9, <3>1, FloatMeaning
      <3> QED  BY <2>2, <3>2
    <2>4. g <= lo \/ g >= lo + s
      BY <1>1, <1>2, <2>1, <2>3, NoFloatBetween
    <2>5. (up => 2 * (m - lo) >= s) /\ (~ up => 2 * (m - lo) <= s)
      <3> PICK t : t = 2 * (m % s)
        OBVIOUS
      <3>1. t \in Int /\ t = 2 * (m - lo)
        BY <1>4
      <3>2. up => t > s \/ t = s
        OBVIOUS
      <3>3. ~ up => ~ t > s
        OBVIOUS
      <3> QED  BY <1>4, <3>1, <3>2, <3>3
    <2>6. m >= lo /\ m < lo + s
      BY <1>1, <1>4
    <2>7. CASE up
      <3>1. Magnitude(m - r) = lo + s - m
        BY <1>1, <1>4, <1>6, <2>6, <2>7, MagnitudeFacts
      <3>2. g <= lo => Magnitude(m - g) = m - g
        BY <1>1, <1>4, <2>6, MagnitudeFacts
      <3>3. g >= lo + s => Magnitude(m - g) = g - m
        BY <1>1, <1>4, <2>6, MagnitudeFacts
      <3> QED  BY <1>1, <1>4, <2>4, <2>5, <2>6, <2>7, <3>1, <3>2, <3>3
    <2>8. CASE ~ up
      <3>1. Magnitude(m - r) = m - lo
        BY <1>1, <1>4, <1>6, <2>6, <2>8, MagnitudeFacts
      <3>2. g <= lo => Magnitude(m - g) = m - g
        BY <1>1, <1>4, <2>6, MagnitudeFacts
      <3>3. g >= lo + s => Magnitude(m - g) = g - m
        BY <1>1, <1>4, <2>6, MagnitudeFacts
      <3> QED  BY <1>1, <1>4, <2>4, <2>5, <2>6, <2>8, <3>1, <3>2, <3>3
    <2> QED  BY <2>7, <2>8
  <1> QED  BY <1>5, <1>7, <1>8, <1>9

(* A float changes its sign and stays one.                                 *)
LEMMA FloatsHaveSigns ==
    ASSUME NEW n \in Int, NEW digits
    PROVE  IsFloat(n, digits) = IsFloat(Magnitude(n), digits)
  <1> PICK m : m = Magnitude(n)
    OBVIOUS
  <1>1. m \in Nat /\ Magnitude(m) = m
    BY MagnitudeFacts
  <1>2. Spacing(n, digits) = Spacing(m, digits)
    BY <1>1 DEF Spacing
  <1>3. IsFloat(n, digits) = (m % Spacing(n, digits) = 0)
    BY DEF IsFloat
  <1>4. IsFloat(m, digits) = (m % Spacing(m, digits) = 0)
    BY <1>1 DEF IsFloat
  <1> QED  BY <1>2, <1>3, <1>4

LEMMA RoundedIsNearest ==
    ASSUME NEW n \in Int, NEW digits \in Nat \ {0}
    PROVE  /\ Rounded(n, digits) \in Int
           /\ IsFloat(Rounded(n, digits), digits)
           /\ \A f \in Int : IsFloat(f, digits) =>
                 Magnitude(n - Rounded(n, digits)) <= Magnitude(n - f)
  <1> PICK m : m = Magnitude(n)
    OBVIOUS
  <1>1. PICK r \in Nat :
            /\ Rounded(n, digits) = IF n < 0 THEN - r ELSE r
            /\ IsFloat(r, digits)
            /\ \A g \in Nat : IsFloat(g, digits) => Magnitude(m - r) <= Magnitude(m - g)
    BY RoundedMagnitude
  <1> PICK q : q = Rounded(n, digits)
    OBVIOUS
  <1>2. q \in Int /\ q = IF n < 0 THEN - r ELSE r
    BY <1>1
  <1>3. Magnitude(q) = r
    BY <1>2, MagnitudeFacts
  <1>4. IsFloat(q, digits)
    BY <1>1, <1>2, <1>3, FloatsHaveSigns
  <1>5. ASSUME NEW f \in Int, IsFloat(f, digits)
        PROVE  Magnitude(n - q) <= Magnitude(n - f)
    <2> PICK g : g = Magnitude(f)
      OBVIOUS
    <2>1. g \in Nat /\ IsFloat(g, digits)
      BY <1>5, MagnitudeFacts, FloatsHaveSigns
    <2>2. Magnitude(m - r) <= Magnitude(m - g)
      BY <1>1, <2>1
    <2>3. m = (IF n < 0 THEN - n ELSE n) /\ g = (IF f < 0 THEN - f ELSE f)
      BY MagnitudeFacts
    <2>4. Magnitude(m - r) = IF m - r < 0 THEN - (m - r) ELSE m - r
      BY <2>3, MagnitudeFacts
    <2>5. Magnitude(m - g) = IF m - g < 0 THEN - (m - g) ELSE m - g
      BY <2>1, <2>3, MagnitudeFacts
    <2>6. Magnitude(n - q) = IF n - q < 0 THEN - (n - q) ELSE n - q
      BY <1>2, MagnitudeFacts
    <2>7. Magnitude(n - f) = IF n - f < 0 THEN - (n - f) ELSE n - f
      BY MagnitudeFacts
    <2>8. Magnitude(n - q) = Magnitude(m - r)
      BY <1>2, <2>3, <2>4, <2>6
    <2>9. Magnitude(m - g) <= Magnitude(n - f)
      BY <2>1, <2>3, <2>5, <2>7
    <2>10. Magnitude(n - q) \in Int /\ Magnitude(m - g) \in Int /\ Magnitude(n - f) \in Int
      BY <1>2, <2>1, <2>3, MagnitudeFacts
    <2> QED  BY <2>2, <2>8, <2>9, <2>10
  <1> QED  BY <1>2, <1>4, <1>5

LEMMA FloatsRoundToThemselves ==
    ASSUME NEW n \in Int, NEW digits \in Nat \ {0}, IsFloat(n, digits)
    PROVE  Rounded(n, digits) = n
  <1> PICK r : r = Rounded(n, digits)
    OBVIOUS
  <1>1. r \in Int /\ Magnitude(n - r) <= Magnitude(n - n)
    BY RoundedIsNearest
  <1>2. Magnitude(n - n) = 0
    BY MagnitudeFacts
  <1>3. Magnitude(n - r) = IF n - r < 0 THEN - (n - r) ELSE n - r
    BY <1>1, MagnitudeFacts
  <1> QED  BY <1>1, <1>2, <1>3

(* Rounded once more, to fewer digits, a number still has no float between *)
(* it and the result.                                                      *)
LEMMA RoundedTwice ==
    ASSUME NEW n \in Int, NEW few \in Nat \ {0}, NEW many \in Nat \ {0}, few <= many,
           NEW d, d = Rounded(n, many), NEW r, r = Rounded(d, few)
    PROVE  /\ r \in Int /\ IsFloat(r, few)
           /\ \A f \in Int : IsFloat(f, few) => ~ (n < f /\ f < r) /\ ~ (r < f /\ f < n)
           /\ IsFloat(n, few) => r = n
  <1>1. d \in Int
    BY RoundedIsNearest
  <1>2. r \in Int /\ IsFloat(r, few)
    BY <1>1, RoundedIsNearest
  <1>3. ASSUME NEW f \in Int, IsFloat(f, few)
        PROVE  ~ (n < f /\ f < r) /\ ~ (r < f /\ f < n)
    <2>1. IsFloat(f, many)
      BY <1>3, FloatsAreDoubles
    <2>2. Magnitude(n - d) <= Magnitude(n - f)
      BY <2>1, RoundedIsNearest
    <2>3. Magnitude(d - r) <= Magnitude(d - f)
      BY <1>1, <1>3, RoundedIsNearest
    <2>4. /\ Magnitude(n - d) = IF n - d < 0 THEN - (n - d) ELSE n - d
          /\ Magnitude(n - f) = IF n - f < 0 THEN - (n - f) ELSE n - f
          /\ Magnitude(d - r) = IF d - r < 0 THEN - (d - r) ELSE d - r
          /\ Magnitude(d - f) = IF d - f < 0 THEN - (d - f) ELSE d - f
      BY <1>1, <1>2, MagnitudeFacts
    <2> QED  BY <1>1, <1>2, <2>2, <2>3, <2>4
  <1>4. ASSUME IsFloat(n, few)  PROVE r = n
    <2>1. IsFloat(n, many)
      BY <1>4, FloatsAreDoubles
    <2>2. d = n
      BY <2>1, FloatsRoundToThemselves
    <2> QED  BY <1>4, <2>2, FloatsRoundToThemselves
  <1> QED  BY <1>2, <1>3, <1>4

(* Four quarters are one, and less than one is cut off.                    *)
LEMMA QuotientBySign ==
    ASSUME NEW x \in Int
    PROVE  Quotient(x, 4) = IF x < 0 THEN - ((- x) \div 4) ELSE x \div 4
  <1>1. Magnitude(x) = (IF x < 0 THEN - x ELSE x) /\ Magnitude(4) = 4
    BY MagnitudeFacts
  <1>2. (4 < 0) = FALSE /\ (x < 0) \in BOOLEAN
    OBVIOUS
  <1>3. CASE x < 0
    BY <1>1, <1>2, <1>3 DEF Quotient
  <1>4. CASE ~ x < 0
    BY <1>1, <1>2, <1>4 DEF Quotient
  <1> QED  BY <1>3, <1>4

LEMMA QuartersOfFour ==
    ASSUME NEW x \in Int
    PROVE  Quotient(4 * x, 4) = x
  <1>1. 4 * x \in Int /\ (- (4 * x)) \div 4 = - x /\ (4 * x) \div 4 = x
    OBVIOUS
  <1>2. Quotient(4 * x, 4) = IF 4 * x < 0 THEN - ((- (4 * x)) \div 4) ELSE (4 * x) \div 4
    BY <1>1, QuotientBySign
  <1> QED  BY <1>1, <1>2

LEMMA QuartersAreCut ==
    ASSUME NEW x \in Int
    PROVE  /\ Quotient(x, 4) \in Int
           /\ x - 4 * Quotient(x, 4) \in (IF x < 0 THEN -3 .. 0 ELSE 0 .. 3)
  <1>1. CASE x < 0
    <2> PICK q : q = (- x) \div 4
      OBVIOUS
    <2>1. q \in Int /\ 4 * q <= - x /\ - x <= 4 * q + 3
      OBVIOUS
    <2>2. Quotient(x, 4) = - q
      BY <1>1, QuotientBySign
    <2> QED  BY <1>1, <2>1, <2>2
  <1>2. CASE ~ x < 0
    <2> PICK q : q = x \div 4
      OBVIOUS
    <2>1. q \in Int /\ 4 * q <= x /\ x <= 4 * q + 3
      OBVIOUS
    <2>2. Quotient(x, 4) = q
      BY <1>2, QuotientBySign
    <2> QED  BY <1>2, <2>1, <2>2
  <1> QED  BY <1>1, <1>2

(* To a narrower integer and back, for a value that fits.                  *)
LEMMA NarrowerAndBack ==
    ASSUME NEW v \in Nat \ {0}, NEW w \in Nat \ {0}, w <= v, NEW x \in Ints(v)
    PROVE  /\ x < Pow2[w] => ZExt(Trunc(x, w), w, v) = x
           /\ Signed(x, v) \in - Pow2[w - 1] .. Pow2[w - 1] - 1 => SExt(Trunc(x, w), w, v) = x
  <1>1. x \in Nat
    BY IntsAreNumbers
  <1>2. Pow2[v] \in Nat \ {0} /\ Pow2[w] \in Nat \ {0}
    BY PowersArePositive
  <1>3. ASSUME x < Pow2[w]  PROVE ZExt(Trunc(x, w), w, v) = x
    <2>1. x \in 0 .. Pow2[w] - 1
      BY <1>1, <1>2, <1>3
    <2>2. x % Pow2[w] = x
      BY <1>2, <2>1, SmallRemainders
    <2> QED  BY <2>2 DEF ZExt, Trunc
  <1>4. ASSUME Signed(x, v) \in - Pow2[w - 1] .. Pow2[w - 1] - 1
        PROVE  SExt(Trunc(x, w), w, v) = x
    <2> PICK s : s = Signed(x, v)
      OBVIOUS
    <2> PICK k : k = v - w
      OBVIOUS
    <2>1. k \in Nat /\ Pow2[v] = Pow2[w] * Pow2[k] /\ Pow2[k] \in Nat
      BY PowersGrow, PowersArePositive
    <2>2. s = x \/ s = x - Pow2[v]
      BY SignFacts
    <2>3. s \in Int
      BY <1>1, <1>2, <2>2
    <2>4. x = s \/ x = s + Pow2[k] * Pow2[w]
      <3>1. Pow2[w] * Pow2[k] = Pow2[k] * Pow2[w]
        BY <1>2, <2>1
      <3>2. s = x - Pow2[v] => x = s + Pow2[v]
        BY <1>1, <1>2
      <3> QED  BY ONLY <2>1, <2>2, <3>1, <3>2
    <2>5. (s + Pow2[k] * Pow2[w]) % Pow2[w] = s % Pow2[w]
      <3>1. \A m \in Nat \ {0}, a \in Int, j \in Int : (a + j * m) % m = a % m
        BY RemainderOfSum
      <3>2. Pow2[k] \in Int
        BY <2>1
      <3> QED  BY ONLY <1>2, <2>3, <3>1, <3>2
    <2>6. x % Pow2[w] = s % Pow2[w]
      BY ONLY <2>4, <2>5
    <2>7. Signed(s % Pow2[w], w) = s
      BY <1>4, SignRoundTrip
    <2>8. s % Pow2[v] = x
      BY SignedAndBack
    <2> QED  BY ONLY <2>6, <2>7, <2>8 DEF SExt, Trunc
  <1> QED  BY <1>3, <1>4


(* What a cast of each kind starts from.                                   *)
LEMMA CastFacts ==
    ASSUME NEW i \in Casts
    PROVE  /\ i.op \in CastOps
           /\ i.op \in IntegerCastOps \cup {"UIToFP", "SIToFP"} =>
                 i.from \in Nat \ {0} /\ i.x \in Ints(i.from)
           /\ i.op \in IntegerCastOps \cup {"FPToUI", "FPToSI"} => i.to \in Nat \ {0}
           /\ i.op = "Trunc" => i.to <= i.from
           /\ i.op \in {"ZExt", "SExt"} => i.from <= i.to
           /\ i.op = "PtrToInt" => i.from = PointerBits
           /\ i.op \in {"UIToFP", "SIToFP"} => i.to \in FloatKinds
           /\ i.op \in {"FPToUI", "FPToSI", "FPTrunc", "FPExt"} => i.x \in Int
           /\ i.op = "FPToUI" => Quotient(i.x, 4) \in Ints(i.to)
           /\ i.op = "FPToSI" => Quotient(i.x, 4) \in - Pow2[i.to - 1] .. Pow2[i.to - 1] - 1
           /\ i.op = "FPExt" => IsFloat(i.x, FloatDigits) /\ i.to = DoubleDigits
           /\ i.op = "FPTrunc" => i.to = FloatDigits
  <1> PICK op \in CastOps : \E ws \in CastTypes(op) :
            i \in [visit : {"Cast"}, op : {op}, from : {ws[1]}, to : {ws[2]},
                   x : CastOperands(op, ws[1], ws[2])]
    BY DEF Casts
  <1>1. PICK ws \in CastTypes(op) :
            i \in [visit : {"Cast"}, op : {op}, from : {ws[1]}, to : {ws[2]},
                   x : CastOperands(op, ws[1], ws[2])]
    OBVIOUS
  <1> PICK v : v = ws[1]
    OBVIOUS
  <1> PICK w : w = ws[2]
    OBVIOUS
  <1> PICK x : x = i.x
    OBVIOUS
  <1>2. i.op = op /\ i.from = v /\ i.to = w /\ x \in CastOperands(op, v, w)
    BY <1>1
  <1>3. \/ op = "Trunc" \/ op \in {"ZExt", "SExt"} \/ op = "PtrToInt" \/ op = "IntToPtr"
        \/ op \in {"UIToFP", "SIToFP"} \/ op = "FPToUI" \/ op = "FPToSI" \/ op = "FPTrunc" \/ op = "FPExt"
    BY DEF CastOps, IntegerCastOps, FloatCastOps
  <1>4. Widths \subseteq Nat \ {0} /\ PointerBits \in Nat \ {0}
    BY WidthsAssumption
  <1>5. \A digits : FloatsWith(digits) \subseteq Int
    <2>1. MaxQuarters \in Int
      BY MaximumAssumption
    <2> QED  BY <2>1 DEF FloatsWith
  <1>6. CASE op = "Trunc"
    <2>1. ws \in {us \in Widths \X Widths : us[1] >= us[2]}
      BY <1>6 DEF CastTypes
    <2>2. v \in Nat \ {0} /\ w \in Nat \ {0} /\ w <= v
      BY <1>4, <2>1
    <2>3. x \in Ints(v)
      BY <1>2, <1>6 DEF CastOperands, IntegerCastOps
    <2> QED  BY <1>2, <1>6, <2>2, <2>3
  <1>7. CASE op \in {"ZExt", "SExt"}
    <2>1. ws \in {us \in Widths \X Widths : us[1] <= us[2]}
      BY <1>7 DEF CastTypes
    <2>2. v \in Nat \ {0} /\ w \in Nat \ {0} /\ v <= w
      BY <1>4, <2>1
    <2>3. x \in Ints(v)
      BY <1>2, <1>7 DEF CastOperands, IntegerCastOps
    <2> QED  BY <1>2, <1>7, <2>2, <2>3
  <1>8. CASE op = "PtrToInt"
    <2>1. ws \in {PointerBits} \X Widths
      BY <1>8 DEF CastTypes
    <2>2. v = PointerBits /\ w \in Nat \ {0}
      BY <1>4, <2>1
    <2>3. x \in Ints(v)
      BY <1>2, <1>8 DEF CastOperands, IntegerCastOps
    <2> QED  BY <1>2, <1>4, <1>8, <2>2, <2>3
  <1>9. CASE op = "IntToPtr"
    <2>1. ws \in Widths \X {PointerBits}
      BY <1>9 DEF CastTypes
    <2>2. v \in Nat \ {0} /\ w = PointerBits
      BY <1>4, <2>1
    <2>3. x \in Ints(v)
      BY <1>2, <1>9 DEF CastOperands, IntegerCastOps
    <2> QED  BY <1>2, <1>4, <1>9, <2>2, <2>3
  <1>10. CASE op \in {"UIToFP", "SIToFP"}
    <2>1. ws \in Widths \X FloatKinds
      BY <1>10 DEF CastTypes
    <2>2. v \in Nat \ {0} /\ w \in FloatKinds
      BY <1>4, <2>1
    <2>3. x \in Ints(v)
      BY <1>2, <1>10 DEF CastOperands, IntegerCastOps
    <2> QED  BY <1>2, <1>10, <2>2, <2>3 DEF IntegerCastOps
  <1>11. CASE op = "FPToUI"
    <2>1. ws \in FloatKinds \X Widths
      BY <1>11 DEF CastTypes
    <2>2. w \in Nat \ {0}
      BY <1>4, <2>1
    <2>3. x \in {q \in FloatsWith(v) : Quotient(q, 4) \in Ints(w)}
      BY <1>2, <1>11 DEF CastOperands, IntegerCastOps
    <2> QED  BY <1>2, <1>5, <1>11, <2>2, <2>3 DEF IntegerCastOps
  <1>12. CASE op = "FPToSI"
    <2>1. ws \in FloatKinds \X Widths
      BY <1>12 DEF CastTypes
    <2>2. w \in Nat \ {0}
      BY <1>4, <2>1
    <2>3. x \in {q \in FloatsWith(v) : Quotient(q, 4) \in - Pow2[w - 1] .. Pow2[w - 1] - 1}
      BY <1>2, <1>12 DEF CastOperands, IntegerCastOps
    <2> QED  BY <1>2, <1>5, <1>12, <2>2, <2>3 DEF IntegerCastOps
  <1>13. CASE op = "FPTrunc"
    <2>1. ws \in {<<DoubleDigits, FloatDigits>>}
      BY <1>13 DEF CastTypes
    <2>2. x \in FloatsWith(v)
      BY <1>2, <1>13 DEF CastOperands, IntegerCastOps
    <2> QED  BY <1>2, <1>5, <1>13, <2>1, <2>2 DEF IntegerCastOps
  <1>14. CASE op = "FPExt"
    <2>1. ws \in {<<FloatDigits, DoubleDigits>>}
      BY <1>14 DEF CastTypes
    <2>2. x \in FloatsWith(v) /\ v = FloatDigits
      BY <1>2, <1>14, <2>1 DEF CastOperands, IntegerCastOps
    <2>3. IsFloat(x, FloatDigits)
      BY <2>2 DEF FloatsWith
    <2> QED  BY <1>2, <1>5, <1>14, <2>1, <2>2, <2>3 DEF IntegerCastOps
  <1> QED  BY <1>3, <1>6, <1>7, <1>8, <1>9, <1>10, <1>11, <1>12, <1>13, <1>14

LEMMA DigitsFacts ==
    /\ FloatDigits \in Nat \ {0} /\ DoubleDigits \in Nat \ {0}
    /\ FloatDigits <= DoubleDigits /\ FloatDigits # DoubleDigits
  BY DigitsAssumption

LEMMA FloatsAreInts ==
    ASSUME NEW digits, NEW f \in FloatsWith(digits)
    PROVE  f \in Int /\ IsFloat(f, digits)
  <1>1. MaxQuarters \in Int
    BY MaximumAssumption
  <1> QED  BY <1>1 DEF FloatsWith

(* From an integer to a float or a double.                                 *)
LEMMA RoundAPIntIsNear ==
    ASSUME NEW n \in Int, NEW digits \in FloatKinds, NEW r, r = RoundAPInt(n, digits)
    PROVE  /\ NextTo(4 * n, r, digits)
           /\ digits = DoubleDigits => Nearest(4 * n, r, digits)
           /\ IsFloat(4 * n, digits) => r = 4 * n
  <1> PICK four : four = 4 * n
    OBVIOUS
  <1>1. four \in Int
    OBVIOUS
  <1> PICK d : d = Rounded(four, DoubleDigits)
    OBVIOUS
  <1>2. /\ d \in Int /\ IsFloat(d, DoubleDigits)
        /\ \A f \in Int : IsFloat(f, DoubleDigits) => Magnitude(four - d) <= Magnitude(four - f)
    BY <1>1, DigitsFacts, RoundedIsNearest
  <1>3. CASE digits = FloatDigits
    <2>1. r = Rounded(d, FloatDigits)
      BY <1>3, DigitsFacts DEF RoundAPInt, FPTrunc
    <2>2. /\ r \in Int /\ IsFloat(r, FloatDigits)
          /\ \A f \in Int : IsFloat(f, FloatDigits) => ~ (four < f /\ f < r) /\ ~ (r < f /\ f < four)
          /\ IsFloat(four, FloatDigits) => r = four
      BY <1>1, <2>1, DigitsFacts, RoundedTwice
    <2>3. NextTo(four, r, FloatDigits)
      BY <2>2, FloatsAreInts DEF NextTo
    <2> QED  BY <1>3, <2>2, <2>3, DigitsFacts
  <1>4. CASE digits = DoubleDigits
    <2>1. r = d
      BY <1>4 DEF RoundAPInt
    <2>2. Nearest(four, r, DoubleDigits)
      BY <1>2, <2>1, FloatsAreInts DEF Nearest
    <2>3. NextTo(four, r, DoubleDigits)
      <3>1. ASSUME NEW f \in FloatsWith(DoubleDigits)
            PROVE  ~ (four < f /\ f < r) /\ ~ (r < f /\ f < four)
        <4>1. f \in Int /\ Magnitude(four - r) <= Magnitude(four - f)
          BY <1>2, <2>1, FloatsAreInts
        <4>2. /\ Magnitude(four - r) = IF four - r < 0 THEN - (four - r) ELSE four - r
              /\ Magnitude(four - f) = IF four - f < 0 THEN - (four - f) ELSE four - f
          BY <1>1, <1>2, <2>1, <4>1, MagnitudeFacts
        <4> QED  BY <1>1, <1>2, <2>1, <4>1, <4>2
      <3> QED  BY <1>2, <2>1, <3>1 DEF NextTo
    <2>4. IsFloat(four, DoubleDigits) => r = four
      BY <1>1, <2>1, DigitsFacts, FloatsRoundToThemselves
    <2> QED  BY <1>4, <2>2, <2>3, <2>4
  <1> QED  BY <1>3, <1>4 DEF FloatKinds

LEMMA FromInteger ==
    ASSUME NEW v \in Nat \ {0}, NEW x \in Ints(v), NEW n, n = x \/ n = Signed(x, v),
           NEW w \in FloatKinds, NEW r, r = RoundAPInt(n, w)
    PROVE  /\ NextTo(4 * n, r, w)
           /\ w = DoubleDigits => Nearest(4 * n, r, w)
           /\ IsFloat(4 * n, w) => RoundToAPInt(r, v) = x
  <1>1. n \in Int /\ n % Pow2[v] = x
    <2>1. x \in Int /\ x % Pow2[v] = x
      BY IntsAreNumbers
    <2>2. Signed(x, v) \in Int
      BY FlippingOrders
    <2>3. Signed(x, v) % Pow2[v] = x
      BY SignedAndBack
    <2> QED  BY <2>1, <2>2, <2>3
  <1>2. ASSUME IsFloat(4 * n, w)  PROVE RoundToAPInt(r, v) = x
    <2>1. r = 4 * n
      BY <1>1, <1>2, RoundAPIntIsNear
    <2>2. Quotient(r, 4) = n
      BY <1>1, <2>1, QuartersOfFour
    <2> QED  BY <1>1, <2>2 DEF RoundToAPInt
  <1> QED  BY <1>1, <1>2, RoundAPIntIsNear

LEMMA ToInteger ==
    ASSUME NEW x \in Int, NEW w \in Nat \ {0}, NEW r, r = RoundToAPInt(x, w)
    PROVE  /\ Quotient(x, 4) \in Ints(w) => x - 4 * r \in (IF x < 0 THEN -3 .. 0 ELSE 0 .. 3)
           /\ Quotient(x, 4) \in - Pow2[w - 1] .. Pow2[w - 1] - 1 =>
                 x - 4 * Signed(r, w) \in (IF x < 0 THEN -3 .. 0 ELSE 0 .. 3)
  <1> PICK q : q = Quotient(x, 4)
    OBVIOUS
  <1>1. q \in Int /\ x - 4 * q \in (IF x < 0 THEN -3 .. 0 ELSE 0 .. 3)
    BY QuartersAreCut
  <1>2. r = q % Pow2[w]
    BY DEF RoundToAPInt
  <1>3. q \in Ints(w) => r = q
    BY <1>2, IntsAreNumbers
  <1>4. q \in - Pow2[w - 1] .. Pow2[w - 1] - 1 => Signed(r, w) = q
    BY <1>2, SignRoundTrip
  <1> QED  BY <1>1, <1>3, <1>4

LEMMA CastsOfState == ExecutionInv => CastsBringValuesBack
  <1> SUFFICES ASSUME ExecutionInv, Visited("Cast")  PROVE CastsBringValuesBack
    BY DEF CastsBringValuesBack
  <1> PICK i : i = instruction
    OBVIOUS
  <1> PICK op : op = i.op
    OBVIOUS
  <1> PICK x : x = i.x
    OBVIOUS
  <1> PICK v : v = i.from
    OBVIOUS
  <1> PICK w : w = i.to
    OBVIOUS
  <1> PICK r : r = result
    OBVIOUS
  <1>1. /\ op \in CastOps
        /\ op \in IntegerCastOps \cup {"UIToFP", "SIToFP"} => v \in Nat \ {0} /\ x \in Ints(v)
        /\ op \in IntegerCastOps \cup {"FPToUI", "FPToSI"} => w \in Nat \ {0}
        /\ op = "Trunc" => w <= v
        /\ op \in {"ZExt", "SExt"} => v <= w
        /\ op = "PtrToInt" => v = PointerBits
        /\ op \in {"UIToFP", "SIToFP"} => w \in FloatKinds
        /\ op \in {"FPToUI", "FPToSI", "FPTrunc", "FPExt"} => x \in Int
        /\ op = "FPToUI" => Quotient(x, 4) \in Ints(w)
        /\ op = "FPToSI" => Quotient(x, 4) \in - Pow2[w - 1] .. Pow2[w - 1] - 1
        /\ op = "FPExt" => IsFloat(x, FloatDigits) /\ w = DoubleDigits
        /\ op = "FPTrunc" => w = FloatDigits
    BY CastFacts, Kinds
  <1>2. r = executeCast(op, x, v, w)
    BY DEF ExecutionInv, ComputedByMoves
  <1>3. /\ op = "Trunc" => r = Trunc(x, w)
        /\ op = "ZExt" => r = ZExt(x, v, w)
        /\ op = "SExt" => r = SExt(x, v, w)
        /\ op = "PtrToInt" => r = PtrToInt(x, w)
        /\ op = "IntToPtr" => r = IntToPtr(x, v)
        /\ op = "UIToFP" => r = RoundAPInt(x, w)
        /\ op = "SIToFP" => r = RoundAPInt(Signed(x, v), w)
        /\ op \in {"FPToUI", "FPToSI"} => r = RoundToAPInt(x, w)
        /\ op = "FPTrunc" => r = Rounded(x, FloatDigits)
        /\ op = "FPExt" => r = x
    BY <1>2 DEF executeCast, UIToFP, SIToFP, FPTrunc, FPExt
  <1>4. PointerBits \in Nat \ {0}
    BY WidthsAssumption
  <1>5. op \in {"Trunc", "ZExt", "SExt", "PtrToInt", "IntToPtr"} =>
            v \in Nat \ {0} /\ w \in Nat \ {0} /\ x \in Ints(v)
    BY <1>1 DEF IntegerCastOps
  <1>6. op = "ZExt" => Trunc(r, v) = x
    BY <1>1, <1>3, <1>5, WiderAndBack
  <1>7. op = "SExt" => Trunc(r, v) = x /\ Signed(r, w) = Signed(x, v)
    BY <1>1, <1>3, <1>5, WiderAndBack
  <1>8. op = "Trunc" =>
            /\ x < Pow2[w] => ZExt(r, w, v) = x
            /\ Signed(x, v) \in - Pow2[w - 1] .. Pow2[w - 1] - 1 => SExt(r, w, v) = x
    BY <1>1, <1>3, <1>5, NarrowerAndBack
  <1>9. op = "PtrToInt" /\ w >= PointerBits => IntToPtr(r, w) = x
    <2> SUFFICES ASSUME op = "PtrToInt", w >= PointerBits  PROVE IntToPtr(r, w) = x
      OBVIOUS
    <2>1. v = PointerBits /\ v <= w
      BY <1>1, <1>5
    <2>2. x % Pow2[w] = x /\ x % Pow2[PointerBits] = x
      BY <1>5, <2>1, WiderAndBack, IntsAreNumbers
    <2> QED  BY <1>3, <2>2 DEF PtrToInt, IntToPtr
  <1>10. op = "IntToPtr" /\ v <= PointerBits => PtrToInt(r, v) = x
    <2> SUFFICES ASSUME op = "IntToPtr", v <= PointerBits  PROVE PtrToInt(r, v) = x
      OBVIOUS
    <2>1. x % Pow2[PointerBits] = x /\ x % Pow2[v] = x
      BY <1>4, <1>5, WiderAndBack, IntsAreNumbers
    <2> QED  BY <1>3, <2>1 DEF PtrToInt, IntToPtr
  <1>11. ASSUME op \in {"UIToFP", "SIToFP"},
                NEW four, four = 4 * (IF op = "SIToFP" THEN Signed(x, v) ELSE x)
         PROVE  /\ NextTo(four, r, w)
                /\ w = DoubleDigits => Nearest(four, r, w)
                /\ IsFloat(four, w) => RoundToAPInt(r, v) = x
    <2>1. v \in Nat \ {0} /\ x \in Ints(v) /\ w \in FloatKinds
      BY <1>1, <1>11
    <2> PICK n : n = IF op = "SIToFP" THEN Signed(x, v) ELSE x
      OBVIOUS
    <2>2. r = RoundAPInt(n, w) /\ (n = x \/ n = Signed(x, v)) /\ four = 4 * n
      BY <1>3, <1>11
    <2> QED  BY <2>1, <2>2, FromInteger
  <1>12. op = "FPExt" => IsFloat(r, w) /\ FPTrunc(r) = x
    BY <1>1, <1>3, DigitsFacts, FloatsAreDoubles, FloatsRoundToThemselves DEF FPTrunc
  <1>13. op = "FPTrunc" => Nearest(x, r, w)
    BY <1>1, <1>3, DigitsFacts, RoundedIsNearest, FloatsAreInts DEF Nearest
  <1>14. op \in {"FPToUI", "FPToSI"} =>
            x - 4 * (IF op = "FPToSI" THEN Signed(r, w) ELSE r) \in (IF x < 0 THEN -3 .. 0 ELSE 0 .. 3)
    BY <1>1, <1>3, ToInteger
  <1> QED  BY <1>6, <1>7, <1>8, <1>9, <1>10, <1>11, <1>12, <1>13, <1>14 DEF CastsBringValuesBack

(* What fits comes back from a cast; what does not goes to the nearest     *)
(* double or to a float next to it, and a float is cut towards zero,       *)
(* whatever the widths and digits (Execution.cpp, the functions of the     *)
(* casts).                                                                 *)
THEOREM CastsComeBack == Spec => []CastsBringValuesBack
  BY ResultsAreComputed, CastsOfState, PTL

-----------------------------------------------------------------------------
(* Addresses.                                                              *)

(* executeGEPOperation as a fold.                                          *)
LEMMA GepMeaning ==
    ASSUME NEW p, NEW path, NEW n \in Nat, DOMAIN path = 1 .. n
    PROVE  \E g : /\ IsFold(g, "offset", path, 0, n)
                  /\ executeGEPOperation(p, path) = (p + g[1 .. n]) % Pow2[PointerBits]
  <1> DEFINE step(g, s) == (g[s \ {Max(s)}] + GepOffset(path[Max(s)])) % Pow2[PointerBits]
             g == CHOOSE g : g = [s \in SUBSET DOMAIN path |-> IF s = {} THEN 0 ELSE step(g, s)]
  <1>1. executeGEPOperation(p, path) = (p + g[DOMAIN path]) % Pow2[PointerBits]
    BY DEF executeGEPOperation, FoldLeft, MapThenFoldSet
  <1>2. \A f, s : step(f, s) = FoldStep("offset", path, f[s \ {Max(s)}], Max(s))
    BY DEF FoldStep
  <1> HIDE DEF step
  <1>3. PICK f : IsFold(f, "offset", path, 0, n)
    BY FoldExists
  <1>4. f = [s \in SUBSET DOMAIN path |-> IF s = {} THEN 0 ELSE step(f, s)]
    BY <1>2, <1>3 DEF IsFold
  <1>5. g = [s \in SUBSET DOMAIN path |-> IF s = {} THEN 0 ELSE step(g, s)]
    BY <1>4
  <1> HIDE DEF g
  <1>6. IsFold(g, "offset", path, 0, n)
    BY <1>2, <1>5 DEF IsFold
  <1> QED  BY <1>1, <1>6

LEMMA GepOfOne ==
    ASSUME NEW p, NEW index, NEW m, m = Pow2[PointerBits]
    PROVE  executeGEPOperation(p, <<index>>) = (p + ((0 + GepOffset(index)) % m)) % m
  <1> PICK path : path = <<index>>
    OBVIOUS
  <1>1. DOMAIN path = 1 .. 1 /\ path[1] = index
    OBVIOUS
  <1>2. PICK g : /\ IsFold(g, "offset", path, 0, 1)
                 /\ executeGEPOperation(p, path) = (p + g[1 .. 1]) % m
    BY <1>1, GepMeaning
  <1>3. Steps(g, "offset", path, 0, 1)
    BY <1>2, FoldSteps
  <1>4. g[1 .. 0] = 0
    BY <1>3 DEF Steps
  <1>5. \A k \in 0 .. 1 - 1 : g[1 .. k + 1] = FoldStep("offset", path, g[1 .. k], k + 1)
    BY <1>3, Zenon DEF Steps
  <1>6. g[1 .. 0 + 1] = FoldStep("offset", path, g[1 .. 0], 0 + 1)
    BY <1>5
  <1>7. \A value, i : FoldStep("offset", path, value, i) = (value + GepOffset(path[i])) % m
    BY DEF FoldStep
  <1>8. 0 + 1 = 1
    OBVIOUS
  <1>9. g[1 .. 1] = (0 + GepOffset(path[1])) % m
    BY ONLY <1>4, <1>6, <1>7, <1>8, Zenon
  <1> QED  BY <1>1, <1>2, <1>9

LEMMA GepOfTwo ==
    ASSUME NEW p, NEW first, NEW second, NEW m, m = Pow2[PointerBits]
    PROVE  executeGEPOperation(p, <<first, second>>)
              = (p + ((((0 + GepOffset(first)) % m) + GepOffset(second)) % m)) % m
  <1> PICK path : path = <<first, second>>
    OBVIOUS
  <1>1. DOMAIN path = 1 .. 2 /\ path[1] = first /\ path[2] = second
    BY OneTwo
  <1>2. PICK g : /\ IsFold(g, "offset", path, 0, 2)
                 /\ executeGEPOperation(p, path) = (p + g[1 .. 2]) % m
    BY <1>1, GepMeaning
  <1>3. g[1 .. 2] = FoldStep("offset", path, FoldStep("offset", path, 0, 1), 2)
    BY <1>2, FoldOfTwo
  <1>4. \A value, i : FoldStep("offset", path, value, i) = (value + GepOffset(path[i])) % m
    BY DEF FoldStep
  <1>5. g[1 .. 2] = (((0 + GepOffset(path[1])) % m) + GepOffset(path[2])) % m
    BY ONLY <1>3, <1>4, Zenon
  <1> QED  BY <1>1, <1>2, <1>5

LEMMA RemaindersAreInts ==
    ASSUME NEW m \in Nat \ {0}, NEW a \in Int
    PROVE  a % m \in Int
  OBVIOUS

LEMMA IndicesOfState == ExecutionInv => IndicesAreSigned
  <1> SUFFICES ASSUME ExecutionInv, Visited("GetElementPtr")  PROVE IndicesAreSigned
    BY DEF IndicesAreSigned
  <1>1. instruction \in GEPs
    BY Kinds
  <1> PICK p : p = instruction.pointer
    OBVIOUS
  <1> PICK m : m = Pow2[PointerBits]
    OBVIOUS
  <1>2. p \in Int
    BY <1>1, PowersArePositive, WidthsAssumption DEF GEPs, Ints
  <1> PICK offset \in Offsets : \E size \in Sizes, i \in Ints(IndexBits) :
           instruction.path = <<Field(offset), Element(size, IndexBits, i)>>
    BY <1>1 DEF GEPs
  <1> PICK size \in Sizes : \E i \in Ints(IndexBits) :
           instruction.path = <<Field(offset), Element(size, IndexBits, i)>>
    OBVIOUS
  <1> PICK i \in Ints(IndexBits) :
           instruction.path = <<Field(offset), Element(size, IndexBits, i)>>
    OBVIOUS
  <1> PICK s : s = Signed(i, IndexBits)
    OBVIOUS
  <1> PICK field : field = Field(offset)
    OBVIOUS
  <1> PICK short : short = Element(size, IndexBits, i)
    OBVIOUS
  <1>3. instruction.path = <<field, short>> /\ instruction.path[1] = field /\ instruction.path[2] = short
    <2> PICK path : path = <<field, short>>
      OBVIOUS
    <2>1. path[1] = field /\ path[2] = short
      BY OneTwo
    <2> QED  BY <2>1
  <1>4. IndexBits \in Nat \ {0} /\ PointerBits \in Nat \ {0} /\ IndexBits # PointerBits
    BY WidthsAssumption, IndexAssumption
  <1>5. m \in Nat \ {0}
    BY <1>4, PowersArePositive
  <1>6. s \in Int
    <2>1. s \in - Pow2[IndexBits - 1] .. Pow2[IndexBits - 1] - 1 /\ Pow2[IndexBits - 1] \in Nat
      BY <1>4, SignFacts, HalfPower
    <2> QED  BY <2>1
  <1>7. GepOffset(field) = offset /\ GepOffset(short) = size * s
    BY DEF GepOffset, Field, Element
  <1>8. \A x : GepOffset(Element(size, PointerBits, x)) = size * x
    BY <1>4 DEF GepOffset, Element
  <1> PICK o : o = (0 + offset) % m
    OBVIOUS
  <1>9. o \in Int /\ offset \in Int /\ size \in Int /\ size * s \in Int
    <2>1. offset \in Int /\ size \in Int
      BY OperandAssumption
    <2> QED  BY <1>5, <1>6, <2>1, RemaindersAreInts
  <1>10. \A a, b \in Int : a % m \in Int /\ (a + (b % m)) % m = (a + b) % m /\ (a * (b % m)) % m = (a * b) % m
    BY <1>5, RemaindersAreInts, RemainderInSum, RemainderInProduct
  <1>11. result = (p + ((o + size * s) % m)) % m
    <2>1. result = executeGEPOperation(p, <<field, short>>)
      BY <1>3 DEF ExecutionInv, ComputedByMoves
    <2> QED  BY <1>7, <2>1, GepOfTwo
  <1>12. \A j \in Int : (o + size * j) % m = (o + size * (j % m)) % m
    <2> SUFFICES ASSUME NEW j \in Int  PROVE (o + size * j) % m = (o + size * (j % m)) % m
      OBVIOUS
    <2>1. j % m \in Int /\ size * j \in Int
      BY <1>9, <1>10
    <2>2. size * (j % m) \in Int
      BY <1>9, <2>1
    <2>3. (o + size * j) % m = (o + ((size * j) % m)) % m
      BY ONLY <1>9, <1>10, <2>1
    <2>4. (o + size * (j % m)) % m = (o + ((size * (j % m)) % m)) % m
      BY ONLY <1>9, <1>10, <2>2
    <2>5. (size * (j % m)) % m = (size * j) % m
      BY ONLY <1>9, <1>10
    <2> QED  BY ONLY <2>3, <2>4, <2>5
  <1> PICK long : long = Element(size, PointerBits, SExt(i, IndexBits, PointerBits))
    OBVIOUS
  <1>13. result = executeGEPOperation(p, <<field, long>>)
    <2>1. GepOffset(long) = size * (s % m)
      BY <1>8 DEF SExt
    <2>2. executeGEPOperation(p, <<field, long>>) = (p + ((o + size * (s % m)) % m)) % m
      BY <1>7, <2>1, GepOfTwo
    <2>3. (o + size * (s % m)) % m = (o + size * s) % m
      BY <1>6, <1>12
    <2> QED  BY ONLY <1>11, <2>2, <2>3
  <1> PICK back : back = Element(size, PointerBits, (- s) % m)
    OBVIOUS
  <1>14. executeGEPOperation(result, <<back>>) = executeGEPOperation(p, <<field>>)
    <2>1. executeGEPOperation(result, <<back>>) = (result + ((0 + size * ((- s) % m)) % m)) % m
      BY <1>8, GepOfOne
    <2>2. executeGEPOperation(p, <<field>>) = (p + o) % m
      BY <1>7, GepOfOne
    <2> PICK k : k = - s
      OBVIOUS
    <2>3. k \in Int /\ size * k = - (size * s) /\ size * k \in Int
      BY <1>6, <1>9
    <2>4. (0 + size * (k % m)) % m = (size * k) % m
      <3>1. size * (k % m) \in Int
        <4>1. k % m \in Int
          BY <1>10, <2>3
        <4> QED  BY <1>9, <4>1
      <3>2. 0 + size * (k % m) = size * (k % m)
        BY ONLY <3>1
      <3>3. (size * (k % m)) % m = (size * k) % m
        BY ONLY <1>9, <1>10, <2>3
      <3> QED  BY ONLY <3>2, <3>3
    <2> PICK a : a = p + (o + size * s)
      OBVIOUS
    <2>5. a \in Int /\ result = a % m
      <3>1. o + size * s \in Int
        BY <1>9
      <3>2. a \in Int
        BY <1>2, <3>1
      <3>3. (p + ((o + size * s) % m)) % m = (p + (o + size * s)) % m
        BY ONLY <1>2, <1>10, <3>1
      <3> QED  BY ONLY <1>11, <3>2, <3>3, a = p + (o + size * s)
    <2>6. (result + ((size * k) % m)) % m = (result + size * k) % m
      <3>1. result \in Int
        BY <1>10, <2>5
      <3> QED  BY ONLY <1>10, <2>3, <3>1
    <2>7. ((a % m) + size * k) % m = (a + size * k) % m
      <3>1. \A b, c \in Int : b + c = c + b
        OBVIOUS
      <3>2. (size * k + (a % m)) % m = (size * k + a) % m
        BY ONLY <1>10, <2>3, <2>5
      <3>3. a % m \in Int
        BY <1>10, <2>5
      <3> QED  BY ONLY <2>3, <2>5, <3>1, <3>2, <3>3
    <2>8. a + size * k = p + o
      <3> PICK t : t = size * s
        OBVIOUS
      <3>1. t \in Int /\ size * k = - t /\ a = p + (o + t)
        BY <1>9, <2>3
      <3> QED  BY ONLY <1>2, <1>9, <3>1
    <2>9. executeGEPOperation(result, <<back>>) = (result + ((0 + size * (k % m)) % m)) % m
      BY <2>1
    <2> QED  BY ONLY <2>2, <2>4, <2>5, <2>6, <2>7, <2>8, <2>9
  <1>15. short.size = size /\ short.value = i
    BY DEF Element
  <1>16. back = Element(size, PointerBits, (- Signed(i, IndexBits)) % Pow2[PointerBits])
    OBVIOUS
  <1>17. instruction.path[1] = field /\ instruction.path[2] = short
    BY <1>3
  <1>18. executeGEPOperation(instruction.pointer, <<field, long>>) = executeGEPOperation(p, <<field, long>>)
         /\ executeGEPOperation(instruction.pointer, <<field>>) = executeGEPOperation(p, <<field>>)
    OBVIOUS
  <1> QED  BY ONLY <1>13, <1>14, <1>15, <1>16, <1>17, <1>18, Zenon,
                   long = Element(size, PointerBits, SExt(i, IndexBits, PointerBits))
              DEF IndicesAreSigned

(* A short index walks an array as the long index of the same sign does,   *)
(* in both directions (executeGEPOperation).                               *)
THEOREM IndicesHaveASign == Spec => []IndicesAreSigned
  BY ResultsAreComputed, IndicesOfState, PTL

(* The value of each kind of constant expression.                          *)
LEMMA CastExprIs ==
    ASSUME NEW op \in {"PtrToInt", "IntToPtr"}, NEW from, NEW to, NEW x
    PROVE  CastExpr(op, from, to, x) = executeCast(op, x, from, to)
  <1> PICK e : e = [op |-> op, from |-> from, to |-> to]
    OBVIOUS
  <1>1. e.op = op /\ e.from = from /\ e.to = to /\ <<x>>[1] = x
    OBVIOUS
  <1>2. op \in CastOps
    BY DEF CastOps, IntegerCastOps
  <1>3. op \notin {"GetElementPtr", "ICmp", "FCmp", "Select"} \cup BinaryOps \cup ShiftOps
    BY DEF BinaryOps, DivisionOps, ShiftOps
  <1>4. getConstantExprValue(e, <<x>>) = executeCast(e.op, <<x>>[1], e.from, e.to)
    BY <1>1, <1>2, <1>3 DEF getConstantExprValue
  <1> QED  BY <1>1, <1>4 DEF CastExpr

LEMMA BinaryExprIs ==
    ASSUME NEW op \in {"Add", "Sub"}, NEW w, NEW x, NEW y
    PROVE  BinaryExpr(op, w, x, y) = (IF op = "Add" THEN x + y ELSE x - y) % Pow2[w]
  <1> PICK e : e = [op |-> op, width |-> w]
    OBVIOUS
  <1>1. e.op = op /\ e.width = w /\ <<x, y>>[1] = x /\ <<x, y>>[2] = y
    OBVIOUS
  <1>2. op \in BinaryOps \cup ShiftOps
    BY DEF BinaryOps
  <1>3. op \notin {"GetElementPtr", "ICmp", "FCmp", "Select"} \cup CastOps
    BY DEF CastOps, IntegerCastOps, FloatCastOps
  <1>4. getConstantExprValue(e, <<x, y>>) = ConstantOperator(op, x, y, w)
    BY <1>1, <1>2, <1>3 DEF getConstantExprValue
  <1>5. APIntOp("Add", x, y, w) = (x + y) % Pow2[w] /\ APIntOp("Sub", x, y, w) = (x - y) % Pow2[w]
    BY DEF APIntOp
  <1> QED  BY <1>4, <1>5 DEF BinaryExpr, ConstantOperator

LEMMA CompareExprIs ==
    ASSUME NEW predicate, NEW w, NEW x, NEW y
    PROVE  CompareExpr(predicate, w, x, y) = ICmp("integer", predicate, x, y, w)
  <1> PICK e : e = [op |-> "ICmp", type |-> "integer", predicate |-> predicate, width |-> w]
    OBVIOUS
  <1>1. /\ e.op = "ICmp" /\ e.type = "integer" /\ e.predicate = predicate /\ e.width = w
        /\ <<x, y>>[1] = x /\ <<x, y>>[2] = y
    OBVIOUS
  <1>2. "ICmp" \notin {"GetElementPtr", "Select"} \cup CastOps \cup (BinaryOps \cup ShiftOps)
    BY DEF CastOps, IntegerCastOps, FloatCastOps, BinaryOps, DivisionOps, ShiftOps
  <1>3. getConstantExprValue(e, <<x, y>>) = executeCmpInst("ICmp", "integer", predicate, x, y, w)
    BY <1>1, <1>2 DEF getConstantExprValue
  <1> QED  BY <1>3 DEF CompareExpr, executeCmpInst

LEMMA ElementExprIs ==
    ASSUME NEW p, NEW path
    PROVE  ElementExpr(p, path) = executeGEPOperation(p, path)
  <1> PICK e : e = [op |-> "GetElementPtr", path |-> path]
    OBVIOUS
  <1>1. e.op = "GetElementPtr" /\ e.path = path /\ <<p>>[1] = p
    OBVIOUS
  <1>2. "GetElementPtr" \notin {"ICmp", "FCmp", "Select"} \cup CastOps \cup (BinaryOps \cup ShiftOps)
    BY DEF CastOps, IntegerCastOps, FloatCastOps, BinaryOps, DivisionOps, ShiftOps
  <1>3. getConstantExprValue(e, <<p>>) = executeGEPOperation(<<p>>[1], e.path)
    BY <1>1, <1>2 DEF getConstantExprValue
  <1> QED  BY <1>1, <1>3 DEF ElementExpr

LEMMA SelectExprIs ==
    ASSUME NEW c, NEW x, NEW y
    PROVE  getConstantExprValue([op |-> "Select"], <<c, x, y>>) = IF c THEN x ELSE y
  <1> PICK e : e = [op |-> "Select"]
    OBVIOUS
  <1> PICK s : s = <<c, x, y>>
    OBVIOUS
  <1>1. e.op = "Select" /\ s[1] = c /\ s[2] = x /\ s[3] = y
    OBVIOUS
  <1>2. "Select" \notin {"GetElementPtr", "ICmp", "FCmp"} \cup CastOps \cup (BinaryOps \cup ShiftOps)
    BY DEF CastOps, IntegerCastOps, FloatCastOps, BinaryOps, DivisionOps, ShiftOps
  <1>3. getConstantExprValue(e, s) = IF s[1] THEN s[2] ELSE s[3]
    BY <1>1, <1>2 DEF getConstantExprValue
  <1> QED  BY <1>1, <1>3

(* The remainder for a smaller power is that of a remainder for a larger.  *)
LEMMA RemainderOfRemainder ==
    ASSUME NEW j \in Nat, NEW k \in Nat, j <= k, NEW a \in Int
    PROVE  (a % Pow2[k]) % Pow2[j] = a % Pow2[j]
  <1> PICK s : s = Pow2[j]
    OBVIOUS
  <1> PICK t : t = Pow2[k - j]
    OBVIOUS
  <1> PICK m : m = Pow2[k]
    OBVIOUS
  <1> PICK q : q = a \div m
    OBVIOUS
  <1> PICK r : r = a % m
    OBVIOUS
  <1>1. k - j \in Nat /\ m = s * t
    BY PowersGrow
  <1>2. s \in Nat \ {0} /\ t \in Nat /\ m \in Nat \ {0}
    BY <1>1, PowersArePositive
  <1>3. q \in Int /\ r \in Int /\ a = q * m + r
    <2>1. /\ a \div m \in Int /\ a % m \in Int /\ a = (a \div m) * m + (a % m)
      BY <1>2, AllRemainders
    <2> QED  BY <2>1
  <1>4. q * (s * t) = (q * t) * s /\ q * t \in Int
    BY <1>2, <1>3
  <1>5. a = r + (q * t) * s
    <2>1. (q * t) * s \in Int
      BY <1>2, <1>4
    <2> QED  BY <1>1, <1>3, <1>4, <2>1
  <1>6. (r + (q * t) * s) % s = r % s
    <2>1. \A d \in Nat \ {0}, b \in Int, i \in Int : (b + i * d) % d = b % d
      BY RemainderOfSum
    <2> QED  BY ONLY <1>2, <1>3, <1>4, <2>1
  <1> QED  BY <1>5, <1>6

LEMMA ElementFacts ==
    ASSUME NEW i \in ConstantExprs
    PROVE  /\ i.pointer \in Ints(PointerBits) /\ i.index \in Ints(IndexBits)
           /\ i.offset \in Nat /\ i.size \in Nat /\ i.width \in Nat \ {0}
           /\ i.form \in {"difference", "distance", "sum"}
           /\ i.form = "sum" => i.width >= PointerBits
           /\ i.form # "sum" => i.width <= PointerBits
  <1>1. /\ i \in [visit : {"ConstantExpr"}, form : {"difference", "distance", "sum"},
                  pointer : Ints(PointerBits), offset : Offsets, size : Sizes,
                  index : Ints(IndexBits), width : Widths]
        /\ IF i.form = "sum" THEN i.width >= PointerBits ELSE i.width <= PointerBits
    BY DEF ConstantExprs
  <1> QED  BY <1>1, OperandAssumption, WidthsAssumption

(* The address of an element.                                              *)
LEMMA ElementIsAt ==
    ASSUME NEW p \in Int, NEW offset \in Nat, NEW size \in Nat, NEW index \in Ints(IndexBits),
           NEW bytes, bytes = offset + size * Signed(index, IndexBits),
           NEW m, m = Pow2[PointerBits]
    PROVE  /\ bytes \in Int
           /\ executeGEPOperation(p, <<Field(offset), Element(size, IndexBits, index)>>) = (p + bytes) % m
  <1> PICK s : s = Signed(index, IndexBits)
    OBVIOUS
  <1>1. m \in Nat \ {0}
    BY WidthsAssumption, PowersArePositive
  <1>2. s \in Int
    BY WidthsAssumption, FlippingOrders
  <1>3. size * s \in Int
    BY <1>2
  <1> PICK step : step = size * s
    OBVIOUS
  <1>4. GepOffset(Field(offset)) = offset /\ GepOffset(Element(size, IndexBits, index)) = step
    BY DEF GepOffset, Field, Element
  <1>5. executeGEPOperation(p, <<Field(offset), Element(size, IndexBits, index)>>)
            = (p + ((((0 + offset) % m) + step) % m)) % m
    <2> PICK first : first = Field(offset)
      OBVIOUS
    <2> PICK second : second = Element(size, IndexBits, index)
      OBVIOUS
    <2>1. executeGEPOperation(p, <<first, second>>)
              = (p + ((((0 + GepOffset(first)) % m) + GepOffset(second)) % m)) % m
      BY GepOfTwo
    <2> QED  BY <1>4, <2>1
  <1>6. \A a \in Int, b \in Int : (a + (b % m)) % m = (a + b) % m
    BY <1>1, RemainderInSum
  <1>7. offset % m \in Int /\ 0 + offset = offset
    BY <1>1
  <1>8. (p + (((offset % m) + step) % m)) % m = (p + ((offset % m) + step)) % m
    BY <1>3, <1>6, <1>7
  <1>9. (p + ((offset % m) + step)) % m = ((p + step) + offset) % m
    <2>1. p + ((offset % m) + step) = (p + step) + (offset % m)
      BY <1>3, <1>7
    <2>2. p + step \in Int /\ offset \in Int
      BY <1>3
    <2> QED  BY <1>6, <2>1, <2>2
  <1>10. bytes = offset + step /\ (p + step) + offset = p + bytes /\ bytes \in Int
    BY <1>3
  <1> QED  BY <1>5, <1>7, <1>8, <1>9, <1>10

(* The difference of a sum and a summand is the other one.                 *)
LEMMA DifferenceIs ==
    ASSUME NEW p \in Int, NEW bytes \in Int, NEW w \in Nat, w <= PointerBits,
           NEW a, a = (p + bytes) % Pow2[PointerBits]
    PROVE  ((a % Pow2[w]) - (p % Pow2[w])) % Pow2[w] = bytes % Pow2[w]
  <1> PICK s : s = Pow2[w]
    OBVIOUS
  <1>1. s \in Nat \ {0} /\ PointerBits \in Nat
    BY WidthsAssumption, PowersArePositive
  <1>2. p + bytes \in Int
    OBVIOUS
  <1>3. a % s = (p + bytes) % s
    BY <1>1, <1>2, RemainderOfRemainder
  <1> PICK q : q = p \div s
    OBVIOUS
  <1> PICK r : r = p % s
    OBVIOUS
  <1>4. q \in Int /\ r \in Int /\ p = q * s + r
    <2>1. p \div s \in Int /\ p % s \in Int /\ p = (p \div s) * s + (p % s)
      BY <1>1, AllRemainders
    <2> QED  BY <2>1
  <1> PICK b : b = (p + bytes) % s
    OBVIOUS
  <1>5. b \in Int
    BY <1>1, <1>2
  <1>6. \A c \in Int, d \in Int : (c + (d % s)) % s = (c + d) % s
    BY <1>1, RemainderInSum
  <1>7. (- r + b) % s = (- r + (p + bytes)) % s
    <2>1. - r \in Int
      BY <1>4
    <2> QED  BY <1>2, <1>6, <2>1
  <1>8. - r + (p + bytes) = bytes + q * s /\ b - r = - r + b
    <2>1. q * s \in Int
      BY <1>1, <1>4
    <2> QED  BY <1>4, <1>5, <2>1
  <1>9. (bytes + q * s) % s = bytes % s
    BY <1>1, <1>4, RemainderOfSum
  <1> QED  BY <1>3, <1>7, <1>8, <1>9

(* What the expression for a distance makes of the difference d.           *)
LEMMA AbsoluteValue ==
    ASSUME NEW w \in Nat \ {0}, NEW d \in Ints(w)
    PROVE  (IF ICmp("integer", "SLT", d, 0, w) THEN (0 - d) % Pow2[w] ELSE d)
              = Magnitude(Signed(d, w))
  <1> PICK h \in Nat \ {0} : h = Pow2[w - 1] /\ Pow2[w] = 2 * h
    BY HalfPower
  <1>1. d \in 0 .. 2 * h - 1
    BY DEF Ints
  <1> PICK s : s = Signed(d, w)
    OBVIOUS
  <1>2. s = IF d >= h THEN d - 2 * h ELSE d
    BY DEF Signed
  <1>3. Signed(0, w) = 0
    <2>1. ~ 0 >= h
      OBVIOUS
    <2> QED  BY <2>1 DEF Signed
  <1>4. ICmp("integer", "SLT", d, 0, w) = (s < 0)
    <2>1. "SLT" \in SignedPredicates
      BY DEF SignedPredicates
    <2>2. ICmp("integer", "SLT", d, 0, w) = (Signed(d, w) < Signed(0, w))
      BY <2>1 DEF ICmp
    <2> QED  BY <1>3, <2>2
  <1>5. CASE d >= h
    <2>1. s < 0 /\ s \in Int /\ Magnitude(s) = 2 * h - d
      BY <1>1, <1>2, <1>5 DEF Magnitude
    <2> PICK m \in Nat \ {0} : m = 2 * h
      OBVIOUS
    <2>2. 0 - d \in - m .. - 1 /\ (0 - d) + m = 2 * h - d
      BY <1>1, <1>5
    <2>3. (0 - d) % m = (0 - d) + m
      BY <2>2, SmallRemainders
    <2> QED  BY <1>4, <2>1, <2>2, <2>3
  <1>6. CASE ~ d >= h
    <2>1. s = d /\ (s < 0) = FALSE
      BY <1>1, <1>2, <1>6
    <2>2. Magnitude(s) = d
      BY <1>1, <2>1 DEF Magnitude
    <2> QED  BY <1>4, <2>1, <2>2
  <1> QED  BY <1>5, <1>6

LEMMA DifferenceExprIs ==
    ASSUME NEW p \in Int, NEW path, NEW bytes \in Int, NEW w \in Nat, w <= PointerBits,
           executeGEPOperation(p, path) = (p + bytes) % Pow2[PointerBits]
    PROVE  DifferenceExpr(p, path, w) = bytes % Pow2[w]
  <1> PICK a : a = executeGEPOperation(p, path)
    OBVIOUS
  <1>1. ElementExpr(p, path) = a
    BY ElementExprIs
  <1>2. CastExpr("PtrToInt", PointerBits, w, a) = a % Pow2[w]
        /\ CastExpr("PtrToInt", PointerBits, w, p) = p % Pow2[w]
    BY CastExprIs DEF executeCast, PtrToInt
  <1>3. DifferenceExpr(p, path, w) = BinaryExpr("Sub", w, a % Pow2[w], p % Pow2[w])
    BY <1>1, <1>2 DEF DifferenceExpr
  <1>4. BinaryExpr("Sub", w, a % Pow2[w], p % Pow2[w]) = ((a % Pow2[w]) - (p % Pow2[w])) % Pow2[w]
    BY BinaryExprIs
  <1> QED  BY <1>3, <1>4, DifferenceIs

LEMMA DistanceExprIs ==
    ASSUME NEW p, NEW path, NEW w \in Nat \ {0}, NEW d \in Ints(w), d = DifferenceExpr(p, path, w)
    PROVE  DistanceExpr(p, path, w) = Magnitude(Signed(d, w))
  <1> PICK c : c = CompareExpr("SLT", w, d, 0)
    OBVIOUS
  <1> PICK n : n = BinaryExpr("Sub", w, 0, d)
    OBVIOUS
  <1>1. DistanceExpr(p, path, w) = getConstantExprValue([op |-> "Select"], <<c, n, d>>)
    BY DEF DistanceExpr
  <1>2. DistanceExpr(p, path, w) = IF c THEN n ELSE d
    BY <1>1, SelectExprIs
  <1>3. c = ICmp("integer", "SLT", d, 0, w) /\ n = (0 - d) % Pow2[w]
    BY CompareExprIs, BinaryExprIs
  <1>4. (IF ICmp("integer", "SLT", d, 0, w) THEN (0 - d) % Pow2[w] ELSE d) = Magnitude(Signed(d, w))
    BY AbsoluteValue
  <1> QED  BY ONLY <1>2, <1>3, <1>4

LEMMA SumExprIs ==
    ASSUME NEW p \in Ints(PointerBits), NEW bytes \in Int, NEW w \in Nat, PointerBits <= w
    PROVE  SumExpr(p, bytes, w) = (p + bytes) % Pow2[PointerBits]
  <1>1. PointerBits \in Nat \ {0} /\ w \in Nat \ {0} /\ Pow2[w] \in Nat \ {0} /\ p \in Int
    BY WidthsAssumption, PowersArePositive, IntsAreNumbers
  <1>2. p % Pow2[w] = p
    BY <1>1, WiderAndBack
  <1>3. CastExpr("PtrToInt", PointerBits, w, p) = p
    BY <1>2, CastExprIs DEF executeCast, PtrToInt
  <1> PICK t : t = BinaryExpr("Add", w, p, bytes % Pow2[w])
    OBVIOUS
  <1>4. t = (p + (bytes % Pow2[w])) % Pow2[w]
    BY BinaryExprIs
  <1>5. t = (p + bytes) % Pow2[w]
    BY <1>1, <1>4, RemainderInSum
  <1>6. SumExpr(p, bytes, w) = IntToPtr(t, w)
    BY <1>3, CastExprIs DEF SumExpr, executeCast
  <1>7. CASE w = PointerBits
    BY <1>5, <1>6, <1>7 DEF IntToPtr
  <1>8. CASE w # PointerBits
    <2>1. SumExpr(p, bytes, w) = t % Pow2[PointerBits]
      BY <1>6, <1>8 DEF IntToPtr
    <2>2. p + bytes \in Int
      BY <1>1
    <2>3. ((p + bytes) % Pow2[w]) % Pow2[PointerBits] = (p + bytes) % Pow2[PointerBits]
      BY <1>1, <2>2, RemainderOfRemainder
    <2> QED  BY <1>5, <2>1, <2>3
  <1> QED  BY <1>7, <1>8

LEMMA ConstantsOfState == ExecutionInv => ConstantsComputeAddresses
  <1> SUFFICES ASSUME ExecutionInv, Visited("ConstantExpr")  PROVE ConstantsComputeAddresses
    BY DEF ConstantsComputeAddresses
  <1> PICK i : i = instruction
    OBVIOUS
  <1> PICK p : p = i.pointer
    OBVIOUS
  <1> PICK path : path = PathOf(i)
    OBVIOUS
  <1> PICK bytes : bytes = OffsetOf(i)
    OBVIOUS
  <1> PICK w : w = i.width
    OBVIOUS
  <1> PICK r : r = result
    OBVIOUS
  <1>1. i \in ConstantExprs
    BY Kinds
  <1>2. /\ p \in Ints(PointerBits) /\ i.index \in Ints(IndexBits)
        /\ i.offset \in Nat /\ i.size \in Nat /\ w \in Nat \ {0}
        /\ i.form = "sum" => PointerBits <= w
        /\ i.form # "sum" => w <= PointerBits
    BY <1>1, ElementFacts, WidthsAssumption
  <1>3. p \in Int
    BY <1>2, WidthsAssumption, IntsAreNumbers
  <1>4. bytes \in Int /\ executeGEPOperation(p, path) = (p + bytes) % Pow2[PointerBits]
    <2>1. bytes = i.offset + i.size * Signed(i.index, IndexBits)
      BY DEF OffsetOf
    <2>2. path = <<Field(i.offset), Element(i.size, IndexBits, i.index)>>
      BY DEF PathOf
    <2> QED  BY <1>2, <1>3, <2>1, <2>2, ElementIsAt
  <1>5. r = ConstantOf(i.form, p, path, bytes, w)
    BY DEF ExecutionInv, ComputedByMoves
  <1>6. /\ i.form = "difference" => r = DifferenceExpr(p, path, w)
        /\ i.form = "distance" => r = DistanceExpr(p, path, w)
        /\ i.form = "sum" => r = SumExpr(p, bytes, w)
    BY <1>5 DEF ConstantOf
  <1>7. i.form = "difference" => r = bytes % Pow2[w]
    BY <1>2, <1>3, <1>4, <1>6, DifferenceExprIs
  <1>8. ASSUME i.form = "distance"  PROVE r = Magnitude(Signed(bytes % Pow2[w], w))
    <2> PICK d : d = DifferenceExpr(p, path, w)
      OBVIOUS
    <2>1. d = bytes % Pow2[w]
      BY <1>2, <1>3, <1>4, <1>8, DifferenceExprIs
    <2>2. d \in Ints(w)
      BY <1>2, <1>4, <2>1, PowersArePositive DEF Ints
    <2>3. DistanceExpr(p, path, w) = Magnitude(Signed(d, w))
      BY <1>2, <2>2, DistanceExprIs
    <2>4. r = DistanceExpr(p, path, w)
      BY <1>6, <1>8
    <2> QED  BY ONLY <2>1, <2>3, <2>4
  <1>9. i.form = "sum" => r = executeGEPOperation(p, path)
    BY <1>2, <1>4, <1>6, SumExprIs
  <1> QED  BY <1>7, <1>8, <1>9 DEF ConstantsComputeAddresses

(* Constant expressions compute the addresses and offsets that             *)
(* instructions compute (getConstantExprValue), for any widths.            *)
THEOREM ConstantsCompute == Spec => []ConstantsComputeAddresses
  BY ResultsAreComputed, ConstantsOfState, PTL

-----------------------------------------------------------------------------
(* Shifts.                                                                 *)

(* A shift by one, as ShiftsStayInRange has it.                            *)
ShiftOnce(op, x, w) ==
    CASE op = "Shl" -> (2 * x) % Pow2[w]
      [] op = "LShr" -> x \div 2
      [] op = "AShr" -> (x \div 2) + (IF HasBit(x, w - 1) THEN Pow2[w - 1] ELSE 0)

Shifted(op, x, w, amounts) == FoldLeft(LAMBDA y, i : ShiftOnce(op, y, w), x, amounts)

ShiftsBy(c, op, w, amounts, n) ==
    /\ c.op = op /\ c.w = w
    /\ amounts = [i \in 1 .. n |-> i]

LEMMA ShiftMeaning ==
    ASSUME NEW op \in ShiftOps, NEW w, NEW x, NEW n \in Nat,
           NEW amounts, NEW c, ShiftsBy(c, op, w, amounts, n)
    PROVE  \E g : /\ IsFold(g, "shift", c, x, n)
                  /\ Shifted(op, x, w, amounts) = g[1 .. n]
  <1> DEFINE step(g, s) == ShiftOnce(op, g[s \ {Max(s)}], w)
             g == CHOOSE g : g = [s \in SUBSET DOMAIN amounts |-> IF s = {} THEN x ELSE step(g, s)]
  <1>1. Shifted(op, x, w, amounts) = g[DOMAIN amounts]
    BY DEF Shifted, FoldLeft, MapThenFoldSet
  <1>2. \A f, s : step(f, s) = FoldStep("shift", c, f[s \ {Max(s)}], Max(s))
    <2>1. \A value : ShiftOnce(op, value, w)
                        = IF op = "Shl" THEN (2 * value) % Pow2[w]
                          ELSE IF op = "LShr" THEN value \div 2
                          ELSE (value \div 2) + (IF HasBit(value, w - 1) THEN Pow2[w - 1] ELSE 0)
      BY DEF ShiftOnce, ShiftOps
    <2>2. c.op = op /\ c.w = w
      BY DEF ShiftsBy
    <2>3. \A value, i : FoldStep("shift", c, value, i)
                        = IF op = "Shl" THEN (2 * value) % Pow2[w]
                          ELSE IF op = "LShr" THEN value \div 2
                          ELSE (value \div 2) + (IF HasBit(value, w - 1) THEN Pow2[w - 1] ELSE 0)
      BY <2>2 DEF FoldStep
    <2>4. \A value, i : ShiftOnce(op, value, w) = FoldStep("shift", c, value, i)
      BY ONLY <2>1, <2>3
    <2> QED  BY <2>4
  <1> HIDE DEF step
  <1>3. PICK f : IsFold(f, "shift", c, x, n)
    BY FoldExists
  <1>4. DOMAIN amounts = 1 .. n
    BY DEF ShiftsBy
  <1>5. f = [s \in SUBSET DOMAIN amounts |-> IF s = {} THEN x ELSE step(f, s)]
    BY <1>2, <1>3, <1>4 DEF IsFold
  <1>6. g = [s \in SUBSET DOMAIN amounts |-> IF s = {} THEN x ELSE step(g, s)]
    BY <1>5
  <1> HIDE DEF g
  <1>7. IsFold(g, "shift", c, x, n)
    BY <1>2, <1>4, <1>6 DEF IsFold
  <1> QED  BY <1>1, <1>4, <1>7

Counted(n) == [i \in 1 .. n |-> i]

(* One shift by one after the other.                                       *)
Turns(turn, op, w, x, n) ==
    /\ turn[0] = x
    /\ \A k \in 0 .. n - 1 : turn[k + 1] = ShiftOnce(op, turn[k], w)

LEMMA ShiftsTakeTurns ==
    ASSUME NEW op \in ShiftOps, NEW w, NEW x, NEW n \in Nat
    PROVE  \E turn : Turns(turn, op, w, x, n) /\ Shifted(op, x, w, Counted(n)) = turn[n]
  <1> PICK amounts : amounts = Counted(n)
    OBVIOUS
  <1> PICK c : c = [op |-> op, w |-> w]
    OBVIOUS
  <1>1. PICK g : /\ IsFold(g, "shift", c, x, n)
                 /\ Shifted(op, x, w, amounts) = g[1 .. n]
    <2>1. ShiftsBy(c, op, w, amounts, n)
      BY DEF ShiftsBy, Counted
    <2> QED  BY ONLY <2>1, ShiftMeaning, op \in ShiftOps, n \in Nat
  <1>2. Steps(g, "shift", c, x, n)
    BY <1>1, FoldSteps
  <1>3. \A value, i : FoldStep("shift", c, value, i) = ShiftOnce(op, value, w)
    <2>1. c.op = op /\ c.w = w
      OBVIOUS
    <2>2. \A value, i : FoldStep("shift", c, value, i)
                        = IF op = "Shl" THEN (2 * value) % Pow2[w]
                          ELSE IF op = "LShr" THEN value \div 2
                          ELSE (value \div 2) + (IF HasBit(value, w - 1) THEN Pow2[w - 1] ELSE 0)
      BY <2>1 DEF FoldStep
    <2>3. \A value : ShiftOnce(op, value, w)
                        = IF op = "Shl" THEN (2 * value) % Pow2[w]
                          ELSE IF op = "LShr" THEN value \div 2
                          ELSE (value \div 2) + (IF HasBit(value, w - 1) THEN Pow2[w - 1] ELSE 0)
      BY DEF ShiftOnce, ShiftOps
    <2> QED  BY ONLY <2>2, <2>3
  <1>4. g[1 .. 0] = x
    BY <1>2 DEF Steps
  <1>5. \A k \in 0 .. n - 1 : g[1 .. k + 1] = ShiftOnce(op, g[1 .. k], w)
    <2>1. \A k \in 0 .. n - 1 : g[1 .. k + 1] = FoldStep("shift", c, g[1 .. k], k + 1)
      BY <1>2, Zenon DEF Steps
    <2> QED  BY ONLY <1>3, <2>1, Zenon
  <1> PICK turn : turn = [k \in 0 .. n |-> g[1 .. k]]
    OBVIOUS
  <1>6. 0 \in 0 .. n /\ n \in 0 .. n /\ \A k \in 0 .. n - 1 : k \in 0 .. n /\ k + 1 \in 0 .. n
    OBVIOUS
  <1>7. \A k \in 0 .. n : turn[k] = g[1 .. k]
    OBVIOUS
  <1>8. turn[0] = x /\ turn[n] = g[1 .. n]
    BY ONLY <1>4, <1>6, <1>7, Zenon
  <1>9. \A k \in 0 .. n - 1 : turn[k + 1] = ShiftOnce(op, turn[k], w)
    BY ONLY <1>5, <1>6, <1>7, Zenon
  <1> QED  BY ONLY <1>1, <1>8, <1>9, amounts = Counted(n) DEF Turns

(* The top bit is the sign.                                                *)
LEMMA TopBit ==
    ASSUME NEW w \in Nat \ {0}, NEW x \in Ints(w)
    PROVE  HasBit(x, w - 1) = (x >= Pow2[w - 1])
  <1> PICK h : h = Pow2[w - 1]
    OBVIOUS
  <1>1. h \in Nat \ {0} /\ x \in 0 .. 2 * h - 1
    BY HalfPower DEF Ints
  <1>2. CASE x >= h
    <2>1. x - h \in 0 .. h - 1 /\ 1 * h + (x - h) = x
      BY <1>1, <1>2
    <2>2. x \div h = 1
      <3>1. 1 \in Int
        OBVIOUS
      <3> QED  BY ONLY <1>1, <2>1, <3>1, RemainderIs
    <2>3. HasBit(x, w - 1) = (1 % 2 = 1)
      BY ONLY <2>2, h = Pow2[w - 1] DEF HasBit
    <2> QED  BY <1>2, <2>3
  <1>3. CASE ~ x >= h
    <2>1. x \in 0 .. h - 1 /\ 0 * h + x = x
      BY <1>1, <1>3
    <2>2. x \div h = 0
      <3>1. 0 \in Int
        OBVIOUS
      <3> QED  BY ONLY <1>1, <2>1, <3>1, RemainderIs
    <2>3. HasBit(x, w - 1) = (0 % 2 = 1)
      BY ONLY <2>2, h = Pow2[w - 1] DEF HasBit
    <2> QED  BY <1>3, <2>3
  <1> QED  BY <1>2, <1>3

(* An arithmetic shift by one halves the signed number.                    *)
LEMMA SignedHalves ==
    ASSUME NEW w \in Nat \ {0}, NEW x \in Ints(w)
    PROVE  /\ ShiftOnce("AShr", x, w) \in Ints(w)
           /\ Signed(ShiftOnce("AShr", x, w), w) = Signed(x, w) \div 2
  <1> PICK h : h = Pow2[w - 1]
    OBVIOUS
  <1> PICK y : y = ShiftOnce("AShr", x, w)
    OBVIOUS
  <1> PICK half : half = x \div 2
    OBVIOUS
  <1>1. h \in Nat \ {0} /\ Pow2[w] = 2 * h /\ x \in 0 .. 2 * h - 1
    BY HalfPower DEF Ints
  <1>2. half \in Int /\ (2 * half = x \/ 2 * half = x - 1)
    BY <1>1
  <1>3. y = half + (IF HasBit(x, w - 1) THEN h ELSE 0)
    BY DEF ShiftOnce
  <1>4. y = half + (IF x >= h THEN h ELSE 0)
    BY <1>3, TopBit
  <1>5. y \in 0 .. 2 * h - 1 /\ (y >= h <=> x >= h)
    BY <1>1, <1>2, <1>4
  <1>6. y \in Ints(w)
    BY <1>1, <1>5 DEF Ints
  <1>7. Signed(x, w) = (IF x >= h THEN x - 2 * h ELSE x) /\ Signed(y, w) = (IF y >= h THEN y - 2 * h ELSE y)
    BY <1>1 DEF Signed
  <1>8. (x - 2 * h) \div 2 = half - h
    BY <1>1
  <1>9. Signed(y, w) = IF x >= h THEN half - h ELSE half
    BY <1>1, <1>2, <1>4, <1>5, <1>7
  <1> QED  BY <1>6, <1>7, <1>8, <1>9

(* What each turn has made of x.                                           *)
TurnedBy(op, x, k, w, y) ==
    /\ op = "Shl" => y = (x * Pow2[k]) % Pow2[w]
    /\ op = "LShr" => y = x \div Pow2[k]
    /\ op = "AShr" => y \in Ints(w) /\ Signed(y, w) = Signed(x, w) \div Pow2[k]

LEMMA QuotientIsHalved ==
    ASSUME NEW p \in Nat \ {0}, NEW a \in Int
    PROVE  (a \div p) \div 2 = a \div (2 * p)
  <1> PICK q : q = a \div p
    OBVIOUS
  <1> PICK r : r = a % p
    OBVIOUS
  <1> PICK h : h = q \div 2
    OBVIOUS
  <1> PICK b : b = q % 2
    OBVIOUS
  <1> PICK m : m = 2 * p
    OBVIOUS
  <1>1. q \in Int /\ r \in 0 .. p - 1 /\ a = q * p + r
    BY RemainderFacts
  <1>2. h \in Int /\ b \in 0 .. 1 /\ q = 2 * h + b
    <2>1. q \in Int
      BY <1>1
    <2>2. 2 \in Nat \ {0} /\ 2 - 1 = 1
      OBVIOUS
    <2>3. h \in Int /\ b \in 0 .. 2 - 1 /\ q = h * 2 + b
      BY ONLY <2>1, <2>2, RemainderFacts, h = q \div 2, b = q % 2
    <2> QED  BY ONLY <2>2, <2>3
  <1>3. m \in Nat \ {0}
    OBVIOUS
  <1> PICK rest : rest = b * p + r
    OBVIOUS
  <1>4. rest \in 0 .. m - 1
    <2>1. b = 0 \/ b = 1
      BY <1>2
    <2>2. 0 * p = 0 /\ 1 * p = p
      OBVIOUS
    <2>3. rest = r \/ rest = p + r
      BY ONLY <1>1, <2>1, <2>2, rest = b * p + r, p \in Nat \ {0}
    <2> QED  BY ONLY <1>1, <2>3, m = 2 * p, p \in Nat \ {0}
  <1>5. a = h * m + rest
    <2>1. \A i, j \in Int : (2 * i + j) * p = i * (2 * p) + j * p
      OBVIOUS
    <2>2. (2 * h + b) * p = h * (2 * p) + b * p
      BY ONLY <1>2, <2>1, p \in Nat \ {0}
    <2>3. b * p \in Int /\ h * m \in Int
      BY ONLY <1>2, <1>3, p \in Nat \ {0}
    <2> QED  BY ONLY <1>1, <1>2, <2>2, <2>3, m = 2 * p, rest = b * p + r
  <1>6. (h * m + rest) \div m = h
    BY ONLY <1>2, <1>3, <1>4, RemainderIs
  <1> QED  BY ONLY <1>5, <1>6, m = 2 * p, h = q \div 2, q = a \div p

LEMMA OneMoreTurn ==
    ASSUME NEW op \in ShiftOps, NEW w \in Nat \ {0}, NEW x \in Ints(w), NEW k \in Nat,
           NEW y, TurnedBy(op, x, k, w, y)
    PROVE  TurnedBy(op, x, k + 1, w, ShiftOnce(op, y, w))
  <1> PICK m : m = Pow2[w]
    OBVIOUS
  <1> PICK p : p = Pow2[k]
    OBVIOUS
  <1>1. m \in Nat \ {0} /\ p \in Nat \ {0} /\ Pow2[k + 1] = 2 * p /\ x \in Int
    BY PowersAre, PowersArePositive, IntsAreNumbers
  <1>2. CASE op = "Shl"
    <2>1. y = (x * p) % m /\ x * p \in Int
      BY <1>1, <1>2 DEF TurnedBy
    <2>2. (2 * ((x * p) % m)) % m = (2 * (x * p)) % m
      <3>1. 2 \in Int
        OBVIOUS
      <3> QED  BY ONLY <1>1, <2>1, <3>1, RemainderInProduct
    <2>3. 2 * (x * p) = x * (2 * p)
      BY ONLY <1>1
    <2>4. ShiftOnce(op, y, w) = (2 * y) % m
      BY <1>2 DEF ShiftOnce
    <2>5. ShiftOnce(op, y, w) = (x * Pow2[k + 1]) % m
      BY ONLY <1>1, <2>1, <2>2, <2>3, <2>4
    <2> QED  BY <1>2, <2>5 DEF TurnedBy
  <1>3. CASE op = "LShr"
    <2>1. y = x \div p
      BY <1>3 DEF TurnedBy
    <2>2. ShiftOnce(op, y, w) = y \div 2
      BY <1>3 DEF ShiftOnce
    <2>3. ShiftOnce(op, y, w) = x \div Pow2[k + 1]
      BY ONLY <1>1, <2>1, <2>2, QuotientIsHalved
    <2> QED  BY <1>3, <2>3 DEF TurnedBy
  <1>4. CASE op = "AShr"
    <2> PICK s : s = Signed(x, w)
      OBVIOUS
    <2>1. s \in Int
      <3>1. s \in - Pow2[w - 1] .. Pow2[w - 1] - 1 /\ Pow2[w - 1] \in Nat
        BY SignFacts, HalfPower
      <3> QED  BY <3>1
    <2>2. y \in Ints(w) /\ Signed(y, w) = s \div p
      BY <1>4 DEF TurnedBy
    <2> PICK z : z = ShiftOnce("AShr", y, w)
      OBVIOUS
    <2>3. z \in Ints(w) /\ Signed(z, w) = (s \div p) \div 2
      BY ONLY <2>2, SignedHalves, w \in Nat \ {0}, z = ShiftOnce("AShr", y, w)
    <2>4. Signed(z, w) = s \div Pow2[k + 1]
      BY ONLY <1>1, <2>1, <2>3, QuotientIsHalved
    <2> QED  BY <1>4, <2>3, <2>4 DEF TurnedBy
  <1> QED  BY <1>2, <1>3, <1>4 DEF ShiftOps

(* APInt's shift is as many shifts by one.                                 *)
LEMMA ShiftsAreSteps ==
    ASSUME NEW op \in ShiftOps, NEW w \in Nat \ {0}, NEW x \in Ints(w), NEW n \in Nat
    PROVE  APIntOp(op, x, n, w) = Shifted(op, x, w, Counted(n))
  <1>1. PICK turn : Turns(turn, op, w, x, n) /\ Shifted(op, x, w, Counted(n)) = turn[n]
    BY ShiftsTakeTurns
  <1>2. turn[0] = x /\ \A k \in 0 .. n - 1 : turn[k + 1] = ShiftOnce(op, turn[k], w)
    BY <1>1 DEF Turns
  <1>3. TurnedBy(op, x, 0, w, x)
    <2> PICK s : s = Signed(x, w)
      OBVIOUS
    <2>1. x \in Nat /\ x % Pow2[w] = x /\ Pow2[0] = 1 /\ x * 1 = x
      BY IntsAreNumbers, PowersAre
    <2>2. s \in Int
      <3>1. s \in - Pow2[w - 1] .. Pow2[w - 1] - 1 /\ Pow2[w - 1] \in Nat
        BY SignFacts, HalfPower
      <3> QED  BY <3>1
    <2>3. x \div 1 = x /\ s \div 1 = s
      BY <2>1, <2>2
    <2> QED  BY <2>1, <2>3 DEF TurnedBy
  <1>4. TurnedBy(op, x, n, w, turn[n])
    <2> DEFINE T == {k \in 0 .. n : ~ TurnedBy(op, x, k, w, turn[k])}
    <2> SUFFICES ASSUME T # {}  PROVE FALSE
      OBVIOUS
    <2>1. PICK k \in T : \A j \in T : k <= j
      <3>1. T \in SUBSET Nat
        OBVIOUS
      <3> HIDE DEF T
      <3> QED  BY <3>1, LeastNumber
    <2>2. k # 0
      BY <1>2, <1>3
    <2>3. k - 1 \in 0 .. n - 1 /\ k - 1 \in Nat /\ (k - 1) + 1 = k
      BY <2>2
    <2>4. TurnedBy(op, x, k - 1, w, turn[k - 1])
      <3>1. k - 1 \in 0 .. n /\ ~ k <= k - 1
        BY <2>3
      <3> QED  BY <2>1, <3>1
    <2>5. TurnedBy(op, x, (k - 1) + 1, w, ShiftOnce(op, turn[k - 1], w))
      BY ONLY <2>3, <2>4, OneMoreTurn, op \in ShiftOps, w \in Nat \ {0}, x \in Ints(w)
    <2>6. turn[(k - 1) + 1] = ShiftOnce(op, turn[k - 1], w)
      BY ONLY <1>2, <2>3
    <2>7. TurnedBy(op, x, k, w, turn[k])
      BY ONLY <2>3, <2>5, <2>6
    <2> QED  BY <2>7
  <1>5. /\ APIntOp("Shl", x, n, w) = (x * Pow2[n]) % Pow2[w]
        /\ APIntOp("LShr", x, n, w) = x \div Pow2[n]
        /\ APIntOp("AShr", x, n, w) = (Signed(x, w) \div Pow2[n]) % Pow2[w]
    BY DEF APIntOp
  <1>6. CASE op = "Shl"
    BY <1>1, <1>4, <1>5, <1>6 DEF TurnedBy
  <1>7. CASE op = "LShr"
    BY <1>1, <1>4, <1>5, <1>7 DEF TurnedBy
  <1>8. CASE op = "AShr"
    <2> PICK y : y = turn[n]
      OBVIOUS
    <2>1. y \in Ints(w) /\ Signed(y, w) = Signed(x, w) \div Pow2[n]
      BY <1>4, <1>8 DEF TurnedBy
    <2>2. Signed(y, w) % Pow2[w] = y
      BY <2>1, SignedAndBack
    <2> QED  BY <1>1, <1>5, <1>8, <2>1, <2>2
  <1> QED  BY <1>6, <1>7, <1>8 DEF ShiftOps

LEMMA ShiftsOfState == ExecutionInv => ShiftsStayInRange
  <1> SUFFICES ASSUME ExecutionInv, Visited("Shift")  PROVE ShiftsStayInRange
    BY DEF ShiftsStayInRange
  <1> PICK op : op = instruction.op
    OBVIOUS
  <1> PICK x : x = instruction.x
    OBVIOUS
  <1> PICK y : y = instruction.y
    OBVIOUS
  <1> PICK w : w = instruction.width
    OBVIOUS
  <1>1. w \in OperatorWidths /\ op \in ShiftOps /\ x \in Ints(w) /\ y \in Ints(w) /\ (y < w \/ IsPowerOf2(w))
    <2>1. \A i \in OfTwoIntegers("Shift", ShiftOps) :
              i.width \in OperatorWidths /\ i.op \in ShiftOps /\ i.x \in Ints(i.width) /\ i.y \in Ints(i.width)
      BY DEF OfTwoIntegers
    <2>2. instruction \in Shifts
      BY Kinds
    <2> QED  BY <2>1, <2>2 DEF Shifts
  <1>3. w \in Nat \ {0} /\ y \in Nat
    <2>1. w \in Nat \ {0}
      BY <1>1, WidthsAssumption, OperandAssumption
    <2> QED  BY <1>1, <2>1, IntsAreNumbers
  <1> PICK n : n = y % w
    OBVIOUS
  <1>4. n \in Nat
    <2>1. n \in 0 .. w - 1
      <3>1. y \in Int
        BY <1>3
      <3> QED  BY ONLY <1>3, <3>1, RemainderFacts, n = y % w
    <2> QED  BY <1>3, <2>1
  <1>5. getShiftAmount(y, w) = n
    <2>1. CASE y < w
      <3>1. y \in 0 .. w - 1
        BY <1>3, <2>1
      <3>2. y % w = y
        BY <1>3, <3>1, SmallRemainders
      <3> QED  BY <2>1, <3>2 DEF getShiftAmount
    <2>2. CASE ~ y < w
      BY <1>1, <2>2 DEF IsPowerOf2, getShiftAmount
    <2> QED  BY <2>1, <2>2
  <1>6. result = APIntOp(op, x, n, w)
    <2>1. result = BinaryScalar(op, x, y, w)
      BY DEF ExecutionInv, ComputedByOperators
    <2> QED  BY <1>1, <1>5, <2>1 DEF BinaryScalar
  <1>7. result = Shifted(op, x, w, Counted(n))
    BY <1>1, <1>3, <1>4, <1>6, ShiftsAreSteps
  <1>8. Shifted(instruction.op, instruction.x, instruction.width,
                Counted(instruction.y % instruction.width))
           = Shifted(op, x, w, Counted(n))
    OBVIOUS
  <1>9. result = Shifted(instruction.op, instruction.x, instruction.width,
                         Counted(instruction.y % instruction.width))
    BY ONLY <1>7, <1>8
  <1> QED  BY <1>9 DEF ShiftsStayInRange, Shifted, Counted, ShiftOnce

(* A shift leaves the bits that as many shifts by one leave, whatever the  *)
(* amount (getShiftAmount).                                                *)
THEOREM ShiftsAreBounded == Spec => []ShiftsStayInRange
  BY ResultsAreComputed, ShiftsOfState, PTL

-----------------------------------------------------------------------------
(* Sums. MapThenSumSet takes the elements of its set in some order.        *)

Picked(s) == CHOOSE x \in s : TRUE

Rest(s) == s \ {Picked(s)}

IsSum(g, f, n) ==
    g = [s \in SUBSET (1 .. n) |-> IF s = {} THEN 0 ELSE f[Picked(s)] + g[Rest(s)]]

LEMMA SmallerSets ==
    ASSUME NEW n \in Nat, NEW s \in SUBSET (1 .. n)
    PROVE  /\ Cardinality(s) \in 0 .. n
           /\ \A x \in s : /\ s \ {x} \in SUBSET (1 .. n)
                           /\ Cardinality(s \ {x}) = Cardinality(s) - 1
                           /\ Cardinality(s) # 0
           /\ s # {} => Picked(s) \in s
  <1>1. IsFiniteSet(1 .. n) /\ Cardinality(1 .. n) = n
    <2>1. 1 \in Int /\ n \in Int
      OBVIOUS
    <2> QED  BY <2>1, FS_Interval
  <1>2. IsFiniteSet(s) /\ Cardinality(s) <= n
    BY <1>1, FS_Subset
  <1>3. Cardinality(s) \in Nat
    BY <1>2, FS_CardinalityType
  <1>4. \A x \in s : s \ {x} \in SUBSET (1 .. n) /\ Cardinality(s \ {x}) = Cardinality(s) - 1
    BY <1>2, FS_RemoveElement
  <1>5. \A x \in s : Cardinality(s) # 0
    BY <1>2, FS_EmptySet
  <1>6. s # {} => Picked(s) \in s
    BY DEF Picked
  <1> QED  BY <1>2, <1>3, <1>4, <1>5, <1>6

(* A sum exists, whatever is added: of one element more at each step.      *)
SumsUpTo(g, f, n, k) ==
    \A s \in SUBSET (1 .. n) : Cardinality(s) <= k =>
        g[s] = IF s = {} THEN 0 ELSE f[Picked(s)] + g[Rest(s)]

LEMMA LargerSums ==
    ASSUME NEW n \in Nat, NEW f, NEW k \in Nat, NEW h, SumsUpTo(h, f, n, k)
    PROVE  \E g : SumsUpTo(g, f, n, k + 1)
  <1> PICK U : U = SUBSET (1 .. n)
    OBVIOUS
  <1> DEFINE after(s) == IF s = {} THEN 0 ELSE f[Picked(s)] + h[Rest(s)]
  <1> PICK g : g = [s \in U |-> after(s)]
    OBVIOUS
  <1>1. \A s \in U : g[s] = after(s)
    OBVIOUS
  <1>2. \A s \in U : Cardinality(s) <= k => h[s] = after(s)
    BY DEF SumsUpTo
  <1>3. ASSUME NEW s \in U, Cardinality(s) <= k + 1
        PROVE  g[s] = IF s = {} THEN 0 ELSE f[Picked(s)] + g[Rest(s)]
    <2>1. CASE s = {}
      BY <1>1, <2>1
    <2>2. CASE s # {}
      <3> PICK r : r = Rest(s)
        OBVIOUS
      <3>1. r \in U /\ Cardinality(r) <= k
        <4> PICK y : y = Picked(s)
          OBVIOUS
        <4>1. Cardinality(s) \in 0 .. n /\ y \in s /\ s \ {y} \in U /\ Cardinality(s \ {y}) = Cardinality(s) - 1
          BY <2>2, SmallerSets
        <4>2. r = s \ {y}
          BY DEF Rest
        <4> QED  BY ONLY <1>3, <4>1, <4>2, k \in Nat, n \in Nat
      <3>2. g[r] = h[r]
        BY ONLY <1>1, <1>2, <3>1
      <3>3. g[s] = f[Picked(s)] + h[Rest(s)]
        BY <1>1, <2>2
      <3>4. g[s] = f[Picked(s)] + g[Rest(s)]
        BY ONLY <3>2, <3>3, r = Rest(s)
      <3> QED  BY <2>2, <3>4
    <2> QED  BY <2>1, <2>2
  <1> QED  BY <1>3 DEF SumsUpTo

LEMMA SumExists ==
    ASSUME NEW n \in Nat, NEW f
    PROVE  \E g : IsSum(g, f, n)
  <1> DEFINE T == {k \in Nat : ~ \E g : SumsUpTo(g, f, n, k)}
  <1>1. \E g : SumsUpTo(g, f, n, 0)
    <2> PICK g : g = [s \in SUBSET (1 .. n) |-> 0]
      OBVIOUS
    <2>1. ASSUME NEW s \in SUBSET (1 .. n), Cardinality(s) <= 0  PROVE s = {}
      <3>1. Cardinality(s) \in 0 .. n /\ \A x \in s : Cardinality(s) # 0
        BY SmallerSets
      <3>2. Cardinality(s) = 0
        BY <2>1, <3>1
      <3> QED  BY ONLY <3>1, <3>2
    <2>2. SumsUpTo(g, f, n, 0)
      BY <2>1 DEF SumsUpTo
    <2> QED  BY <2>2
  <1>2. T = {}
    <2> SUFFICES ASSUME T # {}  PROVE FALSE
      OBVIOUS
    <2>1. PICK k \in T : \A j \in T : k <= j
      <3>1. T \in SUBSET Nat
        OBVIOUS
      <3> HIDE DEF T
      <3> QED  BY <3>1, LeastNumber
    <2>2. k # 0
      BY <1>1
    <2>3. k - 1 \in Nat /\ (k - 1) + 1 = k /\ ~ k <= k - 1
      BY <2>2
    <2>4. \E h : SumsUpTo(h, f, n, k - 1)
      BY <2>1, <2>3
    <2>5. \E g : SumsUpTo(g, f, n, (k - 1) + 1)
      BY ONLY <2>3, <2>4, LargerSums, n \in Nat
    <2> QED  BY <2>3, <2>5
  <1>3. PICK h : SumsUpTo(h, f, n, n)
    BY <1>2
  <1> PICK U : U = SUBSET (1 .. n)
    OBVIOUS
  <1> PICK g : g = [s \in U |-> h[s]]
    OBVIOUS
  <1>4. \A s \in U : h[s] = IF s = {} THEN 0 ELSE f[Picked(s)] + h[Rest(s)]
    BY <1>3, SmallerSets DEF SumsUpTo
  <1>5. \A s \in U : s # {} => Rest(s) \in U
    BY DEF Rest
  <1>6. \A s \in U : g[s] = h[s]
    OBVIOUS
  <1>7. \A s \in U : g[s] = IF s = {} THEN 0 ELSE f[Picked(s)] + g[Rest(s)]
    BY ONLY <1>4, <1>5, <1>6
  <1>8. g = [s \in U |-> IF s = {} THEN 0 ELSE f[Picked(s)] + g[Rest(s)]]
    BY <1>7
  <1> QED  BY <1>8 DEF IsSum

(* It does not matter which element is taken first.                        *)
TakesAny(g, f, n, k) ==
    \A s \in SUBSET (1 .. n) : Cardinality(s) <= k =>
        /\ g[s] \in Int
        /\ \A x \in s : g[s] = f[x] + g[s \ {x}]

LEMMA TakesAnyNext ==
    ASSUME NEW n \in Nat, NEW f, \A i \in 1 .. n : f[i] \in Int,
           NEW g, IsSum(g, f, n), NEW k \in Nat, TakesAny(g, f, n, k)
    PROVE  TakesAny(g, f, n, k + 1)
  <1> PICK U : U = SUBSET (1 .. n)
    OBVIOUS
  <1>1. \A s \in U : s # {} => g[s] = f[Picked(s)] + g[Rest(s)]
    BY DEF IsSum
  <1>2. \A s \in U : Cardinality(s) <= k => g[s] \in Int /\ \A x \in s : g[s] = f[x] + g[s \ {x}]
    BY DEF TakesAny
  <1>3. \A s \in U : \A x \in s : f[x] \in Int
    OBVIOUS
  <1>4. \A s \in U : g[{}] = 0
    <2>1. {} \in SUBSET (1 .. n)
      OBVIOUS
    <2> QED  BY <2>1 DEF IsSum
  <1>5. ASSUME NEW s \in U, Cardinality(s) <= k + 1
        PROVE  g[s] \in Int /\ \A x \in s : g[s] = f[x] + g[s \ {x}]
    <2>1. CASE s = {}
      <3>1. g[s] = 0
        BY <1>4, <2>1
      <3> QED  BY ONLY <2>1, <3>1
    <2>2. CASE s # {}
      <3> PICK y : y = Picked(s)
        OBVIOUS
      <3> PICK r : r = s \ {y}
        OBVIOUS
      <3>1. Cardinality(s) \in 0 .. n /\ y \in s
        BY <2>2, SmallerSets
      <3>2. \A x \in s : s \ {x} \in U /\ Cardinality(s \ {x}) <= k
        <4> TAKE x \in s
        <4>1. s \ {x} \in U /\ Cardinality(s \ {x}) = Cardinality(s) - 1
          BY SmallerSets
        <4> QED  BY ONLY <1>5, <3>1, <4>1, k \in Nat, n \in Nat
      <3>3. g[s] = f[y] + g[r]
        <4>1. r = Rest(s)
          BY DEF Rest
        <4> QED  BY <1>1, <2>2, <4>1
      <3>4. f[y] \in Int /\ g[r] \in Int
        BY ONLY <1>2, <1>3, <3>1, <3>2, s \in U, r = s \ {y}
      <3>5. ASSUME NEW x \in s  PROVE g[s] = f[x] + g[s \ {x}]
        <4>1. CASE x = y
          BY <3>3, <4>1
        <4>2. CASE x # y
          <5> PICK q : q = s \ {x}
            OBVIOUS
          <5> PICK rest : rest = q \ {y}
            OBVIOUS
          <5>1. x \in r /\ y \in q /\ r \ {x} = rest
            BY <3>1, <4>2
          <5>2. q \in U /\ r \in U /\ Cardinality(q) <= k /\ Cardinality(r) <= k
            BY ONLY <3>1, <3>2, x \in s, q = s \ {x}, r = s \ {y}
          <5>3. g[r] = f[x] + g[rest]
            BY ONLY <1>2, <5>1, <5>2
          <5>4. g[q] = f[y] + g[rest]
            BY ONLY <1>2, <5>1, <5>2, rest = q \ {y}
          <5>5. rest \in U /\ g[rest] \in Int
            <6>0. /\ Cardinality(q) \in 0 .. n
                  /\ \A z \in q : q \ {z} \in U /\ Cardinality(q \ {z}) = Cardinality(q) - 1
              BY ONLY <5>2, SmallerSets, U = SUBSET (1 .. n), n \in Nat
            <6>1. rest \in U /\ Cardinality(rest) = Cardinality(q) - 1 /\ Cardinality(q) \in 0 .. n
              BY ONLY <5>1, <6>0, rest = q \ {y}
            <6>2. Cardinality(rest) <= k
              BY ONLY <5>2, <6>1, k \in Nat, n \in Nat
            <6> QED  BY ONLY <1>2, <6>1, <6>2
          <5>6. f[x] \in Int
            BY <1>3
          <5> QED  BY ONLY <3>3, <3>4, <5>3, <5>4, <5>5, <5>6, q = s \ {x}
        <4> QED  BY <4>1, <4>2
      <3>6. g[s] \in Int
        BY ONLY <3>3, <3>4
      <3> QED  BY ONLY <3>5, <3>6
    <2> QED  BY <2>1, <2>2
  <1> QED  BY <1>5 DEF TakesAny

LEMMA TakesAnyAlways ==
    ASSUME NEW n \in Nat, NEW f, \A i \in 1 .. n : f[i] \in Int, NEW g, IsSum(g, f, n)
    PROVE  TakesAny(g, f, n, n)
  <1> DEFINE T == {k \in Nat : ~ TakesAny(g, f, n, k)}
  <1>1. TakesAny(g, f, n, 0)
    <2>1. ASSUME NEW s \in SUBSET (1 .. n), Cardinality(s) <= 0  PROVE s = {}
      <3>1. Cardinality(s) \in 0 .. n /\ \A x \in s : Cardinality(s) # 0
        BY SmallerSets
      <3>2. Cardinality(s) = 0
        BY <2>1, <3>1
      <3> QED  BY ONLY <3>1, <3>2
    <2>2. {} \in SUBSET (1 .. n)
      OBVIOUS
    <2>3. g[{}] = 0
      BY <2>2 DEF IsSum
    <2>4. ASSUME NEW s \in SUBSET (1 .. n), Cardinality(s) <= 0
          PROVE  g[s] \in Int /\ \A x \in s : g[s] = f[x] + g[s \ {x}]
      <3>1. s = {}
        BY <2>1, <2>4
      <3>2. g[s] = 0
        BY <2>3, <3>1
      <3> QED  BY ONLY <3>1, <3>2
    <2> QED  BY <2>4 DEF TakesAny
  <1>2. T = {}
    <2> SUFFICES ASSUME T # {}  PROVE FALSE
      OBVIOUS
    <2>1. PICK k \in T : \A j \in T : k <= j
      <3>1. T \in SUBSET Nat
        OBVIOUS
      <3> HIDE DEF T
      <3> QED  BY <3>1, LeastNumber
    <2>2. k # 0
      BY <1>1
    <2>3. k - 1 \in Nat /\ (k - 1) + 1 = k /\ ~ k <= k - 1
      BY <2>2
    <2>4. TakesAny(g, f, n, k - 1)
      BY <2>1, <2>3
    <2>5. TakesAny(g, f, n, (k - 1) + 1)
      BY <2>3, <2>4, TakesAnyNext
    <2> QED  BY <2>3, <2>5
  <1> QED  BY <1>2

(* So a sum over 1 .. n can be read from left to right.                    *)
Adds(total, f, n) ==
    /\ total[0] = 0
    /\ \A k \in 0 .. n : total[k] \in Int
    /\ \A k \in 0 .. n - 1 : total[k + 1] = total[k] + f[k + 1]

LEMMA SumAdds ==
    ASSUME NEW n \in Nat, NEW f, \A i \in 1 .. n : f[i] \in Int, NEW g, IsSum(g, f, n)
    PROVE  \E total : Adds(total, f, n) /\ g[1 .. n] = total[n]
  <1> PICK U : U = SUBSET (1 .. n)
    OBVIOUS
  <1>1. \A s \in U : g[s] \in Int /\ \A x \in s : g[s] = f[x] + g[s \ {x}]
    <2>1. TakesAny(g, f, n, n)
      BY TakesAnyAlways
    <2>2. \A s \in U : Cardinality(s) <= n
      BY SmallerSets
    <2> QED  BY <2>1, <2>2 DEF TakesAny
  <1> PICK total : total = [k \in 0 .. n |-> g[1 .. k]]
    OBVIOUS
  <1>2. \A k \in 0 .. n : total[k] = g[1 .. k] /\ 1 .. k \in U
    OBVIOUS
  <1>3. total[0] = 0
    <2>1. {} \in SUBSET (1 .. n) /\ 1 .. 0 = {} /\ 0 \in 0 .. n
      OBVIOUS
    <2>2. g[{}] = 0
      BY <2>1 DEF IsSum
    <2> QED  BY <1>2, <2>1, <2>2
  <1>4. \A k \in 0 .. n : total[k] \in Int
    BY ONLY <1>1, <1>2
  <1>5. ASSUME NEW k \in 0 .. n - 1  PROVE total[k + 1] = total[k] + f[k + 1]
    <2>1. k \in 0 .. n /\ k + 1 \in 0 .. n
      OBVIOUS
    <2>2. k + 1 \in 1 .. k + 1 /\ (1 .. k + 1) \ {k + 1} = 1 .. k
      OBVIOUS
    <2>3. f[k + 1] \in Int
      OBVIOUS
    <2>4. g[1 .. k + 1] = f[k + 1] + g[1 .. k]
      BY ONLY <1>1, <1>2, <2>1, <2>2
    <2> QED  BY ONLY <1>2, <1>4, <2>1, <2>3, <2>4
  <1>6. n \in 0 .. n
    OBVIOUS
  <1> QED  BY <1>2, <1>3, <1>4, <1>5, <1>6 DEF Adds

-----------------------------------------------------------------------------
(* Arguments of native functions.                                          *)

(* Arguments begin behind each other.                                      *)
LEMMA OffsetMeaning ==
    ASSUME NEW types, NEW i \in 1 .. 4,
           StoreSize(types[1]) \in Int, StoreSize(types[2]) \in Int, StoreSize(types[3]) \in Int
    PROVE  ArgOffset(types, i)
              = (IF i > 1 THEN StoreSize(types[1]) ELSE 0) + (IF i > 2 THEN StoreSize(types[2]) ELSE 0)
                    + (IF i > 3 THEN StoreSize(types[3]) ELSE 0)
  <1> PICK n : n = i - 1
    OBVIOUS
  <1> PICK sizes : sizes = [k \in {1, 2, 3} |-> StoreSize(types[k])]
    OBVIOUS
  <1>1. n \in 0 .. 3
    OBVIOUS
  <1>2. sizes[1] = StoreSize(types[1]) /\ sizes[2] = StoreSize(types[2]) /\ sizes[3] = StoreSize(types[3])
    OBVIOUS
  <1> DEFINE step(f, s) == StoreSize(types[Picked(s)]) + f[Rest(s)]
             g == CHOOSE g : g = [s \in SUBSET (1 .. n) |-> IF s = {} THEN 0 ELSE step(g, s)]
  <1>3. ArgOffset(types, i) = g[1 .. n]
    BY DEF ArgOffset, MapThenSumSet, MapThenFoldSet, Picked, Rest
  <1>4. \A f : \A s \in SUBSET (1 .. n) : s # {} =>
            step(f, s) = sizes[Picked(s)] + f[Rest(s)]
    <2>1. \A s \in SUBSET (1 .. n) : s # {} =>
             sizes[Picked(s)] = StoreSize(types[Picked(s)])
      <3> TAKE s \in SUBSET (1 .. n)
      <3> HAVE s # {}
      <3>1. Picked(s) \in s
        BY DEF Picked
      <3>2. s \subseteq {1, 2, 3}
        BY <1>1
      <3> QED  BY <3>1, <3>2
    <2> QED  BY <2>1
  <1> HIDE DEF step
  <1>5. IsSum(g, sizes, n)
    <2>0. n \in Nat
      BY <1>1
    <2>1. PICK f : IsSum(f, sizes, n)
      BY ONLY <2>0, SumExists
    <2> DEFINE U == SUBSET (1 .. n)
               after(s) == sizes[Picked(s)] + f[Rest(s)]
    <2>a. f = [s \in U |-> IF s = {} THEN 0 ELSE after(s)]
      BY ONLY <2>1 DEF IsSum
    <2>b. \A s \in U : s # {} => step(f, s) = after(s)
      BY ONLY <1>4
    <2> HIDE DEF after, U
    <2>c. f = [s \in U |-> IF s = {} THEN 0 ELSE step(f, s)]
      BY ONLY <2>a, <2>b
    <2>2. f = [s \in SUBSET (1 .. n) |-> IF s = {} THEN 0 ELSE step(f, s)]
      BY ONLY <2>c DEF U
    <2>3. g = [s \in SUBSET (1 .. n) |-> IF s = {} THEN 0 ELSE step(g, s)]
      BY <2>2
    <2> HIDE DEF g
    <2> QED  BY <1>4, <2>3 DEF IsSum
  <1> HIDE DEF g
  <1>6. PICK total : Adds(total, sizes, n) /\ g[1 .. n] = total[n]
    <2>1. \A k \in 1 .. n : sizes[k] \in Int
      BY <1>1, <1>2
    <2>2. n \in Nat
      BY <1>1
    <2> QED  BY ONLY <1>5, <2>1, <2>2, SumAdds
  <1>7. total[0] = 0 /\ \A k \in 0 .. n - 1 : total[k + 1] = total[k] + sizes[k + 1]
    BY <1>6 DEF Adds
  <1>8. /\ n >= 1 => total[1] = sizes[1]
        /\ n >= 2 => total[2] = sizes[1] + sizes[2]
        /\ n >= 3 => total[3] = sizes[1] + sizes[2] + sizes[3]
    <2>1. n >= 1 => total[0 + 1] = total[0] + sizes[0 + 1]
      BY ONLY <1>1, <1>7
    <2>2. n >= 2 => total[1 + 1] = total[1] + sizes[1 + 1]
      BY ONLY <1>1, <1>7
    <2>3. n >= 3 => total[2 + 1] = total[2] + sizes[2 + 1]
      BY ONLY <1>1, <1>7
    <2> QED  BY ONLY <1>1, <1>2, <1>7, <2>1, <2>2, <2>3, StoreSize(types[1]) \in Int,
                     StoreSize(types[2]) \in Int, StoreSize(types[3]) \in Int
  <1> QED  BY <1>1, <1>2, <1>3, <1>6, <1>7, <1>8

LEMMA NativeSizes ==
    ASSUME NEW type \in NativeTypes
    PROVE  /\ StoreSize(type) \in Nat
           /\ HasFfiType(type) => FfiSize(type) = StoreSize(type)
           /\ ~ HasFfiType(type) => FfiSize(type) = 4
  <1>1. type.bits \in {1, 8, 16, 24, 32, 64, 128}
    BY DEF NativeTypes, NativeType
  <1>2. \A bits \in {1, 8, 16, 24, 32, 64, 128} : (bits + 7) \div 8 \in Nat
    OBVIOUS
  <1>3. StoreSize(type) \in Nat
    BY <1>1, <1>2 DEF StoreSize
  <1> QED  BY <1>3 DEF FfiSize

(* What ffiValueFor writes and what it leaves.                             *)
Writes(after, data, at, who, type, D) ==
    /\ DOMAIN after = D
    /\ \A k \in D : k - at \in 1 .. FfiSize(type) => after[k] = Bytes(who, type)[k - at]
    /\ \A k \in D : k - at \notin 1 .. FfiSize(type) => after[k] = data[k]

LEMMA Written ==
    ASSUME NEW data, NEW at, NEW who, NEW type, NEW after, NEW D,
           DOMAIN data = D, after = ffiValueFor(data, at, Bytes(who, type))
    PROVE  Writes(after, data, at, who, type, D)
  <1>1. DOMAIN Bytes(who, type) = 1 .. FfiSize(type)
    BY DEF Bytes
  <1> PICK bytes : bytes = Bytes(who, type)
    OBVIOUS
  <1>2. after = [k \in D |-> IF k - at \in 1 .. FfiSize(type) THEN bytes[k - at] ELSE data[k]]
    BY <1>1 DEF ffiValueFor
  <1>3. DOMAIN after = D
    BY <1>2
  <1>4. \A k \in D : after[k] = IF k - at \in 1 .. FfiSize(type) THEN bytes[k - at] ELSE data[k]
    BY <1>2
  <1> QED  BY ONLY <1>3, <1>4, bytes = Bytes(who, type) DEF Writes

(* The buffer, written by three arguments.                                 *)
LEMMA InvokeMeaning ==
    ASSUME NEW types, DOMAIN types = 1 .. 3
    PROVE  LET step(data, i) == ffiValueFor(data, ArgOffset(types, i), Bytes(i, types[i]))
           IN  ffiInvoke(types) = Fetched(types, step(step(step(ArgData(types), 1), 2), 3))
  <1> PICK data : data = ArgData(types)
    OBVIOUS
  <1> DEFINE place == [i \in DOMAIN types |-> i]
             step(g, s) == ffiValueFor(g[s \ {Max(s)}], ArgOffset(types, place[Max(s)]),
                                       Bytes(place[Max(s)], types[place[Max(s)]]))
             g == CHOOSE g : g = [s \in SUBSET DOMAIN place |-> IF s = {} THEN data ELSE step(g, s)]
  <1>1. DOMAIN place = 1 .. 3
    OBVIOUS
  <1>2. ffiInvoke(types) = Fetched(types, g[DOMAIN place])
    BY DEF ffiInvoke, FoldLeftDomain, FoldLeft, MapThenFoldSet
  <1>3. ASSUME NEW s \in SUBSET (1 .. 3), s # {}, NEW f
        PROVE  step(f, s) = FoldStep("argument", types, f[s \ {Max(s)}], Max(s))
    <2>1. Max(s) \in 1 .. 3
      <3>1. 3 \in Nat
        OBVIOUS
      <3> QED  BY ONLY <1>3, <3>1, MaxInside
    <2>2. place[Max(s)] = Max(s)
      BY <2>1
    <2> PICK old : old = f[s \ {Max(s)}]
      OBVIOUS
    <2> PICK i : i = Max(s)
      OBVIOUS
    <2>3. step(f, s) = ffiValueFor(old, ArgOffset(types, i), Bytes(i, types[i]))
      BY <2>2
    <2>4. FoldStep("argument", types, old, i) = ffiValueFor(old, ArgOffset(types, i), Bytes(i, types[i]))
      BY DEF FoldStep
    <2> HIDE DEF step
    <2> QED  BY <2>3, <2>4
  <1> HIDE DEF step, place
  <1>4. PICK f : IsFold(f, "argument", types, data, 3)
    <2>1. 3 \in Nat
      OBVIOUS
    <2> QED  BY ONLY <2>1, FoldExists
  <1>5. f = [s \in SUBSET DOMAIN place |-> IF s = {} THEN data ELSE step(f, s)]
    BY <1>1, <1>3, <1>4 DEF IsFold
  <1>6. g = [s \in SUBSET DOMAIN place |-> IF s = {} THEN data ELSE step(g, s)]
    BY <1>5
  <1> HIDE DEF g
  <1>7. IsFold(g, "argument", types, data, 3)
    BY <1>1, <1>3, <1>6 DEF IsFold
  <1>8. g[1 .. 3] = FoldStep("argument", types, FoldStep("argument", types,
                                FoldStep("argument", types, data, 1), 2), 3)
    BY <1>7, FoldOfThree
  <1>9. \A value, i : FoldStep("argument", types, value, i)
                         = ffiValueFor(value, ArgOffset(types, i), Bytes(i, types[i]))
    BY DEF FoldStep
  <1> QED  BY ONLY <1>1, <1>2, <1>8, <1>9, data = ArgData(types)

LEMMA ArgumentsFetched ==
    ASSUME NEW types \in [1 .. 3 -> NativeTypes], NEW i \in 1 .. 3, HasFfiType(types[i])
    PROVE  ffiInvoke(types)[i] = Bytes(i, types[i])
  <1>1. DOMAIN types = 1 .. 3 /\ Len(types) = 3
    <2>1. 3 \in Nat
      OBVIOUS
    <2> QED  BY <2>1, VectorIsSequence
  <1> PICK a : a = StoreSize(types[1])
    OBVIOUS
  <1> PICK b : b = StoreSize(types[2])
    OBVIOUS
  <1> PICK c : c = StoreSize(types[3])
    OBVIOUS
  <1>2. a \in Nat /\ b \in Nat /\ c \in Nat
    BY NativeSizes
  <1>3. FfiSize(types[2]) \in Nat /\ FfiSize(types[3]) \in Nat
    BY NativeSizes
  <1>4. /\ ArgOffset(types, 1) = 0 /\ ArgOffset(types, 2) = a
        /\ ArgOffset(types, 3) = a + b /\ ArgOffset(types, 4) = a + (b + c)
    <2>1. ASSUME NEW k \in 1 .. 4
          PROVE  ArgOffset(types, k) = (IF k > 1 THEN a ELSE 0) + (IF k > 2 THEN b ELSE 0)
                                          + (IF k > 3 THEN c ELSE 0)
      BY <1>2, OffsetMeaning
    <2>2. 1 \in 1 .. 4 /\ 2 \in 1 .. 4 /\ 3 \in 1 .. 4 /\ 4 \in 1 .. 4
      OBVIOUS
    <2>3. ArgOffset(types, 1) = 0 + 0 + 0 /\ ArgOffset(types, 2) = a + 0 + 0
      BY <2>1, <2>2
    <2>4. ArgOffset(types, 3) = a + b + 0 /\ ArgOffset(types, 4) = a + b + c
      BY <2>1, <2>2
    <2> QED  BY <1>2, <2>3, <2>4
  <1> PICK data : data = ArgData(types)
    OBVIOUS
  <1> PICK one : one = ffiValueFor(data, ArgOffset(types, 1), Bytes(1, types[1]))
    OBVIOUS
  <1> PICK two : two = ffiValueFor(one, ArgOffset(types, 2), Bytes(2, types[2]))
    OBVIOUS
  <1> PICK three : three = ffiValueFor(two, ArgOffset(types, 3), Bytes(3, types[3]))
    OBVIOUS
  <1> PICK D : D = 1 .. (a + (b + c)) + 4
    OBVIOUS
  <1>5. DOMAIN data = D
    <2>1. 3 + 1 = 4
      OBVIOUS
    <2> QED  BY <1>1, <1>4, <2>1 DEF ArgData
  <1>6. Writes(one, data, 0, 1, types[1], D)
    <2>1. one = ffiValueFor(data, 0, Bytes(1, types[1]))
      BY <1>4
    <2> QED  BY ONLY <1>5, <2>1, Written
  <1>7. Writes(two, one, a, 2, types[2], D)
    <2>1. two = ffiValueFor(one, a, Bytes(2, types[2]))
      BY <1>4
    <2>2. DOMAIN one = D
      BY <1>6 DEF Writes
    <2> QED  BY ONLY <2>1, <2>2, Written
  <1>8. Writes(three, two, a + b, 3, types[3], D)
    <2>1. three = ffiValueFor(two, a + b, Bytes(3, types[3]))
      BY <1>4
    <2>2. DOMAIN two = D
      BY <1>7 DEF Writes
    <2> QED  BY ONLY <2>1, <2>2, Written
  <1>9. ffiInvoke(types) = Fetched(types, three)
    BY <1>1, InvokeMeaning
  <1>10. ffiInvoke(types)[i] = [j \in 1 .. FfiSize(types[i]) |-> three[ArgOffset(types, i) + j]]
    BY <1>1, <1>9 DEF Fetched
  <1>11. FfiSize(types[i]) = StoreSize(types[i])
    BY NativeSizes
  <1>12. ASSUME NEW j \in 1 .. FfiSize(types[i])
         PROVE  three[ArgOffset(types, i) + j] = Bytes(i, types[i])[j]
    <2>1. i \in {1, 2, 3}
      OBVIOUS
    <2>2. CASE i = 1
      <3>1. j \in 1 .. a /\ j \in 1 .. FfiSize(types[1])
        BY <1>11, <2>2
      <3>2. j \in D /\ j - 0 = j /\ 0 + j = j
        BY <1>2, <3>1
      <3>3. j - a \notin 1 .. FfiSize(types[2]) /\ j - (a + b) \notin 1 .. FfiSize(types[3])
        <4>1. j - a < 1 /\ j - (a + b) < 1 /\ j - a \in Int /\ j - (a + b) \in Int
          BY ONLY <1>2, <3>1
        <4>2. \A n \in Nat, k \in Int : k < 1 => k \notin 1 .. n
          OBVIOUS
        <4> QED  BY ONLY <1>3, <4>1, <4>2
      <3>4. three[j] = two[j] /\ two[j] = one[j]
        BY ONLY <1>7, <1>8, <3>2, <3>3 DEF Writes
      <3>5. one[j] = Bytes(1, types[1])[j]
        BY ONLY <1>6, <3>1, <3>2 DEF Writes
      <3> QED  BY <1>4, <2>2, <3>2, <3>4, <3>5
    <2>3. CASE i = 2
      <3> PICK k : k = a + j
        OBVIOUS
      <3>1. j \in 1 .. b /\ j \in 1 .. FfiSize(types[2])
        BY <1>11, <2>3
      <3>2. k \in D /\ k - a = j
        BY ONLY <1>2, <3>1, k = a + j, D = 1 .. (a + (b + c)) + 4
      <3>3. k - (a + b) \notin 1 .. FfiSize(types[3])
        <4>1. k - (a + b) < 1 /\ k - (a + b) \in Int
          BY ONLY <1>2, <3>1, k = a + j
        <4>2. \A n \in Nat, l \in Int : l < 1 => l \notin 1 .. n
          OBVIOUS
        <4> QED  BY ONLY <1>3, <4>1, <4>2
      <3>4. three[k] = two[k]
        BY ONLY <1>8, <3>2, <3>3 DEF Writes
      <3>5. two[k] = Bytes(2, types[2])[j]
        BY ONLY <1>7, <3>1, <3>2 DEF Writes
      <3> QED  BY <1>4, <2>3, <3>4, <3>5
    <2>4. CASE i = 3
      <3> PICK k : k = (a + b) + j
        OBVIOUS
      <3>1. j \in 1 .. c /\ j \in 1 .. FfiSize(types[3])
        BY <1>11, <2>4
      <3>2. k \in D /\ k - (a + b) = j
        BY ONLY <1>2, <3>1, k = (a + b) + j, D = 1 .. (a + (b + c)) + 4
      <3>3. three[k] = Bytes(3, types[3])[j]
        BY ONLY <1>8, <3>1, <3>2 DEF Writes
      <3> QED  BY <1>4, <2>4, <3>3
    <2> QED  BY <2>1, <2>2, <2>3, <2>4
  <1> PICK n : n = FfiSize(types[i])
    OBVIOUS
  <1> PICK bytes : bytes = Bytes(i, types[i])
    OBVIOUS
  <1>13. bytes = [j \in 1 .. n |-> bytes[j]]
    BY DEF Bytes
  <1>14. \A j \in 1 .. n : three[ArgOffset(types, i) + j] = bytes[j]
    BY <1>12
  <1>15. ffiInvoke(types)[i] = [j \in 1 .. n |-> three[ArgOffset(types, i) + j]]
    BY <1>10
  <1>16. ffiInvoke(types)[i] = [j \in 1 .. n |-> bytes[j]]
    BY ONLY <1>14, <1>15
  <1> QED  BY ONLY <1>13, <1>16, bytes = Bytes(i, types[i])

LEMMA ArgumentsOfState == ExecutionInv => ArgumentsArriveIntact
  <1> SUFFICES ASSUME ExecutionInv, Visited("ffiInvoke"), NEW i \in 1 .. 3,
                      HasFfiType(instruction.types[i])
               PROVE  result.fetched[i] = Bytes(i, instruction.types[i])
    BY DEF ArgumentsArriveIntact
  <1> PICK types : types = instruction.types
    OBVIOUS
  <1>1. types \in [1 .. 3 -> NativeTypes]
    BY Kinds DEF NativeCalls, Vectors
  <1>2. result.fetched = ffiInvoke(types)
    BY DEF ExecutionInv, ComputedByCalls
  <1>3. ffiInvoke(types)[i] = Bytes(i, types[i])
    BY <1>1, ArgumentsFetched
  <1> QED  BY <1>2, <1>3

(* A native function gets every argument of a type that libffi has byte by *)
(* byte (ffiInvoke).                                                       *)
THEOREM ArgumentsAreIntact == Spec => []ArgumentsArriveIntact
  BY ResultsAreComputed, ArgumentsOfState, PTL

-----------------------------------------------------------------------------
(* Constants.                                                              *)

FlatTypes == ScalarTypes \cup VectorTypes \cup ArrayTypes

LEMMA ScalarFacts ==
    ASSUME NEW t \in ScalarTypes
    PROVE  t.kind \in {"int", "float", "pointer"} /\ (t.kind = "int" => t.width = 3)
  BY DEF ScalarTypes

LEMMA FlatFacts ==
    ASSUME NEW t \in FlatTypes
    PROVE  /\ t.kind # "struct"
           /\ t.kind \in {"vector", "array"} => t.size = 2 /\ t.of \in ScalarTypes
           /\ t.kind \notin {"vector", "array"} => t \in ScalarTypes
  <1>1. CASE t \in ScalarTypes
    BY <1>1, ScalarFacts
  <1>2. CASE t \in VectorTypes
    BY <1>2 DEF VectorTypes
  <1>3. CASE t \in ArrayTypes
    BY <1>3 DEF ArrayTypes
  <1> QED  BY <1>1, <1>2, <1>3 DEF FlatTypes

LEMMA StructFacts ==
    ASSUME NEW S, NEW t \in Structs(S)
    PROVE  t.kind = "struct" /\ t.members \in [1 .. 2 -> S] /\ Len(t.members) = 2
  <1>1. t.kind = "struct" /\ t.members \in [1 .. 2 -> S]
    BY DEF Structs, Vectors
  <1>2. 2 \in Nat
    OBVIOUS
  <1> QED  BY <1>1, <1>2, VectorIsSequence

(* The members of a struct are flat, or structs of scalars.                *)
LEMMA TypeFacts ==
    ASSUME NEW t \in Types
    PROVE  /\ t.kind # "struct" => t \in FlatTypes
           /\ t.kind = "struct" =>
                 /\ DOMAIN t.members = 1 .. 2 /\ Len(t.members) = 2
                 /\ \A i \in 1 .. 2 : /\ t.members[i] \in Types
                                      /\ t.members[i] \in FlatTypes \cup Structs(ScalarTypes)
  <1>1. Types = FlatTypes \cup Structs(FlatTypes) \cup Structs(ScalarTypes \cup Structs(ScalarTypes))
    BY DEF Types, FlatTypes
  <1>2. ScalarTypes \subseteq FlatTypes
    BY DEF FlatTypes
  <1>3. Structs(ScalarTypes) \subseteq Structs(FlatTypes)
    BY <1>2 DEF Structs, Vectors
  <1>4. FlatTypes \subseteq Types /\ Structs(ScalarTypes) \subseteq Types
    BY <1>1, <1>3
  <1>5. CASE t \in FlatTypes
    BY <1>5, FlatFacts
  <1>6. CASE t \in Structs(FlatTypes)
    <2>1. t.kind = "struct" /\ t.members \in [1 .. 2 -> FlatTypes] /\ Len(t.members) = 2
      BY <1>6, StructFacts
    <2>2. \A i \in 1 .. 2 : t.members[i] \in FlatTypes
      BY <2>1
    <2>3. DOMAIN t.members = 1 .. 2
      BY <2>1
    <2> QED  BY <1>4, <2>1, <2>2, <2>3
  <1>7. CASE t \in Structs(ScalarTypes \cup Structs(ScalarTypes))
    <2> PICK S : S = ScalarTypes \cup Structs(ScalarTypes)
      OBVIOUS
    <2>1. t.kind = "struct" /\ t.members \in [1 .. 2 -> S] /\ Len(t.members) = 2
      BY <1>7, StructFacts
    <2>2. \A i \in 1 .. 2 : t.members[i] \in S
      BY <2>1
    <2>3. DOMAIN t.members = 1 .. 2
      BY <2>1
    <2>4. S \subseteq Types /\ S \subseteq FlatTypes \cup Structs(ScalarTypes)
      BY <1>2, <1>4
    <2> QED  BY <2>1, <2>2, <2>3, <2>4
  <1> QED  BY <1>1, <1>5, <1>6, <1>7

(* The undefined value of a struct, from those of its members.             *)
UndefMember(f, member) ==
    IF member.kind \in {"struct", "array"} THEN f[member] ELSE UndefScalar(member)

UndefOf(f, t) ==
    CASE t.kind = "struct" ->
           [EmptyValue EXCEPT !.AggregateVal = [i \in DOMAIN t.members |-> UndefMember(f, t.members[i])]]
      [] t.kind = "vector" ->
           [EmptyValue EXCEPT !.AggregateVal = [i \in 1 .. t.size |-> UndefScalar(t.of)]]
      [] OTHER -> UndefScalar(t)

IsUndef(f) == f = [t \in Types |-> UndefOf(f, t)]

LEMMA UndefDependsOnMembers ==
    ASSUME NEW t \in Types, NEW f, NEW g,
           t.kind = "struct" => \A i \in 1 .. 2 : UndefMember(f, t.members[i]) = UndefMember(g, t.members[i])
    PROVE  UndefOf(f, t) = UndefOf(g, t)
  <1>1. CASE t.kind = "struct"
    <2> PICK a : a = [i \in DOMAIN t.members |-> UndefMember(f, t.members[i])]
      OBVIOUS
    <2> PICK b : b = [i \in DOMAIN t.members |-> UndefMember(g, t.members[i])]
      OBVIOUS
    <2>1. DOMAIN t.members = 1 .. 2
      BY <1>1, TypeFacts
    <2>2. a = b
      BY <1>1, <2>1
    <2>3. UndefOf(f, t) = [EmptyValue EXCEPT !.AggregateVal = a]
      BY <1>1 DEF UndefOf
    <2>4. UndefOf(g, t) = [EmptyValue EXCEPT !.AggregateVal = b]
      BY <1>1 DEF UndefOf
    <2> QED  BY ONLY <2>2, <2>3, <2>4
  <1>2. CASE t.kind # "struct"
    BY <1>2 DEF UndefOf
  <1> QED  BY <1>1, <1>2

LEMMA UndefExists == \E f : IsUndef(f)
  <1> PICK zero : zero = [t \in Types |-> UndefOf([s \in Types |-> EmptyValue], t)]
    OBVIOUS
  <1> PICK one : one = [t \in Types |-> UndefOf(zero, t)]
    OBVIOUS
  <1> PICK two : two = [t \in Types |-> UndefOf(one, t)]
    OBVIOUS
  <1>1. \A t \in Types : t.kind # "struct" => \A f, g : UndefOf(f, t) = UndefOf(g, t)
    BY UndefDependsOnMembers
  <1>2. \A t \in ScalarTypes : \A f, g : UndefMember(f, t) = UndefMember(g, t)
    BY ScalarFacts DEF UndefMember
  <1>3. ASSUME NEW t \in Types, t \in Structs(ScalarTypes)
        PROVE  two[t] = one[t]
    <2>1. \A i \in 1 .. 2 : t.members[i] \in ScalarTypes
      BY <1>3, StructFacts
    <2>2. UndefOf(one, t) = UndefOf(zero, t)
      BY <1>2, <2>1, UndefDependsOnMembers
    <2> QED  BY <2>2
  <1>4. ASSUME NEW t \in Types, t.kind # "struct"
        PROVE  two[t] = one[t]
    <2>1. UndefOf(one, t) = UndefOf(zero, t)
      BY <1>1, <1>4
    <2> QED  BY <2>1
  <1>5. ASSUME NEW t \in Types
        PROVE  UndefOf(two, t) = UndefOf(one, t)
    <2>1. ASSUME t.kind = "struct", NEW i \in 1 .. 2
          PROVE  UndefMember(two, t.members[i]) = UndefMember(one, t.members[i])
      <3> PICK m : m = t.members[i]
        OBVIOUS
      <3>1. m \in Types /\ (m \in FlatTypes \/ m \in Structs(ScalarTypes))
        BY <2>1, TypeFacts
      <3>2. two[m] = one[m]
        BY <1>3, <1>4, <3>1, FlatFacts
      <3> QED  BY <3>2 DEF UndefMember
    <2> QED  BY <2>1, UndefDependsOnMembers
  <1>6. two = [t \in Types |-> UndefOf(two, t)]
    BY <1>5
  <1> QED  BY <1>6 DEF IsUndef

LEMMA UndefMeaning ==
    \E f : IsUndef(f) /\ \A type : UndefValue(type) = f[type]
  <1> DEFINE f == CHOOSE f : IsUndef(f)
  <1>1. IsUndef(f)
    BY UndefExists
  <1>2. \A type : UndefValue(type) = f[type]
    BY DEF UndefValue, IsUndef, UndefOf, UndefMember
  <1> QED  BY <1>1, <1>2

(* Which types are left empty.                                             *)
EmptyOf(e, t) ==
    \/ t.kind = "array"
    \/ t.kind = "struct" /\ \E i \in DOMAIN t.members : t.members[i].kind = "vector" \/ e[t.members[i]]

IsEmpty(e) == e = [t \in Types |-> EmptyOf(e, t)]

LEMMA EmptyExists == \E e : IsEmpty(e)
  <1> PICK one : one = [t \in Types |-> EmptyOf([s \in Types |-> s.kind = "array"], t)]
    OBVIOUS
  <1> PICK two : two = [t \in Types |-> EmptyOf(one, t)]
    OBVIOUS
  <1> PICK zero : zero = [t \in Types |-> t.kind = "array"]
    OBVIOUS
  <1>1. \A t \in Types : one[t] = EmptyOf(zero, t) /\ two[t] = EmptyOf(one, t) /\ zero[t] = (t.kind = "array")
    OBVIOUS
  <1>2. ASSUME NEW t \in Types, t \in Structs(ScalarTypes), NEW e,
               \A s \in ScalarTypes : e[s] = FALSE
        PROVE  EmptyOf(e, t) = FALSE
    <2>1. /\ t.kind = "struct" /\ DOMAIN t.members = 1 .. 2
          /\ \A i \in 1 .. 2 : t.members[i] \in ScalarTypes
      BY <1>2, StructFacts
    <2>2. \A s \in ScalarTypes : s.kind # "vector" /\ ~ e[s]
      BY <1>2, ScalarFacts
    <2> QED  BY ONLY <2>1, <2>2 DEF EmptyOf
  <1>3. \A t \in Types : t.kind # "struct" => \A e : EmptyOf(e, t) = (t.kind = "array")
    BY DEF EmptyOf
  <1>4. ScalarTypes \subseteq Types /\ \A s \in ScalarTypes : s.kind # "struct" /\ s.kind # "array"
    BY ScalarFacts DEF Types
  <1>5. \A s \in ScalarTypes : zero[s] = FALSE /\ one[s] = FALSE
    <2> TAKE s \in ScalarTypes
    <2>1. s \in Types /\ s.kind # "struct" /\ (s.kind = "array") = FALSE
      BY <1>4
    <2>2. EmptyOf(zero, s) = FALSE
      BY ONLY <1>3, <2>1, Zenon
    <2> QED  BY ONLY <1>1, <2>1, <2>2, Zenon
  <1>6. ASSUME NEW t \in Types, t \in FlatTypes \/ t \in Structs(ScalarTypes)
        PROVE  two[t] = one[t]
    <2>1. CASE t \in FlatTypes
      <3>1. t.kind # "struct"
        BY <2>1, FlatFacts
      <3>2. EmptyOf(zero, t) = (t.kind = "array") /\ EmptyOf(one, t) = (t.kind = "array")
        BY ONLY <1>3, <3>1, t \in Types, Zenon
      <3> QED  BY ONLY <1>1, <3>2, t \in Types, Zenon
    <2>2. CASE t \in Structs(ScalarTypes)
      <3>1. EmptyOf(zero, t) = FALSE
        BY <1>2, <1>5, <2>2
      <3>2. EmptyOf(one, t) = FALSE
        BY <1>2, <1>5, <2>2
      <3> QED  BY ONLY <1>1, <3>1, <3>2, t \in Types, Zenon
    <2> QED  BY <1>6, <2>1, <2>2
  <1>7. ASSUME NEW t \in Types
        PROVE  EmptyOf(two, t) = EmptyOf(one, t)
    <2>1. CASE t.kind # "struct"
      BY ONLY <1>3, <2>1, t \in Types, Zenon
    <2>2. CASE t.kind = "struct"
      <3>1. \A i \in DOMAIN t.members : two[t.members[i]] = one[t.members[i]]
        <4>1. DOMAIN t.members = 1 .. 2 /\ \A i \in 1 .. 2 :
                 t.members[i] \in Types /\ t.members[i] \in FlatTypes \cup Structs(ScalarTypes)
          BY <2>2, TypeFacts
        <4> QED  BY <1>6, <4>1
      <3>2. (\E i \in DOMAIN t.members : t.members[i].kind = "vector" \/ two[t.members[i]])
               <=> (\E i \in DOMAIN t.members : t.members[i].kind = "vector" \/ one[t.members[i]])
        BY ONLY <3>1, Zenon
      <3> QED  BY ONLY <3>2, Zenon DEF EmptyOf
    <2> QED  BY <2>1, <2>2
  <1>8. two = [t \in Types |-> EmptyOf(two, t)]
    BY ONLY <1>7, two = [t \in Types |-> EmptyOf(one, t)], Zenon
  <1> QED  BY <1>8, Zenon DEF IsEmpty

LEMMA EmptyMeaning ==
    \E e : IsEmpty(e) /\ \A type : LeftEmpty(type) = e[type]
  <1> DEFINE e == CHOOSE e : IsEmpty(e)
  <1>1. IsEmpty(e)
    BY EmptyExists, Zenon
  <1>2. \A type : LeftEmpty(type) = e[type]
    BY DEF LeftEmpty, IsEmpty, EmptyOf
  <1> QED  BY <1>1, <1>2, Zenon

(* What the value of a scalar of a constant is.                            *)
LEMMA ValueFacts ==
    ASSUME NEW w, NEW x
    PROVE  IntegerVal(w, x).width = w /\ IntegerVal(w, x).value = x
  BY DEF IntegerVal, EmptyValue

LEMMA ScalarValues ==
    ASSUME NEW t \in ScalarTypes
    PROVE  /\ FlatHasType(UndefScalar(t), t)
           /\ \A x \in 0 .. 7 : FlatHasType(Scalar(t, x), t) /\ Scalar(t, x).value = x
  <1>1. t.kind \in {"int", "float", "pointer"} /\ (t.kind = "int" => t.width = 3)
    BY ScalarFacts
  <1>2. Ints(3) = 0 .. 7
    BY SmallPowers DEF Ints
  <1>3. CASE t.kind = "int"
    <2>1. UndefScalar(t) = IntegerVal(3, 0) /\ \A x : Scalar(t, x) = IntegerVal(3, x)
      BY <1>1, <1>3 DEF UndefScalar, Scalar
    <2>2. \A v : v.width = 3 /\ v.value \in Ints(3) => FlatHasType(v, t)
      BY <1>1, <1>3 DEF FlatHasType
    <2> QED  BY <1>2, <2>1, <2>2, ValueFacts
  <1>4. CASE t.kind # "int"
    <2>1. \A v : FlatHasType(v, t)
      BY <1>1, <1>4 DEF FlatHasType
    <2>2. \A x : Scalar(t, x) = [EmptyValue EXCEPT !.value = x]
      BY <1>4 DEF Scalar
    <2>3. \A x : Scalar(t, x).value = x
      BY <2>2 DEF EmptyValue
    <2> QED  BY <2>1, <2>3
  <1> QED  BY <1>3, <1>4

LEMMA LengthOfTwo ==
    ASSUME NEW a, DOMAIN a = 1 .. 2, a = [i \in 1 .. 2 |-> a[i]]
    PROVE  Len(a) = 2
  <1> PICK S : S = {a[1], a[2]}
    OBVIOUS
  <1>1. \A i \in 1 .. 2 : a[i] \in S
    BY OneTwo
  <1>2. a \in [1 .. 2 -> S]
    BY <1>1
  <1>3. 2 \in Nat
    OBVIOUS
  <1> QED  BY ONLY <1>2, <1>3, VectorIsSequence

(* A value with the elements of a vector of scalars.                       *)
LEMMA VectorsHaveTheirType ==
    ASSUME NEW t, t.kind = "vector", t.size = 2, t.of \in ScalarTypes,
           NEW a, a = [i \in 1 .. 2 |-> a[i]], \A i \in 1 .. 2 : FlatHasType(a[i], t.of),
           NEW v, v.AggregateVal = a
    PROVE  HasType(v, t)
  <1>1. Len(a) = 2
    <2>1. DOMAIN a = 1 .. 2
      OBVIOUS
    <2> QED  BY <2>1, LengthOfTwo
  <1>2. t.of.kind = "int" => \A i \in 1 .. 2 : a[i].width = t.of.width /\ a[i].value \in Ints(t.of.width)
    BY DEF FlatHasType
  <1>3. FlatHasType(v, t)
    BY <1>1, <1>2 DEF FlatHasType
  <1> QED  BY <1>3 DEF HasType, StructHasType

LEMMA FlatIsEnough ==
    ASSUME NEW t, NEW v, t.kind # "struct", FlatHasType(v, t)
    PROVE  HasType(v, t)
  BY DEF HasType, StructHasType

LEMMA AggregateFacts ==
    ASSUME NEW a
    PROVE  [EmptyValue EXCEPT !.AggregateVal = a].AggregateVal = a
  BY DEF EmptyValue

(* The undefined value of a struct has a value for each member.            *)
LEMMA UndefStructs ==
    ASSUME NEW f, IsUndef(f), NEW t \in Types, t.kind = "struct",
           \A i \in 1 .. 2 : FlatHasType(UndefMember(f, t.members[i]), t.members[i])
    PROVE  StructHasType(f[t], t) /\ \A i \in 1 .. 2 : f[t].AggregateVal[i] = UndefMember(f, t.members[i])
  <1>1. DOMAIN t.members = 1 .. 2 /\ Len(t.members) = 2
    BY TypeFacts
  <1> PICK a : a = [i \in DOMAIN t.members |-> UndefMember(f, t.members[i])]
    OBVIOUS
  <1>2. f[t] = [EmptyValue EXCEPT !.AggregateVal = a]
    BY DEF IsUndef, UndefOf
  <1>3. f[t].AggregateVal = a
    BY <1>2, AggregateFacts
  <1>4. DOMAIN a = 1 .. 2 /\ a = [i \in 1 .. 2 |-> a[i]] /\ \A i \in 1 .. 2 : a[i] = UndefMember(f, t.members[i])
    BY <1>1
  <1>5. Len(a) = 2
    BY <1>4, LengthOfTwo
  <1>6. StructHasType(f[t], t)
    BY <1>1, <1>3, <1>4, <1>5 DEF StructHasType
  <1> QED  BY <1>3, <1>4, <1>6

LEMMA UndefsHaveTheirType ==
    ASSUME NEW t \in Types, ~ LeftEmpty(t)
    PROVE  HasType(UndefValue(t), t)
  <1>1. PICK f : IsUndef(f) /\ \A type : UndefValue(type) = f[type]
    BY UndefMeaning
  <1>2. PICK e : IsEmpty(e) /\ \A type : LeftEmpty(type) = e[type]
    BY EmptyMeaning, Zenon
  <1>3. \A s \in Types : e[s] = EmptyOf(e, s)
    BY <1>2 DEF IsEmpty
  <1>4. ~ e[t]
    BY <1>2
  <1>5. ~ EmptyOf(e, t)
    BY <1>3, <1>4
  <1>6. CASE t.kind # "struct"
    <2>1. f[t] = UndefOf(f, t)
      BY <1>1 DEF IsUndef
    <2>2. t \in FlatTypes /\ t.kind # "array"
      BY <1>5, <1>6, TypeFacts DEF EmptyOf
    <2>3. CASE t.kind = "vector"
      <3>1. t.size = 2 /\ t.of \in ScalarTypes
        BY <2>2, <2>3, FlatFacts
      <3> PICK a : a = [i \in 1 .. t.size |-> UndefScalar(t.of)]
        OBVIOUS
      <3>2. f[t] = [EmptyValue EXCEPT !.AggregateVal = a]
        BY <2>1, <2>3 DEF UndefOf
      <3>3. a = [i \in 1 .. 2 |-> a[i]] /\ \A i \in 1 .. 2 : a[i] = UndefScalar(t.of)
        BY <3>1
      <3>4. f[t].AggregateVal = a
        BY <3>2, AggregateFacts
      <3>5. \A i \in 1 .. 2 : FlatHasType(a[i], t.of)
        BY <3>1, <3>3, ScalarValues
      <3>6. HasType(f[t], t)
        BY ONLY <2>3, <3>1, <3>3, <3>4, <3>5, VectorsHaveTheirType
      <3> QED  BY <1>1, <3>6
    <2>4. CASE t.kind # "vector"
      <3>1. t \in ScalarTypes
        BY <2>2, <2>4, FlatFacts
      <3>2. f[t] = UndefScalar(t)
        BY <1>6, <2>1, <2>4 DEF UndefOf
      <3>3. FlatHasType(f[t], t)
        BY <3>1, <3>2, ScalarValues
      <3> QED  BY <1>1, <1>6, <3>3, FlatIsEnough
    <2> QED  BY <2>3, <2>4
  <1>7. CASE t.kind = "struct"
    <2>1. DOMAIN t.members = 1 .. 2 /\ Len(t.members) = 2
          /\ \A i \in 1 .. 2 : /\ t.members[i] \in Types
                               /\ t.members[i] \in FlatTypes \cup Structs(ScalarTypes)
      BY <1>7, TypeFacts
    <2>2. ASSUME NEW i \in 1 .. 2
          PROVE  t.members[i].kind # "vector" /\ t.members[i].kind # "array"
      <3>1. t.members[i].kind # "vector" /\ ~ e[t.members[i]]
        BY <1>5, <1>7, <2>1 DEF EmptyOf
      <3>2. ~ EmptyOf(e, t.members[i])
        BY <1>3, <2>1, <3>1
      <3> QED  BY <3>1, <3>2 DEF EmptyOf
    <2>3. ASSUME NEW i \in 1 .. 2
          PROVE  /\ FlatHasType(UndefMember(f, t.members[i]), t.members[i])
                 /\ StructHasType(UndefMember(f, t.members[i]), t.members[i])
      <3> PICK m : m = t.members[i]
        OBVIOUS
      <3>1. m \in Types /\ m.kind # "vector" /\ m.kind # "array"
        BY <2>1, <2>2
      <3>2. CASE m \in FlatTypes
        <4>1. m \in ScalarTypes /\ m.kind # "struct"
          BY <3>1, <3>2, FlatFacts
        <4>2. UndefMember(f, m) = UndefScalar(m)
          BY <3>1, <4>1 DEF UndefMember
        <4>3. FlatHasType(UndefMember(f, m), m)
          BY <4>1, <4>2, ScalarValues
        <4>4. StructHasType(UndefMember(f, m), m)
          BY <4>1 DEF StructHasType
        <4> QED  BY <4>3, <4>4
      <3>3. CASE m \in Structs(ScalarTypes)
        <4>1. m.kind = "struct" /\ \A j \in 1 .. 2 : m.members[j] \in ScalarTypes
          BY <3>3, StructFacts
        <4>2. UndefMember(f, m) = f[m]
          BY <4>1 DEF UndefMember
        <4>3. \A j \in 1 .. 2 : FlatHasType(UndefMember(f, m.members[j]), m.members[j])
          <5> TAKE j \in 1 .. 2
          <5> PICK s : s = m.members[j]
            OBVIOUS
          <5>1. s \in ScalarTypes
            BY <4>1
          <5>2. UndefMember(f, s) = UndefScalar(s)
            BY <5>1, ScalarFacts DEF UndefMember
          <5> QED  BY <5>1, <5>2, ScalarValues
        <4>4. StructHasType(f[m], m)
          BY <1>1, <3>1, <4>1, <4>3, UndefStructs
        <4>5. FlatHasType(f[m], m)
          BY <4>1 DEF FlatHasType
        <4> QED  BY <4>2, <4>4, <4>5
      <3> QED  BY <2>1, <3>2, <3>3
    <2>4. StructHasType(f[t], t) /\ \A i \in 1 .. 2 : f[t].AggregateVal[i] = UndefMember(f, t.members[i])
      BY <1>1, <1>7, <2>3, UndefStructs
    <2>5. FlatHasType(f[t], t)
      BY <1>7 DEF FlatHasType
    <2>6. \A i \in DOMAIN t.members : StructHasType(f[t].AggregateVal[i], t.members[i])
      BY <2>1, <2>3, <2>4
    <2>7. HasType(f[t], t)
      BY <2>4, <2>5, <2>6 DEF HasType
    <2> QED  BY <1>1, <2>7
  <1> QED  BY <1>6, <1>7

LEMMA OperandFacts ==
    ASSUME NEW i \in Operands
    PROVE  /\ i.type \in Types
           /\ \/ i.constant = Undef
              \/ i.constant = Number(5) /\ i.type \in ScalarTypes
              \/ /\ i.type \in VectorTypes /\ i.type.of.kind # "pointer"
                 /\ \/ i.constant = [form |-> "zero"]
                    \/ /\ i.constant.form = "elements"
                       /\ i.constant.elements \in [1 .. 2 -> {Undef, Number(5)}]
  <1>1. ScalarTypes \subseteq Types /\ VectorTypes \subseteq Types
    BY DEF Types
  <1>2. CASE i \in [visit : {"Operand"}, type : Types, constant : {Undef}]
    BY <1>2
  <1>3. CASE i \in [visit : {"Operand"}, type : ScalarTypes, constant : {Number(5)}]
    BY <1>1, <1>3
  <1>4. CASE i \in [visit : {"Operand"}, type : {t \in VectorTypes : t.of.kind # "pointer"},
                    constant : {[form |-> "zero"]}
                        \cup [form : {"elements"}, elements : Vectors({Undef, Number(5)}, 2)]]
    <2>1. i.type \in VectorTypes /\ i.type.of.kind # "pointer"
      BY <1>4
    <2>2. i.constant \in {[form |-> "zero"]} \cup [form : {"elements"}, elements : Vectors({Undef, Number(5)}, 2)]
      BY <1>4
    <2>3. i.constant = [form |-> "zero"]
          \/ (i.constant.form = "elements" /\ i.constant.elements \in [1 .. 2 -> {Undef, Number(5)}])
      BY <2>2 DEF Vectors
    <2> QED  BY <1>1, <2>1, <2>3
  <1> QED  BY <1>2, <1>3, <1>4 DEF Operands

LEMMA OperandsOfState == ExecutionInv => ConstantsHaveTheirType
  <1> SUFFICES ASSUME ExecutionInv, Visited("Operand"), ~ LeftEmpty(instruction.type)
               PROVE  /\ HasType(result, instruction.type)
                      /\ instruction.constant.form = "number" => result.value = 5
                      /\ instruction.constant.form = "elements" =>
                            \A i \in 1 .. 2 : instruction.constant.elements[i] = Number(5)
                                                   => result.AggregateVal[i].value = 5
    BY Zenon DEF ConstantsHaveTheirType
  <1> PICK t : t = instruction.type
    OBVIOUS
  <1> PICK c : c = instruction.constant
    OBVIOUS
  <1>1. instruction \in Operands
    BY Kinds
  <1>2. result = getConstantValue(t, c)
    BY DEF ExecutionInv, ComputedByCalls
  <1>3. /\ t \in Types
        /\ \/ c = Undef
           \/ c = Number(5) /\ t \in ScalarTypes
           \/ /\ t \in VectorTypes /\ t.of.kind # "pointer"
              /\ \/ c = [form |-> "zero"]
                 \/ c.form = "elements" /\ c.elements \in [1 .. 2 -> {Undef, Number(5)}]
    BY <1>1, OperandFacts
  <1>4. ~ LeftEmpty(t)
    OBVIOUS
  <1>5. Undef.form = "undef" /\ Number(5).form = "number" /\ Number(5).value = 5
    BY DEF Undef, Number
  <1>6. 5 \in 0 .. 7 /\ 0 \in 0 .. 7
    OBVIOUS
  <1>7. t \in VectorTypes => t.kind = "vector" /\ t.size = 2 /\ t.of \in ScalarTypes
    BY DEF VectorTypes
  <1>8. CASE c = Undef
    <2>1. c.form = "undef"
      BY <1>5, <1>8
    <2>2. result = UndefValue(t)
      BY <1>2, <2>1 DEF getConstantValue
    <2>3. HasType(result, t)
      BY <1>3, <1>4, <2>2, UndefsHaveTheirType
    <2> QED  BY <2>1, <2>3
  <1>9. CASE c = Number(5) /\ t \in ScalarTypes
    <2>1. c.form = "number" /\ c.value = 5
      BY <1>5, <1>9
    <2>2. result = Scalar(t, 5)
      BY <1>2, <2>1 DEF getConstantValue
    <2>3. FlatHasType(result, t) /\ result.value = 5
      BY <1>6, <1>9, <2>2, ScalarValues
    <2>4. t.kind # "struct"
      BY <1>9, ScalarFacts
    <2>5. HasType(result, t)
      BY <2>3, <2>4, FlatIsEnough
    <2> QED  BY <2>1, <2>3, <2>5
  <1>10. CASE t \in VectorTypes /\ c = [form |-> "zero"]
    <2>1. c.form = "zero"
      BY <1>10
    <2> PICK a : a = [i \in 1 .. t.size |-> Scalar(t.of, 0)]
      OBVIOUS
    <2>2. result = [EmptyValue EXCEPT !.AggregateVal = a]
      BY <1>2, <2>1 DEF getConstantValue
    <2>3. result.AggregateVal = a
      BY <2>2, AggregateFacts
    <2>4. a = [i \in 1 .. 2 |-> a[i]] /\ \A i \in 1 .. 2 : a[i] = Scalar(t.of, 0)
      BY <1>7, <1>10
    <2>5. \A i \in 1 .. 2 : FlatHasType(a[i], t.of)
      BY <1>6, <1>7, <1>10, <2>4, ScalarValues
    <2>6. HasType(result, t)
      BY ONLY <1>7, <1>10, <2>3, <2>4, <2>5, VectorsHaveTheirType
    <2> QED  BY <2>1, <2>6
  <1>11. CASE /\ t \in VectorTypes /\ c.form = "elements"
              /\ c.elements \in [1 .. 2 -> {Undef, Number(5)}]
    <2> PICK a : a = [i \in 1 .. t.size |->
                         IF c.elements[i].form = "undef" THEN UndefScalar(t.of)
                         ELSE Scalar(t.of, c.elements[i].value)]
      OBVIOUS
    <2>1. result = [EmptyValue EXCEPT !.AggregateVal = a]
      BY <1>2, <1>11 DEF getConstantValue
    <2>2. result.AggregateVal = a
      BY <2>1, AggregateFacts
    <2>3. a = [i \in 1 .. 2 |-> a[i]]
      BY <1>7, <1>11
    <2>4. ASSUME NEW i \in 1 .. 2
          PROVE  FlatHasType(a[i], t.of) /\ (c.elements[i] = Number(5) => a[i].value = 5)
      <3>1. a[i] = IF c.elements[i].form = "undef" THEN UndefScalar(t.of)
                   ELSE Scalar(t.of, c.elements[i].value)
        BY <1>7, <1>11
      <3>2. t.of \in ScalarTypes
        BY <1>7, <1>11
      <3>3. CASE c.elements[i] = Undef
        <4>1. a[i] = UndefScalar(t.of) /\ c.elements[i] # Number(5)
          BY <1>5, <3>1, <3>3
        <4> QED  BY <3>2, <4>1, ScalarValues
      <3>4. CASE c.elements[i] = Number(5)
        <4>1. a[i] = Scalar(t.of, 5)
          BY <1>5, <3>1, <3>4
        <4> QED  BY <1>6, <3>2, <4>1, ScalarValues
      <3> QED  BY <1>11, <3>3, <3>4
    <2>5. HasType(result, t)
      BY ONLY <1>7, <1>11, <2>2, <2>3, <2>4, VectorsHaveTheirType
    <2> QED  BY <1>11, <2>2, <2>4, <2>5
  <1> QED  BY <1>3, <1>8, <1>9, <1>10, <1>11

(* A constant operand has integers of the widths of its type at every      *)
(* depth, and as many elements (getConstantValue).                         *)
THEOREM ConstantsAreTyped == Spec => []ConstantsHaveTheirType
  BY ResultsAreComputed, OperandsOfState, PTL

-----------------------------------------------------------------------------
(* Bit casts. A vector in memory is a sum of elements at their places.     *)

Place(little, n, k) == IF little THEN k - 1 ELSE n - k

Terms(f, a, at, little, n, w) ==
    \A j \in 1 .. n : a[at + j] \in Int /\ f[j] = a[at + j] * Pow2[w * Place(little, n, j)]

(* x is the number that n elements of w bits, from the one after at on,    *)
(* are in memory.                                                          *)
SumsTo(x, a, at, little, n, w) ==
    \E f, total : Terms(f, a, at, little, n, w) /\ Adds(total, f, n) /\ x = total[n]

LEMMA PlacesAreNumbers ==
    ASSUME NEW little \in BOOLEAN, NEW n \in Nat, NEW k \in 1 .. n, NEW w \in Nat
    PROVE  /\ Place(little, n, k) \in Nat /\ w * Place(little, n, k) \in Nat
           /\ Pow2[w * Place(little, n, k)] \in Nat \ {0}
  <1> PICK p : p = Place(little, n, k)
    OBVIOUS
  <1>1. p \in Nat
    BY DEF Place
  <1>2. w * p \in Nat
    BY <1>1
  <1>3. Pow2[w * p] \in Nat \ {0}
    BY ONLY <1>2, PowersArePositive
  <1> QED  BY <1>1, <1>2, <1>3

LEMMA TermsAreInts ==
    ASSUME NEW little \in BOOLEAN, NEW n \in Nat, NEW w \in Nat, NEW a, NEW at, NEW f,
           Terms(f, a, at, little, n, w)
    PROVE  \A j \in 1 .. n : f[j] \in Int
  <1> TAKE j \in 1 .. n
  <1> PICK p : p = Pow2[w * Place(little, n, j)]
    OBVIOUS
  <1> PICK x : x = a[at + j]
    OBVIOUS
  <1>1. p \in Int
    <2>1. p \in Nat \ {0}
      BY ONLY PlacesAreNumbers, little \in BOOLEAN, n \in Nat, w \in Nat, j \in 1 .. n,
              p = Pow2[w * Place(little, n, j)]
    <2> QED  BY <2>1
  <1>2. x \in Int /\ f[j] = x * p
    BY DEF Terms
  <1> QED  BY <1>1, <1>2

(* What MapThenSumSet makes of such terms.                                 *)
LEMMA ImageMeaning ==
    ASSUME NEW little \in BOOLEAN, NEW n \in Nat, NEW w \in Nat, NEW a,
           DOMAIN a = 1 .. n, Len(a) = n, \A k \in 1 .. n : a[k] \in Int
    PROVE  SumsTo(Image(little, a, w), a, 0, little, n, w)
  <1> DEFINE term(k) == a[k] * Pow2[w * (IF little THEN k - 1 ELSE Len(a) - k)]
             step(h, s) == term(Picked(s)) + h[Rest(s)]
             g == CHOOSE g : g = [s \in SUBSET DOMAIN a |-> IF s = {} THEN 0 ELSE step(g, s)]
  <1>1. Image(little, a, w) = g[DOMAIN a]
    BY DEF Image, MapThenSumSet, MapThenFoldSet, Picked, Rest
  <1> PICK f : f = [k \in 1 .. n |-> term(k)]
    OBVIOUS
  <1>2. \A k \in 1 .. n : f[k] = term(k)
    OBVIOUS
  <1>3. Terms(f, a, 0, little, n, w)
    <2>1. \A k \in 1 .. n : 0 + k = k
      OBVIOUS
    <2>2. \A k \in 1 .. n : term(k) = a[k] * Pow2[w * Place(little, n, k)]
      BY DEF Place
    <2> QED  BY <1>2, <2>1, <2>2 DEF Terms
  <1>4. \A k \in 1 .. n : f[k] \in Int
    <2>1. \A at : Terms(f, a, at, little, n, w) => \A k \in 1 .. n : f[k] \in Int
      BY ONLY TermsAreInts, little \in BOOLEAN, n \in Nat, w \in Nat
    <2> QED  BY ONLY <1>3, <2>1
  <1> HIDE DEF term
  <1>5. \A h : \A s \in SUBSET (1 .. n) : s # {} => step(h, s) = f[Picked(s)] + h[Rest(s)]
    <2> TAKE h
    <2> TAKE s \in SUBSET (1 .. n)
    <2> HAVE s # {}
    <2>1. Picked(s) \in 1 .. n
      BY DEF Picked
    <2> QED  BY <1>2, <2>1
  <1> HIDE DEF step
  <1>6. IsSum(g, f, n)
    <2>1. PICK h : IsSum(h, f, n)
      BY SumExists
    <2> DEFINE U == SUBSET (1 .. n)
               after(s) == f[Picked(s)] + h[Rest(s)]
    <2>2. h = [s \in U |-> IF s = {} THEN 0 ELSE after(s)]
      BY ONLY <2>1 DEF IsSum
    <2>3. \A s \in U : s # {} => step(h, s) = after(s)
      BY ONLY <1>5
    <2> HIDE DEF after, U
    <2>4. h = [s \in U |-> IF s = {} THEN 0 ELSE step(h, s)]
      BY ONLY <2>2, <2>3
    <2>5. h = [s \in SUBSET DOMAIN a |-> IF s = {} THEN 0 ELSE step(h, s)]
      BY ONLY <2>4, DOMAIN a = 1 .. n DEF U
    <2>6. g = [s \in SUBSET (1 .. n) |-> IF s = {} THEN 0 ELSE step(g, s)]
      BY <2>5
    <2> HIDE DEF g
    <2> QED  BY <1>5, <2>6 DEF IsSum
  <1> HIDE DEF g
  <1>7. PICK total : Adds(total, f, n) /\ g[1 .. n] = total[n]
    BY <1>4, <1>6, SumAdds
  <1>8. Image(little, a, w) = total[n]
    BY <1>1, <1>7
  <1> QED  BY ONLY <1>3, <1>7, <1>8 DEF SumsTo

(* The sum inside Join.                                                    *)
Joined(little, src, at, ratio, from) ==
    MapThenSumSet(LAMBDA j : src[at + j] * Pow2[from * (IF little THEN j - 1 ELSE ratio - j)],
                  1 .. ratio)

LEMMA JoinedMeaning ==
    ASSUME NEW little \in BOOLEAN, NEW n \in Nat, NEW w \in Nat, NEW a, NEW at,
           \A k \in 1 .. n : a[at + k] \in Int
    PROVE  SumsTo(Joined(little, a, at, n, w), a, at, little, n, w)
  <1> DEFINE term(k) == a[at + k] * Pow2[w * (IF little THEN k - 1 ELSE n - k)]
             step(h, s) == term(Picked(s)) + h[Rest(s)]
             g == CHOOSE g : g = [s \in SUBSET (1 .. n) |-> IF s = {} THEN 0 ELSE step(g, s)]
  <1>1. Joined(little, a, at, n, w) = g[1 .. n]
    BY DEF Joined, MapThenSumSet, MapThenFoldSet, Picked, Rest
  <1> PICK f : f = [k \in 1 .. n |-> term(k)]
    OBVIOUS
  <1>2. \A k \in 1 .. n : f[k] = term(k)
    OBVIOUS
  <1>3. Terms(f, a, at, little, n, w)
    BY <1>2 DEF Terms, Place
  <1>4. \A k \in 1 .. n : f[k] \in Int
    BY <1>3, TermsAreInts
  <1> HIDE DEF term
  <1>5. \A h : \A s \in SUBSET (1 .. n) : s # {} => step(h, s) = f[Picked(s)] + h[Rest(s)]
    <2> TAKE h
    <2> TAKE s \in SUBSET (1 .. n)
    <2> HAVE s # {}
    <2>1. Picked(s) \in 1 .. n
      BY DEF Picked
    <2> QED  BY <1>2, <2>1
  <1> HIDE DEF step
  <1>6. IsSum(g, f, n)
    <2>1. PICK h : IsSum(h, f, n)
      BY SumExists
    <2> DEFINE U == SUBSET (1 .. n)
               after(s) == f[Picked(s)] + h[Rest(s)]
    <2>2. h = [s \in U |-> IF s = {} THEN 0 ELSE after(s)]
      BY ONLY <2>1 DEF IsSum
    <2>3. \A s \in U : s # {} => step(h, s) = after(s)
      BY ONLY <1>5
    <2> HIDE DEF after, U
    <2>4. h = [s \in U |-> IF s = {} THEN 0 ELSE step(h, s)]
      BY ONLY <2>2, <2>3
    <2>5. h = [s \in SUBSET (1 .. n) |-> IF s = {} THEN 0 ELSE step(h, s)]
      BY ONLY <2>4 DEF U
    <2>6. g = [s \in SUBSET (1 .. n) |-> IF s = {} THEN 0 ELSE step(g, s)]
      BY <2>5
    <2> HIDE DEF g
    <2> QED  BY <1>5, <2>6 DEF IsSum
  <1> HIDE DEF g
  <1>7. PICK total : Adds(total, f, n) /\ g[1 .. n] = total[n]
    BY <1>4, <1>6, SumAdds
  <1> QED  BY ONLY <1>1, <1>3, <1>7 DEF SumsTo

(* The place of element j of group i.                                      *)
LEMMA PlaceInGroup ==
    ASSUME NEW little \in BOOLEAN, NEW m \in Nat, NEW r \in Nat \ {0}, NEW w \in Nat,
           NEW i \in 1 .. m, NEW j \in 1 .. r
    PROVE  /\ (i - 1) * r + j \in 1 .. m * r
           /\ Pow2[w * Place(little, m * r, (i - 1) * r + j)]
                = Pow2[(r * w) * Place(little, m, i)] * Pow2[w * Place(little, r, j)]
  <1> PICK big : big = Place(little, m, i)
    OBVIOUS
  <1> PICK small : small = Place(little, r, j)
    OBVIOUS
  <1> PICK k : k = (i - 1) * r + j
    OBVIOUS
  <1> PICK n : n = m * r
    OBVIOUS
  <1>1. big \in Nat /\ small \in Nat
    BY DEF Place
  <1>2. (m - i) * r \in Nat /\ (i - 1) * r \in Nat
    <2>1. m - i \in Nat /\ i - 1 \in Nat
      OBVIOUS
    <2> QED  BY <2>1
  <1>3. n = (i - 1) * r + r + (m - i) * r
    <2>1. \A a, b, c \in Int : c * b = (a - 1) * b + b + (c - a) * b
      OBVIOUS
    <2>2. i \in Int /\ r \in Int /\ m \in Int
      OBVIOUS
    <2> QED  BY ONLY <2>1, <2>2, n = m * r
  <1>4. k \in 1 .. n
    BY ONLY <1>2, <1>3, k = (i - 1) * r + j, j \in 1 .. r, r \in Nat \ {0}
  <1>5. Place(little, n, k) = r * big + small
    <2>1. CASE little = TRUE
      <3>1. big = i - 1 /\ small = j - 1 /\ Place(little, n, k) = k - 1
        BY <2>1 DEF Place
      <3>2. (i - 1) * r = r * (i - 1)
        OBVIOUS
      <3> QED  BY ONLY <1>2, <3>1, <3>2, k = (i - 1) * r + j, j \in 1 .. r, r \in Nat \ {0}
    <2>2. CASE little = FALSE
      <3>1. big = m - i /\ small = r - j /\ Place(little, n, k) = n - k
        BY <2>2 DEF Place
      <3>2. (m - i) * r = r * (m - i)
        OBVIOUS
      <3> QED  BY ONLY <1>2, <1>3, <3>1, <3>2, k = (i - 1) * r + j, j \in 1 .. r, r \in Nat \ {0}
    <2> QED  BY <2>1, <2>2
  <1>6. w * (r * big + small) = (r * w) * big + w * small
    <2>1. \A a, b, c, d \in Int : a * (b * c + d) = (b * a) * c + a * d
      OBVIOUS
    <2>2. w \in Int /\ r \in Int /\ big \in Int /\ small \in Int
      BY <1>1
    <2> QED  BY ONLY <2>1, <2>2
  <1>7. (r * w) * big \in Nat /\ w * small \in Nat
    <2>1. r * w \in Nat
      OBVIOUS
    <2> QED  BY <1>1, <2>1
  <1>8. Pow2[(r * w) * big + w * small] = Pow2[(r * w) * big] * Pow2[w * small]
    BY ONLY <1>7, PowerOfSum
  <1> QED  BY ONLY <1>4, <1>5, <1>6, <1>8, k = (i - 1) * r + j, n = m * r,
                   big = Place(little, m, i), small = Place(little, r, j)

(* The partial sums of narrow elements, inside one group.                  *)
LEMMA OneGroup ==
    ASSUME NEW little \in BOOLEAN, NEW m \in Nat, NEW r \in Nat \ {0}, NEW w \in Nat, NEW a,
           NEW n, n = m * r, NEW f, NEW total, Terms(f, a, 0, little, n, w), Adds(total, f, n),
           NEW i \in 1 .. m, NEW at, at = (i - 1) * r, NEW x, SumsTo(x, a, at, little, r, w)
    PROVE  total[i * r] = total[at] + x * Pow2[(r * w) * Place(little, m, i)]
  <1> PICK p : p = Pow2[(r * w) * Place(little, m, i)]
    OBVIOUS
  <1>1. PICK h, inner : Terms(h, a, at, little, r, w) /\ Adds(inner, h, r) /\ x = inner[r]
    BY DEF SumsTo
  <1>2. /\ inner[0] = 0 /\ \A j \in 0 .. r : inner[j] \in Int
        /\ \A j \in 0 .. r - 1 : inner[j + 1] = inner[j] + h[j + 1]
    BY <1>1 DEF Adds
  <1>3. /\ \A k \in 0 .. n : total[k] \in Int
        /\ \A k \in 0 .. n - 1 : total[k + 1] = total[k] + f[k + 1]
    BY DEF Adds
  <1>4. p \in Int /\ r * w \in Nat
    <2>1. r * w \in Nat
      OBVIOUS
    <2>2. Pow2[(r * w) * Place(little, m, i)] \in Nat \ {0}
      BY ONLY <2>1, PlacesAreNumbers, little \in BOOLEAN, m \in Nat, i \in 1 .. m
    <2> QED  BY <2>1, <2>2
  <1>5. at \in Nat /\ n \in Nat /\ \A j \in 1 .. r : at + j \in 1 .. n
    <2>1. i - 1 \in Nat
      OBVIOUS
    <2>2. at \in Nat /\ n \in Nat
      BY <2>1
    <2> QED  BY <2>2, PlaceInGroup
  <1>6. \A j \in 1 .. r : f[at + j] = h[j] * p /\ h[j] \in Int
    <2> TAKE j \in 1 .. r
    <2> PICK q : q = Pow2[w * Place(little, r, j)]
      OBVIOUS
    <2> PICK y : y = a[at + j]
      OBVIOUS
    <2>1. q \in Int
      <3>1. r \in Nat
        OBVIOUS
      <3>2. q \in Nat \ {0}
        BY ONLY <3>1, PlacesAreNumbers, little \in BOOLEAN, w \in Nat, j \in 1 .. r,
                q = Pow2[w * Place(little, r, j)]
      <3> QED  BY <3>2
    <2>2. y \in Int /\ h[j] = y * q
      BY <1>1 DEF Terms
    <2>3. f[0 + (at + j)] = a[0 + (at + j)] * Pow2[w * Place(little, n, at + j)] \/ 0 + (at + j) # at + j
      BY <1>5 DEF Terms
    <2>4. 0 + (at + j) = at + j
      BY <1>5
    <2>5. f[at + j] = y * Pow2[w * Place(little, n, at + j)]
      BY ONLY <2>3, <2>4, y = a[at + j]
    <2>6. Pow2[w * Place(little, n, at + j)] = p * q
      BY PlaceInGroup
    <2>7. y * (p * q) = (y * q) * p
      BY ONLY <1>4, <2>1, <2>2
    <2>8. h[j] \in Int
      BY ONLY <2>1, <2>2
    <2> QED  BY ONLY <2>2, <2>5, <2>6, <2>7, <2>8
  <1> DEFINE T == {j \in 0 .. r : total[at + j] # total[at] + inner[j] * p}
  <1>7. T = {}
    <2> SUFFICES ASSUME T # {}  PROVE FALSE
      OBVIOUS
    <2>1. PICK j \in T : \A k \in T : j <= k
      <3>1. T \in SUBSET Nat
        OBVIOUS
      <3> HIDE DEF T
      <3> QED  BY <3>1, LeastNumber
    <2>2. j # 0
      <3>1. at + 0 = at /\ 0 * p = 0 /\ at \in 0 .. n
        <4>1. at + 1 \in 1 .. n
          BY <1>5
        <4> QED  BY ONLY <1>4, <1>5, <4>1
      <3>2. total[at] \in Int
        BY ONLY <1>3, <3>1
      <3>3. total[at + 0] = total[at] + inner[0] * p
        BY ONLY <1>2, <3>1, <3>2
      <3> QED  BY <2>1, <3>3
    <2> PICK k : k = j - 1
      OBVIOUS
    <2>3. k \in 0 .. r - 1 /\ k \in 0 .. r /\ k + 1 = j /\ j \in 1 .. r /\ ~ j <= k /\ j \in 0 .. r
      BY <2>1, <2>2
    <2>4. total[at + k] = total[at] + inner[k] * p
      BY <2>1, <2>3
    <2>5. at + k \in 0 .. n - 1 /\ (at + k) + 1 = at + j /\ at \in 0 .. n
      <3>1. at + j \in 1 .. n
        BY <1>5, <2>3
      <3> QED  BY ONLY <1>5, <2>3, <3>1
    <2>6. total[at + j] = total[at + k] + f[at + j]
      BY ONLY <1>3, <2>5
    <2>7. inner[j] = inner[k] + h[j] /\ inner[k] \in Int /\ h[j] \in Int /\ f[at + j] = h[j] * p
      BY ONLY <1>2, <1>6, <2>3
    <2>8. total[at] \in Int
      BY ONLY <1>3, <2>5
    <2>9. (inner[k] + h[j]) * p = inner[k] * p + h[j] * p
      BY ONLY <1>4, <2>7
    <2>10. inner[k] * p \in Int /\ h[j] * p \in Int
      BY ONLY <1>4, <2>7
    <2>11. total[at + j] = total[at] + inner[j] * p
      BY ONLY <2>4, <2>6, <2>7, <2>8, <2>9, <2>10
    <2> QED  BY <2>1, <2>11
  <1>8. r \in 0 .. r
    OBVIOUS
  <1>9. total[at + r] = total[at] + inner[r] * p
    BY <1>7, <1>8
  <1>10. at + r = i * r
    <2>1. \A b, c \in Int : (b - 1) * c + c = b * c
      OBVIOUS
    <2>2. i \in Int /\ r \in Int
      OBVIOUS
    <2> QED  BY ONLY <2>1, <2>2, at = (i - 1) * r
  <1> QED  BY ONLY <1>1, <1>9, <1>10, p = Pow2[(r * w) * Place(little, m, i)]

(* If each wide element is the sum of its group of narrow ones, both       *)
(* vectors are the same number in memory.                                  *)
LEMMA GroupsKeepSums ==
    ASSUME NEW little \in BOOLEAN, NEW m \in Nat, NEW r \in Nat \ {0}, NEW w \in Nat,
           NEW narrow, NEW wide, NEW x, NEW y,
           SumsTo(x, narrow, 0, little, m * r, w), SumsTo(y, wide, 0, little, m, r * w),
           \A i \in 1 .. m : SumsTo(wide[i], narrow, (i - 1) * r, little, r, w)
    PROVE  x = y
  <1>1. PICK f, total : Terms(f, narrow, 0, little, m * r, w) /\ Adds(total, f, m * r) /\ x = total[m * r]
    BY DEF SumsTo
  <1>2. PICK g, sum : Terms(g, wide, 0, little, m, r * w) /\ Adds(sum, g, m) /\ y = sum[m]
    BY DEF SumsTo
  <1>3. total[0] = 0 /\ sum[0] = 0 /\ \A i \in 0 .. m - 1 : sum[i + 1] = sum[i] + g[i + 1]
    BY <1>1, <1>2 DEF Adds
  <1>4. \A i \in 1 .. m : g[i] = wide[i] * Pow2[(r * w) * Place(little, m, i)]
    <2>1. \A i \in 1 .. m : 0 + i = i
      OBVIOUS
    <2> QED  BY <1>2, <2>1 DEF Terms
  <1>5. \A i \in 1 .. m : total[i * r] = total[(i - 1) * r] + wide[i] * Pow2[(r * w) * Place(little, m, i)]
    <2> TAKE i \in 1 .. m
    <2> PICK z : z = wide[i]
      OBVIOUS
    <2> PICK at : at = (i - 1) * r
      OBVIOUS
    <2> PICK n : n = m * r
      OBVIOUS
    <2>1. SumsTo(z, narrow, at, little, r, w) /\ Terms(f, narrow, 0, little, n, w) /\ Adds(total, f, n)
      BY <1>1
    <2>2. total[i * r] = total[at] + z * Pow2[(r * w) * Place(little, m, i)]
      BY ONLY <2>1, OneGroup, little \in BOOLEAN, m \in Nat, r \in Nat \ {0}, w \in Nat,
              i \in 1 .. m, n = m * r, at = (i - 1) * r
    <2> QED  BY ONLY <2>2, z = wide[i], at = (i - 1) * r
  <1>6. \A i \in 1 .. m : total[i * r] = total[(i - 1) * r] + g[i]
    BY ONLY <1>4, <1>5
  <1> DEFINE T == {i \in 0 .. m : total[i * r] # sum[i]}
  <1>7. T = {}
    <2> SUFFICES ASSUME T # {}  PROVE FALSE
      OBVIOUS
    <2>1. PICK i \in T : \A k \in T : i <= k
      <3>1. T \in SUBSET Nat
        OBVIOUS
      <3> HIDE DEF T
      <3> QED  BY <3>1, LeastNumber
    <2>2. i # 0
      <3>1. 0 * r = 0
        OBVIOUS
      <3> QED  BY <1>3, <2>1, <3>1
    <2> PICK k : k = i - 1
      OBVIOUS
    <2>3. k \in 0 .. m - 1 /\ k \in 0 .. m /\ k + 1 = i /\ i \in 1 .. m /\ ~ i <= k /\ i \in 0 .. m
      BY <2>1, <2>2
    <2>4. total[k * r] = sum[k]
      BY <2>1, <2>3
    <2>5. total[i * r] = total[k * r] + g[i]
      BY ONLY <1>6, <2>3, k = i - 1
    <2>6. sum[i] = sum[k] + g[i]
      BY ONLY <1>3, <2>3
    <2> QED  BY <2>1, <2>4, <2>5, <2>6
  <1>8. m \in 0 .. m
    OBVIOUS
  <1> QED  BY <1>1, <1>2, <1>7, <1>8

(* Digits of x in the base 2^w.                                            *)
Digit(x, w, k) == (x \div Pow2[w * k]) % Pow2[w]

LEMMA PowersOfPlaces ==
    ASSUME NEW w \in Nat, NEW k \in Nat
    PROVE  /\ Pow2[w] \in Nat \ {0} /\ Pow2[w * k] \in Nat \ {0} /\ Pow2[w * (k + 1)] \in Nat \ {0}
           /\ Pow2[w * (k + 1)] = Pow2[w] * Pow2[w * k]
  <1>1. w * k \in Nat
    OBVIOUS
  <1>2. w * (k + 1) = w + w * k
    OBVIOUS
  <1>3. Pow2[w + w * k] = Pow2[w] * Pow2[w * k]
    BY ONLY <1>1, PowerOfSum, w \in Nat
  <1>4. w * (k + 1) \in Nat
    BY <1>1, <1>2
  <1>5. \A n \in Nat : Pow2[n] \in Nat \ {0}
    BY PowersArePositive
  <1> QED  BY ONLY <1>1, <1>2, <1>3, <1>4, <1>5, w \in Nat

LEMMA DigitFits ==
    ASSUME NEW b \in Nat \ {0}, NEW c \in Nat \ {0}, NEW d \in 0 .. c - 1, NEW s \in 0 .. b - 1
    PROVE  d * b \in Nat /\ d * b <= (c - 1) * b /\ (c - 1) * b \in Nat /\ d * b + s \in 0 .. c * b - 1
  <1>1. (c - 1 - d) * b \in Nat /\ d * b \in Nat /\ (c - 1) * b \in Nat
    <2>1. c - 1 - d \in Nat /\ d \in Nat /\ c - 1 \in Nat
      OBVIOUS
    <2> QED  BY <2>1
  <1>2. (c - 1) * b = d * b + (c - 1 - d) * b
    <2>1. \A i, j, k \in Int : (i - 1) * k = j * k + (i - 1 - j) * k
      OBVIOUS
    <2> QED  BY <2>1
  <1>3. c * b = (c - 1) * b + b
    OBVIOUS
  <1> QED  BY ONLY <1>1, <1>2, <1>3, s \in 0 .. b - 1, b \in Nat \ {0}

LEMMA OneMoreDigit ==
    ASSUME NEW x \in Nat, NEW w \in Nat, NEW k \in Nat
    PROVE  x % Pow2[w * (k + 1)] = (x % Pow2[w * k]) + Digit(x, w, k) * Pow2[w * k]
  <1> PICK b : b = Pow2[w * k]
    OBVIOUS
  <1> PICK c : c = Pow2[w]
    OBVIOUS
  <1> PICK m : m = Pow2[w * (k + 1)]
    OBVIOUS
  <1>1. b \in Nat \ {0} /\ c \in Nat \ {0} /\ m \in Nat \ {0} /\ m = c * b
    BY PowersOfPlaces
  <1> PICK q : q = x \div b
    OBVIOUS
  <1> PICK s : s = x % b
    OBVIOUS
  <1>2. q \in Int /\ s \in 0 .. b - 1 /\ x = q * b + s
    <2>1. x \in Int
      OBVIOUS
    <2> QED  BY ONLY <1>1, <2>1, RemainderFacts, q = x \div b, s = x % b
  <1> PICK h : h = q \div c
    OBVIOUS
  <1> PICK d : d = q % c
    OBVIOUS
  <1>3. h \in Int /\ d \in 0 .. c - 1 /\ q = h * c + d
    BY ONLY <1>1, <1>2, RemainderFacts, h = q \div c, d = q % c
  <1> PICK rest : rest = d * b + s
    OBVIOUS
  <1>4. rest \in 0 .. m - 1 /\ d * b \in Nat
    BY ONLY <1>1, <1>2, <1>3, DigitFits, rest = d * b + s
  <1>5. x = h * m + rest
    <2>1. \A i, j, k1, l \in Int : (i * j + l) * k1 = i * (j * k1) + l * k1
      OBVIOUS
    <2>2. h \in Int /\ c \in Int /\ b \in Int /\ d \in Int
      BY ONLY <1>1, <1>3
    <2>3. (h * c + d) * b = h * (c * b) + d * b
      BY ONLY <2>1, <2>2
    <2>4. h * m \in Int
      BY <1>1, <1>3
    <2> QED  BY ONLY <1>1, <1>2, <1>3, <1>4, <2>3, <2>4, rest = d * b + s
  <1>6. (h * m + rest) % m = rest
    BY ONLY <1>1, <1>3, <1>4, RemainderIs
  <1>7. Digit(x, w, k) = d
    BY DEF Digit
  <1>8. d * b + s = s + d * b
    BY <1>2, <1>4
  <1> QED  BY ONLY <1>5, <1>6, <1>7, <1>8, m = Pow2[w * (k + 1)], b = Pow2[w * k], s = x % b,
                   rest = d * b + s

(* A number is the sum of its digits.                                      *)
LEMMA DigitsMakeNumber ==
    ASSUME NEW little \in BOOLEAN, NEW r \in Nat, NEW w \in Nat, NEW x \in Nat, x < Pow2[w * r],
           NEW a, NEW at, \A j \in 1 .. r : a[at + j] = Digit(x, w, Place(little, r, j))
    PROVE  SumsTo(x, a, at, little, r, w)
  <1> PICK f : f = [j \in 1 .. r |-> a[at + j] * Pow2[w * Place(little, r, j)]]
    OBVIOUS
  <1> PICK low : low = [k \in 0 .. r |-> x % Pow2[w * k]]
    OBVIOUS
  <1> PICK total : total = [k \in 0 .. r |-> IF little THEN low[k] ELSE x - low[r - k]]
    OBVIOUS
  <1>1. \A k \in 0 .. r : Pow2[w * k] \in Nat \ {0} /\ low[k] = x % Pow2[w * k] /\ low[k] \in Int
    <2> TAKE k \in 0 .. r
    <2>1. Pow2[w * k] \in Nat \ {0}
      <3>1. k \in Nat
        OBVIOUS
      <3> QED  BY ONLY <3>1, PowersOfPlaces, w \in Nat
    <2>2. x \in Int /\ low[k] = x % Pow2[w * k]
      OBVIOUS
    <2> QED  BY ONLY <2>1, <2>2, RemaindersAreInts
  <1>2. low[0] = 0 /\ low[r] = x
    <2>1. w * 0 = 0 /\ Pow2[0] = 1 /\ x % 1 = 0 /\ 0 \in 0 .. r /\ r \in 0 .. r
      BY PowersAre
    <2>2. x % Pow2[w * r] = x
      <3> PICK m : m = Pow2[w * r]
        OBVIOUS
      <3>1. m \in Nat \ {0} /\ x \in 0 .. m - 1
        BY <1>1, <2>1
      <3> QED  BY <3>1, SmallRemainders
    <2> QED  BY ONLY <1>1, <2>1, <2>2
  <1>3. \A k \in 0 .. r - 1 : /\ k \in 0 .. r /\ k + 1 \in 0 .. r
                             /\ low[k + 1] = low[k] + Digit(x, w, k) * Pow2[w * k]
                             /\ Digit(x, w, k) \in Int
    <2> TAKE k \in 0 .. r - 1
    <2>1. k \in 0 .. r /\ k + 1 \in 0 .. r /\ k \in Nat
      OBVIOUS
    <2>2. x % Pow2[w * (k + 1)] = (x % Pow2[w * k]) + Digit(x, w, k) * Pow2[w * k]
      BY ONLY <2>1, OneMoreDigit, x \in Nat, w \in Nat
    <2>3. Digit(x, w, k) \in Int
      <3>1. Pow2[w] \in Nat \ {0} /\ Pow2[w * k] \in Nat \ {0}
        BY ONLY <2>1, PowersOfPlaces, w \in Nat
      <3> PICK y : y = x \div Pow2[w * k]
        OBVIOUS
      <3>2. y \in Int
        BY <3>1
      <3>3. y % Pow2[w] \in Int
        BY ONLY <3>1, <3>2, RemaindersAreInts
      <3> QED  BY <3>3 DEF Digit
    <2> QED  BY ONLY <1>1, <2>1, <2>2, <2>3
  <1>4. \A j \in 1 .. r : /\ Place(little, r, j) \in 0 .. r - 1
                         /\ f[j] = a[at + j] * Pow2[w * Place(little, r, j)]
                         /\ a[at + j] = Digit(x, w, Place(little, r, j))
    BY DEF Place
  <1>5. Terms(f, a, at, little, r, w)
    BY ONLY <1>3, <1>4 DEF Terms
  <1>6. \A k \in 0 .. r : total[k] = IF little THEN low[k] ELSE x - low[r - k]
    OBVIOUS
  <1>7. \A j \in 1 .. r : f[j] \in Int
    BY <1>5, TermsAreInts
  <1>8. \A k \in 0 .. r - 1 : total[k + 1] = total[k] + f[k + 1]
    <2> TAKE k \in 0 .. r - 1
    <2> PICK p : p = Place(little, r, k + 1)
      OBVIOUS
    <2>1. k \in 0 .. r /\ k + 1 \in 0 .. r /\ k + 1 \in 1 .. r
      OBVIOUS
    <2>2. p \in 0 .. r - 1 /\ f[k + 1] = Digit(x, w, p) * Pow2[w * p] /\ f[k + 1] \in Int
      BY ONLY <1>4, <1>7, <2>1, p = Place(little, r, k + 1)
    <2>3. p \in 0 .. r /\ p + 1 \in 0 .. r /\ low[p + 1] = low[p] + f[k + 1]
      BY ONLY <1>3, <2>2
    <2>4. low[p] \in Int /\ low[p + 1] \in Int
      BY ONLY <1>1, <2>3
    <2>5. CASE little = TRUE
      <3>1. p = k
        BY <2>5 DEF Place
      <3> QED  BY ONLY <1>6, <2>1, <2>3, <2>5, <3>1
    <2>6. CASE little = FALSE
      <3>1. p = r - (k + 1) /\ p + 1 = r - k
        BY <2>6 DEF Place
      <3>2. total[k + 1] = x - low[p] /\ total[k] = x - low[p + 1]
        BY ONLY <1>6, <2>1, <2>6, <3>1
      <3> QED  BY ONLY <2>2, <2>3, <2>4, <3>2, x \in Nat
    <2> QED  BY <2>5, <2>6
  <1>9. \A k \in 0 .. r : total[k] \in Int
    <2> TAKE k \in 0 .. r
    <2>1. r - k \in 0 .. r
      OBVIOUS
    <2>2. low[k] \in Int /\ low[r - k] \in Int
      BY ONLY <1>1, <2>1, k \in 0 .. r
    <2> QED  BY ONLY <1>6, <2>2, k \in 0 .. r, x \in Nat
  <1>10. total[0] = 0 /\ total[r] = x
    <2>1. 0 \in 0 .. r /\ r \in 0 .. r /\ r - 0 = r /\ r - r = 0
      OBVIOUS
    <2>2. total[0] = (IF little THEN low[0] ELSE x - low[r]) /\ total[r] = (IF little THEN low[r] ELSE x - low[0])
      BY ONLY <1>6, <2>1
    <2> QED  BY ONLY <1>2, <2>2, x \in Nat, little \in BOOLEAN
  <1>11. Adds(total, f, r)
    BY ONLY <1>8, <1>9, <1>10 DEF Adds
  <1> QED  BY ONLY <1>5, <1>10, <1>11 DEF SumsTo

(* Elements that fit their width fill no more than the wide element.       *)
LEMMA SumFits ==
    ASSUME NEW little \in BOOLEAN, NEW r \in Nat, NEW w \in Nat, NEW x, NEW a, NEW at,
           SumsTo(x, a, at, little, r, w), \A j \in 1 .. r : a[at + j] \in 0 .. Pow2[w] - 1
    PROVE  x \in 0 .. Pow2[w * r] - 1
  <1>1. PICK f, total : Terms(f, a, at, little, r, w) /\ Adds(total, f, r) /\ x = total[r]
    BY DEF SumsTo
  <1>2. /\ total[0] = 0 /\ \A k \in 0 .. r : total[k] \in Int
        /\ \A k \in 0 .. r - 1 : total[k + 1] = total[k] + f[k + 1]
    BY <1>1 DEF Adds
  <1>3. \A j \in 1 .. r : f[j] = a[at + j] * Pow2[w * Place(little, r, j)]
    BY <1>1 DEF Terms
  <1> PICK power : power = [k \in 0 .. r |-> Pow2[w * k]]
    OBVIOUS
  <1> PICK c : c = Pow2[w]
    OBVIOUS
  <1>4. c \in Nat \ {0}
    BY PowersArePositive
  <1>5. \A k \in 0 .. r : power[k] \in Nat \ {0} /\ power[k] = Pow2[w * k]
    <2> TAKE k \in 0 .. r
    <2>1. k \in Nat
      OBVIOUS
    <2>2. Pow2[w * k] \in Nat \ {0}
      BY ONLY <2>1, PowersOfPlaces, w \in Nat
    <2> QED  BY <2>2
  <1>6. \A k \in 0 .. r - 1 : power[k + 1] = c * power[k]
    <2> TAKE k \in 0 .. r - 1
    <2>1. k \in Nat /\ k + 1 \in 0 .. r /\ k \in 0 .. r
      OBVIOUS
    <2>2. Pow2[w * (k + 1)] = Pow2[w] * Pow2[w * k]
      BY ONLY <2>1, PowersOfPlaces, w \in Nat
    <2> QED  BY <2>1, <2>2
  <1>7. power[0] = 1
    <2>1. w * 0 = 0 /\ Pow2[0] = 1 /\ 0 \in 0 .. r
      BY PowersAre
    <2> QED  BY <2>1
  <1> PICK bound : bound = [k \in 0 .. r |-> IF little THEN power[k] - 1 ELSE power[r] - power[r - k]]
    OBVIOUS
  <1>8. \A k \in 0 .. r : bound[k] = IF little THEN power[k] - 1 ELSE power[r] - power[r - k]
    OBVIOUS
  <1>9. bound[0] = 0 /\ bound[r] = power[r] - 1
    <2>1. 0 \in 0 .. r /\ r \in 0 .. r /\ r - 0 = r /\ r - r = 0
      OBVIOUS
    <2>2. power[r] \in Int
      BY <1>5, <2>1
    <2>3. bound[0] = (IF little THEN power[0] - 1 ELSE power[r] - power[r])
      BY ONLY <1>8, <2>1
    <2>4. bound[r] = (IF little THEN power[r] - 1 ELSE power[r] - power[0])
      BY ONLY <1>8, <2>1
    <2> QED  BY ONLY <1>7, <2>2, <2>3, <2>4, little \in BOOLEAN
  <1>10. \A k \in 0 .. r - 1 : /\ bound[k] \in Int /\ bound[k + 1] \in Int
                              /\ bound[k + 1] = bound[k] + (c - 1) * power[Place(little, r, k + 1)]
                              /\ Place(little, r, k + 1) \in 0 .. r
    <2> TAKE k \in 0 .. r - 1
    <2> PICK p : p = Place(little, r, k + 1)
      OBVIOUS
    <2>1. k \in 0 .. r /\ k + 1 \in 0 .. r /\ r - k \in 0 .. r /\ r - (k + 1) \in 0 .. r /\ r \in 0 .. r
      OBVIOUS
    <2>2. p \in 0 .. r - 1 /\ p \in 0 .. r /\ p + 1 \in 0 .. r
      BY <2>1 DEF Place
    <2>3. power[p] \in Int /\ power[p + 1] \in Int /\ power[r] \in Int /\ c \in Int
      BY ONLY <1>4, <1>5, <2>1, <2>2
    <2>4. power[p + 1] = power[p] + (c - 1) * power[p]
      <3>1. \A i, j \in Int : i * j = j + (i - 1) * j
        OBVIOUS
      <3> QED  BY ONLY <1>6, <2>2, <2>3, <3>1
    <2> PICK d : d = (c - 1) * power[p]
      OBVIOUS
    <2>5. d \in Int
      BY ONLY <2>3, d = (c - 1) * power[p]
    <2>6. CASE little = TRUE
      <3>1. p = k
        BY <2>6 DEF Place
      <3>2. bound[k] = power[p] - 1 /\ bound[k + 1] = power[p + 1] - 1
        BY ONLY <1>8, <2>1, <2>6, <3>1
      <3> QED  BY ONLY <2>2, <2>3, <2>4, <2>5, <3>2, d = (c - 1) * power[p], p = Place(little, r, k + 1)
    <2>7. CASE little = FALSE
      <3>1. p = r - (k + 1) /\ p + 1 = r - k
        BY <2>7 DEF Place
      <3>2. bound[k] = power[r] - power[p + 1] /\ bound[k + 1] = power[r] - power[p]
        BY ONLY <1>8, <2>1, <2>7, <3>1
      <3> QED  BY ONLY <2>2, <2>3, <2>4, <2>5, <3>2, d = (c - 1) * power[p], p = Place(little, r, k + 1)
    <2> QED  BY <2>6, <2>7
  <1> DEFINE T == {k \in 0 .. r : ~ (0 <= total[k] /\ total[k] <= bound[k])}
  <1>11. T = {}
    <2> SUFFICES ASSUME T # {}  PROVE FALSE
      OBVIOUS
    <2>1. PICK m \in T : \A k \in T : m <= k
      <3>1. T \in SUBSET Nat
        OBVIOUS
      <3> HIDE DEF T
      <3> QED  BY <3>1, LeastNumber
    <2>2. m # 0
      BY <1>2, <1>9, <2>1
    <2> PICK k : k = m - 1
      OBVIOUS
    <2>3. m = k + 1 /\ k \in 0 .. r - 1 /\ k \in 0 .. r /\ k \notin T /\ m \in 0 .. r
      <3>1. m \in 0 .. r
        BY <2>1
      <3>2. k \in 0 .. r /\ m = k + 1 /\ k \in 0 .. r - 1 /\ ~ (m <= k)
        BY ONLY <3>1, <2>2, k = m - 1, r \in Nat
      <3> HIDE DEF T
      <3> QED  BY <2>1, <3>1, <3>2
    <2>4. 0 <= total[k] /\ total[k] <= bound[k]
      BY ONLY <2>3
    <2> PICK p : p = Place(little, r, k + 1)
      OBVIOUS
    <2> PICK y : y = a[at + (k + 1)]
      OBVIOUS
    <2> PICK b : b = power[p]
      OBVIOUS
    <2>5. k + 1 \in 1 .. r
      BY ONLY <2>3, r \in Nat
    <2>6. p \in 0 .. r /\ bound[k + 1] = bound[k] + (c - 1) * b /\ bound[k] \in Int
      BY ONLY <1>10, <2>3, p = Place(little, r, k + 1), b = power[p]
    <2>7. b \in Nat \ {0} /\ f[k + 1] = y * b /\ y \in 0 .. c - 1
      BY ONLY <1>3, <1>5, <2>5, <2>6, p = Place(little, r, k + 1), y = a[at + (k + 1)], b = power[p],
              c = Pow2[w], \A j \in 1 .. r : a[at + j] \in 0 .. Pow2[w] - 1
    <2>8. y * b \in Nat /\ y * b <= (c - 1) * b /\ (c - 1) * b \in Nat
      <3>1. 0 \in 0 .. b - 1
        BY <2>7
      <3> QED  BY ONLY <1>4, <2>7, <3>1, DigitFits
    <2>9. total[k + 1] = total[k] + y * b /\ total[k] \in Int
      BY ONLY <1>2, <2>3, <2>7
    <2>10. 0 <= total[k + 1] /\ total[k + 1] <= bound[k + 1]
      BY ONLY <2>4, <2>6, <2>8, <2>9
    <2>11. m \notin T
      BY ONLY <2>3, <2>10
    <2> QED  BY ONLY <2>1, <2>11
  <1>12. r \in 0 .. r
    OBVIOUS
  <1>13. 0 <= x /\ x <= power[r] - 1 /\ x \in Int
    BY <1>1, <1>2, <1>9, <1>11, <1>12
  <1> QED  BY <1>5, <1>12, <1>13

LEMMA ProductsCancel ==
    ASSUME NEW a \in Nat, NEW b \in Nat, NEW c \in Nat \ {0}, a * c = b * c
    PROVE  a = b
  <1>1. (a * c + 0) \div c = a
    <2>1. 0 \in 0 .. c - 1
      OBVIOUS
    <2> QED  BY ONLY <2>1, RemainderIs, a \in Nat, c \in Nat \ {0}
  <1>2. (b * c + 0) \div c = b
    <2>1. 0 \in 0 .. c - 1
      OBVIOUS
    <2> QED  BY ONLY <2>1, RemainderIs, b \in Nat, c \in Nat \ {0}
  <1> QED  BY ONLY <1>1, <1>2, a * c = b * c

LEMMA ProductDivides ==
    ASSUME NEW a \in Nat, NEW c \in Nat \ {0}, NEW x, x = a * c
    PROVE  x \div c = a
  <1>1. 0 \in 0 .. c - 1
    OBVIOUS
  <1>2. (a * c + 0) \div c = a
    BY ONLY <1>1, RemainderIs, a \in Nat, c \in Nat \ {0}
  <1>3. a * c + 0 = x
    OBVIOUS
  <1> QED  BY ONLY <1>2, <1>3

(* Fewer, wider elements.                                                  *)
Joins(n, from, to, number, r) ==
    number \in Nat \ {0} /\ to = r * from /\ n = number * r /\ n \div number = r /\ number < n

(* More, narrower ones.                                                    *)
Splits(n, from, to, number, r) ==
    number \in Nat \ {0} /\ from = r * to /\ number = n * r /\ number \div n = r /\ ~ (number < n)

LEMMA Divided ==
    ASSUME NEW a \in Nat \ {0}, NEW b \in Nat \ {0}, a % b = 0
    PROVE  \E r \in Nat \ {0} : a = r * b
  <1> PICK r : r = a \div b
    OBVIOUS
  <1>1. r \in Int /\ a = r * b + 0
    <2>1. a \in Int
      OBVIOUS
    <2> QED  BY ONLY <2>1, RemainderFacts, a % b = 0, b \in Nat \ {0}, r = a \div b
  <1>2. a = r * b
    BY <1>1
  <1>3. r > 0
    <2>1. CASE r = 0
      BY <1>2, <2>1
    <2>2. CASE r < 0
      <3>1. - r \in Nat \ {0}
        BY <1>1, <2>2
      <3>2. (- r) * b >= b
        BY ONLY <3>1, ProductGrows, b \in Nat \ {0}
      <3>3. (- r) * b = - (r * b)
        BY <1>1
      <3> QED  BY <1>2, <3>2, <3>3
    <2> QED  BY <1>1, <2>1, <2>2
  <1>4. r \in Nat \ {0}
    BY ONLY <1>1, <1>3
  <1> QED  BY ONLY <1>2, <1>4

LEMMA Shapes ==
    ASSUME NEW n \in Nat \ {0}, NEW from \in Nat \ {0}, NEW to \in Nat \ {0},
           NEW number, number = (n * from) \div to,
           (n * from) % to = 0, from % to = 0 \/ to % from = 0
    PROVE  \E r \in Nat \ {0} : Joins(n, from, to, number, r) \/ Splits(n, from, to, number, r)
  <1>1. ASSUME NEW r \in Nat \ {0}, from = r * to  PROVE Splits(n, from, to, number, r)
    <2> PICK product : product = n * r
      OBVIOUS
    <2>1. product \in Nat
      OBVIOUS
    <2>2. n * from = product * to
      <3>1. \A i, j, k \in Int : i * (j * k) = (i * j) * k
        OBVIOUS
      <3>2. n \in Int /\ r \in Int /\ to \in Int
        OBVIOUS
      <3> QED  BY ONLY <1>1, <3>1, <3>2, product = n * r
    <2>3. number = product
      <3>1. \A x : x = product * to => x \div to = product
        BY ONLY <2>1, ProductDivides, to \in Nat \ {0}
      <3> QED  BY ONLY <2>2, <3>1, number = (n * from) \div to
    <2>4. product \div n = r /\ product >= n
      <3>1. product = r * n /\ r \in Nat
        OBVIOUS
      <3>2. product \div n = r
        BY ONLY <3>1, ProductDivides, n \in Nat \ {0}
      <3>3. r * n >= n
        BY ONLY ProductGrows, n \in Nat \ {0}, r \in Nat \ {0}
      <3> QED  BY ONLY <3>1, <3>2, <3>3
    <2>5. product \in Nat \ {0} /\ ~ (product < n)
      BY <2>1, <2>4
    <2> QED  BY <1>1, <2>3, <2>4, <2>5 DEF Splits
  <1>2. CASE from % to = 0
    <2>1. PICK r \in Nat \ {0} : from = r * to
      BY <1>2, Divided
    <2> QED  BY <1>1, <2>1
  <1>3. CASE to % from = 0
    <2>1. PICK r \in Nat \ {0} : to = r * from
      BY <1>3, Divided
    <2>2. n * from = number * to /\ number \in Nat
      <3> PICK bits : bits = n * from
        OBVIOUS
      <3>1. bits \in Nat
        OBVIOUS
      <3>2. bits = number * to + 0 /\ number \in Int
        <4>1. bits \in Int
          BY <3>1
        <4> QED  BY ONLY <4>1, RemainderFacts, bits % to = 0, to \in Nat \ {0}, number = bits \div to
      <3>3. bits = number * to /\ bits # 0
        <4>1. n * from >= from
          BY ProductGrows
        <4>2. number * to \in Int
          BY <3>2
        <4> QED  BY ONLY <3>1, <3>2, <4>1, <4>2, bits = n * from, from \in Nat \ {0}
      <3>4. ~ (number < 0)
        <4> SUFFICES ASSUME number < 0  PROVE FALSE
          OBVIOUS
        <4>1. - number \in Nat \ {0}
          BY <3>2
        <4>2. (- number) * to >= to /\ (- number) * to = - (number * to)
          BY <3>2, <4>1, ProductGrows
        <4> QED  BY <3>1, <3>3, <4>2
      <3> QED  BY <3>2, <3>3, <3>4
    <2> PICK product : product = number * r
      OBVIOUS
    <2>3. product \in Nat
      BY ONLY <2>2, product = number * r, r \in Nat \ {0}
    <2>4. n = product
      <3>1. \A i, j, k \in Int : i * (j * k) = (i * j) * k
        OBVIOUS
      <3>2. number \in Int /\ r \in Int /\ from \in Int
        BY <2>2
      <3>3. n * from = product * from
        BY ONLY <2>1, <2>2, <3>1, <3>2, product = number * r
      <3>4. n \in Nat
        OBVIOUS
      <3> QED  BY ONLY <2>3, <3>3, <3>4, ProductsCancel, from \in Nat \ {0}
    <2>5. number # 0
      BY <2>4
    <2>6. CASE r = 1
      <3>1. from = 1 * to
        BY <2>1, <2>6
      <3> QED  BY <1>1, <3>1
    <2>7. CASE r # 1
      <3>1. n \div number = r
        <4>1. n = r * number /\ r \in Nat /\ number \in Nat \ {0}
          BY <2>2, <2>4, <2>5
        <4> QED  BY ONLY <4>1, ProductDivides
      <3>2. number < n
        <4>1. number * r = number + (r - 1) * number
          BY <2>2
        <4>2. r - 1 \in Nat \ {0} /\ number \in Nat \ {0}
          BY <2>2, <2>5, <2>7
        <4>3. (r - 1) * number >= number
          BY ONLY <4>2, ProductGrows
        <4>4. (r - 1) * number \in Int
          BY <2>2
        <4> QED  BY ONLY <2>4, <4>1, <4>2, <4>3, <4>4, product = number * r
      <3> QED  BY <2>1, <2>2, <2>4, <2>5, <3>1, <3>2 DEF Joins
    <2> QED  BY <2>6, <2>7
  <1> QED  BY <1>2, <1>3

(* A join, element by element.                                             *)
JoinedAll(little, src, from, to, number, ratio) ==
    [i \in 1 .. number |-> Joined(little, src, (i - 1) * ratio, ratio, from) % Pow2[to]]

LEMMA JoinKeeps ==
    ASSUME NEW little \in BOOLEAN, NEW n \in Nat \ {0}, NEW from \in Nat \ {0},
           NEW to \in Nat \ {0}, NEW src \in Vectors(Ints(from), n),
           NEW number, number = (n * from) \div to, NEW r \in Nat \ {0},
           Joins(n, from, to, number, r)
    PROVE  Image(little, Join(little, src, from, to), to) = Image(little, src, from)
  <1> PICK cast : cast = Join(little, src, from, to)
    OBVIOUS
  <1>1. number \in Nat \ {0} /\ to = r * from /\ n = number * r /\ n \div number = r
    BY DEF Joins
  <1>2. Len(src) = n /\ DOMAIN src = 1 .. n
    <2>1. src \in [1 .. n -> Ints(from)] /\ n \in Nat
      BY DEF Vectors
    <2> QED  BY ONLY <2>1, VectorIsSequence
  <1>3. \A k \in 1 .. n : src[k] \in 0 .. Pow2[from] - 1
    BY DEF Vectors, Ints
  <1>4. Pow2[from] \in Nat \ {0} /\ Pow2[to] \in Nat \ {0}
    BY PowersArePositive
  <1>5. \A k \in 1 .. n : src[k] \in Int
    BY <1>3, <1>4
  <1>6. cast = [i \in 1 .. number |-> Joined(little, src, (i - 1) * r, r, from) % Pow2[to]]
    <2>1. Join(little, src, from, to)
            = JoinedAll(little, src, from, to, (Len(src) * from) \div to,
                        Len(src) \div ((Len(src) * from) \div to))
      BY DEF Join, Joined, JoinedAll
    <2>2. cast = JoinedAll(little, src, from, to, number, r)
      BY ONLY <1>1, <1>2, <2>1, cast = Join(little, src, from, to), number = (n * from) \div to
    <2> QED  BY ONLY <2>2 DEF JoinedAll
  <1>7. \A i \in 1 .. number : cast[i] \in Int
                                 /\ SumsTo(cast[i], src, (i - 1) * r, little, r, from)
    <2> TAKE i \in 1 .. number
    <2> PICK at : at = (i - 1) * r
      OBVIOUS
    <2> PICK y : y = Joined(little, src, at, r, from)
      OBVIOUS
    <2>1. r \in Nat /\ from \in Nat /\ number \in Nat
      BY <1>1
    <2>2. \A j \in 1 .. r : at + j \in 1 .. n
      BY ONLY <1>1, <2>1, PlaceInGroup, little \in BOOLEAN, r \in Nat \ {0}, i \in 1 .. number,
              at = (i - 1) * r
    <2>3. \A j \in 1 .. r : src[at + j] \in Int /\ src[at + j] \in 0 .. Pow2[from] - 1
      BY ONLY <1>3, <1>5, <2>2
    <2>4. SumsTo(y, src, at, little, r, from)
      BY ONLY <2>1, <2>3, JoinedMeaning, little \in BOOLEAN, y = Joined(little, src, at, r, from)
    <2>5. y \in 0 .. Pow2[from * r] - 1
      BY ONLY <2>1, <2>3, <2>4, SumFits, little \in BOOLEAN
    <2>6. from * r = to
      BY <1>1
    <2>7. y % Pow2[to] = y /\ y \in Int
      <3> PICK m : m = Pow2[to]
        OBVIOUS
      <3>1. m \in Nat \ {0} /\ y \in 0 .. m - 1
        BY ONLY <1>4, <2>5, <2>6, m = Pow2[to]
      <3>2. y % m = y
        BY ONLY <3>1, SmallRemainders
      <3> QED  BY ONLY <3>1, <3>2, m = Pow2[to]
    <2>8. cast[i] = y % Pow2[to]
      BY ONLY <1>6, i \in 1 .. number, at = (i - 1) * r, y = Joined(little, src, at, r, from)
    <2> QED  BY ONLY <2>4, <2>7, <2>8, at = (i - 1) * r
  <1>8. DOMAIN cast = 1 .. number /\ Len(cast) = number
    <2>1. cast \in [1 .. number -> Int]
      <3>1. cast = [i \in 1 .. number |-> cast[i]]
        BY ONLY <1>6
      <3> QED  BY ONLY <1>7, <3>1
    <2>2. number \in Nat
      BY <1>1
    <2> QED  BY ONLY <2>1, <2>2, VectorIsSequence
  <1>9. SumsTo(Image(little, src, from), src, 0, little, n, from)
    <2>1. n \in Nat /\ from \in Nat
      OBVIOUS
    <2> QED  BY ONLY <1>2, <1>5, <2>1, ImageMeaning, little \in BOOLEAN
  <1>10. SumsTo(Image(little, cast, to), cast, 0, little, number, to)
    <2>1. number \in Nat /\ to \in Nat
      BY <1>1
    <2> QED  BY ONLY <1>7, <1>8, <2>1, ImageMeaning, little \in BOOLEAN
  <1>11. Image(little, src, from) = Image(little, cast, to)
    <2>1. number \in Nat /\ from \in Nat
      BY <1>1
    <2>2. SumsTo(Image(little, src, from), src, 0, little, number * r, from)
      BY ONLY <1>1, <1>9
    <2>3. SumsTo(Image(little, cast, to), cast, 0, little, number, r * from)
      BY ONLY <1>1, <1>10
    <2> QED  BY ONLY <1>7, <2>1, <2>2, <2>3, GroupsKeepSums, little \in BOOLEAN, r \in Nat \ {0}
  <1> QED  BY <1>11

(* The digits that a wide element is split into.                           *)
Parts(little, src, to, n, r) ==
    [k \in 1 .. n * r |->
        Digit(src[(k - 1) \div r + 1], to,
              IF little THEN (k - 1) % r ELSE r - 1 - ((k - 1) % r))]

LEMMA SplitKeeps ==
    ASSUME NEW little \in BOOLEAN, NEW n \in Nat \ {0}, NEW from \in Nat \ {0},
           NEW to \in Nat \ {0}, NEW src \in Vectors(Ints(from), n),
           NEW number, number = (n * from) \div to, NEW r \in Nat \ {0},
           Splits(n, from, to, number, r)
    PROVE  Image(little, Split(little, src, from, to), to) = Image(little, src, from)
  <1> PICK cast : cast = Split(little, src, from, to)
    OBVIOUS
  <1>1. from = r * to /\ number = n * r /\ number \div n = r /\ number \in Nat
    BY DEF Splits
  <1>2. Len(src) = n /\ DOMAIN src = 1 .. n
    <2>1. src \in [1 .. n -> Ints(from)] /\ n \in Nat
      BY DEF Vectors
    <2> QED  BY ONLY <2>1, VectorIsSequence
  <1>3. \A i \in 1 .. n : src[i] \in Nat /\ src[i] < Pow2[from] /\ src[i] \in Int
    <2>1. \A i \in 1 .. n : src[i] \in Ints(from)
      BY DEF Vectors
    <2>2. from \in Nat
      OBVIOUS
    <2>3. \A i \in 1 .. n : src[i] \in Nat /\ src[i] < Pow2[from]
      BY ONLY <2>1, <2>2, IntsAreNumbers
    <2> QED  BY <2>3
  <1>4. cast = Parts(little, src, to, n, r)
    BY <1>1, <1>2 DEF Split, Parts, Digit
  <1>5. \A i \in 1 .. n, j \in 1 .. r :
            /\ (i - 1) * r + j \in 1 .. number
            /\ cast[(i - 1) * r + j] = Digit(src[i], to, Place(little, r, j))
    <2> TAKE i \in 1 .. n, j \in 1 .. r
    <2> PICK k : k = (i - 1) * r + j
      OBVIOUS
    <2>1. k \in 1 .. number
      <3>1. n \in Nat /\ to \in Nat
        OBVIOUS
      <3> QED  BY ONLY <1>1, <3>1, PlaceInGroup, little \in BOOLEAN, r \in Nat \ {0}, i \in 1 .. n,
                       j \in 1 .. r, k = (i - 1) * r + j
    <2>2. (k - 1) % r = j - 1 /\ (k - 1) \div r = i - 1
      <3>1. i - 1 \in Int /\ j - 1 \in 0 .. r - 1
        OBVIOUS
      <3>2. ((i - 1) * r + (j - 1)) % r = j - 1 /\ ((i - 1) * r + (j - 1)) \div r = i - 1
        BY ONLY <3>1, RemainderIs, r \in Nat \ {0}
      <3>3. (i - 1) * r + (j - 1) = k - 1
        <4>1. (i - 1) * r \in Int
          BY <3>1
        <4> QED  BY ONLY <4>1, k = (i - 1) * r + j, j \in 1 .. r
      <3> QED  BY ONLY <3>2, <3>3
    <2>3. cast[k] = Digit(src[(k - 1) \div r + 1], to,
                            IF little THEN (k - 1) % r ELSE r - 1 - ((k - 1) % r))
      BY ONLY <1>1, <1>4, <2>1 DEF Parts
    <2>4. (i - 1) + 1 = i
      OBVIOUS
    <2>5. (IF little THEN j - 1 ELSE r - 1 - (j - 1)) = Place(little, r, j)
      BY DEF Place
    <2> QED  BY ONLY <2>1, <2>2, <2>3, <2>4, <2>5, k = (i - 1) * r + j
  <1>6. \A i \in 1 .. n : SumsTo(src[i], cast, (i - 1) * r, little, r, to)
    <2> TAKE i \in 1 .. n
    <2> PICK at : at = (i - 1) * r
      OBVIOUS
    <2> PICK x : x = src[i]
      OBVIOUS
    <2>1. \A j \in 1 .. r : cast[at + j] = Digit(x, to, Place(little, r, j))
      BY ONLY <1>5, i \in 1 .. n, at = (i - 1) * r, x = src[i]
    <2>2. to * r = from
      BY <1>1
    <2>3. x \in Nat /\ x < Pow2[to * r]
      BY ONLY <1>3, <2>2, i \in 1 .. n, x = src[i]
    <2>4. r \in Nat /\ to \in Nat
      OBVIOUS
    <2>5. SumsTo(x, cast, at, little, r, to)
      BY ONLY <2>1, <2>3, <2>4, DigitsMakeNumber, little \in BOOLEAN
    <2> QED  BY ONLY <2>5, at = (i - 1) * r, x = src[i]
  <1>7. \A k \in 1 .. number : cast[k] \in Int
    <2> TAKE k \in 1 .. number
    <2> PICK q : q = (k - 1) \div r
      OBVIOUS
    <2> PICK p : p = (k - 1) % r
      OBVIOUS
    <2>1. k - 1 \in Int /\ k - 1 \in 0 .. n * r - 1
      BY <1>1
    <2>2. q \in Int /\ p \in 0 .. r - 1 /\ k - 1 = q * r + p
      BY ONLY <2>1, RemainderFacts, r \in Nat \ {0}, q = (k - 1) \div r, p = (k - 1) % r
    <2>3. q + 1 \in 1 .. n
      <3>1. ~ (q < 0)
        <4> SUFFICES ASSUME q < 0  PROVE FALSE
          OBVIOUS
        <4>1. - q \in Nat \ {0}
          BY <2>2
        <4>2. (- q) * r >= r /\ (- q) * r = - (q * r) /\ q * r \in Int
          BY <2>2, <4>1, ProductGrows
        <4> QED  BY <2>1, <2>2, <4>2
      <3>2. ~ (q >= n)
        <4> SUFFICES ASSUME q >= n  PROVE FALSE
          OBVIOUS
        <4>1. q - n \in Nat
          BY <2>2
        <4>2. (q - n) * r \in Nat /\ q * r = n * r + (q - n) * r /\ n * r \in Int
          <5>1. \A a, b, c \in Int : a * c = b * c + (a - b) * c
            OBVIOUS
          <5>2. q \in Int /\ n \in Int /\ r \in Int
            BY <2>2
          <5>3. (q - n) * r \in Nat /\ n * r \in Int
            BY ONLY <4>1, r \in Nat \ {0}, n \in Nat \ {0}
          <5> QED  BY ONLY <5>1, <5>2, <5>3
        <4> QED  BY ONLY <2>1, <2>2, <4>2
      <3> QED  BY ONLY <2>2, <3>1, <3>2, n \in Nat \ {0}
    <2> PICK place : place = IF little THEN p ELSE r - 1 - p
      OBVIOUS
    <2>4. place \in Nat
      BY ONLY <2>2, place = (IF little THEN p ELSE r - 1 - p), little \in BOOLEAN, r \in Nat \ {0}
    <2>5. cast[k] = Digit(src[q + 1], to, place)
      BY ONLY <1>1, <1>4, k \in 1 .. number, q = (k - 1) \div r, p = (k - 1) % r,
              place = (IF little THEN p ELSE r - 1 - p) DEF Parts
    <2> PICK x : x = src[q + 1]
      OBVIOUS
    <2>6. x \in Int
      BY ONLY <1>3, <2>3, x = src[q + 1]
    <2>7. Pow2[to] \in Nat \ {0} /\ Pow2[to * place] \in Nat \ {0}
      <3>1. to \in Nat
        OBVIOUS
      <3> QED  BY ONLY <2>4, <3>1, PowersOfPlaces
    <2> PICK y : y = x \div Pow2[to * place]
      OBVIOUS
    <2>8. y \in Int
      BY ONLY <2>6, <2>7, RemainderFacts, y = x \div Pow2[to * place]
    <2>9. y % Pow2[to] \in Int
      BY ONLY <2>7, <2>8, RemaindersAreInts
    <2>10. cast[k] = y % Pow2[to]
      BY ONLY <2>5, x = src[q + 1], y = x \div Pow2[to * place] DEF Digit
    <2> QED  BY ONLY <2>9, <2>10
  <1>8. DOMAIN cast = 1 .. number /\ Len(cast) = number
    <2>1. cast \in [1 .. number -> Int]
      <3>1. cast = [k \in 1 .. number |-> cast[k]]
        BY ONLY <1>1, <1>4 DEF Parts
      <3> QED  BY ONLY <1>7, <3>1
    <2> QED  BY ONLY <1>1, <2>1, VectorIsSequence
  <1>9. SumsTo(Image(little, src, from), src, 0, little, n, from)
    <2>1. n \in Nat /\ from \in Nat
      OBVIOUS
    <2> QED  BY ONLY <1>2, <1>3, <2>1, ImageMeaning, little \in BOOLEAN
  <1>10. SumsTo(Image(little, cast, to), cast, 0, little, number, to)
    <2>1. number \in Nat /\ to \in Nat
      BY <1>1
    <2> QED  BY ONLY <1>7, <1>8, <2>1, ImageMeaning, little \in BOOLEAN
  <1>11. Image(little, cast, to) = Image(little, src, from)
    <2>1. n \in Nat /\ to \in Nat
      OBVIOUS
    <2>2. SumsTo(Image(little, cast, to), cast, 0, little, n * r, to)
      BY ONLY <1>1, <1>10
    <2>3. SumsTo(Image(little, src, from), src, 0, little, n, r * to)
      BY ONLY <1>1, <1>9
    <2> QED  BY ONLY <1>6, <2>1, <2>2, <2>3, GroupsKeepSums, little \in BOOLEAN, r \in Nat \ {0}
  <1> QED  BY <1>11

LEMMA BitCastOperands ==
    ASSUME ExecutionInv, Visited("BitCast")
    PROVE  \E n \in Nat \ {0} :
              LET i == instruction
              IN  /\ i.little \in BOOLEAN /\ i.from \in Nat \ {0} /\ i.to \in Nat \ {0}
                  /\ i.src \in Vectors(Ints(i.from), n)
                  /\ (n * i.from) % i.to = 0
                  /\ i.from % i.to = 0 \/ i.to % i.from = 0
  <1>1. instruction \in BitCasts
    BY Kinds
  <1>2. PICK shape \in BitCastShapes :
            instruction \in [visit : {"BitCast"}, little : BOOLEAN, from : {shape[2]},
                             to : {shape[3]}, src : Vectors(Ints(shape[2]), shape[1])]
    BY <1>1 DEF BitCasts
  <1>3. /\ instruction.little \in BOOLEAN /\ instruction.from = shape[2] /\ instruction.to = shape[3]
        /\ instruction.src \in Vectors(Ints(shape[2]), shape[1])
    BY <1>2
  <1>4. /\ shape[1] \in 1 .. MaxBits /\ shape[2] \in Widths /\ shape[3] \in Widths
        /\ (shape[1] * shape[2]) % shape[3] = 0
        /\ shape[2] % shape[3] = 0 \/ shape[3] % shape[2] = 0
    <2>1. BitCastShapes \subseteq (1 .. MaxBits) \X Widths \X Widths
      BY DEF BitCastShapes
    <2>2. shape \in (1 .. MaxBits) \X Widths \X Widths
      BY <2>1
    <2>3. shape[1] \in 1 .. MaxBits /\ shape[2] \in Widths /\ shape[3] \in Widths
      BY ONLY <2>2
    <2>4. /\ (shape[1] * shape[2]) % shape[3] = 0
          /\ shape[2] % shape[3] = 0 \/ shape[3] % shape[2] = 0
      BY DEF BitCastShapes
    <2> QED  BY <2>3, <2>4
  <1>5. shape[1] \in Nat \ {0} /\ shape[2] \in Nat \ {0} /\ shape[3] \in Nat \ {0}
    <2> PICK m : m = shape[1]
      OBVIOUS
    <2>1. m \in Nat \ {0}
      BY ONLY <1>4, m = shape[1], MaximumAssumption
    <2>2. \A v \in Widths : v \in Nat \ {0}
      BY WidthsAssumption
    <2> QED  BY ONLY <1>4, <2>1, <2>2, m = shape[1]
  <1> QED  BY ONLY <1>3, <1>4, <1>5

LEMMA BitCastsOfState == ExecutionInv => BitCastsKeepMemory
  <1> SUFFICES ASSUME ExecutionInv, Visited("BitCast")
               PROVE  Image(instruction.little, result, instruction.to)
                        = Image(instruction.little, instruction.src, instruction.from)
    BY DEF BitCastsKeepMemory
  <1> PICK little : little = instruction.little
    OBVIOUS
  <1> PICK src : src = instruction.src
    OBVIOUS
  <1> PICK from : from = instruction.from
    OBVIOUS
  <1> PICK to : to = instruction.to
    OBVIOUS
  <1>1. result = BitCast(little, src, from, to)
    BY DEF ExecutionInv, ComputedByMoves
  <1>2. PICK n \in Nat \ {0} :
            /\ little \in BOOLEAN /\ from \in Nat \ {0} /\ to \in Nat \ {0}
            /\ src \in Vectors(Ints(from), n) /\ (n * from) % to = 0
            /\ from % to = 0 \/ to % from = 0
    BY BitCastOperands
  <1> PICK number : number = (n * from) \div to
    OBVIOUS
  <1>3. PICK r \in Nat \ {0} : Joins(n, from, to, number, r) \/ Splits(n, from, to, number, r)
    BY ONLY <1>2, Shapes, number = (n * from) \div to
  <1>4. Len(src) = n
    <2>1. src \in [1 .. n -> Ints(from)] /\ n \in Nat
      BY <1>2 DEF Vectors
    <2> QED  BY ONLY <2>1, VectorIsSequence
  <1>5. CASE Len(src) = 1 /\ from = to
    BY <1>1, <1>5 DEF BitCast, ScalarBitCast
  <1>6. CASE ~ (Len(src) = 1 /\ from = to) /\ number < n
    <2>1. Joins(n, from, to, number, r)
      BY <1>3, <1>6 DEF Splits
    <2>2. result = Join(little, src, from, to)
      BY <1>1, <1>4, <1>6 DEF BitCast
    <2>3. Image(little, Join(little, src, from, to), to) = Image(little, src, from)
      BY ONLY <1>2, <2>1, JoinKeeps, number = (n * from) \div to, r \in Nat \ {0}
    <2> QED  BY <2>2, <2>3
  <1>7. CASE ~ (Len(src) = 1 /\ from = to) /\ ~ (number < n)
    <2>1. Splits(n, from, to, number, r)
      BY <1>3, <1>7 DEF Joins
    <2>2. result = Split(little, src, from, to)
      BY <1>1, <1>4, <1>7 DEF BitCast
    <2>3. Image(little, Split(little, src, from, to), to) = Image(little, src, from)
      BY ONLY <1>2, <2>1, SplitKeeps, number = (n * from) \div to, r \in Nat \ {0}
    <2> QED  BY <2>2, <2>3
  <1> QED  BY <1>5, <1>6, <1>7

(* No bitcast between elements whose widths divide each other changes a    *)
(* bit of memory, on either kind of machine, for any number of elements of *)
(* any such widths (executeBitCastInst).                                   *)
THEOREM BitsAreKept == Spec => []BitCastsKeepMemory
  BY ResultsAreComputed, BitCastsOfState, PTL

-----------------------------------------------------------------------------
(* Formats. FlattenSeq lays pieces behind each other: laid[i] is what the  *)
(* first i of them make.                                                   *)

Laid(laid, S, seqs, n) ==
    /\ laid[0] = << >>
    /\ \A i \in 0 .. n : laid[i] \in Seq(S)
    /\ \A i \in 0 .. n - 1 : laid[i + 1] = laid[i] \o seqs[i + 1]

LEMMA Concatenated ==
    ASSUME NEW S, NEW s \in Seq(S), NEW t \in Seq(S)
    PROVE  /\ s \o t \in Seq(S) /\ Len(s \o t) = Len(s) + Len(t)
           /\ \A i \in 1 .. Len(s) : (s \o t)[i] = s[i]
           /\ \A i \in 1 .. Len(t) : (s \o t)[Len(s) + i] = t[i]
           /\ Len(s) \in Nat /\ Len(t) \in Nat
           /\ << >> \o s = s
  OBVIOUS

(* The recursive function of FlattenSeq.                                   *)
Flattens(f, seqs, n) ==
    f = [i \in 1 .. n |-> IF i = 1 THEN seqs[i] ELSE f[i - 1] \o seqs[i]]

LEMMA FlattenExists ==
    ASSUME NEW seqs, NEW N \in Nat \ {0}
    PROVE  \E f : Flattens(f, seqs, N)
  <1> DEFINE S == {n \in 1 .. N : ~ \E f : Flattens(f, seqs, n)}
  <1> SUFFICES ASSUME S # {}  PROVE FALSE
    OBVIOUS
  <1>1. PICK n \in S : \A k \in S : n <= k
    <2>1. S \in SUBSET Nat
      OBVIOUS
    <2> HIDE DEF S
    <2> QED  BY <2>1, LeastNumber
  <1>2. n # 1
    <2>1. Flattens([i \in 1 .. 1 |-> seqs[1]], seqs, 1)
      BY DEF Flattens
    <2> QED  BY <2>1
  <1>3. n - 1 \in 1 .. N /\ n - 1 \notin S /\ n \in 1 .. N
    BY <1>1, <1>2
  <1>4. PICK f : Flattens(f, seqs, n - 1)
    BY <1>3
  <1> PICK g : g = [i \in 1 .. n |-> IF i = n THEN f[n - 1] \o seqs[n] ELSE f[i]]
    OBVIOUS
  <1>5. \A i \in 1 .. n - 1 : g[i] = f[i] /\ i \in 1 .. n
    <2>1. \A i \in 1 .. n - 1 : i \in 1 .. n /\ i # n
      BY <1>3
    <2> QED  BY <2>1
  <1>6. g[n] = f[n - 1] \o seqs[n] /\ n \in 1 .. n /\ n - 1 \in 1 .. n - 1
    <2>1. n \in 1 .. n /\ n - 1 \in 1 .. n - 1
      BY ONLY <1>3
    <2> QED  BY <2>1
  <1>7. ASSUME NEW i \in 1 .. n
        PROVE  g[i] = IF i = 1 THEN seqs[i] ELSE g[i - 1] \o seqs[i]
    <2>1. CASE i = n
      BY <1>2, <1>5, <1>6, <2>1
    <2>2. CASE i # n
      <3>1. i \in 1 .. n - 1 /\ (i # 1 => i - 1 \in 1 .. n - 1)
        BY <1>3, <2>2
      <3>2. f[i] = IF i = 1 THEN seqs[i] ELSE f[i - 1] \o seqs[i]
        BY <1>4, <3>1 DEF Flattens
      <3> QED  BY <1>5, <3>1, <3>2
    <2> QED  BY <2>1, <2>2
  <1>8. Flattens(g, seqs, n)
    <2>1. g = [i \in 1 .. n |-> g[i]]
      OBVIOUS
    <2> QED  BY <1>7, <2>1 DEF Flattens
  <1> QED  BY <1>3, <1>8

LEMMA FlattenMeaning ==
    ASSUME NEW S, NEW n \in Nat, NEW seqs \in [1 .. n -> Seq(S)]
    PROVE  \E laid : Laid(laid, S, seqs, n) /\ FlattenSeq(seqs) = laid[n]
  <1>1. Len(seqs) = n /\ \A i \in 1 .. n : seqs[i] \in Seq(S)
    BY VectorIsSequence
  <1>2. CASE n = 0
    <2> PICK laid : laid = [i \in 0 .. 0 |-> << >>]
      OBVIOUS
    <2>1. Laid(laid, S, seqs, n)
      BY <1>2 DEF Laid
    <2>2. seqs = << >>
      BY <1>1, <1>2
    <2>3. FlattenSeq(seqs) = seqs
      BY <1>1, <1>2 DEF FlattenSeq
    <2>4. laid[n] = << >>
      BY <1>2
    <2> QED  BY <2>1, <2>2, <2>3, <2>4
  <1>3. CASE n # 0
    <2> PICK f : f = CHOOSE g : Flattens(g, seqs, n)
      OBVIOUS
    <2>1. Flattens(f, seqs, n)
      BY <1>3, FlattenExists
    <2>2. FlattenSeq(seqs) = f[n]
      BY <1>1, <1>3 DEF FlattenSeq, Flattens
    <2> PICK laid : laid = [i \in 0 .. n |-> IF i = 0 THEN << >> ELSE f[i]]
      OBVIOUS
    <2>3. laid[0] = << >> /\ \A i \in 1 .. n : laid[i] = f[i]
      OBVIOUS
    <2>4. f[1] = seqs[1] /\ \A i \in 1 .. n - 1 : f[i + 1] = f[i] \o seqs[i + 1]
      <3>1. 1 \in 1 .. n
        BY <1>3
      <3>2. \A i \in 1 .. n - 1 : i + 1 \in 1 .. n /\ i + 1 # 1 /\ (i + 1) - 1 = i
        OBVIOUS
      <3>3. \A i \in 1 .. n : f[i] = IF i = 1 THEN seqs[i] ELSE f[i - 1] \o seqs[i]
        BY <2>1 DEF Flattens
      <3>4. f[1] = seqs[1]
        BY <3>1, <3>3
      <3>5. ASSUME NEW i \in 1 .. n - 1  PROVE f[i + 1] = f[i] \o seqs[i + 1]
        <4>1. f[i + 1] = f[(i + 1) - 1] \o seqs[i + 1]
          BY ONLY <3>2, <3>3
        <4> QED  BY ONLY <3>2, <4>1
      <3> QED  BY <3>4, <3>5
    <2>5. \A i \in 0 .. n - 1 : laid[i + 1] = laid[i] \o seqs[i + 1]
      <3> TAKE i \in 0 .. n - 1
      <3>1. CASE i = 0
        <4>1. 1 \in 1 .. n /\ 0 + 1 = 1
          BY <1>3
        <4>2. laid[1] = seqs[1] /\ seqs[1] \in Seq(S)
          BY <1>1, <2>3, <2>4, <4>1
        <4>3. << >> \o seqs[1] = seqs[1]
          BY <4>2, Concatenated
        <4> QED  BY <2>3, <3>1, <4>1, <4>2, <4>3
      <3>2. CASE i # 0
        <4>1. i \in 1 .. n - 1 /\ i \in 1 .. n /\ i + 1 \in 1 .. n
          BY <3>2
        <4> QED  BY ONLY <2>3, <2>4, <4>1
      <3> QED  BY <3>1, <3>2
    <2> DEFINE T == {i \in 0 .. n : laid[i] \notin Seq(S)}
    <2>6. T = {}
      <3> SUFFICES ASSUME T # {}  PROVE FALSE
        OBVIOUS
      <3>1. PICK m \in T : \A k \in T : m <= k
        <4>1. T \in SUBSET Nat
          OBVIOUS
        <4> HIDE DEF T
        <4> QED  BY <4>1, LeastNumber
      <3>2. m # 0
        BY <2>3, <3>1
      <3> PICK k : k = m - 1
        OBVIOUS
      <3>3. m = k + 1 /\ k \in 0 .. n - 1 /\ k \in 0 .. n /\ k \notin T
        <4>1. m \in 0 .. n
          BY <3>1
        <4>2. m = k + 1 /\ k \in 0 .. n - 1 /\ k \in 0 .. n /\ ~ (m <= k)
          BY ONLY <3>2, <4>1, k = m - 1, n \in Nat
        <4> HIDE DEF T
        <4> QED  BY <3>1, <4>2
      <3>4. laid[k] \in Seq(S) /\ seqs[k + 1] \in Seq(S)
        <4>1. k + 1 \in 1 .. n
          BY ONLY <3>3, n \in Nat
        <4> QED  BY <1>1, <3>3, <4>1
      <3>5. laid[k] \o seqs[k + 1] \in Seq(S)
        BY <3>4, Concatenated
      <3>6. laid[m] \in Seq(S)
        BY ONLY <2>5, <3>3, <3>5
      <3> QED  BY <3>1, <3>6
    <2>7. Laid(laid, S, seqs, n)
      BY <2>3, <2>5, <2>6 DEF Laid
    <2>8. n \in 1 .. n
      BY <1>3
    <2> QED  BY <2>2, <2>3, <2>7, <2>8
  <1> QED  BY <1>2, <1>3

(* What is laid stays at the front of the whole.                           *)
IsFront(s, t) == Len(s) <= Len(t) /\ \A p \in 1 .. Len(s) : t[p] = s[p]

LEMMA LaidIsFront ==
    ASSUME NEW S, NEW n \in Nat, NEW seqs \in [1 .. n -> Seq(S)], NEW laid, Laid(laid, S, seqs, n)
    PROVE  \A i \in 0 .. n : IsFront(laid[i], laid[n])
  <1>1. /\ \A i \in 0 .. n : laid[i] \in Seq(S)
        /\ \A i \in 0 .. n - 1 : laid[i + 1] = laid[i] \o seqs[i + 1]
    BY DEF Laid
  <1> DEFINE T == {k \in 0 .. n : ~ IsFront(laid[n - k], laid[n])}
  <1>2. T = {}
    <2> SUFFICES ASSUME T # {}  PROVE FALSE
      OBVIOUS
    <2>1. PICK m \in T : \A k \in T : m <= k
      <3>1. T \in SUBSET Nat
        OBVIOUS
      <3> HIDE DEF T
      <3> QED  BY <3>1, LeastNumber
    <2>2. m # 0
      <3>1. n - 0 = n /\ n \in 0 .. n
        OBVIOUS
      <3>2. laid[n] \in Seq(S)
        BY <1>1, <3>1
      <3>3. Len(laid[n]) <= Len(laid[n])
        BY <3>2
      <3>4. IsFront(laid[n], laid[n])
        BY <3>3 DEF IsFront
      <3> QED  BY <2>1, <3>1, <3>4
    <2> PICK k : k = m - 1
      OBVIOUS
    <2> PICK i : i = n - m
      OBVIOUS
    <2>3. /\ i \in 0 .. n - 1 /\ i \in 0 .. n /\ i + 1 \in 0 .. n /\ n - k = i + 1 /\ i + 1 \in 1 .. n
          /\ k \in 0 .. n /\ k \notin T /\ n \in 0 .. n
      <3>1. m \in 0 .. n
        BY <2>1
      <3>2. /\ i \in 0 .. n - 1 /\ i \in 0 .. n /\ i + 1 \in 0 .. n /\ n - k = i + 1 /\ i + 1 \in 1 .. n
            /\ k \in 0 .. n /\ ~ (m <= k) /\ n \in 0 .. n
        BY ONLY <2>2, <3>1, k = m - 1, i = n - m, n \in Nat
      <3> HIDE DEF T
      <3> QED  BY <2>1, <3>2
    <2> PICK s : s = laid[i]
      OBVIOUS
    <2> PICK t : t = seqs[i + 1]
      OBVIOUS
    <2> PICK u : u = laid[n]
      OBVIOUS
    <2>4. s \in Seq(S) /\ t \in Seq(S) /\ u \in Seq(S) /\ laid[i + 1] = s \o t
      BY <1>1, <2>3
    <2>5. IsFront(s \o t, u)
      BY <2>3, <2>4
    <2> PICK w : w = s \o t
      OBVIOUS
    <2>6. /\ Len(w) = Len(s) + Len(t) /\ Len(s) \in Nat /\ Len(t) \in Nat
          /\ \A p \in 1 .. Len(s) : w[p] = s[p]
      <3>1. /\ Len(s \o t) = Len(s) + Len(t) /\ Len(s) \in Nat /\ Len(t) \in Nat
            /\ \A p \in 1 .. Len(s) : (s \o t)[p] = s[p]
        BY ONLY <2>4, Concatenated
      <3> QED  BY ONLY <3>1, w = s \o t
    <2>7. Len(w) <= Len(u) /\ \A p \in 1 .. Len(w) : u[p] = w[p]
      BY <2>5 DEF IsFront
    <2>8. Len(u) \in Nat
      BY <2>4
    <2>9. IsFront(s, u)
      <3>1. Len(s) <= Len(u)
        BY ONLY <2>6, <2>7, <2>8
      <3>2. \A p \in 1 .. Len(s) : p \in 1 .. Len(w)
        BY ONLY <2>6
      <3> QED  BY ONLY <2>6, <2>7, <3>1, <3>2 DEF IsFront
    <2> QED  BY <2>1, <2>9
  <1>3. \A i \in 0 .. n : n - i \in 0 .. n /\ n - (n - i) = i
    OBVIOUS
  <1>4. \A k \in 0 .. n : IsFront(laid[n - k], laid[n])
    BY <1>2
  <1> QED  BY ONLY <1>3, <1>4

(* Where the reader of a format is, and the places it comes through.       *)
At(text, pending, taken) == [text |-> text, pending |-> pending, ArgNo |-> taken]

Reads(st, format, args, n) ==
    /\ st[0] = At(<< >>, << >>, 0)
    /\ \A k \in 0 .. n - 1 : st[k + 1] = ReadCharacter(st[k], format[k + 1], args)

LEMMA FormatMeaning ==
    ASSUME NEW format, NEW args, NEW n \in Nat, DOMAIN format = 1 .. n
    PROVE  \E st : Reads(st, format, args, n) /\ Expand(format, args) = st[n].text
  <1> DEFINE step(g, s) == ReadCharacter(g[s \ {Max(s)}], format[Max(s)], args)
             base == [text |-> << >>, pending |-> << >>, ArgNo |-> 0]
             g == CHOOSE g : g = [s \in SUBSET DOMAIN format |-> IF s = {} THEN base ELSE step(g, s)]
  <1>1. Expand(format, args) = g[DOMAIN format].text
    BY DEF Expand, FoldLeft, MapThenFoldSet
  <1> PICK c : c = [format |-> format, args |-> args]
    OBVIOUS
  <1>2. \A value, i : FoldStep("character", c, value, i) = ReadCharacter(value, format[i], args)
    BY DEF FoldStep
  <1>3. \A f, s : step(f, s) = FoldStep("character", c, f[s \ {Max(s)}], Max(s))
    BY <1>2
  <1>4. base = At(<< >>, << >>, 0)
    BY DEF At
  <1> HIDE DEF step, base
  <1>5. PICK f : IsFold(f, "character", c, base, n)
    BY FoldExists
  <1>6. f = [s \in SUBSET DOMAIN format |-> IF s = {} THEN base ELSE step(f, s)]
    BY <1>3, <1>5 DEF IsFold
  <1>7. g = [s \in SUBSET DOMAIN format |-> IF s = {} THEN base ELSE step(g, s)]
    BY <1>6
  <1> HIDE DEF g
  <1>8. IsFold(g, "character", c, base, n)
    BY <1>3, <1>7 DEF IsFold
  <1>9. Steps(g, "character", c, base, n)
    BY <1>8, FoldSteps
  <1> PICK st : st = [k \in 0 .. n |-> g[1 .. k]]
    OBVIOUS
  <1>10. st[0] = base
    <2>1. 0 \in 0 .. n /\ g[1 .. 0] = base
      BY <1>9 DEF Steps
    <2> QED  BY <2>1
  <1>11. \A k \in 0 .. n - 1 : st[k + 1] = ReadCharacter(st[k], format[k + 1], args)
    <2> TAKE k \in 0 .. n - 1
    <2>1. k \in 0 .. n /\ k + 1 \in 0 .. n
      OBVIOUS
    <2>2. g[1 .. k + 1] = FoldStep("character", c, g[1 .. k], k + 1)
      BY <1>9, Zenon DEF Steps
    <2>3. st[k] = g[1 .. k] /\ st[k + 1] = g[1 .. k + 1]
      BY ONLY <2>1, st = [i \in 0 .. n |-> g[1 .. i]]
    <2> QED  BY ONLY <1>2, <2>2, <2>3
  <1>12. Expand(format, args) = st[n].text
    <2>1. n \in 0 .. n
      OBVIOUS
    <2> QED  BY <1>1, <2>1
  <1> QED  BY <1>4, <1>10, <1>11, <1>12 DEF Reads

LEMMA AppendToOne ==
    ASSUME NEW a, NEW b
    PROVE  Append(<<a>>, b) = <<a, b>>
  <1> PICK S : S = {a, b}
    OBVIOUS
  <1> PICK r : r = <<a>>
    OBVIOUS
  <1> PICK s : s = Append(r, b)
    OBVIOUS
  <1> PICK t : t = <<a, b>>
    OBVIOUS
  <1>1. r \in Seq(S) /\ Len(r) = 1 /\ r[1] = a /\ a \in S /\ b \in S
    OBVIOUS
  <1>2. t \in Seq(S) /\ Len(t) = 2 /\ t[1] = a /\ t[2] = b
    OBVIOUS
  <1>3. s \in Seq(S) /\ Len(s) = 2 /\ s[1] = a /\ s[2] = b
    <2> PICK n : n = Len(r)
      OBVIOUS
    <2>1. /\ Append(r, b) \in Seq(S) /\ Len(Append(r, b)) = n + 1
          /\ \A i \in 1 .. n : Append(r, b)[i] = r[i]
          /\ Append(r, b)[n + 1] = b
      BY <1>1, AppendProperties
    <2> QED  BY ONLY <1>1, <2>1, n = Len(r), s = Append(r, b)
  <1>4. \A i \in 1 .. Len(s) : s[i] = t[i]
    BY ONLY <1>2, <1>3
  <1> QED  BY ONLY <1>2, <1>3, <1>4, SeqEqual, r = <<a>>, s = Append(r, b), t = <<a, b>>

LEMMA AppendToTwo ==
    ASSUME NEW a, NEW b, NEW c
    PROVE  Append(<<a, b>>, c) = <<a, b, c>>
  <1> PICK S : S = {a, b, c}
    OBVIOUS
  <1> PICK r : r = <<a, b>>
    OBVIOUS
  <1> PICK s : s = Append(r, c)
    OBVIOUS
  <1> PICK t : t = <<a, b, c>>
    OBVIOUS
  <1>1. r \in Seq(S) /\ Len(r) = 2 /\ r[1] = a /\ r[2] = b /\ c \in S
    OBVIOUS
  <1>2. t \in Seq(S) /\ Len(t) = 3 /\ t[1] = a /\ t[2] = b /\ t[3] = c
    OBVIOUS
  <1>3. s \in Seq(S) /\ Len(s) = 3 /\ s[1] = a /\ s[2] = b /\ s[3] = c
    <2> PICK n : n = Len(r)
      OBVIOUS
    <2>1. /\ Append(r, c) \in Seq(S) /\ Len(Append(r, c)) = n + 1
          /\ \A i \in 1 .. n : Append(r, c)[i] = r[i]
          /\ Append(r, c)[n + 1] = c
      BY <1>1, AppendProperties
    <2> QED  BY ONLY <1>1, <2>1, n = Len(r), s = Append(r, c)
  <1>4. \A i \in 1 .. Len(s) : s[i] = t[i]
    BY ONLY <1>2, <1>3
  <1> QED  BY ONLY <1>2, <1>3, <1>4, SeqEqual, r = <<a, b>>, s = Append(r, c), t = <<a, b, c>>

LEMMA ShortSequences ==
    /\ \A a : <<a>> # << >> /\ Head(<<a>>) = a
    /\ \A a, b : <<a, b>> # << >> /\ Head(<<a, b>>) = a /\ Append(<<a>>, b) = <<a, b>>
    /\ \A a, b, c : Head(<<a, b, c>>) = a /\ Append(<<a, b>>, c) = <<a, b, c>>
  <1>1. \A a : Len(<<a>>) = 1 /\ Head(<<a>>) = a
    OBVIOUS
  <1>2. \A a, b : Len(<<a, b>>) = 2 /\ Head(<<a, b>>) = a
    OBVIOUS
  <1>3. Len(<< >>) = 0
    OBVIOUS
  <1>4. \A a, b : Append(<<a>>, b) = <<a, b>>
    BY AppendToOne
  <1>5. \A a, b, c : Head(<<a, b, c>>) = a
    OBVIOUS
  <1>6. \A a, b, c : Append(<<a, b>>, c) = <<a, b, c>>
    BY AppendToTwo
  <1> QED  BY <1>1, <1>2, <1>3, <1>4, <1>5, <1>6

(* One character more, at each kind of place.                              *)
LEMMA ReadsText ==
    ASSUME NEW t, NEW k, NEW args
    PROVE  /\ ReadCharacter(At(t, << >>, k), "a", args) = At(Append(t, "a"), << >>, k)
           /\ ReadCharacter(At(t, << >>, k), "%", args) = At(t, <<"%">>, k)
           /\ ReadCharacter(At(t, << >>, k), "\\", args) = At(t, <<"\\">>, k)
  <1> PICK at : at = At(t, << >>, k)
    OBVIOUS
  <1>1. at.pending = << >> /\ at.text = t
    BY DEF At
  <1>2. \A x : [at EXCEPT !.text = x] = At(x, << >>, k)
    BY DEF At
  <1>3. \A x : [at EXCEPT !.pending = x] = At(t, x, k)
    BY DEF At
  <1>4. \A x : Append(<< >>, x) = <<x>>
    OBVIOUS
  <1>5. ReadCharacter(at, "a", args) = [at EXCEPT !.text = Append(t, "a")]
    BY <1>1 DEF ReadCharacter
  <1>6. ReadCharacter(at, "%", args) = [at EXCEPT !.pending = Append(<< >>, "%")]
    BY <1>1 DEF ReadCharacter
  <1>7. ReadCharacter(at, "\\", args) = [at EXCEPT !.pending = Append(<< >>, "\\")]
    BY <1>1 DEF ReadCharacter
  <1> QED  BY <1>2, <1>3, <1>4, <1>5, <1>6, <1>7

LEMMA ReadsEscape ==
    ASSUME NEW t, NEW k, NEW args, NEW c
    PROVE  ReadCharacter(At(t, <<"\\">>, k), c, args) = At(t \o <<"\\", c>>, << >>, k)
  <1> PICK at : at = At(t, <<"\\">>, k)
    OBVIOUS
  <1>1. at.pending = <<"\\">> /\ at.text = t /\ at.ArgNo = k
    BY DEF At
  <1>2. <<"\\">> # << >> /\ Append(<<"\\">>, c) = <<"\\", c>> /\ Head(<<"\\", c>>) = "\\"
    BY ONLY ShortSequences
  <1>3. ReadCharacter(at, c, args)
          = [text |-> t \o <<"\\", c>>, pending |-> << >>, ArgNo |-> k]
    BY <1>1, <1>2 DEF ReadCharacter
  <1> QED  BY <1>3 DEF At

(* Inside a directive.                                                     *)
IsDirective(p, c, read) == p # << >> /\ read = Append(p, c) /\ Head(read) = "%"

LEMMA ReadsFlag ==
    ASSUME NEW t, NEW k \in Nat, NEW args, NEW c, NEW p, NEW read, IsDirective(p, c, read),
           c \notin Conversions
    PROVE  ReadCharacter(At(t, p, k), c, args) = At(t, read, k)
  <1> PICK at : at = At(t, p, k)
    OBVIOUS
  <1>1. at.pending = p /\ at.text = t /\ at.ArgNo = k
    BY DEF At
  <1>2. ReadCharacter(at, c, args) = [at EXCEPT !.pending = read]
    BY <1>1 DEF ReadCharacter, IsDirective
  <1>3. \A x : [at EXCEPT !.pending = x] = At(t, x, k)
    BY DEF At
  <1> QED  BY <1>2, <1>3

LEMMA ReadsPercent ==
    ASSUME NEW t, NEW k \in Nat, NEW args, NEW p, NEW read, IsDirective(p, "%", read)
    PROVE  ReadCharacter(At(t, p, k), "%", args) = At(Append(t, "%"), << >>, k)
  <1> PICK at : at = At(t, p, k)
    OBVIOUS
  <1>1. at.pending = p /\ at.text = t /\ at.ArgNo = k /\ "%" \in Conversions /\ k + 0 = k
    BY DEF At, Conversions
  <1>2. ReadCharacter(at, "%", args)
          = [text |-> Append(t, "%"), pending |-> << >>, ArgNo |-> k + 0]
    BY <1>1 DEF ReadCharacter, IsDirective, TakesArgument
  <1> QED  BY <1>1, <1>2 DEF At

LEMMA ReadsConversion ==
    ASSUME NEW t, NEW k \in Nat, NEW args, NEW c, NEW p, NEW read, IsDirective(p, c, read),
           c \in Conversions, c # "%", NEW y,
           y = [directive |-> read, arg |-> Shown(read, args[k + 1])]
    PROVE  ReadCharacter(At(t, p, k), c, args) = At(Append(t, y), << >>, k + 1)
  <1> PICK at : at = At(t, p, k)
    OBVIOUS
  <1>1. at.pending = p /\ at.text = t /\ at.ArgNo = k
    BY DEF At
  <1>2. ReadCharacter(at, c, args)
          = [text |-> Append(t, y), pending |-> << >>, ArgNo |-> k + 1]
    BY <1>1 DEF ReadCharacter, IsDirective, TakesArgument
  <1> QED  BY <1>2 DEF At

(* What one piece of a format puts into the output, x being the next       *)
(* argument.                                                               *)
Takes(piece) == piece[1] = "%" /\ piece # <<"%", "%">>

ShownPiece(piece, x) ==
    IF Takes(piece)
    THEN <<[directive |-> piece,
            arg |-> IF Last(piece) = "s" \/ piece = <<"%", "l", "d">> THEN x
                    ELSE [x EXCEPT !.high = 0]]>>
    ELSE IF piece = <<"%", "%">> THEN <<"%">> ELSE piece

Halves == [high : Nat, low : Nat]

Texts == {"a", "\\", "%"} \cup [directive : Pieces, arg : Halves]

LEMMA OnlySequence ==
    ASSUME NEW S, NEW x \in S
    PROVE  <<x>> \in Seq(S)
  OBVIOUS

LEMMA AppendsText ==
    ASSUME NEW S, NEW t \in Seq(S), NEW x \in S
    PROVE  Append(t, x) = t \o <<x>>
  BY AppendIsConcat

LEMMA DirectivesAreText ==
    ASSUME NEW piece \in Pieces, NEW x \in Halves
    PROVE  /\ [directive |-> piece, arg |-> x] \in Texts
           /\ [directive |-> piece, arg |-> [x EXCEPT !.high = 0]] \in Texts
  <1>1. [x EXCEPT !.high = 0] \in Halves
    BY DEF Halves
  <1> QED  BY <1>1 DEF Texts

(* A directive that was read to its end.                                   *)
EndsIn(read, c) ==
    /\ read[1] = "%" /\ read # <<"%", "%">> /\ Last(read) = c
    /\ (\E i \in DOMAIN read : read[i] = "l") <=> read = <<"%", "l", "d">>

LEMMA DirectiveRead ==
    ASSUME NEW t \in Seq(Texts), NEW k \in Nat, NEW args, args[k + 1] \in Halves,
           NEW p, NEW c \in {"c", "d", "s"}, NEW read \in Pieces, IsDirective(p, c, read),
           EndsIn(read, c)
    PROVE  ReadCharacter(At(t, p, k), c, args) = At(t \o ShownPiece(read, args[k + 1]), << >>, k + 1)
  <1> PICK x : x = args[k + 1]
    OBVIOUS
  <1>1. c \in Conversions /\ c # "%"
    BY DEF Conversions
  <1> PICK y : y = [directive |-> read, arg |-> Shown(read, x)]
    OBVIOUS
  <1>2. ReadCharacter(At(t, p, k), c, args) = At(Append(t, y), << >>, k + 1)
    BY ONLY <1>1, ReadsConversion, k \in Nat, IsDirective(p, c, read), x = args[k + 1],
            y = [directive |-> read, arg |-> Shown(read, x)]
  <1>3. Shown(read, x) = IF c = "s" \/ read = <<"%", "l", "d">> THEN x ELSE [x EXCEPT !.high = 0]
    <2>1. CASE c = "s"
      BY <2>1 DEF Shown, EndsIn
    <2>2. CASE c = "c"
      <3>1. read # <<"%", "l", "d">>
        <4>1. Last(<<"%", "l", "d">>) = "d"
          BY DEF Last
        <4> QED  BY <2>2, <4>1 DEF EndsIn
      <3> QED  BY <2>2, <3>1 DEF Shown, EndsIn
    <2>3. CASE c = "d"
      BY <2>3 DEF Shown, EndsIn
    <2> QED  BY <2>1, <2>2, <2>3
  <1>4. ShownPiece(read, x) = <<y>>
    BY <1>3 DEF ShownPiece, Takes, EndsIn
  <1>5. y \in Texts
    BY <1>3, DirectivesAreText
  <1>6. Append(t, y) = t \o <<y>>
    BY <1>5, AppendsText
  <1> QED  BY <1>2, <1>4, <1>6

(* A piece, character by character.                                        *)
ReadPiece(at, piece, args) ==
    IF Len(piece) = 1 THEN ReadCharacter(at, piece[1], args)
    ELSE IF Len(piece) = 2 THEN ReadCharacter(ReadCharacter(at, piece[1], args), piece[2], args)
    ELSE ReadCharacter(ReadCharacter(ReadCharacter(at, piece[1], args), piece[2], args),
                       piece[3], args)

LEMMA LettersAreNoConversions ==
    /\ "5" \notin Conversions /\ "l" \notin Conversions
    /\ "c" \in Conversions /\ "d" \in Conversions /\ "s" \in Conversions /\ "%" \in Conversions
  BY DEF Conversions

LEMMA PieceOfOne ==
    ASSUME NEW a, NEW at, NEW args
    PROVE  ReadPiece(at, <<a>>, args) = ReadCharacter(at, a, args)
  <1>1. Len(<<a>>) = 1 /\ <<a>>[1] = a
    OBVIOUS
  <1> QED  BY <1>1 DEF ReadPiece

LEMMA PieceOfTwo ==
    ASSUME NEW a, NEW b, NEW at, NEW args
    PROVE  ReadPiece(at, <<a, b>>, args) = ReadCharacter(ReadCharacter(at, a, args), b, args)
  <1>1. Len(<<a, b>>) = 2 /\ <<a, b>>[1] = a /\ <<a, b>>[2] = b
    OBVIOUS
  <1> QED  BY <1>1 DEF ReadPiece

LEMMA PieceOfThree ==
    ASSUME NEW a, NEW b, NEW c, NEW at, NEW args
    PROVE  ReadPiece(at, <<a, b, c>>, args)
             = ReadCharacter(ReadCharacter(ReadCharacter(at, a, args), b, args), c, args)
  <1>1. Len(<<a, b, c>>) = 3 /\ <<a, b, c>>[1] = a /\ <<a, b, c>>[2] = b /\ <<a, b, c>>[3] = c
    OBVIOUS
  <1> QED  BY <1>1 DEF ReadPiece

LEMMA PieceRead ==
    ASSUME NEW t \in Seq(Texts), NEW k \in Nat, NEW args, args[k + 1] \in Halves,
           NEW piece \in Pieces
    PROVE  ReadPiece(At(t, << >>, k), piece, args)
             = At(t \o ShownPiece(piece, args[k + 1]), << >>, k + (IF Takes(piece) THEN 1 ELSE 0))
  <1> PICK at : at = At(t, << >>, k)
    OBVIOUS
  <1> PICK x : x = args[k + 1]
    OBVIOUS
  <1>0. k + 0 = k
    OBVIOUS
  <1>1. CASE piece = <<"a">>
    <2>1. ~ Takes(piece) /\ ShownPiece(piece, x) = <<"a">>
      <3>1. piece[1] = "a" /\ "a" # "%" /\ Len(piece) = 1 /\ Len(<<"%", "%">>) = 2
        BY <1>1
      <3> QED  BY <1>1, <3>1 DEF Takes, ShownPiece
    <2>2. ReadPiece(at, piece, args) = At(Append(t, "a"), << >>, k)
      BY <1>1, PieceOfOne, ReadsText
    <2>3. Append(t, "a") = t \o <<"a">>
      <3>1. "a" \in Texts
        BY DEF Texts
      <3> QED  BY <3>1, AppendsText
    <2> QED  BY ONLY <1>0, <2>1, <2>2, <2>3, at = At(t, << >>, k), x = args[k + 1]
  <1>2. CASE piece = <<"\\", "a">>
    <2>1. ~ Takes(piece) /\ ShownPiece(piece, x) = <<"\\", "a">>
      <3>1. piece[1] = "\\" /\ "\\" # "%" /\ <<"%", "%">>[1] = "%"
        BY <1>2
      <3> QED  BY <1>2, <3>1 DEF Takes, ShownPiece
    <2>2. ReadPiece(at, piece, args) = At(t \o <<"\\", "a">>, << >>, k)
      BY <1>2, PieceOfTwo, ReadsText, ReadsEscape
    <2> QED  BY ONLY <1>0, <2>1, <2>2, at = At(t, << >>, k), x = args[k + 1]
  <1>3. CASE piece = <<"%", "%">>
    <2>1. ~ Takes(piece) /\ ShownPiece(piece, x) = <<"%">>
      BY <1>3 DEF Takes, ShownPiece
    <2>2. ReadPiece(at, piece, args) = ReadCharacter(At(t, <<"%">>, k), "%", args)
      BY <1>3, PieceOfTwo, ReadsText
    <2>3. ReadCharacter(At(t, <<"%">>, k), "%", args) = At(Append(t, "%"), << >>, k)
      <3> PICK p : p = <<"%">>
        OBVIOUS
      <3> PICK q : q = <<"%", "%">>
        OBVIOUS
      <3>1. <<"%">> # << >> /\ <<"%", "%">> = Append(<<"%">>, "%") /\ Head(<<"%", "%">>) = "%"
        BY ONLY ShortSequences
      <3>2. IsDirective(p, "%", q)
        BY ONLY <3>1, p = <<"%">>, q = <<"%", "%">> DEF IsDirective
      <3>3. ReadCharacter(At(t, p, k), "%", args) = At(Append(t, "%"), << >>, k)
        BY ONLY <3>2, ReadsPercent, k \in Nat
      <3> QED  BY ONLY <3>3, p = <<"%">>
    <2>4. Append(t, "%") = t \o <<"%">>
      <3>1. "%" \in Texts
        BY DEF Texts
      <3> QED  BY <3>1, AppendsText
    <2> QED  BY ONLY <1>0, <2>1, <2>2, <2>3, <2>4, at = At(t, << >>, k), x = args[k + 1]
  <1>4. ASSUME NEW c \in {"c", "d"}, piece = <<"%", c>>
        PROVE  ReadPiece(at, piece, args) = At(t \o ShownPiece(piece, x), << >>, k + 1) /\ Takes(piece)
    <2>1. ReadPiece(at, piece, args) = ReadCharacter(At(t, <<"%">>, k), c, args)
      BY <1>4, PieceOfTwo, ReadsText
    <2>2. <<"%">> # << >> /\ piece = Append(<<"%">>, c) /\ Head(piece) = "%"
      BY ONLY <1>4, ShortSequences
    <2>3. piece[1] = "%" /\ piece[2] = c /\ Len(piece) = 2 /\ DOMAIN piece = 1 .. 2
      BY ONLY <1>4
    <2>4. piece # <<"%", "%">> /\ Last(piece) = c
      <3>1. <<"%", "%">>[2] = "%" /\ c # "%"
        OBVIOUS
      <3> QED  BY <2>3, <3>1 DEF Last
    <2>5. (\E i \in DOMAIN piece : piece[i] = "l") <=> piece = <<"%", "l", "d">>
      <3>1. Len(<<"%", "l", "d">>) = 3 /\ "%" # "l" /\ c # "l"
        OBVIOUS
      <3>2. \A i \in 1 .. 2 : i = 1 \/ i = 2
        OBVIOUS
      <3> QED  BY ONLY <2>3, <3>1, <3>2
    <2>6. ReadCharacter(At(t, <<"%">>, k), c, args) = At(t \o ShownPiece(piece, x), << >>, k + 1)
      <3>1. c \in {"c", "d", "s"}
        OBVIOUS
      <3> PICK p : p = <<"%">>
        OBVIOUS
      <3>2. IsDirective(p, c, piece)
        BY ONLY <2>2, p = <<"%">> DEF IsDirective
      <3>3. EndsIn(piece, c)
        BY ONLY <2>3, <2>4, <2>5 DEF EndsIn
      <3>4. ReadCharacter(At(t, p, k), c, args) = At(t \o ShownPiece(piece, x), << >>, k + 1)
        BY ONLY <3>1, <3>2, <3>3, DirectiveRead, k \in Nat, t \in Seq(Texts), piece \in Pieces,
                args[k + 1] \in Halves, x = args[k + 1]
      <3> QED  BY ONLY <3>4, p = <<"%">>
    <2> QED  BY <2>1, <2>3, <2>4, <2>6 DEF Takes
  <1>5. ASSUME NEW flag \in {"5", "l"}, NEW c \in {"d", "s"}, flag = "l" => c = "d",
               piece = <<"%", flag, c>>
        PROVE  ReadPiece(at, piece, args) = At(t \o ShownPiece(piece, x), << >>, k + 1) /\ Takes(piece)
    <2>1. ReadPiece(at, piece, args)
            = ReadCharacter(ReadCharacter(At(t, <<"%">>, k), flag, args), c, args)
      BY <1>5, PieceOfThree, ReadsText
    <2>2. ReadCharacter(At(t, <<"%">>, k), flag, args) = At(t, <<"%", flag>>, k)
      <3> PICK p : p = <<"%">>
        OBVIOUS
      <3> PICK q : q = <<"%", flag>>
        OBVIOUS
      <3>1. <<"%">> # << >> /\ <<"%", flag>> = Append(<<"%">>, flag) /\ Head(<<"%", flag>>) = "%"
        BY ONLY ShortSequences
      <3>2. flag \notin Conversions
        BY LettersAreNoConversions
      <3>3. IsDirective(p, flag, q)
        BY ONLY <3>1, p = <<"%">>, q = <<"%", flag>> DEF IsDirective
      <3>4. ReadCharacter(At(t, p, k), flag, args) = At(t, q, k)
        BY ONLY <3>2, <3>3, ReadsFlag, k \in Nat
      <3> QED  BY ONLY <3>4, p = <<"%">>, q = <<"%", flag>>
    <2>3. <<"%", flag>> # << >> /\ piece = Append(<<"%", flag>>, c) /\ Head(piece) = "%"
      BY ONLY <1>5, ShortSequences
    <2>4. piece[1] = "%" /\ piece[2] = flag /\ piece[3] = c /\ Len(piece) = 3 /\ DOMAIN piece = 1 .. 3
      BY ONLY <1>5
    <2>5. piece # <<"%", "%">> /\ Last(piece) = c
      <3>1. Len(<<"%", "%">>) = 2
        OBVIOUS
      <3> QED  BY <2>4, <3>1 DEF Last
    <2>6. (\E i \in DOMAIN piece : piece[i] = "l") <=> piece = <<"%", "l", "d">>
      <3>1. <<"%", "l", "d">>[2] = "l" /\ "%" # "l" /\ c # "l" /\ "5" # "l"
        OBVIOUS
      <3>2. \A i \in 1 .. 3 : i = 1 \/ i = 2 \/ i = 3
        OBVIOUS
      <3>3. 2 \in 1 .. 3
        OBVIOUS
      <3>4. flag = "l" => piece = <<"%", "l", "d">>
        BY ONLY <1>5
      <3> QED  BY ONLY <2>4, <3>1, <3>2, <3>3, <3>4
    <2>7. ReadCharacter(At(t, <<"%", flag>>, k), c, args)
            = At(t \o ShownPiece(piece, x), << >>, k + 1)
      <3>1. c \in {"c", "d", "s"}
        OBVIOUS
      <3> PICK q : q = <<"%", flag>>
        OBVIOUS
      <3>2. IsDirective(q, c, piece)
        BY ONLY <2>3, q = <<"%", flag>> DEF IsDirective
      <3>3. EndsIn(piece, c)
        BY ONLY <2>4, <2>5, <2>6 DEF EndsIn
      <3>4. ReadCharacter(At(t, q, k), c, args) = At(t \o ShownPiece(piece, x), << >>, k + 1)
        BY ONLY <3>1, <3>2, <3>3, DirectiveRead, k \in Nat, t \in Seq(Texts), piece \in Pieces,
                args[k + 1] \in Halves, x = args[k + 1]
      <3> QED  BY ONLY <3>4, q = <<"%", flag>>
    <2> QED  BY <2>1, <2>2, <2>4, <2>5, <2>7 DEF Takes
  <1>6. \/ piece = <<"a">> \/ piece = <<"\\", "a">> \/ piece = <<"%", "%">>
        \/ \E c \in {"c", "d"} : piece = <<"%", c>>
        \/ \E flag \in {"5", "l"}, c \in {"d", "s"} :
              (flag = "l" => c = "d") /\ piece = <<"%", flag, c>>
    BY DEF Pieces
  <1>7. ReadPiece(at, piece, args)
          = At(t \o ShownPiece(piece, x), << >>, k + (IF Takes(piece) THEN 1 ELSE 0))
    BY ONLY <1>1, <1>2, <1>3, <1>4, <1>5, <1>6, at = At(t, << >>, k), x = args[k + 1]
  <1> QED  BY ONLY <1>7, at = At(t, << >>, k), x = args[k + 1]

(* How many of the first i pieces take an argument.                        *)
TakenBy(pieces, i) == Cardinality({k \in 1 .. i : Takes(pieces[k])})

LEMMA TakenCounts ==
    ASSUME NEW pieces
    PROVE  /\ TakenBy(pieces, 0) = 0
           /\ \A i \in Nat : TakenBy(pieces, i) \in 0 .. i
           /\ \A i \in Nat : TakenBy(pieces, i + 1)
                                = TakenBy(pieces, i) + (IF Takes(pieces[i + 1]) THEN 1 ELSE 0)
  <1> DEFINE S(i) == {k \in 1 .. i : Takes(pieces[k])}
  <1>1. \A i : TakenBy(pieces, i) = Cardinality(S(i))
    BY DEF TakenBy
  <1>2. S(0) = {}
    OBVIOUS
  <1>3. ASSUME NEW i \in Nat  PROVE IsFiniteSet(S(i)) /\ Cardinality(S(i)) \in 0 .. i
    <2>1. IsFiniteSet(1 .. i) /\ Cardinality(1 .. i) = i
      <3>1. 1 \in Int /\ i \in Int /\ ~ (1 > i) => i - 1 + 1 = i
        OBVIOUS
      <3>2. 1 > i => i = 0
        OBVIOUS
      <3> QED  BY <3>1, <3>2, FS_Interval
    <2>2. S(i) \subseteq 1 .. i
      OBVIOUS
    <2> HIDE DEF S
    <2>3. IsFiniteSet(S(i)) /\ Cardinality(S(i)) <= i
      BY <2>1, <2>2, FS_Subset
    <2>4. Cardinality(S(i)) \in Nat
      BY <2>3, FS_CardinalityType
    <2> QED  BY <2>3, <2>4
  <1>4. ASSUME NEW i \in Nat
        PROVE  Cardinality(S(i + 1)) = Cardinality(S(i)) + (IF Takes(pieces[i + 1]) THEN 1 ELSE 0)
    <2>1. Cardinality(S(i)) + 0 = Cardinality(S(i)) /\ IsFiniteSet(S(i))
      BY <1>3
    <2>2. \A k : k \in 1 .. i + 1 <=> k \in 1 .. i \/ k = i + 1
      OBVIOUS
    <2>3. CASE Takes(pieces[i + 1])
      <3>1. S(i + 1) = S(i) \cup {i + 1} /\ i + 1 \notin S(i)
        BY <2>2, <2>3
      <3> HIDE DEF S
      <3>2. Cardinality(S(i) \cup {i + 1}) = Cardinality(S(i)) + 1
        BY <2>1, <3>1, FS_AddElement
      <3> QED  BY <2>3, <3>1, <3>2
    <2>4. CASE ~ Takes(pieces[i + 1])
      <3>1. S(i + 1) = S(i)
        BY <2>2, <2>4
      <3> HIDE DEF S
      <3> QED  BY <2>1, <2>4, <3>1
    <2> QED  BY <2>3, <2>4
  <1> HIDE DEF S
  <1>5. TakenBy(pieces, 0) = 0
    BY <1>1, <1>2, FS_EmptySet
  <1>6. \A i \in Nat : TakenBy(pieces, i) \in 0 .. i
    BY <1>1, <1>3
  <1>7. \A i \in Nat : TakenBy(pieces, i + 1)
                          = TakenBy(pieces, i) + (IF Takes(pieces[i + 1]) THEN 1 ELSE 0)
    BY <1>1, <1>4
  <1> QED  BY <1>5, <1>6, <1>7

Letters == {"a", "\\", "%", "c", "d", "5", "l", "s"}

LEMMA PiecesAreShort ==
    ASSUME NEW piece \in Pieces
    PROVE  piece \in Seq(Letters) /\ Len(piece) \in {1, 2, 3}
  <1>1. \A x \in Letters : <<x>> \in Seq(Letters) /\ Len(<<x>>) = 1
    OBVIOUS
  <1>2. \A x, y \in Letters : <<x, y>> \in Seq(Letters) /\ Len(<<x, y>>) = 2
    OBVIOUS
  <1>3. \A x, y, z \in Letters : <<x, y, z>> \in Seq(Letters) /\ Len(<<x, y, z>>) = 3
    OBVIOUS
  <1>4. \/ \E x \in Letters : piece = <<x>>
        \/ \E x, y \in Letters : piece = <<x, y>>
        \/ \E x, y, z \in Letters : piece = <<x, y, z>>
    <2>1. /\ "a" \in Letters /\ "\\" \in Letters /\ "%" \in Letters /\ "c" \in Letters
          /\ "d" \in Letters /\ "5" \in Letters /\ "l" \in Letters /\ "s" \in Letters
      BY DEF Letters
    <2> QED  BY <2>1 DEF Pieces
  <1> QED  BY ONLY <1>1, <1>2, <1>3, <1>4

LEMMA ShownIsText ==
    ASSUME NEW piece \in Pieces, NEW x
    PROVE  /\ Takes(piece) /\ x \in Halves => ShownPiece(piece, x) \in Seq(Texts)
           /\ ~ Takes(piece) => ShownPiece(piece, x) \in Seq(Texts)
                                  /\ \A y : ShownPiece(piece, x) = ShownPiece(piece, y)
  <1>1. CASE Takes(piece)
    <2> SUFFICES ASSUME x \in Halves  PROVE ShownPiece(piece, x) \in Seq(Texts)
      BY <1>1
    <2> PICK y : y = [directive |-> piece,
                      arg |-> IF Last(piece) = "s" \/ piece = <<"%", "l", "d">> THEN x
                              ELSE [x EXCEPT !.high = 0]]
      OBVIOUS
    <2>1. y \in Texts
      BY DirectivesAreText
    <2>2. ShownPiece(piece, x) = <<y>>
      BY <1>1 DEF ShownPiece
    <2> QED  BY <2>1, <2>2, OnlySequence
  <1>2. CASE ~ Takes(piece)
    <2>1. \A y : ShownPiece(piece, y) = IF piece = <<"%", "%">> THEN <<"%">> ELSE piece
      BY <1>2 DEF ShownPiece
    <2>2. "a" \in Texts /\ "\\" \in Texts /\ "%" \in Texts
      BY DEF Texts
    <2>3. piece = <<"a">> \/ piece = <<"\\", "a">> \/ piece = <<"%", "%">>
      <3>1. \A c : <<"%", c>>[1] = "%"
        OBVIOUS
      <3>2. \A c, d : <<"%", c, d>>[1] = "%"
        OBVIOUS
      <3> QED  BY <1>2, <3>1, <3>2 DEF Pieces, Takes
    <2>4. <<"%">> \in Seq(Texts) /\ <<"a">> \in Seq(Texts) /\ <<"\\", "a">> \in Seq(Texts)
      <3>1. \A a, b \in Texts : <<a>> \in Seq(Texts) /\ <<a, b>> \in Seq(Texts)
        OBVIOUS
      <3> QED  BY ONLY <2>2, <3>1
    <2> QED  BY <1>2, <2>1, <2>3, <2>4
  <1> QED  BY <1>1, <1>2

(* A piece that starts behind the first p characters.                      *)
StartsAt(format, p, piece) == \A j \in 1 .. Len(piece) : format[p + j] = piece[j]

LEMMA ReadsPiece ==
    ASSUME NEW st, NEW format, NEW args, NEW n \in Nat, Reads(st, format, args, n),
           NEW piece \in Pieces, NEW p \in Nat, p + Len(piece) <= n, StartsAt(format, p, piece)
    PROVE  st[p + Len(piece)] = ReadPiece(st[p], piece, args)
  <1>1. \A k \in 0 .. n - 1 : st[k + 1] = ReadCharacter(st[k], format[k + 1], args)
    BY DEF Reads
  <1>2. \A j \in 1 .. Len(piece) : format[p + j] = piece[j]
    BY DEF StartsAt
  <1>3. Len(piece) = 1 \/ Len(piece) = 2 \/ Len(piece) = 3
    BY PiecesAreShort
  <1>4. ASSUME Len(piece) >= 1, Len(piece) \in Nat
        PROVE  st[p + 1] = ReadCharacter(st[p], piece[1], args)
    <2>1. p \in 0 .. n - 1 /\ 1 \in 1 .. Len(piece)
      BY <1>4
    <2> QED  BY ONLY <1>1, <1>2, <2>1
  <1>5. ASSUME Len(piece) >= 2, Len(piece) \in Nat
        PROVE  st[p + 2] = ReadCharacter(st[p + 1], piece[2], args)
    <2>1. p + 1 \in 0 .. n - 1 /\ 2 \in 1 .. Len(piece) /\ (p + 1) + 1 = p + 2
      BY <1>5
    <2> QED  BY ONLY <1>1, <1>2, <2>1
  <1>6. ASSUME Len(piece) >= 3, Len(piece) \in Nat
        PROVE  st[p + 3] = ReadCharacter(st[p + 2], piece[3], args)
    <2>1. p + 2 \in 0 .. n - 1 /\ 3 \in 1 .. Len(piece) /\ (p + 2) + 1 = p + 3
      BY <1>6
    <2> QED  BY ONLY <1>1, <1>2, <2>1
  <1>7. CASE Len(piece) = 1
    BY <1>4, <1>7 DEF ReadPiece
  <1>8. CASE Len(piece) = 2
    BY <1>4, <1>5, <1>8 DEF ReadPiece
  <1>9. CASE Len(piece) = 3
    BY <1>4, <1>5, <1>6, <1>9 DEF ReadPiece
  <1> QED  BY <1>3, <1>7, <1>8, <1>9

(* What a format shows, piece by piece.                                    *)
ShownPieces(pieces, args, n) ==
    [i \in 1 .. n |-> ShownPiece(pieces[i], args[TakenBy(pieces, i)])]

HasArguments(args) == \A k \in 1 .. MaxPieces : args[k] \in Halves

LEMMA NextShown ==
    ASSUME NEW n \in 0 .. MaxPieces, NEW pieces \in [1 .. n -> Pieces], NEW args, HasArguments(args),
           NEW i \in 0 .. n - 1, NEW k, k = TakenBy(pieces, i), NEW piece, piece = pieces[i + 1]
    PROVE  /\ i + 1 \in 1 .. n /\ piece \in Pieces /\ k \in Nat /\ args[k + 1] \in Halves
           /\ TakenBy(pieces, i + 1) = k + (IF Takes(piece) THEN 1 ELSE 0)
           /\ ShownPiece(piece, args[TakenBy(pieces, i + 1)]) = ShownPiece(piece, args[k + 1])
           /\ ShownPiece(piece, args[k + 1]) \in Seq(Texts)
  <1>1. i + 1 \in 1 .. n /\ i \in Nat /\ n \in Nat /\ n <= MaxPieces
    BY MaximumAssumption
  <1>2. piece \in Pieces
    BY <1>1
  <1>3. k \in 0 .. i
    BY <1>1, TakenCounts
  <1>4. k \in Nat /\ k + 1 \in 1 .. MaxPieces
    BY <1>1, <1>3, MaximumAssumption
  <1>5. args[k + 1] \in Halves
    BY <1>4 DEF HasArguments
  <1>6. TakenBy(pieces, i + 1) = k + (IF Takes(piece) THEN 1 ELSE 0)
    BY <1>1, TakenCounts
  <1>7. ShownPiece(piece, args[k + 1]) \in Seq(Texts)
    BY <1>2, <1>5, ShownIsText
  <1>8. ShownPiece(piece, args[TakenBy(pieces, i + 1)]) = ShownPiece(piece, args[k + 1])
    <2>1. CASE Takes(piece)
      BY <1>6, <2>1
    <2>2. CASE ~ Takes(piece)
      BY <1>2, <2>2, ShownIsText
    <2> QED  BY <2>1, <2>2
  <1> QED  BY <1>1, <1>2, <1>4, <1>5, <1>6, <1>7, <1>8

LEMMA PiecesAreExpanded ==
    ASSUME NEW n \in 0 .. MaxPieces, NEW pieces \in [1 .. n -> Pieces], NEW args, HasArguments(args)
    PROVE  Expand(FlattenSeq(pieces), args) = FlattenSeq(ShownPieces(pieces, args, n))
  <1> PICK shown : shown = ShownPieces(pieces, args, n)
    OBVIOUS
  <1>1. n \in Nat /\ n \in 0 .. n
    BY MaximumAssumption
  <1>2. \A i \in 0 .. n - 1 : i + 1 \in 1 .. n
    BY <1>1
  <1>3. \A i \in 1 .. n : shown[i] = ShownPiece(pieces[i], args[TakenBy(pieces, i)])
    BY DEF ShownPieces
  <1>4. ASSUME NEW i \in 0 .. n - 1
        PROVE  LET piece == pieces[i + 1]
                   k == TakenBy(pieces, i)
               IN  /\ piece \in Pieces /\ k \in Nat /\ args[k + 1] \in Halves
                   /\ TakenBy(pieces, i + 1) = k + (IF Takes(piece) THEN 1 ELSE 0)
                   /\ shown[i + 1] = ShownPiece(piece, args[k + 1])
                   /\ shown[i + 1] \in Seq(Texts)
    <2> PICK k : k = TakenBy(pieces, i)
      OBVIOUS
    <2> PICK piece : piece = pieces[i + 1]
      OBVIOUS
    <2>1. /\ i + 1 \in 1 .. n /\ piece \in Pieces /\ k \in Nat /\ args[k + 1] \in Halves
          /\ TakenBy(pieces, i + 1) = k + (IF Takes(piece) THEN 1 ELSE 0)
          /\ ShownPiece(piece, args[TakenBy(pieces, i + 1)]) = ShownPiece(piece, args[k + 1])
          /\ ShownPiece(piece, args[k + 1]) \in Seq(Texts)
      BY ONLY NextShown, n \in 0 .. MaxPieces, pieces \in [1 .. n -> Pieces], HasArguments(args),
              i \in 0 .. n - 1, k = TakenBy(pieces, i), piece = pieces[i + 1]
    <2>2. shown[i + 1] = ShownPiece(piece, args[TakenBy(pieces, i + 1)])
      BY <1>3, <2>1
    <2> QED  BY <2>1, <2>2
  <1>5. pieces \in [1 .. n -> Seq(Letters)]
    BY PiecesAreShort
  <1>6. shown \in [1 .. n -> Seq(Texts)]
    <2>1. \A i \in 1 .. n : shown[i] \in Seq(Texts)
      <3> TAKE i \in 1 .. n
      <3>1. i - 1 \in 0 .. n - 1 /\ (i - 1) + 1 = i
        BY <1>1
      <3> QED  BY <1>4, <3>1
    <2>2. shown = [i \in 1 .. n |-> shown[i]]
      BY DEF ShownPieces
    <2> QED  BY <2>1, <2>2
  <1> PICK format : format = FlattenSeq(pieces)
    OBVIOUS
  <1>7. PICK laid : Laid(laid, Letters, pieces, n) /\ format = laid[n]
    BY <1>1, <1>5, FlattenMeaning
  <1>8. PICK out : Laid(out, Texts, shown, n) /\ FlattenSeq(shown) = out[n]
    BY <1>1, <1>6, FlattenMeaning
  <1>9. /\ laid[0] = << >> /\ \A i \in 0 .. n : laid[i] \in Seq(Letters)
        /\ \A i \in 0 .. n - 1 : laid[i + 1] = laid[i] \o pieces[i + 1]
    BY <1>7 DEF Laid
  <1>10. /\ out[0] = << >> /\ \A i \in 0 .. n : out[i] \in Seq(Texts)
         /\ \A i \in 0 .. n - 1 : out[i + 1] = out[i] \o shown[i + 1]
    BY <1>8 DEF Laid
  <1> PICK length : length = Len(format)
    OBVIOUS
  <1>11. length \in Nat /\ DOMAIN format = 1 .. length
    <2>1. format \in Seq(Letters)
      BY <1>1, <1>7, <1>9
    <2> QED  BY <2>1, LenProperties
  <1>12. PICK st : Reads(st, format, args, length) /\ Expand(format, args) = st[length].text
    BY <1>11, FormatMeaning
  <1> DEFINE T == {i \in 0 .. n : st[Len(laid[i])] # At(out[i], << >>, TakenBy(pieces, i))}
  <1>13. T = {}
    <2> SUFFICES ASSUME T # {}  PROVE FALSE
      OBVIOUS
    <2>1. PICK m \in T : \A k \in T : m <= k
      <3>1. T \in SUBSET Nat
        BY <1>1
      <3> HIDE DEF T
      <3> QED  BY <3>1, LeastNumber
    <2>2. m # 0
      <3>1. st[0] = At(<< >>, << >>, 0)
        BY <1>12 DEF Reads
      <3>2. Len(laid[0]) = 0 /\ TakenBy(pieces, 0) = 0
        BY <1>9, TakenCounts
      <3> QED  BY <1>10, <2>1, <3>1, <3>2
    <2> PICK i : i = m - 1
      OBVIOUS
    <2>3. m = i + 1 /\ i \in 0 .. n - 1 /\ i \in 0 .. n /\ i \notin T /\ m \in 0 .. n
      <3>1. m \in 0 .. n
        BY <2>1
      <3>2. m = i + 1 /\ i \in 0 .. n - 1 /\ i \in 0 .. n /\ ~ (m <= i)
        BY ONLY <1>1, <2>2, <3>1, i = m - 1
      <3> HIDE DEF T
      <3> QED  BY <2>1, <3>1, <3>2
    <2> PICK k : k = TakenBy(pieces, i)
      OBVIOUS
    <2> PICK piece : piece = pieces[i + 1]
      OBVIOUS
    <2> PICK s : s = laid[i]
      OBVIOUS
    <2> PICK t : t = out[i]
      OBVIOUS
    <2> PICK p : p = Len(s)
      OBVIOUS
    <2>4. st[p] = At(t, << >>, k)
      BY <2>3
    <2>5. /\ piece \in Pieces /\ k \in Nat /\ args[k + 1] \in Halves
          /\ TakenBy(pieces, m) = k + (IF Takes(piece) THEN 1 ELSE 0)
          /\ shown[m] = ShownPiece(piece, args[k + 1])
      BY <1>4, <2>3
    <2>6. s \in Seq(Letters) /\ piece \in Seq(Letters) /\ t \in Seq(Texts)
      BY <1>9, <1>10, <2>3, <2>5, PiecesAreShort
    <2> PICK u : u = laid[m]
      OBVIOUS
    <2>7. u = s \o piece /\ out[m] = t \o shown[m]
      BY ONLY <1>9, <1>10, <2>3, u = laid[m], s = laid[i], t = out[i], piece = pieces[i + 1]
    <2>8. /\ Len(u) = p + Len(piece) /\ p \in Nat /\ Len(piece) \in Nat
          /\ \A j \in 1 .. Len(piece) : u[p + j] = piece[j]
      <3>1. /\ Len(s \o piece) = Len(s) + Len(piece) /\ Len(s) \in Nat /\ Len(piece) \in Nat
            /\ \A j \in 1 .. Len(piece) : (s \o piece)[Len(s) + j] = piece[j]
        BY ONLY <2>6, Concatenated
      <3> QED  BY ONLY <2>7, <3>1, p = Len(s)
    <2>9. Len(u) <= length /\ \A q \in 1 .. Len(u) : format[q] = u[q]
      <3>1. IsFront(u, format)
        <4>1. \A j \in 0 .. n : IsFront(laid[j], laid[n])
          BY ONLY <1>1, <1>5, <1>7, LaidIsFront
        <4> QED  BY ONLY <4>1, <1>7, <2>3, u = laid[m]
      <3> QED  BY <3>1 DEF IsFront
    <2>10. StartsAt(format, p, piece)
      <3>1. \A j \in 1 .. Len(piece) : p + j \in 1 .. Len(u)
        BY ONLY <2>8
      <3>2. \A j \in 1 .. Len(piece) : format[p + j] = piece[j]
        BY ONLY <2>8, <2>9, <3>1
      <3> QED  BY ONLY <3>2 DEF StartsAt
    <2>11. st[p + Len(piece)] = ReadPiece(st[p], piece, args)
      <3>1. p + Len(piece) <= length
        BY ONLY <2>8, <2>9
      <3>2. Reads(st, format, args, length)
        BY <1>12
      <3> QED  BY ONLY <1>11, <2>5, <2>8, <2>10, <3>1, <3>2, ReadsPiece
    <2>12. ReadPiece(At(t, << >>, k), piece, args)
             = At(t \o ShownPiece(piece, args[k + 1]), << >>, k + (IF Takes(piece) THEN 1 ELSE 0))
      BY ONLY <2>5, <2>6, PieceRead
    <2>13. st[Len(laid[m])] = At(out[m], << >>, TakenBy(pieces, m))
      BY ONLY <2>4, <2>5, <2>7, <2>8, <2>11, <2>12, u = laid[m]
    <2> QED  BY <2>1, <2>13
  <1>14. st[length] = At(out[n], << >>, TakenBy(pieces, n))
    <2>1. st[Len(laid[n])] = At(out[n], << >>, TakenBy(pieces, n))
      BY <1>1, <1>13
    <2> QED  BY <1>7, <2>1
  <1>15. st[length].text = out[n]
    BY <1>14 DEF At
  <1> QED  BY <1>8, <1>12, <1>15

(* What the three functions hand to sprintf.                               *)
Handed(S, Args, format) ==
    /\ Args \in Seq(S) /\ Len(Args) = MaxPieces + 2
    /\ Args[2] = format
    /\ \A k \in 1 .. MaxPieces : Args[2 + k] = Arguments[k]

(* A text made of a format and the arguments, whatever stands behind them. *)
Expands(text, format) ==
    \E args : /\ text = Expand(format, args)
              /\ \A k \in 1 .. MaxPieces : args[k] = Arguments[k]

LEMMA SprintfExpands ==
    ASSUME NEW S, NEW Args, NEW format, Handed(S, Args, format)
    PROVE  Expands(lle_X_sprintf(Args).text, format)
  <1>1. /\ Args \in Seq(S) /\ Len(Args) = MaxPieces + 2
        /\ Args[2] = format
        /\ \A k \in 1 .. MaxPieces : Args[2 + k] = Arguments[k]
    BY DEF Handed
  <1> PICK length : length = Len(Args)
    OBVIOUS
  <1> PICK args : args = SubSeq(Args, 3, length)
    OBVIOUS
  <1>2. length \in Int /\ 3 \in Int /\ length - 3 + 1 = MaxPieces /\ MaxPieces \in Nat
    BY <1>1, MaximumAssumption
  <1>3. \A i \in 3 .. length : Args[i] \in S
    <2>1. \A i \in 1 .. length : Args[i] \in S
      BY <1>1, ElementOfSeq
    <2> QED  BY ONLY <1>2, <2>1
  <1>4. \A i \in 1 .. length - 3 + 1 : args[i] = Args[3 + i - 1]
    BY ONLY <1>2, <1>3, SubSeqProperties, args = SubSeq(Args, 3, length)
  <1>5. \A k \in 1 .. MaxPieces : args[k] = Arguments[k]
    <2> TAKE k \in 1 .. MaxPieces
    <2>1. 3 + k - 1 = 2 + k /\ k \in 1 .. length - 3 + 1
      BY ONLY <1>2, k \in 1 .. MaxPieces
    <2>2. args[k] = Args[3 + k - 1]
      BY ONLY <1>4, <2>1
    <2> QED  BY <1>1, <2>1, <2>2
  <1>6. lle_X_sprintf(Args).text = Expand(format, args)
    BY <1>1 DEF lle_X_sprintf
  <1> QED  BY <1>5, <1>6 DEF Expands

LEMMA ArgumentsAreHalves ==
    /\ Arguments \in Seq(Halves) /\ Len(Arguments) = MaxPieces
    /\ \A k \in 1 .. MaxPieces : Arguments[k] \in Halves
  <1>1. \A k \in 1 .. MaxPieces : Arguments[k] \in Halves
    <2> TAKE k \in 1 .. MaxPieces
    <2>1. k \in Nat /\ k + 10 \in Nat
      BY MaximumAssumption
    <2> QED  BY <2>1 DEF Arguments, Halves
  <1>2. Arguments \in [1 .. MaxPieces -> Halves]
    <2>1. Arguments = [i \in 1 .. MaxPieces |-> Arguments[i]]
      BY DEF Arguments
    <2> QED  BY <1>1, <2>1
  <1>3. Arguments \in Seq(Halves) /\ Len(Arguments) = MaxPieces
    BY <1>2, MaximumAssumption, VectorIsSequence
  <1> QED  BY <1>1, <1>3

(* The strings in front of the arguments and the format between them.      *)
Words(format) == {"Output", "Buffer", "File", format} \cup Halves

LEMMA TwoInFront ==
    ASSUME NEW format, NEW x \in Words(format)
    PROVE  Handed(Words(format), <<x, format>> \o Arguments, format)
  <1> PICK S : S = Words(format)
    OBVIOUS
  <1> PICK a : a = Arguments
    OBVIOUS
  <1> PICK front : front = <<x, format>>
    OBVIOUS
  <1>1. x \in S /\ format \in S /\ Halves \subseteq S
    BY DEF Words
  <1>2. front \in Seq(S) /\ Len(front) = 2 /\ front[2] = format
    BY ONLY <1>1, front = <<x, format>>
  <1>3. a \in Seq(Halves) /\ Len(a) = MaxPieces /\ MaxPieces \in Nat
    BY ArgumentsAreHalves, MaximumAssumption
  <1>4. a \in Seq(S)
    BY ONLY <1>1, <1>3
  <1> PICK all : all = front \o a
    OBVIOUS
  <1>5. /\ all \in Seq(S) /\ Len(all) = 2 + MaxPieces
        /\ \A i \in 1 .. 2 : all[i] = front[i]
        /\ \A i \in 1 .. MaxPieces : all[2 + i] = a[i]
    <2>1. /\ all \in Seq(S) /\ Len(all) = Len(front) + Len(a)
          /\ \A i \in 1 .. Len(front) : all[i] = front[i]
          /\ \A i \in 1 .. Len(a) : all[Len(front) + i] = a[i]
      <3>1. /\ front \o a \in Seq(S) /\ Len(front \o a) = Len(front) + Len(a)
            /\ \A i \in 1 .. Len(front) : (front \o a)[i] = front[i]
            /\ \A i \in 1 .. Len(a) : (front \o a)[Len(front) + i] = a[i]
        <4>1. front \in Seq(S) /\ a \in Seq(S)
          BY <1>2, <1>4
        <4> QED  BY ONLY <4>1, Concatenated
      <3> QED  BY ONLY <3>1, all = front \o a
    <2> QED  BY ONLY <1>2, <1>3, <2>1
  <1>6. all[2] = format /\ Len(all) = MaxPieces + 2
    BY ONLY <1>2, <1>3, <1>5
  <1> QED  BY <1>5, <1>6 DEF Handed

(* Taking two elements one by one, or off again.                           *)
Regroups(x, y, a) ==
    /\ <<x>> \o (<<y>> \o a) = <<x, y>> \o a
    /\ Tail(<<x, y>> \o a) = <<y>> \o a

LEMMA Reassociate ==
    ASSUME NEW x, NEW y, NEW S, NEW a \in Seq(S)
    PROVE  Regroups(x, y, a)
  <1> DEFINE R == S \cup {x, y}
  <1>1. a \in Seq(R) /\ <<x>> \in Seq(R) /\ <<y>> \in Seq(R) /\ <<x, y>> \in Seq(R)
    OBVIOUS
  <1> HIDE DEF R
  <1>2. <<x>> \o <<y>> = <<x, y>>
    <2>1. Append(<<x>>, y) = <<x>> \o <<y>>
      BY <1>1, AppendIsConcat
    <2>2. Append(<<x>>, y) = <<x, y>>
      BY AppendToOne
    <2> QED  BY <2>1, <2>2
  <1>3. <<x>> \o (<<y>> \o a) = (<<x>> \o <<y>>) \o a
    BY <1>1, ConcatAssociative
  <1>4. Tail(<<x>> \o (<<y>> \o a)) = <<y>> \o a
    <2>1. <<y>> \o a \in Seq(R)
      BY <1>1, ConcatProperties
    <2> QED  BY <1>1, <2>1
  <1> QED  BY <1>2, <1>3, <1>4 DEF Regroups

LEMMA PrintfExpands ==
    ASSUME NEW format, NEW callee \in {"sprintf", "printf", "fprintf"}
    PROVE  Expands(PrintfOf(callee, format).text, format)
  <1> PICK S : S = Words(format)
    OBVIOUS
  <1>1. "Output" \in S /\ "Buffer" \in S /\ "File" \in S
    BY DEF Words
  <1>2. \A x \in S : Handed(S, <<x, format>> \o Arguments, format)
    BY TwoInFront
  <1>3. \A x \in S : Expands(lle_X_sprintf(<<x, format>> \o Arguments).text, format)
    BY <1>2, SprintfExpands
  <1>4. \A x, y : Regroups(x, y, Arguments)
    BY ArgumentsAreHalves, Reassociate
  <1>5. CASE callee = "sprintf"
    BY <1>1, <1>3, <1>5 DEF PrintfOf
  <1>6. CASE callee = "printf"
    <2>1. PrintfOf(callee, format) = lle_X_sprintf(<<"Buffer">> \o (<<format>> \o Arguments))
      BY <1>6 DEF PrintfOf, lle_X_printf
    <2>2. <<"Buffer">> \o (<<format>> \o Arguments) = <<"Buffer", format>> \o Arguments
      BY <1>4 DEF Regroups
    <2> QED  BY <1>1, <1>3, <2>1, <2>2
  <1>7. CASE callee = "fprintf"
    <2>1. PrintfOf(callee, format)
            = lle_X_sprintf(<<"Buffer">> \o Tail(<<"File", format>> \o Arguments))
      BY <1>7 DEF PrintfOf, lle_X_fprintf
    <2>2. /\ Tail(<<"File", format>> \o Arguments) = <<format>> \o Arguments
          /\ <<"Buffer">> \o (<<format>> \o Arguments) = <<"Buffer", format>> \o Arguments
      BY <1>4 DEF Regroups
    <2> QED  BY <1>1, <1>3, <2>1, <2>2
  <1> QED  BY <1>5, <1>6, <1>7

(* The outputs of the property, with the operators of this proof.          *)
LEMMA OutputsAreShown ==
    ASSUME NEW n \in 0 .. MaxPieces, NEW pieces \in [1 .. n -> Pieces], NEW args,
           \A k \in 1 .. MaxPieces : args[k] = Arguments[k]
    PROVE  \A i \in 1 .. n : ShownPiece(pieces[i], args[TakenBy(pieces, i)])
                               = ShownPiece(pieces[i], Arguments[TakenBy(pieces, i)])
  <1> SUFFICES ASSUME NEW i \in 1 .. n
               PROVE  ShownPiece(pieces[i], args[TakenBy(pieces, i)])
                        = ShownPiece(pieces[i], Arguments[TakenBy(pieces, i)])
    OBVIOUS
  <1> PICK piece : piece = pieces[i]
    OBVIOUS
  <1> PICK k : k = TakenBy(pieces, i)
    OBVIOUS
  <1>1. piece \in Pieces
    OBVIOUS
  <1>2. CASE Takes(piece)
    <2> PICK j : j = i - 1
      OBVIOUS
    <2>1. j \in Nat /\ i = j + 1 /\ i <= MaxPieces /\ i \in Nat
      BY ONLY MaximumAssumption, n \in 0 .. MaxPieces, i \in 1 .. n, j = i - 1
    <2> PICK m : m = TakenBy(pieces, j)
      OBVIOUS
    <2>2. m \in 0 .. j /\ k = m + 1
      <3>1. TakenBy(pieces, j) \in 0 .. j
        BY <2>1, TakenCounts
      <3>2. TakenBy(pieces, j + 1) = TakenBy(pieces, j) + (IF Takes(pieces[j + 1]) THEN 1 ELSE 0)
        BY <2>1, TakenCounts
      <3> QED  BY <1>2, <2>1, <3>1, <3>2
    <2>3. k \in 1 .. MaxPieces
      BY ONLY <2>1, <2>2, MaximumAssumption
    <2> QED  BY <2>3
  <1>3. CASE ~ Takes(piece)
    BY <1>1, <1>3, ShownIsText
  <1> QED  BY <1>2, <1>3

LEMMA FormatsOfState == ExecutionInv => FormatsAreExpanded
  <1> SUFFICES ASSUME ExecutionInv, Visited("Printf")
               PROVE  FormatsAreExpanded
    BY DEF FormatsAreExpanded
  <1> PICK pieces : pieces = instruction.pieces
    OBVIOUS
  <1> PICK format : format = FlattenSeq(pieces)
    OBVIOUS
  <1>1. instruction \in Formats
    BY Kinds
  <1>2. PICK n \in 0 .. MaxPieces : pieces \in [1 .. n -> Pieces]
    <2>1. pieces \in BoundedSeq(Pieces, MaxPieces)
      BY <1>1 DEF Formats
    <2> QED  BY <2>1 DEF BoundedSeq, SeqOf
  <1>3. result = PrintfOf(instruction.callee, format)
    BY DEF ExecutionInv, ComputedByCalls
  <1>4. instruction.callee \in {"sprintf", "printf", "fprintf"}
    BY <1>1 DEF Formats
  <1>5. Expands(result.text, format)
    BY <1>3, <1>4, PrintfExpands
  <1>6. PICK args : /\ result.text = Expand(format, args)
                    /\ \A k \in 1 .. MaxPieces : args[k] = Arguments[k]
    BY <1>5 DEF Expands
  <1>7. HasArguments(args)
    BY <1>6, ArgumentsAreHalves DEF HasArguments
  <1>8. result.text = FlattenSeq(ShownPieces(pieces, args, n))
    BY <1>2, <1>6, <1>7, PiecesAreExpanded
  <1>9. ShownPieces(pieces, args, n) = ShownPieces(pieces, Arguments, n)
    BY <1>2, <1>6, OutputsAreShown DEF ShownPieces
  <1>10. DOMAIN pieces = 1 .. n
    BY <1>2
  <1>11. result.text = FlattenSeq([i \in DOMAIN pieces |->
                           ShownPiece(pieces[i], Arguments[TakenBy(pieces, i)])])
    BY <1>8, <1>9, <1>10 DEF ShownPieces
  <1> QED  BY <1>11 DEF FormatsAreExpanded, ShownPiece, TakenBy, Takes

(* sprintf, printf and fprintf expand a format of any number of pieces     *)
(* piece by piece, each directive with the next argument (lle_X_sprintf).  *)
THEOREM FormatsAreShown == Spec => []FormatsAreExpanded
  BY ResultsAreComputed, FormatsOfState, PTL
=============================================================================
