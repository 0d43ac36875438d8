----------------------------- MODULE Execution -----------------------------
(***************************************************************************)
(* The interpreter executes one instruction, of any kind and with any      *)
(* operands, by the visit function of its kind; its result is then         *)
(* compared with what a reader of LLVM's language would expect. A vector   *)
(* has two lanes. Operands that LLVM leaves undefined are left out: a      *)
(* division by zero, and a shift of an odd width by too much.              *)
(***************************************************************************)
EXTENDS Instructions, ExternalFunctions

CONSTANTS
    NULL,
    OperatorWidths, \* widths of compared, shifted and other operands
    Offsets,        \* places of fields
    Sizes,          \* sizes of elements
    MaxQuarters,    \* of a float that is cast
    MaxBits,        \* of a vector that is cast
    MaxPieces       \* of a format

ASSUME OperandAssumption == OperatorWidths \subseteq Widths /\ Offsets \cup Sizes \subseteq Nat
ASSUME MaximumAssumption == {MaxQuarters, MaxBits, MaxPieces} \subseteq Nat

VARIABLES
    instruction,    \* what is executed
    result          \* the value the visit function sets

vars == <<instruction, result>>

FloatPairs == Vectors(Floats \cup {NaN}, 2)

IsPowerOf2(w) == NextPowerOf2(w - 1) = w

FCmps == [visit : {"FCmp"}, predicate : Range(FCmpPredicates), a : FloatPairs, b : FloatPairs]

OfTwoIntegers(visit, ops) ==
    UNION {[visit : {visit}, op : ops, width : {w}, x : Ints(w), y : Ints(w)] : w \in OperatorWidths}

(* A vector compares its operands with each other: the pair x, y with the  *)
(* pair y, x.                                                              *)
Compares(type, widths) ==
    UNION {[visit : {"ICmp"}, vector : BOOLEAN, type : {type}, op : ICmpOps, width : {w},
            x : Ints(w), y : Ints(w)] : w \in widths}

ICmps == Compares("integer", OperatorWidths) \cup Compares("pointer", {PointerBits})

Binaries == {i \in OfTwoIntegers("BinaryOperator", BinaryOps) : i.op \in DivisionOps => i.y # 0}

Shifts == {i \in OfTwoIntegers("Shift", ShiftOps) : i.y < i.width \/ IsPowerOf2(i.width)}

FloatKinds == {FloatDigits, DoubleDigits}

(* The widths or digits of operand and result of each kind of cast.        *)
CastTypes(op) ==
    CASE op = "Trunc" -> {ws \in Widths \X Widths : ws[1] >= ws[2]}
      [] op \in {"ZExt", "SExt"} -> {ws \in Widths \X Widths : ws[1] <= ws[2]}
      [] op = "PtrToInt" -> {PointerBits} \X Widths
      [] op = "IntToPtr" -> Widths \X {PointerBits}
      [] op \in {"UIToFP", "SIToFP"} -> Widths \X FloatKinds
      [] op \in {"FPToUI", "FPToSI"} -> FloatKinds \X Widths
      [] op = "FPTrunc" -> {<<DoubleDigits, FloatDigits>>}
      [] op = "FPExt" -> {<<FloatDigits, DoubleDigits>>}

FloatsWith(digits) == {q \in - MaxQuarters .. MaxQuarters : IsFloat(q, digits)}

(* A float that is cast to an integer is one the integer can hold.         *)
CastOperands(op, from, to) ==
    CASE op \in IntegerCastOps \cup {"UIToFP", "SIToFP"} -> Ints(from)
      [] op = "FPToUI" -> {q \in FloatsWith(from) : Quotient(q, 4) \in Ints(to)}
      [] op = "FPToSI" -> {q \in FloatsWith(from) :
                             Quotient(q, 4) \in - Pow2[to - 1] .. Pow2[to - 1] - 1}
      [] op \in {"FPTrunc", "FPExt"} -> FloatsWith(from)

Casts ==
    UNION {UNION {[visit : {"Cast"}, op : {op}, from : {ws[1]}, to : {ws[2]},
                   x : CastOperands(op, ws[1], ws[2])] : ws \in CastTypes(op)} : op \in CastOps}

Element(size, width, value) == [kind |-> "element", size |-> size, width |-> width, value |-> value]

Field(offset) == [kind |-> "field", offset |-> offset]

(* A field, then an element of an array in it, with a short index.         *)
GEPs ==
    [visit : {"GetElementPtr"}, pointer : Ints(PointerBits),
     path : {<<Field(offset), Element(size, IndexBits, i)>> :
               offset \in Offsets, size \in Sizes, i \in Ints(IndexBits)}]

(* What C's offsetof and differences and sums of addresses become: an      *)
(* expression of constants that itself has expressions as operands.        *)
ConstantExprs ==
    {i \in [visit : {"ConstantExpr"}, form : {"difference", "distance", "sum"},
            pointer : Ints(PointerBits), offset : Offsets, size : Sizes, index : Ints(IndexBits),
            width : Widths] :
        IF i.form = "sum" THEN i.width >= PointerBits ELSE i.width <= PointerBits}

(* Element widths that divide each other.                                  *)
BitCastShapes ==
    {shape \in (1 .. MaxBits) \X Widths \X Widths :
        /\ shape[1] * shape[2] <= MaxBits
        /\ (shape[1] * shape[2]) % shape[3] = 0
        /\ shape[2] % shape[3] = 0 \/ shape[3] % shape[2] = 0}

BitCasts ==
    UNION {[visit : {"BitCast"}, little : BOOLEAN, from : {shape[2]}, to : {shape[3]},
            src : Vectors(Ints(shape[2]), shape[1])] : shape \in BitCastShapes}

Pairs == Vectors({5, 6}, 2)

Moves ==
    [visit : {"ShuffleVector"}, a : Pairs, b : Pairs, mask : Vectors(0 .. 3, 2)]
        \cup [visit : {"Select"}, a : Pairs, b : Pairs, conditions : Vectors(0 .. 1, 2)]
        \cup [visit : {"InsertElement"}, a : Pairs, index : 0 .. 1]
        \cup [visit : {"InsertValue"}, a : Pairs, b : Pairs, path : (0 .. 1) \X (0 .. 1)]

Phis == [node : Registers, incoming : [Blocks -> Registers]]

(* Terminators that go to a block with two PHI nodes, or to one without    *)
(* any. TRUE stands for the first one. A switch has two cases, the second  *)
(* one like its default.                                                   *)
Jumps ==
    {i \in [visit : {"Branch", "Switch", "IndirectBr"}, p : Phis, q : Phis, previous : Blocks,
            conditional : BOOLEAN, condition : 0 .. 2] : i.p.node # i.q.node}

Cases == <<[value |-> 1, target |-> TRUE], [value |-> 2, target |-> FALSE]>>

Undef == [form |-> "undef"]

Number(x) == [form |-> "number", value |-> x]

(* An operand that is no register. Vectors of pointers have no constant    *)
(* but undef.                                                              *)
Operands ==
    [visit : {"Operand"}, type : Types, constant : {Undef}]
        \cup [visit : {"Operand"}, type : ScalarTypes, constant : {Number(5)}]
        \cup [visit : {"Operand"}, type : {t \in VectorTypes : t.of.kind # "pointer"},
              constant : {[form |-> "zero"]}
                  \cup [form : {"elements"}, elements : Vectors({Undef, Number(5)}, 2)]]

NativeTypes ==
    {NativeType("int", bits) : bits \in {1, 8, 16, 24, 32, 64, 128}}
        \cup {NativeType("float", 32), NativeType("double", 64), NativeType("pointer", 64)}

NativeCalls == [visit : {"ffiInvoke"}, types : Vectors(NativeTypes, 3)]

(* What a format is put together from.                                     *)
Pieces ==
    {<<"a">>, <<"\\", "a">>, <<"%", "%">>, <<"%", "c">>, <<"%", "d">>, <<"%", "5", "d">>,
     <<"%", "l", "d">>, <<"%", "5", "s">>}

Formats ==
    [visit : {"Printf"}, callee : {"sprintf", "printf", "fprintf"},
     pieces : BoundedSeq(Pieces, MaxPieces)]

(* Registers with values that are all different.                           *)
Frame == CHOOSE values \in [Registers -> 1 .. Cardinality(Registers)] : IsInjective(values)

Init ==
    /\ instruction \in FCmps \cup ICmps \cup Binaries \cup Shifts \cup Casts \cup GEPs
                         \cup ConstantExprs \cup BitCasts \cup Moves \cup Jumps
                         \cup Operands \cup NativeCalls \cup Formats
    /\ result = NULL

Visited(kind) == instruction.visit = kind /\ result # NULL

Visit(kind, value) ==
    /\ instruction.visit = kind
    /\ result = NULL
    /\ result' = value
    /\ UNCHANGED instruction
-----------------------------------------------------------------------------
visitFCmpInst == Visit("FCmp", FCmpVector(instruction.predicate, instruction.a, instruction.b))

visitICmpInst ==
    Visit("ICmp",
          LET x == instruction.x
              y == instruction.y
          IN IF instruction.vector
             THEN ICmpVector(instruction.type, instruction.op, <<x, y>>, <<y, x>>, instruction.width)
             ELSE ICmp(instruction.type, instruction.op, x, y, instruction.width))

visitBinaryOperator ==
    Visit("BinaryOperator",
          BinaryScalar(instruction.op, instruction.x, instruction.y, instruction.width))

visitShift ==
    Visit("Shift", BinaryScalar(instruction.op, instruction.x, instruction.y, instruction.width))

visitCast ==
    Visit("Cast", executeCast(instruction.op, instruction.x, instruction.from, instruction.to))

visitGetElementPtrInst ==
    Visit("GetElementPtr", executeGEPOperation(instruction.pointer, instruction.path))

(* Expressions of constants are evaluated operand by operand.              *)
CastExpr(op, from, to, x) == getConstantExprValue([op |-> op, from |-> from, to |-> to], <<x>>)

BinaryExpr(op, w, x, y) == getConstantExprValue([op |-> op, width |-> w], <<x, y>>)

CompareExpr(predicate, w, x, y) ==
    getConstantExprValue([op |-> "ICmp", type |-> "integer", predicate |-> predicate, width |-> w],
                         <<x, y>>)

ElementExpr(p, path) == getConstantExprValue([op |-> "GetElementPtr", path |-> path], <<p>>)

(* How far the element is behind p, as an integer of w bits.               *)
DifferenceExpr(p, path, w) ==
    BinaryExpr("Sub", w, CastExpr("PtrToInt", PointerBits, w, ElementExpr(p, path)),
                         CastExpr("PtrToInt", PointerBits, w, p))

(* Its absolute value.                                                     *)
DistanceExpr(p, path, w) ==
    LET difference == DifferenceExpr(p, path, w)
    IN getConstantExprValue([op |-> "Select"],
           <<CompareExpr("SLT", w, difference, 0), BinaryExpr("Sub", w, 0, difference), difference>>)

(* The address so many bytes behind p, computed as an integer of w bits.   *)
SumExpr(p, bytes, w) ==
    CastExpr("IntToPtr", w, PointerBits,
             BinaryExpr("Add", w, CastExpr("PtrToInt", PointerBits, w, p), bytes % Pow2[w]))

(* Bytes from the start of the object to the element, before it if less    *)
(* than zero.                                                              *)
OffsetOf(i) == i.offset + i.size * Signed(i.index, IndexBits)

PathOf(i) == <<Field(i.offset), Element(i.size, IndexBits, i.index)>>

visitConstantExpr ==
    Visit("ConstantExpr",
          CASE instruction.form = "difference" ->
                 DifferenceExpr(instruction.pointer, PathOf(instruction), instruction.width)
            [] instruction.form = "distance" ->
                 DistanceExpr(instruction.pointer, PathOf(instruction), instruction.width)
            [] instruction.form = "sum" ->
                 SumExpr(instruction.pointer, OffsetOf(instruction), instruction.width))

visitBitCastInst ==
    Visit("BitCast", BitCast(instruction.little, instruction.src, instruction.from, instruction.to))

visitShuffleVectorInst ==
    Visit("ShuffleVector", ShuffleVector(instruction.a, instruction.b, instruction.mask))

visitSelectInst ==
    Visit("Select", Select(instruction.conditions, instruction.a, instruction.b))

visitInsertElementInst == Visit("InsertElement", InsertElement(instruction.a, 7, instruction.index))

visitInsertValueInst ==
    Visit("InsertValue", InsertValue(<<instruction.a, instruction.b>>, 7, instruction.path))

JumpTo(target) ==
    SwitchToNewBasicBlock(IF target THEN <<instruction.p, instruction.q>> ELSE << >>,
                          instruction.previous, Frame)

visitBranchInst ==
    Visit("Branch", JumpTo(~ instruction.conditional \/ instruction.condition # 0))

visitSwitchInst == Visit("Switch", JumpTo(SwitchTarget(instruction.condition, Cases, FALSE, 2)))

visitIndirectBrInst == Visit("IndirectBr", JumpTo(TRUE))

getOperandValue == Visit("Operand", getConstantValue(instruction.type, instruction.constant))

callNative ==
    Visit("ffiInvoke", [fetched |-> ffiInvoke(instruction.types),
                        returned |-> ffiResult(instruction.types[1])])

Arguments == [i \in 1 .. MaxPieces |-> [high |-> i, low |-> i + 10]]

callPrintf ==
    Visit("Printf",
          LET format == FlattenSeq(instruction.pieces)
          IN CASE instruction.callee = "sprintf" -> lle_X_sprintf(<<"Output", format>> \o Arguments)
               [] instruction.callee = "printf" -> lle_X_printf(<<format>> \o Arguments)
               [] instruction.callee = "fprintf" -> lle_X_fprintf(<<"File", format>> \o Arguments))

Next ==
    \/ visitFCmpInst \/ visitICmpInst
    \/ visitBinaryOperator \/ visitShift
    \/ visitCast
    \/ visitGetElementPtrInst \/ visitConstantExpr
    \/ visitBitCastInst
    \/ visitShuffleVectorInst \/ visitSelectInst
    \/ visitInsertElementInst \/ visitInsertValueInst
    \/ visitBranchInst \/ visitSwitchInst \/ visitIndirectBrInst
    \/ getOperandValue
    \/ callNative \/ callPrintf

Spec == Init /\ [][Next]_vars
-----------------------------------------------------------------------------
(* The codes of the float predicates are sets of outcomes: bit 0 is equal, *)
(* 1 greater, 2 less and 3 unordered. The same sets for integers.          *)
FCmpCode(predicate) == (CHOOSE c \in 1 .. 16 : FCmpPredicates[c] = predicate) - 1

ICmpCode == [EQ |-> 1, NE |-> 6, UGT |-> 2, UGE |-> 3, ULT |-> 4, ULE |-> 5,
             SGT |-> 2, SGE |-> 3, SLT |-> 4, SLE |-> 5]

Outcome(x, y) ==
    IF Unordered(x, y) THEN 3 ELSE IF x = y THEN 0 ELSE IF x > y THEN 1 ELSE 2

FlipSign(x, w) == (x + Pow2[w - 1]) % Pow2[w]

(* Every compare is true exactly for the outcomes in the code of its       *)
(* predicate: of floats, NaNs included, alone and in vectors, although     *)
(* the code derives seven compares from others with masks; of integers, a  *)
(* signed compare being an unsigned one with both sign bits flipped; and   *)
(* of pointers, which are addresses without a sign whatever the predicate  *)
(* (Execution.cpp, the executeFCMP and executeICMP functions). Vectors of  *)
(* pointers are left out: all their lanes compare equal in the code.       *)
ComparesFollowTheirPredicate ==
    /\ Visited("FCmp") =>
          \A lane \in 1 .. 2 :
              LET x == instruction.a[lane]
                  y == instruction.b[lane]
                  p == instruction.predicate
              IN /\ result[lane] = HasBit(FCmpCode(p), Outcome(x, y))
                 /\ result[lane] = FCmpScalar(p, x, y)
    /\ Visited("ICmp") =>
          LET signed  == instruction.type = "integer" /\ instruction.op \in SignedPredicates
              side(x) == IF signed THEN FlipSign(x, instruction.width) ELSE x
              holds(x, y) == HasBit(ICmpCode[instruction.op], Outcome(side(x), side(y)))
              x == instruction.x
              y == instruction.y
          IN /\ ~ instruction.vector => result = holds(x, y)
             /\ instruction.vector /\ instruction.type = "integer" =>
                   result[1] = holds(x, y) /\ result[2] = holds(y, x)

(* A shift never leaves its integer: whatever the amount, APInt is asked   *)
(* to shift by less than the width, and by the amount itself when that is  *)
(* defined, so the bits that stay are those a shift one by one leaves      *)
(* (Execution.cpp getShiftAmount). For widths that are no power of two the *)
(* rule of the code lets amounts above the width through.                  *)
ShiftsStayInRange ==
    Visited("Shift") =>
        LET w == instruction.width
            one(x) == CASE instruction.op = "Shl" -> (2 * x) % Pow2[w]
                        [] instruction.op = "LShr" -> x \div 2
                        [] instruction.op = "AShr" -> (x \div 2) + (IF HasBit(x, w - 1) THEN Pow2[w - 1] ELSE 0)
        IN result = FoldLeft(LAMBDA x, i : one(x), instruction.x,
                             [i \in 1 .. instruction.y % w |-> i])

(* Of the floats with so many digits r is one that is next to n.           *)
NextTo(n, r, digits) ==
    /\ IsFloat(r, digits)
    /\ \A f \in FloatsWith(digits) : ~ (n < f /\ f < r) /\ ~ (r < f /\ f < n)

Nearest(n, r, digits) ==
    /\ IsFloat(r, digits)
    /\ \A f \in FloatsWith(digits) : Magnitude(n - r) <= Magnitude(n - f)

(* Casts bring back what fits: through a wider or a narrower integer of    *)
(* either sign, through an integer that holds an address, through a float  *)
(* that has digits enough, and through a double. What does not fit goes to *)
(* the nearest double, or to a float next to it (a float is rounded twice, *)
(* so not always to the nearest), and a float is cut towards zero          *)
(* (Execution.cpp, the functions of the casts).                            *)
CastsBringValuesBack ==
    Visited("Cast") =>
        LET op == instruction.op
            x  == instruction.x
            v  == instruction.from
            w  == instruction.to
            four == 4 * (IF op = "SIToFP" THEN Signed(x, v) ELSE x)
            cut  == x - 4 * (IF op = "FPToSI" THEN Signed(result, w) ELSE result)
        IN /\ op = "ZExt" => Trunc(result, v) = x
           /\ op = "SExt" => Trunc(result, v) = x /\ Signed(result, w) = Signed(x, v)
           /\ op = "Trunc" =>
                 /\ x < Pow2[w] => ZExt(result, w, v) = x
                 /\ Signed(x, v) \in - Pow2[w - 1] .. Pow2[w - 1] - 1 => SExt(result, w, v) = x
           /\ op = "PtrToInt" /\ w >= PointerBits => IntToPtr(result, w) = x
           /\ op = "IntToPtr" /\ v <= PointerBits => PtrToInt(result, v) = x
           /\ op \in {"UIToFP", "SIToFP"} =>
                 /\ NextTo(four, result, w)
                 /\ w = DoubleDigits => Nearest(four, result, w)
                 /\ IsFloat(four, w) => RoundToAPInt(result, v) = x
           /\ op = "FPExt" => IsFloat(result, w) /\ FPTrunc(result) = x
           /\ op = "FPTrunc" => Nearest(x, result, w)
           /\ op \in {"FPToUI", "FPToSI"} => cut \in (IF x < 0 THEN -3 .. 0 ELSE 0 .. 3)

(* A short index walks an array as the long index of the same sign does,   *)
(* backwards too: the step lands where the sign-extended index says, and   *)
(* the opposite long step brings the address back (executeGEPOperation).   *)
IndicesAreSigned ==
    Visited("GetElementPtr") =>
        LET field == instruction.path[1]
            short == instruction.path[2]
            long(i) == Element(short.size, PointerBits, i)
            minus == (- Signed(short.value, IndexBits)) % Pow2[PointerBits]
        IN /\ result = executeGEPOperation(instruction.pointer,
                          <<field, long(SExt(short.value, IndexBits, PointerBits))>>)
           /\ executeGEPOperation(result, <<long(minus)>>)
                  = executeGEPOperation(instruction.pointer, <<field>>)

(* What a store of the vector leaves in memory, read as one number.        *)
Image(little, a, w) ==
    MapThenSumSet(LAMBDA i : a[i] * Pow2[w * (IF little THEN i - 1 ELSE Len(a) - i)], DOMAIN a)

(* A bitcast changes no bit of memory on either kind of machine, in both   *)
(* directions between narrow and wide elements (executeBitCastInst). The   *)
(* element widths divide each other: for others the ratio of the code is   *)
(* rounded down and elements are lost.                                     *)
BitCastsKeepMemory ==
    Visited("BitCast") =>
        Image(instruction.little, result, instruction.to)
            = Image(instruction.little, instruction.src, instruction.from)

(* Elements stay in place: a shuffle picks from its operands laid end to   *)
(* end, a select is such a shuffle, and an insert changes the one element  *)
(* or member it names, at any depth (visitShuffleVectorInst and others).   *)
ElementsStayInPlace ==
    /\ Visited("ShuffleVector") =>
          result = [i \in 1 .. 2 |-> (instruction.a \o instruction.b)[instruction.mask[i] + 1]]
    /\ Visited("Select") =>
          LET picks == [i \in 1 .. 2 |-> i - 1 + (IF instruction.conditions[i] = 0 THEN 2 ELSE 0)]
          IN result = ShuffleVector(instruction.a, instruction.b, picks)
    /\ Visited("InsertElement") =>
          \A i \in 0 .. 1 : ExtractElement(result, i) =
              (IF i = instruction.index THEN 7 ELSE ExtractElement(instruction.a, i))
    /\ Visited("InsertValue") =>
          \A path \in (0 .. 1) \X (0 .. 1) : ExtractValue(result, path) =
              (IF path = instruction.path THEN 7
               ELSE ExtractValue(<<instruction.a, instruction.b>>, path))

(* Address arithmetic in constants agrees with address arithmetic in       *)
(* instructions, for elements behind and before the object and addresses   *)
(* that wrap: a difference of addresses is the offset of the element, cut  *)
(* to any width an address fills; its absolute value is chosen by the sign *)
(* it has in that width; and an offset added to the integer of an address  *)
(* leads where the instruction leads (getConstantExprValue).               *)
ConstantsComputeAddresses ==
    Visited("ConstantExpr") =>
        LET w == instruction.width
            offset == OffsetOf(instruction)
        IN /\ instruction.form = "difference" => result = offset % Pow2[w]
           /\ instruction.form = "distance" =>
                 result = Magnitude(Signed(offset % Pow2[w], w))
           /\ instruction.form = "sum" =>
                 result = executeGEPOperation(instruction.pointer, PathOf(instruction))

(* "All of the PHI nodes must be executed atomically": whatever nodes read *)
(* each other and whatever jump it was, each ends with the value its input *)
(* had before the block was entered, and nothing else changes              *)
(* (visitBranchInst, visitSwitchInst, SwitchToNewBasicBlock).              *)
PhisAreParallel ==
    \A kind \in {"Branch", "Switch", "IndirectBr"} : Visited(kind) =>
        \A r \in Registers :
            LET phis == {phi \in {instruction.p, instruction.q} :
                            /\ phi.node = r
                            /\ CASE kind = "Branch" -> instruction.conditional => instruction.condition > 0
                                 [] kind = "Switch" -> instruction.condition = 1
                                 [] kind = "IndirectBr" -> TRUE}
            IN result[r] = (IF phis = {} THEN Frame[r]
                            ELSE Frame[(CHOOSE phi \in phis : TRUE).incoming[instruction.previous]])

(* v is laid out as instructions on type expect it, at each of the levels  *)
(* that Types have.                                                        *)
FlatHasType(v, type) ==
    /\ type.kind = "int" => v.width = type.width /\ v.value \in Ints(type.width)
    /\ type.kind = "vector" =>
          /\ Len(v.AggregateVal) = type.size
          /\ type.of.kind = "int" => \A i \in 1 .. type.size :
                v.AggregateVal[i].width = type.of.width
                    /\ v.AggregateVal[i].value \in Ints(type.of.width)

StructHasType(v, type) ==
    type.kind = "struct" =>
        /\ Len(v.AggregateVal) = Len(type.members)
        /\ \A i \in DOMAIN type.members : FlatHasType(v.AggregateVal[i], type.members[i])

HasType(v, type) ==
    /\ FlatHasType(v, type)
    /\ StructHasType(v, type)
    /\ type.kind = "struct" => \A i \in DOMAIN type.members :
          StructHasType(v.AggregateVal[i], type.members[i])

(* Arrays, and vectors in structs, which undefined values leave empty.     *)
LeftEmpty(type) ==
    LET empty[t \in Types] ==
            \/ t.kind = "array"
            \/ t.kind = "struct" /\ \E i \in DOMAIN t.members :
                   t.members[i].kind = "vector" \/ empty[t.members[i]]
    IN  empty[type]

(* "Although the value is undefined, we still have to construct an APInt   *)
(* with the correct bit width": a constant operand has integers of the     *)
(* widths of its type at every depth and as many elements, undefined ones  *)
(* and parts included, and its defined parts arrive (getConstantValue).    *)
ConstantsHaveTheirType ==
    Visited("Operand") /\ ~ LeftEmpty(instruction.type) =>
        /\ HasType(result, instruction.type)
        /\ instruction.constant.form = "number" => result.value = 5
        /\ instruction.constant.form = "elements" =>
              \A i \in 1 .. 2 : instruction.constant.elements[i] = Number(5)
                                     => result.AggregateVal[i].value = 5

(* A native function gets every argument of a type that libffi has, byte   *)
(* by byte, although an integer of another width is written as a float:    *)
(* over the arguments behind it when it is smaller, which are written      *)
(* later (ffiInvoke).                                                      *)
ArgumentsArriveIntact ==
    Visited("ffiInvoke") =>
        \A i \in 1 .. 3 : HasFfiType(instruction.types[i]) =>
            result.fetched[i] = Bytes(i, instruction.types[i])

(* A format is expanded piece by piece, whatever its pieces are and by     *)
(* whichever of the three functions: each directive takes the next         *)
(* argument, all of it when it says l (lle_X_sprintf and its callers). A   *)
(* backslash in front of a directive is left out: the code passes the      *)
(* percent sign on.                                                        *)
FormatsAreExpanded ==
    Visited("Printf") =>
        LET pieces == instruction.pieces
            takes(i) == pieces[i][1] = "%" /\ pieces[i] # <<"%", "%">>
            arg(i) == Arguments[Cardinality({k \in 1 .. i : takes(k)})]
            full(i) == Last(pieces[i]) = "s" \/ pieces[i] = <<"%", "l", "d">>
            shown(i) == IF takes(i)
                        THEN <<[directive |-> pieces[i],
                                arg |-> IF full(i) THEN arg(i) ELSE [arg(i) EXCEPT !.high = 0]]>>
                        ELSE IF pieces[i] = <<"%", "%">> THEN <<"%">> ELSE pieces[i]
        IN result.text = FlattenSeq([i \in DOMAIN pieces |-> shown(i)])
=============================================================================
