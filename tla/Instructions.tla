---------------------------- MODULE Instructions ----------------------------
(***************************************************************************)
(* What single instructions of the verified program compute: compares,     *)
(* shifts, integer operators, casts, address arithmetic, the moves between *)
(* vectors and aggregates, and the PHI nodes of a block (Execution.cpp).   *)
(*                                                                         *)
(* An integer of w bits is a number below 2^w, a vector a sequence of      *)
(* scalars. A float is NaN or one of a few ordered numbers in compares.    *)
(* Where it is converted, a float or double is a number of quarters with   *)
(* as many significant bits as its type has; finer fractions, denormals    *)
(* and infinities are left out, and so is float arithmetic. The operators  *)
(* of llvm::APInt, its conversions for integers of up to 64 bits, and the  *)
(* comparisons and conversions of C++ are external.                        *)
(***************************************************************************)
EXTENDS Integers, SequencesExt, FiniteSetsExt

CONSTANTS
    NaN,
    Floats,         \* the other floats, integers
    Widths,         \* bit widths of integers
    PointerBits,    \* width of an address, and of a long index
    IndexBits,      \* width of a short index
    FloatDigits,    \* significant bits of a float, and of a double
    DoubleDigits,
    Registers,      \* values of a frame
    Blocks          \* basic blocks

ASSUME NaNAssumption == NaN \notin Int
ASSUME FloatsAssumption == Floats \subseteq Int
ASSUME WidthsAssumption ==
    Widths \subseteq Nat \ {0} /\ PointerBits \in Widths /\ IndexBits \in Widths
ASSUME IndexAssumption == IndexBits < PointerBits
ASSUME DigitsAssumption ==
    FloatDigits \in Nat \ {0} /\ DoubleDigits \in Nat /\ FloatDigits < DoubleDigits
ASSUME RegistersAssumption == IsFiniteSet(Registers)

Pow2[n \in Nat] == IF n = 0 THEN 1 ELSE 2 * Pow2[n - 1]

Signed(x, w) == IF x >= Pow2[w - 1] THEN x - Pow2[w] ELSE x

Ints(w) == 0 .. Pow2[w] - 1

Vectors(S, n) == [1 .. n -> S]
-----------------------------------------------------------------------------
(* The operators of C++ on float and double.                               *)
Unordered(x, y) == x = NaN \/ y = NaN

CCompare(op, x, y) ==
    IF Unordered(x, y) THEN op = "!="
    ELSE CASE op = "==" -> x = y
           [] op = "!=" -> x # y
           [] op = "<"  -> x < y
           [] op = ">"  -> x > y
           [] op = "<=" -> x <= y
           [] op = ">=" -> x >= y

(* MASK_VECTOR_NANS.                                                       *)
NaNMask(a, b, flag) ==
    [i \in DOMAIN a |-> IF Unordered(a[i], b[i]) THEN flag ELSE ~ flag]

COperator(predicate) ==
    CASE predicate \in {"OEQ", "UEQ"} -> "=="
      [] predicate \in {"ONE", "UNE"} -> "!="
      [] predicate \in {"OLT", "ULT"} -> "<"
      [] predicate \in {"OGT", "UGT"} -> ">"
      [] predicate \in {"OLE", "ULE"} -> "<="
      [] predicate \in {"OGE", "UGE"} -> ">="

(* executeFCMP_OEQ, OLE, OGE, OLT, OGT and ONE, which masks NaNs out.      *)
OrderedScalar(predicate, x, y) ==
    IF predicate = "ONE" /\ Unordered(x, y) THEN FALSE
    ELSE CCompare(COperator(predicate), x, y)

OrderedVector(predicate, a, b) ==
    [i \in DOMAIN a |->
        /\ predicate = "ONE" => NaNMask(a, b, FALSE)[i]
        /\ CCompare(COperator(predicate), a[i], b[i])]

Ordered(predicate) ==
    CASE predicate = "UEQ" -> "OEQ" [] predicate = "UNE" -> "ONE"
      [] predicate = "ULT" -> "OLT" [] predicate = "UGT" -> "OGT"
      [] predicate = "ULE" -> "OLE" [] predicate = "UGE" -> "OGE"

(* Mutant of UnorderedVector: the mask of ONE is used.                     *)
UnorderedVectorMaskedOut(predicate, a, b) ==
    [i \in DOMAIN a |->
        NaNMask(a, b, FALSE)[i] \/ OrderedVector(Ordered(predicate), a, b)[i]]

(* executeFCMP_UEQ and its five likes: the ordered compare, with NaNs      *)
(* masked in. The scalar test looks at a field that is zero in a vector.   *)
UnorderedScalar(predicate, x, y) ==
    Unordered(x, y) \/ OrderedScalar(Ordered(predicate), x, y)

UnorderedVector(predicate, a, b) ==
    [i \in DOMAIN a |->
        NaNMask(a, b, TRUE)[i] \/ OrderedVector(Ordered(predicate), a, b)[i]]

(* executeFCMP_ORD and UNO compare each operand with itself.               *)
BothAreNumbers(x, y) == CCompare("==", x, x) /\ CCompare("==", y, y)

OneIsNaN(x, y) == CCompare("!=", x, x) \/ CCompare("!=", y, y)

FCmpPredicates ==
    << "FALSE", "OEQ", "OGT", "OGE", "OLT", "OLE", "ONE", "ORD",
       "UNO", "UEQ", "UGT", "UGE", "ULT", "ULE", "UNE", "TRUE" >>

UnorderedPredicates == {"UEQ", "UGT", "UGE", "ULT", "ULE", "UNE"}

(* visitFCmpInst.                                                          *)
FCmpScalar(predicate, x, y) ==
    CASE predicate \in {"FALSE", "TRUE"} -> predicate = "TRUE"
      [] predicate = "ORD" -> BothAreNumbers(x, y)
      [] predicate = "UNO" -> OneIsNaN(x, y)
      [] predicate \in UnorderedPredicates -> UnorderedScalar(predicate, x, y)
      [] OTHER -> OrderedScalar(predicate, x, y)

FCmpVector(predicate, a, b) ==
    CASE predicate \in {"FALSE", "TRUE"} -> [i \in DOMAIN a |-> predicate = "TRUE"]
      [] predicate = "ORD" -> [i \in DOMAIN a |-> BothAreNumbers(a[i], b[i])]
      [] predicate = "UNO" -> [i \in DOMAIN a |-> OneIsNaN(a[i], b[i])]
      [] predicate \in UnorderedPredicates -> UnorderedVector(predicate, a, b)
      [] OTHER -> OrderedVector(predicate, a, b)

-----------------------------------------------------------------------------
HasBit(n, i) == (n \div Pow2[i]) % 2 = 1

Bits(x, w) == {i \in 0 .. w - 1 : HasBit(x, i)}

FromBits(S) == MapThenSumSet(LAMBDA i : Pow2[i], S)

Magnitude(x) == IF x < 0 THEN - x ELSE x

(* Division towards zero.                                                  *)
Quotient(x, y) ==
    LET q == Magnitude(x) \div Magnitude(y)
    IN IF (x < 0) = (y < 0) THEN q ELSE - q

(* The operators of llvm::APInt.                                           *)
APIntOp(op, x, y, w) ==
    LET sx == Signed(x, w)
        sy == Signed(y, w)
    IN CASE op = "Add"  -> (x + y) % Pow2[w]
         [] op = "Sub"  -> (x - y) % Pow2[w]
         [] op = "Mul"  -> (x * y) % Pow2[w]
         [] op = "UDiv" -> x \div y
         [] op = "URem" -> x % y
         [] op = "SDiv" -> Quotient(sx, sy) % Pow2[w]
         [] op = "SRem" -> (sx - Quotient(sx, sy) * sy) % Pow2[w]
         [] op = "And"  -> FromBits(Bits(x, w) \cap Bits(y, w))
         [] op = "Or"   -> FromBits(Bits(x, w) \cup Bits(y, w))
         [] op = "Xor"  -> FromBits((Bits(x, w) \cup Bits(y, w)) \ (Bits(x, w) \cap Bits(y, w)))
         [] op = "Shl"  -> (x * Pow2[y]) % Pow2[w]
         [] op = "LShr" -> x \div Pow2[y]
         [] op = "AShr" -> (sx \div Pow2[y]) % Pow2[w]

NextPowerOf2(n) == CHOOSE p \in {Pow2[k] : k \in 0 .. n + 1} : p > n /\ p \div 2 <= n

(* Mutant of getShiftAmount: one power of two too many.                    *)
getShiftAmountTooWide(amount, w) ==
    IF amount < w THEN amount ELSE amount % NextPowerOf2(w)

(* Undefined amounts are cut to the bits an amount of the width has.       *)
getShiftAmount(amount, w) ==
    IF amount < w THEN amount ELSE amount % NextPowerOf2(w - 1)

ShiftOps == {"Shl", "LShr", "AShr"}

DivisionOps == {"UDiv", "URem", "SDiv", "SRem"}

BinaryOps == {"Add", "Sub", "Mul", "And", "Or", "Xor"} \cup DivisionOps

(* visitBinaryOperator, visitShl, visitLShr and visitAShr.                 *)
BinaryScalar(op, x, y, w) ==
    APIntOp(op, x, IF op \in ShiftOps THEN getShiftAmount(y, w) ELSE y, w)

ICmpOps == {"EQ", "NE", "ULT", "ULE", "UGT", "UGE", "SLT", "SLE", "SGT", "SGE"}

SignedPredicates == {"SLT", "SLE", "SGT", "SGE"}

(* The executeICMP functions. Pointers are compared as C++ compares void*, *)
(* without a sign whatever the predicate.                                  *)
ICmp(type, op, x, y, w) ==
    LET signed == type = "integer" /\ op \in SignedPredicates
        a == IF signed THEN Signed(x, w) ELSE x
        b == IF signed THEN Signed(y, w) ELSE y
    IN CASE op = "EQ" -> a = b
         [] op = "NE" -> a # b
         [] op \in {"ULT", "SLT"} -> a < b
         [] op \in {"ULE", "SLE"} -> a <= b
         [] op \in {"UGT", "SGT"} -> a > b
         [] op \in {"UGE", "SGE"} -> a >= b

(* In vectors the integers of the lanes are compared. That of a pointer is *)
(* a zero of one bit.                                                      *)
ICmpVector(type, op, a, b, w) ==
    [i \in DOMAIN a |-> IF type = "pointer" THEN ICmp("integer", op, 0, 0, 1)
                                            ELSE ICmp("integer", op, a[i], b[i], w)]

-----------------------------------------------------------------------------
(* executeTruncInst, executeZExtInst, executeSExtInst.                     *)
Trunc(x, w) == x % Pow2[w]

ZExt(x, from, to) == x

(* Mutant of SExt: extends with zeros.                                     *)
SExtWithZeros(x, from, to) == x

SExt(x, from, to) == Signed(x, from) % Pow2[to]

PtrToInt(p, w) == p % Pow2[w]

(* zextOrTrunc to the width of a pointer.                                  *)
IntToPtr(x, w) == IF w = PointerBits THEN x ELSE x % Pow2[PointerBits]

(* How far numbers with so many significant bits lie apart around n.       *)
Spacing(n, digits) ==
    Pow2[CHOOSE k \in 0 .. Magnitude(n) :
            /\ Magnitude(n) < Pow2[digits + k]
            /\ k > 0 => Magnitude(n) >= Pow2[digits + k - 1]]

IsFloat(n, digits) == Magnitude(n) % Spacing(n, digits) = 0

(* The nearest of them, of two the even one.                               *)
Rounded(n, digits) ==
    LET step  == Spacing(n, digits)
        below == Magnitude(n) \div step
        twice == 2 * (Magnitude(n) % step)
        up    == twice > step \/ (twice = step /\ below % 2 = 1)
        m     == step * (IF up THEN below + 1 ELSE below)
    IN IF n < 0 THEN - m ELSE m

FPTrunc(quarters) == Rounded(quarters, FloatDigits)

(* Every float is a double.                                                *)
FPExt(quarters) == quarters

(* RoundAPIntToDouble and RoundAPIntToFloat, which rounds the double.      *)
RoundAPInt(n, digits) ==
    IF digits = DoubleDigits THEN Rounded(4 * n, DoubleDigits)
    ELSE FPTrunc(Rounded(4 * n, DoubleDigits))

UIToFP(x, w, digits) == RoundAPInt(x, digits)

SIToFP(x, w, digits) == RoundAPInt(Signed(x, w), digits)

(* RoundDoubleToAPInt, for signed and for unsigned results.                *)
RoundToAPInt(quarters, w) == Quotient(quarters, 4) % Pow2[w]

(* From and to are the widths of integers, or the digits of float types.   *)
executeCast(op, x, from, to) ==
    CASE op = "Trunc" -> Trunc(x, to)
      [] op = "ZExt" -> ZExt(x, from, to)
      [] op = "SExt" -> SExt(x, from, to)
      [] op = "PtrToInt" -> PtrToInt(x, to)
      [] op = "IntToPtr" -> IntToPtr(x, from)
      [] op = "UIToFP" -> UIToFP(x, from, to)
      [] op = "SIToFP" -> SIToFP(x, from, to)
      [] op \in {"FPToUI", "FPToSI"} -> RoundToAPInt(x, to)
      [] op = "FPTrunc" -> FPTrunc(x)
      [] op = "FPExt" -> FPExt(x)

IntegerCastOps == {"Trunc", "ZExt", "SExt", "PtrToInt", "IntToPtr"}

FloatCastOps == {"UIToFP", "SIToFP", "FPToUI", "FPToSI", "FPTrunc", "FPExt"}

CastOps == IntegerCastOps \cup FloatCastOps

(* Mutant of GepOffset: a short index is not sign extended.                *)
GepOffsetUnsigned(index) ==
    IF index.kind = "field" THEN index.offset ELSE index.size * index.value

(* One step of a getelementptr: a field of a struct, or an element of an   *)
(* array, whose index is signed whatever its width.                        *)
GepOffset(index) ==
    IF index.kind = "field" THEN index.offset
    ELSE index.size * (IF index.width = IndexBits THEN Signed(index.value, IndexBits)
                                                  ELSE index.value)

executeGEPOperation(p, indices) ==
    (p + FoldLeft(LAMBDA total, index : (total + GepOffset(index)) % Pow2[PointerBits], 0, indices))
        % Pow2[PointerBits]
-----------------------------------------------------------------------------
(* Mutant of Join: every machine is little endian.                         *)
JoinLittle(little, src, from, to) ==
    LET number == (Len(src) * from) \div to
        ratio  == Len(src) \div number
    IN [i \in 1 .. number |->
          MapThenSumSet(LAMBDA j : src[(i - 1) * ratio + j] * Pow2[from * (j - 1)], 1 .. ratio) % Pow2[to]]

(* executeBitCastInst of vectors of fewer, wider elements, and of more,    *)
(* narrower ones.                                                          *)
Join(little, src, from, to) ==
    LET number   == (Len(src) * from) \div to
        ratio    == Len(src) \div number
        shift(j) == from * (IF little THEN j - 1 ELSE ratio - j)
    IN [i \in 1 .. number |->
          MapThenSumSet(LAMBDA j : src[(i - 1) * ratio + j] * Pow2[shift(j)], 1 .. ratio) % Pow2[to]]

Split(little, src, from, to) ==
    LET ratio    == ((Len(src) * from) \div to) \div Len(src)
        shift(j) == to * (IF little THEN j ELSE ratio - 1 - j)
    IN [i \in 1 .. Len(src) * ratio |->
          (src[(i - 1) \div ratio + 1] \div Pow2[shift((i - 1) % ratio)]) % Pow2[to]]

(* A scalar keeps its bits, also between a float and an integer.           *)
ScalarBitCast(src) == src

BitCast(little, src, from, to) ==
    IF Len(src) = 1 /\ from = to THEN ScalarBitCast(src)
    ELSE IF (Len(src) * from) \div to < Len(src) THEN Join(little, src, from, to)
    ELSE Split(little, src, from, to)
-----------------------------------------------------------------------------
(* executeSelectInst with a vector of conditions.                          *)
Select(conditions, a, b) ==
    [i \in DOMAIN conditions |-> IF conditions[i] = 0 THEN b[i] ELSE a[i]]

(* Indices count from zero; an invalid one leaves an empty value.          *)
ExtractElement(a, i) == IF i < Len(a) THEN a[i + 1] ELSE 0

InsertElement(a, x, i) == [a EXCEPT ![i + 1] = x]

ShuffleVector(a, b, mask) ==
    [i \in DOMAIN mask |->
        IF mask[i] < Len(a) THEN a[mask[i] + 1] ELSE b[mask[i] - Len(a) + 1]]

(* Mutant of InsertValue: stops one level too early.                       *)
InsertValueAbove(aggregate, x, path) == [aggregate EXCEPT ![Head(path) + 1] = <<x, x>>]

(* visitExtractValueInst and visitInsertValueInst walk to the member.      *)
ExtractValue(aggregate, path) ==
    FoldLeft(LAMBDA member, i : member[i + 1], aggregate, path)

InsertValue(aggregate, x, path) ==
    LET insert[k \in 0 .. Len(path)] ==
            IF k = Len(path) THEN x
            ELSE [ExtractValue(aggregate, SubSeq(path, 1, k))
                     EXCEPT ![path[k + 1] + 1] = insert[k + 1]]
    IN  insert[0]
-----------------------------------------------------------------------------
(* executeCmpInst.                                                         *)
executeCmpInst(kind, type, predicate, x, y, w) ==
    IF kind = "ICmp" THEN ICmp(type, predicate, x, y, w) ELSE FCmpScalar(predicate, x, y)

(* Mutant of ConstantOperator: the operands change places.                 *)
ConstantOperatorSwapped(op, x, y, w) == APIntOp(op, y, x, w)

(* The integer operators of constant expressions: no vectors, and shifts   *)
(* by any amount.                                                          *)
ConstantOperator(op, x, y, w) == APIntOp(op, x, y, w)

(* getConstantExprValue, from the values of the operands, which may be     *)
(* constant expressions themselves. Its bit casts and float arithmetic are *)
(* left out.                                                               *)
getConstantExprValue(e, operands) ==
    CASE e.op \in CastOps -> executeCast(e.op, operands[1], e.from, e.to)
      [] e.op = "GetElementPtr" -> executeGEPOperation(operands[1], e.path)
      [] e.op \in {"ICmp", "FCmp"} ->
             executeCmpInst(e.op, e.type, e.predicate, operands[1], operands[2], e.width)
      [] e.op = "Select" -> IF operands[1] THEN operands[2] ELSE operands[3]
      [] e.op \in BinaryOps \cup ShiftOps ->
             ConstantOperator(e.op, operands[1], operands[2], e.width)
-----------------------------------------------------------------------------
(* Types with up to three levels.                                          *)
ScalarTypes == {[kind |-> "int", width |-> 3], [kind |-> "float"], [kind |-> "pointer"]}

VectorTypes == [kind : {"vector"}, size : {2}, of : ScalarTypes]

ArrayTypes == [kind : {"array"}, size : {2}, of : ScalarTypes]

Structs(S) == [kind : {"struct"}, members : Vectors(S, 2)]

Types ==
    LET flat == ScalarTypes \cup VectorTypes \cup ArrayTypes
    IN flat \cup Structs(flat) \cup Structs(ScalarTypes \cup Structs(ScalarTypes))

(* A GenericValue: its integer with a width, or its float or pointer, and  *)
(* its elements or members.                                                *)
EmptyValue == [width |-> 1, value |-> 0, AggregateVal |-> << >>]

IntegerVal(w, x) == [EmptyValue EXCEPT !.width = w, !.value = x]

UndefScalar(type) == IF type.kind = "int" THEN IntegerVal(type.width, 0) ELSE EmptyValue

(* Mutant of UndefValue: a struct in a struct gets no members.             *)
UndefValueFlat(type) ==
    IF type.kind = "struct"
    THEN [EmptyValue EXCEPT !.AggregateVal = [i \in DOMAIN type.members |-> UndefScalar(type.members[i])]]
    ELSE UndefScalar(type)

(* An undefined value of a type still has integers of the right widths; an *)
(* array gets no elements, nor does a vector in a struct.                  *)
UndefValue(type) ==
    LET undef[t \in Types] ==
            CASE t.kind = "struct" ->
                   [EmptyValue EXCEPT !.AggregateVal =
                       [i \in DOMAIN t.members |->
                           LET member == t.members[i]
                           IN IF member.kind \in {"struct", "array"} THEN undef[member]
                              ELSE UndefScalar(member)]]
              [] t.kind = "vector" ->
                   [EmptyValue EXCEPT !.AggregateVal = [i \in 1 .. t.size |-> UndefScalar(t.of)]]
              [] OTHER -> UndefScalar(t)
    IN  undef[type]

Scalar(type, x) ==
    IF type.kind = "int" THEN IntegerVal(type.width, x) ELSE [EmptyValue EXCEPT !.value = x]

(* A constant is undef, zero, a number, or a vector of numbers and undefs. *)
getConstantValue(type, c) ==
    CASE c.form = "undef" -> UndefValue(type)
      [] c.form = "number" -> Scalar(type, c.value)
      [] c.form = "zero" ->
             [EmptyValue EXCEPT !.AggregateVal = [i \in 1 .. type.size |-> Scalar(type.of, 0)]]
      [] c.form = "elements" ->
             [EmptyValue EXCEPT !.AggregateVal =
                 [i \in 1 .. type.size |->
                     IF c.elements[i].form = "undef" THEN UndefScalar(type.of)
                     ELSE Scalar(type.of, c.elements[i].value)]]
-----------------------------------------------------------------------------
(* visitSwitchInst: the target of the first case that is equal.            *)
SwitchTarget(condition, cases, default, w) ==
    LET i == SelectInSeq(cases, LAMBDA c : ICmp("integer", "EQ", condition, c.value, w))
    IN IF i = 0 THEN default ELSE cases[i].target

(* Mutant of SwitchToNewBasicBlock: one phase instead of two.              *)
SwitchInOnePhase(phis, previous, values) ==
    FoldLeftDomain(LAMBDA frame, i :
        [frame EXCEPT ![phis[i].node] = frame[phis[i].incoming[previous]]], values, phis)

(* SwitchToNewBasicBlock reads the inputs of all PHI nodes first, then     *)
(* sets them one after the other.                                          *)
SwitchToNewBasicBlock(phis, previous, values) ==
    LET results == [i \in DOMAIN phis |-> values[phis[i].incoming[previous]]]
    IN FoldLeftDomain(LAMBDA frame, i : [frame EXCEPT ![phis[i].node] = results[i]], values, phis)
=============================================================================
