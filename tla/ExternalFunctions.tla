-------------------------- MODULE ExternalFunctions --------------------------
(***************************************************************************)
(* Calls out of the verified program: how ffiInvoke lays out the arguments *)
(* of a native function for libffi, and what the interpreter's own sprintf *)
(* makes of a format (ExternalFunctions.cpp).                              *)
(*                                                                         *)
(* A byte is named by the argument it belongs to, the field of its         *)
(* GenericValue and its place there. Of a 64 bit argument of sprintf two   *)
(* halves are kept, and what the host's sprintf makes of one directive is  *)
(* one piece of output.                                                    *)
(***************************************************************************)
EXTENDS Integers, SequencesExt, FiniteSetsExt

NativeType(kind, bits) == [kind |-> kind, bits |-> bits]

StoreSize(type) == (type.bits + 7) \div 8

HasFfiType(type) == type.kind = "int" => type.bits \in {8, 16, 32, 64}

(* ffiTypeFor and ffiValueFor fall from integers of other widths into the  *)
(* case of floats.                                                         *)
FfiSize(type) == IF HasFfiType(type) THEN StoreSize(type) ELSE 4

Bytes(who, type) ==
    [j \in 1 .. FfiSize(type) |->
        <<who, IF HasFfiType(type) THEN type.kind ELSE "float", j>>]

ArgOffset(types, i) == MapThenSumSet(LAMBDA k : StoreSize(types[k]), 1 .. i - 1)

ffiValueFor(data, at, bytes) ==
    [k \in DOMAIN data |-> IF k - at \in DOMAIN bytes THEN bytes[k - at] ELSE data[k]]

(* The bytes that libffi reads for each argument.                          *)
Fetched(types, data) ==
    [i \in DOMAIN types |-> [j \in 1 .. FfiSize(types[i]) |-> data[ArgOffset(types, i) + j]]]

(* ArgData, with what follows it.                                          *)
ArgData(types) == [k \in 1 .. ArgOffset(types, Len(types) + 1) + 4 |-> <<>>]

(* Mutant of ffiInvoke: the last argument is written first.                *)
ffiInvokeBackwards(types) ==
    Fetched(types, FoldRightDomain(LAMBDA i, data :
        ffiValueFor(data, ArgOffset(types, i), Bytes(i, types[i])), types, ArgData(types)))

(* Arguments are written behind each other, the first one first.           *)
ffiInvoke(types) ==
    Fetched(types, FoldLeftDomain(LAMBDA data, i :
        ffiValueFor(data, ArgOffset(types, i), Bytes(i, types[i])), ArgData(types), types))

(* An integer of another width is not taken out of the buffer.             *)
ffiResult(type) == IF HasFfiType(type) THEN Bytes(0, type) ELSE << >>
-----------------------------------------------------------------------------
Conversions == {"c", "d", "s", "%"}

(* Mutant of TakesArgument: a percent sign takes one too.                  *)
TakesAlways(conversion) == TRUE

TakesArgument(conversion) == conversion # "%"

(* Integers without an l are cut to 32 bits.                               *)
Shown(directive, arg) ==
    IF Last(directive) = "d" /\ \E i \in DOMAIN directive : directive[i] = "l" THEN arg
    ELSE IF Last(directive) \in {"c", "d"} THEN [arg EXCEPT !.high = 0]
    ELSE arg

(* One more character of a format: pending is the directive it belongs to, *)
(* or a backslash, and ArgNo of the arguments are taken.                   *)
ReadCharacter(at, c, args) ==
    LET read == Append(at.pending, c)
    IN IF at.pending = << >> /\ c \notin {"%", "\\"} THEN [at EXCEPT !.text = Append(@, c)]
       ELSE IF at.pending = << >> THEN [at EXCEPT !.pending = read]
       ELSE IF Head(read) = "\\" THEN [text |-> at.text \o read, pending |-> << >>, ArgNo |-> at.ArgNo]
       ELSE IF c \notin Conversions THEN [at EXCEPT !.pending = read]
       ELSE [text    |-> Append(at.text,
                  IF c = "%" THEN c
                  ELSE [directive |-> read, arg |-> Shown(read, args[at.ArgNo + 1])]),
             pending |-> << >>,
             ArgNo   |-> at.ArgNo + (IF TakesArgument(c) THEN 1 ELSE 0)]

Expand(format, args) ==
    FoldLeft(LAMBDA at, c : ReadCharacter(at, c, args),
             [text |-> << >>, pending |-> << >>, ArgNo |-> 0], format).text

(* A buffer, a format and what it is about. The length of the format is    *)
(* returned.                                                               *)
lle_X_sprintf(Args) ==
    [text |-> Expand(Args[2], SubSeq(Args, 3, Len(Args))), value |-> Len(Args[2])]

(* Both print to a buffer of their own first.                              *)
lle_X_printf(Args) == lle_X_sprintf(<<"Buffer">> \o Args)

lle_X_fprintf(Args) == lle_X_sprintf(<<"Buffer">> \o Tail(Args))
=============================================================================
