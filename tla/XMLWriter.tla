------------------------------ MODULE XMLWriter ------------------------------
(***************************************************************************)
(* The writer of XML files (Utils/XML.cpp) and a reader of what it writes. *)
(*                                                                         *)
(* A writer is [out, stack, open_tag]; out is the file as a sequence of    *)
(* pieces. Text is a sequence of characters, or of words without special   *)
(* characters. Numbers arrive as their decimals.                           *)
(***************************************************************************)
EXTENDS SequencesExt

NewXML == [out |-> << >>, stack |-> << >>, open_tag |-> FALSE]

Put(w, piece) == [w EXCEPT !.out = Append(@, piece)]

HeadEnd == [kind |-> "head end"]

EmptyEnd == [kind |-> "empty end"]

close_tag_head(w) == IF w.open_tag THEN [Put(w, HeadEnd) EXCEPT !.open_tag = FALSE] ELSE w

Child(w, name) ==
    [Put(close_tag_head(w), [kind |-> "start", name |-> name])
        EXCEPT !.stack = Append(@, name), !.open_tag = TRUE]

(* Mutant of Back: the flag is not reset.                                  *)
BackStillOpen(w) ==
    [Put(w, IF w.open_tag THEN EmptyEnd ELSE [kind |-> "end", name |-> Last(w.stack)])
        EXCEPT !.stack = Front(@)]

Back(w) ==
    [Put(w, IF w.open_tag THEN EmptyEnd ELSE [kind |-> "end", name |-> Last(w.stack)])
        EXCEPT !.stack = Front(@), !.open_tag = FALSE]

(* set of a value without special characters.                              *)
Attribute(w, name, value) == Put(w, [kind |-> "attribute", name |-> name, value |-> value])

(* find_and_replace goes on behind the first character of a replacement;   *)
(* in those of sanitize_string the character is not found again.           *)
find_and_replace(s, c, replacement) ==
    FlattenSeq([i \in DOMAIN s |-> IF s[i] = c THEN replacement ELSE <<s[i]>>])

sanitize_string(s) ==
    LET amp == find_and_replace(s, "&", <<"&", "a", "m", "p", ";">>)
        lt  == find_and_replace(amp, "<", <<"&", "l", "t", ";">>)
    IN find_and_replace(lt, ">", <<"&", "g", "t", ";">>)

Text(w, s) == Put(close_tag_head(w), [kind |-> "text", text |-> sanitize_string(s)])

(* The calls of a writer, one after the other.                             *)
child(name) == [call |-> "child", name |-> name]

back == [call |-> "back"]

set(name, value) == [call |-> "set", name |-> name, value |-> value]

text(s) == [call |-> "text", text |-> s]

simpleChild(name, s) == <<child(name), text(s), back>>

Perform(w, c) ==
    CASE c.call = "child" -> Child(w, c.name)
      [] c.call = "back" -> Back(w)
      [] c.call = "set" -> Attribute(w, c.name, c.value)
      [] c.call = "text" -> Text(w, c.text)

Written(calls) == FoldLeft(Perform, NewXML, calls).out
-----------------------------------------------------------------------------
(* A reader keeps the elements it is in, outermost first; the first one    *)
(* stands for the file. A file that is not well formed leaves it broken.   *)
Element(name, attributes, content) ==
    [name |-> name, attributes |-> attributes, content |-> content]

Entity(name) == CASE name = "a" -> "&" [] name = "l" -> "<" [] name = "g" -> ">"

(* Text with its entities resolved.                                        *)
Unescaped(s) ==
    LET starts  == {i \in DOMAIN s : s[i] = "&"}
        inside(i) == \E b \in starts : b < i /\ \A j \in b .. i - 1 : s[j] # ";"
    IN FlattenSeq([i \in DOMAIN s |->
                      IF i \in starts THEN <<Entity(s[i + 1])>>
                      ELSE IF inside(i) THEN << >> ELSE <<s[i]>>])

Close(reader) ==
    LET n == Len(reader.in)
    IN [head |-> FALSE,
        in   |-> [SubSeq(reader.in, 1, n - 1) EXCEPT ![n - 1].content = Append(@, reader.in[n])]]

PieceFits(reader, piece) ==
    CASE piece.kind \in {"attribute", "head end"} -> reader.head
      [] piece.kind = "empty end" -> reader.head /\ Len(reader.in) > 1
      [] piece.kind = "end" ->
             ~ reader.head /\ Len(reader.in) > 1 /\ Last(reader.in).name = piece.name
      [] piece.kind \in {"start", "text"} -> ~ reader.head

Broken == [head |-> TRUE, in |-> << >>]

ReadPiece(reader, piece) ==
    IF reader.in = << >> \/ ~ PieceFits(reader, piece) THEN Broken
    ELSE LET n == Len(reader.in)
         IN CASE piece.kind = "start" ->
                   [head |-> TRUE, in |-> Append(reader.in, Element(piece.name, << >>, << >>))]
              [] piece.kind = "attribute" ->
                   [reader EXCEPT !.in[n].attributes = Append(@, <<piece.name, piece.value>>)]
              [] piece.kind = "head end" -> [reader EXCEPT !.head = FALSE]
              [] piece.kind \in {"empty end", "end"} -> Close(reader)
              [] piece.kind = "text" ->
                   [reader EXCEPT !.in[n].content = Append(@, [text |-> Unescaped(piece.text)])]

(* The content of the file: one element in a well-formed one.              *)
Read(out) ==
    LET end == FoldLeft(ReadPiece, [head |-> FALSE, in |-> <<Element("file", << >>, << >>)>>], out)
    IN IF ~ end.head /\ Len(end.in) = 1 THEN end.in[1].content ELSE << >>
=============================================================================
