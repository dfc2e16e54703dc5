------------------------------ MODULE PlainStream ------------------------------
(***************************************************************************)
(* The streams of the plain text packer, packer/plain_text.h: how a single *)
(* value is written and read, and how values are written and read one      *)
(* after another.  PlainText puts them together for nested types; what is  *)
(* here needs no recursion over types.                                     *)
(*                                                                         *)
(* A buffer is the sequence of its lexemes.  The blanks between them are   *)
(* left out, and so is a value whose text is itself a blank.  A stream is  *)
(* what is left to read and whether it is still good: the first failure    *)
(* stays, and whatever is read afterwards is left as it was.               *)
(*                                                                         *)
(* The type of a single value is "int" (bool too), "enum", "char" (and     *)
(* unsigned char), "schar" (signed char, int8_t), "double" or "str", the   *)
(* field "of" of a record.                                                 *)
(***************************************************************************)
EXTENDS Integers, Sequences, SequencesExt, TLC

Blanks == {" "}

\* A double: its first six digits, what lies beyond them, whether it is finite.
Double(six, rest, finite) == [six |-> six, rest |-> rest, finite |-> finite]

\* T{} of a single value.
Zero(t) ==
  CASE t.of \in {"int", "enum", "char"} -> 0
    [] t.of \in {"schar", "str"} -> ""
    [] t.of = "double" -> Double(0, 0, TRUE)

-----------------------------------------------------------------------------
(* Packing *)

Lexeme(is, v) == [is |-> is, val |-> v]

Form(t) ==
  CASE t.of \in {"int", "enum"} -> "dec"
    [] t.of = "char"   -> "hex"
    [] t.of = "schar"  -> "letter"
    [] t.of = "double" -> "real"
    [] t.of = "str"    -> "quoted"

\* The stream's precision is six digits.
Rounded(d) == IF d.finite THEN [d EXCEPT !.rest = 0] ELSE d

PackScalar(t, v) ==
  IF t.of = "schar" /\ v \in Blanks
    THEN <<>>
    ELSE <<Lexeme(Form(t), IF t.of = "double" THEN Rounded(v) ELSE v)>>

PackIterable(items) == <<Lexeme("dec", Len(items))>> \o FlattenSeq(items)

-----------------------------------------------------------------------------
(* Unpacking *)

IsNumber(x) == x.is \in {"dec", "hex"} \/ (x.is = "real" /\ x.val.finite)

\* Numbers have one digit here, so that all of their forms read alike.
Digit(x) == IF x.is = "real" THEN x.val.six ELSE x.val

WordOf(x) ==
  CASE IsNumber(x)     -> ToString(Digit(x))
    [] x.is = "letter" -> x.val
    [] x.is = "real"   -> "inf"

\* operator>> on the next lexeme.  A string takes any word, a letter a digit; a
\* number that is none, or not finite, is stored as zero and fails the stream.
Extract(t, x) ==
  CASE t.of = "str" -> [ok |-> TRUE, val |-> IF x.is = "quoted" THEN x.val ELSE WordOf(x)]
    [] t.of = "schar" /\ (x.is = "letter" \/ IsNumber(x)) -> [ok |-> TRUE, val |-> WordOf(x)]
    [] t.of = "double" /\ IsNumber(x) -> [ok |-> TRUE, val |-> Double(Digit(x), 0, TRUE)]
    [] Form(t) \in {"dec", "hex"} /\ IsNumber(x) -> [ok |-> TRUE, val |-> Digit(x)]
    [] Form(t) \in {"dec", "hex", "real"} /\ ~IsNumber(x) -> [ok |-> FALSE, val |-> Zero(t)]

\* A stream, with what was read from it last.
Stream(ok, in, val) == [ok |-> ok, in |-> in, val |-> val]

\* A stream that has failed, or has ended, leaves the value as it was.
UnpackScalar(t, s, before) ==
  IF s.ok /\ s.in # <<>>
    THEN LET got == Extract(t, Head(s.in)) IN Stream(got.ok, Tail(s.in), got.val)
    ELSE Stream(FALSE, s.in, before)

\* A value read after those that were.
Then(sofar, one) == Stream(one.ok, one.in, Append(sofar.val, one.val))

\* n values are read one after another, the i-th by Read(i, _).
ReadEach(Read(_, _), s, n) ==
  LET after[i \in 0..n] ==
        IF i = 0
          THEN Stream(s.ok, s.in, <<>>)
          ELSE Then(after[i - 1], Read(i, after[i - 1]))
  IN after[n]

\* The items of a container follow their number.
ReadItems(Read(_, _), s) ==
  LET size == UnpackScalar([of |-> "int"], s, 0) IN ReadEach(Read, size, size.val)

=============================================================================
