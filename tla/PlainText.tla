------------------------------ MODULE PlainText ------------------------------
(***************************************************************************)
(* The plain text packer: what packer/plain_text.h writes for a value and  *)
(* what it reads back for a type.                                          *)
(*                                                                         *)
(* A type is a record.  Its field "of" is that of a single value, see      *)
(* PlainStream, or "tuple", "struct", "seq" (vector, list), "set", "map".  *)
(***************************************************************************)
EXTENDS PlainStream

CONSTANT
  Junk          \* the value of an object that nobody has initialised

-----------------------------------------------------------------------------
(* Types and values *)

\* What iterating over a map gives.
PairOf(t) == [of |-> "tuple", items |-> <<t.key, t.item>>]

FieldsOf(t) == [of |-> "tuple", items |-> t.items]

\* to_tuple(): the fields of a struct in the order of their declaration.
ToTuple(t, v) == [i \in DOMAIN t.names |-> v[t.names[i]]]

\* make_from_tuple(): the struct with these fields.
FromTuple(t, fields) ==
  [n \in ToSet(t.names) |-> fields[CHOOSE i \in DOMAIN t.names : t.names[i] = n]]

\* T{}
RECURSIVE Default(_)
Default(t) ==
  LET Each == [i \in DOMAIN t.items |-> Default(t.items[i])] IN
    CASE t.of = "tuple"  -> Each
      [] t.of = "struct" -> FromTuple(t, Each)
      [] t.of = "set"    -> {}
      [] t.of \in {"seq", "map"} -> <<>>
      [] OTHER           -> Zero(t)

\* T, without braces: only the arithmetic types are left uninitialised.  char
\* is read through a variable that starts from zero.
Item(t) == IF t.of \in {"int", "schar", "double"} THEN Junk ELSE Default(t)

-----------------------------------------------------------------------------
(* Packing *)

RECURSIVE PackValue(_, _)
PackValue(t, v) ==
  CASE t.of = "tuple"  -> FlattenSeq([i \in DOMAIN v |-> PackValue(t.items[i], v[i])])
    [] t.of = "struct" -> PackValue(FieldsOf(t), ToTuple(t, v))
    [] t.of = "seq"    -> PackIterable([i \in DOMAIN v |-> PackValue(t.item, v[i])])
    [] t.of = "set"    -> LET s == SetToSeq(v) IN
                            PackIterable([i \in DOMAIN s |-> PackValue(t.item, s[i])])
    [] t.of = "map"    -> LET s == SetToSeq(DOMAIN v) IN
                            PackIterable([i \in DOMAIN s |->
                                            PackValue(PairOf(t), <<s[i], v[s[i]]>>)])
    [] OTHER           -> PackScalar(t, v)

-----------------------------------------------------------------------------
(* Unpacking *)

\* insert() of pairs: a key that is there keeps its value.
Inserted(pairs) ==
  [k \in {pairs[i][1] : i \in DOMAIN pairs} |->
     pairs[CHOOSE i \in DOMAIN pairs :
             /\ pairs[i][1] = k
             /\ \A j \in 1..(i - 1) : pairs[j][1] # k][2]]

\* unpack_value(): reads a value of type t from s into one that was `before'.
RECURSIVE UnpackValue(_, _, _)
UnpackValue(t, s, before) ==
  LET Tuple(items) ==
        ReadEach(LAMBDA i, r : UnpackValue(items[i], r, Default(items[i])), s, Len(items))
      Items(item) == ReadItems(LAMBDA i, r : UnpackValue(item, r, Item(item)), s)
      As(r, v) == Stream(r.ok, r.in, v)
  IN CASE t.of = "tuple"  -> Tuple(t.items)
       [] t.of = "struct" -> LET r == Tuple(t.items) IN As(r, FromTuple(t, r.val))
       [] t.of = "seq"    -> Items(t.item)
       [] t.of = "set"    -> LET r == Items(t.item) IN As(r, ToSet(r.val))
       [] t.of = "map"    -> LET r == Items(PairOf(t)) IN As(r, Inserted(r.val))
       [] OTHER           -> UnpackScalar(t, s, before)

\* from_buffer() and unpack() of a T{}.
UnpackBuffer(t, buffer) ==
  UnpackValue(t, Stream(TRUE, buffer, <<>>), Default(t)).val

-----------------------------------------------------------------------------
(* Reference: the values that come back, and what they come back as. *)

\* No part of v is a blank character or not finite.
RECURSIVE Survives(_, _)
Survives(t, v) ==
  CASE t.of = "schar"  -> v \notin Blanks
    [] t.of = "double" -> v.finite
    [] t.of = "tuple"  -> \A i \in DOMAIN v : Survives(t.items[i], v[i])
    [] t.of = "struct" -> Survives(FieldsOf(t), ToTuple(t, v))
    [] t.of = "seq"    -> \A i \in DOMAIN v : Survives(t.item, v[i])
    [] t.of = "set"    -> \A x \in v : Survives(t.item, x)
    [] t.of = "map"    -> \A k \in DOMAIN v : Survives(PairOf(t), <<k, v[k]>>)
    [] OTHER           -> TRUE

\* v with its doubles rounded.
RECURSIVE Returned(_, _)
Returned(t, v) ==
  CASE t.of = "double" -> Rounded(v)
    [] t.of = "tuple"  -> [i \in DOMAIN v |-> Returned(t.items[i], v[i])]
    [] t.of = "struct" -> FromTuple(t, Returned(FieldsOf(t), ToTuple(t, v)))
    [] t.of = "seq"    -> [i \in DOMAIN v |-> Returned(t.item, v[i])]
    [] t.of = "set"    -> {Returned(t.item, x) : x \in v}
    [] t.of = "map"    -> Inserted([i \in DOMAIN SetToSeq(DOMAIN v) |->
                            LET k == SetToSeq(DOMAIN v)[i] IN
                              Returned(PairOf(t), <<k, v[k]>>)])
    [] OTHER           -> v

=============================================================================
