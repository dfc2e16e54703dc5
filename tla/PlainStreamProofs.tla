-------------------------- MODULE PlainStreamProofs --------------------------
(***************************************************************************)
(* What is packed comes back: single values of every kind, rows of them    *)
(* (tuples and structs) and lists of them, of any length, and whatever     *)
(* follows them in the buffer is left for the next to read.  For items of  *)
(* other types the step from the items to their tuple or container is      *)
(* proved, ItemsComeBack: what an induction over types would rest on.  A   *)
(* list of which fewer items are there than it announces fails, and still  *)
(* gets as many.                                                           *)
(*                                                                         *)
(* Induction over the number of items is by the least item that does not   *)
(* come back, Least and UpTo: a theorem about sets of numbers needs no     *)
(* operator as a parameter.                                                *)
(***************************************************************************)
EXTENDS PlainStream, SequenceTheorems, WellFoundedInduction, TLAPS

-----------------------------------------------------------------------------
(* Induction over natural numbers, for sets of them. *)

LEMMA Least ==
  ASSUME NEW S \in SUBSET Nat, S # {}
  PROVE  \E n \in S : \A m \in S : n <= m
<1> DEFINE R == {ss \in Nat \X Nat : ss[1] < ss[2]}
<1>1. IsWellFoundedOn(R, Nat)
  BY NatLessThanWellFounded DEF OpToRel
<1> HIDE DEF R
<1>2. PICK n \in S : \A m \in S : <<m, n>> \notin R
  BY <1>1, WFMin
<1>3. ASSUME NEW m \in S PROVE n <= m
  <2>1. <<m, n>> \notin R /\ m \in Nat /\ n \in Nat
    BY <1>2
  <2> QED
    BY <2>1 DEF R
<1> QED
  BY <1>3

LEMMA UpTo ==
  ASSUME NEW n \in Nat, NEW S, 0 \in S, \A i \in 1..n : i - 1 \in S => i \in S
  PROVE  \A i \in 0..n : i \in S
<1> SUFFICES ASSUME (0..n) \ S # {} PROVE FALSE
  OBVIOUS
<1> DEFINE Out == (0..n) \ S
<1>a. Out \in SUBSET Nat /\ Out # {}
  OBVIOUS
<1> HIDE DEF Out
<1>b. PICK i \in Out : \A j \in Out : i <= j
  BY <1>a, Least
<1> USE DEF Out
<1>1. i \in (0..n) \ S /\ \A j \in (0..n) \ S : i <= j
  BY <1>b
<1>2. i \in 1..n /\ i - 1 \in 0..n /\ ~(i <= i - 1)
  BY <1>1
<1>3. i - 1 \in S
  BY <1>1, <1>2
<1> QED
  BY <1>1, <1>2, <1>3

-----------------------------------------------------------------------------
(* Single values. *)

ScalarKinds == {"int", "enum", "char", "schar", "double", "str"}

\* The values of a kind; strings and letters may be anything.
IsValue(t, v) ==
  /\ t.of \in {"int", "enum", "char"} => v \in Int
  /\ t.of = "double" => v \in [six : Int, rest : Int, finite : BOOLEAN]

\* Those that come back ...
Lasts(t, v) ==
  /\ t.of = "schar" => v \notin Blanks
  /\ t.of = "double" => v.finite

\* ... and what they come back as.
Back(t, v) == IF t.of = "double" THEN Rounded(v) ELSE v

Good(in, val) == Stream(TRUE, in, val)
Failed(in, val) == Stream(FALSE, in, val)

LEMMA ExtractsBack ==
  ASSUME NEW t, t.of \in ScalarKinds, NEW v, IsValue(t, v), Lasts(t, v)
  PROVE  /\ PackScalar(t, v) = <<Lexeme(Form(t), Back(t, v))>>
         /\ Extract(t, Lexeme(Form(t), Back(t, v))).ok = TRUE
         /\ Extract(t, Lexeme(Form(t), Back(t, v))).val = Back(t, v)
<1> USE DEF ScalarKinds, IsValue, Lasts, Back, PackScalar, Extract, Lexeme, Form,
            IsNumber, Digit, WordOf
<1>1. CASE t.of \in {"int", "enum"}
  BY <1>1
<1>2. CASE t.of = "char"
  BY <1>2
<1>3. CASE t.of = "schar"
  BY <1>3
<1>4. CASE t.of = "double"
  BY <1>4 DEF Rounded, Double
<1>5. CASE t.of = "str"
  BY <1>5
<1> QED
  BY <1>1, <1>2, <1>3, <1>4, <1>5

\* A value that is not a blank, and is finite, comes back as it was, but for the
\* digits of a double beyond the sixth, and takes nothing of what follows it.
THEOREM ScalarComesBack ==
  ASSUME NEW t, t.of \in ScalarKinds, NEW v, IsValue(t, v), Lasts(t, v),
         NEW L, NEW rest \in Seq(L), NEW val, NEW before
  PROVE  UnpackScalar(t, Good(PackScalar(t, v) \o rest, val), before)
           = Good(rest, Back(t, v))
<1> DEFINE x == Lexeme(Form(t), Back(t, v))
<1>1. PackScalar(t, v) = <<x>> /\ Extract(t, x).ok = TRUE /\ Extract(t, x).val = Back(t, v)
  BY ExtractsBack
<1> HIDE DEF x
<1>2. <<x>> \o rest # <<>> /\ Head(<<x>> \o rest) = x /\ Tail(<<x>> \o rest) = rest
  OBVIOUS
<1> QED
  BY <1>1, <1>2 DEF UnpackScalar, Good, Stream

-----------------------------------------------------------------------------
(* Texts one after another. *)

Nil == <<>>
Cat(s, t) == s \o t

LEMMA CatFacts ==
  ASSUME NEW L
  PROVE  /\ Nil \in Seq(L)
         /\ \A s \in Seq(L) : Cat(Nil, s) = s /\ Cat(s, Nil) = s
         /\ \A s, t \in Seq(L) : Cat(s, t) \in Seq(L)
         /\ \A s, t, u \in Seq(L) : Cat(Cat(s, t), u) = Cat(s, Cat(t, u))
BY ConcatAssociative DEF Nil, Cat

\* What follows the same text is the same.
LEMMA CatCancels ==
  ASSUME NEW L, NEW s \in Seq(L), NEW t \in Seq(L), NEW u \in Seq(L), Cat(s, t) = Cat(s, u)
  PROVE  t = u
<1>1. s \o t = s \o u
  BY DEF Cat
<1> QED
  BY <1>1, ConcatSimplifications, Zenon

\* f[i] is the text written by the first i of n items.
Written(f, n, texts) ==
  /\ f[0] = Nil
  /\ \A i \in 1..n : f[i] = Cat(f[i - 1], texts[i])

LEMMA FlattenDefined ==
  ASSUME NEW n \in Nat, n # 0, NEW texts, Len(texts) = n
  PROVE  FlattenSeq(texts) =
           (CHOOSE g : g = [i \in 1..n |-> IF i = 1 THEN texts[i]
                                           ELSE Cat(g[i - 1], texts[i])])[n]
BY DEF FlattenSeq, Cat

\* There is a function with the recursive definition of FlattenSeq.
Rec(g, k, texts) ==
  g = [i \in 1..k |-> IF i = 1 THEN texts[i] ELSE Cat(g[i - 1], texts[i])]

LEMMA RecExists ==
  ASSUME NEW n \in Nat, NEW texts
  PROVE  \E g : Rec(g, n, texts)
<1> DEFINE S == {k \in 0..n : \E g : Rec(g, k, texts)}
<1>1. 0 \in S
  <2>1. Rec([i \in 1..0 |-> 0], 0, texts)
    BY DEF Rec
  <2> QED
    BY <2>1
<1>2. ASSUME NEW k \in 1..n, k - 1 \in S PROVE k \in S
  <2>1. PICK g : Rec(g, k - 1, texts)
    BY <1>2
  <2> DEFINE h == [i \in 1..k |-> IF i < k THEN g[i]
                                  ELSE IF i = 1 THEN texts[i] ELSE Cat(g[i - 1], texts[i])]
  <2>2. \A i \in 1..(k - 1) : g[i] = IF i = 1 THEN texts[i] ELSE Cat(g[i - 1], texts[i])
    BY <2>1 DEF Rec
  <2>3. \A i \in 1..k : h[i] = IF i = 1 THEN texts[i] ELSE Cat(h[i - 1], texts[i])
    BY <2>2
  <2>4. Rec(h, k, texts)
    BY <2>3 DEF Rec
  <2> HIDE DEF h
  <2> QED
    BY <2>4
<1>3. \A k \in 0..n : k \in S
  <2> HIDE DEF S
  <2> QED
    BY <1>1, <1>2, UpTo
<1> QED
  BY <1>3

LEMMA Flattens ==
  ASSUME NEW L, NEW n \in Nat, NEW texts \in [1..n -> Seq(L)]
  PROVE  \E f \in [0..n -> Seq(L)] : Written(f, n, texts) /\ FlattenSeq(texts) = f[n]
<1>1. texts \in Seq(Seq(L)) /\ Len(texts) = n
  BY LenProperties
<1>2. CASE n = 0
  <2>1. FlattenSeq(texts) = Nil
    <3>1. texts = Nil
      BY <1>1, <1>2 DEF Nil
    <3> QED
      BY <1>1, <1>2, <3>1 DEF FlattenSeq
  <2> DEFINE f == [i \in 0..n |-> Nil]
  <2>2. f \in [0..n -> Seq(L)] /\ f[0] = Nil /\ f[n] = Nil
    BY CatFacts
  <2> HIDE DEF f
  <2> QED
    BY <1>2, <2>1, <2>2 DEF Written
<1>3. CASE n # 0
  <2> DEFINE a == CHOOSE g : Rec(g, n, texts)
  <2>1. Rec(a, n, texts)
    BY RecExists
  <2>2. FlattenSeq(texts) = a[n]
    BY <1>1, <1>3, FlattenDefined DEF Rec
  <2> HIDE DEF a
  <2> DEFINE f == [i \in 0..n |-> IF i = 0 THEN Nil ELSE a[i]]
             T == {i \in 0..n : f[i] \in Seq(L)}
  <2>3. \A i \in 1..n : a[i] = IF i = 1 THEN texts[i] ELSE Cat(a[i - 1], texts[i])
    BY <2>1 DEF Rec
  <2>4. ASSUME NEW i \in 1..n PROVE f[i] = Cat(f[i - 1], texts[i])
    <3>1. Cat(Nil, texts[i]) = texts[i]
      BY CatFacts
    <3> QED
      BY <2>3, <3>1
  <2>5. f[0] = Nil /\ f[n] = a[n]
    BY <1>3
  <2>6. f = [i \in 0..n |-> f[i]]
    OBVIOUS
  <2> HIDE DEF f
  <2>7. \A i \in 0..n : i \in T
    <3>1. 0 \in T
      BY <2>5, CatFacts
    <3>2. ASSUME NEW i \in 1..n, i - 1 \in T PROVE i \in T
      <4>1. f[i - 1] \in Seq(L) /\ texts[i] \in Seq(L) /\ i \in 0..n
        BY <3>2
      <4>2. Cat(f[i - 1], texts[i]) \in Seq(L)
        BY <4>1, CatFacts
      <4> QED
        BY <2>4, <4>1, <4>2
    <3> HIDE DEF T
    <3> QED
      BY <3>1, <3>2, UpTo
  <2>8. f \in [0..n -> Seq(L)]
    BY <2>6, <2>7
  <2> QED
    BY <2>2, <2>4, <2>5, <2>8 DEF Written
<1> QED
  BY <1>2, <1>3

\* left[i] is what is left to read after the first i items.
Left(left, n, texts) == \A i \in 1..n : left[i - 1] = Cat(texts[i], left[i])

LEMMA Remainders ==
  ASSUME NEW L, NEW n \in Nat, NEW texts \in [1..n -> Seq(L)], NEW rest \in Seq(L)
  PROVE  \E left \in [0..n -> Seq(L)] :
           /\ left[0] = Cat(FlattenSeq(texts), rest)
           /\ left[n] = rest
           /\ Left(left, n, texts)
<1>1. PICK f \in [0..n -> Seq(L)] : Written(f, n, texts) /\ FlattenSeq(texts) = f[n]
  BY Flattens
<1> DEFINE whole == Cat(f[n], rest)
           S == {k \in 0..n : \E l \in Seq(L) : whole = Cat(f[n - k], l)}
           left == [i \in 0..n |-> CHOOSE l \in Seq(L) : whole = Cat(f[i], l)]
<1>2. 0 \in S
  OBVIOUS
<1>3. ASSUME NEW k \in 1..n, k - 1 \in S PROVE k \in S
  <2> DEFINE i == n - (k - 1)
  <2>1. i \in 1..n /\ n - k = i - 1 /\ f[i - 1] \in Seq(L) /\ texts[i] \in Seq(L)
    OBVIOUS
  <2>2. PICK l \in Seq(L) : whole = Cat(f[i], l)
    BY <1>3
  <2>3. f[i] = Cat(f[i - 1], texts[i])
    BY <1>1, <2>1 DEF Written
  <2> HIDE DEF i, whole
  <2>4. Cat(texts[i], l) \in Seq(L) /\ whole = Cat(f[i - 1], Cat(texts[i], l))
    BY <2>1, <2>2, <2>3, CatFacts
  <2>5. \E m \in Seq(L) : whole = Cat(f[n - k], m)
    BY <2>1, <2>4
  <2>6. k \in 0..n
    OBVIOUS
  <2> QED
    BY <2>5, <2>6
<1> HIDE DEF S
<1>4. \A k \in 0..n : k \in S
  BY <1>2, <1>3, UpTo
<1>5. ASSUME NEW i \in 0..n PROVE \E l \in Seq(L) : whole = Cat(f[i], l)
  <2>1. n - i \in 0..n /\ n - (n - i) = i
    OBVIOUS
  <2>2. n - i \in S
    BY <1>4, <2>1
  <2> QED
    BY <2>1, <2>2 DEF S
<1> HIDE DEF whole
<1>6. \A i \in 0..n : left[i] \in Seq(L) /\ whole = Cat(f[i], left[i])
  BY <1>5
<1>7. left \in [0..n -> Seq(L)]
  BY <1>6
<1> HIDE DEF left
<1>8. left[0] = whole
  <2>1. f[0] = Nil /\ left[0] \in Seq(L) /\ whole = Cat(f[0], left[0])
    BY <1>1, <1>6 DEF Written
  <2> QED
    BY <2>1, CatFacts
<1>9. left[n] = rest
  <2>1. f[n] \in Seq(L) /\ left[n] \in Seq(L) /\ Cat(f[n], rest) = Cat(f[n], left[n])
    BY <1>6 DEF whole
  <2> QED
    BY <2>1, CatCancels
<1>10. ASSUME NEW i \in 1..n PROVE left[i - 1] = Cat(texts[i], left[i])
  <2>1. /\ f[i - 1] \in Seq(L) /\ texts[i] \in Seq(L)
        /\ left[i] \in Seq(L) /\ left[i - 1] \in Seq(L)
        /\ whole = Cat(f[i - 1], left[i - 1])
    BY <1>6, <1>7
  <2>2. whole = Cat(Cat(f[i - 1], texts[i]), left[i])
    BY <1>1, <1>6 DEF Written
  <2>3. Cat(texts[i], left[i]) \in Seq(L)
    BY <2>1, CatFacts
  <2>4. Cat(Cat(f[i - 1], texts[i]), left[i]) = Cat(f[i - 1], Cat(texts[i], left[i]))
    <3> DEFINE a == f[i - 1]
               b == texts[i]
               c == left[i]
    <3>1. a \in Seq(L) /\ b \in Seq(L) /\ c \in Seq(L)
      BY <2>1
    <3> HIDE DEF a, b, c
    <3>2. Cat(Cat(a, b), c) = Cat(a, Cat(b, c))
      BY <3>1, CatFacts
    <3> QED
      BY <3>2 DEF a, b, c
  <2>5. Cat(f[i - 1], left[i - 1]) = Cat(f[i - 1], Cat(texts[i], left[i]))
    BY <2>1, <2>2, <2>4
  <2> QED
    BY <2>1, <2>3, <2>5, CatCancels
<1> QED
  BY <1>1, <1>7, <1>8, <1>9, <1>10 DEF Left, whole

-----------------------------------------------------------------------------
(* Items read one after another. *)

\* A state of a reader is all there is to the next: where two runs agree at the
\* start and go on alike, they agree at the end.
LEMMA OnlyRun ==
  ASSUME NEW n \in Nat, NEW g, NEW e, g[0] = e[0],
         \A i \in 1..n : g[i - 1] = e[i - 1] => g[i] = e[i]
  PROVE  g[n] = e[n]
<1> DEFINE S == {i \in 0..n : g[i] = e[i]}
<1>1. 0 \in S
  OBVIOUS
<1>2. \A i \in 1..n : i - 1 \in S => i \in S
  OBVIOUS
<1> HIDE DEF S
<1>3. n \in S
  BY <1>1, <1>2, UpTo
<1> QED
  BY <1>3 DEF S

\* The first values of a row.
First(values, i) == [j \in 1..i |-> values[j]]

IsRow(values, n, V) == values \in [1..n -> V]

Grows(values, n, V) ==
  /\ First(values, 0) = Nil
  /\ First(values, n) = values
  /\ \A i \in 0..n : First(values, i) \in Seq(V)
  /\ \A i \in 1..n : Append(First(values, i - 1), values[i]) = First(values, i)

LEMMA FirstGrows ==
  ASSUME NEW V, NEW n \in Nat, NEW values, IsRow(values, n, V)
  PROVE  Grows(values, n, V)
<1> USE DEF IsRow
<1>1. ASSUME NEW i \in 0..n PROVE First(values, i) \in Seq(V) /\ Len(First(values, i)) = i
  <2>1. First(values, i) \in [1..i -> V]
    BY DEF First
  <2> QED
    BY <2>1, LenProperties, IsASeq
<1>2. First(values, 0) = Nil
  <2>1. First(values, 0) \in Seq(V) /\ Len(First(values, 0)) = 0
    BY <1>1
  <2> QED
    BY <2>1, EmptySeq DEF Nil
<1>3. First(values, n) = values
  BY DEF First
<1>4. ASSUME NEW i \in 1..n PROVE Append(First(values, i - 1), values[i]) = First(values, i)
  <2> DEFINE f == First(values, i - 1)
             g == First(values, i)
             a == Append(f, values[i])
  <2>1. f \in Seq(V) /\ Len(f) = i - 1 /\ g \in Seq(V) /\ Len(g) = i /\ values[i] \in V
    BY <1>1
  <2>2. \A j \in 1..(i - 1) : f[j] = values[j] /\ j \in 1..i
    BY DEF First
  <2>3. \A j \in 1..i : g[j] = values[j]
    BY DEF First
  <2> HIDE DEF f, g
  <2>4. /\ a \in Seq(V)
        /\ Len(a) = Len(f) + 1
        /\ \A j \in 1..Len(f) : a[j] = f[j]
        /\ a[Len(f) + 1] = values[i]
    BY <2>1, AppendProperties
  <2> HIDE DEF a
  <2>5. ASSUME NEW j \in 1..i PROVE a[j] = g[j]
    BY <2>1, <2>2, <2>3, <2>4
  <2>6. a = g
    BY <2>1, <2>4, <2>5, SeqEqual
  <2> QED
    BY <2>6 DEF a, f, g
<1> QED
  BY <1>1, <1>2, <1>3, <1>4 DEF Grows

\* The streams that the readers of n items meet, and leave: what is left to read
\* after i of them is in[i], and ok[i] whether that went well.
Expected(ok, in, values, n) == [i \in 0..n |-> Stream(ok[i], in[i], First(values, i))]

IsRun(e, ok, in, values, n) ==
  /\ e = [i \in 0..n |-> e[i]]
  /\ e[0] = Stream(ok[0], in[0], Nil)
  /\ e[n] = Stream(ok[n], in[n], values)
  /\ \A i \in 1..n : \E done :
       /\ e[i - 1] = Stream(ok[i - 1], in[i - 1], done)
       /\ e[i] = Then(e[i - 1], Stream(ok[i], in[i], values[i]))

LEMMA ExpectedIsRun ==
  ASSUME NEW n \in Nat, NEW V, NEW values, IsRow(values, n, V), NEW ok, NEW in
  PROVE  IsRun(Expected(ok, in, values, n), ok, in, values, n)
<1> DEFINE e == Expected(ok, in, values, n)
<1>1. Grows(values, n, V)
  BY FirstGrows
<1>2. e = [i \in 0..n |-> e[i]]
  BY DEF Expected
<1>3. \A i \in 0..n : e[i] = Stream(ok[i], in[i], First(values, i))
  BY DEF Expected
<1> HIDE DEF e
<1>4. e[0] = Stream(ok[0], in[0], Nil) /\ e[n] = Stream(ok[n], in[n], values)
  BY <1>1, <1>3 DEF Grows
<1>5. ASSUME NEW i \in 1..n
      PROVE  \E done : /\ e[i - 1] = Stream(ok[i - 1], in[i - 1], done)
                       /\ e[i] = Then(e[i - 1], Stream(ok[i], in[i], values[i]))
  <2>1. /\ e[i - 1] = Stream(ok[i - 1], in[i - 1], First(values, i - 1))
        /\ e[i] = Stream(ok[i], in[i], First(values, i))
    BY <1>3
  <2>2. First(values, i) = Append(First(values, i - 1), values[i])
    BY <1>1 DEF Grows
  <2>3. e[i - 1].val = First(values, i - 1)
    BY <2>1 DEF Stream
  <2>4. Then(e[i - 1], Stream(ok[i], in[i], values[i]))
          = Stream(ok[i], in[i], Append(First(values, i - 1), values[i]))
    BY <2>3 DEF Then, Stream
  <2> QED
    BY <2>1, <2>2, <2>4
<1> QED
  BY <1>2, <1>4, <1>5 DEF IsRun, e

AllWell(n) == [i \in 0..n |-> TRUE]

\* Items of any type, written one after another: if each of them comes back where
\* its text stands, and leaves what follows, so do all of them together.  This is
\* the step from the fields to a tuple or a struct, and from the items to a
\* container.
THEOREM ItemsComeBack ==
  ASSUME NEW Read(_, _), NEW L, NEW n \in Nat, NEW texts \in [1..n -> Seq(L)],
         NEW V, NEW values, IsRow(values, n, V), NEW rest \in Seq(L), NEW val,
         \A i \in 1..n : \A follow \in Seq(L) : \A done :
           Read(i, Good(Cat(texts[i], follow), done)) = Good(follow, values[i])
  PROVE  ReadEach(Read, Good(Cat(FlattenSeq(texts), rest), val), n) = Good(rest, values)
<1>1. PICK in \in [0..n -> Seq(L)] :
        /\ in[0] = Cat(FlattenSeq(texts), rest)
        /\ in[n] = rest
        /\ Left(in, n, texts)
  BY Remainders
<1> DEFINE s == Good(Cat(FlattenSeq(texts), rest), val)
           body(g) == [i \in 0..n |-> IF i = 0 THEN Stream(s.ok, s.in, <<>>)
                                      ELSE Then(g[i - 1], Read(i, g[i - 1]))]
           after == CHOOSE g : g = body(g)
           ok == AllWell(n)
           e == Expected(ok, in, values, n)
<1>2. ASSUME NEW i \in 1..n, NEW done
      PROVE  Read(i, Stream(ok[i - 1], in[i - 1], done)) = Stream(ok[i], in[i], values[i])
  <2>1. in[i - 1] = Cat(texts[i], in[i]) /\ in[i] \in Seq(L)
    BY <1>1 DEF Left
  <2>2. ok[i - 1] = TRUE /\ ok[i] = TRUE
    BY DEF AllWell
  <2> HIDE DEF ok
  <2>3. Stream(ok[i - 1], in[i - 1], done) = Good(Cat(texts[i], in[i]), done)
    BY <2>1, <2>2 DEF Good, Stream
  <2>4. Stream(ok[i], in[i], values[i]) = Good(in[i], values[i])
    BY <2>2 DEF Good, Stream
  <2>5. Read(i, Good(Cat(texts[i], in[i]), done)) = Good(in[i], values[i])
    BY <2>1
  <2> QED
    BY <2>3, <2>4, <2>5
<1>3. ReadEach(Read, s, n) = after[n]
  BY DEF ReadEach
<1>4. IsRun(e, ok, in, values, n)
  BY ExpectedIsRun
<1>5. ok[0] = TRUE /\ ok[n] = TRUE
  BY DEF AllWell
<1> HIDE DEF e, ok
<1>6. Stream(s.ok, s.in, <<>>) = e[0]
  BY <1>1, <1>4, <1>5 DEF IsRun, Good, Stream, Nil
<1>7. ASSUME NEW i \in 1..n PROVE Then(e[i - 1], Read(i, e[i - 1])) = e[i]
  <2>1. PICK done : /\ e[i - 1] = Stream(ok[i - 1], in[i - 1], done)
                    /\ e[i] = Then(e[i - 1], Stream(ok[i], in[i], values[i]))
    BY <1>4 DEF IsRun
  <2>2. Read(i, e[i - 1]) = Stream(ok[i], in[i], values[i])
    BY <1>2, <2>1
  <2> QED
    BY <2>1, <2>2
<1>8. e = body(e)
  <2>1. e = [i \in 0..n |-> e[i]]
    BY <1>4 DEF IsRun
  <2> HIDE DEF s
  <2>2. \A i \in 0..n : e[i] = IF i = 0 THEN Stream(s.ok, s.in, <<>>)
                               ELSE Then(e[i - 1], Read(i, e[i - 1]))
    <3> SUFFICES ASSUME NEW i \in 0..n
                 PROVE  e[i] = IF i = 0 THEN Stream(s.ok, s.in, <<>>)
                               ELSE Then(e[i - 1], Read(i, e[i - 1]))
      OBVIOUS
    <3>1. CASE i = 0
      BY <1>6, <3>1
    <3>2. CASE i # 0
      <4>1. i \in 1..n
        BY <3>2
      <4> QED
        BY <1>7, <3>2, <4>1
    <3> QED
      BY <3>1, <3>2
  <2> QED
    BY <2>1, <2>2
<1>9. after = body(after)
  BY <1>8
<1> HIDE DEF after
<1>10. after[0] = e[0] /\ \A i \in 1..n : after[i - 1] = e[i - 1] => after[i] = e[i]
  BY <1>6, <1>7, <1>9
<1>11. after[n] = e[n]
  BY <1>10, OnlyRun
<1>12. e[n] = Good(rest, values)
  BY <1>1, <1>4, <1>5 DEF IsRun, Good, Stream
<1> QED
  BY <1>3, <1>11, <1>12

-----------------------------------------------------------------------------
(* Single values read one after another: the same, for their reader. *)

ReadsScalars(g, s, types, before, n) ==
  g = [i \in 0..n |-> IF i = 0 THEN Stream(s.ok, s.in, <<>>)
                      ELSE Then(g[i - 1], UnpackScalar(types[i], g[i - 1], before[i]))]

\* Each value is read where its reader expects it.
Advance(ok, in, values, types, before, n) ==
  \A i \in 1..n : \A done :
    UnpackScalar(types[i], Stream(ok[i - 1], in[i - 1], done), before[i])
      = Stream(ok[i], in[i], values[i])

OnlyResult(s, types, before, n, result) ==
  /\ \E g : ReadsScalars(g, s, types, before, n)
  /\ \A g : ReadsScalars(g, s, types, before, n) => g[n] = result

LEMMA ScalarRun ==
  ASSUME NEW n \in Nat, NEW V, NEW values, IsRow(values, n, V),
         NEW ok, NEW in, NEW val, NEW types, NEW before,
         Advance(ok, in, values, types, before, n)
  PROVE  OnlyResult(Stream(ok[0], in[0], val), types, before, n, Stream(ok[n], in[n], values))
<1> DEFINE s == Stream(ok[0], in[0], val)
           e == Expected(ok, in, values, n)
           next(i, r) == UnpackScalar(types[i], r, before[i])
<1>1. IsRun(e, ok, in, values, n)
  BY ExpectedIsRun
<1> HIDE DEF e
<1>2. \A i \in 1..n : \A done :
        next(i, Stream(ok[i - 1], in[i - 1], done)) = Stream(ok[i], in[i], values[i])
  BY DEF Advance
<1>3. \A g : ReadsScalars(g, s, types, before, n)
        <=> g = [i \in 0..n |-> IF i = 0 THEN Stream(s.ok, s.in, <<>>)
                                ELSE Then(g[i - 1], next(i, g[i - 1]))]
  BY DEF ReadsScalars
<1> HIDE DEF next
<1>4. Stream(s.ok, s.in, <<>>) = e[0]
  BY <1>1 DEF IsRun, Stream, Nil
<1>5. ASSUME NEW i \in 1..n PROVE Then(e[i - 1], next(i, e[i - 1])) = e[i]
  <2>1. PICK done : /\ e[i - 1] = Stream(ok[i - 1], in[i - 1], done)
                    /\ e[i] = Then(e[i - 1], Stream(ok[i], in[i], values[i]))
    BY <1>1 DEF IsRun
  <2>2. next(i, e[i - 1]) = Stream(ok[i], in[i], values[i])
    BY <1>2, <2>1
  <2> QED
    BY <2>1, <2>2
<1>6. ReadsScalars(e, s, types, before, n)
  <2>1. e = [i \in 0..n |-> e[i]]
    BY <1>1 DEF IsRun
  <2>2. \A i \in 0..n : e[i] = IF i = 0 THEN Stream(s.ok, s.in, <<>>)
                               ELSE Then(e[i - 1], next(i, e[i - 1]))
    BY <1>4, <1>5
  <2>3. e = [i \in 0..n |-> IF i = 0 THEN Stream(s.ok, s.in, <<>>)
                            ELSE Then(e[i - 1], next(i, e[i - 1]))]
    BY <2>1, <2>2
  <2> QED
    BY <1>3, <2>3
<1>7. ASSUME NEW g, ReadsScalars(g, s, types, before, n) PROVE g[n] = e[n]
  <2>1. g = [i \in 0..n |-> IF i = 0 THEN Stream(s.ok, s.in, <<>>)
                            ELSE Then(g[i - 1], next(i, g[i - 1]))]
    BY <1>3, <1>7
  <2>2. g[0] = e[0] /\ \A i \in 1..n : g[i - 1] = e[i - 1] => g[i] = e[i]
    BY <1>4, <1>5, <2>1
  <2> QED
    BY <2>2, OnlyRun
<1>8. e[n] = Stream(ok[n], in[n], values)
  BY <1>1 DEF IsRun
<1> QED
  BY <1>6, <1>7, <1>8 DEF OnlyResult

\* The readers of a tuple and of a container of single values.
ReadRow(types, before, s, n) ==
  ReadEach(LAMBDA i, r : UnpackScalar(types[i], r, before[i]), s, n)

ReadList(t, before, s) ==
  ReadItems(LAMBDA i, r : UnpackScalar(t, r, before), s)

LEMMA RowReads ==
  ASSUME NEW n \in Nat, NEW V, NEW values, IsRow(values, n, V),
         NEW ok, NEW in, NEW val, NEW types, NEW before,
         Advance(ok, in, values, types, before, n)
  PROVE  ReadRow(types, before, Stream(ok[0], in[0], val), n) = Stream(ok[n], in[n], values)
<1> DEFINE s == Stream(ok[0], in[0], val)
           after == CHOOSE g : ReadsScalars(g, s, types, before, n)
<1>1. ReadRow(types, before, s, n) = after[n]
  BY DEF ReadRow, ReadEach, ReadsScalars
<1>2. OnlyResult(s, types, before, n, Stream(ok[n], in[n], values))
  BY ScalarRun
<1>3. ReadsScalars(after, s, types, before, n)
  BY <1>2 DEF OnlyResult
<1> QED
  BY <1>1, <1>2, <1>3 DEF OnlyResult

Same(x, n) == [i \in 1..n |-> x]

LEMMA ListReads ==
  ASSUME NEW n \in Nat, NEW V, NEW values, IsRow(values, n, V),
         NEW ok, NEW in, NEW t, NEW before, NEW s,
         Advance(ok, in, values, Same(t, n), Same(before, n), n),
         UnpackScalar([of |-> "int"], s, 0) = Stream(ok[0], in[0], n)
  PROVE  ReadList(t, before, s) = Stream(ok[n], in[n], values)
<1> DEFINE size == Stream(ok[0], in[0], n)
           ts == Same(t, n)
           bs == Same(before, n)
           body(g) == [i \in 0..n |-> IF i = 0 THEN Stream(size.ok, size.in, <<>>)
                                      ELSE Then(g[i - 1], UnpackScalar(t, g[i - 1], before))]
           after == CHOOSE g : g = body(g)
<1>1. ReadList(t, before, s) = after[n]
  <2>1. size.val = n
    BY DEF Stream
  <2> QED
    BY <2>1 DEF ReadList, ReadItems, ReadEach
<1>2. OnlyResult(size, ts, bs, n, Stream(ok[n], in[n], values))
  BY ScalarRun
<1>3. \A g : g = body(g) <=> ReadsScalars(g, size, ts, bs, n)
  BY DEF ReadsScalars, Same
<1>4. after = body(after)
  BY <1>2, <1>3 DEF OnlyResult
<1> QED
  BY <1>1, <1>2, <1>3, <1>4 DEF OnlyResult

-----------------------------------------------------------------------------
(* Tuples and lists of single values come back. *)

\* Values that last.
Lasting(t, v) == t.of \in ScalarKinds /\ IsValue(t, v) /\ Lasts(t, v)

LastingRow(types, vals, n) == \A i \in 1..n : Lasting(types[i], vals[i])

LEMMA ScalarReads ==
  ASSUME NEW t, NEW v, Lasting(t, v), NEW L, NEW follow \in Seq(L),
         NEW text, text = Cat(PackScalar(t, v), follow), NEW done, NEW before
  PROVE  UnpackScalar(t, Good(text, done), before) = Good(follow, Back(t, v))
<1>1. text = PackScalar(t, v) \o follow
  BY DEF Cat
<1> QED
  BY <1>1, ScalarComesBack DEF Lasting

TextsOf(types, vals, n) == [i \in 1..n |-> PackScalar(types[i], vals[i])]

BackRow(types, vals, n) == [i \in 1..n |-> Back(types[i], vals[i])]

\* in[i] is what is left after i values, and they are read one after another.
GoesWell(in, types, vals, before, n, rest) ==
  /\ in[0] = Cat(FlattenSeq(TextsOf(types, vals, n)), rest)
  /\ in[n] = rest
  /\ Advance(AllWell(n), in, BackRow(types, vals, n), types, before, n)

LEMMA TextsOfLexemes ==
  ASSUME NEW n \in Nat, NEW types, NEW vals, LastingRow(types, vals, n), NEW L
  PROVE  \E M : L \subseteq M /\ TextsOf(types, vals, n) \in [1..n -> Seq(M)]
<1> DEFINE texts == TextsOf(types, vals, n)
           x(i) == Lexeme(Form(types[i]), Back(types[i], vals[i]))
           M == L \cup {x(i) : i \in 1..n}
<1>1. ASSUME NEW i \in 1..n PROVE texts[i] = <<x(i)>>
  BY ExtractsBack DEF LastingRow, Lasting, TextsOf
<1>2. ASSUME NEW i \in 1..n PROVE texts[i] \in Seq(M)
  <2> DEFINE y == x(i)
  <2>1. y \in M /\ texts[i] = <<y>>
    BY <1>1
  <2> HIDE DEF y, M
  <2> QED
    BY <2>1
<1>3. L \subseteq M
  OBVIOUS
<1> HIDE DEF M
<1>4. texts \in [1..n -> Seq(M)]
  BY <1>2 DEF TextsOf
<1> QED
  BY <1>3, <1>4

LEMMA RowAdvances ==
  ASSUME NEW n \in Nat, NEW types, NEW vals, NEW before, LastingRow(types, vals, n),
         NEW L, NEW rest \in Seq(L)
  PROVE  \E in : GoesWell(in, types, vals, before, n, rest)
<1> DEFINE texts == TextsOf(types, vals, n)
           ok == AllWell(n)
<1>1. PICK M : L \subseteq M /\ texts \in [1..n -> Seq(M)]
  BY TextsOfLexemes
<1>2. rest \in Seq(M)
  BY <1>1, SeqMonotonic
<1>3. PICK left \in [0..n -> Seq(M)] :
        /\ left[0] = Cat(FlattenSeq(texts), rest)
        /\ left[n] = rest
        /\ Left(left, n, texts)
  BY <1>1, <1>2, Remainders
<1>4. Advance(ok, left, BackRow(types, vals, n), types, before, n)
  <2> SUFFICES ASSUME NEW i \in 1..n, NEW done
               PROVE  UnpackScalar(types[i], Stream(ok[i - 1], left[i - 1], done), before[i])
                        = Stream(ok[i], left[i], BackRow(types, vals, n)[i])
    BY DEF Advance
  <2>1. /\ texts[i] = PackScalar(types[i], vals[i])
        /\ BackRow(types, vals, n)[i] = Back(types[i], vals[i])
        /\ ok[i - 1] = TRUE /\ ok[i] = TRUE
    BY DEF TextsOf, BackRow, AllWell
  <2> HIDE DEF texts, ok
  <2>2. left[i - 1] = Cat(PackScalar(types[i], vals[i]), left[i]) /\ left[i] \in Seq(M)
    BY <1>3, <2>1 DEF Left
  <2>3. Lasting(types[i], vals[i])
    BY DEF LastingRow
  <2>4. UnpackScalar(types[i], Good(left[i - 1], done), before[i])
          = Good(left[i], Back(types[i], vals[i]))
    BY <2>2, <2>3, ScalarReads
  <2>5. Stream(ok[i - 1], left[i - 1], done) = Good(left[i - 1], done)
    BY <2>1 DEF Good, Stream
  <2>6. Stream(ok[i], left[i], BackRow(types, vals, n)[i])
          = Good(left[i], Back(types[i], vals[i]))
    BY <2>1 DEF Good, Stream
  <2> QED
    BY <2>4, <2>5, <2>6
<1> QED
  BY <1>3, <1>4 DEF GoesWell

LEMMA BackRowIsRow ==
  ASSUME NEW n \in Nat, NEW types, NEW vals
  PROVE  \E V : IsRow(BackRow(types, vals, n), n, V)
<1>1. IsRow(BackRow(types, vals, n), n, {Back(types[i], vals[i]) : i \in 1..n})
  BY DEF IsRow, BackRow
<1> QED
  BY <1>1

\* A tuple or a struct of values that last comes back, whatever is read into, and
\* what follows it in the buffer is left.
THEOREM RowComesBack ==
  ASSUME NEW n \in Nat, NEW types, NEW vals, LastingRow(types, vals, n),
         NEW L, NEW rest \in Seq(L), NEW val, NEW before
  PROVE  ReadRow(types, before, Good(FlattenSeq(TextsOf(types, vals, n)) \o rest, val), n)
           = Good(rest, BackRow(types, vals, n))
<1> DEFINE whole == FlattenSeq(TextsOf(types, vals, n)) \o rest
           values == BackRow(types, vals, n)
           ok == AllWell(n)
<1>1. PICK in : GoesWell(in, types, vals, before, n, rest)
  BY RowAdvances
<1>2. PICK V : IsRow(values, n, V)
  BY BackRowIsRow
<1>3. in[0] = whole /\ in[n] = rest /\ Advance(ok, in, values, types, before, n)
  BY <1>1 DEF GoesWell, Cat
<1>4. ok[0] = TRUE /\ ok[n] = TRUE
  BY DEF AllWell
<1> HIDE DEF whole, values, ok
<1>5. ReadRow(types, before, Stream(ok[0], in[0], val), n) = Stream(ok[n], in[n], values)
  BY <1>2, <1>3, RowReads
<1>6. Stream(ok[0], in[0], val) = Good(whole, val)
  BY <1>3, <1>4 DEF Good, Stream
<1>7. Stream(ok[n], in[n], values) = Good(rest, values)
  BY <1>3, <1>4 DEF Good, Stream
<1> QED
  BY <1>5, <1>6, <1>7 DEF whole, values

\* The number of items is read first.
LEMMA SizeReads ==
  ASSUME NEW n \in Nat, NEW L, NEW text \in Seq(L), NEW val
  PROVE  UnpackScalar([of |-> "int"], Good(<<Lexeme("dec", n)>> \o text, val), 0) = Good(text, n)
<1> DEFINE t == [of |-> "int"]
<1>1. /\ t.of \in ScalarKinds /\ IsValue(t, n) /\ Lasts(t, n)
      /\ PackScalar(t, n) = <<Lexeme("dec", n)>>
      /\ Back(t, n) = n
  BY DEF ScalarKinds, IsValue, Lasts, PackScalar, Form, Back
<1> HIDE DEF t
<1>2. UnpackScalar(t, Good(PackScalar(t, n) \o text, val), 0) = Good(text, Back(t, n))
  BY <1>1, ScalarComesBack
<1> QED
  BY <1>1, <1>2 DEF t

\* A list of which m items are announced, and n written.
LEMMA ListText ==
  ASSUME NEW n \in Nat, NEW m \in Nat, NEW types, NEW vals, LastingRow(types, vals, n),
         NEW L, NEW rest \in Seq(L), NEW val
  PROVE  LET items == FlattenSeq(TextsOf(types, vals, n))
             Size(text) == UnpackScalar([of |-> "int"], Good(text, val), 0)
         IN  /\ Size(<<Lexeme("dec", m)>> \o items) = Good(Cat(items, Nil), m)
             /\ Size((<<Lexeme("dec", m)>> \o items) \o rest) = Good(Cat(items, rest), m)
<1> DEFINE x == Lexeme("dec", m)
           texts == TextsOf(types, vals, n)
           items == FlattenSeq(texts)
<1>1. PICK M : L \cup {x} \subseteq M /\ texts \in [1..n -> Seq(M)]
  BY TextsOfLexemes
<1>2. PICK f \in [0..n -> Seq(M)] : items = f[n]
  BY <1>1, Flattens
<1>3. items \in Seq(M) /\ rest \in Seq(M) /\ x \in M
  BY <1>1, <1>2, SeqMonotonic
<1> HIDE DEF items, x
<1>4. <<x>> \in Seq(M)
  BY <1>3
<1>5. (<<x>> \o items) \o rest = <<x>> \o (items \o rest)
  BY <1>3, <1>4, ConcatAssociative
<1>6. items \o rest \in Seq(M)
  BY <1>3
<1>7. Cat(items, Nil) = items
  BY <1>3, CatFacts
<1>8. \A text \in Seq(M) :
        UnpackScalar([of |-> "int"], Good(<<x>> \o text, val), 0) = Good(text, m)
  BY SizeReads DEF x
<1> QED
  BY <1>3, <1>5, <1>6, <1>7, <1>8 DEF Cat, items, x

\* A vector, a list or a set of values that last comes back item by item, and
\* what follows it in the buffer is left.
THEOREM ListComesBack ==
  ASSUME NEW n \in Nat, NEW t, NEW vals, LastingRow(Same(t, n), vals, n),
         NEW L, NEW rest \in Seq(L), NEW val, NEW before
  PROVE  ReadList(t, before, Good(PackIterable(TextsOf(Same(t, n), vals, n)) \o rest, val))
           = Good(rest, BackRow(Same(t, n), vals, n))
<1> DEFINE texts == TextsOf(Same(t, n), vals, n)
           values == BackRow(Same(t, n), vals, n)
           ok == AllWell(n)
           s == Good(PackIterable(texts) \o rest, val)
<1>1. PICK in : GoesWell(in, Same(t, n), vals, Same(before, n), n, rest)
  BY RowAdvances
<1>2. PICK V : IsRow(values, n, V)
  BY BackRowIsRow
<1>3. /\ in[0] = Cat(FlattenSeq(texts), rest)
      /\ in[n] = rest
      /\ Advance(ok, in, values, Same(t, n), Same(before, n), n)
  BY <1>1 DEF GoesWell
<1>4. ok[0] = TRUE /\ ok[n] = TRUE
  BY DEF AllWell
<1>5. Len(texts) = n
  <2>1. PICK M : texts \in [1..n -> Seq(M)]
    BY TextsOfLexemes
  <2> HIDE DEF texts
  <2> QED
    BY <2>1
<1>6. UnpackScalar([of |-> "int"], s, 0) = Good(in[0], n)
  BY <1>3, <1>5, ListText DEF PackIterable
<1> HIDE DEF texts, values, ok, s
<1>7. Stream(ok[0], in[0], n) = Good(in[0], n)
  BY <1>4 DEF Good, Stream
<1>8. ReadList(t, before, s) = Stream(ok[n], in[n], values)
  BY <1>2, <1>3, <1>6, <1>7, ListReads
<1>9. Stream(ok[n], in[n], values) = Good(rest, values)
  BY <1>3, <1>4 DEF Good, Stream
<1> QED
  BY <1>8, <1>9 DEF texts, values, s

\* n of m values are written: those that are not are left as they were before.
ShortRow(types, vals, before, n, m) ==
  [i \in 1..m |-> IF i <= n THEN Back(types[i], vals[i]) ELSE before[i]]

WellUpTo(n, m) == [i \in 0..m |-> IF i <= n THEN TRUE ELSE FALSE]

LEMMA ShortAdvances ==
  ASSUME NEW n \in Nat, NEW m \in Nat, n < m, NEW types, NEW vals, NEW before,
         LastingRow(types, vals, n)
  PROVE  \E in : /\ in[0] = Cat(FlattenSeq(TextsOf(types, vals, n)), Nil)
                 /\ in[m] = Nil
                 /\ Advance(WellUpTo(n, m), in, ShortRow(types, vals, before, n, m),
                            types, before, m)
<1>1. PICK left : GoesWell(left, types, vals, before, n, Nil)
  BY CatFacts, RowAdvances
<1> DEFINE in == [i \in 0..m |-> IF i <= n THEN left[i] ELSE Nil]
           ok == WellUpTo(n, m)
           values == ShortRow(types, vals, before, n, m)
<1>2. in[0] = left[0] /\ in[m] = Nil
  OBVIOUS
<1>3. left[n] = Nil
  BY <1>1 DEF GoesWell
<1>4. Advance(ok, in, values, types, before, m)
  <2> SUFFICES ASSUME NEW i \in 1..m, NEW done
               PROVE  UnpackScalar(types[i], Stream(ok[i - 1], in[i - 1], done), before[i])
                        = Stream(ok[i], in[i], values[i])
    BY DEF Advance
  <2>1. CASE i <= n
    <3>0. i \in 1..n /\ i - 1 \in 0..n /\ i \in 0..n /\ i - 1 \in 0..m /\ i \in 0..m
      BY <2>1
    <3>1. /\ ok[i - 1] = TRUE /\ ok[i] = TRUE
          /\ AllWell(n)[i - 1] = TRUE /\ AllWell(n)[i] = TRUE
      BY <3>0 DEF WellUpTo, AllWell
    <3>2. in[i - 1] = left[i - 1] /\ in[i] = left[i]
      BY <3>0
    <3>3. values[i] = BackRow(types, vals, n)[i]
      BY <3>0 DEF ShortRow, BackRow
    <3> HIDE DEF ok, in, values
    <3>4. UnpackScalar(types[i], Stream(AllWell(n)[i - 1], left[i - 1], done), before[i])
            = Stream(AllWell(n)[i], left[i], BackRow(types, vals, n)[i])
      BY <1>1, <3>0 DEF GoesWell, Advance
    <3> QED
      BY <3>1, <3>2, <3>3, <3>4 DEF Stream
  <2>2. CASE ~(i <= n)
    <3>0. i \in 0..m /\ i - 1 \in 0..m /\ (i - 1 <= n => i - 1 = n)
      BY <2>2
    <3>1. /\ ok[i] = FALSE
          /\ in[i - 1] = Nil /\ in[i] = Nil
          /\ values[i] = before[i]
      <4>1. ok[i] = FALSE
        BY <2>2, <3>0 DEF WellUpTo
      <4>2. in[i - 1] = Nil
        BY <1>3, <3>0
      <4>3. in[i] = Nil
        BY <2>2, <3>0
      <4>4. values[i] = before[i]
        BY <2>2 DEF ShortRow
      <4> QED
        BY <4>1, <4>2, <4>3, <4>4
    <3> HIDE DEF ok, in, values
    <3> DEFINE s == Stream(ok[i - 1], in[i - 1], done)
    <3>2. s.in = <<>>
      BY <3>1 DEF Stream, Nil
    <3>3. UnpackScalar(types[i], s, before[i]) = Stream(FALSE, s.in, before[i])
      BY <3>2 DEF UnpackScalar
    <3> QED
      BY <3>1, <3>2, <3>3 DEF Stream, Nil
  <2> QED
    BY <2>1, <2>2
<1> HIDE DEF in
<1> QED
  BY <1>1, <1>2, <1>4 DEF GoesWell

\* A list that announces more items than are there, in a message that is cut
\* short, say: it gets as many as it announces, those that are missing are what
\* an item is before it is read, and the stream has failed.
THEOREM ShortListFails ==
  ASSUME NEW n \in Nat, NEW m \in Nat, n < m, NEW t, NEW vals,
         LastingRow(Same(t, m), vals, n), NEW val, NEW before
  PROVE  LET texts == TextsOf(Same(t, m), vals, n) IN
           ReadList(t, before, Good(<<Lexeme("dec", m)>> \o FlattenSeq(texts), val))
             = Failed(Nil, ShortRow(Same(t, m), vals, Same(before, m), n, m))
<1> DEFINE types == Same(t, m)
           items == FlattenSeq(TextsOf(types, vals, n))
           values == ShortRow(types, vals, Same(before, m), n, m)
           ok == WellUpTo(n, m)
           s == Good(<<Lexeme("dec", m)>> \o items, val)
<1>1. PICK in : /\ in[0] = Cat(items, Nil)
                /\ in[m] = Nil
                /\ Advance(ok, in, values, types, Same(before, m), m)
  BY ShortAdvances
<1>2. PICK V : IsRow(values, m, V)
  <2>1. IsRow(values, m, {values[i] : i \in 1..m})
    BY DEF IsRow, ShortRow
  <2> QED
    BY <2>1
<1>3. ok[0] = TRUE /\ ok[m] = FALSE
  BY DEF WellUpTo
<1>4. UnpackScalar([of |-> "int"], s, 0) = Good(in[0], m)
  <2>1. LastingRow(types, vals, n)
    OBVIOUS
  <2>2. UnpackScalar([of |-> "int"], s, 0) = Good(Cat(items, Nil), m)
    BY <2>1, CatFacts, ListText
  <2> QED
    BY <1>1, <2>2
<1> HIDE DEF items, values, ok, s
<1>5. Stream(ok[0], in[0], m) = Good(in[0], m)
  BY <1>3 DEF Good, Stream
<1>6. ReadList(t, before, s) = Stream(ok[m], in[m], values)
  BY <1>1, <1>2, <1>4, <1>5, ListReads
<1>7. Stream(ok[m], in[m], values) = Failed(Nil, values)
  BY <1>1, <1>3 DEF Failed, Stream
<1> QED
  BY <1>6, <1>7 DEF items, values, s

=============================================================================
