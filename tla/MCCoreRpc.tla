------------------------------ MODULE MCCoreRpc ------------------------------
(***************************************************************************)
(* CoreRpc with the plain text packer and three functions, two of which    *)
(* have the same hash.                                                     *)
(*   a: map<string, struct {uint16, enum, vector<string>}> -> vector<double> *)
(*   b: (the hash of a) string -> set<char>                                *)
(*   c: tuple<int8_t, int> -> void                                         *)
(***************************************************************************)
EXTENDS CoreRpc, PlainText

MCHash == [n \in Names |-> IF n = "c" THEN 2 ELSE 1]

Integer == [of |-> "int"]
Str == [of |-> "str"]
ListOf(t) == [of |-> "seq", item |-> t]
Employee == [of |-> "struct", names |-> <<"age", "job", "tasks">>,
             items |-> <<Integer, [of |-> "enum"], ListOf(Str)>>]
Employees == [of |-> "map", key |-> Str, item |-> Employee]
Tuple(items) == [of |-> "tuple", items |-> items]
Doubles == ListOf([of |-> "double"])
Letters == [of |-> "set", item |-> [of |-> "char"]]

MCParams == [n \in Names |->
  CASE n = "a" -> Tuple(<<Employees>>)
    [] n = "b" -> Tuple(<<Str>>)
    [] n = "c" -> Tuple(<<[of |-> "schar"], Integer>>)]

MCResult == [n \in Names |->
  CASE n = "a" -> Doubles
    [] n = "b" -> Letters
    [] n = "c" -> Void]

MCOtherTypes == {Tuple(<<Integer>>)}

MCTypes == {MCParams[n] : n \in Names} \cup {Doubles, Letters} \cup MCOtherTypes

Ann == [age |-> 3, job |-> 2, tasks |-> <<"x y", "">>]
Bob == [age |-> 0, job |-> 0, tasks |-> <<>>]

MCValues == [t \in MCTypes |->
  CASE t = MCParams["a"] -> {<<"ann" :> Ann @@ "bob" :> Bob>>}
    [] t = MCParams["b"] -> {<<"x">>}
    [] t = MCParams["c"] -> {<<"x", 7>>, <<" ", 7>>}
    [] t = Doubles -> {<<Double(1, 5, TRUE), Double(2, 0, TRUE)>>,
                       <<Double(1, 0, FALSE), Double(2, 0, TRUE)>>}
    [] t = Letters -> {{0, 9}}
    [] OTHER -> {<<5>>}]

=============================================================================
