------------------------------ MODULE MCCodec ------------------------------
\* Bytes of three values, so that nine elements are too many for a vector and three
\* for a map
EXTENDS Codec

Pod == <<"pod", 1>>
Enum == <<"enum">>
Text == <<"string">>
Vector(T) == <<"vector", T, << >> >>
Optional(T) == <<"optional", T, << >> >>
Pair(T, U) == <<"pair", T, U>>
Matrix(r, c) == <<"matrix", r, c, <<"scalar">> >>
M(r, c, d) == [rows |-> r, cols |-> c, data |-> d]
Item(T, v) == [type |-> T, val |-> v]

\* the archives of files have no compressDouble, which matrices need
Matrices ==
  {Item(Matrix(0, 2), M(1, 2, <<<<0, 1>>, <<0, 2>> >>)), Item(Matrix(2, 1), M(2, 1, <<<<1, 1>>, <<0, 0>> >>)),
   Item(Matrix(0, 0), M(1, 1, <<<<0, 1>> >>))}
MCItems ==
  {Item(Pod, <<2>>), Item(<<"pod", 3>>, <<2, 1, 1>>), Item(Enum, 1), Item(<<"double">>, <<2, 1>>),
   Item(<<"double">>, <<0, 2>>), Item(Text, << >>), Item(Text, <<1, 2, 0>>),
   Item(Text, [i \in 1..9 |-> 1]),
   Item(Vector(Pod), << >>), Item(Vector(Pod), [i \in 1..8 |-> <<2>>]),
   Item(Vector(Pod), [i \in 1..9 |-> <<2>>]), Item(Vector(Vector(Enum)), <<<< >>, <<1, 2>> >>),
   Item(<<"array", Text, 2>>, <<<<1>>, << >> >>),
   Item(Optional(Pod), << >>), Item(Optional(Pod), <<<<2>> >>),
   Item(<<"map", Pair(Pod, Text)>>, (<<0>> :> <<1>>) @@ (<<2>> :> << >>)),
   Item(<<"map", Pair(Enum, Pod)>>, [k \in 0..2 |-> <<k>>]),
   Item(Pair(Pod, <<"double">>), <<<<1>>, <<0, 1>> >>),
   Item(<<"set", <<Pod, Vector(Pod), <<"optional", Pod, <<<<1>> >> >> >> >>, <<<<2>>, <<<<1>> >>, <<<<0>> >> >>),
   Item(<<"set", <<<<"vector", Pod, <<<<1>> >> >> >> >>, <<<<<<2>> >> >>),
   Item(<<"set", <<<<"optional", Pod, <<<<1>> >> >> >> >>, <<<< >> >>)} \cup Matrices
Modes == {"extract", "tuple", "file"}
Case(vs, hs, m, c) == [values |-> vs, headers |-> hs, mode |-> m, compress |-> c]
H1 == Item(<<"pod", 2>>, <<1, 2>>)
H2 == Item(Pod, <<1>>)
Seconds == {Item(Pod, <<2>>), Item(Text, <<1>>), Item(Text, <<1, 1, 1>>)}
MCCases ==
  {Case(<<v, w>>, << >>, m, c) : v \in MCItems \ Matrices, m \in Modes, c \in BOOLEAN, w \in Seconds} \cup
  {Case(<<v, w>>, << >>, m, c) : v \in Matrices, w \in Seconds, m \in Modes \ {"file"}, c \in BOOLEAN} \cup
  {Case(<<v>>, <<H1, H2>>, m, TRUE) : v \in MCItems, m \in Modes \ {"file"}}

\* the values within a value, with their types
Within(item) ==
  LET T == item.type
      v == item.val
  IN CASE T[1] \in {"vector", "array", "optional"} -> {Item(T[2], v[i]) : i \in DOMAIN v}
       [] T[1] = "map" -> {Item(T[2], <<k, v[k]>>) : k \in DOMAIN v}
       [] T[1] = "pair" -> {Item(T[2], v[1]), Item(T[3], v[2])}
       [] T[1] = "set" -> {Item(T[2][i], v[i]) : i \in DOMAIN v}
       [] T[1] = "matrix" -> {Item(T[4], v.data[i]) : i \in DOMAIN v.data}
       [] OTHER -> {}
Parts(T) ==
  CASE T[1] \in {"vector", "array", "optional", "map"} -> {T[2]}
    [] T[1] = "pair" -> {T[2], T[3]}
    [] T[1] = "set" -> {T[2][i] : i \in DOMAIN T[2]}
    [] T[1] = "matrix" -> {T[4]}
    [] OTHER -> {}
Stored == MCItems \cup Seconds \cup {H1, H2}
WithinItems[n \in 0..3] == IF n = 0 THEN Stored ELSE WithinItems[n - 1] \cup UNION {Within(x) : x \in WithinItems[n - 1]}
AllTypes[n \in 0..3] ==
  IF n = 0 THEN {x.type : x \in Stored} ELSE AllTypes[n - 1] \cup UNION {Parts(T) : T \in AllTypes[n - 1]}
MCTypes == AllTypes[3]
MCVals == [T \in MCTypes |-> {x.val : x \in {y \in WithinItems[3] : y.type = T}}]
=============================================================================
