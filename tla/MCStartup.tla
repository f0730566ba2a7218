----------------------------- MODULE MCStartup -----------------------------
\* An application with a default helper, a factory, a plugin and a client, and a
\* class K with a parameter of every kind
EXTENDS StartupConfig

Obj(f) == <<"obj", f>>
Arr(s) == <<"arr", s>>
Num(n) == <<"num", n>>

Inner == <<Param("x", <<"pod">>, TRUE, 0), Param("y", <<"string">>, FALSE, "a")>>
P(id, type, mandatory, default) == Param(id, type, mandatory, default)

KSpec ==
  <<P("pod", <<"pod">>, TRUE, 0), P("str", <<"string">>, FALSE, "a"),
    P("dur", <<"duration">>, FALSE, 0), P("enum", <<"enum">>, TRUE, "e0"),
    P("ang", <<"angle">>, FALSE, 0), P("fix", <<"fixed", 2>>, TRUE, <<0, 0>>),
    P("dyn", <<"dynamic">>, TRUE, <<0>>),
    P("vec", <<"vector", <<"pod">> >>, FALSE, <<0>>),
    P("sets", <<"vector", <<"set", Inner>> >>, FALSE, << >>),
    P("deep", <<"vector", <<"vector", <<"enum">> >> >>, FALSE, <<<<"e1">>, <<"e0">>>>),
    P("map", <<"map", <<"pod">> >>, FALSE, << >>),
    P("setmap", <<"map", <<"set", Inner>> >>, FALSE, << >>),
    P("enums", <<"enummap", <<"pod">> >>, FALSE, << >>),
    P("setenums", <<"enummap", <<"set", Inner>> >>, FALSE, << >>),
    P("opt", <<"optional", <<"pod">> >>, FALSE, << >>),
    P("optdeep", <<"optional", <<"vector", <<"vector", <<"enum">> >> >> >>, FALSE, << >>),
    P("set", <<"set", Inner>>, TRUE, <<0, "a">>),
    P("object", <<"object", Inner>>, TRUE, <<0, "a">>),
    P("conf", <<"config">>, FALSE, Null)>>

MCClass ==
  [A |-> [is |-> {"A", Runnable}, wants |-> {"B"}, wantsAll |-> {}, spec |-> << >>],
   D |-> [is |-> {"B"}, wants |-> {"A"}, wantsAll |-> {"A"}, spec |-> Inner],
   F1 |-> [is |-> {"C"}, wants |-> {"A"}, wantsAll |-> {"B"}, spec |-> << >>],
   F2 |-> [is |-> {"B", "C"}, wants |-> {}, wantsAll |-> {}, spec |-> Inner],
   G |-> [is |-> {"A", Runnable}, wants |-> {"A", "C"}, wantsAll |-> {}, spec |-> << >>],
   K |-> [is |-> {"B"}, wants |-> {}, wantsAll |-> {}, spec |-> KSpec]]
MCTypes == {"A", "B", "C"}
MCFactory == [F |-> [objects |-> <<"F2", "F1">>, multi |-> FALSE],
              M |-> [objects |-> <<"F2", "F1">>, multi |-> TRUE]]
MCPlugins == [libG |-> "G"]
MCDefaultNames == <<"D", "M">>
MCOwnNames == <<"A", "F", "K">>

X == Obj([x |-> Num(1)])
\* what a parameter may be in a file
Values ==
  <<Num(3), <<"bool", 1>>, <<"str", "e1">>, <<"str", "e9">>, Null, Arr(<< >>),
    Arr(<<Num(1), Num(2)>>), Arr(<<Num(1)>>), Arr(<<<<"str", "e1">>>>), Arr(<<X, Obj(<< >>)>>),
    Arr(<<Arr(<<<<"str", "e1">>>>), Arr(<< >>)>>), Obj(<< >>), X,
    Obj([y |-> <<"str", "b">>]), Obj([key |-> X]), Obj([a |-> Num(1), b |-> Num(2)]),
    Obj([e1 |-> X, e8 |-> X, e9 |-> Obj([y |-> <<"str", "c">>])]),
    Arr(<<Arr(<<<<"str", "e1">>>>), Num(1), Arr(<< >>)>>)>>
KFile == [pod |-> Num(3), dyn |-> Values[7], enum |-> <<"str", "e1">>, fix |-> Values[7], set |-> X, object |-> X,
          map |-> Values[16], setmap |-> Values[15], enums |-> Values[16], setenums |-> Values[17]]
With(f, k, v) == [n \in DOMAIN f \cup {k} |-> IF n = k THEN v ELSE f[n]]
Without(f, k) == [n \in DOMAIN f \ {k} |-> f[n]]
KIds == {KSpec[i].id : i \in DOMAIN KSpec}
KFiles == {Without(KFile, id) : id \in KIds}
            \cup {With(KFile, id, Values[v]) : id \in KIds, v \in DOMAIN Values}

Plain(c) == [n \in {c} |-> Obj(<< >>)]
AppFiles ==
  {Obj([A |-> Obj(<< >>), F |-> Obj(f), plugin_helper |-> Obj(p), G |-> Null]) :
     f \in {Plain("F1"), [F2 |-> X], [F1 |-> Null, F2 |-> X], Plain("F9"), << >>},
     p \in {[plugins |-> Arr(<<<<"str", "libG">>, <<"str", "gone">>>>)], << >>}} \cup
  {Obj([A |-> Obj(<< >>), D |-> X, M |-> Obj(m)]) :
     m \in {[F1 |-> Null, F2 |-> X], Plain("F1"), << >>}}
MCStarts ==
  [file : {Obj([K |-> Obj(k)]) : k \in KFiles}, overrides : {<< >>}, ops : {0}] \cup
  {[file |-> PopulateHelper, overrides |-> << >>, ops |-> 0]} \cup
  [file : AppFiles, overrides : {<< >>, <<"A", "v">>, <<"A">>}, ops : {3}] \cup
  {[file |-> Obj([A |-> Null, D |-> X, M |-> Null]), overrides |-> << >>, ops |-> 6]}
MCClientClasses == {"A", "F2"}
\* what there is within values and types
Children(j) == IF Tag(j) \in {"obj", "arr"} THEN {j[2][k] : k \in DOMAIN j[2]} ELSE {}
Trees[n \in 0..5] ==
  IF n = 0 THEN {Overridden(start.file, start.overrides) : start \in MCStarts}
  ELSE UNION {Children(j) : j \in Trees[n - 1]}
MCJson == UNION {Trees[n] : n \in 0..5}
SpecTypes(spec) == {spec[i].type : i \in DOMAIN spec}
MCParamTypes == SpecTypes(KSpec) \cup SpecTypes(Inner)
MCLevel == [T \in MCParamTypes |-> IF T[1] \in {"optional", "object"} THEN 1 ELSE 0]

\* The recursion through the types.  The LET keeps the coverage of TLC from following it
\* for ever.
MCAddParam(type, file, key, value, mandatory) ==
  LET added == Add(type, file, key, value, mandatory) IN added
MCAcceptsParam(type, j) == LET accepts == Accepts(type, j) IN accepts
============================================================================
