------------------------------ MODULE JsonTree ------------------------------
(***************************************************************************)
(* A JSON value is a tag with its contents: <<"num", 3>>, <<"bool", 1>>,   *)
(* <<"str", "a">>, <<"null", 0>>, <<"arr", sequence>>, <<"obj", function>>.*)
(* A parameter has the key under which it is looked for and its type.      *)
(***************************************************************************)
CONSTANT
  AddParam(_, _, _, _, _)  \* add of PropertyMapper: its type, the file, the key, the
                 \* value so far and whether it is mandatory give [val, ok, missing, thrown]

Null == <<"null", 0>>
Tag(j) == j[1]
IsObject(j) == Tag(j) = "obj"
Has(j, key) == IsObject(j) /\ key \in DOMAIN j[2]
Empty(j) == j = Null \/ (Tag(j) \in {"arr", "obj"} /\ DOMAIN j[2] = {})

Param(id, type, mandatory, default) ==
  [id |-> id, type |-> type, mandatory |-> mandatory, default |-> default]
Defaults(spec) == [i \in DOMAIN spec |-> spec[i].default]
=============================================================================
