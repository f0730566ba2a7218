---------------------------- MODULE ParamMapping ----------------------------
(***************************************************************************)
(* PropertyMapper, which reads the parameters of an object from a JSON     *)
(* tree.                                                                   *)
(*                                                                         *)
(* The type of a parameter is a kind with its argument: <<"pod">>,         *)
(* <<"string">>, <<"duration">>, <<"enum">>, <<"angle">>, <<"fixed", n>>   *)
(* (Vector2, Vector3 and Eigen matrices), <<"dynamic">> (an Eigen vector   *)
(* of any size), <<"optional", T>>, <<"vector", T>>, <<"map", T>>,         *)
(* <<"enummap", T>>, <<"set", parameters>>, <<"object", parameters>> (a    *)
(* ConfigurableObject) and <<"config">>.  An optional is a sequence of at  *)
(* most one value and a parameter set the sequence of its values; numbers  *)
(* and angles are the numbers of the file, as precision is left out.  A    *)
(* duration and an enummap of sets can be read but not written: an object  *)
(* that has one reads it in a configure of its own.                        *)
(*                                                                         *)
(* Add is not recursive: for a type within another one it uses AddParam,   *)
(* which is Add again.                                                     *)
(***************************************************************************)
EXTENDS JsonTree, Integers, Sequences, SequencesExt

CONSTANTS EnumNames,  \* the names in the EnumMap
          FirstEnum   \* the name of the enumerator 0

\* EnumMap::convert: an unknown name is the enumerator 0
EnumOf(name) == IF name \in EnumNames THEN name ELSE FirstEnum

----------------------------------------------------------------------------
\* Reading: the value, what add returns, whether the mapper noted that something
\* mandatory is missing, and whether an exception leaves the mapper

Got(v) == [val |-> v, ok |-> TRUE, missing |-> FALSE, thrown |-> FALSE]
Fails(v) == [val |-> v, ok |-> FALSE, missing |-> FALSE, thrown |-> FALSE]
MandatoryCheck(v, mandatory) == [val |-> v, ok |-> FALSE, missing |-> mandatory, thrown |-> FALSE]
Throws == [val |-> << >>, ok |-> FALSE, missing |-> FALSE, thrown |-> TRUE]

\* get<T>() of nlohmann::json: numbers from numbers and Booleans, strings from
\* strings, anything else throws
Gets(T, j) == Tag(j) \in (IF T = <<"string">> THEN {"str"} ELSE {"num", "bool"})

AddPod(j, key, old, m) ==
  IF Has(j, key) /\ Gets(<<"pod">>, j[2][key]) THEN Got(j[2][key][2]) ELSE MandatoryCheck(old, m)
AddAngle(j, key, old, m) == AddPod(j, key, old, m)
AddString(j, key, old, m) ==
  IF Has(j, key) /\ Tag(j[2][key]) = "str" THEN Got(j[2][key][2]) ELSE MandatoryCheck(old, m)
AddConfiguration(j, key, old, m) ==
  IF Has(j, key) /\ IsObject(j[2][key]) THEN Got(j[2][key]) ELSE MandatoryCheck(old, m)
AddDuration(j, key, old, m) ==
  IF ~Has(j, key) THEN MandatoryCheck(old, m)
  ELSE IF Gets(<<"pod">>, j[2][key]) THEN Got(j[2][key][2]) ELSE Throws
AddEnum(j, key, old, m) ==
  IF Has(j, key) /\ Tag(j[2][key]) = "str" THEN Got(EnumOf(j[2][key][2])) ELSE MandatoryCheck(old, m)

\* getChild: an object, or else the empty configuration
GetChild(j, key) == IF Has(j, key) /\ IsObject(j[2][key]) THEN j[2][key] ELSE Null

\* configure(mapper): the parameters in their order; the result of map()
MapNext(spec, j, r, i) ==
  IF r.thrown THEN r
  ELSE LET a == AddParam(spec[i].type, j, spec[i].id, r.val[i], spec[i].mandatory)
       IN IF a.thrown THEN Throws
          ELSE [val |-> [r.val EXCEPT ![i] = a.val], ok |-> r.ok /\ ~a.missing,
                missing |-> r.missing \/ a.missing, thrown |-> FALSE]
Maps(spec, j, old) ==
  LET mapped[i \in Nat] == IF i = 0 THEN Got(old) ELSE MapNext(spec, j, mapped[i - 1], i) IN mapped
Map(spec, j, old) == Maps(spec, j, old)[Len(spec)]

\* addVector: the elements one by one; a nested mapper's mandatory parameters go
\* unnoticed
Element(T, e, read) ==
  LET nested == CASE T[1] = "set" -> Map(T[2], e, Defaults(T[2]))
                  [] T[1] = "vector" -> AddParam(T, e, "", << >>, FALSE)
                  [] T[1] = "enum" -> IF Tag(e) = "str" THEN Got(EnumOf(e[2])) ELSE Throws
                  [] OTHER -> IF Gets(T, e) THEN Got(e[2]) ELSE Throws
  IN IF T[1] = "vector" /\ Tag(e) # "arr" THEN Fails(read)
     ELSE IF nested.thrown THEN Throws ELSE Got(Append(read, nested.val))
ElementsUpTo(T, js) ==
  LET read[n \in Nat] ==
        IF n = 0 THEN Got(<< >>)
        ELSE IF ~read[n - 1].ok THEN read[n - 1] ELSE Element(T, js[n], read[n - 1].val)
  IN read
Elements(T, js) == ElementsUpTo(T, js)[Len(js)]

\* A slip: the vector is cleared before its value is looked at.
ClearsFirst(j, key, T, old, m) ==
  IF Has(j, key) /\ Tag(j[2][key]) = "arr" THEN Elements(T, j[2][key][2])
  ELSE MandatoryCheck(<< >>, m)

AddVector(j, key, T, old, m) ==
  IF key # "" /\ ~Has(j, key) THEN MandatoryCheck(old, m)
  ELSE LET conf == IF key = "" THEN j ELSE j[2][key] IN
         IF Tag(conf) = "arr" THEN Elements(T, conf[2]) ELSE MandatoryCheck(old, m)

\* Eigen vectors: the value stays if there is no vector of numbers
AddDynamic(j, key, old, m) ==
  LET r == AddVector(j, key, <<"pod">>, << >>, m) IN IF r.ok THEN r ELSE [r EXCEPT !.val = old]

\* what has been read, if it has n values
\* A slip: a wrong number of values is not noted.
UnnotedSize(r, n, old, m) == IF ~r.ok \/ Len(r.val) = n THEN r ELSE Fails(old)
OfSize(r, n, old, m) == IF ~r.ok \/ Len(r.val) = n THEN r ELSE MandatoryCheck(old, m)
\* Vector2 and Vector3
AddFixed(j, key, n, old, m) == OfSize(AddDynamic(j, key, old, m), n, old, m)

\* items() of nlohmann::json: an array has its indices for keys, and a value that
\* is no container counts as one element with an empty key
Items(j) == CASE Tag(j) = "obj" -> j[2]
              [] Tag(j) = "arr" -> [k \in {ToString(i - 1) : i \in DOMAIN j[2]} |->
                                     j[2][CHOOSE i \in DOMAIN j[2] : ToString(i - 1) = k]]
              [] j = Null -> << >>
              [] OTHER -> [k \in {""} |-> j]

\* A map with the key named[k] for the key k of the file: insert keeps the value that a key
\* has already, and configure goes on with it.
Insert(T, item, named, r) ==
  LET has == named \in DOMAIN r.val
      child == Map(T[2], item, IF has THEN r.val[named] ELSE Defaults(T[2]))
  IN IF r.thrown \/ (IF T[1] = "set" THEN child.thrown ELSE ~Gets(T, item)) THEN Throws
     ELSE Got(IF T[1] = "set" THEN (named :> child.val) @@ r.val ELSE r.val @@ (named :> item[2]))
Inserts(T, items, keys, named) ==
  LET inserted[n \in Nat] ==
        IF n = 0 THEN Got(<< >>) ELSE Insert(T, items[keys[n]], named[keys[n]], inserted[n - 1])
  IN inserted
AddItems(j, key, T, old, m, named) ==
  LET items == Items(j[2][key])
      keys == SetToSeq(DOMAIN items)
  IN IF ~Has(j, key) THEN MandatoryCheck(old, m) ELSE Inserts(T, items, keys, named)[Len(keys)]
AddMap(j, key, T, old, m) == AddItems(j, key, T, old, m, [k \in DOMAIN Items(j[2][key]) |-> k])
AddEnumMap(j, key, T, old, m) ==
  AddItems(j, key, T, old, m, [k \in DOMAIN Items(j[2][key]) |-> EnumOf(k)])

AddOptional(j, key, T, m) ==
  LET r == AddParam(T, j, key, << >>, m) IN [r EXCEPT !.val = IF r.ok THEN <<r.val>> ELSE << >>]

\* operator& on a nested parameter set: an empty one is left alone, and what is
\* missing in it is returned but not noted
AddSet(j, key, spec, old, m) ==
  LET child == GetChild(j, key)
      r == Map(spec, child, old)
  IN IF Empty(child) THEN MandatoryCheck(old, m /\ ~(Has(j, key) /\ IsObject(j[2][key])))
     ELSE IF r.thrown THEN Throws
     ELSE [val |-> r.val, ok |-> r.ok, missing |-> FALSE, thrown |-> FALSE]

\* operator& on a ConfigurableObject: its own configure decides
AddObject(j, key, spec, old, m) ==
  IF ~Has(j, key) THEN MandatoryCheck(old, m)
  ELSE LET r == Map(spec, j[2][key], old) IN
         IF r.thrown \/ r.ok THEN r ELSE MandatoryCheck(r.val, m)

\* operator& and addSpecific: the function for the type
Add(T, j, key, old, m) ==
  CASE T[1] = "pod" -> AddPod(j, key, old, m)
    [] T[1] = "angle" -> AddAngle(j, key, old, m)
    [] T[1] = "string" -> AddString(j, key, old, m)
    [] T[1] = "duration" -> AddDuration(j, key, old, m)
    [] T[1] = "config" -> AddConfiguration(j, key, old, m)
    [] T[1] = "enum" -> AddEnum(j, key, old, m)
    [] T[1] = "fixed" -> AddFixed(j, key, T[2], old, m)
    [] T[1] = "dynamic" -> AddDynamic(j, key, old, m)
    [] T[1] = "vector" -> AddVector(j, key, T[2], old, m)
    [] T[1] = "map" -> AddMap(j, key, T[2], old, m)
    [] T[1] = "enummap" -> AddEnumMap(j, key, T[2], old, m)
    [] T[1] = "optional" -> AddOptional(j, key, T[2], m)
    [] T[1] = "set" -> AddSet(j, key, T[2], old, m)
    [] T[1] = "object" -> AddObject(j, key, T[2], old, m)
=============================================================================
