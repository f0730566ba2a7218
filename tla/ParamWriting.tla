---------------------------- MODULE ParamWriting ----------------------------
(***************************************************************************)
(* JsonPopulator, which writes the parameters of an object to a JSON tree, *)
(* for the types of ParamMapping.                                          *)
(***************************************************************************)
EXTENDS ParamMapping

RECURSIVE Write(_, _), Populate(_, _), MergePatch(_, _)

\* the keys of a map are all written as "key", so that one of them stays
LastOf(f) == CHOOSE k \in DOMAIN f : TRUE

\* A slip: an empty optional is written as zero.
EmptyAsZero(T, v) == IF v = << >> THEN <<"num", 0>> ELSE Write(T, v[1])
WriteOptional(T, v) == IF v = << >> THEN Null ELSE Write(T, v[1])

\* writeValue; a map of enumerators becomes an array of pairs, and a duration what a parse
\* of its own would write
Write(T, v) ==
  CASE T[1] \in {"pod", "angle", "duration"} -> <<"num", v>>
    [] T[1] \in {"string", "enum"} -> <<"str", v>>
    [] T[1] = "config" -> v
    [] T[1] = "fixed" -> <<"arr", [i \in DOMAIN v |-> <<"num", v[i]>>]>>
    [] T[1] = "dynamic" -> Write(<<"vector", <<"pod">> >>, v)
    [] T[1] = "vector" -> IF v = << >> THEN Null
                          ELSE <<"arr", [i \in DOMAIN v |-> Write(T[2], v[i])]>>
    [] T[1] = "map" -> IF DOMAIN v = {} THEN Null
                       ELSE <<"obj", [k \in {"key"} |-> Write(T[2], v[LastOf(v)])]>>
    [] T[1] = "enummap" -> <<"arr", [i \in DOMAIN SetToSeq(DOMAIN v) |->
                              LET k == SetToSeq(DOMAIN v)[i]
                              IN <<"arr", <<<<"num", k>>, Write(T[2], v[k])>> >>]>>
    [] T[1] = "optional" -> WriteOptional(T[2], v)
    [] T[1] = "set" -> Populate(T[2], v)
    [] T[1] = "object" -> MergePatch(Null, Populate(T[2], v))

\* configure(populator): one member for every parameter
Populate(spec, vals) ==
  <<"obj", [id \in {spec[i].id : i \in DOMAIN spec} |->
             LET i == CHOOSE n \in DOMAIN spec : spec[n].id = id
             IN Write(spec[i].type, vals[i])]>>

\* merge_patch of nlohmann::json: a null removes the member
MergePatch(target, patch) ==
  IF ~IsObject(patch) THEN patch
  ELSE LET old == IF IsObject(target) THEN target[2] ELSE << >>
           keys == {k \in DOMAIN old \cup DOMAIN patch[2] :
                      k \notin DOMAIN patch[2] \/ patch[2][k] # Null}
       IN <<"obj", [k \in keys |->
             IF k \notin DOMAIN patch[2] THEN old[k]
             ELSE MergePatch(IF k \in DOMAIN old THEN old[k] ELSE Null, patch[2][k])]>>

\* ConfigurableObject::parse
Parse(spec, vals) == MergePatch(Null, Populate(spec, vals))
=============================================================================
