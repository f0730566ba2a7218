--------------------------- MODULE StartupMapping ---------------------------
(***************************************************************************)
(* What the start of an application makes of its configuration: Startup    *)
(* with the mapper of ParamMapping, and what becomes of the parameters of  *)
(* the objects it creates.                                                 *)
(***************************************************************************)
EXTENDS Startup, ParamMapping

CONSTANTS
  Json,            \* the values in the files
  ParamTypes,      \* the types of the parameters, and those that they are made of
  Level,           \* how deep each of them nests
  AcceptsParam(_, _) \* Accepts, for a type within another one

\* values with those within them
Closed(S) ==
  \A j \in S :
    /\ Tag(j) = "obj" => IsFiniteSet(DOMAIN j[2]) /\ \A k \in DOMAIN j[2] : j[2][k] \in S
    /\ Tag(j) = "arr" => j[2] \in Seq(S)

\* the parameters of a class, or of an object that is a parameter
IsSpec(spec) ==
  /\ Len(spec) \in Nat /\ spec = [i \in 1..Len(spec) |-> spec[i]]
  /\ \A i \in 1..Len(spec) :
       spec[i].id # "" /\ spec[i].type \in ParamTypes /\ spec[i].mandatory \in BOOLEAN
Formed(T) ==
  \/ T[1] \in {"pod", "angle", "duration", "string", "enum", "config", "fixed", "dynamic"}
  \/ T[1] = "vector" /\ T[2][1] \in {"pod", "string", "enum", "set", "vector"}
  \/ T[1] \in {"map", "enummap"} /\ T[2][1] \in {"pod", "string", "set"}
  \/ T[1] = "set" /\ IsSpec(T[2])
  \/ T[1] = "optional" /\ T[2] \in ParamTypes /\ Level[T[2]] < Level[T]
  \/ T[1] = "object" /\ IsSpec(T[2]) /\ \A i \in 1..Len(T[2]) : Level[T[2][i].type] < Level[T]

ASSUME MappingAssumption ==
  /\ {Overridden(start.file, start.overrides) : start \in Starts} \subseteq Json /\ Closed(Json)
  /\ Level \in [ParamTypes -> Nat] /\ \A T \in ParamTypes : Formed(T)
  /\ \A c \in DOMAIN Class : IsSpec(Class[c].spec)

----------------------------------------------------------------------------
\* What a value in the file must be for the mapper not to note the parameter as missing
Accepts(T, j) ==
  CASE T[1] \in {"pod", "angle", "duration"} -> Tag(j) \in {"num", "bool"}
    [] T[1] = "dynamic" -> Tag(j) = "arr"
    [] T[1] \in {"string", "enum"} -> Tag(j) = "str"
    [] T[1] \in {"set", "config"} -> Tag(j) = "obj"
    [] T[1] = "vector" -> Tag(j) = "arr"
    [] T[1] = "fixed" -> Tag(j) = "arr" /\ Len(j[2]) = T[2]
    [] T[1] = "optional" -> AcceptsParam(T[2], j)
    [] T[1] \in {"map", "enummap"} -> TRUE
    [] T[1] = "object" -> \A i \in DOMAIN T[2] : LET p == T[2][i] IN
                            p.mandatory => Has(j, p.id) /\ AcceptsParam(p.type, j[2][p.id])

\* a vector of vectors, one of which is no vector: it is accepted, and not read
Torn(T, j) ==
  /\ T[1] = "vector" /\ T[2][1] = "vector" /\ Tag(j) = "arr"
  /\ \E i \in DOMAIN j[2] : Tag(j[2][i]) # "arr"
\* the value ends before the first of the js that is no vector
EndsAtTear(value, js) ==
  /\ Len(value) < Len(js) /\ Tag(js[Len(value) + 1]) # "arr"
  /\ \A i \in 1..Len(value) : Tag(js[i]) = "arr"

Accepted(p) == Has(pending.conf, p.id) /\ Accepts(p.type, pending.conf[2][p.id])
Read == 1..(pending.i - 1)
Configuring == pending # NoObject /\ pending.conf # Unconfigured
SpecOf == Class[pending.class].spec

\* configure() fails exactly if a mandatory parameter of the object itself is not in
\* the file or is of another type, whatever the other parameters are.  A torn vector
\* is not noted, nor is what is missing in a nested set.
MandatoryReported ==
  Configuring => (pending.ok <=> \A i \in Read : SpecOf[i].mandatory => Accepted(SpecOf[i]))

\* A parameter that is not accepted keeps its default, but for an optional, which is
\* then empty.  Of a torn vector the default is lost too, for the vectors before the
\* tear, and an optional one is empty.
KeepsDefault ==
  Configuring => \A i \in Read :
    LET p == SpecOf[i]
        value == pending.vals[i]
    IN /\ ~Accepted(p) /\ p.type[1] # "object" =>
            value = IF p.type[1] = "optional" THEN << >> ELSE p.default
       /\ Has(pending.conf, p.id) =>
            LET j == pending.conf[2][p.id] IN
              /\ Torn(p.type, j) => EndsAtTear(value, j[2])
              /\ p.type[1] = "optional" /\ Torn(p.type[2], j) => value = << >>
=============================================================================
