--------------------------- MODULE StartupConfig ---------------------------
(***************************************************************************)
(* The file that JsonPopulator writes for an application, and what its     *)
(* start makes of that.                                                    *)
(***************************************************************************)
EXTENDS StartupMapping, ParamWriting

\* JsonPopulator::populate: a file with all that the StaticHelper may create
DefaultFile(class) == Parse(Class[class].spec, Defaults(Class[class].spec))
\* A slip: only the first object of a factory is written.
PopulateFirst(name) ==
  IF name \in DOMAIN Factory
  THEN <<"obj", [n \in {Factory[name].objects[1]} |-> DefaultFile(n)]>> ELSE DefaultFile(name)
PopulateOne(name) ==
  IF name \in DOMAIN Factory
  THEN <<"obj", [n \in Members(Factory[name].objects) |-> DefaultFile(n)]>> ELSE DefaultFile(name)
PopulateHelper ==
  LET defaults == MergePatch(Null, <<"obj", [n \in Members(DefaultNames) |-> PopulateOne(n)]>>)
  IN <<"obj", [n \in DOMAIN defaults[2] \cup Members(OwnNames) |->
                IF n \in Members(OwnNames) THEN PopulateOne(n) ELSE defaults[2][n]]>>

----------------------------------------------------------------------------
\* Values that the written file keeps apart: maps lose keys and empty vectors are
\* written as null, so that the default comes back, or a vector of them is torn.
RECURSIVE Kept(_, _, _)
Kept(T, v, default) ==
  CASE T[1] = "map" -> DOMAIN v \subseteq {"key"} /\ (DOMAIN v = {} => v = default)
    [] T[1] = "enummap" -> T[2][1] # "set" /\ DOMAIN v = {} /\ v = default
    [] T[1] = "dynamic" -> v = << >> => v = default
    [] T[1] = "vector" -> (v = << >> => v = default) /\ \A i \in DOMAIN v : Kept(T[2], v[i], Null)
    [] T[1] = "optional" -> \A i \in DOMAIN v : Kept(T[2], v[i], Null)
    [] T[1] = "duration" -> FALSE
    [] T[1] \in {"set", "object"} -> \A i \in DOMAIN T[2] : Kept(T[2][i].type, v[i], T[2][i].default)
    [] OTHER -> TRUE

\* What an object writes (parse) it reads again: configuring a new object with it
\* gives the same values, those that are kept apart.
RoundTrip ==
  pending # NoObject /\ Mapped =>
    LET kept == SelectSeq([i \in DOMAIN SpecOf |-> i], LAMBDA i :
                  Kept(SpecOf[i].type, pending.vals[i], SpecOf[i].default))
        spec == [k \in DOMAIN kept |-> SpecOf[kept[k]]]
        v == [k \in DOMAIN kept |-> pending.vals[kept[k]]]
        again == Map(spec, Parse(spec, v), Defaults(spec))
    IN ~again.thrown /\ again.val = v

\* The file that JsonPopulator writes for a StaticHelper creates all of its objects, with
\* their defaults where they are kept apart, but for those of a factory that has several
\* and creates at most one; configure() succeeds unless null stands for something
\* mandatory.
PopulatedNames ==
  UNION {CASE n \notin DOMAIN Factory -> {n}
           [] Factory[n].multi \/ Len(Factory[n].objects) = 1 -> Members(Factory[n].objects)
           [] OTHER -> {} : n \in Members(DefaultNames) \cup Members(OwnNames)}
PopulatedCreates ==
  phase = "client" /\ conf = PopulateHelper => \A c \in PopulatedNames : \E o \in Objects :
    LET spec == Class[c].spec IN
      /\ cls[o] = c
      /\ \A i \in DOMAIN spec :
           Kept(spec[i].type, spec[i].default, spec[i].default) => vals[o][i] = spec[i].default
      /\ reported[o] <=> \A i \in DOMAIN spec :
           spec[i].mandatory => Write(spec[i].type, spec[i].default) # Null

\* PropertyMapper.hpp:18-19, "Supports nested configurations and recursive mapping"
\* and "Supports mandatory/optional field enforcement": an object that reports
\* success has all its mandatory parameters, those in nested sets that have anything
\* included.
RECURSIVE Present(_, _)
Present(spec, j) ==
  \A i \in DOMAIN spec : LET p == spec[i] IN
    /\ p.mandatory => Has(j, p.id)
    /\ p.type[1] = "set" /\ ~Empty(GetChild(j, p.id)) => Present(p.type[2], GetChild(j, p.id))

MandatoryEnforced ==
  Configuring /\ Mapped /\ pending.ok => Present(SpecOf, pending.conf)
=============================================================================
