--------------------------- MODULE StartupProofs ---------------------------
(***************************************************************************)
(* Proofs about Startup, for any classes, factories, plugins, client and   *)
(* start, and for any mapper of parameters: the handles of the objects in  *)
(* the aggregator are complete, and the runners keep the stages apart.     *)
(* And about StartupMapping, for any parameters, types and files: what is  *)
(* missing is reported, and what cannot be read is left as it is.          *)
(***************************************************************************)
EXTENDS StartupMapping, SequenceTheorems, NatSetInduction, FiniteSetTheorems, TLAPS

-----------------------------------------------------------------------------
(* The inductive invariant *)

IsSequence(s) == s \in Seq(Members(s))
NoDuplicates(s) == \A i, j \in 1..Len(s) : s[i] = s[j] => i = j

Phases == {"create", "client", "run", "done", "thrown"}
Kinds == {"simple", "aggregatable"}

\* Everything is a sequence over the objects, or has an element for each.
Shape ==
  /\ IsSequence(cls) /\ IsSequence(vals) /\ IsSequence(reported) /\ IsSequence(ran)
  /\ Len(vals) = Len(cls) /\ Len(reported) = Len(cls) /\ Len(ran) = Len(cls)
  /\ DOMAIN handle = Objects /\ DOMAIN many = Objects
  /\ box \in [{"main", "defaults"} -> Seq(Objects)]
  /\ held \subseteq Objects
  /\ runner \in [kind : Kinds, stage : 0..Len(Stages), queue : Seq(Objects), error : BOOLEAN,
                 members : Seq(Objects)]
  /\ phase \in Phases /\ ops \in Nat /\ cleared \in BOOLEAN

\* Handles are for objects of their type.
HandleInv ==
  \A o \in Objects, T \in Types :
    /\ handle[o][T] # 0 => handle[o][T] \in Objects /\ T \in Class[cls[handle[o][T]]].is
    /\ IsSequence(many[o][T])
    /\ \A q \in Members(many[o][T]) : q \in Objects /\ T \in Class[cls[q]].is

\* An object is in a container once, and until the default objects are merged in
\* one container.  What a runner takes through the stages is in the aggregator, or
\* held by the runner itself, which an AggregatableRunner is told of until clear().
PlaceInv ==
  /\ \A a \in {"main", "defaults"} : NoDuplicates(box[a])
  /\ phase = "create" => Members(box["main"]) \cap Members(box["defaults"]) = {} /\ held = {}
  /\ ~cleared => held \subseteq Members(box["main"])
  /\ NoDuplicates(runner.queue) /\ NoDuplicates(runner.members)
  /\ Members(runner.queue) \subseteq Members(StageObjects)
  /\ runner.kind = "simple" => runner.members = << >>
  /\ runner.kind = "aggregatable" /\ ~cleared => runner.members = GetAll(box["main"], Runnable, cls)

\* The Multi handles of the default objects are complete too before they are merged.
ManyInv ==
  \A a \in {"main", "defaults"} :
    ~cleared /\ (a = "main" \/ phase = "create") =>
      \A o \in Members(box[a]), T \in Types :
        T \in Class[cls[o]].wantsAll => many[o][T] = GetAll(box[a], T, cls)

\* How far the objects are: those in the queue have the present stage to run, the
\* others of the runner have run it, unless it was left at an error.
StageInv ==
  /\ \A o \in Objects : /\ IsSequence(ran[o])
                        /\ Len(ran[o]) <= runner.stage
                        /\ \A s \in 1..Len(ran[o]) : ran[o][s] \in {Stages[s], "missed"}
  /\ phase \notin {"run", "done"} => runner.stage = 0 /\ runner.queue = << >>
  /\ phase \in {"run", "done"} =>
       /\ runner.stage >= 1
       /\ \A o \in Members(StageObjects) :
            /\ o \in Members(runner.queue) => Len(ran[o]) = runner.stage - 1
            /\ o \notin Members(runner.queue) =>
                 Len(ran[o]) \in IF runner.kind = "aggregatable" /\ runner.error
                                 THEN {runner.stage - 1, runner.stage} ELSE {runner.stage}

IInv == Shape /\ HandleInv /\ PlaceInv /\ ManyInv /\ StageInv

-----------------------------------------------------------------------------
(* Sequences *)

\* A sequence over any set.
LEMMA SeqFacts ==
  ASSUME NEW S, NEW s \in Seq(S)
  PROVE  /\ IsSequence(s) /\ Len(s) \in Nat /\ DOMAIN s = 1..Len(s)
         /\ \A i \in 1..Len(s) : s[i] \in S /\ s[i] \in Members(s)
         /\ Members(s) = {s[i] : i \in 1..Len(s)} /\ Members(s) \subseteq S
<1>1. Len(s) \in Nat /\ DOMAIN s = 1..Len(s) /\ \A i \in 1..Len(s) : s[i] \in S
  BY LenProperties, ElementOfSeq
<1>2. Members(s) = {s[i] : i \in 1..Len(s)}
  BY <1>1 DEF Members
<1>3. s \in Seq(Members(s))
  <2>1. \A i \in 1..Len(s) : s[i] \in Members(s)
    BY <1>2
  <2>2. s = [i \in 1..Len(s) |-> s[i]]
    BY <1>1, LenProperties
  <2> QED
    BY <1>1, <2>1, <2>2, IsASeq
<1> QED
  BY <1>1, <1>2, <1>3 DEF IsSequence

\* A new element at the end.
LEMMA AppendFacts ==
  ASSUME NEW s, IsSequence(s), NEW e
  PROVE  /\ IsSequence(Append(s, e)) /\ Len(s) \in Nat /\ Len(Append(s, e)) = Len(s) + 1
         /\ DOMAIN s = 1..Len(s) /\ DOMAIN Append(s, e) = 1..(Len(s) + 1)
         /\ \A i \in 1..Len(s) : Append(s, e)[i] = s[i]
         /\ Append(s, e)[Len(s) + 1] = e
         /\ Members(Append(s, e)) = Members(s) \cup {e}
<1> DEFINE S == Members(s) \cup {e}
<1>1. s \in Seq(Members(s)) /\ Len(s) \in Nat /\ DOMAIN s = 1..Len(s)
      /\ Members(s) = {s[i] : i \in 1..Len(s)}
  BY SeqFacts DEF IsSequence
<1>2. s \in Seq(S)
  <2>1. \A i \in 1..Len(s) : s[i] \in S
    BY <1>1
  <2>2. s = [i \in 1..Len(s) |-> s[i]]
    BY <1>1, LenProperties
  <2> QED
    BY <1>1, <2>1, <2>2, IsASeq
<1> HIDE DEF S
<1>3. /\ Append(s, e) \in Seq(S) /\ Len(Append(s, e)) = Len(s) + 1
      /\ \A i \in 1..Len(s) : Append(s, e)[i] = s[i]
      /\ Append(s, e)[Len(s) + 1] = e
  BY <1>2, AppendProperties DEF S
<1>4. /\ IsSequence(Append(s, e)) /\ DOMAIN Append(s, e) = 1..(Len(s) + 1)
      /\ Members(Append(s, e)) = {Append(s, e)[i] : i \in 1..(Len(s) + 1)}
  BY <1>3, SeqFacts
<1>5. Members(Append(s, e)) = Members(s) \cup {e}
  <2>1. 1..(Len(s) + 1) = (1..Len(s)) \cup {Len(s) + 1}
    BY <1>1
  <2> QED
    BY <1>1, <1>3, <1>4, <2>1
<1> QED
  BY <1>1, <1>3, <1>4, <1>5

-----------------------------------------------------------------------------
(* getAll *)

\* The casts are the recursive function that they are written as.
LEMMA CastsRecursion ==
  ASSUME NEW s, Len(s) \in Nat, NEW T, NEW class
  PROVE  /\ Casts(s, T, class)[0] = << >>
         /\ \A n \in 1..Len(s) :
              Casts(s, T, class)[n] = IF T \in Class[class[s[n]]].is
                                      THEN Append(Casts(s, T, class)[n - 1], s[n])
                                      ELSE Casts(s, T, class)[n - 1]
<1> DEFINE Next1(c, n) == IF T \in Class[class[s[n]]].is THEN Append(c, s[n]) ELSE c
           Good(n, g) == /\ g = [i \in 0..n |-> g[i]] /\ g[0] = << >>
                         /\ \A m \in 1..n : g[m] = Next1(g[m - 1], m)
           U == {n \in Nat : \E g : Good(n, g)}
<1> HIDE DEF Next1
<1>1. 0 \in U
  <2> DEFINE g == [i \in 0..0 |-> << >>]
  <2>1. Good(0, g)
    OBVIOUS
  <2> QED
    BY <2>1
<1>2. ASSUME NEW n \in Nat, n \in U PROVE n + 1 \in U
  <2>1. PICK g : Good(n, g)
    BY <1>2
  <2> DEFINE h == [i \in 0..(n + 1) |-> IF i <= n THEN g[i] ELSE Next1(g[n], n + 1)]
  <2>2. h = [i \in 0..(n + 1) |-> h[i]] /\ h[0] = << >>
    BY <2>1
  <2>3. ASSUME NEW m \in 1..(n + 1) PROVE h[m] = Next1(h[m - 1], m)
    <3>1. m - 1 \in 0..n /\ h[m - 1] = g[m - 1]
      OBVIOUS
    <3>2. CASE m <= n
      <4>1. h[m] = g[m] /\ m \in 1..n
        BY <3>2
      <4> QED
        BY <2>1, <3>1, <4>1
    <3>3. CASE ~(m <= n)
      <4>1. m = n + 1 /\ h[m] = Next1(g[n], n + 1) /\ m - 1 = n
        BY <3>3
      <4> QED
        BY <3>1, <4>1
    <3> QED
      BY <3>2, <3>3
  <2>4. Good(n + 1, h)
    <3>1. \A m \in 1..(n + 1) : h[m] = Next1(h[m - 1], m)
      BY <2>3
    <3> HIDE DEF h
    <3> QED
      BY <2>2, <3>1
  <2>5. \E f : Good(n + 1, f)
    <3> HIDE DEF h, Good
    <3> QED
      BY <2>4
  <2> HIDE DEF Good
  <2> QED
    BY <2>5
<1>3. Len(s) \in U
  <2> HIDE DEF U
  <2> QED
    BY <1>1, <1>2, SetInduction
<1>4. PICK g : Good(Len(s), g)
  BY <1>3
<1> DEFINE Rec(all) == all = [n \in 0..Len(s) |->
                         IF n = 0 THEN << >>
                         ELSE IF T \in Class[class[s[n]]].is THEN Append(all[n - 1], s[n])
                         ELSE all[n - 1]]
<1>5. Rec(g)
  <2>1. ASSUME NEW n \in 0..Len(s)
        PROVE  g[n] = IF n = 0 THEN << >> ELSE Next1(g[n - 1], n)
    <3>1. g[0] = << >> /\ \A m \in 1..Len(s) : g[m] = Next1(g[m - 1], m)
      BY <1>4
    <3>2. n # 0 => n \in 1..Len(s)
      OBVIOUS
    <3> QED
      BY <3>1, <3>2
  <2>2. g = [n \in 0..Len(s) |-> IF n = 0 THEN << >> ELSE Next1(g[n - 1], n)]
    BY <1>4, <2>1
  <2> QED
    BY <2>2 DEF Next1
<1>6. Casts(s, T, class) = CHOOSE all : Rec(all)
  BY DEF Casts
<1>7. Rec(Casts(s, T, class))
  <2> HIDE DEF Rec
  <2> QED
    BY <1>5, <1>6
<1> DEFINE c == Casts(s, T, class)
           rec == [n \in 0..Len(s) |->
                     IF n = 0 THEN << >>
                     ELSE IF T \in Class[class[s[n]]].is THEN Append(c[n - 1], s[n]) ELSE c[n - 1]]
<1>8. c = rec
  BY <1>7
<1>9. rec[0] = << >> /\ \A n \in 1..Len(s) :
        rec[n] = IF T \in Class[class[s[n]]].is THEN Append(c[n - 1], s[n]) ELSE c[n - 1]
  <2> HIDE DEF c
  <2> QED
    OBVIOUS
<1> HIDE DEF c, rec
<1>10. c[0] = << >> /\ \A n \in 1..Len(s) :
         c[n] = IF T \in Class[class[s[n]]].is THEN Append(c[n - 1], s[n]) ELSE c[n - 1]
  BY <1>8, <1>9
<1> QED
  BY <1>10 DEF c

\* The casts up to an index are what succeeds up to there, each object as often as it
\* is in the container.
LEMMA CastsFacts ==
  ASSUME NEW S, NEW s \in Seq(S), NEW T, NEW class, NEW n \in 0..Len(s)
  PROVE  /\ Casts(s, T, class)[n] \in Seq(S)
         /\ Members(Casts(s, T, class)[n]) = {s[i] : i \in {j \in 1..n : T \in Class[class[s[j]]].is}}
         /\ NoDuplicates(s) => NoDuplicates(Casts(s, T, class)[n])
<1> DEFINE c == Casts(s, T, class)
           Cast(k) == {s[i] : i \in {j \in 1..k : T \in Class[class[s[j]]].is}}
           P(k) == /\ c[k] \in Seq(S) /\ Members(c[k]) = Cast(k)
                   /\ NoDuplicates(s) => NoDuplicates(c[k])
           U == {k \in Nat : k <= Len(s) => P(k)}
<1>1. /\ Len(s) \in Nat /\ DOMAIN s = 1..Len(s) /\ \A i \in 1..Len(s) : s[i] \in S
  BY SeqFacts
<1>2. c[0] = << >> /\ \A k \in 1..Len(s) :
        c[k] = IF T \in Class[class[s[k]]].is THEN Append(c[k - 1], s[k]) ELSE c[k - 1]
  BY <1>1, CastsRecursion
<1> HIDE DEF c
<1>3. 0 \in U
  <2>1. Len(<< >>) = 0 /\ << >> \in Seq(S) /\ Members(<< >>) = {}
    BY DEF Members
  <2>2. Cast(0) = {}
    OBVIOUS
  <2>3. NoDuplicates(<< >>)
    BY <2>1 DEF NoDuplicates
  <2>4. P(0)
    <3> HIDE DEF Cast
    <3> QED
      BY <1>2, <2>1, <2>2, <2>3
  <2> QED
    BY <2>4
<1>4. ASSUME NEW k \in Nat, k \in U PROVE k + 1 \in U
  <2> SUFFICES ASSUME k + 1 <= Len(s) PROVE P(k + 1)
    OBVIOUS
  <2>1. P(k) /\ k + 1 \in 1..Len(s) /\ (k + 1) - 1 = k
    BY <1>1, <1>4
  <2>2. 1..(k + 1) = (1..k) \cup {k + 1}
    OBVIOUS
  <2>3. CASE T \in Class[class[s[k + 1]]].is
    <3>1. c[k + 1] = Append(c[k], s[k + 1])
      BY <1>2, <2>1, <2>3
    <3>2. Cast(k + 1) = Cast(k) \cup {s[k + 1]}
      BY <2>2, <2>3
    <3>3. IsSequence(c[k])
      BY <2>1, SeqFacts
    <3>4. /\ Len(c[k]) \in Nat /\ Len(c[k + 1]) = Len(c[k]) + 1
          /\ \A i \in 1..Len(c[k]) : c[k + 1][i] = c[k][i]
          /\ c[k + 1][Len(c[k]) + 1] = s[k + 1]
          /\ Members(c[k + 1]) = Members(c[k]) \cup {s[k + 1]}
      BY <3>1, <3>3, AppendFacts
    <3>5. c[k + 1] \in Seq(S)
      BY <1>1, <2>1, <3>1, AppendProperties
    <3>6. NoDuplicates(s) => NoDuplicates(c[k + 1])
      <4> SUFFICES ASSUME NoDuplicates(s) PROVE NoDuplicates(c[k + 1])
        OBVIOUS
      <4>1. s[k + 1] \notin Cast(k)
        BY <1>1, <2>1 DEF NoDuplicates
      <4>2. \A i \in 1..Len(c[k]) : c[k][i] # s[k + 1]
        <5>1. \A i \in 1..Len(c[k]) : c[k][i] \in Cast(k)
          BY <2>1, SeqFacts
        <5> HIDE DEF Cast
        <5> QED
          BY <4>1, <5>1
      <4>3. NoDuplicates(c[k])
        BY <2>1
      <4>4. ASSUME NEW i \in 1..(Len(c[k]) + 1), NEW j \in 1..(Len(c[k]) + 1),
                   c[k + 1][i] = c[k + 1][j]
            PROVE  i = j
        <5>1. CASE i <= Len(c[k]) /\ j <= Len(c[k])
          <6>1. i \in 1..Len(c[k]) /\ j \in 1..Len(c[k])
            BY <3>4, <5>1
          <6>2. c[k][i] = c[k][j]
            BY <3>4, <4>4, <6>1
          <6> QED
            BY <4>3, <6>1, <6>2 DEF NoDuplicates
        <5>2. CASE i <= Len(c[k]) /\ ~(j <= Len(c[k]))
          <6>1. i \in 1..Len(c[k]) /\ j = Len(c[k]) + 1
            BY <3>4, <5>2
          <6> QED
            BY <3>4, <4>2, <4>4, <6>1
        <5>3. CASE ~(i <= Len(c[k])) /\ j <= Len(c[k])
          <6>1. j \in 1..Len(c[k]) /\ i = Len(c[k]) + 1
            BY <3>4, <5>3
          <6> QED
            BY <3>4, <4>2, <4>4, <6>1
        <5>4. CASE ~(i <= Len(c[k])) /\ ~(j <= Len(c[k]))
          BY <3>4, <5>4
        <5> QED
          BY <5>1, <5>2, <5>3, <5>4
      <4> QED
        BY <3>4, <4>4 DEF NoDuplicates
    <3> HIDE DEF Cast
    <3> QED
      BY <2>1, <3>2, <3>4, <3>5, <3>6
  <2>4. CASE T \notin Class[class[s[k + 1]]].is
    <3>1. c[k + 1] = c[k]
      BY <1>2, <2>1, <2>4
    <3>2. Cast(k + 1) = Cast(k)
      BY <2>2, <2>4
    <3> HIDE DEF Cast
    <3> QED
      BY <2>1, <3>1, <3>2
  <2> QED
    BY <2>3, <2>4
<1>5. n \in U
  <2> HIDE DEF U
  <2> QED
    BY <1>1, <1>3, <1>4, SetInduction
<1>6. P(n)
  BY <1>1, <1>5
<1> QED
  BY <1>6 DEF c

\* getAll gives the objects of the type, each as often as it is in the container.
LEMMA GetAllFacts ==
  ASSUME NEW S, NEW s \in Seq(S), NEW T, NEW class
  PROVE  /\ GetAll(s, T, class) \in Seq(S)
         /\ Members(GetAll(s, T, class)) = {o \in Members(s) : T \in Class[class[o]].is}
         /\ NoDuplicates(s) => NoDuplicates(GetAll(s, T, class))
<1>1. Len(s) \in Nat /\ Members(s) = {s[i] : i \in 1..Len(s)}
  BY SeqFacts
<1>2. Len(s) \in 0..Len(s)
  BY <1>1
<1>3. /\ GetAll(s, T, class) \in Seq(S)
      /\ Members(GetAll(s, T, class)) =
           {s[i] : i \in {j \in 1..Len(s) : T \in Class[class[s[j]]].is}}
      /\ NoDuplicates(s) => NoDuplicates(GetAll(s, T, class))
  BY <1>2, CastsFacts DEF GetAll
<1> QED
  BY <1>1, <1>3

\* Two containers with the same first n objects, of the same classes.
SameUpTo(s, t, class, other, n) ==
  /\ Len(s) \in Nat /\ Len(t) \in Nat /\ n \in Nat /\ n <= Len(s) /\ n <= Len(t)
  /\ \A i \in 1..n : s[i] = t[i] /\ class[s[i]] = other[s[i]]

\* The casts up to an index depend on what is there up to it only.
LEMMA CastsPrefix ==
  ASSUME NEW s, NEW t, NEW T, NEW class, NEW other, NEW n, SameUpTo(s, t, class, other, n)
  PROVE  Casts(s, T, class)[n] = Casts(t, T, other)[n]
<1> USE DEF SameUpTo
<1> DEFINE c == Casts(s, T, class)
           d == Casts(t, T, other)
           U == {k \in Nat : k <= n => c[k] = d[k]}
<1>1. c[0] = << >> /\ \A k \in 1..Len(s) :
        c[k] = IF T \in Class[class[s[k]]].is THEN Append(c[k - 1], s[k]) ELSE c[k - 1]
  BY CastsRecursion
<1>2. d[0] = << >> /\ \A k \in 1..Len(t) :
        d[k] = IF T \in Class[other[t[k]]].is THEN Append(d[k - 1], t[k]) ELSE d[k - 1]
  BY CastsRecursion
<1> HIDE DEF c, d
<1>3. 0 \in U
  BY <1>1, <1>2
<1>4. ASSUME NEW k \in Nat, k \in U PROVE k + 1 \in U
  <2> SUFFICES ASSUME k + 1 <= n PROVE c[k + 1] = d[k + 1]
    OBVIOUS
  <2>1. /\ k + 1 \in 1..Len(s) /\ k + 1 \in 1..Len(t) /\ k + 1 \in 1..n /\ (k + 1) - 1 = k
        /\ c[k] = d[k]
    BY <1>4
  <2>2. s[k + 1] = t[k + 1] /\ class[s[k + 1]] = other[t[k + 1]]
    BY <2>1
  <2>3. c[k + 1] = IF T \in Class[class[s[k + 1]]].is THEN Append(c[k], s[k + 1]) ELSE c[k]
    BY <1>1, <2>1
  <2>4. d[k + 1] = IF T \in Class[other[t[k + 1]]].is THEN Append(d[k], t[k + 1]) ELSE d[k]
    BY <1>2, <2>1
  <2> QED
    BY <2>1, <2>2, <2>3, <2>4
<1>5. n \in U
  <2> HIDE DEF U
  <2> QED
    BY <1>3, <1>4, SetInduction
<1> QED
  BY <1>5 DEF c, d

\* What a new class adds to the classes does not matter to the objects there are.
LEMMA GetAllOther ==
  ASSUME NEW S, NEW s \in Seq(S), NEW T, NEW class, NEW other,
         \A o \in Members(s) : class[o] = other[o]
  PROVE  GetAll(s, T, class) = GetAll(s, T, other)
<1>1. Len(s) \in Nat /\ \A i \in 1..Len(s) : s[i] \in Members(s)
  BY SeqFacts
<1>2. \A i \in 1..Len(s) : s[i] = s[i] /\ class[s[i]] = other[s[i]]
  BY <1>1
<1>3. SameUpTo(s, s, class, other, Len(s))
  BY <1>1, <1>2 DEF SameUpTo
<1>4. Casts(s, T, class)[Len(s)] = Casts(s, T, other)[Len(s)]
  BY <1>3, CastsPrefix
<1> QED
  BY <1>4 DEF GetAll

\* A new object comes last.
LEMMA GetAllAppend ==
  ASSUME NEW S, NEW s \in Seq(S), NEW o \in S, NEW T, NEW class
  PROVE  /\ T \in Class[class[o]].is =>
              GetAll(Append(s, o), T, class) = Append(GetAll(s, T, class), o)
         /\ T \notin Class[class[o]].is => GetAll(Append(s, o), T, class) = GetAll(s, T, class)
<1> DEFINE t == Append(s, o)
<1>1. /\ Len(s) \in Nat /\ Len(t) = Len(s) + 1 /\ t[Len(s) + 1] = o
      /\ \A i \in 1..Len(s) : t[i] = s[i]
  BY SeqFacts, AppendFacts
<1> HIDE DEF t
<1>2. Casts(t, T, class)[Len(s)] = Casts(s, T, class)[Len(s)]
  <2>1. \A i \in 1..Len(s) : t[i] = s[i] /\ class[t[i]] = class[s[i]]
    BY <1>1
  <2>2. SameUpTo(t, s, class, class, Len(s))
    BY <1>1, <2>1 DEF SameUpTo
  <2> QED
    BY <2>2, CastsPrefix
<1>3. /\ Len(t) \in Nat /\ Len(t) \in 1..Len(t) /\ Len(t) - 1 = Len(s)
  BY <1>1
<1>4. Casts(t, T, class)[Len(t)] =
        IF T \in Class[class[t[Len(t)]]].is
        THEN Append(Casts(t, T, class)[Len(t) - 1], t[Len(t)])
        ELSE Casts(t, T, class)[Len(t) - 1]
  BY <1>3, CastsRecursion
<1> QED
  BY <1>1, <1>2, <1>3, <1>4 DEF GetAll, t

\* A new object, and its class behind those of the others.
LEMMA GetAllGrown ==
  ASSUME NEW S, NEW s \in Seq(S), NEW o, NEW T, NEW class, NEW other,
         \A x \in S : other[x] = class[x]
  PROVE  /\ T \in Class[other[o]].is =>
              GetAll(Append(s, o), T, other) = Append(GetAll(s, T, class), o)
         /\ T \notin Class[other[o]].is =>
              GetAll(Append(s, o), T, other) = GetAll(s, T, class)
<1> DEFINE N == S \cup {o}
<1>1. s \in Seq(N) /\ o \in N
  BY SeqMonotonic
<1>2. GetAll(s, T, other) = GetAll(s, T, class)
  BY SeqFacts, GetAllOther
<1>3. /\ T \in Class[other[o]].is => GetAll(Append(s, o), T, other) = Append(GetAll(s, T, other), o)
      /\ T \notin Class[other[o]].is => GetAll(Append(s, o), T, other) = GetAll(s, T, other)
  <2> HIDE DEF N
  <2> QED
    BY <1>1, GetAllAppend
<1> QED
  BY <1>2, <1>3

\* The casts after the objects of a first container are those of that container.
LEMMA GetAllPrefix ==
  ASSUME NEW s, NEW u, NEW T, NEW class, Len(s) \in Nat, Len(u) \in Nat, Len(s) <= Len(u),
         \A i \in 1..Len(s) : u[i] = s[i]
  PROVE  Casts(u, T, class)[Len(s)] = GetAll(s, T, class)
<1>1. SameUpTo(u, s, class, class, Len(s))
  BY DEF SameUpTo
<1>2. Casts(u, T, class)[Len(s)] = Casts(s, T, class)[Len(s)]
  BY <1>1, CastsPrefix
<1> QED
  BY <1>2 DEF GetAll

\* What is appended to the second of two containers is appended to them together.
GrowsBehind(a, S) == \A b \in Seq(S), e \in S : Append(a \o b, e) = a \o Append(b, e)

\* That is so for any sequences.
LEMMA AppendBehind == ASSUME NEW S, NEW a \in Seq(S) PROVE GrowsBehind(a, S)
<1> SUFFICES ASSUME NEW b \in Seq(S), NEW e \in S
             PROVE  Append(a \o b, e) = a \o Append(b, e)
  BY DEF GrowsBehind
<1>1. <<e>> \in Seq(S) /\ a \o b \in Seq(S)
  BY ConcatProperties
<1>2. Append(a \o b, e) = (a \o b) \o <<e>> /\ Append(b, e) = b \o <<e>>
  BY <1>1, AppendIsConcat
<1>3. (a \o b) \o <<e>> = a \o (b \o <<e>>)
  <2> DEFINE f == <<e>>
  <2>1. f \in Seq(S)
    BY <1>1
  <2> HIDE DEF f
  <2>2. (a \o b) \o f = a \o (b \o f)
    BY <2>1, ConcatAssociative
  <2> QED
    BY <2>2 DEF f
<1> QED
  BY <1>2, <1>3

\* One container behind another.
LEMMA GetAllConcat ==
  ASSUME NEW S, NEW s \in Seq(S), NEW t \in Seq(S), NEW T, NEW class
  PROVE  GetAll(s \o t, T, class) = GetAll(s, T, class) \o GetAll(t, T, class)
<1> DEFINE u == s \o t
           a == GetAll(s, T, class)
           c == Casts(u, T, class)
           d == Casts(t, T, class)
           Behind(b) == a \o b
           U == {k \in Nat : k <= Len(t) => c[Len(s) + k] = Behind(d[k])}
<1>1. /\ Len(s) \in Nat /\ Len(t) \in Nat /\ u \in Seq(S) /\ Len(u) = Len(s) + Len(t)
      /\ \A i \in 1..Len(t) : t[i] \in S
  BY ConcatProperties, SeqFacts
<1>2. /\ \A i \in 1..Len(s) : u[i] = s[i]
      /\ \A i \in 1..Len(t) : u[Len(s) + i] = t[i]
  <2>1. \A i \in 1..(Len(s) + Len(t)) : u[i] = IF i <= Len(s) THEN s[i] ELSE t[i - Len(s)]
    BY <1>1, ConcatProperties
  <2>2. ASSUME NEW i \in 1..Len(t) PROVE u[Len(s) + i] = t[i]
    <3>1. Len(s) + i \in 1..(Len(s) + Len(t)) /\ ~(Len(s) + i <= Len(s)) /\ (Len(s) + i) - Len(s) = i
      BY <1>1
    <3> HIDE DEF u
    <3> QED
      BY <2>1, <3>1
  <2> HIDE DEF u
  <2>3. ASSUME NEW i \in 1..Len(s) PROVE u[i] = s[i]
    <3>1. i \in 1..(Len(s) + Len(t)) /\ i <= Len(s)
      BY <1>1
    <3> QED
      BY <2>1, <3>1
  <2> QED
    BY <2>2, <2>3
<1>3. a \in Seq(S) /\ \A k \in 0..Len(t) : d[k] \in Seq(S)
  BY GetAllFacts, CastsFacts
<1>4. Len(u) \in Nat
  BY <1>1
<1> HIDE DEF u
<1>5. c[Len(s)] = a
  <2>1. Len(s) \in Nat /\ Len(s) <= Len(u) /\ \A i \in 1..Len(s) : u[i] = s[i]
    BY <1>1, <1>2
  <2> QED
    BY <1>4, <2>1, GetAllPrefix
<1>6. \A k \in 1..Len(u) :
        c[k] = IF T \in Class[class[u[k]]].is THEN Append(c[k - 1], u[k]) ELSE c[k - 1]
  BY <1>4, CastsRecursion
<1>7. d[0] = << >> /\ \A k \in 1..Len(t) :
        d[k] = IF T \in Class[class[t[k]]].is THEN Append(d[k - 1], t[k]) ELSE d[k - 1]
  BY <1>1, CastsRecursion
<1> HIDE DEF a, c, d
<1>8. ASSUME NEW b \in Seq(S), NEW e \in S
       PROVE  Append(Behind(b), e) = Behind(Append(b, e))
  <2>1. Append(a \o b, e) = a \o Append(b, e)
    <3>1. GrowsBehind(a, S)
      BY <1>3, AppendBehind
    <3> QED
      BY <3>1, Zenon DEF GrowsBehind
  <2> QED
    BY <2>1
<1>9. Behind(<< >>) = a
  BY <1>3, ConcatEmptySeq
<1> HIDE DEF Behind
<1>10. 0 \in U
  BY <1>1, <1>3, <1>5, <1>7, <1>9
<1>11. ASSUME NEW k \in Nat, k \in U PROVE k + 1 \in U
  <2> SUFFICES ASSUME k + 1 <= Len(t) PROVE c[Len(s) + (k + 1)] = Behind(d[k + 1])
    OBVIOUS
  <2>1. /\ k + 1 \in 1..Len(t) /\ (k + 1) - 1 = k /\ k \in 0..Len(t)
        /\ Len(s) + (k + 1) \in 1..Len(u) /\ (Len(s) + (k + 1)) - 1 = Len(s) + k
        /\ c[Len(s) + k] = Behind(d[k]) /\ u[Len(s) + (k + 1)] = t[k + 1]
    BY <1>1, <1>2, <1>11
  <2>2. c[Len(s) + (k + 1)] = IF T \in Class[class[t[k + 1]]].is
                              THEN Append(c[Len(s) + k], t[k + 1]) ELSE c[Len(s) + k]
    BY <1>6, <2>1
  <2>3. d[k + 1] = IF T \in Class[class[t[k + 1]]].is THEN Append(d[k], t[k + 1]) ELSE d[k]
    BY <1>7, <2>1
  <2>4. Append(Behind(d[k]), t[k + 1]) = Behind(Append(d[k], t[k + 1]))
    <3>1. d[k] \in Seq(S) /\ t[k + 1] \in S
      BY <1>1, <1>3, <2>1
    <3> QED
      BY <1>8, <3>1
  <2> QED
    BY <2>1, <2>2, <2>3, <2>4
<1>12. Len(t) \in U
  <2> HIDE DEF U
  <2> QED
    BY <1>1, <1>10, <1>11, SetInduction
<1>13. c[Len(s) + Len(t)] = Behind(d[Len(t)])
  BY <1>1, <1>12
<1> QED
  BY <1>1, <1>13 DEF GetAll, Behind, a, c, d, u

\* getOne gives an object of the type if the container has one.
LEMMA GetOneFacts ==
  ASSUME NEW S, 0 \notin S, NEW s \in Seq(S), NEW T, NEW class
  PROVE  GetOne(s, T, class) # 0 =>
           /\ GetOne(s, T, class) \in Members(s)
           /\ T \in Class[class[GetOne(s, T, class)]].is
<1> DEFINE all == GetAll(s, T, class)
<1>1. all \in Seq(S) /\ Members(all) = {o \in Members(s) : T \in Class[class[o]].is}
  BY GetAllFacts
<1>2. GetOne(s, T, class) = IF all = << >> THEN 0 ELSE all[1]
  BY DEF GetOne
<1> HIDE DEF all
<1>3. all # << >> => all[1] \in Members(all)
  <2>1. Len(all) \in Nat /\ (all # << >> => Len(all) # 0) /\ \A i \in 1..Len(all) : all[i] \in Members(all)
    BY <1>1, SeqFacts, EmptySeq
  <2> QED
    BY <2>1
<1> QED
  BY <1>1, <1>2, <1>3

-----------------------------------------------------------------------------
(* What the invariant says of the containers and the runner *)

\* What the proofs of the steps use of the invariant.
LEMMA InvFacts ==
  ASSUME IInv
  PROVE  /\ Objects = 1..Len(cls) /\ Len(cls) \in Nat /\ 0 \notin Objects
         /\ cls \in Seq(Members(cls)) /\ Len(ran) = Len(cls)
         /\ box = [a \in {"main", "defaults"} |-> box[a]]
         /\ \A a \in {"main", "defaults"} : box[a] \in Seq(Objects) /\ Members(box[a]) \subseteq Objects
         /\ runner.queue \in Seq(Objects) /\ runner.members \in Seq(Objects)
         /\ Members(runner.members) \subseteq Objects
<1>1. Objects = 1..Len(cls) /\ Len(cls) \in Nat /\ cls \in Seq(Members(cls)) /\ Len(ran) = Len(cls)
  BY SeqFacts DEF IInv, Shape, IsSequence, Objects
<1>2. /\ box = [a \in {"main", "defaults"} |-> box[a]]
      /\ \A a \in {"main", "defaults"} : box[a] \in Seq(Objects)
      /\ runner.queue \in Seq(Objects) /\ runner.members \in Seq(Objects)
  BY DEF IInv, Shape
<1>3. /\ \A a \in {"main", "defaults"} : Members(box[a]) \subseteq Objects
      /\ Members(runner.members) \subseteq Objects
  BY <1>2, SeqFacts
<1> QED
  BY <1>1, <1>2, <1>3

\* What the runner keeps alive is in the aggregator, unless it is an AggregatableRunner
\* and the aggregator has been cleared.
LEMMA RunnerKeeps ==
  ASSUME IInv, runner.kind = "simple" \/ ~cleared
  PROVE  Members(runner.queue) \cup Members(runner.members) \subseteq Members(box["main"])
<1>1. Members(GetAll(box["main"], Runnable, cls)) \subseteq Members(box["main"])
  <2>1. box["main"] \in Seq(Objects)
    BY InvFacts
  <2> QED
    BY <2>1, GetAllFacts
<1>2. /\ runner.kind \in Kinds /\ Members(runner.queue) \subseteq Members(StageObjects)
      /\ runner.kind = "simple" => runner.members = << >>
      /\ runner.kind = "aggregatable" /\ ~cleared =>
           runner.members = GetAll(box["main"], Runnable, cls)
  BY DEF IInv, PlaceInv, Shape
<1>3. CASE runner.kind = "simple"
  <2>1. Members(runner.members) = {}
    BY <1>2, <1>3 DEF Members
  <2>2. Members(runner.queue) \subseteq Members(GetAll(box["main"], Runnable, cls))
    BY <1>2, <1>3 DEF StageObjects
  <2> QED
    BY <1>1, <2>1, <2>2
<1>4. CASE runner.kind # "simple"
  <2>1. runner.kind = "aggregatable" /\ ~cleared
    BY <1>2, <1>4 DEF Kinds
  <2>2. Members(runner.queue) \subseteq Members(runner.members)
    BY <1>2, <1>4 DEF StageObjects
  <2> QED
    BY <1>1, <1>2, <2>1, <2>2
<1> QED
  BY <1>3, <1>4

-----------------------------------------------------------------------------
(* notifyAggregationOnUpdate *)

\* Every member of the container that is updated has its handles and Multi handles
\* afterwards, and no other object is touched.
LEMMA Notifying ==
  ASSUME IInv, NEW a \in {"main", "defaults"},
         cls' \in Seq(Members(cls')), Len(cls) <= Len(cls'), \A o \in Objects : cls'[o] = cls[o],
         box' \in [{"main", "defaults"} -> Seq(DOMAIN cls')],
         Notify(a, box', held, cls')
  PROVE  /\ DOMAIN handle' = DOMAIN cls' /\ DOMAIN many' = DOMAIN cls'
         /\ \A o \in Objects \ Members(box'[a]) : handle'[o] = handle[o] /\ many'[o] = many[o]
         /\ \A o \in DOMAIN cls', T \in Types :
              handle'[o][T] # 0 => /\ handle'[o][T] \in DOMAIN cls'
                                   /\ T \in Class[cls'[handle'[o][T]]].is
         /\ \A o \in DOMAIN cls', T \in Types :
              /\ IsSequence(many'[o][T])
              /\ \A q \in Members(many'[o][T]) : q \in DOMAIN cls' /\ T \in Class[cls'[q]].is
         /\ \A o \in Members(box'[a]), T \in Types :
              T \in Class[cls'[o]].wants /\ GetOne(box'[a], T, cls') # 0 =>
                handle'[o][T] # 0 /\ Alive(handle'[o][T], box', held, runner)
         /\ \A o \in Members(box'[a]), T \in Types :
              /\ T \in Class[cls'[o]].wantsAll
              /\ o \in Objects /\ Len(many[o][T]) = Len(GetAll(box'[a], T, cls'))
                   => many[o][T] = GetAll(box'[a], T, cls')
              => many'[o][T] = GetAll(box'[a], T, cls')
<1> DEFINE N == DOMAIN cls'
           is(o) == o \in Members(box'[a])
           none == [T \in Types |-> 0]
           empty == [T \in Types |-> << >>]
           old(o) == IF o \in DOMAIN handle THEN handle[o] ELSE none
           olds(o) == IF o \in DOMAIN many THEN many[o] ELSE empty
           single(o) == [T \in Types |-> IF T \notin Class[cls'[o]].wants THEN 0
                          ELSE SetSingle(old(o)[T], Alive(old(o)[T], box', held, runner),
                                         box'[a], T, cls')]
           multi(o) == [T \in Types |-> IF T \notin Class[cls'[o]].wantsAll THEN << >>
                          ELSE SetMulti(olds(o)[T], box'[a], T, cls')]
<1>1. /\ handle' = [o \in N |-> IF ~is(o) THEN old(o) ELSE single(o)]
      /\ many' = [o \in N |-> IF ~is(o) THEN olds(o) ELSE multi(o)]
  BY DEF Notify, Notified
<1>2. /\ Objects = 1..Len(cls) /\ Len(cls) \in Nat /\ 0 \notin N /\ Objects \subseteq N
      /\ N = 1..Len(cls') /\ Len(cls') \in Nat
      /\ DOMAIN handle = Objects /\ DOMAIN many = Objects
  <2>1. Objects = 1..Len(cls) /\ Len(cls) \in Nat
    BY InvFacts
  <2>2. N = 1..Len(cls') /\ Len(cls') \in Nat
    BY SeqFacts
  <2> HIDE DEF N
  <2>3. DOMAIN handle = Objects /\ DOMAIN many = Objects
    BY DEF IInv, Shape
  <2> QED
    BY <2>1, <2>2, <2>3
<1>3. box'[a] \in Seq(N) /\ Members(box'[a]) \subseteq N
  <2>1. box'[a] \in Seq(N)
    OBVIOUS
  <2> QED
    BY <2>1, SeqFacts
<1>4. \A o \in N, T \in Types : old(o)[T] # 0 => old(o)[T] \in N /\ T \in Class[cls'[old(o)[T]]].is
  <2> SUFFICES ASSUME NEW o \in N, NEW T \in Types, old(o)[T] # 0
               PROVE  old(o)[T] \in N /\ T \in Class[cls'[old(o)[T]]].is
    OBVIOUS
  <2>1. o \in Objects /\ old(o) = handle[o]
    <3>1. none[T] = 0
      OBVIOUS
    <3> QED
      BY <1>2, <3>1
  <2>2. handle[o][T] \in Objects /\ T \in Class[cls[handle[o][T]]].is
    BY <2>1 DEF IInv, HandleInv
  <2> HIDE DEF old, N
  <2> QED
    BY <1>2, <2>1, <2>2
<1>5. \A o \in N, T \in Types :
        /\ IsSequence(olds(o)[T])
        /\ \A q \in Members(olds(o)[T]) : q \in N /\ T \in Class[cls'[q]].is
  <2> SUFFICES ASSUME NEW o \in N, NEW T \in Types
               PROVE  /\ IsSequence(olds(o)[T])
                      /\ \A q \in Members(olds(o)[T]) : q \in N /\ T \in Class[cls'[q]].is
    OBVIOUS
  <2>1. CASE o \in Objects
    <3>1. olds(o) = many[o]
      BY <1>2, <2>1
    <3>2. /\ IsSequence(many[o][T])
          /\ \A q \in Members(many[o][T]) : q \in Objects /\ T \in Class[cls[q]].is
      BY <2>1 DEF IInv, HandleInv
    <3> HIDE DEF olds, N
    <3> QED
      BY <1>2, <3>1, <3>2
  <2>2. CASE o \notin Objects
    <3>1. olds(o)[T] = << >>
      BY <1>2, <2>2
    <3>2. IsSequence(<< >>) /\ Members(<< >>) = {}
      BY DEF IsSequence, Members
    <3> HIDE DEF olds, N
    <3> QED
      BY <3>1, <3>2
  <2> QED
    BY <2>1, <2>2
<1>6. \A T : LET all == GetAll(box'[a], T, cls') IN
        IsSequence(all) /\ \A q \in Members(all) : q \in N /\ T \in Class[cls'[q]].is
  <2> SUFFICES ASSUME NEW T
               PROVE  LET all == GetAll(box'[a], T, cls') IN
                        IsSequence(all) /\ \A q \in Members(all) : q \in N /\ T \in Class[cls'[q]].is
    OBVIOUS
  <2> HIDE DEF N
  <2>1. /\ GetAll(box'[a], T, cls') \in Seq(N)
        /\ Members(GetAll(box'[a], T, cls')) = {q \in Members(box'[a]) : T \in Class[cls'[q]].is}
    BY <1>3, GetAllFacts
  <2>2. IsSequence(GetAll(box'[a], T, cls'))
    BY <2>1, SeqFacts
  <2> QED
    BY <1>3, <2>1, <2>2
<1>7. \A T : GetOne(box'[a], T, cls') # 0 =>
        /\ GetOne(box'[a], T, cls') \in Members(box'[a])
        /\ T \in Class[cls'[GetOne(box'[a], T, cls')]].is
  <2> HIDE DEF N
  <2> QED
    BY <1>2, <1>3, GetOneFacts
<1>8. \A o : o \in Members(box'[a]) => Alive(o, box', held, runner)
  BY DEF Alive
<1>9. \A o \in Members(box'[a]), T \in Types :
        /\ T \notin Class[cls'[o]].wants => handle'[o][T] = 0
        /\ T \in Class[cls'[o]].wants =>
             handle'[o][T] = IF old(o)[T] # 0 /\ Alive(old(o)[T], box', held, runner)
                             THEN old(o)[T] ELSE GetOne(box'[a], T, cls')
        /\ T \notin Class[cls'[o]].wantsAll => many'[o][T] = << >>
        /\ T \in Class[cls'[o]].wantsAll =>
             many'[o][T] = IF Len(GetAll(box'[a], T, cls')) # Len(olds(o)[T])
                           THEN GetAll(box'[a], T, cls') ELSE olds(o)[T]
  <2> SUFFICES ASSUME NEW o \in Members(box'[a]), NEW T \in Types
               PROVE  /\ T \notin Class[cls'[o]].wants => handle'[o][T] = 0
                      /\ T \in Class[cls'[o]].wants =>
                           handle'[o][T] = IF old(o)[T] # 0 /\ Alive(old(o)[T], box', held, runner)
                                           THEN old(o)[T] ELSE GetOne(box'[a], T, cls')
                      /\ T \notin Class[cls'[o]].wantsAll => many'[o][T] = << >>
                      /\ T \in Class[cls'[o]].wantsAll =>
                           many'[o][T] = IF Len(GetAll(box'[a], T, cls')) # Len(olds(o)[T])
                                         THEN GetAll(box'[a], T, cls') ELSE olds(o)[T]
    OBVIOUS
  <2>1. o \in N /\ is(o)
    BY <1>3
  <2>2. handle'[o] = single(o) /\ many'[o] = multi(o)
    <3> HIDE DEF single, multi, old, olds, N
    <3> QED
      BY <1>1, <2>1
  <2> HIDE DEF old, olds
  <2>3. /\ handle'[o][T] = IF T \notin Class[cls'[o]].wants THEN 0
             ELSE SetSingle(old(o)[T], Alive(old(o)[T], box', held, runner), box'[a], T, cls')
        /\ many'[o][T] = IF T \notin Class[cls'[o]].wantsAll THEN << >>
             ELSE SetMulti(olds(o)[T], box'[a], T, cls')
    BY <2>2
  <2> QED
    BY <2>3 DEF SetSingle, SetMulti
<1>10. \A o \in N : o \notin Members(box'[a]) => handle'[o] = old(o) /\ many'[o] = olds(o)
  <2> HIDE DEF single, multi, old, olds, N
  <2> QED
    BY <1>1
<1>11. DOMAIN handle' = N /\ DOMAIN many' = N
  <2> HIDE DEF single, multi, old, olds, N
  <2> QED
    BY <1>1
<1>12. \A o \in Objects \ Members(box'[a]) : handle'[o] = handle[o] /\ many'[o] = many[o]
  BY <1>2, <1>10
<1> HIDE DEF old, N, single, multi
<1>13. \A o \in N, T \in Types :
         handle'[o][T] # 0 => handle'[o][T] \in N /\ T \in Class[cls'[handle'[o][T]]].is
  <2> SUFFICES ASSUME NEW o \in N, NEW T \in Types, handle'[o][T] # 0
               PROVE  handle'[o][T] \in N /\ T \in Class[cls'[handle'[o][T]]].is
    OBVIOUS
  <2> DEFINE first == GetOne(box'[a], T, cls')
  <2>1. first # 0 => first \in N /\ T \in Class[cls'[first]].is
    BY <1>3, <1>7
  <2>2. handle'[o][T] \in {0, old(o)[T], first}
    BY <1>9, <1>10
  <2> HIDE DEF first
  <2> QED
    BY <1>4, <2>1, <2>2
<1>14. \A o \in N, T \in Types :
         /\ IsSequence(many'[o][T])
         /\ \A q \in Members(many'[o][T]) : q \in N /\ T \in Class[cls'[q]].is
  <2> SUFFICES ASSUME NEW o \in N, NEW T \in Types
               PROVE  /\ IsSequence(many'[o][T])
                      /\ \A q \in Members(many'[o][T]) : q \in N /\ T \in Class[cls'[q]].is
    OBVIOUS
  <2>1. IsSequence(<< >>) /\ Members(<< >>) = {}
    BY DEF IsSequence, Members
  <2>2. many'[o][T] \in {<< >>, olds(o)[T], GetAll(box'[a], T, cls')}
    <3> HIDE DEF olds
    <3> QED
      BY <1>9, <1>10
  <2> HIDE DEF olds
  <2> QED
    BY <1>5, <1>6, <2>1, <2>2
<1>15. \A o \in Members(box'[a]), T \in Types :
         T \in Class[cls'[o]].wants /\ GetOne(box'[a], T, cls') # 0 =>
           handle'[o][T] # 0 /\ Alive(handle'[o][T], box', held, runner)
  <2> SUFFICES ASSUME NEW o \in Members(box'[a]), NEW T \in Types, T \in Class[cls'[o]].wants,
                      GetOne(box'[a], T, cls') # 0
               PROVE  handle'[o][T] # 0 /\ Alive(handle'[o][T], box', held, runner)
    OBVIOUS
  <2> DEFINE first == GetOne(box'[a], T, cls')
             lives == Alive(old(o)[T], box', held, runner)
  <2>1. first # 0 /\ Alive(first, box', held, runner)
    BY <1>7, <1>8
  <2>2. handle'[o][T] = IF old(o)[T] # 0 /\ lives THEN old(o)[T] ELSE first
    BY <1>9
  <2> HIDE DEF first
  <2>3. CASE old(o)[T] # 0 /\ lives
    BY <2>2, <2>3
  <2>4. CASE ~(old(o)[T] # 0 /\ lives)
    <3>1. handle'[o][T] = first
      BY <2>2, <2>4
    <3> QED
      BY <2>1, <3>1
  <2> QED
    BY <2>3, <2>4
<1>16. \A o \in Members(box'[a]), T \in Types :
         /\ T \in Class[cls'[o]].wantsAll
         /\ o \in Objects /\ Len(many[o][T]) = Len(GetAll(box'[a], T, cls'))
              => many[o][T] = GetAll(box'[a], T, cls')
         => many'[o][T] = GetAll(box'[a], T, cls')
  <2> SUFFICES ASSUME NEW o \in Members(box'[a]), NEW T \in Types, T \in Class[cls'[o]].wantsAll,
                      o \in Objects /\ Len(many[o][T]) = Len(GetAll(box'[a], T, cls'))
                        => many[o][T] = GetAll(box'[a], T, cls')
               PROVE  many'[o][T] = GetAll(box'[a], T, cls')
    OBVIOUS
  <2>1. many'[o][T] = IF Len(GetAll(box'[a], T, cls')) # Len(olds(o)[T])
                      THEN GetAll(box'[a], T, cls') ELSE olds(o)[T]
    BY <1>9
  <2>2. CASE o \in Objects
    <3>1. olds(o)[T] = many[o][T]
      BY <1>2, <2>2
    <3> HIDE DEF olds
    <3> QED
      BY <2>1, <2>2, <3>1
  <2>3. CASE o \notin Objects
    <3>1. olds(o)[T] = << >> /\ Len(<< >>) = 0
      BY <1>2, <2>3
    <3> HIDE DEF olds
    <3> DEFINE all == GetAll(box'[a], T, cls')
    <3>2. IsSequence(all)
      BY <1>6
    <3> HIDE DEF all
    <3>3. Len(all) = 0 => all = << >>
      BY <3>2, EmptySeq DEF IsSequence
    <3> QED
      BY <2>1, <3>1, <3>3 DEF all
  <2> QED
    BY <2>2, <2>3
<1> QED
  BY <1>11, <1>12, <1>13, <1>14, <1>15, <1>16 DEF N

-----------------------------------------------------------------------------
(* Containers that grow *)

\* A new object behind the others, for which the rest stays as it is.
LEMMA AppendNew ==
  ASSUME NEW S, NEW s \in Seq(S), NoDuplicates(s), NEW o, o \notin S
  PROVE  NoDuplicates(Append(s, o)) /\ Append(s, o) \in Seq(S \cup {o})
<1>1. /\ Len(s) \in Nat /\ Len(Append(s, o)) = Len(s) + 1
      /\ \A i \in 1..Len(s) : Append(s, o)[i] = s[i] /\ s[i] \in S
      /\ Append(s, o)[Len(s) + 1] = o
  BY SeqFacts, AppendFacts
<1>2. \A i, j \in 1..Len(s) : s[i] = s[j] => i = j
  BY DEF NoDuplicates
<1>3. NoDuplicates(Append(s, o))
  <2> SUFFICES ASSUME NEW i \in 1..(Len(s) + 1), NEW j \in 1..(Len(s) + 1),
                      Append(s, o)[i] = Append(s, o)[j]
               PROVE  i = j
    BY <1>1 DEF NoDuplicates
  <2>1. i \in 1..Len(s) \/ i = Len(s) + 1
    BY <1>1
  <2>2. j \in 1..Len(s) \/ j = Len(s) + 1
    BY <1>1
  <2> QED
    BY <1>1, <1>2, <2>1, <2>2
<1>4. Append(s, o) \in Seq(S \cup {o})
  <2>1. s \in Seq(S \cup {o})
    BY SeqMonotonic
  <2> QED
    BY <2>1, AppendProperties
<1> QED
  BY <1>3, <1>4

\* What an object keeps alive under another runner.
LEMMA AliveStays ==
  ASSUME IInv, NEW b, Members(box["main"]) \subseteq Members(b["main"]), NEW r,
         \/ runner.kind = "simple" \/ ~cleared
         \/ r.queue = runner.queue /\ r.members = runner.members
  PROVE  \A x : Alive(x, b, held, runner) => Alive(x, b, held, r)
<1>1. CASE runner.kind = "simple" \/ ~cleared
  <2>1. Members(runner.queue) \cup Members(runner.members) \subseteq Members(b["main"])
    BY <1>1, RunnerKeeps
  <2> QED
    BY <2>1 DEF Alive
<1>2. CASE r.queue = runner.queue /\ r.members = runner.members
  BY <1>2 DEF Alive
<1> QED
  BY <1>1, <1>2

\* A handle that was set stays set in a step that leaves the members, their handles and
\* whatever is alive.
LEMMA Kept ==
  ASSUME box'["main"] = box["main"],
         \A o \in Members(box["main"]) : cls'[o] = cls[o] /\ handle'[o] = handle[o],
         \A T \in Types : GetOne(box'["main"], T, cls') = GetOne(box["main"], T, cls),
         \A x : Alive(x, box, held, runner) => Alive(x, box', held', runner')
  PROVE  KeepsHandles
BY DEF KeepsHandles, IsSet

\* Aggregator::add of a new object of class c, the part that its callers share.
AddsNew(a, c) ==
  /\ a = "main" \/ phase = "create"
  /\ cls' = Append(cls, c) /\ box' = [box EXCEPT ![a] = Append(@, Len(cls) + 1)]
  /\ Notify(a, box', held, cls')
  /\ held' = held /\ phase' = phase /\ cleared' = cleared
  /\ \A x : Alive(x, box', held, runner) => Alive(x, box', held, runner')

\* An object that is added is new, and the others stay as they are (Aggregator::add).
LEMMA Adding ==
  ASSUME IInv, NEW a \in {"main", "defaults"}, NEW c, AddsNew(a, c)
  PROVE  /\ IsSequence(cls') /\ Len(cls') = Len(cls) + 1 /\ Objects' = Objects \cup {Len(cls) + 1}
         /\ Len(cls) + 1 \notin Objects /\ \A o \in Objects : cls'[o] = cls[o]
         /\ box' \in [{"main", "defaults"} -> Seq(Objects')]
         /\ Members(box'[a]) = Members(box[a]) \cup {Len(cls) + 1}
         /\ \A b \in {"main", "defaults"} : NoDuplicates(box'[b])
         /\ \A b \in {"main", "defaults"} \ {a} : box'[b] = box[b]
         /\ \A b \in {"main", "defaults"} : \A T :
              GetAll(box'[b], T, cls') =
                IF b = a /\ T \in Class[c].is THEN Append(GetAll(box[b], T, cls), Len(cls) + 1)
                ELSE GetAll(box[b], T, cls)
         /\ DOMAIN handle' = Objects' /\ DOMAIN many' = Objects'
         /\ HandleInv' /\ KeepsHandles /\ ManyInv'
<1> DEFINE o0 == Len(cls) + 1
           Boxes == {"main", "defaults"}
<1>1. /\ Objects = 1..Len(cls) /\ Len(cls) \in Nat /\ 0 \notin Objects
      /\ box = [b \in Boxes |-> box[b]]
      /\ \A b \in Boxes : box[b] \in Seq(Objects) /\ Members(box[b]) \subseteq Objects
  BY InvFacts
<1>2. /\ IsSequence(cls') /\ Len(cls') = o0 /\ DOMAIN cls' = 1..o0 /\ cls'[o0] = c
      /\ \A o \in Objects : cls'[o] = cls[o]
  <2>1. IsSequence(cls)
    BY DEF IInv, Shape
  <2> QED
    BY <1>1, <2>1, AppendFacts DEF AddsNew
<1>3. Objects' = Objects \cup {o0} /\ o0 \notin Objects /\ DOMAIN cls' = Objects'
  <2>1. Objects' = DOMAIN cls'
    BY DEF Objects
  <2>2. 1..(Len(cls) + 1) = (1..Len(cls)) \cup {Len(cls) + 1} /\ Len(cls) + 1 \notin 1..Len(cls)
    BY <1>1
  <2> QED
    BY <1>1, <1>2, <2>1, <2>2
<1>4. box'[a] = Append(box[a], o0) /\ \A b \in Boxes \ {a} : box'[b] = box[b]
  BY <1>1 DEF AddsNew
<1>17. /\ a = "main" \/ phase = "create"
       /\ Notify(a, box', held, cls') /\ held' = held /\ phase' = phase /\ cleared' = cleared
       /\ \A x : Alive(x, box', held, runner) => Alive(x, box', held, runner')
  BY DEF AddsNew
<1> HIDE DEF o0
<1>5. \A b \in Boxes : NoDuplicates(box[b])
  BY DEF IInv, PlaceInv
<1>6. NoDuplicates(box'[a]) /\ box'[a] \in Seq(Objects')
  <2>1. box[a] \in Seq(Objects) /\ NoDuplicates(box[a]) /\ o0 \notin Objects
    BY <1>1, <1>3, <1>5
  <2>2. NoDuplicates(Append(box[a], o0)) /\ Append(box[a], o0) \in Seq(Objects \cup {o0})
    BY <2>1, AppendNew
  <2> QED
    BY <1>3, <1>4, <2>2
<1>7. \A b \in Boxes : NoDuplicates(box'[b]) /\ box'[b] \in Seq(Objects')
  <2> SUFFICES ASSUME NEW b \in Boxes \ {a} PROVE NoDuplicates(box'[b]) /\ box'[b] \in Seq(Objects')
    BY <1>6
  <2>1. box[b] \in Seq(Objects')
    <3>1. Objects \subseteq Objects' /\ box[b] \in Seq(Objects)
      BY <1>1, <1>3
    <3> QED
      BY <3>1, SeqMonotonic
  <2> QED
    BY <1>4, <1>5, <2>1
<1>8. box' \in [Boxes -> Seq(Objects')]
  <2>1. DOMAIN box' = Boxes /\ box' = [b \in Boxes |-> box'[b]]
    BY <1>1 DEF AddsNew
  <2> QED
    BY <1>7, <2>1
<1>9. Members(box'[a]) = Members(box[a]) \cup {o0}
  <2>1. IsSequence(box[a])
    BY <1>1, SeqFacts
  <2> QED
    BY <1>4, <2>1, AppendFacts
<1>10. \A b \in Boxes : \A T :
         GetAll(box'[b], T, cls') =
           IF b = a /\ T \in Class[c].is THEN Append(GetAll(box[b], T, cls), o0)
           ELSE GetAll(box[b], T, cls)
  <2> SUFFICES ASSUME NEW b \in Boxes, NEW T
               PROVE  GetAll(box'[b], T, cls') =
                        IF b = a /\ T \in Class[c].is THEN Append(GetAll(box[b], T, cls), o0)
                        ELSE GetAll(box[b], T, cls)
    OBVIOUS
  <2>1. CASE b = a
    <3>1. /\ box[a] \in Seq(Objects) /\ \A x \in Objects : cls'[x] = cls[x]
          /\ box'[a] = Append(box[a], o0) /\ cls'[o0] = c
      BY <1>1, <1>2, <1>4
    <3>2. /\ T \in Class[cls'[o0]].is =>
               GetAll(Append(box[a], o0), T, cls') = Append(GetAll(box[a], T, cls), o0)
          /\ T \notin Class[cls'[o0]].is =>
               GetAll(Append(box[a], o0), T, cls') = GetAll(box[a], T, cls)
      BY <3>1, GetAllGrown
    <3> QED
      BY <2>1, <3>1, <3>2
  <2>2. CASE b # a
    <3>1. box[b] \in Seq(Objects) /\ \A o \in Members(box[b]) : cls[o] = cls'[o]
      BY <1>1, <1>2
    <3>2. GetAll(box[b], T, cls) = GetAll(box[b], T, cls')
      BY <3>1, GetAllOther
    <3> QED
      BY <1>4, <2>2, <3>2
  <2> QED
    BY <2>1, <2>2
<1>11. cls' \in Seq(Members(cls')) /\ Len(cls) <= Len(cls')
  BY <1>1, <1>2 DEF IsSequence, o0
<1>12. /\ DOMAIN handle' = DOMAIN cls' /\ DOMAIN many' = DOMAIN cls'
       /\ \A o \in Objects \ Members(box'[a]) : handle'[o] = handle[o] /\ many'[o] = many[o]
       /\ \A o \in DOMAIN cls', T \in Types :
            handle'[o][T] # 0 => /\ handle'[o][T] \in DOMAIN cls'
                                 /\ T \in Class[cls'[handle'[o][T]]].is
       /\ \A o \in DOMAIN cls', T \in Types :
            /\ IsSequence(many'[o][T])
            /\ \A q \in Members(many'[o][T]) : q \in DOMAIN cls' /\ T \in Class[cls'[q]].is
       /\ \A o \in Members(box'[a]), T \in Types :
            T \in Class[cls'[o]].wants /\ GetOne(box'[a], T, cls') # 0 =>
              handle'[o][T] # 0 /\ Alive(handle'[o][T], box', held, runner)
       /\ \A o \in Members(box'[a]), T \in Types :
            /\ T \in Class[cls'[o]].wantsAll
            /\ o \in Objects /\ Len(many[o][T]) = Len(GetAll(box'[a], T, cls'))
                 => many[o][T] = GetAll(box'[a], T, cls')
            => many'[o][T] = GetAll(box'[a], T, cls')
  BY <1>2, <1>3, <1>8, <1>11, <1>17, Notifying
<1>13. HandleInv'
  BY <1>3, <1>12 DEF HandleInv
<1>14. phase = "create" => Members(box["main"]) \cap Members(box["defaults"]) = {}
  BY DEF IInv, PlaceInv
<1>15. KeepsHandles
  <2>1. CASE a = "main"
    <3>1. \A o \in Members(box'["main"]), T \in Types : IsSet(o, T)'
      BY <1>12, <1>17, <2>1 DEF IsSet
    <3> QED
      BY <3>1 DEF KeepsHandles
  <2>2. CASE a # "main"
    <3>1. a = "defaults" /\ phase = "create" /\ box'["main"] = box["main"]
      BY <1>4, <1>17, <2>2
    <3>2. \A o \in Members(box["main"]) :
            /\ o \in Objects /\ cls'[o] = cls[o] /\ handle'[o] = handle[o]
      BY <1>1, <1>2, <1>3, <1>9, <1>12, <1>14, <3>1
    <3>3. \A T \in Types : GetOne(box'["main"], T, cls') = GetOne(box["main"], T, cls)
      <4>1. \A T \in Types : GetAll(box'["main"], T, cls') = GetAll(box["main"], T, cls)
        BY <1>10, <2>2
      <4> QED
        BY <4>1 DEF GetOne
    <3>4. \A x : Alive(x, box, held, runner) => Alive(x, box', held', runner')
      <4>1. Members(box["main"]) = Members(box'["main"])
            /\ Members(box["defaults"]) \subseteq Members(box'["defaults"])
        BY <1>9, <3>1
      <4>2. \A x : Alive(x, box, held, runner) => Alive(x, box', held, runner)
        BY <4>1 DEF Alive
      <4> QED
        BY <1>17, <4>2
    <3> QED
      BY <3>1, <3>2, <3>3, <3>4, Kept
  <2> QED
    BY <2>1, <2>2
<1>16. ManyInv'
  <2> SUFFICES ASSUME NEW b \in Boxes, ~cleared, b = "main" \/ phase = "create",
                      NEW o \in Members(box'[b]), NEW T \in Types, T \in Class[cls'[o]].wantsAll
               PROVE  many'[o][T] = GetAll(box'[b], T, cls')
    BY <1>17 DEF ManyInv
  <2>0. \A q \in Members(box[b]) : T \in Class[cls[q]].wantsAll => many[q][T] = GetAll(box[b], T, cls)
    BY DEF IInv, ManyInv
  <2>1. CASE b = a
    <3>1. ASSUME o \in Objects, Len(many[o][T]) = Len(GetAll(box'[a], T, cls'))
          PROVE  many[o][T] = GetAll(box'[a], T, cls')
      <4>1. o \in Members(box[b]) /\ cls'[o] = cls[o]
        BY <1>2, <1>3, <1>9, <2>1, <3>1
      <4>2. many[o][T] = GetAll(box[a], T, cls)
        BY <2>0, <2>1, <4>1
      <4>3. CASE T \in Class[c].is
        <5>1. GetAll(box'[a], T, cls') = Append(GetAll(box[a], T, cls), o0)
          BY <1>10, <4>3
        <5>2. IsSequence(GetAll(box[a], T, cls))
          <6>1. GetAll(box[a], T, cls) \in Seq(Objects)
            BY <1>1, GetAllFacts
          <6> QED
            BY <6>1, SeqFacts
        <5>3. /\ Len(GetAll(box[a], T, cls)) \in Nat
              /\ Len(GetAll(box'[a], T, cls')) = Len(GetAll(box[a], T, cls)) + 1
          BY <5>1, <5>2, AppendFacts
        <5> QED
          BY <3>1, <4>2, <5>3
      <4>4. CASE T \notin Class[c].is
        BY <1>10, <4>2, <4>4
      <4> QED
        BY <4>3, <4>4
    <3>2. o \in Members(box'[a]) /\ T \in Class[cls'[o]].wantsAll
      BY <2>1
    <3>3. many'[o][T] = GetAll(box'[a], T, cls')
      BY <1>12, <3>1, <3>2
    <3> QED
      BY <2>1, <3>3
  <2>2. CASE b # a
    <3>1. phase = "create" /\ box'[b] = box[b]
      BY <1>4, <1>17, <2>2
    <3>2. o \in Members(box[b]) /\ o \in Objects /\ o \notin Members(box'[a])
      BY <1>1, <1>3, <1>9, <1>14, <2>2, <3>1
    <3>3. many'[o] = many[o] /\ cls'[o] = cls[o]
      BY <1>2, <1>12, <3>2
    <3>4. GetAll(box'[b], T, cls') = GetAll(box[b], T, cls)
      BY <1>10, <2>2
    <3> QED
      BY <2>0, <3>2, <3>3, <3>4
  <2> QED
    BY <2>1, <2>2
<1> QED
  BY <1>2, <1>3, <1>4, <1>7, <1>8, <1>9, <1>10, <1>12, <1>13, <1>15, <1>16 DEF o0

-----------------------------------------------------------------------------
(* The steps *)

\* Creating, mapping and ending change nothing that the invariant is about but the
\* phase.
LEMMA PhaseStep ==
  ASSUME IInv, UNCHANGED <<objects, graph, running, cleared>>, ops' = ops,
         \/ phase' = phase
         \/ phase = "create" /\ phase' \in {"client", "thrown"}
         \/ phase = "run" /\ phase' = "done"
  PROVE  IInv' /\ KeepsHandles
<1>1. UNCHANGED <<cls, vals, reported, box, held, handle, many, runner, ran, cleared, ops>>
  BY DEF objects, graph, running
<1>2. phase \in Phases
  BY DEF IInv, Shape
<1>3. phase' \in Phases /\ (phase' = "create" => phase = "create")
      /\ (phase' \in {"run", "done"} <=> phase \in {"run", "done"})
  BY <1>2 DEF Phases
<1>4. Shape'
  BY <1>1, <1>3 DEF IInv, Shape, Objects
<1>5. HandleInv'
  BY <1>1 DEF IInv, HandleInv, Objects
<1>6. PlaceInv'
  BY <1>1, <1>3 DEF IInv, PlaceInv, StageObjects
<1>7. KeepsHandles
  BY <1>1, Kept
<1>8. ManyInv'
  BY <1>1, <1>3 DEF IInv, ManyInv
<1>9. StageInv'
  BY <1>1, <1>3 DEF IInv, StageInv, StageObjects, Objects
<1> QED
  BY <1>4, <1>5, <1>6, <1>7, <1>8, <1>9 DEF IInv

\* A client that holds an object keeps the invariant.
LEMMA HoldStep ==
  ASSUME IInv, NEW o, ClientHold(o)
  PROVE  IInv' /\ KeepsHandles
<1>1. /\ UNCHANGED <<cls, vals, reported, box, handle, many, runner, ran, cleared, phase>>
      /\ phase = "client" /\ o \in Members(box["main"]) /\ held' = held \cup {o}
      /\ ops > 0 /\ ops' = ops - 1
  BY DEF ClientHold, ClientCalls, objects, running
<1>2. o \in Objects /\ ops' \in Nat
  <2>1. ops \in Nat
    BY DEF IInv, Shape
  <2> QED
    BY <1>1, <2>1, InvFacts
<1>3. Shape'
  BY <1>1, <1>2 DEF IInv, Shape, Objects
<1>4. HandleInv'
  BY <1>1 DEF IInv, HandleInv, Objects
<1>5. PlaceInv'
  BY <1>1 DEF IInv, PlaceInv, StageObjects
<1>6. KeepsHandles
  <2>1. \A x : Alive(x, box, held, runner) => Alive(x, box', held', runner')
    BY <1>1 DEF Alive
  <2> QED
    BY <1>1, <2>1, Kept
<1>7. ManyInv'
  BY <1>1 DEF IInv, ManyInv
<1>8. StageInv'
  BY <1>1 DEF IInv, StageInv, StageObjects, Objects
<1> QED
  BY <1>3, <1>4, <1>5, <1>6, <1>7, <1>8 DEF IInv

\* So does one that lets go of it, although a handle may then have lost its object.
LEMMA ReleaseStep ==
  ASSUME IInv, NEW o, ClientRelease(o)
  PROVE  IInv' /\ KeepsHandles
<1>1. /\ UNCHANGED <<cls, vals, reported, box, handle, many, runner, ran, cleared, phase>>
      /\ phase = "client" /\ o \in held /\ held' = held \ {o}
      /\ ops > 0 /\ ops' = ops - 1
  BY DEF ClientRelease, ClientCalls, objects, running
<1>2. ops' \in Nat
  <2>1. ops \in Nat
    BY DEF IInv, Shape
  <2> QED
    BY <1>1, <2>1
<1>3. Shape'
  BY <1>1, <1>2 DEF IInv, Shape, Objects
<1>4. HandleInv'
  BY <1>1 DEF IInv, HandleInv, Objects
<1>5. PlaceInv'
  BY <1>1 DEF IInv, PlaceInv, StageObjects
<1>6. KeepsHandles
  <2>1. \A x : Alive(x, box, held, runner) => x = o \/ Alive(x, box', held', runner')
    BY <1>1 DEF Alive
  <2>2. held \ held' = {o}
    BY <1>1
  <2> QED
    BY <1>1, <2>1, <2>2 DEF KeepsHandles, IsSet
<1>7. ManyInv'
  BY <1>1 DEF IInv, ManyInv
<1>8. StageInv'
  BY <1>1 DEF IInv, StageInv, StageObjects, Objects
<1> QED
  BY <1>3, <1>4, <1>5, <1>6, <1>7, <1>8 DEF IInv

\* clear() keeps the invariant: the aggregator has no members whose handles could be stale.
LEMMA ClearStep ==
  ASSUME IInv, ClientClear
  PROVE  IInv' /\ KeepsHandles
<1>1. /\ UNCHANGED <<cls, vals, reported, held, handle, many, runner, ran, phase>>
      /\ phase = "client" /\ ops > 0 /\ ops' = ops - 1 /\ cleared' = TRUE
      /\ box' = [box EXCEPT !["main"] = << >>]
  BY DEF ClientClear, ClientCalls, objects, running
<1>2. ops' \in Nat
  <2>1. ops \in Nat
    BY DEF IInv, Shape
  <2> QED
    BY <1>1, <2>1
<1>3. /\ box'["main"] = << >> /\ box'["defaults"] = box["defaults"]
      /\ box' \in [{"main", "defaults"} -> Seq(Objects)]
  <2>1. << >> \in Seq(Objects)
    OBVIOUS
  <2> QED
    BY <1>1, <2>1 DEF IInv, Shape
<1>4. Members(<< >>) = {} /\ NoDuplicates(<< >>) /\ runner.queue = << >>
  BY <1>1 DEF Members, NoDuplicates, IInv, StageInv
<1>5. Shape'
  BY <1>1, <1>2, <1>3 DEF IInv, Shape, Objects
<1>6. HandleInv'
  BY <1>1 DEF IInv, HandleInv, Objects
<1>7. PlaceInv'
  BY <1>1, <1>3, <1>4 DEF IInv, PlaceInv
<1>8. KeepsHandles
  BY <1>3, <1>4 DEF KeepsHandles
<1>9. ManyInv'
  BY <1>1 DEF ManyInv
<1>10. StageInv'
  BY <1>1 DEF IInv, StageInv, Objects
<1> QED
  BY <1>5, <1>6, <1>7, <1>8, <1>9, <1>10 DEF IInv

\* What the runner takes through a stage.
LEMMA StageObjectsFacts ==
  ASSUME IInv
  PROVE  /\ StageObjects \in Seq(Objects) /\ NoDuplicates(StageObjects)
         /\ Members(StageObjects) \subseteq Objects
         /\ Members(StageObjects) \subseteq Members(box["main"]) \cup Members(runner.members)
<1>1. box["main"] \in Seq(Objects) /\ runner.members \in Seq(Objects)
  BY InvFacts
<1>2. NoDuplicates(box["main"]) /\ NoDuplicates(runner.members)
  BY DEF IInv, PlaceInv
<1>3. /\ GetAll(box["main"], Runnable, cls) \in Seq(Objects)
      /\ NoDuplicates(GetAll(box["main"], Runnable, cls))
      /\ Members(GetAll(box["main"], Runnable, cls)) \subseteq Members(box["main"])
  BY <1>1, <1>2, GetAllFacts
<1>4. /\ StageObjects \in Seq(Objects) /\ NoDuplicates(StageObjects)
      /\ Members(StageObjects) \subseteq Members(box["main"]) \cup Members(runner.members)
  BY <1>1, <1>2, <1>3 DEF StageObjects
<1> QED
  BY <1>4, SeqFacts

\* The begin of a stage keeps the invariant: its objects have run the stages before.
LEMMA BeginStep ==
  ASSUME IInv, BeginStage
  PROVE  IInv' /\ KeepsHandles
<1>1. /\ UNCHANGED <<cls, vals, reported, box, held, handle, many, ran, ops, cleared>>
      /\ phase = "client" \/ (phase = "run" /\ runner.queue = << >>)
      /\ runner.stage < Len(Stages) /\ ~runner.error /\ phase' = "run"
      /\ runner' = [runner EXCEPT !.stage = @ + 1, !.queue = StageObjects]
  BY DEF BeginStage, GoesOn, StageDone, objects, graph
<1>2. /\ runner.kind \in Kinds /\ runner.stage \in 0..Len(Stages) /\ runner.error \in BOOLEAN
      /\ runner.members \in Seq(Objects)
      /\ runner = [kind |-> runner.kind, stage |-> runner.stage, queue |-> runner.queue,
                   error |-> runner.error, members |-> runner.members]
  BY DEF IInv, Shape
<1>3. /\ runner'.kind = runner.kind /\ runner'.stage = runner.stage + 1
      /\ runner'.queue = StageObjects /\ runner'.error = runner.error
      /\ runner'.members = runner.members
  BY <1>1, <1>2
<1>4. Len(Stages) = 3
  BY DEF Stages
<1>5. runner' \in [kind : Kinds, stage : 0..Len(Stages), queue : Seq(Objects), error : BOOLEAN,
                   members : Seq(Objects)]
  <2>1. StageObjects \in Seq(Objects)
    BY StageObjectsFacts
  <2>2. runner.stage + 1 \in 0..Len(Stages)
    BY <1>1, <1>2, <1>4
  <2>3. runner' = [kind |-> runner.kind, stage |-> runner.stage + 1, queue |-> StageObjects,
                   error |-> runner.error, members |-> runner.members]
    BY <1>1, <1>2
  <2> HIDE <1>1
  <2> QED
    BY <1>2, <2>1, <2>2, <2>3
<1>6. runner.queue = << >>
  BY <1>1 DEF IInv, StageInv
<1>7. StageObjects' = StageObjects
  BY <1>1, <1>3 DEF StageObjects
<1>8. Shape'
  BY <1>1, <1>5 DEF IInv, Shape, Objects, Phases
<1>9. HandleInv'
  BY <1>1 DEF IInv, HandleInv, Objects
<1>10. PlaceInv'
  <2>1. NoDuplicates(StageObjects)
    BY StageObjectsFacts
  <2> QED
    BY <1>1, <1>3, <1>7, <2>1 DEF IInv, PlaceInv
<1>11. KeepsHandles
  <2>1. \A x : Alive(x, box, held, runner) => Alive(x, box', held', runner')
    <3>1. Members(<< >>) = {}
      BY DEF Members
    <3> QED
      BY <1>1, <1>3, <1>6, <3>1 DEF Alive
  <2> QED
    BY <1>1, <2>1, Kept
<1>12. ManyInv'
  BY <1>1 DEF IInv, ManyInv
<1>13. StageInv'
  <2>1. \A o \in Objects : /\ IsSequence(ran[o]) /\ Len(ran[o]) <= runner.stage
                           /\ \A s \in 1..Len(ran[o]) : ran[o][s] \in {Stages[s], "missed"}
    BY DEF IInv, StageInv
  <2>2. \A o \in Objects : Len(ran[o]) \in Nat
    BY <2>1, SeqFacts DEF IsSequence
  <2>3. \A o \in Objects : Len(ran[o]) <= runner.stage + 1
    BY <1>2, <2>1, <2>2
  <2>4. \A o \in Members(StageObjects) : Len(ran[o]) = runner.stage
    <3>1. Members(StageObjects) \subseteq Objects
      BY StageObjectsFacts
    <3>2. CASE phase = "client"
      <4>1. runner.stage = 0
        BY <3>2 DEF IInv, StageInv
      <4> QED
        BY <2>1, <2>2, <3>1, <4>1
    <3>3. CASE phase = "run"
      <4>1. Members(runner.queue) = {}
        BY <1>6 DEF Members
      <4> QED
        BY <1>1, <3>3, <4>1 DEF IInv, StageInv
    <3> QED
      BY <1>1, <3>2, <3>3
  <2>5. runner.stage + 1 >= 1 /\ runner.stage = (runner.stage + 1) - 1
    BY <1>2
  <2> QED
    BY <1>1, <1>3, <1>7, <2>1, <2>3, <2>4, <2>5 DEF StageInv, Objects
<1> QED
  BY <1>8, <1>9, <1>10, <1>11, <1>12, <1>13 DEF IInv

\* What an update of container a does to the runner.
LEMMA Telling ==
  ASSUME IInv, NEW a, runner' = RunnerNotified(a, box', cls')
  PROVE  /\ runner' = [kind |-> runner.kind, stage |-> runner.stage, queue |-> runner.queue,
                       error |-> runner.error, members |-> runner'.members]
         /\ runner'.members = IF runner.kind = "aggregatable" /\ a = "main" /\ ~cleared
                              THEN GetAll(box'[a], Runnable, cls') ELSE runner.members
         /\ runner.kind \in Kinds /\ runner.stage \in 0..Len(Stages)
         /\ runner.queue \in Seq(Objects) /\ runner.error \in BOOLEAN
<1>1. /\ runner = [kind |-> runner.kind, stage |-> runner.stage, queue |-> runner.queue,
                   error |-> runner.error, members |-> runner.members]
      /\ runner.kind \in Kinds /\ runner.stage \in 0..Len(Stages)
      /\ runner.queue \in Seq(Objects) /\ runner.error \in BOOLEAN
  BY DEF IInv, Shape
<1>2. CASE runner.kind = "aggregatable" /\ a = "main" /\ ~cleared
  <2>1. runner' = [runner EXCEPT !.members = GetAll(box'[a], Runnable, cls')]
    BY <1>2 DEF RunnerNotified
  <2> QED
    BY <1>1, <1>2, <2>1
<1>3. CASE ~(runner.kind = "aggregatable" /\ a = "main" /\ ~cleared)
  <2>1. runner' = runner
    BY <1>3 DEF RunnerNotified
  <2> QED
    BY <1>1, <1>3, <2>1
<1> QED
  BY <1>2, <1>3

\* An update of container a that adds objects to it.
Updates(a) ==
  /\ runner' = RunnerNotified(a, box', cls')
  /\ Objects \subseteq Objects' /\ \A o \in Objects : cls'[o] = cls[o]
  /\ box' \in [{"main", "defaults"} -> Seq(Objects')]
  /\ \A b \in {"main", "defaults"} : NoDuplicates(box'[b])
  /\ Members(box["main"]) \subseteq Members(box'["main"])
  /\ a # "main" => box'["main"] = box["main"]
  /\ phase = "create" => Members(box'["main"]) \cap Members(box'["defaults"]) = {}
  /\ held' = held /\ phase' = phase /\ cleared' = cleared

\* When an aggregator is told of a new object, the runner keeps what it has.
LEMMA Updating ==
  ASSUME IInv, NEW a \in {"main", "defaults"}, Updates(a)
  PROVE  /\ PlaceInv'
         /\ runner' \in [kind : Kinds, stage : 0..Len(Stages), queue : Seq(Objects'), error : BOOLEAN,
                         members : Seq(Objects')]
<1>1. /\ runner' = [kind |-> runner.kind, stage |-> runner.stage, queue |-> runner.queue,
                    error |-> runner.error, members |-> runner'.members]
      /\ runner'.members = IF runner.kind = "aggregatable" /\ a = "main" /\ ~cleared
                           THEN GetAll(box'[a], Runnable, cls') ELSE runner.members
      /\ runner.kind \in Kinds /\ runner.stage \in 0..Len(Stages)
      /\ runner.queue \in Seq(Objects) /\ runner.error \in BOOLEAN
  BY Telling DEF Updates
<1>2. runner'.kind = runner.kind /\ runner'.queue = runner.queue
  BY <1>1
<1>3. /\ Objects \subseteq Objects' /\ \A o \in Objects : cls'[o] = cls[o]
      /\ \A b \in {"main", "defaults"} : NoDuplicates(box'[b]) /\ box'[b] \in Seq(Objects')
      /\ Members(box["main"]) \subseteq Members(box'["main"])
      /\ a # "main" => box'["main"] = box["main"]
      /\ phase = "create" => Members(box'["main"]) \cap Members(box'["defaults"]) = {}
      /\ held' = held /\ phase' = phase /\ cleared' = cleared
  BY DEF Updates
<1>4. /\ box["main"] \in Seq(Objects) /\ Members(box["main"]) \subseteq Objects
      /\ runner.members \in Seq(Objects)
  BY InvFacts
<1> DEFINE now == GetAll(box["main"], Runnable, cls)
           then == GetAll(box'["main"], Runnable, cls')
<1>5. /\ now \in Seq(Objects)
      /\ Members(now) = {o \in Members(box["main"]) : Runnable \in Class[cls[o]].is}
  BY <1>4, GetAllFacts
<1>6. /\ then \in Seq(Objects') /\ NoDuplicates(then)
      /\ Members(then) = {o \in Members(box'["main"]) : Runnable \in Class[cls'[o]].is}
  <2> DEFINE N == Objects'
             b == box'["main"]
             class == cls'
  <2>1. b \in Seq(N) /\ NoDuplicates(b)
    BY <1>3
  <2> HIDE DEF N, b, class
  <2>2. /\ GetAll(b, Runnable, class) \in Seq(N) /\ NoDuplicates(GetAll(b, Runnable, class))
        /\ Members(GetAll(b, Runnable, class)) = {o \in Members(b) : Runnable \in Class[class[o]].is}
    BY <2>1, GetAllFacts
  <2> QED
    BY <2>2 DEF N, b, class
<1>7. Members(now) \subseteq Members(then)
  <2> HIDE DEF now, then
  <2> QED
    BY <1>3, <1>4, <1>5, <1>6
<1>8. a # "main" => then = now
  <2> SUFFICES ASSUME a # "main" PROVE then = now
    OBVIOUS
  <2>1. box'["main"] = box["main"] /\ \A o \in Members(box["main"]) : cls[o] = cls'[o]
    BY <1>3, <1>4
  <2>2. GetAll(box["main"], Runnable, cls) = GetAll(box["main"], Runnable, cls')
    BY <1>4, <2>1, GetAllOther
  <2> QED
    BY <2>1, <2>2
<1>9. /\ phase = "create" => held = {}
      /\ ~cleared => held \subseteq Members(box["main"])
      /\ NoDuplicates(runner.queue) /\ NoDuplicates(runner.members)
      /\ Members(runner.queue) \subseteq Members(StageObjects)
      /\ runner.kind = "simple" => runner.members = << >>
      /\ runner.kind = "aggregatable" /\ ~cleared => runner.members = now
  BY DEF IInv, PlaceInv
<1>10. /\ StageObjects = IF runner.kind = "simple" THEN now ELSE runner.members
       /\ StageObjects' = IF runner.kind = "simple" THEN then ELSE runner'.members
  BY <1>2 DEF StageObjects
<1> HIDE DEF now, then
<1>11. /\ runner.kind = "aggregatable" /\ ~cleared => runner'.members = then
       /\ ~(runner.kind = "aggregatable" /\ ~cleared) => runner'.members = runner.members
  <2>1. CASE a = "main"
    BY <1>1, <2>1 DEF then
  <2>2. CASE a # "main"
    BY <1>1, <1>8, <1>9, <2>2
  <2> QED
    BY <2>1, <2>2
<1>12. Members(runner'.queue) \subseteq Members(StageObjects')
  <2>1. Members(StageObjects) \subseteq Members(StageObjects')
    <3>1. CASE runner.kind = "simple"
      BY <1>7, <1>10, <3>1
    <3>2. CASE runner.kind # "simple" /\ ~cleared
      <4>1. runner.kind = "aggregatable"
        BY <1>1, <3>2 DEF Kinds
      <4> QED
        BY <1>7, <1>9, <1>10, <1>11, <3>2, <4>1
    <3>3. CASE runner.kind # "simple" /\ cleared
      BY <1>10, <1>11, <3>3
    <3> QED
      BY <3>1, <3>2, <3>3
  <2> QED
    BY <1>2, <1>9, <2>1
<1>13. NoDuplicates(runner'.members) /\ runner'.members \in Seq(Objects')
  <2>1. runner.members \in Seq(Objects')
    BY <1>3, <1>4, SeqMonotonic
  <2> QED
    BY <1>6, <1>9, <1>11, <2>1
<1>14. PlaceInv'
  <2>1. /\ \A b \in {"main", "defaults"} : NoDuplicates(box'[b])
        /\ phase' = "create" => Members(box'["main"]) \cap Members(box'["defaults"]) = {} /\ held' = {}
        /\ ~cleared' => held' \subseteq Members(box'["main"])
    BY <1>3, <1>9
  <2>2. /\ NoDuplicates(runner'.queue) /\ NoDuplicates(runner'.members)
        /\ Members(runner'.queue) \subseteq Members(StageObjects')
    BY <1>2, <1>9, <1>12, <1>13
  <2>3. /\ runner'.kind = "simple" => runner'.members = << >>
        /\ runner'.kind = "aggregatable" /\ ~cleared' => runner'.members = then
    BY <1>2, <1>3, <1>9, <1>11
  <2> QED
    BY <2>1, <2>2, <2>3 DEF PlaceInv, then
<1>15. runner' \in [kind : Kinds, stage : 0..Len(Stages), queue : Seq(Objects'), error : BOOLEAN,
                    members : Seq(Objects')]
  <2>1. runner.queue \in Seq(Objects')
    BY <1>1, <1>3, SeqMonotonic
  <2> DEFINE N == Objects'
             m == runner'.members
  <2>2. runner.queue \in Seq(N) /\ m \in Seq(N)
    BY <1>13, <2>1
  <2>3. runner' = [kind |-> runner.kind, stage |-> runner.stage, queue |-> runner.queue,
                   error |-> runner.error, members |-> m]
    BY <1>1
  <2> HIDE DEF N, m
  <2>4. runner' \in [kind : Kinds, stage : 0..Len(Stages), queue : Seq(N), error : BOOLEAN,
                     members : Seq(N)]
    BY <1>1, <2>2, <2>3
  <2> QED
    BY <2>4 DEF N
<1> QED
  BY <1>14, <1>15

\* Nothing runs before the stages begin.
LEMMA BeforeStages ==
  ASSUME IInv, phase \notin {"run", "done"}, phase' = phase,
         runner'.stage = runner.stage, runner'.queue = runner.queue,
         \A o \in Objects' : IF o \in Objects THEN ran'[o] = ran[o] ELSE ran'[o] = << >>
  PROVE  StageInv'
<1>1. runner.stage = 0 /\ runner.queue = << >>
  BY DEF IInv, StageInv
<1>2. IsSequence(<< >>) /\ Len(<< >>) = 0
  BY DEF IsSequence, Members
<1>3. ASSUME NEW o \in Objects'
      PROVE  /\ IsSequence(ran'[o]) /\ Len(ran'[o]) <= runner'.stage
             /\ \A s \in 1..Len(ran'[o]) : ran'[o][s] \in {Stages[s], "missed"}
  <2>1. CASE o \in Objects
    BY <2>1 DEF IInv, StageInv
  <2>2. CASE o \notin Objects
    BY <1>1, <1>2, <2>2
  <2> QED
    BY <2>1, <2>2
<1> QED
  BY <1>1, <1>3 DEF StageInv

\* A new object in container a.
LEMMA AddStep ==
  ASSUME IInv, NEW a \in {"main", "defaults"}, a = "main" \/ phase = "create",
         NEW c, NEW values, NEW ok, AddNew(a, c, values, ok), runner' = RunnerNotified(a, box', cls'),
         held' = held, phase' = phase, cleared' = cleared, ops' \in Nat, phase \notin {"run", "done"}
  PROVE  IInv' /\ KeepsHandles
<1>1. /\ cls' = Append(cls, c) /\ vals' = Append(vals, values)
      /\ reported' = Append(reported, ok) /\ ran' = Append(ran, << >>)
      /\ box' = [box EXCEPT ![a] = Append(@, Len(cls) + 1)]
      /\ Notify(a, box', held, cls')
  BY DEF AddNew
<1>2. /\ runner' = [kind |-> runner.kind, stage |-> runner.stage, queue |-> runner.queue,
                    error |-> runner.error, members |-> runner'.members]
      /\ runner'.members = IF runner.kind = "aggregatable" /\ a = "main" /\ ~cleared
                           THEN GetAll(box'[a], Runnable, cls') ELSE runner.members
  BY Telling
<1>3. /\ runner'.stage = runner.stage /\ runner'.queue = runner.queue
      /\ \/ runner.kind = "simple" \/ ~cleared
         \/ runner'.queue = runner.queue /\ runner'.members = runner.members
  <2>1. runner'.stage = runner.stage /\ runner'.queue = runner.queue
    BY <1>2
  <2> QED
    BY <1>2, <2>1
<1>4. Members(box["main"]) \subseteq Members(box'["main"])
  <2>1. CASE a = "main"
    <3>1. box["main"] \in Seq(Objects) /\ box'["main"] = Append(box["main"], Len(cls) + 1)
      <4>1. box["main"] \in Seq(Objects) /\ box = [b \in {"main", "defaults"} |-> box[b]]
        BY InvFacts
      <4> QED
        BY <1>1, <2>1, <4>1
    <3>2. IsSequence(box["main"])
      BY <3>1, SeqFacts
    <3>3. Members(box'["main"]) = Members(box["main"]) \cup {Len(cls) + 1}
      BY <3>1, <3>2, AppendFacts
    <3> QED
      BY <3>3
  <2>2. CASE a # "main"
    <3>1. box'["main"] = box["main"]
      BY <1>1, <2>2
    <3> QED
      BY <3>1
  <2> QED
    BY <2>1, <2>2
<1>5. \A x : Alive(x, box', held, runner) => Alive(x, box', held, runner')
  BY <1>3, <1>4, AliveStays
<1>6. AddsNew(a, c)
  BY <1>1, <1>5 DEF AddsNew
<1>7. /\ IsSequence(cls') /\ Len(cls') = Len(cls) + 1 /\ Objects' = Objects \cup {Len(cls) + 1}
      /\ Len(cls) + 1 \notin Objects /\ \A o \in Objects : cls'[o] = cls[o]
      /\ box' \in [{"main", "defaults"} -> Seq(Objects')]
      /\ Members(box'[a]) = Members(box[a]) \cup {Len(cls) + 1}
      /\ \A b \in {"main", "defaults"} : NoDuplicates(box'[b])
      /\ \A b \in {"main", "defaults"} \ {a} : box'[b] = box[b]
      /\ DOMAIN handle' = Objects' /\ DOMAIN many' = Objects'
      /\ HandleInv' /\ KeepsHandles /\ ManyInv'
  BY <1>6, Adding
<1>8. Updates(a)
  <2>1. phase = "create" => Members(box'["main"]) \cap Members(box'["defaults"]) = {}
    <3> SUFFICES ASSUME phase = "create"
                 PROVE  Members(box'["main"]) \cap Members(box'["defaults"]) = {}
      OBVIOUS
    <3>1. /\ Members(box["main"]) \cap Members(box["defaults"]) = {}
          /\ Members(box["main"]) \subseteq Objects /\ Members(box["defaults"]) \subseteq Objects
      BY InvFacts DEF IInv, PlaceInv
    <3>2. CASE a = "main"
      <4>1. /\ Members(box'["main"]) = Members(box["main"]) \cup {Len(cls) + 1}
            /\ box'["defaults"] = box["defaults"]
        BY <1>7, <3>2
      <4> QED
        BY <1>7, <3>1, <4>1
    <3>3. CASE a = "defaults"
      <4>1. /\ Members(box'["defaults"]) = Members(box["defaults"]) \cup {Len(cls) + 1}
            /\ box'["main"] = box["main"]
        BY <1>7, <3>3
      <4> QED
        BY <1>7, <3>1, <4>1
    <3> QED
      BY <3>2, <3>3
  <2>2. a # "main" => box'["main"] = box["main"]
    BY <1>7
  <2>3. Objects \subseteq Objects'
    BY <1>7
  <2> QED
    BY <1>4, <1>7, <2>1, <2>2, <2>3 DEF Updates
<1>9. /\ PlaceInv'
      /\ runner' \in [kind : Kinds, stage : 0..Len(Stages), queue : Seq(Objects'), error : BOOLEAN,
                      members : Seq(Objects')]
  BY <1>8, Updating
<1>10. /\ IsSequence(vals') /\ Len(vals') = Len(cls) + 1
       /\ IsSequence(reported') /\ Len(reported') = Len(cls) + 1
       /\ IsSequence(ran') /\ Len(ran') = Len(cls) + 1
       /\ \A i \in 1..Len(cls) : ran'[i] = ran[i]
       /\ ran'[Len(cls) + 1] = << >>
  <2>1. /\ IsSequence(vals) /\ IsSequence(reported) /\ IsSequence(ran)
        /\ Len(vals) = Len(cls) /\ Len(reported) = Len(cls) /\ Len(ran) = Len(cls)
    BY DEF IInv, Shape
  <2> QED
    BY <1>1, <2>1, AppendFacts
<1>11. Shape'
  <2>1. held' \subseteq Objects' /\ phase' \in Phases /\ cleared' \in BOOLEAN
    BY <1>7 DEF IInv, Shape
  <2> QED
    BY <1>7, <1>9, <1>10, <2>1 DEF Shape
<1>12. StageInv'
  <2>1. Objects = 1..Len(cls)
    BY InvFacts
  <2>2. \A o \in Objects' : IF o \in Objects THEN ran'[o] = ran[o] ELSE ran'[o] = << >>
    BY <1>7, <1>10, <2>1
  <2> QED
    BY <1>3, <2>2, BeforeStages
<1> QED
  BY <1>7, <1>9, <1>11, <1>12 DEF IInv

\* The containers are other ones of the same objects, the aggregator has what it had.
Regroups ==
  /\ UNCHANGED <<objects, held, ran, phase, cleared>> /\ ops' \in Nat
  /\ phase \notin {"run", "done"}
  /\ box' \in [{"main", "defaults"} -> Seq(Objects)]
  /\ \A b \in {"main", "defaults"} : NoDuplicates(box'[b])
  /\ Members(box["main"]) \subseteq Members(box'["main"])
  /\ Members(box'["main"]) \cap Members(box'["defaults"]) = {} \/ phase # "create"
  /\ Notify("main", box', held, cls) /\ runner' = RunnerNotified("main", box', cls)

\* When objects move from the defaults to the aggregator, the invariant stays.
LEMMA Regrouping ==
  ASSUME IInv, Regroups,
         \A b \in {"main", "defaults"} : ~cleared /\ (b = "main" \/ phase = "create") =>
           \A o \in Members(box'[b]), T \in Types :
             T \in Class[cls[o]].wantsAll =>
               b = "main" /\ (Len(many[o][T]) = Len(GetAll(box'[b], T, cls))
                                => many[o][T] = GetAll(box'[b], T, cls))
  PROVE  IInv' /\ KeepsHandles
<1>1. /\ UNCHANGED <<cls, vals, reported, held, ran, phase, cleared>> /\ ops' \in Nat
      /\ phase \notin {"run", "done"}
      /\ box' \in [{"main", "defaults"} -> Seq(Objects)]
      /\ \A b \in {"main", "defaults"} : NoDuplicates(box'[b])
      /\ Members(box["main"]) \subseteq Members(box'["main"])
      /\ phase = "create" => Members(box'["main"]) \cap Members(box'["defaults"]) = {}
  BY DEF Regroups, objects
<1>2. Objects' = Objects /\ DOMAIN cls' = Objects
  BY <1>1 DEF Objects
<1>3. Notify("main", box', held, cls') /\ runner' = RunnerNotified("main", box', cls')
  BY <1>1 DEF Regroups
<1>4. Updates("main")
  BY <1>1, <1>2, <1>3 DEF Updates
<1>5. /\ PlaceInv'
      /\ runner' \in [kind : Kinds, stage : 0..Len(Stages), queue : Seq(Objects'), error : BOOLEAN,
                      members : Seq(Objects')]
  BY <1>4, Updating
<1>6. cls' \in Seq(Members(cls')) /\ Len(cls) <= Len(cls') /\ \A o \in Objects : cls'[o] = cls[o]
  <2>1. cls \in Seq(Members(cls)) /\ Len(cls) \in Nat
    BY InvFacts
  <2> QED
    BY <1>1, <2>1
<1>7. box' \in [{"main", "defaults"} -> Seq(DOMAIN cls')]
  BY <1>1, <1>2
<1>8. /\ DOMAIN handle' = DOMAIN cls' /\ DOMAIN many' = DOMAIN cls'
      /\ \A o \in DOMAIN cls', T \in Types :
           handle'[o][T] # 0 => /\ handle'[o][T] \in DOMAIN cls'
                                /\ T \in Class[cls'[handle'[o][T]]].is
      /\ \A o \in DOMAIN cls', T \in Types :
           /\ IsSequence(many'[o][T])
           /\ \A q \in Members(many'[o][T]) : q \in DOMAIN cls' /\ T \in Class[cls'[q]].is
      /\ \A o \in Members(box'["main"]), T \in Types :
           T \in Class[cls'[o]].wants /\ GetOne(box'["main"], T, cls') # 0 =>
             handle'[o][T] # 0 /\ Alive(handle'[o][T], box', held, runner)
      /\ \A o \in Members(box'["main"]), T \in Types :
           /\ T \in Class[cls'[o]].wantsAll
           /\ o \in Objects /\ Len(many[o][T]) = Len(GetAll(box'["main"], T, cls'))
                => many[o][T] = GetAll(box'["main"], T, cls')
           => many'[o][T] = GetAll(box'["main"], T, cls')
  BY <1>3, <1>6, <1>7, Notifying
<1>9. HandleInv'
  BY <1>2, <1>8 DEF HandleInv
<1>10. /\ runner' = [kind |-> runner.kind, stage |-> runner.stage, queue |-> runner.queue,
                     error |-> runner.error, members |-> runner'.members]
       /\ cleared => runner'.members = runner.members
  BY <1>3, Telling
<1>11. runner'.stage = runner.stage /\ runner'.queue = runner.queue
  BY <1>10
<1>12. KeepsHandles
  <2>1. \A x : Alive(x, box', held, runner) => Alive(x, box', held', runner')
    <3>1. \/ runner.kind = "simple" \/ ~cleared
          \/ runner'.queue = runner.queue /\ runner'.members = runner.members
      BY <1>10, <1>11
    <3> QED
      BY <1>1, <3>1, AliveStays
  <2> QED
    BY <1>8, <2>1 DEF KeepsHandles, IsSet
<1>13. ManyInv'
  <2> SUFFICES ASSUME NEW b \in {"main", "defaults"}, ~cleared, b = "main" \/ phase = "create",
                      NEW o \in Members(box'[b]), NEW T \in Types, T \in Class[cls[o]].wantsAll
               PROVE  many'[o][T] = GetAll(box'[b], T, cls)
    BY <1>1 DEF ManyInv
  <2>1. b = "main" /\ (Len(many[o][T]) = Len(GetAll(box'[b], T, cls))
                         => many[o][T] = GetAll(box'[b], T, cls))
    OBVIOUS
  <2>2. o \in Members(box'["main"]) /\ T \in Class[cls'[o]].wantsAll /\ cls' = cls
    BY <1>1, <2>1
  <2> QED
    BY <1>8, <2>1, <2>2
<1>14. StageInv'
  <2>1. \A o \in Objects' : IF o \in Objects THEN ran'[o] = ran[o] ELSE ran'[o] = << >>
    BY <1>1, <1>2
  <2> QED
    BY <1>1, <1>11, <2>1, BeforeStages
<1>15. Shape'
  <2>1. /\ IsSequence(cls') /\ IsSequence(vals') /\ IsSequence(reported') /\ IsSequence(ran')
        /\ Len(vals') = Len(cls') /\ Len(reported') = Len(cls') /\ Len(ran') = Len(cls')
        /\ held' \subseteq Objects' /\ phase' \in Phases /\ cleared' \in BOOLEAN
    BY <1>1, <1>2 DEF IInv, Shape
  <2> QED
    BY <1>1, <1>2, <1>5, <1>8, <2>1 DEF Shape
<1> QED
  BY <1>5, <1>9, <1>12, <1>13, <1>14, <1>15 DEF IInv

\* After clear() the client may add again what it holds.
LEMMA AddHeldStep ==
  ASSUME IInv, NEW o, ClientAddHeld(o)
  PROVE  IInv' /\ KeepsHandles
<1>1. /\ phase = "client" /\ ops > 0 /\ ops' = ops - 1 /\ o \in held \ Members(box["main"])
      /\ box' = [box EXCEPT !["main"] = Append(@, o)]
      /\ Notify("main", box', held, cls) /\ runner' = RunnerNotified("main", box', cls)
      /\ UNCHANGED <<objects, held, ran, phase, cleared>>
  BY DEF ClientAddHeld, ClientCalls
<1>2. cleared
  BY <1>1 DEF IInv, PlaceInv
<1>3. ops' \in Nat
  <2>1. ops \in Nat
    BY DEF IInv, Shape
  <2> QED
    BY <1>1, <2>1
<1>4. /\ box = [b \in {"main", "defaults"} |-> box[b]]
      /\ \A b \in {"main", "defaults"} : box[b] \in Seq(Objects)
      /\ o \in Objects
  <2>1. held \subseteq Objects
    BY DEF IInv, Shape
  <2> QED
    BY <1>1, <2>1, InvFacts
<1>5. box'["main"] = Append(box["main"], o) /\ box'["defaults"] = box["defaults"]
      /\ box' = [b \in {"main", "defaults"} |-> box'[b]]
  BY <1>1, <1>4
<1>6. IsSequence(box["main"])
  BY <1>4, SeqFacts
<1>7. Members(box'["main"]) = Members(box["main"]) \cup {o} /\ box'["main"] \in Seq(Objects)
  BY <1>4, <1>5, <1>6, AppendFacts, AppendProperties
<1>8. NoDuplicates(box'["main"]) /\ NoDuplicates(box'["defaults"])
  <2>1. NoDuplicates(box["main"]) /\ NoDuplicates(box["defaults"])
    BY DEF IInv, PlaceInv
  <2> DEFINE s == box["main"]
             S == Members(box["main"])
  <2>2. s \in Seq(S) /\ NoDuplicates(s) /\ o \notin S
    BY <1>1, <1>6, <2>1 DEF IsSequence
  <2> HIDE DEF s, S
  <2>3. NoDuplicates(Append(s, o))
    BY <2>2, AppendNew
  <2> QED
    BY <1>5, <2>1, <2>3 DEF s
<1>9. Regroups
  <2>1. box' \in [{"main", "defaults"} -> Seq(Objects)]
    BY <1>4, <1>5, <1>7
  <2> QED
    BY <1>1, <1>3, <1>7, <1>8, <2>1 DEF Regroups
<1> QED
  BY <1>2, <1>9, Regrouping

\* Two containers that have no object in common.
LEMMA ConcatFacts ==
  ASSUME NEW S, NEW s \in Seq(S), NEW t \in Seq(S)
  PROVE  /\ s \o t \in Seq(S) /\ Members(s \o t) = Members(s) \cup Members(t)
         /\ NoDuplicates(s) /\ NoDuplicates(t) /\ Members(s) \cap Members(t) = {}
              => NoDuplicates(s \o t)
<1> DEFINE u == s \o t
<1>1. /\ Len(s) \in Nat /\ Len(t) \in Nat /\ u \in Seq(S) /\ Len(u) = Len(s) + Len(t)
      /\ Members(s) = {s[i] : i \in 1..Len(s)} /\ Members(t) = {t[i] : i \in 1..Len(t)}
      /\ Members(u) = {u[i] : i \in 1..Len(u)}
  <2>1. u \in Seq(S) /\ Len(u) = Len(s) + Len(t)
    BY ConcatProperties
  <2> HIDE DEF u
  <2> QED
    BY <2>1, SeqFacts
<1>2. \A i \in 1..(Len(s) + Len(t)) : u[i] = IF i <= Len(s) THEN s[i] ELSE t[i - Len(s)]
  BY ConcatProperties
<1> HIDE DEF u
<1>3. \A i \in 1..Len(u) : \/ i \in 1..Len(s) /\ u[i] = s[i]
                           \/ i - Len(s) \in 1..Len(t) /\ u[i] = t[i - Len(s)]
  <2> SUFFICES ASSUME NEW i \in 1..Len(u)
               PROVE  \/ i \in 1..Len(s) /\ u[i] = s[i]
                      \/ i - Len(s) \in 1..Len(t) /\ u[i] = t[i - Len(s)]
    OBVIOUS
  <2>1. i \in 1..(Len(s) + Len(t))
    BY <1>1
  <2>2. CASE i <= Len(s)
    BY <1>1, <1>2, <2>1, <2>2
  <2>3. CASE ~(i <= Len(s))
    <3>1. i - Len(s) \in 1..Len(t)
      BY <1>1, <2>1, <2>3
    <3> QED
      BY <1>2, <2>1, <2>3, <3>1
  <2> QED
    BY <2>2, <2>3
<1>4. Members(u) = Members(s) \cup Members(t)
  <2>1. ASSUME NEW i \in 1..Len(s) PROVE s[i] \in Members(u)
    <3>1. i \in 1..Len(u) /\ i \in 1..(Len(s) + Len(t)) /\ i <= Len(s)
      BY <1>1
    <3>2. u[i] = s[i]
      BY <1>2, <3>1
    <3> QED
      BY <1>1, <3>1, <3>2
  <2>2. ASSUME NEW i \in 1..Len(t) PROVE t[i] \in Members(u)
    <3>1. /\ Len(s) + i \in 1..Len(u) /\ Len(s) + i \in 1..(Len(s) + Len(t))
          /\ ~(Len(s) + i <= Len(s)) /\ (Len(s) + i) - Len(s) = i
      BY <1>1
    <3>2. u[Len(s) + i] = t[i]
      BY <1>2, <3>1
    <3> QED
      BY <1>1, <3>1, <3>2
  <2>3. Members(u) \subseteq Members(s) \cup Members(t)
    BY <1>1, <1>3
  <2> QED
    BY <1>1, <2>1, <2>2, <2>3
<1>5. ASSUME NoDuplicates(s), NoDuplicates(t), Members(s) \cap Members(t) = {}
      PROVE  NoDuplicates(u)
  <2> SUFFICES ASSUME NEW i \in 1..Len(u), NEW j \in 1..Len(u), u[i] = u[j]
               PROVE  i = j
    BY DEF NoDuplicates
  <2>1. \A k \in 1..Len(s), l \in 1..Len(t) : s[k] # t[l]
    BY <1>1, <1>5
  <2>2. CASE i \in 1..Len(s) /\ u[i] = s[i]
    <3>1. j \in 1..Len(s) /\ u[j] = s[j]
      BY <1>3, <2>1, <2>2
    <3> QED
      BY <1>5, <2>2, <3>1 DEF NoDuplicates
  <2>3. CASE i - Len(s) \in 1..Len(t) /\ u[i] = t[i - Len(s)]
    <3>1. j - Len(s) \in 1..Len(t) /\ u[j] = t[j - Len(s)]
      BY <1>3, <2>1, <2>3
    <3>2. i - Len(s) = j - Len(s)
      BY <1>5, <2>3, <3>1 DEF NoDuplicates
    <3> QED
      BY <1>1, <3>2
  <2> QED
    BY <1>3, <2>2, <2>3
<1> QED
  BY <1>1, <1>4, <1>5 DEF u

\* Merging the defaults keeps the invariant (Aggregator::merge).
LEMMA MergeStep ==
  ASSUME IInv, MergeDefaults
  PROVE  IInv' /\ KeepsHandles
<1>1. /\ phase = "create" /\ box' = [main |-> box["main"] \o box["defaults"], defaults |-> << >>]
      /\ Notify("main", box', held, cls) /\ runner' = RunnerNotified("main", box', cls)
      /\ UNCHANGED <<objects, held, ran, phase, ops, cleared>>
  BY DEF MergeDefaults, Creating
<1>2. ops' \in Nat
  BY <1>1 DEF IInv, Shape
<1> DEFINE s == box["main"]
           t == box["defaults"]
<1>3. /\ s \in Seq(Objects) /\ t \in Seq(Objects) /\ NoDuplicates(s) /\ NoDuplicates(t)
      /\ Members(s) \cap Members(t) = {}
  BY <1>1, InvFacts DEF IInv, PlaceInv
<1>4. box'["main"] = s \o t /\ box'["defaults"] = << >>
      /\ box' = [b \in {"main", "defaults"} |-> box'[b]]
  BY <1>1
<1>5. \A o \in Members(s) \cup Members(t), T \in Types :
        ~cleared /\ T \in Class[cls[o]].wantsAll =>
          many[o][T] = IF o \in Members(s) THEN GetAll(s, T, cls) ELSE GetAll(t, T, cls)
  <2> SUFFICES ASSUME NEW o \in Members(s) \cup Members(t), NEW T \in Types,
                      ~cleared, T \in Class[cls[o]].wantsAll
               PROVE  many[o][T] = IF o \in Members(s) THEN GetAll(s, T, cls) ELSE GetAll(t, T, cls)
    OBVIOUS
  <2>1. o \in Members(s) => many[o][T] = GetAll(s, T, cls)
    BY DEF IInv, ManyInv
  <2>2. o \in Members(t) => many[o][T] = GetAll(t, T, cls)
    BY <1>1 DEF IInv, ManyInv
  <2> QED
    BY <2>1, <2>2
<1> HIDE DEF s, t
<1>6. /\ s \o t \in Seq(Objects) /\ Members(s \o t) = Members(s) \cup Members(t)
      /\ NoDuplicates(s \o t)
  BY <1>3, ConcatFacts
<1>7. Members(<< >>) = {} /\ NoDuplicates(<< >>) /\ << >> \in Seq(Objects)
  BY DEF Members, NoDuplicates
<1>8. Regroups
  <2>1. box' \in [{"main", "defaults"} -> Seq(Objects)]
    BY <1>4, <1>6, <1>7
  <2>2. Members(box["main"]) \subseteq Members(box'["main"])
    BY <1>4, <1>6 DEF s
  <2>3. NoDuplicates(box'["main"]) /\ NoDuplicates(box'["defaults"])
    BY <1>4, <1>6, <1>7
  <2>4. Members(box'["main"]) \cap Members(box'["defaults"]) = {}
    BY <1>4, <1>7
  <2> QED
    BY <1>1, <1>2, <2>1, <2>2, <2>3, <2>4 DEF Regroups
<1>9. ASSUME ~cleared, NEW o \in Members(s \o t), NEW T \in Types, T \in Class[cls[o]].wantsAll,
             Len(many[o][T]) = Len(GetAll(s \o t, T, cls))
      PROVE  many[o][T] = GetAll(s \o t, T, cls)
  <2> DEFINE A == GetAll(s, T, cls)
             B == GetAll(t, T, cls)
  <2>1. A \in Seq(Objects) /\ B \in Seq(Objects)
    BY <1>3, GetAllFacts
  <2>2. GetAll(s \o t, T, cls) = A \o B
    BY <1>3, GetAllConcat
  <2>3. many[o][T] = IF o \in Members(s) THEN A ELSE B
    BY <1>5, <1>6, <1>9
  <2> HIDE DEF A, B
  <2>4. Len(A \o B) = Len(A) + Len(B) /\ Len(A) \in Nat /\ Len(B) \in Nat
    BY <2>1, ConcatProperties, LenProperties
  <2>5. CASE o \in Members(s)
    <3>1. Len(B) = 0
      BY <1>9, <2>2, <2>3, <2>4, <2>5
    <3>2. B = << >>
      BY <2>1, <3>1, EmptySeq
    <3> QED
      BY <2>1, <2>2, <2>3, <2>5, <3>2, ConcatEmptySeq
  <2>6. CASE o \notin Members(s)
    <3>1. Len(A) = 0
      BY <1>9, <2>2, <2>3, <2>4, <2>6
    <3>2. A = << >>
      BY <2>1, <3>1, EmptySeq
    <3> QED
      BY <2>1, <2>2, <2>3, <2>6, <3>2, ConcatEmptySeq
  <2> QED
    BY <2>5, <2>6
<1>10. \A b \in {"main", "defaults"} : ~cleared /\ (b = "main" \/ phase = "create") =>
         \A o \in Members(box'[b]), T \in Types :
           T \in Class[cls[o]].wantsAll =>
             b = "main" /\ (Len(many[o][T]) = Len(GetAll(box'[b], T, cls))
                              => many[o][T] = GetAll(box'[b], T, cls))
  <2>1. \A o \in Members(box'["main"]), T \in Types :
          ~cleared /\ T \in Class[cls[o]].wantsAll =>
            (Len(many[o][T]) = Len(GetAll(box'["main"], T, cls))
               => many[o][T] = GetAll(box'["main"], T, cls))
    BY <1>4, <1>9
  <2>2. Members(box'["defaults"]) = {}
    BY <1>4, <1>7
  <2> QED
    BY <2>1, <2>2
<1> QED
  BY <1>8, <1>10, Regrouping

\* The first of the queue goes through the stage: the object, what is left and how far
\* the objects are then.
HeadRuns(h, q, r) ==
  /\ phase = "run" /\ runner.queue # << >>
  /\ h = Head(runner.queue) /\ q = Tail(runner.queue)
  /\ r = [ran EXCEPT ![h] = Append(@, Stages[runner.stage])]

\* Only the head of the queue has run one stage more.
LEMMA HeadFacts ==
  ASSUME IInv, NEW h, NEW q, NEW r, HeadRuns(h, q, r)
  PROVE  /\ h \in Objects /\ q \in Seq(Objects) /\ NoDuplicates(q)
         /\ Members(q) = Members(runner.queue) \ {h}
         /\ IsSequence(r) /\ Len(r) = Len(cls)
         /\ \A o \in Objects \ {h} : r[o] = ran[o]
         /\ IsSequence(r[h]) /\ Len(r[h]) = runner.stage
         /\ \A s \in 1..Len(r[h]) : r[h][s] \in {Stages[s], "missed"}
<1> DEFINE z == runner.queue
           e == Stages[runner.stage]
<1>1. z \in Seq(Objects) /\ z # << >> /\ NoDuplicates(z)
  BY InvFacts DEF IInv, PlaceInv, HeadRuns
<1>2. /\ \A o \in Objects : /\ IsSequence(ran[o]) /\ Len(ran[o]) <= runner.stage
                            /\ \A s \in 1..Len(ran[o]) : ran[o][s] \in {Stages[s], "missed"}
      /\ \A o \in Members(z) : Len(ran[o]) = runner.stage - 1
      /\ runner.stage \in Nat
  <2>1. Members(z) \subseteq Members(StageObjects)
    BY DEF IInv, PlaceInv
  <2> QED
    BY <2>1 DEF IInv, StageInv, Shape, HeadRuns
<1>3. IsSequence(ran) /\ Len(ran) = Len(cls) /\ DOMAIN ran = Objects /\ Objects = 1..Len(cls)
  <2>1. IsSequence(ran) /\ Len(ran) = Len(cls) /\ Objects = 1..Len(cls)
    BY InvFacts DEF IInv, Shape
  <2> QED
    BY <2>1, SeqFacts DEF IsSequence
<1> HIDE DEF z, e
<1>4. /\ h \in Objects /\ q \in Seq(Objects) /\ Len(q) = Len(z) - 1 /\ h = z[1]
      /\ \A i \in 1..Len(q) : q[i] = z[i + 1]
      /\ Len(z) \in Nat /\ Len(z) # 0
  <2>1. h = Head(z) /\ q = Tail(z)
    BY DEF z, HeadRuns
  <2>2. Len(z) \in Nat /\ Len(z) # 0
    BY <1>1, EmptySeq, LenProperties
  <2>3. h = z[1]
    BY <1>1, <2>1
  <2> QED
    <3>1. Head(z) \in Objects /\ Tail(z) \in Seq(Objects) /\ Len(Tail(z)) = Len(z) - 1
          /\ \A i \in 1..Len(Tail(z)) : Tail(z)[i] = z[i + 1]
      BY <1>1, HeadTailProperties
    <3> QED
      BY <2>1, <2>2, <2>3, <3>1
<1>5. /\ Members(z) = {z[i] : i \in 1..Len(z)} /\ Members(q) = {q[i] : i \in 1..Len(q)}
      /\ Len(q) \in Nat
  <2>1. q \in Seq(Objects)
    BY <1>4
  <2>2. Members(z) = {z[i] : i \in 1..Len(z)}
    BY <1>1, SeqFacts
  <2>3. Members(q) = {q[i] : i \in 1..Len(q)} /\ Len(q) \in Nat
    <3> HIDE <1>4
    <3> QED
      BY <2>1, SeqFacts
  <2> QED
    BY <2>2, <2>3
<1>6. NoDuplicates(q)
  <2> SUFFICES ASSUME NEW i \in 1..Len(q), NEW j \in 1..Len(q), q[i] = q[j]
               PROVE  i = j
    BY DEF NoDuplicates
  <2>1. i + 1 \in 1..Len(z) /\ j + 1 \in 1..Len(z) /\ z[i + 1] = z[j + 1]
    BY <1>4
  <2>2. i + 1 = j + 1
    BY <1>1, <2>1 DEF NoDuplicates
  <2> QED
    BY <2>2
<1>7. Members(q) = Members(z) \ {h}
  <2>1. ASSUME NEW i \in 1..Len(q) PROVE q[i] \in Members(z) \ {h}
    <3>1. i + 1 \in 1..Len(z) /\ 1 \in 1..Len(z) /\ i + 1 # 1 /\ q[i] = z[i + 1]
      BY <1>4
    <3>2. z[i + 1] # z[1]
      BY <1>1, <3>1 DEF NoDuplicates
    <3> QED
      BY <1>4, <1>5, <3>1, <3>2
  <2>2. ASSUME NEW i \in 1..Len(z), z[i] # h PROVE z[i] \in Members(q)
    <3>1. i # 1
      BY <1>4, <2>2
    <3>2. i - 1 \in 1..Len(q) /\ (i - 1) + 1 = i
      BY <1>4, <3>1
    <3>3. q[i - 1] = z[i]
      BY <1>4, <3>2
    <3> QED
      BY <1>5, <3>2, <3>3
  <2> QED
    BY <1>5, <2>1, <2>2
<1>8. h \in Members(z)
  BY <1>4, <1>5
<1>9. /\ IsSequence(r) /\ Len(r) = Len(cls) /\ \A o \in Objects \ {h} : r[o] = ran[o]
      /\ r[h] = Append(ran[h], e)
  <2>1. DOMAIN r = Objects /\ r = [o \in Objects |-> r[o]]
        /\ (\A o \in Objects \ {h} : r[o] = ran[o]) /\ r[h] = Append(ran[h], e)
    BY <1>3, <1>4 DEF e, HeadRuns
  <2>2. r \in Seq(Members(r)) /\ Len(r) = Len(cls)
    <3>1. Members(r) = {r[o] : o \in Objects}
      BY <2>1 DEF Members
    <3>2. \A i \in 1..Len(cls) : r[i] \in Members(r)
      BY <1>3, <3>1
    <3>3. Len(cls) \in Nat /\ r = [i \in 1..Len(cls) |-> r[i]]
      BY <1>3, <2>1, InvFacts
    <3> DEFINE S == Members(r)
               n == Len(cls)
    <3> HIDE DEF S, n
    <3>4. n \in Nat /\ (\A i \in 1..n : r[i] \in S) /\ r = [i \in 1..n |-> r[i]]
      BY <3>2, <3>3 DEF S, n
    <3>5. [i \in 1..n |-> r[i]] \in Seq(S)
      BY <3>4, IsASeq
    <3>6. r \in Seq(S) /\ DOMAIN r = 1..n
      BY <3>4, <3>5
    <3>7. Len(r) = n
      BY <3>4, <3>6, LenProperties
    <3> QED
      BY <3>6, <3>7 DEF S, n
  <2> QED
    BY <2>1, <2>2 DEF IsSequence
<1>10. /\ IsSequence(r[h]) /\ Len(r[h]) = runner.stage
       /\ \A s \in 1..Len(r[h]) : r[h][s] \in {Stages[s], "missed"}
  <2>1. /\ IsSequence(ran[h]) /\ Len(ran[h]) = runner.stage - 1
        /\ \A s \in 1..Len(ran[h]) : ran[h][s] \in {Stages[s], "missed"}
    BY <1>2, <1>4, <1>8
  <2>2. /\ IsSequence(r[h]) /\ Len(r[h]) = Len(ran[h]) + 1
        /\ \A i \in 1..Len(ran[h]) : r[h][i] = ran[h][i]
        /\ r[h][Len(ran[h]) + 1] = e
    BY <1>9, <2>1, AppendFacts
  <2>3. Len(r[h]) = runner.stage /\ r[h][runner.stage] = Stages[runner.stage]
    BY <1>2, <2>1, <2>2 DEF e
  <2>4. ASSUME NEW s \in 1..Len(r[h]) PROVE r[h][s] \in {Stages[s], "missed"}
    <3>1. CASE s = runner.stage
      BY <2>3, <3>1
    <3>2. CASE s # runner.stage
      <4>1. s \in 1..Len(ran[h])
        BY <1>2, <2>1, <2>3, <3>2
      <4> QED
        BY <2>1, <2>2, <4>1
    <3> QED
      BY <3>1, <3>2
  <2> QED
    BY <2>2, <2>3, <2>4
<1> QED
  BY <1>4, <1>6, <1>7, <1>9, <1>10 DEF z

\* An object that runs its stage keeps the invariant, whether it fails or not.
LEMMA RunStep ==
  ASSUME IInv, RunObject
  PROVE  IInv' /\ KeepsHandles
<1> DEFINE h == Head(runner.queue)
           q == Tail(runner.queue)
<1>1. /\ phase = "run" /\ runner.queue # << >>
      /\ ran' = [ran EXCEPT ![h] = Append(@, Stages[runner.stage])]
      /\ UNCHANGED <<cls, vals, reported, box, held, handle, many, phase, ops, cleared>>
  BY DEF RunObject, StageDone, objects, graph
<1>2. PICK fails \in BOOLEAN :
        runner' = [runner EXCEPT !.error = @ \/ fails,
                                 !.queue = IF fails /\ runner.kind = "aggregatable" THEN << >> ELSE q]
  BY DEF RunObject
<1>3. HeadRuns(h, q, ran')
  BY <1>1 DEF HeadRuns
<1> HIDE DEF h, q
<1>4. /\ h \in Objects /\ q \in Seq(Objects) /\ NoDuplicates(q)
      /\ Members(q) = Members(runner.queue) \ {h}
      /\ IsSequence(ran') /\ Len(ran') = Len(cls)
      /\ \A o \in Objects \ {h} : ran'[o] = ran[o]
      /\ IsSequence(ran'[h]) /\ Len(ran'[h]) = runner.stage
      /\ \A s \in 1..Len(ran'[h]) : ran'[h][s] \in {Stages[s], "missed"}
  BY <1>3, HeadFacts
<1>5. /\ runner.kind \in Kinds /\ runner.stage \in 0..Len(Stages) /\ runner.error \in BOOLEAN
      /\ runner.members \in Seq(Objects)
      /\ runner = [kind |-> runner.kind, stage |-> runner.stage, queue |-> runner.queue,
                   error |-> runner.error, members |-> runner.members]
  BY DEF IInv, Shape
<1> DEFINE left == IF fails /\ runner.kind = "aggregatable" THEN << >> ELSE q
<1>6. runner' = [kind |-> runner.kind, stage |-> runner.stage, queue |-> left,
                 error |-> runner.error \/ fails, members |-> runner.members]
  BY <1>2, <1>5
<1>7. /\ left \in Seq(Objects) /\ NoDuplicates(left) /\ Members(left) \subseteq Members(q)
      /\ left # q => fails /\ runner.kind = "aggregatable" /\ Members(left) = {}
  BY <1>4 DEF Members, NoDuplicates
<1> HIDE DEF left
<1>8. /\ runner'.kind = runner.kind /\ runner'.stage = runner.stage /\ runner'.queue = left
      /\ runner'.error = (runner.error \/ fails) /\ runner'.members = runner.members
  BY <1>6
<1>9. StageObjects' = StageObjects
  BY <1>1, <1>8 DEF StageObjects
<1>10. Shape'
  <2>1. runner' \in [kind : Kinds, stage : 0..Len(Stages), queue : Seq(Objects), error : BOOLEAN,
                     members : Seq(Objects)]
    BY <1>5, <1>6, <1>7
  <2>2. /\ IsSequence(cls) /\ IsSequence(vals) /\ IsSequence(reported)
        /\ Len(vals) = Len(cls) /\ Len(reported) = Len(cls)
        /\ DOMAIN handle = Objects /\ DOMAIN many = Objects
        /\ box \in [{"main", "defaults"} -> Seq(Objects)]
        /\ held \subseteq Objects
        /\ phase \in Phases /\ ops \in Nat /\ cleared \in BOOLEAN
    BY DEF IInv, Shape
  <2>3. Objects' = Objects
    BY <1>1 DEF Objects
  <2> QED
    BY <1>1, <1>4, <2>1, <2>2, <2>3 DEF Shape
<1>11. HandleInv'
  BY <1>1 DEF IInv, HandleInv, Objects
<1>12. PlaceInv'
  <2>1. Members(left) \subseteq Members(StageObjects)
    BY <1>4, <1>7 DEF IInv, PlaceInv
  <2> QED
    BY <1>1, <1>7, <1>8, <1>9, <2>1 DEF IInv, PlaceInv
<1>13. KeepsHandles
  <2>1. Members(runner.queue) \subseteq Members(box["main"]) \cup Members(runner.members)
    BY StageObjectsFacts DEF IInv, PlaceInv
  <2>2. \A x : Alive(x, box, held, runner) => Alive(x, box', held', runner')
    BY <1>1, <1>8, <2>1 DEF Alive
  <2> QED
    BY <1>1, <2>2, Kept
<1>14. ManyInv'
  BY <1>1 DEF IInv, ManyInv
<1>15. StageInv'
  <2>1. /\ \A o \in Objects : /\ IsSequence(ran[o]) /\ Len(ran[o]) <= runner.stage
                              /\ \A s \in 1..Len(ran[o]) : ran[o][s] \in {Stages[s], "missed"}
        /\ runner.stage >= 1
        /\ \A o \in Members(StageObjects) :
             /\ o \in Members(runner.queue) => Len(ran[o]) = runner.stage - 1
             /\ o \notin Members(runner.queue) =>
                  Len(ran[o]) \in IF runner.kind = "aggregatable" /\ runner.error
                                  THEN {runner.stage - 1, runner.stage} ELSE {runner.stage}
    BY <1>1 DEF IInv, StageInv
  <2>2. \A o \in Objects : /\ IsSequence(ran'[o]) /\ Len(ran'[o]) <= runner.stage
                           /\ \A s \in 1..Len(ran'[o]) : ran'[o][s] \in {Stages[s], "missed"}
    <3> SUFFICES ASSUME NEW o \in Objects
                 PROVE  /\ IsSequence(ran'[o]) /\ Len(ran'[o]) <= runner.stage
                        /\ \A s \in 1..Len(ran'[o]) : ran'[o][s] \in {Stages[s], "missed"}
      OBVIOUS
    <3>1. CASE o = h
      BY <1>4, <1>5, <3>1
    <3>2. CASE o # h
      BY <1>4, <2>1, <3>2
    <3> QED
      BY <3>1, <3>2
  <2>3. ASSUME NEW o \in Members(StageObjects)
        PROVE  /\ o \in Members(left) => Len(ran'[o]) = runner.stage - 1
               /\ o \notin Members(left) =>
                    Len(ran'[o]) \in IF runner.kind = "aggregatable" /\ (runner.error \/ fails)
                                     THEN {runner.stage - 1, runner.stage} ELSE {runner.stage}
    <3>1. o \in Objects
      BY StageObjectsFacts
    <3>2. CASE o = h
      <4>1. Len(ran'[o]) = runner.stage /\ o \notin Members(left)
        BY <1>4, <1>7, <3>2
      <4> QED
        BY <4>1
    <3>3. CASE o # h /\ o \in Members(runner.queue)
      <4>1. Len(ran'[o]) = runner.stage - 1 /\ o \in Members(q)
        BY <1>4, <2>1, <3>1, <3>3
      <4>2. o \notin Members(left) => fails /\ runner.kind = "aggregatable"
        BY <1>7, <4>1
      <4> QED
        BY <4>1, <4>2
    <3>4. CASE o # h /\ o \notin Members(runner.queue)
      <4>1. o \notin Members(left) /\ ran'[o] = ran[o]
        BY <1>4, <1>7, <3>1, <3>4
      <4>2. Len(ran[o]) \in IF runner.kind = "aggregatable" /\ runner.error
                            THEN {runner.stage - 1, runner.stage} ELSE {runner.stage}
        BY <2>1, <3>4
      <4> QED
        BY <4>1, <4>2
    <3> QED
      BY <3>2, <3>3, <3>4
  <2>4. Objects' = Objects
    BY <1>1 DEF Objects
  <2> QED
    BY <1>1, <1>8, <1>9, <2>1, <2>2, <2>3, <2>4 DEF StageInv
<1> QED
  BY <1>10, <1>11, <1>12, <1>13, <1>14, <1>15 DEF IInv

\* An object of a SimpleRunner adds another one while it runs: that one misses the
\* stage.
LEMMA RunAddingStep ==
  ASSUME IInv, NEW c, RunObjectAdding(c)
  PROVE  IInv' /\ KeepsHandles
<1> DEFINE h == Head(runner.queue)
           q == Tail(runner.queue)
           r == [ran EXCEPT ![h] = Append(@, Stages[runner.stage])]
           o0 == Len(cls) + 1
           missed == [s \in 1..runner.stage |-> "missed"]
<1>1. /\ phase = "run" /\ runner.queue # << >> /\ runner.kind = "simple"
      /\ ops > 0 /\ ops' = ops - 1
      /\ runner' = [runner EXCEPT !.queue = q]
      /\ cls' = Append(cls, c) /\ vals' = Append(vals, Defaults(Class[c].spec))
      /\ reported' = Append(reported, TRUE) /\ ran' = Append(r, missed)
      /\ box' = [box EXCEPT !["main"] = Append(@, o0)]
      /\ Notify("main", box', held, cls')
      /\ held' = held /\ phase' = phase /\ cleared' = cleared
  BY DEF RunObjectAdding, StageDone
<1>2. HeadRuns(h, q, r)
  BY <1>1 DEF HeadRuns
<1> HIDE DEF h, q, r, o0, missed
<1>3. /\ h \in Objects /\ q \in Seq(Objects) /\ NoDuplicates(q)
      /\ Members(q) = Members(runner.queue) \ {h}
      /\ IsSequence(r) /\ Len(r) = Len(cls)
      /\ \A o \in Objects \ {h} : r[o] = ran[o]
      /\ IsSequence(r[h]) /\ Len(r[h]) = runner.stage
      /\ \A s \in 1..Len(r[h]) : r[h][s] \in {Stages[s], "missed"}
  BY <1>2, HeadFacts
<1>4. /\ runner.stage \in 0..Len(Stages) /\ runner.error \in BOOLEAN /\ runner.members = << >>
      /\ runner = [kind |-> runner.kind, stage |-> runner.stage, queue |-> runner.queue,
                   error |-> runner.error, members |-> runner.members]
  BY <1>1 DEF IInv, Shape, PlaceInv
<1>5. runner' = [kind |-> "simple", stage |-> runner.stage, queue |-> q, error |-> runner.error,
                 members |-> << >>]
  BY <1>1, <1>4
<1>6. /\ runner'.kind = "simple" /\ runner'.stage = runner.stage /\ runner'.queue = q
      /\ runner'.error = runner.error /\ runner'.members = << >>
  BY <1>5
<1>7. box["main"] \in Seq(Objects) /\ box = [b \in {"main", "defaults"} |-> box[b]]
      /\ Objects = 1..Len(cls) /\ Len(cls) \in Nat /\ Members(box["main"]) \subseteq Objects
  BY InvFacts
<1>8. Members(box'["main"]) = Members(box["main"]) \cup {o0}
  <2>1. box'["main"] = Append(box["main"], o0)
    BY <1>1, <1>7
  <2>2. IsSequence(box["main"])
    BY <1>7, SeqFacts
  <2> QED
    BY <2>1, <2>2, AppendFacts
<1>9. AddsNew("main", c)
  <2>1. \A x : Alive(x, box', held, runner) => Alive(x, box', held, runner')
    <3>1. Members(box["main"]) \subseteq Members(box'["main"])
      BY <1>8
    <3> QED
      BY <1>1, <3>1, AliveStays
  <2> QED
    BY <1>1, <2>1 DEF AddsNew, o0
<1>10. /\ IsSequence(cls') /\ Len(cls') = Len(cls) + 1 /\ Objects' = Objects \cup {o0}
       /\ o0 \notin Objects /\ \A o \in Objects : cls'[o] = cls[o]
       /\ box' \in [{"main", "defaults"} -> Seq(Objects')]
       /\ \A b \in {"main", "defaults"} : NoDuplicates(box'[b])
       /\ GetAll(box'["main"], Runnable, cls') =
            IF Runnable \in Class[c].is THEN Append(GetAll(box["main"], Runnable, cls), o0)
            ELSE GetAll(box["main"], Runnable, cls)
       /\ DOMAIN handle' = Objects' /\ DOMAIN many' = Objects'
       /\ HandleInv' /\ KeepsHandles /\ ManyInv'
  BY <1>9, Adding DEF o0
<1>11. /\ IsSequence(ran') /\ Len(ran') = Len(cls) + 1
       /\ (\A o \in Objects : ran'[o] = r[o]) /\ ran'[o0] = missed
       /\ IsSequence(vals') /\ Len(vals') = Len(cls) + 1
       /\ IsSequence(reported') /\ Len(reported') = Len(cls) + 1
  <2>1. /\ IsSequence(vals) /\ IsSequence(reported)
        /\ Len(vals) = Len(cls) /\ Len(reported) = Len(cls)
    BY DEF IInv, Shape
  <2>2. /\ IsSequence(vals') /\ Len(vals') = Len(cls) + 1
        /\ IsSequence(reported') /\ Len(reported') = Len(cls) + 1
    <3> DEFINE v == Defaults(Class[c].spec)
               ok == TRUE
    <3>1. vals' = Append(vals, v) /\ reported' = Append(reported, ok)
      BY <1>1
    <3> HIDE DEF v, ok
    <3>2. IsSequence(Append(vals, v)) /\ Len(Append(vals, v)) = Len(cls) + 1
      BY <2>1, AppendFacts
    <3>3. IsSequence(Append(reported, ok)) /\ Len(Append(reported, ok)) = Len(cls) + 1
      BY <2>1, AppendFacts
    <3> QED
      BY <3>1, <3>2, <3>3
  <2>3. /\ IsSequence(ran') /\ Len(ran') = Len(cls) + 1
        /\ \A i \in 1..Len(cls) : ran'[i] = r[i]
        /\ ran'[Len(cls) + 1] = missed
    BY <1>1, <1>3, AppendFacts
  <2> QED
    BY <1>7, <2>2, <2>3 DEF o0
<1>12. Shape'
  <2>1. q \in Seq(Objects') /\ << >> \in Seq(Objects')
    BY <1>3, <1>10, SeqMonotonic
  <2>2. runner' \in [kind : Kinds, stage : 0..Len(Stages), queue : Seq(Objects'), error : BOOLEAN,
                     members : Seq(Objects')]
    <3> DEFINE N == Objects'
    <3>1. q \in Seq(N) /\ << >> \in Seq(N)
      BY <2>1
    <3> HIDE DEF N
    <3>2. runner' \in [kind : Kinds, stage : 0..Len(Stages), queue : Seq(N), error : BOOLEAN,
                       members : Seq(N)]
      BY <1>4, <1>5, <3>1 DEF Kinds
    <3> QED
      BY <3>2 DEF N
  <2>3. held' \subseteq Objects' /\ phase' \in Phases /\ cleared' \in BOOLEAN /\ ops' \in Nat
    <3>1. held \subseteq Objects /\ phase \in Phases /\ cleared \in BOOLEAN /\ ops \in Nat
      BY DEF IInv, Shape
    <3> QED
      BY <1>1, <1>10, <3>1
  <2> QED
    BY <1>10, <1>11, <2>2, <2>3 DEF Shape
<1>13. /\ Members(StageObjects) \subseteq Members(StageObjects')
       /\ Members(StageObjects') \subseteq Members(StageObjects) \cup {o0}
  <2> DEFINE now == GetAll(box["main"], Runnable, cls)
             then == GetAll(box'["main"], Runnable, cls')
  <2>1. StageObjects = now /\ StageObjects' = then
    BY <1>1, <1>6 DEF StageObjects
  <2>2. IsSequence(now)
    <3>1. now \in Seq(Objects)
      BY <1>7, GetAllFacts
    <3> QED
      BY <3>1, SeqFacts
  <2>3. then = Append(now, o0) \/ then = now
    BY <1>10
  <2> HIDE DEF now, then
  <2>4. Members(Append(now, o0)) = Members(now) \cup {o0}
    BY <2>2, AppendFacts
  <2> QED
    BY <2>1, <2>3, <2>4
<1>14. PlaceInv'
  <2>1. /\ ~cleared => held \subseteq Members(box["main"])
        /\ Members(runner.queue) \subseteq Members(StageObjects)
    BY DEF IInv, PlaceInv
  <2>2. /\ phase' # "create" /\ (~cleared' => held' \subseteq Members(box'["main"]))
        /\ NoDuplicates(runner'.queue) /\ NoDuplicates(runner'.members)
        /\ Members(runner'.queue) \subseteq Members(StageObjects')
    <3>1. NoDuplicates(<< >>)
      BY DEF NoDuplicates
    <3> QED
      BY <1>1, <1>3, <1>6, <1>8, <1>13, <2>1, <3>1
  <2> QED
    BY <1>6, <1>10, <2>2 DEF PlaceInv
<1>15. IsSequence(missed) /\ Len(missed) = runner.stage
       /\ \A s \in 1..Len(missed) : missed[s] = "missed"
  <2>1. runner.stage \in Nat
    BY <1>4 DEF Stages
  <2>2. missed \in Seq({"missed"}) /\ DOMAIN missed = 1..runner.stage
    BY <2>1, IsASeq DEF missed
  <2>3. Len(missed) = runner.stage
    BY <2>1, <2>2, LenProperties
  <2>4. \A s \in 1..Len(missed) : missed[s] = "missed"
    BY <2>3 DEF missed
  <2> QED
    BY <2>2, <2>3, <2>4, SeqFacts
<1>16. StageInv'
  <2>1. /\ \A o \in Objects : /\ IsSequence(ran[o]) /\ Len(ran[o]) <= runner.stage
                              /\ \A s \in 1..Len(ran[o]) : ran[o][s] \in {Stages[s], "missed"}
        /\ runner.stage >= 1
        /\ \A o \in Members(StageObjects) :
             /\ o \in Members(runner.queue) => Len(ran[o]) = runner.stage - 1
             /\ o \notin Members(runner.queue) => Len(ran[o]) = runner.stage
    BY <1>1 DEF IInv, StageInv
  <2>2. ASSUME NEW o \in Objects'
        PROVE  /\ IsSequence(ran'[o]) /\ Len(ran'[o]) <= runner.stage
               /\ \A s \in 1..Len(ran'[o]) : ran'[o][s] \in {Stages[s], "missed"}
    <3>1. CASE o = o0
      BY <1>4, <1>11, <1>15, <3>1
    <3>2. CASE o = h
      BY <1>3, <1>4, <1>11, <3>2
    <3>3. CASE o \in Objects \ {h}
      BY <1>3, <1>11, <2>1, <3>3
    <3> QED
      BY <1>10, <3>1, <3>2, <3>3
  <2>3. ASSUME NEW o \in Members(StageObjects')
        PROVE  /\ o \in Members(q) => Len(ran'[o]) = runner.stage - 1
               /\ o \notin Members(q) => Len(ran'[o]) = runner.stage
    <3>1. CASE o = o0
      <4>1. o \notin Members(q)
        BY <1>3, <1>10, <3>1, SeqFacts
      <4> QED
        BY <1>11, <1>15, <3>1, <4>1
    <3>2. CASE o = h
      BY <1>3, <1>11, <3>2
    <3>3. CASE o # o0 /\ o # h
      <4>1. o \in Members(StageObjects) /\ o \in Objects
        BY <1>13, <3>3, StageObjectsFacts
      <4>2. ran'[o] = ran[o]
        BY <1>3, <1>11, <3>3, <4>1
      <4> QED
        BY <1>3, <2>1, <3>3, <4>1, <4>2
    <3> QED
      BY <3>1, <3>2, <3>3
  <2> QED
    BY <1>1, <1>6, <2>1, <2>2, <2>3 DEF StageInv
<1> QED
  BY <1>10, <1>12, <1>14, <1>16 DEF IInv

-----------------------------------------------------------------------------
(* The theorems *)

\* The invariant holds when the program starts.
LEMMA InitHolds == Init => IInv
<1> SUFFICES ASSUME Init PROVE IInv
  OBVIOUS
<1>1. /\ cls = << >> /\ vals = << >> /\ reported = << >> /\ ran = << >>
      /\ box = [a \in {"main", "defaults"} |-> << >>]
      /\ held = {} /\ handle = << >> /\ many = << >>
      /\ phase = "create" /\ cleared = FALSE
  BY DEF Init
<1>2. PICK kind \in Kinds :
        runner = [kind |-> kind, stage |-> 0, queue |-> << >>, error |-> FALSE, members |-> << >>]
  BY DEF Init, Kinds
<1>3. ops \in Nat
  BY StartupAssumption DEF Init
<1>4. Objects = {} /\ Members(<< >>) = {} /\ NoDuplicates(<< >>) /\ IsSequence(<< >>)
  BY <1>1 DEF Objects, Members, NoDuplicates, IsSequence
<1>5. GetAll(<< >>, Runnable, cls) = << >>
  <2>1. Len(<< >>) = 0
    OBVIOUS
  <2>2. Casts(<< >>, Runnable, cls)[0] = << >>
    <3> DEFINE s == << >>
    <3>1. Len(s) \in Nat
      BY <2>1
    <3> HIDE DEF s
    <3>2. Casts(s, Runnable, cls)[0] = << >>
      BY <3>1, CastsRecursion
    <3> QED
      BY <3>2 DEF s
  <2> QED
    BY <2>1, <2>2 DEF GetAll
<1>6. box["main"] = << >> /\ box["defaults"] = << >>
  BY <1>1
<1>7. /\ runner.kind = kind /\ runner.stage = 0 /\ runner.queue = << >> /\ runner.error = FALSE
      /\ runner.members = << >>
  BY <1>2
<1>8. StageObjects = << >>
  BY <1>5, <1>6, <1>7 DEF StageObjects
<1>9. Shape
  <2>1. << >> \in Seq(Objects) /\ 0 \in 0..Len(Stages)
    BY DEF Stages
  <2>2. runner \in [kind : Kinds, stage : 0..Len(Stages), queue : Seq(Objects), error : BOOLEAN,
                    members : Seq(Objects)]
    BY <1>2, <2>1
  <2>3. box \in [{"main", "defaults"} -> Seq(Objects)]
    BY <1>1, <2>1
  <2>4. DOMAIN << >> = {}
    OBVIOUS
  <2> QED
    BY <1>1, <1>3, <1>4, <2>2, <2>3, <2>4 DEF Shape, Phases
<1>10. HandleInv
  BY <1>4 DEF HandleInv
<1>11. PlaceInv
  BY <1>1, <1>4, <1>5, <1>6, <1>7, <1>8 DEF PlaceInv
<1>13. ManyInv
  BY <1>4, <1>6 DEF ManyInv
<1>14. StageInv
  BY <1>1, <1>4, <1>7 DEF StageInv
<1> QED
  BY <1>9, <1>10, <1>11, <1>13, <1>14 DEF IInv

\* Every step keeps the invariant, and the handles.
LEMMA NextHolds == IInv /\ [Next]_vars => IInv' /\ [KeepsHandles]_vars
<1> SUFFICES ASSUME IInv, [Next]_vars PROVE IInv' /\ [KeepsHandles]_vars
  OBVIOUS
<1>1. CASE CreateObject
  <2>1. /\ UNCHANGED <<objects, graph, running, cleared>> /\ ops' = ops /\ phase' = phase
    BY <1>1 DEF CreateObject
  <2> QED
    BY <2>1, PhaseStep
<1>2. CASE MapParameter
  <2>1. /\ UNCHANGED <<objects, graph, running, cleared>> /\ ops' = ops /\ phase = "create"
        /\ phase' = phase \/ phase' = "thrown"
    BY <1>2 DEF MapParameter
  <2> QED
    BY <2>1, PhaseStep
<1>3. CASE AddObjectToAggregator
  <2>1. /\ phase = "create"
        /\ AddNew(Container(pending), pending.class, pending.vals, pending.ok)
        /\ runner' = RunnerNotified(Container(pending), box', cls')
        /\ held' = held /\ phase' = phase /\ cleared' = cleared /\ ops' = ops
    BY <1>3 DEF AddObjectToAggregator
  <2>2. Container(pending) \in {"main", "defaults"}
    BY DEF Container
  <2>3. ops' \in Nat
    BY <2>1 DEF IInv, Shape
  <2> QED
    BY <2>1, <2>2, <2>3, AddStep
<1>4. CASE MergeDefaults
  BY <1>4, MergeStep
<1>5. CASE Created
  <2>1. /\ UNCHANGED <<objects, graph, running, cleared>> /\ ops' = ops
        /\ phase = "create" /\ phase' = "client"
    BY <1>5 DEF Created
  <2> QED
    BY <2>1, PhaseStep
<1>6. ASSUME NEW c \in ClientClasses, ClientAdd(c) PROVE IInv' /\ KeepsHandles
  <2>1. /\ phase = "client" /\ ops > 0 /\ ops' = ops - 1
        /\ AddNew("main", c, Defaults(Class[c].spec), TRUE)
        /\ runner' = RunnerNotified("main", box', cls')
        /\ held' = held /\ phase' = phase /\ cleared' = cleared
    BY <1>6 DEF ClientAdd, ClientCalls
  <2>2. ops' \in Nat
    <3>1. ops \in Nat
      BY DEF IInv, Shape
    <3> QED
      BY <2>1, <3>1
  <2> QED
    BY <2>1, <2>2, AddStep
<1>7. ASSUME NEW c \in ClientClasses, RunObjectAdding(c) PROVE IInv' /\ KeepsHandles
  BY <1>7, RunAddingStep
<1>8. ASSUME NEW o \in DOMAIN cls, ClientHold(o) \/ ClientRelease(o) PROVE IInv' /\ KeepsHandles
  BY <1>8, HoldStep, ReleaseStep
<1>9. ASSUME NEW o \in DOMAIN cls, ClientAddHeld(o) PROVE IInv' /\ KeepsHandles
  BY <1>9, AddHeldStep
<1>10. CASE ClientClear
  BY <1>10, ClearStep
<1>11. CASE BeginStage
  BY <1>11, BeginStep
<1>12. CASE RunObject
  BY <1>12, RunStep
<1>13. CASE EndStages
  <2>1. /\ UNCHANGED <<objects, graph, running, cleared>> /\ ops' = ops
        /\ phase = "run" /\ phase' = "done"
    BY <1>13 DEF EndStages
  <2> QED
    BY <2>1, PhaseStep
<1>14. CASE UNCHANGED vars
  <2>1. UNCHANGED <<objects, graph, running, cleared>> /\ ops' = ops /\ phase' = phase
    BY <1>14 DEF vars
  <2> QED
    BY <2>1, PhaseStep
<1> QED
  BY <1>1, <1>2, <1>3, <1>4, <1>5, <1>6, <1>7, <1>8, <1>9, <1>10, <1>11, <1>12, <1>13, <1>14 DEF Next

\* The inductive invariant, for any application and any client.
THEOREM InvariantHolds == Spec => []IInv
<1> QED
  BY InitHolds, NextHolds, PTL DEF Spec

\* The state has its shape, and every handle is for an object of its type.
THEOREM TypeCorrect == Spec => []TypeOK
<1>1. IInv => TypeOK
  <2> SUFFICES ASSUME IInv PROVE TypeOK
    OBVIOUS
  <2>1. Objects = 1..Len(cls) /\ Len(ran) = Len(cls)
    BY InvFacts
  <2>2. DOMAIN vals = Objects /\ DOMAIN reported = Objects /\ DOMAIN ran = Objects
    <3>1. /\ IsSequence(vals) /\ IsSequence(reported) /\ IsSequence(ran)
          /\ Len(vals) = Len(cls) /\ Len(reported) = Len(cls)
      BY DEF IInv, Shape
    <3> QED
      BY <2>1, <3>1, SeqFacts DEF IsSequence
  <2>3. \A a \in DOMAIN box : Members(box[a]) \subseteq Objects
    BY InvFacts
  <2>4. /\ phase \in {"create", "client", "run", "done", "thrown"}
        /\ DOMAIN handle = Objects /\ DOMAIN many = Objects
        /\ runner.stage \in 0..Len(Stages) /\ ops \in Nat /\ held \subseteq Objects
    BY DEF IInv, Shape, Phases
  <2>5. \A o \in Objects, T \in Types :
          /\ handle[o][T] # 0 => T \in Class[cls[handle[o][T]]].is
          /\ \A q \in Members(many[o][T]) : T \in Class[cls[q]].is
    BY DEF IInv, HandleInv
  <2> QED
    BY <2>2, <2>3, <2>4, <2>5 DEF TypeOK
<1> QED
  BY <1>1, InvariantHolds, PTL

\* Every change of the aggregator leaves its objects with a living object behind each
\* of the handles that it can serve, and such a handle is lost later only when the client
\* lets go of the object, whatever is added, merged, held, cleared and run.
THEOREM HandlesCompleteHolds == Spec => HandlesComplete
BY InitHolds, NextHolds, PTL DEF Spec, HandlesComplete

\* Before clear() the Multi handles are what getAll gives.
THEOREM MultiCompleteHolds == Spec => []MultiComplete
<1>1. IInv => MultiComplete
  BY DEF IInv, ManyInv, MultiComplete
<1> QED
  BY <1>1, InvariantHolds, PTL

\* The stages are in order, and no object is two stages ahead of another one of the
\* runner.
THEOREM StageBarrierHolds == Spec => []StageBarrier
<1>1. IInv => StageBarrier
  <2> SUFFICES ASSUME IInv, NEW o \in Members(StageObjects), NEW p \in Members(StageObjects)
               PROVE  /\ \A s \in DOMAIN ran[o] : ran[o][s] \in {Stages[s], "missed"}
                      /\ Len(ran[p]) >= Len(ran[o]) - 1
    BY DEF StageBarrier
  <2>1. o \in Objects /\ p \in Objects
    BY StageObjectsFacts
  <2>2. /\ IsSequence(ran[o]) /\ IsSequence(ran[p])
        /\ Len(ran[o]) <= runner.stage /\ Len(ran[p]) <= runner.stage
        /\ \A s \in 1..Len(ran[o]) : ran[o][s] \in {Stages[s], "missed"}
        /\ phase \notin {"run", "done"} => runner.stage = 0
        /\ phase \in {"run", "done"} => Len(ran[p]) \in {runner.stage - 1, runner.stage}
    BY <2>1 DEF IInv, StageInv
  <2>3. DOMAIN ran[o] = 1..Len(ran[o]) /\ Len(ran[o]) \in Nat /\ Len(ran[p]) \in Nat
    BY <2>2, SeqFacts DEF IsSequence
  <2>4. runner.stage \in Nat
    BY DEF IInv, Shape, Stages
  <2>5. Len(ran[p]) >= Len(ran[o]) - 1
    <3>1. CASE phase \notin {"run", "done"}
      BY <2>2, <2>3, <3>1
    <3>2. CASE phase \in {"run", "done"}
      BY <2>2, <2>3, <2>4, <3>2
    <3> QED
      BY <3>1, <3>2
  <2> QED
    BY <2>2, <2>3, <2>5
<1> QED
  BY <1>1, InvariantHolds, PTL

-----------------------------------------------------------------------------
(* The recursive functions of ParamMapping have the values that their definitions give *)

First(R) == IF R[1] = "maps" THEN Got(R[4]) ELSE Got(<< >>)
Step(R, before, n) ==
  CASE R[1] = "maps" -> MapNext(R[2], R[3], before, n)
    [] R[1] = "elements" -> IF ~before.ok THEN before ELSE Element(R[2], R[3][n], before.val)
    [] R[1] = "inserts" -> Insert(R[2], R[3][R[4][n]], R[5][R[4][n]], before)
Recursive(R, f) == f = [n \in Nat |-> IF n = 0 THEN First(R) ELSE Step(R, f[n - 1], n)]
Approximates(R, f, n) == f = [m \in 0..n |-> IF m = 0 THEN First(R) ELSE Step(R, f[m - 1], m)]

\* What has been computed up to n can be continued.
LEMMA Approximations ==
  ASSUME NEW R
  PROVE  \A n \in Nat : \E f : Approximates(R, f, n)
<1> DEFINE U == {n \in Nat : \E f : Approximates(R, f, n)}
<1>1. 0 \in U
  <2> DEFINE f == [m \in 0..0 |-> First(R)]
  <2>1. Approximates(R, f, 0)
    BY DEF Approximates
  <2> QED
    BY <2>1
<1>2. ASSUME NEW n \in Nat, n \in U PROVE n + 1 \in U
  <2>1. PICK f : Approximates(R, f, n)
    BY <1>2
  <2> DEFINE g == [m \in 0..(n + 1) |-> IF m <= n THEN f[m] ELSE Step(R, f[n], n + 1)]
  <2>2. ASSUME NEW m \in 0..(n + 1) PROVE g[m] = IF m = 0 THEN First(R) ELSE Step(R, g[m - 1], m)
    <3>1. CASE m <= n
      BY <2>1, <3>1 DEF Approximates
    <3>2. CASE ~(m <= n)
      <4>1. m = n + 1 /\ m - 1 = n /\ m # 0 /\ n \in 0..(n + 1)
        BY <3>2
      <4> QED
        BY <4>1
    <3> QED
      BY <3>1, <3>2
  <2>3. g = [m \in 0..(n + 1) |-> g[m]]
    OBVIOUS
  <2> HIDE DEF g
  <2>4. Approximates(R, g, n + 1)
    BY <2>2, <2>3 DEF Approximates
  <2> QED
    BY <2>4
<1> HIDE DEF U
<1>3. Nat \subseteq U
  BY <1>1, <1>2, SetInduction
<1> QED
  BY <1>3 DEF U

\* Two computations agree as far as both go.
LEMMA SameBelow ==
  ASSUME NEW R, NEW n \in Nat, NEW f, NEW g, Approximates(R, f, n), Approximates(R, g, n + 1)
  PROVE  f[n] = g[n]
<1> DEFINE V == {k \in Nat : k <= n => f[k] = g[k]}
<1>1. 0 \in V
  BY DEF Approximates
<1>2. ASSUME NEW k \in Nat, k \in V PROVE k + 1 \in V
  <2> SUFFICES ASSUME k + 1 <= n PROVE f[k + 1] = g[k + 1]
    OBVIOUS
  <2>1. f[k + 1] = Step(R, f[k], k + 1) /\ g[k + 1] = Step(R, g[k], k + 1)
    BY DEF Approximates
  <2> QED
    BY <1>2, <2>1
<1>3. n \in V
  <2> HIDE DEF V
  <2> QED
    BY <1>1, <1>2, SetInduction
<1> QED
  BY <1>3

\* So there is the whole function.
LEMMA Recursion == ASSUME NEW R PROVE \E f : Recursive(R, f)
<1> DEFINE at(n) == CHOOSE f : Approximates(R, f, n)
           h == [n \in Nat |-> at(n)[n]]
<1>1. \A n \in Nat : Approximates(R, at(n), n)
  BY Approximations
<1> HIDE DEF at
<1>2. ASSUME NEW n \in Nat PROVE h[n] = IF n = 0 THEN First(R) ELSE Step(R, h[n - 1], n)
  <2>1. Approximates(R, at(n), n)
    BY <1>1
  <2>2. CASE n = 0
    BY <2>1, <2>2 DEF Approximates
  <2>3. CASE n # 0
    <3>1. n - 1 \in Nat /\ (n - 1) + 1 = n
      BY <2>3
    <3>2. at(n - 1)[n - 1] = at(n)[n - 1]
      BY <1>1, <3>1, SameBelow
    <3>3. at(n)[n] = Step(R, at(n)[n - 1], n)
      BY <2>1, <2>3 DEF Approximates
    <3> QED
      BY <2>3, <3>1, <3>2, <3>3
  <2> QED
    BY <2>2, <2>3
<1>3. h = [n \in Nat |-> h[n]]
  OBVIOUS
<1> HIDE DEF h
<1>4. Recursive(R, h)
  BY <1>2, <1>3 DEF Recursive
<1> QED
  BY <1>4

\* What a recursive function gives, case by case.
LEMMA Unrolled ==
  ASSUME NEW R, NEW f, Recursive(R, f)
  PROVE  f[0] = First(R) /\ \A n \in Nat : f[n + 1] = Step(R, f[n], n + 1)
BY DEF Recursive

\* Maps takes one parameter after another.
LEMMA MapsEach ==
  ASSUME NEW spec, NEW j, NEW old
  PROVE  LET all == Maps(spec, j, old) IN
         /\ all[0] = Got(old)
         /\ \A n \in Nat : all[n + 1] = MapNext(spec, j, all[n], n + 1)
<1> DEFINE R == <<"maps", spec, j, old>>
           Body(f) == f = [n \in Nat |-> IF n = 0 THEN Got(old) ELSE MapNext(spec, j, f[n - 1], n)]
<1>1. First(R) = Got(old) /\ \A x, n : Step(R, x, n) = MapNext(spec, j, x, n)
  BY DEF First, Step
<1> HIDE DEF R
<1>2. ASSUME NEW f PROVE Recursive(R, f) <=> Body(f)
  BY <1>1 DEF Recursive
<1>3. Maps(spec, j, old) = CHOOSE f : Body(f)
  BY Zenon DEF Maps
<1> HIDE DEF Body
<1>4. Recursive(R, Maps(spec, j, old))
  BY <1>2, <1>3, Recursion
<1> QED
  BY <1>1, <1>4, Unrolled

\* ElementsUpTo takes one element after another.
LEMMA ElementsEach ==
  ASSUME NEW T, NEW js
  PROVE  LET all == ElementsUpTo(T, js) IN
         /\ all[0] = Got(<< >>)
         /\ \A n \in Nat : all[n + 1] = (IF ~all[n].ok THEN all[n] ELSE Element(T, js[n + 1], all[n].val))
<1> DEFINE R == <<"elements", T, js>>
           Body(f) == f = [n \in Nat |-> IF n = 0 THEN Got(<< >>) ELSE (IF ~f[n - 1].ok THEN f[n - 1] ELSE Element(T, js[n], f[n - 1].val))]
<1>1. First(R) = Got(<< >>) /\ \A x, n : Step(R, x, n) = (IF ~x.ok THEN x ELSE Element(T, js[n], x.val))
  BY DEF First, Step
<1> HIDE DEF R
<1>2. ASSUME NEW f PROVE Recursive(R, f) <=> Body(f)
  BY <1>1 DEF Recursive
<1>3. ElementsUpTo(T, js) = CHOOSE f : Body(f)
  BY Zenon DEF ElementsUpTo
<1> HIDE DEF Body
<1>4. Recursive(R, ElementsUpTo(T, js))
  BY <1>2, <1>3, Recursion
<1> QED
  BY <1>1, <1>4, Unrolled

\* Inserts takes one key after another.
LEMMA InsertsEach ==
  ASSUME NEW T, NEW items, NEW keys, NEW named
  PROVE  LET all == Inserts(T, items, keys, named) IN
         /\ all[0] = Got(<< >>)
         /\ \A n \in Nat : all[n + 1] = Insert(T, items[keys[n + 1]], named[keys[n + 1]], all[n])
<1> DEFINE R == <<"inserts", T, items, keys, named>>
           Body(f) == f = [n \in Nat |-> IF n = 0 THEN Got(<< >>) ELSE Insert(T, items[keys[n]], named[keys[n]], f[n - 1])]
<1>1. First(R) = Got(<< >>) /\ \A x, n : Step(R, x, n) = Insert(T, items[keys[n]], named[keys[n]], x)
  BY DEF First, Step
<1> HIDE DEF R
<1>2. ASSUME NEW f PROVE Recursive(R, f) <=> Body(f)
  BY <1>1 DEF Recursive
<1>3. Inserts(T, items, keys, named) = CHOOSE f : Body(f)
  BY Zenon DEF Inserts
<1> HIDE DEF Body
<1>4. Recursive(R, Inserts(T, items, keys, named))
  BY <1>2, <1>3, Recursion
<1> QED
  BY <1>1, <1>4, Unrolled
-----------------------------------------------------------------------------
(* What PropertyMapper answers *)

Answer(a) == a = [val |-> a.val, ok |-> a.ok, missing |-> a.missing, thrown |-> a.thrown]
There(j, key, T) == Has(j, key) /\ Accepts(T, j[2][key])
\* Something mandatory is missing exactly if no fitting value is there, which is then as before.
Right(T, j, key, old, m, a) ==
  /\ Answer(a)
  /\ ~a.thrown =>
       /\ a.missing <=> m /\ ~There(j, key, T)
       /\ ~There(j, key, T) => ~a.ok
       /\ ~There(j, key, T) /\ T[1] # "object" => a.val = IF T[1] = "optional" THEN << >> ELSE old

\* The parts of answers.
LEMMA AnswerParts ==
  /\ \A v : /\ Answer(Got(v)) /\ Got(v).val = v /\ Got(v).ok /\ ~Got(v).missing /\ ~Got(v).thrown
            /\ Answer(Fails(v)) /\ Fails(v).val = v /\ ~Fails(v).ok /\ ~Fails(v).missing /\ ~Fails(v).thrown
  /\ Answer(Throws) /\ ~Throws.ok /\ ~Throws.missing /\ Throws.thrown
  /\ \A v, m : m \in BOOLEAN =>
       /\ Answer(MandatoryCheck(v, m)) /\ MandatoryCheck(v, m).val = v /\ ~MandatoryCheck(v, m).ok
       /\ (MandatoryCheck(v, m).missing <=> m) /\ ~MandatoryCheck(v, m).thrown
<1>1. ASSUME NEW v
      PROVE  /\ Answer(Got(v)) /\ Got(v).val = v /\ Got(v).ok /\ ~Got(v).missing /\ ~Got(v).thrown
             /\ Answer(Fails(v)) /\ Fails(v).val = v /\ ~Fails(v).ok /\ ~Fails(v).missing /\ ~Fails(v).thrown
  BY DEF Answer, Got, Fails
<1>2. Answer(Throws) /\ ~Throws.ok /\ ~Throws.missing /\ Throws.thrown
  BY DEF Answer, Throws
<1>3. ASSUME NEW v, NEW m \in BOOLEAN
      PROVE  /\ Answer(MandatoryCheck(v, m)) /\ MandatoryCheck(v, m).val = v /\ ~MandatoryCheck(v, m).ok
             /\ (MandatoryCheck(v, m).missing <=> m) /\ ~MandatoryCheck(v, m).thrown
  <2> DEFINE a == MandatoryCheck(v, m)
  <2>1. a = [val |-> v, ok |-> FALSE, missing |-> m, thrown |-> FALSE]
    BY DEF MandatoryCheck
  <2> HIDE DEF a
  <2>2. Answer(a) /\ a.val = v /\ ~a.ok /\ (a.missing <=> m) /\ ~a.thrown
    BY <2>1 DEF Answer
  <2> QED
    BY <2>2 DEF a
<1> QED
  BY <1>1, <1>2, <1>3

\* If there is no fitting value, the old one is kept.
LEMMA NotThere ==
  ASSUME NEW T, NEW j, NEW key, NEW old, NEW m \in BOOLEAN, NEW v, ~There(j, key, T),
         T[1] = "object" \/ (T[1] # "optional" /\ v = old)
  PROVE  Right(T, j, key, old, m, MandatoryCheck(v, m))
<1> DEFINE a == MandatoryCheck(v, m)
<1>1. Answer(a) /\ a.val = v /\ ~a.ok /\ (a.missing <=> m)
  BY AnswerParts
<1> HIDE DEF a
<1>2. Right(T, j, key, old, m, a)
  BY <1>1 DEF Right
<1> QED
  BY <1>2 DEF a

\* If there is one, nothing is missing.
LEMMA IsThere ==
  ASSUME NEW T, NEW j, NEW key, NEW old, NEW m \in BOOLEAN, NEW a, There(j, key, T),
         Answer(a), a.thrown \/ ~a.missing
  PROVE  Right(T, j, key, old, m, a)
BY DEF Right

\* An exception says nothing.
LEMMA Thrown ==
  ASSUME NEW T, NEW j, NEW key, NEW old, NEW m \in BOOLEAN
  PROVE  Right(T, j, key, old, m, Throws)
BY AnswerParts DEF Right

\* A value that is there is taken.
LEMMA Taken ==
  ASSUME NEW T, NEW j, NEW key, NEW old, NEW m \in BOOLEAN, NEW v, There(j, key, T)
  PROVE  Right(T, j, key, old, m, Got(v))
<1>1. Answer(Got(v)) /\ ~Got(v).missing
  BY AnswerParts
<1> QED
  BY <1>1, IsThere

-----------------------------------------------------------------------------
(* Elements of vectors and maps *)

\* The elements that have been read are an answer, in which nothing is missing.
LEMMA ElementsAnswer ==
  ASSUME NEW T, NEW js, NEW n \in Nat
  PROVE  Answer(ElementsUpTo(T, js)[n]) /\ ~ElementsUpTo(T, js)[n].missing
<1> DEFINE all == ElementsUpTo(T, js)
           U == {k \in Nat : Answer(all[k]) /\ ~all[k].missing}
<1>1. /\ all[0] = Got(<< >>)
      /\ \A k \in Nat : all[k + 1] = (IF ~all[k].ok THEN all[k] ELSE Element(T, js[k + 1], all[k].val))
  BY ElementsEach
<1> HIDE DEF all
<1>2. 0 \in U
  BY <1>1, AnswerParts
<1>3. ASSUME NEW k \in Nat, k \in U PROVE k + 1 \in U
  <2>1. \A e, read : Answer(Element(T, e, read)) /\ ~Element(T, e, read).missing
    <3> SUFFICES ASSUME NEW e, NEW read PROVE Answer(Element(T, e, read)) /\ ~Element(T, e, read).missing
      OBVIOUS
    <3>1. \/ Element(T, e, read) = Fails(read) \/ Element(T, e, read) = Throws
          \/ \E v : Element(T, e, read) = Got(v)
      BY Zenon DEF Element
    <3> QED
      BY <3>1, AnswerParts
  <2>2. Answer(all[k + 1]) /\ ~all[k + 1].missing
    BY <1>1, <1>3, <2>1
  <2> QED
    BY <2>2
<1>4. Nat \subseteq U
  <2> HIDE DEF U
  <2> QED
    BY <1>2, <1>3, SetInduction
<1> QED
  BY <1>4 DEF all

\* Numbers are all read, or an exception is thrown.
LEMMA ElementsLength ==
  ASSUME NEW js, NEW n \in Nat
  PROVE  LET r == ElementsUpTo(<<"pod">>, js)[n] IN
         (r.thrown /\ ~r.ok) \/ (r.ok /\ IsSequence(r.val) /\ Len(r.val) = n)
<1> DEFINE T == <<"pod">>
           all == ElementsUpTo(T, js)
           Good(r, k) == (r.thrown /\ ~r.ok) \/ (r.ok /\ IsSequence(r.val) /\ Len(r.val) = k)
           U == {k \in Nat : Good(all[k], k)}
<1>1. /\ all[0] = Got(<< >>)
      /\ \A k \in Nat : all[k + 1] = (IF ~all[k].ok THEN all[k] ELSE Element(T, js[k + 1], all[k].val))
  BY ElementsEach
<1>2. ASSUME NEW e, NEW read
      PROVE  Element(T, e, read) = Throws \/ \E v : Element(T, e, read) = Got(Append(read, v))
  <2>1. T[1] = "pod"
    OBVIOUS
  <2> HIDE DEF T
  <2>2. Element(T, e, read) = LET r == IF Gets(T, e) THEN Got(e[2]) ELSE Throws IN
                                IF r.thrown THEN Throws ELSE Got(Append(read, r.val))
    BY <2>1 DEF Element
  <2>3. CASE Gets(T, e)
    <3>1. Element(T, e, read) = IF Got(e[2]).thrown THEN Throws ELSE Got(Append(read, Got(e[2]).val))
      BY <2>2, <2>3
    <3> QED
      BY <3>1
  <2>4. CASE ~Gets(T, e)
    <3>1. Element(T, e, read) = IF Throws.thrown THEN Throws ELSE Got(Append(read, Throws.val))
      BY <2>2, <2>4
    <3> QED
      BY <3>1
  <2> QED
    BY <2>3, <2>4
<1> HIDE DEF all, T
<1>3. 0 \in U
  <2>1. IsSequence(<< >>) /\ Len(<< >>) = 0
    BY DEF IsSequence, Members
  <2> QED
    BY <1>1, <2>1, AnswerParts
<1>4. ASSUME NEW k \in Nat, k \in U PROVE k + 1 \in U
  <2>1. Good(all[k], k)
    BY <1>4
  <2>2. CASE ~all[k].ok
    <3>1. all[k + 1] = all[k]
      BY <1>1, <2>2
    <3> QED
      BY <2>1, <2>2, <3>1
  <2>3. CASE all[k].ok
    <3> DEFINE read == all[k].val
    <3>1. all[k + 1] = Element(T, js[k + 1], read)
      BY <1>1, <2>3
    <3>2. IsSequence(read) /\ Len(read) = k
      BY <2>1, <2>3
    <3> HIDE DEF read
    <3>3. CASE all[k + 1] = Throws
      BY <3>3, AnswerParts
    <3>4. ASSUME NEW v, all[k + 1] = Got(Append(read, v)) PROVE k + 1 \in U
      <4>1. IsSequence(Append(read, v)) /\ Len(Append(read, v)) = k + 1
        BY <3>2, AppendFacts
      <4>2. all[k + 1].ok /\ all[k + 1].val = Append(read, v)
        BY <3>4, AnswerParts
      <4>3. Good(all[k + 1], k + 1)
        BY <4>1, <4>2
      <4> QED
        BY <4>3
    <3> QED
      BY <3>1, <1>2, <3>3, <3>4
  <2> QED
    BY <2>2, <2>3
<1>5. Nat \subseteq U
  <2> HIDE DEF U
  <2> QED
    BY <1>3, <1>4, SetInduction
<1>6. Good(all[n], n)
  BY <1>5
<1> QED
  BY <1>6 DEF all, T

\* The keys of a value are finitely many.
LEMMA ItemsFinite == ASSUME NEW j \in Json PROVE IsFiniteSet(DOMAIN Items(j))
<1>0. Tag(j) \in {"obj", "arr"} => j # Null
  BY DEF Tag, Null
<1>1. CASE Tag(j) = "obj"
  <2>1. Items(j) = j[2]
    BY <1>1, <1>0, Zenon DEF Items
  <2> QED
    BY <1>1, <2>1, MappingAssumption DEF Closed
<1>2. CASE Tag(j) = "arr"
  <2> DEFINE n == Len(j[2])
             K == {ToString(i - 1) : i \in 1..n}
  <2>1. j[2] \in Seq(Json)
    BY <1>2, MappingAssumption DEF Closed
  <2>2. n \in Nat /\ DOMAIN j[2] = 1..n
    BY <2>1, LenProperties
  <2>3. DOMAIN Items(j) = {ToString(i - 1) : i \in DOMAIN j[2]}
    BY <1>2, <1>0, Zenon DEF Items
  <2> HIDE DEF n
  <2>4. IsFiniteSet(1..n)
    BY <2>2, FS_Interval
  <2>5. IsFiniteSet(K)
    <3> DEFINE F == [i \in 1..n |-> ToString(i - 1)]
    <3>1. F \in Surjection(1..n, K)
      BY DEF Surjection
    <3> QED
      BY <2>4, <3>1, FS_Surjection
  <2> QED
    BY <2>2, <2>3, <2>5
<1>3. CASE Tag(j) \notin {"obj", "arr"}
  <2>1. Items(j) = IF j = Null THEN << >> ELSE [k \in {""} |-> j]
    BY <1>3, Zenon DEF Items
  <2>2. DOMAIN Items(j) = {} \/ DOMAIN Items(j) = {""}
    <3>1. DOMAIN << >> = {} /\ DOMAIN [k \in {""} |-> j] = {""}
      OBVIOUS
    <3> QED
      BY <2>1, <3>1
  <2> QED
    BY <2>2, FS_EmptySet, FS_Singleton
<1> QED
  BY <1>1, <1>2, <1>3

\* SetToSeq has as many elements as the set.
LEMMA SetToSeqFacts ==
  ASSUME NEW S, IsFiniteSet(S)
  PROVE  /\ Len(SetToSeq(S)) \in Nat /\ DOMAIN SetToSeq(S) = 1..Len(SetToSeq(S))
         /\ SetToSeq(S) = [i \in 1..Len(SetToSeq(S)) |-> SetToSeq(S)[i]]
         /\ \A i \in 1..Len(SetToSeq(S)) : SetToSeq(S)[i] \in S
<1> DEFINE n == Cardinality(S)
           s == SetToSeq(S)
<1>1. n \in Nat /\ \E f : f \in Bijection(1..n, S)
  BY FS_CardinalityType, FS_NatBijection DEF ExistsBijection
<1>2. \E f \in [1..n -> S] : IsInjective(f)
  <2>1. PICK f : f \in Bijection(1..n, S)
    BY <1>1
  <2>2. f \in [1..n -> S] /\ \A a, b \in 1..n : f[a] = f[b] => a = b
    BY <2>1 DEF Bijection, Injection, IsInjective
  <2> QED
    BY <2>2 DEF IsInjective
<1>3. s \in [1..n -> S]
  BY <1>2 DEF SetToSeq
<1> HIDE DEF s, n
<1>4. Len(s) = n
  BY <1>1, <1>3
<1> QED
  BY <1>1, <1>3, <1>4 DEF s

\* The items of a map are an answer, in which nothing is missing.
LEMMA InsertsAnswer ==
  ASSUME NEW T, NEW items, NEW keys, NEW named, NEW n \in Nat
  PROVE  LET r == Inserts(T, items, keys, named)[n] IN Answer(r) /\ (r.thrown \/ ~r.missing)
<1> DEFINE all == Inserts(T, items, keys, named)
<1>1. all[0] = Got(<< >>)
  BY InsertsEach
<1>1a. \A k \in Nat : all[k + 1] = Insert(T, items[keys[k + 1]], named[keys[k + 1]], all[k])
  BY InsertsEach
<1> HIDE DEF all
<1>2. all[n] = Throws \/ \E v : all[n] = Got(v)
  <2>1. CASE n = 0
    BY <1>1, <2>1
  <2>2. CASE n # 0
    <3>1. n - 1 \in Nat /\ (n - 1) + 1 = n
      BY <2>2
    <3>2. all[n] = Insert(T, items[keys[n]], named[keys[n]], all[n - 1])
      BY <1>1a, <3>1
    <3> DEFINE r == Insert(T, items[keys[n]], named[keys[n]], all[n - 1])
    <3>3. r = Throws \/ \E v : r = Got(v)
      BY Zenon DEF Insert
    <3> HIDE DEF r
    <3> QED
      BY <3>2, <3>3 DEF r
  <2> QED
    BY <2>1, <2>2
<1>3. Answer(all[n]) /\ (all[n].thrown \/ ~all[n].missing)
  BY <1>2, AnswerParts
<1> QED
  BY <1>3 DEF all

-----------------------------------------------------------------------------
(* The functions for the types *)

\* What a type asks of a value.
LEMMA AcceptsKind ==
  ASSUME NEW T, NEW j
  PROVE  /\ T[1] \in {"pod", "angle", "duration"} => (Accepts(T, j) <=> Tag(j) \in {"num", "bool"})
         /\ T[1] \in {"string", "enum"} => (Accepts(T, j) <=> Tag(j) = "str")
         /\ T[1] \in {"set", "config"} => (Accepts(T, j) <=> IsObject(j))
         /\ T[1] \in {"vector", "dynamic"} => (Accepts(T, j) <=> Tag(j) = "arr")
         /\ T[1] = "fixed" => (Accepts(T, j) <=> Tag(j) = "arr" /\ Len(j[2]) = T[2])
         /\ T[1] \in {"map", "enummap"} => Accepts(T, j)
BY DEF Accepts, IsObject

\* The answer with another value.
LEMMA OtherValue ==
  ASSUME NEW r, Answer(r), NEW v
  PROVE  LET a == [r EXCEPT !.val = v] IN
         Answer(a) /\ a.val = v /\ (a.ok <=> r.ok) /\ (a.missing <=> r.missing) /\ (a.thrown <=> r.thrown)
<1> DEFINE a == [r EXCEPT !.val = v]
<1>1. a = [val |-> v, ok |-> r.ok, missing |-> r.missing, thrown |-> r.thrown]
  BY DEF Answer
<1> HIDE DEF a
<1>2. Answer(a) /\ a.val = v /\ (a.ok <=> r.ok) /\ (a.missing <=> r.missing) /\ (a.thrown <=> r.thrown)
  BY <1>1 DEF Answer
<1> QED
  BY <1>2 DEF a

\* Values that are taken as they are.
PlainKinds == {"pod", "angle", "duration", "string", "enum", "config"}
LEMMA PlainRight ==
  ASSUME NEW T, T[1] \in PlainKinds,
         NEW j, NEW key, NEW old, NEW m \in BOOLEAN
  PROVE  Right(T, j, key, old, m, Add(T, j, key, old, m))
<1> DEFINE a == Add(T, j, key, old, m)
<1>1. \A v : Gets(<<"pod">>, v) <=> Tag(v) \in {"num", "bool"}
  BY DEF Gets
<1>2. CASE T[1] = "pod"
  <2>1. a = AddPod(j, key, old, m)
    BY <1>2, Zenon DEF Add
  <2>2. a = IF There(j, key, T) THEN Got(j[2][key][2]) ELSE MandatoryCheck(old, m)
    BY <1>1, <1>2, <2>1, AcceptsKind DEF AddPod, There
  <2> HIDE DEF a
  <2>3. Right(T, j, key, old, m, a)
    BY <1>2, <2>2, NotThere, Taken
  <2> QED
    BY <2>3 DEF a
<1>3. CASE T[1] = "angle"
  <2>1. a = AddAngle(j, key, old, m)
    BY <1>3, Zenon DEF Add
  <2>2. a = IF There(j, key, T) THEN Got(j[2][key][2]) ELSE MandatoryCheck(old, m)
    BY <1>1, <1>3, <2>1, AcceptsKind DEF AddAngle, AddPod, There
  <2> HIDE DEF a
  <2>3. Right(T, j, key, old, m, a)
    BY <1>3, <2>2, NotThere, Taken
  <2> QED
    BY <2>3 DEF a
<1>4. CASE T[1] = "string"
  <2>1. a = AddString(j, key, old, m)
    BY <1>4, Zenon DEF Add
  <2>2. a = IF There(j, key, T) THEN Got(j[2][key][2]) ELSE MandatoryCheck(old, m)
    BY <1>1, <1>4, <2>1, AcceptsKind DEF AddString, There
  <2> HIDE DEF a
  <2>3. Right(T, j, key, old, m, a)
    BY <1>4, <2>2, NotThere, Taken
  <2> QED
    BY <2>3 DEF a
<1>5. CASE T[1] = "enum"
  <2>1. a = AddEnum(j, key, old, m)
    BY <1>5, Zenon DEF Add
  <2>2. a = IF There(j, key, T) THEN Got(EnumOf(j[2][key][2])) ELSE MandatoryCheck(old, m)
    BY <1>1, <1>5, <2>1, AcceptsKind DEF AddEnum, There
  <2> HIDE DEF a
  <2>3. Right(T, j, key, old, m, a)
    BY <1>5, <2>2, NotThere, Taken
  <2> QED
    BY <2>3 DEF a
<1>6. CASE T[1] = "config"
  <2>1. a = AddConfiguration(j, key, old, m)
    BY <1>6, Zenon DEF Add
  <2>2. a = IF There(j, key, T) THEN Got(j[2][key]) ELSE MandatoryCheck(old, m)
    BY <1>1, <1>6, <2>1, AcceptsKind DEF AddConfiguration, There
  <2> HIDE DEF a
  <2>3. Right(T, j, key, old, m, a)
    BY <1>6, <2>2, NotThere, Taken
  <2> QED
    BY <2>3 DEF a
<1>7. CASE T[1] = "duration"
  <2>1. a = AddDuration(j, key, old, m)
    BY <1>7, Zenon DEF Add
  <2>2. a = IF There(j, key, T) THEN Got(j[2][key][2])
            ELSE IF Has(j, key) THEN Throws ELSE MandatoryCheck(old, m)
    BY <1>1, <1>7, <2>1, AcceptsKind DEF AddDuration, There
  <2> HIDE DEF a
  <2>3. Right(T, j, key, old, m, a)
    BY <1>7, <2>2, NotThere, Taken, Thrown
  <2> QED
    BY <2>3 DEF a
<1> QED
  BY <1>2, <1>3, <1>4, <1>5, <1>6, <1>7 DEF PlainKinds

\* The value under a key.
LEMMA Below ==
  ASSUME NEW j \in Json, NEW key, Has(j, key)
  PROVE  /\ j[2][key] \in Json
         /\ Tag(j[2][key]) = "arr" => Len(j[2][key][2]) \in Nat
<1>1. j[2][key] \in Json
  BY MappingAssumption DEF Closed, Has, IsObject
<1>2. ASSUME Tag(j[2][key]) = "arr" PROVE Len(j[2][key][2]) \in Nat
  <2>1. j[2][key][2] \in Seq(Json)
    BY <1>1, <1>2, MappingAssumption DEF Closed
  <2> QED
    BY <2>1
<1> QED
  BY <1>1, <1>2

\* The elements of an array in the file.
LEMMA ElementsRight ==
  ASSUME NEW j \in Json, NEW key, NEW T, NEW old, NEW m \in BOOLEAN, key # "",
         Has(j, key), Tag(j[2][key]) = "arr"
  PROVE  /\ AddVector(j, key, T, old, m) = Elements(T, j[2][key][2])
         /\ Answer(AddVector(j, key, T, old, m)) /\ ~AddVector(j, key, T, old, m).missing
<1>1. AddVector(j, key, T, old, m) = Elements(T, j[2][key][2])
  BY DEF AddVector
<1>2. Answer(Elements(T, j[2][key][2])) /\ ~Elements(T, j[2][key][2]).missing
  BY Below, ElementsAnswer DEF Elements
<1> QED
  BY <1>1, <1>2

\* Vectors.
LEMMA VectorRight ==
  ASSUME NEW T, T[1] = "vector", NEW j \in Json, NEW key, NEW old, NEW m \in BOOLEAN, key # ""
  PROVE  Right(T, j, key, old, m, Add(T, j, key, old, m))
<1> DEFINE a == Add(T, j, key, old, m)
<1>1. a = AddVector(j, key, T[2], old, m)
  BY Zenon DEF Add
<1>2. There(j, key, T) <=> Has(j, key) /\ Tag(j[2][key]) = "arr"
  BY AcceptsKind DEF There
<1> HIDE DEF a
<1>3. CASE There(j, key, T)
  <2>1. Answer(a) /\ ~a.missing
    BY <1>1, <1>2, <1>3, ElementsRight
  <2>2. Right(T, j, key, old, m, a)
    BY <1>3, <2>1, IsThere
  <2> QED
    BY <2>2 DEF a
<1>4. CASE ~There(j, key, T)
  <2>1. a = MandatoryCheck(old, m)
    BY <1>1, <1>2, <1>4 DEF AddVector
  <2>2. Right(T, j, key, old, m, a)
    BY <1>4, <2>1, NotThere
  <2> QED
    BY <2>2 DEF a
<1> QED
  BY <1>3, <1>4

\* Vectors within a vector are read up to the first element that is none.
LEMMA ElementsTorn ==
  ASSUME NEW T, T[1] = "vector", NEW js, NEW n \in Nat
  PROVE  LET r == ElementsUpTo(T, js)[n] IN
         \/ r.thrown
         \/ r.ok /\ IsSequence(r.val) /\ Len(r.val) = n /\ \A i \in 1..n : Tag(js[i]) = "arr"
         \/ /\ ~r.ok /\ Len(r.val) \in Nat /\ Len(r.val) < n /\ Tag(js[Len(r.val) + 1]) # "arr"
            /\ \A i \in 1..Len(r.val) : Tag(js[i]) = "arr"
<1> DEFINE all == ElementsUpTo(T, js)
           Whole(r, k) == /\ r.ok /\ IsSequence(r.val) /\ Len(r.val) = k
                          /\ \A i \in 1..k : Tag(js[i]) = "arr"
           Cut(r, k) == /\ ~r.ok /\ Len(r.val) \in Nat /\ Len(r.val) < k /\ Tag(js[Len(r.val) + 1]) # "arr"
                        /\ \A i \in 1..Len(r.val) : Tag(js[i]) = "arr"
           U == {k \in Nat : (all[k].thrown /\ ~all[k].ok) \/ Whole(all[k], k) \/ Cut(all[k], k)}
<1>1. /\ all[0] = Got(<< >>)
      /\ \A k \in Nat : all[k + 1] = (IF ~all[k].ok THEN all[k] ELSE Element(T, js[k + 1], all[k].val))
  BY ElementsEach
<1>2. ASSUME NEW e, NEW read
      PROVE  \/ Element(T, e, read) = Throws
             \/ Tag(e) = "arr" /\ \E v : Element(T, e, read) = Got(Append(read, v))
             \/ Tag(e) # "arr" /\ Element(T, e, read) = Fails(read)
  <2>1. CASE Tag(e) # "arr"
    BY <2>1, Zenon DEF Element
  <2>2. CASE Tag(e) = "arr"
    <3>1. \/ Element(T, e, read) = Throws
          \/ \E v : Element(T, e, read) = Got(Append(read, v))
      BY <2>2, Zenon DEF Element
    <3> QED
      BY <2>2, <3>1
  <2> QED
    BY <2>1, <2>2
<1> HIDE DEF all
<1>3. 0 \in U
  <2>1. IsSequence(<< >>) /\ Len(<< >>) = 0
    BY DEF IsSequence, Members
  <2>2. Whole(all[0], 0)
    BY <1>1, <2>1, AnswerParts
  <2> QED
    BY <2>2
<1>4. ASSUME NEW k \in Nat, k \in U PROVE k + 1 \in U
  <2>1. CASE ~all[k].ok
    <3>1. all[k + 1] = all[k]
      BY <1>1, <2>1
    <3>2. CASE Cut(all[k], k)
      <4>1. Cut(all[k + 1], k + 1)
        BY <3>1, <3>2
      <4> HIDE DEF Cut
      <4> QED
        BY <4>1
    <3> QED
      BY <1>4, <2>1, <3>1, <3>2
  <2>2. CASE all[k].ok
    <3> DEFINE read == all[k].val
    <3>1. all[k + 1] = Element(T, js[k + 1], read)
      BY <1>1, <2>2
    <3>2. IsSequence(read) /\ Len(read) = k /\ \A i \in 1..k : Tag(js[i]) = "arr"
      BY <1>4, <2>2
    <3> HIDE DEF read
    <3>3. CASE all[k + 1] = Throws
      BY <3>3, AnswerParts
    <3>4. ASSUME NEW v, all[k + 1] = Got(Append(read, v)), Tag(js[k + 1]) = "arr" PROVE k + 1 \in U
      <4>1. IsSequence(Append(read, v)) /\ Len(Append(read, v)) = k + 1
        BY <3>2, AppendFacts
      <4>2. all[k + 1].ok /\ all[k + 1].val = Append(read, v)
        <5> DEFINE w == Append(read, v)
        <5> HIDE DEF w
        <5>1. Got(w).ok /\ Got(w).val = w
          BY AnswerParts
        <5>2. all[k + 1] = Got(w)
          BY <3>4 DEF w
        <5> QED
          BY <5>1, <5>2 DEF w
      <4>3. \A i \in 1..(k + 1) : Tag(js[i]) = "arr"
        BY <3>2, <3>4
      <4>4. Whole(all[k + 1], k + 1)
        BY <4>1, <4>2, <4>3
      <4> QED
        BY <4>4
    <3>5. ASSUME all[k + 1] = Fails(read), Tag(js[k + 1]) # "arr" PROVE k + 1 \in U
      <4>1. ~all[k + 1].ok /\ all[k + 1].val = read
        BY <3>5, AnswerParts
      <4>2. Cut(all[k + 1], k + 1)
        BY <3>2, <3>5, <4>1
      <4> QED
        BY <4>2
    <3> QED
      BY <1>2, <3>1, <3>3, <3>4, <3>5
  <2> QED
    BY <2>1, <2>2
<1>5. Nat \subseteq U
  <2> HIDE DEF U
  <2> QED
    BY <1>3, <1>4, SetInduction
<1>6. n \in U
  BY <1>5
<1> QED
  BY <1>6 DEF all

\* A torn vector is read up to its tear, and add fails.
LEMMA VectorTorn ==
  ASSUME NEW T, NEW j \in Json, NEW key, NEW old, NEW m \in BOOLEAN, key # "",
         Has(j, key), Torn(T, j[2][key])
  PROVE  LET a == Add(T, j, key, old, m) IN
         Answer(a) /\ (a.thrown \/ (~a.ok /\ EndsAtTear(a.val, j[2][key][2])))
<1> DEFINE a == Add(T, j, key, old, m)
           js == j[2][key][2]
<1>1. T[1] = "vector" /\ T[2][1] = "vector" /\ Tag(j[2][key]) = "arr"
      /\ \E i \in DOMAIN js : Tag(js[i]) # "arr"
  BY DEF Torn
<1>2. a = AddVector(j, key, T[2], old, m)
  BY <1>1, Zenon DEF Add
<1>3. a = ElementsUpTo(T[2], js)[Len(js)] /\ Answer(a)
  BY <1>1, <1>2, ElementsRight DEF Elements
<1>4. Len(js) \in Nat /\ DOMAIN js = 1..Len(js)
  <2>1. js \in Seq(Json)
    BY <1>1, Below, MappingAssumption DEF Closed
  <2> HIDE DEF js
  <2> QED
    BY <2>1, LenProperties
<1> HIDE DEF a, js
<1>5. \/ a.thrown
      \/ a.ok /\ IsSequence(a.val) /\ Len(a.val) = Len(js) /\ \A i \in 1..Len(js) : Tag(js[i]) = "arr"
      \/ /\ ~a.ok /\ Len(a.val) \in Nat /\ Len(a.val) < Len(js) /\ Tag(js[Len(a.val) + 1]) # "arr"
         /\ \A i \in 1..Len(a.val) : Tag(js[i]) = "arr"
  BY <1>1, <1>3, <1>4, ElementsTorn
<1>6. a.thrown \/ (~a.ok /\ EndsAtTear(a.val, js))
  BY <1>1, <1>4, <1>5 DEF EndsAtTear
<1> QED
  BY <1>3, <1>6 DEF a, js

\* Eigen vectors: what add returns if there is an array, and if there is none.
LEMMA DynamicAnswer ==
  ASSUME NEW j \in Json, NEW key, NEW old, NEW m \in BOOLEAN, key # ""
  PROVE  LET there == Has(j, key) /\ Tag(j[2][key]) = "arr"
             a == AddDynamic(j, key, old, m)
         IN /\ Answer(a)
            /\ there => /\ ~a.missing
                        /\ (a.thrown /\ ~a.ok) \/ (a.ok /\ Len(a.val) = Len(j[2][key][2]))
            /\ ~there => /\ ~a.ok /\ (a.missing <=> m) /\ ~a.thrown /\ a.val = old
<1> DEFINE r == AddVector(j, key, <<"pod">>, << >>, m)
           a == AddDynamic(j, key, old, m)
           other == [r EXCEPT !.val = old]
<1>1. a = IF r.ok THEN r ELSE other
  BY DEF AddDynamic
<1> HIDE DEF a
<1>2. CASE Has(j, key) /\ Tag(j[2][key]) = "arr"
  <2>1. r = Elements(<<"pod">>, j[2][key][2]) /\ Answer(r) /\ ~r.missing
    BY <1>2, ElementsRight
  <2>2. Len(j[2][key][2]) \in Nat
    BY <1>2, Below
  <2>3. (r.thrown /\ ~r.ok) \/ (r.ok /\ Len(r.val) = Len(j[2][key][2]))
    <3> DEFINE js == j[2][key][2]
    <3>1. r = ElementsUpTo(<<"pod">>, js)[Len(js)]
      BY <2>1 DEF Elements
    <3> HIDE DEF js
    <3>2. LET q == ElementsUpTo(<<"pod">>, js)[Len(js)] IN
          (q.thrown /\ ~q.ok) \/ (q.ok /\ IsSequence(q.val) /\ Len(q.val) = Len(js))
      BY <2>2, ElementsLength DEF js
    <3> HIDE DEF r
    <3> QED
      BY <3>1, <3>2 DEF js
  <2>4. Answer(other) /\ (other.ok <=> r.ok) /\ (other.missing <=> r.missing) /\ (other.thrown <=> r.thrown)
    <3> HIDE DEF r
    <3> QED
      BY <2>1, OtherValue
  <2> HIDE DEF r, other
  <2> QED
    BY <1>1, <1>2, <2>1, <2>3, <2>4 DEF a
<1>3. CASE ~(Has(j, key) /\ Tag(j[2][key]) = "arr")
  <2>1. r = MandatoryCheck(<< >>, m)
    BY <1>3 DEF AddVector
  <2> HIDE DEF r
  <2>2. Answer(r) /\ ~r.ok /\ (r.missing <=> m) /\ ~r.thrown
    BY <2>1, AnswerParts
  <2>3. /\ Answer(other) /\ other.val = old /\ (other.ok <=> r.ok) /\ (other.missing <=> r.missing)
        /\ (other.thrown <=> r.thrown)
    BY <2>2, OtherValue
  <2> HIDE DEF other
  <2> QED
    BY <1>1, <1>3, <2>2, <2>3 DEF a
<1> QED
  BY <1>2, <1>3

\* Eigen vectors.
LEMMA DynamicRight ==
  ASSUME NEW T, T[1] = "dynamic", NEW j \in Json, NEW key, NEW old, NEW m \in BOOLEAN, key # ""
  PROVE  Right(T, j, key, old, m, Add(T, j, key, old, m))
<1> DEFINE a == Add(T, j, key, old, m)
<1>1. a = AddDynamic(j, key, old, m)
  BY Zenon DEF Add
<1>2. There(j, key, T) <=> Has(j, key) /\ Tag(j[2][key]) = "arr"
  BY AcceptsKind DEF There
<1> HIDE DEF a
<1>3. /\ Answer(a)
      /\ There(j, key, T) => ~a.missing
      /\ ~There(j, key, T) => ~a.ok /\ (a.missing <=> m) /\ a.val = old
  BY <1>1, <1>2, DynamicAnswer
<1>4. Right(T, j, key, old, m, a)
  BY <1>3 DEF Right
<1> QED
  BY <1>4 DEF a

\* Vectors of a fixed size.
LEMMA FixedRight ==
  ASSUME NEW T, T[1] = "fixed", NEW j \in Json, NEW key, NEW old, NEW m \in BOOLEAN, key # ""
  PROVE  Right(T, j, key, old, m, Add(T, j, key, old, m))
<1> DEFINE a == Add(T, j, key, old, m)
           r == AddDynamic(j, key, old, m)
           there == Has(j, key) /\ Tag(j[2][key]) = "arr"
<1>1. a = IF ~r.ok \/ Len(r.val) = T[2] THEN r ELSE MandatoryCheck(old, m)
  <2>1. a = AddFixed(j, key, T[2], old, m)
    BY Zenon DEF Add
  <2> QED
    BY <2>1 DEF AddFixed, OfSize
<1>2. There(j, key, T) <=> there /\ Len(j[2][key][2]) = T[2]
  BY AcceptsKind DEF There
<1>3. /\ Answer(r)
      /\ there => ~r.missing /\ ((r.thrown /\ ~r.ok) \/ (r.ok /\ Len(r.val) = Len(j[2][key][2])))
      /\ ~there => ~r.ok /\ (r.missing <=> m) /\ ~r.thrown /\ r.val = old
  BY DynamicAnswer
<1> HIDE DEF a, r, there
<1>4. CASE There(j, key, T)
  <2>1. Answer(a) /\ ~a.missing
    BY <1>1, <1>2, <1>3, <1>4
  <2> QED
    BY <1>4, <2>1, IsThere DEF a
<1>5. CASE ~There(j, key, T)
  <2>1. CASE there /\ r.ok
    <3>1. a = MandatoryCheck(old, m)
      BY <1>1, <1>2, <1>3, <1>5, <2>1
    <3> QED
      BY <1>5, <3>1, NotThere DEF a
  <2>2. CASE there /\ ~r.ok
    <3>1. Answer(a) /\ a.thrown
      BY <1>1, <1>3, <2>2
    <3>2. Right(T, j, key, old, m, a)
      BY <3>1 DEF Right
    <3> QED
      BY <3>2 DEF a
  <2>3. CASE ~there
    <3>1. Answer(a) /\ ~a.ok /\ (a.missing <=> m) /\ a.val = old
      BY <1>1, <1>3, <2>3
    <3>2. Right(T, j, key, old, m, a)
      BY <1>5, <3>1 DEF Right
    <3> QED
      BY <3>2 DEF a
  <2> QED
    BY <2>1, <2>2, <2>3
<1> QED
  BY <1>4, <1>5

\* Maps.
MapKinds == {"map", "enummap"}
LEMMA MapsRight ==
  ASSUME NEW T, T[1] \in MapKinds, NEW j \in Json, NEW key, NEW old, NEW m \in BOOLEAN
  PROVE  Right(T, j, key, old, m, Add(T, j, key, old, m))
<1> DEFINE a == Add(T, j, key, old, m)
<1>1. There(j, key, T) <=> Has(j, key)
  BY AcceptsKind DEF There, MapKinds
<1>2. \E named : a = AddItems(j, key, T[2], old, m, named)
  <2>1. CASE T[1] = "map"
    BY <2>1, Zenon DEF Add, AddMap
  <2>2. CASE T[1] = "enummap"
    BY <2>2, Zenon DEF Add, AddEnumMap
  <2> QED
    BY <2>1, <2>2 DEF MapKinds
<1> HIDE DEF a
<1>3. PICK named : a = AddItems(j, key, T[2], old, m, named)
  BY <1>2
<1>4. CASE Has(j, key)
  <2> DEFINE items == Items(j[2][key])
             keys == SetToSeq(DOMAIN items)
  <2>1. a = Inserts(T[2], items, keys, named)[Len(keys)]
    BY <1>3, <1>4 DEF AddItems
  <2>2. Len(keys) \in Nat
    <3>1. IsFiniteSet(DOMAIN items)
      BY <1>4, Below, ItemsFinite
    <3> QED
      BY <3>1, SetToSeqFacts
  <2> HIDE DEF items, keys
  <2>3. Answer(a) /\ (a.thrown \/ ~a.missing)
    BY <2>1, <2>2, InsertsAnswer
  <2> QED
    BY <1>1, <1>4, <2>3, IsThere DEF a
<1>5. CASE ~Has(j, key)
  <2>1. a = MandatoryCheck(old, m)
    BY <1>3, <1>5 DEF AddItems
  <2> QED
    BY <1>1, <1>5, <2>1, NotThere DEF a, MapKinds
<1> QED
  BY <1>4, <1>5

-----------------------------------------------------------------------------
(* The mapping of all parameters *)

\* Whatever the parameters are, the mapping answers.
LEMMA MapsAnswer ==
  ASSUME NEW spec, NEW j, NEW old, NEW k \in Nat
  PROVE  Answer(Maps(spec, j, old)[k])
<1> DEFINE all == Maps(spec, j, old)
           U == {n \in Nat : Answer(all[n])}
<1>1. /\ all[0] = Got(old)
      /\ \A n \in Nat : all[n + 1] = MapNext(spec, j, all[n], n + 1)
  BY MapsEach
<1> HIDE DEF all
<1>2. 0 \in U
  BY <1>1, AnswerParts
<1>3. ASSUME NEW n \in Nat, n \in U PROVE n + 1 \in U
  <2>1. Answer(all[n])
    BY <1>3
  <2> DEFINE r == all[n]
             a == AddParam(spec[n + 1].type, j, spec[n + 1].id, r.val[n + 1], spec[n + 1].mandatory)
             next == MapNext(spec, j, r, n + 1)
  <2>2. next = IF r.thrown THEN r
               ELSE IF a.thrown THEN Throws
               ELSE [val |-> [r.val EXCEPT ![n + 1] = a.val], ok |-> r.ok /\ ~a.missing,
                     missing |-> r.missing \/ a.missing, thrown |-> FALSE]
    BY Zenon DEF MapNext
  <2> HIDE DEF a, r, next
  <2>3. Answer(r)
    BY <2>1 DEF r
  <2>5. Answer(next)
    <3>1. CASE ~r.thrown /\ ~a.thrown
      BY <2>2, <3>1 DEF Answer
    <3> QED
      BY <2>2, <2>3, <3>1, AnswerParts
  <2>6. all[n + 1] = next
    BY <1>1 DEF next, r
  <2> QED
    BY <2>5, <2>6
<1>4. Nat \subseteq U
  <2> HIDE DEF U
  <2> QED
    BY <1>2, <1>3, SetInduction
<1>5. Answer(all[k])
  BY <1>4
<1> QED
  BY <1>5 DEF all

\* AddParam is Add again, and AcceptsParam is Accepts again, for the types there are.  No type
\* is within itself, so these equations have a solution.
Knot ==
  \A T \in ParamTypes :
    /\ \A j, key, old, m : AddParam(T, j, key, old, m) = Add(T, j, key, old, m)
    /\ \A j : AcceptsParam(T, j) = Accepts(T, j)

\* A type is added rightly.
AddsRight(T) ==
  \A j \in Json, m \in BOOLEAN : \A key, old :
    key # "" => Right(T, j, key, old, m, Add(T, j, key, old, m))

\* The mapping fails exactly if a mandatory parameter is not there, and notes it.
LEMMA MapRight ==
  ASSUME Knot, NEW spec, IsSpec(spec), NEW j \in Json, NEW old,
         \A i \in 1..Len(spec) : AddsRight(spec[i].type)
  PROVE  LET r == Map(spec, j, old) IN
         ~r.thrown => /\ r.ok <=> \A i \in 1..Len(spec) : spec[i].mandatory => There(j, spec[i].id, spec[i].type)
                      /\ r.missing <=> ~r.ok
<1> DEFINE all == Maps(spec, j, old)
           Given(i) == spec[i].mandatory => There(j, spec[i].id, spec[i].type)
           Fine(r, n) == ~r.thrown => (r.ok <=> \A i \in 1..n : Given(i)) /\ (r.missing <=> ~r.ok)
           U == {n \in Nat : n <= Len(spec) => Fine(all[n], n)}
<1>1. /\ all[0] = Got(old)
      /\ \A n \in Nat : all[n + 1] = MapNext(spec, j, all[n], n + 1)
  BY MapsEach
<1>0. Len(spec) \in Nat
  BY DEF IsSpec
<1> HIDE DEF all
<1>2. 0 \in U
  BY <1>1, AnswerParts
<1>3. ASSUME NEW n \in Nat, n \in U PROVE n + 1 \in U
  <2> SUFFICES ASSUME n + 1 <= Len(spec) PROVE Fine(all[n + 1], n + 1)
    OBVIOUS
  <2> DEFINE r == all[n]
             p == spec[n + 1]
             a == AddParam(p.type, j, p.id, r.val[n + 1], p.mandatory)
             next == MapNext(spec, j, r, n + 1)
  <2>1. n + 1 \in 1..Len(spec) /\ n <= Len(spec)
    BY <1>0
  <2>2. Fine(r, n)
    BY <1>3, <2>1
  <2>3. p.type \in ParamTypes /\ p.id # "" /\ p.mandatory \in BOOLEAN
    BY <2>1 DEF IsSpec
  <2>4. a = Add(p.type, j, p.id, r.val[n + 1], p.mandatory)
    <3>1. \A T \in ParamTypes : \A key, value, m : AddParam(T, j, key, value, m) = Add(T, j, key, value, m)
      BY Zenon DEF Knot
    <3> HIDE DEF p, r
    <3> QED
      BY <2>3, <3>1, Zenon
  <2>5. Right(p.type, j, p.id, r.val[n + 1], p.mandatory, a)
    <3>1. AddsRight(p.type)
      BY <2>1
    <3> HIDE DEF a, p, r
    <3> QED
      BY <2>3, <2>4, <3>1 DEF AddsRight
  <2>6. next = IF r.thrown THEN r
               ELSE IF a.thrown THEN Throws
               ELSE [val |-> [r.val EXCEPT ![n + 1] = a.val], ok |-> r.ok /\ ~a.missing,
                     missing |-> r.missing \/ a.missing, thrown |-> FALSE]
    BY Zenon DEF MapNext
  <2>7. all[n + 1] = next
    BY <1>1
  <2>8. ~a.thrown => (a.missing <=> ~Given(n + 1))
    <3> HIDE DEF a
    <3> QED
      BY <2>5 DEF Right
  <2>9. (\A i \in 1..(n + 1) : Given(i)) <=> (\A i \in 1..n : Given(i)) /\ Given(n + 1)
    <3> HIDE DEF Given
    <3> QED
      OBVIOUS
  <2> HIDE DEF a, r, next, Given, p
  <2>12. Fine(next, n + 1)
    BY <2>2, <2>6, <2>8, <2>9, AnswerParts
  <2> QED
    BY <2>7, <2>12
<1>4. Nat \subseteq U
  <2> HIDE DEF U
  <2> QED
    BY <1>2, <1>3, SetInduction
<1>5. Fine(all[Len(spec)], Len(spec))
  BY <1>0, <1>4
<1> QED
  BY <1>5 DEF all, Map

\* A nested set of parameters.
LEMMA SetRight ==
  ASSUME NEW T, T[1] = "set", IsSpec(T[2]), NEW j \in Json, NEW key, NEW old, NEW m \in BOOLEAN
  PROVE  Right(T, j, key, old, m, Add(T, j, key, old, m))
<1> DEFINE a == Add(T, j, key, old, m)
           child == GetChild(j, key)
           r == Map(T[2], child, old)
           there == Has(j, key) /\ IsObject(j[2][key])
           taken == [val |-> r.val, ok |-> r.ok, missing |-> FALSE, thrown |-> FALSE]
<1>1. a = IF Empty(child) THEN MandatoryCheck(old, m /\ ~there) ELSE IF r.thrown THEN Throws ELSE taken
  <2>1. a = AddSet(j, key, T[2], old, m)
    BY Zenon DEF Add
  <2> QED
    BY <2>1, Zenon DEF AddSet
<1>2. There(j, key, T) <=> there
  BY AcceptsKind DEF There
<1>3. Answer(taken) /\ ~taken.missing
  <2> HIDE DEF r
  <2> QED
    BY DEF Answer
<1>4. ~there => Empty(child)
  BY DEF GetChild, Empty
<1> HIDE DEF a, child, taken, r, there
<1>6. CASE there
  <2>1. Answer(a) /\ (a.thrown \/ ~a.missing)
    <3>1. CASE Empty(child)
      <4>1. a = MandatoryCheck(old, FALSE)
        BY <1>1, <1>6, <3>1
      <4> QED
        BY <4>1, AnswerParts
    <3>2. CASE ~Empty(child)
      BY <1>1, <1>3, <3>2, AnswerParts
    <3> QED
      BY <3>1, <3>2
  <2> QED
    BY <1>2, <1>6, <2>1, IsThere DEF a
<1>7. CASE ~there
  <2>1. a = MandatoryCheck(old, m)
    BY <1>1, <1>4, <1>7
  <2> QED
    BY <1>2, <1>7, <2>1, NotThere DEF a
<1> QED
  BY <1>6, <1>7

\* An optional.
LEMMA OptionalRight ==
  ASSUME Knot, NEW T, T[1] = "optional", T[2] \in ParamTypes, AddsRight(T[2]),
         NEW j \in Json, NEW key, NEW old, NEW m \in BOOLEAN, key # ""
  PROVE  Right(T, j, key, old, m, Add(T, j, key, old, m))
<1> DEFINE a == Add(T, j, key, old, m)
           r == AddParam(T[2], j, key, << >>, m)
           v == IF r.ok THEN <<r.val>> ELSE << >>
<1>1. a = [r EXCEPT !.val = v]
  BY Zenon DEF Add, AddOptional
<1>2. r = Add(T[2], j, key, << >>, m)
  <2>1. \A S \in ParamTypes : \A k, value, n : AddParam(S, j, k, value, n) = Add(S, j, k, value, n)
    BY Zenon DEF Knot
  <2> QED
    BY <2>1, Zenon
<1>3. There(j, key, T) <=> There(j, key, T[2])
  <2>1. \A w : Accepts(T, w) <=> AcceptsParam(T[2], w)
    BY Zenon DEF Accepts
  <2>2. \A w : AcceptsParam(T[2], w) <=> Accepts(T[2], w)
    BY DEF Knot
  <2> QED
    BY <2>1, <2>2 DEF There
<1> HIDE DEF r
<1>4. Right(T[2], j, key, << >>, m, r)
  BY <1>2 DEF AddsRight
<1>5. Answer(a) /\ a.val = v /\ (a.missing <=> r.missing) /\ (a.ok <=> r.ok) /\ (a.thrown <=> r.thrown)
  <2> HIDE DEF v, a
  <2> QED
    BY <1>1, <1>4, OtherValue DEF Right
<1> HIDE DEF a
<1>6. Right(T, j, key, old, m, a)
  BY <1>3, <1>4, <1>5 DEF Right
<1> QED
  BY <1>6 DEF a

\* A ConfigurableObject.
LEMMA ObjectRight ==
  ASSUME Knot, NEW T, T[1] = "object", IsSpec(T[2]), \A i \in 1..Len(T[2]) : AddsRight(T[2][i].type),
         NEW j \in Json, NEW key, NEW old, NEW m \in BOOLEAN
  PROVE  Right(T, j, key, old, m, Add(T, j, key, old, m))
<1> DEFINE a == Add(T, j, key, old, m)
           child == j[2][key]
           r == Map(T[2], child, old)
           Given(i) == T[2][i].mandatory => There(child, T[2][i].id, T[2][i].type)
<1>1. a = IF ~Has(j, key) THEN MandatoryCheck(old, m)
          ELSE IF r.thrown \/ r.ok THEN r ELSE MandatoryCheck(r.val, m)
  <2>1. a = AddObject(j, key, T[2], old, m)
    BY Zenon DEF Add
  <2> QED
    BY <2>1, Zenon DEF AddObject
<1>2. Accepts(T, child) <=> \A i \in 1..Len(T[2]) : Given(i)
  <2>1. DOMAIN T[2] = 1..Len(T[2])
    BY DEF IsSpec
  <2>2. Accepts(T, child) <=> \A i \in DOMAIN T[2] : T[2][i].mandatory => Has(child, T[2][i].id) /\ AcceptsParam(T[2][i].type, child[2][T[2][i].id])
    BY Zenon DEF Accepts
  <2>3. ASSUME NEW i \in 1..Len(T[2]), NEW w PROVE AcceptsParam(T[2][i].type, w) <=> Accepts(T[2][i].type, w)
    BY DEF Knot, IsSpec
  <2> QED
    BY <2>1, <2>2, <2>3 DEF There
<1>3. There(j, key, T) <=> Has(j, key) /\ \A i \in 1..Len(T[2]) : Given(i)
  BY <1>2 DEF There
<1>4. CASE ~Has(j, key)
  <2>1. a = MandatoryCheck(old, m) /\ ~There(j, key, T)
    BY <1>1, <1>3, <1>4
  <2> QED
    BY <2>1, NotThere
<1>5. CASE Has(j, key)
  <2>1. child \in Json
    BY <1>5, Below
  <2>2. ~r.thrown => (r.ok <=> \A i \in 1..Len(T[2]) : Given(i)) /\ (r.missing <=> ~r.ok)
    <3> HIDE DEF child
    <3> QED
      BY <2>1, MapRight, Zenon
  <2>3. Answer(r)
    BY MapsAnswer DEF IsSpec, Map
  <2> DEFINE there == There(j, key, T)
  <2>4. ~r.thrown => (r.ok <=> there) /\ (r.missing <=> ~r.ok)
    BY <1>3, <1>5, <2>2
  <2> HIDE DEF a, r, there
  <2>5. CASE r.thrown
    <3>1. Right(T, j, key, old, m, a)
      BY <1>1, <1>5, <2>3, <2>5 DEF Right
    <3> QED
      BY <3>1 DEF a
  <2>6. CASE ~r.thrown /\ there
    BY <1>1, <1>5, <2>3, <2>4, <2>6, IsThere DEF a, there
  <2>7. CASE ~r.thrown /\ ~there
    <3>1. a = MandatoryCheck(r.val, m)
      BY <1>1, <1>5, <2>4, <2>7
    <3> QED
      BY <2>7, <3>1, NotThere DEF a, there
  <2> QED
    BY <2>5, <2>6, <2>7
<1> QED
  BY <1>4, <1>5

\* Every type is added rightly if those of which it is made are.
LEMMA AddsRightStep ==
  ASSUME Knot, NEW T \in ParamTypes, \A S \in ParamTypes : Level[S] < Level[T] => AddsRight(S)
  PROVE  AddsRight(T)
<1> SUFFICES ASSUME NEW j \in Json, NEW m \in BOOLEAN, NEW key, NEW old, key # ""
             PROVE  Right(T, j, key, old, m, Add(T, j, key, old, m))
  BY DEF AddsRight
<1>1. Formed(T)
  BY MappingAssumption
<1>2. CASE T[1] \in PlainKinds
  BY <1>2, PlainRight
<1>3. CASE T[1] = "fixed"
  BY <1>3, FixedRight
<1>4. CASE T[1] = "dynamic"
  BY <1>4, DynamicRight
<1>5. CASE T[1] = "vector"
  BY <1>5, VectorRight
<1>6. CASE T[1] \in MapKinds
  BY <1>6, MapsRight
<1>7. CASE T[1] = "set" /\ IsSpec(T[2])
  BY <1>7, SetRight
<1>8. CASE T[1] = "optional" /\ T[2] \in ParamTypes /\ Level[T[2]] < Level[T]
  BY <1>8, OptionalRight
<1>9. CASE T[1] = "object" /\ IsSpec(T[2]) /\ \A i \in 1..Len(T[2]) : Level[T[2][i].type] < Level[T]
  <2>1. \A i \in 1..Len(T[2]) : AddsRight(T[2][i].type)
    BY <1>9 DEF IsSpec
  <2> QED
    BY <1>9, <2>1, ObjectRight
<1> QED
  BY <1>1, <1>2, <1>3, <1>4, <1>5, <1>6, <1>7, <1>8, <1>9 DEF Formed, PlainKinds, MapKinds

\* So all types are.
LEMMA AllAddsRight == ASSUME Knot PROVE \A T \in ParamTypes : AddsRight(T)
<1> DEFINE U == {n \in Nat : \A T \in ParamTypes : Level[T] < n => AddsRight(T)}
<1>1. 0 \in U
  BY MappingAssumption
<1>2. ASSUME NEW n \in Nat, n \in U PROVE n + 1 \in U
  <2> SUFFICES ASSUME NEW T \in ParamTypes, Level[T] < n + 1 PROVE AddsRight(T)
    OBVIOUS
  <2>1. Level[T] \in Nat /\ \A S \in ParamTypes : Level[S] \in Nat
    BY MappingAssumption
  <2>2. \A S \in ParamTypes : Level[S] < Level[T] => AddsRight(S)
    BY <1>2, <2>1
  <2> QED
    BY <2>2, AddsRightStep
<1>3. Nat \subseteq U
  <2> HIDE DEF U
  <2> QED
    BY <1>1, <1>2, SetInduction
<1> SUFFICES ASSUME NEW T \in ParamTypes PROVE AddsRight(T)
  OBVIOUS
<1>4. Level[T] \in Nat /\ Level[T] + 1 \in Nat /\ Level[T] < Level[T] + 1
  BY MappingAssumption
<1> QED
  BY <1>3, <1>4

\* So a parameter is.
LEMMA ParameterRight ==
  ASSUME Knot, NEW T \in ParamTypes, NEW j \in Json, NEW key, NEW old, NEW m \in BOOLEAN, key # ""
  PROVE  Right(T, j, key, old, m, AddParam(T, j, key, old, m))
<1>1. \A S \in ParamTypes : \A k, value, n : AddParam(S, j, k, value, n) = Add(S, j, k, value, n)
  BY Zenon DEF Knot
<1>2. AddParam(T, j, key, old, m) = Add(T, j, key, old, m)
  BY <1>1, Zenon
<1>3. AddsRight(T)
  BY AllAddsRight
<1> QED
  BY <1>2, <1>3 DEF AddsRight

\* Of a torn vector the part before the tear is read, and nothing if it is optional.
ReadToTear(T, w, a) ==
  a.thrown \/ /\ Torn(T, w) => EndsAtTear(a.val, w[2])
              /\ T[1] = "optional" /\ Torn(T[2], w) => a.val = << >>
LEMMA ParameterTorn ==
  ASSUME Knot, NEW T \in ParamTypes, NEW j \in Json, NEW key, NEW old, NEW m \in BOOLEAN, key # "",
         Has(j, key)
  PROVE  ReadToTear(T, j[2][key], AddParam(T, j, key, old, m))
<1> DEFINE a == AddParam(T, j, key, old, m)
<1>1. \A S \in ParamTypes : \A k, value, n : AddParam(S, j, k, value, n) = Add(S, j, k, value, n)
  BY Zenon DEF Knot
<1>2. a = Add(T, j, key, old, m)
  BY <1>1, Zenon
<1>3. ASSUME ~a.thrown, Torn(T, j[2][key]) PROVE EndsAtTear(a.val, j[2][key][2])
  <2> HIDE DEF a
  <2> QED
    BY <1>2, <1>3, VectorTorn
<1>4. ASSUME ~a.thrown, T[1] = "optional", Torn(T[2], j[2][key]) PROVE a.val = << >>
  <2> DEFINE r == AddParam(T[2], j, key, << >>, m)
             v == IF r.ok THEN <<r.val>> ELSE << >>
  <2>1. T[2] \in ParamTypes
    BY <1>4, MappingAssumption DEF Formed
  <2>2. r = Add(T[2], j, key, << >>, m)
    BY <1>1, <2>1, Zenon
  <2>3. a = [r EXCEPT !.val = v]
    BY <1>2, <1>4, Zenon DEF Add, AddOptional
  <2> HIDE DEF r, a
  <2>4. Answer(r) /\ (r.thrown \/ ~r.ok)
    BY <1>4, <2>2, VectorTorn
  <2>5. a.val = v /\ (a.thrown <=> r.thrown)
    <3> HIDE DEF v
    <3> QED
      BY <2>3, <2>4, OtherValue
  <2> QED
    BY <1>4, <2>4, <2>5
<1> QED
  BY <1>3, <1>4 DEF ReadToTear

-----------------------------------------------------------------------------
(* What createAggregation has to do *)

\* What may be in the plan.
Configurations == Json \cup {Unconfigured}
Entries == [isDefault : BOOLEAN, class : DOMAIN Class, conf : Configurations] \cup {Merging}

\* The recursive function in FlattenSeq exists.
LEMMA Flattening ==
  ASSUME NEW seqs, NEW n \in Nat
  PROVE  \E f : f = [i \in 1..n |-> IF i = 1 THEN seqs[i] ELSE f[i - 1] \o seqs[i]]
<1> DEFINE Flat(f, m) == f = [i \in 1..m |-> IF i = 1 THEN seqs[i] ELSE f[i - 1] \o seqs[i]]
           U == {m \in Nat : \E f : Flat(f, m)}
<1>1. 0 \in U
  <2> DEFINE f == [i \in 1..0 |-> << >>]
  <2>1. Flat(f, 0)
    OBVIOUS
  <2> QED
    BY <2>1
<1>2. ASSUME NEW m \in Nat, m \in U PROVE m + 1 \in U
  <2>1. PICK f : Flat(f, m)
    BY <1>2
  <2> DEFINE g == [i \in 1..(m + 1) |-> IF i <= m THEN f[i] ELSE IF i = 1 THEN seqs[i] ELSE f[m] \o seqs[i]]
  <2>2. ASSUME NEW i \in 1..(m + 1) PROVE g[i] = IF i = 1 THEN seqs[i] ELSE g[i - 1] \o seqs[i]
    <3>1. CASE i <= m
      <4>1. i \in 1..m /\ g[i] = f[i]
        BY <3>1
      <4>2. CASE i = 1
        BY <2>1, <4>1, <4>2
      <4>3. CASE i # 1
        <5>1. i - 1 \in 1..(m + 1) /\ i - 1 <= m
          BY <4>1, <4>3
        <5>2. g[i - 1] = f[i - 1]
          BY <5>1
        <5>3. f[i] = f[i - 1] \o seqs[i]
          BY <2>1, <4>1, <4>3
        <5> HIDE DEF g
        <5> QED
          BY <4>1, <4>3, <5>2, <5>3
      <4> QED
        BY <4>2, <4>3
    <3>2. CASE ~(i <= m)
      <4>1. i = m + 1 /\ i - 1 = m
        BY <3>2
      <4>2. CASE i = 1
        BY <3>2, <4>2
      <4>3. CASE i # 1
        <5>1. m \in 1..(m + 1) /\ m <= m
          BY <4>1, <4>3
        <5> QED
          BY <3>2, <4>1, <4>3, <5>1
      <4> QED
        BY <4>2, <4>3
    <3> QED
      BY <3>1, <3>2
  <2>3. g = [i \in 1..(m + 1) |-> g[i]]
    OBVIOUS
  <2> HIDE DEF g
  <2>4. Flat(g, m + 1)
    BY <2>2, <2>3
  <2> HIDE DEF Flat
  <2> QED
    BY <2>4
<1>3. n \in U
  <2> HIDE DEF U
  <2> QED
    BY <1>1, <1>2, SetInduction
<1> QED
  BY <1>3

\* A sequence of sequences becomes one sequence.
LEMMA FlattenSeqType ==
  ASSUME NEW S, NEW seqs \in Seq(Seq(S))
  PROVE  FlattenSeq(seqs) \in Seq(S)
<1> DEFINE n == Len(seqs)
           Flat(f) == f = [i \in 1..n |-> IF i = 1 THEN seqs[i] ELSE f[i - 1] \o seqs[i]]
           flatten == CHOOSE f : Flat(f)
<1>1. n \in Nat /\ \A i \in 1..n : seqs[i] \in Seq(S)
  BY LenProperties, ElementOfSeq
<1>2. CASE n = 0
  <2>1. seqs = << >>
    BY <1>2, EmptySeq
  <2> QED
    BY <1>2, <2>1 DEF FlattenSeq
<1>3. CASE n # 0
  <2>1. FlattenSeq(seqs) = flatten[n]
    BY <1>3, Zenon DEF FlattenSeq
  <2>2. Flat(flatten)
    <3>1. \E f : Flat(f)
      BY <1>1, Flattening
    <3> HIDE DEF Flat
    <3> QED
      BY <3>1, Zenon
  <2> HIDE DEF flatten
  <2> DEFINE U == {m \in Nat : m + 1 \in 1..n => flatten[m + 1] \in Seq(S)}
  <2>3. 0 \in U
    BY <1>1, <2>2
  <2>4. ASSUME NEW m \in Nat, m \in U PROVE m + 1 \in U
    <3> SUFFICES ASSUME m + 2 \in 1..n PROVE flatten[m + 2] \in Seq(S)
      OBVIOUS
    <3>1. flatten[m + 1] \in Seq(S)
      BY <1>1, <2>4
    <3>2. flatten[m + 2] = flatten[m + 1] \o seqs[m + 2]
      <4>1. (m + 2) - 1 = m + 1 /\ m + 2 # 1
        OBVIOUS
      <4> QED
        BY <2>2, <4>1
    <3> QED
      BY <1>1, <3>1, <3>2, ConcatProperties
  <2>5. n - 1 \in U
    <3>1. n - 1 \in Nat
      BY <1>1, <1>3
    <3> HIDE DEF U, n
    <3> QED
      BY <2>3, <2>4, <3>1, SetInduction
  <2> QED
    BY <1>1, <1>3, <2>1, <2>5
<1> QED
  BY <1>2, <1>3

\* What a configuration has under its keys.
LEMMA KeyFacts ==
  ASSUME NEW c \in Json, NEW S, \A n \in S : Has(c, n)
  PROVE  IsFiniteSet(S) /\ \A n \in S : c[2][n] \in Json
<1>1. CASE IsObject(c)
  <2>1. IsFiniteSet(DOMAIN c[2]) /\ \A n \in DOMAIN c[2] : c[2][n] \in Json
    BY <1>1, MappingAssumption DEF Closed, IsObject
  <2>2. S \subseteq DOMAIN c[2]
    BY DEF Has
  <2> QED
    BY <2>1, <2>2, FS_Subset
<1>2. CASE ~IsObject(c)
  <2>1. S = {}
    BY <1>2 DEF Has
  <2> QED
    BY <2>1, FS_EmptySet
<1> QED
  BY <1>1, <1>2

\* What Make gives is in the plan.
LEMMA EntryType ==
  ASSUME NEW isDefault \in BOOLEAN, NEW class \in DOMAIN Class, NEW c \in Configurations
  PROVE  Make(isDefault, class, c) \in Entries
BY DEF Entries, Make

\* What is made of the keys of a configuration.
LEMMA MadeType ==
  ASSUME NEW c \in Json, NEW S, S \subseteq DOMAIN Class, \A n \in S : Has(c, n)
  PROVE  [i \in DOMAIN SetToSeq(S) |-> Make(FALSE, SetToSeq(S)[i], c[2][SetToSeq(S)[i]])] \in Seq(Entries)
<1> DEFINE s == SetToSeq(S)
           plans == [i \in 1..Len(s) |-> Make(FALSE, s[i], c[2][s[i]])]
<1>1. Len(s) \in Nat /\ DOMAIN s = 1..Len(s) /\ \A i \in 1..Len(s) : s[i] \in S
  BY KeyFacts, SetToSeqFacts
<1>2. ASSUME NEW i \in 1..Len(s) PROVE Make(FALSE, s[i], c[2][s[i]]) \in Entries
  <2>1. s[i] \in DOMAIN Class /\ c[2][s[i]] \in Json
    BY <1>1, KeyFacts
  <2> HIDE DEF s
  <2> QED
    BY <2>1, EntryType DEF Configurations
<1> HIDE DEF s
<1>3. plans \in Seq(Entries)
  <2> DEFINE e(i) == Make(FALSE, s[i], c[2][s[i]])
  <2>1. \A i \in 1..Len(s) : e(i) \in Entries
    BY <1>2
  <2> HIDE DEF e
  <2>2. [i \in 1..Len(s) |-> e(i)] \in Seq(Entries)
    BY <1>1, <2>1, IsASeq
  <2> QED
    BY <2>2 DEF e
<1> QED
  BY <1>1, <1>3 DEF s

\* FromFactory gives entries of the plan.
LEMMA FromFactoryType ==
  ASSUME NEW f \in DOMAIN Factory, NEW c \in Json
  PROVE  FromFactory(f, c) \in Seq(Entries)
<1> DEFINE S == Known(f, c)
<1>1. S \subseteq DOMAIN Class
  BY StartupAssumption, SeqFacts DEF Known
<1>2. \A n \in S : Has(c, n)
  BY DEF Known, Has
<1> HIDE DEF S
<1>3. [i \in DOMAIN SetToSeq(S) |-> Make(FALSE, SetToSeq(S)[i], c[2][SetToSeq(S)[i]])] \in Seq(Entries)
  BY <1>1, <1>2, MadeType
<1>4. << >> \in Seq(Entries)
  OBVIOUS
<1> QED
  BY <1>3, <1>4, Zenon DEF FromFactory, S

\* So does the whole of createAggregation.
LEMMA PlanType == ASSUME conf \in Json PROVE CreateAggregation \in Seq(Entries)
<1> DEFINE Names == DOMAIN Class \cup DOMAIN Factory
<1>1. \A e \in Entries : <<e>> \in Seq(Entries)
  OBVIOUS
<1>2. << >> \in Seq(Entries)
  OBVIOUS
<1>3. ASSUME NEW name \in Names PROVE AddIfInConfig(name) \in Seq(Entries)
  <2> SUFFICES ASSUME Has(conf, name) PROVE AddIfInConfig(name) \in Seq(Entries)
    BY <1>2 DEF AddIfInConfig
  <2>1. conf[2][name] \in Json
    BY Below
  <2>2. CASE name \in DOMAIN Factory
    BY <2>1, <2>2, FromFactoryType DEF AddIfInConfig
  <2>3. CASE name \notin DOMAIN Factory
    <3> DEFINE e == Make(FALSE, name, conf[2][name])
    <3>1. AddIfInConfig(name) = <<e>>
      BY <2>3 DEF AddIfInConfig
    <3>2. e \in Entries
      BY <2>1, <2>3, EntryType DEF Configurations
    <3> HIDE DEF e
    <3> QED
      BY <1>1, <3>1, <3>2
  <2> QED
    BY <2>2, <2>3
<1>4. ASSUME NEW name \in Names PROVE AddIfNotInConfig(name) \in Seq(Entries)
  <2> SUFFICES ASSUME ~Has(conf, name) PROVE AddIfNotInConfig(name) \in Seq(Entries)
    BY <1>2 DEF AddIfNotInConfig
  <2> DEFINE class == IF name \in DOMAIN Factory THEN FactoryDefault(name) ELSE name
             e == Make(TRUE, class, Unconfigured)
  <2>1. AddIfNotInConfig(name) = <<e>>
    BY DEF AddIfNotInConfig
  <2>2. class \in DOMAIN Class
    <3>1. CASE name \in DOMAIN Factory
      <4>1. Factory[name].objects \in Seq(DOMAIN Class) /\ Factory[name].objects # << >>
        BY <3>1, StartupAssumption
      <4>2. Factory[name].objects[1] \in DOMAIN Class
        BY <4>1, EmptySeq
      <4> QED
        BY <3>1, <4>2 DEF FactoryDefault
    <3> QED
      BY <3>1
  <2>3. e \in Entries
    <3> HIDE DEF class
    <3> QED
      BY <2>2, EntryType DEF Configurations
  <2> HIDE DEF e
  <2> QED
    BY <1>1, <2>1, <2>3
<1>5. ASSUME NEW names \in Seq(Names)
      PROVE  /\ Each(names, AddIfInConfig) \in Seq(Entries)
             /\ Each(names, AddIfNotInConfig) \in Seq(Entries)
  <2>1. Len(names) \in Nat /\ DOMAIN names = 1..Len(names) /\ \A i \in 1..Len(names) : names[i] \in Names
    BY SeqFacts
  <2>2. [i \in 1..Len(names) |-> AddIfInConfig(names[i])] \in Seq(Seq(Entries))
    <3> DEFINE e(i) == AddIfInConfig(names[i])
    <3>1. \A i \in 1..Len(names) : e(i) \in Seq(Entries)
      BY <1>3, <2>1
    <3> HIDE DEF e
    <3>2. [i \in 1..Len(names) |-> e(i)] \in Seq(Seq(Entries))
      BY <2>1, <3>1, IsASeq
    <3> QED
      BY <3>2 DEF e
  <2>3. [i \in 1..Len(names) |-> AddIfNotInConfig(names[i])] \in Seq(Seq(Entries))
    <3> DEFINE e(i) == AddIfNotInConfig(names[i])
    <3>1. \A i \in 1..Len(names) : e(i) \in Seq(Entries)
      BY <1>4, <2>1
    <3> HIDE DEF e
    <3>2. [i \in 1..Len(names) |-> e(i)] \in Seq(Seq(Entries))
      BY <2>1, <3>1, IsASeq
    <3> QED
      BY <3>2 DEF e
  <2> QED
    BY <2>1, <2>2, <2>3, FlattenSeqType DEF Each
<1>6. PluginPlan \in Seq(Entries)
  <2>1. ASSUME NEW paths PROVE CreatePlugins(LoadPlugins(paths)) \in Seq(Entries)
    <3> DEFINE S == {c \in LoadPlugins(paths) : Has(conf, c)}
    <3>1. S \subseteq DOMAIN Class
      BY StartupAssumption DEF LoadPlugins
    <3>2. \A c \in S : Has(conf, c)
      OBVIOUS
    <3> HIDE DEF S
    <3>3. [i \in DOMAIN SetToSeq(S) |-> Make(FALSE, SetToSeq(S)[i], conf[2][SetToSeq(S)[i]])] \in Seq(Entries)
      BY <3>1, <3>2, MadeType
    <3> QED
      BY <3>3, Zenon DEF CreatePlugins, S
  <2>2. PluginPlan = << >> \/ \E paths : PluginPlan = CreatePlugins(LoadPlugins(paths))
    BY Zenon DEF PluginPlan
  <2> QED
    BY <1>2, <2>1, <2>2
<1>7. <<Merging>> \in Seq(Entries)
  BY <1>1 DEF Entries
<1> QED
  BY <1>5, <1>6, <1>7, StartupAssumption, ConcatProperties DEF CreateAggregation

-----------------------------------------------------------------------------
(* The invariant of the mapping *)

\* The parameters that are still to be read have their defaults.
PendingInv ==
  pending # NoObject =>
    /\ pending.class \in DOMAIN Class /\ pending.conf \in Configurations
    /\ pending = [class |-> pending.class, isDefault |-> pending.isDefault, conf |-> pending.conf,
                  i |-> pending.i, vals |-> pending.vals, ok |-> pending.ok]
    /\ pending.i \in 1..(Len(SpecOf) + 1)
    /\ pending.vals = [k \in 1..Len(SpecOf) |-> pending.vals[k]]
    /\ \A k \in pending.i..Len(SpecOf) : pending.vals[k] = SpecOf[k].default

MappingInv == conf \in Json /\ plan \in Seq(Entries) /\ PendingInv /\ MandatoryReported /\ KeepsDefault

\* At first nothing has been read.
LEMMA MappingInit == Init => MappingInv
<1> SUFFICES ASSUME Init PROVE MappingInv
  OBVIOUS
<1>1. conf \in Json
  BY MappingAssumption DEF Init
<1>2. plan \in Seq(Entries)
  BY <1>1, PlanType DEF Init
<1>3. pending = NoObject
  BY DEF Init
<1> QED
  BY <1>1, <1>2, <1>3 DEF MappingInv, PendingInv, MandatoryReported, KeepsDefault, Configuring

\* An object that is created has all its parameters to read.
LEMMA MappingCreate == ASSUME MappingInv, CreateObject PROVE MappingInv'
<1> DEFINE p == Head(plan)
           spec == Class[p.class].spec
<1>1. /\ conf' = conf /\ plan' = Tail(plan) /\ plan # << >> /\ p # Merging
      /\ pending' = [class |-> p.class, isDefault |-> p.isDefault, conf |-> p.conf, i |-> 1,
                     vals |-> Defaults(spec), ok |-> TRUE]
  BY DEF CreateObject, Creating
<1>2. conf \in Json /\ plan \in Seq(Entries)
  BY DEF MappingInv
<1>3. Tail(plan) \in Seq(Entries) /\ p \in Entries
  BY <1>1, <1>2, HeadTailProperties
<1>4. p.class \in DOMAIN Class /\ p.conf \in Configurations
  BY <1>1, <1>3 DEF Entries
<1>5. Len(spec) \in Nat /\ DOMAIN spec = 1..Len(spec)
  BY <1>4, MappingAssumption DEF IsSpec
<1>6. Defaults(spec) = [i \in 1..Len(spec) |-> spec[i].default]
  BY <1>5 DEF Defaults
<1> HIDE DEF p
<1>7. SpecOf' = spec
  BY <1>1 DEF SpecOf
<1> HIDE DEF spec
<1>8. PendingInv'
  <2>1. /\ pending'.class = p.class /\ pending'.conf = p.conf /\ pending'.i = 1
        /\ pending'.vals = Defaults(spec)
        /\ pending' = [class |-> pending'.class, isDefault |-> pending'.isDefault, conf |-> pending'.conf,
                       i |-> pending'.i, vals |-> pending'.vals, ok |-> pending'.ok]
    BY <1>1
  <2>2. 1 \in 1..(Len(spec) + 1)
    BY <1>5
  <2>3. \A k \in 1..Len(spec) : Defaults(spec)[k] = spec[k].default
    BY <1>6
  <2>4. Defaults(spec) = [k \in 1..Len(spec) |-> Defaults(spec)[k]]
    BY <1>6
  <2> QED
    BY <1>4, <1>7, <2>1, <2>2, <2>3, <2>4 DEF PendingInv
<1>9. MandatoryReported' /\ KeepsDefault'
  <2>1. pending'.i = 1 /\ pending'.ok
    BY <1>1
  <2>2. Read' = {}
    BY <2>1 DEF Read
  <2> QED
    BY <2>1, <2>2 DEF MandatoryReported, KeepsDefault
<1> QED
  BY <1>1, <1>2, <1>3, <1>8, <1>9 DEF MappingInv

\* A parameter is added rightly.
LEMMA MappingParameter == ASSUME Knot, MappingInv, MapParameter PROVE MappingInv'
<1> DEFINE n == pending.i
           p == SpecOf[n]
           old == pending.vals[n]
           r == AddParam(p.type, pending.conf, p.id, old, p.mandatory)
           size == Len(SpecOf)
<1>1. /\ conf' = conf /\ plan' = plan /\ pending # NoObject
      /\ pending.conf # Unconfigured /\ ~(n > size)
      /\ pending' = IF r.thrown THEN NoObject
                    ELSE [pending EXCEPT !.vals[n] = r.val, !.i = @ + 1, !.ok = @ /\ ~r.missing]
  BY Zenon DEF MapParameter, Mapped, SpecOf
<1>2. /\ conf \in Json /\ plan \in Seq(Entries)
      /\ pending.class \in DOMAIN Class /\ pending.conf \in Json
      /\ pending = [class |-> pending.class, isDefault |-> pending.isDefault, conf |-> pending.conf,
                    i |-> pending.i, vals |-> pending.vals, ok |-> pending.ok]
      /\ n \in 1..(size + 1)
      /\ pending.vals = [k \in 1..size |-> pending.vals[k]]
      /\ \A k \in n..size : pending.vals[k] = SpecOf[k].default
  BY <1>1 DEF MappingInv, PendingInv, Configurations
<1>3. IsSpec(SpecOf) /\ size \in Nat
  BY <1>2, MappingAssumption DEF SpecOf, IsSpec
<1>4. n \in 1..size /\ n \in n..size
  BY <1>1, <1>2, <1>3
<1>5. p.type \in ParamTypes /\ p.id # "" /\ p.mandatory \in BOOLEAN
  BY <1>3, <1>4 DEF IsSpec
<1>6. Right(p.type, pending.conf, p.id, old, p.mandatory, r)
  <2> HIDE DEF p, old
  <2> QED
    BY <1>2, <1>5, ParameterRight
<1>9. Has(pending.conf, p.id) => ReadToTear(p.type, pending.conf[2][p.id], r)
  <2> HIDE DEF p, old
  <2> QED
    BY <1>2, <1>5, ParameterTorn
<1>7. CASE r.thrown
  <2>1. pending' = NoObject
    BY <1>1, <1>7
  <2> QED
    BY <1>1, <1>2, <2>1 DEF MappingInv, PendingInv, MandatoryReported, KeepsDefault, Configuring
<1>8. CASE ~r.thrown
  <2> DEFINE new == [pending.vals EXCEPT ![n] = r.val]
             ok == pending.ok /\ ~r.missing
  <2>1. pending' = [class |-> pending.class, isDefault |-> pending.isDefault, conf |-> pending.conf,
                    i |-> n + 1, vals |-> new, ok |-> ok]
    <3> HIDE DEF r
    <3> QED
      BY <1>1, <1>2, <1>8
  <2>2. \A k \in 1..size : new[k] = IF k = n THEN r.val ELSE pending.vals[k]
    BY <1>2
  <2>3. new = [k \in 1..size |-> new[k]]
    BY <1>2
  <2> HIDE DEF new, ok, r
  <2>4. /\ pending'.class = pending.class /\ pending'.conf = pending.conf /\ pending'.i = n + 1
        /\ pending'.vals = new /\ (pending'.ok <=> ok)
        /\ pending' = [class |-> pending'.class, isDefault |-> pending'.isDefault, conf |-> pending'.conf,
                       i |-> pending'.i, vals |-> pending'.vals, ok |-> pending'.ok]
    BY <2>1
  <2>5. SpecOf' = SpecOf
    BY <2>4 DEF SpecOf
  <2>6. PendingInv'
    <3>1. n + 1 \in 1..(size + 1)
      BY <1>3, <1>4
    <3>2. \A k \in (n + 1)..size : new[k] = SpecOf[k].default
      <4> SUFFICES ASSUME NEW k \in (n + 1)..size PROVE new[k] = SpecOf[k].default
        OBVIOUS
      <4>1. k \in 1..size /\ k \in n..size /\ k # n
        BY <1>3, <1>4
      <4> HIDE DEF n, size
      <4> QED
        BY <1>2, <2>2, <4>1
    <3> HIDE DEF n
    <3> QED
      BY <1>2, <2>3, <2>4, <2>5, <3>1, <3>2 DEF PendingInv, Configurations
  <2>7. Read' = Read \cup {n} /\ n \notin Read /\ Read \subseteq 1..size
    BY <1>3, <1>4, <2>4 DEF Read
  <2>8. \A q : Accepted(q)' <=> Accepted(q)
    BY <2>4 DEF Accepted
  <2>9. Accepted(p) <=> There(pending.conf, p.id, p.type)
    BY DEF Accepted, There
  <2>10. Configuring /\ Configuring'
    <3>1. "ok" \in DOMAIN pending' /\ "ok" \notin DOMAIN NoObject
      BY <2>1 DEF NoObject
    <3> QED
      BY <1>1, <2>4, <3>1 DEF Configuring
  <2> DEFINE Given(k) == SpecOf[k].mandatory => Accepted(SpecOf[k])
  <2>11. MandatoryReported'
    <3>1. pending.ok <=> \A k \in Read : Given(k)
      BY <2>10 DEF MappingInv, MandatoryReported
    <3>2. r.missing <=> ~Given(n)
      BY <1>6, <1>8, <2>9 DEF Right
    <3>3. ok <=> \A k \in Read' : Given(k)
      <4> HIDE DEF Given
      <4> QED
        BY <2>7, <3>1, <3>2 DEF ok
    <3>4. \A k : Given(k)' <=> Given(k)
      BY <2>5, <2>8
    <3> HIDE DEF Given
    <3>5. pending'.ok <=> \A k \in Read' : Given(k)'
      BY <2>4, <3>3, <3>4
    <3> QED
      BY <3>5 DEF MandatoryReported, Given
  <2>12. KeepsDefault'
    <3> SUFFICES ASSUME NEW k \in Read'
                 PROVE  /\ ~Accepted(SpecOf[k]) /\ SpecOf[k].type[1] # "object" =>
                             new[k] = IF SpecOf[k].type[1] = "optional" THEN << >> ELSE SpecOf[k].default
                        /\ Has(pending.conf, SpecOf[k].id) =>
                             /\ Torn(SpecOf[k].type, pending.conf[2][SpecOf[k].id]) =>
                                  EndsAtTear(new[k], pending.conf[2][SpecOf[k].id][2])
                             /\ SpecOf[k].type[1] = "optional"
                                /\ Torn(SpecOf[k].type[2], pending.conf[2][SpecOf[k].id]) => new[k] = << >>
      BY <2>4, <2>5, <2>8 DEF KeepsDefault
    <3>1. CASE k = n
      <4>1. ~Accepted(p) /\ p.type[1] # "object" => r.val = IF p.type[1] = "optional" THEN << >> ELSE old
        BY <1>6, <1>8, <2>9 DEF Right
      <4>2. old = p.default /\ new[n] = r.val
        BY <1>2, <1>4, <2>2
      <4>3. Has(pending.conf, p.id) =>
              /\ Torn(p.type, pending.conf[2][p.id]) => EndsAtTear(r.val, pending.conf[2][p.id][2])
              /\ p.type[1] = "optional" /\ Torn(p.type[2], pending.conf[2][p.id]) => r.val = << >>
        BY <1>8, <1>9 DEF ReadToTear
      <4> QED
        BY <3>1, <4>1, <4>2, <4>3
    <3>2. CASE k # n
      <4>1. k \in Read /\ k \in 1..size
        BY <2>7, <3>2
      <4>2. new[k] = pending.vals[k]
        BY <2>2, <3>2, <4>1
      <4> QED
        BY <2>10, <4>1, <4>2 DEF MappingInv, KeepsDefault
    <3> QED
      BY <3>1, <3>2
  <2> QED
    BY <1>1, <1>2, <2>6, <2>11, <2>12 DEF MappingInv
<1> QED
  BY <1>7, <1>8

\* The other steps leave the parameters alone, or have read them all.
LEMMA MappingOther ==
  ASSUME MappingInv, conf' = conf, (plan' = plan) \/ (plan' = Tail(plan) /\ plan # << >>),
         (pending' = pending) \/ (pending' = NoObject)
  PROVE  MappingInv'
<1>1. conf' \in Json /\ plan' \in Seq(Entries)
  <2>1. plan # << >> => Tail(plan) \in Seq(Entries)
    BY HeadTailProperties DEF MappingInv
  <2> QED
    BY <2>1 DEF MappingInv
<1>2. CASE pending' = pending
  BY <1>1, <1>2 DEF MappingInv, PendingInv, MandatoryReported, KeepsDefault, Configuring, Read, SpecOf, Accepted
<1>3. CASE pending' = NoObject
  BY <1>1, <1>3 DEF MappingInv, PendingInv, MandatoryReported, KeepsDefault, Configuring
<1> QED
  BY <1>2, <1>3

\* Every step keeps it.
LEMMA MappingNext == ASSUME Knot PROVE MappingInv /\ [Next]_vars => MappingInv'
<1> SUFFICES ASSUME MappingInv, [Next]_vars PROVE MappingInv'
  OBVIOUS
<1>1. CASE CreateObject
  BY <1>1, MappingCreate
<1>2. CASE MapParameter
  BY <1>2, MappingParameter
<1>3. CASE AddObjectToAggregator
  BY <1>3, MappingOther DEF AddObjectToAggregator
<1>4. CASE MergeDefaults
  BY <1>4, MappingOther DEF MergeDefaults, Creating
<1>5. CASE Created \/ BeginStage \/ RunObject \/ EndStages \/ ClientClear
  BY <1>5, MappingOther DEF Created, BeginStage, RunObject, EndStages, ClientClear, made
<1>6. ASSUME NEW c \in ClientClasses, ClientAdd(c) \/ RunObjectAdding(c) PROVE MappingInv'
  BY <1>6, MappingOther DEF ClientAdd, RunObjectAdding, made
<1>7. ASSUME NEW o \in DOMAIN cls, ClientHold(o) \/ ClientRelease(o) \/ ClientAddHeld(o) PROVE MappingInv'
  BY <1>7, MappingOther DEF ClientHold, ClientRelease, ClientAddHeld, made
<1>8. CASE UNCHANGED vars
  BY <1>8, MappingOther DEF vars, made
<1> QED
  BY <1>1, <1>2, <1>3, <1>4, <1>5, <1>6, <1>7, <1>8 DEF Next

\* What the mapping relies on holds for every mapper whose types are finitely deep:
\* AddParam and AcceptsParam are then Add and Accepts, called again for the types within.
THEOREM MappingInvariantHolds == ASSUME Knot PROVE Spec => []MappingInv
BY MappingInit, MappingNext, PTL DEF Spec

\* configure() of every object created fails exactly if a mandatory parameter that it has
\* read is not in the file or is of another type, whatever types its parameters have and
\* whatever is in the file (PropertyMapper::mandatoryCheck).
THEOREM MandatoryReportedHolds == ASSUME Knot PROVE Spec => []MandatoryReported
<1>1. MappingInv => MandatoryReported
  BY DEF MappingInv
<1> QED
  BY <1>1, MappingInvariantHolds, PTL

\* A parameter that is not accepted keeps its default, an optional is then empty; of a
\* torn vector of vectors the part before the tear replaces the default
\* (PropertyMapper::add and addVector).
THEOREM KeepsDefaultHolds == ASSUME Knot PROVE Spec => []KeepsDefault
<1>1. MappingInv => KeepsDefault
  BY DEF MappingInv
<1> QED
  BY <1>1, MappingInvariantHolds, PTL
=============================================================================
