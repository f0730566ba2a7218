--------------------------- MODULE MicroSimProofs ---------------------------
(***************************************************************************)
(* Proofs about MicroSim, for any events, period, offsets, durations and   *)
(* end, with and without real time and other threads: no activation is     *)
(* lost, repeated or moved, nothing that was due is left behind, and what  *)
(* is due at one time is called in the order of insertion.                 *)
(***************************************************************************)
EXTENDS MicroSim, SequenceTheorems, FiniteSetTheorems, NatSetInduction, TLAPS

-----------------------------------------------------------------------------
(* The inductive invariant *)

Entry == [at : Nat, event : Events]

\* The multimap is in the order of its keys.
Sorted(es) == \A i, j \in 1..Len(es) : i < j => es[i].at <= es[j].at

\* Every event has at most one entry, and was scheduled.
EntriesInv ==
  /\ Sorted(events)
  /\ \A i, j \in 1..Len(events) : events[i].event = events[j].event => i = j
  /\ \A i \in 1..Len(events) : events[i].event \in scheduled

\* The activations that e has had, the one under way left out
Done(e) == IF e \in nextEvent THEN calls[e] - 1 ELSE calls[e]

\* An entry is for the activation after those that its event has had.
DueInv ==
  \A i \in 1..Len(events) : LET e == events[i].event IN
    /\ events[i].at = first[e] + Done(e) * Period
    /\ e \in OneShot => Done(e) = 0
    /\ e \notin late => now <= events[i].at

\* An event that nobody canceled, threw away or erased in place of another has an
\* entry, or has no period and was called; one that was not scheduled was not called.
KeptInv ==
  /\ \A e \in scheduled \ (isCanceled \cup dropped \cup lost) :
       \/ \E i \in 1..Len(events) : events[i].event = e
       \/ e \in OneShot /\ calls[e] = 1
  /\ \A e \in Events \ scheduled : calls[e] = 0

\* What simulate finds at its places: the entry of the event whose body is called is
\* the first, unless the schedule was cleared, and none is due when the loop has ended.
PlaceInv ==
  /\ \A e \in nextEvent :
       /\ nextEvent = {e} /\ calls[e] >= 1
       /\ now = first[e] + (calls[e] - 1) * Period
       /\ e \in OneShot => calls[e] = 1
       /\ \/ events # << >> /\ Head(events) = [at |-> now, event |-> e]
          \/ e \in dropped /\ \A i \in 1..Len(events) : events[i].event # e
  /\ pc = "end" => \A i \in 1..Len(events) : \/ events[i].at > endSim
                                             \/ events[i].event \in late

IInv == TypeOK /\ EntriesInv /\ DueInv /\ KeptInv /\ PlaceInv

-----------------------------------------------------------------------------
(* The multimap *)

\* A set of indices that has every smaller one with each is the first of them.
LEMMA InitialSegment ==
  ASSUME NEW n \in Nat, NEW P \in SUBSET (1..n),
         \A i \in P, j \in 1..n : j <= i => j \in P
  PROVE  Cardinality(P) \in 0..n /\ P = 1..Cardinality(P)
<1> DEFINE T == (1..(n + 1)) \ P
<1>1. T \subseteq Nat /\ n + 1 \in T
  OBVIOUS
<1>2. PICK m \in T : \A k \in T : m <= k
  <2> HIDE DEF T
  <2> QED
    BY <1>1, SmallestElement
<1>3. m \in 1..(n + 1) /\ m \notin P
  BY <1>2
<1>4. P = 1..(m - 1)
  <2>1. ASSUME NEW i \in 1..(m - 1) PROVE i \in P
    BY <1>2, <1>3, <2>1
  <2>2. ASSUME NEW i \in P PROVE i \in 1..(m - 1)
    BY <1>3, <2>2
  <2> QED
    BY <2>1, <2>2
<1>5. Cardinality(P) = m - 1
  BY <1>3, <1>4, FS_Interval
<1> QED
  BY <1>3, <1>4, <1>5

\* new has x at place k, and what es has before and behind it.
IsInsertion(new, es, x, k) ==
  /\ k \in 1..(Len(es) + 1)
  /\ Len(new) = Len(es) + 1
  /\ \A i \in 1..(k - 1) : new[i] = es[i]
  /\ new[k] = x
  /\ \A i \in (k + 1)..(Len(es) + 1) : new[i] = es[i - 1]

\* What InsertAt returns.
LEMMA InsertAtPlace ==
  ASSUME NEW S, NEW es \in Seq(S), NEW x \in S, NEW k \in 1..(Len(es) + 1)
  PROVE  InsertAt(es, k, x) \in Seq(S) /\ IsInsertion(InsertAt(es, k, x), es, x, k)
<1> DEFINE a == SubSeq(es, 1, k - 1)
           b == SubSeq(es, k, Len(es))
<1>1. Len(es) \in Nat /\ k \in Int /\ k - 1 \in Int /\ \A i \in 1..Len(es) : es[i] \in S
  BY LenProperties, ElementOfSeq
<1>2. /\ a \in Seq(S) /\ Len(a) = k - 1 /\ \A i \in 1..(k - 1) : a[i] = es[i]
  <2>1. \A i \in 1..(k - 1) : es[i] \in S
    BY <1>1
  <2>2. /\ a \in Seq(S) /\ Len(a) = (IF 1 <= k - 1 THEN (k - 1) - 1 + 1 ELSE 0)
        /\ \A i \in 1..((k - 1) - 1 + 1) : a[i] = es[1 + i - 1]
    BY <1>1, <2>1, SubSeqProperties
  <2> HIDE DEF a
  <2> QED
    BY <1>1, <2>2
<1>3. /\ b \in Seq(S) /\ Len(b) = Len(es) - k + 1
      /\ \A i \in 1..(Len(es) - k + 1) : b[i] = es[k + i - 1]
  <2>1. \A i \in k..Len(es) : es[i] \in S
    BY <1>1
  <2>2. /\ b \in Seq(S) /\ Len(b) = (IF k <= Len(es) THEN Len(es) - k + 1 ELSE 0)
        /\ \A i \in 1..(Len(es) - k + 1) : b[i] = es[k + i - 1]
    BY <1>1, <2>1, SubSeqProperties
  <2> HIDE DEF b
  <2> QED
    BY <1>1, <2>2
<1> DEFINE c == a \o <<x>>
           new == c \o b
<1>4. /\ c \in Seq(S) /\ Len(c) = k /\ \A i \in 1..k : c[i] = IF i <= k - 1 THEN es[i] ELSE x
  <2>1. <<x>> \in Seq(S) /\ Len(<<x>>) = 1 /\ <<x>>[1] = x
    OBVIOUS
  <2>2. /\ c \in Seq(S) /\ Len(c) = Len(a) + 1
        /\ \A i \in 1..(Len(a) + 1) : c[i] = IF i <= Len(a) THEN a[i] ELSE <<x>>[i - Len(a)]
    BY <1>2, <2>1, ConcatProperties
  <2> HIDE DEF a, c
  <2>3. ASSUME NEW i \in 1..k PROVE c[i] = IF i <= k - 1 THEN es[i] ELSE x
    <3>1. i \in 1..(Len(a) + 1) /\ Len(a) = k - 1
      BY <1>1, <1>2
    <3>2. CASE i <= k - 1
      BY <1>1, <1>2, <2>2, <3>1, <3>2
    <3>3. CASE ~(i <= k - 1)
      <4>1. i = k /\ i - Len(a) = 1 /\ ~(i <= Len(a))
        BY <1>1, <3>1, <3>3
      <4>2. c[i] = <<x>>[1]
        BY <2>2, <3>1, <4>1
      <4> QED
        BY <2>1, <3>3, <4>2
    <3> QED
      BY <3>2, <3>3
  <2>4. Len(c) = k
    BY <1>1, <1>2, <2>2
  <2> QED
    BY <2>2, <2>3, <2>4
<1>5. /\ new \in Seq(S) /\ Len(new) = Len(es) + 1
      /\ \A i \in 1..(Len(es) + 1) : new[i] = IF i <= k THEN c[i] ELSE b[i - k]
  <2>1. /\ new \in Seq(S) /\ Len(new) = Len(c) + Len(b)
        /\ \A i \in 1..(Len(c) + Len(b)) : new[i] = IF i <= Len(c) THEN c[i] ELSE b[i - Len(c)]
    <3>1. b \in Seq(S) /\ c \in Seq(S)
      BY <1>3, <1>4
    <3> HIDE DEF b, c
    <3> QED
      BY <3>1, ConcatProperties, Zenon
  <2> HIDE DEF b, c, new
  <2> QED
    BY <1>1, <1>3, <1>4, <2>1
<1>6. InsertAt(es, k, x) = new
  BY DEF InsertAt
<1> HIDE DEF a, b, c, new
<1>7. \A i \in 1..(k - 1) : new[i] = es[i]
  BY <1>1, <1>4, <1>5
<1>8. new[k] = x
  BY <1>1, <1>4, <1>5
<1>9. \A i \in (k + 1)..(Len(es) + 1) : new[i] = es[i - 1]
  <2> SUFFICES ASSUME NEW i \in (k + 1)..(Len(es) + 1) PROVE new[i] = es[i - 1]
    OBVIOUS
  <2>1. i - k \in 1..(Len(es) - k + 1) /\ k + (i - k) - 1 = i - 1 /\ i \in 1..(Len(es) + 1) /\ ~(i <= k)
    BY <1>1
  <2>2. new[i] = b[i - k] /\ b[i - k] = es[k + (i - k) - 1]
    BY <1>3, <1>5, <2>1
  <2> QED
    BY <2>1, <2>2
<1> QED
  BY <1>5, <1>6, <1>7, <1>8, <1>9 DEF IsInsertion

\* multimap::insert puts the new entry behind those that are due no later, and
\* before those that are due later.
LEMMA InsertedPlace ==
  ASSUME NEW es \in Seq(Entry), Sorted(es), NEW at \in Nat, NEW e \in Events
  PROVE  /\ Inserted(es, at, e) \in Seq(Entry)
         /\ \E k \in 1..(Len(es) + 1) :
              /\ IsInsertion(Inserted(es, at, e), es, [at |-> at, event |-> e], k)
              /\ \A i \in 1..(k - 1) : es[i].at <= at
              /\ \A i \in k..Len(es) : es[i].at > at
<1> DEFINE P == {i \in DOMAIN es : es[i].at <= at}
           n == Cardinality(P)
           x == [at |-> at, event |-> e]
<1>1. /\ Len(es) \in Nat /\ DOMAIN es = 1..Len(es)
      /\ \A i \in 1..Len(es) : es[i].at \in Nat
  <2>1. Len(es) \in Nat /\ DOMAIN es = 1..Len(es) /\ \A i \in 1..Len(es) : es[i] \in Entry
    BY LenProperties, ElementOfSeq
  <2> QED
    BY <2>1 DEF Entry
<1>2. n \in 0..Len(es) /\ P = 1..n
  <2>1. P \in SUBSET (1..Len(es))
    BY <1>1
  <2>2. \A i \in P, j \in 1..Len(es) : j <= i => j \in P
    BY <1>1 DEF Sorted
  <2> HIDE DEF P
  <2> QED
    BY <1>1, <2>1, <2>2, InitialSegment
<1>3. n + 1 \in 1..(Len(es) + 1) /\ x \in Entry
  BY <1>1, <1>2 DEF Entry
<1>4. Inserted(es, at, e) = InsertAt(es, n + 1, x)
  BY DEF Inserted
<1>5. Inserted(es, at, e) \in Seq(Entry) /\ IsInsertion(Inserted(es, at, e), es, x, n + 1)
  <2> DEFINE k == n + 1
  <2>1. k \in 1..(Len(es) + 1) /\ Inserted(es, at, e) = InsertAt(es, k, x)
    BY <1>3, <1>4
  <2> HIDE DEF n, x, P, k
  <2>2. InsertAt(es, k, x) \in Seq(Entry) /\ IsInsertion(InsertAt(es, k, x), es, x, k)
    BY <1>1, <1>3, <2>1, InsertAtPlace, Zenon
  <2> QED
    BY <2>1, <2>2 DEF k
<1>6. /\ \A i \in 1..Len(es) : i \in P <=> es[i].at <= at
      /\ \A i \in 1..Len(es) : i \in P <=> i <= n
  <2>1. \A i \in 1..Len(es) : i \in P <=> es[i].at <= at
    BY <1>1
  <2> HIDE DEF n, P
  <2> QED
    BY <1>1, <1>2, <2>1
<1>7. /\ \A i \in 1..n : es[i].at <= at
      /\ \A i \in (n + 1)..Len(es) : es[i].at > at
  <2> HIDE DEF n, P
  <2> QED
    BY <1>1, <1>2, <1>6
<1>8. IsInsertion(Inserted(es, at, e), es, [at |-> at, event |-> e], n + 1)
  BY <1>5
<1>9. (n + 1) - 1 = n
  BY <1>1, <1>2
<1> HIDE DEF n, x, P
<1> QED
  BY <1>3, <1>5, <1>7, <1>8, <1>9

\* Where the old entries are in the new multimap, and where the new ones come from.
LEMMA InsertionPlaces ==
  ASSUME NEW es, Len(es) \in Nat, NEW new, NEW x, NEW k, IsInsertion(new, es, x, k)
  PROVE  /\ \A j \in 1..Len(new) :
              j # k => LET i == IF j < k THEN j ELSE j - 1
                       IN i \in 1..Len(es) /\ new[j] = es[i]
         /\ \A i \in 1..Len(es) :
              LET j == IF i < k THEN i ELSE i + 1
              IN j \in 1..Len(new) /\ j # k /\ new[j] = es[i]
         /\ k \in 1..Len(new) /\ new[k] = x /\ Len(new) = Len(es) + 1
<1> USE DEF IsInsertion
<1>1. ASSUME NEW j \in 1..Len(new), j # k
      PROVE  LET i == IF j < k THEN j ELSE j - 1
             IN i \in 1..Len(es) /\ new[j] = es[i]
  <2>1. CASE j < k
    BY <1>1, <2>1
  <2>2. CASE ~(j < k)
    BY <1>1, <2>2
  <2> QED
    BY <2>1, <2>2
<1>2. ASSUME NEW i \in 1..Len(es)
      PROVE  LET j == IF i < k THEN i ELSE i + 1
             IN j \in 1..Len(new) /\ j # k /\ new[j] = es[i]
  <2>1. CASE i < k
    BY <2>1
  <2>2. CASE ~(i < k)
    <3>1. i + 1 \in (k + 1)..(Len(es) + 1) /\ (i + 1) - 1 = i
      BY <2>2
    <3>2. new[i + 1] = es[(i + 1) - 1]
      BY <3>1
    <3> QED
      BY <2>2, <3>1, <3>2
  <2> QED
    BY <2>1, <2>2
<1> QED
  BY <1>1, <1>2

\* The multimap stays in the order of its keys.
LEMMA InsertedSorted ==
  ASSUME NEW es \in Seq(Entry), Sorted(es), NEW at \in Nat, NEW e \in Events
  PROVE  Sorted(Inserted(es, at, e))
<1> DEFINE new == Inserted(es, at, e)
           x == [at |-> at, event |-> e]
<1>1. /\ Len(es) \in Nat /\ \A i \in 1..Len(es) : es[i] \in Entry
  BY LenProperties, ElementOfSeq
<1>2. PICK k \in 1..(Len(es) + 1) :
        /\ IsInsertion(new, es, x, k)
        /\ \A i \in 1..(k - 1) : es[i].at <= at
        /\ \A i \in k..Len(es) : es[i].at > at
  BY InsertedPlace
<1> HIDE DEF new
<1>3. \A i \in 1..Len(es) : es[i].at \in Nat
  BY <1>1 DEF Entry
<1>4. /\ \A j \in 1..Len(new) :
           j # k => LET i == IF j < k THEN j ELSE j - 1
                    IN i \in 1..Len(es) /\ new[j] = es[i]
      /\ k \in 1..Len(new) /\ new[k] = x /\ Len(new) = Len(es) + 1
  BY <1>1, <1>2, InsertionPlaces
<1>5. ASSUME NEW i \in 1..Len(new), NEW j \in 1..Len(new), i < j
      PROVE  new[i].at <= new[j].at
  <2>1. CASE i # k /\ j # k
    <3> DEFINE p == IF i < k THEN i ELSE i - 1
               q == IF j < k THEN j ELSE j - 1
    <3>1. /\ p \in 1..Len(es) /\ new[i] = es[p] /\ q \in 1..Len(es) /\ new[j] = es[q]
      BY <1>4, <2>1
    <3>2. p < q
      BY <1>2, <1>5, <2>1
    <3> HIDE DEF p, q
    <3> QED
      BY <3>1, <3>2 DEF Sorted
  <2>2. CASE i = k
    <3>1. /\ j - 1 \in k..Len(es) /\ new[j] = es[j - 1]
      BY <1>1, <1>2, <1>4, <1>5, <2>2
    <3> QED
      BY <1>2, <1>3, <1>4, <2>2, <3>1
  <2>3. CASE j = k
    <3>1. /\ i \in 1..(k - 1) /\ i \in 1..Len(es) /\ new[i] = es[i]
      BY <1>1, <1>2, <1>4, <1>5, <2>3
    <3> QED
      BY <1>2, <1>3, <1>4, <2>3, <3>1
  <2> QED
    BY <2>1, <2>2, <2>3
<1> QED
  BY <1>5 DEF Sorted, new

\* What Tail leaves.
LEMMA TailPlaces ==
  ASSUME NEW S, NEW es \in Seq(S), es # << >>
  PROVE  /\ Tail(es) \in Seq(S) /\ Len(Tail(es)) = Len(es) - 1 /\ Len(es) \in Nat /\ Len(es) >= 1
         /\ Head(es) = es[1]
         /\ \A i \in 1..(Len(es) - 1) : Tail(es)[i] = es[i + 1]
BY HeadTailProperties, EmptySeq, LenProperties

\* It leaves them in the order of their keys.
LEMMA TailSorted ==
  ASSUME NEW es \in Seq(Entry), es # << >>, Sorted(es)
  PROVE  Sorted(Tail(es))
<1>1. /\ Len(Tail(es)) = Len(es) - 1 /\ Len(es) \in Nat
      /\ \A i \in 1..(Len(es) - 1) : Tail(es)[i] = es[i + 1]
  BY TailPlaces
<1>2. ASSUME NEW i \in 1..(Len(es) - 1), NEW j \in 1..(Len(es) - 1), i < j
      PROVE  Tail(es)[i].at <= Tail(es)[j].at
  <2>1. i + 1 \in 1..Len(es) /\ j + 1 \in 1..Len(es) /\ i + 1 < j + 1
    BY <1>1, <1>2
  <2>2. es[i + 1].at <= es[j + 1].at
    BY <2>1 DEF Sorted
  <2> QED
    BY <1>1, <2>2
<1> QED
  BY <1>1, <1>2 DEF Sorted

\* What TypeOK says about the multimap.
LEMMA TypeFacts ==
  ASSUME TypeOK
  PROVE  /\ events \in Seq(Entry) /\ Len(events) \in Nat
         /\ \A i \in 1..Len(events) : /\ events[i] \in Entry /\ events[i].at \in Nat
                                      /\ events[i].event \in Events
                                      /\ events[i] = [at |-> events[i].at, event |-> events[i].event]
         /\ now \in Nat /\ endSim \in Nat /\ runs \in Nat
         /\ scheduled \subseteq Events /\ nextEvent \subseteq scheduled
         /\ first \in [Events -> Nat] /\ calls \in [Events -> Nat]
<1>1. events \in Seq(Entry)
  BY DEF TypeOK, Entry
<1>2. Len(events) \in Nat /\ \A i \in 1..Len(events) : events[i] \in Entry
  BY <1>1, LenProperties, ElementOfSeq
<1>3. now \in Nat /\ endSim \in Nat
  BY SimAssumption DEF TypeOK
<1> QED
  BY <1>1, <1>2, <1>3 DEF TypeOK, Entry

-----------------------------------------------------------------------------
(* The steps *)

\* The invariant holds at first.
LEMMA InitInv ==
  Init => IInv
<1> SUFFICES ASSUME Init PROVE IInv
  OBVIOUS
<1> USE SimAssumption DEF Init
<1>1. events \in Seq([at : Nat, event : Events]) /\ Len(events) = 0
  OBVIOUS
<1>2. TypeOK
  <2>1. now \in Nat /\ endSim \in 0 .. MaxTime /\ (pc = "idle" => now <= MaxTime)
    OBVIOUS
  <2>2. /\ pc \notin {"waiting", "step"} /\ pc # "body" /\ nextEvent = {}
        /\ pc \in {"idle", "loop", "waiting", "step", "body", "end", "undefined"}
    OBVIOUS
  <2>3. /\ isCanceled \subseteq scheduled /\ scheduled \subseteq Events
        /\ dropped \cup lost \cup late \subseteq scheduled /\ nextEvent \subseteq scheduled
    OBVIOUS
  <2>4. /\ first \in [Events -> Nat] /\ calls \in [Events -> Nat]
        /\ runs \in Nat /\ stopped \in BOOLEAN
    OBVIOUS
  <2> QED
    BY <1>1, <2>1, <2>2, <2>3, <2>4 DEF TypeOK
<1>3. EntriesInv /\ DueInv /\ KeptInv /\ PlaceInv
  BY <1>1 DEF EntriesInv, Sorted, DueInv, KeptInv, PlaceInv
<1> QED
  BY <1>2, <1>3 DEF IInv

\* A new event comes behind those that are due at its time, so that the one
\* whose body schedules it stays the first.
LEMMA ScheduleStep ==
  ASSUME IInv, NEW e \in Events, NEW o \in Offsets, Schedule(e, o)
  PROVE  IInv'
<1> USE SimAssumption
<1> DEFINE at == now + o
           x == [at |-> at, event |-> e]
<1>0. TypeOK /\ EntriesInv /\ DueInv /\ KeptInv /\ PlaceInv
  BY DEF IInv
<1>1. /\ events \in Seq(Entry) /\ Len(events) \in Nat
      /\ \A i \in 1..Len(events) : /\ events[i] \in Entry /\ events[i].at \in Nat
                                   /\ events[i].event \in Events
      /\ now \in Nat /\ endSim \in Nat
      /\ first \in [Events -> Nat] /\ calls \in [Events -> Nat]
  BY <1>0, TypeFacts
<1>2. /\ events' = Inserted(events, at, e) /\ e \notin scheduled
      /\ scheduled' = scheduled \cup {e} /\ first' = [first EXCEPT ![e] = at]
      /\ late \subseteq late' /\ (pc = "end" => e \in late') /\ late' \subseteq late \cup {e}
      /\ UNCHANGED <<now, isCanceled, stopped, pc, endSim, nextEvent, runs, dropped, lost, calls>>
      /\ pc # "step"
  BY DEF Schedule, sim, Callable, Unlocked
<1>3. at \in Nat /\ at >= now
  BY <1>1
<1>4. Sorted(events)
  BY <1>0 DEF EntriesInv
<1>5. events' \in Seq(Entry) /\ Sorted(events')
  BY <1>1, <1>2, <1>3, <1>4, InsertedPlace, InsertedSorted
<1>6. PICK k \in 1..(Len(events) + 1) :
        /\ IsInsertion(events', events, x, k)
        /\ \A i \in 1..(k - 1) : events[i].at <= at
        /\ \A i \in k..Len(events) : events[i].at > at
  BY <1>1, <1>2, <1>3, <1>4, InsertedPlace
<1> DEFINE Old(j) == IF j < k THEN j ELSE j - 1
           New(i) == IF i < k THEN i ELSE i + 1
<1>7. /\ \A j \in 1..Len(events') : j # k => Old(j) \in 1..Len(events) /\ events'[j] = events[Old(j)]
      /\ \A i \in 1..Len(events) : New(i) \in 1..Len(events') /\ events'[New(i)] = events[i]
      /\ k \in 1..Len(events') /\ events'[k] = x /\ Len(events') = Len(events) + 1
  BY <1>1, <1>6, InsertionPlaces
<1>8. /\ \A i \in 1..Len(events) : events[i].event # e
      /\ \A i, j \in 1..Len(events) : events[i].event = events[j].event => i = j
      /\ \A i \in 1..Len(events) : events[i].event \in scheduled
  BY <1>0, <1>2 DEF EntriesInv
<1>9. x.at = at /\ x.event = e
  OBVIOUS
<1> HIDE DEF at, x
<1>10. TypeOK'
  <2>1. first' \in [Events -> Nat]
    BY <1>1, <1>2, <1>3
  <2>2. dropped \cup lost \cup late \subseteq scheduled /\ isCanceled \subseteq scheduled
    BY <1>0 DEF TypeOK
  <2>3. events' \in Seq([at : Nat, event : Events])
    BY <1>5 DEF Entry
  <2> QED
    BY <1>0, <1>2, <2>1, <2>2, <2>3 DEF TypeOK
<1>11. EntriesInv'
  <2>1. ASSUME NEW i \in 1..Len(events'), NEW j \in 1..Len(events'), events'[i].event = events'[j].event
        PROVE  i = j
    <3>1. CASE i # k /\ j # k
      <4>1. /\ Old(i) \in 1..Len(events) /\ events'[i] = events[Old(i)]
            /\ Old(j) \in 1..Len(events) /\ events'[j] = events[Old(j)]
        BY <1>7, <2>1, <3>1
      <4>2. Old(i) = Old(j)
        <5> HIDE DEF Old
        <5> QED
          BY <1>8, <2>1, <4>1
      <4>3. i \in Int /\ j \in Int /\ k \in Int
        BY <1>1, <1>7
      <4> QED
        BY <3>1, <4>2, <4>3
    <3>2. ASSUME NEW p \in 1..Len(events'), p # k PROVE events'[p].event # e
      <4>1. Old(p) \in 1..Len(events) /\ events'[p] = events[Old(p)]
        BY <1>7, <3>2
      <4> HIDE DEF Old
      <4> QED
        BY <1>8, <4>1
    <3>3. CASE i = k \/ j = k
      <4>1. events'[k].event = e
        BY <1>7, <1>9
      <4> QED
        BY <2>1, <3>2, <3>3, <4>1
    <3> QED
      BY <3>1, <3>3
  <2>3. ASSUME NEW i \in 1..Len(events') PROVE events'[i].event \in scheduled'
    <3>1. CASE i = k
      BY <1>2, <1>7, <1>9, <3>1
    <3>2. CASE i # k
      <4>1. Old(i) \in 1..Len(events) /\ events'[i] = events[Old(i)]
        BY <1>7, <2>3, <3>2
      <4> HIDE DEF Old
      <4> QED
        BY <1>2, <1>8, <4>1
    <3> QED
      BY <3>1, <3>2
  <2> QED
    BY <1>5, <2>1, <2>3 DEF EntriesInv
<1>12. DueInv'
  <2>1. ASSUME NEW j \in 1..Len(events'), NEW f, f = events'[j].event
        PROVE  /\ events'[j].at = first'[f] + Done(f)' * Period
               /\ f \in OneShot => Done(f)' = 0
               /\ f \notin late' => now' <= events'[j].at
    <3>1. Done(f)' = Done(f)
      BY <1>2 DEF Done
    <3>2. CASE j = k
      <4>1. f = e /\ events'[j].at = at
        BY <1>7, <1>9, <2>1, <3>2
      <4>2. calls[e] = 0 /\ e \notin nextEvent
        BY <1>0, <1>2, TypeFacts DEF KeptInv
      <4>3. Done(f) = 0
        BY <4>1, <4>2 DEF Done
      <4>4. 0 * Period = 0 /\ first'[e] = at
        BY <1>1, <1>2
      <4> QED
        BY <1>2, <1>3, <3>1, <4>1, <4>3, <4>4
    <3>3. CASE j # k
      <4>1. Old(j) \in 1..Len(events) /\ events'[j] = events[Old(j)] /\ f = events[Old(j)].event
        BY <1>7, <2>1, <3>3
      <4>2. f # e /\ first'[f] = first[f]
        BY <1>1, <1>2, <1>8, <4>1
      <4>3. /\ events[Old(j)].at = first[f] + Done(f) * Period
            /\ f \in OneShot => Done(f) = 0
            /\ f \notin late => now <= events[Old(j)].at
        BY <1>0, <4>1 DEF DueInv
      <4> QED
        BY <1>2, <3>1, <4>1, <4>2, <4>3
    <3> QED
      BY <3>2, <3>3
  <2> QED
    BY <2>1 DEF DueInv
<1>13. KeptInv'
  <2>1. ASSUME NEW f \in scheduled' \ (isCanceled' \cup dropped' \cup lost')
        PROVE  \/ \E i \in 1..Len(events') : events'[i].event = f
               \/ f \in OneShot /\ calls'[f] = 1
    <3>1. CASE f = e
      BY <1>7, <1>9, <3>1
    <3>2. CASE f # e
      <4>1. \/ \E i \in 1..Len(events) : events[i].event = f
            \/ f \in OneShot /\ calls[f] = 1
        BY <1>0, <1>2, <2>1, <3>2 DEF KeptInv
      <4>2. CASE \E i \in 1..Len(events) : events[i].event = f
        <5>1. PICK i \in 1..Len(events) : events[i].event = f
          BY <4>2
        <5>2. New(i) \in 1..Len(events') /\ events'[New(i)].event = f
          BY <1>7, <5>1
        <5> QED
          BY <5>2
      <4> QED
        BY <1>2, <4>1, <4>2
    <3> QED
      BY <3>1, <3>2
  <2>2. \A f \in Events \ scheduled' : calls'[f] = 0
    BY <1>0, <1>2 DEF KeptInv
  <2> QED
    BY <2>1, <2>2 DEF KeptInv
<1>14. PlaceInv'
  <2>1. events # << >> => /\ Len(events) >= 1 /\ Head(events) = events[1]
    BY <1>1, TailPlaces
  <2>2. events' # << >> /\ Head(events') = events'[1] /\ Len(events') >= 1
    <3>1. Len(<< >>) = 0
      BY EmptySeq
    <3>2. events' # << >>
      BY <1>1, <1>7, <3>1
    <3> QED
      BY <1>5, <3>2, TailPlaces
  <2>3. ASSUME NEW f \in nextEvent, Head(events) = [at |-> now, event |-> f], events # << >>
        PROVE  Head(events') = [at |-> now', event |-> f]
    <3>1. events[1] = [at |-> now, event |-> f] /\ Len(events) >= 1
      BY <2>1, <2>3
    <3>2. events[1].at = now /\ 1 \in 1..Len(events)
      BY <1>1, <3>1
    <3>3. k # 1
      <4>1. CASE k = 1
        <5>1. 1 \in k..Len(events)
          BY <1>1, <3>2, <4>1
        <5>2. events[1].at > at
          BY <1>6, <5>1
        <5> QED
          BY <1>1, <1>3, <3>2, <5>2
      <4> QED
        BY <4>1
    <3>4. events'[1] = events[1]
      BY <1>6, <1>7, <3>3
    <3> QED
      BY <1>2, <2>1, <2>2, <2>3, <3>4
  <2>4. ASSUME NEW f \in nextEvent'
        PROVE  /\ nextEvent' = {f} /\ calls'[f] >= 1
               /\ now' = first'[f] + (calls'[f] - 1) * Period
               /\ f \in OneShot => calls'[f] = 1
               /\ \/ events' # << >> /\ Head(events') = [at |-> now', event |-> f]
                  \/ f \in dropped' /\ \A i \in 1..Len(events') : events'[i].event # f
    <3>1. /\ nextEvent = {f} /\ calls[f] >= 1 /\ f \in nextEvent
          /\ now = first[f] + (calls[f] - 1) * Period
          /\ f \in OneShot => calls[f] = 1
          /\ \/ events # << >> /\ Head(events) = [at |-> now, event |-> f]
             \/ f \in dropped /\ \A i \in 1..Len(events) : events[i].event # f
      BY <1>0, <1>2, <2>4 DEF PlaceInv
    <3>2. f # e /\ f \in Events /\ first'[f] = first[f]
      BY <1>0, <1>1, <1>2, <3>1 DEF TypeOK
    <3>3. CASE events # << >> /\ Head(events) = [at |-> now, event |-> f]
      BY <1>2, <2>2, <2>3, <3>1, <3>2, <3>3
    <3>4. CASE f \in dropped /\ \A i \in 1..Len(events) : events[i].event # f
      <4>1. \A i \in 1..Len(events') : events'[i].event # f
        <5> SUFFICES ASSUME NEW i \in 1..Len(events') PROVE events'[i].event # f
          OBVIOUS
        <5>1. CASE i = k
          BY <1>7, <1>9, <3>2, <5>1
        <5>2. CASE i # k
          <6> HIDE DEF Old
          <6> QED
            BY <1>7, <3>4, <5>2
        <5> QED
          BY <5>1, <5>2
      <4> QED
        BY <1>2, <3>1, <3>2, <3>4, <4>1
    <3> QED
      BY <3>1, <3>3, <3>4
  <2>5. ASSUME pc' = "end", NEW j \in 1..Len(events')
        PROVE  events'[j].at > endSim' \/ events'[j].event \in late'
    <3>1. CASE j = k
      BY <1>2, <1>7, <1>9, <2>5, <3>1
    <3>2. CASE j # k
      BY <1>0, <1>2, <1>7, <2>5, <3>2 DEF PlaceInv
    <3> QED
      BY <3>1, <3>2
  <2> QED
    BY <2>4, <2>5 DEF PlaceInv
<1> QED
  BY <1>10, <1>11, <1>12, <1>13, <1>14 DEF IInv

\* What clearSchedule() throws away is in dropped afterwards, the event whose body
\* calls it included.
LEMMA ClearScheduleStep ==
  ASSUME IInv, ClearSchedule
  PROVE  IInv'
<1>0. TypeOK /\ EntriesInv /\ DueInv /\ KeptInv /\ PlaceInv
  BY DEF IInv
<1>1. /\ events' = << >> /\ dropped' = dropped \cup {y.event : y \in ToSet(events)}
      /\ UNCHANGED <<now, isCanceled, stopped, pc, endSim, nextEvent, runs, first, scheduled, lost, late,
                     calls>>
  BY DEF ClearSchedule, sim
<1>2. Len(events) \in Nat /\ DOMAIN events = 1..Len(events)
  BY <1>0, TypeFacts, LenProperties
<1>3. dropped' = dropped \cup {events[i].event : i \in 1..Len(events)}
  BY <1>1, <1>2 DEF ToSet
<1>4. Len(events') = 0 /\ events' \in Seq([at : Nat, event : Events])
  BY <1>1, EmptySeq
<1>5. TypeOK'
  <2>1. {events[i].event : i \in 1..Len(events)} \subseteq scheduled
    BY <1>0 DEF EntriesInv
  <2>2. dropped' \cup lost' \cup late' \subseteq scheduled'
    BY <1>0, <1>1, <1>3, <2>1 DEF TypeOK
  <2> QED
    BY <1>0, <1>1, <1>4, <2>2 DEF TypeOK
<1>6. EntriesInv' /\ DueInv'
  BY <1>4 DEF EntriesInv, Sorted, DueInv
<1>7. KeptInv'
  BY <1>0, <1>1, <1>3 DEF KeptInv
<1>8. PlaceInv'
  <2>1. ASSUME NEW e \in nextEvent PROVE e \in dropped'
    <3>1. \/ events # << >> /\ Head(events) = [at |-> now, event |-> e]
          \/ e \in dropped
      BY <1>0, <2>1 DEF PlaceInv
    <3>2. CASE events # << >> /\ Head(events) = [at |-> now, event |-> e]
      <4>1. events \in Seq(Entry)
        BY <1>0, TypeFacts
      <4>2. 1 \in 1..Len(events) /\ events[1] = Head(events)
        BY <1>2, <3>2, <4>1, TailPlaces
      <4>3. events[1].event = e
        BY <3>2, <4>2
      <4> QED
        BY <1>3, <4>2, <4>3
    <3> QED
      BY <1>1, <3>1, <3>2
  <2>2. 1..Len(events') = {}
    BY <1>4
  <2> QED
    BY <1>0, <1>1, <2>1, <2>2 DEF PlaceInv
<1> QED
  BY <1>5, <1>6, <1>7, <1>8 DEF IInv

\* The time becomes that of the first entry, which no other precedes.  Only the
\* entry of a canceled event is erased.
LEMMA TakeNextStep ==
  ASSUME IInv, TakeNext
  PROVE  IInv'
<1> USE SimAssumption
<1> DEFINE e == Head(events).event
<1>0. TypeOK /\ EntriesInv /\ DueInv /\ KeptInv /\ PlaceInv
  BY DEF IInv
<1>1. /\ events \in Seq(Entry) /\ Len(events) \in Nat
      /\ \A i \in 1..Len(events) : /\ events[i].at \in Nat /\ events[i].event \in Events
                                   /\ events[i] = [at |-> events[i].at, event |-> events[i].event]
      /\ now \in Nat /\ endSim \in Nat
      /\ first \in [Events -> Nat] /\ calls \in [Events -> Nat]
  BY <1>0, TypeFacts
<1>2. /\ pc = "step" /\ now' = Head(events).at
      /\ UNCHANGED <<isCanceled, stopped, endSim, runs, first, scheduled, dropped, lost>>
      /\ events # << >>
  BY DEF TakeNext
<1>3. nextEvent = {}
  BY <1>0, <1>2 DEF TypeOK
<1>4. /\ Tail(events) \in Seq(Entry) /\ Len(Tail(events)) = Len(events) - 1 /\ Len(events) >= 1
      /\ Head(events) = events[1] /\ 1 \in 1..Len(events)
      /\ \A i \in 1..(Len(events) - 1) : Tail(events)[i] = events[i + 1]
  BY <1>1, <1>2, TailPlaces
<1>5. /\ now' = events[1].at /\ now' \in Nat
      /\ e = events[1].event /\ e \in Events /\ e \in scheduled
  BY <1>0, <1>1, <1>2, <1>3, <1>4 DEF EntriesInv
<1>6. \A i \in 1..Len(events) : now' <= events[i].at
  <2> SUFFICES ASSUME NEW i \in 1..Len(events) PROVE now' <= events[i].at
    OBVIOUS
  <2>1. CASE i = 1
    BY <1>5, <2>1
  <2>2. CASE i # 1
    <3>1. 1 < i
      BY <1>1, <2>2
    <3> QED
      BY <1>0, <1>4, <1>5, <3>1 DEF EntriesInv, Sorted
  <2> QED
    BY <2>1, <2>2
<1>8. CASE e \in isCanceled
  <2>1. /\ events' = Tail(events) /\ pc' = "loop" /\ UNCHANGED <<nextEvent, late, calls>>
    BY <1>8 DEF TakeNext
  <2>2. /\ events' \in Seq(Entry) /\ Len(events') = Len(events) - 1
        /\ \A i \in 1..Len(events') : i + 1 \in 1..Len(events) /\ events'[i] = events[i + 1]
    BY <1>1, <1>4, <2>1
  <2> HIDE DEF e
  <2>3. TypeOK'
    <3>1. events' \in Seq([at : Nat, event : Events])
      BY <2>2 DEF Entry
    <3> QED
      BY <1>0, <1>2, <1>3, <1>5, <2>1, <3>1 DEF TypeOK
  <2>4. EntriesInv'
    <3>1. Sorted(events')
      BY <1>0, <1>1, <1>2, <2>1, TailSorted DEF EntriesInv
    <3>2. \A i, j \in 1..Len(events') : events'[i].event = events'[j].event => i = j
      <4> SUFFICES ASSUME NEW i \in 1..Len(events'), NEW j \in 1..Len(events'),
                          events'[i].event = events'[j].event
                   PROVE  i = j
        OBVIOUS
      <4>1. i + 1 = j + 1
        BY <1>0, <2>2 DEF EntriesInv
      <4> QED
        BY <4>1
    <3>3. \A i \in 1..Len(events') : events'[i].event \in scheduled'
      BY <1>0, <1>2, <2>2 DEF EntriesInv
    <3> QED
      BY <3>1, <3>2, <3>3 DEF EntriesInv
  <2>5. DueInv'
    <3>1. \A f : Done(f)' = Done(f)
      BY <2>1 DEF Done
    <3>2. ASSUME NEW i \in 1..Len(events'), NEW f, f = events'[i].event
          PROVE  /\ events'[i].at = first'[f] + Done(f)' * Period
                 /\ f \in OneShot => Done(f)' = 0
                 /\ f \notin late' => now' <= events'[i].at
      <4>1. i + 1 \in 1..Len(events) /\ events'[i] = events[i + 1]
        BY <2>2
      <4>2. /\ events[i + 1].at = first[f] + Done(f) * Period
            /\ f \in OneShot => Done(f) = 0
        BY <1>0, <3>2, <4>1 DEF DueInv
      <4> QED
        BY <1>2, <1>6, <3>1, <4>1, <4>2
    <3> QED
      BY <3>2 DEF DueInv
  <2>6. KeptInv'
    <3>1. ASSUME NEW f \in scheduled' \ (isCanceled' \cup dropped' \cup lost')
          PROVE  \/ \E i \in 1..Len(events') : events'[i].event = f
                 \/ f \in OneShot /\ calls'[f] = 1
      <4>1. \/ \E i \in 1..Len(events) : events[i].event = f
            \/ f \in OneShot /\ calls[f] = 1
        BY <1>0, <1>2, <3>1 DEF KeptInv
      <4>2. CASE \E i \in 1..Len(events) : events[i].event = f
        <5>1. PICK i \in 1..Len(events) : events[i].event = f
          BY <4>2
        <5>2. i # 1
          BY <1>2, <1>5, <1>8, <3>1, <5>1
        <5>3. i - 1 \in 1..Len(events') /\ (i - 1) + 1 = i
          BY <1>1, <2>2, <5>2
        <5>4. events'[i - 1] = events[i]
          BY <2>2, <5>3
        <5> QED
          BY <5>1, <5>3, <5>4
      <4> QED
        BY <2>1, <4>1, <4>2
    <3>2. \A f \in Events \ scheduled' : calls'[f] = 0
      BY <1>0, <1>2, <2>1 DEF KeptInv
    <3> QED
      BY <3>1, <3>2 DEF KeptInv
  <2>7. PlaceInv'
    BY <1>3, <2>1 DEF PlaceInv
  <2> QED
    BY <2>3, <2>4, <2>5, <2>6, <2>7 DEF IInv
<1>9. CASE e \notin isCanceled
  <2>1. /\ events' = events /\ pc' = "body" /\ nextEvent' = {e} /\ late' = late \ {e}
        /\ calls' = [calls EXCEPT ![e] = @ + 1]
    BY <1>9 DEF TakeNext
  <2> HIDE DEF e
  <2>2. /\ calls' \in [Events -> Nat] /\ calls'[e] = calls[e] + 1 /\ calls[e] \in Nat
        /\ \A f \in Events : f # e => calls'[f] = calls[f]
    BY <1>1, <1>5, <2>1
  <2>3. TypeOK'
    BY <1>0, <1>2, <1>5, <2>1, <2>2 DEF TypeOK
  <2>4. EntriesInv'
    BY <1>0, <1>2, <2>1 DEF EntriesInv
  <2>5. DueInv'
    <3>1. \A f \in Events : Done(f)' = Done(f)
      <4> SUFFICES ASSUME NEW f \in Events PROVE Done(f)' = Done(f)
        OBVIOUS
      <4>1. CASE f = e
        BY <1>3, <2>1, <2>2, <4>1 DEF Done
      <4>2. CASE f # e
        BY <1>3, <2>1, <2>2, <4>2 DEF Done
      <4> QED
        BY <4>1, <4>2
    <3>2. ASSUME NEW i \in 1..Len(events'), NEW f, f = events'[i].event
          PROVE  /\ events'[i].at = first'[f] + Done(f)' * Period
                 /\ f \in OneShot => Done(f)' = 0
                 /\ f \notin late' => now' <= events'[i].at
      <4>1. /\ events[i].at = first[f] + Done(f) * Period
            /\ f \in OneShot => Done(f) = 0
        BY <1>0, <2>1, <3>2 DEF DueInv
      <4>2. i \in 1..Len(events) /\ f \in Events
        BY <1>1, <2>1, <3>2
      <4> QED
        BY <1>2, <1>6, <2>1, <3>1, <4>1, <4>2
    <3> QED
      BY <3>2 DEF DueInv
  <2>6. KeptInv'
    <3>1. ASSUME NEW f \in scheduled' \ (isCanceled' \cup dropped' \cup lost')
          PROVE  \/ \E i \in 1..Len(events') : events'[i].event = f
                 \/ f \in OneShot /\ calls'[f] = 1
      <4>1. CASE f = e
        BY <1>4, <1>5, <2>1, <4>1
      <4>2. CASE f # e
        <5>1. f \in Events
          BY <1>0, <1>2, <3>1 DEF TypeOK
        <5> QED
          BY <1>0, <1>2, <2>1, <2>2, <3>1, <4>2, <5>1 DEF KeptInv
      <4> QED
        BY <4>1, <4>2
    <3>2. \A f \in Events \ scheduled' : calls'[f] = 0
      BY <1>0, <1>2, <1>5, <2>2 DEF KeptInv
    <3> QED
      BY <3>1, <3>2 DEF KeptInv
  <2>7. PlaceInv'
    <3>1. Head(events) = [at |-> now', event |-> e]
      BY <1>1, <1>4, <1>5
    <3>2. Done(e) = calls[e]
      BY <1>3 DEF Done
    <3>3. now' = first[e] + calls[e] * Period /\ (e \in OneShot => calls[e] = 0)
      BY <1>0, <1>4, <1>5, <3>2 DEF DueInv
    <3>4. calls'[e] - 1 = calls[e] /\ calls'[e] >= 1 /\ (e \in OneShot => calls'[e] = 1)
      BY <2>2, <3>3
    <3> QED
      BY <1>2, <1>3, <2>1, <3>1, <3>3, <3>4 DEF PlaceInv
  <2> QED
    BY <2>3, <2>4, <2>5, <2>6, <2>7 DEF IInv
<1> QED
  BY <1>8, <1>9

\* What simulate erases is the entry of an event that was scheduled.
LEMMA ErasedScheduled ==
  ASSUME IInv, NEW e \in Events, BodyReturns(e)
  PROVE  Head(PutBack(e)).event \in scheduled /\ lost \subseteq lost' /\ lost' \subseteq scheduled
<1> USE SimAssumption
<1> DEFINE x == [at |-> now + Period, event |-> e]
<1>1. /\ events \in Seq(Entry) /\ Len(events) \in Nat /\ now + Period \in Nat
      /\ \A i \in 1..Len(events) : events[i].event \in scheduled
      /\ Sorted(events) /\ e \in scheduled /\ lost \subseteq scheduled
  BY TypeFacts DEF IInv, EntriesInv, TypeOK, BodyReturns
<1>2. PutBack(e) # << >> /\ lost' = IF e \in dropped THEN lost \cup {Head(PutBack(e)).event} ELSE lost
  BY DEF BodyReturns
<1>3. Head(PutBack(e)).event \in scheduled
  <2>1. CASE e \notin Periodic
    <3>1. PutBack(e) = events
      BY <2>1 DEF PutBack
    <3>2. Head(events) = events[1] /\ 1 \in 1..Len(events)
      BY <1>1, <1>2, <3>1, TailPlaces
    <3> QED
      BY <1>1, <3>1, <3>2
  <2>2. CASE e \in Periodic
    <3> DEFINE all == Inserted(events, now + Period, e)
    <3>1. PutBack(e) = all
      BY <2>2 DEF PutBack
    <3>2. PICK k \in 1..(Len(events) + 1) : all \in Seq(Entry) /\ IsInsertion(all, events, x, k)
      BY <1>1, InsertedPlace
    <3>3. x.event = e
      OBVIOUS
    <3> HIDE DEF all, x
    <3>4. /\ \A j \in 1..Len(all) :
               j # k => LET i == IF j < k THEN j ELSE j - 1
                        IN i \in 1..Len(events) /\ all[j] = events[i]
          /\ k \in 1..Len(all) /\ all[k] = x /\ Len(all) = Len(events) + 1
      BY <1>1, <3>2, InsertionPlaces
    <3>5. Head(all) = all[1] /\ 1 \in 1..Len(all)
      BY <1>1, <1>2, <3>1, <3>2, <3>4, TailPlaces
    <3>6. CASE k = 1
      BY <1>1, <3>1, <3>3, <3>4, <3>5, <3>6
    <3>7. CASE k # 1
      <4>1. 1 < k /\ 1 \in 1..Len(events) /\ all[1] = events[1]
        BY <3>2, <3>4, <3>5, <3>7
      <4> QED
        BY <1>1, <3>1, <3>5, <4>1
    <3> QED
      BY <3>6, <3>7
  <2> QED
    BY <2>1, <2>2
<1> QED
  BY <1>1, <1>2, <1>3

\* The event goes back behind what is due at its next activation, which is
\* never before the present time: it is its old entry that is erased.
LEMMA BodyReturnsStep ==
  ASSUME IInv, NEW e \in Events, BodyReturns(e),
         events # << >>, Head(events) = [at |-> now, event |-> e]
  PROVE  IInv'
<1> USE SimAssumption
<1> DEFINE x == [at |-> now + Period, event |-> e]
           all == Inserted(events, now + Period, e)
<1>0. TypeOK /\ EntriesInv /\ DueInv /\ KeptInv /\ PlaceInv
  BY DEF IInv
<1>1. /\ events \in Seq(Entry) /\ Len(events) \in Nat
      /\ \A i \in 1..Len(events) : /\ events[i].at \in Nat /\ events[i].event \in Events
      /\ now \in Nat /\ endSim \in Nat /\ runs \in Nat
      /\ first \in [Events -> Nat] /\ calls \in [Events -> Nat]
  BY <1>0, TypeFacts
<1>2. /\ pc = "body" /\ e \in nextEvent /\ nextEvent' = {} /\ runs' = runs + 1 /\ pc' = "loop"
      /\ UNCHANGED <<now, isCanceled, stopped, endSim, first, scheduled, dropped, late, calls>>
      /\ lost \subseteq lost' /\ lost' \subseteq scheduled
  BY ErasedScheduled DEF BodyReturns
<1>3. /\ nextEvent = {e} /\ events # << >> /\ calls[e] >= 1 /\ calls[e] \in Nat
      /\ Head(events) = [at |-> now, event |-> e]
  BY <1>0, <1>1, <1>2 DEF PlaceInv
<1>4. /\ Len(events) >= 1 /\ 1 \in 1..Len(events)
      /\ Tail(events) \in Seq(Entry) /\ Len(Tail(events)) = Len(events) - 1
      /\ \A i \in 1..(Len(events) - 1) : Tail(events)[i] = events[i + 1]
      /\ events[1].at = now /\ events[1].event = e
  <2>1. /\ Len(events) >= 1 /\ Head(events) = events[1]
        /\ Tail(events) \in Seq(Entry) /\ Len(Tail(events)) = Len(events) - 1
        /\ \A i \in 1..(Len(events) - 1) : Tail(events)[i] = events[i + 1]
    BY <1>1, <1>3, TailPlaces
  <2>2. events[1].at = now /\ events[1].event = e
    BY <1>3, <2>1
  <2> QED
    BY <1>1, <2>1, <2>2
<1>5. x.at = now + Period /\ x.event = e /\ x \in Entry /\ now + Period \in Nat /\ now < now + Period
  BY <1>1 DEF Entry
<1>6. Sorted(events) /\ \A i, j \in 1..Len(events) : events[i].event = events[j].event => i = j
  BY <1>0 DEF EntriesInv
<1> HIDE DEF x
\* What is in the schedule afterwards
<1>7. /\ events' \in Seq(Entry) /\ Len(events') \in Nat /\ Sorted(events')
      /\ \A i, j \in 1..Len(events') : events'[i].event = events'[j].event => i = j
      /\ \A j \in 1..Len(events') :
           \/ e \in Periodic /\ events'[j] = x
           \/ \E i \in 2..Len(events) : events'[j] = events[i]
      /\ \A i \in 2..Len(events) : \E j \in 1..Len(events') : events'[j] = events[i]
      /\ e \in Periodic => \E j \in 1..Len(events') : events'[j] = x
  <2>1. CASE e \notin Periodic
    <3>1. events' = Tail(events)
      BY <2>1 DEF BodyReturns, PutBack
    <3>2. Sorted(events')
      BY <1>1, <1>3, <1>6, <3>1, TailSorted
    <3>3. \A j \in 1..Len(events') : j + 1 \in 2..Len(events) /\ events'[j] = events[j + 1]
      BY <1>1, <1>4, <3>1
    <3>4. \A i \in 2..Len(events) : i - 1 \in 1..Len(events') /\ events'[i - 1] = events[i]
      <4> SUFFICES ASSUME NEW i \in 2..Len(events)
                   PROVE  i - 1 \in 1..Len(events') /\ events'[i - 1] = events[i]
        OBVIOUS
      <4>1. i - 1 \in 1..(Len(events) - 1) /\ (i - 1) + 1 = i
        BY <1>1
      <4> QED
        BY <1>4, <3>1, <4>1
    <3>5. ASSUME NEW i \in 1..Len(events'), NEW j \in 1..Len(events'),
                 events'[i].event = events'[j].event
          PROVE  i = j
      <4>1. /\ i + 1 \in 1..Len(events) /\ events'[i] = events[i + 1]
            /\ j + 1 \in 1..Len(events) /\ events'[j] = events[j + 1]
        BY <1>1, <3>3
      <4>2. i + 1 = j + 1
        BY <1>6, <3>5, <4>1
      <4> QED
        BY <4>2
    <3>6. events' \in Seq(Entry) /\ Len(events') \in Nat
      BY <1>1, <1>4, <3>1
    <3> QED
      BY <2>1, <3>2, <3>3, <3>4, <3>5, <3>6
  <2>2. CASE e \in Periodic
    <3>1. events' = Tail(all)
      BY <2>2 DEF BodyReturns, PutBack
    <3>2. PICK k \in 1..(Len(events) + 1) :
            /\ all \in Seq(Entry) /\ Sorted(all)
            /\ IsInsertion(all, events, x, k)
            /\ \A i \in k..Len(events) : events[i].at > now + Period
      BY <1>1, <1>5, <1>6, InsertedPlace, InsertedSorted DEF x
    <3> HIDE DEF all
    <3>3. k \in 2..(Len(events) + 1)
      <4>1. CASE k = 1
        <5>1. 1 \in k..Len(events)
          BY <1>1, <1>4, <4>1
        <5> QED
          BY <1>1, <1>4, <1>5, <3>2, <5>1
      <4> QED
        BY <1>1, <4>1
    <3>4. /\ \A j \in 1..Len(all) :
               j # k => LET i == IF j < k THEN j ELSE j - 1
                        IN i \in 1..Len(events) /\ all[j] = events[i]
          /\ \A i \in 1..Len(events) :
               LET j == IF i < k THEN i ELSE i + 1
               IN j \in 1..Len(all) /\ j # k /\ all[j] = events[i]
          /\ k \in 1..Len(all) /\ all[k] = x /\ Len(all) = Len(events) + 1
      BY <1>1, <3>2, InsertionPlaces
    <3>5. /\ events' \in Seq(Entry) /\ Len(events') = Len(events) /\ Sorted(events')
          /\ \A j \in 1..Len(events) : events'[j] = all[j + 1]
      <4>1. all # << >>
        BY <1>1, <3>4, EmptySeq
      <4> QED
        BY <1>1, <3>1, <3>2, <3>4, <4>1, TailPlaces, TailSorted
    <3> DEFINE Old(j) == IF j + 1 < k THEN j + 1 ELSE j
               New(i) == IF i < k THEN i - 1 ELSE i
    <3>6. \A j \in 1..Len(events) :
            j + 1 # k => Old(j) \in 2..Len(events) /\ events'[j] = events[Old(j)]
      <4> SUFFICES ASSUME NEW j \in 1..Len(events), j + 1 # k
                   PROVE  Old(j) \in 2..Len(events) /\ events'[j] = events[Old(j)]
        OBVIOUS
      <4>1. j + 1 \in 1..Len(all) /\ events'[j] = all[j + 1] /\ (j + 1) - 1 = j
        BY <1>1, <3>4, <3>5
      <4>2. CASE j + 1 < k
        <5>1. j + 1 \in 2..Len(events)
          BY <1>1, <3>3, <4>2
        <5> QED
          BY <3>4, <4>1, <4>2, <5>1
      <4>3. CASE ~(j + 1 < k)
        <5>1. j \in 2..Len(events)
          BY <1>1, <3>3, <4>3
        <5>2. all[j + 1] = events[(j + 1) - 1]
          BY <3>4, <4>1, <4>3
        <5> QED
          BY <4>1, <4>3, <5>1, <5>2
      <4> QED
        BY <4>2, <4>3
    <3>7. \A i \in 2..Len(events) : New(i) \in 1..Len(events) /\ events'[New(i)] = events[i]
      <4> SUFFICES ASSUME NEW i \in 2..Len(events)
                   PROVE  New(i) \in 1..Len(events) /\ events'[New(i)] = events[i]
        OBVIOUS
      <4>1. i \in 1..Len(events)
        BY <1>1
      <4>2. CASE i < k
        <5>1. i - 1 \in 1..Len(events) /\ (i - 1) + 1 = i
          BY <1>1
        <5>2. all[i] = events[i]
          BY <3>4, <4>1, <4>2
        <5> QED
          BY <3>5, <4>2, <5>1, <5>2
      <4>3. CASE ~(i < k)
        <5>1. all[i + 1] = events[i]
          BY <3>4, <4>1, <4>3
        <5> QED
          BY <3>5, <4>1, <4>3, <5>1
      <4> QED
        BY <4>2, <4>3
    <3>8. k - 1 \in 1..Len(events) /\ events'[k - 1] = x
      <4>1. k - 1 \in 1..Len(events) /\ (k - 1) + 1 = k
        BY <1>1, <3>3
      <4> QED
        BY <3>4, <3>5, <4>1
    <3>9. ASSUME NEW i \in 1..Len(events), NEW j \in 1..Len(events),
                 events'[i].event = events'[j].event
          PROVE  i = j
      <4>1. CASE i + 1 # k /\ j + 1 # k
        <5>1. /\ Old(i) \in 2..Len(events) /\ events'[i] = events[Old(i)]
              /\ Old(j) \in 2..Len(events) /\ events'[j] = events[Old(j)]
          BY <3>6, <4>1
        <5>2. Old(i) = Old(j)
          <6> HIDE DEF Old
          <6>1. Old(i) \in 1..Len(events) /\ Old(j) \in 1..Len(events)
            BY <1>1, <5>1
          <6> QED
            BY <1>6, <3>9, <5>1, <6>1
        <5> QED
          BY <3>3, <4>1, <5>2
      <4>2. CASE i + 1 = k /\ j + 1 = k
        BY <4>2
      <4>3. ASSUME NEW p \in 1..Len(events), p + 1 # k PROVE events'[p].event # e
        <5>1. Old(p) \in 2..Len(events) /\ events'[p] = events[Old(p)]
          BY <3>6, <4>3
        <5>2. Old(p) \in 1..Len(events) /\ Old(p) # 1
          <6> HIDE DEF Old
          <6> QED
            BY <1>1, <5>1
        <5> HIDE DEF Old
        <5> QED
          BY <1>4, <1>6, <5>1, <5>2
      <4>4. \A p \in 1..Len(events) : p + 1 = k => events'[p].event = e
        <5> SUFFICES ASSUME NEW p \in 1..Len(events), p + 1 = k PROVE events'[p].event = e
          OBVIOUS
        <5>1. p = k - 1
          OBVIOUS
        <5> QED
          BY <1>5, <3>8, <5>1
      <4> QED
        BY <3>9, <4>1, <4>2, <4>3, <4>4
    <3>10. \A j \in 1..Len(events') :
             \/ events'[j] = x
             \/ \E i \in 2..Len(events) : events'[j] = events[i]
      <4> SUFFICES ASSUME NEW j \in 1..Len(events)
                   PROVE  \/ events'[j] = x
                          \/ \E i \in 2..Len(events) : events'[j] = events[i]
        BY <3>5
      <4>1. CASE j + 1 = k
        <5>1. j = k - 1
          BY <4>1
        <5> QED
          BY <3>8, <5>1
      <4>2. CASE j + 1 # k
        <5> HIDE DEF Old
        <5> QED
          BY <3>6, <4>2
      <4> QED
        BY <4>1, <4>2
    <3>11. \A i \in 2..Len(events) : \E j \in 1..Len(events') : events'[j] = events[i]
      <4> HIDE DEF New
      <4> QED
        BY <3>5, <3>7
    <3> QED
      BY <1>1, <2>2, <3>5, <3>8, <3>9, <3>10, <3>11
  <2> QED
    BY <2>1, <2>2
\* The other entries are of other events.
<1>8. \A i \in 2..Len(events) : /\ i \in 1..Len(events)
                                /\ events[i].event # e
  BY <1>1, <1>4, <1>6
<1>9. TypeOK'
  <2>1. events' \in Seq([at : Nat, event : Events])
    BY <1>7 DEF Entry
  <2> QED
    BY <1>0, <1>1, <1>2, <2>1 DEF TypeOK
<1>10. EntriesInv'
  <2>1. e \in scheduled
    BY <1>0, <1>4 DEF EntriesInv
  <2>2. ASSUME NEW j \in 1..Len(events') PROVE events'[j].event \in scheduled'
    <3>1. CASE e \in Periodic /\ events'[j] = x
      BY <1>2, <1>5, <2>1, <3>1
    <3>2. CASE \E i \in 2..Len(events) : events'[j] = events[i]
      <4>1. PICK i \in 2..Len(events) : events'[j] = events[i]
        BY <3>2
      <4>2. events[i].event \in scheduled
        BY <1>0, <1>8, <4>1 DEF EntriesInv
      <4> QED
        BY <1>2, <4>1, <4>2
    <3> QED
      BY <1>7, <3>1, <3>2
  <2> QED
    BY <1>7, <2>2, SMTT(30) DEF EntriesInv
<1>11. DueInv'
  <2>1. ASSUME NEW j \in 1..Len(events'), NEW f, f = events'[j].event
        PROVE  /\ events'[j].at = first'[f] + Done(f)' * Period
               /\ f \in OneShot => Done(f)' = 0
               /\ f \notin late' => now' <= events'[j].at
    <3>1. Done(f)' = calls[f]
      BY <1>2 DEF Done
    <3>2. CASE e \in Periodic /\ events'[j] = x
      <4>1. f = e /\ events'[j].at = now + Period /\ f \notin OneShot
        BY <1>5, <2>1, <3>2
      <4>2. now = first[e] + (calls[e] - 1) * Period
        BY <1>0, <1>2, <1>4 DEF DueInv, Done
      <4>3. (calls[e] - 1) * Period + Period = calls[e] * Period
        BY <1>3
      <4>4. (calls[e] - 1) * Period \in Nat /\ first[e] \in Nat
        BY <1>1, <1>3
      <4>5. now + Period = first[e] + calls[e] * Period
        BY <4>2, <4>3, <4>4
      <4> QED
        BY <1>1, <1>2, <3>1, <4>1, <4>5
    <3>3. CASE \E i \in 2..Len(events) : events'[j] = events[i]
      <4>1. PICK i \in 2..Len(events) : events'[j] = events[i]
        BY <3>3
      <4>2. i \in 1..Len(events) /\ f = events[i].event /\ f # e
        BY <1>8, <2>1, <4>1
      <4>3. Done(f) = calls[f]
        BY <1>3, <4>2 DEF Done
      <4>4. /\ events[i].at = first[f] + Done(f) * Period
            /\ f \in OneShot => Done(f) = 0
            /\ f \notin late => now <= events[i].at
        BY <1>0, <4>2 DEF DueInv
      <4> QED
        BY <1>2, <3>1, <4>1, <4>3, <4>4
    <3> QED
      BY <1>7, <3>2, <3>3
  <2> QED
    BY <2>1 DEF DueInv
<1>12. KeptInv'
  <2>1. ASSUME NEW f \in scheduled' \ (isCanceled' \cup dropped' \cup lost')
        PROVE  \/ \E i \in 1..Len(events') : events'[i].event = f
               \/ f \in OneShot /\ calls'[f] = 1
    <3>1. CASE f = e /\ e \in Periodic
      BY <1>5, <1>7, <3>1
    <3>2. CASE f = e /\ e \notin Periodic
      <4>1. e \in OneShot
        BY <3>2 DEF Events
      <4>2. calls[e] - 1 = 0
        BY <1>0, <1>2, <1>4, <4>1 DEF DueInv, Done
      <4> QED
        BY <1>2, <1>3, <3>2, <4>1, <4>2
    <3>3. CASE f # e
      <4>1. \/ \E i \in 1..Len(events) : events[i].event = f
            \/ f \in OneShot /\ calls[f] = 1
        BY <1>0, <1>2, <2>1 DEF KeptInv
      <4>2. CASE \E i \in 1..Len(events) : events[i].event = f
        <5>1. PICK i \in 1..Len(events) : events[i].event = f
          BY <4>2
        <5>2. i \in 2..Len(events)
          <6>1. i # 1
            BY <1>4, <3>3, <5>1
          <6> QED
            BY <1>1, <6>1
        <5> QED
          BY <1>7, <5>1, <5>2
      <4> QED
        BY <1>2, <4>1, <4>2
    <3> QED
      BY <3>1, <3>2, <3>3
  <2>2. \A f \in Events \ scheduled' : calls'[f] = 0
    BY <1>0, <1>2 DEF KeptInv
  <2> QED
    BY <2>1, <2>2 DEF KeptInv
<1>13. PlaceInv'
  BY <1>2 DEF PlaceInv
<1> QED
  BY <1>9, <1>10, <1>11, <1>12, <1>13 DEF IInv

\* The body has cleared the schedule, so that the event has no entry.  If it has a
\* period it is put back, and what is erased is lost.
LEMMA ClearedBodyReturnsStep ==
  ASSUME IInv, NEW e \in Events, BodyReturns(e),
         e \in dropped, \A i \in 1..Len(events) : events[i].event # e
  PROVE  IInv'
<1> USE SimAssumption
<1> DEFINE x == [at |-> now + Period, event |-> e]
           all == PutBack(e)
<1>0. TypeOK /\ EntriesInv /\ DueInv /\ KeptInv /\ PlaceInv
  BY DEF IInv
<1>1. /\ events \in Seq(Entry) /\ Len(events) \in Nat
      /\ \A i \in 1..Len(events) : /\ events[i].at \in Nat /\ events[i].event \in Events
                                   /\ events[i].event \in scheduled
      /\ now \in Nat /\ endSim \in Nat /\ runs \in Nat
      /\ first \in [Events -> Nat] /\ calls \in [Events -> Nat]
      /\ Sorted(events) /\ \A i, j \in 1..Len(events) : events[i].event = events[j].event => i = j
  BY <1>0, TypeFacts DEF EntriesInv
<1>2. /\ pc = "body" /\ e \in nextEvent /\ nextEvent' = {} /\ runs' = runs + 1 /\ pc' = "loop"
      /\ UNCHANGED <<now, isCanceled, stopped, endSim, first, scheduled, dropped, late, calls>>
      /\ lost' = lost \cup {Head(all).event} /\ lost' \subseteq scheduled
      /\ all # << >> /\ events' = Tail(all)
  BY ErasedScheduled DEF BodyReturns
<1>3. /\ nextEvent = {e} /\ calls[e] >= 1 /\ calls[e] \in Nat /\ e \in scheduled
      /\ now = first[e] + (calls[e] - 1) * Period
  BY <1>0, <1>1, <1>2 DEF PlaceInv, TypeOK
<1>4. x.at = now + Period /\ x.event = e /\ x \in Entry /\ now + Period \in Nat
  BY <1>1 DEF Entry
<1> HIDE DEF x
\* What is in the schedule before the erasure
<1>5. /\ all \in Seq(Entry) /\ Sorted(all)
      /\ \A i, j \in 1..Len(all) : all[i].event = all[j].event => i = j
      /\ \A j \in 1..Len(all) : \/ e \in Periodic /\ all[j] = x
                                \/ \E i \in 1..Len(events) : all[j] = events[i]
      /\ \A i \in 1..Len(events) : \E j \in 1..Len(all) : all[j] = events[i]
  <2>1. CASE e \notin Periodic
    <3>1. all = events
      BY <2>1 DEF PutBack
    <3> QED
      BY <1>1, <3>1
  <2>2. CASE e \in Periodic
    <3>1. all = Inserted(events, now + Period, e)
      BY <2>2 DEF PutBack
    <3> HIDE DEF all
    <3>2. PICK k \in 1..(Len(events) + 1) :
            all \in Seq(Entry) /\ Sorted(all) /\ IsInsertion(all, events, x, k)
      BY <1>1, <1>4, <3>1, InsertedPlace, InsertedSorted DEF x
    <3> DEFINE Old(j) == IF j < k THEN j ELSE j - 1
               New(i) == IF i < k THEN i ELSE i + 1
    <3>3. /\ \A j \in 1..Len(all) : j # k => Old(j) \in 1..Len(events) /\ all[j] = events[Old(j)]
          /\ \A i \in 1..Len(events) : New(i) \in 1..Len(all) /\ all[New(i)] = events[i]
          /\ k \in 1..Len(all) /\ all[k] = x /\ Len(all) = Len(events) + 1
      BY <1>1, <3>2, InsertionPlaces
    <3>4. ASSUME NEW i \in 1..Len(all), NEW j \in 1..Len(all), all[i].event = all[j].event
          PROVE  i = j
      <4>1. CASE i # k /\ j # k
        <5>1. /\ Old(i) \in 1..Len(events) /\ all[i] = events[Old(i)]
              /\ Old(j) \in 1..Len(events) /\ all[j] = events[Old(j)]
          BY <3>3, <4>1
        <5>2. Old(i) = Old(j)
          <6> HIDE DEF Old
          <6> QED
            BY <1>1, <3>4, <5>1
        <5> QED
          BY <1>1, <3>2, <3>3, <4>1, <5>2
      <4>2. ASSUME NEW p \in 1..Len(all), p # k PROVE all[p].event # e
        <5> HIDE DEF Old
        <5> QED
          BY <3>3, <4>2
      <4>3. all[k].event = e
        BY <1>4, <3>3
      <4> QED
        BY <3>4, <4>1, <4>2, <4>3
    <3> HIDE DEF Old, New
    <3> QED
      BY <2>2, <3>2, <3>3, <3>4
  <2> QED
    BY <2>1, <2>2
<1> HIDE DEF all
<1>6. /\ Len(all) \in Nat /\ Len(all) >= 1 /\ Head(all) = all[1] /\ 1 \in 1..Len(all)
      /\ events' \in Seq(Entry) /\ Len(events') = Len(all) - 1 /\ Sorted(events')
      /\ \A j \in 1..Len(events') : j + 1 \in 1..Len(all) /\ events'[j] = all[j + 1]
  BY <1>2, <1>5, TailPlaces, TailSorted
<1>7. TypeOK'
  <2>1. events' \in Seq([at : Nat, event : Events])
    BY <1>6 DEF Entry
  <2> QED
    BY <1>0, <1>1, <1>2, <2>1 DEF TypeOK
<1>8. \A j \in 1..Len(events') : \/ e \in Periodic /\ events'[j] = x
                                \/ \E i \in 1..Len(events) : events'[j] = events[i]
  BY <1>5, <1>6
<1>9. EntriesInv'
  <2>1. ASSUME NEW i \in 1..Len(events'), NEW j \in 1..Len(events'), events'[i].event = events'[j].event
        PROVE  i = j
    <3>1. /\ i + 1 \in 1..Len(all) /\ j + 1 \in 1..Len(all)
          /\ all[i + 1].event = all[j + 1].event
      BY <1>6, <2>1
    <3>2. i + 1 = j + 1
      BY <1>5, <3>1
    <3> QED
      BY <1>6, <3>2
  <2>2. \A j \in 1..Len(events') : events'[j].event \in scheduled'
    BY <1>1, <1>2, <1>3, <1>4, <1>8
  <2> QED
    BY <1>6, <2>1, <2>2 DEF EntriesInv
<1>10. DueInv'
  <2>1. ASSUME NEW j \in 1..Len(events'), NEW f, f = events'[j].event
        PROVE  /\ events'[j].at = first'[f] + Done(f)' * Period
               /\ f \in OneShot => Done(f)' = 0
               /\ f \notin late' => now' <= events'[j].at
    <3>1. Done(f)' = calls[f]
      BY <1>2 DEF Done
    <3>2. CASE e \in Periodic /\ events'[j] = x
      <4>1. f = e /\ events'[j].at = now + Period /\ f \notin OneShot
        BY <1>4, <2>1, <3>2
      <4>2. (calls[e] - 1) * Period + Period = calls[e] * Period
        BY <1>3
      <4>3. (calls[e] - 1) * Period \in Nat /\ first[e] \in Nat
        BY <1>1, <1>3
      <4>4. now + Period = first[e] + calls[e] * Period
        BY <1>3, <4>2, <4>3
      <4> QED
        BY <1>1, <1>2, <3>1, <4>1, <4>4
    <3>3. CASE \E i \in 1..Len(events) : events'[j] = events[i]
      <4>1. PICK i \in 1..Len(events) : events'[j] = events[i]
        BY <3>3
      <4>2. f = events[i].event /\ f # e
        BY <2>1, <4>1
      <4>3. Done(f) = calls[f]
        BY <1>3, <4>2 DEF Done
      <4>4. /\ events[i].at = first[f] + Done(f) * Period
            /\ f \in OneShot => Done(f) = 0
            /\ f \notin late => now <= events[i].at
        BY <1>0, <4>2 DEF DueInv
      <4> QED
        BY <1>2, <3>1, <4>1, <4>3, <4>4
    <3> QED
      BY <1>8, <3>2, <3>3
  <2> QED
    BY <2>1 DEF DueInv
<1>11. KeptInv'
  <2>1. ASSUME NEW f \in scheduled' \ (isCanceled' \cup dropped' \cup lost')
        PROVE  \/ \E i \in 1..Len(events') : events'[i].event = f
               \/ f \in OneShot /\ calls'[f] = 1
    <3>1. \/ \E i \in 1..Len(events) : events[i].event = f
          \/ f \in OneShot /\ calls[f] = 1
      BY <1>0, <1>2, <2>1 DEF KeptInv
    <3>2. CASE \E i \in 1..Len(events) : events[i].event = f
      <4>1. PICK j \in 1..Len(all) : all[j].event = f
        BY <1>5, <3>2
      <4>2. j # 1
        BY <1>2, <1>6, <2>1, <4>1
      <4>3. j - 1 \in 1..Len(events') /\ (j - 1) + 1 = j
        BY <1>6, <4>1, <4>2
      <4> QED
        BY <1>6, <4>1, <4>3
    <3> QED
      BY <1>2, <3>1, <3>2
  <2>2. \A f \in Events \ scheduled' : calls'[f] = 0
    BY <1>0, <1>2 DEF KeptInv
  <2> QED
    BY <2>1, <2>2 DEF KeptInv
<1>12. PlaceInv'
  BY <1>2 DEF PlaceInv
<1> QED
  BY <1>7, <1>9, <1>10, <1>11, <1>12 DEF IInv

\* What is erased from an empty schedule is undefined: simulate is there no more.
LEMMA EraseNothingStep ==
  ASSUME IInv, NEW e \in Events, EraseNothing(e)
  PROVE  IInv'
<1>0. TypeOK /\ EntriesInv /\ DueInv /\ KeptInv /\ PlaceInv
  BY DEF IInv
<1>1. /\ nextEvent' = {} /\ runs' = runs + 1 /\ pc' = "undefined" /\ runs \in Nat
      /\ UNCHANGED <<now, events, isCanceled, stopped, endSim, first, scheduled, dropped, lost, late,
                     calls>>
  BY <1>0, TypeFacts DEF EraseNothing, history
<1>2. Len(events) = 0
  <2>1. e \notin Periodic
    <3>1. CASE e \in Periodic
      <4>1. /\ events \in Seq(Entry) /\ Len(events) \in Nat /\ now + Period \in Nat /\ Sorted(events)
        BY <1>0, TypeFacts, SimAssumption DEF EntriesInv
      <4> DEFINE all == Inserted(events, now + Period, e)
      <4>2. Len(all) = Len(events) + 1
        <5>1. \E k \in 1..(Len(events) + 1) :
                IsInsertion(all, events, [at |-> now + Period, event |-> e], k)
          BY <4>1, InsertedPlace
        <5> HIDE DEF all
        <5> QED
          BY <5>1 DEF IsInsertion
      <4>3. Inserted(events, now + Period, e) = << >>
        BY <3>1 DEF EraseNothing, PutBack
      <4> QED
        BY <4>1, <4>2, <4>3, EmptySeq
    <3> QED
      BY <3>1
  <2> QED
    BY <2>1, EmptySeq DEF EraseNothing, PutBack
<1>3. TypeOK'
  BY <1>0, <1>1 DEF TypeOK
<1>4. EntriesInv' /\ DueInv'
  BY <1>1, <1>2 DEF EntriesInv, Sorted, DueInv
<1>5. KeptInv'
  BY <1>0, <1>1 DEF KeptInv
<1>6. PlaceInv'
  BY <1>1 DEF PlaceInv
<1> QED
  BY <1>3, <1>4, <1>5, <1>6 DEF IInv

\* What an action that leaves the schedule, its events and their bodies alone
\* keeps, whatever it does to the time and to simulate's place.
LEMMA QuietParts ==
  ASSUME IInv,
         UNCHANGED <<events, nextEvent, first, calls, scheduled, dropped, lost, late>>,
         isCanceled \subseteq isCanceled'
  PROVE  /\ EntriesInv' /\ KeptInv'
         /\ \A i \in 1..Len(events') : \A e : e = events'[i].event =>
              /\ events'[i].at = first'[e] + Done(e)' * Period
              /\ e \in OneShot => Done(e)' = 0
         /\ now' = now => DueInv'
<1>1. EntriesInv /\ DueInv /\ KeptInv
  BY DEF IInv
<1>2. \A e : Done(e)' = Done(e)
  BY DEF Done
<1>3. EntriesInv' /\ KeptInv'
  BY <1>1 DEF EntriesInv, KeptInv
<1>4. ASSUME NEW i \in 1..Len(events'), NEW e, e = events'[i].event
      PROVE  /\ events'[i].at = first'[e] + Done(e)' * Period
             /\ e \in OneShot => Done(e)' = 0
  <2>1. /\ events[i].at = first[e] + Done(e) * Period
        /\ e \in OneShot => Done(e) = 0
    BY <1>1, <1>4 DEF DueInv
  <2> QED
    BY <1>2, <2>1
<1>5. now' = now => DueInv'
  BY <1>1, <1>2 DEF DueInv
<1> QED
  BY <1>3, <1>4, <1>5

\* When the test of the loop fails nothing is due: the first entry is not, and
\* no other comes before it.
LEMMA LeaveLoopStep ==
  ASSUME IInv, LeaveLoop
  PROVE  IInv'
<1> USE SimAssumption
<1>0. TypeOK /\ EntriesInv /\ DueInv /\ PlaceInv
  BY DEF IInv
<1>1. /\ pc = "loop" /\ ~SomethingDue /\ pc' = "end"
      /\ UNCHANGED <<now, events, isCanceled, stopped, endSim, nextEvent, runs, first, scheduled,
                     dropped, lost, late, calls>>
  BY DEF LeaveLoop, history
<1>2. EntriesInv' /\ DueInv' /\ KeptInv'
  BY <1>1, QuietParts
<1>3. TypeOK' /\ nextEvent' = {}
  BY <1>0, <1>1 DEF TypeOK
<1>4. ASSUME NEW i \in 1..Len(events), events[i].event \notin late PROVE events[i].at > endSim
  <2>1. /\ events \in Seq(Entry) /\ Len(events) \in Nat /\ endSim \in Nat /\ now \in Nat
        /\ \A j \in 1..Len(events) : events[j].at \in Nat
    BY <1>0, TypeFacts
  <2>2. events # << >> /\ 1 \in 1..Len(events)
    BY <1>4, <2>1, EmptySeq
  <2>6. CASE now > endSim
    <3>1. now <= events[i].at
      BY <1>0, <1>4 DEF DueInv
    <3> QED
      BY <2>1, <2>6, <3>1
  <2>3. now <= endSim => events[1].at > endSim
    <3> SUFFICES ASSUME now <= endSim PROVE events[1].at > endSim
      OBVIOUS
    <3>1. Head(events) = events[1] /\ ~(Head(events).at <= endSim)
      BY <1>1, <2>1, <2>2, TailPlaces DEF SomethingDue
    <3>2. events[1].at \in Nat /\ ~(events[1].at <= endSim)
      BY <2>1, <2>2, <3>1
    <3> QED
      BY <2>1, <3>2
  <2>4. CASE now <= endSim /\ i = 1
    BY <2>3, <2>4
  <2>5. CASE now <= endSim /\ i # 1
    <3>1. 1 < i
      BY <2>1, <2>5
    <3>2. events[1].at <= events[i].at
      BY <1>0, <2>2, <3>1 DEF EntriesInv, Sorted
    <3> QED
      BY <2>1, <2>2, <2>3, <2>5, <3>2
  <2> QED
    BY <2>1, <2>4, <2>5, <2>6
<1>5. PlaceInv'
  BY <1>1, <1>3, <1>4 DEF PlaceInv
<1> QED
  BY <1>2, <1>3, <1>5 DEF IInv

\* Only what another thread scheduled since the loop ended may be passed.
LEMMA FinishStep ==
  ASSUME IInv, Finish
  PROVE  IInv'
<1> USE SimAssumption
<1>0. TypeOK /\ PlaceInv
  BY DEF IInv
<1>1. /\ pc = "end" /\ now' = endSim /\ pc' = "idle"
      /\ UNCHANGED <<events, isCanceled, stopped, endSim, nextEvent, runs, first, scheduled,
                     dropped, lost, late, calls>>
  BY DEF Finish, history
<1>2. /\ EntriesInv' /\ KeptInv'
      /\ \A i \in 1..Len(events') : \A e : e = events'[i].event =>
           /\ events'[i].at = first'[e] + Done(e)' * Period
           /\ e \in OneShot => Done(e)' = 0
  BY <1>1, QuietParts
<1>3. TypeOK' /\ nextEvent' = {}
  <2>1. endSim \in Nat /\ endSim <= MaxTime
    BY <1>0 DEF TypeOK
  <2> QED
    BY <1>0, <1>1, <2>1 DEF TypeOK
<1>4. \A i \in 1..Len(events') : events'[i].event \notin late' => now' <= events'[i].at
  <2> SUFFICES ASSUME NEW i \in 1..Len(events), events[i].event \notin late
               PROVE  endSim <= events[i].at
    BY <1>1
  <2>1. events[i].at > endSim
    BY <1>0, <1>1 DEF PlaceInv
  <2>2. events[i].at \in Nat /\ endSim \in Nat
    BY <1>0, TypeFacts
  <2> QED
    BY <2>1, <2>2
<1>5. DueInv'
  <2>1. ASSUME NEW i \in 1..Len(events'), NEW e, e = events'[i].event
        PROVE  /\ events'[i].at = first'[e] + Done(e)' * Period
               /\ e \in OneShot => Done(e)' = 0
               /\ e \notin late' => now' <= events'[i].at
    BY <1>2, <1>4, <2>1
  <2> QED
    BY <2>1 DEF DueInv
<1>6. PlaceInv'
  BY <1>1, <1>3 DEF PlaceInv
<1> QED
  BY <1>2, <1>3, <1>5, <1>6 DEF IInv

\* The other actions only move simulate, cancel an event or stop it.
LEMMA QuietSteps ==
  ASSUME IInv,
         \/ Await \/ WaitReturns \/ ReturnStopped \/ TakeNothing \/ Stop
         \/ \E d \in Durations : Simulate(d)
         \/ \E e \in Events : Cancel(e)
         \/ UNCHANGED vars
  PROVE  IInv'
<1> USE SimAssumption
<1>0. TypeOK /\ PlaceInv /\ EntriesInv /\ DueInv /\ KeptInv
  BY DEF IInv
<1>1. CASE Await
  <2>1. /\ pc = "loop" /\ SomethingDue /\ pc' \in {"waiting", "step"}
        /\ UNCHANGED <<now, events, isCanceled, stopped, endSim, nextEvent, runs, first, scheduled,
                       dropped, lost, late, calls>>
    BY <1>1 DEF Await, history
  <2>2. EntriesInv' /\ DueInv' /\ KeptInv'
    BY <2>1, QuietParts
  <2>3. TypeOK' /\ nextEvent' = {}
    BY <1>0, <2>1 DEF TypeOK, SomethingDue
  <2>4. PlaceInv'
    BY <2>1, <2>3 DEF PlaceInv
  <2> QED
    BY <2>2, <2>3, <2>4 DEF IInv
<1>2. CASE WaitReturns \/ ReturnStopped \/ TakeNothing
  <2>1. /\ pc \in {"waiting", "step"} /\ pc' \in {"step", "idle", "undefined"}
        /\ UNCHANGED <<now, events, isCanceled, stopped, endSim, nextEvent, runs, first, scheduled,
                       dropped, lost, late, calls>>
    BY <1>2 DEF WaitReturns, ReturnStopped, TakeNothing, Returns, history
  <2>2. EntriesInv' /\ DueInv' /\ KeptInv'
    BY <2>1, QuietParts
  <2>3. TypeOK' /\ nextEvent' = {}
    <3>1. now <= endSim /\ endSim <= MaxTime /\ now \in Nat /\ endSim \in Nat
      BY <1>0, <2>1 DEF TypeOK
    <3> QED
      BY <1>0, <2>1, <3>1 DEF TypeOK
  <2>4. PlaceInv'
    BY <2>1, <2>3 DEF PlaceInv
  <2> QED
    BY <2>2, <2>3, <2>4 DEF IInv
<1>3. CASE \E d \in Durations : Simulate(d)
  <2>1. PICK d \in Durations : Simulate(d)
    BY <1>3
  <2>2. /\ pc = "idle" /\ now + d <= MaxTime /\ pc' = "loop" /\ endSim' = now + d /\ runs' = 0
        /\ UNCHANGED <<now, events, isCanceled, stopped, nextEvent, first, scheduled, dropped,
                       lost, late, calls>>
    BY <2>1 DEF Simulate, history
  <2>3. EntriesInv' /\ DueInv' /\ KeptInv'
    BY <2>2, QuietParts
  <2>4. now \in Nat /\ d \in Nat /\ MaxTime \in Nat
    BY <1>0, TypeFacts
  <2>5. endSim' \in 0 .. MaxTime /\ now' <= endSim'
    BY <2>2, <2>4
  <2>6. TypeOK' /\ nextEvent' = {}
    BY <1>0, <2>2, <2>5 DEF TypeOK
  <2>7. PlaceInv'
    BY <2>2, <2>6 DEF PlaceInv
  <2> QED
    BY <2>3, <2>6, <2>7 DEF IInv
<1>4. CASE \E e \in Events : Cancel(e)
  <2>1. PICK e \in Events : Cancel(e)
    BY <1>4
  <2>2. /\ e \in scheduled /\ isCanceled' = isCanceled \cup {e}
        /\ UNCHANGED <<now, events, stopped, pc, endSim, nextEvent, runs, first, scheduled, dropped,
                       lost, late, calls>>
    BY <2>1 DEF Cancel, sim, history
  <2>3. EntriesInv' /\ DueInv' /\ KeptInv'
    BY <2>2, QuietParts
  <2>4. TypeOK'
    BY <1>0, <2>2 DEF TypeOK
  <2>5. PlaceInv'
    BY <1>0, <2>2 DEF PlaceInv
  <2> QED
    BY <2>3, <2>4, <2>5 DEF IInv
<1>5. CASE Stop \/ UNCHANGED vars
  <2>1. /\ UNCHANGED <<now, events, isCanceled, pc, endSim, nextEvent, runs, first, scheduled,
                       dropped, lost, late, calls>>
        /\ stopped' \in BOOLEAN
    BY <1>0, <1>5 DEF Stop, vars, sim, history, TypeOK
  <2>2. EntriesInv' /\ DueInv' /\ KeptInv'
    BY <2>1, QuietParts
  <2>3. TypeOK'
    BY <1>0, <2>1 DEF TypeOK
  <2>4. PlaceInv'
    BY <1>0, <2>1 DEF PlaceInv
  <2> QED
    BY <2>2, <2>3, <2>4 DEF IInv
<1> QED
  BY <1>1, <1>2, <1>3, <1>4, <1>5

\* Every step keeps the invariant.
LEMMA NextInv ==
  IInv /\ [Next]_vars => IInv'
<1> SUFFICES ASSUME IInv, [Next]_vars PROVE IInv'
  OBVIOUS
<1>1. CASE TakeNext
  BY <1>1, TakeNextStep
<1>2. CASE \E e \in Events : BodyReturns(e)
  <2>1. PICK e \in Events : BodyReturns(e)
    BY <1>2
  <2>2. \/ events # << >> /\ Head(events) = [at |-> now, event |-> e]
        \/ e \in dropped /\ \A i \in 1..Len(events) : events[i].event # e
    BY <2>1 DEF IInv, PlaceInv, BodyReturns
  <2> QED
    BY <2>1, <2>2, BodyReturnsStep, ClearedBodyReturnsStep
<1>8. CASE \E e \in Events : EraseNothing(e)
  BY <1>8, EraseNothingStep
<1>3. CASE \E e \in Events, o \in Offsets : Schedule(e, o)
  BY <1>3, ScheduleStep
<1>4. CASE ClearSchedule
  BY <1>4, ClearScheduleStep
<1>5. CASE LeaveLoop
  BY <1>5, LeaveLoopStep
<1>6. CASE Finish
  BY <1>6, FinishStep
<1>7. CASE \/ Await \/ WaitReturns \/ ReturnStopped \/ TakeNothing \/ Stop
           \/ \E d \in Durations : Simulate(d)
           \/ \E e \in Events : Cancel(e)
           \/ UNCHANGED vars
  BY <1>7, QuietSteps
<1> QED
  BY <1>1, <1>2, <1>3, <1>4, <1>5, <1>6, <1>7, <1>8 DEF Next, Running

-----------------------------------------------------------------------------
(* The theorems *)

\* The inductive invariant holds.
THEOREM InvariantHolds == Spec => []IInv
<1>1. Init => IInv
  BY InitInv
<1>2. IInv /\ [Next]_vars => IInv'
  BY NextInv
<1> QED
  BY <1>1, <1>2, PTL DEF Spec

\* Every variable keeps its type, and simulate waits only for what is due before the
\* end of its call.
THEOREM TypeCorrect == Spec => []TypeOK
<1>1. IInv => TypeOK
  BY DEF IInv
<1> QED
  BY <1>1, InvariantHolds, PTL

\* Between two bodies, what the multimap holds is exactly the next activation of
\* each event that is neither canceled nor thrown away.
LEMMA InvOnSchedule ==
  IInv => OnSchedule
<1> SUFFICES ASSUME IInv, pc # "body"
             PROVE  /\ \A e \in scheduled \ (isCanceled \cup dropped \cup lost) :
                         IF e \in OneShot /\ Entries(e) = {} THEN calls[e] = 1
                         ELSE Cardinality(Entries(e)) = 1
                    /\ \A i \in DOMAIN events : LET e == events[i].event IN
                         /\ events[i].at = first[e] + calls[e] * Period
                         /\ e \in OneShot => calls[e] = 0
                         /\ e \notin late => events[i].at >= now
  BY DEF OnSchedule
<1>1. TypeOK /\ EntriesInv /\ DueInv /\ KeptInv
  BY DEF IInv
<1>2. /\ Len(events) \in Nat /\ now \in Nat
      /\ \A i \in 1..Len(events) : events[i].at \in Nat
  BY <1>1, TypeFacts
<1>3. DOMAIN events = 1..Len(events)
  BY <1>1, TypeFacts, LenProperties
<1>4. \A e : Entries(e) = {i \in 1..Len(events) : events[i].event = e}
  BY <1>3 DEF Entries
<1>5. ASSUME NEW i \in DOMAIN events, NEW e, e = events[i].event
      PROVE  /\ events[i].at = first[e] + calls[e] * Period
             /\ e \in OneShot => calls[e] = 0
             /\ e \notin late => events[i].at >= now
  <2>1. Done(e) = calls[e]
    BY <1>1 DEF Done, TypeOK
  <2>2. /\ events[i].at = first[e] + Done(e) * Period
        /\ e \in OneShot => Done(e) = 0
        /\ e \notin late => now <= events[i].at
    BY <1>1, <1>3, <1>5 DEF DueInv
  <2> QED
    BY <1>2, <1>3, <2>1, <2>2
<1>6. ASSUME NEW e \in scheduled \ (isCanceled \cup dropped \cup lost)
      PROVE  IF e \in OneShot /\ Entries(e) = {} THEN calls[e] = 1 ELSE Cardinality(Entries(e)) = 1
  <2>1. \/ \E i \in 1..Len(events) : events[i].event = e
        \/ e \in OneShot /\ calls[e] = 1
    BY <1>1, <1>6 DEF KeptInv
  <2>2. CASE Entries(e) = {}
    BY <1>4, <2>1, <2>2
  <2>3. CASE Entries(e) # {}
    <3>1. PICK i : i \in Entries(e)
      BY <2>3
    <3>2. Entries(e) = {i}
      BY <1>1, <1>4, <3>1 DEF EntriesInv
    <3> QED
      BY <2>3, <3>2, FS_Singleton
  <2> QED
    BY <2>2, <2>3
<1> QED
  BY <1>5, <1>6

\* No activation is lost, repeated or moved, whatever bodies, clients and other
\* threads schedule, cancel, clear and stop.
THEOREM OnScheduleHolds == Spec => []OnSchedule
BY InvOnSchedule, InvariantHolds, PTL

\* simulate sets the time to its end only when nothing that was due is left,
\* but for what another thread scheduled after the loop.
THEOREM NothingLeftBehindHolds == Spec => NothingLeftBehind
<1>1. ASSUME IInv, Finish
      PROVE  \A i \in DOMAIN events' : events'[i].at > now' \/ events'[i].event \in late
  <2>1. PlaceInv /\ TypeOK
    BY <1>1 DEF IInv
  <2>2. pc = "end" /\ now' = endSim /\ events' = events
    BY <1>1 DEF Finish
  <2>3. DOMAIN events = 1..Len(events)
    BY <2>1, TypeFacts, LenProperties
  <2> QED
    BY <2>1, <2>2, <2>3 DEF PlaceInv
<1>2. IInv /\ [Next]_vars =>
        [Finish => \A i \in DOMAIN events' : events'[i].at > now' \/ events'[i].event \in late]_vars
  BY <1>1
<1> QED
  BY <1>2, InvariantHolds, PTL DEF Spec, NothingLeftBehind

\* A new entry comes to stand before none of its time.
LEMMA InsertedLast ==
  ASSUME NEW es \in Seq(Entry), Sorted(es), NEW at \in Nat, NEW e \in Events,
         NEW i \in 1..Len(Inserted(es, at, e)), NEW j \in 1..Len(Inserted(es, at, e)),
         i < j, Inserted(es, at, e)[i].at = Inserted(es, at, e)[j].at
  PROVE  \E p \in 1..Len(es) : Inserted(es, at, e)[i] = es[p]
<1> DEFINE new == Inserted(es, at, e)
           x == [at |-> at, event |-> e]
<1>1. Len(es) \in Nat /\ \A p \in 1..Len(es) : es[p].at \in Nat
  <2>1. Len(es) \in Nat /\ \A p \in 1..Len(es) : es[p] \in Entry
    BY LenProperties, ElementOfSeq
  <2> QED
    BY <2>1 DEF Entry
<1>2. PICK k \in 1..(Len(es) + 1) :
        /\ IsInsertion(new, es, x, k)
        /\ \A p \in k..Len(es) : es[p].at > at
  BY InsertedPlace
<1> HIDE DEF new
<1>3. /\ \A q \in 1..Len(new) :
           q # k => LET p == IF q < k THEN q ELSE q - 1
                    IN p \in 1..Len(es) /\ new[q] = es[p]
      /\ k \in 1..Len(new) /\ new[k] = x /\ Len(new) = Len(es) + 1
  BY <1>1, <1>2, InsertionPlaces
<1>4. /\ i \in 1..Len(new) /\ j \in 1..Len(new) /\ new[i].at = new[j].at
  BY DEF new
<1>5. i # k
  <2>1. CASE i = k
    <3>1. j - 1 \in k..Len(es) /\ new[j] = es[j - 1] /\ j - 1 \in 1..Len(es)
      <4>1. j \in 1..Len(new) /\ i < j /\ i \in Int /\ j \in Int
        BY <1>4
      <4>2. j # k /\ ~(j < k)
        BY <4>1, <2>1
      <4>3. j - 1 \in 1..Len(es) /\ new[j] = es[j - 1]
        BY <1>3, <4>1, <4>2
      <4> QED
        BY <4>1, <4>2, <4>3, <2>1, <1>1
    <3>2. new[i].at = at
      BY <1>3, <2>1
    <3> QED
      BY <1>1, <1>2, <1>4, <3>1, <3>2
  <2> QED
    BY <2>1
<1>6. \E p \in 1..Len(es) : new[i] = es[p]
  BY <1>3, <1>4, <1>5
<1> QED
  BY <1>6 DEF new

\* Events due at one time are called in the order in which they were put in:
\* multimap::insert and the erasure of the first entry never bring a new entry
\* before an older one of its time.
THEOREM NoOvertakingHolds == Spec => NoOvertaking
<1> DEFINE Kept == \A i, j \in DOMAIN events' :
                     i < j /\ events'[i].at = events'[j].at /\ events'[j] \in ToSet(events)
                       => events'[i] \in ToSet(events)
<1>1. ASSUME IInv, Next PROVE Kept
  <2>1. TypeOK /\ EntriesInv /\ PlaceInv
    BY <1>1 DEF IInv
  <2>2. /\ events \in Seq(Entry) /\ Len(events) \in Nat /\ now \in Nat
        /\ DOMAIN events = 1..Len(events) /\ Sorted(events)
    BY <2>1, TypeFacts, LenProperties DEF EntriesInv
  <2>3. ToSet(events) = {events[p] : p \in 1..Len(events)}
    BY <2>2 DEF ToSet
  <2>4. CASE events' = events \/ events' = << >>
    BY <2>4 DEF ToSet
  <2>5. CASE events # << >> /\ events' = Tail(events)
    <3>1. /\ DOMAIN events' = 1..(Len(events) - 1)
          /\ \A i \in 1..(Len(events) - 1) : events'[i] = events[i + 1]
      BY <2>2, <2>5, TailPlaces, LenProperties
    <3>2. \A i \in DOMAIN events' : events'[i] \in ToSet(events)
      BY <2>2, <2>3, <3>1
    <3> QED
      BY <3>2
  <2>6. ASSUME NEW e \in Events, NEW at \in Nat, NEW new, new = Inserted(events, at, e)
        PROVE  /\ new \in Seq(Entry) /\ DOMAIN new = 1..Len(new) /\ Len(new) = Len(events) + 1
               /\ \A i, j \in 1..Len(new) : i < j /\ new[i].at = new[j].at => new[i] \in ToSet(events)
    <3>1. new \in Seq(Entry) /\ Len(new) = Len(events) + 1
      <4>1. /\ Inserted(events, at, e) \in Seq(Entry)
            /\ \E k \in 1..(Len(events) + 1) :
                 IsInsertion(Inserted(events, at, e), events, [at |-> at, event |-> e], k)
        BY <2>2, InsertedPlace
      <4> QED
        BY <2>6, <4>1 DEF IsInsertion
    <3>2. DOMAIN new = 1..Len(new)
      BY <3>1, LenProperties
    <3>3. \A i, j \in 1..Len(new) : i < j /\ new[i].at = new[j].at =>
            \E p \in 1..Len(events) : new[i] = events[p]
      BY <2>2, <2>6, InsertedLast
    <3> QED
      BY <2>3, <3>1, <3>2, <3>3
  <2>7. CASE \E e \in Events, o \in Offsets : Schedule(e, o)
    <3>1. PICK e \in Events, o \in Offsets : Schedule(e, o)
      BY <2>7
    <3>2. events' = Inserted(events, now + o, e) /\ now + o \in Nat
      BY <2>2, <3>1, SimAssumption DEF Schedule
    <3> QED
      BY <2>6, <3>2
  <2>8. CASE \E e \in Events : BodyReturns(e) /\ e \in Periodic
    <3>1. PICK e \in Events : BodyReturns(e) /\ e \in Periodic
      BY <2>8
    <3> DEFINE all == Inserted(events, now + Period, e)
    <3>2. events' = Tail(all) /\ now + Period \in Nat
      BY <2>2, <3>1, SimAssumption DEF BodyReturns, PutBack
    <3>3. /\ all \in Seq(Entry) /\ Len(all) = Len(events) + 1
          /\ \A i, j \in 1..Len(all) : i < j /\ all[i].at = all[j].at => all[i] \in ToSet(events)
      BY <2>6, <3>2
    <3> HIDE DEF all
    <3>4. /\ DOMAIN events' = 1..Len(events)
          /\ \A i \in 1..Len(events) : events'[i] = all[i + 1]
      <4>1. all # << >>
        BY <2>2, <3>3, EmptySeq
      <4> QED
        BY <2>2, <3>2, <3>3, <4>1, TailPlaces, LenProperties
    <3> SUFFICES ASSUME NEW i \in 1..Len(events), NEW j \in 1..Len(events),
                        i < j, events'[i].at = events'[j].at
                 PROVE  events'[i] \in ToSet(events)
      BY <3>4
    <3>5. /\ i + 1 \in 1..Len(all) /\ j + 1 \in 1..Len(all) /\ i + 1 < j + 1
          /\ all[i + 1].at = all[j + 1].at
      BY <2>2, <3>3, <3>4
    <3> QED
      BY <3>3, <3>4, <3>5
  <2>9. CASE TakeNext \/ \E e \in Events : BodyReturns(e) /\ e \notin Periodic
    <3>1. events # << >>
      BY <2>9 DEF TakeNext, BodyReturns, PutBack
    <3>2. events' = events \/ events' = Tail(events)
      BY <2>9 DEF TakeNext, BodyReturns, PutBack
    <3> QED
      BY <2>4, <2>5, <3>1, <3>2
  <2>10. CASE \/ LeaveLoop \/ Finish \/ Await \/ WaitReturns \/ ReturnStopped \/ Stop \/ ClearSchedule
              \/ TakeNothing \/ \E e \in Events : EraseNothing(e)
              \/ \E d \in Durations : Simulate(d)
              \/ \E e \in Events : Cancel(e)
    <3>1. events' = events \/ events' = << >>
      BY <2>10 DEF LeaveLoop, Finish, Await, WaitReturns, ReturnStopped, Stop, ClearSchedule,
                   TakeNothing, EraseNothing, Simulate, Cancel
    <3> QED
      BY <2>4, <3>1
  <2> QED
    BY <1>1, <2>7, <2>8, <2>9, <2>10 DEF Next, Running
<1>2. IInv /\ [Next]_vars => [Kept]_vars
  BY <1>1
<1> QED
  BY <1>2, InvariantHolds, PTL DEF Spec, NoOvertaking
=============================================================================
