------------------------------- MODULE Codec -------------------------------
(***************************************************************************)
(* DataPresentation: values are stored into an archive, headers are put    *)
(* before them, and all of it is loaded again from a packet or a file,     *)
(* which may have been cut short on the way.                               *)
(*                                                                         *)
(* A byte is a number below Byte (256 in the code).  A type is a kind with *)
(* its arguments: <<"pod", bytes>> (the value is those bytes), <<"enum">>, *)
(* <<"double">> (also an angle), <<"string">> (also a Configuration and a  *)
(* Packet, which are stored as one), <<"array", T, n>>, <<"pair", T, U>>,  *)
(* <<"map", P>> for a type P of pairs, <<"set", Ts>> (the parameters of a  *)
(* parameter set), <<"matrix", rows, columns, <<"scalar">> >>, 0 for a     *)
(* dynamic size, and <<"vector", T, v>> and <<"optional", T, v>>, where v  *)
(* is what the variable holds before it is loaded: nothing, or what a      *)
(* parameter has by default.  A double has two bytes, of which the float   *)
(* that it is compressed to keeps the upper one.                           *)
(***************************************************************************)
EXTENDS Integers, FiniteSets, SequencesExt

CONSTANTS
  Byte,   \* number of values of a byte
  Types,  \* the types, with those they are made of
  Vals,   \* the values that are stored, for each type
  Depth,  \* bound on the nesting of the types
  Cases   \* [values, headers, mode, compress]: the values and the headers, each with its
          \* type, how they are loaded ("extract", "tuple" or "file") and ArchiveOptions

Bytes == 0..(Byte - 1)

Formed(T) ==
  \/ T[1] = "pod" /\ T[2] \in Nat \ {0}
  \/ T[1] \in {"enum", "double", "scalar", "string"}
  \/ T[1] \in {"vector", "optional"} /\ T[2] \in Types
  \/ T[1] = "array" /\ T[2] \in Types /\ T[3] \in Nat
  \/ T[1] = "map" /\ T[2] \in Types /\ T[2][1] = "pair"
  \/ T[1] = "pair" /\ T[2] \in Types /\ T[3] \in Types
  \/ T[1] = "set" /\ T[2] \in Seq(Types)
  \/ T[1] = "matrix" /\ T[2] \in Nat /\ T[3] \in Nat /\ T[4] = <<"scalar">> /\ T[4] \in Types

IsOf(v, T) ==
  CASE T[1] = "pod" -> v \in Seq(Bytes) /\ Len(v) = T[2]
    [] T[1] = "enum" -> v \in Nat
    [] T[1] \in {"double", "scalar"} -> v \in Seq(Bytes) /\ Len(v) = 2
    [] T[1] = "string" -> v \in Seq(Bytes)
    [] T[1] = "vector" -> v \in Seq(Vals[T[2]])
    [] T[1] = "array" -> v \in Seq(Vals[T[2]]) /\ Len(v) = T[3]
    [] T[1] = "optional" -> v \in Seq(Vals[T[2]]) /\ Len(v) <= 1
    [] T[1] = "map" -> IsFiniteSet(DOMAIN v) /\ v = [k \in DOMAIN v |-> v[k]]
                         /\ \A k \in DOMAIN v : <<k, v[k]>> \in Vals[T[2]]
    [] T[1] = "pair" -> v = <<v[1], v[2]>> /\ v[1] \in Vals[T[2]] /\ v[2] \in Vals[T[3]]
    [] T[1] = "set" -> /\ v = [i \in 1..Len(T[2]) |-> v[i]]
                       /\ \A i \in 1..Len(T[2]) : v[i] \in Vals[T[2][i]]
    [] T[1] = "matrix" -> /\ v = [rows |-> v.rows, cols |-> v.cols, data |-> v.data]
                          /\ v.rows \in Nat /\ v.cols \in Nat /\ v.data \in Seq(Vals[T[4]])
                          /\ Len(v.data) = v.rows * v.cols
                          /\ T[2] \in {0, v.rows} /\ T[3] \in {0, v.cols}

\* values with their types
Items == UNION {[type : {T}, val : Vals[T]] : T \in Types}

ASSUME CodecAssumption ==
  /\ Byte \in Nat /\ Byte > 1 /\ Depth \in Nat
  /\ \A T \in Types : Formed(T) /\ \A v \in Vals[T] : IsOf(v, T)
  /\ \A c \in Cases : /\ c.values \in Seq(Items) /\ c.values # << >> /\ c.headers \in Seq(Items)
                      /\ c.mode \in {"extract", "tuple", "file"} /\ c.compress \in BOOLEAN
                      /\ c.mode = "file" => c.headers = << >>

SizeBytes == 2   \* std::uint16_t
CountBytes == 1  \* std::uint8_t
IndexBytes == 2  \* Eigen::Index: 8 in the code

\* a number in one byte or in two, the lower one first
\* A slip: the last byte is not cut.
DigitsWide(v, n) == IF n = 1 THEN <<v>> ELSE <<v % Byte, v \div Byte>>
Digits(v, n) == IF n = 1 THEN <<v % Byte>> ELSE <<v % Byte, (v \div Byte) % Byte>>
Number(b) == IF Len(b) = 1 THEN b[1] ELSE b[1] + Byte * b[2]

Repeat(T, n) == [i \in 1..n |-> T]

----------------------------------------------------------------------------
\* Storing.  Inner[T][compress][v] are the bytes of a value within another one.

Joins(parts) ==
  LET joined[k \in Nat] == IF k = 0 THEN << >> ELSE joined[k - 1] \o parts[k]
  IN joined
Joined(parts) == Joins(parts)[Len(parts)]

StoreAll(Inner, Ts, v, compress) == Joined([i \in 1..Len(Ts) |-> Inner[Ts[i]][compress][v[i]]])
StoreDouble(v, compress) == IF compress THEN <<v[2]>> ELSE v
StoreString(v) == Digits(Len(v), SizeBytes) \o v
StoreVector(Inner, T, v, compress) ==
  Digits(Len(v), SizeBytes) \o StoreAll(Inner, Repeat(T, Len(v)), v, compress)
StoreOptional(Inner, T, v, compress) ==
  Digits(Len(v), 1) \o StoreAll(Inner, Repeat(T, Len(v)), v, compress)
\* the order of a map
Keys(v) == LET n == Cardinality(DOMAIN v) IN
  CHOOSE s \in [1..n -> DOMAIN v] : \A k \in DOMAIN v : \E i \in 1..n : s[i] = k
Entries(v) == [i \in 1..Cardinality(DOMAIN v) |-> <<Keys(v)[i], v[Keys(v)[i]]>>]
StoreMap(Inner, P, v, compress) ==
  Digits(Cardinality(DOMAIN v), CountBytes)
    \o StoreAll(Inner, Repeat(P, Cardinality(DOMAIN v)), Entries(v), compress)
StoreMatrix(Inner, T, v, compress) ==
  (IF T[2] = 0 THEN Digits(v.rows, IndexBytes) ELSE << >>)
    \o ((IF T[3] = 0 THEN Digits(v.cols, IndexBytes) ELSE << >>)
          \o StoreAll(Inner, Repeat(T[4], v.rows * v.cols), v.data, compress))

StoreKind(Inner, T, v, compress) ==
  CASE T[1] = "pod" -> v
    [] T[1] = "enum" -> Digits(v, 1)
    [] T[1] \in {"double", "scalar"} -> StoreDouble(v, compress)
    [] T[1] = "string" -> StoreString(v)
    [] T[1] = "vector" -> StoreVector(Inner, T[2], v, compress)
    [] T[1] = "array" -> StoreAll(Inner, Repeat(T[2], T[3]), v, compress)
    [] T[1] = "optional" -> StoreOptional(Inner, T[2], v, compress)
    [] T[1] = "map" -> StoreMap(Inner, T[2], v, compress)
    [] T[1] = "pair" -> StoreAll(Inner, <<T[2], T[3]>>, v, compress)
    [] T[1] = "set" -> StoreAll(Inner, T[2], v, compress)
    [] T[1] = "matrix" -> StoreMatrix(Inner, T, v, compress)

\* the values of types that nest n deep
StoreNone == [T \in Types |-> [compress \in BOOLEAN |-> [v \in Vals[T] |-> << >>]]]
StoreTable(Inner) == [T \in Types |-> [compress \in BOOLEAN |->
                        [v \in Vals[T] |-> StoreKind(Inner, T, v, compress)]]]
Stores[n \in Nat] == IF n = 0 THEN StoreNone ELSE StoreTable(Stores[n - 1])
Store(T, v, compress) == Stores[Depth][T][compress][v]

----------------------------------------------------------------------------
\* Loading from position i of the archive a: the value, the next position, and "ok",
\* "error" (ArchiveError) or "undefined" (bytes from outside of the archive, or a variable
\* that a file has not filled).  Inner[T][a][i] loads a value within another one.

Archives == [data : Seq(Bytes), file : BOOLEAN, compress : BOOLEAN]
Ok(v, i) == [val |-> v, idx |-> i, status |-> "ok"]
Stop(i, status) == [val |-> << >>, idx |-> i, status |-> status]

\* BinaryFromArchive::begin
\* A slip: one position too far is let through.
InsideOrEnd(a, i) == i <= Len(a.data)
Inside(a, i) == i < Len(a.data)

\* read: a string has a zero behind its last byte, which may be read
Readable(a) == IF a.file THEN a.data ELSE Append(a.data, 0)
ReadBytes(n, a, i) ==
  IF i + n <= Len(Readable(a)) THEN Ok(SubSeq(Readable(a), i + 1, i + n), i + n)
  ELSE Stop(i, "undefined")
\* load of a number of bytes
LoadBytes(n, a, i) == IF a.file \/ Inside(a, i) THEN ReadBytes(n, a, i) ELSE Stop(i, "error")

LoadNumber(n, a, i) ==
  LET r == LoadBytes(n, a, i) IN IF r.status = "ok" THEN Ok(Number(r.val), r.idx) ELSE r
Decompressed(r, a) ==
  IF r.status = "ok" /\ a.compress THEN Ok(<<0, r.val[1]>>, r.idx) ELSE r
DoubleBytes(a) == IF a.compress THEN 1 ELSE 2
LoadDouble(a, i) == Decompressed(LoadBytes(DoubleBytes(a), a, i), a)
ReadDouble(a, i) == Decompressed(ReadBytes(DoubleBytes(a), a, i), a)
LoadString(a, i) ==
  LET n == LoadNumber(SizeBytes, a, i) IN IF n.status = "ok" THEN ReadBytes(n.val, a, n.idx) ELSE n

\* values of the types Ts one after another, appended to those that read has
LoadNext(Inner, T, a, r) ==
  IF r.status # "ok" THEN r
  ELSE LET e == Inner[T][a][r.idx] IN IF e.status = "ok" THEN Ok(Append(r.val, e.val), e.idx) ELSE e
LoadsAll(Inner, Ts, a, i, read) ==
  LET loaded[k \in Nat] ==
        IF k = 0 THEN Ok(read, i) ELSE LoadNext(Inner, Ts[k], a, loaded[k - 1])
  IN loaded
LoadAll(Inner, Ts, a, i, read) == LoadsAll(Inner, Ts, a, i, read)[Len(Ts)]

\* The vector is not cleared, nor an optional reset.
\* A slip: the vector is one short.
LoadVectorShort(Inner, T, a, i) ==
  LET n == LoadNumber(SizeBytes, a, i)
  IN IF n.status # "ok" THEN n
     ELSE LoadAll(Inner, Repeat(T[2], IF n.val = 0 THEN 0 ELSE n.val - 1), a, n.idx, T[3])
LoadVector(Inner, T, a, i) ==
  LET n == LoadNumber(SizeBytes, a, i)
  IN IF n.status # "ok" THEN n ELSE LoadAll(Inner, Repeat(T[2], n.val), a, n.idx, T[3])
LoadOptional(Inner, T, a, i) ==
  LET n == LoadNumber(1, a, i)
  IN IF n.status # "ok" THEN n
     ELSE IF n.val = 0 THEN Ok(T[3], n.idx) ELSE LoadAll(Inner, <<T[2]>>, a, n.idx, << >>)
\* insert keeps the first of two values for a key
Inserted(pairs) ==
  [key \in {pairs[x][1] : x \in DOMAIN pairs} |->
     pairs[CHOOSE x \in DOMAIN pairs : pairs[x][1] = key /\ \A y \in 1..(x - 1) : pairs[y][1] # key][2]]
LoadMap(Inner, P, a, i) ==
  LET n == LoadNumber(CountBytes, a, i)
      r == LoadAll(Inner, Repeat(P, n.val), a, n.idx, << >>)
  IN IF n.status # "ok" THEN n ELSE IF r.status # "ok" THEN r ELSE Ok(Inserted(r.val), r.idx)
LoadIndex(size, a, i) == IF size = 0 THEN LoadNumber(IndexBytes, a, i) ELSE Ok(size, i)
LoadMatrix(Inner, T, a, i) ==
  LET r == LoadIndex(T[2], a, i)
      c == LoadIndex(T[3], a, r.idx)
      d == LoadAll(Inner, Repeat(T[4], r.val * c.val), a, c.idx, << >>)
  IN IF r.status # "ok" THEN r ELSE IF c.status # "ok" THEN c ELSE IF d.status # "ok" THEN d
     ELSE Ok([rows |-> r.val, cols |-> c.val, data |-> d.val], d.idx)

LoadKind(Inner, T, a, i) ==
  CASE T[1] = "pod" -> LoadBytes(T[2], a, i)
    [] T[1] = "enum" -> LoadNumber(1, a, i)
    [] T[1] = "double" -> LoadDouble(a, i)
    [] T[1] = "scalar" -> ReadDouble(a, i)
    [] T[1] = "string" -> LoadString(a, i)
    [] T[1] = "vector" -> LoadVector(Inner, T, a, i)
    [] T[1] = "array" -> LoadAll(Inner, Repeat(T[2], T[3]), a, i, << >>)
    [] T[1] = "optional" -> LoadOptional(Inner, T, a, i)
    [] T[1] = "map" -> LoadMap(Inner, T[2], a, i)
    [] T[1] = "pair" -> LoadAll(Inner, <<T[2], T[3]>>, a, i, << >>)
    [] T[1] = "set" -> LoadAll(Inner, T[2], a, i, << >>)
    [] T[1] = "matrix" -> LoadMatrix(Inner, T, a, i)

LoadNone == [T \in Types |-> [a \in Archives |-> [i \in Nat |-> Stop(i, "undefined")]]]
LoadTable(Inner) == [T \in Types |-> [a \in Archives |-> [i \in Nat |-> LoadKind(Inner, T, a, i)]]]
Loads[n \in Nat] == IF n = 0 THEN LoadNone ELSE LoadTable(Loads[n - 1])
Load(T, a, i) == Loads[Depth][T][a][i]

----------------------------------------------------------------------------
VARIABLES
  case,    \* the case: what is stored, and how
  buffer,  \* the packet, or the file
  written, \* values and headers written
  cut,     \* bytes that are cut off on the way
  pos,     \* idx_ of the archive that is read
  got,     \* values loaded
  phase,   \* "store", "load" or "done"
  status   \* "ok", "defaulted" (T() after an ArchiveError), "thrown" or "undefined"

vars == <<case, buffer, written, cut, pos, got, phase, status>>

Count == Len(case.values)
Headers == Len(case.headers)
\* the last header comes first
Order == Reverse(case.headers) \o case.values

Init ==
  /\ case \in Cases /\ buffer = << >> /\ written = 0 /\ cut = 0 /\ pos = 0 /\ got = << >>
  /\ phase = "store" /\ status = "ok"

StoreItem(item) == Store(item.type, item.val, case.compress)

\* archive << value
StoreValue ==
  /\ phase = "store" /\ written < Count /\ written' = written + 1
  /\ buffer' = buffer \o StoreItem(case.values[written + 1])
  /\ UNCHANGED <<case, cut, pos, got, phase, status>>

\* addHeader, with Packet::prepend
AddHeader ==
  /\ phase = "store" /\ written >= Count /\ written < Count + Headers /\ written' = written + 1
  /\ buffer' = StoreItem(case.headers[written + 1 - Count]) \o buffer
  /\ UNCHANGED <<case, cut, pos, got, phase, status>>

\* the bytes come to the reader, but for the last of them
Transmit ==
  /\ phase = "store" /\ written = Count + Headers /\ phase' = "load"
  /\ \E n \in 0..Len(buffer) : cut' = n /\ buffer' = SubSeq(buffer, 1, Len(buffer) - n)
  /\ UNCHANGED <<case, written, pos, got, status>>

\* Packet::consume
Consume(length) == IF length > Len(buffer) THEN buffer ELSE SubSeq(buffer, length + 1, Len(buffer))

Archive == [data |-> buffer, file |-> case.mode = "file", compress |-> case.compress]

\* The next value: mode "extract" (dp::extract) and headers take it out of the packet,
\* "tuple" (DataPresentation::deserialize) and "file" go on in the archive; the dp
\* functions give T() for an empty packet and after an ArchiveError.
LoadValue ==
  /\ phase = "load" /\ Len(got) < Len(Order) /\ status = "ok"
  /\ LET header == Len(got) < Headers
         catches == case.mode = "extract" /\ ~header
         r == IF catches /\ buffer = << >> THEN Stop(0, "error")
              ELSE Load(Order[Len(got) + 1].type, Archive, pos)
         takes == r.status = "ok" /\ (header \/ case.mode = "extract")
     IN /\ got' = IF r.status = "ok" THEN Append(got, r.val) ELSE got
        /\ buffer' = IF takes THEN Consume(r.idx) ELSE buffer
        /\ pos' = IF takes THEN 0 ELSE r.idx
        /\ status' = CASE r.status # "error" -> r.status
                       [] r.status = "error" /\ catches -> "defaulted"
                       [] r.status = "error" /\ ~catches -> "thrown"
  /\ UNCHANGED <<case, written, cut, phase>>

EndLoad ==
  /\ phase = "load" /\ (Len(got) = Len(Order) \/ status # "ok") /\ phase' = "done"
  /\ UNCHANGED <<case, buffer, written, cut, pos, got, status>>

Next == StoreValue \/ AddHeader \/ Transmit \/ LoadValue \/ EndLoad
Spec == Init /\ [][Next]_vars

----------------------------------------------------------------------------
TypeOK ==
  /\ \A i \in DOMAIN buffer : buffer[i] \in Bytes
  /\ Len(got) <= Len(Order) /\ pos \in Nat
  /\ status \in {"ok", "defaulted", "thrown", "undefined"}

\* Values that an archive keeps: they take at least a byte, sizes are below the limit, a
\* float keeps a compressed double, and what a parameter has by default is not added to.
KeptKind(Inner, v, T, compress, limit) ==
  CASE T[1] = "pod" -> TRUE
    [] T[1] = "enum" -> v < Byte
    [] T[1] \in {"double", "scalar"} -> compress => v[1] = 0
    [] T[1] = "string" -> Len(v) < limit
    [] T[1] = "vector" -> /\ Len(v) < limit /\ T[3] = << >>
                          /\ \A i \in 1..Len(v) : v[i] \in Inner[T[2]][compress][limit]
    [] T[1] = "array" -> T[3] > 0 /\ \A i \in 1..Len(v) : v[i] \in Inner[T[2]][compress][limit]
    [] T[1] = "optional" -> /\ T[3] = << >> \/ v # << >>
                            /\ \A i \in 1..Len(v) : v[i] \in Inner[T[2]][compress][limit]
    [] T[1] = "map" -> /\ Cardinality(DOMAIN v) < Byte
                       /\ \A k \in DOMAIN v : <<k, v[k]>> \in Inner[T[2]][compress][limit]
    [] T[1] = "pair" -> v[1] \in Inner[T[2]][compress][limit] /\ v[2] \in Inner[T[3]][compress][limit]
    [] T[1] = "set" -> /\ Len(T[2]) > 0
                       /\ \A i \in 1..Len(T[2]) : v[i] \in Inner[T[2][i]][compress][limit]
    [] T[1] = "matrix" -> /\ v.rows < limit /\ v.cols < limit
                          /\ T[2] = 0 \/ T[3] = 0 \/ v.data # << >>
                          /\ \A i \in 1..Len(v.data) : v.data[i] \in Inner[T[4]][compress][limit]
KeepNone == [T \in Types |-> [compress \in BOOLEAN |-> [limit \in Nat |-> {}]]]
KeepTable(Inner) == [T \in Types |-> [compress \in BOOLEAN |-> [limit \in Nat |->
                       {v \in Vals[T] : KeptKind(Inner, v, T, compress, limit)}]]]
Keeps[n \in Nat] == IF n = 0 THEN KeepNone ELSE KeepTable(Keeps[n - 1])
KeptBelow(limit) == \A i \in 1..Len(Order) : Order[i].val \in Keeps[Depth][Order[i].type][case.compress][limit]
AllKept == KeptBelow(Byte * Byte)

\* Values come back as they were stored, from a packet and from a file, one after
\* another and behind headers that are taken off in reverse order, and nothing is left
\* over.
RoundTrip ==
  phase = "done" /\ cut = 0 /\ AllKept =>
    /\ status = "ok" /\ got = [i \in 1..Len(Order) |-> Order[i].val]
    /\ IF case.mode = "extract" THEN buffer = << >> ELSE pos = Len(buffer)

\* Types whose loading begins with the test of BinaryFromArchive::begin, up to a nesting;
\* the data of a matrix are read without it, and nothing is loaded for an empty array.
BeginTable(Inner) ==
  {T \in Types :
     \/ T[1] \in {"pod", "enum", "double", "string", "vector", "optional", "map"}
     \/ T[1] = "matrix" /\ (T[2] = 0 \/ T[3] = 0)
     \/ T[1] = "array" /\ T[3] > 0 /\ T[2] \in Inner
     \/ T[1] = "pair" /\ T[2] \in Inner
     \/ T[1] = "set" /\ T[2] # << >> /\ T[2][1] \in Inner}
Begins[n \in Nat] == IF n = 0 THEN {} ELSE BeginTable(Begins[n - 1])

\* the bytes of the first k values and headers
FirstBytes(k) == Joins([i \in 1..Len(Order) |-> StoreItem(Order[i])])[k]
Arrived == Len(FirstBytes(Len(Order))) - cut

\* a value behind the first k that a packet is tested for
NextBegins(k) == k < Len(Order) /\ case.mode # "file" /\ Order[k + 1].type \in Begins[Depth]

\* What is cut off does no harm to the values before it, and a packet that ends just
\* before a value is noticed to be too short: nothing more is loaded, and the reader gets
\* T() or an ArchiveError.  (A packet that is cut within a value is read past its end,
\* and a file that is too short leaves the variable as it was: neither is noticed, and
\* nothing is said of what comes then, "undefined".)
MissingNoticed ==
  phase = "done" /\ AllKept =>
    \A k \in 0..Len(Order) :
      /\ Len(FirstBytes(k)) <= Arrived => Len(got) >= k /\ \A i \in 1..k : got[i] = Order[i].val
      /\ Len(FirstBytes(k)) = Arrived /\ NextBegins(k)
           => Len(got) = k /\ status \in {"defaulted", "thrown"}
=============================================================================
