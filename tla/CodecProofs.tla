---------------------------- MODULE CodecProofs ----------------------------
(***************************************************************************)
(* What an archive keeps is loaded as it was stored, for types and values  *)
(* of any kind and nesting, and a packet that ends before a value is       *)
(* noticed to be too short.                                                *)
(*                                                                         *)
(* StoreKind and LoadKind are shown to be inverse for each kind of type,   *)
(* given that the tables of the values within are (StoreKindGood); so the  *)
(* tables of every depth are right (TablesEach).  For the machine, what    *)
(* has been stored are the bytes of a range of the items, and what has     *)
(* been loaded are the first items, the bytes of which are passed, as far  *)
(* as items have arrived as a whole.                                       *)
(***************************************************************************)
EXTENDS Codec, NatSetInduction, FiniteSetTheorems, SequenceTheorems, TLAPS

-----------------------------------------------------------------------------
(* The recursive functions of Codec have the values that their definitions give *)

First(R) ==
  CASE R[1] = "join" -> << >>
    [] R[1] = "loads" -> Ok(R[6], R[5])
    [] R[1] = "store" -> StoreNone
    [] R[1] = "load" -> LoadNone
    [] R[1] = "keep" -> KeepNone
    [] R[1] = "begin" -> {}
Step(R, before, n) ==
  CASE R[1] = "join" -> before \o R[2][n]
    [] R[1] = "loads" -> LoadNext(R[2], R[3][n], R[4], before)
    [] R[1] = "store" -> StoreTable(before)
    [] R[1] = "load" -> LoadTable(before)
    [] R[1] = "keep" -> KeepTable(before)
    [] R[1] = "begin" -> BeginTable(before)
Recursive(R, f) == f = [n \in Nat |-> IF n = 0 THEN First(R) ELSE Step(R, f[n - 1], n)]
Approximates(R, f, n) == f = [m \in 0..n |-> IF m = 0 THEN First(R) ELSE Step(R, f[m - 1], m)]

\* What has been computed up to n can be continued.
LEMMA Approximations ==
  ASSUME NEW R
  PROVE  \A n \in Nat : \E f : Approximates(R, f, n)
<1> DEFINE U == {n \in Nat : \E f : Approximates(R, f, n)}
<1>1. 0 \in U
  <2> DEFINE f == [m \in 0..0 |-> First(R)]
  <2>1. Approximates(R, f, 0)
    BY DEF Approximates
  <2> QED
    BY <2>1
<1>2. ASSUME NEW n \in Nat, n \in U PROVE n + 1 \in U
  <2>1. PICK f : Approximates(R, f, n)
    BY <1>2
  <2> DEFINE g == [m \in 0..(n + 1) |-> IF m <= n THEN f[m] ELSE Step(R, f[n], n + 1)]
  <2>2. ASSUME NEW m \in 0..(n + 1) PROVE g[m] = IF m = 0 THEN First(R) ELSE Step(R, g[m - 1], m)
    <3>1. CASE m <= n
      BY <2>1, <3>1 DEF Approximates
    <3>2. CASE ~(m <= n)
      <4>1. m = n + 1 /\ m - 1 = n /\ m # 0 /\ n \in 0..(n + 1)
        BY <3>2
      <4> QED
        BY <4>1
    <3> QED
      BY <3>1, <3>2
  <2>3. g = [m \in 0..(n + 1) |-> g[m]]
    OBVIOUS
  <2> HIDE DEF g
  <2>4. Approximates(R, g, n + 1)
    BY <2>2, <2>3 DEF Approximates
  <2> QED
    BY <2>4
<1> HIDE DEF U
<1>3. Nat \subseteq U
  BY <1>1, <1>2, SetInduction
<1> QED
  BY <1>3 DEF U

\* Two computations agree as far as both go.
LEMMA SameBelow ==
  ASSUME NEW R, NEW n \in Nat, NEW f, NEW g, Approximates(R, f, n), Approximates(R, g, n + 1)
  PROVE  f[n] = g[n]
<1> DEFINE V == {k \in Nat : k <= n => f[k] = g[k]}
<1>1. 0 \in V
  BY DEF Approximates
<1>2. ASSUME NEW k \in Nat, k \in V PROVE k + 1 \in V
  <2> SUFFICES ASSUME k + 1 <= n PROVE f[k + 1] = g[k + 1]
    OBVIOUS
  <2>1. f[k + 1] = Step(R, f[k], k + 1) /\ g[k + 1] = Step(R, g[k], k + 1)
    BY DEF Approximates
  <2> QED
    BY <1>2, <2>1
<1>3. n \in V
  <2> HIDE DEF V
  <2> QED
    BY <1>1, <1>2, SetInduction
<1> QED
  BY <1>3

\* So there is the whole function.
LEMMA Recursion == ASSUME NEW R PROVE \E f : Recursive(R, f)
<1> DEFINE at(n) == CHOOSE f : Approximates(R, f, n)
           h == [n \in Nat |-> at(n)[n]]
<1>1. \A n \in Nat : Approximates(R, at(n), n)
  BY Approximations
<1> HIDE DEF at
<1>2. ASSUME NEW n \in Nat PROVE h[n] = IF n = 0 THEN First(R) ELSE Step(R, h[n - 1], n)
  <2>1. Approximates(R, at(n), n)
    BY <1>1
  <2>2. CASE n = 0
    BY <2>1, <2>2 DEF Approximates
  <2>3. CASE n # 0
    <3>1. n - 1 \in Nat /\ (n - 1) + 1 = n
      BY <2>3
    <3>2. at(n - 1)[n - 1] = at(n)[n - 1]
      BY <1>1, <3>1, SameBelow
    <3>3. at(n)[n] = Step(R, at(n)[n - 1], n)
      BY <2>1, <2>3 DEF Approximates
    <3> QED
      BY <2>3, <3>1, <3>2, <3>3
  <2> QED
    BY <2>2, <2>3
<1>3. h = [n \in Nat |-> h[n]]
  OBVIOUS
<1> HIDE DEF h
<1>4. Recursive(R, h)
  BY <1>2, <1>3 DEF Recursive
<1> QED
  BY <1>4

\* What a recursive function gives, case by case.
LEMMA Unrolled ==
  ASSUME NEW R, NEW f, Recursive(R, f)
  PROVE  f[0] = First(R) /\ \A n \in Nat : f[n + 1] = Step(R, f[n], n + 1)
BY DEF Recursive

\* Joins takes one part after another.
LEMMA JoinsEach ==
  ASSUME NEW parts
  PROVE  /\ Joins(parts)[0] = << >>
         /\ \A n \in Nat : Joins(parts)[n + 1] = Joins(parts)[n] \o parts[n + 1]
<1> DEFINE R == <<"join", parts>>
           Body(f) == f = [n \in Nat |-> IF n = 0 THEN << >> ELSE f[n - 1] \o parts[n]]
<1>1. First(R) = << >> /\ \A x, n : Step(R, x, n) = x \o parts[n]
  BY DEF First, Step
<1> HIDE DEF R
<1>2. ASSUME NEW f PROVE Recursive(R, f) <=> Body(f)
  BY <1>1 DEF Recursive
<1>3. Joins(parts) = CHOOSE f : Body(f)
  BY Zenon DEF Joins
<1> HIDE DEF Body
<1>4. Recursive(R, Joins(parts))
  BY <1>2, <1>3, Recursion
<1> QED
  BY <1>1, <1>4, Unrolled

\* LoadsAll loads one value after another.
LEMMA LoadsAllEach ==
  ASSUME NEW Inner, NEW Ts, NEW a, NEW i, NEW read
  PROVE  LET all == LoadsAll(Inner, Ts, a, i, read) IN
         /\ all[0] = Ok(read, i)
         /\ \A n \in Nat : all[n + 1] = LoadNext(Inner, Ts[n + 1], a, all[n])
<1> DEFINE R == <<"loads", Inner, Ts, a, i, read>>
           Body(f) == f = [n \in Nat |-> IF n = 0 THEN Ok(read, i) ELSE LoadNext(Inner, Ts[n], a, f[n - 1])]
<1>1. First(R) = Ok(read, i) /\ \A x, n : Step(R, x, n) = LoadNext(Inner, Ts[n], a, x)
  BY DEF First, Step
<1> HIDE DEF R
<1>2. ASSUME NEW f PROVE Recursive(R, f) <=> Body(f)
  BY <1>1 DEF Recursive
<1>3. LoadsAll(Inner, Ts, a, i, read) = CHOOSE f : Body(f)
  BY Zenon DEF LoadsAll
<1> HIDE DEF Body
<1>4. Recursive(R, LoadsAll(Inner, Ts, a, i, read))
  BY <1>2, <1>3, Recursion
<1> QED
  BY <1>1, <1>4, Unrolled

\* The bytes of values that nest one level deeper.
LEMMA StoresEach == Stores[0] = StoreNone /\ \A n \in Nat : Stores[n + 1] = StoreTable(Stores[n])
<1> DEFINE R == <<"store">>
           Body(f) == f = [n \in Nat |-> IF n = 0 THEN StoreNone ELSE StoreTable(f[n - 1])]
<1>1. First(R) = StoreNone /\ \A x, n : Step(R, x, n) = StoreTable(x)
  BY DEF First, Step
<1> HIDE DEF R
<1>2. ASSUME NEW f PROVE Recursive(R, f) <=> Body(f)
  BY <1>1 DEF Recursive
<1>3. Stores = CHOOSE f : Body(f)
  BY Zenon DEF Stores
<1> HIDE DEF Body
<1>4. Recursive(R, Stores)
  BY <1>2, <1>3, Recursion
<1> QED
  BY <1>1, <1>4, Unrolled

\* Loading of values that nest one level deeper.
LEMMA LoadsEach == Loads[0] = LoadNone /\ \A n \in Nat : Loads[n + 1] = LoadTable(Loads[n])
<1> DEFINE R == <<"load">>
           Body(f) == f = [n \in Nat |-> IF n = 0 THEN LoadNone ELSE LoadTable(f[n - 1])]
<1>1. First(R) = LoadNone /\ \A x, n : Step(R, x, n) = LoadTable(x)
  BY DEF First, Step
<1> HIDE DEF R
<1>2. ASSUME NEW f PROVE Recursive(R, f) <=> Body(f)
  BY <1>1 DEF Recursive
<1>3. Loads = CHOOSE f : Body(f)
  BY Zenon DEF Loads
<1> HIDE DEF Body
<1>4. Recursive(R, Loads)
  BY <1>2, <1>3, Recursion
<1> QED
  BY <1>1, <1>4, Unrolled

\* The values that are kept, one level deeper.
LEMMA KeepsEach == Keeps[0] = KeepNone /\ \A n \in Nat : Keeps[n + 1] = KeepTable(Keeps[n])
<1> DEFINE R == <<"keep">>
           Body(f) == f = [n \in Nat |-> IF n = 0 THEN KeepNone ELSE KeepTable(f[n - 1])]
<1>1. First(R) = KeepNone /\ \A x, n : Step(R, x, n) = KeepTable(x)
  BY DEF First, Step
<1> HIDE DEF R
<1>2. ASSUME NEW f PROVE Recursive(R, f) <=> Body(f)
  BY <1>1 DEF Recursive
<1>3. Keeps = CHOOSE f : Body(f)
  BY Zenon DEF Keeps
<1> HIDE DEF Body
<1>4. Recursive(R, Keeps)
  BY <1>2, <1>3, Recursion
<1> QED
  BY <1>1, <1>4, Unrolled

\* The types that are tested for, one level deeper.
LEMMA BeginsEach == Begins[0] = {} /\ \A n \in Nat : Begins[n + 1] = BeginTable(Begins[n])
<1> DEFINE R == <<"begin">>
           Body(f) == f = [n \in Nat |-> IF n = 0 THEN {} ELSE BeginTable(f[n - 1])]
<1>1. First(R) = {} /\ \A x, n : Step(R, x, n) = BeginTable(x)
  BY DEF First, Step
<1> HIDE DEF R
<1>2. ASSUME NEW f PROVE Recursive(R, f) <=> Body(f)
  BY <1>1 DEF Recursive
<1>3. Begins = CHOOSE f : Body(f)
  BY Zenon DEF Begins
<1> HIDE DEF Body
<1>4. Recursive(R, Begins)
  BY <1>2, <1>3, Recursion
<1> QED
  BY <1>1, <1>4, Unrolled

-----------------------------------------------------------------------------
(* Bytes and numbers *)

\* A byte can be 0, and there are more.
LEMMA ByteFacts == Byte \in Nat /\ Byte > 1 /\ 0 \in Bytes /\ Bytes \subseteq Nat
BY CodecAssumption DEF Bytes

\* A number is what its two digits say.
LEMMA TwoDigits ==
  ASSUME NEW B \in Nat, B > 1, NEW x \in Nat
  PROVE  /\ x % B \in 0..(B - 1) /\ x \div B \in Nat /\ x = B * (x \div B) + (x % B)
         /\ x < B => x % B = x
         /\ x < B * B => x \div B < B
<1>1. x % B \in 0..(B - 1) /\ x \div B \in Nat /\ x = B * (x \div B) + (x % B)
  OBVIOUS
<1>2. ASSUME x < B PROVE x % B = x
  <2> DEFINE q == x \div B
             r == x % B
  <2>1. q \in Nat /\ r \in Nat /\ x = B * q + r
    BY <1>1
  <2> HIDE DEF q, r
  <2>2. CASE q = 0
    BY <2>1, <2>2 DEF r
  <2>3. CASE q >= 1
    <3>1. B * q >= B
      BY <2>1, <2>3
    <3> QED
      BY <1>2, <2>1, <3>1
  <2> QED
    BY <2>1, <2>2, <2>3
<1>3. ASSUME x < B * B PROVE x \div B < B
  <2> DEFINE q == x \div B
             r == x % B
  <2>1. q \in Nat /\ r \in Nat /\ x = B * q + r
    BY <1>1
  <2> HIDE DEF q, r
  <2>2. CASE q >= B
    <3>1. B * q >= B * B
      BY <2>1, <2>2
    <3> QED
      BY <1>3, <2>1, <3>1
  <2> QED
    BY <2>1, <2>2 DEF q
<1> QED
  BY <1>1, <1>2, <1>3

\* A number that has room in n bytes.
HasRoom(x, n) == (n = 1 /\ x < Byte) \/ (n = 2 /\ x < Byte * Byte)

\* The digits of a number are bytes, which are read as that number if it is not too large.
LEMMA DigitsRead ==
  ASSUME NEW x \in Nat, NEW n \in {1, 2}
  PROVE  /\ Digits(x, n) \in Seq(Bytes) /\ Len(Digits(x, n)) = n
         /\ HasRoom(x, n) => Number(Digits(x, n)) = x
         /\ n = 2 /\ x < Byte => Digits(x, n)[2] = 0
<1> DEFINE q == x \div Byte
<1>1. /\ x % Byte \in 0..(Byte - 1) /\ q \in Nat /\ x = Byte * q + (x % Byte)
      /\ x < Byte => x % Byte = x
      /\ x < Byte * Byte => q < Byte
  BY ByteFacts, TwoDigits
<1> HIDE DEF q
<1>2. q % Byte \in 0..(Byte - 1) /\ (q < Byte => q % Byte = q)
  BY <1>1, ByteFacts, TwoDigits
<1>3. x < Byte => q = 0
  <2> SUFFICES ASSUME x < Byte PROVE q = 0
    OBVIOUS
  <2>1. Byte * q = 0
    <3> DEFINE y == Byte * q
               z == x % Byte
    <3>1. y \in Nat /\ x = y + z /\ z = x
      BY <1>1, ByteFacts
    <3> HIDE DEF y, z
    <3>2. y = 0
      BY <3>1
    <3> QED
      BY <3>2 DEF y
  <2> QED
    BY <1>1, <2>1, ByteFacts
<1>4. CASE n = 1
  <2>1. Digits(x, n) = <<x % Byte>>
    BY <1>4 DEF Digits
  <2> DEFINE y == x % Byte
  <2>2. Digits(x, n) = <<y>> /\ y \in Bytes /\ (x < Byte => y = x)
    BY <1>1, <2>1 DEF Bytes
  <2> HIDE DEF y
  <2>3. Digits(x, n) \in Seq(Bytes) /\ Len(Digits(x, n)) = 1 /\ Number(Digits(x, n)) = y
    BY <2>2 DEF Number
  <2> QED
    BY <1>4, <2>2, <2>3 DEF HasRoom
<1>5. CASE n = 2
  <2>1. Digits(x, n) = <<x % Byte, q % Byte>>
    BY <1>5 DEF Digits, q
  <2> DEFINE y == x % Byte
             z == q % Byte
  <2>2. Digits(x, n) = <<y, z>> /\ y \in Bytes /\ z \in Bytes
    BY <1>1, <1>2, <2>1 DEF Bytes
  <2>3. x < Byte * Byte => x = y + Byte * z
    BY <1>1, <1>2, ByteFacts
  <2>4. x < Byte => z = 0
    BY <1>2, <1>3, ByteFacts
  <2> HIDE DEF y, z
  <2>5. Digits(x, n) \in Seq(Bytes) /\ Len(Digits(x, n)) = 2 /\ Number(Digits(x, n)) = y + Byte * z
    BY <2>2 DEF Number
  <2> QED
    BY <1>5, <2>2, <2>3, <2>4, <2>5 DEF HasRoom
<1> QED
  BY <1>4, <1>5

-----------------------------------------------------------------------------
(* Reading of bytes *)

\* What can be read is the data, and behind the bytes of a packet a zero.
LEMMA ReadableBytes ==
  ASSUME NEW a \in Archives
  PROVE  /\ a.data \in Seq(Bytes) /\ Readable(a) \in Seq(Bytes)
         /\ Len(a.data) \in Nat /\ Len(Readable(a)) \in Nat
         /\ Len(Readable(a)) = IF a.file THEN Len(a.data) ELSE Len(a.data) + 1
         /\ \A k \in 1..Len(a.data) : Readable(a)[k] = a.data[k]
         /\ ~a.file => Readable(a)[Len(a.data) + 1] = 0
<1>1. a.data \in Seq(Bytes) /\ a.file \in BOOLEAN
  BY DEF Archives
<1>2. CASE a.file
  BY <1>1, <1>2, LenProperties DEF Readable
<1>3. CASE ~a.file
  BY <1>1, <1>3, LenProperties, AppendProperties, ByteFacts DEF Readable
<1> QED
  BY <1>1, <1>2, <1>3

\* The result of ReadBytes.
LEMMA ReadResult ==
  ASSUME NEW a \in Archives, NEW i \in Nat, NEW n \in Nat, NEW r, r = ReadBytes(n, a, i)
  PROVE  /\ r.status \in {"ok", "undefined"} /\ r.idx \in Nat
         /\ i + n <= Len(Readable(a)) => r.status = "ok"
         /\ r.status = "ok" =>
              /\ r = Ok(r.val, i + n) /\ r.idx = i + n /\ i + n <= Len(Readable(a))
              /\ r.val \in Seq(Bytes) /\ Len(r.val) = n
              /\ \A k \in 1..n : r.val[k] = Readable(a)[i + k]
<1> DEFINE d == Readable(a)
<1>1. d \in Seq(Bytes) /\ Len(d) \in Nat
  BY ReadableBytes
<1> HIDE DEF d
<1>2. CASE i + n <= Len(d)
  <2> DEFINE s == SubSeq(d, i + 1, i + n)
  <2>1. \A k \in (i + 1)..(i + n) : d[k] \in Bytes
    BY <1>1, <1>2, ElementOfSeq
  <2>2. s \in Seq(Bytes) /\ Len(s) = n /\ \A k \in 1..n : s[k] = d[i + k]
    <3>1. i + 1 \in Int /\ i + n \in Int
      OBVIOUS
    <3>2. /\ s \in Seq(Bytes) /\ Len(s) = IF i + 1 <= i + n THEN (i + n) - (i + 1) + 1 ELSE 0
          /\ \A k \in 1..((i + n) - (i + 1) + 1) : s[k] = d[(i + 1) + k - 1]
      BY <2>1, <3>1, SubSeqProperties
    <3> HIDE DEF s
    <3>3. Len(s) = n
      BY <3>2
    <3>4. ASSUME NEW k \in 1..n PROVE s[k] = d[i + k]
      <4>1. k \in 1..((i + n) - (i + 1) + 1) /\ (i + 1) + k - 1 = i + k
        OBVIOUS
      <4> QED
        BY <3>2, <4>1
    <3> QED
      BY <3>2, <3>3, <3>4
  <2> HIDE DEF s
  <2>3. r = Ok(s, i + n)
    BY <1>2 DEF ReadBytes, d, s
  <2>4. r.val = s /\ r.idx = i + n /\ r.status = "ok"
    BY <2>3 DEF Ok
  <2> QED
    BY <1>2, <2>2, <2>3, <2>4 DEF d
<1>3. CASE ~(i + n <= Len(d))
  <2>1. r.status = "undefined" /\ r.idx = i
    BY <1>3 DEF ReadBytes, Stop, d
  <2> QED
    BY <1>3, <2>1 DEF d
<1> QED
  BY <1>2, <1>3

\* The result of LoadBytes: the first byte has to be inside of a packet.
LEMMA BytesResult ==
  ASSUME NEW a \in Archives, NEW i \in Nat, NEW n \in Nat \ {0}, NEW r, r = LoadBytes(n, a, i)
  PROVE  /\ r.status \in {"ok", "error", "undefined"} /\ r.idx \in Nat
         /\ i + n <= Len(a.data) => r.status = "ok"
         /\ r.status = "ok" =>
              /\ r = Ok(r.val, i + n) /\ r.idx = i + n /\ i + n <= Len(Readable(a))
              /\ a.file \/ i < Len(a.data)
              /\ r.val \in Seq(Bytes) /\ Len(r.val) = n
              /\ \A k \in 1..n : r.val[k] = Readable(a)[i + k]
<1>1. Len(a.data) \in Nat /\ Len(a.data) <= Len(Readable(a)) /\ Len(Readable(a)) \in Nat
  BY ReadableBytes
<1>2. CASE a.file \/ Inside(a, i)
  <2>1. r = ReadBytes(n, a, i)
    BY <1>2 DEF LoadBytes
  <2>2. i + n <= Len(a.data) => i + n <= Len(Readable(a))
    BY <1>1
  <2>3. n \in Nat
    OBVIOUS
  <2> QED
    BY <1>2, <2>1, <2>2, <2>3, ReadResult DEF Inside
<1>3. CASE ~(a.file \/ Inside(a, i))
  <2>1. r.status = "error" /\ r.idx = i
    BY <1>3 DEF LoadBytes, Stop
  <2>2. ~(i + n <= Len(a.data))
    BY <1>1, <1>3 DEF Inside
  <2> QED
    BY <2>1, <2>2
<1> QED
  BY <1>2, <1>3

-----------------------------------------------------------------------------
(* What is loaded where a value has been stored *)

\* The archive has the bytes b at position i, as far as it goes.
Agree(b, a, i) == \A k \in 1..Len(b) : i + k <= Len(a.data) => a.data[i + k] = b[k]

\* The result r of loading v, stored as b, at position i: the value, if the archive has all
\* bytes.  Nothing but the end of b, if a file or an archive of small sizes is cut.
Whole(r, a, i, v, b) == i + Len(b) <= Len(a.data) => r = Ok(v, i + Len(b))
Good(r, a, i, v, b, short) ==
  /\ Whole(r, a, i, v, b)
  /\ (a.file \/ short) /\ r.status = "ok" => r.idx = i + Len(b) /\ i + Len(b) <= Len(Readable(a))
\* The same for a size, of which also the value is needed.
Exact(r, a, i, v, b, short) ==
  /\ Whole(r, a, i, v, b)
  /\ (a.file \/ short) /\ r.status = "ok" => r = Ok(v, i + Len(b)) /\ i + Len(b) <= Len(Readable(a))

\* Parts of Ok.
LEMMA OkParts ==
  ASSUME NEW v, NEW i
  PROVE  Ok(v, i).val = v /\ Ok(v, i).idx = i /\ Ok(v, i).status = "ok"
BY DEF Ok

\* A sequence of elements is equal to another one.
LEMMA SameBytes ==
  ASSUME NEW s \in Seq(Bytes), NEW t \in Seq(Bytes), Len(s) = Len(t), \A k \in 1..Len(t) : s[k] = t[k]
  PROVE  s = t
BY SeqEqual

\* Bytes that are read are those that were stored.
LEMMA ReadGood ==
  ASSUME NEW a \in Archives, NEW i \in Nat, NEW b \in Seq(Bytes), Agree(b, a, i)
  PROVE  Good(ReadBytes(Len(b), a, i), a, i, b, b, TRUE)
<1> DEFINE r == ReadBytes(Len(b), a, i)
           n == Len(b)
<1>1. n \in Nat
  BY LenProperties
<1>2. r = ReadBytes(n, a, i)
  OBVIOUS
<1> HIDE DEF r
<1>3. /\ i + n <= Len(Readable(a)) => r.status = "ok"
      /\ r.status = "ok" =>
              /\ r = Ok(r.val, i + n) /\ r.idx = i + n /\ i + n <= Len(Readable(a))
              /\ r.val \in Seq(Bytes) /\ Len(r.val) = n
              /\ \A k \in 1..n : r.val[k] = Readable(a)[i + k]
  <2> HIDE DEF n
  <2>1. i + n <= Len(Readable(a)) => r.status = "ok"
    BY <1>1, <1>2, ReadResult
  <2>2. r.status = "ok" =>
              /\ r = Ok(r.val, i + n) /\ r.idx = i + n /\ i + n <= Len(Readable(a))
              /\ r.val \in Seq(Bytes) /\ Len(r.val) = n
    BY <1>1, <1>2, ReadResult
  <2>3. r.status = "ok" => \A k \in 1..n : r.val[k] = Readable(a)[i + k]
    BY <1>1, <1>2, ReadResult
  <2> QED
    BY <2>1, <2>2, <2>3
<1>4. /\ Len(a.data) \in Nat /\ Len(Readable(a)) \in Nat /\ Len(a.data) <= Len(Readable(a))
      /\ \A k \in 1..Len(a.data) : Readable(a)[k] = a.data[k]
  BY ReadableBytes
<1>5. ASSUME i + n <= Len(a.data) PROVE r = Ok(b, i + n)
  <2>1. r.status = "ok"
    BY <1>1, <1>3, <1>4, <1>5
  <2>2. ASSUME NEW k \in 1..n PROVE r.val[k] = b[k]
    <3>1. i + k \in 1..Len(a.data) /\ i + k <= Len(a.data)
      BY <1>1, <1>4, <1>5
    <3>2. a.data[i + k] = b[k]
      BY <3>1 DEF Agree
    <3> QED
      BY <1>3, <1>4, <2>1, <3>1, <3>2
  <2>3. r.val = b
    BY <1>3, <2>1, <2>2, SameBytes
  <2> QED
    BY <1>3, <2>1, <2>3
<1> QED
  BY <1>3, <1>5 DEF Good, Whole, r

\* So are bytes that are loaded; there is at least one.
LEMMA LoadGood ==
  ASSUME NEW a \in Archives, NEW i \in Nat, NEW b \in Seq(Bytes), Len(b) > 0, Agree(b, a, i)
  PROVE  Good(LoadBytes(Len(b), a, i), a, i, b, b, TRUE)
<1>1. CASE a.file \/ Inside(a, i)
  <2>1. LoadBytes(Len(b), a, i) = ReadBytes(Len(b), a, i)
    BY <1>1 DEF LoadBytes
  <2> QED
    BY <2>1, ReadGood
<1>2. CASE ~(a.file \/ Inside(a, i))
  <2>1. LoadBytes(Len(b), a, i).status = "error"
    BY <1>2 DEF LoadBytes, Stop
  <2>2. ~(i + Len(b) <= Len(a.data))
    BY <1>2, LenProperties, ReadableBytes DEF Inside
  <2> QED
    BY <2>1, <2>2 DEF Good, Whole
<1> QED
  BY <1>1, <1>2

\* A number that is not too large is read as it was written, where it is not cut: the zero
\* behind a packet stands for the higher byte of a small one.
LEMMA NumberGood ==
  ASSUME NEW a \in Archives, NEW i \in Nat, NEW x \in Nat, NEW n \in {1, 2}, HasRoom(x, n),
         Agree(Digits(x, n), a, i)
  PROVE  Exact(LoadNumber(n, a, i), a, i, x, Digits(x, n), n = 1 \/ x < Byte)
<1> DEFINE b == Digits(x, n)
           l == LoadBytes(n, a, i)
           r == LoadNumber(n, a, i)
<1>1. /\ b \in Seq(Bytes) /\ Len(b) = n /\ Number(b) = x /\ (n = 2 /\ x < Byte => b[2] = 0)
      /\ n \in Nat \ {0}
  <2>1. /\ b \in Seq(Bytes) /\ Len(b) = n /\ (HasRoom(x, n) => Number(b) = x)
        /\ n = 2 /\ x < Byte => b[2] = 0
    BY DigitsRead
  <2>2. n \in Nat \ {0}
    OBVIOUS
  <2> HIDE DEF b
  <2> QED
    BY <2>1, <2>2
<1>2. l = LoadBytes(n, a, i) /\ Agree(b, a, i)
  OBVIOUS
<1>3. r = IF l.status = "ok" THEN Ok(Number(l.val), l.idx) ELSE l
  BY DEF LoadNumber
<1> HIDE DEF b, l, r
<1>4. /\ i + n <= Len(a.data) => l.status = "ok"
      /\ l.status = "ok" =>
              /\ l = Ok(l.val, i + n) /\ l.idx = i + n /\ i + n <= Len(Readable(a))
              /\ a.file \/ i < Len(a.data)
              /\ l.val \in Seq(Bytes) /\ Len(l.val) = n
              /\ \A k \in 1..n : l.val[k] = Readable(a)[i + k]
  BY <1>1, <1>2, BytesResult
<1>5. /\ Len(a.data) \in Nat /\ Len(Readable(a)) = IF a.file THEN Len(a.data) ELSE Len(a.data) + 1
      /\ \A k \in 1..Len(a.data) : Readable(a)[k] = a.data[k]
      /\ ~a.file => Readable(a)[Len(a.data) + 1] = 0
  BY ReadableBytes
<1>6. ASSUME l.status = "ok", a.file \/ n = 1 \/ x < Byte \/ i + n <= Len(a.data)
      PROVE  r = Ok(x, i + n)
  <2>1. ASSUME NEW k \in 1..n PROVE l.val[k] = b[k]
    <3>1. CASE i + k <= Len(a.data)
      <4>0. \A j \in 1..n : i + j <= Len(a.data) => a.data[i + j] = b[j]
        BY <1>1, <1>2 DEF Agree
      <4>1. a.data[i + k] = b[k] /\ i + k \in 1..Len(a.data)
        BY <1>1, <1>5, <3>1, <4>0
      <4> QED
        BY <1>4, <1>5, <1>6, <4>1
    <3>2. CASE ~(i + k <= Len(a.data))
      <4>1. ~a.file /\ i < Len(a.data)
        BY <1>1, <1>4, <1>5, <1>6, <3>2
      <4>2. n = 2 /\ k = 2 /\ i + k = Len(a.data) + 1 /\ x < Byte
        BY <1>1, <1>5, <1>6, <3>2, <4>1
      <4> QED
        BY <1>1, <1>4, <1>5, <1>6, <4>1, <4>2
    <3> QED
      BY <3>1, <3>2
  <2>2. l.val = b
    BY <1>1, <1>4, <1>6, <2>1, SameBytes
  <2> QED
    BY <1>1, <1>3, <1>4, <1>6, <2>2
<1>7. r.status = "ok" => l.status = "ok"
  BY <1>3
<1>8. Whole(r, a, i, x, b)
  BY <1>1, <1>4, <1>6 DEF Whole
<1>9. Exact(r, a, i, x, b, n = 1 \/ x < Byte)
  BY <1>1, <1>4, <1>6, <1>7, <1>8 DEF Exact
<1> QED
  BY <1>9 DEF r, b

\* The bytes of two parts are there if both are, one behind the other.
LEMMA AgreeParts ==
  ASSUME NEW a, NEW i \in Nat, NEW b \in Seq(Bytes), NEW c \in Seq(Bytes), Agree(b \o c, a, i)
  PROVE  Agree(b, a, i) /\ Agree(c, a, i + Len(b))
<1> DEFINE n == Len(b)
           m == Len(c)
           e == b \o c
<1>1. /\ n \in Nat /\ m \in Nat /\ Len(e) = n + m
      /\ \A k \in 1..(n + m) : e[k] = IF k <= n THEN b[k] ELSE c[k - n]
  BY LenProperties, ConcatProperties
<1>2. \A k \in 1..(n + m) : i + k <= Len(a.data) => a.data[i + k] = e[k]
  BY <1>1 DEF Agree
<1> HIDE DEF n, m, e
<1>3. ASSUME NEW k \in 1..n, i + k <= Len(a.data) PROVE a.data[i + k] = b[k]
  <2>1. k \in 1..(n + m) /\ k <= n
    BY <1>1
  <2> QED
    BY <1>1, <1>2, <1>3, <2>1
<1>4. ASSUME NEW k \in 1..m, (i + n) + k <= Len(a.data) PROVE a.data[(i + n) + k] = c[k]
  <2>1. n + k \in 1..(n + m) /\ ~(n + k <= n) /\ (n + k) - n = k /\ (i + n) + k = i + (n + k)
    BY <1>1
  <2> QED
    BY <1>1, <1>2, <1>4, <2>1
<1> QED
  BY <1>3, <1>4 DEF Agree, n, m

\* A value behind a size: r, loaded after the size, from bytes b and then c.
Sequel(a, i, b, c, x, v, size, rest, r, short, few) ==
  /\ b \in Seq(Bytes) /\ c \in Seq(Bytes) /\ short \in BOOLEAN /\ few \in BOOLEAN /\ (short => few)
  /\ Exact(size, a, i, x, b, few) /\ (size.status # "ok" => r = size)
  /\ size = Ok(x, i + Len(b)) /\ i + Len(b) <= Len(Readable(a))
       => r = rest /\ Good(rest, a, i + Len(b), v, c, short)

\* If the size and what comes after it are loaded rightly, so are both.
LEMMA SequelGood ==
  ASSUME NEW a \in Archives, NEW i \in Nat, NEW b, NEW c, NEW x, NEW v, NEW size, NEW rest, NEW r,
         NEW short, NEW few, Sequel(a, i, b, c, x, v, size, rest, r, short, few)
  PROVE  Good(r, a, i, v, b \o c, short)
<1> DEFINE n == Len(b)
           m == Len(c)
<1>0. /\ b \in Seq(Bytes) /\ c \in Seq(Bytes) /\ short \in BOOLEAN /\ few \in BOOLEAN /\ (short => few)
      /\ Exact(size, a, i, x, b, few) /\ (size.status # "ok" => r = size)
      /\ size = Ok(x, i + n) /\ i + n <= Len(Readable(a)) => r = rest /\ Good(rest, a, i + n, v, c, short)
  BY DEF Sequel
<1>1. n \in Nat /\ m \in Nat /\ Len(b \o c) = n + m
  BY <1>0, LenProperties, ConcatProperties
<1>2. Len(a.data) \in Nat /\ Len(Readable(a)) \in Nat /\ Len(a.data) <= Len(Readable(a))
  BY ReadableBytes
<1> HIDE DEF n, m
<1>3. (i + n) + m = i + (n + m)
  BY <1>1
<1>4. ASSUME i + (n + m) <= Len(a.data) PROVE r = Ok(v, i + (n + m))
  <2>1. i + n <= Len(a.data)
    BY <1>1, <1>2, <1>4
  <2>2. size = Ok(x, i + n) /\ i + n <= Len(Readable(a))
    BY <1>0, <1>1, <1>2, <2>1 DEF Exact, Whole, n
  <2>3. r = rest /\ Good(rest, a, i + n, v, c, short)
    BY <1>0, <2>2 DEF n
  <2> QED
    BY <1>3, <1>4, <2>3 DEF Good, Whole, m
<1>5. ASSUME a.file \/ short, r.status = "ok"
      PROVE  r.idx = i + (n + m) /\ i + (n + m) <= Len(Readable(a))
  <2>1. size.status = "ok"
    BY <1>0, <1>5
  <2>2. size = Ok(x, i + n) /\ i + n <= Len(Readable(a))
    BY <1>0, <1>5, <2>1 DEF Exact, n
  <2>3. r = rest /\ Good(rest, a, i + n, v, c, short)
    BY <1>0, <2>2 DEF n
  <2> QED
    BY <1>3, <1>5, <2>3 DEF Good, m
<1> QED
  BY <1>1, <1>4, <1>5 DEF Good, Whole

-----------------------------------------------------------------------------
(* Values one after another *)

\* What a table of stored values, of ways to load and of kept values has to be.
StoreTyped(S) == \A T \in Types, c \in BOOLEAN : \A v \in Vals[T] : S[T][c][v] \in Seq(Bytes)
Result(r) == r.idx \in Nat /\ r.status \in {"ok", "error", "undefined"}
LoadTyped(L) == \A T \in Types, a \in Archives, i \in Nat : Result(L[T][a][i])
KeepTyped(K) == \A T \in Types, c \in BOOLEAN, limit \in Nat : K[T][c][limit] \subseteq Vals[T]
Limits == {limit \in Nat : limit <= Byte * Byte}
Correct(S, L, K) ==
  \A T \in Types, c \in BOOLEAN, limit \in Limits, a \in Archives, i \in Nat :
    \A v \in K[T][c][limit] :
      a.compress = c /\ i <= Len(Readable(a)) /\ Agree(S[T][c][v], a, i)
        => Good(L[T][a][i], a, i, v, S[T][c][v], limit <= Byte)
TakesBytes(S, K) ==
  \A T \in Types, c \in BOOLEAN, limit \in Nat : \A v \in K[T][c][limit] : Len(S[T][c][v]) > 0

\* A function on 1..n is a sequence of that length.
LEMMA FunctionIsSeq ==
  ASSUME NEW n \in Nat, NEW S, NEW f \in [1..n -> S]
  PROVE  f \in Seq(S) /\ Len(f) = n
<1>1. f \in Seq(S)
  BY SeqDef
<1> QED
  BY <1>1, LenProperties

\* The same type n times.
LEMMA RepeatSeq ==
  ASSUME NEW T \in Types, NEW n \in Nat
  PROVE  Repeat(T, n) \in Seq(Types) /\ Len(Repeat(T, n)) = n /\ \A i \in 1..n : Repeat(T, n)[i] = T
<1>1. Repeat(T, n) \in [1..n -> Types] /\ \A i \in 1..n : Repeat(T, n)[i] = T
  BY DEF Repeat
<1> QED
  BY <1>1, FunctionIsSeq

\* Bytes joined to bytes are bytes.
LEMMA JoinsBytes ==
  ASSUME NEW parts, NEW n \in Nat, \A k \in 1..n : parts[k] \in Seq(Bytes)
  PROVE  \A k \in 0..n : Joins(parts)[k] \in Seq(Bytes)
<1> DEFINE U == {k \in Nat : k <= n => Joins(parts)[k] \in Seq(Bytes)}
<1>1. 0 \in U
  BY JoinsEach, EmptySeq
<1>2. ASSUME NEW k \in Nat, k \in U PROVE k + 1 \in U
  <2> SUFFICES ASSUME k + 1 <= n PROVE Joins(parts)[k + 1] \in Seq(Bytes)
    OBVIOUS
  <2>1. Joins(parts)[k] \in Seq(Bytes) /\ parts[k + 1] \in Seq(Bytes)
    BY <1>2
  <2>2. Joins(parts)[k + 1] = Joins(parts)[k] \o parts[k + 1]
    BY JoinsEach
  <2> QED
    BY <2>1, <2>2, ConcatProperties
<1>3. Nat \subseteq U
  <2> HIDE DEF U
  <2> QED
    BY <1>1, <1>2, SetInduction
<1> QED
  BY <1>3

\* The bytes of values one after another.
Parts(S, Ts, v, c) == [k \in 1..Len(Ts) |-> S[Ts[k]][c][v[k]]]
AreBytes(S, Ts, v, c) == \A k \in 1..Len(Ts) : S[Ts[k]][c][v[k]] \in Seq(Bytes)
JoinedParts(S, Ts, v, c) ==
  LET parts == Parts(S, Ts, v, c) IN
  /\ StoreAll(S, Ts, v, c) = Joins(parts)[Len(Ts)]
  /\ \A k \in 1..Len(Ts) : parts[k] = S[Ts[k]][c][v[k]] /\ parts[k] \in Seq(Bytes)
  /\ \A k \in 0..Len(Ts) : Joins(parts)[k] \in Seq(Bytes)

\* StoreAll joins the bytes of its values, and all that it joins are bytes.
LEMMA StoreAllJoins ==
  ASSUME NEW S, NEW Ts \in Seq(Types), NEW v, NEW c, AreBytes(S, Ts, v, c)
  PROVE  JoinedParts(S, Ts, v, c)
<1> DEFINE parts == Parts(S, Ts, v, c)
           n == Len(Ts)
<1>1. n \in Nat
  BY LenProperties
<1>2. \A k \in 1..n : parts[k] = S[Ts[k]][c][v[k]] /\ parts[k] \in Seq(Bytes)
  BY DEF Parts, AreBytes
<1>3. parts \in [1..n -> Seq(Bytes)]
  BY DEF Parts, AreBytes
<1>4. StoreAll(S, Ts, v, c) = Joins(parts)[Len(parts)]
  BY DEF StoreAll, Joined, Parts
<1> HIDE DEF parts, n
<1>5. Len(parts) = n
  BY <1>1, <1>3, FunctionIsSeq
<1>6. \A k \in 0..n : Joins(parts)[k] \in Seq(Bytes)
  BY <1>1, <1>2, JoinsBytes
<1> QED
  BY <1>2, <1>4, <1>5, <1>6 DEF parts, n, JoinedParts

Taken(v, n) == [j \in 1..n |-> v[j]]

\* The first n of the values v: none of them is the empty sequence.
LEMMA TakenNone == ASSUME NEW v PROVE Taken(v, 0) = << >>
BY DEF Taken

\* The next value is appended to those.
LEMMA TakenNext ==
  ASSUME NEW v, NEW n \in Nat
  PROVE  Append(Taken(v, n), v[n + 1]) = Taken(v, n + 1)
<1> DEFINE S == {v[j] : j \in 1..(n + 1)}
           s == Taken(v, n)
           t == Taken(v, n + 1)
<1>1. s \in [1..n -> S] /\ t \in [1..(n + 1) -> S] /\ v[n + 1] \in S
  BY DEF Taken
<1>2. \A j \in 1..n : s[j] = v[j]
  BY DEF Taken
<1>3. \A j \in 1..(n + 1) : t[j] = v[j]
  BY DEF Taken
<1> HIDE DEF S, s, t
<1>4. s \in Seq(S) /\ Len(s) = n /\ t \in Seq(S) /\ Len(t) = n + 1
  BY <1>1, FunctionIsSeq
<1> DEFINE e == v[n + 1]
           u == Append(s, e)
<1>5. u \in Seq(S) /\ Len(u) = n + 1 /\ (\A j \in 1..n : u[j] = s[j]) /\ u[n + 1] = e
  BY <1>1, <1>4, AppendProperties
<1> HIDE DEF u
<1>6. ASSUME NEW j \in 1..(n + 1) PROVE u[j] = t[j]
  <2>1. CASE j = n + 1
    BY <1>3, <1>5, <2>1
  <2>2. CASE j \in 1..n
    BY <1>2, <1>3, <1>5, <2>2
  <2> QED
    BY <2>1, <2>2
<1>7. u = t
  BY <1>4, <1>5, <1>6, SeqEqual
<1> QED
  BY <1>7 DEF u, s, t

\* One more value, x from d behind those of w from b.
Follows(L, T, a, i, b, d, w, x, r, short) ==
  /\ b \in Seq(Bytes) /\ d \in Seq(Bytes) /\ short \in BOOLEAN /\ Good(r, a, i, w, b, short)
  /\ i + Len(b) <= Len(Readable(a)) => Good(L[T][a][i + Len(b)], a, i + Len(b), x, d, short)

\* A value after others is loaded rightly if each of them is.
LEMMA NextGood ==
  ASSUME NEW L, NEW T, NEW a \in Archives, NEW i \in Nat, NEW b, NEW d, NEW w, NEW x, NEW r, NEW short,
         Follows(L, T, a, i, b, d, w, x, r, short)
  PROVE  Good(LoadNext(L, T, a, r), a, i, Append(w, x), b \o d, short)
<1> DEFINE n == Len(b)
           m == Len(d)
           e == L[T][a][i + n]
           q == LoadNext(L, T, a, r)
<1>0. b \in Seq(Bytes) /\ d \in Seq(Bytes) /\ short \in BOOLEAN /\ Good(r, a, i, w, b, short)
  BY DEF Follows
<1>1. n \in Nat /\ m \in Nat /\ Len(b \o d) = n + m /\ (i + n) + m = i + (n + m)
  BY <1>0, LenProperties, ConcatProperties
<1>2. Len(a.data) \in Nat /\ Len(Readable(a)) \in Nat /\ Len(a.data) <= Len(Readable(a))
  BY ReadableBytes
<1>3. /\ r.status # "ok" => q = r
      /\ r.status = "ok" /\ r.idx = i + n /\ e.status = "ok" => q = Ok(Append(r.val, e.val), e.idx)
      /\ r.status = "ok" /\ r.idx = i + n /\ e.status # "ok" => q = e
  BY DEF LoadNext
<1>4. i + n <= Len(Readable(a)) => Good(e, a, i + n, x, d, short)
  BY DEF Follows
<1> HIDE DEF n, m, e, q
<1>5. ASSUME i + (n + m) <= Len(a.data) PROVE q = Ok(Append(w, x), i + (n + m))
  <2>1. i + n <= Len(a.data) /\ i + n <= Len(Readable(a))
    BY <1>1, <1>2, <1>5
  <2>2. r = Ok(w, i + n)
    BY <1>0, <2>1 DEF Good, Whole, n
  <2>3. e = Ok(x, i + (n + m))
    BY <1>1, <1>4, <1>5, <2>1 DEF Good, Whole, m
  <2> QED
    BY <1>3, <2>2, <2>3, OkParts
<1>6. ASSUME a.file \/ short, q.status = "ok"
      PROVE  q.idx = i + (n + m) /\ i + (n + m) <= Len(Readable(a))
  <2>1. r.status = "ok"
    BY <1>3, <1>6
  <2>2. r.idx = i + n /\ i + n <= Len(Readable(a))
    BY <1>0, <1>6, <2>1 DEF Good, n
  <2>3. e.status = "ok"
    BY <1>3, <1>6, <2>1, <2>2
  <2>4. e.idx = i + (n + m) /\ i + (n + m) <= Len(Readable(a))
    BY <1>1, <1>4, <1>6, <2>2, <2>3 DEF Good, m
  <2>5. q.idx = e.idx
    BY <1>3, <2>1, <2>2, <2>3, OkParts
  <2> QED
    BY <2>4, <2>5
<1> QED
  BY <1>1, <1>5, <1>6 DEF Good, Whole, q

\* Values one after another are loaded as they were stored.
LEMMA ItemsGood ==
  ASSUME NEW S, NEW L, NEW K, StoreTyped(S), KeepTyped(K), Correct(S, L, K),
         NEW c \in BOOLEAN, NEW limit \in Limits, NEW Ts \in Seq(Types), NEW v,
         \A j \in 1..Len(Ts) : v[j] \in K[Ts[j]][c][limit],
         NEW a \in Archives, a.compress = c, NEW i \in Nat, i <= Len(Readable(a)),
         Agree(StoreAll(S, Ts, v, c), a, i)
  PROVE  Good(LoadAll(L, Ts, a, i, << >>), a, i, Taken(v, Len(Ts)), StoreAll(S, Ts, v, c), limit <= Byte)
<1> DEFINE n == Len(Ts)
           parts == Parts(S, Ts, v, c)
           J == Joins(parts)
           A == LoadsAll(L, Ts, a, i, << >>)
           short == limit <= Byte
           U == {k \in Nat : k <= n /\ Agree(J[k], a, i) => Good(A[k], a, i, Taken(v, k), J[k], short)}
<1>1. n \in Nat /\ \A k \in 1..n : Ts[k] \in Types
  BY LenProperties, ElementOfSeq
<1>2. \A k \in 1..n : v[k] \in Vals[Ts[k]] /\ S[Ts[k]][c][v[k]] \in Seq(Bytes)
  BY <1>1 DEF KeepTyped, StoreTyped, Limits
<1>3. /\ StoreAll(S, Ts, v, c) = J[n]
      /\ \A k \in 1..n : parts[k] = S[Ts[k]][c][v[k]] /\ parts[k] \in Seq(Bytes)
      /\ \A k \in 0..n : J[k] \in Seq(Bytes)
  <2>1. AreBytes(S, Ts, v, c)
    BY <1>2 DEF AreBytes
  <2>2. JoinedParts(S, Ts, v, c)
    BY <2>1, StoreAllJoins
  <2> QED
    BY <2>2, Zenon DEF JoinedParts
<1>4. J[0] = << >> /\ \A k \in Nat : J[k + 1] = J[k] \o parts[k + 1]
  BY JoinsEach
<1>5. A[0] = Ok(<< >>, i) /\ \A k \in Nat : A[k + 1] = LoadNext(L, Ts[k + 1], a, A[k])
  BY LoadsAllEach
<1>6. LoadAll(L, Ts, a, i, << >>) = A[n]
  BY DEF LoadAll
<1>7. short \in BOOLEAN
  OBVIOUS
<1> HIDE DEF n, parts, J, A, short
<1>8. 0 \in U
  <2>1. Len(J[0]) = 0
    BY <1>4, EmptySeq
  <2>2. A[0] = Ok(Taken(v, 0), i) /\ A[0].idx = i
    <3>1. Taken(v, 0) = << >>
      BY TakenNone
    <3>2. A[0] = Ok(Taken(v, 0), i)
      BY <1>5, <3>1, Zenon
    <3> QED
      <4>1. Ok(Taken(v, 0), i).idx = i
        BY OkParts
      <4> QED
        BY <3>2, <4>1
  <2>3. Good(A[0], a, i, Taken(v, 0), J[0], short)
    BY <2>1, <2>2 DEF Good, Whole
  <2> QED
    BY <2>3
<1>9. ASSUME NEW k \in Nat, k \in U PROVE k + 1 \in U
  <2> SUFFICES ASSUME k + 1 <= n, Agree(J[k + 1], a, i)
               PROVE  Good(A[k + 1], a, i, Taken(v, k + 1), J[k + 1], short)
    OBVIOUS
  <2> DEFINE b == J[k]
             d == parts[k + 1]
             T == Ts[k + 1]
             x == v[k + 1]
  <2>1. k + 1 \in 1..n /\ k \in 0..n
    BY <1>1
  <2>2. b \in Seq(Bytes) /\ d \in Seq(Bytes) /\ d = S[T][c][x] /\ T \in Types /\ x \in K[T][c][limit]
    BY <1>1, <1>3, <2>1 DEF n
  <2>3. J[k + 1] = b \o d /\ A[k + 1] = LoadNext(L, T, a, A[k]) /\ Append(Taken(v, k), x) = Taken(v, k + 1)
    BY <1>4, <1>5, TakenNext
  <2>4. k <= n /\ Agree(J[k], a, i) => Good(A[k], a, i, Taken(v, k), b, short)
    BY <1>9
  <2> HIDE DEF b, d, T, x, U
  <2>5. Agree(b, a, i) /\ Agree(d, a, i + Len(b)) /\ Len(b) \in Nat
    BY <2>2, <2>3, AgreeParts, LenProperties
  <2>6. Good(A[k], a, i, Taken(v, k), b, short)
    BY <2>1, <2>4, <2>5 DEF b
  <2>7. ASSUME i + Len(b) <= Len(Readable(a))
        PROVE  Good(L[T][a][i + Len(b)], a, i + Len(b), x, d, short)
    <3>1. i + Len(b) \in Nat
      BY <2>5
    <3> QED
      BY <2>2, <2>5, <2>7, <3>1 DEF Correct, short
  <2>8. Good(LoadNext(L, T, a, A[k]), a, i, Append(Taken(v, k), x), b \o d, short)
    <3>1. Follows(L, T, a, i, b, d, Taken(v, k), x, A[k], short)
      BY <1>7, <2>2, <2>6, <2>7 DEF Follows
    <3> QED
      BY <3>1, NextGood
  <2> QED
    BY <2>3, <2>8
<1>10. n \in U
  <2> HIDE DEF U
  <2> QED
    BY <1>1, <1>8, <1>9, SetInduction
<1> QED
  BY <1>1, <1>3, <1>6, <1>10 DEF n, short

-----------------------------------------------------------------------------
(* Stored values are bytes *)

\* Types and values are well formed.
LEMMA TypeFacts ==
  ASSUME NEW T \in Types, NEW v \in Vals[T]
  PROVE  Formed(T) /\ IsOf(v, T)
BY CodecAssumption

\* The widths of the sizes.
LEMMA Widths == SizeBytes = 2 /\ CountBytes = 1 /\ IndexBytes = 2
BY DEF SizeBytes, CountBytes, IndexBytes

\* A size is written as bytes.
LEMMA DigitsBytes ==
  ASSUME NEW x \in Nat
  PROVE  /\ Digits(x, 1) \in Seq(Bytes) /\ Digits(x, SizeBytes) \in Seq(Bytes)
         /\ Digits(x, CountBytes) \in Seq(Bytes) /\ Digits(x, IndexBytes) \in Seq(Bytes)
<1>1. \A n \in {1, 2} : Digits(x, n) \in Seq(Bytes)
  BY DigitsRead
<1> QED
  BY <1>1, Widths

\* Values one after another are stored as bytes.
LEMMA StoreAllBytes ==
  ASSUME NEW S, StoreTyped(S), NEW Ts \in Seq(Types), NEW v, NEW c \in BOOLEAN,
         \A k \in 1..Len(Ts) : v[k] \in Vals[Ts[k]]
  PROVE  StoreAll(S, Ts, v, c) \in Seq(Bytes)
<1>1. Len(Ts) \in Nat /\ \A k \in 1..Len(Ts) : Ts[k] \in Types
  BY LenProperties, ElementOfSeq
<1>2. AreBytes(S, Ts, v, c)
  BY <1>1 DEF AreBytes, StoreTyped
<1>3. JoinedParts(S, Ts, v, c)
  BY <1>2, StoreAllJoins
<1>4. Len(Ts) \in 0..Len(Ts)
  BY <1>1
<1> QED
  BY <1>3, <1>4 DEF JoinedParts

\* So are values of the same type.
LEMMA StoreRepeatBytes ==
  ASSUME NEW S, StoreTyped(S), NEW T \in Types, NEW n \in Nat, NEW v, NEW c \in BOOLEAN,
         \A k \in 1..n : v[k] \in Vals[T]
  PROVE  StoreAll(S, Repeat(T, n), v, c) \in Seq(Bytes)
<1> DEFINE Ts == Repeat(T, n)
<1>1. Ts \in Seq(Types) /\ Len(Ts) = n /\ \A k \in 1..n : Ts[k] = T
  BY RepeatSeq
<1> HIDE DEF Ts
<1>2. \A k \in 1..Len(Ts) : v[k] \in Vals[Ts[k]]
  BY <1>1
<1>3. StoreAll(S, Ts, v, c) \in Seq(Bytes)
  BY <1>1, <1>2, StoreAllBytes
<1> QED
  BY <1>3 DEF Ts

\* A map has its keys in some order.
LEMMA KeysOrder ==
  ASSUME NEW v, IsFiniteSet(DOMAIN v)
  PROVE  /\ Cardinality(DOMAIN v) \in Nat
         /\ Keys(v) \in [1..Cardinality(DOMAIN v) -> DOMAIN v]
         /\ \A k \in DOMAIN v : \E i \in 1..Cardinality(DOMAIN v) : Keys(v)[i] = k
<1> DEFINE D == DOMAIN v
           n == Cardinality(D)
           Order1(s) == \A k \in D : \E i \in 1..n : s[i] = k
<1>1. n \in Nat /\ ExistsBijection(1..n, D)
  BY FS_CardinalityType
<1>2. Keys(v) = CHOOSE s \in [1..n -> D] : Order1(s)
  BY DEF Keys
<1> HIDE DEF D, n
<1>3. \E s \in [1..n -> D] : Order1(s)
  BY <1>1 DEF ExistsBijection, Bijection, Injection, Surjection, IsInjective
<1> HIDE DEF Order1
<1>4. Keys(v) \in [1..n -> D] /\ Order1(Keys(v))
  BY <1>2, <1>3
<1> QED
  BY <1>1, <1>4 DEF D, n, Order1

\* The entries of a map are values of the type of its pairs.
LEMMA EntriesOf ==
  ASSUME NEW T \in Types, T[1] = "map", NEW v \in Vals[T]
  PROVE  /\ IsFiniteSet(DOMAIN v) /\ Cardinality(DOMAIN v) \in Nat /\ T[2] \in Types
         /\ v = [k \in DOMAIN v |-> v[k]]
         /\ \A k \in DOMAIN v : <<k, v[k]>> \in Vals[T[2]]
         /\ \A i \in 1..Cardinality(DOMAIN v) : /\ Keys(v)[i] \in DOMAIN v
                                                /\ Entries(v)[i] = <<Keys(v)[i], v[Keys(v)[i]]>>
                                                /\ Entries(v)[i] \in Vals[T[2]]
<1>1. Formed(T) /\ IsOf(v, T)
  BY TypeFacts
<1>2. T[2] \in Types
  BY <1>1 DEF Formed
<1>3. /\ IsFiniteSet(DOMAIN v) /\ v = [k \in DOMAIN v |-> v[k]]
      /\ \A k \in DOMAIN v : <<k, v[k]>> \in Vals[T[2]]
  BY <1>1 DEF IsOf
<1>4. Cardinality(DOMAIN v) \in Nat /\ Keys(v) \in [1..Cardinality(DOMAIN v) -> DOMAIN v]
  BY <1>3, KeysOrder
<1> DEFINE n == Cardinality(DOMAIN v)
<1>5. \A i \in 1..n : Entries(v)[i] = <<Keys(v)[i], v[Keys(v)[i]]>>
  BY DEF Entries
<1> HIDE DEF n
<1>6. \A i \in 1..n : Keys(v)[i] \in DOMAIN v
  BY <1>4 DEF n
<1> QED
  BY <1>2, <1>3, <1>4, <1>5, <1>6 DEF n

\* A value of any type is stored as bytes.
LEMMA StoreKindBytes ==
  ASSUME NEW S, StoreTyped(S), NEW T \in Types, NEW v \in Vals[T], NEW c \in BOOLEAN
  PROVE  StoreKind(S, T, v, c) \in Seq(Bytes)
<1>1. Formed(T) /\ IsOf(v, T)
  BY TypeFacts
<1>2. CASE T[1] = "pod"
  BY <1>1, <1>2 DEF StoreKind, IsOf
<1>3. CASE T[1] = "enum"
  <2>1. v \in Nat /\ StoreKind(S, T, v, c) = Digits(v, 1)
    BY <1>1, <1>3 DEF StoreKind, IsOf
  <2> QED
    BY <2>1, DigitsBytes
<1>4. CASE T[1] \in {"double", "scalar"}
  <2>1. v \in Seq(Bytes) /\ Len(v) = 2 /\ StoreKind(S, T, v, c) = StoreDouble(v, c)
    BY <1>1, <1>4 DEF StoreKind, IsOf
  <2>2. 2 \in 1..Len(v)
    BY <2>1
  <2>3. v[2] \in Bytes
    BY <2>1, <2>2, ElementOfSeq
  <2> QED
    BY <2>1, <2>3 DEF StoreDouble
<1>5. CASE T[1] = "string"
  <2>1. v \in Seq(Bytes) /\ StoreKind(S, T, v, c) = Digits(Len(v), SizeBytes) \o v
    BY <1>1, <1>5 DEF StoreKind, IsOf, StoreString
  <2>2. Digits(Len(v), SizeBytes) \in Seq(Bytes)
    BY <2>1, LenProperties, DigitsBytes
  <2> QED
    BY <2>1, <2>2, ConcatProperties
<1>6. CASE T[1] = "vector"
  <2> DEFINE b == Digits(Len(v), SizeBytes)
             d == StoreAll(S, Repeat(T[2], Len(v)), v, c)
  <2>1. /\ v \in Seq(Vals[T[2]]) /\ T[2] \in Types
        /\ StoreKind(S, T, v, c) = StoreVector(S, T[2], v, c)
    BY <1>1, <1>6 DEF StoreKind, IsOf, Formed
  <2>2. Len(v) \in Nat /\ \A k \in 1..Len(v) : v[k] \in Vals[T[2]]
    BY <2>1, LenProperties, ElementOfSeq
  <2>3. b \in Seq(Bytes) /\ d \in Seq(Bytes)
    BY <2>1, <2>2, DigitsBytes, StoreRepeatBytes
  <2>4. StoreVector(S, T[2], v, c) = b \o d
    BY DEF StoreVector
  <2> HIDE DEF b, d
  <2> QED
    BY <2>1, <2>3, <2>4, ConcatProperties
<1>7. CASE T[1] = "array"
  <2>1. /\ v \in Seq(Vals[T[2]]) /\ Len(v) = T[3] /\ T[2] \in Types /\ T[3] \in Nat
        /\ StoreKind(S, T, v, c) = StoreAll(S, Repeat(T[2], T[3]), v, c)
    BY <1>1, <1>7 DEF StoreKind, IsOf, Formed
  <2>2. \A k \in 1..T[3] : v[k] \in Vals[T[2]]
    BY <2>1, ElementOfSeq
  <2> QED
    BY <2>1, <2>2, StoreRepeatBytes
<1>8. CASE T[1] = "optional"
  <2> DEFINE b == Digits(Len(v), 1)
             d == StoreAll(S, Repeat(T[2], Len(v)), v, c)
  <2>1. /\ v \in Seq(Vals[T[2]]) /\ T[2] \in Types
        /\ StoreKind(S, T, v, c) = StoreOptional(S, T[2], v, c)
    BY <1>1, <1>8 DEF StoreKind, IsOf, Formed
  <2>2. Len(v) \in Nat /\ \A k \in 1..Len(v) : v[k] \in Vals[T[2]]
    BY <2>1, LenProperties, ElementOfSeq
  <2>3. b \in Seq(Bytes) /\ d \in Seq(Bytes)
    BY <2>1, <2>2, DigitsBytes, StoreRepeatBytes
  <2>4. StoreOptional(S, T[2], v, c) = b \o d
    BY DEF StoreOptional
  <2> HIDE DEF b, d
  <2> QED
    BY <2>1, <2>3, <2>4, ConcatProperties
<1>9. CASE T[1] = "map"
  <2> DEFINE n == Cardinality(DOMAIN v)
             b == Digits(n, CountBytes)
             d == StoreAll(S, Repeat(T[2], n), Entries(v), c)
  <2>1. T[2] \in Types /\ n \in Nat /\ \A k \in 1..n : Entries(v)[k] \in Vals[T[2]]
    BY <1>9, EntriesOf
  <2>2. StoreKind(S, T, v, c) = StoreMap(S, T[2], v, c)
    BY <1>9 DEF StoreKind
  <2>3. StoreMap(S, T[2], v, c) = b \o d
    BY DEF StoreMap
  <2> HIDE DEF n
  <2>4. b \in Seq(Bytes) /\ d \in Seq(Bytes)
    BY <2>1, DigitsBytes, StoreRepeatBytes
  <2> HIDE DEF b, d
  <2> QED
    BY <2>2, <2>3, <2>4, ConcatProperties
<1>10. CASE T[1] = "pair"
  <2>1. /\ v[1] \in Vals[T[2]] /\ v[2] \in Vals[T[3]] /\ T[2] \in Types /\ T[3] \in Types
        /\ StoreKind(S, T, v, c) = StoreAll(S, <<T[2], T[3]>>, v, c)
    BY <1>1, <1>10 DEF StoreKind, IsOf, Formed
  <2>2. <<T[2], T[3]>> \in Seq(Types) /\ Len(<<T[2], T[3]>>) = 2
    BY <2>1
  <2>3. \A k \in 1..2 : v[k] \in Vals[<<T[2], T[3]>>[k]]
    BY <2>1
  <2> QED
    BY <2>1, <2>2, <2>3, StoreAllBytes
<1>11. CASE T[1] = "set"
  <2>1. /\ \A k \in 1..Len(T[2]) : v[k] \in Vals[T[2][k]]
        /\ T[2] \in Seq(Types) /\ StoreKind(S, T, v, c) = StoreAll(S, T[2], v, c)
    BY <1>1, <1>11 DEF StoreKind, IsOf, Formed
  <2> QED
    BY <2>1, StoreAllBytes
<1>12. CASE T[1] = "matrix"
  <2> DEFINE b == IF T[2] = 0 THEN Digits(v.rows, IndexBytes) ELSE << >>
             d == IF T[3] = 0 THEN Digits(v.cols, IndexBytes) ELSE << >>
             e == StoreAll(S, Repeat(T[4], v.rows * v.cols), v.data, c)
  <2>1. /\ v.rows \in Nat /\ v.cols \in Nat /\ v.data \in Seq(Vals[T[4]])
        /\ Len(v.data) = v.rows * v.cols /\ T[4] \in Types
        /\ StoreKind(S, T, v, c) = StoreMatrix(S, T, v, c)
    BY <1>1, <1>12 DEF StoreKind, IsOf, Formed
  <2>2. b \in Seq(Bytes) /\ d \in Seq(Bytes)
    BY <2>1, DigitsBytes, EmptySeq
  <2>3. e \in Seq(Bytes)
    <3> DEFINE n == v.rows * v.cols
    <3>1. n \in Nat /\ Len(v.data) = n
      BY <2>1
    <3> HIDE DEF n
    <3>2. \A k \in 1..n : v.data[k] \in Vals[T[4]]
      BY <2>1, <3>1, ElementOfSeq
    <3>3. StoreAll(S, Repeat(T[4], n), v.data, c) \in Seq(Bytes)
      BY <2>1, <3>1, <3>2, StoreRepeatBytes
    <3> QED
      BY <3>3 DEF n
  <2>4. StoreMatrix(S, T, v, c) = b \o (d \o e)
    BY DEF StoreMatrix
  <2> HIDE DEF b, d, e
  <2> QED
    BY <2>1, <2>2, <2>3, <2>4, ConcatProperties
<1> QED
  BY <1>1, <1>2, <1>3, <1>4, <1>5, <1>6, <1>7, <1>8, <1>9, <1>10, <1>11, <1>12 DEF Formed

-----------------------------------------------------------------------------
(* What loading gives, for any bytes *)

\* Parts of Stop.
LEMMA StopParts ==
  ASSUME NEW i, NEW s
  PROVE  Stop(i, s).idx = i /\ Stop(i, s).status = s
BY DEF Stop

\* A number that has been loaded is one.
LEMMA NumberResult ==
  ASSUME NEW a \in Archives, NEW i \in Nat, NEW n \in {1, 2}, NEW r, r = LoadNumber(n, a, i)
  PROVE  Result(r) /\ (r.status = "ok" => r.val \in Nat)
<1> DEFINE l == LoadBytes(n, a, i)
<1>1. n \in Nat \ {0} /\ l = LoadBytes(n, a, i)
  OBVIOUS
<1>2. r = IF l.status = "ok" THEN Ok(Number(l.val), l.idx) ELSE l
  BY DEF LoadNumber
<1> HIDE DEF l
<1>3. /\ l.status \in {"ok", "error", "undefined"} /\ l.idx \in Nat
      /\ l.status = "ok" => l.val \in Seq(Bytes) /\ Len(l.val) = n
  BY <1>1, BytesResult
<1>4. ASSUME l.status = "ok" PROVE Number(l.val) \in Nat
  <2>1. /\ 1 \in 1..Len(l.val) /\ (n = 2 => 2 \in 1..Len(l.val))
    BY <1>3, <1>4
  <2>2. /\ l.val[1] \in Nat /\ (n = 2 => l.val[2] \in Nat)
    BY <1>3, <1>4, <2>1, ElementOfSeq, ByteFacts
  <2> DEFINE x == l.val[1]
             y == l.val[2]
  <2>3. Number(l.val) = IF n = 1 THEN x ELSE x + Byte * y
    BY <1>3, <1>4 DEF Number
  <2> HIDE DEF x, y
  <2>4. x \in Nat /\ (n = 2 => y \in Nat)
    BY <2>2 DEF x, y
  <2> QED
    BY <2>3, <2>4, ByteFacts
<1>5. CASE l.status = "ok"
  BY <1>2, <1>3, <1>4, <1>5, OkParts DEF Result
<1>6. CASE l.status # "ok"
  BY <1>2, <1>3, <1>6 DEF Result
<1> QED
  BY <1>5, <1>6

\* Values one after another.
LEMMA LoadAllResult ==
  ASSUME NEW L, LoadTyped(L), NEW Ts \in Seq(Types), NEW a \in Archives, NEW i \in Nat, NEW read
  PROVE  Result(LoadAll(L, Ts, a, i, read))
<1> DEFINE n == Len(Ts)
           A == LoadsAll(L, Ts, a, i, read)
           U == {k \in Nat : k <= n => Result(A[k])}
<1>1. n \in Nat /\ \A k \in 1..n : Ts[k] \in Types
  BY LenProperties, ElementOfSeq
<1>2. A[0] = Ok(read, i) /\ \A k \in Nat : A[k + 1] = LoadNext(L, Ts[k + 1], a, A[k])
  BY LoadsAllEach
<1>3. LoadAll(L, Ts, a, i, read) = A[n]
  BY DEF LoadAll
<1> HIDE DEF n, A
<1>4. 0 \in U
  <2>1. A[0].idx = i /\ A[0].status = "ok"
    BY <1>2, OkParts
  <2> QED
    BY <2>1 DEF Result
<1>5. ASSUME NEW k \in Nat, k \in U PROVE k + 1 \in U
  <2> SUFFICES ASSUME k + 1 <= n PROVE Result(A[k + 1])
    OBVIOUS
  <2> DEFINE r == A[k]
             T == Ts[k + 1]
             e == L[T][a][r.idx]
             q == A[k + 1]
  <2>1. Result(r) /\ T \in Types
    BY <1>1, <1>5
  <2>2. Result(e)
    BY <2>1 DEF LoadTyped, Result
  <2>3. q = LoadNext(L, T, a, r)
    BY <1>2
  <2>4. /\ r.status # "ok" => q = r
        /\ r.status = "ok" /\ e.status = "ok" => q = Ok(Append(r.val, e.val), e.idx)
        /\ r.status = "ok" /\ e.status # "ok" => q = e
    BY <2>3 DEF LoadNext
  <2> HIDE DEF r, T, e, q
  <2>5. CASE r.status = "ok" /\ e.status = "ok"
    <3>1. q.idx = e.idx /\ q.status = "ok"
      BY <2>4, <2>5, OkParts
    <3> QED
      BY <2>2, <3>1 DEF Result, q
  <2> QED
    BY <2>1, <2>2, <2>4, <2>5 DEF q
<1>6. n \in U
  <2> HIDE DEF U
  <2> QED
    BY <1>1, <1>4, <1>5, SetInduction
<1> QED
  BY <1>1, <1>3, <1>6

\* Values of the same type.
LEMMA LoadRepeatResult ==
  ASSUME NEW L, LoadTyped(L), NEW T \in Types, NEW n \in Nat, NEW a \in Archives, NEW i \in Nat, NEW read
  PROVE  Result(LoadAll(L, Repeat(T, n), a, i, read))
BY RepeatSeq, LoadAllResult

\* A double, which may be a float.
LEMMA DoubleResult ==
  ASSUME NEW a \in Archives, NEW i \in Nat
  PROVE  Result(LoadDouble(a, i)) /\ Result(ReadDouble(a, i))
<1>1. DoubleBytes(a) \in Nat \ {0}
  BY DEF DoubleBytes
<1>2. ASSUME NEW l, Result(l) PROVE Result(Decompressed(l, a))
  <2>1. CASE l.status = "ok" /\ a.compress
    <3>1. Decompressed(l, a) = Ok(<<0, l.val[1]>>, l.idx)
      BY <2>1 DEF Decompressed
    <3> QED
      BY <1>2, <3>1, OkParts DEF Result
  <2>2. CASE ~(l.status = "ok" /\ a.compress)
    BY <1>2, <2>2 DEF Decompressed
  <2> QED
    BY <2>1, <2>2
<1>3. Result(LoadBytes(DoubleBytes(a), a, i))
  BY <1>1, BytesResult DEF Result
<1>4. Result(ReadBytes(DoubleBytes(a), a, i))
  BY <1>1, ReadResult DEF Result
<1> QED
  BY <1>2, <1>3, <1>4 DEF LoadDouble, ReadDouble

\* A size in front of a value: the value is loaded behind it.
LEMMA LoadKindResult ==
  ASSUME NEW L, LoadTyped(L), NEW T \in Types, NEW a \in Archives, NEW i \in Nat
  PROVE  Result(LoadKind(L, T, a, i))
<1>1. Formed(T)
  BY CodecAssumption
<1>2. CASE T[1] = "pod"
  <2>1. T[2] \in Nat \ {0} /\ LoadKind(L, T, a, i) = LoadBytes(T[2], a, i)
    BY <1>1, <1>2 DEF LoadKind, Formed
  <2> QED
    BY <2>1, BytesResult DEF Result
<1>3. CASE T[1] = "enum"
  <2>1. LoadKind(L, T, a, i) = LoadNumber(1, a, i)
    BY <1>3 DEF LoadKind
  <2> QED
    BY <2>1, NumberResult
<1>4. CASE T[1] \in {"double", "scalar"}
  <2>1. LoadKind(L, T, a, i) \in {LoadDouble(a, i), ReadDouble(a, i)}
    BY <1>4 DEF LoadKind
  <2> QED
    BY <2>1, DoubleResult
<1>5. CASE T[1] = "string"
  <2> DEFINE n == LoadNumber(SizeBytes, a, i)
  <2>1. LoadKind(L, T, a, i) = IF n.status = "ok" THEN ReadBytes(n.val, a, n.idx) ELSE n
    BY <1>5 DEF LoadKind, LoadString
  <2>2. Result(n) /\ (n.status = "ok" => n.val \in Nat)
    BY Widths, NumberResult
  <2> HIDE DEF n
  <2>3. ASSUME n.status = "ok" PROVE Result(ReadBytes(n.val, a, n.idx))
    BY <2>2, <2>3, ReadResult DEF Result
  <2> QED
    BY <2>1, <2>2, <2>3
<1>6. CASE T[1] = "vector"
  <2> DEFINE n == LoadNumber(SizeBytes, a, i)
  <2>1. LoadKind(L, T, a, i) = LoadVector(L, T, a, i) /\ T[2] \in Types
    BY <1>1, <1>6 DEF LoadKind, Formed
  <2>2. Result(n) /\ (n.status = "ok" => n.val \in Nat)
    BY Widths, NumberResult
  <2>3. /\ n.status # "ok" => LoadVector(L, T, a, i) = n
        /\ n.status = "ok" => LoadVector(L, T, a, i) = LoadAll(L, Repeat(T[2], n.val), a, n.idx, T[3])
    BY DEF LoadVector
  <2> HIDE DEF n
  <2>4. ASSUME n.status = "ok" PROVE Result(LoadAll(L, Repeat(T[2], n.val), a, n.idx, T[3]))
    BY <2>1, <2>2, <2>4, LoadRepeatResult DEF Result
  <2> QED
    BY <2>1, <2>2, <2>3, <2>4
<1>7. CASE T[1] = "array"
  <2>1. LoadKind(L, T, a, i) = LoadAll(L, Repeat(T[2], T[3]), a, i, << >>) /\ T[2] \in Types /\ T[3] \in Nat
    BY <1>1, <1>7 DEF LoadKind, Formed
  <2> QED
    BY <2>1, LoadRepeatResult
<1>8. CASE T[1] = "optional"
  <2> DEFINE n == LoadNumber(1, a, i)
  <2>1. LoadKind(L, T, a, i) = LoadOptional(L, T, a, i) /\ T[2] \in Types
    BY <1>1, <1>8 DEF LoadKind, Formed
  <2>2. Result(n)
    BY NumberResult
  <2>3. /\ n.status # "ok" => LoadOptional(L, T, a, i) = n
        /\ n.status = "ok" /\ n.val = 0 => LoadOptional(L, T, a, i) = Ok(T[3], n.idx)
        /\ n.status = "ok" /\ n.val # 0 => LoadOptional(L, T, a, i) = LoadAll(L, <<T[2]>>, a, n.idx, << >>)
    BY DEF LoadOptional
  <2> HIDE DEF n
  <2>4. <<T[2]>> \in Seq(Types)
    BY <2>1
  <2>5. ASSUME n.status = "ok" PROVE Result(LoadAll(L, <<T[2]>>, a, n.idx, << >>))
    BY <2>2, <2>4, LoadAllResult DEF Result
  <2>6. ASSUME n.status = "ok" PROVE Result(Ok(T[3], n.idx))
    BY <2>2, OkParts DEF Result
  <2> QED
    BY <2>1, <2>2, <2>3, <2>5, <2>6
<1>9. CASE T[1] = "map"
  <2> DEFINE n == LoadNumber(CountBytes, a, i)
             r == LoadAll(L, Repeat(T[2], n.val), a, n.idx, << >>)
             m == LoadMap(L, T[2], a, i)
  <2>1. LoadKind(L, T, a, i) = m /\ T[2] \in Types
    BY <1>1, <1>9 DEF LoadKind, Formed
  <2>2. Result(n) /\ (n.status = "ok" => n.val \in Nat)
    BY Widths, NumberResult
  <2>3. /\ n.status # "ok" => m = n
        /\ n.status = "ok" /\ r.status # "ok" => m = r
        /\ n.status = "ok" /\ r.status = "ok" => m = Ok(Inserted(r.val), r.idx)
    BY DEF LoadMap
  <2> HIDE DEF n, m
  <2>4. ASSUME n.status = "ok" PROVE Result(r)
    BY <2>1, <2>2, <2>4, LoadRepeatResult DEF Result
  <2> HIDE DEF r
  <2>5. ASSUME n.status = "ok" PROVE Result(Ok(Inserted(r.val), r.idx))
    BY <2>4, <2>5, OkParts DEF Result
  <2> QED
    BY <2>1, <2>2, <2>3, <2>4, <2>5
<1>10. CASE T[1] = "pair"
  <2>1. LoadKind(L, T, a, i) = LoadAll(L, <<T[2], T[3]>>, a, i, << >>) /\ T[2] \in Types /\ T[3] \in Types
    BY <1>1, <1>10 DEF LoadKind, Formed
  <2>2. <<T[2], T[3]>> \in Seq(Types)
    BY <2>1
  <2> QED
    BY <2>1, <2>2, LoadAllResult
<1>11. CASE T[1] = "set"
  <2>1. LoadKind(L, T, a, i) = LoadAll(L, T[2], a, i, << >>) /\ T[2] \in Seq(Types)
    BY <1>1, <1>11 DEF LoadKind, Formed
  <2> QED
    BY <2>1, LoadAllResult
<1>12. CASE T[1] = "matrix"
  <2> DEFINE r == LoadIndex(T[2], a, i)
             s == LoadIndex(T[3], a, r.idx)
             d == LoadAll(L, Repeat(T[4], r.val * s.val), a, s.idx, << >>)
             m == LoadMatrix(L, T, a, i)
  <2>1. LoadKind(L, T, a, i) = m /\ T[2] \in Nat /\ T[3] \in Nat /\ T[4] \in Types
    BY <1>1, <1>12 DEF LoadKind, Formed
  <2>2. ASSUME NEW size \in Nat, NEW j \in Nat, NEW x, x = LoadIndex(size, a, j)
        PROVE  Result(x) /\ (x.status = "ok" => x.val \in Nat)
    <3>1. CASE size = 0
      BY <2>2, <3>1, Widths, NumberResult DEF LoadIndex
    <3>2. CASE size # 0
      BY <2>2, <3>2, OkParts DEF LoadIndex, Result
    <3> QED
      BY <3>1, <3>2
  <2>3. Result(r) /\ (r.status = "ok" => r.val \in Nat)
    BY <2>1, <2>2
  <2>4. Result(s) /\ (s.status = "ok" => s.val \in Nat)
    <3>1. r.idx \in Nat
      BY <2>3 DEF Result
    <3> HIDE DEF r
    <3> QED
      BY <2>1, <2>2, <3>1
  <2>5. /\ r.status # "ok" => m = r
        /\ r.status = "ok" /\ s.status # "ok" => m = s
        /\ r.status = "ok" /\ s.status = "ok" /\ d.status # "ok" => m = d
        /\ r.status = "ok" /\ s.status = "ok" /\ d.status = "ok"
             => m = Ok([rows |-> r.val, cols |-> s.val, data |-> d.val], d.idx)
    BY DEF LoadMatrix
  <2> HIDE DEF r, s, m
  <2>6. ASSUME r.status = "ok", s.status = "ok" PROVE Result(d)
    <3> DEFINE n == r.val * s.val
    <3>1. n \in Nat /\ s.idx \in Nat
      BY <2>3, <2>4, <2>6 DEF Result
    <3> HIDE DEF n
    <3>2. Result(LoadAll(L, Repeat(T[4], n), a, s.idx, << >>))
      BY <2>1, <3>1, LoadRepeatResult
    <3> QED
      BY <3>2 DEF n
  <2> HIDE DEF d
  <2>7. ASSUME r.status = "ok", s.status = "ok"
        PROVE  Result(Ok([rows |-> r.val, cols |-> s.val, data |-> d.val], d.idx))
    BY <2>6, <2>7, OkParts DEF Result
  <2> QED
    BY <2>1, <2>3, <2>4, <2>5, <2>6, <2>7
<1> QED
  BY <1>1, <1>2, <1>3, <1>4, <1>5, <1>6, <1>7, <1>8, <1>9, <1>10, <1>11, <1>12 DEF Formed

-----------------------------------------------------------------------------
(* What loading gives where a kept value was stored *)

Tables(S, L, K) ==
  StoreTyped(S) /\ LoadTyped(L) /\ KeepTyped(K) /\ Correct(S, L, K) /\ TakesBytes(S, K)

\* A sequence is all of its elements.
LEMMA TakenAll == ASSUME NEW S, NEW s \in Seq(S) PROVE Taken(s, Len(s)) = s
<1> DEFINE n == Len(s)
<1>1. n \in Nat /\ s \in [1..n -> S]
  BY LenProperties
<1> HIDE DEF n
<1>2. Taken(s, n) = s
  BY <1>1 DEF Taken
<1> QED
  BY <1>2 DEF n

\* What is made of a result.
LEMMA MappedGood ==
  ASSUME NEW a, NEW i, NEW b, NEW w, NEW v, NEW r, NEW q, NEW short, Good(r, a, i, w, b, short),
         r.status # "ok" => q = r,
         r.status = "ok" => q.idx = r.idx,
         r = Ok(w, i + Len(b)) => q = Ok(v, i + Len(b))
  PROVE  Good(q, a, i, v, b, short)
BY DEF Good, Whole

\* What holds for all archives holds for those with small sizes.
LEMMA GoodAlways ==
  ASSUME NEW a, NEW i, NEW b, NEW v, NEW r, NEW short, Good(r, a, i, v, b, TRUE)
  PROVE  Good(r, a, i, v, b, short)
BY DEF Good

\* The value behind a size of n bytes.
Sized(a, i, x, n, c, v, size, rest, r, short) ==
  /\ x \in Nat /\ n \in {1, 2} /\ HasRoom(x, n) /\ short \in BOOLEAN /\ (short => n = 1 \/ x < Byte)
  /\ c \in Seq(Bytes) /\ Agree(Digits(x, n) \o c, a, i) /\ size = LoadNumber(n, a, i)
  /\ size.status # "ok" => r = size
  /\ size = Ok(x, i + n) => r = rest
  /\ Agree(c, a, i + n) /\ i + n <= Len(Readable(a)) => Good(rest, a, i + n, v, c, short)

\* What a size of one or two bytes introduces is loaded rightly behind it.
LEMMA AfterSize ==
  ASSUME NEW a \in Archives, NEW i \in Nat, NEW x, NEW n, NEW c, NEW v, NEW size, NEW rest, NEW r, NEW short,
         Sized(a, i, x, n, c, v, size, rest, r, short)
  PROVE  Good(r, a, i, v, Digits(x, n) \o c, short)
<1> DEFINE b == Digits(x, n)
           few == n = 1 \/ x < Byte
<1>0. x \in Nat /\ n \in {1, 2} /\ HasRoom(x, n) /\ c \in Seq(Bytes) /\ short \in BOOLEAN
  BY DEF Sized
<1>1. b \in Seq(Bytes) /\ Len(b) = n
  BY <1>0, DigitsRead
<1>2. Agree(b \o c, a, i)
  BY DEF Sized
<1>3. few \in BOOLEAN /\ (short => few)
  BY DEF Sized
<1>4. Agree(b, a, i) => Exact(size, a, i, x, b, few)
  <2>1. size = LoadNumber(n, a, i)
    BY DEF Sized
  <2> QED
    BY <1>0, <2>1, NumberGood
<1> HIDE DEF b, few
<1>5. Agree(b, a, i) /\ Agree(c, a, i + Len(b))
  BY <1>0, <1>1, <1>2, AgreeParts
<1>6. Exact(size, a, i, x, b, few)
  BY <1>4, <1>5
<1>7. ASSUME size = Ok(x, i + Len(b)), i + Len(b) <= Len(Readable(a))
      PROVE  r = rest /\ Good(rest, a, i + Len(b), v, c, short)
  BY <1>1, <1>5, <1>7 DEF Sized
<1>8. size.status # "ok" => r = size
  BY DEF Sized
<1>9. Sequel(a, i, b, c, x, v, size, rest, r, short, few)
  BY <1>0, <1>1, <1>3, <1>6, <1>7, <1>8 DEF Sequel
<1>10. Good(r, a, i, v, b \o c, short)
  BY <1>9, SequelGood
<1> QED
  BY <1>10 DEF b

\* Values of the same type.
LEMMA RepeatGood ==
  ASSUME NEW S, NEW L, NEW K, Tables(S, L, K),
         NEW c \in BOOLEAN, NEW limit \in Limits, NEW T \in Types, NEW n \in Nat, NEW v,
         \A j \in 1..n : v[j] \in K[T][c][limit],
         NEW a \in Archives, a.compress = c, NEW i \in Nat, i <= Len(Readable(a)),
         Agree(StoreAll(S, Repeat(T, n), v, c), a, i)
  PROVE  Good(LoadAll(L, Repeat(T, n), a, i, << >>), a, i, Taken(v, n),
              StoreAll(S, Repeat(T, n), v, c), limit <= Byte)
<1> DEFINE Ts == Repeat(T, n)
<1>1. Ts \in Seq(Types) /\ Len(Ts) = n /\ \A k \in 1..n : Ts[k] = T
  BY RepeatSeq
<1>2. Agree(StoreAll(S, Ts, v, c), a, i)
  OBVIOUS
<1> HIDE DEF Ts
<1>3. \A j \in 1..Len(Ts) : v[j] \in K[Ts[j]][c][limit]
  BY <1>1
<1>4. StoreTyped(S) /\ KeepTyped(K) /\ Correct(S, L, K)
  BY DEF Tables
<1>5. Good(LoadAll(L, Ts, a, i, << >>), a, i, Taken(v, Len(Ts)), StoreAll(S, Ts, v, c), limit <= Byte)
  BY <1>1, <1>2, <1>3, <1>4, ItemsGood
<1> QED
  BY <1>1, <1>5 DEF Ts

\* A double that is kept.
LEMMA DoubleGood ==
  ASSUME NEW a \in Archives, NEW i, NEW c \in BOOLEAN, a.compress = c,
         NEW v \in Seq(Bytes), Len(v) = 2, c => v[1] = 0, NEW b, b = StoreDouble(v, c),
         NEW r, Good(r, a, i, b, b, TRUE), NEW short
  PROVE  Good(Decompressed(r, a), a, i, v, b, short)
<1> DEFINE q == Decompressed(r, a)
<1>1. CASE c
  <2>1. b = <<v[2]>> /\ b[1] = v[2]
    BY <1>1 DEF StoreDouble
  <2>2. v = <<0, v[2]>>
    <3>1. 1 \in 1..Len(v) /\ 2 \in 1..Len(v)
      OBVIOUS
    <3>2. v[1] = 0 /\ v[1] \in Bytes /\ v[2] \in Bytes
      BY <1>1, <3>1, ElementOfSeq
    <3> DEFINE y == v[2]
               t == <<0, y>>
    <3>3. t \in Seq(Bytes) /\ Len(t) = 2 /\ t[1] = 0 /\ t[2] = y
      BY <3>2
    <3> HIDE DEF t
    <3>4. v = t
      BY <3>2, <3>3, SameBytes
    <3> QED
      BY <3>4 DEF t
  <2>3. r.status = "ok" => q = Ok(<<0, r.val[1]>>, r.idx)
    BY <1>1 DEF Decompressed
  <2>4. r.status # "ok" => q = r
    BY DEF Decompressed
  <2> HIDE DEF q
  <2>5. r.status = "ok" => q.idx = r.idx
    BY <2>3, OkParts
  <2>6. r = Ok(b, i + Len(b)) => q = Ok(v, i + Len(b))
    <3> SUFFICES ASSUME r = Ok(b, i + Len(b)) PROVE q = Ok(v, i + Len(b))
      OBVIOUS
    <3>1. r.val = b /\ r.idx = i + Len(b) /\ r.status = "ok"
      BY OkParts
    <3> QED
      BY <2>1, <2>2, <2>3, <3>1
  <2>7. Good(q, a, i, v, b, TRUE)
    BY <2>4, <2>5, <2>6, MappedGood
  <2> QED
    BY <2>7, GoodAlways DEF q
<1>2. CASE ~c
  <2>1. b = v /\ q = r
    BY <1>2 DEF StoreDouble, Decompressed
  <2>2. Good(q, a, i, v, b, TRUE)
    BY <2>1
  <2> QED
    BY <2>2, GoodAlways
<1> QED
  BY <1>1, <1>2

\* The pairs of a map, inserted one after another, are the map.
LEMMA InsertedEntries ==
  ASSUME NEW T \in Types, T[1] = "map", NEW v \in Vals[T]
  PROVE  Inserted(Taken(Entries(v), Cardinality(DOMAIN v))) = v
<1> DEFINE n == Cardinality(DOMAIN v)
           keys == Keys(v)
           pairs == Taken(Entries(v), n)
           First1(x, key) == pairs[x][1] = key /\ \A y \in 1..(x - 1) : pairs[y][1] # key
<1>1. /\ n \in Nat /\ v = [k \in DOMAIN v |-> v[k]]
      /\ \A x \in 1..n : Entries(v)[x] = <<keys[x], v[keys[x]]>> /\ keys[x] \in DOMAIN v
  BY EntriesOf
<1>2. \A k \in DOMAIN v : \E x \in 1..n : keys[x] = k
  BY EntriesOf, KeysOrder
<1>3. DOMAIN pairs = 1..n /\ \A x \in 1..n : pairs[x] = Entries(v)[x]
  BY DEF Taken
<1>4. Inserted(pairs) = [key \in {pairs[x][1] : x \in DOMAIN pairs} |->
                           pairs[CHOOSE x \in DOMAIN pairs : First1(x, key)][2]]
  BY DEF Inserted
<1> HIDE DEF pairs, n, keys
<1>5. \A x \in 1..n : pairs[x][1] = keys[x] /\ pairs[x][2] = v[keys[x]] /\ keys[x] \in DOMAIN v
  BY <1>1, <1>3
<1>6. {pairs[x][1] : x \in DOMAIN pairs} = DOMAIN v
  <2>1. ASSUME NEW x \in DOMAIN pairs PROVE pairs[x][1] \in DOMAIN v
    BY <1>3, <1>5
  <2>2. ASSUME NEW k \in DOMAIN v PROVE \E x \in DOMAIN pairs : k = pairs[x][1]
    <3>1. PICK x \in 1..n : keys[x] = k
      BY <1>2
    <3>2. x \in DOMAIN pairs /\ k = pairs[x][1]
      BY <1>3, <1>5, <3>1
    <3> QED
      BY <3>2
  <2> QED
    BY <2>1, <2>2
<1>7. ASSUME NEW key \in DOMAIN v
      PROVE  pairs[CHOOSE x \in DOMAIN pairs : First1(x, key)][2] = v[key]
  <2> DEFINE X == {x \in 1..n : pairs[x][1] = key}
  <2>1. X \subseteq Nat /\ X # {}
    BY <1>1, <1>2, <1>5
  <2> HIDE DEF X
  <2>2. PICK m \in X : \A y \in X : m <= y
    BY <2>1, SmallestElement
  <2>3. m \in 1..n /\ pairs[m][1] = key
    BY <2>2 DEF X
  <2>4. ASSUME NEW y \in 1..(m - 1) PROVE pairs[y][1] # key
    <3>1. y \in 1..n /\ ~(m <= y)
      BY <1>1, <2>3
    <3> QED
      BY <2>2, <3>1 DEF X
  <2>5. First1(m, key) /\ m \in DOMAIN pairs
    BY <1>3, <2>3, <2>4
  <2> DEFINE x == CHOOSE z \in DOMAIN pairs : First1(z, key)
  <2>6. x \in DOMAIN pairs /\ pairs[x][1] = key
    <3>1. x \in DOMAIN pairs /\ First1(x, key)
      <4> HIDE DEF First1
      <4> QED
        BY <2>5
    <3> QED
      BY <3>1
  <2> HIDE DEF x
  <2>7. pairs[x][2] = v[key]
    BY <1>3, <1>5, <2>6
  <2> QED
    BY <2>7 DEF x
<1> HIDE DEF First1
<1>8. Inserted(pairs) = [key \in DOMAIN v |-> v[key]]
  BY <1>4, <1>6, <1>7
<1> QED
  BY <1>1, <1>8 DEF pairs, n

\* The number of rows or columns, which is stored if the type does not say it.
StoredIndex(size, x) == IF size = 0 THEN Digits(x, IndexBytes) ELSE << >>

\* It is loaded as it was stored, or known from the type.
LEMMA IndexGood ==
  ASSUME NEW a \in Archives, NEW i \in Nat, NEW x \in Nat, NEW size \in {0, x}, x < Byte * Byte,
         i <= Len(Readable(a)), Agree(StoredIndex(size, x), a, i)
  PROVE  /\ StoredIndex(size, x) \in Seq(Bytes)
         /\ Exact(LoadIndex(size, a, i), a, i, x, StoredIndex(size, x), x < Byte)
<1>1. CASE size = 0
  <2>1. StoredIndex(size, x) = Digits(x, 2) /\ LoadIndex(size, a, i) = LoadNumber(2, a, i)
    BY <1>1, Widths DEF StoredIndex, LoadIndex
  <2>2. HasRoom(x, 2) /\ Digits(x, 2) \in Seq(Bytes)
    BY DigitsRead DEF HasRoom
  <2>3. Agree(Digits(x, 2), a, i)
    BY <2>1
  <2>4. Exact(LoadNumber(2, a, i), a, i, x, Digits(x, 2), 2 = 1 \/ x < Byte)
    BY <2>2, <2>3, NumberGood
  <2>5. Exact(LoadNumber(2, a, i), a, i, x, Digits(x, 2), x < Byte)
    BY <2>4 DEF Exact
  <2> QED
    BY <2>1, <2>2, <2>5
<1>2. CASE size # 0
  <2>1. StoredIndex(size, x) = << >> /\ LoadIndex(size, a, i) = Ok(x, i)
    BY <1>2 DEF StoredIndex, LoadIndex
  <2> DEFINE e == StoredIndex(size, x)
  <2>2. e \in Seq(Bytes) /\ Len(e) = 0
    BY <2>1, EmptySeq
  <2> HIDE DEF e
  <2>3. i + Len(e) = i
    BY <2>2
  <2>4. Exact(Ok(x, i), a, i, x, e, x < Byte)
    BY <2>3, OkParts DEF Exact, Whole
  <2> QED
    BY <2>1, <2>2, <2>4 DEF e
<1> QED
  BY <1>1, <1>2

\* No values take no bytes.
LEMMA LoadNothing ==
  ASSUME NEW L, NEW Ts, Len(Ts) = 0, NEW a, NEW i, NEW read
  PROVE  LoadAll(L, Ts, a, i, read) = Ok(read, i)
<1> DEFINE A == LoadsAll(L, Ts, a, i, read)
<1>1. A[0] = Ok(read, i)
  BY LoadsAllEach
<1>2. LoadAll(L, Ts, a, i, read) = A[Len(Ts)]
  BY DEF LoadAll
<1> QED
  BY <1>1, <1>2

\* A value behind two sizes.
TwoSizes(a, i, b, c, d, x, y, v, first, second, rest, q, r, short, fx, fy) ==
  /\ b \in Seq(Bytes) /\ c \in Seq(Bytes) /\ d \in Seq(Bytes)
  /\ short \in BOOLEAN /\ fx \in BOOLEAN /\ fy \in BOOLEAN /\ (short => fx) /\ (short => fy)
  /\ Exact(first, a, i, x, b, fx) /\ (first.status # "ok" => r = first)
  /\ first = Ok(x, i + Len(b)) => r = q
  /\ i + Len(b) <= Len(Readable(a)) => Exact(second, a, i + Len(b), y, c, fy)
  /\ second.status # "ok" => q = second
  /\ second = Ok(y, (i + Len(b)) + Len(c)) => q = rest
  /\ (i + Len(b)) + Len(c) <= Len(Readable(a)) => Good(rest, a, (i + Len(b)) + Len(c), v, d, short)

\* If both sizes and what comes after them are loaded rightly, so is all of it.
LEMMA TwoSizesGood ==
  ASSUME NEW a \in Archives, NEW i \in Nat, NEW b, NEW c, NEW d, NEW x, NEW y, NEW v, NEW first, NEW second,
         NEW rest, NEW q, NEW r, NEW short, NEW fx, NEW fy,
         TwoSizes(a, i, b, c, d, x, y, v, first, second, rest, q, r, short, fx, fy)
  PROVE  Good(r, a, i, v, b \o (c \o d), short)
<1>0. /\ b \in Seq(Bytes) /\ c \in Seq(Bytes) /\ d \in Seq(Bytes)
      /\ short \in BOOLEAN /\ fx \in BOOLEAN /\ fy \in BOOLEAN /\ (short => fx) /\ (short => fy)
  BY DEF TwoSizes
<1> DEFINE j == i + Len(b)
           e == c \o d
<1>1. j \in Nat /\ e \in Seq(Bytes)
  BY <1>0, LenProperties, ConcatProperties
<1>2. j <= Len(Readable(a)) => Exact(second, a, j, y, c, fy)
  BY DEF TwoSizes
<1>3. second = Ok(y, j + Len(c)) /\ j + Len(c) <= Len(Readable(a))
        => q = rest /\ Good(rest, a, j + Len(c), v, d, short)
  BY DEF TwoSizes
<1>4. second.status # "ok" => q = second
  BY DEF TwoSizes
<1>5. Exact(first, a, i, x, b, fx) /\ (first.status # "ok" => r = first) /\ (first = Ok(x, j) => r = q)
  BY DEF TwoSizes
<1> HIDE DEF j
<1>6. j <= Len(Readable(a)) => Good(q, a, j, v, c \o d, short)
  <2> SUFFICES ASSUME j <= Len(Readable(a)) PROVE Good(q, a, j, v, c \o d, short)
    OBVIOUS
  <2>1. Sequel(a, j, c, d, y, v, second, rest, q, short, fy)
    BY <1>0, <1>2, <1>3, <1>4 DEF Sequel
  <2> QED
    BY <1>1, <2>1, SequelGood
<1>7. first = Ok(x, i + Len(b)) /\ i + Len(b) <= Len(Readable(a))
        => r = q /\ Good(q, a, i + Len(b), v, e, short)
  BY <1>5, <1>6 DEF j
<1> HIDE DEF e
<1>8. Good(r, a, i, v, b \o e, short)
  <2>1. Sequel(a, i, b, e, x, v, first, q, r, short, fx)
    BY <1>0, <1>1, <1>5, <1>7 DEF Sequel
  <2> QED
    BY <2>1, SequelGood
<1> QED
  BY <1>8 DEF e

\* A kept value of a type is loaded as it was stored.
LEMMA StoreKindGood ==
  ASSUME NEW S, NEW L, NEW K, Tables(S, L, K), NEW T \in Types, NEW c \in BOOLEAN,
         NEW limit \in Limits, NEW v \in Vals[T], KeptKind(K, v, T, c, limit),
         NEW a \in Archives, a.compress = c, NEW i \in Nat, i <= Len(Readable(a)),
         Agree(StoreKind(S, T, v, c), a, i)
  PROVE  Good(LoadKind(L, T, a, i), a, i, v, StoreKind(S, T, v, c), limit <= Byte)
<1> DEFINE short == limit <= Byte
           b == StoreKind(S, T, v, c)
           r == LoadKind(L, T, a, i)
<1>1. Formed(T) /\ IsOf(v, T)
  BY TypeFacts
<1>2. /\ short \in BOOLEAN /\ b \in Seq(Bytes) /\ Agree(b, a, i) /\ StoreTyped(S)
      /\ limit \in Nat /\ limit <= Byte * Byte /\ Byte \in Nat /\ Byte > 1
  BY StoreKindBytes, ByteFacts DEF Tables, Limits
<1>3. ASSUME NEW x \in Nat, x < limit
      PROVE  HasRoom(x, 2) /\ (short => x < Byte)
  <2> DEFINE y == Byte * Byte
  <2>1. y \in Nat /\ limit <= y
    BY <1>2
  <2> HIDE DEF y
  <2>2. x < y
    BY <1>2, <1>3, <2>1
  <2> QED
    BY <1>2, <1>3, <2>2 DEF HasRoom, y
<1>4. CASE T[1] = "pod"
  <2>1. b = v /\ r = LoadBytes(T[2], a, i) /\ Len(v) = T[2] /\ T[2] > 0
    BY <1>1, <1>4 DEF StoreKind, LoadKind, IsOf, Formed
  <2> HIDE DEF b, r
  <2>2. Good(LoadBytes(Len(b), a, i), a, i, b, b, TRUE)
    BY <1>2, <2>1, LoadGood
  <2>3. Good(r, a, i, v, b, TRUE)
    BY <2>1, <2>2
  <2>4. Good(r, a, i, v, b, short)
    BY <2>3, GoodAlways
  <2> QED
    BY <2>4 DEF b, r
<1>5. CASE T[1] = "enum"
  <2>1. b = Digits(v, 1) /\ r = LoadNumber(1, a, i) /\ v \in Nat /\ v < Byte
    BY <1>1, <1>5 DEF StoreKind, LoadKind, IsOf, KeptKind
  <2> HIDE DEF b, r
  <2>2. HasRoom(v, 1) /\ Agree(Digits(v, 1), a, i)
    BY <1>2, <2>1 DEF HasRoom
  <2>3. Exact(LoadNumber(1, a, i), a, i, v, Digits(v, 1), 1 = 1 \/ v < Byte)
    BY <2>1, <2>2, NumberGood
  <2>4. Good(LoadNumber(1, a, i), a, i, v, Digits(v, 1), short)
    BY <2>3, OkParts DEF Exact, Good
  <2> QED
    BY <2>1, <2>4 DEF b, r
<1>6. CASE T[1] \in {"double", "scalar"}
  <2> DEFINE n == DoubleBytes(a)
             l == IF T[1] = "double" THEN LoadBytes(n, a, i) ELSE ReadBytes(n, a, i)
  <2>1. /\ v \in Seq(Bytes) /\ Len(v) = 2 /\ (c => v[1] = 0) /\ b = StoreDouble(v, c)
        /\ r = Decompressed(l, a)
    BY <1>1, <1>6 DEF StoreKind, LoadKind, IsOf, KeptKind, LoadDouble, ReadDouble
  <2>2. Len(b) = n /\ n > 0
    <3>1. CASE c
      BY <2>1, <3>1 DEF StoreDouble, DoubleBytes
    <3>2. CASE ~c
      BY <2>1, <3>2 DEF StoreDouble, DoubleBytes
    <3> QED
      BY <3>1, <3>2
  <2> HIDE DEF b, r, n
  <2>3. Good(LoadBytes(Len(b), a, i), a, i, b, b, TRUE) /\ Good(ReadBytes(Len(b), a, i), a, i, b, b, TRUE)
    BY <1>2, <2>2, LoadGood, ReadGood
  <2>4. Good(l, a, i, b, b, TRUE)
    BY <2>2, <2>3
  <2> HIDE DEF l
  <2>5. Good(Decompressed(l, a), a, i, v, b, short)
    BY <2>1, <2>4, DoubleGood
  <2> QED
    BY <2>1, <2>5 DEF b, r
<1>7. CASE T[1] = "string"
  <2> DEFINE x == Len(v)
             size == LoadNumber(2, a, i)
             rest == ReadBytes(x, a, i + 2)
  <2>1. /\ v \in Seq(Bytes) /\ x < limit /\ b = Digits(x, 2) \o v
        /\ r = IF size.status = "ok" THEN ReadBytes(size.val, a, size.idx) ELSE size
    BY <1>1, <1>7, Widths DEF StoreKind, LoadKind, IsOf, KeptKind, StoreString, LoadString
  <2> HIDE DEF b, r
  <2>2. x \in Nat /\ HasRoom(x, 2) /\ (short => x < Byte) /\ Agree(Digits(x, 2) \o v, a, i)
    BY <1>2, <1>3, <2>1, LenProperties
  <2>3. size = Ok(x, i + 2) => r = rest
    BY <2>1, OkParts
  <2>4. Agree(v, a, i + 2) => Good(rest, a, i + 2, v, v, short)
    <3> SUFFICES ASSUME Agree(v, a, i + 2) PROVE Good(rest, a, i + 2, v, v, short)
      OBVIOUS
    <3>1. i + 2 \in Nat
      OBVIOUS
    <3>2. Good(ReadBytes(Len(v), a, i + 2), a, i + 2, v, v, TRUE)
      BY <2>1, <3>1, ReadGood
    <3> QED
      BY <3>2, GoodAlways
  <2>5. size = LoadNumber(2, a, i)
    OBVIOUS
  <2> HIDE DEF x, size, rest
  <2>6. Good(r, a, i, v, Digits(x, 2) \o v, short)
    <3>1. size.status # "ok" => r = size
      BY <2>1
    <3>2. v \in Seq(Bytes) /\ short \in BOOLEAN
      BY <1>2, <2>1
    <3> HIDE DEF short
    <3>3. Sized(a, i, x, 2, v, v, size, rest, r, short)
      BY <2>2, <2>3, <2>4, <2>5, <3>1, <3>2 DEF Sized
    <3> QED
      BY <3>3, AfterSize
  <2> QED
    BY <2>1, <2>6 DEF b, r
<1>8. CASE T[1] = "vector"
  <2> DEFINE x == Len(v)
             U == T[2]
             d == StoreAll(S, Repeat(U, x), v, c)
             size == LoadNumber(2, a, i)
             rest == LoadAll(L, Repeat(U, x), a, i + 2, << >>)
  <2>1. /\ v \in Seq(Vals[U]) /\ U \in Types /\ x < limit /\ T[3] = << >>
        /\ \A j \in 1..x : v[j] \in K[U][c][limit]
    BY <1>1, <1>8 DEF IsOf, Formed, KeptKind
  <2>2. b = Digits(x, 2) \o d
    BY <1>8, Widths DEF StoreKind, StoreVector
  <2>3. r = IF size.status # "ok" THEN size ELSE LoadAll(L, Repeat(U, size.val), a, size.idx, T[3])
    BY <1>8, Widths DEF LoadKind, LoadVector
  <2> HIDE DEF b, r, U
  <2>4. x \in Nat /\ HasRoom(x, 2) /\ (short => x < Byte) /\ Agree(Digits(x, 2) \o d, a, i)
    BY <1>2, <1>3, <2>1, <2>2, LenProperties
  <2>5. size = Ok(x, i + 2) => r = rest
    BY <2>1, <2>3, OkParts
  <2>6. Taken(v, x) = v
    BY <2>1, TakenAll
  <2> HIDE DEF x
  <2>7. d \in Seq(Bytes)
    <3>1. \A j \in 1..x : v[j] \in Vals[U]
      BY <2>1, ElementOfSeq DEF x
    <3> QED
      BY <1>2, <2>1, <2>4, <3>1, StoreRepeatBytes
  <2>8. Agree(d, a, i + 2) /\ i + 2 <= Len(Readable(a)) => Good(rest, a, i + 2, v, d, short)
    BY <2>1, <2>4, <2>6, RepeatGood
  <2>9. size = LoadNumber(2, a, i)
    OBVIOUS
  <2>10. size.status # "ok" => r = size
    BY <2>3
  <2> HIDE DEF size, rest, d, short
  <2>11. Good(r, a, i, v, Digits(x, 2) \o d, short)
    <3>1. short \in BOOLEAN
      BY <1>2 DEF short
    <3>2. Sized(a, i, x, 2, d, v, size, rest, r, short)
      BY <2>4, <2>5, <2>7, <2>8, <2>9, <2>10, <3>1 DEF Sized
    <3> QED
      BY <3>2, AfterSize
  <2> QED
    BY <2>2, <2>11 DEF b, r, short
<1>9. CASE T[1] = "array"
  <2> DEFINE U == T[2]
             n == T[3]
  <2>1. /\ v \in Seq(Vals[U]) /\ U \in Types /\ n \in Nat /\ Len(v) = n
        /\ \A j \in 1..n : v[j] \in K[U][c][limit]
    BY <1>1, <1>9 DEF IsOf, Formed, KeptKind
  <2>2. b = StoreAll(S, Repeat(U, n), v, c) /\ r = LoadAll(L, Repeat(U, n), a, i, << >>)
    BY <1>9 DEF StoreKind, LoadKind
  <2> HIDE DEF b, r, U, n
  <2>3. Taken(v, n) = v
    BY <2>1, TakenAll
  <2>4. Good(r, a, i, Taken(v, n), b, short)
    BY <1>2, <2>1, <2>2, RepeatGood
  <2> QED
    BY <2>3, <2>4 DEF b, r
<1>10. CASE T[1] = "optional"
  <2> DEFINE x == Len(v)
             U == T[2]
             d == StoreAll(S, Repeat(U, x), v, c)
             size == LoadNumber(1, a, i)
             rest == LoadAll(L, Repeat(U, x), a, i + 1, << >>)
  <2>1. /\ v \in Seq(Vals[U]) /\ U \in Types /\ x <= 1 /\ (T[3] = << >> \/ v # << >>)
        /\ \A j \in 1..x : v[j] \in K[U][c][limit]
    BY <1>1, <1>10 DEF IsOf, Formed, KeptKind
  <2>2. b = Digits(x, 1) \o d
    BY <1>10 DEF StoreKind, StoreOptional
  <2>3. r = IF size.status # "ok" THEN size
            ELSE IF size.val = 0 THEN Ok(T[3], size.idx) ELSE LoadAll(L, <<U>>, a, size.idx, << >>)
    BY <1>10 DEF LoadKind, LoadOptional
  <2> HIDE DEF b, r, U
  <2>4. x \in Nat /\ HasRoom(x, 1) /\ Agree(Digits(x, 1) \o d, a, i)
    BY <1>2, <2>1, <2>2, LenProperties DEF HasRoom
  <2>5. size = Ok(x, i + 1) => r = rest
    <3> SUFFICES ASSUME size = Ok(x, i + 1) PROVE r = rest
      OBVIOUS
    <3>1. size.val = x /\ size.idx = i + 1 /\ size.status = "ok"
      BY OkParts
    <3>2. CASE x = 0
      <4>1. v = << >>
        BY <2>1, <3>2, EmptySeq
      <4>2. r = Ok(<< >>, i + 1)
        BY <2>1, <2>3, <3>1, <3>2, <4>1
      <4> DEFINE Ts == Repeat(U, x)
      <4>3. Len(Ts) = 0
        BY <2>1, <2>4, <3>2, RepeatSeq
      <4> HIDE DEF Ts
      <4>5. LoadAll(L, Ts, a, i + 1, << >>) = Ok(<< >>, i + 1)
        BY <4>3, LoadNothing
      <4> QED
        BY <4>2, <4>5 DEF Ts
    <3>3. CASE x = 1
      <4>1. Repeat(U, 1) = <<U>>
        BY DEF Repeat
      <4> QED
        BY <2>3, <3>1, <3>3, <4>1
    <3> QED
      <4>0. x \in Nat /\ x <= 1
        BY <2>1, <2>4
      <4>1. x = 0 \/ x = 1
        <5> HIDE DEF x
        <5> QED
          BY <4>0
      <4> QED
        BY <3>2, <3>3, <4>1
  <2>6. Taken(v, x) = v
    BY <2>1, TakenAll
  <2> HIDE DEF x
  <2>7. d \in Seq(Bytes)
    <3>1. \A j \in 1..x : v[j] \in Vals[U]
      BY <2>1, ElementOfSeq DEF x
    <3> QED
      BY <1>2, <2>1, <2>4, <3>1, StoreRepeatBytes
  <2>8. Agree(d, a, i + 1) /\ i + 1 <= Len(Readable(a)) => Good(rest, a, i + 1, v, d, short)
    BY <2>1, <2>4, <2>6, RepeatGood
  <2>9. size = LoadNumber(1, a, i)
    OBVIOUS
  <2>10. size.status # "ok" => r = size
    BY <2>3
  <2> HIDE DEF size, rest, d, short
  <2>11. Good(r, a, i, v, Digits(x, 1) \o d, short)
    <3>1. short \in BOOLEAN
      BY <1>2 DEF short
    <3>2. Sized(a, i, x, 1, d, v, size, rest, r, short)
      BY <2>4, <2>5, <2>7, <2>8, <2>9, <2>10, <3>1 DEF Sized
    <3> QED
      BY <3>2, AfterSize
  <2> QED
    BY <2>2, <2>11 DEF b, r, short
<1>11. CASE T[1] = "map"
  <2> DEFINE x == Cardinality(DOMAIN v)
             U == T[2]
             e == Entries(v)
             d == StoreAll(S, Repeat(U, x), e, c)
             size == LoadNumber(1, a, i)
             all == LoadAll(L, Repeat(U, x), a, i + 1, << >>)
             rest == IF all.status # "ok" THEN all ELSE Ok(Inserted(all.val), all.idx)
  <2>1. /\ x < Byte
        /\ \A k \in DOMAIN v : <<k, v[k]>> \in K[U][c][limit]
    BY <1>1, <1>11 DEF KeptKind
  <2>2. /\ x \in Nat /\ U \in Types /\ Inserted(Taken(e, x)) = v
        /\ \A j \in 1..x : e[j] \in Vals[U] /\ e[j] = <<Keys(v)[j], v[Keys(v)[j]]>> /\ Keys(v)[j] \in DOMAIN v
    BY <1>11, EntriesOf, InsertedEntries
  <2>3. b = Digits(x, 1) \o d
    BY <1>11, Widths DEF StoreKind, StoreMap
  <2>4. /\ size.status # "ok" => r = size
        /\ size.status = "ok" => r = LET all1 == LoadAll(L, Repeat(U, size.val), a, size.idx, << >>)
                                     IN  IF all1.status # "ok" THEN all1 ELSE Ok(Inserted(all1.val), all1.idx)
    BY <1>11, Widths DEF LoadKind, LoadMap
  <2> HIDE DEF b, r, U, e, x
  <2>5. \A j \in 1..x : e[j] \in K[U][c][limit]
    BY <2>1, <2>2
  <2>6. HasRoom(x, 1) /\ Agree(Digits(x, 1) \o d, a, i)
    BY <1>2, <2>1, <2>2, <2>3 DEF HasRoom
  <2>7. size = Ok(x, i + 1) => r = rest
    BY <2>4, OkParts
  <2>8. d \in Seq(Bytes)
    BY <1>2, <2>2, StoreRepeatBytes
  <2>9. Agree(d, a, i + 1) /\ i + 1 <= Len(Readable(a)) => Good(all, a, i + 1, Taken(e, x), d, short)
    BY <2>2, <2>5, RepeatGood
  <2>10. size = LoadNumber(1, a, i)
    OBVIOUS
  <2> HIDE DEF size, d, short, all
  <2>11. Agree(d, a, i + 1) /\ i + 1 <= Len(Readable(a)) => Good(rest, a, i + 1, v, d, short)
    <3>1. /\ all.status # "ok" => rest = all
          /\ all.status = "ok" => rest = Ok(Inserted(all.val), all.idx)
      OBVIOUS
    <3> HIDE DEF rest
    <3>2. all.status = "ok" => rest.idx = all.idx
      BY <3>1, OkParts
    <3>3. all = Ok(Taken(e, x), (i + 1) + Len(d)) => rest = Ok(v, (i + 1) + Len(d))
      BY <2>2, <3>1, OkParts
    <3> QED
      BY <2>9, <3>1, <3>2, <3>3, MappedGood
  <2>12. size.status # "ok" => r = size
    BY <2>4
  <2> HIDE DEF rest
  <2>13. Good(r, a, i, v, Digits(x, 1) \o d, short)
    <3>1. x \in Nat /\ short \in BOOLEAN
      BY <1>2, <2>2
    <3> QED
      <4>1. short \in BOOLEAN
        BY <1>2 DEF short
      <4>2. Sized(a, i, x, 1, d, v, size, rest, r, short)
        BY <2>6, <2>7, <2>8, <2>10, <2>11, <2>12, <3>1, <4>1 DEF Sized
      <4> QED
        BY <4>2, AfterSize
  <2> QED
    BY <2>3, <2>13 DEF b, r, short
<1>12. CASE T[1] = "pair"
  <2> DEFINE Ts == <<T[2], T[3]>>
  <2>1. /\ v = <<v[1], v[2]>> /\ T[2] \in Types /\ T[3] \in Types
        /\ v[1] \in K[T[2]][c][limit] /\ v[2] \in K[T[3]][c][limit]
    BY <1>1, <1>12 DEF IsOf, Formed, KeptKind
  <2>2. b = StoreAll(S, Ts, v, c) /\ r = LoadAll(L, Ts, a, i, << >>)
    BY <1>12 DEF StoreKind, LoadKind
  <2>3. Ts \in Seq(Types) /\ Len(Ts) = 2 /\ Ts[1] = T[2] /\ Ts[2] = T[3]
    BY <2>1
  <2>4. Taken(v, 2) = v
    BY <2>1 DEF Taken
  <2> HIDE DEF b, r, Ts
  <2>5. \A j \in 1..Len(Ts) : v[j] \in K[Ts[j]][c][limit]
    BY <2>1, <2>3
  <2>6. Good(r, a, i, Taken(v, Len(Ts)), b, short)
    BY <1>2, <2>2, <2>3, <2>5, ItemsGood DEF Tables
  <2> QED
    BY <2>3, <2>4, <2>6 DEF b, r
<1>13. CASE T[1] = "set"
  <2> DEFINE Ts == T[2]
  <2>1. /\ v = [j \in 1..Len(Ts) |-> v[j]] /\ Ts \in Seq(Types)
        /\ \A j \in 1..Len(Ts) : v[j] \in K[Ts[j]][c][limit]
    BY <1>1, <1>13 DEF IsOf, Formed, KeptKind
  <2>2. b = StoreAll(S, Ts, v, c) /\ r = LoadAll(L, Ts, a, i, << >>)
    BY <1>13 DEF StoreKind, LoadKind
  <2>3. Taken(v, Len(Ts)) = v
    BY <2>1 DEF Taken
  <2> HIDE DEF b, r, Ts
  <2>4. Good(r, a, i, Taken(v, Len(Ts)), b, short)
    BY <1>2, <2>1, <2>2, ItemsGood DEF Tables
  <2> QED
    BY <2>3, <2>4 DEF b, r
<1>14. CASE T[1] = "matrix"
  <2> DEFINE x == v.rows
             y == v.cols
             n == x * y
             U == T[4]
             bx == StoredIndex(T[2], x)
             by == StoredIndex(T[3], y)
             d == StoreAll(S, Repeat(U, n), v.data, c)
             sx == LoadIndex(T[2], a, i)
             j == i + Len(bx)
             sy == LoadIndex(T[3], a, j)
             k == j + Len(by)
             all == LoadAll(L, Repeat(U, n), a, k, << >>)
             M(s) == [rows |-> x, cols |-> y, data |-> s]
             rest == IF all.status # "ok" THEN all ELSE Ok(M(all.val), all.idx)
             rows == LET s == LoadIndex(T[3], a, sx.idx)
                         e == LoadAll(L, Repeat(U, sx.val * s.val), a, s.idx, << >>)
                     IN  IF s.status # "ok" THEN s ELSE IF e.status # "ok" THEN e
                         ELSE Ok([rows |-> sx.val, cols |-> s.val, data |-> e.val], e.idx)
             cols == LET e == LoadAll(L, Repeat(U, x * sy.val), a, sy.idx, << >>)
                     IN  IF sy.status # "ok" THEN sy ELSE IF e.status # "ok" THEN e
                         ELSE Ok([rows |-> x, cols |-> sy.val, data |-> e.val], e.idx)
  <2>1. /\ v = M(v.data) /\ x \in Nat /\ y \in Nat /\ v.data \in Seq(Vals[U])
        /\ Len(v.data) = n /\ T[2] \in {0, x} /\ T[3] \in {0, y} /\ U \in Types
    BY <1>1, <1>14 DEF IsOf, Formed
  <2>2. /\ x < limit /\ y < limit /\ \A m \in 1..Len(v.data) : v.data[m] \in K[U][c][limit]
    BY <1>14 DEF KeptKind
  <2>3. b = bx \o (by \o d)
    BY <1>14 DEF StoreKind, StoreMatrix, StoredIndex
  <2>4. /\ sx.status # "ok" => r = sx
        /\ sx.status = "ok" => r = rows
    BY <1>14 DEF LoadKind, LoadMatrix
  <2>5. /\ sy.status # "ok" => cols = sy
        /\ sy = Ok(y, k) => cols = rest
    BY OkParts
  <2>6. sx = Ok(x, j) => r = cols
    <3> SUFFICES ASSUME sx = Ok(x, j) PROVE r = cols
      OBVIOUS
    <3>1. sx.val = x /\ sx.idx = j /\ sx.status = "ok"
      BY OkParts
    <3>2. rows = cols
      <4> HIDE DEF sx, r
      <4> QED
        BY <3>1
    <3> QED
      BY <2>4, <3>1, <3>2
  <2>7. /\ all.status # "ok" => rest = all
        /\ all.status = "ok" => rest = Ok(M(all.val), all.idx)
    OBVIOUS
  <2> HIDE DEF rows, cols, rest, b, r
  <2>8. x < Byte * Byte /\ y < Byte * Byte /\ (short => x < Byte /\ y < Byte)
    <3> DEFINE z == Byte * Byte
    <3>1. z \in Nat /\ limit <= z
      BY <1>2
    <3> HIDE DEF z
    <3>2. x < z /\ y < z
      BY <1>2, <2>1, <2>2, <3>1
    <3> QED
      BY <1>2, <2>1, <2>2, <3>2 DEF z
  <2>9. n \in Nat
    BY <2>1
  <2>10. d \in Seq(Bytes)
    <3> HIDE DEF n, U
    <3>1. \A m \in 1..n : v.data[m] \in Vals[U]
      BY <2>1, ElementOfSeq
    <3> QED
      BY <1>2, <2>1, <2>9, <3>1, StoreRepeatBytes
  <2>11. bx \in Seq(Bytes) /\ by \in Seq(Bytes) /\ by \o d \in Seq(Bytes)
    <3>1. bx \in Seq(Bytes) /\ by \in Seq(Bytes)
      BY <2>1, DigitsBytes, EmptySeq DEF StoredIndex
    <3> HIDE DEF d, bx, by
    <3> QED
      BY <2>10, <3>1, ConcatProperties
  <2>12. Len(bx) \in Nat /\ Len(by) \in Nat /\ j \in Nat /\ k \in Nat
    <3>1. Len(bx) \in Nat /\ Len(by) \in Nat
      BY <2>11, LenProperties
    <3> QED
      BY <3>1
  <2> HIDE DEF d, bx, by, x, y
  <2>13. Agree(bx, a, i) /\ Agree(by, a, j) /\ Agree(d, a, k)
    <3>1. Agree(bx, a, i) /\ Agree(by \o d, a, j)
      BY <1>2, <2>3, <2>11, AgreeParts
    <3> HIDE DEF j
    <3> QED
      BY <2>10, <2>11, <2>12, <3>1, AgreeParts DEF k
  <2>14. Exact(sx, a, i, x, bx, x < Byte)
    BY <2>1, <2>8, <2>13, IndexGood DEF bx
  <2>15. j <= Len(Readable(a)) => Exact(sy, a, j, y, by, y < Byte)
    <3> HIDE DEF j
    <3> QED
      BY <2>1, <2>8, <2>12, <2>13, IndexGood DEF by
  <2>16. k <= Len(Readable(a)) => Good(all, a, k, Taken(v.data, n), d, short)
    <3> HIDE DEF j, k, U, n
    <3>1. \A m \in 1..n : v.data[m] \in K[U][c][limit]
      BY <2>1, <2>2
    <3> QED
      BY <2>1, <2>9, <2>12, <2>13, <3>1, RepeatGood DEF d
  <2>17. Taken(v.data, n) = v.data
    <3> HIDE DEF n, U
    <3> QED
      BY <2>1, TakenAll
  <2> HIDE DEF all
  <2>18. k <= Len(Readable(a)) => Good(rest, a, k, v, d, short)
    <3> HIDE DEF M
    <3>1. all.status = "ok" => rest.idx = all.idx
      BY <2>7, OkParts
    <3>2. all = Ok(v.data, k + Len(d)) => rest = Ok(v, k + Len(d))
      BY <2>1, <2>7, OkParts
    <3> HIDE DEF k, short
    <3> QED
      BY <2>7, <2>16, <2>17, <3>1, <3>2, MappedGood
  <2>19. Good(r, a, i, v, bx \o (by \o d), short)
    <3> DEFINE fx == x < Byte
               fy == y < Byte
    <3>1. fx \in BOOLEAN /\ fy \in BOOLEAN /\ (short => fx) /\ (short => fy) /\ short \in BOOLEAN
      BY <1>2, <2>8
    <3>2. Exact(sx, a, i, x, bx, fx)
      BY <2>14
    <3>3. sx.status # "ok" => r = sx
      BY <2>4
    <3>4. sx = Ok(x, i + Len(bx)) => r = cols
      BY <2>6
    <3>5. i + Len(bx) <= Len(Readable(a)) => Exact(sy, a, i + Len(bx), y, by, fy)
      BY <2>15
    <3>6. sy.status # "ok" => cols = sy
      BY <2>5
    <3>7. sy = Ok(y, (i + Len(bx)) + Len(by)) => cols = rest
      BY <2>5
    <3>8. (i + Len(bx)) + Len(by) <= Len(Readable(a))
            => Good(rest, a, (i + Len(bx)) + Len(by), v, d, short)
      BY <2>18
    <3>9. bx \in Seq(Bytes) /\ by \in Seq(Bytes) /\ d \in Seq(Bytes)
      BY <2>10, <2>11
    <3> HIDE DEF fx, fy, sx, sy, j, k, short
    <3> QED
      <4>1. TwoSizes(a, i, bx, by, d, x, y, v, sx, sy, rest, cols, r, short, fx, fy)
        BY <3>1, <3>2, <3>3, <3>4, <3>5, <3>6, <3>7, <3>8, <3>9 DEF TwoSizes
      <4> QED
        BY <4>1, TwoSizesGood
  <2> QED
    BY <2>3, <2>19 DEF b, r
<1> QED
  BY <1>1, <1>4, <1>5, <1>6, <1>7, <1>8, <1>9, <1>10, <1>11, <1>12, <1>13, <1>14 DEF Formed

-----------------------------------------------------------------------------
(* Kept values of any nesting *)

\* Of two parts one of which has a byte there is a byte.
LEMMA SomeBytes ==
  ASSUME NEW b \in Seq(Bytes), NEW d \in Seq(Bytes), Len(b) > 0 \/ Len(d) > 0
  PROVE  Len(b \o d) > 0
BY LenProperties, ConcatProperties

\* Kept values one after another take bytes.
LEMMA StoreAllTakes ==
  ASSUME NEW S, NEW K, StoreTyped(S), KeepTyped(K), TakesBytes(S, K),
         NEW c \in BOOLEAN, NEW limit \in Nat, NEW Ts \in Seq(Types), Len(Ts) > 0, NEW v,
         \A j \in 1..Len(Ts) : v[j] \in K[Ts[j]][c][limit]
  PROVE  Len(StoreAll(S, Ts, v, c)) > 0
<1> DEFINE n == Len(Ts)
           parts == Parts(S, Ts, v, c)
           J == Joins(parts)
<1>1. n \in Nat /\ n > 0 /\ n \in 1..n /\ n - 1 \in 0..n /\ \A k \in 1..n : Ts[k] \in Types
  BY LenProperties, ElementOfSeq
<1>2. \A k \in 1..n : v[k] \in Vals[Ts[k]] /\ S[Ts[k]][c][v[k]] \in Seq(Bytes)
  BY <1>1 DEF KeepTyped, StoreTyped
<1>3. /\ StoreAll(S, Ts, v, c) = J[n]
      /\ \A k \in 1..n : parts[k] = S[Ts[k]][c][v[k]] /\ parts[k] \in Seq(Bytes)
      /\ \A k \in 0..n : J[k] \in Seq(Bytes)
  <2>1. AreBytes(S, Ts, v, c)
    BY <1>2 DEF AreBytes
  <2>2. JoinedParts(S, Ts, v, c)
    BY <2>1, StoreAllJoins
  <2> QED
    BY <2>2, Zenon DEF JoinedParts
<1>4. \A k \in Nat : J[k + 1] = J[k] \o parts[k + 1]
  BY JoinsEach
<1> HIDE DEF n, parts, J
<1>5. J[n] = J[n - 1] \o parts[n]
  <2>1. n - 1 \in Nat /\ (n - 1) + 1 = n
    BY <1>1
  <2> QED
    BY <1>4, <2>1
<1>6. Len(parts[n]) > 0
  <2>1. v[n] \in K[Ts[n]][c][limit] /\ Ts[n] \in Types
    BY <1>1 DEF n
  <2> QED
    BY <1>1, <1>3, <2>1 DEF TakesBytes
<1> QED
  BY <1>1, <1>3, <1>5, <1>6, SomeBytes

\* So do values of the same type.
LEMMA StoreRepeatTakes ==
  ASSUME NEW S, NEW K, StoreTyped(S), KeepTyped(K), TakesBytes(S, K),
         NEW c \in BOOLEAN, NEW limit \in Nat, NEW T \in Types, NEW n \in Nat, n > 0, NEW v,
         \A j \in 1..n : v[j] \in K[T][c][limit]
  PROVE  Len(StoreAll(S, Repeat(T, n), v, c)) > 0
<1> DEFINE Ts == Repeat(T, n)
<1>1. Ts \in Seq(Types) /\ Len(Ts) = n /\ \A k \in 1..n : Ts[k] = T
  BY RepeatSeq
<1> HIDE DEF Ts
<1>2. \A k \in 1..Len(Ts) : v[k] \in K[Ts[k]][c][limit]
  BY <1>1
<1>3. Len(StoreAll(S, Ts, v, c)) > 0
  BY <1>1, <1>2, StoreAllTakes
<1> QED
  BY <1>3 DEF Ts

\* A size takes bytes.
LEMMA DigitsTake ==
  ASSUME NEW x \in Nat, NEW n \in {1, 2}
  PROVE  Digits(x, n) \in Seq(Bytes) /\ Len(Digits(x, n)) > 0
<1>1. Digits(x, n) \in Seq(Bytes) /\ Len(Digits(x, n)) = n
  BY DigitsRead
<1> HIDE DEF Digits
<1> QED
  BY <1>1

\* So it does with whatever comes behind it.
LEMMA SizeTakes ==
  ASSUME NEW x \in Nat, NEW n \in {1, 2}, NEW d \in Seq(Bytes)
  PROVE  Len(Digits(x, n) \o d) > 0
BY DigitsTake, SomeBytes

\* A kept value takes at least one byte.
LEMMA StoreKindTakes ==
  ASSUME NEW S, NEW K, StoreTyped(S), KeepTyped(K), TakesBytes(S, K), NEW T \in Types,
         NEW c \in BOOLEAN, NEW limit \in Nat, NEW v \in Vals[T], KeptKind(K, v, T, c, limit)
  PROVE  Len(StoreKind(S, T, v, c)) > 0
<1>1. Formed(T) /\ IsOf(v, T)
  BY TypeFacts
<1>2. CASE T[1] = "pod"
  BY <1>1, <1>2 DEF StoreKind, IsOf, Formed
<1>3. CASE T[1] = "enum"
  <2>1. v \in Nat /\ StoreKind(S, T, v, c) = Digits(v, 1)
    BY <1>1, <1>3 DEF StoreKind, IsOf
  <2> QED
    BY <2>1, DigitsTake
<1>4. CASE T[1] \in {"double", "scalar"}
  <2>1. v \in Seq(Bytes) /\ Len(v) = 2 /\ StoreKind(S, T, v, c) = StoreDouble(v, c)
    BY <1>1, <1>4 DEF StoreKind, IsOf
  <2> QED
    BY <2>1 DEF StoreDouble
<1>5. CASE T[1] = "string"
  <2>1. v \in Seq(Bytes) /\ StoreKind(S, T, v, c) = Digits(Len(v), 2) \o v
    BY <1>1, <1>5, Widths DEF StoreKind, IsOf, StoreString
  <2> QED
    BY <2>1, LenProperties, SizeTakes
<1>6. CASE T[1] = "vector"
  <2> DEFINE n == Len(v)
             d == StoreAll(S, Repeat(T[2], n), v, c)
  <2>1. /\ v \in Seq(Vals[T[2]]) /\ T[2] \in Types
        /\ StoreKind(S, T, v, c) = Digits(n, 2) \o d
    BY <1>1, <1>6, Widths DEF StoreKind, IsOf, Formed, StoreVector
  <2>2. n \in Nat /\ \A k \in 1..n : v[k] \in Vals[T[2]]
    BY <2>1, LenProperties, ElementOfSeq
  <2> HIDE DEF n
  <2>3. d \in Seq(Bytes)
    BY <2>1, <2>2, StoreRepeatBytes
  <2> HIDE DEF d
  <2> QED
    BY <2>1, <2>2, <2>3, SizeTakes
<1>7. CASE T[1] = "array"
  <2>1. /\ v \in Seq(Vals[T[2]]) /\ Len(v) = T[3] /\ T[2] \in Types /\ T[3] \in Nat
        /\ StoreKind(S, T, v, c) = StoreAll(S, Repeat(T[2], T[3]), v, c)
    BY <1>1, <1>7 DEF StoreKind, IsOf, Formed
  <2>2. T[3] > 0 /\ \A k \in 1..T[3] : v[k] \in K[T[2]][c][limit]
    BY <1>7, <2>1 DEF KeptKind
  <2> QED
    BY <2>1, <2>2, StoreRepeatTakes
<1>8. CASE T[1] = "optional"
  <2> DEFINE n == Len(v)
             d == StoreAll(S, Repeat(T[2], n), v, c)
  <2>1. /\ v \in Seq(Vals[T[2]]) /\ T[2] \in Types
        /\ StoreKind(S, T, v, c) = Digits(n, 1) \o d
    BY <1>1, <1>8 DEF StoreKind, IsOf, Formed, StoreOptional
  <2>2. n \in Nat /\ \A k \in 1..n : v[k] \in Vals[T[2]]
    BY <2>1, LenProperties, ElementOfSeq
  <2> HIDE DEF n
  <2>3. d \in Seq(Bytes)
    BY <2>1, <2>2, StoreRepeatBytes
  <2> HIDE DEF d
  <2> QED
    BY <2>1, <2>2, <2>3, SizeTakes
<1>9. CASE T[1] = "map"
  <2> DEFINE n == Cardinality(DOMAIN v)
             d == StoreAll(S, Repeat(T[2], n), Entries(v), c)
  <2>1. T[2] \in Types /\ n \in Nat /\ \A k \in 1..n : Entries(v)[k] \in Vals[T[2]]
    BY <1>9, EntriesOf
  <2>2. StoreKind(S, T, v, c) = Digits(n, 1) \o d
    BY <1>9, Widths DEF StoreKind, StoreMap
  <2> HIDE DEF n
  <2>3. d \in Seq(Bytes)
    BY <2>1, StoreRepeatBytes
  <2> HIDE DEF d
  <2> QED
    BY <2>1, <2>2, <2>3, SizeTakes
<1>10. CASE T[1] = "pair"
  <2>1. /\ v[1] \in K[T[2]][c][limit] /\ v[2] \in K[T[3]][c][limit] /\ T[2] \in Types /\ T[3] \in Types
        /\ StoreKind(S, T, v, c) = StoreAll(S, <<T[2], T[3]>>, v, c)
    BY <1>1, <1>10 DEF StoreKind, KeptKind, Formed
  <2> DEFINE Ts == <<T[2], T[3]>>
  <2>2. Ts \in Seq(Types) /\ Len(Ts) = 2 /\ Ts[1] = T[2] /\ Ts[2] = T[3]
    BY <2>1
  <2>3. StoreKind(S, T, v, c) = StoreAll(S, Ts, v, c)
    BY <2>1
  <2> HIDE DEF Ts
  <2>4. \A k \in 1..Len(Ts) : v[k] \in K[Ts[k]][c][limit]
    BY <2>1, <2>2
  <2>5. Len(Ts) > 0
    BY <2>2
  <2> QED
    BY <2>2, <2>3, <2>4, <2>5, StoreAllTakes
<1>11. CASE T[1] = "set"
  <2>1. /\ \A k \in 1..Len(T[2]) : v[k] \in K[T[2][k]][c][limit]
        /\ T[2] \in Seq(Types) /\ StoreKind(S, T, v, c) = StoreAll(S, T[2], v, c) /\ Len(T[2]) > 0
    BY <1>1, <1>11 DEF StoreKind, KeptKind, Formed
  <2> QED
    BY <2>1, StoreAllTakes
<1>12. CASE T[1] = "matrix"
  <2> DEFINE b == StoredIndex(T[2], v.rows)
             d == StoredIndex(T[3], v.cols)
             n == v.rows * v.cols
             e == StoreAll(S, Repeat(T[4], n), v.data, c)
  <2>1. /\ v.rows \in Nat /\ v.cols \in Nat /\ v.data \in Seq(Vals[T[4]])
        /\ Len(v.data) = n /\ T[4] \in Types
    BY <1>1, <1>12 DEF IsOf, Formed
  <2>2. StoreKind(S, T, v, c) = b \o (d \o e)
    BY <1>12 DEF StoreKind, StoreMatrix, StoredIndex
  <2>3. /\ T[2] = 0 \/ T[3] = 0 \/ v.data # << >>
        /\ \A k \in 1..Len(v.data) : v.data[k] \in K[T[4]][c][limit]
    BY <1>12 DEF KeptKind
  <2>4. b \in Seq(Bytes) /\ d \in Seq(Bytes)
    BY <2>1, DigitsBytes, EmptySeq DEF StoredIndex
  <2>5. (T[2] = 0 => Len(b) > 0) /\ (T[3] = 0 => Len(d) > 0)
    BY <2>1, DigitsTake, Widths DEF StoredIndex
  <2>6. n \in Nat /\ \A k \in 1..n : v.data[k] \in Vals[T[4]] /\ v.data[k] \in K[T[4]][c][limit]
    BY <2>1, <2>3, ElementOfSeq
  <2>7. v.data # << >> => n > 0
    BY <2>1, EmptySeq
  <2> HIDE DEF n
  <2>8. e \in Seq(Bytes)
    BY <2>1, <2>6, StoreRepeatBytes
  <2>9. n > 0 => Len(e) > 0
    BY <2>1, <2>6, StoreRepeatTakes
  <2> HIDE DEF b, d, e
  <2>10. d \o e \in Seq(Bytes) /\ (T[3] = 0 \/ v.data # << >> => Len(d \o e) > 0)
    BY <2>4, <2>5, <2>7, <2>8, <2>9, SomeBytes, ConcatProperties
  <2> QED
    BY <2>2, <2>3, <2>4, <2>5, <2>10, SomeBytes
<1> QED
  BY <1>1, <1>2, <1>3, <1>4, <1>5, <1>6, <1>7, <1>8, <1>9, <1>10, <1>11, <1>12 DEF Formed

\* The tables of one more level are right if those below are.
LEMMA NextTables ==
  ASSUME NEW S, NEW L, NEW K, Tables(S, L, K)
  PROVE  Tables(StoreTable(S), LoadTable(L), KeepTable(K))
<1> DEFINE S1 == StoreTable(S)
           L1 == LoadTable(L)
           K1 == KeepTable(K)
<1>1. StoreTyped(S) /\ LoadTyped(L) /\ KeepTyped(K) /\ TakesBytes(S, K)
  BY DEF Tables
<1>2. \A T \in Types, c \in BOOLEAN : \A v \in Vals[T] : S1[T][c][v] = StoreKind(S, T, v, c)
  BY DEF StoreTable
<1>3. \A T \in Types, a \in Archives, i \in Nat : L1[T][a][i] = LoadKind(L, T, a, i)
  BY DEF LoadTable
<1>4. \A T \in Types, c \in BOOLEAN, limit \in Nat :
        K1[T][c][limit] = {v \in Vals[T] : KeptKind(K, v, T, c, limit)}
  BY DEF KeepTable
<1> HIDE DEF S1, L1, K1
<1>5. StoreTyped(S1)
  BY <1>1, <1>2, StoreKindBytes DEF StoreTyped
<1>6. LoadTyped(L1)
  BY <1>1, <1>3, LoadKindResult DEF LoadTyped
<1>7. KeepTyped(K1)
  BY <1>4 DEF KeepTyped
<1>8. Correct(S1, L1, K1)
  <2> SUFFICES ASSUME NEW T \in Types, NEW c \in BOOLEAN, NEW limit \in Limits, NEW a \in Archives,
                      NEW i \in Nat, NEW v \in K1[T][c][limit],
                      a.compress = c, i <= Len(Readable(a)), Agree(S1[T][c][v], a, i)
               PROVE  Good(L1[T][a][i], a, i, v, S1[T][c][v], limit <= Byte)
    BY DEF Correct
  <2>1. limit \in Nat
    BY DEF Limits
  <2>2. v \in Vals[T] /\ KeptKind(K, v, T, c, limit)
    BY <1>4, <2>1
  <2>3. S1[T][c][v] = StoreKind(S, T, v, c) /\ L1[T][a][i] = LoadKind(L, T, a, i)
    BY <1>2, <1>3, <2>2
  <2>4. Agree(StoreKind(S, T, v, c), a, i)
    BY <2>3
  <2>5. Good(LoadKind(L, T, a, i), a, i, v, StoreKind(S, T, v, c), limit <= Byte)
    BY <2>2, <2>4, StoreKindGood
  <2> QED
    BY <2>3, <2>5
<1>9. TakesBytes(S1, K1)
  <2> SUFFICES ASSUME NEW T \in Types, NEW c \in BOOLEAN, NEW limit \in Nat, NEW v \in K1[T][c][limit]
               PROVE  Len(S1[T][c][v]) > 0
    BY DEF TakesBytes
  <2>1. v \in Vals[T] /\ KeptKind(K, v, T, c, limit)
    BY <1>4
  <2>2. Len(StoreKind(S, T, v, c)) > 0
    BY <1>1, <2>1, StoreKindTakes
  <2> QED
    BY <1>2, <2>1, <2>2
<1> QED
  BY <1>5, <1>6, <1>7, <1>8, <1>9 DEF Tables, S1, L1, K1

\* The tables are right for every depth: what is loaded from the bytes of a value that an archive
\* keeps is that value, and what follows is read from behind them.
THEOREM TablesEach == \A n \in Nat : Tables(Stores[n], Loads[n], Keeps[n])
<1> DEFINE U == {n \in Nat : Tables(Stores[n], Loads[n], Keeps[n])}
<1>1. Tables(StoreNone, LoadNone, KeepNone)
  <2>1. StoreTyped(StoreNone)
    BY EmptySeq DEF StoreTyped, StoreNone
  <2>2. LoadTyped(LoadNone)
    BY StopParts DEF LoadTyped, LoadNone, Result
  <2>3. \A T \in Types, c \in BOOLEAN, limit \in Nat : KeepNone[T][c][limit] = {}
    BY DEF KeepNone
  <2> QED
    BY <2>1, <2>2, <2>3 DEF Tables, KeepTyped, Correct, TakesBytes, Limits
<1>2. 0 \in U
  BY <1>1, StoresEach, LoadsEach, KeepsEach
<1>3. ASSUME NEW n \in Nat, n \in U PROVE n + 1 \in U
  <2>1. Tables(Stores[n], Loads[n], Keeps[n])
    BY <1>3
  <2>2. /\ Stores[n + 1] = StoreTable(Stores[n]) /\ Loads[n + 1] = LoadTable(Loads[n])
        /\ Keeps[n + 1] = KeepTable(Keeps[n])
    BY StoresEach, LoadsEach, KeepsEach
  <2>3. Tables(StoreTable(Stores[n]), LoadTable(Loads[n]), KeepTable(Keeps[n]))
    BY <2>1, NextTables
  <2> QED
    BY <2>2, <2>3
<1>4. Nat \subseteq U
  <2> HIDE DEF U
  <2> QED
    BY <1>2, <1>3, SetInduction
<1> QED
  BY <1>4

-----------------------------------------------------------------------------
(* Packets that end before a value *)

\* Nothing is left of a packet.
Ended(a, i) == a \in Archives /\ ~a.file /\ i \in Nat /\ i >= Len(a.data)
Noticed(B, L) == \A T \in B, a \in Archives, i \in Nat : Ended(a, i) => L[T][a][i].status = "error"

\* Bytes and numbers are tested for.
LEMMA BytesMissing ==
  ASSUME NEW a, NEW i, Ended(a, i), NEW n
  PROVE  LoadBytes(n, a, i).status = "error" /\ LoadNumber(n, a, i).status = "error"
<1>1. Len(a.data) \in Nat
  <2>1. a.data \in Seq(Bytes)
    BY DEF Ended, Archives
  <2> QED
    BY <2>1, LenProperties
<1>2. ~a.file /\ i \in Nat /\ i >= Len(a.data)
  BY DEF Ended
<1>3. ~Inside(a, i)
  BY <1>1, <1>2 DEF Inside
<1>4. LoadBytes(n, a, i) = Stop(i, "error")
  BY <1>2, <1>3 DEF LoadBytes
<1>5. LoadBytes(n, a, i).status = "error"
  BY <1>4, StopParts
<1> QED
  BY <1>5 DEF LoadNumber

\* The first of several values that is not loaded ends the loading.
LEMMA FirstMissing ==
  ASSUME NEW L, NEW Ts, Len(Ts) \in Nat, Len(Ts) > 0, NEW a, NEW i, NEW read,
         L[Ts[1]][a][i].status = "error"
  PROVE  LoadAll(L, Ts, a, i, read).status = "error"
<1> DEFINE A == LoadsAll(L, Ts, a, i, read)
           e == L[Ts[1]][a][i]
           n == Len(Ts)
           U == {k \in Nat : A[k + 1].status = "error"}
<1>1. A[0] = Ok(read, i) /\ \A k \in Nat : A[k + 1] = LoadNext(L, Ts[k + 1], a, A[k])
  BY LoadsAllEach
<1>2. LoadAll(L, Ts, a, i, read) = A[n]
  BY DEF LoadAll
<1>3. n \in Nat /\ n > 0 /\ e.status = "error"
  OBVIOUS
<1> HIDE DEF A, n
<1>4. A[0].status = "ok" /\ A[0].idx = i
  BY <1>1, OkParts
<1>5. A[1] = e
  <2>1. A[0 + 1] = LoadNext(L, Ts[0 + 1], a, A[0])
    BY <1>1
  <2>2. A[1] = LoadNext(L, Ts[1], a, A[0])
    BY <2>1
  <2> QED
    BY <1>3, <1>4, <2>2 DEF LoadNext
<1> HIDE DEF e
<1>6. 0 \in U
  BY <1>3, <1>5
<1>7. ASSUME NEW k \in Nat, k \in U PROVE k + 1 \in U
  <2>1. A[k + 1].status = "error" /\ k + 1 \in Nat
    BY <1>7
  <2>2. A[(k + 1) + 1] = LoadNext(L, Ts[(k + 1) + 1], a, A[k + 1])
    BY <1>1, <2>1
  <2>3. A[(k + 1) + 1] = A[k + 1]
    BY <2>1, <2>2 DEF LoadNext
  <2> QED
    BY <2>1, <2>3
<1>8. Nat \subseteq U
  <2> HIDE DEF U
  <2> QED
    BY <1>6, <1>7, SetInduction
<1>9. n - 1 \in U
  BY <1>3, <1>8
<1>10. (n - 1) + 1 = n
  BY <1>3
<1> QED
  BY <1>2, <1>9, <1>10

\* A type of one more level is tested for if its first part is.
LEMMA NextNoticed ==
  ASSUME NEW L, NEW B, Noticed(B, L)
  PROVE  Noticed(BeginTable(B), LoadTable(L))
<1> SUFFICES ASSUME NEW T \in BeginTable(B), NEW a \in Archives, NEW i \in Nat, Ended(a, i)
             PROVE  LoadTable(L)[T][a][i].status = "error"
  BY DEF Noticed
<1>1. T \in Types /\ Formed(T)
  BY CodecAssumption DEF BeginTable
<1>2. LoadTable(L)[T][a][i] = LoadKind(L, T, a, i)
  BY <1>1 DEF LoadTable
<1> SUFFICES LoadKind(L, T, a, i).status = "error"
  BY <1>2
<1>3. CASE T[1] = "pod"
  BY <1>3, BytesMissing DEF LoadKind
<1>4. CASE T[1] = "enum"
  BY <1>4, BytesMissing DEF LoadKind
<1>5. CASE T[1] = "double"
  <2>1. LoadBytes(DoubleBytes(a), a, i).status = "error"
    BY BytesMissing
  <2> QED
    BY <1>5, <2>1 DEF LoadKind, LoadDouble, Decompressed
<1>6. CASE T[1] = "string"
  <2>1. LoadNumber(SizeBytes, a, i).status = "error"
    BY BytesMissing
  <2> QED
    BY <1>6, <2>1 DEF LoadKind, LoadString
<1>7. CASE T[1] = "vector"
  <2>1. LoadNumber(SizeBytes, a, i).status = "error"
    BY BytesMissing
  <2> QED
    BY <1>7, <2>1 DEF LoadKind, LoadVector
<1>8. CASE T[1] = "optional"
  <2>1. LoadNumber(1, a, i).status = "error"
    BY BytesMissing
  <2> QED
    BY <1>8, <2>1 DEF LoadKind, LoadOptional
<1>9. CASE T[1] = "map"
  <2>1. LoadNumber(CountBytes, a, i).status = "error"
    BY BytesMissing
  <2> QED
    BY <1>9, <2>1 DEF LoadKind, LoadMap
<1>10. CASE T[1] = "matrix"
  <2>1. LoadKind(L, T, a, i) = LoadMatrix(L, T, a, i)
    BY <1>10 DEF LoadKind
  <2>2. T[2] = 0 \/ T[3] = 0
    BY <1>10 DEF BeginTable
  <2>3. LoadNumber(IndexBytes, a, i).status = "error"
    BY BytesMissing
  <2>4. CASE T[2] = 0
    <3>1. LoadIndex(T[2], a, i).status = "error"
      BY <2>3, <2>4 DEF LoadIndex
    <3> QED
      BY <2>1, <3>1 DEF LoadMatrix
  <2>5. CASE T[2] # 0
    <3>1. LoadIndex(T[2], a, i) = Ok(T[2], i)
      BY <2>5 DEF LoadIndex
    <3>2. LoadIndex(T[2], a, i).status = "ok" /\ LoadIndex(T[2], a, i).idx = i
      BY <3>1, OkParts
    <3>3. LoadIndex(T[3], a, i).status = "error"
      BY <2>2, <2>3, <2>5 DEF LoadIndex
    <3> QED
      BY <2>1, <3>2, <3>3 DEF LoadMatrix
  <2> QED
    BY <2>4, <2>5
<1>11. CASE T[1] = "array"
  <2> DEFINE Ts == Repeat(T[2], T[3])
  <2>1. LoadKind(L, T, a, i) = LoadAll(L, Ts, a, i, << >>)
    BY <1>11 DEF LoadKind
  <2>2. T[2] \in B /\ T[2] \in Types /\ T[3] \in Nat /\ T[3] > 0
    BY <1>1, <1>11 DEF BeginTable, Formed
  <2>3. L[T[2]][a][i].status = "error"
    BY <2>2 DEF Noticed
  <2>4. Len(Ts) = T[3] /\ Ts[1] = T[2]
    BY <2>2, RepeatSeq DEF Repeat
  <2> HIDE DEF Ts
  <2> QED
    BY <2>1, <2>2, <2>3, <2>4, FirstMissing
<1>12. CASE T[1] = "pair"
  <2> DEFINE Ts == <<T[2], T[3]>>
  <2>1. LoadKind(L, T, a, i) = LoadAll(L, Ts, a, i, << >>)
    BY <1>12 DEF LoadKind
  <2>2. L[T[2]][a][i].status = "error"
    BY <1>12 DEF BeginTable, Noticed
  <2>3. Len(Ts) \in Nat /\ Len(Ts) > 0 /\ Ts[1] = T[2]
    OBVIOUS
  <2> HIDE DEF Ts
  <2> QED
    BY <2>1, <2>2, <2>3, FirstMissing
<1>13. CASE T[1] = "set"
  <2>1. LoadKind(L, T, a, i) = LoadAll(L, T[2], a, i, << >>)
    BY <1>13 DEF LoadKind
  <2>2. T[2] \in Seq(Types) /\ T[2] # << >> /\ L[T[2][1]][a][i].status = "error"
    BY <1>1, <1>13 DEF BeginTable, Noticed, Formed
  <2>3. Len(T[2]) \in Nat /\ Len(T[2]) > 0
    BY <2>2, LenProperties, EmptySeq
  <2> QED
    BY <2>1, <2>2, <2>3, FirstMissing
<1> QED
  BY <1>3, <1>4, <1>5, <1>6, <1>7, <1>8, <1>9, <1>10, <1>11, <1>12, <1>13 DEF BeginTable

\* So the end of a packet is noticed at every depth.
LEMMA EndNoticed == Noticed(Begins[Depth], Loads[Depth])
<1> DEFINE U == {n \in Nat : Noticed(Begins[n], Loads[n])}
<1>1. 0 \in U
  BY BeginsEach DEF Noticed
<1>2. ASSUME NEW n \in Nat, n \in U PROVE n + 1 \in U
  <2>1. Noticed(Begins[n], Loads[n])
    BY <1>2
  <2>2. Begins[n + 1] = BeginTable(Begins[n]) /\ Loads[n + 1] = LoadTable(Loads[n])
    BY BeginsEach, LoadsEach
  <2> QED
    BY <2>1, <2>2, NextNoticed
<1>3. Nat \subseteq U
  <2> HIDE DEF U
  <2> QED
    BY <1>1, <1>2, SetInduction
<1> QED
  BY <1>3, CodecAssumption

-----------------------------------------------------------------------------
(* Items one behind another *)

\* The types and the values of items.
LEMMA ItemFacts == ASSUME NEW x \in Items PROVE x.type \in Types /\ x.val \in Vals[x.type]
<1>1. PICK T \in Types : x \in [type : {T}, val : Vals[T]]
  BY DEF Items
<1> QED
  BY <1>1

\* What is stored, loaded and kept at the bound of the nesting.
LEMMA DepthTables == Tables(Stores[Depth], Loads[Depth], Keeps[Depth])
BY TablesEach, CodecAssumption

\* Values are stored as bytes.
LEMMA StoreBytes ==
  ASSUME NEW T \in Types, NEW v \in Vals[T], NEW c \in BOOLEAN
  PROVE  Store(T, v, c) \in Seq(Bytes)
BY DepthTables DEF Tables, StoreTyped, Store

\* Loading has one of three outcomes, at some position.
LEMMA LoadOutcome ==
  ASSUME NEW T \in Types, NEW a \in Archives, NEW i \in Nat
  PROVE  Result(Load(T, a, i))
BY DepthTables DEF Tables, LoadTyped, Load

\* Values that are kept are loaded where they were stored.
LEMMA KeptGood ==
  ASSUME NEW T \in Types, NEW c \in BOOLEAN, NEW limit \in Limits, NEW v \in Keeps[Depth][T][c][limit],
         NEW a \in Archives, a.compress = c, NEW i \in Nat, i <= Len(Readable(a)),
         Agree(Store(T, v, c), a, i)
  PROVE  Good(Load(T, a, i), a, i, v, Store(T, v, c), limit <= Byte)
BY DepthTables DEF Tables, Correct, Store, Load

\* They take at least one byte.
LEMMA KeptTakes ==
  ASSUME NEW T \in Types, NEW c \in BOOLEAN, NEW limit \in Nat, NEW v \in Keeps[Depth][T][c][limit]
  PROVE  Len(Store(T, v, c)) > 0
BY DepthTables DEF Tables, TakesBytes, Store

\* The bytes of the items of o: of each, and of the first k.
Each(o, c, k) == Store(o[k].type, o[k].val, c)
Pre(o, c, k) == Joins([j \in 1..Len(o) |-> Each(o, c, j)])[k]

\* An item is stored as bytes.
LEMMA EachBytes ==
  ASSUME NEW o \in Seq(Items), NEW c \in BOOLEAN, NEW k \in 1..Len(o)
  PROVE  Each(o, c, k) \in Seq(Bytes)
<1>1. o[k] \in Items
  BY ElementOfSeq
<1> QED
  BY <1>1, ItemFacts, StoreBytes DEF Each

\* Items one behind another are stored as bytes, each behind those before it.
LEMMA PreBytes ==
  ASSUME NEW o \in Seq(Items), NEW c \in BOOLEAN
  PROVE  /\ Pre(o, c, 0) = << >>
         /\ \A k \in 0..Len(o) : Pre(o, c, k) \in Seq(Bytes)
         /\ \A k \in Nat : k < Len(o) => Pre(o, c, k + 1) = Pre(o, c, k) \o Each(o, c, k + 1)
<1> DEFINE n == Len(o)
           parts == [j \in 1..n |-> Each(o, c, j)]
<1>1. n \in Nat
  BY LenProperties
<1>2. \A k \in 1..n : parts[k] = Each(o, c, k) /\ parts[k] \in Seq(Bytes)
  BY EachBytes
<1>3. \A k : Pre(o, c, k) = Joins(parts)[k]
  BY DEF Pre
<1> HIDE DEF n, parts
<1>4. \A k \in 0..n : Joins(parts)[k] \in Seq(Bytes)
  BY <1>1, <1>2, JoinsBytes
<1>5. \A k \in Nat : k < n => Joins(parts)[k + 1] = Joins(parts)[k] \o Each(o, c, k + 1)
  <2> SUFFICES ASSUME NEW k \in Nat, k < n
               PROVE  Joins(parts)[k + 1] = Joins(parts)[k] \o Each(o, c, k + 1)
    OBVIOUS
  <2>1. k + 1 \in 1..n
    BY <1>1
  <2> QED
    BY <1>2, <2>1, JoinsEach
<1> QED
  BY <1>3, <1>4, <1>5, JoinsEach DEF n

\* Bytes behind others leave those where they are.
LEMMA Behind ==
  ASSUME NEW b \in Seq(Bytes), NEW d \in Seq(Bytes)
  PROVE  /\ Len(b \o d) = Len(b) + Len(d) /\ Len(b) <= Len(b \o d)
         /\ \A j \in 1..Len(b) : (b \o d)[j] = b[j]
         /\ \A j \in 1..Len(d) : (b \o d)[Len(b) + j] = d[j]
<1> DEFINE n == Len(b)
           m == Len(d)
           e == b \o d
<1>1. /\ n \in Nat /\ m \in Nat /\ Len(e) = n + m
      /\ \A k \in 1..(n + m) : e[k] = IF k <= n THEN b[k] ELSE d[k - n]
  BY LenProperties, ConcatProperties
<1> HIDE DEF n, m, e
<1>2. \A j \in 1..n : e[j] = b[j]
  <2> TAKE j \in 1..n
  <2>1. j \in 1..(n + m) /\ j <= n
    BY <1>1
  <2> QED
    BY <1>1, <2>1
<1>3. \A j \in 1..m : e[n + j] = d[j]
  <2> TAKE j \in 1..m
  <2>1. n + j \in 1..(n + m) /\ ~(n + j <= n) /\ (n + j) - n = j
    BY <1>1
  <2> QED
    BY <1>1, <2>1
<1> QED
  BY <1>1, <1>2, <1>3 DEF n, m, e

\* The first items are in front of the others.
LEMMA PreFront ==
  ASSUME NEW o \in Seq(Items), NEW c \in BOOLEAN, NEW n \in 0..Len(o), NEW k \in 0..n
  PROVE  LET b == Pre(o, c, k)
             all == Pre(o, c, n)
         IN  Len(b) <= Len(all) /\ \A j \in 1..Len(b) : all[j] = b[j]
<1> DEFINE P(m) == Pre(o, c, m)
           b == P(k)
           Starts(m) == Len(b) <= Len(P(m)) /\ \A j \in 1..Len(b) : P(m)[j] = b[j]
           U == {m \in Nat : k + m <= n => Starts(k + m)}
<1>1. /\ n \in Nat /\ k \in Nat /\ k <= n
      /\ \A m \in 0..n : P(m) \in Seq(Bytes)
      /\ \A m \in Nat : m < n => P(m + 1) = P(m) \o Each(o, c, m + 1)
  BY PreBytes, LenProperties
<1>2. b \in Seq(Bytes) /\ Len(b) \in Nat
  BY <1>1, LenProperties
<1>3. \A m \in 1..n : Each(o, c, m) \in Seq(Bytes)
  BY EachBytes
<1>4. Starts(k)
  BY <1>2
<1> HIDE DEF P, b
<1>5. 0 \in U
  BY <1>1, <1>4
<1>6. ASSUME NEW m \in Nat, m \in U PROVE m + 1 \in U
  <2> SUFFICES ASSUME k + (m + 1) <= n PROVE Starts(k + (m + 1))
    OBVIOUS
  <2> DEFINE i == k + m
             e == Each(o, c, i + 1)
  <2>1. i \in Nat /\ i + 1 = k + (m + 1) /\ i < n /\ i \in 0..n /\ i + 1 \in 1..n
    BY <1>1
  <2>2. Starts(i)
    BY <1>6, <2>1
  <2> HIDE DEF i
  <2>3. P(i) \in Seq(Bytes) /\ e \in Seq(Bytes) /\ P(i + 1) = P(i) \o e
    BY <1>1, <1>3, <2>1
  <2> HIDE DEF e
  <2>4. /\ Len(P(i)) \in Nat /\ Len(P(i + 1)) \in Nat /\ Len(P(i)) <= Len(P(i + 1))
        /\ \A j \in 1..Len(P(i)) : P(i + 1)[j] = P(i)[j]
    <3>1. P(i) \o e \in Seq(Bytes)
      BY <2>3, ConcatProperties
    <3> QED
      BY <2>3, <3>1, Behind, LenProperties
  <2>5. Len(b) <= Len(P(i + 1))
    BY <1>2, <2>2, <2>4
  <2>6. ASSUME NEW j \in 1..Len(b) PROVE P(i + 1)[j] = b[j]
    <3>1. j \in 1..Len(P(i))
      BY <1>2, <2>2, <2>4
    <3> QED
      BY <2>2, <2>4, <3>1
  <2>7. Starts(i + 1)
    BY <2>5, <2>6
  <2> QED
    BY <2>1, <2>7
<1>7. Nat \subseteq U
  <2> HIDE DEF U
  <2> QED
    BY <1>5, <1>6, SetInduction
<1>8. Starts(n)
  <2> DEFINE m == n - k
  <2>1. m \in Nat /\ k + m = n
    BY <1>1
  <2> HIDE DEF m
  <2>2. m \in U
    BY <1>7, <2>1
  <2>3. k + m <= n
    BY <1>1, <2>1
  <2>4. Starts(k + m)
    BY <2>2, <2>3
  <2> QED
    BY <2>1, <2>4
<1> QED
  BY <1>8 DEF P, b

\* Where an item is in all of the bytes.
LEMMA EachPlace ==
  ASSUME NEW o \in Seq(Items), NEW c \in BOOLEAN, NEW k \in Nat, k < Len(o)
  PROVE  LET b == Pre(o, c, k)
             e == Each(o, c, k + 1)
             all == Pre(o, c, Len(o))
         IN  /\ Len(b) \in Nat /\ Len(e) \in Nat /\ Len(all) \in Nat
             /\ Len(Pre(o, c, k + 1)) = Len(b) + Len(e) /\ Len(b) + Len(e) <= Len(all)
             /\ \A j \in 1..Len(e) : all[Len(b) + j] = e[j]
<1> DEFINE b == Pre(o, c, k)
           e == Each(o, c, k + 1)
           p == Pre(o, c, k + 1)
           all == Pre(o, c, Len(o))
<1>1. Len(o) \in Nat /\ k \in 0..Len(o) /\ k + 1 \in 0..Len(o) /\ k + 1 \in 1..Len(o) /\ Len(o) \in 0..Len(o)
  BY LenProperties
<1>2. b \in Seq(Bytes) /\ e \in Seq(Bytes) /\ all \in Seq(Bytes) /\ p = b \o e
  BY <1>1, PreBytes, EachBytes
<1>3. Len(p) <= Len(all) /\ \A j \in 1..Len(p) : all[j] = p[j]
  BY <1>1, PreFront
<1> HIDE DEF b, e, p, all
<1>4. Len(b) \in Nat /\ Len(e) \in Nat /\ Len(all) \in Nat
  BY <1>2, LenProperties
<1>5. Len(p) = Len(b) + Len(e) /\ \A j \in 1..Len(e) : p[Len(b) + j] = e[j]
  BY <1>2, Behind
<1>6. ASSUME NEW j \in 1..Len(e) PROVE all[Len(b) + j] = e[j]
  <2>1. Len(b) + j \in 1..Len(p)
    BY <1>4, <1>5
  <2> QED
    BY <1>3, <1>5, <2>1
<1> QED
  BY <1>3, <1>4, <1>5, <1>6 DEF b, e, p, all

-----------------------------------------------------------------------------
(* Invariants of the machine *)

\* The items that the bytes so far stand for: from the one behind Lo to Hi.
Lo == IF written <= Count THEN Headers ELSE Headers - (written - Count)
Hi == IF written <= Count THEN Headers + written ELSE Headers + Count
Bits(k) == Pre(Order, case.compress, k)
All == Bits(Len(Order))

IsSequence(s) == Len(s) \in Nat /\ s = [j \in 1..Len(s) |-> s[j]]
Typed ==
  /\ case \in Cases /\ buffer \in Seq(Bytes) /\ written \in Nat /\ cut \in Nat /\ pos \in Nat
  /\ IsSequence(got) /\ Len(got) <= Len(Order)
  /\ status \in {"ok", "defaulted", "thrown", "undefined"} /\ phase \in {"store", "load", "done"}
Phases ==
  /\ phase = "store" => written <= Count + Headers /\ cut = 0 /\ pos = 0 /\ got = << >> /\ status = "ok"
  /\ phase = "done" => Len(got) = Len(Order) \/ status # "ok"
StoredSoFar == phase = "store" => Bits(Lo) \o buffer = Bits(Hi)

Values == [i \in 1..Len(Order) |-> Order[i].val]
Passed == Len(Bits(Len(got))) - pos
\* What has come of the first n items, which have arrived as a whole.
ReturnedTo(n) ==
  /\ \A i \in 1..Len(got) : i <= n => got[i] = Order[i].val
  /\ status # "ok" => n <= Len(got) /\ Len(got) < Len(Order)
  /\ Len(got) <= n /\ status = "ok" =>
       /\ pos <= Len(Bits(Len(got))) /\ (Len(buffer) + Passed) + cut = Len(All)
       /\ \A i \in 1..Len(buffer) : buffer[i] = All[Passed + i]
       /\ Len(got) <= Headers \/ case.mode = "extract" => pos = 0
  /\ Len(Bits(n)) + cut = Len(All) /\ NextBegins(n) =>
       Len(got) <= n /\ (status # "ok" => status \in {"defaulted", "thrown"})
Returned ==
  phase # "store" /\ AllKept => \A n \in 0..Len(Order) : Len(Bits(n)) + cut <= Len(All) => ReturnedTo(n)

IInv == Typed /\ Phases /\ StoredSoFar /\ Returned

\* A case is as it is assumed.
LEMMA CaseFacts ==
  ASSUME case \in Cases
  PROVE  /\ case.values \in Seq(Items) /\ case.values # << >> /\ case.headers \in Seq(Items)
         /\ case.mode \in {"extract", "tuple", "file"} /\ case.compress \in BOOLEAN
         /\ case.mode = "file" => Headers = 0
         /\ Count \in Nat /\ Count > 0 /\ Headers \in Nat
<1>1. /\ case.values \in Seq(Items) /\ case.values # << >> /\ case.headers \in Seq(Items)
      /\ case.mode \in {"extract", "tuple", "file"} /\ case.compress \in BOOLEAN
      /\ case.mode = "file" => case.headers = << >>
  BY CodecAssumption
<1>2. Len(case.values) \in Nat /\ Len(case.values) > 0 /\ Len(case.headers) \in Nat
  BY <1>1, LenProperties, EmptySeq
<1>3. case.headers = << >> => Len(case.headers) = 0
  BY EmptySeq
<1> QED
  BY <1>1, <1>2, <1>3 DEF Count, Headers

\* The headers are in front of the values, the last one first.
LEMMA OrderFacts ==
  ASSUME case \in Cases
  PROVE  /\ Order \in Seq(Items) /\ Len(Order) = Headers + Count
         /\ \A i \in 1..Headers : Order[i] = case.headers[(Headers - i) + 1]
         /\ \A i \in 1..Count : Order[Headers + i] = case.values[i]
<1> DEFINE h == case.headers
           v == case.values
           n == Len(h)
           m == Len(v)
           s == Reverse(h)
           o == s \o v
<1>1. v \in Seq(Items) /\ h \in Seq(Items) /\ n \in Nat /\ m \in Nat
  BY CaseFacts, LenProperties
<1>2. Headers = n /\ Count = m /\ Order = o
  BY DEF Headers, Count, Order
<1>3. s = [i \in 1..n |-> h[(n - i) + 1]]
  BY DEF Reverse
<1> HIDE DEF h, v, n, m, s, o
<1>4. s \in Seq(Items) /\ Len(s) = n /\ \A i \in 1..n : s[i] = h[(n - i) + 1]
  <2>1. ASSUME NEW i \in 1..n PROVE h[(n - i) + 1] \in Items
    <3>1. (n - i) + 1 \in 1..n
      BY <1>1
    <3> QED
      BY <1>1, <3>1, ElementOfSeq DEF n
  <2>2. s \in [1..n -> Items]
    BY <1>3, <2>1
  <2> QED
    BY <1>1, <1>3, <2>2, FunctionIsSeq
<1>5. /\ o \in Seq(Items) /\ Len(o) = n + m
      /\ \A i \in 1..(n + m) : o[i] = IF i <= n THEN s[i] ELSE v[i - n]
  BY <1>1, <1>4, ConcatProperties DEF o, m
<1>6. ASSUME NEW i \in 1..n PROVE o[i] = h[(n - i) + 1]
  <2>1. i \in 1..(n + m) /\ i <= n
    BY <1>1
  <2> QED
    BY <1>4, <1>5, <2>1
<1>7. ASSUME NEW i \in 1..m PROVE o[n + i] = v[i]
  <2>1. n + i \in 1..(n + m) /\ ~(n + i <= n) /\ (n + i) - n = i
    BY <1>1
  <2> QED
    BY <1>5, <2>1
<1> QED
  BY <1>2, <1>5, <1>6, <1>7 DEF h, v

\* The initial states.
LEMMA StartTyped == Init => Typed /\ Phases
<1> SUFFICES ASSUME Init PROVE Typed /\ Phases
  OBVIOUS
<1>1. case \in Cases
  BY DEF Init
<1>2. << >> \in Seq(Bytes) /\ Len(<< >>) = 0
  BY EmptySeq
<1>3. Len(Order) \in Nat /\ Count \in Nat /\ Headers \in Nat
  BY <1>1, CaseFacts, OrderFacts, LenProperties
<1>4. IsSequence(<< >>)
  BY <1>2 DEF IsSequence
<1> QED
  BY <1>1, <1>2, <1>3, <1>4 DEF Init, Typed, Phases

\* What is appended to a sequence is its last element.
LEMMA AppendAny ==
  ASSUME NEW s, IsSequence(s), NEW e
  PROVE  /\ IsSequence(Append(s, e)) /\ Len(s) \in Nat /\ Len(Append(s, e)) = Len(s) + 1
         /\ \A j \in 1..Len(s) : Append(s, e)[j] = s[j]
         /\ Append(s, e)[Len(s) + 1] = e
<1> DEFINE n == Len(s)
           t == Append(s, e)
           S == {s[j] : j \in 1..n} \cup {e}
<1>1. n \in Nat /\ s = [j \in 1..n |-> s[j]]
  BY DEF IsSequence
<1>2. s \in [1..n -> S] /\ e \in S
  BY <1>1
<1> HIDE DEF S
<1>3. s \in Seq(S)
  BY <1>1, <1>2, FunctionIsSeq
<1>4. t \in Seq(S) /\ Len(t) = n + 1 /\ (\A j \in 1..n : t[j] = s[j]) /\ t[n + 1] = e
  BY <1>2, <1>3, AppendProperties
<1> HIDE DEF t
<1>5. t \in [1..Len(t) -> S] /\ Len(t) \in Nat
  BY <1>4, LenProperties
<1>6. IsSequence(t)
  BY <1>5 DEF IsSequence
<1> QED
  BY <1>1, <1>4, <1>6 DEF t

\* How a value is read.
ReadsHeader == Len(got) < Headers
Catches == case.mode = "extract" /\ ~ReadsHeader
Read ==
  IF Catches /\ buffer = << >> THEN Stop(0, "error") ELSE Load(Order[Len(got) + 1].type, Archive, pos)
Takes == Read.status = "ok" /\ (ReadsHeader \/ case.mode = "extract")

\* LoadValue in terms of what is read.
LEMMA LoadParts ==
  ASSUME LoadValue
  PROVE  /\ phase = "load" /\ Len(got) < Len(Order) /\ status = "ok"
         /\ got' = IF Read.status = "ok" THEN Append(got, Read.val) ELSE got
         /\ buffer' = IF Takes THEN Consume(Read.idx) ELSE buffer
         /\ pos' = IF Takes THEN 0 ELSE Read.idx
         /\ status' = CASE Read.status # "error" -> Read.status
                        [] Read.status = "error" /\ Catches -> "defaulted"
                        [] Read.status = "error" /\ ~Catches -> "thrown"
         /\ UNCHANGED <<case, written, cut, phase>>
BY Zenon DEF LoadValue, ReadsHeader, Catches, Read, Takes

\* The archive that is read.
LEMMA ArchiveFacts ==
  ASSUME Typed
  PROVE  /\ Archive \in Archives /\ Archive.data = buffer /\ Archive.compress = case.compress
         /\ Archive.file = (case.mode = "file")
         /\ Len(buffer) \in Nat /\ Len(buffer) <= Len(Readable(Archive))
         /\ case.mode = "file" => Len(Readable(Archive)) = Len(buffer)
         /\ case.mode # "file" => Len(Readable(Archive)) = Len(buffer) + 1
<1>1. case.compress \in BOOLEAN /\ buffer \in Seq(Bytes)
  BY CaseFacts DEF Typed
<1>2. Archive \in Archives
  BY <1>1 DEF Archive, Archives
<1>3. Archive.data = buffer /\ Archive.file = (case.mode = "file") /\ Archive.compress = case.compress
  BY DEF Archive
<1>4. Len(Append(buffer, 0)) = Len(buffer) + 1 /\ Len(buffer) \in Nat
  BY <1>1, ByteFacts, AppendProperties, LenProperties
<1>5. Readable(Archive) = IF case.mode = "file" THEN buffer ELSE Append(buffer, 0)
  BY DEF Readable, Archive
<1>6. Archive.file = (case.mode = "file")
  BY DEF Archive
<1> HIDE DEF Archive, Archives
<1> QED
  BY <1>2, <1>3, <1>4, <1>5, <1>6

\* A value is read with one of three outcomes.
LEMMA ReadFacts ==
  ASSUME Typed, Len(got) < Len(Order)
  PROVE  Read.idx \in Nat /\ Read.status \in {"ok", "error", "undefined"}
<1>1. Order \in Seq(Items) /\ Len(Order) \in Nat /\ Len(got) \in Nat
  BY OrderFacts, LenProperties DEF Typed, IsSequence
<1>2. Len(got) + 1 \in 1..Len(Order)
  BY <1>1
<1>3. Order[Len(got) + 1] \in Items
  BY <1>1, <1>2, ElementOfSeq
<1>4. Order[Len(got) + 1].type \in Types
  BY <1>3, ItemFacts
<1>5. Archive \in Archives /\ pos \in Nat
  BY ArchiveFacts DEF Typed
<1>6. Result(Load(Order[Len(got) + 1].type, Archive, pos))
  BY <1>4, <1>5, LoadOutcome
<1> QED
  BY <1>6, StopParts DEF Result, Read

\* Consumed bytes are gone, unless there are too few.
LEMMA ConsumeFacts ==
  ASSUME buffer \in Seq(Bytes), NEW n \in Nat
  PROVE  /\ Consume(n) \in Seq(Bytes)
         /\ n <= Len(buffer) => /\ Len(Consume(n)) = Len(buffer) - n
                                /\ \A j \in 1..(Len(buffer) - n) : Consume(n)[j] = buffer[n + j]
<1> DEFINE m == Len(buffer)
           s == SubSeq(buffer, n + 1, m)
<1>1. m \in Nat
  BY LenProperties
<1>2. ASSUME n <= m
      PROVE  s \in Seq(Bytes) /\ Len(s) = m - n /\ \A j \in 1..(m - n) : s[j] = buffer[n + j]
  <2>1. \A j \in (n + 1)..m : buffer[j] \in Bytes
    <3> TAKE j \in (n + 1)..m
    <3>1. j \in 1..m
      BY <1>1
    <3> QED
      BY <3>1, ElementOfSeq
  <2>2. n + 1 \in Int /\ m \in Int
    BY <1>1
  <2>3. /\ s \in Seq(Bytes) /\ Len(s) = IF n + 1 <= m THEN m - (n + 1) + 1 ELSE 0
        /\ \A j \in 1..(m - (n + 1) + 1) : s[j] = buffer[(n + 1) + j - 1]
    <3> HIDE DEF m
    <3> QED
      BY <2>1, <2>2, SubSeqProperties
  <2> HIDE DEF m, s
  <2>4. m - (n + 1) + 1 = m - n
    BY <1>1
  <2>5. Len(s) = m - n
    BY <1>1, <1>2, <2>3, <2>4
  <2>6. ASSUME NEW j \in 1..(m - n) PROVE s[j] = buffer[n + j]
    <3>1. j \in 1..(m - (n + 1) + 1)
      BY <2>4
    <3>2. (n + 1) + j - 1 = n + j
      BY <1>1
    <3> QED
      BY <2>3, <3>1, <3>2
  <2> QED
    BY <2>3, <2>5, <2>6
<1> QED
  BY <1>1, <1>2 DEF Consume

\* A step with the same case has the same items.
LEMMA SameOrder ==
  ASSUME UNCHANGED case
  PROVE  Order' = Order /\ Count' = Count /\ Headers' = Headers
BY DEF Order, Count, Headers

\* The value that is stored by a step.
LEMMA ValueBytes ==
  ASSUME Typed, NEW i \in 1..Count
  PROVE  /\ StoreItem(case.values[i]) \in Seq(Bytes)
         /\ StoreItem(case.values[i]) = Each(Order, case.compress, Headers + i)
         /\ Headers + i \in 1..Len(Order)
<1>1. /\ case.values \in Seq(Items) /\ case.compress \in BOOLEAN /\ Count = Len(case.values)
      /\ Headers \in Nat /\ Count \in Nat
  BY CaseFacts DEF Typed, Count
<1>2. Order[Headers + i] = case.values[i] /\ Len(Order) = Headers + Count
  BY OrderFacts DEF Typed
<1>3. case.values[i] \in Items
  BY <1>1, ElementOfSeq
<1>4. Headers + i \in 1..Len(Order)
  BY <1>1, <1>2
<1> QED
  BY <1>1, <1>2, <1>3, <1>4, ItemFacts, StoreBytes DEF StoreItem, Each

\* The header that is stored by a step.
LEMMA HeaderBytes ==
  ASSUME Typed, NEW i \in 1..Headers
  PROVE  /\ StoreItem(case.headers[(Headers - i) + 1]) \in Seq(Bytes)
         /\ StoreItem(case.headers[(Headers - i) + 1]) = Each(Order, case.compress, i)
         /\ i \in 1..Len(Order)
<1>1. /\ case.headers \in Seq(Items) /\ case.compress \in BOOLEAN /\ Headers = Len(case.headers)
      /\ Headers \in Nat /\ Count \in Nat
  BY CaseFacts DEF Typed, Headers
<1>2. Order[i] = case.headers[(Headers - i) + 1] /\ Len(Order) = Headers + Count
  BY OrderFacts DEF Typed
<1>3. (Headers - i) + 1 \in 1..Headers
  BY <1>1
<1>4. case.headers[(Headers - i) + 1] \in Items
  BY <1>1, <1>3, ElementOfSeq
<1>5. i \in 1..Len(Order)
  BY <1>1, <1>2
<1> QED
  BY <1>1, <1>2, <1>4, <1>5, ItemFacts, StoreBytes DEF StoreItem, Each

\* The header that is next.
LEMMA NextHeader ==
  ASSUME Typed, phase = "store", written >= Count, written < Count + Headers
  PROVE  /\ Lo \in 1..Headers /\ (Headers - Lo) + 1 = written + 1 - Count
         /\ Headers \in Nat /\ Count \in Nat /\ written \in Nat
<1>1. Headers \in Nat /\ Count \in Nat /\ written \in Nat
  BY CaseFacts DEF Typed
<1> QED
  BY <1>1 DEF Lo

\* Types and phases are kept.
LEMMA StepTyped ==
  ASSUME Typed, Phases, [Next]_vars
  PROVE  Typed' /\ Phases'
<1>1. /\ Headers \in Nat /\ Count \in Nat /\ Len(Order) \in Nat /\ Len(buffer) \in Nat /\ Len(got) \in Nat
      /\ buffer \in Seq(Bytes) /\ written \in Nat
  BY CaseFacts, OrderFacts, LenProperties DEF Typed, IsSequence
<1>2. CASE StoreValue
  <2>1. Order' = Order /\ Count' = Count /\ Headers' = Headers
    BY <1>2, SameOrder DEF StoreValue
  <2>2. written + 1 \in 1..Count
    BY <1>1, <1>2 DEF StoreValue
  <2> DEFINE b == StoreItem(case.values[written + 1])
  <2>3. b \in Seq(Bytes) /\ buffer' = buffer \o b
    BY <1>2, <2>2, ValueBytes DEF StoreValue
  <2> HIDE DEF b
  <2>4. buffer' \in Seq(Bytes)
    BY <1>1, <2>3, ConcatProperties
  <2>5. written' \in Nat /\ written' <= Count + Headers
    BY <1>1, <1>2 DEF StoreValue
  <2>6. Typed'
    BY <1>2, <2>1, <2>4, <2>5 DEF StoreValue, Typed, IsSequence
  <2>7. Phases'
    BY <1>2, <2>1, <2>5 DEF StoreValue, Phases
  <2> QED
    BY <2>6, <2>7
<1>3. CASE AddHeader
  <2>1. Order' = Order /\ Count' = Count /\ Headers' = Headers
    BY <1>3, SameOrder DEF AddHeader
  <2>2. Lo \in 1..Headers /\ (Headers - Lo) + 1 = written + 1 - Count
    BY <1>3, NextHeader DEF AddHeader
  <2> DEFINE b == StoreItem(case.headers[written + 1 - Count])
  <2>3. b \in Seq(Bytes)
    <3>1. StoreItem(case.headers[(Headers - Lo) + 1]) \in Seq(Bytes)
      BY <2>2, HeaderBytes
    <3> QED
      BY <2>2, <3>1
  <2>4. buffer' = b \o buffer
    BY <1>3 DEF AddHeader
  <2> HIDE DEF b
  <2>5. buffer' \in Seq(Bytes)
    BY <1>1, <2>3, <2>4, ConcatProperties
  <2>6. written' \in Nat /\ written' <= Count + Headers
    BY <1>1, <1>3 DEF AddHeader
  <2>7. Typed'
    BY <1>3, <2>1, <2>5, <2>6 DEF AddHeader, Typed, IsSequence
  <2>8. Phases'
    BY <1>3, <2>1, <2>6 DEF AddHeader, Phases
  <2> QED
    BY <2>7, <2>8
<1>4. CASE Transmit
  <2>1. Order' = Order /\ Count' = Count /\ Headers' = Headers
    BY <1>4, SameOrder DEF Transmit
  <2>2. PICK n \in 0..Len(buffer) : cut' = n /\ buffer' = SubSeq(buffer, 1, Len(buffer) - n)
    BY <1>4 DEF Transmit
  <2> DEFINE m == Len(buffer) - n
  <2>3. m \in Int /\ \A j \in 1..m : buffer[j] \in Bytes
    <3>1. m \in Nat /\ m <= Len(buffer)
      BY <1>1
    <3> HIDE DEF m
    <3>2. \A j \in 1..m : j \in 1..Len(buffer)
      BY <1>1, <3>1
    <3> QED
      BY <1>1, <3>1, <3>2, ElementOfSeq
  <2> HIDE DEF m
  <2>4. SubSeq(buffer, 1, m) \in Seq(Bytes)
    BY <2>3, SubSeqProperties
  <2>5. buffer' \in Seq(Bytes) /\ cut' \in Nat
    BY <2>2, <2>4 DEF m
  <2>6. Typed'
    BY <1>4, <2>1, <2>5 DEF Transmit, Typed, IsSequence
  <2>7. Phases'
    BY <1>4, <2>1 DEF Transmit, Phases
  <2> QED
    BY <2>6, <2>7
<1>5. CASE LoadValue
  <2>1. /\ phase = "load" /\ Len(got) < Len(Order)
        /\ got' = IF Read.status = "ok" THEN Append(got, Read.val) ELSE got
        /\ buffer' = IF Takes THEN Consume(Read.idx) ELSE buffer
        /\ pos' = IF Takes THEN 0 ELSE Read.idx
        /\ UNCHANGED <<case, written, cut, phase>>
    BY <1>5, LoadParts
  <2>2. status' = CASE Read.status # "error" -> Read.status
                    [] Read.status = "error" /\ Catches -> "defaulted"
                    [] Read.status = "error" /\ ~Catches -> "thrown"
    BY <1>5, LoadParts
  <2>3. Read.idx \in Nat /\ Read.status \in {"ok", "error", "undefined"}
    BY <2>1, ReadFacts
  <2>4. Order' = Order /\ Count' = Count /\ Headers' = Headers
    BY <2>1, SameOrder
  <2>5. IsSequence(got') /\ Len(got') <= Len(Order)
    <3>1. IsSequence(got)
      BY DEF Typed
    <3>2. CASE Read.status = "ok"
      <4>1. IsSequence(Append(got, Read.val)) /\ Len(Append(got, Read.val)) = Len(got) + 1
        BY <3>1, AppendAny
      <4> QED
        BY <1>1, <2>1, <3>2, <4>1
    <3>3. CASE Read.status # "ok"
      BY <1>1, <2>1, <3>1, <3>3
    <3> QED
      BY <3>2, <3>3
  <2>6. pos' \in Nat
    BY <2>1, <2>3
  <2>7. buffer' \in Seq(Bytes)
    BY <1>1, <2>1, <2>3, ConsumeFacts
  <2>8. status' \in {"ok", "defaulted", "thrown", "undefined"}
    BY <2>2, <2>3
  <2>9. case' \in Cases /\ written' \in Nat /\ cut' \in Nat /\ phase' \in {"store", "load", "done"}
    BY <2>1 DEF Typed
  <2>10. IsSequence(got)'
    BY <2>5 DEF IsSequence
  <2>11. Typed'
    BY <2>4, <2>5, <2>6, <2>7, <2>8, <2>9, <2>10 DEF Typed
  <2>12. Phases'
    BY <2>1 DEF Phases
  <2> QED
    BY <2>11, <2>12
<1>6. CASE EndLoad
  <2>1. Order' = Order /\ Count' = Count /\ Headers' = Headers
    BY <1>6, SameOrder DEF EndLoad
  <2>2. Typed'
    BY <1>6, <2>1 DEF EndLoad, Typed, IsSequence
  <2>3. Phases'
    BY <1>6, <2>1 DEF EndLoad, Phases
  <2> QED
    BY <2>2, <2>3
<1>7. CASE UNCHANGED vars
  <2>1. Order' = Order /\ Count' = Count /\ Headers' = Headers
    BY <1>7, SameOrder DEF vars
  <2> QED
    BY <1>7, <2>1 DEF vars, Typed, Phases, IsSequence
<1> QED
  BY <1>2, <1>3, <1>4, <1>5, <1>6, <1>7 DEF Next

\* Bytes between two items, with those of the next item.
LEMMA BitsFacts ==
  ASSUME Typed
  PROVE  /\ Bits(0) = << >>
         /\ \A k \in 0..Len(Order) : Bits(k) \in Seq(Bytes)
         /\ \A k \in Nat : k < Len(Order) => Bits(k + 1) = Bits(k) \o Each(Order, case.compress, k + 1)
<1>1. Order \in Seq(Items) /\ case.compress \in BOOLEAN
  BY OrderFacts, CaseFacts DEF Typed
<1> QED
  BY <1>1, PreBytes DEF Bits

\* Before the first item that is stored there are all headers.
LEMMA StartStored == Init => StoredSoFar
<1> SUFFICES ASSUME Init PROVE Bits(Lo) \o buffer = Bits(Hi)
  BY DEF StoredSoFar
<1>1. Typed /\ buffer = << >> /\ written = 0
  BY StartTyped DEF Init
<1>2. Headers \in Nat /\ Count \in Nat /\ Len(Order) = Headers + Count
  BY <1>1, CaseFacts, OrderFacts DEF Typed
<1>3. Lo = Headers /\ Hi = Headers /\ Headers \in 0..Len(Order)
  BY <1>1, <1>2 DEF Lo, Hi
<1>4. Bits(Headers) \in Seq(Bytes)
  BY <1>1, <1>3, BitsFacts
<1> QED
  BY <1>1, <1>3, <1>4, ConcatEmptySeq

\* Three parts are joined from either side.
LEMMA JoinedThree ==
  ASSUME NEW b \in Seq(Bytes), NEW c \in Seq(Bytes), NEW d \in Seq(Bytes)
  PROVE  (b \o c) \o d = b \o (c \o d)
BY ConcatAssociative

\* What is stored stands for the items from Lo to Hi.
LEMMA StepStored ==
  ASSUME Typed, Phases, StoredSoFar, [Next]_vars
  PROVE  StoredSoFar'
<1> SUFFICES ASSUME phase' = "store" PROVE (Bits(Lo) \o buffer = Bits(Hi))'
  BY DEF StoredSoFar
<1>1. Headers \in Nat /\ Count \in Nat /\ Len(Order) = Headers + Count /\ buffer \in Seq(Bytes) /\ written \in Nat
  BY CaseFacts, OrderFacts DEF Typed
<1>2. CASE StoreValue
  <2> DEFINE b == StoreItem(case.values[written + 1])
             h == Headers + written
  <2>1. Order' = Order /\ Count' = Count /\ Headers' = Headers /\ case' = case
    BY <1>2, SameOrder DEF StoreValue
  <2>2. phase = "store" /\ written < Count /\ written' = written + 1 /\ buffer' = buffer \o b
    BY <1>2 DEF StoreValue
  <2>3. written + 1 \in 1..Count /\ Headers + (written + 1) = h + 1
    BY <1>1, <2>2
  <2>4. b \in Seq(Bytes) /\ b = Each(Order, case.compress, h + 1)
    BY <2>3, ValueBytes
  <2> HIDE DEF b
  <2>5. Lo = Headers /\ Lo' = Headers /\ Hi = h /\ Hi' = h + 1
    BY <1>1, <2>1, <2>2, <2>3 DEF Lo, Hi
  <2>6. Headers \in 0..Len(Order) /\ h \in Nat /\ h < Len(Order)
    BY <1>1, <2>2
  <2> HIDE DEF h
  <2>7. Bits(Headers) \in Seq(Bytes) /\ Bits(h + 1) = Bits(h) \o b
    BY <2>4, <2>6, BitsFacts
  <2>8. Bits(Headers) \o buffer = Bits(h)
    BY <2>2, <2>5 DEF StoredSoFar
  <2>9. Bits(Headers) \o (buffer \o b) = Bits(h + 1)
    <3> DEFINE p == Bits(Headers)
    <3>1. p \in Seq(Bytes) /\ buffer \in Seq(Bytes) /\ b \in Seq(Bytes)
      BY <1>1, <2>4, <2>7
    <3> HIDE DEF p
    <3>2. (p \o buffer) \o b = p \o (buffer \o b)
      BY <3>1, JoinedThree
    <3> QED
      BY <2>7, <2>8, <3>2 DEF p
  <2>10. Bits(Lo)' = Bits(Headers) /\ Bits(Hi)' = Bits(h + 1)
    BY <2>1, <2>5 DEF Bits
  <2> QED
    BY <2>2, <2>9, <2>10
<1>3. CASE AddHeader
  <2> DEFINE b == StoreItem(case.headers[written + 1 - Count])
             l == Lo - 1
  <2>1. Order' = Order /\ Count' = Count /\ Headers' = Headers /\ case' = case
    BY <1>3, SameOrder DEF AddHeader
  <2>2. /\ phase = "store" /\ written >= Count /\ written < Count + Headers
        /\ written' = written + 1 /\ buffer' = b \o buffer
    BY <1>3 DEF AddHeader
  <2>3. Lo \in 1..Headers /\ (Headers - Lo) + 1 = written + 1 - Count
    BY <2>2, NextHeader
  <2>4. b \in Seq(Bytes) /\ b = Each(Order, case.compress, Lo)
    <3>1. /\ StoreItem(case.headers[(Headers - Lo) + 1]) \in Seq(Bytes)
          /\ StoreItem(case.headers[(Headers - Lo) + 1]) = Each(Order, case.compress, Lo)
      BY <2>3, HeaderBytes
    <3> QED
      BY <2>3, <3>1
  <2> HIDE DEF b
  <2>5. Lo' = l /\ Hi = Headers + Count /\ Hi' = Headers + Count
    <3>1. Lo = Headers - (written - Count)
      BY <1>1, <2>2 DEF Lo
    <3>2. Lo' = Headers - ((written + 1) - Count)
      BY <1>1, <2>1, <2>2 DEF Lo
    <3> QED
      BY <1>1, <2>1, <2>2, <3>1, <3>2 DEF Hi
  <2>6. l \in Nat /\ l < Len(Order) /\ l + 1 = Lo /\ l \in 0..Len(Order)
    BY <1>1, <2>3
  <2> HIDE DEF l
  <2>7. Bits(l) \in Seq(Bytes) /\ Bits(Lo) = Bits(l) \o b
    BY <2>4, <2>6, BitsFacts
  <2>8. Bits(Lo) \o buffer = Bits(Hi)
    BY <2>2 DEF StoredSoFar
  <2>9. Bits(l) \o (b \o buffer) = Bits(Hi)
    <3> DEFINE p == Bits(l)
    <3>1. p \in Seq(Bytes) /\ b \in Seq(Bytes) /\ buffer \in Seq(Bytes)
      BY <1>1, <2>4, <2>7
    <3> HIDE DEF p
    <3>2. (p \o b) \o buffer = p \o (b \o buffer)
      BY <3>1, JoinedThree
    <3> QED
      BY <2>7, <2>8, <3>2 DEF p
  <2>10. Bits(Lo)' = Bits(l) /\ Bits(Hi)' = Bits(Hi)
    BY <2>1, <2>5 DEF Bits
  <2> QED
    BY <2>2, <2>9, <2>10
<1>4. CASE Transmit
  BY <1>4 DEF Transmit
<1>5. CASE LoadValue
  BY <1>5 DEF LoadValue
<1>6. CASE EndLoad
  BY <1>6 DEF EndLoad
<1>7. CASE UNCHANGED vars
  <2>1. Order' = Order /\ Count' = Count /\ Headers' = Headers /\ case' = case
    BY <1>7, SameOrder DEF vars
  <2>2. written' = written /\ buffer' = buffer /\ phase' = phase
    BY <1>7 DEF vars
  <2>3. Lo' = Lo /\ Hi' = Hi
    BY <2>1, <2>2 DEF Lo, Hi
  <2>4. Bits(Lo)' = Bits(Lo) /\ Bits(Hi)' = Bits(Hi)
    BY <2>1, <2>3 DEF Bits
  <2> QED
    BY <2>2, <2>4 DEF StoredSoFar
<1> QED
  BY <1>2, <1>3, <1>4, <1>5, <1>6, <1>7 DEF Next

\* What comes to the reader.
LEMMA SentBytes ==
  ASSUME Typed, Phases, StoredSoFar, Transmit
  PROVE  /\ All \in Seq(Bytes) /\ Len(All) \in Nat /\ cut' \in Nat
         /\ Len(buffer') + cut' = Len(All) /\ Len(buffer') \in Nat
         /\ \A j \in 1..Len(buffer') : buffer'[j] = All[j]
         /\ pos = 0 /\ got = << >> /\ status = "ok" /\ phase' = "load"
         /\ UNCHANGED <<case, pos, got, status>>
<1>1. Headers \in Nat /\ Count \in Nat /\ Len(Order) = Headers + Count /\ buffer \in Seq(Bytes)
  BY CaseFacts, OrderFacts DEF Typed
<1>2. phase = "store" /\ written = Count + Headers /\ phase' = "load" /\ UNCHANGED <<case, pos, got, status>>
  BY DEF Transmit
<1>3. Lo = 0 /\ Hi = Len(Order) /\ Len(Order) \in 0..Len(Order)
  BY <1>1, <1>2 DEF Lo, Hi
<1>4. Bits(0) = << >> /\ All \in Seq(Bytes)
  BY <1>3, BitsFacts DEF All
<1>5. buffer = All
  <2>1. Bits(Lo) \o buffer = Bits(Hi)
    BY <1>2 DEF StoredSoFar
  <2>2. << >> \o buffer = All
    BY <1>3, <1>4, <2>1 DEF All
  <2> QED
    BY <1>1, <2>2, ConcatEmptySeq
<1>6. PICK n \in 0..Len(buffer) : cut' = n /\ buffer' = SubSeq(buffer, 1, Len(buffer) - n)
  BY DEF Transmit
<1> DEFINE a == All
           m == Len(a) - n
           s == SubSeq(a, 1, m)
<1>7. Len(a) \in Nat
  BY <1>4, LenProperties
<1>8. n \in Nat /\ m \in Nat /\ m \in Int /\ 1 \in Int /\ m <= Len(a) /\ m + n = Len(a)
  BY <1>5, <1>6, <1>7
<1>9. cut' = n /\ buffer' = s
  BY <1>5, <1>6
<1> HIDE DEF a, m
<1>10. \A j \in 1..m : a[j] \in Bytes
  <2> TAKE j \in 1..m
  <2>1. j \in 1..Len(a)
    BY <1>7, <1>8
  <2> QED
    BY <1>4, <2>1, ElementOfSeq DEF a
<1>11. /\ Len(s) = IF 1 <= m THEN m - 1 + 1 ELSE 0
       /\ \A j \in 1..(m - 1 + 1) : s[j] = a[1 + j - 1]
  BY <1>8, <1>10, SubSeqProperties
<1> HIDE DEF s
<1>12. Len(s) = m /\ \A j \in 1..m : s[j] = a[j]
  <2>1. m - 1 + 1 = m
    BY <1>8
  <2>2. Len(s) = m
    BY <1>8, <1>11, <2>1
  <2>3. ASSUME NEW j \in 1..m PROVE s[j] = a[j]
    <3>1. 1 + j - 1 = j
      BY <1>8
    <3> QED
      BY <1>11, <2>1, <3>1
  <2> QED
    BY <2>2, <2>3
<1> QED
  BY <1>2, <1>4, <1>7, <1>8, <1>9, <1>12 DEF a, Phases

\* A step with the same case has the same bytes and the same values that are kept.
LEMMA SameCase ==
  ASSUME UNCHANGED case
  PROVE  /\ Order' = Order /\ Count' = Count /\ Headers' = Headers /\ case' = case
         /\ All' = All /\ AllKept' = AllKept
         /\ (\A n : Bits(n)' = Bits(n)) /\ (\A n : NextBegins(n)' = NextBegins(n))
         /\ got' = got => Bits(Len(got))' = Bits(Len(got))
         /\ Len(got') = Len(got) + 1 => Bits(Len(got))' = Bits(Len(got) + 1)
<1>1. Order' = Order /\ Count' = Count /\ Headers' = Headers /\ case' = case
  BY SameOrder
<1>2. All' = All
  BY <1>1 DEF All, Bits
<1>3. AllKept' = AllKept
  BY <1>1 DEF AllKept, KeptBelow
<1>4. (\A n : Bits(n)' = Bits(n)) /\ (\A n : NextBegins(n)' = NextBegins(n))
  BY <1>1 DEF Bits, NextBegins
<1>5. got' = got => Bits(Len(got))' = Bits(Len(got))
  BY <1>1 DEF Bits
<1>6. Len(got') = Len(got) + 1 => Bits(Len(got))' = Bits(Len(got) + 1)
  BY <1>1 DEF Bits
<1> QED
  BY <1>1, <1>2, <1>3, <1>4, <1>5, <1>6

\* The limits that are used.
LEMMA LimitFacts == Byte \in Limits /\ Byte * Byte \in Limits /\ Byte \in Nat /\ Byte * Byte \in Nat
<1>1. Byte \in Nat /\ Byte > 1
  BY ByteFacts
<1> DEFINE y == Byte * Byte
<1>2. y \in Nat /\ Byte <= y
  BY <1>1
<1> HIDE DEF y
<1>3. y <= y
  BY <1>2
<1> QED
  BY <1>1, <1>2, <1>3 DEF Limits, y

\* The item that is loaded next, and its bytes.
LEMMA NextItem ==
  ASSUME Typed, Len(got) < Len(Order)
  PROVE  LET k == Len(got)
             x == Order[k + 1]
             b == Bits(k)
             e == Each(Order, case.compress, k + 1)
         IN  /\ k \in Nat /\ k + 1 \in 1..Len(Order) /\ case.compress \in BOOLEAN
             /\ x.type \in Types /\ x.val \in Vals[x.type]
             /\ e = Store(x.type, x.val, case.compress) /\ e \in Seq(Bytes)
             /\ Len(b) \in Nat /\ Len(e) \in Nat /\ Len(All) \in Nat
             /\ Len(Bits(k + 1)) = Len(b) + Len(e) /\ Len(b) + Len(e) <= Len(All)
             /\ \A j \in 1..Len(e) : All[Len(b) + j] = e[j]
<1> DEFINE k == Len(got)
<1>1. Order \in Seq(Items) /\ Len(Order) \in Nat /\ k \in Nat /\ case.compress \in BOOLEAN
  BY OrderFacts, CaseFacts, LenProperties DEF Typed, IsSequence
<1>2. k + 1 \in 1..Len(Order) /\ k < Len(Order)
  BY <1>1
<1>3. Order[k + 1].type \in Types /\ Order[k + 1].val \in Vals[Order[k + 1].type]
  BY <1>1, <1>2, ElementOfSeq, ItemFacts
<1>4. /\ Each(Order, case.compress, k + 1) = Store(Order[k + 1].type, Order[k + 1].val, case.compress)
      /\ Each(Order, case.compress, k + 1) \in Seq(Bytes)
  BY <1>1, <1>2, EachBytes DEF Each
<1> HIDE DEF k
<1>5. LET b == Bits(k)
          e == Each(Order, case.compress, k + 1)
      IN  /\ Len(b) \in Nat /\ Len(e) \in Nat /\ Len(All) \in Nat
          /\ Len(Bits(k + 1)) = Len(b) + Len(e) /\ Len(b) + Len(e) <= Len(All)
          /\ \A j \in 1..Len(e) : All[Len(b) + j] = e[j]
  BY <1>1, <1>2, EachPlace DEF Bits, All
<1> QED
  BY <1>1, <1>2, <1>3, <1>4, <1>5 DEF k

\* Where the archive has the bytes that are next, a kept value is loaded well.
LEMMA NextLoad ==
  ASSUME Typed, Len(got) < Len(Order), NEW limit \in Limits, KeptBelow(limit), NEW off \in Nat,
         Len(Bits(Len(got))) = off + pos, \A i \in 1..Len(buffer) : buffer[i] = All[off + i],
         pos <= Len(Readable(Archive))
  PROVE  LET x == Order[Len(got) + 1]
             e == Each(Order, case.compress, Len(got) + 1)
         IN  Good(Load(x.type, Archive, pos), Archive, pos, x.val, e, limit <= Byte) /\ Len(e) > 0
<1> DEFINE k == Len(got)
           x == Order[k + 1]
           c == case.compress
           b == Bits(k)
           e == Each(Order, c, k + 1)
           T == x.type
           v == x.val
<1>1. /\ k \in Nat /\ k + 1 \in 1..Len(Order) /\ c \in BOOLEAN /\ T \in Types
      /\ e = Store(T, v, c) /\ Len(b) \in Nat /\ Len(e) \in Nat
      /\ \A j \in 1..Len(e) : All[Len(b) + j] = e[j]
  BY NextItem
<1>2. v \in Keeps[Depth][T][c][limit]
  BY <1>1 DEF KeptBelow
<1>3. /\ Archive \in Archives /\ Archive.data = buffer /\ Archive.compress = c /\ Len(buffer) \in Nat
      /\ pos \in Nat
  BY ArchiveFacts DEF Typed
<1>4. Len(b) = off + pos
  OBVIOUS
<1> HIDE DEF k, x, c, b, e, T, v
<1>5. Agree(e, Archive, pos)
  <2> SUFFICES ASSUME NEW j \in 1..Len(e), pos + j <= Len(buffer) PROVE buffer[pos + j] = e[j]
    BY <1>3 DEF Agree
  <2>1. pos + j \in 1..Len(buffer) /\ off + (pos + j) = Len(b) + j
    BY <1>1, <1>3, <1>4
  <2>2. buffer[pos + j] = All[off + (pos + j)]
    BY <2>1
  <2> QED
    BY <1>1, <2>1, <2>2
<1>6. Good(Load(T, Archive, pos), Archive, pos, v, e, limit <= Byte)
  <2>1. Agree(Store(T, v, c), Archive, pos)
    BY <1>1, <1>5
  <2>2. Good(Load(T, Archive, pos), Archive, pos, v, Store(T, v, c), limit <= Byte)
    BY <1>1, <1>2, <1>3, <2>1, KeptGood
  <2> QED
    BY <1>1, <2>2
<1>7. Len(e) > 0
  BY <1>1, <1>2, KeptTakes DEF Limits
<1> QED
  BY <1>6, <1>7 DEF k, x, c, b, e, T, v

\* The numbers of bytes before and behind a value of e bytes: p are read of m, b - p are
\* taken off, x are cut off of n, and the first y have arrived.
LEMMA Offsets ==
  ASSUME NEW p \in Nat, NEW b \in Nat, NEW e \in Nat, NEW m \in Nat, NEW n \in Nat, NEW x \in Nat,
         NEW y \in Nat, p <= b, (m + (b - p)) + x = n, y + x <= n, b + e <= y
  PROVE  /\ b - p \in Nat /\ b = (b - p) + p /\ p + e \in Nat /\ p + e <= m /\ p <= m
         /\ (b + e) - 0 = (b - p) + (p + e) /\ (b + e) - (p + e) = b - p /\ p + e <= b + e
         /\ ((m - (p + e)) + ((b - p) + (p + e))) + x = n
OBVIOUS

\* What of the packet is read next if the first n items have arrived, and the next is one of them.
Going(n) ==
  /\ \A i \in 1..Len(got) : got[i] = Order[i].val
  /\ pos <= Len(Bits(Len(got))) /\ (Len(buffer) + Passed) + cut = Len(All)
  /\ \A i \in 1..Len(buffer) : buffer[i] = All[Passed + i]
  /\ Len(got) <= Headers \/ case.mode = "extract" => pos = 0
  /\ Len(got) < n /\ n \in 0..Len(Order) /\ Len(Bits(n)) + cut <= Len(All)

\* It is loaded as it was stored, and the archive goes on behind it.
LEMMA GoesOn ==
  ASSUME Typed, Phases, AllKept, LoadValue, NEW n, Going(n)
  PROVE  (/\ status = "ok" /\ Len(got) <= n /\ \A i \in 1..Len(got) : got[i] = Order[i].val
          /\ pos <= Len(Bits(Len(got))) /\ (Len(buffer) + Passed) + cut = Len(All)
          /\ \A i \in 1..Len(buffer) : buffer[i] = All[Passed + i]
          /\ Len(got) <= Headers \/ case.mode = "extract" => pos = 0)'
<1> DEFINE k == Len(got)
           x == Order[k + 1]
           b == Bits(k)
           e == Each(Order, case.compress, k + 1)
           off == Len(b) - pos
           next == pos + Len(e)
           l == Load(x.type, Archive, pos)
<1>1. /\ phase = "load" /\ k < Len(Order)
      /\ got' = IF Read.status = "ok" THEN Append(got, Read.val) ELSE got
      /\ buffer' = IF Takes THEN Consume(Read.idx) ELSE buffer
      /\ pos' = IF Takes THEN 0 ELSE Read.idx
      /\ UNCHANGED <<case, written, cut, phase>>
  BY LoadParts
<1>2. status' = CASE Read.status # "error" -> Read.status
                  [] Read.status = "error" /\ Catches -> "defaulted"
                  [] Read.status = "error" /\ ~Catches -> "thrown"
  BY LoadParts
<1>3. Order' = Order /\ Headers' = Headers /\ All' = All /\ case' = case /\ cut' = cut
  BY <1>1, SameCase
<1>4. /\ \A i \in 1..k : got[i] = Order[i].val
      /\ pos <= Len(b) /\ (Len(buffer) + off) + cut = Len(All)
      /\ \A i \in 1..Len(buffer) : buffer[i] = All[off + i]
      /\ k <= Headers \/ case.mode = "extract" => pos = 0
      /\ k < n /\ n \in 0..Len(Order) /\ Len(Bits(n)) + cut <= Len(All)
  BY DEF Going, Passed
<1>5. /\ k \in Nat /\ Len(b) \in Nat /\ Len(e) \in Nat /\ Len(All) \in Nat
      /\ Len(Bits(k + 1)) = Len(b) + Len(e)
  BY <1>1, NextItem
<1>6. /\ Len(buffer) \in Nat /\ Len(buffer) <= Len(Readable(Archive)) /\ Archive.data = buffer
      /\ pos \in Nat /\ buffer \in Seq(Bytes) /\ IsSequence(got) /\ Headers \in Nat /\ cut \in Nat
      /\ Len(Readable(Archive)) \in Nat /\ Len(Order) \in Nat
  BY ArchiveFacts, ReadableBytes, CaseFacts, OrderFacts DEF Typed
<1>7. Len(Bits(n)) \in Nat /\ Len(Bits(k + 1)) <= Len(Bits(n)) /\ n \in Nat /\ k + 1 <= n
  <2>1. Order \in Seq(Items) /\ case.compress \in BOOLEAN
    BY OrderFacts, CaseFacts DEF Typed
  <2>2. n \in Nat /\ k + 1 \in 0..n
    BY <1>4, <1>5, <1>6
  <2>3. Len(Pre(Order, case.compress, k + 1)) <= Len(Pre(Order, case.compress, n))
    BY <1>4, <2>1, <2>2, PreFront
  <2>4. Bits(n) \in Seq(Bytes)
    BY <1>4, BitsFacts
  <2> QED
    BY <2>2, <2>3, <2>4, LenProperties DEF Bits
<1>8. /\ off \in Nat /\ Len(b) = off + pos /\ next <= Len(buffer) /\ next \in Nat
      /\ pos <= Len(buffer) /\ pos <= Len(Readable(Archive))
      /\ Len(Bits(k + 1)) - 0 = off + next /\ Len(Bits(k + 1)) - next = off /\ next <= Len(Bits(k + 1))
      /\ ((Len(buffer) - next) + (off + next)) + cut = Len(All)
  <2> DEFINE p == pos
             q == Len(b)
             m == Len(buffer)
             d == Len(e)
             a == Len(All)
             y == Len(Bits(n))
  <2>1. p \in Nat /\ q \in Nat /\ d \in Nat /\ m \in Nat /\ a \in Nat /\ cut \in Nat /\ y \in Nat
    BY <1>5, <1>6, <1>7
  <2>2. /\ p <= q /\ (m + (q - p)) + cut = a /\ y + cut <= a /\ q + d <= y
        /\ Len(Bits(k + 1)) = q + d
    BY <1>4, <1>5, <1>7
  <2>3. off = q - p /\ next = p + d
    OBVIOUS
  <2>4. m <= Len(Readable(Archive)) /\ Len(Readable(Archive)) \in Nat
    BY <1>6
  <2> HIDE DEF k, b, e, p, q, m, d, a, y, off, next
  <2>5. /\ q - p \in Nat /\ q = (q - p) + p /\ p + d \in Nat /\ p + d <= m /\ p <= m
        /\ (q + d) - 0 = (q - p) + (p + d) /\ (q + d) - (p + d) = q - p /\ p + d <= q + d
        /\ ((m - (p + d)) + ((q - p) + (p + d))) + cut = a
    BY <2>1, <2>2, Offsets
  <2>6. p <= Len(Readable(Archive))
    BY <2>1, <2>4, <2>5
  <2>7. off \in Nat /\ q = off + p /\ next <= m /\ next \in Nat /\ p <= m
    BY <2>3, <2>5
  <2>8. Len(Bits(k + 1)) - 0 = off + next /\ Len(Bits(k + 1)) - next = off /\ next <= Len(Bits(k + 1))
    BY <2>2, <2>3, <2>5
  <2>9. ((m - next) + (off + next)) + cut = a
    BY <2>3, <2>5
  <2> QED
    BY <2>6, <2>7, <2>8, <2>9 DEF q, m, a, p
<1>9. Good(l, Archive, pos, x.val, e, Byte * Byte <= Byte) /\ Len(e) > 0
  <2> HIDE DEF off, next
  <2> QED
    BY <1>1, <1>4, <1>8, LimitFacts, NextLoad DEF AllKept
<1>10. l = Ok(x.val, next)
  <2> HIDE DEF l, x
  <2> QED
    BY <1>6, <1>8, <1>9 DEF Good, Whole
<1>11. buffer # << >>
  BY <1>5, <1>6, <1>8, <1>9, EmptySeq
<1>12. Read = l
  BY <1>11 DEF Read
<1>13. Read.val = x.val /\ Read.idx = next /\ Read.status = "ok"
  BY <1>10, <1>12, OkParts
<1>14. status' = "ok" /\ got' = Append(got, x.val)
  BY <1>1, <1>2, <1>13
<1> HIDE DEF x, e, l
<1>15. Len(got') = k + 1 /\ (\A j \in 1..k : got'[j] = got[j]) /\ got'[k + 1] = x.val
  BY <1>6, <1>14, AppendAny
<1>16. Bits(Len(got))' = Bits(k + 1)
  BY <1>1, <1>15, SameCase
<1>17. ASSUME NEW i \in 1..Len(got') PROVE got'[i] = Order[i].val
  <2>1. CASE i = k + 1
    BY <1>15, <2>1 DEF x
  <2>2. CASE i # k + 1
    <3>1. i \in 1..k
      BY <1>5, <1>15, <2>2
    <3> QED
      BY <1>4, <1>15, <3>1
  <2> QED
    BY <2>1, <2>2
<1>18. Len(got') <= n
  BY <1>7, <1>15
<1>19. CASE Takes
  <2>1. pos = 0
    BY <1>4, <1>5, <1>6, <1>19 DEF Takes, ReadsHeader
  <2>2. pos' = 0 /\ buffer' = Consume(next)
    BY <1>1, <1>13, <1>19
  <2>3. Passed' = off + next
    <3>1. Passed' = Len(Bits(k + 1)) - 0
      BY <1>16, <2>2 DEF Passed
    <3> QED
      BY <1>8, <3>1
  <2> HIDE DEF b, off, next
  <2>4. Len(buffer') = Len(buffer) - next /\ \A j \in 1..(Len(buffer) - next) : buffer'[j] = buffer[next + j]
    BY <1>6, <1>8, <2>2, ConsumeFacts
  <2>5. (Len(buffer') + (off + next)) + cut = Len(All)
    BY <1>8, <2>4
  <2>6. ASSUME NEW j \in 1..Len(buffer') PROVE buffer'[j] = All[(off + next) + j]
    <3>1. next + j \in 1..Len(buffer) /\ off + (next + j) = (off + next) + j
      BY <1>6, <1>8, <2>4
    <3> QED
      BY <1>4, <2>4, <3>1
  <2>7. 0 <= Len(Bits(k + 1))
    BY <1>5
  <2> QED
    BY <1>3, <1>14, <1>16, <1>17, <1>18, <2>2, <2>3, <2>5, <2>6, <2>7
<1>20. CASE ~Takes
  <2>1. pos' = next /\ buffer' = buffer
    BY <1>1, <1>13, <1>20
  <2>2. Passed' = off /\ next <= Len(Bits(k + 1))
    <3>1. Passed' = Len(Bits(k + 1)) - next
      BY <1>16, <2>1 DEF Passed
    <3> QED
      BY <1>8, <3>1
  <2>3. ~(Len(got') <= Headers) /\ case.mode # "extract"
    BY <1>5, <1>6, <1>13, <1>15, <1>20 DEF Takes, ReadsHeader
  <2> HIDE DEF b, off, next
  <2> QED
    BY <1>3, <1>4, <1>14, <1>16, <1>17, <1>18, <2>1, <2>2, <2>3
<1> QED
  BY <1>19, <1>20

\* Where a packet ends before a value that is tested for, that value is not loaded.
LEMMA EndRead ==
  ASSUME Typed, phase # "store", Len(got) < Len(Order), NextBegins(Len(got)), pos <= Len(Bits(Len(got))),
         (Len(buffer) + Passed) + cut = Len(All), Len(Bits(Len(got))) + cut = Len(All)
  PROVE  Read.status = "error"
<1> DEFINE k == Len(got)
           T == Order[k + 1].type
<1>1. /\ Len(Bits(k)) \in Nat /\ Len(All) \in Nat /\ T \in Types
  BY NextItem
<1>2. Archive \in Archives /\ Archive.data = buffer /\ Len(buffer) \in Nat /\ Archive.file = (case.mode = "file")
  BY ArchiveFacts
<1>3. pos \in Nat /\ cut \in Nat
  BY DEF Typed
<1>4. Len(buffer) = pos
  <2> DEFINE m == Len(buffer)
             b == Len(Bits(k))
             a == Len(All)
  <2>1. m \in Nat /\ b \in Nat /\ a \in Nat /\ (m + (b - pos)) + cut = a /\ b + cut = a
    BY <1>1, <1>2 DEF Passed
  <2> HIDE DEF m, b, a, k
  <2>2. m = pos
    BY <1>3, <2>1
  <2> QED
    BY <2>2 DEF m
<1>5. case.mode # "file" /\ T \in Begins[Depth]
  BY DEF NextBegins
<1>6. Ended(Archive, pos)
  <2>1. ~Archive.file
    BY <1>2, <1>5, Zenon
  <2>2. pos >= Len(Archive.data)
    BY <1>2, <1>3, <1>4
  <2> QED
    BY <1>2, <1>3, <2>1, <2>2 DEF Ended
<1> HIDE DEF T
<1>7. Load(T, Archive, pos).status = "error"
  BY <1>2, <1>3, <1>5, <1>6, EndNoticed DEF Noticed, Load
<1> QED
  BY <1>7, StopParts DEF Read, T

\* Nothing that has arrived is lost, out of order or read twice.
LEMMA StepReturned ==
  ASSUME Typed, Phases, StoredSoFar, Returned, [Next]_vars
  PROVE  Returned'
<1> SUFFICES ASSUME (phase # "store" /\ AllKept)', NEW n, (n \in 0..Len(Order) /\ Len(Bits(n)) + cut <= Len(All))'
             PROVE  ReturnedTo(n)'
  BY DEF Returned
<1>1. CASE StoreValue
  BY <1>1 DEF StoreValue
<1>2. CASE AddHeader
  BY <1>2 DEF AddHeader
<1>3. CASE Transmit
  <2>1. /\ Len(All) \in Nat /\ Len(buffer') + cut' = Len(All) /\ Len(buffer') \in Nat /\ cut' \in Nat
        /\ \A j \in 1..Len(buffer') : buffer'[j] = All[j]
        /\ pos = 0 /\ got = << >> /\ status = "ok" /\ UNCHANGED <<case, pos, got, status>>
    BY <1>3, SentBytes
  <2>2. Order' = Order /\ All' = All /\ Bits(Len(got))' = Bits(Len(got))
    BY <2>1, SameCase
  <2>3. Len(got) = 0 /\ Len(got') = 0
    BY <2>1, EmptySeq
  <2>4. Len(Bits(Len(got))) = 0
    BY <2>3, BitsFacts, EmptySeq
  <2>5. Passed' = 0
    BY <2>1, <2>2, <2>4 DEF Passed
  <2>6. (Len(buffer') + 0) + cut' = Len(All) /\ \A j \in 1..Len(buffer') : 0 + j = j
    BY <2>1
  <2>7. 0 <= Len(Bits(Len(got)))'
    BY <2>2, <2>4
  <2>8. Len(got') <= n /\ n \in Nat
    <3>1. Len(Order) \in Nat
      BY OrderFacts, LenProperties DEF Typed
    <3> QED
      BY <2>2, <2>3, <3>1
  <2> QED
    BY <2>1, <2>2, <2>3, <2>5, <2>6, <2>7, <2>8 DEF ReturnedTo
<1>4. CASE LoadValue
  <2>1. /\ phase = "load" /\ Len(got) < Len(Order) /\ status = "ok" /\ UNCHANGED <<case, written, cut, phase>>
        /\ got' = IF Read.status = "ok" THEN Append(got, Read.val) ELSE got
        /\ status' = CASE Read.status # "error" -> Read.status
                       [] Read.status = "error" /\ Catches -> "defaulted"
                       [] Read.status = "error" /\ ~Catches -> "thrown"
    BY <1>4, LoadParts
  <2>2. /\ Order' = Order /\ Headers' = Headers /\ All' = All /\ AllKept /\ case' = case
        /\ Bits(n)' = Bits(n) /\ NextBegins(n)' = NextBegins(n)
    BY <2>1, SameCase
  <2>3. n \in 0..Len(Order) /\ Len(Bits(n)) + cut <= Len(All) /\ ReturnedTo(n)
    BY <2>1, <2>2 DEF Returned
  <2>4. /\ Len(got) \in Nat /\ Len(Order) \in Nat /\ n \in Nat /\ IsSequence(got)
        /\ Read.status \in {"ok", "error", "undefined"}
    <3>1. Len(Order) \in Nat
      BY OrderFacts, LenProperties DEF Typed
    <3> QED
      BY <2>1, <2>3, <3>1, ReadFacts DEF Typed, IsSequence
  <2>5. CASE Len(got) < n
    <3>1. Going(n)
      BY <2>1, <2>3, <2>4, <2>5 DEF ReturnedTo, Going
    <3> QED
      BY <1>4, <2>2, <3>1, GoesOn DEF ReturnedTo
  <2>6. CASE ~(Len(got) < n)
    <3>1. /\ \A i \in 1..Len(got') : i <= n => got'[i] = Order[i].val
          /\ Read.status = "ok" => Len(got') = Len(got) + 1
          /\ Read.status # "ok" => Len(got') = Len(got)
      <4>1. CASE Read.status = "ok"
        <5>1. Len(got') = Len(got) + 1 /\ \A j \in 1..Len(got) : got'[j] = got[j]
          BY <2>1, <2>4, <4>1, AppendAny
        <5>2. ASSUME NEW i \in 1..Len(got'), i <= n PROVE got'[i] = Order[i].val
          <6>1. i \in 1..Len(got)
            BY <2>4, <2>6, <5>1, <5>2
          <6> QED
            BY <2>3, <5>1, <5>2, <6>1 DEF ReturnedTo
        <5> QED
          BY <4>1, <5>1, <5>2
      <4>2. CASE Read.status # "ok"
        BY <2>1, <2>3, <4>2 DEF ReturnedTo
      <4> QED
        BY <4>1, <4>2
    <3>2. status' # "ok" => n <= Len(got') /\ Len(got') < Len(Order)
      BY <2>1, <2>4, <2>6, <3>1
    <3>3. ~(Len(got') <= n /\ status' = "ok")
      <4>1. CASE Read.status = "ok"
        BY <2>4, <2>6, <3>1, <4>1
      <4>2. CASE Read.status # "ok"
        BY <2>1, <2>4, <4>2
      <4> QED
        BY <4>1, <4>2
    <3>4. ASSUME Len(Bits(n)) + cut = Len(All), NextBegins(n)
          PROVE  Len(got') <= n /\ (status' # "ok" => status' \in {"defaulted", "thrown"})
      <4>1. Len(got) <= n
        BY <2>3, <3>4 DEF ReturnedTo
      <4>2. Len(got) = n
        BY <2>4, <2>6, <4>1
      <4>3. pos <= Len(Bits(Len(got))) /\ (Len(buffer) + Passed) + cut = Len(All)
        BY <2>1, <2>3, <4>1 DEF ReturnedTo
      <4>4. Read.status = "error"
        BY <2>1, <3>4, <4>2, <4>3, EndRead
      <4> QED
        BY <2>1, <3>1, <4>1, <4>4
    <3> QED
      BY <2>1, <2>2, <3>1, <3>2, <3>3, <3>4 DEF ReturnedTo
  <2> QED
    BY <2>5, <2>6
<1>5. CASE EndLoad \/ UNCHANGED vars
  <2>1. phase # "store" /\ UNCHANGED <<case, buffer, cut, pos, got, status>>
    BY <1>5 DEF EndLoad, vars
  <2>2. /\ Order' = Order /\ Headers' = Headers /\ All' = All /\ AllKept /\ Bits(Len(got))' = Bits(Len(got))
        /\ Bits(n)' = Bits(n) /\ NextBegins(n)' = NextBegins(n)
    BY <2>1, SameCase
  <2>3. Passed' = Passed
    BY <2>1, <2>2 DEF Passed
  <2>4. ReturnedTo(n)
    BY <2>1, <2>2 DEF Returned
  <2> QED
    BY <2>1, <2>2, <2>3, <2>4 DEF ReturnedTo
<1> QED
  BY <1>1, <1>2, <1>3, <1>4, <1>5 DEF Next

\* In every state the buffer has the bytes of the items that were stored and are not passed yet,
\* and the values that were loaded are those of the first items.
THEOREM InvariantHolds == Spec => []IInv
<1>1. Init => IInv
  <2>1. Init => Typed /\ Phases /\ StoredSoFar
    BY StartTyped, StartStored
  <2>2. Init => Returned
    BY DEF Init, Returned
  <2> QED
    BY <2>1, <2>2 DEF IInv
<1>2. IInv /\ [Next]_vars => IInv'
  <2> SUFFICES ASSUME IInv, [Next]_vars PROVE IInv'
    OBVIOUS
  <2>1. Typed /\ Phases /\ StoredSoFar /\ Returned
    BY DEF IInv
  <2>2. Typed' /\ Phases' /\ StoredSoFar'
    BY <2>1, StepTyped, StepStored
  <2>3. Returned'
    BY <2>1, StepReturned
  <2> QED
    BY <2>2, <2>3 DEF IInv
<1> QED
  BY <1>1, <1>2, PTL DEF Spec

\* Buffers have bytes, positions and the results of loading have their types.
THEOREM TypeCorrect == Spec => []TypeOK
<1>1. IInv => TypeOK
  <2> SUFFICES ASSUME IInv PROVE TypeOK
    OBVIOUS
  <2>1. /\ buffer \in Seq(Bytes) /\ Len(got) <= Len(Order) /\ pos \in Nat
        /\ status \in {"ok", "defaulted", "thrown", "undefined"}
    BY DEF IInv, Typed
  <2>2. DOMAIN buffer = 1..Len(buffer)
    BY <2>1, LenProperties
  <2>3. \A i \in DOMAIN buffer : buffer[i] \in Bytes
    BY <2>1, <2>2, ElementOfSeq
  <2> QED
    BY <2>1, <2>3 DEF TypeOK
<1> QED
  BY <1>1, InvariantHolds, PTL

\* What an archive keeps comes back as it was stored, whatever the types, the values and the
\* headers are, and nothing is left over.
THEOREM RoundTripHolds == Spec => []RoundTrip
<1>1. IInv => RoundTrip
  <2> SUFFICES ASSUME IInv, phase = "done", cut = 0, AllKept
               PROVE  /\ status = "ok" /\ got = [i \in 1..Len(Order) |-> Order[i].val]
                      /\ IF case.mode = "extract" THEN buffer = << >> ELSE pos = Len(buffer)
    BY DEF RoundTrip
  <2>1. Typed /\ Phases /\ Returned
    BY DEF IInv
  <2>2. /\ status = "ok" /\ \A i \in 1..Len(got) : got[i] = Order[i].val
        /\ pos <= Len(Bits(Len(got))) /\ (Len(buffer) + Passed) + cut = Len(All)
        /\ Len(got) <= Headers \/ case.mode = "extract" => pos = 0
    <3>1. Len(Order) \in Nat /\ Len(got) \in Nat /\ Len(got) <= Len(Order)
      BY <2>1, OrderFacts, LenProperties DEF Typed, IsSequence
    <3>2. Len(Order) \in 0..Len(Order)
      BY <3>1
    <3>3. Len(Bits(Len(Order))) + cut <= Len(All)
      <4>1. Len(All) \in Nat
        BY <2>1, <3>2, BitsFacts, LenProperties DEF All
      <4> QED
        BY <4>1 DEF All
    <3>4. ReturnedTo(Len(Order))
      BY <2>1, <3>2, <3>3 DEF Returned
    <3>5. status = "ok"
      BY <3>1, <3>4 DEF ReturnedTo
    <3>6. \A i \in 1..Len(got) : i <= Len(Order)
      BY <3>1
    <3> QED
      BY <3>1, <3>4, <3>5, <3>6 DEF ReturnedTo
  <2>3. Len(got) = Len(Order) /\ got = [i \in 1..Len(got) |-> got[i]]
    BY <2>1, <2>2 DEF Phases, Typed, IsSequence
  <2>4. got = [i \in 1..Len(Order) |-> Order[i].val]
    BY <2>2, <2>3
  <2>5. Passed = Len(All) - pos
    BY <2>3 DEF Passed, All
  <2>6. /\ Len(buffer) \in Nat /\ pos \in Nat /\ buffer \in Seq(Bytes)
    BY <2>1, LenProperties DEF Typed
  <2>7. Len(All) \in Nat
    <3>1. Len(Order) \in Nat
      BY <2>1, OrderFacts, LenProperties DEF Typed
    <3>2. Len(Order) \in 0..Len(Order)
      BY <3>1
    <3> QED
      BY <2>1, <3>2, BitsFacts, LenProperties DEF All
  <2>8. Len(buffer) = pos
    <3> DEFINE m == Len(buffer)
               n == Len(All)
    <3>1. m \in Nat /\ n \in Nat /\ pos \in Nat /\ (m + (n - pos)) + 0 = n
      BY <2>2, <2>5, <2>6, <2>7
    <3> HIDE DEF m, n
    <3>2. m = pos
      BY <3>1
    <3> QED
      BY <3>2 DEF m
  <2>9. case.mode = "extract" => buffer = << >>
    BY <2>2, <2>6, <2>8, EmptySeq
  <2> QED
    BY <2>2, <2>4, <2>8, <2>9
<1> QED
  BY <1>1, InvariantHolds, PTL

\* Whatever is cut off, the values before it are loaded as they were stored, and a packet that ends
\* just before a value that is tested for gives T() or an ArchiveError.
THEOREM MissingNoticedHolds == Spec => []MissingNoticed
<1>1. IInv => MissingNoticed
  <2> SUFFICES ASSUME IInv, phase = "done", AllKept, NEW k \in 0..Len(Order)
               PROVE  /\ Len(FirstBytes(k)) <= Arrived => Len(got) >= k /\ \A i \in 1..k : got[i] = Order[i].val
                      /\ Len(FirstBytes(k)) = Arrived /\ NextBegins(k)
                           => Len(got) = k /\ status \in {"defaulted", "thrown"}
    BY DEF MissingNoticed
  <2>1. Typed /\ Phases /\ Returned
    BY DEF IInv
  <2>2. \A j : FirstBytes(j) = Bits(j)
    BY DEF FirstBytes, StoreItem, Bits, Pre, Each
  <2>3. /\ Len(Order) \in Nat /\ k \in Nat /\ k <= Len(Order) /\ Len(got) \in Nat /\ Len(got) <= Len(Order)
        /\ cut \in Nat
    <3>1. Len(Order) \in Nat
      BY <2>1, OrderFacts, LenProperties DEF Typed
    <3> QED
      BY <2>1, <3>1 DEF Typed, IsSequence
  <2>4. Len(Bits(k)) \in Nat /\ Len(All) \in Nat
    <3>1. Len(Order) \in 0..Len(Order)
      BY <2>3
    <3> QED
      BY <2>1, <3>1, BitsFacts, LenProperties DEF All
  <2>5. FirstBytes(k) = Bits(k) /\ Arrived = Len(All) - cut
    BY <2>2 DEF Arrived, All
  <2>6. ASSUME Len(Bits(k)) <= Len(All) - cut
        PROVE  ReturnedTo(k) /\ Len(got) >= k /\ \A i \in 1..k : got[i] = Order[i].val
    <3>1. Len(Bits(k)) + cut <= Len(All)
      BY <2>3, <2>4, <2>6
    <3>2. ReturnedTo(k)
      BY <2>1, <3>1 DEF Returned
    <3>3. Len(got) = Len(Order) \/ status # "ok"
      BY <2>1 DEF Phases
    <3>4. Len(got) >= k
      BY <2>3, <3>2, <3>3 DEF ReturnedTo
    <3>5. \A i \in 1..k : i \in 1..Len(got) /\ i <= k
      BY <2>3, <3>4
    <3> QED
      BY <3>2, <3>4, <3>5 DEF ReturnedTo
  <2>7. ASSUME Len(Bits(k)) = Len(All) - cut, NextBegins(k)
        PROVE  Len(got) = k /\ status \in {"defaulted", "thrown"}
    <3>1. Len(Bits(k)) + cut = Len(All) /\ Len(Bits(k)) <= Len(All) - cut
      BY <2>3, <2>4, <2>7
    <3>2. ReturnedTo(k) /\ Len(got) >= k
      BY <2>6, <3>1
    <3>3. Len(got) <= k /\ (status # "ok" => status \in {"defaulted", "thrown"})
      BY <2>7, <3>1, <3>2 DEF ReturnedTo
    <3>4. k < Len(Order)
      BY <2>7 DEF NextBegins
    <3>5. Len(got) = k
      BY <2>3, <3>2, <3>3
    <3>6. status # "ok"
      BY <2>1, <2>3, <3>4, <3>5 DEF Phases
    <3> QED
      BY <3>3, <3>5, <3>6
  <2> QED
    BY <2>5, <2>6, <2>7
<1> QED
  BY <1>1, InvariantHolds, PTL
=============================================================================
