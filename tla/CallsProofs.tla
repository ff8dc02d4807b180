---------------------------- MODULE CallsProofs ----------------------------
(***************************************************************************)
(* Proofs about the calls of Calls, for every image, command line, memory  *)
(* and number: read_data, execute's parser with getargs, the memory        *)
(* functions and printf.                                                   *)
(***************************************************************************)
EXTENDS Calls, WellFoundedInduction, TLAPS

(***************************************************************************)
(* Division.                                                               *)
(***************************************************************************)
\* A quotient and a remainder are the quotient and the remainder.
LEMMA Division ==
  ASSUME NEW a \in Nat, NEW n \in Nat \ {0}
  PROVE  /\ a \div n \in Nat /\ a % n \in 0 .. n-1
         /\ a = (a \div n) * n + (a % n)
OBVIOUS

LEMMA DivisionIs ==
  ASSUME NEW a \in Nat, NEW n \in Nat \ {0}, NEW k \in Nat, NEW r \in 0 .. n-1, a = k * n + r
  PROVE  a \div n = k /\ a % n = r
<1> DEFINE q == a \div n
           s == a % n
<1>1. q \in Nat /\ s \in 0 .. n-1 /\ a = q * n + s
  BY Division
<1> HIDE DEF q, s
<1>2. ~(q > k)
  <2> SUFFICES ASSUME q > k PROVE FALSE
    OBVIOUS
  <2>1. q * n >= (k + 1) * n
    BY <1>1
  <2>2. QED
    BY <1>1, <2>1
<1>3. ~(q < k)
  <2> SUFFICES ASSUME q < k PROVE FALSE
    OBVIOUS
  <2>1. k * n >= (q + 1) * n
    BY <1>1
  <2>2. QED
    BY <1>1, <2>1
<1>4. q = k
  BY <1>1, <1>2, <1>3
<1>5. s = r
  BY <1>1, <1>4
<1>6. QED
  BY <1>4, <1>5 DEF q, s

LEMMA SmallRemainder ==
  ASSUME NEW a \in Nat, NEW n \in Nat \ {0}, a < n
  PROVE  a % n = a
OBVIOUS

\* A set of natural numbers has a least one.
LEMMA Least ==
  ASSUME NEW T \in SUBSET Nat, T # {}
  PROVE  \E x \in T : \A y \in T : x <= y
<1> DEFINE R == OpToRel(<, Nat)
<1>1. IsWellFoundedOn(R, Nat)
  BY NatLessThanWellFounded
<1>2. \A x, y \in Nat : <<x, y>> \in R <=> x < y
  BY DEF OpToRel
<1> HIDE DEF R
<1>3. PICK x \in T : \A y \in T : ~(<<y, x>> \in R)
  BY <1>1, WFMin
<1>4. ASSUME NEW y \in T PROVE x <= y
  <2>1. x \in Nat /\ y \in Nat /\ ~(<<y, x>> \in R)
    BY <1>3
  <2>2. ~(y < x)
    BY <1>2, <2>1
  <2>3. QED
    BY <2>1, <2>2
<1>5. QED
  BY <1>4

(***************************************************************************)
(* read_data.                                                              *)
(***************************************************************************)
\* Byte number k of a file, counted from 0.
ByteAt(inode, k) == <<Block[inode][k \div BlockSize], k % BlockSize>>

\* The n bytes of a file from offset on.
Bytes(inode, offset, n) == [i \in 1 .. n |-> ByteAt(inode, offset + i - 1)]

\* s are these bytes.
Part(s, inode, offset, n) ==
  /\ s \in Seq(Nat \X Nat)
  /\ Len(s) = n
  /\ \A i \in 1 .. n : s[i] = ByteAt(inode, offset + i - 1)

\* How many of length bytes there are from offset on.
Available(inode, offset, length) ==
  IF length < Size[inode] - offset THEN length ELSE Size[inode] - offset

LEMMA SizeFacts ==
  ASSUME NEW inode \in DOMAIN Size
  PROVE  /\ BlockSize \in Nat \ {0} /\ MaxBlocks \in Nat /\ MaxFileSize \in Nat
         /\ MaxFileSize = MaxBlocks * BlockSize
         /\ Size[inode] \in 0 .. MaxFileSize
         /\ Word \in Nat \ {0} /\ Word > 2 * MaxFileSize
         /\ inode \in 0 .. NumInodes /\ NumInodes \in Nat
<1>1. /\ BlockSize \in Nat \ {0} /\ MaxBlocks \in Nat /\ Word \in Nat /\ Word > 2 * MaxFileSize
      /\ Size[inode] \in 0 .. MaxFileSize
      /\ inode \in 0 .. NumInodes /\ NumInodes \in Nat
  BY ImageAssumption
<1>2. MaxFileSize = MaxBlocks * BlockSize /\ MaxFileSize \in Nat
  BY <1>1 DEF MaxFileSize
<1>3. QED
  BY <1>1, <1>2

\* The bytes of a file are pairs of a block and a place.
LEMMA BytesArePart ==
  ASSUME NEW inode \in DOMAIN Size, NEW offset \in Nat, NEW n \in Nat,
         offset + n <= MaxFileSize
  PROVE  Part(Bytes(inode, offset, n), inode, offset, n)
<1> DEFINE s == Bytes(inode, offset, n)
           e(i) == ByteAt(inode, offset + i - 1)
<1>1. BlockSize \in Nat \ {0} /\ MaxBlocks \in Nat /\ MaxFileSize = MaxBlocks * BlockSize
  BY SizeFacts
<1>2. ASSUME NEW i \in 1 .. n PROVE e(i) \in Nat \X Nat
  <2> DEFINE k == offset + i - 1
             q == k \div BlockSize
             r == k % BlockSize
  <2>1. k \in Nat /\ k < MaxBlocks * BlockSize
    BY <1>1
  <2>2. q \in Nat /\ r \in 0 .. BlockSize - 1 /\ k = q * BlockSize + r
    BY <1>1, <2>1, Division
  <2> HIDE DEF k, q, r
  <2>3. q < MaxBlocks
    <3> SUFFICES ASSUME q >= MaxBlocks PROVE FALSE
      BY <1>1, <2>2
    <3>1. q * BlockSize >= MaxBlocks * BlockSize
      BY <1>1, <2>2
    <3>2. QED
      BY <1>1, <2>1, <2>2, <3>1
  <2>4. Block[inode][q] \in Nat
    BY <1>1, <2>2, <2>3, ImageAssumption
  <2>5. e(i) = <<Block[inode][q], r>>
    BY DEF ByteAt, k, q, r
  <2>6. QED
    BY <2>2, <2>4, <2>5
<1>3. s = [i \in 1 .. n |-> e(i)]
  BY DEF Bytes
<1> HIDE DEF s, e
<1>4. s \in Seq(Nat \X Nat) /\ Len(s) = n
  BY <1>2, <1>3
<1>5. \A i \in 1 .. n : s[i] = e(i)
  BY <1>3
<1>6. QED
  BY <1>4, <1>5 DEF Part, s, e

\* The tests on the length, in unsigned arithmetic, come down to one minimum.
LEMMA ClampIs ==
  ASSUME NEW inode \in DOMAIN Size, NEW offset \in Nat, NEW length \in Nat,
         offset <= Size[inode]
  PROVE  Clamp(inode, offset, length) = Available(inode, offset, length)
<1> DEFINE M   == MaxFileSize
           cut == IF length > M THEN (M - offset) % Word ELSE length
<1>1. M \in Nat /\ Word \in Nat \ {0} /\ Word > 2 * M /\ Size[inode] \in 0 .. M
  BY SizeFacts
<1>2. cut = IF length > M THEN M - offset ELSE length
  <2>1. M - offset \in Nat /\ M - offset < Word
    BY <1>1
  <2>2. (M - offset) % Word = M - offset
    BY <1>1, <2>1, SmallRemainder
  <2>3. QED
    BY <2>2
<1> HIDE DEF M, cut
<1>3. (offset + cut) % Word = offset + cut
  <2>1. offset + cut \in Nat /\ offset + cut < Word
    BY <1>1, <1>2
  <2>2. QED
    BY <1>1, <2>1, SmallRemainder
<1>4. Clamp(inode, offset, length) =
        LET len == IF offset + cut > M THEN M - offset ELSE cut
            fit == IF Size[inode] < len THEN Size[inode] - offset ELSE len
        IN IF Size[inode] < offset + fit THEN Size[inode] - offset ELSE fit
  BY <1>3 DEF Clamp, M, cut
<1>5. QED
  BY <1>1, <1>2, <1>4 DEF Available

\* A block that is copied is one of the file's.
LEMMA CopyFromIs ==
  ASSUME NEW inode \in DOMAIN Size, NEW j \in Nat, NEW k \in Nat, NEW n \in Nat,
         k + n <= BlockSize, n > 0 => j < MaxBlocks
  PROVE  Part(CopyFrom(inode, j, k, n), inode, j * BlockSize + k, n)
<1> DEFINE b == IF j < MaxBlocks THEN Block[inode][j] ELSE 0
           c == CopyFrom(inode, j, k, n)
           e(i) == <<b, k + i - 1>>
<1>1. c = [i \in 1 .. n |-> e(i)]
  BY DEF CopyFrom
<1>2. BlockSize \in Nat \ {0} /\ MaxBlocks \in Nat /\ b \in Nat
  BY ImageAssumption
<1>3. \A i \in 1 .. n : e(i) \in Nat \X Nat
  BY <1>2
<1> HIDE DEF b, c, e
<1>4. c \in Seq(Nat \X Nat) /\ Len(c) = n
  BY <1>1, <1>3
<1>5. ASSUME NEW i \in 1 .. n
      PROVE  c[i] = ByteAt(inode, j * BlockSize + k + i - 1)
  <2>1. c[i] = <<b, k + i - 1>>
    BY <1>1 DEF e
  <2>2. /\ j * BlockSize + k + i - 1 \in Nat
        /\ k + i - 1 \in 0 .. BlockSize - 1
        /\ j * BlockSize + k + i - 1 = j * BlockSize + (k + i - 1)
    BY <1>2
  <2>3. /\ (j * BlockSize + k + i - 1) \div BlockSize = j
        /\ (j * BlockSize + k + i - 1) % BlockSize = k + i - 1
    BY <1>2, <2>2, DivisionIs
  <2>4. b = Block[inode][j]
    BY DEF b
  <2>5. QED
    BY <2>1, <2>3, <2>4 DEF ByteAt
<1>6. QED
  BY <1>4, <1>5 DEF c, Part

\* So are the whole blocks in between.
LEMMA CopyBlocksIs ==
  ASSUME NEW inode \in DOMAIN Size, NEW j \in Nat, NEW n \in Nat, j + n <= MaxBlocks
  PROVE  Part(CopyBlocks(inode, j, n), inode, j * BlockSize, n * BlockSize)
<1> DEFINE c == CopyBlocks(inode, j, n)
           e(i) == <<Block[inode][j + (i-1) \div BlockSize], (i-1) % BlockSize>>
<1>1. BlockSize \in Nat \ {0} /\ MaxBlocks \in Nat /\ n * BlockSize \in Nat
  BY ImageAssumption
<1>2. ASSUME NEW i \in 1 .. n * BlockSize
      PROVE  e(i) \in Nat \X Nat /\ e(i) = ByteAt(inode, j * BlockSize + i - 1)
  <2> DEFINE q == (i-1) \div BlockSize
             r == (i-1) % BlockSize
  <2>1. q \in Nat /\ r \in 0 .. BlockSize - 1 /\ i - 1 = q * BlockSize + r
    <3>1. i - 1 \in Nat
      BY <1>1
    <3>2. QED
      BY <1>1, <3>1, Division
  <2> HIDE DEF q, r
  <2>2. q < n
    <3> SUFFICES ASSUME q >= n PROVE FALSE
      BY <2>1
    <3>1. q * BlockSize >= n * BlockSize
      BY <1>1, <2>1
    <3>2. QED
      BY <1>1, <2>1, <3>1
  <2>3. /\ j + q \in Nat /\ j * BlockSize + i - 1 \in Nat
        /\ j * BlockSize + i - 1 = (j + q) * BlockSize + r
    BY <1>1, <2>1
  <2>4. /\ (j * BlockSize + i - 1) \div BlockSize = j + q
        /\ (j * BlockSize + i - 1) % BlockSize = r
    BY <1>1, <2>1, <2>3, DivisionIs
  <2>5. j + q \in 0 .. MaxBlocks-1
    BY <1>1, <2>1, <2>2
  <2>6. Block[inode][j + q] \in Nat
    BY <2>5, ImageAssumption
  <2>7. e(i) = <<Block[inode][j + q], r>>
    BY DEF q, r
  <2>8. QED
    BY <2>1, <2>4, <2>6, <2>7 DEF ByteAt
<1>3. c = [i \in 1 .. n * BlockSize |-> e(i)]
  BY DEF CopyBlocks
<1> HIDE DEF c, e
<1>4. c \in Seq(Nat \X Nat) /\ Len(c) = n * BlockSize
  BY <1>1, <1>2, <1>3
<1>5. QED
  BY <1>2, <1>3, <1>4 DEF c, Part

\* Bytes of a file and those that follow them.
LEMMA Joined ==
  ASSUME NEW inode, NEW o \in Nat, NEW n \in Nat, NEW m \in Nat, NEW s, NEW t,
         Part(s, inode, o, n), Part(t, inode, o + n, m)
  PROVE  Part(s \o t, inode, o, n + m)
<1> DEFINE S == Nat \X Nat
<1>1. s \in Seq(S) /\ Len(s) = n /\ t \in Seq(S) /\ Len(t) = m
  BY DEF Part
<1> HIDE DEF S
<1>2. /\ s \o t \in Seq(S) /\ Len(s \o t) = n + m
      /\ \A i \in 1 .. n + m : (s \o t)[i] = IF i <= n THEN s[i] ELSE t[i - n]
  BY <1>1
<1>3. ASSUME NEW i \in 1 .. n + m
      PROVE  (s \o t)[i] = ByteAt(inode, o + i - 1)
  <2>1. CASE i <= n
    BY <1>2, <2>1 DEF Part
  <2>2. CASE ~(i <= n)
    <3>1. i - n \in 1 .. m /\ o + n + (i - n) - 1 = o + i - 1
      BY <2>2
    <3>2. t[i - n] = ByteAt(inode, o + n + (i - n) - 1)
      BY <3>1 DEF Part
    <3>3. QED
      BY <1>2, <2>2, <3>1, <3>2
  <2>3. QED
    BY <2>1, <2>2
<1>4. QED
  BY <1>2, <1>3 DEF Part, S

\* What is copied, in one piece or in several, are the bytes asked for.
LEMMA CopiedIs ==
  ASSUME NEW inode \in DOMAIN Size, NEW offset \in Nat, NEW len \in Nat,
         offset + len <= MaxFileSize
  PROVE  Copied(inode, offset, len) = Bytes(inode, offset, len)
<1> DEFINE B     == BlockSize
           first == offset \div B
           last  == (offset + len) \div B
           pos   == offset % B
           rest  == (offset + len) % B
           mid   == last - first - 1
           c     == Copied(inode, offset, len)
<1>1. B \in Nat \ {0} /\ MaxBlocks \in Nat /\ offset + len <= MaxBlocks * B
  BY ImageAssumption DEF MaxFileSize
<1>2. first \in Nat /\ pos \in 0 .. B-1 /\ offset = first * B + pos
  BY <1>1, Division
<1>3. last \in Nat /\ rest \in 0 .. B-1 /\ offset + len = last * B + rest
  <2>1. offset + len \in Nat
    OBVIOUS
  <2>2. QED
    BY <1>1, <2>1, Division
<1>4. c = IF first = last THEN CopyFrom(inode, first, pos, len)
          ELSE CopyFrom(inode, first, pos, B - pos) \o CopyBlocks(inode, first + 1, mid)
               \o CopyFrom(inode, last, 0, len - (B - pos) - mid * B)
  BY DEF Copied
<1> HIDE DEF B, first, last, pos, rest, c
<1>5. first <= last
  <2> SUFFICES ASSUME first >= last + 1 PROVE FALSE
    BY <1>2, <1>3
  <2>1. first * B >= (last + 1) * B
    BY <1>1, <1>2, <1>3
  <2>2. QED
    BY <1>1, <1>2, <1>3, <2>1
<1>6. last <= MaxBlocks /\ (rest > 0 => last < MaxBlocks)
  <2>1. ASSUME last >= MaxBlocks + 1 PROVE FALSE
    <3>1. last * B >= (MaxBlocks + 1) * B
      BY <1>1, <1>3, <2>1
    <3>2. QED
      BY <1>1, <1>3, <3>1
  <2>2. ASSUME rest > 0, last = MaxBlocks PROVE FALSE
    BY <1>1, <1>3, <2>2
  <2>3. QED
    BY <1>1, <1>3, <2>1, <2>2
<1>7. ASSUME first = last PROVE Part(c, inode, offset, len)
  <2>1. pos + len = rest
    BY <1>1, <1>2, <1>3, <1>7
  <2>2. pos \in Nat /\ pos + len <= BlockSize /\ (len > 0 => first < MaxBlocks)
    BY <1>1, <1>2, <1>3, <1>6, <1>7, <2>1 DEF B
  <2>3. Part(CopyFrom(inode, first, pos, len), inode, first * BlockSize + pos, len)
    BY <1>2, <2>2, CopyFromIs
  <2>4. QED
    BY <1>2, <1>4, <1>7, <2>3 DEF B
<1>8. ASSUME first # last PROVE Part(c, inode, offset, len)
  <2> DEFINE a == B - pos
             m == mid * B
  <2>1. mid \in Nat /\ first < last /\ first + 1 + mid = last
    BY <1>2, <1>3, <1>5, <1>8
  <2>2. m \in Nat /\ m = last * B - first * B - B
    BY <1>1, <1>2, <1>3, <2>1
  <2>3. a \in Nat /\ len - a - m = rest /\ a + m + rest = len
    BY <1>1, <1>2, <1>3, <2>2
  <2>4. /\ offset + a = (first + 1) * B
        /\ offset + (a + m) = last * B
    BY <1>1, <1>2, <1>3, <2>2
  <2> HIDE DEF a, m, mid
  <2>5. Part(CopyFrom(inode, first, pos, a), inode, offset, a)
    <3>1. pos \in Nat /\ pos + a <= BlockSize /\ first < MaxBlocks
      BY <1>1, <1>2, <1>3, <1>6, <2>1 DEF B, a
    <3>2. Part(CopyFrom(inode, first, pos, a), inode, first * BlockSize + pos, a)
      BY <1>2, <2>3, <3>1, CopyFromIs
    <3>3. QED
      BY <1>2, <3>2 DEF B
  <2>6. Part(CopyBlocks(inode, first + 1, mid), inode, offset + a, m)
    <3>1. first + 1 \in Nat /\ first + 1 + mid <= MaxBlocks
      BY <1>2, <1>6, <2>1
    <3>2. Part(CopyBlocks(inode, first + 1, mid), inode, (first + 1) * BlockSize, mid * BlockSize)
      BY <2>1, <3>1, CopyBlocksIs
    <3>3. QED
      BY <2>4, <3>2 DEF B, m
  <2>7. Part(CopyFrom(inode, last, 0, rest), inode, offset + (a + m), rest)
    <3>1. rest \in Nat /\ 0 + rest <= BlockSize
      BY <1>1, <1>3 DEF B
    <3>2. Part(CopyFrom(inode, last, 0, rest), inode, last * BlockSize + 0, rest)
      BY <1>3, <1>6, <3>1, CopyFromIs
    <3>3. last * BlockSize + 0 = offset + (a + m)
      BY <1>1, <1>3, <2>4 DEF B
    <3>4. QED
      BY <3>2, <3>3
  <2>8. Part(CopyFrom(inode, first, pos, a) \o CopyBlocks(inode, first + 1, mid), inode, offset, a + m)
    BY <2>2, <2>3, <2>5, <2>6, Joined
  <2>9. Part(CopyFrom(inode, first, pos, a) \o CopyBlocks(inode, first + 1, mid)
               \o CopyFrom(inode, last, 0, rest), inode, offset, a + m + rest)
    <3>1. a + m \in Nat /\ rest \in Nat
      BY <1>3, <2>2, <2>3
    <3>2. QED
      BY <2>7, <2>8, <3>1, Joined
  <2>10. c = CopyFrom(inode, first, pos, a) \o CopyBlocks(inode, first + 1, mid)
               \o CopyFrom(inode, last, 0, rest)
    <3>1. len - (B - pos) - mid * B = rest
      BY <2>3 DEF a, m
    <3>2. QED
      BY <1>4, <1>8, <3>1 DEF a, mid
  <2>11. QED
    BY <2>3, <2>9, <2>10
<1>9. Part(c, inode, offset, len)
  BY <1>7, <1>8
<1>10. QED
  BY <1>9 DEF Part, Bytes, c

\* read_data returns the bytes of the file from offset on, as many as were asked for
\* or as there are, across any number of blocks; it fails for no bytes and for an
\* offset past the end.  This is ReadsFileBytes for every image.
THEOREM ReadDataIsRight ==
  ASSUME NEW inode \in DOMAIN Size, NEW offset \in Nat, NEW length \in Nat
  PROVE  read_data(inode, offset, length) =
           IF length = 0 \/ offset > Size[inode] THEN [ret |-> Fail, bytes |-> <<>>]
           ELSE LET n == Available(inode, offset, length)
                IN [ret |-> n, bytes |-> Bytes(inode, offset, n)]
<1> DEFINE n == Available(inode, offset, length)
<1>1. /\ inode \in 0 .. NumInodes /\ NumInodes \in Nat
      /\ MaxFileSize \in Nat /\ Size[inode] \in 0 .. MaxFileSize
  BY SizeFacts
<1>2. ReadFails(inode, offset, length) <=> length = 0 \/ offset > Size[inode]
  BY <1>1 DEF ReadFails
<1>3. CASE length = 0 \/ offset > Size[inode]
  BY <1>2, <1>3 DEF read_data
<1>4. CASE ~(length = 0 \/ offset > Size[inode])
  <2>1. Clamp(inode, offset, length) = n
    BY <1>1, <1>4, ClampIs
  <2>2. n \in Nat /\ offset + n <= MaxFileSize
    BY <1>1, <1>4 DEF Available
  <2>3. Copied(inode, offset, n) = Bytes(inode, offset, n)
    BY <2>2, CopiedIs
  <2>4. QED
    BY <1>2, <1>4, <2>1, <2>3 DEF read_data
<1>5. QED
  BY <1>3, <1>4

(***************************************************************************)
(* The calls, one per behaviour: what the variables hold after a call.     *)
(***************************************************************************)
\* A memory function was called, within memory.
MemoryDone(op, d, s, n) ==
  /\ d \in 0 .. MemSize /\ s \in 0 .. MemSize /\ n \in 0 .. MemSize
  /\ Fits(d, n) /\ Fits(s, n)
  /\ op = "set" => memory = memset(Memory, d, Filler, n)
  /\ op = "cpy" => Apart(d, s, n) /\ memory = memcpy(Memory, d, s, n)
  /\ op = "move" => memory = memmove(Memory, d, s, n)

\* The call that was made, with what it returned or stored.
CallDone ==
  /\ request.op = "data" =>
       /\ request.inode \in DOMAIN Size /\ request.offset \in Nat /\ request.length \in Nat
       /\ answer = read_data(request.inode, request.offset, request.length)
  /\ request.op \in {"execute", "getargs"} =>
       request.name \in Lines /\ kept = Parse(request.name)
  /\ request.op = "getargs" =>
       kept.entry # NoEntry /\ request.length \in Int /\ answer = getargs(kept, request.length)
  /\ request.op \in {"set", "cpy", "move"} =>
       MemoryDone(request.op, request.inode, request.offset, request.length)
  /\ request.op = "printf" =>
       /\ request.name \in Formats /\ request.length \in 0 .. Wide-1
       /\ printed = printf(<<"a">> \o request.name \o <<"b", "%", "%">>, <<request.length>>)

LEMMA RequestFields ==
  ASSUME NEW o, NEW i, NEW f, NEW n, NEW m
  PROVE  /\ LET r == [NoCall EXCEPT !.op = o, !.inode = i, !.offset = f, !.length = n]
            IN r.op = o /\ r.inode = i /\ r.offset = f /\ r.length = n
         /\ LET r == [NoCall EXCEPT !.op = o, !.name = m]
            IN r.op = o /\ r.name = m
         /\ LET r == [NoCall EXCEPT !.op = o, !.name = m, !.length = n]
            IN r.op = o /\ r.length = n /\ r.name = m
BY DEF NoCall

LEMMA CallsAreDone == CallsSpec => []CallDone
<1>1. CallsInit => CallDone
  BY DEF CallsInit, NoCall, CallDone
<1>2. CallDone /\ [CallsNext]_callvars => CallDone'
  <2> SUFFICES ASSUME CallDone, [CallsNext]_callvars PROVE CallDone'
    OBVIOUS
  <2>1. CASE CallReadData
    <3>1. PICK i \in DOMAIN Size, o \in 0..Word-1, n \in 0..Word-1 :
             /\ request' = [NoCall EXCEPT !.op = "data", !.inode = i, !.offset = o, !.length = n]
             /\ answer' = read_data(i, o, n)
      BY <2>1 DEF CallReadData
    <3>2. /\ request.op' = "data" /\ request.inode' = i
          /\ request.offset' = o /\ request.length' = n
      BY <3>1, RequestFields
    <3>3. o \in Nat /\ n \in Nat
      BY ImageAssumption
    <3>4. QED
      BY <3>1, <3>2, <3>3 DEF CallDone
  <2>2. CASE CallExecute
    <3>1. PICK command \in Lines :
             /\ request' = [NoCall EXCEPT !.op = "execute", !.name = command]
             /\ kept' = Parse(command)
      BY <2>2 DEF CallExecute
    <3>2. request.op' = "execute" /\ request.name' = command
      BY <3>1, RequestFields
    <3>3. QED
      BY <3>1, <3>2 DEF CallDone
  <2>3. CASE CallGetargs
    BY <2>3, BufferAssumption DEF CallGetargs, CallDone
  <2>4. CASE CallMemory
    <3>1. PICK op \in {"set", "cpy", "move"}, d \in 0..MemSize, s \in 0..MemSize, n \in 0..MemSize :
             /\ request' = [NoCall EXCEPT !.op = op, !.inode = d, !.offset = s, !.length = n]
             /\ Fits(d, n) /\ Fits(s, n) /\ (op = "cpy" => Apart(d, s, n))
             /\ memory' = MemoryAfter(op, d, s, n)
      BY <2>4 DEF CallMemory
    <3>2. /\ request.op' = op /\ request.inode' = d
          /\ request.offset' = s /\ request.length' = n
      BY <3>1, RequestFields
    <3>3. MemoryDone(op, d, s, n)'
      <4>1. op = "set" => memory' = memset(Memory, d, Filler, n)
        BY <3>1 DEF MemoryAfter
      <4>2. op = "cpy" => memory' = memcpy(Memory, d, s, n)
        BY <3>1 DEF MemoryAfter
      <4>3. op = "move" => memory' = memmove(Memory, d, s, n)
        BY <3>1 DEF MemoryAfter
      <4>4. QED
        BY <3>1, <4>1, <4>2, <4>3 DEF MemoryDone
    <3>4. QED
      BY <3>2, <3>3 DEF CallDone
  <2>5. CASE CallPrintf
    <3>1. PICK f \in Formats, v \in 0..Wide-1 :
             /\ request' = [NoCall EXCEPT !.op = "printf", !.name = f, !.length = v]
             /\ printed' = printf(<<"a">> \o f \o <<"b", "%", "%">>, <<v>>)
      BY <2>5 DEF CallPrintf
    <3>2. request.op' = "printf" /\ request.name' = f /\ request.length' = v
      BY <3>1, RequestFields
    <3>3. QED
      BY <3>1, <3>2 DEF CallDone
  <2>6. CASE UNCHANGED callvars
    BY <2>6 DEF CallDone, MemoryDone, callvars
  <2>7. QED
    BY <2>1, <2>2, <2>3, <2>4, <2>5, <2>6 DEF CallsNext
<1>3. QED
  BY <1>1, <1>2, PTL DEF CallsSpec

(***************************************************************************)
(* read_data.                                                              *)
(***************************************************************************)
LEMMA SliceIs ==
  ASSUME NEW inode \in DOMAIN Size, NEW offset \in Nat, NEW length \in Nat,
         offset <= Size[inode]
  PROVE  LET n == Available(inode, offset, length)
         IN Slice(inode, offset, length) = Bytes(inode, offset, n) /\ Len(Bytes(inode, offset, n)) = n
<1> DEFINE n == Available(inode, offset, length)
           z == Size[inode]
           w == WholeFile(inode)
           b == IF offset + length < z THEN offset + length ELSE z
<1>1. z \in Nat /\ MaxFileSize \in Nat /\ z <= MaxFileSize
  BY SizeFacts
<1>2. n \in Nat /\ b = offset + n /\ b <= z
  BY <1>1 DEF Available
<1>3. w = [k \in 1..z |-> ByteAt(inode, k - 1)]
  BY DEF WholeFile, ByteAt
<1>4. Slice(inode, offset, length) = SubSeq(w, offset + 1, offset + n)
  BY <1>2 DEF Slice
<1>5. Bytes(inode, 0, z) = w
  <2>1. Bytes(inode, 0, z) = [i \in 1..z |-> ByteAt(inode, 0 + i - 1)]
    BY DEF Bytes
  <2>2. \A i \in 1..z : 0 + i - 1 = i - 1
    BY <1>1
  <2>3. QED
    BY <1>3, <2>1, <2>2
<1>6. w \in Seq(Nat \X Nat) /\ Len(w) = z
  BY <1>1, <1>5, BytesArePart DEF Part
<1>7. Part(Bytes(inode, offset, n), inode, offset, n)
  BY <1>1, <1>2, BytesArePart
<1> HIDE DEF n, z, w, b
<1>8. SubSeq(w, offset + 1, offset + n) = [i \in 1 .. n |-> w[offset + i]]
  BY <1>1, <1>2, <1>6
<1>9. \A i \in 1 .. n : w[offset + i] = ByteAt(inode, offset + i - 1)
  BY <1>1, <1>2, <1>3
<1>10. SubSeq(w, offset + 1, offset + n) = Bytes(inode, offset, n)
  BY <1>8, <1>9 DEF Bytes
<1>11. QED
  BY <1>4, <1>7, <1>10 DEF Part, n

\* read_data returns the bytes of the file from offset on, as many as were asked
\* for or as there are, and fails for no bytes and past the end (filesystem.c:273).
THEOREM ReadsFileBytesAlways == CallsSpec => []ReadsFileBytes
<1>1. CallDone => ReadsFileBytes
  <2> SUFFICES ASSUME CallDone, request.op = "data" PROVE ReadsFileBytes
    BY DEF ReadsFileBytes
  <2> DEFINE i == request.inode
             o == request.offset
             l == request.length
             n == Available(i, o, l)
  <2>1. i \in DOMAIN Size /\ o \in Nat /\ l \in Nat /\ answer = read_data(i, o, l)
    BY DEF CallDone
  <2>2. answer = IF l = 0 \/ o > Size[i] THEN [ret |-> Fail, bytes |-> <<>>]
                 ELSE [ret |-> n, bytes |-> Bytes(i, o, n)]
    BY <2>1, ReadDataIsRight
  <2>3. Size[i] \in Nat
    BY <2>1, SizeFacts
  <2>4. CASE l = 0 \/ o > Size[i]
    BY <2>2, <2>4 DEF ReadsFileBytes, NoData
  <2>5. CASE ~(l = 0 \/ o > Size[i])
    <3>1. Slice(i, o, l) = Bytes(i, o, n) /\ Len(Bytes(i, o, n)) = n
      BY <2>1, <2>3, <2>5, SliceIs
    <3>2. QED
      BY <2>2, <2>5, <3>1 DEF ReadsFileBytes
  <2>6. QED
    BY <2>4, <2>5
<1>2. QED
  BY <1>1, CallsAreDone, PTL

(***************************************************************************)
(* The command line.                                                       *)
(***************************************************************************)
LEMMA UntilIs ==
  ASSUME NEW s \in Seq(STRING), NEW stops, NEW n \in 0 .. Len(s),
         \A j \in 1 .. n : s[j] \notin stops,
         n = Len(s) \/ s[n + 1] \in stops
  PROVE  Until(s, stops) = n
<1> DEFINE ends == {i \in DOMAIN s : s[i] \in stops} \cup {Len(s) + 1}
<1>1. n + 1 \in ends /\ \A j \in ends : j \in Int /\ n + 1 <= j
  OBVIOUS
<1> HIDE DEF ends
<1>2. \A i \in ends : (\A j \in ends : i <= j) => i = n + 1
  BY <1>1
<1>3. (CHOOSE i \in ends : \A j \in ends : i <= j) = n + 1
  BY <1>1, <1>2, Zenon
<1>4. QED
  BY <1>3 DEF Until, ends

LEMMA TrimmedIs ==
  ASSUME NEW s \in Seq(STRING), NEW n \in 1 .. Len(s), s[n] # Space,
         \A j \in 1 .. n - 1 : s[j] = Space
  PROVE  Trimmed(s) = SubSeq(s, n, Len(s))
<1> DEFINE rest == {i \in DOMAIN s : s[i] # Space}
<1>1. n \in rest /\ \A j \in rest : j \in Int /\ n <= j
  OBVIOUS
<1> HIDE DEF rest
<1>2. \A i \in rest : (\A j \in rest : i <= j) => i = n
  BY <1>1
<1>3. (CHOOSE i \in rest : \A j \in rest : i <= j) = n
  BY <1>1, <1>2, Zenon
<1>4. QED
  BY <1>1, <1>3 DEF Trimmed, rest

\* A part of a sequence.
LEMMA SubSeqIs ==
  ASSUME NEW s \in Seq(STRING), NEW a \in 1 .. Len(s) + 1, NEW b \in a - 1 .. Len(s)
  PROVE  /\ SubSeq(s, a, b) \in Seq(STRING) /\ Len(SubSeq(s, a, b)) = b - a + 1
         /\ \A j \in 1 .. b - a + 1 : SubSeq(s, a, b)[j] = s[a + j - 1]
OBVIOUS

\* A part of a part.
LEMMA SubSubSeq ==
  ASSUME NEW s \in Seq(STRING), NEW a \in 1 .. Len(s) + 1, NEW b \in a - 1 .. Len(s),
         NEW c \in 1 .. b - a + 2, NEW d \in c - 1 .. b - a + 1
  PROVE  SubSeq(SubSeq(s, a, b), c, d) = SubSeq(s, a + c - 1, a + d - 1)
<1> DEFINE t == SubSeq(s, a, b)
           u == SubSeq(t, c, d)
           v == SubSeq(s, a + c - 1, a + d - 1)
<1>1. /\ t \in Seq(STRING) /\ Len(t) = b - a + 1
      /\ \A j \in 1 .. b - a + 1 : t[j] = s[a + j - 1]
  BY SubSeqIs
<1> HIDE DEF t
<1>2. /\ u \in Seq(STRING) /\ Len(u) = d - c + 1
      /\ \A j \in 1 .. d - c + 1 : u[j] = t[c + j - 1]
  BY <1>1, SubSeqIs
<1>3. /\ v \in Seq(STRING) /\ Len(v) = d - c + 1
      /\ \A j \in 1 .. d - c + 1 : v[j] = s[a + c - 1 + j - 1]
  <2>1. /\ a + c - 1 \in 1 .. Len(s) + 1 /\ a + d - 1 \in (a + c - 1) - 1 .. Len(s)
        /\ (a + d - 1) - (a + c - 1) + 1 = d - c + 1
    OBVIOUS
  <2>2. QED
    BY <2>1, SubSeqIs
<1> HIDE DEF u, v
<1>4. ASSUME NEW j \in 1 .. d - c + 1 PROVE u[j] = v[j]
  <2>1. c + j - 1 \in 1 .. b - a + 1 /\ a + (c + j - 1) - 1 = a + c - 1 + j - 1
    OBVIOUS
  <2>2. u[j] = s[a + (c + j - 1) - 1]
    BY <1>1, <1>2, <2>1
  <2>3. QED
    BY <1>3, <2>1, <2>2
<1>5. QED
  BY <1>2, <1>3, <1>4 DEF t, u, v

\* The first k characters of command are its line; of these the first n are spaces
\* and those up to i are a word.
Split(command, k, n, i) ==
  /\ n < i /\ i <= k
  /\ \A j \in 1 .. k : command[j] # End
  /\ k = Len(command) \/ command[k + 1] = End
  /\ \A j \in 1 .. n : command[j] = Space
  /\ \A j \in n + 1 .. i : command[j] # Space
  /\ i = k \/ command[i + 1] = Space

LEMMA SplitIs ==
  ASSUME NEW command \in Seq(STRING), NEW k \in 0 .. Len(command), NEW n \in 0 .. k, NEW i \in 0 .. k,
         IsLineOf(SubSeq(command, 1, k), command),
         IsSplit(SubSeq(command, 1, k), n, SubSeq(SubSeq(command, 1, k), n + 1, i),
                 SubSeq(SubSeq(command, 1, k), i + 1, k))
  PROVE  Split(command, k, n, i)
<1> DEFINE line == SubSeq(command, 1, k)
           word == SubSeq(line, n + 1, i)
           rest == SubSeq(line, i + 1, k)
<1>1. /\ line \in Seq(STRING) /\ Len(line) = k
      /\ \A j \in 1 .. k : line[j] = command[j]
  BY SubSeqIs
<1>2. IsLineOf(line, command) /\ IsSplit(line, n, word, rest)
  OBVIOUS
<1> HIDE DEF line
<1>3. n < i
  <2> SUFFICES ASSUME i <= n PROVE FALSE
    OBVIOUS
  <2>1. word = <<>>
    BY <1>1
  <2>2. QED
    BY <1>2, <2>1 DEF IsSplit
<1>4. /\ word \in Seq(STRING) /\ Len(word) = i - n
      /\ \A j \in 1 .. i - n : word[j] = line[n + j]
  <2>1. n + 1 \in 1 .. Len(line) + 1 /\ i \in (n + 1) - 1 .. Len(line) /\ i - (n + 1) + 1 = i - n
    BY <1>1, <1>3
  <2>2. /\ word \in Seq(STRING) /\ Len(word) = i - n
        /\ \A j \in 1 .. i - n : word[j] = line[n + 1 + j - 1]
    BY <1>1, <2>1, SubSeqIs
  <2>3. QED
    BY <2>2
<1>5. /\ rest \in Seq(STRING) /\ Len(rest) = k - i
      /\ \A j \in 1 .. k - i : rest[j] = line[i + j]
  <2>1. i + 1 \in 1 .. Len(line) + 1 /\ k \in (i + 1) - 1 .. Len(line) /\ k - (i + 1) + 1 = k - i
    BY <1>1, <1>3
  <2>2. /\ rest \in Seq(STRING) /\ Len(rest) = k - i
        /\ \A j \in 1 .. k - i : rest[j] = line[i + 1 + j - 1]
    BY <1>1, <2>1, SubSeqIs
  <2>3. QED
    BY <2>2
<1>6. \A j \in 1 .. k : command[j] # End
  BY <1>1, <1>2 DEF IsLineOf, ToSet
<1>7. k = Len(command) \/ command[k + 1] = End
  <2>1. CASE line = command
    BY <1>1, <2>1
  <2>2. CASE IsPrefix(Append(line, End), command)
    <3> DEFINE a == Append(line, End)
               X == STRING \cup {End}
    <3>1. line \in Seq(X) /\ End \in X /\ command \in Seq(X)
      BY <1>1
    <3> HIDE DEF X
    <3>2. a \in Seq(X) /\ Len(a) = k + 1 /\ a[k + 1] = End
      BY <1>1, <3>1
    <3>3. k + 1 <= Len(command) /\ SubSeq(a, 1, k + 1) = SubSeq(command, 1, k + 1)
      BY <2>2, <3>2 DEF IsPrefix
    <3> HIDE DEF a
    <3>4. SubSeq(a, 1, k + 1)[k + 1] = a[k + 1] /\ SubSeq(command, 1, k + 1)[k + 1] = command[k + 1]
      BY <3>1, <3>2, <3>3
    <3>5. QED
      BY <3>2, <3>3, <3>4
  <2>3. QED
    BY <1>2, <2>1, <2>2 DEF IsLineOf
<1>8. \A j \in n + 1 .. i : command[j] # Space
  <2> SUFFICES ASSUME NEW j \in n + 1 .. i PROVE command[j] # Space
    OBVIOUS
  <2>1. j - n \in 1 .. i - n /\ n + (j - n) = j /\ j \in 1 .. k
    OBVIOUS
  <2>2. word[j - n] = command[j]
    BY <1>1, <1>4, <2>1
  <2> HIDE DEF word
  <2>3. word[j - n] \in ToSet(word)
    BY <1>4, <2>1 DEF ToSet
  <2>4. QED
    BY <1>2, <2>2, <2>3 DEF IsSplit
<1>9. i = k \/ command[i + 1] = Space
  <2> SUFFICES ASSUME i < k PROVE command[i + 1] = Space
    OBVIOUS
  <2> HIDE DEF rest
  <2>1. rest # <<>> /\ Head(rest) = rest[1] /\ rest[1] = line[i + 1]
    BY <1>5
  <2>2. QED
    BY <1>1, <1>2, <2>1 DEF IsSplit
<1>10. \A j \in 1 .. n : command[j] = Space
  <2> DEFINE b == Blanks(n)
             X == STRING \cup {Space}
  <2>1. b \in Seq(X) /\ Len(b) = n /\ \A j \in 1 .. n : b[j] = Space
    <3>1. b = [j \in 1 .. n |-> Space] /\ Space \in X
      BY DEF Blanks
    <3> HIDE DEF b, X
    <3>2. QED
      BY <3>1
  <2>2. word \in Seq(X) /\ rest \in Seq(X)
    BY <1>4, <1>5
  <2> HIDE DEF b, word, rest, X
  <2>3. line = b \o word \o rest
    BY <1>2 DEF IsSplit, b
  <2>4. \A j \in 1 .. n : (b \o word \o rest)[j] = b[j]
    BY <1>4, <1>5, <2>1, <2>2
  <2>5. QED
    BY <1>1, <2>1, <2>3, <2>4
<1>11. QED
  BY <1>3, <1>6, <1>7, <1>8, <1>9, <1>10 DEF Split

\* The parser finds the end of the line and the word.
LEMMA WordIs ==
  ASSUME NEW command \in Seq(STRING), NEW k \in 0 .. Len(command), NEW n \in 0 .. k, NEW i \in 0 .. k,
         Split(command, k, n, i)
  PROVE  /\ Saved(command) = SubSeq(command, 1, k)
         /\ FirstWord(command) = SubSeq(command, n + 1, i)
<1>1. Until(command, {End}) = k
  <2>1. (\A j \in 1 .. k : command[j] \notin {End}) /\ (k = Len(command) \/ command[k + 1] \in {End})
    BY DEF Split
  <2>2. QED
    BY <2>1, UntilIs
<1> DEFINE t == SubSeq(command, n + 1, Len(command))
<1>2. n < i /\ n + 1 \in 1 .. Len(command) /\ Len(command) \in Nat
  BY DEF Split
<1>3. Trimmed(command) = t
  <2>1. command[n + 1] # Space /\ \A j \in 1 .. (n + 1) - 1 : command[j] = Space
    BY <1>2 DEF Split
  <2>2. QED
    BY <1>2, <2>1, TrimmedIs
<1>4. /\ t \in Seq(STRING) /\ Len(t) = Len(command) - n
      /\ \A j \in 1 .. Len(command) - n : t[j] = command[n + j]
  <2>1. /\ t \in Seq(STRING) /\ Len(t) = Len(command) - (n + 1) + 1
        /\ \A j \in 1 .. Len(command) - (n + 1) + 1 : t[j] = command[n + 1 + j - 1]
    BY <1>2, SubSeqIs
  <2>2. QED
    BY <1>2, <2>1
<1> HIDE DEF t
<1>5. Until(t, {Space, End}) = i - n
  <2>1. i - n \in 0 .. Len(t)
    BY <1>2, <1>4
  <2>2. \A j \in 1 .. i - n : t[j] \notin {Space, End}
    <3> SUFFICES ASSUME NEW j \in 1 .. i - n PROVE t[j] \notin {Space, End}
      OBVIOUS
    <3>1. n + j \in n + 1 .. i /\ n + j \in 1 .. k /\ t[j] = command[n + j]
      BY <1>2, <1>4
    <3>2. QED
      BY <3>1 DEF Split
  <2>3. i - n = Len(t) \/ t[i - n + 1] \in {Space, End}
    <3> SUFFICES ASSUME i < Len(command) PROVE t[i - n + 1] \in {Space, End}
      BY <1>4
    <3>1. t[i - n + 1] = command[i + 1]
      <4>1. i - n + 1 \in 1 .. Len(command) - n /\ n + (i - n + 1) = i + 1
        BY <1>2
      <4>2. QED
        BY <1>4, <4>1
    <3>2. QED
      BY <3>1 DEF Split
  <2>4. QED
    BY <1>4, <2>1, <2>2, <2>3, UntilIs
<1>6. SubSeq(t, 1, i - n) = SubSeq(command, n + 1, i)
  <2>1. /\ 1 \in 1 .. Len(command) - (n + 1) + 2
        /\ i - n \in 1 - 1 .. Len(command) - (n + 1) + 1
        /\ (n + 1) + 1 - 1 = n + 1 /\ (n + 1) + (i - n) - 1 = i
        /\ n + 1 \in 1 .. Len(command) + 1 /\ Len(command) \in (n + 1) - 1 .. Len(command)
    BY <1>2
  <2>2. SubSeq(t, 1, i - n) = SubSeq(command, (n + 1) + 1 - 1, (n + 1) + (i - n) - 1)
    BY <2>1, SubSubSeq DEF t
  <2>3. QED
    BY <2>1, <2>2
<1>7. QED
  BY <1>1, <1>3, <1>5, <1>6 DEF Saved, FirstWord

LEMMA DirectoryFacts ==
  /\ NameSize \in Nat \ {0} /\ MaxEntries \in Nat /\ MaxBuf \in Nat /\ MaxBuf > NameSize + 1
  /\ Len(Dir) \in 1 .. MaxEntries + 1 /\ DOMAIN Dir = 1 .. Len(Dir)
  /\ Dir[1].name = <<".">> /\ Dir[1].type = 1 /\ Dir[1].inode = 0
  /\ \A i \in DOMAIN Dir :
       /\ Dir[i] = [name |-> Dir[i].name, type |-> Dir[i].type, inode |-> Dir[i].inode]
       /\ Dir[i].name \in Seq(STRING) /\ Len(Dir[i].name) \in 1 .. NameSize
<1>1. /\ NameSize \in Nat \ {0} /\ MaxEntries \in Nat /\ MaxBuf \in Nat /\ MaxBuf > NameSize + 1
      /\ Len(Dir) \in 1 .. MaxEntries + 1 /\ DOMAIN Dir = 1 .. Len(Dir)
  BY ImageAssumption, DirectoryAssumption, BufferAssumption
<1>2. Dir[1].name = <<".">> /\ Dir[1].type = 1 /\ Dir[1].inode = 0
  BY DirectoryAssumption
<1>3. ASSUME NEW i \in DOMAIN Dir
      PROVE  /\ Dir[i] = [name |-> Dir[i].name, type |-> Dir[i].type, inode |-> Dir[i].inode]
             /\ Dir[i].name \in Seq(STRING) /\ Len(Dir[i].name) \in 1 .. NameSize
  BY ImageAssumption
<1>4. QED
  BY <1>1, <1>2, <1>3

\* Of two sequences of one length one is a prefix of the other when they are equal.
LEMMA PrefixIs ==
  ASSUME NEW s \in Seq(STRING), NEW t \in Seq(STRING), Len(s) = Len(t)
  PROVE  IsPrefix(s, t) <=> s = t
<1>1. SubSeq(s, 1, Len(s)) = s /\ SubSeq(t, 1, Len(t)) = t
  OBVIOUS
<1>2. QED
  BY <1>1 DEF IsPrefix

\* The look-up finds the first entry of this name, or none.
LEMMA LookupIs ==
  ASSUME NEW word \in Seq(STRING), word # <<>>
  PROVE  read_dentry_by_name(word) = EntryOf(word)
<1> DEFINE named == {i \in DOMAIN Dir : Dir[i].name = word}
<1>1. IsDirectory(word) <=> word = <<".">>
  <2>1. NameAt(0) = <<".">>
    BY DirectoryFacts DEF NameAt
  <2>2. IsDirectory(word) <=> Len(word) <= 1 /\ SubSeq(word, 1, Len(word)) = SubSeq(<<".">>, 1, Len(word))
    BY <2>1 DEF IsDirectory, Matches, IsPrefix
  <2>3. Len(word) \in Nat /\ Len(word) > 0 /\ SubSeq(word, 1, Len(word)) = word
    OBVIOUS
  <2>4. SubSeq(<<".">>, 1, 1) = <<".">> /\ Len(<<".">>) = 1
    <3> DEFINE d == <<".">>
    <3>1. d \in Seq({"."}) /\ Len(d) = 1
      OBVIOUS
    <3> HIDE DEF d
    <3>2. SubSeq(d, 1, 1) = d
      BY <3>1
    <3>3. QED
      BY <3>1, <3>2 DEF d
  <2>5. QED
    BY <2>2, <2>3, <2>4
<1>2. \A j \in 1 .. MaxEntries : j \in Hits(word) <=> j + 1 \in named
  <2> SUFFICES ASSUME NEW j \in 1 .. MaxEntries PROVE j \in Hits(word) <=> j + 1 \in named
    OBVIOUS
  <2>1. j \in Hits(word) <=> Len(NameAt(j)) = Len(word) /\ IsPrefix(word, NameAt(j))
    BY DEF Hits, Matches
  <2>2. CASE j + 1 \in DOMAIN Dir
    <3>1. NameAt(j) = Dir[j + 1].name /\ NameAt(j) \in Seq(STRING)
      BY <2>2, DirectoryFacts DEF NameAt
    <3>2. QED
      BY <2>1, <2>2, <3>1, PrefixIs
  <2>3. CASE j + 1 \notin DOMAIN Dir
    <3>1. NameAt(j) = <<>>
      BY <2>3 DEF NameAt
    <3>2. Len(word) # Len(<<>>)
      OBVIOUS
    <3>3. QED
      BY <2>1, <2>3, <3>1, <3>2
  <2>4. QED
    BY <2>2, <2>3
<1>3. \A i \in named : i = 1 \/ i - 1 \in Hits(word)
  <2> SUFFICES ASSUME NEW i \in named, i # 1 PROVE i - 1 \in Hits(word)
    OBVIOUS
  <2>1. i - 1 \in 1 .. MaxEntries /\ (i - 1) + 1 = i
    BY DirectoryFacts
  <2>2. QED
    BY <1>2, <2>1
<1>4. named \subseteq Nat /\ 1 \in DOMAIN Dir /\ Hits(word) \subseteq 1 .. MaxEntries
  BY DirectoryFacts DEF Hits
<1>5. CASE word = <<".">>
  <2>1. 1 \in named /\ \A j \in named : 1 <= j
    BY <1>4, <1>5, DirectoryFacts
  <2>2. \A i \in named : (\A j \in named : i <= j) => i = 1
    BY <1>4, <2>1
  <2> HIDE DEF named
  <2>3. (CHOOSE i \in named : \A j \in named : i <= j) = 1
    BY <2>1, <2>2, Zenon
  <2>4. named # {}
    BY <2>1
  <2>5. EntryOf(word) = Dir[1]
    BY <2>3, <2>4 DEF EntryOf, named
  <2>6. read_dentry_by_name(word) = [name |-> word, type |-> 1, inode |-> 0]
    BY <1>1, <1>5 DEF read_dentry_by_name
  <2>7. QED
    BY <1>5, <2>5, <2>6, DirectoryAssumption
<1>6. CASE word # <<".">>
  <2>1. 1 \notin named
    BY <1>6, DirectoryFacts
  <2>2. ~IsDirectory(word)
    BY <1>1, <1>6
  <2>3. CASE named = {}
    <3>1. Hits(word) = {}
      BY <1>2, <1>4, <2>3
    <3>2. QED
      BY <2>2, <2>3, <3>1 DEF read_dentry_by_name, EntryOf
  <2>4. CASE named # {}
    <3> HIDE DEF named
    <3>1. PICK i \in named : \A j \in named : i <= j
      BY <1>4, <2>4, Least
    <3>2. \A h \in named : (\A j \in named : h <= j) => h = i
      BY <1>4, <3>1
    <3>3. (CHOOSE h \in named : \A j \in named : h <= j) = i
      BY <3>1, <3>2, Zenon
    <3>4. EntryOf(word) = Dir[i]
      BY <2>4, <3>3 DEF EntryOf, named
    <3>5. i \in DOMAIN Dir /\ Dir[i].name = word /\ i \in Nat /\ i # 1
      BY <1>4, <2>1, <3>1 DEF named
    <3>6. i - 1 \in Hits(word)
      BY <1>3, <2>1, <3>1
    <3>7. \A k \in Hits(word) : i - 1 <= k
      BY <1>2, <1>4, <3>1, <3>5
    <3>8. \A h \in Hits(word) : (\A k \in Hits(word) : h <= k) => h = i - 1
      BY <1>4, <3>5, <3>6, <3>7
    <3>9. (CHOOSE h \in Hits(word) : \A k \in Hits(word) : h <= k) = i - 1
      BY <3>6, <3>7, <3>8, Zenon
    <3>10. (i - 1) + 1 = i
      BY <3>5
    <3>11. read_dentry_by_name(word) = [name |-> word, type |-> Dir[i].type, inode |-> Dir[i].inode]
      BY <2>2, <3>6, <3>9, <3>10 DEF read_dentry_by_name
    <3>12. QED
      BY <3>4, <3>5, <3>11, DirectoryFacts
  <2>5. QED
    BY <2>3, <2>4
<1>7. QED
  BY <1>5, <1>6

\* A word longer than a name is the name of no entry.
LEMMA LongWord ==
  ASSUME NEW word \in Seq(STRING), Len(word) > NameSize
  PROVE  EntryOf(word) = NoEntry
BY DirectoryFacts DEF EntryOf

\* execute looks for the word, even one that fills the buffer and is cut.
LEMMA NameIs ==
  ASSUME NEW command \in Seq(STRING), FirstWord(command) \in Seq(STRING),
         FirstWord(command) # <<>>
  PROVE  /\ read_dentry_by_name(Name(command)) = EntryOf(FirstWord(command))
         /\ EntryOf(FirstWord(command)) # NoEntry => Name(command) = FirstWord(command)
<1> DEFINE w == FirstWord(command)
<1>1. CASE Len(w) # MaxBuf
  <2>1. Name(command) = w
    BY <1>1 DEF Name
  <2>2. QED
    BY <2>1, LookupIs
<1>2. CASE Len(w) = MaxBuf
  <2> HIDE DEF w
  <2>1. w \in Seq(STRING) /\ Name(command) = SubSeq(w, 1, Len(w) - 1)
    BY <1>2 DEF Name, Front, w
  <2>2. /\ SubSeq(w, 1, Len(w) - 1) \in Seq(STRING)
        /\ Len(SubSeq(w, 1, Len(w) - 1)) = MaxBuf - 1
    BY <1>2, <2>1, DirectoryFacts
  <2>3. Name(command) \in Seq(STRING) /\ Len(Name(command)) > NameSize /\ Len(w) > NameSize
    BY <1>2, <2>1, <2>2, DirectoryFacts
  <2>4. Name(command) # <<>>
    BY <2>3, DirectoryFacts
  <2>5. EntryOf(Name(command)) = NoEntry /\ EntryOf(w) = NoEntry
    BY <2>1, <2>3, LongWord
  <2>6. QED
    BY <2>3, <2>4, <2>5, LookupIs DEF w
<1>3. QED
  BY <1>1, <1>2

\* execute looks up the first word of the command line, through leading and repeated
\* spaces, a missing newline and a line that fills the buffer, and finds the entry
\* with exactly this name or none (execute, read_dentry_by_name).
THEOREM RunsFirstWordAlways == CallsSpec => []RunsFirstWord
<1>1. CallDone => RunsFirstWord
  <2> SUFFICES ASSUME CallDone, request.op = "execute", ~TooLong(request.name),
                      NEW k \in 0 .. Len(request.name), NEW n \in 0 .. k, NEW i \in 0 .. k,
                      IsLineOf(SubSeq(request.name, 1, k), request.name),
                      IsSplit(SubSeq(request.name, 1, k), n, SubSeq(SubSeq(request.name, 1, k), n + 1, i),
                              SubSeq(SubSeq(request.name, 1, k), i + 1, k))
               PROVE  kept.entry = EntryOf(SubSeq(SubSeq(request.name, 1, k), n + 1, i))
    BY DEF RunsFirstWord
  <2> DEFINE c == request.name
             w == SubSeq(SubSeq(c, 1, k), n + 1, i)
  <2>1. c \in Seq(STRING) /\ kept = Parse(c)
    BY CallsAssumption DEF CallDone
  <2>2. kept.entry = read_dentry_by_name(Name(c))
    BY <2>1 DEF Parse
  <2>3. Split(c, k, n, i)
    BY <2>1, SplitIs
  <2> HIDE DEF c
  <2>4. FirstWord(c) = SubSeq(c, n + 1, i) /\ n < i
    BY <2>1, <2>3, WordIs DEF c, Split
  <2>5. w = SubSeq(c, n + 1, i) /\ w \in Seq(STRING) /\ w # <<>>
    <3>1. /\ 1 \in 1 .. Len(c) + 1 /\ k \in 1 - 1 .. Len(c)
          /\ n + 1 \in 1 .. k - 1 + 2 /\ i \in (n + 1) - 1 .. k - 1 + 1
          /\ 1 + (n + 1) - 1 = n + 1 /\ 1 + i - 1 = i
          /\ n + 1 \in 1 .. Len(c) + 1 /\ i \in (n + 1) - 1 .. Len(c)
      BY <2>1, <2>4 DEF c
    <3>2. w = SubSeq(c, 1 + (n + 1) - 1, 1 + i - 1)
      BY <2>1, <3>1, SubSubSeq
    <3>3. SubSeq(c, n + 1, i) \in Seq(STRING) /\ Len(SubSeq(c, n + 1, i)) = i - (n + 1) + 1
      BY <2>1, <3>1, SubSeqIs
    <3>4. i - (n + 1) + 1 > 0
      BY <2>4
    <3>5. w = SubSeq(c, n + 1, i)
      BY <3>1, <3>2
    <3> HIDE DEF w
    <3>6. w \in Seq(STRING) /\ Len(w) > 0
      BY <3>3, <3>4, <3>5
    <3>7. w # <<>>
      BY <3>6
    <3>8. QED
      BY <3>5, <3>6, <3>7, Zenon
  <2>6. QED
    BY <2>1, <2>2, <2>4, <2>5, NameIs DEF c
<1>2. QED
  BY <1>1, CallsAreDone, PTL

\* A program started with arguments and without leading spaces gets, from getargs,
\* the line after its name and one space, with a terminator (execute,
\* set_up_fdsandargs, getargs).
THEOREM ArgsDeliveredAlways == CallsSpec => []ArgsDelivered
<1>1. CallDone => ArgsDelivered
  <2> SUFFICES ASSUME CallDone, request.op = "getargs",
                      NEW k \in 0 .. Len(request.name), NEW i \in 0 .. k,
                      IsLineOf(SubSeq(request.name, 1, k), request.name),
                      IsSplit(SubSeq(request.name, 1, k), 0, SubSeq(SubSeq(request.name, 1, k), 1, i),
                              SubSeq(SubSeq(request.name, 1, k), i + 1, k))
               PROVE  LET rest == SubSeq(SubSeq(request.name, 1, k), i + 1, k)
                      IN answer = IF request.length <= k THEN NoData
                                  ELSE [ret |-> 0, bytes |-> Padded(SubSeq(rest, 2, Len(rest)), request.length)]
    BY DEF ArgsDelivered
  <2> DEFINE c == request.name
             line == SubSeq(c, 1, k)
             rest == SubSeq(line, i + 1, k)
             l == request.length
  <2>1. c \in Seq(STRING) /\ kept = Parse(c) /\ kept.entry # NoEntry
        /\ l \in Int /\ answer = getargs(kept, l)
    BY CallsAssumption DEF CallDone
  <2>2. /\ kept.entry = read_dentry_by_name(Name(c))
        /\ kept.args = Args(c) /\ kept.size = Len(Saved(c))
    BY <2>1 DEF Parse, NoEntry
  <2>3. Split(c, k, 0, i)
    <3>1. 0 \in 0 .. k /\ 0 + 1 = 1
      OBVIOUS
    <3>2. QED
      BY <2>1, <3>1, SplitIs
  <2> HIDE DEF c
  <2>4. FirstWord(c) = SubSeq(c, 1, i) /\ 0 < i /\ Saved(c) = line
    <3>1. 0 \in 0 .. k /\ 0 + 1 = 1 /\ k \in 0 .. Len(c)
      BY DEF c
    <3>2. FirstWord(c) = SubSeq(c, 0 + 1, i) /\ Saved(c) = line
      BY <2>1, <2>3, <3>1, WordIs
    <3>3. QED
      BY <2>3, <3>1, <3>2 DEF Split
  <2>5. /\ FirstWord(c) \in Seq(STRING) /\ Len(FirstWord(c)) = i /\ FirstWord(c) # <<>>
        /\ line \in Seq(STRING) /\ Len(line) = k
    BY <2>1, <2>4 DEF c
  <2>6. Name(c) = FirstWord(c)
    BY <2>1, <2>2, <2>5, NameIs
  <2>7. kept.args = SubSeq(line, i + 2, k)
    BY <2>2, <2>4, <2>5, <2>6 DEF Args, ArgIdx
  <2> HIDE DEF line, l
  <2>8. SubSeq(rest, 2, Len(rest)) = SubSeq(line, i + 2, k)
    <3>1. i + 1 \in 1 .. Len(line) + 1 /\ k \in (i + 1) - 1 .. Len(line) /\ k - (i + 1) + 1 = k - i
      BY <2>5
    <3>2. Len(rest) = k - i
      BY <2>5, <3>1, SubSeqIs
    <3>3. CASE i < k
      <4>1. /\ 2 \in 1 .. k - (i + 1) + 2 /\ k - i \in 2 - 1 .. k - (i + 1) + 1
            /\ (i + 1) + 2 - 1 = i + 2 /\ (i + 1) + (k - i) - 1 = k
        BY <2>4, <3>3
      <4>2. SubSeq(rest, 2, k - i) = SubSeq(line, (i + 1) + 2 - 1, (i + 1) + (k - i) - 1)
        BY <2>5, <3>1, <4>1, SubSubSeq
      <4>3. QED
        BY <3>2, <4>1, <4>2
    <3>4. CASE i = k
      BY <2>5, <3>2, <3>4
    <3>5. QED
      BY <3>3, <3>4
  <2>9. answer = IF l <= k THEN NoData ELSE [ret |-> 0, bytes |-> Padded(kept.args, l)]
    <3>1. k \in Nat /\ kept.size = k
      BY <2>1, <2>2, <2>4, <2>5 DEF c
    <3>2. l < 0 \/ l - 1 < kept.size <=> l <= k
      BY <2>1, <3>1
    <3>3. QED
      BY <2>1, <3>2 DEF getargs, NoData
  <2>10. QED
    BY <2>7, <2>8, <2>9 DEF c, line, l
<1>2. QED
  BY <1>1, CallsAreDone, PTL

(***************************************************************************)
(* The memory functions.                                                   *)
(***************************************************************************)
\* Memory m after n bytes from s were moved to d.
Moved(m, d, s, n) == [a \in DOMAIN m |-> IF a - d \in 0 .. n-1 THEN m[a - d + s] ELSE m[a]]

\* F lists what memory m holds after each byte, or after each double word.
ByteSteps(F, m, d, s, offsets, n) ==
  /\ F = [k \in 0 .. n |-> F[k]] /\ F[0] = m
  /\ \A k \in 1 .. n : F[k] = [F[k - 1] EXCEPT ![d + offsets[k]] = F[k - 1][s + offsets[k]]]

DwordSteps(F, m, d, s, n) ==
  /\ F = [k \in 0 .. n |-> F[k]] /\ F[0] = m
  /\ \A k \in 1 .. n : F[k] = [a \in DOMAIN m |->
       IF a - (d + (k - 1) * Dword) \in 0 .. Dword-1 THEN F[k - 1][s + a - d] ELSE F[k - 1][a]]

LEMMA CopyBytesIs ==
  ASSUME NEW m, NEW d, NEW s, NEW offsets, NEW n \in Nat, Len(offsets) = n,
         NEW F, ByteSteps(F, m, d, s, offsets, n)
  PROVE  CopyBytes(m, d, s, offsets) = F[n]
<1> DEFINE Step(f, k) == [f[k - 1] EXCEPT ![d + offsets[k]] = f[k - 1][s + offsets[k]]]
           Eq(f) == f = [k \in 0 .. n |-> IF k = 0 THEN m ELSE Step(f, k)]
<1>1. CopyBytes(m, d, s, offsets) = (CHOOSE f : Eq(f))[n]
  BY DEF CopyBytes
<1>2. /\ \A k \in 1 .. n : F[k] = Step(F, k)
      /\ F = [k \in 0 .. n |-> F[k]] /\ F[0] = m
  BY DEF ByteSteps
<1>3. ASSUME NEW g, NEW k, g[k - 1] = F[k - 1] PROVE Step(g, k) = Step(F, k)
  BY <1>3
<1> HIDE DEF Step
<1>4. Eq(F)
  BY <1>2
<1>5. ASSUME NEW g, Eq(g) PROVE g[n] = F[n]
  <2> DEFINE T == {k \in 0 .. n : g[k] # F[k]}
  <2> SUFFICES ASSUME T # {} PROVE FALSE
    OBVIOUS
  <2>1. T \in SUBSET Nat
    OBVIOUS
  <2>2. PICK k \in T : \A j \in T : k <= j
    <3> HIDE DEF T
    <3>1. QED
      BY <2>1, Least
  <2>3. k \in 0 .. n /\ k # 0 /\ g[k] # F[k]
    <3>1. k \in 0 .. n /\ g[k] # F[k]
      OBVIOUS
    <3>2. g[0] = m
      BY <1>5
    <3>3. QED
      BY <1>2, <3>1, <3>2, Zenon
  <2>4. g[k] = Step(g, k) /\ F[k] = Step(F, k)
    <3>1. k \in 1 .. n
      BY <2>3
    <3>2. F[k] = Step(F, k)
      BY <1>2, <3>1, Zenon
    <3>3. g[k] = IF k = 0 THEN m ELSE Step(g, k)
      BY <1>5, <2>3, Zenon
    <3>4. QED
      BY <2>3, <3>2, <3>3, Zenon
  <2>5. g[k - 1] = F[k - 1]
    BY <2>2, <2>3
  <2>6. QED
    BY <1>3, <2>3, <2>4, <2>5
<1> HIDE DEF Eq
<1>6. Eq(CHOOSE f : Eq(f))
  BY <1>4, Zenon
<1>7. QED
  BY <1>1, <1>5, <1>6

LEMMA CopyDwordsIs ==
  ASSUME NEW m, NEW d, NEW s, NEW n \in Nat, NEW F, DwordSteps(F, m, d, s, n)
  PROVE  CopyDwords(m, d, s, n) = F[n]
<1> DEFINE Step(f, k) == [a \in DOMAIN m |->
              IF a - (d + (k - 1) * Dword) \in 0 .. Dword-1 THEN f[k - 1][s + a - d] ELSE f[k - 1][a]]
           Eq(f) == f = [k \in 0 .. n |-> IF k = 0 THEN m ELSE Step(f, k)]
<1>1. CopyDwords(m, d, s, n) = (CHOOSE f : Eq(f))[n]
  BY DEF CopyDwords
<1>2. /\ \A k \in 1 .. n : F[k] = Step(F, k)
      /\ F = [k \in 0 .. n |-> F[k]] /\ F[0] = m
  BY DEF DwordSteps
<1>3. ASSUME NEW g, NEW k, g[k - 1] = F[k - 1] PROVE Step(g, k) = Step(F, k)
  BY <1>3
<1> HIDE DEF Step
<1>4. Eq(F)
  BY <1>2
<1>5. ASSUME NEW g, Eq(g) PROVE g[n] = F[n]
  <2> DEFINE T == {k \in 0 .. n : g[k] # F[k]}
  <2> SUFFICES ASSUME T # {} PROVE FALSE
    OBVIOUS
  <2>1. T \in SUBSET Nat
    OBVIOUS
  <2>2. PICK k \in T : \A j \in T : k <= j
    <3> HIDE DEF T
    <3>1. QED
      BY <2>1, Least
  <2>3. k \in 0 .. n /\ k # 0 /\ g[k] # F[k]
    <3>1. k \in 0 .. n /\ g[k] # F[k]
      OBVIOUS
    <3>2. g[0] = m
      BY <1>5
    <3>3. QED
      BY <1>2, <3>1, <3>2, Zenon
  <2>4. g[k] = Step(g, k) /\ F[k] = Step(F, k)
    <3>1. k \in 1 .. n
      BY <2>3
    <3>2. F[k] = Step(F, k)
      BY <1>2, <3>1, Zenon
    <3>3. g[k] = IF k = 0 THEN m ELSE Step(g, k)
      BY <1>5, <2>3, Zenon
    <3>4. QED
      BY <2>3, <3>2, <3>3, Zenon
  <2>5. g[k - 1] = F[k - 1]
    BY <2>2, <2>3
  <2>6. QED
    BY <1>3, <2>3, <2>4, <2>5
<1> HIDE DEF Eq
<1>6. Eq(CHOOSE f : Eq(f))
  BY <1>4, Zenon
<1>7. QED
  BY <1>1, <1>5, <1>6

\* A memory of MemSize bytes.
IsMemory(m) == m = [a \in 0 .. MemSize-1 |-> m[a]]

LEMMA MovedIsMemory ==
  ASSUME NEW m, IsMemory(m), NEW d, NEW s, NEW n
  PROVE  /\ IsMemory(Moved(m, d, s, n))
         /\ \A a \in 0 .. MemSize-1 :
              Moved(m, d, s, n)[a] = IF a - d \in 0 .. n-1 THEN m[a - d + s] ELSE m[a]
<1>1. DOMAIN m = 0 .. MemSize-1
  BY DEF IsMemory
<1>2. QED
  BY <1>1 DEF IsMemory, Moved

\* Upwards: no byte is overwritten before it is read.
LEMMA CopyUp ==
  ASSUME NEW m, IsMemory(m), NEW d \in Nat, NEW s \in Nat, NEW n \in Nat,
         Fits(d, n), Fits(s, n), s >= d \/ s + n <= d
  PROVE  CopyBytes(m, d, s, Upto(n)) = Moved(m, d, s, n)
<1> DEFINE F == [k \in 0 .. n |-> Moved(m, d, s, k)]
           o == Upto(n)
<1>1. MemSize \in Nat /\ d + n <= MemSize /\ s + n <= MemSize
  BY CallsAssumption DEF Fits
<1>2. o \in Seq(Int) /\ Len(o) = n /\ \A k \in 1 .. n : o[k] = k - 1
  BY DEF Upto
<1>3. \A k \in 0 .. n : F[k] = Moved(m, d, s, k)
  OBVIOUS
<1>4. F = [k \in 0 .. n |-> F[k]]
  OBVIOUS
<1>5. Moved(m, d, s, 0) = m
  <2>1. \A a \in 0 .. MemSize-1 : Moved(m, d, s, 0)[a] = m[a]
    BY <1>1, MovedIsMemory
  <2>2. IsMemory(Moved(m, d, s, 0))
    BY MovedIsMemory
  <2>3. QED
    BY <2>1, <2>2 DEF IsMemory
<1>6. ASSUME NEW k \in 1 .. n
      PROVE  Moved(m, d, s, k) =
               [Moved(m, d, s, k - 1) EXCEPT ![d + o[k]] = Moved(m, d, s, k - 1)[s + o[k]]]
  <2> DEFINE p == Moved(m, d, s, k - 1)
             q == Moved(m, d, s, k)
             r == [p EXCEPT ![d + k - 1] = p[s + k - 1]]
  <2>1. /\ IsMemory(p) /\ IsMemory(q)
        /\ \A a \in 0 .. MemSize-1 : p[a] = IF a - d \in 0 .. k-2 THEN m[a - d + s] ELSE m[a]
        /\ \A a \in 0 .. MemSize-1 : q[a] = IF a - d \in 0 .. k-1 THEN m[a - d + s] ELSE m[a]
    <3>1. (k - 1) - 1 = k - 2
      OBVIOUS
    <3>2. QED
      BY <3>1, MovedIsMemory
  <2> HIDE DEF p, q
  <2>2. d + k - 1 \in 0 .. MemSize-1 /\ s + k - 1 \in 0 .. MemSize-1 /\ s + k - 1 - d \notin 0 .. k-2
    BY <1>1
  <2>3. p[s + k - 1] = m[s + k - 1]
    BY <2>1, <2>2
  <2>4. DOMAIN p = 0 .. MemSize-1 /\ q = [a \in 0 .. MemSize-1 |-> q[a]]
    BY <2>1 DEF IsMemory
  <2>5. r = [a \in 0 .. MemSize-1 |-> IF a = d + k - 1 THEN m[s + k - 1] ELSE p[a]]
    BY <2>3, <2>4
  <2>6. ASSUME NEW a \in 0 .. MemSize-1
        PROVE  q[a] = IF a = d + k - 1 THEN m[s + k - 1] ELSE p[a]
    <3>1. CASE a = d + k - 1
      <4>1. a - d \in 0 .. k-1 /\ a - d + s = s + k - 1
        BY <1>1, <3>1
      <4>2. QED
        BY <2>1, <3>1, <4>1
    <3>2. CASE a # d + k - 1
      <4>1. a - d \in 0 .. k-1 <=> a - d \in 0 .. k-2
        BY <1>1, <3>2
      <4>2. QED
        BY <2>1, <3>2, <4>1
    <3>3. QED
      BY <3>1, <3>2
  <2>7. q = r
    BY <2>4, <2>5, <2>6
  <2>8. d + o[k] = d + k - 1 /\ s + o[k] = s + k - 1
    BY <1>2
  <2>9. QED
    BY <2>7, <2>8 DEF p, q
<1>7. CopyBytes(m, d, s, o) = F[n]
  <2>1. F[0] = m
    BY <1>3, <1>5
  <2>2. ASSUME NEW k \in 1 .. n
        PROVE  F[k] = [F[k - 1] EXCEPT ![d + o[k]] = F[k - 1][s + o[k]]]
    <3>1. F[k] = Moved(m, d, s, k) /\ F[k - 1] = Moved(m, d, s, k - 1)
      BY <1>3
    <3>2. QED
      BY <1>6, <3>1
  <2> HIDE DEF F, o
  <2>3. ByteSteps(F, m, d, s, o, n)
    BY <1>4, <2>1, <2>2, Zenon DEF ByteSteps
  <2>4. QED
    BY <1>2, <2>3, CopyBytesIs
<1>8. QED
  BY <1>3, <1>7

\* Downwards: the destination is behind the source.
LEMMA CopyDown ==
  ASSUME NEW m, IsMemory(m), NEW d \in Nat, NEW s \in Nat, NEW n \in Nat,
         Fits(d, n), Fits(s, n), s < d
  PROVE  CopyBytes(m, d, s, Downto(n)) = Moved(m, d, s, n)
<1> DEFINE e(k) == Moved(m, d + n - k, s + n - k, k)
           F == [k \in 0 .. n |-> e(k)]
           o == Downto(n)
<1>1. MemSize \in Nat /\ d + n <= MemSize /\ s + n <= MemSize
  BY CallsAssumption DEF Fits
<1>2. o \in Seq(Int) /\ Len(o) = n /\ \A k \in 1 .. n : o[k] = n - k
  BY DEF Downto
<1>3. \A k \in 0 .. n : F[k] = e(k)
  OBVIOUS
<1>4. F = [k \in 0 .. n |-> F[k]]
  OBVIOUS
<1>5. ASSUME NEW k \in 0 .. n
      PROVE  /\ IsMemory(e(k))
             /\ \A a \in 0 .. MemSize-1 : e(k)[a] = IF a - d \in n-k .. n-1 THEN m[a - d + s] ELSE m[a]
  <2>1. /\ IsMemory(e(k))
        /\ \A a \in 0 .. MemSize-1 : e(k)[a] = IF a - (d + n - k) \in 0 .. k-1
                                              THEN m[a - (d + n - k) + (s + n - k)] ELSE m[a]
    BY MovedIsMemory
  <2>2. \A a \in 0 .. MemSize-1 : /\ a - (d + n - k) \in 0 .. k-1 <=> a - d \in n-k .. n-1
                                 /\ a - (d + n - k) + (s + n - k) = a - d + s
    BY <1>1
  <2>3. QED
    BY <2>1, <2>2
<1> HIDE DEF e
<1>6. e(0) = m
  <2>1. \A a \in 0 .. MemSize-1 : a - d \notin n-0 .. n-1
    BY <1>1
  <2>2. \A a \in 0 .. MemSize-1 : e(0)[a] = m[a]
    BY <1>5, <2>1
  <2>3. IsMemory(e(0))
    BY <1>5
  <2>4. QED
    BY <2>2, <2>3 DEF IsMemory
<1>7. ASSUME NEW k \in 1 .. n
      PROVE  e(k) = [e(k - 1) EXCEPT ![d + o[k]] = e(k - 1)[s + o[k]]]
  <2> DEFINE p == e(k - 1)
             q == e(k)
             r == [p EXCEPT ![d + n - k] = p[s + n - k]]
  <2>1. /\ IsMemory(p) /\ IsMemory(q)
        /\ \A a \in 0 .. MemSize-1 : p[a] = IF a - d \in n-k+1 .. n-1 THEN m[a - d + s] ELSE m[a]
        /\ \A a \in 0 .. MemSize-1 : q[a] = IF a - d \in n-k .. n-1 THEN m[a - d + s] ELSE m[a]
    <3>1. n - (k - 1) = n - k + 1 /\ k - 1 \in 0 .. n /\ k \in 0 .. n
      OBVIOUS
    <3>2. QED
      BY <1>5, <3>1
  <2> HIDE DEF p, q
  <2>2. d + n - k \in 0 .. MemSize-1 /\ s + n - k \in 0 .. MemSize-1 /\ s + n - k - d \notin n-k+1 .. n-1
    BY <1>1
  <2>3. p[s + n - k] = m[s + n - k]
    BY <2>1, <2>2
  <2>4. DOMAIN p = 0 .. MemSize-1 /\ q = [a \in 0 .. MemSize-1 |-> q[a]]
    BY <2>1 DEF IsMemory
  <2>5. r = [a \in 0 .. MemSize-1 |-> IF a = d + n - k THEN m[s + n - k] ELSE p[a]]
    BY <2>3, <2>4
  <2>6. ASSUME NEW a \in 0 .. MemSize-1
        PROVE  q[a] = IF a = d + n - k THEN m[s + n - k] ELSE p[a]
    <3>1. CASE a = d + n - k
      <4>1. a - d \in n-k .. n-1 /\ a - d + s = s + n - k
        BY <1>1, <3>1
      <4>2. QED
        BY <2>1, <3>1, <4>1
    <3>2. CASE a # d + n - k
      <4>1. a - d \in n-k .. n-1 <=> a - d \in n-k+1 .. n-1
        BY <1>1, <3>2
      <4>2. QED
        BY <2>1, <3>2, <4>1
    <3>3. QED
      BY <3>1, <3>2
  <2>7. q = r
    BY <2>4, <2>5, <2>6
  <2>8. d + o[k] = d + n - k /\ s + o[k] = s + n - k
    BY <1>2
  <2>9. QED
    BY <2>7, <2>8 DEF p, q
<1>8. CopyBytes(m, d, s, o) = F[n]
  <2>1. F[0] = m
    BY <1>3, <1>6
  <2>2. ASSUME NEW k \in 1 .. n
        PROVE  F[k] = [F[k - 1] EXCEPT ![d + o[k]] = F[k - 1][s + o[k]]]
    <3>1. F[k] = e(k) /\ F[k - 1] = e(k - 1)
      BY <1>3
    <3>2. QED
      BY <1>7, <3>1
  <2> HIDE DEF F, o
  <2>3. ByteSteps(F, m, d, s, o, n)
    BY <1>4, <2>1, <2>2, Zenon DEF ByteSteps
  <2>4. QED
    BY <1>2, <2>3, CopyBytesIs
<1>9. F[n] = Moved(m, d, s, n)
  <2>1. d + n - n = d /\ s + n - n = s
    OBVIOUS
  <2>2. QED
    BY <1>3, <2>1 DEF e
<1>10. QED
  BY <1>8, <1>9

\* Double words that lie apart.
LEMMA CopyDwordsApart ==
  ASSUME NEW m, IsMemory(m), NEW d \in Nat, NEW s \in Nat, NEW n \in Nat,
         Fits(d, n * Dword), Fits(s, n * Dword), Apart(d, s, n * Dword)
  PROVE  CopyDwords(m, d, s, n) = Moved(m, d, s, n * Dword)
<1> DEFINE e(k) == Moved(m, d, s, k * Dword)
           F == [k \in 0 .. n |-> e(k)]
           z == n * Dword
<1>1. MemSize \in Nat /\ Dword \in Nat \ {0} /\ d + z <= MemSize /\ s + z <= MemSize
      /\ (d + z <= s \/ s + z <= d)
  BY CallsAssumption, LibraryAssumption DEF Fits, Apart
<1>2. \A k \in 0 .. n : F[k] = e(k)
  OBVIOUS
<1>3. F = [k \in 0 .. n |-> F[k]]
  OBVIOUS
<1>4. ASSUME NEW k \in 0 .. n
      PROVE  /\ IsMemory(e(k))
             /\ \A a \in 0 .. MemSize-1 :
                  e(k)[a] = IF a - d \in 0 .. k * Dword - 1 THEN m[a - d + s] ELSE m[a]
  BY MovedIsMemory
<1> HIDE DEF e
<1>5. e(0) = m
  <2>1. 0 * Dword = 0
    BY <1>1
  <2>2. \A a \in 0 .. MemSize-1 : a - d \notin 0 .. 0 * Dword - 1
    BY <1>1, <2>1
  <2>3. \A a \in 0 .. MemSize-1 : e(0)[a] = m[a]
    BY <1>4, <2>2
  <2>4. IsMemory(e(0))
    BY <1>4
  <2>5. QED
    BY <2>3, <2>4 DEF IsMemory
<1>6. ASSUME NEW k \in 1 .. n
      PROVE  e(k) = [a \in DOMAIN m |->
               IF a - (d + (k - 1) * Dword) \in 0 .. Dword-1 THEN e(k - 1)[s + a - d] ELSE e(k - 1)[a]]
  <2> DEFINE p == e(k - 1)
             q == e(k)
             t == (k - 1) * Dword
  <2>1. t \in Nat /\ k * Dword = t + Dword /\ z \in Nat /\ z >= t + Dword
    <3>1. t \in Nat /\ k * Dword = t + Dword /\ z \in Nat
      BY <1>1
    <3>2. n * Dword >= k * Dword
      BY <1>1
    <3>3. QED
      BY <3>1, <3>2
  <2>2. /\ IsMemory(q)
        /\ \A a \in 0 .. MemSize-1 : p[a] = IF a - d \in 0 .. t-1 THEN m[a - d + s] ELSE m[a]
        /\ \A a \in 0 .. MemSize-1 : q[a] = IF a - d \in 0 .. t+Dword-1 THEN m[a - d + s] ELSE m[a]
    <3>1. k - 1 \in 0 .. n /\ k \in 0 .. n
      OBVIOUS
    <3>2. \A a \in 0 .. MemSize-1 : p[a] = IF a - d \in 0 .. t-1 THEN m[a - d + s] ELSE m[a]
      BY <1>4, <3>1, Zenon
    <3>3. /\ IsMemory(q)
          /\ \A a \in 0 .. MemSize-1 : q[a] = IF a - d \in 0 .. k*Dword-1 THEN m[a - d + s] ELSE m[a]
      BY <1>4, <3>1, Zenon
    <3>4. k*Dword-1 = t+Dword-1
      BY <1>1, <2>1
    <3>5. QED
      BY <3>2, <3>3, <3>4
  <2> HIDE DEF p, q, t, z
  <2>3. ASSUME NEW a \in 0 .. MemSize-1
        PROVE  q[a] = IF a - (d + t) \in 0 .. Dword-1 THEN p[s + a - d] ELSE p[a]
    <3>1. CASE a - (d + t) \in 0 .. Dword-1
      <4>1. /\ a - d \in 0 .. t+Dword-1 /\ s + a - d \in 0 .. MemSize-1
            /\ s + a - d - d \notin 0 .. t-1 /\ a - d + s = s + a - d
        BY <1>1, <2>1, <3>1
      <4>2. QED
        BY <2>2, <3>1, <4>1
    <3>2. CASE a - (d + t) \notin 0 .. Dword-1
      <4>1. a - d \in 0 .. t+Dword-1 <=> a - d \in 0 .. t-1
        BY <1>1, <2>1, <3>2
      <4>2. QED
        BY <2>2, <3>2, <4>1
    <3>3. QED
      BY <3>1, <3>2
  <2>4. DOMAIN m = 0 .. MemSize-1 /\ q = [a \in 0 .. MemSize-1 |-> q[a]]
    BY <2>2 DEF IsMemory
  <2>5. q = [a \in DOMAIN m |-> IF a - (d + t) \in 0 .. Dword-1 THEN p[s + a - d] ELSE p[a]]
    BY <2>3, <2>4
  <2>6. QED
    BY <2>5 DEF p, q, t
<1>7. CopyDwords(m, d, s, n) = F[n]
  <2>1. F[0] = m
    BY <1>2, <1>5
  <2>2. ASSUME NEW k \in 1 .. n
        PROVE  F[k] = [a \in DOMAIN m |->
                 IF a - (d + (k - 1) * Dword) \in 0 .. Dword-1 THEN F[k - 1][s + a - d] ELSE F[k - 1][a]]
    <3>1. F[k] = e(k) /\ F[k - 1] = e(k - 1)
      BY <1>2
    <3>2. QED
      BY <1>6, <3>1
  <2> HIDE DEF F
  <2>3. DwordSteps(F, m, d, s, n)
    BY <1>3, <2>1, <2>2, Zenon DEF DwordSteps
  <2>4. QED
    BY <2>3, CopyDwordsIs
<1>8. QED
  BY <1>2, <1>7 DEF e

\* Bytes and those that follow them.
LEMMA MovedAgain ==
  ASSUME NEW m, IsMemory(m), NEW d \in Nat, NEW s \in Nat, NEW h \in Nat, NEW j \in Nat,
         Fits(d, h + j), Fits(s, h + j), Apart(d, s, h + j)
  PROVE  Moved(Moved(m, d, s, h), d + h, s + h, j) = Moved(m, d, s, h + j)
<1> DEFINE p == Moved(m, d, s, h)
           q == Moved(p, d + h, s + h, j)
           r == Moved(m, d, s, h + j)
<1>1. /\ MemSize \in Nat /\ d + h + j <= MemSize /\ s + h + j <= MemSize
      /\ d + h + j <= s \/ s + h + j <= d
  BY CallsAssumption DEF Fits, Apart
<1>2. /\ IsMemory(p) /\ IsMemory(r)
      /\ \A a \in 0 .. MemSize-1 : p[a] = IF a - d \in 0 .. h-1 THEN m[a - d + s] ELSE m[a]
      /\ \A a \in 0 .. MemSize-1 : r[a] = IF a - d \in 0 .. h+j-1 THEN m[a - d + s] ELSE m[a]
  BY MovedIsMemory
<1> HIDE DEF p, r
<1>3. /\ IsMemory(q)
      /\ \A a \in 0 .. MemSize-1 :
           q[a] = IF a - (d + h) \in 0 .. j-1 THEN p[a - (d + h) + (s + h)] ELSE p[a]
  BY <1>2, MovedIsMemory
<1> HIDE DEF q
<1>4. ASSUME NEW a \in 0 .. MemSize-1 PROVE q[a] = r[a]
  <2>1. CASE a - (d + h) \in 0 .. j-1
    <3> DEFINE b == a - d + s
    <3>1. /\ a - (d + h) + (s + h) = b /\ a - d \in 0 .. h+j-1
          /\ b \in 0 .. MemSize-1 /\ b - d \notin 0 .. h-1
      BY <1>1, <2>1
    <3> HIDE DEF b
    <3>2. q[a] = p[b] /\ p[b] = m[b]
      BY <1>2, <1>3, <2>1, <3>1
    <3>3. r[a] = m[b]
      BY <1>2, <3>1 DEF b
    <3>4. QED
      BY <3>2, <3>3
  <2>2. CASE a - (d + h) \notin 0 .. j-1
    <3>1. a - d \in 0 .. h+j-1 <=> a - d \in 0 .. h-1
      BY <1>1, <2>2
    <3>2. q[a] = p[a]
      BY <1>3, <2>2
    <3>3. QED
      BY <1>2, <3>1, <3>2
  <2>3. QED
    BY <2>1, <2>2
<1>5. q = r
  BY <1>2, <1>3, <1>4 DEF IsMemory
<1>6. QED
  BY <1>5 DEF p, q, r

LEMMA UnalignedIs ==
  ASSUME NEW a \in Nat, NEW n \in Nat
  PROVE  Unaligned(a, n) \in 0 .. n
<1> DEFINE k == (Dword - (a % Dword)) % Dword
<1>1. Dword \in Nat \ {0}
  BY LibraryAssumption
<1>2. a % Dword \in 0 .. Dword-1
  BY <1>1
<1>3. Dword - (a % Dword) \in Nat
  BY <1>1, <1>2
<1>4. k \in Nat
  BY <1>1, <1>3, Division
<1> HIDE DEF k
<1>5. Unaligned(a, n) = IF k < n THEN k ELSE n
  BY DEF Unaligned, k
<1>6. QED
  BY <1>4, <1>5

\* Whole double words are no more bytes than there are.
LEMMA WholeIs ==
  ASSUME NEW n \in Nat, NEW h \in 0 .. n
  PROVE  /\ (n - h) \div Dword \in Nat
         /\ ((n - h) \div Dword) * Dword \in 0 .. n - h
<1>1. Dword \in Nat \ {0} /\ n - h \in Nat
  BY LibraryAssumption
<1> DEFINE q == (n - h) \div Dword
           r == (n - h) % Dword
<1>2. q \in Nat /\ r \in 0 .. Dword-1 /\ n - h = q * Dword + r
  BY <1>1, Division
<1> HIDE DEF q, r
<1>3. q * Dword \in Nat
  BY <1>1, <1>2
<1>4. q * Dword \in 0 .. n - h
  BY <1>1, <1>2, <1>3
<1>5. QED
  BY <1>2, <1>4 DEF q

LEMMA MemcpyIs ==
  ASSUME NEW m, IsMemory(m), NEW d \in Nat, NEW s \in Nat, NEW n \in Nat,
         Fits(d, n), Fits(s, n), Apart(d, s, n)
  PROVE  memcpy(m, d, s, n) = Moved(m, d, s, n)
<1> DEFINE h == Unaligned(d, n)
           w == (n - h) \div Dword
           b == w * Dword
           e == h + b
           m1 == CopyBytes(m, d, s, Upto(h))
           m2 == CopyDwords(m1, d + h, s + h, w)
           m3 == CopyBytes(m2, d + e, s + e, Upto(n - e))
<1>1. h \in 0 .. n
  BY UnalignedIs
<1> HIDE DEF h
<1>2. w \in Nat /\ b \in 0 .. n - h
  BY <1>1, WholeIs
<1>3. memcpy(m, d, s, n) = m3
  BY DEF memcpy, h
<1> HIDE DEF w, b
<1>4. /\ MemSize \in Nat /\ d + n <= MemSize /\ s + n <= MemSize
      /\ d + n <= s \/ s + n <= d
  BY CallsAssumption DEF Fits, Apart
<1>5. /\ h \in Nat /\ b \in Nat /\ e \in Nat /\ n - e \in Nat
      /\ d + h \in Nat /\ s + h \in Nat /\ d + e \in Nat /\ s + e \in Nat
      /\ e + (n - e) = n
  BY <1>1, <1>2
<1>6. /\ Fits(d, h) /\ Fits(s, h) /\ (s >= d \/ s + h <= d)
      /\ Fits(d + h, b) /\ Fits(s + h, b) /\ Apart(d + h, s + h, b)
      /\ Fits(d, h + b) /\ Fits(s, h + b) /\ Apart(d, s, h + b)
      /\ Fits(d + e, n - e) /\ Fits(s + e, n - e) /\ (s + e >= d + e \/ s + e + (n - e) <= d + e)
      /\ Fits(d, e + (n - e)) /\ Fits(s, e + (n - e)) /\ Apart(d, s, e + (n - e))
  BY <1>1, <1>2, <1>4, <1>5 DEF Fits, Apart
<1>7. m1 = Moved(m, d, s, h) /\ IsMemory(m1)
  BY <1>5, <1>6, CopyUp, MovedIsMemory
<1> HIDE DEF m1
<1>8. m2 = Moved(m1, d + h, s + h, b)
  BY <1>2, <1>5, <1>6, <1>7, CopyDwordsApart DEF b
<1> HIDE DEF m2
<1>9. m2 = Moved(m, d, s, e) /\ IsMemory(m2)
  BY <1>5, <1>6, <1>7, <1>8, MovedAgain, MovedIsMemory
<1> HIDE DEF e
<1>10. m3 = Moved(m2, d + e, s + e, n - e)
  BY <1>5, <1>6, <1>9, CopyUp
<1> HIDE DEF m3
<1>11. m3 = Moved(m, d, s, e + (n - e))
  BY <1>5, <1>6, <1>9, <1>10, MovedAgain
<1>12. QED
  BY <1>3, <1>5, <1>11

LEMMA MemmoveIs ==
  ASSUME NEW m, IsMemory(m), NEW d \in Nat, NEW s \in Nat, NEW n \in Nat,
         Fits(d, n), Fits(s, n)
  PROVE  memmove(m, d, s, n) = Moved(m, d, s, n)
<1>1. CASE s >= d
  BY <1>1, CopyUp DEF memmove
<1>2. CASE s < d
  <2>1. ~(s >= d)
    BY <1>2
  <2>2. QED
    BY <1>2, <2>1, CopyDown DEF memmove
<1>3. QED
  BY <1>1, <1>2

LEMMA MemsetIs ==
  ASSUME NEW m, IsMemory(m), NEW d \in Nat, NEW c, NEW n \in Nat, Fits(d, n)
  PROVE  memset(m, d, c, n) = SetBytes(m, d, c, n)
<1> DEFINE h == Unaligned(d, n)
           b == ((n - h) \div Dword) * Dword
           r == n - h - b
           m1 == SetBytes(m, d, c, h)
           m2 == SetBytes(m1, d + h, c, b)
           m3 == SetBytes(m2, d + h + b, c, r)
<1>1. h \in 0 .. n
  BY UnalignedIs
<1>2. memset(m, d, c, n) = m3
  BY DEF memset
<1> HIDE DEF h
<1>3. b \in 0 .. n - h
  BY <1>1, WholeIs
<1> HIDE DEF b
<1>4. MemSize \in Nat /\ d + n <= MemSize /\ DOMAIN m = 0 .. MemSize-1
  BY CallsAssumption DEF Fits, IsMemory
<1>5. m1 = [a \in 0 .. MemSize-1 |-> IF a - d \in 0 .. h-1 THEN c ELSE m[a]]
  BY <1>4 DEF SetBytes
<1> HIDE DEF m1
<1>6. m2 = [a \in 0 .. MemSize-1 |-> IF a - (d + h) \in 0 .. b-1 THEN c ELSE m1[a]]
  BY <1>5 DEF SetBytes
<1> HIDE DEF m2
<1>7. m3 = [a \in 0 .. MemSize-1 |-> IF a - (d + h + b) \in 0 .. r-1 THEN c ELSE m2[a]]
  BY <1>6 DEF SetBytes
<1> HIDE DEF m3
<1>8. ASSUME NEW a \in 0 .. MemSize-1
      PROVE  m3[a] = IF a - d \in 0 .. n-1 THEN c ELSE m[a]
  <2>1. /\ m3[a] = IF a - (d + h + b) \in 0 .. r-1 THEN c ELSE m2[a]
        /\ m2[a] = IF a - (d + h) \in 0 .. b-1 THEN c ELSE m1[a]
        /\ m1[a] = IF a - d \in 0 .. h-1 THEN c ELSE m[a]
    BY <1>5, <1>6, <1>7
  <2>2. a - d \in 0 .. n-1 <=> \/ a - (d + h + b) \in 0 .. r-1
                              \/ a - (d + h) \in 0 .. b-1
                              \/ a - d \in 0 .. h-1
    BY <1>1, <1>3, <1>4
  <2>3. QED
    BY <2>1, <2>2, Zenon
<1>9. m3 = [a \in 0 .. MemSize-1 |-> IF a - d \in 0 .. n-1 THEN c ELSE m[a]]
  BY <1>7, <1>8
<1>10. QED
  BY <1>2, <1>4, <1>9 DEF SetBytes

\* memset, memcpy and memmove change the bytes they are asked to and no other, at
\* every alignment, for every length and size of a double word; memmove also when
\* the ranges overlap (lib.c:495, 578, 624).
THEOREM MovesBytesAlways == CallsSpec => []MovesBytes
<1>1. CallDone => MovesBytes
  <2> DEFINE op == request.op
             d == request.inode
             s == request.offset
             n == request.length
  <2> SUFFICES ASSUME op \in {"set", "cpy", "move"}, MemoryDone(op, d, s, n)
               PROVE  memory = [a \in DOMAIN Memory |->
                                  IF a - d \notin 0 .. n-1 THEN Memory[a]
                                  ELSE IF op = "set" THEN Filler ELSE Memory[a - d + s]]
    BY DEF CallDone, MovesBytes
  <2> HIDE DEF op, d, s, n
  <2>1. MemSize \in Nat /\ d \in Nat /\ s \in Nat /\ n \in Nat /\ Fits(d, n) /\ Fits(s, n)
    BY CallsAssumption DEF MemoryDone
  <2>2. IsMemory(Memory) /\ DOMAIN Memory = 0 .. MemSize-1
    BY DEF IsMemory, Memory
  <2>3. CASE op = "set"
    <3>1. memory = SetBytes(Memory, d, Filler, n)
      BY <2>1, <2>2, <2>3, MemsetIs DEF MemoryDone
    <3>2. QED
      BY <2>3, <3>1 DEF SetBytes
  <2>4. CASE op \in {"cpy", "move"}
    <3>1. memory = Moved(Memory, d, s, n)
      BY <2>1, <2>2, <2>4, MemcpyIs, MemmoveIs DEF MemoryDone
    <3>2. QED
      BY <2>4, <3>1 DEF Moved
  <2>5. QED
    BY <2>3, <2>4
<1>2. QED
  BY <1>1, CallsAreDone, PTL

(***************************************************************************)
(* Numbers.                                                                *)
(***************************************************************************)
\* g lists b, S[b], S[S[b]] and so on, n times.
Run(g, n, V, S, b) ==
  /\ g \in [0 .. n -> V] /\ g[0] = b
  /\ \A k \in 1 .. n : g[k] = S[g[k - 1]]

LEMMA RunsAgree ==
  ASSUME NEW V, NEW S, NEW b, NEW n \in Nat, NEW m \in Nat, n <= m,
         NEW g, NEW h, Run(g, n, V, S, b), Run(h, m, V, S, b)
  PROVE  g[n] = h[n]
<1> DEFINE T == {k \in 0 .. n : g[k] # h[k]}
<1> SUFFICES ASSUME T # {} PROVE FALSE
  OBVIOUS
<1>1. T \in SUBSET Nat
  OBVIOUS
<1>2. PICK k \in T : \A j \in T : k <= j
  <2> HIDE DEF T
  <2>1. QED
    BY <1>1, Least
<1>3. k \in 0 .. n /\ k # 0 /\ g[k] # h[k]
  BY DEF Run
<1>4. g[k - 1] = h[k - 1]
  BY <1>2, <1>3
<1>5. g[k] = S[g[k - 1]] /\ h[k] = S[h[k - 1]]
  BY <1>3 DEF Run
<1>6. QED
  BY <1>3, <1>4, <1>5

LEMMA RunExists ==
  ASSUME NEW V, NEW S \in [V -> V], NEW b \in V, NEW n \in Nat
  PROVE  \E g : Run(g, n, V, S, b)
<1> DEFINE T == {k \in Nat : ~\E g : Run(g, k, V, S, b)}
<1> SUFFICES ASSUME T # {} PROVE FALSE
  OBVIOUS
<1>1. T \in SUBSET Nat
  OBVIOUS
<1>2. PICK k \in T : \A j \in T : k <= j
  <2> HIDE DEF T
  <2>1. QED
    BY <1>1, Least
<1>3. k \in Nat /\ ~\E g : Run(g, k, V, S, b)
  OBVIOUS
<1>4. CASE k = 0
  <2>1. Run([j \in 0 .. 0 |-> b], 0, V, S, b)
    BY DEF Run
  <2>2. QED
    BY <1>3, <1>4, <2>1
<1>5. CASE k # 0
  <2>1. k - 1 \in Nat /\ k - 1 \notin T
    BY <1>2, <1>3, <1>5
  <2>2. PICK h : Run(h, k - 1, V, S, b)
    BY <2>1
  <2> DEFINE g == [j \in 0 .. k |-> IF j = k THEN S[h[k - 1]] ELSE h[j]]
  <2>3. h \in [0 .. k - 1 -> V] /\ h[0] = b /\ \A j \in 1 .. k - 1 : h[j] = S[h[j - 1]]
    BY <2>2 DEF Run
  <2>4. g \in [0 .. k -> V]
    BY <1>3, <1>5, <2>3
  <2>5. g[k] = S[h[k - 1]] /\ \A j \in 0 .. k - 1 : g[j] = h[j]
    BY <1>3, <1>5
  <2> HIDE DEF g
  <2>6. g[0] = b
    BY <1>3, <1>5, <2>3, <2>5
  <2>7. ASSUME NEW j \in 1 .. k PROVE g[j] = S[g[j - 1]]
    <3>1. CASE j = k
      BY <1>3, <1>5, <2>5, <3>1
    <3>2. CASE j # k
      BY <1>3, <2>3, <2>5, <3>2
    <3>3. QED
      BY <3>1, <3>2
  <2>8. Run(g, k, V, S, b)
    BY <2>4, <2>6, <2>7 DEF Run
  <2>9. QED
    BY <1>3, <2>8
<1>6. QED
  BY <1>4, <1>5

Iterates(f, V, S, b) == f \in [Nat -> V] /\ f[0] = b /\ \A k \in Nat : f[k + 1] = S[f[k]]

LEMMA Iteration ==
  ASSUME NEW V, NEW S \in [V -> V], NEW b \in V
  PROVE  \E f : Iterates(f, V, S, b)
<1> DEFINE R(k) == CHOOSE g : Run(g, k, V, S, b)
           f == [k \in Nat |-> R(k)[k]]
<1>1. ASSUME NEW k \in Nat PROVE Run(R(k), k, V, S, b)
  <2>1. \E g : Run(g, k, V, S, b)
    BY RunExists
  <2>2. QED
    BY <2>1, Zenon
<1> HIDE DEF R
<1>2. ASSUME NEW k \in Nat PROVE R(k)[k] \in V
  BY <1>1 DEF Run
<1>3. f \in [Nat -> V] /\ \A k \in Nat : f[k] = R(k)[k]
  BY <1>2
<1> HIDE DEF f
<1>4. f[0] = b
  BY <1>1, <1>3 DEF Run
<1>5. ASSUME NEW k \in Nat PROVE f[k + 1] = S[f[k]]
  <2>1. R(k)[k] = R(k + 1)[k]
    <3>1. k + 1 \in Nat /\ k <= k + 1
      OBVIOUS
    <3>2. Run(R(k), k, V, S, b) /\ Run(R(k + 1), k + 1, V, S, b)
      BY <1>1, <3>1
    <3>3. QED
      BY <3>1, <3>2, RunsAgree
  <2>2. R(k + 1)[k + 1] = S[R(k + 1)[k]]
    <3>1. k + 1 \in Nat /\ k + 1 \in 1 .. k + 1 /\ (k + 1) - 1 = k
      OBVIOUS
    <3>2. Run(R(k + 1), k + 1, V, S, b)
      BY <1>1, <3>1
    <3>3. QED
      BY <3>1, <3>2 DEF Run
  <2>3. QED
    BY <1>3, <2>1, <2>2
<1>6. Iterates(f, V, S, b)
  BY <1>3, <1>4, <1>5 DEF Iterates
<1>7. QED
  BY <1>6

\* newval is divided in each round.
LEMMA NewvalIs ==
  ASSUME NEW v \in Nat, NEW r \in 2 .. 16
  PROVE  /\ newval(v, r) \in [Nat -> Nat] /\ newval(v, r)[0] = v
         /\ \A k \in Nat : newval(v, r)[k + 1] = newval(v, r)[k] \div r
<1> DEFINE Eq(f) == f = [k \in Nat |-> IF k = 0 THEN v ELSE f[k - 1] \div r]
           S == [x \in Nat |-> x \div r]
<1>1. \A x \in Nat : x \div r \in Nat
  BY Division
<1>2. S \in [Nat -> Nat] /\ \A x \in Nat : S[x] = x \div r
  BY <1>1
<1> HIDE DEF S
<1> HIDE DEF Eq
<1>3. PICK f : f \in [Nat -> Nat] /\ f[0] = v /\ \A k \in Nat : f[k + 1] = S[f[k]]
  <2>1. \E g : Iterates(g, Nat, S, v)
    BY <1>2, Iteration
  <2>2. QED
    BY <2>1 DEF Iterates
<1>4. \A k \in Nat : f[k] = IF k = 0 THEN v ELSE f[k - 1] \div r
  <2> SUFFICES ASSUME NEW k \in Nat, k # 0 PROVE f[k] = f[k - 1] \div r
    BY <1>3
  <2>1. k - 1 \in Nat /\ (k - 1) + 1 = k
    OBVIOUS
  <2>2. f[k] = S[f[k - 1]] /\ f[k - 1] \in Nat
    BY <1>3, <2>1
  <2>3. QED
    BY <1>2, <2>2
<1>5. Eq(f)
  BY <1>3, <1>4 DEF Eq
<1>6. newval(v, r) = CHOOSE g : Eq(g)
  BY DEF newval, Eq
<1>7. ASSUME NEW g, Eq(g)
      PROVE  g \in [Nat -> Nat] /\ g[0] = v /\ \A k \in Nat : g[k + 1] = g[k] \div r
  <2>1. \A k \in Nat : g[k] = IF k = 0 THEN v ELSE g[k - 1] \div r
    BY <1>7 DEF Eq
  <2>2. g = [k \in Nat |-> g[k]]
    BY <1>7, <2>1 DEF Eq
  <2>3. g[0] = v
    BY <2>1
  <2>4. ASSUME NEW k \in Nat PROVE g[k + 1] = g[k] \div r
    BY <2>1
  <2> DEFINE T == {k \in Nat : g[k] \notin Nat}
  <2>5. T = {}
    <3> SUFFICES ASSUME T # {} PROVE FALSE
      OBVIOUS
    <3>1. T \in SUBSET Nat
      OBVIOUS
    <3>2. PICK k \in T : \A j \in T : k <= j
      <4> HIDE DEF T
      <4>1. QED
        BY <3>1, Least
    <3>3. k \in Nat /\ g[k] \notin Nat /\ k # 0
      BY <2>3
    <3>4. k - 1 \in Nat /\ k - 1 \notin T
      BY <3>2, <3>3
    <3>5. g[k - 1] \in Nat
      BY <3>4
    <3>6. g[k] = g[k - 1] \div r
      BY <2>1, <3>3
    <3>7. QED
      BY <1>1, <3>3, <3>5, <3>6
  <2>6. QED
    BY <2>2, <2>3, <2>4, <2>5
<1>8. Eq(CHOOSE g : Eq(g))
  BY <1>5, Zenon
<1>9. QED
  BY <1>6, <1>7, <1>8

LEMMA Divided ==
  ASSUME NEW a \in Nat, NEW r \in 2 .. 16
  PROVE  /\ a \div r \in Nat /\ a % r \in 0 .. r-1 /\ a = (a \div r) * r + (a % r)
         /\ a > 0 => a \div r < a
         /\ a = 0 => a \div r = 0 /\ a % r = 0
         /\ a \div r = 0 => a % r = a
<1> DEFINE q == a \div r
           s == a % r
<1>1. q \in Nat /\ s \in 0 .. r-1 /\ a = q * r + s
  BY Division
<1> HIDE DEF q, s
<1>2. q * r >= 2 * q
  BY <1>1
<1>3. q = 0 => q * r = 0
  BY <1>1
<1>4. q * r \in Nat
  BY <1>1
<1>5. a > 0 => q < a
  BY <1>1, <1>2, <1>4
<1>6. a = 0 => q = 0 /\ s = 0
  BY <1>1, <1>2, <1>4
<1>7. QED
  BY <1>1, <1>3, <1>5, <1>6 DEF q, s

\* Once newval is zero it stays zero, and it is zero after at most v rounds.
LEMMA NewvalFalls ==
  ASSUME NEW v \in Nat, NEW r \in 2 .. 16
  PROVE  /\ \A k, j \in Nat : newval(v, r)[k] = 0 /\ k <= j => newval(v, r)[j] = 0
         /\ newval(v, r)[v] = 0
<1> DEFINE nv == newval(v, r)
<1>1. nv \in [Nat -> Nat] /\ nv[0] = v /\ \A k \in Nat : nv[k + 1] = nv[k] \div r
  BY NewvalIs
<1> HIDE DEF nv
<1>2. ASSUME NEW k \in Nat, k # 0
      PROVE  k - 1 \in Nat /\ nv[k] = nv[k - 1] \div r /\ nv[k - 1] \in Nat /\ nv[k] \in Nat
  <2>1. k - 1 \in Nat /\ (k - 1) + 1 = k
    BY <1>2
  <2>2. QED
    BY <1>1, <2>1
<1>3. ASSUME NEW k \in Nat, NEW l \in Nat, nv[k] = 0, k <= l PROVE nv[l] = 0
  <2> DEFINE T == {j \in Nat : j >= k /\ nv[j] # 0}
  <2> SUFFICES ASSUME T # {} PROVE FALSE
    BY <1>3
  <2>1. T \in SUBSET Nat
    OBVIOUS
  <2>2. PICK j \in T : \A i \in T : j <= i
    <3> HIDE DEF T
    <3>1. QED
      BY <2>1, Least
  <2>3. j \in Nat /\ j > k /\ nv[j] # 0
    BY <1>3
  <2>4. nv[j - 1] = 0
    BY <2>2, <2>3
  <2>5. nv[j] = nv[j - 1] \div r
    BY <1>2, <2>3
  <2>6. QED
    BY <2>3, <2>4, <2>5, Divided
<1>4. ASSUME NEW k \in Nat PROVE nv[k] = 0 \/ nv[k] <= v - k
  <2> DEFINE T == {j \in Nat : ~(nv[j] = 0 \/ nv[j] <= v - j)}
  <2> SUFFICES ASSUME T # {} PROVE FALSE
    OBVIOUS
  <2>1. T \in SUBSET Nat
    OBVIOUS
  <2>2. PICK j \in T : \A i \in T : j <= i
    <3> HIDE DEF T
    <3>1. QED
      BY <2>1, Least
  <2>3. j \in Nat /\ nv[j] # 0 /\ ~(nv[j] <= v - j)
    OBVIOUS
  <2>4. j # 0
    BY <1>1, <2>3
  <2>5. j - 1 \in Nat /\ nv[j] = nv[j - 1] \div r /\ nv[j - 1] \in Nat /\ nv[j] \in Nat
    BY <1>2, <2>3, <2>4
  <2>6. nv[j - 1] = 0 \/ nv[j - 1] <= v - (j - 1)
    BY <2>2, <2>3, <2>5
  <2>7. nv[j - 1] # 0
    BY <2>3, <2>5, Divided
  <2>8. nv[j] < nv[j - 1]
    BY <2>5, <2>7, Divided
  <2>9. QED
    BY <2>3, <2>5, <2>6, <2>7, <2>8
<1>5. nv[v] = 0
  <2>1. nv[v] \in Nat /\ v - v = 0
    BY <1>1
  <2>2. QED
    BY <1>4, <2>1
<1>6. QED
  BY <1>3, <1>5 DEF nv

\* A smaller number is never ahead of a greater one.
LEMMA NewvalMonotone ==
  ASSUME NEW v \in Nat, NEW w \in Nat, v <= w, NEW r \in 2 .. 16, NEW n \in Nat
  PROVE  newval(v, r)[n] <= newval(w, r)[n]
<1> DEFINE f == newval(v, r)
           g == newval(w, r)
<1>1. /\ f \in [Nat -> Nat] /\ f[0] = v /\ \A k \in Nat : f[k + 1] = f[k] \div r
      /\ g \in [Nat -> Nat] /\ g[0] = w /\ \A k \in Nat : g[k + 1] = g[k] \div r
  BY NewvalIs
<1> HIDE DEF f, g
<1> DEFINE T == {k \in Nat : ~(f[k] <= g[k])}
<1> SUFFICES ASSUME T # {} PROVE FALSE
  BY DEF f, g
<1>2. T \in SUBSET Nat
  OBVIOUS
<1>3. PICK k \in T : \A j \in T : k <= j
  <2> HIDE DEF T
  <2>1. QED
    BY <1>2, Least
<1>4. k \in Nat /\ k # 0 /\ ~(f[k] <= g[k])
  BY <1>1
<1>5. k - 1 \in Nat /\ (k - 1) + 1 = k /\ f[k - 1] <= g[k - 1]
  BY <1>3, <1>4
<1> DEFINE a == f[k - 1]
           b == g[k - 1]
<1>6. a \in Nat /\ b \in Nat /\ a <= b /\ f[k] = a \div r /\ g[k] = b \div r
  BY <1>1, <1>5
<1> HIDE DEF a, b
<1>7. a \div r <= b \div r
  <2> DEFINE p == a \div r
             q == b \div r
             s == a % r
             t == b % r
  <2>1. /\ p \in Nat /\ s \in 0 .. r-1 /\ a = p * r + s
        /\ q \in Nat /\ t \in 0 .. r-1 /\ b = q * r + t
    BY <1>6, Divided
  <2> HIDE DEF p, q, s, t
  <2>2. ASSUME p >= q + 1 PROVE FALSE
    <3>1. p * r >= (q + 1) * r
      BY <2>1, <2>2
    <3>2. (q + 1) * r = q * r + r
      BY <2>1
    <3>3. p * r \in Nat /\ q * r \in Nat
      BY <2>1
    <3>4. QED
      BY <1>6, <2>1, <3>1, <3>2, <3>3
  <2>3. p <= q
    BY <2>1, <2>2
  <2>4. QED
    BY <2>3 DEF p, q
<1>8. QED
  BY <1>4, <1>6, <1>7

\* How many rounds itoa makes.
Rounds(v, r, n) ==
  /\ n \in 0 .. v /\ newval(v, r)[n] = 0
  /\ \A j \in 0 .. n-1 : newval(v, r)[j] > 0

LEMMA RoundsExist ==
  ASSUME NEW v \in Nat, NEW r \in 2 .. 16
  PROVE  \E n \in 0 .. v : Rounds(v, r, n) /\ \A k \in 0 .. v : Rounds(v, r, k) => k = n
<1> DEFINE nv == newval(v, r)
           T == {k \in 0 .. v : nv[k] = 0}
<1>1. nv \in [Nat -> Nat] /\ nv[v] = 0
  BY NewvalIs, NewvalFalls
<1> HIDE DEF nv
<1>2. T \in SUBSET Nat /\ v \in T
  BY <1>1
<1>3. PICK n \in T : \A j \in T : n <= j
  <2> HIDE DEF T
  <2>1. QED
    BY <1>2, Least
<1>4. n \in 0 .. v /\ nv[n] = 0 /\ \A j \in 0 .. n-1 : nv[j] > 0
  <2>1. n \in 0 .. v /\ nv[n] = 0
    OBVIOUS
  <2>2. ASSUME NEW j \in 0 .. n-1 PROVE nv[j] > 0
    <3>1. j \in 0 .. v /\ ~(n <= j) /\ nv[j] \in Nat
      BY <1>1, <2>1
    <3>2. nv[j] # 0
      BY <1>3, <3>1
    <3>3. QED
      BY <3>1, <3>2
  <2>3. QED
    BY <2>1, <2>2
<1>5. Rounds(v, r, n)
  BY <1>4 DEF Rounds, nv
<1>6. ASSUME NEW k \in 0 .. v, Rounds(v, r, k) PROVE k = n
  <2>1. nv[k] = 0 /\ \A j \in 0 .. k-1 : nv[j] > 0
    BY <1>6 DEF Rounds, nv
  <2>2. n <= k
    BY <1>3, <2>1
  <2>3. ~(n < k)
    <3> SUFFICES ASSUME n < k PROVE FALSE
      OBVIOUS
    <3>1. n \in 0 .. k-1
      BY <1>4
    <3>2. QED
      BY <1>4, <2>1, <3>1
  <2>4. QED
    BY <1>4, <2>2, <2>3
<1>7. QED
  BY <1>4, <1>5, <1>6

\* strrev reverses, however many characters there are.
LEMMA StrrevIs ==
  ASSUME NEW X, NEW s \in Seq(X)
  PROVE  strrev(s) = [i \in 1 .. Len(s) |-> s[Len(s) + 1 - i]]
<1> DEFINE L == Len(s)
           n == L \div 2
           G(b) == [i \in 1 .. L |-> IF i <= b \/ i > L - b THEN s[L + 1 - i] ELSE s[i]]
           Eq(f) == f = [b \in 0 .. n |-> IF b = 0 THEN s ELSE Swap(f[b - 1], b, L + 1 - b)]
           F == [b \in 0 .. n |-> G(b)]
<1>1. L \in Nat /\ DOMAIN s = 1 .. L /\ s = [i \in 1 .. L |-> s[i]]
  OBVIOUS
<1>2. strrev(s) = (CHOOSE f : Eq(f))[n]
  BY DEF strrev, strlen
<1> HIDE DEF L
<1>3. n \in Nat /\ 2 * n <= L /\ L <= 2 * n + 1
  BY <1>1
<1> HIDE DEF n
<1>4. G(0) = s
  <2>1. \A i \in 1 .. L : ~(i <= 0 \/ i > L - 0)
    BY <1>1
  <2>2. QED
    BY <1>1, <2>1
<1>5. ASSUME NEW b \in 1 .. n PROVE G(b) = Swap(G(b - 1), b, L + 1 - b)
  <2> DEFINE p == G(b - 1)
             e == L + 1 - b
  <2>1. b \in 1 .. L /\ e \in 1 .. L /\ b < e
    BY <1>1, <1>3
  <2>2. /\ DOMAIN p = 1 .. L
        /\ \A i \in 1 .. L : p[i] = IF i <= b - 1 \/ i > L - (b - 1) THEN s[L + 1 - i] ELSE s[i]
    OBVIOUS
  <2>3. p[b] = s[b] /\ p[e] = s[e] /\ L + 1 - e = b
    BY <1>1, <1>3, <2>1, <2>2
  <2> HIDE DEF p, G
  <2>4. Swap(p, b, e) = [i \in 1 .. L |-> IF i = b THEN s[e] ELSE IF i = e THEN s[b] ELSE p[i]]
    BY <2>2, <2>3 DEF Swap
  <2>5. ASSUME NEW i \in 1 .. L
        PROVE  (IF i = b THEN s[e] ELSE IF i = e THEN s[b] ELSE p[i])
                 = IF i <= b \/ i > L - b THEN s[L + 1 - i] ELSE s[i]
    <3>1. CASE i = b
      BY <1>1, <3>1
    <3>2. CASE i = e
      <4>1. i # b /\ i > L - b /\ L + 1 - i = b
        BY <1>1, <2>1, <3>2
      <4>2. QED
        BY <3>2, <4>1
    <3>3. CASE i # b /\ i # e
      <4>1. (i <= b - 1 \/ i > L - (b - 1)) <=> (i <= b \/ i > L - b)
        BY <1>1, <1>3, <3>3
      <4>2. QED
        BY <2>2, <3>3, <4>1
    <3>4. QED
      BY <3>1, <3>2, <3>3
  <2>6. G(b) = [i \in 1 .. L |-> IF i <= b \/ i > L - b THEN s[L + 1 - i] ELSE s[i]]
    BY DEF G
  <2>7. Swap(p, b, e) = G(b)
    BY <2>4, <2>5, <2>6
  <2>8. QED
    BY <2>7 DEF p
<1>6. G(n) = [i \in 1 .. L |-> s[L + 1 - i]]
  <2>1. ASSUME NEW i \in 1 .. L
        PROVE  (IF i <= n \/ i > L - n THEN s[L + 1 - i] ELSE s[i]) = s[L + 1 - i]
    <3>1. CASE i <= n \/ i > L - n
      BY <3>1
    <3>2. CASE ~(i <= n \/ i > L - n)
      <4>1. L + 1 - i = i
        BY <1>1, <1>3, <3>2
      <4>2. QED
        BY <3>2, <4>1
    <3>3. QED
      BY <3>1, <3>2
  <2>2. QED
    BY <2>1
<1> HIDE DEF G
<1>7. \A b \in 0 .. n : F[b] = G(b)
  OBVIOUS
<1>8. Eq(F)
  <2>1. ASSUME NEW b \in 0 .. n
        PROVE  G(b) = IF b = 0 THEN s ELSE Swap(F[b - 1], b, L + 1 - b)
    <3>1. CASE b = 0
      BY <1>4, <3>1
    <3>2. CASE b # 0
      <4>1. b \in 1 .. n /\ b - 1 \in 0 .. n
        BY <1>3, <3>2
      <4>2. F[b - 1] = G(b - 1)
        BY <4>1
      <4>3. QED
        BY <1>5, <3>2, <4>1, <4>2
    <3>3. QED
      BY <3>1, <3>2
  <2>2. QED
    BY <2>1
<1>9. ASSUME NEW g, Eq(g) PROVE g[n] = F[n]
  <2> DEFINE T == {b \in 0 .. n : g[b] # F[b]}
  <2> SUFFICES ASSUME T # {} PROVE FALSE
    BY <1>3
  <2>1. T \in SUBSET Nat
    BY <1>3
  <2>2. PICK b \in T : \A j \in T : b <= j
    <3> HIDE DEF T
    <3>1. QED
      BY <2>1, Least
  <2>3. b \in 0 .. n /\ g[b] # F[b] /\ \A j \in 0 .. n : g[j] # F[j] => b <= j
    BY <2>2
  <2> HIDE DEF T, F
  <2>4. g[0] = s /\ F[0] = s
    BY <1>3, <1>8, <1>9
  <2>5. b # 0 /\ b - 1 \in 0 .. n
    BY <1>3, <2>3, <2>4
  <2>6. g[b - 1] = F[b - 1]
    BY <1>3, <2>3, <2>5
  <2>7. g[b] = Swap(g[b - 1], b, L + 1 - b)
    BY <1>9, <2>3, <2>5
  <2>8. F[b] = Swap(F[b - 1], b, L + 1 - b)
    BY <1>8, <2>3, <2>5
  <2>9. QED
    BY <2>3, <2>6, <2>7, <2>8
<1> HIDE DEF Eq
<1>10. Eq(CHOOSE f : Eq(f))
  BY <1>8, Zenon
<1>11. strrev(s) = F[n]
  BY <1>2, <1>9, <1>10
<1>12. QED
  BY <1>3, <1>6, <1>7, <1>11 DEF L

LEMMA LookupFacts ==
  /\ DOMAIN lookup = 1 .. 16
  /\ \A i, j \in 1 .. 16 : lookup[i] = lookup[j] => i = j
  /\ lookup[1] = "0"
BY DEF lookup

\* A digit has its value.
LEMMA DigitIs ==
  ASSUME NEW d \in 0 .. 15
  PROVE  Digit(lookup[d + 1]) = d
<1> DEFINE c == lookup[d + 1]
<1>1. d + 1 \in 1 .. 16
  OBVIOUS
<1>2. \A i \in 1 .. 16 : lookup[i] = c <=> i = d + 1
  BY <1>1, LookupFacts
<1> HIDE DEF c
<1>3. (CHOOSE i \in 1 .. 16 : lookup[i] = c) = d + 1
  BY <1>1, <1>2, Zenon
<1>4. QED
  BY <1>3, LookupFacts DEF Digit, c

\* The n characters of d are those itoa's rounds find, the last one first.
DigitsOf(d, v, r, n) == \A k \in 1 .. n : d[k] = lookup[(newval(v, r)[n - k] % r) + 1]

\* The digits of v, with as many zeros before them as there is room for, stand for v.
LEMMA NumeralIs ==
  ASSUME NEW v \in Nat, NEW r \in 2 .. 16, NEW n \in Nat, NEW digits, Len(digits) = n,
         newval(v, r)[n] = 0, DigitsOf(digits, v, r, n)
  PROVE  Numeral(digits, r) = v
<1> DEFINE nv == newval(v, r)
           Eq(f) == f = [k \in 0 .. n |-> IF k = 0 THEN 0 ELSE f[k - 1] * r + Digit(digits[k])]
           F == [k \in 0 .. n |-> nv[n - k]]
<1>1. nv \in [Nat -> Nat] /\ nv[0] = v /\ \A k \in Nat : nv[k + 1] = nv[k] \div r
  BY NewvalIs
<1>2. Numeral(digits, r) = (CHOOSE f : Eq(f))[n]
  BY DEF Numeral
<1>3. nv[n] = 0 /\ \A k \in 1 .. n : digits[k] = lookup[(nv[n - k] % r) + 1]
  BY DEF DigitsOf
<1> HIDE DEF nv
<1>4. ASSUME NEW k \in 1 .. n
      PROVE  nv[n - k] = nv[n - (k - 1)] * r + Digit(digits[k])
  <2> DEFINE a == nv[n - k]
  <2>1. n - k \in Nat /\ (n - k) + 1 = n - (k - 1)
    OBVIOUS
  <2>2. a \in Nat /\ nv[n - (k - 1)] = a \div r
    BY <1>1, <2>1
  <2>3. digits[k] = lookup[(a % r) + 1]
    BY <1>3
  <2> HIDE DEF a
  <2>4. a % r \in 0 .. r-1 /\ a = (a \div r) * r + (a % r)
    BY <2>2, Divided
  <2>5. Digit(digits[k]) = a % r
    <3>1. a % r \in 0 .. 15
      <4> DEFINE x == a % r
      <4>1. x \in 0 .. r-1
        BY <2>4
      <4> HIDE DEF x
      <4>2. x \in 0 .. 15
        BY <4>1
      <4>3. QED
        BY <4>2 DEF x
    <3>2. Digit(lookup[(a % r) + 1]) = a % r
      BY <3>1, DigitIs
    <3>3. QED
      BY <2>3, <3>2
  <2>6. QED
    BY <2>2, <2>4, <2>5 DEF a
<1>5. \A k \in 0 .. n : F[k] = nv[n - k]
  OBVIOUS
<1>6. Eq(F)
  <2>1. ASSUME NEW k \in 0 .. n
        PROVE  nv[n - k] = IF k = 0 THEN 0 ELSE F[k - 1] * r + Digit(digits[k])
    <3>1. CASE k = 0
      <4>1. n - k = n
        BY <3>1
      <4>2. QED
        BY <1>3, <3>1, <4>1
    <3>2. CASE k # 0
      <4>1. k \in 1 .. n /\ k - 1 \in 0 .. n
        BY <3>2
      <4>2. F[k - 1] = nv[n - (k - 1)]
        BY <4>1
      <4>3. QED
        BY <1>4, <3>2, <4>1, <4>2
    <3>3. QED
      BY <3>1, <3>2
  <2>2. QED
    BY <2>1
<1>7. ASSUME NEW g, Eq(g) PROVE g[n] = F[n]
  <2> DEFINE T == {k \in 0 .. n : g[k] # F[k]}
  <2> SUFFICES ASSUME T # {} PROVE FALSE
    OBVIOUS
  <2>1. T \in SUBSET Nat
    OBVIOUS
  <2>2. PICK k \in T : \A j \in T : k <= j
    <3> HIDE DEF T
    <3>1. QED
      BY <2>1, Least
  <2>3. k \in 0 .. n /\ g[k] # F[k] /\ \A j \in 0 .. n : g[j] # F[j] => k <= j
    BY <2>2
  <2> HIDE DEF T, F
  <2>4. g[0] = 0 /\ F[0] = 0
    BY <1>6, <1>7
  <2>5. k # 0 /\ k - 1 \in 0 .. n
    BY <2>3, <2>4
  <2>6. g[k - 1] = F[k - 1]
    BY <2>3, <2>5
  <2>7. g[k] = g[k - 1] * r + Digit(digits[k])
    BY <1>7, <2>3, <2>5
  <2>8. F[k] = F[k - 1] * r + Digit(digits[k])
    BY <1>6, <2>3, <2>5
  <2>9. QED
    BY <2>3, <2>6, <2>7, <2>8
<1> HIDE DEF Eq
<1>8. Eq(CHOOSE f : Eq(f))
  BY <1>6, Zenon
<1>9. Numeral(digits, r) = F[n]
  BY <1>2, <1>7, <1>8
<1>10. n - n = 0
  OBVIOUS
<1>11. QED
  BY <1>1, <1>5, <1>9, <1>10

\* d are the n digits of v, of which there are no more than v needs.
Digits == {lookup[i] : i \in 1 .. 16}

IsDigits(d, v, r, n) ==
  /\ d \in Seq(Digits) /\ Len(d) = n /\ n \in Nat \ {0}
  /\ newval(v, r)[n] = 0 /\ DigitsOf(d, v, r, n)
  /\ n = 1 \/ newval(v, r)[n - 1] > 0

LEMMA ItoaIs ==
  ASSUME NEW v \in Nat, NEW r \in 2 .. 16
  PROVE  \E n : IsDigits(itoa(v, r), v, r, n)
<1> DEFINE nv == newval(v, r)
<1>1. nv \in [Nat -> Nat] /\ nv[0] = v /\ \A k \in Nat : nv[k + 1] = nv[k] \div r
  BY NewvalIs
<1> HIDE DEF nv
<1>2. ASSUME NEW k \in Nat
      PROVE  (nv[k] % r) + 1 \in 1 .. 16 /\ lookup[(nv[k] % r) + 1] \in Digits
  <2>1. nv[k] \in Nat
    BY <1>1
  <2>2. nv[k] % r \in 0 .. r-1
    BY <2>1, Divided
  <2>3. (nv[k] % r) + 1 \in 1 .. 16
    BY <2>2
  <2>4. QED
    BY <2>3 DEF Digits
<1>3. CASE v = 0
  <2> DEFINE z == <<"0">>
  <2>1. itoa(v, r) = z
    BY <1>3 DEF itoa
  <2>2. "0" \in Digits
    BY LookupFacts DEF Digits
  <2>3. z \in Seq(Digits) /\ Len(z) = 1 /\ z[1] = "0"
    BY <2>2
  <2> HIDE DEF z
  <2>4. nv[0] % r = 0 /\ nv[0] \div r = 0
    BY <1>1, <1>3, Divided
  <2>5. nv[1] = 0
    <3>1. 0 + 1 = 1 /\ 0 \in Nat
      OBVIOUS
    <3>2. nv[0 + 1] = nv[0] \div r
      BY <1>1, <3>1
    <3>3. QED
      BY <2>4, <3>1, <3>2
  <2>6. lookup[(nv[0] % r) + 1] = "0"
    BY <2>4, LookupFacts
  <2>7. \A k \in 1 .. 1 : z[k] = lookup[(nv[1 - k] % r) + 1]
    BY <2>3, <2>6
  <2>8. IsDigits(z, v, r, 1)
    BY <2>3, <2>5, <2>7 DEF IsDigits, DigitsOf, nv
  <2>9. QED
    BY <2>1, <2>8
<1>4. CASE v # 0
  <2>1. PICK n \in 0 .. v : Rounds(v, r, n) /\ \A k \in 0 .. v : Rounds(v, r, k) => k = n
    BY RoundsExist
  <2>2. n \in Nat /\ nv[n] = 0 /\ \A j \in 0 .. n-1 : nv[j] > 0
    BY <2>1 DEF Rounds, nv
  <2>3. n # 0
    BY <1>1, <1>4, <2>2
  <2> DEFINE t == [i \in 1 .. n |-> lookup[(nv[i - 1] % r) + 1]]
             d == [i \in 1 .. n |-> t[n + 1 - i]]
  <2>4. (CHOOSE k \in 0 .. v : nv[k] = 0 /\ \A j \in 0 .. k-1 : nv[j] > 0) = n
    <3>1. \A k \in 0 .. v : (nv[k] = 0 /\ \A j \in 0 .. k-1 : nv[j] > 0) => k = n
      BY <2>1 DEF Rounds, nv
    <3>2. n \in 0 .. v /\ nv[n] = 0 /\ \A j \in 0 .. n-1 : nv[j] > 0
      BY <2>1, <2>2
    <3>3. QED
      BY <3>1, <3>2, Zenon
  <2>5. itoa(v, r) = strrev(t)
    BY <1>4, <2>4 DEF itoa, nv
  <2>6. t \in Seq(Digits) /\ Len(t) = n /\ \A i \in 1 .. n : t[i] = lookup[(nv[i - 1] % r) + 1]
    <3>1. \A i \in 1 .. n : lookup[(nv[i - 1] % r) + 1] \in Digits
      BY <1>2, <2>2
    <3>2. QED
      BY <2>2, <3>1
  <2> HIDE DEF t
  <2>7. strrev(t) = d
    BY <2>6, StrrevIs
  <2>8. ASSUME NEW k \in 1 .. n PROVE d[k] = lookup[(nv[n - k] % r) + 1] /\ d[k] \in Digits
    <3>1. n + 1 - k \in 1 .. n /\ (n + 1 - k) - 1 = n - k /\ n - k \in Nat
      BY <2>2
    <3>2. d[k] = t[n + 1 - k]
      OBVIOUS
    <3>3. QED
      BY <1>2, <2>6, <3>1, <3>2
  <2>9. d \in Seq(Digits) /\ Len(d) = n
    <3>1. d = [i \in 1 .. n |-> d[i]]
      OBVIOUS
    <3> HIDE DEF d
    <3>2. QED
      BY <2>2, <2>8, <3>1
  <2> HIDE DEF d
  <2>10. nv[n - 1] > 0
    BY <2>2, <2>3
  <2>11. IsDigits(d, v, r, n)
    BY <2>2, <2>3, <2>8, <2>9, <2>10 DEF IsDigits, DigitsOf, nv
  <2>12. QED
    BY <2>5, <2>7, <2>11
<1>5. QED
  BY <1>3, <1>4

\* They are a numeral of v.
LEMMA DigitsAreNumeral ==
  ASSUME NEW v \in Nat, NEW r \in 2 .. 16, NEW d, NEW n, IsDigits(d, v, r, n)
  PROVE  IsNumeral(d, v, r)
<1> DEFINE nv == newval(v, r)
<1>1. nv \in [Nat -> Nat] /\ \A k \in Nat : nv[k + 1] = nv[k] \div r
  BY NewvalIs
<1>2. /\ d \in Seq(Digits) /\ Len(d) = n /\ n \in Nat \ {0}
      /\ nv[n] = 0 /\ \A k \in 1 .. n : d[k] = lookup[(nv[n - k] % r) + 1]
      /\ n = 1 \/ nv[n - 1] > 0
  BY DEF IsDigits, DigitsOf
<1>3. Numeral(d, r) = v
  <2>1. Len(d) = n /\ n \in Nat /\ newval(v, r)[n] = 0 /\ DigitsOf(d, v, r, n)
    BY DEF IsDigits
  <2>2. QED
    BY <2>1, NumeralIs
<1> HIDE DEF nv
<1>4. d # <<>> /\ Head(d) = d[1]
  BY <1>2
<1>5. ASSUME n # 1 PROVE Head(d) # "0"
  <2> DEFINE a == nv[n - 1]
  <2>1. n - 1 \in Nat /\ (n - 1) + 1 = n
    BY <1>2
  <2>2. a \in Nat /\ a > 0 /\ a \div r = 0
    BY <1>1, <1>2, <1>5, <2>1
  <2>3. d[1] = lookup[(a % r) + 1]
    BY <1>2
  <2> HIDE DEF a
  <2>4. a % r = a /\ a % r \in 0 .. r-1
    BY <2>2, Divided
  <2>5. a + 1 \in 1 .. 16 /\ a + 1 # 1 /\ 1 \in 1 .. 16
    BY <2>2, <2>4
  <2>6. lookup[a + 1] # lookup[1]
    BY <2>5, LookupFacts
  <2>7. QED
    BY <1>4, <2>3, <2>4, <2>6, LookupFacts
<1>6. QED
  BY <1>2, <1>3, <1>4, <1>5 DEF IsNumeral

LEMMA Concatenated ==
  ASSUME NEW S, NEW s \in Seq(S), NEW t \in Seq(S)
  PROVE  /\ s \o t \in Seq(S) /\ Len(s \o t) = Len(s) + Len(t)
         /\ \A i \in 1 .. Len(s) + Len(t) : (s \o t)[i] = IF i <= Len(s) THEN s[i] ELSE t[i - Len(s)]
OBVIOUS

\* Zeros before them, m characters in all, change nothing.
ZerosBefore(d, m) == [i \in 1 .. m - Len(d) |-> "0"] \o d

IsWide(p, v, r, m) == p \in Seq(Digits) /\ Len(p) = m /\ Numeral(p, r) = v

LEMMA PaddedNumeral ==
  ASSUME NEW v \in Nat, NEW r \in 2 .. 16, NEW d, NEW n, IsDigits(d, v, r, n),
         NEW m \in Nat, newval(v, r)[m] = 0, m > 0
  PROVE  IsWide(ZerosBefore(d, m), v, r, m)
<1> DEFINE nv == newval(v, r)
           z == [i \in 1 .. m - n |-> "0"]
           p == z \o d
<1>1. nv \in [Nat -> Nat] /\ nv[m] = 0 /\ \A k, j \in Nat : nv[k] = 0 /\ k <= j => nv[j] = 0
  <2>1. nv \in [Nat -> Nat]
    BY NewvalIs
  <2>2. \A k, j \in Nat : newval(v, r)[k] = 0 /\ k <= j => newval(v, r)[j] = 0
    BY NewvalFalls
  <2>3. QED
    BY <2>1, <2>2
<1>2. /\ d \in Seq(Digits) /\ Len(d) = n /\ n \in Nat \ {0}
      /\ nv[n] = 0 /\ \A k \in 1 .. n : d[k] = lookup[(nv[n - k] % r) + 1]
      /\ n = 1 \/ nv[n - 1] > 0
  BY DEF IsDigits, DigitsOf
<1> HIDE DEF nv
<1>3. n <= m
  <2> SUFFICES ASSUME n > m PROVE FALSE
    BY <1>2
  <2>1. n # 1 /\ n - 1 \in Nat /\ m <= n - 1
    BY <1>2
  <2>2. QED
    BY <1>1, <1>2, <2>1
<1>4. "0" \in Digits
  BY LookupFacts DEF Digits
<1>5. z \in Seq(Digits) /\ Len(z) = m - n /\ \A i \in 1 .. m - n : z[i] = "0"
  BY <1>2, <1>3, <1>4
<1> HIDE DEF z
<1>6. /\ p \in Seq(Digits) /\ Len(p) = m
      /\ \A i \in 1 .. m : p[i] = IF i <= m - n THEN z[i] ELSE d[i - (m - n)]
  <2>1. z \in Seq(Digits) /\ d \in Seq(Digits)
    BY <1>2, <1>5
  <2>2. /\ p \in Seq(Digits) /\ Len(p) = Len(z) + Len(d)
        /\ \A i \in 1 .. Len(z) + Len(d) : p[i] = IF i <= Len(z) THEN z[i] ELSE d[i - Len(z)]
    BY <2>1, Concatenated
  <2> HIDE DEF p
  <2>3. Len(z) + Len(d) = m
    BY <1>2, <1>3, <1>5
  <2>4. QED
    BY <1>5, <2>2, <2>3
<1> HIDE DEF p
<1>7. ASSUME NEW k \in 1 .. m PROVE p[k] = lookup[(nv[m - k] % r) + 1]
  <2>1. CASE k <= m - n
    <3>1. m - k \in Nat /\ n <= m - k
      BY <1>2, <1>3, <2>1
    <3>2. nv[m - k] = 0
      BY <1>1, <1>2, <3>1
    <3>3. nv[m - k] % r = 0
      BY <3>2, Divided
    <3>4. p[k] = "0"
      BY <1>5, <1>6, <2>1
    <3>5. QED
      BY <3>3, <3>4, LookupFacts
  <2>2. CASE ~(k <= m - n)
    <3>1. k - (m - n) \in 1 .. n /\ n - (k - (m - n)) = m - k
      BY <1>2, <1>3, <2>2
    <3>2. QED
      BY <1>2, <1>6, <2>2, <3>1
  <2>3. QED
    BY <2>1, <2>2
<1>8. Numeral(p, r) = v
  <2>1. DigitsOf(p, v, r, m)
    BY <1>7 DEF DigitsOf, nv
  <2>2. QED
    BY <1>6, <2>1, NumeralIs
<1>9. QED
  BY <1>2, <1>6, <1>8 DEF IsWide, ZerosBefore, p, z

(***************************************************************************)
(* printf.                                                                 *)
(***************************************************************************)
\* F lists where printf is after each character of the format.
PrintfAt(at, alternate, out, args) ==
  [at |-> at, alternate |-> alternate, out |-> out, args |-> args]

TakeSteps(F, format, args, n) ==
  /\ F = [i \in 0 .. n |-> F[i]] /\ F[0] = PrintfAt("text", FALSE, <<>>, args)
  /\ \A i \in 1 .. n : F[i] = Take(F[i - 1], format[i])

LEMMA PrintfSteps ==
  ASSUME NEW format, NEW args, NEW n \in Nat, Len(format) = n, NEW F,
         TakeSteps(F, format, args, n)
  PROVE  printf(format, args) = F[n].out
<1> DEFINE s0 == PrintfAt("text", FALSE, <<>>, args)
           Eq(f) == f = [i \in 0 .. n |-> IF i = 0 THEN s0 ELSE Take(f[i - 1], format[i])]
<1>1. printf(format, args) = (CHOOSE f : Eq(f))[n].out
  BY DEF printf, PrintfAt
<1>2. /\ F = [i \in 0 .. n |-> F[i]] /\ F[0] = s0
      /\ \A i \in 1 .. n : F[i] = Take(F[i - 1], format[i])
  BY DEF TakeSteps
<1> HIDE DEF s0
<1>3. Eq(F)
  <2>1. ASSUME NEW i \in 0 .. n PROVE F[i] = IF i = 0 THEN s0 ELSE Take(F[i - 1], format[i])
    <3>1. CASE i = 0
      BY <1>2, <3>1
    <3>2. CASE i # 0
      <4>1. i \in 1 .. n
        BY <3>2
      <4>2. QED
        BY <1>2, <3>2, <4>1, Zenon
    <3>3. QED
      BY <3>1, <3>2
  <2>2. QED
    BY <1>2, <2>1, Zenon
<1>4. ASSUME NEW g, Eq(g) PROVE g[n] = F[n]
  <2> DEFINE T == {i \in 0 .. n : g[i] # F[i]}
  <2> SUFFICES ASSUME T # {} PROVE FALSE
    OBVIOUS
  <2>1. T \in SUBSET Nat
    OBVIOUS
  <2>2. PICK i \in T : \A j \in T : i <= j
    <3> HIDE DEF T
    <3>1. QED
      BY <2>1, Least
  <2>3. i \in 0 .. n /\ g[i] # F[i] /\ \A j \in 0 .. n : g[j] # F[j] => i <= j
    BY <2>2
  <2> HIDE DEF T
  <2>4. g[0] = s0
    BY <1>4
  <2>5. i # 0
    BY <1>2, <2>3, <2>4, Zenon
  <2>6. i - 1 \in 0 .. n /\ i \in 1 .. n
    BY <2>3, <2>5
  <2>7. g[i - 1] = F[i - 1]
    <3>1. ~(i <= i - 1)
      BY <2>3
    <3>2. QED
      BY <2>3, <2>6, <3>1, Zenon
  <2>8. F[i] = Take(F[i - 1], format[i])
    BY <1>2, <2>6, Zenon
  <2>9. g[i] = IF i = 0 THEN s0 ELSE Take(g[i - 1], format[i])
    BY <1>4, <2>3, Zenon
  <2>10. QED
    BY <2>3, <2>5, <2>7, <2>8, <2>9, Zenon
<1> HIDE DEF Eq
<1>5. Eq(CHOOSE f : Eq(f))
  BY <1>3, Zenon
<1>6. QED
  BY <1>1, <1>4, <1>5

\* One character of a format.
LEMMA TakeIs ==
  ASSUME NEW x \in BOOLEAN, NEW o, NEW g
  PROVE  /\ Take(PrintfAt("text", x, o, g), "a") = PrintfAt("text", x, Append(o, "a"), g)
         /\ Take(PrintfAt("text", x, o, g), "b") = PrintfAt("text", x, Append(o, "b"), g)
         /\ Take(PrintfAt("text", x, o, g), "%") = PrintfAt("spec", FALSE, o, g)
         /\ Take(PrintfAt("spec", x, o, g), "#") = PrintfAt("spec", TRUE, o, g)
         /\ Take(PrintfAt("spec", x, o, g), "%") = PrintfAt("text", x, o \o <<"%">>, g)
         /\ \A c \in {"x", "u", "d"} :
              Take(PrintfAt("spec", x, o, g), c)
                = PrintfAt("text", x, o \o Convert(c, x, Head(g)), Tail(g))
<1>1. Take(PrintfAt("text", x, o, g), "a") = PrintfAt("text", x, Append(o, "a"), g)
  BY DEF Take, PrintfAt, Consumes
<1>2. Take(PrintfAt("text", x, o, g), "b") = PrintfAt("text", x, Append(o, "b"), g)
  BY DEF Take, PrintfAt, Consumes
<1>3. Take(PrintfAt("text", x, o, g), "%") = PrintfAt("spec", FALSE, o, g)
  BY DEF Take, PrintfAt, Consumes
<1>4. Take(PrintfAt("spec", x, o, g), "#") = PrintfAt("spec", TRUE, o, g)
  BY DEF Take, PrintfAt, Consumes
<1>5. Take(PrintfAt("spec", x, o, g), "%") = PrintfAt("text", x, o \o <<"%">>, g)
  BY DEF Take, PrintfAt, Consumes
<1>6. ASSUME NEW c \in {"x", "u", "d"}
      PROVE  Take(PrintfAt("spec", x, o, g), c)
               = PrintfAt("text", x, o \o Convert(c, x, Head(g)), Tail(g))
  BY DEF Take, PrintfAt, Consumes
<1>7. QED
  BY <1>1, <1>2, <1>3, <1>4, <1>5, <1>6

\* A conversion between other characters.
LEMMA PrintfPlain ==
  ASSUME NEW c \in {"x", "u", "d"}, NEW v
  PROVE  printf(<<"a">> \o <<"%", c>> \o <<"b", "%", "%">>, <<v>>)
           = Append(Append(<<>>, "a") \o Convert(c, FALSE, v), "b") \o <<"%">>
<1> DEFINE format == <<"a">> \o <<"%", c>> \o <<"b", "%", "%">>
           a  == Append(<<>>, "a")
           w  == a \o Convert(c, FALSE, v)
           b  == Append(w, "b")
           z  == b \o <<"%">>
           g  == <<v>>
           t  == Tail(g)
           s0 == PrintfAt("text", FALSE, <<>>, g)
           s1 == PrintfAt("text", FALSE, a, g)
           s2 == PrintfAt("spec", FALSE, a, g)
           s3 == PrintfAt("text", FALSE, w, t)
           s4 == PrintfAt("text", FALSE, b, t)
           s5 == PrintfAt("spec", FALSE, b, t)
           s6 == PrintfAt("text", FALSE, z, t)
           F  == [i \in 0 .. 6 |-> IF i = 0 THEN s0 ELSE IF i = 1 THEN s1 ELSE IF i = 2 THEN s2 ELSE
                      IF i = 3 THEN s3 ELSE IF i = 4 THEN s4 ELSE IF i = 5 THEN s5 ELSE
                      s6]
<1>1. /\ Len(format) = 6
      /\ format[1] = "a" /\ format[2] = "%" /\ format[3] = c /\ format[4] = "b" /\ format[5] = "%" /\ format[6] = "%"
  OBVIOUS
<1>2. Head(g) = v
  OBVIOUS
<1> HIDE DEF format, a, w, b, z, g, t
<1>3. s1 = Take(s0, "a")
  BY TakeIs, Zenon DEF s0, s1, a
<1>4. s2 = Take(s1, "%")
  BY TakeIs, Zenon DEF s1, s2
<1>5. s3 = Take(s2, c)
  <2>1. Take(s2, c) = PrintfAt("text", FALSE, a \o Convert(c, FALSE, Head(g)), Tail(g))
    BY TakeIs, ZenonT(60) DEF s2
  <2>2. QED
    BY <1>2, <2>1, ZenonT(60) DEF s3, w, t
<1>6. s4 = Take(s3, "b")
  BY TakeIs, Zenon DEF s3, s4, b
<1>7. s5 = Take(s4, "%")
  BY TakeIs, Zenon DEF s4, s5
<1>8. s6 = Take(s5, "%")
  BY TakeIs, Zenon DEF s5, s6, z
<1>9. s0 = PrintfAt("text", FALSE, <<>>, g) /\ s6.out = z
  BY DEF s0, s6, PrintfAt
<1> HIDE DEF s0, s1, s2, s3, s4, s5, s6
<1>10. F[0] = s0 /\ F[1] = s1 /\ F[2] = s2 /\ F[3] = s3 /\ F[4] = s4 /\ F[5] = s5 /\ F[6] = s6
  OBVIOUS
<1>11. F = [i \in 0 .. 6 |-> F[i]]
  OBVIOUS
<1> HIDE DEF F
<1>12. ASSUME NEW i \in 1 .. 6 PROVE F[i] = Take(F[i - 1], format[i])
  <2>1. CASE i = 1
    <3>1. i - 1 = 0
      BY <2>1
    <3>2. QED
      BY <1>1, <1>3, <1>10, <2>1, <3>1, Zenon
  <2>2. CASE i = 2
    <3>1. i - 1 = 1
      BY <2>2
    <3>2. QED
      BY <1>1, <1>4, <1>10, <2>2, <3>1, Zenon
  <2>3. CASE i = 3
    <3>1. i - 1 = 2
      BY <2>3
    <3>2. QED
      BY <1>1, <1>5, <1>10, <2>3, <3>1, Zenon
  <2>4. CASE i = 4
    <3>1. i - 1 = 3
      BY <2>4
    <3>2. QED
      BY <1>1, <1>6, <1>10, <2>4, <3>1, Zenon
  <2>5. CASE i = 5
    <3>1. i - 1 = 4
      BY <2>5
    <3>2. QED
      BY <1>1, <1>7, <1>10, <2>5, <3>1, Zenon
  <2>6. CASE i = 6
    <3>1. i - 1 = 5
      BY <2>6
    <3>2. QED
      BY <1>1, <1>8, <1>10, <2>6, <3>1, Zenon
  <2>7. QED
    BY <2>1, <2>2, <2>3, <2>4, <2>5, <2>6
<1>13. TakeSteps(F, format, g, 6)
  BY <1>9, <1>10, <1>11, <1>12, Zenon DEF TakeSteps
<1>14. printf(format, g) = F[6].out
  <2>1. 6 \in Nat
    OBVIOUS
  <2>2. QED
    BY <1>1, <1>13, <2>1, PrintfSteps, Zenon
<1>15. printf(format, g) = z
  BY <1>9, <1>10, <1>14, Zenon
<1>16. QED
  BY <1>15, Zenon DEF format, g, z, b, w, a

LEMMA PrintfAlternate ==
  ASSUME NEW v
  PROVE  printf(<<"a">> \o <<"%", "#", "x">> \o <<"b", "%", "%">>, <<v>>)
           = Append(Append(<<>>, "a") \o Convert("x", TRUE, v), "b") \o <<"%">>
<1> DEFINE format == <<"a">> \o <<"%", "#", "x">> \o <<"b", "%", "%">>
           a  == Append(<<>>, "a")
           w  == a \o Convert("x", TRUE, v)
           b  == Append(w, "b")
           z  == b \o <<"%">>
           g  == <<v>>
           t  == Tail(g)
           s0 == PrintfAt("text", FALSE, <<>>, g)
           s1 == PrintfAt("text", FALSE, a, g)
           s2 == PrintfAt("spec", FALSE, a, g)
           s3 == PrintfAt("spec", TRUE, a, g)
           s4 == PrintfAt("text", TRUE, w, t)
           s5 == PrintfAt("text", TRUE, b, t)
           s6 == PrintfAt("spec", FALSE, b, t)
           s7 == PrintfAt("text", FALSE, z, t)
           F  == [i \in 0 .. 7 |-> IF i = 0 THEN s0 ELSE IF i = 1 THEN s1 ELSE IF i = 2 THEN s2 ELSE
                      IF i = 3 THEN s3 ELSE IF i = 4 THEN s4 ELSE IF i = 5 THEN s5 ELSE
                      IF i = 6 THEN s6 ELSE s7]
<1>1. /\ Len(format) = 7
      /\ format[1] = "a" /\ format[2] = "%" /\ format[3] = "#" /\ format[4] = "x" /\ format[5] = "b" /\ format[6] = "%" /\ format[7] = "%"
  OBVIOUS
<1>2. Head(g) = v
  OBVIOUS
<1> HIDE DEF format, a, w, b, z, g, t
<1>3. s1 = Take(s0, "a")
  BY TakeIs, Zenon DEF s0, s1, a
<1>4. s2 = Take(s1, "%")
  BY TakeIs, Zenon DEF s1, s2
<1>5. s3 = Take(s2, "#")
  BY TakeIs, Zenon DEF s2, s3
<1>6. s4 = Take(s3, "x")
  <2>1. Take(s3, "x") = PrintfAt("text", TRUE, a \o Convert("x", TRUE, Head(g)), Tail(g))
    BY TakeIs, ZenonT(60) DEF s3
  <2>2. QED
    BY <1>2, <2>1, ZenonT(60) DEF s4, w, t
<1>7. s5 = Take(s4, "b")
  BY TakeIs, Zenon DEF s4, s5, b
<1>8. s6 = Take(s5, "%")
  BY TakeIs, Zenon DEF s5, s6
<1>9. s7 = Take(s6, "%")
  BY TakeIs, Zenon DEF s6, s7, z
<1>10. s0 = PrintfAt("text", FALSE, <<>>, g) /\ s7.out = z
  BY DEF s0, s7, PrintfAt
<1> HIDE DEF s0, s1, s2, s3, s4, s5, s6, s7
<1>11. F[0] = s0 /\ F[1] = s1 /\ F[2] = s2 /\ F[3] = s3 /\ F[4] = s4 /\ F[5] = s5 /\ F[6] = s6 /\ F[7] = s7
  OBVIOUS
<1>12. F = [i \in 0 .. 7 |-> F[i]]
  OBVIOUS
<1> HIDE DEF F
<1>13. ASSUME NEW i \in 1 .. 7 PROVE F[i] = Take(F[i - 1], format[i])
  <2>1. CASE i = 1
    <3>1. i - 1 = 0
      BY <2>1
    <3>2. QED
      BY <1>1, <1>3, <1>11, <2>1, <3>1, Zenon
  <2>2. CASE i = 2
    <3>1. i - 1 = 1
      BY <2>2
    <3>2. QED
      BY <1>1, <1>4, <1>11, <2>2, <3>1, Zenon
  <2>3. CASE i = 3
    <3>1. i - 1 = 2
      BY <2>3
    <3>2. QED
      BY <1>1, <1>5, <1>11, <2>3, <3>1, Zenon
  <2>4. CASE i = 4
    <3>1. i - 1 = 3
      BY <2>4
    <3>2. QED
      BY <1>1, <1>6, <1>11, <2>4, <3>1, Zenon
  <2>5. CASE i = 5
    <3>1. i - 1 = 4
      BY <2>5
    <3>2. QED
      BY <1>1, <1>7, <1>11, <2>5, <3>1, Zenon
  <2>6. CASE i = 6
    <3>1. i - 1 = 5
      BY <2>6
    <3>2. QED
      BY <1>1, <1>8, <1>11, <2>6, <3>1, Zenon
  <2>7. CASE i = 7
    <3>1. i - 1 = 6
      BY <2>7
    <3>2. QED
      BY <1>1, <1>9, <1>11, <2>7, <3>1, Zenon
  <2>8. QED
    BY <2>1, <2>2, <2>3, <2>4, <2>5, <2>6, <2>7
<1>14. TakeSteps(F, format, g, 7)
  BY <1>10, <1>11, <1>12, <1>13, Zenon DEF TakeSteps
<1>15. printf(format, g) = F[7].out
  <2>1. 7 \in Nat
    OBVIOUS
  <2>2. QED
    BY <1>1, <1>14, <2>1, PrintfSteps, Zenon
<1>16. printf(format, g) = z
  BY <1>10, <1>11, <1>15, Zenon
<1>17. QED
  BY <1>16, Zenon DEF format, g, z, b, w, a

LEMMA MiddleOf ==
  ASSUME NEW X, {"a", "b", "%"} \subseteq X, NEW conv \in Seq(X)
  PROVE  LET p == Append(Append(<<>>, "a") \o conv, "b") \o <<"%">>
         IN SubSeq(p, 2, Len(p) - 2) = conv /\ p = <<"a">> \o conv \o <<"b", "%">>
<1> DEFINE a == Append(<<>>, "a")
           a1 == <<"a">>
           z == <<"%">>
           y == <<"b", "%">>
           w == a \o conv
           b == Append(w, "b")
           w1 == a1 \o conv
           q == w1 \o y
           p == b \o z
           l == Len(conv)
<1>1. /\ a1 \in Seq(X) /\ Len(a1) = 1 /\ a1[1] = "a" /\ a = a1
      /\ z \in Seq(X) /\ Len(z) = 1 /\ z[1] = "%"
      /\ y \in Seq(X) /\ Len(y) = 2 /\ y[1] = "b" /\ y[2] = "%"
      /\ "b" \in X /\ l \in Nat
  OBVIOUS
<1>2. /\ p = Append(Append(<<>>, "a") \o conv, "b") \o <<"%">>
      /\ q = <<"a">> \o conv \o <<"b", "%">> /\ w = w1
  BY <1>1
<1> HIDE DEF a, a1, z, y
<1>3. /\ w1 \in Seq(X) /\ Len(w1) = l + 1
      /\ \A i \in 1 .. l + 1 : w1[i] = IF i <= 1 THEN a1[i] ELSE conv[i - 1]
  <2>1. /\ w1 \in Seq(X) /\ Len(w1) = Len(a1) + l
        /\ \A i \in 1 .. Len(a1) + l : w1[i] = IF i <= Len(a1) THEN a1[i] ELSE conv[i - Len(a1)]
    BY <1>1, Concatenated
  <2> HIDE DEF w1, l
  <2>2. QED
    BY <1>1, <2>1
<1> HIDE DEF w, w1
<1>4. b \in Seq(X) /\ Len(b) = l + 2 /\ b[l + 2] = "b" /\ \A i \in 1 .. l + 1 : b[i] = w1[i]
  BY <1>1, <1>2, <1>3
<1> HIDE DEF b, l
<1>5. p \in Seq(X) /\ Len(p) = l + 3 /\ p[l + 3] = "%" /\ \A i \in 1 .. l + 2 : p[i] = b[i]
  <2>1. /\ p \in Seq(X) /\ Len(p) = Len(b) + Len(z)
        /\ \A i \in 1 .. Len(b) + Len(z) : p[i] = IF i <= Len(b) THEN b[i] ELSE z[i - Len(b)]
    <3>1. b \in Seq(X) /\ z \in Seq(X)
      BY <1>1, <1>4
    <3>2. QED
      BY <3>1, Concatenated
  <2> HIDE DEF p
  <2>2. /\ Len(p) = l + 3 /\ Len(b) + Len(z) = l + 3 /\ l + 3 \in 1 .. l + 3
        /\ (l + 3) - Len(b) = 1 /\ ~(l + 3 <= Len(b))
    BY <1>1, <1>4, <2>1
  <2>3. p[l + 3] = "%"
    BY <1>1, <2>1, <2>2
  <2>4. \A i \in 1 .. l + 2 : i \in 1 .. Len(b) + Len(z) /\ i <= Len(b)
    BY <1>1, <1>4, <2>2
  <2>5. QED
    BY <2>1, <2>2, <2>3, <2>4, Zenon
<1> HIDE DEF p
<1>6. /\ q \in Seq(X) /\ Len(q) = l + 3 /\ q[l + 2] = "b" /\ q[l + 3] = "%"
      /\ \A i \in 1 .. l + 1 : q[i] = w1[i]
  <2>1. /\ q \in Seq(X) /\ Len(q) = Len(w1) + Len(y)
        /\ \A i \in 1 .. Len(w1) + Len(y) : q[i] = IF i <= Len(w1) THEN w1[i] ELSE y[i - Len(w1)]
    BY <1>1, <1>3, Concatenated
  <2> HIDE DEF q
  <2>2. QED
    BY <1>1, <1>3, <2>1
<1> HIDE DEF q
<1>7. ASSUME NEW i \in 1 .. l + 3 PROVE p[i] = q[i]
  <2>1. i \in 1 .. l + 1 \/ i = l + 2 \/ i = l + 3
    BY <1>1
  <2>2. ASSUME i \in 1 .. l + 1 PROVE p[i] = q[i]
    BY <1>1, <1>4, <1>5, <1>6, <2>2
  <2>3. ASSUME i = l + 2 PROVE p[i] = q[i]
    BY <1>1, <1>4, <1>5, <1>6, <2>3
  <2>4. ASSUME i = l + 3 PROVE p[i] = q[i]
    BY <1>5, <1>6, <2>4
  <2>5. QED
    BY <2>1, <2>2, <2>3, <2>4
<1>8. p = q
  BY <1>1, <1>5, <1>6, <1>7
<1>9. SubSeq(p, 2, Len(p) - 2) = conv
  <2> DEFINE m == SubSeq(p, 2, Len(p) - 2)
  <2>1. Len(p) - 2 = l + 1
    BY <1>1, <1>5
  <2>2. /\ m \in Seq(X) /\ Len(m) = l
        /\ \A j \in 1 .. l : m[j] = p[j + 1]
    BY <1>1, <1>5, <2>1
  <2> HIDE DEF m
  <2>3. ASSUME NEW j \in 1 .. l PROVE m[j] = conv[j]
    <3>1. j + 1 \in 1 .. l + 1 /\ j + 1 \in 1 .. l + 2 /\ ~(j + 1 <= 1) /\ (j + 1) - 1 = j
      BY <1>1
    <3>2. m[j] = w1[j + 1]
      BY <1>4, <1>5, <2>2, <3>1
    <3>3. w1[j + 1] = conv[(j + 1) - 1]
      BY <1>3, <3>1
    <3>4. QED
      BY <3>1, <3>2, <3>3
  <2>4. conv \in Seq(X) /\ Len(conv) = l
    BY DEF l
  <2>5. QED
    BY <2>2, <2>3, <2>4 DEF m
<1>10. QED
  BY <1>2, <1>8, <1>9

LEMMA MiddleIs ==
  ASSUME NEW X, {"a", "b", "%"} \subseteq X, NEW conv \in Seq(X),
         NEW p, p = Append(Append(<<>>, "a") \o conv, "b") \o <<"%">>
  PROVE  SubSeq(p, 2, Len(p) - 2) = conv /\ p = <<"a">> \o conv \o <<"b", "%">>
BY MiddleOf, Zenon

\* The conversions, with the signed ones in terms of words.
LEMMA ConvertIs ==
  ASSUME NEW v \in 0 .. Wide-1
  PROVE  /\ Convert("x", FALSE, v) = itoa(v, Hex)
         /\ Convert("u", FALSE, v) = itoa(v, Decimal)
         /\ Convert("x", TRUE, v) = ZerosBefore(itoa(v, Hex), HexWidth)
         /\ Convert("d", FALSE, v) = IF v < Wide \div 2 THEN itoa(v, Decimal)
                                     ELSE <<"-">> \o itoa(Wide - v, Decimal)
         /\ ~(v < Wide \div 2) => Wide - v \in Nat
<1>1. Convert("x", FALSE, v) = itoa(v, Hex)
  BY DEF Convert
<1>2. Convert("u", FALSE, v) = itoa(v, Decimal)
  BY DEF Convert
<1>3. Convert("x", TRUE, v) = ZerosBefore(itoa(v, Hex), HexWidth)
  BY DEF Convert, strlen, ZerosBefore
<1>4. Convert("d", FALSE, v)
        = IF Signed(v) < 0 THEN <<"-">> \o itoa(Negated(v), Decimal) ELSE itoa(v, Decimal)
  BY DEF Convert
<1>5. Wide \in Nat /\ Wide >= 2 /\ v \in Nat /\ v < Wide
  BY LibraryAssumption
<1>6. Wide \div 2 \in Nat /\ Wide \div 2 >= 1
  BY <1>5
<1>7. Signed(v) < 0 <=> ~(v < Wide \div 2)
  BY <1>5, <1>6 DEF Signed
<1>8. ASSUME ~(v < Wide \div 2) PROVE Negated(v) = Wide - v /\ Wide - v \in Nat
  <2>1. Wide - v \in Nat /\ Wide - v < Wide
    BY <1>5, <1>6, <1>8
  <2>2. (Wide - v) % Wide = Wide - v
    BY <1>5, <2>1, SmallRemainder
  <2>3. QED
    BY <2>1, <2>2 DEF Negated
<1>9. Convert("d", FALSE, v) = IF v < Wide \div 2 THEN itoa(v, Decimal)
                               ELSE <<"-">> \o itoa(Wide - v, Decimal)
  BY <1>4, <1>7, <1>8, Zenon
<1>10. QED
  BY <1>1, <1>2, <1>3, <1>8, <1>9

\* The characters printf may print.
Printable == Digits \cup {"a", "b", "%", "-"}

LEMMA ItoaNumeral ==
  ASSUME NEW v \in Nat, NEW r \in 2 .. 16
  PROVE  itoa(v, r) \in Seq(Digits) /\ IsNumeral(itoa(v, r), v, r)
<1>1. PICK n : IsDigits(itoa(v, r), v, r, n)
  BY ItoaIs
<1>2. itoa(v, r) \in Seq(Digits)
  BY <1>1 DEF IsDigits
<1>3. QED
  BY <1>1, <1>2, DigitsAreNumeral

\* The digits of %#x.
LEMMA WideNumeral ==
  ASSUME NEW v \in 0 .. Wide-1
  PROVE  IsWide(ZerosBefore(itoa(v, Hex), HexWidth), v, Hex, HexWidth)
<1>1. /\ Wide \in Nat /\ Wide - 1 \in Nat /\ Wide - 1 > 0 /\ Hex \in 2 .. 16 /\ HexWidth \in Nat
      /\ v \in Nat /\ v <= Wide - 1
  BY LibraryAssumption
<1>2. newval(v, Hex) \in [Nat -> Nat] /\ newval(Wide - 1, Hex)[0] = Wide - 1
  BY <1>1, NewvalIs
<1>3. HexWidth > 0
  BY <1>1, <1>2, WidthAssumption
<1>4. newval(v, Hex)[HexWidth] <= 0
  BY <1>1, NewvalMonotone, WidthAssumption
<1>5. newval(v, Hex)[HexWidth] = 0
  BY <1>1, <1>2, <1>4
<1>6. PICK n : IsDigits(itoa(v, Hex), v, Hex, n)
  BY <1>1, ItoaIs
<1>7. QED
  <2>1. v \in Nat /\ Hex \in 2 .. 16 /\ HexWidth \in Nat
    BY <1>1
  <2>2. QED
    BY <1>3, <1>5, <1>6, <2>1, PaddedNumeral

\* printf prints a numeral of its argument: for zero, for the least and the greatest
\* integer, with a sign for %d and all digits for %#x, between what the format has
\* before and behind it, for every word size and radix (lib.c:210, 427).
THEOREM PrintsNumbersAlways == CallsSpec => []PrintsNumbers
<1>1. CallDone => PrintsNumbers
  <2> DEFINE f == request.name
             v == request.length
             conv == SubSeq(printed, 2, Len(printed) - 2)
  <2> SUFFICES ASSUME f \in Formats, v \in 0 .. Wide-1,
                      printed = printf(<<"a">> \o f \o <<"b", "%", "%">>, <<v>>)
               PROVE  /\ printed = <<"a">> \o conv \o <<"b", "%">>
                      /\ CASE f = <<"%", "x">> -> IsNumeral(conv, v, Hex)
                           [] f = <<"%", "u">> -> IsNumeral(conv, v, Decimal)
                           [] f = <<"%", "#", "x">> -> Len(conv) = HexWidth /\ Numeral(conv, Hex) = v
                           [] f = <<"%", "d">> ->
                                IF v < Wide \div 2 THEN IsNumeral(conv, v, Decimal)
                                ELSE Head(conv) = "-" /\ IsNumeral(Tail(conv), Wide - v, Decimal)
    BY DEF CallDone, PrintsNumbers, Inner
  <2> HIDE DEF f, v
  <2>1. Hex \in 2 .. 16 /\ Decimal \in 2 .. 16 /\ Wide \in Nat /\ v \in Nat
    BY LibraryAssumption
  <2>2. {"a", "b", "%"} \subseteq Printable /\ Digits \subseteq Printable /\ "-" \in Printable
    BY DEF Printable
  <2>3. /\ f = <<"%", "x">> \/ f = <<"%", "u">> \/ f = <<"%", "#", "x">> \/ f = <<"%", "d">>
        /\ <<"%", "x">> # <<"%", "u">> /\ <<"%", "x">> # <<"%", "#", "x">>
        /\ <<"%", "x">> # <<"%", "d">> /\ <<"%", "u">> # <<"%", "#", "x">>
        /\ <<"%", "u">> # <<"%", "d">> /\ <<"%", "#", "x">> # <<"%", "d">>
    BY DEF Formats
  <2>4. CASE f = <<"%", "x">>
    <3> DEFINE d == itoa(v, Hex)
    <3>1. d \in Seq(Digits) /\ IsNumeral(d, v, Hex)
      BY <2>1, ItoaNumeral
    <3>2. Convert("x", FALSE, v) = d
      BY ConvertIs
    <3>3. printed = Append(Append(<<>>, "a") \o Convert("x", FALSE, v), "b") \o <<"%">>
      BY <2>4, PrintfPlain, Zenon
    <3> HIDE DEF d
    <3>4. d \in Seq(Printable)
      BY <2>2, <3>1
    <3>5. conv = d /\ printed = <<"a">> \o d \o <<"b", "%">>
      BY <2>2, <3>2, <3>3, <3>4, MiddleIs, Zenon
    <3> HIDE DEF conv
    <3>6. QED
      BY <2>3, <2>4, <3>1, <3>5, Zenon
  <2>5. CASE f = <<"%", "u">>
    <3> DEFINE d == itoa(v, Decimal)
    <3>1. d \in Seq(Digits) /\ IsNumeral(d, v, Decimal)
      BY <2>1, ItoaNumeral
    <3>2. Convert("u", FALSE, v) = d
      BY ConvertIs
    <3>3. printed = Append(Append(<<>>, "a") \o Convert("u", FALSE, v), "b") \o <<"%">>
      BY <2>5, PrintfPlain, Zenon
    <3> HIDE DEF d
    <3>4. d \in Seq(Printable)
      BY <2>2, <3>1
    <3>5. conv = d /\ printed = <<"a">> \o d \o <<"b", "%">>
      BY <2>2, <3>2, <3>3, <3>4, MiddleIs, Zenon
    <3> HIDE DEF conv
    <3>6. QED
      BY <2>3, <2>5, <3>1, <3>5, Zenon
  <2>6. CASE f = <<"%", "#", "x">>
    <3> DEFINE d == ZerosBefore(itoa(v, Hex), HexWidth)
    <3>1. d \in Seq(Digits) /\ Len(d) = HexWidth /\ Numeral(d, Hex) = v
      BY WideNumeral DEF IsWide
    <3>2. Convert("x", TRUE, v) = d
      BY ConvertIs
    <3>3. printed = Append(Append(<<>>, "a") \o Convert("x", TRUE, v), "b") \o <<"%">>
      BY <2>6, PrintfAlternate, Zenon
    <3> HIDE DEF d
    <3>4. d \in Seq(Printable)
      BY <2>2, <3>1
    <3>5. conv = d /\ printed = <<"a">> \o d \o <<"b", "%">>
      BY <2>2, <3>2, <3>3, <3>4, MiddleIs, Zenon
    <3> HIDE DEF conv
    <3>6. QED
      BY <2>3, <2>6, <3>1, <3>5, Zenon
  <2>7. CASE f = <<"%", "d">>
    <3> DEFINE d == IF v < Wide \div 2 THEN itoa(v, Decimal)
                    ELSE <<"-">> \o itoa(Wide - v, Decimal)
    <3>1. Convert("d", FALSE, v) = d /\ (~(v < Wide \div 2) => Wide - v \in Nat)
      BY ConvertIs
    <3>2. /\ d \in Seq(Printable)
          /\ v < Wide \div 2 => IsNumeral(d, v, Decimal)
          /\ ~(v < Wide \div 2) => Head(d) = "-" /\ IsNumeral(Tail(d), Wide - v, Decimal)
      <4>1. CASE v < Wide \div 2
        <5>1. d = itoa(v, Decimal)
          BY <4>1
        <5>2. itoa(v, Decimal) \in Seq(Digits) /\ IsNumeral(itoa(v, Decimal), v, Decimal)
          BY <2>1, ItoaNumeral
        <5> HIDE DEF d
        <5>3. QED
          BY <2>2, <4>1, <5>1, <5>2
      <4>2. CASE ~(v < Wide \div 2)
        <5> DEFINE e == itoa(Wide - v, Decimal)
                   m == <<"-">>
        <5>1. d = m \o e
          BY <4>2
        <5>2. e \in Seq(Digits) /\ IsNumeral(e, Wide - v, Decimal)
          BY <2>1, <3>1, <4>2, ItoaNumeral
        <5>3. m \in Seq(Printable) /\ Len(m) = 1 /\ m[1] = "-"
          BY <2>2
        <5>4. e \in Seq(Printable)
          BY <2>2, <5>2
        <5> HIDE DEF d, e, m
        <5>5. d \in Seq(Printable) /\ Head(d) = "-" /\ Tail(d) = e
          <6>1. /\ d \in Seq(Printable) /\ Len(d) = Len(m) + Len(e)
                /\ \A i \in 1 .. Len(m) + Len(e) : d[i] = IF i <= Len(m) THEN m[i] ELSE e[i - Len(m)]
            BY <5>1, <5>3, <5>4, Concatenated, Zenon
          <6>2. Len(e) \in Nat /\ Len(d) = Len(e) + 1 /\ Head(d) = d[1] /\ d[1] = "-"
            BY <5>3, <5>4, <6>1
          <6>3. Tail(d) \in Seq(Printable) /\ Len(Tail(d)) = Len(e)
            BY <6>1, <6>2
          <6>4. ASSUME NEW i \in 1 .. Len(e) PROVE Tail(d)[i] = e[i]
            <7>1. Tail(d)[i] = d[i + 1]
              BY <6>1, <6>2
            <7>2. i + 1 \in 1 .. Len(m) + Len(e) /\ ~(i + 1 <= Len(m)) /\ (i + 1) - Len(m) = i
              BY <5>3, <6>2
            <7>3. QED
              BY <6>1, <7>1, <7>2
          <6>5. Tail(d) = e
            BY <5>4, <6>3, <6>4
          <6>6. QED
            BY <6>1, <6>2, <6>5
        <5>6. QED
          BY <4>2, <5>2, <5>5 DEF e
      <4>3. QED
        BY <4>1, <4>2
    <3>3. printed = Append(Append(<<>>, "a") \o Convert("d", FALSE, v), "b") \o <<"%">>
      BY <2>7, PrintfPlain, Zenon
    <3> HIDE DEF d
    <3>4. conv = d /\ printed = <<"a">> \o d \o <<"b", "%">>
      BY <2>2, <3>1, <3>2, <3>3, MiddleIs, Zenon
    <3> HIDE DEF conv
    <3>5. QED
      BY <2>3, <2>7, <3>2, <3>4, Zenon
  <2>8. QED
    BY <2>3, <2>4, <2>5, <2>6, <2>7
<1>2. QED
  BY <1>1, CallsAreDone, PTL
=============================================================================
