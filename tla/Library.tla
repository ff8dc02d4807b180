------------------------------ MODULE Library ------------------------------
(***************************************************************************)
(* The memory and formatting functions of lib.c (ece391support.c repeats   *)
(* strlen, strrev and itoa for programs).  A memory is a function from     *)
(* addresses to bytes; strings are sequences without their terminator.     *)
(***************************************************************************)
EXTENDS Integers, Sequences, SequencesExt

CONSTANTS
  Dword,     \* bytes moved at a time by rep stosl and rep movsl: 4
  Wide,      \* 2^32, the number of values of a word
  Decimal,   \* 10
  Hex,       \* 16
  HexWidth   \* 8, the digits of %#x

ASSUME LibraryAssumption ==
  /\ Dword \in Nat \ {0} /\ Wide \in Nat \ {0, 1}
  /\ Decimal \in 2..16 /\ Hex \in 2..16
  /\ HexWidth \in Nat

Upto(n)   == [i \in 1..n |-> i - 1]        \* 0, 1, ..., n-1
Downto(n) == [i \in 1..n |-> n - i]

\* One byte after the other, at these offsets.
CopyBytes(m, dest, src, offsets) ==
  LET mem[k \in 0 .. Len(offsets)] ==
        IF k = 0 THEN m
        ELSE [mem[k - 1] EXCEPT ![dest + offsets[k]] = mem[k - 1][src + offsets[k]]]
  IN mem[Len(offsets)]

SetBytes(m, s, c, n) == [a \in DOMAIN m |-> IF a - s \in 0..n-1 THEN c ELSE m[a]]

\* Bytes before the first aligned address, as many as there are.
Unaligned(a, n) ==
  LET k == (Dword - (a % Dword)) % Dword IN IF k < n THEN k ELSE n

\* rep movsl: each step reads all its bytes before it writes them.
CopyDwords(m, dest, src, n) ==
  LET mem[k \in 0 .. n] ==
        IF k = 0 THEN m
        ELSE [a \in DOMAIN m |->
                IF a - (dest + (k - 1) * Dword) \in 0..Dword-1 THEN mem[k - 1][src + a - dest]
                ELSE mem[k - 1][a]]
  IN mem[n]

\* memset: bytes up to an aligned address, double words, the bytes that remain.
memset(m, s, c, n) ==
  LET head == Unaligned(s, n)
      body == ((n - head) \div Dword) * Dword
  IN SetBytes(SetBytes(SetBytes(m, s, c, head), s + head, c, body),
              s + head + body, c, n - head - body)

\* Mutant: the bytes behind the last double word are left.
memcpy_whole(m, dest, src, n) ==
  LET head == Unaligned(dest, n)
  IN CopyDwords(CopyBytes(m, dest, src, Upto(head)),
                dest + head, src + head, (n - head) \div Dword)

memcpy(m, dest, src, n) ==
  LET head  == Unaligned(dest, n)
      whole == (n - head) \div Dword
      done  == head + whole * Dword
  IN CopyBytes(CopyDwords(CopyBytes(m, dest, src, Upto(head)),
                          dest + head, src + head, whole),
               dest + done, src + done, Upto(n - done))

\* From the end when the destination is behind the source.
memmove(m, dest, src, n) ==
  CopyBytes(m, dest, src, IF src >= dest THEN Upto(n) ELSE Downto(n))

(***************************************************************************)
(* Numbers.                                                                *)
(***************************************************************************)
strlen(s) == Len(s)

\* The characters at beg and at end change places.
Swap(s, beg, end) ==
  [i \in DOMAIN s |-> IF i = beg THEN s[end] ELSE IF i = end THEN s[beg] ELSE s[i]]

\* beg from the first character on, end from the last, until they meet.
strrev(s) ==
  LET t[beg \in 0 .. strlen(s) \div 2] ==
        IF beg = 0 THEN s ELSE Swap(t[beg - 1], beg, strlen(s) + 1 - beg)
  IN t[strlen(s) \div 2]

lookup == <<"0", "1", "2", "3", "4", "5", "6", "7", "8", "9",
            "A", "B", "C", "D", "E", "F">>

\* newval before each round of itoa's loop, the k-th from 0 on.
newval(value, radix) ==
  LET nv[k \in Nat] == IF k = 0 THEN value ELSE nv[k - 1] \div radix IN nv

\* The greatest word has no more than HexWidth digits.
ASSUME WidthAssumption == newval(Wide - 1, Hex)[HexWidth] = 0

\* Mutant: zero has no digits.
itoa_plain(value, radix) ==
  LET nv     == newval(value, radix)
      rounds == CHOOSE k \in 0..value : nv[k] = 0 /\ \A j \in 0..k-1 : nv[j] > 0
  IN strrev([i \in 1..rounds |-> lookup[(nv[i - 1] % radix) + 1]])

\* The digits of value, the last one found first.
itoa(value, radix) ==
  IF value = 0 THEN <<"0">> ELSE
  LET nv     == newval(value, radix)
      rounds == CHOOSE k \in 0..value : nv[k] = 0 /\ \A j \in 0..k-1 : nv[j] > 0
  IN strrev([i \in 1..rounds |-> lookup[(nv[i - 1] % radix) + 1]])

\* A word as a signed integer, and the word of -value.
Signed(value) == IF value >= Wide \div 2 THEN value - Wide ELSE value
Negated(value) == (Wide - value) % Wide

\* The conversions of printf.
Convert(spec, alternate, arg) ==
  CASE spec = "x" /\ ~alternate -> itoa(arg, Hex)
    [] spec = "x" /\ alternate ->
         LET digits == itoa(arg, Hex)
         IN [i \in 1 .. HexWidth - strlen(digits) |-> "0"] \o digits
    [] spec = "u" -> itoa(arg, Decimal)
    [] spec = "d" -> IF Signed(arg) < 0 THEN <<"-">> \o itoa(Negated(arg), Decimal)
                                        ELSE itoa(arg, Decimal)
    [] spec = "c" -> <<arg>>
    [] spec = "s" -> arg

Consumes(spec) == spec \in {"x", "u", "d", "c", "s"}

\* What one character of the format does: st is where printf is.
Take(st, c) ==
  CASE st.at = "text" /\ c = "%" -> [st EXCEPT !.at = "spec", !.alternate = FALSE]
    [] st.at = "text" /\ c # "%" -> [st EXCEPT !.out = Append(@, c)]
    [] st.at = "spec" /\ c = "#" -> [st EXCEPT !.alternate = TRUE]
    [] st.at = "spec" /\ Consumes(c) ->
         [st EXCEPT !.at = "text", !.out = @ \o Convert(c, st.alternate, Head(st.args)),
                    !.args = Tail(@)]
    [] OTHER -> [st EXCEPT !.at = "text", !.out = @ \o IF c = "%" THEN <<"%">> ELSE <<>>]

\* args are the words on the stack; st[i] is reached after i characters.
printf(format, args) ==
  LET st[i \in 0..Len(format)] ==
        IF i = 0 THEN [at |-> "text", alternate |-> FALSE, out |-> <<>>, args |-> args]
        ELSE Take(st[i - 1], format[i])
  IN st[Len(format)].out
=============================================================================
