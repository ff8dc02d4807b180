------------------------------- MODULE Calls -------------------------------
(***************************************************************************)
(* Every call read_data, execute's parser, getargs, the memory functions   *)
(* and printf can be given, one call per behaviour, and what each of them  *)
(* must answer.  The programs of Programs make such calls in sequence.     *)
(***************************************************************************)
EXTENDS CommandLine, Library

CONSTANTS
  Lines,     \* commands execute is given
  MemSize    \* bytes of memory

ASSUME CallsAssumption ==
  /\ \A command \in Lines : command \in Seq(STRING)
  /\ MemSize \in Nat

\* A memory whose bytes can be told apart.
Memory == [a \in 0..MemSize-1 |-> a]
Filler == MemSize

\* Whether n bytes from a are in memory, and those from b are not among them.
Fits(a, n) == a + n <= MemSize
Apart(a, b, n) == a + n <= b \/ b + n <= a

Formats == {<<"%", "d">>, <<"%", "u">>, <<"%", "x">>, <<"%", "#", "x">>}

VARIABLES
  request,   \* the call made: its operation and arguments
  answer,    \* what read_data or getargs returned
  kept,      \* what execute stored for the program
  memory,    \* memory after a call of the library
  printed    \* what printf printed

callvars == <<request, answer, kept, memory, printed>>

NoCall == [op |-> "none", inode |-> 0, offset |-> 0, length |-> 0, name |-> <<>>]
NoArgs == [entry |-> NoEntry, args |-> <<>>, size |-> 0]
NoData == [ret |-> Fail, bytes |-> <<>>]

CallsInit ==
  /\ request = NoCall /\ answer = NoData /\ kept = NoArgs
  /\ memory = Memory /\ printed = <<>>

CallReadData == \E i \in DOMAIN Size, o, n \in 0..Word-1 :
  /\ request' = [NoCall EXCEPT !.op = "data", !.inode = i, !.offset = o, !.length = n]
  /\ answer' = read_data(i, o, n)
  /\ UNCHANGED <<kept, memory, printed>>

CallExecute == \E command \in Lines :
  /\ request' = [NoCall EXCEPT !.op = "execute", !.name = command]
  /\ kept' = Parse(command)
  /\ UNCHANGED <<answer, memory, printed>>

\* The program that was started asks for its arguments; every entry that is found
\* stands for an executable here.
CallGetargs == \E n \in -1..MaxBuf+1 :
  /\ request.op = "execute" /\ kept.entry # NoEntry
  /\ request' = [request EXCEPT !.op = "getargs", !.length = n]
  /\ answer' = getargs(kept, n)
  /\ UNCHANGED <<kept, memory, printed>>

MemoryAfter(op, d, s, n) ==
  CASE op = "set"  -> memset(Memory, d, Filler, n)
    [] op = "cpy"  -> memcpy(Memory, d, s, n)
    [] op = "move" -> memmove(Memory, d, s, n)

\* memset fills n bytes at d, memcpy takes them from s, which do not overlap with
\* the others; memmove takes them from anywhere.
CallMemory == \E op \in {"set", "cpy", "move"}, d, s, n \in 0..MemSize :
  /\ Fits(d, n) /\ Fits(s, n)
  /\ op = "cpy" => Apart(d, s, n)
  /\ request' = [NoCall EXCEPT !.op = op, !.inode = d, !.offset = s, !.length = n]
  /\ memory' = MemoryAfter(op, d, s, n)
  /\ UNCHANGED <<answer, kept, printed>>

\* A number between two other characters, and a percent sign.
CallPrintf == \E f \in Formats, v \in 0..Wide-1 :
  /\ request' = [NoCall EXCEPT !.op = "printf", !.name = f, !.length = v]
  /\ printed' = printf(<<"a">> \o f \o <<"b", "%", "%">>, <<v>>)
  /\ UNCHANGED <<answer, kept, memory>>

\* One call per behaviour, but for getargs, which needs a program; each starts
\* from the same constant image.
CallsNext ==
  \/ request = NoCall /\ (CallReadData \/ CallExecute \/ CallMemory \/ CallPrintf)
  \/ CallGetargs

CallsSpec == CallsInit /\ [][CallsNext]_callvars

(***************************************************************************)
(* Reference definitions: a file is one sequence of bytes, the directory a *)
(* list of named entries.                                                  *)
(***************************************************************************)
WholeFile(i) == [k \in 1..Size[i] |->
                   <<Block[i][(k-1) \div BlockSize], (k-1) % BlockSize>>]

Slice(i, o, n) ==
  SubSeq(WholeFile(i), o + 1, IF o + n < Size[i] THEN o + n ELSE Size[i])

\* The first entry of this name.
EntryOf(name) ==
  LET named == {i \in DOMAIN Dir : Dir[i].name = name}
  IN IF named = {} THEN NoEntry ELSE Dir[CHOOSE i \in named : \A j \in named : i <= j]

Blanks(n) == [i \in 1..n |-> Space]

\* The command line: what comes before the newline, if there is one.
IsLineOf(line, command) ==
  /\ End \notin ToSet(line)
  /\ line = command \/ IsPrefix(Append(line, End), command)

\* line is n spaces, a word, and nothing or a space and the rest.
IsSplit(line, n, word, rest) ==
  /\ word # <<>>
  /\ Space \notin ToSet(word)
  /\ rest # <<>> => Head(rest) = Space
  /\ line = Blanks(n) \o word \o rest

\* The number that digits stand for.
Digit(c) == (CHOOSE i \in DOMAIN lookup : lookup[i] = c) - 1
Numeral(digits, radix) ==
  LET n[k \in 0 .. Len(digits)] ==
        IF k = 0 THEN 0 ELSE n[k - 1] * radix + Digit(digits[k])
  IN n[Len(digits)]

\* digits are those of value, of which they have no more than they need.
IsNumeral(digits, value, radix) ==
  /\ digits # <<>> /\ Numeral(digits, radix) = value
  /\ Head(digits) = "0" => Len(digits) = 1

Inner == SubSeq(printed, 2, Len(printed) - 2)

(***************************************************************************)
(* Properties.                                                             *)
(***************************************************************************)
\* read_data returns the bytes of the file from offset on, as many as were asked
\* for or as there are, at every block boundary and at the end of the file; it
\* fails for no bytes and past the end (read_data, filesystem.c:273).
ReadsFileBytes ==
  request.op = "data" =>
    LET bytes == Slice(request.inode, request.offset, request.length)
    IN answer = IF request.length = 0 \/ request.offset > Size[request.inode] THEN NoData
                ELSE [ret |-> Len(bytes), bytes |-> bytes]

\* execute looks up the first word of the command line, through leading spaces,
\* repeated spaces, a missing newline and a line that fills the buffer, and finds
\* the program with exactly this name or none (execute; bug_log.txt items 2, 3
\* and 6).
RunsFirstWord ==
  request.op = "execute" /\ ~TooLong(request.name) =>
    \A k \in 0..Len(request.name) : \A n \in 0..k, i \in 0..k :
      LET line == SubSeq(request.name, 1, k)
          word == SubSeq(line, n + 1, i)
      IN IsLineOf(line, request.name) /\ IsSplit(line, n, word, SubSeq(line, i + 1, k)) =>
           kept.entry = EntryOf(word)

\* A program started with arguments and without leading spaces gets, from getargs,
\* the line after its name and one space, with a terminator; getargs asks for room
\* for the whole command line (execute's arg_idx, set_up_fdsandargs, getargs).
ArgsDelivered ==
  request.op = "getargs" =>
    \A k \in 0..Len(request.name) : \A i \in 0..k :
      LET line == SubSeq(request.name, 1, k)
          rest == SubSeq(line, i + 1, k)
      IN /\ IsLineOf(line, request.name) /\ IsSplit(line, 0, SubSeq(line, 1, i), rest)
         /\ Len(rest) > 1
         => answer = IF request.length <= k THEN NoData
                     ELSE [ret |-> 0,
                           bytes |-> Padded(SubSeq(rest, 2, Len(rest)), request.length)]

\* memset, memcpy and memmove change the bytes they are asked to and no other, at
\* every alignment and length; memmove also when the ranges overlap (lib.c:495,
\* 578, 624).
MovesBytes ==
  request.op \in {"set", "cpy", "move"} =>
    memory = [a \in DOMAIN Memory |->
                IF a - request.inode \notin 0..request.length-1 THEN Memory[a]
                ELSE IF request.op = "set" THEN Filler
                ELSE Memory[a - request.inode + request.offset]]

\* printf prints a numeral of its argument, through itoa and strrev: for zero, for
\* the least and the greatest integer, with a sign for %d and all digits for %#x,
\* between what the format has before and behind it (lib.c:210, 427).
PrintsNumbers ==
  request.op = "printf" =>
    /\ printed = <<"a">> \o Inner \o <<"b", "%">>
    /\ CASE request.name = <<"%", "x">> -> IsNumeral(Inner, request.length, Hex)
         [] request.name = <<"%", "u">> -> IsNumeral(Inner, request.length, Decimal)
         [] request.name = <<"%", "#", "x">> ->
              Len(Inner) = HexWidth /\ Numeral(Inner, Hex) = request.length
         [] request.name = <<"%", "d">> ->
              IF request.length < Wide \div 2 THEN IsNumeral(Inner, request.length, Decimal)
              ELSE Head(Inner) = "-" /\ IsNumeral(Tail(Inner), Wide - request.length, Decimal)
=============================================================================
