----------------------------- MODULE MCPrograms -----------------------------
(***************************************************************************)
(* Programs, Calls and Keyboard for TLC on one small image: the sessions   *)
(* of a terminal, and from the state before the first of them every single *)
(* call and every sequence of keys.  The directory holds two text files,   *)
(* the clock and the programs.  Files end inside a block, on a block       *)
(* boundary, at the largest size and at zero, and their blocks are         *)
(* scattered; the texts take one to two reads of cat and grep, which find  *)
(* lines that end, start and go on at the boundaries of blocks and reads.  *)
(***************************************************************************)
EXTENDS Programs, Calls, Keyboard, TLC

Entry(name, type, inode) == [name |-> name, type |-> type, inode |-> inode]

SmallDir ==
  << Entry(<<".">>, 1, 0), Entry(<<"a", "b">>, 2, 1), Entry(<<"r">>, 0, 0),
     Entry(<<"c">>, 2, 2), Entry(<<"l">>, 2, 3), Entry(<<"g">>, 2, 4),
     Entry(<<"y">>, 2, 5), Entry(<<"o">>, 2, 6), Entry(<<"b">>, 2, 7) >>

SmallProgramOf == [i \in 2..6 |-> <<"cat", "ls", "grep", "syserr", "other">>[i - 1]]

\* Two executables have more than the one byte in block 0.
SmallSize  == [i \in 0..7 |-> <<0, 9, 9, 1, 1, 1, 6, 7>>[i + 1]]
SmallBlock ==
  [i \in 0..7 |-> [j \in 0..2 |-> CASE i = 1 -> <<3, 1, 2>>[j + 1]
                                   [] i = 2 -> <<7, 9, 8>>[j + 1]
                                   [] i = 6 -> <<5, 3, 0>>[j + 1]
                                   [] i = 7 -> <<4, 6, 5>>[j + 1]
                                   [] OTHER -> 0]]

\* The lines "pq" and "qpppq", and "pp", "" and "qpq" without a newline; in an
\* executable a NUL within what grep carries over, and "pq" behind it.
SmallText ==
  [b \in (0..9) \X (0..2) |->
     << <<"E", "E", "E">>, <<"q", "p", "p">>, <<"p", "q", End>>, <<"p", "q", End>>,
        <<"p", "p", End>>, <<"q", "E", "E">>, <<End, "q", "p">>,
        <<"E", End, "E">>, <<"p", "q", "E">>, <<Nul, "p", "q">> >>[b[1] + 1][b[2] + 1]]

\* Behind grep's buffer is a newline or another character.
SmallJunk == {"?", End}

SmallNames == {<<".">>, <<"a", "b">>, <<"r">>, <<"a">>}

\* No bytes, one, more than a file has left, and a negative size.
SmallCounts == {-1, 0, 1, 8}

\* cat with and without a file, ls, grep, syserr, a program of the user's own, a
\* name that is none and exit.
SmallCommands ==
  { <<"c", " ", "a", "b">>, <<"c", " ", "a">>, <<"c">>, <<"c", " ", "r">>, <<"c", " ", ".">>,
    <<"l">>, <<"g">>, <<"g", " ", "p", "q">>, <<"g", " ", "p", "p", "p">>, <<"g", " ", "q", "p">>,
    <<"y">>, <<"o">>, <<"r">>, <<>>, Quit }

\* The commands of single calls: all up to one longer than the buffer.
SmallLines == BoundedSeq({"a", "b", Space, End}, MaxBuf + 1)

AnswerTaken ==
  /\ request # NoCall
  /\ request' = NoCall /\ answer' = NoData /\ kept' = NoArgs
  /\ memory' = Memory /\ printed' = <<>>

Sessions == CallsInit /\ KeysInit /\ Next /\ UNCHANGED <<callvars, keyvars>>
AnyCall  == StartInit /\ KeysInit /\ (CallsNext \/ AnswerTaken) /\ UNCHANGED <<allvars, keyvars>>
AnyKey   == StartInit /\ CallsInit /\ KeysNext /\ UNCHANGED <<allvars, callvars>>

AllInit == StartInit /\ CallsInit /\ KeysInit

AllSpec ==
  /\ AllInit
  /\ [][Sessions \/ AnyCall \/ AnyKey]_<<allvars, callvars, keyvars>>
  /\ WF_session(Cat \/ Grep \/ Syserr \/ Leave)
=============================================================================
