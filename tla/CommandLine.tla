---------------------------- MODULE CommandLine ----------------------------
(***************************************************************************)
(* How execute takes a command apart into the name of a program and its    *)
(* arguments, and how getargs hands these to the program.  A command is a  *)
(* sequence of characters; the code's indices start at 0.                  *)
(***************************************************************************)
EXTENDS FileSystem

CONSTANT MaxBuf   \* MAXBUFSIZEEXECUTE and PCB_MAX_ARGS

\* The buffer has room for a name, its terminator and more.
ASSUME BufferAssumption == MaxBuf \in Nat \ {0} /\ MaxBuf > NameSize + 1

Space == " "
End   == "\n"
Nul   == "\\0"

\* The length of the part of s before the first character in stops.
Until(s, stops) ==
  LET ends == {i \in DOMAIN s : s[i] \in stops} \cup {Len(s) + 1}
  IN (CHOOSE i \in ends : \A j \in ends : i <= j) - 1

\* arg_arr and arg_size: the command up to its end.
Saved(command) == SubSeq(command, 1, Until(command, {End}))

\* The command after its leading spaces.
Trimmed(command) ==
  LET kept == {i \in DOMAIN command : command[i] # Space}
  IN IF kept = {} THEN <<>>
     ELSE SubSeq(command, CHOOSE i \in kept : \A j \in kept : i <= j, Len(command))

\* Mutant: the name ends at a space only.
FirstWordToSpace(command) ==
  SubSeq(Trimmed(command), 1, Until(Trimmed(command), {Space}))

FirstWord(command) ==
  SubSeq(Trimmed(command), 1, Until(Trimmed(command), {Space, End}))

\* buf: the last place is for the terminator.
Name(command) ==
  IF Len(FirstWord(command)) = MaxBuf THEN Front(FirstWord(command)) ELSE FirstWord(command)

\* Mutant: the separator is kept.
ArgIdxAtSeparator(command) == Len(Name(command))

ArgIdx(command) == Len(Name(command)) + 1

\* set_up_fdsandargs: what the PCB keeps.
Args(command) == SubSeq(Saved(command), ArgIdx(command) + 1, Len(Saved(command)))

TooLong(command) == Len(command) > MaxBuf

\* execute up to its look-up: which entry is run, with which arguments.
Parse(command) ==
  IF TooLong(command) THEN [entry |-> NoEntry, args |-> <<>>, size |-> 0]
  ELSE [entry |-> read_dentry_by_name(Name(command)),
        args  |-> Args(command),
        size  |-> Len(Saved(command))]

\* strncpy of s into n bytes.
Padded(s, n) == [i \in 1..n |-> IF i \in DOMAIN s THEN s[i] ELSE Nul]

getargs(pcb, nbytes) ==
  IF nbytes < 0 \/ nbytes - 1 < pcb.size THEN [ret |-> Fail, bytes |-> <<>>]
  ELSE [ret |-> 0, bytes |-> Padded(pcb.args, nbytes)]
=============================================================================
