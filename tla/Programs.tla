------------------------------ MODULE Programs ------------------------------
(***************************************************************************)
(* The supplied user programs on the system calls of FileDescriptors: the  *)
(* shell reads a command and executes it, cat, ls, grep and syserr make    *)
(* their calls and look at what these return.  One terminal: the shell in  *)
(* slot Base waits while the program it started in slot Child runs.  A     *)
(* program `other' makes any calls, and may stand in the shell's place.    *)
(* Printing to stdout is recorded; messages are left out.                  *)
(***************************************************************************)
EXTENDS FileDescriptors, CommandLine

CONSTANTS
  Base, Child,
  ProgramOf,   \* the program in each inode that holds an executable
  Commands,    \* lines the user types
  CatSize,     \* 1024 in ece391cat.c
  NameBuf,     \* SBUFSIZE - 1 in ece391ls.c and ece391grep.c
  GrepSize,    \* BUFSIZE in ece391grep.c
  Junk         \* what the stack may hold where grep never wrote

ASSUME ProgramsAssumption ==
  /\ Procs = {Base, Child} /\ BaseProcs = {Base} /\ Base # Child
  /\ CatSize \in Nat /\ CatSize > MaxBuf
  /\ GrepSize \in Nat /\ GrepSize > MaxBuf
  /\ NameBuf = NameSize
  /\ {CatSize, GrepSize, NameBuf} \subseteq 0 .. Word-1
  /\ Junk # {}

Dot  == <<".">>
Quit == <<"e", "x">>   \* "exit"

VARIABLES
  shell,    \* what the base process does: "boot", "read", "run", "wait", or "other"
  prog,     \* the program in Child, "none" while the shell runs
  pcb,      \* the arguments execute stored
  pc,       \* where the program is
  local,    \* its local variables
  out,      \* what it printed; of grep, the lines for each name it read
  code      \* the status it exits with

session == <<shell, prog, pcb, pc, local, out, code>>
allvars == <<vars, session>>

\* Local variables as execute leaves them: junk is what the stack held.
Locals ==
  {[fd |-> 0, file |-> 0, name |-> <<>>, last |-> 0, cnt |-> 0, start |-> 0,
    todo |-> <<>>, results |-> <<>>, junk |-> c, data |-> [i \in 0..GrepSize |-> c]] : c \in Junk}

StartInit ==
  /\ Init
  /\ shell \in {"boot", "other"}
  /\ prog = "none"
  /\ pcb = [args |-> <<>>, size |-> 0]
  /\ pc = "idle"
  /\ local = CHOOSE l \in Locals : TRUE
  /\ out = <<>>
  /\ code = 0

(***************************************************************************)
(* The base process.                                                       *)
(***************************************************************************)
Boot ==
  /\ Execute(Base)
  /\ shell' = IF shell = "boot" THEN "read" ELSE shell
  /\ UNCHANGED <<prog, pcb, pc, local, out, code>>

\* A base process that is not the shell.
OtherBase ==
  /\ shell = "other"
  /\ Call(Base) \/ HaltBase(Base)
  /\ UNCHANGED session

ShellRead ==
  /\ shell = "read"
  /\ read(Base, 0, CatSize)
  /\ shell' = "run"
  /\ UNCHANGED <<prog, pcb, pc, local, out, code>>

ShellEmpty ==
  /\ shell = "run"
  /\ <<>> \in Commands
  /\ shell' = "read"
  /\ UNCHANGED <<vars, prog, pcb, pc, local, out, code>>

\* exit: the base shell is replaced.
ShellExit ==
  /\ shell = "run"
  /\ Quit \in Commands
  /\ HaltBase(Base)
  /\ shell' = "read"
  /\ UNCHANGED <<prog, pcb, pc, local, out, code>>

\* execute refuses a command that names no executable: "no such command".
ShellUnknown ==
  /\ shell = "run"
  /\ \E c \in Commands \ {Quit, <<>>} : Parse(c).entry.inode \notin DOMAIN ProgramOf
  /\ Answer(Base, Fail)
  /\ shell' = "read"
  /\ UNCHANGED <<prog, pcb, pc, local, out, code>>

ShellExecute ==
  /\ shell = "run"
  /\ \E c \in Commands \ {Quit, <<>>} :
       /\ Parse(c).entry.inode \in DOMAIN ProgramOf
       /\ prog' = ProgramOf[Parse(c).entry.inode]
       /\ pcb' = [args |-> Parse(c).args, size |-> Parse(c).size]
  /\ Execute(Child)
  /\ shell' = "wait"
  /\ pc' = "main"
  /\ local' \in Locals
  /\ out' = <<>>
  /\ code' = 0

(***************************************************************************)
(* Steps of the program in Child.                                          *)
(***************************************************************************)
At(label) == pc = label
Goto(label) == pc' = label
ret  == res[Child].ret
data == res[Child].data

\* _start: halt with what main returned.
Leave ==
  /\ At("exit")
  /\ Halt(Child)
  /\ shell' = "read"
  /\ prog' = "none"
  /\ Goto("idle")
  /\ out' = <<>> /\ code' = 0 /\ local' = CHOOSE l \in Locals : TRUE
  /\ UNCHANGED pcb

Exit(status) ==
  /\ Goto("exit")
  /\ code' = status
  /\ UNCHANGED <<vars, shell, prog, pcb, local, out>>

\* A call and where the program looks at its result.
CallThen(call, label) ==
  /\ call
  /\ Goto(label)
  /\ UNCHANGED <<shell, prog, pcb, out, code>>

\* The string getargs leaves in a buffer of n bytes.
Argument(n) ==
  LET b == getargs(pcb, n).bytes IN SubSeq(b, 1, Until(b, {Nul}))

ArgsFail(n) == getargs(pcb, n).ret # 0

(***************************************************************************)
(* cat and ls: open, then read and print until a read returns 0.  That     *)
(* getargs, a read or a write fails does not happen to them.               *)
(***************************************************************************)
ChunkSize(p) == IF p = "cat" THEN CatSize ELSE NameBuf
Printed(p)   == IF p = "cat" THEN data ELSE <<Append(data, End)>>

CatOpen ==
  /\ prog = "cat" /\ At("main")
  /\ ~ArgsFail(CatSize)
  /\ CallThen(open(Child, Argument(CatSize)), "opened")
  /\ UNCHANGED local

LsOpen ==
  /\ prog = "ls" /\ At("main")
  /\ CallThen(open(Child, Dot), "opened")
  /\ UNCHANGED local

ReadFirst ==
  /\ prog \in {"cat", "ls"} /\ At("opened") /\ ret # Fail
  /\ CallThen(read(Child, ret, ChunkSize(prog)), "chunk")
  /\ local' = [local EXCEPT !.fd = ret]

PrintChunk ==
  /\ prog \in {"cat", "ls"} /\ At("chunk") /\ ret \notin {0, Fail}
  /\ write(Child, 1)
  /\ out' = out \o Printed(prog)
  /\ Goto("written")
  /\ UNCHANGED <<shell, prog, pcb, local, code>>

ReadMore ==
  /\ prog \in {"cat", "ls"} /\ At("written") /\ ret # Fail
  /\ CallThen(read(Child, local.fd, ChunkSize(prog)), "chunk")
  /\ UNCHANGED local

PrinterExits ==
  /\ prog \in {"cat", "ls"}
  /\ \/ At("opened") /\ ret = Fail /\ Exit(2)
     \/ At("chunk") /\ ret = 0 /\ Exit(0)

(***************************************************************************)
(* grep: the names of the directory, and for each file do_one_file.        *)
(***************************************************************************)
GrepOpen ==
  /\ prog = "grep" /\ At("main")
  /\ ~ArgsFail(GrepSize)
  /\ CallThen(open(Child, Dot), "opened")
  /\ UNCHANGED local

GrepFirst ==
  /\ prog = "grep" /\ At("opened") /\ ret # Fail
  /\ CallThen(read(Child, ret, NameBuf), "name")
  /\ local' = [local EXCEPT !.fd = ret]

\* A name that starts with a dot is passed over.
GrepSkip ==
  /\ prog = "grep" /\ At("name") /\ ret \notin {0, Fail} /\ data[1] = "."
  /\ Goto("again")
  /\ out' = Append(out, <<>>)
  /\ UNCHANGED <<vars, shell, prog, pcb, local, code>>

GrepNext ==
  /\ prog = "grep" /\ At("again") /\ ret # Fail
  /\ CallThen(read(Child, local.fd, NameBuf), "name")
  /\ UNCHANGED local

GrepFile ==
  /\ prog = "grep" /\ At("name") /\ ret \notin {0, Fail} /\ data[1] # "."
  /\ open(Child, data)
  /\ Goto("file")
  /\ local' = [local EXCEPT !.name = data]
  /\ out' = Append(out, <<>>)
  /\ UNCHANGED <<shell, prog, pcb, code>>

\* read(fd, data + last, BUFSIZE - last)
GrepRead ==
  /\ prog = "grep"
  /\ \/ At("file") /\ ret # Fail /\ local' = [local EXCEPT !.file = ret, !.last = 0]
     \/ At("more") /\ UNCHANGED local
  /\ CallThen(read(Child, local'.file, GrepSize - local'.last), "text")

GrepText ==
  /\ prog = "grep" /\ At("text") /\ ret # Fail
  /\ local' = [local EXCEPT
       !.data = [i \in 0..GrepSize |->
                   IF i - local.last \in 0..ret-1 THEN data[i - local.last + 1] ELSE @[i]],
       !.cnt = ret, !.last = @ + ret, !.start = 0]
  /\ Goto("line")
  /\ UNCHANGED <<vars, shell, prog, pcb, out, code>>

LineEnd ==
  LET ends == {i \in local.start .. local.last-1 : local.data[i] = End} \cup {local.last}
  IN CHOOSE i \in ends : \A j \in ends : i <= j

\* A line that may go on past what was read, unless it fills the buffer.
Partial == local.data[LineEnd] # End /\ local.cnt # 0 /\ local.start # 0

Line == [i \in 1 .. LineEnd - local.start |-> local.data[local.start + i - 1]]

Occurs(s, line) ==
  s # <<>> /\ \E i \in 0 .. Len(line) - Len(s) : SubSeq(line, i + 1, i + Len(s)) = s

\* An empty string begins, as the code compares it, where the line has a NUL.
Hit(s, line) == Occurs(s, line) \/ (s = <<>> /\ Nul \in ToSet(line))

\* fdputs prints up to a NUL.
Shown == SubSeq(Line, 1, Until(Line, {Nul}))

\* Mutant: what is left of the buffer is dropped.
GrepCarryNothing ==
  /\ prog = "grep" /\ At("line") /\ Partial
  /\ local' = [local EXCEPT !.last = 0]
  /\ Goto("more")
  /\ UNCHANGED <<vars, shell, prog, pcb, out, code>>

\* data[line_end] = 0 and strcpy(data, data + line_start), which ends at the first
\* NUL; last is moved as if there were no other.
GrepCarry ==
  LET from == [local.data EXCEPT ![LineEnd] = Nul]
      stop == Min({i \in local.start .. local.last : from[i] = Nul})
  IN
  /\ prog = "grep" /\ At("line") /\ Partial
  /\ local' = [local EXCEPT
       !.data = [i \in 0..GrepSize |->
                   IF i + local.start <= stop THEN from[i + local.start] ELSE from[i]],
       !.last = @ - local.start]
  /\ Goto("more")
  /\ UNCHANGED <<vars, shell, prog, pcb, out, code>>

\* Mutant: the end of the file is not looked for.
AfterLineMore == IF LineEnd + 1 < local.last THEN "line" ELSE "more"

AfterLine ==
  IF LineEnd + 1 < local.last THEN "line" ELSE IF local.cnt = 0 THEN "done" ELSE "more"

\* The line is searched, and printed with the file's name when it matches.
GrepLine ==
  LET hit == Hit(Argument(GrepSize), Line) IN
  /\ prog = "grep" /\ At("line") /\ ~Partial
  /\ IF hit THEN write(Child, 1) ELSE UNCHANGED vars
  /\ out' = IF hit THEN [out EXCEPT ![Len(out)] = Append(@, <<local.name, Shown>>)] ELSE out
  /\ local' = [local EXCEPT !.data[LineEnd] = Nul, !.start = LineEnd + 1,
                            !.last = IF LineEnd + 1 >= @ THEN 0 ELSE @]
  /\ Goto(AfterLine)
  /\ UNCHANGED <<shell, prog, pcb, code>>

GrepClose ==
  /\ prog = "grep" /\ At("done")
  /\ CallThen(close(Child, local.file), "again")
  /\ UNCHANGED local

GrepExits ==
  /\ prog = "grep" /\ At("name") /\ ret = 0
  /\ Exit(0)

(***************************************************************************)
(* syserr: each test is a list of calls and what their results must be.    *)
(***************************************************************************)
EachFd(call, first) == [i \in 1 .. NumFds - first |-> <<call, first + i - 1>>]

err_neg_fd == << <<"read", -1>>, <<"write", -1>>, <<"close", -1>> >>
err_big_fd == << <<"read", NumFds>>, <<"write", NumFds>>, <<"close", NumFds>> >>
\* One open more than there are descriptors for; then all are closed.
err_open_lots == [i \in 1 .. NumFds - 1 |-> <<"open", Dot>>] \o EachFd("close", FdStart)
\* A name and a character, a name without its last, and no name.
err_open == << <<"open", Dir[3].name \o Dot>>, <<"open", Front(Dir[2].name)>>, <<"open", <<>> >> >>
err_unopened ==
  EachFd("close", 0) \o EachFd("read", FdStart) \o EachFd("write", FdStart)
\* A null pointer and one into the kernel, by page directory index.
err_vidmap == << <<"vidmap", 0>>, <<"vidmap", 1>> >>
err_stdin_out == << <<"write", 0>>, <<"read", 1>> >>
err_syscall_num == << <<"number", 11>>, <<"number", -1>>, <<"number", 0>> >>

Script == << err_neg_fd, err_big_fd, err_open_lots, err_open,
             err_unopened, err_vidmap, err_stdin_out, err_syscall_num >>

\* The names err_open tries are none of the directory's.
ASSUME SyserrAssumption ==
  /\ Len(Dir) >= 3
  /\ \A i \in DOMAIN Dir : Dir[i].name \notin {Dir[3].name \o Dot, Front(Dir[2].name)}

Failures(results) == {i \in DOMAIN results : results[i] = Fail}

\* All calls fail, but for those of the third test: one open of seven.
Passed(test, results) ==
  IF test = 3 THEN \E i \in 1..NumFds-1 : Failures(results) \cap (1..NumFds-1) = {i}
              ELSE Failures(results) = DOMAIN results

\* vidmap refuses pointers outside the user's page, by page directory index.
vidmap(index) == IF index # 32 THEN Fail ELSE 0

\* systemcallasm: numbers out of range never reach the jump table.
systemcallasm(number) == IF number <= 0 \/ number > 10 THEN Fail ELSE 0

Do(call, arg) ==
  \/ call = "open" /\ open(Child, arg)
  \/ call = "close" /\ close(Child, arg)
  \/ call = "read" /\ read(Child, arg, NameBuf)
  \/ call = "write" /\ write(Child, arg)
  \/ call = "vidmap" /\ Answer(Child, vidmap(arg))
  \/ call = "number" /\ Answer(Child, systemcallasm(arg))

SyserrAsk ==
  /\ prog = "syserr" /\ At("main")
  /\ CallThen(read(Child, 0, CatSize), "select")
  /\ UNCHANGED local

\* 0 runs all tests, a number that is none of theirs runs none.
SyserrSelect ==
  /\ prog = "syserr" /\ At("select")
  /\ \E tests \in {[i \in 1..8 |-> i], <<>>} \cup {<<k>> : k \in 1..8} :
       local' = [local EXCEPT !.todo = tests]
  /\ Goto("test")
  /\ UNCHANGED <<vars, shell, prog, pcb, out, code>>

Current == Script[Head(local.todo)]

SyserrCall ==
  /\ prog = "syserr" /\ At("test") /\ local.todo # <<>>
  /\ Len(local.results) < Len(Current)
  /\ Do(Current[Len(local.results) + 1][1], Current[Len(local.results) + 1][2])
  /\ local' = [local EXCEPT !.results = Append(@, res'[Child].ret)]
  /\ UNCHANGED <<shell, prog, pcb, pc, out, code>>

\* fail += the test's result.
SyserrVerdict ==
  /\ prog = "syserr" /\ At("test") /\ local.todo # <<>>
  /\ Len(local.results) = Len(Current)
  /\ code' = code + IF Passed(Head(local.todo), local.results) THEN 0 ELSE 2
  /\ local' = [local EXCEPT !.todo = Tail(@), !.results = <<>>]
  /\ UNCHANGED <<vars, shell, prog, pcb, pc, out>>

SyserrExits ==
  /\ prog = "syserr" /\ At("test") /\ local.todo = <<>>
  /\ Exit(code)

(***************************************************************************)
(* A program of the user's own.                                            *)
(***************************************************************************)
OtherCall ==
  /\ prog = "other" /\ At("main")
  /\ \/ Call(Child) /\ UNCHANGED session
     \/ Exit(0)

Shell == ShellRead \/ ShellEmpty \/ ShellExit \/ ShellUnknown \/ ShellExecute
Cat   == CatOpen \/ LsOpen \/ ReadFirst \/ PrintChunk \/ ReadMore \/ PrinterExits
Grep  == GrepOpen \/ GrepFirst \/ GrepSkip \/ GrepNext \/ GrepFile \/ GrepRead \/ GrepText
         \/ GrepCarry \/ GrepLine \/ GrepClose \/ GrepExits
Syserr == SyserrAsk \/ SyserrSelect \/ SyserrCall \/ SyserrVerdict \/ SyserrExits

Next == Boot \/ OtherBase \/ Shell \/ Cat \/ Grep \/ Syserr \/ OtherCall \/ Leave

\* A program that runs goes on (see Processes for the scheduler).
Spec == StartInit /\ [][Next]_allvars /\ WF_session(Cat \/ Grep \/ Syserr \/ Leave)

(***************************************************************************)
(* References: what the programs are for.                                  *)
(***************************************************************************)
Entries(name) == {i \in DOMAIN Dir : Dir[i].name = name}

\* The entry a name stands for is the first.
FirstOf(name) == Dir[CHOOSE i \in Entries(name) : \A j \in Entries(name) : i <= j]

Content(e) ==
  CASE e.type = 0 -> <<>>
    [] e.type = 1 -> FlattenSeq([i \in DOMAIN Dir |-> Dir[i].name])
    [] e.type = 2 -> Characters(FileBytes(e.inode, Size[e.inode]))

\* Where the lines of a text end, and the line that ends before k.
Stops(text) == {k \in DOMAIN text : text[k] = End} \cup {Len(text) + 1}

LineBefore(text, k) ==
  LET before == {i \in Stops(text) \cup {0} : i < k}
  IN SubSeq(text, (CHOOSE i \in before : \A j \in before : j <= i) + 1, k - 1)

\* The lines of a file that contain s, in order.
TextOf(e) == IF e.type = 2 THEN Content(e) ELSE <<>>

FoundBefore(e, s, k) ==
  LET line == LineBefore(TextOf(e), k)
  IN IF k \in Stops(TextOf(e)) /\ Occurs(s, line) THEN << <<e.name, line>> >> ELSE <<>>

FoundIn(e, s) ==
  IF e.name[1] = "." THEN <<>>
  ELSE FlattenSeq([k \in 1 .. Len(TextOf(e)) + 1 |-> FoundBefore(e, s, k)])

\* What cat and ls print and return.
Expected ==
  CASE prog = "cat" ->
         IF Entries(pcb.args) = {} THEN <<2, <<>>>> ELSE <<0, Content(FirstOf(pcb.args))>>
    [] prog = "ls" -> <<0, [i \in DOMAIN Dir |-> Append(Dir[i].name, End)]>>

\* A file without NULs, each line of which fits into grep's buffer: of other lines
\* grep sees pieces.
IsText(e) ==
  /\ Nul \notin ToSet(TextOf(e))
  /\ \A k \in 0 .. Len(TextOf(e)) - GrepSize : \E j \in k+1 .. k + GrepSize : TextOf(e)[j] = End

\* There is room for a file; entries are of the three types, and there is one
\* directory; commands hold no terminator.
ASSUME PrintAssumption ==
  /\ NumFds > FdStart
  /\ \A i \in DOMAIN Dir : Dir[i].type \in 0..2 /\ (Dir[i].type = 1 => i = 1)
  /\ \A c \in Commands : c \in Seq(STRING) /\ \A i \in DOMAIN c : c[i] # Nul

(***************************************************************************)
(* Properties.                                                             *)
(***************************************************************************)
\* cat prints the file its argument names, whole and once, ls every name of the
\* directory, and grep, for each name, every line of the file that contains its
\* argument, however file, block and buffer boundaries fall.  Of executables and of
\* files with lines longer than grep's buffer no lines are promised, but they do
\* not disturb the search of the text files around them.  A newline on the stack
\* behind grep's buffer is the exception.  execute's parser, getargs, open, read to
\* the 0 at the end and close work together (ece391cat.c, ece391ls.c, ece391grep.c).
ProgramsPrint ==
  At("exit") =>
    /\ prog \in {"cat", "ls"} => <<code, out>> = Expected
    /\ prog = "grep" /\ local.junk # End =>
         /\ code = 0 /\ Len(out) = Len(Dir)
         /\ \A i \in DOMAIN Dir :
              LET e == FirstOf(Dir[i].name)
              IN IsText(e) => out[i] = FoundIn(e, pcb.args)

\* The tests of the system calls' error paths pass (ece391syserr.c: "prints PASS
\* if behavior is EXPECTED"), also after a process that left descriptors open.
TestsPass == prog = "syserr" => code = 0

\* cat, ls, grep and syserr end: their loops rely on reads that return 0.
ProgramsEnd == pc # "idle" /\ prog # "other" ~> pc = "idle"
=============================================================================
