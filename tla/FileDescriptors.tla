-------------------------- MODULE FileDescriptors --------------------------
(***************************************************************************)
(* The descriptor array of each PCB and the system calls that use it:      *)
(* open, close, read and write, dispatched through the operations tables,  *)
(* and what execute and halt do to the array.  A PCB is reused as it is by *)
(* the next process of its slot.  Only the process itself touches its      *)
(* array, so each call is one step.                                        *)
(***************************************************************************)
EXTENDS FileSystem

CONSTANTS
  Procs,      \* process slots
  BaseProcs,  \* those of the base shells, which halt restarts
  NumFds,     \* ENTRIESINFDARRAY
  Text,       \* the character each byte of the image stands for
  Names,      \* file names programs open
  Counts      \* nbytes of read, an int32_t: also 0 and negative

ASSUME DescriptorAssumption ==
  /\ BaseProcs \subseteq Procs
  /\ NumFds \in Nat \ {0, 1}
  /\ \A n \in Counts : n \in Int /\ -Word < n /\ n < Word

Fds     == 0 .. NumFds-1
FdStart == 2

\* Operations tables: which of read and write are function pointers.
Tables  == {"null", "rtc", "file", "directory", "stdin", "stdout"}
CanRead == {"rtc", "file", "directory", "stdin"}
CanWrite == {"rtc", "file", "directory", "stdout"}

VARIABLES
  alive,      \* the slots with a running process
  fds,        \* fd_array of each PCB
  res,        \* the value each process got from its last call, and the characters
  got,        \* history: what the reads of each open descriptor gave: of a file all
              \* bytes, of a directory which read was the last one and what it gave
  opened,     \* history: descriptors the program opened and did not close
  wild        \* a NULL function pointer was called

vars == <<alive, fds, res, got, opened, wild>>

\* An array no process has used: zeros.
NoFile == [ops |-> "null", inode |-> 0, pos |-> 0, inuse |-> FALSE, ftype |-> 0]

Nothing == [ret |-> 0, data |-> <<>>]

Init ==
  /\ alive = {}
  /\ fds = [p \in Procs |-> [f \in Fds |-> NoFile]]
  /\ res = [p \in Procs |-> Nothing]
  /\ got = [p \in Procs |-> [f \in Fds |-> <<>>]]
  /\ opened = [p \in Procs |-> {}]
  /\ wild = FALSE

SetFd(p, f, d) == fds' = [fds EXCEPT ![p][f] = d]
Return(p, ret, data) == res' = [res EXCEPT ![p] = [ret |-> ret, data |-> data]]

\* A call that changes no descriptor.
Answer(p, ret) ==
  /\ p \in alive
  /\ Return(p, ret, <<>>)
  /\ UNCHANGED <<alive, fds, got, opened, wild>>

(***************************************************************************)
(* execute and halt.                                                       *)
(***************************************************************************)

\* Mutant: the flags of the other descriptors are left.
FreshArrayKept(old) ==
  [f \in Fds |->
    CASE f = 0 -> [old[f] EXCEPT !.ops = "stdin", !.inode = Fail, !.pos = 0, !.inuse = TRUE]
      [] f = 1 -> [old[f] EXCEPT !.ops = "stdout", !.inode = Fail, !.pos = 0, !.inuse = TRUE]
      [] OTHER -> old[f]]

\* set_up_stdin, set_up_stdout, set_up_fdsandargs: the flags of the other
\* descriptors are cleared, their tables and inodes stay.
FreshArray(old) ==
  [f \in Fds |->
    CASE f = 0 -> [old[f] EXCEPT !.ops = "stdin", !.inode = Fail, !.pos = 0, !.inuse = TRUE]
      [] f = 1 -> [old[f] EXCEPT !.ops = "stdout", !.inode = Fail, !.pos = 0, !.inuse = TRUE]
      [] OTHER -> [old[f] EXCEPT !.pos = 0, !.inuse = FALSE]]

StartIn(p) ==
  /\ fds' = [fds EXCEPT ![p] = FreshArray(@)]
  /\ res' = [res EXCEPT ![p] = Nothing]
  /\ got' = [got EXCEPT ![p] = [f \in Fds |-> <<>>]]
  /\ opened' = [opened EXCEPT ![p] = {}]

Execute(p) ==
  /\ p \notin alive
  /\ alive' = alive \cup {p}
  /\ StartIn(p)
  /\ UNCHANGED wild

\* halt of a base process never gets to closing its files: execute("shell")
\* takes the same slot over.
HaltBase(p) ==
  /\ p \in alive \cap BaseProcs
  /\ StartIn(p)
  /\ UNCHANGED <<alive, wild>>

\* fd_array_handle_close; close refuses stdin and stdout.
Closable(p, f) == f \in FdStart .. NumFds-1 /\ fds[p][f].inuse /\ fds[p][f].ops # "null"

Halt(p) ==
  /\ p \in alive \ BaseProcs
  /\ alive' = alive \ {p}
  /\ fds' = [fds EXCEPT ![p] =
               [f \in Fds |-> IF Closable(p, f) THEN NoFile ELSE fds[p][f]]]
  /\ res' = [res EXCEPT ![p] = Nothing]
  /\ got' = [got EXCEPT ![p] = [f \in Fds |-> <<>>]]
  /\ opened' = [opened EXCEPT ![p] = {}]
  /\ UNCHANGED wild

(***************************************************************************)
(* open and close.                                                         *)
(***************************************************************************)
Free(p) == {f \in FdStart..NumFds-1 : ~fds[p][f].inuse}
LowestFree(p) == CHOOSE f \in Free(p) : \A g \in Free(p) : f <= g

TableOf(type) == <<"rtc", "directory", "file">>[type + 1]

\* An empty or unknown name and a full array are refused.
CanOpen(p, name) ==
  LET e == read_dentry_by_name(name)
  IN Len(name) # 0 /\ e # NoEntry /\ e.type \in 0..2 /\ Free(p) # {}

Open(p, name) ==
  LET e == read_dentry_by_name(name)
      f == LowestFree(p)
  IN /\ p \in alive
     /\ CanOpen(p, name)
     /\ SetFd(p, f, [ops |-> TableOf(e.type), inode |-> e.inode, pos |-> 0,
                     inuse |-> TRUE, ftype |-> e.type])
     /\ Return(p, f, <<>>)
     /\ got' = [got EXCEPT ![p][f] = <<>>]
     /\ opened' = [opened EXCEPT ![p] = @ \cup {f}]
     /\ UNCHANGED <<alive, wild>>

OpenRefused(p, name) == ~CanOpen(p, name) /\ Answer(p, Fail)

Close(p, f) ==
  /\ p \in alive
  /\ Closable(p, f)
  /\ SetFd(p, f, NoFile)
  /\ Return(p, 0, <<>>)
  /\ got' = [got EXCEPT ![p][f] = <<>>]
  /\ opened' = [opened EXCEPT ![p] = @ \ {f}]
  /\ UNCHANGED <<alive, wild>>

CloseRefused(p, f) == ~Closable(p, f) /\ Answer(p, Fail)

(***************************************************************************)
(* read and write.                                                         *)
(***************************************************************************)

\* Mutant: stdout is not refused.
ReadableAny(p, f) == f \in Fds /\ fds[p][f].inuse

Readable(p, f) == f \in Fds \ {1} /\ fds[p][f].inuse
Writable(p, f) == f \in Fds \ {0} /\ fds[p][f].inuse

Characters(bytes) == [i \in DOMAIN bytes |-> Text[bytes[i]]]

\* A read of a file or directory, which moves on by `by'.
Deliver(p, f, by, ret, data, history) ==
  /\ p \in alive
  /\ SetFd(p, f, [fds[p][f] EXCEPT !.pos = @ + by])
  /\ Return(p, ret, data)
  /\ got' = [got EXCEPT ![p][f] = history]
  /\ UNCHANGED <<alive, opened, wild>>

DeliverBytes(p, f, r) ==
  Deliver(p, f, r.ret, r.ret, Characters(r.bytes), got[p][f] \o r.bytes)

\* Mutant: every read starts at the beginning of the file.
FsReadFromStart(p, f, n) ==
  LET d == fds[p][f]
      r == read_data(d.inode, 0, n % Word)
  IN IF n = 0 \/ d.pos >= get_filesize(d.inode) THEN Answer(p, 0)
     ELSE DeliverBytes(p, f, r)

\* fs_read: 0 for no bytes and at the end of the file; the flags must say that
\* the file is a regular one.  read_data takes the size as a uint32_t.
FsRead(p, f, n) ==
  LET d == fds[p][f]
      r == read_data(d.inode, d.pos, n % Word)
  IN IF n # 0 /\ d.ftype # 2 THEN Answer(p, Fail)
     ELSE IF n = 0 \/ d.pos >= get_filesize(d.inode) THEN Answer(p, 0)
     ELSE DeliverBytes(p, f, r)

\* How many reads of a directory gave a name.
NamesRead(history) == IF history = <<>> THEN 0 ELSE history[1].nth

\* dir_read: one name per call, cut to n characters, until the index runs out.
\* For n <= 0 nothing is copied, n returned and the name passed over.
DirRead(p, f, n) ==
  LET e == read_dentry_by_index(fds[p][f].pos)
      size == IF n < Len(e.name) THEN n ELSE Len(e.name)
      part == SubSeq(e.name, 1, size)
  IN IF e = NoEntry THEN Answer(p, 0)
     ELSE Deliver(p, f, 1, size, part,
                  <<[nth |-> NamesRead(got[p][f]) + 1, asked |-> n, name |-> part]>>)

\* The reads of the terminal, here of an empty line, and of the clock, which
\* have modules of their own.  The call goes through whatever the table holds.
OtherRead(p, f) ==
  /\ p \in alive
  /\ wild' = (wild \/ fds[p][f].ops \notin CanRead)
  /\ Return(p, IF fds[p][f].ops = "stdin" THEN 1 ELSE 0, <<>>)
  /\ UNCHANGED <<alive, fds, got, opened>>

Read(p, f, n) ==
  /\ Readable(p, f)
  /\ CASE fds[p][f].ops = "file" -> FsRead(p, f, n)
       [] fds[p][f].ops = "directory" -> DirRead(p, f, n)
       [] OTHER -> OtherRead(p, f)

ReadRefused(p, f) == ~Readable(p, f) /\ Answer(p, Fail)

\* terminal_write, dir_write and rtc_write (of a frequency it takes) return 0,
\* fs_write refuses.
Write(p, f) ==
  /\ p \in alive
  /\ Writable(p, f)
  /\ wild' = (wild \/ fds[p][f].ops \notin CanWrite)
  /\ Return(p, IF fds[p][f].ops = "file" THEN Fail ELSE 0, <<>>)
  /\ UNCHANGED <<alive, fds, got, opened>>

WriteRefused(p, f) == ~Writable(p, f) /\ Answer(p, Fail)

open(p, name)  == Open(p, name) \/ OpenRefused(p, name)
close(p, f)    == Close(p, f) \/ CloseRefused(p, f)
read(p, f, n)  == Read(p, f, n) \/ ReadRefused(p, f)
write(p, f)    == Write(p, f) \/ WriteRefused(p, f)

\* Any of these calls, with any descriptor, also one that does not exist.  A
\* negative size sends terminal_read's memset out of the program's page: the page
\* fault ends the program, as its halt does.
Call(p) ==
  \/ \E name \in Names : open(p, name)
  \/ \E f \in Fds \cup {-1, NumFds} :
       close(p, f) \/ write(p, f) \/ \E n \in Counts : (f = 0 => n >= 0) /\ read(p, f, n)

(***************************************************************************)
(* Properties.                                                             *)
(***************************************************************************)
\* The first n bytes of a file.
FileBytes(inode, n) ==
  [k \in 1..n |-> <<Block[inode][(k-1) \div BlockSize], (k-1) % BlockSize>>]

\* read and write never call a NULL entry of an operations table: the guards on
\* stdin and stdout and the flags of closed and of reused descriptors see to it
\* (sys_call.c:305, 340, 313, 351).
NeverNull == ~wild

\* A running process has in use stdin, stdout and what it opened itself and did
\* not close: a reused PCB passes nothing on, from a halted process or from a
\* base shell that restarts without closing (set_up_fdsandargs, halt).
NothingInherited ==
  \A p \in alive : {f \in Fds : fds[p][f].inuse} = {0, 1} \cup opened[p]

\* The last read of a directory was the n-th and gave the n-th name, cut to the
\* size asked for.
GaveName(last, n) ==
  /\ n \in DOMAIN Dir
  /\ IsPrefix(last.name, Dir[n].name)
  /\ \/ last.asked > 0 /\ Len(last.name) = last.asked
     \/ last.asked >= Len(Dir[n].name) /\ last.name = Dir[n].name
     \/ last.asked <= 0 /\ last.name = <<>>

\* Successive reads of a descriptor return a file from its beginning without a
\* gap or a repetition, and the n-th read of a directory the n-th name, cut to the
\* size asked for, whatever sizes are mixed and other descriptors do (file_pos of
\* fs_read and dir_read).  A read of no bytes leaves a file where it is but uses up
\* a name of a directory, of which it gives nothing.
ReadsInOrder ==
  \A p \in alive, f \in Fds :
    LET d == fds[p][f] IN
    /\ d.inuse /\ d.ops = "file" =>
         d.pos <= Size[d.inode] /\ got[p][f] = FileBytes(d.inode, d.pos)
    /\ d.inuse /\ d.ops = "directory" =>
         /\ d.pos = NamesRead(got[p][f])
         /\ d.pos # 0 => GaveName(got[p][f][1], d.pos)
=============================================================================
