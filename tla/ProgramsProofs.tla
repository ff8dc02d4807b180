--------------------------- MODULE ProgramsProofs ---------------------------
(***************************************************************************)
(* Proofs about FileDescriptors under the programs of Programs: for every  *)
(* image, any number of descriptors, any commands and any calls a program  *)
(* of the user's own makes.                                                *)
(***************************************************************************)
EXTENDS Programs, CallsProofs

(***************************************************************************)
(* The inductive invariant of the descriptor arrays.                       *)
(***************************************************************************)
Descriptor == [ops : Tables, inode : Int, pos : Nat, inuse : BOOLEAN, ftype : Nat]

DescriptorsOK ==
  /\ alive \subseteq Procs
  /\ fds \in [Procs -> [Fds -> Descriptor]]
  /\ DOMAIN res = Procs
  /\ DOMAIN got = Procs /\ \A p \in Procs : DOMAIN got[p] = Fds
  /\ opened \in [Procs -> SUBSET Fds]

\* n names of the directory were read, the last as the record in g says.
Listing(g, n) ==
  /\ n <= Len(Dir)
  /\ n = NamesRead(g)
  /\ n # 0 => GaveName(g[1], n)

\* A descriptor in use has the table of its place and has delivered, in order,
\* what it stands behind.
Good(f, d, g) ==
  d.inuse =>
    /\ \/ d.ops = "stdin" /\ f = 0
       \/ d.ops = "stdout" /\ f = 1
       \/ d.ops \in {"rtc", "file", "directory"} /\ f \notin {0, 1}
    /\ d.ops = "file" => /\ d.inode \in DOMAIN Size
                         /\ d.pos <= Size[d.inode]
                         /\ Part(g, d.inode, 0, d.pos)
    /\ d.ops = "directory" => Listing(g, d.pos)

AllGood == \A p \in alive, f \in Fds : Good(f, fds[p][f], got[p][f])

DescInv == DescriptorsOK /\ NeverNull /\ AllGood /\ NothingInherited

\* fd_array of a process is changed in one place.
LEMMA SetKeeps ==
  ASSUME DescInv, NEW p \in alive, NEW f \in Fds \ {0, 1}, NEW d \in Descriptor, NEW g,
         Good(f, d, g),
         SetFd(p, f, d),
         got' = [got EXCEPT ![p][f] = g],
         opened' = [opened EXCEPT ![p] = IF d.inuse THEN @ \cup {f} ELSE @ \ {f}],
         DOMAIN res' = Procs,
         UNCHANGED <<alive, wild>>
  PROVE  DescInv'
<1>1. /\ p \in Procs /\ fds \in [Procs -> [Fds -> Descriptor]]
      /\ DOMAIN got = Procs /\ (\A q \in Procs : DOMAIN got[q] = Fds)
      /\ opened \in [Procs -> SUBSET Fds]
  BY DEF DescInv, DescriptorsOK
<1>2. /\ fds' \in [Procs -> [Fds -> Descriptor]]
      /\ fds'[p][f] = d
      /\ \A q \in Procs, h \in Fds : q # p \/ h # f => fds'[q][h] = fds[q][h]
  BY <1>1 DEF SetFd
<1>3. /\ DOMAIN got' = Procs /\ \A q \in Procs : DOMAIN got'[q] = Fds
      /\ got'[p][f] = g
      /\ \A q \in Procs, h \in Fds : q # p \/ h # f => got'[q][h] = got[q][h]
  BY <1>1
<1>4. /\ opened' \in [Procs -> SUBSET Fds]
      /\ opened'[p] = IF d.inuse THEN opened[p] \cup {f} ELSE opened[p] \ {f}
      /\ \A q \in Procs : q # p => opened'[q] = opened[q]
  BY <1>1
<1>5. DescriptorsOK'
  BY <1>2, <1>3, <1>4 DEF DescInv, DescriptorsOK
<1>6. NeverNull'
  BY DEF DescInv, NeverNull
<1>7. AllGood'
  <2> SUFFICES ASSUME NEW q \in alive, NEW h \in Fds PROVE Good(h, fds'[q][h], got'[q][h])
    BY DEF AllGood
  <2>1. q \in Procs
    BY DEF DescInv, DescriptorsOK
  <2>2. CASE q = p /\ h = f
    BY <1>2, <1>3, <2>2
  <2>3. CASE q # p \/ h # f
    BY <1>2, <1>3, <2>1, <2>3 DEF DescInv, AllGood
  <2>4. QED
    BY <2>2, <2>3
<1>8. NothingInherited'
  <2> SUFFICES ASSUME NEW q \in alive
               PROVE  {h \in Fds : fds'[q][h].inuse} = {0, 1} \cup opened'[q]
    BY DEF NothingInherited
  <2>1. q \in Procs /\ {h \in Fds : fds[q][h].inuse} = {0, 1} \cup opened[q]
    BY DEF DescInv, DescriptorsOK, NothingInherited
  <2>2. CASE q # p
    BY <1>2, <1>4, <2>1, <2>2
  <2>3. CASE q = p
    BY <1>2, <1>4, <2>1, <2>3
  <2>4. QED
    BY <2>2, <2>3
<1>9. QED
  BY <1>5, <1>6, <1>7, <1>8 DEF DescInv

\* A call that leaves the descriptors and calls no NULL entry.
LEMMA AnswerKeeps ==
  ASSUME DescInv, NEW p, NEW r, res' = [res EXCEPT ![p] = r], ~wild',
         UNCHANGED <<alive, fds, got, opened>>
  PROVE  DescInv'
<1>1. DescriptorsOK' /\ NeverNull'
  BY DEF DescInv, DescriptorsOK, NeverNull
<1>2. AllGood' /\ NothingInherited'
  BY DEF DescInv, AllGood, NothingInherited
<1>3. QED
  BY <1>1, <1>2 DEF DescInv

\* execute and the restart of a base shell.
LEMMA StartKeeps ==
  ASSUME DescInv, NEW p \in Procs, StartIn(p), alive' = alive \cup {p}, UNCHANGED wild
  PROVE  DescInv'
<1>1. /\ fds \in [Procs -> [Fds -> Descriptor]]
      /\ DOMAIN res = Procs
      /\ DOMAIN got = Procs /\ (\A q \in Procs : DOMAIN got[q] = Fds)
      /\ opened \in [Procs -> SUBSET Fds]
  BY DEF DescInv, DescriptorsOK
<1>2. 0 \in Fds /\ 1 \in Fds /\ 0 # 1
  BY DescriptorAssumption DEF Fds
<1> DEFINE new == FreshArray(fds[p])
<1>3. \A f \in Fds :
        /\ new[f] \in Descriptor
        /\ f = 0 => new[f].ops = "stdin" /\ new[f].inuse = TRUE
        /\ f = 1 => new[f].ops = "stdout" /\ new[f].inuse = TRUE
        /\ f \notin {0, 1} => new[f].inuse = FALSE
  <2> TAKE f \in Fds
  <2>1. fds[p][f] \in Descriptor
    BY <1>1
  <2>2. CASE f = 0
    <3>1. new[f] = [fds[p][f] EXCEPT !.ops = "stdin", !.inode = Fail, !.pos = 0, !.inuse = TRUE]
      BY <2>2 DEF FreshArray
    <3>2. new[f] = [ops |-> "stdin", inode |-> Fail, pos |-> 0, inuse |-> TRUE, ftype |-> fds[p][f].ftype]
      BY <2>1, <3>1 DEF Descriptor
    <3>3. new[f].ops = "stdin" /\ new[f].inuse = TRUE
      BY <3>2
    <3>4. fds[p][f].ftype \in Nat /\ Fail \in Int /\ "stdin" \in Tables
      BY <2>1 DEF Descriptor, Fail, Tables
    <3>5. new[f] \in Descriptor
      BY <3>2, <3>4 DEF Descriptor
    <3>6. QED
      BY <2>2, <3>3, <3>5
  <2>3. CASE f = 1
    <3>1. new[f] = [fds[p][f] EXCEPT !.ops = "stdout", !.inode = Fail, !.pos = 0, !.inuse = TRUE]
      BY <2>3 DEF FreshArray
    <3>2. new[f] = [ops |-> "stdout", inode |-> Fail, pos |-> 0, inuse |-> TRUE, ftype |-> fds[p][f].ftype]
      BY <2>1, <3>1 DEF Descriptor
    <3>3. new[f].ops = "stdout" /\ new[f].inuse = TRUE
      BY <3>2
    <3>4. fds[p][f].ftype \in Nat /\ Fail \in Int /\ "stdout" \in Tables
      BY <2>1 DEF Descriptor, Fail, Tables
    <3>5. new[f] \in Descriptor
      BY <3>2, <3>4 DEF Descriptor
    <3>6. QED
      BY <2>3, <3>3, <3>5
  <2>4. CASE f \notin {0, 1}
    <3>1. new[f] = [fds[p][f] EXCEPT !.pos = 0, !.inuse = FALSE]
      BY <2>4 DEF FreshArray
    <3>2. new[f] = [ops |-> fds[p][f].ops, inode |-> fds[p][f].inode, pos |-> 0, inuse |-> FALSE,
                    ftype |-> fds[p][f].ftype]
      BY <2>1, <3>1 DEF Descriptor
    <3>3. new[f].inuse = FALSE
      BY <3>2
    <3>4. fds[p][f].ftype \in Nat /\ fds[p][f].inode \in Int /\ fds[p][f].ops \in Tables
      BY <2>1 DEF Descriptor
    <3>5. new[f] \in Descriptor
      BY <3>2, <3>4 DEF Descriptor
    <3>6. QED
      BY <2>4, <3>3, <3>5
  <2>5. QED
    BY <2>2, <2>3, <2>4
<1>4. /\ fds' \in [Procs -> [Fds -> Descriptor]] /\ fds'[p] = new
      /\ \A q \in Procs : q # p => fds'[q] = fds[q]
  <2>1. new \in [Fds -> Descriptor]
    BY <1>3 DEF FreshArray
  <2>2. QED
    BY <1>1, <2>1 DEF StartIn
<1> HIDE DEF new
<1>5. /\ DOMAIN res' = Procs
      /\ DOMAIN got' = Procs /\ (\A q \in Procs : DOMAIN got'[q] = Fds)
      /\ opened' \in [Procs -> SUBSET Fds] /\ opened'[p] = {}
      /\ \A q \in Procs : q # p => got'[q] = got[q] /\ opened'[q] = opened[q]
  BY <1>1 DEF StartIn
<1>6. DescriptorsOK' /\ NeverNull'
  BY <1>4, <1>5 DEF DescInv, DescriptorsOK, NeverNull
<1>7. AllGood'
  <2> SUFFICES ASSUME NEW q \in alive', NEW h \in Fds PROVE Good(h, fds'[q][h], got'[q][h])
    BY DEF AllGood
  <2>1. CASE q = p
    BY <1>3, <1>4, <2>1 DEF Good
  <2>2. CASE q # p
    BY <1>4, <1>5, <2>2 DEF DescInv, DescriptorsOK, AllGood
  <2>3. QED
    BY <2>1, <2>2
<1>8. NothingInherited'
  <2> SUFFICES ASSUME NEW q \in alive'
               PROVE  {h \in Fds : fds'[q][h].inuse} = {0, 1} \cup opened'[q]
    BY DEF NothingInherited
  <2>1. CASE q = p
    BY <1>2, <1>3, <1>4, <1>5, <2>1
  <2>2. CASE q # p
    BY <1>4, <1>5, <2>2 DEF DescInv, DescriptorsOK, NothingInherited
  <2>3. QED
    BY <2>1, <2>2
<1>9. QED
  BY <1>6, <1>7, <1>8 DEF DescInv

LEMMA NoFileIs == NoFile \in Descriptor /\ NoFile.inuse = FALSE
<1>1. NoFile = [ops |-> "null", inode |-> 0, pos |-> 0, inuse |-> FALSE, ftype |-> 0]
  BY DEF NoFile
<1>2. "null" \in Tables
  BY DEF Tables
<1>3. QED
  BY <1>1, <1>2 DEF Descriptor

LEMMA HaltKeeps ==
  ASSUME DescInv, NEW p \in Procs, Halt(p)
  PROVE  DescInv'
<1>1. /\ fds \in [Procs -> [Fds -> Descriptor]]
      /\ DOMAIN res = Procs
      /\ DOMAIN got = Procs /\ (\A q \in Procs : DOMAIN got[q] = Fds)
      /\ opened \in [Procs -> SUBSET Fds]
  BY DEF DescInv, DescriptorsOK
<1>2. /\ fds' \in [Procs -> [Fds -> Descriptor]]
      /\ \A q \in Procs : q # p => fds'[q] = fds[q]
  <2>1. [f \in Fds |-> IF Closable(p, f) THEN NoFile ELSE fds[p][f]] \in [Fds -> Descriptor]
    BY <1>1, NoFileIs
  <2>2. QED
    BY <1>1, <2>1 DEF Halt
<1>3. /\ DOMAIN res' = Procs
      /\ DOMAIN got' = Procs /\ (\A q \in Procs : DOMAIN got'[q] = Fds)
      /\ opened' \in [Procs -> SUBSET Fds]
      /\ \A q \in Procs : q # p => got'[q] = got[q] /\ opened'[q] = opened[q]
  BY <1>1 DEF Halt
<1>4. alive' = alive \ {p} /\ wild' = wild
  BY DEF Halt
<1>5. DescriptorsOK' /\ NeverNull'
  BY <1>2, <1>3, <1>4 DEF DescInv, DescriptorsOK, NeverNull
<1>6. AllGood' /\ NothingInherited'
  BY <1>2, <1>3, <1>4 DEF DescInv, DescriptorsOK, AllGood, NothingInherited
<1>7. QED
  BY <1>5, <1>6 DEF DescInv

\* What the look-up of a name finds for open.
LEMMA LookedUp ==
  ASSUME NEW name, Len(name) # 0, read_dentry_by_name(name) # NoEntry
  PROVE  LET e == read_dentry_by_name(name)
         IN e.inode \in Nat /\ (e.type = 2 => e.inode \in DOMAIN Size)
<1> DEFINE e == read_dentry_by_name(name)
<1>1. CASE IsDirectory(name)
  <2>1. e = [name |-> name, type |-> 1, inode |-> 0]
    BY <1>1 DEF read_dentry_by_name
  <2>2. QED
    BY <2>1
<1>2. CASE ~IsDirectory(name)
  <2> DEFINE j == CHOOSE j \in Hits(name) : \A k \in Hits(name) : j <= k
  <2>1. Hits(name) # {}
    BY <1>2 DEF read_dentry_by_name
  <2>2. e = [name |-> name, type |-> Dir[j + 1].type, inode |-> Dir[j + 1].inode]
    BY <1>2, <2>1 DEF read_dentry_by_name
  <2>3. Hits(name) \in SUBSET Nat
    BY ImageAssumption DEF Hits
  <2>4. \E i \in Hits(name) : \A k \in Hits(name) : i <= k
    BY <2>1, <2>3, Least
  <2>5. j \in Hits(name)
    BY <2>4
  <2> HIDE DEF j
  <2>6. j + 1 \in DOMAIN Dir
    BY <2>5 DEF Hits, NameAt
  <2>7. QED
    BY <2>2, <2>6, ImageAssumption
<1>3. QED
  BY <1>1, <1>2

\* The lowest free descriptor is free.
LEMMA FreeOne ==
  ASSUME NEW p, Free(p) # {}
  PROVE  LowestFree(p) \in Fds \ {0, 1}
<1>1. Free(p) \in SUBSET Nat /\ Free(p) \subseteq Fds \ {0, 1}
  BY DescriptorAssumption DEF Free, Fds, FdStart
<1>2. \E f \in Free(p) : \A g \in Free(p) : f <= g
  BY <1>1, Least
<1>3. LowestFree(p) \in Free(p)
  BY <1>2 DEF LowestFree
<1>4. QED
  BY <1>1, <1>3

LEMMA OpenKeeps ==
  ASSUME DescInv, NEW p \in Procs, NEW name, Open(p, name)
  PROVE  DescInv'
<1> DEFINE e == read_dentry_by_name(name)
           f == LowestFree(p)
           d == [ops |-> TableOf(e.type), inode |-> e.inode, pos |-> 0,
                 inuse |-> TRUE, ftype |-> e.type]
<1>1. /\ p \in alive
      /\ Len(name) # 0 /\ e # NoEntry /\ e.type \in 0..2 /\ Free(p) # {}
      /\ SetFd(p, f, d)
      /\ Return(p, f, <<>>)
      /\ got' = [got EXCEPT ![p][f] = <<>>]
      /\ opened' = [opened EXCEPT ![p] = @ \cup {f}]
      /\ UNCHANGED <<alive, wild>>
  BY DEF Open, CanOpen
<1>2. e.inode \in Nat /\ (e.type = 2 => e.inode \in DOMAIN Size)
  BY <1>1, LookedUp
<1>3. f \in Fds \ {0, 1}
  BY <1>1, FreeOne
<1> HIDE DEF e, f
<1>4. /\ e.type = 0 => TableOf(e.type) = "rtc"
      /\ e.type = 1 => TableOf(e.type) = "directory"
      /\ e.type = 2 => TableOf(e.type) = "file"
  BY DEF TableOf
<1>5. /\ TableOf(e.type) \in {"rtc", "file", "directory"}
      /\ TableOf(e.type) = "file" => e.type = 2
  BY <1>1, <1>4
<1>6. d \in Descriptor
  BY <1>1, <1>2, <1>5 DEF Descriptor, Tables
<1>7. Good(f, d, <<>>)
  <2>1. TableOf(e.type) = "file" => Part(<<>>, e.inode, 0, 0) /\ 0 <= Size[e.inode]
    BY <1>2, <1>5, SizeFacts DEF Part
  <2>2. Listing(<<>>, 0)
    BY ImageAssumption DEF Listing, NamesRead
  <2>3. QED
    BY <1>2, <1>3, <1>5, <2>1, <2>2 DEF Good
<1>8. DOMAIN res' = Procs /\ d.inuse
  BY <1>1 DEF Return, DescInv, DescriptorsOK
<1> HIDE DEF d
<1>9. QED
  BY <1>1, <1>3, <1>6, <1>7, <1>8, SetKeeps

LEMMA CloseKeeps ==
  ASSUME DescInv, NEW p \in Procs, NEW f, Close(p, f)
  PROVE  DescInv'
<1>1. /\ p \in alive /\ f \in Fds \ {0, 1}
      /\ SetFd(p, f, NoFile)
      /\ got' = [got EXCEPT ![p][f] = <<>>]
      /\ opened' = [opened EXCEPT ![p] = @ \ {f}]
      /\ UNCHANGED <<alive, wild>>
      /\ DOMAIN res' = Procs
  BY DescriptorAssumption DEF Close, Closable, Fds, FdStart, Return, DescInv, DescriptorsOK
<1>2. Good(f, NoFile, <<>>)
  BY NoFileIs DEF Good
<1>3. QED
  BY <1>1, <1>2, NoFileIs, SetKeeps

(***************************************************************************)
(* read and write.                                                         *)
(***************************************************************************)
\* A read of a file or directory that goes on where the last one ended.
LEMMA DeliverKeeps ==
  ASSUME DescInv, NEW p \in Procs, NEW f \in Fds \ {0, 1}, NEW by \in Nat, NEW r, NEW text,
         NEW history, fds[p][f].inuse,
         Deliver(p, f, by, r, text, history),
         Good(f, [fds[p][f] EXCEPT !.pos = @ + by], history)
  PROVE  DescInv'
<1> DEFINE o == fds[p][f]
           d == [o EXCEPT !.pos = @ + by]
<1>1. /\ p \in alive
      /\ SetFd(p, f, d)
      /\ got' = [got EXCEPT ![p][f] = history]
      /\ UNCHANGED <<alive, wild, opened>>
      /\ DOMAIN res' = Procs
  BY DEF Deliver, Return, DescInv, DescriptorsOK
<1>2. o \in Descriptor
  BY <1>1 DEF DescInv, DescriptorsOK
<1>3. d \in Descriptor /\ d.inuse
  BY <1>2 DEF Descriptor
<1>4. opened' = [opened EXCEPT ![p] = @ \cup {f}]
  <2>1. f \in opened[p]
    BY <1>1 DEF DescInv, NothingInherited
  <2>2. opened[p] \cup {f} = opened[p]
    BY <2>1
  <2>3. QED
    BY <1>1, <2>2 DEF DescInv, DescriptorsOK
<1> HIDE DEF d
<1>5. QED
  BY <1>1, <1>3, <1>4, SetKeeps DEF d

\* The sizes read can be given, and what one is as a uint32_t.
Int32(n) == n \in Int /\ -Word < n /\ n < Word

LEMMA AsUnsigned ==
  ASSUME NEW n, Int32(n), n # 0
  PROVE  n % Word \in Nat \ {0} /\ (n > 0 => n % Word = n)
<1>1. Word \in Nat /\ n \in Int /\ -Word < n /\ n < Word
  BY ImageAssumption DEF Int32
<1>2. CASE n > 0
  <2>1. n \in Nat /\ Word \in Nat \ {0}
    BY <1>1, <1>2
  <2>2. n % Word = n
    BY <1>1, <2>1, SmallRemainder
  <2>3. QED
    BY <1>2, <2>1, <2>2
<1>3. CASE n < 0
  <2>1. Word \in Nat \ {0}
    BY <1>1, <1>3
  <2>2. n % Word \in Nat \ {0}
    BY <1>1, <1>3, <2>1
  <2>3. QED
    BY <1>1, <1>3, <2>2
<1>4. QED
  BY <1>1, <1>2, <1>3

\* The value a read of at least one byte returns.
Bounded(p, n) == n > 0 => res'[p].ret \in {Fail} \cup 0 .. n

LEMMA Answered ==
  ASSUME DescInv, NEW p \in Procs, NEW r, Answer(p, r)
  PROVE  DescInv' /\ res'[p].ret = r
<1>1. res' = [res EXCEPT ![p] = [ret |-> r, data |-> <<>>]]
  BY DEF Answer, Return
<1>2. res'[p].ret = r
  BY <1>1 DEF DescInv, DescriptorsOK
<1>3. ~wild' /\ UNCHANGED <<alive, fds, got, opened>>
  BY DEF Answer, DescInv, NeverNull
<1>4. QED
  BY <1>1, <1>2, <1>3, AnswerKeeps

LEMMA FsReadKeeps ==
  ASSUME DescInv, NEW p \in alive, NEW f \in Fds, NEW n, Int32(n),
         fds[p][f].inuse, fds[p][f].ops = "file", FsRead(p, f, n)
  PROVE  DescInv' /\ Bounded(p, n)
<1> DEFINE d == fds[p][f]
           u == n % Word
           by == Available(d.inode, d.pos, u)
           more == Bytes(d.inode, d.pos, by)
<1>1. p \in Procs /\ d \in Descriptor /\ Good(f, d, got[p][f]) /\ DOMAIN res = Procs
  BY DEF DescInv, DescriptorsOK, AllGood
<1>2. /\ f \notin {0, 1}
      /\ d.inode \in DOMAIN Size /\ d.pos \in Nat
      /\ d.pos <= Size[d.inode]
      /\ Part(got[p][f], d.inode, 0, d.pos)
  BY <1>1 DEF Good, Descriptor
<1>3. Size[d.inode] \in 0 .. MaxFileSize /\ MaxFileSize \in Nat
  BY <1>2, SizeFacts
<1>4. CASE Answer(p, Fail) \/ Answer(p, 0)
  BY <1>1, <1>4, Answered DEF Bounded, Int32
<1>5. CASE ~(Answer(p, Fail) \/ Answer(p, 0))
  <2>1. /\ n # 0 /\ d.pos < get_filesize(d.inode)
        /\ DeliverBytes(p, f, read_data(d.inode, d.pos, u))
    <3>1. n # 0 /\ ~(d.pos >= get_filesize(d.inode))
      BY <1>5 DEF FsRead
    <3>2. get_filesize(d.inode) = Size[d.inode]
      BY <1>2, SizeFacts DEF get_filesize
    <3>3. d.pos < get_filesize(d.inode)
      BY <1>2, <1>3, <3>1, <3>2
    <3>4. QED
      BY <1>5, <3>1, <3>3 DEF FsRead
  <2>0. u \in Nat \ {0} /\ (n > 0 => u = n)
    BY <2>1, AsUnsigned
  <2> HIDE DEF u
  <2>2. read_data(d.inode, d.pos, u) = [ret |-> by, bytes |-> more]
    BY <1>2, <1>3, <2>0, ReadDataIsRight
  <2>3. Deliver(p, f, by, by, Characters(more), got[p][f] \o more)
    BY <2>1, <2>2 DEF DeliverBytes
  <2>4. /\ by \in 0 .. u /\ d.pos + by <= Size[d.inode] /\ d.pos + by <= MaxFileSize
        /\ 0 + d.pos = d.pos
    BY <1>2, <1>3, <2>0 DEF Available
  <2>5. Part(more, d.inode, 0 + d.pos, by)
    BY <1>2, <2>4, BytesArePart
  <2> HIDE DEF by, more
  <2>6. Part(got[p][f] \o more, d.inode, 0, d.pos + by)
    BY <1>2, <2>4, <2>5, Joined
  <2>7. /\ [d EXCEPT !.pos = @ + by].pos = d.pos + by
        /\ [d EXCEPT !.pos = @ + by].inode = d.inode
        /\ [d EXCEPT !.pos = @ + by].ops = "file"
    BY <1>1 DEF Descriptor
  <2>8. Good(f, [d EXCEPT !.pos = @ + by], got[p][f] \o more)
    BY <1>2, <2>4, <2>6, <2>7 DEF Good
  <2>9. DescInv'
    BY <1>1, <1>2, <2>3, <2>4, <2>8, DeliverKeeps
  <2>10. Bounded(p, n)
    <3>1. res' = [res EXCEPT ![p] = [ret |-> by, data |-> Characters(more)]]
      BY <2>3 DEF Deliver, Return
    <3>2. QED
      BY <1>1, <2>0, <2>4, <3>1 DEF Bounded
  <2>11. QED
    BY <2>9, <2>10
<1>6. QED
  BY <1>4, <1>5

LEMMA DirReadKeeps ==
  ASSUME DescInv, NEW p \in alive, NEW f \in Fds, NEW n, Int32(n),
         fds[p][f].inuse, fds[p][f].ops = "directory", DirRead(p, f, n)
  PROVE  DescInv' /\ Bounded(p, n)
<1> DEFINE d == fds[p][f]
           name == Dir[d.pos + 1].name
           k == IF n < Len(name) THEN n ELSE Len(name)
           part == SubSeq(name, 1, k)
           history == <<[nth |-> NamesRead(got[p][f]) + 1, asked |-> n, name |-> part]>>
<1>1. p \in Procs /\ d \in Descriptor /\ Good(f, d, got[p][f]) /\ DOMAIN res = Procs
  BY DEF DescInv, DescriptorsOK, AllGood
<1>2. f \notin {0, 1} /\ d.pos \in Nat /\ Listing(got[p][f], d.pos)
  BY <1>1 DEF Good, Descriptor
<1>3. CASE Answer(p, 0)
  BY <1>1, <1>3, Answered DEF Bounded, Int32
<1>4. CASE ~Answer(p, 0)
  <2>1. d.pos < Len(Dir) /\ read_dentry_by_index(d.pos) = [Dir[d.pos + 1] EXCEPT !.type = 0]
    <3>1. read_dentry_by_index(d.pos) # NoEntry
      BY <1>4 DEF DirRead
    <3>2. ~(d.pos > MaxEntries \/ d.pos >= Len(Dir))
      BY <3>1 DEF read_dentry_by_index
    <3>3. Len(Dir) \in Nat
      BY ImageAssumption
    <3>4. QED
      BY <1>2, <3>2, <3>3 DEF read_dentry_by_index
  <2>2. /\ d.pos + 1 \in DOMAIN Dir
        /\ DOMAIN Dir[d.pos + 1] = {"name", "type", "inode"}
        /\ name \in Seq(STRING) /\ Len(name) \in Nat /\ Len(name) > 0
    <3>1. d.pos + 1 \in DOMAIN Dir
      <4>1. DOMAIN Dir = 1 .. Len(Dir) /\ Len(Dir) \in Nat
        BY ImageAssumption
      <4>2. d.pos + 1 \in 1 .. Len(Dir)
        BY <1>2, <2>1, <4>1
      <4>3. QED
        BY <4>1, <4>2
    <3>2. /\ DOMAIN Dir[d.pos + 1] = {"name", "type", "inode"}
          /\ name \in Seq(STRING) /\ Len(name) \in 1 .. NameSize
      BY <3>1, ImageAssumption
    <3>3. QED
      BY <3>1, <3>2, ImageAssumption
  <2>3. read_dentry_by_index(d.pos).name = name
    BY <2>1, <2>2
  <2>4. Deliver(p, f, 1, k, part, history)
    BY <1>4, <2>3 DEF DirRead
  <2>5. n \in Int /\ k \in Int /\ k <= Len(name) /\ k <= n /\ (k = n \/ k = Len(name))
    BY <2>2 DEF Int32
  <2> HIDE DEF k, name
  <2>6. part \in Seq(STRING) /\ Len(part) = (IF k <= 0 THEN 0 ELSE k)
    BY <2>2, <2>5
  <2>7. IsPrefix(part, name)
    <3>1. CASE k <= 0
      <4>1. part = <<>>
        BY <2>6, <3>1
      <4>2. Len(<<>>) <= Len(name) /\ SubSeq(<<>>, 1, Len(<<>>)) = SubSeq(name, 1, Len(<<>>))
        BY <2>2
      <4>3. IsPrefix(<<>>, name)
        BY <4>2 DEF IsPrefix
      <4>4. QED
        BY <4>1, <4>3, Zenon
    <3>2. CASE k > 0
      <4>1. SubSeq(part, 1, Len(part)) = part
        BY <2>6
      <4>2. QED
        BY <2>2, <2>5, <2>6, <3>2, <4>1 DEF IsPrefix
    <3>3. QED
      BY <2>5, <3>1, <3>2
  <2>8. Listing(history, d.pos + 1)
    <3> DEFINE last == [nth |-> NamesRead(got[p][f]) + 1, asked |-> n, name |-> part]
    <3>1. last.nth = d.pos + 1 /\ last.asked = n /\ last.name = part
      BY <1>2 DEF Listing
    <3> HIDE DEF last
    <3>2. history # <<>> /\ history[1] = last
      BY DEF last
    <3>3. NamesRead(history) = d.pos + 1
      BY <3>1, <3>2 DEF NamesRead
    <3>4. \/ n > 0 /\ Len(part) = n
          \/ n >= Len(name) /\ part = name
          \/ n <= 0 /\ part = <<>>
      <4>1. CASE n <= 0
        BY <2>2, <2>5, <2>6, <4>1
      <4>2. CASE n > 0 /\ k = n
        BY <2>6, <4>2
      <4>3. CASE k = Len(name)
        <5>1. part = name
          BY <2>2, <4>3
        <5>2. QED
          BY <2>5, <4>3, <5>1
      <4>4. QED
        BY <2>5, <4>1, <4>2, <4>3
    <3>5. GaveName(last, d.pos + 1)
      BY <2>2, <2>7, <3>1, <3>4 DEF GaveName, name
    <3>6. d.pos + 1 <= Len(Dir)
      BY <1>2, <2>1, ImageAssumption
    <3>7. QED
      BY <3>2, <3>3, <3>5, <3>6 DEF Listing
  <2> HIDE DEF part, history
  <2>9. /\ [d EXCEPT !.pos = @ + 1].pos = d.pos + 1
        /\ [d EXCEPT !.pos = @ + 1].ops = "directory"
    BY <1>1 DEF Descriptor
  <2>10. Good(f, [d EXCEPT !.pos = @ + 1], history)
    BY <1>2, <2>8, <2>9 DEF Good
  <2>11. DescInv'
    BY <1>1, <1>2, <2>4, <2>10, DeliverKeeps
  <2>12. Bounded(p, n)
    <3>1. res' = [res EXCEPT ![p] = [ret |-> k, data |-> part]]
      BY <2>4 DEF Deliver, Return
    <3>2. n > 0 => k \in 0 .. n
      BY <2>2, <2>5
    <3>3. QED
      BY <1>1, <3>1, <3>2 DEF Bounded
  <2>13. QED
    BY <2>11, <2>12
<1>5. QED
  BY <1>3, <1>4

\* read, with any descriptor and for any number of bytes.
LEMMA ReadKeeps ==
  ASSUME DescInv, NEW p \in Procs, NEW f, NEW n, Int32(n), read(p, f, n)
  PROVE  DescInv' /\ Bounded(p, n)
<1>1. CASE ReadRefused(p, f)
  BY <1>1, Answered DEF ReadRefused, Bounded
<1>2. CASE Read(p, f, n)
  <2>1. p \in alive /\ f \in Fds \ {1} /\ fds[p][f].inuse
    BY <1>2 DEF Read, Readable, FsRead, DirRead, OtherRead, Answer, Deliver, DeliverBytes
  <2>2. CASE fds[p][f].ops = "file"
    BY <1>2, <2>1, <2>2, FsReadKeeps DEF Read
  <2>3. CASE fds[p][f].ops = "directory"
    BY <1>2, <2>1, <2>3, DirReadKeeps DEF Read
  <2>4. CASE fds[p][f].ops \notin {"file", "directory"}
    <3>1. OtherRead(p, f)
      BY <1>2, <2>4 DEF Read
    <3>2. fds[p][f].ops \in CanRead
      BY <2>1, <2>4 DEF DescInv, AllGood, Good, CanRead
    <3>3. ~wild' /\ UNCHANGED <<alive, fds, got, opened>>
      BY <3>1, <3>2 DEF OtherRead, DescInv, NeverNull
    <3>4. PICK r \in {0, 1} : res' = [res EXCEPT ![p] = [ret |-> r, data |-> <<>>]]
      BY <3>1 DEF OtherRead, Return
    <3>5. Bounded(p, n)
      BY <3>4 DEF Bounded, DescInv, DescriptorsOK, Int32
    <3>6. QED
      BY <3>3, <3>4, <3>5, AnswerKeeps
  <2>5. QED
    BY <2>2, <2>3, <2>4
<1>3. QED
  BY <1>1, <1>2 DEF read

LEMMA WriteKeeps ==
  ASSUME DescInv, NEW p \in Procs, NEW f, write(p, f)
  PROVE  DescInv'
<1>1. CASE WriteRefused(p, f)
  BY <1>1, Answered DEF WriteRefused
<1>2. CASE Write(p, f)
  <2>1. p \in alive /\ f \in Fds \ {0} /\ fds[p][f].inuse
    BY <1>2 DEF Write, Writable
  <2>2. fds[p][f].ops \in CanWrite
    BY <2>1 DEF DescInv, AllGood, Good, CanWrite
  <2>3. ~wild' /\ UNCHANGED <<alive, fds, got, opened>>
    BY <1>2, <2>2 DEF Write, DescInv, NeverNull
  <2>4. \E r : res' = [res EXCEPT ![p] = r]
    BY <1>2 DEF Write, Return
  <2>5. QED
    BY <2>3, <2>4, AnswerKeeps
<1>3. QED
  BY <1>1, <1>2 DEF write

\* Any call of the descriptors.
LEMMA CallKeeps ==
  ASSUME DescInv, NEW p \in Procs, Call(p)
  PROVE  DescInv'
<1>1. ASSUME NEW name \in Names, open(p, name) PROVE DescInv'
  BY <1>1, OpenKeeps, Answered DEF open, OpenRefused
<1>2. ASSUME NEW f, close(p, f) PROVE DescInv'
  BY <1>2, CloseKeeps, Answered DEF close, CloseRefused
<1>3. ASSUME NEW f, NEW n \in Counts, read(p, f, n) PROVE DescInv'
  BY <1>3, ReadKeeps, DescriptorAssumption DEF Int32
<1>4. QED
  BY <1>1, <1>2, <1>3, WriteKeeps DEF Call

LEMMA OpenCloseKeep ==
  ASSUME DescInv, NEW p \in Procs, NEW x, open(p, x) \/ close(p, x)
  PROVE  DescInv'
BY OpenKeeps, CloseKeeps, Answered DEF open, OpenRefused, close, CloseRefused

LEMMA DescUnchanged == DescInv /\ UNCHANGED vars => DescInv'
BY DEF DescInv, DescriptorsOK, NeverNull, AllGood, NothingInherited, vars

(***************************************************************************)
(* The programs.  grep asks for as many bytes as its buffer has left: that *)
(* these are never none rests on how it moves and drops what it has read.  *)
(***************************************************************************)
LocalNames ==
  {"fd", "file", "name", "last", "cnt", "start", "todo", "results", "junk", "data"}

GrepInv ==
  prog = "grep" =>
    /\ pc = "text" => /\ local.last \in 0 .. GrepSize-1
                      /\ res[Child].ret \in {Fail} \cup 0 .. GrepSize - local.last
    /\ pc = "line" => local.last \in 0 .. GrepSize /\ local.start \in 0 .. local.last
    /\ pc = "more" => local.last \in 0 .. GrepSize-1

\* The base process makes no calls of its own while grep runs.
WaitInv == prog = "grep" => shell = "wait"

ProgInv == DescInv /\ DOMAIN local = LocalNames /\ GrepInv /\ WaitInv

LEMMA Sizes ==
  /\ Base \in Procs /\ Child \in Procs /\ Base # Child
  /\ CatSize \in Nat \ {0} /\ NameBuf \in Nat \ {0} /\ GrepSize \in Nat \ {0}
  /\ \A q : ChunkSize(q) \in Nat \ {0} /\ Int32(ChunkSize(q))
  /\ \A n \in 0 .. GrepSize : Int32(n)
  /\ Int32(CatSize) /\ Int32(NameBuf)
<1>1. /\ Base \in Procs /\ Child \in Procs /\ Base # Child
      /\ CatSize \in Nat \ {0} /\ NameBuf \in Nat \ {0} /\ GrepSize \in Nat \ {0}
  BY ProgramsAssumption, BufferAssumption, ImageAssumption
<1>2. Word \in Nat /\ {CatSize, GrepSize, NameBuf} \subseteq 0 .. Word-1
  BY ProgramsAssumption, ImageAssumption
<1>3. (\A n \in 0 .. GrepSize : Int32(n)) /\ Int32(CatSize) /\ Int32(NameBuf)
  BY <1>1, <1>2 DEF Int32
<1>4. QED
  BY <1>1, <1>3 DEF ChunkSize

LEMMA LocalsHave ==
  /\ \A l \in Locals : DOMAIN l = LocalNames
  /\ Locals # {}
  /\ DOMAIN (CHOOSE l \in Locals : TRUE) = LocalNames
<1>1. \A l \in Locals : DOMAIN l = LocalNames
  BY DEF Locals, LocalNames
<1>2. Locals # {}
  BY ProgramsAssumption DEF Locals
<1>3. QED
  BY <1>1, <1>2

\* Where a line ends in the buffer.
LEMMA LineEndIs ==
  ASSUME local.last \in Nat, local.start \in 0 .. local.last
  PROVE  /\ LineEnd \in local.start .. local.last
         /\ LineEnd < local.last => local.data[LineEnd] = End
         /\ \A i \in local.start .. LineEnd - 1 : local.data[i] # End
<1> DEFINE ends == {i \in local.start .. local.last-1 : local.data[i] = End} \cup {local.last}
<1>1. ends \in SUBSET Nat /\ ends # {} /\ ends \subseteq local.start .. local.last
  OBVIOUS
<1>2. LineEnd = CHOOSE i \in ends : \A j \in ends : i <= j
  BY DEF LineEnd
<1>3. LineEnd \in ends /\ \A j \in ends : LineEnd <= j
  <2> HIDE DEF ends
  <2>1. \E i \in ends : \A j \in ends : i <= j
    BY <1>1, Least
  <2>2. QED
    BY <1>2, <2>1, Zenon
<1>4. LineEnd \in local.start .. local.last
  BY <1>3
<1>5. LineEnd < local.last => local.data[LineEnd] = End
  BY <1>3, <1>4
<1>6. ASSUME NEW i \in local.start .. LineEnd - 1, local.data[i] = End PROVE FALSE
  <2>1. i \in ends
    BY <1>4, <1>6
  <2>2. QED
    BY <1>3, <1>4, <2>1
<1>7. QED
  BY <1>4, <1>5, <1>6

LEMMA ProgInit == StartInit => ProgInv
<1> SUFFICES ASSUME StartInit PROVE ProgInv
  OBVIOUS
<1>1. DescriptorsOK
  <2>1. [f \in Fds |-> NoFile] \in [Fds -> Descriptor]
    BY NoFileIs
  <2>2. fds \in [Procs -> [Fds -> Descriptor]]
    BY <2>1 DEF StartInit, Init
  <2>3. QED
    BY <2>2 DEF StartInit, Init, DescriptorsOK
<1>2. NeverNull /\ AllGood /\ NothingInherited
  BY DEF StartInit, Init, NeverNull, AllGood, NothingInherited
<1>3. DOMAIN local = LocalNames
  BY LocalsHave DEF StartInit
<1>4. GrepInv /\ WaitInv
  BY DEF StartInit, GrepInv, WaitInv
<1>5. QED
  BY <1>1, <1>2, <1>3, <1>4 DEF ProgInv, DescInv

\* The base process.
LEMMA BaseKeeps ==
  ASSUME ProgInv, Boot \/ OtherBase \/ Shell
  PROVE  ProgInv'
<1> USE Sizes DEF ProgInv
<1>1. CASE Boot
  <2>1. DescInv'
    BY <1>1, StartKeeps DEF Boot, Execute
  <2>2. res'[Child] = res[Child]
    BY <1>1 DEF Boot, Execute, StartIn, DescInv, DescriptorsOK
  <2>3. DOMAIN local' = LocalNames /\ GrepInv' /\ WaitInv'
    BY <1>1, <2>2 DEF Boot, GrepInv, WaitInv
  <2>4. QED
    BY <2>1, <2>3
<1>2. CASE OtherBase
  <2>1. DescInv'
    <3>1. CASE Call(Base)
      BY <3>1, CallKeeps
    <3>2. CASE HaltBase(Base)
      <4>1. alive' = alive \cup {Base}
        BY <3>2 DEF HaltBase
      <4>2. QED
        BY <3>2, <4>1, StartKeeps DEF HaltBase
    <3>3. QED
      BY <1>2, <3>1, <3>2 DEF OtherBase
  <2>2. QED
    BY <1>2, <2>1 DEF OtherBase, session, GrepInv, WaitInv
<1>3. CASE ShellRead
  BY <1>3, ReadKeeps DEF ShellRead, GrepInv, WaitInv
<1>4. CASE ShellEmpty
  BY <1>4, DescUnchanged DEF ShellEmpty, GrepInv, WaitInv
<1>5. CASE ShellExit
  <2>1. alive' = alive \cup {Base}
    BY <1>5 DEF ShellExit, HaltBase
  <2>2. DescInv'
    BY <1>5, <2>1, StartKeeps DEF ShellExit, HaltBase
  <2>3. QED
    BY <1>5, <2>2 DEF ShellExit, GrepInv, WaitInv
<1>6. CASE ShellUnknown
  BY <1>6, Answered DEF ShellUnknown, GrepInv, WaitInv
<1>7. CASE ShellExecute
  <2>1. DescInv'
    BY <1>7, StartKeeps DEF ShellExecute, Execute
  <2>2. DOMAIN local' = LocalNames
    BY <1>7, LocalsHave DEF ShellExecute
  <2>3. GrepInv' /\ WaitInv'
    BY <1>7 DEF ShellExecute, GrepInv, WaitInv
  <2>4. QED
    BY <2>1, <2>2, <2>3
<1>8. QED
  BY <1>1, <1>2, <1>3, <1>4, <1>5, <1>6, <1>7 DEF Shell

\* cat, ls, syserr and a program of the user's own.
LEMMA OthersKeep ==
  ASSUME ProgInv, Cat \/ Syserr \/ OtherCall
  PROVE  ProgInv'
<1> USE Sizes DEF ProgInv
<1>1. prog # "grep" /\ prog' = prog
  BY DEF Cat, CatOpen, LsOpen, ReadFirst, PrintChunk, ReadMore, PrinterExits, Syserr, SyserrAsk,
         SyserrSelect, SyserrCall, SyserrVerdict, SyserrExits, OtherCall, CallThen, Exit, session
<1>2. GrepInv' /\ WaitInv'
  BY <1>1 DEF GrepInv, WaitInv
<1>3. CASE Cat
  <2>1. CASE CatOpen \/ LsOpen
    BY <1>2, <2>1, OpenCloseKeep DEF CatOpen, LsOpen, CallThen
  <2>2. CASE ReadFirst \/ ReadMore
    BY <1>2, <2>2, ReadKeeps DEF ReadFirst, ReadMore, CallThen
  <2>3. CASE PrintChunk
    BY <1>2, <2>3, WriteKeeps DEF PrintChunk
  <2>4. CASE PrinterExits
    BY <1>2, <2>4, DescUnchanged DEF PrinterExits, Exit
  <2>5. QED
    BY <1>3, <2>1, <2>2, <2>3, <2>4 DEF Cat
<1>4. CASE Syserr
  <2>1. CASE SyserrAsk
    BY <1>2, <2>1, ReadKeeps DEF SyserrAsk, CallThen
  <2>2. CASE SyserrSelect \/ SyserrVerdict
    BY <1>2, <2>2, DescUnchanged DEF SyserrSelect, SyserrVerdict
  <2>3. CASE SyserrCall
    <3>1. PICK call, arg : Do(call, arg)
      BY <2>3 DEF SyserrCall
    <3>2. DescInv'
      BY <3>1, OpenCloseKeep, ReadKeeps, WriteKeeps, Answered DEF Do
    <3>3. QED
      BY <1>2, <2>3, <3>2 DEF SyserrCall
  <2>4. CASE SyserrExits
    BY <1>2, <2>4, DescUnchanged DEF SyserrExits, Exit
  <2>5. QED
    BY <1>4, <2>1, <2>2, <2>3, <2>4 DEF Syserr
<1>5. CASE OtherCall
  <2>1. CASE Call(Child) /\ UNCHANGED session
    BY <1>2, <2>1, CallKeeps DEF session
  <2>2. CASE Exit(0)
    BY <1>2, <2>2, DescUnchanged DEF Exit
  <2>3. QED
    BY <1>5, <2>1, <2>2 DEF OtherCall
<1>6. QED
  BY <1>3, <1>4, <1>5

\* grep: what is left of the buffer is never nothing when it reads.
LEMMA GrepKeeps ==
  ASSUME ProgInv, Grep
  PROVE  ProgInv'
<1> USE Sizes DEF ProgInv
<1>1. prog = "grep" /\ prog' = prog /\ shell' = shell
  BY DEF Grep, GrepOpen, GrepFirst, GrepSkip, GrepNext, GrepFile, GrepRead, GrepText, GrepCarry,
         GrepLine, GrepClose, GrepExits, CallThen, Exit
<1>2. WaitInv'
  BY <1>1 DEF WaitInv
<1>3. CASE GrepOpen \/ GrepFile \/ GrepClose
  <2>1. DescInv'
    BY <1>3, OpenCloseKeep DEF GrepOpen, GrepFile, GrepClose, CallThen
  <2>2. GrepInv' /\ DOMAIN local' = LocalNames
    BY <1>3 DEF GrepOpen, GrepFile, GrepClose, CallThen, Goto, GrepInv
  <2>3. QED
    BY <1>2, <2>1, <2>2
<1>4. CASE GrepFirst \/ GrepNext
  <2>1. DescInv'
    BY <1>4, ReadKeeps DEF GrepFirst, GrepNext, CallThen
  <2>2. GrepInv' /\ DOMAIN local' = LocalNames
    BY <1>4 DEF GrepFirst, GrepNext, CallThen, Goto, GrepInv
  <2>3. QED
    BY <1>2, <2>1, <2>2
<1>5. CASE GrepSkip \/ GrepExits
  BY <1>2, <1>5, DescUnchanged DEF GrepSkip, GrepExits, Exit, Goto, GrepInv
<1>6. CASE GrepRead
  <2>1. local'.last \in 0 .. GrepSize-1 /\ DOMAIN local' = LocalNames
    <3>1. CASE local' = [local EXCEPT !.file = ret, !.last = 0]
      <4>1. local'.last = 0 /\ DOMAIN local' = LocalNames
        BY <3>1 DEF LocalNames
      <4>2. QED
        BY <4>1
    <3>2. CASE pc = "more" /\ local' = local
      BY <1>1, <3>2 DEF GrepInv
    <3>3. QED
      BY <1>6, <3>1, <3>2 DEF GrepRead, At
  <2> DEFINE n == GrepSize - local'.last
             f == local'.file
  <2>2. n \in Nat \ {0} /\ n \in 0 .. GrepSize
    BY <2>1
  <2>3. read(Child, f, n) /\ pc' = "text"
    BY <1>6 DEF GrepRead, CallThen, Goto
  <2> HIDE DEF f
  <2>4. DescInv' /\ Bounded(Child, n)
    BY <2>2, <2>3, ReadKeeps
  <2>5. GrepInv'
    BY <2>1, <2>3, <2>4 DEF GrepInv, Bounded
  <2>6. QED
    BY <1>2, <2>1, <2>4, <2>5
<1>7. CASE GrepText
  <2>1. /\ local.last \in 0 .. GrepSize-1
        /\ ret \in 0 .. GrepSize - local.last
    BY <1>1, <1>7 DEF GrepText, At, GrepInv, ret
  <2>2. local'.last = local.last + ret /\ local'.start = 0 /\ DOMAIN local' = LocalNames
    BY <1>7 DEF GrepText, LocalNames
  <2>3. local'.last \in 0 .. GrepSize /\ local'.start \in 0 .. local'.last
    BY <2>1, <2>2
  <2>4. DescInv' /\ pc' = "line"
    BY <1>7, DescUnchanged DEF GrepText, Goto
  <2>5. QED
    BY <1>2, <2>2, <2>3, <2>4 DEF GrepInv
<1>8. CASE GrepCarry
  <2>1. local.last \in 0 .. GrepSize /\ local.start \in 0 .. local.last /\ local.start # 0
    BY <1>1, <1>8 DEF GrepCarry, At, GrepInv, Partial
  <2>2. local'.last = local.last - local.start /\ DOMAIN local' = LocalNames
    BY <1>8 DEF GrepCarry, LocalNames
  <2>3. local'.last \in 0 .. GrepSize-1
    BY <2>1, <2>2
  <2>4. DescInv' /\ pc' = "more"
    BY <1>8, DescUnchanged DEF GrepCarry, Goto
  <2>5. QED
    BY <1>2, <2>2, <2>3, <2>4 DEF GrepInv
<1>9. CASE GrepLine
  <2>1. local.last \in 0 .. GrepSize /\ local.start \in 0 .. local.last
    BY <1>1, <1>9 DEF GrepLine, At, GrepInv
  <2> DEFINE e == LineEnd
  <2>2. e \in local.start .. local.last
    BY <2>1, LineEndIs
  <2>3. /\ DOMAIN local' = LocalNames
        /\ local'.start = e + 1
        /\ local'.last = IF e + 1 >= local.last THEN 0 ELSE local.last
    BY <1>9 DEF GrepLine, LocalNames
  <2>4. pc' = IF e + 1 < local.last THEN "line" ELSE IF local.cnt = 0 THEN "done" ELSE "more"
    BY <1>9 DEF GrepLine, Goto, AfterLine
  <2>5. write(Child, 1) \/ UNCHANGED vars
    BY <1>9 DEF GrepLine
  <2> HIDE DEF e
  <2>6. GrepInv'
    <3>1. CASE e + 1 < local.last
      <4>1. local'.last \in 0 .. GrepSize /\ local'.start \in 0 .. local'.last
        BY <2>1, <2>2, <2>3, <3>1
      <4>2. QED
        BY <2>4, <3>1, <4>1 DEF GrepInv
    <3>2. CASE ~(e + 1 < local.last)
      <4>1. local'.last \in 0 .. GrepSize-1
        BY <2>1, <2>2, <2>3, <3>2
      <4>2. QED
        BY <2>4, <3>2, <4>1 DEF GrepInv
    <3>3. QED
      BY <3>1, <3>2
  <2>7. DescInv'
    BY <2>5, WriteKeeps, DescUnchanged
  <2>8. QED
    BY <1>2, <2>3, <2>6, <2>7
<1>10. QED
  BY <1>3, <1>4, <1>5, <1>6, <1>7, <1>8, <1>9 DEF Grep

LEMMA LeaveKeeps ==
  ASSUME ProgInv, Leave
  PROVE  ProgInv'
<1>1. DescInv'
  BY Sizes, HaltKeeps DEF ProgInv, Leave
<1>2. DOMAIN local' = LocalNames
  BY LocalsHave DEF Leave
<1>3. GrepInv' /\ WaitInv'
  BY DEF Leave, GrepInv, WaitInv
<1>4. QED
  BY <1>1, <1>2, <1>3 DEF ProgInv

LEMMA ProgNext == ProgInv /\ [Next]_allvars => ProgInv'
<1> SUFFICES ASSUME ProgInv, [Next]_allvars PROVE ProgInv'
  OBVIOUS
<1>1. CASE Next
  BY <1>1, BaseKeeps, OthersKeep, GrepKeeps, LeaveKeeps DEF Next
<1>2. CASE UNCHANGED allvars
  <2>1. UNCHANGED vars /\ UNCHANGED session
    BY <1>2 DEF allvars
  <2>2. DescInv'
    BY <2>1, DescUnchanged DEF ProgInv
  <2>3. UNCHANGED <<res, shell, prog, pc, local>>
    BY <2>1 DEF vars, session
  <2>4. QED
    BY <2>2, <2>3 DEF ProgInv, GrepInv, WaitInv
<1>3. QED
  BY <1>1, <1>2

\* The history of a descriptor as ReadsInOrder states it.
LEMMA PartIsFile ==
  ASSUME NEW g, NEW inode, NEW n \in Nat, Part(g, inode, 0, n)
  PROVE  g = FileBytes(inode, n)
<1>1. g \in Seq(Nat \X Nat) /\ Len(g) = n
  BY DEF Part
<1>2. DOMAIN g = 1 .. n /\ g = [k \in DOMAIN g |-> g[k]]
  BY <1>1
<1>3. ASSUME NEW k \in 1 .. n PROVE g[k] = FileBytes(inode, n)[k]
  <2>1. 0 + k - 1 = k - 1
    OBVIOUS
  <2>2. g[k] = ByteAt(inode, k - 1)
    BY <2>1 DEF Part
  <2>3. QED
    BY <2>2 DEF ByteAt, FileBytes
<1>4. FileBytes(inode, n) = [k \in 1 .. n |-> FileBytes(inode, n)[k]]
  BY DEF FileBytes
<1>5. QED
  BY <1>2, <1>3, <1>4

\* The invariant holds whatever the image, the commands and the calls of the
\* user's own programs are: the descriptor arrays of sys_call.c, and the buffer of
\* ece391grep.c, which never asks read for 0 bytes.
THEOREM ProgInvariant == Spec => []ProgInv
<1>1. StartInit => ProgInv
  BY ProgInit
<1>2. ProgInv /\ [Next]_allvars => ProgInv'
  BY ProgNext
<1>3. QED
  BY <1>1, <1>2, PTL DEF Spec

\* read and write (sys_call.c) never call a NULL entry of an operations table.
THEOREM NullIsNeverCalled == Spec => []NeverNull
<1>1. ProgInv => NeverNull
  BY DEF ProgInv, DescInv
<1>2. QED
  BY <1>1, ProgInvariant, PTL

\* execute and halt (sys_call.c) leave no descriptor in use to the next process
\* of a slot.
THEOREM NothingIsInherited == Spec => []NothingInherited
<1>1. ProgInv => NothingInherited
  BY DEF ProgInv, DescInv
<1>2. QED
  BY <1>1, ProgInvariant, PTL

\* Successive reads of a descriptor (fs_read, dir_read in filesystem.c) deliver the
\* file in order, without a gap or a repetition, and each name of the directory for
\* the read of its number, of any size, also none or a negative one.
THEOREM ReadsComeInOrder == Spec => []ReadsInOrder
<1>1. ProgInv => ReadsInOrder
  <2> SUFFICES ASSUME ProgInv, NEW p \in alive, NEW f \in Fds, fds[p][f].inuse
               PROVE  LET d == fds[p][f] IN
                      /\ d.ops = "file" =>
                           d.pos <= Size[d.inode] /\ got[p][f] = FileBytes(d.inode, d.pos)
                      /\ d.ops = "directory" =>
                           /\ d.pos = NamesRead(got[p][f])
                           /\ d.pos # 0 => GaveName(got[p][f][1], d.pos)
    BY DEF ReadsInOrder
  <2> DEFINE d == fds[p][f]
             g == got[p][f]
  <2>1. Good(f, d, g) /\ d \in Descriptor
    BY DEF ProgInv, DescInv, AllGood, DescriptorsOK
  <2>2. ASSUME d.ops = "file" PROVE d.pos <= Size[d.inode] /\ g = FileBytes(d.inode, d.pos)
    <3>1. d.pos <= Size[d.inode] /\ Part(g, d.inode, 0, d.pos)
      BY <2>1, <2>2 DEF Good
    <3>2. d.pos \in Nat
      BY <2>1 DEF Descriptor
    <3>3. QED
      BY <3>1, <3>2, PartIsFile
  <2>3. ASSUME d.ops = "directory"
        PROVE  d.pos = NamesRead(g) /\ (d.pos # 0 => GaveName(g[1], d.pos))
    BY <2>1, <2>3 DEF Good, Listing
  <2>4. QED
    BY <2>2, <2>3
<1>2. QED
  BY <1>1, ProgInvariant, PTL
(***************************************************************************)
(* syserr.  Its tests rely on one another: each finds the descriptors free *)
(* that the one before it took.  The inductive invariant says which the    *)
(* third test has taken, and what each call so far has returned.           *)
(***************************************************************************)
\* Calls that fail in a process which has opened nothing.
Failing(call, arg) ==
  \/ call = "read" /\ arg # 0
  \/ call = "write" /\ arg # 1
  \/ call = "close"
  \/ call = "open" /\ (Len(arg) = 0 \/ read_dentry_by_name(arg) = NoEntry)
  \/ call = "vidmap" /\ arg \in {0, 1}
  \/ call = "number" /\ arg \in {-1, 0, 11}

\* Calls that fail, and leave the descriptors.
LEMMA Refused ==
  ASSUME DescInv, NEW p \in Procs, NEW r, Answer(p, r)
  PROVE  res'[p].ret = r /\ opened' = opened /\ p \in alive
<1>1. res'[p].ret = r
  BY Answered
<1>2. opened' = opened /\ p \in alive
  BY DEF Answer
<1>3. QED
  BY <1>1, <1>2

\* What is in use in a process that has opened nothing.
LEMMA NothingOpen ==
  ASSUME DescInv, NEW p \in alive, opened[p] = {}, NEW f \in Fds, fds[p][f].inuse
  PROVE  f \in {0, 1}
<1>1. {g \in Fds : fds[p][g].inuse} = {0, 1} \cup opened[p]
  BY DEF DescInv, NothingInherited
<1>2. QED
  BY <1>1

LEMMA FailsAsMeant ==
  ASSUME DescInv, opened[Child] = {}, NEW call, NEW arg, Failing(call, arg), Do(call, arg)
  PROVE  res'[Child].ret = Fail /\ opened' = opened
<1>1. Child \in Procs
  BY Sizes
<1>2. CASE call = "read"
  <2>1. read(Child, arg, NameBuf) /\ arg # 0
    BY <1>2 DEF Do, Failing
  <2>2. CASE ReadRefused(Child, arg)
    BY <1>1, <2>2, Refused DEF ReadRefused
  <2>3. CASE Read(Child, arg, NameBuf)
    <3>1. arg \in Fds \ {1} /\ fds[Child][arg].inuse
      BY <2>3 DEF Read, Readable
    <3>2. Child \in alive
      BY <2>3 DEF Read, FsRead, DirRead, OtherRead, Answer, Deliver, DeliverBytes
    <3>3. QED
      BY <2>1, <3>1, <3>2, NothingOpen
  <2>4. QED
    BY <2>1, <2>2, <2>3 DEF read
<1>3. CASE call = "write"
  <2>1. write(Child, arg) /\ arg # 1
    BY <1>3 DEF Do, Failing
  <2>2. CASE WriteRefused(Child, arg)
    BY <1>1, <2>2, Refused DEF WriteRefused
  <2>3. CASE Write(Child, arg)
    <3>1. arg \in Fds \ {0} /\ fds[Child][arg].inuse /\ Child \in alive
      BY <2>3 DEF Write, Writable
    <3>2. QED
      BY <2>1, <3>1, NothingOpen
  <2>4. QED
    BY <2>1, <2>2, <2>3 DEF write
<1>4. CASE call = "close"
  <2>1. close(Child, arg)
    BY <1>4 DEF Do
  <2>2. CASE CloseRefused(Child, arg)
    BY <1>1, <2>2, Refused DEF CloseRefused
  <2>3. CASE Close(Child, arg)
    <3>1. arg \in FdStart .. NumFds-1 /\ fds[Child][arg].inuse /\ Child \in alive
      BY <2>3 DEF Close, Closable
    <3>2. arg \in Fds /\ arg \notin {0, 1}
      BY <3>1, DescriptorAssumption DEF Fds, FdStart
    <3>3. QED
      BY <3>1, <3>2, NothingOpen
  <2>4. QED
    BY <2>1, <2>2, <2>3 DEF close
<1>5. CASE call = "open"
  <2>1. open(Child, arg) /\ (Len(arg) = 0 \/ read_dentry_by_name(arg) = NoEntry)
    BY <1>5 DEF Do, Failing
  <2>2. ~CanOpen(Child, arg)
    BY <2>1 DEF CanOpen
  <2>3. Answer(Child, Fail)
    BY <2>1, <2>2 DEF open, Open, OpenRefused
  <2>4. QED
    BY <1>1, <2>3, Refused
<1>6. CASE call = "vidmap"
  <2>1. arg \in {0, 1} /\ Answer(Child, vidmap(arg))
    BY <1>6 DEF Do, Failing
  <2>2. vidmap(arg) = Fail
    BY <2>1 DEF vidmap
  <2>3. QED
    BY <1>1, <2>1, <2>2, Refused
<1>7. CASE call = "number"
  <2>1. arg \in {-1, 0, 11} /\ Answer(Child, systemcallasm(arg))
    BY <1>7 DEF Do, Failing
  <2>2. systemcallasm(arg) = Fail
    BY <2>1 DEF systemcallasm
  <2>3. QED
    BY <1>1, <2>1, <2>2, Refused
<1>8. QED
  BY <1>2, <1>3, <1>4, <1>5, <1>6, <1>7 DEF Failing

\* The names of err_open are not found.
LEMMA WrongNames ==
  /\ Failing("open", Dir[3].name \o Dot)
  /\ Failing("open", Front(Dir[2].name))
  /\ Failing("open", <<>>)
<1>1. /\ 1 \in DOMAIN Dir /\ 2 \in DOMAIN Dir /\ 3 \in DOMAIN Dir
  BY DirectoryFacts, SyserrAssumption
<1>2. Dot \in Seq(STRING)
  BY <1>1, DirectoryFacts DEF Dot
<1>3. ASSUME NEW word \in Seq(STRING), \A i \in DOMAIN Dir : Dir[i].name # word
      PROVE  Failing("open", word)
  <2>1. CASE word = <<>>
    BY <2>1 DEF Failing
  <2>2. CASE word # <<>>
    <3>1. read_dentry_by_name(word) = EntryOf(word)
      BY <2>2, LookupIs
    <3>2. {i \in DOMAIN Dir : Dir[i].name = word} = {}
      BY <1>3
    <3>3. EntryOf(word) = NoEntry
      BY <3>2 DEF EntryOf
    <3>4. QED
      BY <3>1, <3>3 DEF Failing
  <2>3. QED
    BY <2>1, <2>2
<1>4. Dir[3].name \o Dot \in Seq(STRING)
  BY <1>1, <1>2, DirectoryFacts
<1>5. Front(Dir[2].name) \in Seq(STRING)
  <2> DEFINE s == Dir[2].name
             n == Len(s) - 1
             S == STRING
  <2>1. s \in Seq(S) /\ Len(s) \in Nat /\ Len(s) > 0
    BY <1>1, DirectoryFacts
  <2>2. n \in Nat /\ n <= Len(s) /\ Front(s) = SubSeq(s, 1, n)
    BY <2>1 DEF Front
  <2> HIDE DEF s, n, S
  <2>3. SubSeq(s, 1, n) \in Seq(S)
    BY <2>1, <2>2
  <2>4. QED
    BY <2>2, <2>3 DEF s, S
<1>6. \A i \in DOMAIN Dir : Dir[i].name # Dir[3].name \o Dot /\ Dir[i].name # Front(Dir[2].name)
  BY SyserrAssumption
<1>7. Failing("open", <<>>)
  BY DEF Failing
<1>8. QED
  BY <1>3, <1>4, <1>5, <1>6, <1>7

\* err_open_lots, call by call.
LEMMA LotsIs ==
  /\ Len(err_open_lots) = (NumFds - 1) + (NumFds - 2)
  /\ \A k \in 1 .. NumFds-1 : err_open_lots[k] = <<"open", Dot>>
  /\ \A k \in NumFds .. (NumFds - 1) + (NumFds - 2) :
       err_open_lots[k] = <<"close", (k - NumFds) + 2>>
<1> DEFINE a == [i \in 1 .. NumFds-1 |-> <<"open", Dot>>]
           b == EachFd("close", FdStart)
           S == {"open", "close"} \X (Nat \cup {Dot})
<1>1. NumFds \in Nat /\ NumFds >= 2 /\ NumFds - 1 \in Nat /\ NumFds - 2 \in Nat
  BY DescriptorAssumption
<1>2. a \in Seq(S) /\ Len(a) = NumFds - 1 /\ \A i \in 1 .. NumFds-1 : a[i] = <<"open", Dot>>
  <2>1. <<"open", Dot>> \in S
    OBVIOUS
  <2> HIDE DEF S
  <2>2. QED
    BY <1>1, <2>1
<1>3. b \in Seq(S) /\ Len(b) = NumFds - 2 /\ \A i \in 1 .. NumFds-2 : b[i] = <<"close", 2 + i - 1>>
  <2>1. \A i \in 1 .. NumFds-2 : <<"close", 2 + i - 1>> \in S
    OBVIOUS
  <2> HIDE DEF S
  <2>2. b = [i \in 1 .. NumFds-2 |-> <<"close", 2 + i - 1>>]
    BY DEF EachFd, FdStart
  <2> HIDE DEF b
  <2>3. QED
    BY <1>1, <2>1, <2>2
<1>4. err_open_lots = a \o b
  BY DEF err_open_lots
<1> HIDE DEF a, b, S
<1>5. /\ Len(a \o b) = (NumFds - 1) + (NumFds - 2)
      /\ \A i \in 1 .. (NumFds - 1) + (NumFds - 2) :
           (a \o b)[i] = IF i <= NumFds - 1 THEN a[i] ELSE b[i - (NumFds - 1)]
  BY <1>2, <1>3, Concatenated
<1>6. ASSUME NEW k \in NumFds .. (NumFds - 1) + (NumFds - 2)
      PROVE  (a \o b)[k] = <<"close", (k - NumFds) + 2>>
  <2> DEFINE j == k - (NumFds - 1)
  <2>1. j \in 1 .. NumFds-2 /\ ~(k <= NumFds - 1) /\ 2 + j - 1 = (k - NumFds) + 2
    BY <1>1
  <2>2. k \in 1 .. (NumFds - 1) + (NumFds - 2)
    BY <1>1
  <2>3. (a \o b)[k] = b[j]
    BY <1>5, <2>1, <2>2
  <2> HIDE DEF j
  <2>4. QED
    BY <1>3, <2>1, <2>3
<1>7. \A k \in 1 .. NumFds-1 : (a \o b)[k] = <<"open", Dot>>
  BY <1>1, <1>2, <1>5
<1>8. QED
  BY <1>4, <1>5, <1>6, <1>7

\* The calls of the other tests.
AllFailing(s) == \A k \in 1 .. Len(s) : Failing(s[k][1], s[k][2])

LEMMA FailingEach ==
  ASSUME NEW call \in {"read", "write", "close"}, NEW first \in Nat, first <= NumFds,
         call = "close" \/ first = FdStart
  PROVE  /\ AllFailing(EachFd(call, first))
         /\ EachFd(call, first) \in Seq({"read", "write", "close"} \X Nat)
<1> DEFINE s == EachFd(call, first)
<1>1. NumFds \in Nat /\ NumFds - first \in Nat
  BY DescriptorAssumption
<1>2. Len(s) = NumFds - first /\ \A k \in 1 .. NumFds - first : s[k] = <<call, first + k - 1>>
  BY <1>1 DEF EachFd
<1>3. s \in Seq({"read", "write", "close"} \X Nat)
  BY <1>1 DEF EachFd
<1> HIDE DEF s
<1>4. ASSUME NEW k \in 1 .. Len(s) PROVE Failing(s[k][1], s[k][2])
  <2>1. s[k][1] = call /\ s[k][2] = first + k - 1
    BY <1>2
  <2>2. first = FdStart => s[k][2] # 0 /\ s[k][2] # 1
    BY <1>1, <1>2, <2>1 DEF FdStart
  <2>3. QED
    BY <2>1, <2>2 DEF Failing
<1>5. QED
  BY <1>3, <1>4 DEF AllFailing, s

LEMMA FailingBoth ==
  ASSUME NEW S, NEW s \in Seq(S), NEW t \in Seq(S), AllFailing(s), AllFailing(t)
  PROVE  s \o t \in Seq(S) /\ AllFailing(s \o t)
<1>1. /\ s \o t \in Seq(S) /\ Len(s \o t) = Len(s) + Len(t)
      /\ \A i \in 1 .. Len(s) + Len(t) : (s \o t)[i] = IF i <= Len(s) THEN s[i] ELSE t[i - Len(s)]
  BY Concatenated
<1>2. Len(s) \in Nat /\ Len(t) \in Nat
  OBVIOUS
<1> DEFINE u == s \o t
<1> HIDE DEF u
<1>3. ASSUME NEW k \in 1 .. Len(s) + Len(t) PROVE Failing(u[k][1], u[k][2])
  <2>1. CASE k <= Len(s)
    <3>1. k \in 1 .. Len(s) /\ u[k] = s[k]
      BY <1>1, <1>2, <2>1 DEF u
    <3>2. QED
      BY <3>1 DEF AllFailing
  <2>2. CASE ~(k <= Len(s))
    <3>1. k - Len(s) \in 1 .. Len(t) /\ u[k] = t[k - Len(s)]
      BY <1>1, <1>2, <2>2 DEF u
    <3>2. QED
      BY <3>1 DEF AllFailing
  <2>3. QED
    BY <2>1, <2>2
<1>4. QED
  BY <1>1, <1>3 DEF AllFailing, u

LEMMA OthersFail ==
  \A t \in 1 .. 8 : t # 3 => AllFailing(Script[t])
<1>1. NumFds \in Nat /\ NumFds >= 2
  BY DescriptorAssumption
<1>2. AllFailing(err_neg_fd)
  BY DEF AllFailing, err_neg_fd, Failing
<1>3. AllFailing(err_big_fd)
  BY <1>1 DEF AllFailing, err_big_fd, Failing
<1>4. AllFailing(err_open)
  <2>1. /\ Len(err_open) = 3
        /\ err_open[1] = <<"open", Dir[3].name \o Dot>>
        /\ err_open[2] = <<"open", Front(Dir[2].name)>>
        /\ err_open[3] = <<"open", <<>> >>
    BY DEF err_open
  <2>2. \A k \in 1 .. 3 : err_open[k][1] = "open" /\ Failing("open", err_open[k][2])
    <3> DEFINE Right(k) == err_open[k][1] = "open" /\ Failing("open", err_open[k][2])
    <3>1. Right(1) /\ Right(2) /\ Right(3)
      BY <2>1, WrongNames
    <3> HIDE DEF Right
    <3>2. \A k \in 1 .. 3 : Right(k)
      BY <3>1
    <3>3. QED
      BY <3>2 DEF Right
  <2>3. QED
    BY <2>1, <2>2 DEF AllFailing
<1>5. AllFailing(err_unopened)
  <2> DEFINE S == {"read", "write", "close"} \X Nat
             a == EachFd("close", 0)
             b == EachFd("read", FdStart)
             c == EachFd("write", FdStart)
  <2>1. a \in Seq(S) /\ AllFailing(a)
    BY <1>1, FailingEach
  <2>2. b \in Seq(S) /\ AllFailing(b) /\ c \in Seq(S) /\ AllFailing(c)
    BY <1>1, FailingEach DEF FdStart
  <2>3. err_unopened = (a \o b) \o c
    BY DEF err_unopened
  <2> HIDE DEF S, a, b, c
  <2>4. a \o b \in Seq(S) /\ AllFailing(a \o b)
    BY <2>1, <2>2, FailingBoth
  <2>5. QED
    BY <2>2, <2>3, <2>4, FailingBoth
<1>6. AllFailing(err_vidmap)
  BY DEF AllFailing, err_vidmap, Failing
<1>7. AllFailing(err_stdin_out)
  BY DEF AllFailing, err_stdin_out, Failing
<1>8. AllFailing(err_syscall_num)
  BY DEF AllFailing, err_syscall_num, Failing
<1>9. /\ Script[1] = err_neg_fd /\ Script[2] = err_big_fd /\ Script[4] = err_open
      /\ Script[5] = err_unopened /\ Script[6] = err_vidmap /\ Script[7] = err_stdin_out
      /\ Script[8] = err_syscall_num
  BY DEF Script
<1>10. QED
  BY <1>2, <1>3, <1>4, <1>5, <1>6, <1>7, <1>8, <1>9
\* The directory finds itself.
LEMMA DotIsFound ==
  read_dentry_by_name(Dot) # NoEntry /\ read_dentry_by_name(Dot).type = 1
<1>1. 1 \in DOMAIN Dir /\ Dir[1].name = Dot /\ Dot \in Seq(STRING) /\ Dot # <<>>
  BY DirectoryFacts DEF Dot
<1>2. read_dentry_by_name(Dot) = EntryOf(Dot)
  BY <1>1, LookupIs
<1> DEFINE named == {i \in DOMAIN Dir : Dir[i].name = Dot}
<1>3. 1 \in named /\ \A j \in named : 1 <= j /\ j \in Int
  BY <1>1, DirectoryFacts
<1>4. EntryOf(Dot) = IF named = {} THEN NoEntry ELSE Dir[CHOOSE i \in named : \A j \in named : i <= j]
  BY DEF EntryOf
<1> HIDE DEF named
<1>5. (CHOOSE i \in named : \A j \in named : i <= j) = 1
  <2> DEFINE c == CHOOSE i \in named : \A j \in named : i <= j
  <2>1. \E i \in named : \A j \in named : i <= j
    BY <1>3
  <2>2. c \in named /\ \A j \in named : c <= j
    BY <2>1, Zenon
  <2> HIDE DEF c
  <2>3. c = 1
    BY <1>3, <2>2
  <2>4. QED
    BY <2>3 DEF c
<1>6. EntryOf(Dot) = Dir[1]
  BY <1>3, <1>4, <1>5
<1>7. Dir[1].type = 1 /\ NoEntry.type = -1
  BY DirectoryFacts DEF NoEntry, Fail
<1>8. QED
  BY <1>2, <1>6, <1>7

\* The descriptors taken after k calls of a test.
Taken(test, k) ==
  IF test # 3 THEN {}
  ELSE IF k < NumFds THEN {f \in Fds : 2 <= f /\ f < k + 2}
  ELSE {f \in Fds : (k - NumFds) + 3 <= f}

\* What the calls of a test have returned.
AsMeant(test, r) ==
  \A i \in 1 .. Len(r) :
    IF test = 3 THEN i < NumFds => (r[i] = Fail <=> i = NumFds - 1) ELSE r[i] = Fail

TestOf(todo) == IF todo = <<>> THEN 0 ELSE Head(todo)

Midway(l, owned) ==
  /\ l.todo \in Seq(1 .. 8) /\ l.results \in Seq(Int)
  /\ owned = Taken(TestOf(l.todo), Len(l.results))
  /\ AsMeant(TestOf(l.todo), l.results)
  /\ l.todo = <<>> => l.results = <<>>
  /\ l.todo # <<>> => Len(l.results) <= Len(Script[Head(l.todo)])

SyserrInv ==
  prog = "syserr" =>
    /\ shell = "wait" /\ code = 0
    /\ Midway(local, opened[Child])
    /\ pc # "test" => local.results = <<>>

\* Which descriptors are in use, and which is taken next.
LEMMA LotsStep ==
  ASSUME DescInv, NEW k \in Nat, k < Len(err_open_lots), opened[Child] = Taken(3, k),
         Do(err_open_lots[k + 1][1], err_open_lots[k + 1][2])
  PROVE  /\ opened'[Child] = Taken(3, k + 1)
         /\ res'[Child].ret \in Int
         /\ k + 1 < NumFds => (res'[Child].ret = Fail <=> k + 1 = NumFds - 1)
<1>1. /\ NumFds \in Nat /\ NumFds >= 2 /\ Child \in Procs
      /\ k < (NumFds - 1) + (NumFds - 2)
      /\ Fds = 0 .. NumFds-1 /\ FdStart = 2 /\ Fail = -1
  BY Sizes, DescriptorAssumption, LotsIs DEF Fds, FdStart, Fail
<1>2. DOMAIN res = Procs /\ opened \in [Procs -> SUBSET Fds]
  BY DEF DescInv, DescriptorsOK
<1>3. CASE k + 1 < NumFds
  <2>1. open(Child, Dot)
    <3>1. k + 1 \in 1 .. NumFds-1
      BY <1>1, <1>3
    <3>2. err_open_lots[k + 1] = <<"open", Dot>>
      BY <3>1, LotsIs
    <3>3. QED
      BY <3>2 DEF Do
  <2>2. Child \in alive
    BY <2>1 DEF open, Open, OpenRefused, Answer
  <2>3. opened[Child] = {f \in Fds : 2 <= f /\ f < k + 2}
    BY <1>1, <1>3 DEF Taken
  <2>4. Free(Child) = {f \in Fds : k + 2 <= f}
    <3>1. {g \in Fds : fds[Child][g].inuse} = {0, 1} \cup opened[Child]
      BY <2>2 DEF DescInv, NothingInherited
    <3>2. ASSUME NEW f \in Fds PROVE f \in Free(Child) <=> k + 2 <= f
      <4>1. f \in Free(Child) <=> 2 <= f /\ ~fds[Child][f].inuse
        BY <1>1 DEF Free
      <4>2. fds[Child][f].inuse <=> f \in {0, 1} \/ (2 <= f /\ f < k + 2)
        BY <2>3, <3>1
      <4>3. QED
        BY <1>1, <4>1, <4>2
    <3>3. Free(Child) \subseteq Fds
      BY <1>1 DEF Free
    <3>4. QED
      BY <3>2, <3>3
  <2>5. CASE k + 2 < NumFds
    <3>1. k + 2 \in Free(Child) /\ \A g \in Free(Child) : k + 2 <= g
      BY <1>1, <2>4, <2>5
    <3>2. LowestFree(Child) = k + 2
      <4>1. \A g \in Free(Child) : g \in Int
        BY <1>1, <2>4
      <4>2. \E f \in Free(Child) : \A g \in Free(Child) : f <= g
        BY <3>1
      <4>3. LowestFree(Child) \in Free(Child) /\ \A g \in Free(Child) : LowestFree(Child) <= g
        BY <4>2, Zenon DEF LowestFree
      <4>4. QED
        BY <3>1, <4>1, <4>3
    <3>3. CanOpen(Child, Dot)
      <4>1. Len(Dot) = 1
        BY DEF Dot
      <4>2. read_dentry_by_name(Dot) # NoEntry /\ read_dentry_by_name(Dot).type = 1
        BY DotIsFound
      <4>3. QED
        BY <3>1, <4>1, <4>2 DEF CanOpen
    <3>4. Open(Child, Dot)
      BY <2>1, <3>3 DEF open, OpenRefused
    <3>5. /\ res' = [res EXCEPT ![Child] = [ret |-> k + 2, data |-> <<>>]]
          /\ opened' = [opened EXCEPT ![Child] = @ \cup {k + 2}]
      BY <3>2, <3>4 DEF Open, Return
    <3>6. res'[Child].ret = k + 2 /\ opened'[Child] = opened[Child] \cup {k + 2}
      BY <1>1, <1>2, <3>5
    <3>7. opened'[Child] = {f \in Fds : 2 <= f /\ f < (k + 1) + 2}
      BY <1>1, <2>3, <2>5, <3>6
    <3>8. QED
      BY <1>1, <1>3, <2>5, <3>6, <3>7 DEF Taken
  <2>6. CASE ~(k + 2 < NumFds)
    <3>1. k + 2 = NumFds /\ Free(Child) = {}
      BY <1>1, <1>3, <2>4, <2>6
    <3>2. Answer(Child, Fail)
      BY <2>1, <3>1 DEF open, Open, OpenRefused, CanOpen
    <3>3. res'[Child].ret = Fail /\ opened' = opened
      BY <1>1, <3>2, Refused
    <3>4. opened[Child] = {f \in Fds : 2 <= f /\ f < (k + 1) + 2}
      BY <1>1, <2>3, <3>1
    <3>5. opened'[Child] = Taken(3, k + 1)
      BY <1>3, <3>3, <3>4 DEF Taken
    <3>6. k + 1 = NumFds - 1
      BY <1>1, <3>1
    <3>7. QED
      BY <1>1, <3>3, <3>5, <3>6
  <2>7. QED
    BY <2>5, <2>6
<1>4. CASE ~(k + 1 < NumFds)
  <2> DEFINE a == ((k + 1) - NumFds) + 2
  <2>1. a \in Int /\ a \in 2 .. NumFds-1 /\ k + 1 \in NumFds .. (NumFds - 1) + (NumFds - 2)
    BY <1>1, <1>4
  <2>2. close(Child, a)
    <3>1. err_open_lots[k + 1] = <<"close", a>>
      BY <2>1, LotsIs
    <3>2. QED
      BY <3>1 DEF Do
  <2>3. opened[Child] = {f \in Fds : a <= f}
    <3>1. CASE k < NumFds
      <4>1. k = NumFds - 1 /\ a = 2
        BY <1>1, <1>4, <3>1
      <4>2. opened[Child] = {f \in Fds : 2 <= f /\ f < k + 2}
        BY <3>1 DEF Taken
      <4>3. QED
        BY <1>1, <4>1, <4>2
    <3>2. CASE ~(k < NumFds)
      <4>1. (k - NumFds) + 3 = a
        BY <1>1
      <4>2. opened[Child] = {f \in Fds : (k - NumFds) + 3 <= f}
        BY <3>2 DEF Taken
      <4>3. QED
        BY <4>1, <4>2
    <3>3. QED
      BY <3>1, <3>2
  <2>4. Taken(3, k + 1) = {f \in Fds : a + 1 <= f}
    <3>1. ((k + 1) - NumFds) + 3 = a + 1
      BY <1>1
    <3>2. QED
      BY <1>4, <3>1 DEF Taken
  <2> HIDE DEF a
  <2>5. Child \in alive
    BY <2>2 DEF close, Close, CloseRefused, Answer
  <2>6. Closable(Child, a)
    <3>1. a \in Fds /\ a \in opened[Child]
      BY <1>1, <2>1, <2>3
    <3>2. fds[Child][a].inuse
      BY <2>5, <3>1 DEF DescInv, NothingInherited
    <3>3. Good(a, fds[Child][a], got[Child][a])
      BY <2>5, <3>1 DEF DescInv, AllGood
    <3>4. fds[Child][a].ops # "null"
      BY <3>2, <3>3 DEF Good
    <3>5. QED
      BY <1>1, <2>1, <3>2, <3>4 DEF Closable
  <2>7. Close(Child, a)
    BY <2>2, <2>6 DEF close, CloseRefused
  <2>8. /\ res' = [res EXCEPT ![Child] = [ret |-> 0, data |-> <<>>]]
        /\ opened' = [opened EXCEPT ![Child] = @ \ {a}]
    BY <2>7 DEF Close, Return
  <2>9. res'[Child].ret = 0 /\ opened'[Child] = opened[Child] \ {a}
    BY <1>1, <1>2, <2>8
  <2>10. opened'[Child] = {f \in Fds : a + 1 <= f}
    BY <1>1, <2>1, <2>3, <2>9
  <2>11. QED
    BY <1>4, <2>4, <2>9, <2>10
<1>5. QED
  BY <1>3, <1>4
LEMMA ScriptLengths == \A t \in 1 .. 8 : Len(Script[t]) \in Nat
<1>1. NumFds \in Nat /\ NumFds >= 2
  BY DescriptorAssumption
<1>2. Len(err_open_lots) \in Nat
  BY <1>1, LotsIs
<1>3. Len(err_unopened) \in Nat
  <2> DEFINE S == {"read", "write", "close"} \X Nat
             a == EachFd("close", 0)
             b == EachFd("read", FdStart)
             c == EachFd("write", FdStart)
  <2>1. a \in Seq(S) /\ b \in Seq(S) /\ c \in Seq(S)
    BY <1>1, FailingEach DEF FdStart
  <2>2. err_unopened = (a \o b) \o c
    BY DEF err_unopened
  <2> HIDE DEF S, a, b, c
  <2>3. QED
    BY <2>1, <2>2
<1>4. /\ Len(err_neg_fd) \in Nat /\ Len(err_big_fd) \in Nat /\ Len(err_open) \in Nat
      /\ Len(err_vidmap) \in Nat /\ Len(err_stdin_out) \in Nat /\ Len(err_syscall_num) \in Nat
  BY DEF err_neg_fd, err_big_fd, err_open, err_vidmap, err_stdin_out, err_syscall_num
<1>5. QED
  BY <1>2, <1>3, <1>4 DEF Script

LEMMA TakenNone ==
  /\ \A t : Taken(t, 0) = {}
  /\ \A t \in 1 .. 8 : Taken(t, Len(Script[t])) = {}
<1>1. NumFds \in Nat /\ NumFds >= 2 /\ Fds = 0 .. NumFds-1
  BY DescriptorAssumption DEF Fds
<1>2. Taken(3, 0) = {}
  BY <1>1 DEF Taken
<1>3. Taken(3, (NumFds - 1) + (NumFds - 2)) = {}
  <2> DEFINE k == (NumFds - 1) + (NumFds - 2)
  <2>1. CASE k < NumFds
    <3>1. NumFds = 2 /\ k = 1
      BY <1>1, <2>1
    <3>2. Taken(3, k) = {f \in Fds : 2 <= f /\ f < k + 2}
      BY <2>1 DEF Taken
    <3>3. QED
      BY <1>1, <3>1, <3>2
  <2>2. CASE ~(k < NumFds)
    <3>1. (k - NumFds) + 3 = NumFds
      BY <1>1
    <3>2. Taken(3, k) = {f \in Fds : (k - NumFds) + 3 <= f}
      BY <2>2 DEF Taken
    <3>3. QED
      BY <1>1, <3>1, <3>2
  <2>3. QED
    BY <2>1, <2>2
<1>4. Script[3] = err_open_lots
  BY DEF Script
<1>5. \A t, k : t # 3 => Taken(t, k) = {}
  BY DEF Taken
<1>6. QED
  BY <1>2, <1>3, <1>4, <1>5, LotsIs

\* One call of a test.
LEMMA SyserrCalls ==
  ASSUME DescInv, DOMAIN local = LocalNames, Midway(local, opened[Child]), SyserrCall
  PROVE  Midway(local', opened'[Child])
<1> DEFINE t == Head(local.todo)
           r == local.results
           n == Len(r)
           v == res'[Child].ret
<1>1. /\ local.todo \in Seq(1 .. 8) /\ local.todo # <<>> /\ r \in Seq(Int)
      /\ opened[Child] = Taken(t, n) /\ AsMeant(t, r)
  BY DEF Midway, SyserrCall, TestOf
<1>2. t \in 1 .. 8 /\ n \in Nat
  BY <1>1
<1>3. /\ n < Len(Script[t]) /\ Do(Script[t][n + 1][1], Script[t][n + 1][2])
      /\ local' = [local EXCEPT !.results = Append(@, v)]
  BY DEF SyserrCall, Current
<1>4. local'.todo = local.todo /\ local'.results = Append(r, v)
  BY <1>3 DEF LocalNames
<1> HIDE DEF t, r, n, v
<1>5. /\ v \in Int /\ opened'[Child] = Taken(t, n + 1)
      /\ IF t = 3 THEN n + 1 < NumFds => (v = Fail <=> n + 1 = NumFds - 1) ELSE v = Fail
  <2>1. CASE t = 3
    <3>1. Script[t] = err_open_lots
      BY <2>1 DEF Script
    <3>2. /\ opened'[Child] = Taken(3, n + 1) /\ v \in Int
          /\ n + 1 < NumFds => (v = Fail <=> n + 1 = NumFds - 1)
      BY <1>1, <1>2, <1>3, <2>1, <3>1, LotsStep DEF v
    <3>3. QED
      BY <2>1, <3>2
  <2>2. CASE t # 3
    <3>1. Failing(Script[t][n + 1][1], Script[t][n + 1][2])
      <4>1. AllFailing(Script[t])
        BY <1>2, <2>2, OthersFail
      <4>2. Len(Script[t]) \in Nat
        BY <1>2, ScriptLengths
      <4>3. n + 1 \in 1 .. Len(Script[t])
        BY <1>2, <1>3, <4>2
      <4>4. QED
        BY <4>1, <4>3 DEF AllFailing
    <3>2. opened[Child] = {}
      BY <1>1, <2>2 DEF Taken
    <3>3. v = Fail /\ opened' = opened
      BY <1>3, <3>1, <3>2, FailsAsMeant DEF v
    <3>4. Taken(t, n + 1) = {} /\ Fail \in Int
      BY <2>2 DEF Taken, Fail
    <3>5. QED
      BY <2>2, <3>2, <3>3, <3>4
  <2>3. QED
    BY <2>1, <2>2
<1> DEFINE q == Append(r, v)
<1>6. /\ q \in Seq(Int) /\ Len(q) = n + 1 /\ q[n + 1] = v
      /\ \A i \in 1 .. n : q[i] = r[i]
  BY <1>1, <1>5 DEF n
<1> HIDE DEF q
<1>7. AsMeant(t, q)
  <2> SUFFICES ASSUME NEW i \in 1 .. n + 1
               PROVE  IF t = 3 THEN i < NumFds => (q[i] = Fail <=> i = NumFds - 1) ELSE q[i] = Fail
    BY <1>6 DEF AsMeant
  <2>1. CASE i = n + 1
    BY <1>5, <1>6, <2>1
  <2>2. CASE i # n + 1
    <3>1. i \in 1 .. n
      BY <1>2, <2>2
    <3>2. QED
      BY <1>1, <1>6, <3>1 DEF AsMeant, n
  <2>3. QED
    BY <2>1, <2>2
<1>8. n + 1 <= Len(Script[t])
  BY <1>2, <1>3, ScriptLengths
<1>9. /\ TestOf(local'.todo) = t /\ Head(local'.todo) = t /\ local'.todo # <<>>
      /\ local'.results = q /\ local'.todo \in Seq(1 .. 8)
  BY <1>1, <1>4 DEF TestOf, t, q
<1>10. QED
  BY <1>5, <1>6, <1>7, <1>8, <1>9 DEF Midway

\* The end of a test: it has passed, and has left no descriptor open.
LEMMA SyserrPasses ==
  ASSUME DOMAIN local = LocalNames, Midway(local, opened[Child]), code = 0, SyserrVerdict
  PROVE  code' = 0 /\ Midway(local', opened'[Child])
<1> DEFINE t == Head(local.todo)
           r == local.results
<1>1. /\ local.todo \in Seq(1 .. 8) /\ local.todo # <<>> /\ r \in Seq(Int)
      /\ opened[Child] = Taken(t, Len(r)) /\ AsMeant(t, r) /\ Len(r) = Len(Script[t])
  BY DEF Midway, SyserrVerdict, TestOf, Current
<1>2. t \in 1 .. 8 /\ Len(r) \in Nat /\ DOMAIN r = 1 .. Len(r) /\ Tail(local.todo) \in Seq(1 .. 8)
  BY <1>1
<1>3. /\ code' = code + IF Passed(t, r) THEN 0 ELSE 2
      /\ local' = [local EXCEPT !.todo = Tail(@), !.results = <<>>] /\ opened' = opened
  BY DEF SyserrVerdict, vars
<1>4. local'.todo = Tail(local.todo) /\ local'.results = <<>>
  BY <1>3 DEF LocalNames
<1> HIDE DEF t, r
<1>5. Passed(t, r)
  <2>1. CASE t = 3
    <3> DEFINE F == Failures(r) \cap (1 .. NumFds-1)
               m == NumFds - 1
    <3>1. NumFds \in Nat /\ NumFds >= 2 /\ m \in 1 .. NumFds-1
      BY DescriptorAssumption
    <3>2. Len(r) = (NumFds - 1) + (NumFds - 2)
      <4>1. Script[t] = err_open_lots
        BY <2>1 DEF Script
      <4>2. QED
        BY <1>1, <4>1, LotsIs
    <3>3. \A i \in 1 .. NumFds-1 : i \in 1 .. Len(r) /\ i < NumFds
      BY <3>1, <3>2
    <3>4. \A i \in 1 .. NumFds-1 : r[i] = Fail <=> i = m
      BY <1>1, <2>1, <3>3 DEF AsMeant
    <3>5. F = {m}
      BY <1>2, <3>1, <3>3, <3>4 DEF Failures
    <3> HIDE DEF m
    <3>6. QED
      BY <2>1, <3>1, <3>5 DEF Passed
  <2>2. CASE t # 3
    <3>1. Failures(r) = DOMAIN r
      BY <1>1, <1>2, <2>2 DEF AsMeant, Failures
    <3>2. QED
      BY <2>2, <3>1 DEF Passed
  <2>3. QED
    BY <2>1, <2>2
<1>6. code' = 0
  BY <1>3, <1>5
<1>7. opened'[Child] = {}
  BY <1>1, <1>2, <1>3, TakenNone
<1>8. \A u : AsMeant(u, <<>>)
  BY DEF AsMeant
<1>9. /\ local'.todo \in Seq(1 .. 8) /\ local'.results \in Seq(Int) /\ Len(local'.results) = 0
      /\ Taken(TestOf(local'.todo), 0) = {}
  BY <1>2, <1>4, TakenNone
<1>10. local'.todo # <<>> => 0 <= Len(Script[Head(local'.todo)])
  <2> SUFFICES ASSUME local'.todo # <<>> PROVE 0 <= Len(Script[Head(local'.todo)])
    OBVIOUS
  <2>1. Head(local'.todo) \in 1 .. 8
    BY <1>9
  <2>2. QED
    BY <2>1, ScriptLengths
<1>11. QED
  BY <1>4, <1>6, <1>7, <1>8, <1>9, <1>10 DEF Midway

LEMMA ReadOpensNothing ==
  ASSUME NEW p, NEW f, NEW n, read(p, f, n)
  PROVE  opened' = opened
BY DEF read, Read, ReadRefused, FsRead, DirRead, OtherRead, Answer, Deliver, DeliverBytes

LEMMA SyserrStarts ==
  ASSUME NEW l \in Locals
  PROVE  Midway(l, {})
<1>1. l.todo = <<>> /\ l.results = <<>>
  BY DEF Locals
<1>2. QED
  BY <1>1, TakenNone DEF Midway, AsMeant, TestOf

LEMMA SyserrNext ==
  ASSUME ProgInv, SyserrInv, [Next]_allvars
  PROVE  SyserrInv'
<1>1. DescInv /\ DOMAIN local = LocalNames /\ opened \in [Procs -> SUBSET Fds]
  BY DEF ProgInv, DescInv, DescriptorsOK
<1>2. Base \in Procs /\ Child \in Procs /\ Base # Child
  BY Sizes
<1>3. CASE Cat \/ Grep \/ OtherCall
  <2>1. prog # "syserr" /\ prog' = prog
    BY <1>3 DEF Cat, CatOpen, LsOpen, ReadFirst, PrintChunk, ReadMore, PrinterExits, Grep, GrepOpen,
         GrepFirst, GrepSkip, GrepNext, GrepFile, GrepRead, GrepText, GrepCarry, GrepLine, GrepClose,
         GrepExits, OtherCall, CallThen, Exit, session
  <2>2. QED
    BY <2>1 DEF SyserrInv
<1>4. CASE Leave
  BY <1>4 DEF Leave, SyserrInv
<1>5. CASE Boot
  <2>1. /\ opened' = [opened EXCEPT ![Base] = {}]
        /\ shell' = (IF shell = "boot" THEN "read" ELSE shell)
        /\ UNCHANGED <<prog, pc, local, code>>
    BY <1>5 DEF Boot, Execute, StartIn
  <2>2. opened'[Child] = opened[Child]
    BY <1>1, <1>2, <2>1
  <2>3. QED
    BY <2>1, <2>2 DEF SyserrInv
<1>6. CASE OtherBase \/ ShellRead \/ ShellEmpty \/ ShellExit \/ ShellUnknown
  <2>1. shell # "wait" /\ prog' = prog
    BY <1>6 DEF OtherBase, ShellRead, ShellEmpty, ShellExit, ShellUnknown, session
  <2>2. QED
    BY <2>1 DEF SyserrInv
<1>7. CASE ShellExecute
  <2>1. local' \in Locals /\ opened' = [opened EXCEPT ![Child] = {}] /\ shell' = "wait" /\ code' = 0
        /\ pc' = "main"
    BY <1>7 DEF ShellExecute, Execute, StartIn
  <2>2. opened'[Child] = {}
    BY <1>1, <1>2, <2>1
  <2>3. Midway(local', opened'[Child])
    BY <2>1, <2>2, SyserrStarts
  <2>4. local'.results = <<>>
    BY <2>1 DEF Locals
  <2>5. QED
    BY <2>1, <2>3, <2>4 DEF SyserrInv
<1>8. CASE Syserr
  <2>1. prog = "syserr" /\ prog' = prog /\ shell' = shell /\ shell = "wait" /\ code = 0
        /\ Midway(local, opened[Child]) /\ (pc # "test" => local.results = <<>>)
    BY <1>8 DEF Syserr, SyserrAsk, SyserrSelect, SyserrCall, SyserrVerdict, SyserrExits, CallThen,
                Exit, SyserrInv
  <2>2. CASE SyserrAsk
    <3>1. opened' = opened /\ local' = local /\ code' = code /\ pc = "main"
      BY <2>2, ReadOpensNothing DEF SyserrAsk, CallThen, At
    <3>2. QED
      BY <2>1, <3>1 DEF SyserrInv
  <2>3. CASE SyserrSelect
    <3>1. /\ opened' = opened /\ code' = code /\ pc = "select" /\ pc' = "test"
      BY <2>3 DEF SyserrSelect, vars, At, Goto
    <3>2. PICK tests \in {[i \in 1..8 |-> i], <<>>} \cup {<<k>> : k \in 1..8} :
            local' = [local EXCEPT !.todo = tests]
      BY <2>3 DEF SyserrSelect
    <3>3. local'.todo = tests /\ local'.results = <<>>
      BY <1>1, <2>1, <3>1, <3>2 DEF LocalNames
    <3>4. tests \in Seq(1 .. 8)
      <4>1. [i \in 1..8 |-> i] \in Seq(1 .. 8)
        OBVIOUS
      <4>2. \A k \in 1 .. 8 : <<k>> \in Seq(1 .. 8)
        OBVIOUS
      <4>3. <<>> \in Seq(1 .. 8)
        OBVIOUS
      <4> DEFINE all == [i \in 1..8 |-> i]
                 S == Seq(1 .. 8)
      <4> HIDE DEF all, S
      <4>4. tests = all \/ tests = <<>> \/ \E k \in 1 .. 8 : tests = <<k>>
        BY DEF all
      <4>5. all \in S /\ <<>> \in S /\ \A k \in 1 .. 8 : <<k>> \in S
        BY <4>1, <4>2, <4>3 DEF all, S
      <4>6. tests \in S
        BY <4>4, <4>5
      <4>7. QED
        BY <4>6 DEF S
    <3>5. opened[Child] = {}
      <4>1. local.results = <<>>
        BY <2>1, <3>1
      <4>2. QED
        BY <2>1, <4>1, TakenNone DEF Midway
    <3>6. tests # <<>> => 0 <= Len(Script[Head(tests)])
      BY <3>4, ScriptLengths
    <3>7. Midway(local', opened'[Child])
      BY <3>1, <3>3, <3>4, <3>5, <3>6, TakenNone DEF Midway, AsMeant
    <3>8. QED
      BY <2>1, <3>1, <3>7 DEF SyserrInv
  <2>4. CASE SyserrCall
    <3>1. code' = code /\ pc' = pc /\ pc = "test"
      BY <2>4 DEF SyserrCall, At
    <3>2. Midway(local', opened'[Child])
      BY <1>1, <2>1, <2>4, SyserrCalls
    <3>3. QED
      BY <2>1, <3>1, <3>2 DEF SyserrInv
  <2>5. CASE SyserrVerdict
    <3>1. pc' = pc /\ pc = "test"
      BY <2>5 DEF SyserrVerdict, At
    <3>2. code' = 0 /\ Midway(local', opened'[Child])
      BY <1>1, <2>1, <2>5, SyserrPasses
    <3>3. QED
      BY <2>1, <3>1, <3>2 DEF SyserrInv
  <2>6. CASE SyserrExits
    <3>1. code' = code /\ local' = local /\ opened' = opened /\ pc = "test" /\ local.todo = <<>>
      BY <2>6 DEF SyserrExits, Exit, vars, At
    <3>2. local.results = <<>>
      BY <2>1, <3>1 DEF Midway
    <3>3. QED
      BY <2>1, <3>1, <3>2 DEF SyserrInv
  <2>7. QED
    BY <1>8, <2>2, <2>3, <2>4, <2>5, <2>6 DEF Syserr
<1>9. CASE UNCHANGED allvars
  BY <1>9 DEF allvars, vars, session, SyserrInv
<1>10. QED
  BY <1>3, <1>4, <1>5, <1>6, <1>7, <1>8, <1>9 DEF Next, Shell

\* The tests of the system calls' error paths pass, in any order and after any
\* processes, for any number of descriptors: bad descriptors and names, the open
\* that finds no descriptor free and calls that do not exist are refused, and no
\* test leaves the next one anything (ece391syserr.c, sys_call.c).
THEOREM TestsAlwaysPass == Spec => []TestsPass
<1>1. StartInit => SyserrInv
  BY DEF StartInit, SyserrInv
<1>2. ProgInv /\ SyserrInv /\ [Next]_allvars => SyserrInv'
  BY SyserrNext
<1>3. SyserrInv => TestsPass
  BY DEF SyserrInv, TestsPass
<1>4. QED
  BY <1>1, <1>2, <1>3, ProgInvariant, PTL DEF Spec

(***************************************************************************)
(* What cat, ls and grep print.  The inductive invariants say how much of  *)
(* the file or directory the output has got to, given the position of the  *)
(* descriptor and, for grep, what lies in its buffer.                      *)
(***************************************************************************)
\* f[k] is what the first k sequences of s are together.
Joins(f, s, n) ==
  /\ f = [k \in 0 .. n |-> f[k]] /\ f[0] = <<>>
  /\ \A k \in 1 .. n : f[k] = f[k - 1] \o s[k]

Sums(s) == CHOOSE f : Joins(f, s, Len(s))

DirNames   == [i \in DOMAIN Dir |-> Dir[i].name]
LinesFound(e) == [k \in 1 .. Len(TextOf(e)) + 1 |-> FoundBefore(e, pcb.args, k)]

\* Descriptor f of the program is open on e.
Pos(f) == fds[Child][f].pos

IsOn(d, e) ==
  /\ d.inuse /\ d.ops = TableOf(e.type)
  /\ d.pos \in 0 .. IF e.type = 1 THEN Len(Dir) ELSE Len(TextOf(e))
  /\ e.type = 2 => d.inode = e.inode /\ d.ftype = 2

OnEntry(f, e) == f \in Fds \ {0, 1} /\ IsOn(fds[Child][f], e)

\* o is what program p with arguments a prints of the entry before descriptor d's place.
IsShown(d, p, a, o) ==
  IF p = "ls"
  THEN IsOn(d, Dir[1]) /\ o = [i \in 1 .. d.pos |-> Append(Dir[i].name, End)]
  ELSE /\ Entries(a) # {} /\ IsOn(d, FirstOf(a))
       /\ o = IF FirstOf(a).type = 1 THEN Sums(DirNames)[d.pos]
              ELSE SubSeq(TextOf(FirstOf(a)), 1, d.pos)

Shows(f, o) == f \in Fds \ {0, 1} /\ IsShown(fds[Child][f], prog, pcb.args, o)

PrinterInv ==
  prog \in {"cat", "ls"} =>
    /\ pc \in {"main", "opened", "chunk", "written", "exit"}
    /\ pc # "exit" => code = 0
    /\ pc = "main" => out = <<>> /\ opened[Child] = {}
    /\ pc = "opened" => /\ out = <<>>
                        /\ IF ret = Fail THEN prog = "cat" /\ Entries(pcb.args) = {}
                           ELSE Shows(ret, <<>>)
    /\ pc = "chunk" => /\ ret = 0 => <<0, out>> = Expected
                       /\ ret \notin {0, Fail} => Shows(local.fd, out \o Printed(prog))
    /\ pc = "written" => Shows(local.fd, out)
    /\ pc = "exit" => <<code, out>> = Expected

\* The arguments of the program, without a terminator.
ArgInv ==
  /\ pcb.args \in Seq(STRING) /\ pcb.size \in Nat /\ Len(pcb.args) <= pcb.size
  /\ \A i \in DOMAIN pcb.args : pcb.args[i] # Nul

\* The file grep has open, and the place it has reached there.
Nth    == Pos(local.fd)
Here   == FirstOf(Dir[Nth].name)
Place  == Pos(local.file)

\* o has a list for each of the first k names, complete for the texts among the first n.
Filled(o, a, k, n) ==
  /\ o = [i \in 1 .. k |-> o[i]]
  /\ \A i \in 1 .. n :
       IsText(FirstOf(Dir[i].name)) => o[i] = FoundIn(FirstOf(Dir[i].name), a)

\* The buffer holds, from first to last, the characters before place p of the text.
Buffered(first, last, p) ==
  /\ last <= p
  /\ \A i \in first .. last-1 : local.data[i] = TextOf(Here)[p - last + i + 1]

\* The lines before place k have been looked at, and one has ended there.
Reached(k) ==
  /\ k \in Stops(TextOf(Here)) \cup {0}
  /\ out[Nth] = Sums(LinesFound(Here))[k]

\* The last line has been looked at although its end was not read.
Ended ==
  /\ local.last = 0 /\ Place = Len(TextOf(Here))
  /\ out[Nth] = Sums(LinesFound(Here))[Len(TextOf(Here)) + 1]

\* So it is with a text, while it reads the text.
TextInv ==
  ret # Fail =>
    /\ ret \in Nat /\ Len(data) = ret /\ DOMAIN data = 1 .. ret
    /\ \A j \in 1 .. ret : data[j] = TextOf(Here)[Place - ret + j]
    /\ Buffered(0, local.last, Place - ret)
    /\ Place < Len(TextOf(Here)) => local.last + ret = GrepSize
    /\ ret = 0 => Place = Len(TextOf(Here))
    /\ Reached(Place - ret - local.last) \/ (Ended /\ ret = 0)

LineInv ==
  /\ Buffered(local.start, local.last, Place)
  /\ Place < Len(TextOf(Here)) => local.last = GrepSize
  /\ local.cnt = 0 => Place = Len(TextOf(Here))
  /\ Reached(Place - local.last + local.start) \/ (Ended /\ local.start = 0 /\ local.cnt = 0)

MoreInv ==
  /\ Buffered(0, local.last, Place)
  /\ Reached(Place - local.last) \/ Ended

InFile == {"file", "text", "line", "more", "done"}

\* It is at a name of the directory, and has opened the file.
AtName == Nth > 0 /\ local.name = Dir[Nth].name /\ local.name[1] # "."
AtFile == local.file # local.fd /\ OnEntry(local.file, Here)

\* The only newlines in the buffer are in the part still to be looked at.
NoEnds ==
  /\ DOMAIN local.data = 0 .. GrepSize
  /\ \A i \in 0 .. GrepSize :
       pc # "line" \/ i < local.start \/ i >= local.last => local.data[i] # End

Searching ==
  /\ pc \in {"main", "opened", "name", "again", "exit"} \cup InFile
  /\ code = 0
  /\ pc # "main" => ~ArgsFail(GrepSize)
  /\ NoEnds
  /\ pc = "main" => out = <<>>
  /\ pc = "opened" => out = <<>> /\ (ret # Fail => OnEntry(ret, Dir[1]) /\ Pos(ret) = 0)
  /\ pc \in {"name", "again"} \cup InFile => OnEntry(local.fd, Dir[1])
  /\ pc = "name" => /\ ret = 0 => Nth = Len(Dir) /\ Filled(out, pcb.args, Nth, Nth)
                    /\ ret \notin {0, Fail} =>
                         Nth > 0 /\ data = Dir[Nth].name /\ Filled(out, pcb.args, Nth - 1, Nth - 1)
  /\ pc \in {"again", "done"} => Filled(out, pcb.args, Nth, Nth)
  /\ pc \in InFile => AtName
  /\ pc \in InFile \ {"done"} => Filled(out, pcb.args, Nth, Nth - 1)
  /\ pc = "file" => /\ out[Nth] = <<>>
                    /\ ret # Fail => ret # local.fd /\ OnEntry(ret, Here) /\ Pos(ret) = 0
  /\ pc \in InFile \ {"file"} => AtFile
  /\ IsText(Here) => /\ pc = "text" => TextInv
                     /\ pc = "line" => LineInv
                     /\ pc = "more" => MoreInv
  /\ pc = "exit" => Filled(out, pcb.args, Len(Dir), Len(Dir))

\* Behind the part of its buffer grep never wrote lies no newline.
SearchInv == prog = "grep" /\ local.junk # End => Searching

LEMMA JoinsExist ==
  ASSUME NEW s, NEW n \in Nat
  PROVE  \E f : Joins(f, s, n)
<1> DEFINE T == {k \in Nat : ~ \E f : Joins(f, s, k)}
<1> SUFFICES ASSUME T # {} PROVE FALSE
  OBVIOUS
<1>1. T \in SUBSET Nat
  OBVIOUS
<1>2. PICK k \in T : \A j \in T : k <= j
  <2> HIDE DEF T
  <2>1. QED
    BY <1>1, Least
<1>3. k \in Nat /\ ~ \E f : Joins(f, s, k)
  OBVIOUS
<1>4. k # 0
  <2> SUFFICES ASSUME k = 0 PROVE FALSE
    OBVIOUS
  <2> DEFINE g == [j \in 0 .. 0 |-> <<>>]
  <2>1. Joins(g, s, 0)
    BY DEF Joins
  <2>2. QED
    BY <1>3, <2>1
<1>5. k - 1 \in Nat /\ k - 1 \notin T
  BY <1>2, <1>3, <1>4
<1>6. PICK f : Joins(f, s, k - 1)
  BY <1>5
<1> DEFINE x == f[k - 1] \o s[k]
           g == [j \in 0 .. k |-> IF j = k THEN x ELSE f[j]]
<1> HIDE DEF T, x
<1>7. g = [j \in 0 .. k |-> g[j]] /\ g[0] = f[0] /\ g[k] = x
      /\ \A j \in 0 .. k-1 : g[j] = f[j]
  BY <1>3, <1>4
<1> HIDE DEF g
<1>8. ASSUME NEW j \in 1 .. k PROVE g[j] = g[j - 1] \o s[j]
  <2>0. j - 1 \in 0 .. k-1
    BY <1>3
  <2>1. g[j - 1] = f[j - 1]
    BY <1>7, <2>0
  <2>2. CASE j = k
    BY <1>7, <2>1, <2>2 DEF x
  <2>3. CASE j # k
    <3>0. j \in 1 .. k-1 /\ j \in 0 .. k-1
      BY <1>3, <2>3
    <3>1. j \in 1 .. k-1 /\ g[j] = f[j]
      BY <1>7, <3>0
    <3>2. f[j] = f[j - 1] \o s[j]
      BY <1>6, <3>1 DEF Joins
    <3>3. QED
      BY <2>1, <3>1, <3>2
  <2>4. QED
    BY <2>2, <2>3
<1>9. Joins(g, s, k)
  BY <1>6, <1>7, <1>8 DEF Joins
<1>10. QED
  BY <1>3, <1>9

LEMMA SumsAre ==
  ASSUME NEW s, Len(s) \in Nat
  PROVE  Joins(Sums(s), s, Len(s))
<1>1. \E f : Joins(f, s, Len(s))
  BY JoinsExist
<1>2. QED
  BY <1>1, Zenon DEF Sums

LEMMA SumsAreSeqs ==
  ASSUME NEW W, NEW s, Len(s) \in Nat, \A i \in 1 .. Len(s) : s[i] \in Seq(W)
  PROVE  \A k \in 0 .. Len(s) : Sums(s)[k] \in Seq(W)
<1> DEFINE f == Sums(s)
           n == Len(s)
           T == {k \in 0 .. n : f[k] \notin Seq(W)}
<1> SUFFICES ASSUME T # {} PROVE FALSE
  OBVIOUS
<1>1. T \in SUBSET Nat
  OBVIOUS
<1>2. PICK k \in T : \A j \in T : k <= j
  <2> HIDE DEF T
  <2>1. QED
    BY <1>1, Least
<1>3. f[0] = <<>> /\ \A j \in 1 .. n : f[j] = f[j - 1] \o s[j]
  BY SumsAre DEF Joins
<1>4. k \in 0 .. n /\ f[k] \notin Seq(W)
  OBVIOUS
<1> HIDE DEF f, n
<1>5. k # 0
  <2>1. <<>> \in Seq(W)
    OBVIOUS
  <2>2. QED
    BY <1>3, <1>4, <2>1
<1>6. k \in 1 .. n /\ k - 1 \in 0 .. n /\ k - 1 \notin T
  BY <1>2, <1>4, <1>5 DEF n
<1>7. f[k - 1] \in Seq(W) /\ s[k] \in Seq(W)
  BY <1>6 DEF n
<1>8. f[k - 1] \o s[k] \in Seq(W)
  BY <1>7
<1>9. QED
  BY <1>3, <1>4, <1>6, <1>8

LEMMA FlattenIs ==
  ASSUME NEW W, NEW s, Len(s) \in Nat \ {0}, s[1] \in Seq(W)
  PROVE  FlattenSeq(s) = Sums(s)[Len(s)]
<1> DEFINE f == Sums(s)
           n == Len(s)
           Eq(g) == g = [i \in 1 .. n |-> IF i = 1 THEN s[i] ELSE g[i - 1] \o s[i]]
           F == CHOOSE g : Eq(g)
<1>1. FlattenSeq(s) = F[n]
  BY DEF FlattenSeq
<1>2. f[0] = <<>> /\ \A j \in 1 .. n : f[j] = f[j - 1] \o s[j]
  BY SumsAre DEF Joins
<1>3. n \in Nat /\ n > 0
  OBVIOUS
<1> HIDE DEF f, n
<1>4. f[1] = s[1]
  <2>1. f[1] = <<>> \o s[1]
    <3>1. 1 \in 1 .. n /\ 1 - 1 = 0
      BY <1>3
    <3>2. f[1] = f[1 - 1] \o s[1]
      BY <1>2, <3>1
    <3>3. QED
      BY <1>2, <3>1, <3>2
  <2>2. <<>> \o s[1] = s[1]
    OBVIOUS
  <2>3. QED
    BY <2>1, <2>2
<1> DEFINE h == [i \in 1 .. n |-> f[i]]
<1>5. Eq(h)
  <2>1. ASSUME NEW i \in 1 .. n
        PROVE  f[i] = IF i = 1 THEN s[i] ELSE h[i - 1] \o s[i]
    <3>1. CASE i = 1
      BY <1>4, <3>1
    <3>2. CASE i # 1
      <4>1. i - 1 \in 1 .. n
        BY <1>3, <3>2
      <4>2. h[i - 1] = f[i - 1]
        BY <4>1
      <4>3. QED
        BY <1>2, <3>2, <4>2
    <3>3. QED
      BY <3>1, <3>2
  <2>2. QED
    BY <2>1
<1> HIDE DEF Eq
<1>6. Eq(F)
  BY <1>5, Zenon
<1> HIDE DEF F
<1>7. \A i \in 1 .. n : F[i] = IF i = 1 THEN s[i] ELSE F[i - 1] \o s[i]
  BY <1>6 DEF Eq
<1> DEFINE T == {k \in 1 .. n : F[k] # f[k]}
<1>8. T = {}
  <2> SUFFICES ASSUME T # {} PROVE FALSE
    OBVIOUS
  <2>1. T \in SUBSET Nat
    OBVIOUS
  <2>2. PICK k \in T : \A j \in T : k <= j
    <3> HIDE DEF T
    <3>1. QED
      BY <2>1, Least
  <2>3. k \in 1 .. n /\ F[k] # f[k]
    OBVIOUS
  <2>4. k # 1
    BY <1>4, <1>7, <2>3
  <2>5. k - 1 \in 1 .. n /\ k - 1 \notin T
    BY <1>3, <2>2, <2>3, <2>4
  <2>6. F[k - 1] = f[k - 1]
    BY <2>5
  <2>7. QED
    BY <1>2, <1>7, <2>3, <2>4, <2>6
<1>9. n \in 1 .. n
  BY <1>3
<1>10. QED
  BY <1>1, <1>8, <1>9 DEF f, n

\* The text of a file.
Glyphs == {Text[b] : b \in Nat \X Nat}

LEMMA TextIs ==
  ASSUME NEW i \in DOMAIN Dir
  PROVE  LET e == Dir[i]
             t == TextOf(e)
         IN /\ e.type \in 0 .. 2
            /\ t \in Seq(Glyphs) /\ Len(t) \in Nat
            /\ e.type # 2 => t = <<>> /\ Len(t) = 0
            /\ e.type = 2 => /\ e.inode \in DOMAIN Size /\ Len(t) = Size[e.inode]
                             /\ Content(e) = t
                             /\ \A k \in 1 .. Len(t) : t[k] = Text[ByteAt(e.inode, k - 1)]
<1> DEFINE e == Dir[i]
           t == TextOf(e)
           n == Size[e.inode]
           b == FileBytes(e.inode, n)
<1>1. e.type \in 0 .. 2
  BY PrintAssumption
<1>2. CASE e.type # 2
  <2>1. t = <<>>
    BY <1>2 DEF TextOf
  <2>2. <<>> \in Seq(Glyphs) /\ Len(<<>>) = 0
    OBVIOUS
  <2>3. QED
    BY <1>1, <1>2, <2>1, <2>2
<1>3. CASE e.type = 2
  <2>1. e.inode \in DOMAIN Size /\ n \in 0 .. MaxFileSize /\ MaxFileSize \in Nat
    BY <1>3, ImageAssumption, SizeFacts
  <2>2. t = Characters(b) /\ Content(e) = t
    BY <1>3 DEF TextOf, Content
  <2>3. n \in Nat /\ 0 + n <= MaxFileSize
    BY <2>1
  <2>4. Part(Bytes(e.inode, 0, n), e.inode, 0, n)
    BY <2>1, <2>3, BytesArePart
  <2>5. \A k \in 1 .. n : ByteAt(e.inode, k - 1) \in Nat \X Nat
    <3> DEFINE S == Nat \X Nat
               p == Bytes(e.inode, 0, n)
    <3>1. p \in Seq(S) /\ Len(p) = n /\ \A k \in 1 .. n : p[k] = ByteAt(e.inode, 0 + k - 1)
      BY <2>4 DEF Part
    <3> HIDE DEF S, p
    <3>2. \A k \in 1 .. n : p[k] \in S /\ 0 + k - 1 = k - 1
      BY <2>3, <3>1
    <3>3. QED
      BY <3>1, <3>2 DEF S
  <2>6. b = [k \in 1 .. n |-> ByteAt(e.inode, k - 1)]
    BY DEF FileBytes, ByteAt
  <2> DEFINE c(k) == Text[ByteAt(e.inode, k - 1)]
  <2>7. t = [k \in 1 .. n |-> c(k)]
    BY <2>2, <2>6 DEF Characters
  <2>8. \A k \in 1 .. n : c(k) \in Glyphs
    BY <2>5 DEF Glyphs
  <2> HIDE DEF t, n, b, c
  <2>9. t \in Seq(Glyphs) /\ Len(t) = n
    BY <2>3, <2>7, <2>8
  <2>10. \A k \in 1 .. n : t[k] = c(k)
    BY <2>7
  <2>11. QED
    BY <1>1, <1>3, <2>1, <2>2, <2>3, <2>9, <2>10 DEF c, n, t
<1>4. QED
  BY <1>2, <1>3

\* The entry of a name.
LEMMA FirstIs ==
  ASSUME NEW name, Entries(name) # {}
  PROVE  \E i \in DOMAIN Dir : FirstOf(name) = Dir[i] /\ Dir[i].name = name
<1> DEFINE E == Entries(name)
           c == CHOOSE i \in E : \A j \in E : i <= j
<1>1. E \in SUBSET Nat
  BY DirectoryFacts DEF Entries
<1>2. \E i \in E : \A j \in E : i <= j
  <2> HIDE DEF E
  <2>1. QED
    BY <1>1, Least DEF E
<1>3. c \in E
  BY <1>2, Zenon
<1>4. FirstOf(name) = Dir[c]
  BY DEF FirstOf
<1> HIDE DEF c
<1>5. QED
  BY <1>3, <1>4 DEF Entries

LEMMA Found ==
  ASSUME NEW name \in Seq(STRING)
  PROVE  /\ Entries(name) = {} => Len(name) = 0 \/ read_dentry_by_name(name) = NoEntry
         /\ Entries(name) # {} => /\ Len(name) # 0
                                  /\ read_dentry_by_name(name) = FirstOf(name)
                                  /\ FirstOf(name) # NoEntry /\ FirstOf(name).type \in 0 .. 2
<1>1. CASE name = <<>>
  <2>1. Entries(name) = {}
    <3>1. \A i \in DOMAIN Dir : Len(Dir[i].name) # 0
      BY DirectoryFacts
    <3>2. Len(name) = 0
      BY <1>1
    <3>3. QED
      BY <3>1, <3>2 DEF Entries
  <2>2. QED
    BY <1>1, <2>1
<1>2. CASE name # <<>>
  <2>1. read_dentry_by_name(name) = EntryOf(name) /\ Len(name) # 0
    BY <1>2, LookupIs
  <2>2. EntryOf(name) = IF Entries(name) = {} THEN NoEntry ELSE FirstOf(name)
    BY DEF EntryOf, Entries, FirstOf
  <2>3. ASSUME Entries(name) # {} PROVE FirstOf(name) # NoEntry /\ FirstOf(name).type \in 0 .. 2
    <3>1. PICK i \in DOMAIN Dir : FirstOf(name) = Dir[i]
      BY <2>3, FirstIs
    <3>2. Dir[i].type \in 0 .. 2 /\ NoEntry.type = -1
      BY TextIs DEF NoEntry, Fail
    <3>3. QED
      BY <3>1, <3>2
  <2>4. QED
    BY <2>1, <2>2, <2>3
<1>3. QED
  BY <1>1, <1>2

LEMMA TablesAre == TableOf(0) = "rtc" /\ TableOf(1) = "directory" /\ TableOf(2) = "file"
BY DEF TableOf

\* What open does: it fails, or there is a descriptor at the start of the entry.
LEMMA OpenGives ==
  ASSUME DescInv, NEW name \in Seq(STRING), open(Child, name)
  PROVE  LET r == res'[Child].ret
         IN /\ Entries(name) = {} => r = Fail
            /\ opened[Child] = {} /\ Entries(name) # {} => r # Fail
            /\ r # Fail => /\ Entries(name) # {}
                           /\ r \in Fds \ {0, 1} /\ ~fds[Child][r].inuse
                           /\ IsOn(fds'[Child][r], FirstOf(name)) /\ fds'[Child][r].pos = 0
            /\ \A g \in Fds : fds[Child][g].inuse => fds'[Child][g] = fds[Child][g]
<1>1. Child \in Procs /\ DOMAIN res = Procs /\ fds \in [Procs -> [Fds -> Descriptor]]
  BY Sizes DEF DescInv, DescriptorsOK
<1>2. Entries(name) # {} <=> Len(name) # 0 /\ read_dentry_by_name(name) # NoEntry
                             /\ read_dentry_by_name(name).type \in 0 .. 2
  BY Found
<1>3. CanOpen(Child, name) <=> Entries(name) # {} /\ Free(Child) # {}
  BY <1>2 DEF CanOpen
<1>4. CASE OpenRefused(Child, name)
  <2>1. res'[Child].ret = Fail /\ fds' = fds /\ Child \in alive
    BY <1>1, <1>4, Answered DEF OpenRefused, Answer
  <2>2. opened[Child] # {} \/ Entries(name) = {}
    <3> SUFFICES ASSUME opened[Child] = {}, Entries(name) # {} PROVE FALSE
      OBVIOUS
    <3>1. Free(Child) = {}
      BY <1>3, <1>4 DEF OpenRefused
    <3>2. 2 \in Fds /\ 2 \in FdStart .. NumFds-1
      BY PrintAssumption, DescriptorAssumption DEF Fds, FdStart
    <3>3. fds[Child][2].inuse
      BY <3>1, <3>2 DEF Free
    <3>4. 2 \in {0, 1}
      BY <2>1, <3>2, <3>3, NothingOpen
    <3>5. QED
      BY <3>4
  <2>3. QED
    BY <2>1, <2>2
<1>5. CASE Open(Child, name)
  <2> DEFINE e == read_dentry_by_name(name)
             f == LowestFree(Child)
             d == [ops |-> TableOf(e.type), inode |-> e.inode, pos |-> 0,
                   inuse |-> TRUE, ftype |-> e.type]
  <2>1. /\ CanOpen(Child, name)
        /\ fds' = [fds EXCEPT ![Child][f] = d]
        /\ res' = [res EXCEPT ![Child] = [ret |-> f, data |-> <<>>]]
    BY <1>5 DEF Open, SetFd, Return
  <2>2. Entries(name) # {} /\ Free(Child) # {} /\ e = FirstOf(name)
    BY <1>3, <2>1, Found
  <2>3. f \in Free(Child) /\ f \in Fds \ {0, 1}
    <3>1. Free(Child) \in SUBSET Nat
      BY DescriptorAssumption DEF Free, FdStart
    <3>2. \E x \in Free(Child) : \A y \in Free(Child) : x <= y
      BY <2>2, <3>1, Least
    <3>3. f \in Free(Child)
      BY <3>2 DEF LowestFree
    <3>4. QED
      BY <2>2, <3>3, FreeOne
  <2>4. ~fds[Child][f].inuse /\ f # Fail
    BY <2>3, DescriptorAssumption DEF Free, Fds, Fail
  <2>5. PICK i \in DOMAIN Dir : e = Dir[i]
    BY <2>2, FirstIs
  <2>6. e.type \in 0 .. 2 /\ Len(TextOf(e)) \in Nat /\ Len(Dir) \in Nat
    BY <2>5, TextIs, DirectoryFacts
  <2> HIDE DEF e, f
  <2>7. IsOn(d, e) /\ d.pos = 0
    BY <2>6 DEF IsOn
  <2>8. res'[Child].ret = f
    BY <1>1, <2>1
  <2> HIDE DEF d
  <2>9. fds'[Child][f] = d /\ \A g \in Fds : g # f => fds'[Child][g] = fds[Child][g]
    BY <1>1, <2>1, <2>3
  <2>10. QED
    BY <2>2, <2>3, <2>4, <2>7, <2>8, <2>9
<1>6. QED
  BY <1>4, <1>5 DEF open

\* What a call returns and where it leaves the descriptor it is about.
Moves(f, by, t) ==
  /\ res'[Child].ret = Len(t) /\ res'[Child].data = t
  /\ fds'[Child][f] = [fds[Child][f] EXCEPT !.pos = @ + by]
  /\ \A g \in Fds \ {f} : fds'[Child][g] = fds[Child][g]

LEMMA DeliverMoves ==
  ASSUME DescInv, NEW f \in Fds, NEW by \in Nat, NEW t, NEW history,
         Deliver(Child, f, by, Len(t), t, history)
  PROVE  Moves(f, by, t)
<1>1. Child \in Procs /\ DOMAIN res = Procs /\ fds \in [Procs -> [Fds -> Descriptor]]
  BY Sizes DEF DescInv, DescriptorsOK
<1> DEFINE d == [fds[Child][f] EXCEPT !.pos = @ + by]
<1>2. fds' = [fds EXCEPT ![Child][f] = d] /\ res' = [res EXCEPT ![Child] = [ret |-> Len(t), data |-> t]]
  BY DEF Deliver, SetFd, Return
<1>3. res'[Child].ret = Len(t) /\ res'[Child].data = t
  BY <1>1, <1>2
<1> HIDE DEF d
<1>4. fds'[Child][f] = d /\ \A g \in Fds \ {f} : fds'[Child][g] = fds[Child][g]
  BY <1>1, <1>2
<1>5. QED
  BY <1>3, <1>4 DEF Moves, d

\* A call that returns 0 bytes and leaves the descriptors.
LEMMA ZeroMoves ==
  ASSUME DescInv, NEW f \in Fds, fds' = fds, res' = [res EXCEPT ![Child] = [ret |-> 0, data |-> <<>>]]
  PROVE  Moves(f, 0, <<>>)
<1>1. Child \in Procs /\ DOMAIN res = Procs /\ fds[Child][f] \in Descriptor
  BY Sizes DEF DescInv, DescriptorsOK
<1>2. [fds[Child][f] EXCEPT !.pos = @ + 0] = fds[Child][f]
  BY <1>1 DEF Descriptor
<1>3. res'[Child].ret = 0 /\ res'[Child].data = <<>> /\ Len(<<>>) = 0
  BY <1>1
<1>4. QED
  BY <1>2, <1>3 DEF Moves

\* A read of n bytes of a text at place k gives these.
Chunk(e, k, n, t) ==
  /\ t \in Seq(Glyphs)
  /\ Len(t) = IF n < Len(TextOf(e)) - k THEN n ELSE Len(TextOf(e)) - k
  /\ \A j \in 1 .. Len(t) : t[j] = TextOf(e)[k + j]

LEMMA FileReads ==
  ASSUME DescInv, NEW i \in DOMAIN Dir, Dir[i].type = 2, NEW f \in Fds \ {0, 1},
         IsOn(fds[Child][f], Dir[i]), NEW n \in Nat \ {0}, Int32(n), FsRead(Child, f, n)
  PROVE  \E t : Chunk(Dir[i], Pos(f), n, t) /\ Moves(f, Len(t), t)
<1> DEFINE e == Dir[i]
           d == fds[Child][f]
           p == d.pos
           N == Size[e.inode]
           T == TextOf(e)
<1>1. /\ e.inode \in DOMAIN Size /\ Len(T) = N /\ N \in Nat /\ N \in 0 .. MaxFileSize
      /\ MaxFileSize \in Nat
      /\ \A k \in 1 .. N : T[k] = Text[ByteAt(e.inode, k - 1)]
  BY TextIs, SizeFacts
<1>2. d.inode = e.inode /\ d.ftype = 2 /\ p \in 0 .. N
  BY <1>1 DEF IsOn
<1>3. get_filesize(d.inode) = N
  BY <1>1, <1>2, SizeFacts DEF get_filesize
<1>4. CASE p >= N
  <2>1. Answer(Child, 0)
    BY <1>2, <1>3, <1>4 DEF FsRead
  <2>2. Moves(f, 0, <<>>)
    BY <2>1, ZeroMoves DEF Answer, Return
  <2>3. <<>> \in Seq(Glyphs) /\ Len(<<>>) = 0
    OBVIOUS
  <2>4. Len(T) - p = 0 /\ ~(n < 0)
    BY <1>1, <1>2, <1>4
  <2>5. Chunk(e, Pos(f), n, <<>>)
    BY <2>3, <2>4 DEF Chunk, Pos
  <2>6. QED
    BY <2>2, <2>3, <2>5
<1>5. CASE p < N
  <2> DEFINE by == Available(d.inode, p, n)
             more == Bytes(d.inode, p, by)
             t == Characters(more)
  <2>0. n % Word = n
    BY AsUnsigned
  <2>1. read_data(d.inode, p, n % Word) = [ret |-> by, bytes |-> more]
    BY <1>1, <1>2, <1>5, <2>0, ReadDataIsRight
  <2>2. ~(p >= N) /\ n # 0
    BY <1>2, <1>1, <1>5
  <2>3. Deliver(Child, f, by, by, t, got[Child][f] \o more)
    BY <1>2, <1>3, <2>1, <2>2 DEF FsRead, DeliverBytes
  <2>4. /\ by = (IF n < Len(T) - p THEN n ELSE Len(T) - p)
        /\ by \in Nat /\ p + by <= N
    BY <1>1, <1>2, <1>5 DEF Available
  <2> HIDE DEF by, T, N, e, d, p
  <2>5. t = [j \in 1 .. by |-> Text[ByteAt(e.inode, p + j - 1)]]
    BY <1>2, <2>4 DEF Characters, Bytes
  <2>6. ASSUME NEW j \in 1 .. by PROVE T[p + j] = Text[ByteAt(e.inode, p + j - 1)]
    <3> DEFINE k == p + j
    <3>1. k \in 1 .. N /\ k - 1 = p + j - 1
      BY <1>1, <1>2, <2>4
    <3> HIDE DEF k
    <3>2. T[k] = Text[ByteAt(e.inode, k - 1)]
      BY <1>1, <3>1
    <3>3. QED
      BY <3>1, <3>2 DEF k
  <2>7. T \in Seq(Glyphs)
    BY TextIs DEF T, e
  <2> HIDE DEF t
  <2>8. \A j \in 1 .. by : t[j] = T[p + j] /\ t[j] \in Glyphs
    <3> TAKE j \in 1 .. by
    <3>1. p + j \in 1 .. Len(T)
      BY <1>1, <1>2, <2>4
    <3>2. T[p + j] \in Glyphs
      BY <2>7, <3>1
    <3>3. QED
      BY <2>5, <2>6, <3>2
  <2>9. t \in Seq(Glyphs) /\ Len(t) = by
    <3>1. t = [j \in 1 .. by |-> t[j]]
      BY <2>5, Zenon
    <3>2. QED
      BY <2>4, <2>8, <3>1
  <2>10. Moves(f, by, t)
    BY <2>3, <2>4, <2>9, DeliverMoves
  <2>11. Chunk(e, Pos(f), n, t)
    BY <2>4, <2>8, <2>9 DEF Chunk, Pos, T, e, d, p
  <2>12. QED
    BY <2>9, <2>10, <2>11 DEF e
<1>6. QED
  BY <1>1, <1>2, <1>4, <1>5

LEMMA DirectoryReads ==
  ASSUME DescInv, NEW f \in Fds \ {0, 1}, IsOn(fds[Child][f], Dir[1]),
         NEW n \in Nat, n >= NameSize, DirRead(Child, f, n)
  PROVE  IF Pos(f) = Len(Dir) THEN Moves(f, 0, <<>>)
         ELSE Pos(f) + 1 \in DOMAIN Dir /\ Moves(f, 1, Dir[Pos(f) + 1].name)
<1> DEFINE p == Pos(f)
           name == Dir[p + 1].name
<1>1. /\ p \in 0 .. Len(Dir) /\ Len(Dir) \in 1 .. MaxEntries + 1 /\ MaxEntries \in Nat
      /\ DOMAIN Dir = 1 .. Len(Dir) /\ NameSize \in Nat
  BY DirectoryFacts DEF IsOn, Pos
<1>2. CASE p = Len(Dir)
  <2>1. read_dentry_by_index(p) = NoEntry
    <3> HIDE DEF p
    <3>1. p >= Len(Dir)
      BY <1>1, <1>2
    <3>2. QED
      BY <3>1 DEF read_dentry_by_index
  <2>2. Answer(Child, 0)
    BY <2>1 DEF DirRead, Pos
  <2>3. QED
    BY <1>2, <2>2, ZeroMoves DEF Answer, Return
<1>3. CASE p # Len(Dir)
  <2>1. p + 1 \in DOMAIN Dir /\ ~(p > MaxEntries \/ p >= Len(Dir))
    <3> DEFINE m == Len(Dir)
    <3> HIDE DEF p, m
    <3>1. p \in 0 .. m /\ p # m /\ m \in 1 .. MaxEntries + 1 /\ DOMAIN Dir = 1 .. m /\ MaxEntries \in Nat
      BY <1>1, <1>3 DEF m
    <3>2. p + 1 \in 1 .. m /\ ~(p > MaxEntries \/ p >= m)
      BY <3>1
    <3>3. QED
      BY <3>1, <3>2 DEF m
  <2>2. read_dentry_by_index(p) = [Dir[p + 1] EXCEPT !.type = 0]
    BY <2>1 DEF read_dentry_by_index
  <2>3. Dir[p + 1] = [name |-> name, type |-> Dir[p + 1].type, inode |-> Dir[p + 1].inode]
        /\ name \in Seq(STRING) /\ Len(name) \in 1 .. NameSize
    BY <2>1, DirectoryFacts
  <2> DEFINE e == read_dentry_by_index(p)
  <2>4. e.name = name /\ e.type = 0
    BY <2>2, <2>3
  <2>5. e # NoEntry
    <3>1. NoEntry.type = -1
      BY DEF NoEntry, Fail
    <3>2. QED
      BY <2>4, <3>1
  <2> DEFINE k == IF n < Len(name) THEN n ELSE Len(name)
  <2>6. PICK history : Deliver(Child, f, 1, k, SubSeq(name, 1, k), history)
    BY <2>4, <2>5 DEF DirRead, Pos
  <2>7. k = Len(name)
    <3> HIDE DEF name
    <3>1. QED
      BY <1>1, <2>3
  <2> HIDE DEF name, k
  <2>8. SubSeq(name, 1, k) = name
    BY <2>3, <2>7
  <2>9. QED
    BY <1>3, <2>1, <2>6, <2>7, <2>8, DeliverMoves DEF name
<1>4. QED
  BY <1>2, <1>3

\* What read does on an open entry: a name of the directory, or some of the text.
LEMMA ReadGives ==
  ASSUME DescInv, NEW i \in DOMAIN Dir, NEW f \in Fds \ {0, 1}, IsOn(fds[Child][f], Dir[i]),
         NEW n \in Nat \ {0}, Int32(n), n >= NameSize \/ Dir[i].type # 1, read(Child, f, n)
  PROVE  IF Dir[i].type # 1
         THEN \E t : Chunk(Dir[i], Pos(f), n, t) /\ Moves(f, Len(t), t)
         ELSE IF Pos(f) = Len(Dir) THEN Moves(f, 0, <<>>)
         ELSE Pos(f) + 1 \in DOMAIN Dir /\ Moves(f, 1, Dir[Pos(f) + 1].name)
<1> DEFINE e == Dir[i]
<1>1. e.type \in 0 .. 2 /\ (e.type = 1 => i = 1) /\ fds[Child][f].inuse
      /\ fds[Child][f].ops = TableOf(e.type)
  BY TextIs, PrintAssumption DEF IsOn
<1>2. Read(Child, f, n)
  BY <1>1 DEF read, ReadRefused, Readable
<1>3. CASE e.type = 2
  BY <1>1, <1>2, <1>3, TablesAre, FileReads DEF Read
<1>4. CASE e.type = 1
  <2>1. DirRead(Child, f, n)
    BY <1>1, <1>2, <1>4, TablesAre DEF Read
  <2>2. IF Pos(f) = Len(Dir) THEN Moves(f, 0, <<>>)
        ELSE Pos(f) + 1 \in DOMAIN Dir /\ Moves(f, 1, Dir[Pos(f) + 1].name)
    BY <1>1, <1>4, <2>1, DirectoryReads
  <2>3. QED
    BY <1>4, <2>2
<1>5. CASE e.type = 0
  <2>1. OtherRead(Child, f)
    BY <1>1, <1>2, <1>5, TablesAre DEF Read
  <2>2. fds' = fds /\ res' = [res EXCEPT ![Child] = [ret |-> 0, data |-> <<>>]]
    BY <1>1, <1>5, <2>1, TablesAre DEF OtherRead, Return
  <2>3. Moves(f, 0, <<>>)
    BY <2>2, ZeroMoves
  <2>4. Len(TextOf(e)) = 0 /\ <<>> \in Seq(Glyphs) /\ Len(<<>>) = 0
    BY <1>5, TextIs
  <2>5. Pos(f) = 0
    BY <1>5, <2>4 DEF IsOn, Pos
  <2>6. Chunk(e, Pos(f), n, <<>>)
    <3>1. ~(n < 0 - 0) /\ 0 - 0 = 0
      OBVIOUS
    <3>2. QED
      BY <2>4, <2>5, <3>1 DEF Chunk
  <2>7. QED
    BY <1>5, <2>3, <2>4, <2>6
<1>6. QED
  BY <1>1, <1>3, <1>4, <1>5

\* The descriptor after the call.
LEMMA StaysOn ==
  ASSUME DescInv, NEW f \in Fds, NEW e, IsOn(fds[Child][f], e), NEW by \in Nat, NEW t, Moves(f, by, t),
         Pos(f) + by <= IF e.type = 1 THEN Len(Dir) ELSE Len(TextOf(e)),
         Len(TextOf(e)) \in Nat
  PROVE  IsOn(fds'[Child][f], e) /\ fds'[Child][f].pos = Pos(f) + by
<1>1. fds[Child][f] \in Descriptor
  BY Sizes DEF DescInv, DescriptorsOK
<1> DEFINE d == fds[Child][f]
           p == d.pos
           x == fds'[Child][f]
           m == IF e.type = 1 THEN Len(Dir) ELSE Len(TextOf(e))
<1>2. x = [d EXCEPT !.pos = @ + by]
  BY DEF Moves
<1>3. /\ x.pos = p + by /\ x.inode = d.inode /\ x.inuse = d.inuse /\ x.ops = d.ops
      /\ x.ftype = d.ftype /\ p \in Nat
  BY <1>1, <1>2 DEF Descriptor
<1>4. m \in Nat /\ p + by <= m
  BY DirectoryFacts DEF Pos
<1> HIDE DEF p, m, x, d
<1>5. p + by \in 0 .. m
  BY <1>3, <1>4
<1>6. QED
  BY <1>3, <1>5 DEF IsOn, d, m, x, p, Pos

(***************************************************************************)
(* The arguments: what execute kept is what getargs delivers.              *)
(***************************************************************************)
LEMMA UntilFirst ==
  ASSUME NEW S, NEW s \in Seq(S), NEW stops, NEW n \in 0 .. Len(s) - 1,
         \A j \in 1 .. n : s[j] \notin stops, s[n + 1] \in stops
  PROVE  Until(s, stops) = n
<1> DEFINE ends == {i \in DOMAIN s : s[i] \in stops} \cup {Len(s) + 1}
<1>1. n + 1 \in ends /\ \A j \in ends : j \in Int /\ n + 1 <= j
  OBVIOUS
<1> HIDE DEF ends
<1>2. \A i \in ends : (\A j \in ends : i <= j) => i = n + 1
  BY <1>1
<1>3. (CHOOSE i \in ends : \A j \in ends : i <= j) = n + 1
  BY <1>1, <1>2, Zenon
<1>4. QED
  BY <1>3 DEF Until, ends

LEMMA UntilIn ==
  ASSUME NEW s \in Seq(STRING), NEW stops
  PROVE  Until(s, stops) \in 0 .. Len(s)
<1> DEFINE ends == {i \in DOMAIN s : s[i] \in stops} \cup {Len(s) + 1}
           c == CHOOSE i \in ends : \A j \in ends : i <= j
<1>1. ends \in SUBSET Nat /\ ends # {} /\ ends \subseteq 1 .. Len(s) + 1
  OBVIOUS
<1>2. Until(s, stops) = c - 1
  BY DEF Until
<1> HIDE DEF ends
<1>3. \E i \in ends : \A j \in ends : i <= j
  BY <1>1, Least
<1>4. c \in ends
  BY <1>3, Zenon
<1> HIDE DEF c
<1>5. c \in 1 .. Len(s) + 1
  BY <1>1, <1>4
<1>6. QED
  BY <1>2, <1>5

LEMMA ArgumentIs ==
  ASSUME ArgInv, NEW n \in Nat, ~ArgsFail(n)
  PROVE  Argument(n) = pcb.args
<1> DEFINE a == pcb.args
           b == Padded(a, n)
           m == Len(a)
           S == STRING \cup {Nul}
<1>1. /\ a \in Seq(STRING) /\ m \in Nat /\ m <= pcb.size /\ pcb.size \in Nat
      /\ DOMAIN a = 1 .. m /\ \A i \in 1 .. m : a[i] # Nul
  BY DEF ArgInv
<1>2. getargs(pcb, n).bytes = b /\ ~(n - 1 < pcb.size)
  <2>1. ~(n < 0 \/ n - 1 < pcb.size)
    <3> SUFFICES ASSUME n < 0 \/ n - 1 < pcb.size PROVE FALSE
      OBVIOUS
    <3>1. getargs(pcb, n).ret = Fail
      BY DEF getargs
    <3>2. QED
      BY <3>1 DEF ArgsFail, Fail
  <2>2. QED
    BY <2>1 DEF getargs
<1>3. m \in 0 .. n - 1
  BY <1>1, <1>2
<1> HIDE DEF a, m
<1>4. \A i \in 1 .. n : b[i] = (IF i \in 1 .. m THEN a[i] ELSE Nul) /\ b[i] \in S
  <2> TAKE i \in 1 .. n
  <2>1. b[i] = IF i \in 1 .. m THEN a[i] ELSE Nul
    BY <1>1 DEF Padded
  <2>2. i \in 1 .. m => a[i] \in STRING
    BY <1>1
  <2>3. QED
    BY <2>1, <2>2
<1>5. b = [i \in 1 .. n |-> b[i]]
  BY DEF Padded
<1> HIDE DEF b, S
<1>6. b \in Seq(S) /\ Len(b) = n
  BY <1>4, <1>5
<1>7. Until(b, {Nul}) = m
  <2>1. m + 1 \in 1 .. n /\ m + 1 \notin 1 .. m /\ \A j \in 1 .. m : j \in 1 .. n
    BY <1>1, <1>3
  <2>2. b[m + 1] \in {Nul} /\ \A j \in 1 .. m : b[j] \notin {Nul}
    BY <1>1, <1>4, <2>1
  <2>3. QED
    BY <1>3, <1>6, <2>2, UntilFirst
<1> DEFINE c == SubSeq(b, 1, m)
<1>8. c = [i \in 1 .. m |-> b[i]]
  BY <1>1, <1>3, <1>6
<1>9. a = [i \in 1 .. m |-> a[i]]
  BY <1>1 DEF m
<1>10. \A i \in 1 .. m : b[i] = a[i]
  BY <1>1, <1>3, <1>4
<1>11. c = a
  BY <1>8, <1>9, <1>10
<1>12. QED
  BY <1>2, <1>7, <1>11 DEF Argument, a, b

LEMMA ArgsAreKept ==
  ASSUME NEW c \in Commands
  PROVE  LET p == Parse(c)
         IN /\ p.args \in Seq(STRING) /\ p.size \in Nat /\ Len(p.args) <= p.size
            /\ \A i \in DOMAIN p.args : p.args[i] # Nul
<1>1. c \in Seq(STRING) /\ \A i \in DOMAIN c : c[i] # Nul
  BY PrintAssumption
<1>2. CASE TooLong(c)
  BY <1>2 DEF Parse
<1>3. CASE ~TooLong(c)
  <2> DEFINE s == Saved(c)
             u == Until(c, {End})
             k == ArgIdx(c)
             t == Trimmed(c)
             w == FirstWord(c)
  <2>1. Parse(c).args = SubSeq(s, k + 1, Len(s)) /\ Parse(c).size = Len(s)
    BY <1>3 DEF Parse, Args
  <2>2. u \in 0 .. Len(c)
    BY <1>1, UntilIn
  <2>3. s = SubSeq(c, 1, u)
    BY DEF Saved
  <2> HIDE DEF u, s
  <2>4. s \in Seq(STRING) /\ Len(s) = u /\ \A i \in 1 .. u : s[i] = c[i]
    BY <1>1, <2>2, <2>3
  <2>5. t \in Seq(STRING)
    <3> DEFINE rest == {i \in DOMAIN c : c[i] # Space}
               g == CHOOSE i \in rest : \A j \in rest : i <= j
    <3>1. CASE rest = {}
      BY <3>1 DEF Trimmed
    <3>2. CASE rest # {}
      <4>1. rest \in SUBSET Nat /\ rest \subseteq 1 .. Len(c)
        BY <1>1
      <4>2. t = SubSeq(c, g, Len(c))
        BY <3>2 DEF Trimmed
      <4> HIDE DEF rest
      <4>3. \E i \in rest : \A j \in rest : i <= j
        BY <3>2, <4>1, Least
      <4>4. g \in rest
        BY <4>3, Zenon
      <4> HIDE DEF g
      <4>5. g \in 1 .. Len(c)
        BY <4>1, <4>4
      <4>6. QED
        BY <1>1, <4>2, <4>5
    <3>3. QED
      BY <3>1, <3>2
  <2>6. w \in Seq(STRING) /\ Len(w) \in Nat
    <3> DEFINE v == Until(t, {Space, End})
    <3>1. v \in 0 .. Len(t)
      BY <2>5, UntilIn
    <3>2. w = SubSeq(t, 1, v)
      BY DEF FirstWord
    <3> HIDE DEF v, t
    <3>3. QED
      BY <2>5, <3>1, <3>2
  <2> HIDE DEF w
  <2>7. k \in Nat /\ k >= 1
    <3>1. CASE Len(w) = MaxBuf
      <4>1. MaxBuf \in Nat \ {0}
        BY BufferAssumption
      <4>2. Len(SubSeq(w, 1, Len(w) - 1)) \in Nat
        BY <2>6, <3>1, <4>1
      <4>3. k = Len(SubSeq(w, 1, Len(w) - 1)) + 1
        BY <3>1 DEF ArgIdx, Name, Front, w
      <4>4. QED
        BY <4>2, <4>3
    <3>2. CASE Len(w) # MaxBuf
      <4>1. k = Len(w) + 1
        BY <3>2 DEF ArgIdx, Name, w
      <4>2. QED
        BY <2>6, <4>1
    <3>3. QED
      BY <3>1, <3>2
  <2> HIDE DEF k
  <2> DEFINE r == SubSeq(s, k + 1, Len(s))
  <2>8. CASE k + 1 > Len(s)
    <3>1. r = <<>> /\ Len(<<>>) = 0 /\ DOMAIN <<>> = {} /\ <<>> \in Seq(STRING)
      BY <2>4, <2>7, <2>8
    <3>2. Parse(c).args = <<>>
      BY <2>1, <3>1
    <3>3. Parse(c).size \in Nat /\ 0 <= Parse(c).size
      BY <2>1, <2>2, <2>4
    <3>4. QED
      BY <3>1, <3>2, <3>3
  <2>9. CASE k + 1 <= Len(s)
    <3>1. k + 1 \in 1 .. Len(s) + 1 /\ Len(s) \in (k + 1) - 1 .. Len(s) /\ Len(s) - (k + 1) + 1 = Len(s) - k
      BY <2>4, <2>7, <2>9
    <3>2. /\ r \in Seq(STRING) /\ Len(r) = Len(s) - k
          /\ \A j \in 1 .. Len(s) - k : r[j] = s[(k + 1) + j - 1]
      BY <2>4, <3>1, SubSeqIs
    <3> HIDE DEF r
    <3>3. ASSUME NEW j \in DOMAIN r PROVE r[j] # Nul
      <4>1. j \in 1 .. Len(s) - k
        BY <3>2
      <4>2. (k + 1) + j - 1 \in 1 .. u
        BY <2>2, <2>4, <2>7, <4>1
      <4>3. (k + 1) + j - 1 \in DOMAIN c
        BY <1>1, <2>2, <4>2
      <4>4. QED
        BY <1>1, <2>4, <3>2, <4>1, <4>2, <4>3
    <3>4. Len(r) <= Len(s) /\ Len(s) \in Nat
      BY <2>4, <2>7, <2>9, <3>2
    <3>5. QED
      BY <2>1, <3>2, <3>3, <3>4 DEF r
  <2>10. QED
    BY <2>4, <2>7, <2>8, <2>9
<1>4. QED
  BY <1>2, <1>3

LEMMA ArgNext == ArgInv /\ [Next]_allvars => ArgInv'
<1> SUFFICES ASSUME ArgInv, [Next]_allvars PROVE ArgInv'
  OBVIOUS
<1>1. CASE ShellExecute
  <2>1. PICK c \in Commands : pcb' = [args |-> Parse(c).args, size |-> Parse(c).size]
    BY <1>1 DEF ShellExecute
  <2>2. pcb'.args = Parse(c).args /\ pcb'.size = Parse(c).size
    BY <2>1
  <2>3. QED
    BY <2>2, ArgsAreKept DEF ArgInv
<1>2. CASE UNCHANGED pcb
  BY <1>2 DEF ArgInv
<1>3. ShellExecute \/ UNCHANGED pcb
  BY DEF Next, allvars, session, Boot, OtherBase, Shell, ShellRead, ShellEmpty, ShellExit, ShellUnknown,
         Cat, CatOpen, LsOpen, ReadFirst, PrintChunk, ReadMore, PrinterExits, Grep, GrepOpen, GrepFirst,
         GrepSkip, GrepNext, GrepFile, GrepRead, GrepText, GrepCarry, GrepLine, GrepClose, GrepExits,
         Syserr, SyserrAsk, SyserrSelect, SyserrCall, SyserrVerdict, SyserrExits, OtherCall, Leave,
         CallThen, Exit
<1>4. QED
  BY <1>1, <1>2, <1>3

(***************************************************************************)
(* cat and ls.                                                             *)
(***************************************************************************)
LEMMA NamesAre ==
  /\ Len(DirNames) = Len(Dir) /\ Len(Dir) \in Nat \ {0} /\ DOMAIN Dir = 1 .. Len(Dir)
  /\ \A i \in 1 .. Len(Dir) : DirNames[i] = Dir[i].name /\ Dir[i].name \in Seq(STRING)
                              /\ Len(Dir[i].name) \in 1 .. NameSize
<1>1. /\ Len(Dir) \in Nat \ {0} /\ DOMAIN Dir = 1 .. Len(Dir)
      /\ \A i \in 1 .. Len(Dir) : Dir[i].name \in Seq(STRING) /\ Len(Dir[i].name) \in 1 .. NameSize
  BY DirectoryFacts
<1> DEFINE n == Len(Dir)
<1>2. DirNames = [i \in 1 .. n |-> Dir[i].name]
  BY <1>1 DEF DirNames
<1> HIDE DEF n
<1>3. Len(DirNames) = n /\ \A i \in 1 .. n : DirNames[i] = Dir[i].name
  <2>1. n \in Nat
    BY <1>1 DEF n
  <2>2. QED
    BY <1>2, <2>1
<1>4. QED
  BY <1>1, <1>3 DEF n

\* All that is printed of an entry.
Whole(p, a) ==
  IF p = "ls" THEN [i \in DOMAIN Dir |-> Append(Dir[i].name, End)] ELSE Content(FirstOf(a))

LEMMA LsReads ==
  ASSUME DescInv, NEW f \in Fds \ {0, 1}, NEW o, IsShown(fds[Child][f], "ls", <<>>, o),
         read(Child, f, NameBuf)
  PROVE  LET r == res'[Child] IN
         /\ r.ret = 0 => o = Whole("ls", <<>>)
         /\ r.ret # 0 => IsShown(fds'[Child][f], "ls", <<>>, o \o <<Append(r.data, End)>>)
<1> DEFINE d == fds[Child][f]
           p == d.pos
           N == Len(Dir)
           e(i) == Append(Dir[i].name, End)
<1>1. /\ IsOn(d, Dir[1]) /\ o = [i \in 1 .. p |-> e(i)] /\ p \in 0 .. N
  BY DirectoryFacts DEF IsShown, IsOn
<1>2. 1 \in DOMAIN Dir /\ Dir[1].type = 1 /\ NameBuf \in Nat \ {0} /\ NameBuf >= NameSize
  BY DirectoryFacts, ProgramsAssumption
<1>3. IF p = N THEN Moves(f, 0, <<>>) ELSE p + 1 \in DOMAIN Dir /\ Moves(f, 1, Dir[p + 1].name)
  BY <1>1, <1>2, Sizes, ReadGives DEF Pos
<1>4. CASE p = N
  <2>1. res'[Child].ret = 0
    BY <1>3, <1>4 DEF Moves
  <2>2. o = Whole("ls", <<>>)
    BY <1>1, <1>4, NamesAre DEF Whole
  <2>3. QED
    BY <2>1, <2>2
<1>5. CASE p # N
  <2> DEFINE x == Dir[p + 1].name
             q == fds'[Child][f]
  <2>1. p + 1 \in DOMAIN Dir /\ Moves(f, 1, x) /\ res'[Child].data = x /\ res'[Child].ret = Len(x)
    BY <1>3, <1>5 DEF Moves
  <2>2. p + 1 <= N /\ N \in Nat /\ p \in Nat
    <3> HIDE DEF p, N
    <3>1. N \in Nat
      BY NamesAre DEF N
    <3>2. QED
      BY <1>1, <1>5, <3>1
  <2>3. IsOn(q, Dir[1]) /\ q.pos = p + 1
    <3>1. Len(TextOf(Dir[1])) \in Nat
      BY <1>2, TextIs
    <3>2. Pos(f) + 1 <= IF Dir[1].type = 1 THEN Len(Dir) ELSE Len(TextOf(Dir[1]))
      BY <1>2, <2>2 DEF Pos
    <3>3. QED
      BY <1>1, <2>1, <3>1, <3>2, StaysOn DEF Pos
  <2>4. o \o <<e(p + 1)>> = [i \in 1 .. p + 1 |-> e(i)]
    <3> DEFINE S == {e(i) : i \in 1 .. p + 1}
    <3> HIDE DEF e, p
    <3>1. o \in Seq(S) /\ Len(o) = p /\ e(p + 1) \in S /\ \A i \in 1 .. p : o[i] = e(i)
      <4>1. \A i \in 1 .. p : e(i) \in S
        BY <2>2
      <4>2. e(p + 1) \in S
        BY <2>2
      <4> HIDE DEF S
      <4>3. QED
        BY <1>1, <2>2, <4>1, <4>2
    <3> HIDE DEF S
    <3> DEFINE y == o \o <<e(p + 1)>>
    <3>2. y \in Seq(S) /\ Len(y) = p + 1 /\ \A i \in 1 .. p + 1 : y[i] = IF i <= p THEN o[i] ELSE e(p + 1)
      BY <2>2, <3>1
    <3> HIDE DEF y
    <3>3. \A i \in 1 .. p + 1 : y[i] = e(i)
      BY <2>2, <3>1, <3>2
    <3>4. y = [i \in 1 .. p + 1 |-> y[i]]
      BY <2>2, <3>2
    <3>5. y = [i \in 1 .. p + 1 |-> e(i)]
      BY <3>3, <3>4
    <3>6. QED
      BY <3>5 DEF y
  <2>5. res'[Child].ret # 0
    BY <2>1, NamesAre, DirectoryFacts
  <2>6. IsShown(q, "ls", <<>>, o \o <<Append(x, End)>>)
    BY <2>3, <2>4 DEF IsShown
  <2>7. QED
    BY <2>1, <2>5, <2>6
<1>6. QED
  BY <1>4, <1>5

LEMMA CatReads ==
  ASSUME DescInv, NEW f \in Fds \ {0, 1}, NEW a, NEW o, IsShown(fds[Child][f], "cat", a, o),
         read(Child, f, CatSize)
  PROVE  LET r == res'[Child] IN
         /\ r.ret = 0 => o = Whole("cat", a)
         /\ r.ret # 0 => IsShown(fds'[Child][f], "cat", a, o \o r.data)
<1> DEFINE d == fds[Child][f]
           q == fds'[Child][f]
           e == FirstOf(a)
           p == d.pos
           N == Len(Dir)
           T == TextOf(e)
<1>1. PICK i \in DOMAIN Dir : e = Dir[i]
  BY FirstIs DEF IsShown
<1>2. Entries(a) # {} /\ IsOn(d, e) /\ o = IF e.type = 1 THEN Sums(DirNames)[p] ELSE SubSeq(T, 1, p)
  BY DEF IsShown
<1>3. CatSize \in Nat \ {0} /\ CatSize >= NameSize
  BY ProgramsAssumption, BufferAssumption, DirectoryFacts
<1>4. T \in Seq(Glyphs) /\ Len(T) \in Nat /\ N \in Nat \ {0} /\ DOMAIN Dir = 1 .. N
  BY <1>1, TextIs, NamesAre
<1>5. CASE e.type = 1
  <2>1. p \in 0 .. N /\ o = Sums(DirNames)[p]
    BY <1>2, <1>5 DEF IsOn
  <2>2. IF p = N THEN Moves(f, 0, <<>>) ELSE p + 1 \in DOMAIN Dir /\ Moves(f, 1, Dir[p + 1].name)
    BY <1>1, <1>2, <1>3, <1>5, Sizes, ReadGives DEF Pos
  <2>3. Joins(Sums(DirNames), DirNames, N)
    BY <1>4, NamesAre, SumsAre
  <2>4. CASE p = N
    <3>1. 1 \in 1 .. N
      BY <1>4
    <3>2. DirNames[1] \in Seq(STRING) /\ Len(DirNames) = N
      BY <3>1, NamesAre
    <3>3. FlattenSeq(DirNames) = Sums(DirNames)[N]
      BY <1>4, <3>2, FlattenIs
    <3>4. Content(e) = FlattenSeq(DirNames)
      BY <1>5 DEF Content, DirNames
    <3>5. res'[Child].ret = 0
      BY <2>2, <2>4 DEF Moves
    <3>6. QED
      BY <2>1, <2>4, <3>3, <3>4, <3>5 DEF Whole
  <2>5. CASE p # N
    <3> DEFINE x == Dir[p + 1].name
    <3>1. p + 1 \in DOMAIN Dir /\ Moves(f, 1, x) /\ res'[Child].data = x /\ res'[Child].ret = Len(x)
      BY <2>2, <2>5 DEF Moves
    <3>2. p + 1 \in 1 .. N /\ p + 1 <= N /\ (p + 1) - 1 = p
      <4> HIDE DEF p, N
      <4>1. QED
        BY <1>4, <2>1, <2>5
    <3>3. IsOn(q, e) /\ q.pos = p + 1
      <4>1. Pos(f) + 1 <= IF e.type = 1 THEN Len(Dir) ELSE Len(TextOf(e))
        BY <1>5, <3>2 DEF Pos
      <4>2. QED
        BY <1>2, <1>4, <3>1, <4>1, StaysOn DEF Pos
    <3>4. Sums(DirNames)[p + 1] = o \o x
      <4>1. Sums(DirNames)[p + 1] = Sums(DirNames)[(p + 1) - 1] \o DirNames[p + 1]
        BY <2>3, <3>2 DEF Joins
      <4>2. QED
        BY <2>1, <3>2, <4>1, NamesAre
    <3>5. res'[Child].ret # 0
      BY <3>1, <3>2, NamesAre, DirectoryFacts
    <3>6. IsShown(q, "cat", a, o \o x)
      BY <1>2, <1>5, <3>3, <3>4 DEF IsShown
    <3>7. QED
      BY <3>1, <3>5, <3>6
  <2>6. QED
    BY <2>4, <2>5
<1>6. CASE e.type # 1
  <2>1. p \in 0 .. Len(T) /\ o = SubSeq(T, 1, p)
    BY <1>2, <1>6 DEF IsOn
  <2>2. PICK t : Chunk(e, p, CatSize, t) /\ Moves(f, Len(t), t)
    BY <1>1, <1>2, <1>3, <1>6, Sizes, ReadGives DEF Pos
  <2>3. /\ t \in Seq(Glyphs) /\ Len(t) \in Nat /\ \A j \in 1 .. Len(t) : t[j] = T[p + j]
        /\ Len(t) = IF CatSize < Len(T) - p THEN CatSize ELSE Len(T) - p
    BY <2>2 DEF Chunk
  <2>4. res'[Child].ret = Len(t) /\ res'[Child].data = t
    BY <2>2 DEF Moves
  <2>5. CASE Len(t) = 0
    <3> HIDE DEF p, T
    <3>1. p = Len(T)
      <4>1. Len(T) \in Nat /\ CatSize \in Nat \ {0} /\ p \in 0 .. Len(T)
        BY <1>3, <1>4, <2>1
      <4>2. QED
        BY <2>3, <2>5, <4>1
    <3>2. SubSeq(T, 1, Len(T)) = T
      BY <1>4
    <3>3. T = Content(e)
      <4>1. CASE e.type = 2
        BY <4>1 DEF T, TextOf
      <4>2. CASE e.type # 2
        <5>1. e.type = 0
          BY <1>1, <1>6, <4>2, TextIs
        <5>2. QED
          BY <5>1 DEF T, TextOf, Content
      <4>3. QED
        BY <4>1, <4>2
    <3>4. QED
      BY <2>1, <2>4, <2>5, <3>1, <3>2, <3>3 DEF Whole
  <2>6. CASE Len(t) # 0
    <3> DEFINE n == Len(t)
    <3>1. n \in Nat /\ p + n <= Len(T) /\ p \in Nat
      <4> HIDE DEF p, T, n
      <4>1. n = IF CatSize < Len(T) - p THEN CatSize ELSE Len(T) - p
        BY <2>3 DEF n
      <4>2. QED
        BY <1>3, <1>4, <2>1, <4>1
    <3>2. IsOn(q, e) /\ q.pos = p + n
      <4>1. Pos(f) + n <= IF e.type = 1 THEN Len(Dir) ELSE Len(TextOf(e))
        BY <1>6, <3>1 DEF Pos
      <4>2. QED
        BY <1>2, <1>4, <2>2, <3>1, <4>1, StaysOn DEF Pos
    <3>3. o \o t = SubSeq(T, 1, p + n)
      <4> HIDE DEF T, p
      <4>1. o \in Seq(Glyphs) /\ Len(o) = p /\ \A j \in 1 .. p : o[j] = T[j]
        BY <1>4, <2>1, <3>1
      <4> DEFINE x == o \o t
                 y == SubSeq(T, 1, p + n)
      <4>2. x \in Seq(Glyphs) /\ Len(x) = p + n
            /\ \A j \in 1 .. p + n : x[j] = IF j <= p THEN o[j] ELSE t[j - p]
        BY <2>3, <4>1, Concatenated
      <4>3. y \in Seq(Glyphs) /\ Len(y) = p + n /\ \A j \in 1 .. p + n : y[j] = T[j]
        BY <1>4, <3>1
      <4> HIDE DEF x, y
      <4>4. ASSUME NEW j \in 1 .. p + n PROVE x[j] = y[j]
        <5>1. CASE j <= p
          BY <3>1, <4>1, <4>2, <4>3, <5>1
        <5>2. CASE ~(j <= p)
          <6>1. j - p \in 1 .. n /\ p + (j - p) = j
            BY <3>1, <5>2
          <6>2. QED
            BY <2>3, <4>2, <4>3, <5>2, <6>1
        <5>3. QED
          BY <5>1, <5>2
      <4>5. x = y
        BY <4>2, <4>3, <4>4
      <4>6. QED
        BY <4>5 DEF x, y
    <3>4. IsShown(q, "cat", a, o \o t)
      BY <1>2, <1>6, <3>2, <3>3 DEF IsShown
    <3>5. QED
      BY <2>4, <2>6, <3>4
  <2>7. QED
    BY <2>5, <2>6
<1>7. QED
  BY <1>5, <1>6

\* A process makes its calls on its own array.
LEMMA CallsApart ==
  ASSUME DescInv, NEW p \in Procs, NEW q \in Procs, p # q, NEW x, NEW n,
         open(p, x) \/ close(p, x) \/ read(p, x, n) \/ write(p, x)
  PROVE  fds'[q] = fds[q] /\ res'[q] = res[q] /\ opened'[q] = opened[q]
<1>1. fds \in [Procs -> [Fds -> Descriptor]] /\ DOMAIN res = Procs /\ opened \in [Procs -> SUBSET Fds]
  BY DEF DescInv, DescriptorsOK
<1>2. ASSUME NEW r, Answer(p, r) PROVE fds'[q] = fds[q] /\ res'[q] = res[q] /\ opened'[q] = opened[q]
  BY <1>1, <1>2 DEF Answer, Return
<1>3. CASE open(p, x)
  <2>1. CASE OpenRefused(p, x)
    BY <1>2, <2>1 DEF OpenRefused
  <2>2. CASE Open(p, x)
    <3>1. PICK f, d, r : /\ fds' = [fds EXCEPT ![p][f] = d] /\ res' = [res EXCEPT ![p] = r]
                         /\ opened' = [opened EXCEPT ![p] = @ \cup {f}]
      BY <2>2 DEF Open, SetFd, Return
    <3>2. QED
      BY <1>1, <3>1
  <2>3. QED
    BY <1>3, <2>1, <2>2 DEF open
<1>4. CASE close(p, x)
  <2>1. CASE CloseRefused(p, x)
    BY <1>2, <2>1 DEF CloseRefused
  <2>2. CASE Close(p, x)
    BY <1>1, <2>2 DEF Close, SetFd, Return
  <2>3. QED
    BY <1>4, <2>1, <2>2 DEF close
<1>5. CASE read(p, x, n)
  <2>1. CASE \E r : Answer(p, r)
    BY <1>2, <2>1
  <2>2. CASE \E by, r, t, history : Deliver(p, x, by, r, t, history)
    BY <1>1, <2>2 DEF Deliver, SetFd, Return
  <2>3. CASE OtherRead(p, x)
    BY <1>1, <2>3 DEF OtherRead, Return
  <2>4. \/ \E r : Answer(p, r)
        \/ \E by, r, t, history : Deliver(p, x, by, r, t, history)
        \/ OtherRead(p, x)
    BY <1>5 DEF read, Read, ReadRefused, FsRead, DirRead, DeliverBytes
  <2>5. QED
    BY <2>1, <2>2, <2>3, <2>4
<1>6. CASE write(p, x)
  BY <1>1, <1>2, <1>6 DEF write, Write, WriteRefused, Return
<1>7. QED
  BY <1>3, <1>4, <1>5, <1>6

\* What the invariants of the programs are about.
Kept == /\ fds'[Child] = fds[Child] /\ res'[Child] = res[Child] /\ opened'[Child] = opened[Child]
        /\ UNCHANGED <<prog, pcb, pc, local, out, code>>

LEMMA BaseApart ==
  ASSUME DescInv, Boot \/ OtherBase \/ ShellRead \/ ShellEmpty \/ ShellExit \/ ShellUnknown
  PROVE  Kept
<1>1. /\ fds \in [Procs -> [Fds -> Descriptor]] /\ DOMAIN res = Procs /\ opened \in [Procs -> SUBSET Fds]
      /\ Base \in Procs /\ Child \in Procs /\ Base # Child
  BY Sizes DEF DescInv, DescriptorsOK
<1>2. UNCHANGED <<prog, pcb, pc, local, out, code>>
  BY DEF Boot, OtherBase, ShellRead, ShellEmpty, ShellExit, ShellUnknown, session
<1>3. ASSUME StartIn(Base)
      PROVE  fds'[Child] = fds[Child] /\ res'[Child] = res[Child] /\ opened'[Child] = opened[Child]
  BY <1>1, <1>3 DEF StartIn
<1>4. CASE Boot \/ ShellExit
  BY <1>2, <1>3, <1>4 DEF Boot, ShellExit, Execute, HaltBase, Kept
<1>5. CASE OtherBase
  <2>1. CASE HaltBase(Base)
    BY <1>2, <1>3, <2>1 DEF HaltBase, Kept
  <2>2. CASE Call(Base)
    <3>1. PICK x, n : open(Base, x) \/ close(Base, x) \/ read(Base, x, n) \/ write(Base, x)
      BY <2>2 DEF Call
    <3>2. QED
      BY <1>1, <1>2, <3>1, CallsApart DEF Kept
  <2>3. QED
    BY <1>5, <2>1, <2>2 DEF OtherBase
<1>6. CASE ShellRead
  BY <1>1, <1>2, <1>6, CallsApart DEF ShellRead, Kept
<1>7. CASE ShellEmpty
  BY <1>2, <1>7 DEF ShellEmpty, vars, Kept
<1>8. CASE ShellUnknown
  BY <1>1, <1>2, <1>8 DEF ShellUnknown, Answer, Return, Kept
<1>9. QED
  BY <1>4, <1>5, <1>6, <1>7, <1>8

LEMMA DotIs == Entries(Dot) # {} /\ FirstOf(Dot) = Dir[1] /\ Dot \in Seq(STRING)
<1> DEFINE E == Entries(Dot)
           c == CHOOSE i \in E : \A j \in E : i <= j
<1>1. 1 \in E /\ \A j \in E : 1 <= j /\ j \in Int
  BY DirectoryFacts DEF Entries, Dot
<1>2. Dot \in Seq(STRING)
  BY DirectoryFacts DEF Dot
<1>3. FirstOf(Dot) = Dir[c]
  BY DEF FirstOf
<1> HIDE DEF E
<1>4. c \in E /\ \A j \in E : c <= j
  <2>1. \E i \in E : \A j \in E : i <= j
    BY <1>1
  <2>2. QED
    BY <2>1, Zenon
<1> HIDE DEF c
<1>5. c = 1
  BY <1>1, <1>4
<1>6. QED
  BY <1>1, <1>2, <1>3, <1>5 DEF E

\* What is shown at the beginning: nothing.
LEMMA NothingShown ==
  ASSUME NEW d, NEW p \in {"cat", "ls"}, NEW a, d.pos = 0,
         IF p = "ls" THEN IsOn(d, Dir[1]) ELSE Entries(a) # {} /\ IsOn(d, FirstOf(a))
  PROVE  IsShown(d, p, a, <<>>)
<1>1. CASE p = "ls"
  <2>1. <<>> = [i \in 1 .. 0 |-> Append(Dir[i].name, End)]
    OBVIOUS
  <2>2. QED
    BY <1>1, <2>1 DEF IsShown
<1>2. CASE p # "ls"
  <2>1. PICK i \in DOMAIN Dir : FirstOf(a) = Dir[i]
    BY <1>2, FirstIs
  <2> DEFINE T == TextOf(FirstOf(a))
  <2>2. T \in Seq(Glyphs)
    BY <2>1, TextIs
  <2>3. SubSeq(T, 1, 0) = <<>>
    <3> HIDE DEF T
    <3>1. QED
      BY <2>2
  <2>4. Sums(DirNames)[0] = <<>>
    BY NamesAre, SumsAre DEF Joins
  <2>5. QED
    BY <1>2, <2>3, <2>4 DEF IsShown
<1>3. QED
  BY <1>1, <1>2

LEMMA ReadShows ==
  ASSUME DescInv, prog \in {"cat", "ls"}, NEW f, Shows(f, out), read(Child, f, ChunkSize(prog))
  PROVE  /\ res'[Child].ret = 0 => <<0, out>> = Expected
         /\ res'[Child].ret # 0 =>
              IsShown(fds'[Child][f], prog, pcb.args,
                      out \o IF prog = "cat" THEN res'[Child].data ELSE <<Append(res'[Child].data, End)>>)
<1>1. f \in Fds \ {0, 1} /\ IsShown(fds[Child][f], prog, pcb.args, out)
  BY DEF Shows
<1>2. CASE prog = "cat"
  <2>1. read(Child, f, CatSize) /\ IsShown(fds[Child][f], "cat", pcb.args, out)
    BY <1>1, <1>2 DEF ChunkSize
  <2>2. /\ res'[Child].ret = 0 => out = Whole("cat", pcb.args)
        /\ res'[Child].ret # 0 => IsShown(fds'[Child][f], "cat", pcb.args, out \o res'[Child].data)
    BY <1>1, <2>1, CatReads
  <2>3. Entries(pcb.args) # {}
    BY <2>1 DEF IsShown
  <2>4. Expected = <<0, Whole("cat", pcb.args)>>
    BY <1>2, <2>3 DEF Expected, Whole
  <2>5. QED
    BY <1>2, <2>2, <2>4
<1>3. CASE prog = "ls"
  <2>1. read(Child, f, NameBuf) /\ IsShown(fds[Child][f], "ls", <<>>, out)
    BY <1>1, <1>3 DEF ChunkSize, IsShown
  <2> DEFINE more == out \o <<Append(res'[Child].data, End)>>
  <2>2. /\ res'[Child].ret = 0 => out = Whole("ls", <<>>)
        /\ res'[Child].ret # 0 => IsShown(fds'[Child][f], "ls", <<>>, more)
    BY <1>1, <2>1, LsReads
  <2>3. Expected = <<0, Whole("ls", <<>>)>>
    BY <1>3 DEF Expected, Whole
  <2> HIDE DEF more
  <2>4. res'[Child].ret # 0 => IsShown(fds'[Child][f], prog, pcb.args, more)
    BY <1>3, <2>2 DEF IsShown
  <2>5. QED
    BY <1>3, <2>2, <2>3, <2>4 DEF more
<1>4. QED
  BY <1>2, <1>3

LEMMA PrinterNext ==
  ASSUME DescInv, ArgInv, PrinterInv, DOMAIN local = LocalNames, [Next]_allvars
  PROVE  PrinterInv'
<1>1. Child \in Procs /\ opened \in [Procs -> SUBSET Fds]
  BY Sizes DEF DescInv, DescriptorsOK
<1>2. ASSUME Kept PROVE PrinterInv'
  BY <1>2 DEF Kept, PrinterInv, Shows, Printed, Expected, ret, data
<1>3. CASE Boot \/ OtherBase \/ ShellRead \/ ShellEmpty \/ ShellExit \/ ShellUnknown
  BY <1>2, <1>3, BaseApart
<1>4. CASE UNCHANGED allvars
  BY <1>2, <1>4 DEF allvars, vars, session, Kept
<1>5. CASE ShellExecute
  <2>1. /\ opened' = [opened EXCEPT ![Child] = {}] /\ code' = 0 /\ pc' = "main" /\ out' = <<>>
    BY <1>5 DEF ShellExecute, Execute, StartIn
  <2>2. opened'[Child] = {}
    BY <1>1, <2>1
  <2>3. QED
    BY <2>1, <2>2 DEF PrinterInv
<1>6. CASE Leave
  BY <1>6 DEF Leave, PrinterInv
<1>7. CASE Grep \/ Syserr \/ OtherCall
  <2>1. prog \notin {"cat", "ls"} /\ prog' = prog
    BY <1>7 DEF Grep, GrepOpen, GrepFirst, GrepSkip, GrepNext, GrepFile, GrepRead, GrepText, GrepCarry,
         GrepLine, GrepClose, GrepExits, Syserr, SyserrAsk, SyserrSelect, SyserrCall, SyserrVerdict,
         SyserrExits, OtherCall, CallThen, Exit, session
  <2>2. QED
    BY <2>1 DEF PrinterInv
<1>8. CASE CatOpen
  <2>1. /\ prog = "cat" /\ pc = "main" /\ open(Child, pcb.args) /\ pc' = "opened"
        /\ UNCHANGED <<prog, pcb, out, code>> /\ out = <<>> /\ code = 0 /\ opened[Child] = {}
    BY <1>8, Sizes, ArgumentIs DEF CatOpen, CallThen, At, Goto, PrinterInv
  <2> DEFINE r == res'[Child].ret
  <2>2. /\ Entries(pcb.args) = {} => r = Fail
        /\ Entries(pcb.args) # {} => /\ r # Fail /\ r \in Fds \ {0, 1}
                                     /\ IsOn(fds'[Child][r], FirstOf(pcb.args)) /\ fds'[Child][r].pos = 0
    BY <2>1, OpenGives DEF ArgInv
  <2>3. r # Fail => r \in Fds \ {0, 1} /\ IsShown(fds'[Child][r], "cat", pcb.args, <<>>)
    BY <2>2, NothingShown
  <2>4. IF r = Fail THEN Entries(pcb.args) = {} ELSE Shows(ret, <<>>)'
    BY <2>1, <2>2, <2>3 DEF Shows, ret
  <2>5. QED
    BY <2>1, <2>4 DEF PrinterInv, ret
<1>9. CASE LsOpen
  <2>1. /\ prog = "ls" /\ pc = "main" /\ open(Child, Dot) /\ pc' = "opened"
        /\ UNCHANGED <<prog, pcb, out, code>> /\ out = <<>> /\ code = 0 /\ opened[Child] = {}
    BY <1>9 DEF LsOpen, CallThen, At, Goto, PrinterInv
  <2> DEFINE r == res'[Child].ret
  <2>2. /\ r # Fail /\ r \in Fds \ {0, 1}
        /\ IsOn(fds'[Child][r], Dir[1]) /\ fds'[Child][r].pos = 0
    BY <2>1, OpenGives, DotIs
  <2>3. IsShown(fds'[Child][r], "ls", pcb.args, <<>>)
    BY <2>2, NothingShown
  <2>4. Shows(ret, <<>>)'
    BY <2>1, <2>2, <2>3 DEF Shows, ret
  <2>5. QED
    BY <2>1, <2>2, <2>4 DEF PrinterInv, ret
<1>10. CASE ReadFirst \/ ReadMore
  <2>1. PICK f : /\ Shows(f, out) /\ read(Child, f, ChunkSize(prog)) /\ local'.fd = f
    <3>1. CASE ReadFirst
      <4>1. local' = [local EXCEPT !.fd = ret] /\ read(Child, ret, ChunkSize(prog)) /\ out = <<>>
            /\ Shows(ret, <<>>)
        BY <3>1 DEF ReadFirst, CallThen, At, PrinterInv
      <4>2. local'.fd = ret
        BY <4>1 DEF LocalNames
      <4>3. QED
        BY <4>1, <4>2
    <3>2. CASE ReadMore
      BY <3>2 DEF ReadMore, CallThen, At, PrinterInv
    <3>3. QED
      BY <1>10, <3>1, <3>2
  <2>2. /\ prog \in {"cat", "ls"} /\ code = 0 /\ pc' = "chunk" /\ UNCHANGED <<prog, pcb, out, code>>
    BY <1>10 DEF ReadFirst, ReadMore, CallThen, At, Goto, PrinterInv
  <2> DEFINE more == IF prog = "cat" THEN res'[Child].data ELSE <<Append(res'[Child].data, End)>>
  <2>3. /\ res'[Child].ret = 0 => <<0, out>> = Expected
        /\ res'[Child].ret # 0 => IsShown(fds'[Child][f], prog, pcb.args, out \o more)
    BY <2>1, <2>2, ReadShows
  <2>4. Printed(prog)' = more /\ Expected' = Expected
    BY <2>2 DEF Printed, Expected, data
  <2> HIDE DEF more
  <2>5. f \in Fds \ {0, 1}
    BY <2>1 DEF Shows
  <2>6. res'[Child].ret # 0 => Shows(local.fd, out \o Printed(prog))'
    BY <2>1, <2>2, <2>3, <2>4, <2>5 DEF Shows
  <2>7. QED
    BY <2>2, <2>3, <2>4, <2>6 DEF PrinterInv, ret
<1>11. CASE PrintChunk
  <2>1. /\ prog \in {"cat", "ls"} /\ code = 0 /\ pc' = "written" /\ UNCHANGED <<prog, pcb, local, code>>
        /\ out' = out \o Printed(prog) /\ write(Child, 1)
        /\ Shows(local.fd, out \o Printed(prog))
    BY <1>11 DEF PrintChunk, At, Goto, PrinterInv
  <2>2. fds' = fds
    BY <2>1 DEF write, Write, WriteRefused, Answer
  <2> DEFINE o == out \o Printed(prog)
  <2> HIDE DEF o
  <2>3. Shows(local.fd, o) /\ out' = o
    BY <2>1 DEF o
  <2>4. Shows(local.fd, out)'
    BY <2>1, <2>2, <2>3 DEF Shows
  <2>5. QED
    BY <2>1, <2>4 DEF PrinterInv
<1>12. CASE PrinterExits
  <2>1. prog \in {"cat", "ls"} /\ UNCHANGED <<prog, pcb, out>> /\ pc' = "exit"
    BY <1>12 DEF PrinterExits, Exit, Goto
  <2>2. <<code', out>> = Expected
    <3>1. CASE At("opened") /\ ret = Fail /\ Exit(2)
      <4>1. prog = "cat" /\ Entries(pcb.args) = {} /\ out = <<>> /\ code' = 2
        BY <2>1, <3>1 DEF At, Exit, PrinterInv
      <4>2. QED
        BY <4>1 DEF Expected
    <3>2. CASE At("chunk") /\ ret = 0 /\ Exit(0)
      <4>1. <<0, out>> = Expected /\ code' = 0
        BY <2>1, <3>2 DEF At, Exit, PrinterInv
      <4>2. QED
        BY <4>1
    <3>3. QED
      BY <1>12, <3>1, <3>2 DEF PrinterExits
  <2>3. Expected' = Expected
    BY <2>1 DEF Expected
  <2>4. QED
    BY <2>1, <2>2, <2>3 DEF PrinterInv
<1>13. QED
  BY <1>3, <1>4, <1>5, <1>6, <1>7, <1>8, <1>9, <1>10, <1>11, <1>12 DEF Next, Shell, Cat

\* What grep is to find.
FoundLines == Seq(STRING) \X Seq(Glyphs)

LEMMA NoneInNothing ==
  ASSUME NEW s \in Seq(STRING)
  PROVE  ~Occurs(s, <<>>)
<1> SUFFICES ASSUME Occurs(s, <<>>) PROVE FALSE
  OBVIOUS
<1>1. s # <<>> /\ \E i \in 0 .. Len(<<>>) - Len(s) : TRUE
  BY DEF Occurs
<1>2. Len(<<>>) = 0 /\ Len(s) \in Nat
  OBVIOUS
<1>3. Len(s) = 0
  BY <1>1, <1>2
<1>4. QED
  BY <1>1, <1>3

LEMMA LineBeforeIs ==
  ASSUME NEW t \in Seq(Glyphs), NEW L \in Nat, NEW k \in Nat, L < k,
         L \in Stops(t) \cup {0}, \A j \in Stops(t) : j <= L \/ j >= k
  PROVE  LineBefore(t, k) = SubSeq(t, L + 1, k - 1)
<1> DEFINE before == {i \in Stops(t) \cup {0} : i < k}
           c == CHOOSE i \in before : \A j \in before : j <= i
<1>1. LineBefore(t, k) = SubSeq(t, c + 1, k - 1)
  BY DEF LineBefore
<1>2. before \in SUBSET Nat
  <2>1. Len(t) \in Nat /\ DOMAIN t = 1 .. Len(t)
    OBVIOUS
  <2>2. Stops(t) \in SUBSET Nat
    BY <2>1 DEF Stops
  <2>3. QED
    BY <2>2
<1>3. L \in before /\ \A j \in before : j <= L
  <2>1. \A j \in before : j < k /\ (j \in Stops(t) \/ j = 0) /\ j \in Nat
    BY <1>2
  <2>2. QED
    BY <2>1
<1> HIDE DEF before
<1>4. c \in before /\ \A j \in before : j <= c
  <2>1. \E i \in before : \A j \in before : j <= i
    BY <1>3
  <2>2. QED
    BY <2>1, Zenon
<1> HIDE DEF c
<1>5. c = L
  BY <1>2, <1>3, <1>4
<1>6. QED
  BY <1>1, <1>5

LEMMA LinesAre ==
  ASSUME ArgInv, NEW i \in DOMAIN Dir
  PROVE  LET e == Dir[i]
             N == Len(TextOf(e))
             F == LinesFound(e)
             S == Sums(F)
         IN /\ N \in Nat /\ Len(F) = N + 1
            /\ \A k \in 1 .. N + 1 : F[k] = FoundBefore(e, pcb.args, k) /\ F[k] \in Seq(FoundLines)
            /\ S[0] = <<>> /\ \A k \in 0 .. N + 1 : S[k] \in Seq(FoundLines)
            /\ \A k \in 1 .. N + 1 : S[k] = S[k - 1] \o F[k]
<1> DEFINE e == Dir[i]
           t == TextOf(e)
           N == Len(t)
           F == LinesFound(e)
           S == Sums(F)
<1>1. N \in Nat /\ t \in Seq(Glyphs) /\ e.name \in Seq(STRING)
  BY TextIs, DirectoryFacts
<1>2. F = [k \in 1 .. N + 1 |-> FoundBefore(e, pcb.args, k)]
  BY DEF LinesFound
<1> HIDE DEF F, N, t, e
<1>3. Len(F) = N + 1 /\ \A k \in 1 .. N + 1 : F[k] = FoundBefore(e, pcb.args, k)
  BY <1>1, <1>2
<1>4. ASSUME NEW k \in 1 .. N + 1 PROVE F[k] \in Seq(FoundLines)
  <2> DEFINE line == LineBefore(t, k)
  <2>1. ASSUME k \in Stops(t) PROVE line \in Seq(Glyphs)
    <3> DEFINE before == {j \in Stops(t) \cup {0} : j < k}
               c == CHOOSE j \in before : \A m \in before : m <= j
    <3>1. line = SubSeq(t, c + 1, k - 1)
      BY DEF LineBefore
    <3>2. before \subseteq 0 .. k
      <4>1. Stops(t) \in SUBSET Nat
        BY <1>1 DEF Stops, N
      <4>2. QED
        BY <4>1
    <3>3. 0 \in before /\ k \in Nat
      BY <1>1
    <3>4. \E j \in before : \A m \in before : m <= j
      <4> DEFINE U == {k - j : j \in before}
      <4> HIDE DEF before
      <4>1. U \in SUBSET Nat /\ U # {}
        BY <3>2, <3>3
      <4>2. PICK u \in U : \A v \in U : u <= v
        <5> HIDE DEF U
        <5>1. QED
          BY <4>1, Least
      <4>3. PICK j \in before : u = k - j
        OBVIOUS
      <4>4. ASSUME NEW m \in before PROVE m <= j
        <5>1. k - m \in U
          OBVIOUS
        <5>2. k - j <= k - m
          BY <4>2, <4>3, <5>1
        <5>3. QED
          BY <3>2, <3>3, <5>2
      <4>5. QED
        BY <4>4
    <3>5. c \in before
      <4> HIDE DEF before
      <4>1. QED
        BY <3>4, Zenon
    <3>6. c \in Nat
      <4> HIDE DEF c, before
      <4>1. QED
        BY <3>2, <3>5
    <3> HIDE DEF c, before
    <3>7. k - 1 <= Len(t) /\ k - 1 \in Nat
      BY <1>1 DEF N
    <3>8. SubSeq(t, c + 1, k - 1) \in Seq(Glyphs)
      BY <1>1, <3>6, <3>7
    <3>9. QED
      BY <3>1, <3>8
  <2>2. F[k] = IF k \in Stops(t) /\ Occurs(pcb.args, line) THEN << <<e.name, line>> >> ELSE <<>>
    BY <1>3 DEF FoundBefore, t
  <2> HIDE DEF line
  <2>3. <<>> \in Seq(FoundLines)
    OBVIOUS
  <2>4. ASSUME k \in Stops(t) PROVE << <<e.name, line>> >> \in Seq(FoundLines)
    <3>1. <<e.name, line>> \in FoundLines
      BY <1>1, <2>1, <2>4 DEF FoundLines
    <3>2. QED
      BY <3>1
  <2>5. QED
    BY <2>2, <2>3, <2>4
<1>5. Len(F) \in Nat
  BY <1>1, <1>3
<1>6. S[0] = <<>> /\ \A k \in 1 .. Len(F) : S[k] = S[k - 1] \o F[k]
  BY <1>5, SumsAre DEF Joins
<1>7. \A k \in 0 .. Len(F) : S[k] \in Seq(FoundLines)
  <2>1. \A k \in 1 .. Len(F) : F[k] \in Seq(FoundLines)
    BY <1>3, <1>4
  <2>2. QED
    BY <1>5, <2>1, SumsAreSeqs
<1> HIDE DEF S
<1>8. QED
  BY <1>1, <1>3, <1>4, <1>6, <1>7 DEF S, F, N, t, e

\* From the end of one line to the next.
LEMMA NextLine ==
  ASSUME ArgInv, NEW i \in DOMAIN Dir, NEW L \in Nat, NEW k \in 1 .. Len(TextOf(Dir[i])) + 1, L < k,
         L \in Stops(TextOf(Dir[i])) \cup {0}, k \in Stops(TextOf(Dir[i])),
         \A j \in Stops(TextOf(Dir[i])) : j <= L \/ j >= k
  PROVE  LET e == Dir[i]
             line == SubSeq(TextOf(e), L + 1, k - 1)
             S == Sums(LinesFound(e))
         IN S[k] = IF Occurs(pcb.args, line) THEN Append(S[L], <<e.name, line>>) ELSE S[L]
<1> DEFINE e == Dir[i]
           t == TextOf(e)
           N == Len(t)
           F == LinesFound(e)
           S == Sums(F)
           line == SubSeq(t, L + 1, k - 1)
<1>1. /\ N \in Nat
      /\ \A j \in 1 .. N + 1 : F[j] = FoundBefore(e, pcb.args, j) /\ F[j] \in Seq(FoundLines)
      /\ \A j \in 0 .. N + 1 : S[j] \in Seq(FoundLines)
      /\ \A j \in 1 .. N + 1 : S[j] = S[j - 1] \o F[j]
  BY LinesAre
<1>2. t \in Seq(Glyphs)
  BY TextIs
<1>3. LineBefore(t, k) = line
  <2>1. k \in Nat
    BY <1>1
  <2>2. QED
    BY <1>2, <2>1, LineBeforeIs
<1>4. k \in Stops(t) /\ k \in 1 .. N + 1 /\ L \in 0 .. N /\ \A j \in Stops(t) : j <= L \/ j >= k
  BY <1>1
<1> HIDE DEF line, S
<1>5. F[k] = IF Occurs(pcb.args, line) THEN << <<e.name, line>> >> ELSE <<>>
  <2>1. F[k] = FoundBefore(e, pcb.args, k)
    BY <1>1, <1>4
  <2>2. QED
    BY <1>3, <1>4, <2>1 DEF FoundBefore
<1>6. \A j \in L + 1 .. k - 1 : F[j] = <<>>
  <2> SUFFICES ASSUME NEW j \in L + 1 .. k - 1 PROVE F[j] = <<>>
    OBVIOUS
  <2>1. j \notin Stops(t) /\ j \in 1 .. N + 1
    BY <1>1, <1>4
  <2>2. F[j] = FoundBefore(e, pcb.args, j)
    BY <1>1, <2>1
  <2>3. QED
    BY <2>1, <2>2 DEF FoundBefore
<1> HIDE DEF F, N, t, e
<1>7. S[k - 1] = S[L]
  <2> DEFINE T == {j \in L .. k - 1 : S[j] # S[L]}
  <2> SUFFICES ASSUME T # {} PROVE FALSE
    BY <1>1, <1>4
  <2>1. T \in SUBSET Nat
    BY <1>1, <1>4
  <2>2. PICK m \in T : \A j \in T : m <= j
    <3> HIDE DEF T
    <3>1. QED
      BY <2>1, Least
  <2>3. m \in L .. k - 1 /\ S[m] # S[L]
    OBVIOUS
  <2>4. m # L
    BY <2>3
  <2>5. /\ m \in L + 1 .. k - 1 /\ m - 1 \in L .. k - 1 /\ m - 1 \notin T
        /\ m \in 1 .. N + 1 /\ m - 1 \in 0 .. N + 1
    BY <1>1, <1>4, <2>2, <2>3, <2>4
  <2>6. S[m - 1] = S[L]
    BY <2>5
  <2>7. S[m] = S[m - 1] \o F[m] /\ F[m] = <<>> /\ S[m - 1] \in Seq(FoundLines)
    BY <1>1, <1>6, <2>5
  <2>8. S[m - 1] \o <<>> = S[m - 1]
    BY <2>7
  <2>9. QED
    BY <2>3, <2>6, <2>7, <2>8
<1>8. S[k] = S[L] \o F[k] /\ S[L] \in Seq(FoundLines)
  <2>1. S[k] = S[k - 1] \o F[k]
    BY <1>1, <1>4
  <2>2. L \in 0 .. N + 1
    BY <1>1, <1>4
  <2>3. QED
    BY <1>1, <1>7, <2>1, <2>2
<1>9. S[L] \o <<>> = S[L]
  BY <1>8
<1>10. S[L] \o << <<e.name, line>> >> = Append(S[L], <<e.name, line>>)
  <2> DEFINE x == <<e.name, line>>
  <2> HIDE DEF x
  <2>1. S[L] \o <<x>> = Append(S[L], x)
    BY <1>8
  <2>2. QED
    BY <2>1 DEF x
<1>11. QED
  BY <1>5, <1>8, <1>9, <1>10 DEF S, F, e, t, line

\* A buffer of characters without an end is the rest of the file.
LEMMA NoEndIsLast ==
  ASSUME NEW e, IsText(e), Len(TextOf(e)) \in Nat, NEW k \in Nat, k + GrepSize <= Len(TextOf(e)),
         \A j \in k + 1 .. k + GrepSize : TextOf(e)[j] # End
  PROVE  FALSE
<1>1. GrepSize \in Nat
  BY Sizes
<1>2. k \in 0 .. Len(TextOf(e)) - GrepSize
  BY <1>1
<1>3. QED
  BY <1>2 DEF IsText

\* A text without NULs is printed whole.
LEMMA ShownWhole ==
  ASSUME NEW s \in Seq(Glyphs), \A j \in DOMAIN s : s[j] # Nul
  PROVE  SubSeq(s, 1, Until(s, {Nul})) = s
<1> DEFINE n == Len(s)
           ends == {j \in DOMAIN s : s[j] \in {Nul}} \cup {n + 1}
<1>1. n \in Nat /\ ends = {n + 1}
  OBVIOUS
<1>2. Until(s, {Nul}) = (CHOOSE i \in ends : \A j \in ends : i <= j) - 1
  BY DEF Until
<1> HIDE DEF ends
<1>3. \E i \in ends : \A j \in ends : i <= j
  BY <1>1
<1>4. (CHOOSE i \in ends : \A j \in ends : i <= j) \in ends
  BY <1>3, Zenon
<1>5. Until(s, {Nul}) = n
  BY <1>1, <1>2, <1>4
<1>6. SubSeq(s, 1, n) = s
  OBVIOUS
<1>7. QED
  BY <1>5, <1>6

\* One line of the buffer is looked at: how much of the file has been searched then.
LEMMA LineSearched ==
  ASSUME IsText(Here), ArgInv, NEW i \in DOMAIN Dir, Here = Dir[i], LineInv,
         local.last \in 0 .. GrepSize, local.start \in 0 .. local.last, local.data[local.last] # End,
         Place \in 0 .. Len(TextOf(Here)), local.name = Here.name, ~Partial,
         NEW o, o = IF Hit(pcb.args, Line) THEN Append(out[Nth], <<local.name, Shown>>) ELSE out[Nth]
  PROVE  LET t == TextOf(Here)
             S == Sums(LinesFound(Here))
             k == (Place - local.last) + LineEnd + 1
         IN /\ LineEnd + 1 < local.last => k \in Stops(t) /\ o = S[k]
            /\ LineEnd + 1 >= local.last /\ local.cnt = 0 => o = S[Len(t) + 1]
            /\ LineEnd + 1 >= local.last /\ local.cnt # 0 =>
                 \/ Place \in Stops(t) /\ o = S[Place]
                 \/ Place = Len(t) /\ o = S[Len(t) + 1]
<1> DEFINE t == TextOf(Here)
           N == Len(t)
           S == Sums(LinesFound(Here))
           p == Place
           m == local.last
           a == local.start
           b == LineEnd
           d == local.data
           L == (p - m) + a
           k == (p - m) + b + 1
           q == out[Nth]
<1>1. /\ N \in Nat /\ t \in Seq(Glyphs) /\ S[0] = <<>> /\ \A j \in 0 .. N + 1 : S[j] \in Seq(FoundLines)
      /\ DOMAIN t = 1 .. N
  <2>1. N \in Nat /\ t \in Seq(Glyphs)
    BY TextIs
  <2>2. S[0] = <<>> /\ \A j \in 0 .. N + 1 : S[j] \in Seq(FoundLines)
    BY LinesAre
  <2>3. DOMAIN t = 1 .. N
    BY <2>1
  <2>4. QED
    BY <2>1, <2>2, <2>3
<1>2. GrepSize \in Nat /\ m \in 0 .. GrepSize /\ a \in 0 .. m /\ p \in 0 .. N
  BY Sizes
<1>3. /\ b \in a .. m /\ (b < m => d[b] = End) /\ \A j \in a .. b - 1 : d[j] # End
  BY <1>2, LineEndIs
<1>4. /\ m <= p /\ \A j \in a .. m - 1 : d[j] = t[p - m + j + 1]
      /\ d[m] # End
      /\ p < N => m = GrepSize
      /\ local.cnt = 0 => p = N
      /\ (L \in Stops(t) \cup {0} /\ q = S[L])
         \/ (m = 0 /\ p = N /\ q = S[N + 1] /\ a = 0 /\ local.cnt = 0)
  <2>2. d[m] # End
    OBVIOUS
  <2>3. m <= p /\ \A j \in a .. m - 1 : d[j] = t[p - m + j + 1]
    BY DEF LineInv, Buffered
  <2>4. (p < N => m = GrepSize) /\ (local.cnt = 0 => p = N)
    BY DEF LineInv
  <2>5. Reached(p - m + a) \/ (Ended /\ a = 0 /\ local.cnt = 0)
    BY DEF LineInv
  <2>6. p - m + a = L
    BY <1>2
  <2>7. QED
    BY <2>2, <2>3, <2>4, <2>5, <2>6 DEF Reached, Ended
<1>5. Line = [j \in 1 .. b - a |-> d[a + j - 1]]
  BY DEF Line
<1>6. b = m /\ local.cnt # 0 => a = 0
  BY <1>4 DEF Partial
<1>7. CASE m = 0 /\ p = N /\ q = S[N + 1] /\ a = 0 /\ local.cnt = 0
  <2>1. Line = <<>>
    BY <1>2, <1>3, <1>5, <1>7
  <2>2. ~Occurs(pcb.args, Line) /\ Nul \notin ToSet(Line)
    BY <2>1, NoneInNothing DEF ArgInv, ToSet
  <2>3. o = q
    BY <2>2 DEF Hit
  <2> HIDE DEF S, q, b
  <2>4. ~(b + 1 < m)
    BY <1>2, <1>3, <1>7
  <2>5. QED
    BY <1>7, <2>3, <2>4 DEF S, q, b
<1>8. CASE L \in Stops(t) \cup {0} /\ q = S[L]
  <2>1. b = m => p = N
    <3> SUFFICES ASSUME b = m, p # N PROVE FALSE
      OBVIOUS
    <3>1. p < N /\ m = GrepSize /\ local.cnt # 0
      <4> HIDE DEF p, N, m, b
      <4>1. p < N
        BY <1>1, <1>2
      <4>2. QED
        BY <1>1, <1>2, <1>4, <4>1
    <3>2. a = 0
      BY <1>6, <3>1
    <3> DEFINE g == p - m
    <3> HIDE DEF p, N, m, b, a, t, d
    <3>3. g \in Nat /\ g + GrepSize <= N
      BY <1>1, <1>2, <1>4, <3>1
    <3>4. \A j \in g + 1 .. g + GrepSize : t[j] # End
      <4> SUFFICES ASSUME NEW j \in g + 1 .. g + GrepSize PROVE t[j] # End
        OBVIOUS
      <4> DEFINE u == j - g - 1
      <4>1. u \in a .. m - 1 /\ u \in a .. b - 1 /\ p - m + u + 1 = j
        BY <1>2, <3>1, <3>2, <3>3
      <4> HIDE DEF u
      <4>2. d[u] = t[j] /\ d[u] # End
        BY <1>3, <1>4, <4>1
      <4>3. QED
        BY <4>2
    <3> HIDE DEF g
    <3>5. QED
      BY <3>3, <3>4, NoEndIsLast DEF N, t
  <2>2. /\ L \in Nat /\ k \in Nat /\ L < k /\ k \in 1 .. N + 1 /\ k = L + (b - a) + 1 /\ b - a \in Nat
        /\ L + (b - a) <= N /\ (b = m => k = N + 1) /\ (b < m => k \in 1 .. N)
    <3> HIDE DEF p, N, m, b, a
    <3>1. QED
      BY <1>1, <1>2, <1>3, <1>4, <2>1
  <2>3. \A j \in a .. b - 1 : d[j] = t[p - m + j + 1] /\ t[p - m + j + 1] # End
    <3> HIDE DEF p, N, m, b, a, d, t
    <3>1. \A j \in a .. b - 1 : j \in a .. m - 1
      BY <1>2, <1>3
    <3>2. QED
      BY <1>3, <1>4, <3>1
  <2>4. \A j \in 1 .. b - a : d[a + j - 1] = t[L + j] /\ t[L + j] # End
    <3> HIDE DEF d, t
    <3> SUFFICES ASSUME NEW j \in 1 .. b - a PROVE d[a + j - 1] = t[L + j] /\ t[L + j] # End
      OBVIOUS
    <3>1. a + j - 1 \in a .. b - 1 /\ p - m + (a + j - 1) + 1 = L + j
      <4> HIDE DEF p, m, b, a
      <4>1. QED
        BY <1>2, <1>3
    <3> HIDE DEF p, m, b, a, L
    <3>2. QED
      BY <2>3, <3>1
  <2> HIDE DEF p, m, b, a, d, q
  <2>5. k \in Stops(t)
    <3>1. CASE b = m
      BY <2>2, <3>1 DEF Stops, N
    <3>2. CASE b # m
      <4>1. b < m /\ b \in a .. m - 1 /\ p - m + b + 1 = k
        BY <1>2, <1>3, <3>2
      <4>2. d[b] = End /\ d[b] = t[k] /\ k \in 1 .. N
        BY <1>3, <1>4, <2>2, <4>1
      <4>3. QED
        BY <1>1, <4>2 DEF Stops
    <3>3. QED
      BY <3>1, <3>2
  <2> HIDE DEF L, k, t, N
  <2>6. \A j \in Stops(t) : j <= L \/ j >= k
    <3> SUFFICES ASSUME NEW j \in Stops(t), ~(j <= L), ~(j >= k) PROVE FALSE
      OBVIOUS
    <3>1. j \in Nat /\ (j = N + 1 \/ t[j] = End)
      BY <1>1 DEF Stops, N
    <3>2. j - L \in 1 .. b - a /\ L + (j - L) = j /\ j # N + 1
      BY <1>1, <2>2, <3>1
    <3>3. t[j] # End
      BY <2>4, <3>2
    <3>4. QED
      BY <3>1, <3>2, <3>3
  <2> DEFINE line == SubSeq(t, L + 1, k - 1)
  <2>7. Line = line
    <3>1. k - 1 = L + (b - a) /\ k - 1 \in Nat /\ k - 1 <= N
      BY <1>1, <2>2
    <3>2. line = [j \in 1 .. b - a |-> t[L + j]]
      <4> DEFINE u == L + 1
                 v == k - 1
      <4>1. u \in Nat /\ v \in Nat /\ u + (b - a) = v + 1
        BY <2>2, <3>1
      <4>2. \A j \in 1 .. b - a : u + j - 1 = L + j
        BY <2>2
      <4> HIDE DEF u, v
      <4>3. SubSeq(t, u, v) = [j \in 1 .. b - a |-> t[u + j - 1]]
        <5>1. SubSeq(t, u, v) = [j \in 1 .. (v - u) + 1 |-> t[u + j - 1]]
          BY <1>1, <4>1
        <5>2. (v - u) + 1 = b - a
          <6> DEFINE w == b - a
          <6>1. w \in Nat /\ u + w = v + 1
            BY <2>2, <4>1
          <6> HIDE DEF w
          <6>2. (v - u) + 1 = w
            BY <4>1, <6>1
          <6>3. QED
            BY <6>2 DEF w
        <5>3. QED
          BY <5>1, <5>2
      <4>4. QED
        BY <4>2, <4>3 DEF u, v
    <3> HIDE DEF line
    <3>3. QED
      BY <1>5, <2>4, <3>2
  <2>8. S[k] = IF Occurs(pcb.args, line) THEN Append(S[L], <<Here.name, line>>) ELSE S[L]
    BY <1>8, <2>2, <2>5, <2>6, NextLine DEF t, N
  <2> HIDE DEF line
  <2> HIDE DEF S
  <2>9. o = S[k]
    <3>1. Line \in Seq(Glyphs) /\ \A j \in DOMAIN Line : Line[j] # Nul
      <4>1. \A j \in 1 .. N : t[j] # Nul /\ t[j] \in Glyphs
        <5>1. Nul \notin ToSet(t)
          BY DEF IsText, t
        <5>2. QED
          BY <1>1, <5>1 DEF ToSet
      <4>2. \A j \in 1 .. b - a : L + j \in 1 .. N
        BY <1>1, <2>2
      <4>3. \A j \in 1 .. b - a : d[a + j - 1] # Nul /\ d[a + j - 1] \in Glyphs
        BY <2>4, <4>1, <4>2
      <4>4. QED
        BY <1>5, <2>2, <4>3
    <3>2. Shown = Line
      BY <3>1, ShownWhole DEF Shown
    <3>3. Hit(pcb.args, Line) <=> Occurs(pcb.args, line)
      BY <2>7, <3>1 DEF Hit, ToSet
    <3>4. QED
      BY <1>8, <2>7, <2>8, <3>2, <3>3 DEF q
  <2>10. b + 1 = m => k = p
    BY <1>2, <1>3 DEF k
  <2>11. ASSUME k = N PROVE S[N + 1] = S[k]
    <3>1. N + 1 \in Stops(t) /\ N + 1 \in 1 .. N + 1 /\ N < N + 1
      BY <1>1 DEF Stops, N
    <3>2. \A j \in Stops(t) : j <= k \/ j >= N + 1
      <4>1. \A j \in Stops(t) : j \in 1 .. N \/ j = N + 1
        BY <1>1 DEF Stops, N
      <4>2. QED
        BY <1>1, <2>11, <4>1
    <3> DEFINE rest == SubSeq(t, k + 1, (N + 1) - 1)
    <3>3. S[N + 1] = IF Occurs(pcb.args, rest) THEN Append(S[k], <<Here.name, rest>>) ELSE S[k]
      BY <1>1, <2>2, <2>5, <2>11, <3>1, <3>2, NextLine DEF t, N, S
    <3>4. rest = <<>>
      BY <1>1, <2>11
    <3> HIDE DEF rest
    <3>5. ~Occurs(pcb.args, rest)
      BY <3>4, NoneInNothing DEF ArgInv
    <3>6. QED
      BY <3>3, <3>5
  <2>12. CASE b + 1 < m
    <3>1. ~(b + 1 >= m)
      BY <1>2, <1>3, <2>12
    <3>2. QED
      BY <2>5, <2>9, <2>12, <3>1 DEF b, m, k, p, t, S
  <2>13. CASE b + 1 = m
    <3>1. k = p /\ (local.cnt = 0 => p = N)
      BY <1>4, <2>10, <2>13
    <3>2. ~(b + 1 < m)
      BY <1>2, <1>3, <2>13
    <3>3. local.cnt = 0 => o = S[N + 1]
      BY <2>9, <2>11, <3>1
    <3>4. p \in Stops(t) /\ o = S[p]
      BY <2>5, <2>9, <3>1
    <3>5. QED
      BY <3>2, <3>3, <3>4 DEF b, m, p, t, N, S
  <2>14. CASE b = m
    <3>1. ~(b + 1 < m) /\ p = N /\ o = S[N + 1]
      <4>1. ~(b + 1 < m)
        BY <1>2, <1>3, <2>14
      <4>2. p = N /\ k = N + 1
        BY <2>1, <2>2, <2>14
      <4>3. QED
        BY <2>9, <4>1, <4>2
    <3>2. QED
      BY <3>1 DEF b, m, p, t, N, S
  <2>15. b + 1 < m \/ b + 1 = m \/ b = m
    BY <1>2, <1>3
  <2>16. QED
    BY <2>12, <2>13, <2>14, <2>15
<1>9. QED
  BY <1>4, <1>7, <1>8

\* The file grep is at.
LEMMA HereIs ==
  ASSUME ArgInv, OnEntry(local.fd, Dir[1]), Nth > 0
  PROVE  /\ Nth \in 1 .. Len(Dir)
         /\ \E i \in DOMAIN Dir :
              /\ Here = Dir[i] /\ Dir[i].name = Dir[Nth].name
              /\ IF Dir[i].name[1] = "." THEN FoundIn(Here, pcb.args) = <<>>
                 ELSE /\ Dir[i].type # 1
                      /\ FoundIn(Here, pcb.args) = Sums(LinesFound(Here))[Len(TextOf(Here)) + 1]
<1> DEFINE n == Nth
<1>1. n \in 1 .. Len(Dir) /\ Dir[1].type = 1
  BY DirectoryFacts DEF OnEntry, IsOn, Nth, Pos
<1>2. PICK i \in DOMAIN Dir : FirstOf(Dir[n].name) = Dir[i] /\ Dir[i].name = Dir[n].name
  <2>1. n \in DOMAIN Dir
    BY <1>1, NamesAre
  <2>2. Entries(Dir[n].name) # {}
    BY <2>1 DEF Entries
  <2>3. QED
    BY <2>2, FirstIs
<1>3. Here = Dir[i]
  BY <1>2 DEF Here
<1>4. CASE Dir[i].name[1] = "."
  <2>1. FoundIn(Dir[i], pcb.args) = <<>>
    BY <1>4 DEF FoundIn
  <2>2. QED
    BY <1>1, <1>2, <1>3, <1>4, <2>1
<1>5. CASE Dir[i].name[1] # "."
  <2> DEFINE N == Len(TextOf(Dir[i]))
             G == LinesFound(Dir[i])
  <2>1. FoundIn(Dir[i], pcb.args) = FlattenSeq(G)
    BY <1>5 DEF FoundIn, LinesFound
  <2>2. N \in Nat /\ Len(G) = N + 1 /\ \A k \in 1 .. N + 1 : G[k] \in Seq(FoundLines)
    BY LinesAre
  <2> HIDE DEF N, G
  <2>3. Len(G) \in Nat \ {0} /\ 1 \in 1 .. N + 1
    BY <2>2
  <2>4. FlattenSeq(G) = Sums(G)[N + 1]
    BY <2>2, <2>3, FlattenIs
  <2>5. Dir[i].type # 1
    <3>1. Dir[1].name[1] = "."
      BY DirectoryFacts
    <3>2. QED
      BY <1>5, <3>1, PrintAssumption
  <2>6. QED
    BY <1>1, <1>2, <1>3, <1>5, <2>1, <2>4, <2>5 DEF N, G
<1>6. QED
  BY <1>4, <1>5

\* The list for a new name, what is added to the last list, and the last one complete.
LEMMA FilledAnew ==
  ASSUME NEW o, NEW a, NEW n \in Nat, Filled(o, a, n, n)
  PROVE  Filled(Append(o, <<>>), a, n + 1, n) /\ Append(o, <<>>)[n + 1] = <<>>
<1> DEFINE S == {o[i] : i \in 1 .. n} \cup {<<>>}
<1>1. o = [i \in 1 .. n |-> o[i]]
  BY DEF Filled
<1>2. o \in Seq(S) /\ Len(o) = n
  <2>1. \A i \in 1 .. n : o[i] \in S
    OBVIOUS
  <2> HIDE DEF S
  <2>2. [i \in 1 .. n |-> o[i]] \in Seq(S) /\ Len([i \in 1 .. n |-> o[i]]) = n
    BY <2>1
  <2>3. QED
    BY <1>1, <2>2
<1> DEFINE x == <<>>
<1>3. x \in S
  OBVIOUS
<1> HIDE DEF S, x
<1>4. /\ DOMAIN Append(o, x) = 1 .. n + 1 /\ Append(o, x)[n + 1] = x
      /\ Append(o, x) = [i \in 1 .. n + 1 |-> Append(o, x)[i]]
      /\ \A i \in 1 .. n : Append(o, x)[i] = o[i]
  <2> DEFINE g == Append(o, x)
  <2>1. g \in Seq(S) /\ Len(g) = n + 1 /\ g[n + 1] = x
    BY <1>2, <1>3
  <2>2. \A i \in 1 .. n : g[i] = o[i]
    BY <1>2, <1>3
  <2> HIDE DEF g
  <2>3. DOMAIN g = 1 .. n + 1 /\ g = [i \in 1 .. n + 1 |-> g[i]]
    BY <2>1
  <2>4. QED
    BY <2>1, <2>2, <2>3 DEF g
<1>5. Filled(Append(o, x), a, n + 1, n)
  BY <1>4 DEF Filled
<1>6. QED
  BY <1>4, <1>5 DEF x

LEMMA FilledMore ==
  ASSUME NEW o, NEW a, NEW n \in Nat \ {0}, Filled(o, a, n, n - 1), NEW x,
         NEW r, r = [o EXCEPT ![Len(o)] = x]
  PROVE  Filled(r, a, n, n - 1)
<1>1. o = [i \in 1 .. n |-> o[i]]
  BY DEF Filled
<1>2. Len(o) = n
  <2>1. Len([i \in 1 .. n |-> o[i]]) = n
    OBVIOUS
  <2>2. QED
    BY <1>1, <2>1
<1> DEFINE g == [o EXCEPT ![n] = x]
<1>3. DOMAIN o = 1 .. n
  BY <1>1
<1>4. DOMAIN g = 1 .. n /\ g = [i \in 1 .. n |-> g[i]] /\ \A i \in 1 .. n-1 : g[i] = o[i]
  <2>1. n \in DOMAIN o /\ \A i \in 1 .. n-1 : i \in DOMAIN o /\ i # n
    BY <1>3
  <2>2. g = [i \in DOMAIN o |-> IF i = n THEN x ELSE o[i]]
    BY <1>3
  <2> HIDE DEF g
  <2>3. DOMAIN g = DOMAIN o /\ \A i \in DOMAIN o : g[i] = IF i = n THEN x ELSE o[i]
    BY <2>2
  <2>4. g = [i \in DOMAIN o |-> g[i]]
    BY <2>2
  <2>5. QED
    BY <1>3, <2>1, <2>3, <2>4
<1> HIDE DEF g
<1>5. Filled(g, a, n, n - 1)
  BY <1>4 DEF Filled
<1>6. QED
  BY <1>2, <1>4, <1>5 DEF g

LEMMA FilledLast ==
  ASSUME NEW o, NEW a, NEW n \in Nat \ {0}, Filled(o, a, n, n - 1),
         IsText(FirstOf(Dir[n].name)) => o[n] = FoundIn(FirstOf(Dir[n].name), a)
  PROVE  Filled(o, a, n, n)
<1>1. \A i \in 1 .. n : i = n \/ i \in 1 .. n-1
  OBVIOUS
<1>2. QED
  BY <1>1 DEF Filled

\* The descriptor of the directory stays.
LEMMA SameName ==
  ASSUME pcb' = pcb, local'.fd = local.fd, fds'[Child][local.fd] = fds[Child][local.fd]
  PROVE  /\ Nth' = Nth /\ Here' = Here /\ LinesFound(Here)' = LinesFound(Here)
         /\ OnEntry(local.fd, Dir[1]) => OnEntry(local.fd, Dir[1])'
<1>1. Nth' = Nth
  BY DEF Nth, Pos
<1>2. Here' = Here
  BY <1>1 DEF Here
<1>3. LinesFound(Here)' = LinesFound(Here)
  BY <1>2 DEF LinesFound
<1>4. OnEntry(local.fd, Dir[1]) => OnEntry(local.fd, Dir[1])'
  BY DEF OnEntry
<1>5. QED
  BY <1>1, <1>2, <1>3, <1>4

LEMMA NextName ==
  ASSUME DescInv, ArgInv, NEW f, OnEntry(f, Dir[1]), read(Child, f, NameBuf), local'.fd = f,
         Filled(out, pcb.args, Pos(f), Pos(f))
  PROVE  /\ OnEntry(local.fd, Dir[1])'
         /\ res'[Child].ret = 0 => Nth' = Len(Dir) /\ Filled(out, pcb.args, Nth', Nth')
         /\ res'[Child].ret # 0 => /\ Nth' > 0 /\ res'[Child].data = Dir[Nth'].name
                                   /\ Filled(out, pcb.args, Nth' - 1, Nth' - 1)
<1> DEFINE p == Pos(f)
<1>1. /\ f \in Fds \ {0, 1} /\ IsOn(fds[Child][f], Dir[1]) /\ p \in 0 .. Len(Dir) /\ Dir[1].type = 1
      /\ 1 \in DOMAIN Dir /\ Len(Dir) \in Nat
  BY DirectoryFacts DEF OnEntry, IsOn, Pos
<1>2. NameBuf \in Nat \ {0} /\ NameBuf >= NameSize /\ Int32(NameBuf)
  BY Sizes, ProgramsAssumption, DirectoryFacts
<1>3. IF p = Len(Dir) THEN Moves(f, 0, <<>>) ELSE p + 1 \in DOMAIN Dir /\ Moves(f, 1, Dir[p + 1].name)
  BY <1>1, <1>2, ReadGives
<1>4. Nth' = fds'[Child][f].pos
  BY DEF Nth, Pos
<1>5. Len(TextOf(Dir[1])) \in Nat
  BY <1>1, TextIs
<1>6. CASE p = Len(Dir)
  <2>1. Moves(f, 0, <<>>) /\ p + 0 <= Len(Dir) /\ p + 0 = p
    BY <1>1, <1>3, <1>6
  <2>2. IsOn(fds'[Child][f], Dir[1]) /\ fds'[Child][f].pos = p
    BY <1>1, <1>5, <2>1, StaysOn
  <2>3. res'[Child].ret = 0
    BY <2>1 DEF Moves
  <2>4. QED
    BY <1>1, <1>4, <1>6, <2>2, <2>3 DEF OnEntry
<1>7. CASE p # Len(Dir)
  <2>1. Moves(f, 1, Dir[p + 1].name) /\ p + 1 <= Len(Dir) /\ p + 1 \in DOMAIN Dir /\ p + 1 > 0
        /\ (p + 1) - 1 = p
    BY <1>1, <1>3, <1>7
  <2>2. IsOn(fds'[Child][f], Dir[1]) /\ fds'[Child][f].pos = p + 1
    BY <1>1, <1>5, <2>1, StaysOn
  <2>3. res'[Child].ret # 0 /\ res'[Child].data = Dir[p + 1].name
    BY <2>1, DirectoryFacts DEF Moves
  <2>4. QED
    BY <1>1, <1>4, <2>1, <2>2, <2>3 DEF OnEntry
<1>8. QED
  BY <1>6, <1>7

\* The steps of grep between files.
LEMMA GrepStarts ==
  ASSUME ProgInv, ArgInv, prog = "grep", Searching, GrepOpen \/ GrepFirst \/ GrepNext
  PROVE  Searching'
<1>0. DescInv /\ DOMAIN local = LocalNames
  BY DEF ProgInv
<1>1. CASE GrepOpen
  <2>1. /\ pc = "main" /\ pc' = "opened" /\ open(Child, Dot) /\ ~ArgsFail(GrepSize)
        /\ UNCHANGED <<pcb, local, out, code>> /\ code = 0 /\ out = <<>>
        /\ DOMAIN local.data = 0 .. GrepSize /\ \A i \in 0 .. GrepSize : local.data[i] # End
    BY <1>1 DEF GrepOpen, CallThen, At, Goto, Searching, NoEnds
  <2> DEFINE r == res'[Child].ret
  <2>2. r # Fail => r \in Fds \ {0, 1} /\ IsOn(fds'[Child][r], Dir[1]) /\ fds'[Child][r].pos = 0
    BY <1>0, <2>1, OpenGives, DotIs
  <2>3. (ret # Fail => OnEntry(ret, Dir[1]) /\ Pos(ret) = 0)'
    BY <2>2 DEF OnEntry, Pos, ret
  <2>4. ~ArgsFail(GrepSize)'
    BY <2>1 DEF ArgsFail
  <2>5. QED
    BY <2>1, <2>3, <2>4 DEF Searching, InFile, NoEnds
<1>2. CASE GrepFirst \/ GrepNext
  <2>1. PICK f : /\ OnEntry(f, Dir[1]) /\ Filled(out, pcb.args, Pos(f), Pos(f)) /\ read(Child, f, NameBuf)
                 /\ local'.fd = f /\ local'.data = local.data
    <3>1. CASE GrepFirst
      <4>1. /\ pc = "opened" /\ ret # Fail /\ read(Child, ret, NameBuf) /\ local' = [local EXCEPT !.fd = ret]
            /\ OnEntry(ret, Dir[1]) /\ Pos(ret) = 0 /\ out = <<>>
        BY <3>1 DEF GrepFirst, CallThen, At, Searching
      <4>2. local'.fd = ret /\ local'.data = local.data
        BY <1>0, <4>1 DEF LocalNames
      <4>3. Filled(out, pcb.args, 0, 0)
        BY <4>1 DEF Filled
      <4>4. QED
        BY <4>1, <4>2, <4>3
    <3>2. CASE GrepNext
      BY <3>2 DEF GrepNext, CallThen, At, Searching, Nth
    <3>3. QED
      BY <1>2, <3>1, <3>2
  <2>2. /\ pc' = "name" /\ UNCHANGED <<pcb, out, code>> /\ code = 0 /\ ~ArgsFail(GrepSize)
        /\ DOMAIN local.data = 0 .. GrepSize /\ \A i \in 0 .. GrepSize : local.data[i] # End
    BY <1>2 DEF GrepFirst, GrepNext, CallThen, At, Goto, Searching, NoEnds
  <2>3. /\ OnEntry(local.fd, Dir[1])'
        /\ res'[Child].ret = 0 => Nth' = Len(Dir) /\ Filled(out, pcb.args, Nth', Nth')
        /\ res'[Child].ret # 0 => /\ Nth' > 0 /\ res'[Child].data = Dir[Nth'].name
                                  /\ Filled(out, pcb.args, Nth' - 1, Nth' - 1)
    BY <1>0, <2>1, <2>2, NextName
  <2>4. ~ArgsFail(GrepSize)'
    BY <2>2 DEF ArgsFail
  <2>5. QED
    BY <2>1, <2>2, <2>3, <2>4 DEF Searching, InFile, NoEnds, ret, data
<1>3. QED
  BY <1>1, <1>2

LEMMA GrepOpensFile ==
  ASSUME ProgInv, ArgInv, prog = "grep", Searching, GrepSkip \/ GrepFile
  PROVE  Searching'
<1>0. DescInv /\ DOMAIN local = LocalNames
  BY DEF ProgInv
<1>1. /\ pc = "name" /\ UNCHANGED <<pcb, code>> /\ code = 0 /\ ~ArgsFail(GrepSize)
      /\ DOMAIN local.data = 0 .. GrepSize /\ (\A i \in 0 .. GrepSize : local.data[i] # End)
      /\ OnEntry(local.fd, Dir[1]) /\ Nth > 0 /\ data = Dir[Nth].name
      /\ out' = Append(out, <<>>) /\ Filled(out, pcb.args, Nth - 1, Nth - 1)
  BY DEF GrepSkip, GrepFile, At, Goto, Searching, NoEnds
<1>2. /\ Nth \in 1 .. Len(Dir) /\ Len(Dir) \in Nat
      /\ \E i \in DOMAIN Dir :
           /\ Here = Dir[i] /\ Dir[i].name = Dir[Nth].name
           /\ Dir[i].name[1] = "." => FoundIn(Here, pcb.args) = <<>>
  BY <1>1, HereIs, NamesAre
<1>7. Filled(out', pcb.args, Nth, Nth - 1) /\ out'[Nth] = <<>>
  <2> DEFINE n == Nth - 1
  <2>1. n \in Nat /\ n + 1 = Nth
    BY <1>2
  <2>2. Filled(out, pcb.args, n, n)
    BY <1>1
  <2> HIDE DEF n
  <2>3. Filled(Append(out, <<>>), pcb.args, n + 1, n) /\ Append(out, <<>>)[n + 1] = <<>>
    BY <2>1, <2>2, FilledAnew
  <2>4. QED
    BY <1>1, <2>1, <2>3 DEF n
<1>3. ~ArgsFail(GrepSize)'
  BY <1>1 DEF ArgsFail
<1>4. CASE GrepSkip
  <2>1. pc' = "again" /\ UNCHANGED <<vars, local>> /\ data[1] = "."
    BY <1>4 DEF GrepSkip, Goto
  <2>2. fds' = fds
    BY <2>1 DEF vars
  <2>3. Filled(out', pcb.args, Nth, Nth)
    <3>1. FoundIn(FirstOf(Dir[Nth].name), pcb.args) = <<>>
      BY <1>1, <1>2, <2>1 DEF Here
    <3>2. Nth \in Nat \ {0}
      BY <1>2
    <3>3. QED
      BY <1>7, <3>1, <3>2, FilledLast
  <2>4. Nth' = Nth /\ OnEntry(local.fd, Dir[1])'
    BY <1>1, <2>1, <2>2, SameName
  <2>5. QED
    BY <1>1, <1>3, <2>1, <2>3, <2>4 DEF Searching, InFile, NoEnds
<1>5. CASE GrepFile
  <2>1. pc' = "file" /\ open(Child, data) /\ local' = [local EXCEPT !.name = data] /\ data[1] # "."
    BY <1>5 DEF GrepFile, Goto
  <2>2. local'.name = data /\ local'.fd = local.fd /\ local'.data = local.data
    BY <1>0, <2>1 DEF LocalNames
  <2>3. Dir[Nth].name \in Seq(STRING)
    BY <1>2, NamesAre
  <2> DEFINE r == res'[Child].ret
  <2>4. /\ r # Fail => /\ r \in Fds \ {0, 1} /\ ~fds[Child][r].inuse
                       /\ IsOn(fds'[Child][r], FirstOf(data)) /\ fds'[Child][r].pos = 0
        /\ \A g \in Fds : fds[Child][g].inuse => fds'[Child][g] = fds[Child][g]
    BY <1>0, <1>1, <2>1, <2>3, OpenGives
  <2>5. local.fd \in Fds \ {0, 1} /\ fds[Child][local.fd].inuse
    BY <1>1 DEF OnEntry, IsOn
  <2>6. fds'[Child][local.fd] = fds[Child][local.fd] /\ (r # Fail => r # local.fd)
    BY <2>4, <2>5
  <2>7. Nth' = Nth /\ Here' = Here /\ OnEntry(local.fd, Dir[1])'
    BY <1>1, <2>2, <2>6, SameName
  <2>8. AtName'
    BY <1>1, <2>1, <2>2, <2>7 DEF AtName
  <2>9. Here = FirstOf(data)
    BY <1>1 DEF Here
  <2>10. r # Fail => /\ r # local'.fd /\ r \in Fds \ {0, 1}
                     /\ IsOn(fds'[Child][r], Here') /\ fds'[Child][r].pos = 0
    BY <2>2, <2>4, <2>6, <2>7, <2>9
  <2>11. (ret # Fail => ret # local.fd /\ OnEntry(ret, Here) /\ Pos(ret) = 0)'
    BY <2>10 DEF OnEntry, Pos, ret
  <2>12. QED
    BY <1>1, <1>3, <1>7, <2>1, <2>2, <2>7, <2>8, <2>11 DEF Searching, InFile, NoEnds
<1>6. QED
  BY <1>4, <1>5

LEMMA GrepEnds ==
  ASSUME ProgInv, ArgInv, prog = "grep", Searching, GrepClose \/ GrepExits
  PROVE  Searching'
<1>0. DescInv /\ fds \in [Procs -> [Fds -> Descriptor]] /\ Child \in Procs
  BY Sizes DEF ProgInv, DescInv, DescriptorsOK
<1>1. /\ UNCHANGED <<pcb, out, local>> /\ code = 0 /\ code' = 0 /\ ~ArgsFail(GrepSize)
      /\ DOMAIN local.data = 0 .. GrepSize /\ (\A i \in 0 .. GrepSize : local.data[i] # End)
      /\ OnEntry(local.fd, Dir[1])
  BY DEF GrepClose, GrepExits, CallThen, Exit, At, Goto, Searching, InFile, NoEnds
<1>2. ~ArgsFail(GrepSize)'
  BY <1>1 DEF ArgsFail
<1>3. CASE GrepClose
  <2>1. /\ pc' = "again" /\ close(Child, local.file) /\ local.file # local.fd
        /\ Filled(out, pcb.args, Nth, Nth)
    BY <1>3 DEF GrepClose, CallThen, At, Goto, Searching, InFile, AtFile
  <2>2. fds'[Child][local.fd] = fds[Child][local.fd]
    <3>1. fds' = fds \/ fds' = [fds EXCEPT ![Child][local.file] = NoFile]
      BY <2>1 DEF close, Close, CloseRefused, Answer, SetFd
    <3>2. local.fd \in Fds /\ fds[Child] \in [Fds -> Descriptor]
      BY <1>0, <1>1 DEF OnEntry
    <3>3. CASE fds' = [fds EXCEPT ![Child][local.file] = NoFile]
      <4>1. fds'[Child] = [fds[Child] EXCEPT ![local.file] = NoFile]
        BY <1>0, <3>3
      <4>2. QED
        BY <2>1, <3>2, <4>1
    <3>4. QED
      BY <3>1, <3>3
  <2>3. Nth' = Nth /\ OnEntry(local.fd, Dir[1])'
    BY <1>1, <2>2, SameName
  <2>4. QED
    BY <1>1, <1>2, <2>1, <2>3 DEF Searching, InFile, NoEnds
<1>4. CASE GrepExits
  <2>1. /\ pc' = "exit" /\ Filled(out, pcb.args, Len(Dir), Len(Dir))
    BY <1>4 DEF GrepExits, Exit, At, Goto, Searching
  <2>2. QED
    BY <1>1, <1>2, <2>1 DEF Searching, InFile, NoEnds
<1>5. QED
  BY <1>3, <1>4

\* grep reads on in its file.
LEMMA GrepReads ==
  ASSUME ProgInv, ArgInv, prog = "grep", Searching, GrepRead
  PROVE  Searching'
<1> DEFINE t == TextOf(Here)
           N == Len(t)
           S == Sums(LinesFound(Here))
           f == local'.file
           m == local'.last
           p == Pos(f)
           o == out[Nth]
<1>0. DescInv /\ DOMAIN local = LocalNames /\ GrepSize \in Nat \ {0}
  BY Sizes DEF ProgInv
<1>1. /\ pc \in {"file", "more"} /\ pc' = "text" /\ UNCHANGED <<pcb, out, code>> /\ code = 0
      /\ ~ArgsFail(GrepSize) /\ read(Child, f, GrepSize - m)
      /\ DOMAIN local.data = 0 .. GrepSize /\ (\A i \in 0 .. GrepSize : local.data[i] # End)
      /\ OnEntry(local.fd, Dir[1]) /\ AtName /\ Filled(out, pcb.args, Nth, Nth - 1)
  BY DEF GrepRead, CallThen, At, Goto, Searching, InFile, NoEnds
<1>2. PICK i \in DOMAIN Dir : Here = Dir[i] /\ Dir[i].type # 1
  BY <1>1, HereIs DEF AtName
<1>3. /\ N \in Nat /\ t \in Seq(Glyphs) /\ S[0] = <<>>
  BY <1>2, TextIs, LinesAre
<1>4. /\ local'.fd = local.fd /\ local'.data = local.data /\ local'.name = local.name
      /\ f # local.fd /\ OnEntry(f, Here) /\ m \in 0 .. GrepSize - 1
      /\ IsText(Here) =>
           /\ m <= p /\ (\A j \in 0 .. m-1 : local.data[j] = t[p - m + j + 1])
           /\ \/ p - m \in Stops(t) \cup {0} /\ o = S[p - m]
              \/ m = 0 /\ p = N /\ o = S[N + 1]
  <2>1. CASE pc = "file"
    <3>1. local' = [local EXCEPT !.file = ret, !.last = 0] /\ ret # Fail
      BY <2>1 DEF GrepRead, At
    <3>2. f = ret /\ m = 0 /\ local'.fd = local.fd /\ local'.data = local.data /\ local'.name = local.name
      BY <1>0, <3>1 DEF LocalNames
    <3>3. o = <<>> /\ ret # local.fd /\ OnEntry(ret, Here) /\ Pos(ret) = 0
      BY <2>1, <3>1 DEF Searching
    <3> HIDE DEF S, t, N, f, m, p, o
    <3>4. p = 0 /\ p - m = 0 /\ m \in 0 .. GrepSize - 1 /\ 0 .. m - 1 = {} /\ m <= p
      BY <1>0, <3>2, <3>3 DEF p
    <3>5. QED
      BY <1>3, <3>2, <3>3, <3>4
  <2>2. CASE pc = "more"
    <3>1. local' = local
      BY <2>2 DEF GrepRead, At
    <3>2. AtFile /\ (IsText(Here) => MoreInv)
      BY <2>2 DEF Searching, InFile
    <3>3. m \in 0 .. GrepSize - 1
      BY <2>2, <3>1 DEF ProgInv, GrepInv
    <3>4. Place = p
      BY <3>1 DEF Place
    <3>5. QED
      BY <3>1, <3>2, <3>3, <3>4 DEF AtFile, MoreInv, Buffered, Reached, Ended
  <2>3. QED
    BY <1>1, <2>1, <2>2
<1>5. f \in Fds \ {0, 1} /\ IsOn(fds[Child][f], Dir[i]) /\ p \in 0 .. N
  <2>1. f \in Fds \ {0, 1} /\ IsOn(fds[Child][f], Dir[i])
    BY <1>2, <1>4 DEF OnEntry
  <2>2. QED
    BY <1>2, <2>1 DEF IsOn, Pos
<1> DEFINE n == GrepSize - m
<1>6. n \in Nat \ {0} /\ Int32(n)
  <2> HIDE DEF m
  <2>1. n \in Nat \ {0} /\ n \in 0 .. GrepSize
    BY <1>0, <1>4
  <2> HIDE DEF n
  <2>2. QED
    BY <2>1, Sizes
<1>7. PICK c : Chunk(Dir[i], p, n, c) /\ Moves(f, Len(c), c)
  BY <1>0, <1>1, <1>2, <1>5, <1>6, ReadGives
<1>8. /\ c \in Seq(Glyphs) /\ Len(c) = (IF n < N - p THEN n ELSE N - p)
      /\ \A j \in 1 .. Len(c) : c[j] = t[p + j]
  BY <1>2, <1>7 DEF Chunk
<1> DEFINE r == Len(c)
<1>9. /\ r \in Nat /\ DOMAIN c = 1 .. r /\ p + r \in 0 .. N /\ (p + r < N => m + r = GrepSize)
      /\ (r = 0 => p + r = N) /\ (p = N => r = 0)
  <2>1. r \in Nat /\ DOMAIN c = 1 .. r
    BY <1>8
  <2> HIDE DEF r, N, p
  <2>2. r = IF n < N - p THEN n ELSE N - p
    BY <1>8 DEF r
  <2> HIDE DEF m
  <2>3. QED
    BY <1>0, <1>3, <1>4, <1>5, <1>6, <2>1, <2>2
<1>10. IsOn(fds'[Child][f], Dir[i]) /\ fds'[Child][f].pos = p + r
  <2>1. Len(TextOf(Dir[i])) = N /\ p + r <= N
    BY <1>2, <1>3, <1>9
  <2>2. QED
    BY <1>0, <1>2, <1>3, <1>5, <1>7, <1>9, <2>1, StaysOn
<1>11. fds'[Child][local.fd] = fds[Child][local.fd]
  BY <1>1, <1>4, <1>7 DEF Moves, OnEntry
<1>12. /\ Nth' = Nth /\ Here' = Here /\ LinesFound(Here)' = LinesFound(Here)
       /\ OnEntry(local.fd, Dir[1])'
  BY <1>1, <1>4, <1>11, SameName
<1>13. ~ArgsFail(GrepSize)' /\ AtName'
  BY <1>1, <1>4, <1>12 DEF ArgsFail, AtName
<1>14. AtFile'
  BY <1>2, <1>4, <1>5, <1>10, <1>12 DEF AtFile, OnEntry
<1>15. Place' = p + r
  BY <1>10 DEF Place, Pos
<1>16. res'[Child].ret = r /\ res'[Child].data = c
  BY <1>7 DEF Moves
<1>17. ASSUME IsText(Here) PROVE TextInv'
  <2>1. (p + r) - r = p /\ Place' - r = p
    <3> HIDE DEF p, r
    <3>1. QED
      BY <1>5, <1>9, <1>15
  <2>2. \A j \in 1 .. r : c[j] = t[Place' - r + j]
    <3> HIDE DEF p, r, t
    <3>1. QED
      BY <1>8, <2>1 DEF r
  <2>3. Buffered(0, local.last, Place - ret)'
    <3>1. (Place - ret)' = p
      BY <1>16, <2>1 DEF ret
    <3>2. QED
      BY <1>4, <1>12, <1>17, <3>1 DEF Buffered
  <2>4. Reached(Place - ret - local.last)' \/ (Ended' /\ r = 0)
    <3>1. (Place - ret - local.last)' = p - m
      BY <1>16, <2>1 DEF ret
    <3>2. CASE p - m \in Stops(t) \cup {0} /\ o = S[p - m]
      BY <1>1, <1>12, <3>1, <3>2 DEF Reached
    <3>3. CASE m = 0 /\ p = N /\ o = S[N + 1]
      <4>1. r = 0 /\ Place' = N
        <5> HIDE DEF p, r, N
        <5>1. QED
          BY <1>3, <1>9, <1>15, <3>3
      <4>2. QED
        BY <1>1, <1>12, <3>3, <4>1 DEF Ended
    <3>4. QED
      BY <1>4, <1>17, <3>2, <3>3
  <2>5. /\ r \in Nat /\ Len(c) = r /\ DOMAIN c = 1 .. r
        /\ Place' < N => m + r = GrepSize
        /\ r = 0 => Place' = N
    BY <1>9, <1>15
  <2> HIDE DEF r, m, N, t, o
  <2>6. ret' = r /\ data' = c /\ local'.last = m /\ Len(TextOf(Here')) = N /\ TextOf(Here') = t
    BY <1>12, <1>16 DEF ret, data, m, N, t
  <2>7. QED
    BY <2>2, <2>3, <2>4, <2>5, <2>6 DEF TextInv
<1>18. QED
  BY <1>1, <1>4, <1>12, <1>13, <1>14, <1>17 DEF Searching, InFile, NoEnds

\* What was read goes behind what the buffer held.
LEMMA GrepTakesText ==
  ASSUME ProgInv, ArgInv, prog = "grep", Searching, GrepText
  PROVE  Searching'
<1> DEFINE t == TextOf(Here)
           N == Len(t)
           S == Sums(LinesFound(Here))
           p == Place
           m == local.last
           r == ret
           d == local.data
           o == out[Nth]
<1>0. DescInv /\ DOMAIN local = LocalNames /\ GrepSize \in Nat \ {0}
  BY Sizes DEF ProgInv
<1>1. /\ pc = "text" /\ pc' = "line" /\ UNCHANGED <<vars, pcb, out, code>> /\ code = 0 /\ r # Fail
      /\ ~ArgsFail(GrepSize) /\ DOMAIN d = 0 .. GrepSize /\ (\A i \in 0 .. GrepSize : d[i] # End)
      /\ OnEntry(local.fd, Dir[1]) /\ AtName /\ AtFile /\ Filled(out, pcb.args, Nth, Nth - 1)
      /\ IsText(Here) => TextInv
  BY DEF GrepText, At, Goto, Searching, InFile, NoEnds
<1>2. m \in 0 .. GrepSize - 1 /\ r \in 0 .. GrepSize - m
  BY <1>1 DEF ProgInv, GrepInv, ret
<1>3. PICK i \in DOMAIN Dir : Here = Dir[i]
  BY <1>1, HereIs DEF AtName
<1>4. p \in Nat /\ N \in Nat
  <2>1. IsOn(fds[Child][local.file], Dir[i]) /\ N \in Nat
    BY <1>1, <1>3, TextIs DEF AtFile, OnEntry
  <2>2. QED
    BY <2>1, DirectoryFacts, TextIs, <1>3 DEF IsOn, Place, Pos
<1>5. IsText(Here) =>
        /\ (\A j \in 1 .. r : data[j] = t[p - r + j])
        /\ m <= p - r /\ (\A j \in 0 .. m-1 : d[j] = t[(p - r) - m + j + 1])
        /\ p < N => m + r = GrepSize
        /\ r = 0 => p = N
        /\ \/ (p - r - m) \in Stops(t) \cup {0} /\ o = S[p - r - m]
           \/ m = 0 /\ p = N /\ o = S[N + 1] /\ r = 0
  BY <1>1 DEF TextInv, Buffered, Reached, Ended
<1> DEFINE D(j) == IF j - m \in 0 .. r-1 THEN data[j - m + 1] ELSE d[j]
<1>6. local' = [local EXCEPT !.data = [j \in 0 .. GrepSize |-> D(j)],
                             !.cnt = r, !.last = m + r, !.start = 0]
  BY DEF GrepText
<1> HIDE DEF D
<1>7. /\ local'.data = [j \in 0 .. GrepSize |-> D(j)] /\ local'.cnt = r /\ local'.last = m + r
      /\ local'.start = 0 /\ local'.fd = local.fd /\ local'.file = local.file /\ local'.name = local.name
  BY <1>0, <1>6 DEF LocalNames
<1>8. fds' = fds /\ res' = res
  BY <1>1 DEF vars
<1>9. /\ Nth' = Nth /\ Here' = Here /\ LinesFound(Here)' = LinesFound(Here)
      /\ OnEntry(local.fd, Dir[1])'
  BY <1>1, <1>7, <1>8, SameName
<1>10. ~ArgsFail(GrepSize)' /\ AtName' /\ AtFile' /\ Place' = p
  BY <1>1, <1>7, <1>8, <1>9 DEF ArgsFail, AtName, AtFile, OnEntry, Place, Pos
<1>11. ASSUME NEW j \in 0 .. GrepSize, j < local'.start \/ j >= local'.last PROVE local'.data[j] # End
  <2> HIDE DEF m, r, d
  <2>1. ~(j - m \in 0 .. r - 1)
    BY <1>2, <1>7, <1>11
  <2>2. local'.data[j] = d[j]
    BY <1>7, <2>1 DEF D
  <2>3. QED
    BY <1>1, <2>2
<1>12. ASSUME IsText(Here) PROVE LineInv'
  <2> HIDE DEF t, N, S, p, m, r, d, o
  <2>0. /\ (\A j \in 1 .. r : data[j] = t[p - r + j])
        /\ m <= p - r /\ (\A j \in 0 .. m-1 : d[j] = t[(p - r) - m + j + 1])
        /\ p < N => m + r = GrepSize
        /\ r = 0 => p = N
        /\ \/ (p - r - m) \in Stops(t) \cup {0} /\ o = S[p - r - m]
           \/ m = 0 /\ p = N /\ o = S[N + 1] /\ r = 0
    BY <1>5, <1>12
  <2>1. m + r \in 0 .. GrepSize /\ m + r <= p /\ p - (m + r) + 0 = p - r - m
    BY <1>0, <1>2, <1>4, <2>0
  <2>2. ASSUME NEW j \in 0 .. (m + r) - 1 PROVE local'.data[j] = t[p - (m + r) + j + 1]
    <3>1. j \in 0 .. GrepSize
      BY <1>0, <1>2
    <3>2. local'.data[j] = D(j)
      BY <1>7, <3>1
    <3>3. CASE j < m
      <4>1. j \in 0 .. m - 1 /\ ~(j - m \in 0 .. r - 1) /\ (p - r) - m + j + 1 = p - (m + r) + j + 1
        BY <1>2, <1>4, <3>3
      <4>2. D(j) = d[j]
        BY <4>1 DEF D
      <4>3. QED
        BY <2>0, <3>2, <4>1, <4>2
    <3>4. CASE ~(j < m)
      <4> DEFINE k == j - m + 1
      <4>1. j - m \in 0 .. r - 1 /\ k \in 1 .. r /\ p - r + k = p - (m + r) + j + 1
        BY <1>2, <1>4, <3>4
      <4> HIDE DEF k
      <4>2. D(j) = data[k]
        BY <4>1 DEF D, k
      <4>3. data[k] = t[p - r + k]
        BY <2>0, <4>1
      <4>4. QED
        BY <3>2, <4>1, <4>2, <4>3
    <3>5. QED
      BY <3>3, <3>4
  <2>3. Buffered(local.start, local.last, Place)'
    BY <1>7, <1>9, <1>10, <2>1, <2>2 DEF Buffered, t
  <2>5. /\ Place' < N => local'.last = GrepSize
        /\ local'.cnt = 0 => Place' = N
    BY <2>0, <1>7, <1>10
  <2>6. Reached(Place - local.last + local.start)' \/ (Ended /\ local.start = 0 /\ local.cnt = 0)'
    <3>1. (Place - local.last + local.start)' = p - r - m
      BY <1>7, <1>10, <2>1
    <3>2. CASE (p - r - m) \in Stops(t) \cup {0} /\ o = S[p - r - m]
      BY <1>1, <1>9, <3>1, <3>2 DEF Reached, t, o, S
    <3>3. CASE m = 0 /\ p = N /\ o = S[N + 1] /\ r = 0
      <4>1. m + r = 0
        BY <3>3
      <4>2. QED
        BY <1>1, <1>7, <1>9, <1>10, <3>3, <4>1 DEF Ended, t, N, o, S
    <3>4. QED
      BY <2>0, <3>2, <3>3
  <2>7. Len(TextOf(Here')) = N
    BY <1>9 DEF N, t
  <2>9. QED
    BY <2>3, <2>5, <2>6, <2>7 DEF LineInv
<1>13. DOMAIN local'.data = 0 .. GrepSize
  BY <1>7
<1>14. QED
  BY <1>1, <1>9, <1>10, <1>11, <1>12, <1>13 DEF Searching, InFile, NoEnds

\* A line that goes on is moved to the start of the buffer.
LEMMA GrepCarries ==
  ASSUME ProgInv, ArgInv, prog = "grep", Searching, GrepCarry
  PROVE  Searching'
<1> DEFINE t == TextOf(Here)
           N == Len(t)
           S == Sums(LinesFound(Here))
           p == Place
           m == local.last
           a == local.start
           d == local.data
           o == out[Nth]
<1>0. DescInv /\ DOMAIN local = LocalNames /\ GrepSize \in Nat \ {0}
  BY Sizes DEF ProgInv
<1>1. /\ pc = "line" /\ pc' = "more" /\ UNCHANGED <<vars, pcb, out, code>> /\ code = 0 /\ Partial
      /\ ~ArgsFail(GrepSize) /\ DOMAIN d = 0 .. GrepSize
      /\ OnEntry(local.fd, Dir[1]) /\ AtName /\ AtFile /\ Filled(out, pcb.args, Nth, Nth - 1)
      /\ (\A j \in 0 .. GrepSize : j < a \/ j >= m => d[j] # End)
      /\ IsText(Here) => LineInv
  BY DEF GrepCarry, At, Goto, Searching, InFile, NoEnds
<1>2. m \in 0 .. GrepSize /\ a \in 0 .. m
  BY <1>1 DEF ProgInv, GrepInv
<1>3. PICK i \in DOMAIN Dir : Here = Dir[i]
  BY <1>1, HereIs DEF AtName
<1>4. p \in Nat
  <2>1. IsOn(fds[Child][local.file], Dir[i])
    BY <1>1, <1>3 DEF AtFile, OnEntry
  <2>2. QED
    BY <2>1, DirectoryFacts, TextIs DEF IsOn, Place, Pos
<1>5. IsText(Here) =>
        /\ m <= p /\ (\A j \in a .. m-1 : d[j] = t[p - m + j + 1])
        /\ a # 0 /\ p - m + a \in Stops(t) \cup {0} /\ o = S[p - m + a]
  BY <1>1 DEF LineInv, Buffered, Reached, Partial
<1>6. LineEnd = m /\ \A j \in 0 .. GrepSize : d[j] # End
  <2>1. LineEnd \in a .. m /\ (LineEnd < m => d[LineEnd] = End) /\ \A j \in a .. LineEnd - 1 : d[j] # End
    BY <1>0, <1>2, LineEndIs
  <2>2. LineEnd = m
    BY <1>0, <1>1, <1>2, <2>1 DEF Partial
  <2>3. ASSUME NEW j \in 0 .. GrepSize PROVE d[j] # End
    <3>1. j < a \/ j >= m \/ j \in a .. m - 1
      BY <1>0, <1>2
    <3>2. QED
      BY <1>1, <2>1, <2>2, <3>1
  <2>4. QED
    BY <2>2, <2>3
<1> DEFINE from == [d EXCEPT ![LineEnd] = Nul]
           nuls == {j \in a .. m : from[j] = Nul}
           stop == Min(nuls)
           D(j) == IF j + a <= stop THEN from[j + a] ELSE from[j]
<1>7. local' = [local EXCEPT !.data = [j \in 0 .. GrepSize |-> D(j)], !.last = m - a]
  BY DEF GrepCarry
<1>8. DOMAIN from = 0 .. GrepSize /\ from[m] = Nul /\ \A j \in 0 .. GrepSize : j # m => from[j] = d[j]
  BY <1>1, <1>2, <1>6
<1> HIDE DEF from
<1>9. stop \in nuls
  <2>1. nuls \in SUBSET Nat /\ nuls # {}
    <3>1. m \in nuls
      BY <1>0, <1>2, <1>8
    <3>2. QED
      BY <1>2, <3>1
  <2> HIDE DEF nuls
  <2>2. \E j \in nuls : \A l \in nuls : j <= l
    BY <2>1, Least
  <2>3. QED
    BY <2>2, Zenon DEF Min
<1>10. stop \in a .. m /\ from[stop] = Nul
  <2> HIDE DEF stop
  <2>1. QED
    BY <1>9
<1> HIDE DEF D, stop
<1>11. /\ local'.data = [j \in 0 .. GrepSize |-> D(j)] /\ local'.last = m - a
       /\ local'.fd = local.fd /\ local'.file = local.file /\ local'.name = local.name
  BY <1>0, <1>7 DEF LocalNames
<1>12. fds' = fds
  BY <1>1 DEF vars
<1>13. /\ Nth' = Nth /\ Here' = Here /\ LinesFound(Here)' = LinesFound(Here)
       /\ OnEntry(local.fd, Dir[1])'
  BY <1>1, <1>11, <1>12, SameName
<1>14. ~ArgsFail(GrepSize)' /\ AtName' /\ AtFile' /\ Place' = p
  BY <1>1, <1>12, <1>13, <1>11 DEF ArgsFail, AtName, AtFile, OnEntry, Place, Pos
<1>15. ASSUME NEW j \in 0 .. GrepSize PROVE local'.data[j] # End
  <2> HIDE DEF m, a, d
  <2>1. local'.data[j] = D(j)
    BY <1>11
  <2>2. j + a <= stop => j + a \in 0 .. GrepSize
    BY <1>0, <1>2, <1>10
  <2>3. Nul # End
    BY DEF Nul, End
  <2>4. \A l \in 0 .. GrepSize : from[l] # End
    BY <1>6, <1>8, <2>3
  <2>5. QED
    BY <2>1, <2>2, <2>4 DEF D
<1>16. ASSUME IsText(Here) PROVE MoreInv'
  <2>0. p <= N /\ N \in Nat /\ DOMAIN t = 1 .. N
    <3>1. IsOn(fds[Child][local.file], Dir[i])
      BY <1>1, <1>3 DEF AtFile, OnEntry
    <3>2. Dir[i].type # 1
      BY <1>1, <1>3, HereIs, DirectoryFacts, PrintAssumption DEF AtName
    <3>3. N \in Nat /\ t \in Seq(Glyphs)
      BY <1>3, TextIs
    <3>4. QED
      BY <1>3, <3>1, <3>2, <3>3 DEF IsOn, Place, Pos
  <2>1. \A j \in 1 .. N : t[j] # Nul
    BY <1>16, <2>0 DEF IsText, ToSet
  <2> HIDE DEF t, N, S, p, m, a, d, o
  <2>2. /\ m <= p /\ (\A j \in a .. m-1 : d[j] = t[p - m + j + 1])
        /\ p - m + a \in Stops(t) \cup {0} /\ o = S[p - m + a]
    BY <1>5, <1>16
  <2>3. ASSUME NEW j \in a .. m - 1 PROVE from[j] = t[p - m + j + 1] /\ from[j] # Nul
    <3>1. j \in 0 .. GrepSize /\ j # m /\ p - m + j + 1 \in 1 .. N
      BY <1>0, <1>2, <1>4, <2>0, <2>2
    <3>2. QED
      BY <1>8, <2>1, <2>2, <3>1
  <2>4. stop = m
    <3>1. stop \in a .. m - 1 \/ stop = m
      BY <1>2, <1>10
    <3>2. QED
      BY <1>10, <2>3, <3>1
  <2>5. m - a \in 0 .. GrepSize /\ m - a <= p /\ p - (m - a) = p - m + a
    BY <1>0, <1>2, <1>4, <2>2
  <2>6. ASSUME NEW j \in 0 .. (m - a) - 1 PROVE local'.data[j] = t[p - (m - a) + j + 1]
    <3>1. /\ j \in 0 .. GrepSize /\ j + a <= m /\ j + a \in a .. m - 1
          /\ p - m + (j + a) + 1 = p - (m - a) + j + 1
      BY <1>0, <1>2, <1>4
    <3>2. local'.data[j] = from[j + a]
      BY <1>11, <2>4, <3>1 DEF D
    <3>3. from[j + a] = t[p - m + (j + a) + 1]
      BY <2>3, <3>1
    <3>4. QED
      BY <3>1, <3>2, <3>3
  <2>7. Buffered(0, local.last, Place)'
    BY <1>11, <1>13, <1>14, <2>5, <2>6 DEF Buffered, t
  <2>8. (Place - local.last)' = p - m + a
    BY <1>11, <1>14, <2>5
  <2>9. Reached(Place - local.last)'
    BY <1>1, <2>2, <1>13, <2>8 DEF Reached, t, o, S
  <2>10. QED
    BY <2>7, <2>9 DEF MoreInv
<1>17. DOMAIN local'.data = 0 .. GrepSize
  BY <1>11
<1>18. QED
  BY <1>1, <1>13, <1>14, <1>15, <1>16, <1>17, <1>11 DEF Searching, InFile, NoEnds

\* A line is looked at.
LEMMA GrepLooks ==
  ASSUME ProgInv, ArgInv, prog = "grep", Searching, GrepLine
  PROVE  Searching'
<1> DEFINE t == TextOf(Here)
           N == Len(t)
           S == Sums(LinesFound(Here))
           p == Place
           m == local.last
           a == local.start
           b == LineEnd
           d == local.data
           o == out[Nth]
           k == (p - m) + b + 1
<1>0. DescInv /\ DOMAIN local = LocalNames /\ GrepSize \in Nat \ {0}
  BY Sizes DEF ProgInv
<1>1. /\ pc = "line" /\ UNCHANGED <<pcb, code>> /\ code = 0 /\ ~Partial
      /\ ~ArgsFail(GrepSize) /\ DOMAIN d = 0 .. GrepSize
      /\ OnEntry(local.fd, Dir[1]) /\ AtName /\ AtFile /\ Filled(out, pcb.args, Nth, Nth - 1)
      /\ (\A j \in 0 .. GrepSize : j < a \/ j >= m => d[j] # End)
      /\ IsText(Here) => LineInv
  BY DEF GrepLine, At, Goto, Searching, InFile, NoEnds
<1>2. m \in 0 .. GrepSize /\ a \in 0 .. m
  BY <1>1 DEF ProgInv, GrepInv
<1>3. PICK i \in DOMAIN Dir : /\ Here = Dir[i] /\ Dir[i].name = Dir[Nth].name
                              /\ FoundIn(Here, pcb.args) = S[N + 1]
                              /\ Nth \in Nat \ {0} /\ Here = FirstOf(Dir[Nth].name)
  <2>1. Nth \in Nat \ {0}
    BY <1>1, HereIs, NamesAre DEF AtName
  <2>2. PICK i \in DOMAIN Dir : /\ Here = Dir[i] /\ Dir[i].name = Dir[Nth].name
                                /\ FoundIn(Here, pcb.args) = S[N + 1]
    BY <1>1, HereIs DEF AtName
  <2>3. QED
    BY <2>1, <2>2 DEF Here
<1>4. p \in 0 .. N /\ N \in Nat
  <2>1. IsOn(fds[Child][local.file], Dir[i]) /\ N \in Nat
    BY <1>1, <1>3, TextIs DEF AtFile, OnEntry
  <2>2. Dir[i].type # 1
    BY <1>1, <1>3, HereIs, DirectoryFacts, PrintAssumption DEF AtName
  <2>3. p \in 0 .. N
    BY <1>3, <2>1, <2>2 DEF IsOn, Place, Pos
  <2>4. QED
    BY <2>1, <2>3
<1>5. Argument(GrepSize) = pcb.args
  BY <1>0, <1>1, ArgumentIs
<1> DEFINE w == IF Hit(pcb.args, Line) THEN Append(o, <<local.name, Shown>>) ELSE o
<1>6. /\ Filled(out', pcb.args, Nth, Nth - 1) /\ out'[Nth] = w
      /\ local' = [local EXCEPT !.data[b] = Nul, !.start = b + 1, !.last = IF b + 1 >= m THEN 0 ELSE m]
      /\ pc' = AfterLine
  <2>1. Len(out) = Nth
    <3> DEFINE g == [j \in 1 .. Nth |-> out[j]]
    <3>1. Len(g) = Nth
      BY <1>3
    <3>2. out = g
      BY <1>1 DEF Filled
    <3> HIDE DEF g
    <3>3. QED
      BY <3>1, <3>2
  <2>2. out' = IF Hit(pcb.args, Line)
               THEN [out EXCEPT ![Nth] = Append(out[Nth], <<local.name, Shown>>)] ELSE out
    BY <1>5, <2>1 DEF GrepLine
  <2>3. CASE Hit(pcb.args, Line)
    <3> DEFINE x == Append(o, <<local.name, Shown>>)
    <3>1. out' = [out EXCEPT ![Len(out)] = x] /\ w = x
      BY <2>1, <2>2, <2>3
    <3> HIDE DEF x, w
    <3>2. Filled(out', pcb.args, Nth, Nth - 1) /\ out'[Nth] = x
      <4> DEFINE g == Nth
      <4>1. g \in Nat \ {0} /\ Filled(out, pcb.args, g, g - 1)
        BY <1>1, <1>3
      <4> HIDE DEF g
      <4>2. Filled(out', pcb.args, g, g - 1)
        BY <3>1, <4>1, FilledMore
      <4>3. DOMAIN out = 1 .. g
        BY <4>1 DEF Filled
      <4>4. out'[g] = x
        BY <2>1, <3>1, <4>1, <4>3 DEF g
      <4>5. QED
        BY <4>2, <4>4 DEF g
    <3>3. QED
      BY <3>1, <3>2 DEF GrepLine, Goto
  <2>4. CASE ~Hit(pcb.args, Line)
    <3>1. out' = out /\ w = o
      BY <2>2, <2>4
    <3> HIDE DEF w
    <3>2. QED
      BY <1>1, <3>1 DEF GrepLine, Goto
  <2>5. QED
    BY <2>3, <2>4
<1> HIDE DEF w
<1>7. fds' = fds
  BY DEF GrepLine, write, Write, WriteRefused, Answer, vars
<1>8. b \in a .. m /\ (b < m => d[b] = End) /\ \A j \in a .. b - 1 : d[j] # End
  BY <1>0, <1>2, LineEndIs
<1>9. IsText(Here) =>
        /\ b + 1 < m => k \in Stops(t) /\ w = S[k]
        /\ b + 1 >= m /\ local.cnt = 0 => w = S[N + 1]
        /\ b + 1 >= m /\ local.cnt # 0 => \/ p \in Stops(t) /\ w = S[p]
                                          \/ p = N /\ w = S[N + 1]
  <2> SUFFICES ASSUME IsText(Here)
               PROVE  /\ b + 1 < m => k \in Stops(t) /\ w = S[k]
                      /\ b + 1 >= m /\ local.cnt = 0 => w = S[N + 1]
                      /\ b + 1 >= m /\ local.cnt # 0 => \/ p \in Stops(t) /\ w = S[p]
                                                        \/ p = N /\ w = S[N + 1]
    OBVIOUS
  <2>1. local.name = Here.name /\ LineInv
    BY <1>1, <1>3 DEF AtName
  <2>2. local.data[local.last] # End
    BY <1>0, <1>1, <1>2
  <2>3. w = IF Hit(pcb.args, Line) THEN Append(out[Nth], <<local.name, Shown>>) ELSE out[Nth]
    BY DEF w
  <2>4. QED
    BY <1>1, <1>2, <1>3, <1>4, <2>1, <2>2, <2>3, LineSearched
<1>10. /\ local'.data = [d EXCEPT ![b] = Nul] /\ local'.start = b + 1
       /\ local'.last = (IF b + 1 >= m THEN 0 ELSE m) /\ local'.cnt = local.cnt
       /\ local'.fd = local.fd /\ local'.file = local.file /\ local'.name = local.name
  <2> HIDE DEF b
  <2>1. QED
    BY <1>0, <1>6 DEF LocalNames
<1>11. /\ Nth' = Nth /\ Here' = Here /\ LinesFound(Here)' = LinesFound(Here)
       /\ OnEntry(local.fd, Dir[1])'
  BY <1>1, <1>7, <1>10, SameName
<1>12. ~ArgsFail(GrepSize)' /\ AtName' /\ AtFile' /\ Place' = p
  BY <1>1, <1>7, <1>10, <1>11 DEF ArgsFail, AtName, AtFile, OnEntry, Place, Pos
<1>13. pc' = IF b + 1 < m THEN "line" ELSE IF local.cnt = 0 THEN "done" ELSE "more"
  BY <1>6 DEF AfterLine
<1>14. IsText(Here) =>
         /\ m <= p /\ (\A j \in a .. m-1 : d[j] = t[p - m + j + 1])
         /\ p < N => m = GrepSize
         /\ local.cnt = 0 => p = N
  BY <1>1 DEF LineInv, Buffered
<1> HIDE DEF t, N, S, p, m, a, b, d, o
<1>15. DOMAIN local'.data = 0 .. GrepSize
  BY <1>1, <1>10
<1>16. ASSUME NEW j \in 0 .. GrepSize, j < b + 1 \/ j >= m PROVE local'.data[j] # End
  <2>1. Nul # End
    BY DEF Nul, End
  <2>2. CASE j = b
    BY <1>1, <1>10, <2>1, <2>2
  <2>3. CASE j # b
    <3>1. local'.data[j] = d[j]
      BY <1>1, <1>10, <2>3
    <3>2. j < a \/ j >= m \/ j \in a .. b - 1
      BY <1>0, <1>2, <1>8, <1>16, <2>3
    <3>3. QED
      BY <1>1, <1>8, <3>1, <3>2
  <2>4. QED
    BY <2>2, <2>3
<1>17. CASE b + 1 < m
  <2>1. pc' = "line" /\ local'.last = m /\ local'.start = b + 1
    BY <1>0, <1>2, <1>8, <1>10, <1>13, <1>17
  <2>2. ASSUME IsText(Here) PROVE LineInv'
    <3>1. ASSUME NEW j \in b + 1 .. m - 1 PROVE local'.data[j] = t[p - m + j + 1]
      <4>1. j \in 0 .. GrepSize /\ j # b /\ j \in a .. m - 1
        BY <1>0, <1>2, <1>8
      <4>2. QED
        BY <1>1, <1>10, <1>14, <2>2, <4>1
    <3>2. Buffered(local.start, local.last, Place)'
      BY <1>14, <1>11, <1>12, <2>1, <2>2, <3>1 DEF Buffered, t
    <3>3. (Place - local.last + local.start)' = k
      <4>1. p - m + (b + 1) = k
        BY <1>0, <1>2, <1>4, <1>8
      <4>2. QED
        BY <1>12, <2>1, <4>1
    <3>4. Reached(Place - local.last + local.start)'
      <4> HIDE DEF k
      <4>1. QED
        BY <1>6, <1>9, <1>11, <1>17, <2>2, <3>3 DEF Reached, t, S
    <3>5. Len(TextOf(Here')) = N
      BY <1>11 DEF N, t
    <3>6. QED
      BY <1>10, <1>12, <1>14, <2>1, <2>2, <3>2, <3>4, <3>5 DEF LineInv
  <2>3. QED
    BY <1>1, <1>6, <1>11, <1>12, <1>15, <1>16, <2>1, <2>2 DEF Searching, InFile, NoEnds
<1>18. CASE ~(b + 1 < m)
  <2>1. b + 1 >= m /\ local'.last = 0
    BY <1>0, <1>2, <1>8, <1>10, <1>18
  <2>2. ASSUME NEW j \in 0 .. GrepSize PROVE local'.data[j] # End
    <3>1. j < b + 1 \/ j >= m
      BY <1>0, <1>2, <1>8, <2>1
    <3>2. QED
      BY <1>16, <3>1
  <2>3. CASE local.cnt = 0
    <3>1. pc' = "done"
      BY <1>13, <1>18, <2>3
    <3>2. IsText(FirstOf(Dir[Nth].name)) => w = FoundIn(FirstOf(Dir[Nth].name), pcb.args)
      BY <1>3, <1>9, <2>1, <2>3
    <3>3. Filled(out', pcb.args, Nth, Nth)
      BY <1>3, <1>6, <3>2, FilledLast
    <3>4. QED
      BY <1>1, <1>11, <1>12, <1>15, <2>2, <3>1, <3>3 DEF Searching, InFile, NoEnds
  <2>4. CASE local.cnt # 0
    <3>1. pc' = "more"
      BY <1>13, <1>18, <2>4
    <3>2. Buffered(0, local.last, Place)'
      BY <1>4, <1>12, <2>1 DEF Buffered
    <3>3. (Place - local.last)' = p
      BY <1>4, <1>12, <2>1
    <3>4. ASSUME IsText(Here) PROVE Reached(Place - local.last)' \/ Ended'
      <4>1. CASE p \in Stops(t) /\ w = S[p]
        BY <1>6, <1>11, <3>3, <4>1 DEF Reached, t, S
      <4>2. CASE p = N /\ w = S[N + 1]
        BY <1>6, <1>11, <1>12, <2>1, <4>2 DEF Ended, t, N, S
      <4>3. QED
        BY <1>9, <2>1, <2>4, <3>4, <4>1, <4>2
    <3>5. IsText(Here) => MoreInv'
      BY <3>2, <3>4 DEF MoreInv
    <3>6. QED
      BY <1>1, <1>6, <1>11, <1>12, <1>15, <2>2, <3>1, <3>5 DEF Searching, InFile, NoEnds
  <2>5. QED
    BY <2>3, <2>4
<1>19. QED
  BY <1>17, <1>18

LEMMA SearchNext ==
  ASSUME ProgInv, ArgInv, SearchInv, [Next]_allvars
  PROVE  SearchInv'
<1>1. DescInv /\ DOMAIN local = LocalNames
  BY DEF ProgInv
<1>2. ASSUME Kept PROVE SearchInv'
  <2>1. /\ fds'[Child] = fds[Child] /\ res'[Child] = res[Child]
        /\ UNCHANGED <<prog, pcb, pc, local, out, code>>
    BY <1>2 DEF Kept
  <2>2. ret' = ret /\ data' = data /\ Place' = Place
    BY <2>1 DEF ret, data, Place, Pos
  <2>3. Nth' = Nth /\ Here' = Here /\ LinesFound(Here)' = LinesFound(Here)
    BY <2>1, SameName
  <2>4. Searching' <=> Searching
    <3>1. (AtName' <=> AtName) /\ (AtFile' <=> AtFile) /\ (ArgsFail(GrepSize)' <=> ArgsFail(GrepSize))
      BY <2>1, <2>3 DEF AtName, AtFile, ArgsFail, OnEntry
    <3>2. (TextInv' <=> TextInv) /\ (LineInv' <=> LineInv) /\ (MoreInv' <=> MoreInv)
      BY <2>1, <2>2, <2>3 DEF TextInv, LineInv, MoreInv, Buffered, Reached, Ended
    <3>3. QED
      BY <2>1, <2>2, <2>3, <3>1, <3>2 DEF Searching, NoEnds, OnEntry, Pos
  <2>5. QED
    BY <2>1, <2>4 DEF SearchInv
<1>3. CASE Boot \/ OtherBase \/ ShellRead \/ ShellEmpty \/ ShellExit \/ ShellUnknown
  BY <1>1, <1>2, <1>3, BaseApart
<1>4. CASE UNCHANGED allvars
  BY <1>2, <1>4 DEF allvars, vars, session, Kept
<1>5. CASE ShellExecute
  <2>1. code' = 0 /\ pc' = "main" /\ out' = <<>> /\ local' \in Locals
    BY <1>5 DEF ShellExecute
  <2>2. PICK c \in Junk :
          local' = [fd |-> 0, file |-> 0, name |-> <<>>, last |-> 0, cnt |-> 0, start |-> 0, todo |-> <<>>,
                    results |-> <<>>, junk |-> c, data |-> [i \in 0 .. GrepSize |-> c]]
    BY <2>1, Zenon DEF Locals
  <2>3. local'.junk = c /\ local'.data = [i \in 0 .. GrepSize |-> c]
    BY <2>2
  <2>4. QED
    BY <2>1, <2>3 DEF SearchInv, Searching, InFile, NoEnds
<1>6. CASE Leave
  BY <1>6 DEF Leave, SearchInv
<1>7. CASE Cat \/ Syserr \/ OtherCall
  <2>1. prog # "grep" /\ prog' = prog
    BY <1>7 DEF Cat, CatOpen, LsOpen, ReadFirst, PrintChunk, ReadMore, PrinterExits, Syserr, SyserrAsk,
         SyserrSelect, SyserrCall, SyserrVerdict, SyserrExits, OtherCall, CallThen, Exit, session
  <2>2. QED
    BY <2>1 DEF SearchInv
<1>8. CASE Grep
  <2>1. prog = "grep" /\ local'.junk = local.junk
    BY <1>1, <1>8 DEF Grep, GrepOpen, GrepFirst, GrepSkip, GrepNext, GrepFile, GrepRead, GrepText,
         GrepCarry, GrepLine, GrepClose, GrepExits, Exit, LocalNames
  <2>2. ASSUME Searching PROVE Searching'
    BY <1>8, <2>1, <2>2, GrepStarts, GrepOpensFile, GrepReads, GrepTakesText, GrepCarries, GrepLooks,
       GrepEnds DEF Grep
  <2>3. QED
    BY <2>1, <2>2 DEF SearchInv
<1>9. QED
  BY <1>3, <1>4, <1>5, <1>6, <1>7, <1>8 DEF Next, Shell

\* cat, ls and grep print what they are for, for any image, any lengths of blocks
\* and buffers and any commands; grep finds the lines of the files that are texts,
\* whatever the files between them are.  The output follows the position of the open
\* descriptor, for grep less what its buffer still holds (ece391cat.c, ece391ls.c,
\* ece391grep.c).
THEOREM ProgramsAlwaysPrint == Spec => []ProgramsPrint
<1> DEFINE Inv == ArgInv /\ PrinterInv /\ SearchInv
<1>1. StartInit => Inv
  <2> SUFFICES ASSUME StartInit PROVE Inv
    OBVIOUS
  <2>1. prog = "none" /\ pcb = [args |-> <<>>, size |-> 0]
    BY DEF StartInit
  <2>2. ArgInv
    BY <2>1 DEF ArgInv
  <2>3. QED
    BY <2>1, <2>2 DEF PrinterInv, SearchInv
<1>2. ProgInv /\ Inv /\ [Next]_allvars => Inv'
  <2> SUFFICES ASSUME ProgInv, Inv, [Next]_allvars PROVE Inv'
    OBVIOUS
  <2>1. DescInv /\ DOMAIN local = LocalNames
    BY DEF ProgInv
  <2>2. ArgInv' /\ PrinterInv' /\ SearchInv'
    BY <2>1, ArgNext, PrinterNext, SearchNext
  <2>3. QED
    BY <2>2
<1>3. Inv => ProgramsPrint
  <2> SUFFICES ASSUME Inv, pc = "exit" PROVE ProgramsPrint
    BY DEF ProgramsPrint, At
  <2>1. prog \in {"cat", "ls"} => <<code, out>> = Expected
    BY DEF PrinterInv
  <2>2. ASSUME prog = "grep", local.junk # End
        PROVE  /\ code = 0 /\ Len(out) = Len(Dir)
               /\ \A i \in DOMAIN Dir :
                    IsText(FirstOf(Dir[i].name)) => out[i] = FoundIn(FirstOf(Dir[i].name), pcb.args)
    <3>1. code = 0 /\ Filled(out, pcb.args, Len(Dir), Len(Dir))
      BY <2>2 DEF SearchInv, Searching
    <3>2. Len(Dir) \in Nat /\ DOMAIN Dir = 1 .. Len(Dir)
      BY NamesAre
    <3>3. Len([i \in 1 .. Len(Dir) |-> out[i]]) = Len(Dir)
      BY <3>2
    <3>4. QED
      BY <3>1, <3>2, <3>3 DEF Filled
  <2>3. QED
    BY <2>1, <2>2 DEF ProgramsPrint
<1> HIDE DEF Inv
<1>4. QED
  BY <1>1, <1>2, <1>3, ProgInvariant, PTL DEF Spec
=============================================================================
