----------------------------- MODULE FileSystem -----------------------------
(***************************************************************************)
(* The read-only file system image: directory look-up and read_data, as    *)
(* operators on a constant image.  A byte of the image is named by the     *)
(* data block it lies in and its offset there, so that a read that starts  *)
(* or ends in the wrong place returns other bytes.                         *)
(***************************************************************************)
EXTENDS Integers, Sequences, SequencesExt

CONSTANTS
  BlockSize,   \* FS_BLOCK_SIZE
  MaxBlocks,   \* INODE_MAX_D_BLOCKS
  NumInodes,   \* NUM_INODES
  NameSize,    \* FILE_NAME_SIZE
  MaxEntries,  \* BOOT_BLOCK_DIR_ENTRIES; MAX_FILE_NUM is the same number
  Word,        \* 2^32, the range of uint32_t
  Dir,         \* directory entries [name, type, inode] of the boot block
  Size,        \* file size of each inode
  Block        \* Block[i][j]: the data block number at place j of inode i

MaxFileSize == MaxBlocks * BlockSize

ASSUME ImageAssumption ==
  /\ BlockSize \in Nat \ {0} /\ MaxBlocks \in Nat /\ NameSize \in Nat \ {0}
  /\ MaxEntries \in Nat /\ NumInodes \in Nat
  /\ Word \in Nat /\ Word > 2 * MaxFileSize
  /\ Len(Dir) \in 0 .. MaxEntries + 1 /\ DOMAIN Dir = 1 .. Len(Dir)
  /\ \A i \in DOMAIN Dir :
       /\ Dir[i] \in [name : Seq(STRING), type : Nat, inode : Nat]
       /\ Len(Dir[i].name) \in 1..NameSize
       /\ Dir[i].type = 2 => Dir[i].inode \in DOMAIN Size
  /\ DOMAIN Size \subseteq 0 .. NumInodes
  /\ \A i \in DOMAIN Size :
       /\ Size[i] \in 0..MaxFileSize
       /\ \A j \in 0 .. MaxBlocks-1 : Block[i][j] \in Nat

\* The first entry is the directory itself.
ASSUME DirectoryAssumption ==
  /\ Len(Dir) > 0
  /\ Dir[1] = [name |-> <<".">>, type |-> 1, inode |-> 0]

Fail == -1

(***************************************************************************)
(* Directory entries.  Entry 0 of the code is Dir[1].  Names are sequences *)
(* of characters; the image pads them with zeros to NameSize.              *)
(***************************************************************************)
NoEntry == [name |-> <<>>, type |-> Fail, inode |-> Fail]

\* Entries past the last one are zero: their names are empty.
NameAt(j) == IF j + 1 \in DOMAIN Dir THEN Dir[j + 1].name ELSE <<>>

\* strncmp(s, fname, strlen(fname)) = 0
Matches(s, fname) == IsPrefix(fname, s)

\* The first entry is compared alone and without its length.
IsDirectory(fname) == Matches(NameAt(0), fname)

\* Mutant: the lengths are not compared.
HitsByPrefix(fname) == {j \in 1..MaxEntries : Matches(NameAt(j), fname)}

Hits(fname) ==
  {j \in 1..MaxEntries : Len(NameAt(j)) = Len(fname) /\ Matches(NameAt(j), fname)}

read_dentry_by_name(fname) ==
  IF IsDirectory(fname) THEN [name |-> fname, type |-> 1, inode |-> 0]
  ELSE IF Hits(fname) = {} THEN NoEntry
  ELSE LET j == CHOOSE j \in Hits(fname) : \A k \in Hits(fname) : j <= k IN
       [name |-> fname, type |-> Dir[j + 1].type, inode |-> Dir[j + 1].inode]

\* dentry->fname[FILE_NAME_SIZE] = 0 terminates the name; the byte it clears is
\* the first one of file_type, the next field.
read_dentry_by_index(index) ==
  IF index > MaxEntries \/ index >= Len(Dir) THEN NoEntry
  ELSE [Dir[index + 1] EXCEPT !.type = 0]

get_filesize(inode) == IF inode > NumInodes THEN Fail ELSE Size[inode]

(***************************************************************************)
(* read_data.                                                              *)
(***************************************************************************)

\* Mutant: the offset is not taken into account at the end of the file.
ClampToSize(inode, offset, length) ==
  IF length > Size[inode] THEN Size[inode] - offset ELSE length

\* The three tests that cut length down, in unsigned arithmetic.
Clamp(inode, offset, length) ==
  LET cut == IF length > MaxFileSize THEN (MaxFileSize - offset) % Word ELSE length
      len == IF (offset + cut) % Word > MaxFileSize THEN MaxFileSize - offset ELSE cut
      fit == IF Size[inode] < len THEN Size[inode] - offset ELSE len
  IN IF Size[inode] < offset + fit THEN Size[inode] - offset ELSE fit

\* memcpy of n bytes from place k of the j-th block of a file.  The place after
\* the last block number is read, for no bytes.
CopyFrom(inode, j, k, n) ==
  LET b == IF j < MaxBlocks THEN Block[inode][j] ELSE 0
  IN [i \in 1..n |-> <<b, k + i - 1>>]

\* The loop over n whole blocks, from the j-th on.
CopyBlocks(inode, j, n) ==
  [i \in 1 .. n * BlockSize |->
     <<Block[inode][j + (i-1) \div BlockSize], (i-1) % BlockSize>>]

\* The bytes copied: within one block, or the end of the first block, the whole
\* blocks in between and what remains from the last.
Copied(inode, offset, len) ==
  LET first == offset \div BlockSize
      last  == (offset + len) \div BlockSize
      pos   == offset % BlockSize
      mid   == last - first - 1
  IN IF first = last THEN CopyFrom(inode, first, pos, len)
     ELSE CopyFrom(inode, first, pos, BlockSize - pos)
          \o CopyBlocks(inode, first + 1, mid)
          \o CopyFrom(inode, last, 0, len - (BlockSize - pos) - mid * BlockSize)

ReadFails(inode, offset, length) ==
  \/ length = 0
  \/ offset > MaxFileSize
  \/ inode > NumInodes
  \/ Size[inode] < offset

\* read_data: the value returned and what was put into buf.
read_data(inode, offset, length) ==
  IF ReadFails(inode, offset, length) THEN [ret |-> Fail, bytes |-> <<>>]
  ELSE LET len == Clamp(inode, offset, length)
       IN [ret |-> len, bytes |-> Copied(inode, offset, len)]
=============================================================================
