\* Every command, one after the other; every call and every key.
CONSTANTS
  BlockSize = 3
  MaxBlocks = 3
  NumInodes = 7
  NameSize = 2
  MaxEntries = 9
  Word = 19
  Dir <- SmallDir
  Size <- SmallSize
  Block <- SmallBlock
  Procs = {1, 4}
  BaseProcs = {1}
  Base = 1
  Child = 4
  NumFds = 4
  Names <- SmallNames
  Counts <- SmallCounts
  MaxBuf = 5
  ProgramOf <- SmallProgramOf
  Text <- SmallText
  Commands <- SmallCommands
  CatSize = 6
  NameBuf = 2
  GrepSize = 6
  Junk <- SmallJunk
  Dword = 4
  Wide = 64
  Decimal = 3
  Hex = 4
  HexWidth = 3
  Lines <- SmallLines
  MemSize = 11
SPECIFICATION AllSpec
INVARIANTS
  NeverNull
  NothingInherited
  ReadsInOrder
  ProgramsPrint
  TestsPass
  ReadsFileBytes
  RunsFirstWord
  ArgsDelivered
  MovesBytes
  PrintsNumbers
  KeysMeant
PROPERTY ProgramsEnd
