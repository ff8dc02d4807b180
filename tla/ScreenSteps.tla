---------------------------- MODULE ScreenSteps ----------------------------
(***************************************************************************)
(* putc_modified of a program and putc, handlebackspace, clear of the      *)
(* keyboard handler, one step per access to the cursor that they share.    *)
(* System calls leave interrupts on: the handler comes between any two     *)
(* steps of the program.  So does the keyboard's gate: if Preempt holds,   *)
(* the PIT takes the CPU from the handler for the program of the visible   *)
(* terminal as well.                                                       *)
(* Each call begins together with its action of Screen, which is followed  *)
(* until two calls overlap for the first time.  The attribute of a         *)
(* character is stored as the character is and left out.                   *)
(***************************************************************************)
EXTENDS Screen

CONSTANT Preempt

ASSUME PreemptAssumption == Preempt \in BOOLEAN

VARIABLES
  mem,      \* video memory, while Screen is followed
  cur,      \* terminals[t].screen_x and screen_y
  th,       \* what the program and the handler are doing
  overlap   \* history: calls have overlapped

steps == <<mem, cur, th, overlap>>
allvars == <<vars, steps>>

Threads == {"program", "keyboard"}
Idle    == [pc |-> "idle", item |-> Blank, key |-> "idle", back |-> "idle",
            reg |-> [x |-> 0, y |-> 0]]

StepsInit ==
  /\ Init
  /\ mem = Empty
  /\ cur = [x |-> 0, y |-> 0]
  /\ th = [t \in Threads |-> Idle]
  /\ overlap = FALSE

(***************************************************************************)
(* The calls begin.                                                        *)
(***************************************************************************)
Overlaps(t) == overlap \/ \E u \in Threads \ {t} : th[u].pc # "idle"

\* Screen is no longer followed, but for the count of typed characters.
Forget ==
  /\ text' = Empty /\ x' = 0 /\ y' = 0
  /\ log' = <<>> /\ top' = 0 /\ mixed' = TRUE

\* Thread t starts at pc; act is the call in Screen, count the new noc.
Begin(t, pc, key, item, act, count) ==
  /\ th[t].pc = "idle"
  /\ th' = [th EXCEPT ![t] = [Idle EXCEPT !.pc = pc, !.key = key, !.item = item]]
  /\ overlap' = Overlaps(t)
  /\ IF overlap' THEN Forget /\ noc' = count /\ mem' = Empty
                 ELSE act /\ UNCHANGED mem
  /\ UNCHANGED cur

\* Where putc and putc_modified start.
PutStart(item) == IF item[2] = NewLine THEN "readY" ELSE "atY"

BeginOutput(item) == Begin("program", PutStart(item), "idle", item, Output(item), noc)

\* check_input starts with setposition and goes on at key.
BeginChar(c) ==
  /\ noc # MaxLen
  /\ Begin("keyboard", "getY", "atY", <<"typed", c>>, KeyChar(c), noc + 1)

BeginEnter ==
  Begin("keyboard", "getY", "readY", <<"typed", NewLine>>, KeyEnter, 0)

BeginBackspace ==
  /\ noc # 0
  /\ Begin("keyboard", "getY", "backX", Blank, KeyBackspace, noc - 1)

BeginClear == Begin("keyboard", "getY", "clear", Blank, KeyClear, 0)

\* A key that is not printed.
BeginOther == Begin("keyboard", "getY", "idle", Blank, UNCHANGED vars, noc)

(***************************************************************************)
(* Steps.                                                                  *)
(***************************************************************************)
Goto(t, pc) == th' = [th EXCEPT ![t] = IF pc = "idle" THEN Idle ELSE [@ EXCEPT !.pc = pc]]

\* A step of a call that has not to do with Screen: the calls may overlap, and
\* then the text is not followed any more.
Go(t, m) ==
  /\ overlap' = Overlaps(t)
  /\ mem' = IF overlap' THEN Empty ELSE m
  /\ IF overlap' THEN Forget /\ UNCHANGED noc ELSE UNCHANGED vars

\* get_global_screen_*, get_current_screen_*: which coordinate is read where, and
\* what comes next.
Reads ==
  [getY |-> <<"y", "getX">>,  getX |-> <<"x", "setX">>,     \* setposition's arguments
   atY  |-> <<"y", "atX">>,   atX  |-> <<"x", "store">>,    \* where the character goes
   readX |-> <<"x", "addX">>, readY |-> <<"y", "addY">>,    \* x + 1, y + 1
   modX |-> <<"x", "putModX">>,                             \* x % NUM_COLS
   sumY |-> <<"y", "sumX">>,  sumX |-> <<"x", "putY">>,     \* y + x / NUM_COLS
   decX |-> <<"x", "left">>,  readUp |-> <<"y", "up">>]     \* handlebackspace

Read(t) ==
  LET pc == th[t].pc IN
  /\ pc \in DOMAIN Reads
  /\ th' = [th EXCEPT ![t].reg[Reads[pc][1]] = cur[Reads[pc][1]], ![t].pc = Reads[pc][2]]
  /\ Go(t, mem)
  /\ UNCHANGED cur

\* set_global_screen_*, set_current_screen_*: the coordinate, its value, and what
\* comes next in a call with these local variables.
Writes(l) ==
  [setX  |-> <<"x", l.reg.x, "setY">>,
   setY  |-> <<"y", l.reg.y, l.key>>,
   addX  |-> <<"x", l.reg.x + 1, "testX">>,
   addY  |-> <<"y", l.reg.y + 1, "testY">>,
   putModX |-> <<"x", l.reg.x % Cols, "lastTest">>,
   putY  |-> <<"y", (l.reg.y + l.reg.x \div Cols) % Rows, "idle">>,
   zeroX |-> <<"x", 0, IF l.item[2] = NewLine THEN "idle" ELSE "lastTest">>,
   lastRow  |-> <<"y", Rows - 1, "firstCol">>,
   firstCol |-> <<"x", 0, l.back>>,
   left  |-> <<"x", l.reg.x - 1, "atY">>,
   up    |-> <<"y", l.reg.y - 1, "endCol">>,
   endCol |-> <<"x", Cols - 1, "atY">>,
   homeX |-> <<"x", 0, "homeY">>,
   homeY |-> <<"y", 0, "idle">>]

Write(t) ==
  LET l == th[t]
      w == Writes(l)[l.pc]
  IN /\ l.pc \in DOMAIN Writes(l)
     /\ cur' = [cur EXCEPT ![w[1]] = w[2]]
     /\ Goto(t, w[3])
     /\ Go(t, mem)

\* Mutant: a full row is taken for one with a place left.
ColumnTestLate(ok, full) == IF cur.x <= Cols THEN ok ELSE full

ColumnTest(ok, full) == IF cur.x < Cols THEN ok ELSE full

\* Mutant: the screen is taken to have one row more.
RowTestLate(ok, full) == IF cur.y <= Rows THEN ok ELSE full

RowTest(ok, full) == IF cur.y < Rows THEN ok ELSE full

\* Mutant: the cursor is not kept from leaving the screen at the top.
TopTestForgotten(above, first) == above

TopTest(above, first) == IF cur.y # 0 THEN above ELSE first

\* The ifs on the cursor.
Tests ==
  [testX    |-> ColumnTest("modX", "readY"),
   testY    |-> RowTest("zeroX", "scroll"),
   lastTest |-> RowTest("sumY", "scroll"),
   backX    |-> IF cur.x - 1 < 0 THEN "backY" ELSE "decX",
   backY    |-> TopTest("readUp", "atY")]

\* What follows scroll: the end of the branch it is called in.
AfterScroll(l) ==
  IF l.pc = "lastTest" THEN "idle" ELSE IF l.item[2] = NewLine THEN "zeroX" ELSE "lastTest"

Test(t) ==
  LET l == th[t] IN
  /\ l.pc \in DOMAIN Tests
  /\ th' = [th EXCEPT ![t].pc = Tests[l.pc],
                      ![t].back = IF Tests[l.pc] = "scroll" THEN AfterScroll(l) ELSE @]
  /\ Go(t, mem)
  /\ UNCHANGED cur

Place(reg) == Cols * reg.y + reg.x

\* The character, or the blank of handlebackspace.
Store(t) ==
  LET l == th[t] IN
  /\ l.pc = "store"
  /\ Goto(t, IF l.item = Blank THEN "idle" ELSE "readX")
  /\ Go(t, [p \in Positions |-> IF Cols * p[1] + p[2] = Place(l.reg) THEN l.item ELSE mem[p]])
  /\ UNCHANGED cur

\* The loops of scroll and scroll_modified.
ScrollRows(t) ==
  /\ th[t].pc = "scroll"
  /\ Goto(t, "lastRow")
  /\ Go(t, [p \in Positions |-> IF p[1] = Rows-1 THEN Blank ELSE mem[<<p[1] + 1, p[2]>>]])
  /\ UNCHANGED cur

Clear(t) ==
  /\ th[t].pc = "clear"
  /\ Goto(t, "homeX")
  /\ Go(t, Empty)
  /\ UNCHANGED cur

BeginKey ==
  \/ \E c \in Chars : BeginChar(c)
  \/ BeginEnter \/ BeginBackspace \/ BeginClear \/ BeginOther

\* The handler is not given the CPU up, unless the PIT takes it.
Scheduled(t) == t = "program" => Preempt \/ th["keyboard"].pc = "idle"

Step(t) == Read(t) \/ Write(t) \/ Test(t) \/ Store(t) \/ ScrollRows(t) \/ Clear(t)

StepsNext ==
  \/ Scheduled("program") /\ \E item \in Items("output") : BeginOutput(item)
  \/ BeginKey
  \/ \E t \in Threads : Scheduled(t) /\ Step(t)

StepsSpec == StepsInit /\ [][StepsNext]_allvars

(***************************************************************************)
(* Properties.                                                             *)
(***************************************************************************)
AtRest == \A t \in Threads : th[t].pc = "idle"

\* Calls that have not overlapped leave cursor and text as Screen has them: the
\* branches of putc, putc_modified, scroll and handlebackspace, with their
\* repeated tests and remainders, add up to what Screen does in one action.
CallsAddUp ==
  AtRest /\ ~overlap => mem = text /\ <<cur.y, cur.x>> = Cursor

\* Wherever the handler comes into a program's output, the cursor is on the screen
\* once both calls are over: each call tests column and row again after it has
\* changed them (lib.c:340, 350, 363, 384, 393, 406).
CursorReturns ==
  AtRest => <<cur.y, cur.x>> \in Positions

\* Wherever the handler comes in, no character goes before the screen or further
\* than the first place behind the row below it (lib.c:347, 390, 112).
StoresNear ==
  \A t \in Threads :
    th[t].pc = "store" => Place(th[t].reg) \in 0 .. (Rows + 1) * Cols
=============================================================================
