------------------------------- MODULE Screen -------------------------------
(***************************************************************************)
(* The text screen of one terminal: where putc_modified, called for each   *)
(* character a program writes, and putc and handlebackspace, called by the *)
(* keyboard handler while the terminal is visible, put the cursor and the  *)
(* text.  Program and keyboard share the cursor; here their calls          *)
(* interleave in any order, each of them undisturbed.                      *)
(***************************************************************************)
EXTENDS Integers, Sequences, SequencesExt

CONSTANTS
  Rows,     \* NUM_ROWS
  Cols,     \* NUM_COLS
  Chars,    \* printing characters
  MaxLen,   \* KEYBOARD_BUFFER_LENGTH - 1
  MaxLog    \* bound: characters on record

NewLine == "newline"

\* 127 characters are far from filling the screen.
ASSUME ScreenAssumption ==
  /\ Rows \in Nat \ {0}
  /\ Cols \in Nat \ {0}
  /\ MaxLen \in 0 .. (Rows - 1) * Cols
  /\ NewLine \notin Chars
  /\ MaxLog \in Nat

Positions == (0 .. Rows-1) \X (0 .. Cols-1)
Blank     == <<"blank", " ">>
Items(by) == {by} \X (Chars \cup {NewLine})
Cells     == ({"output", "typed"} \X Chars) \cup {Blank}

VARIABLES
  text,    \* video memory of the terminal
  x,       \* terminals[t].screen_x
  y,       \* terminals[t].screen_y
  noc,     \* terminals[t].noc, the characters in the edited line
  log,     \* history: what was written since the screen was cleared
  top,     \* history: rows that have scrolled away
  mixed    \* history: a program wrote while a line was being typed

vars == <<text, x, y, noc, log, top, mixed>>

\* What get_global_screen_* and get_current_screen_* return, and their partners
\* set, for this terminal.
Cursor == <<y, x>>

Empty == [p \in Positions |-> Blank]

Init ==
  /\ text = Empty
  /\ x = 0 /\ y = 0
  /\ noc = 0
  /\ log = <<>>
  /\ top = 0
  /\ mixed = FALSE

(***************************************************************************)
(* putc and putc_modified differ in how they name the terminal.            *)
(***************************************************************************)

\* Mutant: the last row is left as it is.
ScrollUncleared(s) ==
  /\ text' = [p \in Positions |-> IF p[1] = Rows-1 THEN s[p] ELSE s[<<p[1] + 1, p[2]>>]]
  /\ x' = 0 /\ y' = Rows-1
  /\ top' = top + 1

\* scroll, scroll_modified: s moves up by a row.
Scroll(s) ==
  /\ text' = [p \in Positions |-> IF p[1] = Rows-1 THEN Blank ELSE s[<<p[1] + 1, p[2]>>]]
  /\ x' = 0 /\ y' = Rows-1
  /\ top' = top + 1

\* The cursor goes to the start of the next row, which may have to be made.
Advance(s) ==
  IF y + 1 < Rows THEN /\ text' = s
                       /\ x' = 0 /\ y' = y + 1
                       /\ UNCHANGED top
                  ELSE Scroll(s)

Put(item) ==
  LET s == [text EXCEPT ![Cursor] = item] IN
  /\ IF item[2] = NewLine THEN Advance(text)
     ELSE IF x + 1 < Cols THEN /\ text' = s
                               /\ x' = x + 1
                               /\ UNCHANGED <<y, top>>
     ELSE Advance(s)
  /\ log' = Append(log, item)

(***************************************************************************)
(* Programs and keys.                                                      *)
(***************************************************************************)
\* terminal_write, for each character.
Output(item) ==
  /\ Len(log) < MaxLog
  /\ Put(item)
  /\ mixed' = (mixed \/ noc > 0)
  /\ UNCHANGED noc

KeyChar(c) ==
  /\ Len(log) < MaxLog
  /\ noc # MaxLen
  /\ Put(<<"typed", c>>)
  /\ noc' = noc + 1
  /\ UNCHANGED mixed

\* Mutant: the count of characters is left.
KeyEnterUncounted ==
  /\ Len(log) < MaxLog
  /\ Put(<<"typed", NewLine>>)
  /\ UNCHANGED <<noc, mixed>>

KeyEnter ==
  /\ Len(log) < MaxLog
  /\ Put(<<"typed", NewLine>>)
  /\ noc' = 0
  /\ UNCHANGED mixed

\* Mutant: the cursor stays in its row.
RetreatInRow == <<y, x - 1>>

\* handlebackspace's cursor: back over the end of the row above; the first
\* position of the screen is its own predecessor.
Retreat ==
  IF x - 1 >= 0 THEN <<y, x - 1>>
  ELSE IF y # 0 THEN <<y - 1, Cols - 1>>
  ELSE Cursor

KeyBackspace ==
  /\ noc # 0
  /\ y' = Retreat[1] /\ x' = Retreat[2]
  /\ text' = [text EXCEPT ![Retreat] = Blank]
  /\ noc' = noc - 1
  /\ log' = Front(log)
  /\ UNCHANGED <<top, mixed>>

\* CTRL-L: clear, setposition(0,0).
KeyClear ==
  /\ text' = Empty
  /\ x' = 0 /\ y' = 0
  /\ noc' = 0
  /\ log' = <<>>
  /\ top' = 0
  /\ mixed' = FALSE

Next ==
  \/ \E item \in Items("output") : Output(item)
  \/ \E c \in Chars : KeyChar(c)
  \/ KeyEnter \/ KeyBackspace \/ KeyClear

Spec == Init /\ [][Next]_vars

(***************************************************************************)
(* Reference: text on an endless sheet with rows of Cols characters, of    *)
(* which the screen shows the rows from top on.                            *)
(***************************************************************************)
After(p, item) ==
  IF item[2] = NewLine \/ p[2] = Cols-1 THEN <<p[1] + 1, 0>> ELSE <<p[1], p[2] + 1>>

\* Where the cursor is after k characters of l.
Places(l) ==
  LET at[k \in 0 .. Len(l)] == IF k = 0 THEN <<0, 0>> ELSE After(at[k - 1], l[k])
  IN at

\* Where the k-th character of the log is.
PlaceOf(k) == Places(log)[k - 1]

OnSheet(p) ==
  LET at == {k \in DOMAIN log : log[k][2] # NewLine /\ PlaceOf(k) = p}
  IN IF at = {} THEN Blank ELSE log[CHOOSE k \in at : TRUE]

(***************************************************************************)
(* Properties.                                                             *)
(***************************************************************************)
TypeOK ==
  /\ text \in [Positions -> Cells]
  /\ Cursor \in Positions
  /\ noc \in 0..MaxLen
  /\ log \in Seq(Items("output") \cup Items("typed"))
  /\ top \in Nat
  /\ mixed \in BOOLEAN

\* The screen shows the end of what was written, wrapped at the last column,
\* without what was erased, and the cursor follows it: through every wrap,
\* scroll and backspace over them (putc, putc_modified, scroll,
\* handlebackspace).
ShowsText ==
  ~mixed =>
    /\ text = [p \in Positions |-> OnSheet(<<p[1] + top, p[2]>>)]
    /\ <<y + top, x>> = PlaceOf(Len(log) + 1)

\* Backspace erases characters the user typed, never the prompt or other output,
\* unless a program wrote into the line being typed (check_input's
\* numberofchars; bug_log.txt item 7 "Backspacing in shell would erase the
\* ece391shell> prompt").
ErasesTyped ==
  [][KeyBackspace => mixed \/ text[Retreat][1] = "typed"]_vars
=============================================================================
