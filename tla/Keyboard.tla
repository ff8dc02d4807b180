------------------------------ MODULE Keyboard ------------------------------
(***************************************************************************)
(* check_input as far as it decides what a key means: the flags it keeps   *)
(* for SHIFT, CTRL, ALT and CAPS LOCK in the entries that these keys have  *)
(* in chararray, and what the other keys do under them.  Where the         *)
(* character then goes is LineDiscipline's and Screen's: that a full line  *)
(* takes no character and an empty one no backspace is left to them.       *)
(* One key of each kind stands for the others.  A key that is kept down    *)
(* is sent again.                                                          *)
(***************************************************************************)
EXTENDS Integers

LEFTSHIFT   == "left shift"
RIGHTSHIFT  == "right shift"
LEFTCONTROL == "left control"
ALT         == "alt"
Shifts      == {LEFTSHIFT, RIGHTSHIFT}
Modifiers   == Shifts \cup {LEFTCONTROL, ALT}

\* chararray, without the modifiers: what a key prints, Mute for '\0'.
Mute == "mute"
Keys == {"A", "L", "TAB", "1", "-", "SPACE", "ESC", "F1", "F2", "F3"}

chararray ==
  [k \in Keys |->
    CASE k = "A" -> "a" [] k = "L" -> "l" [] k = "TAB" -> "t" [] k = "1" -> "1"
      [] k = "-" -> "-" [] k = "SPACE" -> " " [] OTHER -> Mute]

TerminalOf   == [F1 |-> 0, F2 |-> 1, F3 |-> 2]
Capital      == [a |-> "A", l |-> "L", t |-> "T"]
Letters      == DOMAIN Capital
\* shiftarray and the switch on the other characters.
ShiftedOf    == [c \in {"1", "-"} |-> IF c = "1" THEN "!" ELSE "_"]
Printable    == {chararray[k] : k \in Keys} \ {Mute}

VARIABLES
  pressed,   \* the modifiers whose entry is '1'
  capslock,  \* the entry of CAPS LOCK, "0" or "1"
  effect,    \* the last key and what it did
  down,      \* history: the modifiers the user holds down
  odd        \* history: CAPS LOCK was struck an odd number of times

keyvars == <<pressed, capslock, effect, down, odd>>

NoEffect == [key |-> "none", does |-> "nothing"]

\* init_keyboard writes '0' to CAPS LOCK, left SHIFT and ALT; the entries of the
\* other modifiers are '\0', which is not '1' either.
KeysInit ==
  /\ pressed = {}
  /\ capslock = "0"
  /\ effect = NoEffect
  /\ down = {}
  /\ odd = FALSE

PressModifier(m) ==
  /\ pressed' = pressed \cup {m}
  /\ down' = down \cup {m}
  /\ effect' = NoEffect
  /\ UNCHANGED <<capslock, odd>>

ReleaseModifier(m) ==
  /\ m \in down
  /\ pressed' = pressed \ {m}
  /\ down' = down \ {m}
  /\ effect' = NoEffect
  /\ UNCHANGED <<capslock, odd>>

PressCapsLock ==
  /\ capslock' = IF capslock = "0" THEN "1" ELSE "0"
  /\ odd' = ~odd
  /\ effect' = NoEffect
  /\ UNCHANGED <<pressed, down>>

(***************************************************************************)
(* The other keys.                                                         *)
(***************************************************************************)
Does(k, what) ==
  /\ effect' = [key |-> k, does |-> what]
  /\ UNCHANGED <<pressed, capslock, down, odd>>

Shifted == pressed \cap Shifts # {}

\* A letter that is not printed as chararray has it.
Cased(k) == (capslock = "1" \/ Shifted) /\ chararray[k] \in Letters

\* Mutant: SHIFT does not take CAPS LOCK back.
TempCapital(c) == Capital[c]

Temp(c) == IF capslock = "1" /\ Shifted THEN c ELSE Capital[c]

Clears(k) == Temp(chararray[k]) = "L" /\ LEFTCONTROL \in pressed

Switch(k) == k \in DOMAIN TerminalOf /\ ALT \in pressed /\ Does(k, TerminalOf[k])

ClearScreen(k) == Cased(k) /\ Clears(k) /\ Does(k, "clear")

TypeCased(k) == Cased(k) /\ ~Clears(k) /\ Does(k, Temp(chararray[k]))

\* temp has no value for a character the switch does not name.
TypeShifted(k) ==
  /\ ~Cased(k) /\ Shifted /\ chararray[k] # Mute
  /\ IF chararray[k] \in DOMAIN ShiftedOf THEN Does(k, ShiftedOf[chararray[k]])
     ELSE \E temp \in Printable : Does(k, temp)

TypePlain(k) ==
  /\ ~Cased(k) /\ ~Shifted /\ chararray[k] # Mute
  /\ Does(k, chararray[k])

\* Also the code of a key that is let go: its entry is '\0'.
Ignore(k) ==
  /\ chararray[k] = Mute
  /\ ~(k \in DOMAIN TerminalOf /\ ALT \in pressed)
  /\ Does(k, "nothing")

KeysNext ==
  \/ \E m \in Modifiers : PressModifier(m) \/ ReleaseModifier(m)
  \/ PressCapsLock
  \/ \E k \in Keys : Switch(k) \/ ClearScreen(k) \/ TypeCased(k) \/ TypeShifted(k)
                       \/ TypePlain(k) \/ Ignore(k)
  \/ Does("ENTER", "line") \/ Does("BACKSPACE", "erase")

KeysSpec == KeysInit /\ [][KeysNext]_keyvars

(***************************************************************************)
(* Properties.                                                             *)
(***************************************************************************)
HeldShift == down \cap Shifts # {}
Upper     == HeldShift # odd

\* What the user means.
Meant(k) ==
  CASE chararray[k] \in Letters ->
         IF Upper /\ k = "L" /\ LEFTCONTROL \in down THEN "clear"
         ELSE IF Upper THEN Capital[chararray[k]] ELSE chararray[k]
    [] chararray[k] \in DOMAIN ShiftedOf ->
         IF HeldShift THEN ShiftedOf[chararray[k]] ELSE chararray[k]
    [] k = "SPACE" -> " "
    [] OTHER -> IF k \in DOMAIN TerminalOf /\ ALT \in down THEN TerminalOf[k] ELSE "nothing"

\* A key does what the modifiers the user holds down and CAPS LOCK make it mean, in
\* whatever order they are pressed, repeated and let go, two SHIFTs among them;
\* SHIFT takes CAPS LOCK back (bug_log.txt:50).  One exception: SHIFT and SPACE print
\* what the stack holds (keyboard.c:146).
KeysMeant ==
  effect.key \in Keys =>
    effect.does = Meant(effect.key) \/ (effect.key = "SPACE" /\ HeldShift)
=============================================================================
