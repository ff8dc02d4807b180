--------------------------- MODULE LineDiscipline ---------------------------
(***************************************************************************)
(* Keyboard to program: check_input edits the line of the visible terminal *)
(* and hands it over on ENTER; terminal_read of the process of each        *)
(* terminal polls for it.  The keyboard gate is a trap gate: the PIT may   *)
(* switch terminals inside the handler, which then stays suspended on the  *)
(* thread it interrupted, its IRQ in service, until that thread runs again.*)
(*                                                                         *)
(* A character is tagged with the terminal that was visible when its key   *)
(* was pressed.                                                            *)
(***************************************************************************)
EXTENDS Integers, Sequences, SequencesExt

CONSTANTS
  NumTerm,    \* NUM_TERMINALS
  Chars,      \* printing characters
  MaxLen,     \* KEYBOARD_BUFFER_LENGTH - 1
  MaxLines,   \* bound: lines entered in a behaviour
  TypeAhead   \* whether ENTER is pressed while no read waits for a line

ASSUME LineAssumption ==
  /\ NumTerm \in Nat \ {0}
  /\ MaxLen \in Nat
  /\ MaxLines \in Nat
  /\ TypeAhead \in BOOLEAN

Terminals == 0 .. NumTerm-1
Cells     == Terminals \X Chars
None      == NumTerm

\* A terminal buffer holding line l; the rest is zero.
Zero      == <<>>
Filled(l) == [i \in 1..MaxLen |-> IF i <= Len(l) THEN l[i] ELSE Zero]

VARIABLES
  current,    \* current_term
  visible,    \* visable_term
  line,       \* terminals[t].lb[0..noc-1]
  buf,        \* terminalbuffer[t], without its newline
  num,        \* numberofchars[t]
  flag,       \* flags[t]
  kon,        \* thread the keyboard handler is nested on, or None
  kpc,        \* what the handler does next
  rpc,        \* where the reader of each terminal is
  out,        \* what terminal_read has copied to the user's buffer
  ret,        \* retvalue + 1 of the last read
  sent,       \* history: lines handed over on each terminal
  got         \* history: lines and lengths the reads returned

keyboard == <<kon, kpc>>
shared   == <<buf, num, flag>>
reader   == <<rpc, out, ret, got>>
vars     == <<current, visible, line, shared, keyboard, reader, sent>>

Init ==
  /\ current = NumTerm-1
  /\ visible = 0
  /\ line = [t \in Terminals |-> <<>>]
  /\ buf = [t \in Terminals |-> Filled(<<>>)]
  /\ num = [t \in Terminals |-> 0]
  /\ flag = [t \in Terminals |-> FALSE]
  /\ kon = None
  /\ kpc = "idle"
  /\ rpc = [t \in Terminals |-> "user"]
  /\ out = [t \in Terminals |-> <<>>]
  /\ ret = [t \in Terminals |-> 0]
  /\ sent = [t \in Terminals |-> <<>>]
  /\ got = [t \in Terminals |-> <<>>]

Entered == FoldLeft(+, 0, [i \in 1..NumTerm |-> Len(sent[i-1])])

(***************************************************************************)
(* Keyboard interrupt.  Only the handler touches the edited lines, so a    *)
(* key that does not hand one over is a single step.                       *)
(***************************************************************************)
Edit(l) ==
  /\ kon = None
  /\ line' = [line EXCEPT ![visible] = l]
  /\ UNCHANGED <<current, visible, shared, keyboard, reader, sent>>

\* A printing key; the last place is kept for the newline.
KeyChar(c) ==
  /\ Len(line[visible]) # MaxLen
  /\ Edit(Append(line[visible], <<visible, c>>))

KeyBackspace ==
  /\ line[visible] # <<>>
  /\ Edit(Front(line[visible]))

\* CTRL-L also forgets the line.
KeyClear == Edit(<<>>)

\* ALT-Fn: switch_terminals.
KeySwitch(t) ==
  /\ kon = None
  /\ visible' = t
  /\ UNCHANGED <<current, line, shared, keyboard, reader, sent>>

\* ENTER interrupts the thread on the CPU.
KeyEnter ==
  /\ kon = None
  /\ Entered < MaxLines
  /\ TypeAhead \/ (~flag[visible] /\ rpc[visible] = "spin")
  /\ kon' = current
  /\ kpc' = "fill"
  /\ UNCHANGED <<current, visible, line, shared, reader, sent>>

HandlerAt(label) == kon = current /\ kpc = label

\* Mutant: the buffer of the scheduled terminal is filled.
FillBufferOfCurrent ==
  /\ HandlerAt("fill")
  /\ buf' = [buf EXCEPT ![current] = Filled(line[visible])]
  /\ kpc' = "count"
  /\ UNCHANGED <<current, visible, line, num, flag, kon, reader, sent>>

\* set_terminal_buffer, for get_visable_terminal().
FillBuffer ==
  /\ HandlerAt("fill")
  /\ buf' = [buf EXCEPT ![visible] = Filled(line[visible])]
  /\ kpc' = "count"
  /\ UNCHANGED <<current, visible, line, num, flag, kon, reader, sent>>

SetCount ==
  /\ HandlerAt("count")
  /\ num' = [num EXCEPT ![visible] = Len(line[visible])]
  /\ kpc' = "flag"
  /\ UNCHANGED <<current, visible, line, buf, flag, kon, reader, sent>>

SetFlag ==
  /\ HandlerAt("flag")
  /\ flag' = [flag EXCEPT ![visible] = TRUE]
  /\ sent' = [sent EXCEPT ![visible] = Append(@, line[visible])]
  /\ kpc' = "reset"
  /\ UNCHANGED <<current, visible, line, buf, num, kon, reader>>

\* memset, set_global_buffer(linebuffer, 0), send_eoi.
ResetLine ==
  /\ HandlerAt("reset")
  /\ line' = [line EXCEPT ![visible] = <<>>]
  /\ kon' = None
  /\ kpc' = "idle"
  /\ UNCHANGED <<current, visible, shared, reader, sent>>

(***************************************************************************)
(* terminal_read of the process of terminal t.                             *)
(***************************************************************************)
ReaderAt(t, label) == current = t /\ kon # t /\ rpc[t] = label
ReaderGoto(t, label) == rpc' = [rpc EXCEPT ![t] = label]

Read(t) ==
  /\ ReaderAt(t, "user")
  /\ ReaderGoto(t, "spin")
  /\ out' = [out EXCEPT ![t] = <<>>]
  /\ UNCHANGED <<current, visible, line, shared, keyboard, ret, got, sent>>

\* Mutant: the flag of the visible terminal is polled.
SeeFlagOfVisible(t) ==
  /\ ReaderAt(t, "spin")
  /\ flag[visible]
  /\ ReaderGoto(t, "copy")
  /\ UNCHANGED <<current, visible, line, shared, keyboard, out, ret, got, sent>>

SeeFlag(t) ==
  /\ ReaderAt(t, "spin")
  /\ flag[t]
  /\ ReaderGoto(t, "copy")
  /\ UNCHANGED <<current, visible, line, shared, keyboard, out, ret, got, sent>>

CopyChar(t) ==
  /\ ReaderAt(t, "copy")
  /\ Len(out[t]) < num[t]
  /\ out' = [out EXCEPT ![t] = Append(@, buf[t][Len(@) + 1])]
  /\ UNCHANGED <<current, visible, line, shared, keyboard, rpc, ret, got, sent>>

\* The newline is appended and retvalue is read.
EndCopy(t) ==
  /\ ReaderAt(t, "copy")
  /\ Len(out[t]) >= num[t]
  /\ ReaderGoto(t, "clear")
  /\ ret' = [ret EXCEPT ![t] = num[t] + 1]
  /\ UNCHANGED <<current, visible, line, shared, keyboard, out, got, sent>>

ClearBuffer(t) ==
  /\ ReaderAt(t, "clear")
  /\ ReaderGoto(t, "zero")
  /\ buf' = [buf EXCEPT ![t] = Filled(<<>>)]
  /\ UNCHANGED <<current, visible, line, num, flag, keyboard, out, ret, got, sent>>

\* Mutant: numberofchars is left.
ZeroCountForgotten(t) ==
  /\ ReaderAt(t, "zero")
  /\ ReaderGoto(t, "unflag")
  /\ UNCHANGED <<current, visible, line, shared, keyboard, out, ret, got, sent>>

ZeroCount(t) ==
  /\ ReaderAt(t, "zero")
  /\ ReaderGoto(t, "unflag")
  /\ num' = [num EXCEPT ![t] = 0]
  /\ UNCHANGED <<current, visible, line, buf, flag, keyboard, out, ret, got, sent>>

\* flags[t] = 0, and the system call returns.
ReadReturn(t) ==
  /\ ReaderAt(t, "unflag")
  /\ ReaderGoto(t, "user")
  /\ flag' = [flag EXCEPT ![t] = FALSE]
  /\ got' = [got EXCEPT ![t] = Append(@, <<out[t], ret[t]>>)]
  /\ UNCHANGED <<current, visible, line, buf, num, keyboard, out, ret, sent>>

\* PIT: scheduler_next.
Tick ==
  /\ current' = (current + 1) % NumTerm
  /\ UNCHANGED <<visible, line, shared, keyboard, reader, sent>>

Key ==
  \/ \E c \in Chars : KeyChar(c)
  \/ KeyBackspace \/ KeyClear \/ KeyEnter
  \/ \E t \in Terminals : KeySwitch(t)

Handler == FillBuffer \/ SetCount \/ SetFlag \/ ResetLine

ReadStep(t) ==
  \/ SeeFlag(t) \/ CopyChar(t) \/ EndCopy(t)
  \/ ClearBuffer(t) \/ ZeroCount(t) \/ ReadReturn(t)

Next == Tick \/ Key \/ Handler \/ \E t \in Terminals : Read(t) \/ ReadStep(t)

Spec == Init /\ [][Next]_vars

\* The PIT never stops, and a thread on the CPU gets instructions executed in
\* its slices: the handler nested on it first, then its system call.
Fairness ==
  /\ WF_vars(Tick)
  /\ SF_vars(Handler)
  /\ \A t \in Terminals : SF_vars(ReadStep(t))

LiveSpec == Spec /\ Fairness

(***************************************************************************)
(* Properties.                                                             *)
(***************************************************************************)
TypeOK ==
  /\ current \in Terminals
  /\ visible \in Terminals
  /\ line \in [Terminals -> Seq(Cells)]
  /\ \A t \in Terminals : Len(line[t]) <= MaxLen
  /\ buf \in [Terminals -> [1..MaxLen -> Cells \cup {Zero}]]
  /\ num \in [Terminals -> 0..MaxLen]
  /\ out \in [Terminals -> Seq(Cells \cup {Zero})]
  /\ ret \in [Terminals -> 0..MaxLen+1]
  /\ flag \in [Terminals -> BOOLEAN]
  /\ kon \in Terminals \cup {None}
  /\ kpc \in {"idle", "fill", "count", "flag", "reset"}
  /\ kpc = "idle" <=> kon = None
  /\ rpc \in [Terminals -> {"user", "spin", "copy", "clear", "zero", "unflag"}]

\* Every character of a sequence or buffer was typed on terminal t.
TypedOn(t, s) == \A i \in DOMAIN s : s[i] # Zero => s[i][1] = t

\* What the process of a terminal reads was typed while that terminal was the
\* visible one, however the PIT and ALT-Fn interleave with the typing
\* (set_terminal_buffer, set_global_buffer; bug_log.txt item 5).
OwnInput == \A t \in Terminals : TypedOn(t, out[t])

\* A buffer whose flag is clear and which the handler is not filling is empty:
\* no line survives the read that consumed it (terminal_read's memset and
\* numberofchars = 0 against set_terminal_buffer).
ConsumedOnce ==
  \A t \in Terminals :
    ~flag[t] /\ ~(visible = t /\ kpc \in {"count", "flag"})
      => num[t] = 0 /\ buf[t] = Filled(<<>>)

\* Each terminal is a queue of lines: every line handed over is returned by one
\* read, complete, with its length, in order, and as long as lines are entered
\* only for reads that wait, every such read returns (set_terminal_buffer against
\* terminal_read; keyboard.c:56 "This triggers a terminal read").
Queue ==
  INSTANCE LineQueue WITH
    Lines    <- UNION {[1..n -> Cells] : n \in 0..MaxLen},
    entered  <- sent,
    answered <- got,
    reading  <- [t \in Terminals |-> rpc[t] # "user"]

QueueOfLines == Queue!Spec
=============================================================================
