------------------------------- MODULE Video -------------------------------
(***************************************************************************)
(* Who writes to which screen.  The kernel reaches text memory through     *)
(* 0xB8000, programs after vidmap through 133 MB; page tables shared by    *)
(* all processes map each address to the VGA or to the backup buffer of a  *)
(* terminal, and the PIT, the keyboard handler, ALT-Fn and vidmap re-map   *)
(* them.  The keyboard gate is a trap gate: the PIT may switch threads in  *)
(* the middle of the handler, which goes on when its thread runs again.    *)
(*                                                                         *)
(* The content of a screen is abstracted to the set of marks left on it:   *)
(* by a program's output, by the echo of a key or by a direct write, each  *)
(* for the terminal whose screen it is meant for.                          *)
(***************************************************************************)
EXTENDS Integers

CONSTANTS
  NumTerm,   \* NUM_TERMS
  Preempt,   \* whether the PIT may interrupt the keyboard handler
  Direct     \* the terminals whose programs use vidmap

ASSUME VideoAssumption ==
  /\ NumTerm \in Nat \ {0}
  /\ Preempt \in BOOLEAN
  /\ Direct \subseteq 0..NumTerm-1

Terminals == 0 .. NumTerm-1
Vga       == NumTerm                  \* VID_START_ADDR
Memories  == Terminals \cup {Vga}     \* vid_bufs[t] and the VGA
None      == NumTerm

Marks == {"output", "echo", "direct"} \X Terminals

VARIABLES
  current,   \* current_term
  visible,   \* visable_term
  map,       \* what page_table_0M_4M[VMEM_PAGE] maps
  umap,      \* what new_page_table[ONEMB_PAGETABLE] maps
  mapped,    \* the terminals whose program has called vidmap
  content,   \* marks on the VGA and in each buffer
  kon,       \* thread the keyboard handler is nested on, or None
  kpc        \* what the handler does next

maps     == <<map, umap>>
keyboard == <<kon, kpc>>
vars     == <<current, visible, maps, mapped, content, keyboard>>

\* The state after boot, terminal 0 being shown and scheduled.
Init ==
  /\ current = 0
  /\ visible = 0
  /\ map = Vga
  /\ umap = Vga
  /\ mapped = {}
  /\ content = [m \in Memories |-> {}]
  /\ kon = None
  /\ kpc = "idle"

(***************************************************************************)
(* paging_set_write_to_videomem and paging_set_write_to_buffer.            *)
(***************************************************************************)

\* Mutant: the window of vidmap is left where it is.
MapToOnlyKernel(m) == map' = m /\ UNCHANGED umap

MapTo(m) == map' = m /\ umap' = m

\* Where the text of terminal t belongs while v is the visible one.
Home(t, v) == IF t = v THEN Vga ELSE t

Mark(m, kind, t) == content' = [content EXCEPT ![m] = @ \cup {<<kind, t>>}]

(***************************************************************************)
(* Programs.                                                               *)
(***************************************************************************)
OnCpu(t) == current = t /\ kon # t

\* terminal_write: putc_modified at 0xB8000.
Output(t) ==
  /\ OnCpu(t)
  /\ Mark(map, "output", t)
  /\ UNCHANGED <<current, visible, maps, mapped, keyboard>>

\* The VGA itself, whatever terminal is visible.
paging_vidmap == umap' = Vga

Vidmap(t) ==
  /\ OnCpu(t) /\ t \in Direct
  /\ paging_vidmap
  /\ mapped' = mapped \cup {t}
  /\ UNCHANGED <<current, visible, map, content, keyboard>>

\* The program stores through the pointer vidmap gave it.
Store(t) ==
  /\ OnCpu(t) /\ t \in mapped
  /\ Mark(umap, "direct", t)
  /\ UNCHANGED <<current, visible, maps, mapped, keyboard>>

(***************************************************************************)
(* Keyboard handler.                                                       *)
(***************************************************************************)

\* check_input up to paging_set_write_to_videomem, for each kind of key;
\* a modifier goes straight to the end.
KeyPressed ==
  /\ kon = None
  /\ kon' = current
  /\ kpc' \in {"echo", "clear", "switch", "restore"}
  /\ MapTo(Vga)
  /\ UNCHANGED <<current, visible, mapped, content>>

HandlerAt(label) == kon = current /\ kpc = label

\* putc or handlebackspace, for the visible terminal.
Echo ==
  /\ HandlerAt("echo")
  /\ Mark(map, "echo", visible)
  /\ kpc' = "restore"
  /\ UNCHANGED <<current, visible, maps, mapped, kon>>

\* CTRL-L: clear().
Clear ==
  /\ HandlerAt("clear")
  /\ content' = [content EXCEPT ![map] = {}]
  /\ kpc' = "restore"
  /\ UNCHANGED <<current, visible, maps, mapped, kon>>

\* Mutant: the VGA is overwritten before it is saved.
SwitchTerminalsUnsaved(next) ==
  /\ HandlerAt("switch")
  /\ visible' = next
  /\ IF next = visible
       THEN UNCHANGED <<maps, content>>
       ELSE /\ content' = [content EXCEPT ![visible] = content[next],
                                          ![Vga] = content[next]]
            /\ MapTo(Home(current, next))
  /\ kpc' = "restore"
  /\ UNCHANGED <<current, mapped, kon>>

\* switch_terminals, with interrupts off (still off on return if nothing changes,
\* which the model does not use).
SwitchTerminals(next) ==
  /\ HandlerAt("switch")
  /\ visible' = next
  /\ IF next = visible
       THEN UNCHANGED <<maps, content>>
       ELSE /\ content' = [content EXCEPT ![visible] = content[Vga],
                                          ![Vga] = content[next]]
            /\ MapTo(Home(current, next))
  /\ kpc' = "restore"
  /\ UNCHANGED <<current, mapped, kon>>

\* Mutant: the mapping is left on the VGA.
RestoreForgotten ==
  /\ HandlerAt("restore")
  /\ kon' = None
  /\ kpc' = "idle"
  /\ UNCHANGED <<current, visible, maps, mapped, content>>

\* The end of check_input.
Restore ==
  /\ HandlerAt("restore")
  /\ IF current # visible THEN MapTo(current) ELSE UNCHANGED maps
  /\ kon' = None
  /\ kpc' = "idle"
  /\ UNCHANGED <<current, visible, mapped, content>>

(***************************************************************************)
(* PIT: scheduler_next.                                                    *)
(***************************************************************************)

Tick ==
  /\ Preempt \/ kon = None
  /\ current' = (current + 1) % NumTerm
  /\ MapTo(Home((current + 1) % NumTerm, visible))
  /\ UNCHANGED <<visible, mapped, content, keyboard>>

Next ==
  \/ Tick \/ KeyPressed \/ Echo \/ Clear \/ Restore
  \/ \E t \in Terminals : SwitchTerminals(t) \/ Output(t) \/ Vidmap(t) \/ Store(t)

Spec == Init /\ [][Next]_vars

(***************************************************************************)
(* Properties.                                                             *)
(***************************************************************************)
TypeOK ==
  /\ current \in Terminals
  /\ visible \in Terminals
  /\ map \in Memories
  /\ umap \in Memories
  /\ mapped \subseteq Direct
  /\ content \in [Memories -> SUBSET Marks]
  /\ kon \in Terminals \cup {None}
  /\ kpc \in {"idle", "echo", "clear", "switch", "restore"}

\* Marks of one kind are only where the text of their terminal belongs.
Confined(kind) ==
  \A t \in Terminals, m \in Memories :
    <<kind, t>> \in content[m] => m = t \/ (m = Vga /\ t = visible)

\* The output of a program shows on its own terminal only, however the PIT,
\* the keyboard handler and ALT-Fn interleave (scheduler_next, switch_terminals
\* and the end of check_input agree on where 0xB8000 points; bug_log.txt
\* items 4 and 5).
OutputConfined == Confined("output")

\* The echo of a key shows on the terminal that was visible when it was typed
\* (keyboard.c:35; bug_log.txt item 4).
EchoConfined == Confined("echo")

\* A thread that runs outside the keyboard handler has 0xB8000 mapped to its own
\* screen (scheduler_next and the end of check_input).
MappedHome == kon # current => map = Home(current, visible)

\* The window that vidmap gives to programs follows 0xB8000, so that a program
\* stores on its own screen; the one exception is a program that has called
\* vidmap, whose window paging_vidmap puts on the VGA even while another terminal
\* is shown (sys_call.c:602).
WindowFollows == umap = map \/ (umap = Vga /\ current \in mapped)
=============================================================================
