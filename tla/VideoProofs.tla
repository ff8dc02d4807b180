---------------------------- MODULE VideoProofs ----------------------------
(***************************************************************************)
(* Proofs about Video, for any number of terminals, any set of programs    *)
(* that use vidmap and, where nothing else is said, with the PIT switching *)
(* threads anywhere in the keyboard handler.                               *)
(***************************************************************************)
EXTENDS Video, TLAPS

(***************************************************************************)
(* The inductive invariant.  MappedHome says nothing of the handler's      *)
(* thread, but the end of check_input leaves the map alone when its thread *)
(* is the visible one: AtHandler is what makes that right.                 *)
(***************************************************************************)
AtHandler == current = visible => map = Vga

MapInv == TypeOK /\ MappedHome /\ AtHandler

USE VideoAssumption

LEMMA MemoryFacts ==
  /\ Vga \in Memories
  /\ Vga \notin Terminals
  /\ None \notin Terminals
  /\ Terminals \subseteq Memories
  /\ 0 \in Terminals
  /\ \A t \in Terminals : (t + 1) % NumTerm \in Terminals
BY DEF Vga, None, Memories, Terminals

LEMMA HomeFacts ==
  \A t, v \in Terminals :
    /\ Home(t, v) \in Memories
    /\ Home(t, t) = Vga
    /\ t # v => Home(t, v) = t
BY MemoryFacts DEF Home

LEMMA MarkType ==
  ASSUME NEW m \in Memories, NEW kind \in {"output", "echo", "direct"},
         NEW t \in Terminals, TypeOK, Mark(m, kind, t)
  PROVE  content' \in [Memories -> SUBSET Marks]
<1>1. <<kind, t>> \in Marks  BY DEF Marks
<1> QED  BY <1>1 DEF TypeOK, Mark

\* Every action keeps the types.
LEMMA TypeStep == TypeOK /\ [Next]_vars => TypeOK'
<1> SUFFICES ASSUME TypeOK, [Next]_vars  PROVE TypeOK'
  OBVIOUS
<1> USE MemoryFacts
<1>1. CASE Tick
  <2>1. Home((current + 1) % NumTerm, visible) \in Memories
    BY HomeFacts DEF TypeOK
  <2> QED  BY <1>1, <2>1 DEF TypeOK, Tick, MapTo, keyboard
<1>2. CASE KeyPressed
  BY <1>2 DEF TypeOK, KeyPressed, MapTo
<1>3. CASE Echo
  BY <1>3, MarkType DEF TypeOK, Echo, maps
<1>4. CASE Clear
  BY <1>4 DEF TypeOK, Clear, maps
<1>5. CASE Restore
  BY <1>5 DEF TypeOK, Restore, MapTo, maps
<1>6. ASSUME NEW t \in Terminals, SwitchTerminals(t)  PROVE TypeOK'
  <2>1. Home(current, t) \in Memories
    BY HomeFacts DEF TypeOK
  <2> QED  BY <1>6, <2>1 DEF TypeOK, SwitchTerminals, MapTo, maps
<1>7. ASSUME NEW t \in Terminals, Output(t)  PROVE TypeOK'
  BY <1>7, MarkType DEF TypeOK, Output, maps, keyboard
<1>8. ASSUME NEW t \in Terminals, Vidmap(t)  PROVE TypeOK'
  BY <1>8 DEF TypeOK, Vidmap, paging_vidmap, keyboard
<1>9. ASSUME NEW t \in Terminals, Store(t)  PROVE TypeOK'
  BY <1>9, MarkType DEF TypeOK, Store, maps, keyboard
<1>10. CASE UNCHANGED vars
  BY <1>10 DEF TypeOK, vars, maps, keyboard
<1> QED  BY <1>1, <1>2, <1>3, <1>4, <1>5, <1>6, <1>7, <1>8, <1>9, <1>10 DEF Next

LEMMA MapInit == Init => MapInv
BY MemoryFacts DEF Init, MapInv, TypeOK, MappedHome, AtHandler, Home, None, Vga

\* Every action keeps 0xB8000 where the running thread belongs.
LEMMA MapStep == MapInv /\ [Next]_vars => MapInv'
<1> SUFFICES ASSUME MapInv, [Next]_vars  PROVE MappedHome' /\ AtHandler'
  BY TypeStep DEF MapInv
<1> USE MemoryFacts DEF MapInv, MappedHome, AtHandler
<1>1. CASE Tick
  BY <1>1 DEF Tick, MapTo, TypeOK, keyboard, Home
<1>2. CASE KeyPressed
  BY <1>2 DEF KeyPressed, MapTo
<1>3. CASE Echo
  BY <1>3 DEF Echo, maps
<1>4. CASE Clear
  BY <1>4 DEF Clear, maps
<1>5. CASE Restore
  BY <1>5 DEF Restore, MapTo, maps, Home
<1>6. ASSUME NEW t \in Terminals, SwitchTerminals(t)  PROVE MappedHome' /\ AtHandler'
  BY <1>6 DEF SwitchTerminals, HandlerAt, MapTo, maps, Home
<1>7. ASSUME NEW t \in Terminals, Output(t) \/ Store(t)  PROVE MappedHome' /\ AtHandler'
  BY <1>7 DEF Output, Store, maps, keyboard
<1>8. ASSUME NEW t \in Terminals, Vidmap(t)  PROVE MappedHome' /\ AtHandler'
  BY <1>8 DEF Vidmap, paging_vidmap, keyboard
<1>9. CASE UNCHANGED vars
  BY <1>9 DEF vars, maps, keyboard
<1> QED  BY <1>1, <1>2, <1>3, <1>4, <1>5, <1>6, <1>7, <1>8, <1>9 DEF Next

LEMMA MapAlways == Spec => []MapInv
<1> QED  BY MapInit, MapStep, PTL DEF Spec

\* Every variable of Video keeps its type (the state behind scheduler_next,
\* check_input, switch_terminals and vidmap).
THEOREM VideoTypeCorrect == Spec => []TypeOK
<1>1. MapInv => TypeOK  BY DEF MapInv
<1> QED  BY <1>1, MapAlways, PTL

\* A thread outside the keyboard handler finds 0xB8000 on its own screen,
\* wherever the PIT interrupted the handler (scheduler_next, check_input).
THEOREM ThreadsAreMappedHome == Spec => []MappedHome
<1>1. MapInv => MappedHome  BY DEF MapInv
<1> QED  BY <1>1, MapAlways, PTL

(***************************************************************************)
(* Where marks end up.                                                     *)
(***************************************************************************)
\* A mark made where its terminal belongs keeps its kind confined.
LEMMA MarkConfined ==
  ASSUME NEW k, NEW kind, NEW t \in Terminals, NEW m \in Memories,
         TypeOK, Confined(k), Mark(m, kind, t), visible' = visible,
         kind = k => m = Home(t, visible)
  PROVE  Confined(k)'
<1> SUFFICES ASSUME NEW u \in Terminals, NEW n \in Memories, <<k, u>> \in content'[n]
             PROVE  n = u \/ (n = Vga /\ u = visible)
  BY DEF Confined
<1>1. CASE <<k, u>> \in content[n]
  BY <1>1 DEF Confined
<1>2. CASE <<k, u>> \notin content[n]
  <2>1. n = m /\ <<k, u>> = <<kind, t>>
    BY <1>2 DEF Mark, TypeOK
  <2>2. k = kind /\ u = t
    BY <2>1
  <2> QED  BY <2>1, <2>2 DEF Home
<1> QED  BY <1>1, <1>2

\* CTRL-L and ALT-Fn keep every kind confined: clear() only removes marks, and
\* switch_terminals saves the VGA to the terminal it showed.
LEMMA ScreenConfined ==
  ASSUME NEW k, TypeOK, Confined(k),
         Clear \/ \E t \in Terminals : SwitchTerminals(t)
  PROVE  Confined(k)'
<1> USE MemoryFacts
<1>1. CASE Clear
  BY <1>1 DEF Clear, Confined, TypeOK
<1>2. ASSUME NEW next \in Terminals, SwitchTerminals(next)  PROVE Confined(k)'
  <2>1. CASE next = visible
    BY <1>2, <2>1 DEF SwitchTerminals, Confined
  <2>2. CASE next # visible
    <3>1. /\ visible' = next
          /\ content' = [content EXCEPT ![visible] = content[Vga], ![Vga] = content[next]]
      BY <1>2, <2>2 DEF SwitchTerminals
    <3> SUFFICES ASSUME NEW u \in Terminals, NEW n \in Memories, <<k, u>> \in content'[n]
                 PROVE  n = u \/ (n = Vga /\ u = next)
      BY <3>1 DEF Confined
    <3>2. CASE n = Vga
      <4>1. <<k, u>> \in content[next]
        BY <3>1, <3>2 DEF TypeOK
      <4> QED  BY <4>1, <3>2 DEF Confined
    <3>3. CASE n = visible
      <4>1. <<k, u>> \in content[Vga]
        BY <3>1, <3>3 DEF TypeOK
      <4> QED  BY <4>1, <3>3 DEF Confined
    <3>4. CASE n # Vga /\ n # visible
      <4>1. <<k, u>> \in content[n]
        BY <3>1, <3>4 DEF TypeOK
      <4> QED  BY <4>1, <3>4 DEF Confined
    <3> QED  BY <3>2, <3>3, <3>4
  <2> QED  BY <2>1, <2>2
<1> QED  BY <1>1, <1>2

\* The other steps make no mark at all.
LEMMA QuietConfined ==
  ASSUME NEW k, Confined(k), UNCHANGED <<visible, content>>
  PROVE  Confined(k)'
BY DEF Confined

\* The output of a program stays on its own terminal, wherever the PIT interrupts
\* the keyboard handler (terminal_write, scheduler_next, switch_terminals).
THEOREM OutputStaysHome == Spec => []OutputConfined
<1>1. Init => OutputConfined
  BY DEF Init, OutputConfined, Confined
<1>2. MapInv /\ OutputConfined /\ [Next]_vars => OutputConfined'
  <2> SUFFICES ASSUME MapInv, Confined("output"), [Next]_vars  PROVE Confined("output")'
    BY DEF OutputConfined
  <2> USE MemoryFacts DEF MapInv
  <2>1. CASE Tick \/ KeyPressed \/ Restore \/ UNCHANGED vars
    <3>1. UNCHANGED <<visible, content>>
      BY <2>1 DEF Tick, KeyPressed, Restore, vars
    <3> QED  BY <3>1, QuietConfined
  <2>2. CASE Clear \/ \E t \in Terminals : SwitchTerminals(t)
    BY <2>2, ScreenConfined
  <2>3. CASE Echo
    <3>1. Mark(map, "echo", visible) /\ visible' = visible
      BY <2>3 DEF Echo
    <3> QED  BY <3>1, MarkConfined DEF TypeOK
  <2>4. ASSUME NEW t \in Terminals, Output(t)  PROVE Confined("output")'
    <3>1. Mark(map, "output", t) /\ visible' = visible
      BY <2>4 DEF Output
    <3>2. map = Home(t, visible)
      BY <2>4 DEF Output, OnCpu, MappedHome
    <3> QED  BY <3>1, <3>2, MarkConfined DEF TypeOK
  <2>5. ASSUME NEW t \in Terminals, Vidmap(t)  PROVE Confined("output")'
    BY <2>5, QuietConfined DEF Vidmap, paging_vidmap
  <2>6. ASSUME NEW t \in Terminals, Store(t)  PROVE Confined("output")'
    <3>1. Mark(umap, "direct", t) /\ visible' = visible
      BY <2>6 DEF Store
    <3> QED  BY <3>1, MarkConfined DEF TypeOK
  <2> QED  BY <2>1, <2>2, <2>3, <2>4, <2>5, <2>6 DEF Next
<1> QED  BY <1>1, <1>2, MapAlways, PTL DEF Spec

\* The window of vidmap follows 0xB8000 except for a program that called vidmap
\* (paging_set_write_to_buffer, paging_set_write_to_videomem, paging_vidmap).
THEOREM WindowAlwaysFollows == Spec => []WindowFollows
<1>1. Init => WindowFollows
  BY DEF Init, WindowFollows
<1>2. WindowFollows /\ [Next]_vars => WindowFollows'
  <2> SUFFICES ASSUME WindowFollows, [Next]_vars  PROVE WindowFollows'
    OBVIOUS
  <2> USE DEF WindowFollows
  <2>1. CASE Tick \/ KeyPressed
    BY <2>1 DEF Tick, KeyPressed, MapTo
  <2>2. CASE Echo \/ Clear \/ UNCHANGED vars
    BY <2>2 DEF Echo, Clear, vars, maps
  <2>3. CASE Restore
    BY <2>3 DEF Restore, MapTo, maps
  <2>4. ASSUME NEW t \in Terminals, SwitchTerminals(t)  PROVE WindowFollows'
    BY <2>4 DEF SwitchTerminals, MapTo, maps
  <2>5. ASSUME NEW t \in Terminals, Output(t) \/ Store(t)  PROVE WindowFollows'
    BY <2>5 DEF Output, Store, maps
  <2>6. ASSUME NEW t \in Terminals, Vidmap(t)  PROVE WindowFollows'
    BY <2>6 DEF Vidmap, paging_vidmap, OnCpu
  <2> QED  BY <2>1, <2>2, <2>3, <2>4, <2>5, <2>6 DEF Next
<1> QED  BY <1>1, <1>2, PTL DEF Spec

(***************************************************************************)
(* The echo.  It is confined if the PIT leaves the handler alone: then the *)
(* handler's thread is the running one and the map is as it set it.        *)
(***************************************************************************)
Undisturbed ==
  /\ kon = None => kpc = "idle"
  /\ kon # None => kon = current
  /\ kpc = "echo" => map = Vga

\* With the PIT held off, each step of the handler finds what the one before left.
LEMMA UndisturbedStep ==
  ASSUME ~Preempt, TypeOK, Undisturbed, [Next]_vars
  PROVE  Undisturbed'
<1> USE MemoryFacts DEF Undisturbed
<1>1. CASE Tick
  BY <1>1 DEF Tick, keyboard
<1>2. CASE KeyPressed
  BY <1>2 DEF KeyPressed, MapTo, TypeOK
<1>3. CASE Echo
  BY <1>3 DEF Echo, HandlerAt
<1>4. CASE Clear
  BY <1>4 DEF Clear, HandlerAt
<1>5. CASE Restore
  BY <1>5 DEF Restore
<1>6. ASSUME NEW t \in Terminals, SwitchTerminals(t)  PROVE Undisturbed'
  BY <1>6 DEF SwitchTerminals, HandlerAt
<1>7. ASSUME NEW t \in Terminals, Output(t) \/ Store(t)  PROVE Undisturbed'
  BY <1>7 DEF Output, Store, maps, keyboard
<1>8. ASSUME NEW t \in Terminals, Vidmap(t)  PROVE Undisturbed'
  BY <1>8 DEF Vidmap, paging_vidmap, keyboard
<1>9. CASE UNCHANGED vars
  BY <1>9 DEF vars, maps, keyboard
<1> QED  BY <1>1, <1>2, <1>3, <1>4, <1>5, <1>6, <1>7, <1>8, <1>9 DEF Next

\* The echo of a key stays on the visible terminal as long as the PIT does not
\* interrupt the keyboard handler, so that the preemption is the only cause of
\* echo on a hidden one (keyboard.c:35).
THEOREM EchoStaysHome ==
  ASSUME ~Preempt
  PROVE  Spec => []EchoConfined
<1>1. Init => Undisturbed /\ EchoConfined
  BY DEF Init, Undisturbed, EchoConfined, Confined
<1>2. MapInv /\ Undisturbed /\ EchoConfined /\ [Next]_vars => Undisturbed' /\ EchoConfined'
  <2> SUFFICES ASSUME MapInv, Undisturbed, Confined("echo"), [Next]_vars
               PROVE  Confined("echo")'
    BY UndisturbedStep DEF EchoConfined, MapInv
  <2> USE MemoryFacts DEF MapInv
  <2>1. CASE Tick \/ KeyPressed \/ Restore \/ UNCHANGED vars
    <3>1. UNCHANGED <<visible, content>>
      BY <2>1 DEF Tick, KeyPressed, Restore, vars
    <3> QED  BY <3>1, QuietConfined
  <2>2. CASE Clear \/ \E t \in Terminals : SwitchTerminals(t)
    BY <2>2, ScreenConfined
  <2>3. CASE Echo
    <3>1. Mark(map, "echo", visible) /\ visible' = visible
      BY <2>3 DEF Echo
    <3>2. map = Home(visible, visible)
      BY <2>3 DEF Echo, HandlerAt, Undisturbed, Home
    <3> QED  BY <3>1, <3>2, MarkConfined DEF TypeOK
  <2>4. ASSUME NEW t \in Terminals, Output(t)  PROVE Confined("echo")'
    <3>1. Mark(map, "output", t) /\ visible' = visible
      BY <2>4 DEF Output
    <3> QED  BY <3>1, MarkConfined DEF TypeOK
  <2>5. ASSUME NEW t \in Terminals, Vidmap(t)  PROVE Confined("echo")'
    BY <2>5, QuietConfined DEF Vidmap, paging_vidmap
  <2>6. ASSUME NEW t \in Terminals, Store(t)  PROVE Confined("echo")'
    <3>1. Mark(umap, "direct", t) /\ visible' = visible
      BY <2>6 DEF Store
    <3> QED  BY <3>1, MarkConfined DEF TypeOK
  <2> QED  BY <2>1, <2>2, <2>3, <2>4, <2>5, <2>6 DEF Next
<1> QED  BY <1>1, <1>2, MapAlways, PTL DEF Spec
=============================================================================
