-------------------------- MODULE InterruptsProofs --------------------------
(***************************************************************************)
(* Proofs about Interrupts, for any number of terminals and any depth of   *)
(* nested handlers.                                                        *)
(***************************************************************************)
EXTENDS Interrupts, TLAPS

(***************************************************************************)
(* The inductive invariant.                                                *)
(***************************************************************************)
\* What entry has set up when it is at a step; interrupts come on last.
SetupInv ==
  /\ "gates" \in ready <=> step > 1
  /\ "vectors" \in ready <=> step > 2
  /\ "terminals" \in ready <=> step > 5
  /\ enabled => step = 8

\* Until then nothing is interrupted.
CalmInv == step < 8 => service = {} /\ \A t \in Threads : frames[t] = <<>>

DepthInv == \A t \in Threads : Len(frames[t]) <= MaxDepth

\* The handler at place i of thread t has to acknowledge b.
OwesAt(t, i, b) == i \in 1 .. Len(frames[t]) /\ b \in Owes(frames[t][i])

\* OneHandlerEach, of the places themselves.
ServiceInv ==
  \A b \in Bits :
    /\ b \in service <=> \E t \in Threads : \E i \in Nat : OwesAt(t, i, b)
    /\ \A t, u \in Threads, i, j \in Nat : OwesAt(t, i, b) /\ OwesAt(u, j, b) => t = u /\ i = j

InterruptInv == TypeOK /\ SetupInv /\ CalmInv /\ DepthInv /\ ServiceInv

(***************************************************************************)
(* The handlers of a thread.                                               *)
(***************************************************************************)
\* entry's steps, by number.
LEMMA Steps ==
  /\ Len(Order) = 7
  /\ Order[1] = "idt" /\ Order[2] = "i8259" /\ Order[3] = "keyboard" /\ Order[4] = "rtc"
  /\ Order[5] = "scheduler" /\ Order[6] = "pit" /\ Order[7] = "sti"
BY DEF Order

\* What each handler owes.
LEMMA Dues ==
  /\ Owes([irq |-> Keyboard, pc |-> "work"]) = {Keyboard}
  /\ Owes([irq |-> Clock, pc |-> "work"]) = {Slave, Clock}
  /\ Owes([irq |-> Clock, pc |-> "master"]) = {Slave}
  /\ Owes([irq |-> Keyboard, pc |-> "iret"]) = {}
  /\ Owes([irq |-> Clock, pc |-> "iret"]) = {}
BY DEF Owes, Keyboard, Clock

\* A handler that a trap gate starts is the last on its thread.
LEMMA Entered ==
  ASSUME TypeOK, NEW irq \in {Keyboard, Clock}, Enter(irq)
  PROVE  LET n == Len(frames[cpu]) + 1
             w == [irq |-> irq, pc |-> "work"]
         IN /\ n \in Nat /\ w \in Frame
            /\ frames' \in [Threads -> Seq(Frame)]
            /\ frames'[cpu][n] = w
            /\ Len(frames'[cpu]) = n
            /\ \A t \in Threads, i \in Nat, b \in Bits :
                 OwesAt(t, i, b)' <=> OwesAt(t, i, b) \/ (t = cpu /\ i = n /\ b \in Owes(w))
<1> DEFINE s == frames[cpu]
           n == Len(s) + 1
           w == [irq |-> irq, pc |-> "work"]
<1>1. s \in Seq(Frame) /\ w \in Frame
  BY DEF TypeOK, Frame
<1>2. frames' = [frames EXCEPT ![cpu] = Append(s, w)]
  BY DEF Enter
<1>3. Append(s, w) \in Seq(Frame)
  BY <1>1
<1>4. frames' \in [Threads -> Seq(Frame)]
  BY <1>2, <1>3 DEF TypeOK
<1>5. frames'[cpu] = Append(s, w) /\ \A t \in Threads : t # cpu => frames'[t] = frames[t]
  BY <1>2 DEF TypeOK
<1>6. /\ n \in Nat /\ Len(Append(s, w)) = n /\ Append(s, w)[n] = w
      /\ \A i \in 1 .. Len(s) : Append(s, w)[i] = s[i]
  BY <1>1
<1>7. ASSUME NEW t \in Threads, NEW i \in Nat, NEW b \in Bits
      PROVE  OwesAt(t, i, b)' <=> OwesAt(t, i, b) \/ (t = cpu /\ i = n /\ b \in Owes(w))
  <2>1. CASE t # cpu
    BY <1>5, <2>1 DEF OwesAt
  <2>2. CASE t = cpu
    <3>1. OwesAt(t, i, b)' <=> i \in 1 .. n /\ b \in Owes(Append(s, w)[i])
      BY <1>5, <1>6, <2>2 DEF OwesAt
    <3>2. i \in 1 .. n <=> i \in 1 .. Len(s) \/ i = n
      BY <1>1
    <3>3. QED
      BY <1>6, <2>2, <3>1, <3>2 DEF OwesAt
  <2>3. QED
    BY <2>1, <2>2
<1>8. QED
  BY <1>1, <1>4, <1>5, <1>6, <1>7

\* A step of the last handler changes nothing but what that one owes.
LEMMA Advanced ==
  ASSUME TypeOK, NEW irq \in {Keyboard, Clock}, NEW pc, NEW q \in {"work", "master", "iret"},
         Running(irq, pc), Goto(q)
  PROVE  LET n == Len(frames[cpu])
             w == [irq |-> irq, pc |-> q]
         IN /\ n \in Nat
            /\ frames' \in [Threads -> Seq(Frame)]
            /\ \A t \in Threads : Len(frames'[t]) = Len(frames[t])
            /\ \A b \in Bits : OwesAt(cpu, n, b) <=> b \in Owes([irq |-> irq, pc |-> pc])
            /\ \A t \in Threads, i \in Nat, b \in Bits :
                 OwesAt(t, i, b)' <=> IF t = cpu /\ i = n THEN b \in Owes(w) ELSE OwesAt(t, i, b)
<1> DEFINE s == frames[cpu]
           n == Len(s)
           w == [irq |-> irq, pc |-> q]
           v == [s EXCEPT ![n] = w]
<1>1. s \in Seq(Frame) /\ w \in Frame /\ n \in Nat /\ n > 0
  <2>1. s \in Seq(Frame) /\ s # <<>>
    BY DEF TypeOK, Running
  <2>2. w \in Frame
    BY DEF Frame
  <2>3. QED
    BY <2>1, <2>2
<1>2. s[n] = [irq |-> irq, pc |-> pc]
  BY DEF Running
<1>3. frames' = [frames EXCEPT ![cpu] = v]
  <2>1. [s[n] EXCEPT !.pc = q] = w
    BY <1>2
  <2>2. QED
    BY <2>1 DEF Goto
<1>4. v \in Seq(Frame) /\ Len(v) = n
  BY <1>1
<1>5. frames' \in [Threads -> Seq(Frame)]
  BY <1>3, <1>4 DEF TypeOK
<1>6. frames'[cpu] = v /\ \A t \in Threads : t # cpu => frames'[t] = frames[t]
  BY <1>3 DEF TypeOK
<1>7. \A i \in 1 .. n : v[i] = IF i = n THEN w ELSE s[i]
  BY <1>1
<1>8. \A b \in Bits : OwesAt(cpu, n, b) <=> b \in Owes([irq |-> irq, pc |-> pc])
  BY <1>1, <1>2 DEF OwesAt
<1>9. ASSUME NEW t \in Threads, NEW i \in Nat, NEW b \in Bits
      PROVE  OwesAt(t, i, b)' <=> IF t = cpu /\ i = n THEN b \in Owes(w) ELSE OwesAt(t, i, b)
  <2>1. CASE t # cpu
    BY <1>6, <2>1 DEF OwesAt
  <2>2. CASE t = cpu
    <3>1. OwesAt(t, i, b)' <=> i \in 1 .. n /\ b \in Owes(v[i])
      BY <1>4, <1>6, <2>2 DEF OwesAt
    <3>2. QED
      BY <1>1, <1>7, <2>2, <3>1 DEF OwesAt
  <2>3. QED
    BY <2>1, <2>2
<1>10. QED
  BY <1>1, <1>4, <1>5, <1>6, <1>8, <1>9

\* The handler that returns owes nothing any more.
LEMMA Returned ==
  ASSUME TypeOK, iret
  PROVE  /\ frames' \in [Threads -> Seq(Frame)]
         /\ \A t \in Threads : Len(frames'[t]) <= Len(frames[t])
         /\ \A t \in Threads, i \in Nat, b \in Bits : OwesAt(t, i, b)' <=> OwesAt(t, i, b)
<1> DEFINE s == frames[cpu]
           n == Len(s)
           v == SubSeq(s, 1, n - 1)
<1>1. PICK irq \in {Keyboard, Clock} : Running(irq, "iret")
  BY DEF iret
<1>2. s \in Seq(Frame) /\ n \in Nat /\ n > 0
  BY <1>1 DEF TypeOK, Running
<1>3. Owes(s[n]) = {}
  BY <1>1, Dues DEF Running
<1>4. frames' = [frames EXCEPT ![cpu] = v]
  BY DEF iret
<1>5. v \in Seq(Frame) /\ Len(v) = n - 1 /\ \A i \in 1 .. n-1 : v[i] = s[i]
  BY <1>2
<1>6. frames' \in [Threads -> Seq(Frame)]
  BY <1>4, <1>5 DEF TypeOK
<1>7. frames'[cpu] = v /\ \A t \in Threads : t # cpu => frames'[t] = frames[t]
  BY <1>4 DEF TypeOK
<1>8. ASSUME NEW t \in Threads  PROVE Len(frames'[t]) <= Len(frames[t])
  <2>1. frames[t] \in Seq(Frame) /\ Len(frames[t]) \in Nat
    BY DEF TypeOK
  <2>2. CASE t = cpu
    <3>1. Len(frames'[t]) = n - 1 /\ Len(frames[t]) = n
      BY <1>5, <1>7, <2>2
    <3> HIDE DEF n
    <3>2. QED
      BY <1>2, <3>1
  <2>3. CASE t # cpu
    <3>1. Len(frames'[t]) = Len(frames[t])
      BY <1>7, <2>3
    <3>2. QED
      BY <2>1, <3>1
  <2>4. QED
    BY <2>2, <2>3
<1>9. ASSUME NEW t \in Threads, NEW i \in Nat, NEW b \in Bits
      PROVE  OwesAt(t, i, b)' <=> OwesAt(t, i, b)
  <2>1. CASE t # cpu
    BY <1>7, <2>1 DEF OwesAt
  <2>2. CASE t = cpu
    <3>1. OwesAt(t, i, b)' <=> i \in 1 .. n-1 /\ b \in Owes(v[i])
      BY <1>5, <1>7, <2>2 DEF OwesAt
    <3>2. i \in 1 .. n <=> i \in 1 .. n-1 \/ i = n
      BY <1>2
    <3>3. QED
      BY <1>2, <1>3, <1>5, <2>2, <3>1, <3>2 DEF OwesAt
  <2>3. QED
    BY <2>1, <2>2
<1>10. QED
  BY <1>6, <1>8, <1>9

(***************************************************************************)
(* Every step preserves the invariant.                                     *)
(***************************************************************************)
LEMMA InterruptInit == Init => InterruptInv
<1> SUFFICES ASSUME Init PROVE InterruptInv
  OBVIOUS
<1>1. NumTerms - 1 \in Terms /\ Boot \in Threads
  BY TermsAssumption DEF Terms, Boot, Threads
<1>2. \A t \in Threads : frames[t] = <<>>
  BY DEF Init
<1>3. TypeOK
  <2>1. frames \in [Threads -> Seq(Frame)]
    BY DEF Init
  <2>2. enabled \in BOOLEAN
    BY Zenon DEF Init
  <2>3. QED
    BY <1>1, <2>1, <2>2, Steps DEF Init, TypeOK
<1>4. SetupInv /\ CalmInv
  BY <1>2 DEF Init, SetupInv, CalmInv
<1>5. DepthInv
  BY <1>2, DepthAssumption DEF DepthInv
<1>6. ServiceInv
  BY <1>2 DEF Init, ServiceInv, OwesAt
<1>7. QED
  BY <1>3, <1>4, <1>5, <1>6 DEF InterruptInv

\* A step that leaves the handlers and what is in service.
LEMMA ServiceKept ==
  ASSUME ServiceInv, DepthInv, UNCHANGED <<service, frames>>
  PROVE  ServiceInv' /\ DepthInv'
BY DEF ServiceInv, DepthInv, OwesAt

\* The initialisation of the kernel.
LEMMA EntryKeeps ==
  ASSUME InterruptInv, entry
  PROVE  InterruptInv'
<1> USE DEF InterruptInv
<1>1. step \in 1 .. 7 /\ step' = step + 1
  BY Steps DEF entry, initialize_IDT, i8259_init, init_device, init_keyboard, init_rtc, init_pit,
               init_global_scheduler, sti, At, TypeOK
<1>2. service = {} /\ ~enabled
  BY <1>1 DEF CalmInv, SetupInv
<1>3. /\ service' = {}
      /\ UNCHANGED <<current, on, cpu, frames>>
      /\ mask' \subseteq Bits /\ request' \subseteq Lines
  BY <1>2 DEF entry, initialize_IDT, i8259_init, init_device, init_keyboard, init_rtc, init_pit,
               init_global_scheduler, sti, enable_irq, TypeOK
<1>4. /\ step = 1 => ready' = ready \cup {"gates"} /\ enabled' = enabled
      /\ step = 2 => ready' = ready \cup {"vectors"} /\ enabled' = enabled
      /\ step = 5 => ready' = ready \cup {"terminals"} /\ enabled' = enabled
      /\ step \in {3, 4, 6} => ready' = ready /\ enabled' = enabled
      /\ step = 7 => ready' = ready /\ enabled' = TRUE
  BY <1>1, Steps DEF entry, initialize_IDT, i8259_init, init_device, init_keyboard, init_rtc,
               init_pit, init_global_scheduler, sti, At
<1>5. SetupInv'
  BY <1>1, <1>2, <1>4 DEF SetupInv
<1>6. TypeOK'
  <2>1. ready' \subseteq Parts
    <3>1. \/ ready' = ready
          \/ ready' = ready \cup {"gates"}
          \/ ready' = ready \cup {"vectors"}
          \/ ready' = ready \cup {"terminals"}
      BY <1>1, <1>4
    <3>2. QED
      BY <3>1 DEF TypeOK, Parts
  <2>2. enabled' = enabled \/ enabled' = TRUE
    BY <1>1, <1>4
  <2>3. enabled' \in BOOLEAN
    BY Zenon, <2>2 DEF TypeOK
  <2>4. QED
    BY <1>1, <1>3, <2>1, <2>3, Steps DEF TypeOK
<1>7. CalmInv'
  BY <1>1, <1>3 DEF CalmInv
<1>8. QED
  BY <1>2, <1>3, <1>5, <1>6, <1>7, ServiceKept

\* A trap gate starts a handler only of what is not in service.
LEMMA EnterKeeps ==
  ASSUME InterruptInv, NEW irq \in {Keyboard, Clock}, Enter(irq)
  PROVE  InterruptInv'
<1> USE DEF InterruptInv
<1> DEFINE n == Len(frames[cpu]) + 1
           w == [irq |-> irq, pc |-> "work"]
<1>1. /\ n \in Nat
      /\ frames' \in [Threads -> Seq(Frame)]
      /\ \A t \in Threads, i \in Nat, b \in Bits :
           OwesAt(t, i, b)' <=> OwesAt(t, i, b) \/ (t = cpu /\ i = n /\ b \in Owes(w))
  BY Entered
<1>2. /\ UNCHANGED <<step, ready, mask, enabled, current, on, cpu>>
      /\ request' = request \ {irq}
      /\ enabled /\ cpu \in Threads
      /\ service' = service \cup (IF irq = Clock THEN {Slave, Clock} ELSE {irq})
  BY DEF Enter, Taken, Deliverable, TypeOK, setup
<1>3. service' = service \cup Owes(w) /\ Owes(w) \subseteq Bits /\ Owes(w) \cap service = {}
  <2>1. CASE irq = Keyboard
    <3>1. Owes(w) = {Keyboard}
      BY <2>1, Dues
    <3>2. QED
      BY <1>2, <2>1, <3>1 DEF Enter, Taken, Deliverable, Above, Bits, Keyboard, Clock
  <2>2. CASE irq = Clock
    <3>1. Owes(w) = {Slave, Clock}
      BY <2>2, Dues
    <3>2. QED
      BY <1>2, <2>2, <3>1 DEF Enter, Taken, Deliverable, Above, Bits
  <2>3. QED
    BY <2>1, <2>2
<1>4. TypeOK'
  BY <1>1, <1>2, <1>3 DEF TypeOK
<1>5. SetupInv' /\ CalmInv'
  BY <1>2 DEF SetupInv, CalmInv
<1>6. DepthInv'
  BY Entered, DepthAssumption DEF DepthInv, Enter, TypeOK
<1> HIDE DEF n, w
<1>7. ServiceInv'
  <2>1. ASSUME NEW b \in Bits
        PROVE  b \in service' <=> \E t \in Threads : \E i \in Nat : OwesAt(t, i, b)'
    BY <1>1, <1>2, <1>3 DEF ServiceInv
  <2>2. ASSUME NEW b \in Bits, NEW t \in Threads, NEW u \in Threads, NEW i \in Nat, NEW j \in Nat,
               OwesAt(t, i, b)', OwesAt(u, j, b)'
        PROVE  t = u /\ i = j
    BY <1>1, <1>3, <2>2 DEF ServiceInv
  <2>3. QED
    BY <2>1, <2>2 DEF ServiceInv
<1>8. QED
  BY <1>4, <1>5, <1>6, <1>7

\* A handler acknowledges exactly what it owes and the next step of it does not.
LEMMA EoiKeeps ==
  ASSUME InterruptInv, NEW irq \in {Keyboard, Clock}, NEW pc, NEW q \in {"work", "master", "iret"},
         NEW b0 \in Bits,
         Running(irq, pc), Goto(q), send_eoi(b0),
         Owes([irq |-> irq, pc |-> q]) = Owes([irq |-> irq, pc |-> pc]) \ {b0},
         b0 \in Owes([irq |-> irq, pc |-> pc]),
         UNCHANGED <<step, ready, mask, enabled, request, current, on, cpu>>
  PROVE  InterruptInv'
<1> USE DEF InterruptInv
<1> DEFINE n == Len(frames[cpu])
           old == Owes([irq |-> irq, pc |-> pc])
           new == Owes([irq |-> irq, pc |-> q])
<1>1. /\ n \in Nat /\ cpu \in Threads
      /\ frames' \in [Threads -> Seq(Frame)]
      /\ \A t \in Threads : Len(frames'[t]) = Len(frames[t])
      /\ \A b \in Bits : OwesAt(cpu, n, b) <=> b \in old
      /\ \A t \in Threads, i \in Nat, b \in Bits :
           OwesAt(t, i, b)' <=> IF t = cpu /\ i = n THEN b \in new ELSE OwesAt(t, i, b)
  BY Advanced DEF TypeOK
<1>2. service' = service \ {b0} /\ new = old \ {b0} /\ b0 \in old /\ enabled
  BY DEF send_eoi, Running
<1>3. TypeOK' /\ SetupInv' /\ DepthInv'
  BY <1>1, <1>2 DEF TypeOK, SetupInv, DepthInv
<1>4. CalmInv'
  BY <1>2 DEF SetupInv, CalmInv
<1> HIDE DEF n, old, new
<1>5. \A t \in Threads, i \in Nat, b \in Bits : OwesAt(t, i, b)' <=> OwesAt(t, i, b) /\ b # b0
  BY <1>1, <1>2 DEF ServiceInv
<1>6. ServiceInv'
  BY <1>2, <1>5 DEF ServiceInv
<1>7. QED
  BY <1>3, <1>4, <1>6

LEMMA InterruptNext == InterruptInv /\ [Next]_vars => InterruptInv'
<1> SUFFICES ASSUME InterruptInv, [Next]_vars PROVE InterruptInv'
  OBVIOUS
<1>1. CASE entry
  BY <1>1, EntryKeeps
<1>2. ASSUME NEW irq \in Lines, Raise(irq) PROVE InterruptInv'
  <2>1. TypeOK' /\ SetupInv' /\ CalmInv'
    BY <1>2 DEF InterruptInv, Raise, TypeOK, SetupInv, CalmInv, setup
  <2>2. QED
    BY <1>2, <2>1, ServiceKept DEF InterruptInv, Raise
<1>3. CASE pithandler
  <2>1. (current + 1) % NumTerms \in Terms
    BY TermsAssumption DEF InterruptInv, TypeOK, Terms
  <2>2. TypeOK' /\ SetupInv' /\ CalmInv'
    BY <1>3, <2>1 DEF InterruptInv, pithandler, TypeOK, SetupInv, CalmInv, setup, Threads
  <2>3. QED
    BY <1>3, <2>2, ServiceKept DEF InterruptInv, pithandler
<1>4. ASSUME NEW irq \in {Keyboard, Clock}, Enter(irq) PROVE InterruptInv'
  BY <1>4, EnterKeeps
<1>5. CASE check_input
  BY <1>5, EoiKeeps, Dues DEF check_input, setup, Bits
<1>6. CASE rtchandler
  <2>1. Slave # Clock
    BY DEF Slave, Clock
  <2>2. Owes([irq |-> Clock, pc |-> "master"]) = Owes([irq |-> Clock, pc |-> "work"]) \ {Clock}
    BY <2>1, Dues
  <2>3. QED
    BY <1>6, <2>2, EoiKeeps, Dues DEF rtchandler, setup, Bits
<1>7. CASE rtchandler_master
  BY <1>7, EoiKeeps, Dues DEF rtchandler_master, setup, Bits
<1>8. CASE iret
  <2>1. TypeOK' /\ DepthInv'
    BY <1>8, Returned, DepthAssumption DEF InterruptInv, iret, TypeOK, DepthInv, setup
  <2>2. SetupInv' /\ CalmInv'
    BY <1>8 DEF InterruptInv, iret, Running, SetupInv, CalmInv, setup
  <2>3. ServiceInv'
    BY <1>8, Returned DEF InterruptInv, iret, ServiceInv
  <2>4. QED
    BY <2>1, <2>2, <2>3 DEF InterruptInv
<1>9. CASE Exception
  <2>1. TypeOK' /\ SetupInv' /\ CalmInv'
    BY <1>9 DEF InterruptInv, Exception, TypeOK, SetupInv, CalmInv, setup
  <2>2. QED
    BY <1>9, <2>1, ServiceKept DEF InterruptInv, Exception
<1>10. CASE UNCHANGED vars
  <2>1. TypeOK' /\ SetupInv' /\ CalmInv'
    BY <1>10 DEF InterruptInv, TypeOK, SetupInv, CalmInv, vars, setup
  <2>2. QED
    BY <1>10, <2>1, ServiceKept DEF InterruptInv, vars
<1>11. QED
  BY <1>1, <1>2, <1>3, <1>4, <1>5, <1>6, <1>7, <1>8, <1>9, <1>10 DEF Next

\* The invariant, for every number of terminals and every depth of handlers.
THEOREM InterruptInvariant == Spec => []InterruptInv
BY InterruptInit, InterruptNext, PTL DEF Spec

\* No interrupt comes through before entry has set up its gate, its vector and the
\* terminals: sti is its last step.
THEOREM NothingComesTooEarly == Spec => []NothingTooEarly
<1>1. InterruptInv => NothingTooEarly
  <2> SUFFICES ASSUME InterruptInv, enabled PROVE ready = Parts
    BY DEF NothingTooEarly
  <2>1. "gates" \in ready /\ "vectors" \in ready /\ "terminals" \in ready
    BY DEF InterruptInv, SetupInv
  <2>2. QED
    BY <2>1 DEF InterruptInv, TypeOK, Parts
<1>2. QED
  BY <1>1, InterruptInvariant, PTL

\* Each device's interrupt is in service exactly while one handler, on whatever
\* thread, has to acknowledge it: however the PIT switches between handlers, none
\* is acknowledged twice or left in service.
THEOREM EachHasOneHandler == Spec => []OneHandlerEach
<1>1. InterruptInv => OneHandlerEach
  <2> SUFFICES ASSUME InterruptInv, NEW b \in Bits
               PROVE  /\ b \in service <=> Owners(b) # {}
                      /\ \A o, p \in Owners(b) : o = p
    BY DEF OneHandlerEach
  <2>1. \A t \in Threads, i \in Nat : OwesAt(t, i, b) <=> <<t, i>> \in Owners(b)
    BY DepthAssumption DEF InterruptInv, TypeOK, DepthInv, OwesAt, Owners
  <2>2. \A o \in Owners(b) : o[1] \in Threads /\ o[2] \in Nat /\ o = <<o[1], o[2]>>
    BY DEF Owners
  <2>3. b \in service <=> Owners(b) # {}
    <3>1. Owners(b) # {} <=> \E t \in Threads : \E i \in Nat : OwesAt(t, i, b)
      BY <2>1, <2>2
    <3>2. QED
      BY <3>1 DEF InterruptInv, ServiceInv
  <2>4. \A o, p \in Owners(b) : o = p
    <3> TAKE o, p \in Owners(b)
    <3>1. OwesAt(o[1], o[2], b) /\ OwesAt(p[1], p[2], b)
      BY <2>1, <2>2
    <3>2. o[1] = p[1] /\ o[2] = p[2]
      BY <2>2, <3>1 DEF InterruptInv, ServiceInv
    <3>3. QED
      BY <2>2, <3>2
  <2>5. QED
    BY <2>3, <2>4
<1>2. QED
  BY <1>1, InterruptInvariant, PTL
=============================================================================
