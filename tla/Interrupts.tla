----------------------------- MODULE Interrupts -----------------------------
(***************************************************************************)
(* Interrupts from boot on: entry sets the controller and the descriptors  *)
(* up and spins with interrupts enabled until the PIT starts the shells.   *)
(* The gates of keyboard and clock are trap gates: their handlers can be   *)
(* interrupted, also by a PIT tick that goes on with another terminal,     *)
(* whereupon they stay on the thread they interrupted with their interrupt *)
(* in service.  The PIT and the exceptions have interrupt gates.           *)
(*                                                                         *)
(* The short sections between cli and sti of rtc_write and                 *)
(* switch_terminals are left out: they only delay an interrupt.            *)
(***************************************************************************)
EXTENDS Integers, Sequences

CONSTANTS
  NumTerms,   \* NUM_TERMS
  MaxDepth    \* bound: handlers on one thread

ASSUME TermsAssumption == NumTerms \in Nat \ {0}
ASSUME DepthAssumption == MaxDepth \in Nat

\* The lines of the controllers in use; a smaller number has priority.
Timer    == 0
Keyboard == 1
Slave    == 2
Clock    == 8
Lines    == {Timer, Keyboard, Clock}
Bits     == {Timer, Keyboard, Slave, Clock}

Terms   == 0 .. NumTerms-1
Boot    == NumTerms            \* the thread of entry
Threads == Terms \cup {Boot}

VARIABLES
  step,      \* the next step of entry
  ready,     \* what entry has set up
  enabled,   \* the interrupt flag
  mask,      \* master_mask and slave_mask: the lines that are masked
  request,   \* the controllers' requests
  service,   \* the controllers' interrupts in service
  current,   \* current_term
  on,        \* is_on
  cpu,       \* the thread that runs
  frames     \* of each thread, the handlers that interrupted it

setup == <<step, ready, mask>>
vars  == <<setup, enabled, request, service, current, on, cpu, frames>>

Parts == {"gates", "vectors", "terminals"}
Frame == [irq : {Keyboard, Clock}, pc : {"work", "master", "iret"}]

\* boot.S; the boot loader left the controllers open and idle.  The boot thread
\* counts as the last terminal.
Init ==
  /\ step = 1
  /\ ready = {}
  /\ enabled = FALSE
  /\ mask = {} /\ request = {} /\ service = {}
  /\ current = NumTerms - 1
  /\ on = {}
  /\ cpu = Boot
  /\ frames = [t \in Threads |-> <<>>]

(***************************************************************************)
(* The controllers.                                                        *)
(***************************************************************************)
\* Mutant: the other lines are masked.
enable_irq_alone(irq) == mask' = Bits \ (IF irq >= Clock THEN {Slave, irq} ELSE {irq})

\* enable_irq: a line of the slave opens the master's line to the slave too.
enable_irq(irq) == mask' = mask \ (IF irq >= Clock THEN {Slave, irq} ELSE {irq})

\* Mutant: the slave's bit stands for the master's too.
send_eoi_both(irq) == service' = service \ (IF irq >= Clock THEN {Slave, irq} ELSE {irq})

\* send_eoi: the specific end of one interrupt.
send_eoi(irq) == service' = service \ {irq}

\* The bits in service that hold line irq back.
Above(irq) == IF irq = Clock THEN Bits ELSE {b \in Bits : b <= irq}

Deliverable(irq) ==
  /\ enabled
  /\ irq \in request
  /\ irq \notin mask
  /\ irq = Clock => Slave \notin mask
  /\ service \cap Above(irq) = {}

Taken(irq) ==
  /\ Deliverable(irq)
  /\ \A k \in Lines : k < irq => ~Deliverable(k)

\* A device asks for attention.
Raise(irq) ==
  /\ irq \notin request
  /\ request' = request \cup {irq}
  /\ UNCHANGED <<setup, enabled, service, current, on, cpu, frames>>

(***************************************************************************)
(* entry, until it spins.                                                  *)
(***************************************************************************)
\* Mutant: interrupts are enabled before the terminals are set up.
OrderEnabledEarly == <<"idt", "i8259", "keyboard", "rtc", "sti", "scheduler", "pit">>

Order == <<"idt", "i8259", "keyboard", "rtc", "scheduler", "pit", "sti">>

Booted == step > Len(Order)
At(s)  == step <= Len(Order) /\ Order[step] = s /\ step' = step + 1

initialize_IDT ==
  /\ At("idt")
  /\ ready' = ready \cup {"gates"}
  /\ UNCHANGED <<enabled, mask, request, service>>

\* Both controllers forget what they held.
i8259_init ==
  /\ At("i8259")
  /\ ready' = ready \cup {"vectors"}
  /\ mask' = Bits
  /\ request' = {} /\ service' = {}
  /\ UNCHANGED enabled

init_keyboard == At("keyboard") /\ enable_irq(Keyboard)
init_rtc      == At("rtc") /\ enable_irq(Clock)
init_pit      == At("pit") /\ enable_irq(Timer)

init_device ==
  /\ init_keyboard \/ init_rtc \/ init_pit
  /\ UNCHANGED <<ready, enabled, request, service>>

init_global_scheduler ==
  /\ At("scheduler")
  /\ ready' = ready \cup {"terminals"}
  /\ UNCHANGED <<enabled, mask, request, service>>

sti ==
  /\ At("sti")
  /\ enabled' = TRUE
  /\ UNCHANGED <<ready, mask, request, service>>

entry ==
  /\ cpu = Boot /\ frames[Boot] = <<>>
  /\ initialize_IDT \/ i8259_init \/ init_device \/ init_global_scheduler \/ sti
  /\ UNCHANGED <<current, on, cpu, frames>>

(***************************************************************************)
(* The handlers.                                                           *)
(***************************************************************************)
\* Mutant: the end of interrupt after scheduler_next, which never comes back to
\* a handler that starts a shell.
pithandler_late ==
  /\ Taken(Timer)
  /\ request' = request \ {Timer}
  /\ current' = (current + 1) % NumTerms
  /\ on' = on \cup {current'}
  /\ service' = IF current' \in on THEN service ELSE service \cup {Timer}
  /\ cpu' = current'
  /\ UNCHANGED <<setup, enabled, frames>>

\* pithandler: the end of interrupt, then scheduler_next, which starts the shell
\* of the next terminal or goes on with its thread.
pithandler ==
  /\ Taken(Timer)
  /\ request' = request \ {Timer}
  /\ current' = (current + 1) % NumTerms
  /\ on' = on \cup {current'}
  /\ cpu' = current'
  /\ UNCHANGED <<setup, enabled, service, frames>>

\* keyboardhandlerasm, rtchandlerasm: the trap gate leaves interrupts enabled.
Enter(irq) ==
  /\ Taken(irq)
  /\ Len(frames[cpu]) < MaxDepth
  /\ request' = request \ {irq}
  /\ service' = service \cup (IF irq = Clock THEN {Slave, Clock} ELSE {irq})
  /\ frames' = [frames EXCEPT ![cpu] = Append(@, [irq |-> irq, pc |-> "work"])]
  /\ UNCHANGED <<setup, enabled, current, on, cpu>>

\* The handler that runs: the last to have interrupted the thread.
Running(irq, pc) ==
  /\ enabled
  /\ frames[cpu] # <<>>
  /\ frames[cpu][Len(frames[cpu])] = [irq |-> irq, pc |-> pc]

Goto(pc) == frames' = [frames EXCEPT ![cpu][Len(frames[cpu])].pc = pc]

\* check_input, which ends with the end of interrupt.
check_input ==
  /\ Running(Keyboard, "work")
  /\ send_eoi(Keyboard)
  /\ Goto("iret")
  /\ UNCHANGED <<setup, enabled, request, current, on, cpu>>

\* rtchandler acknowledges to the slave, then to the master.
rtchandler ==
  /\ Running(Clock, "work")
  /\ send_eoi(Clock)
  /\ Goto("master")
  /\ UNCHANGED <<setup, enabled, request, current, on, cpu>>

\* Mutant: the master is forgotten.
rtchandler_master_forgotten ==
  /\ Running(Clock, "master")
  /\ Goto("iret")
  /\ UNCHANGED <<setup, enabled, request, service, current, on, cpu>>

rtchandler_master ==
  /\ Running(Clock, "master")
  /\ send_eoi(Slave)
  /\ Goto("iret")
  /\ UNCHANGED <<setup, enabled, request, current, on, cpu>>

iret ==
  /\ \E irq \in {Keyboard, Clock} : Running(irq, "iret")
  /\ frames' = [frames EXCEPT ![cpu] = SubSeq(@, 1, Len(@) - 1)]
  /\ UNCHANGED <<setup, enabled, request, service, current, on, cpu>>

\* An exception other than the page fault: its handler spins behind an
\* interrupt gate.
Exception ==
  /\ Booted /\ enabled
  /\ cpu # Boot
  /\ enabled' = FALSE
  /\ UNCHANGED <<setup, request, service, current, on, cpu, frames>>

\* A step on thread t of a handler of irq.
Handler(t, irq) ==
  /\ cpu = t
  /\ \E pc \in {"work", "master", "iret"} : Running(irq, pc)
  /\ check_input \/ rtchandler \/ rtchandler_master \/ iret

Next ==
  \/ entry
  \/ \E irq \in Lines : Raise(irq)
  \/ pithandler
  \/ \E irq \in {Keyboard, Clock} : Enter(irq)
  \/ check_input \/ rtchandler \/ rtchandler_master \/ iret
  \/ Exception

\* The timer does not stop; a thread is on the CPU again and again, each time for
\* many instructions, the CPU looks for interrupts between any two, and keys are
\* not pressed as fast as the handlers run.
Fairness ==
  /\ WF_vars(entry)
  /\ WF_vars(Raise(Timer))
  /\ WF_vars(pithandler)
  /\ SF_vars(Enter(Keyboard))
  /\ \A t \in Terms, irq \in {Keyboard, Clock} : SF_vars(Handler(t, irq))

Spec == Init /\ [][Next]_vars /\ Fairness

(***************************************************************************)
(* Properties.                                                             *)
(***************************************************************************)
TypeOK ==
  /\ step \in 1 .. Len(Order) + 1
  /\ ready \subseteq Parts
  /\ enabled \in BOOLEAN
  /\ mask \subseteq Bits
  /\ request \subseteq Lines
  /\ service \subseteq Bits
  /\ current \in Terms
  /\ on \subseteq Terms
  /\ cpu \in Threads
  /\ frames \in [Threads -> Seq(Frame)]

\* What a handler still has to acknowledge.
Owes(frame) ==
  CASE frame.irq = Keyboard /\ frame.pc = "work" -> {Keyboard}
    [] frame.irq = Clock /\ frame.pc = "work"    -> {Slave, Clock}
    [] frame.irq = Clock /\ frame.pc = "master"  -> {Slave}
    [] OTHER -> {}

\* The handlers that owe the acknowledgement of b.
Owners(b) == {o \in Threads \X (1..MaxDepth) :
                o[2] <= Len(frames[o[1]]) /\ b \in Owes(frames[o[1]][o[2]])}

\* Exceptions spin for good.
Spinning == Booted /\ ~enabled

\* The handler that has to acknowledge b is on the boot thread, which is never
\* scheduled again (scheduler_next starts a shell in its place).
Lost(b) == cpu # Boot /\ \E o \in Owners(b) : o[1] = Boot

\* Once interrupts are enabled, whatever gets through the masks finds its gate,
\* its vector and the terminals it works on (entry's order of initialisation).
NothingTooEarly == enabled /\ mask # Bits => ready = Parts

\* An interrupt is in service exactly as long as one handler, on whatever thread,
\* has not acknowledged it: no two handlers of one device are at work, and no bit
\* is left behind (send_eoi in check_input, rtchandler and pithandler).
OneHandlerEach ==
  \A b \in Bits :
    /\ b \in service <=> Owners(b) # {}
    /\ \A o, p \in Owners(b) : o = p

\* Every handler acknowledges in the end, however often the PIT switches away
\* from it, unless it interrupted the boot thread and was left there, or an
\* exception stopped everything.
HandlersEnd ==
  \A b \in Bits : b \in service ~> b \notin service \/ Lost(b) \/ Spinning

\* A key is taken in the end, with the same exceptions.
KeysServed ==
  Keyboard \in request ~> Keyboard \notin request \/ Lost(Keyboard) \/ Spinning

\* Every terminal runs again and again, whatever handlers are left on its and
\* other threads, unless an exception stopped everything.
TerminalsRun ==
  \A t \in Terms : cpu # t ~> cpu = t \/ Spinning
=============================================================================
