-------------------------------- MODULE RTC --------------------------------
(***************************************************************************)
(* The real time clock driver: rtc_read, rtc_write, rtc_open and the       *)
(* interrupt handler, for processes that the PIT switches round robin.     *)
(* The system call and the RTC gates are trap gates: the PIT may switch    *)
(* away in the middle of rtc_read and of the RTC handler.  The PIC keeps   *)
(* the RTC line in service until the handler's send_eoi.                   *)
(***************************************************************************)
EXTENDS Integers

CONSTANTS
  NumProcs,   \* processes, scheduled in a ring
  Readers,    \* the processes that call rtc_read
  Writers,    \* the processes that call rtc_write and rtc_open
  Requests    \* the 32 bit values they write

ASSUME RtcAssumption ==
  /\ NumProcs \in Nat \ {0}
  /\ Readers \subseteq 0..NumProcs-1
  /\ Writers \subseteq 0..NumProcs-1
  /\ Requests \subseteq Int

Procs     == 0 .. NumProcs-1
MaxFreq   == 1024              \* MAX_FREQ
InitRate  == 5                 \* INIT_RATE
Default   == 2                 \* DEFAULT_FREQ
MinInt    == -2147483647 - 1
None      == -1                \* no frequency: rtc_write rejects it

VARIABLES
  current,    \* process on the CPU
  pc,         \* "user", "spin" inside rtc_read, "hang" inside rtc_write
  hpc,        \* RTC handler nested on each process: "none" or its next step
  occurred,   \* rtc_interrupt_occurred
  port,       \* register selected in RTC_CMD_PORT
  divider,    \* upper half of register A; 2 makes the clock run
  rate,       \* lower half of register A
  pending,    \* register C: an interrupt is raised and not acknowledged
  irr,        \* the PIC holds an RTC request
  asked,      \* history: the frequency of the last rtc_write that succeeded
  accepted,   \* history: every frequency that passed rtc_write's test
  crossed     \* history: a rtc_write came between the handler's two accesses

history == <<asked, accepted, crossed>>
device  == <<port, divider, rate, pending, irr, history>>
vars    == <<current, pc, hpc, occurred, device>>

\* init_rtc leaves register B selected and the power-on rate 6 in register A.
Init ==
  /\ current = 0
  /\ pc = [p \in Procs |-> "user"]
  /\ hpc = [p \in Procs |-> "none"]
  /\ occurred = FALSE
  /\ port = "B"
  /\ divider = 2
  /\ rate = 6
  /\ pending = FALSE
  /\ irr = FALSE
  /\ asked = None
  /\ accepted = {}
  /\ crossed = FALSE

(***************************************************************************)
(* rtc_write's arithmetic.                                                 *)
(***************************************************************************)
\* *buf2 & (*buf2 - 1) is zero for the powers of two, for 0 and for the least
\* integer; *buf2 > MAX_FREQ rejects what is too large.
SingleBit(f) == f \in {0, MinInt} \cup {2^k : k \in 0..30}

\* Mutant: only the upper limit is tested.
AcceptedAny(f) == f <= MaxFreq

Accepted(f)  == SingleBit(f) /\ f <= MaxFreq

\* tmp = MAX_FREQ; while (tmp != *buf2) { rate++; tmp = tmp >> 1; }
Shifts(f)   == CHOOSE k \in 0..11 : MaxFreq \div 2^k = f

RateFor(f)  == InitRate + Shifts(f)
LoopEnds(f) == \E k \in 0..11 : MaxFreq \div 2^k = f

\* What the chip makes of a rate setting (external: MC146818).
Hertz(r) == 32768 \div 2^(r-1)

(***************************************************************************)
(* System calls.                                                           *)
(***************************************************************************)
OnCpu(p) == current = p /\ hpc[p] = "none"

\* rtc_read: forget earlier interrupts, then poll.
ReadStart(p) ==
  /\ OnCpu(p) /\ pc[p] = "user"
  /\ occurred' = FALSE
  /\ pc' = [pc EXCEPT ![p] = "spin"]
  /\ UNCHANGED <<current, hpc, device>>

ReadReturn(p) ==
  /\ OnCpu(p) /\ pc[p] = "spin"
  /\ occurred
  /\ pc' = [pc EXCEPT ![p] = "user"]
  /\ UNCHANGED <<current, hpc, occurred, device>>

\* The write comes between the handler's selection of register C and its read.
Crossing == crossed' = (crossed \/ \E q \in Procs : hpc[q] = "read")

\* Mutant: the write goes to the register selected last.
SetRateUnselected(f) ==
  /\ rate' = IF port = "A" THEN RateFor(f) % 16 ELSE rate
  /\ port' = "A"
  /\ asked' = f
  /\ Crossing
  /\ UNCHANGED divider

\* (prev & 0xF0) | rate, under cli; rate 16 reaches into the divider bits.
SetRate(f) ==
  /\ port' = "A"
  /\ rate' = RateFor(f) % 16
  /\ divider' = IF RateFor(f) < 16 \/ divider % 2 = 1 THEN divider ELSE divider + 1
  /\ asked' = f
  /\ Crossing

\* rtc_write; rtc_open is rtc_write of DEFAULT_FREQ.
Write(p, f) ==
  /\ OnCpu(p) /\ pc[p] = "user"
  /\ Accepted(f)
  /\ IF LoopEnds(f)
       THEN SetRate(f) /\ UNCHANGED pc
       ELSE pc' = [pc EXCEPT ![p] = "hang"] /\ UNCHANGED <<port, divider, rate, asked, crossed>>
  /\ accepted' = accepted \cup {f}
  /\ UNCHANGED <<current, hpc, occurred, pending, irr>>

Open(p) == Write(p, Default)

(***************************************************************************)
(* rtchandler, nested on the process it interrupts.                        *)
(***************************************************************************)
HandlerAt(p, label) == current = p /\ hpc[p] = label

Deliver(p) ==
  /\ current = p /\ irr
  /\ \A q \in Procs : hpc[q] = "none"
  /\ irr' = FALSE
  /\ hpc' = [hpc EXCEPT ![p] = "flag"]
  /\ UNCHANGED <<current, pc, occurred, port, divider, rate, pending, history>>

\* Mutant: the flag is not set.
HandlerFlagForgotten(p) ==
  /\ HandlerAt(p, "flag")
  /\ hpc' = [hpc EXCEPT ![p] = "select"]
  /\ UNCHANGED <<current, pc, occurred, device>>

HandlerFlag(p) ==
  /\ HandlerAt(p, "flag")
  /\ occurred' = TRUE
  /\ hpc' = [hpc EXCEPT ![p] = "select"]
  /\ UNCHANGED <<current, pc, device>>

\* Mutant: register C is not selected.
HandlerSelectForgotten(p) ==
  /\ HandlerAt(p, "select")
  /\ hpc' = [hpc EXCEPT ![p] = "read"]
  /\ UNCHANGED <<current, pc, occurred, device>>

HandlerSelect(p) ==
  /\ HandlerAt(p, "select")
  /\ port' = "C"
  /\ hpc' = [hpc EXCEPT ![p] = "read"]
  /\ UNCHANGED <<current, pc, occurred, divider, rate, pending, irr, history>>

\* inb(RTC_DATA_PORT) acknowledges only if register C is still selected.
HandlerRead(p) ==
  /\ HandlerAt(p, "read")
  /\ pending' = (pending /\ port # "C")
  /\ hpc' = [hpc EXCEPT ![p] = "eoi"]
  /\ UNCHANGED <<current, pc, occurred, port, divider, rate, irr, history>>

HandlerEoi(p) ==
  /\ HandlerAt(p, "eoi")
  /\ hpc' = [hpc EXCEPT ![p] = "none"]
  /\ UNCHANGED <<current, pc, occurred, device>>

Handler(p) == HandlerFlag(p) \/ HandlerSelect(p) \/ HandlerRead(p) \/ HandlerEoi(p)

(***************************************************************************)
(* Hardware.                                                               *)
(***************************************************************************)
\* The chip raises its line; an unacknowledged line makes no new edge.
Fire ==
  /\ divider = 2 /\ rate # 0
  /\ ~pending
  /\ pending' = TRUE
  /\ irr' = TRUE
  /\ UNCHANGED <<current, pc, hpc, occurred, port, divider, rate, history>>

\* PIT: scheduler_next.
Tick ==
  /\ current' = (current + 1) % NumProcs
  /\ UNCHANGED <<pc, hpc, occurred, device>>

Next ==
  \/ Tick \/ Fire
  \/ \E p \in Procs : Deliver(p) \/ Handler(p)
  \/ \E p \in Readers : ReadStart(p) \/ ReadReturn(p)
  \/ \E p \in Writers : Open(p) \/ \E f \in Requests : Write(p, f)

Spec == Init /\ [][Next]_vars

\* The PIT and a running clock never stop, the PIC delivers, and a process on
\* the CPU gets instructions executed in its slices.
Fairness ==
  /\ WF_vars(Tick) /\ WF_vars(Fire)
  /\ \A p \in Procs : SF_vars(Deliver(p)) /\ SF_vars(Handler(p))
  /\ \A p \in Readers : SF_vars(ReadReturn(p))

LiveSpec == Spec /\ Fairness

(***************************************************************************)
(* Properties.                                                             *)
(***************************************************************************)
TypeOK ==
  /\ current \in Procs
  /\ pc \in [Procs -> {"user", "spin", "hang"}]
  /\ hpc \in [Procs -> {"none", "flag", "select", "read", "eoi"}]
  /\ occurred \in BOOLEAN
  /\ port \in {"A", "B", "C"}
  /\ divider \in 0..15
  /\ rate \in 0..15
  /\ pending \in BOOLEAN
  /\ irr \in BOOLEAN
  /\ asked \in Int
  /\ accepted \subseteq Int
  /\ crossed \in BOOLEAN

\* The chip's line is up and nothing will take it down any more, so that it
\* never interrupts again.
Muted == pending /\ ~irr /\ \A p \in Procs : hpc[p] \notin {"flag", "select", "read"}

Stopped == divider # 2 \/ rate = 0

\* A raised interrupt is always on its way to being acknowledged, whatever the
\* PIT does in the middle of the handler; the one exception is a rtc_write of
\* another process between the handler's two port accesses (rtchandler).
NeverMuted == Muted => crossed

\* rtc_write's loop ends for every value its test lets through but one, the
\* least integer (rtc.c:53 "0 on success, -1 on failure", rtc.c:73).
WritesReturn == (\E p \in Procs : pc[p] = "hang") => MinInt \in accepted

\* A process inside rtc_read returns while the clock runs and its interrupts are
\* acknowledged (rtc.c:29 "Blocks current process until next RTC interrupt").
ReadsReturn ==
  \A p \in Readers : pc[p] = "spin" ~> (pc[p] = "user" \/ Stopped \/ crossed)

\* After any sequence of rtc_writes, accepted or not, register A holds the rate that
\* the loop found for the last accepted one, until one of them asks for 0: the test
\* lets 0 through, its rate of 16 spoils the divider, and no later write starts the
\* clock again (rtc.c:59, 67, 83).
RateAsWritten ==
  /\ Stopped <=> 0 \in accepted
  /\ asked # None /\ ~Stopped => rate = RateFor(asked)

\* A running clock has the frequency that was asked for last: 2 Hz after rtc_open
\* (rtc.c:92 "Sets RTC frequency to 2Hz then returns", rtc.c:100).
FrequencyAsAsked == asked # None /\ ~Stopped => Hertz(rate) = asked
=============================================================================
