----------------------------- MODULE RTCProofs -----------------------------
(***************************************************************************)
(* Proofs about RTC, for any number of processes that read and set the     *)
(* clock and any values they write.                                        *)
(***************************************************************************)
EXTENDS RTC, TLAPS

(***************************************************************************)
(* The arithmetic of rtc_write.                                            *)
(***************************************************************************)
\* The frequencies from 1 to MAX_FREQ the chip can make.
Frequencies == {1, 2, 4, 8, 16, 32, 64, 128, 256, 512, 1024}

\* What rtc_write's two tests let through: the frequencies the chip can make, and
\* two values more.  (The provers evaluate 2^n only for a numeral n.)
LEMMA AcceptedValues ==
  ASSUME NEW f, Accepted(f)
  PROVE  f \in Frequencies \cup {0, MinInt}
<1>1. CASE f \in {0, MinInt}
  BY <1>1
<1>2. CASE f \notin {0, MinInt}
  <2>1. PICK k \in 0..30 : f = 2^k
    BY <1>2 DEF Accepted, SingleBit
  <2>2. f <= 1024
    BY DEF Accepted, MaxFreq
  <2>3. CASE k \in 0..10
    <3>1. /\ (k = 0 => 2^k = 2^0) /\ (k = 1 => 2^k = 2^1) /\ (k = 2 => 2^k = 2^2)
          /\ (k = 3 => 2^k = 2^3) /\ (k = 4 => 2^k = 2^4) /\ (k = 5 => 2^k = 2^5)
          /\ (k = 6 => 2^k = 2^6) /\ (k = 7 => 2^k = 2^7) /\ (k = 8 => 2^k = 2^8)
          /\ (k = 9 => 2^k = 2^9) /\ (k = 10 => 2^k = 2^10)
      BY Zenon
    <3>2. QED
      BY <2>1, <2>3, <3>1 DEF Frequencies
  <2>4. CASE k \in 11..20
    <3>1. /\ (k = 11 => 2^k = 2^11) /\ (k = 12 => 2^k = 2^12) /\ (k = 13 => 2^k = 2^13)
          /\ (k = 14 => 2^k = 2^14) /\ (k = 15 => 2^k = 2^15) /\ (k = 16 => 2^k = 2^16)
          /\ (k = 17 => 2^k = 2^17) /\ (k = 18 => 2^k = 2^18) /\ (k = 19 => 2^k = 2^19)
          /\ (k = 20 => 2^k = 2^20)
      BY Zenon
    <3>2. QED
      BY <2>1, <2>2, <2>4, <3>1
  <2>5. CASE k \in 21..30
    <3>1. /\ (k = 21 => 2^k = 2^21) /\ (k = 22 => 2^k = 2^22) /\ (k = 23 => 2^k = 2^23)
          /\ (k = 24 => 2^k = 2^24) /\ (k = 25 => 2^k = 2^25) /\ (k = 26 => 2^k = 2^26)
          /\ (k = 27 => 2^k = 2^27) /\ (k = 28 => 2^k = 2^28) /\ (k = 29 => 2^k = 2^29)
          /\ (k = 30 => 2^k = 2^30)
      BY Zenon
    <3>2. QED
      BY <2>1, <2>2, <2>5, <3>1
  <2>6. QED
    BY <2>3, <2>4, <2>5
<1>3. QED
  BY <1>1, <1>2

\* The values tmp takes in rtc_write's loop.
LEMMA HalvingOf ==
  ASSUME NEW k \in 0..11
  PROVE  \/ (k = 0 /\ MaxFreq \div 2^k = 1024) \/ (k = 1 /\ MaxFreq \div 2^k = 512)
         \/ (k = 2 /\ MaxFreq \div 2^k = 256) \/ (k = 3 /\ MaxFreq \div 2^k = 128)
         \/ (k = 4 /\ MaxFreq \div 2^k = 64) \/ (k = 5 /\ MaxFreq \div 2^k = 32)
         \/ (k = 6 /\ MaxFreq \div 2^k = 16) \/ (k = 7 /\ MaxFreq \div 2^k = 8)
         \/ (k = 8 /\ MaxFreq \div 2^k = 4) \/ (k = 9 /\ MaxFreq \div 2^k = 2)
         \/ (k = 10 /\ MaxFreq \div 2^k = 1) \/ (k = 11 /\ MaxFreq \div 2^k = 0)
<1>1. /\ (k = 0 => MaxFreq \div 2^k = MaxFreq \div 2^0) /\ (k = 1 => MaxFreq \div 2^k = MaxFreq \div 2^1)
      /\ (k = 2 => MaxFreq \div 2^k = MaxFreq \div 2^2) /\ (k = 3 => MaxFreq \div 2^k = MaxFreq \div 2^3)
      /\ (k = 4 => MaxFreq \div 2^k = MaxFreq \div 2^4) /\ (k = 5 => MaxFreq \div 2^k = MaxFreq \div 2^5)
      /\ (k = 6 => MaxFreq \div 2^k = MaxFreq \div 2^6) /\ (k = 7 => MaxFreq \div 2^k = MaxFreq \div 2^7)
      /\ (k = 8 => MaxFreq \div 2^k = MaxFreq \div 2^8) /\ (k = 9 => MaxFreq \div 2^k = MaxFreq \div 2^9)
      /\ (k = 10 => MaxFreq \div 2^k = MaxFreq \div 2^10) /\ (k = 11 => MaxFreq \div 2^k = MaxFreq \div 2^11)
  BY Zenon
<1>2. /\ MaxFreq \div 2^0 = 1024 /\ MaxFreq \div 2^1 = 512 /\ MaxFreq \div 2^2 = 256 /\ MaxFreq \div 2^3 = 128
      /\ MaxFreq \div 2^4 = 64 /\ MaxFreq \div 2^5 = 32 /\ MaxFreq \div 2^6 = 16 /\ MaxFreq \div 2^7 = 8
      /\ MaxFreq \div 2^8 = 4 /\ MaxFreq \div 2^9 = 2 /\ MaxFreq \div 2^10 = 1 /\ MaxFreq \div 2^11 = 0
  BY DEF MaxFreq
<1>3. QED
  BY <1>1, <1>2

\* The loop meets each value once.
LEMMA ShiftsIs ==
  ASSUME NEW j \in 0..11
  PROVE  LoopEnds(MaxFreq \div 2^j) /\ Shifts(MaxFreq \div 2^j) = j
<1>1. \A k \in 0..11 : MaxFreq \div 2^k = MaxFreq \div 2^j => k = j
  <2> TAKE k \in 0..11
  <2> HAVE MaxFreq \div 2^k = MaxFreq \div 2^j
  <2> DEFINE h == MaxFreq \div 2^k
             g == MaxFreq \div 2^j
  <2>1. \/ (k = 0 /\ h = 1024) \/ (k = 1 /\ h = 512) \/ (k = 2 /\ h = 256) \/ (k = 3 /\ h = 128)
        \/ (k = 4 /\ h = 64) \/ (k = 5 /\ h = 32) \/ (k = 6 /\ h = 16) \/ (k = 7 /\ h = 8)
        \/ (k = 8 /\ h = 4) \/ (k = 9 /\ h = 2) \/ (k = 10 /\ h = 1) \/ (k = 11 /\ h = 0)
    BY HalvingOf
  <2>2. \/ (j = 0 /\ g = 1024) \/ (j = 1 /\ g = 512) \/ (j = 2 /\ g = 256) \/ (j = 3 /\ g = 128)
        \/ (j = 4 /\ g = 64) \/ (j = 5 /\ g = 32) \/ (j = 6 /\ g = 16) \/ (j = 7 /\ g = 8)
        \/ (j = 8 /\ g = 4) \/ (j = 9 /\ g = 2) \/ (j = 10 /\ g = 1) \/ (j = 11 /\ g = 0)
    BY HalvingOf
  <2>3. h = g
    OBVIOUS
  <2> HIDE DEF h, g
  <2>4. QED
    BY <2>1, <2>2, <2>3
<1>2. QED
  BY <1>1 DEF LoopEnds, Shifts

\* The rate of each frequency: the chip then runs at twice that frequency.
LEMMA RateOf ==
  /\ \A f \in Frequencies :
       LoopEnds(f) /\ RateFor(f) \in 5..15 /\ Hertz(RateFor(f)) = 2 * f
  /\ LoopEnds(0) /\ RateFor(0) = 16
<1>1. /\ RateFor(1024) = 5 /\ RateFor(512) = 6 /\ RateFor(256) = 7 /\ RateFor(128) = 8
      /\ RateFor(64) = 9 /\ RateFor(32) = 10 /\ RateFor(16) = 11 /\ RateFor(8) = 12
      /\ RateFor(4) = 13 /\ RateFor(2) = 14 /\ RateFor(1) = 15 /\ RateFor(0) = 16
  BY ShiftsIs DEF RateFor, InitRate, MaxFreq
<1>2. \A f \in Frequencies \cup {0} : LoopEnds(f)
  BY ShiftsIs DEF Frequencies, MaxFreq
<1>3. /\ Hertz(5) = 2048 /\ Hertz(6) = 1024 /\ Hertz(7) = 512 /\ Hertz(8) = 256
      /\ Hertz(9) = 128 /\ Hertz(10) = 64 /\ Hertz(11) = 32 /\ Hertz(12) = 16
      /\ Hertz(13) = 8 /\ Hertz(14) = 4 /\ Hertz(15) = 2
  BY DEF Hertz
<1>4. ASSUME NEW f \in Frequencies
      PROVE  RateFor(f) \in 5..15 /\ Hertz(RateFor(f)) = 2 * f
  <2>1. RateFor(f) \in 5..15 /\ \A r \in 5..15 : RateFor(f) = r => Hertz(RateFor(f)) = Hertz(r)
    BY <1>1 DEF Frequencies
  <2>2. QED
    BY <1>1, <1>3, <2>1 DEF Frequencies
<1>5. QED
  BY <1>1, <1>2, <1>4

(***************************************************************************)
(* The inductive invariant.                                                *)
(***************************************************************************)
\* Until a rtc_write crosses it, the handler reads the register it selected.
SelectInv == \A p \in Procs : hpc[p] = "read" => port = "C" \/ crossed

\* What register A holds of the frequencies written so far.
RateInv ==
  /\ divider = IF 0 \in accepted THEN 3 ELSE 2
  /\ asked = None => rate = 6
  /\ asked # None => /\ asked \in (Frequencies \cup {0}) \cap accepted
                     /\ rate = RateFor(asked) % 16

RtcInv == TypeOK /\ SelectInv /\ NeverMuted /\ WritesReturn /\ RateInv

\* init_rtc establishes it.
LEMMA RtcInit == Init => RtcInv
<1> SUFFICES ASSUME Init PROVE RtcInv
  OBVIOUS
<1>1. TypeOK
  <2>1. 0 \in Procs /\ None \in Int
    BY RtcAssumption DEF Procs, None
  <2>2. /\ current \in Procs /\ asked \in Int /\ accepted \subseteq Int
        /\ divider \in 0..15 /\ rate \in 0..15 /\ port \in {"A", "B", "C"}
    BY <2>1 DEF Init
  <2>3. /\ pc \in [Procs -> {"user", "spin", "hang"}]
        /\ hpc \in [Procs -> {"none", "flag", "select", "read", "eoi"}]
    BY DEF Init
  <2>4. occurred \in BOOLEAN /\ pending \in BOOLEAN /\ irr \in BOOLEAN /\ crossed \in BOOLEAN
    BY Zenon DEF Init
  <2>5. QED
    BY <2>2, <2>3, <2>4 DEF TypeOK
<1>2. SelectInv /\ NeverMuted /\ WritesReturn
  BY DEF Init, SelectInv, NeverMuted, Muted, WritesReturn
<1>3. RateInv
  BY DEF Init, RateInv
<1>4. QED
  BY <1>1, <1>2, <1>3 DEF RtcInv

\* rtc_write, and rtc_open, for any value.
LEMMA WriteKeeps ==
  ASSUME RtcInv, NEW p \in Procs, NEW f \in Int, Write(p, f)
  PROVE  RtcInv'
<1> USE DEF RtcInv, TypeOK
<1>1. f \in Frequencies \cup {0, MinInt}
  BY AcceptedValues DEF Write
<1>2. CASE LoopEnds(f)
  <2>1. /\ port' = "A"
        /\ rate' = RateFor(f) % 16
        /\ divider' = IF RateFor(f) < 16 \/ divider % 2 = 1 THEN divider ELSE divider + 1
        /\ asked' = f
        /\ crossed' = (crossed \/ \E q \in Procs : hpc[q] = "read")
        /\ accepted' = accepted \cup {f}
        /\ UNCHANGED <<current, pc, hpc, occurred, pending, irr>>
    BY <1>2 DEF Write, SetRate, Crossing
  <2>2. f \in Frequencies \cup {0}
    <3>1. ~LoopEnds(MinInt)
      BY HalvingOf DEF LoopEnds, MinInt
    <3>2. QED
      BY <1>1, <1>2, <3>1
  <2>3. \/ f \in Frequencies /\ f # 0 /\ RateFor(f) \in 5..15
        \/ f = 0 /\ RateFor(f) = 16
    BY <2>2, RateOf DEF Frequencies
  <2>4. f # None
    BY <2>2 DEF Frequencies, None
  <2>5. RateInv'
    BY <2>1, <2>2, <2>3, <2>4 DEF RateInv
  <2>6. TypeOK'
    BY <2>1, <2>3, <2>5 DEF RateInv
  <2>7. SelectInv' /\ NeverMuted' /\ WritesReturn'
    BY <2>1 DEF SelectInv, NeverMuted, Muted, WritesReturn
  <2>8. QED
    BY <2>5, <2>6, <2>7
<1>3. CASE ~LoopEnds(f)
  <2>1. /\ pc' = [pc EXCEPT ![p] = "hang"]
        /\ accepted' = accepted \cup {f}
        /\ UNCHANGED <<current, hpc, occurred, port, divider, rate, pending, irr, asked, crossed>>
    BY <1>3 DEF Write
  <2>2. f = MinInt
    BY <1>1, <1>3, RateOf
  <2>3. f # 0
    BY <2>2 DEF MinInt
  <2>4. TypeOK' /\ WritesReturn'
    BY <2>1, <2>2 DEF WritesReturn
  <2>5. RateInv'
    BY <2>1, <2>3 DEF RateInv
  <2>6. SelectInv' /\ NeverMuted'
    BY <2>1 DEF SelectInv, NeverMuted, Muted
  <2>7. QED
    BY <2>4, <2>5, <2>6
<1>4. QED
  BY <1>2, <1>3

\* Every step preserves it.
LEMMA RtcNext == RtcInv /\ [Next]_vars => RtcInv'
<1> SUFFICES ASSUME RtcInv, [Next]_vars PROVE RtcInv'
  OBVIOUS
<1> USE DEF RtcInv, TypeOK, SelectInv, NeverMuted, Muted, WritesReturn, RateInv, device,
            history, OnCpu, HandlerAt
<1>1. CASE Tick
  BY <1>1, RtcAssumption DEF Tick, Procs
<1>2. CASE Fire
  BY <1>2 DEF Fire
<1>3. ASSUME NEW p \in Procs, Deliver(p) PROVE RtcInv'
  BY <1>3 DEF Deliver
<1>4. ASSUME NEW p \in Procs, HandlerFlag(p) PROVE RtcInv'
  BY <1>4 DEF HandlerFlag
<1>5. ASSUME NEW p \in Procs, HandlerSelect(p) PROVE RtcInv'
  BY <1>5 DEF HandlerSelect
<1>6. ASSUME NEW p \in Procs, HandlerRead(p) PROVE RtcInv'
  BY <1>6 DEF HandlerRead
<1>7. ASSUME NEW p \in Procs, HandlerEoi(p) PROVE RtcInv'
  BY <1>7 DEF HandlerEoi
<1>8. ASSUME NEW p \in Procs, ReadStart(p) PROVE RtcInv'
  BY <1>8 DEF ReadStart
<1>9. ASSUME NEW p \in Procs, ReadReturn(p) PROVE RtcInv'
  BY <1>9 DEF ReadReturn
<1>10. CASE UNCHANGED vars
  BY <1>10 DEF vars
<1> HIDE DEF RtcInv, TypeOK, SelectInv, NeverMuted, Muted, WritesReturn, RateInv
<1>11. ASSUME NEW p \in Writers, Open(p) \/ \E f \in Requests : Write(p, f) PROVE RtcInv'
  <2>1. PICK f \in Int : Write(p, f)
    BY <1>11, RtcAssumption DEF Open, Default
  <2>2. QED
    BY <2>1, WriteKeeps, RtcAssumption DEF Procs
<1>12. Readers \subseteq Procs
  BY RtcAssumption DEF Procs
<1>13. QED
  BY <1>1, <1>2, <1>3, <1>4, <1>5, <1>6, <1>7, <1>8, <1>9, <1>10, <1>11, <1>12
  DEF Next, Handler

\* The invariant, for every number of processes and all values written.
THEOREM RtcInvariant == Spec => []RtcInv
BY RtcInit, RtcNext, PTL DEF Spec

\* The clock goes silent only when a rtc_write got between the handler's selection
\* of register C and its read (rtchandler): the PIT alone never silences it.
THEOREM ClockIsNeverMuted == Spec => []NeverMuted
<1>1. RtcInv => NeverMuted
  BY DEF RtcInv
<1>2. QED
  BY <1>1, RtcInvariant, PTL

\* rtc_write loops for ever for no value but the least integer, whatever values
\* programs write.
THEOREM WritesDoReturn == Spec => []WritesReturn
<1>1. RtcInv => WritesReturn
  BY DEF RtcInv
<1>2. QED
  BY <1>1, RtcInvariant, PTL

\* Register A always holds the rate of the last accepted write, until a write of 0
\* stops the clock for good (rtc_write).
THEOREM RateIsAsWritten == Spec => []RateAsWritten
<1>1. RtcInv => RateAsWritten
  <2> SUFFICES ASSUME RtcInv PROVE RateAsWritten
    OBVIOUS
  <2>1. asked # None => \/ asked \in Frequencies /\ RateFor(asked) \in 5..15
                        \/ asked = 0 /\ 0 \in accepted /\ RateFor(0) = 16
    BY RateOf DEF RtcInv, RateInv
  <2>2. \/ rate # 0
        \/ 0 \in accepted
    BY <2>1 DEF RtcInv, RateInv
  <2>3. Stopped <=> 0 \in accepted
    BY <2>2 DEF RtcInv, RateInv, Stopped
  <2>4. asked # None /\ ~Stopped => rate = RateFor(asked)
    BY <2>1, <2>3 DEF RtcInv, RateInv
  <2>5. QED
    BY <2>3, <2>4 DEF RateAsWritten
<1>2. QED
  BY <1>1, RtcInvariant, PTL
=============================================================================
