-------------------------- MODULE ProcessesProofs --------------------------
(***************************************************************************)
(* Proofs about Processes, for any number of terminals and process slots.  *)
(***************************************************************************)
EXTENDS Processes, TLAPS

\* What the proofs need to know of the numbers: the base slots are slots, slots
\* name stacks, 0 names only the boot stack.
LEMMA SetFacts ==
  /\ Pids \subseteq Stacks
  /\ BasePids \subseteq Pids
  /\ 0 \in Stacks /\ 0 \notin Pids
  /\ 1 \in Pids
  /\ \A p \in Pids : p \in 1..NumPids+1 /\ p+1 \in 1..NumPids+1
  /\ \A t \in Terminals : BasePid(t) \in BasePids
  /\ \A p \in BasePids : \E t \in Terminals : p = BasePid(t)
  /\ \A t, u \in Terminals : BasePid(t) = BasePid(u) => t = u
<1>1. \A p \in BasePids : p-1 \in Terminals /\ p = BasePid(p-1)
  BY SizeAssumption DEF BasePids, BasePid, Terminals
<1>2. QED
  BY <1>1, SizeAssumption DEF Pids, Stacks, BasePids, BasePid, Terminals

\* The scan of execute stops on the first free slot of the table.
LEMMA LowestFreeIs ==
  ASSUME NEW r \in [Pids -> BOOLEAN], NEW p \in Pids,
         ~r[p], \A q \in Pids : q < p => r[q]
  PROVE  LowestFree(r) = p
<1>1. \A x \in Pids : (~r[x] /\ \A q \in Pids : q < x => r[q]) => x = p
  BY SizeAssumption DEF Pids
<1>2. QED
  BY <1>1 DEF LowestFree

\* current_term = (current_term+1)%NUM_TERMS is the next terminal in the ring.
LEMMA NextTerminal ==
  ASSUME NEW c \in Terminals
  PROVE  /\ (c + 1) % NumTerm \in Terminals
         /\ c # NumTerm-1 => (c + 1) % NumTerm = c + 1
         /\ c = NumTerm-1 => (c + 1) % NumTerm = 0
BY SizeAssumption DEF Terminals

(***************************************************************************)
(* However system calls overlap: types, the boot order and the base slots. *)
(***************************************************************************)
BaseInv == TypeOK /\ BootInv

\* init_global_scheduler and the boot code establish the invariant.
LEMMA BaseInit == Init => BaseInv
<1>1. Init => TypeOK
  BY SizeAssumption, ProgramAssumption
  DEF Init, TypeOK, Terminals, Pids, BasePid, Stacks, Contexts, NoContext, ExecPc, HaltPc
<1>2. Init => BootInv
  BY SetFacts, SizeAssumption
  DEF Init, BootInv, Terminals, ExecPc, HaltPc
<1>3. QED
  BY <1>1, <1>2 DEF BaseInv

\* Once all shells run, every base slot is taken.
LEMMA BaseTaken == ASSUME BaseInv, Booted PROVE \A p \in BasePids : running[p]
BY SetFacts DEF BaseInv, BootInv, Booted

\* Replacing a base shell gives it back its own slot: the slots below are in
\* use, so the scan of execute stops on the one halt has just released.
LEMMA ReplacedInPlace ==
  ASSUME BaseInv, Booted, esp0 \in BasePids
  PROVE  LowestFree([running EXCEPT ![esp0] = FALSE]) = esp0
<1> DEFINE r == [running EXCEPT ![esp0] = FALSE]
<1>1. r \in [Pids -> BOOLEAN] /\ esp0 \in Pids /\ ~r[esp0]
  BY SetFacts DEF BaseInv, TypeOK
<1>2. \A q \in Pids : q < esp0 => q \in BasePids /\ q # esp0
  BY SizeAssumption DEF Pids, BasePids
<1>3. \A q \in Pids : q < esp0 => r[q]
  BY <1>2, BaseTaken DEF BaseInv, TypeOK
<1>4. QED
  BY <1>1, <1>3, LowestFreeIs

\* The first tick of each terminal starts its shell in slot t+1.
LEMMA StartedInOrder ==
  ASSUME BaseInv, NEW n \in Terminals, n = (current+1) % NumTerm, ~isOn[n]
  PROVE  /\ LowestFree(running) = BasePid(n)
         /\ ~Booted
         /\ \A t \in Terminals : isOn[t] <=> t < n
         /\ current = NumTerm-1 <=> n = 0
         /\ current # NumTerm-1 => n = current+1
<1>1. ~Booted
  BY DEF Booted
<1>2. current \in Terminals
  BY DEF BaseInv, TypeOK
<1>3. \A t \in Terminals : isOn[t] <=> t <= current /\ current # NumTerm-1
  BY <1>1 DEF BaseInv, BootInv
<1>4. current # NumTerm-1 => n = current + 1
  BY <1>2, NextTerminal
<1>5. current = NumTerm-1 => n = 0
  BY <1>2, NextTerminal
<1>6. \A t \in Terminals : isOn[t] <=> t < n
  BY <1>2, <1>3, <1>4, <1>5, SizeAssumption DEF Terminals
<1>7. current = NumTerm-1 <=> n = 0
  BY <1>2, <1>4, <1>5, SizeAssumption DEF Terminals
<1>8. BasePid(n) \in Pids /\ ~running[BasePid(n)] /\ running \in [Pids -> BOOLEAN]
  BY SetFacts DEF BaseInv, TypeOK, BootInv
<1>9. \A q \in Pids : q < BasePid(n) => running[q]
  <2> SUFFICES ASSUME NEW q \in Pids, q < BasePid(n) PROVE running[q]
    OBVIOUS
  <2>1. q-1 \in Terminals /\ q-1 < n /\ BasePid(q-1) = q
    BY SizeAssumption DEF Terminals, Pids, BasePid
  <2>2. isOn[q-1]
    BY <2>1, <1>6
  <2>3. running[BasePid(q-1)]
    BY <2>1, <2>2 DEF BaseInv, BootInv
  <2>4. QED
    BY <2>1, <2>3
<1>10. QED
  BY <1>1, <1>4, <1>6, <1>7, <1>8, <1>9, LowestFreeIs

\* A label other than "off" and "user" is only reached once booted.
LEMMA BootedInCall ==
  ASSUME BaseInv, NEW t \in Terminals, pc[t] \notin {"off", "user"}
  PROVE  Booted
BY DEF BaseInv, BootInv

\* Every step of every handler preserves it.
LEMMA BaseNext == BaseInv /\ [Next]_vars => BaseInv'
<1> SUFFICES ASSUME BaseInv, [Next]_vars PROVE BaseInv'
  OBVIOUS
<1>1. ASSUME NEW t \in Terminals, KernelStep(t) PROVE BaseInv'
  <2> USE SetFacts DEF BaseInv, TypeOK, BootInv, Booted, At, Goto, mem, sched, cpu, locals,
           ExecPc, HaltPc
  <2>1. CASE ScanSlot(t)
    <3>1. TypeOK'
      BY <1>1, <2>1 DEF ScanSlot
    <3>2. CASE running[idx[t]]
      BY <1>1, <2>1, <3>1, <3>2 DEF ScanSlot
    <3>3. CASE ~running[idx[t]]
      <4>1. Booted
        BY <2>1, BootedInCall DEF ScanSlot
      <4>2. idx[t] \in Pids \ BasePids
        BY <2>1, <3>3, <4>1, BaseTaken DEF ScanSlot
      <4>3. QED
        BY <1>1, <2>1, <3>1, <3>3, <4>1, <4>2 DEF ScanSlot
    <3>4. QED
      BY <3>2, <3>3
  <2>2. CASE TableFull(t)
    <3>1. TypeOK'
      BY <1>1, <2>2, ProgramAssumption DEF TableFull
    <3>2. BootInv'
      BY <1>1, <2>2 DEF TableFull
    <3>3. QED
      BY <3>1, <3>2
  <2>3. CASE ClaimSlot(t)
    <3>1. TypeOK'
      BY <1>1, <2>3, ProgramAssumption DEF ClaimSlot
    <3>2. BootInv'
      BY <1>1, <2>3 DEF ClaimSlot
    <3>3. QED
      BY <3>1, <3>2
  <2>4. CASE SetPid(t)
    <3>1. TypeOK'
      BY <1>1, <2>4, ProgramAssumption DEF SetPid
    <3>2. BootInv'
      BY <1>1, <2>4 DEF SetPid
    <3>3. QED
      BY <3>1, <3>2
  <2>5. CASE MapPage(t)
    <3>1. TypeOK'
      BY <1>1, <2>5, ProgramAssumption DEF MapPage, PageOf
    <3>2. BootInv'
      BY <1>1, <2>5 DEF MapPage, PageOf
    <3>3. QED
      BY <3>1, <3>2
  <2>6. CASE LoadImage(t)
    <3>1. TypeOK'
      BY <1>1, <2>6, ProgramAssumption DEF LoadImage
    <3>2. BootInv'
      BY <1>1, <2>6 DEF LoadImage
    <3>3. QED
      BY <3>1, <3>2
  <2>7. CASE FillPcb(t)
    <3>1. TypeOK'
      BY <1>1, <2>7, ProgramAssumption DEF FillPcb, ParentOn
    <3>2. BootInv'
      BY <1>1, <2>7 DEF FillPcb, ParentOn
    <3>3. QED
      BY <3>1, <3>2
  <2>8. CASE SetTss(t)
    <3>1. TypeOK'
      BY <1>1, <2>8, ProgramAssumption DEF SetTss
    <3>2. BootInv'
      BY <1>1, <2>8 DEF SetTss
    <3>3. QED
      BY <3>1, <3>2
  <2>9. CASE SwitchToUser(t)
    <3>1. TypeOK'
      BY <1>1, <2>9, ProgramAssumption DEF SwitchToUser, Contexts
    <3>2. BootInv'
      BY <1>1, <2>9 DEF SwitchToUser, Contexts
    <3>3. QED
      BY <3>1, <3>2
  <2>10. CASE FreeSlot(t)
    <3>1. TypeOK'
      BY <1>1, <2>10, ProgramAssumption DEF FreeSlot
    <3>2. BootInv'
      BY <1>1, <2>10 DEF FreeSlot
    <3>3. QED
      BY <3>1, <3>2
  <2>11. CASE ReadParent(t)
    <3>1. TypeOK'
      BY <1>1, <2>11, ProgramAssumption DEF ReadParent
    <3>2. BootInv'
      BY <1>1, <2>11 DEF ReadParent
    <3>3. QED
      BY <3>1, <3>2
  <2>12. CASE WriteStatus(t)
    <3>1. TypeOK'
      BY <1>1, <2>12, ProgramAssumption DEF WriteStatus
    <3>2. BootInv'
      BY <1>1, <2>12 DEF WriteStatus
    <3>3. QED
      BY <3>1, <3>2
  <2>13. CASE SetParentPid(t)
    <3>1. TypeOK'
      BY <1>1, <2>13, ProgramAssumption DEF SetParentPid
    <3>2. BootInv'
      BY <1>1, <2>13 DEF SetParentPid
    <3>3. QED
      BY <3>1, <3>2
  <2>14. CASE MapParentPage(t)
    <3>1. TypeOK'
      BY <1>1, <2>14, ProgramAssumption DEF MapParentPage, PageOf
    <3>2. BootInv'
      BY <1>1, <2>14 DEF MapParentPage, PageOf
    <3>3. QED
      BY <3>1, <3>2
  <2>15. CASE SetParentTss(t)
    <3>1. TypeOK'
      BY <1>1, <2>15, ProgramAssumption DEF SetParentTss
    <3>2. BootInv'
      BY <1>1, <2>15 DEF SetParentTss
    <3>3. QED
      BY <3>1, <3>2
  <2>16. CASE RestoreParent(t)
    <3>1. TypeOK'
      BY <1>1, <2>16, ProgramAssumption, SMTT(60) DEF RestoreParent, ReturnOnto
    <3>2. BootInv'
      BY <1>1, <2>16 DEF RestoreParent, ReturnOnto
    <3>3. QED
      BY <3>1, <3>2
  <2>17. QED
    BY <1>1, <2>1, <2>2, <2>3, <2>4, <2>5, <2>6, <2>7, <2>8, <2>9, <2>10, <2>11, <2>12, <2>13, <2>14, <2>15, <2>16 DEF KernelStep
<1>2. ASSUME NEW t \in Terminals, UserStep(t) PROVE BaseInv'
  <2> USE SetFacts DEF BaseInv, TypeOK, BootInv, Booted, At, Goto, EnterKernel, mem, sched, cpu,
           locals, ExecPc, HaltPc
  <2>1. CASE ExecuteFails(t)
    <3>1. TypeOK'
      BY <1>2, <2>1, ProgramAssumption DEF ExecuteFails
    <3>2. BootInv'
      BY <1>2, <2>1 DEF ExecuteFails
    <3>3. QED
      BY <3>1, <3>2
  <2>2. ASSUME NEW prog \in Programs, Execute(t, prog) PROVE BaseInv'
    <3>1. TypeOK'
      BY <1>2, <2>2, ProgramAssumption DEF Execute, MayExecute
    <3>2. BootInv'
      BY <1>2, <2>2 DEF Execute, MayExecute
    <3>3. QED
      BY <3>1, <3>2
  <2>3. ASSUME NEW s \in Statuses, Halt(t, s) PROVE BaseInv'
    <3>1. TypeOK'
      BY <1>2, <2>3, ProgramAssumption DEF Halt, MayHalt
    <3>2. BootInv'
      BY <1>2, <2>3 DEF Halt, MayHalt
    <3>3. QED
      BY <3>1, <3>2
  <2>4. CASE HaltBase(t)
    <3>1. LowestFree([running EXCEPT ![esp0] = FALSE]) = esp0
      BY <2>4, ReplacedInPlace DEF HaltBase
    <3>2. running[esp0]
      BY <2>4, BaseTaken DEF HaltBase
    <3>3. running' = running
      BY <2>4, <3>1, <3>2 DEF HaltBase, ExecShell
    <3>4. TypeOK'
      BY <1>2, <2>4, <3>1, <3>3, ProgramAssumption DEF HaltBase, ExecShell, ParentOn, Contexts
    <3>5. BootInv'
      BY <1>2, <2>4, <3>3 DEF HaltBase, ExecShell
    <3>6. QED
      BY <3>4, <3>5
  <2>5. CASE PageFault(t)
    <3> DEFINE q == parent[esp0]
    <3>1. /\ esp0 \in Pids \ BasePids /\ q \in Stacks /\ PageOf(q) \in Pids
          /\ pc[t] = "user" /\ Booted
      BY <2>5 DEF PageFault, PageOf
    <3>2. /\ kframe' \in [Stacks -> Contexts]
          /\ status' \in [Stacks -> Nat]
          /\ parentEsp[esp0] \in Stacks
      BY <1>2, <2>5, <3>1, ProgramAssumption DEF PageFault
    <3>3. /\ \E l \in {"user", "wild"} : pc' = [pc EXCEPT ![t] = l]
          /\ stk' \in [Terminals -> Stacks]
          /\ ctx' \in [Terminals -> Contexts]
          /\ ret' \in [Terminals -> Nat \cup {-1}]
          /\ \A u \in Terminals : u # t => stk'[u] = stk[u]
      <4>1. CASE kframe'[parentEsp[esp0]].term = t
        <5>1. /\ stk' = [stk EXCEPT ![t] = parentEsp[esp0]]
              /\ ctx' = [ctx EXCEPT ![t] = kframe'[parentEsp[esp0]]]
              /\ ret' = [ret EXCEPT ![t] = status'[esp0]]
              /\ pc' = [pc EXCEPT ![t] = "user"]
          BY <2>5, <4>1 DEF PageFault, ReturnOnto
        <5>2. kframe'[parentEsp[esp0]] \in Contexts /\ status'[esp0] \in Nat
          BY <3>1, <3>2
        <5>3. QED
          BY <1>2, <3>2, <5>1, <5>2
      <4>2. CASE kframe'[parentEsp[esp0]].term # t
        BY <1>2, <2>5, <3>1, <3>2, <4>2 DEF PageFault, ReturnOnto
      <4>3. QED
        BY <4>1, <4>2
    <3>4. PICK l \in {"user", "wild"} : pc' = [pc EXCEPT ![t] = l]
      BY <3>3
    <3>5. TypeOK'
      BY <1>2, <2>5, <3>1, <3>2, <3>3, <3>4 DEF PageFault
    <3>6. BootInv'
      BY <1>2, <2>5, <3>1, <3>3, <3>4 DEF PageFault
    <3>7. QED
      BY <3>5, <3>6
  <2>6. QED
    BY <1>2, <2>1, <2>2, <2>3, <2>4, <2>5 DEF UserStep
<1>3. CASE Tick
  <2> DEFINE n == (current + 1) % NumTerm
  <2>1. n \in Terminals /\ current \in Terminals
    BY NextTerminal DEF BaseInv, TypeOK
  <2> HIDE DEF n
  <2>2. CASE isOn[n]
    <3> USE SetFacts DEF BaseInv, TypeOK, BootInv, Booted, Goto, locals, ExecPc, HaltPc
    <3>1. TypeOK'
      BY <1>3, <2>1, <2>2, SMTT(60) DEF Tick, PageOf, n
    <3>2. Booted
      <4>1. SUFFICES ASSUME ~Booted PROVE FALSE
        OBVIOUS
      <4>2. n <= current /\ current # NumTerm-1
        BY <4>1, <2>1, <2>2
      <4>3. QED
        BY <4>2, <2>1, NextTerminal, SizeAssumption DEF n, Terminals
    <3>3. BootInv'
      BY <1>3, <2>1, <2>2, <3>2 DEF Tick, n
    <3>4. QED
      BY <3>1, <3>3
  <2>3. CASE ~isOn[n]
    <3>1. /\ LowestFree(running) = BasePid(n)
          /\ ~Booted
          /\ \A t \in Terminals : isOn[t] <=> t < n
      BY <2>1, <2>3, StartedInOrder DEF n
    <3>2. BasePid(n) \in BasePids /\ BasePid(n) \in Pids
      BY <2>1, SetFacts
    <3>3. /\ current' = n
          /\ isOn' = [isOn EXCEPT ![n] = TRUE]
          /\ running' = [running EXCEPT ![BasePid(n)] = TRUE]
          /\ pc' = [pc EXCEPT ![n] = "user"]
          /\ UNCHANGED idx
      BY <1>3, <2>3, <3>1 DEF Tick, ExecShell, Goto, locals, n
    <3>4. TypeOK'
      <4>1. /\ kframe' \in [Stacks -> Contexts]
            /\ stk' \in [Terminals -> Stacks]
        BY <1>3, <2>1 DEF Tick, BaseInv, TypeOK
      <4>2. stk'[current] \in Stacks /\ ParentOn(BasePid(n), stk'[current]) \in Stacks
        BY <2>1, <4>1, SetFacts DEF ParentOn
      <4>3. /\ ExecShell(n, stk'[current], running)
            /\ UNCHANGED <<status, locals>>
        BY <1>3, <2>3 DEF Tick, n
      <4>4. [term |-> n, pid |-> BasePid(n), prog |-> Shell] \in Contexts
        BY <2>1, <3>2, SetFacts, ProgramAssumption DEF Contexts
      <4>5. QED
        BY <2>1, <3>1, <3>2, <3>3, <4>1, <4>2, <4>3, <4>4, SetFacts, ProgramAssumption
        DEF ExecShell, BaseInv, TypeOK, locals
    <3>5. \A t \in Terminals : pc[t] \in {"off", "user"}
      BY <3>1 DEF BaseInv, BootInv
    <3>6. \A t \in Terminals : pc'[t] \in {"off", "user"}
      BY <3>3, <3>5 DEF BaseInv, TypeOK
    <3>7. \A t \in Terminals : isOn'[t] <=> pc'[t] # "off"
      BY <3>3, <2>1 DEF BaseInv, TypeOK, BootInv
    <3>8. \A t \in Terminals : running'[BasePid(t)] <=> isOn'[t]
      BY <3>3, <2>1, <3>2, SetFacts DEF BaseInv, TypeOK, BootInv
    <3>9. \A p \in Pids \ BasePids : ~running'[p]
      BY <3>1, <3>2, <3>3 DEF BaseInv, TypeOK, BootInv
    <3>10. \A t \in Terminals : isOn'[t] <=> t <= n
      <4>1. \A t \in Terminals : isOn'[t] <=> isOn[t] \/ t = n
        BY <3>3, <2>1 DEF BaseInv, TypeOK
      <4>2. \A t \in Terminals : t <= n <=> t < n \/ t = n
        BY <2>1, SizeAssumption DEF Terminals
      <4>3. QED
        BY <3>1, <4>1, <4>2
    <3>11. n = NumTerm-1 => Booted'
      BY <3>10, SizeAssumption DEF Booted, Terminals
    <3>12. QED
      BY <3>3, <3>4, <3>6, <3>7, <3>8, <3>9, <3>10, <3>11 DEF BaseInv, BootInv, ExecPc, HaltPc
  <2>4. QED
    BY <2>2, <2>3
<1>4. CASE UNCHANGED vars
  BY <1>4 DEF BaseInv, TypeOK, BootInv, Booted, vars, mem, sched, cpu, locals
<1>5. QED
  BY <1>1, <1>2, <1>3, <1>4 DEF Next

\* Type correctness, for every number of terminals and slots and however system
\* calls overlap.
THEOREM TypeCorrect == Spec => []TypeOK
<1>1. BaseInv => TypeOK
  BY DEF BaseInv
<1>2. QED
  BY <1>1, BaseInit, BaseNext, PTL DEF Spec

\* No execute is ever given the slot of a base shell.
THEOREM BaseSlotsAreKept == Spec => []BaseSlotsKept
<1>1. BaseInv => BaseSlotsKept
  BY BaseTaken DEF BaseSlotsKept
<1>2. QED
  BY <1>1, BaseInit, BaseNext, PTL DEF Spec

(***************************************************************************)
(* When no execute overlaps another execute or halt: the invariant IInv.   *)
(***************************************************************************)

\* What a step does to the processes as ProcessTree sees them: nothing;
Quiet ==
  /\ \A u \in Terminals : isOn'[u] = isOn[u] /\ (isOn[u] => Top(u)' = Top(u))
  /\ \A r \in Pids : Live(r)' = Live(r)
  /\ \A r \in Pids : Live(r) => parent'[r] = parent[r] /\ umem'[r] = umem[r]

\* terminal t goes on with a new process in slot p, called by c;
Pushes(t, p, c) ==
  /\ p \in Pids /\ ~Live(p)
  /\ Top(t)' = p /\ isOn'[t]
  /\ parent'[p] = c
  /\ \A u \in Terminals : u # t => isOn'[u] = isOn[u] /\ (isOn[u] => Top(u)' = Top(u))
  /\ \A r \in Pids : Live(r)' <=> Live(r) \/ r = p
  /\ \A r \in Pids : Live(r) => parent'[r] = parent[r] /\ umem'[r] = umem[r]

Calls(t) ==
  isOn[t] /\ \E p \in Pids : Pushes(t, p, Top(t)) /\ p # Top(t) /\ umem'[p] \in Programs

Starts(t) == ~isOn[t] /\ \E p \in Pids : Pushes(t, p, 0) /\ umem'[p] = Shell

\* the process of terminal t goes and its caller goes on.
Returns(t) ==
  /\ isOn[t] /\ Top(t) \in Pids /\ Live(Top(t))
  /\ parent[Top(t)] \in Pids /\ parent[Top(t)] # Top(t)
  /\ Top(t)' = parent[Top(t)]
  /\ \A u \in Terminals : isOn'[u] = isOn[u] /\ (isOn[u] /\ u # t => Top(u)' = Top(u))
  /\ \A r \in Pids : Live(r)' <=> Live(r) /\ r # Top(t)
  /\ UNCHANGED <<parent, umem>>

\* A thread inside execute past the claim of a slot: the slot is taken, is the
\* only one under construction and no process yet, and no other thread is
\* inside execute or halt.
LEMMA InExecute ==
  ASSUME IInv, NEW t \in Terminals, pc[t] \in Built
  PROVE  /\ isOn[t] /\ stk[t] = Top(t)
         /\ idx[t] \in Pids \ BasePids
         /\ running[idx[t]] /\ ~Live(idx[t])
         /\ \A p \in Pids : Building(p) <=> p = idx[t]
         /\ \A u \in Terminals : u # t => pc[u] \notin ExecPc \cup HaltPc
<1>1. /\ isOn[t] /\ idx[t] \in Pids \ BasePids /\ running[idx[t]]
      /\ \A u \in Terminals : u # t => pc[u] \notin ExecPc \cup HaltPc
  BY DEF IInv, BootInv, SerialInv, BuildInv, Built, ExecPc
<1>2. stk[t] = Top(t)
  BY <1>1 DEF IInv, ContextInv, Built, ExecPc
<1>3. \A p \in Pids : Building(p) <=> p = idx[t]
  BY <1>1 DEF Building, Built
<1>4. ~Live(idx[t])
  BY <1>1, <1>3 DEF Live, Built, ExecPc, HaltPc
<1>5. QED
  BY <1>1, <1>2, <1>3, <1>4

\* A thread inside halt: its process is one, with a parent that waits for it.
LEMMA InHalt ==
  ASSUME IInv, NEW t \in Terminals, pc[t] \in HaltPc
  PROVE  /\ isOn[t] /\ stk[t] = Top(t)
         /\ Top(t) \in Pids \ BasePids
         /\ Live(Top(t))
         /\ parent[Top(t)] \in Pids
         /\ \A u \in Terminals : pc[u] \notin ExecPc
<1>1. /\ isOn[t] /\ stk[t] \in Pids \ BasePids
      /\ \A u \in Terminals : pc[u] \notin ExecPc
  BY DEF IInv, BootInv, SerialInv, HaltPc, ExecPc
<1>2. stk[t] = Top(t)
  BY <1>1 DEF IInv, ContextInv, HaltPc
<1>3. Live(Top(t))
  BY <1>2 DEF Live
<1>4. QED
  BY <1>1, <1>2, <1>3 DEF IInv, ParentInv

\* A thread in user mode on the CPU: the page, the TSS and the scheduler name
\* the process it runs.
LEMMA InUser ==
  ASSUME IInv, NEW t \in Terminals, At(t, "user")
  PROVE  /\ isOn[t]
         /\ ctx[t].pid = Top(t)
         /\ Top(t) \in Pids
         /\ running[Top(t)] /\ Live(Top(t)) /\ ~Building(Top(t))
         /\ termPid[t] = Top(t) /\ userPage = Top(t) /\ esp0 = Top(t)
         /\ ctx[t] = OwnContext(t)
<1>1. isOn[t] /\ pc[t] = "user" /\ current = t
  BY DEF At, IInv, BootInv
<1>2. /\ ctx[t].pid = Top(t) /\ Top(t) \in Pids /\ running[Top(t)]
      /\ termPid[t] = Top(t) /\ userPage = Top(t) /\ esp0 = Top(t)
      /\ ctx[t] = OwnContext(t)
  BY <1>1 DEF IInv, TopInv, TermPidInv, CpuInv, ContextInv, Top, HaltPc
<1>3. ~Building(Top(t))
  BY <1>1 DEF IInv, BuildInv, Building, Built
<1>4. Live(Top(t))
  BY <1>2, <1>3 DEF Live
<1>5. QED
  BY <1>1, <1>2, <1>3, <1>4

\* A step inside execute or inside halt that changes no PCB, no image and no
\* kernel stack leaves who runs and who waits as it is.
LEMMA InnerStep ==
  ASSUME IInv, BaseInv', NEW t \in Terminals, NEW l,
         \/ pc[t] = "scan" /\ l \in {"scan", "claim"}
         \/ pc[t] \in Built /\ l \in Built
         \/ pc[t] \in HaltPc \ {"free"} /\ l \in HaltPc \ {"free"},
         pc' = [pc EXCEPT ![t] = l],
         \A u \in Terminals : pc[u] \in Built => idx'[u] = idx[u],
         UNCHANGED <<running, parent, parentEsp, umem, kframe, isOn, current, stk, ctx>>
  PROVE  /\ Quiet
         /\ \A u \in Terminals : Top(u)' = Top(u)
         /\ SerialInv' /\ NeverWild' /\ SlotsExclusive' /\ TopInv' /\ ContextInv'
         /\ ShellInv' /\ ParentInv' /\ FrameInv' /\ NoSlotLeaked'
<1> USE DEF TypeOK, Built, ExecPc, HaltPc
<1>1. TypeOK /\ TypeOK' /\ BootInv
  BY DEF IInv, BaseInv
<1>2. \A u \in Terminals : Top(u)' = Top(u)
  BY <1>1 DEF Top
<1>3. \A p \in Pids : Building(p)' = Building(p)
  BY <1>1 DEF Building
<1>4. \A p \in Pids : Live(p)' = Live(p)
  BY <1>1, <1>3 DEF Live
<1>5. SerialInv' /\ NeverWild'
  BY <1>1 DEF IInv, SerialInv, NeverWild
<1>6. SlotsExclusive' /\ TopInv'
  BY <1>1, <1>2 DEF IInv, SlotsExclusive, TopInv
<1>7. ContextInv'
  BY <1>1, <1>2 DEF IInv, ContextInv, OwnContext
<1>8. ShellInv' /\ ParentInv'
  BY <1>1, <1>2, <1>3, <1>4 DEF IInv, ShellInv, ParentInv
<1>9. FrameInv'
  BY <1>1, <1>2, <1>4 DEF IInv, FrameInv
<1>10. NoSlotLeaked'
  BY <1>1, <1>2, <1>3, <1>4 DEF IInv, NoSlotLeaked
<1>11. Quiet
  BY <1>2, <1>4 DEF Quiet
<1>12. QED
  BY <1>2, <1>11, <1>5, <1>6, <1>7, <1>8, <1>9, <1>10

\* The steps of execute.
LEMMA ExecuteKeeps ==
  ASSUME IInv, BaseInv', NEW t \in Terminals,
         \/ ScanSlot(t) \/ TableFull(t) \/ ClaimSlot(t) \/ SetPid(t) \/ MapPage(t)
         \/ LoadImage(t) \/ FillPcb(t) \/ SetTss(t) \/ SwitchToUser(t)
  PROVE  IInv' /\ (Quiet \/ Calls(t))
<1> USE DEF TypeOK, At, Goto, mem, sched, cpu, locals
<1>1. TypeOK /\ TypeOK' /\ BootInv /\ BootInv'
  BY DEF IInv, BaseInv
<1>2. CASE ScanSlot(t)
  <2>1. PICK l \in {"scan", "claim"} :
          /\ pc[t] = "scan" /\ pc' = [pc EXCEPT ![t] = l]
          /\ l = "claim" => ~running[idx[t]]
          /\ \A u \in Terminals : u # t \/ l = "claim" => idx'[u] = idx[u]
    BY <1>1, <1>2 DEF ScanSlot
  <2>2. UNCHANGED <<mem, sched, cpu, stk, ctx, cmd, parentid, code, ret>>
    BY <1>2 DEF ScanSlot
  <2>3. /\ Quiet /\ \A u \in Terminals : Top(u)' = Top(u)
        /\ SerialInv' /\ NeverWild' /\ SlotsExclusive' /\ TopInv' /\ ContextInv'
        /\ ShellInv' /\ ParentInv' /\ FrameInv' /\ NoSlotLeaked'
    BY <2>1, <2>2, InnerStep DEF Built
  <2>4. TermPidInv' /\ CpuInv'
    BY <1>1, <2>1, <2>2, <2>3 DEF IInv, TermPidInv, CpuInv, Built, ExecPc, HaltPc
  <2>5. BuildInv' /\ StatusInv'
    BY <1>1, <2>1, <2>2, <2>3 DEF IInv, BuildInv, StatusInv, Built, ExecPc
  <2>6. QED
    BY <1>1, <2>3, <2>4, <2>5 DEF IInv
<1>3. CASE TableFull(t)
  <2>1. /\ t = current /\ pc[t] = "scan" /\ pc' = [pc EXCEPT ![t] = "user"] /\ isOn[t]
        /\ UNCHANGED <<mem, sched, cpu, stk, ctx, cmd, idx, parentid, code>>
    BY <1>1, <1>3 DEF TableFull, BootInv
  <2>2. ctx[t] = OwnContext(t) /\ stk[t] = Top(t)
    BY <2>1 DEF IInv, ContextInv
  <2>3. \A u \in Terminals : Top(u)' = Top(u)
    BY <1>1, <2>1, <2>2 DEF Top, OwnContext
  <2>4. \A p \in Pids : Building(p)' = Building(p)
    BY <1>1, <2>1 DEF Building, ExecPc
  <2>5. \A p \in Pids : Live(p)' = Live(p)
    BY <1>1, <2>1, <2>4 DEF Live, HaltPc
  <2>6. SerialInv' /\ NeverWild' /\ SlotsExclusive' /\ TopInv'
    BY <1>1, <2>1, <2>3
    DEF IInv, SerialInv, NeverWild, SlotsExclusive, TopInv, ExecPc, HaltPc
  <2>7. ContextInv'
    BY <1>1, <2>1, <2>2, <2>3 DEF IInv, ContextInv, OwnContext
  <2>8. TermPidInv' /\ CpuInv'
    BY <1>1, <2>1, <2>3 DEF IInv, TermPidInv, CpuInv, Built, ExecPc, HaltPc
  <2>9. BuildInv' /\ ShellInv' /\ StatusInv'
    BY <1>1, <2>1, <2>3 DEF IInv, BuildInv, ShellInv, StatusInv, Built, ExecPc
  <2>10. ParentInv' /\ NoSlotLeaked'
    BY <1>1, <2>1, <2>3, <2>4, <2>5 DEF IInv, ParentInv, NoSlotLeaked
  <2>11. FrameInv'
    BY <1>1, <2>1, <2>3, <2>5 DEF IInv, FrameInv
  <2>12. Quiet
    BY <2>1, <2>3, <2>5 DEF Quiet
  <2>13. QED
    BY <2>12, <1>1, <2>6, <2>7, <2>8, <2>9, <2>10, <2>11 DEF IInv
<1>4. CASE ClaimSlot(t)
  <2>1. /\ t = current /\ pc[t] = "claim" /\ pc' = [pc EXCEPT ![t] = "setpid"] /\ isOn[t]
        /\ running' = [running EXCEPT ![idx[t]] = TRUE]
        /\ UNCHANGED <<parent, parentEsp, status, umem, kframe, sched, cpu, stk, ctx, locals>>
    BY <1>1, <1>4 DEF ClaimSlot, BootInv
  <2>2. /\ idx[t] \in Pids \ BasePids /\ ~running[idx[t]]
        /\ \A u \in Terminals : u # t => pc[u] \notin ExecPc \cup HaltPc
    BY <1>1, <2>1 DEF IInv, BootInv, BuildInv, SerialInv, ExecPc
  <2>3. \A u \in Terminals : Top(u)' = Top(u)
    BY <1>1, <2>1 DEF Top
  <2>4. \A u \in Terminals : isOn[u] => Top(u) \in Pids /\ running[Top(u)]
    BY <2>1, <2>2 DEF IInv, TopInv, HaltPc
  <2>5. \A p \in Pids : ~Building(p) /\ (Building(p)' <=> p = idx[t])
    BY <1>1, <2>1, <2>2 DEF Building, ExecPc
  <2>6. \A p \in Pids : Live(p)' = Live(p)
    BY <1>1, <2>1, <2>2, <2>5 DEF Live, HaltPc
  <2>7. SerialInv' /\ NeverWild' /\ SlotsExclusive'
    BY <1>1, <2>1, <2>3 DEF IInv, SerialInv, NeverWild, SlotsExclusive, ExecPc
  <2>8. TopInv'
    BY <1>1, <2>1, <2>2, <2>3 DEF IInv, TopInv, HaltPc
  <2>9. ContextInv'
    BY <1>1, <2>1, <2>3 DEF IInv, ContextInv, OwnContext
  <2>10. TermPidInv' /\ CpuInv'
    BY <1>1, <2>1, <2>3 DEF IInv, TermPidInv, CpuInv, Built, ExecPc, HaltPc
  <2>11. BuildInv'
    BY <1>1, <2>1, <2>2, <2>3, <2>4 DEF IInv, BuildInv, Built, ExecPc
  <2>12. ShellInv' /\ StatusInv'
    BY <1>1, <2>1 DEF IInv, ShellInv, StatusInv
  <2>13. ParentInv'
    BY <1>1, <2>1, <2>2, <2>3, <2>5, <2>6 DEF IInv, ParentInv
  <2>14. FrameInv'
    BY <1>1, <2>1, <2>3, <2>6 DEF IInv, FrameInv
  <2>15. NoSlotLeaked'
    BY <1>1, <2>1, <2>2, <2>3, <2>5, <2>6 DEF IInv, NoSlotLeaked
  <2>16. Quiet
    BY <2>1, <2>3, <2>6 DEF Quiet
  <2>17. QED
    BY <2>16, <1>1, <2>7, <2>8, <2>9, <2>10, <2>11, <2>12, <2>13, <2>14, <2>15 DEF IInv
<1>5. CASE SetPid(t)
  <2>1. /\ t = current /\ pc[t] = "setpid" /\ pc' = [pc EXCEPT ![t] = "map"]
        /\ termPid' = [termPid EXCEPT ![t] = idx[t]]
        /\ UNCHANGED <<mem, isOn, current, cpu, stk, ctx, locals>>
    BY <1>5 DEF SetPid
  <2>2. /\ Quiet /\ \A u \in Terminals : Top(u)' = Top(u)
        /\ SerialInv' /\ NeverWild' /\ SlotsExclusive' /\ TopInv' /\ ContextInv'
        /\ ShellInv' /\ ParentInv' /\ FrameInv' /\ NoSlotLeaked'
    BY <2>1, InnerStep DEF Built, ExecPc
  <2>3. TermPidInv' /\ CpuInv'
    BY <1>1, <2>1, <2>2 DEF IInv, TermPidInv, CpuInv, Built, ExecPc, HaltPc
  <2>4. BuildInv' /\ StatusInv'
    BY <1>1, <2>1, <2>2 DEF IInv, BuildInv, StatusInv, Built, ExecPc
  <2>5. QED
    BY <1>1, <2>2, <2>3, <2>4 DEF IInv
<1>6. CASE MapPage(t)
  <2>1. /\ t = current /\ pc[t] = "map" /\ pc' = [pc EXCEPT ![t] = "load"]
        /\ userPage' = PageOf(idx[t])
        /\ UNCHANGED <<mem, sched, esp0, stk, ctx, locals>>
    BY <1>6 DEF MapPage
  <2>2. /\ Quiet /\ \A u \in Terminals : Top(u)' = Top(u)
        /\ SerialInv' /\ NeverWild' /\ SlotsExclusive' /\ TopInv' /\ ContextInv'
        /\ ShellInv' /\ ParentInv' /\ FrameInv' /\ NoSlotLeaked'
    BY <2>1, InnerStep DEF Built, ExecPc
  <2>3. PageOf(idx[t]) = termPid[t]
    BY <2>1, InExecute DEF IInv, TermPidInv, PageOf, Built, ExecPc
  <2>4. TermPidInv' /\ CpuInv'
    BY <1>1, <2>1, <2>2, <2>3 DEF IInv, TermPidInv, CpuInv, Built, ExecPc, HaltPc
  <2>5. BuildInv' /\ StatusInv'
    BY <1>1, <2>1, <2>2 DEF IInv, BuildInv, StatusInv, Built, ExecPc
  <2>6. QED
    BY <1>1, <2>2, <2>4, <2>5 DEF IInv
<1>7. CASE LoadImage(t)
  <2>1. /\ t = current /\ pc[t] = "load" /\ pc' = [pc EXCEPT ![t] = "pcb"]
        /\ umem' = [umem EXCEPT ![userPage] = cmd[t]]
        /\ UNCHANGED <<running, parent, parentEsp, status, kframe, sched, cpu, stk, ctx, locals>>
    BY <1>7 DEF LoadImage
  <2>2. /\ isOn[t] /\ idx[t] \in Pids \ BasePids /\ userPage = idx[t] /\ ~Live(idx[t])
        /\ \A p \in Pids : Building(p) <=> p = idx[t]
    BY <2>1, InExecute DEF IInv, TermPidInv, CpuInv, Built, ExecPc
  <2>3. \A u \in Terminals : Top(u)' = Top(u)
    BY <1>1, <2>1 DEF Top
  <2>4. \A p \in Pids : Building(p)' = Building(p)
    BY <1>1, <2>1 DEF Building, ExecPc
  <2>5. \A p \in Pids : Live(p)' = Live(p)
    BY <1>1, <2>1, <2>4 DEF Live, HaltPc
  <2>6. SerialInv' /\ NeverWild' /\ SlotsExclusive' /\ TopInv'
    BY <1>1, <2>1, <2>3
    DEF IInv, SerialInv, NeverWild, SlotsExclusive, TopInv, ExecPc, HaltPc
  <2>7. \A u \in Terminals : isOn[u] => Top(u) \in Pids /\ umem'[Top(u)] = umem[Top(u)]
    BY <1>1, <2>1, <2>2 DEF IInv, TopInv, BuildInv, Built, ExecPc
  <2>8. ContextInv'
    BY <1>1, <2>1, <2>3, <2>7 DEF IInv, ContextInv, OwnContext
  <2>9. TermPidInv' /\ CpuInv'
    BY <1>1, <2>1, <2>3 DEF IInv, TermPidInv, CpuInv, Built, ExecPc, HaltPc
  <2>10. BuildInv'
    BY <1>1, <2>1, <2>2, <2>3, InExecute DEF IInv, BuildInv, Built, ExecPc
  <2>11. ShellInv' /\ StatusInv'
    BY <1>1, <2>1, <2>2, SetFacts DEF IInv, ShellInv, StatusInv
  <2>12. ParentInv' /\ NoSlotLeaked'
    BY <1>1, <2>1, <2>3, <2>4, <2>5 DEF IInv, ParentInv, NoSlotLeaked
  <2>13. \A p \in Pids \ BasePids : Live(p) => umem'[parent[p]] = umem[parent[p]]
    BY <1>1, <2>1, <2>2 DEF IInv, ParentInv
  <2>14. FrameInv'
    BY <1>1, <2>1, <2>3, <2>5, <2>13 DEF IInv, FrameInv
  <2>15. Quiet
    BY <1>1, <2>1, <2>2, <2>3, <2>5 DEF Quiet
  <2>16. QED
    BY <2>15, <1>1, <2>6, <2>8, <2>9, <2>10, <2>11, <2>12, <2>14 DEF IInv
<1>8. CASE FillPcb(t)
  <2>1. /\ t = current /\ pc[t] = "pcb" /\ pc' = [pc EXCEPT ![t] = "tss"]
        /\ parent' = [parent EXCEPT ![idx[t]] = ParentOn(idx[t], stk[t])]
        /\ UNCHANGED <<running, parentEsp, status, umem, kframe, sched, cpu, stk, ctx, locals>>
    BY <1>8 DEF FillPcb
  <2>2. /\ idx[t] \in Pids \ BasePids /\ ~Live(idx[t])
        /\ ParentOn(idx[t], stk[t]) = stk[t]
        /\ \A u \in Terminals : u # t => pc[u] \notin ExecPc \cup HaltPc
    BY <2>1, InExecute DEF ParentOn, Built, ExecPc
  <2>3. \A u \in Terminals : Top(u)' = Top(u)
    BY <1>1, <2>1 DEF Top
  <2>4. \A p \in Pids : Building(p)' = Building(p)
    BY <1>1, <2>1 DEF Building, ExecPc
  <2>5. \A p \in Pids : Live(p)' = Live(p) /\ (Live(p) => parent'[p] = parent[p])
    BY <1>1, <2>1, <2>2, <2>4 DEF Live, HaltPc
  <2>6. SerialInv' /\ NeverWild' /\ SlotsExclusive' /\ TopInv'
    BY <1>1, <2>1, <2>3
    DEF IInv, SerialInv, NeverWild, SlotsExclusive, TopInv, ExecPc, HaltPc
  <2>7. ContextInv'
    BY <1>1, <2>1, <2>3 DEF IInv, ContextInv, OwnContext
  <2>8. TermPidInv' /\ CpuInv'
    BY <1>1, <2>1, <2>2, <2>3 DEF IInv, TermPidInv, CpuInv, Built, ExecPc, HaltPc
  <2>9. BuildInv'
    BY <1>1, <2>1, <2>2, <2>3 DEF IInv, BuildInv, Built, ExecPc
  <2>10. ShellInv' /\ StatusInv'
    BY <1>1, <2>1, <2>2, SetFacts DEF IInv, ShellInv, StatusInv, HaltPc
  <2>11. ParentInv'
    BY <1>1, <2>1, <2>3, <2>4, <2>5 DEF IInv, ParentInv
  <2>12. FrameInv'
    BY <1>1, <2>1, <2>3, <2>5 DEF IInv, FrameInv
  <2>13. NoSlotLeaked'
    BY <1>1, <2>1, <2>3, <2>4, <2>5 DEF IInv, NoSlotLeaked
  <2>14. Quiet
    BY <1>1, <2>1, <2>3, <2>5 DEF Quiet
  <2>15. QED
    BY <2>14, <1>1, <2>6, <2>7, <2>8, <2>9, <2>10, <2>11, <2>12, <2>13 DEF IInv
<1>9. CASE SetTss(t)
  <2>1. /\ t = current /\ pc[t] = "tss" /\ pc' = [pc EXCEPT ![t] = "switch"]
        /\ esp0' = idx[t]
        /\ UNCHANGED <<mem, sched, userPage, stk, ctx, locals>>
    BY <1>9 DEF SetTss
  <2>2. /\ Quiet /\ \A u \in Terminals : Top(u)' = Top(u)
        /\ SerialInv' /\ NeverWild' /\ SlotsExclusive' /\ TopInv' /\ ContextInv'
        /\ ShellInv' /\ ParentInv' /\ FrameInv' /\ NoSlotLeaked'
    BY <2>1, InnerStep DEF Built, ExecPc
  <2>3. idx[t] = termPid[t]
    BY <2>1, InExecute DEF IInv, TermPidInv, Built, ExecPc
  <2>4. TermPidInv' /\ CpuInv'
    BY <1>1, <2>1, <2>2, <2>3 DEF IInv, TermPidInv, CpuInv, Built, ExecPc, HaltPc
  <2>5. BuildInv' /\ StatusInv'
    BY <1>1, <2>1, <2>2 DEF IInv, BuildInv, StatusInv, Built, ExecPc
  <2>6. QED
    BY <1>1, <2>2, <2>4, <2>5 DEF IInv
<1>10. CASE SwitchToUser(t)
  <2> DEFINE p == idx[t]
             q == stk[t]
  <2>1. /\ t = current /\ pc[t] = "switch" /\ pc' = [pc EXCEPT ![t] = "user"]
        /\ parentEsp' = [parentEsp EXCEPT ![p] = q]
        /\ ctx' = [ctx EXCEPT ![t] = [term |-> t, pid |-> p, prog |-> cmd[t]]]
        /\ UNCHANGED <<running, parent, status, umem, kframe, sched, cpu, stk, locals>>
    BY <1>10 DEF SwitchToUser
  <2>2. /\ isOn[t] /\ q = Top(t) /\ p \in Pids \ BasePids
        /\ running[p] /\ ~Live(p)
        /\ \A r \in Pids : Building(r) <=> r = p
        /\ \A u \in Terminals : u # t => pc[u] \notin ExecPc \cup HaltPc
    BY <2>1, InExecute DEF Built, ExecPc
  <2>3. /\ umem[p] = cmd[t] /\ parent[p] = q /\ termPid[t] = p /\ userPage = p /\ esp0 = p
        /\ \A u \in Terminals : isOn[u] => Top(u) # p
    BY <2>1, <2>2 DEF IInv, BuildInv, TermPidInv, CpuInv, Built, ExecPc
  <2>4. /\ q \in Pids /\ running[q] /\ q # p
        /\ kframe[q] = [term |-> t, pid |-> q, prog |-> umem[q]]
        /\ q \in BasePids => q = BasePid(t)
    BY <2>1, <2>2, <2>3 DEF IInv, TopInv, ContextInv, OwnContext, ExecPc, HaltPc
  <2> HIDE DEF p, q
  <2>5. Top(t)' = p /\ \A u \in Terminals : u # t => Top(u)' = Top(u)
    BY <1>1, <2>1 DEF Top, p
  <2>6. \A r \in Pids : ~Building(r)'
    BY <1>1, <2>1, <2>2 DEF Building, ExecPc
  <2>7. \A r \in Pids : Live(r)' <=> Live(r) \/ r = p
    BY <1>1, <2>1, <2>2, <2>6 DEF Live, HaltPc
  <2>8. SerialInv' /\ NeverWild'
    BY <1>1, <2>1, <2>2 DEF IInv, SerialInv, NeverWild
  <2>9. SlotsExclusive' /\ TopInv'
    BY <1>1, <2>1, <2>2, <2>3, <2>5 DEF IInv, SlotsExclusive, TopInv, HaltPc
  <2>10. ContextInv'
    BY <1>1, <2>1, <2>3, <2>5 DEF IInv, ContextInv, OwnContext, p
  <2>11. TermPidInv' /\ CpuInv'
    BY <1>1, <2>1, <2>3, <2>5 DEF IInv, TermPidInv, CpuInv, Built, ExecPc, HaltPc
  <2>12. BuildInv' /\ ShellInv' /\ StatusInv'
    BY <1>1, <2>1, <2>2 DEF IInv, BuildInv, ShellInv, StatusInv, Built, ExecPc, HaltPc
  <2>13. \A r \in Pids \ BasePids : Live(r) => r # p /\ parent[r] # q /\ parent[r] # p
    BY <1>1, <2>2 DEF IInv, ParentInv
  <2>14. ParentInv'
    <3>1. ASSUME NEW r \in Pids \ BasePids, Live(r)
          PROVE  /\ parent[r] \in Pids /\ parentEsp'[r] = parent[r] /\ running[parent[r]]
                 /\ \A u \in Terminals : isOn[u] => Top(u)' # parent[r]
      BY <1>1, <3>1, <2>1, <2>5, <2>13 DEF IInv, ParentInv
    <3>2. /\ parentEsp'[p] = q
          /\ \A u \in Terminals : isOn[u] => Top(u)' # q
      BY <1>1, <2>1, <2>2, <2>4, <2>5 DEF IInv, SlotsExclusive
    <3>3. \A r, s \in Pids \ BasePids :
            (Live(r) \/ r = p) /\ (Live(s) \/ s = p) /\ r # s => parent[r] # parent[s]
      BY <2>2, <2>3, <2>13 DEF IInv, ParentInv
    <3>4. QED
      BY <2>1, <2>3, <2>4, <2>6, <2>7, <3>1, <3>2, <3>3 DEF ParentInv
  <2>15. FrameInv'
    <3>1. ASSUME NEW r \in Pids \ BasePids, Live(r)
          PROVE  /\ kframe[parent[r]].pid = parent[r]
                 /\ kframe[parent[r]].prog = umem[parent[r]]
                 /\ parent[r] \in BasePids => parent[r] = BasePid(kframe[parent[r]].term)
                 /\ \A u \in Terminals : isOn[u] /\ Top(u)' = r => kframe[parent[r]].term = u
                 /\ (\A u \in Terminals : isOn[u] => Top(u)' # r)
                      => kframe[parent[r]].term = kframe[r].term
      <4>1. r # p
        BY <3>1, <2>2
      <4>2. CASE r = q
        BY <3>1, <4>1, <4>2, <2>2, <2>4, <2>5 DEF IInv, FrameInv, SlotsExclusive
      <4>3. CASE r # q
        BY <3>1, <4>1, <4>3, <2>2, <2>5 DEF IInv, FrameInv
      <4>4. QED
        BY <4>2, <4>3
    <3>2. \A u \in Terminals : isOn[u] /\ Top(u)' = p => u = t
      BY <2>3, <2>5
    <3>3. QED
      BY <2>1, <2>2, <2>3, <2>4, <2>5, <2>7, <3>1, <3>2 DEF FrameInv
  <2>16. NoSlotLeaked'
    <3>1. ASSUME NEW r \in Pids, running[r]
          PROVE  \/ \E u \in Terminals : isOn[u] /\ Top(u)' = r
                 \/ \E c \in Pids : (Live(c) \/ c = p) /\ parent[c] = r
      BY <3>1, <2>2, <2>3, <2>5 DEF IInv, NoSlotLeaked
    <3>2. QED
      BY <2>1, <2>7, <3>1 DEF NoSlotLeaked
  <2>17. Calls(t)
    <3>1. Pushes(t, p, Top(t))
      BY <2>1, <2>2, <2>3, <2>5, <2>7 DEF Pushes
    <3>2. umem'[p] \in Programs
      BY <1>1, <2>1, <2>2
    <3>3. QED
      BY <2>2, <2>4, <3>1, <3>2 DEF Calls
  <2>18. QED
    BY <2>17, <1>1, <2>8, <2>9, <2>10, <2>11, <2>12, <2>14, <2>15, <2>16 DEF IInv
<1>11. QED
  BY <1>2, <1>3, <1>4, <1>5, <1>6, <1>7, <1>8, <1>9, <1>10

\* What a terminal falls back to when its process goes: the caller, which was
\* waiting on its own stack for this terminal and for this process only.
LEMMA ParentWaits ==
  ASSUME IInv, NEW t \in Terminals, isOn[t], Top(t) \in Pids \ BasePids, Live(Top(t))
  PROVE  LET q == parent[Top(t)] IN
         /\ q \in Pids /\ running[q] /\ ~Building(q) /\ q # Top(t)
         /\ parentEsp[Top(t)] = q
         /\ kframe[q] = [term |-> t, pid |-> q, prog |-> umem[q]]
         /\ q \in BasePids => q = BasePid(t)
         /\ \A u \in Terminals : isOn[u] => Top(u) # q
         /\ \A r \in Pids \ BasePids : r # Top(t) /\ Live(r) => parent[r] # q
         /\ q \notin BasePids => Live(q) /\ kframe[parent[q]].term = t
<1> DEFINE q == parent[Top(t)]
<1>1. /\ q \in Pids /\ running[q] /\ ~Building(q)
      /\ parentEsp[Top(t)] = q
      /\ \A u \in Terminals : isOn[u] => Top(u) # q
      /\ \A r \in Pids \ BasePids : r # Top(t) /\ Live(r) => parent[r] # q
  BY DEF IInv, ParentInv
<1>2. /\ kframe[q].pid = q /\ kframe[q].prog = umem[q] /\ kframe[q].term = t
      /\ q \in BasePids => q = BasePid(t)
  BY DEF IInv, FrameInv
<1>3. kframe[q] \in Contexts
  BY <1>1, SetFacts DEF IInv, TypeOK
<1>4. kframe[q] = [term |-> t, pid |-> q, prog |-> umem[q]]
  BY <1>2, <1>3 DEF Contexts
<1>5. q \notin BasePids => Live(q) /\ kframe[parent[q]].term = t
  BY <1>1, <1>2 DEF Live, IInv, FrameInv
<1>6. QED
  BY <1>1, <1>2, <1>4, <1>5

\* The return to the parent: the process p of terminal t goes, its parent q
\* takes its place.  RestoreParent and PageFault both end this way.
LEMMA Returned ==
  ASSUME IInv, NEW t \in Terminals, isOn[t], NEW p, p = Top(t), p \in Pids \ BasePids,
         Live(p), NEW q, q = parent[p],
         Top(t)' = q, \A u \in Terminals : u # t => Top(u)' = Top(u),
         \A r \in Pids : Building(r)' <=> Building(r),
         \A r \in Pids : Live(r)' <=> Live(r) /\ r # p,
         \A r \in Pids : running'[r] <=> running[r] /\ r # p,
         \A r \in Stacks : r # p => kframe'[r] = kframe[r],
         UNCHANGED <<parent, parentEsp, umem, isOn>>
  PROVE  SlotsExclusive' /\ ShellInv' /\ ParentInv' /\ FrameInv' /\ NoSlotLeaked'
<1>1. /\ q \in Pids /\ running[q] /\ ~Building(q) /\ q # p
      /\ parentEsp[p] = q
      /\ kframe[q] = [term |-> t, pid |-> q, prog |-> umem[q]]
      /\ \A u \in Terminals : isOn[u] => Top(u) # q
      /\ \A r \in Pids \ BasePids : r # p /\ Live(r) => parent[r] # q
      /\ q \notin BasePids => Live(q) /\ kframe[parent[q]].term = t
  BY ParentWaits
<1>2. SlotsExclusive' /\ ShellInv'
  BY <1>1 DEF IInv, SlotsExclusive, ShellInv
<1>3. \A r \in Pids \ BasePids : Live(r) => parent[r] \in Pids /\ parent[r] # p
  BY DEF IInv, ParentInv
<1>4. ParentInv'
  <2>1. ASSUME NEW r \in Pids \ BasePids, Live(r), r # p
        PROVE  /\ parent[r] \in Pids
               /\ parentEsp[r] = parent[r]
               /\ running'[parent[r]]
               /\ ~Building(parent[r])
               /\ \A u \in Terminals : isOn[u] => Top(u)' # parent[r]
               /\ \A s \in Pids \ BasePids : s # r /\ Live(s) => parent[s] # parent[r]
    BY <2>1, <1>1, <1>3 DEF IInv, ParentInv
  <2>2. QED
    BY <2>1 DEF ParentInv
<1>5. FrameInv'
  <2>1. ASSUME NEW r \in Pids \ BasePids, Live(r), r # p
        PROVE  /\ kframe'[parent[r]] = kframe[parent[r]]
               /\ kframe'[r] = kframe[r]
    BY <2>1, <1>3, SetFacts
  <2>2. ASSUME NEW r \in Pids \ BasePids, Live(r), r # p
        PROVE  /\ \A u \in Terminals : isOn[u] /\ Top(u)' = r => kframe[parent[r]].term = u
               /\ (\A u \in Terminals : isOn[u] => Top(u)' # r)
                    => kframe[parent[r]].term = kframe[r].term
    BY <2>2, <1>1 DEF IInv, FrameInv
  <2>3. QED
    BY <2>1, <2>2 DEF IInv, FrameInv
<1>6. NoSlotLeaked'
  <2>1. ASSUME NEW r \in Pids, running[r], r # p
        PROVE  \/ Building(r)
               \/ \E u \in Terminals : isOn[u] /\ Top(u)' = r
               \/ \E c \in Pids : Live(c) /\ c # p /\ parent[c] = r
    BY <2>1 DEF IInv, NoSlotLeaked
  <2>2. QED
    BY <2>1 DEF NoSlotLeaked
<1>7. QED
  BY <1>2, <1>4, <1>5, <1>6

\* The steps of halt.
LEMMA HaltKeeps ==
  ASSUME IInv, BaseInv', NEW t \in Terminals,
         \/ FreeSlot(t) \/ ReadParent(t) \/ WriteStatus(t) \/ SetParentPid(t)
         \/ MapParentPage(t) \/ SetParentTss(t) \/ RestoreParent(t)
  PROVE  IInv' /\ (Quiet \/ Returns(t))
<1> USE DEF TypeOK, At, Goto, mem, sched, cpu, locals
<1>1. TypeOK /\ TypeOK' /\ BootInv /\ BootInv'
  BY DEF IInv, BaseInv
<1>2. /\ t = current /\ pc[t] \in HaltPc
  BY DEF FreeSlot, ReadParent, WriteStatus, SetParentPid, MapParentPage, SetParentTss,
         RestoreParent, HaltPc
<1>3. /\ isOn[t] /\ stk[t] = Top(t) /\ Top(t) \in Pids \ BasePids
      /\ Live(Top(t)) /\ parent[Top(t)] \in Pids
      /\ \A u \in Terminals : pc[u] \notin ExecPc
  BY <1>2, InHalt
<1>4. CASE FreeSlot(t)
  <2>1. /\ pc[t] = "free" /\ pc' = [pc EXCEPT ![t] = "parent"]
        /\ running' = [running EXCEPT ![stk[t]] = FALSE]
        /\ UNCHANGED <<parent, parentEsp, status, umem, kframe, sched, cpu, stk, ctx, locals>>
    BY <1>4 DEF FreeSlot
  <2>2. \A u \in Terminals : Top(u)' = Top(u)
    BY <1>1, <2>1 DEF Top
  <2>3. \A p \in Pids : ~Building(p) /\ ~Building(p)'
    BY <1>1, <1>3, <2>1 DEF Building, ExecPc
  <2>4. \A p \in Pids : Live(p)' = Live(p)
    BY <1>1, <1>3, <2>1, <2>3 DEF Live, HaltPc
  <2>5. SerialInv' /\ NeverWild' /\ SlotsExclusive'
    BY <1>1, <2>1, <2>2 DEF IInv, SerialInv, NeverWild, SlotsExclusive, ExecPc, HaltPc
  <2>6. TopInv'
    BY <1>1, <1>3, <2>1, <2>2 DEF IInv, TopInv, SlotsExclusive, HaltPc
  <2>7. ContextInv'
    BY <1>1, <2>1, <2>2 DEF IInv, ContextInv, OwnContext
  <2>8. TermPidInv' /\ CpuInv'
    BY <1>1, <2>1, <2>2 DEF IInv, TermPidInv, CpuInv, Built, ExecPc, HaltPc
  <2>9. BuildInv' /\ ShellInv' /\ StatusInv'
    BY <1>1, <1>3, <2>1 DEF IInv, BuildInv, ShellInv, StatusInv, Built, ExecPc
  <2>10. ParentInv'
    BY <1>1, <1>3, <2>1, <2>2, <2>3, <2>4 DEF IInv, ParentInv
  <2>11. FrameInv' /\ NoSlotLeaked'
    BY <1>1, <1>3, <2>1, <2>2, <2>3, <2>4 DEF IInv, FrameInv, NoSlotLeaked
  <2>12. Quiet
    BY <2>1, <2>2, <2>4 DEF Quiet
  <2>13. QED
    BY <2>12, <1>1, <2>5, <2>6, <2>7, <2>8, <2>9, <2>10, <2>11 DEF IInv
<1>5. CASE ReadParent(t)
  <2>1. /\ pc[t] = "parent" /\ pc' = [pc EXCEPT ![t] = "status"]
        /\ parentid' = [parentid EXCEPT ![t] = parent[stk[t]]]
        /\ UNCHANGED <<mem, sched, cpu, stk, ctx, cmd, idx, code, ret>>
    BY <1>5 DEF ReadParent
  <2>2. /\ Quiet /\ \A u \in Terminals : Top(u)' = Top(u)
        /\ SerialInv' /\ NeverWild' /\ SlotsExclusive' /\ TopInv' /\ ContextInv'
        /\ ShellInv' /\ ParentInv' /\ FrameInv' /\ NoSlotLeaked'
    BY <2>1, InnerStep DEF HaltPc
  <2>3. TermPidInv' /\ CpuInv'
    BY <1>1, <2>1, <2>2 DEF IInv, TermPidInv, CpuInv, Built, ExecPc, HaltPc
  <2>4. BuildInv' /\ StatusInv'
    BY <1>1, <1>3, <2>1 DEF IInv, BuildInv, StatusInv, Built, ExecPc
  <2>5. QED
    BY <1>1, <2>2, <2>3, <2>4 DEF IInv
<1>6. CASE WriteStatus(t)
  <2>1. /\ pc[t] = "status" /\ pc' = [pc EXCEPT ![t] = "hsetpid"]
        /\ status' = [status EXCEPT ![parent[stk[t]]] = code[t]]
        /\ UNCHANGED <<running, parent, parentEsp, umem, kframe, sched, cpu, stk, ctx, locals>>
    BY <1>6 DEF WriteStatus
  <2>2. /\ Quiet /\ \A u \in Terminals : Top(u)' = Top(u)
        /\ SerialInv' /\ NeverWild' /\ SlotsExclusive' /\ TopInv' /\ ContextInv'
        /\ ShellInv' /\ ParentInv' /\ FrameInv' /\ NoSlotLeaked'
    BY <2>1, InnerStep DEF HaltPc
  <2>3. TermPidInv' /\ CpuInv'
    BY <1>1, <2>1, <2>2 DEF IInv, TermPidInv, CpuInv, Built, ExecPc, HaltPc
  <2>4. BuildInv'
    BY <1>1, <1>3, <2>1 DEF IInv, BuildInv, Built, ExecPc
  <2>5. \A u \in Terminals : u # t /\ pc[u] \in HaltPc => parent[stk[u]] # parent[stk[t]]
    BY <1>3, InHalt DEF IInv, ParentInv, SlotsExclusive
  <2>6. StatusInv'
    BY <1>1, <1>3, <2>1, <2>5, SetFacts DEF IInv, StatusInv, HaltPc
  <2>7. QED
    BY <1>1, <2>2, <2>3, <2>4, <2>6 DEF IInv
<1>7. CASE SetParentPid(t)
  <2>1. /\ pc[t] = "hsetpid" /\ pc' = [pc EXCEPT ![t] = "hmap"]
        /\ termPid' = [termPid EXCEPT ![t] = parentid[t]]
        /\ UNCHANGED <<mem, isOn, current, cpu, stk, ctx, locals>>
    BY <1>2, <1>7 DEF SetParentPid
  <2>2. /\ Quiet /\ \A u \in Terminals : Top(u)' = Top(u)
        /\ SerialInv' /\ NeverWild' /\ SlotsExclusive' /\ TopInv' /\ ContextInv'
        /\ ShellInv' /\ ParentInv' /\ FrameInv' /\ NoSlotLeaked'
    BY <2>1, InnerStep DEF HaltPc
  <2>3. TermPidInv' /\ CpuInv'
    BY <1>1, <1>2, <2>1, <2>2 DEF IInv, TermPidInv, CpuInv, Built, ExecPc, HaltPc
  <2>4. BuildInv' /\ StatusInv'
    BY <1>1, <1>3, <2>1 DEF IInv, BuildInv, StatusInv, Built, ExecPc
  <2>5. QED
    BY <1>1, <2>2, <2>3, <2>4 DEF IInv
<1>8. CASE MapParentPage(t)
  <2>1. /\ pc[t] = "hmap" /\ pc' = [pc EXCEPT ![t] = "htss"]
        /\ userPage' = PageOf(parentid[t])
        /\ UNCHANGED <<mem, sched, esp0, stk, ctx, locals>>
    BY <1>8 DEF MapParentPage
  <2>2. /\ Quiet /\ \A u \in Terminals : Top(u)' = Top(u)
        /\ SerialInv' /\ NeverWild' /\ SlotsExclusive' /\ TopInv' /\ ContextInv'
        /\ ShellInv' /\ ParentInv' /\ FrameInv' /\ NoSlotLeaked'
    BY <2>1, InnerStep DEF HaltPc
  <2>3. PageOf(parentid[t]) = termPid[t]
    BY <1>3, <2>1 DEF IInv, TermPidInv, PageOf, HaltPc
  <2>4. TermPidInv' /\ CpuInv'
    BY <1>1, <1>2, <2>1, <2>2, <2>3 DEF IInv, TermPidInv, CpuInv, Built, ExecPc, HaltPc
  <2>5. BuildInv' /\ StatusInv'
    BY <1>1, <1>3, <2>1 DEF IInv, BuildInv, StatusInv, Built, ExecPc
  <2>6. QED
    BY <1>1, <2>2, <2>4, <2>5 DEF IInv
<1>9. CASE SetParentTss(t)
  <2>1. /\ pc[t] = "htss" /\ pc' = [pc EXCEPT ![t] = "restore"]
        /\ esp0' = parentid[t]
        /\ UNCHANGED <<mem, sched, userPage, stk, ctx, locals>>
    BY <1>9 DEF SetParentTss
  <2>2. /\ Quiet /\ \A u \in Terminals : Top(u)' = Top(u)
        /\ SerialInv' /\ NeverWild' /\ SlotsExclusive' /\ TopInv' /\ ContextInv'
        /\ ShellInv' /\ ParentInv' /\ FrameInv' /\ NoSlotLeaked'
    BY <2>1, InnerStep DEF HaltPc
  <2>3. parentid[t] = termPid[t]
    BY <1>3, <2>1 DEF IInv, TermPidInv
  <2>4. TermPidInv' /\ CpuInv'
    BY <1>1, <1>2, <2>1, <2>2, <2>3 DEF IInv, TermPidInv, CpuInv, Built, ExecPc, HaltPc
  <2>5. BuildInv' /\ StatusInv'
    BY <1>1, <1>3, <2>1 DEF IInv, BuildInv, StatusInv, Built, ExecPc
  <2>6. QED
    BY <1>1, <2>2, <2>4, <2>5 DEF IInv
<1>10. CASE RestoreParent(t)
  <2> DEFINE p == stk[t]
             q == parent[p]
  <2>1. /\ p = Top(t) /\ ~running[p] /\ termPid[t] = q /\ userPage = q /\ esp0 = q
        /\ pc[t] = "restore"
    BY <1>1, <1>2, <1>3, <1>10
    DEF RestoreParent, IInv, TopInv, TermPidInv, CpuInv, HaltPc
  <2>2. /\ q \in Pids /\ running[q] /\ ~Building(q) /\ q # p
        /\ parentEsp[p] = q
        /\ kframe[q] = [term |-> t, pid |-> q, prog |-> umem[q]]
        /\ q \in BasePids => q = BasePid(t)
        /\ \A u \in Terminals : isOn[u] => Top(u) # q
    BY <1>3, <2>1, ParentWaits
  <2>3. /\ pc' = [pc EXCEPT ![t] = "user"]
        /\ stk' = [stk EXCEPT ![t] = q]
        /\ ctx' = [ctx EXCEPT ![t] = [term |-> t, pid |-> q, prog |-> umem[q]]]
        /\ UNCHANGED <<mem, sched, cpu, cmd, idx, parentid, code>>
    BY <1>10, <2>2 DEF RestoreParent, ReturnOnto
  <2> HIDE DEF p, q
  <2>4. Top(t)' = q /\ \A u \in Terminals : u # t => Top(u)' = Top(u)
    BY <1>1, <2>3 DEF Top
  <2>5. \A r \in Pids : ~Building(r) /\ ~Building(r)'
    BY <1>1, <1>3, <2>3 DEF Building, ExecPc
  <2>6. \A r \in Pids : Live(r)' <=> Live(r) /\ r # p
    <3>1. \A u \in Terminals : u # t /\ pc[u] \in HaltPc => stk[u] # p
      BY <1>3, <2>1, InHalt DEF IInv, SlotsExclusive
    <3>2. QED
      BY <1>1, <2>1, <2>3, <2>5, <3>1 DEF Live, HaltPc, p
  <2>7. SlotsExclusive' /\ ShellInv' /\ ParentInv' /\ FrameInv' /\ NoSlotLeaked'
    <3>1. /\ p = Top(t) /\ p \in Pids \ BasePids /\ Live(p) /\ q = parent[p]
          /\ \A r \in Pids : Building(r)' <=> Building(r)
          /\ \A r \in Pids : running'[r] <=> running[r] /\ r # p
          /\ \A r \in Stacks : r # p => kframe'[r] = kframe[r]
      BY <1>1, <1>3, <2>1, <2>3, <2>5 DEF q
    <3>2. UNCHANGED <<parent, parentEsp, umem, isOn>>
      BY <2>3
    <3>3. QED
      BY <1>3, <2>4, <2>6, <3>1, <3>2, Returned
  <2>8. SerialInv' /\ NeverWild'
    BY <1>1, <2>3 DEF IInv, SerialInv, NeverWild, ExecPc, HaltPc
  <2>9. TopInv'
    BY <1>1, <2>2, <2>3, <2>4 DEF IInv, TopInv, HaltPc
  <2>10. ContextInv'
    BY <1>1, <1>2, <2>3, <2>4 DEF IInv, ContextInv, OwnContext
  <2>11. TermPidInv' /\ CpuInv'
    BY <1>1, <1>2, <2>1, <2>3, <2>4 DEF IInv, TermPidInv, CpuInv, Built, ExecPc, HaltPc
  <2>12. BuildInv' /\ StatusInv'
    BY <1>1, <1>3, <2>3 DEF IInv, BuildInv, StatusInv, Built, ExecPc
  <2>13. Returns(t)
    BY <1>3, <2>1, <2>2, <2>3, <2>4, <2>6 DEF Returns, q
  <2>14. QED
    BY <2>13, <1>1, <2>7, <2>8, <2>9, <2>10, <2>11, <2>12 DEF IInv
<1>11. QED
  BY <1>4, <1>5, <1>6, <1>7, <1>8, <1>9, <1>10

\* What user code does.
LEMMA UserKeeps ==
  ASSUME Overlap = {}, IInv, BaseInv', NEW t \in Terminals, UserStep(t)
  PROVE  IInv' /\ (Quiet \/ Returns(t))
<1> USE DEF TypeOK, At, Goto, EnterKernel, mem, sched, cpu, locals
<1>1. TypeOK /\ TypeOK' /\ BootInv /\ BootInv'
  BY DEF IInv, BaseInv
<1>2. t = current /\ pc[t] = "user"
  BY DEF UserStep, ExecuteFails, Execute, Halt, HaltBase, PageFault
<1>3. /\ isOn[t] /\ Top(t) \in Pids /\ ctx[t].pid = Top(t)
      /\ running[Top(t)] /\ Live(Top(t)) /\ ~Building(Top(t))
      /\ termPid[t] = Top(t) /\ userPage = Top(t) /\ esp0 = Top(t)
      /\ ctx[t] = OwnContext(t)
  BY <1>2, InUser
<1>4. ASSUME NEW l \in {"user", "scan", "free"},
             pc' = [pc EXCEPT ![t] = l],
             l = "scan" => \A u \in Terminals \ {t} : pc[u] \notin ExecPc \cup HaltPc,
             l = "free" => Top(t) \notin BasePids /\ \A u \in Terminals \ {t} : pc[u] \notin ExecPc,
             stk' = [stk EXCEPT ![t] = esp0],
             kframe' = [kframe EXCEPT ![esp0] = ctx[t]],
             \A u \in Terminals \ {t} : /\ idx'[u] = idx[u] /\ cmd'[u] = cmd[u]
                                        /\ code'[u] = code[u] /\ parentid'[u] = parentid[u],
             \A r \in Pids \ BasePids : parentEsp'[r] = parentEsp[r],
             UNCHANGED <<running, parent, status, umem, sched, cpu, ctx>>
      PROVE  IInv' /\ Quiet
  <2>1. \A u \in Terminals : Top(u)' = Top(u)
    BY <1>1, <1>2, <1>3, <1>4 DEF Top
  <2>2. \A p \in Pids : Building(p)' = Building(p)
    BY <1>1, <1>2, <1>4 DEF Building, ExecPc
  <2>3. \A p \in Pids : Live(p)' = Live(p)
    BY <1>1, <1>2, <1>3, <1>4, <2>2 DEF Live, HaltPc
  <2>4. \A r \in Pids : r # Top(t) => kframe'[r] = kframe[r]
    BY <1>1, <1>3, <1>4, SetFacts
  <2>5. kframe'[Top(t)] = OwnContext(t) /\ stk'[t] = Top(t)
    BY <1>1, <1>3, <1>4, SetFacts
  <2>6. SerialInv' /\ NeverWild' /\ SlotsExclusive' /\ TopInv'
    BY <1>1, <1>2, <1>4, <2>1
    DEF IInv, SerialInv, NeverWild, SlotsExclusive, TopInv, ExecPc, HaltPc
  <2>7. ContextInv'
    <3>1. ASSUME NEW u \in Terminals, isOn[u], u # t
          PROVE  Top(u) \in Pids /\ kframe'[Top(u)] = kframe[Top(u)] /\ stk'[u] = stk[u]
      BY <1>1, <1>3, <1>4, <2>4, <3>1 DEF IInv, SlotsExclusive, TopInv
    <3>2. QED
      BY <1>1, <1>2, <1>3, <1>4, <2>1, <2>5, <3>1 DEF IInv, ContextInv, OwnContext
  <2>8. TermPidInv' /\ CpuInv'
    BY <1>1, <1>2, <1>3, <1>4, <2>1 DEF IInv, TermPidInv, CpuInv, Built, ExecPc, HaltPc
  <2>9. BuildInv' /\ ShellInv' /\ StatusInv'
    BY <1>1, <1>2, <1>4, <2>1 DEF IInv, BuildInv, ShellInv, StatusInv, Built, ExecPc
  <2>10. ParentInv'
    BY <1>1, <1>4, <2>1, <2>2, <2>3 DEF IInv, ParentInv
  <2>11. FrameInv'
    <3>1. ASSUME NEW p \in Pids \ BasePids, Live(p)
          PROVE  /\ kframe'[parent[p]] = kframe[parent[p]]
                 /\ p # Top(t) => kframe'[p] = kframe[p]
      BY <1>3, <2>4, <3>1 DEF IInv, ParentInv
    <3>2. QED
      BY <1>1, <1>3, <1>4, <2>1, <2>3, <3>1 DEF IInv, FrameInv
  <2>12. NoSlotLeaked'
    BY <1>1, <1>4, <2>1, <2>2, <2>3 DEF IInv, NoSlotLeaked
  <2>13. Quiet
    BY <1>1, <1>4, <2>1, <2>3 DEF Quiet
  <2>14. QED
    BY <2>13, <1>1, <2>6, <2>7, <2>8, <2>9, <2>10, <2>11, <2>12 DEF IInv
<1>5. CASE ExecuteFails(t)
  <2>1. pc' = [pc EXCEPT ![t] = "user"]
    BY <1>1, <1>2, <1>5 DEF ExecuteFails
  <2>2. QED
    BY <1>4, <1>5, <2>1 DEF ExecuteFails
<1>6. ASSUME NEW prog \in Programs, Execute(t, prog) PROVE IInv' /\ Quiet
  <2>1. /\ \A u \in Terminals \ {t} : pc[u] \notin ExecPc \cup HaltPc
        /\ \A u \in Terminals \ {t} : idx'[u] = idx[u] /\ cmd'[u] = cmd[u]
    BY <1>1, <1>6 DEF Execute, MayExecute
  <2>2. QED
    BY <1>4, <1>6, <2>1 DEF Execute
<1>7. ASSUME NEW s \in Statuses, Halt(t, s) PROVE IInv' /\ Quiet
  <2>1. /\ \A u \in Terminals \ {t} : pc[u] \notin ExecPc
        /\ \A u \in Terminals \ {t} : code'[u] = code[u]
        /\ Top(t) \notin BasePids
    BY <1>1, <1>3, <1>7 DEF Halt, MayHalt
  <2>2. QED
    BY <1>4, <1>7, <2>1 DEF Halt
<1>8. CASE HaltBase(t)
  <2> DEFINE p == Top(t)
  <2>1. p \in BasePids /\ LowestFree([running EXCEPT ![p] = FALSE]) = p
    BY <1>3, <1>8, ReplacedInPlace DEF HaltBase, IInv, BaseInv
  <2>2. umem[p] = Shell /\ parent[p] = 0 /\ ParentOn(p, p) = 0
    BY <2>1 DEF IInv, ShellInv, ParentOn
  <2>3. /\ pc' = [pc EXCEPT ![t] = "user"]
        /\ stk' = [stk EXCEPT ![t] = p]
        /\ kframe' = [kframe EXCEPT ![p] = ctx[t]]
        /\ ctx' = [ctx EXCEPT ![t] = [term |-> t, pid |-> p, prog |-> Shell]]
        /\ running' = [[running EXCEPT ![p] = FALSE] EXCEPT ![p] = TRUE]
        /\ termPid' = [termPid EXCEPT ![t] = p]
        /\ userPage' = p /\ esp0' = p
        /\ umem' = [umem EXCEPT ![p] = Shell]
        /\ parent' = [parent EXCEPT ![p] = ParentOn(p, p)]
        /\ parentEsp' = [parentEsp EXCEPT ![p] = p]
        /\ UNCHANGED <<status, isOn, current, locals>>
    BY <1>3, <1>8, <2>1 DEF HaltBase, ExecShell
  <2>4. /\ pc' = pc /\ ctx' = ctx /\ running' = running /\ termPid' = termPid
        /\ umem' = umem /\ parent' = parent /\ userPage' = userPage /\ esp0' = esp0
    <3>1. ctx' = ctx
      BY <1>1, <1>3, <2>2, <2>3 DEF OwnContext
    <3>2. QED
      BY <1>1, <1>2, <1>3, <2>2, <2>3, <3>1
  <2>5. \A r \in Pids \ BasePids : parentEsp'[r] = parentEsp[r]
    BY <1>1, <2>1, <2>3
  <2>6. QED
    BY <1>3, <1>4, <2>3, <2>4, <2>5
<1>9. CASE PageFault(t)
  <2> DEFINE p == Top(t)
             q == parent[p]
  <2>1. p \in Pids \ BasePids
    BY <1>3, <1>9 DEF PageFault
  <2>2. /\ q \in Pids /\ running[q] /\ ~Building(q) /\ q # p
        /\ parentEsp[p] = q
        /\ kframe[q] = [term |-> t, pid |-> q, prog |-> umem[q]]
        /\ q \in BasePids => q = BasePid(t)
        /\ \A u \in Terminals : isOn[u] => Top(u) # q
        /\ \A r \in Pids \ BasePids : r # p /\ Live(r) => parent[r] # q
    BY <1>3, <2>1, ParentWaits
  <2>3. /\ kframe' = [kframe EXCEPT ![p] = ctx[t]]
        /\ running' = [running EXCEPT ![p] = FALSE]
        /\ parentid' = [parentid EXCEPT ![t] = q]
        /\ status' = [status EXCEPT ![q] = Fault]
        /\ termPid' = [termPid EXCEPT ![t] = q]
        /\ userPage' = q /\ esp0' = q
        /\ ReturnOnto(t, p, q)
        /\ UNCHANGED <<parent, parentEsp, umem, isOn, current, cmd, idx, code>>
    BY <1>3, <1>9, <2>2 DEF PageFault, PageOf
  <2>4. /\ \A r \in Stacks : r # p => kframe'[r] = kframe[r]
        /\ \A r \in Pids : running'[r] <=> running[r] /\ r # p
    BY <1>1, <2>3
  <2>5. kframe'[q] = [term |-> t, pid |-> q, prog |-> umem[q]]
    BY <2>2, <2>4, SetFacts
  <2>6. /\ pc' = [pc EXCEPT ![t] = "user"]
        /\ stk' = [stk EXCEPT ![t] = q]
        /\ ctx' = [ctx EXCEPT ![t] = [term |-> t, pid |-> q, prog |-> umem[q]]]
    BY <2>3, <2>5 DEF ReturnOnto
  <2> HIDE DEF p, q
  <2>7. Top(t)' = q /\ \A u \in Terminals : u # t => Top(u)' = Top(u)
    BY <1>1, <2>6 DEF Top
  <2>8. \A r \in Pids : Building(r)' <=> Building(r)
    BY <1>1, <1>2, <2>3, <2>6 DEF Building, ExecPc
  <2>9. \A r \in Pids : Live(r)' <=> Live(r) /\ r # p
    <3>1. \A u \in Terminals : u # t /\ pc[u] \in HaltPc => stk[u] # p
      BY <1>3, InHalt DEF IInv, SlotsExclusive, p
    <3>2. QED
      BY <1>1, <1>2, <2>3, <2>4, <2>6, <2>8, <3>1 DEF Live, HaltPc
  <2>10. SlotsExclusive' /\ ShellInv' /\ ParentInv' /\ FrameInv' /\ NoSlotLeaked'
    <3>1. p = Top(t) /\ Live(p) /\ q = parent[p]
      BY <1>3 DEF p, q
    <3>2. UNCHANGED <<parent, parentEsp, umem, isOn>>
      BY <2>3
    <3>3. QED
      BY <1>3, <2>1, <2>4, <2>7, <2>8, <2>9, <3>1, <3>2, Returned
  <2>11. SerialInv' /\ NeverWild'
    BY <1>1, <1>2, <2>6 DEF IInv, SerialInv, NeverWild, ExecPc, HaltPc
  <2>12. TopInv'
    <3>1. \A u \in Terminals : isOn[u] /\ u # t => Top(u) # p
      BY <1>3 DEF IInv, SlotsExclusive, p
    <3>2. QED
      BY <1>1, <2>2, <2>3, <2>4, <2>6, <2>7, <3>1 DEF IInv, TopInv, HaltPc
  <2>13. ContextInv'
    <3>1. ASSUME NEW u \in Terminals, isOn[u], u # t
          PROVE  kframe'[Top(u)] = kframe[Top(u)] /\ stk'[u] = stk[u]
      BY <1>1, <1>3, <2>4, <2>6, <3>1, SetFacts DEF IInv, SlotsExclusive, TopInv, p
    <3>2. QED
      BY <1>1, <1>2, <2>3, <2>6, <2>7, <3>1 DEF IInv, ContextInv, OwnContext
  <2>14. TermPidInv' /\ CpuInv'
    BY <1>1, <1>2, <2>3, <2>6, <2>7 DEF IInv, TermPidInv, CpuInv, Built, ExecPc, HaltPc
  <2>15. BuildInv'
    <3>1. \A u \in Terminals : pc[u] \in Built => idx[u] # p /\ idx[u] # q
      BY <1>3, <2>2, InExecute DEF p
    <3>2. \A u \in Terminals : pc[u] \in Built \cup {"claim"} => idx[u] \in Pids
      BY <1>1 DEF BootInv, Built, ExecPc
    <3>3. QED
      BY <1>1, <1>2, <2>3, <2>4, <2>6, <2>7, <3>1, <3>2 DEF IInv, BuildInv, Built, ExecPc
  <2>16. StatusInv'
    <3>1. \A u \in Terminals : u # t /\ pc[u] \in HaltPc =>
            stk[u] \in Pids /\ parent[stk[u]] \in Stacks /\ parent[stk[u]] # q
      BY <1>3, <2>2, InHalt, SetFacts DEF IInv, SlotsExclusive, p
    <3>2. QED
      BY <1>1, <1>2, <2>3, <2>6, <3>1 DEF IInv, StatusInv, HaltPc
  <2>17. Returns(t)
    BY <1>3, <2>1, <2>2, <2>3, <2>7, <2>9 DEF Returns, p, q
  <2>18. QED
    BY <2>17, <1>1, <2>10, <2>11, <2>12, <2>13, <2>14, <2>15, <2>16 DEF IInv
<1>10. QED
  BY <1>5, <1>6, <1>7, <1>8, <1>9 DEF UserStep

\* The PIT: the thread that leaves the CPU finds its context again on its own
\* kernel stack, the one that gets it has its page mapped and its stack in the TSS.
LEMMA TickKeeps ==
  ASSUME IInv, BaseInv', Tick
  PROVE  IInv' /\ (Quiet \/ \E t \in Terminals : Starts(t))
<1> USE DEF TypeOK, Goto, locals
<1>1. TypeOK /\ TypeOK' /\ BootInv /\ BootInv'
  BY DEF IInv, BaseInv
<1>2. PICK c \in Terminals, n \in Terminals : c = current /\ n = (current + 1) % NumTerm
  BY <1>1, NextTerminal
<1> DEFINE kf == IF pc[c] = "user" THEN [kframe EXCEPT ![esp0] = ctx[c]] ELSE kframe
           st == IF pc[c] = "user" THEN [stk EXCEPT ![c] = esp0] ELSE stk
<1>3. current' = n /\ kframe' = kf /\ stk' = st
  BY <1>2 DEF Tick
<1>4. CASE isOn[n]
  <2>1. Booted
    <3>1. SUFFICES ASSUME ~Booted PROVE FALSE
      OBVIOUS
    <3>2. n <= current /\ current # NumTerm-1
      BY <1>1, <1>2, <1>4, <3>1 DEF BootInv
    <3>3. QED
      BY <1>2, <3>2, NextTerminal, SizeAssumption DEF Terminals
  <2>2. isOn[c] /\ Top(c) \in Pids
    BY <1>2, <2>1 DEF Booted, IInv, TopInv
  <2>3. pc[c] = "user" => esp0 = Top(c) /\ ctx[c] = OwnContext(c)
    BY <1>2, InUser DEF At
  <2>4. /\ \A r \in Pids : r # Top(c) => kf[r] = kframe[r]
        /\ kf[Top(c)] = OwnContext(c) /\ st[c] = Top(c)
        /\ \A u \in Terminals : u # c => st[u] = stk[u]
    <3>1. CASE pc[c] = "user"
      BY <1>1, <1>2, <2>2, <2>3, <3>1, SetFacts
    <3>2. CASE pc[c] # "user"
      BY <1>2, <2>2, <3>2 DEF IInv, ContextInv
    <3>3. QED
      BY <3>1, <3>2
  <2> HIDE DEF kf, st
  <2>5. \A u \in Terminals : isOn[u] => kf[Top(u)] = OwnContext(u) /\ st[u] = Top(u)
    BY <1>2, <2>2, <2>4 DEF IInv, ContextInv, TopInv, SlotsExclusive
  <2>6. kf[st[n]] = OwnContext(n)
    BY <1>2, <1>4, <2>5
  <2>7. kf[st[n]].term = n
    BY <2>6 DEF OwnContext
  <2>8. /\ userPage' = PageOf(termPid[n]) /\ esp0' = termPid[n]
        /\ ctx' = [ctx EXCEPT ![n] = IF pc[n] = "user" THEN kf[st[n]] ELSE @]
        /\ UNCHANGED <<pc, running, parent, parentEsp, status, umem, termPid, isOn, locals>>
    BY <1>2, <1>4, <2>7 DEF Tick, kf, st
  <2>9. \A u \in Terminals : isOn[u] /\ pc[u] \in {"user", "scan"} => ctx'[u] = OwnContext(u)
    BY <1>1, <1>2, <2>6, <2>8 DEF IInv, ContextInv
  <2>10. \A u \in Terminals : isOn[u] => Top(u)' = Top(u)
    <3>1. \A u \in Terminals : OwnContext(u).pid = Top(u)
      BY DEF OwnContext
    <3>2. \A u \in Terminals : Top(u)' = IF pc[u] = "user" THEN ctx'[u].pid ELSE stk'[u]
      BY <2>8 DEF Top
    <3>3. QED
      BY <1>3, <2>5, <2>9, <3>1, <3>2
  <2>11. \A p \in Pids : Building(p)' = Building(p)
    BY <2>8 DEF Building
  <2>12. \A p \in Pids : Live(p)' = Live(p)
    <3>1. \A u \in Terminals : pc[u] \in HaltPc => stk'[u] = stk[u]
      BY <1>3, <2>5, InHalt
    <3>2. QED
      BY <2>8, <2>11, <3>1 DEF Live
  <2>13. SerialInv' /\ NeverWild' /\ SlotsExclusive' /\ TopInv'
    BY <1>1, <2>8, <2>10 DEF IInv, SerialInv, NeverWild, SlotsExclusive, TopInv
  <2>14. ContextInv'
    BY <1>3, <2>5, <2>8, <2>9, <2>10 DEF ContextInv, OwnContext
  <2>15. TermPidInv'
    <3>1. \A u \in Terminals : pc[u] \in HaltPc => stk'[u] = stk[u]
      BY <1>3, <2>5, InHalt
    <3>2. QED
      BY <1>1, <2>8, <2>10, <3>1 DEF IInv, TermPidInv
  <2>16. CpuInv'
    <3>1. termPid[n] \in Pids
      <4>1. Top(n) \in Pids
        BY <1>2, <1>4 DEF IInv, TopInv
      <4>2. CASE pc[n] \in HaltPc
        BY <1>2, <1>4, <4>1, <4>2, InHalt DEF IInv, TermPidInv, HaltPc
      <4>3. CASE pc[n] \in Built
        BY <1>2, <1>4, <4>1, <4>3, InExecute DEF IInv, TermPidInv, Built, ExecPc
      <4>4. CASE pc[n] \in {"user", "scan", "claim"}
        BY <1>2, <1>4, <4>1, <4>4 DEF IInv, TermPidInv
      <4>5. QED
        BY <1>1, <1>2, <1>4, <4>2, <4>3, <4>4 DEF IInv, BootInv, NeverWild, Built, ExecPc
    <3>2. QED
      BY <1>3, <2>8, <3>1 DEF CpuInv, PageOf
  <2>17. BuildInv' /\ ShellInv' /\ StatusInv'
    <3>1. \A u \in Terminals : pc[u] \in HaltPc \cup Built => stk'[u] = stk[u]
      BY <1>3, <2>5, InHalt, InExecute
    <3>2. QED
      BY <1>1, <2>8, <2>10, <3>1 DEF IInv, BuildInv, ShellInv, StatusInv, Built, ExecPc, HaltPc
  <2>18. ParentInv' /\ NoSlotLeaked'
    BY <1>1, <2>8, <2>10, <2>11, <2>12 DEF IInv, ParentInv, NoSlotLeaked
  <2>19. FrameInv'
    <3>1. ASSUME NEW p \in Pids \ BasePids, Live(p)
          PROVE  /\ kf[parent[p]] = kframe[parent[p]]
                 /\ p # Top(c) => kf[p] = kframe[p]
      BY <1>2, <2>2, <2>4, <3>1 DEF IInv, ParentInv
    <3>2. QED
      BY <1>2, <1>3, <2>2, <2>8, <2>10, <2>12, <3>1 DEF IInv, FrameInv
  <2>20. Quiet
    BY <2>8, <2>10, <2>12 DEF Quiet
  <2>21. QED
    BY <2>20, <1>1, <2>13, <2>14, <2>15, <2>16, <2>17, <2>18, <2>19 DEF IInv
<1>5. CASE ~isOn[n]
  <2> DEFINE p == BasePid(n)
  <2>1. /\ LowestFree(running) = p
        /\ ~Booted
        /\ \A t \in Terminals : isOn[t] <=> t < n
        /\ current = NumTerm-1 <=> n = 0
        /\ current # NumTerm-1 => n = current + 1
    BY <1>1, <1>2, <1>5, StartedInOrder DEF BaseInv
  <2>2. p \in BasePids /\ p \in Pids
    BY <1>2, SetFacts
  <2>3. /\ isOn' = [isOn EXCEPT ![n] = TRUE]
        /\ running' = [running EXCEPT ![p] = TRUE]
        /\ termPid' = [termPid EXCEPT ![n] = p]
        /\ userPage' = p /\ esp0' = p
        /\ umem' = [umem EXCEPT ![p] = Shell]
        /\ parent' = [parent EXCEPT ![p] = 0]
        /\ ctx' = [ctx EXCEPT ![n] = [term |-> n, pid |-> p, prog |-> Shell]]
        /\ pc' = [pc EXCEPT ![n] = "user"]
        /\ UNCHANGED <<status, locals>>
    BY <1>2, <1>5, <2>1, <2>2 DEF Tick, ExecShell, ParentOn
  <2> HIDE DEF p, kf, st
  <2>4. /\ \A t \in Terminals : pc[t] \in {"off", "user"} /\ pc'[t] \in {"off", "user"}
        /\ \A t \in Terminals : isOn[t] <=> pc[t] = "user"
        /\ \A r \in Pids \ BasePids : ~running'[r]
        /\ \A t \in Terminals : isOn'[t] <=> isOn[t] \/ t = n
    BY <1>1, <1>2, <2>1, <2>2, <2>3 DEF BootInv
  <2>5. Top(n)' = p /\ \A t \in Terminals : isOn[t] => Top(t)' = Top(t)
    BY <1>1, <1>2, <1>5, <2>3, <2>4 DEF Top
  <2>6. \A t \in Terminals : isOn[t] => Top(t) \in Pids /\ Top(t) # p
    BY <1>1, <1>2, <1>5, <2>2, SetFacts DEF IInv, TopInv, p
  <2>7. \A r \in Pids \ BasePids : ~Live(r)'
    BY <2>4 DEF Live, HaltPc
  <2>8. SerialInv' /\ NeverWild' /\ BuildInv' /\ StatusInv'
    BY <2>4 DEF SerialInv, NeverWild, BuildInv, StatusInv, Built, ExecPc, HaltPc
  <2>9. SlotsExclusive' /\ TopInv'
    BY <1>1, <1>2, <2>2, <2>3, <2>4, <2>5, <2>6
    DEF IInv, SlotsExclusive, TopInv, HaltPc, p
  <2>10. ContextInv'
    <3>1. ASSUME NEW t \in Terminals, isOn[t]
          PROVE  kf[Top(t)] = OwnContext(t) /\ st[t] = Top(t)
      <4>1. CASE t = c
        <5>1. esp0 = Top(c) /\ ctx[c] = OwnContext(c) /\ pc[c] = "user" /\ Top(c) \in Stacks
          BY <1>2, <2>4, <3>1, <4>1, InUser, SetFacts DEF At
        <5>2. QED
          BY <1>1, <1>2, <4>1, <5>1 DEF kf, st
      <4>2. CASE t # c
        <5>1. stk[t] = Top(t) /\ kframe[Top(t)] = OwnContext(t)
          BY <1>2, <3>1, <4>2 DEF IInv, ContextInv
        <5>2. pc[c] = "user" => esp0 = Top(c) /\ Top(c) # Top(t)
          BY <1>2, <2>4, <3>1, <4>2, InUser DEF At, IInv, SlotsExclusive
        <5>3. QED
          BY <1>1, <1>2, <2>6, <3>1, <4>2, <5>1, <5>2, SetFacts DEF kf, st
      <4>3. QED
        BY <4>1, <4>2
    <3>2. ASSUME NEW t \in Terminals, isOn[t]
          PROVE  OwnContext(t)' = OwnContext(t) /\ ctx'[t] = ctx[t] /\ ctx[t] = OwnContext(t)
      <4>1. t # n /\ pc[t] = "user"
        BY <1>5, <2>4, <3>2
      <4>2. umem'[Top(t)] = umem[Top(t)]
        BY <1>1, <2>3, <2>6, <3>2
      <4>3. QED
        BY <1>1, <2>3, <2>5, <3>2, <4>1, <4>2 DEF OwnContext, IInv, ContextInv
    <3>3. ctx'[n] = OwnContext(n)'
      BY <1>1, <1>2, <2>2, <2>3, <2>5 DEF OwnContext
    <3>4. QED
      BY <1>1, <1>2, <1>3, <2>3, <2>4, <2>5, <3>1, <3>2, <3>3 DEF ContextInv
  <2>11. TermPidInv' /\ CpuInv'
    BY <1>1, <1>2, <1>3, <1>5, <2>3, <2>4, <2>5 DEF IInv, TermPidInv, CpuInv, Built, ExecPc, HaltPc
  <2>12. ShellInv' /\ ParentInv' /\ FrameInv'
    BY <1>1, <2>2, <2>3, <2>7, SetFacts DEF IInv, ShellInv, ParentInv, FrameInv
  <2>13. NoSlotLeaked'
    <3>1. ASSUME NEW r \in Pids, running'[r] PROVE \E t \in Terminals : isOn'[t] /\ Top(t)' = r
      <4>1. PICK t \in Terminals : r = BasePid(t) /\ isOn'[t]
        BY <1>1, <2>4, <3>1, SetFacts DEF BootInv
      <4>2. CASE t = n
        BY <4>1, <4>2, <2>5 DEF p
      <4>3. CASE t # n
        <5>1. isOn[t]
          BY <4>1, <4>3, <2>4
        <5>2. running[r] /\ ~Building(r)
          BY <1>1, <4>1, <5>1, <2>4 DEF BootInv, Building, ExecPc
        <5>3. \A d \in Pids : Live(d) => parent[d] = 0
          BY <1>1, <2>1, <2>4 DEF Live, BootInv, HaltPc, IInv, ShellInv
        <5>4. PICK u \in Terminals : isOn[u] /\ Top(u) = r
          BY <3>1, <5>2, <5>3, SetFacts DEF IInv, NoSlotLeaked
        <5>5. QED
          BY <2>4, <2>5, <5>4
      <4>4. QED
        BY <4>2, <4>3
    <3>2. QED
      BY <3>1 DEF NoSlotLeaked
  <2>14. Starts(n)
    <3>1. \A r \in Pids : ~Building(r) /\ ~Building(r)'
      BY <2>4 DEF Building, ExecPc
    <3>2. \A r \in Pids : (Live(r) <=> running[r]) /\ (Live(r)' <=> running'[r])
      BY <2>4, <3>1 DEF Live, HaltPc
    <3>3. ~running[p] /\ \A r \in Pids : running'[r] <=> running[r] \/ r = p
      BY <1>1, <1>2, <1>5, <2>2, <2>3 DEF BootInv, p
    <3>4. Pushes(n, p, 0)
      BY <1>1, <1>2, <2>2, <2>3, <2>4, <2>5, <3>2, <3>3 DEF Pushes
    <3>5. QED
      BY <1>1, <1>5, <2>2, <2>3, <3>4 DEF Starts
  <2>15. QED
    BY <1>2, <2>14, <1>1, <2>8, <2>9, <2>10, <2>11, <2>12, <2>13 DEF IInv
<1>6. QED
  BY <1>4, <1>5

\* Nothing runs when the kernel enters its loop.
LEMMA SerialInit == Init => IInv
<1> SUFFICES ASSUME Init PROVE IInv
  OBVIOUS
<1>1. TypeOK /\ BootInv
  BY BaseInit DEF BaseInv
<1>2. \A t \in Terminals : pc[t] = "off" /\ ~isOn[t]
  BY DEF Init
<1>3. \A p \in Pids : ~running[p] /\ ~Live(p)
  BY <1>2 DEF Init, Live, HaltPc
<1>4. current \in Terminals /\ pc[current] = "off"
  BY <1>1, <1>2 DEF TypeOK
<1>5. SerialInv /\ NeverWild /\ SlotsExclusive /\ TopInv /\ ContextInv /\ TermPidInv
  BY <1>2 DEF SerialInv, NeverWild, SlotsExclusive, TopInv, ContextInv, TermPidInv, ExecPc
<1>6. CpuInv /\ BuildInv /\ StatusInv
  BY <1>2, <1>4 DEF CpuInv, BuildInv, StatusInv, Built, ExecPc
<1>7. ShellInv /\ ParentInv /\ FrameInv /\ NoSlotLeaked
  BY <1>3, SetFacts DEF Init, ShellInv, ParentInv, FrameInv, NoSlotLeaked
<1>8. QED
  BY <1>1, <1>5, <1>6, <1>7 DEF IInv

\* Every step preserves the invariant, and starts, calls or returns from one
\* process of one terminal, or does nothing to the processes.
LEMMA SerialNext ==
  ASSUME Overlap = {}, IInv, [Next]_vars
  PROVE  /\ IInv'
         /\ Quiet \/ \E t \in Terminals : Starts(t) \/ Calls(t) \/ Returns(t)
<1>1. BaseInv'
  BY BaseNext DEF IInv, BaseInv
<1>2. CASE Tick
  BY <1>1, <1>2, TickKeeps
<1>3. ASSUME NEW t \in Terminals, KernelStep(t)
      PROVE  IInv' /\ (Quiet \/ Calls(t) \/ Returns(t))
  BY <1>1, <1>3, ExecuteKeeps, HaltKeeps DEF KernelStep
<1>4. ASSUME NEW t \in Terminals, UserStep(t)
      PROVE  IInv' /\ (Quiet \/ Returns(t))
  BY <1>1, <1>4, UserKeeps
<1>5. CASE UNCHANGED vars
  <2> USE <1>5 DEF vars, mem, sched, cpu, locals
  <2>1. \A t \in Terminals : Top(t)' = Top(t)
    BY DEF Top
  <2>2. \A p \in Pids : Building(p)' = Building(p)
    BY DEF Building
  <2>3. \A p \in Pids : Live(p)' = Live(p)
    BY <2>2 DEF Live
  <2>4. Quiet
    BY <2>1, <2>3 DEF Quiet
  <2>5. SerialInv' /\ NeverWild' /\ SlotsExclusive' /\ TopInv'
    BY <2>1 DEF IInv, SerialInv, NeverWild, SlotsExclusive, TopInv
  <2>6. ContextInv' /\ TermPidInv' /\ CpuInv' /\ BuildInv'
    BY <2>1 DEF IInv, ContextInv, OwnContext, TermPidInv, CpuInv, BuildInv
  <2>7. ShellInv' /\ StatusInv' /\ ParentInv' /\ FrameInv' /\ NoSlotLeaked'
    BY <2>1, <2>2, <2>3
    DEF IInv, ShellInv, StatusInv, ParentInv, FrameInv, NoSlotLeaked
  <2>8. QED
    BY <1>1, <2>4, <2>5, <2>6, <2>7 DEF IInv, BaseInv
<1>6. QED
  BY <1>2, <1>3, <1>4, <1>5 DEF Next

\* The invariant, for every number of terminals and slots.
THEOREM SerialInvariant == Overlap = {} => (Spec => []IInv)
<1> SUFFICES ASSUME Overlap = {} PROVE Spec => []IInv
  OBVIOUS
<1>1. IInv /\ [Next]_vars => IInv'
  BY SerialNext
<1>2. QED
  BY <1>1, SerialInit, PTL DEF Spec

\* When no execute overlaps another execute or halt, user code always runs with
\* its own page mapped, its own kernel stack in the TSS and its own registers, in a
\* slot in use that holds its program (scheduler_next, execute, halt).
THEOREM UserCodeAgrees == Overlap = {} => (Spec => []UserAgreement)
<1>1. IInv => UserAgreement
  <2> SUFFICES ASSUME IInv, NEW t \in Terminals, At(t, "user")
               PROVE  /\ ctx[t].term = t
                      /\ ctx[t].pid = termPid[t]
                      /\ userPage = termPid[t]
                      /\ esp0 = termPid[t]
                      /\ running[termPid[t]]
                      /\ umem[termPid[t]] = ctx[t].prog
    BY DEF UserAgreement
  <2>1. /\ termPid[t] = Top(t) /\ userPage = Top(t) /\ esp0 = Top(t) /\ running[Top(t)]
        /\ ctx[t] = OwnContext(t)
    BY InUser
  <2>2. QED
    BY <2>1 DEF OwnContext
<1>2. QED
  BY <1>1, SerialInvariant, PTL

\* Under the same condition restoreparent and scheduler_next always find their own
\* thread's frames on the stack they switch to.
THEOREM StacksAreNeverWild == Overlap = {} => (Spec => []NeverWild)
<1>1. IInv => NeverWild
  BY DEF IInv
<1>2. QED
  BY <1>1, SerialInvariant, PTL

\* Under the same condition every slot in use is a process that runs, is being
\* built or waits for a child: none is leaked or orphaned.
THEOREM SlotsAreNotLeaked == Overlap = {} => (Spec => []NoSlotLeaked)
<1>1. IInv => NoSlotLeaked
  BY DEF IInv
<1>2. QED
  BY <1>1, SerialInvariant, PTL

\* Under the same condition the status given to halt is still in the parent's PCB
\* when restoreparent resumes the parent, however halts on other terminals and page
\* faults interleave.
THEOREM StatusReachesParent == Overlap = {} => (Spec => StatusInParent)
<1>1. IInv /\ [Next]_vars =>
        [\A t \in Terminals : RestoreParent(t) => status[parent[stk[t]]] = code[t]]_vars
  BY DEF IInv, StatusInv, RestoreParent, At
<1>2. QED
  BY <1>1, SerialInvariant, PTL DEF Spec, StatusInParent

(***************************************************************************)
(* Processes implements ProcessTree.                                       *)
(***************************************************************************)

\* Before the first tick no terminal has a process and every slot is free.
LEMMA TreeInit == Init => Tree!Init
<1> SUFFICES ASSUME Init PROVE Tree!Init
  OBVIOUS
<1>1. \A t \in Terminals : ~isOn[t]
  BY DEF Init
<1>2. \A p \in Pids : ~Live(p)
  BY DEF Init, Live, HaltPc
<1>3. QED
  BY <1>1, <1>2 DEF Tree!Init, Tree!Free

\* A step that starts, calls or returns is the step of that name of ProcessTree,
\* any other a stutter.
LEMMA TreeNext ==
  ASSUME IInv, Quiet \/ \E t \in Terminals : Starts(t) \/ Calls(t) \/ Returns(t)
  PROVE  [Tree!Next]_(Tree!vars)
<1> DEFINE top  == [t \in Terminals |-> IF isOn[t] THEN Top(t) ELSE 0]
           proc == [p \in Pids |-> IF Live(p) THEN [caller |-> parent[p], prog |-> umem[p]]
                                              ELSE [caller |-> 0, prog |-> "free"]]
<1>1. CASE Quiet
  <2>1. top' = top
    BY <1>1 DEF Quiet
  <2>2. proc' = proc
    BY <1>1 DEF Quiet
  <2>3. QED
    BY <2>1, <2>2 DEF Tree!vars
<1>2. ASSUME NEW t \in Terminals, NEW p \in Pids, NEW c \in Stacks, NEW prog \in Programs,
             Pushes(t, p, c), prog = umem'[p]
      PROVE  Tree!Start(t, p, c, prog) /\ top'[t] = p
  <2>1. proc[p] = [caller |-> 0, prog |-> "free"]
    BY <1>2 DEF Pushes
  <2>2. top' = [top EXCEPT ![t] = p]
    BY <1>2 DEF Pushes
  <2>3. proc' = [proc EXCEPT ![p] = [caller |-> c, prog |-> prog]]
    BY <1>2 DEF Pushes
  <2>4. QED
    BY <2>1, <2>2, <2>3 DEF Tree!Start, Tree!Free
<1>3. ASSUME NEW t \in Terminals, Starts(t) PROVE Tree!Next
  <2>1. PICK p \in Pids : Pushes(t, p, 0) /\ umem'[p] = Shell
    BY <1>3 DEF Starts
  <2>2. Tree!Start(t, p, 0, Shell) /\ top'[t] = p
    BY <1>2, <2>1, SetFacts, ProgramAssumption
  <2>3. top[t] = 0 /\ p # 0
    BY <1>3, SetFacts DEF Starts
  <2>4. QED
    BY <2>2, <2>3 DEF Tree!Next, Tree!Boot
<1>4. ASSUME NEW t \in Terminals, Calls(t) PROVE Tree!Next
  <2>1. PICK p \in Pids, prog \in Programs :
          Pushes(t, p, Top(t)) /\ p # Top(t) /\ prog = umem'[p]
    BY <1>4 DEF Calls
  <2>2. isOn[t] /\ Top(t) \in Pids /\ p # Top(t)
    BY <1>4, <2>1 DEF Calls, IInv, TopInv
  <2>3. top[t] = Top(t) /\ Top(t) # 0 /\ Top(t) \in Stacks
    BY <2>2, SetFacts
  <2>4. Tree!Start(t, p, top[t], prog) /\ top'[t] = p
    BY <1>2, <2>1, <2>3
  <2>5. QED
    BY <2>1, <2>2, <2>3, <2>4 DEF Tree!Next, Tree!Run
<1>5. ASSUME NEW t \in Terminals, Returns(t) PROVE Tree!Next
  <2> DEFINE p == Top(t)
             q == parent[p]
  <2>1. /\ p \in Pids /\ q \in Pids /\ q # p /\ q # 0 /\ p # 0
        /\ top[t] = p /\ proc[p] = [caller |-> q, prog |-> umem[p]]
    BY <1>5, SetFacts DEF Returns
  <2>2. top' = [top EXCEPT ![t] = q]
    BY <1>5 DEF Returns
  <2>3. proc' = [proc EXCEPT ![p] = [caller |-> 0, prog |-> "free"]]
    BY <1>5 DEF Returns
  <2>4. Tree!Exit(t)
    BY <2>1, <2>2, <2>3 DEF Tree!Exit, Tree!Free
  <2>5. top'[t] # top[t]
    BY <2>1, <2>2
  <2>6. QED
    BY <2>4, <2>5 DEF Tree!Next
<1>6. QED
  BY <1>1, <1>3, <1>4, <1>5

\* However the PIT interleaves the terminals, execute and halt treat each one as a
\* stack of processes: the detailed specification implements the abstract one.
THEOREM CallsAreNested == Overlap = {} => (Spec => CallsNest)
<1> SUFFICES ASSUME Overlap = {} PROVE Spec => CallsNest
  OBVIOUS
<1>1. IInv /\ [Next]_vars => [Tree!Next]_(Tree!vars)
  BY SerialNext, TreeNext
<1>2. QED
  BY <1>1, TreeInit, SerialInvariant, PTL DEF Spec, CallsNest, Tree!Spec

=============================================================================
