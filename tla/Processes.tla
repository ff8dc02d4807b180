----------------------------- MODULE Processes -----------------------------
(***************************************************************************)
(* Process life cycle of the kernel: execute, halt and the round robin     *)
(* scheduler, on one CPU, with the PIT interrupting at any instruction of  *)
(* a system call (the system call gate is a trap gate).                    *)
(*                                                                         *)
(* Each terminal is a thread.  The CPU runs the thread of terminal         *)
(* `current'; its user memory is whatever page_directory[32] maps          *)
(* (userPage) and a kernel entry from user mode lands on the kernel stack  *)
(* tss.esp0 designates (esp0).  Kernel stacks, PCBs and user pages are all *)
(* named by the process id they belong to; 0 names the boot stack.         *)
(***************************************************************************)
EXTENDS Integers

CONSTANTS
  NumTerm,    \* NUM_TERMINALS (3 in the code)
  NumPids,    \* NUMBEROFPROCESSESSUPPORTED (6 in the code)
  Programs,   \* executables of the file system
  Shell,      \* the one named "shell"
  Statuses,   \* values a program passes to halt
  Fault,      \* 'P', the status handle14 passes to halt
  Overlap     \* which of "execute", "halt" users overlap with an execute

ASSUME SizeAssumption ==
  /\ NumTerm \in Nat \ {0}
  /\ NumPids \in Nat
  /\ NumTerm <= NumPids

ASSUME ProgramAssumption ==
  /\ Shell \in Programs
  /\ Statuses \subseteq Nat
  /\ Fault \in Statuses
  /\ Overlap \subseteq {"execute", "halt"}

Terminals == 0 .. NumTerm-1
Pids      == 1 .. NumPids
Stacks    == 0 .. NumPids

\* The slots of the base shells: process_id < NUM_TERMINALS + 1.
BasePids   == 1 .. NumTerm
BasePid(t) == t + 1

(***************************************************************************)
(* A user context is what a kernel entry saves at the top of the kernel    *)
(* stack: whose thread it is, in which process, and the program its eip    *)
(* belongs to.                                                             *)
(***************************************************************************)
Contexts == [term : Terminals, pid : Stacks, prog : Programs]

ExecPc == {"scan", "claim", "setpid", "map", "load", "pcb", "tss", "switch"}
HaltPc == {"free", "parent", "status", "hsetpid", "hmap", "htss", "restore"}

VARIABLES
  running,    \* processes_running
  parent,     \* pcb.parent and pcb.parent_process_id
  parentEsp,  \* the stack pcb.parent_esp and pcb.parent_ebp point into
  status,     \* pcb.status
  termPid,    \* terminals[t].pid
  isOn,       \* is_on
  current,    \* current_term
  userPage,   \* process mapped at 128 MB
  esp0,       \* process whose kernel stack tss.esp0 points to
  umem,       \* program image in the user page of each process
  kframe,     \* user context saved at the top of each kernel stack
  pc,         \* where the thread of each terminal is
  stk,        \* kernel stack it is on; terminals[t].esp while off the CPU
  ctx,        \* its user context
  cmd,        \* execute: program being started
  idx,        \* execute: i, then current_pid
  parentid,   \* halt: parentid
  code,       \* halt: status
  ret         \* value the last execute returned to user code

mem    == <<running, parent, parentEsp, status, umem, kframe>>
sched  == <<termPid, isOn, current>>
cpu    == <<userPage, esp0>>
locals == <<cmd, idx, parentid, code, ret>>
vars   == <<mem, sched, cpu, pc, stk, ctx, locals>>

NoContext == [term |-> 0, pid |-> 0, prog |-> Shell]

\* kernel.c entry and init_global_scheduler: no process yet, the boot code
\* spins on the boot stack and counts as the last terminal.
Init ==
  /\ running = [p \in Pids |-> FALSE]
  /\ parent = [p \in Pids |-> 0]
  /\ parentEsp = [p \in Pids |-> 0]
  /\ status = [p \in Stacks |-> 0]
  /\ termPid = [t \in Terminals |-> BasePid(t)]
  /\ isOn = [t \in Terminals |-> FALSE]
  /\ current = NumTerm-1
  /\ userPage = 1
  /\ esp0 = 0
  /\ umem = [p \in Pids |-> Shell]
  /\ kframe = [s \in Stacks |-> NoContext]
  /\ pc = [t \in Terminals |-> "off"]
  /\ stk = [t \in Terminals |-> 0]
  /\ ctx = [t \in Terminals |-> NoContext]
  /\ cmd = [t \in Terminals |-> Shell]
  /\ idx = [t \in Terminals |-> 1]
  /\ parentid = [t \in Terminals |-> 0]
  /\ code = [t \in Terminals |-> Fault]
  /\ ret = [t \in Terminals |-> 0]

(***************************************************************************)
(* Helpers.                                                                *)
(***************************************************************************)
Goto(t, label) == pc' = [pc EXCEPT ![t] = label]

\* The thread of terminal t is on the CPU, at label.
At(t, label) == current = t /\ pc[t] = label

\* All base shells have been started (three PIT periods after sti; no user
\* types a command that soon).
Booted == \A t \in Terminals : isOn[t]

\* int 0x80 from user mode: the CPU loads esp from the TSS and pushes the
\* user context there.
EnterKernel(t) ==
  /\ stk' = [stk EXCEPT ![t] = esp0]
  /\ kframe' = [kframe EXCEPT ![esp0] = ctx[t]]

\* paging_change_process refuses a pid out of range.
PageOf(pid) == IF pid \in Pids THEN pid ELSE userPage

\* pcb.parent of a process created on kernel stack s: base processes get
\* NULL, the others the PCB get_pcb_address() finds below esp.
ParentOn(p, s) == IF p \in BasePids THEN 0 ELSE s

\* The first slot the scan of execute finds unused in table r.
LowestFree(r) ==
  CHOOSE p \in Pids : ~r[p] /\ \A q \in Pids : q < p => r[q]

\* execute("shell") with interrupts off, for terminal t on kernel stack s,
\* with process table r: the whole of execute in one step.
ExecShell(t, s, r) ==
  LET p == LowestFree(r) IN
  /\ running' = [r EXCEPT ![p] = TRUE]
  /\ termPid' = [termPid EXCEPT ![t] = p]
  /\ userPage' = p
  /\ umem' = [umem EXCEPT ![p] = Shell]
  /\ parent' = [parent EXCEPT ![p] = ParentOn(p, s)]
  /\ esp0' = p
  /\ parentEsp' = [parentEsp EXCEPT ![p] = s]
  /\ ctx' = [ctx EXCEPT ![t] = [term |-> t, pid |-> p, prog |-> Shell]]
  /\ Goto(t, "user")

(***************************************************************************)
(* execute.  A system call is preemptible, so each access to shared state  *)
(* is a step of its own.  Nothing in the kernel keeps two terminals from   *)
(* being inside execute and halt at once; Overlap says whether the users   *)
(* are quick enough to bring that about.                                   *)
(***************************************************************************)
MayExecute(t) ==
  /\ Booted
  /\ \A u \in Terminals \ {t} :
       /\ pc[u] \in ExecPc => "execute" \in Overlap
       /\ pc[u] \in HaltPc => "halt" \in Overlap

MayHalt(t) ==
  /\ Booted
  /\ \A u \in Terminals \ {t} : pc[u] \in ExecPc => "halt" \in Overlap

\* A command that names no executable: -1 before anything is changed.
ExecuteFails(t) ==
  /\ At(t, "user")
  /\ EnterKernel(t)
  /\ ret' = [ret EXCEPT ![t] = -1]
  /\ UNCHANGED <<running, parent, parentEsp, status, umem, sched, cpu, pc, ctx,
                 cmd, idx, parentid, code>>

Execute(t, prog) ==
  /\ At(t, "user")
  /\ MayExecute(t)
  /\ EnterKernel(t)
  /\ cmd' = [cmd EXCEPT ![t] = prog]
  /\ idx' = [idx EXCEPT ![t] = 1]
  /\ Goto(t, "scan")
  /\ UNCHANGED <<running, parent, parentEsp, status, umem, sched, cpu, ctx,
                 parentid, code, ret>>

\* Mutant: the index is not advanced.
ScanSlotStuck(t) ==
  /\ At(t, "scan")
  /\ idx[t] \in Pids
  /\ IF running[idx[t]] THEN UNCHANGED pc ELSE Goto(t, "claim")
  /\ UNCHANGED <<mem, sched, cpu, stk, ctx, locals>>

\* while(i < NUMBEROFPROCESSESSUPPORTED+1) if(processes_running[i-1]==0)
ScanSlot(t) ==
  /\ At(t, "scan")
  /\ idx[t] \in Pids
  /\ IF running[idx[t]]
       THEN idx' = [idx EXCEPT ![t] = @ + 1] /\ UNCHANGED pc
       ELSE Goto(t, "claim") /\ UNCHANGED idx
  /\ UNCHANGED <<mem, sched, cpu, stk, ctx, cmd, parentid, code, ret>>

\* Maximum number of processes reached
TableFull(t) ==
  /\ At(t, "scan")
  /\ idx[t] \notin Pids
  /\ ret' = [ret EXCEPT ![t] = -1]
  /\ Goto(t, "user")
  /\ UNCHANGED <<mem, sched, cpu, stk, ctx, cmd, idx, parentid, code>>

\* Mutant: the slot is not marked.
ClaimSlotUnmarked(t) ==
  /\ At(t, "claim")
  /\ Goto(t, "setpid")
  /\ UNCHANGED <<mem, sched, cpu, stk, ctx, locals>>

\* processes_running[i-1] = INUSE
ClaimSlot(t) ==
  /\ At(t, "claim")
  /\ running' = [running EXCEPT ![idx[t]] = TRUE]
  /\ Goto(t, "setpid")
  /\ UNCHANGED <<parent, parentEsp, status, umem, kframe, sched, cpu, stk, ctx,
                 locals>>

SetPid(t) ==
  /\ At(t, "setpid")
  /\ termPid' = [termPid EXCEPT ![current] = idx[t]]
  /\ Goto(t, "map")
  /\ UNCHANGED <<mem, isOn, current, cpu, stk, ctx, locals>>

MapPage(t) ==
  /\ At(t, "map")
  /\ userPage' = PageOf(idx[t])
  /\ Goto(t, "load")
  /\ UNCHANGED <<mem, sched, esp0, stk, ctx, locals>>

\* read_data into 128 MB, through whatever page is mapped there
LoadImage(t) ==
  /\ At(t, "load")
  /\ umem' = [umem EXCEPT ![userPage] = cmd[t]]
  /\ Goto(t, "pcb")
  /\ UNCHANGED <<running, parent, parentEsp, status, kframe, sched, cpu, stk,
                 ctx, locals>>

FillPcb(t) ==
  /\ At(t, "pcb")
  /\ parent' = [parent EXCEPT ![idx[t]] = ParentOn(idx[t], stk[t])]
  /\ Goto(t, "tss")
  /\ UNCHANGED <<running, parentEsp, status, umem, kframe, sched, cpu, stk, ctx,
                 locals>>

\* Mutant: tss.esp0 keeps pointing to the parent's stack.
SetTssForgotten(t) ==
  /\ At(t, "tss")
  /\ Goto(t, "switch")
  /\ UNCHANGED <<mem, sched, cpu, stk, ctx, locals>>

SetTss(t) ==
  /\ At(t, "tss")
  /\ esp0' = idx[t]
  /\ Goto(t, "switch")
  /\ UNCHANGED <<mem, sched, userPage, stk, ctx, locals>>

\* Mutant: save_parent_registers is not called.
SwitchToUserUnsaved(t) ==
  /\ At(t, "switch")
  /\ ctx' = [ctx EXCEPT ![t] = [term |-> t, pid |-> idx[t], prog |-> cmd[t]]]
  /\ Goto(t, "user")
  /\ UNCHANGED <<mem, sched, cpu, stk, locals>>

\* contextswitchasm: save the parent's registers in the PCB, iret
SwitchToUser(t) ==
  /\ At(t, "switch")
  /\ parentEsp' = [parentEsp EXCEPT ![idx[t]] = stk[t]]
  /\ ctx' = [ctx EXCEPT ![t] = [term |-> t, pid |-> idx[t], prog |-> cmd[t]]]
  /\ Goto(t, "user")
  /\ UNCHANGED <<running, parent, status, umem, kframe, sched, cpu, stk, locals>>

(***************************************************************************)
(* halt.                                                                   *)
(***************************************************************************)

\* Mutant: base processes are not told apart.
HaltAny(t, s) ==
  /\ At(t, "user")
  /\ esp0 \in Pids
  /\ MayHalt(t)
  /\ EnterKernel(t)
  /\ code' = [code EXCEPT ![t] = s]
  /\ Goto(t, "free")
  /\ UNCHANGED <<running, parent, parentEsp, status, umem, sched, cpu, ctx, cmd,
                 idx, parentid, ret>>

\* curr_pcb is the PCB of the kernel stack the call entered on.
Halt(t, s) ==
  /\ At(t, "user")
  /\ esp0 \in Pids \ BasePids
  /\ MayHalt(t)
  /\ EnterKernel(t)
  /\ code' = [code EXCEPT ![t] = s]
  /\ Goto(t, "free")
  /\ UNCHANGED <<running, parent, parentEsp, status, umem, sched, cpu, ctx, cmd,
                 idx, parentid, ret>>

\* A base shell (by halt or by a page fault) is replaced, interrupts off.
HaltBase(t) ==
  /\ At(t, "user")
  /\ esp0 \in BasePids
  /\ Booted
  /\ stk' = [stk EXCEPT ![t] = esp0]
  /\ kframe' = [kframe EXCEPT ![esp0] = ctx[t]]
  /\ ExecShell(t, esp0, [running EXCEPT ![esp0] = FALSE])
  /\ UNCHANGED <<status, isOn, current, locals>>

\* Mutant: the slot stays marked.
FreeSlotForgotten(t) ==
  /\ At(t, "free")
  /\ Goto(t, "parent")
  /\ UNCHANGED <<mem, sched, cpu, stk, ctx, locals>>

FreeSlot(t) ==
  /\ At(t, "free")
  /\ running' = [running EXCEPT ![stk[t]] = FALSE]
  /\ Goto(t, "parent")
  /\ UNCHANGED <<parent, parentEsp, status, umem, kframe, sched, cpu, stk, ctx,
                 locals>>

\* parentid = curr_pcb->parent_process_id; the descriptors closed here are
\* the subject of module FileDescriptors.
ReadParent(t) ==
  /\ At(t, "parent")
  /\ parentid' = [parentid EXCEPT ![t] = parent[stk[t]]]
  /\ Goto(t, "status")
  /\ UNCHANGED <<mem, sched, cpu, stk, ctx, cmd, idx, code, ret>>

\* Mutant: the status is put in the PCB that halts.
WriteStatusOwn(t) ==
  /\ At(t, "status")
  /\ status' = [status EXCEPT ![stk[t]] = code[t]]
  /\ Goto(t, "hsetpid")
  /\ UNCHANGED <<running, parent, parentEsp, umem, kframe, sched, cpu, stk, ctx,
                 locals>>

WriteStatus(t) ==
  /\ At(t, "status")
  /\ status' = [status EXCEPT ![parent[stk[t]]] = code[t]]
  /\ Goto(t, "hsetpid")
  /\ UNCHANGED <<running, parent, parentEsp, umem, kframe, sched, cpu, stk, ctx,
                 locals>>

SetParentPid(t) ==
  /\ At(t, "hsetpid")
  /\ termPid' = [termPid EXCEPT ![current] = parentid[t]]
  /\ Goto(t, "hmap")
  /\ UNCHANGED <<mem, isOn, current, cpu, stk, ctx, locals>>

MapParentPage(t) ==
  /\ At(t, "hmap")
  /\ userPage' = PageOf(parentid[t])
  /\ Goto(t, "htss")
  /\ UNCHANGED <<mem, sched, esp0, stk, ctx, locals>>

SetParentTss(t) ==
  /\ At(t, "htss")
  /\ esp0' = parentid[t]
  /\ Goto(t, "restore")
  /\ UNCHANGED <<mem, sched, userPage, stk, ctx, locals>>

\* restoreparent: resume execute on the stack the PCB remembers.  It returns
\* current_process->status, current_process being the child's PCB, and the
\* system call returns to the user context saved on that stack.  A stack that
\* holds another thread's frames sends the CPU anywhere ("wild").
ReturnOnto(t, child, s) ==
  IF kframe'[s].term = t
    THEN /\ stk' = [stk EXCEPT ![t] = s]
         /\ ctx' = [ctx EXCEPT ![t] = kframe'[s]]
         /\ ret' = [ret EXCEPT ![t] = status'[child]]
         /\ Goto(t, "user")
    ELSE /\ Goto(t, "wild")
         /\ UNCHANGED <<stk, ctx, ret>>

RestoreParent(t) ==
  /\ At(t, "restore")
  /\ UNCHANGED <<mem, sched, cpu, cmd, idx, parentid, code>>
  /\ ReturnOnto(t, stk[t], parentEsp[stk[t]])

\* handle14: a page fault in user code runs all of halt('P') in the
\* exception gate, interrupts off.
PageFault(t) ==
  /\ At(t, "user")
  /\ esp0 \in Pids \ BasePids
  /\ Booted
  /\ kframe' = [kframe EXCEPT ![esp0] = ctx[t]]
  /\ running' = [running EXCEPT ![esp0] = FALSE]
  /\ parentid' = [parentid EXCEPT ![t] = parent[esp0]]
  /\ status' = [status EXCEPT ![parent[esp0]] = Fault]
  /\ termPid' = [termPid EXCEPT ![t] = parent[esp0]]
  /\ userPage' = PageOf(parent[esp0])
  /\ esp0' = parent[esp0]
  /\ ReturnOnto(t, esp0, parentEsp[esp0])
  /\ UNCHANGED <<parent, parentEsp, umem, isOn, current, cmd, idx, code>>

(***************************************************************************)
(* pithandler: scheduler_next, in an interrupt gate.  A thread in user     *)
(* mode is first pushed on the stack of tss.esp0.                          *)
(***************************************************************************)
Tick ==
  LET t  == current
      n  == (current + 1) % NumTerm
      kf == IF pc[t] = "user" THEN [kframe EXCEPT ![esp0] = ctx[t]] ELSE kframe
      st == IF pc[t] = "user" THEN [stk EXCEPT ![t] = esp0] ELSE stk
  IN
  /\ pc[t] # "wild"
  /\ current' = n
  /\ kframe' = kf
  /\ stk' = st
  /\ \/ /\ ~isOn[n]
        /\ isOn' = [isOn EXCEPT ![n] = TRUE]
        /\ ExecShell(n, st[t], running)
        /\ UNCHANGED <<status, locals>>
     \/ /\ isOn[n]
        /\ userPage' = PageOf(termPid[n])
        /\ esp0' = termPid[n]
        /\ IF kf[st[n]].term = n
             THEN /\ ctx' = [ctx EXCEPT ![n] = IF pc[n] = "user" THEN kf[st[n]] ELSE @]
                  /\ UNCHANGED pc
             ELSE Goto(n, "wild") /\ UNCHANGED ctx
        /\ UNCHANGED <<running, parent, parentEsp, status, umem, termPid, isOn,
                       locals>>

KernelStep(t) ==
  \/ ScanSlot(t) \/ TableFull(t) \/ ClaimSlot(t) \/ SetPid(t) \/ MapPage(t)
  \/ LoadImage(t) \/ FillPcb(t) \/ SetTss(t) \/ SwitchToUser(t)
  \/ FreeSlot(t) \/ ReadParent(t) \/ WriteStatus(t) \/ SetParentPid(t)
  \/ MapParentPage(t) \/ SetParentTss(t) \/ RestoreParent(t)

UserStep(t) ==
  \/ ExecuteFails(t)
  \/ \E prog \in Programs : Execute(t, prog)
  \/ \E s \in Statuses : Halt(t, s)
  \/ HaltBase(t)
  \/ PageFault(t)

Next == Tick \/ \E t \in Terminals : KernelStep(t) \/ UserStep(t)

Spec == Init /\ [][Next]_vars

\* An instruction of a thread on the CPU eventually completes: a PIT period
\* (2 ms) lets every time slice run many instructions, and the PIT never stops.
Fairness == WF_vars(Tick) /\ \A t \in Terminals : SF_vars(KernelStep(t))

LiveSpec == Spec /\ Fairness

(***************************************************************************)
(* Properties.                                                             *)
(***************************************************************************)
\* Every variable keeps its type, whatever the users do.
TypeOK ==
  /\ running \in [Pids -> BOOLEAN]
  /\ parent \in [Pids -> Stacks]
  /\ parentEsp \in [Pids -> Stacks]
  /\ status \in [Stacks -> Nat]
  /\ termPid \in [Terminals -> Stacks]
  /\ isOn \in [Terminals -> BOOLEAN]
  /\ current \in Terminals
  /\ userPage \in Pids
  /\ esp0 \in Stacks
  /\ umem \in [Pids -> Programs]
  /\ kframe \in [Stacks -> Contexts]
  /\ pc \in [Terminals -> {"off", "user", "wild"} \cup ExecPc \cup HaltPc]
  /\ stk \in [Terminals -> Stacks]
  /\ ctx \in [Terminals -> Contexts]
  /\ cmd \in [Terminals -> Programs]
  /\ idx \in [Terminals -> 1 .. NumPids+1]
  /\ parentid \in [Terminals -> Stacks]
  /\ code \in [Terminals -> Statuses]
  /\ ret \in [Terminals -> Nat \cup {-1}]

\* Code in user mode runs as one process: scheduler bookkeeping, user page,
\* kernel stack and registers all name the same slot, which is in use and
\* holds the program the registers belong to (execute, halt, scheduler_next).
UserAgreement ==
  \A t \in Terminals : At(t, "user") =>
    /\ ctx[t].term = t
    /\ ctx[t].pid = termPid[t]
    /\ userPage = termPid[t]
    /\ esp0 = termPid[t]
    /\ running[termPid[t]]
    /\ umem[termPid[t]] = ctx[t].prog

\* restoreparent never resumes a kernel stack another thread has overwritten
\* (halt releases the slot before it is done with the PCB and the stack).
NeverWild == \A t \in Terminals : pc[t] # "wild"

\* The process a thread is on: its own context in user mode, otherwise the
\* owner of the kernel stack it runs on.
Top(t) == IF pc[t] = "user" THEN ctx[t].pid ELSE stk[t]

\* No two terminals are ever on the same process, hence on one PCB, one user
\* page and one kernel stack (the unlocked test-and-set of processes_running).
SlotsExclusive ==
  \A t, u \in Terminals : isOn[t] /\ isOn[u] /\ t # u => Top(t) # Top(u)

\* Once booted, no base slot is ever free, not even for an execute that
\* interleaves with the replacement of a base shell: however the calls overlap,
\* a program cannot be given the slot of a terminal's shell.
BaseSlotsKept == Booted => \A p \in BasePids : running[p]

\* A slot under construction by execute.
Building(p) ==
  \E t \in Terminals :
    pc[t] \in ExecPc \ {"scan", "claim"} /\ idx[t] = p

\* The processes whose PCB is in use: their slot is taken, or they halt.
Live(p) ==
  \/ running[p] /\ ~Building(p)
  \/ \E t \in Terminals : pc[t] \in HaltPc /\ stk[t] = p

\* Every slot in use is a process some terminal runs or builds, or an ancestor
\* waiting for exactly one child: halt and execute leak no slot and orphan no
\* process.
NoSlotLeaked ==
  \A p \in Pids : running[p] =>
    \/ Building(p)
    \/ \E t \in Terminals : isOn[t] /\ Top(t) = p
    \/ \E c \in Pids : Live(c) /\ parent[c] = p

\* Each terminal is a chain of processes that call and return in order, each with
\* a slot of its own: however the PIT interleaves the terminals, execute changes
\* no process but the one it makes, and halt resumes the caller, in its own slot
\* and with its own program, and no other (execute, halt, restoreparent).  A
\* process appears when execute is done with it and goes when its caller runs.
Tree ==
  INSTANCE ProcessTree WITH
    Slots <- Pids,
    None  <- 0,
    top   <- [t \in Terminals |-> IF isOn[t] THEN Top(t) ELSE 0],
    proc  <- [p \in Pids |-> IF Live(p) THEN [caller |-> parent[p], prog |-> umem[p]]
                                        ELSE [caller |-> 0, prog |-> "free"]]

CallsNest == Tree!Spec

\* A thread inside execute or halt gets back to user mode.
CallsComplete ==
  \A t \in Terminals : pc[t] \in ExecPc \cup HaltPc ~> pc[t] = "user"

\* The value halt is given is in the parent's PCB when the parent resumes, however
\* the PIT switches between halt's steps (halt's current_process->parent->status;
\* execute then returns the field of the child's PCB instead, sys_call.c:498).
StatusInParent ==
  [][\A t \in Terminals : RestoreParent(t) => status[parent[stk[t]]] = code[t]]_vars

(***************************************************************************)
(* The inductive invariant behind UserAgreement, NeverWild, NoSlotLeaked,  *)
(* StatusInParent and CallsNest when no execute overlaps another execute   *)
(* or halt.                                                                *)
(***************************************************************************)
Built == ExecPc \ {"scan", "claim"}

\* The base shells start in order, and nothing else runs until all have.
BootInv ==
  /\ \A t \in Terminals : isOn[t] <=> pc[t] # "off"
  /\ \A t \in Terminals : running[BasePid(t)] <=> isOn[t]
  /\ \A t \in Terminals : pc[t] \in HaltPc => stk[t] \in Pids \ BasePids
  /\ \A t \in Terminals : pc[t] \in ExecPc \ {"scan"} => idx[t] \in Pids \ BasePids
  /\ ~Booted =>
       /\ \A t \in Terminals : isOn[t] <=> t <= current /\ current # NumTerm-1
       /\ \A t \in Terminals : pc[t] \in {"off", "user"}
       /\ \A p \in Pids \ BasePids : ~running[p]

SerialInv ==
  \A t, u \in Terminals : t # u /\ pc[t] \in ExecPc => pc[u] \notin ExecPc \cup HaltPc

\* What each terminal runs: a slot in use, except that halt has released it.
TopInv ==
  \A t \in Terminals : isOn[t] =>
    /\ Top(t) \in Pids
    /\ running[Top(t)] <=> pc[t] \notin HaltPc \ {"free"}
    /\ Top(t) \in BasePids => Top(t) = BasePid(t)

\* The context of the process that terminal t is on.
OwnContext(t) == [term |-> t, pid |-> Top(t), prog |-> umem[Top(t)]]

\* Where its user context is: in the registers while it runs user code or may
\* yet return to it, at the top of its kernel stack otherwise.
ContextInv ==
  \A t \in Terminals : isOn[t] =>
    /\ pc[t] \in {"user", "scan"} => ctx[t] = OwnContext(t)
    /\ pc[t] # "user" \/ t # current => stk[t] = Top(t) /\ kframe[Top(t)] = OwnContext(t)

\* What scheduler_next will map and put in the TSS when t is resumed.
TermPidInv ==
  \A t \in Terminals : isOn[t] =>
    /\ pc[t] \in {"user", "scan", "claim", "setpid", "free", "parent", "status", "hsetpid"}
         => termPid[t] = Top(t)
    /\ pc[t] \in Built \ {"setpid"} => termPid[t] = idx[t]
    /\ pc[t] \in HaltPc \ {"free", "parent"} => parentid[t] = parent[stk[t]]
    /\ pc[t] \in {"hmap", "htss", "restore"} => termPid[t] = parentid[t]

\* What is mapped and in the TSS while t is on the CPU.
CpuInv ==
  /\ pc[current] \in {"user", "scan", "load", "pcb", "tss", "switch", "htss", "restore"}
       => userPage = termPid[current]
  /\ pc[current] \in {"user", "scan", "switch", "restore"} => esp0 = termPid[current]

\* The slot execute is about to take or is filling belongs to nobody else.
BuildInv ==
  \A t \in Terminals :
    /\ pc[t] = "claim" => ~running[idx[t]]
    /\ pc[t] \in Built =>
         /\ running[idx[t]]
         /\ \A u \in Terminals : isOn[u] => Top(u) # idx[t]
    /\ pc[t] \in {"pcb", "tss", "switch"} => umem[idx[t]] = cmd[t]
    /\ pc[t] \in {"tss", "switch"} => parent[idx[t]] = stk[t]

\* A base slot has no parent and holds the shell.
ShellInv == \A p \in BasePids : parent[p] = 0 /\ umem[p] = Shell

\* A process that is not a base shell has a parent, which is alive, waits on
\* its own kernel stack and waits for this child only.
ParentInv ==
  \A p \in Pids \ BasePids : Live(p) =>
    /\ parent[p] \in Pids
    /\ parentEsp[p] = parent[p]
    /\ running[parent[p]]
    /\ ~Building(parent[p])
    /\ \A t \in Terminals : isOn[t] => Top(t) # parent[p]
    /\ \A r \in Pids \ BasePids : r # p /\ Live(r) => parent[r] # parent[p]

\* The context the parent waits with is its own, and of the terminal its child
\* is on, or waits on in its turn.
FrameInv ==
  \A p \in Pids \ BasePids : Live(p) =>
    LET k == kframe[parent[p]] IN
    /\ k.pid = parent[p]
    /\ k.prog = umem[parent[p]]
    /\ parent[p] \in BasePids => parent[p] = BasePid(k.term)
    /\ \A t \in Terminals : isOn[t] /\ Top(t) = p => k.term = t
    /\ (\A t \in Terminals : isOn[t] => Top(t) # p) => k.term = kframe[p].term

\* Once halt has stored the status, it stays until the parent is resumed.
StatusInv ==
  \A t \in Terminals :
    pc[t] \in {"hsetpid", "hmap", "htss", "restore"} => status[parent[stk[t]]] = code[t]

IInv ==
  /\ TypeOK
  /\ BootInv
  /\ SerialInv
  /\ NeverWild
  /\ SlotsExclusive
  /\ TopInv
  /\ ContextInv
  /\ TermPidInv
  /\ CpuInv
  /\ BuildInv
  /\ ShellInv
  /\ ParentInv
  /\ FrameInv
  /\ StatusInv
  /\ NoSlotLeaked
=============================================================================
