# A verification development for the ECE 391 kernel

This directory models the operating system in `src/student-distrib/` in TLA+,
checks the models with TLC on small instances, and proves most of their safety
properties with TLAPS for every value of the constants. The supplied user programs in
`src/syscalls/` that exercise the kernel most are modelled too. It is meant to be read
beside the code: `PROJECT.json` gives, for each definition, the lines it models.

## 1. The system

A single-CPU x86 kernel with three terminals, six process slots, a read-only
file system, a keyboard, a real time clock and a round robin scheduler driven by
the PIT. The IDT (`idt.c:287-333`) decides what may interrupt what:

* system calls, the keyboard and the RTC go through **trap gates**, so the PIT may
  interrupt them at any instruction and switch to another terminal;
* the PIT and the exceptions go through **interrupt gates** and run undisturbed.

This is where most of what is hard in this code comes from: `scheduler_next`
changes the running thread, the page directory, the TSS and the mapping of video
memory between any two instructions of a system call or of a device handler, and
nothing is locked except short stretches of `rtc_write` and `switch_terminals`.

| component | state it keeps | operations | meets |
|---|---|---|---|
| processes and scheduler (`sys_call.c`, `scheduler.c`, `linkage.S`, `pcb.c`, `paging.c`) | `processes_running`, PCBs, `terminals[t].pid/esp/ebp`, `is_on`, `current_term`, page 128 MB, `tss.esp0` | `execute`, `halt`, page fault, PIT tick | everything: it decides who runs |
| real time clock (`rtc.c`, `idt.c:204`) | `rtc_interrupt_occurred`, the chip's registers | `rtc_open/read/write`, interrupt | processes poll the flag |
| keyboard and terminal input (`keyboard.c`, `terminal.c`) | flags of the modifiers, edited line of each terminal, `terminalbuffer`, `numberofchars`, `flags` | keys, ENTER, ALT-Fn, `terminal_read` | handler fills what readers poll |
| video memory (`paging.c`, `scheduler.c`, `lib.c`) | page tables of 0xB8000 and of vidmap's window, three backup buffers, `visable_term` | output, echo, clear, `vidmap`, switch | PIT, handler and programs share one mapping |
| file system (`filesystem.c`) | none: a constant image | look-up by name and index, `read_data` | used by descriptors and execute |
| file descriptors (`sys_call.c`, `filesystem.c`) | `fd_array` of each PCB | `open`, `close`, `read`, `write`, execute, halt | file system, clock, terminal |
| screen (`lib.c`) | cursor of each terminal, text | `putc`, `putc_modified`, `scroll`, backspace, `setposition` | handler and programs share a cursor |
| command line (`sys_call.c`) | argument buffer of the PCB | parsing in `execute`, `getargs` | file system |
| interrupt controller, handlers, exceptions and boot (`i8259.c`, `idt.c`, `pit.c`, `kernel.c`, `boot.S`) | masks, requests, interrupts in service, handlers nested on threads | `entry`, handlers, `send_eoi` | every device and the scheduler |
| library (`lib.c`) | none | `memset`, `memcpy`, `memmove`, `printf`, `itoa`, `strrev` | everything |
| user programs (`syscalls/`) | their local variables | `shell`, `cat`, `ls`, `grep`, `syserr` | command line, descriptors, file system |
| kernel tests | see `PROJECT.json` | | |

What makes each correct: a thread always runs in its own process, page, stack and
program, slots are neither shared nor leaked, and calls return (processes); reads
of the clock return, its interrupts are acknowledged and it runs as fast as was last asked
for (RTC); each line reaches the process of its terminal once and complete
(input); text shows on the terminal it is meant for (video); reads return the
bytes of the file, names find their file (file system); a process holds exactly
the descriptors it opened and each continues where it stopped (descriptors); the
screen shows the text that was written, and backspace erases only what was typed
(screen); a command runs the program it names, with its arguments (command line);
interrupts come only when they can be handled and each is acknowledged once
(interrupt controller); bytes are moved and numbers printed as they should be
(library); programs print what they are for and end (user programs).

## 2. The modules

| module | models | state ↔ code |
|---|---|---|
| `Processes` | `execute`, `halt`, base shells, page faults, `scheduler_next` | one step per access to shared state; stacks, PCBs and pages are named by process id (0 is the boot stack); a user context is (terminal, process, program) |
| `Interrupts` | `entry`'s initialisation, the two 8259s, keyboard, clock and PIT handlers, spinning exceptions | `frames` are the handlers on each thread's stack; the boot thread is one of the threads |
| `ProcessTree` | abstract: what `execute` and `halt` promise | the process each terminal runs, the caller and program of each slot |
| `RTC` | `init_rtc`, `rtc_open/read/write`, `rtchandler`, the chip | `pc` and `hpc` say where a process, and the handler nested on it, is; register A is split in `divider` and `rate` |
| `LineDiscipline` | `check_input` for editing, ENTER, CTRL-L and ALT-Fn; `set_terminal_buffer`; `terminal_read` | a character carries the terminal it was typed on; `sent` and `got` record lines |
| `LineQueue` | abstract: what keyboard and `terminal_read` promise a program | lines entered, lines answered, whether a read waits |
| `Keyboard` | `check_input`'s decision what a key means | `pressed` and `capslock` are the entries of the modifiers in `chararray`; `down` and `odd` what the user did |
| `Video` | who writes where: `paging_set_write_to_*`, `paging_vidmap`, `switch_terminals`, echo, clear, output | a screen's content is a set of marks (kind, terminal it is meant for) |
| `FileSystem` | `read_dentry_by_name`, `read_dentry_by_index`, `get_filesize`, `read_data` | operators on a constant image; a byte is (data block, offset in it) |
| `CommandLine` | the parser in `execute`, the arguments kept by `set_up_fdsandargs`, `getargs` | extends `FileSystem`; operators on commands, sequences of characters |
| `Screen` | `putc`, `putc_modified`, `scroll`, `handlebackspace`, `clear` for one terminal | text, cursor and length of the edited line; `log` and `top` say what was written and how much scrolled away |
| `ScreenSteps` | the same functions and `setposition`, one step per access to the cursor, for a program and the keyboard handler | extends `Screen`; `cur` is the cursor, `th` where each of the two is and what it has read |
| `FileDescriptors` | `open`, `close`, `read`, `write`, `fs_read`, `dir_read`, `set_up_fdsandargs`, halt's closing | extends `FileSystem`; `res` is what the last call returned, `got` records what was read |
| `Programs` | `ece391shell.c`, `ece391cat.c`, `ece391ls.c`, `ece391grep.c`, `ece391syserr.c`, `_start` | extends `FileDescriptors` and `CommandLine`; `pc` and `local` are the program's place and variables, `out` what it wrote to stdout |
| `Library` | `memset`, `memcpy`, `memmove`, `strlen`, `strrev`, `itoa`, `printf` | operators on memories (functions from addresses) and strings |
| `Calls` | one call to the operators of `FileSystem`, `CommandLine` and `Library` (`getargs` after `execute`), with the reference definitions they are compared with | `request` is the call, `answer`, `kept`, `memory` and `printed` what it left |
| `MC*` | the instances for TLC (`MCPrograms`: also those of `Calls` and `Keyboard`) | |
| `ProcessesProofs`, `RTCProofs`, `InterruptsProofs`, `LineDisciplineProofs`, `VideoProofs`, `ScreenProofs`, `CallsProofs`, `ProgramsProofs` | theorems about the module they are named for (`LineDisciplineProofs` also about `Keyboard`, `ScreenProofs` about `ScreenSteps`, `CallsProofs` about `FileSystem`, `CommandLine` and `Library`, `ProgramsProofs` about `FileDescriptors`) | |

How they fit together:

* `FileDescriptors` and `CommandLine` use the operators of `FileSystem`, and `Programs`
  composes all three: a command typed at the shell goes through `execute`'s parser,
  which finds the program in the directory; its arguments come back from `getargs`,
  its files through `open`, `read` and `close`, and `halt` leaves the slot to the next.
* `Processes` implements `ProcessTree` (property `CallsNest`) with the mapping `Top` and
  `Tree`: a process is in the tree from its switch to user mode until its `halt` has
  restored the caller; one that `execute` builds is not in it.
  `LineDiscipline` implements `LineQueue` (property `QueueOfLines`), fairness included:
  a line is answered when its read returns.
* `ScreenSteps` begins each call together with its action of `Screen`, and shows at
  its end that its steps added up to it (`CallsAddUp`), until two calls overlap.
* The other modules share only the scheduler, which each has in the form it needs
  (`Tick`): `Processes` in full, the others as "another terminal's thread goes on". That at
  most one handler of a device is at work, which `RTC`, `LineDiscipline`, `Video` and
  `ScreenSteps` build on, is `OneHandlerEach` of `Interrupts`.

Operators marked *Mutant* are plausible mistakes in the operator that follows; each
property is known to fail when its mutant replaces the original.

Things to know when reading them against the code:

* A thread preempted in the kernel keeps its place (`pc`, `rpc`, `hpc`, `kpc`). A
  device handler stays nested on the thread it interrupted, with its interrupt in
  service, until that thread runs again; hence at most one handler of a kind.
* `Processes` runs `execute("shell")` of `scheduler_next` and of `halt`, and all of
  `halt` under a page fault, in one step: interrupts are off there.
* Resuming a kernel stack that holds another thread's frame is undefined; the model
  moves such a thread to `"wild"`, where nothing more is said about it.
* `Overlap` says whether users are quick enough to run `execute` on one terminal
  inside `execute` or `halt` of another. The code does not prevent it.
* `TypeAhead` says whether ENTER is pressed when no read waits. The code does not
  prevent it.
* In `RTC` the variables `asked`, `accepted` and `crossed`, in `LineDiscipline`
  `sent` and `got`, in `FileDescriptors` `got` and `opened`, in `Keyboard` `down` and
  `odd`, and in `Screen` `log`,
  `top` and `mixed` are histories: no action depends on them except through the
  bounds on `sent` and `log` (and a modifier is let go only when it is down).
* In `Screen` output and keys come in any order, but each call of `putc`,
  `putc_modified` and `handlebackspace` is one step. In `ScreenSteps` the handler
  comes between any two steps of the program; once calls have overlapped the text is
  not followed any more, only the cursor, the counts and the places of stores.
* In `Programs` messages and prompts are left out. A program has no action for a
  failure that it cannot meet (a write to stdout that fails, say): it would be stuck
  there, and `programs_session` finds no deadlock. A line read from the keyboard
  is a member of `Commands`, chosen when the shell looks at it.
* `read_dentry_by_name` and `read_data` have their unsigned arithmetic (`% Word`).

## 3. The runs

Bounds are in the `.cfg` files. Runs marked ✗ look for a violation and find one.

| run | checks | bounds and why |
|---|---|---|
| `interrupts_boot` | `NothingTooEarly`, `OneHandlerEach`, `HandlersEnd`, `KeysServed`, `TerminalsRun` | 2 terminals (a shell is started from the boot thread and from another shell's), two handlers on a thread, so that keyboard nests in clock; an exception stops the system, which is why it may deadlock |
| `processes_serial` | `UserAgreement`, `NeverWild`, `BaseSlotsKept`, `NoSlotLeaked`, `CallsNest` | 2 terminals, 4 slots: one terminal can overtake the other, a program can be nested in a program, the table fills up; 2.2 million states |
| `processes_live` | `CallsComplete`, `StatusInParent` | 2 terminals, 3 slots, two statuses |
| `processes_overlap` ✗ | `NeverWild` | as above, with `execute` during another terminal's `halt` |
| `rtc_shared` | `NeverMuted`, `WritesReturn`, `RateAsWritten`, `ReadsReturn` | 2 processes that set the clock, one of which reads; nine values around `rtc_write`'s limits, 0 and the least integer included |
| `rtc_readers` ✗ | `ReadsReturn` | two of three processes read |
| `rtc_frequency` ✗ | `FrequencyAsAsked` | one process, the nine values |
| `line_patient` | `OwnInput`, `ConsumedOnce`, `QueueOfLines` | 2 terminals, lines of up to two characters, two lines, one character (its terminal tag and the length tell lines apart) |
| `screen_text` | `TypeOK`, `ShowsText`, `ErasesTyped`, `CallsAddUp`, `CursorReturns`, `StoresNear` | three rows of two columns, lines of up to three characters, so that a typed line spans rows, scrolls and is taken back over both; six characters on record; `Preempt = FALSE`; 0.8 million states |
| `programs_session` | of the sessions `NeverNull`, `NothingInherited`, `ReadsInOrder`, `ProgramsPrint`, `TestsPass`, `ProgramsEnd`; of single calls `ReadsFileBytes`, `RunsFirstWord`, `ArgsDelivered`, `MovesBytes`, `PrintsNumbers`; of keys `KeysMeant` | sessions: a base shell and one slot for its programs, two descriptors besides stdin and stdout, a directory of nine entries, text files of 9 and 7 bytes in blocks of 3 whose lines cross `grep`'s buffer of 6, an executable with a NUL in what `grep` carries over and more behind it, 15 commands, reads of -1, 0, 1 and 8 bytes; the slot of a program that left files open is used by the next. Calls and keys, from the state before the first session: files that end inside a block, on a boundary, at the largest size and at zero, every offset and length, lengths that wrap included; every command of up to six characters for a buffer of five; 11 bytes of memory in words of 4, every range; words of 64 values in bases 3 and 4; every sequence of keys |
| `video_preempt` | `OutputConfined`, `MappedHome`, `WindowFollows` | 2 terminals, PIT anywhere, both programs use vidmap |
| `video_echo` ✗ | `EchoConfined` | the same without vidmap |

`rtc_shared` states its properties with their exceptions, and so shows that those
are the only ones: the clock stops exactly when 0 was asked for, `rtc_write` hangs
only for -2147483648, an interrupt stays unacknowledged only after a `rtc_write`
between the handler's two port accesses, and otherwise register A holds the rate computed
for the last request. That this rate is the wrong one is what `rtc_frequency`
shows. `interrupts_boot` does the same: a handler that is left on the boot
thread (`Lost`) and a spinning exception (`Spinning`) are the only ways in which an
interrupt stays in service, a key is not taken or a terminal stops.

**Fairness.** `CallsComplete`, `ReadsReturn`, `QueueOfLines` and the liveness properties of
`Interrupts` are checked under weak
fairness of the PIT and of a running clock (devices do not stop) and strong
fairness of the steps of a thread: a thread is on the CPU again and again, never
continuously, and a PIT period is long enough for many instructions, so
that a step possible in infinitely many slices is taken. In `Interrupts` this holds of the
handlers of each device separately: keys do not arrive as fast as a handler runs, and
a pending key is taken when nothing holds it back again and again. `ProgramsEnd` assumes
weak fairness of the steps of the program in the slot: `Programs` has no PIT, and that the
calls themselves return is the subject of the others. User actions and a program that makes
any call have no fairness.

## 4. What the violations show

* `processes_overlap`: `halt` (`sys_call.c:525`) frees its slot first. An `execute`
  on another terminal may take it before `halt` has read its PCB; `halt` then
  restores from another process's registers.
* `rtc_readers`: every `rtc_read` clears the one flag on entry (`rtc.c:39`), so that
  a reader off the CPU can miss every interrupt.
* `rtc_frequency`: `rtc_write` counts the rate up from `INIT_RATE` = 5 (`rtc.c:59`), which is
  2048 Hz, where 1024 Hz is meant: the clock runs at twice the frequency asked for, and
  after `rtc_open` at 4 Hz where `rtc.c:92` and `:100` say 2 Hz.
* `video_echo`: the PIT re-maps 0xB8000 between `keyboard.c:35` and the echo.

### Other disagreements met on the way

These follow from the same models with other constants, or from reading the code;
they have no run of their own.

* `sys_call.c:498`: `execute` returns the status field of the *child's* PCB, while
  `halt` wrote the status to the *parent's* (`:536`), which is what `StatusInParent`
  checks; what the caller sees is what the child's own children left. So the shell
  never learns the status of a program (`ece391shell.c:31-34`).
* `keyboard.c:47`: only the number of typed characters bounds backspace. When a program
  writes while a line is being typed, backspace erases its output (`bug_log.txt` item 7
  is about the prompt); `ErasesTyped` names this exception, and has no other.
* `terminal.c:162`: `set_terminal_buffer` does not look at `flags[t]`: with `TypeAhead = TRUE`
  `QueueOfLines` fails, since a second line replaces, or is mixed with, the first.
* `sys_call.c:447`: the test and the marking of a slot are two steps; with
  `Overlap = {"execute"}` two terminals get one slot.
* `idt.c:208`: `NeverMuted` without its exception fails with two processes.
* `rtc.c:67`: 0 and -2147483648 pass the test, and stop the clock and hang.
* `terminal.c:112`: `terminal_read` ignores `nbytes` when it copies. A negative one makes its
  `memset` run out of the program's page: the page fault ends the program.
* `filesystem.c:486-499`: a directory read of 0 or fewer bytes copies nothing, returns that number
  and moves on, so that a name is lost; `ReadsInOrder` says so. `fs_read` of 0 bytes returns at once.
* `filesystem.c:257`: `fname[FILE_NAME_SIZE] = 0` clears `file_type`.
* `filesystem.c:171`: the empty name matches the directory (`open` refuses it first).
* `sys_call.c:602`: `vidmap` maps the VGA for a hidden terminal, until the next slice.
* `sys_call.c:421`: leading spaces shift the arguments, so that `ArgsDelivered` speaks of
  commands without them.
* `sys_call.c:648-649` says that `getargs` returns -1 when there are no arguments; the code
  returns 0 and an empty string. `ArgsDelivered` speaks of commands with arguments only; with the
  code's 0, `grep` without an argument searches for the empty string.
* `idt.c:183`: exceptions other than the page fault spin with interrupts off, where the
  comments say "sqaushes program": all terminals stop.
* `keyboard.c:124-149`: SHIFT with the space bar uses an unset variable, the one exception of
  `KeysMeant`. `keyboard.c:102`: CTRL-L clears only where the
  letter is printed as a capital; elsewhere it types an l.
* `lib.c:383`: a program's `putc_modified` has the cursor below the screen for a moment; a key
  in that moment stores its echo there. `StoresNear` bounds how far: the first place
  behind the row below the screen. `keyboard.c:33`: with `Preempt = TRUE`, the PIT between
  `setposition`'s reads and writes undoes a scroll of the program, and this, repeated,
  takes the cursor off the screen without bound; `CursorReturns` and `StoresNear` fail.
* `lib.c:633`: `memmove` leaves the direction flag set when it copied from the end.
* `ece391grep.c:33`: when the buffer is full the byte behind it is tested, which nothing has
  written. If it is a newline the last line of the buffer is taken for complete: the
  exception of `ProgramsPrint`.
* `ece391grep.c:36`, `:47`: `grep` searches every file, the executables too. A NUL ends `strcpy`'s
  copy of the carried line, though `last` is moved as if all were copied, and `fdputs`'s print of a
  hit; with an empty argument lines with a NUL count as hits; a line longer than the buffer is
  searched in pieces. The model does all this. `ProgramsPrint` promises no lines of such a
  file (`IsText` is false of it), but every line of the other files and that the program ends with 0.
* `scheduler.c:314`: the boot thread is abandoned, with any handler nested on it: a key
  between `sti` and the first tick can leave the keyboard, and with it the clock, in
  service for good.

## 5. What is proved

All theorems hold for every number of terminals, slots, characters, rows and so on; the
assumptions are the named `ASSUME`s of the modules, about the constants only, and TLC
evaluates them on the runs' instances. Some theorems have one more condition on a
constant, written in them: `Overlap = {}` (no `execute` inside an `execute` or `halt` of another
terminal), `~TypeAhead` (ENTER only for a waiting read) or `~Preempt` (the PIT leaves the
keyboard handler alone). Without it the property fails: section 4 says how.

* `ProcessesProofs`
  * `TypeCorrect` and `BaseSlotsAreKept`, **however calls overlap**: no base slot is free
    once all shells run. `BaseSlotsKept` alone is not inductive: it needs that `halt` past its
    test, and `execute` past its scan, only touch slots above the base ones, and that the
    shells start in order, each finding its own slot as the lowest free one (`BootInv`).
  * `SerialInvariant`, for `Overlap = {}`: `IInv` of `Processes` is inductive. Its conjuncts say
    which thread owns which slot (`SlotsExclusive`, `TopInv`), what a terminal's saved stack
    pointer and each kernel stack hold (`TermPidInv`, `FrameInv`, `ContextInv`), what the CPU's
    page, TSS and process id are at each place of `execute`, `halt` and the PIT
    (`CpuInv`), what the slot being built holds (`BuildInv`, `ShellInv`) and who called whom
    (`ParentInv`). From it follow `UserCodeAgrees`, `StacksAreNeverWild`, `SlotsAreNotLeaked`,
    `StatusReachesParent` and, step by step, the refinement `CallsAreNested`: every step of
    `execute`, `halt`, a page fault or the PIT is a step of `ProcessTree` or none.
* `RTCProofs` — `ClockIsNeverMuted`, `WritesDoReturn`, `RateIsAsWritten`, for any number
  of processes. `RtcInv` adds that the handler about to read register C has it selected unless
  a `rtc_write` came between, and what register A holds of the requests accepted: each
  power of two among them makes a rate of less than 16, 0 one that spoils the divider.
* `InterruptsProofs` — `NothingComesTooEarly`, `EachHasOneHandler`, for any number of terminals and
  any depth of nesting. `ServiceInv` ties the controllers to the stacks: a bit is in
  service exactly while one place of one stack has to acknowledge it.
* `LineDisciplineProofs`
  * `LineTypeCorrect` and `InputStaysHome`, with ENTER at any time. The invariant `OwnInv`
    follows a character from the edited line through the buffer to the reader: each holds
    characters of its own terminal only. So type-ahead may lose or mix lines of one terminal
    but never of two.
  * `LinesAreConsumedOnce` and `TerminalsAreQueues`, for `~TypeAhead`. `QueueInv` says what buffer,
    count and flag hold at each place of `set_terminal_buffer` and of `terminal_read`, and that at
    most one line is on its way. `TerminalsAreQueues` is `QueueOfLines` but for its fairness.
  * `KeysDoAsMeant`: the entries of the modifiers follow what the user holds down.
* `VideoProofs` — `ThreadsAreMappedHome` and `OutputStaysHome`, with the PIT anywhere in the
  handler. `MappedHome` needs `AtHandler`: while the visible terminal runs, even
  inside the handler, 0xB8000 is the VGA, because the end of `check_input` restores the
  map only for hidden terminals. `OutputConfined` follows since `switch_terminals` saves the
  VGA to the terminal it showed. `WindowAlwaysFollows` is the same for vidmap.
  `EchoStaysHome` shows that, without preemption of the handler (`Preempt = FALSE`), the echo
  is confined too: what `video_echo` finds has no other cause.
* `ScreenProofs`
  * `ScreenTypeCorrect`: `TypeOK` is inductive by itself, because `handlebackspace` stops at the
    first position and `putc` scrolls at the last.
  * `BackspaceErasesTyped`: `TypedInv` says that the `noc` positions before the cursor hold typed
    characters; they stay together since a line is shorter than the screen but one row.
  * `CursorAlwaysReturns` and `StoresAreNear`, for `~Preempt`: `StepsInv` bounds the cursor and
    the registers at each place of the program, and says that the handler leaves the cursor at
    least as near to the screen as it found it, wherever the program stands.
  * `CallsDoAddUp`, whatever `Preempt` is: `Leads` says, for each place in a call, what the rest
    of it does to text and cursor; each step passes it on, and `Screen`'s action is what it
    is at the first place.
  * `ScreenShowsText`: the places of the characters of a text follow one another on the sheet
    (`Increasing`), so an appended or erased character changes one place of it (`OnAppend`,
    `OnFront`) and nothing is at or behind the cursor (`OnIs`), which is why the row that `scroll`
    makes is blank. `ShowInv` adds that what backspace may take back is no newline.
  * `StepsShowText` and `StepsEraseTyped` say the same of `StepsSpec`, which the run checks: until
    calls overlap each begins with an action of `Screen` (`StepsAlone`).
* `CallsProofs` — the operators agree with their references for every image, command line,
  memory and number. `CallDone` is the invariant: what was kept of a call is what the operator
  returns. `CallsSpec` is the part of `MCPrograms`'s specification that makes single calls; sessions and keys
  leave the variables of `Calls` alone.
  * `ReadDataIsRight` and `ReadsFileBytesAlways`, for every offset and length: the end of the first block,
    the whole blocks and the start of the last join to the bytes of the file, and the bounds
    `Clamp` computes modulo `Word` are the ones meant. What the loop over whole blocks copies
    is the operator `CopyBlocks`, a definition and not a theorem.
  * `RunsFirstWordAlways`, `ArgsDeliveredAlways`: `UntilIs`, `TrimmedIs` and `SplitIs` say what the scans of
    the parser stop at, `LookupIs` that the search of the directory finds the first entry of
    the name, through the special case of the first entry.
  * `MovesBytesAlways`: the loops of `memcpy`, `memmove` and `memset` are recursive functions;
    `CopyBytesIs` and `CopyDwordsIs` say what each of their rounds has done, `CopyUp` and
    `CopyDown` that the direction `memmove` chooses reads every byte before it is overwritten.
  * `PrintsNumbersAlways`: `NewvalIs` gives the values `itoa` divides down to, `NewvalFalls` that it
    ends, `StrrevIs` turns the digits round, and `NumeralIs` reads them back to the number. The
    eight digits of `%#x` are enough by `WidthAssumption`.
* `ProgramsProofs` — `NullIsNeverCalled`, `NothingIsInherited`, `ReadsComeInOrder`: the descriptors
  are right after every sequence of commands and calls, for every image (whose files have
  inodes) and every set of commands. What a descriptor returned, read by read, is put together
  with `ReadDataIsRight`, for every size asked, 0 and negative included. `GrepInv` is needed because `grep` reads to the rest of its buffer.
  `TestsAlwaysPass`: every test of `syserr` passes, in any order and after any processes.
  `SyserrInv` says which descriptors the test under way has taken (`Taken`) and what its calls
  have returned (`AsMeant`); the tests rely on one another's cleaning up, and all of them on
  `NothingInherited`.
  `ProgramsAlwaysPrint`: what `cat`, `ls` and `grep` print is what they are for. `ArgInv` says that
  `getargs` hands over what `execute` kept, `OpenGives` and `ReadGives` what the calls return for the
  entry a name stands for. For `cat` and `ls` the invariant is `PrinterInv`: the output is the
  part of the file or directory before the descriptor's position. For `grep` it is
  `SearchInv`: the directory's position tells how many files have been begun, and of each text
  file before the last its lines are out (`Filled`). While the file at hand is a text, the
  position less what the buffer holds is the end of the last line searched, and the buffer
  holds the text up to the position, newlines replaced (`TextInv`, `LineInv`, `MoreInv`, by
  place); of a file that is none nothing is said but that its lines go to its own place. `LineSearched` is the heart of it: from the end of a line the search comes to
  the end of the next, also where that is the end of a file without a newline, which `grep`
  may reach before a read has returned 0 (`Ended`).

Where the definitions recurse (the loops of the library, the places of a text, numerals),
they are functions, and each proof that needs induction takes the least counterexample of a
set of numbers (`Least`), which exists because < is well-founded; that a recursive function exists is
shown the same way (`RunExists`, `TraceExists`).

The assumptions the proofs rest on, beyond sizes: the first directory entry is the directory
itself (`DirectoryAssumption`; `read_dentry_by_name` compares it first and alone), a command line is
longer than a file name (`BufferAssumption`: 128 and 32), a number in base 16 has at most eight
digits (`WidthAssumption`), the names `err_open` tries are not in the directory
(`SyserrAssumption`, the premise of that test), a process can open a file, no entry but the first
is a directory and no command holds a terminator (`PrintAssumption`). The sizes of reads are
any values of an `int32_t`, and the bytes of files any bytes. That a file has no NUL and
that its lines fit into `grep`'s buffer is no assumption, since no code ensures it:
`ProgramsPrint` promises the lines of the files of which it is true (`IsText`) in an image with any others,
and says nothing of `grep` where the stack holds a newline.

Only model-checked is liveness: `CallsComplete`, `ReadsReturn`, `HandlersEnd`, `KeysServed`,
`TerminalsRun`, `ProgramsEnd` and the fairness part of `QueueOfLines`. The prover has no rules for WF
and SF.

The type invariants of `Processes`, `LineDiscipline` and `Video` are proved and have no run of
their own; that of `Screen` is in `screen_text`.

## 6. Not modelled

* The hardware cursor (`update_cursor`), the encoding of descriptors and page tables, the
  divisor of the PIT and the parsing of the boot structure: straight-line code that writes
  constants.
* The kernel tests, which are compiled out of the normal boot path.
* `hello`, `testprint`, `counter`, `pingpong`, `sigtest` and `fish`: `Programs` has a program
  that makes any call in their place. A shell started from the shell is left to
  `Processes`, which nests programs to any depth the slots allow.
* `ece391emulate.c` (in `syscalls/` and `fish/`) runs programs on a host, without this kernel.
* `strcpy`, `memset_word` and `memset_dword`, which the kernel does not call (nor does it call
  `memmove`, which is modelled); `set_handler` and `sigreturn`, which return -1.

## 7. Plan

Modelled so far, in this order: processes and scheduler, clock, input, video memory, file
system and descriptors, command line, screen, interrupts and boot, the abstract
specifications of processes and input, the screen's steps, the library, the user
programs, the key map. Every invariant and action property of a passing run is proved
(section 5). Next: `Interrupts` as the scheduler of the other modules, their handlers and
`Tick`s as its refinement.
