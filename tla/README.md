# A verification model of vm-framework

vm-framework is a small operating system for one x86 processor: a boot loader,
a kernel with preemptive processes, a serial line, a console, segments of
memory for processes, an ELF loader and a few user programs. This directory
holds TLA+ modules translated from its C source, the configurations with which
TLC checks them on small instances, and proofs that the TLA+ proof system
checks for every value of the constants.

## 1. Inventory

### Components, their state and their operations

| Component | Source | State | Operations |
|---|---|---|---|
| process table | `processes.c` | `g_pcbs[24]`, `g_free_pcbs`, `g_next_pid`, `g_current` | `_get_pcb`, `_free_pcb`, `_init_processes` |
| scheduler | `scheduler.c` | `g_ready[5]`, `g_current`, `g_quantum` | `_schedule`, `_dispatch` |
| clock | `clock.c` | `g_sys_time`, `g_sleeping` | `_isr_clock` |
| system calls | `syscalls.c` | none of its own | exit, read, write, sleep, gettime, getpid, puts, putc, fork, exec, execve, hotswap |
| queues | `queues.c` | doubly linked lists, one pool of `2 * 24 + 8` nodes | `_enque`, `_deque`, `_init_queues` |
| stack pool | `stacks.c` | `g_free_stacks` | `_get_stack`, `_free_stack` |
| initialisation | `system.c` | the state all others start from | `_init`, `_setup_stack` |
| serial I/O | `sio.c` | input and output buffer with two pointers and a count each, `g_sending`, `g_sio_blocked` | `_isr_sio`, `_sio_read`, `_sio_write` |
| physical memory | `segment.c` | sorted free list, pool of 256 nodes, pool of GDT slots | `_phys_alloc`, `_phys_free`, `_phys_resize` (no caller), `_gdt_alloc`, `_gdt_free` |
| descriptors | `gdt_support.c` | GDT, TSS | packing and unpacking of descriptors |
| ELF loader | `elf.c` | none | `_elf_valid`, `_elf_load` |
| console | `c_io.c` | video memory, scrolling window, cursor, keyboard ring | keyboard ISR, `c_getchar`, `c_gets`; `c_putchar`, `c_puts`, `c_printf` in the window and at a place; `c_scroll`, `c_setscroll`, `c_moveto`, `c_clearscroll`, `c_clearscreen` |
| interrupt entry | `isr_stubs.S`, `support.c`, `startup.S` | IDT, PIC | save and restore of a context, default handlers |
| boot, hot swap | `bootstrap.S`, `hswap.S` | place on the disk, place in the table, tries left | load the image; load it again over a running system |
| libraries | `klibc.c`, `ulibc.c`, `ulibs.S`, `ustart.S` | none | `_kpanic`, `printf`, `strtol`, trap stubs, `_start` |
| user programs | `user.c`, `user1.c` ... | none | lists of system calls: the first and the idle process, 22 functions of the kernel's image, three programs linked on their own |
| build tools | `BuildImage.c`, `Offsets.c`, `ElfTest.c` | the image and its table | copy program files, write the table; run on the host |

### How they interact

There is one processor and every gate in the IDT is an interrupt gate, so a
handler (clock, serial line, system call) runs to its end before another one
begins: each handler is one atomic action. They share state through the global
queues. A system call of the current process may take it off the processor
(exit, a read with no input, sleep, fork); the clock may do so when the quantum
is used up; the serial interrupt may make a blocked reader ready. Every such
handler ends in `_dispatch`, which takes the oldest process of the best
non-empty ready queue. All queues, those of free PCBs and free stacks too, take
their nodes from one pool. fork, exec and exit take and give back segments of
memory, and with them LDTs and slots of the GDT. Before all that the boot loader
reads the table that BuildImage wrote, and the `hotswap` call ends in the boot
loader again. Only `c_getchar`, which is called with interrupts enabled, really
interleaves with a handler, the keyboard's.

### What is hard here

`hazards` in `PROJECT.json` lists each at its line. In short: a PCB lost or
queued twice by one of five handlers; the shared node pool running dry; the
ready queues empty; a read racing the arrival of its character; a fork that
returns twice into programs that print, sleep and fork; segments leaked
or shared over generations of fork, exec and exit; starvation; sleepers and the
wrap-around of the clock; merging in the free list and its node pool; the
serial buffers, whose counts and pointers are reset at different times; the
transmitter's pump; PCBs, segments, LDTs and slots that pass from process to
process in different orders;
a boot with failing reads, borders of 64K and tracks, over a running system; an
image, its arguments and its BSS in a segment that holds what others left; a
window that scrolls late, while the clock prints beside it; a ring of keystrokes
that two fill and empty without a lock.

### What makes each component correct

* **Process core** (processes, scheduler, clock, calls): each PCB is in exactly
  the queue its state names; no queue panic is reachable; dispatching follows
  priority, then age; a child runs before its parent; sleepers wake on the
  tick their time comes; no reader misses input; each segment is free or has
  one owner; every ready process of normal priority runs.
* **Address spaces** (fork, exec, exit, memory, descriptors): each process runs
  in its own segment and sees only its own stores; no slot is lost or shared.
* **Queues**: the linked lists implement FIFO and ordered queues; no node is
  lost.
* **Physical memory**: allocated ranges and free ranges partition memory; the
  free list is sorted and merged, so the node pool is large enough.
* **Serial line**: read returns the oldest character received, every written
  one is sent in its turn, and none is dropped while there is room; CR before
  each LF; the pump is primed exactly while a burst lasts, and bursts end.
* **Boot**: each sector of the image is where BuildImage was asked to put it
  before the system runs; each boot ends.
* **Loading a program** (execve, ELF loader, `strtol`, `_start`): the image that
  was asked for is found where it was linked for, BSS is zero, and its arguments
  reach `main`.
* **User programs**: each writes what it should and nothing else, and comes to
  its end.
* **Console**: the window shows the end of the text printed in it, the rest of
  the screen stays as it is, numbers are printed as documented, and the
  character of each key that has one is kept, unless the ring is full, until
  `c_getchar` or `c_gets` asks for it.

## 2. Modules

| Module | What it is | Source |
|---|---|---|
| `QueueSeqs` | predicates on sequences used as queues | |
| `Kernel` | the process core, one action per handler | `processes.c`, `scheduler.c`, `clock.c`, `syscalls.c`, `system.c`, `stacks.c` |
| `QueueSeqsProofs` | lemmas about sequences, and induction on the natural numbers | |
| `KernelProofs` | theorems | |
| `MCKernel` | small instances | |
| `ProcSpec` | processes with a private memory each | `syscalls.c` |
| `AddressSpace` | LDTs, slots of the GDT and the contents of segments, with the steps of `Kernel`; implements `ProcSpec` | `syscalls.c`, `segment.c`, `system.c`, `isr_stubs.S` |
| `AddressSpaceProofs` | theorems | |
| `QueueSpec` | abstract queues with first-in-first-out or ordered insertion | `queues.c` |
| `Queues` | the pointer-level lists and node pool; implements `QueueSpec` | `queues.c` |
| `QueuesProofs` | theorems | |
| `MCQueues` | small instance of the queues | |
| `MemorySpec` | an allocator that hands out disjoint runs of units | `segment.c` |
| `PhysMem` | the free list and its node pool; implements `MemorySpec` | `segment.c` |
| `PhysMemProofs` | theorems | |
| `MCPools` | the instance of the queues and one of the free list, each on its own | |
| `SioSpec` | what read, write and the two interrupts promise, on queues of characters | `sio.c` |
| `Sio` | buffers, pointers, counts, pump, both interrupt events; implements `SioSpec` | `sio.c` |
| `MCSio` | small instance | |
| `Printf` | `printf`: conversions and padding | `ulibc.c`, `c_io.c` |
| `ConsoleSpec` | what a key, `c_getchar` and `c_gets` promise, on a bounded queue of characters | `c_io.c` |
| `Console` | screen and keyboard; each step of its input side does what `ConsoleSpec` says | `c_io.c` |
| `DeviceProofs` | theorems about `Sio` and `Console` | |
| `MCDevices` | small instances of the serial line and the console | |
| `Programs` | the user programs on the kernel of `Kernel` | `user.c`, `user1.c`, `user2.c`, `user3.c`, `system.c` |
| `ProgramsProofs` | theorems | |
| `MCPrograms` | workloads | |
| `BootSpec` | an image put into memory piece by piece | `bootstrap.S`, `hswap.S` |
| `BuildImage` | the tool that makes the image and its table | `BuildImage.c` |
| `Bootstrap` | the boot loader on that image, and hot swap; implements `BootSpec` | `bootstrap.S`, `hswap.S` |
| `Execve` | how a process gets a new program: name, image, stack, descriptors | `syscalls.c`, `elf.c`, `ulibc.c`, `gdt_support.c`, `ustart.S` |
| `LoadingProofs` | theorems about `Bootstrap` and `Execve` | |
| `MCLoading` | small disk and memory, small images | |

### Kernel

The variables carry the names of the C globals. `state`, `prio`, `wakeup` and
`seg` are the fields of `g_pcbs[]` that decide anything; queues are sequences
of PCBs; `g_free_qnodes` counts the free queue nodes, which is all that
matters of the pool (its links are in `Queues`). `kstat` says whether the
kernel runs, has panicked (and where) or was hot-swapped.

| Action | Code |
|---|---|
| `ClockTick` | `_isr_clock`: time, wake due sleepers, quantum, `_schedule` and `_dispatch` |
| `RxInterrupt` | receive event of `_isr_sio`: wake the first reader, or buffer, or drop |
| `ExitUser`, `ExitKernel`, `ExitPanics` | `_sys_exit` with and without a segment, and where `_phys_free` refuses it |
| `ReadChar`, `ReadBlocks` | `_sys_read` |
| `Sleep`, `Yield` | `_sys_sleep` with ticks > 0 and with 0 |
| `Fork`, `ForkPanics` | `_sys_fork` |
| `Exec`, `ExecPanics` | `_sys_exec` and `_sys_execve` after their checks |
| `Hotswap` | `_sys_hotswap` |

`TakeFrom`, `Dispatch`, `Schedule`, `Enque`, `Reschedule` are the functions the
handlers call; a handler that enqueues without a free node panics as the code
does (`QueuePanic`) or, where the code ignores the status (exit), goes on.
Abstractions:

* Segments all have the size `SEGMENT_SIZE`, so first fit is "the lowest free
  one"; segment 0 is the kernel's memory. `TOP_ALIGNED` says whether the last
  segment ends exactly where memory ends, where `_phys_free` panics.
* A character is counted, not kept (`Sio` keeps it).
* A woken process's old `wakeup` is cleared, and nothing reads it before sleep
  sets it again; the C code leaves it. This keeps equal states equal.
* The first process only writes, forks and exits, and the idle process only
  writes, as in `user.c`. Every other process may make any call at any time.
* Calls that leave this state alone are stuttering steps.

### AddressSpace and ProcSpec

`AddressSpace` extends `Kernel`: each action is the action of `Kernel` and, in
the same step, what the handler does to the address spaces. `ldtr` is the slot
whose selector a PCB holds, `gdt` the PCB whose LDT a slot describes, `ldt` the
segment an LDT describes (one number, as both of its descriptors always get the
same base), `g_gdtpool` the free slots and `image` the contents of each segment,
one value each. The address space a process really runs in is found as the
processor does, from its selector to a slot to an LDT to a segment (`RunsIn`).

| Action | Code |
|---|---|
| `Store` | the current process stores into its memory (external) |
| `AFork` | `_sys_fork`: copy the segment, take a slot, set up LDT and descriptor; panics halfway when there is no slot, which the code does not look for before |
| `SysExec`, `SysExecve` | both calls after their checks, with `_exec_common`: a new segment that is a copy or a program, the same slot |
| `AExitUser` | `_sys_exit`: the slot goes back to the front of the pool |
| `OtherStep` | every other action of `Kernel` |

`AInit` is what `_init` leaves: `_init_processes` takes a slot for the temporary
PCB that becomes the first process, which then gets another one; so one slot is
in use by nobody for good. `ProcSpec` knows nothing of segments: a process has a
memory, fork copies it, exec keeps or replaces it, and processes inside the
kernel share one. The refinement mapping gives each live process the contents of
`RunsIn`.

### Bootstrap, BuildImage and BootSpec

`BuildImage` has one action per program file (`process_file`, with
`copy_file`) and one for the end of `main`; `programs` records the arguments.
`Bootstrap` starts from the image. Its variables are the registers (`ax`, `es`,
`bx`, `cx`, `di`) and the data words `sec` and `head`; one action is the read of
one sector, good (`ReadSector`) or bad (`ReadFails`), and `nextblock` takes the
next entry of the table. `Hotswap`, `disk_reset`, `disk_done` and `disk_fail`
are the way back through `hswap.S`; there the boot sector, and with it the data
words, comes from the disk again. Addresses count paragraphs of 16 bytes; the
contents of memory are names of sectors. `BootSpec` puts the pieces of the image
into memory in order and runs the system when all are there; its mapping
computes the number of pieces loaded from cylinder, head and sector.

`LoadableFiles` is what the loader needs and BuildImage does not check: no empty
file, and offsets in whole sectors. That a table which fits is followed by a
zero word comes from the size of the boot code: 188 words are left, which is not
a multiple of three (`BuildAssumption`). The table is read as written, that is,
no program is loaded over the loader itself.

### Programs

`Programs` extends `Kernel`, where any process may make any call at any time; here
a process makes the calls of its program, in order. `code[p]` is what process `p`
has still to execute: a list of statements, cut down as they are done. Each
step is the action of `Kernel` for the statement at the head (`DoWrite`, `DoRead`,
`DoSleep`, `DoExit`, `DoFork`, `DoForkFails`, `DoExec`, `DoExecve`, `DoHotswap`)
together with what the program sees of it: fork goes on with one branch in the
parent and another in the child, chosen by the value in `eax`; a function that
returns finds `exit` as its return address. The clock and the serial interrupt
come at any time. `spawn` is the set of `SPAWN_x` symbols the kernel was built
with, and `printed` counts what came out.

Delay loops, `gettime`, `getpid`, `puts` and `printf` change none of this and are
left out. Scaled: loops run at most `ROUNDS` times (`FORKS` times if they fork);
a sleep of ten seconds or more takes two ticks, a shorter one takes one; pids
wrap around at `PID_MOD` instead of 2^16. `EnoughMemory` gives each PCB a segment,
so that no program stops in a panic of fork or exec, which `Kernel` has. `Outcomes`
computes from a program's text alone, statement by statement from its end, what may
have been printed when it and all it starts have come to their ends: a fork fails or
returns twice, an exec never returns. A program starts programs that start others at
most once more, so two rounds over all texts (`LastRuns`, `Runs`) give what each may
print. `OutputComplete` compares that with what was printed. `user_r_main`'s branch for a `read`
that returns -1 is left out, because `_sys_read` never does.

### Execve

One process calls `execve` with any name and arguments (`Execve`), `exec`
(`Exec`), and `_start` of the new program runs (`_start`). Memory is an array of
bytes; a byte names what it holds: zero, a character, a place in an image, a part
of a stored word, or something left over. So a byte that was overwritten, or is
found at another address than it was linked for, is told apart from the right one.
The operators follow the code: `strtol` on the name, `_elf_valid`, `_elf_load` over
the program headers with its early stop, `Pointers`, `Words` and `Prepared` for the
stack that `_exec_common` builds downwards, `__set_descriptor` for the packing of the
base, and `Base` and `Fetch` for what the processor makes of it. What a handler
writes is a list of stores, of which the last one over a place counts (`Stored`). `at` says where
the process is: in `main`, at `_start`, in a function that `exec` started,
`refused`, or stopped: `overrun` when the arguments do not fit on the stack,
`wild` when there is no code at the entry.

`ProgramStarts` and `ArgumentsReachMain` hold under conditions that the programs
of the repository meet and that are named, because the code needs them:

* `ImagesAssumption`: the images are as the Makefile links them. The programs begin
  behind the stack (0x1000, which is `STACK_SIZE * 4`) and the kernel at 0x10000, the
  parts of an image and its BSS are apart, and its entry is in one of the parts.
* `Ordered`: no loadable header behind one that is not. `_elf_load` stays at the
  first that is not (the `continue` skips `++pheader`).
* `IsPlain`: after blanks, the name begins with 0. `strtol` skips everything up
  to the first zero.
* `Proper`: no argument is the empty string. Strings are copied below each other
  at a distance of four times their length, which for an empty one is nothing.

### Queues and QueueSpec

`Queues` has the nodes as records of data, type, next and prev, a free list and
any number of queues, and `_enque` with its four ways to splice. (Its `QInit` and
`QNext` are named so that `MCPools` can have it beside `PhysMem`.) The refinement
mapping follows the `next` links from `front` (`Chain`); `QueueSpec` says the
same with sequences: an unordered queue appends, an ordered one inserts before
the first greater element.

### PhysMem and MemorySpec

`PhysMem` has the free list as a sequence of blocks with offset and length and
counts the nodes of the pool. `_phys_alloc` is first fit and cuts from the low
end; `_phys_free` finds its place and merges on both sides. Addresses are in
units (a page, or a megabyte), which loses nothing, as the code never looks
below the length asked for. `MemorySpec` only says that an allocation gets a
run of free units. What is freed is exactly what was allocated, because the
only callers pass on the block a PCB holds.

### Sio and SioSpec

`Sio` has the buffers with offsets for the pointers `g_innext`, `g_inlast`,
`g_outnext`, `g_outlast`, the counts and `g_sending`; `TxDone` and `Arrive` are
the UART (external). A handler of the code loops over all pending events; each
event is one action here, which allows every behaviour of the loop. The
statuses `overrun_in` and `overrun_out` mark a store outside of a buffer, after
which C promises nothing and the model stops; `ImplementsSio` is about all
behaviour up to there.

`SioSpec` has the queues of received and of written characters (`input`, `output`),
the character that the UART has just received (`receiver`), the processes that wait
(`waiting`), what `read` returned last (`got`, which is `eax` here) and what was sent
last. So it says which character `read` delivers. `ImplementsSio` says that every
step is one of `SioSpec` or changes nothing of this, and besides that each call and
each interrupt is the step it should be (`AllAnswered`): a `Read` that returned another
character than the oldest, a `Write` that stored nothing, or a received character that
got lost while there was room and nobody waited, would each violate it. `got` is left
open in one case, the reader that the interrupt wakes, where the code is wrong (see
`sio_reader`).

### Console, Printf and ConsoleSpec

The screen is one record: the driver's static variables, the hardware cursor and
the video memory. Each routine of `c_io.c` is an operator from a screen to the
screen it leaves; the kernel and its system calls print with interrupts off, so
a call is one step. `c_getchar` and `c_gets` may run with interrupts on. They are
split where they touch the ring: `Arrived` sees that it is not empty, `Fetch`
reads the character, `Return` moves `next_char`, `Echo` prints it; with interrupts
off `Poll` reads the controller itself. A key leaves its code in the controller
(`Keystroke`, external) until the handler (`__c_keyboard_isr`) or `Poll` takes it, and
the handler may run between any two of these steps. No code of the kernel calls `c_getchar`; the interface offers it.

The scan code table has a key of each kind: one with and without Shift, Enter, one
that is not defined, releases, Shift and Ctrl. `program` is one of seven ways to
use the console, with the arguments of its calls: the kernel's own use (a window
under a fixed line and the clock's pinwheel in its corner), everything the
interface offers, lines, keys with and without interrupts, and fields of `printf`.
`ConsoleSpec` has the characters kept (`queue`), which of Shift and Ctrl are held, the
call that waits (`call`, `size`) and what it has got (`got`); `Press`, `CallGetchar`,
`CallGets` and `Take` are its steps. `InputAsTyped` ties each step of `Console` to
the one it must be (`InputAnswered`): when the code of `d` is taken, the character for
it that Shift and Ctrl ask for is stored unless there is no room; `Return` takes the
oldest character and gives it to the call; and no other step touches the queue. It
says nothing of what the code of an undefined key does, but that this is at most one
character more: `UndefinedIgnored` is about that, and is violated.

`text` remembers what was printed in the window, as the reference for
`WindowShowsText`, up to `MAX_TEXT` characters; it is not kept for the uses that
move the window or the cursor. `Printf` has the conversions as they are in C, with
32-bit integers. `FieldsAsDocumented` computes the number that the printed digits
stand for: in `%d` it is the int that was given, the smallest one too; in `%x` it
is that int or, if it is negative, the digits are its two's complement, eight of
them. In `%o` the same is asked of an int that is not negative. Of a negative one only
the lower 32 bits are asked for, with the eleven digits that the code gives: these
have 33 bits, the first of them set, so that -1 is 77777777777 where the value of
`unsigned` would be 37777777777. `c_io.h` says "octal value" and no more.

## 3. Runs

| Run | Question | Bounds and why they suffice |
|---|---|---|
| `kernel_safety` | do the process queues, nodes, segments, priorities, wakeups stay right under every interleaving? | four PCBs: first, idle and two users, so that one can run while another sleeps, is blocked or waits, and two queue behind each other; 8 nodes, the least that `KernelAssumption` allows; 4 segments of which the last is at the top of memory, so that all can hold one, exec succeeds, and an exit from the last one panics; 5 ticks, more than any quantum plus the longest sleep; no clock wrap |
| `kernel_liveness` | does every ready process run and every sleeper wake? | the clock wraps every 4 ticks and never stops; 2 segments, so that memory runs out; a buffer of one |
| `kernel_wrap` | *violation*: sleepers near the wrap of the clock | a clock of 8 ticks stands for 2^32 |
| `pools` | do the lists implement queues? does the free list implement the allocator? | queues: 4 nodes, a plain and an ordered queue, data 1..3 with ties: all four splices and the empty pool occur. Memory: 8 units, requests of 1, 2, 3: merging on either side, on both and on none; a pool of 3 nodes, one fewer than 8 units can need (when every second one is free), so that the panic on an empty pool occurs too. The two share no state and run one at a time |
| `memory_top` | *violation*: the block that ends at the top | 3 blocks |
| `devices` | do the buffers and the pump implement queues? does the screen show what was printed, and does each key's character reach the program? | serial line: buffers of two, characters CR, LF and one other, two processes. Console: a screen of three by three, with windows of four shapes, so that there is something on each side of one; text of up to six characters, more than the kernel's window of four holds; a ring that holds two characters, so that it is full soon; a table of scan codes with a key of each kind, and buffers of `c_gets` for none and for two characters; `printf` of the smallest and largest numbers, zero, minus one and numbers wider than the field. The two share no state and run one at a time |
| `console_undefined` | *violation*: keys without a character | as above |
| `sio_reader` | *violation*: the woken reader's character | as above |
| `sio_overrun` | *violation*: room in the input buffer | as above |
| `address_space` | does each process run in its own segment, and see only its own stores? | three PCBs, of which two can be users once the first process has gone and its PCB is used again; three segments, so that fork and exec succeed and fail; 13 slots, the fewest that `SlotAssumption` allows; the clock stands still, since yield and read already change the current process. (Four PCBs, three segments and 14 slots, 1.8 million states, pass as well.) |
| `loading` | is every image loaded where it was asked for, and does every boot end? does a process find its program and its arguments? | boot: files of one to three sectors; 64K are two sectors and the disk is two tracks of two heads of two sectors, so that a program crosses both kinds of border and an image can be as large as the disk; a table for two programs and memory for twelve paragraphs, so that every check of BuildImage fails somewhere; four files are one more than `info` can hold. Execve: words of two bytes, a stack of 16, segments at 9 and 38 whose bases differ in all three parts of a descriptor (of 4, 4 and the rest); five images, with text and data, BSS, a header that hides the text, and no image at all; all names of up to two characters and some of three; up to three arguments of up to three characters, so that they fit, are too many, too long or empty. The loader is gone when a process runs, so the two are checked one at a time |
| `programs` | does each user program write what it should, and end? | 15 workloads, in which every program runs and those that sleep, fork and print run together; four PCBs, so that forks fail and PCBs are used again; a clock that wraps every four ticks and never stops; two rounds of each loop, so that each loop is entered again; pids wrap at 16, more than a workload uses |

Deadlock is not checked, because the systems really stop: the kernel after a
panic or a hot swap (and at the bound `MAX_TIME` of the clock), the
serial line after an overrun, the allocator when it panics, the loader when it
freezes with a message, a program when its memory is overrun, a console whose
program has printed all it may.

The type invariants of `PhysMem`, `Sio` and `Console`, `CountsAgree` of `Sio` and
`SpacesTypeOK` of `AddressSpace` are no invariants of a run: they are proved. Those of
`Queues` and `Bootstrap` are part of the inductive invariants of their proofs.

What the violations show:

* **`kernel_wrap`**: `_isr_clock` compares wakeup times as unsigned numbers,
  the sleep queue by signed difference. A process that calls sleep just before
  the clock wraps is woken on the next tick. (No sleeper is lost:
  `SleeperWakes` holds across the wrap.)
* **`memory_top`**: `_phys_free` refuses the block that ends exactly at the
  top of memory; `_phys_alloc` hands it out. With a whole number of megabytes
  the exit of the process that got it stops the kernel.
* **`sio_reader`**: the receive interrupt writes the character through
  `pcb->context`, which for a process with a segment is relative to that
  segment. The reader is woken without it.
* **`sio_overrun`**: room is judged by the count, but the store pointer only
  goes back when the buffer is read empty.
* **`console_undefined`**: a key without a character has 255 in `scan_code`, whose
  elements are `unsigned char`; the test for `'\377'`, which is -1, never finds it, and
  the key puts 255 into the ring, or 31 with Ctrl. `c_io.c:603` says it is ignored.

### Fairness

* `FairSpec` of `Kernel`: weak fairness of `ClockTick` only. The interval timer keeps
  interrupting, and the processor runs with interrupts enabled outside of
  handlers (`DEFAULT_EFLAGS`). Nothing is assumed of processes: one that loops for
  ever is the case `ReadyRuns` is about.
* `PFairSpec` of `Programs`: weak fairness of `ClockTick`, and for each process strong
  fairness of its next statement. The processor executes the instructions of
  whoever is current; a process that is dispatched again and again goes on each
  time where it was interrupted, and so finishes its statement. Weak fairness
  would not do, since the clock takes the processor away in between.
* `DFairSpec` of `MCDevices`: weak fairness of the UART finishing a character
  (`TxDone`) and of its interrupt being taken (`TxEvent`). Nothing is assumed of
  processes, or of the console.
* `LSpec` of `MCLoading`: weak fairness of the loader's next step, that is, BIOS
  calls return. Which reads fail, and what the user answers to the hot-swap
  prompt, is left open.

## 4. Proofs

`KernelProofs` proves, for any number of PCBs, nodes (at least two per PCB),
segments, sleep lengths, buffer size and clock width (`KernelAssumption`):

| Theorem | Property |
|---|---|
| `TypeCorrect` | `TypeOK` |
| `QueuesCorrect` | `OneQueuePerPcb` |
| `KernelProcessesCorrect` | `KernelProcesses` |
| `NoQueuePanics` | `NoQueuePanic` |
| `ReadersMissNoInput` | `NoReaderMissesInput` |
| `SegmentsCorrect` | `EachSegmentHasOneOwner` |

The inductive invariant of the first four is the conjunction `TypeOK /\
OneQueuePerPcb /\ KernelProcesses /\ NoQueuePanic`. None of the last three is
inductive alone. That the pool never runs dry follows from counting: each PCB
but the current one, and each free stack, holds one node; that count is only
kept if every PCB is in one queue exactly once, and that in turn is only kept if
no handler finds the pool empty. That the dispatcher finds a process follows
from the idle process being ready whenever it is not current, which holds
because it is the only one of priority `PRI_MINIMUM`, and `MayCall` lets no
process of that priority leave. The last two theorems are proved on top of it.

The steps are organised by what the handlers have in common: lemmas say what
`Schedule`, `TakeFrom`, `Dispatch`, the waking of a prefix of the sleepers
and the insertion of a sleeper do to the membership and the distinctness of the
queues, one lemma per action puts them together, and the theorems split on
`Next`. `QueueSeqsProofs` has the facts about sequences (what appending,
taking the tail, concatenating and cutting out hold).

From the same assumption, it proves the action properties:

| Theorem | Property |
|---|---|
| `BestDispatched` | `DispatchesBest` |
| `NobodyOvertakes` | `NoOvertaking` |
| `ChildrenRunFirst` | `ChildRunsFirst` |
| `SleepersWakeOnTime` | `WakesOnTime`, if `NoWrap` |

The first three rest on one fact about all handlers (`NextHandles`): each stops the
system, or appends to the ready queues, every process to that of its priority, and
then dispatches at most once, from the front of the best queue that is not empty.
What is in front of a process can so only become less. The fourth has an inductive
invariant of its own, `OnTime`: the sleep queue is in order of time and nobody in it
is due already, or half of the clock's range or more ahead. Of such times
`cmp_wakeup`, a signed difference, is the difference of the numbers (`NearTimes`),
so that `_sys_sleep` inserts where it should and the clock, which stops at the first
that is not due, wakes all that are. `NoWrap` says that neither the clock nor any
wakeup time gets past the end of the range, and that no sleep is as long as half of
it: the theorem is about the time before the first wrap. `kernel_wrap` shows what
happens after it.

`AddressSpaceProofs` proves, for any number of slots of at least one for each PCB
and three more besides the reserved ones (`SlotAssumption`), and any contents:

| Theorem | What it says |
|---|---|
| `ImplementsKernel` | `AddressSpace` implements `Kernel`, whose theorems so hold of it |
| `SpacesTyped` | `SpacesTypeOK` |
| `SegmentsFound` | `EachRunsInItsSegment` |
| `SlotsKept` | `SlotsConserved` |
| `NoSlotPanics` | `NoSlotPanic` |
| `ProcessesImplemented` | `ImplementsProcesses`: `AddressSpace` implements `ProcSpec` |

`EachRunsInItsSegment` and `SlotsConserved` are inductive together: a slot that
fork takes overwrites no live process's entry because none holds a free slot,
and the slot that exit frees is no other's because none is shared. That the pool
never runs dry is a count: free slots and user processes always add up to the
same number, and while a PCB is free, which fork needs first, there are at most
`N_PROCESSES - 2` user processes. The refinement needs one thing more, that no
two processes have the same segment: `EachSegmentHasOneOwner`, which comes from
`KernelProofs` by way of `ImplementsKernel`. The mapped step is then found
action by action: a store changes one process's memory because `RunsIn` of the
others is elsewhere, and a handler that changes only queues is a switch.

`PhysMemProofs` proves, for any memory, sizes and number of blocks
(`MemoryAssumption`):

| Theorem | Property |
|---|---|
| `Typed` | `TypeOK` |
| `ListSortedAndMerged` | `SortedAndMerged` |
| `EveryNodeKept` | `NodesKept` |
| `NodesSufficeAlways` | `NodesSuffice` |
| `MemoryKept` | `NoneLostNoneShared` |
| `MemoryImplemented` | `ImplementsMemory`: `PhysMem` implements `MemorySpec` |

The inductive invariant is that the list is in order with a gap between any two
blocks, that every node is counted, and that each unit is held by exactly one free
block or one owner. `_phys_free` needs all of it: that it merges on the right side
comes from the order, and that it finds a node in the pool from the count. The
lemmas describe the list after one block is put in, taken out or changed
(`Splice`, `Patched`, `Removed`), so that each of the ways to merge is a few facts
about its neighbours. `NodesSufficeAlways` follows by counting: since free blocks
do not touch, an allocated one lies between any two, and these are different, so
the list has at most one node more than there are allocated blocks.

`DeviceProofs` proves of `Sio`, for any characters, processes and size of the buffers
(`SioAssumption`):

| Theorem | Property |
|---|---|
| `SioTypes` | `TypeOK` |
| `CountsAgreeAlways` | `CountsAgree` |
| `PumpAlwaysPrimed` | `PumpPrimed` |
| `LinesEndWell` | `CrBeforeLf` |
| `SioImplemented` | `ImplementsSio`: as long as nothing is overrun, `Sio` implements `SioSpec`, each handler as the step it should be |

The first three are inductive together with one fact more, that both buffers hold
characters between their pointers: without it the transmitter might be given a
place that was never written. The refinement maps the part of a buffer between
its pointers to a queue; lemmas say what storing at one end and taking from the
other do to it, and `CallsRefined` puts together what each handler does. `LinesEndWell` is proved from the refinement, as a property of
characters sent followed by characters waiting that each abstract step keeps.

`QueuesProofs` proves, for any number of nodes and queues and any comparison of
integer results (`QueuesAssumption`):

| Theorem | Property |
|---|---|
| `NoNodeEverLost` | `NoNodeLost` |
| `AlwaysLinked` | `WellLinked` |
| `QueuesImplemented` | `ImplementsQueues`: `Queues` implements `QueueSpec` |
| `SleepersEverSorted` | `SleepersSorted`, if `ComparesAsOrder` |

The properties look at a queue through `Chain`, a recursive function that follows
`next` with as much fuel as there are nodes. The inductive invariant says it without
recursion: the fields have their types, and the nodes are divided among lists, one
for each queue and one for the pool, along which `next`, `prev`, `front` and `back` are
threaded (`Partition`). `ChainIsPath` shows once, by induction on the fuel, that
`Chain` returns such a list; that a list without repetition has no more elements than
there are nodes, so that the fuel suffices, is `NodesFit`. `_enque` moves the front of
the pool into a list and `_deque` the front of a list into the pool; each of the four
splices is one case. `SleepersEverSorted` has a hypothesis on the comparison
that not every comparison meets: that it is an order on the data.
`WakeupsCompareAsOrder` shows that `cmp_wakeup`, on times less than half of the
clock's range apart, is one; `SleepersWakeOnTime` of `KernelProofs` shows that the
sleepers' times are, before the first wrap.

`LoadingProofs` proves, for any programs, addresses, memory and disk
(`BuildAssumption`, `LoadableFiles`, `DiskAssumption`), and for any sizes of words,
stacks and segments, any images and any calls of execve (`ExecveAssumption`,
`ImagesAssumption`):

| Theorem | Property |
|---|---|
| `BootImplemented` | `ImplementsBoot`: `Bootstrap` implements `BootSpec` |
| `LoadingInvariant` | the invariant `XInv` of `Execve` |
| `ProgramAlwaysStarts` | `ProgramStarts` |
| `ArgumentsAlwaysReachMain` | `ArgumentsReachMain` |

The invariant of `BootImplemented` has two halves. `Image` says how the files, the table and the sectors
of the image belong together while BuildImage runs and after; `Layout` and `Loader`
say, with the number of sectors in front of each program as a witness, which sector
of the image is the next to be read: cylinder, head and sector count it, `es` and `bx`
are where it belongs, and `ax` and `di` are what is left of its program and of the
table. So the read of a sector is a `Load` of `BootSpec`, at whatever border of a track
or of 64K it happens; the start of the system is `Run`, and
happens only when the sectors read are all there are; a failing read is a stutter
or, the third time, a `Stop`; the hot swap is `BootAgain`; a step of BuildImage is
an `Edit` of the image or a stutter. The image is `FlattenSeq` of the files, a recursive
function of the community modules: `FlattenDefined` (in `QueueSeqsProofs`) shows that it
exists, and `FlattenFacts` that it grows at its end.

`XInv` says where a process's program is while it runs: a process of the kernel's
image has all of that image in its segment, and may start other functions in it
(`KernelRuns`); at `_start` the image that was asked for is in its place, and in
`main` its BSS is clear besides (`ImageRuns`); and the arguments are on the stack
(`ArgumentsThere`). It is inductive for three reasons. Nothing stores on top of
anything else: the strings lie below each other and above the array (`PointersApart`,
`PreparedFacts`), the image is behind the stack, and so is the BSS that `_start` clears,
which therefore leaves the arguments alone (`Undisturbed`). A descriptor that was packed
from a base unpacks to that base (`Descriptor`, which is division with remainder, twice).
And the number that `strtol` computes digit by digit is the one that is written
(`NumberIsWeighted`, by induction on the digits), so that of a plain name it finds the
image (`PlainNames`). That the kernel's image begins behind the stack, and not at its
end, is needed too: the terminating zero of an empty string that exec passes is stored
at the end of the stack.

`DeviceProofs` proves of `Console`, for any screen, ring and programs (`ConsoleAssumption`,
`UsesAssumption`):

| Theorem | Property |
|---|---|
| `ConsoleTypes` | `CTypeOK` |
| `ScreenRegionsSeparate` | `RegionsSeparate` |
| `KeysArriveAsTyped` | `InputAsTyped`: each step of the input side does what `ConsoleSpec` says, undefined keys apart |
| `WindowAlwaysShowsText` | `WindowShowsText` |
| `FieldsEverAsDocumented` | `FieldsAsDocumented`, of a negative `%o` its lower 32 bits only |

The first three rest on the invariant `InputInv`: types; that between the two steps
in which `c_getchar` fetches a character and moves the pointer the ring is not empty
and that character is its first (`Reading`); and that the line of `c_gets` leaves
room for another character and the end of the string (`LineFits`). The ISR may come
between any two of these steps, and only stores where nothing waits. `StoredFacts`,
`TakenFacts` and `ScanCodeFacts` say what storing, taking and a scan code do to the
queue in the ring (`Waiting`), and `StepsAnswer` that each step is the one of `ConsoleSpec`. `WindowAlwaysShowsText` has
an invariant of its own, `TextInv`. It follows a text on an endless roll of paper as
wide as the window: the cursor is where the pen is on that roll (`Follows`), and the
window is the part of the roll that begins at `TopLine` (`Page`). Since `c_putchar`
scrolls late, only when something is to be written below the window, that top line
follows from the pen before the last character and not after it. `LineFollows` is the
late scroll, `PutcharFollows` what one character does, and `PutsFollows` what a string
does, by induction on its length. `UsesAssumption` names what this needs: a program
whose text is remembered leaves window and cursor to the driver, and prints
elsewhere only above the window, as the kernel does. The loops of `c_puts` and
`c_puts_at` are recursive functions; `Repetition` shows that they exist.

`FieldsEverAsDocumented` is about every 32-bit int, where the run has ten. `Counts`
gives the number that the digits up to each one stand for, so that the recursive
function of `Number` need not be unfolded (`NumberFacts`, `NumeralFacts`). `Decimal`
calls itself with a tenth of its argument; `DecimalRule` shows that such a function
exists, and `DecimalFacts` and `DecimalLength` what it computes, by induction on the
number. The digits of `%x` and `%o` are the number divided by falling powers of the
base (`PositionFacts`, for negative numbers too), of which leading zeros are left out
(`SignificantFacts`); `CvthexFacts` and `CvtoctFacts` put both together.
`IntAtFirst` puts the four bytes on the stack
together to the int they were.

`ProgramsProofs` proves, for any numbers of PCBs, segments and rounds and any workloads
(`KernelAssumption`, `ProgramsAssumption`, `EnoughMemory`), and as long as pids do
not wrap around (`[](g_next_pid # 0)`):

| Theorem | Property |
|---|---|
| `CallsAreThoseGranted` | `CallsTakenForGranted` |
| `OutputIsComplete` | `OutputComplete` |

The hypothesis is about behaviour the code has: `_sys_fork` gives the child the next
16-bit pid and returns it to the parent, and when that is 0 the parent goes on as the
child does. `programs` makes too few processes to get there.

The invariant `PInv` adds two things to that of `Kernel`, whose steps those of
`Programs` are (`StepsOfKernel`). Each process has code for its priority and its
segment (`Good`): it ends with an exit; that of the first process starts no program
itself, and does nothing after a fork that it would not do if the fork had failed;
that of the idle process is a loop that only writes. And to each process belongs a
depth, which falls with every exec, so that two rounds of `Outcomes` are enough.

The second is an account (`Promised`): choose for each live process any outcome of what
it has still to execute; then what has been printed, and all of these together, is an
outcome of the workload. When nobody is left, that is `OutputComplete`. A write moves a
character from an outcome of the writer to `printed`; a fork divides the outcome of the
parent between two processes; an exec puts the outcome of a program in the place of a
statement; a process that ends leaves nothing to come. A sum over all processes would
need induction for each of these steps. Instead `Sums` is a running total from one
PCB to the next, and `Shift` changes it by what moves between two of them. The account
is not kept when a process never ends (`NeverGone`): what that one writes is not
counted, and then not all have gone. What the account needs of `Outcomes` is what it makes of the next
statement (`CodeRules`) and of a branch joined to what follows it (`JoinResults`); both
rest on `BranchFacts` and `CodeFacts`, that the recursive functions exist.

Recursion. Where a proof needs what a loop computes, the loop is a recursive function,
and `LeastNatural` and `SetInduction` of `QueueSeqsProofs` are induction on the
natural numbers for a set instead of a predicate, which the provers can instantiate.
`Repetition` shows that such a function exists and `StepInduction` what it keeps; the
loops of `c_puts`, `strtol` and `_exec_common` and the statements of `Outcomes` are all
instances.
No module declares a `RECURSIVE` operator.

Only model-checked:

* liveness: the prover has no fairness rules for it here;
* the user programs after pids have wrapped around.

## 5. Not modelled, and why

* **Hardware**: the switches between real and protected mode, the A20 gate, the
  programming of timer and PIC, and the interrupt stubs are sequential assembly
  around the hardware. The models take from them that handlers are atomic and that
  a context restore loads the LDTR. Of a saved context they have `eax`, `eip` and
  `esp`. The TSS is written once and never used for a switch.
* **No caller**: `_phys_resize`, `mem_test_main` and `busy_wait` of `user.c`, and the
  functions of `gdt_support.c` that set or
  get one field of a descriptor.
* **Output only**: the texts of messages and of `_kpanic`; `Offsets` and `ElfTest`,
  which print what they read.
* **Left to the compiler or the machine**: what is behind the arguments of `user1`
  and `user2`, which have no NULL at their end; what a process finds beyond its own
  segment, although the limit in the descriptor would let it look (256M).
* **In C only**: the step of the pointer for `%c`; a second Shift key; `c_gets`
  with a size of zero, which returns at once as with one.
* **Modelled, but no property asks for it**: the digit in front of the 32 bits of a
  negative number in `%o`; the cursor after `c_clearscroll`, which the code leaves where
  it was, although `c_io.h:141` says that it moves to (0,0). The coordinates that the
  screen's routines are called with are natural numbers, as in C (`UsesAssumption`).
* **Project report**: documentation.

## 6. Plan

Done in this order: `Kernel` with its proofs, then `Queues`, `PhysMem`, `Sio` with
their abstract specifications, `AddressSpace` with its proofs, `Bootstrap`,
`Programs`, `Execve`, `Console`, the proofs of `PhysMem` and `Sio`, those of the
action properties of `Kernel`, and those of `Queues`, `Bootstrap`, `Console`,
`Execve` and `Programs`. What is left:

1. Saved contexts on the stacks, with the frames of nested interrupts that
   `isr_stubs.S` builds, below the atomic handlers of `Kernel`.
