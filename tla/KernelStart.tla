---------------------------- MODULE KernelStart -----------------------------
(***************************************************************************)
(* main() of the kernel up to its threads: the order in which vectors,     *)
(* interrupt mask, memory, paging, timer and drivers come to life, with    *)
(* the interrupts that may already arrive, and delay(), on which the       *)
(* drivers' start rests.                                                   *)
(*                                                                         *)
(* A definition without a comment that stands before another of a similar  *)
(* name is that operation with a mistake in it.                            *)
(***************************************************************************)
EXTENDS MemoryMap, FiniteSets

CONSTANTS
    Boards,         \* ram in 64 KB blocks, whether addresses wrap behind it, whether
                    \* there is a drive at 0x1F0, and what is in drive A:
    KernelEnds,     \* [text, bss]: ends of the kernel's text and of its image, bytes
    MaxLost         \* bound on timer periods whose interrupt is lost in a delay

BlockPages == 16        \* pages in 64 KB
AddressBlocks == 65536

ASSUME BoardsAssumption ==
    Boards \subseteq [ram : 1 .. AddressBlocks - 1, wraps : BOOLEAN, ide : BOOLEAN,
                      floppy : {"none", "empty", "disk"}]
ASSUME EndsAssumption ==
    KernelEnds \subseteq {k \in [text : Nat, bss : Nat] : Text < k.text /\ k.text <= k.bss}
ASSUME KernelFits ==
    /\ \A b \in Boards, k \in KernelEnds : (k.bss + 65535) \div 65536 < b.ram
    /\ \A k \in KernelEnds : k.bss <= 7340032
ASSUME MaxLostAssumption == MaxLost \in Nat

VARIABLES
    board, kernel,  \* the machine, the linked image
    at,             \* where main() is
    eflags_if,      \* interrupts are enabled
    enabled,        \* IRQs irq_mask does not mask
    requested,      \* IRQs the interrupt controllers hold
    idt,            \* the handler of each IRQ
    threads,        \* multi_init() has run
    mem,            \* the block detect_memory() looks at
    size,           \* mm_stat.size, in pages
    list,           \* the list of user pages: none, made, overwritten
    paging,         \* cr0
    mm_initialized,
    fdc,            \* waits of the floppy's requests so far, and done
    wait            \* for ticks to come: periods asked for, passed, and lost

machine == <<board, kernel>>
irqs == <<eflags_if, enabled, requested, idt, threads>>
memory == <<mem, size, list, paging, mm_initialized>>
vars == <<machine, at, irqs, memory, fdc, wait>>

Irq == {0, 1, 6}        \* timer, keyboard, floppy: those that are ever enabled

NoWait == [ticks |-> -1, asked |-> 0, periods |-> 0, lost |-> 0]

\* As EnterKernel() leaves the machine.  What the BIOS has left in the interrupt
\* controllers is lost when irq_init() programs them.
Init ==
    /\ board \in Boards /\ kernel \in KernelEnds
    /\ at = "try_ide"
    /\ eflags_if = FALSE
    /\ enabled = {} /\ requested = {}
    /\ idt = [i \in Irq |-> "none"]
    /\ threads = FALSE
    /\ mem = 0 /\ size = 0
    /\ list = "none"
    /\ paging = FALSE /\ mm_initialized = FALSE
    /\ fdc = [waits |-> 0, done |-> FALSE]
    /\ wait = NoWait

Goto(from, to) == at = from /\ at' = to

-----------------------------------------------------------------------------
(* delay() *)

Waiting == wait.ticks >= 0

PeriodsOf(x) == (x * 60) \div 1000

TicksShort(x) == [ticks |-> PeriodsOf(x) - 1, asked |-> PeriodsOf(x), periods |-> 0, lost |-> 0]

\* The processor is given away while timer_ticks <= tmp; ticks is tmp - timer_ticks.
Ticks(x) == [ticks |-> PeriodsOf(x), asked |-> PeriodsOf(x), periods |-> 0, lost |-> 0]

\* A short delay, or one with interrupts disabled, counts by itself instead.
Delay(x) == wait' = IF x <= 166 \/ ~eflags_if THEN NoWait ELSE Ticks(x)

\* floppy_wait(): while tmout > timer_ticks.
TimeOut == [ticks |-> 99, asked |-> 0, periods |-> 0, lost |-> 0]

Delaying == Waiting /\ wait.asked # 0

\* From one place in main() to the next, with a delay there.
Step(from, to, x) == ~Waiting /\ Goto(from, to) /\ Delay(x)

-----------------------------------------------------------------------------
(* Before there are interrupts *)

\* try_ide() polls a drive.  Without one the bus reads busy, for ever.
TryIde ==
    /\ board.ide
    /\ Step("try_ide", "tables", 15000)
    /\ UNCHANGED <<machine, irqs, memory, fdc>>

\* interrupts_init()
InterruptsInit ==
    /\ Step("tables", "irq_init", 1000)
    /\ idt' = [i \in Irq |-> "dummy"]
    /\ UNCHANGED <<machine, eflags_if, enabled, requested, threads, memory, fdc>>

IrqInit ==
    /\ Step("irq_init", "multi_init", 1000)
    /\ enabled' = {} /\ requested' = {}
    /\ UNCHANGED <<machine, eflags_if, idt, threads, memory, fdc>>

MultiInit ==
    /\ Step("multi_init", "mm_init", 1000)
    /\ threads' = TRUE
    /\ UNCHANGED <<machine, eflags_if, enabled, requested, idt, memory, fdc>>

-----------------------------------------------------------------------------
(* mm_init() *)

\* detect_memory() writes to address 0 first, then to the first word of each 64 KB
\* behind the kernel.
DetectMemory ==
    /\ Step("mm_init", "probe", 0)
    /\ mem' = (kernel.bss + 65535) \div 65536
    /\ UNCHANGED <<machine, irqs, size, list, paging, mm_initialized, fdc>>

\* What is written there can be read, and has not changed what is at address 0.
Answers(a) == a < board.ram \/ (board.wraps /\ a % board.ram # 0)

ProbeNext ==
    /\ Answers(mem)
    /\ Goto("probe", "probe")
    /\ mem' = (mem + 1) % AddressBlocks
    /\ UNCHANGED <<machine, irqs, size, list, paging, mm_initialized, fdc, wait>>

ProbeEnds ==
    /\ ~Answers(mem)
    /\ Goto("probe", "memmap")
    /\ size' = mem * BlockPages
    /\ UNCHANGED <<machine, irqs, mem, list, paging, mm_initialized, fdc, wait>>

\* mm_init_memmap(); mm_init() then asks for 256 user pages.
InitMemmap ==
    /\ at = "memmap"
    /\ at' = IF size < 2048 \/ UserPages(size, kernel.bss) < 256 THEN "halted" ELSE "list"
    /\ UNCHANGED <<machine, irqs, memory, fdc, wait>>

\* The loop of mm_init() writes where kernel_buffer points, which is never assigned:
\* to address 0 and behind it, if the pointer has been cleared.  Then mem_create_user().
CreateUser ==
    /\ Goto("list", "paging")
    /\ mm_initialized' = TRUE
    /\ list' = "made"
    /\ UNCHANGED <<machine, irqs, mem, size, paging, fdc, wait>>

\* The tables are written, then cr3 and cr0.
PagetblInit ==
    /\ TablesEnding(size)
    /\ Goto("paging", "timer_init")
    /\ paging' = TRUE
    /\ list' = IF TablesEnd(size, kernel.bss) > KernelStart(size, kernel.bss) THEN "overwritten" ELSE list
    /\ UNCHANGED <<machine, irqs, mem, size, mm_initialized, fdc, wait>>

\* Their address passes the end of memory unseen, and tables are written for ever,
\* over everything.
PagetblWraps ==
    /\ ~TablesEnding(size)
    /\ Goto("paging", "lost")
    /\ list' = "overwritten"
    /\ UNCHANGED <<machine, irqs, mem, size, paging, mm_initialized, fdc, wait>>

-----------------------------------------------------------------------------
(* Devices *)

\* interrupt_install(), then irq_enable(), with interrupts disabled.
Install(i) ==
    /\ idt' = [idt EXCEPT ![i] = "own"]
    /\ enabled' = enabled \cup {i}

\* timer_init(); timer_get_type() leaves interrupts as they were.
TimerInit ==
    /\ Step("timer_init", "keyboard_init", 1000)
    /\ Install(0)
    /\ UNCHANGED <<machine, eflags_if, requested, threads, memory, fdc>>

KeyboardInit ==
    /\ Step("keyboard_init", "interrupts", 1000)
    /\ Install(1)
    /\ UNCHANGED <<machine, eflags_if, requested, threads, memory, fdc>>

\* interrupts_ok has been set, without which interrupts_enable() panics; then
\* trace_message().
InterruptsEnable ==
    /\ ~Waiting
    /\ Goto("interrupts", "cpu_init")
    /\ eflags_if' = TRUE
    /\ wait' = Ticks(1000)
    /\ UNCHANGED <<machine, enabled, requested, idt, threads, memory, fdc>>


\* main() asks for the size of memory again.  Address 0 is not mapped any more.
DetectAgain ==
    /\ Step("cpu_init", IF ~mm_initialized /\ paging THEN "fault" ELSE "floppy", 0)
    /\ UNCHANGED <<machine, irqs, memory, fdc>>

\* A command that ends with IRQ 6, for which floppy_wait() waits: until done, or for
\* 100 ticks, as long as its handler is not there.
Await(from, to) ==
    /\ ~Waiting
    /\ Goto(from, to)
    /\ wait' = IF fdc.done THEN NoWait ELSE TimeOut
    /\ requested' = IF board.floppy = "none" THEN requested ELSE requested \cup {6}
    /\ UNCHANGED <<machine, eflags_if, enabled, idt, threads, memory>>

\* floppy_reset(), in detect_floppy() and in floppy_get_geo(), up to the motor's start.
FloppyReset ==
    /\ board.floppy # "none"
    /\ Step("floppy", "seek", 500) \/ Step("detected", "seek_again", 500)
    /\ requested' = requested \cup {6}
    /\ UNCHANGED <<machine, eflags_if, enabled, idt, threads, memory, fdc>>

\* Its seek and recalibration.
FloppyClear ==
    /\ \/ Await("seek", "recalibrate") \/ Await("recalibrate", "detected")
       \/ Await("seek_again", "recalibrate_again") \/ Await("recalibrate_again", "geometry")
    /\ fdc' = [fdc EXCEPT !.done = FALSE]

\* detect_floppy() finds no drive, or a controller it does not know.
FloppyUnknown ==
    /\ (board.floppy = "none" /\ Step("floppy", "isr_floppy", 0)) \/ Step("detected", "isr_floppy", 0)
    /\ UNCHANGED <<machine, irqs, memory, fdc>>

\* The commands of floppy_rw() for a disk: a read and, if it failed, a recalibration,
\* three times at most.  There are two requests for the geometry, three to mount.
FloppyTry(place, requests) ==
    /\ board.floppy # "empty" /\ fdc.waits < 6 * requests
    /\ Await(place, place)
    /\ fdc' = [waits |-> fdc.waits + 1, done |-> FALSE]

\* The requests end, after one wait at least.
FloppyTried(place, to) ==
    /\ fdc.waits # 0
    /\ Step(place, to, 0)
    /\ fdc' = [fdc EXCEPT !.waits = 0]
    /\ UNCHANGED <<machine, irqs, memory>>

\* The change line of an empty drive stays on, and what is read where there is no
\* controller has all bits set: floppy_rw() seeks, recalibrates and calls itself.
RwAgain(place) ==
    /\ board.floppy # "disk"
    /\ Await(place, place)
    /\ fdc' = [fdc EXCEPT !.done = FALSE]

FloppyInstallForgotten ==
    /\ Step("isr_floppy", "irq_floppy", 0)
    /\ UNCHANGED <<machine, irqs, memory, fdc>>

\* Its last lines: the handler, then the mask, while interrupts are enabled.
FloppyInstall ==
    /\ Step("isr_floppy", "irq_floppy", 0)
    /\ idt' = [idt EXCEPT ![6] = "own"]
    /\ UNCHANGED <<machine, eflags_if, enabled, requested, threads, memory, fdc>>

FloppyEnable ==
    /\ Step("irq_floppy", "ide_init", 0)
    /\ enabled' = enabled \cup {6}
    /\ UNCHANGED <<machine, eflags_if, requested, idt, threads, memory, fdc>>

\* ide_init(); then fs_fat_init(), and main() goes on to its two threads.
IdeInit ==
    /\ Step("ide_init", "fs_fat_init", 500)
    /\ UNCHANGED <<machine, irqs, memory, fdc>>

Floppy ==
    \/ FloppyReset \/ FloppyClear \/ FloppyUnknown
    \/ FloppyTry("geometry", 2) \/ FloppyTried("geometry", "isr_floppy") \/ RwAgain("geometry")
    \/ FloppyInstall \/ FloppyEnable
    \/ FloppyTry("fs_fat_init", 3) \/ FloppyTried("fs_fat_init", "threads") \/ RwAgain("fs_fat_init")

-----------------------------------------------------------------------------
(* Interrupts *)

\* The timer's channel 0.  A request that is still there is not made twice.
Period ==
    /\ wait.lost + (IF 0 \in requested THEN 1 ELSE 0) <= MaxLost
    /\ requested' = requested \cup {0}
    /\ wait' = IF Delaying THEN [wait EXCEPT !.periods = @ + 1,
                                            !.lost = @ + IF 0 \in requested THEN 1 ELSE 0]
               ELSE wait
    /\ UNCHANGED <<machine, at, eflags_if, enabled, idt, threads, memory, fdc>>

KeyPressed ==
    /\ requested' = requested \cup {1}
    /\ UNCHANGED <<machine, at, eflags_if, enabled, idt, threads, memory, fdc, wait>>

Deliverable(i) == eflags_if /\ i \in enabled \cap requested

\* timer_tick() for the timer, and who waits looks at the count whenever it is
\* scheduled; floppy_process() for the floppy.
Interrupt(i) ==
    /\ Deliverable(i)
    /\ requested' = requested \ {i}
    /\ LET own == idt[i] = "own"
           awaited == Waiting /\ ~Delaying
       IN  /\ wait' = IF i = 0 /\ own /\ Waiting THEN [wait EXCEPT !.ticks = @ - 1]
                      ELSE IF i = 6 /\ own /\ awaited THEN NoWait ELSE wait
           /\ fdc' = IF i = 6 /\ own /\ ~awaited THEN [fdc EXCEPT !.done = TRUE] ELSE fdc
    /\ UNCHANGED <<machine, at, eflags_if, enabled, idt, threads, memory>>

Main ==
    \/ TryIde \/ InterruptsInit \/ IrqInit \/ MultiInit
    \/ DetectMemory \/ ProbeNext \/ ProbeEnds \/ InitMemmap \/ CreateUser \/ PagetblInit
    \/ PagetblWraps \/ TimerInit \/ KeyboardInit \/ InterruptsEnable \/ DetectAgain
    \/ Floppy \/ IdeInit

Next == Main \/ Period \/ KeyPressed \/ \E i \in Irq : Interrupt(i)

\* The processor goes on, takes interrupts, and the timer has been programmed.
Spec == Init /\ [][Next]_vars /\ WF_vars(Main) /\ WF_vars(Period)
             /\ \A i \in Irq : WF_vars(Interrupt(i))

-----------------------------------------------------------------------------

(***************************************************************************)
(* No interrupt is taken by a dummy handler, which nobody would see        *)
(* (irqa.asm 36: "Should never happen, those IRQs are masked"), and the    *)
(* timer's first one finds the scheduler ready: whatever is enabled has    *)
(* its handler, at each moment at which interrupts are enabled.            *)
(***************************************************************************)
HandlersReady ==
    eflags_if => \A i \in enabled : idt[i] = "own" /\ (i = 0 => threads)

\* Pages of the kernel's stack and the buffer of the DMA controller.
Stack == 80 .. 159

(***************************************************************************)
(* The memory that is found is the memory there is; the list of user pages *)
(* fits into the kernel's pages although it has a node more than was asked *)
(* for, and the user pages into memory; paging takes away no page that is  *)
(* written to, but takes away address 0; and if memory is a multiple of 4  *)
(* MB, the page tables spare the list.  ListSpared below asks for that on  *)
(* every machine.                                                          *)
(***************************************************************************)
MemoryMapRight ==
    /\ size # 0 => size = board.ram * BlockPages
    /\ list # "none" =>
          /\ ListBytes(size, kernel.bss) <= KernelPages(size) * PAGE_SIZE
          /\ UserStart(size, kernel.bss) + UserPages(size, kernel.bss) <= size
    /\ paging =>
          /\ size % TablePages = 0 => list = "made"
          /\ 0 \in NotPresent
          /\ \A p \in NotPresent \cup ReadOnly(kernel.text) :
                p \notin Stack /\ p < PagesOfBytes(kernel.text)

(***************************************************************************)
(* Directory and page tables take no more than the "amount of memory       *)
(* needed to map entire physical memory" (mem.c 672), so that, as in the   *)
(* map at mem.c 621-648, what comes behind them is still there when paging *)
(* is on: the list of user pages.                                          *)
(***************************************************************************)
ListSpared == paging => list = "made"

(***************************************************************************)
(* A long delay() sees at least as many periods of the timer end as there  *)
(* are whole ones in the time asked for, even if an interrupt is still     *)
(* requested when it begins.  The first of them may have begun before it.  *)
(***************************************************************************)
DelayLongEnough == ~Waiting => wait.periods >= wait.asked

Equipped == board.ide /\ board.floppy = "disk" /\ TablesEnding(board.ram * BlockPages)

=============================================================================
