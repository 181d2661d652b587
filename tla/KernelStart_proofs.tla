------------------------- MODULE KernelStart_proofs -------------------------
(***************************************************************************)
(* Proofs about KernelStart and the arithmetic of MemoryMap, for every     *)
(* size of memory and every kernel.                                        *)
(***************************************************************************)
EXTENDS KernelStart, TLAPS

Minimum == 2048     \* pages in 8 MB

(***************************************************************************)
(* With 8 MB or more, and a kernel that ends below 7 MB, the kernel's part *)
(* of memory ends before memory does.                                      *)
(***************************************************************************)
LEMMA KernelPartFits ==
    ASSUME NEW pages \in Nat, NEW end \in Nat, Minimum <= pages, pages < AddressPages, end <= 7340032
    PROVE  /\ UserStart(pages, end) \in Nat
           /\ UserStart(pages, end) <= pages
           /\ UserPages(pages, end) = pages - UserStart(pages, end)
           /\ MemBegin(end) \in Nat
  BY SMTT(60) DEF Minimum, AddressPages, UserStart, KernelStart, MemBegin, PagetblPages, KernelPages,
     PagesOfBytes, PAGE_SIZE, NodeBytes, TablePages, UserPages

(***************************************************************************)
(* The list of user pages, with the node nobody asked for, fits into the   *)
(* kernel's pages: it is for user pages only, the pages are for all.       *)
(***************************************************************************)
LEMMA ListFits ==
    ASSUME NEW pages \in Nat, NEW end \in Nat, Minimum <= pages, pages < AddressPages, end <= 7340032
    PROVE  ListBytes(pages, end) <= KernelPages(pages) * PAGE_SIZE
<1>1. UserPages(pages, end) + 2 <= pages
  BY KernelPartFits, SMTT(30) DEF UserStart, KernelStart, MemBegin, PagetblPages, KernelPages,
     PagesOfBytes, PAGE_SIZE, NodeBytes, TablePages, Minimum
<1>2. UserPages(pages, end) \in Int
  BY KernelPartFits
<1>3. pages * NodeBytes <= KernelPages(pages) * PAGE_SIZE
  BY DEF KernelPages, PagesOfBytes, PAGE_SIZE, NodeBytes
<1>4. KernelPages(pages) \in Nat
  BY DEF KernelPages, PagesOfBytes, PAGE_SIZE, NodeBytes
<1> QED
  BY <1>1, <1>2, <1>3, <1>4 DEF ListBytes, NodeBytes, SIZE, PAGE_SIZE

(***************************************************************************)
(* If memory is a multiple of 4 MB, the tables pagetbl_init() makes stay   *)
(* where mm_init_memmap() has put them; otherwise they do not.             *)
(***************************************************************************)
LEMMA TablesFit ==
    ASSUME NEW pages \in Nat, NEW end \in Nat
    PROVE  TablesEnd(pages, end) > KernelStart(pages, end) <=> pages % TablePages # 0
  BY DEF TablesEnd, KernelStart, TablesMade, PagetblPages, TablePages, MemBegin, PagesOfBytes, PAGE_SIZE

(***************************************************************************)
(* The last page that is protected lies before the end of the range.       *)
(***************************************************************************)
LEMMA ProtectedBelow ==
    ASSUME NEW from \in Nat, NEW to \in Nat, from < to, NEW p \in Protected(from, to)
    PROVE  p \in Nat /\ from \div PAGE_SIZE <= p /\ p < PagesOfBytes(to)
  BY DEF Protected, PagesOfBytes, PAGE_SIZE

LEMMA PagingSpares ==
    ASSUME NEW text \in Nat, Text < text
    PROVE  /\ 0 \in NotPresent
           /\ \A p \in NotPresent \cup ReadOnly(text) : p \notin Stack /\ p < PagesOfBytes(text)
<1>1. 0 \in NotPresent
  BY DEF NotPresent, Protected, PAGE_SIZE
<1>2. PagesOfBytes(text) >= 257
  BY DEF PagesOfBytes, PAGE_SIZE, Text
<1>3. ASSUME NEW p \in NotPresent PROVE p \notin Stack /\ p < PagesOfBytes(text)
  BY <1>2, <1>3 DEF NotPresent, Protected, PAGE_SIZE, Stack, PagesOfBytes
<1>4. ASSUME NEW p \in Protected(786432, 1048575) PROVE p \notin Stack /\ p < PagesOfBytes(text)
  BY <1>2, <1>4 DEF Protected, PAGE_SIZE, Stack, PagesOfBytes
<1>5. ASSUME NEW p \in Protected(Text, text) PROVE p \notin Stack /\ p < PagesOfBytes(text)
  <2>1. p \in Nat /\ Text \div PAGE_SIZE <= p /\ p < PagesOfBytes(text)
    BY ProtectedBelow, <1>5 DEF Text
  <2> QED
    BY <2>1 DEF Text, PAGE_SIZE, Stack
<1> QED
  BY <1>1, <1>3, <1>4, <1>5 DEF ReadOnly
-----------------------------------------------------------------------------
(* The places in main() at which memory has not been measured, at which there is *)
(* no list of pages, and at which all interrupts are still masked.               *)

Unmeasured == {"try_ide", "tables", "irq_init", "multi_init", "mm_init", "probe"}
Unlisted == Unmeasured \cup {"memmap", "halted", "list"}
Masked == Unlisted \cup {"paging", "timer_init"}
WithoutThreads == {"try_ide", "tables", "irq_init", "multi_init"}
Devices ==
    {"floppy", "seek", "recalibrate", "detected", "seek_again", "recalibrate_again", "geometry",
     "isr_floppy", "fs_fat_init", "threads"}

MemoryInv ==
    /\ board \in Boards /\ kernel \in KernelEnds
    /\ at = "probe" => mem \in 0 .. board.ram
    /\ at \in Unmeasured => size = 0
    /\ at \notin Unmeasured => size = board.ram * BlockPages
    /\ at = "list" \/ list # "none" => Minimum <= size
    /\ at \in Unlisted => list = "none" /\ ~paging
    /\ at = "paging" => list = "made" /\ ~paging
    /\ paging /\ size % TablePages = 0 => list = "made"

HandlersInv ==
    /\ enabled \subseteq Irq
    /\ at \in Masked => enabled = {}
    /\ at \notin WithoutThreads => threads
    /\ idt \in [Irq -> {"none", "dummy", "own"}]
    /\ \A i \in enabled : idt[i] = "own"
    /\ at = "irq_floppy" => idt[6] = "own"

(***************************************************************************)
(* The arithmetic of the search, in blocks of 64 KB: it begins in memory,  *)
(* goes on only below its end, where no address wraps to another block     *)
(* than the first, and does not wrap itself.                               *)
(***************************************************************************)
LEMMA Blocks ==
    ASSUME NEW ram \in 1 .. AddressBlocks - 1
    PROVE  /\ ram * BlockPages \in Nat /\ ram * BlockPages < AddressPages
           /\ \A n \in Nat : (n + 65535) \div 65536 < ram => (n + 65535) \div 65536 \in 0 .. ram
           /\ \A a \in 0 .. ram : a < ram \/ a % ram # 0 => (a + 1) % AddressBlocks \in 0 .. ram
           /\ \A a \in 0 .. ram : ~(a < ram) => a = ram
<1> USE DEF AddressBlocks
<1>1. ram * BlockPages \in Nat /\ ram * BlockPages < AddressPages
  BY DEF BlockPages, AddressPages
<1>2. ASSUME NEW n \in Nat, (n + 65535) \div 65536 < ram PROVE (n + 65535) \div 65536 \in 0 .. ram
  BY <1>2
<1>3. ASSUME NEW a \in 0 .. ram, a < ram \/ a % ram # 0 PROVE (a + 1) % AddressBlocks \in 0 .. ram
  <2>1. ram % ram = 0
    BY SMTT(60)
  <2>2. a < ram
    <3>1. CASE a = ram
      <4>1. a % ram = ram % ram
        BY <3>1
      <4>2. a % ram = 0
        BY <2>1, <4>1
      <4> QED
        BY <1>3, <4>2
    <3>2. CASE a # ram
      BY <3>2, SMTT(60)
    <3> QED
      BY <3>1, <3>2
  <2> QED
    BY <2>2
<1>4. ASSUME NEW a \in 0 .. ram, ~(a < ram) PROVE a = ram
  BY <1>4
<1> HIDE DEF AddressBlocks
<1> QED
  BY <1>1, <1>2, <1>3, <1>4, SMTT(60)

(***************************************************************************)
(* What the assumptions say of one machine.                                *)
(***************************************************************************)
LEMMA Machine ==
    ASSUME board \in Boards, kernel \in KernelEnds
    PROVE  /\ board.ram \in 1 .. AddressBlocks - 1
           /\ board.ram * BlockPages \in Nat /\ board.ram * BlockPages < AddressPages
           /\ kernel.text \in Nat /\ kernel.bss \in Nat /\ Text < kernel.text
           /\ (kernel.bss + 65535) \div 65536 < board.ram /\ kernel.bss <= 7340032
<1>1. board.ram \in 1 .. AddressBlocks - 1
  BY BoardsAssumption
<1>2. kernel.text \in Nat /\ kernel.bss \in Nat /\ Text < kernel.text
  BY EndsAssumption
<1>3. (kernel.bss + 65535) \div 65536 < board.ram /\ kernel.bss <= 7340032
  BY KernelFits
<1>4. board.ram * BlockPages \in Nat /\ board.ram * BlockPages < AddressPages
  BY <1>1, Blocks
<1> QED
  BY <1>1, <1>2, <1>3, <1>4

LEMMA MemoryStart == Init => MemoryInv
  BY DEF Init, MemoryInv, Unmeasured, Unlisted

(***************************************************************************)
(* The end of memory is found where memory ends: every block below answers *)
(* and the first one behind does not, even if addresses wrap.              *)
(***************************************************************************)
LEMMA ProbeStep == MemoryInv /\ (DetectMemory \/ ProbeNext \/ ProbeEnds) => MemoryInv'
<1> SUFFICES ASSUME MemoryInv, DetectMemory \/ ProbeNext \/ ProbeEnds PROVE MemoryInv'
  OBVIOUS
<1> USE DEF MemoryInv, machine, Goto, Unmeasured, Unlisted
<1>0. /\ board.ram \in 1 .. AddressBlocks - 1 /\ kernel.bss \in Nat
      /\ (kernel.bss + 65535) \div 65536 < board.ram
  BY Machine
<1>1. CASE DetectMemory
  <2>1. mem' = (kernel.bss + 65535) \div 65536
    BY <1>1 DEF DetectMemory
  <2>2. (kernel.bss + 65535) \div 65536 \in 0 .. board.ram
    <3> HIDE DEF MemoryInv, machine, Goto, Unmeasured, Unlisted
    <3> QED
      BY <1>0, Blocks
  <2>3. mem' \in 0 .. board.ram
    BY <2>1, <2>2
  <2> QED
    BY <1>1, <2>3 DEF DetectMemory, Step
<1>2. CASE ProbeNext
  <2>1. mem \in 0 .. board.ram /\ mem' = (mem + 1) % AddressBlocks
    BY <1>2 DEF ProbeNext
  <2>2. mem < board.ram \/ mem % board.ram # 0
    BY <1>2 DEF ProbeNext, Answers
  <2>3. mem' \in 0 .. board.ram
    <3> HIDE DEF MemoryInv, machine, Goto, Unmeasured, Unlisted
    <3> QED
      BY <1>0, <2>1, <2>2, Blocks
  <2> QED
    BY <1>2, <2>3 DEF ProbeNext
<1>3. CASE ProbeEnds
  <2>1. mem \in 0 .. board.ram /\ ~(mem < board.ram)
    BY <1>3 DEF ProbeEnds, Answers
  <2>2. mem = board.ram
    <3> HIDE DEF MemoryInv, machine, Goto, Unmeasured, Unlisted
    <3> QED
      BY <1>0, <2>1, Blocks
  <2> QED
    BY <1>3, <2>2 DEF ProbeEnds
<1> QED
  BY <1>1, <1>2, <1>3

(***************************************************************************)
(* The list is made only of 8 MB or more, and paging loses it only if the  *)
(* tables are one more than were counted.                                  *)
(***************************************************************************)
LEMMA MapStep ==
    ASSUME MemoryInv, InitMemmap \/ CreateUser \/ PagetblInit \/ PagetblWraps
    PROVE  MemoryInv'
<1> USE DEF MemoryInv, machine, memory, Goto, Unmeasured, Unlisted
<1>0. board.ram * BlockPages \in Nat /\ kernel.bss \in Nat
  BY Machine
<1>1. CASE InitMemmap
  BY <1>0, <1>1 DEF InitMemmap, Minimum
<1>2. CASE CreateUser
  BY <1>0, <1>2 DEF CreateUser
<1>3. CASE PagetblInit
  <2>1. TablesEnd(size, kernel.bss) > KernelStart(size, kernel.bss) <=> size % TablePages # 0
    BY <1>0, <1>3, TablesFit DEF PagetblInit
  <2> QED
    BY <1>3, <2>1 DEF PagetblInit
<1>4. CASE PagetblWraps
  BY <1>4 DEF PagetblWraps
<1> QED
  BY <1>1, <1>2, <1>3, <1>4

(***************************************************************************)
(* Nothing else touches the map, or goes back to a place before it.        *)
(***************************************************************************)
LEMMA MemoryStep == MemoryInv /\ [Next]_vars => MemoryInv'
<1> SUFFICES ASSUME MemoryInv, [Next]_vars PROVE MemoryInv'
  OBVIOUS
<1> USE DEF MemoryInv, machine, memory, Goto, Step, Unmeasured, Unlisted
<1>1. CASE DetectMemory \/ ProbeNext \/ ProbeEnds
  BY <1>1, ProbeStep
<1>2. CASE InitMemmap \/ CreateUser \/ PagetblInit \/ PagetblWraps
  BY <1>2, MapStep
<1>3. CASE TryIde \/ InterruptsInit \/ IrqInit \/ MultiInit
  BY <1>3 DEF TryIde, InterruptsInit, IrqInit, MultiInit
<1>4. CASE TimerInit \/ KeyboardInit \/ InterruptsEnable
  BY <1>4 DEF TimerInit, KeyboardInit, InterruptsEnable
<1>5. CASE DetectAgain
  BY <1>5 DEF DetectAgain
<1>6. CASE FloppyInstall \/ FloppyEnable \/ IdeInit
  BY <1>6 DEF FloppyInstall, FloppyEnable, IdeInit
<1>8. CASE FloppyReset \/ FloppyUnknown
  BY <1>8 DEF FloppyReset, FloppyUnknown
<1>9. ASSUME NEW from, NEW to, from \in Devices, to \in Devices, Await(from, to) PROVE MemoryInv'
  BY <1>9 DEF Await, Devices
<1>10. CASE FloppyClear
  BY <1>9, <1>10 DEF FloppyClear, Devices
<1>11. ASSUME NEW place \in {"geometry", "fs_fat_init"}, NEW n, FloppyTry(place, n) \/ RwAgain(place) PROVE MemoryInv'
  BY <1>9, <1>11 DEF FloppyTry, RwAgain, Devices
<1>12. ASSUME NEW place \in {"geometry", "fs_fat_init"}, NEW to \in {"isr_floppy", "threads"}, FloppyTried(place, to)
       PROVE  MemoryInv'
  BY <1>12 DEF FloppyTried
<1>13. CASE Floppy
  BY <1>6, <1>8, <1>10, <1>11, <1>12, <1>13 DEF Floppy
<1>7. CASE Period \/ KeyPressed \/ (\E i \in Irq : Interrupt(i)) \/ UNCHANGED vars
  BY <1>7 DEF Period, KeyPressed, Interrupt, vars
<1> QED
  BY <1>1, <1>2, <1>3, <1>4, <1>5, <1>6, <1>7, <1>13 DEF Next, Main

LEMMA MapIsRight == MemoryInv => MemoryMapRight
<1> SUFFICES ASSUME MemoryInv PROVE MemoryMapRight
  OBVIOUS
<1> USE DEF MemoryInv
<1>0. /\ board.ram * BlockPages \in Nat /\ board.ram * BlockPages < AddressPages
      /\ kernel.bss \in Nat /\ kernel.bss <= 7340032 /\ kernel.text \in Nat /\ Text < kernel.text
  BY Machine
<1>1. size # 0 => size = board.ram * BlockPages
  OBVIOUS
<1>2. ASSUME list # "none"
      PROVE  /\ ListBytes(size, kernel.bss) <= KernelPages(size) * PAGE_SIZE
             /\ UserStart(size, kernel.bss) + UserPages(size, kernel.bss) <= size
  <2>1. size \in Nat /\ Minimum <= size /\ size < AddressPages
    BY <1>0, <1>2 DEF Minimum, Unmeasured, AddressPages
  <2>2. ListBytes(size, kernel.bss) <= KernelPages(size) * PAGE_SIZE
    BY <1>0, <2>1, ListFits
  <2>3. /\ UserStart(size, kernel.bss) \in Nat
        /\ UserPages(size, kernel.bss) = size - UserStart(size, kernel.bss)
    BY <1>0, <2>1, KernelPartFits
  <2> QED
    BY <2>1, <2>2, <2>3
<1>3. /\ 0 \in NotPresent
      /\ \A p \in NotPresent \cup ReadOnly(kernel.text) : p \notin Stack /\ p < PagesOfBytes(kernel.text)
  BY <1>0, PagingSpares
<1> QED
  BY <1>1, <1>2, <1>3 DEF MemoryMapRight

(***************************************************************************)
(* On every board and for every kernel the assumptions allow: the memory   *)
(* found is the memory there is, up to 4 GB; the list of user pages and    *)
(* the user pages fit where they are put; once paging is on, which it is   *)
(* never if the loop over the tables does not end, it has taken away       *)
(* nothing that is written to, and if memory is a multiple of 4 MB the     *)
(* list is still there.                                                    *)
(***************************************************************************)
THEOREM MemoryMapTheorem == Spec => []MemoryMapRight
<1>1. Init => MemoryInv
  BY MemoryStart
<1>2. MemoryInv /\ [Next]_vars => MemoryInv'
  BY MemoryStep
<1>3. MemoryInv => MemoryMapRight
  BY MapIsRight
<1> QED
  BY <1>1, <1>2, <1>3, PTL DEF Spec

(***************************************************************************)
(* The order of main() masks an interrupt until its handler is there.      *)
(***************************************************************************)
LEMMA HandlersStep == HandlersInv /\ [Next]_vars => HandlersInv'
<1> SUFFICES ASSUME HandlersInv, [Next]_vars PROVE HandlersInv'
  OBVIOUS
<1> USE DEF HandlersInv, irqs, Goto, Step, Unmeasured, Unlisted, Masked, WithoutThreads, Irq
<1>1. CASE TryIde
  BY <1>1 DEF TryIde
<1>2. CASE InterruptsInit
  BY <1>2 DEF InterruptsInit
<1>3. CASE IrqInit
  BY <1>3 DEF IrqInit
<1>4. CASE MultiInit
  BY <1>4 DEF MultiInit
<1>5. CASE DetectMemory \/ ProbeNext \/ ProbeEnds
  <2>1. at' \in Unmeasured \cup {"memmap"} /\ at' \notin WithoutThreads /\ UNCHANGED irqs
    BY <1>5 DEF DetectMemory, ProbeNext, ProbeEnds
  <2>2. enabled = {} /\ threads
    BY <1>5 DEF DetectMemory, ProbeNext, ProbeEnds
  <2> QED
    BY <2>1, <2>2
<1>6. CASE InitMemmap \/ CreateUser \/ PagetblInit \/ PagetblWraps
  <2>1. at' \in {"halted", "list", "paging", "timer_init", "lost"} /\ UNCHANGED irqs
    BY <1>6 DEF InitMemmap, CreateUser, PagetblInit, PagetblWraps
  <2>2. enabled = {} /\ threads
    BY <1>6 DEF InitMemmap, CreateUser, PagetblInit, PagetblWraps
  <2> QED
    BY <2>1, <2>2
<1>7. CASE TimerInit
  BY <1>7, SMTT(60) DEF TimerInit, Install
<1>8. CASE KeyboardInit
  BY <1>8, SMTT(60) DEF KeyboardInit, Install
<1>9. CASE InterruptsEnable \/ DetectAgain
  <2>1. CASE InterruptsEnable
    <3>1. at' = "cpu_init" /\ UNCHANGED <<enabled, idt, threads>>
      BY <2>1 DEF InterruptsEnable
    <3>2. threads
      BY <2>1 DEF InterruptsEnable
    <3> QED
      BY <3>1, <3>2
  <2>2. CASE DetectAgain
    <3>1. at' \in {"fault", "floppy"} /\ UNCHANGED <<enabled, idt, threads>>
      BY <2>2 DEF DetectAgain
    <3>2. threads
      BY <2>2 DEF DetectAgain
    <3> QED
      BY <3>1, <3>2
  <2> QED
    BY <1>9, <2>1, <2>2
<1>10. ASSUME NEW from \in Devices \cup {"ide_init"}, NEW to \in Devices, at = from, at' = to,
              UNCHANGED <<enabled, idt, threads>>
       PROVE  HandlersInv'
  <2>1. at' # "irq_floppy" /\ at' \notin Masked /\ threads
    BY <1>10 DEF Devices
  <2> QED
    BY <1>10, <2>1
<1>14. CASE FloppyReset \/ FloppyUnknown \/ IdeInit
  BY <1>10, <1>14 DEF FloppyReset, FloppyUnknown, IdeInit, Devices
<1>15. ASSUME NEW from \in Devices, NEW to \in Devices, Await(from, to) PROVE HandlersInv'
  BY <1>10, <1>15 DEF Await
<1>16. CASE FloppyClear
  BY <1>15, <1>16 DEF FloppyClear, Devices
<1>17. ASSUME NEW place \in {"geometry", "fs_fat_init"}, NEW n, FloppyTry(place, n) \/ RwAgain(place) PROVE HandlersInv'
  BY <1>15, <1>17 DEF FloppyTry, RwAgain, Devices
<1>18. ASSUME NEW place \in {"geometry", "fs_fat_init"}, NEW to \in {"isr_floppy", "threads"}, FloppyTried(place, to)
       PROVE  HandlersInv'
  BY <1>10, <1>18 DEF FloppyTried, Devices
<1>11. CASE FloppyInstall
  BY <1>11, SMTT(60) DEF FloppyInstall
<1>12. CASE FloppyEnable
  BY <1>12, SMTT(60) DEF FloppyEnable
<1>13. CASE Period \/ KeyPressed \/ (\E i \in Irq : Interrupt(i)) \/ UNCHANGED vars
  BY <1>13, SMTT(60) DEF Period, KeyPressed, Interrupt, vars
<1>19. CASE Floppy
  BY <1>11, <1>12, <1>14, <1>16, <1>17, <1>18, <1>19 DEF Floppy
<1> QED
  BY <1>1, <1>2, <1>3, <1>4, <1>5, <1>6, <1>7, <1>8, <1>9, <1>13, <1>14, <1>19 DEF Next, Main

(***************************************************************************)
(* No interrupt reaches a dummy handler, or the scheduler before it is     *)
(* ready, whenever interrupts arrive.                                      *)
(***************************************************************************)
THEOREM HandlersTheorem == Spec => []HandlersReady
<1>1. Init => HandlersInv
  BY DEF Init, HandlersInv, Irq, WithoutThreads
<1>2. HandlersInv /\ [Next]_vars => HandlersInv'
  BY HandlersStep
<1>3. HandlersInv => HandlersReady
  BY DEF HandlersInv, HandlersReady, Masked, Unlisted, Unmeasured, WithoutThreads
<1> QED
  BY <1>1, <1>2, <1>3, PTL DEF Spec
-----------------------------------------------------------------------------
(* Each tick that delay() has counted was the end of a period of the timer,      *)
(* except one that was requested before the delay began; it waits for one more   *)
(* than it was asked for.                                                        *)

Pending == IF 0 \in requested THEN 1 ELSE 0

Delays == [ticks : Int, asked : Nat, periods : Nat, lost : Nat]

DelayInv ==
    /\ wait \in Delays
    /\ wait.ticks >= -1
    /\ Delaying => wait.asked - wait.ticks + Pending <= wait.periods + 1
    /\ DelayLongEnough

LEMMA Periods ==
    /\ \A x \in {0, 500, 1000, 15000} : PeriodsOf(x) \in Nat
    /\ NoWait \in Delays /\ TimeOut \in Delays
  BY DEF PeriodsOf, NoWait, TimeOut, Delays

(***************************************************************************)
(* The steps of main() begin a wait or none, when none is on; the floppy's *)
(* interrupt ends one that is no delay.                                    *)
(***************************************************************************)
LEMMA WaitBegins ==
    ASSUME wait' \in {NoWait, TimeOut} \/ \E p \in Nat : wait' =
               [ticks |-> p, asked |-> p, periods |-> 0, lost |-> 0]
    PROVE  DelayInv'
<1> USE DEF DelayInv, DelayLongEnough, Waiting, Delaying, Delays
<1>1. CASE wait' = NoWait
  BY <1>1 DEF NoWait
<1>2. CASE wait' = TimeOut
  BY <1>2 DEF TimeOut
<1>3. ASSUME NEW p \in Nat, wait' = [ticks |-> p, asked |-> p, periods |-> 0, lost |-> 0]
      PROVE  DelayInv'
  BY <1>3 DEF Pending
<1> QED
  BY <1>1, <1>2, <1>3

LEMMA OnePeriod ==
    ASSUME NEW w \in Delays, NEW n \in {0, 1}, NEW v, v = [w EXCEPT !.periods = @ + 1, !.lost = @ + n]
    PROVE  v \in Delays /\ v.ticks = w.ticks /\ v.asked = w.asked /\ v.periods = w.periods + 1
<1>1. w.lost + n \in Nat /\ w.periods + 1 \in Nat
  BY DEF Delays
<1>2. v = [ticks |-> w.ticks, asked |-> w.asked, periods |-> w.periods + 1, lost |-> w.lost + n]
  BY DEF Delays
<1> QED
  BY <1>1, <1>2 DEF Delays

LEMMA OneTick ==
    ASSUME NEW w \in Delays, NEW v, v = [w EXCEPT !.ticks = @ - 1]
    PROVE  v \in Delays /\ v.ticks = w.ticks - 1 /\ v.asked = w.asked /\ v.periods = w.periods
  BY DEF Delays

(***************************************************************************)
(* A period that is requested counts, and each tick uses one of them up.   *)
(***************************************************************************)
LEMMA PeriodCounts == DelayInv /\ Period => DelayInv'
<1> SUFFICES ASSUME DelayInv, Period PROVE DelayInv'
  OBVIOUS
<1> USE DEF DelayInv, DelayLongEnough, Waiting, Delaying, Pending
<1>1. CASE Delaying
  <2>1. wait' = [wait EXCEPT !.periods = @ + 1, !.lost = @ + Pending] /\ requested' = requested \cup {0}
    BY <1>1 DEF Period
  <2>2. Pending' = 1 /\ Pending \in {0, 1}
    BY <2>1
  <2>3. wait' \in Delays /\ wait'.ticks = wait.ticks /\ wait'.asked = wait.asked
           /\ wait'.periods = wait.periods + 1
    <3> HIDE DEF Pending
    <3> QED
      BY <2>1, <2>2, OnePeriod DEF Delays
  <2> QED
    BY <1>1, <2>2, <2>3 DEF Delays
<1>2. CASE ~Delaying
  <2>1. wait' = wait
    BY <1>2 DEF Period
  <2> QED
    BY <1>2, <2>1
<1> QED
  BY <1>1, <1>2

LEMMA TickCounts == \A i \in Irq : DelayInv /\ Interrupt(i) => DelayInv'
<1> SUFFICES ASSUME NEW i \in Irq, DelayInv, Interrupt(i) PROVE DelayInv'
  OBVIOUS
<1> USE DEF DelayInv, DelayLongEnough, Waiting, Delaying, Pending
<1>0. /\ requested' = requested \ {i} /\ i \in requested
      /\ \/ i = 0 /\ Waiting /\ wait' = [wait EXCEPT !.ticks = @ - 1]
         \/ wait' = NoWait
         \/ wait' = wait
  BY DEF Interrupt, Deliverable
<1>1. wait.ticks \in Int /\ wait.asked \in Nat /\ wait.periods \in Nat
  BY DEF Delays
<1>2. CASE i = 0 /\ Waiting /\ wait' = [wait EXCEPT !.ticks = @ - 1]
  <2>1. wait' \in Delays /\ wait'.ticks = wait.ticks - 1 /\ wait'.asked = wait.asked
           /\ wait'.periods = wait.periods
    BY <1>2, OneTick
  <2>2. Pending = 1 /\ Pending' = 0
    BY <1>0, <1>2
  <2>3. CASE wait.asked # 0
    <3>1. wait.ticks >= 0 /\ wait.asked - wait.ticks + 1 <= wait.periods + 1
      BY <1>2, <2>2, <2>3
    <3> HIDE DEF Pending
    <3> QED
      BY <1>1, <2>1, <2>2, <3>1
  <2>4. CASE wait.asked = 0
    BY <1>1, <1>2, <2>1, <2>4
  <2> QED
    BY <2>3, <2>4
<1>3. CASE wait' = NoWait
  BY <1>3, WaitBegins
<1>4. CASE wait' = wait
  <2>1. Pending \in {0, 1} /\ Pending' \in {0, 1} /\ Pending' <= Pending
    BY <1>0
  <2> HIDE DEF Pending
  <2> QED
    BY <1>1, <1>4, <2>1
<1> QED
  BY <1>0, <1>2, <1>3, <1>4

LEMMA DelayStep == DelayInv /\ [Next]_vars => DelayInv'
<1> SUFFICES ASSUME DelayInv, [Next]_vars PROVE DelayInv'
  OBVIOUS
<1>1. ASSUME NEW x \in {0, 500, 1000, 15000}, Delay(x) PROVE DelayInv'
  BY <1>1, WaitBegins, Periods DEF Delay, Ticks
<1>2. CASE TryIde \/ InterruptsInit \/ IrqInit \/ MultiInit
  BY <1>1, <1>2 DEF TryIde, InterruptsInit, IrqInit, MultiInit, Step
<1>3. CASE DetectMemory \/ TimerInit \/ KeyboardInit \/ DetectAgain
  BY <1>1, <1>3 DEF DetectMemory, TimerInit, KeyboardInit, DetectAgain, Step
<1>4. CASE FloppyReset \/ FloppyUnknown \/ FloppyInstall \/ FloppyEnable \/ IdeInit
  BY <1>1, <1>4 DEF FloppyReset, FloppyUnknown, FloppyInstall, FloppyEnable, IdeInit, Step
<1>5. CASE InterruptsEnable
  <2>1. wait' = Ticks(1000)
    BY <1>5 DEF InterruptsEnable
  <2> QED
    BY <2>1, WaitBegins, Periods DEF Ticks
<1>6. ASSUME UNCHANGED <<wait, requested>> PROVE DelayInv'
  BY <1>6 DEF DelayInv, DelayLongEnough, Waiting, Delaying, Pending
<1>7. CASE \/ ProbeNext \/ ProbeEnds \/ InitMemmap \/ CreateUser \/ PagetblInit \/ PagetblWraps
           \/ UNCHANGED vars
  BY <1>6, <1>7 DEF ProbeNext, ProbeEnds, InitMemmap, CreateUser, PagetblInit, PagetblWraps, vars, irqs
<1>8. CASE KeyPressed
  <2>1. wait' = wait /\ requested' = requested \cup {1}
    BY <1>8 DEF KeyPressed
  <2> QED
    BY <2>1 DEF DelayInv, DelayLongEnough, Waiting, Delaying, Pending
<1>9. ASSUME NEW from, NEW to, Await(from, to) PROVE DelayInv'
  BY <1>9, WaitBegins DEF Await
<1>10. ASSUME NEW place, NEW to, FloppyTried(place, to) PROVE DelayInv'
  BY <1>1, <1>10 DEF FloppyTried, Step
<1>11. CASE Floppy
  BY <1>4, <1>9, <1>10, <1>11 DEF Floppy, FloppyClear, FloppyTry, RwAgain
<1> QED
  BY <1>2, <1>3, <1>4, <1>5, <1>7, <1>8, <1>11, PeriodCounts, TickCounts DEF Next, Main

(***************************************************************************)
(* A long delay sees as many periods of the timer end as there are whole   *)
(* ones in the time asked for, whenever it begins and however many         *)
(* interrupts are lost; it may have begun within the first of them.        *)
(***************************************************************************)
THEOREM DelayTheorem == Spec => []DelayLongEnough
<1>1. Init => DelayInv
  BY Periods DEF Init, DelayInv, DelayLongEnough, Waiting, Delaying, NoWait
<1>2. DelayInv /\ [Next]_vars => DelayInv'
  BY DelayStep
<1>3. DelayInv => DelayLongEnough
  BY DEF DelayInv
<1> QED
  BY <1>1, <1>2, <1>3, PTL DEF Spec
=============================================================================
