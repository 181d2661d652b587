------------------------------ MODULE Threads ------------------------------
(***************************************************************************)
(* The kernel's thread package: nucleus/multi.c together with the timer    *)
(* interrupt and the voluntary yield of nucleus/irqa.asm that call it.     *)
(*                                                                         *)
(* There is one processor.  It runs the code of the current thread, or,    *)
(* with interrupts disabled, the loop of multi_scheduler() on that         *)
(* thread's stack.  A thread is interrupted between any two of its steps   *)
(* while the interrupt flag is set.  thread_create() is split where the    *)
(* code can be interrupted and at every relinking of a chain; what runs    *)
(* inside its critical section would be interruptible here too if the      *)
(* interrupt flag were left set, so that the protection is checked and not *)
(* assumed.                                                                *)
(*                                                                         *)
(* malloc() and free() are a pool of blocks here; nucleus/drivers/mem has  *)
(* its own modules.                                                        *)
(*                                                                         *)
(* A definition without a comment that stands before another of a similar  *)
(* name is that operation with a mistake in it; the properties are tested  *)
(* against these.                                                          *)
(***************************************************************************)
EXTENDS Integers

CONSTANTS
    THREADS_MAX,    \* entries of thread_table
    Block,          \* the memory malloc() can hand out as thread stacks
    KernelStack,    \* the fixed stack of the kernel thread
    NoBlock         \* a null pointer

ASSUME ThreadsMaxAssumption == THREADS_MAX \in Nat \ {0}
ASSUME BlockAssumption == /\ KernelStack \notin Block
                          /\ NoBlock \notin Block
                          /\ KernelStack # NoBlock

Tid == 0 .. THREADS_MAX - 1
Kernel == 0                     \* thread_table[0], head of the active chain
FREE == THREADS_MAX             \* the address of free_threads, head of the free chain
Node == Tid \cup {FREE}
Null == THREADS_MAX + 1         \* a null ThreadInfo pointer

\* The enumeration ThreadState, without THST_SUSPENDED: nothing in the kernel
\* assigns it, and the case of multi_scheduler() that steps over it is left out.
ThreadState == {"UNUSED", "EXITING", "ACTIVE"}

VARIABLES
    next, prev,         \* the links of thread_table's entries and of free_threads
    state,              \* ThreadInfo.state
    stack,              \* the block ThreadInfo.stack_lo points to
    r_esp,              \* the block ThreadInfo.r_esp points into
    cur_thread_id,
    critical_count,
    critical_enab_ints,
    ints,               \* the processor's interrupt flag
    r_eflags,           \* the interrupt flag in the context saved on a thread's stack
    cpu,                \* "thread", "scheduler", or "panic" after a panic()
    cursor,             \* cur_thread, the local variable of multi_scheduler()
    pc,                 \* where each thread is in its own code
    newstack,           \* stack, the local variable of thread_create()
    entry,              \* p, the local variable of thread_create()
    heap                \* the blocks malloc() has free

chains == <<next, prev, state>>
threadInfo == <<next, prev, state, stack, r_esp>>
critical == <<critical_count, critical_enab_ints>>
sched == <<cpu, cursor, cur_thread_id>>
locals == <<newstack, entry>>
vars == <<threadInfo, critical, sched, locals, ints, r_eflags, pc, heap>>

Label == {"reset", "started", "boot", "run", "allocated", "critical", "taken",
          "leaving", "exiting"}

TypeOK ==
    /\ next \in [Node -> Node \cup {Null}]
    /\ prev \in [Node -> Node \cup {Null}]
    /\ state \in [Tid -> ThreadState]
    /\ stack \in [Tid -> Block \cup {KernelStack, NoBlock}]
    /\ r_esp \in [Tid -> Block \cup {KernelStack, NoBlock}]
    /\ cur_thread_id \in Tid
    /\ critical_count \in Nat
    /\ critical_enab_ints \in BOOLEAN
    /\ ints \in BOOLEAN
    /\ r_eflags \in [Tid -> BOOLEAN]
    /\ cpu \in {"thread", "scheduler", "panic"}
    /\ cursor \in Node \cup {Null}
    /\ pc \in [Tid -> Label]
    /\ newstack \in [Tid -> Block \cup {NoBlock}]
    /\ entry \in [Tid -> Node]
    /\ heap \in SUBSET Block

\* The cleared data of the kernel image, before main() reaches multi_init().
Init ==
    /\ next = [n \in Node |-> Null]
    /\ prev = [n \in Node |-> Null]
    /\ state = [t \in Tid |-> "UNUSED"]
    /\ stack = [t \in Tid |-> NoBlock]
    /\ r_esp = [t \in Tid |-> NoBlock]
    /\ cur_thread_id = Kernel
    /\ critical_count = 0
    /\ critical_enab_ints = FALSE
    /\ ints = FALSE
    /\ r_eflags = [t \in Tid |-> FALSE]
    /\ cpu = "thread"
    /\ cursor = Kernel
    /\ pc = [t \in Tid |-> IF t = Kernel THEN "reset" ELSE "run"]
    /\ newstack = [t \in Tid |-> NoBlock]
    /\ entry = [t \in Tid |-> FREE]
    /\ heap = Block

-----------------------------------------------------------------------------
(* Helpers *)

\* Thread t is executing its own code, at label l.
At(t, l) == cpu = "thread" /\ cur_thread_id = t /\ pc[t] = l

Goto(t, l) == pc' = [pc EXCEPT ![t] = l]

\* The links nx and pv after n has been taken out of its chain, and those after
\* n has been put at the end of the chain with head h.
UnlinkNext(nx, pv, n) == [nx EXCEPT ![pv[n]] = nx[n]]
UnlinkPrevForgotten(nx, pv, n) == pv
UnlinkPrev(nx, pv, n) == [pv EXCEPT ![nx[n]] = pv[n]]
AppendNext(nx, pv, h, n) == [nx EXCEPT ![pv[h]] = n, ![n] = h]
AppendPrevHeadStale(pv, h, n) == [pv EXCEPT ![n] = pv[h]]
AppendPrev(pv, h, n) == [pv EXCEPT ![n] = pv[h], ![h] = n]

MultiCriticalEnterOnlyCounting ==
    /\ critical_enab_ints' = IF critical_count = 0 THEN ints ELSE critical_enab_ints
    /\ critical_count' = critical_count + 1
    /\ UNCHANGED ints

\* multi_critical_enter(): interrupts_disable() returns the former flag.
MultiCriticalEnter ==
    /\ critical_enab_ints' = IF critical_count = 0 THEN ints ELSE critical_enab_ints
    /\ critical_count' = critical_count + 1
    /\ ints' = FALSE

MultiCriticalExitOnlyCounting ==
    /\ cpu' = IF critical_count = 0 THEN "panic" ELSE "thread"
    /\ critical_count' = IF critical_count = 0 THEN 0 ELSE critical_count - 1
    /\ UNCHANGED <<ints, critical_enab_ints>>

\* multi_critical_exit() panics when it has no multi_critical_enter() to match.
MultiCriticalExit ==
    /\ cpu' = IF critical_count = 0 THEN "panic" ELSE "thread"
    /\ critical_count' = IF critical_count = 0 THEN 0 ELSE critical_count - 1
    /\ ints' = IF critical_count = 1 THEN critical_enab_ints ELSE ints
    /\ UNCHANGED critical_enab_ints

-----------------------------------------------------------------------------
(* Starting up *)

\* multi_init(), up to its multi_yield().  Interrupts are disabled throughout,
\* so its critical section ends as it began.
MultiInit ==
    /\ At(Kernel, "reset")
    /\ next' = [n \in Node |->
                  IF n = Kernel THEN Kernel ELSE IF n = FREE THEN 1 ELSE n + 1]
    /\ prev' = [n \in Node |->
                  IF n = Kernel THEN Kernel ELSE IF n = 1 THEN FREE ELSE n - 1]
    /\ state' = [t \in Tid |-> IF t = Kernel THEN "ACTIVE" ELSE "UNUSED"]
    /\ stack' = [stack EXCEPT ![Kernel] = KernelStack]
    /\ critical_enab_ints' = ints
    /\ Goto(Kernel, "started")
    /\ UNCHANGED <<r_esp, critical_count, sched, locals, ints, r_eflags, heap>>

\* main() sets interrupts_ok and calls interrupts_enable(); from here on it is
\* a thread like the others.
InterruptsEnable ==
    /\ At(Kernel, "boot")
    /\ ints' = TRUE
    /\ Goto(Kernel, "run")
    /\ UNCHANGED <<threadInfo, critical, sched, locals, r_eflags, heap>>

-----------------------------------------------------------------------------
(* Creating and ending threads *)

\* thread_create(): stack = malloc(stackbytes), outside the critical section.
ThreadCreate(t) ==
    /\ At(t, "run")
    /\ \E b \in heap :
          /\ heap' = heap \ {b}
          /\ newstack' = [newstack EXCEPT ![t] = b]
    /\ Goto(t, "allocated")
    /\ UNCHANGED <<threadInfo, critical, sched, entry, ints, r_eflags>>

\* thread_create(): the critical section is entered; panics if interrupts are
\* enabled after all.
CreateEnter(t) ==
    /\ At(t, "allocated")
    /\ MultiCriticalEnter
    /\ cpu' = IF ints' THEN "panic" ELSE "thread"
    /\ Goto(t, "critical")
    /\ UNCHANGED <<threadInfo, cursor, cur_thread_id, locals, r_eflags, heap>>

LastFree == prev[FREE]
FirstFree == next[FREE]

\* thread_create(): takes the first entry off the free chain.
CreateTake(t) ==
    LET p == FirstFree IN
    /\ At(t, "critical")
    /\ p # FREE
    /\ next' = UnlinkNext(next, prev, p)
    /\ prev' = UnlinkPrev(next, prev, p)
    /\ entry' = [entry EXCEPT ![t] = p]
    /\ Goto(t, "taken")
    /\ UNCHANGED <<state, stack, r_esp, critical, sched, newstack, ints, r_eflags, heap>>

CreateFullLeaking(t) ==
    /\ At(t, "critical")
    /\ FirstFree = FREE
    /\ newstack' = [newstack EXCEPT ![t] = NoBlock]
    /\ Goto(t, "leaving")
    /\ UNCHANGED <<threadInfo, critical, sched, entry, ints, r_eflags, heap>>

\* thread_create(): no entry is free; the stack is given back and -2 returned.
CreateFull(t) ==
    /\ At(t, "critical")
    /\ FirstFree = FREE
    /\ heap' = heap \cup {newstack[t]}
    /\ newstack' = [newstack EXCEPT ![t] = NoBlock]
    /\ Goto(t, "leaving")
    /\ UNCHANGED <<threadInfo, critical, sched, entry, ints, r_eflags>>

\* thread_create(): the entry goes to the end of the active chain, with a stack
\* that holds a context to start from, its interrupt flag set.
CreateLink(t) ==
    LET p == entry[t] IN
    /\ At(t, "taken")
    /\ next' = AppendNext(next, prev, Kernel, p)
    /\ prev' = AppendPrev(prev, Kernel, p)
    /\ stack' = [stack EXCEPT ![p] = newstack[t]]
    /\ r_esp' = [r_esp EXCEPT ![p] = newstack[t]]
    /\ r_eflags' = [r_eflags EXCEPT ![p] = TRUE]
    /\ state' = [state EXCEPT ![p] = "ACTIVE"]
    /\ newstack' = [newstack EXCEPT ![t] = NoBlock]
    /\ pc' = [pc EXCEPT ![t] = "leaving", ![p] = "run"]
    /\ UNCHANGED <<critical, sched, entry, ints, heap>>

\* thread_create(): multi_critical_exit() and the return.
CreateExit(t) ==
    /\ At(t, "leaving")
    /\ MultiCriticalExit
    /\ entry' = [entry EXCEPT ![t] = FREE]
    /\ Goto(t, "run")
    /\ UNCHANGED <<threadInfo, cursor, cur_thread_id, newstack, r_eflags, heap>>

ThreadExitFreeing(t) ==
    /\ t # Kernel
    /\ At(t, "run")
    /\ heap' = heap \cup {stack[t]}
    /\ state' = [state EXCEPT ![t] = "EXITING"]
    /\ Goto(t, "exiting")
    /\ UNCHANGED <<next, prev, stack, r_esp, critical, sched, locals, ints, r_eflags>>

\* thread_exit(), called or returned to, up to its multi_yield().  The kernel
\* thread never leaves the loop at the end of main().
ThreadExit(t) ==
    /\ t # Kernel
    /\ At(t, "run")
    /\ state' = [state EXCEPT ![t] = "EXITING"]
    /\ Goto(t, "exiting")
    /\ UNCHANGED <<next, prev, stack, r_esp, critical, sched, locals, ints, r_eflags, heap>>

-----------------------------------------------------------------------------
(* Switching threads *)

\* The context is pushed on the running thread's stack, multi_scheduler() stores
\* the stack pointer and steps to the next entry of the chain.
EnterScheduler(t) ==
    /\ r_eflags' = [r_eflags EXCEPT ![t] = ints]
    /\ ints' = FALSE
    /\ r_esp' = [r_esp EXCEPT ![t] = stack[t]]
    /\ cursor' = next[t]
    /\ cpu' = "scheduler"
    /\ UNCHANGED <<chains, stack, critical, cur_thread_id, locals, heap>>

\* multi_yield() from the code of a thread, from multi_init(), or at the end of
\* thread_exit().
MultiYield(t) ==
    /\ \/ At(t, "run") /\ UNCHANGED pc
       \/ At(t, "started") /\ Goto(t, "boot")
       \/ At(t, "exiting") /\ UNCHANGED pc
    /\ EnterScheduler(t)

\* _isr_timer, whenever the interrupt flag is set.
IsrTimer ==
    /\ cpu = "thread"
    /\ ints
    /\ EnterScheduler(cur_thread_id)
    /\ UNCHANGED pc

\* thread_destroy(): frees the stack and moves the entry to the end of the free
\* chain; the loop goes on with the entry that followed.
ThreadDestroy(d) ==
    /\ heap' = heap \cup {stack[d]}
    /\ stack' = [stack EXCEPT ![d] = NoBlock]
    /\ r_esp' = [r_esp EXCEPT ![d] = NoBlock]
    /\ state' = [state EXCEPT ![d] = "UNUSED"]
    /\ next' = AppendNext(UnlinkNext(next, prev, d), UnlinkPrev(next, prev, d), FREE, d)
    /\ prev' = AppendPrev(UnlinkPrev(next, prev, d), FREE, d)
    /\ cursor' = next[d]

SchedulerSkip ==
    /\ cpu = "scheduler"
    /\ state[cursor] = "EXITING"
    /\ cursor' = next[cursor]
    /\ UNCHANGED <<threadInfo, critical, cur_thread_id, cpu, locals, ints, r_eflags, pc, heap>>

\* One turn of multi_scheduler()'s loop that meets an exited thread.
SchedulerDestroy ==
    /\ cpu = "scheduler"
    /\ state[cursor] = "EXITING"
    /\ ThreadDestroy(cursor)
    /\ UNCHANGED <<critical, cur_thread_id, cpu, locals, ints, r_eflags, pc>>

SchedulerSwitchToAny ==
    /\ cpu = "scheduler"
    /\ cur_thread_id' = cursor
    /\ cpu' = IF state[cursor] # "UNUSED" /\ r_esp[cursor] = stack[cursor]
              THEN "thread" ELSE "panic"
    /\ ints' = r_eflags[cursor]
    /\ UNCHANGED <<threadInfo, critical, cursor, locals, r_eflags, pc, heap>>

\* Its last turn: an active thread is found, its stack pointer is checked
\* against the bounds of its stack, and its context is resumed.  Meeting an
\* unused entry is a panic.
SchedulerSwitch ==
    /\ cpu = "scheduler"
    /\ state[cursor] \in {"ACTIVE", "UNUSED"}
    /\ cur_thread_id' = cursor
    /\ cpu' = IF state[cursor] = "ACTIVE" /\ r_esp[cursor] = stack[cursor]
              THEN "thread" ELSE "panic"
    /\ ints' = r_eflags[cursor]
    /\ UNCHANGED <<threadInfo, critical, cursor, locals, r_eflags, pc, heap>>

-----------------------------------------------------------------------------
Next ==
    \/ MultiInit
    \/ InterruptsEnable
    \/ \E t \in Tid :
          \/ ThreadCreate(t)
          \/ CreateEnter(t)
          \/ CreateTake(t)
          \/ CreateFull(t)
          \/ CreateLink(t)
          \/ CreateExit(t)
          \/ ThreadExit(t)
          \/ MultiYield(t)
    \/ IsrTimer
    \/ SchedulerDestroy
    \/ SchedulerSwitch

Spec == Init /\ [][Next]_vars

\* The processor goes on with what it does while interrupts are disabled.
ProcessorRuns ==
    /\ WF_vars(MultiInit) /\ WF_vars(InterruptsEnable)
    /\ WF_vars(At(Kernel, "started") /\ MultiYield(Kernel))
    /\ \A t \in Tid : WF_vars(CreateTake(t) \/ CreateFull(t) \/ CreateLink(t) \/ CreateExit(t))
    /\ WF_vars(SchedulerDestroy \/ SchedulerSwitch)

\* The interrupt controller latches a timer tick that comes while interrupts are
\* disabled, so the tick is taken once they are enabled again.
TimerRuns == SF_vars(IsrTimer)

FairSpec == Spec /\ ProcessorRuns /\ TimerRuns

-----------------------------------------------------------------------------
(* The chains *)

Initialized == next[Kernel] # Null

\* The entries of the active chain, and the nodes of the free chain.  An entry
\* thread_create() has taken off the one and not yet put on the other is on
\* neither.
OnActive == {t \in Tid : state[t] # "UNUSED"}
Taken == {entry[t] : t \in {u \in Tid : pc[u] = "taken"}}
OnFree == {FREE} \cup {t \in Tid : state[t] = "UNUSED" /\ t \notin Taken}

\* The links nx and pv make S a doubly linked chain with head h: they stay in S
\* and undo each other, and following nx from h reaches all of S.
DoublyLinked(nx, pv, S, h) ==
    /\ h \in S
    /\ \A n \in S : /\ nx[n] \in S /\ pv[nx[n]] = n
                     /\ pv[n] \in S /\ nx[pv[n]] = n
Reached(nx, S, h) ==
    \A C \in SUBSET S : h \in C /\ (\A n \in C : nx[n] \in C) => C = S
Chain(nx, pv, S, h) == DoublyLinked(nx, pv, S, h) /\ Reached(nx, S, h)

(***************************************************************************)
(* Every entry of thread_table that is in use is on the one circular chain *)
(* that starts at the kernel thread, every other one on the free chain,    *)
(* through every creation, exit and preemption: no entry is lost, none is  *)
(* on both, and multi_scheduler() comes past every thread.                 *)
(***************************************************************************)
ChainsOK ==
    Initialized => /\ Chain(next, prev, OnActive, Kernel)
                   /\ Chain(next, prev, OnFree, FREE)

-----------------------------------------------------------------------------
(* Safety *)

InCritical == {t \in Tid : pc[t] \in {"critical", "taken", "leaving"}}

(***************************************************************************)
(* While a thread is in the critical section of thread_create() it is the  *)
(* one thread there, it is the current one, interrupts are disabled and    *)
(* the scheduler does not run; the count is that of the threads inside.    *)
(***************************************************************************)
CriticalSection ==
    IF critical_count = 0 THEN InCritical = {}
    ELSE /\ critical_count = 1
         /\ InCritical = {cur_thread_id}
         /\ ~ints
         /\ cpu # "scheduler"

(***************************************************************************)
(* None of the panics of multi.c happens: an unmatched exit from the       *)
(* critical section, interrupts enabled inside it, an unused entry or a    *)
(* stack pointer out of bounds found by the scheduler.                     *)
(***************************************************************************)
NoPanic == cpu # "panic"

(***************************************************************************)
(* Every block is free, or the stack of one thread, or held by one         *)
(* thread_create() that has not linked it yet; never two of these and      *)
(* never none of them.  So no stack in use is free, no stack is shared,    *)
(* and none is leaked on the error path of thread_create().                *)
(***************************************************************************)
Holders(b) == {t \in Tid : stack[t] = b}
Creators(b) == {t \in Tid : newstack[t] = b}
StacksAccounted ==
    \A b \in Block :
       \/ b \in heap /\ Holders(b) = {} /\ Creators(b) = {}
       \/ b \notin heap /\ \E t \in Tid : /\ Holders(b) \cup Creators(b) = {t}
                                           /\ Holders(b) \cap Creators(b) = {}

(***************************************************************************)
(* thread_exit() leaves freeing its stack to the scheduler because the     *)
(* code still runs on it.  The scheduler runs on the stack of the thread   *)
(* it was entered from, so it must not free that one either: the current   *)
(* thread always has its stack, also after it has exited.                  *)
(***************************************************************************)
RunningStackKept ==
    Initialized => stack[cur_thread_id] # NoBlock /\ stack[cur_thread_id] \notin heap

(***************************************************************************)
(* An entry is given up only after its thread has called thread_exit(),    *)
(* and not while it is the current one; and a thread that has exited and   *)
(* has been switched away from is not switched to again.                   *)
(***************************************************************************)
ExitIsFinal ==
    [][/\ \A t \in Tid : state[t] # "UNUSED" /\ state'[t] = "UNUSED"
                            => state[t] = "EXITING" /\ t # cur_thread_id
       /\ cur_thread_id' # cur_thread_id => state[cur_thread_id'] = "ACTIVE"]_vars

-----------------------------------------------------------------------------
(* Liveness *)

(***************************************************************************)
(* Every thread that is ready gets the processor, even if the others never *)
(* yield; in particular a new thread starts.                               *)
(***************************************************************************)
ReadyThreadsRun ==
    \A t \in Tid : state[t] = "ACTIVE" ~> cpu = "thread" /\ cur_thread_id = t

(***************************************************************************)
(* A thread that has exited is destroyed: its entry becomes free again.    *)
(***************************************************************************)
ExitedAreDestroyed == \A t \in Tid : state[t] = "EXITING" ~> state[t] = "UNUSED"
=============================================================================
