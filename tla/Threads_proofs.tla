--------------------------- MODULE Threads_proofs ---------------------------
(***************************************************************************)
(* Proofs about Threads, for every size of thread_table and every pool of  *)
(* stacks.                                                                 *)
(***************************************************************************)
EXTENDS ThreadQueue, NaturalFacts, FiniteSetTheorems

Link == [Node -> Node \cup {Null}]

-----------------------------------------------------------------------------
(* Chains: what unlinking and appending do to a doubly linked ring. *)

(***************************************************************************)
(* Taking an element other than the head out of a chain, as                *)
(* thread_create() and thread_destroy() do, leaves a chain of the others.  *)
(***************************************************************************)
LEMMA ChainUnlink ==
    ASSUME NEW nx \in Link, NEW pv \in Link, NEW S \in SUBSET Node, NEW h,
           Chain(nx, pv, S, h), NEW d \in S, d # h
    PROVE  Chain(UnlinkNext(nx, pv, d), UnlinkPrev(nx, pv, d), S \ {d}, h)
<1> DEFINE nx2 == UnlinkNext(nx, pv, d)
           pv2 == UnlinkPrev(nx, pv, d)
           T == S \ {d}
<1>1. /\ h \in S
      /\ \A n \in S : /\ nx[n] \in S /\ pv[nx[n]] = n
                      /\ pv[n] \in S /\ nx[pv[n]] = n
      /\ Reached(nx, S, h)
  BY DEF Chain, DoublyLinked
<1>2. nx[d] # d /\ pv[d] # d
  <2>1. nx[d] # d
    <3> SUFFICES ASSUME nx[d] = d PROVE FALSE
      OBVIOUS
    <3>1. \A n \in T : nx[n] \in T
      BY <1>1
    <3>2. T = S
      BY <1>1, <3>1 DEF Reached
    <3> QED
      BY <3>2
  <2> QED
    BY <2>1, <1>1
<1>3. \A n \in Node : nx2[n] = IF n = pv[d] THEN nx[d] ELSE nx[n]
  BY <1>1 DEF UnlinkNext, Link
<1>4. \A n \in Node : pv2[n] = IF n = nx[d] THEN pv[d] ELSE pv[n]
  BY <1>1 DEF UnlinkPrev, Link
<1> HIDE DEF nx2, pv2
<1>5. DoublyLinked(nx2, pv2, T, h)
  <2>1. h \in T
    BY <1>1
  <2>2. ASSUME NEW n \in T
        PROVE  nx2[n] \in T /\ pv2[nx2[n]] = n
    BY <1>1, <1>2, <1>3, <1>4
  <2>3. ASSUME NEW n \in T
        PROVE  pv2[n] \in T /\ nx2[pv2[n]] = n
    BY <1>1, <1>2, <1>3, <1>4
  <2> QED
    BY <2>1, <2>2, <2>3 DEF DoublyLinked
<1>6. Reached(nx2, T, h)
  <2> SUFFICES ASSUME NEW C \in SUBSET T, h \in C, \A n \in C : nx2[n] \in C
               PROVE  C = T
    BY DEF Reached
  <2> DEFINE D == IF pv[d] \in C THEN C \cup {d} ELSE C
  <2>1. \A n \in D : nx[n] \in D
    BY <1>1, <1>2, <1>3
  <2>2. D \in SUBSET S /\ h \in D
    OBVIOUS
  <2>3. D = S
    BY <2>1, <2>2, <1>1 DEF Reached
  <2> QED
    BY <2>3
<1> QED
  BY <1>5, <1>6 DEF Chain, nx2, pv2

(***************************************************************************)
(* Putting a new element at the end of a chain, as thread_create() and     *)
(* thread_destroy() do, leaves a chain with that element in it.            *)
(***************************************************************************)
LEMMA ChainAppend ==
    ASSUME NEW nx \in Link, NEW pv \in Link, NEW S \in SUBSET Node, NEW h,
           Chain(nx, pv, S, h), NEW p \in Node, p \notin S
    PROVE  Chain(AppendNext(nx, pv, h, p), AppendPrev(pv, h, p), S \cup {p}, h)
<1> DEFINE nx2 == AppendNext(nx, pv, h, p)
           pv2 == AppendPrev(pv, h, p)
           T == S \cup {p}
<1>1. /\ h \in S
      /\ \A n \in S : /\ nx[n] \in S /\ pv[nx[n]] = n
                      /\ pv[n] \in S /\ nx[pv[n]] = n
      /\ Reached(nx, S, h)
  BY DEF Chain, DoublyLinked
<1>2. \A n \in Node : nx2[n] = IF n = p THEN h ELSE IF n = pv[h] THEN p ELSE nx[n]
  BY <1>1 DEF AppendNext, Link
<1>3. \A n \in Node : pv2[n] = IF n = h THEN p ELSE IF n = p THEN pv[h] ELSE pv[n]
  BY <1>1 DEF AppendPrev, Link
<1> HIDE DEF nx2, pv2
<1>4. DoublyLinked(nx2, pv2, T, h)
  <2>1. ASSUME NEW n \in T
        PROVE  nx2[n] \in T /\ pv2[nx2[n]] = n
    BY <1>1, <1>2, <1>3
  <2>2. ASSUME NEW n \in T
        PROVE  pv2[n] \in T /\ nx2[pv2[n]] = n
    BY <1>1, <1>2, <1>3
  <2> QED
    BY <1>1, <2>1, <2>2 DEF DoublyLinked
<1>5. Reached(nx2, T, h)
  <2> SUFFICES ASSUME NEW C \in SUBSET T, h \in C, \A n \in C : nx2[n] \in C
               PROVE  C = T
    BY DEF Reached
  <2>1. \A n \in C \ {p} : nx[n] \in C \ {p}
    BY <1>1, <1>2
  <2>2. C \ {p} = S
    BY <2>1, <1>1 DEF Reached
  <2>3. p \in C
    BY <2>2, <1>1, <1>2
  <2> QED
    BY <2>2, <2>3
<1> QED
  BY <1>4, <1>5 DEF Chain, nx2, pv2

(***************************************************************************)
(* A chain is not touched by changes to the links of other nodes.          *)
(***************************************************************************)
LEMMA ChainElsewhere ==
    ASSUME NEW nx, NEW pv, NEW nx2, NEW pv2, NEW S, NEW h, Chain(nx, pv, S, h),
           \A n \in S : nx2[n] = nx[n] /\ pv2[n] = pv[n]
    PROVE  Chain(nx2, pv2, S, h)
<1>1. DoublyLinked(nx2, pv2, S, h)
  BY DEF Chain, DoublyLinked
<1>2. Reached(nx2, S, h)
  BY DEF Chain, Reached
<1> QED
  BY <1>1, <1>2 DEF Chain
-----------------------------------------------------------------------------
(* The inductive invariant *)

\* What holds of each thread's entry once multi_init() has run.
EntryOK(t) ==
    /\ state[t] = "UNUSED" => stack[t] = NoBlock /\ pc[t] \in {"run", "exiting"}
    /\ state[t] # "UNUSED" => stack[t] # NoBlock
    /\ state[t] = "EXITING" => pc[t] = "exiting"
    /\ state[t] = "ACTIVE" => pc[t] # "exiting"
    /\ pc[t] \in {"started", "boot"} => t = Kernel
    /\ pc[t] # "reset"
    /\ stack[t] = KernelStack <=> t = Kernel
    /\ newstack[t] # NoBlock <=> pc[t] \in {"allocated", "critical", "taken"}
    /\ pc[t] = "taken" => entry[t] \in Tid /\ state[entry[t]] = "UNUSED"
    /\ state[t] = "ACTIVE" /\ (cpu = "scheduler" \/ t # cur_thread_id)
          => r_esp[t] = stack[t]

\* No block has two owners, and every block has one or is free.
BlocksOK ==
    /\ \A t, u \in Tid :
          /\ t # u /\ stack[t] = stack[u] => stack[t] = NoBlock
          /\ t # u /\ newstack[t] = newstack[u] => newstack[t] = NoBlock
          /\ newstack[t] = stack[u] => stack[u] = NoBlock
    /\ \A t \in Tid : stack[t] \notin heap /\ newstack[t] \notin heap
    /\ \A b \in Block : b \in heap \/ \E t \in Tid : b \in {stack[t], newstack[t]}

\* The processor: the current thread is in use, and the scheduler's loop has
\* removed everything between it and the entry it looks at.
ProcessorOK ==
    /\ cpu # "panic"
    /\ state[cur_thread_id] # "UNUSED"
    /\ state[Kernel] = "ACTIVE"
    /\ cpu = "scheduler" => cursor = next[cur_thread_id] /\ ~ints

Working ==
    /\ \A n \in Node : next[n] # Null /\ prev[n] # Null
    /\ Chain(next, prev, OnActive, Kernel)
    /\ Chain(next, prev, OnFree, FREE)
    /\ CriticalSection
    /\ ProcessorOK
    /\ BlocksOK
    /\ \A t \in Tid : EntryOK(t)

(***************************************************************************)
(* Before multi_init() nothing has changed since the kernel was loaded;    *)
(* after it all of Working holds between any two steps.                    *)
(***************************************************************************)
IInv == TypeOK /\ (IF pc[Kernel] = "reset" THEN Init ELSE Working)

-----------------------------------------------------------------------------
(* The steps *)

(***************************************************************************)
(* A step that moves no entry between the chains and relinks nothing       *)
(* leaves both chains as they are.                                         *)
(***************************************************************************)
LEMMA ChainsUnchanged ==
    ASSUME Working, UNCHANGED <<next, prev>>, OnActive' = OnActive, OnFree' = OnFree
    PROVE  /\ (\A n \in Node : next[n] # Null /\ prev[n] # Null)'
           /\ Chain(next, prev, OnActive, Kernel)'
           /\ Chain(next, prev, OnFree, FREE)'
  BY DEF Working, Chain, DoublyLinked, Reached, Kernel, FREE, Node, Null, Tid

(***************************************************************************)
(* multi_init() makes a chain of one and a chain of all the others.        *)
(***************************************************************************)
LEMMA MultiInitStep == ASSUME IInv, MultiInit PROVE IInv'
<1> USE ThreadsMaxAssumption, BlockAssumption
<1>1. Init /\ TypeOK
  BY DEF IInv, MultiInit, At
<1>2. TypeOK'
  BY <1>1 DEF TypeOK, Init, MultiInit, Goto, Tid, Node, FREE, Null, Kernel, Label,
              ThreadState, sched, locals
<1>3. OnActive' = {Kernel} /\ OnFree' = Node \ {Kernel}
  <2>1. state' = [t \in Tid |-> IF t = Kernel THEN "ACTIVE" ELSE "UNUSED"]
    BY DEF MultiInit
  <2>2. \A t \in Tid : pc'[t] # "taken"
    BY <1>1 DEF Init, MultiInit, Goto, Tid, Kernel
  <2>3. Kernel \in Tid
    BY DEF Kernel, Tid
  <2>4. OnActive' = {Kernel}
    BY <2>1, <2>3 DEF OnActive
  <2>5. Taken' = {}
    BY <2>2 DEF Taken
  <2>6. \A t \in Tid : state'[t] = "UNUSED" <=> t # Kernel
    BY <2>1
  <2>7. Kernel # FREE
    BY DEF Kernel, FREE
  <2> QED
    BY <2>4, <2>5, <2>6, <2>7 DEF OnFree, Node
<1>4. (\A n \in Node : next[n] # Null /\ prev[n] # Null)'
  BY <1>1 DEF MultiInit, Node, Tid, FREE, Null, Kernel
<1>5. Chain(next, prev, OnActive, Kernel)'
  <2>1. next'[Kernel] = Kernel /\ prev'[Kernel] = Kernel
    BY DEF MultiInit, Node, Tid, Kernel
  <2> QED
    BY <1>3, <2>1 DEF Chain, DoublyLinked, Reached
<1>6. DoublyLinked(next, prev, OnFree, FREE)'
  BY <1>3 DEF DoublyLinked, MultiInit, Node, Tid, FREE, Kernel
<1>7. Reached(next, OnFree, FREE)'
  <2> SUFFICES ASSUME NEW C \in SUBSET (Node \ {Kernel}), FREE \in C,
                      \A n \in C : next'[n] \in C
               PROVE  C = Node \ {Kernel}
    BY <1>3 DEF Reached
  <2> SUFFICES ASSUME (Node \ {Kernel}) \ C # {} PROVE FALSE
    OBVIOUS
  <2>1. (Node \ {Kernel}) \ C \in SUBSET Nat
    BY DEF Node, Tid, FREE
  <2>2. PICK m \in (Node \ {Kernel}) \ C : \A n \in (Node \ {Kernel}) \ C : m <= n
    BY <2>1, LeastNat, Zenon
  <2>3. m # 1
    BY <2>2 DEF MultiInit, Node, Tid, FREE, Kernel
  <2>4. m - 1 \in C
    BY <2>2, <2>3 DEF Node, Tid, FREE, Kernel
  <2>5. next'[m - 1] = m
    BY <2>2, <2>3 DEF MultiInit, Node, Tid, FREE, Kernel
  <2> QED
    BY <2>2, <2>4, <2>5
<1>8. CriticalSection'
  BY <1>1 DEF CriticalSection, InCritical, Init, MultiInit, Goto, Kernel
<1>9. ProcessorOK'
  BY <1>1 DEF ProcessorOK, Init, MultiInit, sched, Kernel, Tid
<1>10. BlocksOK'
  BY <1>1 DEF BlocksOK, Init, MultiInit, locals, Kernel, Tid
<1>11. ASSUME NEW t \in Tid PROVE EntryOK(t)'
  BY <1>1 DEF EntryOK, Init, MultiInit, Goto, sched, locals, Kernel, Tid
<1>12. pc'[Kernel] # "reset"
  BY <1>1 DEF MultiInit, Goto, TypeOK, Kernel, Tid
<1> QED
  BY <1>2, <1>4, <1>5, <1>6, <1>7, <1>8, <1>9, <1>10, <1>11, <1>12 DEF IInv, Working, Chain

(***************************************************************************)
(* main() enables interrupts.                                              *)
(***************************************************************************)
LEMMA InterruptsEnableStep ==
    ASSUME TypeOK, Working, InterruptsEnable PROVE TypeOK' /\ Working'
<1> USE BlockAssumption
<1>1. TypeOK'
  BY DEF TypeOK, Working, ProcessorOK, EntryOK, InterruptsEnable, At, Goto, Kernel, Label, threadInfo, critical, sched, locals, chains
<1>2. OnActive' = OnActive /\ OnFree' = OnFree
  BY DEF TypeOK, OnActive, OnFree, Taken, InterruptsEnable, At, Goto, Kernel, Label, threadInfo, critical, sched, locals, chains
<1>3. CriticalSection'
  BY DEF TypeOK, Working, CriticalSection, InCritical, ProcessorOK, InterruptsEnable, At, Goto, Kernel, Label, threadInfo, critical, sched, locals, chains
<1>4. ProcessorOK'
  BY DEF TypeOK, Working, ProcessorOK, EntryOK, CriticalSection, InCritical, InterruptsEnable, At, Goto, Kernel, Label, threadInfo, critical, sched, locals, chains
<1>5. BlocksOK'
  BY DEF TypeOK, Working, BlocksOK, EntryOK, InterruptsEnable, At, Goto, Kernel, Label, threadInfo, critical, sched, locals, chains
<1>6. ASSUME NEW u \in Tid PROVE EntryOK(u)'
  BY DEF TypeOK, Working, EntryOK, CriticalSection, InCritical, ProcessorOK, InterruptsEnable, At, Goto, Kernel, Label, threadInfo, critical, sched, locals, chains
<1> QED
  BY <1>1, <1>2, <1>3, <1>4, <1>5, <1>6, ChainsUnchanged DEF Working, InterruptsEnable, At, Goto, Kernel, Label, threadInfo, critical, sched, locals, chains

(***************************************************************************)
(* thread_create() allocates a stack.                                      *)
(***************************************************************************)
LEMMA ThreadCreateStep ==
    ASSUME TypeOK, Working, NEW t \in Tid, ThreadCreate(t) PROVE TypeOK' /\ Working'
<1> USE BlockAssumption
<1>1. TypeOK'
  BY DEF TypeOK, Working, ProcessorOK, EntryOK, ThreadCreate, At, Goto, Kernel, Label, threadInfo, critical, sched, locals, chains
<1>2. OnActive' = OnActive /\ OnFree' = OnFree
  BY DEF TypeOK, OnActive, OnFree, Taken, ThreadCreate, At, Goto, Kernel, Label, threadInfo, critical, sched, locals, chains
<1>3. CriticalSection'
  BY DEF TypeOK, Working, CriticalSection, InCritical, ProcessorOK, ThreadCreate, At, Goto, Kernel, Label, threadInfo, critical, sched, locals, chains
<1>4. ProcessorOK'
  BY DEF TypeOK, Working, ProcessorOK, EntryOK, CriticalSection, InCritical, ThreadCreate, At, Goto, Kernel, Label, threadInfo, critical, sched, locals, chains
<1>5. BlocksOK'
  BY DEF TypeOK, Working, BlocksOK, EntryOK, ThreadCreate, At, Goto, Kernel, Label, threadInfo, critical, sched, locals, chains
<1>6. ASSUME NEW u \in Tid PROVE EntryOK(u)'
  BY DEF TypeOK, Working, EntryOK, CriticalSection, InCritical, ProcessorOK, ThreadCreate, At, Goto, Kernel, Label, threadInfo, critical, sched, locals, chains
<1> QED
  BY <1>1, <1>2, <1>3, <1>4, <1>5, <1>6, ChainsUnchanged DEF Working, ThreadCreate, At, Goto, Kernel, Label, threadInfo, critical, sched, locals, chains

(***************************************************************************)
(* thread_create() enters its critical section.                            *)
(***************************************************************************)
LEMMA CreateEnterStep ==
    ASSUME TypeOK, Working, NEW t \in Tid, CreateEnter(t) PROVE TypeOK' /\ Working'
<1> USE BlockAssumption
<1>1. TypeOK'
  <2>1. ints' \in BOOLEAN /\ critical_enab_ints' \in BOOLEAN
    BY Zenon DEF TypeOK, CreateEnter, MultiCriticalEnter, At, Goto, Kernel, Label, threadInfo, critical, sched, locals, chains
  <2>2. r_eflags' \in [Tid -> BOOLEAN]
    BY Zenon DEF TypeOK, CreateEnter, MultiCriticalEnter, At, Goto, Kernel, Label, threadInfo, critical, sched, locals, chains
  <2> QED
    BY <2>1, <2>2 DEF Node, TypeOK, Working, ProcessorOK, EntryOK, CreateEnter, MultiCriticalEnter, At, Goto, Kernel, Label, threadInfo, critical, sched, locals, chains
<1>2. OnActive' = OnActive /\ OnFree' = OnFree
  BY DEF TypeOK, OnActive, OnFree, Taken, CreateEnter, MultiCriticalEnter, At, Goto, Kernel, Label, threadInfo, critical, sched, locals, chains
<1>3. CriticalSection'
  BY DEF TypeOK, Working, CriticalSection, InCritical, ProcessorOK, CreateEnter, MultiCriticalEnter, At, Goto, Kernel, Label, threadInfo, critical, sched, locals, chains
<1>4. ProcessorOK'
  BY DEF TypeOK, Working, ProcessorOK, EntryOK, CriticalSection, InCritical, CreateEnter, MultiCriticalEnter, At, Goto, Kernel, Label, threadInfo, critical, sched, locals, chains
<1>5. BlocksOK'
  BY DEF TypeOK, Working, BlocksOK, EntryOK, CreateEnter, MultiCriticalEnter, At, Goto, Kernel, Label, threadInfo, critical, sched, locals, chains
<1>6. ASSUME NEW u \in Tid PROVE EntryOK(u)'
  BY DEF TypeOK, Working, EntryOK, CriticalSection, InCritical, ProcessorOK, CreateEnter, MultiCriticalEnter, At, Goto, Kernel, Label, threadInfo, critical, sched, locals, chains
<1> QED
  BY <1>1, <1>2, <1>3, <1>4, <1>5, <1>6, ChainsUnchanged DEF Working, CreateEnter, MultiCriticalEnter, At, Goto, Kernel, Label, threadInfo, critical, sched, locals, chains

(***************************************************************************)
(* thread_create() finds no free entry.                                    *)
(***************************************************************************)
LEMMA CreateFullStep ==
    ASSUME TypeOK, Working, NEW t \in Tid, CreateFull(t) PROVE TypeOK' /\ Working'
<1> USE BlockAssumption
<1>1. TypeOK'
  BY DEF TypeOK, Working, ProcessorOK, EntryOK, CreateFull, At, Goto, Kernel, Label, threadInfo, critical, sched, locals, chains
<1>2. OnActive' = OnActive /\ OnFree' = OnFree
  BY DEF TypeOK, OnActive, OnFree, Taken, CreateFull, At, Goto, Kernel, Label, threadInfo, critical, sched, locals, chains
<1>3. CriticalSection'
  BY DEF TypeOK, Working, CriticalSection, InCritical, ProcessorOK, CreateFull, At, Goto, Kernel, Label, threadInfo, critical, sched, locals, chains
<1>4. ProcessorOK'
  BY DEF TypeOK, Working, ProcessorOK, EntryOK, CriticalSection, InCritical, CreateFull, At, Goto, Kernel, Label, threadInfo, critical, sched, locals, chains
<1>5. BlocksOK'
  BY DEF TypeOK, Working, BlocksOK, EntryOK, CreateFull, At, Goto, Kernel, Label, threadInfo, critical, sched, locals, chains
<1>6. ASSUME NEW u \in Tid PROVE EntryOK(u)'
  BY DEF TypeOK, Working, EntryOK, CriticalSection, InCritical, ProcessorOK, CreateFull, At, Goto, Kernel, Label, threadInfo, critical, sched, locals, chains
<1> QED
  BY <1>1, <1>2, <1>3, <1>4, <1>5, <1>6, ChainsUnchanged DEF Working, CreateFull, At, Goto, Kernel, Label, threadInfo, critical, sched, locals, chains

(***************************************************************************)
(* thread_create() leaves its critical section.                            *)
(***************************************************************************)
LEMMA CreateExitStep ==
    ASSUME TypeOK, Working, NEW t \in Tid, CreateExit(t) PROVE TypeOK' /\ Working'
<1> USE BlockAssumption
<1>1. TypeOK'
  <2>1. ints' \in BOOLEAN /\ critical_enab_ints' \in BOOLEAN
    BY Zenon DEF TypeOK, CreateExit, MultiCriticalExit, At, Goto, Kernel, Label, threadInfo, critical, sched, locals, chains
  <2>2. r_eflags' \in [Tid -> BOOLEAN]
    BY Zenon DEF TypeOK, CreateExit, MultiCriticalExit, At, Goto, Kernel, Label, threadInfo, critical, sched, locals, chains
  <2> QED
    BY <2>1, <2>2 DEF Node, TypeOK, Working, ProcessorOK, EntryOK, CreateExit, MultiCriticalExit, At, Goto, Kernel, Label, threadInfo, critical, sched, locals, chains
<1>2. OnActive' = OnActive /\ OnFree' = OnFree
  BY DEF TypeOK, OnActive, OnFree, Taken, CreateExit, MultiCriticalExit, At, Goto, Kernel, Label, threadInfo, critical, sched, locals, chains
<1>3. CriticalSection'
  BY DEF TypeOK, Working, CriticalSection, InCritical, ProcessorOK, CreateExit, MultiCriticalExit, At, Goto, Kernel, Label, threadInfo, critical, sched, locals, chains
<1>4. ProcessorOK'
  BY DEF TypeOK, Working, ProcessorOK, EntryOK, CriticalSection, InCritical, CreateExit, MultiCriticalExit, At, Goto, Kernel, Label, threadInfo, critical, sched, locals, chains
<1>5. BlocksOK'
  BY DEF TypeOK, Working, BlocksOK, EntryOK, CreateExit, MultiCriticalExit, At, Goto, Kernel, Label, threadInfo, critical, sched, locals, chains
<1>6. ASSUME NEW u \in Tid PROVE EntryOK(u)'
  BY DEF TypeOK, Working, EntryOK, CriticalSection, InCritical, ProcessorOK, CreateExit, MultiCriticalExit, At, Goto, Kernel, Label, threadInfo, critical, sched, locals, chains
<1> QED
  BY <1>1, <1>2, <1>3, <1>4, <1>5, <1>6, ChainsUnchanged DEF Working, CreateExit, MultiCriticalExit, At, Goto, Kernel, Label, threadInfo, critical, sched, locals, chains

(***************************************************************************)
(* A thread calls thread_exit().                                           *)
(***************************************************************************)
LEMMA ThreadExitStep ==
    ASSUME TypeOK, Working, NEW t \in Tid, ThreadExit(t) PROVE TypeOK' /\ Working'
<1> USE BlockAssumption
<1>1. TypeOK'
  BY DEF TypeOK, Working, ProcessorOK, EntryOK, ThreadExit, ThreadState, At, Goto, Kernel, Label, threadInfo, critical, sched, locals, chains
<1>2. OnActive' = OnActive /\ OnFree' = OnFree
  BY DEF TypeOK, Working, ProcessorOK, OnActive, OnFree, Taken, ThreadExit, ThreadState, At, Goto, Kernel, Label, threadInfo, critical, sched, locals, chains
<1>3. CriticalSection'
  BY DEF TypeOK, Working, CriticalSection, InCritical, ProcessorOK, ThreadExit, ThreadState, At, Goto, Kernel, Label, threadInfo, critical, sched, locals, chains
<1>4. ProcessorOK'
  BY DEF TypeOK, Working, ProcessorOK, EntryOK, CriticalSection, InCritical, ThreadExit, ThreadState, At, Goto, Kernel, Label, threadInfo, critical, sched, locals, chains
<1>5. BlocksOK'
  BY DEF TypeOK, Working, BlocksOK, EntryOK, ThreadExit, ThreadState, At, Goto, Kernel, Label, threadInfo, critical, sched, locals, chains
<1>6. ASSUME NEW u \in Tid PROVE EntryOK(u)'
  BY DEF TypeOK, Working, EntryOK, CriticalSection, InCritical, ProcessorOK, ThreadExit, ThreadState, At, Goto, Kernel, Label, threadInfo, critical, sched, locals, chains
<1> QED
  BY <1>1, <1>2, <1>3, <1>4, <1>5, <1>6, ChainsUnchanged DEF Working, ThreadExit, ThreadState, At, Goto, Kernel, Label, threadInfo, critical, sched, locals, chains

(***************************************************************************)
(* A thread yields.                                                        *)
(***************************************************************************)
LEMMA MultiYieldStep ==
    ASSUME TypeOK, Working, NEW t \in Tid, MultiYield(t) PROVE TypeOK' /\ Working'
<1> USE BlockAssumption
<1>1. TypeOK'
  <2>1. ints' \in BOOLEAN /\ critical_enab_ints' \in BOOLEAN
    BY Zenon DEF TypeOK, MultiYield, EnterScheduler, At, Goto, Kernel, Label, threadInfo, critical, sched, locals, chains
  <2>2. r_eflags' \in [Tid -> BOOLEAN]
    BY Zenon DEF TypeOK, MultiYield, EnterScheduler, At, Goto, Kernel, Label, threadInfo, critical, sched, locals, chains
  <2> QED
    BY <2>1, <2>2 DEF Node, TypeOK, Working, ProcessorOK, EntryOK, MultiYield, EnterScheduler, At, Goto, Kernel, Label, threadInfo, critical, sched, locals, chains
<1>2. OnActive' = OnActive /\ OnFree' = OnFree
  BY DEF TypeOK, OnActive, OnFree, Taken, MultiYield, EnterScheduler, At, Goto, Kernel, Label, threadInfo, critical, sched, locals, chains
<1>3. CriticalSection'
  BY DEF TypeOK, Working, CriticalSection, InCritical, ProcessorOK, MultiYield, EnterScheduler, At, Goto, Kernel, Label, threadInfo, critical, sched, locals, chains
<1>4. ProcessorOK'
  BY DEF TypeOK, Working, ProcessorOK, EntryOK, CriticalSection, InCritical, MultiYield, EnterScheduler, At, Goto, Kernel, Label, threadInfo, critical, sched, locals, chains
<1>5. BlocksOK'
  BY DEF TypeOK, Working, BlocksOK, EntryOK, MultiYield, EnterScheduler, At, Goto, Kernel, Label, threadInfo, critical, sched, locals, chains
<1>6. ASSUME NEW u \in Tid PROVE EntryOK(u)'
  BY DEF TypeOK, Working, EntryOK, CriticalSection, InCritical, ProcessorOK, MultiYield, EnterScheduler, At, Goto, Kernel, Label, threadInfo, critical, sched, locals, chains
<1> QED
  BY <1>1, <1>2, <1>3, <1>4, <1>5, <1>6, ChainsUnchanged DEF Working, MultiYield, EnterScheduler, At, Goto, Kernel, Label, threadInfo, critical, sched, locals, chains

(***************************************************************************)
(* A thread is interrupted by the timer.                                   *)
(***************************************************************************)
LEMMA IsrTimerStep ==
    ASSUME TypeOK, Working, IsrTimer PROVE TypeOK' /\ Working'
<1> USE BlockAssumption
<1>1. TypeOK'
  <2>1. ints' \in BOOLEAN /\ critical_enab_ints' \in BOOLEAN
    BY Zenon DEF TypeOK, IsrTimer, EnterScheduler, At, Goto, Kernel, Label, threadInfo, critical, sched, locals, chains
  <2>2. r_eflags' \in [Tid -> BOOLEAN]
    BY Zenon DEF TypeOK, IsrTimer, EnterScheduler, At, Goto, Kernel, Label, threadInfo, critical, sched, locals, chains
  <2> QED
    BY <2>1, <2>2 DEF Node, TypeOK, Working, ProcessorOK, EntryOK, IsrTimer, EnterScheduler, At, Goto, Kernel, Label, threadInfo, critical, sched, locals, chains
<1>2. OnActive' = OnActive /\ OnFree' = OnFree
  BY DEF TypeOK, OnActive, OnFree, Taken, IsrTimer, EnterScheduler, At, Goto, Kernel, Label, threadInfo, critical, sched, locals, chains
<1>3. CriticalSection'
  BY DEF TypeOK, Working, CriticalSection, InCritical, ProcessorOK, IsrTimer, EnterScheduler, At, Goto, Kernel, Label, threadInfo, critical, sched, locals, chains
<1>4. ProcessorOK'
  BY DEF TypeOK, Working, ProcessorOK, EntryOK, CriticalSection, InCritical, IsrTimer, EnterScheduler, At, Goto, Kernel, Label, threadInfo, critical, sched, locals, chains
<1>5. BlocksOK'
  BY DEF TypeOK, Working, BlocksOK, EntryOK, IsrTimer, EnterScheduler, At, Goto, Kernel, Label, threadInfo, critical, sched, locals, chains
<1>6. ASSUME NEW u \in Tid PROVE EntryOK(u)'
  BY DEF TypeOK, Working, EntryOK, CriticalSection, InCritical, ProcessorOK, IsrTimer, EnterScheduler, At, Goto, Kernel, Label, threadInfo, critical, sched, locals, chains
<1> QED
  BY <1>1, <1>2, <1>3, <1>4, <1>5, <1>6, ChainsUnchanged DEF Working, IsrTimer, EnterScheduler, At, Goto, Kernel, Label, threadInfo, critical, sched, locals, chains

(***************************************************************************)
(* The scheduler resumes a thread.                                         *)
(***************************************************************************)
LEMMA SchedulerSwitchStep ==
    ASSUME TypeOK, Working, SchedulerSwitch PROVE TypeOK' /\ Working'
<1> USE BlockAssumption
<1>0. cursor \in Tid /\ state[cursor] = "ACTIVE" /\ r_esp[cursor] = stack[cursor]
  <2>1. cur_thread_id \in OnActive /\ cursor = next[cur_thread_id]
    BY DEF TypeOK, Working, ProcessorOK, OnActive, SchedulerSwitch
  <2>2. cursor \in OnActive
    BY <2>1 DEF Working, Chain, DoublyLinked
  <2> QED
    BY <2>2 DEF OnActive, Working, EntryOK, SchedulerSwitch
<1>1. TypeOK'
  <2>1. ints' \in BOOLEAN
    BY <1>0, Zenon DEF TypeOK, SchedulerSwitch
  <2> QED
    BY <1>0, <2>1 DEF TypeOK, SchedulerSwitch, At, Goto, Kernel, Label, threadInfo, critical, sched, locals, chains
<1>2. OnActive' = OnActive /\ OnFree' = OnFree
  BY DEF TypeOK, OnActive, OnFree, Taken, SchedulerSwitch, At, Goto, Kernel, Label, threadInfo, critical, sched, locals, chains
<1>3. CriticalSection'
  BY DEF TypeOK, Working, CriticalSection, InCritical, ProcessorOK, SchedulerSwitch, At, Goto, Kernel, Label, threadInfo, critical, sched, locals, chains
<1>4. ProcessorOK'
  BY <1>0 DEF TypeOK, Working, ProcessorOK, EntryOK, CriticalSection, InCritical, SchedulerSwitch, At, Goto, Kernel, Label, threadInfo, critical, sched, locals, chains
<1>5. BlocksOK'
  BY DEF TypeOK, Working, BlocksOK, EntryOK, SchedulerSwitch, At, Goto, Kernel, Label, threadInfo, critical, sched, locals, chains
<1>6. ASSUME NEW u \in Tid PROVE EntryOK(u)'
  BY DEF TypeOK, Working, EntryOK, CriticalSection, InCritical, ProcessorOK, SchedulerSwitch, At, Goto, Kernel, Label, threadInfo, critical, sched, locals, chains
<1> QED
  BY <1>1, <1>2, <1>3, <1>4, <1>5, <1>6, ChainsUnchanged DEF Working, SchedulerSwitch, At, Goto, Kernel, Label, threadInfo, critical, sched, locals, chains

(***************************************************************************)
(* thread_create() takes an entry off the free chain.                      *)
(***************************************************************************)
LEMMA CreateTakeStep ==
    ASSUME TypeOK, Working, NEW t \in Tid, CreateTake(t) PROVE TypeOK' /\ Working'
<1> USE BlockAssumption
<1> DEFINE p == next[FREE]
<1>1. /\ t = cur_thread_id /\ cpu = "thread" /\ pc[t] = "critical" /\ p # FREE
      /\ next' = UnlinkNext(next, prev, p) /\ prev' = UnlinkPrev(next, prev, p)
      /\ entry' = [entry EXCEPT ![t] = p] /\ pc' = [pc EXCEPT ![t] = "taken"]
      /\ UNCHANGED <<state, stack, r_esp, critical, sched, newstack, ints, r_eflags, heap>>
  BY DEF CreateTake, FirstFree, At, Goto
<1>2. critical_count = 1 /\ InCritical = {t} /\ ~ints
  BY <1>1 DEF Working, CriticalSection, InCritical
<1>3. Taken = {}
  BY <1>1, <1>2 DEF Taken, InCritical
<1>4. p \in OnFree /\ p \in Tid /\ state[p] = "UNUSED"
  BY <1>1 DEF Working, Chain, DoublyLinked, OnFree
<1>5. next \in Link /\ prev \in Link /\ OnFree \subseteq Node /\ OnActive \subseteq Node
  BY DEF TypeOK, Link, OnFree, OnActive, Node
<1>6. Taken' = {p}
  <2>1. \A u \in Tid : pc'[u] = "taken" <=> u = t
    BY <1>1, <1>2 DEF TypeOK, InCritical
  <2>2. entry'[t] = p
    BY <1>1 DEF TypeOK
  <2> QED
    BY <2>1, <2>2 DEF Taken
<1>7. OnFree' = OnFree \ {p} /\ OnActive' = OnActive
  BY <1>1, <1>3, <1>4, <1>6 DEF OnFree, OnActive
<1>8. Chain(next, prev, OnFree, FREE)'
  BY <1>1, <1>4, <1>5, <1>7, ChainUnlink DEF Working
<1>9. Chain(next, prev, OnActive, Kernel)'
  <2>1. next[p] \in OnFree /\ prev[p] \in OnFree /\ OnFree \cap OnActive = {}
    <3>1. FREE \notin Tid
      BY ThreadsMaxAssumption DEF FREE, Tid
    <3> QED
      BY <3>1, <1>4 DEF Working, Chain, DoublyLinked, OnFree, OnActive
  <2>2. \A n \in OnActive : next'[n] = next[n] /\ prev'[n] = prev[n]
    BY <1>1, <1>5, <2>1 DEF UnlinkNext, UnlinkPrev, Link
  <2> QED
    BY <1>7, <2>2, ChainElsewhere DEF Working
<1>10. next' \in Link /\ prev' \in Link /\ \A n \in Node : next'[n] # Null /\ prev'[n] # Null
  BY <1>1, <1>4, <1>5 DEF UnlinkNext, UnlinkPrev, Link, Working, Node
<1>11. TypeOK'
  <2>1. entry' \in [Tid -> Node] /\ pc' \in [Tid -> Label]
    BY <1>1, <1>4 DEF TypeOK, Node, Label
  <2> QED
    BY <1>1, <1>10, <2>1 DEF TypeOK, Link, critical, sched
<1>12. CriticalSection'
  BY <1>1, <1>2 DEF TypeOK, CriticalSection, InCritical, critical, sched
<1>13. ProcessorOK'
  BY <1>1 DEF Working, ProcessorOK, sched
<1>14. BlocksOK'
  BY <1>1 DEF Working, BlocksOK
<1>15. ASSUME NEW u \in Tid PROVE EntryOK(u)'
  BY <1>1, <1>2, <1>4 DEF TypeOK, Working, EntryOK, InCritical, sched
<1> QED
  BY <1>8, <1>9, <1>10, <1>11, <1>12, <1>13, <1>14, <1>15 DEF Working

(***************************************************************************)
(* thread_create() puts the entry it has taken on the active chain.        *)
(***************************************************************************)
LEMMA CreateLinkStep ==
    ASSUME TypeOK, Working, NEW t \in Tid, CreateLink(t) PROVE TypeOK' /\ Working'
<1> USE BlockAssumption
<1> DEFINE p == entry[t]
<1>1. /\ t = cur_thread_id /\ cpu = "thread" /\ pc[t] = "taken"
      /\ next' = AppendNext(next, prev, Kernel, p)
      /\ prev' = AppendPrev(prev, Kernel, p)
      /\ stack' = [stack EXCEPT ![p] = newstack[t]]
      /\ r_esp' = [r_esp EXCEPT ![p] = newstack[t]]
      /\ r_eflags' = [r_eflags EXCEPT ![p] = TRUE]
      /\ state' = [state EXCEPT ![p] = "ACTIVE"]
      /\ newstack' = [newstack EXCEPT ![t] = NoBlock]
      /\ pc' = [pc EXCEPT ![t] = "leaving", ![p] = "run"]
      /\ UNCHANGED <<critical, sched, entry, ints, heap>>
  BY DEF CreateLink, At
<1>2. critical_count = 1 /\ InCritical = {t} /\ ~ints
  BY <1>1 DEF Working, CriticalSection, InCritical
<1>3. Taken = {p}
  BY <1>1, <1>2 DEF Taken, InCritical
<1>4. /\ p \in Tid /\ state[p] = "UNUSED" /\ stack[p] = NoBlock /\ newstack[p] = NoBlock
      /\ pc[p] \in {"run", "exiting"} /\ p # t /\ p # Kernel /\ newstack[t] # NoBlock
  BY <1>1 DEF Working, EntryOK, ProcessorOK
<1>5. next \in Link /\ prev \in Link /\ OnActive \subseteq Node /\ p \in Node /\ p \notin OnActive
  BY <1>4 DEF TypeOK, Link, OnActive, Node
<1>6. \A u \in Tid : pc'[u] # "taken"
  BY <1>1, <1>2, <1>4 DEF TypeOK, InCritical
<1>7. OnActive' = OnActive \cup {p} /\ OnFree' = OnFree
  <2>1. Taken' = {}
    BY <1>6 DEF Taken
  <2>2. \A u \in Tid : state'[u] = IF u = p THEN "ACTIVE" ELSE state[u]
    BY <1>1 DEF TypeOK
  <2> QED
    BY <2>1, <2>2, <1>3, <1>4 DEF OnActive, OnFree
<1>8. Chain(next, prev, OnActive, Kernel)'
  BY <1>1, <1>5, <1>7, ChainAppend DEF Working
<1>9. Chain(next, prev, OnFree, FREE)'
  <2>1. prev[Kernel] \in OnActive /\ Kernel \in OnActive
    BY DEF Working, Chain, DoublyLinked
  <2>2. FREE \notin Tid
    BY ThreadsMaxAssumption DEF FREE, Tid
  <2>3. OnFree \cap OnActive = {} /\ p \notin OnFree
    BY <2>2, <1>3, <1>4 DEF OnFree, OnActive
  <2>4. \A n \in OnFree : next'[n] = next[n] /\ prev'[n] = prev[n]
    BY <1>1, <1>5, <2>1, <2>3 DEF AppendNext, AppendPrev, Link, OnFree, Node
  <2> QED
    BY <1>7, <2>4, ChainElsewhere DEF Working
<1>10. next' \in Link /\ prev' \in Link /\ \A n \in Node : next'[n] # Null /\ prev'[n] # Null
  <2>1. Kernel \in Node /\ Kernel # Null /\ p # Null
    BY <1>4, ThreadsMaxAssumption DEF Kernel, Node, Tid, Null
  <2> QED
    BY <1>1, <1>5, <2>1 DEF AppendNext, AppendPrev, Link, Working, Node
<1>11. TypeOK'
  <2>1. r_eflags' \in [Tid -> BOOLEAN]
    BY <1>1, Zenon DEF TypeOK
  <2>2. /\ state' \in [Tid -> ThreadState] /\ stack' \in [Tid -> Block \cup {KernelStack, NoBlock}]
        /\ r_esp' \in [Tid -> Block \cup {KernelStack, NoBlock}]
        /\ newstack' \in [Tid -> Block \cup {NoBlock}] /\ pc' \in [Tid -> Label]
    BY <1>1 DEF TypeOK, ThreadState, Label
  <2> QED
    BY <1>1, <1>10, <2>1, <2>2 DEF TypeOK, Link, critical, sched
<1>12. CriticalSection'
  BY <1>1, <1>2, <1>4 DEF TypeOK, CriticalSection, InCritical, critical, sched
<1>13. ProcessorOK'
  BY <1>1, <1>4 DEF TypeOK, Working, ProcessorOK, sched
<1>14. BlocksOK'
  BY <1>1, <1>4 DEF TypeOK, Working, BlocksOK
<1>15. ASSUME NEW u \in Tid PROVE EntryOK(u)'
  BY <1>1, <1>2, <1>4 DEF TypeOK, Working, EntryOK, InCritical, sched
<1> QED
  BY <1>8, <1>9, <1>10, <1>11, <1>12, <1>13, <1>14, <1>15 DEF Working

(***************************************************************************)
(* The scheduler destroys an exited thread.  It is never the one whose     *)
(* stack the scheduler runs on: the next entry could be the current one    *)
(* only if it were alone on the chain, but the kernel thread is on it.     *)
(***************************************************************************)
LEMMA CursorNotCurrent ==
    ASSUME TypeOK, Working, cpu = "scheduler", state[cursor] = "EXITING"
    PROVE  cursor # cur_thread_id /\ cursor \in Tid /\ cursor # Kernel
<1>1. /\ cursor = next[cur_thread_id] /\ cur_thread_id \in OnActive
      /\ state[Kernel] = "ACTIVE" /\ cursor # Kernel
  BY DEF Working, ProcessorOK, OnActive, TypeOK
<1>2. Kernel \in OnActive /\ \A n \in OnActive : next[n] \in OnActive /\ prev[next[n]] = n
  BY DEF Working, Chain, DoublyLinked
<1>3. cursor # cur_thread_id
  <2> SUFFICES ASSUME cursor = cur_thread_id PROVE FALSE
    OBVIOUS
  <2> DEFINE C == OnActive \ {cursor}
  <2>1. Kernel \in C /\ \A n \in C : next[n] \in C
    BY <1>1, <1>2
  <2>2. C = OnActive
    BY <2>1 DEF Working, Chain, Reached
  <2> QED
    BY <2>2, <1>1
<1> QED
  BY <1>1, <1>2, <1>3 DEF OnActive

LEMMA SchedulerDestroyStep ==
    ASSUME TypeOK, Working, SchedulerDestroy PROVE TypeOK' /\ Working'
<1> USE BlockAssumption
<1> DEFINE d == cursor
           nx == UnlinkNext(next, prev, d)
           pv == UnlinkPrev(next, prev, d)
<1>1. /\ cpu = "scheduler" /\ state[d] = "EXITING"
      /\ heap' = heap \cup {stack[d]}
      /\ stack' = [stack EXCEPT ![d] = NoBlock]
      /\ r_esp' = [r_esp EXCEPT ![d] = NoBlock]
      /\ state' = [state EXCEPT ![d] = "UNUSED"]
      /\ next' = AppendNext(nx, pv, FREE, d) /\ prev' = AppendPrev(pv, FREE, d)
      /\ cursor' = next[d]
      /\ UNCHANGED <<critical, cur_thread_id, cpu, locals, ints, r_eflags, pc>>
  BY DEF SchedulerDestroy, ThreadDestroy
<1>2. d # cur_thread_id /\ d \in Tid /\ d # Kernel
  BY <1>1, CursorNotCurrent
<1>3. critical_count = 0 /\ InCritical = {} /\ ~ints
  BY <1>1 DEF Working, CriticalSection, ProcessorOK
<1>4. \A u \in Tid : pc[u] # "taken"
  BY <1>3 DEF InCritical
<1>5. OnActive' = OnActive \ {d} /\ OnFree' = OnFree \cup {d} /\ OnFree \cap OnActive = {}
  <2>1. Taken = {} /\ Taken' = {}
    BY <1>1, <1>4 DEF Taken
  <2>2. \A u \in Tid : state'[u] = IF u = d THEN "UNUSED" ELSE state[u]
    BY <1>1 DEF TypeOK
  <2>3. FREE \notin Tid
    BY ThreadsMaxAssumption DEF FREE, Tid
  <2> QED
    BY <2>1, <2>2, <2>3, <1>1, <1>2 DEF OnActive, OnFree
<1>6. /\ next \in Link /\ prev \in Link /\ OnFree \subseteq Node /\ OnActive \subseteq Node
      /\ d \in OnActive /\ d \in Node /\ d \notin OnFree
  BY <1>1, <1>2, <1>5 DEF TypeOK, Link, OnFree, OnActive, Node
<1>7. /\ next[d] \in OnActive /\ prev[d] \in OnActive /\ next[cur_thread_id] = d
      /\ cur_thread_id \in OnActive /\ prev[d] = cur_thread_id
  BY <1>1, <1>6 DEF Working, Chain, DoublyLinked, ProcessorOK, OnActive, TypeOK
<1>8. nx \in Link /\ pv \in Link
  BY <1>6, <1>7 DEF UnlinkNext, UnlinkPrev, Link
<1>9. Chain(nx, pv, OnActive \ {d}, Kernel)
  BY <1>2, <1>6, ChainUnlink DEF Working
<1>10. Chain(nx, pv, OnFree, FREE)
  <2>1. \A n \in OnFree : nx[n] = next[n] /\ pv[n] = prev[n]
    BY <1>5, <1>6, <1>7 DEF UnlinkNext, UnlinkPrev, Link
  <2> QED
    BY <2>1, ChainElsewhere DEF Working
<1> HIDE DEF nx, pv
<1>11. Chain(next, prev, OnFree, FREE)'
  BY <1>1, <1>5, <1>6, <1>8, <1>10, ChainAppend
<1>12. \A n \in OnActive \ {d} : next'[n] = nx[n] /\ prev'[n] = pv[n]
  <2>1. FREE \in OnFree /\ pv[FREE] \in OnFree
    BY <1>10 DEF Chain, DoublyLinked
  <2> QED
    BY <1>1, <1>5, <1>6, <1>8, <2>1 DEF AppendNext, AppendPrev, Link
<1>13. Chain(next, prev, OnActive, Kernel)'
  BY <1>5, <1>9, <1>12, ChainElsewhere
<1>14. next' \in Link /\ prev' \in Link /\ \A n \in Node : next'[n] # Null /\ prev'[n] # Null
  <2>1. \A n \in Node : nx[n] # Null /\ pv[n] # Null
    BY <1>6, <1>7 DEF nx, pv, UnlinkNext, UnlinkPrev, Link, Working
  <2>2. FREE \in Node /\ FREE # Null /\ d # Null
    BY <1>2, ThreadsMaxAssumption DEF FREE, Node, Null, Tid
  <2> QED
    BY <1>1, <1>6, <1>8, <2>1, <2>2 DEF AppendNext, AppendPrev, Link
<1>15. stack[d] \in Block
  BY <1>1, <1>2 DEF TypeOK, Working, EntryOK
<1>16. TypeOK'
  BY <1>1, <1>2, <1>6, <1>14, <1>15 DEF TypeOK, Link, locals, critical, ThreadState
<1>17. CriticalSection'
  BY <1>1, <1>3 DEF CriticalSection, InCritical, critical
<1>18. ProcessorOK'
  <2>1. next'[cur_thread_id] = next[d]
    BY <1>2, <1>6, <1>7, <1>12 DEF nx, UnlinkNext, Link
  <2> QED
    BY <1>1, <1>2, <2>1 DEF TypeOK, Working, ProcessorOK
<1>19. BlocksOK'
  BY <1>1, <1>2, <1>15 DEF TypeOK, Working, BlocksOK, locals
<1>20. ASSUME NEW u \in Tid PROVE EntryOK(u)'
  BY <1>1, <1>2, <1>4 DEF TypeOK, Working, EntryOK, locals
<1> QED
  BY <1>11, <1>13, <1>14, <1>16, <1>17, <1>18, <1>19, <1>20 DEF Working

-----------------------------------------------------------------------------
(* The invariant and what follows from it *)

(***************************************************************************)
(* All steps but multi_init() are taken when it has run.                   *)
(***************************************************************************)
LEMMA RunningSteps ==
    ASSUME IInv, Next, ~MultiInit
    PROVE  TypeOK /\ Working /\ TypeOK' /\ Working'
<1>1. TypeOK /\ Working
  <2> SUFFICES ASSUME pc[Kernel] = "reset" PROVE FALSE
    BY DEF IInv
  <2>1. Init
    BY DEF IInv
  <2>2. \A t \in Tid : ~At(t, "run") /\ ~At(t, "started") /\ ~At(t, "exiting") /\ ~At(t, "allocated")
                       /\ ~At(t, "critical") /\ ~At(t, "taken") /\ ~At(t, "leaving") /\ ~At(t, "boot")
    BY <2>1 DEF Init, At, Kernel
  <2>3. ~ints /\ cpu # "scheduler"
    BY <2>1 DEF Init
  <2>4. Kernel \in Tid
    BY ThreadsMaxAssumption DEF Kernel, Tid
  <2> QED
    BY <2>2, <2>3, <2>4
    DEF Next, InterruptsEnable, ThreadCreate, CreateEnter, CreateTake, CreateFull, CreateLink,
        CreateExit, ThreadExit, MultiYield, IsrTimer, SchedulerDestroy, SchedulerSwitch
<1>2. TypeOK' /\ Working'
  <2> USE <1>1
  <2>1. CASE InterruptsEnable
    BY <2>1, InterruptsEnableStep
  <2>2. ASSUME NEW t \in Tid, ThreadCreate(t) PROVE TypeOK' /\ Working'
    BY <2>2, ThreadCreateStep
  <2>3. ASSUME NEW t \in Tid, CreateEnter(t) PROVE TypeOK' /\ Working'
    BY <2>3, CreateEnterStep
  <2>4. ASSUME NEW t \in Tid, CreateTake(t) PROVE TypeOK' /\ Working'
    BY <2>4, CreateTakeStep
  <2>5. ASSUME NEW t \in Tid, CreateFull(t) PROVE TypeOK' /\ Working'
    BY <2>5, CreateFullStep
  <2>6. ASSUME NEW t \in Tid, CreateLink(t) PROVE TypeOK' /\ Working'
    BY <2>6, CreateLinkStep
  <2>7. ASSUME NEW t \in Tid, CreateExit(t) PROVE TypeOK' /\ Working'
    BY <2>7, CreateExitStep
  <2>8. ASSUME NEW t \in Tid, ThreadExit(t) PROVE TypeOK' /\ Working'
    BY <2>8, ThreadExitStep
  <2>9. ASSUME NEW t \in Tid, MultiYield(t) PROVE TypeOK' /\ Working'
    BY <2>9, MultiYieldStep
  <2>10. CASE IsrTimer
    BY <2>10, IsrTimerStep
  <2>11. CASE SchedulerDestroy
    BY <2>11, SchedulerDestroyStep
  <2>12. CASE SchedulerSwitch
    BY <2>12, SchedulerSwitchStep
  <2> QED
    BY <2>1, <2>2, <2>3, <2>4, <2>5, <2>6, <2>7, <2>8, <2>9, <2>10, <2>11, <2>12 DEF Next
<1> QED
  BY <1>1, <1>2

LEMMA NextStep == ASSUME IInv, [Next]_vars PROVE IInv'
<1>1. CASE UNCHANGED vars
  <2> USE <1>1 DEF vars, threadInfo, critical, sched, locals
  <2>1. TypeOK'
    BY Zenon DEF IInv, TypeOK
  <2>2. ASSUME Init PROVE Init'
    BY <2>2, Zenon DEF Init
  <2>3. ASSUME Working PROVE Working'
    <3>1. OnActive' = OnActive /\ OnFree' = OnFree
      BY DEF OnActive, OnFree, Taken
    <3>2. CriticalSection' /\ ProcessorOK' /\ BlocksOK'
      BY <2>3 DEF Working, CriticalSection, InCritical, ProcessorOK, BlocksOK
    <3>3. ASSUME NEW t \in Tid PROVE EntryOK(t)'
      BY <2>3 DEF Working, EntryOK
    <3> QED
      BY <2>3, <3>1, <3>2, <3>3, ChainsUnchanged DEF Working
  <2>4. pc' = pc
    OBVIOUS
  <2> QED
    BY <2>1, <2>2, <2>3, <2>4 DEF IInv
<1>2. CASE MultiInit
  BY <1>2, MultiInitStep
<1>4. ASSUME Next, ~MultiInit PROVE TypeOK' /\ Working'
  BY <1>4, RunningSteps
<1>5. ASSUME Working' PROVE pc'[Kernel] # "reset"
  BY <1>5, ThreadsMaxAssumption DEF Working, EntryOK, Kernel, Tid
<1> QED
  BY <1>1, <1>2, <1>4, <1>5 DEF IInv

LEMMA InitInvariant == ASSUME Init PROVE IInv
<1>1. TypeOK
  <2>1. r_eflags \in [Tid -> BOOLEAN] /\ ints \in BOOLEAN /\ critical_enab_ints \in BOOLEAN
    BY Zenon DEF Init
  <2> QED
    BY <2>1, ThreadsMaxAssumption DEF Init, TypeOK, Tid, Node, Kernel, FREE, ThreadState, Label
<1>2. pc[Kernel] = "reset"
  BY ThreadsMaxAssumption DEF Init, Kernel, Tid
<1> QED
  BY <1>1, <1>2 DEF IInv

(***************************************************************************)
(* The inductive invariant holds in every reachable state.                 *)
(***************************************************************************)
THEOREM Invariance == Spec => []IInv
<1>1. Init => IInv
  BY InitInvariant
<1>2. IInv /\ [Next]_vars => IInv'
  BY NextStep
<1> QED
  BY <1>1, <1>2, PTL DEF Spec

(***************************************************************************)
(* The variables keep their types.                                         *)
(***************************************************************************)
THEOREM TypeCorrectness == Spec => []TypeOK
<1>1. IInv => TypeOK
  BY DEF IInv
<1> QED
  BY <1>1, Invariance, PTL

(***************************************************************************)
(* Both chains are intact in every state, whatever the size of             *)
(* thread_table.                                                           *)
(***************************************************************************)
THEOREM ChainsIntact == Spec => []ChainsOK
<1>1. IInv => ChainsOK
  <2>1. Kernel \in Node
    BY ThreadsMaxAssumption DEF Kernel, Node, Tid
  <2> QED
    BY <2>1 DEF IInv, Working, ChainsOK, Initialized, Init
<1> QED
  BY <1>1, Invariance, PTL

(***************************************************************************)
(* The critical section excludes other threads and the scheduler.          *)
(***************************************************************************)
THEOREM MutualExclusion == Spec => []CriticalSection
<1>1. IInv => CriticalSection
  BY DEF IInv, Working, CriticalSection, Init, InCritical
<1> QED
  BY <1>1, Invariance, PTL

(***************************************************************************)
(* None of the panics in multi.c is reached.                               *)
(***************************************************************************)
THEOREM PanicFree == Spec => []NoPanic
<1>1. IInv => NoPanic
  BY DEF IInv, Working, NoPanic, ProcessorOK, Init
<1> QED
  BY <1>1, Invariance, PTL

(***************************************************************************)
(* No stack is shared, freed while in use, or leaked.                      *)
(***************************************************************************)
THEOREM StackOwnership == Spec => []StacksAccounted
<1>1. ASSUME IInv PROVE StacksAccounted
  <2>1. BlocksOK
    BY <1>1, BlockAssumption DEF IInv, Working, BlocksOK, Init
  <2>2. ASSUME NEW b \in Block
        PROVE  \/ b \in heap /\ Holders(b) = {} /\ Creators(b) = {}
               \/ b \notin heap /\ \E t \in Tid : /\ Holders(b) \cup Creators(b) = {t}
                                                   /\ Holders(b) \cap Creators(b) = {}
    <3>1. CASE b \in heap
      BY <2>1, <3>1 DEF BlocksOK, Holders, Creators
    <3>2. CASE b \notin heap
      <4>1. PICK t \in Tid : b \in {stack[t], newstack[t]}
        BY <2>1, <3>2 DEF BlocksOK
      <4>2. \A u \in Tid : stack[u] = b \/ newstack[u] = b => u = t
        BY <2>1, <4>1, BlockAssumption DEF BlocksOK
      <4>3. ~(stack[t] = b /\ newstack[t] = b)
        BY <2>1, BlockAssumption DEF BlocksOK
      <4> QED
        BY <3>2, <4>1, <4>2, <4>3 DEF Holders, Creators
    <3> QED
      BY <3>1, <3>2
  <2> QED
    BY <2>2 DEF StacksAccounted
<1> QED
  BY <1>1, Invariance, PTL

(***************************************************************************)
(* The scheduler never frees the stack it runs on.                         *)
(***************************************************************************)
THEOREM RunningStackSafe == Spec => []RunningStackKept
<1>1. ASSUME IInv PROVE RunningStackKept
  <2>1. CASE Init
    BY <2>1, ThreadsMaxAssumption DEF Init, RunningStackKept, Initialized, Kernel, Node, Tid
  <2>2. CASE TypeOK /\ Working
    BY <2>2 DEF TypeOK, Working, ProcessorOK, EntryOK, BlocksOK, RunningStackKept
  <2> QED
    BY <1>1, <2>1, <2>2 DEF IInv
<1> QED
  BY <1>1, Invariance, PTL

(***************************************************************************)
(* Entries are given up only by threads that have exited and are not       *)
(* current, and exited threads are not switched to.                        *)
(***************************************************************************)
THEOREM ExitFinality == Spec => ExitIsFinal
<1> DEFINE Given == \A t \in Tid : state[t] # "UNUSED" /\ state'[t] = "UNUSED"
                                     => state[t] = "EXITING" /\ t # cur_thread_id
           Switched == cur_thread_id' # cur_thread_id => state[cur_thread_id'] = "ACTIVE"
<1>1. ASSUME IInv, Next PROVE Given /\ Switched
  <2>1. CASE MultiInit
    BY <1>1, <2>1 DEF IInv, MultiInit, At, Init, sched
  <2>2. CASE SchedulerDestroy
    <3>1. TypeOK /\ Working
      BY <1>1, <2>2, ThreadsMaxAssumption DEF IInv, SchedulerDestroy, Init
    <3>2. cursor # cur_thread_id /\ state[cursor] = "EXITING" /\ cur_thread_id' = cur_thread_id
          /\ state' = [state EXCEPT ![cursor] = "UNUSED"]
      BY <2>2, <3>1, CursorNotCurrent DEF SchedulerDestroy, ThreadDestroy
    <3> QED
      BY <3>1, <3>2 DEF TypeOK
  <2>3. CASE SchedulerSwitch
    <3>1. TypeOK /\ Working
      BY <1>1, <2>3, ThreadsMaxAssumption DEF IInv, SchedulerSwitch, Init
    <3>2. state[cursor] # "UNUSED"
      BY <2>3, <3>1 DEF SchedulerSwitch, TypeOK, Working, ProcessorOK, Chain, DoublyLinked, OnActive
    <3> QED
      BY <2>3, <3>2 DEF SchedulerSwitch, threadInfo
  <2>4. CASE \E t \in Tid : CreateLink(t) \/ ThreadExit(t)
    BY <1>1, <2>4 DEF IInv, TypeOK, Init, CreateLink, ThreadExit, sched
  <2>5. CASE \/ InterruptsEnable \/ IsrTimer
             \/ \E t \in Tid : \/ ThreadCreate(t) \/ CreateEnter(t) \/ CreateTake(t)
                               \/ CreateFull(t) \/ CreateExit(t) \/ MultiYield(t)
    BY <2>5 DEF InterruptsEnable, IsrTimer, ThreadCreate, CreateEnter, CreateTake, CreateFull,
                CreateExit, MultiYield, EnterScheduler, threadInfo, chains, sched
  <2> QED
    BY <1>1, <2>1, <2>2, <2>3, <2>4, <2>5 DEF Next
<1>2. ASSUME UNCHANGED vars PROVE Given /\ Switched
  BY <1>2 DEF vars, threadInfo, sched
<1>3. IInv /\ [Next]_vars => [Given /\ Switched]_vars
  BY <1>1, <1>2
<1> QED
  BY <1>3, Invariance, PTL DEF Spec, ExitIsFinal
-----------------------------------------------------------------------------
(* Rings: the nodes of a chain in the order of its links. *)

\* q lists the nodes that the links nx lead through from h back to h.
IsRing(q, nx, h) ==
    /\ q \in Seq(Node)
    /\ q # <<>>
    /\ q[1] = h
    /\ \A i \in 1 .. Len(q) - 1 : nx[q[i]] = q[i + 1]
    /\ nx[q[Len(q)]] = h
    /\ \A i, j \in 1 .. Len(q) : q[i] = q[j] => i = j

LEMMA RingTypes ==
    ASSUME NEW q, NEW nx, NEW h, IsRing(q, nx, h)
    PROVE  /\ q \in Seq(Node)
           /\ Len(q) \in Nat
           /\ Len(q) >= 1
           /\ q[1] = h
           /\ \A i \in 1 .. Len(q) : q[i] \in Node
           /\ \A i \in 1 .. Len(q) - 1 : nx[q[i]] = q[i + 1]
           /\ nx[q[Len(q)]] = h
           /\ \A i, j \in 1 .. Len(q) : q[i] = q[j] => i = j
  BY DEF IsRing

(***************************************************************************)
(* A ring is no longer than there are nodes.                               *)
(***************************************************************************)
LEMMA RingBound ==
    ASSUME NEW q, NEW nx, NEW h, IsRing(q, nx, h)
    PROVE  Len(q) <= THREADS_MAX + 1
<1>1. Node = 0 .. THREADS_MAX /\ THREADS_MAX \in Nat
  BY ThreadsMaxAssumption DEF Node, Tid, FREE
<1>2. IsFiniteSet(Node) /\ Cardinality(Node) = THREADS_MAX + 1
  BY <1>1, FS_Interval
<1>3. Len(q) \in Nat /\ IsFiniteSet(1 .. Len(q)) /\ Cardinality(1 .. Len(q)) = Len(q)
  BY RingTypes, FS_Interval
<1>4. q \in [1 .. Len(q) -> Node] /\ \A i, j \in 1 .. Len(q) : i # j => q[i] # q[j]
  BY RingTypes
<1>5. ~(Len(q) > THREADS_MAX + 1)
  BY <1>2, <1>3, <1>4, FS_PigeonHole
<1> QED
  BY <1>1, <1>3, <1>5

(***************************************************************************)
(* Walking along the links finds the ring.                                 *)
(***************************************************************************)
LEMMA RingFound ==
    ASSUME NEW nx \in Link, \A n \in Node : nx[n] # Null, NEW h \in Node,
           NEW q, IsRing(q, nx, h)
    PROVE  Ring(nx, h) = q
<1> DEFINE w == Walk(nx, h)
           n == Len(q)
<1>1. /\ n \in Nat /\ n >= 1 /\ n <= THREADS_MAX + 1 /\ q[1] = h
      /\ \A i \in 1 .. n - 1 : nx[q[i]] = q[i + 1]
      /\ nx[q[n]] = h
      /\ \A i, j \in 1 .. n : q[i] = q[j] => i = j
  BY RingTypes, RingBound
<1>2. /\ w \in [Nat -> Node] /\ w[0] = h
      /\ \A k \in Nat : w[k + 1] = nx[w[k]]
  <2>1. Within(nx, Node)
    BY DEF Within, Link
  <2> QED
    BY <2>1, WalkFacts
<1> HIDE DEF w, n
<1>3. \A k \in Nat : k < n => w[k] = q[k + 1]
  <2> DEFINE T == {k \in Nat : k < n /\ w[k] # q[k + 1]}
  <2> SUFFICES ASSUME T # {} PROVE FALSE
    OBVIOUS
  <2>1. PICK k \in T : \A y \in T : k <= y
    BY LeastNat
  <2>2. k # 0
    BY <1>1, <1>2, <2>1
  <2>3. k - 1 \in Nat /\ k - 1 < n /\ k - 1 \notin T
    BY <1>1, <2>1, <2>2
  <2>4. w[k - 1] = q[k] /\ k \in 1 .. n - 1 /\ (k - 1) + 1 = k
    BY <1>1, <2>1, <2>3
  <2>5. w[k] = nx[w[k - 1]]
    BY <1>2, <2>3, <2>4
  <2> QED
    BY <1>1, <2>1, <2>4, <2>5
<1>4. w[n] = h
  <2>1. n - 1 \in Nat /\ (n - 1) + 1 = n
    BY <1>1
  <2> QED
    BY <1>1, <1>2, <1>3, <2>1
<1>5. \A j \in 1 .. n - 1 : w[j] # h
  BY <1>1, <1>3
<1>6. RingLength(nx, h) = n
  <2> DEFINE P(k) == w[k] = h /\ \A j \in 1 .. k - 1 : w[j] # h
             R == 1 .. THREADS_MAX + 1
  <2>1. n \in R /\ P(n)
    BY <1>1, <1>4, <1>5, ThreadsMaxAssumption
  <2>2. \A k \in R : P(k) => k = n
    <3> SUFFICES ASSUME NEW k \in R, P(k), k # n PROVE FALSE
      OBVIOUS
    <3>1. CASE k < n
      BY <1>1, <1>5, <3>1
    <3>2. CASE k > n
      BY <1>1, <1>4, <3>2
    <3> QED
      BY <1>1, <3>1, <3>2
  <2>3. RingLength(nx, h) = CHOOSE k \in R : P(k)
    BY DEF RingLength, w
  <2> HIDE DEF P, R
  <2> QED
    BY <2>1, <2>2, <2>3
<1>7. \A i \in 1 .. n : w[i - 1] = q[i]
  <2> TAKE i \in 1 .. n
  <2>1. i - 1 \in Nat /\ i - 1 < n /\ (i - 1) + 1 = i
    BY <1>1
  <2> QED
    BY <1>3, <2>1
<1>8. q = [i \in 1 .. n |-> q[i]]
  BY RingTypes DEF n
<1> QED
  BY <1>6, <1>7, <1>8 DEF Ring, w

(***************************************************************************)
(* The ring through the head of a chain is all of the chain.               *)
(***************************************************************************)
LEMMA RingIsChain ==
    ASSUME NEW nx, NEW pv, NEW S, NEW h, Chain(nx, pv, S, h),
           NEW q, IsRing(q, nx, h)
    PROVE  S = {q[i] : i \in 1 .. Len(q)}
<1> DEFINE n == Len(q)
           C == {q[i] : i \in 1 .. n}
<1>1. /\ n \in Nat /\ n >= 1 /\ q[1] = h
      /\ \A i \in 1 .. n - 1 : nx[q[i]] = q[i + 1]
      /\ nx[q[n]] = h
  BY RingTypes
<1>2. h \in S /\ \A x \in S : nx[x] \in S
  BY DEF Chain, DoublyLinked
<1> HIDE DEF n
<1>3. \A i \in 1 .. n : q[i] \in S
  <2> DEFINE T == {i \in Nat : i \in 1 .. n /\ q[i] \notin S}
  <2> SUFFICES ASSUME T # {} PROVE FALSE
    OBVIOUS
  <2>1. PICK i \in T : \A y \in T : i <= y
    BY LeastNat
  <2>2. i # 1
    BY <1>1, <1>2, <2>1
  <2>3. i - 1 \in Nat /\ i - 1 \in 1 .. n - 1 /\ i - 1 \notin T /\ (i - 1) + 1 = i
    BY <1>1, <2>1, <2>2
  <2>4. q[i - 1] \in S /\ nx[q[i - 1]] = q[i]
    BY <1>1, <2>3
  <2> QED
    BY <1>2, <2>1, <2>4
<1>4. C \in SUBSET S /\ h \in C
  BY <1>1, <1>3
<1>5. \A x \in C : nx[x] \in C
  <2> TAKE x \in C
  <2>1. PICK i \in 1 .. n : x = q[i]
    OBVIOUS
  <2>2. CASE i = n
    BY <1>1, <1>4, <2>1, <2>2
  <2>3. CASE i # n
    <3>1. i \in 1 .. n - 1 /\ i + 1 \in 1 .. n
      BY <1>1, <2>3
    <3> QED
      BY <1>1, <2>1, <3>1
  <2> QED
    BY <2>2, <2>3
<1> HIDE DEF C
<1>6. C = S
  BY <1>4, <1>5 DEF Chain, Reached
<1> QED
  BY <1>6 DEF C, n

(***************************************************************************)
(* A new element at the end of a chain is the last one of its ring.        *)
(***************************************************************************)
LEMMA RingAppend ==
    ASSUME NEW nx \in Link, NEW pv \in Link, NEW S \in SUBSET Node, NEW h,
           Chain(nx, pv, S, h), NEW p \in Node, p \notin S,
           NEW q, IsRing(q, nx, h)
    PROVE  IsRing(Append(q, p), AppendNext(nx, pv, h, p), h)
<1> DEFINE n == Len(q)
           r == Append(q, p)
           nx2 == AppendNext(nx, pv, h, p)
<1>1. /\ q \in Seq(Node) /\ n \in Nat /\ n >= 1 /\ q[1] = h
      /\ \A i \in 1 .. n : q[i] \in Node
      /\ \A i \in 1 .. n - 1 : nx[q[i]] = q[i + 1]
      /\ nx[q[n]] = h
      /\ \A i, j \in 1 .. n : q[i] = q[j] => i = j
  BY RingTypes
<1>2. \A i \in 1 .. n : q[i] \in S /\ q[i] # p
  BY RingIsChain
<1>3. h \in S /\ h \in Node /\ pv[h] = q[n] /\ q[n] \in Node
  <2>1. q[n] \in S
    BY <1>1, <1>2
  <2> QED
    BY <1>1, <2>1 DEF Chain, DoublyLinked
<1>4. /\ r \in Seq(Node) /\ Len(r) = n + 1 /\ r[n + 1] = p
      /\ \A i \in 1 .. n : r[i] = q[i]
  BY <1>1
<1>5. \A x \in Node : nx2[x] = IF x = p THEN h ELSE IF x = q[n] THEN p ELSE nx[x]
  BY <1>3 DEF AppendNext, Link
<1> HIDE DEF n, r, nx2
<1>6. \A i \in 1 .. Len(r) - 1 : nx2[r[i]] = r[i + 1]
  <2> TAKE i \in 1 .. Len(r) - 1
  <2>1. i \in 1 .. n /\ r[i] = q[i] /\ q[i] # p /\ q[i] \in Node
    BY <1>1, <1>2, <1>4
  <2>2. CASE i = n
    BY <1>4, <1>5, <2>1, <2>2
  <2>3. CASE i # n
    <3>1. i \in 1 .. n - 1 /\ i + 1 \in 1 .. n /\ n \in 1 .. n
      BY <1>1, <2>1, <2>3
    <3>2. q[i] # q[n]
      BY <1>1, <2>1, <2>3, <3>1
    <3> QED
      BY <1>1, <1>4, <1>5, <2>1, <3>1, <3>2
  <2> QED
    BY <2>2, <2>3
<1>7. nx2[r[Len(r)]] = h
  BY <1>4, <1>5
<1>8. \A i, j \in 1 .. Len(r) : r[i] = r[j] => i = j
  <2> SUFFICES ASSUME NEW i \in 1 .. n + 1, NEW j \in 1 .. n + 1, r[i] = r[j]
               PROVE  i = j
    BY <1>4
  <2>1. i \in 1 .. n \/ i = n + 1
    BY <1>1
  <2>2. j \in 1 .. n \/ j = n + 1
    BY <1>1
  <2> QED
    BY <1>1, <1>2, <1>4, <2>1, <2>2
<1>9. r # <<>> /\ r[1] = h
  BY <1>1, <1>4
<1> QED
  BY <1>4, <1>6, <1>7, <1>8, <1>9 DEF IsRing, r, nx2

(***************************************************************************)
(* Tail as a function.                                                     *)
(***************************************************************************)
LEMMA TailIs ==
    ASSUME NEW q \in Seq(Node), q # <<>>
    PROVE  Tail(q) = [i \in 1 .. Len(q) - 1 |-> q[i + 1]]
<1> DEFINE t == Tail(q)
<1>1. Len(t) = Len(q) - 1 /\ t \in Seq(Node)
  OBVIOUS
<1>2. \A i \in 1 .. Len(q) - 1 : t[i] = q[i + 1]
  OBVIOUS
<1> HIDE DEF t
<1>3. t = [i \in 1 .. Len(t) |-> t[i]]
  BY <1>1
<1>4. t = [i \in 1 .. Len(q) - 1 |-> q[i + 1]]
  BY <1>1, <1>2, <1>3
<1> QED
  BY <1>4 DEF t

\* q without its i-th element.
Without(q, i) == SubSeq(q, 1, i - 1) \o SubSeq(q, i + 1, Len(q))

LEMMA WithoutOK ==
    ASSUME NEW q \in Seq(Node), NEW i \in 1 .. Len(q)
    PROVE  /\ Without(q, i) \in Seq(Node)
           /\ Len(Without(q, i)) = Len(q) - 1
           /\ \A k \in 1 .. Len(q) - 1 :
                 Without(q, i)[k] = IF k < i THEN q[k] ELSE q[k + 1]
<1> DEFINE n == Len(q)
           a == SubSeq(q, 1, i - 1)
           b == SubSeq(q, i + 1, n)
<1>1. n \in Nat /\ i \in Nat /\ i >= 1 /\ i <= n
  OBVIOUS
<1>2. a \in Seq(Node) /\ Len(a) = i - 1 /\ \A k \in 1 .. i - 1 : a[k] = q[k]
  BY <1>1
<1>3. b \in Seq(Node) /\ Len(b) = n - i /\ \A k \in 1 .. n - i : b[k] = q[i + k]
  BY <1>1
<1> HIDE DEF a, b
<1>4. a \o b \in Seq(Node) /\ Len(a \o b) = n - 1
  <2>1. a \in Seq(Node) /\ b \in Seq(Node)
    BY <1>2, <1>3
  <2>2. (i - 1) + (n - i) = n - 1
    BY <1>1
  <2>3. a \o b \in Seq(Node)
    BY <2>1
  <2>4. Len(a \o b) = Len(a) + Len(b)
    BY <2>1
  <2> QED
    BY <1>2, <1>3, <2>2, <2>3, <2>4
<1>5. \A k \in 1 .. n - 1 : (a \o b)[k] = IF k < i THEN a[k] ELSE b[k - (i - 1)]
  BY <1>1, <1>2, <1>3
<1>6. \A k \in 1 .. n - 1 : (a \o b)[k] = IF k < i THEN q[k] ELSE q[k + 1]
  <2> TAKE k \in 1 .. n - 1
  <2>1. CASE k < i
    BY <1>1, <1>2, <1>5, <2>1
  <2>2. CASE ~(k < i)
    <3>1. k - (i - 1) \in 1 .. n - i /\ i + (k - (i - 1)) = k + 1
      BY <1>1, <2>2
    <3> QED
      BY <1>1, <1>3, <1>5, <2>2, <3>1
  <2> QED
    BY <2>1, <2>2
<1> QED
  BY <1>4, <1>6 DEF Without, a, b

(***************************************************************************)
(* An element other than the head taken out of a chain is missing in its   *)
(* ring, and the others follow each other as before.                       *)
(***************************************************************************)
LEMMA RingUnlink ==
    ASSUME NEW nx \in Link, NEW pv \in Link, NEW S \in SUBSET Node, NEW h,
           Chain(nx, pv, S, h), NEW q, IsRing(q, nx, h),
           NEW i \in 2 .. Len(q)
    PROVE  IsRing(Without(q, i), UnlinkNext(nx, pv, q[i]), h)
<1> DEFINE n == Len(q)
           r == Without(q, i)
           nx2 == UnlinkNext(nx, pv, q[i])
<1>1. /\ q \in Seq(Node) /\ n \in Nat /\ n >= 1 /\ q[1] = h
      /\ \A k \in 1 .. n : q[k] \in Node
      /\ \A k \in 1 .. n - 1 : nx[q[k]] = q[k + 1]
      /\ nx[q[n]] = h
      /\ \A k, l \in 1 .. n : q[k] = q[l] => k = l
  BY RingTypes
<1>2. i \in Nat /\ i >= 2 /\ i <= n /\ i - 1 \in 1 .. n - 1 /\ i - 1 \in 1 .. n /\ i \in 1 .. n
  BY <1>1
<1>3. pv[q[i]] = q[i - 1]
  <2>1. q[i - 1] \in S /\ nx[q[i - 1]] = q[(i - 1) + 1] /\ (i - 1) + 1 = i
    BY <1>1, <1>2, RingIsChain
  <2> QED
    BY <2>1 DEF Chain, DoublyLinked
<1>4. /\ r \in Seq(Node) /\ Len(r) = n - 1
      /\ \A k \in 1 .. n - 1 : r[k] = IF k < i THEN q[k] ELSE q[k + 1]
  BY <1>1, <1>2, WithoutOK
<1>5. \A x \in Node : nx2[x] = IF x = q[i - 1] THEN nx[q[i]] ELSE nx[x]
  BY <1>1, <1>2, <1>3 DEF UnlinkNext, Link
<1> HIDE DEF n, r, nx2
<1>6. ASSUME NEW k \in 1 .. n - 2 PROVE nx2[r[k]] = r[k + 1]
  <2>1. k \in 1 .. n - 1 /\ k + 1 \in 1 .. n - 1 /\ k \in 1 .. n /\ k + 1 \in 1 .. n
    BY <1>1
  <2>2. CASE k = i - 1
    <3>1. r[k] = q[i - 1] /\ r[k + 1] = q[i + 1] /\ i \in 1 .. n - 1
      BY <1>2, <1>4, <2>1, <2>2
    <3> QED
      BY <1>1, <1>2, <1>5, <3>1
  <2>3. CASE k < i - 1
    <3>1. r[k] = q[k] /\ r[k + 1] = q[k + 1] /\ q[k] # q[i - 1]
      BY <1>1, <1>2, <1>4, <2>1, <2>3
    <3> QED
      BY <1>1, <1>5, <2>1, <3>1
  <2>4. CASE k > i - 1
    <3>1. r[k] = q[k + 1] /\ r[k + 1] = q[(k + 1) + 1] /\ q[k + 1] # q[i - 1]
      BY <1>1, <1>2, <1>4, <2>1, <2>4
    <3> QED
      BY <1>1, <1>5, <2>1, <3>1
  <2> QED
    BY <1>2, <2>1, <2>2, <2>3, <2>4
<1>7. nx2[r[n - 1]] = h
  <2>1. n - 1 \in 1 .. n - 1 /\ n \in 1 .. n
    BY <1>1, <1>2
  <2>2. CASE i = n
    BY <1>1, <1>2, <1>4, <1>5, <2>1, <2>2
  <2>3. CASE i # n
    <3>1. r[n - 1] = q[n] /\ q[n] # q[i - 1]
      BY <1>1, <1>2, <1>4, <2>1, <2>3
    <3> QED
      BY <1>1, <1>5, <2>1, <3>1
  <2> QED
    BY <2>2, <2>3
<1>8. \A k, l \in 1 .. n - 1 : r[k] = r[l] => k = l
  <2> SUFFICES ASSUME NEW k \in 1 .. n - 1, NEW l \in 1 .. n - 1, r[k] = r[l]
               PROVE  k = l
    OBVIOUS
  <2>1. k \in 1 .. n /\ k + 1 \in 1 .. n /\ l \in 1 .. n /\ l + 1 \in 1 .. n
    BY <1>1
  <2> DEFINE kk == IF k < i THEN k ELSE k + 1
             ll == IF l < i THEN l ELSE l + 1
  <2>2. r[k] = q[kk] /\ r[l] = q[ll] /\ kk \in 1 .. n /\ ll \in 1 .. n
    BY <1>4, <2>1
  <2>3. kk = ll
    BY <1>1, <2>2
  <2> QED
    BY <1>2, <2>3
<1>9. r[1] = h /\ r # <<>>
  <2>1. 1 \in 1 .. n - 1 /\ 1 < i
    BY <1>1, <1>2
  <2>2. r[1] = q[1]
    BY <1>4, <2>1
  <2>3. Len(r) # 0
    BY <1>4, <2>1
  <2> QED
    BY <1>1, <2>2, <2>3
<1> QED
  BY <1>1, <1>2, <1>4, <1>6, <1>7, <1>8, <1>9 DEF IsRing, r, nx2

(***************************************************************************)
(* A ring is not touched by changes to the links of other nodes.           *)
(***************************************************************************)
LEMMA RingElsewhere ==
    ASSUME NEW nx, NEW pv, NEW nx2, NEW S, NEW h, Chain(nx, pv, S, h),
           NEW q, IsRing(q, nx, h), \A n \in S : nx2[n] = nx[n]
    PROVE  IsRing(q, nx2, h)
<1>1. \A i \in 1 .. Len(q) : q[i] \in S
  BY RingIsChain
<1>2. Len(q) \in Nat /\ Len(q) >= 1
  BY RingTypes
<1>3. nx2[q[Len(q)]] = nx[q[Len(q)]] /\ \A i \in 1 .. Len(q) - 1 : nx2[q[i]] = nx[q[i]]
  BY <1>1, <1>2
<1> QED
  BY <1>3 DEF IsRing
-----------------------------------------------------------------------------
(* The round robin *)

\* Once there are chains, walking along them lists them.
RingsOK ==
    Initialized => /\ IsRing(Ring(next, Kernel), next, Kernel)
                   /\ IsRing(Ring(next, FREE), next, FREE)

ExitedNow == {t \in Tid : state[t] = "EXITING"}

(***************************************************************************)
(* What the state of the chains says about the two queues.                 *)
(***************************************************************************)
LEMMA QueuesAre ==
    ASSUME TypeOK, Working, RingsOK
    PROVE  /\ next \in Link /\ prev \in Link /\ \A n \in Node : next[n] # Null
           /\ OnActive \in SUBSET Node /\ OnFree \in SUBSET Node
           /\ Kernel \in Node /\ FREE \in Node /\ FREE \notin Tid
           /\ OnFree \cap OnActive = {}
           /\ Initialized
           /\ Queue = Ring(next, Kernel) /\ Unused = Tail(Ring(next, FREE))
           /\ IsRing(Queue, next, Kernel) /\ IsRing(Ring(next, FREE), next, FREE)
           /\ OnActive = {Queue[i] : i \in 1 .. Len(Queue)}
           /\ OnFree = {Ring(next, FREE)[i] : i \in 1 .. Len(Ring(next, FREE))}
<1>1. next \in Link /\ prev \in Link /\ \A n \in Node : next[n] # Null
  BY DEF TypeOK, Link, Working
<1>2. Kernel \in Node /\ FREE \in Node /\ FREE \notin Tid
  BY ThreadsMaxAssumption DEF Kernel, FREE, Node, Tid
<1>3. OnActive \in SUBSET Node /\ OnFree \in SUBSET Node /\ OnFree \cap OnActive = {}
  BY <1>2 DEF OnActive, OnFree, Node
<1>4. Initialized
  BY <1>1, <1>2 DEF Initialized
<1>5. /\ Queue = Ring(next, Kernel) /\ Unused = Tail(Ring(next, FREE))
      /\ IsRing(Queue, next, Kernel) /\ IsRing(Ring(next, FREE), next, FREE)
  BY <1>4 DEF Queue, Unused, RingsOK
<1>6. Chain(next, prev, OnActive, Kernel) /\ Chain(next, prev, OnFree, FREE)
  BY DEF Working
<1>7. /\ OnActive = {Queue[i] : i \in 1 .. Len(Queue)}
      /\ OnFree = {Ring(next, FREE)[i] : i \in 1 .. Len(Ring(next, FREE))}
  BY <1>5, <1>6, RingIsChain
<1> QED
  BY <1>1, <1>2, <1>3, <1>4, <1>5, <1>7

(***************************************************************************)
(* To know the queues after a step it is enough to know a ring for each    *)
(* chain.                                                                  *)
(***************************************************************************)
LEMMA QueuesBecome ==
    ASSUME TypeOK', Working', NEW q, IsRing(q, next', Kernel),
           NEW f, IsRing(f, next', FREE)
    PROVE  RingsOK' /\ Queue' = q /\ Unused' = Tail(f)
<1>1. next' \in Link /\ \A n \in Node : next'[n] # Null
  BY DEF TypeOK, Link, Working
<1>2. Kernel \in Node /\ FREE \in Node
  BY ThreadsMaxAssumption DEF Kernel, FREE, Node, Tid
<1>3. Ring(next', Kernel) = q /\ Ring(next', FREE) = f
  BY <1>1, <1>2, RingFound
<1>4. Initialized'
  BY <1>1, <1>2 DEF Initialized
<1> QED
  BY <1>3, <1>4 DEF RingsOK, Queue, Unused

(***************************************************************************)
(* The thread whose turn it is next is the one the links lead to.          *)
(***************************************************************************)
LEMMA SuccessorIsNext ==
    ASSUME TypeOK, Working, RingsOK, NEW t \in OnActive
    PROVE  /\ Abstract!Position(t) \in 1 .. Len(Queue)
           /\ Queue[Abstract!Position(t)] = t
           /\ Queue[(Abstract!Position(t) % Len(Queue)) + 1] = next[t]
<1> DEFINE n == Len(Queue)
           i == Abstract!Position(t)
<1>1. /\ n \in Nat /\ n >= 1 /\ Queue \in Seq(Node) /\ Queue[1] = Kernel
      /\ \A k \in 1 .. n - 1 : next[Queue[k]] = Queue[k + 1]
      /\ next[Queue[n]] = Kernel
  BY QueuesAre, RingTypes
<1>2. \E k \in 1 .. n : Queue[k] = t
  BY QueuesAre
<1>3. DOMAIN Queue = 1 .. n
  BY <1>1
<1>4. i \in 1 .. n /\ Queue[i] = t
  BY <1>2, <1>3 DEF Abstract!Position
<1> HIDE DEF i, n
<1>5. CASE i = n
  <2>1. i % n = 0
    BY <1>1, <1>5
  <2> QED
    BY <1>1, <1>4, <1>5, <2>1 DEF i, n
<1>6. CASE i # n
  <2>1. i \in 1 .. n /\ n \in Nat
    BY <1>1, <1>4 DEF i, n
  <2>2. i \in Nat /\ i < n /\ n >= 1 /\ i \in 1 .. n - 1
    BY <1>6, <2>1
  <2>3. i % n = i
    BY <2>1, <2>2
  <2> QED
    BY <1>1, <1>4, <2>2, <2>3 DEF i, n
<1> QED
  BY <1>5, <1>6

(***************************************************************************)
(* A step that changes neither links nor states nor the current thread is  *)
(* none of the round robin.                                                *)
(***************************************************************************)
LEMMA QueuesKept ==
    ASSUME RingsOK, UNCHANGED <<next, state, cur_thread_id>>
    PROVE  RingsOK' /\ UNCHANGED Abstract!absVars
<1>1. Initialized' = Initialized
  BY DEF Initialized
<1>2. RingsOK'
  BY <1>1 DEF RingsOK
<1>3. UNCHANGED <<Queue, Unused>>
  BY <1>1 DEF Queue, Unused
<1> QED
  BY <1>2, <1>3 DEF Abstract!absVars

(***************************************************************************)
(* multi_init() makes the chains that the queues are read off from then.   *)
(***************************************************************************)
LEMMA MultiInitMaps ==
    ASSUME IInv, IInv', MultiInit
    PROVE  RingsOK' /\ UNCHANGED Abstract!absVars
<1> USE ThreadsMaxAssumption
<1>1. Init /\ TypeOK' /\ Working' /\ THREADS_MAX \in Nat /\ THREADS_MAX >= 1
  <2>1. pc'[Kernel] # "reset"
    BY DEF IInv, TypeOK, MultiInit, At, Goto, Kernel, Tid
  <2> QED
    BY <2>1 DEF IInv, MultiInit, At
<1>2. \A n \in Node : next'[n] = IF n = Kernel THEN Kernel ELSE IF n = FREE THEN 1 ELSE n + 1
  BY DEF MultiInit
<1> DEFINE f == [i \in 1 .. THREADS_MAX |-> IF i = 1 THEN FREE ELSE i - 1]
<1>3. IsRing(<<Kernel>>, next', Kernel)
  <2>1. Kernel \in Node
    BY DEF Kernel, Node, Tid
  <2> QED
    BY <1>2, <2>1 DEF IsRing
<1>4. f \in Seq(Node) /\ Len(f) = THREADS_MAX
  <2>1. \A i \in 1 .. THREADS_MAX : f[i] \in Node
    BY DEF Node, Tid, FREE
  <2> QED
    BY <1>1, <2>1
<1>5. \A i \in 1 .. THREADS_MAX : /\ f[i] = (IF i = 1 THEN FREE ELSE i - 1)
                                  /\ f[i] \in Node /\ f[i] # Kernel
  BY <1>1 DEF Node, Tid, FREE, Kernel
<1> HIDE DEF f
<1>6. \A i \in 1 .. Len(f) - 1 : next'[f[i]] = f[i + 1]
  <2> SUFFICES ASSUME NEW i \in 1 .. THREADS_MAX - 1 PROVE next'[f[i]] = f[i + 1]
    BY <1>4
  <2>1. i \in 1 .. THREADS_MAX /\ i + 1 \in 1 .. THREADS_MAX /\ i + 1 # 1 /\ (i + 1) - 1 = i
    BY <1>1
  <2> QED
    BY <1>2, <1>5, <2>1 DEF FREE
<1>7. next'[f[Len(f)]] = FREE
  <2>1. THREADS_MAX \in 1 .. THREADS_MAX
    BY <1>1
  <2> QED
    BY <1>1, <1>2, <1>4, <1>5, <2>1 DEF FREE
<1>8. IsRing(f, next', FREE)
  <2>1. \A i, j \in 1 .. Len(f) : f[i] = f[j] => i = j
    BY <1>1, <1>4, <1>5 DEF FREE
  <2>2. f[1] = FREE /\ f # <<>>
    BY <1>1, <1>4, <1>5
  <2> QED
    BY <1>4, <1>6, <1>7, <2>1, <2>2 DEF IsRing
<1>9. RingsOK' /\ Queue' = <<Kernel>> /\ Unused' = Tail(f)
  BY <1>1, <1>3, <1>8, QueuesBecome
<1>10. Tail(f) = [i \in 1 .. THREADS_MAX - 1 |-> i]
  <2>1. Tail(f) = [i \in 1 .. Len(f) - 1 |-> f[i + 1]]
    <3>1. f # <<>>
      BY <1>1, <1>4
    <3> QED
      BY <1>4, <3>1, TailIs
  <2>2. \A i \in 1 .. THREADS_MAX - 1 : f[i + 1] = i
    BY <1>1, <1>5
  <2> QED
    BY <1>4, <2>1, <2>2
<1>11. Queue = <<Kernel>> /\ Unused = [i \in 1 .. THREADS_MAX - 1 |-> i]
  <2>1. ~Initialized
    BY <1>1 DEF Initialized, Init, Kernel, Node, Tid
  <2> QED
    BY <2>1 DEF Queue, Unused
<1>12. ExitedNow' = {} /\ ExitedNow = {}
  BY <1>1 DEF ExitedNow, Init, MultiInit
<1>13. cur_thread_id' = cur_thread_id
  BY DEF MultiInit, sched
<1> QED
  BY <1>9, <1>10, <1>11, <1>12, <1>13 DEF Abstract!absVars, ExitedNow

(***************************************************************************)
(* thread_create() takes the first number that is free.                    *)
(***************************************************************************)
LEMMA CreateTakeMaps ==
    ASSUME TypeOK, Working, RingsOK, TypeOK', Working', NEW t \in Tid, CreateTake(t)
    PROVE  RingsOK' /\ Abstract!Claim
<1> DEFINE f == Ring(next, FREE)
           p == next[FREE]
           n == Len(f)
<1>1. /\ p # FREE /\ next' = UnlinkNext(next, prev, p)
      /\ UNCHANGED <<state, cur_thread_id>>
  BY DEF CreateTake, FirstFree, sched
<1>2. /\ n \in Nat /\ n >= 1 /\ f \in Seq(Node) /\ f[1] = FREE
      /\ \A i \in 1 .. n - 1 : next[f[i]] = f[i + 1]
      /\ next[f[n]] = FREE
  BY QueuesAre, RingTypes
<1>3. n >= 2 /\ p = f[2]
  BY <1>1, <1>2
<1>4. IsRing(Without(f, 2), next', FREE)
  <2>1. Chain(next, prev, OnFree, FREE) /\ 2 \in 2 .. Len(f)
    BY <1>2, <1>3 DEF Working
  <2> QED
    BY <1>1, <1>3, <2>1, QueuesAre, RingUnlink
<1>5. IsRing(Queue, next', Kernel)
  <2>1. p \in OnFree /\ prev[p] \in OnFree
    BY QueuesAre DEF Working, Chain, DoublyLinked
  <2>2. \A m \in OnActive : next'[m] = next[m]
    BY <1>1, <2>1, QueuesAre DEF UnlinkNext, Link
  <2>3. Chain(next, prev, OnActive, Kernel)
    BY DEF Working
  <2> QED
    BY <2>2, <2>3, QueuesAre, RingElsewhere
<1>6. RingsOK' /\ Queue' = Queue /\ Unused' = Tail(Without(f, 2))
  BY <1>4, <1>5, QueuesBecome
<1>7. Unused = Tail(f)
  BY QueuesAre
<1> HIDE DEF f, p
<1>8. Tail(Without(f, 2)) = Tail(Tail(f)) /\ Tail(f) # <<>>
  <2> DEFINE a == Without(f, 2)
             b == Tail(f)
  <2>1. /\ a \in Seq(Node) /\ Len(a) = n - 1
        /\ \A k \in 1 .. n - 1 : a[k] = IF k < 2 THEN f[k] ELSE f[k + 1]
    BY <1>2, <1>3, WithoutOK
  <2>2. b \in Seq(Node) /\ Len(b) = n - 1 /\ \A k \in 1 .. n - 1 : b[k] = f[k + 1]
    BY <1>2, <1>3
  <2> HIDE DEF a, b
  <2>3. \A k \in 1 .. n - 2 : a[k + 1] = b[k + 1]
    <3> TAKE k \in 1 .. n - 2
    <3>1. k + 1 \in 1 .. n - 1 /\ ~(k + 1 < 2)
      BY <1>2
    <3> QED
      BY <2>1, <2>2, <3>1
  <2>4. n - 1 >= 1 /\ (n - 1) - 1 = n - 2
    BY <1>2, <1>3
  <2>5. Tail(a) = [k \in 1 .. n - 2 |-> a[k + 1]] /\ Tail(b) = [k \in 1 .. n - 2 |-> b[k + 1]]
    <3>1. a # <<>> /\ b # <<>>
      BY <2>1, <2>2, <2>4
    <3> QED
      BY <2>1, <2>2, <2>4, <3>1, TailIs
  <2>6. b # <<>>
    BY <2>2, <2>4
  <2> QED
    BY <2>3, <2>5, <2>6 DEF a, b
<1> QED
  BY <1>1, <1>6, <1>7, <1>8 DEF Abstract!Claim

(***************************************************************************)
(* thread_create() puts it at the end of the queue.                        *)
(***************************************************************************)
LEMMA CreateLinkMaps ==
    ASSUME TypeOK, Working, RingsOK, TypeOK', Working', NEW t \in Tid, CreateLink(t)
    PROVE  RingsOK' /\ \E p \in Tid : Abstract!Start(p)
<1> DEFINE f == Ring(next, FREE)
           p == entry[t]
<1>1. /\ pc[t] = "taken" /\ next' = AppendNext(next, prev, Kernel, p)
      /\ state' = [state EXCEPT ![p] = "ACTIVE"]
      /\ UNCHANGED cur_thread_id
  BY DEF CreateLink, At, sched
<1>2. p \in Tid /\ state[p] = "UNUSED"
  BY <1>1 DEF Working, EntryOK
<1>3. p \notin OnActive /\ p \notin OnFree /\ p \in Node
  BY <1>1, <1>2, QueuesAre DEF OnActive, OnFree, Taken, Node
<1>4. IsRing(Append(Queue, p), next', Kernel)
  <2>1. Chain(next, prev, OnActive, Kernel)
    BY DEF Working
  <2> QED
    BY <1>1, <1>3, <2>1, QueuesAre, RingAppend
<1>5. IsRing(f, next', FREE)
  <2>1. Kernel \in OnActive /\ prev[Kernel] \in OnActive
    BY DEF Working, Chain, DoublyLinked
  <2>2. \A m \in OnFree : next'[m] = next[m]
    BY <1>1, <1>3, <2>1, QueuesAre DEF AppendNext, Link
  <2>3. Chain(next, prev, OnFree, FREE)
    BY DEF Working
  <2> QED
    BY <2>2, <2>3, QueuesAre, RingElsewhere
<1>6. RingsOK' /\ Queue' = Append(Queue, p) /\ Unused' = Tail(f)
  BY <1>4, <1>5, QueuesBecome
<1>7. Unused = Tail(f)
  BY QueuesAre
<1>8. ExitedNow' = ExitedNow
  BY <1>1, <1>2 DEF ExitedNow, TypeOK
<1>9. p \notin Abstract!ToSet(Unused) \cup Abstract!ToSet(Queue)
  <2>1. /\ Len(f) \in Nat /\ Len(f) >= 1 /\ f \in Seq(Node) /\ Queue \in Seq(Node)
    BY QueuesAre, RingTypes
  <2>2. Abstract!ToSet(Queue) = OnActive
    BY <2>1, QueuesAre DEF Abstract!ToSet
  <2>3. \A i \in DOMAIN Tail(f) : Tail(f)[i] \in OnFree
    <3>1. OnFree = {f[i] : i \in 1 .. Len(f)}
      BY QueuesAre
    <3> HIDE DEF f
    <3>2. Tail(f) = [i \in 1 .. Len(f) - 1 |-> f[i + 1]]
      <4>1. f # <<>>
        BY <2>1
      <4> QED
        BY <2>1, <4>1, TailIs
    <3> QED
      BY <2>1, <3>1, <3>2
  <2> QED
    BY <1>3, <1>7, <2>2, <2>3 DEF Abstract!ToSet
<1> QED
  BY <1>1, <1>2, <1>6, <1>7, <1>8, <1>9 DEF Abstract!Start, ExitedNow

(***************************************************************************)
(* thread_exit() only marks the running thread.                            *)
(***************************************************************************)
LEMMA ThreadExitMaps ==
    ASSUME TypeOK, Working, RingsOK, NEW t \in Tid, ThreadExit(t)
    PROVE  RingsOK' /\ Abstract!Exit
<1>1. /\ t # Kernel /\ t = cur_thread_id /\ pc[t] = "run"
      /\ state' = [state EXCEPT ![t] = "EXITING"]
      /\ UNCHANGED <<next, cur_thread_id>>
  BY DEF ThreadExit, At, sched
<1>2. Initialized' = Initialized
  BY <1>1 DEF Initialized
<1>3. RingsOK' /\ UNCHANGED <<Queue, Unused>>
  BY <1>1, <1>2 DEF RingsOK, Queue, Unused
<1>4. state[t] # "EXITING"
  BY <1>1 DEF Working, EntryOK
<1>5. ExitedNow' = ExitedNow \cup {t}
  BY <1>1 DEF ExitedNow, TypeOK
<1> QED
  BY <1>1, <1>3, <1>4, <1>5 DEF Abstract!Exit, ExitedNow

(***************************************************************************)
(* The scheduler takes an exited thread out of the queue, and its number   *)
(* becomes the last of those that are free.                                *)
(***************************************************************************)
LEMMA SchedulerDestroyMaps ==
    ASSUME TypeOK, Working, RingsOK, TypeOK', Working', SchedulerDestroy
    PROVE  RingsOK' /\ Abstract!Reap
<1> DEFINE f == Ring(next, FREE)
           d == cursor
           i == Abstract!Position(d)
           nx == UnlinkNext(next, prev, d)
           pv == UnlinkPrev(next, prev, d)
<1>1. /\ cpu = "scheduler" /\ state[d] = "EXITING"
      /\ next' = AppendNext(nx, pv, FREE, d)
      /\ state' = [state EXCEPT ![d] = "UNUSED"]
      /\ UNCHANGED cur_thread_id
  BY DEF SchedulerDestroy, ThreadDestroy
<1>2. /\ d \in Tid /\ d # Kernel /\ d # cur_thread_id /\ d = next[cur_thread_id]
      /\ cur_thread_id \in OnActive
  BY <1>1, CursorNotCurrent DEF Working, ProcessorOK, OnActive, TypeOK
<1>3. d \in OnActive /\ d \in Node /\ d \notin OnFree
  BY <1>1, <1>2, QueuesAre DEF OnActive
<1>4. /\ i \in 1 .. Len(Queue) /\ Queue[i] = d
      /\ Abstract!Successor(cur_thread_id) = d
  BY <1>2, <1>3, SuccessorIsNext DEF Abstract!Successor
<1>5. i \in 2 .. Len(Queue)
  <2>1. Len(Queue) \in Nat /\ Queue[1] = Kernel
    BY QueuesAre, RingTypes
  <2> QED
    BY <1>2, <1>4, <2>1
<1> HIDE DEF i
<1>6. /\ Chain(next, prev, OnActive, Kernel) /\ Chain(next, prev, OnFree, FREE)
      /\ next[d] \in OnActive /\ prev[d] \in OnActive
  BY <1>3 DEF Working, Chain, DoublyLinked
<1>7. nx \in Link /\ pv \in Link
  BY <1>3, <1>6, QueuesAre DEF UnlinkNext, UnlinkPrev, Link
<1>8. IsRing(Without(Queue, i), nx, Kernel) /\ Chain(nx, pv, OnActive \ {d}, Kernel)
  <2>1. IsRing(Without(Queue, i), nx, Kernel)
    BY <1>4, <1>5, <1>6, QueuesAre, RingUnlink
  <2> QED
    BY <1>2, <1>3, <1>6, <2>1, QueuesAre, ChainUnlink
<1>9. IsRing(f, nx, FREE) /\ Chain(nx, pv, OnFree, FREE)
  <2>1. \A m \in OnFree : nx[m] = next[m] /\ pv[m] = prev[m]
    BY <1>6, QueuesAre DEF UnlinkNext, UnlinkPrev, Link
  <2> HIDE DEF nx, pv
  <2> QED
    BY <1>6, <2>1, QueuesAre, RingElsewhere, ChainElsewhere
<1> HIDE DEF nx, pv
<1>10. IsRing(Append(f, d), next', FREE)
  BY <1>1, <1>3, <1>7, <1>9, QueuesAre, RingAppend
<1>11. IsRing(Without(Queue, i), next', Kernel)
  <2>1. pv[FREE] \in OnFree
    BY <1>9 DEF Chain, DoublyLinked
  <2>2. \A m \in OnActive \ {d} : next'[m] = nx[m]
    BY <1>1, <1>7, <2>1, QueuesAre DEF AppendNext, Link
  <2> QED
    BY <1>8, <2>2, RingElsewhere
<1>12. RingsOK' /\ Queue' = Without(Queue, i) /\ Unused' = Tail(Append(f, d))
  BY <1>10, <1>11, QueuesBecome
<1>13. Tail(Append(f, d)) = Append(Unused, d)
  <2>1. f \in Seq(Node) /\ Len(f) \in Nat /\ Len(f) >= 1 /\ Unused = Tail(f)
    BY QueuesAre, RingTypes
  <2> HIDE DEF f, d
  <2>2. d \in Node
    BY <1>3 DEF d
  <2>3. f # <<>>
    BY <2>1
  <2>4. Tail(Append(f, d)) = Append(Tail(f), d)
    BY <2>1, <2>2, <2>3
  <2> QED
    BY <2>1, <2>4
<1>14. ExitedNow' = ExitedNow \ {d}
  BY <1>1, <1>2 DEF ExitedNow, TypeOK
<1>15. d \in ExitedNow
  BY <1>1, <1>2 DEF ExitedNow
<1>16. Queue' = Abstract!RemoveAt(Queue, Abstract!Position(d))
  BY <1>12 DEF Without, Abstract!RemoveAt, i
<1> QED
  BY <1>1, <1>2, <1>4, <1>12, <1>13, <1>14, <1>15, <1>16 DEF Abstract!Reap, ExitedNow

(***************************************************************************)
(* The scheduler switches to the thread whose turn it is.                  *)
(***************************************************************************)
LEMMA SchedulerSwitchMaps ==
    ASSUME TypeOK, Working, RingsOK, SchedulerSwitch
    PROVE  RingsOK' /\ Abstract!Switch
<1>1. /\ cpu = "scheduler" /\ state[cursor] \in {"ACTIVE", "UNUSED"}
      /\ cur_thread_id' = cursor
      /\ UNCHANGED <<next, state>>
  BY DEF SchedulerSwitch, threadInfo, chains
<1>2. cursor = next[cur_thread_id] /\ cur_thread_id \in OnActive
  BY <1>1 DEF Working, ProcessorOK, OnActive, TypeOK
<1>3. Abstract!Successor(cur_thread_id) = cursor
  BY <1>2, SuccessorIsNext DEF Abstract!Successor
<1>4. Initialized' = Initialized
  BY <1>1 DEF Initialized
<1>5. RingsOK' /\ UNCHANGED <<Queue, Unused>>
  BY <1>1, <1>4 DEF RingsOK, Queue, Unused
<1>6. cursor \notin ExitedNow /\ ExitedNow' = ExitedNow
  BY <1>1 DEF ExitedNow
<1> QED
  BY <1>1, <1>3, <1>5, <1>6 DEF Abstract!Switch, ExitedNow

LEMMA StartsRoundRobin == ASSUME Init PROVE RingsOK /\ Abstract!Init
<1> USE ThreadsMaxAssumption
<1>1. ~Initialized
  BY DEF Initialized, Init, Kernel, Node, Tid
<1>2. Queue = <<Kernel>> /\ Unused = [i \in 1 .. THREADS_MAX - 1 |-> i]
  BY <1>1 DEF Queue, Unused
<1>3. ExitedNow = {} /\ cur_thread_id = Kernel
  BY DEF ExitedNow, Init
<1>4. Unused \in Abstract!SetToSeqs(Tid \ {Kernel})
  <2>1. Tid \ {Kernel} = 1 .. THREADS_MAX - 1
    BY DEF Tid, Kernel
  <2>2. Abstract!Cardinality(1 .. THREADS_MAX - 1) = THREADS_MAX - 1
    <3>1. Abstract!Cardinality(1 .. THREADS_MAX - 1) = Cardinality(1 .. THREADS_MAX - 1)
      BY DEF Abstract!Cardinality, Cardinality
    <3> QED
      BY <3>1, FS_Interval
  <2> DEFINE D == 1 .. THREADS_MAX - 1
  <2>3. Unused \in [D -> D] /\ \A i, j \in D : i # j => Unused[i] # Unused[j]
    BY <1>2
  <2>4. Unused \in {g \in [D -> D] : \A i, j \in D : i # j => g[i] # g[j]}
    BY <2>3
  <2> QED
    BY <2>1, <2>2, <2>4 DEF Abstract!SetToSeqs
<1> QED
  BY <1>1, <1>2, <1>3, <1>4 DEF RingsOK, Abstract!Init, ExitedNow

LEMMA StepMaps ==
    ASSUME IInv, IInv', RingsOK, [Next]_vars
    PROVE  RingsOK' /\ [Abstract!Next]_Abstract!absVars
<1>1. CASE UNCHANGED vars
  BY <1>1, QueuesKept DEF vars, threadInfo, sched
<1>2. CASE MultiInit
  BY <1>2, MultiInitMaps
<1>3. ASSUME Next, ~MultiInit
      PROVE  RingsOK' /\ [Abstract!Next]_Abstract!absVars
  <2>1. TypeOK /\ Working /\ TypeOK' /\ Working'
    BY <1>3, RunningSteps
  <2>2. CASE InterruptsEnable
    BY <2>2, QueuesKept DEF InterruptsEnable, threadInfo, sched, chains
  <2>3. ASSUME NEW t \in Tid,
               ThreadCreate(t) \/ CreateEnter(t) \/ CreateFull(t) \/ CreateExit(t)
        PROVE  RingsOK' /\ UNCHANGED Abstract!absVars
    <3>1. UNCHANGED <<next, state, cur_thread_id>>
      BY <2>3 DEF ThreadCreate, CreateEnter, CreateFull, CreateExit, threadInfo, sched, chains
    <3> QED
      BY <3>1, QueuesKept
  <2>4. ASSUME NEW t \in Tid, CreateTake(t)
        PROVE  RingsOK' /\ Abstract!Next
    BY <2>1, <2>4, CreateTakeMaps DEF Abstract!Next
  <2>5. ASSUME NEW t \in Tid, CreateLink(t)
        PROVE  RingsOK' /\ Abstract!Next
    BY <2>1, <2>5, CreateLinkMaps DEF Abstract!Next
  <2>6. ASSUME NEW t \in Tid, ThreadExit(t)
        PROVE  RingsOK' /\ Abstract!Next
    BY <2>1, <2>6, ThreadExitMaps DEF Abstract!Next
  <2>7. ASSUME IsrTimer \/ \E t \in Tid : MultiYield(t)
        PROVE  RingsOK' /\ UNCHANGED Abstract!absVars
    <3>1. UNCHANGED <<next, state, cur_thread_id>>
      BY <2>7 DEF MultiYield, IsrTimer, EnterScheduler, chains
    <3> QED
      BY <3>1, QueuesKept
  <2>8. CASE SchedulerDestroy
    BY <2>1, <2>8, SchedulerDestroyMaps DEF Abstract!Next
  <2>9. CASE SchedulerSwitch
    BY <2>1, <2>9, SchedulerSwitchMaps DEF Abstract!Next
  <2> QED
    BY <1>3, <2>2, <2>3, <2>4, <2>5, <2>6, <2>7, <2>8, <2>9 DEF Next
<1> QED
  BY <1>1, <1>2, <1>3

(***************************************************************************)
(* multi.c implements the round-robin queue, for every size of             *)
(* thread_table: threads run in the order of their creation, none is       *)
(* skipped, one that has exited is removed in its turn, and free numbers   *)
(* are given out in the order in which they were given back.               *)
(***************************************************************************)
THEOREM RoundRobinKept == Spec => ImplementsRoundRobin
<1>1. Init => RingsOK /\ Abstract!Init
  BY StartsRoundRobin
<1>2. IInv /\ IInv' /\ RingsOK /\ [Next]_vars
      => RingsOK' /\ [Abstract!Next]_Abstract!absVars
  BY StepMaps
<1> QED
  BY <1>1, <1>2, Invariance, PTL DEF Spec, ImplementsRoundRobin, Abstract!Spec
=============================================================================
