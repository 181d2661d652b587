---------------------------- MODULE RoundRobin -----------------------------
(***************************************************************************)
(* What nucleus/multi.c promises, without links, stacks, interrupts or     *)
(* critical sections: the threads stand in a queue in the order of their   *)
(* creation, the kernel thread first; they are run in turn; one that has   *)
(* exited is removed while another one has the processor; free thread      *)
(* numbers are given out in the order in which they were given back.       *)
(***************************************************************************)
EXTENDS Naturals, Sequences, SequencesExt

CONSTANTS Thread, Kernel

VARIABLES
    queue,      \* the threads in creation order
    running,    \* the thread that has the processor
    exited,     \* threads that have called thread_exit()
    unused      \* thread numbers that are free, the next one to be used first

absVars == <<queue, running, exited, unused>>

TypeOK ==
    /\ queue \in Seq(Thread)
    /\ running \in Thread
    /\ exited \subseteq Thread
    /\ unused \in Seq(Thread)

Init ==
    /\ queue = <<Kernel>>
    /\ running = Kernel
    /\ exited = {}
    /\ unused \in SetToSeqs(Thread \ {Kernel})

\* Where t stands in the queue.
Position(t) == CHOOSE j \in DOMAIN queue : queue[j] = t

\* The thread after t, the first one after the last.
Successor(t) == queue[(Position(t) % Len(queue)) + 1]

\* A thread number is taken; the thread is in the queue from a later step on
\* (thread_create() unlinks and links in two steps).
Claim ==
    /\ unused # <<>>
    /\ unused' = Tail(unused)
    /\ UNCHANGED <<queue, running, exited>>

Start(t) ==
    /\ t \notin ToSet(unused) \cup ToSet(queue)
    /\ queue' = Append(queue, t)
    /\ UNCHANGED <<running, exited, unused>>

Exit ==
    /\ running # Kernel
    /\ running \notin exited
    /\ exited' = exited \cup {running}
    /\ UNCHANGED <<queue, running, unused>>

\* Only the thread whose turn it is next is ever looked at.
Reap ==
    LET t == Successor(running) IN
    /\ t \in exited
    /\ t # running
    /\ queue' = RemoveAt(queue, Position(t))
    /\ exited' = exited \ {t}
    /\ unused' = Append(unused, t)
    /\ UNCHANGED running

Switch ==
    /\ Successor(running) \notin exited
    /\ running' = Successor(running)
    /\ UNCHANGED <<queue, exited, unused>>

Next == Claim \/ (\E t \in Thread : Start(t)) \/ Exit \/ Reap \/ Switch

Spec == Init /\ [][Next]_absVars
=============================================================================
