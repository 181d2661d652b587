---------------------------- MODULE ThreadQueue -----------------------------
(***************************************************************************)
(* The linked lists of Threads implement the queues of RoundRobin: the     *)
(* queue is what a walk along next from thread_table[0] meets, the free    *)
(* numbers are what a walk from free_threads meets.                        *)
(***************************************************************************)
EXTENDS Threads, Walks, Sequences

\* How many nodes there are on the ring that the links nx make through h.
RingLength(nx, h) ==
    CHOOSE k \in 1 .. THREADS_MAX + 1 :
        /\ Walk(nx, h)[k] = h
        /\ \A j \in 1 .. k - 1 : Walk(nx, h)[j] # h

\* These nodes, in the order in which they are met from h on.
Ring(nx, h) == [i \in 1 .. RingLength(nx, h) |-> Walk(nx, h)[i - 1]]

\* Before multi_init() the kernel thread runs alone and no number is in use.
Queue == IF Initialized THEN Ring(next, Kernel) ELSE <<Kernel>>
Unused == IF Initialized THEN Tail(Ring(next, FREE))
          ELSE [i \in 1 .. THREADS_MAX - 1 |-> i]

Abstract == INSTANCE RoundRobin WITH
    Thread <- Tid,
    queue <- Queue,
    running <- cur_thread_id,
    exited <- {t \in Tid : state[t] = "EXITING"},
    unused <- Unused

(***************************************************************************)
(* Every step of multi.c is a step of the round-robin queue or leaves it   *)
(* as it is: threads run in creation order, none is skipped, and free      *)
(* entries are reused first-in first-out.                                  *)
(***************************************************************************)
ImplementsRoundRobin == Abstract!Spec
=============================================================================
