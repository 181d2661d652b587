----------------------------- MODULE MallocLoop -----------------------------
(***************************************************************************)
(* malloc() of nucleus/drivers/mem/mem.c in the steps it takes: its two    *)
(* loops move the static variable ml along the list of pages.              *)
(* thread_create() calls it with interrupts enabled.  Between any two      *)
(* turns of a loop the timer interrupt can come, whose scheduler calls     *)
(* free() for the stack of a thread that has exited, on the stack of the   *)
(* thread that is inside malloc(), and can go on with another thread,      *)
(* which calls malloc() as well.  free() itself is only ever called with   *)
(* interrupts disabled: it is one step.                                    *)
(***************************************************************************)
EXTENDS Heap

CONSTANT Thread     \* the threads that create others

VARIABLES
    ml,             \* static MEM_LIST *ml, the number of the node it points to
    pc,             \* where each thread is in malloc()
    found, counter, pages, mem_addr,    \* the local variables of malloc()
    client,         \* for whom the thread gets the stack
    quiet           \* history: nobody else has called malloc() or free() since
                    \* the thread called malloc()

locals == <<found, counter, pages, mem_addr, client>>
loopVars == <<vars, ml, pc, locals, quiet>>

\* Bound on counter.  Without interruption it is UserPages at most; with it, ml
\* may be taken back to the start again and again.
MaxCounter == 2 * UserPages + 1

\* A page that was counted too far can lie behind the list.
LoopTypeOK ==
    /\ status \in [Node -> {"FREE", "USED"}]
    /\ size \in [Node -> Nat]
    /\ block \in [Owner -> [page : 0 .. MaxCounter, pages : Nat] \cup {NoBlock}]
    /\ mounted \in BOOLEAN
    /\ ml \in Node
    /\ pc \in [Thread -> {"idle", "search", "walk"}]
    /\ found \in [Thread -> Nat]
    /\ counter \in [Thread -> 0 .. MaxCounter]
    /\ pages \in [Thread -> Nat]
    /\ mem_addr \in [Thread -> 0 .. MaxCounter]
    /\ client \in [Thread -> Client \cup {NoBlock}]
    /\ quiet \in [Thread -> BOOLEAN]

LoopInit ==
    /\ Init
    /\ ml = UserPages
    /\ pc = [t \in Thread |-> "idle"]
    /\ found = [t \in Thread |-> 0]
    /\ counter = [t \in Thread |-> 0]
    /\ pages = [t \in Thread |-> 0]
    /\ mem_addr = [t \in Thread |-> 0]
    /\ client = [t \in Thread |-> NoBlock]
    /\ quiet = [t \in Thread |-> FALSE]

ml_start == 0
NextNode(n) == (n + 1) % (UserPages + 1)

Goto(t, l) == pc' = [pc EXCEPT ![t] = l]

\* A step of t is one that all others notice.
Disturb(t) == quiet' = [u \in Thread |-> u = t /\ quiet[t]]
DisturbAll == quiet' = [u \in Thread |-> FALSE]

\* fs_fat_init() runs before there are threads.  Where it leaves ml does not
\* matter, every call of malloc() and free() sets it first.
LoopFatInit ==
    /\ FatInit
    /\ ml' \in Node
    /\ DisturbAll
    /\ UNCHANGED <<pc, locals>>

\* The call, up to the first loop.
EnterMalloc(t, c, bytes) ==
    /\ mounted
    /\ pc[t] = "idle"
    /\ block[c] = NoBlock
    /\ \A u \in Thread : client[u] # c
    /\ client' = [client EXCEPT ![t] = c]
    /\ pages' = [pages EXCEPT ![t] = PagesFor(bytes)]
    /\ counter' = [counter EXCEPT ![t] = 0]
    /\ found' = [found EXCEPT ![t] = 0]
    /\ ml' = ml_start
    /\ quiet' = [u \in Thread |-> u = t]
    /\ Goto(t, "search")
    /\ UNCHANGED <<vars, mem_addr>>

\* The begin of a turn of the first loop: the free nodes in a row up to here.
Counted(t) == IF status[ml] = "FREE" THEN found[t] + 1 ELSE 0

Look(t) ==
    /\ pc[t] = "search"
    /\ found' = [found EXCEPT ![t] = Counted(t)]
    /\ Disturb(t)

\* A turn of the first loop that goes on.
SearchOn(t) ==
    /\ Look(t)
    /\ Counted(t) # pages[t]
    /\ NextNode(ml) # ml_start
    /\ counter[t] < MaxCounter
    /\ counter' = [counter EXCEPT ![t] = @ + 1]
    /\ ml' = NextNode(ml)
    /\ UNCHANGED <<vars, pc, pages, mem_addr, client>>

\* The turn that comes to the end of the list: a null pointer is returned.
SearchFails(t) ==
    /\ Look(t)
    /\ Counted(t) # pages[t]
    /\ NextNode(ml) = ml_start
    /\ ml' = ml_start
    /\ client' = [client EXCEPT ![t] = NoBlock]
    /\ Goto(t, "idle")
    /\ UNCHANGED <<vars, counter, pages, mem_addr>>

\* The turn that has found enough nodes.
SearchEnds(t) ==
    /\ Look(t)
    /\ Counted(t) = pages[t]
    /\ mem_addr' = [mem_addr EXCEPT ![t] = counter[t]]
    /\ ml' = ml_start
    /\ Goto(t, "walk")
    /\ UNCHANGED <<vars, counter, pages, client>>

\* A turn of the second loop.
CountDown(t) ==
    /\ pc[t] = "walk"
    /\ counter[t] > 0
    /\ counter' = [counter EXCEPT ![t] = @ - 1]
    /\ ml' = NextNode(ml)
    /\ Disturb(t)
    /\ UNCHANGED <<vars, pc, found, pages, mem_addr, client>>

\* The node is marked and the address returned.
Mark(t) ==
    /\ pc[t] = "walk"
    /\ counter[t] = 0
    /\ status' = MarkedStatus(status, ml)
    /\ size' = MarkedSize(size, ml, pages[t])
    /\ block' = [block EXCEPT ![client[t]] = [page |-> mem_addr[t], pages |-> pages[t]]]
    /\ client' = [client EXCEPT ![t] = NoBlock]
    /\ Disturb(t)
    /\ Goto(t, "idle")
    /\ UNCHANGED <<mounted, ml, found, counter, pages, mem_addr>>

\* free(), in the scheduler, whichever thread it has interrupted, or in the
\* critical section of thread_create().  The list is walked round its end.
LoopFree(c) ==
    LET e == block[c].page % (UserPages + 1) IN
    /\ block[c] # NoBlock
    /\ FreeAt(c, e)
    /\ ml' = (e + (IF size[e] > 1 THEN size[e] - 1 ELSE 0)) % (UserPages + 1)
    /\ DisturbAll
    /\ UNCHANGED <<mounted, pc, locals>>

LoopNext ==
    \/ LoopFatInit
    \/ \E t \in Thread :
          \/ \E c \in Client, bytes \in StackBytes : EnterMalloc(t, c, bytes)
          \/ SearchOn(t)
          \/ SearchFails(t)
          \/ SearchEnds(t)
          \/ CountDown(t)
          \/ Mark(t)
    \/ \E c \in Client : LoopFree(c)

LoopSpec == LoopInit /\ [][LoopNext]_loopVars

-----------------------------------------------------------------------------

\* What the call of t has come to is what Heap says: the first node at the end of
\* a long enough run is marked and returned, or there is no such run.
CallFits(t) ==
    \/ /\ \E bytes \in StackBytes : pages[t] = PagesFor(bytes) /\ Malloc(client[t], bytes)
       /\ UNCHANGED mounted
    \/ RunEnds(status, pages[t]) = {} /\ UNCHANGED vars

(***************************************************************************)
(* Among any number of threads, a call of malloc() that nobody else's      *)
(* malloc() and no free(), the interrupt's included, has come into does in *)
(* its two loops what Heap says in one step.  Of the other calls the code  *)
(* says nothing: they are those in which BlocksDisjoint is violated.       *)
(***************************************************************************)
QuietCallsFit ==
    [][\A t \in Thread : quiet[t] /\ pc[t] # "idle" /\ pc'[t] = "idle" => CallFits(t)]_loopVars
=============================================================================
