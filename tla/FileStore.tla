----------------------------- MODULE FileStore -----------------------------
(***************************************************************************)
(* What nucflop promises of the disk it makes: a file appears in the       *)
(* directory at once and whole, with its sectors in their order, and no    *)
(* later file takes anything from it.                                      *)
(***************************************************************************)
EXTENDS Integers

CONSTANTS
    Name,       \* the files there may be
    Room        \* sectors of the disk

VARIABLE store  \* the sectors of each file that is in the directory

StoreInit == store = <<>>

Publish(f) ==
    /\ f \notin DOMAIN store
    /\ DOMAIN store' = DOMAIN store \cup {f}
    /\ \E n \in 1 .. Room : store'[f] = [i \in 1 .. n |-> <<f, i>>]
    /\ \A g \in DOMAIN store : store'[g] = store[g]

StoreSpec == StoreInit /\ [][\E f \in Name : Publish(f)]_store
=============================================================================
