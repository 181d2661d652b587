----------------------------- MODULE KeybBuffer -----------------------------
(***************************************************************************)
(* The keyboard buffer of nucleus/drivers/input/keyboard.c.  keyb_insert() *)
(* runs in the keyboard's interrupt, keyb_remove() in threads and with     *)
(* interrupts disabled, so each is one step, in any order.                 *)
(*                                                                         *)
(* A definition without a comment that stands before another of a similar  *)
(* name is that operation with a mistake in it; the properties are tested  *)
(* against these.                                                          *)
(***************************************************************************)
EXTENDS Integers, Sequences

CONSTANTS
    KEYB_BUFFER_LEN,
    Event,          \* what an entry holds: a scancode, and if a key went down
    Zero,           \* the entry {0, 0} of a buffer nobody has written to
    MaxEvents       \* bound on the events of a behaviour

ASSUME BufferLenAssumption == KEYB_BUFFER_LEN \in Nat /\ KEYB_BUFFER_LEN >= 2
ASSUME ZeroAssumption == Zero \notin Event
ASSUME MaxEventsAssumption == MaxEvents \in Nat

Index == 0 .. KEYB_BUFFER_LEN - 1

VARIABLES
    keyb_scbuffer,
    keyb_sc_head,
    keyb_sc_tail,
    accepted,       \* the events put into the buffer
    delivered       \* the entries taken out of it

bufferVars == <<keyb_scbuffer, keyb_sc_head, keyb_sc_tail, accepted, delivered>>

TypeOK ==
    /\ keyb_scbuffer \in [Index -> Event \cup {Zero}]
    /\ keyb_sc_head \in Index
    /\ keyb_sc_tail \in Index
    /\ accepted \in Seq(Event)
    /\ delivered \in Seq(Event \cup {Zero})

Init ==
    /\ keyb_scbuffer = [i \in Index |-> Zero]
    /\ keyb_sc_head = 0
    /\ keyb_sc_tail = 0
    /\ accepted = <<>>
    /\ delivered = <<>>

\* & KEYB_BUFFER_MASK; the length is a power of two.
Wrap(i) == i % KEYB_BUFFER_LEN

NewHead == Wrap(keyb_sc_head + 1)

FullNever == FALSE
FullOneEarly == Wrap(NewHead + 1) = keyb_sc_tail
Full == NewHead = keyb_sc_tail

Empty == keyb_sc_head = keyb_sc_tail

\* keyb_insert().  An event that finds the buffer full is discarded.
KeybInsert(e) ==
    /\ Len(accepted) < MaxEvents
    /\ \/ Full /\ UNCHANGED bufferVars
       \/ /\ ~Full
          /\ keyb_scbuffer' = [keyb_scbuffer EXCEPT ![NewHead] = e]
          /\ keyb_sc_head' = NewHead
          /\ accepted' = Append(accepted, e)
          /\ UNCHANGED <<keyb_sc_tail, delivered>>

KeybRemoveUnwrapped ==
    /\ ~Empty
    /\ delivered' = Append(delivered, keyb_scbuffer[keyb_sc_tail])
    /\ keyb_sc_tail' = IF keyb_sc_tail = KEYB_BUFFER_LEN - 1 THEN 1 ELSE keyb_sc_tail + 1
    /\ UNCHANGED <<keyb_scbuffer, keyb_sc_head, accepted>>

\* keyb_remove(), and GetCurrentKey().  It fails while the buffer is empty.
KeybRemove ==
    /\ ~Empty
    /\ delivered' = Append(delivered, keyb_scbuffer[keyb_sc_tail])
    /\ keyb_sc_tail' = Wrap(keyb_sc_tail + 1)
    /\ UNCHANGED <<keyb_scbuffer, keyb_sc_head, accepted>>

Next == (\E e \in Event : KeybInsert(e)) \/ KeybRemove

Spec == Init /\ [][Next]_bufferVars

-----------------------------------------------------------------------------
(* Safety *)

(***************************************************************************)
(* Nothing that was put into the buffer is lost, doubled, overwritten      *)
(* before it is read, or overtaken by something that came later; at most   *)
(* one entry nobody put in comes out, before all others.  Whether it may   *)
(* is another question: NextScancode.                                      *)
(***************************************************************************)
EventsInOrder ==
    \E n \in {0, 1} :
        /\ Len(delivered) <= Len(accepted) + n
        /\ \A i \in 1 .. Len(delivered) :
              delivered[i] = IF i <= n THEN Zero ELSE accepted[i - n]

(***************************************************************************)
(* Equal pointers mean what the code takes them for: the buffer tells that *)
(* it is empty when as many entries were taken out as were put in, and     *)
(* discards an event only when all but one of its entries are in use.      *)
(***************************************************************************)
PointersTell ==
    /\ Empty <=> Len(accepted) = Len(delivered)
    /\ Full <=> Len(accepted) = Len(delivered) + KEYB_BUFFER_LEN - 1

(***************************************************************************)
(* keyboard.c:86 calls keyb_remove() "Get the next scancode in the         *)
(* keyboard buffer": what comes out is the oldest event in the buffer.     *)
(***************************************************************************)
NextScancode ==
    \A i \in 1 .. Len(delivered) : i <= Len(accepted) /\ delivered[i] = accepted[i]
=============================================================================
