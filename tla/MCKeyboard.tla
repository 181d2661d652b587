----------------------------- MODULE MCKeyboard -----------------------------
(***************************************************************************)
(* Keyboard for model checking: what the keyboard is used for.             *)
(***************************************************************************)
EXTENDS Keyboard

SomeKeys == {"lctrl", "ralt", "del", "pause", "a", "f1", "caps"}

\* Modifiers, prefixes and hidden shifts, the bytes of two keys on the wire at once.
Resetting == [keys |-> {"lctrl", "ralt", "del", "pause"}, presses |-> 3, pending |-> 1,
              reads |-> 0, noisy |-> FALSE]
\* A key with a second code and one without, the buffer filled and gone round.
Reading == [keys |-> {"a", "f1"}, presses |-> 3, pending |-> 0, reads |-> 6, noisy |-> FALSE]
\* setleds() called while setleds() waits.
Locking == [keys |-> {"caps"}, presses |-> 2, pending |-> 1, reads |-> 0, noisy |-> FALSE]
\* A keyboard that may refuse every byte.
Refusing == [keys |-> {"caps"}, presses |-> 1, pending |-> 1, reads |-> 0, noisy |-> TRUE]

SomeUses == {Resetting, Reading, Locking, Refusing}
=============================================================================
