---------------------------- MODULE MCKeybBuffer ----------------------------
(***************************************************************************)
(* A buffer of four entries, filled and gone round more than once.         *)
(***************************************************************************)
EXTENDS KeybBuffer

CONSTANTS a, b, zero

TwoEvents == {a, b}
=============================================================================
