------------------------------- MODULE MCBoot -------------------------------
(***************************************************************************)
(* Boot on a disk of seven clusters of four bytes, with a directory of two *)
(* sectors of four entries.  A file has no whole sector, two, three and a  *)
(* bit, or four and a bit; the two largest do not fit together.            *)
(***************************************************************************)
EXTENDS Boot

TwoFiles == <<"nucload", "nucleus">>
Sizes == {3, 8, 13, 17}
=============================================================================
