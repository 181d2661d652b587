------------------------------- MODULE Wildcmp -------------------------------
(***************************************************************************)
(* wildcmp() of nucleus/drivers/fs/fat.c: whether a name matches a pattern *)
(* with stars and question marks.  Each round of its loops is a step; mp   *)
(* and cp are where to go on when the rest behind the last star does not   *)
(* match.                                                                  *)
(***************************************************************************)
EXTENDS Integers, Sequences, Walks

Nul == ""

\* The character a pointer is at; behind the last one stands a 0.
At(t, i) == IF i \in DOMAIN t THEN t[i] ELSE Nul

\* The four pointers as positions, and which loop they are in, or the answer.
Pointers(w, s) ==
    [wild : 1 .. Len(w) + 1, string : 1 .. Len(s) + 1, mp : 1 .. Len(w) + 1,
     cp : 1 .. Len(s) + 2, loop : {"first", "second", "yes", "no"}]

Start == [wild |-> 1, string |-> 1, mp |-> 1, cp |-> 1, loop |-> "first"]

Agree(w, s, c) == At(w, c.wild) \in {At(s, c.string), "?"}

Onwards(c) == [c EXCEPT !.wild = @ + 1, !.string = @ + 1]

Answer(c, yes) == [c EXCEPT !.loop = IF yes THEN "yes" ELSE "no"]

\* A round of the first loop, which ends at the first star.
First(w, s, c) ==
    IF At(s, c.string) = Nul \/ At(w, c.wild) = "*" THEN [c EXCEPT !.loop = "second"]
    ELSE IF Agree(w, s, c) THEN Onwards(c)
    ELSE Answer(c, FALSE)

\* A round of the second, and the stars that may be left behind it.
Second(w, s, c) ==
    IF At(s, c.string) = Nul THEN Answer(c, \A i \in c.wild .. Len(w) : w[i] = "*")
    ELSE IF At(w, c.wild) = "*"
    THEN IF At(w, c.wild + 1) = Nul THEN Answer(c, TRUE)
         ELSE [c EXCEPT !.wild = @ + 1, !.mp = c.wild + 1, !.cp = c.string + 1]
    ELSE IF Agree(w, s, c) THEN Onwards(c)
    ELSE [c EXCEPT !.wild = c.mp, !.string = c.cp, !.cp = @ + 1]

Round(w, s) ==
    [c \in Pointers(w, s) |->
        CASE c.loop = "first" -> First(w, s, c)
          [] c.loop = "second" -> Second(w, s, c)
          [] OTHER -> c]

\* More rounds than there can be.
Rounds(w, s) == (Len(w) + 2) * (Len(s) + 2)

wildcmp(w, s) == Walk(Round(w, s), Start)[Rounds(w, s)].loop = "yes"

-----------------------------------------------------------------------------

(***************************************************************************)
(* What wildcmp() is for: a name matches a pattern if the name can be      *)
(* divided among the pattern's characters, anything to a star, and one     *)
(* character that is the same to every other; to[i] is where the part of   *)
(* the i-th ends.                                                          *)
(***************************************************************************)
Matches(w, s) ==
    \E to \in [0 .. Len(w) -> 0 .. Len(s)] :
        /\ to[0] = 0 /\ to[Len(w)] = Len(s)
        /\ \A i \in 1 .. Len(w) :
              IF w[i] = "*" THEN to[i - 1] <= to[i]
              ELSE to[i] = to[i - 1] + 1 /\ w[i] \in {s[to[i]], "?"}
=============================================================================
