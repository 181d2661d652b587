------------------------------ MODULE MCFatFs ------------------------------
(***************************************************************************)
(* FatFs for model checking: directories of three entries, among them      *)
(* deleted ones, parts of long names and names without extension, and      *)
(* files of four clusters, of one, and of none.                            *)
(***************************************************************************)
EXTENDS FatFs

AB == Entry(<<"A">>, <<"B">>)
AAB == Entry(<<"A", "A">>, <<"B">>)
B == Entry(<<"B">>, <<>>)
Other(kind) == [kind |-> kind, base |-> <<"A">>, ext |-> <<"B">>]
Kinds == {AB, AAB, B, Other("deleted"), Other("long"), Other("free")}

Directories ==
    {d \in [1 .. 3 -> Kinds] :
        \A i, j \in 1 .. 3 : i # j /\ d[i].kind = "file" => d[i] # d[j]}

Memory == {<<AB, B, AAB>>, <<Other("free")>>}
Tables == {[c \in 0 .. 7 |-> 0]}
Opened == {FileName(AB), FileName(B), <<"*">>}

Starts == [n \in {FileName(AB), FileName(AAB), FileName(B), <<>>} |->
              IF n = FileName(AB) THEN 2 ELSE IF n = FileName(AAB) THEN 3 ELSE 0]

\* Entry 0 holds the media byte; 4088 and 4095 end a chain.
Fat == [c \in 0 .. 7 |-> CASE c = 0 -> 4080 [] c = 1 -> 4095 [] c = 2 -> 4 [] c = 4 -> 7
                          [] c = 7 -> 5 [] c = 5 -> 4088 [] c = 3 -> 4095 [] OTHER -> 0]

\* Longer patterns and names than these directories have.
Strings(S, n) == UNION {[1 .. k -> S] : k \in 0 .. n}

ASSUME WildcmpAssumption ==
    \A w \in Strings({"A", "B", "*", "?"}, 4), s \in Strings({"A", "B"}, 4) :
        wildcmp(w, s) <=> Matches(w, s)

Patterns == {<<"A", ".", "B">>, <<"*", ".", "*">>, <<"*", "A", ".", "*">>, <<"?", "*", "B">>}
=============================================================================
