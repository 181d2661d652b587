-------------------------------- MODULE A20 --------------------------------
(***************************************************************************)
(* nucload/nucloada.asm, the gate of address line 20.  While it is shut an *)
(* address above 1 MB is the same byte as one below.  Boards differ in     *)
(* what opens it, so the loader tries one method after another and keeps   *)
(* the one that worked.                                                    *)
(***************************************************************************)
EXTENDS Integers, Sequences

CONSTANT Board      \* the boards the loader may find itself on

\* What opens the gate on each kind of board: any of these sets of switches.
Opens == [ always |-> {{}}, kbc |-> {{"kbc"}}, p92 |-> {{"p92"}},
           either |-> {{"kbc"}, {"p92"}}, both |-> {{"kbc", "p92"}},
           ee |-> {{"ee"}}, cmd |-> {{"cmd"}}, none |-> {} ]

\* The BIOS may open and shut it (int 15h), do neither and say so, or only open it.
Boards == [wire : DOMAIN Opens, bios : {"works", "refuses", "opens"}]

ASSUME BoardAssumption == Board \subseteq Boards

NoBoard == [wire |-> "none", bios |-> "refuses"]

VARIABLES
    board,      \* the board it is, once the loader has touched the gate
    switches,   \* the switches that are set
    a20_vec,    \* the method that _ena_A20_vec and _dis_A20_vec point to, if any
    probe,      \* the method being probed, 0 if none is
    intr        \* the interrupt flag

a20Vars == <<board, switches, a20_vec, probe, intr>>

A20Init ==
    /\ board = NoBoard
    /\ switches = {}
    /\ a20_vec = "unset"
    /\ probe = 0
    /\ intr = TRUE

OpenOn(b, sw) == "bios" \in sw \/ \E s \in Opens[b.wire] : s \subseteq sw
Open(sw) == OpenOn(board, sw)

\* The order in which _detect_A20_type tries the methods.
Methods == <<"bios", "kbc", "ee", "p92", "p92_kbc", "cmd">>

Switches(method) ==
    CASE method = "null" -> {}
      [] method = "p92_kbc" -> {"p92", "kbc"}
      [] OTHER -> {method}

EnabledBy(method) == switches \cup Switches(method)
DisabledBy(method) == switches \ Switches(method)

\* _enable_A20 and _disable_A20 once a method is known.
EnableWith(method) == switches' = EnabledBy(method) /\ intr' = FALSE
DisableWith(method) == switches' = DisabledBy(method) /\ intr' = TRUE

Chosen(method) ==
    /\ a20_vec' = method
    /\ probe' = 0

\* The first question of _detect_A20_type: is the gate open already?
DetectStart ==
    /\ probe = 0
    /\ a20_vec = "unset"
    /\ board' \in Board
    /\ IF OpenOn(board', switches) THEN Chosen("null") ELSE probe' = 1 /\ UNCHANGED a20_vec
    /\ UNCHANGED switches

\* Asking the BIOS: it is believed when it says that it opened the gate, and used
\* if it can also shut it.
ProbeBIOS ==
    /\ probe = 1
    /\ \/ board.bios = "works" /\ Chosen("bios") /\ UNCHANGED switches
       \/ /\ board.bios = "opens"
          /\ switches' = EnabledBy("bios")
          /\ probe' = 2 /\ UNCHANGED a20_vec
       \/ board.bios = "refuses" /\ probe' = 2 /\ UNCHANGED <<a20_vec, switches>>

ProbeUntested ==
    /\ probe \in 2 .. Len(Methods)
    /\ Chosen(Methods[probe])
    /\ UNCHANGED switches

\* The other methods: set the switches, look, and take them back.  The last
\* method is not taken back when it fails, and after it the carry flag that says
\* so is lost in popfd: the caller jumps through the empty vector.
Probe ==
    /\ probe \in 2 .. Len(Methods)
    /\ LET m == Methods[probe]
       IN  IF Open(EnabledBy(m)) THEN Chosen(m) /\ switches' = DisabledBy(m)
           ELSE /\ switches' = IF m = "cmd" THEN EnabledBy(m) ELSE DisabledBy(m)
                /\ probe' = probe + 1
                /\ UNCHANGED a20_vec

NoMethodLeft == probe > Len(Methods)

\* _detect_A20_type runs with interrupts off; popfd puts the flag back, and
\* _enable_A20 had cleared it.
Detect ==
    /\ DetectStart \/ ((ProbeBIOS \/ Probe) /\ UNCHANGED board)
    /\ intr' = FALSE
=============================================================================
