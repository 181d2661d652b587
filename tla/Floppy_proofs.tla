---------------------------- MODULE Floppy_proofs ----------------------------
(***************************************************************************)
(* Proofs about Floppy, for all disks, blocks and bounds.                  *)
(***************************************************************************)
EXTENDS Floppy, TLAPS

(***************************************************************************)
(* As long as no command was late, an interrupt that is requested or has   *)
(* been taken belongs to what the controller has ended and the driver has  *)
(* not yet asked about.                                                    *)
(***************************************************************************)
OwnInterrupt ==
    /\ late \in Nat
    /\ late = 0 => (irr \/ done => Raises(phase))

LEMMA OwnInit == Init => OwnInterrupt
  BY DEF Init, OwnInterrupt

(***************************************************************************)
(* Steps that give no command leave the interrupt and the phase alone.     *)
(***************************************************************************)
LEMMA OwnUnchanged ==
    OwnInterrupt /\ UNCHANGED <<done, irr, phase, late>> => OwnInterrupt'
  BY DEF OwnInterrupt, Raises

(***************************************************************************)
(* A command is accepted only when the controller is ready: then there is  *)
(* no interrupt that could be taken for that of the command.               *)
(***************************************************************************)
LEMMA OwnCommand ==
    ASSUME NEW p, NEW o, OwnInterrupt, Send(p, o), UNCHANGED <<done, irr, late>>
    PROVE  OwnInterrupt'
  BY DEF OwnInterrupt, Raises, Send

(***************************************************************************)
(* floppy_wait() leaves no interrupt behind unless one comes late.         *)
(***************************************************************************)
LEMMA OwnWait == OwnInterrupt /\ FloppyWait => OwnInterrupt'
<1> SUFFICES ASSUME OwnInterrupt, FloppyWait PROVE OwnInterrupt'
  OBVIOUS
<1>1. done' = FALSE /\ (irr' => late' = late + 1) /\ late' \in {late, late + 1}
  BY DEF FloppyWait
<1> QED
  BY <1>1 DEF OwnInterrupt

LEMMA OwnStep == OwnInterrupt /\ [Next]_vars => OwnInterrupt'
<1> SUFFICES ASSUME OwnInterrupt, [Next]_vars PROVE OwnInterrupt'
  OBVIOUS
<1>1. CASE FloppyReset
  BY <1>1 DEF FloppyReset, OwnInterrupt, Raises, countVars
<1>2. CASE FloppyWait
  BY <1>2, OwnWait
<1>3. CASE FloppySeek
  <2>1. Send("seeking", [Nothing EXCEPT !.track = Head(todo).track]) /\ UNCHANGED <<done, irr, late>>
    BY <1>3 DEF FloppySeek, countVars
  <2> QED
    BY <2>1, OwnCommand
<1>4. CASE FloppyRecalibrate
  <2>1. Send("seeking", [Nothing EXCEPT !.head = 1]) /\ UNCHANGED <<done, irr, late>>
    BY <1>4 DEF FloppyRecalibrate, countVars
  <2> QED
    BY <2>1, OwnCommand
<1>5. CASE Command
  <2>1. Send("reading", Hts(block, sectors)) /\ UNCHANGED <<done, irr, late>>
    BY <1>5 DEF Command, countVars
  <2> QED
    BY <2>1, OwnCommand
<1>6. CASE SeekThere \/ SeekChecked \/ FloppyRw \/ TryAfterChange \/ Try \/ GiveUp \/ CannotSeek
  BY <1>6, OwnUnchanged DEF SeekThere, SeekChecked, FloppyRw, TryAfterChange, Try, GiveUp, CannotSeek,
     fdcVars, countVars
<1>7. CASE Worked \/ TryAgain \/ Geo168 \/ Geo168Is \/ Geo144 \/ Install
  BY <1>7, OwnUnchanged DEF Worked, TryAgain, Geo168, Geo168Is, Geo144, Install, fdcVars, countVars
<1>8. CASE SeekEnds
  BY <1>8 DEF SeekEnds, OwnInterrupt, Raises, countVars
<1>9. CASE ReadEnds
  BY <1>9 DEF ReadEnds, OwnInterrupt, Raises
<1>10. CASE Irq
  BY <1>10 DEF Irq, OwnInterrupt, Raises, fdcVars, countVars
<1>11. CASE TakeOut \/ PutIn \/ UNCHANGED vars
  BY <1>11, OwnUnchanged DEF TakeOut, PutIn, vars, driverVars, fdcVars, countVars
<1>12. CASE \E b \in Block : FloppyIoctl(b)
  BY <1>12, OwnUnchanged DEF FloppyIoctl, fdcVars
<1> QED
  BY <1>1, <1>2, <1>3, <1>4, <1>5, <1>6, <1>7, <1>8, <1>9, <1>10, <1>11, <1>12 DEF Next, Driver, Fdc

(***************************************************************************)
(* floppy_wait() never takes an interrupt of an earlier command for that   *)
(* of its own, whatever the disks are and however often they are changed,  *)
(* as long as no command or interrupt is late.                             *)
(***************************************************************************)
THEOREM CommandsInStep == Spec => []DoneMeansEnded
<1>1. OwnInterrupt => DoneMeansEnded
  BY DEF OwnInterrupt, DoneMeansEnded, Raises
<1> QED
  BY <1>1, OwnInit, OwnStep, PTL DEF Spec

-----------------------------------------------------------------------------
(* What the driver has yet to do *)

Procedure == {"reset", "recalibrate", "seek", "sought", "wait", "rw", "try", "command", "check",
              "geo168", "geo144", "install"}
Item == [do : Procedure, track : Int]
Moving == {"wait", "seek", "sought"}
Steps == Moving \cup {"recalibrate"}

\* What may stand before p in todo.
MayPrecede(h, p) ==
    /\ p # "reset"
    /\ p \in {"command", "recalibrate"} => h \in Moving
    /\ p = "try" => h \in Steps
    /\ p = "check" => h = "wait"
    /\ p = "geo168" => h \in Steps \cup {"reset"}
    /\ p = "geo144" => h # "install"

Ordered(q) == \A i, j \in 1 .. Len(q) : i < j => MayPrecede(q[i].do, q[j].do)

\* A procedure h may be replaced by its steps s.
StepsOf(s, h) ==
    /\ s \in Seq(Item)
    /\ Ordered(s)
    /\ \A i \in 1 .. Len(s), p \in Procedure : MayPrecede(h, p) => MayPrecede(s[i].do, p)

LEMMA Replaced ==
    ASSUME NEW q \in Seq(Item), q # <<>>, NEW s \in Seq(Item)
    PROVE  LET r == s \o Tail(q) IN
           /\ r \in Seq(Item)
           /\ Len(r) = Len(s) + Len(q) - 1
           /\ \A i \in 1 .. Len(s) : r[i] = s[i]
           /\ \A i \in Len(s) + 1 .. Len(r) : r[i] = q[i - Len(s) + 1] /\ i - Len(s) + 1 \in 2 .. Len(q)
  OBVIOUS

(***************************************************************************)
(* todo stays ordered when its first procedure is replaced by its steps.   *)
(***************************************************************************)
LEMMA ReplacedOrdered ==
    ASSUME NEW q \in Seq(Item), q # <<>>, Ordered(q), NEW s, StepsOf(s, Head(q).do)
    PROVE  s \o Tail(q) \in Seq(Item) /\ Ordered(s \o Tail(q))
<1> DEFINE r == s \o Tail(q)
<1>1. s \in Seq(Item) /\ Ordered(s)
  BY DEF StepsOf
<1>2. /\ r \in Seq(Item)
      /\ Len(r) = Len(s) + Len(q) - 1
      /\ \A i \in 1 .. Len(s) : r[i] = s[i]
      /\ \A i \in Len(s) + 1 .. Len(r) : r[i] = q[i - Len(s) + 1] /\ i - Len(s) + 1 \in 2 .. Len(q)
  BY <1>1, Replaced
<1>3. Head(q) = q[1] /\ Len(q) \in Nat /\ Len(q) >= 1 /\ Len(s) \in Nat
  BY <1>1
<1> HIDE DEF r
<1>4. ASSUME NEW i \in 1 .. Len(r), NEW j \in 1 .. Len(r), i < j
      PROVE  MayPrecede(r[i].do, r[j].do)
  <2>1. CASE j <= Len(s)
    <3>1. i \in 1 .. Len(s) /\ j \in 1 .. Len(s)
      BY <1>3, <1>4, <2>1
    <3> QED
      BY <1>1, <1>2, <1>4, <3>1 DEF Ordered
  <2>2. CASE j > Len(s) /\ i > Len(s)
    <3>0. i \in Len(s) + 1 .. Len(r) /\ j \in Len(s) + 1 .. Len(r)
      BY <1>2, <1>3, <1>4, <2>2
    <3>1. i - Len(s) + 1 \in 1 .. Len(q) /\ j - Len(s) + 1 \in 1 .. Len(q)
          /\ i - Len(s) + 1 < j - Len(s) + 1
      BY <1>2, <1>3, <1>4, <2>2
    <3>2. r[i] = q[i - Len(s) + 1] /\ r[j] = q[j - Len(s) + 1]
      BY <1>2, <3>0
    <3> QED
      BY <3>1, <3>2 DEF Ordered
  <2>3. CASE j > Len(s) /\ i <= Len(s)
    <3>0. i \in 1 .. Len(s) /\ j \in Len(s) + 1 .. Len(r)
      BY <1>2, <1>3, <1>4, <2>3
    <3>1. i \in 1 .. Len(s) /\ j - Len(s) + 1 \in 1 .. Len(q) /\ 1 < j - Len(s) + 1
      BY <1>2, <1>3, <1>4, <2>3
    <3>2. r[i] = s[i] /\ r[j] = q[j - Len(s) + 1]
      BY <1>2, <3>0
    <3>3. MayPrecede(Head(q).do, r[j].do)
      BY <1>3, <3>1, <3>2 DEF Ordered
    <3>4. r[j].do \in Procedure
      <4>1. r[j] \in Item
        BY <1>2, <1>4
      <4> QED
        BY <4>1 DEF Item
    <3> QED
      BY <3>1, <3>2, <3>3, <3>4 DEF StepsOf
  <2> QED
    BY <1>3, <1>4, <2>1, <2>2, <2>3
<1> QED
  BY <1>2, <1>4 DEF Ordered, r

\* Every read in q comes after a seek to track t.
Aimed(q, t) ==
    \A i \in 2 .. Len(q) :
        q[i].do = "command" => q[i - 1].do \in {"seek", "sought"} /\ q[i - 1].track = t

Has(q, P) == \E i \in 1 .. Len(q) : q[i].do \in P

LEMMA ReplacedAimed ==
    ASSUME NEW q \in Seq(Item), q # <<>>, NEW s \in Seq(Item), NEW t,
           Aimed(q, t), Aimed(s, t),
           s # <<>> /\ Head(q).do \in {"seek", "sought"} =>
               s[Len(s)].do \in {"seek", "sought"} /\ s[Len(s)].track = Head(q).track
    PROVE  Aimed(s \o Tail(q), t)
<1> DEFINE r == s \o Tail(q)
<1>1. /\ Len(r) = Len(s) + Len(q) - 1
      /\ \A i \in 1 .. Len(s) : r[i] = s[i]
      /\ \A i \in Len(s) + 1 .. Len(r) : r[i] = q[i - Len(s) + 1] /\ i - Len(s) + 1 \in 2 .. Len(q)
  BY Replaced
<1>2. Head(q) = q[1] /\ Len(q) \in Nat /\ Len(q) >= 1 /\ Len(s) \in Nat /\ (s # <<>> <=> Len(s) > 0)
  OBVIOUS
<1> HIDE DEF r
<1> SUFFICES ASSUME NEW i \in 2 .. Len(r), r[i].do = "command"
             PROVE  r[i - 1].do \in {"seek", "sought"} /\ r[i - 1].track = t
  BY DEF Aimed, r
<1>3. CASE i <= Len(s)
  <2>1. i \in 2 .. Len(s) /\ i \in 1 .. Len(s) /\ i - 1 \in 1 .. Len(s)
    BY <1>2, <1>3
  <2> QED
    BY <1>1, <2>1 DEF Aimed
<1>4. CASE i > Len(s)
  <2>1. i \in Len(s) + 1 .. Len(r)
    BY <1>1, <1>2, <1>4
  <2> DEFINE k == i - Len(s) + 1
  <2>2. k \in 2 .. Len(q) /\ q[k].do = "command"
    BY <1>1, <2>1
  <2>3. q[k - 1].do \in {"seek", "sought"} /\ q[k - 1].track = t
    BY <2>2 DEF Aimed
  <2>4. CASE i - 1 > Len(s)
    <3>1. i - 1 \in Len(s) + 1 .. Len(r) /\ (i - 1) - Len(s) + 1 = k - 1
      BY <1>1, <1>2, <2>4
    <3>2. r[i - 1] = q[k - 1]
      BY <1>1, <3>1
    <3> QED
      BY <2>3, <3>2
  <2>5. CASE i - 1 = Len(s)
    <3>1. k - 1 = 1 /\ Len(s) \in 1 .. Len(s) /\ s # <<>> /\ r[i - 1] = s[Len(s)]
      BY <1>1, <1>2, <2>5
    <3> QED
      BY <1>2, <2>3, <3>1
  <2> QED
    BY <1>2, <1>4, <2>4, <2>5
<1> QED
  BY <1>2, <1>3, <1>4

LEMMA ReplacedHas ==
    ASSUME NEW q \in Seq(Item), q # <<>>, NEW s \in Seq(Item), NEW P
    PROVE  /\ Has(s \o Tail(q), P) => Has(s, P) \/ \E i \in 2 .. Len(q) : q[i].do \in P
           /\ Has(q, P) /\ Head(q).do \notin P => Has(s \o Tail(q), P)
           /\ Has(s, P) => Has(s \o Tail(q), P)
<1> DEFINE r == s \o Tail(q)
<1>1. /\ Len(r) = Len(s) + Len(q) - 1
      /\ \A i \in 1 .. Len(s) : r[i] = s[i]
      /\ \A i \in Len(s) + 1 .. Len(r) : r[i] = q[i - Len(s) + 1] /\ i - Len(s) + 1 \in 2 .. Len(q)
  BY Replaced
<1>2. Head(q) = q[1] /\ Len(q) \in Nat /\ Len(q) >= 1 /\ Len(s) \in Nat
  OBVIOUS
<1> HIDE DEF r
<1>3. Has(r, P) => Has(s, P) \/ \E i \in 2 .. Len(q) : q[i].do \in P
  <2> SUFFICES ASSUME NEW i \in 1 .. Len(r), r[i].do \in P
               PROVE  Has(s, P) \/ \E k \in 2 .. Len(q) : q[k].do \in P
    BY DEF Has
  <2>1. i \in 1 .. Len(s) \/ i \in Len(s) + 1 .. Len(r)
    BY <1>1, <1>2
  <2> QED
    BY <1>1, <2>1 DEF Has
<1>4. ASSUME NEW k \in 1 .. Len(q), q[k].do \in P, Head(q).do \notin P
      PROVE  Has(r, P)
  <2>1. k > 1
    BY <1>2, <1>4
  <2>2. k + Len(s) - 1 \in Len(s) + 1 .. Len(r) /\ (k + Len(s) - 1) - Len(s) + 1 = k
        /\ k + Len(s) - 1 \in 1 .. Len(r)
    BY <1>1, <1>2, <2>1
  <2>3. r[k + Len(s) - 1] = q[k]
    BY <1>1, <2>2
  <2> QED
    BY <1>4, <2>2, <2>3 DEF Has
<1>5. Has(s, P) => Has(r, P)
  <2> SUFFICES ASSUME NEW i \in 1 .. Len(s), s[i].do \in P
               PROVE  Has(r, P)
    BY DEF Has
  <2>1. i \in 1 .. Len(r)
    BY <1>1, <1>2
  <2> QED
    BY <1>1, <2>1 DEF Has
<1> QED
  BY <1>3, <1>4, <1>5 DEF Has, r

-----------------------------------------------------------------------------
(* The order of what is to be done, in every step *)

Tracks == 0 .. 254
Inner == {"try", "command", "check"}
Target == Hts(block, sectors).track

Stack ==
    /\ todo \in Seq(Item)
    /\ Ordered(todo)
    /\ Aimed(todo, Target)
    /\ Has(todo, Inner) => motor
    /\ block \in 0 .. 3359 /\ sectors \in {0, 18, 21}
    /\ sectors = 0 => Has(todo, {"geo168"})

(***************************************************************************)
(* What has to wait for an earlier procedure is not there.                 *)
(***************************************************************************)
LEMMA NotBehind ==
    ASSUME NEW q \in Seq(Item), q # <<>>, Ordered(q), NEW P \in SUBSET Procedure,
           \A p \in P : ~MayPrecede(Head(q).do, p)
    PROVE  ~\E i \in 2 .. Len(q) : q[i].do \in P
<1> SUFFICES ASSUME NEW i \in 2 .. Len(q), q[i].do \in P PROVE FALSE
  OBVIOUS
<1>1. 1 \in 1 .. Len(q) /\ i \in 1 .. Len(q) /\ 1 < i /\ Head(q) = q[1]
  OBVIOUS
<1> QED
  BY <1>1 DEF Ordered

LEMMA StackThen ==
    ASSUME Stack, todo # <<>>, NEW s, StepsOf(s, Head(todo).do), Then(s),
           UNCHANGED <<block, sectors>>, Head(todo).do # "geo168",
           Aimed(s, Target),
           motor => motor' \/ Head(todo).do = "reset",
           Has(s, Inner) => motor',
           s # <<>> /\ Head(todo).do \in {"seek", "sought"} =>
               s[Len(s)].do \in {"seek", "sought"} /\ s[Len(s)].track = Head(todo).track
    PROVE  Stack'
<1>1. todo' = s \o Tail(todo) /\ s \in Seq(Item)
  BY DEF Then, StepsOf
<1>2. todo' \in Seq(Item) /\ Ordered(todo')
  BY <1>1, ReplacedOrdered DEF Stack
<1>3. Aimed(todo', Target)
  BY <1>1, ReplacedAimed DEF Stack
<1>4. Target' = Target
  BY DEF Target
<1>5. Has(todo', Inner) => motor'
  <2>1. Has(todo', Inner) => Has(s, Inner) \/ \E i \in 2 .. Len(todo) : todo[i].do \in Inner
    BY <1>1, ReplacedHas DEF Stack
  <2>2. (\E i \in 2 .. Len(todo) : todo[i].do \in Inner) => Has(todo, Inner)
    <3>1. 2 .. Len(todo) \subseteq 1 .. Len(todo)
      OBVIOUS
    <3> QED
      BY <3>1 DEF Has
  <2>3. Head(todo).do = "reset" => ~\E i \in 2 .. Len(todo) : todo[i].do \in Inner
    <3>1. Inner \in SUBSET Procedure /\ \A p \in Inner : ~MayPrecede("reset", p)
      BY DEF Inner, Procedure, MayPrecede, Moving, Steps
    <3> QED
      BY <3>1, NotBehind DEF Stack
  <2> QED
    BY <2>1, <2>2, <2>3 DEF Stack
<1>6. sectors = 0 => Has(todo', {"geo168"})
  BY <1>1, ReplacedHas DEF Stack
<1> QED
  BY <1>2, <1>3, <1>4, <1>5, <1>6 DEF Stack

LEMMA StackUnchanged ==
    Stack /\ UNCHANGED <<todo, block, sectors, motor>> => Stack'
  BY DEF Stack, Target

LEMMA DoItem == ASSUME NEW p \in Procedure PROVE Do(p) \in Item /\ Do(p).do = p
  BY DEF Do, Item
LEMMA SeekItem ==
    ASSUME NEW t \in Int PROVE Seek(t) \in Item /\ Seek(t).do = "seek" /\ Seek(t).track = t
  BY DEF Seek, Item, Procedure

\* Where h stands x may stand.
Takes(h, x) == \A p \in Procedure : MayPrecede(h, p) => MayPrecede(x.do, p)

LEMMA OneStep == ASSUME NEW h, NEW x \in Item, Takes(h, x) PROVE StepsOf(<<x>>, h)
  BY DEF StepsOf, Ordered, Takes

LEMMA TwoSteps ==
    ASSUME NEW h, NEW x \in Item, NEW y \in Item, Takes(h, x), Takes(h, y), MayPrecede(x.do, y.do)
    PROVE  StepsOf(<<x, y>>, h)
<1> DEFINE s == <<x, y>>
<1>1. s \in Seq(Item) /\ Len(s) = 2 /\ s[1] = x /\ s[2] = y
  OBVIOUS
<1> HIDE DEF s
<1>2. Ordered(s)
  BY <1>1 DEF Ordered
<1>3. \A i \in 1 .. Len(s), p \in Procedure : MayPrecede(h, p) => MayPrecede(s[i].do, p)
  BY <1>1 DEF Takes
<1> QED
  BY <1>1, <1>2, <1>3 DEF StepsOf, s

LEMMA ThreeSteps ==
    ASSUME NEW h, NEW x \in Item, NEW y \in Item, NEW z \in Item,
           Takes(h, x), Takes(h, y), Takes(h, z),
           MayPrecede(x.do, y.do), MayPrecede(x.do, z.do), MayPrecede(y.do, z.do)
    PROVE  StepsOf(<<x, y, z>>, h)
<1> DEFINE s == <<x, y, z>>
<1>1. s \in Seq(Item) /\ Len(s) = 3 /\ s[1] = x /\ s[2] = y /\ s[3] = z
  OBVIOUS
<1> HIDE DEF s
<1>2. Ordered(s)
  BY <1>1 DEF Ordered
<1>3. \A i \in 1 .. Len(s), p \in Procedure : MayPrecede(h, p) => MayPrecede(s[i].do, p)
  BY <1>1 DEF Takes
<1> QED
  BY <1>1, <1>2, <1>3 DEF StepsOf, s

LEMMA MovingTaken ==
    ASSUME NEW h, NEW x, x.do = "wait" \/ (x.do \in Moving /\ h # "wait") PROVE Takes(h, x)
  BY DEF Takes, MayPrecede, Moving, Steps
LEMMA RecalibrateTaken ==
    ASSUME NEW h, h \notin Moving, NEW x, x.do = "recalibrate" PROVE Takes(h, x)
  BY DEF Takes, MayPrecede, Moving, Steps
LEMMA AllTaken ==
    ASSUME NEW h, h \notin Steps, h # "reset", NEW x, x.do # "install" PROVE Takes(h, x)
  BY DEF Takes, MayPrecede, Moving, Steps

LEMMA Names ==
    /\ {"reset", "recalibrate", "wait", "rw", "try", "command", "check", "geo144"} \subseteq Procedure
    /\ {"wait", "seek", "sought"} \subseteq Moving
    /\ \A p \in {"rw", "try", "command", "check", "geo168", "geo144"} : p \notin Steps /\ p # "reset"
    /\ \A p \in {"reset", "recalibrate"} : p \notin Moving
    /\ "recalibrate" \in Steps /\ Moving \subseteq Steps
  BY DEF Procedure, Moving, Steps

\* The steps of the procedures.
LEMMA StepsNone == \A h \in Procedure : StepsOf(<<>>, h)
  BY DEF StepsOf, Ordered
LEMMA StepsReset == StepsOf(<<Do("wait"), Seek(1), Do("recalibrate")>>, "reset")
<1>1. /\ Do("wait") \in Item /\ Do("wait").do = "wait"
      /\ Seek(1) \in Item /\ Seek(1).do = "seek"
      /\ Do("recalibrate") \in Item /\ Do("recalibrate").do = "recalibrate"
  BY DoItem, SeekItem, Names
<1>2. Takes("reset", Do("wait")) /\ Takes("reset", Seek(1)) /\ Takes("reset", Do("recalibrate"))
  BY <1>1, MovingTaken, RecalibrateTaken, Names
<1>3. MayPrecede("wait", "seek") /\ MayPrecede("wait", "recalibrate") /\ MayPrecede("seek", "recalibrate")
  BY DEF MayPrecede, Moving
<1> QED
  BY <1>1, <1>2, <1>3, ThreeSteps
LEMMA StepsSeek ==
    ASSUME NEW t \in Int
    PROVE  StepsOf(<<Do("wait"), [do |-> "sought", track |-> t]>>, "seek")
<1> DEFINE y == [do |-> "sought", track |-> t]
<1>1. /\ Do("wait") \in Item /\ Do("wait").do = "wait"
      /\ y \in Item /\ y.do = "sought"
  BY DoItem, Names DEF Item, Procedure
<1> HIDE DEF y
<1>2. Takes("seek", Do("wait")) /\ Takes("seek", y)
  BY <1>1, MovingTaken, Names
<1>3. MayPrecede("wait", "sought")
  BY DEF MayPrecede
<1>4. StepsOf(<<Do("wait"), y>>, "seek")
  BY <1>1, <1>2, <1>3, TwoSteps
<1> QED
  BY <1>4 DEF y
LEMMA StepsRecalibrate == StepsOf(<<Do("wait")>>, "recalibrate")
  BY OneStep, DoItem, MovingTaken, Names
LEMMA StepsRw == StepsOf(<<Do("try")>>, "rw")
  BY OneStep, DoItem, AllTaken, Names
LEMMA StepsGeo144 == StepsOf(<<Do("rw")>>, "geo144")
  BY OneStep, DoItem, AllTaken, Names
LEMMA StepsAfterChange == StepsOf(<<Seek(1), Do("recalibrate"), Do("rw")>>, "try")
<1>1. /\ Seek(1) \in Item /\ Seek(1).do = "seek"
      /\ Do("recalibrate") \in Item /\ Do("recalibrate").do = "recalibrate"
      /\ Do("rw") \in Item /\ Do("rw").do = "rw"
  BY DoItem, SeekItem, Names
<1>2. \A x : x.do # "install" => Takes("try", x)
  BY AllTaken, Names
<1>3. MayPrecede("seek", "recalibrate") /\ MayPrecede("seek", "rw") /\ MayPrecede("recalibrate", "rw")
  BY DEF MayPrecede, Moving
<1> QED
  BY <1>1, <1>2, <1>3, ThreeSteps
LEMMA StepsTry == ASSUME NEW t \in Int PROVE StepsOf(<<Seek(t), Do("command")>>, "try")
<1>1. /\ Seek(t) \in Item /\ Seek(t).do = "seek"
      /\ Do("command") \in Item /\ Do("command").do = "command"
  BY DoItem, SeekItem, Names
<1>2. \A x : x.do # "install" => Takes("try", x)
  BY AllTaken, Names
<1>3. MayPrecede("seek", "command")
  BY DEF MayPrecede, Moving
<1> QED
  BY <1>1, <1>2, <1>3, TwoSteps
LEMMA StepsCommand == StepsOf(<<Do("wait"), Do("check")>>, "command")
<1>1. /\ Do("wait") \in Item /\ Do("wait").do = "wait"
      /\ Do("check") \in Item /\ Do("check").do = "check"
  BY DoItem, Names
<1>2. \A x : x.do # "install" => Takes("command", x)
  BY AllTaken, Names
<1>3. MayPrecede("wait", "check")
  BY DEF MayPrecede, Moving, Steps
<1> QED
  BY <1>1, <1>2, <1>3, TwoSteps
LEMMA StepsAgain == StepsOf(<<Do("recalibrate"), Do("try")>>, "check")
<1>1. /\ Do("recalibrate") \in Item /\ Do("recalibrate").do = "recalibrate"
      /\ Do("try") \in Item /\ Do("try").do = "try"
  BY DoItem, Names
<1>2. \A x : x.do # "install" => Takes("check", x)
  BY AllTaken, Names
<1>3. MayPrecede("recalibrate", "try")
  BY DEF MayPrecede, Moving, Steps
<1> QED
  BY <1>1, <1>2, <1>3, TwoSteps
LEMMA StepsGeo168 == StepsOf(<<Do("reset"), Do("rw"), Do("geo144")>>, "geo168")
<1>1. /\ Do("reset") \in Item /\ Do("reset").do = "reset"
      /\ Do("rw") \in Item /\ Do("rw").do = "rw"
      /\ Do("geo144") \in Item /\ Do("geo144").do = "geo144"
  BY DoItem, Names
<1>2. \A x : x.do # "install" => Takes("geo168", x)
  BY AllTaken, Names
<1>3. MayPrecede("reset", "rw") /\ MayPrecede("reset", "geo144") /\ MayPrecede("rw", "geo144")
  BY DEF MayPrecede
<1> QED
  BY <1>1, <1>2, <1>3, ThreeSteps

LEMMA TargetIsTrack == Stack /\ sectors # 0 => Target \in Tracks
  BY DEF Stack, Target, Hts, Tracks

LEMMA NoneInOne == ASSUME NEW P, NEW x, x.do \notin P PROVE ~Has(<<x>>, P)
  BY DEF Has
LEMMA NoneInTwo == ASSUME NEW P, NEW x, NEW y, x.do \notin P, y.do \notin P PROVE ~Has(<<x, y>>, P)
<1> DEFINE s == <<x, y>>
<1>1. Len(s) = 2 /\ s[1] = x /\ s[2] = y
  OBVIOUS
<1> HIDE DEF s
<1>2. ~Has(s, P)
  BY <1>1 DEF Has
<1> QED
  BY <1>2 DEF s
LEMMA NoneInThree ==
    ASSUME NEW P, NEW x, NEW y, NEW z, x.do \notin P, y.do \notin P, z.do \notin P
    PROVE  ~Has(<<x, y, z>>, P)
<1> DEFINE s == <<x, y, z>>
<1>1. Len(s) = 3 /\ s[1] = x /\ s[2] = y /\ s[3] = z
  OBVIOUS
<1> HIDE DEF s
<1>2. ~Has(s, P)
  BY <1>1 DEF Has
<1> QED
  BY <1>2 DEF s
LEMMA NoneInNone == ASSUME NEW P PROVE ~Has(<<>>, P)
  BY DEF Has

\* Where nothing is read nothing is aimed at.
LEMMA NothingToAim == ASSUME NEW s, ~Has(s, {"command"}), NEW t, Len(s) \in Nat PROVE Aimed(s, t)
  BY DEF Has, Aimed

(***************************************************************************)
(* The same for steps that do not begin or end a try and that do not       *)
(* return from a seek.                                                     *)
(***************************************************************************)
LEMMA StackOuter ==
    ASSUME Stack, todo # <<>>, NEW s, StepsOf(s, Head(todo).do), Then(s),
           UNCHANGED <<block, sectors>>, motor => motor' \/ Head(todo).do = "reset",
           Head(todo).do \notin {"seek", "sought"} \/ s = <<>>, Head(todo).do # "geo168",
           ~Has(s, Inner)
    PROVE  Stack'
<1>1. s \in Seq(Item) /\ ~Has(s, {"command"})
  BY DEF StepsOf, Has, Inner
<1>2. Aimed(s, Target)
  BY <1>1, NothingToAim
<1> QED
  BY <1>2, StackThen

LEMMA StackInit == Init => Stack
<1> SUFFICES ASSUME Init PROVE Stack
  OBVIOUS
<1> DEFINE x == Do("reset")
<1> DEFINE y == Do("geo168")
<1> DEFINE z == Do("install")
<1>1. /\ x \in Item /\ x.do = "reset"
      /\ y \in Item /\ y.do = "geo168"
      /\ z \in Item /\ z.do = "install"
  BY DoItem DEF Procedure
<1>2. todo = <<x, y, z>> /\ block = 0 /\ sectors = 0
  BY DEF Init
<1> HIDE DEF x, y, z
<1>3. todo \in Seq(Item) /\ Len(todo) = 3 /\ todo[1] = x /\ todo[2] = y /\ todo[3] = z
  BY <1>1, <1>2
<1>4. Ordered(todo)
  BY <1>1, <1>3 DEF Ordered, MayPrecede
<1>5. ~Has(todo, Inner) /\ ~Has(todo, {"command"}) /\ Has(todo, {"geo168"})
  BY <1>1, <1>3 DEF Has, Inner
<1>6. Aimed(todo, Target)
  BY <1>3, <1>5, NothingToAim
<1> QED
  BY <1>2, <1>3, <1>4, <1>5, <1>6 DEF Stack

LEMMA StackReset == Stack /\ FloppyReset => Stack'
<1> SUFFICES ASSUME Stack, FloppyReset PROVE Stack'
  OBVIOUS
<1> DEFINE s == <<Do("wait"), Seek(1), Do("recalibrate")>>
<1>1. todo # <<>> /\ Head(todo).do = "reset" /\ Then(s) /\ UNCHANGED <<block, sectors>>
  BY DEF FloppyReset, Next1
<1>2. Do("wait").do = "wait" /\ Seek(1).do = "seek" /\ Do("recalibrate").do = "recalibrate"
  BY DoItem, SeekItem, Names
<1>3. ~Has(s, Inner)
  BY <1>2, NoneInThree DEF Inner
<1> QED
  BY <1>1, <1>3, StepsReset, StackOuter

\* A procedure that only returns.
LEMMA StackReturns ==
    ASSUME Stack, todo # <<>>, todo' = Tail(todo), Head(todo).do # "geo168",
           UNCHANGED <<block, sectors, motor>>
    PROVE  Stack'
<1>1. Head(todo).do \in Procedure
  <2>1. Head(todo) \in Item
    BY DEF Stack
  <2> QED
    BY <2>1 DEF Item
<1>2. Then(<<>>)
  BY DEF Then, Stack
<1> QED
  BY <1>1, <1>2, StepsNone, NoneInNone, StackOuter

LEMMA StackSeek == Stack /\ FloppySeek => Stack'
<1> SUFFICES ASSUME Stack, FloppySeek PROVE Stack'
  OBVIOUS
<1> DEFINE t == Head(todo).track
<1> DEFINE y == [do |-> "sought", track |-> t]
<1> DEFINE s == <<Do("wait"), y>>
<1>1. todo # <<>> /\ Head(todo).do = "seek" /\ Then(s) /\ UNCHANGED <<block, sectors>> /\ motor' = TRUE
  BY DEF FloppySeek, Next1
<1>2. t \in Int
  <2>1. Head(todo) \in Item
    BY <1>1 DEF Stack
  <2> QED
    BY <2>1 DEF Item
<1>3. StepsOf(s, "seek")
  BY <1>2, StepsSeek
<1>4. Do("wait").do = "wait" /\ y.do = "sought" /\ y.track = t
  BY DoItem, Names
<1> HIDE DEF y
<1>5. Len(s) = 2 /\ s[2] = y
  OBVIOUS
<1>6. ~Has(s, Inner) /\ ~Has(s, {"command"})
  BY <1>4, NoneInTwo DEF Inner
<1>7. Aimed(s, Target)
  BY <1>5, <1>6, NothingToAim
<1> HIDE DEF s
<1>8. Head(todo).do # "geo168" /\ s[Len(s)].do \in {"seek", "sought"} /\ s[Len(s)].track = Head(todo).track
  BY <1>1, <1>4, <1>5
<1> QED
  BY <1>1, <1>3, <1>6, <1>7, <1>8, StackThen

LEMMA StackRecalibrate == Stack /\ FloppyRecalibrate => Stack'
<1> SUFFICES ASSUME Stack, FloppyRecalibrate PROVE Stack'
  OBVIOUS
<1> DEFINE s == <<Do("wait")>>
<1>1. /\ todo # <<>> /\ Head(todo).do = "recalibrate" /\ Then(s)
      /\ UNCHANGED <<block, sectors>> /\ motor' = TRUE
  BY DEF FloppyRecalibrate, Next1
<1>2. ~Has(s, Inner)
  BY DoItem, Names, NoneInOne DEF Inner
<1> QED
  BY <1>1, <1>2, StepsRecalibrate, StackOuter

\* floppy_rw() starts the motor before it tries.
LEMMA StackRw == Stack /\ FloppyRw => Stack'
<1> SUFFICES ASSUME Stack, FloppyRw PROVE Stack'
  OBVIOUS
<1> DEFINE s == <<Do("try")>>
<1>1. todo # <<>> /\ Head(todo).do = "rw" /\ Then(s) /\ UNCHANGED <<block, sectors>> /\ motor' = TRUE
  BY DEF FloppyRw, Next1
<1>2. Len(s) = 1
  OBVIOUS
<1>3. ~Has(s, {"command"})
  BY DoItem, Names, NoneInOne
<1>4. Aimed(s, Target)
  BY <1>2, <1>3, NothingToAim
<1> QED
  BY <1>1, <1>4, StepsRw, StackThen

LEMMA StackAfterChange == Stack /\ TryAfterChange => Stack'
<1> SUFFICES ASSUME Stack, TryAfterChange PROVE Stack'
  OBVIOUS
<1> DEFINE s == <<Seek(1), Do("recalibrate"), Do("rw")>>
<1>1. todo # <<>> /\ Head(todo).do = "try" /\ Then(s) /\ UNCHANGED <<block, sectors, motor>>
  BY DEF TryAfterChange, Next1
<1>2. ~Has(s, Inner)
  BY DoItem, SeekItem, Names, NoneInThree DEF Inner
<1> QED
  BY <1>1, <1>2, StepsAfterChange, StackOuter

\* As long as there is something to try the geometry is not 0.
LEMMA TriedWithGeometry ==
    Stack /\ todo # <<>> /\ Head(todo).do \in {"try", "command", "rw"} => sectors # 0 /\ Target \in Tracks
<1> SUFFICES ASSUME Stack, todo # <<>>, Head(todo).do \in {"try", "command", "rw"}
             PROVE  sectors # 0
  BY TargetIsTrack
<1>1. ~\E i \in 2 .. Len(todo) : todo[i].do \in {"geo168"}
  <2>1. \A p \in {"geo168"} : ~MayPrecede(Head(todo).do, p)
    BY DEF MayPrecede, Steps, Moving
  <2>2. todo \in Seq(Item) /\ Ordered(todo) /\ {"geo168"} \in SUBSET Procedure
    BY DEF Stack, Procedure
  <2> QED
    BY <2>1, <2>2, NotBehind
<1>2. Head(todo) = todo[1] /\ Len(todo) \in Nat
  BY DEF Stack
<1>3. ~Has(todo, {"geo168"})
  BY <1>1, <1>2 DEF Has
<1> QED
  BY <1>3 DEF Stack

LEMMA InnerRuns == Stack /\ todo # <<>> /\ Head(todo).do \in Inner => motor
<1> SUFFICES ASSUME Stack, todo # <<>>, Head(todo).do \in Inner PROVE motor
  OBVIOUS
<1>1. Head(todo) = todo[1] /\ 1 \in 1 .. Len(todo)
  BY DEF Stack
<1> QED
  BY <1>1 DEF Stack, Has

LEMMA StackTry == Stack /\ Try => Stack'
<1> SUFFICES ASSUME Stack, Try PROVE Stack'
  OBVIOUS
<1> DEFINE s == <<Seek(Target), Do("command")>>
<1>1. todo # <<>> /\ Head(todo).do = "try" /\ Then(s) /\ UNCHANGED <<block, sectors, motor>>
  BY DEF Try, Next1, Target
<1>2. Target \in Int /\ motor
  <2>1. Target \in Tracks
    BY <1>1, TriedWithGeometry
  <2>2. motor
    BY <1>1, InnerRuns DEF Inner
  <2> QED
    BY <2>1, <2>2 DEF Tracks
<1>3. StepsOf(s, "try")
  BY <1>2, StepsTry
<1>4. /\ Len(s) = 2 /\ s[1].do = "seek" /\ s[1].track = Target
  BY <1>2, SeekItem
<1> HIDE DEF s
<1>5. Aimed(s, Target)
  BY <1>4 DEF Aimed
<1> QED
  BY <1>1, <1>2, <1>3, <1>5, StackThen

LEMMA StackCommand == Stack /\ Command => Stack'
<1> SUFFICES ASSUME Stack, Command PROVE Stack'
  OBVIOUS
<1> DEFINE s == <<Do("wait"), Do("check")>>
<1>1. todo # <<>> /\ Head(todo).do = "command" /\ Then(s) /\ UNCHANGED <<block, sectors, motor>>
  BY DEF Command, Next1
<1>2. motor
  BY <1>1, InnerRuns DEF Inner
<1>3. Len(s) = 2
  OBVIOUS
<1>4. ~Has(s, {"command"})
  BY DoItem, Names, NoneInTwo
<1>5. Aimed(s, Target)
  BY <1>3, <1>4, NothingToAim
<1> QED
  BY <1>1, <1>2, <1>5, StepsCommand, StackThen

LEMMA StackAgain == Stack /\ TryAgain => Stack'
<1> SUFFICES ASSUME Stack, TryAgain PROVE Stack'
  OBVIOUS
<1> DEFINE s == <<Do("recalibrate"), Do("try")>>
<1>1. todo # <<>> /\ Head(todo).do = "check" /\ Then(s) /\ UNCHANGED <<block, sectors, motor>>
  BY DEF TryAgain, Next1
<1>2. motor
  BY <1>1, InnerRuns DEF Inner
<1>3. Len(s) = 2
  OBVIOUS
<1>4. ~Has(s, {"command"})
  BY DoItem, Names, NoneInTwo
<1>5. Aimed(s, Target)
  BY <1>3, <1>4, NothingToAim
<1> QED
  BY <1>1, <1>2, <1>5, StepsAgain, StackThen

(***************************************************************************)
(* The geometry and the block change only when no try is under way.        *)
(***************************************************************************)
LEMMA StackGeometry ==
    ASSUME Stack, todo # <<>>, Head(todo).do \in {"geo168", "geo144"}, NEW s,
           StepsOf(s, Head(todo).do), Then(s), ~Has(s, Inner),
           block' \in {17, 20}, sectors' \in {18, 21}
    PROVE  Stack'
<1>1. todo' = s \o Tail(todo) /\ s \in Seq(Item)
  BY DEF Then, StepsOf
<1>2. todo' \in Seq(Item) /\ Ordered(todo')
  BY <1>1, ReplacedOrdered DEF Stack
<1>3. Inner \in SUBSET Procedure /\ \A p \in Inner : ~MayPrecede(Head(todo).do, p)
  BY DEF Inner, Procedure, MayPrecede, Moving, Steps
<1>4. ~Has(todo', Inner)
  <2>1. ~\E i \in 2 .. Len(todo) : todo[i].do \in Inner
    BY <1>3, NotBehind DEF Stack
  <2> QED
    BY <1>1, <2>1, ReplacedHas DEF Stack
<1>5. ~Has(todo', {"command"}) /\ Len(todo') \in Nat
  BY <1>2, <1>4 DEF Has, Inner
<1>6. Aimed(todo', Target')
  BY <1>5, NothingToAim
<1> QED
  BY <1>2, <1>4, <1>6 DEF Stack

LEMMA StackGeo168 == Stack /\ Geo168 => Stack'
<1> SUFFICES ASSUME Stack, Geo168 PROVE Stack'
  OBVIOUS
<1> DEFINE s == <<Do("reset"), Do("rw"), Do("geo144")>>
<1>1. /\ todo # <<>> /\ Head(todo).do = "geo168" /\ Then(s)
      /\ block' = 20 /\ sectors' = 21
  BY DEF Geo168, Next1
<1>2. ~Has(s, Inner)
  BY DoItem, Names, NoneInThree DEF Inner
<1> QED
  BY <1>1, <1>2, StepsGeo168, StackGeometry

LEMMA StackGeo144 == Stack /\ Geo144 => Stack'
<1> SUFFICES ASSUME Stack, Geo144 PROVE Stack'
  OBVIOUS
<1> DEFINE s == <<Do("rw")>>
<1>1. /\ todo # <<>> /\ Head(todo).do = "geo144" /\ Then(s)
      /\ block' = 17 /\ sectors' = 18
  BY DEF Geo144, Next1
<1>2. ~Has(s, Inner)
  BY DoItem, Names, NoneInOne DEF Inner
<1> QED
  BY <1>1, <1>2, StepsGeo144, StackGeometry

LEMMA StackIoctl == ASSUME Stack, NEW b \in Block, FloppyIoctl(b) PROVE Stack'
<1>1. todo = <<>> /\ todo' = <<Do("rw")>> /\ block' = b /\ UNCHANGED <<sectors, motor>>
  BY DEF FloppyIoctl
<1>2. b \in 0 .. 3359 /\ sectors' \in {18, 21}
  BY <1>1, BlockAssumption, NoneInNone DEF Stack
<1>3. Do("rw") \in Item /\ Do("rw").do = "rw"
  BY DoItem, Names
<1>4. todo' \in Seq(Item) /\ Len(todo') = 1
  BY <1>1, <1>3
<1>5. ~Has(todo', Inner) /\ ~Has(todo', {"command"})
  BY <1>1, <1>3, NoneInOne DEF Inner
<1>6. Ordered(todo') /\ Aimed(todo', Target')
  BY <1>4 DEF Ordered, Aimed
<1> QED
  BY <1>1, <1>2, <1>4, <1>5, <1>6 DEF Stack

LEMMA StackWait == Stack /\ FloppyWait => Stack'
<1> SUFFICES ASSUME Stack, FloppyWait PROVE Stack'
  OBVIOUS
<1>1. todo # <<>> /\ Head(todo).do = "wait" /\ Then(<<>>) /\ UNCHANGED <<block, sectors, motor>>
  BY DEF FloppyWait, Next1, Returns
<1>2. todo' = Tail(todo)
  BY <1>1 DEF Then, Stack
<1> QED
  BY <1>1, <1>2, StackReturns

\* The procedures that only look at what there is.
Looks ==
    SeekThere \/ SeekChecked \/ GiveUp \/ CannotSeek \/ Worked \/ Geo168Is \/ Install

LEMMA StackLooks == Stack /\ Looks => Stack'
<1> SUFFICES ASSUME Stack, Looks PROVE Stack'
  OBVIOUS
<1>1. todo # <<>> /\ Head(todo).do # "geo168" /\ Then(<<>>) /\ UNCHANGED <<block, sectors, motor>>
  BY DEF Looks, SeekThere, SeekChecked, GiveUp, CannotSeek, Worked, Geo168Is, Install, Next1, Returns
<1>2. todo' = Tail(todo)
  BY <1>1 DEF Then, Stack
<1> QED
  BY <1>1, <1>2, StackReturns

\* What is not the driver.
Around == SeekEnds \/ ReadEnds \/ Irq \/ TakeOut \/ PutIn \/ UNCHANGED vars

LEMMA StackAround == Stack /\ Around => Stack'
  BY StackUnchanged DEF Around, SeekEnds, ReadEnds, Irq, TakeOut, PutIn, vars, driverVars

LEMMA StackStep == Stack /\ [Next]_vars => Stack'
<1> SUFFICES ASSUME Stack, [Next]_vars PROVE Stack'
  OBVIOUS
<1>1. CASE FloppyReset \/ FloppySeek \/ FloppyRecalibrate \/ FloppyRw
  BY <1>1, StackReset, StackSeek, StackRecalibrate, StackRw
<1>2. CASE TryAfterChange \/ Try \/ Command \/ TryAgain
  BY <1>2, StackAfterChange, StackTry, StackCommand, StackAgain
<1>3. CASE Geo168 \/ Geo144 \/ FloppyWait \/ Looks \/ Around
  BY <1>3, StackGeo168, StackGeo144, StackWait, StackLooks, StackAround
<1>4. CASE \E b \in Block : FloppyIoctl(b)
  BY <1>4, StackIoctl
<1> QED
  BY <1>1, <1>2, <1>3, <1>4 DEF Next, Driver, Fdc, Looks, Around

-----------------------------------------------------------------------------
(* Where the head is *)

\* A recalibration is still to come, or under way.
Recalibrates ==
    \/ Has(todo, {"reset", "recalibrate"})
    \/ phase = "seeking" /\ op.head = 1

Waits == todo # <<>> /\ Head(todo).do = "wait"

(***************************************************************************)
(* While nothing is late: only while the driver waits does the controller  *)
(* seek; the controller knows where the head is, except until it is        *)
(* recalibrated after a reset; the driver knows what the controller does,  *)
(* or that it knows nothing; and a read that is about to be given to the   *)
(* controller, or has been, is of the track the head is on.                *)
(***************************************************************************)
HeadKnown ==
    /\ head \in Int /\ pcn \in Int
    /\ phase \in {"ready", "seeking", "sought", "reading", "result", "reset"}
    /\ ~Waits => phase \in {"ready", "reading", "result"}
    /\ phase = "seeking" => op.track \in Int /\ (op.head = 1 => op.track = 0)
    /\ Recalibrates \/ head = pcn
    /\ phase \in {"reading", "result"} => head = pcn
    /\ ~Waits => track \in {pcn, NoTrack}
    /\ todo # <<>> /\ Head(todo).do = "command" /\ ret => head = Target
    /\ phase = "reading" => head = op.track /\ motor

HeadInv == Stack /\ OwnInterrupt /\ (late = 0 => HeadKnown)

LEMMA HeadInit == Init => HeadInv
<1> SUFFICES ASSUME Init PROVE HeadInv
  OBVIOUS
<1>1. todo = <<Do("reset"), Do("geo168"), Do("install")>> /\ Len(todo) = 3 /\ Head(todo) = Do("reset")
      /\ todo[1] = Do("reset")
  BY DEF Init
<1>2. Head(todo).do = "reset" /\ Has(todo, {"reset", "recalibrate"}) /\ todo # <<>>
  BY <1>1, DoItem, Names DEF Has
<1>3. HeadKnown
  BY <1>2 DEF Init, HeadKnown, Recalibrates, Waits
<1> QED
  BY <1>3, StackInit, OwnInit DEF HeadInv

LEMMA CommandReady ==
    ASSUME Stack, NEW i \in 1 .. 2, i <= Len(todo), todo[i].do = "command",
           i = 2 => todo[1].do \in {"seek", "sought"}
    PROVE  ~Has(todo, {"reset", "recalibrate"})
<1> SUFFICES ASSUME NEW k \in 1 .. Len(todo), todo[k].do \in {"reset", "recalibrate"}
             PROVE  FALSE
  BY DEF Has
<1>1. k # i /\ (i = 2 => k # 1)
  OBVIOUS
<1>2. Len(todo) \in Nat /\ i \in 1 .. Len(todo)
  BY DEF Stack
<1>3. CASE i < k
  <2>1. MayPrecede("command", todo[k].do)
    BY <1>2, <1>3 DEF Stack, Ordered
  <2> QED
    BY <2>1 DEF MayPrecede, Moving
<1> QED
  BY <1>1, <1>2, <1>3

\* A read comes next only after a seek to its track.
LEMMA AimedAt ==
    ASSUME Stack, Len(todo) >= 2, todo[2].do = "command"
    PROVE  /\ Head(todo).do \in {"seek", "sought"} /\ Head(todo).track = Target
           /\ Target \in Tracks
           /\ ~Has(todo, {"reset", "recalibrate"})
<1>1. Len(todo) \in Nat /\ Head(todo) = todo[1] /\ 2 \in 2 .. Len(todo)
  BY DEF Stack
<1>2. Head(todo).do \in {"seek", "sought"} /\ Head(todo).track = Target
  <2>1. todo[2 - 1].do \in {"seek", "sought"} /\ todo[2 - 1].track = Target
    BY <1>1 DEF Stack, Aimed
  <2> QED
    BY <1>1, <2>1
<1>3. ~Has(todo, {"geo168"})
  <2> SUFFICES ASSUME NEW k \in 1 .. Len(todo), todo[k].do = "geo168" PROVE FALSE
    BY DEF Has
  <2>1. k > 2
    BY <1>1, <1>2
  <2>2. MayPrecede("command", "geo168")
    BY <1>1, <2>1 DEF Stack, Ordered
  <2> QED
    BY <2>2 DEF MayPrecede, Steps, Moving
<1>4. Target \in Tracks
  BY <1>3, TargetIsTrack DEF Stack
<1> QED
  BY <1>1, <1>2, <1>4, CommandReady

LEMMA ReturnsTo ==
    ASSUME Stack, todo # <<>>, todo' = Tail(todo), todo' # <<>>
    PROVE  Len(todo) >= 2 /\ Head(todo') = todo[2]
  BY DEF Stack

\* The items that come first after a procedure has been replaced.
LEMMA FirstOfSteps ==
    ASSUME NEW q \in Seq(Item), q # <<>>, NEW s \in Seq(Item), s # <<>>
    PROVE  s \o Tail(q) # <<>> /\ Head(s \o Tail(q)) = s[1]
<1> DEFINE r == s \o Tail(q)
<1>1. /\ r \in Seq(Item)
      /\ Len(r) = Len(s) + Len(q) - 1
      /\ \A i \in 1 .. Len(s) : r[i] = s[i]
  BY Replaced
<1>2. Len(s) \in Nat /\ Len(s) >= 1 /\ Len(q) \in Nat /\ Len(q) >= 1
  OBVIOUS
<1> HIDE DEF r
<1>3. r # <<>> /\ Head(r) = r[1] /\ 1 \in 1 .. Len(s)
  BY <1>1, <1>2
<1> QED
  BY <1>1, <1>3 DEF r

(***************************************************************************)
(* Steps that neither command the controller nor wait for it.              *)
(***************************************************************************)
LEMMA Quiet ==
    ASSUME Stack, HeadKnown, todo # <<>>, NEW s \in Seq(Item), todo' = s \o Tail(todo),
           Head(todo).do \notin {"reset", "recalibrate", "wait"},
           UNCHANGED <<phase, op, pcn, track, head>>, motor => motor',
           todo' # <<>> /\ Head(todo').do = "command" /\ ret' => head = Target'
    PROVE  HeadKnown'
<1>1. ~Waits
  BY DEF Waits
<1>2. Has(todo, {"reset", "recalibrate"}) => Has(todo', {"reset", "recalibrate"})
  <2>1. todo \in Seq(Item) /\ Head(todo).do \notin {"reset", "recalibrate"}
    BY DEF Stack
  <2>2. Has(todo, {"reset", "recalibrate"}) => Has(s \o Tail(todo), {"reset", "recalibrate"})
    BY <2>1, ReplacedHas
  <2> QED
    BY <2>2
<1>3. Recalibrates' \/ head' = pcn'
  BY <1>2 DEF HeadKnown, Recalibrates
<1> QED
  BY <1>1, <1>3 DEF HeadKnown

\* No read comes next.
LEMMA QuietSteps ==
    ASSUME Stack, HeadKnown, todo # <<>>, NEW s \in Seq(Item), Then(s),
           Head(todo).do \notin {"reset", "recalibrate", "wait"},
           UNCHANGED <<phase, op, pcn, track, head>>, motor => motor',
           IF s = <<>> THEN Head(todo).do \notin {"seek", "sought"} ELSE s[1].do # "command"
    PROVE  HeadKnown'
<1>1. todo' = s \o Tail(todo)
  BY DEF Then
<1>2. ~(todo' # <<>> /\ Head(todo').do = "command")
  <2>1. CASE s = <<>>
    <3>1. todo' = Tail(todo)
      BY <1>1, <2>1 DEF Stack
    <3> QED
      BY <2>1, <3>1, ReturnsTo, AimedAt
  <2>2. CASE s # <<>>
    BY <1>1, <2>2, FirstOfSteps DEF Stack
  <2> QED
    BY <2>1, <2>2
<1> QED
  BY <1>1, <1>2, Quiet

\* The procedures that look return to no read, except from a seek.
LEMMA HeadLooks ==
    ASSUME Stack, HeadKnown, GiveUp \/ CannotSeek \/ Worked \/ Geo168Is \/ Install PROVE HeadKnown'
<1>1. /\ todo # <<>> /\ Then(<<>>) /\ UNCHANGED <<phase, op, pcn, track, head, motor>>
      /\ Head(todo).do \in {"try", "command", "check", "geo144", "install"}
  BY DEF GiveUp, CannotSeek, Worked, Geo168Is, Install, Next1, Returns, fdcVars, driveVars
<1>2. <<>> \in Seq(Item)
  OBVIOUS
<1> QED
  BY <1>1, <1>2, QuietSteps

LEMMA HeadCalls ==
    ASSUME Stack, HeadKnown,
           FloppyRw \/ TryAfterChange \/ Try \/ TryAgain \/ Geo168 \/ Geo144
    PROVE  HeadKnown'
<1>1. CASE FloppyRw
  <2>1. /\ todo # <<>> /\ Then(<<Do("try")>>) /\ UNCHANGED <<phase, op, pcn, track, head>>
        /\ motor' = TRUE /\ Head(todo).do = "rw"
    BY <1>1 DEF FloppyRw, Next1, fdcVars, driveVars
  <2>2. Do("try") \in Item /\ Do("try").do = "try"
    BY DoItem, Names
  <2>3. <<Do("try")>> \in Seq(Item) /\ <<Do("try")>> # <<>> /\ <<Do("try")>>[1].do = "try"
    BY <2>2
  <2> QED
    BY <2>1, <2>3, QuietSteps
<1>2. CASE TryAfterChange
  <2> DEFINE s == <<Seek(1), Do("recalibrate"), Do("rw")>>
  <2>1. /\ todo # <<>> /\ Then(s) /\ UNCHANGED <<phase, op, pcn, track, head, motor>>
        /\ Head(todo).do = "try"
    BY <1>2 DEF TryAfterChange, Next1, fdcVars, driveVars
  <2>2. s \in Seq(Item) /\ s # <<>> /\ s[1].do = "seek"
    BY StepsAfterChange, SeekItem DEF StepsOf
  <2> QED
    BY <2>1, <2>2, QuietSteps
<1>3. CASE Try
  <2> DEFINE s == <<Seek(Target), Do("command")>>
  <2>1. /\ todo # <<>> /\ Then(s) /\ UNCHANGED <<phase, op, pcn, track, head, motor>>
        /\ Head(todo).do = "try"
    BY <1>3 DEF Try, Next1, Target, fdcVars, driveVars
  <2>2. Target \in Int
    <3>1. Target \in Tracks
      BY <2>1, TriedWithGeometry
    <3> QED
      BY <3>1 DEF Tracks
  <2>3. s \in Seq(Item) /\ s # <<>> /\ s[1].do = "seek"
    BY <2>2, StepsTry, SeekItem DEF StepsOf
  <2> QED
    BY <2>1, <2>3, QuietSteps
<1>4. CASE TryAgain
  <2> DEFINE s == <<Do("recalibrate"), Do("try")>>
  <2>1. /\ todo # <<>> /\ Then(s) /\ UNCHANGED <<phase, op, pcn, track, head, motor>>
        /\ Head(todo).do = "check"
    BY <1>4 DEF TryAgain, Next1, fdcVars, driveVars
  <2>2. s \in Seq(Item) /\ s # <<>> /\ s[1].do = "recalibrate"
    BY StepsAgain, DoItem, Names DEF StepsOf
  <2> QED
    BY <2>1, <2>2, QuietSteps
<1>5. CASE Geo168
  <2> DEFINE s == <<Do("reset"), Do("rw"), Do("geo144")>>
  <2>1. /\ todo # <<>> /\ Then(s) /\ UNCHANGED <<phase, op, pcn, track, head, motor>>
        /\ Head(todo).do = "geo168"
    BY <1>5 DEF Geo168, Next1, fdcVars, driveVars
  <2>2. s \in Seq(Item) /\ s # <<>> /\ s[1].do = "reset"
    BY StepsGeo168, DoItem, Names DEF StepsOf
  <2> QED
    BY <2>1, <2>2, QuietSteps
<1>6. CASE Geo144
  <2> DEFINE s == <<Do("rw")>>
  <2>1. /\ todo # <<>> /\ Then(s) /\ UNCHANGED <<phase, op, pcn, track, head, motor>>
        /\ Head(todo).do = "geo144"
    BY <1>6 DEF Geo144, Next1, fdcVars, driveVars
  <2>2. s \in Seq(Item) /\ s # <<>> /\ s[1].do = "rw"
    BY StepsGeo144, DoItem, Names DEF StepsOf
  <2> QED
    BY <2>1, <2>2, QuietSteps
<1> QED
  BY <1>1, <1>2, <1>3, <1>4, <1>5, <1>6

(***************************************************************************)
(* A seek returns TRUE only with the head on the track.                    *)
(***************************************************************************)
LEMMA HeadReturns == ASSUME Stack, HeadKnown, SeekThere \/ SeekChecked PROVE HeadKnown'
<1>1. /\ todo # <<>> /\ Then(<<>>) /\ UNCHANGED <<phase, op, pcn, track, head, motor, block, sectors>>
      /\ Head(todo).do \in {"seek", "sought"}
      /\ ret' => track = Head(todo).track
  BY DEF SeekThere, SeekChecked, Sought, Next1, Returns, fdcVars, driveVars
<1>2. todo' = <<>> \o Tail(todo) /\ todo' = Tail(todo) /\ <<>> \in Seq(Item)
  BY <1>1 DEF Then, Stack
<1>3. Target' = Target
  BY <1>1 DEF Target
<1>4. ASSUME todo' # <<>>, Head(todo').do = "command", ret' PROVE head = Target'
  <2>1. Head(todo).track = Target /\ Target \in Tracks /\ ~Has(todo, {"reset", "recalibrate"})
    BY <1>1, <1>2, <1>4, ReturnsTo, AimedAt
  <2>2. ~Waits
    BY <1>1 DEF Waits
  <2>3. phase # "seeking" /\ track \in {pcn, NoTrack}
    BY <2>2 DEF HeadKnown
  <2>4. track = pcn
    BY <1>1, <1>4, <2>1, <2>3 DEF Tracks, NoTrack
  <2>5. head = pcn
    BY <2>1, <2>3 DEF HeadKnown, Recalibrates
  <2> QED
    BY <1>1, <1>3, <1>4, <2>1, <2>4, <2>5
<1> QED
  BY <1>1, <1>2, <1>4, Quiet

(***************************************************************************)
(* Commands: what comes next is to wait.                                   *)
(***************************************************************************)
LEMMA HeadReset == ASSUME Stack, HeadKnown, FloppyReset PROVE HeadKnown'
<1> DEFINE s == <<Do("wait"), Seek(1), Do("recalibrate")>>
<1>1. /\ todo # <<>> /\ todo' = s \o Tail(todo)
      /\ phase' = "reset" /\ pcn' = 0 /\ UNCHANGED head
  BY DEF FloppyReset, Then, driveVars
<1>2. s \in Seq(Item) /\ s # <<>> /\ s[1].do = "wait" /\ s[3].do = "recalibrate" /\ Len(s) = 3
  BY StepsReset, DoItem, Names DEF StepsOf
<1> HIDE DEF s
<1>3. Has(s, {"reset", "recalibrate"})
  BY <1>2 DEF Has
<1>4. Has(todo', {"reset", "recalibrate"})
  BY <1>1, <1>2, <1>3, ReplacedHas DEF Stack
<1>5. todo' # <<>> /\ Head(todo').do = "wait"
  BY <1>1, <1>2, FirstOfSteps DEF Stack
<1> QED
  BY <1>1, <1>4, <1>5 DEF HeadKnown, Recalibrates, Waits

LEMMA HeadSeek == ASSUME Stack, HeadKnown, FloppySeek PROVE HeadKnown'
<1> DEFINE t == Head(todo).track
<1> DEFINE s == <<Do("wait"), [do |-> "sought", track |-> t]>>
<1> DEFINE o == [Nothing EXCEPT !.track = t]
<1>1. /\ todo # <<>> /\ todo' = s \o Tail(todo) /\ Head(todo).do = "seek"
      /\ Send("seeking", o) /\ UNCHANGED <<pcn, head>> /\ motor' = TRUE
  BY DEF FloppySeek, Then, Next1, driveVars
<1>2. t \in Int
  <2>1. Head(todo) \in Item
    BY <1>1 DEF Stack
  <2> QED
    BY <2>1 DEF Item
<1>3. s \in Seq(Item)
  BY <1>2, StepsSeek DEF StepsOf
<1>4. s # <<>> /\ s[1].do = "wait"
  BY DoItem, Names
<1>5. o.track = t /\ o.head = 0
  BY DEF Nothing
<1> HIDE DEF s, o
<1>6. Has(todo, {"reset", "recalibrate"}) => Has(todo', {"reset", "recalibrate"})
  <2>1. todo \in Seq(Item) /\ todo # <<>> /\ Head(todo).do \notin {"reset", "recalibrate"}
    BY <1>1 DEF Stack
  <2>2. Has(todo, {"reset", "recalibrate"}) => Has(s \o Tail(todo), {"reset", "recalibrate"})
    BY <1>3, <2>1, ReplacedHas
  <2> QED
    BY <1>1, <2>2
<1>7. todo' # <<>> /\ Head(todo').do = "wait"
  BY <1>1, <1>3, <1>4, FirstOfSteps DEF Stack
<1>8. phase \in {"ready", "reading", "result"}
  BY <1>1 DEF HeadKnown, Waits
<1>9. Recalibrates' \/ head' = pcn'
  BY <1>1, <1>6, <1>8 DEF HeadKnown, Recalibrates
<1>10. (phase' = "seeking" /\ op' = o) \/ UNCHANGED <<phase, op>>
  BY <1>1 DEF Send
<1> QED
  BY <1>1, <1>2, <1>5, <1>7, <1>8, <1>9, <1>10 DEF HeadKnown, Waits

LEMMA HeadRecalibrate == ASSUME Stack, HeadKnown, FloppyRecalibrate PROVE HeadKnown'
<1> DEFINE s == <<Do("wait")>>
<1> DEFINE o == [Nothing EXCEPT !.head = 1]
<1>1. /\ todo # <<>> /\ todo' = s \o Tail(todo) /\ Head(todo).do = "recalibrate"
      /\ Send("seeking", o) /\ UNCHANGED <<pcn, head>> /\ motor' = TRUE
  BY DEF FloppyRecalibrate, Then, Next1, driveVars
<1>2. s \in Seq(Item) /\ s # <<>> /\ s[1].do = "wait"
  BY StepsRecalibrate, DoItem, Names DEF StepsOf
<1>3. o.track = 0 /\ o.head = 1
  BY DEF Nothing
<1> HIDE DEF s, o
<1>4. todo' # <<>> /\ Head(todo').do = "wait"
  BY <1>1, <1>2, FirstOfSteps DEF Stack
<1>5. phase \in {"ready", "reading", "result"}
  BY <1>1 DEF HeadKnown, Waits
<1>6. \/ phase' = "seeking" /\ op' = o
      \/ phase \in {"reading", "result"} /\ UNCHANGED <<phase, op>>
  BY <1>1, <1>5 DEF Send
<1>7. Recalibrates' \/ head' = pcn'
  BY <1>1, <1>3, <1>6 DEF HeadKnown, Recalibrates
<1> QED
  BY <1>1, <1>3, <1>4, <1>5, <1>6, <1>7 DEF HeadKnown, Waits

LEMMA HeadCommand == ASSUME Stack, HeadKnown, Command PROVE HeadKnown'
<1> DEFINE s == <<Do("wait"), Do("check")>>
<1> DEFINE o == Hts(block, sectors)
<1>1. /\ todo # <<>> /\ todo' = s \o Tail(todo) /\ Head(todo).do = "command" /\ ret
      /\ Send("reading", o) /\ UNCHANGED <<pcn, head, motor>>
  BY DEF Command, Then, Next1, driveVars
<1>2. s \in Seq(Item) /\ s # <<>> /\ s[1].do = "wait"
  BY StepsCommand, DoItem, Names DEF StepsOf
<1>3. o.track = Target
  BY DEF Target
<1> HIDE DEF s, o
<1>4. todo' # <<>> /\ Head(todo').do = "wait"
  BY <1>1, <1>2, FirstOfSteps DEF Stack
<1>5. phase \in {"ready", "reading", "result"} /\ head = Target /\ motor
  BY <1>1, InnerRuns DEF HeadKnown, Waits, Inner
<1>6. head = pcn
  <2>1. 1 \in 1 .. 2 /\ 1 <= Len(todo) /\ todo[1].do = "command"
    BY <1>1 DEF Stack
  <2>2. ~Has(todo, {"reset", "recalibrate"})
    BY <2>1, CommandReady
  <2> QED
    BY <1>5, <2>2 DEF HeadKnown, Recalibrates
<1>7. (phase' = "reading" /\ op' = o) \/ UNCHANGED <<phase, op>>
  BY <1>1 DEF Send
<1> QED
  BY <1>1, <1>3, <1>4, <1>5, <1>6, <1>7 DEF HeadKnown, Waits

(***************************************************************************)
(* While nothing is late a seek has ended when floppy_wait() returns, and  *)
(* what the controller says of the track is so.                            *)
(***************************************************************************)
LEMMA HeadWait == ASSUME HeadInv, FloppyWait, late' = 0 PROVE HeadKnown'
<1>1. /\ todo # <<>> /\ Head(todo).do = "wait" /\ todo' = Tail(todo)
      /\ UNCHANGED <<pcn, head, op, motor, block, sectors>>
      /\ track' \in {pcn, NoTrack}
      /\ phase' = IF Raises(phase) THEN "ready" ELSE phase
      /\ Busy /\ ~done => late' = late + 1
      /\ late' \in {late, late + 1}
  BY DEF FloppyWait, Returns, Then, Next1, driveVars, HeadInv, Stack
<1>2. late = 0 /\ HeadKnown /\ Stack
  BY <1>1 DEF HeadInv, OwnInterrupt
<1>3. phase # "seeking"
  <2> SUFFICES ASSUME phase = "seeking" PROVE FALSE
    OBVIOUS
  <2>1. ~done
    BY <1>2 DEF HeadInv, OwnInterrupt, Raises
  <2> QED
    BY <1>1, <1>2, <2>1 DEF Busy
<1>4. phase' = "ready" \/ (phase' = phase /\ phase \in {"ready", "reading"})
  <2>1. phase \in {"ready", "seeking", "sought", "reading", "result", "reset"}
    BY <1>2 DEF HeadKnown
  <2> QED
    BY <1>1, <1>3, <2>1 DEF Raises
<1>5. ~(todo' # <<>> /\ Head(todo').do = "command")
  <2> SUFFICES ASSUME todo' # <<>>, Head(todo').do = "command" PROVE FALSE
    OBVIOUS
  <2>1. Len(todo) >= 2 /\ todo[2].do = "command"
    BY <1>1, <1>2, ReturnsTo
  <2>2. Head(todo).do \in {"seek", "sought"}
    BY <1>2, <2>1, AimedAt
  <2> QED
    BY <1>1, <2>2
<1>6. Has(todo, {"reset", "recalibrate"}) => Has(todo', {"reset", "recalibrate"})
  <2>1. todo' = <<>> \o Tail(todo) /\ <<>> \in Seq(Item)
    BY <1>1, <1>2 DEF Stack
  <2>2. todo \in Seq(Item) /\ Head(todo).do \notin {"reset", "recalibrate"}
    BY <1>1, <1>2 DEF Stack
  <2> QED
    BY <1>1, <2>1, <2>2, ReplacedHas
<1>7. Recalibrates' \/ head' = pcn'
  BY <1>1, <1>2, <1>3, <1>6 DEF HeadKnown, Recalibrates
<1> QED
  BY <1>1, <1>2, <1>4, <1>5, <1>7 DEF HeadKnown

LEMMA HeadSeekEnds == ASSUME HeadKnown, SeekEnds PROVE HeadKnown'
<1>1. /\ phase = "seeking" /\ phase' = "sought" /\ pcn' = op.track
      /\ head' = IF op.head = 1 THEN 0 ELSE head + op.track - pcn
      /\ UNCHANGED <<todo, track, ret, motor, block, sectors>>
  BY DEF SeekEnds, driverVars
<1>2. Waits /\ Waits'
  BY <1>1 DEF HeadKnown, Waits
<1>3. Recalibrates' \/ head' = pcn'
  BY <1>1 DEF HeadKnown, Recalibrates
<1> QED
  BY <1>1, <1>2, <1>3 DEF HeadKnown, Waits

LEMMA HeadReadEnds == ASSUME HeadKnown, ReadEnds PROVE HeadKnown'
<1>1. /\ phase = "reading" /\ phase' = "result"
      /\ UNCHANGED <<head, pcn, todo, track, ret, motor, block, sectors>>
  BY DEF ReadEnds, driverVars, driveVars
<1> QED
  BY <1>1 DEF HeadKnown, Recalibrates, Waits, Target

LEMMA HeadAround ==
    ASSUME HeadKnown, Irq \/ TakeOut \/ PutIn \/ UNCHANGED vars PROVE HeadKnown'
<1>1. UNCHANGED <<phase, op, head, pcn, todo, track, ret, motor, block, sectors>>
  BY DEF Irq, TakeOut, PutIn, vars, driverVars, fdcVars, driveVars
<1> QED
  BY <1>1 DEF HeadKnown, Recalibrates, Waits, Target

LEMMA HeadIoctl == ASSUME Stack, HeadKnown, NEW b \in Block, FloppyIoctl(b) PROVE HeadKnown'
<1>1. /\ todo = <<>> /\ todo' = <<Do("rw")>>
      /\ UNCHANGED <<phase, op, pcn, head, track, motor>>
  BY DEF FloppyIoctl, fdcVars, driveVars
<1>2. Head(todo').do = "rw"
  BY <1>1, DoItem, Names
<1>3. ~Waits /\ ~Has(todo, {"reset", "recalibrate"})
  BY <1>1, NoneInNone DEF Waits
<1>4. head = pcn
  BY <1>3 DEF HeadKnown, Recalibrates
<1> QED
  BY <1>1, <1>2, <1>3, <1>4 DEF HeadKnown, Waits

LEMMA HeadStep == HeadInv /\ [Next]_vars => HeadInv'
<1> SUFFICES ASSUME HeadInv, [Next]_vars PROVE HeadInv'
  OBVIOUS
<1>1. Stack' /\ OwnInterrupt'
  BY StackStep, OwnStep DEF HeadInv
<1>2. ASSUME late' = 0 PROVE HeadKnown'
  <2>1. CASE FloppyWait
    BY <1>2, <2>1, HeadWait
  <2>2. CASE ~FloppyWait
    <3>1. UNCHANGED late
      BY <2>2 DEF Next, Driver, Fdc, vars, countVars, FloppyReset, FloppySeek, FloppyRecalibrate,
         SeekThere, SeekChecked, FloppyRw, TryAfterChange, Try, GiveUp, CannotSeek, Command, Worked,
         TryAgain, Geo168, Geo168Is, Geo144, Install, SeekEnds, ReadEnds, Irq, TakeOut, PutIn, FloppyIoctl
    <3>2. HeadKnown /\ Stack
      BY <1>2, <3>1 DEF HeadInv
    <3>3. CASE FloppyReset \/ FloppySeek \/ FloppyRecalibrate \/ Command
      BY <3>2, <3>3, HeadReset, HeadSeek, HeadRecalibrate, HeadCommand
    <3>4. CASE GiveUp \/ CannotSeek \/ Worked \/ Geo168Is \/ Install \/ SeekThere \/ SeekChecked
      BY <3>2, <3>4, HeadLooks, HeadReturns
    <3>5. CASE FloppyRw \/ TryAfterChange \/ Try \/ TryAgain \/ Geo168 \/ Geo144
      BY <3>2, <3>5, HeadCalls
    <3>6. CASE SeekEnds \/ ReadEnds \/ Irq \/ TakeOut \/ PutIn \/ UNCHANGED vars
      BY <3>2, <3>6, HeadSeekEnds, HeadReadEnds, HeadAround
    <3>7. CASE \E b \in Block : FloppyIoctl(b)
      BY <3>2, <3>7, HeadIoctl
    <3> QED
      BY <2>2, <3>3, <3>4, <3>5, <3>6, <3>7 DEF Next, Driver, Fdc
  <2> QED
    BY <2>1, <2>2
<1> QED
  BY <1>1, <1>2 DEF HeadInv

(***************************************************************************)
(* While a sector is read the head is on the track the sector is on and    *)
(* the motor runs, for all disks, requests, errors and changes of disks,   *)
(* as long as no command or interrupt is late: what the driver remembers   *)
(* of the track is never out of date when it leaves a seek out.            *)
(***************************************************************************)
THEOREM HeadOnTrack == Spec => []ReadOnTrack
<1>1. HeadInv => ReadOnTrack
  BY DEF HeadInv, HeadKnown, ReadOnTrack
<1> QED
  BY <1>1, HeadInit, HeadStep, PTL DEF Spec

-----------------------------------------------------------------------------
(* What is read *)

Order == [on : Disk \cup {NoDisk}, track : Int, head : Int, sector : Int]

\* x is the sector that is asked for; of a disk there has been since.
SameSector(x) ==
    LET h == Hts(block, sectors) IN x.track = h.track /\ x.head = h.head /\ x.sector = h.sector
Right(x) == x.on \in present /\ SameSector(x)

\* What todo may end with.
Last == {"rw", "try", "command", "check", "install"}

(***************************************************************************)
(* Late or not: the driver knows the track only if the controller has      *)
(* nothing left to do, so that every read the driver waits for has been    *)
(* given to the controller by the command before; and a read that has      *)
(* worked is of the sector asked for.                                      *)
(***************************************************************************)
ReadKnown ==
    /\ op \in Order /\ disk \in Disk \cup {NoDisk} /\ (disk # NoDisk => disk \in present)
    /\ ~Waits /\ track # NoTrack => phase = "ready"
    /\ todo # <<>> /\ Head(todo).do = "command" /\ ret => phase = "ready"
    /\ phase = "reading" => op.on = NoDisk
    /\ phase = "result" /\ op.on # NoDisk => tb = op
    /\ \A k \in 1 .. Len(todo) : todo[k].do = "check" => k \in {1, 2}
    /\ Len(todo) >= 2 /\ todo[2].do = "check" =>
          /\ phase \in {"reading", "result"} /\ SameSector(op)
          /\ op.on # NoDisk => op.on \in present
    /\ todo # <<>> /\ Head(todo).do = "check" /\ status = "ok" => phase # "reading" /\ Right(tb)
    /\ todo # <<>> => todo[Len(todo)].do \in Last
    /\ Has(todo, {"install"}) => requests = 0
    /\ todo = <<>> /\ requests > 0 /\ ret => Right(blockbuff)

ReadInv == Stack /\ ReadKnown

LEMMA ReadInit == Init => ReadInv
<1> SUFFICES ASSUME Init PROVE ReadKnown
  BY StackInit DEF ReadInv
<1> DEFINE x == Do("reset")
<1> DEFINE y == Do("geo168")
<1> DEFINE z == Do("install")
<1>1. x.do = "reset" /\ y.do = "geo168" /\ z.do = "install"
  BY DoItem DEF Procedure
<1>2. todo = <<x, y, z>>
  BY DEF Init
<1> HIDE DEF x, y, z
<1>3. Len(todo) = 3 /\ todo[1] = x /\ todo[2] = y /\ todo[3] = z /\ Head(todo) = x /\ todo # <<>>
  BY <1>2
<1>4. op \in Order
  BY DEF Init, Nothing, Order
<1>5. \A k \in 1 .. Len(todo) : todo[k].do # "check"
  BY <1>1, <1>3
<1> QED
  BY <1>1, <1>3, <1>4, <1>5 DEF Init, ReadKnown, Last

LEMMA ReplacedLast ==
    ASSUME NEW q \in Seq(Item), q # <<>>, NEW s \in Seq(Item), q[Len(q)].do \in Last,
           Head(q).do \notin Last \/ s = <<>> \/ s[Len(s)].do \in Last
    PROVE  /\ s \o Tail(q) # <<>> => (s \o Tail(q))[Len(s \o Tail(q))].do \in Last
           /\ Head(q).do \notin Last => s \o Tail(q) # <<>>
<1> DEFINE r == s \o Tail(q)
<1>1. /\ r \in Seq(Item)
      /\ Len(r) = Len(s) + Len(q) - 1
      /\ \A i \in 1 .. Len(s) : r[i] = s[i]
      /\ \A i \in Len(s) + 1 .. Len(r) : r[i] = q[i - Len(s) + 1]
  BY Replaced
<1>2. Head(q) = q[1] /\ Len(q) \in Nat /\ Len(q) >= 1 /\ Len(s) \in Nat
      /\ (s = <<>> <=> Len(s) = 0)
  OBVIOUS
<1> HIDE DEF r
<1>3. CASE Len(q) > 1
  <2>1. Len(r) \in Len(s) + 1 .. Len(r) /\ Len(r) - Len(s) + 1 = Len(q) /\ Len(r) > 0
    BY <1>1, <1>2, <1>3
  <2>2. r[Len(r)] = q[Len(q)] /\ r # <<>>
    BY <1>1, <2>1
  <2> QED
    BY <2>2 DEF r
<1>4. CASE Len(q) = 1
  <2>1. Head(q).do \in Last /\ Len(r) = Len(s)
    BY <1>1, <1>2, <1>4
  <2>2. CASE s = <<>>
    <3>1. r = <<>>
      BY <1>1, <1>2, <2>1, <2>2
    <3> QED
      BY <2>1, <3>1 DEF r
  <2>3. CASE s # <<>>
    <3>1. Len(s) \in 1 .. Len(s)
      BY <1>2, <2>3
    <3>2. r[Len(r)] = s[Len(s)]
      BY <1>1, <2>1, <3>1
    <3> QED
      BY <2>1, <2>3, <3>2 DEF r
  <2> QED
    BY <2>2, <2>3
<1> QED
  BY <1>2, <1>3, <1>4

(***************************************************************************)
(* Unless the driver waits, the check of a read is not behind what it does. *)
(***************************************************************************)
LEMMA NoCheckBehind ==
    ASSUME NEW q \in Seq(Item), q # <<>>, Ordered(q), Head(q).do # "wait", NEW s \in Seq(Item),
           ~Has(s, {"check"})
    PROVE  ~Has(s \o Tail(q), {"check"})
<1>1. {"check"} \in SUBSET Procedure /\ \A p \in {"check"} : ~MayPrecede(Head(q).do, p)
  BY DEF Procedure, MayPrecede
<1>2. ~\E i \in 2 .. Len(q) : q[i].do \in {"check"}
  BY <1>1, NotBehind
<1> QED
  BY <1>2, ReplacedHas

\* Where no read is checked.
LEMMA NoCheck ==
    ASSUME NEW q \in Seq(Item), ~Has(q, {"check"})
    PROVE  /\ \A k \in 1 .. Len(q) : q[k].do # "check"
           /\ ~(Len(q) >= 2 /\ q[2].do = "check")
           /\ ~(q # <<>> /\ Head(q).do = "check")
<1>1. \A k \in 1 .. Len(q) : q[k].do # "check"
  BY DEF Has
<1> QED
  BY <1>1

(***************************************************************************)
(* Steps that neither command the controller nor wait for it.              *)
(***************************************************************************)
LEMMA ReadQuiet ==
    ASSUME Stack, ReadKnown, todo # <<>>, Head(todo).do # "wait", NEW s \in Seq(Item), Then(s),
           UNCHANGED <<phase, op, tb, track, disk, present, requests>>,
           ~Has(s, {"check"}), ~Has(s, {"install"}),
           Head(todo).do \notin Last \/ s = <<>> \/ s[Len(s)].do \in Last,
           todo' # <<>> /\ Head(todo').do = "command" /\ ret' => phase = "ready",
           todo' = <<>> /\ requests > 0 /\ ret' => Right(blockbuff)'
    PROVE  ReadKnown'
<1>1. todo' = s \o Tail(todo) /\ todo \in Seq(Item) /\ Ordered(todo)
  BY DEF Then, Stack
<1>2. todo' \in Seq(Item)
  BY <1>1, Replaced
<1>3. ~Has(todo', {"check"})
  BY <1>1, NoCheckBehind
<1>4. /\ \A k \in 1 .. Len(todo') : todo'[k].do # "check"
      /\ ~(Len(todo') >= 2 /\ todo'[2].do = "check")
      /\ ~(todo' # <<>> /\ Head(todo').do = "check")
  BY <1>2, <1>3, NoCheck
<1>5. todo' # <<>> => todo'[Len(todo')].do \in Last
  <2>1. todo[Len(todo)].do \in Last
    BY DEF ReadKnown
  <2> QED
    BY <1>1, <2>1, ReplacedLast
<1>6. Has(todo', {"install"}) => requests = 0
  <2>1. (\E i \in 2 .. Len(todo) : todo[i].do \in {"install"}) => Has(todo, {"install"})
    <3>1. 2 .. Len(todo) \subseteq 1 .. Len(todo)
      BY <1>1
    <3> QED
      BY <3>1 DEF Has
  <2>2. Has(todo', {"install"}) => Has(todo, {"install"})
    BY <1>1, <2>1, ReplacedHas
  <2> QED
    BY <2>2 DEF ReadKnown
<1>7. ~Waits
  BY DEF Waits
<1>8. /\ op \in Order /\ disk \in Disk \cup {NoDisk} /\ (disk # NoDisk => disk \in present)
      /\ track # NoTrack => phase = "ready"
      /\ phase = "reading" => op.on = NoDisk
      /\ phase = "result" /\ op.on # NoDisk => tb = op
  BY <1>7 DEF ReadKnown
<1> QED
  BY <1>4, <1>5, <1>6, <1>8 DEF ReadKnown

LEMMA ReadSteps ==
    ASSUME Stack, ReadKnown, todo # <<>>, Head(todo).do # "wait", NEW s \in Seq(Item), Then(s),
           UNCHANGED <<phase, op, tb, track, disk, present, requests>>,
           ~Has(s, {"check"}), ~Has(s, {"install"}), Len(s) > 0, s[1].do # "command",
           Head(todo).do \notin Last \/ s[Len(s)].do \in Last
    PROVE  ReadKnown'
<1>1. todo \in Seq(Item) /\ todo' = s \o Tail(todo) /\ s # <<>>
  BY DEF Stack, Then
<1>2. todo' # <<>> /\ Head(todo') = s[1]
  BY <1>1, FirstOfSteps
<1> QED
  BY <1>2, ReadQuiet

LEMMA InLast == {"rw", "try", "command", "check", "install"} = Last /\ {"geo168", "geo144"} \cap Last = {}
  BY DEF Last

\* The procedures that call others.
LEMMA ReadCalls ==
    ASSUME Stack, ReadKnown,
           FloppyRw \/ TryAfterChange \/ Try \/ TryAgain \/ Geo168 \/ Geo144
    PROVE  ReadKnown'
<1> DEFINE Q == UNCHANGED <<phase, op, tb, track, disk, present, requests>>
<1>1. CASE FloppyRw
  <2> DEFINE s == <<Do("try")>>
  <2>1. todo # <<>> /\ Then(s) /\ Q /\ Head(todo).do = "rw"
    BY <1>1 DEF FloppyRw, Next1, fdcVars, driveVars, countVars
  <2>2. s \in Seq(Item) /\ Len(s) = 1 /\ s[1].do = "try"
    BY DoItem, Names
  <2>3. ~Has(s, {"check"}) /\ ~Has(s, {"install"})
    BY DoItem, Names, NoneInOne
  <2> HIDE DEF s
  <2>4. Len(s) > 0 /\ s[1].do # "command" /\ s[Len(s)].do \in Last
    BY <2>1, <2>2, InLast
  <2> QED
    BY <2>1, <2>2, <2>3, <2>4, ReadSteps
<1>2. CASE TryAfterChange
  <2> DEFINE s == <<Seek(1), Do("recalibrate"), Do("rw")>>
  <2>1. todo # <<>> /\ Then(s) /\ Q /\ Head(todo).do = "try"
    BY <1>2 DEF TryAfterChange, Next1, fdcVars, driveVars, countVars
  <2>2. s \in Seq(Item) /\ Len(s) = 3 /\ s[1].do = "seek" /\ s[3].do = "rw"
    BY StepsAfterChange, DoItem, SeekItem, Names DEF StepsOf
  <2>3. ~Has(s, {"check"}) /\ ~Has(s, {"install"})
    BY DoItem, SeekItem, Names, NoneInThree
  <2> HIDE DEF s
  <2>4. Len(s) > 0 /\ s[1].do # "command" /\ s[Len(s)].do \in Last
    BY <2>1, <2>2, InLast
  <2> QED
    BY <2>1, <2>2, <2>3, <2>4, ReadSteps
<1>3. CASE Try
  <2> DEFINE s == <<Seek(Target), Do("command")>>
  <2>1. todo # <<>> /\ Then(s) /\ Q /\ Head(todo).do = "try"
    BY <1>3 DEF Try, Next1, Target, fdcVars, driveVars, countVars
  <2>2. Target \in Int
    <3>1. Target \in Tracks
      BY <2>1, TriedWithGeometry
    <3> QED
      BY <3>1 DEF Tracks
  <2>3. s \in Seq(Item)
    BY <2>2, StepsTry DEF StepsOf
  <2>4. Len(s) = 2 /\ s[1].do = "seek" /\ s[2].do = "command"
    BY <2>2, DoItem, SeekItem, Names
  <2>5. ~Has(s, {"check"}) /\ ~Has(s, {"install"})
    BY <2>2, DoItem, SeekItem, Names, NoneInTwo
  <2> HIDE DEF s
  <2>6. Len(s) > 0 /\ s[1].do # "command" /\ s[Len(s)].do \in Last
    BY <2>4, InLast
  <2> QED
    BY <2>1, <2>3, <2>5, <2>6, ReadSteps
<1>4. CASE TryAgain
  <2> DEFINE s == <<Do("recalibrate"), Do("try")>>
  <2>1. todo # <<>> /\ Then(s) /\ Q /\ Head(todo).do = "check"
    BY <1>4 DEF TryAgain, Next1, fdcVars, driveVars, countVars
  <2>2. s \in Seq(Item) /\ Len(s) = 2 /\ s[1].do = "recalibrate" /\ s[2].do = "try"
    BY StepsAgain, DoItem, Names DEF StepsOf
  <2>3. ~Has(s, {"check"}) /\ ~Has(s, {"install"})
    BY DoItem, Names, NoneInTwo
  <2> HIDE DEF s
  <2>4. Len(s) > 0 /\ s[1].do # "command" /\ s[Len(s)].do \in Last
    BY <2>1, <2>2, InLast
  <2> QED
    BY <2>1, <2>2, <2>3, <2>4, ReadSteps
<1>5. CASE Geo168
  <2> DEFINE s == <<Do("reset"), Do("rw"), Do("geo144")>>
  <2>1. todo # <<>> /\ Then(s) /\ Q /\ Head(todo).do = "geo168"
    BY <1>5 DEF Geo168, Next1, fdcVars, driveVars, countVars
  <2>2. s \in Seq(Item) /\ Len(s) = 3 /\ s[1].do = "reset"
    BY StepsGeo168, DoItem, Names DEF StepsOf
  <2>3. ~Has(s, {"check"}) /\ ~Has(s, {"install"})
    BY DoItem, Names, NoneInThree
  <2> HIDE DEF s
  <2>4. Len(s) > 0 /\ s[1].do # "command" /\ Head(todo).do \notin Last
    BY <2>1, <2>2, InLast
  <2> QED
    BY <2>1, <2>2, <2>3, <2>4, ReadSteps
<1>6. CASE Geo144
  <2> DEFINE s == <<Do("rw")>>
  <2>1. todo # <<>> /\ Then(s) /\ Q /\ Head(todo).do = "geo144"
    BY <1>6 DEF Geo144, Next1, fdcVars, driveVars, countVars
  <2>2. s \in Seq(Item) /\ Len(s) = 1 /\ s[1].do = "rw"
    BY StepsGeo144, DoItem, Names DEF StepsOf
  <2>3. ~Has(s, {"check"}) /\ ~Has(s, {"install"})
    BY DoItem, Names, NoneInOne
  <2> HIDE DEF s
  <2>4. Len(s) > 0 /\ s[1].do # "command" /\ Head(todo).do \notin Last
    BY <2>1, <2>2, InLast
  <2> QED
    BY <2>1, <2>2, <2>3, <2>4, ReadSteps
<1> QED
  BY <1>1, <1>2, <1>3, <1>4, <1>5, <1>6

(***************************************************************************)
(* The procedures that return.  A request ends with the sector in the      *)
(* caller's buffer, or it fails.                                           *)
(***************************************************************************)
LEMMA ReadLooks == ASSUME Stack, ReadKnown, Looks PROVE ReadKnown'
<1>1. /\ todo # <<>> /\ Then(<<>>) /\ Head(todo).do # "wait"
      /\ UNCHANGED <<phase, op, tb, track, disk, present, requests, block, sectors>>
  BY DEF Looks, SeekThere, SeekChecked, GiveUp, CannotSeek, Worked, Geo168Is, Install, Next1, Returns,
     fdcVars, driveVars, countVars
<1>2. todo' = Tail(todo) /\ <<>> \in Seq(Item)
  BY <1>1 DEF Then, Stack
<1>3. ~Has(<<>>, {"check"}) /\ ~Has(<<>>, {"install"})
  BY NoneInNone
<1>4. ASSUME todo' # <<>>, Head(todo').do = "command", ret' PROVE phase = "ready"
  <2>1. /\ Head(todo).do \in {"seek", "sought"} /\ Head(todo).track = Target
        /\ Target \in Tracks
    BY <1>1, <1>2, <1>4, ReturnsTo, AimedAt
  <2>2. SeekThere \/ SeekChecked
    BY <2>1 DEF Looks, GiveUp, CannotSeek, Worked, Geo168Is, Install, Next1
  <2>3. track = Head(todo).track
    BY <1>4, <2>2 DEF SeekThere, SeekChecked, Sought, Returns
  <2>4. track # NoTrack
    BY <2>1, <2>3 DEF Tracks, NoTrack
  <2> QED
    BY <1>1, <2>4 DEF ReadKnown, Waits
<1>5. ASSUME todo' = <<>>, requests > 0, ret' PROVE Right(blockbuff)'
  <2>1. Head(todo).do \in Last
    <3>1. todo \in Seq(Item) /\ todo' = <<>> \o Tail(todo)
      BY <1>1 DEF Stack, Then
    <3>2. todo[Len(todo)].do \in Last
      BY <1>1 DEF ReadKnown
    <3> QED
      BY <1>1, <1>2, <1>5, <3>1, <3>2, ReplacedLast
  <2>2. Head(todo).do # "install"
    <3>1. 1 \in 1 .. Len(todo) /\ Head(todo) = todo[1]
      BY <1>1 DEF Stack
    <3>2. requests # 0
      BY <1>5
    <3> QED
      BY <3>1, <3>2 DEF ReadKnown, Has
  <2>3. Worked
    BY <1>5, <2>1, <2>2 DEF Looks, SeekThere, SeekChecked, GiveUp, CannotSeek, Geo168Is, Install,
       Next1, Returns, Last
  <2>4. Head(todo).do = "check" /\ status = "ok" /\ blockbuff' = tb
    BY <2>3 DEF Worked, Next1
  <2>5. Right(tb)
    BY <1>1, <2>4 DEF ReadKnown
  <2> QED
    BY <1>1, <2>4, <2>5 DEF Right, SameSector
<1> QED
  BY <1>1, <1>2, <1>3, <1>4, <1>5, ReadQuiet

(***************************************************************************)
(* The commands.                                                           *)
(***************************************************************************)
LEMMA ReadWaitNext ==
    ASSUME Stack, ReadKnown, todo # <<>>, Head(todo).do # "wait", NEW s \in Seq(Item), Then(s),
           Len(s) > 0, s[1].do = "wait", UNCHANGED <<disk, present, requests, tb>>,
           Head(todo).do \notin Last, ~Has(s, {"check"}), ~Has(s, {"install"}),
           op' \in Order, phase' \in {"seeking", "reset"} \/ UNCHANGED <<phase, op>>
    PROVE  ReadKnown'
<1>1. todo' = s \o Tail(todo) /\ todo \in Seq(Item) /\ Ordered(todo) /\ s # <<>>
  BY DEF Then, Stack
<1>2. todo' \in Seq(Item) /\ todo' # <<>> /\ Head(todo').do = "wait"
  BY <1>1, Replaced, FirstOfSteps
<1>3. ~Has(todo', {"check"})
  BY <1>1, NoCheckBehind
<1>4. /\ \A k \in 1 .. Len(todo') : todo'[k].do # "check"
      /\ ~(Len(todo') >= 2 /\ todo'[2].do = "check")
  BY <1>2, <1>3, NoCheck
<1>5. todo'[Len(todo')].do \in Last
  <2>1. todo[Len(todo)].do \in Last
    BY DEF ReadKnown
  <2> QED
    BY <1>1, <1>2, <2>1, ReplacedLast
<1>6. Has(todo', {"install"}) => requests = 0
  <2>1. (\E i \in 2 .. Len(todo) : todo[i].do \in {"install"}) => Has(todo, {"install"})
    <3>1. 2 .. Len(todo) \subseteq 1 .. Len(todo)
      BY <1>1
    <3> QED
      BY <3>1 DEF Has
  <2>2. Has(todo', {"install"}) => Has(todo, {"install"})
    BY <1>1, <2>1, ReplacedHas
  <2> QED
    BY <2>2 DEF ReadKnown
<1>7. Waits'
  BY <1>2 DEF Waits
<1>8. /\ disk \in Disk \cup {NoDisk} /\ (disk # NoDisk => disk \in present)
      /\ phase' = "reading" => op'.on = NoDisk
      /\ phase' = "result" /\ op'.on # NoDisk => tb = op'
  BY DEF ReadKnown
<1> QED
  BY <1>2, <1>4, <1>5, <1>6, <1>7, <1>8 DEF ReadKnown

LEMMA NothingOrdered ==
    /\ \A t \in Int : [Nothing EXCEPT !.track = t] \in Order
    /\ [Nothing EXCEPT !.head = 1] \in Order
  BY DEF Nothing, Order

LEMMA HtsOrdered ==
    Stack /\ sectors # 0 => Hts(block, sectors) \in Order /\ Hts(block, sectors).on = NoDisk
<1> SUFFICES ASSUME block \in 0 .. 3359, sectors \in {18, 21}
             PROVE  Hts(block, sectors) \in Order /\ Hts(block, sectors).on = NoDisk
  BY DEF Stack
<1> QED
  BY DEF Hts, Order

LEMMA ReadMoves ==
    ASSUME Stack, ReadKnown, FloppyReset \/ FloppySeek \/ FloppyRecalibrate PROVE ReadKnown'
<1> DEFINE Q == UNCHANGED <<disk, present, requests, tb>>
<1>0. op \in Order
  BY DEF ReadKnown
<1>1. CASE FloppyReset
  <2> DEFINE s == <<Do("wait"), Seek(1), Do("recalibrate")>>
  <2>1. todo # <<>> /\ Then(s) /\ Head(todo).do = "reset" /\ Q /\ phase' = "reset" /\ op' = op
    BY <1>1 DEF FloppyReset, Next1, driveVars, countVars
  <2>2. s \in Seq(Item) /\ Len(s) = 3 /\ s[1].do = "wait"
    BY StepsReset, DoItem, Names DEF StepsOf
  <2>3. ~Has(s, {"check"}) /\ ~Has(s, {"install"})
    BY DoItem, SeekItem, Names, NoneInThree
  <2> HIDE DEF s
  <2> QED
    BY <1>0, <2>1, <2>2, <2>3, ReadWaitNext DEF Last
<1>2. CASE FloppySeek
  <2> DEFINE t == Head(todo).track
  <2> DEFINE y == [do |-> "sought", track |-> t]
  <2> DEFINE s == <<Do("wait"), y>>
  <2>1. /\ todo # <<>> /\ Then(s) /\ Head(todo).do = "seek" /\ Q
        /\ Send("seeking", [Nothing EXCEPT !.track = t])
    BY <1>2 DEF FloppySeek, Next1, driveVars, countVars
  <2>2. t \in Int
    <3>1. Head(todo) \in Item
      BY <2>1 DEF Stack
    <3> QED
      BY <3>1 DEF Item
  <2>3. s \in Seq(Item)
    BY <2>2, StepsSeek DEF StepsOf
  <2>4. y.do = "sought"
    OBVIOUS
  <2>5. Len(s) = 2 /\ s[1].do = "wait"
    BY DoItem, Names
  <2> HIDE DEF y
  <2>6. ~Has(s, {"check"}) /\ ~Has(s, {"install"})
    BY <2>4, DoItem, Names, NoneInTwo
  <2>7. (phase' = "seeking" /\ op' \in Order) \/ UNCHANGED <<phase, op>>
    BY <2>1, <2>2, NothingOrdered DEF Send
  <2> HIDE DEF s
  <2> QED
    BY <1>0, <2>1, <2>3, <2>5, <2>6, <2>7, ReadWaitNext DEF Last
<1>3. CASE FloppyRecalibrate
  <2> DEFINE s == <<Do("wait")>>
  <2>1. /\ todo # <<>> /\ Then(s) /\ Head(todo).do = "recalibrate" /\ Q
        /\ Send("seeking", [Nothing EXCEPT !.head = 1])
    BY <1>3 DEF FloppyRecalibrate, Next1, driveVars, countVars
  <2>2. s \in Seq(Item) /\ Len(s) = 1 /\ s[1].do = "wait"
    BY StepsRecalibrate, DoItem, Names DEF StepsOf
  <2>3. ~Has(s, {"check"}) /\ ~Has(s, {"install"})
    BY DoItem, Names, NoneInOne
  <2>4. (phase' = "seeking" /\ op' \in Order) \/ UNCHANGED <<phase, op>>
    BY <2>1, NothingOrdered DEF Send
  <2> HIDE DEF s
  <2> QED
    BY <1>0, <2>1, <2>2, <2>3, <2>4, ReadWaitNext DEF Last
<1> QED
  BY <1>1, <1>2, <1>3

LEMMA ReadCommand == ASSUME Stack, ReadKnown, Command PROVE ReadKnown'
<1> DEFINE s == <<Do("wait"), Do("check")>>
<1> DEFINE o == Hts(block, sectors)
<1>1. /\ todo # <<>> /\ Head(todo).do = "command" /\ ret /\ Then(s)
      /\ Send("reading", o) /\ UNCHANGED <<block, sectors, disk, present, requests, tb>>
  BY DEF Command, Next1, driveVars, countVars
<1>2. phase' = "reading" /\ op' = o
  BY <1>1 DEF ReadKnown, Send
<1>3. o \in Order /\ o.on = NoDisk
  <2>1. sectors # 0
    BY <1>1, TriedWithGeometry
  <2> QED
    BY <2>1, HtsOrdered
<1>4. SameSector(op)'
  BY <1>1, <1>2 DEF SameSector
<1> HIDE DEF o
<1>5. s \in Seq(Item) /\ Len(s) = 2 /\ s[1].do = "wait" /\ s[2].do = "check"
  BY StepsCommand, DoItem, Names DEF StepsOf
<1>6. ~Has(s, {"install"})
  BY DoItem, Names, NoneInTwo
<1> HIDE DEF s
<1>7. /\ todo \in Seq(Item) /\ Ordered(todo) /\ s # <<>>
      /\ todo' = s \o Tail(todo) /\ Len(todo') = 2 + Len(todo) - 1
      /\ todo' \in Seq(Item)
      /\ \A i \in 3 .. Len(todo') : todo'[i] = todo[i - 1] /\ i - 1 \in 2 .. Len(todo)
  <2>1. todo \in Seq(Item) /\ Ordered(todo) /\ s # <<>> /\ todo' = s \o Tail(todo)
    <3>1. todo \in Seq(Item) /\ Ordered(todo)
      BY DEF Stack
    <3>2. s # <<>>
      BY <1>5
    <3>3. todo' = s \o Tail(todo)
      BY <1>1 DEF Then
    <3> QED
      BY <3>1, <3>2, <3>3
  <2>2. /\ Len(todo') = 2 + Len(todo) - 1 /\ todo' \in Seq(Item)
        /\ \A i \in Len(s) + 1 .. Len(todo') :
              todo'[i] = todo[i - Len(s) + 1] /\ i - Len(s) + 1 \in 2 .. Len(todo)
    <3>1. /\ s \o Tail(todo) \in Seq(Item)
          /\ Len(s \o Tail(todo)) = Len(s) + Len(todo) - 1
          /\ \A i \in Len(s) + 1 .. Len(s \o Tail(todo)) :
                (s \o Tail(todo))[i] = todo[i - Len(s) + 1] /\ i - Len(s) + 1 \in 2 .. Len(todo)
      BY <1>1, <1>5, <2>1, Replaced
    <3>2. todo' = s \o Tail(todo)
      BY <1>1 DEF Then
    <3> QED
      BY <1>5, <3>1, <3>2
  <2> QED
    BY <1>5, <2>1, <2>2
<1>8. \A k \in 1 .. Len(todo') : todo'[k].do = "check" => k \in {1, 2}
  <2> SUFFICES ASSUME NEW k \in 1 .. Len(todo'), todo'[k].do = "check", k \notin {1, 2} PROVE FALSE
    OBVIOUS
  <2>1. k \in 3 .. Len(todo')
    BY <1>7
  <2>2. k - 1 \in 2 .. Len(todo) /\ todo[k - 1].do \in {"check"}
    BY <1>7, <2>1
  <2>3. {"check"} \in SUBSET Procedure /\ \A p \in {"check"} : ~MayPrecede(Head(todo).do, p)
    BY <1>1 DEF Procedure, MayPrecede
  <2> QED
    BY <1>1, <1>7, <2>2, <2>3, NotBehind
<1>9. todo' # <<>> /\ Head(todo').do = "wait"
  BY <1>5, <1>7, FirstOfSteps
<1>10. todo'[Len(todo')].do \in Last
  <2>1. todo[Len(todo)].do \in Last /\ s[Len(s)].do \in Last
    BY <1>1, <1>5, InLast DEF ReadKnown
  <2> QED
    BY <1>1, <1>5, <1>7, <1>9, <2>1, ReplacedLast
<1>11. Has(todo', {"install"}) => requests = 0
  <2>1. (\E i \in 2 .. Len(todo) : todo[i].do \in {"install"}) => Has(todo, {"install"})
    <3>1. 2 .. Len(todo) \subseteq 1 .. Len(todo)
      BY <1>7
    <3> QED
      BY <3>1 DEF Has
  <2>2. Has(todo', {"install"}) => Has(todo, {"install"})
    BY <1>1, <1>5, <1>6, <1>7, <2>1, ReplacedHas
  <2> QED
    BY <2>2 DEF ReadKnown
<1>12. disk \in Disk \cup {NoDisk} /\ (disk # NoDisk => disk \in present)
  BY DEF ReadKnown
<1>13. op' \in Order /\ op'.on = NoDisk /\ phase' = "reading" /\ Waits'
  BY <1>2, <1>3, <1>9 DEF Waits
<1> QED
  BY <1>1, <1>4, <1>8, <1>9, <1>10, <1>11, <1>12, <1>13 DEF ReadKnown

(***************************************************************************)
(* The wait.  Its status is that of the read before it.                    *)
(***************************************************************************)
LEMMA ReadWait == ASSUME Stack, ReadKnown, FloppyWait PROVE ReadKnown'
<1>1. /\ todo # <<>> /\ Head(todo).do = "wait" /\ todo' = Tail(todo)
      /\ UNCHANGED <<op, tb, block, sectors, disk, present, requests>>
      /\ track' = IF phase \in {"sought", "reset"} THEN pcn ELSE NoTrack
      /\ phase' = IF Raises(phase) THEN "ready" ELSE phase
      /\ status' = WaitStatus
  BY DEF FloppyWait, Returns, Then, Next1, driveVars, Stack
<1>2. todo \in Seq(Item) /\ todo' = <<>> \o Tail(todo) /\ <<>> \in Seq(Item)
  BY <1>1 DEF Stack
<1>3. /\ todo' \in Seq(Item) /\ Len(todo') = Len(todo) - 1 /\ Len(todo) \in Nat
      /\ \A k \in 1 .. Len(todo') : todo'[k] = todo[k + 1] /\ k + 1 \in 1 .. Len(todo)
      /\ todo' # <<>> => Len(todo) >= 2 /\ Head(todo') = todo[2]
  BY <1>1, <1>2
<1>4. /\ todo' # <<>> => todo'[Len(todo')].do \in Last
      /\ todo' # <<>>
  <2>1. todo[Len(todo)].do \in Last /\ "wait" \notin Last
    BY <1>1 DEF ReadKnown, Last
  <2> QED
    BY <1>1, <1>2, <2>1, ReplacedLast
<1>5. \A k \in 1 .. Len(todo') : todo'[k].do = "check" => k = 1
  <2> SUFFICES ASSUME NEW k \in 1 .. Len(todo'), todo'[k].do = "check" PROVE k = 1
    OBVIOUS
  <2>1. k + 1 \in 1 .. Len(todo) /\ todo[k + 1].do = "check"
    BY <1>3
  <2>2. k + 1 \in {1, 2}
    BY <2>1 DEF ReadKnown
  <2> QED
    BY <1>3, <2>2
<1>6. ~(Len(todo') >= 2 /\ todo'[2].do = "check")
  BY <1>3, <1>5
<1>7. Head(todo').do # "command"
  BY <1>1, <1>3, <1>4, AimedAt
<1>8. Has(todo', {"install"}) => requests = 0
  <2>1. Has(todo', {"install"}) => Has(todo, {"install"})
    BY <1>3 DEF Has
  <2> QED
    BY <2>1 DEF ReadKnown
<1>9. ASSUME Head(todo').do = "check", status' = "ok" PROVE phase' # "reading" /\ Right(tb)'
  <2>1. /\ phase \in {"reading", "result"} /\ SameSector(op)
        /\ op.on # NoDisk => op.on \in present
    BY <1>3, <1>4, <1>9 DEF ReadKnown
  <2>2. phase = "result" /\ op.on # NoDisk
    BY <1>1, <1>9, <2>1 DEF WaitStatus
  <2>3. tb = op
    BY <2>2 DEF ReadKnown
  <2>4. Right(tb)
    BY <2>1, <2>2, <2>3 DEF Right
  <2> QED
    BY <1>1, <2>2, <2>4 DEF Right, SameSector, Raises
<1>10. /\ op \in Order /\ disk \in Disk \cup {NoDisk} /\ (disk # NoDisk => disk \in present)
       /\ phase = "reading" => op.on = NoDisk
  BY DEF ReadKnown
<1>11. track' # NoTrack => phase' = "ready"
  BY <1>1 DEF Raises
<1>12. phase' = "reading" => phase = "reading"
  BY <1>1
<1>13. phase' # "result"
  BY <1>1 DEF Raises
<1>14. /\ op' \in Order /\ disk' \in Disk \cup {NoDisk} /\ (disk' # NoDisk => disk' \in present')
       /\ phase' = "reading" => op'.on = NoDisk
  BY <1>1, <1>10, <1>12
<1> QED
  BY <1>1, <1>4, <1>5, <1>6, <1>7, <1>8, <1>9, <1>11, <1>13, <1>14 DEF ReadKnown

(***************************************************************************)
(* The controller, the drive and the user.                                 *)
(***************************************************************************)
LEMMA ReadSeekEnds == ASSUME ReadKnown, SeekEnds PROVE ReadKnown'
<1>1. /\ phase = "seeking" /\ phase' = "sought"
      /\ UNCHANGED <<op, tb, todo, track, ret, status, blockbuff, block, sectors, disk, present, requests>>
  BY DEF SeekEnds, driverVars, countVars
<1> QED
  BY <1>1 DEF ReadKnown, Waits, Right, SameSector

LEMMA OnDisk ==
    ASSUME NEW o \in Order, NEW d \in Disk
    PROVE  LET p == [o EXCEPT !.on = d] IN
           p \in Order /\ p.on = d /\ p.track = o.track /\ p.head = o.head /\ p.sector = o.sector
  BY DEF Order

LEMMA ReadReadEnds == ASSUME ReadKnown, ReadEnds PROVE ReadKnown'
<1>1. /\ phase = "reading" /\ phase' = "result" /\ disk # NoDisk
      /\ UNCHANGED <<todo, track, ret, status, blockbuff, block, sectors, disk, present, requests>>
      /\ (op' = [op EXCEPT !.on = disk] /\ tb' = op') \/ UNCHANGED <<op, tb>>
  BY DEF ReadEnds, driverVars, driveVars
<1>2. op \in Order /\ disk \in Disk /\ disk \in present /\ op.on = NoDisk
  BY <1>1 DEF ReadKnown
<1>3. /\ op' \in Order /\ op'.track = op.track /\ op'.head = op.head /\ op'.sector = op.sector
      /\ (op'.on = disk /\ tb' = op') \/ op'.on = NoDisk
  <2>1. CASE op' = [op EXCEPT !.on = disk] /\ tb' = op'
    BY <1>2, <2>1, OnDisk
  <2>2. CASE UNCHANGED <<op, tb>>
    BY <1>2, <2>2
  <2> QED
    BY <1>1, <2>1, <2>2
<1>4. SameSector(op) => SameSector(op)'
  BY <1>1, <1>3 DEF SameSector
<1>5. ~(todo # <<>> /\ Head(todo).do = "check" /\ status = "ok")
  BY <1>1 DEF ReadKnown
<1>6. Right(blockbuff) => Right(blockbuff)'
  BY <1>1 DEF Right, SameSector
<1> QED
  BY <1>1, <1>2, <1>3, <1>4, <1>5, <1>6 DEF ReadKnown, Waits

LEMMA ReadAround == ASSUME ReadKnown, Irq \/ TakeOut \/ PutIn \/ UNCHANGED vars PROVE ReadKnown'
<1>1. /\ UNCHANGED <<phase, op, tb, todo, track, ret, status, blockbuff, block, sectors, requests>>
      /\ present \subseteq present'
      /\ disk' \in {disk, NoDisk} \/ (disk' \in Disk /\ disk' \in present')
  BY DEF Irq, TakeOut, PutIn, vars, driverVars, fdcVars, driveVars, countVars
<1>2. disk' \in Disk \cup {NoDisk} /\ (disk' # NoDisk => disk' \in present')
  BY <1>1 DEF ReadKnown
<1>3. /\ SameSector(op)' <=> SameSector(op)
      /\ Right(tb) => Right(tb)'
      /\ Right(blockbuff) => Right(blockbuff)'
  BY <1>1 DEF SameSector, Right
<1> QED
  BY <1>1, <1>2, <1>3 DEF ReadKnown, Waits

LEMMA ReadIoctl == ASSUME ReadKnown, NEW b \in Block, FloppyIoctl(b) PROVE ReadKnown'
<1> DEFINE x == Do("rw")
<1>1. /\ todo = <<>> /\ todo' = <<x>> /\ x.do = "rw"
      /\ UNCHANGED <<phase, op, tb, track, disk>>
      /\ present' = {disk} \ {NoDisk}
  BY DoItem, Names DEF FloppyIoctl, fdcVars, driveVars
<1> HIDE DEF x
<1>2. Len(todo') = 1 /\ todo'[1] = x /\ Head(todo') = x /\ todo' # <<>>
  BY <1>1
<1>3. ~Waits
  BY <1>1 DEF Waits
<1>4. /\ op \in Order /\ disk \in Disk \cup {NoDisk}
      /\ track # NoTrack => phase = "ready"
      /\ phase = "reading" => op.on = NoDisk
      /\ phase = "result" /\ op.on # NoDisk => tb = op
  BY <1>3 DEF ReadKnown
<1>5. ~Has(todo', {"install"}) /\ todo'[Len(todo')].do \in Last
  BY <1>1, <1>2 DEF Has, Last
<1> QED
  BY <1>1, <1>2, <1>4, <1>5 DEF ReadKnown

LEMMA ReadStep == ReadInv /\ [Next]_vars => ReadInv'
<1> SUFFICES ASSUME ReadInv, [Next]_vars PROVE ReadKnown'
  BY StackStep DEF ReadInv
<1>0. Stack /\ ReadKnown
  BY DEF ReadInv
<1>1. CASE FloppyReset \/ FloppySeek \/ FloppyRecalibrate
  BY <1>0, <1>1, ReadMoves
<1>2. CASE FloppyRw \/ TryAfterChange \/ Try \/ TryAgain \/ Geo168 \/ Geo144
  BY <1>0, <1>2, ReadCalls
<1>3. CASE FloppyWait \/ Command \/ Looks
  BY <1>0, <1>3, ReadWait, ReadCommand, ReadLooks
<1>4. CASE SeekEnds \/ ReadEnds \/ Irq \/ TakeOut \/ PutIn \/ UNCHANGED vars
  BY <1>0, <1>4, ReadSeekEnds, ReadReadEnds, ReadAround
<1>5. CASE \E b \in Block : FloppyIoctl(b)
  BY <1>0, <1>5, ReadIoctl
<1> QED
  BY <1>1, <1>2, <1>3, <1>4, <1>5 DEF Next, Driver, Fdc, Looks

\* block2hts() loses nothing.
LEMMA HtsInverse ==
    ASSUME block \in 0 .. 3359, sectors \in {18, 21}
    PROVE  LET h == Hts(block, sectors) IN
           /\ block = (2 * h.track + h.head) * sectors + h.sector - 1
           /\ h.head \in {0, 1} /\ h.sector \in 1 .. sectors
<1>1. CASE sectors = 18
  BY <1>1, SMTT(60) DEF Hts
<1>2. CASE sectors = 21
  BY <1>2, SMTT(60) DEF Hts
<1> QED
  BY <1>1, <1>2

(***************************************************************************)
(* A request that succeeds returns the sector that was asked for, of a     *)
(* disk that was in the drive meanwhile, for all disks, requests, errors   *)
(* and changes of disks, and however many commands and interrupts are      *)
(* late.                                                                   *)
(***************************************************************************)
THEOREM SectorRight == Spec => []DataRight
<1>1. ReadInv => DataRight
  <2> SUFFICES ASSUME ReadInv, Idle, ret, sectors = kind
               PROVE  /\ blockbuff.on \in present
                      /\ block = (2 * blockbuff.track + blockbuff.head) * kind + blockbuff.sector - 1
                      /\ blockbuff.head \in {0, 1} /\ blockbuff.sector \in 1 .. kind
    BY DEF DataRight
  <2>1. Right(blockbuff)
    BY DEF ReadInv, ReadKnown, Idle
  <2>2. block \in 0 .. 3359 /\ sectors \in {18, 21}
    BY NoneInNone DEF ReadInv, Stack, Idle
  <2> DEFINE h == Hts(block, sectors)
  <2>3. block = (2 * h.track + h.head) * sectors + h.sector - 1 /\ h.head \in {0, 1} /\ h.sector \in 1 .. sectors
    BY <2>2, HtsInverse
  <2> QED
    BY <2>1, <2>3 DEF Right, SameSector
<1> QED
  BY <1>1, ReadInit, ReadStep, PTL DEF Spec

-----------------------------------------------------------------------------
(* How often a read is tried *)

\* What p may come right after.
Follows(h, p) ==
    /\ p # "wait"
    /\ p = "sought" => h = "wait"
    /\ p = "geo144" => h \in Inner \cup {"rw"}

Followed(q) == \A i \in 2 .. Len(q) : Follows(q[i - 1].do, q[i].do)

\* While nothing but errors has come between, and the driver has tries for them.
Undisturbed == changes = 0 /\ late = 0 /\ errors <= 2 /\ disk # NoDisk

\* The controller has ended what it was told when the driver goes on, and every seek has worked.
Ended ==
    /\ ~Waits => phase = "ready"
    /\ phase \in {"reading", "result"} => Len(todo) >= 2 /\ todo[2].do = "check"
    /\ Len(todo) >= 2 /\ todo[2].do = "sought" =>
          \/ phase = "seeking" /\ op.track = todo[2].track
          \/ phase = "sought" /\ pcn = todo[2].track
    /\ todo # <<>> /\ Head(todo).do = "sought" => sr0 = "ok" /\ track = Head(todo).track
    /\ todo # <<>> /\ Head(todo).do = "command" => ret

\* The geometry is found, or is still to be.
Geometry ==
    \/ Has(todo, {"geo168"})
    \/ Has(todo, {"geo144"}) /\ sectors = 21 /\ block = 20
    \/ sectors = kind

\* The disk has the sector that is asked for.
Fits == Hts(block, sectors).sector <= kind

(***************************************************************************)
(* With the right geometry every try that has failed had an error of its   *)
(* own, so that there are tries left; with the wrong one none succeeds.    *)
(***************************************************************************)
Counted ==
    /\ sectors = kind /\ Has(todo, Inner) => tries <= errors
    /\ phase = "result" => IF op.on = NoDisk THEN sectors = kind => tries < errors ELSE Fits
    /\ todo # <<>> /\ Head(todo).do = "check" =>
          IF status = "ok" THEN Fits ELSE sectors = kind => tries < errors
    /\ todo # <<>> /\ Head(todo).do = "geo144" => (ret <=> sectors = kind)
    /\ todo = <<>> /\ requests > 0 => ret

RetryKnown == Ended /\ Geometry /\ Counted

RetryInv ==
    /\ HeadInv /\ ReadKnown
    /\ changes \in Nat /\ errors \in Nat /\ tries \in Nat
    /\ Followed(todo)
    /\ enabled => ~Has(todo, {"geo168", "geo144"})
    /\ changes = 0 => kind = IF disk = NoDisk THEN 0 ELSE DiskSectors[disk]
    /\ Undisturbed => RetryKnown

LEMMA RetryInit == Init => RetryInv
<1> SUFFICES ASSUME Init PROVE RetryInv
  OBVIOUS
<1> DEFINE x == Do("reset")
<1> DEFINE y == Do("geo168")
<1> DEFINE z == Do("install")
<1>1. x.do = "reset" /\ y.do = "geo168" /\ z.do = "install"
  BY DoItem DEF Procedure
<1>2. todo = <<x, y, z>>
  BY DEF Init
<1> HIDE DEF x, y, z
<1>3. Len(todo) = 3 /\ todo[1] = x /\ todo[2] = y /\ todo[3] = z /\ Head(todo) = x /\ todo # <<>>
  BY <1>2
<1>4. Has(todo, {"geo168"}) /\ ~Has(todo, Inner)
  BY <1>1, <1>3 DEF Has, Inner
<1>5. Followed(todo)
  BY <1>1, <1>3 DEF Followed, Follows
<1>6. ~enabled /\ phase = "ready" /\ changes = 0 /\ errors = 0 /\ tries = 0
      /\ kind = IF disk = NoDisk THEN 0 ELSE DiskSectors[disk]
  BY DEF Init
<1>7. Ended
  BY <1>1, <1>3, <1>6 DEF Ended
<1>8. Counted
  BY <1>1, <1>3, <1>4, <1>6 DEF Counted
<1>9. HeadInv /\ ReadKnown
  BY HeadInit, ReadInit DEF ReadInv
<1> QED
  BY <1>4, <1>5, <1>6, <1>7, <1>8, <1>9 DEF RetryInv, RetryKnown, Geometry

LEMMA ReplacedFollowed ==
    ASSUME NEW q \in Seq(Item), q # <<>>, NEW s \in Seq(Item), Followed(q), Followed(s),
           s # <<>> => \A p \in Procedure : Follows(Head(q).do, p) => Follows(s[Len(s)].do, p)
    PROVE  Followed(s \o Tail(q))
<1> DEFINE r == s \o Tail(q)
<1>1. /\ Len(r) = Len(s) + Len(q) - 1
      /\ \A i \in 1 .. Len(s) : r[i] = s[i]
      /\ \A i \in Len(s) + 1 .. Len(r) : r[i] = q[i - Len(s) + 1] /\ i - Len(s) + 1 \in 2 .. Len(q)
  BY Replaced
<1>2. Head(q) = q[1] /\ Len(q) \in Nat /\ Len(q) >= 1 /\ Len(s) \in Nat /\ (s # <<>> <=> Len(s) > 0)
  OBVIOUS
<1> HIDE DEF r
<1> SUFFICES ASSUME NEW i \in 2 .. Len(r) PROVE Follows(r[i - 1].do, r[i].do)
  BY DEF Followed, r
<1>3. CASE i <= Len(s)
  <2>1. i \in 2 .. Len(s) /\ i \in 1 .. Len(s) /\ i - 1 \in 1 .. Len(s)
    BY <1>2, <1>3
  <2> QED
    BY <1>1, <2>1 DEF Followed
<1>4. CASE i > Len(s)
  <2>1. i \in Len(s) + 1 .. Len(r)
    BY <1>1, <1>2, <1>4
  <2> DEFINE k == i - Len(s) + 1
  <2>2. k \in 2 .. Len(q) /\ r[i] = q[k]
    BY <1>1, <2>1
  <2>3. Follows(q[k - 1].do, q[k].do)
    BY <2>2 DEF Followed
  <2>4. CASE i - 1 > Len(s)
    <3>1. i - 1 \in Len(s) + 1 .. Len(r) /\ (i - 1) - Len(s) + 1 = k - 1
      BY <1>1, <1>2, <2>4
    <3>2. r[i - 1] = q[k - 1]
      BY <1>1, <3>1
    <3> QED
      BY <2>2, <2>3, <3>2
  <2>5. CASE i - 1 = Len(s)
    <3>1. k - 1 = 1 /\ Len(s) \in 1 .. Len(s) /\ s # <<>> /\ r[i - 1] = s[Len(s)]
      BY <1>1, <1>2, <2>5
    <3>2. q[k].do \in Procedure
      <4>1. q[k] \in Item
        BY <2>2
      <4> QED
        BY <4>1 DEF Item
    <3> QED
      BY <1>2, <2>2, <2>3, <3>1, <3>2
  <2> QED
    BY <1>2, <1>4, <2>4, <2>5
<1> QED
  BY <1>2, <1>3, <1>4

LEMMA FollowedThen ==
    ASSUME Stack, todo # <<>>, Followed(todo), NEW s \in Seq(Item), Then(s), Followed(s),
           s # <<>> => \A p \in Procedure : Follows(Head(todo).do, p) => Follows(s[Len(s)].do, p)
    PROVE  Followed(todo')
<1>1. todo \in Seq(Item) /\ todo' = s \o Tail(todo)
  BY DEF Stack, Then
<1> QED
  BY <1>1, ReplacedFollowed

LEMMA FollowedNone == Followed(<<>>)
  BY DEF Followed
LEMMA FollowedOne == ASSUME NEW x PROVE Followed(<<x>>)
  BY DEF Followed
LEMMA FollowedTwo == ASSUME NEW x, NEW y, Follows(x.do, y.do) PROVE Followed(<<x, y>>)
<1> DEFINE s == <<x, y>>
<1>1. Len(s) = 2 /\ s[1] = x /\ s[2] = y
  OBVIOUS
<1> HIDE DEF s
<1>2. Followed(s)
  BY <1>1 DEF Followed
<1> QED
  BY <1>2 DEF s
LEMMA FollowedThree ==
    ASSUME NEW x, NEW y, NEW z, Follows(x.do, y.do), Follows(y.do, z.do) PROVE Followed(<<x, y, z>>)
<1> DEFINE s == <<x, y, z>>
<1>1. Len(s) = 3 /\ s[1] = x /\ s[2] = y /\ s[3] = z
  OBVIOUS
<1> HIDE DEF s
<1>2. Followed(s)
  BY <1>1 DEF Followed
<1> QED
  BY <1>2 DEF s

\* What may follow h may follow l.
LEMMA Passed ==
    ASSUME NEW h, NEW l, h # "wait", l \in Inner \cup {"rw"} \/ h \notin Inner \cup {"rw"}
    PROVE  \A p \in Procedure : Follows(h, p) => Follows(l, p)
  BY DEF Follows

LEMMA FollowNames ==
    /\ {"rw", "try", "command", "check"} = Inner \cup {"rw"}
    /\ \A p \in {"reset", "recalibrate", "seek", "geo168", "geo144"} : p \notin Inner \cup {"rw"}
  BY DEF Inner

LEMMA FollowedBy ==
    ASSUME Stack, Followed(todo), todo # <<>>, NEW s \in Seq(Item), Then(s), Followed(s),
           NEW n \in 1 .. 3, Len(s) = n, Head(todo).do # "wait",
           s[n].do \in Inner \cup {"rw"} \/ Head(todo).do \notin Inner \cup {"rw"}
    PROVE  Followed(todo')
<1>1. s[Len(s)] = s[n]
  OBVIOUS
<1> QED
  BY <1>1, FollowedThen, Passed

LEMMA FollowedCalls ==
    ASSUME Stack, Followed(todo), FloppyRw \/ TryAfterChange \/ Try \/ TryAgain \/ Geo168 \/ Geo144
    PROVE  Followed(todo')
<1>1. CASE FloppyRw
  <2> DEFINE s == <<Do("try")>>
  <2>1. todo # <<>> /\ Then(s) /\ Head(todo).do = "rw"
    BY <1>1 DEF FloppyRw, Next1
  <2>2. s \in Seq(Item) /\ Len(s) = 1 /\ s[1].do = "try" /\ Followed(s)
    BY DoItem, Names, FollowedOne
  <2> HIDE DEF s
  <2> QED
    BY <2>1, <2>2, FollowedBy, FollowNames
<1>2. CASE TryAfterChange
  <2> DEFINE s == <<Seek(1), Do("recalibrate"), Do("rw")>>
  <2>1. todo # <<>> /\ Then(s) /\ Head(todo).do = "try"
    BY <1>2 DEF TryAfterChange, Next1
  <2>2. s \in Seq(Item) /\ Len(s) = 3 /\ s[3].do = "rw"
    BY StepsAfterChange, DoItem, Names DEF StepsOf
  <2>3. Followed(s)
    BY FollowedThree, DoItem, SeekItem, Names DEF Follows
  <2> HIDE DEF s
  <2> QED
    BY <2>1, <2>2, <2>3, FollowedBy, FollowNames
<1>3. CASE Try
  <2> DEFINE s == <<Seek(Target), Do("command")>>
  <2>1. todo # <<>> /\ Then(s) /\ Head(todo).do = "try"
    BY <1>3 DEF Try, Next1, Target
  <2>2. Target \in Int
    <3>1. Target \in Tracks
      BY <1>3, TriedWithGeometry DEF Try, Next1
    <3> QED
      BY <3>1 DEF Tracks
  <2>3. s \in Seq(Item)
    BY <2>2, StepsTry DEF StepsOf
  <2>4. Len(s) = 2 /\ s[2].do = "command"
    BY <2>2, DoItem, Names
  <2>5. Followed(s)
    BY <2>2, FollowedTwo, DoItem, SeekItem, Names DEF Follows
  <2> HIDE DEF s
  <2> QED
    BY <2>1, <2>3, <2>4, <2>5, FollowedBy, FollowNames
<1>4. CASE TryAgain
  <2> DEFINE s == <<Do("recalibrate"), Do("try")>>
  <2>1. todo # <<>> /\ Then(s) /\ Head(todo).do = "check"
    BY <1>4 DEF TryAgain, Next1
  <2>2. s \in Seq(Item) /\ Len(s) = 2 /\ s[2].do = "try"
    BY StepsAgain, DoItem, Names DEF StepsOf
  <2>3. Followed(s)
    BY FollowedTwo, DoItem, Names DEF Follows
  <2> HIDE DEF s
  <2> QED
    BY <2>1, <2>2, <2>3, FollowedBy, FollowNames
<1>5. CASE Geo168
  <2> DEFINE s == <<Do("reset"), Do("rw"), Do("geo144")>>
  <2>1. todo # <<>> /\ Then(s) /\ Head(todo).do = "geo168"
    BY <1>5 DEF Geo168, Next1
  <2>2. s \in Seq(Item) /\ Len(s) = 3 /\ s[3].do = "geo144"
    BY StepsGeo168, DoItem, Names DEF StepsOf
  <2>3. Followed(s)
    BY FollowedThree, DoItem, Names DEF Follows
  <2> HIDE DEF s
  <2> QED
    BY <2>1, <2>2, <2>3, FollowedBy, FollowNames
<1>6. CASE Geo144
  <2> DEFINE s == <<Do("rw")>>
  <2>1. todo # <<>> /\ Then(s) /\ Head(todo).do = "geo144"
    BY <1>6 DEF Geo144, Next1
  <2>2. s \in Seq(Item) /\ Len(s) = 1 /\ s[1].do = "rw" /\ Followed(s)
    BY DoItem, Names, FollowedOne
  <2> HIDE DEF s
  <2> QED
    BY <2>1, <2>2, FollowedBy, FollowNames
<1> QED
  BY <1>1, <1>2, <1>3, <1>4, <1>5, <1>6

LEMMA FollowedCommands ==
    ASSUME Stack, Followed(todo), FloppyReset \/ FloppySeek \/ FloppyRecalibrate \/ Command
    PROVE  Followed(todo')
<1>1. CASE FloppyReset
  <2> DEFINE s == <<Do("wait"), Seek(1), Do("recalibrate")>>
  <2>1. todo # <<>> /\ Then(s) /\ Head(todo).do = "reset"
    BY <1>1 DEF FloppyReset, Next1
  <2>2. s \in Seq(Item) /\ Len(s) = 3 /\ s[3].do = "recalibrate"
    BY StepsReset, DoItem, Names DEF StepsOf
  <2>3. Followed(s)
    BY FollowedThree, DoItem, SeekItem, Names DEF Follows
  <2> HIDE DEF s
  <2> QED
    BY <2>1, <2>2, <2>3, FollowedBy, FollowNames
<1>2. CASE FloppySeek
  <2> DEFINE y == [do |-> "sought", track |-> Head(todo).track]
  <2> DEFINE s == <<Do("wait"), y>>
  <2>1. todo # <<>> /\ Then(s) /\ Head(todo).do = "seek"
    BY <1>2 DEF FloppySeek, Next1
  <2>2. Head(todo).track \in Int
    <3>1. Head(todo) \in Item
      BY <2>1 DEF Stack
    <3> QED
      BY <3>1 DEF Item
  <2>3. s \in Seq(Item)
    BY <2>2, StepsSeek DEF StepsOf
  <2>4. Len(s) = 2 /\ s[2].do = "sought" /\ y.do = "sought"
    OBVIOUS
  <2> HIDE DEF y
  <2>5. Followed(s)
    BY <2>4, FollowedTwo, DoItem, Names DEF Follows
  <2> HIDE DEF s
  <2> QED
    BY <2>1, <2>3, <2>4, <2>5, FollowedBy, FollowNames
<1>3. CASE FloppyRecalibrate
  <2> DEFINE s == <<Do("wait")>>
  <2>1. todo # <<>> /\ Then(s) /\ Head(todo).do = "recalibrate"
    BY <1>3 DEF FloppyRecalibrate, Next1
  <2>2. s \in Seq(Item) /\ Len(s) = 1 /\ s[1].do = "wait" /\ Followed(s)
    BY DoItem, Names, FollowedOne
  <2> HIDE DEF s
  <2> QED
    BY <2>1, <2>2, FollowedBy, FollowNames
<1>4. CASE Command
  <2> DEFINE s == <<Do("wait"), Do("check")>>
  <2>1. todo # <<>> /\ Then(s) /\ Head(todo).do = "command"
    BY <1>4 DEF Command, Next1
  <2>2. s \in Seq(Item) /\ Len(s) = 2 /\ s[2].do = "check"
    BY StepsCommand, DoItem, Names DEF StepsOf
  <2>3. Followed(s)
    BY FollowedTwo, DoItem, Names DEF Follows
  <2> HIDE DEF s
  <2> QED
    BY <2>1, <2>2, <2>3, FollowedBy, FollowNames
<1> QED
  BY <1>1, <1>2, <1>3, <1>4

LEMMA FollowedStep == ASSUME Stack, Followed(todo), [Next]_vars PROVE Followed(todo')
<1>1. CASE FloppyRw \/ TryAfterChange \/ Try \/ TryAgain \/ Geo168 \/ Geo144
  BY <1>1, FollowedCalls
<1>2. CASE FloppyReset \/ FloppySeek \/ FloppyRecalibrate \/ Command
  BY <1>2, FollowedCommands
<1>3. CASE FloppyWait \/ Looks
  <2>1. todo # <<>> /\ Then(<<>>)
    BY <1>3 DEF Looks, FloppyWait, SeekThere, SeekChecked, GiveUp, CannotSeek, Worked, Geo168Is,
       Install, Returns
  <2>2. <<>> \in Seq(Item)
    OBVIOUS
  <2> QED
    BY <2>1, <2>2, FollowedNone, FollowedThen
<1>4. CASE Around
  <2>1. todo' = todo
    BY <1>4 DEF Around, SeekEnds, ReadEnds, Irq, TakeOut, PutIn, vars, driverVars
  <2> QED
    BY <2>1
<1>5. CASE \E b \in Block : FloppyIoctl(b)
  BY <1>5, FollowedOne DEF FloppyIoctl
<1> QED
  BY <1>1, <1>2, <1>3, <1>4, <1>5 DEF Next, Driver, Fdc, Looks, Around

-----------------------------------------------------------------------------
(* Tries are counted, in every step *)

LEMMA HasThen ==
    ASSUME Stack, todo # <<>>, NEW s \in Seq(Item), Then(s), NEW P
    PROVE  /\ Has(todo, P) /\ Head(todo).do \notin P => Has(todo', P)
           /\ Has(s, P) => Has(todo', P)
           /\ Has(todo', P) /\ ~Has(s, P) => Has(todo, P)
<1>1. todo \in Seq(Item) /\ todo' = s \o Tail(todo)
  BY DEF Stack, Then
<1>2. (\E i \in 2 .. Len(todo) : todo[i].do \in P) => Has(todo, P)
  <2>1. 2 .. Len(todo) \subseteq 1 .. Len(todo)
    BY <1>1
  <2> QED
    BY <2>1 DEF Has
<1> QED
  BY <1>1, <1>2, ReplacedHas

LEMMA GeometryKept ==
    ASSUME Stack, Geometry, todo # <<>>, NEW s \in Seq(Item), Then(s), UNCHANGED <<sectors, block, kind>>,
           Head(todo).do \notin {"geo168", "geo144"}
    PROVE  Geometry'
  BY HasThen DEF Geometry

\* The second thing to do is a check, or of a seek, only if the first is to wait.
LEMMA SecondAwaited ==
    ASSUME NEW q \in Seq(Item), Ordered(q), Followed(q), Len(q) >= 2
    PROVE  /\ q[2].do \in {"check", "sought"} => Head(q).do = "wait"
           /\ q[2].do # "wait"
           /\ q[2].do = "geo144" => Head(q).do \in Inner \cup {"rw"}
<1>1. /\ Head(q) = q[1] /\ 1 \in 1 .. Len(q) /\ 2 \in 1 .. Len(q) /\ 2 \in 2 .. Len(q) /\ 2 - 1 = 1
  OBVIOUS
<1>2. MayPrecede(q[1].do, q[2].do)
  BY <1>1 DEF Ordered
<1>3. Follows(q[1].do, q[2].do)
  <2>1. Follows(q[2 - 1].do, q[2].do)
    BY <1>1 DEF Followed
  <2> QED
    BY <1>1, <2>1
<1> QED
  BY <1>1, <1>2, <1>3 DEF MayPrecede, Follows

(***************************************************************************)
(* Unless the driver waits, or begins to, it comes to nothing that follows *)
(* a wait.                                                                 *)
(***************************************************************************)
LEMMA ComesNext ==
    ASSUME Stack, Followed(todo), todo # <<>>, Head(todo).do # "wait", NEW s \in Seq(Item), Then(s),
           s # <<>> => s[1].do \notin {"wait", "sought", "check"}, todo' # <<>>
    PROVE  Head(todo').do \notin {"wait", "sought", "check"}
<1>1. todo \in Seq(Item) /\ Ordered(todo) /\ todo' = s \o Tail(todo)
  BY DEF Stack, Then
<1>2. CASE s # <<>>
  BY <1>1, <1>2, FirstOfSteps
<1>3. CASE s = <<>>
  <2>1. todo' = Tail(todo)
    BY <1>1, <1>3
  <2>2. Len(todo) >= 2 /\ Head(todo') = todo[2]
    BY <2>1, ReturnsTo
  <2> QED
    BY <1>1, <2>2, SecondAwaited
<1> QED
  BY <1>2, <1>3

LEMMA EndedQuiet ==
    ASSUME Stack, Stack', Followed(todo), Followed(todo'), Ended, todo # <<>>, Head(todo).do # "wait",
           NEW s \in Seq(Item), Then(s), s # <<>> => s[1].do \notin {"wait", "sought", "check"},
           UNCHANGED phase, todo' # <<>> /\ Head(todo').do = "command" => ret'
    PROVE  Ended' /\ phase' = "ready" /\ (todo' # <<>> => Head(todo').do # "check")
<1>1. phase' = "ready"
  BY DEF Ended, Waits
<1>2. todo' # <<>> => Head(todo').do \notin {"wait", "sought", "check"}
  BY ComesNext
<1>3. todo' \in Seq(Item) /\ Ordered(todo')
  <2>1. (todo \in Seq(Item) /\ Ordered(todo))'
    BY DEF Stack
  <2> QED
    BY <2>1
<1>4. Len(todo') >= 2 => todo' # <<>>
  BY <1>3
<1>5. ~(Len(todo') >= 2 /\ todo'[2].do = "sought")
  BY <1>2, <1>3, <1>4, SecondAwaited
<1> QED
  BY <1>1, <1>2, <1>5 DEF Ended

(***************************************************************************)
(* The procedures that call others: the geometry is tried once more, or it *)
(* is set with no read under way.                                          *)
(***************************************************************************)
LEMMA RetryQuiet ==
    ASSUME Stack, Stack', Followed(todo), Followed(todo'), RetryKnown, todo # <<>>, Head(todo).do # "wait",
           NEW s \in Seq(Item), Then(s), Len(s) > 0,
           s[1].do \notin {"wait", "sought", "check", "command", "geo144"},
           UNCHANGED phase, Geometry',
           (sectors = kind /\ Has(todo, Inner) => tries <= errors)'
    PROVE  RetryKnown'
<1>1. s # <<>>
  OBVIOUS
<1>2. todo' # <<>> /\ Head(todo') = s[1]
  <2>1. todo \in Seq(Item) /\ todo' = s \o Tail(todo)
    BY DEF Stack, Then
  <2> QED
    BY <1>1, <2>1, FirstOfSteps
<1>3. Ended' /\ phase' = "ready"
  BY <1>2, EndedQuiet DEF RetryKnown
<1>4. Counted'
  BY <1>2, <1>3 DEF Counted
<1> QED
  BY <1>3, <1>4 DEF RetryKnown

LEMMA NoTryBehind ==
    ASSUME Stack, todo # <<>>, NEW s \in Seq(Item), Then(s), Head(todo).do \in {"geo168", "geo144"},
           ~Has(s, Inner)
    PROVE  ~Has(todo', Inner)
<1>1. todo \in Seq(Item) /\ Ordered(todo) /\ todo' = s \o Tail(todo)
  BY DEF Stack, Then
<1>2. Inner \in SUBSET Procedure /\ \A p \in Inner : ~MayPrecede(Head(todo).do, p)
  BY DEF Inner, Procedure, MayPrecede, Moving, Steps
<1>3. ~\E i \in 2 .. Len(todo) : todo[i].do \in Inner
  BY <1>1, <1>2, NotBehind
<1> QED
  BY <1>1, <1>3, ReplacedHas

LEMMA RetryGives ==
    ASSUME RetryInv, Undisturbed
    PROVE  /\ Stack /\ OwnInterrupt /\ HeadKnown /\ ReadKnown /\ RetryKnown /\ Followed(todo)
           /\ errors \in 0 .. 2 /\ tries \in Nat /\ late = 0
           /\ disk \in Disk /\ kind = DiskSectors[disk] /\ kind \in {18, 21}
  BY DiskAssumption DEF RetryInv, Undisturbed, HeadInv, ReadKnown

LEMMA RetryTries ==
    ASSUME RetryInv, Undisturbed, Stack', Followed(todo'),
           FloppyRw \/ TryAfterChange \/ Try \/ TryAgain
    PROVE  RetryKnown'
<1>0. /\ Stack /\ RetryKnown /\ Followed(todo) /\ errors \in 0 .. 2 /\ tries \in Nat
      /\ Geometry /\ Counted
  BY RetryGives DEF RetryKnown
<1>1. CASE FloppyRw
  <2> DEFINE s == <<Do("try")>>
  <2>1. /\ todo # <<>> /\ Then(s) /\ Head(todo).do = "rw" /\ tries' = 0
        /\ UNCHANGED <<phase, sectors, block, kind, errors>>
    BY <1>1 DEF FloppyRw, Next1, fdcVars, countVars
  <2>2. s \in Seq(Item) /\ Len(s) = 1 /\ s[1].do = "try"
    BY DoItem, Names
  <2> HIDE DEF s
  <2>3. Geometry'
    BY <1>0, <2>1, <2>2, GeometryKept
  <2> QED
    BY <1>0, <2>1, <2>2, <2>3, RetryQuiet
<1>2. CASE TryAfterChange
  <2> DEFINE s == <<Seek(1), Do("recalibrate"), Do("rw")>>
  <2>1. /\ todo # <<>> /\ Then(s) /\ Head(todo).do = "try"
        /\ UNCHANGED <<phase, sectors, block, kind, errors, tries>>
    BY <1>2 DEF TryAfterChange, Next1, fdcVars, countVars
  <2>2. s \in Seq(Item) /\ Len(s) = 3 /\ s[1].do = "seek"
    BY StepsAfterChange, SeekItem DEF StepsOf
  <2>3. ~Has(s, Inner)
    BY DoItem, SeekItem, Names, NoneInThree DEF Inner
  <2> HIDE DEF s
  <2>4. Geometry'
    BY <1>0, <2>1, <2>2, GeometryKept
  <2>5. (sectors = kind /\ Has(todo, Inner) => tries <= errors)'
    BY <1>0, <2>1, <2>2, <2>3, HasThen DEF Counted
  <2> QED
    BY <1>0, <2>1, <2>2, <2>4, <2>5, RetryQuiet
<1>3. CASE Try
  <2> DEFINE s == <<Seek(Target), Do("command")>>
  <2>1. /\ todo # <<>> /\ Then(s) /\ Head(todo).do = "try"
        /\ UNCHANGED <<phase, sectors, block, kind, errors, tries>>
    BY <1>3 DEF Try, Next1, Target, fdcVars, countVars
  <2>2. Target \in Int
    <3>1. Target \in Tracks
      BY <1>0, <1>3, TriedWithGeometry DEF Try, Next1
    <3> QED
      BY <3>1 DEF Tracks
  <2>3. s \in Seq(Item)
    BY <2>2, StepsTry DEF StepsOf
  <2>4. Len(s) = 2 /\ s[1].do = "seek"
    BY <2>2, SeekItem
  <2> HIDE DEF s
  <2>5. Geometry'
    BY <1>0, <2>1, <2>3, GeometryKept
  <2>6. Has(todo, Inner)
    <3>1. 1 \in 1 .. Len(todo) /\ todo[1].do = "try"
      BY <1>0, <2>1 DEF Stack
    <3> QED
      BY <3>1 DEF Has, Inner
  <2>7. (sectors = kind /\ Has(todo, Inner) => tries <= errors)'
    BY <1>0, <2>1, <2>6 DEF Counted
  <2> QED
    BY <1>0, <2>1, <2>3, <2>4, <2>5, <2>7, RetryQuiet
<1>4. CASE TryAgain
  <2> DEFINE s == <<Do("recalibrate"), Do("try")>>
  <2>1. /\ todo # <<>> /\ Then(s) /\ Head(todo).do = "check" /\ status # "ok" /\ tries' = tries + 1
        /\ UNCHANGED <<phase, sectors, block, kind, errors>>
    BY <1>4 DEF TryAgain, Next1, NextTry, fdcVars, countVars
  <2>2. s \in Seq(Item) /\ Len(s) = 2 /\ s[1].do = "recalibrate"
    BY StepsAgain, DoItem, Names DEF StepsOf
  <2> HIDE DEF s
  <2>3. Geometry'
    BY <1>0, <2>1, <2>2, GeometryKept
  <2>4. sectors = kind => tries + 1 <= errors
    BY <1>0, <2>1 DEF Counted
  <2> QED
    BY <1>0, <2>1, <2>2, <2>3, <2>4, RetryQuiet
<1> QED
  BY <1>1, <1>2, <1>3, <1>4

LEMMA RetryGeometry ==
    ASSUME RetryInv, Undisturbed, Stack', Followed(todo'), Geo168 \/ Geo144
    PROVE  RetryKnown'
<1>0. Stack /\ RetryKnown /\ Followed(todo) /\ Geometry /\ Counted /\ kind \in {18, 21}
  BY RetryGives DEF RetryKnown
<1>1. CASE Geo168
  <2> DEFINE s == <<Do("reset"), Do("rw"), Do("geo144")>>
  <2>1. /\ todo # <<>> /\ Then(s) /\ Head(todo).do = "geo168" /\ sectors' = 21 /\ block' = 20
        /\ UNCHANGED phase
    BY <1>1 DEF Geo168, Next1, fdcVars
  <2>2. s \in Seq(Item) /\ Len(s) = 3 /\ s[1].do = "reset"
    BY StepsGeo168, DoItem, Names DEF StepsOf
  <2>3. ~Has(s, Inner)
    BY DoItem, Names, NoneInThree DEF Inner
  <2>4. Has(s, {"geo144"})
    <3>1. 3 \in 1 .. Len(s) /\ s[3].do = "geo144"
      BY <2>2, DoItem, Names
    <3> QED
      BY <3>1 DEF Has
  <2> HIDE DEF s
  <2>5. Geometry'
    BY <1>0, <2>1, <2>2, <2>4, HasThen DEF Geometry
  <2>6. ~Has(todo', Inner)
    BY <1>0, <2>1, <2>2, <2>3, NoTryBehind
  <2>7. s[1].do \notin {"wait", "sought", "check", "command", "geo144"} /\ Len(s) > 0 /\ Head(todo).do # "wait"
    BY <2>1, <2>2
  <2>8. (sectors = kind /\ Has(todo, Inner) => tries <= errors)'
    BY <2>6
  <2> QED
    BY <1>0, <2>1, <2>2, <2>5, <2>7, <2>8, RetryQuiet
<1>2. CASE Geo144
  <2> DEFINE s == <<Do("rw")>>
  <2>1. /\ todo # <<>> /\ Then(s) /\ Head(todo).do = "geo144" /\ ~ret /\ sectors' = 18
        /\ UNCHANGED <<phase, kind>>
    BY <1>2 DEF Geo144, Next1, fdcVars, countVars
  <2>2. s \in Seq(Item) /\ Len(s) = 1 /\ s[1].do = "rw" /\ ~Has(s, Inner)
    BY DoItem, Names, NoneInOne DEF Inner
  <2> HIDE DEF s
  <2>3. sectors # kind
    BY <1>0, <2>1 DEF Counted
  <2>4. ~Has(todo, {"geo168"})
    <3>1. {"geo168"} \in SUBSET Procedure /\ \A p \in {"geo168"} : ~MayPrecede(Head(todo).do, p)
      BY <2>1 DEF Procedure, MayPrecede, Steps, Moving
    <3>2. todo \in Seq(Item) /\ Ordered(todo) /\ todo # <<>>
      BY <1>0, <2>1 DEF Stack
    <3>3. ~\E i \in 2 .. Len(todo) : todo[i].do \in {"geo168"}
      BY <3>1, <3>2, NotBehind
    <3>4. Len(todo) \in Nat /\ Head(todo) = todo[1]
      BY <3>2
    <3> QED
      BY <2>1, <3>3, <3>4 DEF Has
  <2>5. sectors = 21
    BY <1>0, <2>3, <2>4 DEF Geometry
  <2>6. Geometry'
    BY <1>0, <2>1, <2>3, <2>5 DEF Geometry
  <2>7. ~Has(todo', Inner)
    BY <1>0, <2>1, <2>2, NoTryBehind
  <2>8. s[1].do \notin {"wait", "sought", "check", "command", "geo144"} /\ Len(s) > 0 /\ Head(todo).do # "wait"
    BY <2>1, <2>2
  <2>9. (sectors = kind /\ Has(todo, Inner) => tries <= errors)'
    BY <2>7
  <2> QED
    BY <1>0, <2>1, <2>2, <2>6, <2>8, <2>9, RetryQuiet
<1> QED
  BY <1>1, <1>2

(***************************************************************************)
(* The procedures that return.  floppy_rw() does not give up a read that   *)
(* can work, and does not succeed in one that cannot.                      *)
(***************************************************************************)
LEMMA FitsIsRight ==
    ASSUME Fits, kind \in {18, 21}, sectors = 21 /\ block = 20 PROVE sectors = kind
  BY DEF Fits, Hts

LEMMA EmptyOrNot == ASSUME NEW q \in Seq(Item) PROVE Len(q) \in Nat /\ (q = <<>> <=> Len(q) = 0)
  OBVIOUS
LEMMA OnlyOne ==
    ASSUME NEW q \in Seq(Item), q # <<>>, Tail(q) = <<>>
    PROVE  1 \in 1 .. Len(q) /\ Head(q) = q[1] /\ Len(q) = 1
<1>1. Tail(q) \in Seq(Item) /\ Len(Tail(q)) = Len(q) - 1 /\ Head(q) = q[1]
  OBVIOUS
<1>2. Len(q) \in Nat /\ Len(Tail(q)) = 0
  BY <1>1, EmptyOrNot
<1>3. Len(q) = 1
  BY <1>1, <1>2
<1> QED
  BY <1>1, <1>3

LEMMA RetryLooks ==
    ASSUME RetryInv, Undisturbed, Stack', Followed(todo'), Looks PROVE RetryKnown'
<1>0. /\ Stack /\ RetryKnown /\ Followed(todo) /\ ReadKnown /\ Ended /\ Geometry /\ Counted
      /\ kind \in {18, 21} /\ errors \in 0 .. 2 /\ tries \in Nat
  BY RetryGives DEF RetryKnown
<1>1. /\ todo # <<>> /\ Then(<<>>) /\ Head(todo).do # "wait"
      /\ UNCHANGED <<phase, tries, errors, requests, block, sectors, kind>>
  BY DEF Looks, SeekThere, SeekChecked, GiveUp, CannotSeek, Worked, Geo168Is, Install, Next1, Returns,
     fdcVars, driveVars, countVars
<1>2. todo' = Tail(todo) /\ <<>> \in Seq(Item) /\ todo \in Seq(Item) /\ Ordered(todo)
  BY <1>0, <1>1 DEF Then, Stack
<1>3. ASSUME todo' # <<>>, Head(todo').do = "command" PROVE ret'
  <2>1. Head(todo).do \in {"seek", "sought"}
    BY <1>0, <1>1, <1>2, <1>3, ReturnsTo, AimedAt
  <2>2. SeekThere \/ SeekChecked
    BY <2>1 DEF Looks, GiveUp, CannotSeek, Worked, Geo168Is, Install, Next1
  <2> QED
    BY <1>0, <2>2 DEF SeekThere, SeekChecked, Sought, Returns, Next1, Ended
<1>4. Ended' /\ phase' = "ready" /\ (todo' # <<>> => Head(todo').do # "check")
  BY <1>0, <1>1, <1>2, <1>3, EndedQuiet
<1>5. Head(todo).do \in Inner => Has(todo, Inner)
  <2>1. 1 \in 1 .. Len(todo) /\ Head(todo) = todo[1]
    BY <1>1, <1>2
  <2> QED
    BY <2>1 DEF Has
<1>6. ASSUME Head(todo).do \in Inner
      PROVE  \/ Worked /\ ret' /\ Fits
             \/ GiveUp /\ ~ret' /\ sectors # kind
  <2>1. GiveUp \/ Worked
    <3>1. ~CannotSeek
      BY <1>0 DEF CannotSeek, Next1, Ended
    <3> QED
      BY <1>6, <3>1 DEF Looks, SeekThere, SeekChecked, Geo168Is, Install, Next1, Inner
  <2>2. CASE GiveUp
    <3>1. tries = 3 /\ ret' = FALSE
      BY <2>2 DEF GiveUp, Returns
    <3>2. sectors # kind
      BY <1>0, <1>5, <1>6, <3>1 DEF Counted
    <3> QED
      BY <2>2, <3>1, <3>2
  <2>3. CASE Worked
    BY <1>0, <2>3 DEF Worked, Returns, Next1, Counted
  <2> QED
    BY <2>1, <2>2, <2>3
<1>7. ASSUME Worked, Geometry, ~Has(todo, {"geo168"}) PROVE sectors = kind
  <2>1. Fits
    BY <1>0, <1>7 DEF Worked, Next1, Counted
  <2> QED
    BY <1>0, <1>7, <2>1, FitsIsRight DEF Geometry
<1>8. Geometry'
  <2>1. CASE Geo168Is
    <3>1. sectors = kind
      BY <1>0, <2>1 DEF Geo168Is, Next1, Counted
    <3> QED
      BY <1>1, <3>1 DEF Geometry
  <2>2. CASE ~Geo168Is
    <3>1. Head(todo).do \notin {"geo168", "geo144"}
      BY <2>2 DEF Looks, SeekThere, SeekChecked, GiveUp, CannotSeek, Worked, Install, Next1
    <3> QED
      BY <1>0, <1>1, <1>2, <3>1, GeometryKept
  <2> QED
    BY <2>1, <2>2
<1>9. (sectors = kind /\ Has(todo, Inner) => tries <= errors)'
  <2>1. Has(todo', Inner) => Has(todo, Inner)
    BY <1>0, <1>1, <1>2, HasThen, NoneInNone
  <2> QED
    BY <1>0, <1>1, <2>1 DEF Counted
<1>10. ASSUME todo' # <<>>, Head(todo').do = "geo144" PROVE ret' <=> sectors = kind
  <2>1. Len(todo) >= 2 /\ todo[2].do = "geo144"
    BY <1>0, <1>1, <1>2, <1>10, ReturnsTo
  <2>2. Head(todo).do \in Inner \cup {"rw"}
    BY <1>0, <1>2, <2>1, SecondAwaited
  <2>3. Head(todo).do \in Inner
    BY <2>2 DEF Looks, SeekThere, SeekChecked, GiveUp, CannotSeek, Worked, Geo168Is, Install, Next1
  <2>4. ~Has(todo, {"geo168"})
    <3>1. \A h \in Inner \cup {"geo144"} : ~MayPrecede(h, "geo168")
      BY DEF Inner, MayPrecede, Steps, Moving
    <3>2. {"geo168"} \in SUBSET Procedure
      BY DEF Procedure
    <3>3. ~\E i \in 2 .. Len(todo) : todo[i].do \in {"geo168"}
      BY <1>1, <1>2, <2>3, <3>1, <3>2, NotBehind
    <3>4. Len(todo) \in Nat /\ Head(todo) = todo[1]
      BY <1>1, <1>2
    <3>5. Head(todo).do # "geo168"
      BY <2>3 DEF Inner
    <3> QED
      BY <3>3, <3>4, <3>5 DEF Has
  <2> QED
    BY <1>0, <1>6, <1>7, <2>3, <2>4
<1>11. ASSUME todo' = <<>>, requests > 0 PROVE ret'
  <2>1. Head(todo).do \in Last
    <3>1. todo' = <<>> \o Tail(todo)
      BY <1>1 DEF Then
    <3>2. todo[Len(todo)].do \in Last
      BY <1>0, <1>1 DEF ReadKnown
    <3> QED
      BY <1>1, <1>2, <1>11, <3>1, <3>2, ReplacedLast
  <2>2. 1 \in 1 .. Len(todo) /\ Head(todo) = todo[1] /\ Len(todo) = 1
    BY <1>1, <1>2, <1>11, OnlyOne
  <2>3. Head(todo).do # "install"
    <3>1. requests # 0
      BY <1>11
    <3> QED
      BY <1>0, <2>2, <3>1 DEF ReadKnown, Has
  <2>4. Head(todo).do \in Inner
    BY <2>1, <2>3 DEF Looks, SeekThere, SeekChecked, GiveUp, CannotSeek, Worked, Geo168Is, Install,
       Next1, Last, Inner
  <2>5. ~Has(todo, {"geo168"}) /\ ~Has(todo, {"geo144"})
    BY <2>2, <2>4 DEF Has, Inner
  <2>6. sectors = kind
    BY <1>0, <2>5 DEF Geometry
  <2> QED
    BY <1>6, <2>4, <2>6
<1>12. Counted'
  BY <1>1, <1>4, <1>9, <1>10, <1>11 DEF Counted
<1> QED
  BY <1>4, <1>8, <1>12 DEF RetryKnown

(***************************************************************************)
(* The commands are accepted, and the driver waits for their ends.         *)
(***************************************************************************)
LEMMA RetryWaitNext ==
    ASSUME Stack, RetryKnown, Followed(todo), todo # <<>>, NEW s \in Seq(Item), Then(s),
           Len(s) > 0, s[1].do = "wait", UNCHANGED <<sectors, block, kind, tries, errors>>,
           Head(todo).do \notin {"wait", "geo168", "geo144"}, Has(s, Inner) => Has(todo, Inner),
           phase' \in {"seeking", "reset"} \/ (phase' = "reading" /\ Len(s) >= 2 /\ s[2].do = "check"),
           Len(s) >= 2 /\ s[2].do = "sought" => phase' = "seeking" /\ op'.track = s[2].track
    PROVE  RetryKnown'
<1>0. Geometry /\ Counted
  BY DEF RetryKnown
<1>1. todo' = s \o Tail(todo) /\ todo \in Seq(Item) /\ Ordered(todo) /\ s # <<>>
  BY DEF Then, Stack
<1>2. todo' # <<>> /\ Head(todo').do = "wait"
  BY <1>1, FirstOfSteps
<1>3. /\ Len(todo') = Len(s) + Len(todo) - 1 /\ Len(todo) \in Nat /\ Len(s) \in Nat
      /\ \A i \in 1 .. Len(s) : todo'[i] = s[i]
      /\ \A i \in Len(s) + 1 .. Len(todo') :
            todo'[i] = todo[i - Len(s) + 1] /\ i - Len(s) + 1 \in 2 .. Len(todo)
  <2>1. /\ Len(s \o Tail(todo)) = Len(s) + Len(todo) - 1
        /\ \A i \in 1 .. Len(s) : (s \o Tail(todo))[i] = s[i]
        /\ \A i \in Len(s) + 1 .. Len(s \o Tail(todo)) :
              (s \o Tail(todo))[i] = todo[i - Len(s) + 1] /\ i - Len(s) + 1 \in 2 .. Len(todo)
    BY <1>1, Replaced
  <2>2. Len(todo) \in Nat /\ Len(s) \in Nat
    BY <1>1
  <2> QED
    BY <1>1, <2>1, <2>2
<1>4. Len(todo) >= 1
  BY <1>1
<1>5. phase' = "reading" => Len(todo') >= 2 /\ todo'[2].do = "check"
  <2> SUFFICES ASSUME phase' = "reading" PROVE Len(todo') >= 2 /\ todo'[2].do = "check"
    OBVIOUS
  <2>1. Len(s) >= 2 /\ s[2].do = "check"
    OBVIOUS
  <2>2. 2 \in 1 .. Len(s)
    BY <1>3, <2>1
  <2> QED
    BY <1>3, <1>4, <2>1, <2>2
<1>6. ASSUME Len(todo') >= 2, todo'[2].do = "sought"
      PROVE  phase' = "seeking" /\ op'.track = todo'[2].track
  <2>1. CASE Len(s) >= 2
    <3>1. 2 \in 1 .. Len(s) /\ todo'[2] = s[2]
      BY <1>3, <2>1
    <3> QED
      BY <1>6, <2>1, <3>1
  <2>2. CASE Len(s) = 1
    <3>1. 2 \in Len(s) + 1 .. Len(todo') /\ 2 - Len(s) + 1 = 2
      BY <1>3, <1>6, <2>2
    <3>2. Len(todo) >= 2 /\ todo[2].do = "sought"
      BY <1>3, <1>6, <3>1
    <3> QED
      BY <1>1, <3>2, SecondAwaited
  <2>3. Len(s) >= 2 \/ Len(s) = 1
    <3>1. \A n \in Nat : n > 0 => n >= 2 \/ n = 1
      OBVIOUS
    <3> QED
      BY <1>3, <3>1
  <2> QED
    BY <2>1, <2>2, <2>3
<1>7. Ended'
  BY <1>2, <1>5, <1>6 DEF Ended, Waits
<1>8. Geometry'
  BY <1>0, GeometryKept
<1>9. Has(todo', Inner) => Has(todo, Inner)
  BY HasThen
<1>10. Counted'
  BY <1>0, <1>2, <1>9 DEF Counted
<1> QED
  BY <1>7, <1>8, <1>10 DEF RetryKnown

LEMMA RetryCommands ==
    ASSUME RetryInv, Undisturbed, FloppyReset \/ FloppySeek \/ FloppyRecalibrate \/ Command
    PROVE  RetryKnown'
<1> DEFINE Q == UNCHANGED <<sectors, block, kind, tries, errors>>
<1>0. Stack /\ RetryKnown /\ Followed(todo) /\ (todo # <<>> /\ Head(todo).do # "wait" => phase = "ready")
  BY RetryGives DEF RetryKnown, Ended, Waits
<1>1. CASE FloppyReset
  <2> DEFINE s == <<Do("wait"), Seek(1), Do("recalibrate")>>
  <2>1. todo # <<>> /\ Then(s) /\ Head(todo).do = "reset" /\ Q /\ phase' = "reset"
    BY <1>1 DEF FloppyReset, Next1, countVars
  <2>2. s \in Seq(Item) /\ Len(s) = 3 /\ s[1].do = "wait" /\ s[2].do = "seek"
    BY StepsReset, DoItem, SeekItem, Names DEF StepsOf
  <2>3. ~Has(s, Inner)
    BY DoItem, SeekItem, Names, NoneInThree DEF Inner
  <2> HIDE DEF s
  <2> QED
    BY <1>0, <2>1, <2>2, <2>3, RetryWaitNext
<1>2. CASE FloppySeek
  <2> DEFINE t == Head(todo).track
  <2> DEFINE y == [do |-> "sought", track |-> t]
  <2> DEFINE o == [Nothing EXCEPT !.track = t]
  <2> DEFINE s == <<Do("wait"), y>>
  <2>1. todo # <<>> /\ Then(s) /\ Head(todo).do = "seek" /\ Q /\ Send("seeking", o)
    BY <1>2 DEF FloppySeek, Next1, countVars
  <2>2. t \in Int
    <3>1. Head(todo) \in Item
      BY <1>0, <2>1 DEF Stack
    <3> QED
      BY <3>1 DEF Item
  <2>3. s \in Seq(Item)
    BY <2>2, StepsSeek DEF StepsOf
  <2>4. Len(s) = 2 /\ s[1].do = "wait" /\ s[2] = y /\ y.track = t /\ y.do = "sought"
    BY DoItem, Names
  <2>5. o.track = t
    BY DEF Nothing
  <2> HIDE DEF y, o
  <2>6. ~Has(s, Inner)
    BY <2>4, DoItem, Names, NoneInTwo DEF Inner
  <2> HIDE DEF s
  <2>7. phase' = "seeking" /\ op' = o
    BY <1>0, <2>1 DEF Send
  <2> HIDE DEF t
  <2> QED
    BY <1>0, <2>1, <2>3, <2>4, <2>5, <2>6, <2>7, RetryWaitNext
<1>3. CASE FloppyRecalibrate
  <2> DEFINE s == <<Do("wait")>>
  <2>1. /\ todo # <<>> /\ Then(s) /\ Head(todo).do = "recalibrate" /\ Q
        /\ Send("seeking", [Nothing EXCEPT !.head = 1])
    BY <1>3 DEF FloppyRecalibrate, Next1, countVars
  <2>2. s \in Seq(Item) /\ Len(s) = 1 /\ s[1].do = "wait"
    BY StepsRecalibrate, DoItem, Names DEF StepsOf
  <2>3. ~Has(s, Inner)
    BY DoItem, Names, NoneInOne DEF Inner
  <2>4. phase' = "seeking"
    BY <1>0, <2>1 DEF Send
  <2> HIDE DEF s
  <2> QED
    BY <1>0, <2>1, <2>2, <2>3, <2>4, RetryWaitNext
<1>4. CASE Command
  <2> DEFINE s == <<Do("wait"), Do("check")>>
  <2>1. /\ todo # <<>> /\ Then(s) /\ Head(todo).do = "command" /\ Q
        /\ Send("reading", Hts(block, sectors))
    BY <1>4 DEF Command, Next1, countVars
  <2>2. s \in Seq(Item) /\ Len(s) = 2 /\ s[1].do = "wait" /\ s[2].do = "check"
    BY StepsCommand, DoItem, Names DEF StepsOf
  <2>3. phase' = "reading"
    BY <1>0, <2>1 DEF Send
  <2>4. Has(todo, Inner)
    <3>1. 1 \in 1 .. Len(todo) /\ todo[1].do = "command"
      BY <1>0, <2>1 DEF Stack
    <3> QED
      BY <3>1 DEF Has, Inner
  <2> HIDE DEF s
  <2> QED
    BY <1>0, <2>1, <2>2, <2>3, <2>4, RetryWaitNext
<1> QED
  BY <1>1, <1>2, <1>3, <1>4

(***************************************************************************)
(* The wait ends when the controller has: with the result of the read, or  *)
(* on the track that was sought.                                           *)
(***************************************************************************)
LEMMA RetryWait ==
    ASSUME RetryInv, Undisturbed, FloppyWait, late' = 0 PROVE RetryKnown'
<1>0. /\ Stack /\ OwnInterrupt /\ HeadKnown /\ ReadKnown /\ Followed(todo) /\ late = 0
      /\ disk # NoDisk /\ Ended /\ Geometry /\ Counted
  BY RetryGives DEF RetryKnown, Undisturbed
<1>1. /\ todo # <<>> /\ Head(todo).do = "wait" /\ todo' = Tail(todo) /\ Then(<<>>)
      /\ UNCHANGED <<pcn, op, block, sectors, kind, tries, errors, requests>>
      /\ track' = IF phase \in {"sought", "reset"} THEN pcn ELSE NoTrack
      /\ sr0' = CASE phase = "sought" -> "ok" [] phase = "reset" -> "reset" [] OTHER -> "invalid"
      /\ phase' = IF Raises(phase) THEN "ready" ELSE phase
      /\ status' = WaitStatus
      /\ Busy /\ ~done => late' = late + 1
  BY <1>0 DEF FloppyWait, Returns, Then, Next1, Stack
<1>2. todo \in Seq(Item) /\ Ordered(todo) /\ <<>> \in Seq(Item)
  BY <1>0 DEF Stack
<1>3. phase \notin {"seeking", "reading"}
  <2> SUFFICES ASSUME phase \in {"seeking", "reading"} PROVE FALSE
    OBVIOUS
  <2>1. ~done /\ Busy
    BY <1>0 DEF OwnInterrupt, Raises, Busy
  <2> QED
    BY <1>0, <1>1, <2>1
<1>4. phase' = "ready"
  <2>1. phase \in {"ready", "sought", "result", "reset"}
    BY <1>0, <1>3 DEF HeadKnown
  <2> QED
    BY <1>1, <2>1 DEF Raises
<1>5. todo' # <<>> => Len(todo) >= 2 /\ Head(todo') = todo[2]
  BY <1>0, <1>1, ReturnsTo
<1>6. todo' # <<>>
  <2>1. todo[Len(todo)].do \in Last /\ "wait" \notin Last /\ todo' = <<>> \o Tail(todo)
    BY <1>0, <1>1 DEF ReadKnown, Last, Then
  <2> QED
    BY <1>1, <1>2, <2>1, ReplacedLast
<1>7. Head(todo').do # "command"
  BY <1>0, <1>1, <1>5, <1>6, AimedAt
<1>8. Head(todo').do # "geo144"
  BY <1>0, <1>1, <1>2, <1>5, <1>6, SecondAwaited DEF Inner
<1>9. ASSUME Head(todo').do = "sought" PROVE sr0' = "ok" /\ track' = Head(todo').track
  BY <1>0, <1>1, <1>3, <1>5, <1>6, <1>9 DEF Ended
<1>10. ASSUME Len(todo') >= 2, todo'[2].do = "sought" PROVE FALSE
  <2>1. Followed(todo')
    BY <1>0, <1>1, <1>2, FollowedNone, FollowedThen
  <2>2. todo' \in Seq(Item) /\ Ordered(todo')
    <3>1. Stack'
      BY <1>0, StackWait
    <3>2. (todo \in Seq(Item) /\ Ordered(todo))'
      BY <3>1 DEF Stack
    <3> QED
      BY <3>2
  <2>3. Head(todo').do = "wait"
    BY <1>10, <2>1, <2>2, SecondAwaited
  <2> QED
    BY <1>0, <1>2, <1>5, <1>6, <2>3, SecondAwaited
<1>11. ASSUME Head(todo').do = "check"
       PROVE  IF status' = "ok" THEN Fits ELSE sectors = kind => tries < errors
  <2>1. phase = "result"
    BY <1>0, <1>3, <1>5, <1>6, <1>11 DEF ReadKnown
  <2>2. status' = IF op.on = NoDisk THEN "error" ELSE "ok"
    BY <1>1, <2>1 DEF WaitStatus
  <2> QED
    BY <1>0, <2>1, <2>2 DEF Counted
<1>12. Ended'
  BY <1>4, <1>7, <1>9, <1>10 DEF Ended
<1>13. Geometry'
  BY <1>0, <1>1, <1>2, GeometryKept
<1>14. Has(todo', Inner) => Has(todo, Inner)
  BY <1>0, <1>1, <1>2, HasThen, NoneInNone
<1>15. Fits' <=> Fits
  BY <1>1 DEF Fits
<1>16. Counted'
  BY <1>0, <1>1, <1>4, <1>6, <1>8, <1>11, <1>14, <1>15 DEF Counted
<1> QED
  BY <1>12, <1>13, <1>16 DEF RetryKnown

LEMMA RetrySeekEnds == ASSUME RetryInv, Undisturbed, SeekEnds PROVE RetryKnown'
<1>0. Ended /\ Geometry /\ Counted
  BY RetryGives DEF RetryKnown
<1>1. /\ phase = "seeking" /\ phase' = "sought" /\ pcn' = op.track
      /\ UNCHANGED <<op, todo, sr0, track, ret, status, tries, errors, block, sectors, kind, requests>>
  BY DEF SeekEnds, driverVars, countVars
<1>2. Waits'
  BY <1>0, <1>1 DEF Ended, Waits
<1>3. Ended'
  BY <1>0, <1>1, <1>2 DEF Ended
<1> QED
  BY <1>0, <1>1, <1>3 DEF RetryKnown, Geometry, Counted, Fits

\* No sector is beyond the end of the track, if the geometry is right.
LEMMA SectorFits == ASSUME Stack, sectors \in {18, 21} PROVE Hts(block, sectors).sector <= sectors
<1>1. block \in Int
  BY DEF Stack
<1>2. (block % sectors) + 1 <= sectors
  BY <1>1
<1> QED
  BY <1>2 DEF Hts

(***************************************************************************)
(* A read of a sector the disk has fails only by an error.                 *)
(***************************************************************************)
LEMMA RetryReadEnds == ASSUME RetryInv, Undisturbed, ReadEnds PROVE RetryKnown'
<1>0. /\ Stack /\ HeadKnown /\ ReadKnown /\ Ended /\ Geometry /\ Counted /\ late = 0
      /\ disk \in Disk /\ kind = DiskSectors[disk] /\ kind \in {18, 21} /\ tries \in Nat /\ errors \in 0 .. 2
  BY RetryGives DEF RetryKnown
<1>1. /\ phase = "reading" /\ phase' = "result" /\ disk # NoDisk
      /\ UNCHANGED <<todo, sr0, track, ret, status, tries, block, sectors, kind, requests>>
      /\ \/ /\ head = op.track /\ op.sector <= DiskSectors[disk]
            /\ op' = [op EXCEPT !.on = disk] /\ errors' = errors
         \/ ~(head = op.track /\ op.sector <= DiskSectors[disk]) /\ op' = op /\ errors' = errors
         \/ op' = op /\ errors' = errors + 1
  BY DEF ReadEnds, driverVars, driveVars
<1>2. Len(todo) >= 2 /\ todo[2].do = "check" /\ Waits
  BY <1>0, <1>1 DEF Ended
<1>3. SameSector(op) /\ op.on = NoDisk /\ head = op.track /\ op \in Order
  BY <1>0, <1>1, <1>2 DEF ReadKnown, HeadKnown
<1>4. op.sector = Hts(block, sectors).sector
  BY <1>3 DEF SameSector
<1>5. Has(todo, Inner)
  <2>1. 2 \in 1 .. Len(todo)
    BY <1>0, <1>2 DEF Stack
  <2> QED
    BY <1>2, <2>1 DEF Has, Inner
<1>6. sectors = kind => tries <= errors /\ Hts(block, sectors).sector <= kind
  BY <1>0, <1>5, SectorFits DEF Counted
<1>7. IF op'.on = NoDisk THEN sectors = kind => tries < errors' ELSE Fits
  <2>1. CASE op' = [op EXCEPT !.on = disk] /\ op.sector <= DiskSectors[disk]
    <3>1. op'.on # NoDisk
      BY <1>0, <1>1, <1>3, <2>1, OnDisk
    <3> QED
      BY <1>0, <1>4, <2>1, <3>1 DEF Fits
  <2>2. CASE op' = op /\ ~(head = op.track /\ op.sector <= DiskSectors[disk])
    BY <1>0, <1>3, <1>4, <1>6, <2>2
  <2>3. CASE op' = op /\ errors' = errors + 1
    BY <1>0, <1>3, <1>6, <2>3
  <2> QED
    BY <1>1, <2>1, <2>2, <2>3
<1>8. errors' >= errors /\ errors' \in Nat
  BY <1>0, <1>1
<1>9. Ended'
  BY <1>0, <1>1, <1>2 DEF Ended, Waits
<1>10. Fits' <=> Fits
  BY <1>1 DEF Fits
<1>11. (sectors = kind /\ Has(todo, Inner) => tries <= errors)'
  BY <1>0, <1>1, <1>6, <1>8
<1>12. todo # <<>> /\ Head(todo).do = "wait"
  BY <1>2 DEF Waits
<1>13. Counted'
  BY <1>1, <1>7, <1>10, <1>11, <1>12 DEF Counted
<1> QED
  BY <1>0, <1>1, <1>9, <1>13 DEF RetryKnown, Geometry

LEMMA RetryUnchanged ==
    ASSUME RetryKnown, UNCHANGED <<phase, op, pcn, todo, sr0, track, ret, status, tries, errors, block,
                                   sectors, kind, requests>>
    PROVE  RetryKnown'
  BY DEF RetryKnown, Ended, Geometry, Counted, Waits, Fits

LEMMA RetryIoctl ==
    ASSUME RetryInv, Undisturbed, NEW b \in Block, FloppyIoctl(b) PROVE RetryKnown'
<1> DEFINE x == Do("rw")
<1>0. Ended /\ Geometry
  BY RetryGives DEF RetryKnown
<1>1. /\ todo = <<>> /\ todo' = <<x>> /\ x.do = "rw"
      /\ UNCHANGED <<phase, sectors, kind>>
  BY DoItem, Names DEF FloppyIoctl, fdcVars
<1> HIDE DEF x
<1>2. Len(todo') = 1 /\ Head(todo') = x /\ todo' # <<>> /\ todo'[1] = x
  BY <1>1
<1>3. phase = "ready"
  BY <1>0, <1>1 DEF Ended, Waits
<1>4. sectors = kind
  BY <1>0, <1>1, NoneInNone DEF Geometry
<1>5. ~Has(todo', Inner)
  BY <1>1, <1>2 DEF Has, Inner
<1>6. Ended' /\ Counted'
  BY <1>1, <1>2, <1>3, <1>5 DEF Ended, Counted
<1> QED
  BY <1>1, <1>4, <1>6 DEF RetryKnown, Geometry

-----------------------------------------------------------------------------

\* What was undisturbed until now.
LEMMA Earlier ==
    ASSUME RetryInv, [Next]_vars, Undisturbed'
    PROVE  Undisturbed /\ ~TakeOut /\ ~PutIn
<1>1. late \in Nat /\ changes \in Nat /\ errors \in Nat
  BY DEF RetryInv, HeadInv, OwnInterrupt
<1>2. /\ late' >= late /\ changes' >= changes /\ errors' >= errors
      /\ {late', changes', errors'} \subseteq Nat
  <2>1. CASE FloppyWait
    <3>1. UNCHANGED <<changes, errors>> /\ late' \in {late, late + 1}
      BY <2>1 DEF FloppyWait
    <3> QED
      BY <1>1, <3>1
  <2>2. CASE ReadEnds
    <3>1. UNCHANGED <<changes, late>> /\ errors' \in {errors, errors + 1}
      BY <2>2 DEF ReadEnds
    <3> QED
      BY <1>1, <3>1
  <2>3. CASE TakeOut
    <3>1. UNCHANGED <<errors, late>> /\ changes' = changes + 1
      BY <2>3 DEF TakeOut
    <3> QED
      BY <1>1, <3>1
  <2>4. CASE ~(FloppyWait \/ ReadEnds \/ TakeOut)
    <3>1. UNCHANGED <<late, changes, errors>>
      BY <2>4 DEF Next, Driver, Fdc, vars, countVars, FloppyReset, FloppySeek, FloppyRecalibrate,
         SeekThere, SeekChecked, FloppyRw, TryAfterChange, Try, GiveUp, CannotSeek, Command, Worked,
         TryAgain, Geo168, Geo168Is, Geo144, Install, SeekEnds, Irq, PutIn, FloppyIoctl
    <3> QED
      BY <1>1, <3>1
  <2> QED
    BY <2>1, <2>2, <2>3, <2>4
<1>3. late = 0 /\ changes = 0 /\ errors <= 2 /\ changes' = 0
  <2>1. late' = 0 /\ changes' = 0 /\ errors' <= 2
    BY DEF Undisturbed
  <2> QED
    BY <1>1, <1>2, <2>1
<1>4. ~PutIn
  <2> SUFFICES ASSUME PutIn PROVE FALSE
    OBVIOUS
  <2>1. disk = NoDisk /\ disk' \in Disk /\ DiskSectors[disk'] = kind
    BY DEF PutIn
  <2>2. kind = 0 /\ DiskSectors[disk'] \in {18, 21}
    BY <1>3, <2>1, DiskAssumption DEF RetryInv
  <2> QED
    BY <2>1, <2>2
<1>5. ~TakeOut
  BY <1>3 DEF TakeOut
<1>6. disk' = disk
  BY <1>4, <1>5 DEF Next, Driver, Fdc, vars, driveVars, FloppyReset, FloppyWait, FloppySeek,
     FloppyRecalibrate, SeekThere, SeekChecked, FloppyRw, TryAfterChange, Try, GiveUp, CannotSeek, Command,
     Worked, TryAgain, Geo168, Geo168Is, Geo144, Install, SeekEnds, ReadEnds, Irq, FloppyIoctl
<1> QED
  BY <1>3, <1>4, <1>5, <1>6 DEF Undisturbed

LEMMA GeometrySettled ==
    ASSUME Stack, enabled => ~Has(todo, {"geo168", "geo144"}), [Next]_vars
    PROVE  enabled' => ~Has(todo', {"geo168", "geo144"})
<1> DEFINE P == {"geo168", "geo144"}
<1> SUFFICES ASSUME enabled' PROVE ~Has(todo', P)
  OBVIOUS
<1>1. CASE Install
  <2>1. todo # <<>> /\ Then(<<>>) /\ Head(todo).do = "install"
    BY <1>1 DEF Install, Next1
  <2>2. todo \in Seq(Item) /\ Ordered(todo) /\ <<>> \in Seq(Item) /\ todo' = <<>> \o Tail(todo)
    BY <2>1 DEF Stack, Then
  <2>3. P \in SUBSET Procedure /\ \A p \in P : ~MayPrecede("install", p)
    BY DEF Procedure, MayPrecede, Steps, Moving
  <2>4. ~\E i \in 2 .. Len(todo) : todo[i].do \in P
    BY <2>1, <2>2, <2>3, NotBehind
  <2> HIDE DEF P
  <2> QED
    BY <2>1, <2>2, <2>4, ReplacedHas, NoneInNone
<1>2. CASE ~Install
  <2>1. enabled
    BY <1>2 DEF Next, Driver, Fdc, vars, FloppyReset, FloppyWait, FloppySeek, FloppyRecalibrate,
       SeekThere, SeekChecked, FloppyRw, TryAfterChange, Try, GiveUp, CannotSeek, Command, Worked,
       TryAgain, Geo168, Geo168Is, Geo144, SeekEnds, ReadEnds, Irq, TakeOut, PutIn, FloppyIoctl
  <2>2. ~Has(todo, P)
    BY <2>1
  <2>3. todo # <<>> => Head(todo).do \notin P
    <3>1. todo # <<>> => 1 \in 1 .. Len(todo) /\ Head(todo) = todo[1]
      BY DEF Stack
    <3> QED
      BY <2>2, <3>1 DEF Has
  <2>4. ASSUME todo # <<>>, NEW s \in Seq(Item), Then(s), ~Has(s, P) PROVE ~Has(todo', P)
    BY <2>2, <2>4, HasThen
  <2>5. CASE FloppyReset
    <3>1. ~Has(<<Do("wait"), Seek(1), Do("recalibrate")>>, P)
      BY DoItem, SeekItem, Names, NoneInThree
    <3> QED
      BY <2>4, <2>5, <3>1, StepsReset DEF FloppyReset, StepsOf
  <2>6. CASE FloppyWait \/ Looks
    <3>1. <<>> \in Seq(Item)
      OBVIOUS
    <3>2. todo # <<>> /\ Then(<<>>)
      BY <2>6 DEF Looks, FloppyWait, SeekThere, SeekChecked, GiveUp, CannotSeek, Worked, Geo168Is,
         Install, Returns
    <3> QED
      BY <2>4, <3>1, <3>2, NoneInNone
  <2>7. CASE FloppySeek
    <3> DEFINE y == [do |-> "sought", track |-> Head(todo).track]
    <3>1. todo # <<>> /\ Then(<<Do("wait"), y>>)
      BY <2>7 DEF FloppySeek
    <3>2. Head(todo).track \in Int
      <4>1. Head(todo) \in Item
        BY <3>1 DEF Stack
      <4> QED
        BY <4>1 DEF Item
    <3>3. <<Do("wait"), y>> \in Seq(Item)
      BY <3>2, StepsSeek DEF StepsOf
    <3>4. y.do = "sought"
      OBVIOUS
    <3> HIDE DEF y
    <3>5. ~Has(<<Do("wait"), y>>, P)
      BY <3>4, DoItem, Names, NoneInTwo
    <3> QED
      BY <2>4, <3>1, <3>3, <3>5
  <2>8. CASE FloppyRecalibrate
    <3>1. ~Has(<<Do("wait")>>, P)
      BY DoItem, Names, NoneInOne
    <3> QED
      BY <2>4, <2>8, <3>1, StepsRecalibrate DEF FloppyRecalibrate, StepsOf
  <2>9. CASE FloppyRw
    <3>1. ~Has(<<Do("try")>>, P)
      BY DoItem, Names, NoneInOne
    <3> QED
      BY <2>4, <2>9, <3>1, StepsRw DEF FloppyRw, StepsOf
  <2>10. CASE TryAfterChange
    <3>1. ~Has(<<Seek(1), Do("recalibrate"), Do("rw")>>, P)
      BY DoItem, SeekItem, Names, NoneInThree
    <3> QED
      BY <2>4, <2>10, <3>1, StepsAfterChange DEF TryAfterChange, StepsOf
  <2>11. CASE Try
    <3>1. todo # <<>> /\ Then(<<Seek(Target), Do("command")>>)
      BY <2>11 DEF Try, Target
    <3>2. Target \in Int
      <4>1. Target \in Tracks
        BY <2>11, TriedWithGeometry DEF Try, Next1
      <4> QED
        BY <4>1 DEF Tracks
    <3>3. ~Has(<<Seek(Target), Do("command")>>, P)
      BY <3>2, DoItem, SeekItem, Names, NoneInTwo
    <3> QED
      BY <2>4, <3>1, <3>2, <3>3, StepsTry DEF StepsOf
  <2>12. CASE Command
    <3>1. ~Has(<<Do("wait"), Do("check")>>, P)
      BY DoItem, Names, NoneInTwo
    <3> QED
      BY <2>4, <2>12, <3>1, StepsCommand DEF Command, StepsOf
  <2>13. CASE TryAgain
    <3>1. ~Has(<<Do("recalibrate"), Do("try")>>, P)
      BY DoItem, Names, NoneInTwo
    <3> QED
      BY <2>4, <2>13, <3>1, StepsAgain DEF TryAgain, StepsOf
  <2>14. CASE Geo168 \/ Geo144
    BY <2>3, <2>14 DEF Geo168, Geo144, Next1
  <2>15. CASE Around
    <3>1. todo' = todo
      BY <2>15 DEF Around, SeekEnds, ReadEnds, Irq, TakeOut, PutIn, vars, driverVars
    <3> QED
      BY <2>2, <3>1
  <2>16. CASE \E b \in Block : FloppyIoctl(b)
    <3>1. todo' = <<Do("rw")>>
      BY <2>16 DEF FloppyIoctl
    <3>2. ~Has(<<Do("rw")>>, P)
      BY DoItem, Names, NoneInOne
    <3> QED
      BY <3>1, <3>2
  <2> QED
    BY <1>2, <2>5, <2>6, <2>7, <2>8, <2>9, <2>10, <2>11, <2>12, <2>13, <2>14, <2>15, <2>16
    DEF Next, Driver, Fdc, Looks, Around
<1> QED
  BY <1>1, <1>2

LEMMA RetryStep == RetryInv /\ [Next]_vars => RetryInv'
<1> SUFFICES ASSUME RetryInv, [Next]_vars PROVE RetryInv'
  OBVIOUS
<1>1. HeadInv' /\ ReadKnown' /\ Stack' /\ Stack
  BY HeadStep, ReadStep DEF RetryInv, HeadInv, ReadInv
<1>2. Followed(todo')
  BY <1>1, FollowedStep DEF RetryInv
<1>3. enabled' => ~Has(todo', {"geo168", "geo144"})
  BY <1>1, GeometrySettled DEF RetryInv
<1>4. changes' \in Nat /\ errors' \in Nat /\ tries' \in Nat
  <2>1. changes \in Nat /\ errors \in Nat /\ tries \in Nat
    BY DEF RetryInv
  <2>2. CASE FloppyRw \/ TryAgain \/ ReadEnds \/ TakeOut
    BY <2>1, <2>2 DEF FloppyRw, TryAgain, NextTry, ReadEnds, TakeOut, countVars, driverVars
  <2>3. CASE ~(FloppyRw \/ TryAgain \/ ReadEnds \/ TakeOut)
    <3>1. UNCHANGED <<changes, errors, tries>>
      BY <2>3 DEF Next, Driver, Fdc, vars, driverVars, countVars, FloppyReset, FloppyWait, FloppySeek,
         FloppyRecalibrate, SeekThere, SeekChecked, TryAfterChange, Try, GiveUp, CannotSeek, Command,
         Worked, Geo168, Geo168Is, Geo144, Install, SeekEnds, Irq, PutIn, FloppyIoctl
    <3> QED
      BY <2>1, <3>1
  <2> QED
    BY <2>2, <2>3
<1>5. changes' = 0 => kind' = IF disk' = NoDisk THEN 0 ELSE DiskSectors[disk']
  <2>1. changes \in Nat /\ (changes = 0 => kind = IF disk = NoDisk THEN 0 ELSE DiskSectors[disk])
    BY DEF RetryInv
  <2>2. CASE TakeOut
    BY <2>1, <2>2 DEF TakeOut
  <2>3. CASE PutIn
    BY <2>1, <2>3, DiskAssumption DEF PutIn
  <2>4. CASE ~TakeOut /\ ~PutIn
    <3>1. UNCHANGED <<changes, disk, kind>>
      BY <2>4 DEF Next, Driver, Fdc, vars, driveVars, countVars, FloppyReset, FloppyWait, FloppySeek,
         FloppyRecalibrate, SeekThere, SeekChecked, FloppyRw, TryAfterChange, Try, GiveUp, CannotSeek, Command,
         Worked, TryAgain, Geo168, Geo168Is, Geo144, Install, SeekEnds, ReadEnds, Irq, FloppyIoctl
    <3> QED
      BY <2>1, <3>1
  <2> QED
    BY <2>2, <2>3, <2>4
<1>6. ASSUME Undisturbed' PROVE RetryKnown'
  <2>1. Undisturbed /\ ~TakeOut /\ ~PutIn
    BY <1>6, Earlier
  <2>2. RetryKnown /\ late' = 0
    BY <1>6, <2>1 DEF RetryInv, Undisturbed
  <2>3. CASE FloppyRw \/ TryAfterChange \/ Try \/ TryAgain \/ Geo168 \/ Geo144
    BY <1>1, <1>2, <2>1, <2>3, RetryTries, RetryGeometry
  <2>4. CASE FloppyReset \/ FloppySeek \/ FloppyRecalibrate \/ Command
    BY <2>1, <2>4, RetryCommands
  <2>5. CASE FloppyWait \/ Looks
    BY <1>1, <1>2, <2>1, <2>2, <2>5, RetryWait, RetryLooks
  <2>6. CASE SeekEnds \/ ReadEnds
    BY <2>1, <2>6, RetrySeekEnds, RetryReadEnds
  <2>7. CASE Irq \/ UNCHANGED vars
    <3>1. UNCHANGED <<phase, op, pcn, todo, sr0, track, ret, status, tries, errors, block, sectors, kind,
                      requests>>
      BY <2>7 DEF Irq, vars, driverVars, fdcVars, countVars
    <3> QED
      BY <2>2, <3>1, RetryUnchanged
  <2>8. CASE \E b \in Block : FloppyIoctl(b)
    BY <2>1, <2>8, RetryIoctl
  <2> QED
    BY <2>1, <2>3, <2>4, <2>5, <2>6, <2>7, <2>8 DEF Next, Driver, Fdc, Looks
<1> QED
  BY <1>1, <1>2, <1>3, <1>4, <1>5, <1>6 DEF RetryInv

(***************************************************************************)
(* A disk that stays in the drive is read in spite of two errors, wherever *)
(* they come, and floppy_init() has found its geometry when it enables the *)
(* interrupt: for all disks and all requests, if no command is late.       *)
(***************************************************************************)
THEOREM ErrorsRetried == Spec => []RetriesSuffice
<1>1. RetryInv => RetriesSuffice
  <2> SUFFICES ASSUME RetryInv, changes = 0, late = 0, errors <= 2, disk # NoDisk
               PROVE  (Idle => ret) /\ (enabled => sectors = kind)
    BY DEF RetriesSuffice
  <2>1. Geometry /\ Counted
    BY DEF RetryInv, RetryKnown, Undisturbed
  <2>2. ASSUME enabled PROVE sectors = kind
    <3>1. ~Has(todo, {"geo168"}) /\ ~Has(todo, {"geo144"})
      BY <2>2 DEF RetryInv, Has
    <3> QED
      BY <2>1, <3>1 DEF Geometry
  <2> QED
    BY <2>1, <2>2 DEF Counted, Idle
<1> QED
  BY <1>1, RetryInit, RetryStep, PTL DEF Spec
=============================================================================
