------------------------------- MODULE Floppy -------------------------------
(***************************************************************************)
(* The floppy driver of nucleus/drivers/block/floppy.c: how floppy_init()  *)
(* and floppy_ioctl() drive the controller by way of floppy_wait(), which  *)
(* waits for IRQ 6 to set done, or for 100 ticks of the timer.  The        *)
(* controller, the drive and the interrupt controller are modelled from    *)
(* the way the driver uses them.                                           *)
(*                                                                         *)
(* The driver is called by one thread.  todo is what it has yet to do, the *)
(* rest of the procedures that have been called, the next thing first; ret *)
(* is what the last of them returned.  No timer is modelled: a wait times   *)
(* out when nothing else can end it, and up to MaxLate times before.  As   *)
(* nothing calls floppy_update(), tmout never gets to 0, and floppy_wait() *)
(* does not say that it has timed out; what floppy_rw() does when told so  *)
(* is left out.                                                            *)
(*                                                                         *)
(* A definition without a comment that stands before another of a similar  *)
(* name is that operation with a mistake in it.                            *)
(***************************************************************************)
EXTENDS Integers, Sequences

CONSTANTS
    Disk, NoDisk,
    DiskSectors,    \* how many sectors a track of each disk has
    Block,          \* the blocks that are asked for
    MaxRequests,    \* bound on how many are
    MaxErrors,      \* bound on the commands that fail on a good disk
    MaxChanges,     \* bound on disks taken out and put in
    MaxLate         \* bound on the commands that take longer than 100 ticks, and on the interrupts
                    \* that are requested though the reason for them is gone

ASSUME DiskAssumption ==
    /\ DiskSectors \in [Disk -> {18, 21}]
    /\ NoDisk \notin Disk
    /\ {MaxRequests, MaxErrors, MaxChanges, MaxLate} \subseteq Nat

\* As many sectors as a disk of 1.68 MB has.
ASSUME BlockAssumption == Block \subseteq 0 .. 3359

VARIABLES
    \* the driver
    done,
    track,          \* where the head should be
    status, sr0,    \* what the last command said
    motor,
    sectors,        \* of the geometry
    tries, block,   \* variables of floppy_rw()
    todo, ret,
    tb, blockbuff,  \* the track buffer, and that of the caller: which sector is in it
    \* the controller and the drive
    phase,          \* of the controller
    op,             \* what it is executing, or has executed
    pcn, head,      \* where it takes the head to be, and where it is
    disk, changed,  \* the disk in the drive; the line that tells that it was changed
    irr, enabled,   \* IRQ 6 is requested; it is enabled
    \* what has happened
    requests, errors, changes, late,
    present,        \* the disks there have been in the drive since the request
    kind            \* how many sectors the tracks of the disks have, 0 if there are none

driverVars == <<done, track, status, sr0, motor, sectors, tries, block, todo, ret, blockbuff>>
fdcVars == <<phase, op, pcn, tb>>
driveVars == <<head, disk, changed>>
countVars == <<requests, errors, changes, late, present, kind>>
vars == <<driverVars, fdcVars, driveVars, irr, enabled, countVars>>

NoTrack == 255      \* -1, in a byte
Nothing == [on |-> NoDisk, track |-> 0, head |-> 0, sector |-> 0]

Do(p) == [do |-> p, track |-> 0]
Seek(t) == [do |-> "seek", track |-> t]
Init ==
    /\ done = FALSE /\ track = 0 /\ status = "ok" /\ sr0 = "ok"
    /\ motor = FALSE /\ sectors = 0 /\ tries = 0 /\ block = 0
    /\ todo = <<Do("reset"), Do("geo168"), Do("install")>>  \* floppy_init(), from detect_floppy() on
    /\ ret = FALSE
    /\ tb = Nothing /\ blockbuff = Nothing
    /\ phase = "ready" /\ op = Nothing /\ pcn = 0
    /\ head \in {0, 2}
    /\ disk \in Disk \cup {NoDisk} /\ changed \in {disk = NoDisk, TRUE}
    /\ irr = FALSE /\ enabled = FALSE
    /\ requests = 0 /\ errors = 0 /\ changes = 0 /\ late = 0 /\ present = {disk} \ {NoDisk}
    /\ kind = IF disk = NoDisk THEN 0 ELSE DiskSectors[disk]

-----------------------------------------------------------------------------
(* The controller, the drive and the user *)

\* The interrupt line is up in these phases, until the driver asks for the reason.
Raises(p) == p \in {"reset", "sought", "result"}

\* A seek or recalibration ends.  A step of the head with a disk in the drive tells
\* the drive that it has the disk.
SeekEnds ==
    /\ phase = "seeking"
    /\ phase' = "sought" /\ irr' = TRUE
    /\ pcn' = op.track
    /\ head' = IF op.head = 1 THEN 0 ELSE head + op.track - pcn
    /\ changed' = (changed /\ (head' = head \/ disk = NoDisk))
    /\ UNCHANGED <<driverVars, op, tb, disk, enabled, countVars>>

\* A read ends; without a disk it does not.
ReadEnds ==
    /\ phase = "reading"
    /\ disk # NoDisk /\ motor
    /\ phase' = "result" /\ irr' = TRUE
    /\ \/ /\ head = op.track /\ op.sector <= DiskSectors[disk]
          /\ op' = [op EXCEPT !.on = disk]
          /\ tb' = op'
          /\ UNCHANGED errors
       \/ /\ ~(head = op.track /\ op.sector <= DiskSectors[disk])
          /\ UNCHANGED <<op, tb, errors>>
       \/ /\ errors < MaxErrors
          /\ errors' = errors + 1
          /\ UNCHANGED <<op, tb>>
    /\ UNCHANGED <<driverVars, pcn, driveVars, enabled, requests, changes, late, present, kind>>

\* floppy_process(), called by isr_floppy.
Irq ==
    /\ irr /\ enabled
    /\ irr' = FALSE
    /\ done' = TRUE
    /\ UNCHANGED <<track, status, sr0, motor, sectors, tries, block, todo, ret, blockbuff,
                   fdcVars, driveVars, enabled, countVars>>

TakeOut ==
    /\ changes < MaxChanges /\ disk # NoDisk
    /\ disk' = NoDisk /\ changed' = TRUE
    /\ changes' = changes + 1
    /\ UNCHANGED <<driverVars, fdcVars, head, irr, enabled, requests, errors, late, present, kind>>

\* The driver knows of one geometry, so the disks that are put in are alike.
PutIn ==
    /\ disk = NoDisk
    /\ disk' \in {d \in Disk : DiskSectors[d] = kind}
    /\ present' = present \cup {disk'}
    /\ UNCHANGED <<driverVars, fdcVars, head, changed, irr, enabled, requests, errors, changes,
                   late, kind>>

-----------------------------------------------------------------------------
(* The driver's procedures *)

Next1 == Head(todo).do
Then(items) == todo' = items \o Tail(todo)

\* Returns of a procedure.
Returns(r) == /\ ret' = r
              /\ Then(<<>>)

\* block2hts(), for n sectors to a track.
Hts(b, n) == [on |-> NoDisk, track |-> b \div (n * 2), head |-> (b % (n * 2)) \div n,
              sector |-> (b % n) + 1]

\* A controller that is not ready for a command does not get it, and nobody is told.
Send(p, o) ==
    IF phase = "ready" THEN phase' = p /\ op' = o ELSE UNCHANGED <<phase, op>>

Calm == ~(irr /\ enabled)   \* an interrupt comes first

FloppyResetOnly ==
    /\ todo # <<>> /\ Calm /\ Next1 = "reset"
    /\ motor' = FALSE
    /\ phase' = "reset" /\ pcn' = 0 /\ irr' = TRUE
    /\ done' = TRUE
    /\ Then(<<Do("wait")>>)
    /\ UNCHANGED <<track, status, sr0, sectors, tries, block, ret, blockbuff, op, tb,
                   driveVars, enabled, countVars>>

\* The beginning of floppy_reset(), with its wait for an interrupt it does not wait for.
FloppyReset ==
    /\ todo # <<>> /\ Calm /\ Next1 = "reset"
    /\ motor' = FALSE
    /\ phase' = "reset" /\ pcn' = 0 /\ irr' = TRUE
    /\ done' = TRUE
    /\ Then(<<Do("wait"), Seek(1), Do("recalibrate")>>)
    /\ UNCHANGED <<track, status, sr0, sectors, tries, block, ret, blockbuff, op, tb,
                   driveVars, enabled, countVars>>

\* The controller will do something that ends the wait.
Busy == phase = "seeking" \/ (phase = "reading" /\ disk # NoDisk)

WaitStatusKept == status
WaitStatus ==
    CASE phase = "result" -> IF op.on = NoDisk THEN "error" ELSE "ok"
      [] phase = "reading" -> "none"
      [] OTHER -> status

FloppyWaitDoneKept ==
    /\ todo # <<>> /\ Calm /\ Next1 = "wait"
    /\ irr' \in {FALSE, irr}
    /\ IF (Busy /\ ~done) \/ irr' THEN late < MaxLate /\ late' = late + 1 ELSE UNCHANGED late
    /\ status' = WaitStatus
    /\ sr0' = CASE phase = "sought" -> "ok" [] phase = "reset" -> "reset" [] OTHER -> "invalid"
    /\ track' = IF phase \in {"sought", "reset"} THEN pcn ELSE NoTrack
    /\ phase' = IF Raises(phase) THEN "ready" ELSE phase
    /\ done' = done
    /\ Returns(TRUE)
    /\ UNCHANGED <<motor, sectors, tries, block, blockbuff, op, pcn, tb, driveVars, enabled,
                   requests, errors, changes, present, kind>>

\* floppy_wait(TRUE).  It reads the result of a read, then the reason for an
\* interrupt; there is none after a read, then the track reads as -1.  The request
\* for an interrupt may outlive the reason for it.
FloppyWait ==
    /\ todo # <<>> /\ Calm /\ Next1 = "wait"
    /\ irr' \in {FALSE, irr}
    /\ IF (Busy /\ ~done) \/ irr' THEN late < MaxLate /\ late' = late + 1 ELSE UNCHANGED late
    /\ status' = WaitStatus
    /\ sr0' = CASE phase = "sought" -> "ok" [] phase = "reset" -> "reset" [] OTHER -> "invalid"
    /\ track' = IF phase \in {"sought", "reset"} THEN pcn ELSE NoTrack
    /\ phase' = IF Raises(phase) THEN "ready" ELSE phase
    /\ done' = FALSE
    /\ Returns(TRUE)
    /\ UNCHANGED <<motor, sectors, tries, block, blockbuff, op, pcn, tb, driveVars, enabled,
                   requests, errors, changes, present, kind>>

\* floppy_seek() finds that the head is there already.
SeekThere ==
    /\ todo # <<>> /\ Calm /\ Next1 = "seek"
    /\ track = Head(todo).track
    /\ Returns(TRUE)
    /\ UNCHANGED <<done, track, status, sr0, motor, sectors, tries, block, blockbuff, fdcVars,
                   driveVars, irr, enabled, countVars>>

\* floppy_seek()
FloppySeek ==
    /\ todo # <<>> /\ Calm /\ Next1 = "seek"
    /\ LET t == Head(todo).track IN
          /\ track # t
          /\ Send("seeking", [Nothing EXCEPT !.track = t])
          /\ Then(<<Do("wait"), [do |-> "sought", track |-> t]>>)
    /\ motor' = TRUE
    /\ UNCHANGED <<done, track, status, sr0, sectors, tries, block, ret, blockbuff, pcn, tb,
                   driveVars, irr, enabled, countVars>>

\* The check that the seek worked.
Sought(t) == sr0 = "ok" /\ track = t

SeekChecked ==
    /\ todo # <<>> /\ Calm /\ Next1 = "sought"
    /\ Returns(Sought(Head(todo).track))
    /\ UNCHANGED <<done, track, status, sr0, motor, sectors, tries, block, blockbuff, fdcVars,
                   driveVars, irr, enabled, countVars>>

\* floppy_recalibrate()
FloppyRecalibrate ==
    /\ todo # <<>> /\ Calm /\ Next1 = "recalibrate"
    /\ motor' = TRUE
    /\ Send("seeking", [Nothing EXCEPT !.head = 1])
    /\ Then(<<Do("wait")>>)
    /\ UNCHANGED <<done, track, status, sr0, sectors, tries, block, ret, blockbuff, pcn, tb,
                   driveVars, irr, enabled, countVars>>

\* floppy_rw(), up to its loop.
FloppyRw ==
    /\ todo # <<>> /\ Calm /\ Next1 = "rw"
    /\ motor' = TRUE
    /\ tries' = 0
    /\ Then(<<Do("try")>>)
    /\ UNCHANGED <<done, track, status, sr0, sectors, block, ret, blockbuff, fdcVars, driveVars,
                   irr, enabled, countVars>>

TryAfterChangeUnmoved ==
    /\ todo # <<>> /\ Calm /\ Next1 = "try"
    /\ tries < 3 /\ changed
    /\ Then(<<Do("recalibrate"), Do("rw")>>)
    /\ UNCHANGED <<done, track, status, sr0, motor, sectors, tries, block, ret, blockbuff,
                   fdcVars, driveVars, irr, enabled, countVars>>

\* The disk was changed.  floppy_rw() calls itself, and returns what that returns.
TryAfterChange ==
    /\ todo # <<>> /\ Calm /\ Next1 = "try"
    /\ tries < 3 /\ changed
    /\ Then(<<Seek(1), Do("recalibrate"), Do("rw")>>)
    /\ UNCHANGED <<done, track, status, sr0, motor, sectors, tries, block, ret, blockbuff,
                   fdcVars, driveVars, irr, enabled, countVars>>

Try ==
    /\ todo # <<>> /\ Calm /\ Next1 = "try"
    /\ tries < 3 /\ ~changed
    /\ Then(<<Seek(Hts(block, sectors).track), Do("command")>>)
    /\ UNCHANGED <<done, track, status, sr0, motor, sectors, tries, block, ret, blockbuff,
                   fdcVars, driveVars, irr, enabled, countVars>>

\* floppy_rw() has tried three times, and copies what there is.
GiveUp ==
    /\ todo # <<>> /\ Calm /\ Next1 = "try"
    /\ tries = 3
    /\ blockbuff' = tb
    /\ Returns(FALSE)
    /\ UNCHANGED <<done, track, status, sr0, motor, sectors, tries, block, fdcVars, driveVars,
                   irr, enabled, countVars>>

\* The head could not be moved.
CannotSeek ==
    /\ todo # <<>> /\ Calm /\ Next1 = "command"
    /\ ~ret
    /\ Returns(FALSE)
    /\ UNCHANGED <<done, track, status, sr0, motor, sectors, tries, block, blockbuff, fdcVars,
                   driveVars, irr, enabled, countVars>>

Command ==
    /\ todo # <<>> /\ Calm /\ Next1 = "command"
    /\ ret
    /\ Send("reading", Hts(block, sectors))
    /\ Then(<<Do("wait"), Do("check")>>)
    /\ UNCHANGED <<done, track, status, sr0, motor, sectors, tries, block, ret, blockbuff, pcn, tb,
                   driveVars, irr, enabled, countVars>>

\* The command worked.
Worked ==
    /\ todo # <<>> /\ Calm /\ Next1 = "check"
    /\ status = "ok"
    /\ blockbuff' = tb
    /\ Returns(TRUE)
    /\ UNCHANGED <<done, track, status, sr0, motor, sectors, tries, block, fdcVars, driveVars,
                   irr, enabled, countVars>>

NextTry(n) == n + 1

TryAgain ==
    /\ todo # <<>> /\ Calm /\ Next1 = "check"
    /\ status # "ok"
    /\ tries' = NextTry(tries)
    /\ Then(<<Do("recalibrate"), Do("try")>>)
    /\ UNCHANGED <<done, track, status, sr0, motor, sectors, block, ret, blockbuff, fdcVars,
                   driveVars, irr, enabled, countVars>>

-----------------------------------------------------------------------------
(* floppy_init() and floppy_ioctl() *)

\* floppy_get_geo() resets the controller once more, and assumes a 1.68 MB disk.
Geo168 ==
    /\ todo # <<>> /\ Calm /\ Next1 = "geo168"
    /\ sectors' = 21 /\ block' = 20
    /\ Then(<<Do("reset"), Do("rw"), Do("geo144")>>)
    /\ UNCHANGED <<done, track, status, sr0, motor, tries, ret, blockbuff, fdcVars, driveVars,
                   irr, enabled, countVars>>

Geo168IsAlways ==
    /\ todo # <<>> /\ Calm /\ Next1 = "geo144"
    /\ Then(<<>>)
    /\ UNCHANGED <<done, track, status, sr0, motor, sectors, tries, block, ret, blockbuff,
                   fdcVars, driveVars, irr, enabled, countVars>>

\* It is one.
Geo168Is ==
    /\ todo # <<>> /\ Calm /\ Next1 = "geo144"
    /\ ret
    /\ Then(<<>>)
    /\ UNCHANGED <<done, track, status, sr0, motor, sectors, tries, block, ret, blockbuff,
                   fdcVars, driveVars, irr, enabled, countVars>>

Geo144 ==
    /\ todo # <<>> /\ Calm /\ Next1 = "geo144"
    /\ ~ret
    /\ sectors' = 18 /\ block' = 17
    /\ Then(<<Do("rw")>>)
    /\ UNCHANGED <<done, track, status, sr0, motor, tries, ret, blockbuff, fdcVars, driveVars,
                   irr, enabled, countVars>>

\* The end of floppy_init(): only now the interrupt has a handler.
Install ==
    /\ todo # <<>> /\ Next1 = "install"
    /\ enabled' = TRUE
    /\ Then(<<>>)
    /\ UNCHANGED <<done, track, status, sr0, motor, sectors, tries, block, ret, blockbuff,
                   fdcVars, driveVars, irr, countVars>>

\* floppy_ioctl(), of a single sector.
FloppyIoctl(b) ==
    /\ todo = <<>> /\ requests < MaxRequests
    /\ requests' = requests + 1
    /\ block' = b
    /\ present' = {disk} \ {NoDisk}
    /\ blockbuff' = Nothing
    /\ todo' = <<Do("rw")>>
    /\ UNCHANGED <<done, track, status, sr0, motor, sectors, tries, ret, fdcVars, driveVars,
                   irr, enabled, errors, changes, late, kind>>

Driver ==
    \/ FloppyReset \/ FloppyWait \/ SeekThere \/ FloppySeek \/ SeekChecked \/ FloppyRecalibrate
    \/ FloppyRw \/ TryAfterChange \/ Try \/ GiveUp \/ CannotSeek \/ Command \/ Worked \/ TryAgain
    \/ Geo168 \/ Geo168Is \/ Geo144 \/ Install

Fdc == SeekEnds \/ ReadEnds

Next == Driver \/ Fdc \/ Irq \/ TakeOut \/ PutIn \/ \E b \in Block : FloppyIoctl(b)

Spec == Init /\ [][Next]_vars

\* The timer ticks, so waits time out; the controller and the interrupt controller work.
FairSpec == Spec /\ WF_vars(Driver) /\ WF_vars(Fdc) /\ WF_vars(Irq)

-----------------------------------------------------------------------------
(* Properties *)

Idle == todo = <<>> /\ requests > 0

(***************************************************************************)
(* When a request has succeeded the caller's buffer holds the sector that  *)
(* was asked for, of a disk that was in the drive meanwhile: whatever      *)
(* interrupts come late or early, time out or belong to another command,   *)
(* and whenever disks are changed, if the geometry is that of the disks.   *)
(***************************************************************************)
DataRight ==
    Idle /\ ret /\ sectors = kind =>
        /\ blockbuff.on \in present
        /\ block = (2 * blockbuff.track + blockbuff.head) * kind + blockbuff.sector - 1
        /\ blockbuff.head \in {0, 1} /\ blockbuff.sector \in 1 .. kind

(***************************************************************************)
(* A disk that stays in the drive is read in spite of two errors, and its  *)
(* geometry is found: no error makes the driver take it for another, if no *)
(* command is late.                                                        *)
(***************************************************************************)
RetriesSuffice ==
    changes = 0 /\ late = 0 /\ errors <= 2 /\ disk # NoDisk =>
        /\ Idle => ret
        /\ enabled => sectors = kind

(***************************************************************************)
(* The head is where the command needs it while a sector is read, as the   *)
(* driver thinks: after resets, recalibrations, dropped commands and       *)
(* skipped seeks, if no command is late.                                   *)
(***************************************************************************)
ReadOnTrack == phase = "reading" /\ late = 0 => head = op.track /\ motor

(***************************************************************************)
(* done is set only when the command has ended: floppy_wait() takes no     *)
(* interrupt of an earlier command for that of its own, as long as none is *)
(* late.                                                                   *)
(***************************************************************************)
DoneMeansEnded == done /\ late = 0 => phase \notin {"seeking", "reading"}

(***************************************************************************)
(* If there is a disk in the drive again in the end, every request         *)
(* returns, and so does floppy_init().                                     *)
(***************************************************************************)
RequestsReturn == <>[](disk # NoDisk) => (todo # <<>> ~> todo = <<>>)

(***************************************************************************)
(* floppy_init() ends, with or without a disk, as its message about a disk *)
(* it could not read supposes.  The code does not end without a disk.      *)
(***************************************************************************)
InitEnds == <>enabled
=============================================================================
