------------------------------ MODULE Keyboard ------------------------------
(***************************************************************************)
(* The keyboard driver of nucleus/drivers/input/keyboard.c: its interrupt  *)
(* handler, the commands it sends to the keyboard from within the handler, *)
(* and readkey().  The keyboard and its controller are modelled from the   *)
(* way the driver uses them.                                               *)
(*                                                                         *)
(* The handler reads a byte per step.  A lock key that is released makes   *)
(* it call setleds(), whose three send_data() wait in kb_wait(), which     *)
(* calls the handler's loop again: calls is the stack of the setleds()     *)
(* that have not returned.  Within an interrupt nobody else reads the      *)
(* reply to a byte that send_data() has just written, so its second loop   *)
(* is over at once or when its timeout is: sending is one step.            *)
(*                                                                         *)
(* A definition without a comment that stands before another of a similar  *)
(* name is that operation with a mistake in it.                            *)
(***************************************************************************)
EXTENDS KeybBuffer, FiniteSets

CONSTANTS
    Key,            \* the keys that are used
    RETRIES,        \* how often send_data() sends a byte again, 3
    Uses            \* bounds on how the keyboard is used, one of which a behaviour keeps

\* keys are those pressed, presses how often one is pressed or repeated, pending the
\* bytes the keyboard holds back when a key moves, reads the entries readkey()
\* takes, and noisy says whether the keyboard may ask for any byte again, for ever.
ASSUME KeyboardBoundsAssumption ==
    /\ RETRIES \in Nat
    /\ Uses \subseteq [keys : SUBSET Key, presses : Nat, pending : Nat, reads : Nat,
                       noisy : BOOLEAN]

VARIABLES
    \* the driver
    reply_expected, acknowledge, resend,
    led_state, shift_state, shift_state2,   \* sets of the bits that are on
    prev_scancode,
    calls,          \* the setleds() that have not returned, the innermost last
    tmp,            \* the entry readkey() has removed and not yet looked at
    SaveKey,
    results,        \* what readkey() has returned
    cpu,            \* "runs", or "reset" by Boot()
    \* the keyboard and its controller
    held,           \* the keys that are down
    wire,           \* the bytes the keyboard has sent
    port,           \* a byte in the input buffer of the controller
    owed,           \* the reply the keyboard has yet to send
    leds, ledsNext, \* the leds that are on; the next byte says which ones are
    \* what has happened
    presses, nacked,    \* the keys that were pressed; the keyboard has asked for a byte again
    sent,           \* the events of keys the keyboard has sent
    dropped,        \* an event has found the buffer full
    typed,          \* the keys that were pressed, as readkey() should return them
    seen            \* the last byte the driver has read

driverVars == <<reply_expected, acknowledge, resend, led_state, shift_state,
                shift_state2, prev_scancode, calls>>
readerVars == <<tmp, SaveKey, results>>
hardwareVars == <<held, wire, port, owed, leds, ledsNext>>
queueVars == <<bufferVars, dropped>>
historyVars == <<presses, nacked, sent, typed, seen>>
keyboardVars == <<queueVars, driverVars, readerVars, hardwareVars, historyVars, cpu>>

-----------------------------------------------------------------------------
(* Codes *)

KBD_REPLY_ACK == 250
KBD_REPLY_RESEND == 254
SC_LIM == 89
E1_PAUSE == 119
E0_DEL == 111
E0_OTHER == 101     \* stands for the keys after E0 of which nothing else is asked
HIGH_OTHER == 124   \* stands for the codes in high_keys
E1_1D == 256        \* what prev_scancode is after E1 1D

SetLeds == [cmd |-> "SET_LEDS", arg |-> {}]
Leds(s) == [cmd |-> "argument", arg |-> s]
Enable == [cmd |-> "ENABLE", arg |-> {}]
Nothing == [cmd |-> "none", arg |-> {}]

ShiftBit == [c \in {29, 42, 54, 56, 97, 100} |->
    CASE c = 42 -> 1 [] c = 54 -> 2 [] c = 29 -> 4 [] c = 97 -> 8 [] c = 56 -> 16 [] c = 100 -> 32]
LedBit == [c \in {58, 69, 70} |-> CASE c = 70 -> 1 [] c = 69 -> 2 [] c = 58 -> 4]

e0_keys == [c \in 0 .. 127 |->
    CASE c = 29 -> 97 [] c = 56 -> 100 [] c = 83 -> E0_DEL
      [] c \in {28, 53, 55, 70, 91, 92, 93, 111} \cup (61 .. 65) \cup (71 .. 73) \cup (75 .. 82) -> E0_OTHER
      [] OTHER -> 0]

high_keys == [c \in SC_LIM .. 127 |->
    IF c \in (89 .. 92) \cup (120 .. 126) \cup {109, 111, 115, 116, 119} THEN HIGH_OTHER ELSE 0]

\* The bytes a key sends when it is pressed and released.
Modifiers == {"lshift", "rshift", "lctrl", "rctrl", "lalt", "ralt"}
Make == [k \in Modifiers \cup {"a", "home", "del", "f1", "f11", "caps", "num", "pause"} |->
    CASE k = "a" -> <<30>> [] k = "f1" -> <<59>> [] k = "f11" -> <<87>>
      [] k = "caps" -> <<58>> [] k = "num" -> <<69>>
      [] k = "lshift" -> <<42>> [] k = "lctrl" -> <<29>> [] k = "lalt" -> <<56>>
      [] k = "rshift" -> <<54>> [] k = "rctrl" -> <<224, 29>> [] k = "ralt" -> <<224, 56>>
      [] k = "home" -> <<224, 71>> [] k = "del" -> <<224, 83>>
      [] k = "pause" -> <<225, 29, 69, 225, 157, 197>>]
Break(k) == SubSeq(Make[k], 1, Len(Make[k]) - 1) \o <<Make[k][Len(Make[k])] + 128>>

\* A keyboard hides that shift is down from the keys between its two blocks.
FakeShift(k) == IF k \in {"home", "del"} THEN {<<>>, <<224, 170>>, <<224, 42>>} ELSE {<<>>}

\* The bits the driver should have in shift_state for the modifiers in h.
KeyBit == [k \in Modifiers |->
    CASE k = "lshift" -> 1 [] k = "rshift" -> 2 [] k = "lctrl" -> 4 [] k = "rctrl" -> 8
      [] k = "lalt" -> 16 [] k = "ralt" -> 32]
BitsOf(h) == {KeyBit[k] : k \in h \cap Modifiers}

KeyEvent == [code : 1 .. 255, down : BOOLEAN]
Untouched == [code |-> 0, down |-> FALSE]

ASSUME KeyAssumption == Key \subseteq DOMAIN Make /\ Event = KeyEvent /\ Zero = Untouched

\* keyboard_init() has reset the keyboard and calls setleds(0).
FirstCall == [code |-> 0, no |-> 1, data |-> SetLeds, retries |-> RETRIES]

KeyboardInit ==
    /\ Init
    /\ reply_expected = TRUE /\ acknowledge = FALSE /\ resend = FALSE
    /\ led_state = {} /\ shift_state = {} /\ shift_state2 = {}
    /\ prev_scancode = 0
    /\ calls = <<FirstCall>>
    /\ tmp = <<>> /\ SaveKey = 0 /\ results = <<>>
    /\ cpu = "runs"
    /\ held = {} /\ wire = <<>> /\ port = Nothing /\ owed = 0
    /\ leds = {} /\ ledsNext = FALSE
    /\ presses = <<>> /\ nacked = FALSE /\ dropped = FALSE /\ sent = <<>> /\ typed = <<>>
    /\ seen = [code |-> 0, ends |-> TRUE, held |-> {}]

-----------------------------------------------------------------------------
(* readkey(), the part that looks at a key that went down *)

\* norm_map is 255: readkey() passes over the key.
Ignored == {29, 42, 54, 56, 58, 69, 70}
Numpad == 71 .. 83
\* Keys without a character, and those of them that have an entry in ext_map.
Extended == (59 .. 68) \cup {84, 87, 88}
InExtMap == 59 .. 68

\* The table readkey() takes the key from.
Level(code, shift, shift2, led) ==
    IF 32 \in shift THEN "alt"
    ELSE IF 1 \notin shift /\ 2 \notin led /\ code \in Numpad THEN "num"
    ELSE IF 1 \in shift2 THEN "shift"
    ELSE "norm"

\* The table has a 0 for the key, which promises that a second code follows.
IsZero(code, level) ==
    \/ code \in Extended
    \/ (level = "num" /\ code \notin {74, 78})

\* The second code, if there is one.
Second(code, level) ==
    IF IsZero(code, level) /\ (level = "num" \/ (level # "alt" /\ code \in InExtMap)) THEN code ELSE 0

-----------------------------------------------------------------------------
(* The keyboard and its controller *)

Bytes(seq, h) == [i \in 1 .. Len(seq) |-> [code |-> seq[i], ends |-> i = Len(seq), held |-> h]]
EventOf(seq, d) == [code |-> seq[Len(seq)], down |-> d]
Merged(bits) ==
    {1 : b \in bits \cap {1, 2}} \cup {2 : b \in bits \cap {4, 8}} \cup {4 : b \in bits \cap {16, 32}}

\* What has happened up to now is within the bounds u.
Allowed(u) ==
    /\ \A i \in DOMAIN presses : presses[i] \in u.keys
    /\ Len(presses) <= u.presses
    /\ Len(delivered) <= u.reads
    /\ nacked => u.noisy

\* A key moves only while the keyboard holds back few bytes.
Moves == \E u \in Uses : Allowed(u) /\ Len(wire) <= u.pending
InUse == \E u \in Uses : Allowed(u)

\* A key is pressed, or repeated.
Press(k) ==
    /\ cpu = "runs"
    /\ Moves
    /\ presses' = Append(presses, k)
    /\ held' = IF k = "pause" THEN held ELSE held \cup {k}
    /\ \E fake \in FakeShift(k) : wire' = wire \o Bytes(fake \o Make[k], held')
    /\ sent' = sent \o (IF k = "pause" THEN <<EventOf(<<69>>, TRUE), EventOf(<<197>>, FALSE)>>
                        ELSE <<EventOf(Make[k], TRUE)>>)
    /\ typed' = LET code == EventOf(Make[k], TRUE).code
                    bits == BitsOf(held)
                IN  IF k = "pause" \/ code \in Ignored THEN typed
                    ELSE Append(typed, [code |-> code,
                                        level |-> Level(code, bits, Merged(bits), led_state)])
    /\ UNCHANGED <<queueVars, driverVars, readerVars, cpu, port, owed, leds, ledsNext,
                   nacked, seen>>
    /\ InUse'

Release(k) ==
    /\ cpu = "runs"
    /\ k \in held
    /\ Moves
    /\ held' = held \ {k}
    /\ \E fake \in FakeShift(k) :
          wire' = wire \o Bytes(Break(k) \o fake, held')
    /\ sent' = Append(sent, EventOf(Break(k), FALSE))
    /\ UNCHANGED <<queueVars, driverVars, readerVars, cpu, port, owed, leds, ledsNext,
                   presses, nacked, typed, seen>>

\* The keyboard takes a byte from the controller.  It knows two commands, of which
\* SET_LEDS has an argument, and may ask for any byte again.
KeyboardTakes ==
    /\ cpu = "runs"
    /\ port # Nothing
    /\ owed = 0
    /\ port' = Nothing
    /\ \/ /\ port.cmd # "argument" \/ ledsNext
          /\ owed' = KBD_REPLY_ACK
          /\ ledsNext' = (port.cmd = "SET_LEDS")
          /\ leds' = IF port.cmd = "argument" THEN port.arg ELSE leds
          /\ UNCHANGED nacked
       \/ /\ port.cmd = "argument" => ledsNext
          /\ nacked' = TRUE
          /\ owed' = KBD_REPLY_RESEND
          /\ UNCHANGED <<leds, ledsNext>>
       \/ /\ port.cmd = "argument" /\ ~ledsNext
          /\ owed' = KBD_REPLY_RESEND
          /\ UNCHANGED <<nacked, leds, ledsNext>>
    /\ UNCHANGED <<queueVars, driverVars, readerVars, cpu, held, wire,
                   presses, sent, typed, seen>>
    /\ InUse'

KeyboardReplies ==
    /\ cpu = "runs"
    /\ owed # 0
    /\ wire' = Append(wire, [code |-> owed, ends |-> TRUE, held |-> held])
    /\ owed' = 0
    /\ UNCHANGED <<queueVars, driverVars, readerVars, cpu, held, port, leds, ledsNext, historyVars>>

-----------------------------------------------------------------------------
(* The interrupt handler *)

NextPrefixPauseKept(prev, b) ==
    IF b \in {224, 225} THEN b
    ELSE IF prev = 225 /\ b \in {29, 157} THEN E1_1D
    ELSE IF prev = E1_1D THEN prev
    ELSE 0

\* prev_scancode, after a byte.
NextPrefix(prev, b) ==
    IF b \in {224, 225} THEN b
    ELSE IF prev = 225 /\ b \in {29, 157} THEN E1_1D
    ELSE 0

KeycodeShiftsShown(prev, b) ==
    LET c == b % 128 IN
    IF b \in {0, 255, 224, 225} THEN 0
    ELSE IF prev = 0 THEN (IF c >= SC_LIM THEN high_keys[c] ELSE c)
    ELSE IF prev = 224 THEN (IF c \in {42, 54} THEN c ELSE e0_keys[c])
    ELSE IF prev = E1_1D /\ c = 69 THEN E1_PAUSE
    ELSE 0

\* kbd_translate(): the key a byte stands for, or 0 if that is not yet known.
Keycode(prev, b) ==
    LET c == b % 128 IN
    IF b \in {0, 255, 224, 225} THEN 0
    ELSE IF prev = 0 THEN (IF c >= SC_LIM THEN high_keys[c] ELSE c)
    ELSE IF prev = 224 THEN (IF c \in {42, 54} THEN 0 ELSE e0_keys[c])
    ELSE IF prev = E1_1D /\ c = 69 THEN E1_PAUSE
    ELSE 0

IsReply(b) == reply_expected /\ b \in {KBD_REPLY_ACK, KBD_REPLY_RESEND}

\* keyboard_init() sets it after its setleds().
CanReboot == \A i \in DOMAIN calls : calls[i].code # 0

\* The interrupt's loop, or that of kb_wait(), reads a byte.
ReadByte ==
    /\ cpu = "runs"
    /\ wire # <<>>
    /\ wire' = Tail(wire)
    /\ seen' = Head(wire)
    /\ UNCHANGED <<readerVars, held, port, owed, leds, ledsNext, presses, nacked, sent, typed>>

\* do_acknowledge()
ReadReply ==
    /\ ReadByte
    /\ IsReply(Head(wire).code)
    /\ reply_expected' = FALSE
    /\ acknowledge' = (acknowledge \/ Head(wire).code = KBD_REPLY_ACK)
    /\ resend' = (resend \/ Head(wire).code = KBD_REPLY_RESEND)
    /\ UNCHANGED <<queueVars, led_state, shift_state, shift_state2, prev_scancode, calls, cpu>>

\* handle_scancode() of a byte that does not complete a key.
ReadPrefix ==
    LET b == Head(wire).code IN
    /\ ReadByte
    /\ ~IsReply(b)
    /\ Keycode(prev_scancode, b) = 0
    /\ prev_scancode' = NextPrefix(prev_scancode, b)
    /\ UNCHANGED <<queueVars, reply_expected, acknowledge, resend, led_state, shift_state,
                   shift_state2, calls, cpu>>

\* setshift()
SetShift(bit, on) ==
    /\ shift_state' = IF on THEN shift_state \cup {bit} ELSE shift_state \ {bit}
    /\ shift_state2' = Merged(shift_state')

\* What handle_scancode() does for every key.
ReadKeycode(b, keycode) ==
    /\ ReadByte
    /\ ~IsReply(b)
    /\ keycode # 0
    /\ prev_scancode' = NextPrefix(prev_scancode, b)
    /\ IF keycode \in DOMAIN ShiftBit
         THEN SetShift(ShiftBit[keycode], b < 128)
         ELSE UNCHANGED <<shift_state, shift_state2>>

\* keyb_insert(), remembering whether it discards the event.
Insert(e) == KeybInsert(e) /\ dropped' = (dropped \/ Full)

RebootsOnEither(b, keycode) ==
    keycode = E0_DEL /\ b < 128 /\ CanReboot /\ {2, 4} \cap shift_state2 # {}

\* The user resets the machine.
Reboots(b, keycode) ==
    keycode = E0_DEL /\ b < 128 /\ CanReboot /\ {2, 4} \subseteq shift_state2

\* A key that only goes into the buffer.
ReadKey ==
    LET b == Head(wire).code
        keycode == Keycode(prev_scancode, b)
    IN  /\ ReadKeycode(b, keycode)
        /\ b < 128 \/ keycode \notin DOMAIN LedBit
        /\ ~Reboots(b, keycode)
        /\ Insert([code |-> b, down |-> b < 128])
        /\ UNCHANGED <<reply_expected, acknowledge, resend, led_state, calls, cpu>>

\* Boot()
ReadBoot ==
    LET b == Head(wire).code
        keycode == Keycode(prev_scancode, b)
    IN  /\ ReadKeycode(b, keycode)
        /\ Reboots(b, keycode)
        /\ cpu' = "reset"
        /\ UNCHANGED <<queueVars, reply_expected, acknowledge, resend, led_state, calls>>

\* The beginning of send_data(), up to kb_wait().
Expect ==
    /\ acknowledge' = FALSE
    /\ resend' = FALSE
    /\ reply_expected' = TRUE

\* A lock key is released: setleds() is called, before the key goes into the buffer.
ReadLock ==
    LET b == Head(wire).code
        keycode == Keycode(prev_scancode, b)
        bit == LedBit[keycode]
    IN  /\ ReadKeycode(b, keycode)
        /\ b >= 128 /\ keycode \in DOMAIN LedBit
        /\ led_state' = IF bit \in led_state THEN led_state \ {bit} ELSE led_state \cup {bit}
        /\ calls' = Append(calls, [FirstCall EXCEPT !.code = b])
        /\ Expect
        /\ UNCHANGED <<queueVars, cpu>>

Frame == calls[Len(calls)]
Return(f) == [calls EXCEPT ![Len(calls)] = f]

\* send_data() writes its byte once the controller has room for it.
SendByte ==
    /\ cpu = "runs"
    /\ calls # <<>>
    /\ port = Nothing
    /\ port' = Frame.data
    /\ UNCHANGED <<readerVars, held, wire, owed, leds, ledsNext, historyVars, led_state,
                   shift_state, shift_state2, prev_scancode, cpu>>

SendAgainForEver ==
    /\ SendByte
    /\ resend /\ ~acknowledge
    /\ calls' = calls
    /\ Expect
    /\ UNCHANGED queueVars

\* It was told to send the byte again, and does so up to RETRIES times.  The request is
\* one that came before the byte was written.
SendAgain ==
    /\ SendByte
    /\ resend /\ ~acknowledge /\ Frame.retries > 0
    /\ calls' = Return([Frame EXCEPT !.retries = @ - 1])
    /\ Expect
    /\ UNCHANGED queueVars

SendNextEnableFirst ==
    /\ SendByte
    /\ ~resend \/ acknowledge \/ Frame.retries = 0
    /\ Frame.no < 3
    /\ calls' = Return([code |-> Frame.code, no |-> Frame.no + 1, retries |-> RETRIES,
                        data |-> IF Frame.no = 1 THEN Enable ELSE Leds(led_state)])
    /\ Expect
    /\ UNCHANGED queueVars

\* It returns, whether it has got an acknowledge or not; setleds() goes on.
SendNext ==
    /\ SendByte
    /\ ~resend \/ acknowledge \/ Frame.retries = 0
    /\ Frame.no < 3
    /\ calls' = Return([code |-> Frame.code, no |-> Frame.no + 1, retries |-> RETRIES,
                        data |-> IF Frame.no = 1 THEN Leds(led_state) ELSE Enable])
    /\ Expect
    /\ UNCHANGED queueVars

\* setleds() returns and the lock key goes into the buffer.
SendLast ==
    /\ SendByte
    /\ ~resend \/ acknowledge \/ Frame.retries = 0
    /\ Frame.no = 3
    /\ calls' = SubSeq(calls, 1, Len(calls) - 1)
    /\ IF Frame.code = 0 THEN UNCHANGED queueVars
       ELSE Insert([code |-> Frame.code, down |-> FALSE])
    /\ UNCHANGED <<reply_expected, acknowledge, resend>>

Handler ==
    \/ ReadReply \/ ReadPrefix \/ ReadKey \/ ReadBoot \/ ReadLock
    \/ SendAgain \/ SendNext \/ SendLast

-----------------------------------------------------------------------------
(* readkey(), called by a single thread, the shell *)

\* It removes an entry from the buffer, and enables interrupts again.
ReadkeyRemove ==
    /\ cpu = "runs" /\ calls = <<>>
    /\ SaveKey = 0 /\ tmp = <<>>
    /\ KeybRemove
    /\ tmp' = <<keyb_scbuffer[keyb_sc_tail]>>
    /\ UNCHANGED <<driverVars, hardwareVars, historyVars, cpu, dropped, SaveKey, results>>
    /\ InUse'

\* It looks at the entry.
ReadkeyLook ==
    /\ cpu = "runs" /\ calls = <<>>
    /\ tmp # <<>>
    /\ tmp' = <<>>
    /\ LET code == tmp[1].code
           level == Level(code, shift_state, shift_state2, led_state)
       IN  IF tmp[1].down /\ code \notin Ignored
             THEN /\ results' = Append(results, [code |-> code, level |-> level])
                  /\ SaveKey' = Second(code, level)
             ELSE UNCHANGED <<results, SaveKey>>
    /\ UNCHANGED <<queueVars, driverVars, hardwareVars, historyVars, cpu>>

\* It returns the second code of a key.
ReadkeySaved ==
    /\ cpu = "runs" /\ calls = <<>>
    /\ SaveKey # 0 /\ tmp = <<>>
    /\ results' = Append(results, [code |-> SaveKey, level |-> "second"])
    /\ SaveKey' = 0
    /\ UNCHANGED <<queueVars, driverVars, hardwareVars, historyVars, cpu, tmp>>

KeyboardNext ==
    \/ \E k \in Key : Press(k) \/ Release(k)
    \/ KeyboardTakes
    \/ KeyboardReplies
    \/ Handler
    \/ ReadkeyRemove \/ ReadkeyLook \/ ReadkeySaved

KeyboardSpec == KeyboardInit /\ [][KeyboardNext]_keyboardVars

\* The keyboard keeps answering, the handler running.
KeyboardFairSpec ==
    KeyboardSpec /\ WF_keyboardVars(Handler)
                 /\ WF_keyboardVars(KeyboardTakes) /\ WF_keyboardVars(KeyboardReplies)

-----------------------------------------------------------------------------
(* Properties *)

AtRest == wire = <<>> /\ calls = <<>> /\ port = Nothing /\ owed = 0

(***************************************************************************)
(* Whenever the driver has read all bytes of a key, shift_state and        *)
(* shift_state2 say which modifiers are down, left ones and right ones     *)
(* told apart, and no prefix is left that would change the meaning of the  *)
(* next byte: whatever sequences with E0 and E1, hidden shifts and replies *)
(* have come in, and however deep the handler was called within itself.    *)
(***************************************************************************)
ShiftTracksKeys ==
    seen.ends =>
        /\ prev_scancode = 0
        /\ shift_state = BitsOf(seen.held)
        /\ shift_state2 = Merged(BitsOf(seen.held))

\* Replies that were taken for keys, and the releases that wait for setleds(), aside.
Ordinary(e) == e.code \notin {KBD_REPLY_ACK, KBD_REPLY_RESEND} /\ e.code - 128 \notin DOMAIN LedBit

Ordinaries(s) == {i \in DOMAIN s : Ordinary(s[i])}

\* How many members of S there are up to i.
Upto(S, i) == Cardinality({j \in S : j <= i})

(***************************************************************************)
(* The keys go into the buffer in the order in which they were pressed and *)
(* released, each one once, however handlers are nested; when all is       *)
(* quiet, all of them have.  That is as long as the buffer was not full    *)
(* when a key came.                                                        *)
(***************************************************************************)
KeysBuffered ==
    ~dropped =>
        LET in == Ordinaries(accepted)
            due == Ordinaries(sent)
        IN  /\ \A i \in in : \E j \in due :
                  Upto(in, i) = Upto(due, j) /\ accepted[i] = sent[j]
            /\ AtRest /\ cpu = "runs" => Cardinality(in) = Cardinality(due)

(***************************************************************************)
(* The machine is reset only by a user who holds Ctrl and Alt down and     *)
(* presses Delete, the one that is not on the keypad.                      *)
(***************************************************************************)
ResetByUser ==
    cpu = "reset" =>
        /\ "del" \in seen.held
        /\ seen.held \cap {"lctrl", "rctrl"} # {}
        /\ seen.held \cap {"lalt", "ralt"} # {}

(***************************************************************************)
(* When all is quiet the leds of the keyboard are those in led_state,      *)
(* though send_data() takes the reply to one byte for that to the next,    *)
(* and setleds() is called while another setleds() waits between its       *)
(* bytes.  This holds if the keyboard understands each byte at once.       *)
(***************************************************************************)
LedsFollow == AtRest /\ ~nacked => leds = led_state

(***************************************************************************)
(* The interrupt handler returns, whatever the keyboard replies.           *)
(***************************************************************************)
HandlerReturns == [](calls # <<>> => <>(calls = <<>> \/ cpu = "reset"))

(***************************************************************************)
(* The keys a thread reads are those that were pressed, in that order,     *)
(* none of them twice and none left out, as long as the buffer was not     *)
(* full; a second code is that of the key read before it.                  *)
(***************************************************************************)
KeysReadInOrder ==
    LET first == {i \in DOMAIN results : results[i].level # "second"} IN
    /\ ~dropped => \A i \in first :
          /\ Upto(first, i) <= Len(typed)
          /\ results[i].code = typed[Upto(first, i)].code
    /\ \A i \in DOMAIN results \ first :
          i > 1 /\ i - 1 \in first /\ results[i - 1].code = results[i].code
=============================================================================
