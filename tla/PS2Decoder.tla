----------------------------- MODULE PS2Decoder -----------------------------
(***************************************************************************)
(* The scan-code decoder of the PS/2 interrupt handler, one step per byte. *)
(*                                                                         *)
(* ps2interrupt() collects eleven bits and then, still inside the          *)
(* interrupt, decodes the byte: it updates flags that survive from byte to *)
(* byte and makes at most one callback.  The step is atomic because the    *)
(* handler runs with interrupts disabled; only the installation of the     *)
(* callback pointers, done by the main program, interleaves with it.       *)
(*                                                                         *)
(* Left out: ps2Keyboard_CharBuffer, which the handler writes and only the *)
(* polling calls available() and read() look at (the sketch never makes    *)
(* them), and the bit counter, which is back at 0 before every byte here.  *)
(***************************************************************************)
EXTENDS Integers

CONSTANT
    Wire    \* the byte values the keyboard can put on the wire

ASSUME WireAssumption == Wire \subseteq 0..255

VARIABLES
    shift, ctrl, alt,   \* a modifier key is held, as far as the decoder knows
    capsLock,           \* the Caps Lock toggle
    extend,             \* an E0 prefix was seen
    release,            \* an F0 prefix was seen
    prodFn,             \* the Prodikeys function a message is being read for, or 0
    prodPos,            \* bytes of that message read so far
    prodKey,            \* the note number of the message
    ackByteOk,          \* the keyboard acknowledged the last command byte
    installed,          \* how many of the seven event callbacks are set
    call                \* the callback this step made

flags == <<shift, ctrl, alt, capsLock>>
prod  == <<prodFn, prodPos, prodKey>>
vars  == <<shift, ctrl, alt, capsLock, extend, release, prodFn, prodPos,
           prodKey, ackByteOk, installed, call>>

-----------------------------------------------------------------------------
(* Bytes with a meaning of their own.                                       *)

BreakPrefix  == \hF0
ExtendPrefix == \hE0
Ack          == \hFA
SelfTestBad  == {\hFC, \hFD}
Resend       == \hFE
SelfTestOk   == \hAA
ShiftCodes   == {\h12, \h59}
AltCode      == \h11
CtrlCode     == \h14
CapsCode     == \h58
ButtonFn     == \h31      \* E0 31: function buttons and the pitch wheel
NoteFn       == \h51      \* E0 51: the piano keys
WheelCodes   == \h31..\h6F

KeyCodes == Wire \ ({BreakPrefix, ExtendPrefix, Ack, Resend, SelfTestOk, AltCode,
                     CtrlCode, CapsCode} \cup SelfTestBad \cup ShiftCodes)

(* map(b, 0x31, 0x6f, -64, 64) of the Arduino library: the whole range is   *)
(* scaled by 128/62, rounding down.                                         *)
WheelPitch(b) == ((b - \h31) * 128) \div 62 - 64

Bit(f) == IF f THEN 1 ELSE 0

(* kbd_read_extra(): the modifiers as one small number.                     *)
Extra == 8 * Bit(capsLock) + 4 * Bit(shift) + 2 * Bit(alt) + Bit(ctrl)

-----------------------------------------------------------------------------
(* Callbacks.  A call is a record; arg is the modifiers, the velocity or    *)
(* nothing, and ext is only meaningful for typing keys.                     *)

Slot == [KeyPress |-> 1, KeyRelease |-> 2, FuncPress |-> 3, FuncRelease |-> 4,
         MidiPress |-> 5, MidiRelease |-> 6, PitchBend |-> 7]
CallbackKinds == DOMAIN Slot

Calls == [cb: CallbackKinds \cup {"None", "Error"}, code: -64..255,
          ext: BOOLEAN, arg: 0..255]
Callback(kind, code, ext, arg) == [cb |-> kind, code |-> code, ext |-> ext, arg |-> arg]
NoCall   == Callback("None", 0, FALSE, 0)
Error(e) == Callback("Error", e, FALSE, 0)

ErrorSelfTest == 83    \* 'S'
ErrorFlow     == 88    \* 'X'
ErrorFunction == 70    \* 'F'

(* A callback whose pointer is still NULL is not made.  The error callback  *)
(* is set from the start.                                                   *)
Deliver(c) == call' = IF c.cb = "Error" \/ Slot[c.cb] <= installed THEN c ELSE NoCall
Quiet == call' = NoCall

-----------------------------------------------------------------------------
(* PS2Keyboard::begin() and the first setCallbacks(): nothing pressed, no   *)
(* message in flight, no event callback.  begin() leaves prodikeysPos and   *)
(* prodikeysKey and the acknowledge flag alone: they are zero at power-up.  *)
Init ==
    /\ shift = FALSE /\ ctrl = FALSE /\ alt = FALSE /\ capsLock = FALSE
    /\ extend = FALSE /\ release = FALSE
    /\ prodFn = 0 /\ prodPos = 0 /\ prodKey = 0
    /\ ackByteOk = FALSE
    /\ installed = 0
    /\ call = NoCall

(* The second setCallbacks() stores the pointers one after the other while  *)
(* the interrupt is enabled.                                                *)
InstallNext ==
    /\ installed < 7
    /\ installed' = installed + 1
    /\ Quiet
    /\ UNCHANGED <<flags, extend, release, prod, ackByteOk>>

-----------------------------------------------------------------------------
(* Bytes of a Prodikeys message.                                            *)

AdvanceMessage == prodPos' = (prodPos + 1) % 256

(* Mutant: F0 is taken for a button of its own.                             *)
ButtonByteIgnoresBreak(b) ==
    /\ prodFn = ButtonFn
    /\ AdvanceMessage
    /\ Deliver(IF b \in WheelCodes THEN Callback("PitchBend", WheelPitch(b), FALSE, 0)
                                   ELSE Callback("FuncPress", b, FALSE, Extra))
    /\ prodFn' = 0
    /\ UNCHANGED <<flags, extend, release, prodKey, ackByteOk, installed>>

(* E0 31 <c> presses a function button or moves the wheel; E0 31 F0 <c>     *)
(* releases a button.  Afterwards release keeps its value.                  *)
ButtonByte(b) ==
    /\ prodFn = ButtonFn
    /\ AdvanceMessage
    /\ \/ /\ prodPos = 0 /\ b = BreakPrefix
          /\ release' = TRUE
          /\ Quiet
          /\ UNCHANGED prodFn
       \/ /\ prodPos = 0 /\ b # BreakPrefix
          /\ Deliver(IF b \in WheelCodes
                     THEN Callback("PitchBend", WheelPitch(b), FALSE, 0)
                     ELSE Callback("FuncPress", b, FALSE, Extra))
          /\ prodFn' = 0
          /\ UNCHANGED release
       \/ /\ prodPos # 0
          /\ IF release THEN Deliver(Callback("FuncRelease", b, FALSE, 0)) ELSE Quiet
          /\ prodFn' = 0
          /\ UNCHANGED release
    /\ UNCHANGED <<flags, extend, prodKey, ackByteOk, installed>>

(* E0 51 <note> <velocity> presses a piano key, E0 51 F0 <note> releases    *)
(* one.  Any other position or function is an error and ends the message.   *)
NoteByte(b) ==
    /\ prodFn \notin {0, ButtonFn}
    /\ AdvanceMessage
    /\ \/ /\ prodFn = NoteFn /\ prodPos = 0
          /\ IF b = BreakPrefix
             THEN release' = TRUE /\ UNCHANGED prodKey
             ELSE prodKey' = b /\ UNCHANGED release
          /\ Quiet
          /\ UNCHANGED prodFn
       \/ /\ ~(prodFn = NoteFn /\ prodPos = 0)
          /\ Deliver(IF prodFn # NoteFn THEN Error(ErrorFunction)
                     ELSE IF prodPos # 1 THEN Error(ErrorFlow)
                     ELSE IF release THEN Callback("MidiRelease", b, FALSE, 0)
                     ELSE Callback("MidiPress", prodKey, FALSE, b))
          /\ prodKey' = IF prodFn = NoteFn /\ prodPos = 1 /\ release THEN b ELSE prodKey
          /\ prodFn' = 0
          /\ UNCHANGED release
    /\ UNCHANGED <<flags, extend, ackByteOk, installed>>

-----------------------------------------------------------------------------
(* Bytes outside a message.                                                 *)

(* Mutant: F0 leaves extend alone.                                          *)
ControlByteKeepsExtend(b) ==
    /\ prodFn = 0
    /\ \/ b = BreakPrefix /\ release' = TRUE /\ UNCHANGED extend
       \/ b = ExtendPrefix /\ extend' = TRUE /\ UNCHANGED release
       \/ b = Ack /\ UNCHANGED <<release, extend>>
    /\ Quiet
    /\ UNCHANGED <<flags, prod, ackByteOk, installed>>

(* F0, E0 and the keyboard's replies to commands.  After FE the handler     *)
(* also clears the command state, which is already clear: a byte is decoded *)
(* only while no command is being sent.                                     *)
ControlByte(b) ==
    /\ prodFn = 0
    /\ \/ b = BreakPrefix /\ release' = TRUE /\ extend' = FALSE /\ Quiet /\ UNCHANGED ackByteOk
       \/ b = ExtendPrefix /\ extend' = TRUE /\ Quiet /\ UNCHANGED <<release, ackByteOk>>
       \/ b \in {Ack, SelfTestOk} /\ ackByteOk' = TRUE /\ Quiet /\ UNCHANGED <<release, extend>>
       \/ b = Resend /\ ackByteOk' = FALSE /\ Quiet /\ UNCHANGED <<release, extend>>
       \/ /\ b \in SelfTestBad
          /\ Deliver(Error(ErrorSelfTest))
          /\ UNCHANGED <<release, extend, ackByteOk>>
    /\ UNCHANGED <<flags, prod, installed>>

(* Mutant: a modifier toggles its flag at every code.                       *)
ModifierByteToggles(b) ==
    /\ prodFn = 0
    /\ \/ b \in ShiftCodes /\ shift' = ~shift /\ UNCHANGED <<ctrl, alt, capsLock>>
       \/ b = AltCode /\ alt' = ~alt /\ UNCHANGED <<shift, ctrl, capsLock>>
       \/ b = CtrlCode /\ ctrl' = ~ctrl /\ UNCHANGED <<shift, alt, capsLock>>
    /\ release' = FALSE
    /\ Quiet
    /\ UNCHANGED <<extend, prod, ackByteOk, installed>>

(* Modifiers: down without F0, up with it.  Both shift keys share one flag, *)
(* as do the plain and the extended alt and ctrl.                           *)
ModifierByte(b) ==
    /\ prodFn = 0
    /\ \/ b \in ShiftCodes /\ shift' = ~release /\ UNCHANGED <<ctrl, alt, capsLock>>
       \/ b = AltCode /\ alt' = ~release /\ UNCHANGED <<shift, ctrl, capsLock>>
       \/ b = CtrlCode /\ ctrl' = ~release /\ UNCHANGED <<shift, alt, capsLock>>
       \/ /\ b = CapsCode
          /\ capsLock' = IF release THEN capsLock ELSE ~capsLock
          /\ UNCHANGED <<shift, ctrl, alt>>
    /\ release' = FALSE
    /\ Quiet
    /\ UNCHANGED <<extend, prod, ackByteOk, installed>>

(* Mutants: a reset is missing, or any extended key starts a message.       *)
StartMessageKeepsRelease(b) ==
    /\ prodFn = 0
    /\ extend /\ b \in {ButtonFn, NoteFn}
    /\ prodFn' = b
    /\ prodPos' = 0
    /\ Quiet
    /\ UNCHANGED <<flags, extend, release, prodKey, ackByteOk, installed>>
StartMessageKeepsPosition(b) ==
    /\ prodFn = 0
    /\ extend /\ b \in {ButtonFn, NoteFn}
    /\ prodFn' = b
    /\ release' = FALSE
    /\ Quiet
    /\ UNCHANGED <<flags, extend, prodPos, prodKey, ackByteOk, installed>>
StartMessageOnAnyKey(b) ==
    /\ prodFn = 0
    /\ extend /\ b \in KeyCodes
    /\ prodFn' = b
    /\ prodPos' = 0
    /\ release' = FALSE
    /\ Quiet
    /\ UNCHANGED <<flags, extend, prodKey, ackByteOk, installed>>

(* 51 or 31 after E0 starts a Prodikeys message.                            *)
StartMessage(b) ==
    /\ prodFn = 0
    /\ extend /\ b \in {ButtonFn, NoteFn}
    /\ prodFn' = b
    /\ prodPos' = 0
    /\ release' = FALSE
    /\ Quiet
    /\ UNCHANGED <<flags, extend, prodKey, ackByteOk, installed>>

(* Everything else is a typing key, pressed or, after F0, released.         *)
KeyByte(b) ==
    /\ prodFn = 0
    /\ b \in KeyCodes
    /\ ~(extend /\ b \in {ButtonFn, NoteFn})
    /\ Deliver(IF release THEN Callback("KeyRelease", b, extend, 0)
                          ELSE Callback("KeyPress", b, extend, Extra))
    /\ release' = FALSE
    /\ UNCHANGED <<flags, extend, prod, ackByteOk, installed>>

-----------------------------------------------------------------------------
Receive(b) ==
    \/ ButtonByte(b) \/ NoteByte(b)
    \/ ControlByte(b) \/ ModifierByte(b)
    \/ StartMessage(b) \/ KeyByte(b)

Next == InstallNext \/ \E b \in Wire : Receive(b)

Spec == Init /\ [][Next]_vars

-----------------------------------------------------------------------------
TypeOK ==
    /\ shift \in BOOLEAN /\ ctrl \in BOOLEAN /\ alt \in BOOLEAN /\ capsLock \in BOOLEAN
    /\ extend \in BOOLEAN /\ release \in BOOLEAN /\ ackByteOk \in BOOLEAN
    /\ prodFn \in {0, ButtonFn, NoteFn}
    /\ prodPos \in 0..255
    /\ prodKey \in 0..255
    /\ installed \in 0..7
    /\ call \in Calls

(* A message being read is at its first or second byte; before the first    *)
(* byte the release flag is clear, and a button message only reaches its    *)
(* second byte through F0.  StartMessage must reset both for this to hold.  *)
MessageInFlight ==
    prodFn # 0 =>
        /\ prodPos \in {0, 1}
        /\ prodPos = 0 => ~release
        /\ prodFn = ButtonFn /\ prodPos = 1 => release

(* Whatever bytes arrive, the flow errors 'X' and 'F' are never reported:   *)
(* the position counter and the function code cannot get out of step.       *)
NoFlowError == call \notin {Error(ErrorFlow), Error(ErrorFunction)}

=============================================================================
