----------------------------- MODULE ScanStream -----------------------------
(***************************************************************************)
(* The Prodikeys keyboard talking to the decoder of PS2Decoder.            *)
(*                                                                         *)
(* The keyboard is external.  What it sends is taken from the sniffer log  *)
(* in info/ and from the byte sequences ps2interrupt() expects: a typing   *)
(* key is <code>, or E0 <code> when extended; its release has F0 before    *)
(* the code; a piano key is E0 51 <note> <velocity> and E0 51 F0 <note>; a *)
(* function button is E0 31 <code> and E0 31 F0 <code>; the wheel is       *)
(* E0 31 <position>.  The bytes of one event are not interrupted by those  *)
(* of another; replies to host commands come between events.               *)
(*                                                                         *)
(* The decoder's flags survive from one event to the next, so what an      *)
(* event decodes to depends on the events before it.  The variables event, *)
(* heard, clean, breaks and derailed only record the run.                  *)
(***************************************************************************)
EXTENDS Integers, Sequences

CONSTANTS
    Keys,       \* typing keys, octave keys included: records [code, ext]
    Modifiers,  \* modifier keys and Caps Lock, records of the same shape
    Notes,      \* piano keys, by note number
    Velocity,   \* the velocity of every note
    Buttons,    \* function buttons, by code
    Wheel,      \* positions of the pitch wheel
    Replies     \* what the keyboard may answer to a host command

VARIABLES
    shift, ctrl, alt, capsLock, extend, release, prodFn, prodPos, prodKey,
    ackByteOk, installed, call      \* the decoder
VARIABLES
    held,       \* typing and modifier keys down
    notes,      \* piano keys down
    buttons,    \* function buttons down
    tx,         \* bytes of the current event still to be sent
    event,      \* the current or last event
    heard,      \* callbacks made by the bytes of event sent so far
    clean,      \* when event began, no flag of an earlier event was left over
    breaks,     \* consecutive releases of typing keys so far, up to 2
    derailed    \* a typing key was once taken for the start of a message

WireBytes == 0..255
D == INSTANCE PS2Decoder WITH Wire <- WireBytes

decoder  == <<shift, ctrl, alt, capsLock, extend, release, prodFn, prodPos,
              prodKey, ackByteOk, installed>>
keyboard == <<held, notes, buttons, tx, event, heard, clean, breaks, derailed>>
vars     == <<decoder, call, keyboard>>

ASSUME StreamAssumption ==
    /\ \A k \in Keys \cup Modifiers : k \in [code: WireBytes, ext: BOOLEAN]
    /\ \A k \in Keys : ~(k.ext /\ k.code \in {D!ButtonFn, D!NoteFn})
    /\ Notes \subseteq 0..127 /\ Velocity \in 0..127
    /\ Buttons \subseteq WireBytes \ (D!WheelCodes \cup {D!BreakPrefix})
    /\ Wheel \subseteq D!WheelCodes

(* Scan code set 2: no key has the code of a prefix, of an answer or, among *)
(* the typing keys, of the piano keys' prefix; a modifier has one of the    *)
(* codes the decoder knows.  The answers are those to single command bytes. *)
ModifierCodes == D!ShiftCodes \cup {D!AltCode, D!CtrlCode, D!CapsCode}
ASSUME ScanCodeAssumption ==
    /\ \A k \in Keys : k.code \in D!KeyCodes \ {D!NoteFn}
    /\ \A k \in Modifiers : k.code \in ModifierCodes
    /\ Replies \subseteq {D!Ack, D!SelfTestOk, D!Resend}

-----------------------------------------------------------------------------
(* Events and their bytes.                                                  *)

Prefix(k) == IF k.ext THEN <<D!ExtendPrefix>> ELSE << >>
NoKey == [code |-> 0, ext |-> FALSE]

KeyEvent(kind, k) ==
    [kind |-> kind, key |-> k, val |-> 0,
     bytes |-> Prefix(k) \o (IF kind = "Make" THEN <<k.code>> ELSE <<D!BreakPrefix, k.code>>)]
MessageEvent(kind, val, bytes) ==
    [kind |-> kind, key |-> NoKey, val |-> val, bytes |-> <<D!ExtendPrefix>> \o bytes]
ReplyEvent(b) == [kind |-> "Reply", key |-> NoKey, val |-> b, bytes |-> <<b>>]

Clean == ~release /\ ~extend /\ prodFn = 0

Begin(e) ==
    /\ tx = << >>
    /\ event' = e
    /\ tx' = e.bytes
    /\ heard' = << >>
    /\ clean' = Clean
    /\ breaks' = CASE e.kind = "Break" /\ e.key \in Keys -> IF breaks = 2 THEN 2 ELSE breaks + 1
                   [] e.kind = "Reply" -> breaks
                   [] OTHER -> 0
    /\ call' = D!NoCall
    /\ UNCHANGED <<decoder, derailed>>

(* A key goes down, or repeats while it is down.                            *)
Make == \E k \in Keys \cup Modifiers :
    /\ Begin(KeyEvent("Make", k))
    /\ held' = held \cup {k}
    /\ UNCHANGED <<notes, buttons>>

Break == \E k \in held :
    /\ Begin(KeyEvent("Break", k))
    /\ held' = held \ {k}
    /\ UNCHANGED <<notes, buttons>>

NoteOn == \E n \in Notes \ notes :
    /\ Begin(MessageEvent("NoteOn", n, <<D!NoteFn, n, Velocity>>))
    /\ notes' = notes \cup {n}
    /\ UNCHANGED <<held, buttons>>

NoteOff == \E n \in notes :
    /\ Begin(MessageEvent("NoteOff", n, <<D!NoteFn, D!BreakPrefix, n>>))
    /\ notes' = notes \ {n}
    /\ UNCHANGED <<held, buttons>>

ButtonDown == \E f \in Buttons \ buttons :
    /\ Begin(MessageEvent("FuncDown", f, <<D!ButtonFn, f>>))
    /\ buttons' = buttons \cup {f}
    /\ UNCHANGED <<held, notes>>

ButtonUp == \E f \in buttons :
    /\ Begin(MessageEvent("FuncUp", f, <<D!ButtonFn, D!BreakPrefix, f>>))
    /\ buttons' = buttons \ {f}
    /\ UNCHANGED <<held, notes>>

TurnWheel == \E p \in Wheel :
    /\ Begin(MessageEvent("Wheel", p, <<D!ButtonFn, p>>))
    /\ UNCHANGED <<held, notes, buttons>>

Reply == \E b \in Replies :
    /\ Begin(ReplyEvent(b))
    /\ UNCHANGED <<held, notes, buttons>>

BeginEvent ==
    \/ Make \/ Break \/ NoteOn \/ NoteOff
    \/ ButtonDown \/ ButtonUp \/ TurnWheel \/ Reply

(* The next byte arrives and is decoded, callback included.                 *)
DecodeByte ==
    /\ tx # << >>
    /\ D!Receive(Head(tx))
    /\ tx' = Tail(tx)
    /\ heard' = IF call' = D!NoCall THEN heard ELSE Append(heard, call')
    /\ derailed' = (derailed \/ (event.kind \in {"Make", "Break"} /\ prodFn = 0 /\ prodFn' # 0))
    /\ UNCHANGED <<held, notes, buttons, event, clean, breaks>>

(* The keyboard has been initialised and every callback is set.             *)
Init ==
    /\ shift = FALSE /\ ctrl = FALSE /\ alt = FALSE /\ capsLock = FALSE
    /\ extend = FALSE /\ release = FALSE
    /\ prodFn = 0 /\ prodPos = 0 /\ prodKey = 0
    /\ ackByteOk = TRUE /\ installed = 7 /\ call = D!NoCall
    /\ held = {} /\ notes = {} /\ buttons = {}
    /\ tx = << >> /\ event = ReplyEvent(D!Ack) /\ heard = << >> /\ clean = TRUE
    /\ breaks = 0 /\ derailed = FALSE

Next == BeginEvent \/ DecodeByte

Spec == Init /\ [][Next]_vars

-----------------------------------------------------------------------------
Done == tx = << >>

TypeOK ==
    /\ D!TypeOK
    /\ held \subseteq Keys \cup Modifiers
    /\ notes \subseteq Notes /\ buttons \subseteq Buttons
    /\ event.kind \in {"Make", "Break", "NoteOn", "NoteOff", "FuncDown", "FuncUp", "Wheel", "Reply"}
    /\ Len(tx) <= Len(event.bytes) /\ Len(heard) <= Len(event.bytes)
    /\ clean \in BOOLEAN /\ derailed \in BOOLEAN /\ breaks \in 0..2

(* What the event should decode to.                                         *)
Expected(e) ==
    CASE e.kind = "Make" /\ e.key \in Keys    -> <<D!Callback("KeyPress", e.key.code, e.key.ext, D!Extra)>>
      [] e.kind = "Break" /\ e.key \in Keys   -> <<D!Callback("KeyRelease", e.key.code, FALSE, 0)>>
      [] e.kind = "NoteOn"   -> <<D!Callback("MidiPress", e.val, FALSE, Velocity)>>
      [] e.kind = "NoteOff"  -> <<D!Callback("MidiRelease", e.val, FALSE, 0)>>
      [] e.kind = "FuncDown" -> <<D!Callback("FuncPress", e.val, FALSE, D!Extra)>>
      [] e.kind = "FuncUp"   -> <<D!Callback("FuncRelease", e.val, FALSE, 0)>>
      [] e.kind = "Wheel"    -> <<D!Callback("PitchBend", D!WheelPitch(e.val), FALSE, 0)>>
      [] OTHER               -> << >>

(* Piano keys always work: whatever flags earlier events left behind, a     *)
(* press or release of a piano key makes exactly its own MIDI callback, and *)
(* no other event makes one.                                                *)
MidiAt(s) == {i \in DOMAIN s : s[i].cb \in {"MidiPress", "MidiRelease"}}
MidiFaithful ==
    Done => IF event.kind \in {"NoteOn", "NoteOff"}
            THEN \E i \in DOMAIN heard : MidiAt(heard) = {i} /\ <<heard[i]>> = Expected(event)
            ELSE MidiAt(heard) = {}

(* Every event is decoded exactly when nothing is left over from the one    *)
(* before it.                                                               *)
CleanDecodes == Done /\ clean => heard = Expected(event)

(* Leftover flags do not last: the releases of two typing keys in a row     *)
(* bring the decoder back to a clean state, whatever came before.           *)
TwoBreaksHeal == Done /\ breaks = 2 => Clean

(* A modifier the decoder believes held is held, as long as no typing key   *)
(* was taken for the start of a message.                                    *)
Holding(codes) == \E k \in held : k.code \in codes
NoStuckModifier ==
    Done /\ ~derailed =>
        /\ shift => Holding(D!ShiftCodes)
        /\ alt => Holding({D!AltCode})
        /\ ctrl => Holding({D!CtrlCode})

=============================================================================
