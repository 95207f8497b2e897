--------------------------- MODULE ProdikeysSketch ---------------------------
(***************************************************************************)
(* The callbacks of the Arduino sketch: they turn what the decoder reports *)
(* into packets for the USB controller and keep the MIDI settings          *)
(* (transposition, channel, patch) that the two octave keys change.        *)
(*                                                                         *)
(* The callbacks run inside the PS/2 interrupt, so each is one step.  The  *)
(* debug output they print is left out.                                    *)
(***************************************************************************)
EXTENDS UsbScanCodes

CONSTANTS
    MaxTranspose,   \* 127 in the code, as are the next three 12, 15 and 127
    OctaveStep,
    MaxChannel,
    MaxPatch,
    Inputs,         \* the calls the decoder may make
    Extras          \* the modifier combinations that may be held

Calls == [cb: {"None", "Error", "KeyPress", "KeyRelease", "FuncPress", "FuncRelease",
               "MidiPress", "MidiRelease", "PitchBend"},
          code: -64..255, ext: BOOLEAN, arg: 0..255]

ASSUME SketchAssumption ==
    /\ MaxTranspose \in 1..127
    /\ OctaveStep \in 1..MaxTranspose
    /\ MaxChannel \in 0..15
    /\ MaxPatch \in 0..127
    /\ Inputs \subseteq Calls
    /\ Extras \subseteq 0..15

VARIABLES
    transpose, channel, patch,  \* midi_transpose, midi_channel, midi_patch
    sent                        \* the packets this step handed to the serial port

settings == <<transpose, channel, patch>>
sketchVars == <<transpose, channel, patch, sent>>

-----------------------------------------------------------------------------
(* The packets of the internal protocol, without the leading magic byte.    *)

Packet(intf, cmd, data1, data2) == [intf |-> intf, cmd |-> cmd, data1 |-> data1, data2 |-> data2]

Internal == 105     \* 'i'
Keyboard == 75      \* 'K'
Midi     == 77      \* 'M'
Ping     == 63      \* '?'
Press    == 80      \* 'P'
Release  == 82      \* 'R'

NoteOff == \h80
NoteOn  == \h90
ProgramChange == \hC0
PitchWheel    == \hE0

MidiPacket(status, data1, data2) == Packet(Midi, status + channel, data1, data2)

-----------------------------------------------------------------------------
(* Modifier bits of kbd_read_extra(): 1 ctrl, 2 alt, 4 shift, 8 Caps Lock.  *)
HasBit(mod, bit) == (mod \div bit) % 2 = 1

ps2ModToUsb(mod) ==
    (IF HasBit(mod, 1) THEN 1 ELSE 0) + (IF HasBit(mod, 2) THEN 4 ELSE 0)
    + (IF HasBit(mod, 4) THEN 2 ELSE 0)

OctaveUp   == \h62
OctaveDown == \h63
CtrlOnly   == 1
AltOnly    == 2
ShiftOnly  == 4

(* Mutants: no setting is bounded; the step for Ctrl falls through to the   *)
(* regular one.                                                             *)
TuneUpUnbounded(mod) ==
    /\ channel' = IF mod = ShiftOnly THEN channel + 1 ELSE channel
    /\ patch' = IF mod = CtrlOnly THEN patch + 1 ELSE patch
    /\ transpose' = CASE mod = AltOnly                 -> transpose + 1
                      [] mod \in {ShiftOnly, CtrlOnly} -> transpose
                      [] OTHER                         -> transpose + OctaveStep
TuneUpFallsThrough(mod) ==
    /\ UNCHANGED channel
    /\ patch' = IF mod = CtrlOnly /\ patch < MaxPatch THEN patch + 1 ELSE patch
    /\ transpose' = IF transpose + OctaveStep <= MaxTranspose
                    THEN transpose + OctaveStep ELSE transpose

(* An octave key, with exactly one modifier or any other combination.  The  *)
(* regular step is taken only if it stays strictly inside the range below   *)
(* and within it above.                                                     *)
TuneUp(mod) ==
    /\ channel' = IF mod = ShiftOnly /\ channel < MaxChannel THEN channel + 1 ELSE channel
    /\ patch' = IF mod = CtrlOnly /\ patch < MaxPatch THEN patch + 1 ELSE patch
    /\ transpose' = CASE mod = AltOnly /\ transpose < MaxTranspose -> transpose + 1
                      [] mod \notin {ShiftOnly, AltOnly, CtrlOnly}
                         /\ transpose + OctaveStep <= MaxTranspose -> transpose + OctaveStep
                      [] OTHER -> transpose
TuneDown(mod) ==
    /\ channel' = IF mod = ShiftOnly /\ channel > 0 THEN channel - 1 ELSE channel
    /\ patch' = IF mod = CtrlOnly /\ patch > 0 THEN patch - 1 ELSE patch
    /\ transpose' = CASE mod = AltOnly /\ transpose > -MaxTranspose -> transpose - 1
                      [] mod \notin {ShiftOnly, AltOnly, CtrlOnly}
                         /\ transpose - OctaveStep > -MaxTranspose -> transpose - OctaveStep
                      [] OTHER -> transpose

(* What ps2ScanCodeToUsb() does beside translating: the octave keys, which  *)
(* are extended, retune, and with Ctrl a program change is sent at once.    *)
IsOctaveKey(code, ext) == ext /\ code \in {OctaveUp, OctaveDown}
Retune(code, ext, mod) ==
    CASE ext /\ code = OctaveUp   -> TuneUp(mod)
      [] ext /\ code = OctaveDown -> TuneDown(mod)
      [] OTHER                    -> UNCHANGED settings
AfterPatch(code, ext, mod, packet) ==
    IF IsOctaveKey(code, ext) /\ mod = CtrlOnly
    THEN <<Packet(Midi, ProgramChange + channel, patch', 0), packet>>
    ELSE <<packet>>

-----------------------------------------------------------------------------
(* The callbacks.  c is a call of the decoder, extra the modifiers at the   *)
(* time of the call.                                                        *)

onKeyPress(c) ==
    /\ c.cb = "KeyPress"
    /\ Retune(c.code, c.ext, c.arg)
    /\ sent' = AfterPatch(c.code, c.ext, c.arg,
                          Packet(Keyboard, Press, UsbCode(c.code, c.ext), ps2ModToUsb(c.arg)))

(* The release of a key is translated too, without modifiers.               *)
onKeyRelease(c, extra) ==
    /\ c.cb = "KeyRelease"
    /\ Retune(c.code, c.ext, 0)
    /\ sent' = AfterPatch(c.code, c.ext, 0,
                          Packet(Keyboard, Release, UsbCode(c.code, c.ext), ps2ModToUsb(extra)))

(* Of the function buttons only "Prodikeys" does something: it sends a ping. *)
PingButton == \h7C
onProdikeysKeyPress(c) ==
    /\ c.cb = "FuncPress"
    /\ sent' = IF c.code = PingButton THEN <<Packet(Internal, Ping, c.code, c.arg)>> ELSE << >>
    /\ UNCHANGED settings

(* The note number is transposed in a uint8_t: it wraps at 256 and may leave *)
(* the seven bits of a MIDI data byte.                                       *)
Transposed(n) == (n + transpose) % 256

onProdikeysMidiPress(c) ==
    /\ c.cb = "MidiPress"
    /\ sent' = <<MidiPacket(NoteOn, Transposed(c.code), c.arg)>>
    /\ UNCHANGED settings

(* Mutant: the release of a note is not transposed.                         *)
MidiReleaseUntransposed(c) ==
    /\ c.cb = "MidiRelease"
    /\ sent' = <<MidiPacket(NoteOff, c.code, c.arg)>>
    /\ UNCHANGED settings

onProdikeysMidiRelease(c) ==
    /\ c.cb = "MidiRelease"
    /\ sent' = <<MidiPacket(NoteOff, Transposed(c.code), c.arg)>>
    /\ UNCHANGED settings

(* Mutant: the bend is shifted one bit too far.                             *)
BendValueTooWide(pitch) == (8191 + pitch * 256) % 65536

(* 8191 + (pitch << 7) in a uint16_t, split into seven bits and the rest,   *)
(* each then passed as a uint8_t.                                           *)
BendValue(pitch) == (8191 + pitch * 128) % 65536
onProdikeysPitchBend(c) ==
    /\ c.cb = "PitchBend"
    /\ LET v == BendValue(c.code) IN
       sent' = <<MidiPacket(PitchWheel, v % 128, (v \div 128) % 256)>>
    /\ UNCHANGED settings

(* The release of a function button and an error only print something.      *)
onNothing(c) ==
    /\ c.cb \in {"None", "Error", "FuncRelease"}
    /\ sent' = << >>
    /\ UNCHANGED settings

React(c, extra) ==
    \/ onKeyPress(c) \/ onKeyRelease(c, extra)
    \/ onProdikeysKeyPress(c) \/ onProdikeysMidiPress(c) \/ onProdikeysMidiRelease(c)
    \/ onProdikeysPitchBend(c) \/ onNothing(c)

Init == transpose = 0 /\ channel = 0 /\ patch = 0 /\ sent = << >>

Next == \E c \in Inputs, extra \in Extras : React(c, extra)

Spec == Init /\ [][Next]_sketchVars

-----------------------------------------------------------------------------
(* The settings never leave the range the MIDI protocol and the wrap of the *)
(* transposed note allow, whatever keys are pressed with whatever modifiers.*)
SettingsInRange ==
    /\ transpose \in -MaxTranspose..MaxTranspose
    /\ channel \in 0..MaxChannel
    /\ patch \in 0..MaxPatch

(* Every MIDI packet has one of the four status nibbles the sketch uses: a  *)
(* channel never spills into the nibble beside it and turns a message into  *)
(* another one.                                                             *)
Statuses == {NoteOff, NoteOn, ProgramChange, PitchWheel}
StatusWellFormed ==
    \A i \in DOMAIN sent : sent[i].intf = Midi =>
        \E s \in Statuses : sent[i].cmd \in s..(s + MaxChannel)

(* One call of an octave key changes at most one of the three settings, by  *)
(* at most an octave.                                                       *)
OneSettingAtATime ==
    [][ /\ channel' # channel => transpose' = transpose /\ patch' = patch
        /\ patch' # patch => transpose' = transpose
        /\ transpose' - transpose \in -OctaveStep..OctaveStep ]_settings

(* The data bytes of the bend 65535.                                        *)
Wrapped == <<127, 255>>

(* Both data bytes of a pitch-wheel message have seven bits, as MIDI wants, *)
(* although the bend is computed in 16 bits without a limit.  The one       *)
(* exception is the lowest wheel position, whose value wraps to 65535.      *)
BendLegal ==
    \A i \in DOMAIN sent :
        sent[i].intf = Midi /\ sent[i].cmd \in PitchWheel..(PitchWheel + MaxChannel) =>
            \/ sent[i].data1 \in 0..127 /\ sent[i].data2 \in 0..127
            \/ <<sent[i].data1, sent[i].data2>> = Wrapped

=============================================================================
