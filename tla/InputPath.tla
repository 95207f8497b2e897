----------------------------- MODULE InputPath -----------------------------
(***************************************************************************)
(* From a key of the Prodikeys to the USB host: the keyboard and decoder   *)
(* of ScanStream, the callbacks of ProdikeysSketch, which run inside the   *)
(* interrupt that decodes the byte, the serial line, and lufa_parse() of   *)
(* UsbParser.  The serial line carries whole packets in order here; what   *)
(* happens to their bytes is the subject of LufaLink.                      *)
(*                                                                         *)
(* settingsWere, struck and strayed only record the run.                   *)
(***************************************************************************)
EXTENDS ScanStream

CONSTANTS
    MaxTranspose, OctaveStep, MaxChannel, MaxPatch,     \* as in ProdikeysSketch
    WireRoom    \* an event begins only while at most this many packets wait

VARIABLES
    transpose, channel, patch, sent,        \* the sketch
    wire,                                   \* packets between the controllers
    keyCode, modifiers, midiOut, pong       \* the USB controller
VARIABLES
    sounding,       \* the notes the host hears: pairs of channel and note number
    settingsWere,   \* the settings when the current event began
    struck,         \* the settings each held piano key was struck with
    strayed         \* a piano key was released under other settings

S == INSTANCE ProdikeysSketch WITH Inputs <- {}, Extras <- {}
U == INSTANCE UsbParser

settings == <<transpose, channel, patch>>
hid      == <<keyCode, modifiers>>
outputs  == <<call, sent, midiOut, pong>>
ghosts   == <<settingsWere, struck, strayed>>
pathVars == <<decoder, keyboard, settings, wire, hid, outputs, sounding, ghosts>>

ASSUME InputPathAssumption ==
    /\ WireRoom \in Nat
    /\ MaxTranspose \in 1..127 /\ OctaveStep \in 1..MaxTranspose
    /\ MaxChannel \in 0..15 /\ MaxPatch \in 0..127

(* The octave keys are extended, and no plain key shares their codes: the   *)
(* translation table has no entry for such a key either.                    *)
ASSUME OctaveAssumption ==
    \A k \in Keys : k.code \in {S!OctaveUp, S!OctaveDown} => k.ext

Tuning == <<transpose, channel>>

-----------------------------------------------------------------------------
PathInit ==
    /\ Init
    /\ S!Init
    /\ wire = << >>
    /\ U!ParserInit
    /\ sounding = {}
    /\ settingsWere = <<0, 0, 0>> /\ struck = [n \in Notes |-> <<0, 0>>] /\ strayed = FALSE

PathBeginEvent ==
    /\ Len(wire) <= WireRoom
    /\ BeginEvent
    /\ settingsWere' = settings
    /\ struck' = CASE event'.kind = "NoteOn"  -> [struck EXCEPT ![event'.val] = Tuning]
                   [] event'.kind = "NoteOff" -> [struck EXCEPT ![event'.val] = <<0, 0>>]
                   [] OTHER                   -> struck
    /\ strayed' = (strayed \/ (event'.kind = "NoteOff" /\ struck[event'.val] # Tuning))
    /\ sent' = << >> /\ midiOut' = << >> /\ pong' = << >>
    /\ UNCHANGED <<settings, wire, hid, sounding>>

(* One byte through the interrupt handler, the callback and its packets.    *)
PathDecodeByte ==
    /\ DecodeByte
    /\ S!React(call', D!Extra)
    /\ wire' = wire \o sent'
    /\ midiOut' = << >> /\ pong' = << >>
    /\ UNCHANGED <<hid, sounding, ghosts>>

(* The USB controller takes a packet and the host hears its MIDI event.     *)
Hear(e) ==
    LET note == <<e.status % 16, e.data2>> IN
    CASE e.index = 9 /\ e.data3 > 0 -> sounding \cup {note}
      [] e.index = 8 \/ (e.index = 9 /\ e.data3 = 0) -> sounding \ {note}
      [] OTHER -> sounding
ReceivePacket ==
    /\ wire # << >>
    /\ U!lufa_parse(Head(wire))
    /\ wire' = Tail(wire)
    /\ sounding' = IF midiOut' = << >> THEN sounding ELSE Hear(midiOut'[1])
    /\ call' = D!NoCall /\ sent' = << >>
    /\ UNCHANGED <<decoder, keyboard, settings, ghosts>>

PathNext == PathBeginEvent \/ PathDecodeByte \/ ReceivePacket

PathSpec == PathInit /\ [][PathNext]_pathVars

-----------------------------------------------------------------------------
Settled == tx = << >> /\ wire = << >>

PathTypeOK ==
    /\ TypeOK
    /\ S!SettingsInRange
    /\ Len(wire) <= WireRoom + 2
    /\ keyCode \in 0..255 /\ modifiers \in 0..7
    /\ sounding \subseteq (0..MaxChannel) \X (0..255)

(* The host never believes a key pressed while no typing key is down: the   *)
(* last release always clears the key code, whatever was pressed, retuned   *)
(* or played in between, unless a typing key was taken for a message.       *)
NoStuckKey == Settled /\ ~derailed /\ keyCode # 0 => held \cap Keys # {}

(* A note sounds only while a piano key that struck it is down.  The one    *)
(* exception the code allows is a key released under other settings than it *)
(* was struck with.                                                         *)
NoHangingNote ==
    Settled /\ ~strayed =>
        \A s \in sounding : \E n \in notes :
            s = <<struck[n][2], (n + struck[n][1]) % 256>>

(* Only pressing an octave key retunes: its release, and every other event, *)
(* leaves the MIDI settings alone.                                          *)
IsOctaveMake == event.kind = "Make" /\ event.key.ext /\ event.key.code \in {S!OctaveUp, S!OctaveDown}
OnlyOctavePressRetunes == ~IsOctaveMake => settings = settingsWere

=============================================================================
