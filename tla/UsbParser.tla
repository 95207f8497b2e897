------------------------------ MODULE UsbParser ------------------------------
(***************************************************************************)
(* What the USB controller does with a complete packet from the sketch:    *)
(* lufa_parse() of KeyboardMIDI.c.  Keyboard packets set the one key and   *)
(* the modifiers that the HID report carries, MIDI packets become USB MIDI *)
(* events at once, a ping is answered.                                     *)
(***************************************************************************)
EXTENDS Integers, Sequences

VARIABLES
    keyCode, modifiers,     \* Keyboard_keyCode, Keyboard_modifiers
    midiOut,                \* the MIDI events this step sent to the host
    pong                    \* the packets this step queued for the sketch

parserVars == <<keyCode, modifiers, midiOut, pong>>

Internal == 105     \* 'i'
Keyboard == 75      \* 'K'
Midi     == 77      \* 'M'
Ping     == 63      \* '?'
Pong     == 33      \* '!'
Press    == 80      \* 'P'
Release  == 82      \* 'R'

ParserInit == keyCode = 0 /\ modifiers = 0 /\ midiOut = << >> /\ pong = << >>

(* Mutant: a release leaves the key code.                                   *)
ParseKeyboardKeepsKey(p) ==
    /\ p.intf = Keyboard
    /\ keyCode' = IF p.cmd = Press THEN p.data1 ELSE keyCode
    /\ modifiers' = p.data2
    /\ midiOut' = << >> /\ pong' = << >>

ParseKeyboard(p) ==
    /\ p.intf = Keyboard
    /\ CASE p.cmd = Press   -> keyCode' = p.data1 /\ modifiers' = p.data2
         [] p.cmd = Release -> keyCode' = 0 /\ modifiers' = p.data2
         [] OTHER           -> UNCHANGED <<keyCode, modifiers>>
    /\ midiOut' = << >> /\ pong' = << >>

(* MIDI_send(): the code index of the event is the upper half of the status *)
(* byte.                                                                    *)
ParseMidi(p) ==
    /\ p.intf = Midi
    /\ midiOut' = <<[index |-> p.cmd \div 16, status |-> p.cmd,
                     data2 |-> p.data1, data3 |-> p.data2]>>
    /\ pong' = << >>
    /\ UNCHANGED <<keyCode, modifiers>>

ParseInternal(p) ==
    /\ p.intf = Internal
    /\ pong' = IF p.cmd = Ping THEN <<[p EXCEPT !.cmd = Pong]>> ELSE << >>
    /\ midiOut' = << >>
    /\ UNCHANGED <<keyCode, modifiers>>

lufa_parse(p) == ParseKeyboard(p) \/ ParseMidi(p) \/ ParseInternal(p)

=============================================================================
