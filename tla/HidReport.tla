----------------------------- MODULE HidReport -----------------------------
(***************************************************************************)
(* From a keyboard packet to the host's idea of the keyboard: the two      *)
(* variables lufa_parse() sets one after the other, the report that        *)
(* CreateHIDReport() makes of them, and the ways it reaches the host.      *)
(*                                                                         *)
(* LUFA (external) calls CreateHIDReport() from the main loop, compares    *)
(* the report with the last one and fills the only bank of the endpoint,   *)
(* which the host polls; and from the interrupt of the control endpoint    *)
(* when the host asks with GET_REPORT, which also counts as the last one.  *)
(*                                                                         *)
(* chords and crossed only record the run.                                 *)
(***************************************************************************)
EXTENDS Integers, Sequences

CONSTANTS
    Keys, Mods,     \* key codes (0 is no key) and modifier bytes (0 is none)
    MaxPackets      \* bound on the packets of the sketch

ASSUME HidAssumption ==
    /\ Keys \subseteq 1..255
    /\ Mods \subseteq 0..255 /\ 0 \in Mods
    /\ MaxPackets \in Nat

VARIABLES
    keyCode, modifiers,     \* Keyboard_keyCode, Keyboard_modifiers
    parsing,                \* the modifiers lufa_parse() is about to set, if any
    prev,                   \* PrevKeyboardHIDReportBuffer
    bank,                   \* the report in the endpoint's bank, if any
    idleOn, idleOver,       \* the host keeps the idle timer on; it has run out
    host,                   \* the last report the host has seen
    packets,                \* packets parsed so far
    chords,                 \* the reports the sketch has asked for
    crossed                 \* GET_REPORT has overtaken an older report in the bank

globals == <<keyCode, modifiers, parsing>>
usb     == <<prev, bank, idleOver, host, crossed>>
vars    == <<globals, usb, idleOn, packets, chords>>

Packets == [cmd : {"press", "release", "leds"}, data1 : Keys, data2 : Mods]
Reports == [mods : Mods, key : Keys \cup {0}]
NoKeys == [mods |-> 0, key |-> 0]

Init ==
    /\ keyCode = 0 /\ modifiers = 0 /\ parsing = << >>
    /\ prev = NoKeys /\ bank = << >> /\ idleOn \in BOOLEAN /\ idleOver = FALSE
    /\ host = NoKeys /\ packets = 0 /\ chords = {NoKeys} /\ crossed = FALSE

-----------------------------------------------------------------------------
(* Mutant: the fields of the packet are swapped.                            *)
SetKeySwapped(p) == keyCode' = IF p.cmd = "press" THEN p.data2 ELSE 0

SetKey(p) == keyCode' = IF p.cmd = "press" THEN p.data1 ELSE 0

(* lufa_parse(): the key code first, then the modifiers.  An LED packet     *)
(* changes neither.                                                         *)
ParseKey(p) ==
    /\ parsing = << >> /\ packets < MaxPackets
    /\ packets' = packets + 1
    /\ IF p.cmd = "leds"
       THEN UNCHANGED <<globals, chords>>
       ELSE /\ SetKey(p)
            /\ parsing' = <<p.data2>>
            /\ chords' = chords \cup {[mods |-> p.data2, key |-> keyCode']}
            /\ UNCHANGED modifiers
    /\ UNCHANGED <<usb, idleOn>>

ParseModifiers ==
    /\ parsing # << >>
    /\ modifiers' = parsing[1] /\ parsing' = << >>
    /\ UNCHANGED <<keyCode, usb, idleOn, packets, chords>>

(* CreateHIDReport() leaves the decision whether to send to LUFA.           *)
CreateHIDReport == [mods |-> modifiers, key |-> keyCode]

Send(changed) ==
    IF changed \/ idleOver
    THEN bank' = <<CreateHIDReport>> /\ idleOver' = FALSE /\ crossed' = FALSE
    ELSE UNCHANGED <<bank, idleOver, crossed>>

(* Mutants: the task may find a packet half parsed; the report is compared  *)
(* when it has become the last one already.                                 *)
USBTaskAnyTime ==
    /\ bank = << >>
    /\ prev' = CreateHIDReport
    /\ Send(CreateHIDReport # prev)
    /\ UNCHANGED <<globals, idleOn, host, packets, chords>>
USBTaskForgetsChange ==
    /\ parsing = << >> /\ bank = << >>
    /\ prev' = CreateHIDReport
    /\ Send(CreateHIDReport # prev')
    /\ UNCHANGED <<globals, idleOn, host, packets, chords>>

(* HID_Device_USBTask() follows lufa_parse() in the main loop, so it never  *)
(* finds a packet half parsed.                                              *)
USBTask ==
    /\ parsing = << >> /\ bank = << >>
    /\ prev' = CreateHIDReport
    /\ Send(CreateHIDReport # prev)
    /\ UNCHANGED <<globals, idleOn, host, packets, chords>>

(* EVENT_USB_Device_StartOfFrame() counts the idle time down.               *)
StartOfFrame ==
    /\ idleOn /\ ~idleOver /\ idleOver' = TRUE
    /\ UNCHANGED <<globals, prev, bank, host, crossed, idleOn, packets, chords>>

HostPolls ==
    /\ bank # << >>
    /\ host' = bank[1] /\ bank' = << >>
    /\ UNCHANGED <<globals, prev, idleOver, crossed, idleOn, packets, chords>>

(* GET_REPORT: the interrupt may come between the two assignments.          *)
GetReport ==
    /\ host' = CreateHIDReport /\ prev' = CreateHIDReport
    /\ crossed' = (crossed \/ (bank # << >> /\ bank # <<CreateHIDReport>>))
    /\ UNCHANGED <<globals, bank, idleOver, idleOn, packets, chords>>

Next ==
    \/ \E p \in Packets : ParseKey(p)
    \/ ParseModifiers \/ USBTask \/ StartOfFrame \/ HostPolls \/ GetReport

Spec == Init /\ [][Next]_vars

(* The main loop goes round, the host polls every few milliseconds and      *)
(* sends frames.                                                            *)
FairSpec ==
    /\ Spec
    /\ WF_vars(ParseModifiers) /\ WF_vars(USBTask)
    /\ WF_vars(StartOfFrame) /\ WF_vars(HostPolls)

-----------------------------------------------------------------------------
TypeOK ==
    /\ keyCode \in Keys \cup {0} /\ modifiers \in Mods
    /\ parsing \in {<< >>} \cup {<<m>> : m \in Mods}
    /\ prev \in Reports /\ host \in Reports
    /\ bank \in {<< >>} \cup {<<r>> : r \in Reports}
    /\ idleOn \in BOOLEAN /\ idleOver \in BOOLEAN
    /\ packets \in 0..MaxPackets
    /\ chords \subseteq Reports
    /\ crossed \in BOOLEAN

(* A report the host polls is a combination of key and modifiers the sketch *)
(* asked for: never the key of one packet with the modifiers of another,    *)
(* although lufa_parse() sets them one after the other.                     *)
PolledChordsReal == bank # << >> => bank[1] \in chords

(* Whatever the sketch asked for last reaches the host, unless a new packet *)
(* comes first: no change is swallowed by the comparison with the last      *)
(* report, although a control request changes what the last report is.  The *)
(* exception is a request that overtook an older report in the bank, after  *)
(* which the host is left with that one; the idle timer repairs this too.   *)
HostCatchesUp ==
    \A n \in 0..MaxPackets :
        packets = n ~> \/ packets > n
                       \/ crossed /\ ~idleOn
                       \/ parsing = << >> /\ host = CreateHIDReport

=============================================================================
