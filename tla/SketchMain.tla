----------------------------- MODULE SketchMain -----------------------------
(***************************************************************************)
(* The main program of the sketch: the start-up sequence, the installation *)
(* of the callbacks, and the loop that takes packets from the USB          *)
(* controller, sets the lights and prints the debug dump.  The interrupt,  *)
(* the sending of commands and the keyboard are those of PS2Command.       *)
(***************************************************************************)
EXTENDS PS2Command

CONSTANTS
    Packets,    \* packets the USB controller may send
    Events,     \* what the keyboard may send on its own: sequences of bytes
    MaxLeds, MaxEvents  \* bounds on both

VARIABLES
    dump,       \* dump_data up to dump_ofs: for each byte whether it is still to be printed
    printIdx,   \* how far dump_flush() has come
    hostLeds,   \* the last LED report of the host
    leds, events

ASSUME EventsAssumption == Events \subseteq Seq(0..255) \ {<< >>}

dumpVars == <<dump, printIdx>>
bounds   == <<leds, events>>
mainVars == <<commandVars, dumpVars, hostLeds, bounds>>
ps2      == <<cmd, sender, hostClock, hostData, heard, ackByteOk, rest>>

Leds == [intf |-> 75, cmd |-> 76]       \* 'K', 'L'
IsLeds(p) == p.intf = Leds.intf /\ p.cmd = Leds.cmd

(* Only Caps Lock has a light of its own.                                   *)
usbLedsToPs2(usbLeds) == IF (usbLeds \div 2) % 2 = 1 THEN 4 ELSE 0

-----------------------------------------------------------------------------
(* keyboard_reset(): reset, BIOS commands, then what wakes the piano keys.  *)
(* The delays between them stand for nothing: the next command comes at any *)
(* time.                                                                    *)
Reset  == <<Command(\hFF, "none", TRUE)>>
Bios   == <<Command(\hF2, "byte", TRUE), Command(\hED, "byte", TRUE), Command(0, "byte", TRUE)>>
Resume == <<Command(\hE8, "none", TRUE), Command(\hE8, "none", TRUE),
            Command(\hE4, "byte", TRUE), Command(\h15, "byte", TRUE)>>

Init ==
    /\ CommandInit
    /\ pc = "ready" /\ todo = Reset \o Bios \o Resume /\ cmd = Head(Reset)
    /\ dump = << >> /\ printIdx = 0
    /\ hostLeds = 0 /\ leds = 0 /\ events = 0

Idle == pc = "ready" /\ todo = << >>

InstallCallback ==
    /\ Idle
    /\ D!InstallNext
    /\ UNCHANGED <<host, sender, hostClock, hostData, heard, keyboard, receiver, decoded,
                   dumpVars, hostLeds, bounds>>

-----------------------------------------------------------------------------
(* loop(): at most one packet, then dump_flush().  Packets other than LED   *)
(* reports are printed or answered, nothing more.                           *)
lufa_parse(p) ==
    \/ /\ IsLeds(p) /\ leds < MaxLeds
       /\ leds' = leds + 1
       /\ hostLeds' = p.data1
       /\ todo' = kbd_set_lights(usbLedsToPs2(p.data1))
       /\ UNCHANGED pc
    \/ /\ ~IsLeds(p)
       /\ pc' = "flush"
       /\ UNCHANGED <<todo, hostLeds, leds>>

Loop ==
    /\ Idle /\ installed = 7
    /\ \/ \E p \in Packets : lufa_parse(p)
       \/ pc' = "flush" /\ UNCHANGED <<todo, hostLeds, leds>>
    /\ UNCHANGED <<ps2, dumpVars, events>>

PrintByte ==
    /\ pc = "flush" /\ printIdx < Len(dump)
    /\ dump' = [dump EXCEPT ![printIdx + 1] = FALSE] /\ printIdx' = printIdx + 1
    /\ UNCHANGED pc

EndOfDump ==
    /\ pc = "flush" /\ printIdx = Len(dump)
    /\ pc' = IF dump = << >> THEN "ready" ELSE "reset"
    /\ UNCHANGED dumpVars

(* Mutant: the offset is not set back.                                      *)
ResetDumpNever ==
    /\ pc = "reset" /\ pc' = "ready"
    /\ printIdx' = 0
    /\ UNCHANGED dump

(* What arrived after the end of the loop goes unprinted.                   *)
ResetDump ==
    /\ pc = "reset" /\ pc' = "ready"
    /\ dump' = << >> /\ printIdx' = 0

dump_flush ==
    /\ PrintByte \/ EndOfDump \/ ResetDump
    /\ UNCHANGED <<todo, ps2, hostLeds, bounds>>

(* keyboard_onData(), called for every byte before it is decoded.           *)
dump_add ==
    IF decoded = << >> /\ decoded' # << >>
    THEN dump' = Append(dump, TRUE)
    ELSE UNCHANGED dump

-----------------------------------------------------------------------------
(* A key or a piano key, at any time.                                       *)
UseKeyboard ==
    /\ events < MaxEvents /\ events' = events + 1
    /\ \E e \in Events : out' = Append(out, e)
    /\ UNCHANGED <<host, sender, hostClock, hostData, heard, ackByteOk, decoder, receiver, decoded,
                   kbClock, kbData, kbMode, kbPos, kbIn, midEvent, kbOption, kbLights,
                   dumpVars, hostLeds, leds>>

Transmit(step) == step /\ dump_add /\ UNCHANGED <<printIdx, hostLeds, bounds>>

MainStep == Transmit(SendStep) \/ InstallCallback \/ Loop \/ dump_flush

Next == MainStep \/ Transmit(KeyboardStep) \/ UseKeyboard

Spec == Init /\ [][Next]_mainVars

(* The main program runs on; the keyboard keeps its clock going once it has *)
(* begun, answers, and sees a request to send.                              *)
FairSpec == Spec /\ WF_mainVars(MainStep \/ Transmit(KeyboardStep))

-----------------------------------------------------------------------------
(* Every command sequence ends: the start-up reaches loop() and the lights  *)
(* never keep the loop from its next packet.  The busy waits of             *)
(* kbd_send_command() and kbd_set_lights() have no timeout and depend on    *)
(* every edge of the exchange.                                              *)
CommandsFinish == ~Idle ~> Idle

(* When everything is quiet the lights are those of the host's last report. *)
LightsFollowHost ==
    Idle /\ KeyboardQuiet => kbLights = Bits(usbLedsToPs2(hostLeds))

(* dump_flush() prints no byte twice, although the interrupt adds bytes     *)
(* while it prints and before it resets the offset.                         *)
PrintsEachByteOnce ==
    pc = "flush" /\ printIdx < Len(dump) => dump[printIdx + 1]

=============================================================================
