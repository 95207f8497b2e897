------------------------------ MODULE LufaLink ------------------------------
(***************************************************************************)
(* One direction of the serial protocol between the sketch and the USB     *)
(* controller, byte by byte.  lufa_send() sends a magic byte and four      *)
(* payload bytes; lufa_receive() is the same state machine on both sides.  *)
(*                                                                         *)
(* lufa_send() is called from the main program and from an interrupt (the  *)
(* PS/2 interrupt of the sketch, the USB control-endpoint interrupt of the *)
(* controller), and it gives its bytes to the serial port one at a time:   *)
(* an interrupt between two of them puts a whole packet there.  The sketch *)
(* also prints its debug text to the same port.  A byte is lost when it    *)
(* overruns the receiver's UART or the sketch's receive buffer.            *)
(*                                                                         *)
(* cur, clean, synced and got only record the run.                         *)
(***************************************************************************)
EXTENDS Integers, Sequences

CONSTANTS
    Magic,      \* LUFA_MAGIC
    Packets,    \* the packets sent: functions from 1..4 to bytes
    Text,       \* the bytes of debug text
    Lossy,      \* bytes may be lost
    Nested      \* interrupts may send packets

ASSUME LinkAssumption ==
    /\ Magic \in 0..255
    /\ Packets \subseteq [1..4 -> 0..255]
    /\ Text \subseteq (0..255) \ {Magic}
    /\ Lossy \in BOOLEAN /\ Nested \in BOOLEAN

VARIABLES
    main, mainSent,     \* the main program's packet and how many bytes of it are sent
    isr, isrSent,       \* the same for the interrupt's packet
    pos,                \* the receiver's lufa_pos
    fields,             \* its lufa_intf, lufa_command, lufa_data1, lufa_data2
    parsed              \* the packet lufa_parse() got in this step, or NoPacket
VARIABLES
    cur,        \* who began the last packet, "main" or "isr": the current packet
    clean,      \* no byte of the current packet was lost or followed a foreign one
    synced,     \* the receiver was waiting for a packet when this one began
    got         \* the packets parsed since the current packet began

sender   == <<main, mainSent, isr, isrSent>>
receiver == <<pos, fields, parsed>>
ghosts   == <<cur, clean, synced, got>>
vars     == <<sender, receiver, ghosts>>

Size == 5
NoPacket == << >>
Byte(p, i) == IF i = 0 THEN Magic ELSE p[i]

-----------------------------------------------------------------------------
(* The receiver waits for a packet, collects its first three payload bytes  *)
(* and, at the last one, parses the packet.                                 *)
Await(begins) ==
    /\ pos = 0
    /\ pos' = IF begins THEN 1 ELSE 0
    /\ parsed' = NoPacket
    /\ UNCHANGED <<fields, got>>
Collect(b) ==
    /\ pos \in 1..3
    /\ fields' = [fields EXCEPT ![pos] = b]
    /\ pos' = pos + 1
    /\ parsed' = NoPacket
    /\ UNCHANGED got
Finish(b, packet, next) ==
    /\ pos = 4
    /\ fields' = [fields EXCEPT ![4] = b]
    /\ parsed' = packet
    /\ got' = Append(got, packet)
    /\ pos' = next
Stored(b) == [fields EXCEPT ![4] = b]

(* Mutants: the position is not reset at the end of a packet, or runs on;   *)
(* any byte begins a packet; the packet is parsed before its last byte is   *)
(* stored.                                                                  *)
ReceiveWithoutReset(b) == Await(b = Magic) \/ Collect(b) \/ Finish(b, Stored(b), 4)
ReceiveRunsOn(b)       == Await(b = Magic) \/ Collect(b) \/ Finish(b, Stored(b), 5)
ReceiveAnyStart(b)     == Await(TRUE) \/ Collect(b) \/ Finish(b, Stored(b), 0)
ReceiveParsesEarly(b)  == Await(b = Magic) \/ Collect(b) \/ Finish(b, fields, 0)

lufa_receive(b) == Await(b = Magic) \/ Collect(b) \/ Finish(b, Stored(b), 0)

(* A byte from who reaches the receiver or is lost.                         *)
Transfer(b, who) ==
    \/ lufa_receive(b) /\ clean' = (clean /\ cur = who)
    \/ /\ Lossy
       /\ clean' = FALSE
       /\ parsed' = NoPacket
       /\ UNCHANGED <<pos, fields, got>>

-----------------------------------------------------------------------------
MainIdle == mainSent = Size
IsrIdle  == isrSent = Size

Begin(who) ==
    /\ cur' = who
    /\ clean' = TRUE
    /\ synced' = (pos = 0)
    /\ got' = << >>
    /\ parsed' = NoPacket
    /\ UNCHANGED <<pos, fields>>

(* lufa_send() in the main program.                                         *)
SendMain == \E p \in Packets :
    /\ MainIdle /\ IsrIdle
    /\ main' = p /\ mainSent' = 0
    /\ Begin("main")
    /\ UNCHANGED <<isr, isrSent>>

(* lufa_send() in an interrupt, before any byte of the main program.        *)
SendIsr == \E p \in Packets :
    /\ Nested
    /\ IsrIdle
    /\ isr' = p /\ isrSent' = 0
    /\ Begin("isr")
    /\ UNCHANGED <<main, mainSent>>

(* The next byte of the interrupt's packet.  When it was the last one, the  *)
(* main program's packet, if there is one, goes on.                         *)
IsrByte ==
    /\ ~IsrIdle
    /\ Transfer(Byte(isr, isrSent), "isr")
    /\ isrSent' = isrSent + 1
    /\ UNCHANGED <<main, mainSent, isr, cur, synced>>

MainByte ==
    /\ IsrIdle /\ ~MainIdle
    /\ Transfer(Byte(main, mainSent), "main")
    /\ mainSent' = mainSent + 1
    /\ UNCHANGED <<main, isr, isrSent, cur, synced>>

(* A byte of debug text: between packets, or printed by the interrupt       *)
(* before its own packet, wherever that is.                                 *)
TextByte == \E b \in Text :
    /\ IsrIdle /\ (MainIdle \/ Nested)
    /\ lufa_receive(b)
    /\ clean' = (clean /\ MainIdle)
    /\ UNCHANGED <<sender, cur, synced>>

Init ==
    /\ main = NoPacket /\ mainSent = Size
    /\ isr = NoPacket /\ isrSent = Size
    /\ pos = 0 /\ fields = [i \in 1..4 |-> 0] /\ parsed = NoPacket
    /\ cur = "main" /\ clean = FALSE /\ synced = FALSE /\ got = << >>

Next == SendMain \/ SendIsr \/ IsrByte \/ MainByte \/ TextByte

Spec == Init /\ [][Next]_vars

-----------------------------------------------------------------------------
Current == IF cur = "isr" THEN isr ELSE main
Sent    == IF cur = "isr" THEN isrSent ELSE mainSent

TypeOK ==
    /\ main \in Packets \cup {NoPacket} /\ isr \in Packets \cup {NoPacket}
    /\ mainSent \in 0..Size /\ isrSent \in 0..Size
    /\ ~MainIdle => main \in Packets
    /\ ~IsrIdle => (isr \in Packets /\ cur = "isr")
    /\ pos \in 0..4
    /\ fields \in [1..4 -> 0..255]
    /\ parsed \in [1..4 -> 0..255] \cup {NoPacket}
    /\ cur \in {"main", "isr"} /\ clean \in BOOLEAN /\ synced \in BOOLEAN
    /\ got \in Seq([1..4 -> 0..255])

(* Alignment heals: if the magic byte never occurs in a payload, then once  *)
(* all five bytes of a packet have arrived in a row, the receiver waits for *)
(* the next packet, whatever loss or nesting came before.                   *)
MagicFree == \A p \in Packets : \A i \in 1..4 : p[i] # Magic
Realigns == Sent = Size /\ clean => pos = 0

(* An aligned receiver gets a packet that arrives in a row exactly, once,   *)
(* and nothing else.  With Realigns: after a disturbance at most one whole  *)
(* packet is spoilt.                                                        *)
AlignedIsExact == Sent = Size /\ clean /\ synced => got = <<Current>>

(* A spoilt packet yields at most one wrong packet.                         *)
OneStrayPacket == clean => Len(got) <= 1

(* Without losses and nesting the link is a channel of whole packets.       *)
Channel == INSTANCE PacketChannel WITH
    inFlight <- IF ~MainIdle THEN main ELSE NoPacket,
    handed   <- parsed
ImplementsChannel == Channel!Spec

=============================================================================
