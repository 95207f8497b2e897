---------------------------- MODULE PacketChannel ----------------------------
(***************************************************************************)
(* What the serial protocol between the two controllers promises: a packet *)
(* that one side sends is handed to the other side's parser exactly once,  *)
(* unchanged, before the next one is sent.                                 *)
(***************************************************************************)

CONSTANTS
    Packets,
    NoPacket    \* not a packet

VARIABLES
    inFlight,   \* the packet being transferred, or NoPacket
    handed      \* the packet handed to the parser in this step, or NoPacket

vars == <<inFlight, handed>>

Init == inFlight = NoPacket /\ handed = NoPacket

Send == \E p \in Packets :
    /\ inFlight = NoPacket
    /\ inFlight' = p
    /\ handed' = NoPacket

Deliver ==
    /\ inFlight # NoPacket
    /\ handed' = inFlight
    /\ inFlight' = NoPacket

(* Bytes that are not part of a packet pass without effect.                 *)
Idle == handed' = NoPacket /\ UNCHANGED inFlight

Next == Send \/ Deliver \/ Idle

Spec == Init /\ [][Next]_vars
=============================================================================
