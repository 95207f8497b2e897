---------------------------- MODULE PS2Receiver ----------------------------
(***************************************************************************)
(* The keyboard clocks bytes into the receive half of ps2interrupt().  The *)
(* callbacks print from inside the interrupt, so edges may come while it   *)
(* still runs: they are missed, or seen late with the data line of another *)
(* bit.  What does a damaged frame do to the frames after it?              *)
(***************************************************************************)
EXTENDS PS2Bits, Sequences

CONSTANTS
    Bytes,      \* the bytes the keyboard may send
    Lossy       \* whether edges may be missed or seen late

ASSUME ReceiverAssumption ==
    /\ Bytes \subseteq AllBytes
    /\ Lossy \in BOOLEAN

VARIABLES
    byte,       \* the byte of the frame on the wire
    clocked,    \* edges of that frame so far
    startPos,   \* the bit position the handler was at when the frame began
    damaged,    \* an edge of the frame was missed or seen late
    decoded     \* the bytes the handler completed during the frame

receiver == <<bitPos, buffer>>
receiverVars == <<bitPos, buffer, byte, clocked, startPos, damaged, decoded>>

Init ==
    /\ bitPos = 0 /\ buffer = {}
    /\ byte = {} /\ clocked = FrameLen /\ startPos = 0 /\ damaged = TRUE
    /\ decoded = << >>

BeginFrame ==
    /\ clocked = FrameLen
    /\ byte' \in Bytes
    /\ clocked' = 0 /\ startPos' = bitPos /\ damaged' = FALSE /\ decoded' = << >>
    /\ UNCHANGED receiver

(* The handler runs once and sees value.                                    *)
Handle(value) ==
    /\ ReceiveEdge(value)
    /\ decoded' = IF Completes THEN Append(decoded, buffer) ELSE decoded
    /\ clocked' = clocked + 1
    /\ UNCHANGED <<byte, startPos>>

Edge ==
    /\ clocked < FrameLen
    /\ Handle(FrameBit(byte, clocked))
    /\ UNCHANGED damaged

LateEdge ==
    /\ Lossy /\ clocked < FrameLen
    /\ \E value \in {0, 1} : Handle(value)
    /\ damaged' = TRUE

MissedEdge ==
    /\ Lossy /\ clocked < FrameLen
    /\ clocked' = clocked + 1
    /\ damaged' = TRUE
    /\ UNCHANGED <<receiver, byte, startPos, decoded>>

Next == BeginFrame \/ Edge \/ LateEdge \/ MissedEdge

Spec == Init /\ [][Next]_receiverVars

-----------------------------------------------------------------------------
TypeOK ==
    /\ bitPos \in 0..(FrameLen - 1)
    /\ buffer \in AllBytes
    /\ byte \in AllBytes
    /\ clocked \in 0..FrameLen
    /\ startPos \in 0..(FrameLen - 1)
    /\ damaged \in BOOLEAN
    /\ decoded \in Seq(AllBytes)

Undamaged == clocked = FrameLen /\ ~damaged

(* A frame that reaches a handler at position 0 with all its edges yields   *)
(* exactly its byte and leaves the handler at position 0: the byte-level    *)
(* decoder may assume whole bytes.                                          *)
AlignedFrame == Undamaged /\ startPos = 0 => decoded = <<byte>> /\ bitPos = 0

(* However often and wherever edges were lost before: a frame that is not   *)
(* damaged itself never leaves the handler further out of step than it      *)
(* found it, although nothing but the discarded high start bit realigns it. *)
MisalignmentNeverGrows == Undamaged => bitPos <= startPos

(* It heals the handler when its last bits, as many as the handler was      *)
(* ahead, are all ones: always when it was one bit ahead (the stop bit), and*)
(* up to six bits with the key-release prefix F0.                           *)
HighTail == \A i \in 0..(FrameLen - 1) : i >= FrameLen - startPos => FrameBit(byte, i) = 1
HighTailRealigns == Undamaged /\ HighTail => bitPos = 0

(* Every frame runs onData() at most once, also a damaged one: bits of one  *)
(* byte never become two.                                                   *)
OneBytePerFrame == Len(decoded) <= 1

=============================================================================
