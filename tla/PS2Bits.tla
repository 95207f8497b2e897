------------------------------ MODULE PS2Bits ------------------------------
(***************************************************************************)
(* The bits of PS/2: the frame of a byte on the wire and the half of       *)
(* ps2interrupt() that collects one bit per falling edge of the clock.     *)
(*                                                                         *)
(* A byte is the set of the positions of its one bits, so that the         *)
(* handler's |= is a union and a shift past bit 7 drops out.               *)
(***************************************************************************)
EXTENDS Integers, FiniteSets

VARIABLES bitPos, buffer    \* ps2Keyboard_BitPos, ps2Keyboard_CurrentBuffer

AllBytes == SUBSET (0..7)
Bits(n) == {i \in 0..7 : (n \div 2^i) % 2 = 1}
Level(one) == IF one THEN 1 ELSE 0

(* Eleven edges: start bit, eight data bits, parity, stop bit.              *)
FrameLen == 11
OddParity(byte) == (1 + Cardinality(byte)) % 2
FrameBit(byte, i) ==
    CASE i = 0      -> 0
      [] i \in 1..8 -> Level(i - 1 \in byte)
      [] i = 9      -> OddParity(byte)
      [] OTHER      -> 1

-----------------------------------------------------------------------------
(* The bits of a byte come lowest first; start, parity and stop bit set     *)
(* none.                                                                    *)
Accumulate(value) ==
    IF value = 1 /\ bitPos \in 1..8 THEN buffer \cup {bitPos - 1} ELSE buffer

(* One falling edge with value on the data line.  A high start bit is       *)
(* discarded; the eleventh bit completes the byte that is in the buffer by  *)
(* then.  Parity and stop bit are counted but not looked at, and there is   *)
(* no timeout.                                                              *)
DiscardStart(value) ==
    /\ bitPos = 0 /\ value = 1
    /\ UNCHANGED <<bitPos, buffer>>

(* Mutants: the position runs on; it stays at the last bit; a byte has ten  *)
(* bits; the buffer is not cleared.                                         *)
ShiftInRunsOn(value) ==
    /\ ~(bitPos = 0 /\ value = 1)
    /\ bitPos' = bitPos + 1 /\ buffer' = Accumulate(value)
ShiftInStays(value) ==
    /\ ~(bitPos = 0 /\ value = 1)
    /\ bitPos' = IF bitPos = FrameLen - 1 THEN bitPos ELSE bitPos + 1
    /\ buffer' = Accumulate(value)
ShiftInTenBits(value) ==
    /\ ~(bitPos = 0 /\ value = 1)
    /\ bitPos' = (bitPos + 1) % (FrameLen - 1) /\ buffer' = Accumulate(value)
ShiftInKeepsBuffer(value) ==
    /\ ~(bitPos = 0 /\ value = 1)
    /\ bitPos' = (bitPos + 1) % FrameLen /\ buffer' = Accumulate(value)

ShiftIn(value) ==
    /\ ~(bitPos = 0 /\ value = 1)
    /\ bitPos' = (bitPos + 1) % FrameLen
    /\ buffer' = IF bitPos = FrameLen - 1 THEN {} ELSE Accumulate(value)

(* Mutant: a high start bit is not discarded.                               *)
KeepHighStart(value) ==
    /\ bitPos' = (bitPos + 1) % FrameLen
    /\ buffer' = IF bitPos = FrameLen - 1 THEN {} ELSE Accumulate(value)

ReceiveEdge(value) == DiscardStart(value) \/ ShiftIn(value)

(* The next edge completes a byte.                                          *)
Completes == bitPos = FrameLen - 1

=============================================================================
