-------------------------- MODULE SketchMainProofs --------------------------
(***************************************************************************)
(* Proofs about the main program of the sketch, the interrupt and the      *)
(* keyboard, bit by bit: for all packets of the USB controller, all events *)
(* of the keyboard and any number of both.                                 *)
(*                                                                         *)
(* The two ends share one line in turns.  Either the host leaves it alone  *)
(* and the keyboard sends or rests, or the host is about to take it, or    *)
(* holds it, or the keyboard clocks the command in.  In each of the four   *)
(* the counters of the two ends are tied together.                         *)
(***************************************************************************)
EXTENDS SketchMain, SequenceTheorems, FiniteSetTheorems, TLAPS

OneEvent == Seq(0..255) \ {<< >>}
Sent     == Bits(cmd.val)           \* the command on its way
GoodFrame == <<[val |-> Sent, good |-> TRUE]>>

-----------------------------------------------------------------------------
(* The printing of the dump.                                                *)

DumpOK ==
    /\ dump \in Seq(BOOLEAN) /\ printIdx \in 0..Len(dump)
    /\ pc # "reset" => \A i \in printIdx + 1..Len(dump) : dump[i]
    /\ pc \notin {"flush", "reset"} => printIdx = 0

-----------------------------------------------------------------------------
(* The ranges of all variables, commands and keyboard in each other's way   *)
(* or not.                                                                  *)

DecoderOK == D!TypeOK /\ D!MessageInFlight /\ D!NoFlowError

RangesOK ==
    /\ TypeOK /\ DecoderOK
    /\ Preparing => kbMode # "receive" /\ hostData = 1
    /\ (cmdInProgress /\ pc # "load") \/ pc = "pull" => cmdCount < 12

-----------------------------------------------------------------------------
(* The dump.                                                                *)

LEMMA DumpAdd ==
  ASSUME DumpOK, pc # "reset", dump_add, UNCHANGED printIdx
  PROVE  /\ dump' \in Seq(BOOLEAN) /\ printIdx' \in 0..Len(dump')
         /\ \A i \in printIdx' + 1..Len(dump') : dump'[i]
<1>1. dump \in Seq(BOOLEAN) /\ printIdx \in 0..Len(dump) /\ Len(dump) \in Nat
  BY DEF DumpOK
<1>2. \A i \in printIdx + 1..Len(dump) : dump[i]
  BY DEF DumpOK
<1>3. CASE dump' = Append(dump, TRUE)
  <2>1. /\ dump' \in Seq(BOOLEAN) /\ Len(dump') = Len(dump) + 1 /\ dump'[Len(dump) + 1]
        /\ \A i \in 1..Len(dump) : dump'[i] = dump[i]
    BY <1>1, <1>3
  <2> QED
    BY <1>1, <1>2, <2>1
<1>4. CASE dump' = dump
  BY <1>1, <1>2, <1>4
<1> QED
  BY <1>3, <1>4 DEF dump_add

LEMMA DumpStep == DumpOK /\ [Next]_mainVars => DumpOK'
<1> SUFFICES ASSUME DumpOK, [Next]_mainVars PROVE DumpOK'
  OBVIOUS
<1>1. CASE Transmit(SendStep)
  <2>1. /\ dump_add /\ UNCHANGED printIdx /\ pc \notin {"flush", "reset"}
        /\ pc' # "reset" /\ (pc' # "flush" => pc' \notin {"flush", "reset"})
    BY <1>1 DEF Transmit, SendStep, BeginCommand, RaiseFlag, LoadCommand, PullClock, ReleaseClock,
                SeeAckBit, SeeAckByte, AfterWait
  <2>2. printIdx' = 0
    BY <2>1 DEF DumpOK
  <2> QED
    BY <2>1, <2>2, DumpAdd DEF DumpOK
<1>2. CASE Transmit(KeyboardStep)
  <2>1. dump_add /\ UNCHANGED <<printIdx, pc>>
    BY <1>2 DEF Transmit, KeyboardStep, host
  <2>2. CASE pc # "reset"
    BY <2>1, <2>2, DumpAdd DEF DumpOK
  <2>3. CASE pc = "reset"
    <3>1. dump \in Seq(BOOLEAN) /\ printIdx \in 0..Len(dump)
      BY DEF DumpOK
    <3>2. dump' \in Seq(BOOLEAN) /\ Len(dump') \in {Len(dump), Len(dump) + 1}
      <4>1. CASE dump' = Append(dump, TRUE)
        BY <3>1, <4>1
      <4>2. CASE dump' = dump
        BY <3>1, <4>2
      <4> QED
        BY <2>1, <4>1, <4>2 DEF dump_add
    <3> QED
      BY <2>1, <2>3, <3>1, <3>2 DEF DumpOK
  <2> QED
    BY <2>2, <2>3
<1>3. CASE Loop
  <2>1. pc = "ready" /\ UNCHANGED <<dump, printIdx>> /\ pc' \in {"ready", "flush"}
    BY <1>3 DEF Loop, Idle, lufa_parse, dumpVars
  <2> QED
    BY <2>1 DEF DumpOK
<1>4. CASE dump_flush
  <2>1. dump \in Seq(BOOLEAN) /\ printIdx \in 0..Len(dump) /\ Len(dump) \in Nat
    BY DEF DumpOK
  <2>2. CASE PrintByte
    <3>1. /\ pc = "flush" /\ pc' = "flush" /\ printIdx < Len(dump) /\ printIdx' = printIdx + 1
          /\ dump' = [dump EXCEPT ![printIdx + 1] = FALSE]
      BY <2>2 DEF PrintByte
    <3>2. /\ dump' \in Seq(BOOLEAN) /\ Len(dump') = Len(dump)
          /\ \A i \in 1..Len(dump) : i # printIdx + 1 => dump'[i] = dump[i]
      BY <2>1, <3>1
    <3>3. \A i \in printIdx + 1..Len(dump) : dump[i]
      BY <3>1 DEF DumpOK
    <3>4. \A i \in printIdx' + 1..Len(dump') : dump'[i]
      BY <2>1, <3>1, <3>2, <3>3
    <3> QED
      BY <2>1, <3>1, <3>2, <3>4 DEF DumpOK
  <2>3. CASE EndOfDump
    <3>1. UNCHANGED <<dump, printIdx>> /\ pc = "flush" /\ printIdx = Len(dump)
          /\ pc' = IF dump = << >> THEN "ready" ELSE "reset"
      BY <2>3 DEF EndOfDump, dumpVars
    <3> QED
      BY <2>1, <3>1 DEF DumpOK
  <2>4. CASE ResetDump
    <3>1. dump' = << >> /\ printIdx' = 0 /\ pc' = "ready"
      BY <2>4 DEF ResetDump
    <3>2. dump' \in Seq(BOOLEAN) /\ Len(dump') = 0
      BY <3>1
    <3> QED
      BY <3>1, <3>2 DEF DumpOK
  <2> QED
    BY <1>4, <2>2, <2>3, <2>4 DEF dump_flush
<1>5. CASE InstallCallback \/ UseKeyboard \/ UNCHANGED mainVars
  <2>1. UNCHANGED <<pc, dump, printIdx>>
    BY <1>5 DEF InstallCallback, UseKeyboard, mainVars, commandVars, host, dumpVars
  <2> QED
    BY <2>1 DEF DumpOK
<1> QED
  BY <1>1, <1>2, <1>3, <1>4, <1>5 DEF Next, MainStep

(* dump_flush() prints no byte twice, whatever the interrupt adds while it  *)
(* prints or before it resets the offset.                                   *)
THEOREM NothingPrintedTwice == Spec => []PrintsEachByteOnce
<1>1. Init => DumpOK
  BY DEF Init, DumpOK
<1>2. DumpOK => PrintsEachByteOnce
  <2> SUFFICES ASSUME DumpOK, pc = "flush", printIdx < Len(dump) PROVE dump[printIdx + 1]
    BY DEF PrintsEachByteOnce
  <2>1. printIdx \in 0..Len(dump) /\ Len(dump) \in Nat /\ \A i \in printIdx + 1..Len(dump) : dump[i]
    BY DEF DumpOK
  <2> QED
    BY <2>1
<1> QED
  BY <1>1, <1>2, DumpStep, PTL DEF Spec

-----------------------------------------------------------------------------
(* Bytes and frames.                                                        *)

LEMMA OneOrZero ==
  ASSUME NEW B, B \subseteq 0..7
  PROVE  OddParity(B) \in {0, 1} /\ \A i : FrameBit(B, i) \in {0, 1}
<1>1. Cardinality(B) \in Nat
  <2>1. IsFiniteSet(0..7)
    <3>1. 0 \in Int /\ 7 \in Int
      OBVIOUS
    <3> QED
      BY ONLY <3>1, FS_Interval, Zenon
  <2>2. IsFiniteSet(B)
    BY <2>1, FS_Subset
  <2> QED
    BY <2>2, FS_CardinalityType
<1> QED
  BY <1>1 DEF OddParity, FrameBit, Level

LEMMA BitsAreBytes == \A n : Bits(n) \in AllBytes
  BY DEF Bits, AllBytes

(* Every set of bits is a byte.                                             *)
LEMMA EveryByte ==
  ASSUME NEW B \in AllBytes
  PROVE  \E n \in 0..255 : Bits(n) = B
<1> DEFINE b(i) == IF i \in B THEN 1 ELSE 0
           n == b(0) + 2 * b(1) + 4 * b(2) + 8 * b(3) + 16 * b(4) + 32 * b(5) + 64 * b(6) + 128 * b(7)
<1>1. \A i \in 0..7 : b(i) \in {0, 1} /\ (b(i) = 1 <=> i \in B)
  OBVIOUS
<1> HIDE DEF b
<1>2. n \in 0..255
  BY <1>1
<1>3. /\ (n \div 2^0) % 2 = b(0) /\ (n \div 2^1) % 2 = b(1) /\ (n \div 2^2) % 2 = b(2)
      /\ (n \div 2^3) % 2 = b(3) /\ (n \div 2^4) % 2 = b(4) /\ (n \div 2^5) % 2 = b(5)
      /\ (n \div 2^6) % 2 = b(6) /\ (n \div 2^7) % 2 = b(7)
  BY <1>1
<1> HIDE DEF n
<1>4. \A i \in 0..7 : (n \div 2^i) % 2 = b(i)
  <2>1. \A i \in 0..7 : i = 0 \/ i = 1 \/ i = 2 \/ i = 3 \/ i = 4 \/ i = 5 \/ i = 6 \/ i = 7
    OBVIOUS
  <2> QED
    BY <1>3, <2>1, Zenon
<1>5. Bits(n) = B
  BY <1>1, <1>4 DEF Bits, AllBytes
<1> QED
  BY <1>2, <1>5

LEMMA DecodedByte ==
  ASSUME NEW B \in AllBytes
  PROVE  LET n == CHOOSE n \in 0..255 : Bits(n) = B
         IN  n \in 0..255 /\ Bits(n) = B
  BY EveryByte

-----------------------------------------------------------------------------
(* The invariant of the decoder by itself is preserved by every byte.       *)

P == INSTANCE PS2DecoderProofs WITH Wire <- 0..255

(* D and P are two instances of one module: their definitions are equal.    *)
LEMMA SameDecoder ==
  ASSUME NEW b
  PROVE  /\ D!Receive(b) => P!Receive(b)
         /\ D!Init => P!Init
         /\ D!InstallNext => P!InstallNext
         /\ D!TypeOK <=> P!TypeOK
         /\ D!MessageInFlight <=> P!MessageInFlight
         /\ D!NoFlowError <=> P!NoFlowError
         /\ D!TypeOK' <=> P!TypeOK'
         /\ D!MessageInFlight' <=> P!MessageInFlight'
         /\ D!NoFlowError' <=> P!NoFlowError'
<1> USE DEF D!BreakPrefix, D!ExtendPrefix, D!Ack, D!SelfTestOk, D!SelfTestBad, D!Resend,
        D!ShiftCodes, D!AltCode, D!CtrlCode, D!CapsCode, D!ButtonFn, D!NoteFn, D!Callback, D!Error,
        P!BreakPrefix, P!ExtendPrefix, P!Ack, P!SelfTestOk, P!SelfTestBad, P!Resend,
        P!ShiftCodes, P!AltCode, P!CtrlCode, P!CapsCode, P!ButtonFn, P!NoteFn, P!Callback, P!Error
<1>1. D!Slot = P!Slot /\ D!NoCall = P!NoCall /\ D!WheelCodes = P!WheelCodes /\ D!Extra = P!Extra
  BY DEF D!Slot, P!Slot, D!NoCall, P!NoCall, D!WheelCodes, P!WheelCodes, D!Extra, P!Extra, D!Bit, P!Bit
<1>2. \A c : D!Deliver(c) => P!Deliver(c)
  BY <1>1 DEF D!Deliver, P!Deliver
<1>3. (D!Quiet <=> P!Quiet) /\ (D!AdvanceMessage <=> P!AdvanceMessage)
  BY <1>1 DEF D!Quiet, P!Quiet, D!AdvanceMessage, P!AdvanceMessage
<1>4. D!ButtonByte(b) => P!ButtonByte(b)
  BY <1>1, <1>2, <1>3 DEF D!ButtonByte, P!ButtonByte, D!flags, P!flags, D!WheelPitch, P!WheelPitch
<1>5. D!NoteByte(b) => P!NoteByte(b)
  BY <1>1, <1>2, <1>3, Zenon DEF D!NoteByte, P!NoteByte, D!flags, P!flags, D!ErrorFlow, P!ErrorFlow, D!ErrorFunction, P!ErrorFunction
<1>6. D!ControlByte(b) => P!ControlByte(b)
  BY <1>1, <1>2, <1>3 DEF D!ControlByte, P!ControlByte, D!flags, P!flags, D!prod, P!prod, D!ErrorSelfTest, P!ErrorSelfTest
<1>7. D!ModifierByte(b) => P!ModifierByte(b)
  BY <1>1, <1>2, <1>3, Zenon DEF D!ModifierByte, P!ModifierByte, D!prod, P!prod
<1>8. D!StartMessage(b) => P!StartMessage(b)
  BY <1>1, <1>2, <1>3, Zenon DEF D!StartMessage, P!StartMessage, D!flags, P!flags
<1>9. D!KeyByte(b) => P!KeyByte(b)
  BY <1>1, <1>2, <1>3, Zenon DEF D!KeyByte, P!KeyByte, D!flags, P!flags, D!prod, P!prod, D!KeyCodes, P!KeyCodes
<1>10. D!Calls = P!Calls
  BY <1>1 DEF D!Calls, P!Calls, D!CallbackKinds, P!CallbackKinds
<1>11. D!Receive(b) => P!Receive(b)
  BY <1>4, <1>5, <1>6, <1>7, <1>8, <1>9, Zenon DEF D!Receive, P!Receive
<1>12. (D!Init => P!Init) /\ (D!InstallNext => P!InstallNext)
  BY <1>1, <1>3, Zenon DEF D!Init, P!Init, D!InstallNext, P!InstallNext, D!flags, P!flags, D!prod, P!prod
<1>13. (D!TypeOK <=> P!TypeOK) /\ (D!TypeOK' <=> P!TypeOK')
  BY <1>10, Zenon DEF D!TypeOK, P!TypeOK
<1>14. /\ D!MessageInFlight <=> P!MessageInFlight
       /\ D!MessageInFlight' <=> P!MessageInFlight'
  BY Zenon DEF D!MessageInFlight, P!MessageInFlight
<1>15. (D!NoFlowError <=> P!NoFlowError) /\ (D!NoFlowError' <=> P!NoFlowError')
  BY Zenon DEF D!NoFlowError, P!NoFlowError, D!ErrorFlow, P!ErrorFlow, D!ErrorFunction, P!ErrorFunction
<1> QED
  BY <1>11, <1>12, <1>13, <1>14, <1>15

LEMMA DecoderKept ==
  ASSUME DecoderOK, UNCHANGED decoder, ackByteOk' \in BOOLEAN
  PROVE  DecoderOK'
<1>1. /\ UNCHANGED <<shift, ctrl, alt, capsLock>> /\ UNCHANGED <<extend, release, prodFn, prodPos, prodKey>>
      /\ UNCHANGED <<installed, call>>
  BY DEF decoder
<1>2. D!TypeOK'
  <2>1. (D!ButtonFn' = D!ButtonFn) /\ (D!NoteFn' = D!NoteFn) /\ (D!Calls' = D!Calls)
    BY Zenon DEF D!ButtonFn, D!NoteFn, D!Calls, D!CallbackKinds, D!Slot
  <2> QED
    BY <1>1, <2>1, Zenon DEF DecoderOK, D!TypeOK
<1>3. D!MessageInFlight' /\ D!NoFlowError'
  BY <1>1, Zenon DEF DecoderOK, D!MessageInFlight, D!NoFlowError, D!ButtonFn, D!Error, D!ErrorFlow,
                     D!ErrorFunction, D!Callback
<1> QED
  BY <1>2, <1>3 DEF DecoderOK

LEMMA DecoderFed ==
  ASSUME DecoderOK, NEW b \in 0..255, D!Receive(b) \/ D!InstallNext
  PROVE  DecoderOK'
<1>1. P!IInv
  BY SameDecoder DEF DecoderOK, P!IInv
<1>2. P!Next
  BY SameDecoder DEF P!Next
<1>3. P!WireAssumption
  BY DEF P!WireAssumption
<1>4. P!IInv'
  BY <1>1, <1>2, <1>3, P!StepIInv
<1> QED
  BY <1>4, SameDecoder DEF DecoderOK, P!IInv

-----------------------------------------------------------------------------
(* The ranges.                                                              *)

LEMMA ShiftOutRanges ==
  ASSUME TypeOK, cmdCount < 12, NEW value \in {0, 1}, ShiftOut(value)
  PROVE  /\ cmdInProgress' \in BOOLEAN /\ cmdCount' \in 0..12 /\ cmdValue' \in AllBytes
         /\ cmdParity' \in {0, 1} /\ cmdAck' \in {0, 1} /\ hostData' \in {0, 1}
         /\ cmdInProgress' => cmdCount' < 12
<1>1. /\ cmdCount \in 0..12 /\ cmdValue \in AllBytes /\ cmdParity \in {0, 1}
      /\ cmdAck \in {0, 1} /\ hostData \in {0, 1}
  BY DEF TypeOK
<1>2. cmdCount' = cmdCount + 1 /\ cmdCount' \in 0..12
  BY <1>1 DEF ShiftOut
<1>3. cmdInProgress' \in BOOLEAN /\ (cmdInProgress' => cmdCount' < 12)
  <2>1. cmdInProgress' = (cmdCount' # 12)
    BY DEF ShiftOut
  <2>2. cmdInProgress' \in BOOLEAN /\ (cmdInProgress' => cmdCount' # 12)
    BY <2>1, Zenon
  <2>3. cmdCount' # 12 => cmdCount' < 12
    BY <1>2
  <2> QED
    BY <2>2, <2>3, Zenon
<1>4. cmdValue' \in AllBytes
  BY <1>1 DEF ShiftOut, AllBytes
<1>5. cmdParity' \in {0, 1} /\ cmdAck' \in {0, 1}
  BY <1>1 DEF ShiftOut
<1>6. hostData' \in {0, 1}
  BY <1>1, <1>2 DEF ShiftOut, Level
<1> QED
  BY <1>2, <1>3, <1>4, <1>5, <1>6

LEMMA CollectRanges ==
  ASSUME TypeOK, DecoderOK, NEW value \in {0, 1}, Collect(value)
  PROVE  /\ cmdCount' \in {0, cmdCount} /\ UNCHANGED <<cmdInProgress, cmdValue, cmdParity, cmdAck, hostData>>
         /\ bitPos' \in 0..FrameLen - 1 /\ buffer' \in AllBytes /\ DecoderOK'
<1>1. bitPos \in 0..FrameLen - 1 /\ buffer \in AllBytes /\ ackByteOk \in BOOLEAN
  BY DEF TypeOK, D!TypeOK
<1>2. bitPos' \in 0..FrameLen - 1
  BY <1>1 DEF Collect, ReceiveEdge, DiscardStart, ShiftIn, FrameLen
<1>3. Accumulate(value) \in AllBytes
  BY <1>1 DEF Accumulate, AllBytes, FrameLen
<1>4. buffer' \in AllBytes
  BY <1>1, <1>3 DEF Collect, ReceiveEdge, DiscardStart, ShiftIn, AllBytes
<1>5. DecoderOK'
  <2>1. CASE Completes
    <3> DEFINE b == CHOOSE n \in 0..255 : Bits(n) = buffer
    <3>1. b \in 0..255
      BY <1>1, DecodedByte
    <3>2. D!Receive(b)
      BY <2>1 DEF Collect
    <3> HIDE DEF b
    <3> QED
      BY <3>1, <3>2, DecoderFed
  <2>2. CASE ~Completes
    BY <1>1, <2>2, DecoderKept DEF Collect
  <2> QED
    BY <2>1, <2>2
<1>6. cmdCount' \in {0, cmdCount} /\ UNCHANGED <<cmdInProgress, cmdValue, cmdParity, cmdAck, hostData>>
  BY DEF Collect
<1> QED
  BY <1>2, <1>4, <1>5, <1>6

(* An edge that the interrupt serves.                                       *)
LEMMA EdgeRanges ==
  ASSUME RangesOK, pc # "load", NEW value \in {0, 1}, ps2interrupt(value)
  PROVE  /\ cmdInProgress' \in BOOLEAN /\ cmdCount' \in 0..12 /\ cmdValue' \in AllBytes
         /\ cmdParity' \in {0, 1} /\ cmdAck' \in {0, 1} /\ hostData' \in {0, 1}
         /\ cmdInProgress' => cmdCount' < 12
         /\ bitPos' \in 0..FrameLen - 1 /\ buffer' \in AllBytes /\ DecoderOK'
<1>1. TypeOK /\ DecoderOK
  BY DEF RangesOK
<1>2. CASE cmdInProgress
  <2>1. cmdCount < 12 /\ ShiftOut(value) /\ UNCHANGED <<receiver, decoder, ackByteOk>>
    BY <1>2 DEF RangesOK, ps2interrupt
  <2>2. DecoderOK'
    BY <1>1, <2>1, DecoderKept DEF D!TypeOK, DecoderOK
  <2>3. bitPos' \in 0..FrameLen - 1 /\ buffer' \in AllBytes
    BY <1>1, <2>1 DEF receiver, TypeOK
  <2> QED
    BY <1>1, <2>1, <2>2, <2>3, ShiftOutRanges
<1>3. CASE ~cmdInProgress
  <2>1. Collect(value)
    BY <1>3 DEF ps2interrupt
  <2>2. /\ cmdInProgress \in BOOLEAN /\ cmdCount \in 0..12 /\ cmdValue \in AllBytes
        /\ cmdParity \in {0, 1} /\ cmdAck \in {0, 1} /\ hostData \in {0, 1}
    BY <1>1 DEF TypeOK
  <2> QED
    BY <1>1, <1>3, <2>1, <2>2, CollectRanges
<1> QED
  BY <1>2, <1>3

Labels == {"ready", "raise", "load", "pull", "release", "bit", "byte", "flush", "reset"}
SenderOK ==
    /\ cmdInProgress \in BOOLEAN /\ cmdCount \in 0..12 /\ cmdValue \in AllBytes
    /\ cmdParity \in {0, 1} /\ cmdAck \in {0, 1}
WiresOK == hostClock \in {0, 1} /\ hostData \in {0, 1} /\ kbClock \in {0, 1} /\ kbData \in {0, 1}
KeyboardOK == kbMode \in {"idle", "send", "receive"} /\ kbPos \in 0..(FrameLen - 1)
ReceiverOK == bitPos \in 0..(FrameLen - 1) /\ buffer \in AllBytes

LEMMA TypeParts ==
  RangesOK <=> /\ pc \in Labels /\ SenderOK /\ WiresOK /\ KeyboardOK /\ ReceiverOK /\ DecoderOK
               /\ Preparing => kbMode # "receive" /\ hostData = 1
               /\ (cmdInProgress /\ pc # "load") \/ pc = "pull" => cmdCount < 12
  BY DEF RangesOK, TypeOK, DecoderOK, Labels, SenderOK, WiresOK, KeyboardOK, ReceiverOK

LEMMA TypePartsNext ==
  RangesOK' <=> /\ pc' \in Labels /\ SenderOK' /\ WiresOK' /\ KeyboardOK' /\ ReceiverOK' /\ DecoderOK'
                /\ Preparing' => kbMode' # "receive" /\ hostData' = 1
                /\ (cmdInProgress' /\ pc' # "load") \/ pc' = "pull" => cmdCount' < 12
  BY DEF RangesOK, TypeOK, DecoderOK, Labels, SenderOK, WiresOK, KeyboardOK, ReceiverOK

(* What a step of kbd_send_command() leaves alone.                          *)
LEMMA RestKept ==
  ASSUME RangesOK, UNCHANGED rest, ackByteOk' \in BOOLEAN
  PROVE  /\ KeyboardOK' /\ ReceiverOK' /\ DecoderOK'
         /\ UNCHANGED <<kbClock, kbData, kbMode, kbPos, kbIn, out, midEvent, kbOption, kbLights>>
         /\ UNCHANGED <<bitPos, buffer, decoded>>
<1>1. /\ UNCHANGED <<kbClock, kbData, kbMode, kbPos, kbIn, out, midEvent, kbOption, kbLights>>
      /\ UNCHANGED <<bitPos, buffer>> /\ UNCHANGED decoder /\ UNCHANGED decoded
  BY DEF rest, keyboard, receiver
<1>2. KeyboardOK' /\ ReceiverOK'
  BY <1>1, TypeParts DEF KeyboardOK, ReceiverOK
<1>3. DecoderOK'
  BY <1>1, TypeParts, DecoderKept
<1> QED
  BY <1>1, <1>2, <1>3

LEMMA SendRanges ==
  ASSUME RangesOK, SendStep
  PROVE  RangesOK'
<1> USE DEF Labels
<1>1. /\ pc \in Labels /\ SenderOK /\ WiresOK /\ KeyboardOK /\ ReceiverOK /\ DecoderOK
      /\ Preparing => kbMode # "receive" /\ hostData = 1
      /\ (cmdInProgress /\ pc # "load") \/ pc = "pull" => cmdCount < 12
  BY TypeParts
<1>2. ackByteOk \in BOOLEAN
  BY <1>1 DEF DecoderOK, D!TypeOK
<1>3. CASE BeginCommand
  <2>1. /\ pc = "ready" /\ pc' = "raise" /\ kbMode # "receive" /\ hostData = 1
        /\ UNCHANGED <<cmdInProgress, cmdCount, cmdValue, cmdParity, cmdAck>>
        /\ UNCHANGED <<hostClock, hostData>> /\ UNCHANGED rest
    BY <1>3 DEF BeginCommand, CommandTaken, sender
  <2>2. ackByteOk' \in BOOLEAN
    BY <1>3, Zenon DEF BeginCommand, ClearAck
  <2>3. KeyboardOK' /\ ReceiverOK' /\ DecoderOK' /\ UNCHANGED <<kbClock, kbData, kbMode>>
    BY <2>1, <2>2, RestKept
  <2>4. SenderOK' /\ WiresOK'
    BY <1>1, <2>1, <2>3 DEF SenderOK, WiresOK
  <2>5. cmdInProgress' => cmdCount' < 12
    BY <1>1, <2>1
  <2> QED
    BY <2>1, <2>3, <2>4, <2>5, TypePartsNext
<1>4. CASE RaiseFlag
  <2>1. /\ pc = "raise" /\ pc' = "load" /\ cmdInProgress' = TRUE
        /\ UNCHANGED <<cmdCount, cmdValue, cmdParity, cmdAck>>
        /\ UNCHANGED <<hostClock, hostData, ackByteOk>> /\ UNCHANGED rest
    BY <1>4 DEF RaiseFlag
  <2>2. KeyboardOK' /\ ReceiverOK' /\ DecoderOK' /\ UNCHANGED <<kbClock, kbData, kbMode>>
    BY <1>2, <2>1, RestKept
  <2>3. SenderOK' /\ WiresOK'
    BY <1>1, <2>1, <2>2 DEF SenderOK, WiresOK
  <2>4. Preparing' => kbMode' # "receive" /\ hostData' = 1
    BY <1>1, <2>1, <2>2 DEF Preparing
  <2> QED
    BY <2>1, <2>2, <2>3, <2>4, TypePartsNext
<1>5. CASE LoadCommand
  <2>1. /\ pc = "load" /\ pc' = "pull" /\ cmdCount' = 0 /\ cmdValue' = Bits(cmd.val) /\ cmdAck' = 1
        /\ cmdParity' = OddParity(Bits(cmd.val)) /\ hostData' = 1
        /\ UNCHANGED <<cmdInProgress, hostClock, ackByteOk>> /\ UNCHANGED rest
    BY <1>5 DEF LoadCommand, Load
  <2>2. KeyboardOK' /\ ReceiverOK' /\ DecoderOK' /\ UNCHANGED <<kbClock, kbData, kbMode>>
    BY <1>2, <2>1, RestKept
  <2>3. cmdValue' \in AllBytes /\ cmdParity' \in {0, 1}
    BY <2>1, BitsAreBytes, OneOrZero DEF AllBytes
  <2>4. SenderOK' /\ WiresOK'
    BY <1>1, <2>1, <2>2, <2>3 DEF SenderOK, WiresOK
  <2>5. Preparing' => kbMode' # "receive" /\ hostData' = 1
    BY <1>1, <2>1, <2>2 DEF Preparing
  <2>6. cmdCount' < 12
    BY <2>1
  <2> QED
    BY <2>1, <2>2, <2>4, <2>5, <2>6, TypePartsNext
<1>6. CASE PullClock
  <2>1. /\ pc = "pull" /\ pc' = "release" /\ hostClock' = 0
        /\ UNCHANGED ackByteOk /\ UNCHANGED rest
        /\ IF kbClock = 1 THEN ShiftOut(hostData * kbData)
           ELSE UNCHANGED <<cmdInProgress, cmdCount, cmdValue, cmdParity, cmdAck>> /\ UNCHANGED hostData
    BY <1>6 DEF PullClock, sender
  <2>2. KeyboardOK' /\ ReceiverOK' /\ DecoderOK' /\ UNCHANGED <<kbClock, kbData, kbMode>>
    BY <1>2, <2>1, RestKept
  <2>3. SenderOK' /\ hostData' \in {0, 1} /\ (cmdInProgress' => cmdCount' < 12)
    <3>1. CASE kbClock = 1
      <4>1. hostData * kbData \in {0, 1}
        BY <1>1 DEF WiresOK
      <4>2. TypeOK /\ cmdCount < 12
        BY <1>1, <2>1 DEF RangesOK
      <4> QED
        BY <2>1, <3>1, <4>1, <4>2, ShiftOutRanges DEF SenderOK
    <3>2. CASE kbClock # 1
      BY <1>1, <2>1, <3>2 DEF SenderOK, WiresOK
    <3> QED
      BY <3>1, <3>2
  <2>4. WiresOK'
    BY <1>1, <2>1, <2>2, <2>3 DEF WiresOK
  <2>5. ~Preparing'
    BY <2>1 DEF Preparing
  <2> QED
    BY <2>1, <2>2, <2>3, <2>4, <2>5, TypePartsNext
<1>7. CASE ReleaseClock
  <2>1. /\ pc = "release" /\ pc' \in {"flush", "ready", "bit"} /\ hostClock' = 1 /\ hostData' = 0
        /\ UNCHANGED <<cmdInProgress, cmdCount, cmdValue, cmdParity, cmdAck>>
        /\ UNCHANGED ackByteOk /\ UNCHANGED rest
    BY <1>7 DEF ReleaseClock, AfterWait, sender
  <2>2. KeyboardOK' /\ ReceiverOK' /\ DecoderOK' /\ UNCHANGED <<kbClock, kbData, kbMode>>
    BY <1>2, <2>1, RestKept
  <2>3. SenderOK' /\ WiresOK'
    BY <1>1, <2>1, <2>2 DEF SenderOK, WiresOK
  <2>4. ~Preparing' /\ (cmdInProgress' => cmdCount' < 12)
    BY <1>1, <2>1 DEF Preparing
  <2> QED
    BY <2>1, <2>2, <2>3, <2>4, TypePartsNext
<1>8. CASE SeeAckBit
  <2>1. /\ pc' \in {"byte", "flush", "ready"} /\ cmdInProgress' = FALSE
        /\ UNCHANGED <<cmdCount, cmdValue, cmdParity, cmdAck>>
        /\ UNCHANGED <<hostClock, hostData, ackByteOk>> /\ UNCHANGED rest
    BY <1>8 DEF SeeAckBit, AfterWait
  <2>2. KeyboardOK' /\ ReceiverOK' /\ DecoderOK' /\ UNCHANGED <<kbClock, kbData, kbMode>>
    BY <1>2, <2>1, RestKept
  <2>3. SenderOK' /\ WiresOK'
    BY <1>1, <2>1, <2>2 DEF SenderOK, WiresOK
  <2>4. ~Preparing'
    BY <2>1 DEF Preparing
  <2> QED
    BY <2>1, <2>2, <2>3, <2>4, TypePartsNext
<1>9. CASE SeeAckByte
  <2>1. /\ pc = "byte" /\ pc' \in {"flush", "ready"}
        /\ UNCHANGED <<cmdInProgress, cmdCount, cmdValue, cmdParity, cmdAck>>
        /\ UNCHANGED <<hostClock, hostData, ackByteOk>> /\ UNCHANGED rest
    BY <1>9 DEF SeeAckByte, AfterWait, sender
  <2>2. KeyboardOK' /\ ReceiverOK' /\ DecoderOK' /\ UNCHANGED <<kbClock, kbData, kbMode>>
    BY <1>2, <2>1, RestKept
  <2>3. SenderOK' /\ WiresOK'
    BY <1>1, <2>1, <2>2 DEF SenderOK, WiresOK
  <2>4. ~Preparing' /\ (cmdInProgress' => cmdCount' < 12)
    BY <1>1, <2>1 DEF Preparing
  <2> QED
    BY <2>1, <2>2, <2>3, <2>4, TypePartsNext
<1> QED
  BY <1>3, <1>4, <1>5, <1>6, <1>7, <1>8, <1>9 DEF SendStep

LEMMA FallRanges ==
  ASSUME RangesOK, ~Preparing, NEW level \in {0, 1}, Fall(level), UNCHANGED <<pc, hostClock>>
  PROVE  RangesOK'
<1>1. /\ pc \in Labels /\ SenderOK /\ WiresOK /\ KeyboardOK
  BY TypeParts
<1>2. /\ kbClock' = 0 /\ kbData' = level /\ ps2interrupt(level * hostData) /\ UNCHANGED <<kbMode, kbPos>>
  BY DEF Fall
<1>3. level * hostData \in {0, 1} /\ pc # "load" /\ pc # "pull"
  BY <1>1 DEF WiresOK, Preparing
<1>4. /\ SenderOK' /\ hostData' \in {0, 1} /\ (cmdInProgress' => cmdCount' < 12)
      /\ ReceiverOK' /\ DecoderOK'
  BY <1>2, <1>3, EdgeRanges DEF SenderOK, ReceiverOK
<1>5. WiresOK' /\ KeyboardOK'
  BY <1>1, <1>2, <1>4 DEF WiresOK, KeyboardOK
<1>6. ~Preparing'
  BY DEF Preparing
<1> QED
  BY <1>1, <1>3, <1>4, <1>5, <1>6, TypePartsNext

LEMMA KeyboardRanges ==
  ASSUME RangesOK, KeyboardStep
  PROVE  RangesOK'
<1>1. /\ pc \in Labels /\ SenderOK /\ WiresOK /\ KeyboardOK /\ ReceiverOK /\ DecoderOK
      /\ Preparing => kbMode # "receive" /\ hostData = 1
      /\ (cmdInProgress /\ pc # "load") \/ pc = "pull" => cmdCount < 12
  BY TypeParts
<1>2. UNCHANGED <<pc, hostClock>>
  BY DEF KeyboardStep, host
<1>3. CASE FallSend
  <2>1. ~Preparing /\ Fall(FrameBit(OnTheWire, kbPos))
    BY <1>3 DEF FallSend
  <2>2. FrameBit(OnTheWire, kbPos) \in {0, 1}
    BY BitsAreBytes, OneOrZero DEF OnTheWire, AllBytes
  <2> QED
    BY <1>2, <2>1, <2>2, FallRanges
<1>4. CASE FallReceive
  <2>1. ~Preparing /\ Fall(Level(kbPos # FrameLen - 1))
    BY <1>1, <1>4 DEF FallReceive
  <2>2. Level(kbPos # FrameLen - 1) \in {0, 1}
    BY DEF Level
  <2> QED
    BY <1>2, <2>1, <2>2, FallRanges
<1>5. CASE /\ StartSend \/ StartReceive \/ Stop \/ RiseSend \/ RiseReceive
           /\ UNCHANGED sender /\ UNCHANGED hostData /\ UNCHANGED receiver
           /\ UNCHANGED decoder /\ UNCHANGED ackByteOk
  <2>1. SenderOK' /\ ReceiverOK' /\ (cmdInProgress' <=> cmdInProgress) /\ cmdCount' = cmdCount
    BY <1>1, <1>5 DEF SenderOK, ReceiverOK, sender, receiver
  <2>2. DecoderOK'
    BY <1>1, <1>5, DecoderKept DEF DecoderOK, D!TypeOK
  <2>3. KeyboardOK' /\ kbClock' \in {0, 1} /\ kbData' \in {0, 1}
    <3>1. CASE StartSend
      BY <1>1, <3>1 DEF StartSend, KeyboardOK, WiresOK
    <3>2. CASE StartReceive
      BY <1>1, <3>2 DEF StartReceive, KeyboardOK, WiresOK
    <3>3. CASE Stop
      BY <1>1, <3>3 DEF Stop, KeyboardOK, WiresOK, FrameLen
    <3>4. CASE RiseSend
      <4>1. /\ kbClock' = 1 /\ kbPos \in 0..10
            /\ \/ kbMode' = "idle" /\ kbData' = 1 /\ kbPos' = 0
               \/ kbMode' = kbMode /\ kbData' = kbData /\ kbPos' = kbPos + 1 /\ kbPos # 10
        BY <1>1, <3>4 DEF RiseSend, KeyboardOK, FrameLen
      <4> QED
        BY <1>1, <4>1 DEF KeyboardOK, WiresOK, FrameLen
    <3>5. CASE RiseReceive
      <4>1. /\ kbClock' = 1 /\ kbPos \in 0..10
            /\ \/ kbMode' = "idle" /\ kbData' = 1 /\ kbPos' = 0
               \/ kbMode' = kbMode /\ kbData' = kbData /\ kbPos' = kbPos + 1 /\ kbPos # 10
        BY <1>1, <3>5 DEF RiseReceive, KeyboardOK, FrameLen
      <4> QED
        BY <1>1, <4>1 DEF KeyboardOK, WiresOK, FrameLen
    <3> QED
      BY <1>5, <3>1, <3>2, <3>3, <3>4, <3>5
  <2>4. WiresOK'
    BY <1>1, <1>2, <1>5, <2>3 DEF WiresOK
  <2>5. Preparing' => kbMode' # "receive" /\ hostData' = 1
    <3>1. CASE StartReceive
      BY <1>1, <1>2, <3>1 DEF StartReceive, Preparing
    <3>2. CASE StartSend \/ Stop \/ RiseSend \/ RiseReceive
      <4>1. kbMode' = kbMode \/ kbMode' \in {"send", "idle"}
        BY <3>2 DEF StartSend, Stop, RiseSend, RiseReceive
      <4> QED
        BY <1>1, <1>2, <1>5, <4>1 DEF Preparing
    <3> QED
      BY <1>5, <3>1, <3>2
  <2> QED
    BY <1>1, <1>2, <2>1, <2>2, <2>3, <2>4, <2>5, TypePartsNext
<1> QED
  BY <1>3, <1>4, <1>5 DEF KeyboardStep

LEMMA StepRanges == RangesOK /\ [Next]_mainVars => RangesOK'
<1> SUFFICES ASSUME RangesOK, [Next]_mainVars PROVE RangesOK'
  OBVIOUS
<1>1. /\ pc \in Labels /\ SenderOK /\ WiresOK /\ KeyboardOK /\ ReceiverOK /\ DecoderOK
      /\ Preparing => kbMode # "receive" /\ hostData = 1
      /\ (cmdInProgress /\ pc # "load") \/ pc = "pull" => cmdCount < 12
  BY TypeParts
<1>2. ackByteOk \in BOOLEAN
  BY <1>1 DEF DecoderOK, D!TypeOK
<1>3. CASE Transmit(SendStep) \/ Transmit(KeyboardStep)
  BY <1>3, SendRanges, KeyboardRanges DEF Transmit
<1>4. ASSUME UNCHANGED <<sender, hostClock, hostData>>, UNCHANGED <<kbClock, kbData, kbMode, kbPos>>,
             UNCHANGED receiver, DecoderOK',
             pc' = pc \/ (pc # "load" /\ pc' \in {"ready", "flush", "reset"})
      PROVE  RangesOK'
  <2>1. SenderOK' /\ WiresOK' /\ KeyboardOK' /\ ReceiverOK' /\ (cmdInProgress' <=> cmdInProgress)
        /\ cmdCount' = cmdCount /\ kbMode' = kbMode /\ hostData' = hostData
    BY <1>1, <1>4 DEF SenderOK, WiresOK, KeyboardOK, ReceiverOK, sender, receiver
  <2>2. CASE pc' = pc
    BY <1>1, <1>4, <2>1, <2>2, TypePartsNext DEF Preparing
  <2>3. CASE pc # "load" /\ pc' \in {"ready", "flush", "reset"}
    BY <1>1, <1>4, <2>1, <2>3, TypePartsNext DEF Preparing, Labels
  <2> QED
    BY <1>4, <2>2, <2>3
<1>5. CASE InstallCallback
  <2>1. D!InstallNext
    BY <1>5 DEF InstallCallback
  <2>2. DecoderOK'
    BY <1>1, <2>1, DecoderFed
  <2> QED
    BY <1>4, <1>5, <2>2 DEF InstallCallback, host, keyboard
<1>6. CASE Loop \/ dump_flush
  <2>1. UNCHANGED ps2 /\ pc \in {"ready", "flush", "reset"} /\ pc' \in {"ready", "flush", "reset"}
    BY <1>6 DEF Loop, Idle, lufa_parse, dump_flush, PrintByte, EndOfDump, ResetDump
  <2>2. DecoderOK'
    BY <1>1, <1>2, <2>1, DecoderKept DEF ps2, rest
  <2> QED
    BY <1>4, <2>1, <2>2 DEF ps2, rest, keyboard
<1>7. CASE UseKeyboard
  <2>1. DecoderOK'
    BY <1>1, <1>2, <1>7, DecoderKept DEF UseKeyboard
  <2> QED
    BY <1>4, <1>7, <2>1 DEF UseKeyboard, host
<1>8. CASE UNCHANGED mainVars
  <2>1. UNCHANGED <<host, sender, hostClock, hostData, ackByteOk, rest>>
    BY <1>8 DEF mainVars, commandVars
  <2>2. DecoderOK'
    BY <1>1, <1>2, <2>1, DecoderKept DEF rest
  <2> QED
    BY <1>4, <2>1, <2>2 DEF host, rest, keyboard
<1> QED
  BY <1>3, <1>5, <1>6, <1>7, <1>8 DEF Next, MainStep

LEMMA InitRanges == Init => RangesOK
<1> SUFFICES ASSUME Init PROVE RangesOK
  OBVIOUS
<1>1. D!Init
  BY DEF Init, CommandInit
<1>2. P!IInv
  BY <1>1, SameDecoder, P!InitIInv
<1>3. DecoderOK
  BY <1>2, SameDecoder DEF P!IInv, DecoderOK
<1>4. /\ pc = "ready" /\ bitPos = 0 /\ buffer = {} /\ cmdCount = 0 /\ cmdValue = {} /\ cmdParity = 0
      /\ cmdAck = 1 /\ hostClock = 1 /\ hostData = 1 /\ kbClock = 1 /\ kbData = 1 /\ kbMode = "idle" /\ kbPos = 0
  BY Zenon DEF Init, CommandInit
<1>5. cmdInProgress \in BOOLEAN
  BY Zenon DEF Init, CommandInit
<1> QED
  BY <1>3, <1>4, <1>5, TypeParts DEF Labels, SenderOK, WiresOK, KeyboardOK, ReceiverOK, FrameLen, AllBytes, Preparing

(* Every counter of the interrupt and of kbd_send_command(), the lines and  *)
(* the decoder keep their types, whether commands and keyboard get into     *)
(* each other's way or not.                                                 *)
THEOREM TypeCorrect == Spec => []TypeOK
<1>1. RangesOK => TypeOK
  BY DEF RangesOK
<1> QED
  BY <1>1, InitRanges, StepRanges, PTL DEF Spec

-----------------------------------------------------------------------------
(* The line, without overlap.                                               *)

QueueOK == out \in Seq(OneEvent) /\ (kbMode = "send" => out # << >>)

(* The edges of the current byte that the keyboard has made.                *)
Edges == kbPos + 1 - kbClock

(* The keyboard rests, or sends and the receive half follows it.            *)
Following ==
    \/ kbMode = "idle" /\ kbClock = 1 /\ kbPos = 0 /\ bitPos = 0 /\ buffer = {}
    \/ /\ kbMode = "send" /\ bitPos = Edges % FrameLen
       /\ buffer = {i \in OnTheWire : i + 1 < bitPos}
       /\ Edges # 0 => midEvent

HostOff ==
    /\ pc \in {"ready", "bit", "byte", "flush", "reset"}
    /\ ~cmdInProgress /\ hostClock = 1 /\ hostData = 1
    /\ Following /\ kbIn = << >>
    /\ heard = GoodFrame \/ (heard = << >> /\ pc = "ready" /\ todo # << >>)

AtStart == kbMode \in {"idle", "send"} /\ Edges = 0 /\ kbPos = 0 /\ bitPos = 0 /\ buffer = {} /\ kbIn = << >>

Taking ==
    /\ pc \in {"raise", "load", "pull"} /\ (cmdInProgress <=> pc # "raise")
    /\ hostClock = 1 /\ hostData = 1 /\ AtStart
    /\ pc = "pull" => cmdCount = 0 /\ cmdValue = Sent /\ cmdParity = OddParity(Sent) /\ cmdAck = 1

(* The bits of the command still to be shifted out, and the one on the line.*)
Shifting ==
    /\ cmdParity = OddParity(Sent)
    /\ cmdCount \in 1..9 => \A i \in 0..7 : i \in cmdValue <=> i + cmdCount - 1 \in Sent
    /\ cmdAck = IF cmdCount = 12 THEN 0 ELSE 1

Holding ==
    /\ pc = "release" /\ cmdInProgress /\ cmdCount = 1
    /\ hostClock = 0 /\ AtStart /\ Shifting

Clocking ==
    /\ pc \in {"ready", "bit", "byte", "flush", "reset"}
    /\ cmd.wait # "none" /\ cmdCount < 12 => pc = "bit"
    /\ hostClock = 1 /\ hostData = FrameBit(Sent, cmdCount - 1)
    /\ bitPos = 0 /\ buffer = {}
    /\ \/ kbMode = "idle" /\ kbClock = 1 /\ kbPos = 0
       \/ kbMode = "receive"
    /\ cmdCount = 1 + Edges /\ (cmdInProgress <=> cmdCount # 12) /\ Shifting
    /\ kbIn \in Seq({0, 1}) /\ Len(kbIn) = kbPos
    /\ \A i \in 1..Len(kbIn) : kbIn[i] = FrameBit(Sent, i)

NotHeard == heard = << >> /\ (ackByteOk => cmd.wait # "byte")

LineOK == HostOff \/ ((Taking \/ Holding \/ Clocking) /\ NotHeard)

Inv == RangesOK /\ QueueOK /\ LineOK /\ BytesIntact

(* The queue of the keyboard.                                               *)
LEMMA Queues ==
  ASSUME NEW s \in Seq(OneEvent), s # << >>
  PROVE  /\ Head(s) \in OneEvent /\ Tail(s) \in Seq(OneEvent)
         /\ Tail(Head(s)) # << >> => <<Tail(Head(s))>> \o Tail(s) \in Seq(OneEvent)
         /\ \A e \in OneEvent : Append(s, e) \in Seq(OneEvent) /\ Append(s, e) # << >> /\ Head(Append(s, e)) = Head(s)
<1>1. Head(s) \in OneEvent /\ Tail(s) \in Seq(OneEvent)
  BY HeadTailProperties
<1>2. ASSUME Tail(Head(s)) # << >> PROVE <<Tail(Head(s))>> \o Tail(s) \in Seq(OneEvent)
  <2>1. Head(s) \in Seq(0..255) /\ Head(s) # << >>
    BY <1>1 DEF OneEvent
  <2>2. Tail(Head(s)) \in OneEvent
    BY <1>2, <2>1, HeadTailProperties DEF OneEvent
  <2>3. <<Tail(Head(s))>> \in Seq(OneEvent)
    BY <2>2
  <2> QED
    BY <1>1, <2>3, ConcatProperties
<1>3. ASSUME NEW e \in OneEvent
      PROVE  Append(s, e) \in Seq(OneEvent) /\ Append(s, e) # << >> /\ Head(Append(s, e)) = Head(s)
  BY AppendProperties
<1> QED
  BY <1>1, <1>2, <1>3

LEMMA AnswersAreEvents ==
  ASSUME NEW val
  PROVE  Answer(val) \in Seq(OneEvent) /\ << <<\hFE>> >> \in Seq(OneEvent)
<1>1. \A b \in 0..255 : <<b>> \in OneEvent
  BY DEF OneEvent
<1>2. <<\hFA, \hAB, \h83>> \in OneEvent
  BY DEF OneEvent
<1>3. \A a, b \in OneEvent : <<a>> \in Seq(OneEvent) /\ <<a, b>> \in Seq(OneEvent)
  OBVIOUS
<1>4. /\ <<\hFA>> \in OneEvent /\ <<\hAA>> \in OneEvent /\ <<\h23>> \in OneEvent /\ <<\hFE>> \in OneEvent
  BY <1>1
<1> QED
  BY <1>2, <1>3, <1>4, Zenon DEF Answer

LEMMA StepQueue ==
  ASSUME QueueOK, [Next]_mainVars
  PROVE  QueueOK'
<1>1. out \in Seq(OneEvent) /\ (kbMode = "send" => out # << >>)
  BY DEF QueueOK
<1>2. CASE UNCHANGED <<out, kbMode>>
  BY <1>1, <1>2 DEF QueueOK
<1>3. CASE UseKeyboard
  <2>1. PICK e \in Events : out' = Append(out, e) /\ kbMode' = kbMode
    BY <1>3 DEF UseKeyboard
  <2>2. e \in OneEvent
    BY EventsAssumption DEF OneEvent
  <2> QED
    BY <1>1, <2>1, <2>2, AppendProperties DEF QueueOK
<1>4. CASE Transmit(KeyboardStep)
  <2>1. CASE FallSend \/ FallReceive \/ StartReceive \/ Stop
    <3>1. out' = out /\ (kbMode' = "send" => kbMode = "send")
      BY <2>1 DEF FallSend, FallReceive, Fall, StartReceive, Stop
    <3> QED
      BY <1>1, <3>1 DEF QueueOK
  <2>2. CASE StartSend
    BY <1>1, <2>2 DEF StartSend, QueueOK
  <2>3. CASE RiseSend
    <3>1. out # << >>
      BY <1>1, <2>3 DEF RiseSend
    <3>2. /\ Tail(out) \in Seq(OneEvent)
          /\ Tail(Head(out)) # << >> => <<Tail(Head(out))>> \o Tail(out) \in Seq(OneEvent)
      BY <1>1, <3>1, Queues
    <3>3. \/ out' = out
          \/ kbMode' = "idle" /\ out' = Tail(out)
          \/ kbMode' = "idle" /\ Tail(Head(out)) # << >> /\ out' = <<Tail(Head(out))>> \o Tail(out)
      BY <2>3 DEF RiseSend
    <3> QED
      BY <1>1, <3>1, <3>2, <3>3 DEF QueueOK
  <2>4. CASE RiseReceive
    <3>1. kbMode' # "send"
      BY <2>4, Zenon DEF RiseReceive
    <3>2. \/ out' = out
          \/ \E val : out' = Answer(val) \o out
          \/ out' = << <<\hFE>> >> \o out
      BY <2>4, Zenon DEF RiseReceive
    <3>3. \A val : Answer(val) \o out \in Seq(OneEvent)
      BY <1>1, AnswersAreEvents, ConcatProperties
    <3>4. << <<\hFE>> >> \o out \in Seq(OneEvent)
      BY <1>1, AnswersAreEvents, ConcatProperties
    <3>5. out' \in Seq(OneEvent)
      BY <1>1, <3>2, <3>3, <3>4, Zenon
    <3> QED
      BY <3>1, <3>5 DEF QueueOK
  <2> QED
    BY <1>4, <2>1, <2>2, <2>3, <2>4 DEF Transmit, KeyboardStep
<1>5. CASE Transmit(SendStep) \/ InstallCallback \/ Loop \/ dump_flush \/ UNCHANGED mainVars
  <2>1. UNCHANGED <<out, kbMode>>
    <3>1. CASE Transmit(SendStep)
      BY <3>1 DEF Transmit, SendStep, BeginCommand, RaiseFlag, LoadCommand, PullClock, ReleaseClock,
                  SeeAckBit, SeeAckByte, rest, keyboard
    <3>2. CASE InstallCallback \/ Loop \/ dump_flush \/ UNCHANGED mainVars
      BY <3>2 DEF InstallCallback, Loop, dump_flush, mainVars, commandVars, ps2, rest, keyboard
    <3> QED
      BY <1>5, <3>1, <3>2
  <2> QED
    BY <1>2, <2>1
<1> QED
  BY <1>3, <1>4, <1>5 DEF Next, MainStep

(* Steps that move only the main program, between two commands.             *)
SameLine ==
    /\ UNCHANGED <<cmd, cmdInProgress, cmdCount, cmdValue, cmdParity, cmdAck>>
    /\ UNCHANGED <<hostClock, hostData, kbClock, kbMode, kbPos, kbIn, midEvent>>
    /\ UNCHANGED <<bitPos, buffer, decoded, heard, ackByteOk>>
    /\ kbMode = "send" => Head(out') = Head(out)

LEMMA SameLineFacts ==
  ASSUME SameLine
  PROVE  /\ Edges' = Edges /\ (AtStart => AtStart') /\ (Following => Following')
         /\ Shifting' = Shifting /\ Sent' = Sent /\ GoodFrame' = GoodFrame /\ NotHeard' = NotHeard
         /\ BytesIntact => BytesIntact'
<1>1. Edges' = Edges
  BY DEF SameLine, Edges
<1>2. kbMode = "send" => OnTheWire' = OnTheWire
  BY DEF SameLine, OnTheWire, Bits
<1>3. Sent' = Sent /\ GoodFrame' = GoodFrame
  BY DEF SameLine, Sent, GoodFrame, Bits
<1>4. AtStart => AtStart'
  BY <1>1 DEF SameLine, AtStart
<1>5. Following => Following'
  BY <1>1, <1>2 DEF SameLine, Following, FrameLen
<1>6. Shifting' = Shifting
  BY <1>3 DEF SameLine, Shifting, OddParity
<1>7. BytesIntact => BytesIntact'
  BY <1>2 DEF SameLine, BytesIntact, FrameLen
<1>8. NotHeard' = NotHeard
  BY Zenon DEF SameLine, NotHeard
<1> QED
  BY <1>1, <1>3, <1>4, <1>5, <1>6, <1>7, <1>8

Off == {"ready", "bit", "byte", "flush", "reset"}

LEMMA PcMoves ==
  ASSUME LineOK, BytesIntact, SameLine,
         \/ UNCHANGED <<pc, todo>>
         \/ /\ pc \in Off /\ pc' \in Off
            /\ pc = "bit" => cmdAck = 0
            /\ pc = "ready" => todo = << >>
  PROVE  LineOK' /\ BytesIntact'
<1>1. BytesIntact'
  BY SameLineFacts
<1>2. CASE HostOff
  <2>1. HostOff'
    BY <1>2, SameLineFacts DEF HostOff, SameLine, Off
  <2> QED
    BY <1>1, <2>1 DEF LineOK
<1>3. CASE Taking /\ NotHeard
  <2>1. Taking'
    BY <1>3, SameLineFacts DEF Taking, SameLine, Off, OddParity
  <2> QED
    BY <1>1, <1>3, <2>1, SameLineFacts DEF LineOK
<1>4. CASE Holding /\ NotHeard
  <2>1. Holding'
    BY <1>4, SameLineFacts DEF Holding, SameLine, Off
  <2> QED
    BY <1>1, <1>4, <2>1, SameLineFacts DEF LineOK
<1>5. CASE Clocking /\ NotHeard
  <2>1. FrameBit(Sent, cmdCount - 1)' = FrameBit(Sent, cmdCount - 1)
        /\ \A i : FrameBit(Sent', i) = FrameBit(Sent, i)
    BY SameLineFacts DEF SameLine, FrameBit, OddParity, Level
  <2>2. Clocking'
    <3>1. /\ pc' \in Off /\ (cmd'.wait # "none" /\ cmdCount' < 12 => pc' = "bit")
          /\ hostClock' = 1 /\ hostData' = FrameBit(Sent, cmdCount - 1)' /\ bitPos' = 0 /\ buffer' = {}
      BY <1>5, <2>1 DEF Clocking, SameLine, Off, Shifting
    <3>2. /\ (kbMode' = "idle" /\ kbClock' = 1 /\ kbPos' = 0) \/ kbMode' = "receive"
          /\ cmdCount' = 1 + Edges' /\ Shifting'
      BY <1>5, SameLineFacts DEF Clocking, SameLine
    <3>3. cmdInProgress' <=> cmdCount' # 12
      BY <1>5, Zenon DEF Clocking, SameLine
    <3>4. kbIn' \in Seq({0, 1}) /\ Len(kbIn') = kbPos' /\ \A i \in 1..Len(kbIn') : kbIn'[i] = FrameBit(Sent', i)
      BY <1>5, <2>1 DEF Clocking, SameLine
    <3> QED
      BY <3>1, <3>2, <3>3, <3>4 DEF Clocking, Off
  <2> QED
    BY <1>1, <1>5, <2>2, SameLineFacts DEF LineOK
<1> QED
  BY <1>2, <1>3, <1>4, <1>5 DEF LineOK

LEMMA BeginLine ==
  ASSUME Inv, Overlap = FALSE, BeginCommand
  PROVE  LineOK' /\ BytesIntact'
<1>1. /\ pc = "ready" /\ kbMode # "receive" /\ hostData = 1 /\ ~midEvent
      /\ pc' = "raise" /\ heard' = << >> /\ cmd' = Head(todo)
      /\ UNCHANGED <<cmdInProgress, cmdCount, cmdValue, cmdParity, cmdAck, hostClock, hostData>>
      /\ UNCHANGED rest
  BY DEF BeginCommand, CommandTaken, BetweenEvents, sender
<1>2. /\ UNCHANGED <<kbClock, kbMode, kbPos, kbIn, out, midEvent, bitPos, buffer, decoded>>
  BY <1>1 DEF rest, keyboard, receiver
<1>3. HostOff
  <2>1. ~Clocking
    <3>1. SUFFICES ASSUME Clocking PROVE FALSE
      OBVIOUS
    <3>2. Edges = 0 /\ cmdCount = 1 + Edges /\ hostData = FrameBit(Sent, cmdCount - 1)
      BY <1>1, <3>1 DEF Clocking, Edges
    <3>3. hostData = 0
      BY <3>2 DEF FrameBit
    <3> QED
      BY <1>1, <3>3
  <2> QED
    BY <1>1, <2>1 DEF Inv, LineOK, Taking, Holding
<1>4. kbClock \in {0, 1} /\ kbPos \in 0..10
  BY DEF Inv, RangesOK, TypeOK, FrameLen
<1>5. AtStart
  <2>1. CASE kbMode = "idle"
    BY <1>3, <2>1 DEF HostOff, Following, AtStart, Edges
  <2>2. CASE kbMode = "send"
    <3>1. Edges = 0
      BY <1>1, <1>3, <2>2 DEF HostOff, Following
    <3>2. kbPos = 0 /\ bitPos = 0
      BY <1>3, <1>4, <2>2, <3>1 DEF HostOff, Following, Edges, FrameLen
    <3>3. buffer = {}
      <4>1. buffer = {i \in OnTheWire : i + 1 < 0} /\ OnTheWire \in AllBytes
        BY <1>3, <2>2, <3>2, BitsAreBytes DEF HostOff, Following, OnTheWire
      <4> QED
        <5>1. \A i \in OnTheWire : i \in 0..7 /\ ~(i + 1 < 0)
          BY <4>1 DEF AllBytes
        <5> QED
          BY <4>1, <5>1, Zenon
    <3> QED
      BY <1>3, <2>2, <3>1, <3>2, <3>3 DEF HostOff, AtStart
  <2> QED
    BY <1>3, <2>1, <2>2 DEF HostOff, Following
<1>6. Taking'
  <2>1. ~cmdInProgress'
    BY <1>1, <1>3, Zenon DEF HostOff
  <2> QED
    BY <1>1, <1>2, <1>3, <1>5, <2>1 DEF Taking, HostOff, AtStart, Edges
<1>7. NotHeard'
  <2>1. ackByteOk' => cmd'.wait # "byte"
    BY <1>1, Zenon DEF BeginCommand, ClearAck
  <2> QED
    BY <1>1, <2>1 DEF NotHeard
<1>8. BytesIntact'
  BY <1>2 DEF Inv, BytesIntact, OnTheWire, FrameLen, Bits
<1> QED
  BY <1>6, <1>7, <1>8 DEF LineOK

(* From the raised flag to the release of the clock.                        *)
LEMMA TakeLine ==
  ASSUME Inv, RaiseFlag \/ LoadCommand \/ PullClock \/ ReleaseClock
  PROVE  LineOK' /\ BytesIntact'
<1>1. /\ UNCHANGED <<cmd, heard, ackByteOk>> /\ UNCHANGED rest
  BY DEF RaiseFlag, LoadCommand, PullClock, ReleaseClock
<1>2. /\ UNCHANGED <<kbClock, kbMode, kbPos, kbIn, out, midEvent, bitPos, buffer, decoded>>
  BY <1>1 DEF rest, keyboard, receiver
<1>3. BytesIntact' /\ Edges' = Edges /\ AtStart' = AtStart /\ Sent' = Sent /\ NotHeard' = NotHeard
  <2>1. BytesIntact'
    BY <1>2 DEF Inv, BytesIntact, OnTheWire, FrameLen, Bits
  <2>2. Edges' = Edges
    BY <1>2 DEF Edges
  <2>3. AtStart' = AtStart /\ Sent' = Sent
    BY <1>1, <1>2, <2>2 DEF AtStart, Sent, Bits
  <2>4. NotHeard' = NotHeard
    BY <1>1, Zenon DEF NotHeard
  <2> QED
    BY <2>1, <2>2, <2>3, <2>4
<1>4. OddParity(Sent') = OddParity(Sent) /\ Sent \in AllBytes /\ kbClock \in {0, 1} /\ kbPos \in 0..10
  BY <1>3, BitsAreBytes DEF Sent, Inv, RangesOK, TypeOK, FrameLen
<1>5. CASE RaiseFlag
  <2>1. Taking /\ NotHeard
    BY <1>5 DEF Inv, LineOK, HostOff, Holding, Clocking, RaiseFlag
  <2>2. pc' = "load" /\ cmdInProgress' = TRUE /\ UNCHANGED <<hostClock, hostData>>
    BY <1>5 DEF RaiseFlag
  <2>3. Taking'
    BY <1>3, <2>1, <2>2 DEF Taking
  <2> QED
    BY <1>3, <2>1, <2>3 DEF LineOK
<1>6. CASE LoadCommand
  <2>1. Taking /\ NotHeard
    BY <1>6 DEF Inv, LineOK, HostOff, Holding, Clocking, LoadCommand
  <2>2. /\ pc = "load" /\ pc' = "pull" /\ cmdCount' = 0 /\ cmdValue' = Sent /\ cmdAck' = 1
        /\ cmdParity' = OddParity(Sent) /\ hostData' = 1 /\ UNCHANGED <<cmdInProgress, hostClock>>
    BY <1>6 DEF LoadCommand, Load, Sent
  <2>3. cmdInProgress' = TRUE
    BY <2>1, <2>2, Zenon DEF Taking
  <2>4. Taking'
    BY <1>3, <1>4, <2>1, <2>2, <2>3 DEF Taking
  <2> QED
    BY <1>3, <2>1, <2>4 DEF LineOK
<1>7. CASE PullClock
  <2>1. Taking /\ NotHeard /\ pc = "pull"
    BY <1>7 DEF Inv, LineOK, HostOff, Holding, Clocking, PullClock
  <2>2. kbClock = 1
    BY <1>4, <2>1 DEF Taking, AtStart, Edges
  <2>3. pc' = "release" /\ hostClock' = 0 /\ ShiftOut(hostData * kbData)
    BY <1>7, <2>2 DEF PullClock
  <2>4. cmdCount = 0 /\ cmdValue = Sent /\ cmdParity = OddParity(Sent) /\ cmdAck = 1
    BY <2>1 DEF Taking
  <2>5. cmdCount' = 1 /\ cmdValue' = Sent /\ cmdParity' = OddParity(Sent) /\ cmdAck' = 1
    BY <2>3, <2>4 DEF ShiftOut
  <2>6. cmdInProgress' = TRUE
    <3>1. cmdInProgress' = (cmdCount' # 12)
      BY <2>3 DEF ShiftOut
    <3>2. cmdCount' # 12
      BY <2>5
    <3> QED
      BY <3>1, <3>2, Zenon
  <2>7. Shifting'
    BY <1>3, <1>4, <2>5 DEF Shifting, AllBytes
  <2>8. Holding'
    BY <1>3, <2>1, <2>3, <2>5, <2>6, <2>7 DEF Holding, Taking
  <2> QED
    BY <1>3, <2>1, <2>8 DEF LineOK
<1>8. CASE ReleaseClock
  <2>1. Holding /\ NotHeard /\ kbMode = "idle"
    BY <1>8 DEF Inv, LineOK, HostOff, Taking, Clocking, ReleaseClock
  <2>2. /\ hostClock' = 1 /\ hostData' = 0 /\ UNCHANGED <<cmdInProgress, cmdCount, cmdValue, cmdParity, cmdAck>>
        /\ pc' \in {"ready", "flush", "bit"} /\ (cmd.wait # "none" => pc' = "bit")
    BY <1>8 DEF ReleaseClock, AfterWait, sender
  <2>3. Shifting' = Shifting /\ cmdInProgress' = TRUE
    <3>1. Shifting' = Shifting
      BY <1>3, <1>4, <2>2 DEF Shifting
    <3>2. cmdInProgress' = TRUE
      BY <2>1, <2>2, Zenon DEF Holding
    <3> QED
      BY <3>1, <3>2
  <2>4. FrameBit(Sent', cmdCount' - 1) = 0 /\ cmdCount' = 1
    BY <2>1, <2>2 DEF Holding, FrameBit
  <2>5. kbIn' = << >> /\ kbPos' = 0 /\ kbClock' = 1 /\ Edges' = 0
    BY <1>2, <1>3, <1>4, <2>1 DEF Holding, AtStart, Edges
  <2>6. kbIn' \in Seq({0, 1}) /\ Len(kbIn') = kbPos' /\ \A i \in 1..Len(kbIn') : kbIn'[i] = FrameBit(Sent', i)
    BY <2>5
  <2>7. Clocking'
    BY <1>1, <1>2, <1>3, <2>1, <2>2, <2>3, <2>4, <2>5, <2>6 DEF Clocking, Holding, AtStart
  <2> QED
    BY <1>3, <2>1, <2>7 DEF LineOK
<1> QED
  BY <1>5, <1>6, <1>7, <1>8

(* The waits of the main program, the loop and the events leave the line    *)
(* alone.                                                                   *)
LEMMA OtherLine ==
  ASSUME Inv,
         Transmit(SeeAckBit \/ SeeAckByte) \/ InstallCallback \/ Loop \/ dump_flush \/ UseKeyboard
           \/ UNCHANGED mainVars
  PROVE  LineOK' /\ BytesIntact'
<1> USE DEF Inv
<1>1. CASE SeeAckBit
  <2>1. /\ pc = "bit" /\ cmdAck = 0 /\ pc' \in Off /\ cmdInProgress' = FALSE
        /\ UNCHANGED <<cmd, cmdCount, cmdValue, cmdParity, cmdAck, hostClock, hostData, heard, ackByteOk>>
        /\ UNCHANGED rest
    BY <1>1 DEF SeeAckBit, AfterWait, Off
  <2>2. ~cmdInProgress
    <3>1. HostOff \/ Clocking
      BY <2>1 DEF LineOK, Taking, Holding
    <3>2. CASE HostOff
      BY <3>2 DEF HostOff
    <3>3. CASE Clocking
      <4>1. cmdCount = 12
        BY <2>1, <3>3 DEF Clocking, Shifting
      <4> QED
        BY <3>3, <4>1, Zenon DEF Clocking
    <3> QED
      BY <3>1, <3>2, <3>3
  <2>3. cmdInProgress' = cmdInProgress
    <3>1. cmdInProgress \in BOOLEAN
      BY DEF RangesOK, TypeOK
    <3> QED
      BY <2>1, <2>2, <3>1, Zenon
  <2>4. SameLine
    BY <2>1, <2>3 DEF SameLine, rest, keyboard, receiver
  <2> QED
    BY <2>1, <2>4, PcMoves DEF Off
<1>2. CASE SeeAckByte
  <2>1. pc = "byte" /\ pc' \in Off /\ SameLine
    BY <1>2 DEF SeeAckByte, AfterWait, Off, SameLine, rest, keyboard, receiver, sender
  <2> QED
    BY <2>1, PcMoves DEF Off
<1>3. CASE Loop
  <2>1. pc = "ready" /\ todo = << >> /\ pc' \in {pc, "flush"} /\ SameLine
    BY <1>3 DEF Loop, Idle, lufa_parse, SameLine, ps2, rest, keyboard, receiver, sender
  <2> QED
    BY <2>1, PcMoves DEF Off
<1>4. CASE dump_flush
  <2>1. pc \in {"flush", "reset"} /\ pc' \in Off /\ SameLine
    BY <1>4 DEF dump_flush, PrintByte, EndOfDump, ResetDump, Off, SameLine, ps2, rest, keyboard, receiver, sender
  <2> QED
    BY <2>1, PcMoves DEF Off
<1>5. CASE InstallCallback \/ UNCHANGED mainVars
  <2>1. UNCHANGED <<pc, todo>> /\ ackByteOk' = ackByteOk
    BY <1>5 DEF InstallCallback, D!InstallNext, mainVars, commandVars, host
  <2>2. UNCHANGED <<cmd, cmdInProgress, cmdCount, cmdValue, cmdParity, cmdAck, hostClock, hostData, heard>>
        /\ UNCHANGED <<keyboard, receiver, decoded>>
    BY <1>5 DEF InstallCallback, mainVars, commandVars, host, sender, rest
  <2>3. SameLine
    BY <2>1, <2>2 DEF SameLine, keyboard, receiver
  <2> QED
    BY <2>1, <2>3, PcMoves
<1>6. CASE UseKeyboard
  <2>1. PICK e \in Events : out' = Append(out, e)
    BY <1>6 DEF UseKeyboard
  <2>2. e \in OneEvent
    BY EventsAssumption DEF OneEvent
  <2>3. kbMode = "send" => Head(out') = Head(out)
    BY <2>1, <2>2, Queues DEF QueueOK
  <2>4. UNCHANGED <<pc, todo>> /\ SameLine
    BY <1>6, <2>3 DEF UseKeyboard, SameLine, host, sender, receiver
  <2> QED
    BY <2>4, PcMoves
<1> QED
  BY <1>1, <1>2, <1>3, <1>4, <1>5, <1>6 DEF Transmit

-----------------------------------------------------------------------------
(* The keyboard sends: the receive half takes every edge, and only those.   *)

LEMMA SendEdge ==
  ASSUME Inv, KeyboardStep, FallSend
  PROVE  LineOK' /\ BytesIntact'
<1> DEFINE value == FrameBit(OnTheWire, kbPos)
<1>1. /\ kbMode = "send" /\ ~Preparing /\ kbClock = 1 /\ hostClock = 1 /\ kbClock' = 0 /\ midEvent' = TRUE
      /\ UNCHANGED <<kbMode, kbPos, kbIn, out, heard>> /\ UNCHANGED <<pc, todo, cmd, hostClock>>
      /\ ps2interrupt(value * hostData)
  BY DEF FallSend, Fall, KeyboardStep, host
<1>2. HostOff
  BY <1>1 DEF Inv, LineOK, Taking, Holding, Clocking, Preparing
<1>3. kbPos \in 0..10 /\ OnTheWire \in AllBytes /\ OnTheWire' = OnTheWire
  <2>1. kbPos \in 0..10
    BY DEF Inv, RangesOK, TypeOK, FrameLen
  <2>2. OnTheWire \in AllBytes
    BY BitsAreBytes DEF OnTheWire
  <2>3. OnTheWire' = OnTheWire
    BY <1>1 DEF OnTheWire, Bits
  <2> QED
    BY <2>1, <2>2, <2>3
<1>4. Edges' = kbPos + 1 /\ bitPos = kbPos /\ buffer = {i \in OnTheWire : i + 1 < kbPos}
  BY <1>1, <1>2, <1>3 DEF HostOff, Following, Edges, FrameLen
<1>5. value \in {0, 1} /\ Collect(value)
  <2>1. value \in {0, 1}
    BY <1>3, OneOrZero DEF AllBytes
  <2>2. value * hostData = value
    BY <1>2, <2>1 DEF HostOff
  <2>3. ~cmdInProgress
    BY <1>2 DEF HostOff
  <2> QED
    BY <1>1, <2>1, <2>2, <2>3 DEF ps2interrupt
<1>6. /\ bitPos' = (kbPos + 1) % 11
      /\ buffer' = IF kbPos = 10 THEN {} ELSE Accumulate(value)
  <2>1. kbPos = 0 => value = 0
    BY DEF FrameBit
  <2>2. ShiftIn(value)
    BY <1>4, <1>5, <2>1 DEF Collect, ReceiveEdge, DiscardStart
  <2> QED
    BY <1>4, <2>2 DEF ShiftIn, FrameLen
<1>7. buffer' = {i \in OnTheWire : i + 1 < bitPos'}
  <2>1. CASE kbPos = 10
    <3>1. bitPos' = 0 /\ buffer' = {}
      BY <1>6, <2>1
    <3>2. \A i \in OnTheWire : ~(i + 1 < 0)
      BY <1>3 DEF AllBytes
    <3> QED
      BY <3>1, <3>2, Zenon
  <2>2. CASE kbPos # 10
    <3>1. bitPos' = kbPos + 1 /\ buffer' = Accumulate(value)
      BY <1>3, <1>6, <2>2
    <3>2. kbPos \in 1..8 => (value = 1 <=> kbPos - 1 \in OnTheWire)
      BY DEF FrameBit, Level
    <3>3. buffer' = IF kbPos \in 1..8 /\ kbPos - 1 \in OnTheWire THEN buffer \cup {kbPos - 1} ELSE buffer
      BY <1>4, <3>1, <3>2 DEF Accumulate
    <3>4. \A i \in OnTheWire : i \in 0..7
      BY <1>3 DEF AllBytes
    <3>5. \A i : i \in buffer' <=> i \in OnTheWire /\ i + 1 < kbPos + 1
      BY <1>3, <1>4, <2>2, <3>3, <3>4
    <3> QED
      BY <3>1, <3>5
  <2> QED
    BY <2>1, <2>2
<1>8. decoded' = IF kbPos = 10 THEN <<OnTheWire>> ELSE << >>
  <2>1. ASSUME kbPos = 10 PROVE buffer = OnTheWire
    <3>1. \A i \in OnTheWire : i + 1 < 10
      BY <1>3 DEF AllBytes
    <3>2. buffer = {i \in OnTheWire : i + 1 < 10}
      BY <1>4, <2>1
    <3> QED
      BY <3>1, <3>2, Zenon
  <2>2. decoded' = IF bitPos = 10 THEN <<buffer>> ELSE << >>
    <3>1. Completes <=> bitPos = 10
      BY DEF Completes, FrameLen
    <3>2. decoded' = IF Completes THEN <<buffer>> ELSE << >>
      BY <1>5, Zenon DEF Collect
    <3> QED
      BY <3>1, <3>2
  <2> QED
    BY <1>4, <2>1, <2>2
<1>9. BytesIntact'
  BY <1>1, <1>3, <1>8 DEF BytesIntact, FrameLen
<1>10. HostOff'
  <2>1. hostData' = 1 /\ ~cmdInProgress'
    BY <1>2, <1>5, Zenon DEF HostOff, Collect
  <2>2. Following'
    <3>1. kbMode' = "send" /\ midEvent' /\ bitPos' = Edges' % FrameLen
      BY <1>1, <1>4, <1>6 DEF FrameLen
    <3>2. buffer' = {i \in OnTheWire' : i + 1 < bitPos'}
      BY <1>3, <1>7
    <3> QED
      BY <3>1, <3>2 DEF Following
  <2>3. GoodFrame' = GoodFrame
    BY <1>1 DEF GoodFrame, Sent, Bits
  <2> QED
    BY <1>1, <1>2, <2>1, <2>2, <2>3 DEF HostOff
<1> QED
  BY <1>9, <1>10 DEF LineOK

(* The steps of the keyboard that the interrupt does not see.               *)
Unseen ==
    /\ UNCHANGED <<pc, todo, cmd, hostClock, hostData, ackByteOk, bitPos, buffer>>
    /\ UNCHANGED <<cmdInProgress, cmdCount, cmdValue, cmdParity, cmdAck>>
    /\ decoded' = << >>

LEMMA SendRise ==
  ASSUME Inv, Unseen, RiseSend
  PROVE  LineOK' /\ BytesIntact'
<1>1. kbMode = "send" /\ kbClock = 0 /\ kbClock' = 1 /\ UNCHANGED <<kbIn, heard>>
  BY DEF RiseSend
<1>2. kbPos \in 0..10 /\ Edges = kbPos + 1
  BY <1>1 DEF Inv, RangesOK, TypeOK, FrameLen, Edges
<1>3. HostOff
  BY <1>1, <1>2 DEF Inv, LineOK, Taking, Holding, Clocking, AtStart
<1>4. bitPos = (kbPos + 1) % 11 /\ buffer = {i \in OnTheWire : i + 1 < bitPos} /\ midEvent
  BY <1>1, <1>2, <1>3 DEF HostOff, Following, FrameLen
<1>5. BytesIntact'
  BY <1>1 DEF Unseen, BytesIntact
<1>6. Following'
  <2>1. CASE kbPos = 10
    <3>1. kbMode' = "idle" /\ kbPos' = 0
      BY <2>1 DEF RiseSend, FrameLen
    <3>2. bitPos = 0 /\ buffer = {i \in OnTheWire : i + 1 < 0} /\ OnTheWire \in AllBytes
      BY <1>4, <2>1, BitsAreBytes DEF OnTheWire
    <3>3. \A i \in OnTheWire : ~(i + 1 < 0)
      BY <3>2 DEF AllBytes
    <3>4. buffer = {}
      BY <3>2, <3>3, Zenon
    <3> QED
      BY <1>1, <3>1, <3>2, <3>4 DEF Following, Unseen
  <2>2. CASE kbPos # 10
    <3>1. kbPos' = kbPos + 1 /\ UNCHANGED <<kbMode, out, midEvent>>
      BY <2>2 DEF RiseSend, FrameLen
    <3>2. OnTheWire' = OnTheWire
      BY <3>1 DEF OnTheWire, Bits
    <3>3. Edges' = kbPos + 1
      BY <1>1, <1>2, <3>1 DEF Edges
    <3>4. midEvent'
      BY <1>4, <3>1, Zenon
    <3> QED
      BY <1>1, <1>4, <3>1, <3>2, <3>3, <3>4 DEF Following, Unseen, FrameLen
  <2> QED
    BY <2>1, <2>2
<1>7. HostOff'
  <2>1. GoodFrame' = GoodFrame
    BY DEF GoodFrame, Sent, Bits, Unseen
  <2> QED
    BY <1>1, <1>3, <1>6, <2>1 DEF HostOff, Unseen
<1> QED
  BY <1>5, <1>7 DEF LineOK

(* The keyboard begins to send, or stops because the clock is held.         *)
LEMMA SendTurns ==
  ASSUME Inv, Unseen, StartSend \/ Stop
  PROVE  LineOK' /\ BytesIntact'
<1>1. kbMode' = "idle" \/ kbClock' = 1 => BytesIntact'
  BY DEF Unseen, BytesIntact
<1>2. /\ GoodFrame' = GoodFrame /\ Shifting' = Shifting /\ OddParity(Sent') = OddParity(Sent)
      /\ Sent' = Sent /\ (NotHeard => NotHeard')
  <2>1. Sent' = Sent /\ GoodFrame' = GoodFrame
    BY DEF GoodFrame, Sent, Bits, Unseen
  <2>2. OddParity(Sent') = OddParity(Sent)
    BY <2>1
  <2>3. Shifting' = Shifting
    BY <2>1, <2>2 DEF Shifting, Unseen
  <2>4. NotHeard => NotHeard'
    BY Zenon DEF NotHeard, Unseen, StartSend, Stop
  <2> QED
    BY <2>1, <2>2, <2>3, <2>4
<1>3. kbPos \in 0..10 /\ kbClock \in {0, 1}
  BY DEF Inv, RangesOK, TypeOK, FrameLen
<1>4. CASE StartSend
  <2>1. /\ kbMode = "idle" /\ hostClock = 1 /\ hostData = 1 /\ kbMode' = "send"
        /\ UNCHANGED <<kbClock, kbPos, kbIn, heard>>
    BY <1>4 DEF StartSend
  <2>2. CASE HostOff
    <3>1. kbClock = 1 /\ kbPos = 0 /\ bitPos = 0 /\ buffer = {}
      BY <2>1, <2>2 DEF HostOff, Following
    <3>2. Edges' = 0
      BY <2>1, <3>1 DEF Edges
    <3>3. buffer' = {i \in OnTheWire' : i + 1 < 0}
      <4>1. \A i \in OnTheWire' : ~(i + 1 < 0)
        BY DEF OnTheWire, Bits
      <4> QED
        BY <3>1, <4>1, Zenon DEF Unseen
    <3>4. Following'
      BY <2>1, <3>1, <3>2, <3>3 DEF Following, Unseen, FrameLen
    <3>5. HostOff'
      BY <1>2, <2>1, <2>2, <3>4 DEF HostOff, Unseen
    <3> QED
      BY <1>1, <2>1, <3>1, <3>5 DEF LineOK
  <2>3. CASE Taking /\ NotHeard
    <3>1. Taking'
      BY <1>2, <2>1, <2>3 DEF Taking, AtStart, Edges, Unseen
    <3>2. kbClock = 1
      BY <1>3, <2>3 DEF Taking, AtStart, Edges
    <3> QED
      BY <1>1, <1>2, <2>1, <2>3, <3>1, <3>2 DEF LineOK
  <2>4. ~Holding
    BY <2>1 DEF Holding
  <2>5. ~Clocking
    <3>1. SUFFICES ASSUME Clocking PROVE FALSE
      OBVIOUS
    <3>2. Edges = 0 /\ cmdCount = 1 + Edges /\ hostData = FrameBit(Sent, cmdCount - 1)
      BY <2>1, <3>1 DEF Clocking, Edges
    <3>3. hostData = 0
      BY <3>2 DEF FrameBit
    <3> QED
      BY <2>1, <3>3
  <2> QED
    BY <2>2, <2>3, <2>4, <2>5 DEF Inv, LineOK
<1>5. CASE Stop
  <2>1. /\ hostClock = 0 /\ kbClock = 1 /\ kbMode' = "idle" /\ kbPos' = 0 /\ kbIn' = << >>
        /\ UNCHANGED <<kbClock, heard>>
    BY <1>5 DEF Stop
  <2>2. Holding /\ NotHeard
    BY <2>1 DEF Inv, LineOK, HostOff, Taking, Clocking
  <2>3. Holding'
    BY <1>2, <2>1, <2>2 DEF Holding, AtStart, Edges, Unseen
  <2> QED
    BY <1>1, <1>2, <2>1, <2>2, <2>3 DEF LineOK
<1> QED
  BY <1>4, <1>5

-----------------------------------------------------------------------------
(* The keyboard clocks a command in: the send half takes every edge, shifts *)
(* the next bit out at each, and the keyboard samples them in order.        *)

(* What a step of Clocking that stays in it has to show.                    *)
LEMMA StillClocking ==
  ASSUME Inv, Clocking, NotHeard,
         UNCHANGED <<pc, todo, cmd, hostClock, heard, ackByteOk, bitPos, buffer>>,
         cmdCount <= cmdCount', kbMode' = "receive", decoded' = << >>,
         cmdCount' = 1 + Edges', cmdInProgress' <=> cmdCount' # 12,
         hostData' = FrameBit(Sent, cmdCount' - 1), Shifting',
         kbIn' \in Seq({0, 1}), Len(kbIn') = kbPos',
         \A i \in 1..Len(kbIn') : kbIn'[i] = FrameBit(Sent, i)
  PROVE  LineOK' /\ BytesIntact'
<1>1. Sent' = Sent
  BY DEF Sent, Bits
<1>2. \A i : FrameBit(Sent', i) = FrameBit(Sent, i)
  BY <1>1
<1>3. FrameBit(Sent, cmdCount - 1)' = FrameBit(Sent, cmdCount' - 1)
  BY <1>1 DEF FrameBit, OddParity, Level
<1>4. cmd'.wait # "none" /\ cmdCount' < 12 => pc' = "bit"
  <2>1. cmdCount \in 0..12 /\ cmdCount' \in Int
    BY DEF Inv, RangesOK, TypeOK, Clocking, Edges, KeyboardOK, FrameLen
  <2> QED
    BY <2>1 DEF Clocking
<1>5. Clocking'
  BY <1>2, <1>3, <1>4 DEF Clocking
<1>6. NotHeard'
  BY Zenon DEF NotHeard
<1>7. BytesIntact'
  BY DEF BytesIntact
<1> QED
  BY <1>5, <1>6, <1>7 DEF LineOK

LEMMA ReceiveEdgeLine ==
  ASSUME Inv, KeyboardStep, FallReceive
  PROVE  LineOK' /\ BytesIntact'
<1> DEFINE value == Level(kbPos # FrameLen - 1) * hostData
<1>1. /\ kbMode = "receive" /\ kbClock = 1 /\ hostClock = 1 /\ kbClock' = 0
      /\ UNCHANGED <<kbMode, kbPos, kbIn, out, heard>> /\ UNCHANGED <<pc, todo, cmd, hostClock>>
      /\ ps2interrupt(value)
  BY DEF FallReceive, Fall, KeyboardStep, host
<1>2. Clocking /\ NotHeard
  BY <1>1 DEF Inv, LineOK, HostOff, Following, Taking, Holding, AtStart
<1>3. kbPos \in 0..10 /\ cmdCount = kbPos + 1 /\ cmdValue \in AllBytes /\ hostData \in {0, 1}
  BY <1>1, <1>2 DEF Inv, RangesOK, TypeOK, FrameLen, Clocking, Edges
<1>4. cmdInProgress
  <2>1. cmdCount # 12
    BY <1>3
  <2> QED
    BY <1>2, <2>1, Zenon DEF Clocking
<1>5. ShiftOut(value) /\ decoded' = << >> /\ UNCHANGED <<bitPos, buffer, ackByteOk>>
  BY <1>1, <1>4, Zenon DEF ps2interrupt, receiver
<1>6. cmdCount' = kbPos + 2 /\ Edges' = kbPos + 1
  BY <1>1, <1>3, <1>5 DEF ShiftOut, Edges
<1>7. Sent \in AllBytes /\ Sent' = Sent
  <2>1. Sent' = Sent
    BY <1>1 DEF Sent, Bits
  <2> QED
    BY <2>1, BitsAreBytes DEF Sent
<1>8. /\ cmdParity = OddParity(Sent)
      /\ cmdCount \in 1..9 => \A i \in 0..7 : i \in cmdValue <=> i + kbPos \in Sent
      /\ cmdAck = 1
  BY <1>2, <1>3 DEF Clocking, Shifting
<1>9. hostData' = FrameBit(Sent, kbPos + 1)
  <2>1. CASE kbPos \in 0..7
    <3>1. hostData' = Level(0 \in cmdValue)
      BY <1>5, <1>6, <2>1 DEF ShiftOut
    <3>2. 0 \in cmdValue <=> kbPos \in Sent
      BY <1>3, <1>8, <2>1
    <3>3. FrameBit(Sent, kbPos + 1) = Level(kbPos \in Sent)
      BY <2>1 DEF FrameBit
    <3> QED
      BY <3>1, <3>2, <3>3 DEF Level
  <2>2. CASE kbPos = 8
    BY <1>5, <1>6, <1>8, <2>2 DEF ShiftOut, FrameBit
  <2>3. CASE kbPos = 9
    BY <1>5, <1>6, <2>3 DEF ShiftOut, FrameBit
  <2>4. CASE kbPos = 10
    <3>1. hostData = FrameBit(Sent, 10)
      BY <1>2, <1>3, <2>4 DEF Clocking
    <3>2. hostData' = hostData
      BY <1>5, <1>6, <2>4 DEF ShiftOut
    <3> QED
      BY <2>4, <3>1, <3>2 DEF FrameBit
  <2> QED
    BY <1>3, <2>1, <2>2, <2>3, <2>4
<1>10. cmdInProgress' <=> cmdCount' # 12
  BY <1>5, Zenon DEF ShiftOut
<1>11. Shifting'
  <2>1. cmdParity' = OddParity(Sent')
    BY <1>5, <1>7, <1>8 DEF ShiftOut
  <2>2. ASSUME cmdCount' \in 1..9, NEW i \in 0..7
        PROVE  i \in cmdValue' <=> i + cmdCount' - 1 \in Sent'
    <3>1. cmdValue' = {j - 1 : j \in cmdValue \ {0}}
      BY <1>3, <1>5, <1>6, <2>2 DEF ShiftOut
    <3>2. i \in cmdValue' <=> i + 1 \in cmdValue
      BY <1>3, <3>1 DEF AllBytes
    <3>3. CASE i \in 0..6
      <4>1. i + 1 \in cmdValue <=> i + 1 + kbPos \in Sent
        BY <1>3, <1>6, <1>8, <2>2, <3>3
      <4>2. i + cmdCount' - 1 = i + 1 + kbPos
        BY <1>3, <1>6
      <4> QED
        BY <1>7, <3>2, <4>1, <4>2
    <3>4. CASE i = 7
      <4>1. i + 1 \notin cmdValue
        BY <1>3, <3>4 DEF AllBytes
      <4>2. i + cmdCount' - 1 \notin Sent
        BY <1>3, <1>6, <1>7, <3>4 DEF AllBytes
      <4> QED
        BY <1>7, <3>2, <4>1, <4>2
    <3> QED
      BY <3>3, <3>4
  <2>3. cmdAck' = IF cmdCount' = 12 THEN 0 ELSE 1
    <3>1. kbPos = 10 => value = 0
      BY <1>3 DEF Level, FrameLen
    <3> QED
      BY <1>3, <1>5, <1>6, <1>8, <3>1 DEF ShiftOut
  <2> QED
    BY <2>1, <2>2, <2>3 DEF Shifting
<1>12. kbIn' \in Seq({0, 1}) /\ Len(kbIn') = kbPos' /\ \A i \in 1..Len(kbIn') : kbIn'[i] = FrameBit(Sent, i)
  BY <1>1, <1>2 DEF Clocking
<1>13. cmdCount <= cmdCount' /\ cmdCount' = 1 + Edges' /\ hostData' = FrameBit(Sent, cmdCount' - 1)
  BY <1>3, <1>6, <1>9
<1> HIDE DEF value
<1> QED
  BY <1>1, <1>2, <1>5, <1>10, <1>11, <1>12, <1>13, StillClocking

LEMMA BeginReceiving ==
  ASSUME Inv, Unseen, StartReceive
  PROVE  LineOK' /\ BytesIntact'
<1>1. /\ kbMode = "idle" /\ hostClock = 1 /\ hostData = 0 /\ kbMode' = "receive"
      /\ UNCHANGED <<kbClock, kbPos, kbIn, heard>>
  BY DEF StartReceive
<1>2. Clocking /\ NotHeard
  BY <1>1 DEF Inv, LineOK, HostOff, Taking, Holding
<1>3. Edges' = Edges /\ Sent' = Sent
  BY <1>1 DEF Edges, Sent, Bits, Unseen
<1>4. Shifting' /\ cmdCount <= cmdCount' /\ cmdCount' = 1 + Edges' /\ hostData' = FrameBit(Sent, cmdCount' - 1)
  <2>1. OddParity(Sent') = OddParity(Sent)
    BY <1>3
  <2>2. Shifting'
    BY <1>2, <1>3, <2>1 DEF Clocking, Shifting, Unseen
  <2>3. cmdCount \in Int
    BY DEF Inv, RangesOK, TypeOK
  <2> QED
    BY <1>2, <1>3, <2>2, <2>3 DEF Clocking, Unseen
<1>5. cmdInProgress' <=> cmdCount' # 12
  BY <1>2, Zenon DEF Clocking, Unseen
<1>6. kbIn' \in Seq({0, 1}) /\ Len(kbIn') = kbPos' /\ \A i \in 1..Len(kbIn') : kbIn'[i] = FrameBit(Sent, i)
  BY <1>1, <1>2 DEF Clocking
<1>7. UNCHANGED <<pc, todo, cmd, hostClock, heard, ackByteOk, bitPos, buffer>> /\ decoded' = << >>
  BY <1>1 DEF Unseen
<1> QED
  BY <1>1, <1>2, <1>4, <1>5, <1>6, <1>7, StillClocking

(* The last edge: the keyboard has the command, in a good frame.            *)
LEMMA Received ==
  ASSUME Inv, RiseReceive, kbPos = 10
  PROVE  /\ kbMode' = "idle" /\ kbPos' = 0 /\ kbIn' = << >>
         /\ heard' = GoodFrame
         /\ kbLights' = IF kbOption THEN Sent ELSE kbLights
         /\ kbOption' = (~kbOption /\ Sent = Bits(\hED))
         /\ hostData = 1 /\ ~cmdInProgress
<1>1. kbMode = "receive" /\ kbClock = 0
  BY DEF RiseReceive
<1>2. Clocking
  BY <1>1 DEF Inv, LineOK, HostOff, Following, Taking, Holding, AtStart
<1>3. cmdCount = 12
  BY <1>1, <1>2 DEF Clocking, Edges
<1>4. Sent \in AllBytes
  BY BitsAreBytes DEF Sent
<1>5. kbIn \in Seq({0, 1}) /\ Len(kbIn) = 10 /\ \A i \in 1..Len(kbIn) : kbIn[i] = FrameBit(Sent, i)
  BY <1>2 DEF Clocking
<1> DEFINE val  == {i \in 0..7 : kbIn[i + 1] = 1}
           good == kbIn[9] = OddParity(val) /\ kbIn[10] = 1
<1>6. /\ kbMode' = "idle" /\ kbPos' = 0 /\ kbIn' = << >>
      /\ heard' = <<[val |-> val, good |-> good]>>
      /\ kbLights' = IF good /\ kbOption THEN val ELSE kbLights
      /\ kbOption' = (good /\ ~kbOption /\ val = Bits(\hED))
  <2>1. ~(kbPos < FrameLen - 1)
    BY DEF FrameLen
  <2> QED
    BY <2>1, Zenon DEF RiseReceive
<1>7. val = Sent
  <2>1. \A i \in 0..7 : kbIn[i + 1] = 1 <=> i \in Sent
    BY <1>5 DEF FrameBit, Level
  <2> QED
    BY <1>4, <2>1 DEF AllBytes
<1>8. good = TRUE
  <2>1. kbIn[9] = OddParity(Sent) /\ kbIn[10] = 1
    BY <1>5 DEF FrameBit
  <2> QED
    BY <1>7, <2>1, Zenon
<1> HIDE DEF val, good
<1>9. heard' = GoodFrame
  BY <1>6, <1>7, <1>8 DEF GoodFrame
<1>10. kbLights' = IF kbOption THEN Sent ELSE kbLights
  BY <1>6, <1>7, <1>8, Zenon
<1>11. kbOption' = (~kbOption /\ Sent = Bits(\hED))
  <2>1. (good /\ ~kbOption /\ val = Bits(\hED)) = (~kbOption /\ Sent = Bits(\hED))
    BY <1>7, <1>8, Zenon
  <2> QED
    BY <1>6, <2>1, Zenon
<1>12. hostData = 1 /\ ~cmdInProgress
  <2>1. hostData = FrameBit(Sent, 11)
    BY <1>2, <1>3 DEF Clocking
  <2>2. hostData = 1
    BY <2>1 DEF FrameBit
  <2> QED
    BY <1>2, <1>3, <2>2, Zenon DEF Clocking
<1> QED
  BY <1>6, <1>9, <1>10, <1>11, <1>12, Zenon

LEMMA ReceiveRise ==
  ASSUME Inv, Unseen, RiseReceive
  PROVE  LineOK' /\ BytesIntact'
<1>1. kbMode = "receive" /\ kbClock = 0 /\ kbClock' = 1
  BY DEF RiseReceive
<1>2. Clocking /\ NotHeard
  BY <1>1 DEF Inv, LineOK, HostOff, Following, Taking, Holding, AtStart
<1>3. kbPos \in 0..10 /\ Edges = kbPos + 1 /\ cmdCount = kbPos + 2 /\ hostData \in {0, 1}
  BY <1>1, <1>2 DEF Inv, RangesOK, TypeOK, FrameLen, Clocking, Edges
<1>4. Sent \in AllBytes /\ Sent' = Sent
  <2>1. Sent' = Sent
    BY DEF Sent, Bits, Unseen
  <2> QED
    BY <2>1, BitsAreBytes DEF Sent
<1>5. /\ kbIn \in Seq({0, 1}) /\ Len(kbIn) = kbPos
      /\ \A i \in 1..Len(kbIn) : kbIn[i] = FrameBit(Sent, i)
  BY <1>2 DEF Clocking
<1>6. CASE kbPos < 10
  <2>1. kbIn' = Append(kbIn, hostData) /\ kbPos' = kbPos + 1 /\ kbMode' = kbMode /\ heard' = heard
    <3>1. kbPos < FrameLen - 1 /\ kbPos # FrameLen - 1
      BY <1>3, <1>6 DEF FrameLen
    <3> QED
      BY <3>1 DEF RiseReceive
  <2>2. Edges' = Edges
    BY <1>1, <1>3, <2>1 DEF Edges
  <2>3. hostData = FrameBit(Sent, kbPos + 1)
    BY <1>2, <1>3 DEF Clocking
  <2>4. kbIn' \in Seq({0, 1}) /\ Len(kbIn') = kbPos' /\ \A i \in 1..Len(kbIn') : kbIn'[i] = FrameBit(Sent, i)
    <3>1. /\ kbIn' \in Seq({0, 1}) /\ Len(kbIn') = Len(kbIn) + 1 /\ kbIn'[Len(kbIn) + 1] = hostData
          /\ \A i \in 1..Len(kbIn) : kbIn'[i] = kbIn[i]
      BY <1>3, <1>5, <2>1
    <3> QED
      BY <1>3, <1>5, <2>1, <2>3, <3>1
  <2>5. Shifting' /\ cmdCount <= cmdCount' /\ cmdCount' = 1 + Edges' /\ hostData' = FrameBit(Sent, cmdCount' - 1)
    <3>1. OddParity(Sent') = OddParity(Sent)
      BY <1>4
    <3>2. Shifting'
      BY <1>2, <1>4, <3>1 DEF Clocking, Shifting, Unseen
    <3> QED
      BY <1>2, <1>3, <2>2, <3>2 DEF Clocking, Unseen
  <2>6. cmdInProgress' <=> cmdCount' # 12
    BY <1>2, Zenon DEF Clocking, Unseen
  <2>7. UNCHANGED <<pc, todo, cmd, hostClock, heard, ackByteOk, bitPos, buffer>> /\ decoded' = << >>
    BY <2>1 DEF Unseen
  <2> QED
    BY <1>1, <1>2, <2>1, <2>4, <2>5, <2>6, <2>7, StillClocking
<1>7. CASE kbPos = 10
  <2>1. kbMode' = "idle" /\ kbPos' = 0 /\ kbIn' = << >> /\ heard' = GoodFrame /\ hostData = 1
    BY <1>7, Received
  <2>2. ~cmdInProgress'
    <3>1. ~cmdInProgress
      BY <1>7, Received
    <3> QED
      BY <3>1, Zenon DEF Unseen
  <2>3. GoodFrame' = GoodFrame
    BY <1>4 DEF GoodFrame
  <2>4. Following'
    BY <1>1, <1>2, <2>1 DEF Following, Clocking, Unseen
  <2>5. HostOff'
    BY <1>2, <2>1, <2>2, <2>3, <2>4 DEF HostOff, Clocking, Unseen
  <2>6. BytesIntact'
    BY <2>1 DEF BytesIntact, Unseen
  <2> QED
    BY <2>5, <2>6 DEF LineOK
<1> QED
  BY <1>3, <1>6, <1>7

-----------------------------------------------------------------------------
(* The invariant of the line, and what follows from it.                     *)

LEMMA KeyboardLine ==
  ASSUME Inv, KeyboardStep
  PROVE  LineOK' /\ BytesIntact'
<1>1. CASE FallSend
  BY <1>1, SendEdge
<1>2. CASE FallReceive
  BY <1>2, ReceiveEdgeLine
<1>3. CASE ~FallSend /\ ~FallReceive
  <2>1. /\ StartSend \/ StartReceive \/ Stop \/ RiseSend \/ RiseReceive
        /\ Unseen
    BY <1>3, Zenon DEF KeyboardStep, Unseen, host, sender, receiver
  <2> QED
    BY <2>1, SendTurns, BeginReceiving, SendRise, ReceiveRise
<1> QED
  BY <1>1, <1>2, <1>3

LEMMA StepInv ==
  ASSUME Overlap = FALSE
  PROVE  Inv /\ [Next]_mainVars => Inv'
<1> SUFFICES ASSUME Inv, [Next]_mainVars PROVE Inv'
  OBVIOUS
<1>1. RangesOK' /\ QueueOK'
  BY StepRanges, StepQueue DEF Inv
<1>2. LineOK' /\ BytesIntact'
  <2>1. CASE Transmit(SendStep)
    <3>1. SendStep
      BY <2>1 DEF Transmit
    <3>2. CASE BeginCommand
      BY <3>2, BeginLine
    <3>3. CASE RaiseFlag \/ LoadCommand \/ PullClock \/ ReleaseClock
      BY <3>3, TakeLine
    <3>4. CASE SeeAckBit \/ SeeAckByte
      <4>1. Transmit(SeeAckBit \/ SeeAckByte)
        BY <2>1, <3>4, Zenon DEF Transmit
      <4> QED
        BY <4>1, OtherLine
    <3> QED
      BY <3>1, <3>2, <3>3, <3>4 DEF SendStep
  <2>2. CASE Transmit(KeyboardStep)
    BY <2>2, KeyboardLine DEF Transmit
  <2>3. CASE InstallCallback \/ Loop \/ dump_flush \/ UseKeyboard \/ UNCHANGED mainVars
    BY <2>3, OtherLine
  <2> QED
    BY <2>1, <2>2, <2>3 DEF Next, MainStep
<1> QED
  BY <1>1, <1>2 DEF Inv

LEMMA InitInv == Init => Inv
<1> SUFFICES ASSUME Init PROVE Inv
  OBVIOUS
<1>1. RangesOK
  BY InitRanges
<1>2. QueueOK
  BY DEF QueueOK, Init, CommandInit
<1>3. BytesIntact
  BY DEF BytesIntact, Init, CommandInit
<1>4. HostOff
  <2>1. todo # << >>
    BY DEF Init, Reset, Bios, Resume
  <2>2. Following
    BY DEF Following, Init, CommandInit
  <2> QED
    BY <2>1, <2>2 DEF HostOff, Init, CommandInit
<1> QED
  BY <1>1, <1>2, <1>3, <1>4 DEF Inv, LineOK

(* What the keyboard clocks in is the command kbd_send_command() was given, *)
(* in a good frame, whatever the user does meanwhile, as long as a command  *)
(* begins between two events.                                               *)
THEOREM CommandsArrive ==
  ASSUME Overlap = FALSE
  PROVE  Spec => []CommandIntact
<1>1. Inv => CommandIntact
  <2> SUFFICES ASSUME Inv, heard # << >> PROVE heard = <<[val |-> Bits(cmd.val), good |-> TRUE]>>
    BY DEF CommandIntact
  <2>1. HostOff
    BY DEF Inv, LineOK, NotHeard
  <2> QED
    BY <2>1 DEF HostOff, GoodFrame, Sent
<1> QED
  BY <1>1, InitInv, StepInv, PTL DEF Spec

(* The two halves of ps2interrupt() never take each other's edges, so that  *)
(* every byte the keyboard sends is completed, at its last edge, and no     *)
(* other byte is.                                                           *)
THEOREM HalvesKeepApart ==
  ASSUME Overlap = FALSE
  PROVE  Spec => []BytesIntact
<1>1. Inv => BytesIntact
  BY DEF Inv
<1> QED
  BY <1>1, InitInv, StepInv, PTL DEF Spec

(* The main program waits for the acknowledge byte only where the command   *)
(* asks for it.                                                             *)
Waits == pc = "byte" => cmd.wait = "byte"

LEMMA StepWaits == Waits /\ [Next]_mainVars => Waits'
<1> SUFFICES ASSUME Waits, [Next]_mainVars, pc' = "byte" PROVE cmd'.wait = "byte"
  BY DEF Waits
<1>1. CASE Transmit(SendStep)
  BY <1>1 DEF Waits, Transmit, SendStep, BeginCommand, RaiseFlag, LoadCommand, PullClock, ReleaseClock,
              SeeAckBit, SeeAckByte, AfterWait
<1>2. CASE UNCHANGED <<pc, cmd>>
  BY <1>2 DEF Waits
<1>3. CASE Transmit(KeyboardStep) \/ InstallCallback \/ UseKeyboard \/ UNCHANGED mainVars
  <2>1. UNCHANGED <<pc, cmd>>
    BY <1>3 DEF Transmit, KeyboardStep, InstallCallback, UseKeyboard, mainVars, commandVars, host
  <2> QED
    BY <1>2, <2>1
<1>4. CASE Loop
  BY <1>4 DEF Loop, lufa_parse, Idle
<1>5. CASE dump_flush
  BY <1>5 DEF dump_flush, PrintByte, EndOfDump, ResetDump
<1> QED
  BY <1>1, <1>3, <1>4, <1>5 DEF Next, MainStep

(* kbd_send_command() goes on because of the answer to the very command it  *)
(* sent, and sees the acknowledge bit at the last edge of its frame and not *)
(* before.                                                                  *)
THEOREM NoForeignAck ==
  ASSUME Overlap = FALSE
  PROVE  Spec => []AckIsForThisCommand
<1>1. Init => Inv /\ Waits
  BY InitInv DEF Waits, Init
<1>2. Inv /\ Waits /\ [Next]_mainVars => (Inv /\ Waits)'
  BY StepInv, StepWaits
<1>3. Inv /\ Waits => AckIsForThisCommand
  <2> SUFFICES ASSUME Inv, Waits PROVE AckIsForThisCommand
    OBVIOUS
  <2>1. ASSUME pc = "byte", ackByteOk PROVE heard = <<[val |-> Bits(cmd.val), good |-> TRUE]>>
    <3>1. ~NotHeard
      BY <2>1 DEF Waits, NotHeard
    <3>2. HostOff
      BY <3>1 DEF Inv, LineOK
    <3> QED
      BY <2>1, <3>2 DEF HostOff, GoodFrame, Sent
  <2>2. ASSUME pc = "bit", cmdAck = 0, heard = << >> PROVE kbMode = "receive" /\ kbPos = FrameLen - 1
    <3>1. Clocking
      BY <2>2 DEF Inv, LineOK, HostOff, Taking, Holding, GoodFrame
    <3>2. cmdCount = 12
      BY <2>2, <3>1 DEF Clocking, Shifting
    <3>3. kbPos \in 0..10 /\ kbClock \in {0, 1}
      BY DEF Inv, RangesOK, TypeOK, FrameLen
    <3>4. Edges = 11
      BY <3>1, <3>2, <3>3 DEF Clocking, Edges
    <3>5. kbPos = 10 /\ kbClock = 0
      BY <3>3, <3>4 DEF Edges
    <3> QED
      BY <3>1, <3>5 DEF Clocking, FrameLen
  <2> QED
    BY <2>1, <2>2 DEF AckIsForThisCommand
<1> QED
  BY <1>1, <1>2, <1>3, PTL DEF Spec

-----------------------------------------------------------------------------
(* The lights.                                                              *)

(* A command is on its way, and what the keyboard will be once it has it.   *)
Underway  == pc \in {"raise", "load", "pull", "release"} \/ kbMode = "receive" \/ hostData = 0
Option    == IF Underway THEN ~kbOption /\ Sent = Bits(\hED) ELSE kbOption
NewLights == IF Underway /\ kbOption THEN Sent ELSE kbLights

Commands == [val: 0..255, wait: {"none", "bit", "byte"}, flush: BOOLEAN]
Startup  == Reset \o Bios \o Resume
Goal     == usbLedsToPs2(hostLeds)

(* What is still to be sent brings the keyboard to the goal: nothing, the   *)
(* two bytes of kbd_set_lights() or the second, or the end of the start-up  *)
(* sequence, which sets the lights by its third and fourth byte.            *)
InStartup ==
    /\ todo \in Seq(Commands) /\ Len(todo) \in 1..8 /\ hostLeds = 0
    /\ \A i \in 1..Len(todo) : todo[i] = Startup[8 - Len(todo) + i]
    /\ Option <=> Len(todo) = 5
    /\ Len(todo) < 5 => NewLights = Bits(0)

LightsOK ==
    /\ kbOption \in BOOLEAN
    /\ \/ todo = << >> /\ ~Option /\ NewLights = Bits(Goal)
       \/ todo = kbd_set_lights(Goal) /\ ~Option
       \/ todo = Tail(kbd_set_lights(Goal)) /\ Option
       \/ InStartup

LEMMA Joined ==
  ASSUME NEW s \in Seq(Commands), NEW t \in Seq(Commands), NEW u, u = s \o t
  PROVE  /\ u \in Seq(Commands) /\ Len(u) = Len(s) + Len(t)
         /\ \A i \in 1..Len(s) : u[i] = s[i]
         /\ \A i \in Len(s) + 1..Len(s) + Len(t) : u[i] = t[i - Len(s)]
<1>1. u \in Seq(Commands) /\ Len(u) = Len(s) + Len(t) /\ Len(s) \in Nat /\ Len(t) \in Nat
  BY ConcatProperties
<1>2. \A i \in 1..Len(s) + Len(t) : u[i] = IF i <= Len(s) THEN s[i] ELSE t[i - Len(s)]
  BY ConcatProperties
<1> QED
  BY <1>1, <1>2

LEMMA StartupList ==
  /\ Startup \in Seq(Commands) /\ Len(Startup) = 8
  /\ Startup[1].val = \hFF /\ Startup[2].val = \hF2 /\ Startup[3].val = \hED /\ Startup[4].val = 0
  /\ Startup[5].val = \hE8 /\ Startup[6].val = \hE8 /\ Startup[7].val = \hE4 /\ Startup[8].val = \h15
<1>1. Reset \in Seq(Commands) /\ Len(Reset) = 1 /\ Reset[1].val = \hFF
  BY DEF Reset, Commands, Command
<1>2. /\ Bios \in Seq(Commands) /\ Len(Bios) = 3
      /\ Bios[1].val = \hF2 /\ Bios[2].val = \hED /\ Bios[3].val = 0
  BY DEF Bios, Commands, Command
<1>3. /\ Resume \in Seq(Commands) /\ Len(Resume) = 4
      /\ Resume[1].val = \hE8 /\ Resume[2].val = \hE8 /\ Resume[3].val = \hE4 /\ Resume[4].val = \h15
  BY DEF Resume, Commands, Command
<1> DEFINE first == Reset \o Bios
<1>0. first = Reset \o Bios
  OBVIOUS
<1>5. Startup = first \o Resume
  BY DEF Startup
<1> HIDE DEF first
<1>4. /\ first \in Seq(Commands) /\ Len(first) = 4 /\ first[1] = Reset[1]
      /\ \A i \in 2..4 : first[i] = Bios[i - 1]
  <2>0. Reset \in Seq(Commands) /\ Bios \in Seq(Commands)
    BY <1>1, <1>2
  <2>1. first \in Seq(Commands) /\ Len(first) = Len(Reset) + Len(Bios)
    BY <1>0, <2>0, Joined
  <2>2. \A i \in 1..Len(Reset) : first[i] = Reset[i]
    BY <1>0, <2>0, Joined, Zenon
  <2>3. \A i \in Len(Reset) + 1..Len(Reset) + Len(Bios) : first[i] = Bios[i - Len(Reset)]
    BY <1>0, <2>0, Joined, Zenon
  <2> QED
    BY <1>1, <1>2, <2>1, <2>2, <2>3
<1>6. /\ Startup \in Seq(Commands) /\ Len(Startup) = 8 /\ \A i \in 1..4 : Startup[i] = first[i]
      /\ \A i \in 5..8 : Startup[i] = Resume[i - 4]
  <2>0. first \in Seq(Commands) /\ Resume \in Seq(Commands)
    BY <1>3, <1>4
  <2>1. Startup \in Seq(Commands) /\ Len(Startup) = Len(first) + Len(Resume)
    BY <1>5, <2>0, Joined
  <2>2. \A i \in 1..Len(first) : Startup[i] = first[i]
    BY <1>5, <2>0, Joined, Zenon
  <2>3. \A i \in Len(first) + 1..Len(first) + Len(Resume) : Startup[i] = Resume[i - Len(first)]
    BY <1>5, <2>0, Joined, Zenon
  <2> QED
    BY <1>3, <1>4, <2>1, <2>2, <2>3
<1>7. /\ first[2] = Bios[1] /\ first[3] = Bios[2] /\ first[4] = Bios[3]
      /\ Startup[5] = Resume[1] /\ Startup[6] = Resume[2] /\ Startup[7] = Resume[3] /\ Startup[8] = Resume[4]
  BY <1>4, <1>6
<1> QED
  BY <1>1, <1>2, <1>3, <1>4, <1>6, <1>7

(* Of the start-up sequence only ED announces an argument.                  *)
LEMMA OnlyEDAnnounces ==
  Bits(\hED) \notin {Bits(\hFF), Bits(\hF2), Bits(\hE8), Bits(\hE4), Bits(\h15)}
<1>1. 0 \in Bits(\hED) /\ 1 \notin Bits(\hED) /\ 3 \in Bits(\hED)
  BY DEF Bits
<1>2. 1 \in Bits(\hFF) /\ 1 \in Bits(\hF2) /\ 0 \notin Bits(\hE8) /\ 0 \notin Bits(\hE4) /\ 3 \notin Bits(\h15)
  BY DEF Bits
<1>3. Bits(\hED) # Bits(\hFF) /\ Bits(\hED) # Bits(\hF2)
  BY <1>1, <1>2
<1>4. Bits(\hED) # Bits(\hE8) /\ Bits(\hED) # Bits(\hE4)
  BY <1>1, <1>2
<1>5. Bits(\hED) # Bits(\h15)
  BY <1>1, <1>2
<1> QED
  BY <1>3, <1>4, <1>5

(* The end of a sequence: what is left after its first command.             *)
LEMMA LightsKept ==
  ASSUME LightsOK, UNCHANGED <<todo, hostLeds>>, kbOption' \in BOOLEAN,
         Option' <=> Option, NewLights' = NewLights
  PROVE  LightsOK'
<1>1. /\ Goal' = Goal /\ Bits(Goal') = Bits(Goal) /\ Bits(0)' = Bits(0)
      /\ kbd_set_lights(Goal') = kbd_set_lights(Goal) /\ Startup' = Startup
  BY DEF Goal, usbLedsToPs2, Bits, kbd_set_lights, Command, Startup, Reset, Bios, Resume
<1>2. InStartup => InStartup'
  BY <1>1 DEF InStartup
<1> QED
  BY <1>1, <1>2 DEF LightsOK

(* A command leaves the sequence and is on its way.                         *)
LEMMA BeginLights ==
  ASSUME Inv, LightsOK, Transmit(BeginCommand)
  PROVE  LightsOK'
<1>1. /\ pc = "ready" /\ todo # << >> /\ kbMode # "receive" /\ hostData = 1 /\ pc' = "raise"
      /\ cmd' = Head(todo) /\ todo' = Tail(todo) /\ UNCHANGED rest /\ hostLeds' = hostLeds
  BY DEF Transmit, BeginCommand, CommandTaken
<1>2. (Option <=> kbOption) /\ NewLights = kbLights
  BY <1>1 DEF Option, NewLights, Underway
<1>3. /\ Option' <=> ~kbOption /\ Bits(Head(todo).val) = Bits(\hED)
      /\ NewLights' = IF kbOption THEN Bits(Head(todo).val) ELSE kbLights
      /\ kbOption' \in BOOLEAN
  <2>1. Underway' /\ (kbOption' <=> kbOption) /\ kbLights' = kbLights
    BY <1>1 DEF Underway, rest, keyboard
  <2>2. Sent' = Bits(Head(todo).val) /\ Bits(\hED)' = Bits(\hED)
    BY <1>1 DEF Sent, Bits
  <2>3. kbOption' \in BOOLEAN
    BY <1>1 DEF LightsOK, rest, keyboard
  <2> QED
    BY <2>1, <2>2, <2>3 DEF Option, NewLights
<1>4. /\ Goal' = Goal /\ Bits(Goal') = Bits(Goal) /\ Bits(0)' = Bits(0) /\ Startup' = Startup
      /\ Tail(kbd_set_lights(Goal')) = Tail(kbd_set_lights(Goal))
  BY <1>1 DEF Goal, usbLedsToPs2, Bits, kbd_set_lights, Command, Startup, Reset, Bios, Resume
<1>5. ~(todo = << >>)
  BY <1>1
<1>6. CASE todo = kbd_set_lights(Goal) /\ ~Option
  <2>1. Head(todo).val = \hED
    BY <1>6 DEF kbd_set_lights, Command
  <2>2. todo' = Tail(kbd_set_lights(Goal')) /\ Option'
    BY <1>1, <1>2, <1>3, <1>4, <1>6, <2>1
  <2> QED
    BY <1>3, <2>2 DEF LightsOK
<1>7. CASE todo = Tail(kbd_set_lights(Goal)) /\ Option
  <2>1. Head(todo).val = Goal /\ Tail(todo) = << >>
    BY <1>7 DEF kbd_set_lights, Command
  <2>2. todo' = << >> /\ ~Option' /\ NewLights' = Bits(Goal')
    BY <1>1, <1>2, <1>3, <1>4, <1>7, <2>1
  <2> QED
    BY <1>3, <2>2 DEF LightsOK
<1>8. CASE InStartup
  <2> DEFINE left == Len(todo)
  <2>1. /\ todo \in Seq(Commands) /\ left \in 1..8 /\ hostLeds = 0
        /\ \A i \in 1..left : todo[i] = Startup[8 - left + i]
        /\ kbOption <=> left = 5
        /\ left < 5 => kbLights = Bits(0)
    BY <1>2, <1>8 DEF InStartup
  <2>2. Head(todo) = Startup[9 - left]
    <3>1. Head(todo) = todo[1] /\ 8 - left + 1 = 9 - left
      BY <2>1
    <3> QED
      BY <2>1, <3>1
  <2>3. /\ todo' \in Seq(Commands) /\ Len(todo') = left - 1
        /\ \A i \in 1..left - 1 : todo'[i] = todo[i + 1]
    BY <1>1, <2>1
  <2> HIDE DEF left
  <2>4. \A i \in 1..Len(todo') : todo'[i] = Startup'[8 - Len(todo') + i]
    <3> SUFFICES ASSUME NEW i \in 1..left - 1 PROVE todo'[i] = Startup[8 - (left - 1) + i]
      BY <1>4, <2>3
    <3>1. i + 1 \in 1..left /\ 8 - left + (i + 1) = 8 - (left - 1) + i
      BY <2>1
    <3> QED
      BY <2>1, <2>3, <3>1
  <2>5. Option' <=> left = 6
    <3>1. left = 6 => Head(todo).val = \hED
      BY <2>2, StartupList
    <3>2. left \notin {5, 6} => Head(todo).val \in {\hFF, \hF2, \hE8, \hE4, \h15}
      BY <2>1, <2>2, StartupList
    <3>3. left \notin {5, 6} => Bits(Head(todo).val) # Bits(\hED)
      BY <3>2, OnlyEDAnnounces
    <3> QED
      BY <1>3, <2>1, <3>1, <3>3
  <2>6. left < 6 => NewLights' = Bits(0)
    <3>1. CASE left = 5
      <4>1. Head(todo).val = 0
        BY <2>2, <3>1, StartupList
      <4> QED
        BY <1>3, <2>1, <3>1, <4>1
    <3>2. CASE left < 5
      BY <1>3, <2>1, <3>2
    <3> QED
      BY <2>1, <3>1, <3>2
  <2>7. CASE left = 1
    <3>1. todo' = << >>
      BY <2>3, <2>7
    <3>2. Goal = 0
      BY <2>1 DEF Goal, usbLedsToPs2
    <3> QED
      BY <1>3, <1>4, <2>5, <2>6, <2>7, <3>1, <3>2 DEF LightsOK
  <2>8. CASE left # 1
    <3>1. Len(todo') \in 1..8 /\ (Len(todo') = 5 <=> left = 6) /\ (Len(todo') < 5 <=> left < 6)
      BY <2>1, <2>3, <2>8
    <3>2. InStartup'
      BY <1>1, <1>4, <2>1, <2>3, <2>4, <2>5, <2>6, <3>1 DEF InStartup
    <3> QED
      BY <1>3, <3>2 DEF LightsOK
  <2> QED
    BY <2>7, <2>8
<1> QED
  BY <1>5, <1>6, <1>7, <1>8 DEF LightsOK

(* The last bit of a command makes of the keyboard what was announced.      *)
LEMMA HeardLights ==
  ASSUME Inv, LightsOK, Unseen, RiseReceive, hostLeds' = hostLeds
  PROVE  LightsOK'
<1>1. kbMode = "receive"
  BY DEF RiseReceive
<1>2. CASE kbPos # 10
  <2>1. UNCHANGED <<kbMode, kbLights>> /\ kbOption' = kbOption
    <3>1. ~(kbPos = FrameLen - 1)
      BY <1>2 DEF FrameLen
    <3>2. UNCHANGED <<kbMode, kbData, out, heard, kbOption, kbLights>>
      BY <3>1, Zenon DEF RiseReceive
    <3> QED
      BY <3>2, Zenon
  <2>2. (Underway' <=> Underway) /\ Sent' = Sent /\ Bits(\hED)' = Bits(\hED)
    BY <2>1 DEF Underway, Sent, Bits, Unseen
  <2>3. (Option' <=> Option) /\ NewLights' = NewLights /\ kbOption' \in BOOLEAN
    <3>1. kbOption' \in BOOLEAN
      BY <2>1, Zenon DEF LightsOK
    <3> QED
      BY <2>1, <2>2, <3>1 DEF Option, NewLights
  <2> QED
    BY <2>3, LightsKept DEF Unseen
<1>3. CASE kbPos = 10
  <2>1. /\ kbMode' = "idle" /\ kbLights' = IF kbOption THEN Sent ELSE kbLights
        /\ (kbOption' <=> ~kbOption /\ Sent = Bits(\hED)) /\ kbOption' \in BOOLEAN /\ hostData = 1
    BY <1>3, Received, Zenon
  <2>2. pc \in {"ready", "bit", "byte", "flush", "reset"}
    BY <1>1 DEF Inv, LineOK, HostOff, Following, Taking, Holding, AtStart, Clocking
  <2>3. Underway /\ ~Underway'
    BY <1>1, <2>1, <2>2 DEF Underway, Unseen
  <2>4. (Option' <=> Option) /\ NewLights' = NewLights
    BY <2>1, <2>3 DEF Option, NewLights
  <2> QED
    BY <2>1, <2>4, LightsKept DEF Unseen
<1> QED
  BY <1>2, <1>3

LEMMA LightsUnmoved ==
  ASSUME LightsOK, UNCHANGED <<todo, hostLeds, cmd, kbLights>>, kbOption' = kbOption, Underway' <=> Underway
  PROVE  LightsOK'
<1>1. Sent' = Sent /\ Bits(\hED)' = Bits(\hED)
  BY DEF Sent, Bits
<1>2. kbOption' \in BOOLEAN
  BY Zenon DEF LightsOK
<1>3. kbOption' <=> kbOption
  BY Zenon
<1>4. (Option' <=> Option) /\ NewLights' = NewLights
  <2> HIDE DEF Underway
  <2> QED
    BY <1>1, <1>3 DEF Option, NewLights
<1> QED
  BY <1>2, <1>4, LightsKept

(* The other steps of kbd_send_command() and of the keyboard.               *)
LEMMA OnTheWayLights ==
  ASSUME Inv, LightsOK, Transmit(SendStep) \/ Transmit(KeyboardStep),
         ~Transmit(BeginCommand), ~(Unseen /\ RiseReceive)
  PROVE  LightsOK'
<1>1. CASE Transmit(SendStep)
  <2>1. /\ RaiseFlag \/ LoadCommand \/ PullClock \/ ReleaseClock \/ SeeAckBit \/ SeeAckByte
        /\ hostLeds' = hostLeds
    BY <1>1, Zenon DEF Transmit, SendStep
  <2>2. UNCHANGED <<todo, cmd>> /\ UNCHANGED rest
    BY <2>1 DEF RaiseFlag, LoadCommand, PullClock, ReleaseClock, SeeAckBit, SeeAckByte
  <2>3. UNCHANGED <<kbMode, kbLights>> /\ kbOption' = kbOption
    BY <2>2, Zenon DEF rest, keyboard
  <2>4. Underway' <=> Underway
    BY <2>1, <2>3 DEF Underway, RaiseFlag, LoadCommand, PullClock, ReleaseClock, SeeAckBit, SeeAckByte, AfterWait
  <2> QED
    BY <2>1, <2>2, <2>3, <2>4, LightsUnmoved
<1>2. CASE Transmit(KeyboardStep)
  <2>1. KeyboardStep /\ hostLeds' = hostLeds /\ UNCHANGED <<pc, todo, cmd, hostClock>>
    BY <1>2 DEF Transmit, KeyboardStep, host
  <2>2. CASE FallSend
    <3>1. /\ kbMode = "send" /\ ~Preparing /\ hostClock = 1 /\ kbMode' = kbMode
          /\ ps2interrupt(FrameBit(OnTheWire, kbPos) * hostData)
      BY <2>2 DEF FallSend, Fall
    <3>2. ~cmdInProgress
      BY <3>1 DEF Inv, LineOK, HostOff, Taking, Holding, Clocking, Preparing
    <3>3. hostData' = hostData
      BY <3>1, <3>2, Zenon DEF ps2interrupt, Collect
    <3>4. kbLights' = kbLights /\ kbOption' = kbOption
      BY <2>2, Zenon DEF FallSend, Fall
    <3>5. Underway' <=> Underway
      BY <2>1, <3>1, <3>3 DEF Underway
    <3> QED
      BY <2>1, <3>4, <3>5, LightsUnmoved
  <2>3. CASE FallReceive
    <3>1. kbMode = "receive" /\ kbMode' = kbMode /\ kbLights' = kbLights /\ kbOption' = kbOption
      BY <2>3, Zenon DEF FallReceive, Fall
    <3>2. Underway /\ Underway'
      BY <3>1 DEF Underway
    <3> QED
      BY <2>1, <3>1, <3>2, LightsUnmoved
  <2>4. CASE ~FallSend /\ ~FallReceive
    <3>1. Unseen /\ (StartSend \/ StartReceive \/ Stop \/ RiseSend)
      BY <2>1, <2>4, Zenon DEF KeyboardStep, Unseen, host, sender, receiver
    <3>2. kbLights' = kbLights /\ kbOption' = kbOption
      BY <3>1, Zenon DEF StartSend, StartReceive, Stop, RiseSend
    <3>3. Underway' <=> Underway
      <4>1. CASE StartSend
        BY <3>1, <4>1 DEF StartSend, Unseen, Underway
      <4>2. CASE StartReceive
        BY <3>1, <4>2 DEF StartReceive, Unseen, Underway
      <4>3. CASE Stop
        <5>1. pc = "release"
          BY <4>3 DEF Stop, Inv, LineOK, HostOff, Taking, Holding, Clocking
        <5> QED
          BY <3>1, <5>1 DEF Unseen, Underway
      <4>4. CASE RiseSend
        <5>1. kbMode = "send" /\ kbMode' # "receive"
          BY <4>4 DEF RiseSend
        <5> QED
          BY <3>1, <5>1 DEF Unseen, Underway
      <4> QED
        BY <3>1, <4>1, <4>2, <4>3, <4>4
    <3> QED
      BY <2>1, <3>2, <3>3, LightsUnmoved
  <2> QED
    BY <2>2, <2>3, <2>4
<1> QED
  BY <1>1, <1>2

LEMMA StepLights == Inv /\ LightsOK /\ [Next]_mainVars => LightsOK'
<1> SUFFICES ASSUME Inv, LightsOK, [Next]_mainVars PROVE LightsOK'
  OBVIOUS
<1>1. CASE Transmit(SendStep) \/ Transmit(KeyboardStep)
  <2>1. CASE Transmit(BeginCommand)
    BY <2>1, BeginLights
  <2>2. CASE Unseen /\ RiseReceive
    <3>1. hostLeds' = hostLeds
      BY <1>1 DEF Transmit
    <3> QED
      BY <2>2, <3>1, HeardLights
  <2>3. CASE ~Transmit(BeginCommand) /\ ~(Unseen /\ RiseReceive)
    BY <1>1, <2>3, OnTheWayLights
  <2> QED
    BY <2>1, <2>2, <2>3
<1>2. CASE Loop
  <2>1. /\ pc = "ready" /\ todo = << >> /\ UNCHANGED ps2
    BY <1>2 DEF Loop, Idle
  <2>2. UNCHANGED <<cmd, kbMode, hostData, kbLights>> /\ kbOption' = kbOption
    BY <2>1, Zenon DEF ps2, rest, keyboard
  <2>3. ~Option /\ kbOption' \in BOOLEAN
    <3>1. todo # kbd_set_lights(Goal) /\ todo # Tail(kbd_set_lights(Goal)) /\ ~InStartup
      BY <2>1 DEF kbd_set_lights, InStartup
    <3>2. kbOption' \in BOOLEAN
      BY <2>2, Zenon DEF LightsOK
    <3> QED
      BY <3>1, <3>2 DEF LightsOK
  <2>4. CASE todo' = todo /\ hostLeds' = hostLeds /\ pc' = "flush"
    <3>1. Underway' <=> Underway
      BY <2>1, <2>2, <2>4 DEF Underway
    <3> QED
      BY <2>2, <2>4, <3>1, LightsUnmoved
  <2>5. CASE todo' = kbd_set_lights(Goal') /\ pc' = pc
    <3>1. Underway' <=> Underway
      BY <2>2, <2>5 DEF Underway
    <3>2. Sent' = Sent /\ Bits(\hED)' = Bits(\hED) /\ (kbOption' <=> kbOption)
      BY <2>2, Zenon DEF Sent, Bits
    <3>3. ~Option'
      BY <2>3, <3>1, <3>2 DEF Option
    <3> QED
      BY <2>3, <2>5, <3>3 DEF LightsOK
  <2>6. \/ todo' = todo /\ hostLeds' = hostLeds /\ pc' = "flush"
        \/ todo' = kbd_set_lights(Goal') /\ pc' = pc
    BY <1>2 DEF Loop, lufa_parse, Goal
  <2> QED
    BY <2>4, <2>5, <2>6
<1>3. CASE dump_flush \/ InstallCallback \/ UseKeyboard \/ UNCHANGED mainVars
  <2>1. UNCHANGED <<todo, cmd, hostLeds, kbMode, hostData, kbLights>>
    BY <1>3 DEF dump_flush, InstallCallback, UseKeyboard, mainVars, commandVars, bounds, ps2, rest, keyboard, host
  <2>2. kbOption' = kbOption
    BY <1>3, Zenon DEF dump_flush, InstallCallback, UseKeyboard, mainVars, commandVars, ps2, rest, keyboard
  <2>3. Underway' <=> Underway
    <3>1. pc' = pc \/ (pc \in {"flush", "reset"} /\ pc' \in {"flush", "reset", "ready"})
      BY <1>3 DEF dump_flush, PrintByte, EndOfDump, ResetDump, InstallCallback, UseKeyboard, mainVars, commandVars, host
    <3> QED
      BY <2>1, <3>1 DEF Underway
  <2> QED
    BY <2>1, <2>2, <2>3, LightsUnmoved
<1> QED
  BY <1>1, <1>2, <1>3 DEF Next, MainStep

(* When everything is quiet the lights are those of the host's last report, *)
(* however many reports came and whatever was typed while they were set.    *)
THEOREM LightsAreTheHosts ==
  ASSUME Overlap = FALSE
  PROVE  Spec => []LightsFollowHost
<1>1. Init => LightsOK
  <2> SUFFICES ASSUME Init PROVE LightsOK
    OBVIOUS
  <2>1. /\ pc = "ready" /\ kbMode = "idle" /\ hostData = 1 /\ todo = Startup /\ hostLeds = 0
    BY DEF Init, CommandInit, Startup
  <2>2. ~kbOption /\ kbOption \in BOOLEAN
    BY Zenon DEF Init, CommandInit
  <2>3. ~Option
    BY <2>1, <2>2 DEF Option, Underway
  <2>4. InStartup
    BY <2>1, <2>3, StartupList DEF InStartup
  <2> QED
    BY <2>2, <2>4 DEF LightsOK
<1>2. LightsOK => LightsFollowHost
  <2> SUFFICES ASSUME LightsOK, Idle, KeyboardQuiet PROVE kbLights = Bits(usbLedsToPs2(hostLeds))
    BY DEF LightsFollowHost
  <2>1. pc = "ready" /\ todo = << >> /\ kbMode = "idle" /\ hostData = 1
    BY DEF Idle, KeyboardQuiet
  <2>2. NewLights = kbLights
    BY <2>1 DEF NewLights, Underway
  <2>3. todo # kbd_set_lights(Goal) /\ todo # Tail(kbd_set_lights(Goal)) /\ ~InStartup
    BY <2>1 DEF kbd_set_lights, InStartup
  <2>4. NewLights = Bits(Goal)
    BY <2>3, Zenon DEF LightsOK
  <2> QED
    BY <2>2, <2>4 DEF Goal
<1>3. Inv /\ LightsOK /\ [Next]_mainVars => (Inv /\ LightsOK)'
  BY StepInv, StepLights
<1> QED
  BY <1>1, <1>2, <1>3, InitInv, PTL DEF Spec

=============================================================================
